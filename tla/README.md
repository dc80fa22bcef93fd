# A TLA+ model of OPI

OPI (Open Protocol Indexer) indexes meta-protocols on Bitcoin inscriptions. This
directory holds TLA+ modules that model its core, configurations that check them
with TLC, and theorems about them that TLAPS proves. Paths below are relative to
the repository.

## 1. The system

| component | state | operations | talks to |
|---|---|---|---|
| OPI-ord index (`ord/src/index*`) | RocksDB: headers, transfers, inscriptions, outputs; savepoints (backups); outputs of the open batch in memory | fetch blocks ahead, index a block, commit, save, detect a reorg, restore a savepoint | bitcoind, by two threads |
| OPI-ord's inscription rules (`ord/src/index/updater/inscription_updater.rs`, `ord/src/inscriptions`) | inscriptions, unspent outputs with what they hold, `ord_transfers`; per block: floating inscriptions, the fees so far | parse envelopes, curse, number, move, tell the indexers | called by OPI-ord's index for each transaction |
| reader service (`ord/db_reader`) | a secondary RocksDB view, refreshed every 5 s, behind one mutex | answers JSON-RPC: height, block hash, BRC-20 transfers of a block | OPI-ord's database; started by `Index::open` |
| BRC-20 indexer (`modules/brc20_index`) | Postgres tables, their caches in memory, the last height OPI-ord announced | replay one block after the other, follow reorgs, restart | reader service, brc20_prog, Postgres |
| brc20_prog (a server outside the repository) | EVM blocks, the last ten of them perhaps not committed | deposit, withdraw, deploy, call, finalise, commit, reorg, clear caches | the indexer, Bitcoin through the RPC proxy |
| light client, event provider, reporter | events and hashes of other indexers | replay events instead of transfers, report hashes | OPI network |
| bitmap and SNS indexers (`modules/bitmap_index`, `modules/sns_index`) | Postgres registers of names, cumulative hashes, block hashes | replay blocks one statement at a time, follow reorgs, repair residue after a stop | reader service |
| POW20 indexer (`modules/pow20_index`) | Postgres tables of events, balances, tickers; extra tables derived from them; caches in memory | the same, with transfers, mints by proof of work and a second pass for the extra tables | tables of a main indexer |
| ord-runes (`modules/runes_index/ord-runes`, a patched ord) | redb: entries, balances, headers; two log files | read runestones, move runes, commit, save, restore a savepoint | bitcoind |
| runes indexer (`modules/runes_index/index_runes.js`) | Postgres tables | run ord-runes, write the new lines of its logs to the tables, follow reorgs | ord-runes, by its exit and its log files |
| APIs | none | read the tables | Postgres |

Data flows in one direction: bitcoind, OPI-ord's index, what the index has
flushed, the reader service, the indexers, their tables, the APIs. A reorg has to
travel the same way, and each part has its own means of taking blocks back.

The BRC-20 indexer is the program's own core. One task runs its loop: bring the ledger and brc20_prog to the last block all sides
agree on (`reorg_to_last_synced_block_height`), read the hash and the transfers
of the next block, turn every transfer into an event (`EventGenerator`) and
apply it (`EventProcessor`), flush the tables in one transaction, finalise the
block in brc20_prog, and store the block's hash, which is what makes the block
count as done.

What is hard about it:

* **A block is not one transaction.** Flush, finalise, commit and the hash are
  four steps on two databases; either process can stop between any two, and
  brc20_prog forgets up to ten blocks when it does.
* **Its input moves.** Bitcoin reorgs, and OPI-ord answers a reorg by restoring
  its oldest backup, so a height can vanish and come back between two reads.
* **Double bookkeeping.** Balances, burned and remaining supply, locked amounts
  and the EVM's balances are changed by different branches, some of which return
  early or fail half way. An inscription may be spent once; whether it was is
  decided by two caches and by counts of stored events.
* **Two threads and no log in OPI-ord.** One thread fetches up to 32 blocks ahead
  while bitcoind may change forks; tables and headers are written block by block,
  outputs at the commit, without a write-ahead log; a reorg closes the database,
  which flushes it as it is, and copies a savepoint over it.
* **No transaction at all in the Python indexers.** Rows, cumulative hash and block
  hash of a block are statements of their own; what a stop leaves behind is found at
  the next start by comparing heights.
* **A log between two processes.** ord-runes writes its log while it indexes and
  commits later; index_runes.js finds out by block numbers in the log what was
  committed, and sends the statements of a pass concurrently.
* **Offsets instead of sats.** OPI-ord knows only the values of outputs; that an
  inscription stays on its sat through fees, the coinbase and lost sats is arithmetic
  on offsets, and what the indexers are told depends on counts kept over blocks.
* **Arithmetic on what strangers write.** A runestone names amounts, outputs and
  names; checked sums in ord-runes panic.
* **One mutex in the reader.** Every handler and the refresh hold it; it is not
  reentrant and a panic poisons it.

What makes each part correct:

* ledger: no token appears or disappears; locked amounts are those of unspent
  inscriptions; the EVM never owes more than the ledger holds for it; an
  inscription acts once; the swap refund leaves nothing behind.
* loop: readers see whole blocks, once each; ledger and EVM executed the same
  transfers of the same blocks; after a disturbance the indexer reaches the tip.
* OPI-ord: readers always see a chain of blocks, of which nothing is half
  written; they see it grow or be cut; after a reorg it is Bitcoin's again.
* inscriptions: each stays on its sat; the reveal and the first move of a text are
  written to ord_transfers once, in the order of the block; one inscription of a sat is
  not cursed.
* bitmap and SNS: a name belongs to the first valid inscription on the indexed chain;
  the cumulative hash of a block is that of the rows up to it.
* POW20: balances, supplies and the extra tables are what the events add up to; a
  solution is rewarded once.
* ord-runes: no rune appears or vanishes, no two have one name, a malformed message
  burns, and no message can make a sum fail.
* runes tables: between two passes they show the blocks whose hashes they store.
* reader service: an answer is of one version of the database; only a panic, or a
  handler that locks the mutex it holds, keeps requests from being answered and the
  view from catching up.

`PROJECT.json` lists every component with what is left out of it, and under
"hazards" the places where the code can go wrong in ways a test hardly reaches.

## 2. Modules

| module | models |
|---|---|
| `Brc20Ledger` | tickers, balances, one-shot inscriptions and the brc20_prog deposits, one action per kind of transfer record |
| `Brc20LedgerProofs` | its inductive invariant and eight theorems |
| `TableTheorems` | lemmas about sums of functions over finite sets, about the rows of a table by height and about the amounts of rows, used by the proofs |
| `Brc20Sync` | the run loop, reorgs, restarts, brc20_prog and OPI-ord around it |
| `Brc20SyncProofs` | its inductive invariants, its refinement of `Brc20Replay`, the invariant of `LightClient`, and six theorems |
| `Brc20Replay` | the abstract promise of the tables: whole blocks appended and removed at the end |
| `LightClient` | the same loop in light client mode: events of other indexers, compared afterwards |
| `OrdIndex` | OPI-ord's index: batches, commits, savepoints, reorgs, kills and errors, with Bitcoin around it |
| `OrdIndexProofs` | its inductive invariants and four theorems |
| `Envelope` | the inscriptions in a tapscript |
| `Inscriptions` | what OPI-ord does with the transactions of a block: reveals, moves, curses, numbers, fees |
| `DbReader` | the reader service: handlers and refresh loop on one mutex |
| `DbReaderProofs` | its inductive invariant and two theorems |
| `Rows` | the rows of a table with a column `block_height` |
| `Registry` | the bitmap and the SNS indexer: one loop, two kinds of register |
| `RegistryProofs` | its inductive invariant and three theorems |
| `Pow20` | the POW20 indexer: ledger, proof of work, extra tables |
| `Pow20Proofs` | its two inductive invariants and three theorems |
| `Runestone` | the integers of a runes message as an artifact, and back |
| `Runes` | what ord-runes does with a block of transactions, loop by loop |
| `RunesProofs` | its inductive invariant and six theorems |
| `RunesTables` | a run of ord-runes with its transactions, savepoints and logs, and the passes of index_runes.js |
| `MCBrc20Ledger`, `MCBrc20Sync`, `MCInscriptions`, `MCLightClient`, `MCRegistry`, `MCPow20`, `MCRunes`, `MCRunesTables` | constants for TLC that a cfg cannot write down |

`Brc20Sync` contains OPI-ord as the two actions `OpiIndex` and `OpiRestore`: a
block appears, or blocks disappear at the end. That no other change is visible is
what `ServedCutOrExtended` of `OrdIndex` shows of the real index, with one exception:
in a second reorg OPI-ord may restore a savepoint of the fork that the first one
replaced. `Brc20Sync` leaves that out.

Definitions named `...` with a comment "Mutant:" are faulty variants of the
definition that follows them. No specification uses them: they serve to test
that a property notices such a fault.

### 2.1 Brc20Ledger

Variables: `tickers` is table `brc20_tickers` with its cached copy; `overall`
and `available` are the two balances of `Brc20Balance`; `inscribed` and `moved`
are the inscriptions with an inscribe or a transfer event, `dbInscribed` and
`dbMoved` those already flushed; `cached` and `validity` are `cached_events` and
`transfer_validity_cache`; `evm` is what brc20_prog's BRC20 controller holds;
`chain` is what OPI-ord tells of an inscription (content, owner at reveal,
present output); `halted` says that the loop returned an error.

| action | code |
|---|---|
| `Deploy`, `Mint` | `brc20_deploy_inscribe`, `brc20_mint_inscribe` with the checks before them |
| `InscribeTransfer`, `InscribeWithdraw`, `RevealIgnored` | `brc20_transfer_inscribe`, `brc20_prog_withdraw_inscribe`, and reveals that leave no event |
| `TransferToFee`, `TransferToBurn`, `TransferToProgTooEarly`, `TransferToProg`, `TransferToScript`, `TransferDeclined` | the branches of `brc20_transfer_transfer` |
| `WithdrawToOpReturn`, `WithdrawRefused`, `WithdrawPaid`, `WithdrawFails` | the branches of `brc20_prog_withdraw_transfer` |
| `NextBlock`, `RefundFails` | flush, cache clear or restart, and `Brc20SwapRefund` at its height |

An action is the whole handler of one record: the generator's checks, the event
record, the processor's changes. Amounts are `u128` and wrap, as in the release
build the README asks for (`README.md:189`): `Plus` and `Minus` work modulo
`Width`. The proofs show that the overall balances and the supplies never wrap
(`Conservation`, `WithinSupply`), nor the available balances but one: that of the
brc20_prog script, which a withdraw lowers unchecked (`event_processor.rs:279`), may
wrap if a transfer inscription was revealed to that script. The one call to
brc20_prog that can fail after the ledger changed, `brc20_deposit`, has both an
answer and an effect in the model; they need not agree.

Abstracted: names are model values with one bit, whether the name has six bytes;
decimals and JSON are gone; the rules for which deploy text is accepted are not
modelled, so `Deploy` may happen more often than in the code. A 6-byte ticker
waits for phase one.

### 2.2 Brc20Sync

Heights count from the first BRC-20 height = 1. A block at height h is known by
its fork number. `hashes` is `brc20_block_hashes`; an entry `[h, b]` of `ledger`
stands for all rows that applying block b at height h writes, and the ledger is a
bag, because a block applied twice leaves its rows twice; `pending` holds entries
that are in memory only. `prog` are the blocks of brc20_prog from phase
one on, `saved` how many are committed, `open` the block it is executing. `pc` is
the await point of the loop at which a crash or a foreign step can happen. Every
call to Postgres, OPI-ord or brc20_prog after which something else can happen is
a step of its own:

    down -Start-> align -Align-> walk -WalkFound/WalkDiffers-> [prog] -> clear -> align (first time)
    align -> walk -> [prog] -> next -ReadHash-> read -ReadTransfers-> [flush] -> finalise -> [commit] -> hashes -> align

Any error ends the process (`Exit`), because `main` returns the error of `run`;
an operator or a supervisor starts it again (`Start`). Outside the repository
and modelled from how the code uses it: Bitcoin (`Mine`, `BitcoinReorg`),
OPI-ord's visible chain (`OpiIndex`, `OpiRestore`) and brc20_prog. Of brc20_prog
the model assumes that it numbers blocks itself, that `brc20_clear_caches` and a
restart drop what is not committed, that `brc20_reorg` removes the blocks above
a height and that `brc20_finalise_block` is refused when its number of
transactions differs. `MaxCrashes` bounds crashes of both processes, `MaxHeight`
and `Forks` the chain; `Final` is the height below which no reorg and no
restored backup reaches.

Left out: light client mode (2.10), the reporter, extras tables, trace hash upgrades,
blocks below the first height, `block_time`.

### 2.3 OrdIndex

Blocks count from 1. Block n of fork f is the pair n, f; a chain is the sequence of
the forks of its blocks, and `base[f]` is what fork f shares with the one it left,
so that "previous hash" is `Parent`. A database is a record: `headers` is
`height_to_block_header`, `rows` the inscription and transfer tables block by
block, `stored` the blocks whose outputs are in `outpoint_to_utxo_entry`, `last`
the statistic `LastSavepointHeight`. `db` is the database as its process sees it,
`disk` what is flushed, `cache` the blocks whose outputs are still in `utxo_cache`,
`backups` the savepoint directories, `queue`, `fetchAt` and `fetching` the channel
and the thread behind it.

| action | code |
|---|---|
| `Open`, `StartUpdate` | `Index::open`; `Index::update`, `Updater::update_index` up to its loop |
| `Fetch` | the thread of `fetch_blocks_from` |
| `IndexBlock`, `ReorgDetected`, `ReorgTooDeep` | `index_block` with `Reorg::detect_reorg` and its three outcomes |
| `Decide`, `EndBatch` | when the loop commits |
| `Commit`, `Purge`, `Backup`, `Mark` | `Updater::commit`, `Reorg::update_savepoints` |
| `Restore` | `subcommand/index/update.rs` and `Reorg::handle_reorg` |
| `ShutDown`, `Crash`, `FaultInBlock`, `FaultBetweenBlocks` | a signal, a kill, an error or panic inside or between two blocks |
| `Mine`, `BitcoinReorg` | Bitcoin; a reorg makes the chain longer |

RocksDB is external and modelled by what the code relies on: writes go to memory
without a log; `flush_cfs_opt` makes all column families durable together; closing
the database flushes it; a kill loses what is not flushed. The memtables hold 8 GiB,
so no flush happens in between. `ShutDown` leaves the loop through its end, which
commits; closing and opening the database after that changes nothing and is left
out. The content of rows is not modelled: a row stands for everything the block
writes.

### 2.4 DbReader

A database is its version, a call reads two tables under the lock. `Relocking` are
the calls that lock once more while they hold the guard
(`get_inscription_info`, `get_inscription_info_by_sequence_number`): they do so if the
first table has the inscription, which is there from version `Revealed` on
(`LocksAgain`). `Panicking` are those whose handler may fail at an unwrap: of an error
of RocksDB, or of the place in the row of an inscription that was lost
(`load_satpoint`, `server.rs:234`). `std::sync::Mutex` leaves open whether
locking it twice blocks or panics; on Linux it blocks, which is what is modelled.
The service runs inside the process of the index (`index.rs:250`), so a restart of
the one restarts the other, and the model covers one such life.

### 2.5 Registry

`kind` says which of the two indexers runs. `rows` is `bitmaps`, or `sns_names` and
`sns_namespaces`; `cumul` and `hashes` are the cumulative and the block hashes. A hash
is what it is the hash of. Steps are the statements of the main loop of
`bitmap_index.py` and `sns_index.py`, which differ in what registers and in nothing
else that the model keeps:

    down -Start-> residue -CheckResidue-> height -ReadHeight-> hash -ReadHash-> tip -CheckTip-> read
    read -ReadInscriptions-> index -Register, one each-> -UpdateEventHashes-> -StoreHash-> height
    tip -CheckTip-> walk -WalkFound/WalkBack/WalkEnds-> height or the end of the process

Names and contents are records of the few bits the parsers look at. OPI-ord may change
between the calls for hash and inscriptions; `source` and `sources` remember which
block was read and exist for the properties only. `FirstIsFirst` is about blocks
whose two reads agree.

### 2.6 Pow20

`tickers`, `evs`, `historic`, `cumul`, `hashes` are the main tables, `current`,
`unused`, `xhashes` the extra ones, `ticks` and `cache` the two caches. Each kind of
event is an action (`Deploy`, `Mint`, `TransferInscribe`, `TransferNormal`,
`TransferToFee`) with its checks; the event and the rows it causes are one
transaction. `BeginExtra` and the steps after it are
`index_extra_tables`, one statement each (all inserts of a block come before its
deletes; the code has them in the order of the events), `ReorgFix` and `ReorgExtra` the two
rollbacks. A solution is a record of what its hash commits to and of its number of
zeros. A transfer can be spent if its inscription has exactly one inscribe event and no
send (`Usable`), and what is inscribed under an id never changes (`Pow20Assumption`).

`Raises` are the inscriptions that end the process by an exception, again after each
restart, because the block comes again:

* the mint of a ticker deployed in the same block, whose cache entry has three elements
  of which the mint reads the fifth (`pow20_index.py:551`);
* a `startBlock` above int4, which nothing checks (`pow20_index.py:519`,
  `db_init.sql:47`), at the insert of the ticker;
* a number that is no text but, say, a list of digits: the two checks of numbers iterate over
  it, what converts it fails (`odd`);
* a solution that is no text and cannot be split (`pow20_index.py:565`), if the mint
  comes that far.

`ReachesTip` excepts chains on which the process meets one of them again and again.
`Repeats` ends it too: the table of events is unique in type and inscription
(`db_init.sql:35`), so a second inscribe, deploy or mint event of one id, which a reader that changes
forks between two calls can offer, fails and rolls back. It does not last: the next
start sees the reorg.

The indexer reads tables `ord_transfers` and `block_hashes` of a main indexer
that is not part of the repository; it is modelled as `opi`, a chain that follows
Bitcoin's.

### 2.7 Runestone and Runes

`Runestone` translates `Runestone::decipher` and `encipher` on the integers of the
payload: tags, flags, edict deltas, and each flaw that makes a cenotaph. `Runes` has one
action per loop of `RuneUpdater::index_runes`: `TakeInput` per input, `MintRune`,
`Etch`, `NextEdict` and `Allocate` per edict and output, `CreateRuneEntry`, `Rest` for
what the pointer or a cenotaph decides, `WriteOutput` per output, `EndTx`, and
`EndBlock` for `update`. `unallocated`, `allocated` and `txBurned` are the maps of the
same names; `net` sums the event lines that OPI's patch writes to the log, by rune.
`panicked` is set where a checked operation, an assertion or an unwrap fails.
Widths are the constants `U32`, `U64`, `U128`. Left out: varints and script pushes,
divisibility, spacers, symbols, and the search for a commitment to a name, which is the
input `commits` of a transaction.

### 2.8 RunesTables

One block's changes are a list of operations (`Ops`): a rune etched, minted or burned,
an output created or spent. `Lines` are the log lines they cause. `index` is what
ord-runes has committed, `pending` that with the open transaction, `saves` its
savepoints; a run commits at its end, or at a reorg, which restores the oldest
savepoint (`reorg.rs`). index_runes.js goes through

    check_db -> ord -> compare -> [reorg] -> clean -> insert -> update -> cumul -> hashes -> empty -> ord

where `todo` holds the statements of a pass that are still running and `delayed`
those that wait for them; statements of one pass finish in any order. `fix` are
running calls of `handle_reorg`; the one that `check_db` starts is not awaited
(`index_runes.js:864`). The state "unrecoverable" stands for a run of ord-runes that
fails at the same block again and again.

`ReachesTip` covers a process that is stopped while it reads, compares or walks back, and
a run of ord-runes that fails once. It excepts a reorg that is too deep or comes in the
middle of a run of ord-runes (see `TablesReorg.cfg`); a log that can never be read
(`Unreadable`: a run failed and left lines, and there was a reorg or a stop besides); and
a stop in the middle of a pass that writes to the tables (`torn`): of such a pass only the
inserts are undone, by a repair that races with the next pass, so rows may stay wrong or
collide. `TablesFollow` excepts the last of them too, and a failing run or a stop that
comes together with a reorg.

The model starts from an empty index with a
savepoint, and leaves out the height limit of a run and the commit
after 5000 blocks, the seed rune, statements sent in batches, addresses and statistics.

### 2.9 Envelope and Inscriptions

`Envelope` reads a script instruction by instruction: `ReadInstruction` is one turn of
`from_tapscript` and `from_instructions`, `Parsed` what the pushes say. Contents are
numbers; of the tags, the content type, the pointer and the parent are kept, and every
other even one is unknown.

`Inscriptions` indexes a block transaction by transaction, the coinbase last.

| action | code |
|---|---|
| `IndexTx` | `index_utxo_entries` for one transaction, with `index_inscriptions`: `Floating` is its loop over the inputs, `Settle` that over the outputs, `Afloat` what is left for the fees |
| `IndexCoinbase` | the same for the coinbase, which settles the fees' inscriptions and loses what it does not claim |

`Move` is `update_inscription_location`. `utxos` is `outpoint_to_utxo_entry` with
`utxo_cache` (their difference is the subject of `OrdIndex`), `ins` the inscription
entries, `txcnt` the counts of moves, `rows` the table `ord_transfers`, `flotsam`,
`reward`, `idx` and `early` the fields of `InscriptionUpdater`. Bitcoin is modelled beside
it sat by sat: `coins` says which sats an output has, `paths` where each sat has been,
`fees` which sats the coinbase may claim. The indexer sees values and offsets only; the
properties compare its offsets with the sats. `sat` and `before` of an entry are of that
kind and exist for the properties only.

`FirstMovesTold` is about the rows of ord_transfers, as the code writes them. Two things
are to be known of them. The comment above the condition says "only track non-cursed and
first two transactions" (`inscription_updater.rs:501`), but the condition does not ask
whether a text is cursed, and rows of cursed ones are written: who reads them has to look
at `cursed_for_brc20`. And the row of a move that lost its inscription names no output:
the index writes it, but `db_reader` unwraps what it cannot load for it
(`server.rs:234`), so a call for that block panics (see 2.4).

Left out: the charms that only describe (except `lost`, `unbound`, `vindicated`,
`reinscription`), chunked tags, the fee of an inscription, the bytes of the rows, events
of the channel, inputs that are fetched from bitcoind because the index starts late.

### 2.10 LightClient

`LightClient` extends `Brc20Sync`. The steps both modes share (`SharedStep`: start,
alignment, the search for a common block, residue, flush, finalise, commit) are those of
`Brc20Sync`, and `Stored` says that `brc20_cumulative_event_hashes` loses the same heights
as the other tables. What differs is where a block comes from and how it ends.

| code | model |
|---|---|
| `get_best_verified_block` | `Wait`, or `WaitUnanswered`: the old height is kept |
| `get_block_info_with_retries` | `ReadBlockInfo`: hash and cumulative hashes in one answer, kept in `expected`; the process ends when there is none |
| `get_events`, `pre_fill_rpc_results_cache` failing | `EventsFail`: the loop begins again |
| `process_events` | `ReadEvents(b)`, or `EventsRefused(b)` when the events of another block do not fit the tables |
| `set_block_hashes` | `StoreHashes` |
| comparison in `run` | `Verify`, then `Undo` and the end of the process |

`opi` is here the chain that the OPI API calls best. A cumulative hash is a hash of hashes
of everything below, so it is modelled by what went into it: `sums` has the events and the
traces stored for each height, the traces being those of the block that brc20_prog has at
that number, and `expected` is the chain whose hashes the API answered. `b` is the block
whose events an indexer gives: any fork's, or none. None is real: `activity_on_block` of
`modules/brc20_api/api.js` checks the height and reads the rows in two queries, and a
reorg in between leaves an empty list.

Left out: what single events do (see `Brc20Ledger`); Bitcoin RPC results, which change
only where the EVM gets its answers; an API that names no indexer (`get_events` divides by
their number and panics); `validate`; the upgrade of trace hashes.

## 3. What TLC checks

| run | bounds | shows |
|---|---|---|
| `ledger` | 1 ticker, supply 2, two wallets and three OP_RETURN scripts, 2 inscriptions, 2 blocks | `TypeOK`, `SupplyConserved`, `EscrowBacked`, `ProgSolvent`, `SpendableIffUnspent`, `ChangesAreRecorded`, `SwapEmptied` |
| `sync` | 5 blocks, 3 forks, 2 crashes, reorgs and rollbacks not below phase one, with fairness | `TypeOK`, `AppliedOnce`, `Synced`, that the tables implement `Brc20Replay` (`WholeBlocks`), `ReachesTip` |
| `light` | 3 blocks, 2 forks, reorgs to the first height, one crash of either process, wrong, empty and missing answers, with fairness | `WrongIsTakenBack`, `LightReachesTip` |
| `ord` | 9 blocks, 3 forks, a commit and a savepoint every third block, 2 savepoints, 2 blocks ahead, one kill or shutdown, one error | `TypeOK`, `ServedIsAChain`, `OnlyWholeBatches`, `ServedCutOrExtended` |
| `ord_fair` | 11 blocks, one reorg of at most 2 blocks, savepoints every fourth block, no kill, with fairness | `ServesBitcoin` |
| `reader` | 4 calls, one for an inscription that the second flush reveals, one that may panic, 3 flushes, with fairness | `OneVersion`, `Answered` |
| `runes` | 2 blocks of 2 transactions out of 14, 2 outputs, 2 inputs, 5-bit amounts | `TypeOK`, `Conserved`, `NoPanic`, `NamesUnique`, `EventsBalance`, `RoundTrip`, `CenotaphBurns` |
| `registry` | 4 blocks, 3 forks, both kinds, depth 2, one crash, with fairness | `FirstIsFirst`, `HashesNameRows`, `ReachesTip` |
| `pow20` | 5 blocks, 3 forks, 2 tickers, 2 accounts, depth 2, one crash, a mint in the block of its deploy, a start that is too large, three odd values, an inscription on two forks, with fairness | `BalancesFollowEvents`, `WorkCountsOnce`, `DerivedFollow`, `ReachesTip` |
| `tables` | 3 blocks, 2 forks, 2 runes, savepoints every second block, one failing run, one crash below height 3, with fairness | `TablesFollow`, `ReachesTip` |
| `inscriptions` | 2 blocks of 2 transactions out of 6 and 2 coinbases, 4 sats, subsidy 1, the jubilee at the second block | `OnSat`, `FirstMovesTold`, `OneBlessed` |

Why the bounds are enough: an inscription touches one ticker, its source, one
destination and perhaps the brc20_prog script, so two inscriptions and two
wallets contain every pair of interfering spends, and two blocks every way the
caches can be cleared between an inscribe and a spend. Supply 2 makes a mint
that is clipped, a partial balance and an overflow (`Width` 4) possible. In
`Brc20Sync`, brc20_prog commits every second block instead of every tenth, so
five blocks contain two commits with an uncommitted block in between, on both
sides of a reorg; a third fork allows a reorg during the recovery from another. The run
`sync` replaces no block below phase one, so there `WalkDiffers` always finds a common
block; `light` takes it to the first height. In
`LightClient`, three heights contain one below phase one, the first of phase one, which is
committed, and one that is not; four (`LightClientLong.cfg`) pass too, in four minutes.
`CONSTRAINT FullSupply` fixes the supply and the mint limit of deployed tickers
at their largest values. In `OrdIndex`, nine blocks contain three batches, the
purge of a savepoint and a reorg that begins while an earlier one is repaired; two
blocks ahead are enough for a channel that mixes forks. In `Runes`, two blocks of two
transactions contain an etching with its mint in the same and in the next block and
spends across both; `U128` = 32 makes supplies that just fit and one that does not.
The texts of `Registry` and `Pow20` are chosen so that forks disagree about who is
first; the fifth block of `Pow20` lets an inscription be sent that two forks reveal at
different heights. Depth 2 instead of 10 makes a reorg that is too deep. In
`Inscriptions`, a height stands for one at which something happens, so two blocks
contain a reveal, its three next moves, one through the fees, and an inscription cursed
before and one vindicated after the jubilee; the transactions contain a pointer, an
output of no value, a number opcode, a parent, and two envelopes in one script; the
coinbases pay a fee or lose it. `MaxEvents` of
`RunesTables` bounds what a process that fails at every restart can write. `Final` is 2 there, below
the first savepoint interval, where every block gets a savepoint. Deadlock checking
is off for the ledger, for OPI-ord, its inscriptions and for the reader, whose blocks
and calls run out, and on for the loop.

In the `ledger` run a mint or transfer may happen at every block height, also at
the one where the refund happened; `ProgEnabled` is true because the other case
only removes actions. Activation heights are constants of the module, about which
the proofs assume nothing.

Fairness: in `Registry` and `Pow20`, weak fairness of the indexer (its loop
catches no exception, the process ends and is started again), of Bitcoin and of the
indexer before it. In `RunesTables`, weak fairness of index_runes.js with its calls of
ord-runes, and of Bitcoin growing: a reorg in the model makes the chain longer, and
ord-runes notices one only when there is a next block. In `Brc20Sync`, weak fairness of the indexer's next step, which includes
the restart after an exit, because its loop never blocks for ever (every call
has a timeout or an answer) and deployments run it under a supervisor; weak
fairness of OPI-ord, whose updater loop polls Bitcoin. In `LightClient`, strong fairness
of an answer of the API and, at each height, of the right events: the client asks the
indexers in random order, so one that has the block is asked again and again. In `OrdIndex`, weak fairness
of the updater and of the fetching thread, each of which loops and retries; after
an exit the process is started again. In `DbReader`, weak fairness of every call and
of the loop, and strong fairness of locking: a call that asks for the mutex gets it
in the end although others ask too. Nothing forces blocks, reorgs, flushes, kills or
panics, and the bounds make them finitely many, which is the premise of every
liveness property here: the system catches up once the disturbances end.

### Findings

One run is expected to fail; it checks a property that the documentation claims.

* `burns_restored`: `Brc20Database::reorg` gives minted supply back but leaves
  `burned_supply`, so a burn in a removed block is counted, and counted again
  when it is replayed.

### Further configurations

These belong to no run of `PROJECT.json`. The first two pass, the others fail and show
what the passing runs leave out and why.

| configuration | module, property | shows |
|---|---|---|
| `MCBrc20SyncDeep.cfg` | `MCBrc20Sync`, `WholeBlocks` | passes: reorgs to the first height and an indexer that follows only one block; `Implements` proves it in general |
| `LightClientLong.cfg` | `MCLightClient`, `WrongIsTakenBack`, `LightReachesTip` | passes: the run `light` with four heights |
| `SyncPhaseOne.cfg` | `MCBrc20Sync`, `ReachesTip` | a reorg that replaces the phase-one block removes it from the ledger only: brc20_prog keeps it, and the indexer walks back and replays for ever. `ReachesTip` therefore needs `Final >= PhaseOne` |
| `SyncRefund.cfg` | `MCBrc20Sync`, `RefundStored` | the refund of a block without transfers is not flushed before the block's hash; a crash loses it and `init` refuses to start |
| `OrdSavepointCrash.cfg` | `OrdIndex`, `ServesBitcoin` | a kill between `Backup` and `Mark` makes the savepoints adjacent, so an ordinary reorg is below both |
| `OrdDeepReorg.cfg` | `OrdIndex`, `ServesBitcoin` | a reorg that counts as recoverable but is below the oldest savepoint restores it for ever: the depth assumes savepoints at multiples of the interval |
| `OrdFaults.cfg` | `OrdIndex`, `AllWhole` | an error in an open batch closes, and so flushes, tables whose outputs were still in memory |
| `DbReaderPoison.cfg` | `DbReader`, `OthersAnswered` | after one panic every later call panics on the poisoned mutex |
| `DbReaderRelock.cfg` | `DbReader`, `OthersAnswered` | a call for an inscription that exists locks the mutex it holds: it is never answered, neither is any other, and the view is never refreshed. `Answered` excepts it |
| `SyncTwoReads.cfg` | `MCBrc20Sync`, `HashNamesTransfers` | hash and transfers of a block are two calls; if OPI-ord rolled back in between, the second answers with an empty list and the block is stored without its transfers |
| `SyncTipOnly.cfg` | `MCBrc20Sync`, `FollowsBitcoin` | only the hash of the last stored block is compared; if OPI-ord switches forks after that, the new block is stacked on the old fork and no later check looks below it |
| `OrdTwoReorgs.cfg` | `OrdIndex`, `ServesBitcoin` | `handle_reorg` restores the oldest savepoint and keeps the newer one of the replaced fork; a second reorg restores that one for ever, and readers come to it from another fork without a cut in between: the exception of `ServedCutOrExtended` |
| `RegistryResidue.cfg` | `MCRegistry`, `NoResidueLeft` | residue is looked for in the registers only (`bitmap_index.py:262`, `sns_index.py:384`): after a stop behind the cumulative hash of a block without rows, every later pass fails on that hash |
| `TablesReorg.cfg` | `MCRunesTables`, `ReorgProtection` | `detect_reorg` of ord-runes looks up the previous block among the committed headers. When Bitcoin changes forks while a run has blocks in its open transaction, there is none to compare with, and the new fork's next block is put on top of the replaced ones and committed |
| `TablesUpdates.cfg` | `MCRunesTables`, `UpdatesAfterInserts` | an update is applied only above the stored height, which the insert of the same pass has set: a rune that is minted in the block that etches it, and then no more, shows no mint |
| `TablesResidue.cfg` | `MCRunesTables`, `ResidueFixed` | the repair at the start is not awaited and races with the first pass, whose rows it may delete |

`ReachesTip` also needs that phase one begins at a height at which brc20_prog
commits. This is so on every network in `config.rs` (912690, 230000 and 0 are
multiples of ten); with another height, a restart of brc20_prog between phase one
and the next commit leaves it below phase one, where no alignment happens.

## 4. What TLAPS proves

### 4.1 The ledger

`Brc20LedgerProofs` proves, for every finite set of wallets and inscriptions,
every set of tickers, every supply and every activation height:

| theorem | property |
|---|---|
| `TypeCorrect` | `[]TypeOK` |
| `Conservation` | `[]SupplyConserved` |
| `WithinSupply` | no overall balance exceeds the supply minted and not burned |
| `Escrow` | `[]EscrowBacked` |
| `Solvency` | `[]ProgSolvent` |
| `SpendOnce` | `[]SpendableIffUnspent` |
| `Recorded` | `ChangesAreRecorded` |
| `RefundComplete` | `SwapEmptied` |

Assumptions: `LedgerAssumption` (the special scripts are distinct and no wallets,
the supply is smaller than `Width`) and `UnbornAssumption`.

`TypeCorrect` is the shape of the state, and that a mint takes no more than is left: its
range of balances is closed under the arithmetic modulo `Width` and shows nothing about
overflow. That is `Conservation`, which a sum or a difference that wraps would break, with
`WithinSupply`: no overall balance is more than what was minted and not burned, and no
available balance but that of the brc20_prog script more than the overall one.

None of the money invariants is inductive alone. `SupplyConserved` needs that no sum
wraps, because every balance is at most the supply, which is smaller than `Width`, and
that no subtraction wraps: that a spent inscription's amount is still in its source's overall balance, which is `EscrowBacked`, and
that a paid withdraw finds its amount under the module's script, which is
`ProgSolvent`; `EscrowBacked` needs that an inscription is accepted only once,
which is the agreement of caches and events. The inductive invariant is their
conjunction with two facts about the caches:

    IInv == TypeOK /\ Fresh /\ CachesAgree /\ SupplyConserved /\ EscrowBacked /\ ProgSolvent

* `Fresh`: an inscription that is not revealed has no event.
* `CachesAgree`: a validity or cached event that is present tells the same as the
  recorded events, and flushed events are recorded ones.

The step proof goes through one lemma per part (`TypeStep`, `FreshStep`,
`CachesStep`, `MoneyStep`), with one step per action. `TableTheorems` supplies what
`SumFunctionOnSet` does when one or two values of a function change.

### 4.2 OPI-ord's index

`OrdIndexProofs` proves, for any number of blocks, forks, reorgs of any depth,
savepoints, kills and errors:

| theorem | property |
|---|---|
| `TypeCorrect` | `[]TypeOK` |
| `ServedChain` | `[]ServedIsAChain` |
| `WholeBatches` | `[]OnlyWholeBatches` |
| `ReadersFollow` | `ServedCutOrExtended` |

The only assumption is `IndexAssumption`: the constants are natural numbers and the
intervals are positive.

`ServedIsAChain` is not inductive: the next block fetched may be of a fork that
Bitcoin has left since, and only its link to the last header is compared. The
invariant describes chains without recursion. `At(B, f, m)` is the block that fork f
has at height m; a chain is `Straight` when below each of its blocks lies the chain
of that block's fork, and `Real` when it is also no longer than Bitcoin's chain and
of forks that exist. Then

    IInv == TypeOK /\ Limits /\ Forking(base, best) /\ Databases /\ InOrder /\ Ahead

* `Forking`: forks leave earlier ones, and Bitcoin's chain is that of the last.
* `Databases`: the headers in memory, on disk and in every savepoint are real chains.
* `InOrder`: the channel continues the headers height by height, with blocks that
  exist.
* `Ahead`: a block that Bitcoin still has below a fetched one was already there when
  that one was fetched. `WholeBatches` needs it.

A new fork never changes `At` of the others (`AtKept`), so real chains stay real
(`RealStep`), and a block whose parent is the last header extends one
(`RealExtended`).

`OnlyWholeBatches` needs a second invariant, because a reorg closes the open batch
and leaves tables on disk whose outputs are lost. `Unbroken` says that, as long as
there was no error, savepoints are whole and the database is either `Sound` (what is
on disk is whole, and tables and headers are those of `stored` followed by `cache`) or
`Stranded`: its headers are of a fork that Bitcoin left and the first fetched block
does not link to them. A reorg is detected only off Bitcoin's chain (`NoLink`, by
`Ahead`), forks never come back (`OffBestKept`), and whatever is fetched from then on
does not link (`NextOffBest`), so nothing can be indexed on a stranded database until
a savepoint replaces it.

`ServedCutOrExtended` is about one step, and what it needs of the state is `Steady`:
memory extends the disk, and every savepoint of Bitcoin's chain agrees with what is
indexed and with what is fetched ahead (`Follows`), so restoring it is a cut or an
extension. A savepoint of a fork that Bitcoin left need not agree with anything, and
restoring it is the exception the property names. After that the database is `Stuck`:
stranded on its oldest savepoint, which is restored again and again. That is final
(`StuckStep`), so the exception happens at most once.

### 4.3 The runes ledger

`RunesProofs` proves, for any set of transactions with any payloads, any number of
blocks, outputs and inputs, and any widths of the integers:

| theorem | property |
|---|---|
| `TypeCorrect` | `[]TypeOK` |
| `Conservation` | `[]Conserved` |
| `NeverPanics` | `[]NoPanic` |
| `UniqueNames` | `[]NamesUnique` |
| `EventLinesBalance` | `[]EventsBalance` |
| `CenotaphsBurn` | `CenotaphBurns` |

The only assumption is `RunesAssumption`. It holds that the index of a transaction fits
a u32, without which two unnamed runes could get one name (`NamesApart`), and that
payloads are made of u128.

`DecipherSound` says what is known of an artifact whatever the payload says: edicts
name an output or one past the last, the pointer names an output, a cenotaph has no
edicts, and the supply of an etching is a u128. From then on

    IInv == TypeInv /\ PlaceInv /\ PhaseInv /\ SpreadInv /\ EntryInv /\ NameInv
            /\ Conserved /\ NetInv /\ NoPanic

* `PlaceInv`: a rune or a balance belongs to a transaction that is behind, or to the one
  in progress, which makes its rune before its outputs. So nothing is overwritten.
* `PhaseInv`: what the transaction in progress holds in each phase; a cenotaph never
  allocates.
* `SpreadInv`: an edict of equal parts asks for exactly what was there when it began,
  and its closure is called once per output.
* `EntryInv`: mints are below the cap, so what was issued is below the supply that
  decipher bounded. With `Conserved` this bounds every sum of the updater (`AllFits`),
  which is why none of them panics.
* `NameInv`: a name is below `Reserved` or the one of the rune's place, and the name of
  the etching in progress is not taken.
* `NetInv`: the event lines written so far are what the transaction still holds.

`RoundTrip` is about what recursive functions compute for every input and stays with TLC.

### 4.4 The reader service

`DbReaderProofs` proves, for any number of calls and flushes, and whichever calls
relock or panic:

| theorem | property |
|---|---|
| `TypeCorrect` | `[]TypeOK` |
| `ConsistentAnswers` | `[]OneVersion` |

The only assumption is `ReaderAssumption`: the loop and the calls are distinct. The
invariant adds to the two properties that a handler owns the mutex from its first table
to its last (`Exclusive`) and that what it read first is the view that is shown
(`Steady`): the loop, which needs the mutex too, cannot refresh in between.

### 4.5 The run loop

`Brc20SyncProofs` proves, for chains of any length, any number of forks and crashes and
reorgs of any depth:

| theorem | property |
|---|---|
| `TypeCorrect` | `[]TypeOK` |
| `NoBlockTwice` | `[]AppliedOnce` |
| `Implements` | `WholeBlocks`: `Brc20Sync` implements `Brc20Replay` |
| `LedgerAndEvmAgree` | `[]Synced`, if `PhaseOneBuried` |

The first three assume `SyncAssumption` only. `AppliedOnce` is not inductive: whether a
flush writes a height a second time depends on what is in memory and on where the loop
is. The invariant `IInv` adds to the types:

* `Control`: what the program counter says of the other variables; a block being indexed
  is the one right above the last hash, and it is indexed only after `init` has looked
  for residue.
* `Entries`: each height has one entry, on disk or in memory; an entry above the last
  hash is of the block being indexed, or residue that `clear_caches` will find before
  anything is indexed; what is in memory for a block that has its hash is a refund, which
  carries no transfers.
* `Executed`: from the flush to the hash, the ledger holds the transfers of the block
  that is being indexed and no others.

For the refinement, `Executed` makes `SetBlockHashes` a step `Apply` of `Brc20Replay`,
the last clause of `Entries` makes `Flush` a stutter, and every `DbReorg` removes blocks
from the end.

`Synced` compares two databases that are changed in two calls, so between them it does
not hold. `JInv` says what does, at each place of the loop:

* `BelowAgreed` holds everywhere: ledger and EVM agree at every height both have, except
  perhaps at the last of the EVM's, if that block was given to it for another height. A
  `brc20_finalise_block` names no height, so after a restart in the middle of a block
  brc20_prog appends the block at the wrong place; the agreement below it is what lets
  `Matches`, one comparison at one height, vouch for all heights below.
* `AllAgreed` holds from the end of the walk to the finalising of a block: a block at the wrong place cannot be a common block,
  and the reorg that follows removes it.
* `Buried` follows the block of phase one through OPI-ord, the indexer, the ledger and
  the EVM.

`PhaseOneBuried` says that no reorg and no restored backup reaches the phase-one height and
that brc20_prog commits at it. The first is needed: `brc20_reorg` never removes the block
of phase one itself, so the EVM keeps it when the ledger replaces it, and TLC finds
`Synced` violated. The second lets the proof say that a ledger above phase one never meets
an EVM below it, where nothing is aligned; TLC found no violation of `Synced` without it, but
there `ReachesTip` fails. The heights of `config.rs` are multiples of ten and, where
phase one has begun, lie far below the tip. The run `sync` checks `Synced` with
`Final = PhaseOne`.

### 4.6 The registers

`RegistryProofs` proves, for any inscriptions, any number of blocks, forks and crashes
and any depth of the search for a common block:

| theorem | property |
|---|---|
| `FirstCome` | `[]FirstIsFirst` |
| `HashesMatch` | `[]HashesNameRows` |

The only assumption is `RegistryAssumption`: the constants are natural numbers, there is
a fork, and what OPI-ord serves for a block is a list. `FirstIsFirst` is about the
stored blocks and says nothing of the block in progress, whose rows are in the tables
already, nor of the residue of one. The invariant is

    IInv == Typed /\ Control /\ RowHeights /\ Registered /\ Hashed /\ Reading

* `Registered`: up to the last hash the rows are those of the first places, and (what
  makes it survive a rollback) no name was registered later than a place that asks for
  it. Without the last part, deleting rows above a height could delete the row of a
  name that an older block asks for too (`RegistersCut`).
* `Hashed`: one cumulative hash per height, that of the rows up to it. A rollback
  keeps it because what it leaves at a height is what was there (`OnlyTwice`).
* `Reading`: within a block the same as `Registered` for the inscriptions that were
  looked at, and what will be hashed are the rows of that height. The block is the one
  whose inscriptions were read, which need not be the one whose hash was.
* `RowHeights`: from the look for residue to the first insert no row is above the last
  hash, so a block starts from an empty height (`ReadStep`).

`Only`, the rows of some heights, is defined by recursion. Its laws are proved by
induction over the length of the table, stated for the set of tables that would violate
them (`RowByRow`), which needs no operator as a parameter.

### 4.7 The light client

The second part of `Brc20SyncProofs` proves, for chains of any length, any number of forks and crashes,
reorgs of any depth, and whatever the indexers answer:

| theorem | property |
|---|---|
| `WrongTakenBack` | `[]WrongIsTakenBack` |
| `LightNoBlockTwice` | `[]AppliedOnce`, for `LightSpec` |

It assumes `SyncAssumption` only; no fairness is used. The invariant `IInv` of the run loop
(4.5) holds in this mode too: the steps that both modes share keep it by the same lemmas,
and only the steps that replace `ReadTransfers` and `SetBlockHashes` are proved anew.
`WrongIsTakenBack` bounds wrong heights by the number of crashes, and is not inductive: a
crash can be spent before the wrong height appears. The invariant is

    LInv == IInv /\ Told /\ Counted

* `Told`: the cumulative hashes are as many as the block hashes; while a block is
  indexed, what the API said of its height names the hash of that block; and before the
  comparison the last cumulative hash is that of what ledger and EVM hold at the last
  height. So a block that agrees is right (`AgreesRight`), one that does not is removed.
* `Counted`: the wrong heights that will not be compared any more, and one more while
  brc20_prog is `Behind`, are at most as many as the crashes. A crash before the
  comparison lets the last height through. A restart of brc20_prog between the alignment
  and the finalising of a block leaves it behind: the block, sent without a height, then
  lands at a height the ledger has, and makes that one wrong. `Behind` is where that
  crash is kept until then; the second such block cannot come, since the missing trace
  of the new height ends the process and the next alignment makes both equal again.

### 4.8 The POW20 indexer

`Pow20Proofs` proves, for any transfers, any number of blocks, forks and crashes and any
depth of the search for a common block:

| theorem | property |
|---|---|
| `Balances` | `[]BalancesFollowEvents` |
| `WorkOnce` | `[]WorkCountsOnce` |
| `Derived` | `[]DerivedFollow` |

It assumes `Pow20Assumption`: the constants are natural numbers, a transfer has the
fields of its kind, the solution of a mint names a block, and what is inscribed under an
id never changes. The invariant of the first two is

    IInv == Typed /\ Control /\ RowHeights /\ Booked /\ Supplies /\ Worked /\ Cached /\ TickersCached

* `Booked`: the balances follow from the events (`Follows`) not only now but at every
  height to which the tables may be rolled back. A rollback removes events and balances
  above a height and recomputes nothing, so what it leaves has to add up already
  (`RolledBack`). An event of the block in progress changes no lower height
  (`BookedGrows`), and every kind of event keeps `Follows` at the top (`FollowsMint`,
  `FollowsInscribe`, `FollowsSend`).
* `Follows` says of the available balance that it is not negative and the overall
  balance without what is locked. It holds because an inscription is inscribed once
  (`Once`), although the hash of a block and its transfers are two reads, and a block
  taken from two forks can inscribe again what an earlier one did: the unique index of
  the events refuses it (`Repeats`).
* `Follows` also has what these two theorems share: a mint's solution is on record
  once, and a send has an inscription.
* `Worked`: a mint is later than the deploy of its ticker and than the block at which
  mints start, so a rollback that keeps the mint keeps both, and the hash it names stays
  that of the indexed chain.
* `Cached`, `TickersCached`: a cached balance is the last one stored; during a
  block with transfers the cache of tickers holds the tickers, with the supply that is
  left and the hash that a mint must name. Only then: the cache survives a rollback and
  is read anew with the transfers of the next block.
* `RowHeights`, `Supplies`: as for the registers, and a rollback gives back to a ticker
  what the removed mints took (`MintedIs`).

The sums are those of the amounts of the events in a set (`SumOf` of
`TableTheorems`); `LockedAfterSend` is the fact that a send unlocks exactly what its one
inscription has locked.

`Derived` is about the tables that are computed from the events. It needs a second
invariant, next to the first:

    JInv == ExtraTyped /\ Chains /\ Parted /\ InOrder /\ Held /\ Tops /\ Unspent
            /\ AtBlock /\ Cumulative

The hard part is that the extra tables are not rolled back with the main tables: they
keep the hashes of the replaced fork until `check_extra_tables` compares them with those
of the main tables. In between, a main table that happened to get the old hash back would
make wrong balances look right. That this cannot be is a fact about chains:

* `Chains`: every hash that is stored, or about to be, was once on Bitcoin's chain or in
  the main indexer's copy of it (`Was`). A block that another one has replaced is `Gone`:
  the forks only grow, so it is never served again (`PastStays`, `ServedWas`). What
  `reorg_fix` removes above the block that the walk has found is gone. (In the
  model, that is: `Reorg` starts a new fork each time. That Bitcoin returns to blocks it
  has left is not modelled.)
* `Parted`: at the first height at which the extra tables differ from the main tables,
  the block of the extra tables is gone. So the heights up to which both agree
  (`Agree`) change only when the main tables are shortened, or when a hash is appended
  that is also the next of the extra tables' own; the latter never happens.
* `Held`: at every height up to which the hashes agree, the current balances that are
  not above it are the last ones in the history up to it, and no account lacks one. It
  is stated at every such height because a later rollback of the extra tables may go
  back to any of them (`ExtraRolledBack`).
* `Unspent`: unless the last block was left unfinished, the unused inscriptions are those
  of the last hash. That a block left nothing behind is read off the heights in the two
  tables, as the code does, and a block that only spends inscriptions adds none: it shows
  in the balances, because every send writes one (`Told` in `InOrder`).
* `Tops`, `AtBlock`: how far the statements of `index_extra_tables` have come at each
  label.
* `Cumulative`: one cumulative hash per height and none above the block in progress.

The proof has one lemma per step or group of steps: those that only read (`LooksKeeps`),
Bitcoin and the main indexer (`ChainKeeps`), the writes to the main tables (`ExtraKept`
is what they share), and those to the extra tables (`ExtraStepKeeps`). `Derived` starts
from both invariants, since the heights in the tables are those of the first.

### 4.9 What is only model-checked

* `OnSat`, `OneBlessed` and `FirstMovesTold` of `Inscriptions`, and `TablesFollow` of
  `RunesTables`. A step of `Inscriptions` is a whole transaction: two loops over its
  inputs, envelopes and floating inscriptions and a stable sort, written as folds
  (`Floating`, `ByOffset`, `Settle`). `TablesFollow` compares the tables with a fold over
  all lines that the log ever had (`All`, `Number`). What these compute for sequences of
  any length needs induction over data, which the prover does not have.
* `RoundTrip`, for the same reason: `encipher` and `decipher` are recursive functions.
* Liveness (the `ReachesTip` of `Brc20Sync`, `Registry` and `Pow20` among it) and
  `ENABLED`.

## 5. Plan

Done: `Brc20Ledger`, `OrdIndex`, `Runes`, `DbReader`, `Registry`, `LightClient`, `Pow20`
and `Brc20Sync`, which implements `Brc20Replay`, with proofs, `Runestone`,
`RunesTables`, `Envelope`, `Inscriptions`. Next, in this order:

1. `Inscriptions` with one action per floating inscription instead of one per
   transaction, which would bring `OneBlessed`, from an invariant that is `OnSat`, into
   the prover's reach.
2. `Brc20ProgTx`: the transaction index of a block as counted by the indexer and
   by brc20_prog, with timeouts; inscriptions that deploy, call and transact.
3. `Brc20Deploy`: which deploy and mint is accepted (4, 5 and 6 bytes, self-mint,
   predeploy), as operators checked against a reference definition.
4. `Brc20Extras`: the tables of current balances and unused inscriptions, their
   caches and their restoration by `reorg`, as a refinement of the ledger.
5. The RPC proxy's cache.

Not planned: the APIs (read-only), the wallet, server and subcommands of the two copies
of ord, event wording.
