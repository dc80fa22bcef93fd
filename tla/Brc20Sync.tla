----------------------------- MODULE Brc20Sync -----------------------------
(***************************************************************************)
(* How the BRC-20 indexer keeps its Postgres tables, the brc20_prog server *)
(* and the chain served by OPI-ord on the same blocks: the loop of         *)
(* Brc20Indexer::run, reorg_to_last_synced_block_height, clear_caches and  *)
(* Brc20Database::reorg, with crashes of either process, reorgs of Bitcoin *)
(* and rollbacks of OPI-ord between any two calls.                         *)
(*                                                                         *)
(* Heights count from first_brc20_height = 1.  The block at height h of    *)
(* fork f is the pair <<h, f>>; a Bitcoin reorg starts a new fork, so two  *)
(* chains with the same fork number at h agree up to h.  What a block does *)
(* to the ledger is one entry of table ledger (events, balances, minted    *)
(* supply) and one burn.                                                   *)
(***************************************************************************)
EXTENDS Integers, Sequences, Bags, Functions, SequencesExt

CONSTANTS
  MaxHeight,     \* bound on the height of Bitcoin
  Forks,         \* bound on the number of forks
  Final,         \* no reorg and no backup OPI-ord restores goes below this height
  PhaseOne,      \* first_brc20_prog_phase_one_height
  Depth,         \* the largest reorg the indexer follows, 10 in the code
  CommitEvery,   \* brc20_prog commits at these heights, 10 in the code
  RefundHeight,  \* brc20_swap_refund_activation_height, 0 when unset
  Quiet,         \* blocks <<h, f>> without transfers
  MaxCrashes     \* bound on the crashes of the indexer and of brc20_prog

ASSUME SyncAssumption ==
  /\ MaxHeight \in Nat \ {0} /\ Forks \in Nat \ {0} /\ Final \in Nat
  /\ PhaseOne \in Nat \ {0} /\ Depth \in Nat /\ CommitEvery \in Nat \ {0}
  /\ RefundHeight \in Nat /\ MaxCrashes \in Nat
  /\ Quiet \subseteq (1 .. MaxHeight) \X (1 .. Forks)

VARIABLES
  best,      \* Bitcoin's chain: the fork of the block at each height
  fork,      \* the newest fork
  opi,       \* the chain OPI-ord serves
  hashes,    \* brc20_block_hashes
  ledger,    \* events and balances: the bag of entries [h, b] of applied blocks
  burned,    \* the blocks counted in burned_supply of brc20_tickers
  prog,      \* brc20_prog: from PhaseOne on, the blocks [h, hash, txs] it was sent
  saved,     \* how many blocks of prog are committed to its database
  open,      \* the block whose transactions brc20_prog has not finalised
  pc,        \* where the indexer is
  booting,   \* init has not finished
  at,        \* current_brc20_height of the search for a common block
  from,      \* last_brc20_block_height of that search
  lastOpi,   \* last_opi_block
  block,     \* the block being indexed: [h, hash, txs]
  pending,   \* the bag of entries in memory: event_inserts, balance_updates, ...
  crashes

bitcoin == <<best, fork>>
db == <<hashes, ledger, burned>>
evm == <<prog, saved, open>>
memory == <<lastOpi, block, pending>>
search == <<at, from>>
vars == <<bitcoin, opi, db, evm, pc, booting, search, memory, crashes>>

NoBlock == 0
Height == Len(hashes)
ProgHeight == PhaseOne - 1 + Len(prog)
HasProg(h) == h >= PhaseOne /\ h <= ProgHeight
ProgBlock(h) == prog[h - PhaseOne + 1]
IsQuiet(h, b) == b = NoBlock \/ <<h, b>> \in Quiet
Transfers(h, b) == IF IsQuiet(h, b) THEN NoBlock ELSE b
Prefix(s, n) == SubSeq(s, 1, IF n < Len(s) THEN n ELSE Len(s))
UpTo(k, rows) == Restrict(rows, {e \in BagToSet(rows) : e.h <= k})

-----------------------------------------------------------------------------
(* Mutant: the rows of height k itself are deleted too.                    *)
DbReorgInclusive(k) ==
  /\ hashes' = Prefix(hashes, k)
  /\ ledger' = UpTo(k - 1, ledger)
  /\ pending' = EmptyBag
  /\ UNCHANGED burned

(* Brc20Database::reorg: one transaction that deletes what lies above      *)
(* height k and reloads memory.  burned_supply keeps its value.            *)
DbReorg(k) ==
  /\ hashes' = Prefix(hashes, k)
  /\ ledger' = UpTo(k, ledger)
  /\ pending' = EmptyBag
  /\ UNCHANGED burned

(* Mutant: the database of brc20_prog keeps the removed blocks.            *)
ProgReorgKeepsSaved(k) ==
  /\ prog' = Prefix(prog, k - PhaseOne + 1)
  /\ open' = NoBlock
  /\ UNCHANGED saved

(* brc20_reorg of brc20_prog, which never removes blocks below PhaseOne.   *)
ProgReorg(k) ==
  LET kept == Prefix(prog, k - PhaseOne + 1) IN
  /\ prog' = kept
  /\ saved' = IF saved < Len(kept) THEN saved ELSE Len(kept)
  /\ open' = NoBlock

(* An error or a crash ends the process; its memory is gone.               *)
Exit ==
  /\ pc' = "down"
  /\ pending' = EmptyBag
  /\ UNCHANGED <<bitcoin, opi, db, evm, booting, search, lastOpi, block>>

Goto(l) == pc' = l

(* Back to the top of the run loop.                                        *)
Loop == Goto("align") /\ UNCHANGED <<booting, search>>

(* reorg_to_last_synced_block_height returns to init or to the loop.       *)
Return == Goto(IF booting THEN "clear" ELSE "next")

-----------------------------------------------------------------------------
Init ==
  /\ best = <<>> /\ fork = 1 /\ opi = <<>>
  /\ hashes = <<>> /\ ledger = EmptyBag /\ burned = {}
  /\ prog = <<>> /\ saved = 0 /\ open = NoBlock
  /\ pc = "down" /\ booting = TRUE /\ at = 0 /\ from = 0
  /\ lastOpi = 0 /\ block = [h |-> 0, hash |-> NoBlock, txs |-> NoBlock] /\ pending = EmptyBag
  /\ crashes = 0

(* Brc20Indexer::init: tickers and event ids are loaded from the tables.   *)
Start ==
  /\ pc = "down"
  /\ booting' = TRUE
  /\ Goto("align")
  /\ UNCHANGED <<bitcoin, opi, db, evm, search, memory, crashes>>

(* Mutant: only brc20_prog is brought back.                                *)
AlignProgOnly ==
  /\ pc = "align"
  /\ IF Height = 0
     THEN Return /\ UNCHANGED <<evm, search>>
     ELSE /\ Goto("walk")
          /\ IF Height >= PhaseOne /\ Height < ProgHeight
             THEN ProgReorg(Height) ELSE UNCHANGED evm
          /\ at' = Height /\ from' = Height
  /\ UNCHANGED <<bitcoin, opi, db, booting, memory, crashes>>

(* The beginning of reorg_to_last_synced_block_height: ledger and EVM are  *)
(* brought to the same height, unless one of them is below phase one.      *)
Align ==
  /\ pc = "align"
  /\ IF Height = 0
     THEN Return /\ UNCHANGED <<db, evm, search, pending>>
     ELSE /\ Goto("walk")
          /\ IF Height >= PhaseOne /\ ProgHeight >= PhaseOne
             THEN \/ /\ Height = ProgHeight
                     /\ UNCHANGED <<db, evm, pending>>
                  \/ /\ Height < ProgHeight
                     /\ ProgReorg(Height)
                     /\ UNCHANGED <<db, pending>>
                  \/ /\ Height > ProgHeight
                     /\ DbReorg(ProgHeight)
                     /\ UNCHANGED evm
             ELSE UNCHANGED <<db, evm, pending>>
          /\ at' = Len(hashes') /\ from' = Len(hashes')
  /\ UNCHANGED <<bitcoin, opi, booting, lastOpi, block, crashes>>

(* The three hashes of height at, where brc20_prog stands in for OPI-ord   *)
(* below phase one.                                                        *)
Known == at <= Len(opi) /\ (at >= PhaseOne => HasProg(at))
Matches ==
  /\ hashes[at] = opi[at]
  /\ at >= PhaseOne => ProgBlock(at).h = at /\ ProgBlock(at).hash = hashes[at]

(* A common block: nothing to do at the last height, else the ledger goes  *)
(* back to it and, from phase one on, brc20_prog does in a second call.    *)
WalkFound ==
  /\ pc = "walk"
  /\ at >= from - Depth
  /\ Known /\ Matches
  /\ IF at = from
     THEN Return /\ UNCHANGED <<db, pending>>
     ELSE /\ DbReorg(at)
          /\ IF at >= PhaseOne THEN Goto("prog") ELSE Return
  /\ UNCHANGED <<bitcoin, opi, evm, booting, search, lastOpi, block, crashes>>

(* No common block: the search goes on one height below.  At the first     *)
(* height it ends: the ledger keeps its first block, the EVM its block of  *)
(* phase one.                                                              *)
WalkDiffers ==
  /\ pc = "walk"
  /\ at >= from - Depth
  /\ Known /\ ~Matches
  /\ IF at = 1
     THEN DbReorg(1) /\ at' = PhaseOne /\ Goto("prog")
     ELSE at' = at - 1 /\ UNCHANGED <<db, pending, pc>>
  /\ UNCHANGED <<bitcoin, opi, evm, booting, from, lastOpi, block, crashes>>

(* The reorg is too large, or OPI-ord or brc20_prog does not know height.  *)
WalkFails ==
  /\ pc = "walk"
  /\ at < from - Depth \/ ~Known
  /\ Exit
  /\ UNCHANGED crashes

(* Mutant: the second call is forgotten.                                   *)
ReorgProgSkipped ==
  /\ pc = "prog"
  /\ Return
  /\ UNCHANGED <<bitcoin, opi, db, evm, booting, search, memory, crashes>>

(* brc20_reorg after the reorg of the database.                            *)
ReorgProg ==
  /\ pc = "prog"
  /\ ProgReorg(at)
  /\ Return
  /\ UNCHANGED <<bitcoin, opi, db, booting, search, memory, crashes>>

(* Mutant: residue is not looked for.                                      *)
ClearCachesNoResidue ==
  /\ pc = "clear"
  /\ booting' = FALSE
  /\ lastOpi' = Len(opi)
  /\ prog' = Prefix(prog, saved) /\ open' = NoBlock
  /\ Goto("align")
  /\ UNCHANGED <<bitcoin, opi, db, saved, search, block, pending, crashes>>

(* clear_caches at the end of init: brc20_prog drops what it has not       *)
(* committed, then rows above the last hash are removed.                   *)
ClearCaches ==
  /\ pc = "clear"
  /\ booting' = FALSE
  /\ lastOpi' = Len(opi)
  /\ prog' = Prefix(prog, saved) /\ open' = NoBlock /\ UNCHANGED saved
  /\ IF \E e \in BagToSet(ledger) : e.h > Height
     THEN /\ DbReorg(Height)
          /\ at' = Height
          /\ Goto(IF Height >= PhaseOne THEN "prog residue" ELSE "align")
     ELSE Goto("align") /\ UNCHANGED <<db, at, pending>>
  /\ UNCHANGED <<bitcoin, opi, from, block, crashes>>

ReorgResidue ==
  /\ pc = "prog residue"
  /\ ProgReorg(at)
  /\ Loop
  /\ UNCHANGED <<bitcoin, opi, db, memory, crashes>>

-----------------------------------------------------------------------------
(* No new block: ask OPI-ord again for its height.                         *)
Wait ==
  /\ pc = "next"
  /\ Height + 1 > lastOpi
  /\ lastOpi' = Len(opi)
  /\ Loop
  /\ UNCHANGED <<bitcoin, opi, db, evm, block, pending, crashes>>

(* get_block_hash_and_time of the next block.                              *)
ReadHash ==
  /\ pc = "next"
  /\ Height + 1 <= lastOpi
  /\ IF Height + 1 <= Len(opi)
     THEN /\ block' = [h |-> Height + 1, hash |-> opi[Height + 1], txs |-> NoBlock]
          /\ Goto("read")
          /\ UNCHANGED <<bitcoin, opi, db, evm, booting, search, lastOpi, pending>>
     ELSE Exit
  /\ UNCHANGED crashes

(* The refund, then get_transfers, a second call, which answers with an    *)
(* empty list when OPI-ord does not have the height; the transfers change  *)
(* balances in memory and go to brc20_prog.  Without transfers nothing is  *)
(* flushed.                                                                *)
ReadTransfers ==
  LET h == block.h
      txs == IF h <= Len(opi) THEN opi[h] ELSE NoBlock
  IN
  /\ pc = "read"
  /\ block' = [block EXCEPT !.txs = txs]
  /\ pending' = IF IsQuiet(h, txs) /\ h # RefundHeight THEN pending
                ELSE pending (+) SetToBag({[h |-> h, b |-> Transfers(h, txs)]})
  /\ open' = IF h >= PhaseOne /\ ~IsQuiet(h, txs) THEN txs ELSE open
  /\ Goto(IF IsQuiet(h, txs) THEN "finalise" ELSE "flush")
  /\ UNCHANGED <<bitcoin, opi, db, prog, saved, booting, search, lastOpi, crashes>>

(* flush_queries_to_db, one transaction.                                   *)
Flush ==
  /\ pc = "flush"
  /\ ledger' = ledger (+) pending
  /\ burned' = burned \cup BagToSet(pending)
  /\ pending' = EmptyBag
  /\ Goto("finalise")
  /\ UNCHANGED <<bitcoin, opi, hashes, evm, booting, search, lastOpi, block, crashes>>

(* finalise_block_for_brc20_prog.  brc20_prog numbers its blocks itself:   *)
(* no call names a height.  It refuses a block whose number of             *)
(* transactions is not what the indexer counted.                           *)
Finalise ==
  LET h == block.h
      sent == Transfers(h, block.txs)
  IN
  /\ pc = "finalise"
  /\ \/ /\ h < PhaseOne
        /\ Goto("hashes")
        /\ UNCHANGED <<bitcoin, opi, db, evm, booting, search, memory>>
     \/ /\ h >= PhaseOne
        /\ open = sent
        /\ prog' = Append(prog, [h |-> h, hash |-> block.hash, txs |-> sent])
        /\ open' = NoBlock
        /\ Goto(IF h = lastOpi \/ h % CommitEvery = 0 THEN "commit" ELSE "hashes")
        /\ UNCHANGED <<bitcoin, opi, db, saved, booting, search, memory>>
     \/ /\ h >= PhaseOne
        /\ open # sent
        /\ Exit
  /\ UNCHANGED crashes

(* brc20_commit_to_database, when synced and at every CommitEvery-th block. *)
Commit ==
  /\ pc = "commit"
  /\ saved' = Len(prog)
  /\ Goto("hashes")
  /\ UNCHANGED <<bitcoin, opi, db, prog, open, booting, search, memory, crashes>>

(* retrieve_brc20_prog_traces_hash and set_block_hashes.                   *)
SetBlockHashes ==
  /\ pc = "hashes"
  /\ IF block.h < PhaseOne \/ HasProg(block.h)
     THEN /\ hashes' = Append(hashes, block.hash)
          /\ Loop
          /\ UNCHANGED <<bitcoin, opi, ledger, burned, evm, memory>>
     ELSE Exit
  /\ UNCHANGED crashes

-----------------------------------------------------------------------------
(* The indexer is killed between two calls.                                *)
Crash ==
  /\ pc # "down"
  /\ crashes < MaxCrashes
  /\ crashes' = crashes + 1
  /\ Exit

(* brc20_prog restarts from its database.                                  *)
ProgCrash ==
  /\ crashes < MaxCrashes
  /\ crashes' = crashes + 1
  /\ saved < Len(prog) \/ open # NoBlock
  /\ prog' = Prefix(prog, saved)
  /\ open' = NoBlock
  /\ UNCHANGED <<bitcoin, opi, db, saved, pc, booting, search, memory>>

indexer == <<db, evm, pc, booting, search, memory, crashes>>

(* A miner extends Bitcoin's chain.                                        *)
Mine ==
  /\ Len(best) < MaxHeight
  /\ best' = Append(best, fork)
  /\ UNCHANGED <<fork, opi, indexer>>

(* A longer fork replaces all blocks above height k.                       *)
BitcoinReorg(k) ==
  /\ fork < Forks
  /\ k >= Final /\ k < Len(best)
  /\ fork' = fork + 1
  /\ best' = Prefix(best, k) \o [i \in 1 .. Len(best) - k |-> fork + 1]
  /\ UNCHANGED <<opi, indexer>>

(* OPI-ord indexes the next block of Bitcoin's chain.                      *)
OpiIndex ==
  /\ IsPrefix(opi, best)
  /\ Len(opi) < Len(best)
  /\ opi' = Append(opi, best[Len(opi) + 1])
  /\ UNCHANGED <<bitcoin, indexer>>

(* OPI-ord notices a reorg and restores an old backup.                     *)
OpiRestore(k) ==
  /\ ~IsPrefix(opi, best)
  /\ k >= Final /\ k < Len(opi)
  /\ IsPrefix(Prefix(opi, k), best)
  /\ opi' = Prefix(opi, k)
  /\ UNCHANGED <<bitcoin, indexer>>

-----------------------------------------------------------------------------
Step ==
  \/ Start \/ Align
  \/ WalkFound \/ WalkDiffers \/ WalkFails
  \/ ReorgProg \/ ClearCaches \/ ReorgResidue
  \/ Wait \/ ReadHash \/ ReadTransfers \/ Flush
  \/ Finalise \/ Commit \/ SetBlockHashes

OrdStep == OpiIndex \/ \E k \in 0 .. MaxHeight : OpiRestore(k)

Next ==
  \/ Step \/ OrdStep
  \/ Crash \/ ProgCrash
  \/ Mine \/ \E k \in 0 .. MaxHeight : BitcoinReorg(k)

Spec == Init /\ [][Next]_vars

(* The indexer's loop runs on and a process that ended is started again;   *)
(* OPI-ord follows Bitcoin.  Nothing forces blocks, reorgs or crashes.     *)
FairSpec == Spec /\ WF_vars(Step) /\ WF_vars(OrdStep)

-----------------------------------------------------------------------------
Fork == 1 .. Forks
Block == Fork \cup {NoBlock}
Entry == [h : 1 .. MaxHeight, b : Block]

(* The shape of chains, tables and memory.  Only the light client, which   *)
(* shares these steps, is at "verify" or "undo".                           *)
TypeOK ==
  /\ best \in Seq(Fork) /\ opi \in Seq(Fork) /\ fork \in Fork
  /\ hashes \in Seq(Fork)
  /\ IsABag(ledger) /\ BagToSet(ledger) \subseteq Entry
  /\ burned \subseteq Entry
  /\ prog \in Seq([h : 1 .. MaxHeight, hash : Fork, txs : Block]) /\ saved \in 0 .. Len(prog) /\ open \in Block
  /\ pc \in {"down", "align", "walk", "prog", "clear", "prog residue", "next", "read",
             "flush", "finalise", "commit", "hashes", "verify", "undo"}
  /\ booting \in BOOLEAN
  /\ at \in Nat /\ from \in Nat
  /\ lastOpi \in 0 .. MaxHeight
  /\ block \in [h : 0 .. MaxHeight, hash : Block, txs : Block]
  /\ IsABag(pending) /\ BagToSet(pending) \subseteq Entry
  /\ crashes \in 0 .. MaxCrashes

(* At each height at most one block is applied to the ledger, and once,    *)
(* and only the block right above the last hash may be applied ahead of    *)
(* it, whatever crashes and reorgs lie behind.                             *)
AppliedOnce ==
  /\ \A e \in BagToSet(ledger) : ledger[e] = 1 /\ e.h <= Height + 1
  /\ \A e, f \in BagToSet(ledger) : e.h = f.h => e = f

(* The transfers the ledger and brc20_prog executed at height h, without   *)
(* the refund.                                                             *)
LedgerAt(h) == {e.b : e \in {f \in BagToSet(ledger) : f.h = h}} \ {NoBlock}
ProgAt(h) == {ProgBlock(h).txs} \ {NoBlock}

(* When the next block is about to be indexed, the ledger holds no block   *)
(* without a hash and, from phase one on, the EVM is not ahead of it, and  *)
(* at every height both have they name the same block and executed the     *)
(* same transfers.  The EVM may be behind: brc20_prog can restart at any   *)
(* time.                                                                   *)
Synced ==
  pc = "next" =>
    /\ \A e \in BagToSet(ledger) : e.h <= Height
    /\ Height >= PhaseOne =>
         /\ ProgHeight <= Height
         /\ \A h \in PhaseOne .. ProgHeight :
              /\ ProgBlock(h).h = h /\ ProgBlock(h).hash = hashes[h]
              /\ ProgAt(h) = LedgerAt(h)

(* When the next block is about to be indexed, each block of the ledger    *)
(* has executed the transfers of the block its hash names.                 *)
HashNamesTransfers ==
  pc = "next" =>
    \A h \in 1 .. Height : LedgerAt(h) = {hashes[h]} \ {b \in Fork : IsQuiet(h, b)}

(* burned_supply counts the burns of the blocks in the ledger.             *)
BurnsFollowLedger == burned = BagToSet(ledger)

(* init: "BRC20 Swap Refund events not found" is an error once the         *)
(* activation height has its hash.                                         *)
RefundStored ==
  pc = "clear" /\ RefundHeight > 0 /\ Height >= RefundHeight =>
    \E e \in BagToSet(ledger) : e.h = RefundHeight

(* The tables show blocks that are applied and taken back whole: crashes   *)
(* between the flush and the hash, residue and reorgs never leave a block  *)
(* with a hash half applied, applied twice or partly deleted.              *)
Replay == INSTANCE Brc20Replay
  WITH Hashes <- 1 .. Forks,
       applied <- [h \in DOMAIN hashes |-> [hash |-> hashes[h], txs |-> LedgerAt(h)]]
WholeBlocks == Replay!Spec

(* Bitcoin, crashes and rollbacks come to an end: then the indexer reaches *)
(* the height and the hash of the last block, and stays there.             *)
ReachesTip == <>[](Height = Len(best) /\ (best # <<>> => Last(hashes) = Last(best)))

(* The indexer ends up with Bitcoin's chain, block for block.              *)
FollowsBitcoin == <>[](hashes = best)
=============================================================================
