------------------------------ MODULE OrdIndex ------------------------------
(***************************************************************************)
(* The index of OPI-ord (src/ord): Updater::update_index with its thread   *)
(* that fetches blocks ahead, commits and savepoints, Reorg::detect_reorg, *)
(* and the loop of `index update` that restores a savepoint.               *)
(*                                                                         *)
(* The RocksDB database is opened without write-ahead log: what is written *)
(* lives in memory until flush_cfs_opt, or until the database is closed,   *)
(* which flushes too; a killed process loses it.  The outputs of a block   *)
(* stay in utxo_cache, outside the database, until the commit.             *)
(*                                                                         *)
(* Blocks are counted from 1.  Block n of fork f is the pair <<n, f>>; a   *)
(* reorg starts a new fork, so two chains with the same fork at n agree    *)
(* up to n.                                                                *)
(***************************************************************************)
EXTENDS Integers, Sequences, SequencesExt

CONSTANTS
  MaxHeight,       \* bound on the number of blocks of Bitcoin
  Forks,           \* bound on the number of forks
  Final,           \* no reorg removes the first Final blocks
  MaxReorg,        \* bound on the number of blocks a reorg removes
  CommitInterval,  \* commit_interval, 5000 by default
  Interval,        \* savepoint_interval, 10 by default
  MaxSavepoints,   \* max_savepoints, 2 by default
  Channel,         \* blocks fetched ahead, 32 in the code
  MaxCrashes,      \* bound on the number of kills and shutdowns
  MaxFaults,       \* bound on the number of errors other than a reorg
  FaultsAt         \* where they happen: "block", "batch" or both

ASSUME IndexAssumption ==
  /\ MaxHeight \in Nat \ {0} /\ Forks \in Nat \ {0} /\ Final \in Nat /\ MaxReorg \in Nat
  /\ CommitInterval \in Nat \ {0} /\ Interval \in Nat \ {0}
  /\ MaxSavepoints \in Nat \ {0} /\ Channel \in Nat \ {0}
  /\ MaxCrashes \in Nat /\ MaxFaults \in Nat /\ FaultsAt \subseteq {"block", "batch"}

VARIABLES
  best,         \* Bitcoin's chain: the fork of each block
  base,         \* for each fork, the blocks it shares with the fork it left
  db,           \* the database as its process sees it
  disk,         \* what is flushed, which is what db_reader serves
  cache,        \* the blocks whose outputs are in utxo_cache
  uncommitted,  \* blocks indexed since the last commit
  backups,      \* the savepoints, oldest first: databases
  queue,        \* blocks fetched ahead
  fetchAt,      \* the block the fetching thread asks for next
  fetching,     \* that thread is alive
  pc,           \* where `index update` is
  crashes, faults

bitcoin == <<best, base>>
fetcher == <<queue, fetchAt, fetching>>
counts == <<crashes, faults>>
vars == <<bitcoin, db, disk, cache, uncommitted, backups, fetcher, pc, counts>>

(* A database: height_to_block_header, the inscription and transfer tables *)
(* block by block, the blocks whose outputs are in outpoint_to_utxo_entry, *)
(* and LastSavepointHeight.                                                *)
NoDb == [headers |-> <<>>, rows |-> <<>>, stored |-> <<>>, last |-> 0]
Height == Len(db.headers)
Kept(s, n) == SubSeq(s, 1, IF n < Len(s) THEN n ELSE Len(s))
Newest(s, n) == IF Len(s) <= n THEN s ELSE SubSeq(s, Len(s) - n + 1, Len(s))

(* The fork of the block before block n of fork f.                         *)
Parent(n, f) == IF n - 1 <= Len(base[f]) THEN base[f][n - 1] ELSE f

(* prev_blockhash of block b is the hash of the last header indexed.       *)
Links(b) == Height > 0 => b.n = Height + 1 /\ db.headers[Height] = Parent(b.n, b.f)

(* Bitcoin has the block indexed depth blocks below the next height.       *)
Common(depth) ==
  LET n == Height - depth + 1 IN
  n >= 1 /\ n <= Len(best) /\ db.headers[n] = best[n]

MaxRecoverable == (MaxSavepoints - 1) * Interval + (Height % Interval)
Recoverable == \E depth \in 1 .. MaxRecoverable - 1 : Common(depth)

(* is_savepoint_required: far from the last savepoint, near the tip.       *)
SavepointRequired ==
  /\ Height < Interval \/ Height - db.last >= Interval
  /\ Len(best) - 1 - Height <= Interval * MaxSavepoints + 1

-----------------------------------------------------------------------------
Init ==
  /\ best = <<>> /\ base = << <<>> >>
  /\ db = NoDb /\ disk = NoDb
  /\ cache = <<>> /\ uncommitted = 0 /\ backups = <<>>
  /\ queue = <<>> /\ fetchAt = 1 /\ fetching = FALSE
  /\ pc = "closed" /\ crashes = 0 /\ faults = 0

Goto(l) == pc' = l

(* The process or the database is gone and leaves d on disk.               *)
Leave(d) ==
  /\ disk' = d /\ db' = d
  /\ cache' = <<>> /\ uncommitted' = 0
  /\ queue' = <<>> /\ fetchAt' = 1 /\ fetching' = FALSE
  /\ UNCHANGED bitcoin

(* Index::open.                                                            *)
Open ==
  /\ pc = "closed"
  /\ Goto("idle")
  /\ UNCHANGED <<bitcoin, db, disk, cache, uncommitted, backups, fetcher, counts>>

(* Index::update makes an Updater at the height after the last header; its *)
(* update_index starts the fetching thread.                                *)
StartUpdate ==
  /\ pc = "idle"
  /\ queue' = <<>> /\ fetchAt' = Height + 1 /\ fetching' = TRUE
  /\ Goto("index")
  /\ UNCHANGED <<bitcoin, db, disk, cache, uncommitted, backups, counts>>

(* The fetching thread: the next block of the chain bitcoind has now, or   *)
(* the end of the channel when there is none.                              *)
Fetch ==
  /\ fetching
  /\ Len(queue) < Channel
  /\ IF fetchAt <= Len(best)
     THEN /\ queue' = Append(queue, [n |-> fetchAt, f |-> best[fetchAt]])
          /\ fetchAt' = fetchAt + 1
          /\ UNCHANGED fetching
     ELSE fetching' = FALSE /\ UNCHANGED <<queue, fetchAt>>
  /\ UNCHANGED <<bitcoin, db, disk, cache, uncommitted, backups, pc, counts>>

(* Mutant: only the first block of a batch is compared.                    *)
IndexBlockUnlinked ==
  LET b == Head(queue) IN
  /\ pc = "index"
  /\ queue # <<>>
  /\ uncommitted = 0 => Links(b)
  /\ db' = [db EXCEPT !.rows = Append(@, b.f), !.headers = Append(@, b.f)]
  /\ cache' = Append(cache, b.f)
  /\ uncommitted' = uncommitted + 1
  /\ queue' = Tail(queue)
  /\ Goto("decide")
  /\ UNCHANGED <<bitcoin, disk, backups, fetchAt, fetching, counts>>

(* index_block: inscriptions and transfers first, the header last.         *)
IndexBlock ==
  LET b == Head(queue) IN
  /\ pc = "index"
  /\ queue # <<>>
  /\ Links(b)
  /\ db' = [db EXCEPT !.rows = Append(@, b.f), !.headers = Append(@, b.f)]
  /\ cache' = Append(cache, b.f)
  /\ uncommitted' = uncommitted + 1
  /\ queue' = Tail(queue)
  /\ Goto("decide")
  /\ UNCHANGED <<bitcoin, disk, backups, fetchAt, fetching, counts>>

(* Mutant: blocks are taken back in memory, where readers do not see it.   *)
ReorgInMemory ==
  /\ pc = "index"
  /\ queue # <<>>
  /\ ~Links(Head(queue))
  /\ Recoverable
  /\ \E n \in 0 .. Height :
       /\ IsPrefix(Kept(db.headers, n), best)
       /\ db' = [db EXCEPT !.headers = Kept(@, n), !.rows = Kept(@, n), !.stored = Kept(@, n)]
  /\ cache' = <<>> /\ uncommitted' = 0
  /\ queue' = <<>> /\ fetching' = FALSE
  /\ Goto("idle")
  /\ UNCHANGED <<bitcoin, disk, backups, fetchAt, counts>>

(* detect_reorg: the database is closed, and with it flushed, before the   *)
(* savepoint is restored.                                                  *)
ReorgDetected ==
  /\ pc = "index"
  /\ queue # <<>>
  /\ ~Links(Head(queue))
  /\ Recoverable
  /\ Leave(db)
  /\ Goto("restore")
  /\ UNCHANGED <<backups, counts>>

(* A reorg that is not recoverable ends the process.                       *)
ReorgTooDeep ==
  /\ pc = "index"
  /\ queue # <<>>
  /\ ~Links(Head(queue))
  /\ ~Recoverable
  /\ Leave(db)
  /\ Goto("closed")
  /\ UNCHANGED <<backups, counts>>

Decide ==
  /\ pc = "decide"
  /\ Goto(IF uncommitted = CommitInterval \/ SavepointRequired THEN "commit" ELSE "index")
  /\ UNCHANGED <<bitcoin, db, disk, cache, uncommitted, backups, fetcher, counts>>

(* The channel is closed and empty: commit what is left.                   *)
EndBatch ==
  /\ pc = "index"
  /\ queue = <<>> /\ ~fetching
  /\ Goto(IF uncommitted > 0 THEN "commit" ELSE "idle")
  /\ UNCHANGED <<bitcoin, db, disk, cache, uncommitted, backups, fetcher, counts>>

(* Mutant: the column families are flushed before the outputs are put.     *)
CommitFlushFirst ==
  /\ pc = "commit"
  /\ db' = [db EXCEPT !.stored = @ \o cache]
  /\ disk' = db
  /\ cache' = <<>> /\ uncommitted' = 0
  /\ Goto("purge")
  /\ UNCHANGED <<bitcoin, backups, fetcher, counts>>

(* commit: the outputs go to the database, everything is flushed at once.  *)
Commit ==
  /\ pc = "commit"
  /\ db' = [db EXCEPT !.stored = @ \o cache]
  /\ disk' = db'
  /\ cache' = <<>> /\ uncommitted' = 0
  /\ Goto("purge")
  /\ UNCHANGED <<bitcoin, backups, fetcher, counts>>

(* Mutant: one savepoint too many is kept.                                 *)
PurgeOneLess ==
  /\ pc = "purge"
  /\ IF SavepointRequired
     THEN backups' = Newest(backups, MaxSavepoints) /\ Goto("backup")
     ELSE Goto("index") /\ UNCHANGED backups
  /\ UNCHANGED <<bitcoin, db, disk, cache, uncommitted, fetcher, counts>>

(* update_savepoints in three steps: purge_old_backups, create_new_backup, *)
(* LastSavepointHeight.                                                    *)
Purge ==
  /\ pc = "purge"
  /\ IF SavepointRequired
     THEN /\ backups' = Newest(backups, MaxSavepoints - 1)
          /\ Goto("backup")
     ELSE Goto("index") /\ UNCHANGED backups
  /\ UNCHANGED <<bitcoin, db, disk, cache, uncommitted, fetcher, counts>>

Backup ==
  /\ pc = "backup"
  /\ backups' = Append(backups, db)
  /\ Goto("mark")
  /\ UNCHANGED <<bitcoin, db, disk, cache, uncommitted, fetcher, counts>>

(* Mutant: LastSavepointHeight is not written.                             *)
MarkForgotten ==
  /\ pc = "mark"
  /\ Goto("index")
  /\ UNCHANGED <<bitcoin, db, disk, cache, uncommitted, backups, fetcher, counts>>

Mark ==
  /\ pc = "mark"
  /\ db' = [db EXCEPT !.last = Height]
  /\ disk' = db'
  /\ Goto("index")
  /\ UNCHANGED <<bitcoin, cache, uncommitted, backups, fetcher, counts>>

(* handle_reorg: the oldest savepoint is restored, no savepoint is         *)
(* removed.  Without one the process ends.                                 *)
Restore ==
  /\ pc = "restore"
  /\ Leave(IF backups = <<>> THEN disk ELSE Head(backups))
  /\ Goto("closed")
  /\ UNCHANGED <<backups, counts>>

-----------------------------------------------------------------------------
(* An error in the middle of a block, for instance a transaction bitcoind  *)
(* did not return: inscriptions of the block are written, its header is    *)
(* not.  The process ends and closes the database.                         *)
FaultInBlock ==
  /\ faults < MaxFaults /\ "block" \in FaultsAt
  /\ pc = "index"
  /\ queue # <<>> /\ Links(Head(queue))
  /\ faults' = faults + 1
  /\ Leave([db EXCEPT !.rows = Append(@, Head(queue).f)])
  /\ Goto("closed")
  /\ UNCHANGED <<backups, crashes>>

(* An error or a panic between two blocks: bitcoind does not answer        *)
(* detect_reorg or is_savepoint_required, or inputs are left over.         *)
FaultBetweenBlocks ==
  /\ faults < MaxFaults /\ "batch" \in FaultsAt
  /\ pc \in {"index", "decide"}
  /\ faults' = faults + 1
  /\ Leave(db)
  /\ Goto("closed")
  /\ UNCHANGED <<backups, crashes>>

(* The process is killed.                                                  *)
Crash ==
  /\ crashes < MaxCrashes
  /\ pc # "closed"
  /\ crashes' = crashes + 1
  /\ Leave(disk)
  /\ Goto("closed")
  /\ UNCHANGED <<backups, faults>>

(* A signal: the blocks fetched ahead are dropped, the batch is committed. *)
(* Closing and opening the database after that changes nothing.            *)
ShutDown ==
  /\ crashes < MaxCrashes
  /\ pc = "index"
  /\ crashes' = crashes + 1
  /\ queue' = <<>> /\ fetching' = FALSE
  /\ UNCHANGED <<bitcoin, db, disk, cache, uncommitted, backups, fetchAt, pc, faults>>

index == <<db, disk, cache, uncommitted, backups, fetcher, pc, counts>>

Mine ==
  /\ Len(best) < MaxHeight
  /\ best' = Append(best, Len(base))
  /\ UNCHANGED <<base, index>>

(* A longer fork replaces the blocks above block k.                        *)
BitcoinReorg(k) ==
  /\ Len(base) < Forks /\ Len(best) < MaxHeight
  /\ k >= Final /\ k < Len(best) /\ Len(best) - k <= MaxReorg
  /\ base' = Append(base, Kept(best, k))
  /\ best' = Kept(best, k) \o [n \in 1 .. Len(best) - k + 1 |-> Len(base) + 1]
  /\ UNCHANGED index

-----------------------------------------------------------------------------
Step ==
  \/ Open \/ StartUpdate
  \/ IndexBlock \/ ReorgDetected \/ ReorgTooDeep \/ Decide \/ EndBatch
  \/ Commit \/ Purge \/ Backup \/ Mark \/ Restore

Next ==
  \/ Step \/ Fetch
  \/ FaultInBlock \/ FaultBetweenBlocks \/ Crash \/ ShutDown
  \/ Mine \/ \E k \in 0 .. MaxHeight : BitcoinReorg(k)

Spec == Init /\ [][Next]_vars

(* Both threads run on, and a process that ended is started again.         *)
FairSpec == Spec /\ WF_vars(Step) /\ WF_vars(Fetch)

-----------------------------------------------------------------------------
Chain == Seq(1 .. Forks)
Db == [headers : Chain, rows : Chain, stored : Chain, last : 0 .. MaxHeight]

(* The shape of the databases, of the savepoints and of the channel.       *)
TypeOK ==
  /\ best \in Chain /\ base \in Seq(Chain)
  /\ db \in Db /\ disk \in Db
  /\ cache \in Chain /\ uncommitted = Len(cache) /\ uncommitted <= CommitInterval
  /\ backups \in Seq(Db) /\ Len(backups) <= MaxSavepoints
  /\ queue \in Seq([n : 1 .. MaxHeight, f : 1 .. Forks]) /\ Len(queue) <= Channel
  /\ fetchAt \in 1 .. MaxHeight + 1 /\ fetching \in BOOLEAN
  /\ pc \in {"closed", "idle", "index", "decide", "commit", "purge", "backup", "mark", "restore"}
  /\ crashes \in 0 .. MaxCrashes /\ faults \in 0 .. MaxFaults

IsChain(s) == \A n \in 2 .. Len(s) : s[n - 1] = Parent(n, s[n])

(* Readers and savepoints always hold blocks that follow one another,      *)
(* although blocks are fetched ahead while bitcoind changes forks.         *)
ServedIsAChain ==
  /\ IsChain(disk.headers)
  /\ \A k \in DOMAIN backups : IsChain(backups[k].headers)

(* Tables, headers and outputs are of the same blocks.                     *)
Whole(d) == d.rows = d.headers /\ d.stored = d.headers

(* Savepoints are whole, and so is what readers are served unless it is of *)
(* a fork Bitcoin has left: a batch whose outputs are lost, by a kill or   *)
(* by the close before a restore, leaves nothing of it behind.             *)
AllWhole ==
  /\ \A k \in DOMAIN backups : Whole(backups[k])
  /\ IsPrefix(disk.headers, best) => Whole(disk)

(* This is so as long as no error ends the process.                        *)
OnlyWholeBatches == faults = 0 => AllWhole

(* Readers see the chain grow or be cut, and never another fork at once:   *)
(* what the indexers assume when they compare their last hash. The one     *)
(* exception: Restore may come to a savepoint of a fork that Bitcoin left  *)
(* in an earlier reorg.                                                    *)
ServedCutOrExtended ==
  [][ \/ IsPrefix(disk.headers, disk'.headers)
      \/ IsPrefix(disk'.headers, disk.headers)
      \/ pc = "restore" /\ ~IsPrefix(Head(backups).headers, best) ]_disk

(* Once Bitcoin stands still, readers are served its chain, and it stays.  *)
ServesBitcoin == <>[](disk.headers = best)
=============================================================================
