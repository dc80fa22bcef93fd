------------------------------ MODULE DbReader ------------------------------
(***************************************************************************)
(* The read service of OPI-ord (src/ord/db_reader): JSON-RPC handlers that *)
(* share one secondary RocksDB behind a Mutex with the loop that catches   *)
(* up with the primary every five seconds.                                 *)
(*                                                                         *)
(* The Mutex is std::sync::Mutex: it is not reentrant.  A handler keeps    *)
(* its guard from its first statement to its last; two of them ask for the *)
(* lock once more.  A handler that panics poisons the Mutex, and whoever   *)
(* locks it later panics in its turn.  What a handler reads is abstracted  *)
(* to the version of the database it reads it from.                        *)
(***************************************************************************)
EXTENDS Integers

CONSTANTS
  Calls,       \* calls, each made once
  Relocking,   \* calls for an inscription, by id or by sequence number
  Revealed,    \* the version from which it is there
  Panicking,   \* calls whose handler may panic, at an unwrap: of an error of RocksDB,
               \* or of the place of an inscription that was lost
  Nobody,      \* not a call
  Refresher,   \* the loop of start_rpc_server
  MaxFlushes   \* bound on the flushes of the primary

ASSUME ReaderAssumption ==
  /\ Relocking \subseteq Calls /\ Panicking \subseteq Calls
  /\ Nobody \notin Calls /\ Refresher \notin Calls /\ Nobody # Refresher
  /\ MaxFlushes \in Nat /\ Revealed \in Nat

VARIABLES
  primary,   \* version of the index's own database
  view,      \* version the secondary shows
  owner,     \* who holds the Mutex
  poisoned,  \* someone panicked while holding it
  loop,      \* where the loop is
  pc,        \* where each call is
  first,     \* version of the first table a call read
  second     \* version of the last table it read

mutex == <<owner, poisoned>>
vars == <<primary, view, mutex, loop, pc, first, second>>

Init ==
  /\ primary = 0 /\ view = 0
  /\ owner = Nobody /\ poisoned = FALSE
  /\ loop = "sleep"
  /\ pc = [c \in Calls |-> "sent"]
  /\ first = [c \in Calls |-> 0] /\ second = [c \in Calls |-> 0]

Goto(c, l) == pc' = [pc EXCEPT ![c] = l]

(* The index commits and flushes.                                          *)
Flush ==
  /\ primary < MaxFlushes
  /\ primary' = primary + 1
  /\ UNCHANGED <<view, mutex, loop, pc, first, second>>

(* let db = self.db.lock()                                                 *)
Lock(c) ==
  /\ pc[c] = "sent"
  /\ owner = Nobody /\ ~poisoned
  /\ owner' = c
  /\ Goto(c, "locked")
  /\ UNCHANGED <<primary, view, poisoned, loop, first, second>>

(* .expect("DB Error") on a poisoned Mutex: the call is not answered.      *)
LockPoisoned(c) ==
  /\ pc[c] = "sent"
  /\ owner = Nobody /\ poisoned
  /\ Goto(c, "failed")
  /\ UNCHANGED <<primary, view, mutex, loop, first, second>>

(* A panic in a handler drops the guard and poisons the Mutex.             *)
Panic(c) ==
  /\ c \in Panicking /\ pc[c] \in {"locked", "half"}
  /\ owner' = Nobody /\ poisoned' = TRUE
  /\ Goto(c, "failed")
  /\ UNCHANGED <<primary, view, loop, first, second>>

(* Mutant: the guard is dropped after the first table.                     *)
ReadFirstAndUnlock(c) ==
  /\ pc[c] = "locked"
  /\ first' = [first EXCEPT ![c] = view]
  /\ owner' = Nobody
  /\ Goto(c, "half")
  /\ UNCHANGED <<primary, view, poisoned, loop, second>>

(* The first table: transfers of the block, or the sequence number or      *)
(* entry of an inscription.                                                *)
ReadFirst(c) ==
  /\ pc[c] = "locked"
  /\ first' = [first EXCEPT ![c] = view]
  /\ Goto(c, "half")
  /\ UNCHANGED <<primary, view, mutex, loop, second>>

(* A handler that found its inscription locks the Mutex that it holds.     *)
LocksAgain(c) == pc[c] = "half" /\ c \in Relocking /\ first[c] >= Revealed

(* The rows the first ones name, if any; then the guard is dropped.        *)
ReadRest(c) ==
  /\ pc[c] = "half"
  /\ LocksAgain(c) => owner = Nobody
  /\ second' = [second EXCEPT ![c] = view]
  /\ owner' = Nobody
  /\ Goto(c, "answered")
  /\ UNCHANGED <<primary, view, poisoned, loop, first>>

(* Five seconds are over.                                                  *)
Wake ==
  /\ loop = "sleep"
  /\ loop' = "wait"
  /\ UNCHANGED <<primary, view, mutex, pc, first, second>>

LoopLock ==
  /\ loop = "wait"
  /\ owner = Nobody /\ ~poisoned
  /\ owner' = Refresher
  /\ loop' = "locked"
  /\ UNCHANGED <<primary, view, poisoned, pc, first, second>>

(* The loop panics and the view stays as it is.                            *)
LoopPoisoned ==
  /\ loop = "wait"
  /\ owner = Nobody /\ poisoned
  /\ loop' = "dead"
  /\ UNCHANGED <<primary, view, mutex, pc, first, second>>

(* Mutant: the guard of the loop is never dropped.                         *)
CatchUpAndKeep ==
  /\ loop = "locked"
  /\ view' = primary
  /\ loop' = "sleep"
  /\ UNCHANGED <<primary, mutex, pc, first, second>>

(* try_catch_up_with_primary, and the guard is dropped.                    *)
CatchUp ==
  /\ loop = "locked"
  /\ view' = primary
  /\ owner' = Nobody
  /\ loop' = "sleep"
  /\ UNCHANGED <<primary, poisoned, pc, first, second>>

Call(c) == Lock(c) \/ LockPoisoned(c) \/ ReadFirst(c) \/ ReadRest(c)
Loop == Wake \/ LoopLock \/ LoopPoisoned \/ CatchUp

Next == Flush \/ Loop \/ \E c \in Calls : Call(c) \/ Panic(c)

Spec == Init /\ [][Next]_vars

(* Threads are scheduled, and each gets the Mutex in the end, also when    *)
(* others ask for it again and again.                                      *)
FairSpec ==
  /\ Spec
  /\ WF_vars(Loop) /\ SF_vars(LoopLock)
  /\ \A c \in Calls : WF_vars(Call(c)) /\ SF_vars(Lock(c))

-----------------------------------------------------------------------------
(* The shape of the state; who owns the Mutex is where it may own it.      *)
TypeOK ==
  /\ primary \in 0 .. MaxFlushes /\ view \in 0 .. primary
  /\ owner \in Calls \cup {Nobody, Refresher}
  /\ poisoned \in BOOLEAN
  /\ loop \in {"sleep", "wait", "locked", "dead"}
  /\ pc \in [Calls -> {"sent", "locked", "half", "answered", "failed"}]
  /\ owner \in Calls => pc[owner] \in {"locked", "half"}
  /\ owner = Refresher <=> loop = "locked"
  /\ first \in [Calls -> 0 .. MaxFlushes] /\ second \in [Calls -> 0 .. MaxFlushes]

(* An answer is put together from one version of the database, although    *)
(* the index flushes and the loop refreshes at any time.                   *)
OneVersion == \A c \in Calls : pc[c] = "answered" => first[c] = second[c]

(* Every call is answered and what the index flushed is served in the end, *)
(* unless a handler panics, which poisons the Mutex, or one that found its *)
(* inscription waits for the Mutex that it holds, and with it all the rest:*)
(* nothing else, and no order of calls and refreshes, keeps an answer back.*)
Answered ==
  \/ <> poisoned
  \/ \E c \in Calls : <>[] LocksAgain(c)
  \/ (\A c \in Calls : <>(pc[c] = "answered")) /\ <>[](view = primary)

(* Every call whose own handler does not panic is answered.                *)
OthersAnswered == \A c \in Calls \ Panicking : <>(pc[c] = "answered")
=============================================================================
