--------------------------- MODULE DbReaderProofs ---------------------------
(***************************************************************************)
(* Proofs about the read service of OPI-ord, for any number of calls and   *)
(* flushes.                                                                *)
(***************************************************************************)
EXTENDS DbReader, TLAPS

(* A handler owns the Mutex from its first table to its last, and while it *)
(* does, the view it read first is the one that is shown.                  *)
Exclusive == \A c \in Calls : pc[c] \in {"locked", "half"} => owner = c
Steady    == \A c \in Calls : pc[c] = "half" => first[c] = view

IInv == TypeOK /\ Exclusive /\ Steady /\ OneVersion

LEMMA InitIInv == Init => IInv
<1> SUFFICES ASSUME Init PROVE IInv
  OBVIOUS
<1> USE ReaderAssumption DEF Init
<1>1. TypeOK
  <2>1. 0 \in 0 .. MaxFlushes /\ 0 \in 0 .. 0
    OBVIOUS
  <2>2. pc \in [Calls -> {"sent", "locked", "half", "answered", "failed"}]
    OBVIOUS
  <2>3. owner \notin Calls /\ (owner = Refresher <=> loop = "locked") /\ poisoned \in BOOLEAN
    OBVIOUS
  <2>4. primary \in 0 .. MaxFlushes /\ view \in 0 .. primary
    BY <2>1
  <2>5. first \in [Calls -> 0 .. MaxFlushes] /\ second \in [Calls -> 0 .. MaxFlushes]
    BY <2>1
  <2>6. owner \in Calls \cup {Nobody, Refresher} /\ loop \in {"sleep", "wait", "locked", "dead"}
    OBVIOUS
  <2> QED BY <2>2, <2>3, <2>4, <2>5, <2>6 DEF TypeOK
<1>2. Exclusive /\ Steady /\ OneVersion
  BY DEF Exclusive, Steady, OneVersion
<1> QED BY <1>1, <1>2 DEF IInv

(* A step of the index or of the loop.                                     *)
LEMMA LoopStep ==
  ASSUME IInv, Flush \/ Loop
  PROVE  IInv'
<1> USE ReaderAssumption DEF IInv
<1>1. CASE Flush
  BY <1>1 DEF Flush, mutex, TypeOK, Exclusive, Steady, OneVersion
<1>2. CASE Wake
  BY <1>2 DEF Wake, mutex, TypeOK, Exclusive, Steady, OneVersion
<1>3. CASE LoopLock
  <2>1. \A c \in Calls : pc[c] \notin {"locked", "half"}
    BY <1>3 DEF LoopLock, Exclusive
  <2> QED BY <1>3, <2>1 DEF LoopLock, TypeOK, Exclusive, Steady, OneVersion
<1>4. CASE LoopPoisoned
  BY <1>4 DEF LoopPoisoned, mutex, TypeOK, Exclusive, Steady, OneVersion
<1>5. CASE CatchUp
  <2>1. owner = Refresher
    BY <1>5 DEF CatchUp, TypeOK
  <2>2. \A c \in Calls : pc[c] \notin {"locked", "half"}
    BY <2>1 DEF Exclusive
  <2> QED BY <1>5, <2>1, <2>2 DEF CatchUp, TypeOK, Exclusive, Steady, OneVersion
<1> QED BY <1>1, <1>2, <1>3, <1>4, <1>5 DEF Loop

(* A step of a call.                                                       *)
LEMMA CallStep ==
  ASSUME IInv, NEW c \in Calls, Call(c) \/ Panic(c)
  PROVE  IInv'
<1> USE ReaderAssumption DEF IInv, Goto
<1>1. CASE Lock(c)
  <2>1. \A d \in Calls : pc[d] \notin {"locked", "half"}
    BY <1>1 DEF Lock, Exclusive
  <2> QED BY <1>1, <2>1 DEF Lock, TypeOK, Exclusive, Steady, OneVersion
<1>2. CASE LockPoisoned(c)
  BY <1>2 DEF LockPoisoned, mutex, TypeOK, Exclusive, Steady, OneVersion
<1>3. CASE ReadFirst(c)
  BY <1>3 DEF ReadFirst, mutex, TypeOK, Exclusive, Steady, OneVersion
<1>4. CASE ReadRest(c) \/ Panic(c)
  <2>1. owner = c /\ pc[c] \in {"locked", "half"}
    BY <1>4 DEF ReadRest, Panic, Exclusive
  <2>2. \A d \in Calls \ {c} : pc[d] \notin {"locked", "half"}
    BY <2>1 DEF Exclusive
  <2>3. CASE ReadRest(c)
    BY <2>1, <2>2, <2>3 DEF ReadRest, TypeOK, Exclusive, Steady, OneVersion
  <2>4. CASE Panic(c)
    BY <2>1, <2>2, <2>4 DEF Panic, TypeOK, Exclusive, Steady, OneVersion
  <2> QED BY <1>4, <2>3, <2>4
<1> QED BY <1>1, <1>2, <1>3, <1>4 DEF Call

LEMMA NextIInv == IInv /\ [Next]_vars => IInv'
<1> SUFFICES ASSUME IInv, [Next]_vars PROVE IInv'
  OBVIOUS
<1>1. CASE UNCHANGED vars
  BY <1>1 DEF vars, mutex, IInv, TypeOK, Exclusive, Steady, OneVersion
<1> QED BY <1>1, LoopStep, CallStep DEF Next

LEMMA Invariant == Spec => []IInv
  BY InitIInv, NextIInv, PTL DEF Spec

(* Whoever owns the Mutex of the reader is where it may own it, and the    *)
(* view is never ahead of the index.                                       *)
THEOREM TypeCorrect == Spec => []TypeOK
  BY Invariant, PTL DEF IInv

(* Every answer is put together from one version of the database.          *)
THEOREM ConsistentAnswers == Spec => []OneVersion
<1>1. IInv => OneVersion
  BY DEF IInv
<1> QED BY <1>1, Invariant, PTL
=============================================================================
