--------------------------- MODULE OrdIndexProofs ---------------------------
(***************************************************************************)
(* The index of OPI-ord, for any number of blocks, forks, savepoints,      *)
(* kills and errors: what readers and savepoints hold is a chain of        *)
(* blocks, and without errors its tables, headers and outputs are of the   *)
(* same blocks.                                                            *)
(*                                                                         *)
(* A chain is described without recursion: fork f has at height m the      *)
(* block of the fork it left, or its own.  Forks never come back, so a     *)
(* chain that is not Bitcoin's any more never will be.                     *)
(***************************************************************************)
EXTENDS OrdIndex, SequenceTheorems, TLAPS

At(B, f, m) == IF m <= Len(B[f]) THEN B[f][m] ELSE f

(* Below each block of s lies the chain of its fork.                       *)
Straight(B, s) == \A n \in 1 .. Len(s) : \A m \in 1 .. n : s[m] = At(B, s[n], m)

(* s is a chain that Bitcoin has or had.                                   *)
Real(B, c, s) ==
  /\ Len(s) <= Len(c)
  /\ \A m \in 1 .. Len(s) : s[m] <= Len(B)
  /\ Straight(B, s)

(* Forks leave earlier ones, and c is the chain of the last.               *)
Forking(B, c) ==
  /\ \A f \in 1 .. Len(B) :
       /\ Len(B[f]) <= Len(c)
       /\ \A m \in 1 .. Len(B[f]) : B[f][m] < f
       /\ Straight(B, B[f])
  /\ \A m \in 1 .. Len(c) : c[m] = At(B, Len(B), m)

(* Limits that TypeOK needs.                                               *)
Limits ==
  /\ Len(base) \in 1 .. Forks /\ Len(best) <= MaxHeight
  /\ pc \notin {"decide", "commit"} => uncommitted < CommitInterval
  /\ pc = "backup" => Len(backups) < MaxSavepoints

Databases ==
  /\ Real(base, best, db.headers) /\ Real(base, best, disk.headers)
  /\ \A k \in 1 .. Len(backups) : Real(base, best, backups[k].headers)

(* What is fetched ahead continues what is indexed, height by height, with *)
(* blocks that Bitcoin has or had.                                         *)
InOrder ==
  /\ \A i \in 1 .. Len(queue) :
       /\ queue[i].n = Height + i /\ queue[i].n <= Len(best)
       /\ queue[i].f <= Len(base) /\ Len(base[queue[i].f]) < queue[i].n
  /\ fetching => fetchAt = Height + Len(queue) + 1

(* A block below that Bitcoin still has was there when the later one was   *)
(* fetched.                                                                *)
Ahead ==
  /\ \A i \in 1 .. Len(queue), m \in 1 .. Height :
       db.headers[m] = best[m] => At(base, queue[i].f, m) = best[m]
  /\ \A i, j \in 1 .. Len(queue) :
       i < j /\ queue[i].f = best[queue[i].n] =>
         At(base, queue[j].f, queue[i].n) = best[queue[i].n]

IInv == TypeOK /\ Limits /\ Forking(base, best) /\ Databases /\ InOrder /\ Ahead

Joined(u, s, t) == u = s \o t

(* The database is of the blocks it has headers of, but for the outputs in *)
(* memory, and what is on disk is whole.                                   *)
Sound ==
  /\ db.rows = db.headers /\ Joined(db.headers, db.stored, cache)
  /\ Whole(disk)
  /\ pc \notin {"index", "decide", "commit"} => cache = <<>>

OnBest(s) == \A m \in 1 .. Len(s) : s[m] = best[m]

(* An open batch was closed by a reorg: nothing can be indexed any more.   *)
Stranded ==
  /\ disk = db /\ cache = <<>>
  /\ pc \in {"closed", "idle", "index", "restore"}
  /\ ~OnBest(db.headers)
  /\ queue # <<>> => ~Links(Head(queue))

Unbroken ==
  faults = 0 =>
    /\ \A k \in 1 .. Len(backups) : Whole(backups[k])
    /\ Sound \/ Stranded

-----------------------------------------------------------------------------
(* Chains                                                                  *)

Pos == Nat \ {0}
USE DEF Pos

(* A new fork changes nothing of the earlier ones.                         *)
LEMMA AtKept ==
  ASSUME NEW B \in Seq(Seq(Pos)), NEW x \in Seq(Pos),
         NEW f \in 1 .. Len(B), NEW m \in Nat
  PROVE  At(Append(B, x), f, m) = At(B, f, m)
BY DEF At

LEMMA StraightKept ==
  ASSUME NEW B \in Seq(Seq(Pos)), NEW x \in Seq(Pos), NEW s \in Seq(Pos),
         \A m \in 1 .. Len(s) : s[m] <= Len(B),
         Straight(B, s)
  PROVE  Straight(Append(B, x), s)
<1> SUFFICES ASSUME NEW n \in 1 .. Len(s), NEW m \in 1 .. n
             PROVE  s[m] = At(Append(B, x), s[n], m)
  BY DEF Straight
<1>1. s[n] \in 1 .. Len(B)
  BY ElementOfSeq
<1>2. At(Append(B, x), s[n], m) = At(B, s[n], m)
  BY <1>1, AtKept
<1> QED
  BY <1>2 DEF Straight

LEMMA RealKept ==
  ASSUME NEW B \in Seq(Seq(Pos)), NEW x \in Seq(Pos),
         NEW c \in Seq(Pos), NEW d \in Seq(Pos), Len(c) <= Len(d),
         NEW s \in Seq(Pos), Real(B, c, s)
  PROVE  Real(B, d, s) /\ Real(Append(B, x), d, s)
<1>1. \A m \in 1 .. Len(s) : s[m] \in Nat
  BY ElementOfSeq
<1>2. Straight(Append(B, x), s)
  BY StraightKept DEF Real
<1>3. Len(Append(B, x)) = Len(B) + 1
  OBVIOUS
<1> QED
  BY <1>1, <1>2, <1>3 DEF Real

(* A block whose previous block is the last of a chain extends it.         *)
LEMMA RealExtended ==
  ASSUME NEW B \in Seq(Seq(Pos)), NEW c \in Seq(Pos),
         NEW s \in Seq(Pos), Real(B, c, s),
         NEW f \in 1 .. Len(B), Straight(B, B[f]),
         Len(B[f]) <= Len(s), Len(s) + 1 <= Len(c),
         Len(s) > 0 => s[Len(s)] = At(B, f, Len(s))
  PROVE  Real(B, c, Append(s, f))
<1> DEFINE t == Append(s, f)
<1> DEFINE h == Len(s)
<1>1. /\ h \in Nat /\ Len(t) = h + 1 /\ t[h + 1] = f
      /\ \A m \in 1 .. h : t[m] = s[m]
  OBVIOUS
<1>2. \A m \in 1 .. h : s[m] = At(B, f, m)
  <2> SUFFICES ASSUME NEW m \in 1 .. h PROVE s[m] = At(B, f, m)
    OBVIOUS
  <2>1. s[m] = At(B, s[h], m)
    <3>1. h \in 1 .. Len(s)
      OBVIOUS
    <3> QED
      BY <3>1 DEF Real, Straight
  <2>2. CASE h <= Len(B[f])
    <3>1. s[h] = B[f][h] /\ At(B, f, m) = B[f][m]
      BY <2>2 DEF At
    <3>2. B[f][m] = At(B, B[f][h], m)
      <4>1. h \in 1 .. Len(B[f])
        BY <2>2
      <4> QED
        BY <4>1 DEF Straight
    <3> QED
      BY <2>1, <3>1, <3>2
  <2>3. CASE ~(h <= Len(B[f]))
    <3>1. s[h] = f
      BY <2>3 DEF At
    <3> QED
      BY <2>1, <3>1
  <2> QED
    BY <2>2, <2>3
<1>3. At(B, f, h + 1) = f
  BY DEF At
<1>4. Straight(B, t)
  <2> SUFFICES ASSUME NEW n \in 1 .. Len(t), NEW m \in 1 .. n
               PROVE  t[m] = At(B, t[n], m)
    BY DEF Straight
  <2>1. CASE n = h + 1
    BY <2>1, <1>1, <1>2, <1>3
  <2>2. CASE n \in 1 .. h
    BY <2>2, <1>1 DEF Real, Straight
  <2> QED
    BY <2>1, <2>2, <1>1
<1> QED
  BY <1>1, <1>4 DEF Real

(* Chains with a block in common have all blocks below in common.          *)
LEMMA CommonBelow ==
  ASSUME NEW B, NEW s, NEW t, Straight(B, s), Straight(B, t),
         NEW n \in 1 .. Len(s), n \in 1 .. Len(t), s[n] = t[n],
         NEW m \in 1 .. n
  PROVE  s[m] = t[m]
BY DEF Straight

(* Bitcoin's chain is such a chain.                                        *)
LEMMA BestIsReal ==
  ASSUME NEW B \in Seq(Seq(Pos)), Len(B) > 0, NEW c \in Seq(Pos), Forking(B, c)
  PROVE  Real(B, c, c)
<1> DEFINE l == Len(B)
<1>1. \A m \in 1 .. Len(c) : c[m] = At(B, l, m)
  BY DEF Forking
<1>2. l \in 1 .. Len(B) /\ B[l] \in Seq(Pos) /\ Straight(B, B[l])
  BY DEF Forking
<1>3. ASSUME NEW n \in 1 .. Len(c), NEW m \in 1 .. n
      PROVE  c[m] = At(B, c[n], m)
  <2>1. CASE n <= Len(B[l])
    <3>1. c[n] = B[l][n] /\ c[m] = B[l][m]
      <4>1. m \in 1 .. Len(c) /\ m <= Len(B[l])
        BY <2>1, <1>2
      <4> QED
        BY <2>1, <4>1, <1>1 DEF At
    <3>2. n \in 1 .. Len(B[l])
      BY <2>1, <1>2
    <3>3. B[l][m] = At(B, B[l][n], m)
      BY <3>2, <1>2 DEF Straight
    <3> QED
      BY <3>1, <3>3
  <2>2. CASE ~(n <= Len(B[l]))
    <3>1. c[n] = l
      BY <2>2, <1>1 DEF At
    <3> QED
      BY <3>1, <1>1
  <2> QED
    BY <2>1, <2>2
<1>4. ASSUME NEW m \in 1 .. Len(c) PROVE c[m] <= Len(B)
  <2>1. CASE m <= Len(B[l])
    <3>1. c[m] = B[l][m] /\ B[l][m] < l
      <4>1. m \in 1 .. Len(B[l])
        BY <2>1, <1>2
      <4> QED
        BY <2>1, <4>1, <1>1, <1>2 DEF At, Forking
    <3>2. B[l][m] \in Nat
      BY <2>1, <1>2, ElementOfSeq
    <3> QED
      BY <3>1, <3>2
  <2>2. CASE ~(m <= Len(B[l]))
    BY <2>2, <1>1 DEF At
  <2> QED
    BY <2>1, <2>2
<1> QED
  BY <1>3, <1>4 DEF Real, Straight

-----------------------------------------------------------------------------
(* Types                                                                   *)

LEMMA Heights ==
  ASSUME IInv
  PROVE  /\ Len(best) \in 0 .. MaxHeight
         /\ Len(db.headers) \in 0 .. Len(best)
         /\ Len(disk.headers) \in 0 .. Len(best)
         /\ Len(base) \in 1 .. Forks
<1>1. /\ best \in Seq(1 .. Forks) /\ db.headers \in Seq(1 .. Forks)
      /\ disk.headers \in Seq(1 .. Forks)
  BY DEF IInv, TypeOK, Chain, Db
<1> QED
  BY <1>1, IndexAssumption DEF IInv, Limits, Databases, Real

LEMMA LeaveType ==
  ASSUME TypeOK, NEW d \in Db, Leave(d)
  PROVE  /\ best' \in Chain /\ base' \in Seq(Chain)
         /\ db' \in Db /\ disk' \in Db
         /\ cache' \in Chain /\ uncommitted' = Len(cache') /\ uncommitted' <= CommitInterval
         /\ queue' \in Seq([n : 1 .. MaxHeight, f : 1 .. Forks]) /\ Len(queue') <= Channel
         /\ fetchAt' \in 1 .. MaxHeight + 1 /\ fetching' \in BOOLEAN
<1>1. <<>> \in Seq([n : 1 .. MaxHeight, f : 1 .. Forks]) /\ <<>> \in Chain
  BY EmptySeq DEF Chain
<1>2. best' = best /\ base' = base /\ db' = d /\ disk' = d
  BY DEF Leave, bitcoin
<1>3. cache' = <<>> /\ uncommitted' = 0 /\ queue' = <<>> /\ fetchAt' = 1 /\ fetching' = FALSE
  BY DEF Leave
<1>4. uncommitted' = Len(cache') /\ uncommitted' <= CommitInterval /\ Len(queue') <= Channel
  BY <1>3, IndexAssumption
<1>5. fetchAt' \in 1 .. MaxHeight + 1
  BY <1>3, IndexAssumption
<1> QED
  BY <1>1, <1>2, <1>3, <1>4, <1>5 DEF TypeOK

(* Records of a database are changed field by field.                       *)
LEMMA DbAppend ==
  ASSUME NEW d \in Db, NEW f \in 1 .. Forks
  PROVE  /\ [d EXCEPT !.rows = Append(@, f)] \in Db
         /\ [d EXCEPT !.rows = Append(@, f), !.headers = Append(@, f)] \in Db
<1>1. Append(d.rows, f) \in Chain /\ Append(d.headers, f) \in Chain
  BY AppendProperties DEF Db, Chain
<1> QED
  BY <1>1 DEF Db

LEMMA DbStore ==
  ASSUME NEW d \in Db, NEW s \in Chain, NEW h \in 0 .. MaxHeight
  PROVE  /\ [d EXCEPT !.stored = @ \o s] \in Db
         /\ [d EXCEPT !.last = h] \in Db
<1>1. d.stored \o s \in Chain
  BY ConcatProperties DEF Db, Chain
<1> QED
  BY <1>1 DEF Db

LEMMA NewestLength ==
  ASSUME NEW S, NEW s \in Seq(S), NEW n \in Nat
  PROVE  /\ Newest(s, n) \in Seq(S) /\ Len(Newest(s, n)) <= n
         /\ \A k \in 1 .. Len(Newest(s, n)) : \E j \in 1 .. Len(s) : Newest(s, n)[k] = s[j]
<1>1. CASE Len(s) <= n
  BY <1>1 DEF Newest
<1>2. CASE ~(Len(s) <= n)
  <2> DEFINE m == Len(s) - n + 1
  <2>1. Newest(s, n) = SubSeq(s, m, Len(s))
    BY <1>2 DEF Newest
  <2>2. m \in 1 .. Len(s) + 1 /\ Len(s) \in Nat
    BY <1>2
  <2>3. \A i \in m .. Len(s) : s[i] \in S
    BY <2>2, ElementOfSeq
  <2>4. /\ SubSeq(s, m, Len(s)) \in Seq(S)
        /\ Len(SubSeq(s, m, Len(s))) = IF m <= Len(s) THEN Len(s) - m + 1 ELSE 0
        /\ \A i \in 1 .. Len(s) - m + 1 : SubSeq(s, m, Len(s))[i] = s[m + i - 1]
    <3> HIDE DEF m
    <3> QED
      BY <2>2, <2>3, SubSeqProperties
  <2>5. \A i \in 1 .. Len(s) - m + 1 : m + i - 1 \in 1 .. Len(s)
    BY <2>2
  <2> QED
    BY <2>1, <2>2, <2>4, <2>5
<1> QED
  BY <1>1, <1>2

LEMMA HeadTail ==
  ASSUME NEW S, NEW s \in Seq(S), s # <<>>
  PROVE  /\ 1 \in 1 .. Len(s) /\ Head(s) = s[1] /\ Head(s) \in S
         /\ Tail(s) \in Seq(S) /\ Len(Tail(s)) = Len(s) - 1
         /\ \A i \in 1 .. Len(s) - 1 : i + 1 \in 1 .. Len(s) /\ Tail(s)[i] = s[i + 1]
<1>1. 1 \in 1 .. Len(s)
  OBVIOUS
<1>2. s[1] \in S
  BY <1>1, ElementOfSeq
<1> QED
  BY <1>1, <1>2, HeadTailProperties

LEMMA JoinedAppend ==
  ASSUME NEW S, NEW s \in Seq(S), NEW t \in Seq(S), NEW f \in S, NEW u, Joined(u, s, t)
  PROVE  Joined(Append(u, f), s, Append(t, f))
<1>1. u \in Seq(S)
  BY DEF Joined
<1>2. Append(u, f) = u \o <<f>> /\ Append(t, f) = t \o <<f>>
  BY <1>1, AppendIsConcat
<1>3. <<f>> \in Seq(S)
  OBVIOUS
<1>4. (s \o t) \o <<f>> = s \o (t \o <<f>>)
  BY <1>3, ConcatAssociative
<1>5. Append(u, f) = (s \o t) \o <<f>>
  BY <1>2 DEF Joined
<1>6. s \o Append(t, f) = s \o (t \o <<f>>)
  BY <1>2
<1> QED
  BY <1>4, <1>5, <1>6 DEF Joined

LEMMA JoinedEmpty ==
  ASSUME NEW s \in Chain, NEW u
  PROVE  Joined(u, s, <<>>) <=> u = s
BY ConcatEmptySeq DEF Joined, Chain

LEMMA KeptPrefix ==
  ASSUME NEW S, NEW s \in Seq(S), NEW k \in 0 .. Len(s)
  PROVE  /\ Kept(s, k) \in Seq(S) /\ Len(Kept(s, k)) = k
         /\ \A m \in 1 .. k : Kept(s, k)[m] = s[m]
<1>1. Kept(s, k) = SubSeq(s, 1, k)
  BY DEF Kept
<1>2. \A i \in 1 .. k : s[i] \in S
  BY ElementOfSeq
<1>3. k \in Int /\ (1 <= k => k - 1 + 1 = k) /\ (~(1 <= k) => k = 0)
  OBVIOUS
<1> QED
  BY <1>1, <1>2, <1>3, SubSeqProperties

LEMMA TypeStep ==
  ASSUME IInv, [Next]_vars
  PROVE  TypeOK'
<1> USE IndexAssumption DEF Goto
<1>0. TypeOK /\ Limits
  BY DEF IInv
<1>1. CASE Open \/ Decide
  BY <1>0, <1>1 DEF TypeOK, Open, Decide, bitcoin, fetcher, counts
<1>2. CASE StartUpdate
  BY <1>0, <1>2, Heights DEF TypeOK, StartUpdate, bitcoin, counts, Height
<1>3. CASE Fetch
  <2>1. ASSUME fetchAt <= Len(best)
        PROVE  /\ [n |-> fetchAt, f |-> best[fetchAt]] \in [n : 1 .. MaxHeight, f : 1 .. Forks]
               /\ fetchAt + 1 \in 1 .. MaxHeight + 1
    <3>1. fetchAt \in 1 .. MaxHeight /\ fetchAt \in 1 .. Len(best)
      BY <1>0, <2>1, Heights DEF TypeOK
    <3>2. best[fetchAt] \in 1 .. Forks
      BY <1>0, <3>1, ElementOfSeq DEF TypeOK, Chain
    <3> QED
      BY <3>1, <3>2
  <2>2. queue' \in Seq([n : 1 .. MaxHeight, f : 1 .. Forks]) /\ Len(queue') <= Channel
    <3>1. CASE fetchAt <= Len(best)
      <4>1. queue' = Append(queue, [n |-> fetchAt, f |-> best[fetchAt]]) /\ Len(queue) < Channel
        BY <1>3, <3>1 DEF Fetch
      <4>2. queue \in Seq([n : 1 .. MaxHeight, f : 1 .. Forks])
        BY <1>0 DEF TypeOK
      <4> QED
        BY <4>1, <4>2, <2>1, <3>1, AppendProperties
    <3>2. CASE ~(fetchAt <= Len(best))
      BY <1>0, <1>3, <3>2 DEF TypeOK, Fetch
    <3> QED
      BY <3>1, <3>2
  <2>3. fetchAt' \in 1 .. MaxHeight + 1 /\ fetching' \in BOOLEAN
    BY <1>0, <1>3, <2>1 DEF TypeOK, Fetch
  <2> QED
    BY <1>0, <1>3, <2>2, <2>3 DEF TypeOK, Fetch, bitcoin, counts
<1>4. CASE IndexBlock
  <2>1. Head(queue) \in [n : 1 .. MaxHeight, f : 1 .. Forks]
    BY <1>0, <1>4, HeadTailProperties DEF TypeOK, IndexBlock
  <2>2. Head(queue).f \in 1 .. Forks
    BY <2>1
  <2>3. db' \in Db
    BY <1>0, <1>4, <2>2, DbAppend DEF TypeOK, IndexBlock
  <2>4. cache' \in Chain /\ uncommitted' = Len(cache') /\ uncommitted' <= CommitInterval
    BY <1>0, <1>4, <2>2 DEF TypeOK, IndexBlock, Chain, Limits
  <2>5. queue' \in Seq([n : 1 .. MaxHeight, f : 1 .. Forks]) /\ Len(queue') <= Channel
    BY <1>0, <1>4, HeadTailProperties DEF TypeOK, IndexBlock
  <2> QED
    BY <1>0, <1>4, <2>3, <2>4, <2>5 DEF TypeOK, IndexBlock, bitcoin, counts
<1>5. CASE ReorgDetected \/ ReorgTooDeep
  <2>1. db \in Db /\ Leave(db)
    BY <1>0, <1>5 DEF TypeOK, ReorgDetected, ReorgTooDeep
  <2> QED
    BY <1>0, <1>5, <2>1, LeaveType DEF TypeOK, ReorgDetected, ReorgTooDeep, counts
<1>6. CASE EndBatch
  BY <1>0, <1>6 DEF TypeOK, EndBatch, bitcoin, fetcher, counts
<1>7. CASE Commit
  <2>1. [db EXCEPT !.stored = @ \o cache] \in Db
    BY <1>0, DbStore, Heights DEF TypeOK
  <2>2. cache' \in Chain /\ uncommitted' = Len(cache') /\ uncommitted' <= CommitInterval
    BY <1>7, EmptySeq DEF Commit, Chain
  <2> QED
    BY <1>0, <1>7, <2>1, <2>2 DEF TypeOK, Commit, bitcoin, fetcher, counts
<1>8. CASE Purge
  <2>1. MaxSavepoints - 1 \in Nat
    OBVIOUS
  <2>2. backups' \in Seq(Db) /\ Len(backups') <= MaxSavepoints
    BY <1>0, <1>8, <2>1, NewestLength DEF TypeOK, Purge
  <2> QED
    BY <1>0, <1>8, <2>2 DEF TypeOK, Purge, bitcoin, fetcher, counts
<1>9. CASE Backup
  BY <1>0, <1>9 DEF TypeOK, Limits, Backup, bitcoin, fetcher, counts
<1>10. CASE Mark
  <2>1. Height \in 0 .. MaxHeight
    BY Heights DEF Height
  <2>2. [db EXCEPT !.last = Height] \in Db
    BY <1>0, <2>1, DbStore DEF TypeOK
  <2> QED
    BY <1>0, <1>10, <2>2 DEF TypeOK, Mark, bitcoin, fetcher, counts
<1>11. CASE Restore
  <2>1. backups # <<>> => Head(backups) \in Db
    BY <1>0, HeadTailProperties DEF TypeOK
  <2>2. PICK d \in Db : Leave(d)
    BY <1>0, <1>11, <2>1 DEF TypeOK, Restore
  <2> QED
    BY <1>0, <1>11, <2>2, LeaveType DEF TypeOK, Restore, counts
<1>12. CASE FaultInBlock
  <2>1. Head(queue) \in [n : 1 .. MaxHeight, f : 1 .. Forks]
    BY <1>0, <1>12, HeadTailProperties DEF TypeOK, FaultInBlock
  <2>2. [db EXCEPT !.rows = Append(@, Head(queue).f)] \in Db
    BY <1>0, <2>1, DbAppend DEF TypeOK
  <2> DEFINE d == [db EXCEPT !.rows = Append(@, Head(queue).f)]
  <2>3. d \in Db /\ Leave(d)
    BY <1>12, <2>2 DEF FaultInBlock
  <2> HIDE DEF d
  <2>4. crashes' \in 0 .. MaxCrashes /\ faults' \in 0 .. MaxFaults /\ backups' = backups /\ pc' = "closed"
    <3>1. faults < MaxFaults /\ faults' = faults + 1 /\ crashes' = crashes /\ backups' = backups /\ pc' = "closed"
      BY <1>12 DEF FaultInBlock
    <3>2. crashes \in 0 .. MaxCrashes /\ faults \in 0 .. MaxFaults
      BY <1>0 DEF TypeOK
    <3> QED
      BY <3>1, <3>2
  <2> QED
    BY <1>0, <2>3, <2>4, LeaveType DEF TypeOK
<1>13. CASE FaultBetweenBlocks
  <2>1. db \in Db /\ Leave(db)
    BY <1>0, <1>13 DEF TypeOK, FaultBetweenBlocks
  <2>2. crashes' \in 0 .. MaxCrashes /\ faults' \in 0 .. MaxFaults /\ backups' = backups /\ pc' = "closed"
    BY <1>0, <1>13 DEF TypeOK, FaultBetweenBlocks
  <2> QED
    BY <1>0, <2>1, <2>2, LeaveType DEF TypeOK
<1>14. CASE Crash
  <2>1. disk \in Db /\ Leave(disk)
    BY <1>0, <1>14 DEF TypeOK, Crash
  <2>2. crashes' \in 0 .. MaxCrashes /\ faults' \in 0 .. MaxFaults /\ backups' = backups /\ pc' = "closed"
    BY <1>0, <1>14 DEF TypeOK, Crash
  <2> QED
    BY <1>0, <2>1, <2>2, LeaveType DEF TypeOK
<1>15. CASE ShutDown
  <2>1. crashes' \in 0 .. MaxCrashes
    BY <1>0, <1>15 DEF TypeOK, ShutDown
  <2>2. queue' \in Seq([n : 1 .. MaxHeight, f : 1 .. Forks]) /\ Len(queue') <= Channel
    BY <1>15, EmptySeq DEF ShutDown
  <2> QED
    BY <1>0, <1>15, <2>1, <2>2 DEF TypeOK, ShutDown, bitcoin
<1>16. CASE Mine
  BY <1>0, <1>16 DEF TypeOK, Limits, Chain, Mine, index, fetcher, counts
<1>17. CASE \E k \in 0 .. MaxHeight : BitcoinReorg(k)
  <2>1. PICK k \in 0 .. MaxHeight : BitcoinReorg(k)
    BY <1>17
  <2>2. k \in 0 .. Len(best) /\ Len(best) - k + 1 \in Nat /\ Len(base) + 1 \in 1 .. Forks
    BY <1>0, <2>1, Heights DEF BitcoinReorg
  <2>3. Kept(best, k) \in Chain
    BY <1>0, <2>2, KeptPrefix DEF TypeOK, Chain
  <2>4. [n \in 1 .. Len(best) - k + 1 |-> Len(base) + 1] \in Chain
    BY <2>2 DEF Chain
  <2>5. best' \in Chain /\ base' \in Seq(Chain)
    BY <1>0, <2>1, <2>3, <2>4 DEF TypeOK, Chain, BitcoinReorg
  <2> QED
    BY <1>0, <2>1, <2>5 DEF TypeOK, BitcoinReorg, index, fetcher, counts
<1>18. CASE UNCHANGED vars
  BY <1>0, <1>18 DEF TypeOK, vars, bitcoin, fetcher, counts
<1> QED
  BY <1>1, <1>2, <1>3, <1>4, <1>5, <1>6, <1>7, <1>8, <1>9, <1>10, <1>11, <1>12, <1>13,
     <1>14, <1>15, <1>16, <1>17, <1>18 DEF Next, Step

-----------------------------------------------------------------------------
(* Limits and forks                                                        *)

LEMMA LimitsStep ==
  ASSUME IInv, [Next]_vars
  PROVE  Limits'
<1> USE IndexAssumption DEF Goto
<1>0. TypeOK /\ Limits
  BY DEF IInv
<1>1. Len(base') \in 1 .. Forks /\ Len(best') <= MaxHeight
  <2>1. CASE UNCHANGED <<base, best>>
    BY <1>0, <2>1 DEF Limits
  <2>2. CASE Mine
    <3>1. base' = base /\ Len(best') = Len(best) + 1 /\ Len(best) < MaxHeight
      BY <1>0, <2>2 DEF TypeOK, Chain, Mine
    <3> QED
      BY <1>0, <3>1, Heights DEF Limits
  <2>3. CASE \E k \in 0 .. MaxHeight : BitcoinReorg(k)
    <3>1. PICK k \in 0 .. MaxHeight : BitcoinReorg(k)
      BY <2>3
    <3>2. k \in 0 .. Len(best) /\ Len(best) < MaxHeight /\ Len(base) < Forks
      BY <3>1, Heights DEF BitcoinReorg
    <3>3. Len(base') = Len(base) + 1
      BY <1>0, <3>1 DEF TypeOK, BitcoinReorg
    <3>4. Kept(best, k) \in Seq(1 .. Forks) /\ Len(Kept(best, k)) = k
      BY <1>0, <3>2, KeptPrefix DEF TypeOK, Chain
    <3>5. /\ [n \in 1 .. Len(best) - k + 1 |-> Len(base) + 1] \in Seq(1 .. Forks)
          /\ Len([n \in 1 .. Len(best) - k + 1 |-> Len(base) + 1]) = Len(best) - k + 1
      BY <3>2, Heights
    <3>6. Len(best') = k + (Len(best) - k + 1)
      BY <3>1, <3>4, <3>5, ConcatProperties DEF BitcoinReorg
    <3> QED
      BY <3>2, <3>3, <3>6, Heights
  <2> QED
    BY <2>1, <2>2, <2>3 DEF Next, Step, Open, StartUpdate, Fetch, IndexBlock, ReorgDetected,
       ReorgTooDeep, Decide, EndBatch, Commit, Purge, Backup, Mark, Restore, FaultInBlock,
       FaultBetweenBlocks, Crash, ShutDown, Leave, bitcoin, vars
<1>2. pc' \notin {"decide", "commit"} => uncommitted' < CommitInterval
  <2>1. CASE Open \/ StartUpdate \/ Fetch \/ EndBatch \/ Purge \/ Backup \/ Mark \/ ShutDown
    BY <1>0, <2>1 DEF TypeOK, Limits, Open, StartUpdate, Fetch, EndBatch, Purge, Backup, Mark, ShutDown
  <2>2. CASE Decide
    BY <1>0, <2>2 DEF TypeOK, Limits, Decide
  <2>3. CASE IndexBlock \/ Commit
    BY <2>3 DEF IndexBlock, Commit
  <2>4. CASE Restore \/ Crash \/ ReorgDetected \/ ReorgTooDeep \/ FaultInBlock \/ FaultBetweenBlocks
    BY <2>4 DEF Restore, Crash, ReorgDetected, ReorgTooDeep, FaultInBlock, FaultBetweenBlocks, Leave
  <2>5. CASE UNCHANGED <<pc, uncommitted>>
    BY <1>0, <2>5 DEF Limits
  <2> QED
    BY <2>1, <2>2, <2>3, <2>4, <2>5 DEF Next, Step, Mine, BitcoinReorg, index, vars
<1>3. pc' = "backup" => Len(backups') < MaxSavepoints
  <2>1. CASE Purge
    <3>1. SavepointRequired => Len(backups') <= MaxSavepoints - 1 /\ Len(backups') \in Nat
      BY <1>0, <2>1, NewestLength DEF TypeOK, Purge
    <3> QED
      BY <2>1, <3>1 DEF Purge
  <2>2. CASE UNCHANGED <<pc, backups>>
    BY <1>0, <2>2 DEF Limits
  <2>3. CASE pc' # "backup"
    BY <2>3
  <2> QED
    BY <2>1, <2>2, <2>3 DEF Next, Step, Open, StartUpdate, Fetch, IndexBlock, ReorgDetected,
       ReorgTooDeep, Decide, EndBatch, Commit, Backup, Mark, Restore, FaultInBlock,
       FaultBetweenBlocks, Crash, ShutDown, Mine, BitcoinReorg, index, vars
<1> QED
  BY <1>1, <1>2, <1>3 DEF Limits

LEMMA Shapes ==
  ASSUME TypeOK
  PROVE  /\ base \in Seq(Seq(Pos))
         /\ best \in Seq(Pos)
         /\ db.headers \in Seq(Pos) /\ disk.headers \in Seq(Pos)
         /\ \A k \in 1 .. Len(backups) : backups[k].headers \in Seq(Pos)
         /\ queue \in Seq([n : Nat, f : Pos])
<1>1. Chain \subseteq Seq(Pos)
  BY SeqMonotonic, IndexAssumption DEF Chain
<1>2. Seq(Chain) \subseteq Seq(Seq(Pos))
  BY <1>1, SeqMonotonic
<1>4. queue \in Seq([n : Nat, f : Pos])
  <2> DEFINE S == [n : 1 .. MaxHeight, f : 1 .. Forks]
  <2> DEFINE T == [n : Nat, f : Pos]
  <2>1. S \subseteq T
    BY IndexAssumption
  <2>2. queue \in Seq(S)
    BY DEF TypeOK
  <2> HIDE DEF S, T
  <2>3. queue \in Seq(T)
    BY <2>1, <2>2, SeqMonotonic
  <2> QED
    BY <2>3 DEF T
<1>5. \A k \in 1 .. Len(backups) : backups[k] \in Db
  BY ElementOfSeq DEF TypeOK
<1> QED
  BY <1>1, <1>2, <1>4, <1>5 DEF TypeOK, Db

LEMMA ForkingMined ==
  ASSUME NEW B \in Seq(Seq(Pos)), Len(B) > 0, NEW c \in Seq(Pos), Forking(B, c)
  PROVE  Forking(B, Append(c, Len(B)))
<1> DEFINE d == Append(c, Len(B))
<1>1. Len(d) = Len(c) + 1 /\ d[Len(c) + 1] = Len(B) /\ \A m \in 1 .. Len(c) : d[m] = c[m]
  OBVIOUS
<1>2. Len(B) \in 1 .. Len(B) /\ Len(B[Len(B)]) \in Nat /\ Len(B[Len(B)]) <= Len(c)
  BY DEF Forking
<1>3. At(B, Len(B), Len(c) + 1) = Len(B)
  BY <1>2 DEF At
<1>4. ASSUME NEW f \in 1 .. Len(B)
      PROVE  Len(B[f]) <= Len(d)
  <2>1. Len(B[f]) \in Nat /\ Len(B[f]) <= Len(c)
    BY DEF Forking
  <2> QED
    BY <1>1, <2>1
<1>5. ASSUME NEW m \in 1 .. Len(d) PROVE d[m] = At(B, Len(B), m)
  <2>1. CASE m = Len(c) + 1
    BY <2>1, <1>1, <1>3
  <2>2. CASE m \in 1 .. Len(c)
    BY <2>2, <1>1 DEF Forking
  <2> QED
    BY <2>1, <2>2, <1>1
<1> HIDE DEF d
<1>6. Forking(B, d)
  BY <1>4, <1>5 DEF Forking
<1> QED
  BY <1>6 DEF d

LEMMA ForkingForked ==
  ASSUME NEW B \in Seq(Seq(Pos)), Len(B) > 0, NEW c \in Seq(Pos), Forking(B, c),
         NEW k \in Nat, k < Len(c), NEW p \in Seq(Pos), Len(p) = k,
         \A m \in 1 .. k : p[m] = c[m],
         NEW d \in Seq(Pos), Len(d) = Len(c) + 1,
         \A m \in 1 .. Len(d) : d[m] = IF m <= k THEN c[m] ELSE Len(B) + 1
  PROVE  Forking(Append(B, p), d)
<1> DEFINE D == Append(B, p)
<1>1. /\ Len(D) = Len(B) + 1 /\ D[Len(B) + 1] = p
      /\ \A f \in 1 .. Len(B) : D[f] = B[f]
  OBVIOUS
<1>2. Real(B, c, c)
  BY BestIsReal
<1>3. ASSUME NEW f \in 1 .. Len(B)
      PROVE  /\ Len(D[f]) <= Len(d)
             /\ \A m \in 1 .. Len(D[f]) : D[f][m] < f
             /\ Straight(D, D[f])
  <2>1. /\ D[f] = B[f] /\ B[f] \in Seq(Pos)
        /\ Len(B[f]) <= Len(c)
        /\ \A m \in 1 .. Len(B[f]) : B[f][m] < f
        /\ Straight(B, B[f])
    BY <1>1 DEF Forking
  <2>2. ASSUME NEW m \in 1 .. Len(B[f]) PROVE B[f][m] <= Len(B)
    <3>1. B[f][m] \in Nat
      <4> DEFINE t == B[f]
      <4>1. t \in Seq(Pos) /\ m \in 1 .. Len(t)
        BY <2>1
      <4> HIDE DEF t
      <4>2. t[m] \in Pos
        BY <4>1, ElementOfSeq
      <4> QED
        BY <4>2 DEF t
    <3>2. B[f][m] < f
      BY <2>1
    <3>3. f \in Nat /\ f <= Len(B) /\ Len(B) \in Nat
      OBVIOUS
    <3> QED
      BY <3>1, <3>2, <3>3
  <2>3. Straight(D, B[f])
    BY <2>1, <2>2, StraightKept
  <2> HIDE DEF D
  <2> QED
    BY <2>1, <2>3
<1>4. /\ Len(p) <= Len(d)
      /\ \A m \in 1 .. Len(p) : p[m] < Len(B) + 1
      /\ Straight(D, p)
  <2>0. \A m \in 1 .. Len(p) : m \in 1 .. Len(c) /\ p[m] = c[m]
    OBVIOUS
  <2>1. \A m \in 1 .. Len(p) : p[m] <= Len(B) /\ p[m] \in Pos
    BY <1>2, <2>0, ElementOfSeq DEF Real
  <2>2. Straight(B, p)
    <3> SUFFICES ASSUME NEW n \in 1 .. Len(p), NEW m \in 1 .. n
                 PROVE  p[m] = At(B, p[n], m)
      BY DEF Straight
    <3>1. m \in 1 .. Len(p)
      OBVIOUS
    <3> QED
      BY <3>1, <2>0, <1>2 DEF Real, Straight
  <2>3. Straight(D, p)
    BY <2>1, <2>2, StraightKept
  <2> QED
    BY <2>1, <2>3
<1>5. ASSUME NEW m \in 1 .. Len(d)
      PROVE  d[m] = At(D, Len(D), m)
  <2>1. D[Len(D)] = p /\ Len(D) = Len(B) + 1
    BY <1>1
  <2> HIDE DEF D
  <2>2. At(D, Len(D), m) = IF m <= k THEN p[m] ELSE Len(B) + 1
    BY <2>1 DEF At
  <2>3. m <= k => p[m] = c[m]
    OBVIOUS
  <2> QED
    BY <2>2, <2>3
<1> HIDE DEF D
<1>6. ASSUME NEW f \in 1 .. Len(D)
      PROVE  /\ Len(D[f]) <= Len(d)
             /\ \A m \in 1 .. Len(D[f]) : D[f][m] < f
             /\ Straight(D, D[f])
  <2>1. CASE f = Len(B) + 1
    BY <2>1, <1>1, <1>4
  <2>2. CASE f \in 1 .. Len(B)
    BY <2>2, <1>3
  <2> QED
    BY <2>1, <2>2, <1>1
<1>7. Forking(D, d)
  BY <1>5, <1>6 DEF Forking
<1> QED
  BY <1>7 DEF D

(* What a reorg of Bitcoin does.                                           *)
LEMMA ReorgEffect ==
  ASSUME TypeOK, Len(base) > 0, NEW k \in 0 .. MaxHeight, BitcoinReorg(k)
  PROVE  \E p \in Seq(Pos) :
           /\ k < Len(best) /\ Len(p) = k /\ \A m \in 1 .. k : p[m] = best[m]
           /\ base' = Append(base, p)
           /\ best' \in Seq(Pos) /\ Len(best') = Len(best) + 1
           /\ \A m \in 1 .. Len(best') : best'[m] = IF m <= k THEN best[m] ELSE Len(base) + 1
<1> DEFINE p == Kept(best, k)
<1> DEFINE q == [n \in 1 .. Len(best) - k + 1 |-> Len(base) + 1]
<1>1. best \in Seq(Pos) /\ base \in Seq(Seq(Pos)) /\ k < Len(best) /\ k \in 0 .. Len(best)
  BY Shapes, IndexAssumption DEF BitcoinReorg
<1>2. p \in Seq(Pos) /\ Len(p) = k /\ \A m \in 1 .. k : p[m] = best[m]
  BY <1>1, KeptPrefix
<1>3. /\ q \in Seq(Pos) /\ Len(q) = Len(best) - k + 1
      /\ \A m \in 1 .. Len(q) : q[m] = Len(base) + 1
  BY <1>1
<1>4. base' = Append(base, p) /\ best' = p \o q
  BY DEF BitcoinReorg
<1> HIDE DEF p, q
<1>5. /\ best' \in Seq(Pos) /\ Len(best') = Len(p) + Len(q)
      /\ \A m \in 1 .. Len(p) + Len(q) : best'[m] = IF m <= Len(p) THEN p[m] ELSE q[m - Len(p)]
  BY <1>2, <1>3, <1>4, ConcatProperties
<1>6. Len(best') = Len(best) + 1
  BY <1>1, <1>2, <1>3, <1>5
<1>7. ASSUME NEW m \in 1 .. Len(best')
      PROVE  best'[m] = IF m <= k THEN best[m] ELSE Len(base) + 1
  <2>1. CASE m <= k
    <3>1. m \in 1 .. k /\ m \in 1 .. Len(p) + Len(q)
      BY <1>1, <1>2, <1>3, <1>6, <2>1
    <3> QED
      BY <1>2, <1>5, <2>1, <3>1
  <2>2. CASE ~(m <= k)
    <3>1. m - k \in 1 .. Len(q) /\ m \in 1 .. Len(p) + Len(q)
      BY <1>1, <1>2, <1>3, <1>6, <2>2
    <3> QED
      BY <1>2, <1>3, <1>5, <2>2, <3>1
  <2> QED
    BY <2>1, <2>2
<1> QED
  BY <1>1, <1>2, <1>4, <1>5, <1>6, <1>7

(* Whatever happens, Bitcoin's chain does not shrink and forks are added.  *)
LEMMA BitcoinStep ==
  ASSUME IInv, [Next]_vars
  PROVE  /\ best' \in Seq(Pos) /\ Len(best) <= Len(best')
         /\ base' = base \/ \E p \in Seq(Pos) : base' = Append(base, p)
         /\ Forking(base', best')
<1>1. TypeOK /\ Forking(base, best) /\ best \in Seq(Pos) /\ base \in Seq(Seq(Pos)) /\ Len(base) > 0
  BY Shapes, Heights DEF IInv
<1>2. CASE UNCHANGED <<base, best>>
  BY <1>1, <1>2
<1>3. CASE Mine
  <2>1. base' = base /\ best' = Append(best, Len(base))
    BY <1>3 DEF Mine
  <2>2. Forking(base, Append(best, Len(base)))
    BY <1>1, ForkingMined
  <2>3. best' \in Seq(Pos) /\ Len(best) <= Len(best')
    BY <1>1, <2>1
  <2> QED
    BY <2>1, <2>2, <2>3
<1>4. CASE \E k \in 0 .. MaxHeight : BitcoinReorg(k)
  <2>1. PICK k \in 0 .. MaxHeight : BitcoinReorg(k)
    BY <1>4
  <2>2. PICK p \in Seq(Pos) :
           /\ k < Len(best) /\ Len(p) = k /\ \A m \in 1 .. k : p[m] = best[m]
           /\ base' = Append(base, p)
           /\ best' \in Seq(Pos) /\ Len(best') = Len(best) + 1
           /\ \A m \in 1 .. Len(best') : best'[m] = IF m <= k THEN best[m] ELSE Len(base) + 1
    BY <1>1, <2>1, ReorgEffect
  <2>3. Forking(Append(base, p), best')
    <3>1. k \in Nat
      BY IndexAssumption
    <3> QED
      BY <1>1, <2>2, <3>1, ForkingForked
  <2> QED
    BY <1>1, <2>2, <2>3
<1> QED
  BY <1>2, <1>3, <1>4 DEF Next, Step, Open, StartUpdate, Fetch, IndexBlock, ReorgDetected,
     ReorgTooDeep, Decide, EndBatch, Commit, Purge, Backup, Mark, Restore, FaultInBlock,
     FaultBetweenBlocks, Crash, ShutDown, Leave, bitcoin, vars

LEMMA RealStep ==
  ASSUME IInv, [Next]_vars, NEW s \in Seq(Pos), Real(base, best, s)
  PROVE  Real(base', best', s)
<1>1. /\ best \in Seq(Pos) /\ base \in Seq(Seq(Pos))
      /\ best' \in Seq(Pos) /\ Len(best) <= Len(best')
  BY BitcoinStep, Shapes DEF IInv
<1>2. CASE base' = base
  <2>1. <<>> \in Seq(Pos)
    BY EmptySeq
  <2> QED
    BY <1>1, <1>2, <2>1, RealKept
<1>3. CASE \E p \in Seq(Pos) : base' = Append(base, p)
  <2>1. PICK p \in Seq(Pos) : base' = Append(base, p)
    BY <1>3
  <2>2. Real(Append(base, p), best', s)
    BY <1>1, RealKept
  <2> QED
    BY <2>1, <2>2
<1> QED
  BY <1>2, <1>3, BitcoinStep

-----------------------------------------------------------------------------
(* What is stored is a chain                                               *)

(* The block indexed continues the headers.                                *)
LEMMA BlockEffect ==
  ASSUME IInv, IndexBlock
  PROVE  /\ Head(queue).f \in 1 .. Len(base)
         /\ Head(queue).n = Height + 1 /\ Height + 1 <= Len(best)
         /\ Len(base[Head(queue).f]) <= Height
         /\ Height > 0 => db.headers[Height] = At(base, Head(queue).f, Height)
         /\ db'.headers = Append(db.headers, Head(queue).f)
         /\ Len(db'.headers) = Height + 1
         /\ \A m \in 1 .. Height : db'.headers[m] = db.headers[m]
         /\ db'.headers[Height + 1] = Head(queue).f
<1> DEFINE b == Head(queue)
<1>0. /\ TypeOK /\ InOrder
      /\ base \in Seq(Seq(Pos)) /\ db.headers \in Seq(Pos)
      /\ queue \in Seq([n : Nat, f : Pos])
  BY Shapes DEF IInv
<1>1. queue # <<>> /\ Links(b)
  BY DEF IndexBlock
<1>2. 1 \in 1 .. Len(queue) /\ b = queue[1] /\ b \in [n : Nat, f : Pos]
  BY <1>0, <1>1, HeadTail
<1>3. Height \in Nat /\ Height = Len(db.headers)
  BY <1>0 DEF Height
<1>4. b.n = Height + 1 /\ b.n <= Len(best) /\ b.f <= Len(base) /\ Len(base[b.f]) < b.n
  BY <1>0, <1>2 DEF InOrder
<1>5. b.f \in 1 .. Len(base)
  BY <1>2, <1>4
<1>6. Len(base[b.f]) \in Nat
  BY <1>0, <1>5
<1>7. db'.headers = Append(db.headers, b.f)
  BY <1>0 DEF IndexBlock, TypeOK, Db
<1>8. ASSUME Height > 0 PROVE db.headers[Height] = At(base, b.f, Height)
  <2>1. db.headers[Height] = Parent(b.n, b.f)
    BY <1>1, <1>8 DEF Links
  <2>2. b.n - 1 = Height
    BY <1>3, <1>4
  <2> QED
    BY <2>1, <2>2 DEF Parent, At
<1> HIDE DEF b
<1>9. /\ Len(db'.headers) = Height + 1
      /\ \A m \in 1 .. Height : db'.headers[m] = db.headers[m]
      /\ db'.headers[Height + 1] = b.f
  BY <1>0, <1>3, <1>7
<1>10. Len(base[b.f]) <= Height /\ Height + 1 <= Len(best)
  BY <1>3, <1>4, <1>6
<1> QED
  BY <1>4, <1>5, <1>7, <1>8, <1>9, <1>10 DEF b

(* Headers change in three ways: a block is added, the database is left    *)
(* with the headers of one there was, or they stay.                        *)
LEMMA HeadersStep ==
  ASSUME IInv, [Next]_vars
  PROVE  \/ /\ IndexBlock
            /\ disk' = disk /\ backups' = backups
         \/ /\ \/ db'.headers = db.headers \/ db'.headers = disk.headers
               \/ \E k \in 1 .. Len(backups) : db'.headers = backups[k].headers
            /\ disk'.headers = disk.headers \/ disk'.headers = db'.headers
            /\ \A k \in 1 .. Len(backups') :
                 \/ backups'[k].headers = db.headers
                 \/ \E j \in 1 .. Len(backups) : backups'[k] = backups[j]
<1>0. TypeOK
  BY DEF IInv
<1>a. db \in Db /\ disk \in Db /\ backups \in Seq(Db)
  BY <1>0 DEF TypeOK
<1>1. CASE UNCHANGED <<db, disk, backups>>
  BY <1>1
<1>2. CASE IndexBlock
  BY <1>2 DEF IndexBlock
<1>3. CASE ReorgDetected \/ ReorgTooDeep \/ FaultBetweenBlocks \/ Crash
  BY <1>3 DEF ReorgDetected, ReorgTooDeep, FaultBetweenBlocks, Crash, Leave
<1>4. CASE FaultInBlock
  <2>1. [db EXCEPT !.rows = Append(@, Head(queue).f)].headers = db.headers
    BY <1>a DEF Db
  <2> QED
    BY <1>4, <2>1 DEF FaultInBlock, Leave
<1>5. CASE Restore
  <2>1. backups' = backups /\ disk' = db' /\ db' = IF backups = <<>> THEN disk ELSE Head(backups)
    BY <1>5 DEF Restore, Leave
  <2>2. backups # <<>> => 1 \in 1 .. Len(backups) /\ Head(backups) = backups[1]
    BY <1>a, HeadTailProperties
  <2> QED
    BY <2>1, <2>2
<1>6. CASE Commit
  <2>1. [db EXCEPT !.stored = @ \o cache].headers = db.headers
    BY <1>a DEF Db
  <2> QED
    BY <1>6, <2>1 DEF Commit
<1>7. CASE Mark
  <2>1. [db EXCEPT !.last = Height].headers = db.headers
    BY <1>a DEF Db
  <2> QED
    BY <1>7, <2>1 DEF Mark
<1>8. CASE Purge
  <2>1. MaxSavepoints - 1 \in Nat
    BY IndexAssumption
  <2>2. backups' = backups \/ backups' = Newest(backups, MaxSavepoints - 1)
    BY <1>8 DEF Purge
  <2>3. \A k \in 1 .. Len(backups') : \E j \in 1 .. Len(backups) : backups'[k] = backups[j]
    BY <1>a, <2>1, <2>2, NewestLength
  <2> QED
    BY <1>8, <2>3 DEF Purge
<1>9. CASE Backup
  <2>1. backups' = Append(backups, db) /\ db' = db /\ disk' = disk
    BY <1>9 DEF Backup
  <2>2. /\ Len(backups') = Len(backups) + 1 /\ backups'[Len(backups) + 1] = db
        /\ \A k \in 1 .. Len(backups) : backups'[k] = backups[k]
    BY <1>a, <2>1
  <2> QED
    BY <2>1, <2>2
<1> QED
  BY <1>1, <1>2, <1>3, <1>4, <1>5, <1>6, <1>7, <1>8, <1>9 DEF Next, Step, Open, StartUpdate,
     Fetch, Decide, EndBatch, ShutDown, Mine, BitcoinReorg, index, vars

LEMMA DatabasesStep ==
  ASSUME IInv, [Next]_vars
  PROVE  Databases'
<1>0. /\ TypeOK /\ Databases /\ Forking(base, best)
      /\ base \in Seq(Seq(Pos)) /\ best \in Seq(Pos)
      /\ db.headers \in Seq(Pos) /\ disk.headers \in Seq(Pos)
      /\ \A k \in 1 .. Len(backups) : backups[k].headers \in Seq(Pos)
  BY Shapes DEF IInv
<1>1. /\ Real(base', best', db.headers) /\ Real(base', best', disk.headers)
      /\ \A k \in 1 .. Len(backups) : Real(base', best', backups[k].headers)
  BY <1>0, RealStep DEF Databases
<1>2. CASE IndexBlock /\ disk' = disk /\ backups' = backups
  <2>1. base' = base /\ best' = best
    BY <1>2 DEF IndexBlock, bitcoin
  <2>2. Straight(base, base[Head(queue).f]) /\ Head(queue).f \in 1 .. Len(base)
    BY <1>0, <1>2, BlockEffect DEF Forking
  <2>3. Real(base, best, Append(db.headers, Head(queue).f))
    BY <1>0, <1>2, <2>2, BlockEffect, RealExtended DEF Height, Databases
  <2>4. Real(base', best', db'.headers)
    BY <1>2, <2>1, <2>3, BlockEffect
  <2> QED
    BY <1>1, <1>2, <2>4 DEF Databases
<1>3. CASE /\ \/ db'.headers = db.headers \/ db'.headers = disk.headers
              \/ \E k \in 1 .. Len(backups) : db'.headers = backups[k].headers
           /\ disk'.headers = disk.headers \/ disk'.headers = db'.headers
           /\ \A k \in 1 .. Len(backups') :
                \/ backups'[k].headers = db.headers
                \/ \E j \in 1 .. Len(backups) : backups'[k] = backups[j]
  <2>1. Real(base', best', db'.headers)
    BY <1>1, <1>3
  <2>2. Real(base', best', disk'.headers)
    BY <1>1, <1>3, <2>1
  <2>3. \A k \in 1 .. Len(backups') : Real(base', best', backups'[k].headers)
    BY <1>1, <1>3
  <2> QED
    BY <2>1, <2>2, <2>3 DEF Databases
<1> QED
  BY <1>2, <1>3, HeadersStep

-----------------------------------------------------------------------------
(* What is fetched ahead                                                   *)

(* A block of Bitcoin is of a fork that starts at or below it, and the     *)
(* blocks below it are those of its fork.                                  *)
LEMMA BestBlock ==
  ASSUME IInv, NEW n \in 1 .. Len(best)
  PROVE  /\ best[n] \in 1 .. Len(base) /\ Len(base[best[n]]) < n
         /\ \A m \in 1 .. n : At(base, best[n], m) = best[m]
<1>0. /\ base \in Seq(Seq(Pos)) /\ best \in Seq(Pos) /\ Forking(base, best)
      /\ Len(base) > 0
  BY Shapes, Heights DEF IInv
<1>1. Real(base, best, best)
  BY <1>0, BestIsReal
<1>2. best[n] \in Pos /\ best[n] <= Len(base)
  BY <1>0, <1>1, ElementOfSeq DEF Real
<1>3. best[n] \in 1 .. Len(base)
  BY <1>0, <1>2
<1>4. \A m \in 1 .. n : At(base, best[n], m) = best[m]
  BY <1>1 DEF Real, Straight
<1>5. Len(base[best[n]]) \in Nat
  BY <1>0, <1>3
<1>6. Len(base[best[n]]) < n
  <2> SUFFICES ASSUME n <= Len(base[best[n]]) PROVE FALSE
    BY <1>5
  <2>1. n \in 1 .. n /\ n \in 1 .. Len(base[best[n]])
    BY <1>5
  <2>2. best[n] = base[best[n]][n]
    BY <2>1, <1>4 DEF At
  <2>3. base[best[n]][n] < best[n]
    BY <2>1, <1>0, <1>3 DEF Forking
  <2> QED
    BY <2>2, <2>3, <1>2
<1> QED
  BY <1>3, <1>4, <1>6

LEMMA QueueFetch ==
  ASSUME IInv, Fetch
  PROVE  InOrder' /\ Ahead'
<1>0. /\ TypeOK /\ InOrder /\ Ahead
      /\ queue \in Seq([n : Nat, f : Pos]) /\ db.headers \in Seq(Pos)
  BY Shapes DEF IInv
<1>1. db' = db /\ best' = best /\ base' = base /\ fetching
  BY DEF Fetch, bitcoin
<1>2. CASE ~(fetchAt <= Len(best))
  <2>1. queue' = queue /\ ~fetching'
    BY <1>2 DEF Fetch
  <2> QED
    BY <1>0, <1>1, <2>1 DEF InOrder, Ahead, Height
<1>3. CASE fetchAt <= Len(best)
  <2> DEFINE e == [n |-> fetchAt, f |-> best[fetchAt]]
  <2> DEFINE l == Len(queue)
  <2>1. queue' = Append(queue, e) /\ fetchAt' = fetchAt + 1
    BY <1>3 DEF Fetch
  <2>2. l \in Nat /\ Height \in Nat /\ fetchAt = Height + l + 1
    BY <1>0, <1>1 DEF InOrder, Height
  <2>3. fetchAt \in 1 .. Len(best)
    BY <2>2, <1>3, Heights DEF IInv
  <2>4. /\ e.n = fetchAt /\ e.f \in 1 .. Len(base) /\ Len(base[e.f]) < fetchAt
        /\ \A m \in 1 .. fetchAt : At(base, e.f, m) = best[m]
    BY <2>3, BestBlock
  <2> HIDE DEF e
  <2>5. /\ Len(queue') = l + 1 /\ queue'[l + 1] = e
        /\ \A i \in 1 .. l : queue'[i] = queue[i]
    BY <1>0, <2>1
  <2> HIDE DEF l
  <2>6. InOrder'
    <3>1. ASSUME NEW i \in 1 .. l + 1
          PROVE  /\ queue'[i].n = Height + i /\ queue'[i].n <= Len(best)
                 /\ queue'[i].f <= Len(base) /\ Len(base[queue'[i].f]) < queue'[i].n
      <4>1. CASE i \in 1 .. l
        BY <4>1, <1>0, <2>5 DEF InOrder, l
      <4>2. CASE i = l + 1
        BY <4>2, <2>2, <2>3, <2>4, <2>5
      <4> QED
        BY <4>1, <4>2, <2>2
    <3>2. fetchAt' = Height + Len(queue') + 1
      BY <2>1, <2>2, <2>5
    <3> QED
      BY <1>1, <2>5, <3>1, <3>2 DEF InOrder, Height
  <2>7. Ahead'
    <3>1. ASSUME NEW i \in 1 .. l + 1, NEW m \in 1 .. Height, db.headers[m] = best[m]
          PROVE  At(base, queue'[i].f, m) = best[m]
      <4>1. CASE i \in 1 .. l
        BY <3>1, <4>1, <1>0, <2>5 DEF Ahead, l
      <4>2. CASE i = l + 1
        <5>1. m \in 1 .. fetchAt
          BY <2>2
        <5> QED
          BY <4>2, <5>1, <2>4, <2>5
      <4> QED
        BY <4>1, <4>2, <2>2
    <3>2. ASSUME NEW i \in 1 .. l + 1, NEW j \in 1 .. l + 1, i < j,
                 queue'[i].f = best[queue'[i].n]
          PROVE  At(base, queue'[j].f, queue'[i].n) = best[queue'[i].n]
      <4>0. i \in 1 .. l
        BY <3>2, <2>2
      <4>1. CASE j \in 1 .. l
        BY <3>2, <4>0, <4>1, <1>0, <2>5 DEF Ahead, l
      <4>2. CASE j = l + 1
        <5>1. queue'[i].n = Height + i
          BY <4>0, <1>0, <2>5 DEF InOrder, l
        <5>2. queue'[i].n \in 1 .. fetchAt
          BY <5>1, <4>0, <2>2
        <5> QED
          BY <4>2, <5>2, <2>4, <2>5
      <4> QED
        BY <4>1, <4>2, <2>2
    <3> QED
      BY <1>1, <2>5, <3>1, <3>2 DEF Ahead, Height
  <2> QED
    BY <2>6, <2>7
<1> QED
  BY <1>2, <1>3

LEMMA QueueIndex ==
  ASSUME IInv, IndexBlock
  PROVE  InOrder' /\ Ahead'
<1>0. /\ TypeOK /\ InOrder /\ Ahead
      /\ queue \in Seq([n : Nat, f : Pos]) /\ db.headers \in Seq(Pos)
  BY Shapes DEF IInv
<1>1. /\ best' = best /\ base' = base /\ fetching' = fetching /\ fetchAt' = fetchAt
      /\ queue # <<>> /\ queue' = Tail(queue)
  BY DEF IndexBlock, bitcoin
<1> DEFINE l == Len(queue)
<1>2. /\ 1 \in 1 .. l /\ Head(queue) = queue[1] /\ Len(queue') = l - 1
      /\ \A i \in 1 .. l - 1 : i + 1 \in 1 .. l /\ queue'[i] = queue[i + 1]
      /\ l \in Nat
  BY <1>0, <1>1, HeadTail
<1>3. /\ Len(db'.headers) = Height + 1
      /\ \A m \in 1 .. Height : db'.headers[m] = db.headers[m]
      /\ db'.headers[Height + 1] = queue[1].f
      /\ queue[1].n = Height + 1
  BY <1>2, BlockEffect
<1>4. Height \in Nat
  BY <1>0 DEF Height
<1> HIDE DEF l
<1>5. InOrder'
  <2>1. ASSUME NEW i \in 1 .. l - 1
        PROVE  /\ queue'[i].n = Height + 1 + i /\ queue'[i].n <= Len(best)
               /\ queue'[i].f <= Len(base) /\ Len(base[queue'[i].f]) < queue'[i].n
    <3>1. i + 1 \in 1 .. l /\ queue'[i] = queue[i + 1]
      BY <1>2
    <3>2. /\ queue[i + 1].n = Height + (i + 1) /\ queue[i + 1].n <= Len(best)
          /\ queue[i + 1].f <= Len(base) /\ Len(base[queue[i + 1].f]) < queue[i + 1].n
      BY <3>1, <1>0 DEF InOrder, l
    <3>3. Height + (i + 1) = Height + 1 + i
      BY <1>2, <1>4
    <3> QED
      BY <3>1, <3>2, <3>3
  <2>2. fetching => fetchAt = (Height + 1) + (l - 1) + 1
    BY <1>0, <1>2, <1>4 DEF InOrder, l
  <2> QED
    BY <1>1, <1>2, <1>3, <2>1, <2>2 DEF InOrder, Height
<1>6. Ahead'
  <2>1. ASSUME NEW i \in 1 .. l - 1, NEW m \in 1 .. Height + 1, db'.headers[m] = best[m]
        PROVE  At(base, queue'[i].f, m) = best[m]
    <3>1. i + 1 \in 1 .. l /\ queue'[i] = queue[i + 1] /\ 1 < i + 1
      BY <1>2
    <3>2. CASE m \in 1 .. Height
      BY <2>1, <3>1, <3>2, <1>0, <1>3 DEF Ahead, l
    <3>3. CASE m = Height + 1
      <4>1. queue[1].f = best[queue[1].n]
        BY <2>1, <3>3, <1>3
      <4>2. At(base, queue[i + 1].f, queue[1].n) = best[queue[1].n]
        BY <3>1, <4>1, <1>0, <1>2 DEF Ahead, l
      <4> QED
        BY <3>1, <3>3, <4>2, <1>3
    <3> QED
      BY <3>2, <3>3, <1>4
  <2>2. ASSUME NEW i \in 1 .. l - 1, NEW j \in 1 .. l - 1, i < j,
               queue'[i].f = best[queue'[i].n]
        PROVE  At(base, queue'[j].f, queue'[i].n) = best[queue'[i].n]
    <3>1. /\ i + 1 \in 1 .. l /\ queue'[i] = queue[i + 1]
          /\ j + 1 \in 1 .. l /\ queue'[j] = queue[j + 1] /\ i + 1 < j + 1
      BY <1>2, <2>2
    <3> QED
      BY <2>2, <3>1, <1>0 DEF Ahead, l
  <2> QED
    BY <1>1, <1>2, <1>3, <2>1, <2>2 DEF Ahead, Height
<1> QED
  BY <1>5, <1>6

(* A reorg of Bitcoin leaves what is fetched as it is: blocks of forks it  *)
(* left are its blocks no more.                                            *)
LEMMA QueueReorg ==
  ASSUME IInv, NEW k \in 0 .. MaxHeight, BitcoinReorg(k)
  PROVE  InOrder' /\ Ahead'
<1>0. /\ TypeOK /\ InOrder /\ Ahead /\ Databases
      /\ base \in Seq(Seq(Pos)) /\ best \in Seq(Pos) /\ db.headers \in Seq(Pos)
      /\ queue \in Seq([n : Nat, f : Pos])
  BY Shapes DEF IInv
<1>1. PICK p \in Seq(Pos) :
           /\ k < Len(best) /\ Len(p) = k /\ \A m \in 1 .. k : p[m] = best[m]
           /\ base' = Append(base, p)
           /\ best' \in Seq(Pos) /\ Len(best') = Len(best) + 1
           /\ \A m \in 1 .. Len(best') : best'[m] = IF m <= k THEN best[m] ELSE Len(base) + 1
  BY <1>0, ReorgEffect, Heights
<1>2. db' = db /\ queue' = queue /\ fetching' = fetching /\ fetchAt' = fetchAt
  BY DEF BitcoinReorg, index, fetcher
<1>3. Height \in Nat /\ Height <= Len(best) /\ Len(best) \in Nat
  BY <1>0, Heights DEF Height
<1>4. ASSUME NEW i \in 1 .. Len(queue)
      PROVE  /\ queue[i].f \in 1 .. Len(base) /\ queue[i].n = Height + i
             /\ queue[i].n \in 1 .. Len(best)
             /\ base'[queue[i].f] = base[queue[i].f]
             /\ Len(base[queue[i].f]) < queue[i].n
             /\ \A m \in Nat : At(base', queue[i].f, m) = At(base, queue[i].f, m)
  <2>1. queue[i] \in [n : Nat, f : Pos]
    BY <1>0, ElementOfSeq
  <2>2. /\ queue[i].n = Height + i /\ queue[i].n <= Len(best)
        /\ queue[i].f <= Len(base) /\ Len(base[queue[i].f]) < queue[i].n
    BY <1>0 DEF InOrder
  <2>3. queue[i].f \in 1 .. Len(base) /\ queue[i].n \in 1 .. Len(best)
    BY <2>1, <2>2, <1>3
  <2>4. \A m \in Nat : At(base', queue[i].f, m) = At(base, queue[i].f, m)
    BY <2>3, <1>0, <1>1, AtKept
  <2>5. base'[queue[i].f] = base[queue[i].f]
    BY <2>3, <1>0, <1>1
  <2> QED
    BY <2>2, <2>3, <2>4, <2>5
<1>5. ASSUME NEW m \in 1 .. Len(best), NEW f \in Nat, f <= Len(base), f = best'[m]
      PROVE  best'[m] = best[m]
  <2>1. m \in 1 .. Len(best') /\ Len(base) \in Nat
    BY <1>0, <1>1, <1>3
  <2> QED
    BY <2>1, <1>1, <1>5
<1>6. InOrder'
  <2>1. ASSUME NEW i \in 1 .. Len(queue)
        PROVE  /\ queue[i].n = Height + i /\ queue[i].n <= Len(best')
               /\ queue[i].f <= Len(base') /\ Len(base'[queue[i].f]) < queue[i].n
    <3>1. Len(base') = Len(base) + 1 /\ Len(base) \in Nat
      BY <1>0, <1>1
    <3>2. queue[i].n <= Len(best')
      BY <1>1, <1>3, <1>4
    <3>3. queue[i].f <= Len(base')
      BY <1>4, <3>1
    <3> QED
      BY <1>4, <3>2, <3>3
  <2> QED
    BY <1>0, <1>2, <2>1 DEF InOrder, Height
<1>7. Ahead'
  <2>1. ASSUME NEW i \in 1 .. Len(queue), NEW m \in 1 .. Height, db.headers[m] = best'[m]
        PROVE  At(base', queue[i].f, m) = best'[m]
    <3>0. m \in 1 .. Len(db.headers)
      BY DEF Height
    <3>1. db.headers[m] \in Nat /\ db.headers[m] <= Len(base) /\ m \in 1 .. Len(best) /\ m \in Nat
      <4>1. db.headers[m] \in Pos
        BY <3>0, <1>0, ElementOfSeq
      <4>2. db.headers[m] <= Len(base)
        BY <3>0, <1>0 DEF Databases, Real
      <4> QED
        BY <4>1, <4>2, <1>3
    <3>2. best'[m] = best[m]
      BY <2>1, <3>1, <1>5
    <3> QED
      BY <2>1, <3>1, <3>2, <1>0, <1>4 DEF Ahead
  <2>2. ASSUME NEW i \in 1 .. Len(queue), NEW j \in 1 .. Len(queue), i < j,
               queue[i].f = best'[queue[i].n]
        PROVE  At(base', queue[j].f, queue[i].n) = best'[queue[i].n]
    <3>1. queue[i].f \in Nat /\ queue[i].f <= Len(base) /\ queue[i].n \in 1 .. Len(best) /\ queue[i].n \in Nat
      BY <1>4
    <3>2. best'[queue[i].n] = best[queue[i].n]
      BY <2>2, <3>1, <1>5
    <3> QED
      BY <2>2, <3>1, <3>2, <1>0, <1>4 DEF Ahead
  <2> QED
    BY <1>2, <2>1, <2>2 DEF Ahead, Height
<1> QED
  BY <1>6, <1>7

LEMMA QueueMine ==
  ASSUME IInv, Mine
  PROVE  InOrder' /\ Ahead'
<1>0. /\ InOrder /\ Ahead /\ best \in Seq(Pos) /\ base \in Seq(Seq(Pos))
      /\ queue \in Seq([n : Nat, f : Pos])
  BY Shapes DEF IInv
<1>1. /\ db' = db /\ queue' = queue /\ fetching' = fetching /\ fetchAt' = fetchAt
      /\ base' = base /\ best' = Append(best, Len(base))
  BY DEF Mine, index, fetcher
<1>2. Len(best') = Len(best) + 1 /\ \A m \in 1 .. Len(best) : best'[m] = best[m]
  BY <1>0, <1>1
<1>3. Height \in Nat /\ Height <= Len(best) /\ Len(best) \in Nat
  BY <1>0, Heights DEF Height
<1>4. \A i \in 1 .. Len(queue) : queue[i].n \in 1 .. Len(best)
  <2>1. \A i \in 1 .. Len(queue) : queue[i].n = Height + i /\ queue[i].n <= Len(best)
    BY <1>0 DEF InOrder
  <2> QED
    BY <2>1, <1>3
<1>5. InOrder'
  <2>1. \A i \in 1 .. Len(queue) : queue[i].n <= Len(best')
    BY <1>2, <1>3, <1>4
  <2> QED
    BY <1>0, <1>1, <2>1 DEF InOrder, Height
<1>6. Ahead'
  <2>1. \A m \in 1 .. Height : best'[m] = best[m]
    BY <1>2, <1>3
  <2>2. \A i \in 1 .. Len(queue) : best'[queue[i].n] = best[queue[i].n]
    BY <1>2, <1>4
  <2>3. \A i \in 1 .. Len(queue), m \in 1 .. Height :
          db.headers[m] = best'[m] => At(base, queue[i].f, m) = best'[m]
    BY <1>0, <2>1 DEF Ahead
  <2>4. \A i, j \in 1 .. Len(queue) :
          i < j /\ queue[i].f = best'[queue[i].n] =>
            At(base, queue[j].f, queue[i].n) = best'[queue[i].n]
    BY <1>0, <2>2 DEF Ahead
  <2> QED
    BY <1>1, <2>3, <2>4 DEF Ahead, Height
<1> QED
  BY <1>5, <1>6

LEMMA QueueStep ==
  ASSUME IInv, [Next]_vars
  PROVE  InOrder' /\ Ahead'
<1>0. InOrder /\ Ahead /\ TypeOK
  BY DEF IInv
<1>1. CASE /\ db'.headers = db.headers
           /\ UNCHANGED <<bitcoin, fetcher>>
  BY <1>0, <1>1 DEF InOrder, Ahead, Height, bitcoin, fetcher
<1>2. CASE /\ queue' = <<>>
           /\ ~fetching' \/ (fetchAt' = Len(db'.headers) + 1 /\ Len(db'.headers) \in Nat)
  BY <1>2 DEF InOrder, Ahead, Height
<1>3. CASE StartUpdate
  <2>1. db' = db /\ Len(db.headers) \in Nat
    BY <1>3, Heights DEF StartUpdate
  <2> QED
    BY <1>2, <1>3, <2>1 DEF StartUpdate, Height
<1>4. CASE Commit \/ Mark
  <2>1. /\ [db EXCEPT !.stored = @ \o cache].headers = db.headers
        /\ [db EXCEPT !.last = Height].headers = db.headers
    BY <1>0 DEF TypeOK, Db
  <2>2. db'.headers = db.headers
    BY <1>4, <2>1 DEF Commit, Mark
  <2>3. UNCHANGED <<bitcoin, fetcher>>
    BY <1>4 DEF Commit, Mark
  <2> QED
    BY <1>1, <2>2, <2>3
<1>5. CASE Restore \/ Crash \/ ReorgDetected \/ ReorgTooDeep \/ FaultInBlock \/ FaultBetweenBlocks \/ ShutDown
  <2>1. queue' = <<>>
    BY <1>5 DEF Restore, Crash, ReorgDetected, ReorgTooDeep, FaultInBlock,
       FaultBetweenBlocks, ShutDown, Leave
  <2>2. ~fetching'
    BY <1>5 DEF Restore, Crash, ReorgDetected, ReorgTooDeep, FaultInBlock,
       FaultBetweenBlocks, ShutDown, Leave
  <2> QED
    BY <1>2, <2>1, <2>2
<1>6. CASE Fetch \/ IndexBlock \/ Mine \/ \E k \in 0 .. MaxHeight : BitcoinReorg(k)
  BY <1>6, QueueFetch, QueueIndex, QueueMine, QueueReorg
<1> QED
  BY <1>1, <1>3, <1>4, <1>5, <1>6 DEF Next, Step, Open, Decide, EndBatch, Purge, Backup, vars

-----------------------------------------------------------------------------
(* The theorems                                                            *)

LEMMA InvInit ==
  ASSUME Init
  PROVE  IInv
<1>1. /\ best = <<>> /\ base = << <<>> >> /\ db = NoDb /\ disk = NoDb
      /\ cache = <<>> /\ uncommitted = 0 /\ backups = <<>>
      /\ queue = <<>> /\ fetchAt = 1 /\ fetching = FALSE
      /\ pc = "closed" /\ crashes = 0 /\ faults = 0
  BY DEF Init
<1>2. <<>> \in Chain /\ << <<>> >> \in Seq(Chain)
  BY EmptySeq DEF Chain
<1>3. NoDb \in Db
  BY <1>2, IndexAssumption DEF NoDb, Db
<1>4. TypeOK
  <2>1. <<>> \in Seq(Db) /\ <<>> \in Seq([n : 1 .. MaxHeight, f : 1 .. Forks])
    BY EmptySeq
  <2>2. Len(cache) = 0 /\ Len(backups) = 0 /\ Len(queue) = 0
    BY <1>1
  <2>3. fetchAt \in 1 .. MaxHeight + 1 /\ crashes \in 0 .. MaxCrashes /\ faults \in 0 .. MaxFaults
    BY <1>1, IndexAssumption
  <2>4. /\ uncommitted = Len(cache) /\ uncommitted <= CommitInterval
        /\ Len(backups) <= MaxSavepoints /\ Len(queue) <= Channel
    BY <1>1, <2>2, IndexAssumption
  <2> QED
    BY <1>1, <1>2, <1>3, <2>1, <2>3, <2>4 DEF TypeOK
<1>5. Limits
  BY <1>1, IndexAssumption DEF Limits
<1>6. Forking(base, best)
  BY <1>1 DEF Forking, Straight
<1>7. Databases
  BY <1>1 DEF Databases, Real, Straight, NoDb
<1>8. InOrder /\ Ahead
  BY <1>1 DEF InOrder, Ahead
<1> QED
  BY <1>4, <1>5, <1>6, <1>7, <1>8 DEF IInv

LEMMA InvStep ==
  ASSUME IInv, [Next]_vars
  PROVE  IInv'
BY TypeStep, LimitsStep, BitcoinStep, DatabasesStep, QueueStep DEF IInv

LEMMA Invariance == Spec => []IInv
BY InvInit, InvStep, PTL DEF Spec

(* Databases, savepoints and the channel keep their shape, whatever is     *)
(* indexed, reorganised, restored or killed.                               *)
THEOREM TypeCorrect == Spec => []TypeOK
<1>1. IInv => TypeOK
  BY DEF IInv
<1> QED
  BY <1>1, Invariance, PTL

(* Readers of the flushed database and every savepoint always hold a chain *)
(* of blocks, although detect_reorg compares only the block it is about to *)
(* index and blocks are fetched ahead.                                     *)
THEOREM ServedChain == Spec => []ServedIsAChain
<1>1. ASSUME NEW s, Real(base, best, s), Len(s) \in Nat
      PROVE  IsChain(s)
  <2> SUFFICES ASSUME NEW n \in 2 .. Len(s)
               PROVE  s[n - 1] = Parent(n, s[n])
    BY DEF IsChain
  <2>1. n \in 1 .. Len(s) /\ n - 1 \in 1 .. n
    BY <1>1
  <2>2. s[n - 1] = At(base, s[n], n - 1)
    BY <1>1, <2>1 DEF Real, Straight
  <2> QED
    BY <2>2 DEF At, Parent
<1>2. IInv => ServedIsAChain
  <2> SUFFICES ASSUME IInv PROVE ServedIsAChain
    OBVIOUS
  <2>1. /\ Len(disk.headers) \in Nat
        /\ \A k \in 1 .. Len(backups) : Len(backups[k].headers) \in Nat
    BY Shapes DEF IInv
  <2>2. DOMAIN backups = 1 .. Len(backups)
    BY DEF IInv, TypeOK
  <2> QED
    BY <1>1, <2>1, <2>2 DEF IInv, Databases, ServedIsAChain
<1> QED
  BY <1>2, Invariance, PTL

-----------------------------------------------------------------------------
(* Whole batches                                                           *)

(* A chain that Bitcoin left never becomes its chain again.                *)
LEMMA OffBestKept ==
  ASSUME IInv, [Next]_vars, NEW s \in Seq(Pos), Real(base, best, s), ~OnBest(s)
  PROVE  \E m \in 1 .. Len(s) : s[m] # best'[m]
<1>0. /\ TypeOK /\ best \in Seq(Pos) /\ base \in Seq(Seq(Pos))
  BY Shapes DEF IInv
<1>1. PICK m \in 1 .. Len(s) : s[m] # best[m]
  BY DEF OnBest
<1>2. m \in 1 .. Len(best) /\ s[m] \in Pos /\ s[m] <= Len(base)
  <2>1. s[m] \in Pos /\ Len(s) \in Nat
    BY ElementOfSeq
  <2>2. Len(s) <= Len(best) /\ s[m] <= Len(base)
    BY DEF Real
  <2> QED
    BY <1>0, <2>1, <2>2
<1>3. best'[m] = best[m] \/ best'[m] = Len(base) + 1
  <2>1. CASE best' = best
    BY <2>1
  <2>2. CASE Mine
    BY <1>0, <1>2, <2>2 DEF Mine
  <2>3. CASE \E k \in 0 .. MaxHeight : BitcoinReorg(k)
    <3>1. PICK k \in 0 .. MaxHeight : BitcoinReorg(k)
      BY <2>3
    <3>2. /\ Len(best') = Len(best) + 1
          /\ \A i \in 1 .. Len(best') : best'[i] = IF i <= k THEN best[i] ELSE Len(base) + 1
      BY <1>0, <3>1, ReorgEffect, Heights
    <3>3. m \in 1 .. Len(best')
      BY <1>0, <1>2, <3>2
    <3> QED
      BY <3>2, <3>3
  <2> QED
    BY <2>1, <2>2, <2>3 DEF Next, Step, Open, StartUpdate, Fetch, IndexBlock, ReorgDetected,
       ReorgTooDeep, Decide, EndBatch, Commit, Purge, Backup, Mark, Restore, FaultInBlock,
       FaultBetweenBlocks, Crash, ShutDown, Leave, bitcoin, vars
<1>4. s[m] # best'[m]
  BY <1>0, <1>1, <1>2, <1>3
<1> QED
  BY <1>4

(* What follows a block that Bitcoin has follows it on its chain: a block  *)
(* that does not link is of another chain than what is indexed.            *)
LEMMA NoLink ==
  ASSUME IInv, queue # <<>>, ~Links(Head(queue))
  PROVE  ~OnBest(db.headers)
<1>0. InOrder /\ Ahead /\ queue \in Seq([n : Nat, f : Pos]) /\ Height \in Nat
  BY Shapes, Heights DEF IInv, Height
<1>1. 1 \in 1 .. Len(queue) /\ Head(queue) = queue[1]
  BY <1>0, HeadTail
<1>2. queue[1].n = Height + 1
  BY <1>0, <1>1 DEF InOrder
<1>3. Height > 0 /\ db.headers[Height] # Parent(queue[1].n, queue[1].f)
  BY <1>1, <1>2 DEF Links
<1>4. Parent(queue[1].n, queue[1].f) = At(base, queue[1].f, Height)
  <2>1. queue[1].n - 1 = Height
    BY <1>0, <1>2
  <2> QED
    BY <2>1 DEF Parent, At
<1>5. Height \in 1 .. Height
  BY <1>0, <1>3
<1>6. db.headers[Height] # best[Height]
  BY <1>0, <1>1, <1>3, <1>4, <1>5 DEF Ahead
<1> QED
  BY <1>5, <1>6 DEF OnBest, Height

(* Conversely, once Bitcoin has left what is indexed, the next block of    *)
(* its chain does not link.                                                *)
LEMMA NextOffBest ==
  ASSUME IInv, ~OnBest(db.headers), Height + 1 \in 1 .. Len(best), NEW b,
         b.n = Height + 1, b.f = best[Height + 1]
  PROVE  ~Links(b)
<1>0. /\ base \in Seq(Seq(Pos)) /\ best \in Seq(Pos) /\ Len(base) > 0
      /\ Forking(base, best) /\ Real(base, best, db.headers) /\ Height \in Nat
  BY Shapes, Heights DEF IInv, Databases, Height
<1>1. Straight(base, best) /\ Straight(base, db.headers)
  BY <1>0, BestIsReal DEF Real
<1> SUFFICES ASSUME Links(b) PROVE FALSE
  OBVIOUS
<1>2. Height > 0
  BY <1>0 DEF OnBest, Height
<1>3. db.headers[Height] = Parent(Height + 1, best[Height + 1])
  BY <1>2 DEF Links
<1>4. Parent(Height + 1, best[Height + 1]) = At(base, best[Height + 1], Height)
  <2> DEFINE n == Height + 1
  <2>1. n - 1 = Height
    BY <1>0
  <2> HIDE DEF n
  <2>2. Parent(n, best[n]) = At(base, best[n], Height)
    BY <2>1 DEF Parent, At
  <2> QED
    BY <2>2 DEF n
<1>5. Height \in 1 .. Height + 1 /\ Height \in 1 .. Len(db.headers) /\ Height \in 1 .. Len(best)
  BY <1>0, <1>2 DEF Height
<1>6. db.headers[Height] = best[Height]
  BY <1>3, <1>4, <1>5, BestBlock
<1>7. \A m \in 1 .. Height : db.headers[m] = best[m]
  BY <1>1, <1>5, <1>6, CommonBelow
<1> QED
  BY <1>7 DEF OnBest, Height

(* The parent of a fetched block stays.                                    *)
LEMMA LinksKept ==
  ASSUME IInv, [Next]_vars, queue # <<>>, db' = db, queue' = queue, ~Links(Head(queue))
  PROVE  ~Links(Head(queue))'
<1>0. /\ base \in Seq(Seq(Pos)) /\ InOrder /\ queue \in Seq([n : Nat, f : Pos]) /\ Height \in Nat
  BY Shapes, Heights DEF IInv, Height
<1>1. 1 \in 1 .. Len(queue) /\ Head(queue) = queue[1] /\ queue[1] \in [n : Nat, f : Pos]
  <2> DEFINE T == [n : Nat, f : Pos]
  <2>1. queue \in Seq(T)
    BY <1>0
  <2> HIDE DEF T
  <2>2. 1 \in 1 .. Len(queue) /\ Head(queue) = queue[1] /\ Head(queue) \in T
    BY <2>1, HeadTail
  <2> QED
    BY <2>2 DEF T
<1> DEFINE b == queue[1]
<1>2. b.n = Height + 1 /\ b.f <= Len(base)
  BY <1>0, <1>1 DEF InOrder
<1>3. b.f \in 1 .. Len(base) /\ b.n - 1 = Height
  BY <1>0, <1>1, <1>2
<1>4. At(base', b.f, Height) = At(base, b.f, Height)
  BY <1>0, <1>3, AtKept, BitcoinStep
<1>5. Parent(b.n, b.f) = At(base, b.f, Height) /\ Parent(b.n, b.f)' = At(base', b.f, Height)
  BY <1>3 DEF Parent, At
<1>6. Height > 0 /\ (b.n = Height + 1 => db.headers[Height] # Parent(b.n, b.f))
  BY <1>1 DEF Links
<1>7. Height' = Height /\ b' = b
  BY DEF Height
<1>8. Head(queue)' = b
  BY <1>1
<1>9. Links(b)' => Height > 0 /\ db.headers[Height] = Parent(b.n, b.f)'
  BY <1>6, <1>7 DEF Links
<1> QED
  BY <1>2, <1>4, <1>5, <1>6, <1>8, <1>9

(* Savepoints stay whole.                                                  *)
LEMMA BackupsStep ==
  ASSUME IInv, [Next]_vars, Sound \/ Stranded,
         \A k \in 1 .. Len(backups) : Whole(backups[k])
  PROVE  \A k \in 1 .. Len(backups') : Whole(backups'[k])
<1>1. backups \in Seq(Db) /\ db \in Db
  BY DEF IInv, TypeOK
<1>2. CASE UNCHANGED backups
  BY <1>2
<1>3. CASE Purge
  <2>1. MaxSavepoints - 1 \in Nat
    BY IndexAssumption
  <2>2. backups' = backups \/ backups' = Newest(backups, MaxSavepoints - 1)
    BY <1>3 DEF Purge
  <2>3. \A k \in 1 .. Len(backups') : \E j \in 1 .. Len(backups) : backups'[k] = backups[j]
    BY <1>1, <2>1, <2>2, NewestLength
  <2> QED
    BY <2>3
<1>4. CASE Backup
  <2>1. pc = "backup" /\ backups' = Append(backups, db)
    BY <1>4 DEF Backup
  <2>2. db.rows = db.headers /\ Joined(db.headers, db.stored, cache) /\ cache = <<>>
    BY <2>1 DEF Sound, Stranded
  <2>3. db.stored \in Chain
    BY <1>1 DEF Db
  <2>4. Whole(db)
    BY <2>2, <2>3, JoinedEmpty DEF Whole
  <2>5. /\ Len(backups') = Len(backups) + 1 /\ backups'[Len(backups) + 1] = db
        /\ \A k \in 1 .. Len(backups) : backups'[k] = backups[k]
    BY <1>1, <2>1
  <2> QED
    BY <2>4, <2>5
<1> QED
  BY <1>2, <1>3, <1>4 DEF Next, Step, Open, StartUpdate, Fetch, IndexBlock, ReorgDetected,
     ReorgTooDeep, Decide, EndBatch, Commit, Mark, Restore, FaultInBlock,
     FaultBetweenBlocks, Crash, ShutDown, Mine, BitcoinReorg, index, vars

(* A database on disk that is whole is a sound start.                      *)
LEMMA SoundStart ==
  ASSUME NEW d \in Db, Whole(d), Leave(d), pc' \in {"closed", "idle", "restore"}
  PROVE  Sound'
<1>1. disk' = d /\ db' = d /\ cache' = <<>>
  BY DEF Leave
<1>2. d.rows = d.headers /\ Joined(d.headers, d.stored, <<>>)
  <2>1. d.stored \in Chain
    BY DEF Db
  <2> QED
    BY <2>1, JoinedEmpty DEF Whole
<1> QED
  BY <1>1, <1>2 DEF Sound, Whole

LEMMA RestoreStep ==
  ASSUME IInv, Restore, Sound \/ Stranded,
         \A k \in 1 .. Len(backups) : Whole(backups[k])
  PROVE  Sound' \/ Stranded'
<1>0. disk \in Db /\ backups \in Seq(Db)
  BY DEF IInv, TypeOK
<1>1. pc' = "closed"
  BY DEF Restore, Goto
<1>2. CASE backups = <<>>
  <2>1. Leave(disk)
    BY <1>2 DEF Restore
  <2>2. CASE Sound
    BY <1>0, <1>1, <2>1, <2>2, SoundStart DEF Sound
  <2>3. CASE Stranded
    BY <1>1, <2>1, <2>3 DEF Stranded, Leave, OnBest, bitcoin
  <2> QED
    BY <2>2, <2>3
<1>3. CASE backups # <<>>
  <2>1. 1 \in 1 .. Len(backups) /\ Head(backups) = backups[1] /\ Head(backups) \in Db
    BY <1>0, <1>3, HeadTail
  <2>2. Leave(Head(backups)) /\ Whole(Head(backups))
    BY <1>3, <2>1 DEF Restore
  <2> QED
    BY <1>1, <2>1, <2>2, SoundStart
<1> QED
  BY <1>2, <1>3

(* From a sound database: a reorg is found only where Bitcoin left what is *)
(* indexed, so closing the open batch leaves the database stranded.        *)
LEMMA SoundStep ==
  ASSUME IInv, Next, faults' = faults, Sound,
         \A k \in 1 .. Len(backups) : Whole(backups[k])
  PROVE  Sound' \/ Stranded'
<1> USE DEF Goto
<1>0. /\ TypeOK /\ db \in Db /\ disk \in Db /\ cache \in Chain
      /\ db.rows = db.headers /\ Joined(db.headers, db.stored, cache)
      /\ db.headers \in Chain /\ db.stored \in Chain
      /\ Whole(disk)
      /\ pc \notin {"index", "decide", "commit"} => cache = <<>>
  BY DEF IInv, TypeOK, Sound, Db
<1>1. CASE /\ UNCHANGED <<db, disk, cache>>
           /\ pc' \in {"index", "decide", "commit"} \/ cache = <<>>
  BY <1>0, <1>1 DEF Sound, Whole
<1>2. CASE Open \/ StartUpdate \/ Fetch \/ Decide \/ Purge \/ Backup \/ ShutDown
  BY <1>0, <1>1, <1>2 DEF Open, StartUpdate, Fetch, Decide, Purge, Backup, ShutDown
<1>3. CASE EndBatch
  <2>1. uncommitted = Len(cache)
    BY <1>0 DEF TypeOK
  <2>2. uncommitted > 0 \/ cache = <<>>
    BY <1>0, <2>1, EmptySeq DEF Chain
  <2> QED
    BY <1>1, <1>3, <2>2 DEF EndBatch
<1>4. CASE Mine \/ \E k \in 0 .. MaxHeight : BitcoinReorg(k)
  BY <1>0, <1>4 DEF Mine, BitcoinReorg, index, Sound, Whole
<1>5. CASE IndexBlock
  <2>1. PICK f \in 1 .. Forks : f = Head(queue).f
    <3>1. Head(queue).f \in 1 .. Len(base)
      BY <1>5, BlockEffect
    <3>2. Len(base) \in 1 .. Forks
      BY Heights
    <3> QED
      BY <3>1, <3>2, IndexAssumption
  <2>2. /\ db' = [db EXCEPT !.rows = Append(@, f), !.headers = Append(@, f)]
        /\ cache' = Append(cache, f) /\ disk' = disk /\ pc' = "decide"
    BY <1>5, <2>1 DEF IndexBlock
  <2>3. /\ db'.rows = Append(db.rows, f) /\ db'.headers = Append(db.headers, f)
        /\ db'.stored = db.stored
    BY <1>0, <2>2 DEF Db
  <2>4. Joined(Append(db.headers, f), db.stored, Append(cache, f))
    BY <1>0, JoinedAppend DEF Chain
  <2> QED
    BY <1>0, <2>2, <2>3, <2>4 DEF Sound, Whole
<1>6. CASE ReorgDetected \/ ReorgTooDeep
  <2>1. ~OnBest(db.headers)
    BY <1>6, NoLink DEF ReorgDetected, ReorgTooDeep
  <2>2. Leave(db) /\ pc' \in {"restore", "closed"}
    BY <1>6 DEF ReorgDetected, ReorgTooDeep
  <2> QED
    BY <2>1, <2>2 DEF Leave, Stranded, OnBest, bitcoin
<1>7. CASE Commit
  <2>1. db' = [db EXCEPT !.stored = @ \o cache] /\ disk' = db' /\ cache' = <<>>
    BY <1>7 DEF Commit
  <2>2. db'.rows = db.rows /\ db'.headers = db.headers /\ db'.stored = db.headers
    BY <1>0, <2>1 DEF Db, Joined
  <2>3. Joined(db.headers, db.headers, <<>>)
    BY <1>0, JoinedEmpty
  <2> QED
    BY <1>0, <2>1, <2>2, <2>3 DEF Sound, Whole
<1>8. CASE Mark
  <2>1. pc = "mark" /\ db' = [db EXCEPT !.last = Height] /\ disk' = db' /\ cache' = cache
    BY <1>8 DEF Mark
  <2>2. db'.rows = db.rows /\ db'.headers = db.headers /\ db'.stored = db.stored
    BY <1>0, <2>1 DEF Db
  <2>3. cache = <<>> /\ db.stored = db.headers
    BY <1>0, <2>1, JoinedEmpty
  <2> QED
    BY <1>0, <2>1, <2>2, <2>3 DEF Sound, Whole
<1>9. CASE Restore
  BY <1>9, RestoreStep
<1>10. CASE Crash
  <2>1. Leave(disk) /\ pc' = "closed"
    BY <1>10 DEF Crash
  <2> QED
    BY <1>0, <2>1, SoundStart
<1>11. CASE FaultInBlock \/ FaultBetweenBlocks
  <2>1. faults' = faults + 1 /\ faults \in Nat
    BY <1>0, <1>11, IndexAssumption DEF TypeOK, FaultInBlock, FaultBetweenBlocks
  <2> QED
    BY <2>1
<1> QED
  BY <1>2, <1>3, <1>4, <1>5, <1>6, <1>7, <1>8, <1>9, <1>10, <1>11 DEF Next, Step

(* From a stranded database nothing is indexed: it stays as it is until a  *)
(* savepoint is restored.                                                  *)
LEMMA StrandedStays ==
  ASSUME IInv, Next, Stranded
  PROVE  Restore \/ (Stranded' /\ disk' = disk /\ backups' = backups)
<1> USE DEF Goto
<1>0. /\ TypeOK /\ InOrder /\ disk = db /\ cache = <<>>
      /\ pc \in {"closed", "idle", "index", "restore"}
      /\ ~OnBest(db.headers)
      /\ queue # <<>> => ~Links(Head(queue))
      /\ db.headers \in Seq(Pos) /\ Real(base, best, db.headers)
      /\ queue \in Seq([n : Nat, f : Pos])
  BY Shapes DEF IInv, Stranded, Databases
<1>1. [Next]_vars /\ \E m \in 1 .. Len(db.headers) : db.headers[m] # best'[m]
  BY <1>0, OffBestKept
<1>2. ASSUME db' = db, disk' = disk, cache' = cache,
             pc' \in {"closed", "idle", "index", "restore"},
             queue' = <<>> \/ (queue # <<>> /\ queue' = queue)
      PROVE  Stranded' /\ disk' = disk
  <2>1. ~OnBest(db.headers)'
    BY <1>1, <1>2 DEF OnBest
  <2>2. queue' # <<>> => ~Links(Head(queue))'
    BY <1>0, <1>1, <1>2, LinksKept
  <2> QED
    BY <1>0, <1>2, <2>1, <2>2 DEF Stranded
<1>3. CASE Open \/ StartUpdate \/ ShutDown
  BY <1>0, <1>2, <1>3 DEF Open, StartUpdate, ShutDown, fetcher, counts
<1>4. CASE EndBatch
  <2>1. ~(uncommitted > 0)
    BY <1>0 DEF TypeOK
  <2> QED
    BY <1>0, <1>2, <1>4, <2>1 DEF EndBatch, fetcher, counts
<1>5. CASE Mine \/ \E k \in 0 .. MaxHeight : BitcoinReorg(k)
  <2>1. /\ db' = db /\ disk' = disk /\ cache' = cache /\ pc' = pc /\ queue' = queue
        /\ backups' = backups
    BY <1>5 DEF Mine, BitcoinReorg, index, fetcher
  <2> QED
    BY <1>0, <1>2, <2>1
<1>6. CASE Fetch
  <2>1. /\ db' = db /\ disk' = disk /\ cache' = cache /\ pc' = pc /\ base' = base /\ best' = best
        /\ backups' = backups
    BY <1>6 DEF Fetch, bitcoin
  <2>2. CASE ~(fetchAt <= Len(best))
    BY <1>0, <1>2, <1>6, <2>1, <2>2 DEF Fetch
  <2>3. CASE fetchAt <= Len(best)
    <3> DEFINE e == [n |-> fetchAt, f |-> best[fetchAt]]
    <3>1. queue' = Append(queue, e) /\ fetching
      BY <1>6, <2>3 DEF Fetch
    <3>2. ~Links(Head(queue'))
      <4>1. CASE queue = <<>>
        <5>1. fetchAt = Height + 1
          BY <1>0, <3>1, <4>1, Heights DEF InOrder, Height
        <5>2. Height + 1 \in 1 .. Len(best)
          BY <2>3, <5>1, Heights DEF Height
        <5>3. e.n = Height + 1 /\ e.f = best[Height + 1]
          BY <5>1
        <5> HIDE DEF e
        <5>4. ~Links(e)
          BY <1>0, <5>2, <5>3, NextOffBest
        <5>5. Head(queue') = e
          BY <3>1, <4>1
        <5> QED
          BY <5>4, <5>5
      <4>2. CASE queue # <<>>
        <5> HIDE DEF e
        <5>1. Head(queue') = Head(queue)
          BY <1>0, <3>1, <4>2
        <5> QED
          BY <1>0, <4>2, <5>1
      <4> QED
        BY <4>1, <4>2
    <3>3. ~Links(Head(queue))'
      <4>1. Height' = Height
        BY <2>1 DEF Height
      <4> QED
        BY <2>1, <3>2, <4>1 DEF Links, Parent
    <3>4. ~OnBest(db.headers)'
      BY <1>1, <2>1 DEF OnBest
    <3> QED
      BY <1>0, <2>1, <3>3, <3>4 DEF Stranded
  <2> QED
    BY <2>2, <2>3
<1>7. CASE ReorgDetected \/ ReorgTooDeep \/ Crash \/ FaultBetweenBlocks
  <2>1. Leave(db) /\ pc' \in {"restore", "closed"} /\ backups' = backups
    BY <1>0, <1>7 DEF ReorgDetected, ReorgTooDeep, Crash, FaultBetweenBlocks
  <2> QED
    BY <1>0, <1>2, <2>1 DEF Leave
<1>8. CASE IndexBlock \/ Decide \/ Commit \/ Purge \/ Backup \/ Mark \/ FaultInBlock
  BY <1>0, <1>8 DEF IndexBlock, Decide, Commit, Purge, Backup, Mark, FaultInBlock
<1> QED
  BY <1>3, <1>4, <1>5, <1>6, <1>7, <1>8 DEF Next, Step

LEMMA StrandedStep ==
  ASSUME IInv, Next, Stranded,
         \A k \in 1 .. Len(backups) : Whole(backups[k])
  PROVE  Sound' \/ Stranded'
BY StrandedStays, RestoreStep

LEMMA WholeStep ==
  ASSUME IInv, Unbroken, [Next]_vars
  PROVE  Unbroken'
<1>1. CASE UNCHANGED vars
  BY <1>1 DEF vars, bitcoin, fetcher, counts, Unbroken, Sound, Stranded, Whole, OnBest,
     Links, Parent, Height
<1>2. CASE Next
  <2> SUFFICES ASSUME faults' = 0
               PROVE  /\ \A k \in 1 .. Len(backups') : Whole(backups'[k])
                      /\ Sound' \/ Stranded'
    BY DEF Unbroken, Whole
  <2>1. faults' = faults \/ faults' = faults + 1
    BY <1>2 DEF Next, Step, Open, StartUpdate, Fetch, IndexBlock, ReorgDetected,
       ReorgTooDeep, Decide, EndBatch, Commit, Purge, Backup, Mark, Restore, FaultInBlock,
       FaultBetweenBlocks, Crash, ShutDown, Mine, BitcoinReorg, index, counts
  <2>2. faults \in Nat
    BY IndexAssumption DEF IInv, TypeOK
  <2>3. faults' = faults /\ faults = 0
    BY <2>1, <2>2
  <2> QED
    BY <1>2, <2>3, BackupsStep, SoundStep, StrandedStep DEF Unbroken
<1> QED
  BY <1>1, <1>2

LEMMA PrefixOnBest ==
  ASSUME NEW s \in Seq(Pos), best \in Seq(Pos), IsPrefix(s, best)
  PROVE  OnBest(s)
<1>1. Len(s) <= Len(best) /\ SubSeq(s, 1, Len(s)) = SubSeq(best, 1, Len(s))
  BY DEF IsPrefix
<1>2. SubSeq(s, 1, Len(s)) = s
  OBVIOUS
<1>3. ASSUME NEW m \in 1 .. Len(s) PROVE SubSeq(best, 1, Len(s))[m] = best[m]
  BY <1>1
<1> QED
  BY <1>1, <1>2, <1>3 DEF OnBest

(* Unless an error ends the process, savepoints are of whole blocks, and   *)
(* so is what readers are served, but for what is of a fork Bitcoin left:  *)
(* kills at any step and reorgs that close an open batch leave no tables   *)
(* that run ahead of the outputs.                                          *)
THEOREM WholeBatches == Spec => []OnlyWholeBatches
<1>1. Init => Unbroken
  <2> SUFFICES ASSUME Init PROVE Unbroken
    OBVIOUS
  <2>1. backups = <<>> /\ db = NoDb /\ disk = NoDb /\ cache = <<>> /\ pc = "closed"
    BY DEF Init
  <2>2. Len(backups) = 0 /\ Joined(<<>>, <<>>, cache)
    BY <2>1 DEF Joined
  <2> QED
    BY <2>1, <2>2 DEF Unbroken, Sound, Whole, NoDb
<1>2. IInv /\ Unbroken => OnlyWholeBatches
  <2> SUFFICES ASSUME IInv, Unbroken, faults = 0
               PROVE  AllWhole
    BY DEF OnlyWholeBatches
  <2>1. DOMAIN backups = 1 .. Len(backups)
    BY DEF IInv, TypeOK
  <2>2. ASSUME Stranded, IsPrefix(disk.headers, best) PROVE FALSE
    <3>1. disk.headers \in Seq(Pos) /\ best \in Seq(Pos) /\ ~OnBest(disk.headers)
      BY <2>2, Shapes DEF IInv, Stranded
    <3> QED
      BY <2>2, <3>1, PrefixOnBest
  <2> QED
    BY <2>1, <2>2 DEF Unbroken, AllWhole, Sound
<1> QED
  BY <1>1, <1>2, WholeStep, Invariance, PTL DEF Spec

-----------------------------------------------------------------------------
(* Readers see no other fork at once                                       *)

Agree(s, t) == \A m \in 1 .. Len(s) : m <= Len(t) => s[m] = t[m]

(* What is indexed, t, and what is fetched ahead, q, are the blocks of     *)
(* chain s, as far as it goes.                                             *)
Follows(s, t, q) ==
  /\ Agree(s, t)
  /\ \A i \in 1 .. Len(q) : q[i].n <= Len(s) => q[i].f = s[q[i].n]

(* Memory extends the disk, and the savepoints Bitcoin still has are of    *)
(* the chain that is indexed.                                              *)
Steady ==
  /\ Len(disk.headers) <= Len(db.headers) /\ Agree(disk.headers, db.headers)
  /\ \A k \in 1 .. Len(backups) : OnBest(backups[k].headers) => Follows(backups[k].headers, db.headers, queue)

(* The oldest savepoint is of a fork that Bitcoin left: it is restored     *)
(* again and again.                                                        *)
Stuck == Stranded /\ backups # <<>> /\ disk = Head(backups)

LEMMA AgreePrefix ==
  ASSUME NEW s \in Seq(Pos), NEW t \in Seq(Pos), Agree(s, t), Len(s) <= Len(t)
  PROVE  IsPrefix(s, t)
<1>1. SubSeq(s, 1, Len(s)) = SubSeq(t, 1, Len(s))
  <2>1. Len(s) \in Nat /\ Len(t) \in Nat
    OBVIOUS
  <2>2. \A i \in 1 .. Len(s) : s[i] \in Pos /\ t[i] \in Pos /\ s[i] = t[i]
    BY ElementOfSeq DEF Agree
  <2> QED
    BY <2>1, <2>2
<1> QED
  BY <1>1 DEF IsPrefix

LEMMA AgreeEither ==
  ASSUME NEW s \in Seq(Pos), NEW t \in Seq(Pos), Agree(s, t)
  PROVE  IsPrefix(s, t) \/ IsPrefix(t, s)
<1>1. Agree(t, s)
  BY DEF Agree
<1> QED
  BY <1>1, AgreePrefix

(* A chain of Bitcoin and its part on disk.                                *)
LEMMA AgreeCut ==
  ASSUME NEW s, NEW t \in Seq(Pos), NEW u \in Seq(Pos),
         Agree(s, t), Agree(u, t), Len(u) <= Len(t)
  PROVE  Agree(s, u)
<1> SUFFICES ASSUME NEW m \in 1 .. Len(s), m <= Len(u) PROVE s[m] = u[m]
  BY DEF Agree
<1>1. m \in 1 .. Len(u) /\ m <= Len(t)
  OBVIOUS
<1> QED
  BY <1>1 DEF Agree

(* A savepoint that Bitcoin has now it had before the step.                *)
LEMMA OnBestBefore ==
  ASSUME IInv, [Next]_vars, NEW k \in 1 .. Len(backups),
         NEW s, s = backups[k].headers, OnBest(s)'
  PROVE  OnBest(s)
<1>1. s \in Seq(Pos) /\ Real(base, best, s)
  BY Shapes DEF IInv, Databases
<1> QED
  BY <1>1, OffBestKept DEF OnBest

(* A block is indexed after, or fetched behind, blocks of the chain.       *)
LEMMA FollowsGrow ==
  ASSUME IInv, IndexBlock \/ Fetch, NEW s \in Seq(Pos), Follows(s, db.headers, queue), OnBest(s)
  PROVE  Follows(s, db'.headers, queue')
<1>0. /\ TypeOK /\ InOrder /\ Height \in Nat /\ db.headers \in Seq(Pos)
      /\ queue \in Seq([n : Nat, f : Pos])
  BY Shapes, Heights DEF IInv, Height
<1>1. CASE IndexBlock
  <2>1. /\ 1 \in 1 .. Len(queue) /\ Head(queue) = queue[1] /\ queue' = Tail(queue)
        /\ Len(queue') = Len(queue) - 1
        /\ \A i \in 1 .. Len(queue) - 1 : i + 1 \in 1 .. Len(queue) /\ queue'[i] = queue[i + 1]
    BY <1>0, <1>1, HeadTail DEF IndexBlock
  <2>2. /\ Len(db'.headers) = Height + 1 /\ db'.headers[Height + 1] = queue[1].f
        /\ \A m \in 1 .. Height : db'.headers[m] = db.headers[m]
        /\ queue[1].n = Height + 1
    BY <1>1, <2>1, BlockEffect
  <2>3. ASSUME NEW m \in 1 .. Len(s), m <= Height + 1 PROVE s[m] = db'.headers[m]
    <3>1. CASE m \in 1 .. Height
      BY <2>2, <3>1 DEF Follows, Agree, Height
    <3>2. CASE m = Height + 1
      BY <2>1, <2>2, <3>2 DEF Follows
    <3> QED
      BY <1>0, <2>3, <3>1, <3>2
  <2> QED
    BY <2>1, <2>2, <2>3 DEF Follows, Agree
<1>2. CASE Fetch
  <2>1. db' = db
    BY <1>2 DEF Fetch
  <2>2. CASE ~(fetchAt <= Len(best))
    BY <1>2, <2>1, <2>2 DEF Fetch, Follows, Agree
  <2>3. CASE fetchAt <= Len(best)
    <3> DEFINE e == [n |-> fetchAt, f |-> best[fetchAt]]
    <3>1. queue' = Append(queue, e) /\ e.n = fetchAt /\ e.f = best[fetchAt] /\ fetchAt \in Nat \ {0}
      BY <1>0, <1>2, <2>3, IndexAssumption DEF Fetch, TypeOK
    <3>2. Len(s) \in Nat /\ (fetchAt <= Len(s) => s[fetchAt] = best[fetchAt])
      BY <3>1 DEF OnBest
    <3> HIDE DEF e
    <3>3. /\ Len(queue') = Len(queue) + 1 /\ queue'[Len(queue) + 1] = e
          /\ \A i \in 1 .. Len(queue) : queue'[i] = queue[i]
      BY <1>0, <3>1
    <3>4. ASSUME NEW i \in 1 .. Len(queue'), queue'[i].n <= Len(s)
          PROVE  queue'[i].f = s[queue'[i].n]
      <4>1. CASE i \in 1 .. Len(queue)
        BY <3>3, <3>4, <4>1 DEF Follows
      <4>2. CASE i = Len(queue) + 1
        BY <3>1, <3>2, <3>3, <3>4, <4>2
      <4> QED
        BY <1>0, <3>3, <4>1, <4>2
    <3> QED
      BY <2>1, <3>4 DEF Follows, Agree
  <2> QED
    BY <2>2, <2>3
<1> QED
  BY <1>1, <1>2

(* The other steps drop what is fetched or leave it, and the headers are   *)
(* those of the database or of its disk.                                   *)
LEMMA FollowsRest ==
  ASSUME IInv, Steady, NEW s \in Seq(Pos), Follows(s, db.headers, queue),
         \/ db'.headers = db.headers /\ queue' = queue
         \/ db'.headers \in {db.headers, disk.headers} /\ queue' = <<>>
  PROVE  Follows(s, db'.headers, queue')
<1>1. db.headers \in Seq(Pos) /\ disk.headers \in Seq(Pos)
  BY Shapes DEF IInv
<1>2. Agree(s, disk.headers)
  BY <1>1, AgreeCut DEF Steady, Follows
<1> QED
  BY <1>2 DEF Follows, Agree

(* From a steady database: a restored savepoint that Bitcoin has is of the *)
(* chain of all others that it has, and one that it has left stays.        *)
LEMMA SteadyRestore ==
  ASSUME IInv, Steady, Restore
  PROVE  Steady' \/ Stuck'
<1>0. /\ backups \in Seq(Db) /\ Databases /\ disk.headers \in Seq(Pos)
      /\ \A k \in 1 .. Len(backups) : backups[k].headers \in Seq(Pos)
  BY Shapes DEF IInv, TypeOK
<1>1. /\ backups' = backups /\ pc' = "closed" /\ best' = best
      /\ disk' = db' /\ cache' = <<>> /\ queue' = <<>>
      /\ db' = IF backups = <<>> THEN disk ELSE Head(backups)
  BY DEF Restore, Leave, Goto, bitcoin
<1>2. db'.headers \in Seq(Pos)
  BY <1>0, <1>1, HeadTail
<1>3. Len(disk'.headers) <= Len(db'.headers) /\ Agree(disk'.headers, db'.headers)
  BY <1>1, <1>2 DEF Agree
<1>4. CASE backups = <<>>
  BY <1>1, <1>3, <1>4 DEF Steady
<1>5. CASE backups # <<>> /\ ~OnBest(Head(backups).headers)
  BY <1>1, <1>5 DEF Stuck, Stranded, OnBest
<1>6. CASE backups # <<>> /\ OnBest(Head(backups).headers)
  <2>1. ASSUME NEW k \in 1 .. Len(backups), OnBest(backups[k].headers)
        PROVE  Agree(backups[k].headers, db'.headers)
    <3> DEFINE s == backups[k].headers
    <3> DEFINE t == Head(backups).headers
    <3>1. s \in Seq(Pos) /\ OnBest(s) /\ db'.headers = t /\ t \in Seq(Pos) /\ OnBest(t)
      BY <1>0, <1>1, <1>2, <1>6, <2>1
    <3> HIDE DEF s, t
    <3>2. Agree(s, t)
      BY <3>1 DEF OnBest, Agree
    <3> QED
      BY <3>1, <3>2 DEF s
  <2> QED
    BY <1>1, <1>3, <2>1 DEF Steady, Follows, OnBest
<1> QED
  BY <1>4, <1>5, <1>6

(* The savepoints there are after a step are those before it, or a copy of *)
(* the database.                                                           *)
LEMMA BackupsFollow ==
  ASSUME IInv, Steady, [Next]_vars,
         UNCHANGED backups \/ UNCHANGED <<db, queue>>,
         \A s \in Seq(Pos) : Follows(s, db.headers, queue) /\ OnBest(s) => Follows(s, db'.headers, queue')
  PROVE  \A k \in 1 .. Len(backups') :
           (\A m \in 1 .. Len(backups'[k].headers) : backups'[k].headers[m] = best'[m])
             => Follows(backups'[k].headers, db'.headers, queue')
<1>0. /\ backups \in Seq(Db) /\ InOrder /\ Height \in Nat /\ Len(db.headers) = Height
      /\ \A k \in 1 .. Len(backups) : backups[k].headers \in Seq(Pos)
  BY Shapes, Heights DEF IInv, TypeOK, Height
<1>1. ASSUME NEW j \in 1 .. Len(backups), NEW s, s = backups[j].headers,
             \A m \in 1 .. Len(s) : s[m] = best'[m]
      PROVE  Follows(s, db'.headers, queue')
  <2>1. OnBest(s) /\ s \in Seq(Pos)
    <3>1. s \in Seq(Pos) /\ Real(base, best, s)
      BY <1>0, <1>1 DEF IInv, Databases
    <3> QED
      BY <1>1, <3>1, OffBestKept
  <2> QED
    BY <1>1, <2>1 DEF Steady
<1>2. CASE UNCHANGED backups
  BY <1>1, <1>2
<1>3. CASE Purge
  <2>1. MaxSavepoints - 1 \in Nat
    BY IndexAssumption
  <2>2. backups' = backups \/ backups' = Newest(backups, MaxSavepoints - 1)
    BY <1>3 DEF Purge
  <2>3. \A k \in 1 .. Len(backups') : \E j \in 1 .. Len(backups) : backups'[k] = backups[j]
    BY <1>0, <2>1, <2>2, NewestLength
  <2> QED
    BY <1>1, <2>3
<1>4. CASE Backup
  <2>1. backups' = Append(backups, db) /\ db' = db /\ queue' = queue
    BY <1>4 DEF Backup, fetcher
  <2>2. db \in Db
    BY DEF IInv, TypeOK
  <2>3. /\ Len(backups') = Len(backups) + 1 /\ backups'[Len(backups) + 1] = db
        /\ \A k \in 1 .. Len(backups) : backups'[k] = backups[k]
    BY <1>0, <2>1, <2>2
  <2>4. Follows(db.headers, db.headers, queue)
    BY <1>0 DEF Follows, Agree, InOrder
  <2>5. \A k \in 1 .. Len(backups') : k \in 1 .. Len(backups) \/ k = Len(backups) + 1
    BY <1>0, <2>3
  <2> QED
    BY <1>1, <2>1, <2>3, <2>4, <2>5
<1> QED
  BY <1>2, <1>3, <1>4 DEF Next, Step, Open, StartUpdate, Fetch, IndexBlock, ReorgDetected,
     ReorgTooDeep, Decide, EndBatch, Commit, Mark, Restore, FaultInBlock,
     FaultBetweenBlocks, Crash, ShutDown, Mine, BitcoinReorg, index, vars

LEMMA SteadyStep ==
  ASSUME IInv, Steady, [Next]_vars
  PROVE  Steady' \/ Stuck'
<1> USE DEF Goto
<1>0. /\ TypeOK /\ db \in Db /\ disk \in Db
      /\ db.headers \in Seq(Pos) /\ disk.headers \in Seq(Pos)
      /\ Len(disk.headers) <= Len(db.headers) /\ Agree(disk.headers, db.headers)
  BY Shapes DEF IInv, TypeOK, Steady
<1>1. ASSUME UNCHANGED backups \/ UNCHANGED <<db, queue>>,
             \A s \in Seq(Pos) : Follows(s, db.headers, queue) /\ OnBest(s) => Follows(s, db'.headers, queue'),
             Len(disk'.headers) <= Len(db'.headers), Agree(disk'.headers, db'.headers)
      PROVE  Steady'
  BY <1>1, BackupsFollow DEF Steady, OnBest
<1>2. ASSUME UNCHANGED backups \/ UNCHANGED <<db, queue>>,
             \/ db'.headers = db.headers /\ queue' = queue
             \/ db'.headers \in {db.headers, disk.headers} /\ queue' = <<>>,
             \/ disk'.headers = disk.headers /\ db'.headers = db.headers
             \/ disk'.headers = db'.headers
      PROVE  Steady'
  <2>1. \A s \in Seq(Pos) : Follows(s, db.headers, queue) => Follows(s, db'.headers, queue')
    BY <1>2, FollowsRest
  <2>2. Len(disk'.headers) <= Len(db'.headers) /\ Agree(disk'.headers, db'.headers)
    BY <1>0, <1>2 DEF Agree
  <2> QED
    BY <1>1, <1>2, <2>1, <2>2
<1>3. CASE UNCHANGED <<db, disk, queue>>
  BY <1>2, <1>3
<1>4. CASE StartUpdate \/ ShutDown
  BY <1>2, <1>4 DEF StartUpdate, ShutDown
<1>5. CASE Commit \/ Mark
  <2>1. /\ [db EXCEPT !.stored = @ \o cache].headers = db.headers
        /\ [db EXCEPT !.last = Height].headers = db.headers
    BY <1>0 DEF Db
  <2>2. db'.headers = db.headers /\ disk' = db' /\ queue' = queue /\ backups' = backups
    BY <1>5, <2>1 DEF Commit, Mark, fetcher
  <2> QED
    BY <1>2, <2>2
<1>6. CASE ReorgDetected \/ ReorgTooDeep \/ FaultBetweenBlocks \/ Crash \/ FaultInBlock
  <2>1. [db EXCEPT !.rows = Append(@, Head(queue).f)].headers = db.headers
    BY <1>0 DEF Db
  <2>2. /\ disk' = db' /\ queue' = <<>> /\ backups' = backups
        /\ db'.headers \in {db.headers, disk.headers}
    BY <1>6, <2>1 DEF ReorgDetected, ReorgTooDeep, FaultBetweenBlocks, Crash, FaultInBlock, Leave
  <2> QED
    BY <1>2, <2>2
<1>7. CASE Fetch
  <2>1. db' = db /\ disk' = disk /\ backups' = backups
    BY <1>7 DEF Fetch
  <2> QED
    BY <1>0, <1>1, <1>7, <2>1, FollowsGrow
<1>8. CASE IndexBlock
  <2>1. disk' = disk /\ backups' = backups
    BY <1>8 DEF IndexBlock
  <2>2. /\ Len(db'.headers) = Len(db.headers) + 1
        /\ \A m \in 1 .. Len(db.headers) : db'.headers[m] = db.headers[m]
    BY <1>8, BlockEffect DEF Height
  <2>3. Len(disk.headers) <= Len(db'.headers) /\ Agree(disk.headers, db'.headers)
    BY <1>0, <2>2 DEF Agree
  <2> QED
    BY <1>1, <1>8, <2>1, <2>3, FollowsGrow
<1>9. CASE Restore
  BY <1>9, SteadyRestore
<1> QED
  BY <1>3, <1>4, <1>5, <1>6, <1>7, <1>8, <1>9 DEF Next, Step, Open, Decide, EndBatch, Purge,
     Backup, Mine, BitcoinReorg, index, fetcher, vars

(* The savepoint that is stuck is restored to itself.                      *)
LEMMA StuckStep ==
  ASSUME IInv, Stuck, [Next]_vars
  PROVE  Stuck' /\ disk' = disk
<1>1. CASE UNCHANGED vars
  BY <1>1 DEF vars, bitcoin, fetcher, counts, Stuck, Stranded, OnBest, Links, Parent, Height
<1>2. CASE Restore
  <2>1. /\ backups' = backups /\ pc' = "closed" /\ best' = best
        /\ disk' = Head(backups) /\ db' = Head(backups) /\ cache' = <<>> /\ queue' = <<>>
    BY <1>2 DEF Stuck, Restore, Leave, Goto, bitcoin
  <2> QED
    BY <2>1 DEF Stuck, Stranded, OnBest
<1> QED
  BY <1>1, <1>2, StrandedStays DEF Stuck

(* Whatever is indexed, reorganised, restored or killed, readers of the    *)
(* flushed database see its chain grow or be cut; they come to another     *)
(* fork at once only where the oldest savepoint is itself of a fork that   *)
(* Bitcoin left, which no comparison of the last hash catches.             *)
THEOREM ReadersFollow == Spec => ServedCutOrExtended
<1> DEFINE Good ==
      \/ IsPrefix(disk.headers, disk'.headers)
      \/ IsPrefix(disk'.headers, disk.headers)
      \/ pc = "restore" /\ ~IsPrefix(Head(backups).headers, best)
<1>1. Init => Steady
  BY DEF Init, Steady, Agree, NoDb
<1>2. IInv /\ (Steady \/ Stuck) /\ [Next]_vars => (Steady \/ Stuck)'
  BY SteadyStep, StuckStep
<1>3. IInv /\ (Steady \/ Stuck) /\ [Next]_vars => [Good]_disk
  <2> SUFFICES ASSUME IInv, Steady, Next, disk' # disk
               PROVE  Good
    BY StuckStep DEF vars
  <2>0. /\ db \in Db /\ db.headers \in Seq(Pos) /\ disk.headers \in Seq(Pos) /\ best \in Seq(Pos)
        /\ Len(disk.headers) <= Len(db.headers) /\ Agree(disk.headers, db.headers)
    BY Shapes DEF IInv, TypeOK, Steady
  <2>1. CASE disk'.headers = db.headers
    BY <2>0, <2>1, AgreePrefix
  <2>2. CASE Commit \/ Mark
    <3>1. /\ [db EXCEPT !.stored = @ \o cache].headers = db.headers
          /\ [db EXCEPT !.last = Height].headers = db.headers
      BY <2>0 DEF Db
    <3> QED
      BY <2>1, <2>2, <3>1 DEF Commit, Mark
  <2>3. CASE ReorgDetected \/ ReorgTooDeep \/ FaultBetweenBlocks \/ Crash \/ FaultInBlock
    <3>1. [db EXCEPT !.rows = Append(@, Head(queue).f)].headers = db.headers
      BY <2>0 DEF Db
    <3> QED
      BY <2>1, <2>3, <3>1 DEF ReorgDetected, ReorgTooDeep, FaultBetweenBlocks, Crash, FaultInBlock, Leave
  <2>4. CASE Restore
    <3>1. backups # <<>> /\ disk' = Head(backups) /\ pc = "restore"
      BY <2>4 DEF Restore, Leave
    <3> DEFINE s == Head(backups).headers
    <3>2. 1 \in 1 .. Len(backups) /\ s = backups[1].headers
      BY <3>1, HeadTail DEF IInv, TypeOK
    <3>3. s \in Seq(Pos) /\ Real(base, best, s)
      BY <3>2, Shapes DEF IInv, Databases
    <3>4. CASE OnBest(s)
      <4>1. Agree(s, db.headers)
        BY <3>2, <3>4 DEF Steady, Follows
      <4>2. Agree(s, disk.headers)
        BY <2>0, <3>3, <4>1, AgreeCut
      <4> QED
        BY <2>0, <3>1, <3>3, <4>2, AgreeEither
    <3>5. CASE ~OnBest(s)
      <4>1. ~IsPrefix(s, best)
        BY <2>0, <3>3, <3>5, PrefixOnBest
      <4> QED
        BY <3>1, <4>1
    <3> QED
      BY <3>4, <3>5
  <2> QED
    BY <2>2, <2>3, <2>4 DEF Next, Step, Open, StartUpdate, Fetch, IndexBlock, Decide, EndBatch,
       Purge, Backup, ShutDown, Mine, BitcoinReorg, index
<1> QED
  BY <1>1, <1>2, <1>3, Invariance, PTL DEF Spec, ServedCutOrExtended
=============================================================================
