--------------------------- MODULE RegistryProofs ---------------------------
(***************************************************************************)
(* The bitmap and the SNS indexer, for any inscriptions, any number of     *)
(* blocks, forks and crashes and any depth of the search: whatever reorgs  *)
(* and crashes come in between, the registers hold the first inscription   *)
(* of each name in the stored blocks, and the cumulative hash of a stored  *)
(* block is that of the rows up to it.                                     *)
(***************************************************************************)
EXTENDS Registry, TableTheorems

IsSeq(s) == \E S : s \in Seq(S)

(* What OPI-ord serves for block <<h, f>> to indexer k.                    *)
Block(k, h, f) == IF f = NoBlock THEN << >> ELSE Inscriptions[k][h][f]

(* The row that the inscription at place a of the blocks s asks for.       *)
RowIn(k, s, a) == RowOf(k, Block(k, a[1], s[a[1]])[a[2]], a[1])

PlacesIn(k, s) == UNION {{h} \X DOMAIN Block(k, h, s[h]) : h \in 1 .. Len(s)}

Matching(r, q) == r.table = q.table /\ r.key = q.key

(* Place b of the places P is the first that asks for its name.            *)
FirstIn(k, s, P, b) ==
  /\ RowIn(k, s, b) # None
  /\ \A c \in P : Before(c, b) =>
       RowIn(k, s, c) = None \/ ~ Matching(RowIn(k, s, c)[1], RowIn(k, s, b)[1])

(* Up to height n the rows rs are those of the first places, and no name   *)
(* was registered later than a place that asks for it.                     *)
Registers(k, rs, s, P, n) ==
  /\ \A i \in 1 .. Len(rs) : rs[i].h <= n =>
       \E b \in P : FirstIn(k, s, P, b) /\ RowIn(k, s, b)[1] = rs[i]
  /\ \A b \in P : FirstIn(k, s, P, b) => \E i \in 1 .. Len(rs) : rs[i] = RowIn(k, s, b)[1]
  /\ \A c \in P : RowIn(k, s, c) # None =>
       \E i \in 1 .. Len(rs) : Matching(rs[i], RowIn(k, s, c)[1]) /\ rs[i].h <= c[1]

(* The lists of events whose hash is the cumulative hash of height n.      *)
Chain(rs, n) == [j \in 1 .. n |-> Only(rs, {j})]

Recorded(cs, rs, h) == \E c \in cs : c.h = h /\ c.chain = Chain(rs, h)

-----------------------------------------------------------------------------
(* The invariant                                                           *)

Typed ==
  /\ kind \in Kinds
  /\ fork \in 1 .. Forks /\ best \in Seq(1 .. Forks) /\ opi \in Seq(1 .. Forks)
  /\ Len(opi) <= Len(best) /\ Len(best) <= MaxHeight
  /\ hashes \in Seq(1 .. Forks) /\ sources \in Seq(0 .. Forks)
  /\ Len(sources) = Height /\ Height <= MaxHeight
  /\ IsSeq(rows) /\ IsSeq(left)
  /\ hash \in 0 .. Forks /\ source \in 0 .. Forks
  /\ pc \in {"down", "residue", "height", "hash", "tip", "walk", "read", "index", "store", "exit"}

(* A block is looked at only if OPI-ord had one above the last hash; the   *)
(* walk starts at the last hash.                                           *)
Control ==
  /\ pc \in {"tip", "walk", "read", "index", "store"} => Height < MaxHeight /\ hash \in 1 .. Forks
  /\ pc = "walk" => at \in 0 .. Height

(* Rows are ahead of the hashes by a block at most, and not at all between *)
(* the look for residue and the first insert.                              *)
RowHeights ==
  /\ \A i \in 1 .. Len(rows) : rows[i].h \in 1 .. Height + 1
  /\ pc \in {"height", "hash", "tip", "walk", "read"} =>
       \A i \in 1 .. Len(rows) : rows[i].h <= Height

Registered == Registers(kind, rows, sources, PlacesIn(kind, sources), Height)

Hashed ==
  /\ \A c \in cumul : c.h \in 1 .. Height + 1
  /\ \A c, d \in cumul : c.h = d.h => c = d
  /\ \A h \in 1 .. Height : Recorded(cumul, rows, h)

Now  == Block(kind, Height + 1, source)
Done == Len(Now) - Len(left)
Seen == PlacesIn(kind, sources) \cup ({Height + 1} \X (1 .. Done))

(* The block being indexed: its inscriptions are registered as far as they *)
(* were looked at.                                                         *)
Reading ==
  pc \in {"index", "store"} =>
    /\ Len(left) <= Len(Now)
    /\ \A i \in 1 .. Len(left) : left[i] = Now[Done + i]
    /\ events = Only(rows, {Height + 1})
    /\ Registers(kind, rows, Append(sources, source), Seen, Height + 1)
    /\ pc = "store" => left = << >> /\ Recorded(cumul, rows, Height + 1)

IInv == Typed /\ Control /\ RowHeights /\ Registered /\ Hashed /\ Reading

-----------------------------------------------------------------------------
(* Rows                                                                    *)

(* An inscription asks for no row, or for one of its height.               *)
LEMMA RowShape ==
  ASSUME NEW k, NEW x, NEW h, RowOf(k, x, h) # None
  PROVE  RowOf(k, x, h)[1].h = h /\ RowOf(k, x, h) = << RowOf(k, x, h)[1] >>
BY DEF RowOf, Some, None

LEMMA BlockType ==
  ASSUME NEW k \in Kinds, NEW h \in 1 .. MaxHeight, NEW f \in 0 .. Forks
  PROVE  IsSeq(Block(k, h, f)) /\ Len(Block(k, h, f)) \in Nat
                               /\ DOMAIN Block(k, h, f) = 1 .. Len(Block(k, h, f))
<1>1. \E S : Block(k, h, f) \in Seq(S)
  <2>1. CASE f = NoBlock
    BY <2>1, EmptySeq DEF Block
  <2>2. CASE f # NoBlock
    BY <2>2, RegistryAssumption DEF Block, NoBlock
  <2> QED
    BY <2>1, <2>2
<1> QED
  BY <1>1 DEF IsSeq

(* Places are pairs of a stored height and an index.                       *)
LEMMA PlaceIs ==
  ASSUME NEW k \in Kinds, NEW s \in Seq(0 .. Forks), Len(s) <= MaxHeight
  PROVE  \A a : a \in PlacesIn(k, s) <=>
           \E h \in 1 .. Len(s) : \E i \in 1 .. Len(Block(k, h, s[h])) : a = <<h, i>>
<1>1. ASSUME NEW h \in 1 .. Len(s)
      PROVE  DOMAIN Block(k, h, s[h]) = 1 .. Len(Block(k, h, s[h]))
  <2>1. s[h] \in 0 .. Forks /\ h \in 1 .. MaxHeight
    BY ElementOfSeq, RegistryAssumption
  <2> QED
    BY <2>1, BlockType
<1> QED
  BY <1>1 DEF PlacesIn

LEMMA PlaceHeight ==
  ASSUME NEW k \in Kinds, NEW s \in Seq(0 .. Forks), Len(s) <= MaxHeight,
         NEW c \in PlacesIn(k, s)
  PROVE  c[1] \in 1 .. Len(s) /\ c[2] \in Nat
<1>1. PICK h \in 1 .. Len(s) : \E i \in 1 .. Len(Block(k, h, s[h])) : c = <<h, i>>
  BY PlaceIs
<1> QED
  BY <1>1

(* The places of fewer blocks.                                             *)
LEMMA PlacesCut ==
  ASSUME NEW k \in Kinds, NEW s \in Seq(0 .. Forks), Len(s) <= MaxHeight,
         NEW t \in Seq(0 .. Forks), Len(t) <= Len(s),
         \A h \in 1 .. Len(t) : t[h] = s[h]
  PROVE  PlacesIn(k, t) = {a \in PlacesIn(k, s) : a[1] <= Len(t)}
<1>1. Len(s) \in Nat /\ Len(t) \in Nat /\ MaxHeight \in Nat /\ Len(t) <= MaxHeight
  BY RegistryAssumption
<1>2. ASSUME NEW a \in PlacesIn(k, t) PROVE a \in PlacesIn(k, s) /\ a[1] <= Len(t)
  <2>1. PICK h \in 1 .. Len(t) : \E i \in 1 .. Len(Block(k, h, t[h])) : a = <<h, i>>
    BY <1>1, PlaceIs
  <2>2. h \in 1 .. Len(s) /\ t[h] = s[h]
    BY <1>1
  <2> QED
    BY <2>1, <2>2, PlaceIs
<1>3. ASSUME NEW a \in PlacesIn(k, s), a[1] <= Len(t) PROVE a \in PlacesIn(k, t)
  <2>1. PICK h \in 1 .. Len(s) : \E i \in 1 .. Len(Block(k, h, s[h])) : a = <<h, i>>
    BY PlaceIs
  <2>2. h \in 1 .. Len(t) /\ t[h] = s[h]
    BY <1>1, <1>3, <2>1
  <2> QED
    BY <1>1, <2>1, <2>2, PlaceIs
<1> QED
  BY <1>2, <1>3

LEMMA PrefixOf ==
  ASSUME NEW S, NEW s \in Seq(S), NEW n \in 0 .. Len(s)
  PROVE  /\ Prefix(s, n) \in Seq(S) /\ Len(Prefix(s, n)) = n
         /\ \A m \in 1 .. n : Prefix(s, n)[m] = s[m]
<1>1. Prefix(s, n) = SubSeq(s, 1, n)
  BY DEF Prefix
<1>2. \A i \in 1 .. n : s[i] \in S
  BY ElementOfSeq
<1> QED
  BY <1>1, <1>2, SubSeqProperties

(* The next inscription: the first one that asks for its name is           *)
(* registered, a later one is not.                                         *)
LEMMA RegistersNext ==
  ASSUME NEW k, NEW S, NEW rs \in Seq(S), NEW s, NEW P, NEW n \in Nat, NEW d \in Nat,
         Registers(k, rs, s, P, n),
         \A i \in 1 .. Len(rs) : rs[i].h <= n,
         \A c \in P : Before(c, <<n, d>>) /\ ~ Before(<<n, d>>, c),
         NEW row, row = RowIn(k, s, <<n, d>>),
         NEW qs, qs = IF row = None \/ Has(rs, row[1]) THEN rs ELSE rs \o row
  PROVE  Registers(k, qs, s, P \cup {<<n, d>>}, n)
<1> DEFINE p == <<n, d>>
<1> DEFINE Q == P \cup {p}
<1>1. p[1] = n /\ ~ Before(p, p)
  BY DEF Before
<1>2. /\ \A i \in 1 .. Len(rs) : \E b \in P : FirstIn(k, s, P, b) /\ RowIn(k, s, b)[1] = rs[i]
      /\ \A b \in P : FirstIn(k, s, P, b) => \E i \in 1 .. Len(rs) : rs[i] = RowIn(k, s, b)[1]
      /\ \A c \in P : RowIn(k, s, c) # None =>
           \E i \in 1 .. Len(rs) : Matching(rs[i], RowIn(k, s, c)[1]) /\ rs[i].h <= c[1]
  BY DEF Registers
<1>3. p \in Q /\ (\A c \in Q : c \in P \/ c = p) /\ (\A c \in P : c \in Q /\ Before(c, p) /\ ~ Before(p, c))
  OBVIOUS
<1>4. row = RowIn(k, s, p)
  OBVIOUS
<1>5. DOMAIN rs = 1 .. Len(rs) /\ Len(rs) \in Nat
  OBVIOUS
<1> HIDE DEF p, Q
<1>6. \A b \in P : FirstIn(k, s, Q, b) <=> FirstIn(k, s, P, b)
  BY <1>3 DEF FirstIn
<1>7. CASE row = None
  <2>1. qs = rs
    BY <1>7
  <2>2. ~ FirstIn(k, s, Q, p)
    BY <1>4, <1>7 DEF FirstIn
  <2> QED
    BY <1>2, <1>3, <1>4, <1>6, <1>7, <2>1, <2>2 DEF Registers, p, Q
<1>8. CASE row # None /\ Has(rs, row[1])
  <2>1. qs = rs
    BY <1>8
  <2>2. PICK i \in 1 .. Len(rs) : Matching(rs[i], row[1])
    BY <1>5, <1>8 DEF Has, Matching
  <2>3. PICK b \in P : FirstIn(k, s, P, b) /\ RowIn(k, s, b)[1] = rs[i]
    BY <1>2
  <2>4. ~ FirstIn(k, s, Q, p)
    BY <1>3, <1>4, <2>2, <2>3 DEF FirstIn
  <2>5. Matching(rs[i], RowIn(k, s, p)[1]) /\ rs[i].h <= p[1]
    BY <1>1, <1>4, <2>2
  <2> QED
    BY <1>2, <1>3, <1>6, <2>1, <2>4, <2>5 DEF Registers, p, Q
<1>9. CASE row # None /\ ~ Has(rs, row[1])
  <2>1. row[1].h = n /\ row = << row[1] >>
    BY <1>9, RowShape DEF RowIn
  <2> DEFINE r == row[1]
  <2>2. qs = rs \o << r >>
    BY <1>9, <2>1
  <2> HIDE DEF r
  <2>3. /\ Len(qs) = Len(rs) + 1 /\ qs[Len(rs) + 1] = r
        /\ \A i \in 1 .. Len(rs) : qs[i] = rs[i]
    BY <2>2
  <2>4. FirstIn(k, s, Q, p)
    <3> SUFFICES ASSUME NEW c \in P, RowIn(k, s, c) # None, Matching(RowIn(k, s, c)[1], row[1])
                 PROVE  FALSE
      BY <1>1, <1>3, <1>4, <1>9 DEF FirstIn
    <3>1. PICK i \in 1 .. Len(rs) : Matching(rs[i], RowIn(k, s, c)[1])
      BY <1>2
    <3> QED
      BY <1>5, <1>9, <3>1 DEF Has, Matching
  <2>5. ASSUME NEW i \in 1 .. Len(qs)
        PROVE  \E b \in Q : FirstIn(k, s, Q, b) /\ RowIn(k, s, b)[1] = qs[i]
    <3>1. CASE i \in 1 .. Len(rs)
      BY <1>2, <1>3, <1>6, <2>3, <3>1
    <3>2. CASE i = Len(rs) + 1
      BY <1>3, <1>4, <2>3, <2>4, <3>2 DEF r
    <3> QED
      BY <1>5, <2>3, <3>1, <3>2
  <2>6. Len(rs) + 1 \in 1 .. Len(qs) /\ \A i \in 1 .. Len(rs) : i \in 1 .. Len(qs)
    <3>1. \A l \in Nat : l + 1 \in 1 .. l + 1 /\ \A i \in 1 .. l : i \in 1 .. l + 1
      OBVIOUS
    <3> QED
      BY <1>5, <2>3, <3>1
  <2>7. ASSUME NEW b \in Q, FirstIn(k, s, Q, b)
        PROVE  \E i \in 1 .. Len(qs) : qs[i] = RowIn(k, s, b)[1]
    <3>1. CASE b \in P
      BY <1>2, <1>6, <2>3, <2>6, <2>7, <3>1
    <3>2. CASE b = p
      BY <1>4, <2>3, <2>6, <3>2 DEF r
    <3> QED
      BY <1>3, <3>1, <3>2
  <2>8. ASSUME NEW c \in Q, RowIn(k, s, c) # None
        PROVE  \E i \in 1 .. Len(qs) : Matching(qs[i], RowIn(k, s, c)[1]) /\ qs[i].h <= c[1]
    <3>1. CASE c \in P
      BY <1>2, <2>3, <2>6, <2>8, <3>1
    <3>2. CASE c = p
      <4>1. Matching(r, RowIn(k, s, c)[1]) /\ r.h <= c[1]
        BY <1>1, <1>4, <2>1, <3>2 DEF r, Matching
      <4> QED
        BY <2>3, <2>6, <4>1
    <3> QED
      BY <1>3, <3>1, <3>2
  <2> QED
    BY <2>5, <2>7, <2>8 DEF Registers, p, Q
<1> QED
  BY <1>7, <1>8, <1>9

(* What reorg_fix leaves is what the blocks it leaves register.            *)
LEMMA RegistersCut ==
  ASSUME NEW k, NEW S, NEW rs \in Seq(S), NEW s, NEW t, NEW P, NEW n \in Nat, NEW m \in Nat, m <= n,
         Registers(k, rs, s, P, n),
         \A i \in 1 .. Len(rs) : rs[i].h \in Nat,
         \A c \in P : c[1] \in Nat /\ (c[1] <= m => t[c[1]] = s[c[1]])
  PROVE  Registers(k, Only(rs, 0 .. m), t, {c \in P : c[1] <= m}, m)
<1> DEFINE Q == {c \in P : c[1] <= m}
<1> DEFINE qs == Only(rs, 0 .. m)
<1>1. \A c \in Q : c \in P /\ c[1] \in Nat /\ c[1] <= m /\ RowIn(k, t, c) = RowIn(k, s, c)
  BY DEF RowIn
<1>2. \A c \in P : c[1] <= m => c \in Q
  OBVIOUS
<1>3. /\ \A i \in 1 .. Len(qs) : qs[i].h \in 0 .. m /\ \E j \in 1 .. Len(rs) : qs[i] = rs[j]
      /\ \A j \in 1 .. Len(rs) : rs[j].h \in 0 .. m => \E i \in 1 .. Len(qs) : qs[i] = rs[j]
  BY OnlyRows
<1>4. /\ \A i \in 1 .. Len(rs) : rs[i].h <= n =>
           \E b \in P : FirstIn(k, s, P, b) /\ RowIn(k, s, b)[1] = rs[i]
      /\ \A b \in P : FirstIn(k, s, P, b) => \E i \in 1 .. Len(rs) : rs[i] = RowIn(k, s, b)[1]
      /\ \A c \in P : RowIn(k, s, c) # None =>
           \E i \in 1 .. Len(rs) : Matching(rs[i], RowIn(k, s, c)[1]) /\ rs[i].h <= c[1]
  BY DEF Registers
<1> HIDE DEF Q, qs
<1>5. ASSUME NEW b \in Q PROVE FirstIn(k, t, Q, b) <=> FirstIn(k, s, P, b)
  <2>1. ASSUME NEW c \in P, Before(c, b) PROVE c \in Q
    BY <1>1, <1>2, <2>1 DEF Before
  <2> QED
    BY <1>1, <2>1 DEF FirstIn
<1>6. \A b \in P : FirstIn(k, s, P, b) => RowIn(k, s, b)[1].h = b[1]
  BY RowShape DEF FirstIn, RowIn
<1>7. ASSUME NEW i \in 1 .. Len(qs), qs[i].h <= m
      PROVE  \E b \in Q : FirstIn(k, t, Q, b) /\ RowIn(k, t, b)[1] = qs[i]
  <2>1. PICK j \in 1 .. Len(rs) : qs[i] = rs[j]
    BY <1>3
  <2>2. rs[j].h <= n
    BY <1>3, <2>1
  <2>3. PICK b \in P : FirstIn(k, s, P, b) /\ RowIn(k, s, b)[1] = rs[j]
    BY <1>4, <2>2
  <2>4. b \in Q
    BY <1>2, <1>6, <1>7, <2>1, <2>3
  <2> QED
    BY <1>1, <1>5, <2>1, <2>3, <2>4
<1>8. ASSUME NEW b \in Q, FirstIn(k, t, Q, b)
      PROVE  \E i \in 1 .. Len(qs) : qs[i] = RowIn(k, t, b)[1]
  <2>1. b \in P /\ FirstIn(k, s, P, b)
    BY <1>1, <1>5, <1>8
  <2>2. PICK j \in 1 .. Len(rs) : rs[j] = RowIn(k, s, b)[1]
    BY <1>4, <2>1
  <2>3. rs[j].h \in 0 .. m
    BY <1>1, <1>6, <2>1, <2>2
  <2> QED
    BY <1>1, <1>3, <2>2, <2>3
<1>9. ASSUME NEW c \in Q, RowIn(k, t, c) # None
      PROVE  \E i \in 1 .. Len(qs) : Matching(qs[i], RowIn(k, t, c)[1]) /\ qs[i].h <= c[1]
  <2>1. c \in P /\ RowIn(k, t, c) = RowIn(k, s, c) /\ c[1] \in Nat /\ c[1] <= m
    BY <1>1
  <2>2. PICK j \in 1 .. Len(rs) : Matching(rs[j], RowIn(k, s, c)[1]) /\ rs[j].h <= c[1]
    BY <1>4, <1>9, <2>1
  <2>3. rs[j].h \in 0 .. m
    BY <2>1, <2>2
  <2> QED
    BY <1>3, <2>1, <2>2, <2>3
<1> QED
  BY <1>7, <1>8, <1>9 DEF Registers, Q, qs

-----------------------------------------------------------------------------
(* Steps                                                                   *)

LEMMA Shapes ==
  ASSUME IInv
  PROVE  /\ Height \in 0 .. MaxHeight /\ MaxHeight \in Nat /\ Forks \in Nat \ {0}
         /\ Len(hashes) = Height /\ Len(sources) = Height
         /\ Len(best) \in Nat /\ Len(opi) \in Nat
BY RegistryAssumption DEF IInv, Typed, Height

(* Steps that leave tables alone and are not within a block.               *)
LEMMA QuietStep ==
  ASSUME IInv, UNCHANGED <<kind, rows, cumul, hashes, sources>>,
         pc' \notin {"index", "store"} \/ UNCHANGED <<pc, left, events, source>>
  PROVE  Registered' /\ Hashed' /\ Reading'
<1>1. Registered' /\ Hashed'
  BY DEF IInv, Registered, Hashed, Height
<1>2. Reading'
  <2>1. CASE pc' \notin {"index", "store"}
    BY <2>1 DEF Reading
  <2>2. CASE UNCHANGED <<pc, left, events, source>>
    BY <2>2 DEF IInv, Reading, Seen, Done, Now, Height
  <2> QED
    BY <2>1, <2>2
<1> QED
  BY <1>1, <1>2

(* reorg_fix deletes from all tables what is above height k.               *)
LEMMA FixStep ==
  ASSUME IInv, NEW k \in 0 .. Height, ReorgFix(k), kind' = kind, pc' \notin {"index", "store"}
  PROVE  /\ Registered' /\ Hashed' /\ Reading'
         /\ hashes' \in Seq(1 .. Forks) /\ sources' \in Seq(0 .. Forks)
         /\ Height' = k /\ Len(sources') = k
         /\ IsSeq(rows') /\ \A i \in 1 .. Len(rows') : rows'[i].h \in 1 .. k
<1>0. /\ Height \in 0 .. MaxHeight /\ Len(hashes) = Height /\ Len(sources) = Height
      /\ hashes \in Seq(1 .. Forks) /\ sources \in Seq(0 .. Forks) /\ kind \in Kinds
      /\ MaxHeight \in Nat
  BY Shapes DEF IInv, Typed
<1>1. /\ rows' = Only(rows, 0 .. k) /\ cumul' = {c \in cumul : c.h <= k}
      /\ hashes' = Prefix(hashes, k) /\ sources' = Prefix(sources, k)
  BY DEF ReorgFix
<1>2. PICK S : rows \in Seq(S)
  BY DEF IInv, Typed, IsSeq
<1>3. \A i \in 1 .. Len(rows) : rows[i].h \in 1 .. Height + 1
  BY DEF IInv, RowHeights
<1>4. /\ hashes' \in Seq(1 .. Forks) /\ Len(hashes') = k
      /\ sources' \in Seq(0 .. Forks) /\ Len(sources') = k
      /\ \A m \in 1 .. k : sources'[m] = sources[m]
  BY <1>0, <1>1, PrefixOf
<1>5. Height' = k
  BY <1>4 DEF Height
<1>6. IsSeq(rows')
  BY <1>1, <1>2, OnlyType DEF IsSeq
<1>7. ASSUME NEW i \in 1 .. Len(rows') PROVE rows'[i].h \in 1 .. k
  <2>1. rows'[i].h \in 0 .. k /\ \E j \in 1 .. Len(rows) : rows'[i] = rows[j]
    BY <1>1, <1>2, OnlyRows
  <2> QED
    BY <1>0, <1>3, <2>1
<1>8. Registered'
  <2> DEFINE P == PlacesIn(kind, sources)
  <2>1. PlacesIn(kind, sources') = {a \in P : a[1] <= k}
    BY <1>0, <1>4, PlacesCut
  <2>2. \A c \in P : c[1] \in Nat /\ c[1] >= 1
    BY <1>0, PlaceHeight
  <2>3. \A c \in P : c[1] \in Nat /\ (c[1] <= k => sources'[c[1]] = sources[c[1]])
    BY <1>4, <2>2
  <2>4. Registers(kind, rows, sources, P, Height)
    BY DEF IInv, Registered
  <2>5. \A i \in 1 .. Len(rows) : rows[i].h \in Nat
    BY <1>0, <1>3
  <2>6. k \in Nat /\ Height \in Nat /\ k <= Height
    BY <1>0
  <2> HIDE DEF P
  <2>7. Registers(kind, Only(rows, 0 .. k), sources', {c \in P : c[1] <= k}, k)
    BY <1>2, <2>3, <2>4, <2>5, <2>6, RegistersCut
  <2> QED
    BY <1>1, <1>5, <2>1, <2>7 DEF Registered
<1>9. Hashed'
  <2>1. \A c \in cumul' : c \in cumul /\ c.h \in 1 .. k
    BY <1>0, <1>1 DEF IInv, Hashed
  <2>2. ASSUME NEW h \in 1 .. k PROVE Recorded(cumul', rows', h)
    <3>1. PICK c \in cumul : c.h = h /\ c.chain = Chain(rows, h)
      BY <1>0 DEF IInv, Hashed, Recorded
    <3>2. Chain(rows', h) = Chain(rows, h)
      <4>1. ASSUME NEW j \in 1 .. h PROVE Only(rows', {j}) = Only(rows, {j})
        <5>1. (0 .. k) \cap {j} = {j}
          OBVIOUS
        <5> QED
          BY <1>1, <1>2, <5>1, OnlyTwice
      <4> QED
        BY <4>1 DEF Chain
    <3>3. c \in cumul'
      BY <1>1, <3>1
    <3> QED
      BY <3>1, <3>2, <3>3 DEF Recorded
  <2>3. \A c \in cumul' : c.h \in 1 .. k + 1
    BY <2>1
  <2>4. \A c, d \in cumul' : c.h = d.h => c = d
    BY <2>1 DEF IInv, Hashed
  <2> QED
    BY <1>5, <2>2, <2>3, <2>4 DEF Hashed
<1>10. Reading'
  BY DEF Reading
<1> QED
  BY <1>4, <1>5, <1>6, <1>7, <1>8, <1>9, <1>10

(* The inscriptions of the block are read: none is registered yet.         *)
LEMMA ReadStep ==
  ASSUME IInv, ReadInscriptions
  PROVE  /\ Registered' /\ Hashed' /\ Reading'
         /\ IsSeq(left') /\ source' \in 0 .. Forks
<1>0. /\ Height \in 0 .. MaxHeight /\ Len(sources) = Height /\ sources \in Seq(0 .. Forks)
      /\ kind \in Kinds /\ Height < MaxHeight /\ MaxHeight \in Nat /\ Forks \in Nat
      /\ pc = "read" /\ opi \in Seq(1 .. Forks)
  BY Shapes DEF IInv, Typed, Control, ReadInscriptions
<1>1. /\ pc' = "index" /\ UNCHANGED <<kind, rows, cumul, hashes, sources>> /\ events' = << >>
      /\ source' = Served(Height + 1) /\ Height' = Height
  BY DEF ReadInscriptions, Goto, tables, Height
<1>2. source' \in 0 .. Forks
  <2>1. CASE Height + 1 <= Len(opi)
    <3>1. Height + 1 \in 1 .. Len(opi)
      BY <1>0, <2>1
    <3>2. opi[Height + 1] \in 1 .. Forks
      BY <1>0, <3>1, ElementOfSeq
    <3> QED
      BY <1>0, <1>1, <2>1, <3>2 DEF Served
  <2>2. CASE ~ (Height + 1 <= Len(opi))
    BY <1>0, <1>1, <2>2 DEF Served, NoBlock
  <2> QED
    BY <2>1, <2>2
<1>3. left' = Now' /\ Now' = Block(kind, Height + 1, source')
  BY <1>1 DEF ReadInscriptions, Read, Block, Now
<1>4. IsSeq(Now') /\ Len(Now') \in Nat
  <2>1. Height + 1 \in 1 .. MaxHeight
    BY <1>0
  <2> QED
    BY <1>0, <1>2, <1>3, <2>1, BlockType
<1>5. Done' = 0
  BY <1>3, <1>4 DEF Done
<1>6. Registered' /\ Hashed'
  BY <1>1 DEF IInv, Registered, Hashed
<1>7. PICK S : rows \in Seq(S)
  BY DEF IInv, Typed, IsSeq
<1>8. \A i \in 1 .. Len(rows) : rows[i].h \in 1 .. Height
  BY <1>0 DEF IInv, RowHeights
<1>9. events' = Only(rows, {Height + 1})
  BY <1>0, <1>1, <1>7, <1>8, OnlyNone
<1>10. Registers(kind, rows, Append(sources, source'), Seen', Height + 1)
  <2> DEFINE s == Append(sources, source')
  <2> DEFINE P == PlacesIn(kind, sources)
  <2>1. Seen' = P
    <3>1. 1 .. Done' = {}
      BY <1>5
    <3> QED
      BY <1>1, <3>1 DEF Seen
  <2>2. \A h \in 1 .. Height : s[h] = sources[h]
    BY <1>0, <1>2
  <2>3. \A c \in P : c[1] \in 1 .. Height
    BY <1>0, PlaceHeight
  <2> HIDE DEF s, P
  <2>4. \A c \in P : RowIn(kind, s, c) = RowIn(kind, sources, c)
    BY <2>2, <2>3 DEF RowIn
  <2>5. \A b \in P : FirstIn(kind, s, P, b) <=> FirstIn(kind, sources, P, b)
    BY <2>4 DEF FirstIn
  <2>6. Registers(kind, rows, sources, P, Height)
    BY DEF IInv, Registered, P
  <2>7. \A i \in 1 .. Len(rows) : rows[i].h <= Height
    BY <1>0, <1>8
  <2>8. Registers(kind, rows, s, P, Height + 1)
    BY <2>4, <2>5, <2>6, <2>7 DEF Registers
  <2> QED
    BY <2>1, <2>8 DEF s
<1>11. Reading'
  <2>1. Len(left') <= Len(Now') /\ \A i \in 1 .. Len(left') : left'[i] = Now'[Done' + i]
    BY <1>3, <1>4, <1>5
  <2> QED
    BY <1>1, <1>9, <1>10, <2>1 DEF Reading
<1> QED
  BY <1>2, <1>3, <1>4, <1>6, <1>11

(* A row of a later block changes nothing of the stored ones.              *)
LEMMA RegistersLater ==
  ASSUME NEW k, NEW S, NEW rs \in Seq(S), NEW s, NEW P, NEW n \in Nat,
         Registers(k, rs, s, P, n), NEW r, ~ (r.h <= n)
  PROVE  Registers(k, rs \o << r >>, s, P, n)
<1> DEFINE qs == rs \o << r >>
<1>1. /\ Len(rs) \in Nat /\ Len(qs) = Len(rs) + 1 /\ qs[Len(rs) + 1] = r
      /\ \A i \in 1 .. Len(rs) : qs[i] = rs[i]
  OBVIOUS
<1> HIDE DEF qs
<1>2. /\ \A i \in 1 .. Len(rs) : i \in 1 .. Len(qs)
      /\ \A i \in 1 .. Len(qs) : i \in 1 .. Len(rs) \/ i = Len(rs) + 1
  BY <1>1
<1>3. Registers(k, qs, s, P, n)
  BY <1>1, <1>2 DEF Registers
<1> QED
  BY <1>3 DEF qs

LEMMA LastOf ==
  ASSUME NEW S, NEW s \in Seq(S), NEW r
  PROVE  SubSeq(s \o << r >>, Len(s) + 1, Len(s \o << r >>)) = << r >>
<1> DEFINE t == s \o << r >>
<1> DEFINE T == S \cup {r}
<1> DEFINE n == Len(s)
<1>1. /\ n \in Nat /\ Len(t) = n + 1 /\ t[n + 1] = r
  OBVIOUS
<1>2. t \in Seq(T)
  <2>1. s \in Seq(T) /\ << r >> \in Seq(T)
    BY SeqMonotonic
  <2> QED
    BY <2>1, ConcatProperties
<1> HIDE DEF t, n
<1> DEFINE u == SubSeq(t, n + 1, n + 1)
<1>3. u \in Seq(T) /\ Len(u) = 1 /\ u[1] = t[n + 1]
  <2>1. \A i \in n + 1 .. n + 1 : t[i] \in T
    BY <1>1 DEF T
  <2>2. n + 1 \in Int /\ n + 1 <= n + 1 /\ (n + 1) - (n + 1) + 1 = 1 /\ (n + 1) + 1 - 1 = n + 1
    BY <1>1
  <2> HIDE DEF T
  <2> QED
    BY <1>1, <2>1, <2>2, SubSeqProperties
<1>4. u[1] = r
  BY <1>1, <1>3
<1> HIDE DEF u
<1>5. u = << r >>
  BY <1>3, <1>4
<1> QED
  BY <1>1, <1>5 DEF t, n, u

(* An inscription is registered, or its name is taken.                     *)
LEMMA IndexStep ==
  ASSUME IInv, IndexOne
  PROVE  /\ Registered' /\ Hashed' /\ Reading'
         /\ IsSeq(left') /\ IsSeq(rows')
         /\ \A i \in 1 .. Len(rows') : rows'[i].h \in 1 .. Height + 1
<1> DEFINE s == Append(sources, source)
<1> DEFINE p == <<Height + 1, Done + 1>>
<1> DEFINE row == RowIn(kind, s, p)
<1>0. /\ Height \in 0 .. MaxHeight /\ Len(sources) = Height /\ sources \in Seq(0 .. Forks)
      /\ kind \in Kinds /\ MaxHeight \in Nat /\ pc = "index" /\ source \in 0 .. Forks
      /\ Height + 1 \in 1 .. MaxHeight
  BY Shapes DEF IInv, Typed, Control, IndexOne
<1>1. /\ UNCHANGED <<kind, cumul, hashes, sources, source, pc>> /\ Height' = Height
      /\ left # << >> /\ left' = Tail(left)
      /\ rows' = Register(kind, rows, Head(left), Height + 1)
      /\ events' = events \o SubSeq(rows', Len(rows) + 1, Len(rows'))
  BY DEF IndexOne, Height
<1>2. PICK S : rows \in Seq(S)
  BY DEF IInv, Typed, IsSeq
<1>3. PICK L : left \in Seq(L)
  BY DEF IInv, Typed, IsSeq
<1>4. /\ Len(left) <= Len(Now)
      /\ \A i \in 1 .. Len(left) : left[i] = Now[Done + i]
      /\ events = Only(rows, {Height + 1})
      /\ Registers(kind, rows, s, Seen, Height + 1)
  BY <1>0 DEF IInv, Reading
<1>5. Len(Now) \in Nat /\ Len(left) \in Nat
  BY <1>0, <1>3, BlockType DEF Now
<1>6. /\ Len(left) > 0 /\ Head(left) = left[1] /\ Len(left') = Len(left) - 1
      /\ left' \in Seq(L)
      /\ \A i \in 1 .. Len(left') : left'[i] = left[i + 1]
  BY <1>1, <1>3
<1>7. Now' = Now /\ Done' = Done + 1 /\ Done \in Nat /\ Head(left) = Now[Done + 1]
  <2>1. Now' = Now
    BY <1>1 DEF Now
  <2>2. 1 \in 1 .. Len(left)
    BY <1>5, <1>6
  <2> QED
    BY <1>4, <1>5, <1>6, <2>1, <2>2 DEF Done
<1>8. row = RowOf(kind, Head(left), Height + 1)
  <2>1. s[Height + 1] = source
    BY <1>0
  <2> HIDE DEF s
  <2> QED
    BY <1>7, <2>1 DEF RowIn, Now
<1>9. rows' = IF row = None \/ Has(rows, row[1]) THEN rows ELSE rows \o row
  BY <1>1, <1>8 DEF Register
<1>10. \A i \in 1 .. Len(rows) : rows[i].h \in 1 .. Height + 1
  BY DEF IInv, RowHeights
<1>11. Registers(kind, rows', s, Seen', Height + 1)
  <2>1. Seen' = Seen \cup {p}
    <3>1. 1 .. Done + 1 = (1 .. Done) \cup {Done + 1}
      BY <1>7
    <3>2. {Height + 1} \X (1 .. Done + 1) = ({Height + 1} \X (1 .. Done)) \cup {p}
      BY <3>1
    <3> QED
      BY <1>1, <1>7, <3>2 DEF Seen
  <2>2. \A c \in Seen : Before(c, p) /\ ~ Before(p, c)
    <3> SUFFICES ASSUME NEW c \in Seen PROVE Before(c, p) /\ ~ Before(p, c)
      OBVIOUS
    <3>1. CASE c \in PlacesIn(kind, sources)
      <4>1. c[1] \in 1 .. Height
        BY <1>0, <3>1, PlaceHeight
      <4> QED
        BY <1>0, <4>1 DEF Before
    <3>2. CASE c \in {Height + 1} \X (1 .. Done)
      BY <1>0, <1>7, <3>2 DEF Before
    <3> QED
      BY <3>1, <3>2 DEF Seen
  <2> DEFINE n == Height + 1
  <2> DEFINE d == Done + 1
  <2>3. /\ n \in Nat /\ d \in Nat /\ \A i \in 1 .. Len(rows) : rows[i].h <= n
        /\ Registers(kind, rows, s, Seen, n) /\ p = <<n, d>>
    BY <1>0, <1>4, <1>7, <1>10
  <2> HIDE DEF n, d, s, p
  <2>4. Registers(kind, rows', s, Seen \cup {<<n, d>>}, n)
    BY <1>2, <1>9, <2>2, <2>3, RegistersNext
  <2> QED
    BY <2>1, <2>3, <2>4 DEF n
<1>12. \/ rows' = rows /\ events' = events
       \/ \E r : /\ rows' = rows \o << r >> /\ r.h = Height + 1
                 /\ events' = events \o << r >>
  <2>1. CASE row = None \/ Has(rows, row[1])
    <3>1. rows' = rows
      BY <1>9, <2>1
    <3>2. SubSeq(rows, Len(rows) + 1, Len(rows)) = << >>
      BY <1>2
    <3>3. \E T : events \in Seq(T)
      BY <1>2, <1>4, OnlyType
    <3> QED
      BY <1>1, <3>1, <3>2, <3>3, ConcatEmptySeq
  <2>2. CASE ~ (row = None \/ Has(rows, row[1]))
    <3>1. row[1].h = Height + 1 /\ row = << row[1] >>
      BY <1>8, <2>2, RowShape
    <3> DEFINE r == row[1]
    <3>2. rows' = rows \o << r >>
      BY <1>9, <2>2, <3>1
    <3> HIDE DEF r
    <3>3. SubSeq(rows \o << r >>, Len(rows) + 1, Len(rows \o << r >>)) = << r >>
      BY <1>2, LastOf
    <3> QED
      BY <1>1, <3>1, <3>2, <3>3 DEF r
  <2> QED
    BY <2>1, <2>2
<1>13. /\ Len(left') <= Len(Now')
       /\ \A i \in 1 .. Len(left') : left'[i] = Now'[Done' + i]
  <2>1. ASSUME NEW i \in 1 .. Len(left') PROVE left'[i] = Now'[Done' + i]
    <3>1. i + 1 \in 1 .. Len(left) /\ Done + (i + 1) = (Done + 1) + i
      BY <1>5, <1>6, <1>7
    <3> QED
      BY <1>4, <1>6, <1>7, <3>1
  <2> QED
    BY <1>4, <1>5, <1>6, <1>7, <2>1
<1>14. ASSUME Registered', Hashed', events' = Only(rows', {Height + 1})
       PROVE  Registered' /\ Hashed' /\ Reading' /\ IsSeq(left')
  <2>1. Reading'
    BY <1>0, <1>1, <1>11, <1>13, <1>14 DEF Reading
  <2> QED
    BY <1>6, <1>14, <2>1 DEF IsSeq
<1> HIDE DEF s, p, row
<1>15. CASE rows' = rows /\ events' = events
  <2>1. Registered' /\ Hashed'
    BY <1>1, <1>15 DEF IInv, Registered, Hashed
  <2>2. IsSeq(rows') /\ \A i \in 1 .. Len(rows') : rows'[i].h \in 1 .. Height + 1
    BY <1>2, <1>10, <1>15 DEF IsSeq
  <2>3. events' = Only(rows', {Height + 1})
    BY <1>4, <1>15
  <2> QED
    BY <1>14, <2>1, <2>2, <2>3
<1>16. CASE \E r : /\ rows' = rows \o << r >> /\ r.h = Height + 1
                  /\ events' = events \o << r >>
  <2>1. PICK r : /\ rows' = rows \o << r >> /\ r.h = Height + 1
                 /\ events' = events \o << r >>
    BY <1>16
  <2> DEFINE T == S \cup {r}
  <2>2. rows \in Seq(T) /\ r \in T /\ rows' = Append(rows, r)
    <3>1. rows \in Seq(T)
      BY <1>2, SeqMonotonic
    <3> HIDE DEF T
    <3> QED
      BY <2>1, <3>1, AppendIsConcat DEF T
  <2> HIDE DEF T
  <2>3. /\ rows' \in Seq(T) /\ Len(rows') = Len(rows) + 1 /\ rows'[Len(rows) + 1] = r
        /\ Len(rows) \in Nat /\ \A i \in 1 .. Len(rows) : rows'[i] = rows[i]
    BY <2>2
  <2>4. \A i \in 1 .. Len(rows') : rows'[i].h \in 1 .. Height + 1
    <3> SUFFICES ASSUME NEW i \in 1 .. Len(rows') PROVE rows'[i].h \in 1 .. Height + 1
      OBVIOUS
    <3>1. CASE i \in 1 .. Len(rows)
      BY <1>10, <2>3, <3>1
    <3>2. CASE i = Len(rows) + 1
      BY <1>0, <2>1, <2>3, <3>2
    <3> QED
      BY <2>3, <3>1, <3>2
  <2>5. events' = Only(rows', {Height + 1})
    <3>1. Only(rows', {Height + 1}) = Append(events, r)
      BY <1>4, <2>1, <2>2, OnlyAppend
    <3>2. events \in Seq(T)
      BY <1>4, <2>2, OnlyType
    <3> QED
      BY <2>1, <2>2, <3>1, <3>2, AppendIsConcat
  <2>6. Registered'
    <3>1. Registers(kind, rows, sources, PlacesIn(kind, sources), Height) /\ Height \in Nat
      BY <1>0 DEF IInv, Registered
    <3>2. ~ (r.h <= Height)
      BY <1>0, <2>1
    <3>3. Registers(kind, rows \o << r >>, sources, PlacesIn(kind, sources), Height)
      BY <1>2, <3>1, <3>2, RegistersLater
    <3> QED
      BY <1>1, <2>1, <3>3 DEF Registered
  <2>7. Hashed'
    <3>1. ASSUME NEW h \in 1 .. Height PROVE Chain(rows', h) = Chain(rows, h)
      <4>1. ASSUME NEW j \in 1 .. h PROVE Only(rows', {j}) = Only(rows, {j})
        <5>1. r.h \notin {j}
          BY <1>0, <2>1
        <5> QED
          BY <2>2, <5>1, OnlyAppend
      <4> QED
        BY <4>1 DEF Chain
    <3> QED
      BY <1>1, <3>1 DEF IInv, Hashed, Recorded
  <2> QED
    BY <1>14, <2>3, <2>4, <2>5, <2>6, <2>7 DEF IsSeq
<1> QED
  BY <1>12, <1>15, <1>16

(* Two descriptions of the cumulative hash of the last stored block.       *)
LEMMA ChainOfHeight ==
  ASSUME IInv, NEW h \in 0 .. Height
  PROVE  ChainAt(h) = Chain(rows, h)
<1>1. /\ \A c \in cumul : c.h \in 1 .. Height + 1
      /\ \A c, d \in cumul : c.h = d.h => c = d
      /\ \A m \in 1 .. Height : Recorded(cumul, rows, m)
  BY DEF IInv, Hashed
<1>2. Height \in Nat
  BY Shapes
<1>3. CASE h = 0
  <2>1. ~ \E c \in cumul : c.h = h
    BY <1>1, <1>2, <1>3
  <2>2. Chain(rows, h) = << >>
    BY <1>3 DEF Chain
  <2> QED
    BY <2>1, <2>2 DEF ChainAt
<1>4. CASE h # 0
  <2>1. PICK c \in cumul : c.h = h /\ c.chain = Chain(rows, h)
    BY <1>1, <1>2, <1>4 DEF Recorded
  <2>2. (CHOOSE d \in cumul : d.h = h) = c
    BY <1>1, <2>1
  <2> QED
    BY <2>1, <2>2 DEF ChainAt
<1> QED
  BY <1>3, <1>4

(* The cumulative hash goes on by the events of the block.                 *)
LEMMA EventHashStep ==
  ASSUME IInv, UpdateEventHashes
  PROVE  Registered' /\ Hashed' /\ Reading'
<1>1. UNCHANGED <<kind, ord, rows, hashes, sources, memory, crashes>> /\ pc = "index" /\ left = << >>
  BY DEF UpdateEventHashes
<1>2. CASE pc' = "residue" /\ cumul' = cumul
  BY <1>1, <1>2, QuietStep
<1>3. CASE /\ ~ \E c \in cumul : c.h = Height + 1
           /\ cumul' = cumul \cup {[h |-> Height + 1, chain |-> Append(ChainAt(Height), events)]}
           /\ pc' = "store"
  <2> DEFINE n == Height
  <2> DEFINE new == [h |-> n + 1, chain |-> Append(ChainAt(n), events)]
  <2>1. n \in Nat /\ Height' = n
    BY <1>1, Shapes DEF Height
  <2>2. /\ \A c \in cumul : c.h \in 1 .. n + 1
        /\ \A c, d \in cumul : c.h = d.h => c = d
        /\ \A m \in 1 .. n : Recorded(cumul, rows, m)
    BY DEF IInv, Hashed
  <2>3. cumul' = cumul \cup {new} /\ new.h = n + 1 /\ new.chain = Append(ChainAt(n), events)
    BY <1>3
  <2>4. ChainAt(n) = Chain(rows, n)
    BY <2>1, ChainOfHeight
  <2>5. events = Only(rows, {n + 1}) /\ Registers(kind, rows, Append(sources, source), Seen, n + 1)
        /\ Len(left) <= Len(Now)
        /\ \A i \in 1 .. Len(left) : left[i] = Now[Done + i]
    BY <1>1 DEF IInv, Reading
  <2>6. Append(Chain(rows, n), Only(rows, {n + 1})) = Chain(rows, n + 1)
    BY <2>1 DEF Chain
  <2> HIDE DEF n, new
  <2>7. new.chain = Chain(rows, n + 1)
    BY <2>3, <2>4, <2>5, <2>6
  <2>8. Recorded(cumul', rows, n + 1)
    BY <2>3, <2>7 DEF Recorded
  <2>9. Hashed'
    <3>1. \A c \in cumul' : c.h \in 1 .. n + 1
      BY <2>1, <2>2, <2>3
    <3>2. \A c, d \in cumul' : c.h = d.h => c = d
      BY <1>3, <2>2, <2>3 DEF n
    <3>3. \A m \in 1 .. n : Recorded(cumul', rows, m)
      BY <2>2, <2>3 DEF Recorded
    <3> QED
      BY <1>1, <2>1, <3>1, <3>2, <3>3 DEF Hashed
  <2>10. Registered'
    BY <1>1, <2>1 DEF IInv, Registered, n
  <2>11. UNCHANGED <<Now, Done, Seen>>
    BY <1>1, <2>1 DEF Now, Done, Seen, memory, n
  <2>12. Reading'
    BY <1>1, <1>3, <2>1, <2>5, <2>8, <2>11 DEF Reading, memory
  <2> QED
    BY <2>9, <2>10, <2>12
<1> QED
  BY <1>2, <1>3 DEF UpdateEventHashes, Goto

(* The block is stored: what was seen of it is all of it.                  *)
LEMMA StoreStep ==
  ASSUME IInv, StoreHash
  PROVE  /\ Registered' /\ Hashed' /\ Reading' /\ Height' = Height + 1
         /\ hashes' \in Seq(1 .. Forks) /\ sources' \in Seq(0 .. Forks) /\ Len(sources') = Height + 1
<1>0. /\ Height \in 0 .. MaxHeight /\ Len(sources) = Height /\ sources \in Seq(0 .. Forks)
      /\ Len(hashes) = Height /\ hashes \in Seq(1 .. Forks) /\ hash \in 1 .. Forks
      /\ kind \in Kinds /\ MaxHeight \in Nat /\ Height + 1 \in 1 .. MaxHeight /\ source \in 0 .. Forks
  BY Shapes DEF IInv, Typed, Control, StoreHash
<1>1. /\ pc = "store" /\ pc' = "residue" /\ UNCHANGED <<kind, rows, cumul>>
      /\ hashes' = Append(hashes, hash) /\ sources' = Append(sources, source)
  BY DEF StoreHash, Goto
<1>2. /\ hashes' \in Seq(1 .. Forks) /\ Len(hashes') = Height + 1
      /\ sources' \in Seq(0 .. Forks) /\ Len(sources') = Height + 1
      /\ sources'[Height + 1] = source /\ \A h \in 1 .. Height : sources'[h] = sources[h]
  BY <1>0, <1>1
<1>3. Height' = Height + 1
  BY <1>2 DEF Height
<1>4. /\ left = << >> /\ Recorded(cumul, rows, Height + 1)
      /\ Registers(kind, rows, sources', Seen, Height + 1)
  BY <1>1 DEF IInv, Reading
<1>5. Seen = PlacesIn(kind, sources')
  <2> DEFINE n == Height
  <2> DEFINE D(h) == 1 .. Len(Block(kind, h, sources[h]))
  <2> DEFINE E(h) == 1 .. Len(Block(kind, h, sources'[h]))
  <2>0. Len(sources) <= MaxHeight /\ Len(sources') <= MaxHeight
    BY <1>0, <1>2
  <2>1. IsSeq(Now) /\ Len(Now) \in Nat
    BY <1>0, BlockType DEF Now
  <2>2. 1 .. Done = E(n + 1)
    BY <1>2, <1>4, <2>1 DEF Done, Now
  <2>3. \A h \in 1 .. n : D(h) = E(h)
    BY <1>2
  <2>4. \A a : a \in PlacesIn(kind, sources) <=> \E h \in 1 .. n : \E i \in D(h) : a = <<h, i>>
    <3>1. \A a : a \in PlacesIn(kind, sources) <=>
            \E h \in 1 .. Len(sources) : \E i \in 1 .. Len(Block(kind, h, sources[h])) : a = <<h, i>>
      BY <2>0, <1>0, PlaceIs
    <3> QED
      BY ONLY <1>0, <3>1
  <2>5. \A a : a \in PlacesIn(kind, sources') <=> \E h \in 1 .. n + 1 : \E i \in E(h) : a = <<h, i>>
    <3>1. \A a : a \in PlacesIn(kind, sources') <=>
            \E h \in 1 .. Len(sources') : \E i \in 1 .. Len(Block(kind, h, sources'[h])) : a = <<h, i>>
      BY <2>0, <1>0, <1>2, PlaceIs
    <3> QED
      BY ONLY <1>2, <3>1
  <2>6. 1 .. n + 1 = (1 .. n) \cup {n + 1}
    BY <1>0
  <2>7. Seen = PlacesIn(kind, sources) \cup ({n + 1} \X E(n + 1))
    BY <2>2 DEF Seen
  <2>8. \A a : a \in {n + 1} \X E(n + 1) <=> \E i \in E(n + 1) : a = <<n + 1, i>>
    OBVIOUS
  <2> HIDE DEF n, D, E
  <2>9. \A a : a \in Seen <=> a \in PlacesIn(kind, sources')
    BY <2>3, <2>4, <2>5, <2>6, <2>7, <2>8
  <2> QED
    BY <2>7, <2>9 DEF PlacesIn
<1>6. Registered'
  BY <1>1, <1>3, <1>4, <1>5 DEF Registered
<1>7. Hashed'
  <2>1. /\ \A c \in cumul : c.h \in 1 .. Height + 1
        /\ \A c, d \in cumul : c.h = d.h => c = d
        /\ \A h \in 1 .. Height : Recorded(cumul, rows, h)
    BY DEF IInv, Hashed
  <2>2. \A c \in cumul : c.h \in 1 .. (Height + 1) + 1
    BY <1>0, <2>1
  <2>3. \A h \in 1 .. Height + 1 : Recorded(cumul, rows, h)
    BY <1>0, <1>4, <2>1
  <2> QED
    BY <1>1, <1>3, <2>1, <2>2, <2>3 DEF Hashed
<1>8. Reading'
  BY <1>1 DEF Reading
<1> QED
  BY <1>2, <1>3, <1>6, <1>7, <1>8

(* Steps that leave the tables and the chains alone, within a block or     *)
(* not.                                                                    *)
LEMMA StillStep ==
  ASSUME IInv, UNCHANGED <<kind, ord, tables, left, events, source>>,
         pc' \notin {"index", "store"} \/ pc' = pc,
         pc' \in {"down", "residue", "height", "hash", "tip", "walk", "read", "index", "store", "exit"},
         hash' \in 0 .. Forks, Control', RowHeights'
  PROVE  IInv'
<1>1. Registered' /\ Hashed' /\ Reading'
  BY QuietStep DEF tables
<1>2. Typed'
  BY DEF IInv, Typed, tables, ord, Height
<1> QED
  BY <1>1, <1>2 DEF IInv

LEMMA IndexerStep ==
  ASSUME IInv, Indexer
  PROVE  IInv'
<1>0. /\ Height \in 0 .. MaxHeight /\ MaxHeight \in Nat /\ Forks \in Nat \ {0}
      /\ Len(hashes) = Height /\ Len(sources) = Height /\ Len(best) \in Nat /\ Len(opi) \in Nat
      /\ hash \in 0 .. Forks /\ Typed /\ Control /\ RowHeights
  BY Shapes DEF IInv, Typed
<1>1. ASSUME ReorgFix(Height), UNCHANGED <<kind, ord, memory>>, pc' \in {"height", "residue"}
      PROVE  IInv'
  <2>1. Height \in 0 .. Height
    BY <1>0
  <2>2. /\ Registered' /\ Hashed' /\ Reading'
        /\ hashes' \in Seq(1 .. Forks) /\ sources' \in Seq(0 .. Forks)
        /\ Height' = Height /\ Len(sources') = Height
        /\ IsSeq(rows') /\ \A i \in 1 .. Len(rows') : rows'[i].h \in 1 .. Height
    BY <1>1, <2>1, FixStep
  <2>3. Typed' /\ Control'
    BY <1>0, <1>1, <2>2 DEF Typed, Control, ord, memory
  <2>4. RowHeights'
    BY <1>0, <2>2 DEF RowHeights
  <2> QED
    BY <2>2, <2>3, <2>4 DEF IInv
<1>2. CASE Start
  <2>1. UNCHANGED <<kind, ord, tables, memory>> /\ pc' = "residue" /\ Height' = Height
    BY <1>2 DEF Start, Goto, tables, Height
  <2>2. Control' /\ RowHeights'
    BY <1>0, <2>1 DEF Control, RowHeights, tables
  <2> QED
    BY <1>0, <2>1, <2>2, StillStep DEF memory
<1>3. CASE CheckResidue
  <2>1. UNCHANGED <<kind, ord, memory>> /\ pc' = "height"
    BY <1>3 DEF CheckResidue, Goto
  <2>2. CASE Residue
    BY <1>1, <1>3, <2>1, <2>2 DEF CheckResidue
  <2>3. CASE ~ Residue
    <3>1. UNCHANGED tables /\ Height' = Height
      BY <1>3, <2>3 DEF CheckResidue, tables, Height
    <3>2. DOMAIN rows = 1 .. Len(rows)
      BY <1>0 DEF Typed, IsSeq
    <3>3. \A i \in 1 .. Len(rows) : rows[i].h \in 1 .. Height + 1 /\ rows[i].h <= Height
      BY <1>0, <2>3, <3>2 DEF Residue, RowHeights
    <3>4. Control' /\ RowHeights'
      BY <2>1, <3>1, <3>3 DEF Control, RowHeights, tables
    <3> QED
      BY <1>0, <2>1, <3>1, <3>4, StillStep DEF memory
  <2> QED
    BY <2>2, <2>3
<1>4. CASE ReadHeight
  <2>1. /\ UNCHANGED <<kind, ord, tables, memory>> /\ pc' \in {"residue", "hash"} /\ Height' = Height
        /\ pc = "height"
    BY <1>4 DEF ReadHeight, Goto, tables, Height
  <2>2. Control' /\ RowHeights'
    BY <1>0, <2>1 DEF Control, RowHeights, tables
  <2> QED
    BY <1>0, <2>1, <2>2, StillStep DEF memory
<1>5. CASE ReadHash
  <2>1. CASE /\ Served(Height + 1) # NoBlock /\ hash' = Served(Height + 1) /\ pc' = "tip" /\ pc = "hash"
             /\ UNCHANGED <<kind, ord, tables, left, events, at, source>>
    <3>1. Height + 1 \in 1 .. Len(opi)
      BY <1>0, <2>1 DEF Served
    <3>2. opi[Height + 1] \in 1 .. Forks
      BY <1>0, <3>1, ElementOfSeq DEF Typed
    <3>3. hash' \in 1 .. Forks /\ Height < MaxHeight /\ Height' = Height
      BY <1>0, <2>1, <3>1, <3>2 DEF Served, Typed, tables, Height
    <3>4. Control' /\ RowHeights'
      BY <1>0, <2>1, <3>3 DEF Control, RowHeights, tables
    <3>5. hash' \in 0 .. Forks
      BY <1>0, <3>3
    <3> QED
      BY <2>1, <3>4, <3>5, StillStep
  <2>2. CASE pc' = "down" /\ UNCHANGED <<kind, ord, tables, memory>>
    <3>1. Height' = Height
      BY <2>2 DEF tables, Height
    <3>2. Control' /\ RowHeights'
      BY <1>0, <2>2, <3>1 DEF Control, RowHeights, tables
    <3> QED
      BY <1>0, <2>2, <3>2, StillStep DEF memory
  <2> QED
    BY <1>5, <2>1, <2>2 DEF ReadHash, Goto, Die
<1>6. CASE CheckTip
  <2>1. /\ UNCHANGED <<kind, ord, tables, hash, left, events, source>> /\ pc = "tip"
        /\ \/ pc' = "read" \/ pc' = "down"
           \/ pc' = "walk" /\ at' = Height
    BY <1>6 DEF CheckTip, Goto, Die, memory
  <2>2. Height' = Height
    BY <2>1 DEF tables, Height
  <2>3. Control' /\ RowHeights'
    BY <1>0, <2>1, <2>2 DEF Control, RowHeights, tables
  <2> QED
    BY <1>0, <2>1, <2>3, StillStep
<1>7. CASE WalkFound
  <2>1. /\ UNCHANGED <<kind, ord, memory>> /\ pc' = "residue" /\ ReorgFix(at) /\ at \in 0 .. Height
    BY <1>0, <1>7 DEF WalkFound, Goto, Control
  <2>2. /\ Registered' /\ Hashed' /\ Reading'
        /\ hashes' \in Seq(1 .. Forks) /\ sources' \in Seq(0 .. Forks)
        /\ Height' = at /\ Len(sources') = at
        /\ IsSeq(rows') /\ \A i \in 1 .. Len(rows') : rows'[i].h \in 1 .. at
    BY <2>1, FixStep
  <2>3. Typed' /\ Control'
    BY <1>0, <2>1, <2>2 DEF Typed, Control, ord, memory
  <2>4. RowHeights'
    BY <1>0, <2>1, <2>2 DEF RowHeights
  <2> QED
    BY <2>2, <2>3, <2>4 DEF IInv
<1>8. CASE WalkBack
  <2>1. /\ UNCHANGED <<kind, ord, tables, hash, left, events, source>> /\ pc = "walk" /\ at > 0
        /\ pc' = "down" \/ (pc' = pc /\ at' = at - 1)
    BY <1>8 DEF WalkBack, Die, memory
  <2>2. Height' = Height
    BY <2>1 DEF tables, Height
  <2>3. Control' /\ RowHeights'
    BY <1>0, <2>1, <2>2 DEF Control, RowHeights, tables
  <2> QED
    BY <1>0, <2>1, <2>3, StillStep
<1>9. CASE WalkEnds
  <2>1. UNCHANGED <<kind, ord, tables, memory>> /\ pc' = "exit" /\ Height' = Height
    BY <1>9 DEF WalkEnds, Goto, tables, Height
  <2>2. Control' /\ RowHeights'
    BY <1>0, <2>1 DEF Control, RowHeights, tables
  <2> QED
    BY <1>0, <2>1, <2>2, StillStep DEF memory
<1>10. CASE ReadInscriptions
  <2>1. /\ UNCHANGED <<kind, ord, tables, hash, at>> /\ pc = "read" /\ pc' = "index"
        /\ Height' = Height
    BY <1>10 DEF ReadInscriptions, Goto, tables, Height
  <2>2. /\ Registered' /\ Hashed' /\ Reading'
        /\ IsSeq(left') /\ source' \in 0 .. Forks
    BY <1>10, ReadStep
  <2>3. Typed' /\ Control' /\ RowHeights'
    BY <1>0, <2>1, <2>2 DEF Typed, Control, RowHeights, ord, tables
  <2> QED
    BY <2>2, <2>3 DEF IInv
<1>11. CASE IndexOne
  <2>1. /\ UNCHANGED <<kind, ord, cumul, hashes, sources, pc, hash, at, source>> /\ pc = "index"
        /\ Height' = Height
    BY <1>11 DEF IndexOne, Height
  <2>2. /\ Registered' /\ Hashed' /\ Reading'
        /\ IsSeq(left') /\ IsSeq(rows')
        /\ \A i \in 1 .. Len(rows') : rows'[i].h \in 1 .. Height + 1
    BY <1>11, IndexStep
  <2>3. Typed' /\ Control' /\ RowHeights'
    BY <1>0, <2>1, <2>2 DEF Typed, Control, RowHeights, ord
  <2> QED
    BY <2>2, <2>3 DEF IInv
<1>12. CASE UpdateEventHashes
  <2>1. /\ UNCHANGED <<kind, ord, rows, hashes, sources, memory>> /\ pc' \in {"store", "residue"}
        /\ Height' = Height /\ pc = "index"
    BY <1>12 DEF UpdateEventHashes, Goto, Height
  <2>2. Typed' /\ Control' /\ RowHeights'
    BY <1>0, <2>1 DEF Typed, Control, RowHeights, ord, memory
  <2> QED
    BY <1>12, <2>2, EventHashStep DEF IInv
<1>13. CASE StoreHash
  <2>1. /\ UNCHANGED <<kind, ord, rows, memory>> /\ pc = "store" /\ pc' = "residue"
    BY <1>13 DEF StoreHash, Goto
  <2>2. /\ Registered' /\ Hashed' /\ Reading' /\ Height' = Height + 1
        /\ hashes' \in Seq(1 .. Forks) /\ sources' \in Seq(0 .. Forks) /\ Len(sources') = Height + 1
    BY <1>13, StoreStep
  <2>3. Typed' /\ Control'
    BY <1>0, <2>1, <2>2 DEF Typed, Control, ord, memory
  <2>4. RowHeights'
    BY <1>0, <2>1, <2>2 DEF RowHeights
  <2> QED
    BY <2>2, <2>3, <2>4 DEF IInv
<1> QED
  BY <1>2, <1>3, <1>4, <1>5, <1>6, <1>7, <1>8, <1>9, <1>10, <1>11, <1>12, <1>13 DEF Indexer

(* Bitcoin and OPI-ord change nothing that the indexer has.                *)
LEMMA EnvironmentStep ==
  ASSUME IInv, Environment
  PROVE  IInv'
<1>0. /\ Typed /\ Control /\ RowHeights /\ MaxHeight \in Nat /\ Forks \in Nat \ {0}
      /\ Len(best) \in Nat /\ Len(opi) \in Nat
      /\ best \in Seq(1 .. Forks) /\ opi \in Seq(1 .. Forks) /\ fork \in 1 .. Forks
      /\ Len(opi) <= Len(best) /\ Len(best) <= MaxHeight
  BY Shapes DEF IInv, Typed
<1>1. ASSUME UNCHANGED <<kind, tables, pc, memory>>,
             fork' \in 1 .. Forks, best' \in Seq(1 .. Forks), opi' \in Seq(1 .. Forks),
             Len(opi') <= Len(best'), Len(best') <= MaxHeight
      PROVE  IInv'
  <2>1. Registered' /\ Hashed' /\ Reading'
    BY <1>1, QuietStep DEF tables, memory
  <2>2. Typed' /\ Control' /\ RowHeights'
    BY <1>0, <1>1 DEF Typed, Control, RowHeights, tables, memory, Height
  <2> QED
    BY <2>1, <2>2 DEF IInv
<1>2. CASE Mine
  <2>1. /\ best' = Append(best, fork) /\ Len(best) < MaxHeight
        /\ UNCHANGED <<kind, fork, opi, tables, pc, memory>>
    BY <1>2 DEF Mine
  <2>2. best' \in Seq(1 .. Forks) /\ Len(best') = Len(best) + 1
    BY <1>0, <2>1
  <2> QED
    BY <1>0, <1>1, <2>1, <2>2
<1>3. ASSUME NEW k \in 0 .. Len(best) - 1, Reorg(k)
      PROVE  IInv'
  <2>1. /\ fork < Forks /\ Len(best) < MaxHeight /\ fork' = fork + 1
        /\ best' = [h \in 1 .. Len(best) + 1 |-> IF h <= k THEN best[h] ELSE fork']
        /\ UNCHANGED <<kind, opi, tables, pc, memory>>
    BY <1>3 DEF Reorg
  <2>2. fork' \in 1 .. Forks
    BY <1>0, <2>1
  <2>3. best' \in Seq(1 .. Forks) /\ Len(best') = Len(best) + 1
    <3> DEFINE n == Len(best) + 1
    <3>1. n \in Nat
      BY <1>0
    <3>2. \A h \in 1 .. n : (IF h <= k THEN best[h] ELSE fork') \in 1 .. Forks
      <4> SUFFICES ASSUME NEW h \in 1 .. n, h <= k PROVE best[h] \in 1 .. Forks
        BY <2>2
      <4>1. h \in 1 .. Len(best)
        BY <1>0
      <4> QED
        BY <1>0, <4>1, ElementOfSeq
    <3> HIDE DEF n
    <3>3. best' = [h \in 1 .. n |-> IF h <= k THEN best[h] ELSE fork']
      BY <2>1 DEF n
    <3>4. best' \in Seq(1 .. Forks) /\ Len(best') = n
      BY <3>1, <3>2, <3>3
    <3> QED
      BY <3>4 DEF n
  <2> QED
    BY <1>0, <1>1, <2>1, <2>2, <2>3
<1>4. CASE OrdAdvance
  <2>1. /\ Len(opi) < Len(best) /\ opi' = Append(opi, best[Len(opi) + 1])
        /\ UNCHANGED <<kind, best, fork, tables, pc, memory>>
    BY <1>4 DEF OrdAdvance
  <2>2. best[Len(opi) + 1] \in 1 .. Forks
    <3>1. Len(opi) + 1 \in 1 .. Len(best)
      BY <1>0, <2>1
    <3> QED
      BY <1>0, <3>1, ElementOfSeq
  <2>3. opi' \in Seq(1 .. Forks) /\ Len(opi') = Len(opi) + 1
    BY <1>0, <2>1, <2>2
  <2> QED
    BY <1>0, <1>1, <2>1, <2>3
<1>5. ASSUME NEW k \in 0 .. Len(opi) - 1, OrdRestore(k)
      PROVE  IInv'
  <2>1. /\ opi' = Prefix(opi, k) /\ UNCHANGED <<kind, best, fork, tables, pc, memory>>
    BY <1>5 DEF OrdRestore
  <2>2. k \in 0 .. Len(opi)
    BY <1>0
  <2>3. opi' \in Seq(1 .. Forks) /\ Len(opi') = k
    BY <1>0, <2>1, <2>2, PrefixOf
  <2> QED
    BY <1>0, <1>1, <2>1, <2>2, <2>3
<1> QED
  BY <1>2, <1>3, <1>4, <1>5 DEF Environment

-----------------------------------------------------------------------------
(* The invariant, and what follows from it                                 *)

LEMMA InvInit == Init => IInv
<1> SUFFICES ASSUME Init PROVE IInv
  OBVIOUS
<1>0. MaxHeight \in Nat /\ Forks \in Nat \ {0} /\ 1 \in 1 .. Forks /\ 0 \in 0 .. Forks
  BY RegistryAssumption
<1>1. \A S : << >> \in Seq(S)
  BY EmptySeq
<1>2. Height = 0 /\ Len(<< >>) = 0
  BY DEF Init, Height
<1>3. IsSeq(<< >>)
  BY <1>1 DEF IsSeq
<1>4. Typed
  BY <1>0, <1>1, <1>2, <1>3 DEF Init, Typed, NoBlock
<1>5. Control /\ RowHeights /\ Reading
  BY <1>2 DEF Init, Control, RowHeights, Reading
<1>6. PlacesIn(kind, sources) = {}
  BY <1>2 DEF Init, PlacesIn
<1>7. Registered
  BY <1>2, <1>6 DEF Init, Registered, Registers
<1>8. Hashed
  BY <1>2 DEF Init, Hashed
<1> QED
  BY <1>4, <1>5, <1>7, <1>8 DEF IInv

LEMMA InvStep == IInv /\ [Next]_vars => IInv'
<1> SUFFICES ASSUME IInv, [Next]_vars PROVE IInv'
  OBVIOUS
<1>0. Control /\ RowHeights /\ hash \in 0 .. Forks /\ Typed
  BY DEF IInv, Typed
<1>1. CASE Indexer
  BY <1>1, IndexerStep
<1>2. CASE Environment
  BY <1>2, EnvironmentStep
<1>3. CASE Crash
  <2>1. UNCHANGED <<kind, ord, tables, memory>> /\ pc' = "down" /\ Height' = Height
    BY <1>3 DEF Crash, Die, tables, Height
  <2>2. Control' /\ RowHeights'
    BY <1>0, <2>1 DEF Control, RowHeights, tables
  <2> QED
    BY <1>0, <2>1, <2>2, StillStep DEF memory
<1>4. CASE UNCHANGED vars
  <2>1. UNCHANGED <<kind, ord, tables, memory, pc>> /\ Height' = Height
    BY <1>4 DEF vars, tables, Height
  <2>2. Control' /\ RowHeights'
    BY <1>0, <2>1 DEF Control, RowHeights, tables, memory
  <2>3. pc' \in {"down", "residue", "height", "hash", "tip", "walk", "read", "index", "store", "exit"}
    BY <1>0, <2>1 DEF Typed
  <2> QED
    BY <1>0, <2>1, <2>2, <2>3, StillStep DEF memory
<1> QED
  BY <1>1, <1>2, <1>3, <1>4 DEF Next

(* The invariant holds throughout: reorgs, crashes, blocks read in two     *)
(* calls with a reorg of OPI-ord in between, rows of a block that was not  *)
(* stored.                                                                 *)
THEOREM Invariance == Spec => []IInv
<1>1. IInv /\ [Next]_vars => IInv'
  BY InvStep
<1> QED
  BY InvInit, <1>1, PTL DEF Spec

(* First come, first served: at every moment the registers of the stored   *)
(* blocks (bitmaps, sns_names, sns_namespaces) hold, for each name, the    *)
(* first inscription that asks for it and no other.                        *)
THEOREM FirstCome == Spec => []FirstIsFirst
<1>1. IInv => FirstIsFirst
  <2> SUFFICES ASSUME IInv PROVE FirstIsFirst
    OBVIOUS
  <2>1. Len(sources) = Height
    BY Shapes
  <2>2. Places = PlacesIn(kind, sources)
    BY <2>1 DEF Places, PlacesIn, Read1, Read, Block
  <2> DEFINE P == PlacesIn(kind, sources)
  <2> DEFINE R(b) == RowIn(kind, sources, b)
  <2>3. \A b : RowAt(b) = R(b)
    BY DEF RowAt, RowIn, Read1, Read, Block
  <2>4. DOMAIN rows = 1 .. Len(rows)
    BY DEF IInv, Typed, IsSeq
  <2>5. /\ \A i \in 1 .. Len(rows) : rows[i].h <= Height =>
             \E b \in P : FirstIn(kind, sources, P, b) /\ R(b)[1] = rows[i]
        /\ \A b \in P : FirstIn(kind, sources, P, b) => \E i \in 1 .. Len(rows) : rows[i] = R(b)[1]
    BY DEF IInv, Registered, Registers
  <2>6. \A b \in P : FirstIn(kind, sources, P, b) => R(b)[1].h <= Height
    <3> SUFFICES ASSUME NEW b \in P, FirstIn(kind, sources, P, b) PROVE R(b)[1].h <= Height
      OBVIOUS
    <3>1. b[1] \in 1 .. Height
      BY <2>1, Shapes, PlaceHeight DEF IInv, Typed
    <3>2. R(b)[1].h = b[1]
      BY RowShape DEF FirstIn, RowIn
    <3> QED
      BY <3>1, <3>2, Shapes
  <2> HIDE DEF P, R
  <2>7. \A b : FirstIn(kind, sources, P, b) <=>
          RowAt(b) # None /\ \A c \in P : Before(c, b) => RowAt(c) = None \/ ~ Same(c, b)
    BY <2>3 DEF FirstIn, Same, Matching, R
  <2>8. FirstIsFirst <=>
          {rows[i] : i \in {j \in 1 .. Len(rows) : rows[j].h <= Height}}
          = {R(a)[1] : a \in {b \in P : FirstIn(kind, sources, P, b)}}
    BY <2>2, <2>3, <2>4, <2>7 DEF FirstIsFirst, P
  <2> QED
    BY <2>5, <2>6, <2>8
<1> QED
  BY Invariance, <1>1, PTL

(* What is reported of a stored block, its cumulative hash, is that of the *)
(* rows of the registers up to it, after any reorg and crash, and no table *)
(* is ever more than a block ahead of the stored hashes.                   *)
THEOREM HashesMatch == Spec => []HashesNameRows
<1>1. IInv => HashesNameRows
  <2> SUFFICES ASSUME IInv PROVE HashesNameRows
    OBVIOUS
  <2>1. Height \in Nat /\ DOMAIN rows = 1 .. Len(rows)
    BY Shapes DEF IInv, Typed, IsSeq
  <2>2. ASSUME NEW h \in 1 .. Height
        PROVE  (\E c \in cumul : c.h = h) /\ ChainAt(h) = [j \in 1 .. h |-> Only(rows, {j})]
    <3>1. Recorded(cumul, rows, h)
      BY DEF IInv, Hashed
    <3>2. h \in 0 .. Height
      BY <2>1
    <3> QED
      BY <3>1, <3>2, ChainOfHeight DEF Recorded, Chain
  <2>3. \A c \in cumul : c.h <= Height + 1
    BY <2>1 DEF IInv, Hashed
  <2>4. \A i \in DOMAIN rows : rows[i].h <= Height + 1
    BY <2>1 DEF IInv, RowHeights
  <2> QED
    BY <2>2, <2>3, <2>4 DEF HashesNameRows
<1> QED
  BY Invariance, <1>1, PTL
=============================================================================
