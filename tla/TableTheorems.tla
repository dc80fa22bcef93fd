---------------------------- MODULE TableTheorems ----------------------------
(***************************************************************************)
(* Facts about two recursive functions over what Postgres holds.           *)
(*                                                                         *)
(* SumFunctionOnSet of the community module Functions: the ledger          *)
(* invariants of the BRC-20 indexer compare a ticker's supply with the sum *)
(* of its balances over all pkscripts, and the proofs need to know what a  *)
(* sum becomes when one balance changes.  It is defined over the subsets   *)
(* of its index set and removes one CHOOSEn element at a time.  The lemmas *)
(* first show that such a function exists and is unique, then that the     *)
(* order in which the elements are removed does not matter.                *)
(*                                                                         *)
(* Only of Rows, which finds the rows of some heights: what it finds after *)
(* a row is inserted, and among rows that were found before.               *)
(***************************************************************************)
EXTENDS Rows, FiniteSets, Functions, FiniteSetTheorems, SequenceTheorems, TLAPS

(* The element that the fold removes from s.                               *)
Pick(s) == CHOOSE x \in s : TRUE

(* One unfolding of the fold at s, when g holds the sums of smaller sets.  *)
Step(g, f, s) == IF s = {} THEN 0 ELSE f[Pick(s)] + g[s \ {Pick(s)}]

(* g holds the sum of f over every set in D.                               *)
SumsUpTo(g, f, D) == g = [s \in D |-> Step(g, f, s)]

(* g holds the sum of f over every subset of S: the fold's function.       *)
SumsWithin(g, f, S) == SumsUpTo(g, f, SUBSET S)

(* The subsets of S with at most n elements.                               *)
Below(S, n) == {s \in SUBSET S : Cardinality(s) <= n}

-----------------------------------------------------------------------------
(* The element removed from a non-empty set of pkscripts is one of them.   *)
LEMMA PickIn == ASSUME NEW s, s # {} PROVE Pick(s) \in s
  BY DEF Pick

(* A non-empty set of sizes has a least one: the smallest set of pkscripts *)
(* for which a claim about sums could fail.                                *)
LEMMA MinNat ==
  ASSUME NEW B \in SUBSET Nat, B # {}
  PROVE  \E m \in B : \A k \in B : m <= k
<1> DEFINE R == {ss \in Nat \X Nat : ss[1] < ss[2]}
<1>1. IsWellFoundedOn(R, Nat)
  BY NatLessThanWellFounded DEF OpToRel
<1> HIDE DEF R
<1>2. PICK m \in B : \A k \in B : ~ (<<k, m>> \in R)
  BY <1>1, WFMin
<1>3. m \in Nat /\ \A k \in B : k \in Nat /\ (k < m => <<k, m>> \in R)
  BY DEF R
<1>4. ASSUME NEW k \in B PROVE m <= k
  <2>1. m \in Nat /\ k \in Nat /\ ~ (k < m)
    BY <1>2, <1>3
  <2> QED BY <2>1
<1> QED BY <1>4

(* A non-empty family of subsets of a finite set of pkscripts has a        *)
(* minimal member.                                                         *)
LEMMA MinSet ==
  ASSUME NEW S, IsFiniteSet(S), NEW B \in SUBSET SUBSET S, B # {}
  PROVE  \E s \in B : \A t \in B : t \subseteq s => t = s
<1>1. IsWellFoundedOn(StrictSubsetOrdering(S), SUBSET S)
  BY FS_StrictSubsetOrderingWellFounded, FS_FiniteSubsetsOfFinite
<1>2. PICK s \in B : \A t \in B : ~ (<<t, s>> \in StrictSubsetOrdering(S))
  BY <1>1, WFMin
<1> QED BY <1>2 DEF StrictSubsetOrdering

-----------------------------------------------------------------------------
(* The recursive function behind the sum over a finite set of pkscripts    *)
(* exists, by induction on the size of the sets it is defined on.          *)
LEMMA SumsExist ==
  ASSUME NEW f, NEW S, IsFiniteSet(S)
  PROVE  \E g : SumsUpTo(g, f, SUBSET S)
<1> DEFINE Bad == {n \in Nat : ~ \E g : SumsUpTo(g, f, Below(S, n))}
<1>1. ASSUME NEW s \in SUBSET S, s # {}
      PROVE  /\ IsFiniteSet(s) /\ Cardinality(s) \in Nat
             /\ s \ {Pick(s)} \in SUBSET S
             /\ Cardinality(s \ {Pick(s)}) = Cardinality(s) - 1
  BY <1>1, PickIn, FS_Subset, FS_RemoveElement, FS_CardinalityType
<1>2. 0 \notin Bad
  <2> DEFINE g0 == [s \in Below(S, 0) |-> 0]
  <2>1. \A s \in Below(S, 0) : s = {}
    BY FS_EmptySet, FS_Subset, FS_CardinalityType DEF Below
  <2>2. SumsUpTo(g0, f, Below(S, 0))
    BY <2>1 DEF SumsUpTo, Step
  <2> QED BY <2>2
<1>3. ASSUME NEW n \in Nat, n + 1 \in Bad PROVE n \in Bad
  <2> SUFFICES ASSUME NEW g, SumsUpTo(g, f, Below(S, n)) PROVE FALSE
    OBVIOUS
  <2> DEFINE h == [s \in Below(S, n + 1) |-> Step(g, f, s)]
  <2>1. \A t \in Below(S, n) : t \in Below(S, n + 1) /\ h[t] = g[t]
    <3> SUFFICES ASSUME NEW t \in Below(S, n)
                 PROVE  t \in Below(S, n + 1) /\ h[t] = g[t]
      OBVIOUS
    <3>1. t \in Below(S, n + 1)
      <4>1. Cardinality(t) \in Nat
        BY FS_Subset, FS_CardinalityType DEF Below
      <4> QED BY <4>1 DEF Below
    <3>2. h[t] = Step(g, f, t)
      BY <3>1
    <3>3. g[t] = Step(g, f, t)
      BY DEF SumsUpTo
    <3> QED BY <3>1, <3>2, <3>3
  <2>2. \A s \in Below(S, n + 1) : Step(h, f, s) = Step(g, f, s)
    <3> SUFFICES ASSUME NEW s \in Below(S, n + 1)
                 PROVE  Step(h, f, s) = Step(g, f, s)
      OBVIOUS
    <3>2. CASE s = {}
      BY <3>2 DEF Step
    <3>3. CASE s # {}
      <4>5. h[s \ {Pick(s)}] = g[s \ {Pick(s)}]
        <5>1. s \in SUBSET S /\ Cardinality(s) <= n + 1
          BY DEF Below
        <5>2. Cardinality(s) \in Nat /\ Cardinality(s \ {Pick(s)}) = Cardinality(s) - 1
              /\ s \ {Pick(s)} \in SUBSET S
          BY <1>1, <3>3, <5>1
        <5>3. Cardinality(s \ {Pick(s)}) <= n
          BY <5>1, <5>2
        <5>4. s \ {Pick(s)} \in Below(S, n)
          BY <5>2, <5>3 DEF Below
        <5> QED BY <2>1, <5>4
      <4> QED BY <3>3, <4>5 DEF Step
    <3> QED BY <3>2, <3>3
  <2>3. SumsUpTo(h, f, Below(S, n + 1))
    BY <2>2 DEF SumsUpTo
  <2> QED BY <2>3, <1>3
<1>4. Bad = {}
  <2> SUFFICES ASSUME Bad # {} PROVE FALSE
    OBVIOUS
  <2>1. PICK m \in Bad : \A k \in Bad : m <= k
    <3>1. Bad \in SUBSET Nat
      OBVIOUS
    <3> HIDE DEF Bad
    <3> QED BY <3>1, MinNat
  <2>2. m # 0 /\ m \in Nat /\ m - 1 \in Nat /\ m = (m - 1) + 1
    BY <1>2
  <2>3. m - 1 \in Bad
    BY <1>3, <2>2
  <2> QED BY <2>1, <2>2, <2>3
<1>5. Below(S, Cardinality(S)) = SUBSET S
  BY FS_Subset DEF Below
<1>6. Cardinality(S) \in Nat
  BY FS_CardinalityType
<1> QED BY <1>4, <1>5, <1>6

(* The sums that the fold computes for the subsets of S.                   *)
Sums(f, S) == CHOOSE g : SumsWithin(g, f, S)

(* A balance sheet's total is the value at S of the sums over its subsets. *)
LEMMA SumIsSums ==
  ASSUME NEW f, NEW S
  PROVE  SumFunctionOnSet(f, S) = Sums(f, S)[S]
  BY DEF SumFunctionOnSet, FoldFunctionOnSet, MapThenFoldSet, Sums, SumsWithin, SumsUpTo, Step, Pick

(* The fold over a finite set satisfies its recursive equation.            *)
LEMMA SumsAreSums ==
  ASSUME NEW f, NEW S, IsFiniteSet(S)
  PROVE  SumsWithin(Sums(f, S), f, S)
  BY SumsExist DEF Sums, SumsWithin

(* The sums over the subsets of T do not depend on the larger set they are *)
(* computed within.                                                        *)
LEMMA SumsAgree ==
  ASSUME NEW f, NEW S, IsFiniteSet(S), NEW T, T \subseteq S,
         NEW g, SumsWithin(g, f, S), NEW h, SumsWithin(h, f, T)
  PROVE  g[T] = h[T]
<1> DEFINE B == {s \in SUBSET T : g[s] # h[s]}
<1> SUFFICES ASSUME B # {} PROVE FALSE
  OBVIOUS
<1>0. B \in SUBSET SUBSET S
  OBVIOUS
<1>1. PICK s \in B : \A t \in B : t \subseteq s => t = s
  <2> HIDE DEF B
  <2> QED BY <1>0, MinSet
<1>2. g[s] = Step(g, f, s) /\ h[s] = Step(h, f, s)
  BY DEF SumsWithin, SumsUpTo
<1>3. CASE s = {}
  BY <1>2, <1>3 DEF Step
<1>4. CASE s # {}
  <2>1. Pick(s) \in s
    BY <1>4, PickIn
  <2>2. s \ {Pick(s)} \notin B /\ s \ {Pick(s)} \in SUBSET T
    BY <2>1, <1>1
  <2>3. g[s \ {Pick(s)}] = h[s \ {Pick(s)}]
    BY <2>2
  <2> QED BY <1>2, <1>4, <2>3 DEF Step
<1> QED BY <1>3, <1>4

-----------------------------------------------------------------------------
(* A ticker nobody holds has a total of zero.                              *)
LEMMA SumEmpty ==
  ASSUME NEW f
  PROVE  SumFunctionOnSet(f, {}) = 0
<1>1. IsFiniteSet({})
  BY FS_EmptySet
<1>2. SumsWithin(Sums(f, {}), f, {})
  BY <1>1, SumsAreSums
<1>3. Sums(f, {})[{}] = Step(Sums(f, {}), f, {})
  BY <1>2 DEF SumsWithin, SumsUpTo
<1> QED BY <1>3, SumIsSums DEF Step

(* One unfolding of a total, at the element the fold happens to choose.    *)
LEMMA SumPick ==
  ASSUME NEW f, NEW S, IsFiniteSet(S), S # {}
  PROVE  SumFunctionOnSet(f, S) = f[Pick(S)] + SumFunctionOnSet(f, S \ {Pick(S)})
<1> DEFINE T == S \ {Pick(S)}
<1>1. IsFiniteSet(T) /\ T \subseteq S
  BY FS_Subset
<1>2. SumsWithin(Sums(f, S), f, S) /\ SumsWithin(Sums(f, T), f, T)
  BY <1>1, SumsAreSums
<1>3. Sums(f, S)[S] = Step(Sums(f, S), f, S)
  BY <1>2 DEF SumsWithin, SumsUpTo
<1>4. Sums(f, S)[T] = Sums(f, T)[T]
  <2> HIDE DEF T
  <2>1. ASSUME NEW g, g = Sums(f, S), NEW h, h = Sums(f, T) PROVE g[T] = h[T]
    <3>1. SumsWithin(g, f, S) /\ SumsWithin(h, f, T)
      BY <1>2, <2>1
    <3> QED BY <1>1, <3>1, SumsAgree
  <2> QED BY <2>1
<1> QED BY <1>3, <1>4, SumIsSums DEF Step

(* A total of natural numbers is a natural number.                         *)
LEMMA SumNat ==
  ASSUME NEW f, NEW S, IsFiniteSet(S), \A x \in S : f[x] \in Nat
  PROVE  SumFunctionOnSet(f, S) \in Nat
<1> DEFINE B == {s \in SUBSET S : SumFunctionOnSet(f, s) \notin Nat}
<1> SUFFICES ASSUME B # {} PROVE FALSE
  OBVIOUS
<1>1. PICK s \in B : \A t \in B : t \subseteq s => t = s
  <2>1. B \in SUBSET SUBSET S
    OBVIOUS
  <2> HIDE DEF B
  <2> QED BY <2>1, MinSet
<1>2. s # {}
  BY SumEmpty
<1>3. Pick(s) \in s /\ IsFiniteSet(s)
  BY <1>2, PickIn, FS_Subset
<1>4. s \ {Pick(s)} \notin B /\ s \ {Pick(s)} \in SUBSET S
  BY <1>1, <1>3
<1>5. SumFunctionOnSet(f, s) = f[Pick(s)] + SumFunctionOnSet(f, s \ {Pick(s)})
  BY <1>2, <1>3, SumPick
<1> QED BY <1>3, <1>4, <1>5

(* Balances that are the same for every pkscript have the same total.      *)
LEMMA SumSame ==
  ASSUME NEW f, NEW g, NEW S, IsFiniteSet(S), \A x \in S : f[x] = g[x]
  PROVE  SumFunctionOnSet(f, S) = SumFunctionOnSet(g, S)
<1> DEFINE B == {s \in SUBSET S : SumFunctionOnSet(f, s) # SumFunctionOnSet(g, s)}
<1> SUFFICES ASSUME B # {} PROVE FALSE
  OBVIOUS
<1>1. PICK s \in B : \A t \in B : t \subseteq s => t = s
  <2>1. B \in SUBSET SUBSET S
    OBVIOUS
  <2> HIDE DEF B
  <2> QED BY <2>1, MinSet
<1>2. s # {}
  BY SumEmpty
<1>3. Pick(s) \in s /\ IsFiniteSet(s)
  BY <1>2, PickIn, FS_Subset
<1>4. s \ {Pick(s)} \notin B /\ s \ {Pick(s)} \in SUBSET S
  BY <1>1, <1>3
<1>5. /\ SumFunctionOnSet(f, s) = f[Pick(s)] + SumFunctionOnSet(f, s \ {Pick(s)})
      /\ SumFunctionOnSet(g, s) = g[Pick(s)] + SumFunctionOnSet(g, s \ {Pick(s)})
  BY <1>2, <1>3, SumPick
<1> QED BY <1>3, <1>4, <1>5

(* A table of zeros adds up to zero.                                       *)
LEMMA SumZero ==
  ASSUME NEW f, NEW S, IsFiniteSet(S), \A x \in S : f[x] = 0
  PROVE  SumFunctionOnSet(f, S) = 0
<1> DEFINE B == {s \in SUBSET S : SumFunctionOnSet(f, s) # 0}
<1> SUFFICES ASSUME B # {} PROVE FALSE
  OBVIOUS
<1>1. PICK s \in B : \A t \in B : t \subseteq s => t = s
  <2>1. B \in SUBSET SUBSET S
    OBVIOUS
  <2> HIDE DEF B
  <2> QED BY <2>1, MinSet
<1>2. s # {}
  BY SumEmpty
<1>3. Pick(s) \in s /\ IsFiniteSet(s)
  BY <1>2, PickIn, FS_Subset
<1>4. s \ {Pick(s)} \notin B /\ s \ {Pick(s)} \in SUBSET S
  BY <1>1, <1>3
<1>5. SumFunctionOnSet(f, s) = f[Pick(s)] + SumFunctionOnSet(f, s \ {Pick(s)})
  BY <1>2, <1>3, SumPick
<1> QED BY <1>1, <1>3, <1>4, <1>5

(* A total may be split at any pkscript: the order of the fold does not    *)
(* matter.                                                                 *)
LEMMA SumSplit ==
  ASSUME NEW f, NEW S, IsFiniteSet(S), \A x \in S : f[x] \in Nat, NEW a0 \in S
  PROVE  SumFunctionOnSet(f, S) = f[a0] + SumFunctionOnSet(f, S \ {a0})
<1> DEFINE B == {s \in SUBSET S : \E a \in s :
                  SumFunctionOnSet(f, s) # f[a] + SumFunctionOnSet(f, s \ {a})}
<1> SUFFICES ASSUME B # {} PROVE FALSE
  OBVIOUS
<1>1. PICK s \in B : \A t \in B : t \subseteq s => t = s
  <2>1. B \in SUBSET SUBSET S
    OBVIOUS
  <2> HIDE DEF B
  <2> QED BY <2>1, MinSet
<1>2. PICK a \in s : SumFunctionOnSet(f, s) # f[a] + SumFunctionOnSet(f, s \ {a})
  OBVIOUS
<1> DEFINE p == Pick(s)
<1>3. p \in s /\ IsFiniteSet(s) /\ s # {} /\ s \in SUBSET S
  BY PickIn, FS_Subset
<1>4. SumFunctionOnSet(f, s) = f[p] + SumFunctionOnSet(f, s \ {p})
  BY <1>3, SumPick
<1>5. p # a
  BY <1>2, <1>4
<1> HIDE DEF p
<1>6. /\ s \ {p} \notin B /\ s \ {p} \in SUBSET S /\ a \in s \ {p}
      /\ s \ {a} \notin B /\ s \ {a} \in SUBSET S /\ p \in s \ {a}
  BY <1>1, <1>3, <1>5
<1>7. /\ SumFunctionOnSet(f, s \ {p}) = f[a] + SumFunctionOnSet(f, (s \ {p}) \ {a})
      /\ SumFunctionOnSet(f, s \ {a}) = f[p] + SumFunctionOnSet(f, (s \ {a}) \ {p})
  BY <1>6
<1>8. (s \ {p}) \ {a} = (s \ {a}) \ {p}
  OBVIOUS
<1>9. SumFunctionOnSet(f, (s \ {a}) \ {p}) \in Nat
  <2>1. IsFiniteSet((s \ {a}) \ {p}) /\ \A x \in (s \ {a}) \ {p} : f[x] \in Nat
    BY <1>3, FS_Subset
  <2> QED BY <2>1, SumNat
<1>10. f[a] \in Nat /\ f[p] \in Nat
  BY <1>3
<1> QED BY <1>2, <1>4, <1>7, <1>8, <1>9, <1>10

(* A single balance never exceeds the total.                               *)
LEMMA SumMember ==
  ASSUME NEW f, NEW S, IsFiniteSet(S), \A x \in S : f[x] \in Nat, NEW a \in S
  PROVE  f[a] <= SumFunctionOnSet(f, S)
<1>1. SumFunctionOnSet(f, S) = f[a] + SumFunctionOnSet(f, S \ {a})
  BY SumSplit
<1>2. SumFunctionOnSet(f, S \ {a}) \in Nat
  <2>1. IsFiniteSet(S \ {a})
    BY FS_RemoveElement
  <2> QED BY <2>1, SumNat
<1> QED BY <1>1, <1>2

(* When one balance changes, the total changes by the same amount.         *)
LEMMA SumChange ==
  ASSUME NEW f, NEW g, NEW S, IsFiniteSet(S), NEW a \in S,
         \A x \in S : f[x] \in Nat /\ g[x] \in Nat,
         \A x \in S \ {a} : g[x] = f[x]
  PROVE  SumFunctionOnSet(g, S) = SumFunctionOnSet(f, S) - f[a] + g[a]
<1>1. IsFiniteSet(S \ {a})
  BY FS_RemoveElement
<1>2. /\ SumFunctionOnSet(f, S) = f[a] + SumFunctionOnSet(f, S \ {a})
      /\ SumFunctionOnSet(g, S) = g[a] + SumFunctionOnSet(g, S \ {a})
  BY SumSplit
<1>3. SumFunctionOnSet(g, S \ {a}) = SumFunctionOnSet(f, S \ {a})
  BY <1>1, SumSame
<1>4. SumFunctionOnSet(f, S \ {a}) \in Nat
  BY <1>1, SumNat
<1> QED BY <1>2, <1>3, <1>4

-----------------------------------------------------------------------------
(* Rows by height                                                          *)

(* g holds what Only keeps of the first i rows, for each i up to n.        *)
KeepsUpTo(g, rows, H, n) ==
  g = [i \in 0 .. n |->
        IF i = 0 THEN << >>
        ELSE IF rows[i].h \in H THEN Append(g[i - 1], rows[i])
        ELSE g[i - 1]]

(* A step from n to n + 1, from 0 on, reaches every number.                *)
LEMMA NatSteps ==
  ASSUME NEW B \in SUBSET Nat, 0 \notin B,
         \A n \in Nat : n \notin B => n + 1 \notin B
  PROVE  B = {}
<1> SUFFICES ASSUME B # {} PROVE FALSE
  OBVIOUS
<1>1. PICK m \in B : \A k \in B : m <= k
  BY MinNat
<1>2. m - 1 \in Nat /\ m - 1 \notin B
  BY <1>1
<1>3. (m - 1) + 1 = m
  BY <1>1
<1> QED
  BY <1>2, <1>3

LEMMA KeepsExist ==
  ASSUME NEW rows, NEW H, NEW n \in Nat
  PROVE  \E g : KeepsUpTo(g, rows, H, n)
<1> DEFINE Bad == {k \in Nat : ~ \E g : KeepsUpTo(g, rows, H, k)}
<1>1. 0 \notin Bad
  <2> DEFINE g == [i \in 0 .. 0 |-> << >>]
  <2>1. g = [i \in 0 .. 0 |->
        IF i = 0 THEN << >>
        ELSE IF rows[i].h \in H THEN Append(g[i - 1], rows[i])
        ELSE g[i - 1]]
    <3>1. \A i \in 0 .. 0 : i = 0
      OBVIOUS
    <3> QED
      BY <3>1
  <2> QED
    BY <2>1 DEF KeepsUpTo
<1>2. ASSUME NEW k \in Nat, k \notin Bad PROVE k + 1 \notin Bad
  <2>1. PICK f : KeepsUpTo(f, rows, H, k)
    BY <1>2
  <2> DEFINE last == IF rows[k + 1].h \in H THEN Append(f[k], rows[k + 1]) ELSE f[k]
  <2> DEFINE g == [i \in 0 .. k + 1 |-> IF i = k + 1 THEN last ELSE f[i]]
  <2>2. \A i \in 0 .. k : g[i] = f[i] /\ i # k + 1
    OBVIOUS
  <2>3. \A i \in 0 .. k + 1 : g[i] = IF i = 0 THEN << >>
                                    ELSE IF rows[i].h \in H THEN Append(g[i - 1], rows[i])
                                    ELSE g[i - 1]
    <3> TAKE i \in 0 .. k + 1
    <3>1. CASE i = k + 1
      <4>1. g[i] = last /\ i - 1 = k /\ i # 0 /\ g[k] = f[k]
        BY <2>2, <3>1
      <4> HIDE DEF g
      <4> QED
        BY <3>1, <4>1
    <3>2. CASE i = 0
      <4>1. g[0] = f[0] /\ f[0] = << >>
        BY <2>1, <2>2 DEF KeepsUpTo
      <4> HIDE DEF g
      <4> QED
        BY <3>2, <4>1
    <3>3. CASE i \in 1 .. k
      <4>1. i \in 0 .. k /\ i - 1 \in 0 .. k /\ g[i] = f[i] /\ g[i - 1] = f[i - 1] /\ i # 0
        BY <2>2, <3>3
      <4>2. f[i] = IF i = 0 THEN << >>
                   ELSE IF rows[i].h \in H THEN Append(f[i - 1], rows[i])
                   ELSE f[i - 1]
        BY <2>1, <4>1 DEF KeepsUpTo
      <4> HIDE DEF g
      <4> QED
        BY <4>1, <4>2
    <3> QED
      BY <3>1, <3>2, <3>3
  <2>4. KeepsUpTo(g, rows, H, k + 1)
    <3>1. DOMAIN g = 0 .. k + 1 /\ g = [i \in 0 .. k + 1 |-> g[i]]
      OBVIOUS
    <3> HIDE DEF g
    <3> QED
      BY <2>3, <3>1 DEF KeepsUpTo
  <2> QED
    BY <2>4
<1> HIDE DEF Bad
<1>3. Bad \in SUBSET Nat
  BY DEF Bad
<1>4. Bad = {}
  BY <1>1, <1>2, <1>3, NatSteps
<1> QED
  BY <1>4 DEF Bad

(* Two such functions agree where both are defined.                        *)
LEMMA KeepsAgree ==
  ASSUME NEW rows, NEW other, NEW H, NEW n \in Nat, NEW m \in Nat, n <= m,
         NEW f, KeepsUpTo(f, rows, H, n),
         NEW g, KeepsUpTo(g, other, H, m),
         \A i \in 1 .. n : rows[i] = other[i]
  PROVE  f[n] = g[n]
<1> DEFINE Bad == {k \in Nat : k <= n /\ f[k] # g[k]}
<1>1. 0 \notin Bad
  <2>1. 0 \in 0 .. n /\ 0 \in 0 .. m
    OBVIOUS
  <2>2. f[0] = << >> /\ g[0] = << >>
    BY <2>1 DEF KeepsUpTo
  <2> QED
    BY <2>2
<1>2. ASSUME NEW k \in Nat, k \notin Bad PROVE k + 1 \notin Bad
  <2> SUFFICES ASSUME k + 1 <= n PROVE f[k + 1] = g[k + 1]
    OBVIOUS
  <2>1. /\ k + 1 \in 0 .. n /\ k + 1 \in 0 .. m /\ k + 1 # 0 /\ (k + 1) - 1 = k
        /\ f[k] = g[k] /\ rows[k + 1] = other[k + 1]
    BY <1>2
  <2>2. f[k + 1] = IF rows[k + 1].h \in H THEN Append(f[k], rows[k + 1]) ELSE f[k]
    BY <2>1 DEF KeepsUpTo
  <2>3. g[k + 1] = IF other[k + 1].h \in H THEN Append(g[k], other[k + 1]) ELSE g[k]
    BY <2>1 DEF KeepsUpTo
  <2> QED
    BY <2>1, <2>2, <2>3
<1> HIDE DEF Bad
<1>3. Bad \in SUBSET Nat
  BY DEF Bad
<1>4. Bad = {}
  BY <1>1, <1>2, <1>3, NatSteps
<1> QED
  BY <1>4 DEF Bad

(* Only is what the function of the recursion holds for all rows.          *)
LEMMA OnlyKeeps ==
  ASSUME NEW rows, Len(rows) \in Nat, NEW H
  PROVE  \E g : KeepsUpTo(g, rows, H, Len(rows)) /\ Only(rows, H) = g[Len(rows)]
<1> DEFINE only == CHOOSE g : KeepsUpTo(g, rows, H, Len(rows))
<1>1. KeepsUpTo(only, rows, H, Len(rows))
  BY KeepsExist
<1>2. Only(rows, H) = only[Len(rows)]
  BY DEF Only, KeepsUpTo
<1> QED
  BY <1>1, <1>2

LEMMA OnlyEmpty ==
  ASSUME NEW H
  PROVE  Only(<< >>, H) = << >>
<1>1. Len(<< >>) = 0
  OBVIOUS
<1>2. PICK g : KeepsUpTo(g, << >>, H, 0) /\ Only(<< >>, H) = g[0]
  BY <1>1, OnlyKeeps
<1>3. 0 \in 0 .. 0
  OBVIOUS
<1> QED
  BY <1>2, <1>3 DEF KeepsUpTo

LEMMA OnlyAppend ==
  ASSUME NEW S, NEW rows \in Seq(S), NEW r \in S, NEW H
  PROVE  Only(Append(rows, r), H) = IF r.h \in H THEN Append(Only(rows, H), r) ELSE Only(rows, H)
<1> DEFINE n == Len(rows)
<1> DEFINE more == Append(rows, r)
<1>1. /\ n \in Nat /\ Len(more) = n + 1 /\ more[n + 1] = r
      /\ \A i \in 1 .. n : rows[i] = more[i]
  OBVIOUS
<1> HIDE DEF n, more
<1>2. PICK f : KeepsUpTo(f, rows, H, n) /\ Only(rows, H) = f[n]
  BY <1>1, OnlyKeeps DEF n
<1>3. PICK g : KeepsUpTo(g, more, H, n + 1) /\ Only(more, H) = g[n + 1]
  BY <1>1, OnlyKeeps
<1>4. f[n] = g[n]
  BY <1>1, <1>2, <1>3, KeepsAgree
<1>5. n + 1 \in 0 .. n + 1 /\ n + 1 # 0 /\ (n + 1) - 1 = n
  BY <1>1
<1>6. g[n + 1] = IF more[n + 1].h \in H THEN Append(g[n], more[n + 1]) ELSE g[n]
  BY <1>3, <1>5 DEF KeepsUpTo
<1> QED
  BY <1>1, <1>2, <1>3, <1>4, <1>6 DEF more

(* What holds of no rows, and of more rows when it holds of fewer, holds   *)
(* of all.                                                                 *)
LEMMA RowByRow ==
  ASSUME NEW S, NEW B \in SUBSET Seq(S), << >> \notin B,
         \A rows \in Seq(S) : \A r \in S : rows \notin B => Append(rows, r) \notin B
  PROVE  B = {}
<1> DEFINE L == {n \in Nat : \E s \in B : Len(s) = n}
<1>1. 0 \notin L
  <2>1. \A s \in Seq(S) : Len(s) = 0 => s = << >>
    BY EmptySeq
  <2> QED
    BY <2>1
<1>2. ASSUME NEW n \in Nat, n \notin L PROVE n + 1 \notin L
  <2> SUFFICES ASSUME NEW s \in B, Len(s) = n + 1 PROVE FALSE
    OBVIOUS
  <2> DEFINE t == SubSeq(s, 1, n)
  <2>1. s \in Seq(S) /\ s[n + 1] \in S
    BY ElementOfSeq
  <2>2. t \in Seq(S) /\ Len(t) = n /\ s = Append(t, s[n + 1])
    <3>1. \A i \in 1 .. n : s[i] \in S
      BY <2>1, ElementOfSeq
    <3>2. t \in Seq(S) /\ Len(t) = n /\ \A i \in 1 .. n : t[i] = s[i]
      BY <2>1, <3>1
    <3> HIDE DEF t
    <3>3. Append(t, s[n + 1]) \in Seq(S) /\ Len(Append(t, s[n + 1])) = n + 1
      BY <2>1, <3>2
    <3>4. \A i \in 1 .. n + 1 : Append(t, s[n + 1])[i] = s[i]
      BY <2>1, <3>2
    <3> QED
      BY <2>1, <3>2, <3>3, <3>4, SeqEqual
  <2>3. t \notin B
    BY <1>2, <2>2
  <2> QED
    BY <2>1, <2>2, <2>3
<1> HIDE DEF L
<1>3. L \in SUBSET Nat
  BY DEF L
<1>4. L = {}
  BY <1>1, <1>2, <1>3, NatSteps
<1>5. \A s \in B : Len(s) \in Nat
  OBVIOUS
<1> QED
  BY <1>4, <1>5 DEF L

LEMMA OnlyType ==
  ASSUME NEW S, NEW rows \in Seq(S), NEW H
  PROVE  Only(rows, H) \in Seq(S)
<1> DEFINE Bad == {s \in Seq(S) : Only(s, H) \notin Seq(S)}
<1>1. << >> \notin Bad
  BY OnlyEmpty, EmptySeq
<1>2. ASSUME NEW s \in Seq(S), NEW r \in S, s \notin Bad PROVE Append(s, r) \notin Bad
  <2>1. Only(s, H) \in Seq(S)
    BY <1>2
  <2>2. Append(Only(s, H), r) \in Seq(S)
    BY <2>1, AppendProperties
  <2>3. Only(Append(s, r), H) = IF r.h \in H THEN Append(Only(s, H), r) ELSE Only(s, H)
    BY OnlyAppend
  <2>4. Only(Append(s, r), H) \in Seq(S)
    BY <2>1, <2>2, <2>3
  <2> QED
    BY <2>4
<1> HIDE DEF Bad
<1>3. Bad \in SUBSET Seq(S)
  BY DEF Bad
<1>4. Bad = {}
  BY <1>1, <1>2, <1>3, RowByRow
<1> QED
  BY <1>4 DEF Bad

(* The rows of two sets of heights are found among the rows of one.        *)
LEMMA OnlyTwice ==
  ASSUME NEW S, NEW rows \in Seq(S), NEW H, NEW K
  PROVE  Only(Only(rows, H), K) = Only(rows, H \cap K)
<1> DEFINE Bad == {s \in Seq(S) : Only(Only(s, H), K) # Only(s, H \cap K)}
<1>1. << >> \notin Bad
  BY OnlyEmpty
<1>2. ASSUME NEW s \in Seq(S), NEW r \in S, s \notin Bad PROVE Append(s, r) \notin Bad
  <2>1. Only(s, H) \in Seq(S)
    BY OnlyType
  <2>2. Only(Append(Only(s, H), r), K) =
          IF r.h \in K THEN Append(Only(Only(s, H), K), r) ELSE Only(Only(s, H), K)
    BY <2>1, OnlyAppend
  <2>3. Only(Append(s, r), H) = IF r.h \in H THEN Append(Only(s, H), r) ELSE Only(s, H)
    BY OnlyAppend
  <2>4. Only(Append(s, r), H \cap K) =
          IF r.h \in H \cap K THEN Append(Only(s, H \cap K), r) ELSE Only(s, H \cap K)
    BY OnlyAppend
  <2>5. Only(Only(s, H), K) = Only(s, H \cap K)
    BY <1>2
  <2>6. Only(Only(Append(s, r), H), K) = Only(Append(s, r), H \cap K)
    <3>1. CASE r.h \in H
      <4>1. Only(Append(s, r), H) = Append(Only(s, H), r)
        BY <2>3, <3>1
      <4>2. r.h \in H \cap K <=> r.h \in K
        BY <3>1
      <4> QED
        BY <2>2, <2>4, <2>5, <4>1, <4>2
    <3>2. CASE r.h \notin H
      BY <2>3, <2>4, <2>5, <3>2
    <3> QED
      BY <3>1, <3>2
  <2> QED
    BY <2>6
<1> HIDE DEF Bad
<1>3. Bad \in SUBSET Seq(S)
  BY DEF Bad
<1>4. Bad = {}
  BY <1>1, <1>2, <1>3, RowByRow
<1> QED
  BY <1>4 DEF Bad

(* Where no height is in H, there are no rows.                             *)
LEMMA OnlyNone ==
  ASSUME NEW S, NEW rows \in Seq(S), NEW H, \A i \in 1 .. Len(rows) : rows[i].h \notin H
  PROVE  Only(rows, H) = << >>
<1> DEFINE Bad == {s \in Seq(S) : (\A i \in 1 .. Len(s) : s[i].h \notin H) /\ Only(s, H) # << >>}
<1>1. << >> \notin Bad
  BY OnlyEmpty
<1>2. ASSUME NEW s \in Seq(S), NEW r \in S, s \notin Bad PROVE Append(s, r) \notin Bad
  <2> SUFFICES ASSUME \A i \in 1 .. Len(Append(s, r)) : Append(s, r)[i].h \notin H
               PROVE  Only(Append(s, r), H) = << >>
    OBVIOUS
  <2>1. /\ Len(Append(s, r)) = Len(s) + 1 /\ Append(s, r)[Len(s) + 1] = r
        /\ \A i \in 1 .. Len(s) : Append(s, r)[i] = s[i] /\ i \in 1 .. Len(s) + 1
        /\ Len(s) + 1 \in 1 .. Len(s) + 1
    OBVIOUS
  <2>2. r.h \notin H /\ \A i \in 1 .. Len(s) : s[i].h \notin H
    BY <2>1
  <2> QED
    BY <1>2, <2>2, OnlyAppend
<1> HIDE DEF Bad
<1>3. Bad \in SUBSET Seq(S)
  BY DEF Bad
<1>4. Bad = {}
  BY <1>1, <1>2, <1>3, RowByRow
<1> QED
  BY <1>4 DEF Bad

(* What is found is in the table and of one of the heights, and all of     *)
(* that is found.                                                          *)
LEMMA OnlyRows ==
  ASSUME NEW S, NEW rows \in Seq(S), NEW H
  PROVE  /\ \A i \in 1 .. Len(Only(rows, H)) :
              Only(rows, H)[i].h \in H /\ \E j \in 1 .. Len(rows) : Only(rows, H)[i] = rows[j]
         /\ \A j \in 1 .. Len(rows) :
              rows[j].h \in H => \E i \in 1 .. Len(Only(rows, H)) : Only(rows, H)[i] = rows[j]
<1> DEFINE Found(s) == \A i \in 1 .. Len(Only(s, H)) :
             Only(s, H)[i].h \in H /\ \E j \in 1 .. Len(s) : Only(s, H)[i] = s[j]
<1> DEFINE All(s) == \A j \in 1 .. Len(s) :
             s[j].h \in H => \E i \in 1 .. Len(Only(s, H)) : Only(s, H)[i] = s[j]
<1> DEFINE Bad == {s \in Seq(S) : ~ (Found(s) /\ All(s))}
<1>1. << >> \notin Bad
  BY OnlyEmpty
<1>2. ASSUME NEW s \in Seq(S), NEW r \in S, s \notin Bad PROVE Append(s, r) \notin Bad
  <2> DEFINE t == Append(s, r)
  <2> DEFINE o == Only(s, H)
  <2>1. /\ t \in Seq(S) /\ Len(t) = Len(s) + 1 /\ t[Len(s) + 1] = r /\ Len(s) \in Nat
        /\ \A i \in 1 .. Len(s) : t[i] = s[i]
    OBVIOUS
  <2>2. o \in Seq(S)
    BY OnlyType
  <2>3. Only(t, H) = IF r.h \in H THEN Append(o, r) ELSE o
    BY OnlyAppend
  <2>4. Found(s) /\ All(s)
    BY <1>2
  <2>5. \A i \in 1 .. Len(o) : o[i].h \in H /\ \E j \in 1 .. Len(s) : o[i] = s[j]
    BY <2>4
  <2>6. \A j \in 1 .. Len(s) : s[j].h \in H => \E i \in 1 .. Len(o) : o[i] = s[j]
    BY <2>4
  <2> HIDE DEF o, t, Found, All
  <2>7. /\ Len(Append(o, r)) = Len(o) + 1 /\ Append(o, r)[Len(o) + 1] = r /\ Len(o) \in Nat
        /\ \A i \in 1 .. Len(o) : Append(o, r)[i] = o[i]
    BY <2>2
  <2>8. ASSUME NEW i \in 1 .. Len(Only(t, H))
        PROVE  Only(t, H)[i].h \in H /\ \E j \in 1 .. Len(t) : Only(t, H)[i] = t[j]
    <3>1. CASE i \in 1 .. Len(o)
      <4>1. Only(t, H)[i] = o[i]
        BY <2>3, <2>7, <3>1
      <4>2. PICK j \in 1 .. Len(s) : o[i] = s[j]
        BY <2>5, <3>1
      <4>3. j \in 1 .. Len(t) /\ t[j] = s[j]
        BY <2>1
      <4> QED
        BY <2>5, <3>1, <4>1, <4>2, <4>3
    <3>2. CASE r.h \in H /\ i = Len(o) + 1
      <4>1. Only(t, H)[i] = r /\ Len(s) + 1 \in 1 .. Len(t)
        BY <2>1, <2>3, <2>7, <3>2
      <4> QED
        BY <2>1, <3>2, <4>1
    <3> QED
      BY <2>3, <2>7, <3>1, <3>2
  <2>9. ASSUME NEW j \in 1 .. Len(t), t[j].h \in H
        PROVE  \E i \in 1 .. Len(Only(t, H)) : Only(t, H)[i] = t[j]
    <3>1. CASE j \in 1 .. Len(s)
      <4>1. PICK i \in 1 .. Len(o) : o[i] = s[j]
        BY <2>1, <2>6, <2>9, <3>1
      <4>2. i \in 1 .. Len(Only(t, H)) /\ Only(t, H)[i] = o[i]
        BY <2>3, <2>7
      <4> QED
        BY <2>1, <3>1, <4>1, <4>2
    <3>2. CASE j = Len(s) + 1
      <4>1. Only(t, H) = Append(o, r) /\ Len(o) + 1 \in 1 .. Len(Only(t, H))
        BY <2>1, <2>3, <2>7, <2>9, <3>2
      <4> QED
        BY <2>1, <2>7, <3>2, <4>1
    <3> QED
      BY <2>1, <3>1, <3>2
  <2>10. Found(t) /\ All(t)
    BY <2>8, <2>9 DEF Found, All
  <2> QED
    BY <2>10 DEF t
<1> HIDE DEF Bad, Found, All
<1>3. Bad \in SUBSET Seq(S)
  BY DEF Bad
<1>4. Bad = {}
  BY <1>1, <1>2, <1>3, RowByRow
<1> QED
  BY <1>4 DEF Bad, Found, All

(* Where every height is in H, nothing is left out.                        *)
LEMMA OnlyAll ==
  ASSUME NEW S, NEW rows \in Seq(S), NEW H, \A i \in 1 .. Len(rows) : rows[i].h \in H
  PROVE  Only(rows, H) = rows
<1> DEFINE Bad == {s \in Seq(S) : (\A i \in 1 .. Len(s) : s[i].h \in H) /\ Only(s, H) # s}
<1>1. << >> \notin Bad
  BY OnlyEmpty
<1>2. ASSUME NEW s \in Seq(S), NEW r \in S, s \notin Bad PROVE Append(s, r) \notin Bad
  <2> SUFFICES ASSUME \A i \in 1 .. Len(Append(s, r)) : Append(s, r)[i].h \in H
               PROVE  Only(Append(s, r), H) = Append(s, r)
    OBVIOUS
  <2>1. /\ Len(Append(s, r)) = Len(s) + 1 /\ Append(s, r)[Len(s) + 1] = r
        /\ \A i \in 1 .. Len(s) : Append(s, r)[i] = s[i] /\ i \in 1 .. Len(s) + 1
        /\ Len(s) + 1 \in 1 .. Len(s) + 1
    OBVIOUS
  <2>2. r.h \in H /\ \A i \in 1 .. Len(s) : s[i].h \in H
    BY <2>1
  <2> QED
    BY <1>2, <2>2, OnlyAppend
<1> HIDE DEF Bad
<1>3. Bad \in SUBSET Seq(S)
  BY DEF Bad
<1>4. Bad = {}
  BY <1>1, <1>2, <1>3, RowByRow
<1> QED
  BY <1>4 DEF Bad

-----------------------------------------------------------------------------
(* Sums over rows                                                          *)

(* What the rows that are in T amount to.                                  *)
SumOf(rows, T) ==
  SumFunctionOnSet([i \in DOMAIN rows |-> rows[i].amount], {i \in DOMAIN rows : rows[i] \in T})

LEMMA SumOfNone ==
  ASSUME NEW rows, NEW T, \A i \in DOMAIN rows : rows[i] \notin T
  PROVE  SumOf(rows, T) = 0
<1>1. {i \in DOMAIN rows : rows[i] \in T} = {}
  OBVIOUS
<1> QED
  BY <1>1, SumEmpty DEF SumOf

(* Sets that have the same rows in common with the table.                  *)
LEMMA SumOfSame ==
  ASSUME NEW rows, NEW T, NEW U, \A i \in DOMAIN rows : rows[i] \in T <=> rows[i] \in U
  PROVE  SumOf(rows, T) = SumOf(rows, U)
<1>1. {i \in DOMAIN rows : rows[i] \in T} = {i \in DOMAIN rows : rows[i] \in U}
  OBVIOUS
<1> QED
  BY <1>1 DEF SumOf

LEMMA SumOfNat ==
  ASSUME NEW S, \A r \in S : r.amount \in Nat, NEW rows \in Seq(S), NEW T
  PROVE  SumOf(rows, T) \in Nat
<1> DEFINE f == [i \in DOMAIN rows |-> rows[i].amount]
<1> DEFINE D == {i \in DOMAIN rows : rows[i] \in T}
<1>1. IsFiniteSet(D)
  <2>1. DOMAIN rows = 1 .. Len(rows) /\ Len(rows) \in Nat
    OBVIOUS
  <2>2. IsFiniteSet(1 .. Len(rows))
    BY <2>1, FS_Interval
  <2> QED
    BY <2>1, <2>2, FS_Subset
<1>2. \A i \in D : f[i] \in Nat
  OBVIOUS
<1> HIDE DEF f, D
<1>3. SumFunctionOnSet(f, D) \in Nat
  BY <1>1, <1>2, SumNat
<1> QED
  BY <1>3 DEF SumOf, f, D

LEMMA SumOfAppend ==
  ASSUME NEW S, \A r \in S : r.amount \in Nat, NEW rows \in Seq(S), NEW x \in S, NEW T
  PROVE  SumOf(Append(rows, x), T) = SumOf(rows, T) + (IF x \in T THEN x.amount ELSE 0)
<1> DEFINE n == Len(rows)
<1> DEFINE more == Append(rows, x)
<1> DEFINE f == [i \in DOMAIN rows |-> rows[i].amount]
<1> DEFINE g == [i \in DOMAIN more |-> more[i].amount]
<1> DEFINE D == {i \in DOMAIN rows : rows[i] \in T}
<1> DEFINE E == {i \in DOMAIN more : more[i] \in T}
<1>1. /\ n \in Nat /\ DOMAIN rows = 1 .. n /\ DOMAIN more = 1 .. n + 1 /\ more[n + 1] = x
      /\ \A i \in 1 .. n : more[i] = rows[i]
  OBVIOUS
<1>2. IsFiniteSet(D) /\ IsFiniteSet(E) /\ n + 1 \notin D
  <2>1. IsFiniteSet(1 .. n) /\ IsFiniteSet(1 .. n + 1)
    BY <1>1, FS_Interval
  <2>2. D \subseteq 1 .. n /\ E \subseteq 1 .. n + 1
    BY <1>1
  <2> QED
    BY <1>1, <2>1, <2>2, FS_Subset
<1>3. D = E \ {n + 1} /\ (n + 1 \in E <=> x \in T)
  <2> HIDE DEF more
  <2> QED
    BY <1>1
<1>4. (\A i \in D : f[i] = g[i] /\ f[i] \in Nat) /\ (\A i \in E : g[i] \in Nat) /\ g[n + 1] = x.amount
  <2>1. \A i \in 1 .. n + 1 : more[i] \in S
    BY <1>1
  <2> HIDE DEF more
  <2> QED
    BY <1>1, <2>1
<1>5. SumOf(rows, T) = SumFunctionOnSet(f, D) /\ SumOf(more, T) = SumFunctionOnSet(g, E)
  BY DEF SumOf
<1> HIDE DEF f, g, D, E, more, n
<1>6. SumFunctionOnSet(f, D) = SumFunctionOnSet(g, D) /\ SumFunctionOnSet(f, D) \in Nat
  BY <1>2, <1>4, SumSame, SumNat
<1>7. CASE x \in T
  <2>1. SumFunctionOnSet(g, E) = g[n + 1] + SumFunctionOnSet(g, E \ {n + 1})
    BY <1>2, <1>3, <1>4, <1>7, SumSplit
  <2>2. SumOf(more, T) = SumOf(rows, T) + x.amount
    BY <1>3, <1>4, <1>5, <1>6, <1>7, <2>1
  <2> QED
    BY <2>2, <1>7 DEF more
<1>8. CASE x \notin T
  <2>1. E = D
    BY <1>3, <1>8
  <2>2. SumOf(more, T) = SumOf(rows, T) + 0
    BY <1>5, <1>6, <2>1
  <2> QED
    BY <2>2, <1>8 DEF more
<1> QED
  BY <1>7, <1>8

(* The only row of a set.                                                  *)
LEMMA SumOfOne ==
  ASSUME NEW S, \A r \in S : r.amount \in Nat, NEW rows \in Seq(S), NEW T,
         NEW i \in DOMAIN rows, \A j \in DOMAIN rows : rows[j] \in T <=> j = i
  PROVE  SumOf(rows, T) = rows[i].amount
<1> DEFINE f == [j \in DOMAIN rows |-> rows[j].amount]
<1>1. {j \in DOMAIN rows : rows[j] \in T} = {i}
  OBVIOUS
<1>2. f[i] = rows[i].amount /\ f[i] \in Nat
  OBVIOUS
<1> HIDE DEF f
<1>3. IsFiniteSet({i}) /\ \A x \in {i} : f[x] \in Nat
  BY <1>2, FS_Singleton
<1>4. SumFunctionOnSet(f, {i}) = f[i] + SumFunctionOnSet(f, {i} \ {i})
  BY <1>3, SumSplit
<1>5. SumFunctionOnSet(f, {i}) = f[i]
  <2>1. {i} \ {i} = {}
    OBVIOUS
  <2>2. SumFunctionOnSet(f, {i} \ {i}) = 0
    BY <2>1, SumEmpty
  <2> QED
    BY <1>2, <1>4, <2>2
<1> QED
  BY <1>1, <1>2, <1>5 DEF SumOf, f

(* Rows of one of two sets that have none in common.                       *)
LEMMA SumOfUnion ==
  ASSUME NEW S, \A r \in S : r.amount \in Nat, NEW rows \in Seq(S),
         NEW T, NEW U, T \cap U = {}
  PROVE  SumOf(rows, T \cup U) = SumOf(rows, T) + SumOf(rows, U)
<1> DEFINE Bad == {s \in Seq(S) : SumOf(s, T \cup U) # SumOf(s, T) + SumOf(s, U)}
<1>1. << >> \notin Bad
  <2>1. \A W : SumOf(<< >>, W) = 0
    BY SumOfNone
  <2> QED
    BY <2>1
<1>2. ASSUME NEW s \in Seq(S), NEW r \in S, s \notin Bad PROVE Append(s, r) \notin Bad
  <2>1. SumOf(s, T \cup U) = SumOf(s, T) + SumOf(s, U)
    BY <1>2
  <2>2. /\ SumOf(Append(s, r), T \cup U) = SumOf(s, T \cup U) + (IF r \in T \cup U THEN r.amount ELSE 0)
        /\ SumOf(Append(s, r), T) = SumOf(s, T) + (IF r \in T THEN r.amount ELSE 0)
        /\ SumOf(Append(s, r), U) = SumOf(s, U) + (IF r \in U THEN r.amount ELSE 0)
    BY SumOfAppend
  <2>3. SumOf(s, T) \in Nat /\ SumOf(s, U) \in Nat /\ r.amount \in Nat
    BY SumOfNat
  <2>4. r \notin T \/ r \notin U
    OBVIOUS
  <2>5. SumOf(Append(s, r), T \cup U) = SumOf(Append(s, r), T) + SumOf(Append(s, r), U)
    BY <2>1, <2>2, <2>3, <2>4
  <2> QED
    BY <2>5
<1> HIDE DEF Bad
<1>3. Bad \in SUBSET Seq(S)
  BY DEF Bad
<1>4. Bad = {}
  BY <1>1, <1>2, <1>3, RowByRow
<1> QED
  BY <1>4 DEF Bad

(* What the rows that are left amount to, and those that are not.          *)
LEMMA SumOfOnly ==
  ASSUME NEW S, \A r \in S : r.amount \in Nat, NEW rows \in Seq(S), NEW T, NEW H
  PROVE  SumOf(rows, T) = SumOf(Only(rows, H), T) + SumOf(rows, {r \in T : r.h \notin H})
<1> DEFINE Out == {r \in T : r.h \notin H}
<1> DEFINE Bad == {s \in Seq(S) : SumOf(s, T) # SumOf(Only(s, H), T) + SumOf(s, Out)}
<1>1. << >> \notin Bad
  <2>1. \A W : SumOf(<< >>, W) = 0
    BY SumOfNone
  <2> QED
    BY <2>1, OnlyEmpty
<1>2. ASSUME NEW s \in Seq(S), NEW r \in S, s \notin Bad PROVE Append(s, r) \notin Bad
  <2>0. Only(s, H) \in Seq(S)
    BY OnlyType
  <2>1. SumOf(s, T) = SumOf(Only(s, H), T) + SumOf(s, Out)
    BY <1>2
  <2>2. /\ SumOf(Append(s, r), T) = SumOf(s, T) + (IF r \in T THEN r.amount ELSE 0)
        /\ SumOf(Append(s, r), Out) = SumOf(s, Out) + (IF r \in Out THEN r.amount ELSE 0)
        /\ SumOf(Append(Only(s, H), r), T) = SumOf(Only(s, H), T) + (IF r \in T THEN r.amount ELSE 0)
    BY <2>0, SumOfAppend
  <2>3. Only(Append(s, r), H) = IF r.h \in H THEN Append(Only(s, H), r) ELSE Only(s, H)
    BY OnlyAppend
  <2>4. SumOf(Only(s, H), T) \in Nat /\ SumOf(s, Out) \in Nat /\ r.amount \in Nat
    BY <2>0, SumOfNat
  <2>5. r \in Out <=> r \in T /\ r.h \notin H
    OBVIOUS
  <2> HIDE DEF Out
  <2>6. SumOf(Append(s, r), T) = SumOf(Only(Append(s, r), H), T) + SumOf(Append(s, r), Out)
    <3>1. CASE r.h \in H
      BY <2>1, <2>2, <2>3, <2>4, <2>5, <3>1
    <3>2. CASE r.h \notin H
      BY <2>1, <2>2, <2>3, <2>4, <2>5, <3>2
    <3> QED
      BY <3>1, <3>2
  <2> QED
    BY <2>6
<1> HIDE DEF Bad
<1>3. Bad \in SUBSET Seq(S)
  BY DEF Bad
<1>4. Bad = {}
  BY <1>1, <1>2, <1>3, RowByRow
<1> QED
  BY <1>4 DEF Bad, Out
=============================================================================
