---------------------------- MODULE RunesProofs ----------------------------
(***************************************************************************)
(* Proofs about the runes ledger, for any set of transactions, any number  *)
(* of blocks, inputs and outputs and any widths of the integers.           *)
(***************************************************************************)
EXTENDS Runes, TableTheorems, SequenceTheorems, TLAPS

(* Arithmetic that the provers need to be told.                            *)
LEMMA Distribute ==
  ASSUME NEW a \in Nat, NEW b \in Nat
  PROVE  a * b \in Nat /\ (a + 1) * b = a * b + b
  OBVIOUS

LEMMA Monotone ==
  ASSUME NEW a \in Nat, NEW b \in Nat, NEW c \in Nat, a <= b
  PROVE  a * c <= b * c
<1>1. PICK d \in Nat : b = a + d
  <2> WITNESS b - a \in Nat
  <2> QED OBVIOUS
<1>2. b * c = a * c + d * c
  BY <1>1
<1>3. d * c \in Nat /\ a * c \in Nat
  OBVIOUS
<1> QED BY <1>2, <1>3

(* A number is its quotient times the divisor and a smaller remainder.     *)
LEMMA Division ==
  ASSUME NEW a \in Nat, NEW n \in Nat, n > 0
  PROVE  /\ a \div n \in Nat /\ a % n \in Nat
         /\ a = ((a \div n) * n) + (a % n)
         /\ a % n < n
  OBVIOUS

(* The names of unnamed runes are different in every place.                *)
LEMMA NamesApart ==
  ASSUME NEW a \in Nat, NEW b \in Nat, NEW i \in Nat, NEW j \in Nat, NEW u \in Nat,
         i < u, j < u, a * u + i = b * u + j
  PROVE  a = b /\ i = j
<1>1. ~ a < b
  <2>1. SUFFICES ASSUME a < b PROVE FALSE
    OBVIOUS
  <2>2. (a + 1) * u <= b * u
    BY <2>1, Monotone
  <2>3. (a + 1) * u = a * u + u /\ a * u \in Nat /\ b * u \in Nat
    BY Distribute
  <2> QED BY <2>2, <2>3
<1>2. ~ b < a
  <2>1. SUFFICES ASSUME b < a PROVE FALSE
    OBVIOUS
  <2>2. (b + 1) * u <= a * u
    BY <2>1, Monotone
  <2>3. (b + 1) * u = b * u + u /\ a * u \in Nat /\ b * u \in Nat
    BY Distribute
  <2> QED BY <2>2, <2>3
<1>3. a = b
  BY <1>1, <1>2
<1>4. a * u \in Nat
  BY Distribute
<1> QED BY <1>3, <1>4

(* A set of numbers that is not empty has a least one.                     *)
LEMMA MinIn ==
  ASSUME NEW S \in SUBSET Nat, S # {}
  PROVE  Min(S) \in S /\ \A x \in S : Min(S) <= x
  BY MinNat DEF Min

-----------------------------------------------------------------------------
(* What a message can be read as *)

Payloads == Seq(0 .. U128 - 1)

(* The body tag is found, or the message has none.                         *)
LEMMA BodyFound ==
  ASSUME NEW p \in Payloads
  PROVE  BodyAt(p) \in 1 .. Len(p) + 1
<1> DEFINE IsBody(i) == i % 2 = 1 /\ p[i] = Body
           B == {i \in 1 .. Len(p) + 1 : i = Len(p) + 1 \/ IsBody(i)}
<1>1. Len(p) \in Nat
  BY DEF Payloads
<1>2. B \in SUBSET Nat /\ Len(p) + 1 \in B
  BY <1>1
<1>3. PICK m \in B : \A k \in B : m <= k
  BY <1>2, MinNat
<1>4. \A j \in 1 .. m - 1 : ~ IsBody(j)
  BY <1>1, <1>2, <1>3
<1>5. m \in 1 .. Len(p) + 1 /\ (m = Len(p) + 1 \/ IsBody(m))
  BY <1>3
<1> QED BY <1>4, <1>5 DEF BodyAt

(* The fields of a message are integers of its payload.                    *)
LEMMA FieldValues ==
  ASSUME NEW p \in Payloads, NEW k \in DOMAIN Fields(p)
  PROVE  Fields(p)[k].value \in 0 .. U128 - 1
<1>1. BodyAt(p) \in 1 .. Len(p) + 1 /\ Len(p) \in Nat
  BY BodyFound DEF Payloads
<1>2. k \in 1 .. (BodyAt(p) - 1) \div 2 /\ Fields(p)[k].value = p[2 * k]
  BY DEF Fields
<1>3. 2 * k \in 1 .. Len(p)
  BY <1>1, <1>2
<1>4. \A i \in 1 .. Len(p) : p[i] \in 0 .. U128 - 1
  BY ElementOfSeq DEF Payloads
<1> QED BY <1>2, <1>3, <1>4

(* The places of a tag are numbers, the first of which is one of them.     *)
LEMMA PlaceFound ==
  ASSUME NEW p \in Payloads, NEW tag, Places(p, tag) # {}
  PROVE  Min(Places(p, tag)) \in DOMAIN Fields(p)
<1>1. BodyAt(p) \in 1 .. Len(p) + 1 /\ Len(p) \in Nat
  BY BodyFound DEF Payloads
<1>2. Places(p, tag) \in SUBSET Nat /\ Places(p, tag) \subseteq DOMAIN Fields(p)
  BY <1>1 DEF Places, Fields
<1> QED BY <1>2, MinIn

(* A value that is taken is a number below its bound.                      *)
LEMMA TakenValue ==
  ASSUME NEW p \in Payloads, NEW tag, NEW bound \in Int
  PROVE  /\ Take(p, tag, bound) = None \/ \E v \in Nat : v < bound /\ Take(p, tag, bound) = Some(v)
         /\ Default(Take(p, tag, bound)) \in Nat
<1> DEFINE v == Fields(p)[Min(Places(p, tag))].value
<1>1. CASE Places(p, tag) # {} /\ v < bound
  <2>1. v \in Nat
    BY <1>1, PlaceFound, FieldValues
  <2>2. Take(p, tag, bound) = Some(v)
    BY <1>1 DEF Take
  <2> QED BY <1>1, <2>1, <2>2 DEF Default, Some, None
<1>2. CASE ~ (Places(p, tag) # {} /\ v < bound)
  BY <1>2 DEF Take, Default, None
<1> QED BY <1>1, <1>2

(* An option is None or holds a value.                                     *)
LEMMA OptionIs ==
  ASSUME NEW v
  PROVE  Some(v) # None /\ Some(v)[1] = v
  BY DEF Some, None

LEMMA OptionIn ==
  ASSUME NEW S, NEW o \in Options(S), o # None
  PROVE  o[1] \in S /\ o = Some(o[1])
  BY DEF Options, Some, None

Optional == Options(Nat)

TermsSet   == [cap : Optional, amount : Optional, heightStart : Optional, heightEnd : Optional,
               offsetStart : Optional, offsetEnd : Optional]
EtchingSet == [rune : Optional, premine : Optional, terms : Options(TermsSet), turbo : BOOLEAN]

EdictsOf(a) == {a.edicts[k] : k \in DOMAIN a.edicts}

(* What holds of every artifact of a transaction with n outputs.           *)
Sound(a, n) ==
  /\ a.kind \in {"none", "cenotaph", "runestone"}
  /\ a.edicts \in Seq(EdictsOf(a))
  /\ \A e \in EdictsOf(a) : e.amount \in Nat /\ e.output \in 0 .. n
  /\ a.kind = "cenotaph" => a.edicts = << >>
  /\ a.etching \in Options(EtchingSet)
  /\ a.kind = "runestone" /\ a.etching # None => SupplyOf(a.etching[1]) < U128
  /\ a.pointer # None => a.pointer[1] \in 0 .. n - 1

LEMMA TakenOption ==
  ASSUME NEW p \in Payloads, NEW tag, NEW bound \in Int
  PROVE  Take(p, tag, bound) \in Optional
  BY TakenValue DEF Optional, Options

LEMMA EtchingIn ==
  ASSUME NEW p \in Payloads
  PROVE  EtchingOf(p) \in Options(EtchingSet)
<1>1. U64 \in Int /\ U128 \in Int
  BY RunesAssumption
<1>2. TermsOf(p) \in TermsSet
  BY <1>1, TakenOption DEF TermsOf, TermsSet
<1>3. CASE ~ Bit(FlagsOf(p), 0)
  BY <1>3 DEF EtchingOf, Options
<1>4. CASE Bit(FlagsOf(p), 0)
  <2> DEFINE terms == IF Bit(FlagsOf(p), 1) THEN Some(TermsOf(p)) ELSE None
             e == [rune |-> Take(p, RuneTag, U128), premine |-> Take(p, Premine, U128),
                   terms |-> terms, turbo |-> Bit(FlagsOf(p), 2)]
  <2>1. terms \in Options(TermsSet)
    BY <1>2 DEF Options
  <2>2. Bit(FlagsOf(p), 2) \in BOOLEAN
    BY DEF Bit
  <2>3. e \in EtchingSet
    BY <1>1, <2>1, <2>2, TakenOption DEF EtchingSet
  <2>4. EtchingOf(p) = Some(e)
    BY <1>4 DEF EtchingOf
  <2> QED BY <2>3, <2>4 DEF Options
<1> QED BY <1>3, <1>4

(* The name that a cenotaph keeps is an etching of nothing else.           *)
LEMMA NameIn ==
  ASSUME NEW p \in Payloads
  PROVE  NameOnly(p) \in Options(EtchingSet)
<1> DEFINE e == [rune |-> EtchingOf(p)[1].rune, premine |-> None, terms |-> None, turbo |-> FALSE]
<1>1. CASE EtchingOf(p) # None /\ EtchingOf(p)[1].rune # None
  <2>1. EtchingOf(p)[1] \in EtchingSet
    BY <1>1, EtchingIn, OptionIn
  <2>2. e \in EtchingSet
    BY <2>1 DEF EtchingSet, Optional, Options
  <2> QED BY <1>1, <2>2 DEF NameOnly, Options
<1>2. CASE ~ (EtchingOf(p) # None /\ EtchingOf(p)[1].rune # None)
  BY <1>2 DEF NameOnly, Options
<1> QED BY <1>1, <1>2

(* The supply of an etching is a number.                                   *)
LEMMA DefaultNat ==
  ASSUME NEW o \in Optional
  PROVE  Default(o) \in Nat
  BY OptionIn DEF Default, Optional

LEMMA SupplyNat ==
  ASSUME NEW e \in EtchingSet
  PROVE  SupplyOf(e) \in Nat
<1>1. Default(e.premine) \in Nat
  BY DefaultNat DEF EtchingSet
<1>2. CASE e.terms = None
  BY <1>1, <1>2 DEF SupplyOf
<1>3. CASE e.terms # None
  <2>1. e.terms[1] \in TermsSet
    BY <1>3, OptionIn DEF EtchingSet
  <2>2. Default(e.terms[1].cap) \in Nat /\ Default(e.terms[1].amount) \in Nat
    BY <2>1, DefaultNat DEF TermsSet
  <2> QED BY <1>1, <1>3, <2>2, Distribute DEF SupplyOf
<1> QED BY <1>2, <1>3

(* A good edict has an amount and an output that is there.                 *)
LEMMA EdictsFit ==
  ASSUME NEW p \in Payloads, NEW outputs \in Nat
  PROVE  /\ GoodEdicts(p, outputs) \in Seq({GoodEdicts(p, outputs)[k] : k \in DOMAIN GoodEdicts(p, outputs)})
         /\ \A k \in DOMAIN GoodEdicts(p, outputs) :
              /\ GoodEdicts(p, outputs)[k].amount \in Nat
              /\ GoodEdicts(p, outputs)[k].output \in 0 .. outputs
<1> DEFINE body == BodyOf(p)
           n    == Len(body) \div 4
           IsGood(k) == EdictGood(p, k, outputs)
           Fits(m) == (\A k \in 1 .. m : IsGood(k)) /\ (m = n \/ ~ IsGood(m + 1))
           m    == CHOOSE m \in 0 .. n : Fits(m)
<1>1. BodyAt(p) \in 1 .. Len(p) + 1 /\ Len(p) \in Nat
  BY BodyFound DEF Payloads
<1>2. body \in Payloads /\ Len(body) \in Nat
  <2>1. \A i \in 1 .. Len(p) : p[i] \in 0 .. U128 - 1
    BY ElementOfSeq DEF Payloads
  <2>2. BodyAt(p) + 1 \in Int /\ Len(p) \in Int
    BY <1>1
  <2>3. \A i \in BodyAt(p) + 1 .. Len(p) : p[i] \in 0 .. U128 - 1
    BY <1>1, <2>1
  <2>4. body \in Payloads
    BY <2>2, <2>3, SubSeqProperties DEF BodyOf, Payloads
  <2> QED BY <2>4, LenProperties DEF Payloads
<1>3. n \in Nat /\ 4 * n <= Len(body)
  BY <1>2
<1>4. \E i \in 0 .. n : Fits(i)
  <2> DEFINE B == {i \in 0 .. n : i = n \/ ~ IsGood(i + 1)}
  <2>1. B \in SUBSET Nat /\ n \in B
    BY <1>3
  <2>2. PICK i \in B : \A j \in B : i <= j
    BY <2>1, MinNat
  <2>3. ASSUME NEW k \in 1 .. i PROVE IsGood(k)
    <3>1. k - 1 \in 0 .. n /\ ~ i <= k - 1 /\ k - 1 + 1 = k /\ k - 1 # n
      BY <1>3, <2>1, <2>2, <2>3
    <3> QED BY <2>2, <3>1
  <2>4. i \in 0 .. n /\ (i = n \/ ~ IsGood(i + 1))
    BY <2>2
  <2> HIDE DEF IsGood
  <2> QED BY <2>3, <2>4
<1>5. m \in 0 .. n /\ Fits(m)
  BY <1>4
<1>6. GoodEdicts(p, outputs)
        = [k \in 1 .. m |-> [id |-> EdictIds(p)[k][1], amount |-> body[4 * k - 1], output |-> body[4 * k]]]
  BY DEF GoodEdicts
<1>7. ASSUME NEW k \in 1 .. m
      PROVE  body[4 * k - 1] \in Nat /\ body[4 * k] \in 0 .. outputs
  <2>1. 4 * k - 1 \in 1 .. Len(body) /\ 4 * k \in 1 .. Len(body)
    BY <1>3, <1>5, <1>7
  <2>2. \A i \in 1 .. Len(body) : body[i] \in 0 .. U128 - 1
    BY <1>2, ElementOfSeq DEF Payloads
  <2>3. OutputFits(body[4 * k], outputs)
    BY <1>5, <1>7 DEF EdictGood
  <2> QED BY <2>1, <2>2, <2>3 DEF OutputFits
<1> DEFINE good == GoodEdicts(p, outputs)
<1> HIDE DEF m, body
<1>8. m \in Nat
  BY <1>3, <1>5
<1>9. DOMAIN good = 1 .. m /\ good = [k \in 1 .. m |-> good[k]]
  BY <1>6
<1>10. good \in [1 .. m -> {good[k] : k \in 1 .. m}]
  BY <1>9
<1>11. \A k \in 1 .. m : good[k].amount \in Nat /\ good[k].output \in 0 .. outputs
  BY <1>6, <1>7
<1> QED BY <1>8, <1>9, <1>10, <1>11

(* Whatever a message says, what is read from it is sound.                 *)
LEMMA DecipherSound ==
  ASSUME NEW t \in Txs
  PROVE  Sound(Decipher(t.message, Len(t.shape)), Len(t.shape))
<1> DEFINE n == Len(t.shape)
           p == t.message.payload
<1>1. n \in Nat /\ t.message.kind \in {"none", "garbled", "data"}
      /\ (t.message.kind = "data" => p \in Payloads)
  BY RunesAssumption DEF Payloads
<1>2. None \in Options(EtchingSet)
  BY DEF Options
<1>3. ASSUME NEW e \in Options(EtchingSet), NEW m PROVE Sound(Cenotaph(e, m), n)
  BY <1>3 DEF Sound, Cenotaph, NoArtifact, EdictsOf, None
<1>4. Sound(NoArtifact, n)
  BY <1>2 DEF Sound, NoArtifact, EdictsOf, None
<1>5. CASE t.message.kind = "data" /\ ~ Flawed(p, n)
  <2> DEFINE a == Runestone(p, n)
  <2>1. p \in Payloads
    BY <1>1, <1>5
  <2>2. /\ a.edicts \in Seq(EdictsOf(a))
        /\ \A e \in EdictsOf(a) : e.amount \in Nat /\ e.output \in 0 .. n
    BY <1>1, <2>1, EdictsFit DEF EdictsOf, Runestone
  <2>3. a.etching = EtchingOf(p) /\ a.etching \in Options(EtchingSet)
    BY <2>1, EtchingIn DEF Runestone
  <2>4. a.etching # None => SupplyOf(a.etching[1]) < U128
    <3>1. SUFFICES ASSUME a.etching # None PROVE SupplyOf(a.etching[1]) < U128
      OBVIOUS
    <3>2. a.etching[1] \in EtchingSet
      BY <2>3, <3>1, OptionIn
    <3>3. SupplyOf(a.etching[1]) \in Nat
      BY <3>2, SupplyNat
    <3>4. ~ SupplyOf(a.etching[1]) >= U128
      BY <1>5, <2>3, <3>1 DEF Flawed
    <3> QED BY <3>3, <3>4, RunesAssumption
  <2>5. a.pointer # None => a.pointer[1] \in 0 .. n - 1
    <3> DEFINE bound == IF n < U32 THEN n ELSE U32
    <3>1. bound \in Int /\ bound <= n
      BY <1>1, RunesAssumption
    <3>2. a.pointer = Take(p, Pointer, bound)
      BY DEF Runestone, PointerOf
    <3> HIDE DEF bound
    <3>3. a.pointer = None \/ \E v \in Nat : v < bound /\ a.pointer = Some(v)
      BY <2>1, <3>1, <3>2, TakenValue
    <3> QED BY <1>1, <3>1, <3>3, OptionIs
  <2>6. a.kind = "runestone"
    BY DEF Runestone
  <2>7. Decipher(t.message, n) = a
    BY <1>5 DEF Decipher
  <2>8. a.kind = "cenotaph" => a.edicts = << >>
    BY <2>6
  <2>9. Sound(a, n)
    <3> HIDE DEF a
    <3> QED BY <2>2, <2>3, <2>4, <2>5, <2>6, <2>8 DEF Sound
  <2> QED BY <2>7, <2>9
<1>6. CASE t.message.kind = "data" /\ Flawed(p, n)
  <2>1. p \in Payloads
    BY <1>1, <1>6
  <2>2. NameOnly(p) \in Options(EtchingSet)
    BY <2>1, NameIn
  <2>3. Decipher(t.message, n) = Cenotaph(NameOnly(p), MintOf(p))
    BY <1>6 DEF Decipher
  <2> QED BY <1>3, <2>2, <2>3
<1>7. CASE t.message.kind = "none"
  BY <1>4, <1>7 DEF Decipher
<1>8. CASE t.message.kind = "garbled"
  BY <1>2, <1>3, <1>8 DEF Decipher
<1> QED BY <1>1, <1>5, <1>6, <1>7, <1>8

-----------------------------------------------------------------------------
(* The inductive invariant *)

Artifacts == {NoArtifact} \cup {Decipher(t.message, Len(t.shape)) : t \in Txs}
AllEdicts == UNION {EdictsOf(a) : a \in Artifacts}
EntrySet  == [rune : Nat, premine : Nat, terms : Options(TermsSet), mints : Nat, burned : Nat]
SpreadSet == [id : Ids \cup {NoRune}, each : Nat, remainder : Nat, amount : Nat, outs : SUBSET Outs]
TxSet ==
  [phase : {"idle", "inputs", "etch", "edicts", "rest", "outputs"}, shape : Seq(BOOLEAN),
   artifact : Artifacts, commits : BOOLEAN, inputs : SUBSET Outpoints, etched : Options(EntrySet),
   edicts : Seq(AllEdicts), spread : SpreadSet, vout : Nat]

TypeInv ==
  /\ height \in 1 .. MaxHeight + 1 /\ index \in 0 .. MaxTx + 1
  /\ entries \in [Ids -> Options(EntrySet)]
  /\ balances \in [Outpoints -> Amounts] /\ allocated \in [Outs -> Amounts]
  /\ burned \in Amounts /\ unallocated \in Amounts /\ txBurned \in Amounts
  /\ net \in [Ids -> Int]
  /\ tx \in TxSet
  /\ panicked \in BOOLEAN

(* The transactions that are behind: what they did is done.                *)
Done(id) == id[1] < height \/ (id[1] = height /\ id[2] < index)

(* Runes and outputs are those of transactions that are behind, or of the  *)
(* one in progress, which makes its rune before its outputs.               *)
PlaceInv ==
  /\ tx.phase # "idle" => Here \in Ids
  /\ \A id \in Ids : Etched(id) => Done(id) \/ (id = Here /\ tx.phase \in {"rest", "outputs"})
  /\ \A o \in Outpoints :
       balances[o] # Zero => Done(o[1]) \/ (o[1] = Here /\ tx.phase = "outputs" /\ o[2] < tx.vout)

(* What the transaction in progress holds in each phase.                   *)
PhaseInv ==
  /\ Len(tx.shape) <= MaxOutputs /\ tx.vout >= 1
  /\ Sound(tx.artifact, Len(tx.shape))
  /\ tx.edicts \in Seq(EdictsOf(tx.artifact))
  /\ tx.phase = "idle" => tx = Idle
  /\ tx.phase \in {"idle", "outputs"} => unallocated = Zero
  /\ tx.phase # "outputs" => txBurned = Zero /\ tx.vout = 1
  /\ tx.phase # "edicts" => tx.etched = None /\ tx.spread.outs = {}
  /\ tx.phase \in {"idle", "inputs", "etch"} => tx.edicts = << >>
  /\ \A v \in Outs :
       allocated[v] # Zero =>
         /\ tx.phase \in {"edicts", "rest", "outputs"}
         /\ v >= tx.vout /\ v <= Len(tx.shape)
         /\ tx.artifact.kind # "cenotaph"

(* An edict in progress asks for no more than there is.                    *)
SpreadInv ==
  tx.spread.outs # {} =>
    /\ tx.artifact.kind # "cenotaph"
    /\ tx.spread.id \in Ids
    /\ tx.spread.outs \subseteq 1 .. Len(tx.shape)
    /\ tx.spread.amount = 0 =>
         /\ unallocated[tx.spread.id]
              = tx.spread.each * Cardinality(tx.spread.outs) + tx.spread.remainder
         /\ tx.spread.remainder <= Cardinality(tx.spread.outs)

(* What a rune can come to is a u128, and no more of it is minted.         *)
Limit(e) == e.premine + (IF e.terms = None THEN 0
                         ELSE Default(e.terms[1].cap) * Default(e.terms[1].amount))
Capped(e) ==
  /\ Limit(e) < U128
  /\ e.mints <= (IF e.terms = None THEN 0 ELSE Default(e.terms[1].cap))
EntryInv ==
  /\ \A id \in Ids : Etched(id) => Capped(Entry(id))
  /\ tx.etched # None =>
       Capped(tx.etched[1]) /\ tx.etched[1].mints = 0 /\ tx.etched[1].burned = 0

(* A rune has a name that somebody chose, or the one of its place.         *)
Unnamed(id) == Reserved + id[1] * U32 + id[2]
NameInv ==
  /\ \A id \in Ids : Etched(id) => Entry(id).rune < Reserved \/ Entry(id).rune = Unnamed(id)
  /\ NamesUnique
  /\ tx.etched # None =>
       \/ tx.etched[1].rune < Reserved /\ ~ Taken(tx.etched[1].rune)
       \/ tx.etched[1].rune = Unnamed(Here)

(* The event lines of the transaction in progress are what it still holds. *)
NetInv == \A id \in Ids : net[id] = InTx(id)

IInv ==
  /\ TypeInv /\ PlaceInv /\ PhaseInv /\ SpreadInv /\ EntryInv /\ NameInv
  /\ Conserved /\ NetInv /\ NoPanic

-----------------------------------------------------------------------------
(* Sums *)

LEMMA Finite == IsFiniteSet(Outs) /\ IsFiniteSet(Outpoints)
<1>1. IsFiniteSet(Outs) /\ IsFiniteSet(Heights) /\ IsFiniteSet(0 .. MaxTx)
  BY FS_Interval, RunesAssumption DEF Outs, Heights
<1>2. IsFiniteSet(Ids)
  BY <1>1, FS_Product DEF Ids
<1> QED BY <1>1, <1>2, FS_Product DEF Outpoints

(* What all outputs hold of a rune, and what is dealt out to those of the  *)
(* transaction in progress.                                                *)
HeldIn(b, id)  == SumFunctionOnSet([o \in Outpoints |-> b[o][id]], Outpoints)
DealtIn(a, id) == SumFunctionOnSet([v \in Outs |-> a[v][id]], Outs)

LEMMA ZeroIn == Zero \in Amounts /\ \A id \in Ids : Zero[id] = 0
  BY DEF Zero, Amounts

LEMMA HeldNat ==
  ASSUME NEW b \in [Outpoints -> Amounts], NEW id \in Ids
  PROVE  HeldIn(b, id) \in Nat
<1> DEFINE F == [o \in Outpoints |-> b[o][id]]
<1>1. \A o \in Outpoints : F[o] \in Nat
  BY DEF Amounts
<1> HIDE DEF F
<1>2. SumFunctionOnSet(F, Outpoints) \in Nat
  BY <1>1, SumNat, Finite
<1> QED BY <1>2 DEF HeldIn, F

LEMMA DealtNat ==
  ASSUME NEW a \in [Outs -> Amounts], NEW id \in Ids
  PROVE  DealtIn(a, id) \in Nat /\ \A v \in Outs : a[v][id] <= DealtIn(a, id)
<1> DEFINE F == [v \in Outs |-> a[v][id]]
<1>1. \A v \in Outs : F[v] \in Nat /\ F[v] = a[v][id]
  BY DEF Amounts
<1> HIDE DEF F
<1>2. SumFunctionOnSet(F, Outs) \in Nat
  BY <1>1, SumNat, Finite
<1>3. \A v \in Outs : F[v] <= SumFunctionOnSet(F, Outs)
  BY <1>1, SumMember, Finite
<1>4. DealtIn(a, id) = SumFunctionOnSet(F, Outs)
  BY DEF DealtIn, F
<1> QED BY <1>1, <1>2, <1>3, <1>4

(* What is held when the balances of one output change.                    *)
LEMMA HeldChange ==
  ASSUME NEW b \in [Outpoints -> Amounts], NEW o \in Outpoints, NEW f \in Amounts, NEW id \in Ids
  PROVE  HeldIn([b EXCEPT ![o] = f], id) = HeldIn(b, id) - b[o][id] + f[id]
<1> DEFINE c == [b EXCEPT ![o] = f]
           F == [q \in Outpoints |-> b[q][id]]
           G == [q \in Outpoints |-> c[q][id]]
<1>1. \A q \in Outpoints : F[q] \in Nat /\ G[q] \in Nat
  BY DEF Amounts
<1>2. \A q \in Outpoints \ {o} : G[q] = F[q]
  OBVIOUS
<1>3. F[o] = b[o][id] /\ G[o] = f[id]
  OBVIOUS
<1>4. HeldIn(b, id) = SumFunctionOnSet(F, Outpoints) /\ HeldIn(c, id) = SumFunctionOnSet(G, Outpoints)
  BY DEF HeldIn
<1> HIDE DEF F, G, c
<1>5. SumFunctionOnSet(G, Outpoints) = SumFunctionOnSet(F, Outpoints) - F[o] + G[o]
  BY <1>1, <1>2, SumChange, Finite
<1> QED BY <1>3, <1>4, <1>5 DEF c

(* What is dealt out when the share of one output changes.                 *)
LEMMA DealtChange ==
  ASSUME NEW a \in [Outs -> Amounts], NEW v \in Outs, NEW f \in Amounts, NEW id \in Ids
  PROVE  DealtIn([a EXCEPT ![v] = f], id) = DealtIn(a, id) - a[v][id] + f[id]
<1> DEFINE c == [a EXCEPT ![v] = f]
           F == [w \in Outs |-> a[w][id]]
           G == [w \in Outs |-> c[w][id]]
<1>1. \A w \in Outs : F[w] \in Nat /\ G[w] \in Nat
  BY DEF Amounts
<1>2. \A w \in Outs \ {v} : G[w] = F[w]
  OBVIOUS
<1>3. F[v] = a[v][id] /\ G[v] = f[id]
  OBVIOUS
<1>4. DealtIn(a, id) = SumFunctionOnSet(F, Outs) /\ DealtIn(c, id) = SumFunctionOnSet(G, Outs)
  BY DEF DealtIn
<1> HIDE DEF F, G, c
<1>5. SumFunctionOnSet(G, Outs) = SumFunctionOnSet(F, Outs) - F[v] + G[v]
  BY <1>1, <1>2, SumChange, Finite
<1> QED BY <1>3, <1>4, <1>5 DEF c

LEMMA NoneDealt ==
  ASSUME NEW a, \A v \in Outs : a[v] = Zero, NEW id \in Ids
  PROVE  DealtIn(a, id) = 0
<1>1. \A v \in Outs : [w \in Outs |-> a[w][id]][v] = 0
  BY ZeroIn
<1> QED BY <1>1, SumZero, Finite DEF DealtIn

LEMMA NoneHeld ==
  ASSUME NEW b, \A o \in Outpoints : b[o] = Zero, NEW id \in Ids
  PROVE  HeldIn(b, id) = 0
<1>1. \A o \in Outpoints : [q \in Outpoints |-> b[q][id]][o] = 0
  BY ZeroIn
<1> QED BY <1>1, SumZero, Finite DEF HeldIn

LEMMA Totals ==
  /\ \A id \in Ids : Held(id) = HeldIn(balances, id)
  /\ \A id \in Ids : InTx(id) = unallocated[id] + DealtIn(allocated, id) + txBurned[id]
  /\ \A id \in Ids : Held(id)' = HeldIn(balances', id)
  /\ \A id \in Ids : InTx(id)' = unallocated'[id] + DealtIn(allocated', id) + txBurned'[id]
  BY DEF Held, InTx, HeldIn, DealtIn

LEMMA PlusIn ==
  ASSUME NEW f \in Amounts, NEW g \in Amounts
  PROVE  Plus(f, g) \in Amounts /\ \A id \in Ids : Plus(f, g)[id] = f[id] + g[id]
  BY DEF Plus, Amounts

LEMMA AddIn ==
  ASSUME NEW f \in Amounts, NEW i \in Ids, NEW n \in Int, f[i] + n \in Nat
  PROVE  /\ Add(f, i, n) \in Amounts
         /\ \A id \in Ids : Add(f, i, n)[id] = IF id = i THEN f[id] + n ELSE f[id]
  BY DEF Add, Amounts

(* Two maps are the same if all their amounts are.                         *)
LEMMA SameAmounts ==
  ASSUME NEW f \in Amounts, NEW g \in Amounts, \A id \in Ids : f[id] = g[id]
  PROVE  f = g
  BY DEF Amounts

LEMMA MinusIn ==
  ASSUME NEW f \in [Ids -> Int], NEW g \in Amounts
  PROVE  Minus(f, g) \in [Ids -> Int] /\ \A id \in Ids : Minus(f, g)[id] = f[id] - g[id]
  BY DEF Minus, Amounts

-----------------------------------------------------------------------------
(* Entries *)

(* Of a rune whose mints are capped no more was issued than it can come to.*)
LEMMA CappedIssued ==
  ASSUME NEW e \in EntrySet, Capped(e)
  PROVE  Issued(e) \in Nat /\ Issued(e) < U128
<1>1. e.premine \in Nat /\ e.mints \in Nat /\ e.terms \in Options(TermsSet)
  BY DEF EntrySet
<1>2. U128 \in Nat
  BY RunesAssumption
<1>3. CASE e.terms = None
  BY <1>1, <1>2, <1>3 DEF Capped, Limit, Issued
<1>4. CASE e.terms # None
  <2> DEFINE cap == Default(e.terms[1].cap)
             amount == Default(e.terms[1].amount)
  <2>1. cap \in Nat /\ amount \in Nat
    BY <1>1, <1>4, OptionIn, DefaultNat DEF TermsSet
  <2>2. e.mints <= cap /\ e.premine + cap * amount < U128 /\ Issued(e) = e.premine + e.mints * amount
    BY <1>4 DEF Capped, Limit, Issued
  <2> HIDE DEF cap, amount
  <2>3. e.mints * amount <= cap * amount /\ e.mints * amount \in Nat /\ cap * amount \in Nat
    BY <1>1, <2>1, <2>2, Monotone, Distribute
  <2> QED BY <1>1, <1>2, <2>2, <2>3
<1> QED BY <1>3, <1>4

LEMMA IssuedNat ==
  TypeInv /\ EntryInv => \A id \in Ids : IssuedOf(id) \in Nat /\ IssuedOf(id) < U128
<1> SUFFICES ASSUME TypeInv, EntryInv, NEW id \in Ids
             PROVE  IssuedOf(id) \in Nat /\ IssuedOf(id) < U128
  OBVIOUS
<1>1. CASE Etched(id)
  <2>1. Entry(id) \in EntrySet
    BY <1>1, OptionIn DEF TypeInv, Etched, Entry
  <2> QED BY <1>1, <2>1, CappedIssued DEF EntryInv, IssuedOf
<1>2. CASE ~ Etched(id) /\ id = Here /\ tx.etched # None
  <2>1. tx.etched[1] \in EntrySet
    BY <1>2, OptionIn DEF TypeInv, TxSet
  <2> QED BY <1>2, <2>1, CappedIssued DEF EntryInv, IssuedOf
<1>3. CASE ~ Etched(id) /\ ~ (id = Here /\ tx.etched # None)
  BY <1>3, RunesAssumption DEF IssuedOf
<1> QED BY <1>1, <1>2, <1>3

LEMMA BurnedNat ==
  TypeInv => \A id \in Ids : Burned(id) \in Nat /\ burned[id] <= Burned(id)
<1> SUFFICES ASSUME TypeInv, NEW id \in Ids
             PROVE  Burned(id) \in Nat /\ burned[id] <= Burned(id)
  OBVIOUS
<1>1. burned[id] \in Nat
  BY DEF TypeInv, Amounts
<1>2. CASE Etched(id)
  <2>1. Entry(id) \in EntrySet
    BY <1>2, OptionIn DEF TypeInv, Etched, Entry
  <2> QED BY <1>1, <1>2, <2>1 DEF Burned, EntrySet
<1>3. CASE ~ Etched(id)
  BY <1>1, <1>3 DEF Burned
<1> QED BY <1>2, <1>3

(* Nothing that the indexer adds up is more than a rune can come to.       *)
Fits ==
  \A id \in Ids :
    /\ unallocated[id] < U128 /\ txBurned[id] < U128 /\ Burned(id) < U128
    /\ \A v \in Outs : allocated[v][id] < U128

LEMMA AllFits == TypeInv /\ EntryInv /\ Conserved => Fits
<1> SUFFICES ASSUME TypeInv, EntryInv, Conserved, NEW id \in Ids
             PROVE  /\ unallocated[id] < U128 /\ txBurned[id] < U128 /\ Burned(id) < U128
                    /\ \A v \in Outs : allocated[v][id] < U128
  BY DEF Fits
<1>1. IssuedOf(id) \in Nat /\ IssuedOf(id) < U128 /\ U128 \in Nat
  BY IssuedNat, RunesAssumption
<1>2. HeldIn(balances, id) \in Nat /\ DealtIn(allocated, id) \in Nat /\ Burned(id) \in Nat
      /\ unallocated[id] \in Nat /\ txBurned[id] \in Nat
  BY HeldNat, DealtNat, BurnedNat DEF TypeInv, Amounts
<1>3. IssuedOf(id) = HeldIn(balances, id) + unallocated[id] + DealtIn(allocated, id) + txBurned[id]
                     + Burned(id)
  BY <1>2, Totals DEF Conserved
<1>4. \A v \in Outs : allocated[v][id] \in Nat /\ allocated[v][id] <= DealtIn(allocated, id)
  BY DealtNat DEF TypeInv, Amounts
<1> QED BY <1>1, <1>2, <1>3, <1>4

LEMMA AllFitsNext == TypeInv' /\ EntryInv' /\ Conserved' => Fits'
  BY AllFits, PTL

LEMMA BurnedNatNext ==
  TypeInv' => \A id \in Ids : Burned(id)' \in Nat /\ burned'[id] <= Burned(id)'
<1>1. TypeInv => \A id \in Ids : Burned(id) \in Nat /\ burned[id] <= Burned(id)
  BY BurnedNat
<1>2. TypeInv' => (\A id \in Ids : Burned(id) \in Nat /\ burned[id] <= Burned(id))'
  BY <1>1, PTL
<1> QED BY <1>2

(* What a step leaves as it is when it touches no entry.                   *)
LEMMA Stays ==
  ASSUME UNCHANGED <<height, index, entries>>, tx'.etched = tx.etched
  PROVE  /\ NameInv => NameInv'
         /\ EntryInv => EntryInv'
         /\ \A id \in Ids : IssuedOf(id)' = IssuedOf(id)
         /\ burned' = burned => \A id \in Ids : Burned(id)' = Burned(id)
<1>1. \A id \in Ids : Etched(id)' = Etched(id) /\ Entry(id)' = Entry(id)
  BY DEF Etched, Entry
<1>2. Here' = Here
  BY DEF Here
<1>3. \A name : Taken(name)' = Taken(name)
  BY DEF Taken, Etched, Entry
<1>4. NameInv => NameInv'
  BY DEF NameInv, NamesUnique, Taken, Etched, Entry, Unnamed, Here
<1>5. EntryInv => EntryInv'
  BY DEF EntryInv, Etched, Entry
<1>6. \A id \in Ids : IssuedOf(id)' = IssuedOf(id)
  BY DEF IssuedOf, Etched, Entry, Here
<1>7. burned' = burned => \A id \in Ids : Burned(id)' = Burned(id)
  BY DEF Burned, Etched, Entry
<1> QED BY <1>4, <1>5, <1>6, <1>7

-----------------------------------------------------------------------------
(* The initial state, and each action by itself *)

LEMMA IdleIn ==
  /\ Idle \in TxSet /\ Idle.phase = "idle" /\ Idle.shape = << >> /\ Idle.vout = 1
  /\ Idle.etched = None /\ Idle.spread = Nothing /\ Nothing.outs = {} /\ Idle.edicts = << >>
  /\ Idle.artifact = NoArtifact /\ Sound(NoArtifact, 0) /\ Len(<< >>) = 0
<1>1. Nothing \in SpreadSet
  BY DEF Nothing, SpreadSet
<1>2. NoArtifact \in Artifacts /\ None \in Options(EntrySet)
  BY DEF Artifacts, Options
<1>3. Idle \in TxSet
  BY <1>1, <1>2 DEF Idle, TxSet
<1>4. Sound(NoArtifact, 0)
  BY DEF Sound, NoArtifact, EdictsOf, None, Options
<1> QED BY <1>3, <1>4 DEF Idle, Nothing

LEMMA InitIInv == Init => IInv
<1> SUFFICES ASSUME Init PROVE IInv
  OBVIOUS
<1>1. TypeInv
  <2>1. entries \in [Ids -> Options(EntrySet)]
    BY DEF Init, Options
  <2>2. 1 \in 1 .. MaxHeight + 1 /\ 0 \in 0 .. MaxTx + 1
    BY RunesAssumption
  <2>3. Zero \in [Ids -> Int]
    BY DEF Zero
  <2> QED BY <2>1, <2>2, <2>3, IdleIn, ZeroIn DEF Init, TypeInv
<1>2. \A id \in Ids : ~ Etched(id)
  BY DEF Init, Etched
<1>3. PlaceInv
  BY <1>2, IdleIn DEF Init, PlaceInv
<1>4. PhaseInv
  <2>1. << >> \in Seq(EdictsOf(NoArtifact)) /\ 0 <= MaxOutputs
    BY RunesAssumption
  <2> QED BY <2>1, IdleIn DEF Init, PhaseInv
<1>5. SpreadInv
  BY IdleIn DEF Init, SpreadInv
<1>6. EntryInv /\ NameInv
  BY <1>2, IdleIn DEF Init, EntryInv, NameInv, NamesUnique
<1>7. Conserved
  <2>1. ASSUME NEW id \in Ids PROVE IssuedOf(id) = Held(id) + InTx(id) + Burned(id)
    <3>1. IssuedOf(id) = 0 /\ Burned(id) = 0
      BY <1>2, IdleIn, ZeroIn DEF Init, IssuedOf, Burned
    <3>2. Held(id) = 0
      BY NoneHeld, Totals DEF Init
    <3>3. InTx(id) = 0
      BY NoneDealt, Totals, ZeroIn DEF Init
    <3> QED BY <3>1, <3>2, <3>3
  <2> QED BY <2>1 DEF Conserved
<1>8. NetInv
  BY NoneDealt, Totals, ZeroIn DEF Init, NetInv
<1>9. NoPanic
  BY DEF Init, NoPanic
<1> QED BY <1>1, <1>3, <1>4, <1>5, <1>6, <1>7, <1>8, <1>9 DEF IInv

LEMMA BeginStep ==
  ASSUME IInv, NEW t \in Txs, NEW inputs \in SUBSET Holding, Begin(t, inputs)
  PROVE  IInv'
<1> USE DEF IInv
<1>1. /\ tx'.phase = "inputs" /\ tx'.shape = t.shape /\ tx'.commits = t.commits
      /\ tx'.artifact = Decipher(t.message, Len(t.shape)) /\ tx'.inputs = inputs
      /\ tx'.etched = None /\ tx'.edicts = << >> /\ tx'.spread = Nothing /\ tx'.vout = 1
  BY DEF Begin, Idle
<1>2. tx = Idle /\ tx.phase = "idle"
  BY DEF Begin, PhaseInv
<1>3. TypeInv'
  <2>1. inputs \in SUBSET Outpoints
    BY DEF Holding
  <2>2. Decipher(t.message, Len(t.shape)) \in Artifacts
    BY DEF Artifacts
  <2>3. t.shape \in Seq(BOOLEAN) /\ t.commits \in BOOLEAN
    BY RunesAssumption
  <2>4. tx' \in TxSet
    BY <2>1, <2>2, <2>3, IdleIn DEF Begin, TxSet
  <2> QED BY <2>4 DEF Begin, TypeInv
<1>4. PlaceInv'
  <2>1. Here \in Ids
    BY DEF Begin, TypeInv, Here, Ids
  <2> QED BY <1>1, <1>2, <2>1 DEF Begin, PlaceInv, Here, Done, Etched
<1>5. PhaseInv'
  <2>1. Sound(tx'.artifact, Len(tx'.shape)) /\ Len(tx'.shape) <= MaxOutputs
    BY <1>1, DecipherSound, RunesAssumption
  <2>2. \A v \in Outs : allocated[v] = Zero
    BY <1>2 DEF PhaseInv
  <2>3. txBurned = Zero
    BY <1>2 DEF PhaseInv
  <2>4. tx'.edicts \in Seq(EdictsOf(tx'.artifact))
    BY <1>1
  <2> QED BY <1>1, <2>1, <2>2, <2>3, <2>4, IdleIn DEF Begin, PhaseInv
<1>6. SpreadInv'
  BY <1>1, IdleIn DEF SpreadInv
<1>7. tx'.etched = tx.etched
  BY <1>1, <1>2, IdleIn
<1>8. NameInv' /\ EntryInv'
  BY <1>7, Stays DEF Begin
<1>9. Conserved'
  BY <1>7, Stays, Totals DEF Begin, Conserved
<1>10. NetInv'
  BY Totals DEF Begin, NetInv
<1>11. NoPanic'
  BY DEF Begin, NoPanic
<1> QED BY <1>3, <1>4, <1>5, <1>6, <1>8, <1>9, <1>10, <1>11

LEMMA TakeInputStep ==
  ASSUME IInv, NEW o \in Outpoints, TakeInput(o)
  PROVE  IInv'
<1> USE DEF IInv
<1>1. tx \in TxSet /\ tx.phase = "inputs" /\ o \in tx.inputs
  BY DEF TakeInput, TypeInv
<1>2. /\ tx'.phase = tx.phase /\ tx'.shape = tx.shape /\ tx'.artifact = tx.artifact
      /\ tx'.etched = tx.etched /\ tx'.edicts = tx.edicts /\ tx'.spread = tx.spread
      /\ tx'.vout = tx.vout /\ tx' \in TxSet
  BY <1>1 DEF TakeInput, TxSet
<1>3. /\ balances \in [Outpoints -> Amounts] /\ allocated \in [Outs -> Amounts]
      /\ balances[o] \in Amounts /\ unallocated \in Amounts /\ net \in [Ids -> Int]
  BY DEF TypeInv
<1>4. /\ unallocated' \in Amounts /\ net' \in [Ids -> Int]
      /\ \A id \in Ids : unallocated'[id] = unallocated[id] + balances[o][id]
      /\ \A id \in Ids : net'[id] = net[id] + balances[o][id]
  BY <1>3 DEF TakeInput, Plus, Amounts
<1>5. TypeInv'
  BY <1>2, <1>3, <1>4, ZeroIn DEF TakeInput, TypeInv, Overflows
<1>6. PlaceInv'
  BY <1>2, <1>3 DEF TakeInput, PlaceInv, Here, Done, Etched
<1>7. PhaseInv'
  BY <1>1, <1>2 DEF TakeInput, PhaseInv
<1>8. SpreadInv'
  BY <1>1, <1>2 DEF SpreadInv, PhaseInv
<1>9. NameInv' /\ EntryInv'
  BY <1>2, Stays DEF TakeInput
<1>10. Conserved'
  <2>1. ASSUME NEW id \in Ids PROVE IssuedOf(id)' = Held(id)' + InTx(id)' + Burned(id)'
    <3>1. IssuedOf(id)' = IssuedOf(id) /\ Burned(id)' = Burned(id)
      BY <1>2, Stays DEF TakeInput
    <3>2. HeldIn(balances', id) = HeldIn(balances, id) - balances[o][id] + Zero[id]
      BY <1>3, HeldChange, ZeroIn DEF TakeInput
    <3>3. /\ HeldIn(balances, id) \in Nat /\ DealtIn(allocated, id) \in Nat /\ Burned(id) \in Nat
          /\ unallocated[id] \in Nat /\ txBurned[id] \in Nat /\ balances[o][id] \in Nat
      BY <1>3, HeldNat, DealtNat, BurnedNat DEF TypeInv, Amounts
    <3>4. IssuedOf(id) = Held(id) + InTx(id) + Burned(id)
      BY DEF Conserved
    <3>5. allocated' = allocated /\ txBurned' = txBurned
      BY DEF TakeInput
    <3> QED BY <1>4, <3>1, <3>2, <3>3, <3>4, <3>5, Totals, ZeroIn
  <2> QED BY <2>1 DEF Conserved
<1>11. NetInv'
  <2>1. ASSUME NEW id \in Ids PROVE net'[id] = InTx(id)'
    <3>1. /\ DealtIn(allocated, id) \in Nat
          /\ unallocated[id] \in Nat /\ txBurned[id] \in Nat /\ balances[o][id] \in Nat
      BY <1>3, DealtNat DEF TypeInv, Amounts
    <3>2. allocated' = allocated /\ txBurned' = txBurned /\ net[id] = InTx(id)
      BY DEF TakeInput, NetInv
    <3> QED BY <1>4, <3>1, <3>2, Totals
  <2> QED BY <2>1 DEF NetInv
<1>12. NoPanic'
  <2>1. Fits'
    BY <1>5, <1>9, <1>10, AllFitsNext
  <2>2. \A id \in Ids : unallocated'[id] < U128
    BY <2>1 DEF Fits
  <2> QED BY <1>4, <2>2, RunesAssumption DEF TakeInput, NoPanic, Overflows, Amounts
<1> QED BY <1>5, <1>6, <1>7, <1>8, <1>9, <1>10, <1>11, <1>12

(* The names stay when no rune gets another one.                           *)
LEMMA NamesKept ==
  ASSUME NameInv, tx'.etched = tx.etched, tx.etched # None => UNCHANGED <<height, index>>,
         \A j \in Ids : Etched(j)' = Etched(j) /\ (Etched(j) => Entry(j)'.rune = Entry(j).rune)
  PROVE  NameInv'
<1>1. NamesUnique'
  BY DEF NameInv, NamesUnique
<1>2. \A j \in Ids : Etched(j)' => Entry(j)'.rune < Reserved \/ Entry(j)'.rune = Unnamed(j)
  BY DEF NameInv
<1>3. CASE tx.etched = None
  BY <1>1, <1>2, <1>3 DEF NameInv, Unnamed
<1>4. CASE tx.etched # None
  <2> DEFINE name == tx.etched[1].rune
  <2>1. (name < Reserved /\ ~ Taken(name)) \/ name = Unnamed(Here)
    BY <1>4 DEF NameInv
  <2>2. Taken(name) = \E j \in Ids : Etched(j)' /\ Entry(j)'.rune = name
    BY DEF Taken
  <2>3. Unnamed(Here)' = Unnamed(Here)
    BY <1>4 DEF Unnamed, Here
  <2>4. tx'.etched[1].rune = name
    OBVIOUS
  <2>5. Taken(tx.etched[1].rune)' = Taken(name)
    BY <2>2 DEF Taken
  <2> HIDE DEF name
  <2>6. \/ tx'.etched[1].rune < Reserved /\ ~ Taken(tx.etched[1].rune)'
        \/ tx'.etched[1].rune = Unnamed(Here)'
    BY <2>1, <2>3, <2>4, <2>5
  <2> QED BY <1>1, <1>2, <2>6 DEF NameInv, Unnamed
<1> QED BY <1>3, <1>4

(* The cases of MintRune: nothing is minted, or one more of a rune is.     *)
LEMMA MintNothing ==
  ASSUME IInv, MintRune, UNCHANGED <<entries, unallocated, net, panicked>>
  PROVE  IInv'
<1> USE DEF IInv
<1>1. tx \in TxSet /\ tx.phase = "inputs"
  BY DEF MintRune, TypeInv
<1>2. /\ tx'.phase = "etch" /\ tx'.shape = tx.shape /\ tx'.artifact = tx.artifact
      /\ tx'.etched = tx.etched /\ tx'.edicts = tx.edicts /\ tx'.spread = tx.spread
      /\ tx'.vout = tx.vout /\ tx' \in TxSet
  BY <1>1 DEF MintRune, TxSet
<1>3. UNCHANGED <<height, index, balances, burned, allocated, txBurned>>
  BY DEF MintRune
<1>4. TypeInv'
  BY <1>2, <1>3 DEF TypeInv
<1>5. PlaceInv'
  BY <1>1, <1>2, <1>3 DEF PlaceInv, Here, Done, Etched
<1>6. PhaseInv'
  BY <1>1, <1>2, <1>3 DEF PhaseInv
<1>7. SpreadInv'
  BY <1>1, <1>2 DEF SpreadInv, PhaseInv
<1>8. NameInv' /\ EntryInv'
  BY <1>2, <1>3, Stays
<1>9. Conserved'
  BY <1>2, <1>3, Stays, Totals DEF Conserved
<1>10. NetInv'
  BY <1>3, Totals DEF NetInv
<1>11. NoPanic'
  BY DEF NoPanic
<1> QED BY <1>4, <1>5, <1>6, <1>7, <1>8, <1>9, <1>10, <1>11

LEMMA MintOne ==
  ASSUME IInv, MintRune, NEW id \in Ids, Mintable(id),
         NEW amount, amount = Default(Entry(id).terms[1].amount),
         entries' = [entries EXCEPT ![id] = Some([Entry(id) EXCEPT !.mints = @ + 1])],
         unallocated' = Add(unallocated, id, amount),
         net' = Add(net, id, amount),
         panicked' = Overflows(unallocated')
  PROVE  IInv'
<1> USE DEF IInv
<1> DEFINE e == Entry(id)
           more == [e EXCEPT !.mints = e.mints + 1]
<1>1. tx \in TxSet /\ tx.phase = "inputs" /\ entries \in [Ids -> Options(EntrySet)]
  BY DEF MintRune, TypeInv
<1>2. /\ tx'.phase = "etch" /\ tx'.shape = tx.shape /\ tx'.artifact = tx.artifact
      /\ tx'.etched = tx.etched /\ tx'.edicts = tx.edicts /\ tx'.spread = tx.spread
      /\ tx'.vout = tx.vout /\ tx' \in TxSet
  BY <1>1 DEF MintRune, TxSet
<1>3. UNCHANGED <<height, index, balances, burned, allocated, txBurned>>
  BY DEF MintRune
<1>4. e \in EntrySet /\ Etched(id) /\ e.terms # None /\ e.mints < Default(e.terms[1].cap)
  <2>1. Etched(id) /\ e.terms # None
    BY DEF Mintable
  <2>2. e \in EntrySet
    BY <1>1, <2>1, OptionIn DEF Etched, Entry
  <2>3. e.mints < Default(e.terms[1].cap)
    BY DEF Mintable
  <2> QED BY <2>1, <2>2, <2>3
<1>5. Default(e.terms[1].cap) \in Nat /\ amount \in Nat
  <2>1. e.terms[1] \in TermsSet
    BY <1>4, OptionIn DEF EntrySet
  <2> QED BY <2>1, DefaultNat DEF TermsSet
<1>6. /\ more \in EntrySet /\ more.rune = e.rune /\ more.premine = e.premine
      /\ more.terms = e.terms /\ more.burned = e.burned /\ more.mints = e.mints + 1
  BY <1>4 DEF EntrySet
<1>7. entries'[id] = Some(more) /\ \A j \in Ids \ {id} : entries'[j] = entries[j]
  <2>1. entries' = [entries EXCEPT ![id] = Some(more)]
    OBVIOUS
  <2>2. \A j \in Ids \ {id} : entries'[j] = entries[j]
    BY <1>1
  <2> QED BY <1>1, <2>1, <2>2
<1>8. \A j \in Ids : /\ Etched(j)' = Etched(j)
                     /\ j # id => Entry(j)' = Entry(j)
  BY <1>4, <1>7, OptionIs DEF Etched, Entry
<1>9. Entry(id)' = more
  BY <1>7, OptionIs DEF Entry
<1> HIDE DEF e, more
<1>10. /\ unallocated' \in Amounts /\ net' \in [Ids -> Int]
       /\ \A j \in Ids : unallocated'[j] = IF j = id THEN unallocated[j] + amount ELSE unallocated[j]
       /\ \A j \in Ids : net'[j] = IF j = id THEN net[j] + amount ELSE net[j]
  <2>1. unallocated \in Amounts /\ net \in [Ids -> Int]
    BY DEF TypeInv
  <2> QED BY <1>5, <2>1 DEF Add, Amounts
<1>11. TypeInv'
  <2>1. entries' \in [Ids -> Options(EntrySet)]
    <3>1. Some(more) \in Options(EntrySet)
      BY <1>6 DEF Options
    <3>2. entries' = [j \in Ids |-> IF j = id THEN Some(more) ELSE entries[j]]
      BY <1>1, <1>7
    <3> QED BY <1>1, <3>1, <3>2
  <2> QED BY <1>2, <1>3, <1>10, <2>1 DEF TypeInv, Overflows
<1>12. PlaceInv'
  BY <1>1, <1>2, <1>3, <1>8 DEF PlaceInv, Here, Done
<1>13. PhaseInv'
  BY <1>1, <1>2, <1>3 DEF PhaseInv
<1>14. SpreadInv'
  BY <1>1, <1>2 DEF SpreadInv, PhaseInv
<1>15. EntryInv'
  <2>1. Capped(more)
    <3>1. Capped(e)
      BY <1>4 DEF EntryInv, e
    <3>2. Limit(more) = Limit(e)
      BY <1>6 DEF Limit
    <3> QED BY <1>4, <1>5, <1>6, <3>1, <3>2 DEF Capped, EntrySet
  <2> QED BY <1>2, <1>8, <1>9, <2>1 DEF EntryInv
<1>16. NameInv'
  <2>1. \A j \in Ids : Etched(j) => Entry(j)'.rune = Entry(j).rune
    BY <1>6, <1>8, <1>9 DEF e
  <2> QED BY <1>2, <1>3, <1>8, <2>1, NamesKept
<1>17. Conserved'
  <2>1. ASSUME NEW j \in Ids PROVE IssuedOf(j)' = Held(j)' + InTx(j)' + Burned(j)'
    <3>1. /\ IssuedOf(j)' = IF j = id THEN IssuedOf(j) + amount ELSE IssuedOf(j)
          /\ IssuedOf(j) \in Nat
      <4>1. CASE j = id
        <5>1. IssuedOf(j) = e.premine + e.mints * amount
          BY <1>4, <4>1 DEF IssuedOf, Issued, e
        <5>2. IssuedOf(j)' = e.premine + (e.mints + 1) * amount
          BY <1>4, <1>6, <1>8, <1>9, <4>1 DEF IssuedOf, Issued, e
        <5>3. e.mints \in Nat /\ e.premine \in Nat
          BY <1>4 DEF EntrySet
        <5> QED BY <1>5, <4>1, <5>1, <5>2, <5>3, Distribute
      <4>2. CASE j # id
        <5>1. IssuedOf(j)' = IssuedOf(j)
          BY <1>2, <1>3, <1>8, <4>2 DEF IssuedOf, Here
        <5> QED BY <4>2, <5>1, IssuedNat
      <4> QED BY <4>1, <4>2
    <3>2. Burned(j)' = Burned(j)
      BY <1>3, <1>6, <1>8, <1>9 DEF Burned, e
    <3>3. /\ HeldIn(balances, j) \in Nat /\ DealtIn(allocated, j) \in Nat /\ Burned(j) \in Nat
          /\ unallocated[j] \in Nat /\ txBurned[j] \in Nat
      BY HeldNat, DealtNat, BurnedNat DEF TypeInv, Amounts
    <3>4. IssuedOf(j) = Held(j) + InTx(j) + Burned(j)
      BY DEF Conserved
    <3> QED BY <1>3, <1>5, <1>10, <3>1, <3>2, <3>3, <3>4, Totals
  <2> QED BY <2>1 DEF Conserved
<1>18. NetInv'
  <2>1. ASSUME NEW j \in Ids PROVE net'[j] = InTx(j)'
    <3>1. DealtIn(allocated, j) \in Nat /\ unallocated[j] \in Nat /\ txBurned[j] \in Nat
      BY DealtNat DEF TypeInv, Amounts
    <3>2. net[j] = InTx(j)
      BY DEF NetInv
    <3> QED BY <1>3, <1>5, <1>10, <3>1, <3>2, Totals
  <2> QED BY <2>1 DEF NetInv
<1>19. NoPanic'
  <2>1. Fits'
    BY <1>11, <1>15, <1>17, AllFitsNext
  <2>2. \A j \in Ids : unallocated'[j] < U128
    BY <2>1 DEF Fits
  <2> QED BY <1>10, <2>2, RunesAssumption DEF NoPanic, Overflows, Amounts
<1> QED BY <1>11, <1>12, <1>13, <1>14, <1>15, <1>16, <1>17, <1>18, <1>19

LEMMA MintRuneStep ==
  ASSUME IInv, MintRune
  PROVE  IInv'
<1>1. CASE Mints /\ ~ UNCHANGED <<entries, unallocated, net, panicked>>
  <2> DEFINE id == tx.artifact.mint[1]
             amount == Default(Entry(id).terms[1].amount)
  <2>1. id \in Ids /\ Mintable(id)
    BY <1>1 DEF Mints
  <2>2. /\ entries' = [entries EXCEPT ![id] = Some([Entry(id) EXCEPT !.mints = @ + 1])]
        /\ unallocated' = Add(unallocated, id, amount)
        /\ net' = Add(net, id, amount)
        /\ panicked' = Overflows(unallocated')
    BY <1>1 DEF MintRune
  <2> HIDE DEF id
  <2> QED BY <2>1, <2>2, MintOne
<1>2. CASE UNCHANGED <<entries, unallocated, net, panicked>>
  BY <1>2, MintNothing
<1>3. CASE ~ Mints
  BY <1>3, MintNothing DEF MintRune
<1> QED BY <1>1, <1>2, <1>3

(* The cases of Etch: no rune is etched, or one with its premine.          *)
LEMMA EdictsRead ==
  ASSUME IInv, NEW o \in Options(EntrySet),
         tx.phase = "etch",
         tx' = [tx EXCEPT !.phase = "edicts", !.edicts = tx.artifact.edicts, !.etched = o]
  PROVE  /\ tx'.phase = "edicts" /\ tx'.shape = tx.shape /\ tx'.artifact = tx.artifact
         /\ tx'.etched = o /\ tx'.edicts = tx.artifact.edicts /\ tx'.spread = tx.spread
         /\ tx'.vout = tx.vout /\ tx' \in TxSet
<1> USE DEF IInv
<1>1. tx \in TxSet
  BY DEF TypeInv
<1>2. tx.artifact.edicts \in Seq(EdictsOf(tx.artifact))
  BY DEF PhaseInv, Sound
<1>3. EdictsOf(tx.artifact) \subseteq AllEdicts
  BY <1>1 DEF AllEdicts, TxSet
<1>4. tx.artifact.edicts \in Seq(AllEdicts)
  BY <1>2, <1>3, SeqMonotonic
<1> QED BY <1>1, <1>4 DEF TxSet

LEMMA EtchNothing ==
  ASSUME IInv, Etch, UNCHANGED <<unallocated, net, panicked>>,
         tx' = [tx EXCEPT !.phase = "edicts", !.edicts = tx.artifact.edicts]
  PROVE  IInv'
<1> USE DEF IInv
<1>1. tx \in TxSet /\ tx.phase = "etch" /\ tx.etched = None
  BY DEF Etch, TypeInv, PhaseInv
<1>2. /\ tx'.phase = "edicts" /\ tx'.shape = tx.shape /\ tx'.artifact = tx.artifact
      /\ tx'.etched = None /\ tx'.edicts = tx.artifact.edicts /\ tx'.spread = tx.spread
      /\ tx'.vout = tx.vout /\ tx' \in TxSet
  <2>1. tx' = [tx EXCEPT !.phase = "edicts", !.edicts = tx.artifact.edicts, !.etched = None]
    BY <1>1 DEF TxSet
  <2>2. None \in Options(EntrySet)
    BY DEF Options
  <2> QED BY <1>1, <2>1, <2>2, EdictsRead
<1>3. UNCHANGED <<height, index, entries, balances, burned, allocated, txBurned>>
  BY DEF Etch
<1>4. TypeInv'
  BY <1>2, <1>3 DEF TypeInv
<1>5. PlaceInv'
  BY <1>1, <1>2, <1>3 DEF PlaceInv, Here, Done, Etched
<1>6. PhaseInv'
  BY <1>1, <1>2, <1>3 DEF PhaseInv, Sound
<1>7. SpreadInv'
  BY <1>1, <1>2 DEF SpreadInv, PhaseInv
<1>8. NameInv' /\ EntryInv'
  BY <1>1, <1>2, <1>3, Stays
<1>9. Conserved'
  BY <1>1, <1>2, <1>3, Stays, Totals DEF Conserved
<1>10. NetInv'
  BY <1>3, Totals DEF NetInv
<1>11. NoPanic'
  BY DEF NoPanic
<1> QED BY <1>4, <1>5, <1>6, <1>7, <1>8, <1>9, <1>10, <1>11

LEMMA NewEntryIn ==
  ASSUME IInv, tx.phase = "etch", Etches
  PROVE  /\ NewEntry \in EntrySet /\ Capped(NewEntry)
         /\ NewEntry.mints = 0 /\ NewEntry.burned = 0 /\ Issued(NewEntry) = NewEntry.premine
         /\ \/ NewEntry.rune < Reserved /\ ~ Taken(NewEntry.rune)
            \/ NewEntry.rune = Unnamed(Here)
<1> USE DEF IInv
<1> DEFINE e == tx.artifact.etching[1]
           runestone == tx.artifact.kind = "runestone"
<1>1. e \in EtchingSet /\ (runestone => SupplyOf(e) < U128)
  BY OptionIn DEF Etches, PhaseInv, Sound
<1>2. /\ NewEntry.rune = IF e.rune = None THEN ReservedName ELSE e.rune[1]
      /\ NewEntry.premine = IF runestone THEN Default(e.premine) ELSE 0
      /\ NewEntry.terms = IF runestone THEN e.terms ELSE None
      /\ NewEntry.mints = 0 /\ NewEntry.burned = 0
  BY DEF NewEntry
<1>3. ReservedName \in Nat /\ ReservedName = Unnamed(Here)
  <2>1. Here \in Ids
    BY DEF PlaceInv
  <2>2. height \in Nat /\ index \in Nat /\ U32 \in Nat /\ Reserved \in Nat
    BY RunesAssumption DEF TypeInv
  <2>3. height * U32 \in Nat
    BY <2>2, Distribute
  <2> QED BY <2>2, <2>3 DEF ReservedName, Unnamed, Here
<1>4. NewEntry.rune \in Nat
  <2>1. CASE e.rune = None
    BY <1>2, <1>3, <2>1
  <2>2. CASE e.rune # None
    BY <1>1, <1>2, <2>2, OptionIn DEF EtchingSet, Optional
  <2> QED BY <2>1, <2>2
<1>5. NewEntry.premine \in Nat /\ NewEntry.terms \in Options(TermsSet)
  BY <1>1, <1>2, DefaultNat DEF EtchingSet, Options
<1>6. NewEntry \in EntrySet
  BY <1>2, <1>4, <1>5 DEF EntrySet, NewEntry
<1>7. Capped(NewEntry) /\ Issued(NewEntry) = NewEntry.premine
  <2>1. CASE NewEntry.terms = None
    <3>1. Limit(NewEntry) = NewEntry.premine /\ Issued(NewEntry) = NewEntry.premine
      BY <1>2, <1>5, <2>1 DEF Limit, Issued
    <3>2. NewEntry.premine < U128
      <4>1. CASE runestone
        <5>1. SupplyOf(e) = Default(e.premine)
          BY <1>1, <1>2, <2>1, <4>1, DefaultNat DEF SupplyOf, EtchingSet
        <5> QED BY <1>1, <1>2, <4>1, <5>1
      <4>2. CASE ~ runestone
        BY <1>2, <4>2, RunesAssumption
      <4> QED BY <4>1, <4>2
    <3> QED BY <1>2, <2>1, <3>1, <3>2 DEF Capped
  <2>2. CASE NewEntry.terms # None
    <3>1. runestone /\ NewEntry.terms = e.terms
      BY <1>2, <2>2
    <3>2. Limit(NewEntry) = SupplyOf(e)
      BY <1>2, <2>2, <3>1 DEF Limit, SupplyOf
    <3>3. NewEntry.terms[1] \in TermsSet
      BY <1>5, <2>2, OptionIn
    <3>4. Default(NewEntry.terms[1].cap) \in Nat /\ Default(NewEntry.terms[1].amount) \in Nat
      BY <3>3, DefaultNat DEF TermsSet
    <3> QED BY <1>1, <1>2, <1>5, <2>2, <3>1, <3>2, <3>4 DEF Capped, Issued
  <2> QED BY <2>1, <2>2
<1>8. \/ NewEntry.rune < Reserved /\ ~ Taken(NewEntry.rune)
      \/ NewEntry.rune = Unnamed(Here)
  BY <1>2, <1>3 DEF Etches, NameFree
<1> QED BY <1>2, <1>6, <1>7, <1>8

LEMMA EtchOne ==
  ASSUME IInv, Etch, Etches,
         tx' = [tx EXCEPT !.phase = "edicts", !.edicts = tx.artifact.edicts, !.etched = Some(NewEntry)],
         unallocated' = Add(unallocated, Here, NewEntry.premine),
         net' = Add(net, Here, NewEntry.premine),
         panicked' = Overflows(unallocated')
  PROVE  IInv'
<1> USE DEF IInv
<1> DEFINE e == NewEntry
<1>1. tx \in TxSet /\ tx.phase = "etch" /\ tx.etched = None
  BY DEF Etch, TypeInv, PhaseInv
<1>2. /\ e \in EntrySet /\ Capped(e) /\ e.mints = 0 /\ e.burned = 0 /\ Issued(e) = e.premine
      /\ (e.rune < Reserved /\ ~ Taken(e.rune)) \/ e.rune = Unnamed(Here)
  BY <1>1, NewEntryIn
<1> HIDE DEF e
<1>3. /\ tx'.phase = "edicts" /\ tx'.shape = tx.shape /\ tx'.artifact = tx.artifact
      /\ tx'.etched = Some(e) /\ tx'.edicts = tx.artifact.edicts /\ tx'.spread = tx.spread
      /\ tx'.vout = tx.vout /\ tx' \in TxSet
  <2>1. Some(e) \in Options(EntrySet)
    BY <1>2 DEF Options
  <2> QED BY <1>1, <2>1, EdictsRead DEF e
<1>4. UNCHANGED <<height, index, entries, balances, burned, allocated, txBurned>>
  BY DEF Etch
<1>5. tx'.etched # None /\ tx'.etched[1] = e
  BY <1>3, OptionIs
<1>6. Here \in Ids /\ ~ Etched(Here)
  <2>1. Here \in Ids /\ height \in Int /\ index \in Int
    BY <1>1 DEF PlaceInv, TypeInv
  <2>2. ~ Done(Here)
    BY <2>1 DEF Done, Here
  <2> QED BY <1>1, <2>1, <2>2 DEF PlaceInv
<1>7. /\ unallocated' \in Amounts /\ net' \in [Ids -> Int]
      /\ \A j \in Ids : unallocated'[j] = IF j = Here THEN unallocated[j] + e.premine ELSE unallocated[j]
      /\ \A j \in Ids : net'[j] = IF j = Here THEN net[j] + e.premine ELSE net[j]
  <2>1. unallocated \in Amounts /\ net \in [Ids -> Int] /\ e.premine \in Nat
    BY <1>2 DEF TypeInv, EntrySet
  <2>2. unallocated' = Add(unallocated, Here, e.premine) /\ net' = Add(net, Here, e.premine)
    BY DEF e
  <2> QED BY <1>6, <2>1, <2>2 DEF Add, Amounts
<1>8. TypeInv'
  BY <1>3, <1>4, <1>7 DEF TypeInv, Overflows
<1>9. PlaceInv'
  BY <1>1, <1>3, <1>4 DEF PlaceInv, Here, Done, Etched
<1>10. PhaseInv'
  BY <1>1, <1>3, <1>4 DEF PhaseInv, Sound
<1>11. SpreadInv'
  BY <1>1, <1>3 DEF SpreadInv, PhaseInv
<1>12. \A j \in Ids : Etched(j)' = Etched(j) /\ Entry(j)' = Entry(j)
  BY <1>4 DEF Etched, Entry
<1>13. EntryInv'
  BY <1>2, <1>5, <1>12 DEF EntryInv
<1>14. NameInv'
  <2>1. NamesUnique'
    BY <1>12 DEF NameInv, NamesUnique
  <2>2. \A j \in Ids : Etched(j)' => Entry(j)'.rune < Reserved \/ Entry(j)'.rune = Unnamed(j)
    BY <1>12 DEF NameInv
  <2>3. Taken(tx.etched[1].rune)' = \E j \in Ids : Etched(j) /\ Entry(j).rune = tx'.etched[1].rune
    BY <1>12 DEF Taken
  <2>4. \/ tx'.etched[1].rune < Reserved /\ ~ Taken(tx.etched[1].rune)'
        \/ tx'.etched[1].rune = Unnamed(Here)'
    BY <1>2, <1>4, <1>5, <2>3 DEF Taken, Unnamed, Here
  <2> QED BY <2>1, <2>2, <2>4 DEF NameInv, Unnamed
<1>15. Conserved'
  <2>1. ASSUME NEW j \in Ids PROVE IssuedOf(j)' = Held(j)' + InTx(j)' + Burned(j)'
    <3>1. /\ IssuedOf(j)' = IF j = Here THEN IssuedOf(j) + e.premine ELSE IssuedOf(j)
          /\ IssuedOf(j) \in Nat
      <4>1. IssuedOf(j) \in Nat
        BY IssuedNat
      <4>2. CASE j = Here
        <5>1. IssuedOf(j) = 0
          BY <1>1, <1>6, <4>2 DEF IssuedOf
        <5>2. IssuedOf(j)' = e.premine
          BY <1>2, <1>4, <1>5, <1>6, <1>12, <4>2 DEF IssuedOf, Here
        <5>3. e.premine \in Nat
          BY <1>2 DEF EntrySet
        <5> QED BY <4>2, <5>1, <5>2, <5>3
      <4>3. CASE j # Here
        BY <1>4, <1>12, <4>1, <4>3 DEF IssuedOf, Here
      <4> QED BY <4>2, <4>3
    <3>2. Burned(j)' = Burned(j)
      BY <1>4, <1>12 DEF Burned
    <3>3. /\ HeldIn(balances, j) \in Nat /\ DealtIn(allocated, j) \in Nat /\ Burned(j) \in Nat
          /\ unallocated[j] \in Nat /\ txBurned[j] \in Nat /\ e.premine \in Nat
      BY <1>2, HeldNat, DealtNat, BurnedNat DEF TypeInv, Amounts, EntrySet
    <3>4. IssuedOf(j) = Held(j) + InTx(j) + Burned(j)
      BY DEF Conserved
    <3> QED BY <1>4, <1>7, <3>1, <3>2, <3>3, <3>4, Totals
  <2> QED BY <2>1 DEF Conserved
<1>16. NetInv'
  <2>1. ASSUME NEW j \in Ids PROVE net'[j] = InTx(j)'
    <3>1. /\ DealtIn(allocated, j) \in Nat /\ unallocated[j] \in Nat /\ txBurned[j] \in Nat
          /\ e.premine \in Nat
      BY <1>2, DealtNat DEF TypeInv, Amounts, EntrySet
    <3>2. net[j] = InTx(j)
      BY DEF NetInv
    <3> QED BY <1>4, <1>7, <3>1, <3>2, Totals
  <2> QED BY <2>1 DEF NetInv
<1>17. NoPanic'
  <2>1. Fits'
    BY <1>8, <1>13, <1>15, AllFitsNext
  <2>2. \A j \in Ids : unallocated'[j] < U128
    BY <2>1 DEF Fits
  <2> QED BY <1>7, <2>2, RunesAssumption DEF NoPanic, Overflows, Amounts
<1> QED BY <1>8, <1>9, <1>10, <1>11, <1>13, <1>14, <1>15, <1>16, <1>17

LEMMA EtchStep ==
  ASSUME IInv, Etch
  PROVE  IInv'
<1>1. \/ /\ Etches
         /\ tx' = [tx EXCEPT !.phase = "edicts", !.edicts = tx.artifact.edicts, !.etched = Some(NewEntry)]
         /\ unallocated' = Add(unallocated, Here, NewEntry.premine)
         /\ net' = Add(net, Here, NewEntry.premine)
         /\ panicked' = Overflows(unallocated')
      \/ /\ tx' = [tx EXCEPT !.phase = "edicts", !.edicts = tx.artifact.edicts]
         /\ UNCHANGED <<unallocated, net, panicked>>
  BY DEF Etch
<1> QED BY <1>1, EtchOne, EtchNothing

LEMMA NextEdictStep ==
  ASSUME IInv, NextEdict
  PROVE  IInv'
<1> USE DEF IInv
<1> DEFINE e == Head(tx.edicts)
           n == Len(tx.shape)
<1>1. tx \in TxSet /\ tx.phase = "edicts" /\ tx.edicts # << >> /\ n \in Nat /\ n <= MaxOutputs
  BY LenProperties DEF NextEdict, TypeInv, PhaseInv, TxSet
<1>2. /\ e \in EdictsOf(tx.artifact) /\ e \in AllEdicts
      /\ Tail(tx.edicts) \in Seq(EdictsOf(tx.artifact)) /\ Tail(tx.edicts) \in Seq(AllEdicts)
  BY <1>1, HeadTailProperties DEF PhaseInv, TxSet
<1>3. e.amount \in Nat /\ e.output \in 0 .. n /\ tx.artifact.kind # "cenotaph"
  <2>1. Sound(tx.artifact, n)
    BY DEF PhaseInv
  <2>2. e.amount \in Nat /\ e.output \in 0 .. n
    BY <1>2, <2>1 DEF Sound
  <2>3. tx.artifact.edicts # << >>
    BY <1>2 DEF EdictsOf
  <2> QED BY <2>1, <2>2, <2>3 DEF Sound
<1> HIDE DEF e
<1> DEFINE s == IF RuneOf(e) \notin Ids THEN Nothing ELSE SpreadOf(e)
<1>4. panicked' = FALSE /\ tx' = [tx EXCEPT !.edicts = Tail(tx.edicts), !.spread = s]
  <2>1. panicked' = (e.output > n)
    BY DEF NextEdict, e
  <2>2. ~ e.output > n
    BY <1>1, <1>3
  <2>3. (e.output > n) \in BOOLEAN
    OBVIOUS
  <2> HIDE DEF n
  <2>4. panicked' = FALSE
    BY <2>1, <2>2, <2>3, Zenon
  <2>5. tx' = [tx EXCEPT !.edicts = Tail(@),
                         !.spread = IF panicked' \/ RuneOf(e) \notin Ids THEN Nothing ELSE SpreadOf(e)]
    BY DEF NextEdict, e
  <2> QED BY <2>4, <2>5
<1>5. /\ s \in SpreadSet
      /\ s.outs # {} =>
           /\ s.id \in Ids /\ s.outs \subseteq 1 .. n
           /\ unallocated[s.id] = s.each * Cardinality(s.outs) + s.remainder
           /\ s.remainder <= Cardinality(s.outs)
  <2> DEFINE outs == IF e.output = n THEN Spendable(tx.shape) ELSE {e.output + 1}
             c    == Cardinality(outs)
             b    == unallocated[RuneOf(e)]
  <2>1. Nothing \in SpreadSet /\ Nothing.outs = {}
    BY DEF Nothing, SpreadSet
  <2>2. CASE RuneOf(e) \notin Ids \/ c = 0
    BY <2>1, <2>2 DEF SpreadOf
  <2>3. CASE RuneOf(e) \in Ids /\ c # 0
    <3>1. outs \subseteq 1 .. n
      BY <1>1, <1>3, LenProperties DEF Spendable, TxSet
    <3>2. c \in Nat
      <4>1. IsFiniteSet(1 .. n)
        BY <1>1, FS_Interval
      <4> QED BY <3>1, <4>1, FS_Subset, FS_CardinalityType
    <3>3. b \in Nat
      BY <2>3 DEF TypeInv, Amounts
    <3> HIDE DEF outs, c, b
    <3>4. /\ b \div c \in Nat /\ b % c \in Nat
          /\ b = ((b \div c) * c) + (b % c) /\ b % c < c
      BY <2>3, <3>2, <3>3, Division
    <3>5. s = [Nothing EXCEPT !.id = RuneOf(e), !.amount = e.amount, !.outs = outs,
                              !.each = b \div c, !.remainder = b % c]
      BY <2>3 DEF SpreadOf, outs, c, b
    <3>6. /\ s.id = RuneOf(e) /\ s.outs = outs /\ s.each = b \div c /\ s.remainder = b % c
          /\ s.amount = e.amount
      BY <2>1, <3>5 DEF SpreadSet
    <3>7. outs \in SUBSET Outs
      BY <1>1, <3>1, RunesAssumption DEF Outs
    <3>8. s \in SpreadSet
      BY <1>3, <2>1, <2>3, <3>4, <3>5, <3>7 DEF SpreadSet
    <3>9. unallocated[s.id] = s.each * Cardinality(s.outs) + s.remainder
      BY <3>4, <3>6 DEF b, c
    <3>10. s.remainder <= Cardinality(s.outs)
      BY <3>2, <3>4, <3>6 DEF c
    <3> HIDE DEF s
    <3> QED BY <2>3, <3>1, <3>6, <3>8, <3>9, <3>10
  <2> QED BY <2>2, <2>3
<1> HIDE DEF s
<1>6. /\ tx'.phase = "edicts" /\ tx'.shape = tx.shape /\ tx'.artifact = tx.artifact
      /\ tx'.etched = tx.etched /\ tx'.edicts = Tail(tx.edicts) /\ tx'.spread = s
      /\ tx'.vout = tx.vout /\ tx' \in TxSet
  BY <1>1, <1>2, <1>4, <1>5 DEF TxSet
<1>7. UNCHANGED <<height, index, entries, balances, burned, unallocated, allocated, txBurned, net>>
  BY DEF NextEdict
<1>8. TypeInv'
  BY <1>4, <1>6, <1>7 DEF TypeInv
<1>9. PlaceInv'
  BY <1>1, <1>6, <1>7 DEF PlaceInv, Here, Done, Etched
<1>10. PhaseInv'
  BY <1>1, <1>2, <1>6, <1>7 DEF PhaseInv
<1>11. SpreadInv'
  BY <1>3, <1>5, <1>6, <1>7 DEF SpreadInv
<1>12. NameInv' /\ EntryInv'
  BY <1>6, <1>7, Stays
<1>13. Conserved'
  BY <1>6, <1>7, Stays, Totals DEF Conserved
<1>14. NetInv'
  BY <1>7, Totals DEF NetInv
<1>15. NoPanic'
  BY <1>4 DEF NoPanic
<1> QED BY <1>8, <1>9, <1>10, <1>11, <1>12, <1>13, <1>14, <1>15

LEMMA AllocateStep ==
  ASSUME IInv, Allocate
  PROVE  IInv'
<1> USE DEF IInv
<1> DEFINE s    == tx.spread
           id   == s.id
           v    == Min(s.outs)
           n    == IF s.amount > 0 THEN Smaller(s.amount, unallocated[s.id])
                   ELSE s.each + (IF s.remainder > 0 THEN 1 ELSE 0)
           rest == IF s.remainder > 0 THEN s.remainder - 1 ELSE 0
           c    == Cardinality(s.outs)
<1>1. /\ tx \in TxSet /\ tx.phase = "edicts" /\ s.outs # {} /\ s \in SpreadSet
      /\ Len(tx.shape) \in Nat /\ Len(tx.shape) <= MaxOutputs
  BY LenProperties DEF Allocate, TypeInv, PhaseInv, TxSet
<1>2. /\ id \in Ids /\ s.outs \subseteq 1 .. Len(tx.shape) /\ tx.artifact.kind # "cenotaph"
      /\ s.amount = 0 => unallocated[id] = s.each * c + s.remainder /\ s.remainder <= c
      /\ s.amount \in Nat /\ s.each \in Nat /\ s.remainder \in Nat
  BY <1>1 DEF SpreadInv, SpreadSet
<1>3. v \in s.outs /\ v \in 1 .. Len(tx.shape) /\ v \in Outs
  <2>1. s.outs \in SUBSET Nat
    BY <1>2
  <2>2. v \in s.outs
    BY <1>1, <2>1, MinIn
  <2> QED BY <1>1, <1>2, <2>2, RunesAssumption DEF Outs
<1>4. /\ c \in Nat /\ c > 0 /\ Cardinality(s.outs \ {v}) = c - 1
  <2>1. IsFiniteSet(s.outs)
    <3>1. IsFiniteSet(1 .. Len(tx.shape))
      BY <1>1, FS_Interval
    <3> QED BY <1>2, <3>1, FS_Subset
  <2> QED BY <1>3, <2>1, FS_RemoveElement, FS_CardinalityType, FS_EmptySet
<1>5. unallocated[id] \in Nat
  BY <1>2 DEF TypeInv, Amounts
<1>6. s.each * c = (s.each * (c - 1)) + s.each /\ s.each * (c - 1) \in Nat
  <2>1. c - 1 \in Nat
    BY <1>4
  <2> QED BY <1>2, <2>1, <1>4, Distribute
<1>7. /\ n \in Nat /\ n <= unallocated[id] /\ rest \in Nat
      /\ s.amount = 0 =>
           /\ unallocated[id] - n = s.each * (c - 1) + rest
           /\ rest <= c - 1
  <2>1. CASE s.amount > 0
    BY <1>2, <1>5, <2>1 DEF Smaller
  <2>2. CASE s.amount = 0
    <3> DEFINE dealt == s.each * (c - 1)
    <3>1. unallocated[id] = dealt + s.each + s.remainder /\ dealt \in Nat /\ s.remainder <= c
      BY <1>2, <1>6, <2>2
    <3> HIDE DEF dealt
    <3>2. s.each \in Nat /\ s.remainder \in Nat
      BY <1>2
    <3>3. n = s.each + (IF s.remainder > 0 THEN 1 ELSE 0)
      BY <2>2
    <3>4. unallocated[id] - n = dealt + rest /\ n <= unallocated[id] /\ n \in Nat
      <4>1. CASE s.remainder > 0
        <5>1. n = s.each + 1 /\ rest = s.remainder - 1
          BY <3>3, <4>1
        <5> HIDE DEF n, rest
        <5> QED BY <1>5, <3>1, <3>2, <4>1, <5>1
      <4>2. CASE s.remainder = 0
        <5>1. n = s.each /\ rest = 0
          BY <1>2, <3>3, <4>2
        <5> HIDE DEF n, rest
        <5> QED BY <1>5, <3>1, <3>2, <4>2, <5>1
      <4> QED BY <3>2, <4>1, <4>2
    <3>5. rest \in Nat /\ rest <= c - 1
      BY <1>2, <1>4, <3>1
    <3> QED BY <2>2, <3>4, <3>5 DEF dealt
  <2> QED BY <1>2, <2>1, <2>2
<1>8. /\ unallocated' = Add(unallocated, id, 0 - n)
      /\ allocated' = [allocated EXCEPT ![v] = Add(allocated[v], id, n)]
      /\ panicked' = (n > unallocated[id] \/ Overflows(allocated'[v]))
      /\ tx' = [tx EXCEPT !.spread.outs = s.outs \ {v}, !.spread.remainder = rest]
  BY DEF Allocate
<1> HIDE DEF n, c, v, rest
<1>9. /\ tx'.spread.outs = s.outs \ {v} /\ tx'.spread.remainder = rest /\ tx'.spread.each = s.each
      /\ tx'.spread.id = id /\ tx'.spread.amount = s.amount /\ tx'.spread \in SpreadSet
      /\ tx'.phase = "edicts" /\ tx'.shape = tx.shape /\ tx'.artifact = tx.artifact
      /\ tx'.etched = tx.etched /\ tx'.edicts = tx.edicts
      /\ tx'.vout = tx.vout /\ tx' \in TxSet
  <2>1. tx' = [tx EXCEPT !.spread = [s EXCEPT !.outs = s.outs \ {v}, !.remainder = rest]]
    BY <1>1, <1>8 DEF TxSet, SpreadSet
  <2>2. [s EXCEPT !.outs = s.outs \ {v}, !.remainder = rest] \in SpreadSet
    BY <1>1, <1>7 DEF SpreadSet
  <2> QED BY <1>1, <2>1, <2>2 DEF TxSet, SpreadSet
<1> HIDE DEF s, id
<1>10. UNCHANGED <<height, index, entries, balances, burned, txBurned, net>>
  BY DEF Allocate
<1>11. allocated \in [Outs -> Amounts] /\ allocated[v] \in Amounts /\ unallocated \in Amounts
  BY <1>3 DEF TypeInv
<1>12. /\ unallocated' \in Amounts
       /\ \A j \in Ids : unallocated'[j] = IF j = id THEN unallocated[j] - n ELSE unallocated[j]
  BY <1>2, <1>5, <1>7, <1>8, <1>11 DEF Add, Amounts
<1> DEFINE got == Add(allocated[v], id, n)
<1>13. /\ got \in Amounts
       /\ \A j \in Ids : got[j] = IF j = id THEN allocated[v][j] + n ELSE allocated[v][j]
  BY <1>2, <1>7, <1>11 DEF Add, Amounts
<1> HIDE DEF got
<1>14. allocated' = [allocated EXCEPT ![v] = got] /\ allocated' \in [Outs -> Amounts]
       /\ allocated'[v] = got
  BY <1>3, <1>8, <1>11, <1>13 DEF got
<1>15. TypeInv'
  BY <1>8, <1>9, <1>10, <1>12, <1>14 DEF TypeInv, Overflows
<1>16. PlaceInv'
  BY <1>1, <1>9, <1>10 DEF PlaceInv, Here, Done, Etched
<1>17. PhaseInv'
  <2>1. ASSUME NEW w \in Outs, allocated'[w] # Zero
        PROVE  w >= tx.vout /\ w <= Len(tx.shape) /\ tx.artifact.kind # "cenotaph"
    <3>1. CASE w = v
      BY <1>1, <1>2, <1>3, <3>1 DEF PhaseInv
    <3>2. CASE w # v
      BY <1>11, <1>14, <2>1, <3>2 DEF PhaseInv
    <3> QED BY <3>1, <3>2
  <2> QED BY <1>1, <1>9, <1>10, <2>1 DEF PhaseInv
<1>18. SpreadInv'
  <2>1. unallocated'[id] = unallocated[id] - n
    BY <1>2, <1>12
  <2>2. s.outs \ {v} \subseteq 1 .. Len(tx.shape)
    BY <1>2
  <2> QED BY <1>2, <1>4, <1>7, <1>9, <2>1, <2>2 DEF SpreadInv
<1>19. NameInv' /\ EntryInv'
  BY <1>9, <1>10, Stays
<1>20. ASSUME NEW j \in Ids PROVE InTx(j)' = InTx(j) /\ InTx(j) \in Nat
  <2>1. DealtIn(allocated', j) = DealtIn(allocated, j) - allocated[v][j] + got[j]
    <3>1. v \in Outs /\ allocated \in [Outs -> Amounts] /\ got \in Amounts
      BY <1>3, <1>11, <1>13
    <3>2. DealtIn([allocated EXCEPT ![v] = got], j) = DealtIn(allocated, j) - allocated[v][j] + got[j]
      BY <3>1, DealtChange
    <3> QED BY <1>14, <3>2
  <2>2. /\ DealtIn(allocated, j) \in Nat /\ unallocated[j] \in Nat /\ txBurned[j] \in Nat
        /\ allocated[v][j] \in Nat /\ n \in Nat
    BY <1>7, <1>11, DealtNat DEF TypeInv, Amounts
  <2>3. unallocated'[j] + got[j] = unallocated[j] + allocated[v][j]
        /\ unallocated'[j] \in Nat /\ got[j] \in Nat
    BY <1>12, <1>13, <2>2 DEF Amounts
  <2> QED BY <1>10, <2>1, <2>2, <2>3, Totals
<1>21. Conserved'
  BY <1>9, <1>10, <1>20, Stays, Totals DEF Conserved
<1>22. NetInv'
  BY <1>10, <1>20 DEF NetInv
<1>23. NoPanic'
  <2>1. Fits'
    BY <1>15, <1>19, <1>21, AllFitsNext
  <2>2. \A j \in Ids : allocated'[v][j] < U128
    BY <1>3, <2>1 DEF Fits
  <2>3. \A j \in Ids : allocated'[v][j] \in Nat
    BY <1>13, <1>14 DEF Amounts
  <2>4. ~ Overflows(allocated'[v])
    BY <2>2, <2>3, RunesAssumption DEF Overflows
  <2>5. ~ n > unallocated[id]
    BY <1>5, <1>7
  <2> QED BY <1>8, <2>4, <2>5 DEF NoPanic
<1> QED BY <1>15, <1>16, <1>17, <1>18, <1>19, <1>21, <1>22, <1>23

(* The cases of CreateRuneEntry: the transaction etched nothing, or a rune.*)
LEMMA RestReached ==
  ASSUME IInv, CreateRuneEntry
  PROVE  /\ tx \in TxSet /\ tx.phase = "edicts" /\ tx.spread.outs = {} /\ tx.edicts = << >>
         /\ tx'.phase = "rest" /\ tx'.shape = tx.shape /\ tx'.artifact = tx.artifact
         /\ tx'.etched = None /\ tx'.edicts = tx.edicts /\ tx'.spread = tx.spread
         /\ tx'.vout = tx.vout /\ tx' \in TxSet
         /\ UNCHANGED <<height, index, balances, burned, unallocated, allocated, txBurned, net, panicked>>
         /\ PhaseInv' /\ SpreadInv' /\ NetInv' /\ NoPanic'
<1> USE DEF IInv
<1>1. tx \in TxSet /\ tx.phase = "edicts" /\ tx.spread.outs = {} /\ tx.edicts = << >>
  BY DEF CreateRuneEntry, TypeInv
<1>2. /\ tx'.phase = "rest" /\ tx'.shape = tx.shape /\ tx'.artifact = tx.artifact
      /\ tx'.etched = None /\ tx'.edicts = tx.edicts /\ tx'.spread = tx.spread
      /\ tx'.vout = tx.vout /\ tx' \in TxSet
  BY <1>1 DEF CreateRuneEntry, TxSet, Options
<1>3. UNCHANGED <<height, index, balances, burned, unallocated, allocated, txBurned, net, panicked>>
  BY DEF CreateRuneEntry
<1>4. PhaseInv'
  BY <1>1, <1>2, <1>3 DEF PhaseInv
<1>5. SpreadInv'
  BY <1>1, <1>2 DEF SpreadInv
<1>6. NetInv'
  BY <1>3, Totals DEF NetInv
<1> QED BY <1>1, <1>2, <1>3, <1>4, <1>5, <1>6 DEF NoPanic

LEMMA CreateNothing ==
  ASSUME IInv, CreateRuneEntry, tx.etched = None
  PROVE  IInv'
<1> USE DEF IInv
<1>1. entries' = entries
  BY DEF CreateRuneEntry
<1>2. TypeInv'
  BY <1>1, RestReached DEF TypeInv
<1>3. PlaceInv'
  BY <1>1, RestReached DEF PlaceInv, Here, Done, Etched
<1>4. NameInv' /\ EntryInv'
  BY <1>1, RestReached, Stays
<1>5. Conserved'
  BY <1>1, RestReached, Stays, Totals DEF Conserved
<1> QED BY <1>2, <1>3, <1>4, <1>5, RestReached

LEMMA CreateOne ==
  ASSUME IInv, CreateRuneEntry, tx.etched # None
  PROVE  IInv'
<1> USE DEF IInv
<1> DEFINE e == tx.etched[1]
<1>1. /\ tx \in TxSet /\ tx.phase = "edicts" /\ tx'.phase = "rest" /\ tx'.etched = None
      /\ tx' \in TxSet
  BY RestReached
<1>2. UNCHANGED <<height, index, balances, burned, unallocated, allocated, txBurned, net, panicked>>
  BY RestReached
<1>3. /\ e \in EntrySet /\ tx.etched = Some(e) /\ Capped(e) /\ e.mints = 0 /\ e.burned = 0
      /\ (e.rune < Reserved /\ ~ Taken(e.rune)) \/ e.rune = Unnamed(Here)
  BY <1>1, OptionIn DEF TxSet, EntryInv, NameInv
<1> HIDE DEF e
<1>4. Here \in Ids /\ ~ Etched(Here)
  <2>1. Here \in Ids /\ height \in Int /\ index \in Int
    BY <1>1 DEF PlaceInv, TypeInv
  <2>2. ~ Done(Here)
    BY <2>1 DEF Done, Here
  <2> QED BY <1>1, <2>1, <2>2 DEF PlaceInv
<1>5. entries \in [Ids -> Options(EntrySet)] /\ entries' = [entries EXCEPT ![Here] = Some(e)]
  BY <1>3 DEF CreateRuneEntry, TypeInv
<1>6. /\ \A j \in Ids \ {Here} : Etched(j)' = Etched(j) /\ Entry(j)' = Entry(j)
      /\ Etched(Here)' /\ entries'[Here][1] = e
  BY <1>2, <1>4, <1>5, OptionIs DEF Etched, Entry, Here
<1>7. TypeInv'
  <2>1. Some(e) \in Options(EntrySet)
    BY <1>3 DEF Options
  <2>2. entries' \in [Ids -> Options(EntrySet)]
    BY <1>5, <2>1
  <2> QED BY <1>1, <1>2, <2>2 DEF TypeInv
<1>8. PlaceInv'
  <2>1. \A id \in Ids : Etched(id)' => Done(id)' \/ id = Here'
    BY <1>1, <1>2, <1>6 DEF PlaceInv, Done, Here
  <2> QED BY <1>1, <1>2, <1>4, <2>1 DEF PlaceInv, Done, Here
<1>9. EntryInv'
  <2>1. \A j \in Ids : Etched(j)' => Capped(Entry(j)')
    <3>1. ASSUME NEW j \in Ids, Etched(j)' PROVE Capped(Entry(j)')
      <4>1. CASE j = Here
        BY <1>3, <1>6, <4>1 DEF Entry
      <4>2. CASE j # Here
        BY <1>6, <3>1, <4>2 DEF EntryInv
      <4> QED BY <4>1, <4>2
    <3> QED BY <3>1
  <2> QED BY <1>1, <2>1 DEF EntryInv, Capped, Limit
<1>10. NameInv'
  <2>1. ASSUME NEW j \in Ids, Etched(j)'
        PROVE  Entry(j)'.rune < Reserved \/ Entry(j)'.rune = Unnamed(j)
    <3>1. CASE j = Here
      BY <1>3, <1>6, <3>1 DEF Entry
    <3>2. CASE j # Here
      BY <1>6, <2>1, <3>2 DEF NameInv
    <3> QED BY <3>1, <3>2
  <2>2. ASSUME NEW j \in Ids \ {Here}, Etched(j)
        PROVE  Entry(j).rune # e.rune
    <3>1. CASE e.rune < Reserved /\ ~ Taken(e.rune)
      BY <2>2, <3>1 DEF Taken
    <3>2. CASE e.rune = Unnamed(Here)
      <4>1. /\ height \in Nat /\ index \in Nat /\ index < U32 /\ Here = <<height, index>>
            /\ j[1] \in Nat /\ j[2] \in Nat /\ j[2] < U32 /\ j = <<j[1], j[2]>>
            /\ U32 \in Nat /\ Reserved \in Nat
        BY <1>4, RunesAssumption DEF Ids, Heights, Here
      <4>2. height * U32 \in Nat /\ j[1] * U32 \in Nat
        BY <4>1, Distribute
      <4>3. e.rune = Reserved + height * U32 + index /\ ~ e.rune < Reserved
        BY <3>2, <4>1, <4>2 DEF Unnamed
      <4>4. SUFFICES ASSUME Entry(j).rune = Unnamed(j), Entry(j).rune = e.rune PROVE FALSE
        BY <2>2, <4>3 DEF NameInv
      <4>5. height * U32 + index = j[1] * U32 + j[2]
        BY <4>1, <4>2, <4>3, <4>4 DEF Unnamed
      <4>6. height = j[1] /\ index = j[2]
        BY <4>1, <4>5, NamesApart
      <4> QED BY <2>2, <4>1, <4>6
    <3> QED BY <1>3, <3>1, <3>2
  <2>3. NamesUnique'
    <3>1. ASSUME NEW i \in Ids, NEW j \in Ids, Etched(i)', Etched(j)', Entry(i)'.rune = Entry(j)'.rune
          PROVE  i = j
      <4>1. CASE i = Here /\ j # Here
        BY <1>6, <2>2, <3>1, <4>1 DEF Entry
      <4>2. CASE i # Here /\ j = Here
        BY <1>6, <2>2, <3>1, <4>2 DEF Entry
      <4>3. CASE i # Here /\ j # Here
        BY <1>6, <3>1, <4>3 DEF NameInv, NamesUnique
      <4> QED BY <4>1, <4>2, <4>3
    <3> QED BY <3>1 DEF NamesUnique
  <2> QED BY <1>1, <2>1, <2>3 DEF NameInv, Unnamed
<1>11. Conserved'
  <2>1. ASSUME NEW j \in Ids PROVE IssuedOf(j)' = IssuedOf(j) /\ Burned(j)' = Burned(j)
    <3>1. CASE j = Here
      <4>1. IssuedOf(j) = Issued(e) /\ Burned(j) = burned[j] + 0
        BY <1>4, <3>1 DEF IssuedOf, Burned, e
      <4>2. Etched(j)' /\ Entry(j)' = e
        BY <1>2, <1>6, <3>1 DEF Entry, Etched, Here
      <4>3. Burned(j)' = burned[j] + e.burned
        BY <1>2, <4>2 DEF Burned
      <4>4. IssuedOf(j)' = Issued(e)
        BY <4>2 DEF IssuedOf, Issued
      <4> QED BY <1>3, <4>1, <4>3, <4>4
    <3>2. CASE j # Here
      BY <1>2, <1>6, <3>2 DEF IssuedOf, Burned, Here
    <3> QED BY <3>1, <3>2
  <2> QED BY <1>2, <2>1, Totals DEF Conserved
<1> QED BY <1>7, <1>8, <1>9, <1>10, <1>11, RestReached

LEMMA CreateRuneEntryStep ==
  ASSUME IInv, CreateRuneEntry
  PROVE  IInv'
  BY CreateNothing, CreateOne

(* Where the rest goes is an output of the transaction.                    *)
LEMMA RestToFits ==
  ASSUME TypeInv, PhaseInv, RestTo # None
  PROVE  /\ RestTo[1] \in 1 .. Len(tx.shape) /\ RestTo[1] \in Outs
         /\ tx.artifact.kind # "cenotaph"
<1>1. Len(tx.shape) \in Nat /\ Len(tx.shape) <= MaxOutputs /\ DOMAIN tx.shape = 1 .. Len(tx.shape)
  BY LenProperties DEF TypeInv, TxSet, PhaseInv
<1>2. tx.artifact.kind # "cenotaph"
  BY DEF RestTo
<1>3. RestTo[1] \in 1 .. Len(tx.shape)
  <2>1. CASE tx.artifact.pointer # None
    <3>1. RestTo[1] = tx.artifact.pointer[1] + 1
      BY <1>2, <2>1, OptionIs DEF RestTo
    <3>2. tx.artifact.pointer[1] \in 0 .. Len(tx.shape) - 1
      BY <2>1 DEF PhaseInv, Sound
    <3> QED BY <1>1, <3>1, <3>2
  <2>2. CASE tx.artifact.pointer = None
    <3>1. Spendable(tx.shape) # {} /\ RestTo[1] = Min(Spendable(tx.shape))
      BY <1>2, <2>2, OptionIs DEF RestTo
    <3>2. Spendable(tx.shape) \subseteq 1 .. Len(tx.shape) /\ Spendable(tx.shape) \in SUBSET Nat
      BY <1>1 DEF Spendable
    <3> QED BY <3>1, <3>2, MinIn
  <2> QED BY <2>1, <2>2
<1> QED BY <1>1, <1>2, <1>3, RunesAssumption DEF Outs

LEMMA RestStep ==
  ASSUME IInv, Rest
  PROVE  IInv'
<1> USE DEF IInv
<1>1. /\ tx \in TxSet /\ tx.phase = "rest" /\ txBurned = Zero /\ tx.vout = 1 /\ unallocated \in Amounts
      /\ allocated \in [Outs -> Amounts]
  BY DEF Rest, TypeInv, PhaseInv
<1>2. /\ tx'.phase = "outputs" /\ tx'.shape = tx.shape /\ tx'.artifact = tx.artifact
      /\ tx'.etched = tx.etched /\ tx'.edicts = tx.edicts /\ tx'.spread = tx.spread
      /\ tx'.vout = tx.vout /\ tx' \in TxSet
  BY <1>1 DEF Rest, TxSet
<1>3. UNCHANGED <<height, index, entries, balances, burned, net>> /\ unallocated' = Zero
  BY DEF Rest
<1>4. PlaceInv'
  BY <1>1, <1>2, <1>3 DEF PlaceInv, Here, Done, Etched
<1>5. SpreadInv'
  BY <1>1, <1>2 DEF SpreadInv, PhaseInv
<1>6. NameInv' /\ EntryInv'
  BY <1>2, <1>3, Stays
<1>7. CASE RestTo = None
  <2>1. txBurned' = unallocated /\ allocated' = allocated /\ panicked' = panicked
    BY <1>7 DEF Rest
  <2>2. TypeInv'
    BY <1>1, <1>2, <1>3, <2>1, ZeroIn DEF TypeInv
  <2>3. PhaseInv'
    BY <1>1, <1>2, <1>3, <2>1 DEF PhaseInv
  <2>4. ASSUME NEW j \in Ids PROVE InTx(j)' = InTx(j)
    <3>1. DealtIn(allocated, j) \in Nat /\ unallocated[j] \in Nat
      BY <1>1, DealtNat DEF Amounts
    <3> QED BY <1>1, <1>3, <2>1, <3>1, Totals, ZeroIn
  <2>5. Conserved'
    BY <1>2, <1>3, <2>4, Stays, Totals DEF Conserved
  <2>6. NetInv'
    BY <1>3, <2>4 DEF NetInv
  <2> QED BY <1>4, <1>5, <1>6, <2>1, <2>2, <2>3, <2>5, <2>6 DEF NoPanic
<1>8. CASE RestTo # None
  <2> DEFINE v == RestTo[1]
             got == Plus(allocated[v], unallocated)
  <2>1. v \in 1 .. Len(tx.shape) /\ v \in Outs /\ tx.artifact.kind # "cenotaph"
    BY <1>8, RestToFits
  <2>2. /\ allocated' = [w \in Outs |-> IF w = v THEN Plus(allocated[w], unallocated) ELSE allocated[w]]
        /\ panicked' = (v > Len(tx.shape) \/ Overflows(allocated'[v]))
        /\ txBurned' = txBurned
    BY <1>8 DEF Rest
  <2>3. got \in Amounts /\ \A j \in Ids : got[j] = allocated[v][j] + unallocated[j]
    BY <1>1, <2>1, PlusIn
  <2>4. allocated' = [allocated EXCEPT ![v] = got] /\ allocated'[v] = got
    BY <1>1, <2>1, <2>2
  <2> HIDE DEF v, got
  <2>5. allocated' \in [Outs -> Amounts]
    BY <1>1, <2>1, <2>3, <2>4
  <2>6. TypeInv'
    BY <1>2, <1>3, <2>2, <2>5, ZeroIn DEF TypeInv, Overflows
  <2>7. PhaseInv'
    <3>1. ASSUME NEW w \in Outs, allocated'[w] # Zero
          PROVE  w >= tx.vout /\ w <= Len(tx.shape) /\ tx.artifact.kind # "cenotaph"
      <4>1. CASE w = v
        BY <1>1, <2>1, <4>1
      <4>2. CASE w # v
        BY <1>1, <2>4, <3>1, <4>2 DEF PhaseInv
      <4> QED BY <4>1, <4>2
    <3> QED BY <1>1, <1>2, <1>3, <2>2, <3>1 DEF PhaseInv
  <2>8. ASSUME NEW j \in Ids PROVE InTx(j)' = InTx(j)
    <3>1. DealtIn([allocated EXCEPT ![v] = got], j) = DealtIn(allocated, j) - allocated[v][j] + got[j]
      BY <1>1, <2>1, <2>3, DealtChange
    <3>2. /\ DealtIn(allocated, j) \in Nat /\ unallocated[j] \in Nat /\ allocated[v][j] \in Nat
          /\ txBurned[j] = 0 /\ unallocated'[j] = 0
      BY <1>1, <1>3, <2>1, DealtNat, ZeroIn DEF Amounts
    <3>3. DealtIn(allocated', j) = DealtIn(allocated, j) + unallocated[j]
      BY <2>3, <2>4, <3>1, <3>2
    <3> QED BY <2>2, <3>2, <3>3, Totals
  <2>9. Conserved'
    BY <1>2, <1>3, <2>8, Stays, Totals DEF Conserved
  <2>10. NetInv'
    BY <1>3, <2>8 DEF NetInv
  <2>11. NoPanic'
    <3>1. Fits'
      BY <1>6, <2>6, <2>9, AllFitsNext
    <3>2. \A j \in Ids : allocated'[v][j] < U128
      BY <2>1, <3>1 DEF Fits
    <3>3. \A j \in Ids : allocated'[v][j] \in Nat
      BY <2>3, <2>4 DEF Amounts
    <3>4. ~ Overflows(allocated'[v])
      BY <3>2, <3>3, RunesAssumption DEF Overflows
    <3>5. ~ v > Len(tx.shape)
      BY <1>1, <2>1, LenProperties DEF TxSet
    <3> QED BY <2>2, <3>4, <3>5 DEF NoPanic
  <2> QED BY <1>4, <1>5, <1>6, <2>6, <2>7, <2>9, <2>10, <2>11
<1> QED BY <1>7, <1>8

(* The cases of WriteOutput: the output is an OP_RETURN, or holds runes.   *)
LEMMA OutputNext ==
  ASSUME IInv, WriteOutput
  PROVE  /\ tx \in TxSet /\ tx.phase = "outputs" /\ tx.vout \in 1 .. Len(tx.shape) /\ tx.vout \in Outs
         /\ Here \in Ids /\ <<Here, tx.vout>> \in Outpoints
         /\ tx'.phase = "outputs" /\ tx'.shape = tx.shape /\ tx'.artifact = tx.artifact
         /\ tx'.etched = tx.etched /\ tx'.edicts = tx.edicts /\ tx'.spread = tx.spread
         /\ tx'.vout = tx.vout + 1 /\ tx' \in TxSet
         /\ UNCHANGED <<height, index, entries, burned, unallocated>>
         /\ allocated' = [allocated EXCEPT ![tx.vout] = Zero] /\ allocated' \in [Outs -> Amounts]
         /\ allocated[tx.vout] \in Amounts
         /\ \A id \in Ids : DealtIn(allocated', id) = DealtIn(allocated, id) - allocated[tx.vout][id]
         /\ PhaseInv' /\ SpreadInv' /\ NameInv' /\ EntryInv'
<1> USE DEF IInv
<1> DEFINE v == tx.vout
<1>1. /\ tx \in TxSet /\ tx.phase = "outputs" /\ v \in 1 .. Len(tx.shape)
      /\ Len(tx.shape) \in Nat /\ Len(tx.shape) <= MaxOutputs
  BY LenProperties DEF WriteOutput, TypeInv, TxSet, PhaseInv
<1>2. Here \in Ids /\ v \in Outs /\ <<Here, v>> \in Outpoints
  BY <1>1, RunesAssumption DEF PlaceInv, Outs, Outpoints
<1>3. /\ tx'.phase = "outputs" /\ tx'.shape = tx.shape /\ tx'.artifact = tx.artifact
      /\ tx'.etched = tx.etched /\ tx'.edicts = tx.edicts /\ tx'.spread = tx.spread
      /\ tx'.vout = tx.vout + 1 /\ tx' \in TxSet
  <2>1. tx' = [tx EXCEPT !.vout = v + 1] /\ v + 1 \in Nat
    BY <1>1 DEF WriteOutput
  <2> HIDE DEF v
  <2> QED BY <1>1, <2>1 DEF TxSet, v
<1>4. /\ UNCHANGED <<height, index, entries, burned, unallocated>>
      /\ allocated' = [allocated EXCEPT ![v] = Zero]
  BY DEF WriteOutput
<1>5. allocated \in [Outs -> Amounts] /\ allocated[v] \in Amounts /\ allocated' \in [Outs -> Amounts]
  BY <1>2, <1>4, ZeroIn DEF TypeInv
<1>6. ASSUME NEW id \in Ids
      PROVE  DealtIn(allocated', id) = DealtIn(allocated, id) - allocated[v][id]
  <2>1. DealtIn([allocated EXCEPT ![v] = Zero], id) = DealtIn(allocated, id) - allocated[v][id] + Zero[id]
    BY <1>2, <1>5, ZeroIn, DealtChange
  <2>2. Zero[id] = 0 /\ allocated[v][id] \in Nat /\ DealtIn(allocated, id) \in Nat
    BY <1>5, ZeroIn, DealtNat DEF Amounts
  <2> QED BY <1>4, <2>1, <2>2
<1>7. PhaseInv'
  <2>1. ASSUME NEW w \in Outs, allocated'[w] # Zero
        PROVE  w >= v + 1 /\ w <= Len(tx.shape) /\ tx.artifact.kind # "cenotaph"
    <3>1. w # v /\ allocated[w] # Zero
      BY <1>2, <1>4, <1>5, <2>1
    <3>2. w >= v /\ w <= Len(tx.shape) /\ tx.artifact.kind # "cenotaph"
      BY <3>1 DEF PhaseInv
    <3>3. w \in Int /\ v \in Int
      BY <1>1 DEF Outs
    <3> QED BY <3>1, <3>2, <3>3
  <2>2. v + 1 >= 1
    BY <1>1
  <2> QED BY <1>1, <1>3, <1>4, <2>1, <2>2 DEF PhaseInv
<1>8. SpreadInv'
  BY <1>1, <1>3 DEF SpreadInv, PhaseInv
<1>9. NameInv' /\ EntryInv'
  BY <1>3, <1>4, Stays
<1> QED BY <1>1, <1>2, <1>3, <1>4, <1>5, <1>6, <1>7, <1>8, <1>9

LEMMA OutputBurned ==
  ASSUME IInv, WriteOutput,
         txBurned' = Plus(txBurned, allocated[tx.vout]),
         panicked' = Overflows(txBurned'),
         UNCHANGED <<balances, net>>
  PROVE  IInv'
<1> USE DEF IInv
<1>1. txBurned \in Amounts /\ allocated \in [Outs -> Amounts]
  BY DEF TypeInv
<1>2. /\ txBurned' \in Amounts
      /\ \A id \in Ids : txBurned'[id] = txBurned[id] + allocated[tx.vout][id]
  BY <1>1, OutputNext, PlusIn
<1>3. TypeInv'
  BY <1>2, OutputNext DEF TypeInv, Overflows
<1>4. PlaceInv'
  <2>1. tx.vout \in Nat /\ tx'.vout = tx.vout + 1
    BY OutputNext
  <2>2. ASSUME NEW o \in Outpoints, balances'[o] # Zero
        PROVE  Done(o[1]) \/ (o[1] = Here /\ o[2] < tx'.vout)
    <3>1. Done(o[1]) \/ (o[1] = Here /\ o[2] < tx.vout)
      BY <2>2 DEF PlaceInv
    <3>2. o[2] \in Nat
      BY DEF Outpoints, Outs
    <3> QED BY <2>1, <3>1, <3>2
  <2> QED BY <2>2, OutputNext DEF PlaceInv, Here, Done, Etched
<1>5. ASSUME NEW id \in Ids PROVE InTx(id)' = InTx(id)
  <2>1. /\ DealtIn(allocated, id) \in Nat /\ unallocated[id] \in Nat /\ txBurned[id] \in Nat
        /\ allocated[tx.vout][id] \in Nat
    BY <1>1, DealtNat, OutputNext DEF TypeInv, Amounts
  <2>2. /\ DealtIn(allocated', id) = DealtIn(allocated, id) - allocated[tx.vout][id]
        /\ unallocated' = unallocated
    BY OutputNext
  <2> QED BY <1>2, <2>1, <2>2, Totals
<1>6. Conserved'
  BY <1>5, OutputNext, Stays, Totals DEF Conserved
<1>7. NetInv'
  BY <1>5 DEF NetInv
<1>8. NoPanic'
  <2>1. Fits'
    BY <1>3, <1>6, OutputNext, AllFitsNext
  <2>2. \A id \in Ids : txBurned'[id] < U128
    BY <2>1 DEF Fits
  <2> QED BY <1>2, <2>2, RunesAssumption DEF NoPanic, Overflows, Amounts
<1> QED BY <1>3, <1>4, <1>6, <1>7, <1>8, OutputNext

LEMMA OutputWritten ==
  ASSUME IInv, WriteOutput,
         balances' = [balances EXCEPT ![<<Here, tx.vout>>] = allocated[tx.vout]],
         net' = Minus(net, allocated[tx.vout]),
         UNCHANGED <<txBurned, panicked>>
  PROVE  IInv'
<1> USE DEF IInv
<1> DEFINE o == <<Here, tx.vout>>
           f == allocated[tx.vout]
<1>1. /\ balances \in [Outpoints -> Amounts] /\ allocated \in [Outs -> Amounts] /\ net \in [Ids -> Int]
      /\ o \in Outpoints /\ o[1] = Here /\ o[2] = tx.vout /\ f \in Amounts /\ Here \in Ids
      /\ tx.vout \in Nat
  BY OutputNext DEF TypeInv
<1>2. balances[o] = Zero
  <2>1. height \in Int /\ index \in Int
    BY DEF TypeInv
  <2>2. ~ Done(Here) /\ ~ tx.vout < tx.vout
    BY <1>1, <2>1 DEF Done, Here
  <2> QED BY <1>1, <2>2 DEF PlaceInv
<1>3. balances' = [balances EXCEPT ![o] = f] /\ net' = Minus(net, f)
  OBVIOUS
<1> HIDE DEF o, f
<1>4. balances' \in [Outpoints -> Amounts]
  BY <1>1, <1>3
<1>5. net' \in [Ids -> Int] /\ \A id \in Ids : net'[id] = net[id] - f[id]
  BY <1>1, <1>3, MinusIn
<1>6. TypeInv'
  BY <1>4, <1>5, OutputNext DEF TypeInv
<1>7. PlaceInv'
  <2>1. ASSUME NEW q \in Outpoints, balances'[q] # Zero
        PROVE  Done(q[1]) \/ (q[1] = Here /\ q[2] < tx.vout + 1)
    <3>1. CASE q = o
      BY <1>1, <3>1
    <3>2. CASE q # o
      <4>1. Done(q[1]) \/ (q[1] = Here /\ q[2] < tx.vout)
        BY <1>1, <1>3, <2>1, <3>2 DEF PlaceInv
      <4>2. q[2] \in Nat
        BY DEF Outpoints, Outs
      <4> QED BY <1>1, <4>1, <4>2
    <3> QED BY <3>1, <3>2
  <2> QED BY <2>1, OutputNext DEF PlaceInv, Here, Done, Etched
<1>8. ASSUME NEW id \in Ids
      PROVE  /\ InTx(id)' = InTx(id) - f[id] /\ InTx(id) \in Nat /\ f[id] \in Nat
             /\ Held(id)' = Held(id) + f[id] /\ Held(id) \in Nat
  <2>1. /\ DealtIn(allocated, id) \in Nat /\ unallocated[id] \in Nat /\ txBurned[id] \in Nat
        /\ f[id] \in Nat /\ HeldIn(balances, id) \in Nat
    BY <1>1, DealtNat, HeldNat DEF TypeInv, Amounts
  <2>2. DealtIn(allocated', id) = DealtIn(allocated, id) - f[id] /\ unallocated' = unallocated
    BY OutputNext DEF f
  <2>3. HeldIn([balances EXCEPT ![o] = f], id) = HeldIn(balances, id) - balances[o][id] + f[id]
    BY <1>1, HeldChange
  <2>4. balances[o][id] = 0
    BY <1>2, ZeroIn
  <2>5. HeldIn(balances', id) = HeldIn(balances, id) + f[id]
    <3>1. HeldIn(balances', id) = HeldIn(balances, id) - balances[o][id] + f[id]
      BY <1>3, <2>3
    <3> QED BY <2>1, <2>4, <3>1
  <2>6. InTx(id) = unallocated[id] + DealtIn(allocated, id) + txBurned[id]
        /\ InTx(id)' = unallocated[id] + DealtIn(allocated', id) + txBurned[id]
    BY <2>2, Totals
  <2>7. Held(id) = HeldIn(balances, id) /\ Held(id)' = HeldIn(balances', id)
    BY Totals
  <2> QED BY <2>1, <2>2, <2>5, <2>6, <2>7
<1>9. Conserved'
  <2>1. ASSUME NEW id \in Ids PROVE IssuedOf(id)' = Held(id)' + InTx(id)' + Burned(id)'
    <3>1. IssuedOf(id)' = IssuedOf(id) /\ Burned(id)' = Burned(id)
      BY OutputNext, Stays
    <3>2. IssuedOf(id) = Held(id) + InTx(id) + Burned(id) /\ Burned(id) \in Nat
      BY BurnedNat DEF Conserved
    <3> QED BY <1>8, <3>1, <3>2
  <2> QED BY <2>1 DEF Conserved
<1>10. NetInv'
  BY <1>5, <1>8 DEF NetInv
<1>11. NoPanic'
  BY DEF NoPanic
<1> QED BY <1>6, <1>7, <1>9, <1>10, <1>11, OutputNext

LEMMA WriteOutputStep ==
  ASSUME IInv, WriteOutput
  PROVE  IInv'
<1>1. \/ /\ txBurned' = Plus(txBurned, allocated[tx.vout])
         /\ panicked' = Overflows(txBurned')
         /\ UNCHANGED <<balances, net>>
      \/ /\ balances' = [balances EXCEPT ![<<Here, tx.vout>>] = allocated[tx.vout]]
         /\ net' = Minus(net, allocated[tx.vout])
         /\ UNCHANGED <<txBurned, panicked>>
  BY DEF WriteOutput
<1> QED BY <1>1, OutputBurned, OutputWritten

LEMMA EndTxStep ==
  ASSUME IInv, EndTx
  PROVE  IInv'
<1> USE DEF IInv
<1>1. /\ tx \in TxSet /\ tx.phase = "outputs" /\ tx.vout > Len(tx.shape) /\ tx.vout \in Nat
      /\ Len(tx.shape) \in Nat /\ tx.etched = None /\ unallocated = Zero
      /\ txBurned \in Amounts /\ burned \in Amounts /\ net \in [Ids -> Int]
  BY LenProperties DEF EndTx, TypeInv, TxSet, PhaseInv
<1>2. /\ UNCHANGED <<height, entries, balances, unallocated, allocated>>
      /\ tx' = Idle /\ index' = index + 1 /\ txBurned' = Zero
      /\ burned' = Plus(burned, txBurned) /\ net' = Minus(net, txBurned)
      /\ panicked' = Overflows(burned')
  BY DEF EndTx
<1>3. Here \in Ids /\ height \in Int /\ index \in 0 .. MaxTx
  <2>1. Here \in Ids
    BY <1>1 DEF PlaceInv
  <2> QED BY <2>1 DEF Here, Ids, TypeInv
<1>4. ASSUME NEW v \in Outs PROVE allocated[v] = Zero
  <2>1. v \in Nat
    BY DEF Outs
  <2> QED BY <1>1, <2>1 DEF PhaseInv
<1>5. /\ burned' \in Amounts /\ net' \in [Ids -> Int]
      /\ \A id \in Ids : burned'[id] = burned[id] + txBurned[id]
      /\ \A id \in Ids : net'[id] = net[id] - txBurned[id]
  BY <1>1, <1>2, PlusIn, MinusIn
<1>6. TypeInv'
  BY <1>2, <1>3, <1>5, IdleIn, ZeroIn, RunesAssumption DEF TypeInv, Overflows
<1>7. PlaceInv'
  <2>1. \A id \in Ids : Done(id) \/ id = Here => Done(id)'
    <3>1. \A id \in Ids : id[2] \in Int
      BY RunesAssumption DEF Ids
    <3> QED BY <1>2, <1>3, <3>1 DEF Done, Here
  <2>2. \A id \in Ids : Etched(id)' => Done(id)'
    BY <1>2, <2>1 DEF PlaceInv, Etched
  <2>3. \A o \in Outpoints : balances'[o] # Zero => Done(o[1])'
    <3>1. \A o \in Outpoints : o[1] \in Ids
      BY DEF Outpoints
    <3>2. \A o \in Outpoints : balances[o] # Zero => Done(o[1]) \/ o[1] = Here
      BY DEF PlaceInv
    <3> QED BY <1>2, <2>1, <3>1, <3>2
  <2> QED BY <1>2, <2>2, <2>3, IdleIn DEF PlaceInv
<1>8. PhaseInv'
  <2>1. << >> \in Seq(EdictsOf(NoArtifact)) /\ 0 <= MaxOutputs
    BY RunesAssumption
  <2> QED BY <1>1, <1>2, <1>4, <2>1, IdleIn DEF PhaseInv
<1>9. SpreadInv'
  BY <1>2, IdleIn DEF SpreadInv
<1>10. \A id \in Ids : Etched(id)' = Etched(id) /\ Entry(id)' = Entry(id)
  BY <1>2 DEF Etched, Entry
<1>11. EntryInv'
  BY <1>2, <1>10, IdleIn DEF EntryInv
<1>12. NameInv'
  BY <1>1, <1>2, <1>10, IdleIn, NamesKept
<1>13. ASSUME NEW id \in Ids
       PROVE  InTx(id) = txBurned[id] /\ InTx(id)' = 0 /\ txBurned[id] \in Nat /\ burned[id] \in Nat
  <2>1. DealtIn(allocated, id) = 0
    BY <1>4, NoneDealt
  <2>2. unallocated[id] = 0 /\ unallocated'[id] = 0 /\ txBurned'[id] = 0 /\ allocated' = allocated
    BY <1>1, <1>2, ZeroIn
  <2>3. txBurned[id] \in Nat /\ burned[id] \in Nat
    BY <1>1 DEF Amounts
  <2> QED BY <2>1, <2>2, <2>3, Totals
<1>14. Conserved'
  <2>1. ASSUME NEW id \in Ids PROVE IssuedOf(id)' = Held(id)' + InTx(id)' + Burned(id)'
    <3>1. IssuedOf(id)' = IssuedOf(id)
      BY <1>1, <1>2, <1>10, IdleIn DEF IssuedOf
    <3>2. Held(id)' = Held(id) /\ Held(id) \in Nat
      BY <1>2, Totals, HeldNat DEF TypeInv
    <3>3. Burned(id)' = Burned(id) + txBurned[id] /\ Burned(id) \in Nat
      <4>1. Burned(id) \in Nat
        BY BurnedNat
      <4>2. CASE Etched(id)
        <5>1. Entry(id).burned \in Nat
          BY <4>2, OptionIn DEF TypeInv, Etched, Entry, EntrySet
        <5> QED BY <1>5, <1>10, <1>13, <4>1, <4>2, <5>1 DEF Burned
      <4>3. CASE ~ Etched(id)
        BY <1>5, <1>10, <1>13, <4>1, <4>3 DEF Burned
      <4> QED BY <4>2, <4>3
    <3>4. IssuedOf(id) = Held(id) + InTx(id) + Burned(id)
      BY DEF Conserved
    <3> QED BY <1>13, <3>1, <3>2, <3>3, <3>4
  <2> QED BY <2>1 DEF Conserved
<1>15. NetInv'
  <2>1. ASSUME NEW id \in Ids PROVE net'[id] = InTx(id)'
    <3>1. net[id] = InTx(id)
      BY DEF NetInv
    <3> QED BY <1>5, <1>13, <3>1
  <2> QED BY <2>1 DEF NetInv
<1>16. NoPanic'
  <2>1. Fits'
    BY <1>6, <1>11, <1>14, AllFitsNext
  <2>2. \A id \in Ids : Burned(id)' \in Nat /\ burned'[id] <= Burned(id)'
    BY <1>6, BurnedNatNext
  <2>3. \A id \in Ids : burned'[id] < U128
    <3>1. ASSUME NEW id \in Ids PROVE burned'[id] < U128
      <4>1. Burned(id)' < U128
        BY <2>1 DEF Fits
      <4>2. burned'[id] \in Nat
        BY <1>5 DEF Amounts
      <4> QED BY <2>2, <4>1, <4>2, RunesAssumption
    <3> QED BY <3>1
  <2> QED BY <1>2, <1>5, <2>3, RunesAssumption DEF NoPanic, Overflows, Amounts
<1> QED BY <1>6, <1>7, <1>8, <1>9, <1>11, <1>12, <1>14, <1>15, <1>16

LEMMA EndBlockStep ==
  ASSUME IInv, EndBlock
  PROVE  IInv'
<1> USE DEF IInv
<1> DEFINE with(id) == [Entry(id) EXCEPT !.burned = @ + burned[id]]
<1>1. /\ tx.phase = "idle" /\ tx.etched = None /\ height \in Heights /\ burned \in Amounts
      /\ entries \in [Ids -> Options(EntrySet)]
      /\ unallocated = Zero /\ txBurned = Zero /\ \A v \in Outs : allocated[v] = Zero
  BY IdleIn DEF EndBlock, PhaseInv, TypeInv
<1>2. /\ UNCHANGED <<balances, tx, unallocated, allocated, txBurned, net>>
      /\ burned' = Zero /\ height' = height + 1 /\ index' = 0
      /\ entries' = [id \in Ids |-> IF Etched(id) THEN Some(with(id)) ELSE None]
  BY DEF EndBlock
<1>3. ASSUME NEW id \in Ids, Etched(id)
      PROVE  /\ Entry(id) \in EntrySet /\ with(id) \in EntrySet
             /\ with(id).burned = Entry(id).burned + burned[id]
             /\ with(id).rune = Entry(id).rune /\ with(id).premine = Entry(id).premine
             /\ with(id).terms = Entry(id).terms /\ with(id).mints = Entry(id).mints
             /\ Etched(id)' /\ Entry(id)' = with(id)
  <2>1. Entry(id) \in EntrySet
    BY <1>1, <1>3, OptionIn DEF Etched, Entry
  <2>2. burned[id] \in Nat
    BY <1>1 DEF Amounts
  <2>3. Etched(id)' /\ Entry(id)' = with(id)
    <3>1. entries'[id] = Some(with(id))
      BY <1>2, <1>3
    <3> HIDE DEF with
    <3> QED BY <3>1, OptionIs DEF Etched, Entry
  <2> QED BY <2>1, <2>2, <2>3 DEF EntrySet
<1>4. ASSUME NEW id \in Ids, ~ Etched(id) PROVE ~ Etched(id)'
  <2>1. entries'[id] = None
    BY <1>2, <1>4
  <2> QED BY <2>1 DEF Etched
<1> HIDE DEF with
<1>5. TypeInv'
  <2>1. \A id \in Ids : (IF Etched(id) THEN Some(with(id)) ELSE None) \in Options(EntrySet)
    BY <1>3 DEF Options
  <2>2. entries' \in [Ids -> Options(EntrySet)]
    BY <1>2, <2>1
  <2>3. height + 1 \in 1 .. MaxHeight + 1 /\ 0 \in 0 .. MaxTx + 1
    BY <1>1, RunesAssumption DEF Heights
  <2>4. panicked' \in BOOLEAN
    BY DEF EndBlock
  <2> QED BY <1>2, <2>2, <2>3, <2>4, ZeroIn DEF TypeInv
<1>6. PlaceInv'
  <2>1. \A id \in Ids : Done(id) => Done(id)'
    <3>1. \A id \in Ids : id[1] \in Int
      BY RunesAssumption DEF Ids, Heights
    <3>2. height \in Int
      BY <1>1 DEF Heights
    <3> QED BY <1>2, <3>1, <3>2 DEF Done
  <2>2. \A id \in Ids : Etched(id)' => Done(id)'
    BY <1>1, <1>4, <2>1 DEF PlaceInv
  <2>3. \A o \in Outpoints : balances'[o] # Zero => Done(o[1])'
    <3>1. \A o \in Outpoints : o[1] \in Ids
      BY DEF Outpoints
    <3> QED BY <1>1, <1>2, <2>1, <3>1 DEF PlaceInv
  <2> QED BY <1>1, <1>2, <2>2, <2>3 DEF PlaceInv
<1>7. PhaseInv'
  BY <1>2 DEF PhaseInv
<1>8. SpreadInv'
  BY <1>2 DEF SpreadInv
<1>9. EntryInv'
  <2>1. ASSUME NEW id \in Ids, Etched(id)' PROVE Capped(Entry(id))'
    <3>1. Etched(id) /\ Capped(Entry(id))
      BY <1>4, <2>1 DEF EntryInv
    <3> QED BY <1>3, <3>1 DEF Capped, Limit
  <2> QED BY <1>1, <1>2, <2>1 DEF EntryInv
<1>10. NameInv'
  <2>1. \A id \in Ids : Etched(id)' = Etched(id)
    BY <1>3, <1>4 DEF Etched
  <2> QED BY <1>1, <1>2, <1>3, <2>1, NamesKept
<1>11. ASSUME NEW id \in Ids
       PROVE  /\ IssuedOf(id)' = IssuedOf(id) /\ Burned(id)' = Burned(id)
              /\ ~ Etched(id) => burned[id] = 0
  <2>1. CASE Etched(id)
    <3>1. IssuedOf(id)' = IssuedOf(id)
      BY <1>3, <2>1 DEF IssuedOf, Issued
    <3>2. Burned(id) = burned[id] + Entry(id).burned /\ Burned(id)' = 0 + Entry(id).burned + burned[id]
      BY <1>2, <1>3, <2>1, ZeroIn DEF Burned, EntrySet
    <3>3. Entry(id).burned \in Nat /\ burned[id] \in Nat
      BY <1>1, <1>3, <2>1 DEF EntrySet, Amounts
    <3> QED BY <2>1, <3>1, <3>2, <3>3
  <2>2. CASE ~ Etched(id)
    <3>1. IssuedOf(id)' = 0 /\ IssuedOf(id) = 0 /\ Burned(id) = burned[id] + 0 /\ Burned(id)' = 0
      BY <1>1, <1>2, <1>4, <2>2, ZeroIn DEF IssuedOf, Burned
    <3>2. /\ HeldIn(balances, id) \in Nat /\ DealtIn(allocated, id) \in Nat /\ burned[id] \in Nat
          /\ unallocated[id] \in Nat /\ txBurned[id] \in Nat
      BY HeldNat, DealtNat DEF TypeInv, Amounts
    <3>3. IssuedOf(id) = Held(id) + InTx(id) + Burned(id)
      BY DEF Conserved
    <3>4. Held(id) = HeldIn(balances, id)
          /\ InTx(id) = unallocated[id] + DealtIn(allocated, id) + txBurned[id]
      BY Totals
    <3>5. burned[id] = 0
      <4>1. Held(id) \in Nat /\ InTx(id) \in Nat /\ burned[id] \in Nat
        BY <3>2, <3>4
      <4>2. IssuedOf(id) = 0 /\ Burned(id) = burned[id]
        BY <3>1, <3>2
      <4> QED BY <3>3, <4>1, <4>2
    <3> QED BY <3>1, <3>5
  <2> QED BY <2>1, <2>2
<1>12. Conserved'
  BY <1>2, <1>11, Totals DEF Conserved
<1>13. NetInv'
  BY <1>2, Totals DEF NetInv
<1>14. NoPanic'
  <2>1. panicked' = \E id \in Ids : /\ burned[id] > 0
                                    /\ ~ Etched(id) \/ Entry(id).burned + burned[id] >= U128
    BY DEF EndBlock
  <2>2. ASSUME NEW id \in Ids, burned[id] > 0 PROVE Etched(id) /\ ~ Entry(id).burned + burned[id] >= U128
    <3>1. Etched(id)
      BY <1>11, <2>2
    <3>2. Burned(id) < U128
      BY AllFits DEF Fits
    <3>3. Burned(id) = burned[id] + Entry(id).burned /\ Entry(id).burned \in Nat /\ burned[id] \in Nat
      BY <1>1, <1>3, <3>1 DEF Burned, EntrySet, Amounts
    <3> QED BY <3>1, <3>2, <3>3, RunesAssumption
  <2> QED BY <2>1, <2>2 DEF NoPanic
<1> QED BY <1>5, <1>6, <1>7, <1>8, <1>9, <1>10, <1>12, <1>13, <1>14

LEMMA Stutter ==
  ASSUME IInv, UNCHANGED vars
  PROVE  IInv'
<1> USE DEF IInv, vars
<1>1. TypeInv' /\ PhaseInv' /\ SpreadInv' /\ NoPanic'
  BY DEF TypeInv, PhaseInv, SpreadInv, NoPanic
<1>2. PlaceInv'
  BY DEF PlaceInv, Here, Done, Etched
<1>3. NameInv' /\ EntryInv' /\ Conserved' /\ NetInv'
  BY Stays, Totals DEF Conserved, NetInv
<1> QED BY <1>1, <1>2, <1>3

-----------------------------------------------------------------------------
(* Every step keeps the invariant.                                         *)
LEMMA NextIInv == IInv /\ [Next]_vars => IInv'
<1> SUFFICES ASSUME IInv, [Next]_vars PROVE IInv'
  OBVIOUS
<1>1. ASSUME NEW t \in Txs, NEW inputs \in SUBSET Holding, Begin(t, inputs) PROVE IInv'
  BY <1>1, BeginStep
<1>2. ASSUME NEW o \in Outpoints, TakeInput(o) PROVE IInv'
  BY <1>2, TakeInputStep
<1>3. CASE MintRune
  BY <1>3, MintRuneStep
<1>4. CASE Etch
  BY <1>4, EtchStep
<1>5. CASE NextEdict
  BY <1>5, NextEdictStep
<1>6. CASE Allocate
  BY <1>6, AllocateStep
<1>7. CASE CreateRuneEntry
  BY <1>7, CreateRuneEntryStep
<1>8. CASE Rest
  BY <1>8, RestStep
<1>9. CASE WriteOutput
  BY <1>9, WriteOutputStep
<1>10. CASE EndTx
  BY <1>10, EndTxStep
<1>11. CASE EndBlock
  BY <1>11, EndBlockStep
<1>12. CASE UNCHANGED vars
  BY <1>12, Stutter
<1> QED BY <1>1, <1>2, <1>3, <1>4, <1>5, <1>6, <1>7, <1>8, <1>9, <1>10, <1>11, <1>12 DEF Next, Running

LEMMA Invariant == Spec => []IInv
  BY InitIInv, NextIInv, PTL DEF Spec

(* The state of the ledger is made of amounts, whatever the blocks hold,   *)
(* and no rune is minted beyond the cap of its terms.                      *)
THEOREM TypeCorrect == Spec => []TypeOK
<1>1. IInv => TypeOK
  <2> SUFFICES ASSUME IInv PROVE TypeOK
    OBVIOUS
  <2> USE DEF IInv
  <2>1. ASSUME NEW e \in EntrySet, Capped(e) PROVE EntryOK(e)
    <3>1. /\ e.rune \in Nat /\ e.premine \in Nat /\ e.mints \in Nat /\ e.burned \in Nat
          /\ e.terms \in Options(TermsSet)
      BY DEF EntrySet
    <3>2. e.terms = None => e.mints = 0
      BY <2>1, <3>1 DEF Capped
    <3>3. e.terms # None =>
            /\ Default(e.terms[1].cap) \in Nat /\ Default(e.terms[1].amount) \in Nat
            /\ e.mints <= Default(e.terms[1].cap)
      <4>1. SUFFICES ASSUME e.terms # None
                     PROVE  /\ Default(e.terms[1].cap) \in Nat /\ Default(e.terms[1].amount) \in Nat
                            /\ e.mints <= Default(e.terms[1].cap)
        OBVIOUS
      <4>2. e.terms[1] \in TermsSet
        BY <3>1, <4>1, OptionIn
      <4> QED BY <2>1, <4>1, <4>2, DefaultNat DEF Capped, TermsSet
    <3> QED BY <3>1, <3>2, <3>3 DEF EntryOK
  <2>2. ASSUME NEW id \in Ids, Etched(id)
        PROVE  EntryOK(Entry(id)) /\ (id[1] < height \/ (id[1] = height /\ id[2] <= index))
    <3>1. Entry(id) \in EntrySet /\ Capped(Entry(id))
      BY <2>2, OptionIn DEF TypeInv, EntryInv, Etched, Entry
    <3>2. Done(id) \/ id = Here
      BY <2>2 DEF PlaceInv
    <3>3. id[2] \in Int /\ index \in Int
      BY RunesAssumption DEF Ids, TypeInv
    <3> QED BY <2>1, <3>1, <3>2, <3>3 DEF Done, Here
  <2>3. tx.etched # None => tx.phase = "edicts" /\ EntryOK(tx.etched[1])
    <3>1. SUFFICES ASSUME tx.etched # None PROVE tx.phase = "edicts" /\ EntryOK(tx.etched[1])
      OBVIOUS
    <3>2. tx.etched[1] \in EntrySet /\ Capped(tx.etched[1])
      BY <3>1, OptionIn DEF TypeInv, TxSet, EntryInv
    <3> QED BY <2>1, <3>1, <3>2 DEF PhaseInv
  <2>4. tx \in TxSet
    BY DEF TypeInv
  <2> QED BY <2>2, <2>3, <2>4 DEF TypeOK, TypeInv, TxSet
<1> QED BY <1>1, Invariant, PTL

(* What was issued of a rune is held, in the transaction in progress, or   *)
(* burned, whatever the messages of the transactions say.                  *)
THEOREM Conservation == Spec => []Conserved
<1>1. IInv => Conserved
  BY DEF IInv
<1> QED BY <1>1, Invariant, PTL

(* No checked sum, assert! or unwrap of the updater fails.                 *)
THEOREM NeverPanics == Spec => []NoPanic
<1>1. IInv => NoPanic
  BY DEF IInv
<1> QED BY <1>1, Invariant, PTL

(* No two runes have the same name.                                        *)
THEOREM UniqueNames == Spec => []NamesUnique
<1>1. IInv => NamesUnique
  BY DEF IInv, NameInv
<1> QED BY <1>1, Invariant, PTL

(* The event lines of every finished transaction add up to nothing.        *)
THEOREM EventLinesBalance == Spec => []EventsBalance
<1>1. IInv => EventsBalance
  <2> SUFFICES ASSUME IInv, tx.phase = "idle" PROVE net = Zero
    BY DEF EventsBalance
  <2> USE DEF IInv
  <2>1. unallocated = Zero /\ txBurned = Zero /\ \A v \in Outs : allocated[v] = Zero
    BY DEF PhaseInv
  <2>2. ASSUME NEW id \in Ids PROVE net[id] = 0
    <3>1. DealtIn(allocated, id) = 0
      BY <2>1, NoneDealt
    <3>2. InTx(id) = unallocated[id] + DealtIn(allocated, id) + txBurned[id]
      BY Totals
    <3> QED BY <2>1, <3>1, <3>2, ZeroIn DEF NetInv
  <2> QED BY <2>2 DEF TypeInv, Zero
<1> QED BY <1>1, Invariant, PTL

(* No output of a malformed message ever gets a rune.                      *)
THEOREM CenotaphsBurn == Spec => CenotaphBurns
<1>1. IInv /\ [Next]_vars =>
        [tx.artifact.kind = "cenotaph" =>
           \A o \in Outpoints : balances'[o] = balances[o] \/ balances'[o] = Zero]_vars
  <2> SUFFICES ASSUME IInv, Next, tx.artifact.kind = "cenotaph", NEW o \in Outpoints
               PROVE  balances'[o] = balances[o] \/ balances'[o] = Zero
    OBVIOUS
  <2> USE DEF IInv
  <2>1. balances \in [Outpoints -> Amounts]
    BY DEF TypeInv
  <2>2. CASE \E q \in Outpoints : TakeInput(q)
    BY <2>1, <2>2 DEF TakeInput
  <2>3. CASE WriteOutput
    <3>1. tx.vout \in Outs
      BY <2>3, OutputNext
    <3>2. allocated[tx.vout] = Zero
      BY <3>1 DEF PhaseInv
    <3> QED BY <2>1, <2>3, <3>2 DEF WriteOutput
  <2>4. CASE \/ \E t \in Txs, inputs \in SUBSET Holding : Begin(t, inputs)
             \/ MintRune \/ Etch \/ NextEdict \/ Allocate \/ CreateRuneEntry \/ Rest
             \/ EndTx \/ EndBlock
    BY <2>4 DEF Begin, MintRune, Etch, NextEdict, Allocate, CreateRuneEntry, Rest, EndTx, EndBlock
  <2> QED BY <2>2, <2>3, <2>4 DEF Next, Running
<1> QED BY <1>1, Invariant, PTL DEF Spec, CenotaphBurns
=============================================================================
