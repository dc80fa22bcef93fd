----------------------------- MODULE Runestone -----------------------------
(***************************************************************************)
(* The runes message of a transaction: how ord-runes reads the integers    *)
(* of a payload (Runestone::decipher) and how a wallet writes them         *)
(* (Runestone::encipher).                                                  *)
(*                                                                         *)
(* A message says whether a transaction carries one ("none", "garbled" for *)
(* an opcode, an invalid script or an invalid varint where data was        *)
(* expected, "data") and the integers of its payload. An option is a       *)
(* sequence of at most one element. Of the flaws of a message only their   *)
(* presence is kept, and the odd tags that change no amount (divisibility, *)
(* spacers, symbol) are left out.                                          *)
(***************************************************************************)
EXTENDS Integers, Sequences, FiniteSets, SequencesExt, FiniteSetsExt

CONSTANTS U32, U64, U128   \* one more than the largest value of the integer types

Body == 0
Flags == 2
RuneTag == 4
Premine == 6
Cap == 8
Amount == 10
HeightStart == 12
HeightEnd == 14
OffsetStart == 16
OffsetEnd == 18
Mint == 20
Pointer == 22

None == << >>
Some(v) == <<v>>
Default(o) == IF o = None THEN 0 ELSE o[1]

(* Flag::take: bit k of the flags.                                         *)
Bit(flags, k) == (flags \div 2^k) % 2 = 1

(* RuneId: a block and an index in it. RuneId::new refuses 0:n.            *)
NoRune == <<0, 0>>
NewId(block, tx) ==
  IF block >= U64 \/ tx >= U32 \/ (block = 0 /\ tx > 0) THEN None ELSE Some(<<block, tx>>)

\* Mutant: the index is a delta also when the block changes.
NextIdLoose(id, block, tx) == NewId(id[1] + block, id[2] + tx)

(* RuneId::next: the id that a pair of deltas leads to.                    *)
NextId(id, block, tx) ==
  NewId(id[1] + block, IF block = 0 THEN id[2] + tx ELSE tx)

(* The first index at which a message has the body tag, or one past it.    *)
BodyAt(p) ==
  CHOOSE i \in 1 .. Len(p) + 1 :
    /\ i = Len(p) + 1 \/ (i % 2 = 1 /\ p[i] = Body)
    /\ \A j \in 1 .. i - 1 : ~ (j % 2 = 1 /\ p[j] = Body)

(* The pairs of tag and value before the body; a lone last tag is a flaw.  *)
Fields(p) == [k \in 1 .. (BodyAt(p) - 1) \div 2 |-> [tag |-> p[2 * k - 1], value |-> p[2 * k]]]
Truncated(p) == BodyAt(p) = Len(p) + 1 /\ Len(p) % 2 = 1

(* The fields of a tag, which are read from the first on.                  *)
Places(p, tag) == {k \in DOMAIN Fields(p) : Fields(p)[k].tag = tag}

(* Tag::take of one value that passes the bound.                           *)
Take(p, tag, bound) ==
  LET ks == Places(p, tag)
      v  == Fields(p)[Min(ks)].value
  IN  IF ks # {} /\ v < bound THEN Some(v) ELSE None

(* The body: edicts of four integers, ids as deltas.                       *)
BodyOf(p) == SubSeq(p, BodyAt(p) + 1, Len(p))

(* The id of the k-th edict, None from the first one that is no id.        *)
EdictIds(p) ==
  LET body == BodyOf(p)
      f[k \in 0 .. Len(body) \div 4] ==
        IF k = 0 THEN Some(NoRune)
        ELSE IF f[k - 1] = None THEN None
        ELSE NextId(f[k - 1][1], body[4 * k - 3], body[4 * k - 2])
  IN  f

(* Edict::from_integers: an output may be one past the last, meaning all.  *)
OutputFits(output, outputs) == output < U32 /\ output <= outputs

EdictGood(p, k, outputs) ==
  EdictIds(p)[k] # None /\ OutputFits(BodyOf(p)[4 * k], outputs)

(* The edicts before the first bad one.                                    *)
GoodEdicts(p, outputs) ==
  LET body == BodyOf(p)
      n    == Len(body) \div 4
      m    == CHOOSE m \in 0 .. n : /\ \A k \in 1 .. m : EdictGood(p, k, outputs)
                                    /\ m = n \/ ~ EdictGood(p, m + 1, outputs)
  IN  [k \in 1 .. m |-> [id |-> EdictIds(p)[k][1], amount |-> body[4 * k - 1], output |-> body[4 * k]]]

BodyFlawed(p, outputs) ==
  Len(BodyOf(p)) % 4 # 0 \/ Len(GoodEdicts(p, outputs)) # Len(BodyOf(p)) \div 4

FlagsOf(p) == Default(Take(p, Flags, U128))

(* Etching { rune, premine, terms } with Terms { cap, amount, .. }.        *)
TermsOf(p) == [cap         |-> Take(p, Cap, U128),         amount    |-> Take(p, Amount, U128),
               heightStart |-> Take(p, HeightStart, U64),  heightEnd |-> Take(p, HeightEnd, U64),
               offsetStart |-> Take(p, OffsetStart, U64),  offsetEnd |-> Take(p, OffsetEnd, U64)]
EtchingOf(p) ==
  IF ~ Bit(FlagsOf(p), 0) THEN None
  ELSE Some([rune    |-> Take(p, RuneTag, U128),
             premine |-> Take(p, Premine, U128),
             terms   |-> IF Bit(FlagsOf(p), 1) THEN Some(TermsOf(p)) ELSE None,
             turbo   |-> Bit(FlagsOf(p), 2)])

MintOf(p) ==
  LET ks   == Places(p, Mint)
      rest == ks \ {Min(ks)}
  IN  IF Cardinality(ks) >= 2 THEN NewId(Fields(p)[Min(ks)].value, Fields(p)[Min(rest)].value) ELSE None

PointerOf(p, outputs) == Take(p, Pointer, IF outputs < U32 THEN outputs ELSE U32)

(* How many values of a tag are consumed. Whatever is left is unknown to   *)
(* this version of the protocol, and an even tag must not be ignored.      *)
Consumed(p, tag, outputs) ==
  LET etches == Bit(FlagsOf(p), 0)
      terms  == etches /\ Bit(FlagsOf(p), 1)
      t      == TermsOf(p)
  IN  CASE tag = Flags                        -> Len(Take(p, Flags, U128))
        [] tag = RuneTag /\ etches            -> Len(Take(p, RuneTag, U128))
        [] tag = Premine /\ etches            -> Len(Take(p, Premine, U128))
        [] tag = Cap /\ terms                 -> Len(t.cap)
        [] tag = Amount /\ terms              -> Len(t.amount)
        [] tag = HeightStart /\ terms         -> Len(t.heightStart)
        [] tag = HeightEnd /\ terms           -> Len(t.heightEnd)
        [] tag = OffsetStart /\ terms         -> Len(t.offsetStart)
        [] tag = OffsetEnd /\ terms           -> Len(t.offsetEnd)
        [] tag = Mint                         -> 2 * Len(MintOf(p))
        [] tag = Pointer                      -> Len(PointerOf(p, outputs))
        [] OTHER                              -> 0

EvenTagLeft(p, outputs) ==
  \E k \in DOMAIN Fields(p) :
    LET tag == Fields(p)[k].tag
    IN  tag % 2 = 0 /\ Cardinality(Places(p, tag)) > Consumed(p, tag, outputs)

(* flags != 0 after the known ones are taken; terms and turbo are known    *)
(* only together with an etching.                                          *)
FlagLeft(p) ==
  LET f == FlagsOf(p) IN IF Bit(f, 0) THEN f >= 8 ELSE f # 0

\* Mutant: the premine is not part of the supply that must fit.
SupplyOfLoose(e) ==
  IF e.terms = None THEN 0 ELSE Default(e.terms[1].cap) * Default(e.terms[1].amount)

(* Etching::supply: what the rune can come to.                             *)
SupplyOf(e) ==
  Default(e.premine)
  + (IF e.terms = None THEN 0 ELSE Default(e.terms[1].cap) * Default(e.terms[1].amount))

(* Runestone::decipher for a transaction with that many outputs.           *)
NoArtifact  == [kind |-> "none", edicts |-> << >>, etching |-> None, mint |-> None, pointer |-> None]
Cenotaph(etching, mint) == [NoArtifact EXCEPT !.kind = "cenotaph", !.etching = etching, !.mint = mint]

Flawed(p, outputs) ==
  \/ Truncated(p)
  \/ BodyFlawed(p, outputs)
  \/ EtchingOf(p) # None /\ SupplyOf(EtchingOf(p)[1]) >= U128
  \/ FlagLeft(p)
  \/ EvenTagLeft(p, outputs)

Runestone(p, outputs) ==
  [kind    |-> "runestone",     edicts |-> GoodEdicts(p, outputs), etching |-> EtchingOf(p),
   mint    |-> MintOf(p),       pointer |-> PointerOf(p, outputs)]

(* A cenotaph keeps the name it etches and what it mints.                  *)
NameOnly(p) ==
  IF EtchingOf(p) # None /\ EtchingOf(p)[1].rune # None
  THEN Some([rune |-> EtchingOf(p)[1].rune, premine |-> None, terms |-> None, turbo |-> FALSE])
  ELSE None

Decipher(message, outputs) ==
  CASE message.kind = "none"    -> NoArtifact
    [] message.kind = "garbled" -> Cenotaph(None, None)
    [] message.kind = "data"    ->
         IF Flawed(message.payload, outputs)
         THEN Cenotaph(NameOnly(message.payload), MintOf(message.payload))
         ELSE Runestone(message.payload, outputs)

(* RuneId::delta: what NextId is given to get from one id to the other.    *)
Delta(from, to) ==
  <<to[1] - from[1], IF to[1] = from[1] THEN to[2] - from[2] ELSE to[2]>>

(* Runestone::encipher: the payload that says a.                           *)
Encipher(a) ==
  LET Put(tag, o)  == IF o = None THEN << >> ELSE <<tag, o[1]>>
      etching      == a.etching[1]
      terms        == etching.terms[1]
      flags        == 1 + (IF etching.terms # None THEN 2 ELSE 0) + (IF etching.turbo THEN 4 ELSE 0)
      ofTerms      == IF etching.terms = None THEN << >>
                      ELSE Put(Amount, terms.amount) \o Put(Cap, terms.cap)
                           \o Put(HeightStart, terms.heightStart) \o Put(HeightEnd, terms.heightEnd)
                           \o Put(OffsetStart, terms.offsetStart) \o Put(OffsetEnd, terms.offsetEnd)
      ofEtching    == IF a.etching = None THEN << >>
                      ELSE <<Flags, flags>> \o Put(RuneTag, etching.rune)
                           \o Put(Premine, etching.premine) \o ofTerms
      ofMint       == IF a.mint = None THEN << >> ELSE <<Mint, a.mint[1][1], Mint, a.mint[1][2]>>
      Before(e, f) == e.id[1] < f.id[1] \/ (e.id[1] = f.id[1] /\ e.id[2] < f.id[2])
      edicts       == SortSeq(a.edicts, Before)
      From(k)      == IF k = 1 THEN NoRune ELSE edicts[k - 1].id
      ofEdicts     == [k \in 1 .. Len(edicts) |->
                         Delta(From(k), edicts[k].id) \o <<edicts[k].amount, edicts[k].output>>]
  IN  ofEtching \o ofMint \o Put(Pointer, a.pointer)
      \o (IF edicts = << >> THEN << >> ELSE <<Body>> \o FlattenSeq(ofEdicts))
=============================================================================
