-------------------------- MODULE Brc20SyncProofs --------------------------
(***************************************************************************)
(* The run loop of the BRC-20 indexer, for any number of blocks, forks,    *)
(* crashes and reorgs of any depth: no block is applied twice, the tables  *)
(* implement the replay of whole blocks, and ledger and EVM agree.  Then   *)
(* the same loop as a light client.                                        *)
(***************************************************************************)
EXTENDS LightClient, SequenceTheorems, FiniteSetTheorems, TLAPS

Rows(B) == BagToSet(B)

(* A new block is being indexed.                                           *)
Indexing == pc \in {"flush", "finalise", "commit", "hashes"}

Sizes == Len(best) <= MaxHeight /\ Len(opi) <= MaxHeight

(* Where the indexer is, and what it compares or indexes there.            *)
Control ==
  /\ pc \in {"prog residue", "next", "read"} \/ Indexing => ~booting
  /\ pc = "clear" => booting
  /\ pc = "read" \/ Indexing =>
       /\ block.h = Height + 1 /\ block.h <= MaxHeight
       /\ block.hash \in Fork
  /\ pc = "walk" => at \in 1 .. Height /\ from = Height
  /\ pc \in {"prog", "prog residue"} => at >= PhaseOne

(* Each height has one entry, on disk or in memory; an entry above the     *)
(* last hash is of the block being indexed, or residue of a crash, and an  *)
(* entry that is flushed after its block is a refund.                      *)
Entries ==
  /\ \A e \in Rows(ledger) : ledger[e] = 1 /\ e.h <= Height + 1
  /\ \A e \in Rows(pending) :
       /\ pending[e] = 1
       /\ Indexing => e.h <= Height + 1
       /\ e.h <= Height => e.b = NoBlock
  /\ \A e, f \in Rows(ledger) : e.h = f.h => e = f
  /\ \A e, f \in Rows(pending) : e.h = f.h => e = f
  /\ \A e \in Rows(ledger), f \in Rows(pending) : e.h # f.h
  /\ booting \/ pc = "down" => Rows(pending) = {}
  /\ ~booting /\ pc # "down" /\ ~Indexing =>
       \A e \in Rows(ledger) \cup Rows(pending) : e.h <= Height

(* What the ledger holds of the block being indexed.                       *)
Executed ==
  /\ pc = "flush" =>
       /\ [h |-> block.h, b |-> Transfers(block.h, block.txs)] \in Rows(pending)
       /\ \A e \in Rows(pending) :
            e.h = block.h => e.b = Transfers(block.h, block.txs)
  /\ pc \in {"finalise", "commit", "hashes"} =>
       /\ LedgerAt(block.h) = {Transfers(block.h, block.txs)} \ {NoBlock}
       /\ \A e \in Rows(pending) : e.b = NoBlock

IInv == TypeOK /\ Sizes /\ Control /\ Entries /\ Executed

-----------------------------------------------------------------------------
(* The first n elements of a sequence.                                     *)
LEMMA PrefixFacts ==
  ASSUME NEW S, NEW s \in Seq(S), NEW n \in Int
  PROVE  /\ Prefix(s, n) \in Seq(S)
         /\ n >= 0 => Len(Prefix(s, n)) = IF n < Len(s) THEN n ELSE Len(s)
         /\ Len(Prefix(s, n)) <= Len(s)
         /\ \A i \in 1 .. Len(Prefix(s, n)) : Prefix(s, n)[i] = s[i]
<1> DEFINE m == IF n < Len(s) THEN n ELSE Len(s)
<1>1. Len(s) \in Nat /\ m \in Int /\ m <= Len(s)
  OBVIOUS
<1>2. \A i \in 1 .. m : s[i] \in S
  BY <1>1, ElementOfSeq
<1>3. Prefix(s, n) = SubSeq(s, 1, m)
  BY DEF Prefix
<1> HIDE DEF m
<1>4. /\ SubSeq(s, 1, m) \in Seq(S)
      /\ Len(SubSeq(s, 1, m)) = IF 1 <= m THEN m - 1 + 1 ELSE 0
      /\ \A i \in 1 .. m - 1 + 1 : SubSeq(s, 1, m)[i] = s[1 + i - 1]
  BY <1>1, <1>2, SubSeqProperties
<1>5. \A i \in 1 .. m : SubSeq(s, 1, m)[i] = s[i]
  BY <1>1, <1>4
<1>6. n >= 0 => Len(SubSeq(s, 1, m)) = m
  BY <1>1, <1>4 DEF m
<1>7. Len(SubSeq(s, 1, m)) <= Len(s)
  BY <1>1, <1>4
<1>8. \A i \in 1 .. Len(SubSeq(s, 1, m)) : i \in 1 .. m
  BY <1>1, <1>4
<1> QED BY <1>3, <1>4, <1>5, <1>6, <1>7, <1>8 DEF m

(* The entries up to a height.                                             *)
LEMMA UpToFacts ==
  ASSUME NEW B, IsABag(B), NEW k
  PROVE  /\ IsABag(UpTo(k, B))
         /\ Rows(UpTo(k, B)) = {e \in Rows(B) : e.h <= k}
         /\ \A e \in Rows(UpTo(k, B)) : UpTo(k, B)[e] = B[e]
  BY DEF UpTo, Restrict, IsABag, Rows, BagToSet

LEMMA EmptyFacts == IsABag(EmptyBag) /\ Rows(EmptyBag) = {}
  BY DEF EmptyBag, SetToBag, IsABag, Rows, BagToSet

(* Two bags without a common element.                                      *)
LEMMA UnionFacts ==
  ASSUME NEW B, NEW C, IsABag(B), IsABag(C), Rows(B) \cap Rows(C) = {}
  PROVE  /\ IsABag(B (+) C)
         /\ Rows(B (+) C) = Rows(B) \cup Rows(C)
         /\ \A e \in Rows(B) : (B (+) C)[e] = B[e]
         /\ \A e \in Rows(C) : (B (+) C)[e] = C[e]
<1> DEFINE U == [e \in (DOMAIN B) \cup (DOMAIN C) |->
                   (IF e \in DOMAIN B THEN B[e] ELSE 0) + (IF e \in DOMAIN C THEN C[e] ELSE 0)]
<1>1. B (+) C = U
  BY DEF (+)
<1>2. \A e \in DOMAIN B : e \notin DOMAIN C /\ B[e] \in Nat /\ B[e] > 0
  BY DEF IsABag, Rows, BagToSet
<1>3. \A e \in DOMAIN C : e \notin DOMAIN B /\ C[e] \in Nat /\ C[e] > 0
  BY DEF IsABag, Rows, BagToSet
<1>4. \A e \in DOMAIN B : U[e] = B[e]
  BY <1>2
<1>5. \A e \in DOMAIN C : U[e] = C[e]
  BY <1>3
<1>6. DOMAIN U = (DOMAIN B) \cup (DOMAIN C)
  OBVIOUS
<1>7. U \in [DOMAIN U -> {n \in Nat : n > 0}]
  BY <1>2, <1>3
<1> HIDE DEF U
<1> QED BY <1>1, <1>4, <1>5, <1>6, <1>7 DEF IsABag, Rows, BagToSet

LEMMA BagUnionType ==
  ASSUME NEW B, NEW C, IsABag(B), IsABag(C)
  PROVE  IsABag(B (+) C) /\ Rows(B (+) C) = Rows(B) \cup Rows(C)
<1> DEFINE U == [e \in (DOMAIN B) \cup (DOMAIN C) |->
                   (IF e \in DOMAIN B THEN B[e] ELSE 0) + (IF e \in DOMAIN C THEN C[e] ELSE 0)]
<1>1. B (+) C = U
  BY DEF (+)
<1>2. \A e \in DOMAIN B : B[e] \in Nat /\ B[e] > 0
  BY DEF IsABag
<1>3. \A e \in DOMAIN C : C[e] \in Nat /\ C[e] > 0
  BY DEF IsABag
<1>4. DOMAIN U = (DOMAIN B) \cup (DOMAIN C)
  OBVIOUS
<1>5. U \in [DOMAIN U -> {n \in Nat : n > 0}]
  BY <1>2, <1>3
<1> HIDE DEF U
<1> QED BY <1>1, <1>4, <1>5 DEF IsABag, Rows, BagToSet

LEMMA SingletonFacts ==
  ASSUME NEW e
  PROVE  IsABag(SetToBag({e})) /\ Rows(SetToBag({e})) = {e} /\ SetToBag({e})[e] = 1
  BY DEF SetToBag, IsABag, Rows, BagToSet

-----------------------------------------------------------------------------
(* What DbReorg leaves.                                                    *)
LEMMA DbReorgFacts ==
  ASSUME TypeOK, NEW k \in Nat, DbReorg(k)
  PROVE  /\ hashes' \in Seq(Fork)
         /\ Len(hashes') = IF k < Height THEN k ELSE Height
         /\ \A i \in 1 .. Len(hashes') : hashes'[i] = hashes[i]
         /\ IsABag(ledger') /\ Rows(ledger') = {e \in Rows(ledger) : e.h <= k}
         /\ \A e \in Rows(ledger') : ledger'[e] = ledger[e]
         /\ pending' = EmptyBag /\ IsABag(pending') /\ Rows(pending') = {}
         /\ burned' = burned
         /\ \A h \in Int : h <= k => LedgerAt(h)' = LedgerAt(h)
<1>1. hashes' = Prefix(hashes, k) /\ ledger' = UpTo(k, ledger) /\ pending' = EmptyBag /\ burned' = burned
  BY DEF DbReorg
<1>2. hashes \in Seq(Fork) /\ IsABag(ledger) /\ Rows(ledger) \subseteq Entry
  BY DEF TypeOK, Rows
<1>3. /\ Prefix(hashes, k) \in Seq(Fork)
      /\ Len(Prefix(hashes, k)) = IF k < Len(hashes) THEN k ELSE Len(hashes)
      /\ \A i \in 1 .. Len(Prefix(hashes, k)) : Prefix(hashes, k)[i] = hashes[i]
  BY <1>2, PrefixFacts
<1>4. /\ IsABag(UpTo(k, ledger))
      /\ Rows(UpTo(k, ledger)) = {e \in Rows(ledger) : e.h <= k}
      /\ \A e \in Rows(UpTo(k, ledger)) : UpTo(k, ledger)[e] = ledger[e]
  BY <1>2, UpToFacts
<1>5. Rows(ledger') = {e \in Rows(ledger) : e.h <= k}
  BY <1>1, <1>4
<1>6. ASSUME NEW h \in Int, h <= k PROVE LedgerAt(h)' = LedgerAt(h)
  <2>1. {f \in Rows(ledger') : f.h = h} = {f \in Rows(ledger) : f.h = h}
    BY <1>5, <1>6, <1>2 DEF Entry
  <2> QED BY <2>1 DEF LedgerAt, Rows
<1> QED BY <1>1, <1>3, <1>4, <1>6, EmptyFacts DEF Height

(* What ProgReorg leaves.                                                  *)
LEMMA ProgReorgFacts ==
  ASSUME TypeOK, NEW k \in Nat, k >= PhaseOne, ProgReorg(k)
  PROVE  /\ prog' \in Seq([h : 1 .. MaxHeight, hash : Fork, txs : Block])
         /\ Len(prog') = IF k - PhaseOne + 1 < Len(prog) THEN k - PhaseOne + 1 ELSE Len(prog)
         /\ \A i \in 1 .. Len(prog') : prog'[i] = prog[i]
         /\ saved' = IF saved < Len(prog') THEN saved ELSE Len(prog')
         /\ open' = NoBlock
<1> USE SyncAssumption
<1> DEFINE n == k - PhaseOne + 1
<1>1. n \in Nat
  OBVIOUS
<1>2. prog \in Seq([h : 1 .. MaxHeight, hash : Fork, txs : Block])
  BY DEF TypeOK
<1>3. /\ prog' = Prefix(prog, n) /\ open' = NoBlock
      /\ saved' = IF saved < Len(Prefix(prog, n)) THEN saved ELSE Len(Prefix(prog, n))
  BY DEF ProgReorg
<1> HIDE DEF n
<1>4. /\ Prefix(prog, n) \in Seq([h : 1 .. MaxHeight, hash : Fork, txs : Block])
      /\ Len(Prefix(prog, n)) = IF n < Len(prog) THEN n ELSE Len(prog)
      /\ \A i \in 1 .. Len(Prefix(prog, n)) : Prefix(prog, n)[i] = prog[i]
  BY <1>1, <1>2, PrefixFacts
<1> QED BY <1>3, <1>4 DEF n

(* brc20_prog loses what it has not committed.                             *)
LEMMA ProgDropFacts ==
  ASSUME TypeOK, prog' = Prefix(prog, saved)
  PROVE  /\ prog' \in Seq([h : 1 .. MaxHeight, hash : Fork, txs : Block])
         /\ Len(prog') = saved
         /\ \A i \in 1 .. Len(prog') : prog'[i] = prog[i]
<1>1. prog \in Seq([h : 1 .. MaxHeight, hash : Fork, txs : Block]) /\ saved \in 0 .. Len(prog)
  BY DEF TypeOK
<1>2. /\ Prefix(prog, saved) \in Seq([h : 1 .. MaxHeight, hash : Fork, txs : Block])
      /\ Len(Prefix(prog, saved)) = IF saved < Len(prog) THEN saved ELSE Len(prog)
      /\ \A i \in 1 .. Len(Prefix(prog, saved)) : Prefix(prog, saved)[i] = prog[i]
  BY <1>1, PrefixFacts
<1> QED BY <1>1, <1>2

LEMMA InitIInv == Init => IInv
<1> SUFFICES ASSUME Init PROVE IInv
  OBVIOUS
<1> USE SyncAssumption DEF Init, Rows
<1>1. TypeOK
  BY EmptyFacts DEF TypeOK, Fork, Block
<1>2. Sizes /\ Control
  BY DEF Sizes, Control, Indexing, Height
<1>3. Entries /\ Executed
  BY EmptyFacts DEF Entries, Executed, Indexing
<1> QED BY <1>1, <1>2, <1>3 DEF IInv

-----------------------------------------------------------------------------
(* Bitcoin and OPI-ord.                                                    *)
Outside == OrdStep \/ Mine \/ \E k \in 0 .. MaxHeight : BitcoinReorg(k)

LEMMA OutsideFacts ==
  ASSUME TypeOK, Sizes, Outside
  PROVE  /\ best' \in Seq(Fork) /\ Len(best) <= Len(best') /\ Len(best') <= MaxHeight
         /\ opi' \in Seq(Fork) /\ Len(opi') <= MaxHeight
         /\ fork' \in Fork
         /\ UNCHANGED indexer
<1> USE SyncAssumption
<1>0. best \in Seq(Fork) /\ opi \in Seq(Fork) /\ fork \in Fork /\ Len(best) \in Nat /\ Len(opi) \in Nat
  <2>1. best \in Seq(Fork) /\ opi \in Seq(Fork) /\ fork \in Fork
    BY DEF TypeOK
  <2> QED BY <2>1
<1>1. CASE OpiIndex
  <2>1. best[Len(opi) + 1] \in Fork
    BY <1>0, <1>1, ElementOfSeq DEF OpiIndex
  <2> QED BY <1>0, <1>1, <2>1 DEF OpiIndex, Sizes, bitcoin
<1>2. ASSUME NEW k \in 0 .. MaxHeight, OpiRestore(k) PROVE opi' \in Seq(Fork) /\ Len(opi') <= MaxHeight
  <2>1. opi' = Prefix(opi, k)
    BY <1>2 DEF OpiRestore
  <2>2. Prefix(opi, k) \in Seq(Fork) /\ Len(Prefix(opi, k)) <= Len(opi)
    BY <1>0, PrefixFacts
  <2> QED BY <1>0, <2>1, <2>2 DEF Sizes
<1>3. CASE \E k \in 0 .. MaxHeight : OpiRestore(k)
  <2>1. PICK k \in 0 .. MaxHeight : OpiRestore(k)
    BY <1>3
  <2>2. UNCHANGED <<bitcoin, indexer>>
    BY <2>1 DEF OpiRestore
  <2> QED BY <1>0, <1>2, <2>1, <2>2 DEF Sizes, bitcoin
<1>4. CASE Mine
  BY <1>0, <1>4 DEF Mine, Sizes, Fork
<1>5. ASSUME NEW k \in 0 .. MaxHeight, BitcoinReorg(k)
      PROVE  best' \in Seq(Fork) /\ Len(best') = Len(best) /\ fork' \in Fork
  <2> DEFINE new == [i \in 1 .. Len(best) - k |-> fork + 1]
  <2>1. fork + 1 \in Fork /\ Len(best) - k \in Nat
    BY <1>0, <1>5 DEF BitcoinReorg, Fork
  <2>2. new \in Seq(Fork) /\ Len(new) = Len(best) - k
    BY <2>1
  <2>a. k \in Int /\ k >= 0 /\ k < Len(best)
    BY <1>5 DEF BitcoinReorg
  <2>b. Prefix(best, k) \in Seq(Fork) /\ Len(Prefix(best, k)) = IF k < Len(best) THEN k ELSE Len(best)
    BY <1>0, <2>a, PrefixFacts
  <2>3. Prefix(best, k) \in Seq(Fork) /\ Len(Prefix(best, k)) = k
    BY <2>a, <2>b
  <2>4. best' = Prefix(best, k) \o new /\ fork' = fork + 1
    BY <1>5 DEF BitcoinReorg
  <2> HIDE DEF new
  <2>5. /\ Prefix(best, k) \o new \in Seq(Fork)
        /\ Len(Prefix(best, k) \o new) = Len(Prefix(best, k)) + Len(new)
    BY <2>2, <2>3, ConcatProperties
  <2>6. k + (Len(best) - k) = Len(best)
    BY <1>0
  <2> QED BY <2>1, <2>2, <2>3, <2>4, <2>5, <2>6
<1>6. CASE \E k \in 0 .. MaxHeight : BitcoinReorg(k)
  <2>1. PICK k \in 0 .. MaxHeight : BitcoinReorg(k)
    BY <1>6
  <2>2. UNCHANGED <<opi, indexer>>
    BY <2>1 DEF BitcoinReorg
  <2> QED BY <1>0, <1>5, <2>1, <2>2 DEF Sizes
<1> QED BY <1>1, <1>3, <1>4, <1>6 DEF Outside, OrdStep

LEMMA OutsideStep ==
  ASSUME IInv, Outside
  PROVE  IInv'
<1>1. /\ best' \in Seq(Fork) /\ Len(best') <= MaxHeight
      /\ opi' \in Seq(Fork) /\ Len(opi') <= MaxHeight
      /\ fork' \in Fork
      /\ UNCHANGED indexer
  BY OutsideFacts DEF IInv
<1> USE <1>1 DEF IInv, indexer, db, evm, search, memory
<1>2. TypeOK' /\ Sizes'
  BY DEF TypeOK, Sizes
<1>3. Control'
  BY DEF Control, Indexing, Height
<1>4. Entries'
  BY DEF Entries, Indexing, Height, Rows
<1>5. Executed'
  BY DEF Executed, LedgerAt, Transfers, IsQuiet, Rows
<1> QED BY <1>2, <1>3, <1>4, <1>5

(* The indexer ends, and its memory is gone.                               *)
LEMMA ExitStep ==
  ASSUME IInv, Exit, crashes' \in 0 .. MaxCrashes
  PROVE  IInv'
<1> USE SyncAssumption DEF IInv, Exit, bitcoin, db, evm, search
<1>1. IsABag(pending') /\ Rows(pending') = {}
  BY EmptyFacts DEF Rows
<1>2. TypeOK' /\ Sizes'
  BY <1>1 DEF TypeOK, Sizes, Rows
<1>3. Control'
  BY DEF Control, Indexing
<1>4. Entries'
  BY <1>1 DEF Entries, Indexing, Height, Rows
<1>5. Executed'
  BY DEF Executed
<1> QED BY <1>2, <1>3, <1>4, <1>5

-----------------------------------------------------------------------------
LEMMA Shapes ==
  ASSUME TypeOK
  PROVE  /\ hashes \in Seq(Fork) /\ Height \in Nat
         /\ prog \in Seq([h : 1 .. MaxHeight, hash : Fork, txs : Block])
         /\ Len(prog) \in Nat /\ saved \in 0 .. Len(prog)
         /\ ProgHeight \in Int
         /\ crashes \in 0 .. MaxCrashes
<1> USE SyncAssumption
<1>1. /\ hashes \in Seq(Fork)
      /\ prog \in Seq([h : 1 .. MaxHeight, hash : Fork, txs : Block])
      /\ saved \in 0 .. Len(prog)
      /\ crashes \in 0 .. MaxCrashes
  BY DEF TypeOK
<1>2. Len(hashes) \in Nat /\ Len(prog) \in Nat
  BY <1>1
<1> QED BY <1>1, <1>2 DEF Height, ProgHeight

LEMMA InRange == ASSUME NEW n \in Nat, NEW k \in 0 .. n PROVE k \in Nat
  OBVIOUS

(* Rows above a height that the ledger has are removed.                    *)
LEMMA ReorgEntries ==
  ASSUME IInv, NEW k \in 0 .. Height, DbReorg(k), ~Indexing'
  PROVE  Entries' /\ Height' = k
<1>1. /\ Height' = k
      /\ Rows(ledger') = {e \in Rows(ledger) : e.h <= k}
      /\ \A e \in Rows(ledger') : ledger'[e] = ledger[e]
      /\ Rows(pending') = {}
  BY DbReorgFacts, Shapes DEF IInv, Height
<1>2. Rows(ledger) \subseteq Entry
  BY DEF IInv, TypeOK, Rows
<1>3. \A e \in Rows(ledger') : e.h \in Nat /\ e.h <= k /\ e.h <= k + 1
  BY <1>1, <1>2 DEF Entry
<1> QED BY <1>1, <1>3 DEF IInv, Entries, Rows

(* The next block is asked for, or brc20_prog changes.                     *)
LEMMA QuietEntries ==
  ASSUME Entries, UNCHANGED <<hashes, ledger, pending, booting>>,
         pc # "down", ~Indexing, pc' # "down", ~Indexing'
  PROVE  Entries'
  BY DEF Entries, Height, Rows

LEMMA AlignStep ==
  ASSUME IInv, Align
  PROVE  IInv'
<1> USE SyncAssumption DEF IInv, Align, Goto, bitcoin, search
<1> DEFINE DbBehind ==
      /\ Height >= PhaseOne /\ ProgHeight >= PhaseOne /\ Height > ProgHeight
      /\ DbReorg(ProgHeight) /\ UNCHANGED evm
<1> DEFINE ProgBehind ==
      /\ Height >= PhaseOne /\ Height < ProgHeight
      /\ ProgReorg(Height) /\ UNCHANGED <<db, pending>>
<1>0. Height \in Nat /\ ProgHeight \in Int /\ pc = "align"
      /\ UNCHANGED <<bitcoin, opi, booting, lastOpi, block, crashes>>
  BY Shapes
<1>1. CASE Height = 0
  <2>1. Return /\ UNCHANGED <<db, evm, search, pending>>
    BY <1>1
  <2>2. TypeOK' /\ Sizes'
    BY <1>0, <2>1 DEF TypeOK, Sizes, Return, db, evm
  <2>3. Control' /\ Executed' /\ ~Indexing' /\ ~Indexing /\ pc' # "down"
    BY <1>0, <2>1 DEF Control, Executed, Indexing, Return
  <2>4. Entries'
    BY <1>0, <2>1, <2>3, QuietEntries DEF db
  <2> QED BY <2>2, <2>3, <2>4
<1>2. CASE Height # 0
  <2>1. /\ pc' = "walk" /\ at' = Height' /\ from' = Height'
        /\ UNCHANGED <<db, evm, pending>> \/ ProgBehind \/ DbBehind
    BY <1>0, <1>2 DEF Height
  <2>2. ~Indexing /\ ~Indexing' /\ Executed'
    BY <1>0, <2>1 DEF Indexing, Executed
  <2>3. CASE UNCHANGED <<db, evm, pending>>
    <3>1. Height' = Height
      BY <2>3 DEF db, Height
    <3>2. TypeOK' /\ Sizes'
      BY <1>0, <2>1, <2>3, <3>1 DEF TypeOK, Sizes, db, evm
    <3>3. Control'
      BY <1>0, <1>2, <2>1, <2>2, <3>1 DEF Control
    <3>4. Entries'
      BY <1>0, <2>1, <2>2, <2>3, QuietEntries DEF db
    <3> QED BY <2>2, <3>2, <3>3, <3>4
  <2>4. CASE ProgBehind
    <3>1. Height' = Height /\ UNCHANGED <<db, pending>>
      BY <2>4 DEF db, Height
    <3>2. /\ prog' \in Seq([h : 1 .. MaxHeight, hash : Fork, txs : Block])
          /\ saved' \in 0 .. Len(prog') /\ open' = NoBlock
      BY <1>0, <2>4, ProgReorgFacts, Shapes
    <3>3. TypeOK' /\ Sizes'
      BY <1>0, <2>1, <3>1, <3>2 DEF TypeOK, Sizes, db, Block
    <3>4. Control'
      BY <1>0, <1>2, <2>1, <2>2, <3>1 DEF Control
    <3>5. Entries'
      BY <1>0, <2>1, <2>2, <3>1, QuietEntries DEF db
    <3> QED BY <2>2, <3>3, <3>4, <3>5
  <2>5. CASE DbBehind
    <3>1. ProgHeight \in 1 .. Height /\ DbReorg(ProgHeight) /\ UNCHANGED evm
      BY <1>0, <2>5
    <3>2. Entries' /\ Height' = ProgHeight
      BY <2>2, <3>1, ReorgEntries
    <3>3. /\ hashes' \in Seq(Fork)
          /\ IsABag(ledger') /\ Rows(ledger') \subseteq Rows(ledger)
          /\ IsABag(pending') /\ Rows(pending') = {}
          /\ burned' = burned
      BY <3>1, DbReorgFacts
    <3>4. TypeOK' /\ Sizes'
      BY <1>0, <2>1, <3>1, <3>2, <3>3 DEF TypeOK, Sizes, evm, Rows
    <3>5. Control'
      BY <1>0, <2>1, <2>2, <3>1, <3>2 DEF Control
    <3> QED BY <2>2, <3>2, <3>4, <3>5
  <2> QED BY <2>1, <2>3, <2>4, <2>5
<1> QED BY <1>1, <1>2

(* The ledger goes back to height k, brc20_prog stays.                     *)
LEMMA DbReorgStep ==
  ASSUME IInv, NEW k \in 0 .. Height, DbReorg(k),
         UNCHANGED <<bitcoin, opi, prog, saved, block, crashes>>,
         lastOpi' \in 0 .. MaxHeight, open' \in Block, at' \in Nat, from' \in Nat, booting' \in BOOLEAN,
         pc' \in {"prog", "prog residue", "clear", "next", "align"},
         pc' = "clear" => booting', pc' \in {"next", "prog residue"} => ~booting',
         pc' \in {"prog", "prog residue"} => at' >= PhaseOne
  PROVE  IInv'
<1> USE DEF IInv, bitcoin
<1>1. ~Indexing' /\ Executed'
  BY DEF Indexing, Executed
<1>2. Entries' /\ Height' = k
  BY <1>1, ReorgEntries
<1>3. /\ hashes' \in Seq(Fork)
      /\ IsABag(ledger') /\ Rows(ledger') \subseteq Rows(ledger)
      /\ IsABag(pending') /\ Rows(pending') = {}
      /\ burned' = burned
  <2>0. Height \in Nat
    BY Shapes
  <2>1. k \in Nat
    BY <2>0, InRange
  <2> QED BY <2>1, DbReorgFacts
<1>4. TypeOK' /\ Sizes'
  BY <1>3 DEF TypeOK, Sizes, Rows
<1>5. Control'
  BY <1>1 DEF Control
<1> QED BY <1>1, <1>2, <1>4, <1>5

LEMMA WalkStep ==
  ASSUME IInv, WalkFound \/ WalkDiffers \/ WalkFails
  PROVE  IInv'
<1> USE SyncAssumption DEF IInv, Goto, bitcoin, search
<1>0. Height \in Nat /\ (pc = "walk" => at \in 1 .. Height) /\ at \in Nat /\ from \in Nat
      /\ lastOpi \in 0 .. MaxHeight /\ open \in Block /\ booting \in BOOLEAN
  BY Shapes DEF Control, TypeOK
<1>1. CASE WalkFound
  <2>1. /\ pc = "walk" /\ at \in 1 .. Height
        /\ UNCHANGED <<bitcoin, opi, evm, booting, search, lastOpi, block, crashes>>
    BY <1>0, <1>1 DEF WalkFound
  <2>2. CASE at = from
    <3>1. Return /\ UNCHANGED <<db, pending>>
      BY <1>1, <2>2 DEF WalkFound
    <3>2. TypeOK' /\ Sizes'
      BY <2>1, <3>1 DEF TypeOK, Sizes, Return, db, evm
    <3>3. Control' /\ Executed' /\ ~Indexing' /\ ~Indexing /\ pc' # "down"
      BY <2>1, <3>1 DEF Control, Executed, Indexing, Return
    <3>4. Entries'
      BY <2>1, <3>1, <3>3, QuietEntries DEF db
    <3> QED BY <3>2, <3>3, <3>4
  <2>3. CASE at # from
    <3>1. /\ DbReorg(at)
          /\ IF at >= PhaseOne THEN pc' = "prog" ELSE Return
      BY <1>1, <2>3 DEF WalkFound
    <3>2. pc' \in {"prog", "prog residue", "clear", "next", "align"}
      BY <3>1 DEF Return
    <3>3. pc' = "clear" => booting'
      BY <2>1, <3>1 DEF Return
    <3>4. pc' \in {"next", "prog residue"} => ~booting'
      BY <2>1, <3>1 DEF Return
    <3>5. pc' \in {"prog", "prog residue"} => at' >= PhaseOne
      BY <2>1, <3>1 DEF Return
    <3>7. at \in 0 .. Height
      BY <1>0, <2>1
    <3>6. /\ UNCHANGED <<bitcoin, opi, prog, saved, block, crashes>>
          /\ lastOpi' \in 0 .. MaxHeight /\ open' \in Block
          /\ at' \in Nat /\ from' \in Nat /\ booting' \in BOOLEAN
      BY <1>0, <2>1 DEF evm
    <3> QED BY <3>1, <3>2, <3>3, <3>4, <3>5, <3>6, <3>7, DbReorgStep
  <2> QED BY <2>2, <2>3
<1>2. CASE WalkDiffers /\ at # 1
  <2>1. /\ pc = "walk" /\ at > 1 /\ at' = at - 1
        /\ UNCHANGED <<bitcoin, opi, db, evm, pc, booting, from, memory, crashes>>
    BY <1>0, <1>2 DEF WalkDiffers, memory
  <2>2. TypeOK' /\ Sizes'
    BY <1>0, <2>1 DEF TypeOK, Sizes, db, evm, memory
  <2>3. Control' /\ Executed' /\ ~Indexing' /\ ~Indexing /\ pc' # "down"
    BY <1>0, <2>1 DEF Control, Executed, Indexing, Height, db
  <2>4. Entries'
    BY <2>1, <2>3, QuietEntries DEF db, memory
  <2> QED BY <2>2, <2>3, <2>4
<1>3. CASE WalkDiffers /\ at = 1
  <2>1. /\ pc = "walk" /\ at = 1 /\ DbReorg(1) /\ at' = PhaseOne /\ pc' = "prog"
        /\ UNCHANGED <<bitcoin, opi, evm, booting, from, lastOpi, block, crashes>>
    BY <1>3 DEF WalkDiffers
  <2> QED BY <1>0, <2>1, DbReorgStep DEF evm
<1>4. CASE WalkFails
  BY <1>4, ExitStep, Shapes DEF WalkFails
<1> QED BY <1>1, <1>2, <1>3, <1>4

LEMMA StartStep ==
  ASSUME IInv, Start
  PROVE  IInv'
<1> USE DEF IInv, Start, Goto, bitcoin, db, evm, search, memory
<1>1. TypeOK' /\ Sizes'
  BY DEF TypeOK, Sizes
<1>2. Control' /\ Executed' /\ ~Indexing'
  BY DEF Control, Executed, Indexing
<1>3. Entries'
  BY <1>2 DEF Entries, Height, Rows
<1> QED BY <1>1, <1>2, <1>3

(* The second call of a reorg.                                             *)
LEMMA ReorgProgStep ==
  ASSUME IInv, ReorgProg \/ ReorgResidue
  PROVE  IInv'
<1> USE DEF IInv, Goto, bitcoin, search
<1>1. /\ ProgReorg(at) /\ UNCHANGED <<bitcoin, opi, db, booting, search, memory, crashes>>
      /\ pc \in {"prog", "prog residue"}
      /\ pc' \in {"clear", "next", "align"}
      /\ pc' = "clear" => booting
      /\ pc' = "next" => ~booting
  BY DEF ReorgProg, ReorgResidue, Loop, Return
<1>2. at \in Nat /\ at >= PhaseOne
  BY <1>1 DEF Control, TypeOK
<1>3. /\ prog' \in Seq([h : 1 .. MaxHeight, hash : Fork, txs : Block])
      /\ saved' \in 0 .. Len(prog') /\ open' = NoBlock
  <2>1. /\ prog' \in Seq([h : 1 .. MaxHeight, hash : Fork, txs : Block])
        /\ saved' = IF saved < Len(prog') THEN saved ELSE Len(prog')
        /\ open' = NoBlock
    BY <1>1, <1>2, ProgReorgFacts
  <2>2. saved \in Nat /\ Len(prog') \in Nat
    BY <2>1, Shapes
  <2> QED BY <2>1, <2>2
<1>4. TypeOK' /\ Sizes'
  BY <1>1, <1>3 DEF TypeOK, Sizes, db, memory, Block
<1>5. Control' /\ Executed' /\ ~Indexing' /\ ~Indexing /\ pc # "down" /\ pc' # "down"
  BY <1>1 DEF Control, Executed, Indexing
<1>6. Entries'
  BY <1>1, <1>5, QuietEntries DEF db, memory
<1> QED BY <1>4, <1>5, <1>6

LEMMA ClearCachesStep ==
  ASSUME IInv, ClearCaches
  PROVE  IInv'
<1> USE SyncAssumption DEF IInv, Goto, bitcoin, search, memory
<1>0. /\ pc = "clear" /\ booting /\ booting' = FALSE /\ lastOpi' = Len(opi)
      /\ prog' = Prefix(prog, saved) /\ open' = NoBlock /\ saved' = saved
      /\ UNCHANGED <<bitcoin, opi, from, block, crashes>>
  BY DEF ClearCaches, Control
<1>1. Height \in Nat /\ at \in Nat /\ from \in Nat /\ opi \in Seq(Fork)
  BY Shapes DEF TypeOK
<1>2. /\ prog' \in Seq([h : 1 .. MaxHeight, hash : Fork, txs : Block])
      /\ saved' \in 0 .. Len(prog') /\ open' \in Block
  BY <1>0, ProgDropFacts, Shapes DEF Block
<1>3. lastOpi' \in 0 .. MaxHeight
  BY <1>0, <1>1 DEF Sizes
<1>4. ~Indexing' /\ Executed' /\ Control'
  BY <1>0, <1>1 DEF ClearCaches, Indexing, Executed, Control
<1>5. CASE \E e \in BagToSet(ledger) : e.h > Height
  <2>1. DbReorg(Height) /\ at' = Height
    BY <1>5 DEF ClearCaches
  <2>2. Entries'
    BY <1>1, <1>4, <2>1, ReorgEntries
  <2>3. /\ hashes' \in Seq(Fork)
        /\ IsABag(ledger') /\ Rows(ledger') \subseteq Rows(ledger)
        /\ IsABag(pending') /\ Rows(pending') = {}
        /\ burned' = burned
    BY <1>1, <2>1, DbReorgFacts
  <2>4. pc' \in {"prog residue", "align"}
    BY <1>5 DEF ClearCaches
  <2>5. TypeOK' /\ Sizes'
    BY <1>0, <1>1, <1>2, <1>3, <2>1, <2>3, <2>4 DEF TypeOK, Sizes, Rows
  <2> QED BY <1>4, <2>2, <2>5
<1>6. CASE ~\E e \in BagToSet(ledger) : e.h > Height
  <2>1. pc' = "align" /\ UNCHANGED <<db, at, pending>>
    BY <1>6 DEF ClearCaches
  <2>2. Rows(pending) = {} /\ \A e \in Rows(ledger) : e.h <= Height
    BY <1>0, <1>1, <1>6 DEF Entries, TypeOK, Entry, Rows
  <2>3. Entries'
    BY <1>0, <1>4, <2>1, <2>2 DEF Entries, db, Height, Rows
  <2>4. TypeOK' /\ Sizes'
    BY <1>0, <1>2, <1>3, <2>1 DEF TypeOK, Sizes, db
  <2> QED BY <1>4, <2>3, <2>4
<1> QED BY <1>5, <1>6

-----------------------------------------------------------------------------
LEMMA NextBlock ==
  ASSUME IInv, pc = "read" \/ Indexing
  PROVE  /\ block.h = Height + 1 /\ block.h \in 1 .. MaxHeight
         /\ block.hash \in Fork /\ block.txs \in Block
         /\ block \in [h : 0 .. MaxHeight, hash : Block, txs : Block]
         /\ Transfers(block.h, block.txs) \in Block
<1>1. block \in [h : 0 .. MaxHeight, hash : Block, txs : Block] /\ Height \in Nat
  BY Shapes DEF IInv, TypeOK
<1>2. block.h = Height + 1 /\ block.h <= MaxHeight /\ block.hash \in Fork
  BY DEF IInv, Control
<1>3. block.txs \in Block
  BY <1>1
<1> QED BY <1>1, <1>2, <1>3, SyncAssumption DEF Transfers, Block

LEMMA WaitStep ==
  ASSUME IInv, Wait
  PROVE  IInv'
<1> USE DEF IInv, Goto, Loop, bitcoin, db, evm, search
<1>0. /\ pc = "next" /\ pc' = "align" /\ lastOpi' = Len(opi)
      /\ UNCHANGED <<bitcoin, opi, db, evm, booting, search, block, pending, crashes>>
  BY DEF Wait
<1>1. Len(opi) \in 0 .. MaxHeight
  <2>1. opi \in Seq(Fork)
    BY DEF TypeOK
  <2> QED BY <2>1, SyncAssumption DEF Sizes
<1>2. TypeOK' /\ Sizes'
  BY <1>0, <1>1 DEF TypeOK, Sizes
<1>3. Control' /\ Executed' /\ ~Indexing' /\ ~Indexing /\ pc # "down" /\ pc' # "down"
  BY <1>0 DEF Control, Executed, Indexing
<1>4. Entries'
  BY <1>0, <1>3, QuietEntries
<1> QED BY <1>2, <1>3, <1>4

LEMMA ReadHashStep ==
  ASSUME IInv, ReadHash
  PROVE  IInv'
<1> USE DEF IInv, Goto, bitcoin, db, evm, search
<1>1. CASE Height + 1 <= Len(opi)
  <2>1. /\ pc = "next" /\ pc' = "read"
        /\ block' = [h |-> Height + 1, hash |-> opi[Height + 1], txs |-> NoBlock]
        /\ UNCHANGED <<bitcoin, opi, db, evm, booting, search, lastOpi, pending, crashes>>
    BY <1>1 DEF ReadHash
  <2>2. Height \in Nat /\ opi \in Seq(Fork) /\ Len(opi) \in Nat /\ Len(opi) <= MaxHeight
    <3>1. Height \in Nat /\ Len(opi) <= MaxHeight
      BY Shapes DEF Sizes
    <3>2. opi \in Seq(Fork)
      BY DEF TypeOK
    <3> QED BY <3>1, <3>2
  <2>3. Height + 1 \in 1 .. MaxHeight /\ opi[Height + 1] \in Fork
    <3>1. Height + 1 \in 1 .. Len(opi) /\ Height + 1 \in 1 .. MaxHeight
      BY <1>1, <2>2, SyncAssumption
    <3> QED BY <2>2, <3>1, ElementOfSeq
  <2>4. TypeOK' /\ Sizes'
    BY <2>1, <2>3 DEF TypeOK, Sizes, Block
  <2>5. Control' /\ Executed' /\ ~Indexing' /\ ~Indexing /\ pc # "down" /\ pc' # "down"
    BY <2>1, <2>2, <2>3 DEF Control, Executed, Indexing, Height
  <2>6. Entries'
    BY <2>1, <2>5, QuietEntries
  <2> QED BY <2>4, <2>5, <2>6
<1>2. CASE ~(Height + 1 <= Len(opi))
  <2>1. Exit /\ crashes' = crashes
    BY <1>2 DEF ReadHash
  <2> QED BY <2>1, ExitStep, Shapes
<1> QED BY <1>1, <1>2

LEMMA ReadTransfersStep ==
  ASSUME IInv, ReadTransfers
  PROVE  IInv'
<1> DEFINE h == block.h
           txs == IF h <= Len(opi) THEN opi[h] ELSE NoBlock
           new == [h |-> h, b |-> Transfers(h, txs)]
           quiet == IsQuiet(h, txs)
           keep == quiet /\ h # RefundHeight
<1> USE DEF IInv, bitcoin, db, search
<1>0. /\ pc = "read" /\ ~booting
      /\ block' = [block EXCEPT !.txs = txs]
      /\ pending' = IF keep THEN pending ELSE pending (+) SetToBag({new})
      /\ open' = IF h >= PhaseOne /\ ~quiet THEN txs ELSE open
      /\ pc' = IF quiet THEN "finalise" ELSE "flush"
      /\ UNCHANGED <<bitcoin, opi, db, prog, saved, booting, search, lastOpi, crashes>>
  BY DEF ReadTransfers, Goto, Control
<1>1. /\ h = Height + 1 /\ h \in 1 .. MaxHeight
      /\ block.hash \in Fork /\ Height \in Nat
      /\ block \in [h : 0 .. MaxHeight, hash : Block, txs : Block]
  BY <1>0, NextBlock, Shapes
<1>2. txs \in Block
  <2>1. opi \in Seq(Fork)
    BY DEF TypeOK
  <2>2. h <= Len(opi) => opi[h] \in Fork
    BY <1>1, <2>1, ElementOfSeq
  <2> QED BY <2>2 DEF Block
<1>3. /\ block' \in [h : 0 .. MaxHeight, hash : Block, txs : Block]
      /\ block'.h = h /\ block'.hash = block.hash /\ block'.txs = txs
  BY <1>0, <1>1, <1>2
<1>4. /\ Transfers(h, txs) \in Block /\ (quiet => Transfers(h, txs) = NoBlock)
      /\ Transfers(block'.h, block'.txs) = Transfers(h, txs)
  BY <1>2, <1>3 DEF Transfers, Block
<1> HIDE DEF txs, h
<1>5. new \in Entry /\ new.h = h /\ new.b = Transfers(h, txs)
  BY <1>1, <1>4 DEF Entry
<1> HIDE DEF new, quiet
<1>6. /\ \A e \in Rows(ledger) : e.h <= Height /\ e \in Entry
      /\ \A e \in Rows(pending) : e.h <= Height /\ e.b = NoBlock /\ e \in Entry
  BY <1>0 DEF Entries, Indexing, TypeOK, Rows
<1>7. \A e \in Rows(ledger) \cup Rows(pending) : e.h < h /\ e.h # h
  BY <1>1, <1>6 DEF Entry
<1>8. IsABag(pending)
  BY DEF TypeOK
<1>9. /\ IsABag(pending')
      /\ Rows(pending') = Rows(pending) \cup (IF keep THEN {} ELSE {new})
      /\ \A e \in Rows(pending) : pending'[e] = pending[e]
      /\ ~keep => pending'[new] = 1
  <2>1. CASE keep
    BY <1>0, <1>8, <2>1
  <2>2. CASE ~keep
    <3>1. IsABag(SetToBag({new})) /\ Rows(SetToBag({new})) = {new} /\ SetToBag({new})[new] = 1
      BY SingletonFacts
    <3>2. Rows(pending) \cap Rows(SetToBag({new})) = {}
      BY <1>5, <1>7, <3>1
    <3>3. pending' = pending (+) SetToBag({new})
      BY <1>0, <2>2
    <3> QED BY <1>8, <2>2, <3>1, <3>2, <3>3, UnionFacts
  <2> QED BY <2>1, <2>2
<1> HIDE DEF keep
<1>10. pc' \in {"finalise", "flush"} /\ Indexing' /\ ~booting' /\ Height' = Height
  BY <1>0 DEF Indexing, Height
<1>11. open' \in Block
  BY <1>0, <1>2 DEF TypeOK
<1>12. TypeOK' /\ Sizes'
  <2>1. Rows(pending') \subseteq Entry
    BY <1>5, <1>6, <1>9
  <2> QED BY <1>0, <1>3, <1>9, <1>10, <1>11, <2>1 DEF TypeOK, Sizes, Rows
<1>13. Control'
  BY <1>0, <1>1, <1>3, <1>10 DEF Control
<1>14. Entries'
  <2>1. \A e \in Rows(pending') : e \in Rows(pending) \/ e = new
    BY <1>9
  <2>2. \A e \in Rows(ledger') : ledger'[e] = 1 /\ e.h <= Height' + 1
    BY <1>0, <1>10 DEF Entries
  <2>3. \A e \in Rows(pending') :
          pending'[e] = 1 /\ e.h <= Height' + 1 /\ (e.h <= Height' => e.b = NoBlock)
    <3>1. \A e \in Rows(pending) : pending'[e] = 1 /\ e.h <= Height + 1 /\ e.b = NoBlock
      BY <1>1, <1>6, <1>7, <1>9 DEF Entries, Entry
    <3>2. new \in Rows(pending') => pending'[new] = 1
      BY <1>9, <3>1
    <3>3. new.h <= Height + 1 /\ ~(new.h <= Height)
      BY <1>1, <1>5
    <3> QED BY <1>10, <2>1, <3>1, <3>2, <3>3
  <2>4. \A e, f \in Rows(ledger') : e.h = f.h => e = f
    BY <1>0 DEF Entries
  <2>5. \A e, f \in Rows(pending') : e.h = f.h => e = f
    BY <1>5, <1>7, <2>1 DEF Entries
  <2>6. \A e \in Rows(ledger'), f \in Rows(pending') : e.h # f.h
    BY <1>0, <1>5, <1>7, <2>1 DEF Entries
  <2> QED BY <1>10, <2>2, <2>3, <2>4, <2>5, <2>6 DEF Entries, Indexing
<1>15. Executed'
  <2>1. CASE quiet
    <3>1. pc' = "finalise" /\ Transfers(h, txs) = NoBlock
      BY <1>0, <1>4, <2>1 DEF quiet
    <3>2. LedgerAt(block.h)' = {}
      BY <1>0, <1>3, <1>7 DEF LedgerAt, Rows
    <3>3. \A e \in Rows(pending') : e.b = NoBlock
      BY <1>5, <1>6, <1>9, <3>1
    <3> QED BY <1>3, <1>4, <3>1, <3>2, <3>3 DEF Executed
  <2>2. CASE ~quiet
    <3>1. pc' = "flush" /\ ~keep
      BY <1>0, <2>2 DEF keep
    <3>2. new \in Rows(pending') /\ \A e \in Rows(pending') : e.h = h => e = new
      BY <1>7, <1>9, <3>1
    <3>3. new = [h |-> block'.h, b |-> Transfers(block'.h, block'.txs)]
      BY <1>3, <1>4 DEF new
    <3> QED BY <1>3, <1>4, <1>5, <3>1, <3>2, <3>3 DEF Executed
  <2> QED BY <2>1, <2>2
<1> QED BY <1>12, <1>13, <1>14, <1>15

LEMMA FlushStep ==
  ASSUME IInv, Flush
  PROVE  IInv'
<1> USE DEF IInv, bitcoin, evm, search
<1>0. /\ pc = "flush" /\ pc' = "finalise" /\ Indexing /\ Indexing' /\ ~booting
      /\ ledger' = ledger (+) pending
      /\ burned' = burned \cup BagToSet(pending)
      /\ pending' = EmptyBag
      /\ UNCHANGED <<bitcoin, opi, hashes, evm, booting, search, lastOpi, block, crashes>>
  BY DEF Flush, Goto, Indexing, Control
<1>1. /\ block.h = Height + 1 /\ block.h \in 1 .. MaxHeight /\ Height \in Nat
      /\ [h |-> block.h, b |-> Transfers(block.h, block.txs)] \in Rows(pending)
      /\ \A e \in Rows(pending) : e.h = block.h => e.b = Transfers(block.h, block.txs)
  BY <1>0, NextBlock, Shapes DEF Executed
<1>2. /\ IsABag(ledger) /\ IsABag(pending)
      /\ Rows(ledger) \subseteq Entry /\ Rows(pending) \subseteq Entry
  BY DEF TypeOK, Rows
<1>3. Rows(ledger) \cap Rows(pending) = {}
  BY DEF Entries
<1>4. /\ IsABag(ledger')
      /\ Rows(ledger') = Rows(ledger) \cup Rows(pending)
      /\ \A e \in Rows(ledger) : ledger'[e] = ledger[e]
      /\ \A e \in Rows(pending) : ledger'[e] = pending[e]
  BY <1>0, <1>2, <1>3, UnionFacts
<1>5. IsABag(pending') /\ Rows(pending') = {}
  BY <1>0, EmptyFacts
<1>6. TypeOK' /\ Sizes'
  <2>1. burned' \subseteq Entry
    BY <1>0, <1>2 DEF TypeOK, Rows
  <2> QED BY <1>0, <1>2, <1>4, <1>5, <2>1 DEF TypeOK, Sizes, Rows
<1>7. Height' = Height
  BY <1>0 DEF Height
<1>8. Control'
  BY <1>0, <1>7 DEF Control
<1>9. Entries'
  <2>1. \A e \in Rows(ledger') : ledger'[e] = 1 /\ e.h <= Height + 1
    BY <1>0, <1>4 DEF Entries
  <2>2. \A e, f \in Rows(ledger') : e.h = f.h => e = f
    BY <1>4 DEF Entries
  <2> QED BY <1>0, <1>5, <1>7, <2>1, <2>2 DEF Entries
<1>10. Executed'
  <2> DEFINE T == Transfers(block.h, block.txs)
  <2>1. {e \in Rows(ledger') : e.h = block.h} = {[h |-> block.h, b |-> T]}
    <3>1. \A e \in Rows(pending) : e.h = block.h => e = [h |-> block.h, b |-> T]
      BY <1>1 DEF Entries
    <3>2. \A e \in Rows(ledger) : e.h # block.h
      BY <1>1 DEF Entries
    <3> QED BY <1>1, <1>4, <3>1, <3>2
  <2>2. LedgerAt(block.h)' = {T} \ {NoBlock}
    <3>1. block' = block
      BY <1>0
    <3>2. {e.b : e \in {f \in Rows(ledger') : f.h = block.h}} = {T}
      <4>1. {e.b : e \in {[h |-> block.h, b |-> T]}} = {[h |-> block.h, b |-> T].b}
        OBVIOUS
      <4>2. [h |-> block.h, b |-> T].b = T
        OBVIOUS
      <4> QED BY <2>1, <4>1, <4>2
    <3> QED BY <3>1, <3>2 DEF LedgerAt, Rows
  <2>3. Transfers(block.h, block.txs)' = T
    BY <1>0 DEF Transfers, IsQuiet
  <2> HIDE DEF T
  <2> QED BY <1>0, <1>5, <2>2, <2>3 DEF Executed
<1> QED BY <1>6, <1>8, <1>9, <1>10

(* brc20_prog takes or commits a block.                                    *)
LEMMA ProgStep ==
  ASSUME IInv, pc \in {"finalise", "commit"}, pc' \in {"commit", "hashes"},
         UNCHANGED <<bitcoin, opi, db, booting, search, memory, crashes>>,
         prog' \in Seq([h : 1 .. MaxHeight, hash : Fork, txs : Block]),
         saved' \in 0 .. Len(prog'), open' \in Block
  PROVE  IInv'
<1> USE DEF IInv, bitcoin, db, search, memory
<1>1. TypeOK' /\ Sizes'
  BY DEF TypeOK, Sizes
<1>2. Indexing /\ Indexing' /\ Height' = Height
  BY DEF Indexing, Height
<1>3. Control'
  BY <1>2 DEF Control
<1>4. Entries'
  BY <1>2 DEF Entries, Rows
<1>5. Executed'
  BY DEF Executed, LedgerAt, Transfers, IsQuiet, Rows
<1> QED BY <1>1, <1>3, <1>4, <1>5

LEMMA FinaliseStep ==
  ASSUME IInv, Finalise
  PROVE  IInv'
<1> DEFINE sent == Transfers(block.h, block.txs)
           sentBlock == [h |-> block.h, hash |-> block.hash, txs |-> sent]
<1>0. /\ pc = "finalise" /\ crashes' = crashes
      /\ prog \in Seq([h : 1 .. MaxHeight, hash : Fork, txs : Block])
      /\ Len(prog) \in Nat /\ saved \in 0 .. Len(prog) /\ open \in Block
  BY Shapes DEF Finalise, IInv, TypeOK
<1>1. sentBlock \in [h : 1 .. MaxHeight, hash : Fork, txs : Block]
  BY <1>0, NextBlock DEF Indexing
<1>2. CASE block.h < PhaseOne /\ Goto("hashes") /\ UNCHANGED <<bitcoin, opi, db, evm, booting, search, memory>>
  BY <1>0, <1>2, ProgStep DEF Goto, evm
<1>3. CASE /\ prog' = Append(prog, sentBlock)
           /\ open' = NoBlock
           /\ Goto(IF block.h = lastOpi \/ block.h % CommitEvery = 0 THEN "commit" ELSE "hashes")
           /\ UNCHANGED <<bitcoin, opi, db, saved, booting, search, memory>>
  <2> HIDE DEF sentBlock
  <2>1. prog' \in Seq([h : 1 .. MaxHeight, hash : Fork, txs : Block]) /\ Len(prog') = Len(prog) + 1
    BY <1>0, <1>1, <1>3
  <2>2. saved' \in 0 .. Len(prog') /\ open' \in Block
    BY <1>0, <1>3, <2>1 DEF Block
  <2>3. pc' \in {"commit", "hashes"}
    BY <1>3 DEF Goto
  <2> QED BY <1>0, <1>3, <2>1, <2>2, <2>3, ProgStep
<1>4. CASE Exit
  BY <1>0, <1>4, ExitStep, Shapes DEF IInv
<1> QED BY <1>2, <1>3, <1>4 DEF Finalise

LEMMA CommitStep ==
  ASSUME IInv, Commit
  PROVE  IInv'
<1>1. /\ pc = "commit" /\ pc' = "hashes" /\ saved' = Len(prog)
      /\ UNCHANGED <<bitcoin, opi, db, prog, open, booting, search, memory, crashes>>
  BY DEF Commit, Goto
<1>2. /\ prog' \in Seq([h : 1 .. MaxHeight, hash : Fork, txs : Block])
      /\ saved' \in 0 .. Len(prog') /\ open' \in Block
  BY <1>1, Shapes DEF IInv, TypeOK
<1> QED BY <1>1, <1>2, ProgStep

LEMMA SetBlockHashesStep ==
  ASSUME IInv, SetBlockHashes
  PROVE  IInv'
<1> USE DEF IInv, bitcoin, evm, search, memory
<1>0. pc = "hashes" /\ Indexing /\ crashes' = crashes
  BY DEF SetBlockHashes, Indexing
<1>1. CASE block.h < PhaseOne \/ HasProg(block.h)
  <2>1. /\ hashes' = Append(hashes, block.hash) /\ pc' = "align" /\ ~booting
        /\ UNCHANGED <<bitcoin, opi, ledger, burned, evm, booting, search, memory, crashes>>
    BY <1>0, <1>1 DEF SetBlockHashes, Loop, Goto, Control
  <2>2. hashes' \in Seq(Fork) /\ Height' = Height + 1 /\ Height \in Nat
    BY <1>0, <2>1, NextBlock, Shapes DEF Height
  <2>3. TypeOK' /\ Sizes'
    BY <2>1, <2>2 DEF TypeOK, Sizes
  <2>4. ~Indexing' /\ Control' /\ Executed'
    BY <2>1 DEF Indexing, Control, Executed
  <2>5. \A e \in Rows(ledger) \cup Rows(pending) : e.h \in Nat /\ e.h <= Height + 1
    BY <1>0 DEF Entries, TypeOK, Entry, Rows
  <2>6. \A e \in Rows(pending) : e.b = NoBlock
    BY <1>0 DEF Executed
  <2>7. Entries'
    BY <2>1, <2>2, <2>4, <2>5, <2>6 DEF Entries, Rows
  <2> QED BY <2>3, <2>4, <2>7
<1>2. CASE ~(block.h < PhaseOne \/ HasProg(block.h))
  BY <1>0, <1>2, ExitStep, Shapes DEF SetBlockHashes
<1> QED BY <1>1, <1>2

LEMMA CrashStep ==
  ASSUME IInv, Crash \/ ProgCrash
  PROVE  IInv'
<1> USE SyncAssumption DEF IInv
<1>0. crashes \in 0 .. MaxCrashes
  BY Shapes
<1>1. CASE Crash
  BY <1>0, <1>1, ExitStep DEF Crash
<1>2. CASE ProgCrash
  <2> USE DEF bitcoin, db, search, memory
  <2>1. /\ crashes' \in 0 .. MaxCrashes
        /\ prog' = Prefix(prog, saved) /\ open' = NoBlock
        /\ UNCHANGED <<bitcoin, opi, db, saved, pc, booting, search, memory>>
    BY <1>0, <1>2 DEF ProgCrash
  <2>2. /\ prog' \in Seq([h : 1 .. MaxHeight, hash : Fork, txs : Block])
        /\ saved' \in 0 .. Len(prog') /\ open' \in Block
    BY <2>1, ProgDropFacts, Shapes DEF Block
  <2>3. TypeOK' /\ Sizes'
    BY <2>1, <2>2 DEF TypeOK, Sizes
  <2>4. Control'
    BY <2>1 DEF Control, Indexing, Height
  <2>5. Entries'
    BY <2>1 DEF Entries, Indexing, Height, Rows
  <2>6. Executed'
    BY <2>1 DEF Executed, LedgerAt, Transfers, IsQuiet, Rows
  <2> QED BY <2>3, <2>4, <2>5, <2>6
<1> QED BY <1>1, <1>2

LEMMA StutterStep ==
  ASSUME IInv, UNCHANGED vars
  PROVE  IInv'
<1> USE DEF IInv, vars, bitcoin, db, evm, search, memory
<1>1. TypeOK' /\ Sizes'
  BY DEF TypeOK, Sizes
<1>2. Control'
  BY DEF Control, Indexing, Height
<1>3. Entries'
  BY DEF Entries, Indexing, Height, Rows
<1>4. Executed'
  BY DEF Executed, LedgerAt, Transfers, IsQuiet, Rows
<1> QED BY <1>1, <1>2, <1>3, <1>4

LEMMA Invariance == Spec => []IInv
<1>1. IInv /\ [Next]_vars => IInv'
  <2> SUFFICES ASSUME IInv, [Next]_vars PROVE IInv'
    OBVIOUS
  <2>1. CASE Step
    BY <2>1, StartStep, AlignStep, WalkStep, ReorgProgStep, ClearCachesStep, WaitStep, ReadHashStep,
       ReadTransfersStep, FlushStep, FinaliseStep, CommitStep, SetBlockHashesStep DEF Step
  <2>2. CASE Outside
    BY <2>2, OutsideStep
  <2>3. CASE Crash \/ ProgCrash
    BY <2>3, CrashStep
  <2>4. CASE UNCHANGED vars
    BY <2>4, StutterStep
  <2> QED BY <2>1, <2>2, <2>3, <2>4 DEF Next, Outside
<1> QED BY <1>1, InitIInv, PTL DEF Spec

-----------------------------------------------------------------------------
(* Chains, tables and memory have their shape.                             *)
THEOREM TypeCorrect == Spec => []TypeOK
  BY Invariance, PTL DEF IInv

(* No block is applied twice, and none is left applied without a hash but  *)
(* the one right above the last hash.                                      *)
THEOREM NoBlockTwice == Spec => []AppliedOnce
<1>1. IInv => AppliedOnce
  BY DEF IInv, Entries, AppliedOnce, Rows
<1> QED BY <1>1, Invariance, PTL

-----------------------------------------------------------------------------
(* The tables as Brc20Replay sees them.                                    *)
Shown == [h \in DOMAIN hashes |-> [hash |-> hashes[h], txs |-> LedgerAt(h)]]
ShownBlock == [hash : Fork, txs : SUBSET Fork]

ShownOK ==
  /\ Shown \in Seq(ShownBlock) /\ Len(Shown) = Height
  /\ \A h \in 1 .. Height : Shown[h] = [hash |-> hashes[h], txs |-> LedgerAt(h)]

LEMMA ShownFacts == TypeOK => ShownOK
<1> SUFFICES ASSUME TypeOK PROVE ShownOK
  OBVIOUS
<1>1. hashes \in Seq(Fork) /\ Height \in Nat /\ DOMAIN hashes = 1 .. Height
  BY Shapes DEF Height
<1>2. ASSUME NEW h \in 1 .. Height
      PROVE  [hash |-> hashes[h], txs |-> LedgerAt(h)] \in ShownBlock
  <2>1. hashes[h] \in Fork
    BY <1>1, ElementOfSeq DEF Height
  <2>2. LedgerAt(h) \in SUBSET Fork
    <3>1. \A e \in BagToSet(ledger) : e.b \in Fork \cup {NoBlock}
      BY DEF TypeOK, Entry, Block
    <3>2. \A b \in LedgerAt(h) : b \in Fork
      BY <3>1 DEF LedgerAt
    <3> QED BY <3>2
  <2> QED BY <2>1, <2>2 DEF ShownBlock
<1>3. Shown = [h \in 1 .. Height |-> [hash |-> hashes[h], txs |-> LedgerAt(h)]]
  BY <1>1 DEF Shown
<1>4. Shown \in [1 .. Height -> ShownBlock]
  BY <1>2, <1>3
<1>5. Shown \in Seq(ShownBlock) /\ Len(Shown) = Height
  BY <1>1, <1>4
<1> QED BY <1>3, <1>5 DEF ShownOK

LEMMA ShownKept ==
  ASSUME TypeOK, TypeOK', UNCHANGED hashes, \A h \in 1 .. Height : LedgerAt(h)' = LedgerAt(h)
  PROVE  Shown' = Shown
<1>1. DOMAIN hashes = 1 .. Height /\ hashes' = hashes
  BY Shapes DEF Height
<1> QED BY <1>1 DEF Shown

LEMMA ShownCut ==
  ASSUME TypeOK, TypeOK', NEW k \in 0 .. Height, DbReorg(k)
  PROVE  Replay!Next
<1>1. Height \in Nat /\ k \in Nat
  BY Shapes, InRange
<1>2. /\ Height' = k
      /\ \A h \in 1 .. k : hashes'[h] = hashes[h] /\ LedgerAt(h)' = LedgerAt(h)
  BY <1>1, DbReorgFacts DEF Height
<1>3. /\ Shown \in Seq(ShownBlock) /\ Len(Shown) = Height
      /\ \A h \in 1 .. Height : Shown[h] = [hash |-> hashes[h], txs |-> LedgerAt(h)]
  BY ShownFacts DEF ShownOK
<1>4. /\ Shown' \in Seq(ShownBlock) /\ Len(Shown') = k
      /\ \A h \in 1 .. k : Shown'[h] = [hash |-> hashes'[h], txs |-> LedgerAt(h)']
  <2>1. ShownOK'
    BY ShownFacts, PTL
  <2> QED BY <1>2, <2>1 DEF ShownOK
<1>5. /\ SubSeq(Shown, 1, k) \in Seq(ShownBlock) /\ Len(SubSeq(Shown, 1, k)) = k
      /\ \A h \in 1 .. k : SubSeq(Shown, 1, k)[h] = Shown[h]
  <2>1. \A h \in 1 .. k : Shown[h] \in ShownBlock
    BY <1>1, <1>3, ElementOfSeq
  <2>2. /\ SubSeq(Shown, 1, k) \in Seq(ShownBlock)
        /\ Len(SubSeq(Shown, 1, k)) = IF 1 <= k THEN k - 1 + 1 ELSE 0
        /\ \A h \in 1 .. k - 1 + 1 : SubSeq(Shown, 1, k)[h] = Shown[1 + h - 1]
    BY <1>1, <2>1, SubSeqProperties
  <2> QED BY <1>1, <2>2
<1>6. \A h \in 1 .. k : Shown'[h] = SubSeq(Shown, 1, k)[h]
  <2>1. \A h \in 1 .. k : h \in 1 .. Height
    BY <1>1
  <2> QED BY <1>2, <1>3, <1>4, <1>5, <2>1
<1>7. Shown' = SubSeq(Shown, 1, k)
  BY <1>4, <1>5, <1>6, SeqEqual
<1> QED BY <1>3, <1>7 DEF Replay!Next, Replay!Rollback, Shown

LEMMA ShownGrows ==
  ASSUME TypeOK, TypeOK', NEW x \in Fork, hashes' = Append(hashes, x),
         UNCHANGED ledger,
         NEW b \in Fork, LedgerAt(Height + 1) = {} \/ LedgerAt(Height + 1) = {b}
  PROVE  Replay!Next
<1>1. hashes \in Seq(Fork) /\ Height \in Nat
  BY Shapes
<1>2. /\ Height' = Height + 1 /\ hashes'[Height + 1] = x
      /\ \A h \in 1 .. Height : hashes'[h] = hashes[h]
  BY <1>1 DEF Height
<1>3. \A h : LedgerAt(h)' = LedgerAt(h)
  BY DEF LedgerAt
<1>4. /\ Shown \in Seq(ShownBlock) /\ Len(Shown) = Height
      /\ \A h \in 1 .. Height : Shown[h] = [hash |-> hashes[h], txs |-> LedgerAt(h)]
  BY ShownFacts DEF ShownOK
<1>5. /\ Shown' \in Seq(ShownBlock) /\ Len(Shown') = Height + 1
      /\ \A h \in 1 .. Height + 1 : Shown'[h] = [hash |-> hashes'[h], txs |-> LedgerAt(h)']
  <2>1. ShownOK'
    BY ShownFacts, PTL
  <2> QED BY <1>2, <2>1 DEF ShownOK
<1> DEFINE new == [hash |-> x, txs |-> LedgerAt(Height + 1)]
<1>6. Shown'[Height + 1] = new
  <2>1. PICK m \in Nat : m = Height + 1
    BY <1>1
  <2>2. Shown'[m] = [hash |-> hashes'[m], txs |-> LedgerAt(m)']
    <3>1. m \in 1 .. Height + 1
      BY <1>1, <2>1
    <3> QED BY <1>5, <3>1
  <2>3. LedgerAt(m)' = LedgerAt(m) /\ hashes'[m] = x
    BY <1>2, <1>3, <2>1
  <2> QED BY <2>1, <2>2, <2>3
<1>7. new \in ShownBlock
  BY <1>1, <1>5, <1>6, ElementOfSeq
<1> HIDE DEF new
<1>8. /\ Append(Shown, new) \in Seq(ShownBlock) /\ Len(Append(Shown, new)) = Height + 1
      /\ \A h \in 1 .. Height : Append(Shown, new)[h] = Shown[h]
      /\ Append(Shown, new)[Height + 1] = new
  BY <1>1, <1>4, <1>7
<1>9. \A h \in 1 .. Height + 1 : Shown'[h] = Append(Shown, new)[h]
  <2> SUFFICES ASSUME NEW h \in 1 .. Height + 1 PROVE Shown'[h] = Append(Shown, new)[h]
    OBVIOUS
  <2>1. CASE h = Height + 1
    BY <1>6, <1>8, <2>1
  <2>2. CASE h # Height + 1
    <3>1. h \in 1 .. Height
      BY <1>1, <2>2
    <3> QED BY <1>2, <1>3, <1>4, <1>5, <1>8, <3>1
  <2> QED BY <2>1, <2>2
<1>10. Shown' = Append(Shown, new)
  BY <1>5, <1>8, <1>9, SeqEqual
<1>11. LedgerAt(Height + 1) \in {{}, {b}}
  OBVIOUS
<1> QED BY <1>10, <1>11 DEF Replay!Next, Replay!Apply, Shown, new, Fork

(* What is flushed below the block being indexed are refunds.              *)
LEMMA ShownFlush ==
  ASSUME IInv, IInv', Flush
  PROVE  Shown' = Shown
<1>0. /\ Indexing /\ ledger' = ledger (+) pending /\ hashes' = hashes
      /\ IsABag(ledger) /\ IsABag(pending) /\ Height \in Nat
      /\ \A e \in Rows(pending) : e.h <= Height => e.b = NoBlock
  BY Shapes DEF Flush, Indexing, IInv, TypeOK, Entries
<1>1. Rows(ledger') = Rows(ledger) \cup Rows(pending)
  BY <1>0, BagUnionType
<1>2. ASSUME NEW h \in 1 .. Height PROVE LedgerAt(h)' = LedgerAt(h)
  <2>1. {e.b : e \in {f \in Rows(ledger') : f.h = h}} \ {NoBlock}
          = {e.b : e \in {f \in Rows(ledger) : f.h = h}} \ {NoBlock}
    <3>1. \A e \in Rows(pending) : e.h = h => e.b = NoBlock
      BY <1>0
    <3> QED BY <1>1, <3>1
  <2> QED BY <2>1 DEF LedgerAt, Rows
<1> QED BY <1>0, <1>2, ShownKept DEF IInv

LEMMA ShownStep ==
  ASSUME IInv, IInv', [Next]_vars
  PROVE  Replay!Next \/ Shown' = Shown
<1>0. TypeOK /\ TypeOK' /\ Height \in Nat
  BY Shapes DEF IInv
<1>1. CASE UNCHANGED db
  BY <1>1 DEF db, Shown, LedgerAt
<1>2. CASE Align
  <2>1. CASE UNCHANGED db
    BY <1>1, <2>1
  <2>2. CASE Height >= PhaseOne /\ ProgHeight >= PhaseOne /\ Height > ProgHeight /\ DbReorg(ProgHeight)
    <3>1. ProgHeight \in 0 .. Height
      BY <1>0, <2>2, Shapes, SyncAssumption
    <3> QED BY <1>0, <2>2, <3>1, ShownCut
  <2> QED BY <1>2, <2>1, <2>2 DEF Align, db
<1>3. CASE WalkFound \/ WalkDiffers
  <2>1. at \in 0 .. Height
    <3>1. pc = "walk"
      BY <1>3 DEF WalkFound, WalkDiffers
    <3>2. at \in 1 .. Height
      BY <3>1 DEF IInv, Control
    <3> QED BY <1>0, <3>2
  <2>2. UNCHANGED db \/ DbReorg(at)
    BY <1>3 DEF WalkFound, WalkDiffers
  <2> QED BY <1>0, <1>1, <2>1, <2>2, ShownCut
<1>4. CASE ClearCaches
  <2>1. UNCHANGED db \/ DbReorg(Height)
    BY <1>4 DEF ClearCaches
  <2>2. Height \in 0 .. Height
    BY <1>0
  <2> QED BY <1>0, <1>1, <2>1, <2>2, ShownCut
<1>5. CASE Flush
  BY <1>5, ShownFlush
<1>6. CASE SetBlockHashes
  <2>1. CASE block.h < PhaseOne \/ HasProg(block.h)
    <3>1. /\ hashes' = Append(hashes, block.hash) /\ ledger' = ledger
          /\ block.hash \in Fork /\ block.h = Height + 1
          /\ Transfers(block.h, block.txs) \in Block
          /\ LedgerAt(block.h) = {Transfers(block.h, block.txs)} \ {NoBlock}
      BY <1>6, <2>1, NextBlock DEF SetBlockHashes, IInv, Executed, Indexing
    <3>2. PICK b \in Fork : LedgerAt(Height + 1) = {} \/ LedgerAt(Height + 1) = {b}
      <4>1. CASE Transfers(block.h, block.txs) = NoBlock
        <5>1. LedgerAt(Height + 1) = {}
          BY <3>1, <4>1
        <5>2. 1 \in Fork
          BY SyncAssumption DEF Fork
        <5> QED BY <5>1, <5>2
      <4>2. CASE Transfers(block.h, block.txs) # NoBlock
        <5>1. Transfers(block.h, block.txs) \in Fork
          BY <3>1, <4>2 DEF Block
        <5>2. LedgerAt(Height + 1) = {Transfers(block.h, block.txs)}
          BY <3>1, <4>2
        <5> QED BY <5>1, <5>2
      <4> QED BY <4>1, <4>2
    <3> QED BY <1>0, <3>1, <3>2, ShownGrows
  <2>2. CASE ~(block.h < PhaseOne \/ HasProg(block.h))
    BY <1>1, <1>6, <2>2 DEF SetBlockHashes, Exit
  <2> QED BY <2>1, <2>2
<1>7. CASE UNCHANGED vars
  BY <1>1, <1>7 DEF vars
<1>8. CASE Outside
  BY <1>0, <1>1, <1>8, OutsideFacts DEF indexer, IInv
<1>9. CASE Crash \/ ProgCrash
  BY <1>1, <1>9 DEF Crash, ProgCrash, Exit
<1>10. CASE Start \/ WalkFails \/ ReorgProg \/ ReorgResidue
  BY <1>1, <1>10 DEF Start, WalkFails, ReorgProg, ReorgResidue, Exit
<1>11. CASE Wait \/ ReadHash \/ ReadTransfers \/ Finalise \/ Commit
  BY <1>1, <1>11 DEF Wait, ReadHash, ReadTransfers, Finalise, Commit, Exit
<1> QED BY <1>2, <1>3, <1>4, <1>5, <1>6, <1>7, <1>8, <1>9, <1>10, <1>11 DEF Next, Step, Outside

(* The tables implement the replay of whole blocks: whatever crashes,      *)
(* reorgs and residue lie behind, a block with a hash is applied once and  *)
(* as a whole, and blocks are taken back whole, from the end.              *)
THEOREM Implements == Spec => WholeBlocks
<1>1. Init => Replay!Init
  <2> SUFFICES ASSUME Init PROVE Replay!Init
    OBVIOUS
  <2>1. DOMAIN hashes = {}
    BY DEF Init
  <2> QED BY <2>1 DEF Replay!Init
<1>2. IInv /\ IInv' /\ [Next]_vars => [Replay!Next]_Shown
  BY ShownStep
<1> QED BY <1>1, <1>2, Invariance, PTL DEF Spec, WholeBlocks, Replay!Spec, Shown

-----------------------------------------------------------------------------
(* Bitcoin does not replace the block of phase one, and brc20_prog commits *)
(* it at once.  Otherwise brc20_prog may keep a first block that the       *)
(* ledger does not have, or lose all blocks, and they are never aligned.   *)
PhaseOneBuried == PhaseOne <= Final /\ PhaseOne % CommitEvery = 0

FirstProg == [h |-> PhaseOne, hash |-> best[PhaseOne], txs |-> Transfers(PhaseOne, best[PhaseOne])]

(* Every process has, or will have, the same block of phase one.           *)
Buried ==
  /\ PhaseOne <= Len(opi) => PhaseOne <= Len(best) /\ opi[PhaseOne] = best[PhaseOne]
  /\ (pc = "read" \/ Indexing) /\ block.h = PhaseOne =>
       PhaseOne <= Len(opi) /\ block.hash = best[PhaseOne]
  /\ Indexing /\ block.h = PhaseOne => block.txs = best[PhaseOne]
  /\ prog # <<>> => PhaseOne <= Len(opi) /\ prog[1] = FirstProg
  /\ Height >= PhaseOne =>
       /\ PhaseOne <= Len(opi) /\ hashes[PhaseOne] = best[PhaseOne]
       /\ LedgerAt(PhaseOne) = {FirstProg.txs} \ {NoBlock}
       /\ saved >= 1
  /\ pc = "hashes" /\ block.h = PhaseOne /\ prog # <<>> => saved >= 1

Agreed(h) ==
  ProgBlock(h).h = h /\ ProgBlock(h).hash = hashes[h] /\ ProgAt(h) = LedgerAt(h)

(* All blocks both have agree, but for the last of brc20_prog when it is   *)
(* one it was given after a restart, which is not of the height it has.    *)
BelowAgreed ==
  \A h \in PhaseOne .. Height :
    h < ProgHeight \/ (h = ProgHeight /\ ProgBlock(h).h = h) => Agreed(h)

AllAgreed == \A h \in PhaseOne .. Height : h <= ProgHeight => Agreed(h)

Agreement ==
  /\ BelowAgreed
  /\ pc \in {"prog", "clear", "prog residue", "next", "read", "flush", "finalise"} => AllAgreed
  /\ pc \in {"walk", "clear", "prog residue", "next", "read", "flush", "finalise"} /\ Height >= PhaseOne =>
       ProgHeight <= Height
  /\ pc = "prog" /\ Height >= PhaseOne => at = Height
  /\ pc \in {"commit", "hashes"} /\ Height >= PhaseOne /\ HasProg(block.h) =>
       ProgBlock(block.h) =
         [h |-> block.h, hash |-> block.hash, txs |-> Transfers(block.h, block.txs)]

JInv == Buried /\ Agreement

(* Nothing is added to the ledger or to brc20_prog.                        *)
Shrunk ==
  /\ Len(hashes') <= Len(hashes) /\ \A h \in 1 .. Len(hashes') : hashes'[h] = hashes[h]
  /\ \A h \in 1 .. Len(hashes') : LedgerAt(h)' = LedgerAt(h)
  /\ Len(prog') <= Len(prog) /\ \A i \in 1 .. Len(prog') : prog'[i] = prog[i]
  /\ Len(hashes') >= PhaseOne => saved' >= 1
  /\ pc' = "hashes" /\ prog' # <<>> => saved' >= 1
  /\ UNCHANGED bitcoin /\ UNCHANGED opi
  /\ pc' = "read" \/ Indexing' => pc' = pc /\ UNCHANGED block

LEMMA Lengths ==
  ASSUME TypeOK
  PROVE  /\ Height \in Nat /\ Len(hashes) \in Nat /\ Len(prog) \in Nat
         /\ ProgHeight = PhaseOne - 1 + Len(prog) /\ ProgHeight \in Int
         /\ prog # <<>> <=> Len(prog) >= 1
         /\ saved \in Nat /\ saved <= Len(prog)
<1>1. /\ prog \in Seq([h : 1 .. MaxHeight, hash : Fork, txs : Block]) /\ Len(prog) \in Nat
      /\ saved \in 0 .. Len(prog) /\ Height \in Nat /\ ProgHeight \in Int
  BY Shapes
<1>2. prog # <<>> <=> Len(prog) >= 1
  BY <1>1, EmptySeq
<1> QED BY <1>1, <1>2 DEF ProgHeight, Height

LEMMA ShrunkStep ==
  ASSUME TypeOK, TypeOK', JInv, Shrunk
  PROVE  Buried' /\ BelowAgreed' /\ (AllAgreed => AllAgreed')
<1> USE SyncAssumption
<1>0. /\ best' = best /\ opi' = opi
      /\ Len(hashes) \in Nat /\ Len(hashes') \in Nat /\ Len(hashes') <= Len(hashes)
      /\ Len(prog) \in Nat /\ Len(prog') \in Nat /\ Len(prog') <= Len(prog)
      /\ (prog # <<>> <=> Len(prog) >= 1) /\ (prog' # <<>> <=> Len(prog') >= 1)
  <2>1. Len(hashes') \in Nat /\ Len(prog') \in Nat /\ (prog' # <<>> <=> Len(prog') >= 1)
    <3>1. hashes' \in Seq(Fork) /\ prog' \in Seq([h : 1 .. MaxHeight, hash : Fork, txs : Block])
      BY DEF TypeOK
    <3> QED BY <3>1, EmptySeq
  <2> QED BY <2>1, Lengths DEF Shrunk, bitcoin
<1>1. FirstProg' = FirstProg
  BY <1>0 DEF FirstProg, Transfers, IsQuiet
<1>2. ASSUME NEW h \in PhaseOne .. Len(hashes'), h <= PhaseOne - 1 + Len(prog')
      PROVE  /\ h \in PhaseOne .. Len(hashes) /\ h <= PhaseOne - 1 + Len(prog)
             /\ ProgBlock(h)' = ProgBlock(h)
             /\ hashes'[h] = hashes[h] /\ LedgerAt(h)' = LedgerAt(h)
             /\ Agreed(h)' <=> Agreed(h)
  <2>1. h \in PhaseOne .. Len(hashes) /\ h <= PhaseOne - 1 + Len(prog)
    BY <1>0, <1>2
  <2>2. h - PhaseOne + 1 \in 1 .. Len(prog') /\ h \in 1 .. Len(hashes')
    BY <1>0, <1>2
  <2>3. ProgBlock(h)' = ProgBlock(h) /\ hashes'[h] = hashes[h] /\ LedgerAt(h)' = LedgerAt(h)
    BY <2>2 DEF Shrunk, ProgBlock
  <2> QED BY <2>1, <2>3 DEF Agreed, ProgAt
<1>3. BelowAgreed' /\ (AllAgreed => AllAgreed')
  <2>1. BelowAgreed
    BY DEF JInv, Agreement
  <2>2. ASSUME NEW h \in PhaseOne .. Len(hashes'), h <= PhaseOne - 1 + Len(prog'),
               h < PhaseOne - 1 + Len(prog') \/ ProgBlock(h)'.h = h
        PROVE  Agreed(h)'
    <3>1. h < PhaseOne - 1 + Len(prog) \/ (h = PhaseOne - 1 + Len(prog) /\ ProgBlock(h).h = h)
      BY <1>0, <1>2, <2>2
    <3> QED BY <1>2, <2>1, <2>2, <3>1 DEF BelowAgreed, Height, ProgHeight
  <2>3. BelowAgreed'
    BY <1>0, <2>2 DEF BelowAgreed, Height, ProgHeight
  <2>4. ASSUME AllAgreed, NEW h \in PhaseOne .. Len(hashes'), h <= PhaseOne - 1 + Len(prog')
        PROVE  Agreed(h)'
    BY <1>2, <2>4 DEF AllAgreed, Height, ProgHeight
  <2> QED BY <2>3, <2>4 DEF AllAgreed, Height, ProgHeight
<1>4. Buried'
  <2>1. prog' # <<>> => prog # <<>> /\ prog'[1] = prog[1]
    BY <1>0 DEF Shrunk
  <2>2. Len(hashes') >= PhaseOne =>
          Len(hashes) >= PhaseOne /\ hashes'[PhaseOne] = hashes[PhaseOne]
          /\ LedgerAt(PhaseOne)' = LedgerAt(PhaseOne) /\ saved' >= 1
    BY <1>0 DEF Shrunk
  <2>3. /\ pc' = "read" \/ Indexing' => pc' = pc /\ block' = block
        /\ pc' = "hashes" /\ prog' # <<>> => saved' >= 1
    BY DEF Shrunk
  <2>4. /\ pc' = pc => (Indexing' <=> Indexing)
        /\ pc' = "hashes" => Indexing'
    BY DEF Indexing
  <2> QED BY <1>0, <1>1, <2>1, <2>2, <2>3, <2>4 DEF JInv, Buried, Height
<1> QED BY <1>3, <1>4

LEMMA KeptShrunk ==
  ASSUME TypeOK, JInv, UNCHANGED <<bitcoin, opi, hashes, ledger, prog, saved>>,
         pc' # "read", ~Indexing'
  PROVE  Shrunk /\ Height' = Height /\ ProgHeight' = ProgHeight
<1>1. Height >= PhaseOne => saved >= 1
  BY DEF JInv, Buried
<1>2. Len(hashes) \in Nat /\ Len(prog) \in Nat
  BY Lengths
<1>3. \A h : LedgerAt(h)' = LedgerAt(h)
  BY DEF LedgerAt
<1> QED BY <1>1, <1>2, <1>3 DEF Shrunk, Indexing, Height, ProgHeight

LEMMA CutShrunk ==
  ASSUME TypeOK, TypeOK', JInv, NEW k \in 0 .. Height, DbReorg(k),
         UNCHANGED <<bitcoin, opi, saved>>,
         prog' = prog \/ prog' = Prefix(prog, saved),
         pc' # "read", ~Indexing'
  PROVE  Shrunk /\ Height' = k
<1>1. Height >= PhaseOne => saved >= 1
  BY DEF JInv, Buried
<1>2. Len(hashes) \in Nat /\ Len(prog) \in Nat /\ Height \in Nat /\ k \in Nat /\ saved <= Len(prog)
  BY Lengths, InRange
<1>3. /\ Len(hashes') = k
      /\ \A h \in 1 .. Len(hashes') : hashes'[h] = hashes[h]
      /\ \A h \in Int : h <= k => LedgerAt(h)' = LedgerAt(h)
  <2>1. /\ Len(hashes') = IF k < Height THEN k ELSE Height
        /\ \A h \in 1 .. Len(hashes') : hashes'[h] = hashes[h]
        /\ \A h \in Int : h <= k => LedgerAt(h)' = LedgerAt(h)
    BY <1>2, DbReorgFacts
  <2> QED BY <1>2, <2>1
<1>4. Len(prog') <= Len(prog) /\ \A i \in 1 .. Len(prog') : prog'[i] = prog[i]
  BY <1>2, ProgDropFacts
<1>5. k <= Len(hashes) /\ (k >= PhaseOne => saved' >= 1)
  BY <1>1, <1>2, SyncAssumption DEF Height
<1>6. \A h \in 1 .. Len(hashes') : LedgerAt(h)' = LedgerAt(h)
  BY <1>2, <1>3
<1> QED BY <1>3, <1>4, <1>5, <1>6 DEF Shrunk, Indexing, Height

LEMMA ProgShrunk ==
  ASSUME TypeOK, TypeOK', JInv, NEW k \in Nat, k >= PhaseOne, ProgReorg(k),
         UNCHANGED <<bitcoin, opi, hashes, ledger>>,
         pc' # "read", ~Indexing'
  PROVE  Shrunk /\ Height' = Height /\ ProgHeight' <= k
<1> USE SyncAssumption
<1>1. Height >= PhaseOne => saved >= 1
  BY DEF JInv, Buried
<1>2. Len(hashes) \in Nat /\ Len(prog) \in Nat /\ saved \in Nat /\ saved <= Len(prog)
  BY Lengths
<1>3. /\ Len(prog') = IF k - PhaseOne + 1 < Len(prog) THEN k - PhaseOne + 1 ELSE Len(prog)
      /\ \A i \in 1 .. Len(prog') : prog'[i] = prog[i]
      /\ saved' = IF saved < Len(prog') THEN saved ELSE Len(prog')
  BY ProgReorgFacts
<1>4. \A h : LedgerAt(h)' = LedgerAt(h)
  BY DEF LedgerAt
<1>5. Len(prog') <= Len(prog) /\ PhaseOne - 1 + Len(prog') <= k
  BY <1>2, <1>3
<1>6. saved >= 1 => saved' >= 1
  BY <1>2, <1>3
<1> QED BY <1>1, <1>2, <1>3, <1>4, <1>5, <1>6 DEF Shrunk, Indexing, Height, ProgHeight

(* An end, a start, or a step back to the top of the loop.                 *)
LEMMA RestAgreement ==
  ASSUME TypeOK, TypeOK', JInv, Shrunk, pc' \in {"down", "align"}
  PROVE  JInv'
  BY ShrunkStep DEF JInv, Agreement

LEMMA AlignAgrees ==
  ASSUME IInv, IInv', JInv, Align
  PROVE  JInv'
<1> USE SyncAssumption
<1>0. /\ TypeOK /\ TypeOK' /\ Height \in Nat /\ ProgHeight \in Int
      /\ ProgHeight = PhaseOne - 1 + Len(prog) /\ Len(prog) \in Nat
      /\ pc = "align" /\ UNCHANGED <<bitcoin, opi, booting, lastOpi, block, crashes>>
  BY Lengths DEF IInv, Align
<1>1. Height >= PhaseOne => ProgHeight >= PhaseOne
  <2>1. Height >= PhaseOne => saved >= 1
    BY DEF JInv, Buried
  <2> QED BY <1>0, <2>1, Lengths
<1>2. CASE Height = 0
  <2>1. Return /\ UNCHANGED <<db, evm, search, pending>>
    BY <1>0, <1>2 DEF Align
  <2>2. pc' \in {"clear", "next"} /\ ~Indexing' /\ pc' # "read"
    BY <2>1 DEF Return, Goto, Indexing
  <2>3. Shrunk /\ Height' = Height
    BY <1>0, <2>1, <2>2, KeptShrunk DEF db, evm
  <2>4. Buried' /\ BelowAgreed'
    BY <1>0, <2>3, ShrunkStep
  <2>5. AllAgreed'
    BY <1>2, <2>3 DEF AllAgreed
  <2>6. ~(Height' >= PhaseOne)
    BY <1>2, <2>3
  <2> QED BY <2>2, <2>4, <2>5, <2>6 DEF JInv, Agreement
<1>3. CASE Height # 0
  <2>1. pc' = "walk" /\ ~Indexing'
    BY <1>0, <1>3 DEF Align, Goto, Indexing
  <2>2. \/ /\ Height < PhaseOne \/ Height = ProgHeight
           /\ UNCHANGED <<db, evm>>
        \/ Height >= PhaseOne /\ ProgReorg(Height) /\ UNCHANGED db
        \/ Height >= PhaseOne /\ Height > ProgHeight /\ DbReorg(ProgHeight) /\ UNCHANGED evm
    BY <1>0, <1>1, <1>3 DEF Align
  <2>3. Shrunk /\ (Height' >= PhaseOne => ProgHeight' <= Height')
    <3>1. CASE (Height < PhaseOne \/ Height = ProgHeight) /\ UNCHANGED <<db, evm>>
      <4>1. Shrunk /\ Height' = Height /\ ProgHeight' = ProgHeight
        BY <1>0, <2>1, <3>1, KeptShrunk DEF db, evm
      <4> QED BY <1>0, <3>1, <4>1
    <3>2. CASE Height >= PhaseOne /\ ProgReorg(Height) /\ UNCHANGED db
      <4>1. Shrunk /\ Height' = Height /\ ProgHeight' <= Height
        BY <1>0, <2>1, <3>2, ProgShrunk DEF db
      <4> QED BY <4>1
    <3>3. CASE Height >= PhaseOne /\ Height > ProgHeight /\ DbReorg(ProgHeight) /\ UNCHANGED evm
      <4>1. ProgHeight \in 0 .. Height
        BY <1>0, <1>1, <3>3
      <4>2. Shrunk /\ Height' = ProgHeight
        BY <1>0, <2>1, <3>3, <4>1, CutShrunk DEF evm
      <4>3. ProgHeight' = ProgHeight
        BY <3>3 DEF evm, ProgHeight
      <4> QED BY <1>0, <4>2, <4>3
    <3> QED BY <2>2, <3>1, <3>2, <3>3
  <2>4. Buried' /\ BelowAgreed'
    BY <1>0, <2>3, ShrunkStep
  <2> QED BY <2>1, <2>3, <2>4 DEF JInv, Agreement
<1> QED BY <1>2, <1>3

LEMMA ExitAgrees ==
  ASSUME IInv, IInv', JInv, Exit \/ Start
  PROVE  JInv'
<1>1. /\ UNCHANGED <<bitcoin, opi, hashes, ledger, prog, saved>>
      /\ pc' \in {"down", "align"} /\ pc' # "read" /\ ~Indexing'
  BY DEF Exit, Start, Goto, db, evm, Indexing
<1> QED BY <1>1, KeptShrunk, RestAgreement DEF IInv

(* A common block: what lies below it agrees already.                      *)
LEMMA FoundAgrees ==
  ASSUME IInv, JInv, pc = "walk", Known, Matches
  PROVE  /\ at \in 1 .. Height /\ from = Height
         /\ \A h \in PhaseOne .. at : h <= ProgHeight => Agreed(h)
<1> USE SyncAssumption
<1>0. at \in 1 .. Height /\ from = Height /\ Height \in Nat /\ ProgHeight \in Int
  BY Lengths DEF IInv, Control
<1>1. ASSUME NEW h \in PhaseOne .. at, h <= ProgHeight PROVE Agreed(h)
  <2>1. at >= PhaseOne /\ h <= at /\ h \in PhaseOne .. Height
    BY <1>0, <1>1
  <2>2. at <= ProgHeight /\ ProgBlock(at).h = at
    BY <2>1 DEF Known, Matches, HasProg
  <2>3. h < ProgHeight \/ (h = ProgHeight /\ ProgBlock(h).h = h)
    BY <1>0, <2>1, <2>2
  <2> QED BY <2>1, <2>3 DEF JInv, Agreement, BelowAgreed
<1> QED BY <1>0, <1>1

LEMMA WalkAgrees ==
  ASSUME IInv, IInv', JInv, WalkFound \/ WalkDiffers \/ WalkFails
  PROVE  JInv'
<1> USE SyncAssumption
<1>0. /\ TypeOK /\ TypeOK' /\ Height \in Nat /\ ProgHeight \in Int
      /\ pc = "walk" /\ at \in 1 .. Height /\ from = Height
      /\ Height >= PhaseOne => ProgHeight <= Height
  <2>1. pc = "walk"
    BY DEF WalkFound, WalkDiffers, WalkFails
  <2> QED BY <2>1, Lengths DEF IInv, Control, JInv, Agreement
<1>1. CASE WalkFound
  <2>0. Known /\ Matches /\ UNCHANGED <<bitcoin, opi, evm, booting, search, lastOpi, block, crashes>>
    BY <1>1 DEF WalkFound
  <2>1. \A h \in PhaseOne .. at : h <= ProgHeight => Agreed(h)
    BY <1>0, <2>0, FoundAgrees
  <2>2. CASE at = from
    <3>1. Return /\ UNCHANGED <<db, pending>>
      BY <1>1, <2>2 DEF WalkFound
    <3>2. pc' \in {"clear", "next"} /\ ~Indexing' /\ pc' # "read"
      BY <3>1 DEF Return, Goto, Indexing
    <3>3. Shrunk /\ Height' = Height /\ ProgHeight' = ProgHeight
      BY <1>0, <2>0, <3>1, <3>2, KeptShrunk DEF db, evm
    <3>4. AllAgreed
      BY <1>0, <2>1, <2>2 DEF AllAgreed
    <3>5. Buried' /\ BelowAgreed' /\ AllAgreed'
      BY <1>0, <3>3, <3>4, ShrunkStep
    <3> QED BY <1>0, <3>2, <3>3, <3>5 DEF JInv, Agreement
  <2>3. CASE at # from
    <3>1. DbReorg(at) /\ IF at >= PhaseOne THEN pc' = "prog" ELSE Return
      BY <1>1, <2>3 DEF WalkFound, Goto
    <3>2. pc' \in {"prog", "clear", "next"} /\ ~Indexing' /\ pc' # "read"
      BY <3>1 DEF Return, Goto, Indexing
    <3>3. at \in 0 .. Height /\ at \in Nat
      BY <1>0
    <3>4. Shrunk /\ Height' = at
      BY <1>0, <2>0, <3>1, <3>2, <3>3, CutShrunk DEF evm
    <3>5. Buried' /\ BelowAgreed'
      BY <1>0, <3>4, ShrunkStep
    <3>6. AllAgreed'
      <4> SUFFICES ASSUME NEW h \in PhaseOne .. at, h <= ProgHeight PROVE Agreed(h)'
        BY <2>0, <3>4 DEF AllAgreed, ProgHeight, evm
      <4>1. Agreed(h)
        BY <2>1
      <4>2. hashes'[h] = hashes[h] /\ LedgerAt(h)' = LedgerAt(h)
        BY <3>3, <3>4 DEF Shrunk, Height
      <4>3. ProgBlock(h)' = ProgBlock(h)
        BY <2>0 DEF ProgBlock, evm
      <4> QED BY <4>1, <4>2, <4>3 DEF Agreed, ProgAt
    <3>7. CASE at >= PhaseOne
      <4>1. pc' = "prog" /\ at' = at
        BY <2>0, <3>1, <3>7 DEF search
      <4> QED BY <3>4, <3>5, <3>6, <4>1 DEF JInv, Agreement
    <3>8. CASE ~(at >= PhaseOne)
      BY <3>2, <3>4, <3>5, <3>6, <3>8 DEF JInv, Agreement
    <3> QED BY <3>7, <3>8
  <2> QED BY <2>2, <2>3
<1>2. CASE WalkDiffers /\ at # 1
  <2>1. UNCHANGED <<bitcoin, opi, db, evm, pc>>
    BY <1>2 DEF WalkDiffers, Goto
  <2>2. pc' = "walk" /\ ~Indexing' /\ pc' # "read"
    BY <1>0, <2>1 DEF Indexing
  <2>3. Shrunk /\ Height' = Height /\ ProgHeight' = ProgHeight
    BY <1>0, <2>1, <2>2, KeptShrunk DEF db, evm
  <2>4. Buried' /\ BelowAgreed'
    BY <1>0, <2>3, ShrunkStep
  <2> QED BY <1>0, <2>2, <2>3, <2>4 DEF JInv, Agreement
<1>3. CASE WalkDiffers /\ at = 1
  <2>1. /\ Known /\ ~Matches /\ at = 1 /\ DbReorg(1) /\ at' = PhaseOne /\ pc' = "prog"
        /\ UNCHANGED <<bitcoin, opi, evm>>
    BY <1>3 DEF WalkDiffers, Goto
  <2>2. PhaseOne # 1
    <3> SUFFICES ASSUME PhaseOne = 1 PROVE Matches
      BY <2>1
    <3>1. Height >= PhaseOne /\ saved >= 1
      BY <1>0, <2>1 DEF JInv, Buried
    <3>2. prog # <<>>
      BY <1>0, <3>1, Lengths
    <3>3. /\ opi[1] = best[1] /\ hashes[1] = best[1] /\ prog[1] = FirstProg
      BY <3>1, <3>2 DEF JInv, Buried
    <3>4. ProgBlock(at) = FirstProg
      BY <2>1, <3>3 DEF ProgBlock
    <3> QED BY <2>1, <3>3, <3>4 DEF Matches, FirstProg
  <2>3. 1 \in 0 .. Height /\ ~Indexing' /\ pc' # "read"
    BY <1>0, <2>1 DEF Indexing
  <2>4. Shrunk /\ Height' = 1
    BY <1>0, <2>1, <2>3, CutShrunk DEF evm
  <2>5. Buried' /\ BelowAgreed'
    BY <1>0, <2>4, ShrunkStep
  <2>6. ~(Height' >= PhaseOne)
    BY <2>2, <2>4
  <2>7. AllAgreed'
    BY <2>2, <2>4 DEF AllAgreed
  <2> QED BY <2>1, <2>5, <2>6, <2>7 DEF JInv, Agreement
<1>4. CASE WalkFails
  BY <1>4, ExitAgrees DEF WalkFails
<1> QED BY <1>1, <1>2, <1>3, <1>4

LEMMA ReorgProgAgrees ==
  ASSUME IInv, IInv', JInv, ReorgProg
  PROVE  JInv'
<1>0. /\ TypeOK /\ TypeOK' /\ Height \in Nat
      /\ pc = "prog" /\ ProgReorg(at) /\ at \in Nat /\ at >= PhaseOne
      /\ UNCHANGED <<bitcoin, opi, hashes, ledger>>
      /\ pc' \in {"clear", "next"} /\ ~Indexing' /\ pc' # "read"
  <2>1. pc = "prog" /\ ProgReorg(at) /\ Return /\ UNCHANGED <<bitcoin, opi, db>>
    BY DEF ReorgProg
  <2>2. at \in Nat /\ at >= PhaseOne
    BY <2>1 DEF IInv, TypeOK, Control
  <2> QED BY <2>1, <2>2, Lengths DEF IInv, Return, Goto, Indexing, db
<1>1. Shrunk /\ Height' = Height /\ ProgHeight' <= at
  BY <1>0, ProgShrunk
<1>2. Height >= PhaseOne => at = Height
  BY <1>0 DEF JInv, Agreement
<1>3. AllAgreed
  BY <1>0 DEF JInv, Agreement
<1>4. Buried' /\ BelowAgreed' /\ AllAgreed'
  BY <1>0, <1>1, <1>3, ShrunkStep
<1> QED BY <1>0, <1>1, <1>2, <1>4 DEF JInv, Agreement

LEMMA ClearCachesAgrees ==
  ASSUME IInv, IInv', JInv, ClearCaches
  PROVE  JInv'
<1>0. /\ TypeOK /\ TypeOK' /\ Height \in Nat /\ ProgHeight = PhaseOne - 1 + Len(prog)
      /\ Len(prog) \in Nat /\ saved \in Nat /\ saved <= Len(prog)
  BY Lengths DEF IInv
<1>1. /\ pc = "clear" /\ prog' = Prefix(prog, saved) /\ UNCHANGED <<bitcoin, opi, saved>>
      /\ pc' \in {"prog residue", "align"} /\ ~Indexing' /\ pc' # "read"
  BY DEF ClearCaches, Goto, Indexing
<1>2. UNCHANGED db \/ DbReorg(Height)
  BY DEF ClearCaches
<1>3. Len(prog') = saved /\ \A i \in 1 .. Len(prog') : prog'[i] = prog[i]
  BY <1>0, <1>1, ProgDropFacts
<1>4. Shrunk /\ Height' = Height
  <2>1. CASE DbReorg(Height)
    <3>1. Height \in 0 .. Height
      BY <1>0
    <3> QED BY <1>0, <1>1, <2>1, <3>1, CutShrunk
  <2>2. CASE UNCHANGED db
    <3>1. Height >= PhaseOne => saved >= 1
      BY DEF JInv, Buried
    <3>2. \A h : LedgerAt(h)' = LedgerAt(h)
      BY <2>2 DEF LedgerAt, db
    <3>3. hashes' = hashes /\ Height' = Height
      BY <2>2 DEF db, Height
    <3>4. Len(hashes) = Height /\ saved' = saved
      BY <1>1 DEF Height
    <3>5. /\ Len(hashes') <= Len(hashes) /\ \A h \in 1 .. Len(hashes') : hashes'[h] = hashes[h]
          /\ Len(prog') <= Len(prog) /\ (Len(hashes') >= PhaseOne => saved' >= 1)
      BY <1>0, <1>3, <3>1, <3>3, <3>4
    <3>6. pc' # "hashes"
      BY <1>1
    <3> QED BY <1>1, <1>3, <3>2, <3>3, <3>5, <3>6 DEF Shrunk
  <2> QED BY <1>2, <2>1, <2>2
<1>5. AllAgreed /\ (Height >= PhaseOne => ProgHeight <= Height)
  BY <1>1 DEF JInv, Agreement
<1>6. Buried' /\ BelowAgreed' /\ AllAgreed'
  BY <1>0, <1>4, <1>5, ShrunkStep
<1>7. Height' >= PhaseOne => ProgHeight' <= Height'
  <2>1. ProgHeight' = PhaseOne - 1 + saved
    BY <1>3 DEF ProgHeight
  <2> QED BY <1>0, <1>4, <1>5, <2>1, SyncAssumption
<1> QED BY <1>1, <1>6, <1>7 DEF JInv, Agreement

LEMMA ReorgResidueAgrees ==
  ASSUME IInv, IInv', JInv, ReorgResidue
  PROVE  JInv'
<1>1. /\ pc = "prog residue" /\ ProgReorg(at) /\ UNCHANGED <<bitcoin, opi, hashes, ledger>>
      /\ pc' = "align" /\ ~Indexing' /\ pc' # "read"
  BY DEF ReorgResidue, Loop, Goto, Indexing, db
<1>2. at \in Nat /\ at >= PhaseOne
  BY <1>1 DEF IInv, TypeOK, Control
<1> QED BY <1>1, <1>2, ProgShrunk, RestAgreement DEF IInv

LEMMA WaitAgrees ==
  ASSUME IInv, IInv', JInv, Wait
  PROVE  JInv'
<1>1. /\ UNCHANGED <<bitcoin, opi, hashes, ledger, prog, saved>>
      /\ pc' = "align" /\ ~Indexing' /\ pc' # "read"
  BY DEF Wait, Loop, Goto, Indexing, db, evm
<1> QED BY <1>1, KeptShrunk, RestAgreement DEF IInv

LEMMA ProgCrashAgrees ==
  ASSUME IInv, IInv', JInv, ProgCrash
  PROVE  JInv'
<1> USE SyncAssumption
<1>0. /\ TypeOK /\ TypeOK' /\ Height \in Nat /\ Len(hashes) \in Nat
      /\ ProgHeight \in Int /\ Len(prog) \in Nat
      /\ saved \in Nat /\ saved <= Len(prog)
      /\ prog' = Prefix(prog, saved) /\ UNCHANGED <<bitcoin, opi, db, saved, pc, search, memory>>
  BY Lengths DEF IInv, ProgCrash
<1>1. /\ Len(prog') = saved /\ \A i \in 1 .. Len(prog') : prog'[i] = prog[i]
      /\ prog' \in Seq([h : 1 .. MaxHeight, hash : Fork, txs : Block])
  BY <1>0, ProgDropFacts
<1>2. ProgHeight' = PhaseOne - 1 + saved /\ Height' = Height /\ ProgHeight' <= ProgHeight
  BY <1>0, <1>1 DEF ProgHeight, Height, db
<1>3. Shrunk
  <2>1. Height >= PhaseOne => saved >= 1
    BY DEF JInv, Buried
  <2>2. \A h : LedgerAt(h)' = LedgerAt(h)
    BY <1>0 DEF LedgerAt, db
  <2>3. prog' # <<>> => saved >= 1
    BY <1>0, <1>1, EmptySeq
  <2> QED BY <1>0, <1>1, <2>1, <2>2, <2>3 DEF Shrunk, Height, db, memory
<1>4. Buried' /\ BelowAgreed' /\ (AllAgreed => AllAgreed')
  BY <1>0, <1>3, ShrunkStep
<1>5. pc' = pc /\ at' = at /\ block' = block
  BY <1>0 DEF search, memory
<1>6. pc' \in {"commit", "hashes"} /\ Height' >= PhaseOne /\ HasProg(block.h)' =>
       ProgBlock(block.h)' =
         [h |-> block.h, hash |-> block.hash, txs |-> Transfers(block.h, block.txs)]'
  <2> SUFFICES ASSUME pc \in {"commit", "hashes"}, Height >= PhaseOne, HasProg(block.h)'
               PROVE  ProgBlock(block.h)' =
                       [h |-> block.h, hash |-> block.hash, txs |-> Transfers(block.h, block.txs)]'
    BY <1>2, <1>5
  <2>1. block.h \in Nat
    BY NextBlock DEF Indexing
  <2>2. block.h >= PhaseOne /\ block.h <= PhaseOne - 1 + saved
    BY <1>2, <1>5 DEF HasProg
  <2>3. HasProg(block.h)
    BY <1>0, <2>1, <2>2, Lengths DEF HasProg
  <2>4. prog'[block.h - PhaseOne + 1] = prog[block.h - PhaseOne + 1]
    BY <1>0, <1>1, <2>1, <2>2
  <2>5. ProgBlock(block.h) = [h |-> block.h, hash |-> block.hash, txs |-> Transfers(block.h, block.txs)]
    BY <2>3 DEF JInv, Agreement
  <2> QED BY <1>5, <2>4, <2>5 DEF ProgBlock, Transfers, IsQuiet
<1>7. Height >= PhaseOne /\ ProgHeight <= Height => ProgHeight' <= Height'
  BY <1>0, <1>2
<1>8. Height' = Height
  BY <1>2
<1> QED BY <1>4, <1>5, <1>6, <1>7, <1>8 DEF JInv, Agreement

-----------------------------------------------------------------------------
LEMMA ConcatFacts ==
  ASSUME NEW S, NEW s \in Seq(S), NEW t \in Seq(S)
  PROVE  /\ Len(s \o t) = Len(s) + Len(t)
         /\ \A i \in 1 .. Len(s) + Len(t) :
              (s \o t)[i] = IF i <= Len(s) THEN s[i] ELSE t[i - Len(s)]
OBVIOUS

LEMMA OutsideBuried ==
  ASSUME PhaseOneBuried, TypeOK, Buried, Outside
  PROVE  /\ PhaseOne <= Len(opi) => PhaseOne <= Len(opi') /\ best'[PhaseOne] = best[PhaseOne]
         /\ PhaseOne <= Len(opi') => PhaseOne <= Len(best') /\ opi'[PhaseOne] = best'[PhaseOne]
<1>0. /\ PhaseOne \in Nat /\ PhaseOne >= 1 /\ Final \in Nat /\ PhaseOne <= Final
      /\ best \in Seq(Fork) /\ opi \in Seq(Fork)
  <2>1. best \in Seq(Fork) /\ opi \in Seq(Fork)
    BY DEF TypeOK
  <2> QED BY <2>1, SyncAssumption DEF PhaseOneBuried
<1>1. Len(best) \in Nat /\ Len(opi) \in Nat
  BY <1>0
<1>2. PhaseOne <= Len(opi) => PhaseOne <= Len(best) /\ opi[PhaseOne] = best[PhaseOne]
  BY DEF Buried
<1>3. CASE OpiIndex
  <2>1. best' = best /\ opi' = Append(opi, best[Len(opi) + 1]) /\ Len(opi) < Len(best)
    BY <1>3 DEF OpiIndex, bitcoin
  <2>2. best[Len(opi) + 1] \in Fork
    BY <1>0, <1>1, <2>1, ElementOfSeq
  <2>3. /\ Len(opi') = Len(opi) + 1
        /\ \A i \in 1 .. Len(opi) : opi'[i] = opi[i]
        /\ opi'[Len(opi) + 1] = best[Len(opi) + 1]
    BY <1>0, <2>1, <2>2
  <2> QED BY <1>0, <1>1, <1>2, <2>1, <2>3
<1>4. CASE \E k \in 0 .. MaxHeight : OpiRestore(k)
  <2>1. PICK k \in 0 .. MaxHeight : OpiRestore(k)
    BY <1>4
  <2>2. best' = best /\ opi' = Prefix(opi, k) /\ k >= Final /\ k < Len(opi) /\ k \in Int
    BY <2>1 DEF OpiRestore, bitcoin
  <2>3. /\ k >= 0 => Len(Prefix(opi, k)) = IF k < Len(opi) THEN k ELSE Len(opi)
        /\ \A i \in 1 .. Len(Prefix(opi, k)) : Prefix(opi, k)[i] = opi[i]
    BY <1>0, <2>2, PrefixFacts
  <2> QED BY <1>0, <1>1, <1>2, <2>2, <2>3
<1>5. CASE Mine
  <2>1. opi' = opi /\ best' = Append(best, fork) /\ fork \in Fork
    BY <1>5 DEF Mine, TypeOK
  <2>2. Len(best') = Len(best) + 1 /\ \A i \in 1 .. Len(best) : best'[i] = best[i]
    BY <1>0, <2>1
  <2> QED BY <1>0, <1>1, <1>2, <2>1, <2>2
<1>6. CASE \E k \in 0 .. MaxHeight : BitcoinReorg(k)
  <2>1. PICK k \in 0 .. MaxHeight : BitcoinReorg(k)
    BY <1>6
  <2> DEFINE new == [i \in 1 .. Len(best) - k |-> fork + 1]
  <2>2. /\ opi' = opi /\ best' = Prefix(best, k) \o new
        /\ k >= Final /\ k < Len(best) /\ k \in Int /\ fork < Forks /\ fork \in Fork
    <3>1. opi' = opi /\ best' = Prefix(best, k) \o new /\ k >= Final /\ k < Len(best) /\ fork < Forks
      BY <2>1 DEF BitcoinReorg
    <3>2. fork \in Fork
      BY DEF TypeOK
    <3> QED BY <3>1, <3>2
  <2>3. fork + 1 \in Fork /\ Len(best) - k \in Nat
    BY <1>1, <2>2, SyncAssumption DEF Fork
  <2>4. new \in Seq(Fork) /\ Len(new) = Len(best) - k
    BY <2>3
  <2> HIDE DEF new
  <2>5. /\ Prefix(best, k) \in Seq(Fork)
        /\ k >= 0 => Len(Prefix(best, k)) = IF k < Len(best) THEN k ELSE Len(best)
        /\ \A i \in 1 .. Len(Prefix(best, k)) : Prefix(best, k)[i] = best[i]
    BY <1>0, <2>2, PrefixFacts
  <2>6. Len(Prefix(best, k)) = k
    BY <1>0, <1>1, <2>2, <2>5
  <2>7. /\ Len(best') = k + (Len(best) - k)
        /\ \A i \in 1 .. k + (Len(best) - k) : best'[i] = IF i <= k THEN Prefix(best, k)[i] ELSE new[i - k]
    <3>1. Prefix(best, k) \in Seq(Fork) /\ new \in Seq(Fork)
      BY <2>4, <2>5
    <3>2. /\ Len(Prefix(best, k) \o new) = Len(Prefix(best, k)) + Len(new)
          /\ \A i \in 1 .. Len(Prefix(best, k)) + Len(new) :
               (Prefix(best, k) \o new)[i] =
                 IF i <= Len(Prefix(best, k)) THEN Prefix(best, k)[i] ELSE new[i - Len(Prefix(best, k))]
      BY <3>1, ConcatFacts
    <3> QED BY <2>2, <2>4, <2>6, <3>2
  <2>8. PhaseOne \in 1 .. k /\ PhaseOne \in 1 .. k + (Len(best) - k) /\ k + (Len(best) - k) = Len(best)
    BY <1>0, <1>1, <2>2
  <2>9. best'[PhaseOne] = best[PhaseOne] /\ Len(best') = Len(best)
    BY <2>5, <2>6, <2>7, <2>8
  <2> QED BY <1>2, <2>2, <2>9
<1> QED BY <1>3, <1>4, <1>5, <1>6 DEF Outside, OrdStep

LEMMA KeptAgreed ==
  ASSUME TypeOK, UNCHANGED <<hashes, prog>>, \A h \in 1 .. Height : LedgerAt(h)' = LedgerAt(h)
  PROVE  /\ BelowAgreed' <=> BelowAgreed
         /\ AllAgreed' <=> AllAgreed
         /\ Height' = Height /\ ProgHeight' = ProgHeight
<1>1. Height' = Height /\ ProgHeight' = ProgHeight /\ Height \in Nat
  BY Lengths DEF Height, ProgHeight
<1>2. ASSUME NEW h \in PhaseOne .. Height
      PROVE  (Agreed(h)' <=> Agreed(h)) /\ ProgBlock(h)' = ProgBlock(h)
  <2>1. h \in 1 .. Height
    BY <1>1, SyncAssumption
  <2>2. ProgBlock(h)' = ProgBlock(h)
    BY DEF ProgBlock
  <2> QED BY <2>1, <2>2 DEF Agreed, ProgAt
<1> QED BY <1>1, <1>2 DEF BelowAgreed, AllAgreed

LEMMA OutsideAgrees ==
  ASSUME PhaseOneBuried, IInv, JInv, Outside
  PROVE  JInv'
<1>1. UNCHANGED indexer
  BY OutsideFacts DEF IInv
<1>2. /\ PhaseOne <= Len(opi) => PhaseOne <= Len(opi') /\ best'[PhaseOne] = best[PhaseOne]
      /\ PhaseOne <= Len(opi') => PhaseOne <= Len(best') /\ opi'[PhaseOne] = best'[PhaseOne]
  BY OutsideBuried DEF IInv, JInv
<1> USE <1>1 DEF indexer, db, evm, search, memory
<1>3. PhaseOne <= Len(opi) => FirstProg' = FirstProg
  BY <1>2 DEF FirstProg, Transfers, IsQuiet
<1>4. Indexing' <=> Indexing
  BY DEF Indexing
<1>5. LedgerAt(PhaseOne)' = LedgerAt(PhaseOne) /\ \A h \in 1 .. Height : LedgerAt(h)' = LedgerAt(h)
  BY DEF LedgerAt
<1>6. Height' = Height
  BY DEF Height
<1>7. Buried'
  BY <1>2, <1>3, <1>4, <1>5, <1>6 DEF JInv, Buried
<1>8. /\ BelowAgreed' <=> BelowAgreed
      /\ AllAgreed' <=> AllAgreed
      /\ ProgHeight' = ProgHeight
  BY <1>5, KeptAgreed DEF IInv
<1>9. Agreement'
  BY <1>6, <1>8 DEF JInv, Agreement, HasProg, ProgBlock, Transfers, IsQuiet
<1> QED BY <1>7, <1>9 DEF JInv
(* The next block is read and flushed: its hash and its transfers are      *)
(* those of Bitcoin's block when it is the one of phase one.               *)
LEMMA QuietAgrees ==
  ASSUME IInv, JInv, UNCHANGED <<bitcoin, opi, hashes, prog, saved>>,
         \A h \in 1 .. Height : LedgerAt(h)' = LedgerAt(h),
         pc \in {"next", "read", "flush"}, pc' \in {"read", "flush", "finalise"},
         block'.h = PhaseOne => PhaseOne <= Len(opi) /\ block'.hash = best[PhaseOne],
         Indexing' /\ block'.h = PhaseOne => block'.txs = best[PhaseOne]
  PROVE  JInv'
<1>1. /\ BelowAgreed' <=> BelowAgreed
      /\ AllAgreed' <=> AllAgreed
      /\ Height' = Height /\ ProgHeight' = ProgHeight
  BY KeptAgreed DEF IInv
<1>2. best' = best /\ opi' = opi /\ hashes' = hashes /\ prog' = prog /\ saved' = saved
  BY DEF bitcoin
<1>3. Height >= PhaseOne => LedgerAt(PhaseOne)' = LedgerAt(PhaseOne)
  <2>1. Height \in Nat
    BY Lengths DEF IInv
  <2> QED BY <2>1, SyncAssumption
<1>4. FirstProg' = FirstProg
  BY <1>2 DEF FirstProg, Transfers, IsQuiet
<1>5. Buried'
  BY <1>1, <1>2, <1>3, <1>4 DEF JInv, Buried
<1>6. Agreement'
  BY <1>1 DEF JInv, Agreement
<1> QED BY <1>5, <1>6 DEF JInv

LEMMA ReadHashAgrees ==
  ASSUME IInv, IInv', JInv, ReadHash
  PROVE  JInv'
<1>1. CASE Exit
  BY <1>1, ExitAgrees
<1>2. CASE Height + 1 <= Len(opi)
  <2>1. /\ pc = "next" /\ pc' = "read"
        /\ block' = [h |-> Height + 1, hash |-> opi[Height + 1], txs |-> NoBlock]
        /\ UNCHANGED <<bitcoin, opi, db, evm>>
    BY <1>2 DEF ReadHash, Goto
  <2>2. block'.h = PhaseOne => PhaseOne <= Len(opi) /\ block'.hash = best[PhaseOne]
    BY <1>2, <2>1 DEF JInv, Buried
  <2>3. /\ UNCHANGED <<bitcoin, opi, hashes, prog, saved>>
        /\ \A h : LedgerAt(h)' = LedgerAt(h)
        /\ ~Indexing'
    BY <2>1 DEF db, evm, LedgerAt, Indexing
  <2> QED BY <2>1, <2>2, <2>3, QuietAgrees
<1> QED BY <1>1, <1>2 DEF ReadHash

LEMMA ReadTransfersAgrees ==
  ASSUME IInv, JInv, ReadTransfers
  PROVE  JInv'
<1> DEFINE txs == IF block.h <= Len(opi) THEN opi[block.h] ELSE NoBlock
<1>1. /\ pc = "read" /\ pc' \in {"flush", "finalise"}
      /\ block' = [block EXCEPT !.txs = txs]
      /\ UNCHANGED <<bitcoin, opi, hashes, ledger, prog, saved>>
  BY DEF ReadTransfers, Goto, db
<1>2. block'.h = block.h /\ block'.hash = block.hash /\ block'.txs = txs
  BY <1>1, NextBlock
<1>3. \A h : LedgerAt(h)' = LedgerAt(h)
  BY <1>1 DEF LedgerAt
<1>4. block.h = PhaseOne =>
        PhaseOne <= Len(opi) /\ block.hash = best[PhaseOne] /\ opi[PhaseOne] = best[PhaseOne]
  BY <1>1 DEF JInv, Buried
<1>5. block.h = PhaseOne => txs = best[PhaseOne]
  BY <1>4
<1> HIDE DEF txs
<1> QED BY <1>1, <1>2, <1>3, <1>4, <1>5, QuietAgrees

LEMMA FlushAgrees ==
  ASSUME IInv, JInv, Flush
  PROVE  JInv'
<1>1. /\ pc = "flush" /\ pc' = "finalise" /\ Indexing
      /\ UNCHANGED <<bitcoin, opi, hashes, prog, saved, block>>
      /\ ledger' = ledger (+) pending
  BY DEF Flush, Goto, Indexing, evm
<1>2. \A h \in 1 .. Height : LedgerAt(h)' = LedgerAt(h)
  <2>1. /\ IsABag(ledger) /\ IsABag(pending) /\ Height \in Nat
        /\ \A e \in Rows(pending) : e.h <= Height => e.b = NoBlock
    BY Shapes DEF IInv, TypeOK, Entries
  <2>2. Rows(ledger') = Rows(ledger) \cup Rows(pending)
    BY <1>1, <2>1, BagUnionType
  <2>3. ASSUME NEW h \in 1 .. Height PROVE LedgerAt(h)' = LedgerAt(h)
    <3>1. {e.b : e \in {f \in Rows(ledger') : f.h = h}} \ {NoBlock}
            = {e.b : e \in {f \in Rows(ledger) : f.h = h}} \ {NoBlock}
      <4>1. \A e \in Rows(pending) : e.h = h => e.b = NoBlock
        BY <2>1
      <4> QED BY <2>2, <4>1
    <3> QED BY <3>1 DEF LedgerAt, Rows
  <2> QED BY <2>3
<1>3. block.h = PhaseOne =>
        PhaseOne <= Len(opi) /\ block.hash = best[PhaseOne] /\ block.txs = best[PhaseOne]
  BY <1>1 DEF JInv, Buried
<1> QED BY <1>1, <1>2, <1>3, QuietAgrees

LEMMA InitJInv == Init => JInv
<1> SUFFICES ASSUME Init PROVE JInv
  OBVIOUS
<1> USE SyncAssumption
<1>1. /\ opi = <<>> /\ prog = <<>> /\ pc = "down" /\ ~Indexing
      /\ Len(opi) = 0 /\ Height = 0
  BY DEF Init, Indexing, Height
<1>2. Buried
  BY <1>1 DEF Buried
<1>3. Agreement
  BY <1>1 DEF Agreement, BelowAgreed
<1> QED BY <1>2, <1>3 DEF JInv

LEMMA StutterAgrees ==
  ASSUME IInv, JInv, UNCHANGED vars
  PROVE  JInv'
<1> USE DEF vars, bitcoin, db, evm, search, memory
<1>1. \A h : LedgerAt(h)' = LedgerAt(h)
  BY DEF LedgerAt
<1>2. /\ BelowAgreed' <=> BelowAgreed
      /\ AllAgreed' <=> AllAgreed
      /\ Height' = Height /\ ProgHeight' = ProgHeight
  BY <1>1, KeptAgreed DEF IInv
<1>3. FirstProg' = FirstProg /\ (Indexing' <=> Indexing)
  BY DEF FirstProg, Transfers, IsQuiet, Indexing
<1>4. Buried'
  BY <1>1, <1>2, <1>3 DEF JInv, Buried
<1>5. Agreement'
  BY <1>2 DEF JInv, Agreement, HasProg, ProgBlock, Transfers, IsQuiet
<1> QED BY <1>4, <1>5 DEF JInv
-----------------------------------------------------------------------------
(* brc20_prog appends the block being indexed: it is the next one of the   *)
(* EVM, or the EVM stays behind.                                           *)
LEMMA SentAgrees ==
  ASSUME PhaseOneBuried, IInv, JInv, pc = "finalise", block.h >= PhaseOne,
         UNCHANGED <<bitcoin, opi, db, saved, block>>,
         prog' = Append(prog, [h |-> block.h, hash |-> block.hash,
                               txs |-> Transfers(block.h, block.txs)]),
         pc' = IF block.h = lastOpi \/ block.h % CommitEvery = 0 THEN "commit" ELSE "hashes"
  PROVE  JInv'
<1> USE SyncAssumption
<1> DEFINE B == [h |-> block.h, hash |-> block.hash, txs |-> Transfers(block.h, block.txs)]
<1>0. /\ TypeOK /\ Height \in Nat /\ Len(prog) \in Nat /\ ProgHeight = PhaseOne - 1 + Len(prog)
      /\ (prog # <<>> <=> Len(prog) >= 1) /\ saved \in Nat /\ saved <= Len(prog)
      /\ Indexing /\ block.h = Height + 1
  BY Lengths, NextBlock DEF IInv, Indexing
<1>1. B.h = block.h
  OBVIOUS
<1>2. /\ Len(prog') = Len(prog) + 1
      /\ \A i \in 1 .. Len(prog) : prog'[i] = prog[i]
      /\ prog'[Len(prog) + 1] = B
  <2>1. prog \in Seq([h : 1 .. MaxHeight, hash : Fork, txs : Block])
    BY <1>0, Shapes
  <2>2. B \in [h : 1 .. MaxHeight, hash : Fork, txs : Block]
    BY <1>0, NextBlock
  <2>3. prog' = Append(prog, B)
    OBVIOUS
  <2> HIDE DEF B
  <2> QED BY <2>1, <2>2, <2>3
<1>3. B = [h |-> block.h, hash |-> block.hash, txs |-> Transfers(block.h, block.txs)]
  OBVIOUS
<1> HIDE DEF B
<1>4. /\ best' = best /\ opi' = opi /\ hashes' = hashes /\ saved' = saved /\ block' = block
      /\ Height' = Height /\ pc' \in {"commit", "hashes"}
      /\ \A h : LedgerAt(h)' = LedgerAt(h)
  BY DEF bitcoin, db, Height, LedgerAt
<1>5. FirstProg' = FirstProg
  BY <1>4 DEF FirstProg, Transfers, IsQuiet
<1>6. /\ block.h = PhaseOne =>
           /\ PhaseOne <= Len(opi) /\ block.hash = best[PhaseOne] /\ block.txs = best[PhaseOne]
           /\ B = FirstProg
  BY <1>0, <1>3 DEF JInv, Buried, FirstProg
<1>7. PhaseOne <= Len(opi) /\ prog'[1] = FirstProg
  <2>1. CASE prog = <<>>
    <3>1. ~(Height >= PhaseOne)
      BY <1>0, <2>1 DEF JInv, Buried
    <3>2. block.h = PhaseOne /\ Len(prog) = 0
      BY <1>0, <2>1, <3>1
    <3> QED BY <1>2, <1>6, <3>2
  <2>2. CASE prog # <<>>
    <3>1. PhaseOne <= Len(opi) /\ prog[1] = FirstProg
      BY <2>2 DEF JInv, Buried
    <3> QED BY <1>0, <1>2, <2>2, <3>1
  <2> QED BY <2>1, <2>2
<1>8. pc' = "hashes" => block.h # PhaseOne
  BY DEF PhaseOneBuried
<1>9. Buried'
  <2>1. /\ PhaseOne <= Len(opi) => PhaseOne <= Len(best) /\ opi[PhaseOne] = best[PhaseOne]
        /\ Height >= PhaseOne =>
             /\ PhaseOne <= Len(opi) /\ hashes[PhaseOne] = best[PhaseOne]
             /\ LedgerAt(PhaseOne) = {FirstProg.txs} \ {NoBlock}
             /\ saved >= 1
    BY DEF JInv, Buried
  <2> QED BY <1>4, <1>5, <1>6, <1>7, <1>8, <2>1 DEF Buried
<1>10. /\ ProgHeight' = ProgHeight + 1
       /\ AllAgreed
       /\ Height >= PhaseOne => ProgHeight <= Height
  BY <1>0, <1>2 DEF ProgHeight, JInv, Agreement
<1>11. BelowAgreed'
  <2> SUFFICES ASSUME NEW h \in PhaseOne .. Height,
                      h < ProgHeight' \/ (h = ProgHeight' /\ ProgBlock(h)'.h = h)
               PROVE  Agreed(h)'
    BY <1>4 DEF BelowAgreed
  <2>1. CASE h <= ProgHeight
    <3>1. h - PhaseOne + 1 \in 1 .. Len(prog)
      BY <1>0, <2>1
    <3>2. ProgBlock(h)' = ProgBlock(h)
      BY <1>2, <3>1 DEF ProgBlock
    <3>3. Agreed(h)
      BY <1>10, <2>1 DEF AllAgreed
    <3> QED BY <1>4, <3>2, <3>3 DEF Agreed, ProgAt
  <2>2. CASE h = ProgHeight + 1
    <3>1. h - PhaseOne + 1 = Len(prog) + 1
      BY <1>0, <2>2
    <3>2. ProgBlock(h)' = B
      BY <1>2, <3>1 DEF ProgBlock
    <3>3. ProgBlock(h)'.h # h
      BY <1>0, <1>1, <3>2
    <3>4. ~(h < ProgHeight')
      BY <1>0, <1>10, <2>2
    <3> QED BY <3>3, <3>4
  <2> QED BY <1>0, <1>10, <2>1, <2>2
<1>12. Height >= PhaseOne /\ HasProg(block.h)' => ProgBlock(block.h)' = B
  <2> SUFFICES ASSUME Height >= PhaseOne, block.h <= ProgHeight + 1 PROVE ProgBlock(block.h)' = B
    BY <1>4, <1>10 DEF HasProg
  <2>a. ProgHeight <= Height
    BY <1>10
  <2>b. /\ Height \in Nat /\ Len(prog) \in Nat /\ block.h = Height + 1
        /\ ProgHeight = PhaseOne - 1 + Len(prog) /\ PhaseOne \in Nat
    BY <1>0
  <2>c. \A x, y, n \in Nat : x + 1 <= PhaseOne - 1 + n + 1 /\ PhaseOne - 1 + n <= x =>
                               x + 1 - PhaseOne + 1 = n + 1
    OBVIOUS
  <2>1. block.h - PhaseOne + 1 = Len(prog) + 1
    BY <2>a, <2>b, <2>c
  <2> QED BY <1>2, <1>4, <2>1 DEF ProgBlock
<1>13. Transfers(block.h, block.txs)' = Transfers(block.h, block.txs)
  BY <1>4 DEF Transfers, IsQuiet
<1>14. Agreement'
  BY <1>3, <1>4, <1>11, <1>12, <1>13 DEF Agreement
<1> QED BY <1>9, <1>14 DEF JInv

LEMMA FinaliseAgrees ==
  ASSUME PhaseOneBuried, IInv, IInv', JInv, Finalise
  PROVE  JInv'
<1>1. CASE Exit
  BY <1>1, ExitAgrees
<1>2. CASE /\ block.h >= PhaseOne
           /\ prog' = Append(prog, [h |-> block.h, hash |-> block.hash,
                                    txs |-> Transfers(block.h, block.txs)])
           /\ Goto(IF block.h = lastOpi \/ block.h % CommitEvery = 0 THEN "commit" ELSE "hashes")
           /\ UNCHANGED <<bitcoin, opi, db, saved, booting, search, memory>>
  BY <1>2, SentAgrees DEF Finalise, Goto, memory
<1>3. CASE /\ block.h < PhaseOne
           /\ Goto("hashes")
           /\ UNCHANGED <<bitcoin, opi, db, evm, booting, search, memory>>
  <2>1. /\ pc' = "hashes"
        /\ UNCHANGED <<best, opi, hashes, ledger, prog, saved, block>>
    BY <1>3 DEF Goto, bitcoin, db, evm, memory
  <2>2. Indexing /\ block.h = Height + 1 /\ Height \in Nat
    BY NextBlock, Lengths DEF Finalise, Indexing, IInv
  <2>3. block.h # PhaseOne /\ ~(Height >= PhaseOne) /\ Height' = Height
    BY <1>3, <2>1, <2>2, SyncAssumption DEF Height
  <2>4. FirstProg' = FirstProg
    BY <2>1 DEF FirstProg, Transfers, IsQuiet
  <2>5. Buried'
    BY <2>1, <2>3, <2>4 DEF JInv, Buried
  <2>6. BelowAgreed'
    BY <2>2, <2>3, SyncAssumption DEF BelowAgreed
  <2> QED BY <2>1, <2>3, <2>5, <2>6 DEF JInv, Agreement
<1> QED BY <1>1, <1>2, <1>3 DEF Finalise

LEMMA CommitAgrees ==
  ASSUME IInv, JInv, Commit
  PROVE  JInv'
<1>1. /\ pc = "commit" /\ pc' = "hashes" /\ saved' = Len(prog)
      /\ UNCHANGED <<best, opi, hashes, ledger, prog, block>>
  BY DEF Commit, Goto, bitcoin, db, memory
<1>2. /\ prog # <<>> => Len(prog) >= 1
      /\ saved \in Nat /\ saved <= Len(prog) /\ Len(prog) \in Nat
  BY Lengths DEF IInv
<1>3. \A h : LedgerAt(h)' = LedgerAt(h)
  BY <1>1 DEF LedgerAt
<1>4. (BelowAgreed' <=> BelowAgreed) /\ Height' = Height /\ ProgHeight' = ProgHeight
  BY <1>1, <1>3, KeptAgreed DEF IInv
<1>5. FirstProg' = FirstProg /\ Indexing /\ Indexing'
  BY <1>1 DEF FirstProg, Transfers, IsQuiet, Indexing
<1>6. saved >= 1 => saved' >= 1
  BY <1>1, <1>2
<1>7. Buried'
  BY <1>1, <1>2, <1>3, <1>4, <1>5, <1>6 DEF JInv, Buried
<1>8. Agreement'
  BY <1>1, <1>4 DEF JInv, Agreement, HasProg, ProgBlock, Transfers, IsQuiet
<1> QED BY <1>7, <1>8 DEF JInv
(* A block gets its hash: brc20_prog has it, or it is below phase one.     *)
LEMMA SetBlockHashesAgrees ==
  ASSUME IInv, IInv', JInv, SetBlockHashes
  PROVE  JInv'
<1> USE SyncAssumption
<1> DEFINE sent == Transfers(block.h, block.txs)
<1>1. CASE Exit
  BY <1>1, ExitAgrees
<1>2. CASE block.h < PhaseOne \/ HasProg(block.h)
  <2>0. /\ pc = "hashes" /\ Indexing /\ pc' = "align" /\ ~Indexing'
        /\ hashes' = Append(hashes, block.hash)
        /\ UNCHANGED <<best, opi, ledger, prog, saved>>
    BY <1>2 DEF SetBlockHashes, Loop, Goto, Indexing, bitcoin, evm
  <2>1. /\ Height \in Nat /\ hashes \in Seq(Fork) /\ block.h = Height + 1 /\ block.hash \in Fork
        /\ LedgerAt(block.h) = {sent} \ {NoBlock}
        /\ Len(prog) \in Nat /\ ProgHeight = PhaseOne - 1 + Len(prog)
        /\ (prog # <<>> <=> Len(prog) >= 1)
    BY <2>0, Shapes, Lengths, NextBlock DEF IInv, Executed
  <2>2. /\ Height' = Height + 1 /\ hashes'[block.h] = block.hash
        /\ \A h \in 1 .. Height : hashes'[h] = hashes[h]
    BY <2>0, <2>1 DEF Height
  <2>3. /\ \A h : LedgerAt(h)' = LedgerAt(h)
        /\ \A h : ProgBlock(h)' = ProgBlock(h)
        /\ ProgHeight' = ProgHeight /\ FirstProg' = FirstProg
    BY <2>0 DEF LedgerAt, ProgBlock, ProgHeight, FirstProg, Transfers, IsQuiet
  <2>4. block.h = PhaseOne =>
          /\ PhaseOne <= Len(opi) /\ block.hash = best[PhaseOne] /\ block.txs = best[PhaseOne]
          /\ prog # <<>> /\ saved >= 1 /\ prog[1] = FirstProg
    <3>1. block.h = PhaseOne => HasProg(block.h)
      BY <1>2, <2>1
    <3>2. block.h = PhaseOne => prog # <<>>
      BY <2>1, <3>1 DEF HasProg
    <3> QED BY <2>0, <3>2 DEF JInv, Buried
  <2>5. block.h = PhaseOne => sent = FirstProg.txs
    BY <2>4 DEF FirstProg
  <2> HIDE DEF sent
  <2>6. Height' >= PhaseOne =>
          /\ PhaseOne <= Len(opi) /\ hashes'[PhaseOne] = best[PhaseOne]
          /\ LedgerAt(PhaseOne)' = {FirstProg.txs} \ {NoBlock}
          /\ saved >= 1
    <3>1. CASE Height >= PhaseOne
      <4>1. hashes'[PhaseOne] = hashes[PhaseOne]
        BY <2>1, <2>2, <3>1
      <4>2. LedgerAt(PhaseOne)' = LedgerAt(PhaseOne)
        BY <2>3
      <4> QED BY <3>1, <4>1, <4>2 DEF JInv, Buried
    <3>2. CASE block.h = PhaseOne
      <4>1. LedgerAt(PhaseOne)' = LedgerAt(block.h) /\ hashes'[PhaseOne] = block.hash
        BY <2>2, <2>3, <3>2
      <4> QED BY <2>1, <2>4, <2>5, <3>2, <4>1
    <3> QED BY <2>1, <2>2, <3>1, <3>2
  <2>7. Buried'
    <3>1. /\ PhaseOne <= Len(opi) => PhaseOne <= Len(best) /\ opi[PhaseOne] = best[PhaseOne]
          /\ prog # <<>> => PhaseOne <= Len(opi) /\ prog[1] = FirstProg
      BY DEF JInv, Buried
    <3> QED BY <2>0, <2>3, <2>6, <3>1 DEF Buried
  <2>8. block.h <= ProgHeight /\ block.h >= PhaseOne =>
          ProgBlock(block.h) = [h |-> block.h, hash |-> block.hash, txs |-> sent]
    <3>1. CASE Height >= PhaseOne
      BY <2>0, <3>1 DEF JInv, Agreement, HasProg, sent
    <3>2. CASE block.h = PhaseOne
      <4>1. ProgBlock(block.h) = prog[1]
        BY <3>2 DEF ProgBlock
      <4> QED BY <2>4, <2>5, <3>2, <4>1 DEF FirstProg
    <3> QED BY <2>1, <3>1, <3>2
  <2>9. BelowAgreed'
    <3> SUFFICES ASSUME NEW h \in PhaseOne .. Height + 1,
                        h < ProgHeight \/ (h = ProgHeight /\ ProgBlock(h).h = h)
                 PROVE  Agreed(h)'
      BY <2>2, <2>3 DEF BelowAgreed
    <3>1. CASE h <= Height
      <4>1. Agreed(h)
        <5>1. h \in PhaseOne .. Height
          BY <2>1, <3>1
        <5>2. BelowAgreed
          BY DEF JInv, Agreement
        <5> QED BY <5>1, <5>2 DEF BelowAgreed
      <4>2. hashes'[h] = hashes[h]
        BY <2>1, <2>2, <3>1
      <4> QED BY <2>3, <4>1, <4>2 DEF Agreed, ProgAt
    <3>2. CASE h = block.h
      <4>1. ProgBlock(h) = [h |-> h, hash |-> block.hash, txs |-> sent]
        BY <2>1, <2>8, <3>2
      <4>2. hashes'[h] = block.hash /\ LedgerAt(h) = {sent} \ {NoBlock}
        BY <2>1, <2>2, <3>2
      <4> QED BY <2>3, <4>1, <4>2 DEF Agreed, ProgAt
    <3> QED BY <2>1, <3>1, <3>2
  <2> QED BY <2>0, <2>7, <2>9 DEF JInv, Agreement
<1> QED BY <1>1, <1>2 DEF SetBlockHashes

LEMMA CrashAgrees ==
  ASSUME IInv, IInv', JInv, Crash
  PROVE  JInv'
  BY ExitAgrees DEF Crash

LEMMA AgreementInvariance == ASSUME PhaseOneBuried PROVE Spec => []JInv
<1>1. IInv /\ IInv' /\ JInv /\ [Next]_vars => JInv'
  <2> SUFFICES ASSUME IInv, IInv', JInv, [Next]_vars PROVE JInv'
    OBVIOUS
  <2>1. CASE Start \/ Align \/ WalkFound \/ WalkDiffers \/ WalkFails
    BY <2>1, ExitAgrees, AlignAgrees, WalkAgrees
  <2>2. CASE ReorgProg \/ ClearCaches \/ ReorgResidue \/ Wait
    BY <2>2, ReorgProgAgrees, ClearCachesAgrees, ReorgResidueAgrees, WaitAgrees
  <2>3. CASE ReadHash \/ ReadTransfers \/ Flush
    BY <2>3, ReadHashAgrees, ReadTransfersAgrees, FlushAgrees
  <2>4. CASE Finalise \/ Commit \/ SetBlockHashes
    BY <2>4, FinaliseAgrees, CommitAgrees, SetBlockHashesAgrees
  <2>5. CASE Outside
    BY <2>5, OutsideAgrees
  <2>6. CASE Crash \/ ProgCrash
    BY <2>6, CrashAgrees, ProgCrashAgrees
  <2>7. CASE UNCHANGED vars
    BY <2>7, StutterAgrees
  <2> QED BY <2>1, <2>2, <2>3, <2>4, <2>5, <2>6, <2>7 DEF Next, Step, Outside
<1> QED BY <1>1, Invariance, InitJInv, PTL DEF Spec

(* When the next block is about to be indexed, no block of the ledger is   *)
(* without a hash, and ledger and EVM name the same block and have         *)
(* executed the same transfers at every height both have, if the block of  *)
(* phase one is buried and is one brc20_prog commits at.                   *)
THEOREM LedgerAndEvmAgree == ASSUME PhaseOneBuried PROVE Spec => []Synced
<1>1. IInv /\ JInv => Synced
  <2> SUFFICES ASSUME IInv, JInv, pc = "next" PROVE Synced
    BY DEF Synced
  <2>1. \A e \in BagToSet(ledger) : e.h <= Height
    BY DEF IInv, Control, Entries, Indexing, Rows
  <2>2. /\ AllAgreed
        /\ Height >= PhaseOne => ProgHeight <= Height
    BY DEF JInv, Agreement
  <2>3. Height \in Nat /\ ProgHeight \in Int
    BY Lengths DEF IInv
  <2>4. ASSUME Height >= PhaseOne, NEW h \in PhaseOne .. ProgHeight PROVE Agreed(h)
    <3>1. h \in PhaseOne .. Height /\ h <= ProgHeight
      BY <2>2, <2>3, <2>4, SyncAssumption
    <3> QED BY <2>2, <3>1 DEF AllAgreed
  <2> QED BY <2>1, <2>2, <2>4 DEF Synced, Agreed
<1> QED BY <1>1, Invariance, AgreementInvariance, PTL

-----------------------------------------------------------------------------
(* The light client: chains of any length, any number of forks and         *)
(* crashes, and whatever the indexers answer. Wrong events stay only until *)
(* the comparison of the cumulative hashes, but for one block per crash.   *)

Sum == [events : Block, traces : Block]

(* What the client was told, and what it computed from what it was told.   *)
Told ==
  /\ sums \in Seq(Sum) /\ Len(sums) = Height
  /\ expected \in Seq(Fork)
  /\ pc = "read" \/ Indexing \/ pc = "verify" =>
       Len(expected) >= block.h /\ expected[block.h] = block.hash
  /\ pc = "verify" =>
       /\ ~booting /\ block.h = Height /\ Height >= 1 /\ hashes[Height] = block.hash
       /\ LedgerAt(Height) = {sums[Height].events} \ {NoBlock}
       /\ HasProg(Height) => ProgBlock(Height).txs = sums[Height].traces
  /\ pc \in {"prog", "prog residue"} => at >= Height
  /\ pc = "undo" => block.h \in Nat /\ Rows(pending) = {}

(* brc20_prog has lost blocks since the ledger was last aligned with it:   *)
(* the next block it is given goes to a height that the ledger has.        *)
Behind ==
  pc \in {"prog", "next", "read", "flush", "finalise"} /\ Height >= PhaseOne /\ ProgHeight < Height

(* The heights that are wrong and will not be compared any more.           *)
Wrong == {h \in 1 .. Height : ~Right(h)} \ (IF pc = "verify" THEN {Height} ELSE {})

Counted == Cardinality(Wrong) + (IF Behind THEN 1 ELSE 0) <= crashes

LInv == IInv /\ Told /\ Counted

-----------------------------------------------------------------------------
(* The invariant of the run loop holds in this mode too.                   *)

(* Nothing of the tables changes and no block is being indexed.            *)
LEMMA RestStep ==
  ASSUME IInv, UNCHANGED <<bitcoin, opi, db, prog, saved, booting, search, lastOpi, pending>>,
         crashes' = crashes, pc \notin {"down", "verify"}, ~Indexing,
         pc' = "align", open' \in Block, block' = block
  PROVE  IInv'
<1> USE DEF IInv, bitcoin, db, search
<1>1. TypeOK' /\ Sizes'
  BY DEF TypeOK, Sizes
<1>2. ~Indexing' /\ Control' /\ Executed' /\ pc' # "down"
  BY DEF Indexing, Control, Executed
<1>3. Entries'
  BY <1>2, QuietEntries
<1> QED BY <1>1, <1>2, <1>3

(* The events of a block change balances in memory.                        *)
LEMMA ReadEventsStep ==
  ASSUME IInv, NEW b \in 0 .. Forks, ReadEvents(b)
  PROVE  IInv'
<1> DEFINE h == block.h
           new == [h |-> h, b |-> b]
           quiet == IsQuiet(h, b)
<1> USE DEF IInv, bitcoin, db, search
<1>0. /\ pc = "read" /\ ~booting
      /\ block' = [block EXCEPT !.txs = b]
      /\ pending' = IF quiet THEN pending ELSE pending (+) SetToBag({new})
      /\ open' \in {open, b}
      /\ pc' = IF quiet THEN "finalise" ELSE "flush"
      /\ UNCHANGED <<bitcoin, opi, db, prog, saved, booting, search, lastOpi, crashes>>
  BY DEF ReadEvents, Goto, Control
<1>1. /\ h = Height + 1 /\ h \in 1 .. MaxHeight
      /\ block.hash \in Fork /\ Height \in Nat
      /\ block \in [h : 0 .. MaxHeight, hash : Block, txs : Block]
  BY <1>0, NextBlock, Shapes
<1>2. b \in Block
  BY SyncAssumption DEF Block, Fork, NoBlock
<1>3. /\ block' \in [h : 0 .. MaxHeight, hash : Block, txs : Block]
      /\ block'.h = h /\ block'.hash = block.hash /\ block'.txs = b
  BY <1>0, <1>1, <1>2
<1>4. /\ Transfers(h, b) = IF quiet THEN NoBlock ELSE b
      /\ Transfers(block'.h, block'.txs) = Transfers(h, b)
  BY <1>2, <1>3 DEF Transfers, Block
<1> HIDE DEF h
<1>5. new \in Entry /\ new.h = h /\ new.b = b
  BY <1>1, <1>2 DEF Entry
<1> HIDE DEF new, quiet
<1>6. /\ \A e \in Rows(ledger) : e.h <= Height /\ e \in Entry
      /\ \A e \in Rows(pending) : e.h <= Height /\ e.b = NoBlock /\ e \in Entry
  BY <1>0 DEF Entries, Indexing, TypeOK, Rows
<1>7. \A e \in Rows(ledger) \cup Rows(pending) : e.h < h /\ e.h # h
  BY <1>1, <1>6 DEF Entry
<1>8. IsABag(pending)
  BY DEF TypeOK
<1>9. /\ IsABag(pending')
      /\ Rows(pending') = Rows(pending) \cup (IF quiet THEN {} ELSE {new})
      /\ \A e \in Rows(pending) : pending'[e] = pending[e]
      /\ ~quiet => pending'[new] = 1
  <2>1. CASE quiet
    BY <1>0, <1>8, <2>1
  <2>2. CASE ~quiet
    <3>1. IsABag(SetToBag({new})) /\ Rows(SetToBag({new})) = {new} /\ SetToBag({new})[new] = 1
      BY SingletonFacts
    <3>2. Rows(pending) \cap Rows(SetToBag({new})) = {}
      BY <1>5, <1>7, <3>1
    <3>3. pending' = pending (+) SetToBag({new})
      BY <1>0, <2>2
    <3> QED BY <1>8, <2>2, <3>1, <3>2, <3>3, UnionFacts
  <2> QED BY <2>1, <2>2
<1>10. pc' \in {"finalise", "flush"} /\ Indexing' /\ ~booting' /\ Height' = Height
  BY <1>0 DEF Indexing, Height
<1>11. open' \in Block
  BY <1>0, <1>2 DEF TypeOK
<1>12. TypeOK' /\ Sizes'
  <2>1. Rows(pending') \subseteq Entry
    BY <1>5, <1>6, <1>9
  <2> QED BY <1>0, <1>3, <1>9, <1>10, <1>11, <2>1 DEF TypeOK, Sizes, Rows
<1>13. Control'
  BY <1>0, <1>1, <1>3, <1>10 DEF Control
<1>14. Entries'
  <2>1. \A e \in Rows(pending') : e \in Rows(pending) \/ e = new
    BY <1>9
  <2>2. \A e \in Rows(ledger') : ledger'[e] = 1 /\ e.h <= Height' + 1
    BY <1>0, <1>10 DEF Entries
  <2>3. \A e \in Rows(pending') :
          pending'[e] = 1 /\ e.h <= Height' + 1 /\ (e.h <= Height' => e.b = NoBlock)
    <3>1. \A e \in Rows(pending) : pending'[e] = 1 /\ e.h <= Height + 1 /\ e.b = NoBlock
      BY <1>1, <1>6, <1>7, <1>9 DEF Entries, Entry
    <3>2. new \in Rows(pending') => pending'[new] = 1
      BY <1>9, <3>1
    <3>3. new.h <= Height + 1 /\ ~(new.h <= Height)
      BY <1>1, <1>5
    <3> QED BY <1>10, <2>1, <3>1, <3>2, <3>3
  <2>4. \A e, f \in Rows(ledger') : e.h = f.h => e = f
    BY <1>0 DEF Entries
  <2>5. \A e, f \in Rows(pending') : e.h = f.h => e = f
    BY <1>5, <1>7, <2>1 DEF Entries
  <2>6. \A e \in Rows(ledger'), f \in Rows(pending') : e.h # f.h
    BY <1>0, <1>5, <1>7, <2>1 DEF Entries
  <2> QED BY <1>10, <2>2, <2>3, <2>4, <2>5, <2>6 DEF Entries, Indexing
<1>15. Executed'
  <2>1. CASE quiet
    <3>1. pc' = "finalise" /\ Transfers(h, b) = NoBlock
      BY <1>0, <1>4, <2>1
    <3>2. LedgerAt(block.h)' = {}
      BY <1>0, <1>3, <1>7 DEF LedgerAt, Rows
    <3>3. \A e \in Rows(pending') : e.b = NoBlock
      BY <1>6, <1>9, <2>1
    <3> QED BY <1>3, <1>4, <3>1, <3>2, <3>3 DEF Executed
  <2>2. CASE ~quiet
    <3>1. pc' = "flush" /\ Transfers(block'.h, block'.txs) = b
      BY <1>0, <1>4, <2>2
    <3>2. new \in Rows(pending') /\ \A e \in Rows(pending') : e.h = h => e = new
      BY <1>7, <1>9, <2>2
    <3>3. new = [h |-> block'.h, b |-> Transfers(block'.h, block'.txs)]
      BY <1>3, <3>1 DEF new
    <3> QED BY <1>3, <1>5, <3>1, <3>2, <3>3 DEF Executed
  <2> QED BY <2>1, <2>2
<1> QED BY <1>12, <1>13, <1>14, <1>15

(* Refused events end the process.                                         *)
LEMMA RefusedStep ==
  ASSUME IInv, NEW b \in 0 .. Forks, EventsRefused(b)
  PROVE  IInv'
<1> USE SyncAssumption DEF IInv, bitcoin, db, search
<1>0. /\ pc = "read" /\ pc' = "down" /\ pending' = EmptyBag /\ open' \in {open, b}
      /\ UNCHANGED <<bitcoin, opi, db, prog, saved, booting, search, lastOpi, block, crashes>>
  BY DEF EventsRefused, Goto
<1>1. IsABag(pending') /\ Rows(pending') = {}
  BY <1>0, EmptyFacts
<1>2. open' \in Block
  BY <1>0 DEF TypeOK, Block, Fork, NoBlock
<1>3. TypeOK' /\ Sizes'
  BY <1>0, <1>1, <1>2 DEF TypeOK, Sizes, Rows
<1>4. Control' /\ Executed'
  BY <1>0 DEF Control, Executed, Indexing
<1>5. Entries'
  BY <1>0, <1>1 DEF Entries, Indexing, Height, Rows
<1> QED BY <1>3, <1>4, <1>5

(* The hash is stored before the block is compared.                        *)
LEMMA StoreHashesStep ==
  ASSUME IInv, StoreHashes
  PROVE  IInv'
<1> USE DEF IInv, bitcoin, evm, search, memory
<1>0. pc = "hashes" /\ Indexing /\ crashes' = crashes
  BY DEF StoreHashes, Indexing
<1>1. CASE block.h < PhaseOne \/ HasProg(block.h)
  <2>1. /\ hashes' = Append(hashes, block.hash) /\ pc' = "verify" /\ ~booting
        /\ UNCHANGED <<bitcoin, opi, ledger, burned, evm, booting, search, memory, crashes>>
    BY <1>0, <1>1 DEF StoreHashes, Goto, Control
  <2>2. hashes' \in Seq(Fork) /\ Height' = Height + 1 /\ Height \in Nat
    BY <1>0, <2>1, NextBlock, Shapes DEF Height
  <2>3. TypeOK' /\ Sizes'
    BY <2>1, <2>2 DEF TypeOK, Sizes
  <2>4. ~Indexing' /\ Control' /\ Executed'
    BY <2>1 DEF Indexing, Control, Executed
  <2>5. \A e \in Rows(ledger) \cup Rows(pending) : e.h \in Nat /\ e.h <= Height + 1
    BY <1>0 DEF Entries, TypeOK, Entry, Rows
  <2>6. \A e \in Rows(pending) : e.b = NoBlock
    BY <1>0 DEF Executed
  <2>7. Entries'
    BY <2>1, <2>2, <2>4, <2>5, <2>6 DEF Entries, Rows
  <2> QED BY <2>3, <2>4, <2>7
<1>2. CASE ~(block.h < PhaseOne \/ HasProg(block.h))
  BY <1>0, <1>2, ExitStep, Shapes DEF StoreHashes
<1> QED BY <1>1, <1>2

(* A block that differs is taken back, first from the tables.              *)
LEMMA VerifyStep ==
  ASSUME IInv, Told, Verify
  PROVE  IInv'
<1> USE SyncAssumption DEF IInv, bitcoin, evm, search
<1>0. /\ pc = "verify" /\ ~booting /\ block.h = Height /\ Height \in Nat /\ Height >= 1 /\ ~Indexing
      /\ UNCHANGED <<bitcoin, opi, evm, lastOpi, block, crashes>>
  BY Shapes DEF Verify, Told, Indexing
<1>1. CASE Agrees
  <2>1. pc' = "align" /\ UNCHANGED <<db, pending, booting, search>>
    BY <1>1 DEF Verify, Loop, Goto
  <2>2. TypeOK' /\ Sizes'
    BY <1>0, <2>1 DEF TypeOK, Sizes, db
  <2>3. ~Indexing' /\ Control' /\ Executed'
    BY <2>1 DEF Indexing, Control, Executed
  <2>4. Entries'
    BY <1>0, <2>1, <2>3, QuietEntries DEF db
  <2> QED BY <2>2, <2>3, <2>4
<1>2. CASE ~Agrees
  <2>1. pc' = "undo" /\ DbReorg(Height - 1) /\ UNCHANGED <<booting, search>>
    BY <1>0, <1>2 DEF Verify, Goto
  <2>2. Height - 1 \in 0 .. Height /\ Height - 1 \in Nat
    BY <1>0
  <2>3. ~Indexing' /\ Control' /\ Executed'
    BY <2>1 DEF Indexing, Control, Executed
  <2>4. Entries'
    BY <2>1, <2>2, <2>3, ReorgEntries
  <2>5. /\ hashes' \in Seq(Fork)
        /\ IsABag(ledger') /\ Rows(ledger') \subseteq Rows(ledger)
        /\ IsABag(pending') /\ Rows(pending') = {}
        /\ burned' = burned
    BY <2>1, <2>2, DbReorgFacts
  <2>6. TypeOK' /\ Sizes'
    BY <1>0, <2>1, <2>5 DEF TypeOK, Sizes, Rows
  <2> QED BY <2>3, <2>4, <2>6
<1> QED BY <1>1, <1>2

(* What brc20_reorg leaves, also when it is asked for a height below phase *)
(* one.                                                                    *)
LEMMA ProgCutFacts ==
  ASSUME TypeOK, NEW k \in Int, ProgReorg(k)
  PROVE  /\ prog' \in Seq([h : 1 .. MaxHeight, hash : Fork, txs : Block])
         /\ Len(prog') <= Len(prog)
         /\ \A i \in 1 .. Len(prog') : prog'[i] = prog[i]
         /\ saved' \in 0 .. Len(prog') /\ open' = NoBlock
<1> USE SyncAssumption
<1> DEFINE n == k - PhaseOne + 1
<1>1. n \in Int
  OBVIOUS
<1>2. prog \in Seq([h : 1 .. MaxHeight, hash : Fork, txs : Block]) /\ saved \in 0 .. Len(prog)
  BY DEF TypeOK
<1>3. /\ prog' = Prefix(prog, n) /\ open' = NoBlock
      /\ saved' = IF saved < Len(prog') THEN saved ELSE Len(prog')
  BY DEF ProgReorg
<1> HIDE DEF n
<1>4. /\ prog' \in Seq([h : 1 .. MaxHeight, hash : Fork, txs : Block])
      /\ Len(prog') <= Len(prog)
      /\ \A i \in 1 .. Len(prog') : prog'[i] = prog[i]
  BY <1>1, <1>2, <1>3, PrefixFacts
<1>5. Len(prog') \in Nat /\ saved \in Nat
  BY <1>2, <1>4
<1> QED BY <1>3, <1>4, <1>5

(* Then from brc20_prog.                                                   *)
LEMMA UndoStep ==
  ASSUME IInv, Told, Undo
  PROVE  IInv'
<1> USE DEF IInv, bitcoin, db, search, memory
<1>0. /\ pc = "undo" /\ pc' = "down" /\ ProgReorg(block.h - 1) /\ block.h - 1 \in Int
      /\ UNCHANGED <<bitcoin, opi, db, booting, search, memory, crashes>>
  BY DEF Undo, Goto, Told
<1>1. /\ prog' \in Seq([h : 1 .. MaxHeight, hash : Fork, txs : Block])
      /\ saved' \in 0 .. Len(prog') /\ open' \in Block
  BY <1>0, ProgCutFacts DEF Block
<1>2. TypeOK' /\ Sizes'
  BY <1>0, <1>1 DEF TypeOK, Sizes
<1>3. ~Indexing /\ ~Indexing' /\ Control' /\ Executed' /\ Height' = Height
  BY <1>0 DEF Indexing, Control, Executed, Height
<1>4. Entries'
  BY <1>0, <1>3 DEF Entries, Rows, Told
<1> QED BY <1>2, <1>3, <1>4

LEMMA LightIInvStep ==
  ASSUME IInv, Told, [LightNext]_lightVars
  PROVE  IInv'
<1>1. CASE SharedStep
  BY <1>1, StartStep, AlignStep, WalkStep, ReorgProgStep, ClearCachesStep, WaitStep, FlushStep,
     FinaliseStep, CommitStep DEF SharedStep
<1>2. CASE WaitUnanswered
  BY <1>2, RestStep DEF WaitUnanswered, Loop, Goto, Indexing, memory, evm, search, IInv, TypeOK
<1>3. CASE ReadBlockInfo
  BY <1>3, ReadHashStep DEF ReadBlockInfo
<1>4. CASE EventsFail
  BY <1>4, RestStep DEF EventsFail, Loop, Goto, Indexing, memory, evm, search, IInv, TypeOK
<1>5. CASE \E b \in 0 .. Forks : ReadEvents(b) \/ EventsRefused(b)
  BY <1>5, ReadEventsStep, RefusedStep
<1>6. CASE StoreHashes \/ Verify \/ Undo
  BY <1>6, StoreHashesStep, VerifyStep, UndoStep
<1>7. CASE Around
  <2>1. CASE Outside
    BY <2>1, OutsideStep
  <2>2. CASE Crash \/ ProgCrash
    BY <2>2, CrashStep
  <2> QED BY <1>7, <2>1, <2>2 DEF Around, Outside
<1>8. CASE UNCHANGED lightVars
  BY <1>8, StutterStep DEF lightVars
<1> QED BY <1>1, <1>2, <1>3, <1>4, <1>5, <1>6, <1>7, <1>8 DEF LightNext, LightStep

-----------------------------------------------------------------------------
(* What the client was told.                                               *)

(* What a step does that adds neither hashes nor events to the tables and  *)
(* nothing to brc20_prog.                                                  *)
Keeps ==
  /\ Height' <= Height
  /\ \A h \in 1 .. Height' : hashes'[h] = hashes[h] /\ LedgerAt(h)' = LedgerAt(h)
  /\ Len(prog') <= Len(prog)
  /\ \A i \in 1 .. Len(prog') : prog'[i] = prog[i]

LEMMA KeepsAll ==
  ASSUME TypeOK, UNCHANGED <<hashes, ledger, prog>>
  PROVE  Keeps /\ Height' = Height /\ ProgHeight' = ProgHeight
<1>1. \A h : LedgerAt(h)' = LedgerAt(h)
  BY DEF LedgerAt
<1>2. Height \in Nat /\ Len(prog) \in Nat /\ Height' = Height /\ ProgHeight' = ProgHeight
  BY Lengths DEF Height, ProgHeight
<1> QED BY <1>1, <1>2 DEF Keeps

LEMMA KeepsReorg ==
  ASSUME TypeOK, NEW k \in 0 .. Height, DbReorg(k),
         prog' = prog \/ prog' = Prefix(prog, saved)
  PROVE  Keeps /\ Height' = k /\ Rows(pending') = {} /\ hashes' \in Seq(Fork)
<1>1. Height \in Nat /\ Len(prog) \in Nat /\ k \in Nat /\ saved <= Len(prog)
  BY Lengths, InRange
<1>2. /\ hashes' \in Seq(Fork) /\ Len(hashes') = IF k < Height THEN k ELSE Height
      /\ \A h \in 1 .. Len(hashes') : hashes'[h] = hashes[h]
      /\ \A h \in Int : h <= k => LedgerAt(h)' = LedgerAt(h)
      /\ Rows(pending') = {}
  BY <1>1, DbReorgFacts
<1>3. Len(hashes') = k /\ Height' = k
  BY <1>1, <1>2 DEF Height
<1>4. Len(prog') <= Len(prog) /\ \A i \in 1 .. Len(prog') : prog'[i] = prog[i]
  BY <1>1, ProgDropFacts
<1> QED BY <1>1, <1>2, <1>3, <1>4 DEF Keeps

LEMMA KeepsProgReorg ==
  ASSUME TypeOK, NEW k \in Int, ProgReorg(k), UNCHANGED <<hashes, ledger>>
  PROVE  Keeps /\ Height' = Height
<1>1. \A h : LedgerAt(h)' = LedgerAt(h)
  BY DEF LedgerAt
<1>2. Height \in Nat /\ Height' = Height
  BY Lengths DEF Height
<1>3. Len(prog') <= Len(prog) /\ \A i \in 1 .. Len(prog') : prog'[i] = prog[i]
  BY ProgCutFacts
<1> QED BY <1>1, <1>2, <1>3 DEF Keeps

(* The cumulative hashes lose what the block hashes lose.                  *)
LEMMA StoredFacts ==
  ASSUME TypeOK, TypeOK', Told, Stored, Height' <= Height
  PROVE  sums' \in Seq(Sum) /\ Len(sums') = Height' /\ expected' \in Seq(Fork)
<1>1. Height \in Nat /\ sums \in Seq(Sum) /\ Len(sums) = Height
  BY Shapes DEF Told
<1>2. Height' \in Nat /\ Height' = Len(hashes')
  <2>1. hashes' \in Seq(Fork)
    BY DEF TypeOK
  <2> QED BY <2>1 DEF Height
<1>3. sums' = Prefix(sums, Height') /\ expected' = expected
  BY <1>2 DEF Stored
<1>4. /\ Prefix(sums, Height') \in Seq(Sum)
      /\ Len(Prefix(sums, Height')) = IF Height' < Len(sums) THEN Height' ELSE Len(sums)
  <2>1. Height' \in Int /\ Height' >= 0
    BY <1>2
  <2> HIDE DEF Height
  <2> QED BY <1>1, <2>1, PrefixFacts
<1>5. Len(Prefix(sums, Height')) = Height'
  BY <1>1, <1>2, <1>4 DEF Height
<1> QED BY <1>1, <1>2, <1>3, <1>4, <1>5 DEF Told

(* A step of the loop that is not within a block, or keeps the block.      *)
LEMMA ToldKept ==
  ASSUME TypeOK, TypeOK', Told, Stored, Height' <= Height,
         pc' \notin {"verify", "undo"},
         pc' = "read" \/ Indexing' => (pc = "read" \/ Indexing) /\ block' = block,
         pc' \in {"prog", "prog residue"} => at' >= Height'
  PROVE  Told'
<1>1. sums' \in Seq(Sum) /\ Len(sums') = Height' /\ expected' = expected
  BY StoredFacts DEF Stored
<1>2. sums' \in Seq(Sum) /\ Len(sums') = Height' /\ expected' \in Seq(Fork)
  BY StoredFacts
<1>3. pc' = "read" \/ Indexing' => Len(expected') >= block'.h /\ expected'[block'.h] = block'.hash
  BY <1>1 DEF Told
<1> QED BY <1>2, <1>3 DEF Told

LEMMA ToldRest ==
  ASSUME TypeOK, TypeOK', Told, Stored, Height' <= Height,
         pc' \in {"down", "align", "walk", "clear", "next"}
  PROVE  Told'
  BY ToldKept DEF Indexing

LEMMA SharedTold ==
  ASSUME IInv, IInv', Told, SharedStep, Stored
  PROVE  Told'
<1> USE SyncAssumption
<1>0. TypeOK /\ TypeOK' /\ Height \in Nat /\ Control
  BY Shapes DEF IInv
<1>1. CASE Start \/ Wait
  <2>1. pc' = "align" /\ UNCHANGED hashes
    BY <1>1 DEF Start, Wait, Loop, Goto, db
  <2>2. Height' <= Height
    BY <1>0, <2>1 DEF Height
  <2> QED BY <1>0, <2>1, <2>2, ToldRest
<1>2. CASE Align
  <2>1. /\ pc' \in {"walk", "clear", "next"}
        /\ \/ UNCHANGED <<hashes, ledger, prog>>
           \/ DbReorg(ProgHeight) /\ prog' = prog /\ ProgHeight \in 0 .. Height
           \/ ProgReorg(Height) /\ UNCHANGED <<hashes, ledger>>
    BY <1>0, <1>2, Lengths DEF Align, Return, Goto, db, evm
  <2>2. Height' <= Height
    BY <1>0, <2>1, KeepsAll, KeepsReorg, KeepsProgReorg DEF Keeps
  <2> QED BY <1>0, <2>1, <2>2, ToldRest
<1>3. CASE WalkFound \/ WalkDiffers
  <2>1. pc = "walk" /\ at \in 1 .. Height /\ prog' = prog
    BY <1>0, <1>3 DEF WalkFound, WalkDiffers, Control, evm
  <2>2. /\ pc' \in {"walk", "prog", "clear", "next"}
        /\ \/ UNCHANGED <<hashes, ledger, prog>> /\ pc' # "prog"
           \/ DbReorg(at) /\ at' = at
           \/ DbReorg(1) /\ at = 1 /\ at' = PhaseOne
    BY <1>3, <2>1 DEF WalkFound, WalkDiffers, Return, Goto, db, search
  <2>3. Height' <= Height /\ (pc' = "prog" => at' >= Height')
    <3>1. at \in 0 .. Height /\ at \in Nat
      BY <1>0, <2>1
    <3>2. CASE UNCHANGED <<hashes, ledger, prog>> /\ pc' # "prog"
      BY <1>0, <3>2, KeepsAll
    <3>3. CASE DbReorg(at) /\ at' = at
      BY <1>0, <2>1, <3>1, <3>3, KeepsReorg
    <3>4. CASE DbReorg(1) /\ at = 1 /\ at' = PhaseOne
      BY <1>0, <2>1, <3>1, <3>4, KeepsReorg
    <3> QED BY <2>2, <3>2, <3>3, <3>4
  <2> QED BY <1>0, <2>2, <2>3, ToldKept DEF Indexing
<1>4. CASE WalkFails
  <2>1. pc' = "down" /\ UNCHANGED hashes
    BY <1>4 DEF WalkFails, Exit, db, evm
  <2>2. Height' <= Height
    BY <1>0, <2>1 DEF Height
  <2> QED BY <1>0, <2>1, <2>2, ToldRest
<1>5. CASE ReorgProg \/ ReorgResidue
  <2>1. pc' \in {"clear", "next", "align"} /\ UNCHANGED hashes
    BY <1>5 DEF ReorgProg, ReorgResidue, Return, Loop, Goto, db
  <2>2. Height' <= Height
    BY <1>0, <2>1 DEF Height
  <2> QED BY <1>0, <2>1, <2>2, ToldRest
<1>6. CASE ClearCaches
  <2>1. pc' \in {"align", "prog residue"} /\ prog' = Prefix(prog, saved)
    BY <1>6 DEF ClearCaches, Goto
  <2>2. Height \in 0 .. Height
    BY <1>0
  <2>3. \/ UNCHANGED hashes /\ pc' # "prog residue"
        \/ DbReorg(Height) /\ at' = Height
    BY <1>6 DEF ClearCaches, Goto, db
  <2>4. Height' = Height /\ (pc' = "prog residue" => at' = Height)
    <3>1. CASE UNCHANGED hashes /\ pc' # "prog residue"
      BY <3>1 DEF Height
    <3>2. CASE DbReorg(Height) /\ at' = Height
      BY <1>0, <2>1, <2>2, <3>2, KeepsReorg
    <3> QED BY <2>3, <3>1, <3>2
  <2>5. Height' <= Height /\ (pc' = "prog residue" => at' >= Height')
    <3>1. Height' = Height /\ Height \in Nat
      BY <1>0, <2>4
    <3>2. Height' <= Height /\ Height >= Height'
      BY <3>1
    <3>3. pc' = "prog residue" => at' = Height
      BY <2>4
    <3> QED BY <3>2, <3>3
  <2>6. ~Indexing' /\ pc' \notin {"read", "verify", "undo", "prog"}
    BY <2>1 DEF Indexing
  <2> QED BY <1>0, <2>5, <2>6, ToldKept
<1>7. CASE Flush \/ Commit
  <2>1. Height' = Height /\ Indexing /\ Indexing' /\ block' = block /\ pc' \in {"finalise", "hashes"}
    BY <1>7 DEF Flush, Commit, Goto, Indexing, Height, db, memory
  <2>2. Height' <= Height
    BY <1>0, <2>1
  <2> QED BY <1>0, <2>1, <2>2, ToldKept
<1>8. CASE Finalise
  <2>1. Height' = Height /\ Indexing /\ block' = block /\ pc' \in {"commit", "hashes", "down"}
    BY <1>8 DEF Finalise, Exit, Goto, Indexing, Height, db, memory
  <2>2. Height' <= Height
    BY <1>0, <2>1
  <2> QED BY <1>0, <2>1, <2>2, ToldKept
<1> QED BY <1>1, <1>2, <1>3, <1>4, <1>5, <1>6, <1>7, <1>8 DEF SharedStep

(* Bitcoin, OPI-ord and crashes.                                           *)
LEMMA AroundTold ==
  ASSUME IInv, IInv', Told, Around, UNCHANGED <<sums, expected>>
  PROVE  Told'
<1> USE SyncAssumption
<1>0. TypeOK /\ TypeOK' /\ Height \in Nat
  BY Shapes DEF IInv
<1>1. CASE Outside
  <2>1. UNCHANGED <<hashes, ledger, prog, pc, booting, at, block, pending>>
    BY <1>0, <1>1, OutsideFacts DEF IInv, indexer, db, evm, search, memory
  <2>2. UNCHANGED <<Height, Indexing, LedgerAt(Height), HasProg(Height), ProgBlock(Height)>>
    BY <2>1 DEF Height, Indexing, LedgerAt, HasProg, ProgHeight, ProgBlock
  <2> QED BY <2>1, <2>2 DEF Told
<1>2. CASE Crash
  <2>1. pc' = "down" /\ UNCHANGED hashes
    BY <1>2 DEF Crash, Exit, db
  <2>2. Height' = Height /\ ~Indexing'
    BY <2>1 DEF Height, Indexing
  <2> QED BY <2>1, <2>2 DEF Told
<1>3. CASE ProgCrash
  <2>1. prog' = Prefix(prog, saved) /\ UNCHANGED <<hashes, ledger, pc, booting, at, block, pending>>
    BY <1>3 DEF ProgCrash, db, search, memory
  <2>2. UNCHANGED <<Height, Indexing, LedgerAt(Height)>>
    BY <2>1 DEF Height, Indexing, LedgerAt
  <2>3. HasProg(Height)' => HasProg(Height) /\ ProgBlock(Height)' = ProgBlock(Height)
    <3>1. /\ Len(prog') = saved /\ \A i \in 1 .. Len(prog') : prog'[i] = prog[i]
          /\ Len(prog) \in Nat /\ saved \in Nat /\ saved <= Len(prog)
      BY <1>0, <2>1, ProgDropFacts, Lengths
    <3>2. SUFFICES ASSUME HasProg(Height)'
                   PROVE  HasProg(Height) /\ ProgBlock(Height)' = ProgBlock(Height)
      OBVIOUS
    <3>3. Height >= PhaseOne /\ Height <= PhaseOne - 1 + Len(prog')
      BY <2>2, <3>2 DEF HasProg, ProgHeight
    <3>4. Height - PhaseOne + 1 \in 1 .. Len(prog')
      BY <1>0, <3>1, <3>3
    <3>5. prog'[Height - PhaseOne + 1] = prog[Height - PhaseOne + 1]
      BY <3>1, <3>4
    <3>6. HasProg(Height)
      BY <1>0, <3>1, <3>3 DEF HasProg, ProgHeight
    <3> QED BY <2>2, <3>5, <3>6 DEF ProgBlock
  <2> QED BY <2>1, <2>2, <2>3 DEF Told
<1> QED BY <1>1, <1>2, <1>3 DEF Around, Outside

LEMMA PrefixOfOpi ==
  ASSUME TypeOK, Height + 1 <= Len(opi)
  PROVE  /\ Prefix(opi, Height + 1) \in Seq(Fork) /\ Len(Prefix(opi, Height + 1)) = Height + 1
         /\ Prefix(opi, Height + 1)[Height + 1] = opi[Height + 1]
<1>1. opi \in Seq(Fork) /\ Height \in Nat /\ Len(opi) \in Nat
  <2>1. opi \in Seq(Fork)
    BY DEF TypeOK
  <2> QED BY <2>1, Shapes
<1> DEFINE n == Height + 1
<1>2. n \in Int /\ n >= 0 /\ n >= 1 /\ n <= Len(opi)
  BY <1>1
<1> HIDE DEF n
<1>3. /\ Prefix(opi, n) \in Seq(Fork)
      /\ Len(Prefix(opi, n)) = IF n < Len(opi) THEN n ELSE Len(opi)
      /\ \A i \in 1 .. Len(Prefix(opi, n)) : Prefix(opi, n)[i] = opi[i]
  BY <1>1, <1>2, PrefixFacts
<1>4. Len(Prefix(opi, n)) = n /\ n \in 1 .. n
  BY <1>1, <1>2, <1>3
<1>5. Prefix(opi, n)[n] = opi[n]
  BY <1>3, <1>4
<1> QED BY <1>3, <1>4, <1>5 DEF n

LEMMA LightTold ==
  ASSUME IInv, IInv', Told,
         \/ WaitUnanswered \/ ReadBlockInfo
         \/ EventsFail \/ \E b \in 0 .. Forks : ReadEvents(b) \/ EventsRefused(b)
         \/ StoreHashes \/ Verify \/ Undo
  PROVE  Told'
<1> USE SyncAssumption
<1>0. TypeOK /\ TypeOK' /\ Height \in Nat
  BY Shapes DEF IInv
<1>1. ASSUME UNCHANGED <<hashes, sums>>, expected' \in Seq(Fork), pc' \in {"align", "down"}
      PROVE  Told'
  <2>1. Height' = Height /\ ~Indexing'
    BY <1>1 DEF Height, Indexing
  <2> QED BY <1>1, <2>1 DEF Told
<1>2. CASE WaitUnanswered \/ EventsFail
  BY <1>1, <1>2 DEF WaitUnanswered, EventsFail, Loop, Goto, db, Told
<1>3. CASE ReadBlockInfo
  <2>1. UNCHANGED sums /\ expected' = Prefix(opi, Height + 1) /\ UNCHANGED hashes
    BY <1>3 DEF ReadBlockInfo, ReadHash, Exit, db
  <2>2. CASE Height + 1 <= Len(opi)
    <3>1. pc' = "read" /\ block'.h = Height + 1 /\ block'.hash = opi[Height + 1]
      BY <1>3, <2>2 DEF ReadBlockInfo, ReadHash, Goto
    <3>2. expected' \in Seq(Fork) /\ Len(expected') = Height + 1 /\ expected'[Height + 1] = opi[Height + 1]
      BY <1>0, <2>1, <2>2, PrefixOfOpi
    <3>3. Height' = Height /\ ~Indexing' /\ Len(expected') >= block'.h
      BY <1>0, <2>1, <3>1, <3>2 DEF Height, Indexing
    <3> QED BY <2>1, <3>1, <3>2, <3>3 DEF Told
  <2>3. CASE ~(Height + 1 <= Len(opi))
    <3>1. pc' = "down"
      BY <1>3, <2>3 DEF ReadBlockInfo, ReadHash, Exit
    <3>2. opi \in Seq(Fork)
      BY <1>0 DEF TypeOK
    <3>3. expected' \in Seq(Fork)
      <4>1. Height + 1 \in Int
        BY <1>0
      <4> HIDE DEF Height
      <4> QED BY <2>1, <3>2, <4>1, PrefixFacts
    <3> QED BY <1>1, <2>1, <3>1, <3>3
  <2> QED BY <2>2, <2>3
<1>4. ASSUME NEW b \in 0 .. Forks, ReadEvents(b)
      PROVE  Told'
  <2>1. /\ pc = "read" /\ pc' \in {"flush", "finalise"} /\ UNCHANGED <<hashes, sums, expected>>
        /\ block' = [block EXCEPT !.txs = b]
    BY <1>4 DEF ReadEvents, Goto, db
  <2>2. block \in [h : 0 .. MaxHeight, hash : Block, txs : Block]
    BY <1>0 DEF TypeOK
  <2>3. block'.h = block.h /\ block'.hash = block.hash /\ Height' = Height
    BY <2>1, <2>2 DEF Height
  <2> QED BY <2>1, <2>3 DEF Told
<1>5. ASSUME NEW b \in 0 .. Forks, EventsRefused(b)
      PROVE  Told'
  BY <1>1, <1>5 DEF EventsRefused, Goto, db, Told
<1>6. CASE StoreHashes
  <2>1. CASE block.h < PhaseOne \/ HasProg(block.h)
    <3> DEFINE sum == [events |-> Transfers(block.h, block.txs),
                       traces |-> IF block.h < PhaseOne THEN NoBlock ELSE ProgBlock(block.h).txs]
    <3>1. /\ pc = "hashes" /\ Indexing /\ pc' = "verify"
          /\ hashes' = Append(hashes, block.hash) /\ sums' = Append(sums, sum)
          /\ UNCHANGED <<ledger, prog, booting, block, expected>>
      BY <1>6, <2>1 DEF StoreHashes, Goto, Indexing, evm, memory
    <3>2. /\ block.h = Height + 1 /\ block.h \in 1 .. MaxHeight /\ block.hash \in Fork /\ block.txs \in Block
          /\ Transfers(block.h, block.txs) \in Block
      BY <3>1, NextBlock DEF IInv
    <3>3. ~booting /\ LedgerAt(block.h) = {Transfers(block.h, block.txs)} \ {NoBlock}
      BY <3>1 DEF IInv, Control, Executed
    <3>4. sum \in Sum
      <4>1. CASE block.h < PhaseOne
        BY <3>2, <4>1 DEF Sum, Block
      <4>2. CASE ~(block.h < PhaseOne)
        <5>1. block.h - PhaseOne + 1 \in 1 .. Len(prog)
          BY <1>0, <2>1, <3>2, <4>2, Lengths DEF HasProg, ProgHeight
        <5>2. ProgBlock(block.h) \in [h : 1 .. MaxHeight, hash : Fork, txs : Block]
          <6>1. prog \in Seq([h : 1 .. MaxHeight, hash : Fork, txs : Block])
            BY <1>0 DEF TypeOK
          <6> DEFINE i == block.h - PhaseOne + 1
          <6>2. i \in 1 .. Len(prog)
            BY <5>1
          <6> HIDE DEF i
          <6>3. prog[i] \in [h : 1 .. MaxHeight, hash : Fork, txs : Block]
            BY <6>1, <6>2, ElementOfSeq
          <6> QED BY <6>3 DEF i, ProgBlock
        <5>3. ProgBlock(block.h).txs \in Block
          BY <5>2
        <5> QED BY <3>2, <4>2, <5>3 DEF Sum
      <4> QED BY <4>1, <4>2
    <3>5. sum.events = Transfers(block.h, block.txs)
          /\ (~(block.h < PhaseOne) => sum.traces = ProgBlock(block.h).txs)
      OBVIOUS
    <3> HIDE DEF sum
    <3>6. /\ sums' \in Seq(Sum) /\ Len(sums') = Height + 1 /\ sums'[Height + 1] = sum
          /\ Height' = Height + 1 /\ hashes'[Height + 1] = block.hash
      <4>1. sums \in Seq(Sum) /\ Len(sums) = Height /\ hashes \in Seq(Fork) /\ Len(hashes) = Height
        BY <1>0, Shapes DEF Told, Height
      <4>2. Len(hashes') = Height + 1 /\ hashes'[Height + 1] = block.hash
        BY <3>1, <3>2, <4>1
      <4> QED BY <3>1, <3>4, <4>1, <4>2 DEF Height
    <3>7. ~Indexing' /\ Height' = block.h /\ block' = block
      BY <3>1, <3>2, <3>6 DEF Indexing
    <3>8. LedgerAt(Height)' = LedgerAt(block.h)
      BY <3>1, <3>7 DEF LedgerAt
    <3>9. HasProg(Height)' => block.h >= PhaseOne /\ ProgBlock(Height)' = ProgBlock(block.h)
      BY <3>1, <3>7 DEF HasProg, ProgBlock
    <3>10. HasProg(Height)' => ProgBlock(Height)'.txs = sum.traces
      BY <3>2, <3>5, <3>9
    <3>11. Len(expected') >= block'.h /\ expected'[block'.h] = block'.hash /\ expected' \in Seq(Fork)
      BY <3>1, <3>7 DEF Told
    <3>12. block'.h = Height' /\ Height' >= 1 /\ hashes'[Height'] = block'.hash /\ ~booting'
      BY <3>1, <3>2, <3>3, <3>6, <3>7
    <3>13. sums' \in Seq(Sum) /\ Len(sums') = Height' /\ sums'[Height'] = sum
      BY <3>6
    <3>14. LedgerAt(Height)' = {sums'[Height'].events} \ {NoBlock}
      BY <3>3, <3>5, <3>8, <3>13
    <3> QED BY <3>1, <3>7, <3>10, <3>11, <3>12, <3>13, <3>14 DEF Told
  <2>2. CASE ~(block.h < PhaseOne \/ HasProg(block.h))
    BY <1>1, <1>6, <2>2 DEF StoreHashes, Exit, db, Told
  <2> QED BY <2>1, <2>2
<1>7. CASE Verify
  <2>1. pc = "verify" /\ block.h = Height /\ Height >= 1 /\ Stored /\ block' = block
    BY <1>7 DEF Verify, Told
  <2>2. CASE Agrees
    <3>1. pc' = "align" /\ UNCHANGED hashes
      BY <1>7, <2>2 DEF Verify, Loop, Goto, db
    <3>2. Height' <= Height
      BY <1>0, <3>1 DEF Height
    <3> QED BY <1>0, <2>1, <3>1, <3>2, ToldRest
  <2>3. CASE ~Agrees
    <3>1. pc' = "undo" /\ DbReorg(Height - 1)
      BY <1>7, <2>1, <2>3 DEF Verify, Goto
    <3>2. Height - 1 \in Nat /\ TypeOK
      BY <1>0, <2>1
    <3>3. Len(hashes') = (IF Height - 1 < Height THEN Height - 1 ELSE Height) /\ Rows(pending') = {}
      BY <3>1, <3>2, DbReorgFacts
    <3>4. Height' <= Height
      BY <1>0, <3>3 DEF Height
    <3>5. sums' \in Seq(Sum) /\ Len(sums') = Height' /\ expected' \in Seq(Fork)
      BY <1>0, <2>1, <3>4, StoredFacts
    <3>6. ~Indexing' /\ block'.h \in Nat
      BY <1>0, <2>1, <3>1 DEF Indexing
    <3> QED BY <3>1, <3>3, <3>5, <3>6 DEF Told
  <2> QED BY <2>2, <2>3
<1>8. CASE Undo
  BY <1>1, <1>8 DEF Undo, Goto, db, Told
<1> QED BY <1>2, <1>3, <1>4, <1>5, <1>6, <1>7, <1>8

LEMMA ToldStep ==
  ASSUME IInv, IInv', Told, [LightNext]_lightVars
  PROVE  Told'
<1>1. CASE SharedStep /\ Stored
  BY <1>1, SharedTold
<1>2. CASE \/ WaitUnanswered \/ ReadBlockInfo
           \/ EventsFail \/ \E b \in 0 .. Forks : ReadEvents(b) \/ EventsRefused(b)
           \/ StoreHashes \/ Verify \/ Undo
  BY <1>2, LightTold
<1>3. CASE Around /\ UNCHANGED <<sums, expected>>
  BY <1>3, AroundTold
<1>4. CASE UNCHANGED lightVars
  <2>1. UNCHANGED <<hashes, ledger, prog, pc, booting, at, block, pending, sums, expected>>
    BY <1>4 DEF lightVars, vars, db, evm, search, memory
  <2>2. UNCHANGED <<Height, Indexing, LedgerAt(Height), HasProg(Height), ProgBlock(Height)>>
    BY <2>1 DEF Height, Indexing, LedgerAt, HasProg, ProgHeight, ProgBlock
  <2> QED BY <2>1, <2>2 DEF Told
<1> QED BY <1>1, <1>2, <1>3, <1>4 DEF LightNext, LightStep

-----------------------------------------------------------------------------
(* Wrong heights are counted.                                              *)

(* Height h is as right after the step as before it.                       *)
Kept(h) ==
  /\ hashes'[h] = hashes[h]
  /\ LedgerAt(h)' = LedgerAt(h)
  /\ HasProg(h)' => HasProg(h) /\ ProgBlock(h)' = ProgBlock(h)

LEMMA KeptRight == ASSUME NEW h, Kept(h), Right(h) PROVE Right(h)'
  BY DEF Kept, Right, ProgAt

LEMMA Bounds ==
  ASSUME TypeOK, TypeOK'
  PROVE  /\ Height \in Nat /\ Height' \in Nat
         /\ Len(prog) \in Nat /\ Len(prog') \in Nat
         /\ crashes \in Nat /\ crashes' \in Nat
<1>1. crashes \in 0 .. MaxCrashes /\ crashes' \in 0 .. MaxCrashes
  BY DEF TypeOK
<1>2. crashes \in Nat /\ crashes' \in Nat
  BY <1>1, SyncAssumption
<1>3. hashes' \in Seq(Fork) /\ prog' \in Seq([h : 1 .. MaxHeight, hash : Fork, txs : Block])
  BY DEF TypeOK
<1>4. Height' \in Nat /\ Len(prog') \in Nat
  BY <1>3 DEF Height
<1> QED BY <1>2, <1>4, Lengths

LEMMA KeepsKept ==
  ASSUME TypeOK, TypeOK', Keeps, NEW h \in 1 .. Height'
  PROVE  h \in 1 .. Height /\ Kept(h)
<1> USE SyncAssumption
<1>1. Height \in Nat /\ Height' \in Nat /\ Len(prog) \in Nat /\ Len(prog') \in Nat
  BY Bounds
<1>2. Height' <= Height /\ hashes'[h] = hashes[h] /\ LedgerAt(h)' = LedgerAt(h)
  BY DEF Keeps
<1>3. h \in 1 .. Height
  BY <1>1, <1>2
<1>4. ASSUME HasProg(h)'
      PROVE  HasProg(h) /\ ProgBlock(h)' = ProgBlock(h)
  <2>1. h >= PhaseOne /\ h <= PhaseOne - 1 + Len(prog') /\ Len(prog') <= Len(prog)
    BY <1>4 DEF HasProg, ProgHeight, Keeps
  <2>2. h - PhaseOne + 1 \in 1 .. Len(prog') /\ h <= PhaseOne - 1 + Len(prog)
    BY <1>1, <1>3, <2>1
  <2>3. prog'[h - PhaseOne + 1] = prog[h - PhaseOne + 1]
    BY <2>2 DEF Keeps
  <2> QED BY <2>1, <2>2, <2>3 DEF HasProg, ProgHeight, ProgBlock
<1> QED BY <1>2, <1>3, <1>4 DEF Kept

(* Only heights that are not kept can become wrong.                        *)
LEMMA WrongBut ==
  ASSUME NEW D, pc # "verify" \/ (pc' = pc /\ Height' = Height),
         \A h \in (1 .. Height') \ D : h \in 1 .. Height /\ Kept(h)
  PROVE  Wrong' \subseteq Wrong \cup D
<1> SUFFICES ASSUME NEW h \in Wrong', h \notin D
             PROVE  h \in Wrong
  OBVIOUS
<1>1. h \in 1 .. Height' /\ ~Right(h)' /\ (pc' = "verify" => h # Height')
  BY DEF Wrong
<1>2. h \in 1 .. Height /\ Kept(h)
  BY <1>1
<1>3. ~Right(h)
  BY <1>1, <1>2, KeptRight
<1> QED BY <1>1, <1>2, <1>3 DEF Wrong

LEMMA WrongFinite ==
  ASSUME Height \in Nat
  PROVE  IsFiniteSet(Wrong) /\ Cardinality(Wrong) \in Nat
<1>1. IsFiniteSet(1 .. Height)
  BY FS_Interval
<1>2. Wrong \in SUBSET (1 .. Height)
  BY DEF Wrong
<1>3. IsFiniteSet(Wrong)
  BY <1>1, <1>2, FS_Subset
<1> QED BY <1>3, FS_CardinalityType

LEMMA CountSame ==
  ASSUME NEW S, NEW T \in SUBSET S, IsFiniteSet(S)
  PROVE  Cardinality(S) \in Nat /\ Cardinality(T) \in Nat /\ Cardinality(T) <= Cardinality(S)
  BY FS_Subset, FS_CardinalityType

LEMMA CountOne ==
  ASSUME NEW S, NEW p, NEW T \in SUBSET (S \cup {p}), IsFiniteSet(S)
  PROVE  Cardinality(S) \in Nat /\ Cardinality(T) \in Nat /\ Cardinality(T) <= Cardinality(S) + 1
<1>1. IsFiniteSet(S \cup {p}) /\ Cardinality(S) \in Nat
  BY FS_AddElement, FS_CardinalityType
<1>2. Cardinality(S \cup {p}) <= Cardinality(S) + 1
  BY <1>1, FS_AddElement
<1>3. Cardinality(T) \in Nat /\ Cardinality(S \cup {p}) \in Nat /\ Cardinality(T) <= Cardinality(S \cup {p})
  BY <1>1, CountSame
<1> QED BY <1>1, <1>2, <1>3

(* Nothing becomes wrong, and brc20_prog falls behind only by a crash.     *)
LEMMA NoneLost ==
  ASSUME TypeOK, TypeOK', Counted, Wrong' \subseteq Wrong,
         \/ crashes' = crashes /\ (Behind' => Behind)
         \/ crashes' = crashes + 1
  PROVE  Counted'
<1>1. Height \in Nat /\ crashes \in Nat /\ crashes' \in Nat
  BY Bounds
<1>2. /\ Cardinality(Wrong) \in Nat /\ Cardinality(Wrong') \in Nat
      /\ Cardinality(Wrong') <= Cardinality(Wrong)
  BY <1>1, WrongFinite, CountSame
<1> QED BY <1>1, <1>2 DEF Counted

(* One height becomes wrong, for which a crash pays, now or when           *)
(* brc20_prog fell behind.                                                 *)
LEMMA OneLost ==
  ASSUME TypeOK, TypeOK', Counted, NEW p, Wrong' \subseteq Wrong \cup {p}, ~Behind',
         \/ crashes' = crashes /\ Behind
         \/ crashes' = crashes + 1
  PROVE  Counted'
<1>1. Height \in Nat /\ crashes \in Nat /\ crashes' \in Nat
  BY Bounds
<1>2. /\ Cardinality(Wrong) \in Nat /\ Cardinality(Wrong') \in Nat
      /\ Cardinality(Wrong') <= Cardinality(Wrong) + 1
  BY <1>1, WrongFinite, CountOne
<1> QED BY <1>1, <1>2 DEF Counted

(* A step that only takes back.                                            *)
LEMMA KeepsCounted ==
  ASSUME TypeOK, TypeOK', Counted, Keeps,
         pc # "verify" \/ (pc' = pc /\ Height' = Height),
         \/ crashes' = crashes /\ (Behind' => Behind)
         \/ crashes' = crashes + 1
  PROVE  Counted'
<1>1. \A h \in (1 .. Height') \ {} : h \in 1 .. Height /\ Kept(h)
  BY KeepsKept
<1>2. Wrong' \subseteq Wrong \cup {}
  BY <1>1, WrongBut, Zenon
<1> QED BY <1>2, NoneLost

(* Bookkeeping steps leave tables and brc20_prog alone.                    *)
LEMMA RestCounted ==
  ASSUME TypeOK, TypeOK', Counted, UNCHANGED <<hashes, ledger, prog, crashes>>, pc # "verify",
         pc' \notin {"prog", "next", "read", "flush", "finalise"}
           \/ pc \in {"next", "read", "flush", "finalise"}
  PROVE  Counted'
<1>1. Keeps /\ Height' = Height /\ ProgHeight' = ProgHeight
  BY KeepsAll
<1>2. Behind' => Behind
  BY <1>1 DEF Behind
<1> QED BY <1>1, <1>2, KeepsCounted

(* The flush adds no transfers to a block that has its hash.               *)
LEMMA FlushCounted ==
  ASSUME IInv, IInv', Counted, Flush
  PROVE  Counted'
<1>0. /\ pc = "flush" /\ pc' = "finalise" /\ Indexing /\ ledger' = ledger (+) pending
      /\ UNCHANGED <<hashes, prog, crashes>>
  BY DEF Flush, Goto, Indexing, evm
<1>1. TypeOK /\ TypeOK' /\ Height \in Nat /\ Height' = Height /\ ProgHeight' = ProgHeight
  BY <1>0, Shapes DEF IInv, Height, ProgHeight
<1>2. /\ IsABag(ledger) /\ IsABag(pending)
      /\ Rows(ledger) \subseteq Entry /\ Rows(pending) \subseteq Entry
  BY <1>1 DEF TypeOK, Rows
<1>3. Rows(ledger') = Rows(ledger) \cup Rows(pending)
  BY <1>0, <1>2, BagUnionType
<1>4. ASSUME NEW h \in 1 .. Height
      PROVE  Kept(h)
  <2>1. \A e \in Rows(pending) : e.h = h => e.b = NoBlock
    BY <1>1, <1>4 DEF IInv, Entries
  <2>2. {f \in Rows(ledger') : f.h = h} =
          {f \in Rows(ledger) : f.h = h} \cup {f \in Rows(pending) : f.h = h}
    BY <1>3
  <2>3. {e.b : e \in {f \in Rows(ledger') : f.h = h}} \ {NoBlock} =
          {e.b : e \in {f \in Rows(ledger) : f.h = h}} \ {NoBlock}
    BY <2>1, <2>2
  <2>4. LedgerAt(h)' = LedgerAt(h)
    BY <2>3 DEF LedgerAt, Rows
  <2> QED BY <1>0, <2>4 DEF Kept, HasProg, ProgHeight, ProgBlock
<1>5. Wrong' \subseteq Wrong \cup {}
  BY <1>0, <1>1, <1>4, WrongBut
<1>6. Behind' => Behind
  BY <1>0, <1>1 DEF Behind
<1> QED BY <1>0, <1>1, <1>5, <1>6, NoneLost

(* brc20_prog numbers its blocks itself: one that is behind takes the new  *)
(* block at a height that the ledger has.                                  *)
LEMMA FinaliseCounted ==
  ASSUME IInv, IInv', Counted, Finalise
  PROVE  Counted'
<1> USE SyncAssumption
<1> DEFINE sentBlock == [h |-> block.h, hash |-> block.hash, txs |-> Transfers(block.h, block.txs)]
           p == ProgHeight + 1
<1>0. /\ pc = "finalise" /\ pc' \in {"commit", "hashes", "down"} /\ UNCHANGED <<hashes, ledger, crashes>>
      /\ prog' = prog \/ prog' = Append(prog, sentBlock)
  BY DEF Finalise, Exit, Goto, db, evm
<1> HIDE DEF sentBlock
<1>1. /\ TypeOK /\ TypeOK' /\ Height \in Nat /\ Height' = Height
      /\ Len(prog) \in Nat /\ ProgHeight = PhaseOne - 1 + Len(prog)
  BY <1>0, Lengths DEF IInv, Height
<1>2. ~Behind'
  BY <1>0 DEF Behind
<1>3. CASE prog' = prog
  BY <1>0, <1>1, <1>3, RestCounted
<1>4. CASE prog' = Append(prog, sentBlock)
  <2>1. prog \in Seq([h : 1 .. MaxHeight, hash : Fork, txs : Block])
    BY <1>1, Shapes
  <2>2. Len(prog') = Len(prog) + 1 /\ \A i \in 1 .. Len(prog) : prog'[i] = prog[i]
    BY <1>4, <2>1
  <2>3. ASSUME NEW h \in 1 .. Height, h # p \/ Height < PhaseOne
        PROVE  Kept(h)
    <3>1. hashes'[h] = hashes[h] /\ LedgerAt(h)' = LedgerAt(h)
      BY <1>0 DEF LedgerAt
    <3>2. ASSUME HasProg(h)'
          PROVE  HasProg(h) /\ ProgBlock(h)' = ProgBlock(h)
      <4>1. h >= PhaseOne /\ h <= PhaseOne - 1 + Len(prog')
        BY <3>2 DEF HasProg, ProgHeight
      <4>2. h <= PhaseOne - 1 + Len(prog) /\ h - PhaseOne + 1 \in 1 .. Len(prog)
        BY <1>1, <2>2, <2>3, <4>1
      <4> QED BY <2>2, <4>1, <4>2 DEF HasProg, ProgHeight, ProgBlock
    <3> QED BY <3>1, <3>2 DEF Kept
  <2>4. CASE Height < p \/ Height < PhaseOne
    <3>1. \A h \in 1 .. Height : Kept(h)
      BY <1>1, <2>3, <2>4
    <3>2. Wrong' \subseteq Wrong \cup {}
      BY <1>0, <1>1, <3>1, WrongBut
    <3> QED BY <1>0, <1>1, <1>2, <3>2, NoneLost
  <2>5. CASE ~(Height < p \/ Height < PhaseOne)
    <3>1. \A h \in (1 .. Height') \ {p} : h \in 1 .. Height /\ Kept(h)
      BY <1>1, <2>3
    <3>2. Wrong' \subseteq Wrong \cup {p}
      BY <1>0, <3>1, WrongBut
    <3>3. Behind
      BY <1>0, <1>1, <2>5 DEF Behind
    <3> QED BY <1>0, <1>1, <1>2, <3>2, <3>3, OneLost
  <2> QED BY <2>4, <2>5
<1> QED BY <1>0, <1>3, <1>4

(* The search for a common block and what follows it only take back.       *)
LEMMA AlignCounted ==
  ASSUME IInv, IInv', Counted, Align
  PROVE  Counted'
<1> USE SyncAssumption
<1>0. TypeOK /\ TypeOK' /\ Height \in Nat
  BY Shapes DEF IInv
<1>1. /\ pc = "align" /\ crashes' = crashes
      /\ \/ UNCHANGED <<hashes, ledger, prog>> /\ (pc' = "walk" \/ Height = 0)
         \/ DbReorg(ProgHeight) /\ prog' = prog /\ ProgHeight \in 0 .. Height /\ pc' = "walk"
         \/ ProgReorg(Height) /\ UNCHANGED <<hashes, ledger>> /\ pc' = "walk"
  BY <1>0, Lengths DEF Align, Goto, db, evm
<1>2. Keeps /\ (Height = 0 /\ UNCHANGED hashes => Height' = 0)
  BY <1>0, <1>1, KeepsAll, KeepsReorg, KeepsProgReorg DEF Height
<1>3. ~Behind'
  <2>1. CASE pc' = "walk"
    BY <2>1 DEF Behind
  <2>2. CASE Height = 0 /\ UNCHANGED hashes
    BY <1>2, <2>2 DEF Behind
  <2> QED BY <1>1, <2>1, <2>2
<1> QED BY <1>0, <1>1, <1>2, <1>3, KeepsCounted

LEMMA WalkCounted ==
  ASSUME IInv, IInv', Counted, WalkFound \/ WalkDiffers
  PROVE  Counted'
<1> USE SyncAssumption
<1>0. /\ TypeOK /\ TypeOK' /\ Height \in Nat /\ Len(prog) \in Nat
      /\ ProgHeight = PhaseOne - 1 + Len(prog)
  BY Lengths DEF IInv
<1>1. pc = "walk" /\ prog' = prog /\ crashes' = crashes
      /\ at \in 1 .. Height /\ from = Height /\ Known
  BY DEF WalkFound, WalkDiffers, IInv, Control, evm
<1>2. at >= PhaseOne => ProgHeight >= at
  BY <1>1 DEF Known, HasProg
<1>3. \/ UNCHANGED <<hashes, ledger>> /\ (at = Height \/ pc' = "walk")
      \/ DbReorg(at)
  BY <1>1 DEF WalkFound, WalkDiffers, Goto, db
<1>4. Keeps /\ ProgHeight' = ProgHeight /\ (Height' = at \/ pc' = "walk")
  <2>1. CASE UNCHANGED <<hashes, ledger>> /\ (at = Height \/ pc' = "walk")
    BY <1>0, <1>1, <2>1, KeepsAll
  <2>2. CASE DbReorg(at)
    <3>1. at \in 0 .. Height
      BY <1>0, <1>1
    <3> QED BY <1>0, <1>1, <2>2, <3>1, KeepsReorg DEF ProgHeight
  <2> QED BY <1>3, <2>1, <2>2
<1>5. ~Behind'
  BY <1>0, <1>1, <1>2, <1>4 DEF Behind
<1> QED BY <1>0, <1>1, <1>4, <1>5, KeepsCounted

LEMMA AtInt == ASSUME TypeOK PROVE at \in Nat /\ at \in Int
<1>1. at \in Nat
  BY DEF TypeOK
<1> QED BY <1>1

LEMMA ReorgProgCounted ==
  ASSUME IInv, IInv', Told, Counted, ReorgProg
  PROVE  Counted'
<1> USE SyncAssumption
<1>0. /\ TypeOK /\ TypeOK' /\ Height \in Nat /\ Len(prog) \in Nat
      /\ ProgHeight = PhaseOne - 1 + Len(prog)
  BY Lengths DEF IInv
<1>1. /\ pc = "prog" /\ ProgReorg(at) /\ at >= PhaseOne /\ at >= Height
      /\ UNCHANGED <<hashes, ledger, crashes>>
  BY DEF ReorgProg, IInv, Control, Told, db
<1>2. at \in Nat /\ at \in Int
  BY <1>0, AtInt
<1>3. Keeps /\ Height' = Height
  BY <1>0, <1>1, <1>2, KeepsProgReorg
<1>4. Len(prog') = IF at - PhaseOne + 1 < Len(prog) THEN at - PhaseOne + 1 ELSE Len(prog)
  BY <1>0, <1>1, <1>2, ProgReorgFacts
<1>5. Behind' => Behind
  <2>1. ProgHeight' = PhaseOne - 1 + Len(prog')
    BY DEF ProgHeight
  <2>2. ProgHeight' < Height => ProgHeight < Height
    BY <1>0, <1>1, <1>2, <1>4, <2>1
  <2> QED BY <1>1, <1>3, <2>2 DEF Behind
<1> QED BY <1>0, <1>1, <1>3, <1>5, KeepsCounted

LEMMA SharedCounted ==
  ASSUME IInv, IInv', Told, Counted, SharedStep
  PROVE  Counted'
<1> USE SyncAssumption
<1>0. TypeOK /\ TypeOK' /\ Height \in Nat
  BY Shapes DEF IInv
<1>1. CASE Start \/ Wait \/ WalkFails
  BY <1>0, <1>1, RestCounted DEF Start, Wait, WalkFails, Exit, Loop, Goto, db, evm
<1>2. CASE Align \/ WalkFound \/ WalkDiffers \/ ReorgProg \/ Flush \/ Finalise
  BY <1>2, AlignCounted, WalkCounted, ReorgProgCounted, FlushCounted, FinaliseCounted
<1>3. CASE Commit
  BY <1>0, <1>3, RestCounted DEF Commit, Goto, db
<1>4. CASE ReorgResidue
  <2>1. /\ pc = "prog residue" /\ pc' = "align" /\ ProgReorg(at) /\ at \in Int
        /\ UNCHANGED <<hashes, ledger, crashes>>
    BY <1>0, <1>4, AtInt DEF ReorgResidue, Loop, Goto, db
  <2> QED BY <1>0, <2>1, KeepsProgReorg, KeepsCounted DEF Behind
<1>5. CASE ClearCaches
  <2>1. /\ pc = "clear" /\ pc' \in {"align", "prog residue"} /\ crashes' = crashes
        /\ prog' = Prefix(prog, saved)
        /\ DbReorg(Height) \/ UNCHANGED <<hashes, ledger>>
    BY <1>5 DEF ClearCaches, Goto, db
  <2>2. Keeps
    <3>1. CASE DbReorg(Height)
      <4>1. Height \in 0 .. Height
        BY <1>0
      <4> QED BY <1>0, <2>1, <3>1, <4>1, KeepsReorg
    <3>2. CASE UNCHANGED <<hashes, ledger>>
      <4>1. Len(prog') <= Len(prog) /\ \A i \in 1 .. Len(prog') : prog'[i] = prog[i]
        BY <1>0, <2>1, ProgDropFacts, Lengths
      <4>2. \A h : LedgerAt(h)' = LedgerAt(h)
        BY <3>2 DEF LedgerAt
      <4>3. Height' <= Height
        BY <1>0, <3>2 DEF Height
      <4> QED BY <3>2, <4>1, <4>2, <4>3 DEF Keeps
    <3> QED BY <2>1, <3>1, <3>2
  <2>3. ~Behind'
    BY <2>1 DEF Behind
  <2> QED BY <1>0, <2>1, <2>2, <2>3, KeepsCounted
<1> QED BY <1>1, <1>2, <1>3, <1>4, <1>5 DEF SharedStep

(* A block that agrees with the API has the transfers of its hash.         *)
LEMMA AgreesRight ==
  ASSUME IInv, Told, pc = "verify", Agrees
  PROVE  Right(Height)
<1> USE SyncAssumption
<1> DEFINE H == Height
           b == hashes[Height]
<1>1. TypeOK /\ Height \in Nat /\ hashes \in Seq(Fork) /\ Len(hashes) = Height
  BY Shapes DEF IInv, Height
<1>2. /\ block.h = H /\ H \in 1 .. Height /\ b = block.hash
      /\ expected[H] = b
      /\ LedgerAt(H) = {sums[H].events} \ {NoBlock}
      /\ HasProg(H) => ProgBlock(H).txs = sums[H].traces /\ H >= PhaseOne
  BY <1>1 DEF Told, HasProg
<1>3. sums[H].events = Transfers(H, b) /\ (H >= PhaseOne => sums[H].traces = Transfers(H, b))
  BY <1>1, <1>2 DEF Agrees
<1>4. b \in Fork
  BY <1>1, <1>2, ElementOfSeq
<1>5. {Transfers(H, b)} \ {NoBlock} = {b} \ {c \in 1 .. Forks : IsQuiet(H, c)}
  BY <1>4 DEF Transfers, Fork, NoBlock
<1>6. LedgerAt(H) = {b} \ {c \in 1 .. Forks : IsQuiet(H, c)}
  BY <1>2, <1>3, <1>5
<1>7. HasProg(H) => ProgAt(H) = {b} \ {c \in 1 .. Forks : IsQuiet(H, c)}
  BY <1>2, <1>3, <1>5 DEF ProgAt
<1> QED BY <1>6, <1>7 DEF Right

(* The comparison settles the last block: it is right or taken back.       *)
LEMMA VerifyCounted ==
  ASSUME IInv, IInv', Told, Counted, Verify
  PROVE  Counted'
<1>0. /\ TypeOK /\ TypeOK' /\ Height \in Nat /\ pc = "verify"
      /\ block.h = Height /\ Height >= 1 /\ crashes' = crashes /\ prog' = prog
  BY Shapes DEF IInv, Verify, Told, evm
<1>1. pc' \in {"align", "undo"}
  BY DEF Verify, Loop, Goto
<1>2. ~Behind'
  BY <1>1 DEF Behind
<1>3. CASE Agrees
  <2>1. UNCHANGED <<hashes, ledger>>
    BY <1>3 DEF Verify, db
  <2>2. Keeps /\ Height' = Height /\ Right(Height)
    BY <1>0, <1>3, <2>1, KeepsAll, AgreesRight
  <2>3. ASSUME NEW h \in Wrong'
        PROVE  h \in Wrong
    <3>1. h \in 1 .. Height' /\ ~Right(h)'
      BY DEF Wrong
    <3>2. h \in 1 .. Height /\ Kept(h)
      BY <1>0, <2>2, <3>1, KeepsKept
    <3>3. ~Right(h)
      BY <3>1, <3>2, KeptRight
    <3>4. h # Height
      BY <2>2, <3>3
    <3> QED BY <3>2, <3>3, <3>4 DEF Wrong
  <2> QED BY <1>0, <1>2, <2>3, NoneLost
<1>4. CASE ~Agrees
  <2>1. DbReorg(Height - 1) /\ Height - 1 \in 0 .. Height
    BY <1>0, <1>4 DEF Verify
  <2>2. Keeps /\ Height' = Height - 1
    BY <1>0, <2>1, KeepsReorg
  <2>3. ASSUME NEW h \in Wrong'
        PROVE  h \in Wrong
    <3>1. h \in 1 .. Height' /\ ~Right(h)'
      BY DEF Wrong
    <3>2. h \in 1 .. Height /\ Kept(h)
      BY <1>0, <2>2, <3>1, KeepsKept
    <3>3. ~Right(h)
      BY <3>1, <3>2, KeptRight
    <3>4. h # Height
      BY <1>0, <2>2, <3>1
    <3> QED BY <3>2, <3>3, <3>4 DEF Wrong
  <2> QED BY <1>0, <1>2, <2>3, NoneLost
<1> QED BY <1>3, <1>4

LEMMA StoreCounted ==
  ASSUME IInv, IInv', Counted, StoreHashes
  PROVE  Counted'
<1>0. TypeOK /\ TypeOK' /\ Height \in Nat /\ hashes \in Seq(Fork) /\ pc = "hashes"
  BY Shapes DEF IInv, StoreHashes
<1>1. CASE block.h < PhaseOne \/ HasProg(block.h)
  <2>1. /\ pc' = "verify" /\ hashes' = Append(hashes, block.hash)
        /\ UNCHANGED <<ledger, prog, crashes>>
    BY <1>1 DEF StoreHashes, Goto, evm
  <2>2. block.hash \in Fork
    BY <1>0, NextBlock DEF Indexing
  <2>3. Height' = Height + 1 /\ \A h \in 1 .. Height : hashes'[h] = hashes[h]
    BY <1>0, <2>1, <2>2 DEF Height
  <2>4. \A h \in (1 .. Height') \ {Height + 1} : h \in 1 .. Height /\ Kept(h)
    <3>1. ASSUME NEW h \in 1 .. Height
          PROVE  Kept(h)
      BY <2>1, <2>3 DEF Kept, LedgerAt, HasProg, ProgHeight, ProgBlock
    <3>2. ASSUME NEW h \in 1 .. Height + 1, h # Height + 1
          PROVE  h \in 1 .. Height
      BY <1>0, <3>2
    <3> QED BY <2>3, <3>1, <3>2
  <2>5. Wrong' \subseteq Wrong \cup {Height + 1}
    BY <1>0, <2>4, WrongBut
  <2>6. Height + 1 \notin Wrong'
    BY <2>1, <2>3 DEF Wrong
  <2>7. Wrong' \subseteq Wrong /\ ~Behind'
    BY <2>1, <2>5, <2>6 DEF Behind
  <2> QED BY <1>0, <2>1, <2>7, NoneLost
<1>2. CASE ~(block.h < PhaseOne \/ HasProg(block.h))
  BY <1>0, <1>2, RestCounted DEF StoreHashes, Exit, db, evm
<1> QED BY <1>1, <1>2

LEMMA LightCounted ==
  ASSUME IInv, IInv', Told, Counted,
         \/ WaitUnanswered \/ ReadBlockInfo
         \/ EventsFail \/ \E b \in 0 .. Forks : ReadEvents(b) \/ EventsRefused(b)
         \/ StoreHashes \/ Verify \/ Undo
  PROVE  Counted'
<1>0. TypeOK /\ TypeOK'
  BY DEF IInv
<1>1. CASE WaitUnanswered \/ ReadBlockInfo \/ EventsFail
  BY <1>0, <1>1, RestCounted DEF WaitUnanswered, ReadBlockInfo, ReadHash, EventsFail, Exit, Loop, Goto, db, evm
<1>2. CASE \E b \in 0 .. Forks : ReadEvents(b) \/ EventsRefused(b)
  <2>1. PICK b \in 0 .. Forks : ReadEvents(b) \/ EventsRefused(b)
    BY <1>2
  <2> QED BY <1>0, <2>1, RestCounted DEF ReadEvents, EventsRefused, Goto, db
<1>3. CASE Undo
  <2>1. /\ pc = "undo" /\ pc' = "down" /\ ProgReorg(block.h - 1) /\ block.h - 1 \in Int
        /\ UNCHANGED <<hashes, ledger, crashes>>
    BY <1>3 DEF Undo, Goto, db, Told
  <2>2. Keeps
    BY <1>0, <2>1, KeepsProgReorg
  <2>3. ~Behind'
    BY <2>1 DEF Behind
  <2> QED BY <1>0, <2>1, <2>2, <2>3, KeepsCounted
<1>4. CASE StoreHashes \/ Verify
  BY <1>4, StoreCounted, VerifyCounted
<1> QED BY <1>1, <1>2, <1>3, <1>4

(* A crash before the comparison lets one block through.                   *)
LEMMA CrashCounted ==
  ASSUME IInv, IInv', Counted, Crash
  PROVE  Counted'
<1>1. /\ TypeOK /\ TypeOK' /\ pc' = "down" /\ crashes' = crashes + 1
      /\ UNCHANGED <<hashes, ledger, prog>>
  BY DEF IInv, Crash, Exit, db, evm
<1>2. Keeps /\ ~Behind'
  BY <1>1, KeepsAll DEF Behind
<1>3. ASSUME NEW h \in Wrong', h # Height
      PROVE  h \in Wrong
  <2>1. h \in 1 .. Height' /\ ~Right(h)'
    BY DEF Wrong
  <2>2. h \in 1 .. Height /\ Kept(h)
    BY <1>1, <1>2, <2>1, KeepsKept
  <2>3. ~Right(h)
    BY <2>1, <2>2, KeptRight
  <2> QED BY <1>3, <2>2, <2>3 DEF Wrong
<1>4. Wrong' \subseteq Wrong \cup {Height}
  BY <1>3
<1> QED BY <1>1, <1>2, <1>4, OneLost

LEMMA AroundCounted ==
  ASSUME IInv, IInv', Counted, Around \/ UNCHANGED lightVars
  PROVE  Counted'
<1>0. TypeOK /\ TypeOK'
  BY DEF IInv
<1>1. CASE Outside \/ UNCHANGED lightVars
  <2>1. UNCHANGED <<hashes, ledger, prog, pc, crashes>>
    BY <1>1, OutsideFacts DEF IInv, indexer, db, evm, search, memory, lightVars, vars
  <2>2. Keeps /\ Height' = Height /\ ProgHeight' = ProgHeight
    BY <1>0, <2>1, KeepsAll
  <2>3. Behind' => Behind
    BY <2>1, <2>2 DEF Behind
  <2> QED BY <1>0, <2>1, <2>2, <2>3, KeepsCounted
<1>2. CASE ProgCrash
  <2>1. prog' = Prefix(prog, saved) /\ UNCHANGED <<hashes, ledger, pc>> /\ crashes' = crashes + 1
    BY <1>2 DEF ProgCrash, db
  <2>2. Len(prog') <= Len(prog) /\ \A i \in 1 .. Len(prog') : prog'[i] = prog[i]
    BY <1>0, <2>1, ProgDropFacts, Lengths
  <2>3. \A h : LedgerAt(h)' = LedgerAt(h)
    BY <2>1 DEF LedgerAt
  <2>4. Height' = Height /\ Height \in Nat
    BY <1>0, <2>1, Lengths DEF Height
  <2>5. Height' <= Height
    BY <2>4
  <2>6. Keeps
    BY <2>1, <2>2, <2>3, <2>5 DEF Keeps
  <2> QED BY <1>0, <2>1, <2>4, <2>6, KeepsCounted
<1> QED BY <1>1, <1>2, CrashCounted DEF Around, Outside

-----------------------------------------------------------------------------
LEMMA InitLInv == LightInit => LInv
<1> SUFFICES ASSUME LightInit
             PROVE  LInv
  OBVIOUS
<1>1. IInv
  BY InitIInv DEF LightInit
<1>2. sums = <<>> /\ expected = <<>> /\ hashes = <<>> /\ pc = "down" /\ crashes = 0
  BY DEF LightInit, Init
<1>3. Height = 0
  BY <1>2 DEF Height
<1>4. Told
  BY <1>2, <1>3 DEF Told, Indexing
<1>5. Wrong = {} /\ ~Behind
  BY <1>2, <1>3 DEF Wrong, Behind
<1>6. Counted
  BY <1>2, <1>5, FS_EmptySet DEF Counted
<1> QED BY <1>1, <1>4, <1>6 DEF LInv

LEMMA LightInvariance == LightSpec => []LInv
<1>1. ASSUME LInv, [LightNext]_lightVars
      PROVE  LInv'
  <2>1. IInv'
    BY <1>1, LightIInvStep DEF LInv
  <2>2. Told'
    BY <1>1, <2>1, ToldStep DEF LInv
  <2>3. Counted'
    BY <1>1, <2>1, SharedCounted, LightCounted, AroundCounted DEF LInv, LightNext, LightStep
  <2> QED BY <2>1, <2>2, <2>3 DEF LInv
<1> QED BY <1>1, InitLInv, PTL DEF LightSpec

(* Whatever the indexers answer, crash or reorg, a height whose ledger or  *)
(* EVM does not have the transfers of the block its hash names is the one  *)
(* about to be compared (src/modules/brc20_index/src/indexer/              *)
(* brc20_indexer.rs), or one of at most one for each crash.                *)
THEOREM WrongTakenBack == LightSpec => []WrongIsTakenBack
<1>1. LInv => WrongIsTakenBack
  <2> SUFFICES ASSUME LInv
               PROVE  WrongIsTakenBack
    OBVIOUS
  <2> DEFINE W == {h \in 1 .. Height : ~Right(h)}
  <2>1. Height \in Nat /\ crashes \in Nat
    <3>1. crashes \in 0 .. MaxCrashes
      BY DEF LInv, IInv, TypeOK
    <3> QED BY <3>1, Shapes, SyncAssumption DEF LInv, IInv
  <2>2. IsFiniteSet(Wrong) /\ Cardinality(Wrong) \in Nat /\ Cardinality(Wrong) <= crashes
    BY <2>1, WrongFinite DEF LInv, Counted
  <2>3. CASE pc = "verify"
    <3>1. W \subseteq Wrong \cup {Height}
      BY DEF Wrong
    <3> HIDE DEF W
    <3>2. Cardinality(W) \in Nat /\ Cardinality(W) <= Cardinality(Wrong) + 1
      BY <2>2, <3>1, CountOne
    <3>3. Cardinality(W) <= crashes + 1
      BY <2>1, <2>2, <3>2
    <3> QED BY <2>3, <3>3 DEF W, WrongIsTakenBack
  <2>4. CASE pc # "verify"
    <3>1. W = Wrong
      BY <2>4 DEF Wrong
    <3> HIDE DEF W
    <3>2. Cardinality(W) <= crashes + 0
      BY <2>1, <2>2, <3>1
    <3> QED BY <2>4, <3>2 DEF W, WrongIsTakenBack
  <2> QED BY <2>3, <2>4
<1> QED BY <1>1, LightInvariance, PTL

(* In this mode too no block is applied twice, and only the one above the  *)
(* last hash is applied ahead of it.                                       *)
THEOREM LightNoBlockTwice == LightSpec => []AppliedOnce
<1>1. LInv => AppliedOnce
  BY DEF LInv, IInv, Entries, AppliedOnce, Rows
<1> QED BY <1>1, LightInvariance, PTL
=============================================================================
