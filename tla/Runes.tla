------------------------------- MODULE Runes -------------------------------
(***************************************************************************)
(* The runes ledger of ord-runes: what RuneUpdater does with each          *)
(* transaction of a block, loop by loop (index_runes), and with the block  *)
(* (update). Rune names are numbers, runes are identified by the place of  *)
(* their etching <<block, tx>>, outputs by the place of their transaction  *)
(* and their number, from 1. A map is total: a missing balance is 0.       *)
(* The events of a transaction that go to runes_output.txt are kept as     *)
(* their net sum by rune: inputs, premine and mint minus outputs and burns.*)
(***************************************************************************)
EXTENDS Runestone

CONSTANTS
  Txs,             \* what a transaction can look like: [message, shape, commits]
  MaxHeight,       \* blocks 1 .. MaxHeight
  MaxTx,           \* transactions 0 .. MaxTx of a block
  MaxOutputs,      \* outputs of a transaction
  MaxInputs,       \* inputs of a transaction that hold runes
  FirstRuneHeight, \* Rune::first_rune_height
  Interval,        \* SUBSIDY_HALVING_INTERVAL / 12
  Letters,         \* 26
  Reserved         \* Rune::RESERVED

ASSUME RunesAssumption ==
  /\ U32 \in Nat /\ U64 \in Nat /\ U128 \in Nat \ {0}
  /\ MaxHeight \in Nat /\ MaxTx \in Nat /\ MaxTx < U32
  /\ MaxOutputs \in Nat /\ MaxInputs \in Nat
  /\ FirstRuneHeight \in Nat /\ Interval \in Nat \ {0} /\ Letters \in Nat /\ Reserved \in Nat
  /\ \A t \in Txs :
       /\ t.shape \in Seq(BOOLEAN) /\ Len(t.shape) <= MaxOutputs
       /\ t.commits \in BOOLEAN
       /\ t.message.kind \in {"none", "garbled", "data"}
       /\ t.message.kind = "data" => t.message.payload \in Seq(0 .. U128 - 1)

Heights   == 1 .. MaxHeight
Ids       == Heights \X (0 .. MaxTx)
Outs      == 1 .. MaxOutputs
Outpoints == Ids \X Outs
Zero      == [id \in Ids |-> 0]

VARIABLES
  height,       \* the block being indexed
  index,        \* the transaction of it that is next or in progress
  entries,      \* id_to_entry and rune_to_id: rune by id, or None
  balances,     \* outpoint_to_balances
  burned,       \* self.burned: burned in this block, not yet in the entries
  tx,           \* the transaction in progress: phase, what it says, what is left of it
  unallocated,  \* its runes without an output
  allocated,    \* its runes by output
  txBurned,     \* its burned runes
  net,          \* net sum of the event lines written for it
  panicked      \* a checked sum, an assert! or an unwrap failed

block == <<height, index, entries, balances, burned>>
vars  == <<height, index, entries, balances, burned, tx, unallocated, allocated, txBurned, net,
           panicked>>

Here == <<height, index>>


(* Rune::STEPS: the first name of each length.                             *)
Steps[n \in 0 .. 12] == IF n = 0 THEN 0 ELSE Letters * (Steps[n - 1] + 1)

(* Rune::minimum_at_height: shorter names are let in as the blocks pass.   *)
Minimum(h) ==
  LET offset   == h + 1
      progress == offset - FirstRuneHeight
      length   == 12 - progress \div Interval
  IN  IF offset < FirstRuneHeight THEN Steps[12]
      ELSE IF progress >= 12 * Interval THEN 0
      ELSE Steps[length]
           - ((Steps[length] - Steps[length - 1]) * (progress % Interval)) \div Interval

(* Rune::reserved: the name of a rune that is etched without one.          *)
ReservedName == Reserved + height * U32 + index

Etched(id) == entries[id] # None
Entry(id)  == entries[id][1]
Taken(name) == \E id \in Ids : Etched(id) /\ Entry(id).rune = name

Larger(a, b)  == IF a >= b THEN a ELSE b
Smaller(a, b) == IF a <= b THEN a ELSE b
Sat(a, b)     == Smaller(a + b, U64 - 1)   \* saturating_add

\* Mutant: the cap is one off, the window is forgotten.
MintableLoose(id) ==
  /\ Etched(id)
  /\ Entry(id).terms # None
  /\ Entry(id).mints <= Default(Entry(id).terms[1].cap)

(* RuneEntry::mintable with start and end: the window is the overlap of    *)
(* the absolute heights and those relative to the etching.                 *)
Mintable(id) ==
  /\ Etched(id)
  /\ Entry(id).terms # None
  /\ LET terms == Entry(id).terms[1]
         opens(o)  == o # None => height >= o[1]
         closes(o) == o # None => height < o[1]
         after(o)  == IF o = None THEN None ELSE Some(Sat(id[1], o[1]))
     IN  /\ opens(terms.heightStart) /\ opens(after(terms.offsetStart))
         /\ closes(terms.heightEnd)  /\ closes(after(terms.offsetEnd))
         /\ Entry(id).mints < Default(terms.cap)

Plus(f, g)    == [id \in Ids |-> f[id] + g[id]]
Minus(f, g)   == [id \in Ids |-> f[id] - g[id]]
Add(f, id, n) == [f EXCEPT ![id] = @ + n]

(* Lot's checked_add panics on a sum that is not a u128.                   *)
Overflows(f) == \E id \in Ids : f[id] >= U128

Nothing == [id |-> NoRune, each |-> 0, remainder |-> 0, amount |-> 0, outs |-> {}]
Idle == [phase |-> "idle", shape |-> << >>, artifact |-> NoArtifact, commits |-> FALSE,
         inputs |-> {}, etched |-> None, edicts |-> << >>, spread |-> Nothing, vout |-> 1]

Init ==
  /\ height = 1 /\ index = 0
  /\ entries = [id \in Ids |-> None]
  /\ balances = [o \in Outpoints |-> Zero]
  /\ burned = Zero
  /\ tx = Idle
  /\ unallocated = Zero
  /\ allocated = [v \in Outs |-> Zero]
  /\ txBurned = Zero
  /\ net = Zero
  /\ panicked = FALSE

-----------------------------------------------------------------------------
(* index_runes *)

Holding == {o \in Outpoints : balances[o] # Zero}

Begin(t, inputs) ==
  /\ tx.phase = "idle" /\ height \in Heights /\ index <= MaxTx
  /\ inputs \subseteq Holding
  /\ Cardinality(inputs) <= MaxInputs
  /\ tx' = [Idle EXCEPT !.phase = "inputs", !.shape = t.shape, !.commits = t.commits,
                        !.artifact = Decipher(t.message, Len(t.shape)), !.inputs = inputs]
  /\ UNCHANGED <<height, index, entries, balances, burned, unallocated, allocated, txBurned, net,
                 panicked>>

(* unallocated(): an input gives its runes up.                             *)
TakeInput(o) ==
  /\ tx.phase = "inputs" /\ o \in tx.inputs
  /\ unallocated' = Plus(unallocated, balances[o])
  /\ balances' = [balances EXCEPT ![o] = Zero]
  /\ net' = Plus(net, balances[o])
  /\ tx' = [tx EXCEPT !.inputs = @ \ {o}]
  /\ panicked' = Overflows(unallocated')
  /\ UNCHANGED <<height, index, entries, burned, allocated, txBurned>>

(* mint(): one more of the rune that the message names, if its terms allow.*)
Mints == tx.artifact.mint # None /\ tx.artifact.mint[1] \in Ids /\ Mintable(tx.artifact.mint[1])

MintRune ==
  /\ tx.phase = "inputs" /\ tx.inputs = {}
  /\ tx' = [tx EXCEPT !.phase = "etch"]
  /\ \/ /\ Mints
        /\ LET id     == tx.artifact.mint[1]
               amount == Default(Entry(id).terms[1].amount)
           IN  /\ entries' = [entries EXCEPT ![id] = Some([Entry(id) EXCEPT !.mints = @ + 1])]
               /\ unallocated' = Add(unallocated, id, amount)
               /\ net' = Add(net, id, amount)
        /\ panicked' = Overflows(unallocated')
     \/ /\ ~ Mints
        /\ UNCHANGED <<entries, unallocated, net, panicked>>
  /\ UNCHANGED <<height, index, balances, burned, allocated, txBurned>>

\* Mutant: a name in the range that is kept for unnamed runes is let in.
NameFreeLoose(name) == name >= Minimum(height) /\ ~ Taken(name) /\ tx.commits

(* etched(): the name of a message counts if it is long enough, not kept   *)
(* for unnamed runes, not taken, and an input has committed to it.         *)
NameFree(name) ==
  /\ name >= Minimum(height)
  /\ name < Reserved
  /\ ~ Taken(name)
  /\ tx.commits

Etches ==
  /\ tx.artifact.etching # None
  /\ LET rune == tx.artifact.etching[1].rune IN rune # None => NameFree(rune[1])

(* The entry that create_rune_entry will make.                             *)
NewEntry ==
  LET e == tx.artifact.etching[1]
  IN  [rune    |-> IF e.rune = None THEN ReservedName ELSE e.rune[1],
       premine |-> IF tx.artifact.kind = "runestone" THEN Default(e.premine) ELSE 0,
       terms   |-> IF tx.artifact.kind = "runestone" THEN e.terms ELSE None,
       mints   |-> 0, burned |-> 0]

(* etched(), and the premine of a runestone.                               *)
Etch ==
  /\ tx.phase = "etch"
  /\ \/ /\ Etches
        /\ tx' = [tx EXCEPT !.phase = "edicts", !.edicts = tx.artifact.edicts, !.etched = Some(NewEntry)]
        /\ unallocated' = Add(unallocated, Here, NewEntry.premine)
        /\ net' = Add(net, Here, NewEntry.premine)
        /\ panicked' = Overflows(unallocated')
     \/ /\ ~ Etches
        /\ tx' = [tx EXCEPT !.phase = "edicts", !.edicts = tx.artifact.edicts]
        /\ UNCHANGED <<unallocated, net, panicked>>
  /\ UNCHANGED <<height, index, entries, balances, burned, allocated, txBurned>>

(* The outputs that are not OP_RETURN.                                     *)
Spendable(shape) == {v \in DOMAIN shape : ~ shape[v]}

(* The rune of an edict: 0:0 is the one this transaction etches.           *)
RuneOf(e) ==
  IF e.id # NoRune THEN e.id ELSE IF tx.etched # None THEN Here ELSE NoRune

(* Who gets how much: an amount of zero is all there is, in equal parts if *)
(* the output is one past the last.                                        *)
SpreadOf(e) ==
  LET outs == IF e.output = Len(tx.shape) THEN Spendable(tx.shape) ELSE {e.output + 1}
      n    == Cardinality(outs)
      b    == unallocated[RuneOf(e)]
  IN  IF n = 0 THEN Nothing
      ELSE [Nothing EXCEPT !.id = RuneOf(e), !.amount = e.amount, !.outs = outs,
                           !.each = b \div n, !.remainder = b % n]

NextEdict ==
  /\ tx.phase = "edicts" /\ tx.spread.outs = {} /\ tx.edicts # << >>
  /\ LET e == Head(tx.edicts)
     IN  /\ panicked' = (e.output > Len(tx.shape))
         /\ tx' = [tx EXCEPT !.edicts = Tail(@),
                             !.spread = IF panicked' \/ RuneOf(e) \notin Ids THEN Nothing ELSE SpreadOf(e)]
  /\ UNCHANGED <<height, index, entries, balances, burned, unallocated, allocated, txBurned, net>>

(* The closure allocate, once for each output of the edict, the first      *)
(* outputs first.                                                          *)
Allocate ==
  /\ tx.phase = "edicts" /\ tx.spread.outs # {}
  /\ LET s == tx.spread
         v == Min(s.outs)
         n == IF s.amount > 0 THEN Smaller(s.amount, unallocated[s.id])
              ELSE s.each + (IF s.remainder > 0 THEN 1 ELSE 0)
     IN  /\ unallocated' = Add(unallocated, s.id, 0 - n)
         /\ allocated' = [allocated EXCEPT ![v] = Add(@, s.id, n)]
         /\ panicked' = (n > unallocated[s.id] \/ Overflows(allocated'[v]))
         /\ tx' = [tx EXCEPT !.spread.outs = @ \ {v},
                             !.spread.remainder = IF @ > 0 THEN @ - 1 ELSE 0]
  /\ UNCHANGED <<height, index, entries, balances, burned, txBurned, net>>

(* create_rune_entry: the rune exists once its own edicts are done.        *)
CreateRuneEntry ==
  /\ tx.phase = "edicts" /\ tx.spread.outs = {} /\ tx.edicts = << >>
  /\ tx' = [tx EXCEPT !.phase = "rest", !.etched = None]
  /\ entries' = IF tx.etched = None THEN entries ELSE [entries EXCEPT ![Here] = tx.etched]
  /\ UNCHANGED <<height, index, balances, burned, unallocated, allocated, txBurned, net, panicked>>

\* Mutant: what a cenotaph leaves over goes to an output like any other.
RestToLoose ==
  IF tx.artifact.pointer # None THEN Some(tx.artifact.pointer[1] + 1)
  ELSE IF Spendable(tx.shape) # {} THEN Some(Min(Spendable(tx.shape)))
  ELSE None

(* Where runes without an edict go: nowhere for a cenotaph.                *)
RestTo ==
  IF tx.artifact.kind = "cenotaph" THEN None
  ELSE IF tx.artifact.pointer # None THEN Some(tx.artifact.pointer[1] + 1)
  ELSE IF Spendable(tx.shape) # {} THEN Some(Min(Spendable(tx.shape)))
  ELSE None

Rest ==
  /\ tx.phase = "rest"
  /\ tx' = [tx EXCEPT !.phase = "outputs"]
  /\ unallocated' = Zero
  /\ \/ /\ RestTo = None
        /\ txBurned' = unallocated
        /\ UNCHANGED <<allocated, panicked>>
     \/ /\ RestTo # None
        /\ allocated' = [v \in Outs |-> IF v = RestTo[1] THEN Plus(allocated[v], unallocated)
                                        ELSE allocated[v]]
        /\ panicked' = (RestTo[1] > Len(tx.shape) \/ Overflows(allocated'[RestTo[1]]))
        /\ UNCHANGED txBurned
  /\ UNCHANGED <<height, index, entries, balances, burned, net>>

\* Mutant: what an OP_RETURN output gets is dropped.
WriteOutputDropped ==
  /\ tx.phase = "outputs" /\ tx.vout <= Len(tx.shape)
  /\ tx' = [tx EXCEPT !.vout = @ + 1]
  /\ allocated' = [allocated EXCEPT ![tx.vout] = Zero]
  /\ IF tx.shape[tx.vout] THEN UNCHANGED <<balances, net>>
     ELSE /\ balances' = [balances EXCEPT ![<<Here, tx.vout>>] = allocated[tx.vout]]
          /\ net' = Minus(net, allocated[tx.vout])
  /\ UNCHANGED <<height, index, entries, burned, unallocated, txBurned, panicked>>

(* The balances of the outputs; what an OP_RETURN output gets is burned.   *)
WriteOutput ==
  /\ tx.phase = "outputs" /\ tx.vout <= Len(tx.shape)
  /\ tx' = [tx EXCEPT !.vout = @ + 1]
  /\ allocated' = [allocated EXCEPT ![tx.vout] = Zero]
  /\ \/ /\ tx.shape[tx.vout]
        /\ txBurned' = Plus(txBurned, allocated[tx.vout])
        /\ panicked' = Overflows(txBurned')
        /\ UNCHANGED <<balances, net>>
     \/ /\ ~ tx.shape[tx.vout]
        /\ balances' = [balances EXCEPT ![<<Here, tx.vout>>] = allocated[tx.vout]]
        /\ net' = Minus(net, allocated[tx.vout])
        /\ UNCHANGED <<txBurned, panicked>>
  /\ UNCHANGED <<height, index, entries, burned, unallocated>>

\* Mutant: no event line for what is burned.
EndTxSilent ==
  /\ tx.phase = "outputs" /\ tx.vout > Len(tx.shape)
  /\ burned' = Plus(burned, txBurned)
  /\ txBurned' = Zero
  /\ tx' = Idle
  /\ index' = index + 1
  /\ panicked' = Overflows(burned')
  /\ UNCHANGED <<height, entries, balances, unallocated, allocated, net>>

(* The burns of the transaction are written and kept for the block.        *)
EndTx ==
  /\ tx.phase = "outputs" /\ tx.vout > Len(tx.shape)
  /\ burned' = Plus(burned, txBurned)
  /\ net' = Minus(net, txBurned)
  /\ txBurned' = Zero
  /\ tx' = Idle
  /\ index' = index + 1
  /\ panicked' = Overflows(burned')
  /\ UNCHANGED <<height, entries, balances, unallocated, allocated>>

-----------------------------------------------------------------------------
(* update(): the burns of the block are added to the entries, which must   *)
(* be there.                                                               *)
EndBlock ==
  /\ tx.phase = "idle" /\ height \in Heights
  /\ entries' = [id \in Ids |-> IF Etched(id) THEN Some([Entry(id) EXCEPT !.burned = @ + burned[id]])
                                ELSE None]
  /\ burned' = Zero
  /\ height' = height + 1 /\ index' = 0
  /\ panicked' = \E id \in Ids : /\ burned[id] > 0
                                 /\ ~ Etched(id) \/ Entry(id).burned + burned[id] >= U128
  /\ UNCHANGED <<balances, tx, unallocated, allocated, txBurned, net>>

Running ==
  \/ \E t \in Txs, inputs \in SUBSET Holding : Begin(t, inputs)
  \/ \E o \in Outpoints : TakeInput(o)
  \/ MintRune \/ Etch
  \/ NextEdict \/ Allocate
  \/ CreateRuneEntry \/ Rest
  \/ WriteOutput \/ EndTx
  \/ EndBlock

(* A panic ends the process before the block is committed.                 *)
Next == ~ panicked /\ Running

Spec == Init /\ [][Next]_vars

-----------------------------------------------------------------------------
(* The state is made of amounts, and what a rune is does not change while  *)
(* ord-runes works on a transaction.                                       *)
Amounts == [Ids -> Nat]
Options(S) == {None} \cup {Some(v) : v \in S}
EntryOK(e) ==
  /\ e.rune \in Nat /\ e.premine \in Nat /\ e.mints \in Nat /\ e.burned \in Nat
  /\ e.terms # None =>
       /\ Default(e.terms[1].cap) \in Nat /\ Default(e.terms[1].amount) \in Nat
       /\ e.mints <= Default(e.terms[1].cap)
  /\ e.terms = None => e.mints = 0
TypeOK ==
  /\ height \in 1 .. MaxHeight + 1 /\ index \in 0 .. MaxTx + 1
  /\ \A id \in Ids : Etched(id) => EntryOK(Entry(id))
  /\ \A id \in Ids : Etched(id) => id[1] < height \/ (id[1] = height /\ id[2] <= index)
  /\ balances \in [Outpoints -> Amounts] /\ allocated \in [Outs -> Amounts]
  /\ burned \in Amounts /\ unallocated \in Amounts /\ txBurned \in Amounts
  /\ tx.phase \in {"idle", "inputs", "etch", "edicts", "rest", "outputs"}
  /\ tx.etched # None => tx.phase = "edicts" /\ EntryOK(tx.etched[1])
  /\ panicked \in BOOLEAN

(* What was ever handed out of a rune: its premine and its mints.          *)
Issued(e) == e.premine + e.mints * (IF e.terms = None THEN 0 ELSE Default(e.terms[1].amount))
IssuedOf(id) ==
  IF Etched(id) THEN Issued(Entry(id))
  ELSE IF id = Here /\ tx.etched # None THEN Issued(tx.etched[1])
  ELSE 0

Held(id)  == SumFunctionOnSet([o \in Outpoints |-> balances[o][id]], Outpoints)
InTx(id)  == unallocated[id] + SumFunctionOnSet([v \in Outs |-> allocated[v][id]], Outs) + txBurned[id]
Burned(id) == burned[id] + (IF Etched(id) THEN Entry(id).burned ELSE 0)

(* No rune appears or vanishes between the inputs, the edicts, the pointer *)
(* and the outputs: what was issued is held, in the transaction or burned. *)
Conserved == \A id \in Ids : IssuedOf(id) = Held(id) + InTx(id) + Burned(id)

(* No assert!, checked sum or unwrap of index_runes and update fails: no   *)
(* message can stop the indexer at its block.                              *)
NoPanic == ~ panicked

(* rune_to_id is a map: no two runes have the same name, those that were   *)
(* etched without a name included.                                         *)
NamesUnique ==
  \A i, j \in Ids : Etched(i) /\ Etched(j) /\ Entry(i).rune = Entry(j).rune => i = j

(* The event lines of a finished transaction add up: what went in, was     *)
(* etched or minted also went to an output or was burned.                  *)
EventsBalance == tx.phase = "idle" => net = Zero

(* A wallet says what it means: a message that is read as a runestone is   *)
(* written by encipher in a form that is read as the same runestone.       *)
RoundTrip ==
  tx.artifact.kind = "runestone" =>
    Decipher([kind |-> "data", payload |-> Encipher(tx.artifact)], Len(tx.shape)) = tx.artifact

(* A malformed message burns all the runes of its transaction: no output   *)
(* of a cenotaph ever gets any.                                            *)
CenotaphBurns ==
  [][tx.artifact.kind = "cenotaph" =>
       \A o \in Outpoints : balances'[o] = balances[o] \/ balances'[o] = Zero]_vars
=============================================================================
