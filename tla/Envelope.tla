------------------------------ MODULE Envelope ------------------------------
(***************************************************************************)
(* How OPI-ord finds inscriptions in a tapscript: OP_FALSE OP_IF "ord",    *)
(* pushes, OP_ENDIF (RawEnvelope::from_tapscript), and what the pushes say *)
(* (From<RawEnvelope> for ParsedEnvelope).                                 *)
(*                                                                         *)
(* An instruction is [op, n]: a push of n, a number opcode that pushes n,  *)
(* OP_IF, OP_ENDIF, another opcode, or "bad" where the script does not     *)
(* parse. Contents are numbers; 0 is the empty push.                       *)
(***************************************************************************)
EXTENDS Integers, Sequences, SequencesExt

Push(n) == [op |-> "push", n |-> n]
Empty == Push(0)
Ord   == 111        \* PROTOCOL_ID
Json  == 123        \* a body that is JSON
Text  == 116        \* text/plain or application/json

ContentType == 1
Pointer     == 2
Parent      == 3

None == << >>
Some(v) == <<v>>

(* The state of the scan: outside, after an empty push, after OP_IF, or in *)
(* an envelope. stuttered: the last attempt at an envelope ended at an     *)
(* empty push.                                                             *)
Scan == [mode |-> "out", stuttered |-> FALSE, payload |-> << >>, pushnum |-> FALSE, found |-> << >>]

InEnvelope(s, i) ==
  CASE i.op = "endif" -> [s EXCEPT !.mode = "out",
                            !.found = Append(@, [payload |-> s.payload, pushnum |-> s.pushnum,
                                                 stutter |-> s.stuttered])]
    [] i.op = "push"  -> [s EXCEPT !.payload = Append(@, i.n)]
    [] i.op = "num"   -> [s EXCEPT !.payload = Append(@, i.n), !.pushnum = TRUE]
    [] OTHER          -> [s EXCEPT !.mode = "out", !.stuttered = FALSE]

ReadInstruction(s, i) ==
  CASE s.mode = "in"                    -> InEnvelope(s, i)
    [] s.mode = "zero" /\ i.op = "if"   -> [s EXCEPT !.mode = "if"]
    [] s.mode = "if" /\ i = Push(Ord)   -> [s EXCEPT !.mode = "in", !.payload = << >>, !.pushnum = FALSE]
    [] OTHER                            -> [s EXCEPT !.mode = IF i = Empty THEN "zero" ELSE "out",
                                              !.stuttered = IF s.mode = "out" THEN @ ELSE i = Empty]

(* One flaw in the script hides all its envelopes.                         *)
RawEnvelopes(script) ==
  IF \E k \in DOMAIN script : script[k].op = "bad" THEN << >>
  ELSE FoldLeft(ReadInstruction, Scan, script).found

-----------------------------------------------------------------------------
(* Tags and values up to the first empty tag, then the body.               *)
BodyAt(p) ==
  CHOOSE i \in 1 .. Len(p) + 1 :
    /\ i = Len(p) + 1 \/ (i % 2 = 1 /\ p[i] = 0)
    /\ \A j \in 1 .. i - 1 : ~ (j % 2 = 1 /\ p[j] = 0)

Fields(p) == [k \in 1 .. (BodyAt(p) - 1) \div 2 |-> [tag |-> p[2 * k - 1], value |-> p[2 * k]]]

Values(p, tag) ==
  LET mine == SelectSeq(Fields(p), LAMBDA f : f.tag = tag)
  IN  [k \in 1 .. Len(mine) |-> mine[k].value]

First(s) == IF s = << >> THEN None ELSE Some(s[1])

(* An inscription id as the value of a field.                              *)
FromValue(n) == <<n \div 100, (n \div 10) % 10, n % 10>>

(* Of the even tags only the pointer is known, and it is taken once.       *)
Parsed(e) ==
  LET p == e.payload
      tags == {Fields(p)[k].tag : k \in DOMAIN Fields(p)}
      body == IF BodyAt(p) > Len(p) THEN None ELSE Some(SubSeq(p, BodyAt(p) + 1, Len(p)))
  IN  [duplicate  |-> \E tag \in tags : Len(Values(p, tag)) > 1,
       incomplete |-> BodyAt(p) % 2 = 0,
       even       |-> \E tag \in tags : tag % 2 = 0 /\ Len(Values(p, tag)) > (IF tag = Pointer THEN 1 ELSE 0),
       pointer    |-> First(Values(p, Pointer)),
       parents    |-> LET v == Values(p, Parent) IN [k \in DOMAIN v |-> FromValue(v[k])],
       json       |-> body = Some(<<Json>>),
       text       |-> First(Values(p, ContentType)) = Some(Text),
       pushnum    |-> e.pushnum,
       stutter    |-> e.stutter]

(* ParsedEnvelope::from_transaction for one input.                         *)
EnvelopesOf(script) ==
  LET raw == RawEnvelopes(script) IN [k \in DOMAIN raw |-> Parsed(raw[k])]
=============================================================================
