--------------------------- MODULE MCRunesTables ---------------------------
(* Three blocks on two forks: a rune that is minted and burned, one that is *)
(* minted in the block that etches it, outputs spent on either fork, and a *)
(* block without changes.                                                  *)
EXTENDS RunesTables

O(op, x) == [op |-> op, x |-> x]

MCOps ==
  << << <<O("etch", "r1"), O("create", "o1")>>,
        << >> >>,
     << <<O("mint", "r1"), O("spend", "o1"), O("create", "o2")>>,
        << >> >>,
     << <<O("burn", "r1"), O("spend", "o2")>>,
        <<O("mint", "r1"), O("etch", "r2"), O("mint", "r2")>> >> >>
=============================================================================
