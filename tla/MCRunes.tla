------------------------------ MODULE MCRunes ------------------------------
(* Fourteen transactions: payments, malformed messages, etchings with and    *)
(* without a name, mints, edicts to one output and to all, and a pointer.  *)
EXTENDS Runes

Says(payload) == [kind |-> "data", payload |-> payload]
Silent  == [kind |-> "none"]
Garbled == [kind |-> "garbled"]
Tx(message, shape, commits) == [message |-> message, shape |-> shape, commits |-> commits]

MCTxs ==
  { Tx(Silent, <<FALSE, FALSE>>, FALSE),
    Tx(Garbled, <<FALSE>>, FALSE),
    Tx(Silent, <<TRUE>>, FALSE),
    \* an unnamed rune: premine 5, two mints of 13
    Tx(Says(<<2, 3, 6, 5, 8, 2, 10, 13>>), <<TRUE, FALSE>>, FALSE),
    \* rune 11: premine 19, two mints of 6, dealt out in equal parts
    Tx(Says(<<2, 3, 4, 11, 6, 19, 8, 2, 10, 6, 0, 0, 0, 0, 2>>), <<FALSE, FALSE>>, TRUE),
    \* the same name in a message with an unknown even tag
    Tx(Says(<<2, 1, 4, 11, 26, 1>>), <<FALSE>>, TRUE),
    \* rune 23, the name that an unnamed rune of 2:1 gets
    Tx(Says(<<2, 1, 4, 23, 6, 1>>), <<FALSE>>, TRUE),
    \* mints of 1:0 and 1:1, an edict that asks for more than there is
    Tx(Says(<<20, 1, 20, 0, 22, 1>>), <<FALSE, FALSE>>, FALSE),
    Tx(Says(<<20, 1, 20, 1, 0, 1, 1, 30, 0>>), <<TRUE, FALSE>>, FALSE),
    \* 4 of 1:0 to every output
    Tx(Says(<<0, 1, 0, 4, 2>>), <<FALSE, FALSE>>, FALSE),
    \* the same edict when there is no such output
    Tx(Says(<<0, 1, 0, 4, 2>>), <<FALSE>>, FALSE),
    \* 3 of 1:1 to the second output and 2 of 2:1 to the first
    Tx(Says(<<0, 1, 1, 3, 1, 1, 1, 2, 0>>), <<FALSE, FALSE>>, FALSE),
    \* one mint of 4, from block 2 on and before the second block after this one
    Tx(Says(<<2, 3, 8, 1, 10, 4, 12, 2, 18, 2>>), <<FALSE>>, FALSE),
    \* a rune whose supply is not a u128: 20 + 2 * 6
    Tx(Says(<<2, 3, 6, 20, 8, 2, 10, 6>>), <<FALSE>>, FALSE) }
=============================================================================
