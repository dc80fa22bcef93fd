--------------------------- MODULE MCInscriptions ---------------------------
(* Transactions that reveal and move, with and without fees, pointers,      *)
(* outputs of no value, several envelopes, and payments to one output.     *)
EXTENDS Inscriptions

If  == [op |-> "if", n |-> 0]
End == [op |-> "endif", n |-> 0]
Num(n) == [op |-> "num", n |-> n]
Envelope(pushes) == <<Empty, If, Push(Ord)>> \o pushes \o <<End>>
Note == Envelope(<<Push(1), Push(Text), Empty, Push(7)>>)
Image == Envelope(<<Push(1), Push(9), Empty, Push(7)>>)
At(p) == Envelope(<<Push(2), Push(p), Empty, Push(Json)>>)

Out(values) == [v \in DOMAIN values |-> [value |-> values[v]]]
Tx(scripts, values) == [scripts |-> scripts, outs |-> Out(values)]

MCTxs ==
  { Tx(<< << >> >>, <<1>>),                            \* pays a fee
    Tx(<< << >>, << >> >>, <<1, 2>>),
    Tx(<<Note>>, <<1, 1>>),
    Tx(<<Note \o At(1)>>, <<0, 1>>),                   \* two on the first sat, or in the fee
    Tx(<<Envelope(<<Num(1), Push(Text), Push(3), Push(120)>>)>>, <<2>>),
    Tx(<< << >>, At(1) \o Image>>, <<2>>) }
MCCoinbases == {Out(<<1>>), Out(<<1, 1>>)}
MCGenesis == <<2, 2>>
=============================================================================
