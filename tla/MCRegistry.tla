----------------------------- MODULE MCRegistry -----------------------------
(* Four blocks on three forks: names that are taken on both, in the same    *)
(* block or later, badly written ones, and a block without inscriptions.   *)
EXTENDS Registry

Map(id, suffix, chars) == [id |-> id, content |-> [suffix |-> suffix, chars |-> chars]]
W(word, dots, fits)    == [word |-> word, dots |-> dots, fits |-> fits]
Sns(id, json, p, op, text) ==
  [id |-> id, content |-> [json |-> json, p |-> p, op |-> op, text |-> text]]

A == W("a.x", 1, TRUE)
X == W("x", 0, TRUE)
Long == W("l.x", 1, FALSE)

MCInscriptions ==
  [bitmap |->
     << << <<Map("i1", TRUE, <<1>>), Map("i2", TRUE, <<0, 1>>), Map("i3", TRUE, <<2>>)>>,
           <<Map("j1", TRUE, <<0>>)>>,
           << >> >>,
        << <<Map("i4", TRUE, <<1>>), Map("i5", TRUE, <<2>>)>>,
           <<Map("j2", FALSE, <<1>>), Map("j3", TRUE, <<1>>), Map("j4", TRUE, <<1>>)>>,
           <<Map("k1", TRUE, <<0>>)>> >>,
        << << >>,
           <<Map("j5", TRUE, <<10>>), Map("j6", TRUE, << >>)>>,
           <<Map("k2", TRUE, <<2>>), Map("k3", TRUE, <<2>>)>> >>,
        << <<Map("i6", TRUE, <<0>>)>>,
           <<Map("j7", TRUE, <<2>>)>>,
           <<Map("k4", TRUE, <<1>>)>> >> >>,
   sns |->
     << << <<Sns("i1", FALSE, "", "", <<A>>), Sns("i2", TRUE, "sns", "reg", <<A>>),
             Sns("i3", TRUE, "sns", "ns", <<X>>)>>,
           <<Sns("j1", TRUE, "brc", "reg", <<A>>), Sns("j2", TRUE, "sns", "reg", <<X>>)>>,
           << >> >>,
        << <<Sns("i4", TRUE, "sns", "ns", <<X>>), Sns("i5", FALSE, "", "", <<Long>>)>>,
           <<Sns("j3", TRUE, "sns", "reg", <<A>>), Sns("j4", FALSE, "", "", <<X>>)>>,
           <<Sns("k1", FALSE, "", "", <<A>>)>> >>,
        << << >>,
           <<Sns("j5", TRUE, "sns", "ns", << >>)>>,
           <<Sns("k2", TRUE, "sns", "reg", <<A>>)>> >>,
        << <<Sns("i6", FALSE, "", "", <<A>>)>>,
           <<Sns("j6", TRUE, "sns", "ns", <<X>>)>>,
           <<Sns("k3", TRUE, "sns", "ns", <<X>>), Sns("k4", TRUE, "sns", "ns", <<X>>)>> >> >>]
=============================================================================
