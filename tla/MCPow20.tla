------------------------------ MODULE MCPow20 ------------------------------
(* Five blocks on three forks: a ticker that is deployed, minted to its     *)
(* end, inscribed and sent; work that is offered twice or names another     *)
(* fork; an inscription that two forks reveal at different heights, so that *)
(* a block read from both meets it twice; and what ends the process: a mint *)
(* of a ticker deployed in its block, a start that is too large, and a      *)
(* solution that is no text.                                                *)
EXTENDS Pow20

N(n) == [n |-> n, places |-> 0]
D(by, pk, tick, max, lim, start) ==
  [op |-> "deploy", by |-> by, pk |-> pk, tick |-> tick, new |-> TRUE, fee |-> FALSE, odd |-> {},
   max |-> N(max), limit |-> N(lim), dec |-> 0, difficulty |-> 1, start |-> start]
M(by, pk, tick, n, word, block) ==
  [op |-> "mint", by |-> by, pk |-> pk, tick |-> tick, new |-> TRUE, fee |-> FALSE, odd |-> {}, amount |-> N(n),
   solution |-> [word |-> word, tick |-> tick, wallet |-> pk, block |-> block, zeros |-> 1]]
T(by, pk, n, new, fee) ==
  [op |-> "transfer", by |-> by, pk |-> pk, tick |-> "a", new |-> new, fee |-> fee, odd |-> {}, amount |-> N(n)]
Odd(x, field) == [x EXCEPT !.odd = {field}]

MCTransfers ==
  << << <<D("d1", "p", "a", 3, 2, 1)>>,
        <<D("d2", "q", "a", 2, 2, 2), D("d5", "q", "b", 1, 1, 9)>>,
        <<D("d4", "q", "b", 2, 2, MaxStart + 1), Odd(D("d6", "q", "b", 1, 1, 2), "limit")>> >>,
     << <<M("m1", "p", "a", 2, "w1", 1), M("m2", "p", "a", 1, "w1", 1), T("t1", "p", 1, TRUE, FALSE),
          T("t2", "p", 2, TRUE, FALSE)>>,
        <<M("m3", "q", "a", 2, "w2", 1), M("m10", "p", "a", 1, "w1", 1), T("t7", "p", 1, TRUE, FALSE)>>,
        <<D("d3", "p", "b", 1, 1, 2), M("m4", "p", "b", 1, "w3", 3)>> >>,
     << <<T("t1", "q", 1, FALSE, FALSE), M("m5", "q", "a", 2, "w2", 1), T("t6", "q", 1, TRUE, FALSE)>>,
        <<M("m6", "p", "a", 1, "w3", 2)>>,
        <<T("t1", "p", 1, FALSE, TRUE), M("m7", "p", "a", 1, "w1", 1), T("t3", "p", 1, TRUE, TRUE)>> >>,
     << <<T("t1", "p", 1, FALSE, FALSE), T("t4", "q", 1, TRUE, FALSE)>>,
        <<T("t6", "q", 1, TRUE, FALSE), T("t1", "p", 1, FALSE, FALSE), M("m8", "q", "a", 1, "w2", 1),
          Odd(M("m11", "q", "a", 1, "w4", 2), "solution")>>,
        <<T("t5", "p", 2, TRUE, FALSE), T("t5", "p", 2, FALSE, FALSE), M("m9", "p", "a", 1, "w2", 1)>> >>,
     << <<T("t6", "p", 1, FALSE, FALSE), T("t8", "q", 1, TRUE, FALSE)>>,
        <<T("t6", "p", 1, FALSE, FALSE), T("t7", "q", 1, FALSE, FALSE)>>,
        <<T("t1", "p", 1, FALSE, FALSE), Odd(T("t9", "p", 1, TRUE, FALSE), "amount")>> >> >>
=============================================================================
