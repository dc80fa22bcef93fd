-------------------------------- MODULE Rows --------------------------------
(***************************************************************************)
(* Rows of a Postgres table with a column block_height, in the order in    *)
(* which they were inserted.                                               *)
(***************************************************************************)
EXTENDS Integers, Sequences

(* The rows of the heights in H: what DELETE .. WHERE block_height > k     *)
(* leaves, and what SELECT .. WHERE block_height = h finds.                *)
Only(rows, H) ==
  LET only[i \in 0 .. Len(rows)] ==
        IF i = 0 THEN << >>
        ELSE IF rows[i].h \in H THEN Append(only[i - 1], rows[i])
        ELSE only[i - 1]
  IN  only[Len(rows)]
=============================================================================
