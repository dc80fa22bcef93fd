---------------------------- MODULE Brc20Replay ----------------------------
(***************************************************************************)
(* What the tables of the BRC-20 indexer promise to their readers: the     *)
(* blocks that have a row in brc20_block_hashes are applied whole, one     *)
(* after the other, and are taken back whole, from the end.  The transfers *)
(* of a block are a set so that a block applied twice or in part can be    *)
(* told from one applied once.                                             *)
(***************************************************************************)
EXTENDS Integers, Sequences

CONSTANT Hashes   \* block hashes, as far as they differ at one height

VARIABLE applied  \* the applied blocks [hash, txs], the first height first

Init == applied = <<>>

(* A block appears with its transfers, or with none.                       *)
Apply(hash, txs) == applied' = Append(applied, [hash |-> hash, txs |-> txs])

(* All blocks above the k-th one disappear.                                *)
Rollback(k) == applied' = SubSeq(applied, 1, k)

Next ==
  \/ \E hash, b \in Hashes : \E txs \in {{}, {b}} : Apply(hash, txs)
  \/ \E k \in 0 .. Len(applied) : Rollback(k)

Spec == Init /\ [][Next]_applied
=============================================================================
