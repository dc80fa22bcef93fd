--------------------------- MODULE MCBrc20Ledger ---------------------------
(* Small ledgers: one or two tickers, a user wallet and the refund wallet, *)
(* the three OP_RETURN scripts, and one or two inscriptions.               *)
EXTENDS Brc20Ledger, TLC

InscriptionSymmetry == Permutations(Inscriptions)

(* Every ticker that is deployed has the largest supply, and is minted     *)
(* freely in portions of any size.                                         *)
FullSupply ==
  \A t \in Ticks : tickers[t].deployed =>
    tickers[t].max = MaxAmount /\ tickers[t].limit = MaxAmount /\ ~tickers[t].selfMint
=============================================================================
