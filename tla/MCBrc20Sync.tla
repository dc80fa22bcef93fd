---------------------------- MODULE MCBrc20Sync ----------------------------
(* Short chains with one or two forks, in which some block has no BRC-20   *)
(* transfers.                                                              *)
EXTENDS Brc20Sync

QuietThird == {<<3, 1>>}
QuietSecond == {<<2, 1>>}
=============================================================================
