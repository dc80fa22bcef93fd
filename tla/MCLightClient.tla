--------------------------- MODULE MCLightClient ---------------------------
(* Two forks, in one of which the third block has no BRC-20 events.       *)
EXTENDS LightClient

QuietThird == {<<3, 1>>}
=============================================================================
