------------------------------ MODULE MCTabsSync -----------------------------
(* Instances of TabsSync for TLC: two Macs, one of which has yet to create the   *)
(* second workspace.                                                             *)
EXTENDS TabsSync

CONSTANTS d1, d2, w1, w2

MCLate == {<<d2, w2>>}
==============================================================================
