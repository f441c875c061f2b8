---------------------------- MODULE MCSessionInput ----------------------------
(* Instances of SessionInput for TLC: the cfg file gives the sizes.            *)
EXTENDS SessionInput
==============================================================================
