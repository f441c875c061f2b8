---------------------------- MODULE MCTerminalHost ----------------------------
(***************************************************************************)
(* A small daemon for TLC: model values for requests, ids and sockets.     *)
(***************************************************************************)
EXTENDS TerminalHost, TLC

CONSTANTS r1, r2, i1, i2, k1, k2

MCRequest == {r1, r2}
MCId == {i1, i2}
MCSocket == {k1, k2}
===============================================================================
