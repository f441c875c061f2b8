---------------------------- MODULE MCDaemonManager ----------------------------
(* Instances of DaemonManager for TLC.                                           *)
EXTENDS DaemonManager, TLC

CONSTANTS p1, p2, c1, c2

\* Runs are interchangeable.
Symmetry == Permutations(Creation)
================================================================================
