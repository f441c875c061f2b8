----------------------------- MODULE MCHostClient -----------------------------
(* Instances of HostClient for TLC: the sockets are those of the calls.          *)
EXTENDS HostClient, TLC

CONSTANTS a1, a2, c1, c2, d1, d2

\* Nothing tells apps, calls or daemons apart.
Symmetry == Permutations(App) \cup Permutations(Call) \cup Permutations(Daemon)

MCSocket == Call \X {"control", "stream"}
==============================================================================
