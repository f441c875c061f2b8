----------------------------- MODULE MCPortManager -----------------------------
(* Instances of PortManager for TLC: two panes, one of which has two shells one  *)
(* after the other, and a server that runs below the first of them.              *)
EXTENDS PortManager

CONSTANTS p1, p2, s1, s2, s3, q1

MCRoot == [r \in Process |-> IF r = q1 THEN s1 ELSE r]
MCHome == [s \in Shell |-> IF s = s3 THEN p2 ELSE p1]
===============================================================================
