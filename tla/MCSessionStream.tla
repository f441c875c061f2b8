--------------------------- MODULE MCSessionStream ---------------------------
(* Instances of SessionStream for TLC: the cfg files give the clients as model *)
(* values and the sizes of the buffers.                                        *)
EXTENDS SessionStream
==============================================================================
