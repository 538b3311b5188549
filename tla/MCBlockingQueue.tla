--------------------------- MODULE MCBlockingQueue ---------------------------
(* BlockingQueue for TLC: three producers against two consumers, without    *)
(* symmetry, which liveness does not allow.                                 *)
EXTENDS BlockingQueue

CONSTANTS p1, p2, p3, c1, c2
MCProducers == {p1, p2, p3}
MCConsumers == {c1, c2}
=============================================================================
