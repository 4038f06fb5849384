------------------------------ MODULE MCClient ------------------------------
(* Instances of Client for TLC: one link. *)
EXTENDS Client

CONSTANTS up, l1, l2

MCLink == {up}
MCListener == {l1, l2}

=============================================================================
