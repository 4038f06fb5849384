---------------------------- MODULE MCBlockQueue ----------------------------
(* Instances of BlockQueue for TLC: three messages, any number of restarts. *)
EXTENDS BlockQueue, TLC

CONSTANTS m1, m2, m3

MCMsg == {m1, m2, m3}

MsgSymmetry == Permutations(MCMsg)

=============================================================================
