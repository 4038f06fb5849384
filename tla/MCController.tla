---------------------------- MODULE MCController ----------------------------
(* Instances of Controller for TLC: two reconnections may be due at once.   *)
EXTENDS Controller

CONSTANTS s1, s2

MCStarter == {s1, s2}

=============================================================================
