----------------------------- MODULE MCSession ------------------------------
(* Instances of Session for TLC. *)
EXTENDS Session

CONSTANTS h1, h2, h3, h4

MCHandle == {h1, h2, h3, h4}
MCTimer == {Hb, State, Inh}

=============================================================================
