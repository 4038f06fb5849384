------------------------------ MODULE MCCodec -------------------------------
(* Instances of Codec for TLC.  A byte holds 0 to 3, so strings of three or *)
(* more bytes are those of 255 or more in the code, and four positions are  *)
(* 256.                                                                     *)
EXTENDS Codec

CONSTANTS p1, p2

MCText == {<<>>, <<1>>, <<2>>, <<1, 2>>, <<3, 1>>, <<1, 2, 3>>, <<2, 3, 1, 1>>}
MCQuad == {<<3, 1, 2, 0>>}
MCPosition == {p1, p2}
MCBody == {0, 1}

=============================================================================
