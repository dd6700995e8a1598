--------------------------- MODULE MCGreetdFraming ---------------------------
(* Two-digit lengths in base 3 and a limit of two bytes: an empty frame, two  *)
(* messages, a body that is no object, and an object above the limit.         *)
EXTENDS GreetdFraming

MCBodies == {<<>>, <<1>>, <<1, 0>>, <<2>>, <<1, 0, 0>>}
MCObjects == {<<1>>, <<1, 0>>, <<1, 0, 0>>}
=============================================================================
