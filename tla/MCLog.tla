------------------------------- MODULE MCLog -------------------------------
(***************************************************************************)
(* Log with a ring of five characters, words of two hexadecimal digits, a  *)
(* message of one character and one that is longer than the ring.          *)
(***************************************************************************)
EXTENDS Log

MCCommands == {<<>>, <<<<"a">>>>, <<<<"a">>, <<"b", "c">>>>}
MCMessages == {<<"x">>, <<"p", "a", "n", "i", "c", " ", "x">>}
=============================================================================
