------------------------------ MODULE MCInput ------------------------------
(***************************************************************************)
(* Input with small buffers.  Seven keys fill the ring of three cells more *)
(* than twice, and make lines that are too long for five characters or     *)
(* have more than two words.                                               *)
(***************************************************************************)
EXTENDS Input
=============================================================================
