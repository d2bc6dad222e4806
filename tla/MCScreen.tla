------------------------------ MODULE MCScreen ------------------------------
(***************************************************************************)
(* Screen with two rows of two cells: two newlines, or one and two         *)
(* characters, scroll it.  The ring holds two events and three packets     *)
(* come.  A movement of 7 leaves a rest in the accumulator, one of -4      *)
(* moves a cell, against the edge.                                         *)
(***************************************************************************)
EXTENDS Screen

MCMovements == {[dx |-> 7, dy |-> -4, scroll |-> 1, buttons |-> 0],
                [dx |-> -4, dy |-> 0, scroll |-> 0, buttons |-> 1]}
=============================================================================
