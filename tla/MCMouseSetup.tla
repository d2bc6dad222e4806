---------------------------- MODULE MCMouseSetup ----------------------------
(***************************************************************************)
(* MouseSetup with every kind of mouse; 3 is the scan code of the key 2.   *)
(***************************************************************************)
EXTENDS MouseSetup

\* The best case for the probe: the interrupt is masked and all answers are
\* there before the driver goes on.
PromptInit == Init /\ masked
PromptNext == Next /\ (step' # step => answers = <<>>)
PromptSpec == PromptInit /\ [][PromptNext]_vars
=============================================================================
