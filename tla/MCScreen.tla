------------------------------ MODULE MCScreen ------------------------------
(* Instances of Screen for TLC.  As on the real screen, a line after the    *)
(* prompt is longer than a row and ends within the second.                  *)
EXTENDS Screen

MCPrompt == <<"o">>
MCRecalled == {<<>>, <<"o", "a", "a">>}
MCCompletions == {<<"a">>}
=============================================================================
