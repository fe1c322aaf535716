----------------------------- MODULE MCTerminal -----------------------------
(* Instances of Terminal for TLC.  Buffers of three or four cells hold an   *)
(* empty, a partial and a full line; reads ask for less than a full line,   *)
(* and (MCLong) for more than the buffer, as the shell does.                *)
EXTENDS Terminal

MCOne == {0}
MCTwo == {0, 1}
MCShort == {KEYBOARD_BUF_SIZE - 1}
MCLong == {1, KEYBOARD_BUF_SIZE + 2}
MCNone == {}
MCSuffix == {<<"a">>}
=============================================================================
