----------------------------- MODULE MCProcess -----------------------------
(* Instances of Process for TLC: three terminals, five pids.               *)
EXTENDS Process

\* One ordinary status; 255 and 256 come from the kernel itself.
MCStatuses == {0}
=============================================================================
