----------------------------- MODULE LineInput -----------------------------
(* What the terminal driver promises a reader: the user edits a line, may   *)
(* replace it by an earlier one or have it completed, Enter hands it over,  *)
(* one read returns it up to and including its newline (or its first n      *)
(* characters), and a later read returns nothing of it.                     *)
EXTENDS Integers, Sequences

CONSTANTS Terminals, Letters, MaxLine, ReadSizes, Completions, NL, NoLine

VARIABLES line,     \* the line each terminal's user is editing
          ready,    \* the line handed over and not yet read, or NoLine
          earlier,  \* lines that may be recalled
          got       \* what the last read on each terminal returned
vars == <<line, ready, earlier, got>>

Smaller(m, n) == IF m < n THEN m ELSE n

Init ==
    /\ line = [t \in Terminals |-> <<>>]
    /\ ready = [t \in Terminals |-> NoLine]
    /\ earlier = [t \in Terminals |-> {<<>>}]
    /\ got = [t \in Terminals |-> <<>>]

Type(t, c) ==
    /\ ready[t] = NoLine
    /\ Len(line[t]) < MaxLine
    /\ line' = [line EXCEPT ![t] = Append(@, c)]
    /\ UNCHANGED <<ready, earlier, got>>

Erase(t) ==
    /\ line[t] # <<>>
    /\ line' = [line EXCEPT ![t] = SubSeq(@, 1, Len(@) - 1)]
    /\ UNCHANGED <<ready, earlier, got>>

\* The line being edited may be kept, to be recalled later.
Keep(t) ==
    \/ earlier' = [earlier EXCEPT ![t] = @ \cup {line[t]}]
    \/ UNCHANGED earlier

Recall(t) ==
    /\ ready[t] = NoLine
    /\ Keep(t)
    /\ \E old \in earlier'[t] : line' = [line EXCEPT ![t] = old]
    /\ UNCHANGED <<ready, got>>

Complete(t, suffix) ==
    /\ ready[t] = NoLine
    /\ line[t] # <<>>
    /\ Len(line[t]) + Len(suffix) <= MaxLine
    /\ line' = [line EXCEPT ![t] = @ \o suffix]
    /\ UNCHANGED <<ready, earlier, got>>

Enter(t) ==
    /\ ready[t] = NoLine
    /\ Keep(t)
    /\ ready' = [ready EXCEPT ![t] = Append(line[t], NL)]
    /\ line' = [line EXCEPT ![t] = <<>>]
    /\ UNCHANGED got

Read(t, n) ==
    /\ ready[t] # NoLine
    /\ got' = [got EXCEPT ![t] = SubSeq(ready[t], 1, Smaller(n, Len(ready[t])))]
    /\ ready' = [ready EXCEPT ![t] = NoLine]
    /\ UNCHANGED <<line, earlier>>

Next == \E t \in Terminals :
    \/ \E c \in Letters : Type(t, c)
    \/ Erase(t)
    \/ Recall(t)
    \/ \E suffix \in Completions : Complete(t, suffix)
    \/ Enter(t)
    \/ \E n \in ReadSizes : Read(t, n)

Spec == Init /\ [][Next]_vars
=============================================================================
