----------------------------- MODULE Completion -----------------------------
(* autocomplete (keyboard.c): what TAB makes of a line, as an algorithm on  *)
(* the names of the directory, and what it should make of it.  Indices j    *)
(* and old_idx count from 0, as in the code.                                *)
EXTENDS Integers, Sequences, SequencesExt, FiniteSetsExt

SPACE == " "
NUL == "0"

\* The character at index k of a C string.
CharAt(s, k) == IF k < Len(s) THEN s[k + 1] ELSE NUL

\* The beginning of the last word: "for(i = length-1; i >= 0; i--)" up to a space at
\* i-1.  A space at the very end is not seen and belongs to the word.
old_idx(line) == Max({0} \cup {i \in 1..(Len(line) - 1) : line[i] = SPACE})

prefix(line) == SubSeq(line, old_idx(line) + 1, Len(line))

\* ls: the names that begin with the prefix, in the order of the directory; ls[k] after
\* k entries have been read.
Matches(names, line) ==
    LET ls[k \in 0..Len(names)] ==
            IF k = 0 THEN <<>>
            ELSE IF IsPrefix(prefix(line), names[k]) THEN Append(ls[k - 1], names[k])
            ELSE ls[k - 1]
    IN  ls[Len(names)]

\* The scan returns when it meets a name that is the prefix itself.
ExactMatch(names, line) == prefix(line) \in Range(names)

\* Mutant: the comparison begins one character later.
DifferencesLate(a, b) ==
    {j \in 0..Min({Len(a), Len(b)}) : CharAt(a, j + 2) # CharAt(b, j + 2)}

\* The indices j that the inner loop finds for two neighbours in ls: the character
\* after j differs.
Differences(a, b) ==
    {j \in 0..Min({Len(a), Len(b)}) : CharAt(a, j + 1) # CharAt(b, j + 1)}

\* The value of min after the loop over neighbours.
min(ls) == Min(UNION {Differences(ls[k - 1], ls[k]) : k \in 2..Len(ls)})

\* Nothing can be added: the listing, when repeated, is all that happens.
Ambiguous(names, line) ==
    LET ls == Matches(names, line)
    IN  Len(ls) > 1 /\ Len(prefix(line)) - 1 >= min(ls)

\* best, cut off behind index min when there are several matches.
best(ls) == IF Len(ls) = 1 THEN ls[1] ELSE SubSeq(Last(ls), 1, min(ls) + 1)

Completes(names, line) ==
    /\ line # <<>>
    /\ ~ExactMatch(names, line)
    /\ Matches(names, line) # <<>>
    /\ ~Ambiguous(names, line)

\* The line that autocomplete leaves in keyboard_buf.
Completed(names, line) ==
    IF Completes(names, line)
    THEN SubSeq(line, 1, old_idx(line)) \o best(Matches(names, line))
    ELSE line

\* What it should leave: the last word extended as far as all the names that begin
\* with it agree.
Expected(names, line) ==
    LET found == {n \in Range(names) : IsPrefix(prefix(line), n)}
    IN  IF line = <<>> \/ found = {} THEN line
        ELSE SubSeq(line, 1, old_idx(line)) \o LongestCommonPrefix(found)
=============================================================================
