------------------------------- MODULE MCFish -------------------------------
(* Instances of Fish for TLC: a screen of two columns.                     *)
EXTENDS Fish

MCFrequencies == {1, 2, 3, 1025}

\* Lines and files of different lengths, blanks, an empty line, a file of no bytes, a last
\* line with and without its newline, and a file that is missing.
MCFramePairs ==
    {[f \in {0, 1} |-> IF f = 0 THEN pair[1] ELSE pair[2]] : pair \in
        {<< <<"a", NL, "b">>, <<"d", "e">> >>,
         << <<" ", "a", NL>>, <<NL, " ", "d">> >>,
         << <<>>, <<"d", NL, "e", " ">> >>,
         << <<"a">>, MISSING >>}}

MCExtra == [Zeroed EXCEPT !.location = 1, !.on_char = "I", !.off_char = "M",
                          !.on_length = 2, !.off_length = 1]

\* Lengths that are zero, ordinary, negative as a signed number, and the smallest one.
MCBlink(location, on_length, off_length) ==
    [Zeroed EXCEPT !.location = location, !.on_char = "x", !.off_char = "y",
                   !.on_length = on_length, !.off_length = off_length]
MCBlinks == {MCBlink(1, 5, 0), MCBlink(2, 3, 1), MCBlink(5, 1, 1)}
MCLocations == {1, 2}

ASSUME MCFishAssumption == CellZeroUnused /\ SlotsSuffice
=============================================================================
