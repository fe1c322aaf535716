------------------------------ MODULE MCHistory -----------------------------
(* Instance of History for TLC: lines that match no name, one, several with *)
(* and without more in common, and a name exactly, alone and after a space. *)
EXTENDS CommandLine

A == <<"a">>
AB == <<"a", "b">>
MCTyped == {<<>>, A, AB, <<"b", SPACE>> \o A, AB \o <<SPACE, "b", SPACE>> \o A}
MCDirectories ==
    { <<AB \o A, AB \o <<"b">>>>,
      <<AB \o AB, <<"b">>>>,
      <<A \o AB, AB, A \o A \o A>>,
      <<AB \o A, <<"b">>, AB \o A \o A, AB \o A \o <<"b">>>> }
=============================================================================
