------------------------------ MODULE MCVideo ------------------------------
(* Instances of Video for TLC: the three terminals of the code and two      *)
(* different things to write.  What is constant is given in the .cfg files. *)
EXTENDS Video
=============================================================================
