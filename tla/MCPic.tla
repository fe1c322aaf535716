------------------------------- MODULE MCPic --------------------------------
(* Instance of Pic for TLC; the module has no sizes to choose.              *)
EXTENDS Pic
=============================================================================
