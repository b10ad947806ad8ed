------------------------------- MODULE MCApp -------------------------------
(* App for TLC.                                                              *)
EXTENDS App
=============================================================================
