------------------------------- MODULE MCClock -------------------------------
(* Weeks of two frames, subframes of two TICs, three weeks of which the last  *)
(* is past the end of an era of four.                                         *)
EXTENDS Clock
=============================================================================
