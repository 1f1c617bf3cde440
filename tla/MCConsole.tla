------------------------------ MODULE MCConsole ------------------------------
(* Two channels, two data sets, records of two parts.                         *)
EXTENDS Console
=============================================================================
