----------------------------- MODULE MCCalendar -----------------------------
(* Two instants a day until 2101.                                           *)
EXTENDS Calendar
=============================================================================
