---------------------------- MODULE MCSatPosition ----------------------------
(* One channel and two satellites.                                           *)
EXTENDS SatPosition

MCSatellites == {1, 2}
=============================================================================
