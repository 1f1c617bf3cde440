----------------------------- MODULE MCEphemeris -----------------------------
(* One channel and two satellites, whose data sets have the same issues.      *)
EXTENDS Ephemeris

MCSatellites == {1, 2}
=============================================================================
