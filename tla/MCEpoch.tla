------------------------------- MODULE MCEpoch -------------------------------
(* A code of two half chips, bits of two milliseconds, a week of two words of *)
(* 50 bits; a TIC about every bit, so that each instant of the week is        *)
(* measured.                                                                  *)
EXTENDS Epoch
=============================================================================
