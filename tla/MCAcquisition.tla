---------------------------- MODULE MCAcquisition ----------------------------
(* A code of three half chips, two of which are searched in a bin, and two   *)
(* bins on either side; bits of three milliseconds, a week of three bits,    *)
(* pull-in a little longer than a bit: enough for false hits, bits that      *)
(* begin anywhere in pull-in, edges found late, and the end of the week in   *)
(* lock.                                                                     *)
EXTENDS Acquisition
=============================================================================
