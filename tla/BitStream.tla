------------------------------ MODULE BitStream ------------------------------
(***************************************************************************)
(* What the tracking DSR promises the threads above of one channel through *)
(* CH[ch].state, time_in_bits, CH[ch].bit and nav_bits_ready: a channel    *)
(* that is put to search is given up or comes to lock, at the end of a     *)
(* data bit; in lock every bit the satellite sends from then on is handed  *)
(* over once, as it ends, right, and counted; and the channel is given up  *)
(* only with a bit.  Noise and missed dumps end what is promised of the    *)
(* bits, until the channel starts again, but no bit is handed over         *)
(* uncounted, nor anything when there is no lock.                          *)
(***************************************************************************)
EXTENDS Naturals

CONSTANT BITS_IN_WEEK

VARIABLES
  mode,           \* OFF, SEARCH or LOCK
  value, ended,   \* the satellite's data bit, and is this its last dump?
  delivered,      \* the bits handed over at this dump: one, or none
  time_in_bits,
  disturbed       \* noise, or a dump missed

vars == <<mode, value, ended, delivered, time_in_bits, disturbed>>

Init ==
  /\ mode = "OFF" /\ delivered = {} /\ time_in_bits = 0
  /\ value \in BOOLEAN /\ ended \in BOOLEAN /\ disturbed = FALSE

\* The allocate thread.
Start ==
  /\ mode = "OFF" /\ mode' = "SEARCH"
  /\ time_in_bits' = 0 /\ disturbed' = FALSE
  /\ value' \in BOOLEAN /\ ended' \in BOOLEAN
  /\ UNCHANGED delivered

Idle ==
  /\ mode = "OFF" /\ delivered' = {}
  /\ UNCHANGED <<mode, value, ended, time_in_bits, disturbed>>

Search ==
  /\ mode = "SEARCH" /\ mode' \in {"SEARCH", "LOCK", "OFF"}
  /\ delivered' = {} /\ UNCHANGED time_in_bits
  /\ value' \in BOOLEAN /\ ended' \in BOOLEAN /\ disturbed' \in BOOLEAN
  /\ mode' = "LOCK" => ended' \/ disturbed'

Satellite == value' \in BOOLEAN /\ ended' \in BOOLEAN /\ disturbed' \in {disturbed, TRUE}

\* A dump in lock inside a bit, or the first of the next.
Inside ==
  /\ mode = "LOCK" /\ Satellite
  /\ disturbed' \/ (~ended' /\ (ended \/ value' = value))
  /\ delivered' = {}
  /\ UNCHANGED <<mode, time_in_bits>>

\* The last dump of a bit.
Deliver ==
  /\ mode = "LOCK" /\ mode' \in {"LOCK", "OFF"} /\ Satellite
  /\ \E bit \in BOOLEAN :
       /\ delivered' = {bit}
       /\ disturbed' \/ (~ended /\ ended' /\ value' = value /\ bit = value)
  /\ time_in_bits' = (time_in_bits + 1) % BITS_IN_WEEK

Miss ==
  /\ mode # "OFF" /\ Satellite /\ disturbed'
  /\ UNCHANGED <<mode, delivered, time_in_bits>>

Next == Start \/ Idle \/ Search \/ Inside \/ Deliver \/ Miss

Spec == Init /\ [][Next]_vars
=============================================================================
