----------------------------- MODULE SatPosition -----------------------------
(***************************************************************************)
(* The first half of the position thread (position.c) next to the          *)
(* ephemeris thread: for each channel that has both a pseudorange and a    *)
(* valid ephemeris it computes where the satellite was, in many reads of   *)
(* the ephemeris between which every other thread may run.                 *)
(***************************************************************************)
EXTENDS Ephemeris, Sequences

VARIABLES
  pr2,               \* the channels with a pseudorange in pr2
  s_pc, s_ch,        \* the position thread
  s_read             \* what it has read of s_ch's ephemeris: a part for each subframe

positionVars == <<pr2, s_pc, s_ch, s_read>>

PositionInit == Init /\ pr2 = {} /\ s_pc = "wait" /\ s_ch = 0 /\ s_read = <<>>

\* pr2 has been filled with the pseudoranges of some channels.
PositionWake ==
  /\ s_pc = "wait"
  /\ pr2' \in {ready \in SUBSET Ch : \A c \in ready : on[c]} \ {{}}
  /\ s_pc' = "check" /\ s_ch' = 0 /\ s_read' = <<>>

PositionCheck ==
  /\ s_pc = "check" /\ s_ch < N_CHANNELS
  /\ s_read' = <<>>
  /\ \/ /\ ephemeris[s_ch].valid /\ s_ch \in pr2
        /\ s_pc' = "read" /\ UNCHANGED s_ch
     \/ /\ ~(ephemeris[s_ch].valid /\ s_ch \in pr2)
        /\ s_ch' = s_ch + 1 /\ UNCHANGED s_pc
  /\ UNCHANGED pr2

SatPosEphemeris ==
  /\ s_pc = "read"
  /\ s_read' = Append(s_read, ephemeris[s_ch].part[Len(s_read) + 1])
  /\ \/ Len(s_read') < 3 /\ UNCHANGED <<s_pc, s_ch>>
     \/ Len(s_read') = 3 /\ s_pc' = "check" /\ s_ch' = s_ch + 1
  /\ UNCHANGED pr2

PositionDone ==
  /\ s_pc = "check" /\ s_ch = N_CHANNELS
  /\ s_pc' = "wait"
  /\ UNCHANGED <<pr2, s_ch, s_read>>

Position ==
  /\ EphemerisBlocked
  /\ PositionWake \/ PositionCheck \/ SatPosEphemeris \/ PositionDone
  /\ UNCHANGED vars

PositionSpec ==
  PositionInit /\ [][Position \/ (Next /\ UNCHANGED positionVars)]_<<vars, positionVars>>

\* position.c:779-780, "And check that the ephemeris is still good while we're at
\* it": what the thread reads of an ephemeris it has checked is one data set.
ReadsOneSet == Len(s_read) = 3 => s_read[1] = s_read[2] /\ s_read[2] = s_read[3]
=============================================================================
