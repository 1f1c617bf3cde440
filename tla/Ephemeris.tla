------------------------------ MODULE Ephemeris ------------------------------
(***************************************************************************)
(* The ephemeris thread (ephemeris.c): it copies the subframes the message *)
(* thread has completed, and when those of one data set are together makes *)
(* an ephemeris of them, which the position thread works with.             *)
(*                                                                         *)
(* A subframe is the satellite and the issue of the data set it belongs    *)
(* to, and, for subframe 1, whether the satellite can be used at all.      *)
(* Subframes 4 and 5 are left out: nothing is done with them.  The threads *)
(* preempt each other by priority: message 12, ephemeris 14, allocate 16,  *)
(* position 22.                                                            *)
(***************************************************************************)
EXTENDS Integers

CONSTANTS
  N_CHANNELS,
  Satellites,
  MAX_CHANGES      \* bound: changes of what the satellites send

Ch       == 0 .. N_CHANNELS - 1
Sub      == 1 .. 3
Issue    == 0 .. MAX_CHANGES
Set      == [sat : Satellites, issue : Issue]
Subframe == [set : Set, usable : BOOLEAN]
Some     == UNION {[S -> Subframe] : S \in SUBSET Sub}
None     == [i \in {} |-> 0]

ASSUME EphemerisAssumption ==
  /\ N_CHANNELS \in Nat \ {0}
  /\ Satellites # {}
  /\ MAX_CHANGES \in Nat

VARIABLES
  issue, usable, changes,   \* what the satellites send, and how often it changed
  prn, on,                  \* CH[ch].prn; is CH[ch].state not CHANNEL_OFF?
  sf, message_prn,          \* messages[ch].sf of which valid is 0x3ff; .prn
  channel_flag, subframe_flags,
  e_pc, channels_ready,     \* the ephemeris thread; the channels left
  local_sf,                 \* local_msg[ch].sf of those that are in have_sf
  ephemeris

satVars      == <<issue, usable, changes>>
channelVars  == <<prn, on>>
messageVars  == <<sf, message_prn>>
flagVars     == <<channel_flag, subframe_flags>>
threadVars   == <<e_pc, channels_ready>>
dataVars     == <<local_sf, ephemeris>>
vars == <<satVars, channelVars, messageVars, flagVars, threadVars, dataVars>>

TypeOK ==
  /\ changes \in Issue /\ issue \in [Satellites -> 0 .. changes]
  /\ usable \in [Satellites -> BOOLEAN]
  /\ prn \in [Ch -> Satellites] /\ on \in [Ch -> BOOLEAN]
  /\ sf \in [Ch -> Some] /\ message_prn \in [Ch -> Satellites]
  /\ channel_flag \in SUBSET Ch /\ subframe_flags \in [Ch -> SUBSET Sub]
  /\ e_pc \in {"wait", "channels"} /\ channels_ready \in SUBSET Ch
  /\ local_sf \in [Ch -> Some]
  /\ ephemeris \in [Ch -> [valid : BOOLEAN, prn : Satellites, iode : Issue,
                           part : [Sub -> Set]]]

\* After boot: the channels search each its satellite, and no subframe has come in.
InitWith(sats) ==
  /\ issue = [p \in Satellites |-> 0] /\ usable = [p \in Satellites |-> TRUE]
  /\ changes = 0
  /\ prn = sats /\ on = [c \in Ch |-> TRUE]
  /\ sf = [c \in Ch |-> None] /\ message_prn = sats
  /\ channel_flag = {} /\ subframe_flags = [c \in Ch |-> {}]
  /\ e_pc = "wait" /\ channels_ready = {}
  /\ local_sf = [c \in Ch |-> None]
  /\ ephemeris = [c \in Ch |-> [valid |-> FALSE, prn |-> sats[c], iode |-> 0,
                   part |-> [i \in Sub |-> [sat |-> sats[c], issue |-> 0]]]]

Init == \E sats \in [Ch -> Satellites] :
          (\A c, d \in Ch : c # d => sats[c] # sats[d]) /\ InitWith(sats)

-----------------------------------------------------------------------------
(* The satellites and the channels.                                        *)

\* A satellite goes on to its next data set, or its health or accuracy changes.
Upload(p) ==
  /\ changes < MAX_CHANGES /\ changes' = changes + 1
  /\ \/ issue' = [issue EXCEPT ![p] = @ + 1] /\ UNCHANGED usable
     \/ usable' = [usable EXCEPT ![p] = ~@] /\ UNCHANGED issue
  /\ UNCHANGED <<channelVars, messageVars, flagVars, threadVars, dataVars>>

\* A subframe comes again after 30 s, when the ephemeris thread has long seen it.
Due(c, i) == on[c] /\ i \notin subframe_flags[c]

\* Only subframe 1 tells whether the satellite is usable.
Sent(p, i) == [set    |-> [sat |-> p, issue |-> issue[p]],
               usable |-> IF i = 1 THEN usable[p] ELSE TRUE]

\* Mutant: the number in the HOW is not decremented.
FromHow(i) == i + 1

which_subframe(i) == i

\* The message thread, which preempts all the others, is through with a subframe:
\* all ten words are valid, and the ephemeris thread is told, or some are not.
Received(c, i) ==
  /\ Due(c, i)
  /\ sf' = [sf EXCEPT ![c] =
              [j \in DOMAIN @ \cup {i} |-> IF j = i THEN Sent(prn[c], i) ELSE @[j]]]
  /\ message_prn' = [message_prn EXCEPT ![c] = prn[c]]
  /\ subframe_flags' = [subframe_flags EXCEPT ![c] = @ \cup {which_subframe(i)}]
  /\ channel_flag' = channel_flag \cup {c}
  /\ UNCHANGED <<satVars, channelVars, threadVars, dataVars>>

Spoilt(c, i) ==
  /\ Due(c, i)
  /\ sf' = [sf EXCEPT ![c] = [j \in DOMAIN @ \ {i} |-> @[j]]]
  /\ message_prn' = [message_prn EXCEPT ![c] = prn[c]]
  /\ UNCHANGED <<satVars, channelVars, flagVars, threadVars, dataVars>>

\* The DSR turns the channel off.
Lost(c) ==
  /\ on[c] /\ on' = [on EXCEPT ![c] = FALSE]
  /\ UNCHANGED <<satVars, prn, messageVars, flagVars, threadVars, dataVars>>

EphemerisBlocked == e_pc = "wait" /\ channel_flag = {}

clear_messages(c) == sf' = [sf EXCEPT ![c] = None]

\* Mutant: the ephemeris stays valid when the satellite changes.
StillValid(e) == e

NotValid(e) == [e EXCEPT !.valid = FALSE]

clear_ephemeris(c) ==
  /\ ephemeris' = [ephemeris EXCEPT ![c] = NotValid(@)]
  /\ local_sf' = [local_sf EXCEPT ![c] = None]

\* The allocate thread puts the channel on another satellite ...
initialize_channel(c, p) ==
  /\ EphemerisBlocked
  /\ ~on[c] /\ on' = [on EXCEPT ![c] = TRUE]
  /\ \A d \in Ch : on[d] => prn[d] # p
  /\ prn' = [prn EXCEPT ![c] = p]
  /\ clear_messages(c) /\ clear_ephemeris(c)
  /\ UNCHANGED <<satVars, message_prn, flagVars, threadVars>>

\* ... or has it search its own again.
restart_channel(c) ==
  /\ EphemerisBlocked
  /\ ~on[c] /\ on' = [on EXCEPT ![c] = TRUE]
  /\ clear_messages(c)
  /\ UNCHANGED <<satVars, prn, message_prn, flagVars, threadVars, dataVars>>

-----------------------------------------------------------------------------
(* The ephemeris thread.                                                   *)

EphemerisWake ==
  /\ e_pc = "wait" /\ channel_flag # {}
  /\ e_pc' = "channels" /\ channels_ready' = channel_flag /\ channel_flag' = {}
  /\ UNCHANGED <<satVars, channelVars, messageVars, subframe_flags, dataVars>>

\* Mutant: the issue of subframe 3 is not looked at.
TwoAgree(set) == set[1].issue = set[2].issue

\* The 8 bits of IODC and the two IODEs match.
Agree(set) == set[1].issue = set[2].issue /\ set[2].issue = set[3].issue

\* Mutant: once there is an ephemeris it is never parsed again.
Valid(e, set) == e.valid

AlreadyParsed(e, set) == e.valid /\ e.iode = set[2].issue

\* Mutant: data from a satellite that is not usable are only ignored.
LeftAlone(c, new) == UNCHANGED ephemeris /\ local_sf' = [local_sf EXCEPT ![c] = new]

Discard(c, new) == clear_ephemeris(c)

\* update_ephemeris with the copies new, when all three are there.
update_ephemeris(c, new) ==
  LET set == [i \in Sub |-> new[i].set] IN
  \/ /\ ~new[1].usable
     /\ Discard(c, new)
  \/ /\ new[1].usable
     /\ local_sf' = [local_sf EXCEPT ![c] = new]
     /\ IF Agree(set) /\ ~AlreadyParsed(ephemeris[c], set)
          THEN ephemeris' = [ephemeris EXCEPT ![c] =
                 [valid |-> TRUE, prn |-> message_prn[c], iode |-> set[2].issue,
                  part |-> set]]
          ELSE UNCHANGED ephemeris

\* One turn of the thread's loop: nobody who reads what it writes preempts it.
EphemerisChannel(c) ==
  LET flagged == subframe_flags[c] \cap DOMAIN sf[c]
      new == [i \in DOMAIN local_sf[c] \cup flagged |->
                IF i \in flagged THEN sf[c][i] ELSE local_sf[c][i]]
  IN
  /\ e_pc = "channels" /\ c \in channels_ready
  /\ \A d \in channels_ready : c <= d
  /\ subframe_flags' = [subframe_flags EXCEPT ![c] = {}]
  /\ \/ DOMAIN new = Sub /\ update_ephemeris(c, new)
     \/ /\ DOMAIN new # Sub
        /\ local_sf' = [local_sf EXCEPT ![c] = new]
        /\ UNCHANGED ephemeris
  /\ channels_ready' = channels_ready \ {c}
  /\ e_pc' = IF channels_ready' = {} THEN "wait" ELSE "channels"
  /\ UNCHANGED <<satVars, channelVars, messageVars, channel_flag>>

-----------------------------------------------------------------------------
Thread == EphemerisWake \/ \E c \in Ch : EphemerisChannel(c)

Next ==
  \/ \E p \in Satellites : Upload(p)
  \/ \E c \in Ch : \/ \E i \in Sub : Received(c, i) \/ Spoilt(c, i)
                   \/ Lost(c) \/ restart_channel(c)
                   \/ \E p \in Satellites : initialize_channel(c, p)
  \/ Thread

Spec == Init /\ [][Next]_vars

\* A channel that is on receives each subframe in every frame, some of them whole;
\* and the thread is run: only the measure and message threads, which soon wait
\* again, go before it.
FairSpec ==
  /\ Spec
  /\ WF_vars(Thread)
  /\ \A c \in Ch : \A i \in Sub : SF_vars(Received(c, i))

-----------------------------------------------------------------------------
(* Properties.                                                             *)

\* ephemeris.c:237-238, "the ephemerides from subframes 1,2,3 are to be used as a
\* complete set": a valid ephemeris is of one data set of one satellite, though the
\* subframes come one by one, around changes of the data set and of the satellite.
OneDataSet ==
  \A c \in Ch : LET e == ephemeris[c] IN
    e.valid => \A i \in Sub : e.part[i] = [sat |-> e.prn, issue |-> e.iode]

\* allocate.c:131-134: a channel's valid ephemeris is of the satellite it is on.
OwnSatellite == \A c \in Ch : ephemeris[c].valid => ephemeris[c].prn = prn[c]

\* ephemeris.c:288-291, "Bad satellite!": once the thread is through, a subframe 1
\* that tells against the satellite leaves no valid ephemeris of it.
BadIsInvalid ==
  EphemerisBlocked =>
    \A c \in Ch : 1 \in DOMAIN sf[c] /\ ~sf[c][1].usable => ~ephemeris[c].valid

\* The channel has what its satellite sends.
UpToDate(c) ==
  LET p == prn[c] IN
  IF usable[p]
    THEN ephemeris[c].valid /\ ephemeris[c].iode = issue[p]
    ELSE ~ephemeris[c].valid

\* No wakeup or subframe is lost for good: a channel that stays on has the latest
\* ephemeris in the end.
EphemerisArrives == \A c \in Ch : <>[]on[c] => <>[]UpToDate(c)
=============================================================================
