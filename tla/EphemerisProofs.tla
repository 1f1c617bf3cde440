--------------------------- MODULE EphemerisProofs ---------------------------
(***************************************************************************)
(* What holds of the ephemeris thread for any number of channels,          *)
(* satellites and changes of what they send.                               *)
(*                                                                         *)
(* The three invariants the runs check are not inductive.  A valid         *)
(* ephemeris is of one satellite because what messages and local_msg keep  *)
(* is all of the satellite the channel is on (Own), and because an update  *)
(* with nothing new changes nothing (Parsed); and a bad subframe 1 cannot  *)
(* leave it valid because it is either still flagged, or was dealt with    *)
(* while all three subframes were there (Pending, Full).                   *)
(***************************************************************************)
EXTENDS Ephemeris, TLAPS

\* Subframes are kept only of the satellite the channel is on, and the name the
\* thread gives an ephemeris is that satellite's as long as there are any.
Own ==
  \A c \in Ch :
    /\ \A i \in DOMAIN sf[c] : sf[c][i].set.sat = prn[c]
    /\ \A i \in DOMAIN local_sf[c] : local_sf[c][i].set.sat = prn[c]
    /\ DOMAIN sf[c] # {} => message_prn[c] = prn[c]

\* Three copies that agree have been made an ephemeris.
Parsed ==
  \A c \in Ch :
    DOMAIN local_sf[c] = Sub /\ Agree([i \in Sub |-> local_sf[c][i].set])
      => ephemeris[c].valid /\ ephemeris[c].iode = local_sf[c][2].set.issue

\* A valid ephemeris has all three copies next to it.
Full == \A c \in Ch : ephemeris[c].valid => DOMAIN local_sf[c] = Sub

\* A bad subframe 1 is still to be dealt with, or there is no valid ephemeris and
\* no good copy to make one of.
Pending ==
  \A c \in Ch :
    1 \in DOMAIN sf[c] /\ ~sf[c][1].usable
      => \/ 1 \in subframe_flags[c] /\ c \in channel_flag \cup channels_ready
         \/ /\ ~ephemeris[c].valid
            /\ 1 \in DOMAIN local_sf[c] => ~local_sf[c][1].usable

Asleep == e_pc = "wait" => channels_ready = {}

IInv == /\ TypeOK /\ Own /\ Parsed /\ Full /\ Pending /\ Asleep
        /\ OwnSatellite /\ OneDataSet

-----------------------------------------------------------------------------
LEMMA SomeIs ==
  ASSUME NEW f \in Some
  PROVE  DOMAIN f \in SUBSET Sub /\ f \in [DOMAIN f -> Subframe]
BY DEF Some

LEMMA IsSome ==
  ASSUME NEW S \in SUBSET Sub, NEW f \in [S -> Subframe]
  PROVE  f \in Some
BY DEF Some

LEMMA NoneIs == None \in Some /\ DOMAIN None = {}
BY DEF Some, None

\* What the thread has after it copied the flagged subframes.
Copied(c) ==
  LET flagged == subframe_flags[c] \cap DOMAIN sf[c] IN
  [i \in DOMAIN local_sf[c] \cup flagged |->
     IF i \in flagged THEN sf[c][i] ELSE local_sf[c][i]]

LEMMA CopiedIs ==
  ASSUME TypeOK, NEW c \in Ch
  PROVE  /\ Copied(c) \in Some
         /\ DOMAIN Copied(c) = DOMAIN local_sf[c] \cup (subframe_flags[c] \cap DOMAIN sf[c])
         /\ \A i \in DOMAIN Copied(c) : Copied(c)[i] \in Subframe
<1> DEFINE D == DOMAIN local_sf[c] \cup (subframe_flags[c] \cap DOMAIN sf[c])
<1>1. local_sf[c] \in Some /\ sf[c] \in Some
  BY DEF TypeOK
<1>2. /\ DOMAIN sf[c] \in SUBSET Sub /\ sf[c] \in [DOMAIN sf[c] -> Subframe]
      /\ DOMAIN local_sf[c] \in SUBSET Sub
      /\ local_sf[c] \in [DOMAIN local_sf[c] -> Subframe]
  BY <1>1, SomeIs
<1>3. D \in SUBSET Sub
  BY <1>2
<1>4. Copied(c) \in [D -> Subframe]
  BY <1>2 DEF Copied
<1> QED
  BY <1>3, <1>4, IsSome

\* The effect of one turn of the thread's loop on its data: a copy is kept that is
\* not complete or changes nothing, or makes an ephemeris, or clears it.
LEMMA ChannelEffect ==
  ASSUME NEW c \in Ch, EphemerisChannel(c)
  PROVE  LET new == Copied(c)  set == [i \in Sub |-> new[i].set] IN
         \/ /\ DOMAIN new = Sub /\ ~new[1].usable
            /\ ephemeris' = [ephemeris EXCEPT ![c] = [@ EXCEPT !.valid = FALSE]]
            /\ local_sf' = [local_sf EXCEPT ![c] = None]
         \/ /\ DOMAIN new = Sub /\ new[1].usable
            /\ local_sf' = [local_sf EXCEPT ![c] = new]
            /\ Agree(set) /\ ~AlreadyParsed(ephemeris[c], set)
            /\ ephemeris' = [ephemeris EXCEPT ![c] =
                 [valid |-> TRUE, prn |-> message_prn[c], iode |-> set[2].issue,
                  part |-> set]]
         \/ /\ DOMAIN new = Sub /\ new[1].usable
            /\ local_sf' = [local_sf EXCEPT ![c] = new]
            /\ Agree(set) => AlreadyParsed(ephemeris[c], set)
            /\ UNCHANGED ephemeris
         \/ /\ DOMAIN new # Sub
            /\ local_sf' = [local_sf EXCEPT ![c] = new]
            /\ UNCHANGED ephemeris
<1>1. \/ DOMAIN Copied(c) = Sub /\ update_ephemeris(c, Copied(c))
      \/ /\ DOMAIN Copied(c) # Sub
         /\ local_sf' = [local_sf EXCEPT ![c] = Copied(c)]
         /\ UNCHANGED ephemeris
  BY DEF EphemerisChannel, Copied
<1>2. CASE DOMAIN Copied(c) = Sub /\ update_ephemeris(c, Copied(c))
  <2>1. CASE ~Copied(c)[1].usable
    BY <1>2, <2>1 DEF update_ephemeris, Discard, clear_ephemeris, NotValid
  <2>2. CASE Copied(c)[1].usable
    BY <1>2, <2>2 DEF update_ephemeris
  <2> QED BY <2>1, <2>2
<1> QED BY <1>1, <1>2

-----------------------------------------------------------------------------
LEMMA InitIInv == Init => IInv
<1> SUFFICES ASSUME Init PROVE IInv
  OBVIOUS
<1> USE NoneIs, EphemerisAssumption
<1>1. PICK sats \in [Ch -> Satellites] : InitWith(sats)
  BY DEF Init
<1>2. TypeOK
  BY <1>1 DEF InitWith, TypeOK, Issue, Set, Sub
<1>3. Own
  BY <1>1 DEF InitWith, Own
<1>4. Parsed
  BY <1>1 DEF InitWith, Parsed, Sub
<1>5. Full /\ Pending /\ Asleep /\ OwnSatellite /\ OneDataSet
  BY <1>1 DEF InitWith, Full, Pending, Asleep, OwnSatellite, OneDataSet
<1> QED
  BY <1>2, <1>3, <1>4, <1>5 DEF IInv

LEMMA TypeStep == TypeOK /\ [Next]_vars => TypeOK'
<1> SUFFICES ASSUME TypeOK, [Next]_vars PROVE TypeOK'
  OBVIOUS
<1> USE NoneIs, EphemerisAssumption DEF TypeOK
<1>1. ASSUME NEW p \in Satellites, Upload(p) PROVE TypeOK'
  <2>1. changes' \in Issue /\ changes' = changes + 1 /\ changes \in Nat
    BY <1>1 DEF Upload, Issue
  <2>2. UNCHANGED <<channelVars, messageVars, flagVars, threadVars, dataVars>>
    BY <1>1 DEF Upload
  <2>3. issue' \in [Satellites -> 0 .. changes'] /\ usable' \in [Satellites -> BOOLEAN]
    <3>1. CASE issue' = [issue EXCEPT ![p] = @ + 1] /\ UNCHANGED usable
      BY <2>1, <3>1
    <3>2. CASE usable' = [usable EXCEPT ![p] = ~@] /\ UNCHANGED issue
      BY <2>1, <3>2
    <3> QED
      BY <1>1, <3>1, <3>2 DEF Upload
  <2> QED
    BY <2>1, <2>2, <2>3 DEF channelVars, messageVars, flagVars, threadVars, dataVars
<1>2. ASSUME NEW c \in Ch, NEW i \in Sub, Received(c, i) PROVE TypeOK'
  <2>1. sf[c] \in Some
    OBVIOUS
  <2>2. DOMAIN sf[c] \in SUBSET Sub /\ sf[c] \in [DOMAIN sf[c] -> Subframe]
    BY <2>1, SomeIs
  <2>3. Sent(prn[c], i) \in Subframe
    <3>1. prn[c] \in Satellites /\ issue[prn[c]] \in Issue
      BY DEF Issue
    <3> QED
      BY <3>1 DEF Sent, Subframe, Set
  <2>4. [j \in DOMAIN sf[c] \cup {i} |-> IF j = i THEN Sent(prn[c], i) ELSE sf[c][j]]
          \in Some
    <3> DEFINE D == DOMAIN sf[c] \cup {i}
    <3>1. D \in SUBSET Sub
      BY <2>2
    <3>2. [j \in D |-> IF j = i THEN Sent(prn[c], i) ELSE sf[c][j]] \in [D -> Subframe]
      BY <2>2, <2>3
    <3> QED
      BY <3>1, <3>2, IsSome
  <2>5. sf' \in [Ch -> Some]
    BY <1>2, <2>4 DEF Received
  <2>6. /\ subframe_flags' \in [Ch -> SUBSET Sub] /\ channel_flag' \in SUBSET Ch
        /\ message_prn' \in [Ch -> Satellites]
    BY <1>2 DEF Received, which_subframe
  <2>7. UNCHANGED <<satVars, channelVars, threadVars, dataVars>>
    BY <1>2 DEF Received
  <2> QED
    BY <2>5, <2>6, <2>7 DEF satVars, channelVars, threadVars, dataVars
<1>3. ASSUME NEW c \in Ch, NEW i \in Sub, Spoilt(c, i) PROVE TypeOK'
  <2>1. sf[c] \in Some
    OBVIOUS
  <2>2. DOMAIN sf[c] \in SUBSET Sub /\ sf[c] \in [DOMAIN sf[c] -> Subframe]
    BY <2>1, SomeIs
  <2>3. [j \in DOMAIN sf[c] \ {i} |-> sf[c][j]] \in Some
    <3> DEFINE D == DOMAIN sf[c] \ {i}
    <3>1. D \in SUBSET Sub
      BY <2>2
    <3>2. [j \in D |-> sf[c][j]] \in [D -> Subframe]
      BY <2>2
    <3> QED
      BY <3>1, <3>2, IsSome
  <2>4. sf' \in [Ch -> Some]
    BY <1>3, <2>3 DEF Spoilt
  <2> QED
    BY <1>3, <2>4 DEF Spoilt, satVars, channelVars, flagVars, threadVars, dataVars
<1>4. ASSUME NEW c \in Ch, Lost(c) PROVE TypeOK'
  BY <1>4 DEF Lost, satVars, messageVars, flagVars, threadVars, dataVars
<1>5. ASSUME NEW c \in Ch, NEW p \in Satellites, initialize_channel(c, p)
      PROVE  TypeOK'
  BY <1>5 DEF initialize_channel, clear_messages, clear_ephemeris, NotValid,
              satVars, flagVars, threadVars
<1>6. ASSUME NEW c \in Ch, restart_channel(c) PROVE TypeOK'
  BY <1>6 DEF restart_channel, clear_messages, satVars, flagVars, threadVars, dataVars
<1>7. CASE EphemerisWake
  BY <1>7 DEF EphemerisWake, satVars, channelVars, messageVars, dataVars
<1>8. ASSUME NEW c \in Ch, EphemerisChannel(c) PROVE TypeOK'
  <2> DEFINE new == Copied(c)
             set == [i \in Sub |-> new[i].set]
  <2>1. /\ UNCHANGED <<satVars, channelVars, messageVars, channel_flag>>
        /\ subframe_flags' \in [Ch -> SUBSET Sub]
        /\ channels_ready' \in SUBSET Ch /\ e_pc' \in {"wait", "channels"}
    BY <1>8 DEF EphemerisChannel
  <2>2. new \in Some
    BY CopiedIs
  <2>3. DOMAIN new = Sub => set \in [Sub -> Set]
    BY CopiedIs DEF Subframe
  <2>4. message_prn[c] \in Satellites
    OBVIOUS
  <2>5. local_sf' \in [Ch -> Some]
    BY <1>8, <2>2, ChannelEffect
  <2>6. DOMAIN new = Sub => set[2].issue \in Issue
    BY <2>3 DEF Set, Sub
  <2>7. ephemeris' \in [Ch -> [valid : BOOLEAN, prn : Satellites, iode : Issue,
                               part : [Sub -> Set]]]
    <3>1. CASE ephemeris' = [ephemeris EXCEPT ![c] = [@ EXCEPT !.valid = FALSE]]
      BY <3>1
    <3>2. CASE /\ DOMAIN new = Sub
               /\ ephemeris' = [ephemeris EXCEPT ![c] =
                    [valid |-> TRUE, prn |-> message_prn[c], iode |-> set[2].issue,
                     part |-> set]]
      BY <2>3, <2>4, <2>6, <3>2
    <3>3. CASE UNCHANGED ephemeris
      BY <3>3
    <3> QED
      BY <1>8, <3>1, <3>2, <3>3, ChannelEffect
  <2> QED
    BY <2>1, <2>5, <2>7 DEF satVars, channelVars, messageVars
<1>9. CASE UNCHANGED vars
  BY <1>9 DEF vars, satVars, channelVars, messageVars, flagVars, threadVars, dataVars
<1> QED
  BY <1>1, <1>2, <1>3, <1>4, <1>5, <1>6, <1>7, <1>8, <1>9 DEF Next, Thread

\* The parts of IInv besides TypeOK look at neither satVars nor on.
LEMMA Unmoved ==
  ASSUME IInv, UNCHANGED <<prn, messageVars, flagVars, threadVars, dataVars>>
  PROVE  Own' /\ Parsed' /\ Full' /\ Pending' /\ Asleep' /\ OwnSatellite' /\ OneDataSet'
<1>1. Own' /\ Full' /\ Pending' /\ Asleep' /\ OwnSatellite' /\ OneDataSet'
  BY DEF IInv, Own, Full, Pending, Asleep, OwnSatellite, OneDataSet,
         messageVars, flagVars, threadVars, dataVars
<1>2. Parsed'
  BY DEF IInv, Parsed, Agree, dataVars
<1> QED
  BY <1>1, <1>2

LEMMA MessageStep ==
  ASSUME IInv, NEW c \in Ch, NEW i \in Sub, Received(c, i) \/ Spoilt(c, i)
  PROVE  Own' /\ Parsed' /\ Full' /\ Pending' /\ Asleep' /\ OwnSatellite' /\ OneDataSet'
<1> USE DEF IInv
<1>1. UNCHANGED <<prn, threadVars, dataVars>>
  BY DEF Received, Spoilt, channelVars
<1>2. Parsed' /\ Full' /\ Asleep' /\ OwnSatellite' /\ OneDataSet'
  <2>1. UNCHANGED <<prn, e_pc, channels_ready, local_sf, ephemeris>>
    BY <1>1 DEF threadVars, dataVars
  <2>2. Parsed'
    BY <2>1 DEF Parsed, Agree
  <2>3. Full' /\ Asleep' /\ OwnSatellite'
    BY <2>1 DEF Full, Asleep, OwnSatellite
  <2>4. OneDataSet'
    BY <2>1 DEF OneDataSet
  <2> QED
    BY <2>2, <2>3, <2>4
<1>3. CASE Received(c, i)
  <2>1. /\ sf'[c] = [j \in DOMAIN sf[c] \cup {i} |->
                       IF j = i THEN Sent(prn[c], i) ELSE sf[c][j]]
        /\ \A d \in Ch \ {c} : sf'[d] = sf[d]
        /\ message_prn'[c] = prn[c]
        /\ \A d \in Ch \ {c} : message_prn'[d] = message_prn[d]
    BY <1>3 DEF Received, TypeOK
  <2>2. Own'
    <3>1. Sent(prn[c], i).set.sat = prn[c]
      BY DEF Sent
    <3>2. \A j \in DOMAIN sf'[c] : sf'[c][j].set.sat = prn[c]
      BY <2>1, <3>1 DEF Own
    <3>3. prn' = prn /\ local_sf' = local_sf
      BY <1>1 DEF dataVars
    <3>4. \A d \in Ch \ {c} : \A j \in DOMAIN sf'[d] : sf'[d][j].set.sat = prn[d]
      BY <2>1 DEF Own
    <3>5. \A d \in Ch : DOMAIN sf'[d] # {} => message_prn'[d] = prn[d]
      BY <2>1 DEF Own
    <3>6. \A d \in Ch : \A j \in DOMAIN sf'[d] : sf'[d][j].set.sat = prn[d]
      BY <3>2, <3>4
    <3> QED
      BY <3>3, <3>5, <3>6 DEF Own
  <2>3. /\ i \in subframe_flags'[c] /\ c \in channel_flag'
        /\ channel_flag \subseteq channel_flag'
        /\ \A d \in Ch : subframe_flags[d] \subseteq subframe_flags'[d]
    BY <1>3 DEF Received, which_subframe, TypeOK
  <2>4. Pending'
    BY <1>1, <2>1, <2>3 DEF Pending, threadVars, dataVars
  <2> QED
    BY <1>2, <2>2, <2>4
<1>4. CASE Spoilt(c, i)
  <2>1. /\ sf'[c] = [j \in DOMAIN sf[c] \ {i} |-> sf[c][j]]
        /\ \A d \in Ch \ {c} : sf'[d] = sf[d]
        /\ message_prn'[c] = prn[c]
        /\ \A d \in Ch \ {c} : message_prn'[d] = message_prn[d]
        /\ UNCHANGED flagVars
    BY <1>4 DEF Spoilt, TypeOK
  <2>2. Own'
    BY <1>1, <2>1 DEF Own, dataVars
  <2>3. Pending'
    BY <1>1, <2>1 DEF Pending, flagVars, threadVars, dataVars
  <2> QED
    BY <1>2, <2>2, <2>3
<1> QED
  BY <1>3, <1>4

LEMMA AllocateStep ==
  ASSUME IInv, NEW c \in Ch,
         restart_channel(c) \/ \E p \in Satellites : initialize_channel(c, p)
  PROVE  Own' /\ Parsed' /\ Full' /\ Pending' /\ Asleep' /\ OwnSatellite' /\ OneDataSet'
<1> USE NoneIs DEF IInv
<1>1. UNCHANGED <<message_prn, flagVars, threadVars>>
  BY DEF restart_channel, initialize_channel
<1>2. sf'[c] = None /\ \A d \in Ch \ {c} : sf'[d] = sf[d]
  BY DEF restart_channel, initialize_channel, clear_messages, TypeOK
<1>3. Asleep'
  BY <1>1 DEF Asleep, threadVars
<1>4. CASE restart_channel(c)
  <2>1. UNCHANGED <<prn, dataVars>>
    BY <1>4 DEF restart_channel
  <2>2. Own'
    BY <1>1, <1>2, <2>1 DEF Own, dataVars
  <2>3. Pending'
    BY <1>1, <1>2, <2>1 DEF Pending, flagVars, threadVars, dataVars
  <2>4. Parsed' /\ Full' /\ OwnSatellite' /\ OneDataSet'
    <3>1. UNCHANGED <<prn, local_sf, ephemeris>>
      BY <2>1 DEF dataVars
    <3>2. Parsed' /\ Full'
      BY <3>1 DEF Parsed, Agree, Full
    <3>3. OwnSatellite' /\ OneDataSet'
      BY <3>1 DEF OwnSatellite, OneDataSet
    <3> QED
      BY <3>2, <3>3
  <2> QED
    BY <1>3, <2>2, <2>3, <2>4
<1>5. ASSUME NEW p \in Satellites, initialize_channel(c, p)
      PROVE  Own' /\ Parsed' /\ Full' /\ Pending' /\ OwnSatellite' /\ OneDataSet'
  <2>1. /\ local_sf'[c] = None /\ ~ephemeris'[c].valid
        /\ \A d \in Ch \ {c} : /\ local_sf'[d] = local_sf[d]
                               /\ ephemeris'[d] = ephemeris[d]
                               /\ prn'[d] = prn[d]
    BY <1>5 DEF initialize_channel, clear_ephemeris, NotValid, TypeOK
  <2>2. Own'
    BY <1>1, <1>2, <2>1 DEF Own
  <2>3. Parsed'
    <3>1. DOMAIN local_sf'[c] # Sub
      BY <2>1 DEF Sub
    <3>2. ASSUME NEW d \in Ch \ {c},
                 DOMAIN local_sf'[d] = Sub, Agree([i \in Sub |-> local_sf'[d][i].set])
          PROVE  ephemeris'[d].valid /\ ephemeris'[d].iode = local_sf'[d][2].set.issue
      BY <2>1, <3>2 DEF Parsed
    <3> QED
      BY <3>1, <3>2 DEF Parsed
  <2>4. Full' /\ OwnSatellite' /\ OneDataSet'
    <3>1. Full'
      BY <2>1 DEF Full
    <3>2. OwnSatellite'
      BY <2>1 DEF OwnSatellite
    <3>3. OneDataSet'
      BY <2>1 DEF OneDataSet
    <3> QED
      BY <3>1, <3>2, <3>3
  <2>5. Pending'
    BY <1>1, <1>2, <2>1 DEF Pending, flagVars, threadVars
  <2> QED
    BY <2>2, <2>3, <2>4, <2>5
<1> QED
  BY <1>3, <1>4, <1>5

LEMMA WakeStep ==
  ASSUME IInv, EphemerisWake
  PROVE  Own' /\ Parsed' /\ Full' /\ Pending' /\ Asleep' /\ OwnSatellite' /\ OneDataSet'
<1>1. UNCHANGED <<prn, messageVars, subframe_flags, dataVars>>
  BY DEF EphemerisWake, channelVars
<1>2. channel_flag \cup channels_ready = channel_flag' \cup channels_ready'
  BY DEF EphemerisWake, IInv, Asleep
<1>3. Own' /\ Full' /\ OwnSatellite' /\ OneDataSet'
  BY <1>1 DEF IInv, Own, Full, OwnSatellite, OneDataSet, messageVars, dataVars
<1>4. Parsed'
  BY <1>1 DEF IInv, Parsed, Agree, dataVars
<1>5. Pending'
  BY <1>1, <1>2 DEF IInv, Pending, messageVars, dataVars
<1>6. Asleep'
  BY DEF Asleep, EphemerisWake
<1> QED
  BY <1>3, <1>4, <1>5, <1>6

LEMMA ChannelStep ==
  ASSUME IInv, NEW c \in Ch, EphemerisChannel(c)
  PROVE  Own' /\ Parsed' /\ Full' /\ Pending' /\ Asleep' /\ OwnSatellite' /\ OneDataSet'
<1> USE DEF IInv
<1> DEFINE new == Copied(c)
           set == [i \in Sub |-> new[i].set]
           flagged == subframe_flags[c] \cap DOMAIN sf[c]
           old == ephemeris[c]
           eph == ephemeris'[c]
           loc == local_sf'[c]
<1>1. /\ UNCHANGED <<prn, messageVars, channel_flag>>
      /\ \A d \in Ch \ {c} : subframe_flags'[d] = subframe_flags[d]
      /\ channels_ready' = channels_ready \ {c}
      /\ e_pc' = IF channels_ready' = {} THEN "wait" ELSE "channels"
  BY DEF EphemerisChannel, channelVars, TypeOK
<1>2. \A d \in Ch \ {c} : local_sf'[d] = local_sf[d] /\ ephemeris'[d] = ephemeris[d]
  BY ChannelEffect DEF TypeOK
<1>3. /\ DOMAIN new = DOMAIN local_sf[c] \cup flagged /\ DOMAIN new \subseteq Sub
      /\ \A i \in flagged : new[i] = sf[c][i]
      /\ \A i \in DOMAIN local_sf[c] \ flagged : new[i] = local_sf[c][i]
  BY CopiedIs, SomeIs DEF Copied
<1>4. \A i \in DOMAIN new : new[i].set.sat = prn[c]
  BY <1>3 DEF Own
\* What becomes of the channel's data.
<1>5. \/ /\ ~eph.valid /\ loc = None
      \/ /\ DOMAIN new = Sub /\ new[1].usable /\ loc = new
         /\ Agree(set) /\ ~AlreadyParsed(old, set)
         /\ eph = [valid |-> TRUE, prn |-> message_prn[c], iode |-> set[2].issue,
                   part |-> set]
      \/ /\ DOMAIN new = Sub /\ new[1].usable /\ loc = new
         /\ Agree(set) => AlreadyParsed(old, set)
         /\ eph = old
      \/ /\ DOMAIN new # Sub /\ loc = new /\ eph = old
  <2>1. \A v : local_sf' = [local_sf EXCEPT ![c] = v] => loc = v
    BY DEF TypeOK
  <2>2. \A v : ephemeris' = [ephemeris EXCEPT ![c] = v] => eph = v
    BY DEF TypeOK
  <2>3. ephemeris' = [ephemeris EXCEPT ![c] = [@ EXCEPT !.valid = FALSE]]
          => ~eph.valid
    BY DEF TypeOK
  <2>4. UNCHANGED ephemeris => eph = old
    OBVIOUS
  <2> HIDE DEF new, set, old, eph, loc
  <2>5. CASE /\ ephemeris' = [ephemeris EXCEPT ![c] = [@ EXCEPT !.valid = FALSE]]
             /\ local_sf' = [local_sf EXCEPT ![c] = None]
    BY <2>1, <2>3, <2>5
  <2> QED
    BY <2>1, <2>2, <2>4, <2>5, ChannelEffect DEF new, set, old
<1>6. loc = None \/ loc = new
  BY <1>5
<1>7. Own'
  <2>1. \A i \in DOMAIN loc : loc[i].set.sat = prn[c]
    BY <1>4, <1>6, NoneIs
  <2> QED
    BY <1>1, <1>2, <2>1 DEF Own, messageVars
<1>8. Full'
  <2>1. eph.valid => DOMAIN loc = Sub
    BY <1>3, <1>5 DEF Full
  <2> QED
    BY <1>2, <2>1 DEF Full
<1>9. Parsed'
  <2>1. DOMAIN loc = Sub /\ Agree([i \in Sub |-> loc[i].set])
          => eph.valid /\ eph.iode = loc[2].set.issue
    <3>1. SUFFICES ASSUME DOMAIN loc = Sub, Agree([i \in Sub |-> loc[i].set])
                   PROVE  eph.valid /\ eph.iode = loc[2].set.issue
      OBVIOUS
    <3>2. loc = new
      BY <1>6, <3>1, NoneIs DEF Sub
    <3>3. Agree(set) /\ set[2].issue = loc[2].set.issue
      BY <3>1, <3>2 DEF Sub
    <3>4. ~(loc = None)
      BY <3>1, NoneIs DEF Sub
    <3> QED
      BY <1>5, <3>1, <3>2, <3>3, <3>4 DEF AlreadyParsed
  <2>2. ASSUME NEW d \in Ch \ {c},
               DOMAIN local_sf'[d] = Sub, Agree([i \in Sub |-> local_sf'[d][i].set])
        PROVE  ephemeris'[d].valid /\ ephemeris'[d].iode = local_sf'[d][2].set.issue
    BY <1>2, <2>2 DEF Parsed
  <2> QED
    BY <2>1, <2>2 DEF Parsed
\* An update has at least one new subframe: with none it changes nothing.
<1>10. ASSUME Agree(set), ~AlreadyParsed(old, set), DOMAIN new = Sub
       PROVE  message_prn[c] = prn[c]
  <2>1. CASE flagged = {}
    <3>1. new = local_sf[c]
      <4>1. local_sf[c] \in [DOMAIN local_sf[c] -> Subframe]
        BY SomeIs DEF TypeOK
      <4> QED
        BY <2>1, <4>1 DEF Copied
    <3>2. old.valid /\ old.iode = new[2].set.issue
      BY <1>10, <3>1 DEF Parsed
    <3>3. set[2].issue = new[2].set.issue
      BY DEF Sub
    <3> QED
      BY <1>10, <3>2, <3>3 DEF AlreadyParsed
  <2>2. CASE flagged # {}
    BY <2>2 DEF Own
  <2> QED
    BY <2>1, <2>2
<1>11. OwnSatellite' /\ OneDataSet'
  <2> DEFINE Good(e, p) ==
        e.valid => /\ e.prn = p
                   /\ \A i \in Sub : e.part[i] = [sat |-> e.prn, issue |-> e.iode]
  <2>1. \A d \in Ch : Good(ephemeris[d], prn[d])
    BY DEF OwnSatellite, OneDataSet
  <2>2. SUFFICES Good(eph, prn[c])
    <3>1. \A d \in Ch \ {c} : Good(ephemeris'[d], prn[d])
      <4> HIDE DEF Good
      <4> QED BY <1>2, <2>1
    <3>2. \A d \in Ch : Good(ephemeris'[d], prn[d])
      <4> HIDE DEF Good
      <4> QED BY <2>2, <3>1
    <3>3. prn' = prn
      BY <1>1
    <3> QED
      BY <3>2, <3>3 DEF OwnSatellite, OneDataSet
  <2>4. CASE ~eph.valid
    BY <2>4
  <2>5. CASE eph = old
    <3> HIDE DEF Good
    <3> QED BY <2>1, <2>5
  <2>3. CASE /\ DOMAIN new = Sub /\ Agree(set) /\ ~AlreadyParsed(old, set)
             /\ eph = [valid |-> TRUE, prn |-> message_prn[c], iode |-> set[2].issue,
                       part |-> set]
    <3>1. eph.prn = prn[c] /\ eph.iode = set[2].issue /\ eph.part = set
      BY <1>10, <2>3
    <3>2. ASSUME NEW i \in Sub
          PROVE  set[i] = [sat |-> prn[c], issue |-> set[2].issue]
      <4>1. set[i] \in Set /\ set[i].sat = prn[c]
        BY <1>4, <2>3, CopiedIs DEF Subframe
      <4>2. set[i].issue = set[2].issue
        BY <2>3 DEF Agree, Sub
      <4> QED
        BY <4>1, <4>2 DEF Set
    <3> QED
      BY <3>1, <3>2
  <2> HIDE DEF Good, new, set, old, eph, loc
  <2> QED
    BY <1>5, <2>3, <2>4, <2>5
<1>12. Pending'
  <2>1. ASSUME 1 \in DOMAIN sf[c], ~sf[c][1].usable
        PROVE  /\ ~eph.valid
               /\ 1 \in DOMAIN loc => ~loc[1].usable
    <3>1. 1 \in DOMAIN new => ~new[1].usable
      BY <1>3, <2>1 DEF Pending
    <3>2. 1 \in Sub
      BY DEF Sub
    <3>3. CASE DOMAIN new # Sub /\ loc = new /\ eph = old
      BY <1>3, <3>1, <3>3 DEF Full
    <3>4. CASE ~eph.valid /\ loc = None
      BY <3>4, NoneIs
    <3> QED
      BY <1>5, <3>1, <3>2, <3>3, <3>4
  <2>2. sf' = sf
    BY <1>1 DEF messageVars
  <2> QED
    BY <1>1, <1>2, <2>1, <2>2 DEF Pending
<1>13. Asleep'
  BY <1>1 DEF Asleep
<1> QED
  BY <1>7, <1>8, <1>9, <1>11, <1>12, <1>13

LEMMA IStep == IInv /\ [Next]_vars => IInv'
<1> SUFFICES ASSUME IInv, [Next]_vars PROVE IInv'
  OBVIOUS
<1> DEFINE Parts == /\ Own /\ Parsed /\ Full /\ Pending /\ Asleep
                    /\ OwnSatellite /\ OneDataSet
<1>1. TypeOK'
  BY TypeStep DEF IInv
<1>2. ASSUME NEW p \in Satellites, Upload(p) PROVE Parts'
  BY <1>2, Unmoved DEF Upload, channelVars
<1>3. ASSUME NEW c \in Ch, NEW i \in Sub, Received(c, i) \/ Spoilt(c, i) PROVE Parts'
  BY <1>3, MessageStep
<1>4. ASSUME NEW c \in Ch, Lost(c) PROVE Parts'
  BY <1>4, Unmoved DEF Lost
<1>5. ASSUME NEW c \in Ch,
             restart_channel(c) \/ \E p \in Satellites : initialize_channel(c, p)
      PROVE  Parts'
  BY <1>5, AllocateStep
<1>6. ASSUME EphemerisWake PROVE Parts'
  BY <1>6, WakeStep
<1>7. ASSUME NEW c \in Ch, EphemerisChannel(c) PROVE Parts'
  BY <1>7, ChannelStep
<1>8. ASSUME UNCHANGED vars PROVE Parts'
  BY <1>8, Unmoved DEF vars, channelVars
<1> QED
  BY <1>1, <1>2, <1>3, <1>4, <1>5, <1>6, <1>7, <1>8 DEF Next, Thread, IInv

-----------------------------------------------------------------------------
LEMMA Inductive == Spec => []IInv
BY InitIInv, IStep, PTL DEF Spec

\* Every variable keeps its type.
THEOREM TypeCorrect == Spec => []TypeOK
<1>1. IInv => TypeOK
  BY DEF IInv
<1> QED
  BY Inductive, <1>1, PTL

\* ephemeris.c:237-238: a valid ephemeris is one complete data set, however the
\* subframes, the changes of the data set and those of the satellite interleave.
THEOREM OneDataSetCorrect == Spec => []OneDataSet
<1>1. IInv => OneDataSet
  BY DEF IInv
<1> QED
  BY Inductive, <1>1, PTL

\* allocate.c:131-134: it is of the satellite the channel is on.
THEOREM OwnSatelliteCorrect == Spec => []OwnSatellite
<1>1. IInv => OwnSatellite
  BY DEF IInv
<1> QED
  BY Inductive, <1>1, PTL

\* ephemeris.c:288-293: a bad subframe 1 the thread has dealt with leaves no valid
\* ephemeris of its satellite.
THEOREM BadIsInvalidCorrect == Spec => []BadIsInvalid
<1>1. IInv => BadIsInvalid
  BY DEF IInv, Pending, Asleep, BadIsInvalid, EphemerisBlocked
<1> QED
  BY Inductive, <1>1, PTL
=============================================================================
