-------------------------------- MODULE Clock --------------------------------
(***************************************************************************)
(* The receiver's clock (time.c).  The measure thread advances it by every *)
(* TIC; the message thread sets its seconds from the first time of week    *)
(* that two subframes confirm; the ephemeris thread sets its week from the *)
(* subframe 1 of the first ephemeris it parses after that.  Threads of     *)
(* lower priority read its two words (log.c, display.c).                   *)
(*                                                                         *)
(* The unit is a TIC.  One channel is followed, the one that sets the      *)
(* clock: what the others would set later is ignored by the code.  Nothing *)
(* calls set_clock_correction (position.c:829 is commented out) or         *)
(* set_to_fix_clock.                                                       *)
(***************************************************************************)
EXTENDS Integers

CONSTANTS
  WEEK,         \* TICs in a week: 6048000
  SUBFRAME,     \* TICs in a subframe: 60
  HOW,          \* TICs from its beginning to the end of its HOW: 12
  WEEKS,        \* weeks are sent modulo this: 1024
  FIRST, LAST,  \* bound: the weeks that are gone through
  MAX_LATE,     \* bound: TICs while the message thread sets the seconds
  MAX_READ      \* bound: TICs while a thread reads the clock

ASSUME ClockAssumption ==
  /\ SUBFRAME \in Nat /\ HOW \in 1 .. SUBFRAME - 1
  /\ WEEK \in Nat \ {0} /\ WEEK % (5 * SUBFRAME) = 0
  /\ WEEKS \in Nat \ {0}
  /\ FIRST \in Nat /\ LAST \in Nat /\ WEEKS <= FIRST /\ FIRST <= LAST
  /\ MAX_LATE \in 0 .. WEEK /\ MAX_READ \in 0 .. WEEK

VARIABLES
  week, tic,            \* GPS time: the week since 1980, the TIC of the week
  weeks, seconds, clock_state,
  how,                  \* HOW of the subframe before, if messages[] still has it
  sf,                   \* the subframe being received
  tow, late,            \* what look_for_preamble is about to set, since how long
  issue,                \* the data set being sent
  subframe_flag, local_sf,
  ephemeris,            \* the data set parsed
  r_pc, r_weeks, r_seconds,   \* a reader
  r_from,               \* history: the clock when it began
  lag,                  \* history: late when the seconds were set
  used, set_in,         \* history: the week of that subframe 1, and of the setting
  early,                \* history: the ephemeris was parsed before the time was set
  heard                 \* history: subframes received in a row, up to HEARD

gpsVars    == <<week, tic>>
timeVars   == <<weeks, seconds, clock_state>>
messageVars == <<how, sf, tow, late>>
ephemerisVars == <<subframe_flag, local_sf, ephemeris>>
readVars   == <<r_pc, r_weeks, r_seconds, r_from>>
setVars    == <<lag, used, set_in, early>>
vars == <<gpsVars, timeVars, messageVars, issue, ephemerisVars, readVars, setVars,
          heard>>

None == -1
HEARD == 5
LastTow == WEEK \div SUBFRAME - 1

\* The clock, and GPS time, as TICs.
Clock == weeks * WEEK + seconds
Now == week * WEEK + tic

Copy == [issue : 0 .. 1, week : FIRST .. LAST]
NoCopy == [issue |-> None, week |-> None]

TypeOK ==
  /\ week \in FIRST .. LAST /\ tic \in 0 .. WEEK - 1
  /\ weeks \in Nat /\ seconds \in 0 .. WEEK - 1
  /\ clock_state \in {"NO_CLOCK", "HOW_CLOCK", "SF1_CLOCK"}
  /\ how \in BOOLEAN /\ sf \in {"head", "synced", "lost"}
  /\ tow \in {None} \cup 0 .. LastTow /\ late \in 0 .. MAX_LATE
  /\ issue \in 0 .. 1
  /\ subframe_flag \in BOOLEAN
  /\ local_sf \in [1 .. 3 -> Copy \cup {NoCopy}]
  /\ ephemeris \in {None} \cup 0 .. 1
  /\ r_pc \in {"idle", "first", "done"}
  /\ r_weeks \in Nat \cup {None} /\ r_seconds \in {None} \cup 0 .. WEEK - 1
  /\ r_from \in Nat
  /\ lag \in 0 .. MAX_LATE
  /\ used \in FIRST .. LAST /\ set_in \in FIRST - 1 .. LAST
  /\ early \in BOOLEAN
  /\ heard \in 0 .. HEARD

\* Boot, at the beginning of some subframe of the first week.
Init ==
  /\ week = FIRST /\ tic \in {i * SUBFRAME : i \in 0 .. LastTow}
  /\ weeks = 0 /\ seconds = 0 /\ clock_state = "NO_CLOCK"
  /\ how = FALSE /\ sf = "head" /\ tow = None /\ late = 0
  /\ issue = 0
  /\ subframe_flag = FALSE /\ local_sf = [i \in 1 .. 3 |-> NoCopy]
  /\ ephemeris = None
  /\ r_pc = "idle" /\ r_weeks = None /\ r_seconds = None /\ r_from = 0
  /\ lag = 0 /\ used = FIRST /\ set_in = FIRST /\ early = FALSE /\ heard = 0

-----------------------------------------------------------------------------
(* The measure thread, of the highest priority of all that use the clock.  *)

\* Mutant: the end of a week is not counted.
NoWeek(t) == [weeks |-> t.weeks, seconds |-> (t.seconds + 1) % WEEK]

increment_time_with_tic(t) ==
  LET s == t.seconds + 1 IN
  IF s >= WEEK THEN [weeks |-> t.weeks + 1, seconds |-> s - WEEK]
  ELSE IF s < 0 THEN [weeks |-> t.weeks - 1, seconds |-> s + WEEK]
  ELSE [weeks |-> t.weeks, seconds |-> s]

\* The HOW comes HOW TICs into a subframe; what it brought is dealt with, and at
\* its end the subframe, before the next TIC.  What a reader has read is no state
\* of the program.
Due == \/ tic % SUBFRAME = HOW /\ sf = "head"
       \/ tic % SUBFRAME = 0 /\ sf # "head"

Tic ==
  /\ ~Due /\ r_pc # "done"
  /\ IF tic < WEEK - 1 THEN week' = week /\ tic' = tic + 1
                       ELSE week < LAST /\ week' = week + 1 /\ tic' = 0
  /\ LET t == increment_time_with_tic([weeks |-> weeks, seconds |-> seconds]) IN
       weeks' = t.weeks /\ seconds' = t.seconds
  /\ IF tow = None THEN UNCHANGED late
                   ELSE late < MAX_LATE /\ late' = late + 1
  /\ r_pc = "first" => Clock < r_from + MAX_READ
  /\ UNCHANGED <<clock_state, how, sf, tow, issue, ephemerisVars, readVars, setVars,
                 heard>>

-----------------------------------------------------------------------------
(* The message thread.                                                     *)

\* The TOW of the subframe under way: of the beginning of the next.
TOW == IF tic \div SUBFRAME = LastTow THEN 0 ELSE tic \div SUBFRAME + 1

\* TLM and HOW are good.  One that follows the one before sets the time; one that
\* does not, after a subframe of many frames ago, or whose week starts with 0, has
\* everything thrown away; the first one is only kept.
HowReceived ==
  /\ tic % SUBFRAME = HOW /\ sf = "head" /\ tow = None
  /\ \/ /\ how /\ TOW # 0
        /\ sf' = "synced" /\ tow' = TOW /\ UNCHANGED <<how, heard>>
     \/ /\ how => TOW = 0
        /\ sf' = "lost" /\ how' = FALSE /\ heard' = 0 /\ UNCHANGED tow
     \/ /\ ~how
        /\ sf' = "synced" /\ how' = TRUE /\ UNCHANGED <<tow, heard>>
  /\ late' = 0
  /\ UNCHANGED <<gpsVars, timeVars, issue, ephemerisVars, readVars, setVars>>

HowLost ==
  /\ tic % SUBFRAME = HOW /\ sf = "head" /\ tow = None
  /\ sf' = "lost" /\ how' = FALSE /\ heard' = 0
  /\ UNCHANGED <<gpsVars, timeVars, tow, late, issue, ephemerisVars, readVars,
                 setVars>>

\* Mutant: TOW is taken for the beginning of this subframe.
ThisSubframe(t) == (t * SUBFRAME + HOW) % WEEK

\* The seconds at the sixtieth bit of the subframe before TOW.
FromTow(t) == IF t # 0 THEN t * SUBFRAME - (SUBFRAME - HOW)
                       ELSE WEEK - (SUBFRAME - HOW)

set_time_with_tow ==
  /\ tow # None /\ tow' = None
  /\ IF clock_state = "NO_CLOCK"
       THEN /\ seconds' = FromTow(tow) /\ clock_state' = "HOW_CLOCK"
            /\ lag' = late
       ELSE UNCHANGED <<seconds, clock_state, lag>>
  /\ UNCHANGED <<gpsVars, weeks, how, sf, late, issue, ephemerisVars, readVars, used,
                 set_in, early, heard>>

\* The number of the subframe that has just ended.
Ended == ((tic \div SUBFRAME + 4) % 5) + 1

\* The last word: all ten are good, or the subframe is not passed on.
SubframeEnd ==
  /\ tic % SUBFRAME = 0 /\ sf # "head" /\ tow = None /\ ~subframe_flag
  /\ sf' = "head"
  /\ \/ /\ sf = "synced"
        /\ heard' = IF heard < HEARD THEN heard + 1 ELSE HEARD
        /\ IF Ended \in 1 .. 3
             THEN /\ subframe_flag' = TRUE
                  /\ local_sf' = [local_sf EXCEPT ![Ended] =
                                    [issue |-> issue, week |-> week]]
             ELSE UNCHANGED <<subframe_flag, local_sf>>
     \/ heard' = 0 /\ UNCHANGED <<subframe_flag, local_sf>>
  /\ UNCHANGED <<gpsVars, timeVars, how, tow, late, issue, ephemeris, readVars,
                 setVars>>

\* The satellite goes over to its next data set, at the beginning of a frame.
Upload ==
  /\ issue = 0 /\ issue' = 1
  /\ tic % (5 * SUBFRAME) = 0 /\ sf = "head"
  /\ heard' = 0
  /\ UNCHANGED <<gpsVars, timeVars, messageVars, ephemerisVars, readVars, setVars>>

-----------------------------------------------------------------------------
(* The ephemeris thread and the allocate thread.                           *)

Complete == \A i \in 1 .. 3 : local_sf[i] # NoCopy
Agree == \A i \in 1 .. 3 : local_sf[i].issue = local_sf[1].issue

\* Mutant: the clock must have no time yet.
BeforeHow == clock_state = "NO_CLOCK"

HowOnly == clock_state = "HOW_CLOCK"

set_time_with_weeks ==
  IF HowOnly
    THEN /\ weeks' = (local_sf[1].week % WEEKS) + WEEKS
         /\ clock_state' = "SF1_CLOCK"
         /\ used' = local_sf[1].week /\ set_in' = (Now - lag) \div WEEK
    ELSE UNCHANGED <<weeks, clock_state, used, set_in>>

\* Only the measure and message threads preempt it: it is through before the next
\* subframe has ended.
update_ephemeris ==
  /\ subframe_flag /\ subframe_flag' = FALSE
  /\ IF Complete /\ Agree /\ ephemeris # local_sf[2].issue
       THEN /\ set_time_with_weeks
            /\ ephemeris' = local_sf[2].issue
            /\ early' = (clock_state = "NO_CLOCK")
       ELSE UNCHANGED <<weeks, clock_state, ephemeris, used, set_in, early>>
  /\ UNCHANGED <<gpsVars, seconds, messageVars, issue, local_sf, readVars, lag, heard>>

\* The channel loses its satellite, and searches it again or another one.
Restart ==
  /\ tow = None /\ ~subframe_flag
  /\ how' = FALSE /\ heard' = 0
  /\ sf' = IF sf = "head" THEN "head" ELSE "lost"
  /\ UNCHANGED <<gpsVars, timeVars, tow, late, issue, subframe_flag, readVars, setVars>>

restart_channel == Restart /\ UNCHANGED <<local_sf, ephemeris>>

initialize_channel ==
  Restart /\ local_sf' = [i \in 1 .. 3 |-> NoCopy] /\ ephemeris' = None

-----------------------------------------------------------------------------
(* A thread of lower priority reads both words of the clock, in the order  *)
(* the compiler chose.                                                     *)

ReadFirst ==
  /\ r_pc = "idle" /\ clock_state = "SF1_CLOCK"
  /\ r_pc' = "first" /\ r_from' = Clock
  /\ \/ r_weeks' = weeks /\ UNCHANGED r_seconds
     \/ r_seconds' = seconds /\ UNCHANGED r_weeks
  /\ UNCHANGED <<gpsVars, timeVars, messageVars, issue, ephemerisVars, setVars, heard>>

ReadSecond ==
  /\ r_pc = "first" /\ r_pc' = "done"
  /\ r_weeks' = IF r_weeks = None THEN weeks ELSE r_weeks
  /\ r_seconds' = IF r_seconds = None THEN seconds ELSE r_seconds
  /\ UNCHANGED <<gpsVars, timeVars, messageVars, issue, ephemerisVars, r_from, setVars,
                 heard>>

ReadDone ==
  /\ r_pc = "done" /\ r_pc' = "idle"
  /\ r_weeks' = None /\ r_seconds' = None /\ r_from' = 0
  /\ UNCHANGED <<gpsVars, timeVars, messageVars, issue, ephemerisVars, setVars, heard>>

-----------------------------------------------------------------------------
Next ==
  \/ Tic
  \/ HowReceived \/ HowLost \/ set_time_with_tow \/ SubframeEnd
  \/ Upload
  \/ update_ephemeris \/ restart_channel \/ initialize_channel
  \/ ReadFirst \/ ReadSecond \/ ReadDone

Spec == Init /\ [][Next]_vars

-----------------------------------------------------------------------------
(* Properties.                                                             *)

\* Weeks the subframe 1 was behind the time at which its week was used, and weeks
\* that adding 1024 (time.c:140-146) is short of the true week.
Behind == (set_in - used) + ((used \div WEEKS) - 1) * WEEKS

\* The clock set from one subframe's time of week and, half a minute or a week
\* later, from another's week number is one time, and stays so over the ends of
\* weeks: behind only by the TICs that were not counted while the message thread
\* set it, by the age of the subframe 1 in weeks, and by 1024 weeks after 2019.
ClockRight ==
  /\ clock_state # "NO_CLOCK" => (tic - seconds - lag) % WEEK = 0
  /\ clock_state = "SF1_CLOCK" => Clock + lag + Behind * WEEK = Now

\* Within five subframes received one after another the week is set, whatever was
\* lost, thrown away or sent before; unless the ephemeris had been parsed before
\* there was a time: update_ephemeris() does not parse it again (ephemeris.c:268).
WeekComes ==
  heard = HEARD /\ ~subframe_flag => clock_state = "SF1_CLOCK" \/ early

\* What get_time() and get_standard_time() make of the two words is a time that
\* the clock showed while they were read; or, if a week ended, a week more or less.
ReadRight ==
  r_pc = "done" =>
    LET read == r_weeks * WEEK + r_seconds
        Shown(t) == r_from <= t /\ t <= Clock
    IN  \/ Shown(read)
        \/ /\ r_from \div WEEK # Clock \div WEEK
           /\ Shown(read - WEEK) \/ Shown(read + WEEK)
=============================================================================
