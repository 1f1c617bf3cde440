------------------------------ MODULE Pipeline ------------------------------
(***************************************************************************)
(* From the TIC to the position fix: the accumulator DSR (interrupts.c),   *)
(* the measure thread, the pseudorange thread and the position thread.     *)
(*                                                                         *)
(* A measurement is abstracted to the TIC it was taken at.  Each thread    *)
(* has a program counter and takes one step per access to what it shares   *)
(* with another thread.  eCos runs the ready thread of highest priority    *)
(* and the DSR before every thread (gpl-gps.c:22-28), so a thread steps    *)
(* only when the ones above it are blocked; threads outside this module    *)
(* (message, ephemeris, allocate) only take time away from the ones below. *)
(***************************************************************************)
EXTENDS Naturals, FiniteSets

CONSTANTS
  N_CHANNELS,   \* correlator channels
  MIN_SATS,     \* satellites a fix needs: the literal 4 of position.c:817
  MaxTic        \* bound: TICs in a behaviour

ASSUME PipelineAssumption ==
  /\ N_CHANNELS \in Nat \ {0}
  /\ MIN_SATS \in Nat \ {0}
  /\ MaxTic \in Nat

Ch == 0 .. N_CHANNELS - 1

VARIABLES
  tic,                \* TICs so far; the correlators latch at each
  overtaken,          \* history: a TIC came before the measure and pseudorange
                      \* threads had finished with the one before
  measure_semaphore, m_pc, m_ch, channels_ready, prev_channels,
  clock, meas_time, meas,
  pseudorange_flag, p_pc, p_ch, measurements_ready, pr_time, pr,
  pr2, pr2_time, pr2_data_fresh, position_semaphore,
  s_pc, s_ch, m_rho,
  positioning,        \* receiver_pos.positioning
  fix                 \* the entries the rest of receiver_pos is computed from

measureVars == <<m_pc, m_ch, channels_ready, prev_channels, clock, meas_time>>
pseudoVars  == <<p_pc, p_ch, measurements_ready, pr_time>>
slotVars    == <<pr2, pr2_time>>
positionVars == <<s_pc, s_ch, m_rho, fix>>
vars == <<tic, overtaken, measure_semaphore, measureVars, meas,
          pseudorange_flag, pseudoVars, pr, slotVars, pr2_data_fresh,
          position_semaphore, positionVars, positioning>>

Stamp == 0 .. MaxTic        \* 0: never

\* meas[ch]: validity, the TIC of its bit time and of its latched phases.
Meas == [valid : BOOLEAN, bits : Stamp, phase : Stamp]

\* pr[ch]: a pseudorange is computed from a meas[ch] and from pr_time.
Rho == [valid : BOOLEAN, bits : Stamp, phase : Stamp, time : Stamp]

NoRho == [valid |-> FALSE, bits |-> 0, phase |-> 0, time |-> 0]

\* An entry the position is computed from: a pr2[ch] and pr2_time.
Entry == [rho : Rho, at : Stamp]

IsEntries(f) == DOMAIN f \in SUBSET Ch /\ f \in [DOMAIN f -> Entry]

TypeOK ==
  /\ tic \in Stamp /\ overtaken \in BOOLEAN
  /\ measure_semaphore \in 0 .. MaxTic
  /\ m_pc \in {"wait", "scan", "drain"}
  /\ m_ch \in 0 .. N_CHANNELS
  /\ channels_ready \in SUBSET Ch /\ prev_channels \in SUBSET Ch
  /\ clock \in Stamp /\ meas_time \in Stamp
  /\ meas \in [Ch -> Meas]
  /\ pseudorange_flag \in SUBSET Ch
  /\ p_pc \in {"wait", "time", "calc", "copy"}
  /\ p_ch \in 0 .. N_CHANNELS
  /\ measurements_ready \in SUBSET Ch
  /\ pr_time \in Stamp /\ pr2_time \in Stamp
  /\ pr \in [Ch -> Rho] /\ pr2 \in [Ch -> Rho]
  /\ pr2_data_fresh \in BOOLEAN
  /\ position_semaphore \in Nat
  /\ s_pc \in {"wait", "read", "solve", "log", "release"}
  /\ s_ch \in 0 .. N_CHANNELS
  /\ IsEntries(m_rho) /\ IsEntries(fix)
  /\ positioning \in BOOLEAN

NoEntries == [ch \in {} |-> NoRho]

Init ==
  /\ tic = 0 /\ overtaken = FALSE
  /\ clock = 0 /\ meas_time = 0 /\ pr_time = 0 /\ pr2_time = 0
  /\ measure_semaphore = 0 /\ position_semaphore = 0
  /\ m_pc = "wait" /\ p_pc = "wait" /\ s_pc = "wait"
  /\ m_ch = 0 /\ p_ch = 0 /\ s_ch = 0
  /\ channels_ready = {} /\ prev_channels = {}
  /\ pseudorange_flag = {} /\ measurements_ready = {}
  /\ meas = [ch \in Ch |-> [valid |-> FALSE, bits |-> 0, phase |-> 0]]
  /\ pr = [ch \in Ch |-> NoRho] /\ pr2 = [ch \in Ch |-> NoRho]
  /\ pr2_data_fresh = FALSE
  /\ m_rho = NoEntries /\ fix = NoEntries
  /\ positioning = FALSE

MeasureBlocked     == m_pc = "wait" /\ measure_semaphore = 0
PseudorangeBlocked == p_pc = "wait" /\ pseudorange_flag = {}

-----------------------------------------------------------------------------
(* The accumulator interrupt that carries a TIC.                           *)

\* accum_dsr with the TIC bit set: grab_bit_times and the semaphore post.
Tic ==
  /\ tic < MaxTic
  /\ overtaken' = (overtaken \/ ~MeasureBlocked \/ ~PseudorangeBlocked)
  /\ tic' = tic + 1
  /\ meas' = [ch \in Ch |-> [meas[ch] EXCEPT !.bits = tic']]
  /\ measure_semaphore' = measure_semaphore + 1
  /\ UNCHANGED <<measureVars, pseudorange_flag, pseudoVars, pr, slotVars,
                 pr2_data_fresh, position_semaphore, positionVars, positioning>>

-----------------------------------------------------------------------------
(* measure_thread, priority 10.                                            *)

\* Mutant: the clock runs only while something is measured.
increment_time_if_measuring == IF prev_channels = {} THEN clock ELSE clock + 1

increment_time_with_tic == clock + 1

ResetReady == {}

\* Mutant: the time is taken before the TIC is added to it.
MeasureWakeStale ==
  /\ m_pc = "wait" /\ measure_semaphore > 0
  /\ measure_semaphore' = measure_semaphore - 1
  /\ clock' = increment_time_with_tic
  /\ meas_time' = clock
  /\ m_pc' = "scan" /\ m_ch' = 0 /\ channels_ready' = ResetReady
  /\ UNCHANGED <<tic, overtaken, meas, prev_channels, pseudorange_flag,
                 pseudoVars, pr, slotVars, pr2_data_fresh, position_semaphore,
                 positionVars, positioning>>

\* The clock that increment_time_with_tic leaves is the time of measurement.
MeasureWake ==
  /\ m_pc = "wait" /\ measure_semaphore > 0
  /\ measure_semaphore' = measure_semaphore - 1
  /\ clock' = increment_time_with_tic
  /\ meas_time' = clock'
  /\ m_pc' = "scan" /\ m_ch' = 0 /\ channels_ready' = ResetReady
  /\ UNCHANGED <<tic, overtaken, meas, prev_channels, pseudorange_flag,
                 pseudoVars, pr, slotVars, pr2_data_fresh, position_semaphore,
                 positionVars, positioning>>

MoreChannels(i) == i < N_CHANNELS

\* One channel: read its latches if it is locked, strong and dated.
MeasureChannel ==
  /\ m_pc = "scan" /\ MoreChannels(m_ch)
  /\ \/ /\ meas' = [meas EXCEPT ![m_ch].phase = tic, ![m_ch].valid = TRUE]
        /\ channels_ready' = channels_ready \cup {m_ch}
     \/ /\ meas' = [meas EXCEPT ![m_ch].valid = FALSE]
        /\ UNCHANGED channels_ready
  /\ m_ch' = m_ch + 1
  /\ UNCHANGED <<tic, overtaken, measure_semaphore, m_pc, prev_channels, clock,
                 meas_time, pseudorange_flag, pseudoVars, pr, slotVars,
                 pr2_data_fresh, position_semaphore, positionVars, positioning>>

\* pseudorange.c, and the clear_position of position.c that it calls.
clear_pseudoranges == pr' = [ch \in Ch |-> NoRho] /\ positioning' = FALSE

\* Flag what is ready; when nothing is but something was, clear instead.
MeasureFlag ==
  /\ m_pc = "scan" /\ m_ch = N_CHANNELS
  /\ \/ /\ channels_ready # {}
        /\ pseudorange_flag' = pseudorange_flag \cup channels_ready
        /\ UNCHANGED <<pr, positioning>>
     \/ /\ channels_ready = {} /\ prev_channels # {}
        /\ clear_pseudoranges
        /\ UNCHANGED pseudorange_flag
     \/ /\ channels_ready = {} /\ prev_channels = {}
        /\ UNCHANGED <<pseudorange_flag, pr, positioning>>
  /\ prev_channels' = channels_ready
  /\ m_pc' = "drain"
  /\ UNCHANGED <<tic, overtaken, measure_semaphore, m_ch, channels_ready, clock,
                 meas_time, meas, pseudoVars, slotVars, pr2_data_fresh,
                 position_semaphore, positionVars>>

\* "MISSED SEMAPHORE": posts that came meanwhile are thrown away.
MeasureDrain ==
  /\ m_pc = "drain"
  /\ measure_semaphore' = 0
  /\ m_pc' = "wait"
  /\ UNCHANGED <<tic, overtaken, m_ch, channels_ready, prev_channels, clock,
                 meas_time, meas, pseudorange_flag, pseudoVars, pr, slotVars,
                 pr2_data_fresh, position_semaphore, positionVars, positioning>>

Measure == MeasureWake \/ MeasureChannel \/ MeasureFlag \/ MeasureDrain

-----------------------------------------------------------------------------
(* pseudorange_thread, priority 18.                                        *)

PseudorangeWake ==
  /\ p_pc = "wait" /\ pseudorange_flag # {}
  /\ measurements_ready' = pseudorange_flag
  /\ pseudorange_flag' = {}
  /\ p_pc' = "time"
  /\ UNCHANGED <<tic, overtaken, measure_semaphore, measureVars, meas, p_ch,
                 pr_time, pr, slotVars, pr2_data_fresh, position_semaphore,
                 positionVars, positioning>>

PseudorangeTime ==
  /\ p_pc = "time"
  /\ pr_time' = meas_time
  /\ p_pc' = "calc" /\ p_ch' = 0
  /\ UNCHANGED <<tic, overtaken, measure_semaphore, measureVars, meas,
                 pseudorange_flag, measurements_ready, pr, slotVars,
                 pr2_data_fresh, position_semaphore, positionVars, positioning>>

\* What calculate_pseudorange makes of meas[ch].
calculate_pseudorange(ch) ==
  [valid |-> TRUE, bits |-> meas[ch].bits, phase |-> meas[ch].phase,
   time |-> pr_time]

PseudorangeChannel ==
  /\ p_pc = "calc" /\ p_ch < N_CHANNELS
  /\ \/ /\ p_ch \in measurements_ready
        /\ pr' = [pr EXCEPT ![p_ch] = calculate_pseudorange(p_ch)]
     \/ /\ p_ch \notin measurements_ready
        /\ pr' = [pr EXCEPT ![p_ch].valid = FALSE]
  /\ p_ch' = p_ch + 1
  /\ UNCHANGED <<tic, overtaken, measure_semaphore, measureVars, meas,
                 pseudorange_flag, p_pc, measurements_ready, pr_time, slotVars,
                 pr2_data_fresh, position_semaphore, positionVars, positioning>>

\* Mutant: the slot is always free.
AlwaysFree == TRUE

SlotFree == ~pr2_data_fresh

\* pr_count > 0 here, since the flag wait returned a set that is not empty: the
\* branch that complains of no satellites never runs.
\* Offer the pseudoranges unless the position thread still uses the last ones.
PseudorangeOffer ==
  /\ p_pc = "calc" /\ p_ch = N_CHANNELS
  /\ \/ /\ measurements_ready # {} /\ SlotFree
        /\ p_pc' = "copy" /\ p_ch' = 0
        /\ UNCHANGED <<pr, positioning>>
     \/ /\ measurements_ready # {} /\ ~SlotFree
        /\ p_pc' = "wait"
        /\ UNCHANGED <<p_ch, pr, positioning>>
  /\ UNCHANGED <<tic, overtaken, measure_semaphore, measureVars, meas,
                 pseudorange_flag, measurements_ready, pr_time, slotVars,
                 pr2_data_fresh, position_semaphore, positionVars>>

PseudorangeCopy ==
  /\ p_pc = "copy" /\ p_ch < N_CHANNELS
  /\ pr2' = [pr2 EXCEPT ![p_ch] = pr[p_ch]]
  /\ p_ch' = p_ch + 1
  /\ UNCHANGED <<tic, overtaken, measure_semaphore, measureVars, meas,
                 pseudorange_flag, p_pc, measurements_ready, pr_time, pr,
                 pr2_time, pr2_data_fresh, position_semaphore, positionVars,
                 positioning>>

PseudorangePost ==
  /\ p_pc = "copy" /\ p_ch = N_CHANNELS
  /\ pr2_time' = pr_time
  /\ pr2_data_fresh' = TRUE
  /\ position_semaphore' = position_semaphore + 1
  /\ p_pc' = "wait"
  /\ UNCHANGED <<tic, overtaken, measure_semaphore, measureVars, meas,
                 pseudorange_flag, p_ch, measurements_ready, pr_time, pr, pr2,
                 positionVars, positioning>>

Pseudorange == /\ MeasureBlocked
               /\ \/ PseudorangeWake \/ PseudorangeTime \/ PseudorangeChannel
                  \/ PseudorangeOffer \/ PseudorangeCopy \/ PseudorangePost

-----------------------------------------------------------------------------
(* position_thread, priority 22.                                           *)

\* Mutant: the slot is given back as soon as the thread wakes.
FreeOnWake == FALSE

KeepSlot == pr2_data_fresh

PositionWake ==
  /\ s_pc = "wait" /\ position_semaphore > 0
  /\ position_semaphore' = position_semaphore - 1
  /\ s_pc' = "read" /\ s_ch' = 0 /\ m_rho' = NoEntries
  /\ pr2_data_fresh' = KeepSlot
  /\ UNCHANGED <<tic, overtaken, measure_semaphore, measureVars, meas,
                 pseudorange_flag, pseudoVars, pr, slotVars, fix, positioning>>

UsedEntry(ch) == [rho |-> pr2[ch], at |-> pr2_time]

\* One channel: gather it if its pseudorange and its ephemeris are valid.
PositionChannel ==
  /\ s_pc = "read" /\ s_ch < N_CHANNELS
  /\ \/ /\ pr2[s_ch].valid
        /\ m_rho' = [ch \in DOMAIN m_rho \cup {s_ch} |->
                       IF ch = s_ch THEN UsedEntry(ch)
                                    ELSE m_rho[ch]]
     \/ UNCHANGED m_rho
  /\ s_ch' = s_ch + 1
  /\ UNCHANGED <<tic, overtaken, measure_semaphore, measureVars, meas,
                 pseudorange_flag, pseudoVars, pr, slotVars, pr2_data_fresh,
                 position_semaphore, s_pc, fix, positioning>>

\* Mutant: with too few satellites the thread goes straight back to its wait.
WaitAgain == "wait"

AfterNoFix == "release"

\* Enough satellites: calculate_position starts.  Too few: no fix.
PositionDecide ==
  /\ s_pc = "read" /\ s_ch = N_CHANNELS
  /\ \/ /\ Cardinality(DOMAIN m_rho) >= MIN_SATS
        /\ s_pc' = "solve"
        /\ UNCHANGED positioning
     \/ /\ Cardinality(DOMAIN m_rho) < MIN_SATS
        /\ s_pc' = AfterNoFix
        /\ positioning' = FALSE
  /\ UNCHANGED <<tic, overtaken, measure_semaphore, measureVars, meas,
                 pseudorange_flag, pseudoVars, pr, slotVars, pr2_data_fresh,
                 position_semaphore, s_ch, m_rho, fix>>

\* receiver_pos = calculate_position(satnum), positioning = 1 in its result.
PositionStore ==
  /\ s_pc = "solve"
  /\ fix' = m_rho
  /\ positioning' = TRUE
  /\ s_pc' = "log"
  /\ UNCHANGED <<tic, overtaken, measure_semaphore, measureVars, meas,
                 pseudorange_flag, pseudoVars, pr, slotVars, pr2_data_fresh,
                 position_semaphore, s_ch, m_rho>>

\* log_position prints pr2_time, receiver_pos, m_rho and pr2.
PositionLog ==
  /\ s_pc = "log"
  /\ s_pc' = "release"
  /\ UNCHANGED <<tic, overtaken, measure_semaphore, measureVars, meas,
                 pseudorange_flag, pseudoVars, pr, slotVars, pr2_data_fresh,
                 position_semaphore, s_ch, m_rho, fix, positioning>>

PositionRelease ==
  /\ s_pc = "release"
  /\ pr2_data_fresh' = FALSE
  /\ s_pc' = "wait"
  /\ UNCHANGED <<tic, overtaken, measure_semaphore, measureVars, meas,
                 pseudorange_flag, pseudoVars, pr, slotVars, position_semaphore,
                 s_ch, m_rho, fix, positioning>>

Position == /\ MeasureBlocked /\ PseudorangeBlocked
            /\ \/ PositionWake \/ PositionChannel \/ PositionDecide
               \/ PositionStore \/ PositionLog \/ PositionRelease

-----------------------------------------------------------------------------
PositionBlocked == s_pc = "wait" /\ position_semaphore = 0

\* The bound on TICs is reached and every thread waits for the next.
Quiet == /\ tic = MaxTic
         /\ MeasureBlocked /\ PseudorangeBlocked /\ PositionBlocked
         /\ UNCHANGED vars

Next == Tic \/ Measure \/ Pseudorange \/ Position \/ Quiet

Spec == Init /\ [][Next]_vars

\* The scheduler lets the highest ready thread run.
FairSpec == Spec /\ WF_vars(Measure) /\ WF_vars(Pseudorange) /\ WF_vars(Position)

-----------------------------------------------------------------------------
(* Properties.                                                             *)

\* pr2_data_fresh and position_semaphore tell one story: the slot is full from
\* the post until the position thread releases it, at most one post is ever
\* outstanding, and the pseudorange thread fills the slot only while it is empty
\* (pseudorange.c:162-175, position.c:773 and 860; "FIXME pr2_data_fresh should
\* be IPC").
Handshake ==
  /\ position_semaphore = IF pr2_data_fresh /\ s_pc = "wait" THEN 1 ELSE 0
  /\ s_pc # "wait" => pr2_data_fresh
  /\ p_pc = "copy" => ~pr2_data_fresh
  /\ p_pc # "wait" => measurements_ready # {}

\* From the post to the release nobody writes the copy the position thread works
\* on, although the pseudorange thread preempts it (position.c:777-780).
SnapshotStable ==
  [][s_pc # "wait" \/ position_semaphore > 0
       => UNCHANGED <<pr2, pr2_time>>]_vars

\* While the position thread gathers, computes and logs, what it gathered is
\* still what pr2 and pr2_time hold, so that the log line (log.c:129-178) prints
\* the time and the pseudoranges of the fix it prints.
UsedStillInSlot ==
  s_pc \in {"read", "solve", "log"} =>
    \A ch \in DOMAIN m_rho : m_rho[ch] = [rho |-> pr2[ch], at |-> pr2_time]

\* The pipeline implements the one-slot mailbox.
H == INSTANCE Handoff WITH
       Key <- Ch, Value <- Entry,
       slot <- IF pr2_data_fresh
                 THEN [ch \in Ch |-> [rho |-> pr2[ch], at |-> pr2_time]]
                 ELSE NoEntries,
       reader <- CASE s_pc = "wait" -> "idle"
                   [] s_pc \in {"read", "solve"} -> "reading"
                   [] OTHER -> "done",
       result <- fix

HandoffSpec == H!Spec

\* Every snapshot offered is taken and released: no wakeup is lost between the
\* semaphore and the flag, and the producer is never shut out for good.
FreshConsumed == pr2_data_fresh ~> ~pr2_data_fresh

\* As long as no TIC has overtaken the two threads, every pseudorange a fix is
\* computed from has its bit time, its latched phases and its time stamp from one
\* and the same TIC.
SnapshotCoherent ==
  ~overtaken /\ s_pc # "wait" =>
    \A ch \in Ch : pr2[ch].valid =>
      /\ pr2[ch].bits = pr2_time /\ pr2[ch].phase = pr2_time
      /\ pr2[ch].time = pr2_time

\* As long as no TIC has overtaken the two threads the receiver clock counts every
\* TIC: it is behind only by one that the measure thread has not yet woken for
\* (measure.c:75).
ClockCountsTics == ~overtaken => clock + measure_semaphore = tic

\* As long as no TIC has overtaken the two threads, pseudoranges are computed from
\* valid measurements only.
TimelyMeasured ==
  ~overtaken /\ p_pc = "calc" /\ p_ch \in measurements_ready /\ MeasureBlocked
    => meas[p_ch].valid
=============================================================================
