-------------------------------- MODULE Epoch --------------------------------
(***************************************************************************)
(* What a pseudorange is made of.  A TIC latches a channel's code phase    *)
(* and epoch counters in the correlator.  The DSR, later and after it has  *)
(* counted the dumps it finds, adds its own count of bits (interrupts.c).  *)
(* The measure thread (measure.c) reads the latches, and the pseudorange   *)
(* thread (pseudorange.c) joins both to the time the satellite sent.       *)
(*                                                                         *)
(* Time goes by half chips of the satellite's code.  The channel is in     *)
(* lock and has its time; code DCO phases, a part of a half chip, are left *)
(* out, and the receiver clock is DELAY ahead of what is being received.   *)
(*                                                                         *)
(* ms_count and the epoch counters number the millisecond dumped last, not *)
(* the one being received: pull_in() finds an edge at the first dump of a  *)
(* bit, sets ms_count to 0, and the counter is loaded with 1 a dump later  *)
(* (tracking.c:566-570, 890-896).  time_in_bits goes up with the last dump *)
(* of a bit, a millisecond before the 20 ms counter.                       *)
(***************************************************************************)
EXTENDS Integers

CONSTANTS
  MAX_CODE_PHASE,  \* half chips in a millisecond: 2046
  MS_PER_BIT,      \* 20
  BITS_IN_WEEK,    \* 30240000
  ULONG,           \* 2^32, the values of an unsigned long
  TIC_PERIOD,      \* half chips between two TICs
  DELAY,           \* half chips the signal is on its way
  MAX_MISSED       \* bound: dumps missed

ASSUME EpochAssumption ==
  /\ MAX_CODE_PHASE \in Nat \ {0}
  /\ MS_PER_BIT \in 2 .. 31          \* the 1 ms counter has five bits
  /\ BITS_IN_WEEK \in Nat /\ BITS_IN_WEEK >= 100 /\ BITS_IN_WEEK % 50 = 0
  /\ ULONG \in Nat /\ ULONG > BITS_IN_WEEK + 50
  /\ TIC_PERIOD \in Nat \ {0}
  /\ DELAY \in 0 .. BITS_IN_WEEK
  /\ MAX_MISSED \in Nat

VARIABLES
  sat,             \* what is being received: bit of the week, ms, half chip
  since,           \* half chips since the last TIC
  epoch_20ms, epoch_1ms,  \* the correlator's epoch counters
  new_dump,        \* the channel's bit in ACCUM_STATUS_A
  tic_flag,        \* the TIC bit in ACCUM_STATUS_B
  latch,           \* code phase and epoch counters of the last TIC
  i_pc, accum_status_a,
  ms_count, time_in_bits,
  m_pc,            \* which of the two threads the last TIC has got to
  meas, pr,        \* with the instant they are of, and the dumps missed by then
  missed           \* history: dumps overwritten before the DSR saw them

satVars    == <<sat, since, epoch_20ms, epoch_1ms>>
flagVars   == <<new_dump, tic_flag, latch>>
dsrVars    == <<i_pc, accum_status_a, ms_count, time_in_bits>>
threadVars == <<m_pc, meas, pr>>
vars == <<satVars, flagVars, dsrVars, threadVars, missed>>

Ms == 0 .. MS_PER_BIT - 1
Bits == 0 .. BITS_IN_WEEK - 1

\* An instant as the satellite's clock counts it, and as half chips of the week.
Instant == [bit : Bits, ms : Ms, phase : 0 .. MAX_CODE_PHASE]
HalfChips(bit, ms, phase) == (bit * MS_PER_BIT + ms) * MAX_CODE_PHASE + phase
HalfChipsOf(t) == HalfChips(t.bit, t.ms, t.phase)
WEEK == HalfChips(BITS_IN_WEEK, 0, 0)

Latch == [code_phase : 0 .. MAX_CODE_PHASE, epoch_20ms : 0 .. 49, epoch_1ms : Ms,
          at : Instant, missed : 0 .. MAX_MISSED]

Measurement ==
  [bit_time : Bits, code_phase : 0 .. MAX_CODE_PHASE - 1, epoch_20ms : 0 .. 49,
   epoch_1ms : 0 .. MS_PER_BIT, at : Instant, missed : 0 .. MAX_MISSED]

Pseudorange ==
  [valid : BOOLEAN, sat_time : Nat, range : Int, at : Instant, bit_time : Bits,
   missed : 0 .. MAX_MISSED]

TypeOK ==
  /\ sat \in Instant /\ sat.phase < MAX_CODE_PHASE
  /\ since \in 0 .. TIC_PERIOD
  /\ epoch_20ms \in 0 .. 49 /\ epoch_1ms \in Ms
  /\ new_dump \in BOOLEAN /\ tic_flag \in BOOLEAN
  /\ latch \in Latch
  /\ i_pc \in {"idle", "status"} /\ accum_status_a \in BOOLEAN
  /\ ms_count \in Ms /\ time_in_bits \in Bits
  /\ m_pc \in {"wait", "measure", "pseudorange"}
  /\ meas \in Measurement /\ pr \in Pseudorange
  /\ missed \in 0 .. MAX_MISSED

Start == [bit |-> 0, ms |-> 0, phase |-> 0]

\* The message thread has set the time at the beginning of some bit: the last dump
\* of the bit before is counted, and the epoch counters, in step with ms_count and
\* loaded for that time, are still at it (Acquisition's EpochAligned, Message's
\* EpochRight).
Init ==
  /\ sat \in {[bit |-> b, ms |-> 0, phase |-> 0] : b \in Bits}
  /\ since = 0
  /\ epoch_20ms = (sat.bit + 49) % 50 /\ epoch_1ms = MS_PER_BIT - 1
  /\ new_dump = FALSE /\ tic_flag = FALSE
  /\ latch = [code_phase |-> 0, epoch_20ms |-> 0, epoch_1ms |-> 0,
              at |-> Start, missed |-> 0]
  /\ i_pc = "idle" /\ accum_status_a = FALSE
  /\ ms_count = MS_PER_BIT - 1 /\ time_in_bits = sat.bit
  /\ m_pc = "wait"
  /\ meas = [bit_time |-> 0, code_phase |-> 0, epoch_20ms |-> 0, epoch_1ms |-> 0,
             at |-> Start, missed |-> 0]
  /\ pr = [valid |-> FALSE, sat_time |-> 0, range |-> 0, at |-> Start,
           bit_time |-> 0, missed |-> 0]
  /\ missed = 0

-----------------------------------------------------------------------------
(* The signal and the correlator.                                          *)

\* The millisecond after [bit, ms].
NextMs(t) ==
  IF t.ms < MS_PER_BIT - 1
    THEN [bit |-> t.bit, ms |-> t.ms + 1, phase |-> 0]
    ELSE [bit |-> IF t.bit < BITS_IN_WEEK - 1 THEN t.bit + 1 ELSE 0,
          ms |-> 0, phase |-> 0]

\* A half chip inside a millisecond.  The threads are done with a TIC before the
\* next, 100 ms later.
HalfChip ==
  /\ sat.phase < MAX_CODE_PHASE - 1
  /\ since < TIC_PERIOD
  /\ since' = since + 1
  /\ sat' = [sat EXCEPT !.phase = @ + 1]
  /\ UNCHANGED <<epoch_20ms, epoch_1ms, flagVars, dsrVars, threadVars, missed>>

\* The last half chip: the accumulators dump and the epoch counters go on; what the
\* accumulators held and nobody has read is lost.
DumpDone ==
  /\ sat.phase = MAX_CODE_PHASE - 1
  /\ since < TIC_PERIOD
  /\ since' = since + 1
  /\ sat' = NextMs(sat)
  /\ epoch_1ms' = IF epoch_1ms < MS_PER_BIT - 1 THEN epoch_1ms + 1 ELSE 0
  /\ epoch_20ms' = IF epoch_1ms < MS_PER_BIT - 1 THEN epoch_20ms
                   ELSE IF epoch_20ms < 49 THEN epoch_20ms + 1 ELSE 0
  /\ \/ ~new_dump /\ UNCHANGED missed
     \/ new_dump /\ missed < MAX_MISSED /\ missed' = missed + 1
  /\ new_dump' = TRUE
  /\ UNCHANGED <<tic_flag, latch, dsrVars, threadVars>>

\* measure.c:110-113: "If a TIC hits right before a dump, it's possible for the
\* code phase to latch 2046", with the epoch of the millisecond before.
Tic ==
  /\ since = TIC_PERIOD /\ m_pc = "wait" /\ ~tic_flag
  /\ since' = 0
  /\ tic_flag' = TRUE
  /\ \E edge \in BOOLEAN :
       /\ edge => sat.phase = MAX_CODE_PHASE - 1
       /\ latch' = [code_phase |-> IF edge THEN MAX_CODE_PHASE ELSE sat.phase,
                    epoch_20ms |-> epoch_20ms, epoch_1ms |-> epoch_1ms,
                    at |-> IF edge THEN [sat EXCEPT !.phase = @ + 1] ELSE sat,
                    missed |-> missed]
  /\ UNCHANGED <<sat, epoch_20ms, epoch_1ms, new_dump, dsrVars, threadVars, missed>>

-----------------------------------------------------------------------------
(* The accumulator interrupt.                                              *)

\* accum_isr reads ACCUM_STATUS_A, then ACCUM_STATUS_B.
AccumIsr ==
  /\ i_pc = "idle"
  /\ accum_status_a' = new_dump
  /\ new_dump' = FALSE
  /\ i_pc' = "status"
  /\ UNCHANGED <<satVars, tic_flag, latch, ms_count, time_in_bits, threadVars,
                 missed>>

MsCountAfter(counted) ==
  IF ~counted THEN ms_count
  ELSE IF ms_count + 1 > MS_PER_BIT - 1 THEN 0 ELSE ms_count + 1

\* Mutant: the bit count goes on over the end of the week.
BitTimeUnbounded(counted) ==
  IF counted /\ MsCountAfter(counted) = MS_PER_BIT - 1
    THEN IF time_in_bits + 1 > BITS_IN_WEEK THEN 0 ELSE time_in_bits + 1
    ELSE time_in_bits

\* lock() for a channel that has dumped: the last dump of a bit counts it.
BitTimeAfter(counted) ==
  IF counted /\ MsCountAfter(counted) = MS_PER_BIT - 1
    THEN IF time_in_bits + 1 >= BITS_IN_WEEK THEN 0 ELSE time_in_bits + 1
    ELSE time_in_bits

\* The rest of accum_isr, and accum_dsr: tracking(), then, at a TIC,
\* grab_bit_times() and the post of measure_semaphore.
AccumDsr ==
  /\ i_pc = "status"
  /\ i_pc' = "idle" /\ accum_status_a' = FALSE
  /\ ms_count' = MsCountAfter(accum_status_a)
  /\ time_in_bits' = BitTimeAfter(accum_status_a)
  /\ tic_flag' = FALSE
  /\ \/ /\ tic_flag
        /\ meas' = [meas EXCEPT !.bit_time = time_in_bits']
        /\ m_pc' = "measure"
     \/ ~tic_flag /\ UNCHANGED <<meas, m_pc>>
  /\ UNCHANGED <<satVars, new_dump, latch, pr, missed>>

-----------------------------------------------------------------------------
(* The two threads.                                                        *)

raw_epoch == latch.epoch_20ms * 256 + latch.epoch_1ms

\* (raw_epoch | 0x1f) == 19, which is never so.
LastMs == (raw_epoch \div 32) * 32 + 31 = MS_PER_BIT - 1

\* The code phase and the epochs as measured.
Carried ==
  IF latch.code_phase < MAX_CODE_PHASE
    THEN [code_phase |-> latch.code_phase, epoch_1ms |-> latch.epoch_1ms,
          epoch_20ms |-> latch.epoch_20ms]
  ELSE IF LastMs
    THEN [code_phase |-> latch.code_phase - MAX_CODE_PHASE, epoch_1ms |-> 0,
          epoch_20ms |-> IF latch.epoch_20ms + 1 > 49 THEN 0
                                                      ELSE latch.epoch_20ms + 1]
  ELSE [code_phase |-> latch.code_phase - MAX_CODE_PHASE,
        epoch_1ms |-> latch.epoch_1ms + 1, epoch_20ms |-> latch.epoch_20ms]

measure_thread ==
  /\ m_pc = "measure"
  /\ m_pc' = "pseudorange"
  /\ meas' = [bit_time |-> meas.bit_time, code_phase |-> Carried.code_phase,
              epoch_20ms |-> Carried.epoch_20ms, epoch_1ms |-> Carried.epoch_1ms,
              at |-> latch.at, missed |-> latch.missed]
  /\ UNCHANGED <<satVars, flagVars, dsrVars, pr, missed>>

TOL == 24

\* Mutant: no bits are taken back.
WordAheadOnly(bits, e20) ==
  LET rem == bits % 50 IN
  IF rem > 50 - TOL /\ e20 < TOL THEN bits - rem + 50 ELSE bits - rem

\* The first of the 50 bits that the epoch counter counts, were it signed.
Word(bits, e20) ==
  LET rem  == bits % 50
      back == IF rem < TOL /\ e20 > 50 - TOL THEN -50 ELSE 0
      on   == IF rem > 50 - TOL /\ e20 < TOL THEN 50 ELSE 0
  IN  bits - rem + back + on

bit_count_modded(m) == (Word(m.bit_time, m.epoch_20ms) + ULONG) % ULONG

SatTime(m) ==
  HalfChips((bit_count_modded(m) + m.epoch_20ms) % ULONG,
            m.epoch_1ms, m.code_phase)

\* Mutant: the receiver clock runs on over the end of the week.
PrTimeUnbounded(t) == HalfChipsOf(t) + DELAY

\* pr_time, the receiver clock at the TIC, returns to 0 with its own week.
PrTime(t) == LET now == HalfChipsOf(t) + DELAY IN IF now >= WEEK THEN now - WEEK
                                                                 ELSE now

calculate_pseudorange ==
  /\ m_pc = "pseudorange"
  /\ m_pc' = "wait"
  /\ pr' = [valid |-> TRUE, sat_time |-> SatTime(meas),
            range |-> PrTime(meas.at) - SatTime(meas),
            at |-> meas.at, bit_time |-> meas.bit_time, missed |-> meas.missed]
  /\ UNCHANGED <<satVars, flagVars, dsrVars, meas, missed>>

-----------------------------------------------------------------------------
Next == \/ HalfChip \/ DumpDone \/ Tic \/ AccumIsr \/ AccumDsr
        \/ measure_thread \/ calculate_pseudorange

Spec == Init /\ [][Next]_vars

-----------------------------------------------------------------------------
(* Properties.                                                             *)

\* The millisecond before t, which the epoch counters number.
PrevMs(t) ==
  IF t.ms > 0
    THEN [bit |-> t.bit, ms |-> t.ms - 1, phase |-> t.phase]
    ELSE [bit |-> IF t.bit > 0 THEN t.bit - 1 ELSE BITS_IN_WEEK - 1,
          ms |-> MS_PER_BIT - 1, phase |-> t.phase]

\* A channel that has missed dumps of fewer than so many bits.
MissedFewer(bits) == pr.valid /\ pr.missed < bits * MS_PER_BIT

\* What the edges of the week add: with the bit count in the new week and the epoch
\* counter in the last bit of the old one bit_count_modded runs below 0; with the
\* bit count, behind by bits missed, in the old week the time is a week late.
WeekOff(bit_time, bit) ==
  IF bit_time = 0 /\ bit = BITS_IN_WEEK - 1
    THEN HalfChips(ULONG - BITS_IN_WEEK, 0, 0)
  ELSE IF bit_time >= BITS_IN_WEEK - 3 /\ bit < 3 THEN WEEK
  ELSE 0

\* pseudorange.c:60-62, "The epoch counter is more accurate than our bit counter
\* [...] so make sure they agree": whether the TIC came before, at or after a dump
\* and the DSR after it soon or late, and whatever dumps of fewer than three bits
\* were missed, bit count, epoch counters and code phase are joined to one time,
\* one and the same millisecond before the satellite's, to the half chip; the
\* edges of the week alone add something.
SatTimeAgrees ==
  LET shown == PrevMs(pr.at) IN
  MissedFewer(3) =>
    pr.sat_time = HalfChipsOf(shown) + WeekOff(pr.bit_time, shown.bit)

\* pseudorange.c:91-93, "What about GPS week for this calculation?!": away from the
\* edges of the week every channel's range is the way of its signal and one
\* millisecond, the same for all, so that the fix takes it for an error of the
\* receiver's clock; while the receiver is in the new week and the signal in
\* the old one, the range is a week short.
RangeOneMsLong ==
  MissedFewer(3) /\ pr.at.bit \in 4 .. BITS_IN_WEEK - 2 =>
    pr.range = DELAY + MAX_CODE_PHASE
                 - (IF HalfChipsOf(pr.at) + DELAY < WEEK THEN 0 ELSE WEEK)
=============================================================================
