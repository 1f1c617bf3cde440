----------------------------- MODULE EpochProofs -----------------------------
(* Proofs about Epoch, for every length of code, bit and week.               *)
EXTENDS Epoch, TLAPS

MsOf(bit, ms) == bit * MS_PER_BIT + ms
WeekMs == BITS_IN_WEEK * MS_PER_BIT

\* So many bits, counted with n milliseconds missing, are within three of those the
\* epoch counters show, which are up to two milliseconds behind.
LEMMA Disagreement ==
  ASSUME NEW b \in Bits, NEW c \in Ms, NEW lost \in 0 .. 3 * MS_PER_BIT - 1,
         NEW bit \in Bits, NEW ms \in Ms, NEW e \in {0, 1, 2}, NEW w \in Int,
         MsOf(b, c) + lost = MsOf(bit, ms) + e + w * WeekMs
  PROVE  \E d \in -1 .. 3 : bit = b + d - w * BITS_IN_WEEK
<1> DEFINE d == bit - b + w * BITS_IN_WEEK
<1>0. MS_PER_BIT \in Nat /\ MS_PER_BIT >= 2 /\ BITS_IN_WEEK \in Nat
  BY EpochAssumption
<1>1. d \in Int /\ d * MS_PER_BIT = c + lost - ms - e
  BY <1>0 DEF MsOf, WeekMs, Bits, Ms
<1>2. c + lost - ms - e <= 4 * MS_PER_BIT - 1 /\ c + lost - ms - e > -2 * MS_PER_BIT
  BY <1>0 DEF Ms
<1> HIDE DEF d
<1>3. d <= 3
  <2> SUFFICES ASSUME d >= 4 PROVE FALSE
    BY <1>1
  <2>1. (d - 4) * MS_PER_BIT >= 0
    BY <1>0, <1>1
  <2> QED
    BY <2>1, <1>0, <1>1, <1>2
<1>4. d >= -1
  <2> SUFFICES ASSUME d <= -2 PROVE FALSE
    BY <1>1
  <2>1. (-2 - d) * MS_PER_BIT >= 0
    BY <1>0, <1>1
  <2> QED
    BY <2>1, <1>0, <1>1, <1>2
<1>5. bit = b + d - w * BITS_IN_WEEK
  BY <1>0 DEF d, Bits
<1> QED
  BY <1>1, <1>3, <1>4, <1>5

LEMMA Unsigned ==
  ASSUME NEW n \in Nat, n < ULONG
  PROVE  n % ULONG = n /\ (n + ULONG) % ULONG = n
  BY EpochAssumption, Z3

\* The epoch counter is put in the word of the bit it counts.
LEMMA WordRight ==
  ASSUME NEW b \in Bits, NEW bit \in Bits, NEW d \in -1 .. 3, bit = b + d
  PROVE  Word(b, bit % 50) \in 0 .. bit /\ Word(b, bit % 50) + (bit % 50) = bit
  BY EpochAssumption DEF Bits, Word, TOL

\* The week's end between the two: the counter still in the old week ...
LEMMA WordLate ==
  ASSUME NEW b \in Bits, NEW bit \in Bits, NEW d \in -1 .. 3,
         bit = b + d - BITS_IN_WEEK
  PROVE  bit < 3 /\ b >= BITS_IN_WEEK - 3 /\ Word(b, bit % 50) = BITS_IN_WEEK /\ bit % 50 = bit
<1>1. bit \in 0 .. 2 /\ bit % 50 = bit
  BY EpochAssumption DEF Bits
<1>2. PICK left \in 1 .. 3 : b = BITS_IN_WEEK - left
  BY EpochAssumption DEF Bits
<1>3. b % 50 = 50 - left
  BY <1>2, EpochAssumption
<1> QED
  BY <1>1, <1>2, <1>3, EpochAssumption DEF Word, TOL

\* ... or already in the new one.
LEMMA WordEarly ==
  ASSUME NEW b \in Bits, NEW bit \in Bits, NEW d \in -1 .. 3,
         bit = b + d + BITS_IN_WEEK
  PROVE  /\ bit = BITS_IN_WEEK - 1 /\ b = 0
         /\ Word(b, bit % 50) = -50 /\ bit % 50 = 49
<1>1. bit = BITS_IN_WEEK - 1 /\ b = 0 /\ bit % 50 = 49 /\ b % 50 = 0
  BY EpochAssumption DEF Bits
<1> QED
  BY <1>1 DEF Word, TOL

-----------------------------------------------------------------------------
(* Types.                                                                  *)

LEMMA Numbers ==
  /\ MAX_CODE_PHASE \in Nat /\ MAX_CODE_PHASE >= 1
  /\ MS_PER_BIT \in Nat /\ MS_PER_BIT >= 2 /\ MS_PER_BIT <= 31
  /\ BITS_IN_WEEK \in Nat /\ BITS_IN_WEEK >= 100
  /\ ULONG \in Nat /\ ULONG > BITS_IN_WEEK + 50 /\ MAX_MISSED \in Nat
  /\ DELAY \in Nat /\ DELAY <= BITS_IN_WEEK
  BY EpochAssumption

LEMMA NextMsType ==
  ASSUME NEW t \in Instant
  PROVE  NextMs(t) \in Instant /\ NextMs(t).phase = 0
<1>1. /\ NextMs(t).bit \in Bits /\ NextMs(t).ms \in Ms
      /\ NextMs(t).phase = 0 /\ 0 \in 0 .. MAX_CODE_PHASE
  BY Numbers DEF NextMs, Instant, Bits, Ms
<1>2. NextMs(t) = [bit |-> NextMs(t).bit, ms |-> NextMs(t).ms,
                   phase |-> NextMs(t).phase]
  BY DEF NextMs
<1> QED
  BY <1>1, <1>2 DEF Instant

LEMMA PrevMsType ==
  ASSUME NEW t \in Instant
  PROVE  PrevMs(t) \in Instant /\ PrevMs(t).phase = t.phase
<1>1. /\ PrevMs(t).bit \in Bits /\ PrevMs(t).ms \in Ms
      /\ PrevMs(t).phase = t.phase /\ t.phase \in 0 .. MAX_CODE_PHASE
  BY Numbers DEF PrevMs, Instant, Bits, Ms
<1>2. PrevMs(t) = [bit |-> PrevMs(t).bit, ms |-> PrevMs(t).ms,
                   phase |-> PrevMs(t).phase]
  BY DEF PrevMs
<1> QED
  BY <1>1, <1>2 DEF Instant

\* The carry into the last millisecond's bit is never taken (measure.c:119).
LEMMA NotLastMs ==
  ASSUME latch \in Latch PROVE ~LastMs
<1>1. raw_epoch \in Nat
  BY Numbers DEF raw_epoch, Latch, Ms
<1>2. (raw_epoch \div 32) * 32 + 31 >= 31
  BY <1>1
<1> QED
  BY <1>2, Numbers DEF LastMs

LEMMA CarriedRight ==
  ASSUME latch \in Latch
  PROVE  /\ Carried.code_phase \in 0 .. MAX_CODE_PHASE - 1
         /\ Carried.epoch_1ms \in 0 .. MS_PER_BIT
         /\ Carried.epoch_20ms = latch.epoch_20ms
         /\ Carried.epoch_1ms * MAX_CODE_PHASE + Carried.code_phase
              = latch.epoch_1ms * MAX_CODE_PHASE + latch.code_phase
<1>1. latch.code_phase \in 0 .. MAX_CODE_PHASE /\ latch.epoch_1ms \in Ms
  BY DEF Latch
<1>2. CASE latch.code_phase < MAX_CODE_PHASE
  BY <1>1, <1>2, Numbers DEF Carried, Ms
<1>3. CASE latch.code_phase = MAX_CODE_PHASE
  <2>1. Carried = [code_phase |-> 0, epoch_1ms |-> latch.epoch_1ms + 1,
                   epoch_20ms |-> latch.epoch_20ms]
    BY <1>1, <1>3, NotLastMs, Numbers DEF Carried
  <2>2. (latch.epoch_1ms + 1) * MAX_CODE_PHASE
          = latch.epoch_1ms * MAX_CODE_PHASE + MAX_CODE_PHASE
    BY <1>1, Numbers DEF Ms
  <2> QED
    BY <1>1, <1>3, <2>1, <2>2, Numbers DEF Ms
<1> QED
  BY <1>1, <1>2, <1>3, Numbers

LEMMA HalfChipsType ==
  ASSUME NEW bit \in Nat, NEW ms \in Nat, NEW phase \in Nat
  PROVE  HalfChips(bit, ms, phase) \in Nat
<1>1. bit * MS_PER_BIT \in Nat
  BY Numbers
<1>2. (bit * MS_PER_BIT + ms) * MAX_CODE_PHASE \in Nat
  BY <1>1, Numbers
<1> QED
  BY <1>2 DEF HalfChips

LEMMA SatTimeType ==
  ASSUME NEW t \in Measurement
  PROVE  SatTime(t) \in Nat /\ PrTime(t.at) \in Int
<1>1. /\ t.bit_time \in Bits /\ t.epoch_20ms \in 0 .. 49 /\ t.epoch_1ms \in Nat
      /\ t.code_phase \in Nat
      /\ t.at.bit \in Nat /\ t.at.ms \in Nat /\ t.at.phase \in Nat
  BY Numbers DEF Measurement, Instant, Bits, Ms
<1>2. Word(t.bit_time, t.epoch_20ms) \in Int
  BY <1>1, Numbers DEF Word, Bits, TOL
<1>3. bit_count_modded(t) \in Nat
  BY <1>2, Numbers DEF bit_count_modded
<1>4. (bit_count_modded(t) + t.epoch_20ms) % ULONG \in Nat
  BY <1>1, <1>3, Numbers
<1>5. SatTime(t) \in Nat
  BY <1>1, <1>4, HalfChipsType DEF SatTime
<1>6. HalfChipsOf(t.at) \in Nat /\ WEEK \in Nat
  BY <1>1, HalfChipsType, Numbers DEF HalfChipsOf, WEEK
<1> QED
  BY <1>5, <1>6, Numbers DEF PrTime

LEMMA TypeInit == Init => TypeOK
<1> SUFFICES ASSUME Init PROVE TypeOK
  OBVIOUS
<1>0. /\ 0 \in Bits /\ 0 \in Ms /\ 0 \in 0 .. MAX_CODE_PHASE /\ 0 \in 0 .. 49
      /\ 0 \in 0 .. MAX_MISSED /\ 0 \in 0 .. MAX_CODE_PHASE - 1
      /\ 0 \in 0 .. MS_PER_BIT /\ 0 \in 0 .. TIC_PERIOD
  BY Numbers, EpochAssumption DEF Bits, Ms
<1>1. PICK b \in Bits : sat = [bit |-> b, ms |-> 0, phase |-> 0]
  BY DEF Init
<1>2. sat \in Instant /\ sat.phase < MAX_CODE_PHASE /\ time_in_bits \in Bits
  BY <1>0, <1>1, Numbers DEF Init, Instant
<1>3. Start \in Instant
  BY <1>0 DEF Start, Instant
<1>4. latch \in Latch /\ meas \in Measurement /\ pr \in Pseudorange
  BY <1>0, <1>3 DEF Init, Latch, Measurement, Pseudorange
<1>5. epoch_20ms \in 0 .. 49 /\ epoch_1ms \in Ms /\ ms_count \in Ms
  BY <1>1, Numbers DEF Init, Ms, Bits
<1> QED
  BY <1>0, <1>2, <1>4, <1>5 DEF Init, TypeOK

LEMMA TypeNext == TypeOK /\ [Next]_vars => TypeOK'
<1> SUFFICES ASSUME TypeOK, [Next]_vars PROVE TypeOK'
  OBVIOUS
<1>1. CASE HalfChip
  <2>1. sat' \in Instant /\ sat'.phase < MAX_CODE_PHASE
    BY <1>1, Numbers DEF HalfChip, TypeOK, Instant
  <2>2. since' \in 0 .. TIC_PERIOD
    BY <1>1, EpochAssumption DEF HalfChip, TypeOK
  <2> QED
    BY <1>1, <2>1, <2>2 DEF HalfChip, TypeOK, flagVars, dsrVars, threadVars
<1>2. CASE DumpDone
  <2>1. sat' \in Instant /\ sat'.phase < MAX_CODE_PHASE
    BY <1>2, NextMsType, Numbers DEF DumpDone, TypeOK
  <2>2. since' \in 0 .. TIC_PERIOD /\ missed' \in 0 .. MAX_MISSED
    BY <1>2, EpochAssumption DEF DumpDone, TypeOK
  <2>3. epoch_20ms' \in 0 .. 49 /\ epoch_1ms' \in Ms
    BY <1>2, Numbers DEF DumpDone, TypeOK, Ms
  <2> QED
    BY <1>2, <2>1, <2>2, <2>3 DEF DumpDone, TypeOK, dsrVars, threadVars
<1>3. CASE Tic
  <2>1. since' \in 0 .. TIC_PERIOD
    BY <1>3, EpochAssumption DEF Tic
  <2>2. latch' \in Latch
    <3>1. PICK edge \in BOOLEAN :
            /\ edge => sat.phase = MAX_CODE_PHASE - 1
            /\ latch' = [code_phase |-> IF edge THEN MAX_CODE_PHASE ELSE sat.phase,
                 epoch_20ms |-> epoch_20ms, epoch_1ms |-> epoch_1ms,
                 at |-> IF edge THEN [sat EXCEPT !.phase = @ + 1] ELSE sat,
                 missed |-> missed]
      BY <1>3 DEF Tic
    <3>2. /\ epoch_20ms \in 0 .. 49 /\ epoch_1ms \in Ms
          /\ sat.phase \in 0 .. MAX_CODE_PHASE
      BY Numbers DEF TypeOK, Instant, Bits
    <3>3. latch'.at \in Instant
      BY <3>1, Numbers DEF TypeOK, Instant
    <3>4. latch'.code_phase \in 0 .. MAX_CODE_PHASE
      BY <3>1, <3>2, Numbers
    <3> QED
      BY <3>1, <3>2, <3>3, <3>4 DEF Latch, TypeOK
  <2> QED
    BY <1>3, <2>1, <2>2 DEF Tic, TypeOK, dsrVars, threadVars
<1>4. CASE AccumIsr
  BY <1>4 DEF AccumIsr, TypeOK, satVars, threadVars
<1>5. CASE AccumDsr
  <2>1. ms_count' \in Ms /\ time_in_bits' \in Bits
    BY <1>5, Numbers
    DEF AccumDsr, MsCountAfter, BitTimeAfter, TypeOK, Ms, Bits
  <2>2. meas' \in Measurement
    BY <1>5, <2>1 DEF AccumDsr, TypeOK, Measurement
  <2> QED
    BY <1>5, <2>1, <2>2 DEF AccumDsr, TypeOK, satVars
<1>6. CASE measure_thread
  <2>1. meas' \in Measurement
    BY <1>6, CarriedRight DEF measure_thread, TypeOK, Measurement, Latch
  <2> QED
    BY <1>6, <2>1 DEF measure_thread, TypeOK, satVars, flagVars, dsrVars
<1>7. CASE calculate_pseudorange
  <2>1. SatTime(meas) \in Nat /\ PrTime(meas.at) \in Int
    BY SatTimeType DEF TypeOK
  <2>2. PrTime(meas.at) - SatTime(meas) \in Int
    BY <2>1
  <2>3. pr' \in Pseudorange
    BY <1>7, <2>1, <2>2
    DEF calculate_pseudorange, TypeOK, Pseudorange, Measurement
  <2> QED
    BY <1>7, <2>3 DEF calculate_pseudorange, TypeOK, satVars, flagVars, dsrVars
<1>8. CASE UNCHANGED vars
  BY <1>8 DEF vars, TypeOK, satVars, flagVars, dsrVars, threadVars
<1> QED
  BY <1>1, <1>2, <1>3, <1>4, <1>5, <1>6, <1>7, <1>8 DEF Next

\* Every variable keeps its type: time_in_bits stays in the week, and the latched
\* overflow leaves a code phase inside the code.
THEOREM TypeCorrect == Spec => []TypeOK
<1>1. Init => TypeOK
  BY TypeInit
<1>2. TypeOK /\ [Next]_vars => TypeOK'
  BY TypeNext
<1> QED
  BY <1>1, <1>2, PTL DEF Spec

-----------------------------------------------------------------------------
(* The time of a pseudorange.                                              *)

Flag(b) == IF b THEN 1 ELSE 0

\* A count of milliseconds, with those that are still to be counted or never will
\* be, is that of the instant t and e more, weeks aside.
Counts(bit, ms, uncounted, t, e) ==
  \E w \in Int : MsOf(bit, ms) + uncounted = MsOf(t.bit, t.ms) + e + w * WeekMs

\* The millisecond the DSR will count next.
Due == IF ms_count = MS_PER_BIT - 1 THEN 0 ELSE ms_count + 1

\* The DSR's count, and a dump it has seen, and one it has not.
Kept == Counts(time_in_bits, Due,
               Flag(accum_status_a) + Flag(new_dump) + missed, sat, 0)

\* Between the TIC and the interrupt that will see it at most one dump is added.
Latched ==
  tic_flag /\ i_pc = "idle" =>
    \E e \in {0, 1} :
      /\ e = 1 => new_dump
      /\ Counts(time_in_bits, Due, Flag(new_dump) + latch.missed, latch.at, e)

Seen ==
  tic_flag /\ i_pc = "status" =>
    \E e \in {-1, 0, 1} :
      Counts(time_in_bits, Due, Flag(accum_status_a) + latch.missed,
             latch.at, e)

Grabbed(bit_time, lost, t) ==
  \E e \in {-1, 0, 1}, c \in Ms : Counts(bit_time, c, lost, t, e)

\* The epoch counters are a millisecond behind the signal, and those of a latch or a
\* measurement a millisecond behind its instant.
EpochBehind ==
  epoch_20ms = PrevMs(sat).bit % 50 /\ epoch_1ms = PrevMs(sat).ms

LatchRight ==
  tic_flag \/ m_pc = "measure" =>
    /\ latch.epoch_20ms = PrevMs(latch.at).bit % 50
    /\ latch.epoch_1ms = PrevMs(latch.at).ms
    /\ latch.code_phase = latch.at.phase

MeasRight ==
  /\ meas.epoch_20ms = PrevMs(meas.at).bit % 50
  /\ meas.epoch_1ms * MAX_CODE_PHASE + meas.code_phase
       = PrevMs(meas.at).ms * MAX_CODE_PHASE + meas.at.phase

Measuring == m_pc = "measure" => Grabbed(meas.bit_time, latch.missed, latch.at)

Measured ==
  m_pc = "pseudorange" =>
    MeasRight /\ Grabbed(meas.bit_time, meas.missed, meas.at)

RangeIsDifference == pr.valid => pr.range = PrTime(pr.at) - pr.sat_time

IInv ==
  /\ TypeOK
  /\ i_pc = "idle" => ~accum_status_a
  /\ tic_flag => m_pc = "wait"
  /\ EpochBehind /\ LatchRight /\ Kept /\ Latched /\ Seen /\ Measuring /\ Measured
  /\ SatTimeAgrees /\ RangeIsDifference

LEMMA WeekMsType == WeekMs \in Nat
  BY Numbers DEF WeekMs

LEMMA CountsMore ==
  ASSUME NEW bit \in Int, NEW ms \in Int, NEW u \in Int, NEW t, NEW e \in Int,
         t.bit \in Int, t.ms \in Int, Counts(bit, ms, u, t, e), NEW k \in Int
  PROVE  Counts(bit, ms, u + k, t, e + k)
<1>1. PICK w \in Int : MsOf(bit, ms) + u = MsOf(t.bit, t.ms) + e + w * WeekMs
  BY DEF Counts
<1>2. MsOf(bit, ms) \in Int /\ MsOf(t.bit, t.ms) \in Int /\ w * WeekMs \in Int
  BY Numbers, WeekMsType DEF MsOf
<1>3. MsOf(bit, ms) + (u + k) = MsOf(t.bit, t.ms) + (e + k) + w * WeekMs
  BY <1>1, <1>2
<1> QED
  BY <1>3 DEF Counts

\* lock() counts a dump.
DueAfter(counted) ==
  IF MsCountAfter(counted) = MS_PER_BIT - 1 THEN 0 ELSE MsCountAfter(counted) + 1

LEMMA DueCounts ==
  ASSUME TypeOK, NEW counted \in BOOLEAN
  PROVE  /\ Due \in Ms
         /\ ~counted => DueAfter(counted) = Due /\ BitTimeAfter(counted) = time_in_bits
         /\ counted /\ Due # MS_PER_BIT - 1 =>
              DueAfter(counted) = Due + 1 /\ BitTimeAfter(counted) = time_in_bits
         /\ counted /\ Due = MS_PER_BIT - 1 =>
              /\ DueAfter(counted) = 0
              /\ BitTimeAfter(counted) = IF time_in_bits + 1 >= BITS_IN_WEEK
                                           THEN 0 ELSE time_in_bits + 1
<1>1. ms_count \in Nat /\ ms_count <= MS_PER_BIT - 1
  BY Numbers DEF TypeOK, Ms
<1> QED
  BY <1>1, Numbers DEF Due, DueAfter, MsCountAfter, BitTimeAfter, Ms

LEMMA CountedOne ==
  ASSUME TypeOK, NEW counted \in BOOLEAN, NEW u \in Int, NEW t, NEW e \in Int,
         t.bit \in Int, t.ms \in Int,
         Counts(time_in_bits, Due, Flag(counted) + u, t, e)
  PROVE  Counts(BitTimeAfter(counted), DueAfter(counted), u, t, e)
<1>1. PICK w \in Int : MsOf(time_in_bits, Due) + (Flag(counted) + u)
                         = MsOf(t.bit, t.ms) + e + w * WeekMs
  BY DEF Counts
<1>2. /\ time_in_bits \in Nat /\ time_in_bits <= BITS_IN_WEEK - 1
      /\ Due \in Nat /\ Due <= MS_PER_BIT - 1
  BY DueCounts, Numbers DEF TypeOK, Bits, Ms
<1>0. /\ ~counted => DueAfter(counted) = Due /\ BitTimeAfter(counted) = time_in_bits
      /\ counted /\ Due # MS_PER_BIT - 1 =>
           DueAfter(counted) = Due + 1 /\ BitTimeAfter(counted) = time_in_bits
      /\ counted /\ Due = MS_PER_BIT - 1 =>
           /\ DueAfter(counted) = 0
           /\ BitTimeAfter(counted) = IF time_in_bits + 1 >= BITS_IN_WEEK
                                        THEN 0 ELSE time_in_bits + 1
  BY DueCounts, Zenon
<1>3. MsOf(t.bit, t.ms) \in Int /\ w * WeekMs \in Int
  BY Numbers, WeekMsType DEF MsOf
<1>4. \/ MsOf(BitTimeAfter(counted), DueAfter(counted))
           = MsOf(time_in_bits, Due) + Flag(counted)
      \/ MsOf(BitTimeAfter(counted), DueAfter(counted))
           = MsOf(time_in_bits, Due) + Flag(counted) - WeekMs
  <2>1. CASE ~counted
    BY <2>1, <1>0, <1>2, Numbers DEF MsOf, Flag
  <2>2. CASE counted /\ Due # MS_PER_BIT - 1
    <3>1. DueAfter(counted) = Due + 1 /\ BitTimeAfter(counted) = time_in_bits
      BY <2>2, <1>0
    <3>2. Flag(counted) = 1
      BY <2>2 DEF Flag
    <3>3. time_in_bits * MS_PER_BIT \in Nat
      BY <1>2, Numbers
    <3> QED
      BY <3>1, <3>2, <3>3, <1>2 DEF MsOf
  <2>3. CASE counted /\ Due = MS_PER_BIT - 1 /\ time_in_bits # BITS_IN_WEEK - 1
    <3>1. /\ BitTimeAfter(counted) = time_in_bits + 1
          /\ DueAfter(counted) = 0 /\ Flag(counted) = 1
      <4>1. /\ DueAfter(counted) = 0
            /\ BitTimeAfter(counted) = IF time_in_bits + 1 >= BITS_IN_WEEK
                                         THEN 0 ELSE time_in_bits + 1
        BY <2>3, <1>0
      <4>2. Flag(counted) = 1
        BY <2>3 DEF Flag
      <4>3. time_in_bits # BITS_IN_WEEK - 1
        BY <2>3
      <4>4. BitTimeAfter(counted) = time_in_bits + 1
        BY <4>1, <4>3, <1>2, Numbers
      <4> QED
        BY <4>1, <4>2, <4>4
    <3>2. (time_in_bits + 1) * MS_PER_BIT = time_in_bits * MS_PER_BIT + MS_PER_BIT
      BY <1>2, Numbers
    <3>3. MsOf(BitTimeAfter(counted), DueAfter(counted))
            = (time_in_bits + 1) * MS_PER_BIT + 0
      BY <3>1 DEF MsOf
    <3>4. MsOf(time_in_bits, Due) = time_in_bits * MS_PER_BIT + MS_PER_BIT - 1
      BY <2>3, <1>2, Numbers DEF MsOf
    <3>5. time_in_bits * MS_PER_BIT \in Nat
      BY <1>2, Numbers
    <3> QED
      BY <3>1, <3>2, <3>3, <3>4, <3>5, Numbers
  <2>4. CASE counted /\ Due = MS_PER_BIT - 1 /\ time_in_bits = BITS_IN_WEEK - 1
    <3>1. /\ BitTimeAfter(counted) = 0
          /\ DueAfter(counted) = 0 /\ Flag(counted) = 1
      <4>1. /\ DueAfter(counted) = 0
            /\ BitTimeAfter(counted) = IF time_in_bits + 1 >= BITS_IN_WEEK
                                         THEN 0 ELSE time_in_bits + 1
        BY <2>4, <1>0
      <4>2. Flag(counted) = 1
        BY <2>4 DEF Flag
      <4>3. time_in_bits = BITS_IN_WEEK - 1
        BY <2>4
      <4>4. BitTimeAfter(counted) = 0
        BY <4>1, <4>3, <1>2, Numbers
      <4> QED
        BY <4>1, <4>2, <4>4
    <3>2. (BITS_IN_WEEK - 1) * MS_PER_BIT = BITS_IN_WEEK * MS_PER_BIT - MS_PER_BIT
      BY Numbers
    <3>3. MsOf(BitTimeAfter(counted), DueAfter(counted)) = 0
      BY <3>1, Numbers DEF MsOf
    <3>4. MsOf(time_in_bits, Due) = WeekMs - 1
      BY <2>4, <3>2, Numbers DEF MsOf, WeekMs
    <3> QED
      BY <3>1, <3>3, <3>4, WeekMsType
  <2> QED
    BY <2>1, <2>2, <2>3, <2>4
<1>5. MsOf(BitTimeAfter(counted), DueAfter(counted)) \in Int
      /\ MsOf(time_in_bits, Due) \in Int /\ Flag(counted) \in Int
  <2>1. MsOf(time_in_bits, Due) \in Int
    BY <1>2, Numbers DEF MsOf
  <2>2. Flag(counted) \in Int
    BY DEF Flag
  <2> QED
    BY <1>4, <2>1, <2>2, WeekMsType
<1>6. CASE MsOf(BitTimeAfter(counted), DueAfter(counted))
             = MsOf(time_in_bits, Due) + Flag(counted)
  BY <1>1, <1>3, <1>5, <1>6 DEF Counts
<1>7. CASE MsOf(BitTimeAfter(counted), DueAfter(counted))
             = MsOf(time_in_bits, Due) + Flag(counted) - WeekMs
  <2>1. (w - 1) * WeekMs = w * WeekMs - WeekMs
    BY WeekMsType
  <2>2. MsOf(BitTimeAfter(counted), DueAfter(counted)) + u
          = MsOf(t.bit, t.ms) + e + (w - 1) * WeekMs
    <3> DEFINE was == MsOf(time_in_bits, Due)
               weeks == w * WeekMs
               fewer == (w - 1) * WeekMs
               now == MsOf(BitTimeAfter(counted), DueAfter(counted))
               time == MsOf(t.bit, t.ms)
               one == Flag(counted)
    <3>1. /\ was \in Int /\ weeks \in Int /\ now \in Int /\ time \in Int
          /\ one \in Int /\ WeekMs \in Int
          /\ was + (one + u) = time + e + weeks
          /\ now = was + one - WeekMs /\ fewer = weeks - WeekMs
      BY <1>1, <1>3, <1>5, <1>7, <2>1, WeekMsType
    <3> HIDE DEF was, weeks, fewer, now, time, one
    <3>2. now + u = time + e + fewer
      BY <3>1
    <3> QED
      BY <3>2 DEF now, time, fewer
  <2> QED
    BY <2>2 DEF Counts
<1> QED
  BY <1>4, <1>6, <1>7

\* The satellite goes on by a millisecond.
LEMMA SentOne ==
  ASSUME NEW bit \in Int, NEW ms \in Int, NEW u \in Int, NEW t \in Instant,
         Counts(bit, ms, u, t, 0)
  PROVE  Counts(bit, ms, u + 1, NextMs(t), 0)
<1>1. PICK w \in Int : MsOf(bit, ms) + u = MsOf(t.bit, t.ms) + 0 + w * WeekMs
  BY DEF Counts
<1>2. /\ t.bit \in Nat /\ t.bit <= BITS_IN_WEEK - 1
      /\ t.ms \in Nat /\ t.ms <= MS_PER_BIT - 1
  BY Numbers DEF Instant, Bits, Ms
<1>3. MsOf(bit, ms) \in Int /\ MsOf(t.bit, t.ms) \in Int /\ w * WeekMs \in Int
  BY <1>2, Numbers, WeekMsType DEF MsOf
<1>4. \/ MsOf(NextMs(t).bit, NextMs(t).ms) = MsOf(t.bit, t.ms) + 1
      \/ MsOf(NextMs(t).bit, NextMs(t).ms) = MsOf(t.bit, t.ms) + 1 - WeekMs
  <2>1. CASE t.ms < MS_PER_BIT - 1
    BY <2>1, <1>2, Numbers DEF NextMs, MsOf
  <2>2. CASE t.ms = MS_PER_BIT - 1 /\ t.bit < BITS_IN_WEEK - 1
    <3>1. NextMs(t).bit = t.bit + 1 /\ NextMs(t).ms = 0
      BY <2>2, Numbers DEF NextMs
    <3>2. (t.bit + 1) * MS_PER_BIT = t.bit * MS_PER_BIT + MS_PER_BIT
      BY <1>2, Numbers
    <3> QED
      BY <2>2, <3>1, <3>2, <1>2, Numbers DEF MsOf
  <2>3. CASE t.ms = MS_PER_BIT - 1 /\ t.bit = BITS_IN_WEEK - 1
    <3>1. NextMs(t).bit = 0 /\ NextMs(t).ms = 0
      BY <2>3, Numbers DEF NextMs
    <3>2. (BITS_IN_WEEK - 1) * MS_PER_BIT = BITS_IN_WEEK * MS_PER_BIT - MS_PER_BIT
      BY Numbers
    <3> QED
      BY <2>3, <3>1, <3>2, <1>2, Numbers DEF MsOf, WeekMs
  <2> QED
    BY <1>2, <2>1, <2>2, <2>3, Numbers
<1>5. CASE MsOf(NextMs(t).bit, NextMs(t).ms) = MsOf(t.bit, t.ms) + 1
  BY <1>1, <1>3, <1>5 DEF Counts
<1>6. CASE MsOf(NextMs(t).bit, NextMs(t).ms) = MsOf(t.bit, t.ms) + 1 - WeekMs
  <2>1. (w + 1) * WeekMs = w * WeekMs + WeekMs
    BY WeekMsType
  <2>2. MsOf(bit, ms) + (u + 1)
          = MsOf(NextMs(t).bit, NextMs(t).ms) + 0 + (w + 1) * WeekMs
    BY <1>1, <1>3, <1>6, <2>1, WeekMsType
  <2> QED
    BY <2>2 DEF Counts
<1> QED
  BY <1>4, <1>5, <1>6

\* Weeks apart at most by one.
LEMMA WeeksApart ==
  ASSUME NEW b \in Bits, NEW bit \in Bits, NEW d \in -1 .. 3, NEW w \in Int,
         bit = b + d - w * BITS_IN_WEEK
  PROVE  w \in {-1, 0, 1}
<1>1. b + d - bit >= -BITS_IN_WEEK /\ b + d - bit < 2 * BITS_IN_WEEK
  BY Numbers DEF Bits
<1>2. w < 2
  <2> SUFFICES ASSUME w >= 2 PROVE FALSE
    OBVIOUS
  <2>1. (w - 2) * BITS_IN_WEEK >= 0
    BY Numbers
  <2> QED
    BY <1>1, <2>1, Numbers DEF Bits
<1>3. w > -2
  <2> SUFFICES ASSUME w <= -2 PROVE FALSE
    OBVIOUS
  <2>1. (-2 - w) * BITS_IN_WEEK >= 0
    BY Numbers
  <2> QED
    BY <1>1, <2>1, Numbers DEF Bits
<1> QED
  BY <1>2, <1>3

\* The millisecond before an instant is one less.
LEMMA CountsPrev ==
  ASSUME NEW bit \in Int, NEW ms \in Int, NEW u \in Int, NEW t \in Instant,
         NEW e \in Int, Counts(bit, ms, u, t, e)
  PROVE  Counts(bit, ms, u, PrevMs(t), e + 1)
<1>1. PICK w \in Int : MsOf(bit, ms) + u = MsOf(t.bit, t.ms) + e + w * WeekMs
  BY DEF Counts
<1>2. /\ t.bit \in Nat /\ t.bit <= BITS_IN_WEEK - 1
      /\ t.ms \in Nat /\ t.ms <= MS_PER_BIT - 1
  BY Numbers DEF Instant, Bits, Ms
<1>3. MsOf(bit, ms) \in Int /\ MsOf(t.bit, t.ms) \in Int /\ w * WeekMs \in Int
  BY <1>2, Numbers, WeekMsType DEF MsOf
<1>4. \/ MsOf(PrevMs(t).bit, PrevMs(t).ms) = MsOf(t.bit, t.ms) - 1
      \/ MsOf(PrevMs(t).bit, PrevMs(t).ms) = MsOf(t.bit, t.ms) - 1 + WeekMs
  <2>1. CASE t.ms > 0
    BY <2>1, <1>2, Numbers DEF PrevMs, MsOf
  <2>2. CASE t.ms = 0 /\ t.bit > 0
    <3>1. PrevMs(t).bit = t.bit - 1 /\ PrevMs(t).ms = MS_PER_BIT - 1
      BY <2>2, Numbers DEF PrevMs
    <3>2. (t.bit - 1) * MS_PER_BIT = t.bit * MS_PER_BIT - MS_PER_BIT
      BY <1>2, Numbers
    <3> QED
      BY <2>2, <3>1, <3>2, <1>2, Numbers DEF MsOf
  <2>3. CASE t.ms = 0 /\ t.bit = 0
    <3>1. PrevMs(t).bit = BITS_IN_WEEK - 1 /\ PrevMs(t).ms = MS_PER_BIT - 1
      BY <2>3, Numbers DEF PrevMs
    <3>2. (BITS_IN_WEEK - 1) * MS_PER_BIT = BITS_IN_WEEK * MS_PER_BIT - MS_PER_BIT
      BY Numbers
    <3> QED
      BY <2>3, <3>1, <3>2, <1>2, Numbers DEF MsOf, WeekMs
  <2> QED
    BY <1>2, <2>1, <2>2, <2>3, Numbers
<1>5. CASE MsOf(PrevMs(t).bit, PrevMs(t).ms) = MsOf(t.bit, t.ms) - 1
  BY <1>1, <1>3, <1>5 DEF Counts
<1>6. CASE MsOf(PrevMs(t).bit, PrevMs(t).ms) = MsOf(t.bit, t.ms) - 1 + WeekMs
  <2>1. (w - 1) * WeekMs = w * WeekMs - WeekMs
    BY WeekMsType
  <2>2. MsOf(bit, ms) + u
          = MsOf(PrevMs(t).bit, PrevMs(t).ms) + (e + 1) + (w - 1) * WeekMs
    BY <1>1, <1>3, <1>6, <2>1, WeekMsType
  <2> QED
    BY <2>2 DEF Counts
<1> QED
  BY <1>4, <1>5, <1>6

\* What the pseudorange thread makes of a measurement.
LEMMA SatTimeRight ==
  ASSUME TypeOK, MeasRight, Grabbed(meas.bit_time, meas.missed, meas.at),
         meas.missed < 3 * MS_PER_BIT
  PROVE  SatTime(meas) = HalfChipsOf(PrevMs(meas.at))
                           + WeekOff(meas.bit_time, PrevMs(meas.at).bit)
<1> DEFINE b == meas.bit_time
           t == PrevMs(meas.at)
           bit == t.bit
           ms == t.ms
<1>0. t \in Instant /\ t.phase = meas.at.phase
  BY PrevMsType DEF TypeOK, Measurement
<1>1. /\ b \in Bits /\ bit \in Bits /\ ms \in Ms
      /\ meas.missed \in 0 .. 3 * MS_PER_BIT - 1
      /\ meas.epoch_1ms \in Nat /\ meas.code_phase \in Nat /\ meas.at.phase \in Nat
      /\ meas.epoch_20ms = bit % 50 /\ bit \in Nat /\ ms \in Nat
  BY <1>0, Numbers DEF TypeOK, Measurement, Instant, MeasRight, Bits, Ms
<1>2. PICK e \in {0, 1, 2}, c \in Ms, w \in Int :
        MsOf(b, c) + meas.missed = MsOf(bit, ms) + e + w * WeekMs
  <2>1. PICK e \in {-1, 0, 1}, c \in Ms : Counts(b, c, meas.missed, meas.at, e)
    BY DEF Grabbed
  <2>2. Counts(b, c, meas.missed, t, e + 1)
    <3>1. meas.at \in Instant /\ b \in Int /\ c \in Int /\ e \in Int
          /\ meas.missed \in Int
      BY <1>1, Numbers DEF TypeOK, Measurement, Bits, Ms
    <3> QED
      BY <2>1, <3>1, CountsPrev
  <2>3. e + 1 \in {0, 1, 2}
    OBVIOUS
  <2> QED
    BY <2>2, <2>3 DEF Counts
<1> HIDE DEF b, bit, ms, t
<1>3. PICK d \in -1 .. 3 : bit = b + d - w * BITS_IN_WEEK
  BY <1>1, <1>2, Disagreement
<1>4. w \in {-1, 0, 1}
  BY <1>1, <1>3, WeeksApart
<1> DEFINE word == Word(b, bit % 50)
<1>5. \A n \in Nat :
        word + (bit % 50) = n /\ word >= 0 /\ n < ULONG
          => (bit_count_modded(meas) + meas.epoch_20ms) % ULONG = n
  <2> TAKE n \in Nat
  <2> HAVE word + (bit % 50) = n /\ word >= 0 /\ n < ULONG
  <2>1. bit % 50 \in 0 .. 49
    BY <1>1
  <2>2. word \in Nat /\ word < ULONG
    BY <1>1, <2>1, Numbers DEF Word, TOL, Bits
  <2>3. bit_count_modded(meas) = word
    BY <1>1, <2>2, Unsigned DEF bit_count_modded, b
  <2> QED
    BY <1>1, <2>3, Unsigned
<1>6. \A n \in Nat : HalfChips(n, meas.epoch_1ms, meas.code_phase)
                       = HalfChips(n, ms, meas.at.phase)
  <2> TAKE n \in Nat
  <2>1. meas.epoch_1ms * MAX_CODE_PHASE + meas.code_phase
          = ms * MAX_CODE_PHASE + meas.at.phase
    BY DEF MeasRight, ms, t
  <2>2. (n * MS_PER_BIT + meas.epoch_1ms) * MAX_CODE_PHASE
          = (n * MS_PER_BIT) * MAX_CODE_PHASE + meas.epoch_1ms * MAX_CODE_PHASE
    BY <1>1, Numbers
  <2>3. (n * MS_PER_BIT + ms) * MAX_CODE_PHASE
          = (n * MS_PER_BIT) * MAX_CODE_PHASE + ms * MAX_CODE_PHASE
    BY <1>1, Numbers
  <2>4. (n * MS_PER_BIT) * MAX_CODE_PHASE \in Nat
        /\ meas.epoch_1ms * MAX_CODE_PHASE \in Nat /\ ms * MAX_CODE_PHASE \in Nat
    BY <1>1, Numbers
  <2> QED
    BY <1>1, <2>1, <2>2, <2>3, <2>4 DEF HalfChips
<1>7. \A n, k \in Nat : HalfChips(n + k, ms, meas.at.phase)
                          = HalfChips(n, ms, meas.at.phase) + HalfChips(k, 0, 0)
  <2> TAKE n, k \in Nat
  <2>1. ((n + k) * MS_PER_BIT + ms) * MAX_CODE_PHASE
          = (n * MS_PER_BIT + ms) * MAX_CODE_PHASE
              + (k * MS_PER_BIT + 0) * MAX_CODE_PHASE
    BY <1>1, Numbers
  <2>2. (n * MS_PER_BIT + ms) * MAX_CODE_PHASE \in Nat
        /\ (k * MS_PER_BIT + 0) * MAX_CODE_PHASE \in Nat
    BY <1>1, Numbers
  <2> QED
    BY <1>1, <2>1, <2>2 DEF HalfChips
<1>8. HalfChipsOf(t) = HalfChips(bit, ms, meas.at.phase)
  BY <1>0 DEF HalfChipsOf, bit, ms
<1>9. CASE w = 0
  <2>1. bit = b + d
    BY <1>1, <1>3, <1>9, Numbers DEF Bits
  <2>2. word \in 0 .. bit /\ word + (bit % 50) = bit
    BY <1>1, <2>1, WordRight
  <2>3. (bit_count_modded(meas) + meas.epoch_20ms) % ULONG = bit
    BY <1>1, <1>5, <2>2, Numbers DEF Bits
  <2>4. SatTime(meas) = HalfChipsOf(t)
    BY <1>1, <1>6, <1>8, <2>3 DEF SatTime
  <2>5. WeekOff(b, bit) = 0
    BY <1>1, <2>1, Numbers DEF WeekOff, Bits
  <2>6. HalfChipsOf(t) \in Nat
    <3>1. HalfChips(bit, ms, meas.at.phase) \in Nat
      BY <1>1, HalfChipsType
    <3> QED
      BY <1>8, <3>1
  <2> QED
    BY <2>4, <2>5, <2>6 DEF b, bit, t
<1>10. CASE w = 1
  <2>1. bit = b + d - BITS_IN_WEEK
    BY <1>1, <1>3, <1>10, Numbers DEF Bits
  <2>2. bit < 3 /\ b >= BITS_IN_WEEK - 3 /\ word = BITS_IN_WEEK /\ bit % 50 = bit
    BY <1>1, <2>1, WordLate
  <2>3. (bit_count_modded(meas) + meas.epoch_20ms) % ULONG = bit + BITS_IN_WEEK
    BY <1>1, <1>5, <2>2, Numbers
  <2>4. SatTime(meas) = HalfChips(bit + BITS_IN_WEEK, ms, meas.at.phase)
    BY <1>1, <1>6, <2>3, Numbers DEF SatTime
  <2>5. SatTime(meas) = HalfChipsOf(t) + WEEK
    BY <1>1, <1>7, <1>8, <2>4, Numbers DEF WEEK
  <2>6. WeekOff(b, bit) = WEEK
    BY <1>1, <2>2, Numbers DEF WeekOff, Bits
  <2> QED
    BY <2>5, <2>6 DEF b, bit, t
<1>11. CASE w = -1
  <2>1. bit = b + d + BITS_IN_WEEK
    BY <1>1, <1>3, <1>11, Numbers DEF Bits
  <2>2. bit = BITS_IN_WEEK - 1 /\ b = 0 /\ word = -50 /\ bit % 50 = 49
    BY <1>1, <2>1, WordEarly
  <2>3. bit_count_modded(meas) = ULONG - 50
    <3>1. word + ULONG = ULONG - 50 /\ ULONG - 50 \in Nat /\ ULONG - 50 < ULONG
      BY <2>2, Numbers
    <3> QED
      BY <1>1, <3>1, Unsigned DEF bit_count_modded, b
  <2>4. (bit_count_modded(meas) + meas.epoch_20ms) % ULONG = ULONG - 1
    <3>1. ULONG - 50 + 49 = ULONG - 1 /\ ULONG - 1 \in Nat /\ ULONG - 1 < ULONG
      BY Numbers
    <3> QED
      BY <1>1, <2>2, <2>3, <3>1, Unsigned
  <2>5. ULONG - 1 = bit + (ULONG - BITS_IN_WEEK) /\ ULONG - BITS_IN_WEEK \in Nat
        /\ ULONG - 1 \in Nat
    BY <2>2, Numbers
  <2>6. SatTime(meas) = HalfChips(bit + (ULONG - BITS_IN_WEEK), ms, meas.at.phase)
    BY <1>1, <1>6, <2>4, <2>5 DEF SatTime
  <2>7. SatTime(meas) = HalfChipsOf(t) + HalfChips(ULONG - BITS_IN_WEEK, 0, 0)
    BY <1>1, <1>7, <1>8, <2>5, <2>6
  <2>8. WeekOff(b, bit) = HalfChips(ULONG - BITS_IN_WEEK, 0, 0)
    BY <2>2 DEF WeekOff
  <2> QED
    BY <2>7, <2>8 DEF b, bit, t
<1> QED
  BY <1>4, <1>9, <1>10, <1>11

LEMMA IInvInit == Init => IInv
<1> SUFFICES ASSUME Init PROVE IInv
  OBVIOUS
<1>1. TypeOK
  BY TypeInit
<1>2. LatchRight /\ SatTimeAgrees /\ RangeIsDifference
  BY DEF Init, LatchRight, Start, SatTimeAgrees, MissedFewer, RangeIsDifference
<1>3. Kept
  <2>1. MsOf(time_in_bits, Due) + (0 + 0 + 0)
          = MsOf(sat.bit, sat.ms) + 0 + 0 * WeekMs
    <3>1. time_in_bits = sat.bit /\ Due = 0 /\ sat.ms = 0 /\ sat.bit \in Nat
      BY Numbers DEF Init, Bits, Due
    <3>2. MsOf(sat.bit, 0) \in Nat
      BY <3>1, Numbers DEF MsOf
    <3> QED
      BY <3>1, <3>2, WeekMsType
  <2>2. Flag(accum_status_a) + Flag(new_dump) + missed = 0 + 0 + 0
    BY DEF Init, Flag
  <2> QED
    BY <2>1, <2>2 DEF Kept, Counts
<1>4. EpochBehind
  <2>1. sat.bit \in Nat /\ sat.bit < BITS_IN_WEEK /\ sat.ms = 0
    BY Numbers DEF Init, Bits
  <2>2. CASE sat.bit > 0
    BY <2>1, <2>2 DEF Init, EpochBehind, PrevMs
  <2>3. CASE sat.bit = 0
    <3>1. (BITS_IN_WEEK - 1) % 50 = 49
      BY EpochAssumption
    <3> QED
      BY <2>1, <2>3, <3>1 DEF Init, EpochBehind, PrevMs
  <2> QED
    BY <2>1, <2>2, <2>3
<1> QED
  BY <1>1, <1>2, <1>3, <1>4
  DEF Init, IInv, Latched, Seen, Measuring, Measured

\* What the half chips and the threads do not touch.
LEMMA PrFrame ==
  ASSUME UNCHANGED pr
  PROVE  (SatTimeAgrees => SatTimeAgrees') /\ (RangeIsDifference => RangeIsDifference')
  BY DEF SatTimeAgrees, RangeIsDifference, MissedFewer

LEMMA Integers ==
  ASSUME TypeOK
  PROVE  /\ sat.bit \in Int /\ sat.ms \in Int
         /\ latch.at.bit \in Int /\ latch.at.ms \in Int
         /\ time_in_bits \in Int /\ Due \in Int /\ missed \in Int
         /\ latch.missed \in Int
         /\ Flag(accum_status_a) \in Int /\ Flag(new_dump) \in Int
         /\ accum_status_a \in BOOLEAN /\ new_dump \in BOOLEAN
         /\ tic_flag \in BOOLEAN
  BY Numbers DEF TypeOK, Latch, Instant, Bits, Ms, Flag, Due

LEMMA IInvHalfChip ==
  ASSUME IInv, HalfChip
  PROVE  IInv'
<1>1. TypeOK'
  BY TypeNext DEF IInv, Next
<1>2. sat'.bit = sat.bit /\ sat'.ms = sat.ms
  BY DEF HalfChip, IInv, TypeOK, Instant
<1>3. Kept'
  BY <1>2 DEF HalfChip, IInv, Kept, Due, Counts, flagVars, dsrVars
<1>4. UNCHANGED <<flagVars, dsrVars, threadVars>>
  BY DEF HalfChip
<1>5. /\ LatchRight' /\ Latched' /\ Seen' /\ Measuring' /\ Measured'
      /\ (i_pc = "idle" => ~accum_status_a)' /\ (tic_flag => m_pc = "wait")'
  BY <1>4
  DEF IInv, LatchRight, Latched, Seen, Measuring, Measured, MeasRight, Counts,
      Grabbed, Due, flagVars, dsrVars, threadVars
<1>6. EpochBehind'
  BY <1>2 DEF HalfChip, IInv, EpochBehind, PrevMs
<1> QED
  BY <1>1, <1>3, <1>4, <1>5, <1>6, PrFrame DEF IInv, threadVars

\* A dump takes the epoch counters to the millisecond that has just ended.
LEMMA EpochGoesOn ==
  ASSUME TypeOK, EpochBehind, DumpDone
  PROVE  EpochBehind'
<1>1. /\ sat.bit \in Nat /\ sat.bit < BITS_IN_WEEK
      /\ sat.ms \in Nat /\ sat.ms < MS_PER_BIT
  BY Numbers DEF TypeOK, Instant, Bits, Ms
<1>2. PrevMs(sat').bit = sat.bit /\ PrevMs(sat').ms = sat.ms
  BY <1>1, Numbers DEF DumpDone, NextMs, PrevMs
<1>3. CASE sat.ms > 0
  <2>1. PrevMs(sat).bit = sat.bit /\ PrevMs(sat).ms = sat.ms - 1
    BY <1>3 DEF PrevMs
  <2> QED
    BY <1>1, <1>2, <1>3, <2>1, Numbers DEF DumpDone, EpochBehind
<1>4. CASE sat.ms = 0 /\ sat.bit > 0
  <2>1. PrevMs(sat).bit = sat.bit - 1 /\ PrevMs(sat).ms = MS_PER_BIT - 1
    BY <1>4 DEF PrevMs
  <2>2. sat.bit % 50 = IF (sat.bit - 1) % 50 < 49 THEN ((sat.bit - 1) % 50) + 1 ELSE 0
    BY <1>1, <1>4
  <2>3. epoch_20ms = (sat.bit - 1) % 50 /\ epoch_1ms = MS_PER_BIT - 1
    BY <2>1 DEF EpochBehind
  <2>4. /\ epoch_1ms' = 0
        /\ epoch_20ms' = IF epoch_20ms < 49 THEN epoch_20ms + 1 ELSE 0
    BY <2>3, Numbers DEF DumpDone
  <2> QED
    BY <1>2, <1>4, <2>2, <2>3, <2>4 DEF EpochBehind
<1>5. CASE sat.ms = 0 /\ sat.bit = 0
  <2>1. PrevMs(sat).bit = BITS_IN_WEEK - 1 /\ PrevMs(sat).ms = MS_PER_BIT - 1
    BY <1>5 DEF PrevMs
  <2>2. (BITS_IN_WEEK - 1) % 50 = 49
    BY EpochAssumption
  <2>3. epoch_1ms' = 0 /\ epoch_20ms' = 0
    BY <2>1, <2>2, Numbers DEF DumpDone, EpochBehind
  <2> QED
    BY <1>2, <1>5, <2>3 DEF EpochBehind
<1> QED
  BY <1>1, <1>3, <1>4, <1>5

LEMMA IInvDumpDone ==
  ASSUME IInv, DumpDone
  PROVE  IInv'
<1>1. TypeOK /\ TypeOK'
  BY TypeNext DEF IInv, Next
<1>2. /\ sat' = NextMs(sat) /\ new_dump' = TRUE
      /\ UNCHANGED <<tic_flag, latch, i_pc, accum_status_a, ms_count, time_in_bits,
                     m_pc, meas, pr>>
  BY DEF DumpDone, dsrVars, threadVars
<1>3. \/ ~new_dump /\ missed' = missed
      \/ new_dump /\ missed' = missed + 1
  BY DEF DumpDone
<1>4. Kept'
  <2>1. Counts(time_in_bits, Due,
               (Flag(accum_status_a) + Flag(new_dump) + missed) + 1, sat', 0)
    <3>1. Flag(accum_status_a) + Flag(new_dump) + missed \in Int
      BY <1>1, Integers
    <3>2. sat \in Instant
      BY <1>1 DEF TypeOK
    <3> QED
      BY <1>1, <1>2, <3>1, <3>2, Integers, SentOne DEF IInv, Kept
  <2>2. Flag(accum_status_a) + Flag(new_dump)' + missed'
          = (Flag(accum_status_a) + Flag(new_dump) + missed) + 1
    BY <1>1, <1>2, <1>3, Integers DEF Flag
  <2> QED
    BY <1>2, <2>1, <2>2 DEF Kept, Due
<1>5. Latched'
  <2> SUFFICES ASSUME tic_flag, i_pc = "idle"
               PROVE  \E e \in {0, 1} :
                        Counts(time_in_bits, Due, 1 + latch.missed, latch.at, e)
    BY <1>2 DEF Latched, Due, Flag
  <2>1. PICK e \in {0, 1} :
          /\ e = 1 => new_dump
          /\ Counts(time_in_bits, Due, Flag(new_dump) + latch.missed,
                    latch.at, e)
    BY DEF IInv, Latched
  <2>2. CASE new_dump
    BY <2>1, <2>2 DEF Flag
  <2>3. CASE ~new_dump
    <3>1. e = 0 /\ Flag(new_dump) = 0
      BY <2>1, <2>3 DEF Flag
    <3>2. Counts(time_in_bits, Due, (0 + latch.missed) + 1, latch.at, 0 + 1)
      <4>1. 0 + latch.missed \in Int
        BY <1>1, Integers
      <4> QED
        BY <1>1, <2>1, <3>1, <4>1, Integers, CountsMore
    <3>3. (0 + latch.missed) + 1 = 1 + latch.missed
      BY <1>1, Integers
    <3> QED
      BY <3>2, <3>3
  <2> QED
    BY <2>2, <2>3
<1>6. /\ LatchRight' /\ Seen' /\ Measuring' /\ Measured'
      /\ (i_pc = "idle" => ~accum_status_a)' /\ (tic_flag => m_pc = "wait")'
  BY <1>2
  DEF IInv, LatchRight, Seen, Due, Measuring, Measured, MeasRight, Counts, Grabbed
<1>7. EpochBehind'
  BY <1>1, EpochGoesOn DEF IInv
<1> QED
  BY <1>1, <1>2, <1>4, <1>5, <1>6, <1>7, PrFrame DEF IInv

LEMMA IInvTic ==
  ASSUME IInv, Tic
  PROVE  IInv'
<1>1. TypeOK /\ TypeOK'
  BY TypeNext DEF IInv, Next
<1>2. UNCHANGED <<sat, epoch_20ms, epoch_1ms, new_dump, i_pc, accum_status_a, ms_count, time_in_bits,
                  m_pc, meas, pr, missed>>
  BY DEF Tic, dsrVars, threadVars
<1>3. m_pc = "wait"
  BY DEF Tic
<1>4. /\ latch'.at.bit = sat.bit /\ latch'.at.ms = sat.ms
      /\ latch'.missed = missed /\ LatchRight'
  <2>1. PICK edge \in BOOLEAN :
          /\ edge => sat.phase = MAX_CODE_PHASE - 1
          /\ latch' = [code_phase |-> IF edge THEN MAX_CODE_PHASE ELSE sat.phase,
               epoch_20ms |-> epoch_20ms, epoch_1ms |-> epoch_1ms,
               at |-> IF edge THEN [sat EXCEPT !.phase = @ + 1] ELSE sat,
               missed |-> missed]
    BY DEF Tic
  <2>2. sat = [bit |-> sat.bit, ms |-> sat.ms, phase |-> sat.phase]
    BY <1>1 DEF TypeOK, Instant
  <2>3. CASE edge
    <3>1. sat.phase + 1 = MAX_CODE_PHASE
      BY <2>1, <2>3, Numbers
    <3>2. latch'.at = [bit |-> sat.bit, ms |-> sat.ms, phase |-> sat.phase + 1]
      BY <2>1, <2>2, <2>3
    <3>3. PrevMs(latch'.at).bit = PrevMs(sat).bit /\ PrevMs(latch'.at).ms = PrevMs(sat).ms
      BY <2>2, <3>2 DEF PrevMs
    <3> QED
      BY <2>1, <2>3, <3>1, <3>2, <3>3 DEF LatchRight, IInv, EpochBehind
  <2>4. CASE ~edge
    BY <2>1, <2>4 DEF LatchRight, IInv, EpochBehind
  <2> QED
    BY <2>3, <2>4
<1>5. PICK w \in Int :
        MsOf(time_in_bits, Due)
            + (Flag(accum_status_a) + Flag(new_dump) + missed)
          = MsOf(sat.bit, sat.ms) + 0 + w * WeekMs
  BY DEF IInv, Kept, Counts
<1>6. /\ MsOf(time_in_bits, Due) \in Int /\ MsOf(sat.bit, sat.ms) \in Int
      /\ w * WeekMs \in Int /\ missed \in Int
      /\ Flag(accum_status_a) \in Int /\ Flag(new_dump) \in {0, 1}
  BY <1>1, Integers, Numbers, WeekMsType DEF MsOf, Flag, Due
<1>7. Latched'
  <2> SUFFICES ASSUME i_pc = "idle"
               PROVE  Counts(time_in_bits, Due, Flag(new_dump) + missed, sat, 0)
    BY <1>2, <1>4 DEF Latched, Due, Counts
  <2>1. Flag(accum_status_a) = 0
    BY DEF IInv, Flag
  <2>2. Flag(accum_status_a) + Flag(new_dump) + missed = Flag(new_dump) + missed
    BY <1>6, <2>1
  <2> QED
    BY <2>2 DEF IInv, Kept
<1>8. Seen'
  <2> SUFFICES \E e \in {-1, 0, 1} :
                 Counts(time_in_bits, Due, Flag(accum_status_a) + missed, sat, e)
    BY <1>2, <1>4 DEF Seen, Due, Counts
  <2>1. Counts(time_in_bits, Due,
               (Flag(accum_status_a) + Flag(new_dump) + missed) + (-Flag(new_dump)),
               sat, 0 + (-Flag(new_dump)))
    <3>1. /\ Flag(accum_status_a) + Flag(new_dump) + missed \in Int
          /\ -Flag(new_dump) \in Int
      BY <1>6
    <3> QED
      BY <1>1, <3>1, Integers, CountsMore DEF IInv, Kept
  <2>2. (Flag(accum_status_a) + Flag(new_dump) + missed) + (-Flag(new_dump))
          = Flag(accum_status_a) + missed
        /\ 0 + (-Flag(new_dump)) \in {-1, 0, 1}
    BY <1>6
  <2> QED
    BY <2>1, <2>2
<1>9. /\ Kept' /\ EpochBehind' /\ Measuring' /\ Measured'
      /\ (i_pc = "idle" => ~accum_status_a)'
  BY <1>2, <1>3 DEF IInv, Kept, Due, EpochBehind, Measuring, Measured, Counts
<1> QED
  BY <1>1, <1>2, <1>3, <1>4, <1>7, <1>8, <1>9, PrFrame DEF IInv

LEMMA IInvAccumIsr ==
  ASSUME IInv, AccumIsr
  PROVE  IInv'
<1>1. TypeOK /\ TypeOK'
  BY TypeNext DEF IInv, Next
<1>2. /\ i_pc = "idle" /\ i_pc' = "status"
      /\ accum_status_a' = new_dump /\ new_dump' = FALSE
      /\ UNCHANGED <<sat, epoch_20ms, epoch_1ms, tic_flag, latch, ms_count, time_in_bits, m_pc, meas, pr,
                     missed>>
  BY DEF AccumIsr, satVars, threadVars
<1>3. /\ Flag(accum_status_a) = 0 /\ Flag(new_dump)' = 0
      /\ Flag(accum_status_a)' = Flag(new_dump)
  BY <1>2 DEF IInv, Flag
<1>4. Kept'
  <2> DEFINE n == Flag(new_dump)
  <2>1. n \in Int /\ missed \in Int
    BY <1>1, Integers
  <2>2. Flag(accum_status_a) + n + missed = n + missed
    <3> HIDE DEF n
    <3> QED
      BY <1>3, <2>1
  <2>3. Flag(accum_status_a)' + Flag(new_dump)' + missed' = n + missed
    <3>1. Flag(accum_status_a)' = n /\ missed' = missed
      BY <1>2, <1>3
    <3> HIDE DEF n
    <3> QED
      BY <1>3, <2>1, <3>1
  <2> QED
    BY <1>2, <2>2, <2>3 DEF IInv, Kept, Due
<1>5. Seen'
  BY <1>2 DEF IInv, Latched, Seen, Due
<1>6. Latched'
  BY <1>2 DEF Latched, Due
<1>7. EpochBehind' /\ LatchRight' /\ Measuring' /\ Measured' /\ (tic_flag => m_pc = "wait")'
  BY <1>2 DEF IInv, EpochBehind, LatchRight, Measuring, Measured, MeasRight, Counts, Grabbed
<1> QED
  BY <1>1, <1>2, <1>4, <1>5, <1>6, <1>7, PrFrame DEF IInv

LEMMA IInvAccumDsr ==
  ASSUME IInv, AccumDsr
  PROVE  IInv'
<1>1. TypeOK /\ TypeOK'
  BY TypeNext DEF IInv, Next
<1>2. /\ i_pc = "status" /\ i_pc' = "idle" /\ accum_status_a' = FALSE
      /\ ms_count' = MsCountAfter(accum_status_a)
      /\ time_in_bits' = BitTimeAfter(accum_status_a)
      /\ tic_flag' = FALSE
      /\ UNCHANGED <<sat, epoch_20ms, epoch_1ms, new_dump, latch, pr, missed>>
      /\ Due' = DueAfter(accum_status_a)
  BY DEF AccumDsr, satVars, Due, DueAfter
<1>3. Flag(accum_status_a)' = 0 /\ Flag(new_dump)' = Flag(new_dump)
  BY <1>2 DEF Flag
<1>4. Kept'
  <2> DEFINE a == Flag(accum_status_a)  n == Flag(new_dump)
  <2>0. a \in Int /\ n \in Int /\ missed \in Int
    BY <1>1, Integers
  <2>1. Flag(new_dump) + missed \in Int
    BY <1>1, Integers
  <2>2. /\ a + (n + missed) = a + n + missed
        /\ Flag(accum_status_a)' + Flag(new_dump)' + missed' = n + missed
    <3>1. Flag(new_dump)' = n /\ missed' = missed
      BY <1>2, <1>3
    <3> HIDE DEF a, n
    <3> QED
      BY <1>3, <2>0, <3>1
  <2>3. Counts(time_in_bits, Due,
               Flag(accum_status_a) + (Flag(new_dump) + missed), sat, 0)
    BY <2>2 DEF IInv, Kept
  <2>4. Counts(BitTimeAfter(accum_status_a), DueAfter(accum_status_a),
               Flag(new_dump) + missed, sat, 0)
    BY <1>1, <2>1, <2>3, Integers, CountedOne
  <2> QED
    BY <1>2, <2>2, <2>4 DEF Kept
<1>5. CASE tic_flag
  <2>1. m_pc' = "measure" /\ meas'.bit_time = time_in_bits'
    BY <1>1, <1>5 DEF AccumDsr, TypeOK, Measurement
  <2>2. Measuring'
    <3>1. PICK e \in {-1, 0, 1} :
            Counts(time_in_bits, Due, Flag(accum_status_a) + latch.missed,
                   latch.at, e)
      BY <1>2, <1>5 DEF IInv, Seen
    <3>2. e \in Int
      OBVIOUS
    <3>3. Counts(BitTimeAfter(accum_status_a), DueAfter(accum_status_a),
                 latch.missed, latch.at, e)
      BY <1>1, <3>1, <3>2, Integers, CountedOne
    <3>4. DueAfter(accum_status_a) \in Ms
      BY <1>1, <1>2, Numbers DEF TypeOK, DueAfter, Ms
    <3>5. Grabbed(time_in_bits', latch.missed, latch.at)
      BY <1>2, <3>3, <3>4 DEF Grabbed
    <3> QED
      BY <1>2, <2>1, <3>5 DEF Measuring, Grabbed, Counts
  <2>3. Measured' /\ Latched' /\ Seen' /\ LatchRight' /\ EpochBehind'
    BY <1>2, <1>5, <2>1
    DEF Measured, Latched, Seen, IInv, LatchRight, EpochBehind
  <2> QED
    BY <1>1, <1>2, <1>4, <2>1, <2>2, <2>3, PrFrame DEF IInv
<1>6. CASE ~tic_flag
  <2>1. UNCHANGED <<meas, m_pc>>
    BY <1>6 DEF AccumDsr
  <2>2. Measuring' /\ Measured' /\ Latched' /\ Seen' /\ LatchRight' /\ EpochBehind'
    BY <1>2, <2>1
    DEF Measuring, Measured, MeasRight, Grabbed, Counts, Latched, Seen, IInv,
        LatchRight, EpochBehind
  <2> QED
    BY <1>1, <1>2, <1>4, <2>1, <2>2, PrFrame DEF IInv
<1> QED
  BY <1>5, <1>6

LEMMA IInvMeasure ==
  ASSUME IInv, measure_thread
  PROVE  IInv'
<1>1. TypeOK /\ TypeOK'
  BY TypeNext DEF IInv, Next
<1>2. /\ m_pc = "measure" /\ m_pc' = "pseudorange"
      /\ UNCHANGED <<sat, epoch_20ms, epoch_1ms, new_dump, tic_flag, latch, i_pc, accum_status_a, ms_count,
                     time_in_bits, pr, missed>>
      /\ meas' = [bit_time |-> meas.bit_time, code_phase |-> Carried.code_phase,
                  epoch_20ms |-> Carried.epoch_20ms,
                  epoch_1ms |-> Carried.epoch_1ms,
                  at |-> latch.at, missed |-> latch.missed]
  BY DEF measure_thread, satVars, flagVars, dsrVars
<1>3. ~tic_flag
  BY <1>2 DEF IInv
<1>4. Measured'
  <2>1. MeasRight'
    BY <1>1, <1>2, CarriedRight DEF MeasRight, IInv, LatchRight, TypeOK
  <2>2. Grabbed(meas.bit_time, latch.missed, latch.at)
    BY <1>2 DEF IInv, Measuring
  <2> QED
    BY <1>2, <2>1, <2>2 DEF Measured, Grabbed, Counts
<1>5. Kept' /\ EpochBehind' /\ Measuring' /\ Latched' /\ Seen' /\ LatchRight'
  BY <1>2, <1>3 DEF IInv, Kept, EpochBehind, Due, Counts, Measuring, Latched, Seen,
  LatchRight
<1> QED
  BY <1>1, <1>2, <1>3, <1>4, <1>5, PrFrame DEF IInv

LEMMA IInvPseudorange ==
  ASSUME IInv, calculate_pseudorange
  PROVE  IInv'
<1>1. TypeOK /\ TypeOK'
  BY TypeNext DEF IInv, Next
<1>2. /\ m_pc = "pseudorange" /\ m_pc' = "wait"
      /\ UNCHANGED <<sat, epoch_20ms, epoch_1ms, new_dump, tic_flag, latch, i_pc, accum_status_a, ms_count,
                     time_in_bits, meas, missed>>
      /\ pr' = [valid |-> TRUE, sat_time |-> SatTime(meas),
                range |-> PrTime(meas.at) - SatTime(meas),
                at |-> meas.at, bit_time |-> meas.bit_time, missed |-> meas.missed]
  BY DEF calculate_pseudorange, satVars, flagVars, dsrVars
<1>3. SatTimeAgrees'
  <2> SUFFICES ASSUME meas.missed < 3 * MS_PER_BIT
               PROVE  SatTime(meas) = HalfChipsOf(PrevMs(meas.at))
                                        + WeekOff(meas.bit_time, PrevMs(meas.at).bit)
    BY <1>2 DEF SatTimeAgrees, MissedFewer
  <2> QED
    BY <1>1, <1>2, SatTimeRight DEF IInv, Measured
<1>4. RangeIsDifference'
  BY <1>2 DEF RangeIsDifference
<1>5. /\ EpochBehind' /\ LatchRight' /\ Kept' /\ Latched' /\ Seen' /\ Measuring' /\ Measured'
      /\ (i_pc = "idle" => ~accum_status_a)' /\ (tic_flag => m_pc = "wait")'
  BY <1>2
  DEF IInv, EpochBehind, LatchRight, Kept, Due, Counts, Latched, Seen, Measuring, Measured
<1> QED
  BY <1>1, <1>3, <1>4, <1>5 DEF IInv

LEMMA IInvNext == IInv /\ [Next]_vars => IInv'
<1> SUFFICES ASSUME IInv, [Next]_vars PROVE IInv'
  OBVIOUS
<1>1. CASE UNCHANGED vars
  <2>1. TypeOK'
    BY <1>1, TypeNext DEF IInv
  <2> QED
    BY <1>1, <2>1, PrFrame
    DEF vars, satVars, flagVars, dsrVars, threadVars, IInv, EpochBehind, LatchRight, Kept,
        Due, Counts,
        Latched, Seen, Measuring, Measured, MeasRight, Grabbed
<1> QED
  BY <1>1, IInvHalfChip, IInvDumpDone, IInvTic, IInvAccumIsr, IInvAccumDsr,
     IInvMeasure, IInvPseudorange
  DEF Next

\* Bit count, epoch counters and code phase make one time, the satellite's a
\* millisecond before, though they are read at different moments and the DSR may be
\* late and miss dumps, as long as those are of fewer than three bits; what the
\* edges of the week add is known.
THEOREM SatTimeAgreesCorrect == Spec => []SatTimeAgrees
<1>1. Init => IInv
  BY IInvInit
<1>2. IInv /\ [Next]_vars => IInv'
  BY IInvNext
<1>3. IInv => SatTimeAgrees
  BY DEF IInv
<1> QED
  BY <1>1, <1>2, <1>3, PTL DEF Spec

\* Away from the edges of the week a pseudorange is the way of the signal and a
\* millisecond, or a week short of it for the time the receiver's week has ended and
\* the received one has not.
THEOREM RangeOneMsLongCorrect == Spec => []RangeOneMsLong
<1>1. Init => IInv
  BY IInvInit
<1>2. IInv /\ [Next]_vars => IInv'
  BY IInvNext
<1>3. IInv => RangeOneMsLong
  <2> SUFFICES ASSUME IInv, MissedFewer(3), pr.at.bit \in 4 .. BITS_IN_WEEK - 2
               PROVE  pr.range = DELAY + MAX_CODE_PHASE
                        - (IF HalfChipsOf(pr.at) + DELAY < WEEK THEN 0 ELSE WEEK)
    BY DEF RangeOneMsLong
  <2> DEFINE t == PrevMs(pr.at)
  <2>1. /\ pr.at \in Instant /\ pr.at.bit \in Nat /\ pr.at.ms \in Nat
        /\ pr.at.phase \in Nat /\ pr.bit_time \in Bits
    BY Numbers DEF IInv, TypeOK, Pseudorange, Instant, Bits, Ms
  <2>2. t \in Instant /\ t.phase = pr.at.phase /\ t.bit \in 3 .. BITS_IN_WEEK - 2
        /\ t.ms \in Nat
    BY <2>1, PrevMsType, Numbers DEF PrevMs, Instant, Ms
  <2>3. WeekOff(pr.bit_time, t.bit) = 0
    BY <2>2, Numbers DEF WeekOff
  <2>4. HalfChipsOf(pr.at) \in Nat /\ HalfChipsOf(t) \in Nat /\ WEEK \in Nat
    <3>1. t.bit \in Nat
      BY <2>2, Numbers
    <3> HIDE DEF t
    <3> QED
      BY <2>1, <2>2, <3>1, HalfChipsType, Numbers DEF HalfChipsOf, WEEK
  <2>5. HalfChipsOf(pr.at) = HalfChipsOf(t) + MAX_CODE_PHASE
    <3>1. MsOf(t.bit, t.ms) + 1 = MsOf(pr.at.bit, pr.at.ms)
          /\ MsOf(t.bit, t.ms) \in Nat
      <4>1. CASE pr.at.ms > 0
        BY <4>1, <2>1, <2>2, Numbers DEF PrevMs, MsOf
      <4>2. CASE pr.at.ms = 0
        <5>1. t.bit = pr.at.bit - 1 /\ t.ms = MS_PER_BIT - 1
          BY <4>2, <2>1, Numbers DEF PrevMs
        <5>2. (pr.at.bit - 1) * MS_PER_BIT = pr.at.bit * MS_PER_BIT - MS_PER_BIT
          BY <2>1, Numbers
        <5>3. (pr.at.bit - 1) * MS_PER_BIT \in Nat
          BY <2>1, Numbers
        <5> QED
          BY <4>2, <5>1, <5>2, <5>3, <2>1, Numbers DEF MsOf
      <4> QED
        BY <4>1, <4>2, <2>1
    <3>2. (MsOf(t.bit, t.ms) + 1) * MAX_CODE_PHASE
            = MsOf(t.bit, t.ms) * MAX_CODE_PHASE + MAX_CODE_PHASE
      BY <3>1, Numbers
    <3>3. /\ HalfChipsOf(pr.at)
               = MsOf(pr.at.bit, pr.at.ms) * MAX_CODE_PHASE + pr.at.phase
          /\ HalfChipsOf(t) = MsOf(t.bit, t.ms) * MAX_CODE_PHASE + t.phase
      BY DEF HalfChipsOf, HalfChips, MsOf
    <3>4. MsOf(t.bit, t.ms) * MAX_CODE_PHASE \in Nat
      BY <3>1, Numbers
    <3> HIDE DEF t
    <3> QED
      BY <2>1, <2>2, <3>1, <3>2, <3>3, <3>4, Numbers
  <2>6. pr.sat_time = HalfChipsOf(t) + 0
    BY <2>3 DEF IInv, SatTimeAgrees
  <2>7. pr.range = PrTime(pr.at) - HalfChipsOf(t)
    BY <2>4, <2>6 DEF IInv, RangeIsDifference, MissedFewer
  <2> HIDE DEF t
  <2> QED
    BY <2>4, <2>5, <2>7, Numbers DEF PrTime
<1> QED
  BY <1>1, <1>2, <1>3, PTL DEF Spec
=============================================================================
