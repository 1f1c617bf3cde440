-------------------------- MODULE AcquisitionProofs --------------------------
(* Proofs about Acquisition, for every length of code, bit, pull-in and week. *)
EXTENDS Acquisition, FiniteSetTheorems, TLAPS

\* A counter that wraps.
LEMMA WrapNext ==
  ASSUME NEW n \in Nat \ {0}, NEW x \in 0 .. n - 1
  PROVE  /\ (x + 1) % n = IF x = n - 1 THEN 0 ELSE x + 1
         /\ (x + 1) % n \in 0 .. n - 1
  BY Z3

\* The search bins stay within the width.
LEMMA BinRange ==
  ASSUME NEW n \in 0 .. CarrSrchWidth
  PROVE  BinAfter(n) \in -HalfWidth .. HalfWidth + 1
  BY AcquisitionAssumption DEF BinAfter, HalfWidth

\* The values the program resets its variables to are of their types.
LEMMA Resets ==
  /\ 0 \in -HalfWidth .. HalfWidth + 1
  /\ 0 \in 0 .. CODE_PHASES - 1 /\ 0 \in 0 .. CODE_LENGTH - 1
  /\ 0 \in 0 .. CarrSrchWidth + 1
  /\ 0 \in 0 .. N_CONFIRM + 1 /\ 0 \in 0 .. 0 /\ 0 <= N_CONFIRM
  /\ 0 \in Ms /\ 1 \in 1 .. MS_PER_BIT /\ MS_PER_BIT \in 1 .. MS_PER_BIT
  /\ 0 \in 0 .. PullInTime + 2 * MS_PER_BIT - 2
  /\ 0 \in -MS_PER_BIT .. MS_PER_BIT
  /\ 0 \in 0 .. BITS_IN_WEEK - 1 /\ 0 \in 0 .. AVG_BITS - 1
  /\ ~(0 >= PullInTime)
<1>1. HalfWidth \in Nat
  BY AcquisitionAssumption DEF HalfWidth
<1> QED
  BY <1>1, AcquisitionAssumption DEF Ms

-----------------------------------------------------------------------------
(* Types.                                                                  *)

\* Until the edge is found ms_count follows ch_time; finding it starts ms_count
\* again, once.
PullInBound ==
  state = "PULL_IN" /\ ch_time >= PullInTime =>
    /\ ms_count < MS_PER_BIT - 1
    /\ ch_time - PullInTime <= ms_count + IF bit_sync THEN MS_PER_BIT - 1 ELSE 0

\* Dumps summed up so far in lock.
Summed == IF ms_count = MS_PER_BIT - 1 THEN 0 ELSE ms_count + 1

SumBound == state = "LOCK" => sum \in -Summed .. Summed

\* Before the last dump of CONFIRM there is one to come.
ConfirmBound == state = "CONFIRM" => i_confirm <= N_CONFIRM

TypeInv == TypeOK /\ PullInBound /\ SumBound /\ ConfirmBound

LEMMA TypeInit == Init => TypeInv
<1> SUFFICES ASSUME Init PROVE TypeInv
  OBVIOUS
<1>1. TypeOK
  BY Resets DEF Init, TypeOK
<1> QED
  BY <1>1 DEF Init, TypeInv, PullInBound, SumBound, ConfirmBound

\* What no step of the search disturbs.
RestOK ==
  /\ ms_count \in Ms
  /\ ch_time \in 0 .. PullInTime + 2 * MS_PER_BIT - 2
  /\ bit_sync \in BOOLEAN
  /\ last \in BOOLEAN /\ run \in 1 .. MS_PER_BIT
  /\ load_1ms_epoch_count \in BOOLEAN /\ epoch \in Ms
  /\ sum \in -MS_PER_BIT .. MS_PER_BIT
  /\ bit \in BOOLEAN /\ nav_bit_ready \in BOOLEAN
  /\ time_in_bits \in 0 .. BITS_IN_WEEK - 1
  /\ check_average \in 0 .. AVG_BITS - 1
  /\ phase \in Ms /\ data \in {-1, 1} /\ sat_bits \in 0 .. BITS_IN_WEEK - 1
  /\ disturbed \in BOOLEAN

SearchOK ==
  /\ n_freq \in 0 .. CarrSrchWidth + 1
  /\ codephase \in 0 .. CODE_PHASES - 1
  /\ bin \in -HalfWidth .. HalfWidth + 1
  /\ offset \in 0 .. CODE_LENGTH - 1
  /\ searched \subseteq (-HalfWidth .. HalfWidth + 1) \X (0 .. CODE_LENGTH - 1)

ConfirmOK == i_confirm \in 0 .. N_CONFIRM + 1 /\ n_thresh \in 0 .. i_confirm

LEMMA TypeParts ==
  TypeOK <=> /\ state \in {"OFF", "ACQUISITION", "CONFIRM", "PULL_IN", "LOCK"}
             /\ SearchOK /\ ConfirmOK /\ RestOK
  BY DEF TypeOK, SearchOK, ConfirmOK, RestOK

LEMMA TypePartsNext ==
  TypeOK' <=> /\ state' \in {"OFF", "ACQUISITION", "CONFIRM", "PULL_IN", "LOCK"}
              /\ SearchOK' /\ ConfirmOK' /\ RestOK'
  BY DEF TypeOK, SearchOK, ConfirmOK, RestOK

LEMMA RestFrame ==
  ASSUME RestOK, SearchFrame, bit_sync' \in BOOLEAN
  PROVE  RestOK'
  BY DEF RestOK, SearchFrame, signVars, satVars

LEMMA TypeSearch ==
  ASSUME TypeInv, Start \/ Idle \/ Acquire
  PROVE  TypeInv'
<1>1. SearchOK /\ ConfirmOK /\ RestOK
  BY TypeParts DEF TypeInv
<1>2. CASE Start
  <2>1. SearchOK' /\ ConfirmOK' /\ RestOK'
    BY <1>1, <1>2, Resets
    DEF Start, SearchOK, ConfirmOK, RestOK, confirmVars, signVars
  <2> QED
    BY <1>2, <2>1, TypePartsNext
    DEF Start, TypeInv, PullInBound, SumBound, ConfirmBound
<1>3. CASE Idle
  <2>1. SearchOK' /\ ConfirmOK' /\ RestOK'
    BY <1>1, <1>3
    DEF Idle, SearchOK, ConfirmOK, RestOK, searchVars, confirmVars, signVars,
        satVars
  <2> QED
    BY <1>3, <2>1, TypePartsNext
    DEF Idle, TypeInv, PullInBound, SumBound, ConfirmBound
<1>4. CASE AcquireHit
  <2>1. RestOK'
    BY <1>1, <1>4, RestFrame DEF AcquireHit, RestOK
  <2>2. SearchOK'
    BY <1>1, <1>4 DEF AcquireHit, SearchOK
  <2>3. ConfirmOK' /\ ConfirmBound'
    BY <1>4, Resets DEF AcquireHit, ConfirmOK, ConfirmBound
  <2> QED
    BY <1>4, <2>1, <2>2, <2>3, TypePartsNext
    DEF AcquireHit, TypeInv, PullInBound, SumBound
<1>5. CASE AcquireMiss
  <2>1. RestOK'
    BY <1>1, <1>5, RestFrame DEF AcquireMiss, RestOK
  <2>2. n_freq \in 0 .. CarrSrchWidth
    BY <1>1, <1>5, AcquisitionAssumption DEF AcquireMiss, WithinWidth, SearchOK
  <2>3. offset' \in 0 .. CODE_LENGTH - 1
    BY <1>1, <1>5, WrapNext, AcquisitionAssumption DEF AcquireMiss, SearchOK
  <2>4. BinAfter(n_freq) \in -HalfWidth .. HalfWidth + 1
    BY <2>2, BinRange
  <2>5. NextBin \in 0 .. CarrSrchWidth + 1
    BY <2>2, AcquisitionAssumption DEF NextBin
  <2>6. codephase + 1 < CODE_PHASES => codephase + 1 \in 0 .. CODE_PHASES - 1
    BY <1>1, AcquisitionAssumption DEF SearchOK
  <2>7. SearchOK'
    BY <1>1, <1>5, <2>3, <2>4, <2>5, <2>6, Resets DEF AcquireMiss, SearchOK
  <2>8. ConfirmOK' /\ state' = "ACQUISITION"
    BY <1>1, <1>5 DEF AcquireMiss, ConfirmOK, confirmVars
  <2> QED
    BY <2>1, <2>7, <2>8, TypePartsNext
    DEF TypeInv, PullInBound, SumBound, ConfirmBound
<1>6. CASE AcquireGiveUp
  <2>1. RestOK'
    BY <1>1, <1>6, RestFrame DEF AcquireGiveUp, RestOK
  <2>2. SearchOK' /\ ConfirmOK'
    BY <1>1, <1>6 DEF AcquireGiveUp, SearchOK, ConfirmOK, searchVars, confirmVars
  <2> QED
    BY <1>6, <2>1, <2>2, TypePartsNext
    DEF AcquireGiveUp, TypeInv, PullInBound, SumBound, ConfirmBound
<1> QED
  BY <1>2, <1>3, <1>4, <1>5, <1>6 DEF Acquire

LEMMA TypeConfirm == ASSUME TypeInv, Confirm PROVE TypeInv'
<1>1. SearchOK /\ ConfirmOK /\ RestOK
  BY TypeParts DEF TypeInv
<1>2. state = "CONFIRM" /\ i_confirm \in 0 .. N_CONFIRM
  BY <1>1, AcquisitionAssumption
  DEF Confirm, ConfirmMore, ConfirmFail, ConfirmPullIn, TypeInv, ConfirmBound,
      ConfirmOK
<1>3. ConfirmOK' /\ SearchOK'
  <2>1. i_confirm' = i_confirm + 1 /\ n_thresh' \in {n_thresh, n_thresh + 1}
    BY DEF Confirm, ConfirmMore, ConfirmFail, ConfirmPullIn
  <2>2. ConfirmOK'
    BY <1>1, <1>2, <2>1, AcquisitionAssumption DEF ConfirmOK
  <2>3. SearchOK'
    BY <1>1
    DEF Confirm, ConfirmMore, ConfirmFail, ConfirmPullIn, SearchOK, searchVars
  <2> QED
    BY <2>2, <2>3
<1>4. CASE ConfirmMore
  <2>1. RestOK'
    BY <1>1, <1>4, RestFrame DEF ConfirmMore, RestOK
  <2>2. ConfirmBound'
    BY <1>2, <1>4, AcquisitionAssumption DEF ConfirmMore, ConfirmBound
  <2> QED
    BY <1>3, <1>4, <2>1, <2>2, TypePartsNext
    DEF ConfirmMore, TypeInv, PullInBound, SumBound
<1>5. CASE ConfirmFail
  <2>1. RestOK'
    BY <1>1, <1>5, RestFrame DEF ConfirmFail
  <2> QED
    BY <1>3, <1>5, <2>1, TypePartsNext
    DEF ConfirmFail, TypeInv, PullInBound, SumBound, ConfirmBound
<1>6. CASE ConfirmPullIn
  <2>1. RestOK'
    BY <1>1, <1>6, Resets DEF ConfirmPullIn, RestOK
  <2> QED
    BY <1>3, <1>6, <2>1, Resets, TypePartsNext
    DEF ConfirmPullIn, TypeInv, PullInBound, SumBound, ConfirmBound
<1> QED
  BY <1>4, <1>5, <1>6 DEF Confirm

\* The satellite's milliseconds and bits.
LEMMA TypeNextMs ==
  ASSUME TypeInv, NextMs
  PROVE  /\ phase' \in Ms /\ data' \in {-1, 1}
         /\ SatBitsNext \in 0 .. BITS_IN_WEEK - 1
         /\ NextCount \in Ms
         /\ NextCount = IF ms_count = MS_PER_BIT - 1 THEN 0 ELSE ms_count + 1
         /\ (epoch + 1) % MS_PER_BIT \in Ms /\ EpochAfterRead \in Ms
<1>1. /\ MS_PER_BIT \in Nat \ {0} /\ BITS_IN_WEEK \in Nat \ {0}
      /\ phase \in 0 .. MS_PER_BIT - 1 /\ ms_count \in 0 .. MS_PER_BIT - 1
      /\ epoch \in 0 .. MS_PER_BIT - 1 /\ sat_bits \in 0 .. BITS_IN_WEEK - 1
      /\ data \in {-1, 1} /\ 1 \in 0 .. MS_PER_BIT - 1
  BY AcquisitionAssumption DEF TypeInv, TypeOK, Ms
<1>2. /\ (phase + 1) % MS_PER_BIT \in 0 .. MS_PER_BIT - 1
      /\ (epoch + 1) % MS_PER_BIT \in 0 .. MS_PER_BIT - 1
      /\ (sat_bits + 1) % BITS_IN_WEEK \in 0 .. BITS_IN_WEEK - 1
      /\ (ms_count + 1) % MS_PER_BIT \in 0 .. MS_PER_BIT - 1
      /\ (ms_count + 1) % MS_PER_BIT
           = IF ms_count = MS_PER_BIT - 1 THEN 0 ELSE ms_count + 1
  BY <1>1, WrapNext
<1>3. data' \in {-1, 1}
  BY <1>1 DEF NextMs
<1> QED
  BY <1>1, <1>2, <1>3 DEF NextMs, SatBitsNext, NextCount, EpochAfterRead, Ms

LEMMA TypePullIn == ASSUME TypeInv, NEW q \in -1 .. 1, PullIn(q) PROVE TypeInv'
<1>1. NextMs
  BY DEF PullIn
<1>2. /\ phase' \in Ms /\ data' \in {-1, 1} /\ epoch' \in Ms
      /\ disturbed' \in BOOLEAN
  BY <1>1, TypeNextMs DEF PullIn, Signal, TypeInv, TypeOK
<1>3. /\ bit_sync' \in BOOLEAN /\ load_1ms_epoch_count' \in BOOLEAN
      /\ \/ ~bit_sync /\ bit_sync' /\ ms_count' = 0
         \/ bit_sync' = bit_sync
            /\ ms_count' = IF ms_count = MS_PER_BIT - 1 THEN 0 ELSE ms_count + 1
  BY <1>1, TypeNextMs DEF PullIn, PullInSync, Edge, TypeInv, TypeOK
<1>4. last' \in BOOLEAN /\ run' \in 1 .. MS_PER_BIT
  BY AcquisitionAssumption DEF PullIn, ShiftSign, TypeInv, TypeOK
<1>5. ms_count' \in Ms
  BY <1>1, <1>3, TypeNextMs, AcquisitionAssumption DEF NextCount, Ms
<1>6. /\ ch_time' = ch_time + 1 /\ ch_time \in Nat
      /\ state = "PULL_IN" /\ state' \in {"PULL_IN", "LOCK", "OFF"}
      /\ state' = "PULL_IN" => ~PullInOver(ms_count', ch_time')
  BY DEF PullIn, TypeInv, TypeOK
<1>7. ch_time' \in 0 .. PullInTime + 2 * MS_PER_BIT - 2
  <2>1. CASE ch_time >= PullInTime
    BY <2>1, <1>3, <1>6, AcquisitionAssumption
    DEF TypeInv, TypeOK, PullInBound, Ms
  <2>2. CASE ch_time < PullInTime
    BY <2>2, <1>6, AcquisitionAssumption
  <2> QED
    BY <2>1, <2>2, <1>6, AcquisitionAssumption
<1>8. PullInBound'
  <2> SUFFICES ASSUME state' = "PULL_IN", ch_time' >= PullInTime
               PROVE  /\ ms_count' < MS_PER_BIT - 1
                      /\ ch_time' - PullInTime
                           <= ms_count' + IF bit_sync' THEN MS_PER_BIT - 1 ELSE 0
    BY DEF PullInBound
  <2>1. ms_count' # MS_PER_BIT - 1
    BY <1>6 DEF PullInOver
  <2>2. CASE ch_time >= PullInTime
    <3>1. /\ ms_count < MS_PER_BIT - 1 /\ ms_count \in Nat
          /\ ch_time - PullInTime
               <= ms_count + IF bit_sync THEN MS_PER_BIT - 1 ELSE 0
      BY <2>2, <1>6 DEF TypeInv, TypeOK, PullInBound, Ms
    <3>2. CASE ~bit_sync /\ bit_sync' /\ ms_count' = 0
      BY <2>1, <3>1, <3>2, <1>6, AcquisitionAssumption
    <3>3. CASE bit_sync' = bit_sync /\ ms_count' = ms_count + 1
      BY <2>1, <3>1, <3>3, <1>5, <1>6, AcquisitionAssumption DEF Ms
    <3> QED
      BY <3>1, <3>2, <3>3, <1>3, AcquisitionAssumption
  <2>3. CASE ch_time < PullInTime
    <3>1. ch_time' - PullInTime = 0
      BY <2>3, <1>6, AcquisitionAssumption
    <3>2. ms_count' \in Nat /\ ms_count' < MS_PER_BIT - 1
      BY <2>1, <1>5, AcquisitionAssumption DEF Ms
    <3> QED
      BY <3>1, <3>2, AcquisitionAssumption
  <2> QED
    BY <2>2, <2>3, <1>6, AcquisitionAssumption
<1>9. /\ sum' \in -MS_PER_BIT .. MS_PER_BIT
      /\ check_average' \in 0 .. AVG_BITS - 1
      /\ sat_bits' \in 0 .. BITS_IN_WEEK - 1
      /\ state' = "LOCK" => sum' = 0
  BY AcquisitionAssumption DEF PullIn, TypeInv, TypeOK
<1>10. SumBound' /\ ConfirmBound'
  <2>1. state' = "LOCK" => ms_count' = MS_PER_BIT - 1 /\ sum' = 0
    BY <1>9 DEF PullIn, PullInOver
  <2> QED
    BY <2>1, <1>6, AcquisitionAssumption DEF SumBound, ConfirmBound, Summed
<1>11. UNCHANGED <<n_freq, codephase, bin, offset, searched, i_confirm, n_thresh,
                   bit, time_in_bits>> /\ nav_bit_ready' = FALSE
  BY DEF PullIn, searchVars, confirmVars
<1> QED
  BY <1>2, <1>3, <1>4, <1>5, <1>6, <1>7, <1>8, <1>9, <1>10, <1>11
  DEF TypeInv, TypeOK

LEMMA TypeLock == ASSUME TypeInv, NEW q \in -1 .. 1, Lock(q) PROVE TypeInv'
<1>1. NextMs
  BY DEF Lock
<1>2. /\ phase' \in Ms /\ data' \in {-1, 1} /\ epoch' \in Ms
      /\ disturbed' \in BOOLEAN /\ sat_bits' \in 0 .. BITS_IN_WEEK - 1
      /\ load_1ms_epoch_count' = FALSE
      /\ ms_count' \in Ms
      /\ ms_count' = IF ms_count = MS_PER_BIT - 1 THEN 0 ELSE ms_count + 1
  BY <1>1, TypeNextMs DEF Lock, Signal, TypeInv, TypeOK
<1>3. state = "LOCK" /\ state' \in {"LOCK", "OFF"}
  BY DEF Lock, LockSum, LockBit
<1>4. sum' \in -MS_PER_BIT .. MS_PER_BIT /\ SumBound'
  <2>1. sum \in -Summed .. Summed
    BY <1>3 DEF TypeInv, SumBound
  <2>2. CASE ms_count' = MS_PER_BIT - 1
    <3>1. sum' = 0
      BY <2>2 DEF Lock, LockSum, LockBit, SumCleared
    <3> QED
      BY <3>1, <2>2, AcquisitionAssumption DEF SumBound, Summed
  <2>3. CASE ms_count' # MS_PER_BIT - 1
    <3>1. sum' = sum + q
      BY <2>3 DEF Lock, LockSum, LockBit
    <3> QED
      BY <3>1, <2>1, <2>3, <1>2, AcquisitionAssumption
      DEF SumBound, Summed, Ms, TypeInv, TypeOK
  <2> QED
    BY <2>2, <2>3
<1>5. /\ bit' \in BOOLEAN /\ nav_bit_ready' \in BOOLEAN
      /\ time_in_bits' \in 0 .. BITS_IN_WEEK - 1
      /\ check_average' \in 0 .. AVG_BITS - 1
  <2>1. /\ (time_in_bits + 1) % BITS_IN_WEEK \in 0 .. BITS_IN_WEEK - 1
        /\ (check_average + 1) % AVG_BITS \in 0 .. AVG_BITS - 1
    BY WrapNext, AcquisitionAssumption DEF TypeInv, TypeOK
  <2>2. CASE LockSum(q)
    BY <2>2 DEF LockSum, TypeInv, TypeOK
  <2>3. CASE LockBit(q)
    <3>1. bit' = (sum + q > 0) /\ nav_bit_ready' = TRUE
      BY <2>3 DEF LockBit
    <3>2. bit' \in BOOLEAN
      BY <3>1
    <3> QED
      BY <2>1, <2>3, <3>1, <3>2 DEF LockBit, NextBitTime
  <2> QED
    BY <2>2, <2>3 DEF Lock
<1>6. UNCHANGED <<n_freq, codephase, bin, offset, searched, i_confirm, n_thresh,
                  ch_time, bit_sync, last, run>>
  BY DEF Lock, searchVars, confirmVars, signVars
<1>7. PullInBound' /\ ConfirmBound'
  BY <1>3 DEF PullInBound, ConfirmBound
<1> QED
  BY <1>2, <1>3, <1>4, <1>5, <1>6, <1>7 DEF TypeInv, TypeOK

LEMMA TypeMissed == ASSUME TypeInv, MissedDump PROVE TypeInv'
<1>1. NextMs
  BY DEF MissedDump
<1> QED
  BY <1>1, TypeNextMs
  DEF MissedDump, TypeInv, TypeOK, PullInBound, SumBound, Summed, ConfirmBound,
      searchVars, confirmVars, signVars, bitVars

LEMMA TypeStep == TypeInv /\ [Next]_vars => TypeInv'
<1> SUFFICES ASSUME TypeInv, [Next]_vars PROVE TypeInv'
  OBVIOUS
<1>1. CASE UNCHANGED vars
  BY <1>1
  DEF vars, searchVars, confirmVars, signVars, epochVars, bitVars, satVars,
      TypeInv, TypeOK, PullInBound, SumBound, Summed, ConfirmBound
<1> QED
  BY <1>1, TypeSearch, TypeConfirm, TypePullIn, TypeLock, TypeMissed DEF Next, Dump

\* Every variable keeps its type, n_freq and codephase within the search, the sums
\* within a bit; in particular pull-in ends at most two bits after PullInTime, so
\* that ch_time, an unsigned short, does not overflow.
THEOREM TypeCorrect == Spec => []TypeOK
<1>1. TypeInv => TypeOK
  BY DEF TypeInv
<1> QED
  BY TypeInit, TypeStep, <1>1, PTL DEF Spec

-----------------------------------------------------------------------------
(* The milliseconds and bits of the satellite.                             *)

\* The garbage in ms_sign is never taken for a full bit; after the first dump the
\* last sign is that of the data.
SignInv ==
  state = "PULL_IN" /\ ~disturbed =>
    /\ ch_time = 0 => run = 1
    /\ ch_time > 0 => last = (data = -1)

AlignInv ==
  ~disturbed /\ state \in {"PULL_IN", "LOCK"} /\ bit_sync =>
    /\ ms_count = phase
    /\ IF load_1ms_epoch_count THEN phase = 0 ELSE epoch = phase

\* In lock the sums hold the dumps of the current bit, all of one sign.
LockInv ==
  /\ state = "LOCK" => bit_sync
  /\ ~disturbed /\ state = "LOCK" =>
       /\ sum = IF data = 1 THEN Summed ELSE 0 - Summed
       /\ time_in_bits = sat_bits
       /\ nav_bit_ready => phase = MS_PER_BIT - 1 /\ bit = (data = 1)

SatInv == SignInv /\ AlignInv /\ LockInv

LEMMA SatInit == Init => SatInv
  BY DEF Init, SatInv, SignInv, AlignInv, LockInv

LEMMA SatSearch ==
  ASSUME TypeInv, Start \/ Idle \/ Acquire \/ Confirm
  PROVE  SatInv'
<1>1. CASE ConfirmPullIn
  BY <1>1 DEF ConfirmPullIn, SatInv, SignInv, AlignInv, LockInv
<1>2. CASE ~ConfirmPullIn
  <2>1. state' \notin {"PULL_IN", "LOCK"}
    BY <1>2
    DEF Start, Idle, Acquire, AcquireHit, AcquireMiss, AcquireGiveUp, Confirm,
        ConfirmMore, ConfirmFail
  <2> QED
    BY <2>1 DEF SatInv, SignInv, AlignInv, LockInv
<1> QED
  BY <1>1, <1>2

\* The satellite's phase goes round; its data change only at the start of a bit.
LEMMA SatNextMs ==
  ASSUME TypeInv, NextMs
  PROVE  /\ phase' = IF phase = MS_PER_BIT - 1 THEN 0 ELSE phase + 1
         /\ (epoch + 1) % MS_PER_BIT
              = IF epoch = MS_PER_BIT - 1 THEN 0 ELSE epoch + 1
         /\ phase' # 0 => data' = data
         /\ data \in {-1, 1} /\ data' \in {-1, 1} /\ phase \in Nat
<1>1. /\ MS_PER_BIT \in Nat \ {0}
      /\ phase \in 0 .. MS_PER_BIT - 1 /\ epoch \in 0 .. MS_PER_BIT - 1
      /\ data \in {-1, 1}
  BY AcquisitionAssumption DEF TypeInv, TypeOK, Ms
<1>2. /\ (phase + 1) % MS_PER_BIT
           = IF phase = MS_PER_BIT - 1 THEN 0 ELSE phase + 1
      /\ (epoch + 1) % MS_PER_BIT
           = IF epoch = MS_PER_BIT - 1 THEN 0 ELSE epoch + 1
  BY <1>1, WrapNext
<1> QED
  BY <1>1, <1>2 DEF NextMs

LEMMA SatPullIn ==
  ASSUME TypeInv, SatInv, NEW q \in -1 .. 1, PullIn(q)
  PROVE  SatInv'
<1>1. /\ phase' = IF phase = MS_PER_BIT - 1 THEN 0 ELSE phase + 1
      /\ (epoch + 1) % MS_PER_BIT
           = IF epoch = MS_PER_BIT - 1 THEN 0 ELSE epoch + 1
      /\ phase' # 0 => data' = data
      /\ data \in {-1, 1} /\ data' \in {-1, 1} /\ phase \in Nat
  BY SatNextMs DEF PullIn
<1>2. NextCount = IF ms_count = MS_PER_BIT - 1 THEN 0 ELSE ms_count + 1
  BY TypeNextMs DEF PullIn
<1>3. ~disturbed' => ~disturbed /\ q = data'
  BY DEF PullIn, Signal
<1>4. SignInv'
  <2>1. ~disturbed' => last' = (data' = -1)
    BY <1>1, <1>3 DEF PullIn, ShiftSign
  <2>2. ch_time' = ch_time + 1 /\ ch_time \in Nat
    BY DEF PullIn, TypeInv, TypeOK
  <2> QED
    BY <2>1, <2>2 DEF SignInv
<1>5. ~disturbed' /\ Edge(q) => phase' = 0
  <2> SUFFICES ASSUME ~disturbed', Edge(q) PROVE data' # data
    BY <1>1
  <2>1. ch_time > 0 /\ state = "PULL_IN" /\ ch_time \in Nat
    BY <1>3, AcquisitionAssumption
    DEF PullIn, Edge, SatInv, SignInv, TypeInv, TypeOK
  <2>2. last = (data = -1)
    BY <1>3, <2>1 DEF SatInv, SignInv
  <2>3. q = data'
    BY <1>3
  <2>5. CASE last
    <3>1. data = -1
      BY <2>2, <2>5, Zenon
    <3>2. q > 0
      BY <2>5 DEF Edge
    <3> QED
      BY <2>3, <3>1, <3>2
  <2>6. CASE ~last
    <3>1. data # -1
      BY <2>2, <2>6, Zenon
    <3>2. q < 0
      BY <2>6 DEF Edge
    <3> QED
      BY <1>1, <2>3, <3>1, <3>2
  <2> QED
    BY <2>5, <2>6
<1>6. AlignInv'
  <2> SUFFICES ASSUME ~disturbed', bit_sync'
               PROVE  /\ ms_count' = phase'
                      /\ IF load_1ms_epoch_count' THEN phase' = 0
                                                  ELSE epoch' = phase'
    BY DEF AlignInv
  <2>1. CASE Edge(q) /\ ms_count' = 0 /\ load_1ms_epoch_count'
    BY <1>5, <2>1
  <2>2. CASE /\ ms_count' = NextCount /\ ~load_1ms_epoch_count' /\ bit_sync
    <3>1. /\ ms_count = phase
          /\ IF load_1ms_epoch_count THEN phase = 0 ELSE epoch = phase
      BY <1>3, <2>2 DEF PullIn, SatInv, AlignInv
    <3>2. ms_count' = phase'
      BY <1>1, <1>2, <2>2, <3>1
    <3>3. epoch' = phase'
      BY <1>1, <3>1, AcquisitionAssumption DEF PullIn, EpochAfterRead
    <3> QED
      BY <2>2, <3>2, <3>3
  <2> QED
    BY <2>1, <2>2 DEF PullIn, PullInSync
<1>7. LockInv'
  <2> SUFFICES ASSUME state' = "LOCK"
               PROVE  /\ bit_sync'
                      /\ ~disturbed' =>
                           /\ sum' = IF data' = 1 THEN Summed' ELSE 0 - Summed'
                           /\ time_in_bits' = sat_bits'
                           /\ ~nav_bit_ready'
    BY DEF LockInv
  <2>1. /\ ms_count' = MS_PER_BIT - 1 /\ bit_sync' /\ sum' = 0
        /\ sat_bits' = time_in_bits /\ time_in_bits' = time_in_bits
        /\ nav_bit_ready' = FALSE
    BY DEF PullIn, PullInOver
  <2>2. Summed' = 0
    BY <2>1, AcquisitionAssumption DEF Summed
  <2>3. sum' = IF data' = 1 THEN Summed' ELSE 0 - Summed'
    BY <2>1, <2>2
  <2>4. time_in_bits' = sat_bits' /\ ~nav_bit_ready'
    BY <2>1
  <2> QED
    BY <2>1, <2>3, <2>4
<1> QED
  BY <1>4, <1>6, <1>7 DEF SatInv

\* A dump in lock: the counters go on with the satellite, and at the end of a bit
\* the sums are those of all its dumps.
LEMMA LockDump ==
  ASSUME TypeInv, SatInv, NEW q \in -1 .. 1, Lock(q), ~disturbed'
  PROVE  /\ ms_count = phase /\ ms_count' = phase'
         /\ ~load_1ms_epoch_count' /\ epoch' = phase'
         /\ sum + q = IF data' = 1 THEN ms_count' + 1 ELSE 0 - (ms_count' + 1)
         /\ time_in_bits = sat_bits
         /\ LockBit(q) => bit' = (data' = 1)
<1>1. /\ phase' = IF phase = MS_PER_BIT - 1 THEN 0 ELSE phase + 1
      /\ (epoch + 1) % MS_PER_BIT
           = IF epoch = MS_PER_BIT - 1 THEN 0 ELSE epoch + 1
      /\ phase' # 0 => data' = data
      /\ data \in {-1, 1} /\ data' \in {-1, 1} /\ phase \in Nat
  BY SatNextMs DEF Lock
<1>2. /\ NextCount = IF ms_count = MS_PER_BIT - 1 THEN 0 ELSE ms_count + 1
      /\ ms_count' = NextCount /\ ms_count \in 0 .. MS_PER_BIT - 1
  BY TypeNextMs DEF Lock, TypeInv, TypeOK, Ms
<1>3. ~disturbed /\ q = data'
  BY DEF Lock, Signal
<1>4. state = "LOCK" /\ bit_sync
  BY DEF Lock, LockSum, LockBit, SatInv, LockInv
<1>5. /\ ms_count = phase /\ ms_count' = phase'
      /\ ~load_1ms_epoch_count' /\ epoch' = phase'
  <2>1. /\ ms_count = phase
        /\ IF load_1ms_epoch_count THEN phase = 0 ELSE epoch = phase
    BY <1>3, <1>4 DEF SatInv, AlignInv
  <2>2. epoch' = phase'
    BY <1>1, <2>1, AcquisitionAssumption DEF Lock, EpochAfterRead
  <2> QED
    BY <1>1, <1>2, <2>1, <2>2 DEF Lock
<1>6. /\ sum = IF data = 1 THEN Summed ELSE 0 - Summed
      /\ time_in_bits = sat_bits
  BY <1>3, <1>4 DEF SatInv, LockInv
<1>7. /\ phase' = 0 => Summed = 0 /\ ms_count' = 0
      /\ phase' # 0 => Summed = ms_count' /\ data' = data
      /\ ms_count' \in Nat
  BY <1>1, <1>2, <1>5, AcquisitionAssumption DEF Summed
<1>8. sum + q = IF data' = 1 THEN ms_count' + 1 ELSE 0 - (ms_count' + 1)
  <2>1. q = data' /\ data' \in {-1, 1} /\ data \in {-1, 1}
    BY <1>1, <1>3
  <2>2. sum = IF data' = 1 THEN ms_count' ELSE 0 - ms_count'
    BY <1>6, <1>7, <2>1
  <2> QED
    BY <1>7, <2>1, <2>2
<1>9. LockBit(q) => bit' = (data' = 1)
  <2> SUFFICES ASSUME LockBit(q) PROVE bit' = (data' = 1)
    OBVIOUS
  <2>1. ms_count' = MS_PER_BIT - 1 /\ bit' = (sum + q > 0)
    BY <1>2 DEF LockBit
  <2>2. (sum + q > 0) <=> data' = 1
    BY <1>1, <1>8, <2>1, AcquisitionAssumption
  <2> QED
    BY <2>1, <2>2
<1> QED
  BY <1>5, <1>6, <1>8, <1>9

LEMMA SatLock ==
  ASSUME TypeInv, SatInv, NEW q \in -1 .. 1, Lock(q)
  PROVE  SatInv'
<1>1. ms_count' = NextCount /\ state' \in {"LOCK", "OFF"} /\ bit_sync'
  BY DEF Lock, LockSum, LockBit, SatInv, LockInv
<1>2. AlignInv'
  BY LockDump DEF AlignInv
<1>3. LockInv'
  <2> SUFFICES ASSUME ~disturbed', state' = "LOCK"
               PROVE  /\ sum' = IF data' = 1 THEN Summed' ELSE 0 - Summed'
                      /\ time_in_bits' = sat_bits'
                      /\ nav_bit_ready' => /\ phase' = MS_PER_BIT - 1
                                           /\ bit' = (data' = 1)
    BY <1>1 DEF LockInv
  <2>1. /\ ms_count' = phase'
        /\ sum + q = IF data' = 1 THEN ms_count' + 1 ELSE 0 - (ms_count' + 1)
        /\ time_in_bits = sat_bits
        /\ LockBit(q) => bit' = (data' = 1)
    BY LockDump
  <2>2. CASE LockSum(q)
    <3>1. ms_count' # MS_PER_BIT - 1 /\ sum' = sum + q /\ nav_bit_ready' = FALSE
          /\ time_in_bits' = time_in_bits
      BY <1>1, <2>2 DEF LockSum
    <3>2. sat_bits' = sat_bits
      BY <2>1, <3>1 DEF Lock, SatBitsNext
    <3> QED
      BY <2>1, <3>1, <3>2 DEF Summed
  <2>3. CASE LockBit(q)
    <3>1. ms_count' = MS_PER_BIT - 1 /\ sum' = 0
          /\ time_in_bits' = (time_in_bits + 1) % BITS_IN_WEEK
      BY <1>1, <2>3 DEF LockBit, SumCleared, NextBitTime
    <3>2. sat_bits' = (sat_bits + 1) % BITS_IN_WEEK
      BY <2>1, <3>1 DEF Lock, SatBitsNext
    <3>3. Summed' = 0
      BY <3>1, AcquisitionAssumption DEF Summed
    <3>4. sum' = IF data' = 1 THEN Summed' ELSE 0 - Summed'
      BY <3>1, <3>3
    <3> QED
      BY <2>1, <2>3, <3>1, <3>2, <3>4
  <2> QED
    BY <2>2, <2>3 DEF Lock
<1> QED
  BY <1>1, <1>2, <1>3 DEF SatInv, SignInv

LEMMA SatStep == TypeInv /\ SatInv /\ [Next]_vars => SatInv'
<1> SUFFICES ASSUME TypeInv, SatInv, [Next]_vars PROVE SatInv'
  OBVIOUS
<1>1. CASE MissedDump
  BY <1>1 DEF MissedDump, SatInv, SignInv, AlignInv, LockInv
<1>2. CASE UNCHANGED vars
  BY <1>2
  DEF vars, signVars, epochVars, bitVars, satVars, SatInv, SignInv, AlignInv,
      LockInv, Summed
<1> QED
  BY <1>1, <1>2, SatSearch, SatPullIn, SatLock DEF Next, Dump

\* Until noise or a missed dump interferes, a channel that found the edge of a bit
\* is in step with the satellite for good: its millisecond and epoch counters, the
\* bits it delivers and their number.  A channel is in lock only with an edge.
THEOREM InStepCorrect ==
  Spec => [](BitAligned /\ EpochAligned /\ BitIsSent /\ BitTimeKept)
<1>1. TypeInv /\ SatInv /\ [Next]_vars => (TypeInv /\ SatInv)'
  BY TypeStep, SatStep
<1>2. SatInv => BitAligned /\ EpochAligned /\ BitIsSent /\ BitTimeKept
  BY DEF SatInv, AlignInv, LockInv, BitAligned, EpochAligned, BitIsSent, BitTimeKept
<1> QED
  BY TypeInit, SatInit, <1>1, <1>2, PTL DEF Spec

\* The millisecond counter of a channel with bit sync is the satellite's.
THEOREM BitAlignedCorrect == Spec => []BitAligned
  BY InStepCorrect, PTL

\* So is the epoch counter, once it was loaded.
THEOREM EpochAlignedCorrect == Spec => []EpochAligned
  BY InStepCorrect, PTL

\* A channel in lock delivers the bit that the satellite has just sent.
THEOREM BitIsSentCorrect == Spec => []BitIsSent
  BY InStepCorrect, PTL


-----------------------------------------------------------------------------
(* The search.  Each bin that it is through with was searched at the       *)
(* CODE_PHASES code offsets before one of them, the present bin at the     *)
(* codephase offsets before the present one.                               *)

\* The offset k slews before o.
Back(o, k) == IF k <= o THEN o - k ELSE o - k + CODE_LENGTH

\* The bin that search bin n is in: 0, 0, 1, -1, 2, -2, ... for n = 0, 1, ...
BinOf(n) == IF n = 0 THEN 0 ELSE BinAfter(n - 1)

Through(b, o) == \A k \in 1 .. CODE_PHASES : <<b, Back(o, k)>> \in searched

Done(b) == \E o \in 0 .. CODE_LENGTH - 1 : Through(b, o)

\* The last bin on the left is the one at which the search ends.
LastUnsearched == \A p \in searched : p[1] # -HalfWidth

SearchInv ==
  state \in {"ACQUISITION", "CONFIRM"} =>
    /\ bin = BinOf(n_freq)
    /\ \A k \in 1 .. codephase : <<bin, Back(offset, k)>> \in searched
    /\ \A n \in 0 .. n_freq - 1 : Done(BinOf(n))

LEMMA BackRange ==
  ASSUME NEW o \in 0 .. CODE_LENGTH - 1, NEW k \in 1 .. CODE_PHASES
  PROVE  Back(o, k) \in 0 .. CODE_LENGTH - 1
  BY AcquisitionAssumption DEF Back

LEMMA BackInjective ==
  ASSUME NEW o \in 0 .. CODE_LENGTH - 1, NEW k \in 1 .. CODE_PHASES,
         NEW j \in 1 .. CODE_PHASES, Back(o, k) = Back(o, j)
  PROVE  k = j
  BY AcquisitionAssumption DEF Back

\* A slew makes the present offset the one before.
LEMMA Slew ==
  ASSUME NEW o \in 0 .. CODE_LENGTH - 1, NEW k \in 1 .. CODE_PHASES
  PROVE  /\ (o + 1) % CODE_LENGTH \in 0 .. CODE_LENGTH - 1
         /\ Back((o + 1) % CODE_LENGTH, k) = IF k = 1 THEN o ELSE Back(o, k - 1)
<1>1. (o + 1) % CODE_LENGTH = IF o = CODE_LENGTH - 1 THEN 0 ELSE o + 1
  BY WrapNext, AcquisitionAssumption
<1> QED
  BY <1>1, AcquisitionAssumption DEF Back

\* Nothing that was tested is forgotten.
LEMMA DoneKept ==
  ASSUME searched \subseteq searched', NEW b, Done(b)
  PROVE  Done(b)'
<1>1. PICK o \in 0 .. CODE_LENGTH - 1 : Through(b, o)
  BY DEF Done
<1>2. Through(b, o)'
  BY <1>1 DEF Through, Back
<1> QED
  BY <1>2 DEF Done

LEMMA MissSearch ==
  ASSUME TypeInv, SearchInv, AcquireMiss PROVE SearchInv'
<1>1. /\ n_freq \in 0 .. CarrSrchWidth + 1 /\ codephase \in 0 .. CODE_PHASES - 1
      /\ offset \in 0 .. CODE_LENGTH - 1 /\ state' = state /\ state = "ACQUISITION"
      /\ searched' = searched \cup {<<bin, offset>>}
      /\ offset' = (offset + 1) % CODE_LENGTH
  BY DEF TypeInv, TypeOK, AcquireMiss
<1>2. \A n \in 0 .. n_freq - 1 : Done(BinOf(n))'
  BY <1>1, DoneKept DEF SearchInv
<1>3. \A k \in 1 .. codephase + 1 : <<bin, Back(offset', k)>> \in searched'
  <2> SUFFICES ASSUME NEW k \in 1 .. codephase + 1
               PROVE  <<bin, Back(offset', k)>> \in searched'
    OBVIOUS
  <2>1. k \in 1 .. CODE_PHASES
    BY <1>1, AcquisitionAssumption
  <2>2. Back(offset', k) = IF k = 1 THEN offset ELSE Back(offset, k - 1)
    BY <1>1, <2>1, Slew
  <2>3. CASE k = 1
    BY <1>1, <2>2, <2>3
  <2>4. CASE k # 1
    <3>1. k - 1 \in 1 .. codephase
      BY <1>1, <2>4
    <3>2. <<bin, Back(offset, k - 1)>> \in searched
      BY <1>1, <3>1 DEF SearchInv
    <3> QED
      BY <1>1, <2>2, <2>4, <3>2
  <2> QED
    BY <2>3, <2>4
<1>4. CASE codephase' = codephase + 1 /\ UNCHANGED <<n_freq, bin>>
  <2>1. bin' = BinOf(n_freq)'
    BY <1>1, <1>4 DEF SearchInv, BinOf, BinAfter
  <2>2. (\A k \in 1 .. codephase : <<bin, Back(offset, k)>> \in searched)'
    BY <1>3, <1>4 DEF Back
  <2>3. (\A n \in 0 .. n_freq - 1 : Done(BinOf(n)))'
    BY <1>2, <1>4
  <2> QED
    BY <2>1, <2>2, <2>3 DEF SearchInv
<1>5. CASE /\ codephase + 1 >= CODE_PHASES /\ codephase' = 0
           /\ bin' = BinAfter(n_freq) /\ n_freq' = NextBin
  <2>1. n_freq' = n_freq + 1
    BY <1>5 DEF NextBin
  <2>2. bin' = BinOf(n_freq')
    BY <1>1, <1>5, <2>1 DEF BinOf
  <2>3. ASSUME NEW n, n = n_freq PROVE Done(BinOf(n))'
    <3>1. offset' \in 0 .. CODE_LENGTH - 1
      <4>1. 1 \in 1 .. CODE_PHASES
        BY AcquisitionAssumption
      <4> QED
        BY <1>1, <4>1, Slew
    <3>2. bin = BinOf(n)
      BY <1>1, <2>3 DEF SearchInv
    <3>3. codephase + 1 = CODE_PHASES
      BY <1>1, <1>5, AcquisitionAssumption
    <3>4. PICK o \in 0 .. CODE_LENGTH - 1 : o = offset'
      BY <3>1
    <3>5. Through(BinOf(n), o)'
      BY <1>3, <3>2, <3>3, <3>4 DEF Through, Back
    <3> QED
      BY <3>5 DEF Done
  <2>4. \A n \in 0 .. n_freq' - 1 : Done(BinOf(n))'
    BY <1>1, <1>2, <2>1, <2>3
  <2> QED
    BY <1>5, <2>2, <2>4 DEF SearchInv
<1> QED
  BY <1>4, <1>5 DEF AcquireMiss

LEMMA SearchStep == TypeInv /\ SearchInv /\ [Next]_vars => SearchInv'
<1> SUFFICES ASSUME TypeInv, SearchInv, [Next]_vars PROVE SearchInv'
  OBVIOUS
<1>1. CASE AcquireMiss
  BY <1>1, MissSearch
<1>2. CASE Start
  BY <1>2 DEF Start, SearchInv, BinOf
<1>3. ASSUME state' \notin {"ACQUISITION", "CONFIRM"} PROVE SearchInv'
  BY <1>3 DEF SearchInv
<1>4. ASSUME state \in {"ACQUISITION", "CONFIRM"},
             UNCHANGED <<n_freq, codephase, bin, offset>>,
             searched \subseteq searched'
      PROVE  SearchInv'
  <2>1. \A b : Done(b) => Done(b)'
    BY <1>4, DoneKept
  <2>2. \A k : Back(offset, k)' = Back(offset, k)
    BY <1>4 DEF Back
  <2>3. \A n : BinOf(n)' = BinOf(n)
    BY DEF BinOf, BinAfter
  <2> QED
    BY <1>4, <2>1, <2>2, <2>3 DEF SearchInv
<1>5. CASE AcquireHit
  BY <1>4, <1>5 DEF AcquireHit
<1>6. CASE AcquireGiveUp \/ ConfirmPullIn
  BY <1>3, <1>6 DEF AcquireGiveUp, ConfirmPullIn
<1>7. CASE ConfirmMore \/ ConfirmFail
  BY <1>4, <1>7 DEF ConfirmMore, ConfirmFail, searchVars
<1>8. CASE Idle \/ (\E q \in -1 .. 1 : PullIn(q) \/ Lock(q)) \/ MissedDump
  <2>1. state' \notin {"ACQUISITION", "CONFIRM"}
    BY <1>8 DEF Idle, PullIn, Lock, LockSum, LockBit, MissedDump
  <2> QED
    BY <1>3, <2>1
<1>9. CASE UNCHANGED vars
  <2>1. CASE state \in {"ACQUISITION", "CONFIRM"}
    BY <1>4, <1>9, <2>1 DEF vars, searchVars
  <2>2. CASE state \notin {"ACQUISITION", "CONFIRM"}
    BY <1>3, <1>9, <2>2 DEF vars
  <2> QED
    BY <2>1, <2>2
<1> QED
  BY <1>1, <1>2, <1>5, <1>6, <1>7, <1>8, <1>9 DEF Next, Dump, Acquire, Confirm

\* A bin that the search is through with was searched at CODE_PHASES offsets.
LEMMA OffsetsSearched ==
  ASSUME TypeInv, NEW b, Done(b)
  PROVE  Covered(b)
<1> DEFINE S == {p \in searched : p[1] = b}
           P == 1 .. CODE_PHASES
<1>1. PICK o \in 0 .. CODE_LENGTH - 1 : Through(b, o)
  BY DEF Done
<1> DEFINE f == [k \in P |-> <<b, Back(o, k)>>]
<1>2. IsFiniteSet(S)
  <2> DEFINE B == -HalfWidth .. HalfWidth + 1
             O == 0 .. CODE_LENGTH - 1
  <2>1. HalfWidth \in Int /\ CODE_LENGTH \in Int
    BY AcquisitionAssumption DEF HalfWidth
  <2>2. IsFiniteSet(B) /\ IsFiniteSet(O)
    <3>1. -HalfWidth \in Int /\ HalfWidth + 1 \in Int /\ CODE_LENGTH - 1 \in Int
      BY <2>1
    <3> QED
      BY <3>1, FS_Interval
  <2>3. S \in SUBSET (B \X O)
    BY DEF TypeInv, TypeOK
  <2> HIDE DEF S, B, O
  <2>4. IsFiniteSet(B \X O)
    BY <2>2, FS_Product
  <2> QED
    BY <2>3, <2>4, FS_Subset
<1>3. f \in Injection(P, S)
  <2>1. f \in [P -> S]
    BY <1>1 DEF Through
  <2>2. \A k, j \in P : f[k] = f[j] => k = j
    BY BackInjective
  <2> HIDE DEF f, S
  <2> QED
    BY <2>1, <2>2 DEF Injection, IsInjective
<1>4. Cardinality(P) = CODE_PHASES
  BY FS_Interval, AcquisitionAssumption
<1>5. Cardinality(P) <= Cardinality(S) /\ Cardinality(S) \in Nat
  <2> HIDE DEF f, S, P
  <2> QED
    BY <1>2, <1>3, FS_Injection, FS_CardinalityType
<1> QED
  BY <1>4, <1>5, AcquisitionAssumption DEF Covered

\* Every bin inside the width, but for the last on the left, is the one of some search bin.
LEMMA EveryBin ==
  ASSUME NEW b \in (1 - HalfWidth) .. HalfWidth
  PROVE  \E n \in 0 .. CarrSrchWidth : BinOf(n) = b
<1>1. HalfWidth \in Nat /\ 2 * HalfWidth <= CarrSrchWidth
  BY AcquisitionAssumption DEF HalfWidth
<1> DEFINE m == IF b > 0 THEN 2 * b - 1 ELSE -2 * b
<1>2. m \in Nat /\ m + 1 \in 0 .. CarrSrchWidth /\ BinAfter(m) = b
  <2>1. b \in Int /\ b <= HalfWidth /\ b >= 1 - HalfWidth
    BY <1>1
  <2>2. m \in Nat /\ m + 1 \in 0 .. CarrSrchWidth
    BY <1>1, <2>1, AcquisitionAssumption
  <2>3. CASE b > 0
    <3>1. m % 2 = 1 /\ m \div 2 = b - 1
      BY <2>1, <2>3
    <3> HIDE DEF m
    <3> QED
      BY <2>1, <2>2, <3>1 DEF BinAfter
  <2>4. CASE b <= 0
    <3>1. m % 2 = 0 /\ m \div 2 = -b
      BY <2>1, <2>4
    <3> HIDE DEF m
    <3> QED
      BY <2>1, <2>2, <3>1 DEF BinAfter
  <2> QED
    BY <2>1, <2>2, <2>3, <2>4
<1> HIDE DEF m
<1>3. BinOf(m + 1) = b
  BY <1>2 DEF BinOf
<1> QED
  BY <1>2, <1>3

\* The last bin on the left is that of no search bin inside the width.
LEMMA LastBin ==
  ASSUME NEW n \in 0 .. CarrSrchWidth
  PROVE  BinOf(n) # -HalfWidth
<1>1. /\ CarrSrchWidth \in Nat /\ HalfWidth \in Nat /\ HalfWidth >= 1
      /\ CarrSrchWidth = 2 * HalfWidth
  BY AcquisitionAssumption DEF HalfWidth
<1>2. CASE n = 0
  BY <1>1, <1>2 DEF BinOf
<1>3. CASE n # 0
  <2> DEFINE m == n - 1
  <2>1. m \in Nat /\ m < 2 * HalfWidth
    BY <1>1, <1>3
  <2>2. BinOf(n) = BinAfter(m)
    BY <1>3 DEF BinOf
  <2> HIDE DEF m
  <2>3. CASE m % 2 = 1
    BY <1>1, <2>1, <2>2, <2>3 DEF BinAfter
  <2>4. CASE m % 2 = 0
    <3>1. m \div 2 < HalfWidth /\ m \div 2 \in Nat
      BY <1>1, <2>1, <2>4
    <3> QED
      BY <1>1, <2>2, <2>4, <3>1 DEF BinAfter
  <2> QED
    BY <2>1, <2>3, <2>4
<1> QED
  BY <1>2, <1>3

LEMMA LastStep ==
  ASSUME TypeInv, SearchInv, LastUnsearched, [Next]_vars
  PROVE  LastUnsearched'
<1> USE DEF LastUnsearched
<1>1. CASE AcquireHit \/ AcquireMiss
  <2>1. /\ state = "ACQUISITION" /\ n_freq <= CarrSrchWidth
        /\ searched' = searched \cup {<<bin, offset>>}
    BY <1>1 DEF AcquireHit, AcquireMiss, WithinWidth
  <2>2. n_freq \in 0 .. CarrSrchWidth /\ bin = BinOf(n_freq)
    BY <2>1, AcquisitionAssumption DEF TypeInv, TypeOK, SearchInv
  <2>3. bin # -HalfWidth
    BY <2>2, LastBin
  <2> QED
    BY <2>1, <2>3 DEF HalfWidth
<1>2. CASE Start
  BY <1>2 DEF Start
<1>3. ASSUME searched' = searched PROVE LastUnsearched'
  BY <1>3 DEF HalfWidth
<1>4. CASE AcquireGiveUp \/ Confirm \/ Idle \/ MissedDump \/ UNCHANGED vars
  BY <1>3, <1>4 DEF AcquireGiveUp, Confirm, ConfirmMore, ConfirmFail, ConfirmPullIn,
                    Idle, MissedDump, vars, searchVars
<1>5. CASE \E q \in -1 .. 1 : PullIn(q) \/ Lock(q)
  BY <1>3, <1>5 DEF PullIn, Lock, searchVars
<1> QED
  BY <1>1, <1>2, <1>4, <1>5 DEF Next, Dump, Acquire

LEMMA GiveUpCovers ==
  ASSUME TypeInv, SearchInv, LastUnsearched, [Next]_vars, GivesUp
  PROVE  {b \in -HalfWidth .. HalfWidth : Covered(b)} = (1 - HalfWidth) .. HalfWidth
<1>1. AcquireGiveUp
  BY DEF GivesUp, Next, Dump, Start, Idle, Acquire, AcquireHit, AcquireMiss,
         Confirm, ConfirmMore, ConfirmFail, ConfirmPullIn, PullIn, Lock, LockSum,
         LockBit, MissedDump, vars
<1>2. n_freq \in Int /\ CarrSrchWidth \in Nat /\ n_freq > CarrSrchWidth
  BY <1>1, AcquisitionAssumption DEF AcquireGiveUp, WithinWidth, TypeInv, TypeOK
<1>3. ASSUME NEW b \in (1 - HalfWidth) .. HalfWidth PROVE Covered(b)
  <2>1. PICK n \in 0 .. CarrSrchWidth : BinOf(n) = b
    BY EveryBin
  <2>2. state = "ACQUISITION"
    BY DEF GivesUp
  <2>3. Done(b)
    BY <1>2, <2>1, <2>2 DEF SearchInv
  <2> QED
    BY <2>3, OffsetsSearched
<1>4. ~Covered(-HalfWidth)
  <2>1. {p \in searched : p[1] = -HalfWidth} = {}
    BY DEF LastUnsearched
  <2>2. Cardinality({p \in searched : p[1] = -HalfWidth}) = 0
    BY <2>1, FS_EmptySet
  <2> QED
    BY <2>2, AcquisitionAssumption DEF Covered
<1>5. HalfWidth \in Nat /\ HalfWidth >= 1
  BY AcquisitionAssumption DEF HalfWidth
<1> HIDE DEF Covered
<1>6. \A b \in -HalfWidth .. HalfWidth :
        b = -HalfWidth \/ b \in (1 - HalfWidth) .. HalfWidth
  BY <1>5
<1>7. (1 - HalfWidth) .. HalfWidth \subseteq -HalfWidth .. HalfWidth
  BY <1>5
<1> QED
  BY <1>3, <1>4, <1>6, <1>7, Zenon

\* acquire() gives its satellite up after a search of every bin from HalfWidth - 1
\* steps on the left of CARRIER_REF to HalfWidth on the right, whatever the widths
\* and however many false hits there were, and never with one of the last bin on
\* the left, which tracking.c:289 and 399 promise too.
THEOREM SearchCoversCorrect == Spec => SearchCovers
<1>1. Init => SearchInv /\ LastUnsearched
  BY DEF Init, SearchInv, LastUnsearched
<1>2. TypeInv /\ SearchInv /\ LastUnsearched /\ [Next]_vars
        => [GivesUp => {b \in -HalfWidth .. HalfWidth : Covered(b)}
                         = (1 - HalfWidth) .. HalfWidth]_vars
  BY GiveUpCovers
<1>3. TypeInv /\ SearchInv /\ LastUnsearched /\ [Next]_vars => LastUnsearched'
  BY LastStep
<1> QED
  BY TypeInit, TypeStep, SearchStep, <1>1, <1>2, <1>3, PTL DEF Spec, SearchCovers

-----------------------------------------------------------------------------
(* The channel implements BitStream.                                       *)

LEMMA StreamInit == Init => BS!Init
  BY AcquisitionAssumption DEF Init, BS!Init

LEMMA StreamSearch ==
  ASSUME TypeInv, SatInv', Start \/ Idle \/ Acquire \/ Confirm
  PROVE  BS!Next
<1>1. CASE Start
  BY <1>1 DEF Start, BS!Next, BS!Start
<1>2. CASE Idle
  BY <1>2 DEF Idle, satVars, BS!Next, BS!Idle
<1>3. CASE Acquire \/ Confirm
  <2>1. /\ state \in {"ACQUISITION", "CONFIRM"}
        /\ state' \in {"OFF", "ACQUISITION", "CONFIRM", "PULL_IN"}
        /\ nav_bit_ready' = FALSE /\ UNCHANGED time_in_bits
        /\ disturbed' = disturbed \/ disturbed' = FALSE
    BY <1>3 DEF Acquire, AcquireHit, AcquireMiss, AcquireGiveUp, Confirm, ConfirmMore,
                ConfirmFail, ConfirmPullIn, SearchFrame
  <2>2. disturbed' \in BOOLEAN
    BY <2>1, Zenon DEF TypeInv, TypeOK
  <2> QED
    BY <2>1, <2>2 DEF BS!Next, BS!Search
<1> QED
  BY <1>1, <1>2, <1>3

LEMMA StreamPullIn ==
  ASSUME TypeInv, TypeInv', SatInv', NEW q \in -1 .. 1, PullIn(q)
  PROVE  BS!Search
<1>1. /\ state = "PULL_IN" /\ state' \in {"PULL_IN", "OFF", "LOCK"}
      /\ nav_bit_ready' = FALSE /\ UNCHANGED time_in_bits
  BY DEF PullIn
<1>2. disturbed' \in BOOLEAN
  BY DEF TypeInv, TypeOK
<1>3. state' = "LOCK" => phase' = MS_PER_BIT - 1 \/ disturbed'
  <2> SUFFICES ASSUME state' = "LOCK", ~disturbed' PROVE phase' = MS_PER_BIT - 1
    OBVIOUS
  <2>1. ms_count' = MS_PER_BIT - 1
    BY DEF PullIn, PullInOver
  <2>2. ms_count' = phase'
    BY DEF SatInv, AlignInv, LockInv
  <2> QED
    BY <2>1, <2>2
<1> QED
  BY <1>1, <1>2, <1>3 DEF BS!Search

LEMMA StreamLock ==
  ASSUME TypeInv, SatInv, NEW q \in -1 .. 1, Lock(q)
  PROVE  BS!Inside \/ BS!Deliver
<1>1. /\ phase' = IF phase = MS_PER_BIT - 1 THEN 0 ELSE phase + 1
      /\ phase' # 0 => data' = data
      /\ phase \in Nat
  BY SatNextMs DEF Lock
<1>2. state = "LOCK" /\ ms_count' = NextCount
  BY DEF Lock, LockSum, LockBit
<1>3. disturbed' \in {disturbed, TRUE}
  BY DEF Lock, Signal, TypeInv, TypeOK
<1>4. BS!Satellite
  BY <1>3 DEF BS!Satellite
<1>5. ~disturbed' => ms_count' = phase'
  BY LockDump
<1>6. CASE LockSum(q)
  <2>1. nav_bit_ready' = FALSE /\ state' = state /\ UNCHANGED time_in_bits
    BY <1>6 DEF LockSum
  <2>2. ~disturbed' => phase' # MS_PER_BIT - 1 /\ (phase = MS_PER_BIT - 1 \/ data' = data)
    BY <1>1, <1>2, <1>5, <1>6 DEF LockSum
  <2> QED
    BY <1>2, <1>4, <2>1, <2>2 DEF BS!Inside
<1>7. CASE LockBit(q)
  <2>1. /\ nav_bit_ready' /\ state' \in {"LOCK", "OFF"} /\ bit' \in BOOLEAN
        /\ time_in_bits' = (time_in_bits + 1) % BITS_IN_WEEK
    BY <1>7 DEF LockBit, NextBitTime
  <2>2. ~disturbed' => /\ phase' = MS_PER_BIT - 1 /\ phase # MS_PER_BIT - 1
                       /\ data' = data /\ bit' = (data = 1)
    <3> SUFFICES ASSUME ~disturbed'
                 PROVE  /\ phase' = MS_PER_BIT - 1 /\ phase # MS_PER_BIT - 1
                        /\ data' = data /\ bit' = (data = 1)
      OBVIOUS
    <3>1. phase' = MS_PER_BIT - 1
      BY <1>2, <1>5, <1>7 DEF LockBit
    <3>2. phase # MS_PER_BIT - 1 /\ data' = data
      BY <1>1, <3>1, AcquisitionAssumption
    <3> QED
      BY <1>7, <3>1, <3>2, LockDump
  <2> QED
    BY <1>2, <1>4, <2>1, <2>2 DEF BS!Deliver
<1> QED
  BY <1>6, <1>7 DEF Lock

LEMMA StreamMissed == ASSUME TypeInv, MissedDump PROVE BS!Miss
<1>1. /\ state' = state /\ state \in {"PULL_IN", "LOCK"} /\ disturbed' = TRUE
      /\ UNCHANGED <<nav_bit_ready, bit, time_in_bits>>
  BY DEF MissedDump, bitVars
<1> QED
  BY <1>1 DEF BS!Miss, BS!Satellite

LEMMA StreamStep ==
  TypeInv /\ TypeInv' /\ SatInv /\ SatInv' /\ [Next]_vars => [BS!Next]_(BS!vars)
<1> SUFFICES ASSUME TypeInv, TypeInv', SatInv, SatInv', [Next]_vars
             PROVE  [BS!Next]_(BS!vars)
  OBVIOUS
<1>1. CASE UNCHANGED vars
  BY <1>1 DEF vars, bitVars, satVars, BS!vars
<1>2. CASE \E q \in -1 .. 1 : PullIn(q)
  BY <1>2, StreamPullIn DEF BS!Next
<1>3. CASE \E q \in -1 .. 1 : Lock(q)
  BY <1>3, StreamLock DEF BS!Next
<1>4. CASE MissedDump
  BY <1>4, StreamMissed DEF BS!Next
<1> QED
  BY <1>1, <1>2, <1>3, <1>4, StreamSearch DEF Next, Dump

\* The tracking DSR keeps its promise to the threads above: bits of the message come
\* right, once each, counted, and only in lock, until noise or a missed dump.
THEOREM AcquisitionImplementsBitStream == Spec => BitStreamSpec
  BY TypeInit, TypeStep, SatInit, SatStep, StreamInit, StreamStep, PTL
  DEF Spec, BitStreamSpec, BS!Spec
=============================================================================
