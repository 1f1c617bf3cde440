-------------------------- MODULE AllocationProofs --------------------------
(* Proofs about Allocation, for every number of channels and satellites and  *)
(* every length of the week and of the relock window.                        *)
EXTENDS Allocation, TLAPS

LEMMA AfterIsPrn == ASSUME NEW n \in 0 .. MAX_PRN PROVE After(n) \in Prn
  BY AllocationAssumption DEF After, Prn

\* While the thread picks a satellite, the channel it picks for stays off: the DSR
\* never turns a channel on.
PickInv == pc = "pick" => ch \in Ch /\ state[ch] = "OFF"

TypeInv == TypeOK /\ PickInv

LEMMA TypeInit == Init => TypeInv
<1> SUFFICES ASSUME Init PROVE TypeOK /\ PickInv
  BY DEF TypeInv
<1>1. 0 \in Time /\ RELOCK \in 0 .. RELOCK /\ 0 \in 0 .. RELOCK
      /\ 0 \in 0 .. MAX_PRN /\ 0 \in 0 .. N_CHANNELS /\ {} \in SUBSET Ch
  BY AllocationAssumption DEF Time
<1> QED
  BY <1>1, AllocationAssumption DEF Init, TypeOK, PickInv

LEMMA OlderType ==
  ASSUME NEW age \in 0 .. RELOCK
  PROVE  Older(age) \in 0 .. RELOCK /\ Older(age) >= age
  BY AllocationAssumption DEF Older

LEMMA TypeInterrupt ==
  ASSUME TypeInv,
         (\E c \in Ch : Tracking(c)) \/ TrackingFlags \/ Second \/ set_time_with_tow
  PROVE  TypeInv'
<1> USE DEF TypeInv, TypeOK, PickInv, channelVars, clockVars, lockVars, threadVars,
            passVars, Interrupt
<1>1. CASE \E c \in Ch : Tracking(c)
  <2>1. PICK c \in Ch : Tracking(c)
    BY <1>1
  <2>2. state' \in [Ch -> {"OFF", "SEARCH", "LOCK"}]
    BY <2>1 DEF Tracking
  <2>3. last_lock' \in [Ch -> Nat] /\ since_lock' \in [Ch -> 0 .. RELOCK]
    BY <2>1, AllocationAssumption DEF Tracking, channel_locked, Time
  <2>4. allocate_flag' \in SUBSET Ch
    BY <2>1 DEF Tracking, FlagAllOff, Off
  <2>5. PickInv'
    BY <2>1 DEF Tracking
  <2>6. turned_off' \in SUBSET Ch
    BY <2>1 DEF Tracking
  <2> QED
    BY <2>1, <2>2, <2>3, <2>4, <2>5, <2>6 DEF Tracking
<1>2. CASE TrackingFlags
  BY <1>2 DEF TrackingFlags, FlagAllOff, Off
<1>3. CASE Second
  <2>1. time' \in Time
    BY <1>3, AllocationAssumption DEF Second, Time
  <2>2. since_lock' \in [Ch -> 0 .. RELOCK]
    BY <1>3, OlderType DEF Second
  <2>3. now_age' \in 0 .. RELOCK
    BY <1>3, OlderType, AllocationAssumption DEF Second
  <2> QED
    BY <1>3, <2>1, <2>2, <2>3 DEF Second
<1>4. CASE set_time_with_tow
  BY <1>4, AllocationAssumption DEF set_time_with_tow
<1> QED
  BY <1>1, <1>2, <1>3, <1>4

LEMMA TypeAllocate == ASSUME TypeInv, Allocate PROVE TypeInv'
<1> USE DEF TypeInv, TypeOK, PickInv, channelVars, clockVars, lockVars, threadVars
<1>0. disturbed' \in BOOLEAN /\ now_age' \in 0 .. RELOCK /\ turned_off' \in SUBSET Ch
  BY AllocationAssumption
  DEF Allocate, AllocateWake, AllocateRestart, AllocateSecondLoop, AllocateCold,
      AllocateDone, AllocatePick, passVars
<1>1. CASE AllocateWake
  BY <1>0, <1>1, AllocationAssumption DEF AllocateWake, Time
<1>2. CASE AllocateRestart
  <2>1. ch \in Ch /\ ch' \in 0 .. N_CHANNELS
    BY <1>2, AllocationAssumption DEF AllocateRestart, Ch
  <2>2. last_lock[ch] \in Nat
    BY <2>1
  <2>3. NowFor(ch) \in Nat
    BY <2>2, AllocationAssumption DEF NowFor
  <2>4. now' \in Nat
    BY <1>2, <2>3 DEF AllocateRestart
  <2>5. /\ state' \in [Ch -> {"OFF", "SEARCH", "LOCK"}]
        /\ last_lock' \in [Ch -> Nat] /\ since_lock' \in [Ch -> 0 .. RELOCK]
    BY <1>2, AllocationAssumption DEF AllocateRestart, restart_channel
  <2> QED
    BY <1>0, <1>2, <2>1, <2>4, <2>5 DEF AllocateRestart
<1>3. CASE AllocateSecondLoop
  BY <1>0, <1>3, AllocationAssumption DEF AllocateSecondLoop
<1>4. CASE AllocateCold
  <2>1. ch \in Ch /\ ch + 1 \in 0 .. N_CHANNELS
    BY <1>4, AllocationAssumption DEF AllocateCold, Ch
  <2>2. CASE pc' = "pick"
    BY <1>0, <1>4, <2>1, <2>2 DEF AllocateCold, FromTheLast, IsOff
  <2>3. CASE pc' # "pick"
    BY <1>0, <1>4, <2>1, <2>3 DEF AllocateCold, FromTheLast, IsOff
  <2> QED
    BY <2>2, <2>3
<1>5. CASE AllocateDone
  BY <1>0, <1>5 DEF AllocateDone
<1>6. CASE AllocatePick
  <2>1. next_satellite' \in Prn
    BY <1>6, AfterIsPrn DEF AllocatePick
  <2>2. prn' \in [Ch -> Prn] /\ state' \in [Ch -> {"OFF", "SEARCH", "LOCK"}]
    BY <1>6, <2>1 DEF AllocatePick
  <2>3. ch' \in 0 .. N_CHANNELS
    BY <1>6, AllocationAssumption DEF AllocatePick, Ch
  <2> QED
    BY <1>0, <1>6, <2>1, <2>2, <2>3 DEF AllocatePick, Prn
<1> QED
  BY <1>1, <1>2, <1>3, <1>4, <1>5, <1>6 DEF Allocate

LEMMA TypeStep == TypeInv /\ [Next]_vars => TypeInv'
<1> SUFFICES ASSUME TypeInv, [Next]_vars PROVE TypeInv'
  OBVIOUS
<1>1. CASE UNCHANGED vars
  BY <1>1 DEF TypeInv, TypeOK, PickInv, vars
<1> QED
  BY <1>1, TypeInterrupt, TypeAllocate DEF Next

\* Every variable keeps its type; in particular the search never leaves the
\* satellites 1 to 32, though it adds one to next_satellite twice in a turn.
THEOREM TypeCorrect == Spec => []TypeOK
<1>1. TypeInv => TypeOK
  BY DEF TypeInv
<1> QED
  BY TypeInit, TypeStep, <1>1, PTL DEF Spec

\* However the interrupts interleave with the allocate thread, it takes a channel
\* away from its satellite only when the channel is off.
THEOREM OnlyOffIsReassignedCorrect == Spec => OnlyOffIsReassigned
<1>1. TypeInv /\ [Next]_vars
        => [\A c \in Ch : state[c] # "OFF" => prn'[c] = prn[c]]_vars
  <2> SUFFICES ASSUME TypeInv, [Next]_vars, NEW c \in Ch, state[c] # "OFF"
               PROVE  prn'[c] = prn[c]
    OBVIOUS
  <2>1. CASE AllocatePick
    BY <2>1 DEF AllocatePick, TypeInv, TypeOK, PickInv, channelVars
  <2>2. CASE ~AllocatePick
    BY <2>2
    DEF Next, Tracking, TrackingFlags, Second, set_time_with_tow, Allocate,
        AllocateWake, AllocateRestart, AllocateSecondLoop, AllocateCold,
        AllocateDone, channelVars, vars
  <2> QED
    BY <2>1, <2>2
<1> QED
  BY TypeInit, TypeStep, <1>1, PTL DEF Spec, OnlyOffIsReassigned

-----------------------------------------------------------------------------
(* Without interrupts during a pass of the allocate thread.                *)

\* Between passes all channels, the off ones too, have satellites of their own;
\* during the second loop the channels that are on do, and those passed are on.
DistinctInv ==
  /\ pc \in {"wait", "restart"} =>
       \A i, j \in Ch : i # j => prn[i] # prn[j]
  /\ pc \in {"cold", "pick"} =>
       DistinctPrn /\ \A j \in Ch : j < ch => state[j] # "OFF"

LEMMA DistinctInit == Init => DistinctInv
  BY AllocationAssumption DEF Init, DistinctInv

LEMMA DistinctStep ==
  ASSUME TypeInv, DistinctInv, [Next]_vars, ~disturbed'
  PROVE  DistinctInv'
<1> USE DEF DistinctInv, DistinctPrn
<1>1. CASE (\E c \in Ch : Tracking(c)) \/ TrackingFlags \/ Second \/ set_time_with_tow
  BY <1>1
  DEF Interrupt, Tracking, TrackingFlags, Second, set_time_with_tow,
      channelVars, threadVars
<1>2. CASE AllocateWake
  BY <1>2 DEF AllocateWake, channelVars
<1>3. CASE AllocateRestart
  BY <1>3 DEF AllocateRestart
<1>4. CASE AllocateSecondLoop
  BY <1>4 DEF AllocateSecondLoop, Ch, channelVars
<1>5. CASE AllocateCold
  <2>1. ch \in Ch
    BY <1>5, AllocationAssumption DEF AllocateCold, TypeInv, TypeOK, Ch
  <2>2. \A j \in Ch : j < ch + 1 => j < ch \/ j = ch
    BY <2>1 DEF Ch
  <2> QED
    BY <1>5, <2>1, <2>2 DEF AllocateCold, IsOff, channelVars
<1>6. CASE AllocateDone
  <2>1. \A j \in Ch : j < ch
    BY <1>6, AllocationAssumption DEF AllocateDone, Ch
  <2> QED
    BY <1>6, <2>1 DEF AllocateDone, channelVars
<1>7. CASE AllocatePick
  <2>1. ch \in Ch /\ pc = "pick"
    BY <1>7 DEF AllocatePick, TypeInv, PickInv
  <2>2. CASE AlreadyAllocated(next_satellite')
    BY <1>7, <2>2 DEF AllocatePick, channelVars
  <2>3. CASE ~AlreadyAllocated(next_satellite')
    <3>1. /\ prn' = [prn EXCEPT ![ch] = next_satellite']
          /\ state' = [state EXCEPT ![ch] = "SEARCH"]
          /\ pc' = "cold" /\ ch' = ch + 1
      BY <1>7, <2>3 DEF AllocatePick
    <3>2. \A c \in Ch : c # ch =>
            /\ prn'[c] = prn[c] /\ state'[c] = state[c]
            /\ state[c] # "OFF" => prn[c] # next_satellite'
      BY <2>1, <2>3, <3>1 DEF AlreadyAllocated, TypeInv, TypeOK
    <3>3. prn'[ch] = next_satellite' /\ state'[ch] = "SEARCH"
      BY <2>1, <3>1 DEF TypeInv, TypeOK
    <3>4. \A j \in Ch : j < ch + 1 => j < ch \/ j = ch
      BY <2>1 DEF Ch
    <3>5. DistinctPrn'
      BY <2>1, <3>2, <3>3
    <3>6. \A j \in Ch : j < ch' => state'[j] # "OFF"
      BY <2>1, <3>1, <3>2, <3>3, <3>4
    <3> QED
      BY <3>1, <3>5, <3>6
  <2> QED
    BY <2>2, <2>3
<1>8. CASE UNCHANGED vars
  BY <1>8 DEF vars
<1> QED
  BY <1>1, <1>2, <1>3, <1>4, <1>5, <1>6, <1>7, <1>8 DEF Next, Allocate

\* As long as no interrupt has fallen into a pass of the allocate thread, no
\* satellite is searched or tracked by two channels.
THEOREM DistinctPrnCorrect == Spec => []UndisturbedDistinct
<1> DEFINE SoFarDistinct == ~disturbed => DistinctInv
<1>1. Init => TypeInv /\ SoFarDistinct
  BY TypeInit, DistinctInit
<1>2. TypeInv /\ SoFarDistinct /\ [Next]_vars => (TypeInv /\ SoFarDistinct)'
  <2> SUFFICES ASSUME TypeInv, SoFarDistinct, [Next]_vars, ~disturbed'
               PROVE  DistinctInv'
    BY TypeStep
  <2>1. ~disturbed
    BY DEF Next, Interrupt, Tracking, TrackingFlags, Second, set_time_with_tow,
           Allocate, vars
  <2> QED
    BY <2>1, DistinctStep
<1>3. TypeInv /\ SoFarDistinct => UndisturbedDistinct
  BY DEF TypeInv, TypeOK, DistinctInv, DistinctPrn, UndisturbedDistinct
<1> QED
  BY <1>1, <1>2, <1>3, PTL DEF Spec

-----------------------------------------------------------------------------
(* The dates of the last lock.                                             *)

\* Whole weeks lie between a and b.
WeeksApart(a, b) == \E k \in Int : a = b + k * SECONDS_IN_WEEK

LEMMA Sooner ==
  ASSUME NEW a \in Int, NEW b \in Int, WeeksApart(a, b)
  PROVE  /\ WeeksApart(a + SECONDS_IN_WEEK, b) /\ WeeksApart(a, b + SECONDS_IN_WEEK)
         /\ WeeksApart(a, b - SECONDS_IN_WEEK)
         /\ \A x \in Int : WeeksApart(a + x, b + x)
         /\ a > b => a >= b + SECONDS_IN_WEEK
<1> DEFINE w == SECONDS_IN_WEEK
<1>1. w \in Nat /\ w >= 1
  BY AllocationAssumption
<1>2. PICK k \in Int : a = b + k * w
  BY DEF WeeksApart
<1> HIDE DEF w
<1>3. k * w \in Int /\ (k + 1) * w = k * w + w /\ (k - 1) * w = k * w - w
  BY <1>1, <1>2
<1>4. a + w = b + (k + 1) * w /\ a = (b + w) + (k - 1) * w /\ a = (b - w) + (k + 1) * w
  BY <1>1, <1>2, <1>3
<1>5. \A x \in Int : a + x = (b + x) + k * w
  BY <1>2, <1>3
<1>6. a > b => a >= b + w
  <2> SUFFICES ASSUME a > b PROVE a >= b + w
    OBVIOUS
  <2>1. k * w > 0
    BY <1>2, <1>3
  <2>2. k >= 1
    <3> SUFFICES ASSUME k <= 0 PROVE FALSE
      BY <1>2
    <3>1. (0 - k) * w >= 0 /\ (0 - k) * w = 0 - k * w
      BY <1>1, <1>2
    <3> QED
      BY <2>1, <3>1, <1>3
  <2>3. (k - 1) * w >= 0
    BY <1>1, <2>2
  <2> QED
    BY <1>1, <1>2, <1>3, <2>3
<1> QED
  BY <1>2, <1>4, <1>5, <1>6 DEF WeeksApart, w

LEMMA Later ==
  ASSUME NEW a \in Int, NEW b \in Int, NEW x \in Int, WeeksApart(a, b)
  PROVE  WeeksApart(a + x, b + x)
  BY Sooner

\* Whole weeks apart is an equivalence.
LEMMA Between ==
  ASSUME NEW a \in Int, NEW b \in Int, NEW d \in Int, WeeksApart(a, d), WeeksApart(b, d)
  PROVE  WeeksApart(a, b)
<1> DEFINE w == SECONDS_IN_WEEK
<1>1. w \in Nat
  BY AllocationAssumption
<1>2. PICK i \in Int : a = d + i * w
  BY DEF WeeksApart
<1>3. PICK j \in Int : b = d + j * w
  BY DEF WeeksApart
<1> HIDE DEF w
<1>4. (i - j) * w = i * w - j * w /\ i * w \in Int /\ j * w \in Int
  BY <1>1
<1>5. a = b + (i - j) * w /\ i - j \in Int
  BY <1>2, <1>3, <1>4
<1> QED
  BY <1>5 DEF WeeksApart, w

LEMMA Same == ASSUME NEW a \in Int PROVE WeeksApart(a, a)
<1>1. a = a + 0 * SECONDS_IN_WEEK
  BY AllocationAssumption
<1> QED
  BY <1>1 DEF WeeksApart

\* The first loop is done with the channel.
Passed(c) == pc \in {"cold", "pick"} \/ (pc = "restart" /\ c < ch)

\* Off since the pass began.
OffAllPass(c) == pc # "wait" /\ state[c] = "OFF" /\ c \notin turned_off

Recent(c) == since_lock[c] < RELOCK

\* What a recent lock is dated with is its time, and now the time when it was read,
\* but for whole weeks; a channel off all pass was lost before now was read; and if
\* the first loop passed one lost lately, then because now is a week too late.
DatesRight ==
  \A c \in Ch : Recent(c) => WeeksApart(last_lock[c] + since_lock[c], time)

NowRight == pc # "wait" /\ now_age < RELOCK => WeeksApart(now + now_age, time)

OffBefore == \A c \in Ch : OffAllPass(c) => since_lock[c] >= now_age

PassedLate ==
  \A c \in Ch : OffAllPass(c) /\ Passed(c) /\ Recent(c)
                 => now >= SECONDS_IN_WEEK + last_lock[c]

StaleInv == DatesRight /\ NowRight /\ OffBefore /\ PassedLate

NoClock == ~has_clock => \A c \in Ch : since_lock[c] = RELOCK

LEMMA StaleTypes ==
  ASSUME TypeInv
  PROVE  /\ time \in Int /\ now \in Nat /\ RELOCK \in Nat
         /\ now_age \in 0 .. RELOCK /\ turned_off \in SUBSET Ch
         /\ SECONDS_IN_WEEK \in Nat /\ SECONDS_IN_WEEK >= 1
         /\ last_lock \in [Ch -> Nat] /\ since_lock \in [Ch -> 0 .. RELOCK]
         /\ time \in 0 .. SECONDS_IN_WEEK - 1
         /\ Ch \subseteq Nat
         /\ state \in [Ch -> {"OFF", "SEARCH", "LOCK"}]
  BY AllocationAssumption DEF TypeInv, TypeOK, Time, Ch

LEMMA NoClockStep == TypeInv /\ NoClock /\ [Next]_vars => NoClock'
<1> SUFFICES ASSUME TypeInv, NoClock, [Next]_vars, ~has_clock', NEW c \in Ch
             PROVE  since_lock'[c] = RELOCK
  BY DEF NoClock
<1>1. ~has_clock
  BY DEF Next, Tracking, TrackingFlags, Second, set_time_with_tow, Allocate,
         AllocateWake, AllocateRestart, AllocateSecondLoop, AllocateCold,
         AllocateDone, AllocatePick, clockVars, vars
<1>2. since_lock[c] = RELOCK
  BY <1>1 DEF NoClock
<1>3. CASE Second
  BY <1>2, <1>3, StaleTypes DEF Second, Older
<1>4. CASE ~Second
  BY <1>1, <1>2, <1>4
     DEF Next, Tracking, channel_locked, TrackingFlags, set_time_with_tow, Allocate,
         AllocateWake, AllocateRestart, AllocateSecondLoop, AllocateCold,
         AllocateDone, AllocatePick, clockVars, lockVars, vars
<1> QED
  BY <1>3, <1>4

LEMMA NextSecond ==
  ASSUME TypeInv, Second, NEW x \in Int, WeeksApart(x, time)
  PROVE  WeeksApart(x + 1, time')
<1> USE StaleTypes
<1>1. WeeksApart(x + 1, time + 1)
  BY Later
<1>2. time' = time + 1 \/ time' = time + 1 - SECONDS_IN_WEEK
  <2>1. time' = (time + 1) % SECONDS_IN_WEEK
    BY DEF Second
  <2>2. CASE time + 1 < SECONDS_IN_WEEK
    BY <2>1, <2>2
  <2>3. CASE time + 1 = SECONDS_IN_WEEK
    <3>1. (time + 1) % SECONDS_IN_WEEK = 0
      BY <2>3
    <3> QED
      BY <2>1, <2>3, <3>1
  <2> QED
    BY <2>2, <2>3
<1>3. WeeksApart(x + 1, time + 1 - SECONDS_IN_WEEK)
  BY <1>1, Sooner
<1> QED
  BY <1>1, <1>2, <1>3

\* A channel comes to lock or is turned off.
LEMMA StaleTracking ==
  ASSUME TypeInv, StaleInv, NEW d \in Ch, Tracking(d) PROVE StaleInv'
<1> USE StaleTypes
<1>1. /\ UNCHANGED <<time, pc, ch, now, now_age>>
      /\ \A c \in Ch : c # d => state'[c] = state[c]
      /\ \A c \in Ch : c # d => last_lock'[c] = last_lock[c] /\ since_lock'[c] = since_lock[c]
      /\ pc # "wait" => \A c \in Ch : c # d => (c \in turned_off' <=> c \in turned_off)
  BY DEF Tracking, channel_locked, clockVars, threadVars, lockVars
<1>2. CASE state'[d] = "LOCK" /\ UNCHANGED turned_off
  <2>1. \/ last_lock'[d] = last_lock[d] /\ since_lock'[d] = since_lock[d]
        \/ last_lock'[d] = time /\ since_lock'[d] = 0
    BY DEF Tracking, channel_locked, lockVars
  <2>2. DatesRight'
    <3> SUFFICES ASSUME NEW c \in Ch, since_lock'[c] < RELOCK
                 PROVE  WeeksApart(last_lock'[c] + since_lock'[c], time)
      BY <1>1 DEF DatesRight, Recent, WeeksApart
    <3>1. CASE c = d /\ last_lock'[d] = time /\ since_lock'[d] = 0
      BY <3>1, Same
    <3>2. CASE last_lock'[c] = last_lock[c] /\ since_lock'[c] = since_lock[c]
      BY <3>2 DEF StaleInv, DatesRight, Recent
    <3> QED
      BY <1>1, <2>1, <3>1, <3>2
  <2>3. \A c \in Ch : OffAllPass(c)' => c # d /\ OffAllPass(c)
    BY <1>1, <1>2 DEF OffAllPass
  <2>4. \A c \in Ch : Passed(c)' <=> Passed(c)
    BY <1>1 DEF Passed
  <2>5. NowRight' /\ OffBefore' /\ PassedLate'
    BY <1>1, <2>3, <2>4
    DEF StaleInv, NowRight, OffBefore, PassedLate, Recent, WeeksApart
  <2> QED
    BY <2>2, <2>5 DEF StaleInv
<1>3. CASE state'[d] = "OFF" /\ UNCHANGED lockVars
           /\ turned_off' = IF pc = "wait" THEN {} ELSE turned_off \cup {d}
  <2>1. UNCHANGED <<last_lock, since_lock>>
    BY <1>3 DEF lockVars
  <2>2. \A c \in Ch : OffAllPass(c)' => OffAllPass(c)
    BY <1>1, <1>3 DEF OffAllPass
  <2>3. \A c \in Ch : Passed(c)' <=> Passed(c)
    BY <1>1 DEF Passed
  <2> QED
    BY <1>1, <2>1, <2>2, <2>3
    DEF StaleInv, DatesRight, NowRight, OffBefore, PassedLate, Recent, WeeksApart
<1> QED
  BY <1>2, <1>3 DEF Tracking

\* A second passes for the clock, the locks and the pass alike.
LEMMA StaleSecond == ASSUME TypeInv, StaleInv, Second PROVE StaleInv'
<1> USE StaleTypes
<1>1. /\ UNCHANGED <<state, last_lock, pc, ch, now, turned_off>>
      /\ \A c \in Ch : since_lock'[c] = Older(since_lock[c])
      /\ pc # "wait" => now_age' = Older(now_age)
  BY DEF Second, channelVars, threadVars
<1>2. \A c \in Ch : /\ since_lock[c] \in 0 .. RELOCK /\ last_lock[c] \in Nat
                    /\ since_lock'[c] < RELOCK =>
                         since_lock[c] < RELOCK /\ since_lock'[c] = since_lock[c] + 1
  BY <1>1 DEF Older
<1>3. DatesRight'
  <2> SUFFICES ASSUME NEW c \in Ch, since_lock'[c] < RELOCK
               PROVE  WeeksApart(last_lock[c] + since_lock'[c], time')
    BY <1>1 DEF DatesRight, Recent
  <2>1. last_lock[c] + since_lock'[c] = (last_lock[c] + since_lock[c]) + 1
    BY <1>2
  <2>2. WeeksApart(last_lock[c] + since_lock[c], time)
    BY <1>2 DEF StaleInv, DatesRight, Recent
  <2>3. last_lock[c] + since_lock[c] \in Int
    BY <1>2
  <2> QED
    BY <2>1, <2>2, <2>3, NextSecond
<1>4. NowRight'
  <2> SUFFICES ASSUME pc # "wait", now_age' < RELOCK
               PROVE  WeeksApart(now + now_age', time')
    BY <1>1 DEF NowRight
  <2>1. now_age < RELOCK /\ now + now_age' = (now + now_age) + 1
    BY <1>1 DEF Older
  <2>2. WeeksApart(now + now_age, time)
    BY <2>1 DEF StaleInv, NowRight
  <2> QED
    BY <2>1, <2>2, NextSecond
<1>5. \A c \in Ch : OffAllPass(c)' <=> OffAllPass(c)
  BY <1>1 DEF OffAllPass
<1>6. \A c \in Ch : Passed(c)' <=> Passed(c)
  BY <1>1 DEF Passed
<1>7. OffBefore'
  <2> SUFFICES ASSUME NEW c \in Ch, OffAllPass(c), pc # "wait"
               PROVE  since_lock'[c] >= now_age'
    BY <1>5 DEF OffBefore, OffAllPass
  <2>1. since_lock[c] >= now_age
    BY DEF StaleInv, OffBefore
  <2> QED
    BY <1>1, <1>2, <2>1 DEF Older
<1>8. PassedLate'
  BY <1>1, <1>2, <1>5, <1>6 DEF StaleInv, PassedLate, Recent
<1> QED
  BY <1>3, <1>4, <1>7, <1>8 DEF StaleInv

\* The first time of week: no lock has been dated yet.
LEMMA StaleSetTime ==
  ASSUME TypeInv, NoClock, StaleInv, set_time_with_tow PROVE StaleInv'
<1> USE StaleTypes
<1>1. /\ UNCHANGED <<state, last_lock, since_lock, pc, ch, now, turned_off>>
      /\ pc # "wait" => now_age' = RELOCK
      /\ \A c \in Ch : since_lock[c] = RELOCK
  BY DEF set_time_with_tow, channelVars, lockVars, threadVars, NoClock
<1>2. \A c \in Ch : ~Recent(c)'
  BY <1>1 DEF Recent
<1>3. DatesRight' /\ PassedLate'
  BY <1>2 DEF DatesRight, PassedLate
<1>4. NowRight' /\ OffBefore'
  BY <1>1 DEF NowRight, OffBefore, OffAllPass
<1> QED
  BY <1>3, <1>4 DEF StaleInv

LEMMA StaleRestart == ASSUME TypeInv, StaleInv, AllocateRestart PROVE StaleInv'
<1> USE StaleTypes
<1>1. /\ pc = "restart" /\ pc' = "restart" /\ ch \in Ch /\ ch' = ch + 1 /\ ch \in Int
      /\ UNCHANGED <<time, now_age, turned_off>>
  BY AllocationAssumption
  DEF AllocateRestart, TypeInv, TypeOK, Ch, clockVars, passVars
<1>2. \A c \in Ch : Passed(c)' <=> Passed(c) \/ c = ch
  BY <1>1 DEF Passed
<1>3. CASE /\ state[ch] = "LOCK" /\ UNCHANGED <<state, now>>
           /\ last_lock' = [last_lock EXCEPT ![ch] = now]
           /\ since_lock' = [since_lock EXCEPT ![ch] = now_age]
  <2>1. last_lock'[ch] = now /\ since_lock'[ch] = now_age /\ state'[ch] # "OFF"
    BY <1>1, <1>3
  <2>2. \A c \in Ch : c # ch => last_lock'[c] = last_lock[c] /\ since_lock'[c] = since_lock[c]
    BY <1>3
  <2>3. \A c \in Ch : OffAllPass(c)' => c # ch /\ OffAllPass(c)
    BY <1>1, <1>3, <2>1 DEF OffAllPass
  <2>4. DatesRight'
    <3> SUFFICES ASSUME NEW c \in Ch, since_lock'[c] < RELOCK
                 PROVE  WeeksApart(last_lock'[c] + since_lock'[c], time)
      BY <1>1 DEF DatesRight, Recent
    <3>1. CASE c = ch
      BY <1>1, <2>1, <3>1 DEF StaleInv, NowRight
    <3>2. CASE c # ch
      BY <2>2, <3>2 DEF StaleInv, DatesRight, Recent
    <3> QED
      BY <3>1, <3>2
  <2>5. NowRight'
    BY <1>1, <1>3 DEF StaleInv, NowRight
  <2>6. OffBefore'
    BY <1>1, <2>2, <2>3 DEF StaleInv, OffBefore
  <2>7. PassedLate'
    BY <1>2, <1>3, <2>2, <2>3 DEF StaleInv, PassedLate, Recent
  <2> QED
    BY <2>4, <2>5, <2>6, <2>7 DEF StaleInv
<1>4. CASE /\ state[ch] = "OFF" /\ now' = NowFor(ch)
           /\ IF Lately(ch, now') THEN restart_channel(ch) ELSE UNCHANGED state
           /\ UNCHANGED lockVars
  <2>1. UNCHANGED <<last_lock, since_lock>>
    BY <1>4 DEF lockVars
  <2>2. (now' = now \/ now' = now + SECONDS_IN_WEEK) /\ now' >= now /\ now' \in Int
    BY <1>4 DEF NowFor
  <2>3. NowRight'
    <3> SUFFICES ASSUME now_age < RELOCK PROVE WeeksApart(now' + now_age, time)
      BY <1>1 DEF NowRight
    <3>1. WeeksApart(now + now_age, time)
      BY <1>1 DEF StaleInv, NowRight
    <3>2. WeeksApart((now + now_age) + SECONDS_IN_WEEK, time)
      BY <3>1, Sooner
    <3>3. (now + now_age) + SECONDS_IN_WEEK = (now + SECONDS_IN_WEEK) + now_age
      OBVIOUS
    <3> QED
      BY <2>2, <3>1, <3>2, <3>3
  <2>4. \A c \in Ch : OffAllPass(c)' => OffAllPass(c) /\ (c = ch => UNCHANGED state)
    BY <1>1, <1>4 DEF OffAllPass, restart_channel
  <2>5. OffBefore'
    BY <1>1, <2>1, <2>4 DEF StaleInv, OffBefore
  <2>6. ASSUME NEW c \in Ch, OffAllPass(c)', Passed(c)', since_lock[c] < RELOCK
        PROVE  now' >= SECONDS_IN_WEEK + last_lock[c]
    <3>0. last_lock[c] \in Int /\ since_lock[c] \in Nat
      OBVIOUS
    <3>1. CASE c # ch
      <4>1. now >= SECONDS_IN_WEEK + last_lock[c]
        BY <1>2, <2>4, <2>6, <3>1 DEF StaleInv, PassedLate, Recent
      <4> QED
        BY <2>2, <3>0, <4>1
    <3>2. CASE c = ch
      <4>1. ~Lately(ch, now')
        BY <1>1, <1>4, <2>6, <3>2 DEF restart_channel, OffAllPass
      <4>2. now' - last_lock[c] >= RELOCK
        BY <2>2, <3>0, <3>2, <4>1 DEF Lately
      <4>3. since_lock[c] >= now_age
        BY <2>4, <2>6 DEF StaleInv, OffBefore
      <4> DEFINE seen == last_lock[c] + since_lock[c] - now_age
      <4>4. seen \in Int /\ now' > seen /\ seen >= last_lock[c]
        BY <2>2, <2>6, <3>0, <4>2, <4>3
      <4>5. WeeksApart(last_lock[c] + since_lock[c], time)
        BY <2>6 DEF StaleInv, DatesRight, Recent
      <4>6. WeeksApart(now' + now_age, time)
        BY <1>1, <2>3, <2>6, <3>0, <4>3 DEF NowRight
      <4>7. WeeksApart(now' + now_age, last_lock[c] + since_lock[c])
        BY <2>2, <3>0, <4>5, <4>6, Between
      <4>8. WeeksApart((now' + now_age) + (-now_age),
                       (last_lock[c] + since_lock[c]) + (-now_age))
        BY <2>2, <3>0, <4>7, Later
      <4>9. (now' + now_age) + (-now_age) = now'
            /\ (last_lock[c] + since_lock[c]) + (-now_age) = seen
        BY <2>2, <3>0
      <4>10. WeeksApart(now', seen)
        BY <4>8, <4>9
      <4> HIDE DEF seen
      <4>11. now' >= seen + SECONDS_IN_WEEK
        BY <2>2, <4>4, <4>10, Sooner
      <4> QED
        BY <2>2, <3>0, <4>4, <4>11
    <3> QED
      BY <3>1, <3>2
  <2>7. DatesRight'
    BY <1>1, <2>1 DEF StaleInv, DatesRight, Recent
  <2>8. PassedLate'
    BY <2>1, <2>6 DEF PassedLate, Recent
  <2> QED
    BY <2>3, <2>5, <2>7, <2>8 DEF StaleInv
<1>5. CASE state[ch] # "OFF" /\ UNCHANGED <<state, lockVars, now>>
  <2>1. UNCHANGED <<state, last_lock, since_lock, now>>
    BY <1>5 DEF lockVars
  <2>2. \A c \in Ch : OffAllPass(c)' => OffAllPass(c) /\ c # ch
    BY <1>1, <1>5, <2>1 DEF OffAllPass
  <2> QED
    BY <1>1, <1>2, <2>1, <2>2
    DEF StaleInv, DatesRight, NowRight, OffBefore, PassedLate, Recent
<1> QED
  BY <1>3, <1>4, <1>5, Zenon DEF AllocateRestart

LEMMA StaleStep ==
  ASSUME TypeInv, NoClock, StaleInv, [Next]_vars PROVE StaleInv'
<1>1. CASE \E c \in Ch : Tracking(c)
  BY <1>1, StaleTracking
<1>2. CASE Second
  BY <1>2, StaleSecond
<1>3. CASE set_time_with_tow
  BY <1>3, StaleSetTime
<1>4. CASE AllocateRestart
  BY <1>4, StaleRestart
\* The other steps date nothing and turn nothing off.
<1>5. ASSUME UNCHANGED <<time, last_lock, since_lock>>,
             \A c \in Ch : state'[c] = "OFF" => state[c] = "OFF",
             \/ pc' = "wait"
             \/ /\ pc # "wait" /\ UNCHANGED <<now, now_age, turned_off>>
                /\ \A c \in Ch : Passed(c)' => Passed(c)
      PROVE  StaleInv'
  <2>1. DatesRight'
    BY <1>5 DEF StaleInv, DatesRight, Recent
  <2>2. CASE pc' = "wait"
    BY <2>1, <2>2 DEF StaleInv, NowRight, OffBefore, PassedLate, OffAllPass
  <2>3. CASE /\ pc # "wait" /\ UNCHANGED <<now, now_age, turned_off>>
             /\ \A c \in Ch : Passed(c)' => Passed(c)
    <3>1. \A c \in Ch : OffAllPass(c)' => OffAllPass(c)
      BY <1>5, <2>3 DEF OffAllPass
    <3> QED
      BY <1>5, <2>1, <2>3, <3>1
      DEF StaleInv, NowRight, OffBefore, PassedLate, Recent
  <2> QED
    BY <1>5, <2>2, <2>3
<1>6. CASE TrackingFlags \/ UNCHANGED vars
  <2>1. UNCHANGED <<state, time, last_lock, since_lock, pc, ch, now, now_age, turned_off>>
    BY <1>6
    DEF TrackingFlags, channelVars, clockVars, lockVars, threadVars, passVars, vars
  <2> QED
    BY <2>1
    DEF StaleInv, DatesRight, NowRight, OffBefore, PassedLate, OffAllPass, Passed,
        Recent
<1>7. CASE AllocateWake
  <2>1. /\ UNCHANGED <<time, last_lock, since_lock, state>>
        /\ now' = time /\ pc' = "restart" /\ ch' = 0 /\ now_age' = 0
    BY <1>7 DEF AllocateWake, channelVars, clockVars, lockVars
  <2>2. \A c \in Ch : ~Passed(c)'
    BY <2>1, StaleTypes DEF Passed
  <2>3. WeeksApart(time + 0, time)
    BY Same, StaleTypes
  <2>4. \A c \in Ch : since_lock[c] >= 0
    BY StaleTypes
  <2> QED
    BY <2>1, <2>2, <2>3, <2>4
    DEF StaleInv, DatesRight, NowRight, OffBefore, PassedLate, Recent
<1>8. CASE AllocateSecondLoop
  <2>1. \A c \in Ch : Passed(c)
    BY <1>8, AllocationAssumption DEF AllocateSecondLoop, Passed, Ch
  <2> QED
    BY <1>5, <1>8, <2>1
    DEF AllocateSecondLoop, channelVars, clockVars, lockVars, passVars
<1>9. CASE AllocateCold \/ AllocateDone \/ AllocatePick
  <2>1. pc \in {"cold", "pick"} /\ UNCHANGED <<time, last_lock, since_lock>>
        /\ (pc' = "wait" \/ UNCHANGED <<now, now_age, turned_off>>)
    BY <1>9 DEF AllocateCold, AllocateDone, AllocatePick, clockVars, lockVars, passVars
  <2>2. \A c \in Ch : Passed(c)
    BY <2>1 DEF Passed
  <2>3. \A c \in Ch : state'[c] = "OFF" => state[c] = "OFF"
    BY <1>9, StaleTypes DEF AllocateCold, AllocateDone, AllocatePick, channelVars
  <2> QED
    BY <1>5, <2>1, <2>2, <2>3
<1> QED
  BY <1>1, <1>2, <1>3, <1>4, <1>6, <1>7, <1>8, <1>9 DEF Next, Allocate

\* For every length of the week and of the relock window, over the ends of weeks and
\* whatever interrupts come in this pass or came in others: a channel off when the
\* pass began whose last lock is dated lately is cold-allocated only if now has been
\* moved on by a week it should not have been for this channel.
THEOREM ColdOnlyStaleCorrect == Spec => ColdOnlyStale
<1>1. Init => TypeInv /\ NoClock /\ StaleInv
  <2>1. Init => NoClock /\ StaleInv
    <3> SUFFICES ASSUME Init PROVE NoClock /\ StaleInv
      OBVIOUS
    <3>1. \A c \in Ch : ~Recent(c) /\ since_lock[c] = RELOCK
      BY AllocationAssumption DEF Init, Recent
    <3>2. pc = "wait"
      BY DEF Init
    <3> QED
      BY <3>1, <3>2
      DEF NoClock, StaleInv, DatesRight, NowRight, OffBefore, PassedLate, OffAllPass
  <2> QED
    BY <2>1, TypeInit
<1>2. TypeInv /\ NoClock /\ StaleInv /\ [Next]_vars
        => (TypeInv /\ NoClock /\ StaleInv)'
  BY TypeStep, NoClockStep, StaleStep
<1>3. TypeInv /\ StaleInv
        => [\A c \in Ch : RecentCold(c) => now >= SECONDS_IN_WEEK + last_lock[c]]_vars
  BY DEF RecentCold, StaleInv, PassedLate, OffAllPass, Passed, Recent
<1> QED
  BY <1>1, <1>2, <1>3, PTL DEF Spec, ColdOnlyStale
=============================================================================
