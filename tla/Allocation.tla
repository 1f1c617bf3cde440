----------------------------- MODULE Allocation -----------------------------
(***************************************************************************)
(* Which satellite each correlator channel works on: the allocate thread   *)
(* (allocate.c), the tracking DSR that turns channels off and flags them   *)
(* (tracking.c) and the receiver clock it dates locks with (time.c).       *)
(*                                                                         *)
(* A channel is OFF, it SEARCHes (acquisition, confirm or pull-in) or it   *)
(* is in LOCK; module Acquisition has the steps in between.  The DSR and   *)
(* the measure and message threads preempt the allocate thread at any of   *)
(* its steps.                                                              *)
(***************************************************************************)
EXTENDS Naturals, Integers

CONSTANTS
  N_CHANNELS,       \* correlator channels
  MAX_PRN,          \* satellites are 1 .. MAX_PRN: 32
  Dead,             \* those stepped over: 12, 17, 31 (which allocate.c:268 lists as
                    \* operational) and 32
  FirstPrn,         \* the channels' satellites after initialize_allocation
  SECONDS_IN_WEEK,  \* the clock's modulus
  RELOCK            \* how long a lost satellite is searched again: 1200 s

Ch  == 0 .. N_CHANNELS - 1
Prn == 1 .. MAX_PRN

ASSUME AllocationAssumption ==
  /\ N_CHANNELS \in Nat \ {0}
  /\ MAX_PRN \in Nat \ {0}
  /\ Dead \in SUBSET Prn
  /\ FirstPrn \in [Ch -> Prn]
  /\ \A i, j \in Ch : i # j => FirstPrn[i] # FirstPrn[j]
  /\ SECONDS_IN_WEEK \in Nat \ {0}
  /\ RELOCK \in Nat

VARIABLES
  state, prn,       \* CH[ch].state and CH[ch].prn
  allocate_flag,
  time, has_clock,  \* seconds of week; clock_state >= HOW_CLOCK
  last_lock,
  since_lock,       \* history: how many seconds ago that was, up to RELOCK
  next_satellite,
  pc, ch, now,      \* the allocate thread
  disturbed,        \* history: an interrupt came during a pass, this one or another
  now_age,          \* history: seconds since now was read, up to RELOCK
  turned_off        \* history: channels the DSR has turned off in this pass

vars == <<state, prn, allocate_flag, time, has_clock, last_lock, since_lock,
          next_satellite, pc, ch, now, disturbed, now_age, turned_off>>
channelVars == <<state, prn>>
clockVars   == <<time, has_clock>>
lockVars    == <<last_lock, since_lock>>
threadVars  == <<next_satellite, pc, ch, now>>
passVars    == <<now_age, turned_off>>

Time == 0 .. SECONDS_IN_WEEK - 1

TypeOK ==
  /\ state \in [Ch -> {"OFF", "SEARCH", "LOCK"}]
  /\ prn \in [Ch -> Prn]
  /\ allocate_flag \in SUBSET Ch
  /\ time \in Time
  /\ has_clock \in BOOLEAN
  /\ last_lock \in [Ch -> Nat]
  /\ since_lock \in [Ch -> 0 .. RELOCK]
  /\ next_satellite \in 0 .. MAX_PRN
  /\ pc \in {"wait", "restart", "cold", "pick"}
  /\ ch \in 0 .. N_CHANNELS
  /\ now \in Nat
  /\ disturbed \in BOOLEAN
  /\ now_age \in 0 .. RELOCK
  /\ turned_off \in SUBSET Ch

\* After cyg_user_start: initialize_allocation has put every channel to search,
\* and the statics next_satellite, last_lock and time are zero.
Init ==
  /\ state = [c \in Ch |-> "SEARCH"]
  /\ prn = FirstPrn
  /\ allocate_flag = {}
  /\ time = 0 /\ has_clock = FALSE
  /\ last_lock = [c \in Ch |-> 0]
  /\ since_lock = [c \in Ch |-> RELOCK]
  /\ next_satellite = 0
  /\ pc = "wait" /\ ch = 0 /\ now = 0
  /\ disturbed = FALSE /\ now_age = 0 /\ turned_off = {}

-----------------------------------------------------------------------------
(* What preempts the allocate thread.                                      *)

\* Whatever preempts the thread.
Interrupt == disturbed' = (disturbed \/ pc # "wait")

Off(s) == {c \in Ch : s[c] = "OFF"}

\* Mutant: only channels that turn off in this interrupt are flagged, and the
\* flag is written rather than set bit by bit.
FlagTurnedOff(s) == Off(s) \ Off(state)

\* The channels tracking() flags: all that are off, at every interrupt.
FlagAllOff(s) == allocate_flag \cup Off(s)

\* Called when pull-in succeeds.
channel_locked(c) ==
  IF has_clock
    THEN /\ last_lock' = [last_lock EXCEPT ![c] = time]
         /\ since_lock' = [since_lock EXCEPT ![c] = 0]
    ELSE UNCHANGED lockVars

\* The DSR: one channel advances, and what is off is flagged.
Tracking(c) ==
  /\ Interrupt
  /\ \/ /\ state[c] = "SEARCH"
        /\ state' = [state EXCEPT ![c] = "LOCK"]
        /\ channel_locked(c)
        /\ UNCHANGED turned_off
     \/ /\ state[c] \in {"SEARCH", "LOCK"}
        /\ state' = [state EXCEPT ![c] = "OFF"]
        /\ turned_off' = IF pc = "wait" THEN {} ELSE turned_off \cup {c}
        /\ UNCHANGED lockVars
  /\ allocate_flag' = FlagAllOff(state')
  /\ UNCHANGED <<prn, clockVars, threadVars, now_age>>

\* The DSR of an interrupt in which no channel changes state.
TrackingFlags ==
  /\ Interrupt
  /\ allocate_flag' = FlagAllOff(state)
  /\ UNCHANGED <<channelVars, clockVars, lockVars, threadVars, passVars>>

Older(age) == IF age < RELOCK THEN age + 1 ELSE RELOCK

\* increment_time_with_tic, for as many TICs as make a second.
Second ==
  /\ Interrupt
  /\ time' = (time + 1) % SECONDS_IN_WEEK
  /\ since_lock' = [c \in Ch |-> Older(since_lock[c])]
  /\ now_age' = IF pc = "wait" THEN 0 ELSE Older(now_age)
  /\ UNCHANGED <<channelVars, allocate_flag, has_clock, last_lock, threadVars,
                 turned_off>>

\* The message thread's set_time_with_tow on the first time of week; what a pass read
\* of the clock before is no time.
set_time_with_tow ==
  /\ Interrupt
  /\ ~has_clock
  /\ has_clock' = TRUE
  /\ time' \in Time
  /\ now_age' = IF pc = "wait" THEN 0 ELSE RELOCK
  /\ UNCHANGED <<channelVars, allocate_flag, lockVars, threadVars, turned_off>>

-----------------------------------------------------------------------------
(* allocate_thread, priority 16.                                           *)

AllocateWake ==
  /\ pc = "wait" /\ allocate_flag # {}
  /\ allocate_flag' = {}
  /\ now' = time
  /\ pc' = "restart" /\ ch' = 0
  /\ now_age' = 0 /\ turned_off' = {}
  /\ UNCHANGED <<channelVars, clockVars, lockVars, next_satellite>>

\* "Handle a week rollover".
NowFor(c) == IF now < last_lock[c] THEN now + SECONDS_IN_WEEK ELSE now

\* Mutant: a lock of less than RELOCK seconds ago is thought old.
LongAgo(c, n) == n - last_lock[c] > RELOCK

\* now - last_lock[ch] < 1200
Lately(c, n) == n - last_lock[c] < RELOCK

\* restart_channel: search the same satellite again.
restart_channel(c) == state' = [state EXCEPT ![c] = "SEARCH"]

\* First loop: date the channels in lock, restart those lost lately.
AllocateRestart ==
  /\ pc = "restart" /\ ch < N_CHANNELS
  /\ \/ /\ state[ch] = "LOCK" /\ has_clock
        /\ last_lock' = [last_lock EXCEPT ![ch] = now]
        /\ since_lock' = [since_lock EXCEPT ![ch] = now_age]
        /\ UNCHANGED <<state, now>>
     \/ /\ state[ch] = "OFF"
        /\ now' = NowFor(ch)
        /\ IF Lately(ch, now') THEN restart_channel(ch)
                                  ELSE UNCHANGED state
        /\ UNCHANGED lockVars
     \/ /\ state[ch] # "OFF" /\ ~(state[ch] = "LOCK" /\ has_clock)
        /\ UNCHANGED <<state, lockVars, now>>
  /\ ch' = ch + 1
  /\ UNCHANGED <<prn, allocate_flag, clockVars, next_satellite, pc, passVars>>

AllocateSecondLoop ==
  /\ pc = "restart" /\ ch = N_CHANNELS
  /\ pc' = "cold" /\ ch' = 0
  /\ UNCHANGED <<channelVars, allocate_flag, clockVars, lockVars,
                 next_satellite, now, passVars>>

IsOff(c) == state[c] = "OFF"

\* Mutant: next_satellite is not static.
FromTheStart(n) == 0

FromTheLast(n) == n

\* Second loop: whatever is still off gets the next satellite.
AllocateCold ==
  /\ pc = "cold" /\ ch < N_CHANNELS
  /\ \/ IsOff(ch) /\ pc' = "pick" /\ UNCHANGED ch
        /\ next_satellite' = FromTheLast(next_satellite)
     \/ ~IsOff(ch) /\ ch' = ch + 1 /\ UNCHANGED <<pc, next_satellite>>
  /\ UNCHANGED <<channelVars, allocate_flag, clockVars, lockVars, now, passVars>>

\* now is read no more before it is set.
AllocateDone ==
  /\ pc = "cold" /\ ch = N_CHANNELS
  /\ pc' = "wait" /\ now' = 0
  /\ now_age' = 0 /\ turned_off' = {}
  /\ UNCHANGED <<channelVars, allocate_flag, clockVars, lockVars,
                 next_satellite, ch>>

\* Mutant: wraps one satellite too late.
AfterWithLateWrap(n) ==
  LET next  == n + 1
      alive == IF next \in Dead THEN next + 1 ELSE next
  IN  IF alive > MAX_PRN + 1 THEN 1 ELSE alive

\* The satellite after n: a dead one is stepped over, once.
After(n) ==
  LET next  == n + 1
      alive == IF next \in Dead THEN next + 1 ELSE next
  IN  IF alive > MAX_PRN THEN 1 ELSE alive

\* Mutant: only channels in lock count as having their satellite.
LockedOn(p) == \E c \in Ch : prn[c] = p /\ state[c] = "LOCK"

AlreadyAllocated(p) == \E c \in Ch : prn[c] = p /\ state[c] # "OFF"

\* One turn of the loop in cold_allocate_channel, and initialize_channel when the
\* satellite is free.
AllocatePick ==
  /\ pc = "pick"
  /\ next_satellite' = After(next_satellite)
  /\ \/ /\ AlreadyAllocated(next_satellite')
        /\ UNCHANGED <<channelVars, pc, ch>>
     \/ /\ ~AlreadyAllocated(next_satellite')
        /\ prn' = [prn EXCEPT ![ch] = next_satellite']
        /\ state' = [state EXCEPT ![ch] = "SEARCH"]
        /\ pc' = "cold" /\ ch' = ch + 1
  /\ UNCHANGED <<allocate_flag, clockVars, lockVars, now, passVars>>

Allocate == /\ \/ AllocateWake \/ AllocateRestart \/ AllocateSecondLoop
               \/ AllocateCold \/ AllocateDone \/ AllocatePick
            /\ UNCHANGED disturbed

-----------------------------------------------------------------------------
Next == \/ \E c \in Ch : Tracking(c)
        \/ TrackingFlags \/ Second \/ set_time_with_tow
        \/ Allocate

Spec == Init /\ [][Next]_vars

\* Interrupts keep coming, and the allocate thread is not starved by them.
FairSpec == Spec /\ WF_vars(TrackingFlags) /\ WF_vars(Allocate)

-----------------------------------------------------------------------------
(* Properties.                                                             *)

\* Only a channel that is off gets another satellite: one that searches or is in
\* lock is never taken away from its satellite, whatever the DSR does between the
\* thread's test and its write (allocate.c:363-364, 249).
OnlyOffIsReassigned ==
  [][\A c \in Ch : state[c] # "OFF" => prn'[c] = prn[c]]_vars

\* allocate.c:219, "Find the next satellite not being tracked": no two channels
\* that are on work on the same satellite.
DistinctPrn ==
  \A i, j \in Ch : i # j /\ state[i] # "OFF" /\ state[j] # "OFF"
                     => prn[i] # prn[j]

\* As long as no interrupt has come during a pass of the allocate thread, its
\* three loops keep the channels' satellites apart.
UndisturbedDistinct == ~disturbed => DistinctPrn

\* A channel that is off is searching again in the end: no wakeup of the allocate
\* thread is lost, and the loop over the satellites ends.
OffIsReallocated == \A c \in Ch : state[c] = "OFF" ~> state[c] # "OFF"

\* As long as satellites are picked, each one that is not dead has its turn
\* (allocate.c:219-222: "static because we don't want to keep checking the same
\* satellites over and over").
EverySatelliteSearched ==
  []<>(pc = "pick")
    => \A p \in Prn \ Dead : []<>(\E c \in Ch : prn[c] = p /\ state[c] # "OFF")

\* The second loop gives the channel another satellite though it was off when the
\* pass began and last_lock dates a lock of less than RELOCK ago.
RecentCold(c) == /\ pc = "pick" /\ state[c] = "OFF" /\ state'[c] = "SEARCH"
                 /\ c \notin turned_off /\ since_lock[c] < RELOCK

\* allocate.c:358-360, "At this point, we're guaranteed that all the channels with
\* possibly valid sats are allocated or reallocated": whatever interrupts came in
\* this pass and before, also between the reading of the clock and the dating of a
\* lock, and over the ends of weeks, a channel lost lately is cold-allocated in one
\* case alone.  That is when now, moved a week on for another channel whose lock
\* was before the end of the week (allocate.c:348-349), stays so for this one,
\* whose lock is of the new week; it takes no interrupt.
ColdOnlyStale ==
  [][\A c \in Ch : RecentCold(c) => now >= SECONDS_IN_WEEK + last_lock[c]]_vars
=============================================================================
