--------------------------------- MODULE Dco ---------------------------------
(***************************************************************************)
(* The rates of the correlator's oscillators.  A channel's code rate and   *)
(* its carrier rate have 32 bits and go through 16-bit registers: the      *)
(* upper half into X_DCO_INCR_HIGH, which all channels share, then the     *)
(* lower half into a register of the channel, at which the correlator      *)
(* takes both (tracking.c:57-78).  The tracking loops write rates from the *)
(* DSR; the allocate thread writes them too, when it sets a channel up     *)
(* (allocate.c), and the DSR may run between its two writes.               *)
(***************************************************************************)
EXTENDS Integers

CONSTANTS
  Ch,
  HALF,                   \* 2^16
  CODE_REF, CARRIER_REF,
  CODE_LOOP,              \* ms after which pull_in closes the code loop: 2
  CARRIER_LOOP,           \* and the carrier loop: 5
  PULL_IN_TIME,           \* ms: 1000
  LOUD                    \* dumps that cannot reach the mean for a lock: 8

Rate == 0 .. HALF * HALF - 1

ASSUME DcoAssumption ==
  /\ HALF \in Nat \ {0}
  /\ CODE_REF \in Rate /\ CARRIER_REF \in Rate
  /\ CODE_LOOP \in Nat /\ CARRIER_LOOP \in Nat /\ PULL_IN_TIME \in Nat
  /\ CODE_LOOP < PULL_IN_TIME
  /\ LOUD \in Nat /\ CODE_LOOP < LOUD

VARIABLES
  x_dco_incr_high, dco,   \* registers; the rates the correlator runs at
  freq,                   \* CH[ch].code_freq and CH[ch].carrier_freq
  state, ch_time,
  sum,                    \* dumps of the pull-in that had any signal, up to LOUD + 1
  a_pc, a_ch,             \* the allocate thread
  between,                \* history: the DSR wrote since its last upper half
  mixed                   \* history: the rates written around a write of the DSR

channelVars == <<state, ch_time, sum>>
threadVars  == <<a_pc, a_ch>>
vars == <<x_dco_incr_high, dco, freq, channelVars, threadVars, between, mixed>>

Kind == {"code", "carrier"}

TypeOK ==
  /\ x_dco_incr_high \in 0 .. HALF - 1
  /\ dco \in [Ch -> [Kind -> Rate]] /\ freq \in [Ch -> [Kind -> Rate]]
  /\ state \in [Ch -> {"OFF", "ACQUISITION", "CONFIRM", "PULL_IN", "LOCK"}]
  /\ ch_time \in [Ch -> 0 .. PULL_IN_TIME] /\ sum \in [Ch -> 0 .. LOUD + 1]
  /\ a_pc \in {"wait", "carrier_low", "code_high", "code_low", "done"}
  /\ a_ch \in Ch
  /\ between \in BOOLEAN /\ mixed \in [Ch -> SUBSET Kind]

Init ==
  /\ x_dco_incr_high = 0
  /\ dco = [c \in Ch |-> [k \in Kind |-> 0]] /\ freq = dco
  /\ state = [c \in Ch |-> "OFF"]
  /\ ch_time = [c \in Ch |-> 0] /\ sum = [c \in Ch |-> 0]
  /\ a_pc = "wait" /\ a_ch \in Ch
  /\ between = FALSE /\ mixed = [c \in Ch |-> {}]

-----------------------------------------------------------------------------
(* The registers.                                                          *)

High(f) == f \div HALF
Low(f) == f % HALF

\* A write to a channel's lower half.
Latched(high, f) == high * HALF + Low(f)

\* Mutant: the lower half is written first.
LowFirst(f) == Latched(x_dco_incr_high, f)

\* set_code_dco_rate and set_carrier_dco_rate with nobody in between.
Written(f) == Latched(High(f), f)

\* Of two rates lock() writes the code's last, pull_in the carrier's.
WrittenLast(c, kinds) ==
  IF kinds # Kind THEN kinds ELSE IF state[c] = "LOCK" THEN {"code"} ELSE {"carrier"}

\* What the loops of the DSR write: the rates new, for these kinds.
SetRates(c, new) ==
  /\ freq' = [freq EXCEPT ![c] = [k \in Kind |-> IF k \in DOMAIN new THEN new[k]
                                                                     ELSE @[k]]]
  /\ dco' = [dco EXCEPT ![c] = [k \in Kind |-> IF k \in DOMAIN new
                                                 THEN Written(new[k]) ELSE @[k]]]
  /\ x_dco_incr_high' \in IF DOMAIN new = {} THEN {x_dco_incr_high}
                          ELSE {High(new[k]) : k \in WrittenLast(c, DOMAIN new)}
  /\ between' = (between \/ DOMAIN new # {})
  /\ mixed' = [mixed EXCEPT ![c] = @ \ DOMAIN new]

-----------------------------------------------------------------------------
(* The tracking DSR, at a dump of channel c.                               *)

\* No hit, or the next code phase; the next frequency bin; a hit; the end.
acquire(c) ==
  /\ state[c] = "ACQUISITION"
  /\ \/ \E f \in Rate : SetRates(c, [k \in {"carrier"} |-> f]) /\ UNCHANGED state
     \/ /\ \E s \in {"CONFIRM", "OFF"} : state' = [state EXCEPT ![c] = s]
        /\ UNCHANGED <<x_dco_incr_high, dco, freq, between, mixed>>
  /\ UNCHANGED <<ch_time, sum, threadVars>>

confirm(c) ==
  /\ state[c] = "CONFIRM"
  /\ \E s \in {"PULL_IN", "ACQUISITION"} :
       /\ state' = [state EXCEPT ![c] = s]
       /\ IF s = "PULL_IN" THEN /\ ch_time' = [ch_time EXCEPT ![c] = 0]
                                /\ sum' = [sum EXCEPT ![c] = 0]
                           ELSE UNCHANGED <<ch_time, sum>>
  /\ UNCHANGED <<x_dco_incr_high, dco, freq, between, mixed, threadVars>>

\* Mutant: the sum is not divided by PullInTime.
AnySum(s) == s > 0

\* avg > 14 * Rms / 10 is 437 for each of 1000 dumps, and one is at most 98304.
Strong(s) == s > LOUD

\* Both loops when the dump has a signal and they are closed; the carrier loop also
\* wants the phase to have turned by less than half a radian.
Looped(c, signal, turned) ==
  {k \in Kind : /\ signal
                /\ \/ k = "code" /\ ch_time[c] > CODE_LOOP
                   \/ k = "carrier" /\ ch_time[c] > CARRIER_LOOP /\ ~turned}

pull_in(c) ==
  /\ state[c] = "PULL_IN"
  /\ \E signal, turned \in BOOLEAN :
       /\ \E new \in [Looped(c, signal, turned) -> Rate] : SetRates(c, new)
       /\ sum' = [sum EXCEPT ![c] = IF signal /\ @ <= LOUD THEN @ + 1 ELSE @]
  /\ ch_time' = [ch_time EXCEPT ![c] = IF @ < PULL_IN_TIME THEN @ + 1 ELSE @]
  /\ \/ UNCHANGED state
     \/ /\ ch_time'[c] = PULL_IN_TIME
        /\ \/ Strong(sum'[c]) /\ state' = [state EXCEPT ![c] = "LOCK"]
           \/ state' = [state EXCEPT ![c] = "OFF"]
  /\ UNCHANGED threadVars

\* The carrier loop at each dump that has a signal, the code loop at the end of a
\* bit; signal loss every 100 ms.
lock(c) ==
  /\ state[c] = "LOCK"
  /\ \E looped \in SUBSET Kind : \E new \in [looped -> Rate] : SetRates(c, new)
  /\ \E s \in {"LOCK", "OFF"} : state' = [state EXCEPT ![c] = s]
  /\ UNCHANGED <<ch_time, sum, threadVars>>

-----------------------------------------------------------------------------
(* The allocate thread: initialize_channel and restart_channel do the same *)
(* here.                                                                   *)

\* CH[ch].carrier_freq, and its upper half.
SetCarrierHigh(c) ==
  /\ a_pc = "wait" /\ state[c] = "OFF"
  /\ a_pc' = "carrier_low" /\ a_ch' = c
  /\ freq' = [freq EXCEPT ![c]["carrier"] = CARRIER_REF]
  /\ x_dco_incr_high' = High(CARRIER_REF)
  /\ between' = FALSE
  /\ UNCHANGED <<dco, channelVars, mixed>>

\* The lower half, with whatever the upper register holds by now.
SetLow(k) ==
  /\ dco' = [dco EXCEPT ![a_ch][k] = Latched(x_dco_incr_high, freq[a_ch][k])]
  /\ mixed' = [mixed EXCEPT ![a_ch] = IF between THEN @ \cup {k} ELSE @ \ {k}]
  /\ UNCHANGED <<x_dco_incr_high, freq, channelVars, a_ch, between>>

SetCarrierLow == a_pc = "carrier_low" /\ a_pc' = "code_high" /\ SetLow("carrier")

SetCodeHigh ==
  /\ a_pc = "code_high" /\ a_pc' = "code_low"
  /\ freq' = [freq EXCEPT ![a_ch]["code"] = CODE_REF]
  /\ x_dco_incr_high' = High(CODE_REF)
  /\ between' = FALSE
  /\ UNCHANGED <<dco, channelVars, a_ch, mixed>>

SetCodeLow == a_pc = "code_low" /\ a_pc' = "done" /\ SetLow("code")

SetAcquisition ==
  /\ a_pc = "done" /\ a_pc' = "wait"
  /\ state' = [state EXCEPT ![a_ch] = "ACQUISITION"]
  /\ sum' = [sum EXCEPT ![a_ch] = 0]
  /\ UNCHANGED <<x_dco_incr_high, dco, freq, ch_time, a_ch, between, mixed>>

-----------------------------------------------------------------------------
Next ==
  \/ \E c \in Ch : acquire(c) \/ confirm(c) \/ pull_in(c) \/ lock(c)
                   \/ SetCarrierHigh(c)
  \/ SetCarrierLow \/ SetCodeHigh \/ SetCodeLow \/ SetAcquisition

Spec == Init /\ [][Next]_vars

-----------------------------------------------------------------------------
(* Properties.                                                             *)

\* The allocate thread has set a rate and not yet written its lower half.
HalfWritten(c, k) ==
  a_ch = c /\ \/ k = "carrier" /\ a_pc = "carrier_low"
              \/ k = "code" /\ a_pc = "code_low"

\* tracking.c:57-58, "Write 32 bits to the 16 bit code DCO rate and carrier DCO rate
\* registers": every channel runs at the rates asked for.  Only a rate around whose
\* two halves the DSR wrote one of another channel's may be wrong, until the
\* channel's own loops write it again: a search may be made at a code rate of which
\* half is a carrier's.
RateAsked ==
  \A c \in Ch, k \in Kind :
    dco[c][k] = freq[c][k] \/ k \in mixed[c] \/ HalfWritten(c, k)

\* A channel with such a code rate may find its satellite all the same and pull in;
\* but when it says that it is in lock its code rate is the one asked for: the mean
\* over the pull-in (tracking.c:627-635) cannot be reached by the dumps that came
\* before the code loop was closed.
LockedCodeRate == \A c \in Ch : state[c] = "LOCK" => dco[c]["code"] = freq[c]["code"]
=============================================================================
