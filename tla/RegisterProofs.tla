--------------------------- MODULE RegisterProofs ---------------------------
(***************************************************************************)
(* Theorems about two registers that two threads write without a lock.     *)
(* The upper half of an oscillator's rate (Dco): types, that only rates    *)
(* written around a write of the DSR are not the ones asked for, and that  *)
(* a channel in lock runs at its code rate.  The second serial port        *)
(* (Console): types, what a page costs the log, and that every ephemeris   *)
(* is logged.                                                              *)
(***************************************************************************)
EXTENDS Dco, Console, TLAPS

-----------------------------------------------------------------------------
(* The oscillators.                                                        *)

\* Dividing a rate into its halves.
LEMMA Halves ==
  ASSUME NEW f \in Rate
  PROVE  /\ High(f) \in 0 .. HALF - 1 /\ Low(f) \in 0 .. HALF - 1
         /\ High(f) * HALF + Low(f) = f
<1> DEFINE q == f \div HALF  r == f % HALF
<1>1. HALF \in Int /\ HALF > 0 /\ f \in Int /\ 0 <= f /\ f < HALF * HALF
  BY DcoAssumption DEF Rate
<1>2. q \in Int /\ r \in 0 .. HALF - 1 /\ f = HALF * q + r
  BY <1>1
<1>3. 0 <= q
  <2>1. SUFFICES ASSUME q <= -1 PROVE FALSE
    BY <1>2
  <2>2. HALF * q <= HALF * (-1)
    BY <1>1, <1>2, <2>1
  <2> HIDE DEF q, r
  <2> QED
    BY <1>1, <1>2, <2>2
<1>4. q <= HALF - 1
  <2>1. SUFFICES ASSUME HALF <= q PROVE FALSE
    BY <1>1, <1>2
  <2>2. HALF * HALF <= HALF * q
    BY <1>1, <1>2, <2>1
  <2> HIDE DEF q, r
  <2> QED
    BY <1>1, <1>2, <2>2
<1>5. HALF * q = q * HALF
  BY <1>1, <1>2
<1> HIDE DEF q, r
<1>6. q \in 0 .. HALF - 1 /\ q * HALF + r = f
  BY <1>1, <1>2, <1>3, <1>4, <1>5
<1> QED
  BY <1>2, <1>6 DEF q, r, High, Low

\* What a channel's lower register latches is a rate.
LEMMA LatchedType ==
  ASSUME NEW h \in 0 .. HALF - 1, NEW f \in Rate
  PROVE  Latched(h, f) \in Rate
<1> DEFINE l == Low(f)
<1>1. HALF \in Int /\ HALF > 0 /\ h \in Int /\ 0 <= h /\ h <= HALF - 1
  BY DcoAssumption
<1>2. l \in Int /\ 0 <= l /\ l <= HALF - 1
  BY <1>1, Halves
<1> HIDE DEF l
<1>3. h * HALF \in Int /\ 0 <= h * HALF
  BY <1>1
<1>4. h * HALF <= (HALF - 1) * HALF
  BY <1>1
<1>5. (HALF - 1) * HALF = HALF * HALF - HALF
  BY <1>1
<1>6. h * HALF + l \in 0 .. HALF * HALF - 1
  BY <1>1, <1>2, <1>3, <1>4, <1>5
<1> QED
  BY <1>6 DEF l, Latched, Rate

LEMMA WrittenRight ==
  ASSUME NEW f \in Rate
  PROVE  Latched(High(f), f) = f /\ Written(f) = f
BY Halves DEF Latched, Written

LEMMA References == CODE_REF \in Rate /\ CARRIER_REF \in Rate
BY DcoAssumption

-----------------------------------------------------------------------------
(* What the DSR's loops do to a channel's rates.                           *)

LEMMA SetRatesType ==
  ASSUME TypeOK, NEW c \in Ch, NEW K \in SUBSET Kind, NEW new \in [K -> Rate],
         SetRates(c, new)
  PROVE  /\ freq' \in [Ch -> [Kind -> Rate]] /\ dco' \in [Ch -> [Kind -> Rate]]
         /\ x_dco_incr_high' \in 0 .. HALF - 1
         /\ between' \in BOOLEAN /\ mixed' \in [Ch -> SUBSET Kind]
<1>1. DOMAIN new = K /\ \A k \in K : new[k] \in Rate
  OBVIOUS
<1>2. \A k \in K : High(new[k]) \in 0 .. HALF - 1 /\ Written(new[k]) = new[k]
  BY <1>1, Halves, WrittenRight
<1>3. freq' \in [Ch -> [Kind -> Rate]]
  <2>1. [k \in Kind |-> IF k \in DOMAIN new THEN new[k] ELSE freq[c][k]]
          \in [Kind -> Rate]
    BY <1>1 DEF TypeOK
  <2> QED
    BY <2>1 DEF TypeOK, SetRates
<1>4. dco' \in [Ch -> [Kind -> Rate]]
  <2>1. [k \in Kind |-> IF k \in DOMAIN new THEN Written(new[k]) ELSE dco[c][k]]
          \in [Kind -> Rate]
    BY <1>1, <1>2 DEF TypeOK
  <2> QED
    BY <2>1 DEF TypeOK, SetRates
<1>5. x_dco_incr_high' \in 0 .. HALF - 1
  <2>1. WrittenLast(c, K) \subseteq K
    BY DEF WrittenLast, Kind
  <2>2. \/ x_dco_incr_high' = x_dco_incr_high
        \/ \E k \in WrittenLast(c, K) : x_dco_incr_high' = High(new[k])
    BY <1>1 DEF SetRates
  <2> QED
    BY <1>2, <2>1, <2>2 DEF TypeOK
<1>6. between' \in BOOLEAN
  BY DEF SetRates
<1>7. mixed' \in [Ch -> SUBSET Kind]
  BY DEF TypeOK, SetRates
<1> QED
  BY <1>3, <1>4, <1>5, <1>6, <1>7

\* The rates written are the ones asked for, and the others are left alone.
LEMMA SetRatesRight ==
  ASSUME TypeOK, NEW c \in Ch, NEW K \in SUBSET Kind, NEW new \in [K -> Rate],
         SetRates(c, new)
  PROVE  /\ \A k \in K : dco'[c][k] = freq'[c][k]
         /\ \A k \in Kind \ K : /\ dco'[c][k] = dco[c][k] /\ freq'[c][k] = freq[c][k]
                                /\ k \in mixed'[c] <=> k \in mixed[c]
         /\ \A d \in Ch \ {c} : /\ dco'[d] = dco[d] /\ freq'[d] = freq[d]
                                /\ mixed'[d] = mixed[d]
         /\ ~between' => x_dco_incr_high' = x_dco_incr_high /\ ~between
<1>1. DOMAIN new = K /\ \A k \in K : new[k] \in Rate /\ k \in Kind
  OBVIOUS
<1>2. \A k \in K : Written(new[k]) = new[k]
  BY <1>1, WrittenRight
<1>3. /\ \A k \in K : dco'[c][k] = Written(new[k]) /\ freq'[c][k] = new[k]
      /\ \A k \in Kind \ K : dco'[c][k] = dco[c][k] /\ freq'[c][k] = freq[c][k]
  BY <1>1 DEF TypeOK, SetRates
<1>4. \A k \in Kind \ K : k \in mixed'[c] <=> k \in mixed[c]
  BY <1>1 DEF TypeOK, SetRates
<1>5. \A d \in Ch \ {c} : dco'[d] = dco[d] /\ freq'[d] = freq[d] /\ mixed'[d] = mixed[d]
  BY DEF TypeOK, SetRates
<1>6. ~between' => x_dco_incr_high' = x_dco_incr_high /\ ~between
  BY <1>1 DEF SetRates
<1> QED
  BY <1>2, <1>3, <1>4, <1>5, <1>6

-----------------------------------------------------------------------------
(* Types.                                                                  *)

LEMMA TypeInit == Init => TypeOK
<1> SUFFICES ASSUME Init PROVE TypeOK
  OBVIOUS
<1>1. 0 \in Rate /\ 0 \in 0 .. HALF - 1 /\ 0 \in 0 .. PULL_IN_TIME /\ 0 \in 0 .. LOUD + 1
  <2>1. 0 * HALF = 0 /\ HALF \in Int /\ HALF > 0
    BY DcoAssumption
  <2>2. HALF * HALF >= 1
    BY <2>1
  <2> QED
    BY <2>1, <2>2, DcoAssumption DEF Rate
<1> QED
  BY <1>1 DEF Init, TypeOK

LEMMA TypeNext == TypeOK /\ [Next]_vars => TypeOK'
<1> SUFFICES ASSUME TypeOK, [Next]_vars PROVE TypeOK'
  OBVIOUS
<1> USE DEF TypeOK
<1>1. ASSUME NEW c \in Ch, acquire(c) PROVE TypeOK'
  <2>1. CASE \E f \in Rate : SetRates(c, [k \in {"carrier"} |-> f]) /\ UNCHANGED state
    <3>1. PICK f \in Rate : SetRates(c, [k \in {"carrier"} |-> f])
      BY <2>1
    <3>2. {"carrier"} \in SUBSET Kind /\ [k \in {"carrier"} |-> f] \in [{"carrier"} -> Rate]
      BY DEF Kind
    <3> QED
      BY <1>1, <2>1, <3>1, <3>2, SetRatesType DEF acquire, threadVars
  <2>2. CASE /\ \E s \in {"CONFIRM", "OFF"} : state' = [state EXCEPT ![c] = s]
             /\ UNCHANGED <<x_dco_incr_high, dco, freq, between, mixed>>
    BY <1>1, <2>2 DEF acquire, threadVars
  <2> QED
    BY <1>1, <2>1, <2>2 DEF acquire
<1>2. ASSUME NEW c \in Ch, confirm(c) PROVE TypeOK'
  <2>1. /\ UNCHANGED <<x_dco_incr_high, dco, freq, between, mixed, a_pc, a_ch>>
        /\ \E s \in {"PULL_IN", "ACQUISITION"} : state' = [state EXCEPT ![c] = s]
    BY <1>2 DEF confirm, threadVars
  <2>2. \/ ch_time' = [ch_time EXCEPT ![c] = 0] /\ sum' = [sum EXCEPT ![c] = 0]
        \/ UNCHANGED <<ch_time, sum>>
    BY <1>2 DEF confirm
  <2>3. 0 \in 0 .. PULL_IN_TIME /\ 0 \in 0 .. LOUD + 1
    BY DcoAssumption
  <2>4. ch_time' \in [Ch -> 0 .. PULL_IN_TIME] /\ sum' \in [Ch -> 0 .. LOUD + 1]
    BY <2>2, <2>3
  <2> QED
    BY <2>1, <2>4
<1>3. ASSUME NEW c \in Ch, pull_in(c) PROVE TypeOK'
  <2>0. PICK signal \in BOOLEAN, turned \in BOOLEAN :
          \E new \in [Looped(c, signal, turned) -> Rate] : SetRates(c, new)
    BY <1>3 DEF pull_in
  <2> DEFINE K == Looped(c, signal, turned)
  <2>1. PICK new \in [K -> Rate] : SetRates(c, new)
    BY <2>0
  <2>5. K \in SUBSET Kind
    BY DEF Looped
  <2>2. ch_time' \in [Ch -> 0 .. PULL_IN_TIME]
    BY <1>3, DcoAssumption DEF pull_in
  <2>3. sum' \in [Ch -> 0 .. LOUD + 1]
    BY <1>3, DcoAssumption DEF pull_in
  <2>4. state' \in [Ch -> {"OFF", "ACQUISITION", "CONFIRM", "PULL_IN", "LOCK"}]
    BY <1>3 DEF pull_in
  <2> QED
    BY <1>3, <2>1, <2>2, <2>3, <2>4, <2>5, SetRatesType DEF pull_in, threadVars
<1>4. ASSUME NEW c \in Ch, lock(c) PROVE TypeOK'
  <2>0. PICK K \in SUBSET Kind : \E new \in [K -> Rate] : SetRates(c, new)
    BY <1>4 DEF lock
  <2>1. PICK new \in [K -> Rate] : SetRates(c, new)
    BY <2>0
  <2> QED
    BY <1>4, <2>1, SetRatesType DEF lock, threadVars
<1>5. ASSUME NEW c \in Ch, SetCarrierHigh(c) PROVE TypeOK'
  BY <1>5, References, Halves DEF SetCarrierHigh, channelVars
<1>6. ASSUME NEW k \in Kind, SetLow(k), a_pc' \in {"code_high", "done"} PROVE TypeOK'
  BY <1>6, LatchedType DEF SetLow, channelVars
<1>7. CASE SetCarrierLow
  BY <1>6, <1>7 DEF SetCarrierLow, Kind
<1>8. CASE SetCodeHigh
  BY <1>8, References, Halves DEF SetCodeHigh, channelVars
<1>9. CASE SetCodeLow
  BY <1>6, <1>9 DEF SetCodeLow, Kind
<1>10. CASE SetAcquisition
  BY <1>10, DcoAssumption DEF SetAcquisition
<1>11. CASE UNCHANGED vars
  BY <1>11 DEF vars, channelVars, threadVars
<1> QED
  BY <1>1, <1>2, <1>3, <1>4, <1>5, <1>7, <1>8, <1>9, <1>10, <1>11 DEF Next

\* Every variable keeps its type: each half fits its register.
THEOREM TypeCorrect == Spec => []TypeOK
<1>1. Init => TypeOK
  BY TypeInit
<1>2. TypeOK /\ [Next]_vars => TypeOK'
  BY TypeNext
<1> QED
  BY <1>1, <1>2, PTL DEF Spec

-----------------------------------------------------------------------------
(* The invariant.                                                          *)

\* The allocate thread works on a channel that the DSR leaves alone ...
OnOff == a_pc # "wait" => state[a_ch] = "OFF"

\* ... and between its two writes the upper register holds its half, if the DSR has
\* not written.
HalfKept ==
  ~between => /\ a_pc = "carrier_low" => x_dco_incr_high = High(freq[a_ch]["carrier"])
              /\ a_pc = "code_low" => x_dco_incr_high = High(freq[a_ch]["code"])

\* A wrong code rate is left by the dumps before the code loop was closed, and these
\* are all that the sum can be of.
FewDumps(c) == sum[c] <= ch_time[c] /\ sum[c] <= CODE_LOOP + 1
PullInRate ==
  \A c \in Ch : state[c] = "PULL_IN" => dco[c]["code"] = freq[c]["code"] \/ FewDumps(c)

IInv == TypeOK /\ OnOff /\ HalfKept /\ RateAsked /\ PullInRate /\ LockedCodeRate

\* A step of the DSR at a channel that is not off.
LEMMA LoopStep ==
  ASSUME IInv, TypeOK', NEW c \in Ch, state[c] # "OFF", UNCHANGED threadVars,
         NEW K \in SUBSET Kind, NEW new \in [K -> Rate], SetRates(c, new),
         \A d \in Ch \ {c} : state'[d] = state[d] /\ ch_time'[d] = ch_time[d]
                             /\ sum'[d] = sum[d],
         state'[c] = "PULL_IN" => dco'[c]["code"] = freq'[c]["code"] \/ FewDumps(c)',
         state'[c] = "LOCK" => dco'[c]["code"] = freq'[c]["code"]
  PROVE  IInv'
<1> USE DEF IInv
<1>1. /\ \A k \in K : dco'[c][k] = freq'[c][k]
      /\ \A k \in Kind \ K : /\ dco'[c][k] = dco[c][k] /\ freq'[c][k] = freq[c][k]
                             /\ k \in mixed'[c] <=> k \in mixed[c]
      /\ \A d \in Ch \ {c} : /\ dco'[d] = dco[d] /\ freq'[d] = freq[d]
                             /\ mixed'[d] = mixed[d]
      /\ ~between' => x_dco_incr_high' = x_dco_incr_high /\ ~between
  BY SetRatesRight
<1>2. a_pc' = a_pc /\ a_ch' = a_ch /\ (a_pc # "wait" => a_ch # c)
  BY DEF threadVars, OnOff
<1>3. OnOff'
  BY <1>2 DEF OnOff, TypeOK
<1>4. HalfKept'
  BY <1>1, <1>2 DEF HalfKept, TypeOK
<1>5. RateAsked'
  BY <1>1, <1>2 DEF RateAsked, HalfWritten
<1>6. PullInRate'
  BY <1>1 DEF PullInRate, FewDumps
<1>7. LockedCodeRate'
  BY <1>1 DEF LockedCodeRate
<1> QED
  BY <1>3, <1>4, <1>5, <1>6, <1>7

\* A step that writes no rate and leaves the allocate thread where it is.
LEMMA QuietStep ==
  ASSUME IInv, TypeOK', NEW c \in Ch, state[c] # "OFF", UNCHANGED threadVars,
         UNCHANGED <<x_dco_incr_high, dco, freq, between, mixed>>,
         \A d \in Ch \ {c} : state'[d] = state[d] /\ ch_time'[d] = ch_time[d]
                             /\ sum'[d] = sum[d],
         state'[c] = "PULL_IN" => FewDumps(c)',
         state'[c] # "LOCK"
  PROVE  IInv'
<1> USE DEF IInv
<1>1. a_pc' = a_pc /\ a_ch' = a_ch /\ (a_pc # "wait" => a_ch # c)
  BY DEF threadVars, OnOff
<1>2. OnOff'
  BY <1>1 DEF OnOff, TypeOK
<1>3. HalfKept' /\ RateAsked'
  BY <1>1 DEF HalfKept, RateAsked, HalfWritten
<1>4. PullInRate' /\ LockedCodeRate'
  BY DEF PullInRate, FewDumps, LockedCodeRate
<1> QED
  BY <1>2, <1>3, <1>4

LEMMA IInvInit == Init => IInv
<1> SUFFICES ASSUME Init PROVE IInv
  OBVIOUS
<1>1. TypeOK
  BY TypeInit
<1>2. OnOff /\ HalfKept /\ RateAsked /\ PullInRate /\ LockedCodeRate
  BY DEF Init, OnOff, HalfKept, RateAsked, PullInRate, LockedCodeRate
<1> QED
  BY <1>1, <1>2 DEF IInv

LEMMA IInvAcquire ==
  ASSUME IInv, TypeOK', NEW c \in Ch, acquire(c)
  PROVE  IInv'
<1>1. state[c] = "ACQUISITION" /\ UNCHANGED <<ch_time, sum, threadVars>>
  BY DEF acquire
<1>2. CASE \E f \in Rate : SetRates(c, [k \in {"carrier"} |-> f]) /\ UNCHANGED state
  <2>1. PICK f \in Rate : SetRates(c, [k \in {"carrier"} |-> f])
    BY <1>2
  <2>2. {"carrier"} \in SUBSET Kind /\ [k \in {"carrier"} |-> f] \in [{"carrier"} -> Rate]
    BY DEF Kind
  <2>3. state' = state
    BY <1>2
  <2> QED
    BY <1>1, <2>1, <2>2, <2>3, LoopStep
<1>3. CASE /\ \E s \in {"CONFIRM", "OFF"} : state' = [state EXCEPT ![c] = s]
           /\ UNCHANGED <<x_dco_incr_high, dco, freq, between, mixed>>
  <2>1. state'[c] \in {"CONFIRM", "OFF"} /\ \A d \in Ch \ {c} : state'[d] = state[d]
    BY <1>3 DEF IInv, TypeOK
  <2> QED
    BY <1>1, <1>3, <2>1, QuietStep
<1> QED
  BY <1>2, <1>3 DEF acquire

LEMMA IInvConfirm ==
  ASSUME IInv, TypeOK', NEW c \in Ch, confirm(c)
  PROVE  IInv'
<1>1. /\ state[c] = "CONFIRM" /\ UNCHANGED threadVars
      /\ UNCHANGED <<x_dco_incr_high, dco, freq, between, mixed>>
  BY DEF confirm
<1>2. PICK s \in {"PULL_IN", "ACQUISITION"} :
        /\ state' = [state EXCEPT ![c] = s]
        /\ IF s = "PULL_IN" THEN /\ ch_time' = [ch_time EXCEPT ![c] = 0]
                                 /\ sum' = [sum EXCEPT ![c] = 0]
                            ELSE UNCHANGED <<ch_time, sum>>
  BY DEF confirm
<1>3. state'[c] = s /\ \A d \in Ch \ {c} : state'[d] = state[d]
  BY <1>2 DEF IInv, TypeOK
<1>4. \A d \in Ch \ {c} : ch_time'[d] = ch_time[d] /\ sum'[d] = sum[d]
  BY <1>2 DEF IInv, TypeOK
<1>5. s = "PULL_IN" => FewDumps(c)'
  <2>1. s = "PULL_IN" => ch_time'[c] = 0 /\ sum'[c] = 0
    BY <1>2 DEF IInv, TypeOK
  <2> QED
    BY <2>1, DcoAssumption DEF FewDumps
<1> QED
  BY <1>1, <1>2, <1>3, <1>4, <1>5, QuietStep

LEMMA IInvPullIn ==
  ASSUME IInv, TypeOK', NEW c \in Ch, pull_in(c)
  PROVE  IInv'
<1>1. /\ state[c] = "PULL_IN" /\ UNCHANGED threadVars
      /\ ch_time' = [ch_time EXCEPT ![c] = IF @ < PULL_IN_TIME THEN @ + 1 ELSE @]
      /\ \/ UNCHANGED state
         \/ Strong(sum'[c]) /\ state' = [state EXCEPT ![c] = "LOCK"]
         \/ state' = [state EXCEPT ![c] = "OFF"]
  BY DEF pull_in
<1>2. PICK signal \in BOOLEAN, turned \in BOOLEAN :
        /\ \E new \in [Looped(c, signal, turned) -> Rate] : SetRates(c, new)
        /\ sum' = [sum EXCEPT ![c] = IF signal /\ @ <= LOUD THEN @ + 1 ELSE @]
  BY DEF pull_in
<1> DEFINE K == Looped(c, signal, turned)
<1>3. PICK new \in [K -> Rate] : SetRates(c, new)
  BY <1>2
<1>4. K \in SUBSET Kind
  BY DEF Looped
<1>5. \A d \in Ch \ {c} : state'[d] = state[d] /\ ch_time'[d] = ch_time[d]
                          /\ sum'[d] = sum[d]
  BY <1>1, <1>2 DEF IInv, TypeOK
<1>6. dco'[c]["code"] = freq'[c]["code"] \/ FewDumps(c)'
  <2>1. CASE "code" \in K
    BY <1>3, <1>4, <2>1, SetRatesRight DEF IInv
  <2>2. CASE "code" \notin K
    <3>1. ~signal \/ ch_time[c] <= CODE_LOOP
      BY <2>2, DcoAssumption DEF Looped, Kind, IInv, TypeOK
    <3>2. dco'[c]["code"] = dco[c]["code"] /\ freq'[c]["code"] = freq[c]["code"]
      BY <1>3, <1>4, <2>2, SetRatesRight DEF IInv, Kind
    <3>3. CASE FewDumps(c)
      <4>1. /\ ch_time[c] \in Int /\ sum[c] \in Int
            /\ ch_time'[c] = IF ch_time[c] < PULL_IN_TIME THEN ch_time[c] + 1
                                                          ELSE ch_time[c]
            /\ sum'[c] = IF signal /\ sum[c] <= LOUD THEN sum[c] + 1 ELSE sum[c]
        BY <1>1, <1>2 DEF IInv, TypeOK
      <4> QED
        BY <3>1, <3>3, <4>1, DcoAssumption DEF FewDumps
    <3> QED
      BY <1>1, <3>2, <3>3 DEF IInv, PullInRate
  <2> QED
    BY <2>1, <2>2
<1>7. state'[c] = "LOCK" => dco'[c]["code"] = freq'[c]["code"]
  <2>1. state'[c] = "LOCK" => Strong(sum'[c])
    BY <1>1 DEF IInv, TypeOK
  <2>2. FewDumps(c)' => ~Strong(sum'[c])
    BY DcoAssumption DEF FewDumps, Strong, TypeOK
  <2> QED
    BY <1>6, <2>1, <2>2
<1> HIDE DEF K
<1> QED
  BY <1>1, <1>3, <1>4, <1>5, <1>6, <1>7, LoopStep

LEMMA IInvLock ==
  ASSUME IInv, TypeOK', NEW c \in Ch, lock(c)
  PROVE  IInv'
<1>1. /\ state[c] = "LOCK" /\ UNCHANGED <<ch_time, sum, threadVars>>
      /\ \E s \in {"LOCK", "OFF"} : state' = [state EXCEPT ![c] = s]
  BY DEF lock
<1>2. PICK K \in SUBSET Kind : \E new \in [K -> Rate] : SetRates(c, new)
  BY DEF lock
<1>3. PICK new \in [K -> Rate] : SetRates(c, new)
  BY <1>2
<1>4. state'[c] \in {"LOCK", "OFF"} /\ \A d \in Ch \ {c} : state'[d] = state[d]
  BY <1>1 DEF IInv, TypeOK
<1>5. dco'[c]["code"] = freq'[c]["code"]
  BY <1>1, <1>3, SetRatesRight DEF IInv, LockedCodeRate, Kind
<1> QED
  BY <1>1, <1>3, <1>4, <1>5, LoopStep

-----------------------------------------------------------------------------
(* The allocate thread.                                                    *)

\* A channel that is off is bound by neither of the two claims about the code rate.
LEMMA OthersKept ==
  ASSUME PullInRate, LockedCodeRate, TypeOK, NEW c \in Ch, state[c] = "OFF",
         UNCHANGED <<state, ch_time, sum>>,
         \A d \in Ch \ {c} : dco'[d] = dco[d] /\ freq'[d] = freq[d]
  PROVE  PullInRate' /\ LockedCodeRate'
BY DEF PullInRate, LockedCodeRate, FewDumps

LEMMA IInvSetCarrierHigh ==
  ASSUME IInv, TypeOK', NEW c \in Ch, SetCarrierHigh(c)
  PROVE  IInv'
<1> USE DEF IInv
<1>1. /\ a_pc = "wait" /\ state[c] = "OFF" /\ a_pc' = "carrier_low" /\ a_ch' = c
      /\ x_dco_incr_high' = High(CARRIER_REF) /\ ~between'
      /\ UNCHANGED <<dco, state, ch_time, sum, mixed>>
  BY DEF SetCarrierHigh, channelVars
<1>2. /\ freq'[c]["carrier"] = CARRIER_REF /\ freq'[c]["code"] = freq[c]["code"]
      /\ \A d \in Ch \ {c} : freq'[d] = freq[d]
  BY DEF SetCarrierHigh, TypeOK, Kind
<1>3. OnOff' /\ HalfKept'
  BY <1>1, <1>2 DEF OnOff, HalfKept
<1>4. RateAsked'
  BY <1>1, <1>2 DEF RateAsked, HalfWritten, Kind
<1>5. PullInRate' /\ LockedCodeRate'
  BY <1>1, <1>2, OthersKept
<1> QED
  BY <1>3, <1>4, <1>5

LEMMA IInvSetCodeHigh ==
  ASSUME IInv, TypeOK', SetCodeHigh
  PROVE  IInv'
<1> USE DEF IInv
<1>1. /\ a_pc = "code_high" /\ a_pc' = "code_low" /\ a_ch' = a_ch
      /\ x_dco_incr_high' = High(CODE_REF) /\ ~between'
      /\ UNCHANGED <<dco, state, ch_time, sum, mixed>>
  BY DEF SetCodeHigh, channelVars
<1>2. /\ freq'[a_ch]["code"] = CODE_REF
      /\ freq'[a_ch]["carrier"] = freq[a_ch]["carrier"]
      /\ \A d \in Ch \ {a_ch} : freq'[d] = freq[d]
  BY DEF SetCodeHigh, TypeOK, Kind
<1>3. OnOff' /\ HalfKept'
  BY <1>1, <1>2 DEF OnOff, HalfKept
<1>4. RateAsked'
  BY <1>1, <1>2 DEF RateAsked, HalfWritten, Kind
<1>5. a_ch \in Ch /\ state[a_ch] = "OFF"
  BY <1>1 DEF TypeOK, OnOff
<1>6. PullInRate' /\ LockedCodeRate'
  BY <1>1, <1>2, <1>5, OthersKept
<1> QED
  BY <1>3, <1>4, <1>6

LEMMA IInvSetLow ==
  ASSUME IInv, TypeOK', NEW k \in Kind, SetLow(k),
         \/ k = "carrier" /\ a_pc = "carrier_low" /\ a_pc' = "code_high"
         \/ k = "code" /\ a_pc = "code_low" /\ a_pc' = "done"
  PROVE  IInv'
<1> USE DEF IInv
<1>1. UNCHANGED <<x_dco_incr_high, freq, state, ch_time, sum, a_ch, between>>
  BY DEF SetLow, channelVars
<1>2. a_ch \in Ch /\ state[a_ch] = "OFF"
  BY DEF TypeOK, OnOff
<1>3. /\ dco'[a_ch][k] = Latched(x_dco_incr_high, freq[a_ch][k])
      /\ \A j \in Kind \ {k} : dco'[a_ch][j] = dco[a_ch][j]
      /\ \A d \in Ch \ {a_ch} : dco'[d] = dco[d]
  BY <1>2 DEF SetLow, TypeOK
<1>4. /\ k \in mixed'[a_ch] <=> between
      /\ \A j \in Kind \ {k} : j \in mixed'[a_ch] <=> j \in mixed[a_ch]
      /\ \A d \in Ch \ {a_ch} : mixed'[d] = mixed[d]
  BY <1>2 DEF SetLow, TypeOK
<1>5. ~between => dco'[a_ch][k] = freq[a_ch][k]
  <2>1. SUFFICES ASSUME ~between PROVE dco'[a_ch][k] = freq[a_ch][k]
    OBVIOUS
  <2>2. x_dco_incr_high = High(freq[a_ch][k])
    BY <2>1 DEF HalfKept
  <2>3. freq[a_ch][k] \in Rate
    BY <1>2 DEF TypeOK
  <2> QED
    BY <1>3, <2>2, <2>3, WrittenRight
<1>6. OnOff' /\ HalfKept'
  BY <1>1 DEF OnOff, HalfKept
<1>7. RateAsked'
  <2> SUFFICES ASSUME NEW d \in Ch, NEW j \in Kind
               PROVE  (dco[d][j] = freq[d][j] \/ j \in mixed[d] \/ HalfWritten(d, j))'
    BY DEF RateAsked
  <2>1. CASE d = a_ch /\ j = k
    BY <1>1, <1>4, <1>5, <2>1
  <2>2. CASE d = a_ch /\ j # k
    BY <1>1, <1>3, <1>4, <2>2 DEF RateAsked, HalfWritten
  <2>3. CASE d # a_ch
    BY <1>1, <1>3, <1>4, <2>3 DEF RateAsked, HalfWritten
  <2> QED
    BY <2>1, <2>2, <2>3
<1>8. PullInRate' /\ LockedCodeRate'
  BY <1>1, <1>2, <1>3, OthersKept
<1> QED
  BY <1>6, <1>7, <1>8

LEMMA IInvSetAcquisition ==
  ASSUME IInv, TypeOK', SetAcquisition
  PROVE  IInv'
<1> USE DEF IInv
<1>1. /\ a_pc = "done" /\ a_pc' = "wait" /\ a_ch' = a_ch
      /\ UNCHANGED <<x_dco_incr_high, dco, freq, ch_time, between, mixed>>
  BY DEF SetAcquisition
<1>2. /\ state'[a_ch] = "ACQUISITION" /\ a_ch \in Ch
      /\ \A d \in Ch \ {a_ch} : state'[d] = state[d] /\ sum'[d] = sum[d]
  BY DEF SetAcquisition, TypeOK
<1>3. OnOff' /\ HalfKept' /\ RateAsked'
  BY <1>1 DEF OnOff, HalfKept, RateAsked, HalfWritten
<1>4. PullInRate' /\ LockedCodeRate'
  BY <1>1, <1>2 DEF PullInRate, LockedCodeRate, FewDumps
<1> QED
  BY <1>3, <1>4

LEMMA IInvNext == IInv /\ [Next]_vars => IInv'
<1> SUFFICES ASSUME IInv, [Next]_vars PROVE IInv'
  OBVIOUS
<1>1. TypeOK'
  BY TypeNext DEF IInv
<1>2. CASE SetCarrierLow
  BY <1>1, <1>2, IInvSetLow DEF SetCarrierLow, Kind
<1>3. CASE SetCodeLow
  BY <1>1, <1>3, IInvSetLow DEF SetCodeLow, Kind
<1>4. CASE UNCHANGED vars
  BY <1>1, <1>4 DEF vars, channelVars, threadVars, IInv, OnOff, HalfKept, RateAsked,
                    HalfWritten, PullInRate, FewDumps, LockedCodeRate
<1> QED
  BY <1>1, <1>2, <1>3, <1>4, IInvAcquire, IInvConfirm, IInvPullIn, IInvLock,
     IInvSetCarrierHigh, IInvSetCodeHigh, IInvSetAcquisition DEF Next

LEMMA IInvHolds == Spec => []IInv
<1>1. Init => IInv
  BY IInvInit
<1>2. IInv /\ [Next]_vars => IInv'
  BY IInvNext
<1> QED
  BY <1>1, <1>2, PTL DEF Spec

\* For any number of channels and width of the registers a channel runs at the rates
\* asked for, but for those that the DSR wrote in the middle of.
THEOREM RateAskedCorrect == Spec => []RateAsked
<1>1. IInv => RateAsked
  BY DEF IInv
<1> QED
  BY <1>1, IInvHolds, PTL

\* A channel in lock runs at the code rate asked for.
THEOREM LockedCodeRateCorrect == Spec => []LockedCodeRate
<1>1. IInv => LockedCodeRate
  BY DEF IInv
<1> QED
  BY <1>1, IInvHolds, PTL

-----------------------------------------------------------------------------
(* The second serial port.                                                 *)

LEMMA PortNumbers ==
  /\ N_CHANNELS \in Nat /\ N_CHANNELS >= 1
  /\ PART \in Nat /\ PAGE \in Nat /\ PAGE >= 1
  /\ MODES \in Nat /\ MODES >= 1 /\ VERSIONS \in Nat
  /\ RECORD \in Nat /\ RECORD >= 1
<1>1. PARTS \in Nat /\ PARTS >= 1 /\ PART \in Nat /\ PART >= 1
  BY ConsoleAssumption
<1>2. (PARTS - 1) * PART >= 0 /\ PARTS * PART = (PARTS - 1) * PART + PART
  BY <1>1
<1>3. PARTS * PART \in Nat
  BY <1>1
<1> QED
  BY <1>1, <1>2, <1>3, ConsoleAssumption DEF RECORD

\* The register holds a character of the log.
OfLog == IF tx = "log" THEN 1 ELSE 0

\* Characters of the record that were written and are neither out nor in the register.
Lost == p_at - arrived - OfLog

\* Where the position thread is in a record, and what the register can hold then.
Place ==
  /\ p_pc \in {"format", "poll", "write"} => p_at < RECORD
  /\ ~Printing => p_at = 0 /\ read = {}
  /\ p_pc = "write" => tx # "log"
  /\ arrived = -1 => tx = "log"
  /\ arrived + OfLog <= p_at

\* Between the test and the write a page is one more than the characters lost.
Count ==
  /\ Lost <= pages
  /\ p_pc = "write" /\ (~Sleeping \/ tx = "page") => Lost < pages

\* A record of which no part is read from two data sets, or the channel's is marked.
Reading ==
  Printing /\ p_ch \in Channels =>
    /\ logged[p_ch] = "cut" \/ read \subseteq {ephemeris[p_ch]}
    /\ p_pc # "format" => read # {}

LInv == ConsoleTypeOK /\ Place /\ Count /\ Reading /\ EphemerisLogged

\* No step leaves the types.
LEMMA PortType ==
  ASSUME ConsoleTypeOK, Place, [ConsoleNext]_consoleVars
  PROVE  ConsoleTypeOK'
<1> USE PortNumbers
<1>1. CASE Transmit
  <2>1. arrived' \in -1 .. RECORD
    BY <1>1 DEF Transmit, ConsoleTypeOK, Place, OfLog
  <2> QED
    BY <1>1, <2>1 DEF Transmit, ConsoleTypeOK, displayVars, positionVars, ephemerisVars
<1>2. CASE DisplayWake
  <2>1. PICK key \in Command, got_byte \in BOOLEAN :
          /\ ~got_byte => key = display_command
          /\ display_command' = key
          /\ ephemeris_mode' = IF ~got_byte THEN ephemeris_mode
                              ELSE IF PastLast(key) THEN 0 ELSE NewMode(key)
          /\ IF key \in Page
               THEN /\ current_display' = key
                    /\ d_left' = (IF current_display # key THEN PAGE ELSE 0)
                                 + (IF got_byte /\ PastLast(key) THEN 0 ELSE PAGE)
               ELSE UNCHANGED <<current_display, d_left>>
    BY <1>2 DEF DisplayWake
  <2>2. display_command' \in Command
    BY <2>1
  <2>3. ephemeris_mode' \in 0 .. MODES - 1
    BY <2>1 DEF PastLast, NewMode, ConsoleTypeOK
  <2>4. current_display' \in Page \cup {None} /\ d_left' \in 0 .. 2 * PAGE
    BY <2>1 DEF ConsoleTypeOK
  <2>5. pages' \in 0 .. RECORD
    BY <1>2 DEF DisplayWake, ConsoleTypeOK
  <2>6. UNCHANGED <<tx, positionVars, ephemerisVars, arrived>>
    BY <1>2 DEF DisplayWake
  <2> QED
    BY <2>2, <2>3, <2>4, <2>5, <2>6 DEF ConsoleTypeOK, positionVars, ephemerisVars
<1>3. CASE DisplaySend
  BY <1>3 DEF DisplaySend, ConsoleTypeOK, Sleeping, positionVars, ephemerisVars,
              seenVars
<1>4. CASE PositionWake
  BY <1>4 DEF PositionWake, Begin, ConsoleTypeOK, displayVars, ephemerisVars, seenVars
<1>5. CASE log_ephemeris
  BY <1>5 DEF log_ephemeris, Channels, ConsoleTypeOK, displayVars, ephemerisVars,
              seenVars
<1>6. CASE NextChannel
  <2>1. p_pc' \in {"wait", "channel", "format"}
    BY <1>6, Zenon DEF NextChannel, Begin
  <2>2. p_ch' \in Channels \cup {N_CHANNELS}
    BY <1>6 DEF NextChannel, Begin, Channels, ConsoleTypeOK
  <2>3. UNCHANGED <<tx, displayVars, p_at, read, ephemerisVars, seenVars>>
    BY <1>6, Zenon DEF NextChannel, Begin
  <2> QED
    BY <2>1, <2>2, <2>3 DEF ConsoleTypeOK, displayVars, ephemerisVars, seenVars
<1>7. CASE Format
  <2>1. read' \subseteq 0 .. VERSIONS
    BY <1>7 DEF Format, ConsoleTypeOK
  <2> QED
    BY <1>7, <2>1 DEF Format, ConsoleTypeOK, displayVars, ephemerisVars, seenVars
<1>8. CASE Poll
  BY <1>8 DEF Poll, ConsoleTypeOK, displayVars, ephemerisVars, seenVars
<1>9. CASE Write
  <2>1. p_at' \in 0 .. RECORD
    BY <1>9 DEF Write, ConsoleTypeOK, Place
  <2>2. tx' \in {None, "log", "page"}
    BY <1>9 DEF Write, ConsoleTypeOK
  <2>3. p_pc' \in {"wait", "eph", "channel", "format", "poll", "write", "end"}
    BY <1>9, Zenon DEF Write
  <2> QED
    BY <1>9, <2>1, <2>2, <2>3 DEF Write, ConsoleTypeOK, displayVars, ephemerisVars,
                                  seenVars
<1>10. CASE End
  <2>1. /\ p_pc' \in {"wait", "eph", "channel", "format", "poll", "write", "end"}
        /\ p_ch' \in Channels \cup {N_CHANNELS}
    BY <1>10 DEF End, Channels, ConsoleTypeOK
  <2>2. /\ log_eph' \in [Channels -> BOOLEAN]
        /\ logged' \in [Channels -> {"no", "whole", "cut"}]
    BY <1>10, Zenon DEF End, FlagCleared, ConsoleTypeOK
  <2>3. /\ p_at' \in 0 .. RECORD /\ arrived' \in -1 .. RECORD
        /\ pages' \in 0 .. RECORD
    BY <1>10 DEF End
  <2> QED
    BY <1>10, <2>1, <2>2, <2>3 DEF End, ConsoleTypeOK, displayVars
<1>11. ASSUME NEW c \in Channels, update_ephemeris(c) \/ clear_ephemeris(c)
       PROVE  ConsoleTypeOK'
  <2>1. PICK v \in 0 .. VERSIONS : Changes(c, v)
    BY <1>11 DEF update_ephemeris, clear_ephemeris, NotValid
  <2>2. log_eph' \in [Channels -> BOOLEAN]
    BY <1>11 DEF update_ephemeris, clear_ephemeris, ConsoleTypeOK
  <2> QED
    BY <2>1, <2>2 DEF Changes, ConsoleTypeOK, displayVars, positionVars, seenVars
<1>12. CASE UNCHANGED consoleVars
  BY <1>12 DEF consoleVars, ConsoleTypeOK, displayVars, positionVars, ephemerisVars,
               seenVars
<1> QED
  BY <1>1, <1>2, <1>3, <1>4, <1>5, <1>6, <1>7, <1>8, <1>9, <1>10, <1>11, <1>12
     DEF ConsoleNext, PositionThread

\* The place in the record and the characters lost.
LEMMA PortCount ==
  ASSUME ConsoleTypeOK, Place, Count, [ConsoleNext]_consoleVars
  PROVE  Place' /\ Count'
<1> USE PortNumbers
<1>1. CASE Transmit
  BY <1>1 DEF Transmit, ConsoleTypeOK, Place, Count, Lost, OfLog, Printing, Sleeping,
              None, displayVars, positionVars
<1>2. CASE DisplayWake
  <2>1. /\ tx # "page" /\ Sleeping
        /\ UNCHANGED <<tx, p_pc, p_at, read, arrived>>
        /\ pages' = IF Printing /\ d_left' > 0 /\ pages < RECORD
                      THEN pages + 1 ELSE pages
    BY <1>2 DEF DisplayWake, positionVars
  <2>2. d_left' \in Nat
    BY <1>2, PortType DEF ConsoleTypeOK, ConsoleNext
  <2> QED
    BY <2>1, <2>2 DEF ConsoleTypeOK, Place, Count, Lost, OfLog, Printing, Sleeping
<1>3. CASE DisplaySend
  BY <1>3 DEF DisplaySend, ConsoleTypeOK, Place, Count, Lost, OfLog, Printing, Sleeping,
              TxEmpty, None, positionVars, seenVars
<1>4. CASE PositionWake
  <2>1. /\ p_pc = "wait" /\ p_pc' \in {"format", "eph"}
        /\ UNCHANGED <<tx, d_left, p_at, read, arrived, pages>>
    BY <1>4, Zenon DEF PositionWake, Begin, displayVars, seenVars
  <2> QED
    BY <2>1 DEF ConsoleTypeOK, Place, Count, Lost, OfLog, Printing, Sleeping
<1>5. CASE log_ephemeris
  BY <1>5 DEF log_ephemeris, ConsoleTypeOK, Place, Count, Lost, OfLog, Printing,
              Sleeping, displayVars, seenVars
<1>6. CASE NextChannel
  <2>1. /\ p_pc = "channel" /\ p_pc' \in {"format", "wait", "channel"}
        /\ UNCHANGED <<tx, d_left, p_at, read, arrived, pages>>
    BY <1>6, Zenon DEF NextChannel, Begin, displayVars, seenVars
  <2> QED
    BY <2>1 DEF ConsoleTypeOK, Place, Count, Lost, OfLog, Printing, Sleeping
<1>7. CASE Format
  BY <1>7 DEF Format, ConsoleTypeOK, Place, Count, Lost, OfLog, Printing, Sleeping,
              displayVars, seenVars
<1>8. CASE Poll
  BY <1>8 DEF Poll, ConsoleTypeOK, Place, Count, Lost, OfLog, Printing, Sleeping,
              TxEmpty, None, displayVars, seenVars
<1>9. CASE Write
  <2>1. /\ p_pc = "write" /\ tx' \in {"log"} \cup ({tx} \ {None}) /\ p_at' = p_at + 1
        /\ p_pc' \in {"end", "format", "poll"}
        /\ p_pc' # "end" => p_at' # RECORD
        /\ UNCHANGED <<d_left, read, arrived, pages>>
    BY <1>9, Zenon DEF Write, displayVars, seenVars
  <2> QED
    BY <2>1 DEF ConsoleTypeOK, Place, Count, Lost, OfLog, Printing, Sleeping, None
<1>10. CASE End
  <2>1. /\ p_pc' \in {"channel", "eph"} /\ UNCHANGED tx
        /\ p_at' = 0 /\ read' = {}
        /\ arrived' = (IF tx = "log" THEN -1 ELSE 0) /\ pages' = 0
    BY <1>10, Zenon DEF End
  <2> QED
    BY <2>1 DEF Place, Count, Lost, OfLog, Printing
<1>11. ASSUME NEW c \in Channels, update_ephemeris(c) \/ clear_ephemeris(c)
       PROVE  Place' /\ Count'
  <2>1. UNCHANGED <<tx, displayVars, positionVars, seenVars>>
    BY <1>11 DEF update_ephemeris, clear_ephemeris, Changes
  <2> QED
    BY <2>1 DEF Place, Count, Lost, OfLog, Printing, Sleeping, displayVars,
                positionVars, seenVars
<1>12. CASE UNCHANGED consoleVars
  BY <1>12 DEF consoleVars, Place, Count, Lost, OfLog, Printing, Sleeping, displayVars,
               positionVars, seenVars
<1> QED
  BY <1>1, <1>2, <1>3, <1>4, <1>5, <1>6, <1>7, <1>8, <1>9, <1>10, <1>11, <1>12
     DEF ConsoleNext, PositionThread

\* The data set in the record, and the flags.
LEMMA PortReading ==
  ASSUME ConsoleTypeOK, Place, Reading, EphemerisLogged,
         [ConsoleNext]_consoleVars
  PROVE  Reading' /\ EphemerisLogged'
<1>1. CASE UNCHANGED <<positionVars, ephemerisVars>>
  BY <1>1 DEF positionVars, ephemerisVars, Reading, EphemerisLogged, Printing
<1>2. CASE PositionWake \/ log_ephemeris \/ NextChannel
  <2>1. /\ p_pc' \in {"wait", "eph", "channel", "format"}
        /\ ~Printing /\ read' = read /\ UNCHANGED ephemerisVars
    BY <1>2 DEF PositionWake, log_ephemeris, NextChannel, Begin, Printing
  <2> QED
    BY <2>1 DEF Reading, EphemerisLogged, Printing, Place, ephemerisVars
<1>3. CASE Format
  BY <1>3 DEF Format, Reading, EphemerisLogged, Printing, ephemerisVars
<1>4. CASE Poll \/ Write
  <2>1. /\ p_pc \in {"poll", "write"} /\ UNCHANGED <<p_ch, read, ephemerisVars>>
    BY <1>4 DEF Poll, Write
  <2> QED
    BY <2>1 DEF Reading, EphemerisLogged, Printing, ephemerisVars
<1>5. CASE End
  <2>1. p_pc = "end" /\ p_pc' \in {"channel", "eph"} /\ ephemeris' = ephemeris
    BY <1>5, Zenon DEF End
  <2>2. Reading'
    BY <2>1 DEF Reading, Printing
  <2>3. ASSUME NEW c \in Channels
        PROVE  \/ log_eph'[c] \/ ephemeris'[c] = NotValid
               \/ logged'[c] \in {"whole", "cut"}
    <3>1. log_eph[c] \/ ephemeris[c] = NotValid \/ logged[c] \in {"whole", "cut"}
      BY DEF EphemerisLogged
    <3>2. CASE p_ch = c
      <4>1. logged[c] = "cut" \/ read = {ephemeris[c]}
        BY <2>1, <3>2 DEF Reading, Printing
      <4>2. logged' = IF read = {ephemeris[c]} THEN [logged EXCEPT ![c] = "whole"]
                                               ELSE logged
        BY <1>5, <3>2 DEF End
      <4> QED
        BY <4>1, <4>2 DEF ConsoleTypeOK
    <3>3. CASE p_ch # c
      <4>1. log_eph'[c] = log_eph[c] /\ logged'[c] = logged[c]
        BY <1>5, <3>3 DEF End, FlagCleared, ConsoleTypeOK
      <4> QED
        BY <2>1, <3>1, <4>1
    <3> QED
      BY <3>2, <3>3
  <2> QED
    BY <2>2, <2>3 DEF EphemerisLogged
<1>6. ASSUME NEW c \in Channels, update_ephemeris(c) \/ clear_ephemeris(c)
      PROVE  Reading' /\ EphemerisLogged'
  <2>1. PICK v \in 0 .. VERSIONS : /\ Changes(c, v)
                                   /\ \/ v = NotValid /\ log_eph' = log_eph
                                      \/ log_eph' = [log_eph EXCEPT ![c] = TRUE]
    BY <1>6, PortNumbers DEF update_ephemeris, clear_ephemeris, NotValid
  <2>2. /\ ephemeris' = [ephemeris EXCEPT ![c] = v]
        /\ logged' = [logged EXCEPT ![c] = IF Printing /\ p_ch = c THEN "cut"
                                                                       ELSE "no"]
        /\ UNCHANGED <<p_pc, p_ch, read>>
    BY <2>1 DEF Changes, positionVars
  <2>3. Reading'
    BY <2>2 DEF Reading, Printing, ConsoleTypeOK
  <2>4. EphemerisLogged'
    BY <2>1, <2>2 DEF EphemerisLogged, ConsoleTypeOK
  <2> QED
    BY <2>3, <2>4
<1> QED
  BY <1>1, <1>2, <1>3, <1>4, <1>5, <1>6
     DEF ConsoleNext, PositionThread, Transmit, DisplayWake, DisplaySend, consoleVars

LEMMA PortInductive == ConsoleSpec => []LInv
<1>1. ConsoleInit => LInv
  BY PortNumbers DEF ConsoleInit, LInv, ConsoleTypeOK, Place, Count, Lost, OfLog,
                     Reading, EphemerisLogged, Printing, Sleeping, Command, Page, None,
                     NotValid, Channels
<1>2. LInv /\ [ConsoleNext]_consoleVars => LInv'
  BY PortType, PortCount, PortReading DEF LInv
<1> QED
  BY <1>1, <1>2, PTL DEF ConsoleSpec

\* Types, for any number of channels and length of a record, a part or a page: among
\* them that no more characters of a record come out than it has (log.c).
THEOREM PortTypeCorrect == ConsoleSpec => []ConsoleTypeOK
<1>1. LInv => ConsoleTypeOK
  BY DEF LInv
<1> QED
  BY <1>1, PortInductive, PTL

\* serial.c:38-42: of a record of any length at most one character is lost for each
\* page that was begun in the middle of it.
THEOREM LogWholeCorrect == ConsoleSpec => []LogWhole
<1>1. LInv => LogWhole
  BY DEF LInv, Count, Lost, OfLog, LogWhole
<1> QED
  BY <1>1, PortInductive, PTL

\* log.c:4-6: an ephemeris whose flag is down was logged, of one data set, but when it
\* came while the one before it was being printed.
THEOREM EphemerisLoggedCorrect == ConsoleSpec => []EphemerisLogged
<1>1. LInv => EphemerisLogged
  BY DEF LInv
<1> QED
  BY <1>1, PortInductive, PTL
=============================================================================

