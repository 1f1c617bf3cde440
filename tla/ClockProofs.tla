----------------------------- MODULE ClockProofs -----------------------------
(***************************************************************************)
(* Proofs about Clock, for weeks and subframes of any length, and about    *)
(* the date made of its time (Calendar), for every week there will be.     *)
(***************************************************************************)
EXTENDS Clock, Calendar, TLAPS

LEMMA Numbers ==
  /\ WEEK \in Nat /\ WEEK >= 1 /\ SUBFRAME \in Nat /\ SUBFRAME >= 1
  /\ HOW \in Nat /\ HOW >= 1 /\ HOW < SUBFRAME
  /\ WEEKS \in Nat /\ WEEKS >= 1
  /\ FIRST \in Nat /\ LAST \in Nat /\ FIRST <= LAST
  /\ MAX_LATE \in Nat /\ MAX_LATE <= WEEK /\ MAX_READ \in Nat /\ MAX_READ <= WEEK
  BY ClockAssumption

LEMMA Division ==
  ASSUME NEW a \in Int, NEW n \in Nat, n >= 1
  PROVE  /\ a \div n \in Int /\ a % n \in 0 .. n - 1
         /\ a = (a \div n) * n + (a % n)
  BY Z3

\* A quotient and a remainder are the quotient and the remainder.
LEMMA Quotient ==
  ASSUME NEW a \in Int, NEW n \in Nat, n >= 1, NEW q \in Int, NEW r \in 0 .. n - 1,
         a = q * n + r
  PROVE  a \div n = q /\ a % n = r
<1> DEFINE d == (a \div n) - q
           s == a % n
<1>1. d \in Int /\ s \in 0 .. n - 1 /\ (a \div n) * n + s = a /\ a \div n \in Int
  <2>1. a \div n \in Int /\ a % n \in 0 .. n - 1 /\ a = (a \div n) * n + (a % n)
    BY Division
  <2>2. d \in Int
    BY <2>1
  <2> QED
    BY <2>1, <2>2, Zenon
<1>2. (a \div n) * n = d * n + q * n
  BY <1>1
<1>3. d * n = r - s
  <2> HIDE DEF d, s
  <2>1. d * n \in Int /\ q * n \in Int
    BY <1>1
  <2> QED
    BY <1>1, <1>2, <2>1
<1> HIDE DEF d, s
<1>4. d < 1
  <2> SUFFICES ASSUME d >= 1 PROVE FALSE
    BY <1>1
  <2>1. (d - 1) * n >= 0
    BY <1>1
  <2> QED
    BY <2>1, <1>1, <1>3
<1>5. d > -1
  <2> SUFFICES ASSUME d <= -1 PROVE FALSE
    BY <1>1
  <2>1. (-1 - d) * n >= 0
    BY <1>1
  <2> QED
    BY <2>1, <1>1, <1>3
<1>6. d = 0 /\ s = r
  BY <1>1, <1>3, <1>4, <1>5
<1> QED
  BY <1>6, <1>1 DEF d, s

\* A week is a whole number of subframes, so the last of them is LastTow.
LEMMA SubframeOfWeek ==
  ASSUME NEW t \in 0 .. WEEK - 1
  PROVE  t \div SUBFRAME \in 0 .. LastTow
<1> DEFINE n == 5 * SUBFRAME
           f == WEEK \div n
           m == 5 * f
           q == t \div SUBFRAME
<1>1. n \in Nat /\ n >= 1 /\ WEEK % n = 0
  BY Numbers, ClockAssumption
<1>2. f \in Int /\ WEEK = f * n
  <2> HIDE DEF n
  <2> QED
    BY <1>1, Numbers, Division
<1>3. WEEK = m * SUBFRAME + 0 /\ m \in Int
  <2> HIDE DEF f
  <2> QED
    BY <1>2, Numbers
<1>4. WEEK \div SUBFRAME = m
  <2> HIDE DEF m
  <2> QED
    BY <1>3, Numbers, Quotient
<1>5. q \in Int /\ t - q * SUBFRAME \in 0 .. SUBFRAME - 1
  <2>1. t % SUBFRAME \in 0 .. SUBFRAME - 1 /\ q \in Int
        /\ t = q * SUBFRAME + (t % SUBFRAME)
    BY Numbers, Division
  <2> HIDE DEF q
  <2> QED
    BY <2>1, Numbers
<1> HIDE DEF m, q
<1>6. q >= 0
  <2> SUFFICES ASSUME q <= -1 PROVE FALSE
    BY <1>5
  <2>1. (-1 - q) * SUBFRAME >= 0
    BY <1>5, Numbers
  <2> QED
    BY <2>1, <1>5, Numbers
<1>7. q <= m - 1
  <2> SUFFICES ASSUME q >= m PROVE FALSE
    BY <1>5, <1>3
  <2>1. (q - m) * SUBFRAME >= 0
    BY <1>5, <1>3, Numbers
  <2> QED
    BY <2>1, <1>5, <1>3, Numbers
<1> QED
  BY <1>4, <1>5, <1>6, <1>7, <1>3 DEF q, LastTow

\* The HOW of a subframe is over at the time that is made of its TOW.
LEMMA HowIsNow ==
  ASSUME tic \in 0 .. WEEK - 1, tic % SUBFRAME = HOW
  PROVE  /\ TOW \in 0 .. LastTow
         /\ TOW # 0 => FromTow(TOW) = tic
<1> DEFINE q == tic \div SUBFRAME
<1>1. q \in 0 .. LastTow /\ LastTow \in Int
  <2>1. q \in 0 .. LastTow
    BY SubframeOfWeek
  <2>2. WEEK \div SUBFRAME \in Int
    BY Numbers, Division
  <2> HIDE DEF q
  <2> QED
    BY <2>1, <2>2 DEF LastTow
<1>2. tic = q * SUBFRAME + HOW
  BY Numbers, Division
<1>3. TOW \in 0 .. LastTow /\ (TOW # 0 => TOW = q + 1)
  BY <1>1 DEF TOW
<1>4. (q + 1) * SUBFRAME - (SUBFRAME - HOW) = q * SUBFRAME + HOW
  <2> HIDE DEF q
  <2> QED
    BY <1>1, Numbers
<1> QED
  BY <1>1, <1>2, <1>3, <1>4 DEF FromTow

-----------------------------------------------------------------------------
(* The inductive invariant.  Seconds that were set l TICs late are that    *)
(* much behind, around the week.                                           *)

SameSeconds(s, l) == s + l = tic
OtherSeconds(s, l) == s + l = tic + WEEK

TowRight ==
  tow # None => /\ FromTow(tow) \in 0 .. WEEK - 1
                /\ SameSeconds(FromTow(tow), late) \/ OtherSeconds(FromTow(tow), late)

SecondsRight ==
  clock_state # "NO_CLOCK" => SameSeconds(seconds, lag) \/ OtherSeconds(seconds, lag)

WeeksRight ==
  clock_state = "SF1_CLOCK" =>
    \/ SameSeconds(seconds, lag) /\ weeks + Behind = week
    \/ OtherSeconds(seconds, lag) /\ weeks + Behind = week - 1

\* A reader has one of the two words of r_from, which was at most a week ago.
FirstRead(w, s) ==
  /\ r_from = w * WEEK + s
  /\ \/ r_weeks = w /\ r_seconds = None
     \/ r_weeks = None /\ r_seconds = s
  /\ \/ weeks = w /\ seconds >= s
     \/ weeks = w + 1 /\ seconds <= s

ReadFrom ==
  /\ r_pc # "idle" => clock_state = "SF1_CLOCK"
  /\ r_pc = "idle" => r_weeks = None /\ r_seconds = None
  /\ r_pc = "first" => \E w \in Nat : \E s \in 0 .. WEEK - 1 : FirstRead(w, s)

IInv == TypeOK /\ TowRight /\ SecondsRight /\ WeeksRight /\ ReadFrom /\ ReadRight

\* What the properties speak of besides the clock.
LEMMA BehindType ==
  ASSUME TypeOK PROVE Behind \in Int
<1>1. used \div WEEKS \in Int /\ used \in Int /\ set_in \in Int
  BY Numbers, Division DEF TypeOK
<1>2. ((used \div WEEKS) - 1) * WEEKS \in Int
  BY <1>1, Numbers
<1> QED
  BY <1>1, <1>2 DEF Behind

LEMMA ClockType ==
  ASSUME TypeOK
  PROVE  /\ Clock \in Nat /\ Clock \div WEEK = weeks
         /\ weeks * WEEK \in Nat /\ week * WEEK \in Nat
<1>1. weeks \in Nat /\ seconds \in 0 .. WEEK - 1 /\ week \in Nat
  BY Numbers DEF TypeOK
<1>2. weeks * WEEK \in Nat /\ week * WEEK \in Nat
  BY <1>1, Numbers
<1>3. Clock = weeks * WEEK + seconds /\ Clock \in Nat
  BY <1>1, <1>2, Numbers DEF Clock
<1>4. Clock \div WEEK = weeks
  BY <1>1, <1>3, Numbers, Quotient
<1> QED
  BY <1>2, <1>3, <1>4

LEMMA InitInv == Init => IInv
<1> SUFFICES ASSUME Init PROVE IInv
  OBVIOUS
<1>1. tic \in 0 .. WEEK - 1
  <2>1. PICK i \in 0 .. LastTow : tic = i * SUBFRAME
    BY DEF Init
  <2>2. \A t \in 0 .. WEEK - 1 : t \div SUBFRAME \in 0 .. LastTow
    BY SubframeOfWeek
  <2> DEFINE m == WEEK \div SUBFRAME
  <2>3. m \in Int /\ WEEK % SUBFRAME \in 0 .. SUBFRAME - 1
        /\ WEEK = m * SUBFRAME + (WEEK % SUBFRAME)
    BY Numbers, Division
  <2>4. LastTow = m - 1
    BY DEF LastTow
  <2> HIDE DEF m
  <2>5. (m - 1 - i) * SUBFRAME >= 0 /\ i * SUBFRAME >= 0
    BY <2>3, <2>4, Numbers
  <2>6. i * SUBFRAME \in Int /\ m * SUBFRAME \in Int
        /\ i * SUBFRAME <= m * SUBFRAME - SUBFRAME
    BY <2>3, <2>4, <2>5, Numbers
  <2> QED
    BY <2>1, <2>3, <2>5, <2>6, Numbers
<1>2. [i \in 1 .. 3 |-> NoCopy] \in [1 .. 3 -> Copy \cup {NoCopy}]
  OBVIOUS
<1>3. TypeOK
  <2>1. local_sf \in [1 .. 3 -> Copy \cup {NoCopy}]
    BY <1>2 DEF Init
  <2>2. /\ week \in FIRST .. LAST /\ weeks \in Nat /\ seconds \in 0 .. WEEK - 1
        /\ late \in 0 .. MAX_LATE /\ lag \in 0 .. MAX_LATE /\ r_from \in Nat
        /\ used \in FIRST .. LAST /\ set_in \in FIRST - 1 .. LAST
        /\ heard \in 0 .. HEARD /\ issue \in 0 .. 1
    BY Numbers DEF Init, HEARD
  <2> QED
    BY <1>1, <2>1, <2>2, Zenon DEF Init, TypeOK
<1> QED
  BY <1>3 DEF Init, IInv, TowRight, SecondsRight, WeeksRight, ReadFrom, ReadRight

-----------------------------------------------------------------------------
(* Steps.                                                                  *)

LEMMA TimeKept ==
  ASSUME IInv, UNCHANGED <<gpsVars, timeVars, tow, late, setVars>>
  PROVE  TowRight' /\ SecondsRight' /\ WeeksRight'
<1>1. Behind' = Behind
  BY DEF Behind, setVars
<1> QED
  BY <1>1 DEF IInv, TowRight, SecondsRight, WeeksRight, SameSeconds, OtherSeconds,
              FromTow, gpsVars, timeVars, setVars

LEMMA ReaderKept ==
  ASSUME IInv, UNCHANGED <<weeks, seconds, clock_state, readVars>>
  PROVE  ReadFrom' /\ ReadRight'
<1>1. Clock' = Clock
  BY DEF Clock
<1> QED
  BY <1>1 DEF IInv, ReadFrom, FirstRead, ReadRight, readVars

\* While there is no whole time nobody reads it.
LEMMA NobodyReads ==
  ASSUME IInv, clock_state # "SF1_CLOCK", UNCHANGED readVars
  PROVE  ReadFrom' /\ ReadRight'
<1>1. r_pc = "idle" /\ r_pc' = "idle"
  BY DEF IInv, ReadFrom, TypeOK, readVars
<1> QED
  BY <1>1 DEF IInv, ReadFrom, ReadRight, readVars

LEMMA TicTime ==
  ASSUME IInv, Tic
  PROVE  /\ seconds' = (IF seconds = WEEK - 1 THEN 0 ELSE seconds + 1)
         /\ weeks' = (IF seconds = WEEK - 1 THEN weeks + 1 ELSE weeks)
         /\ tic' = (IF tic = WEEK - 1 THEN 0 ELSE tic + 1)
         /\ week' = (IF tic = WEEK - 1 THEN week + 1 ELSE week)
         /\ week' \in FIRST .. LAST
<1>1. seconds \in 0 .. WEEK - 1 /\ tic \in 0 .. WEEK - 1 /\ week \in FIRST .. LAST
  BY DEF IInv, TypeOK
<1> QED
  BY <1>1, Numbers DEF Tic, increment_time_with_tic

LEMMA TicInv == ASSUME IInv, Tic PROVE IInv'
<1>0. /\ seconds \in 0 .. WEEK - 1 /\ tic \in 0 .. WEEK - 1
      /\ week \in FIRST .. LAST /\ weeks \in Nat
      /\ lag \in 0 .. MAX_LATE /\ late \in 0 .. MAX_LATE /\ r_from \in Nat
  BY DEF IInv, TypeOK
<1>1. /\ UNCHANGED <<clock_state, tow, lag, readVars, setVars>>
      /\ tow # None => late < MAX_LATE /\ late' = late + 1
      /\ tow = None => late' = late
      /\ r_pc # "done" /\ (r_pc = "first" => Clock < r_from + MAX_READ)
  BY DEF Tic, setVars
<1>2. /\ seconds' \in 0 .. WEEK - 1 /\ tic' \in 0 .. WEEK - 1 /\ weeks' \in Nat
      /\ late' \in 0 .. MAX_LATE
  BY <1>0, <1>1, TicTime, Numbers
<1>3. TypeOK'
  BY <1>1, <1>2, TicTime
     DEF IInv, TypeOK, Tic, ephemerisVars, readVars, setVars
<1>4. TowRight'
  <2>1. CASE tow = None
    BY <2>1, <1>1 DEF TowRight
  <2>2. CASE tow # None
    <3>1. FromTow(tow)' = FromTow(tow)
      BY <1>1 DEF FromTow
    <3> QED
      BY <2>2, <3>1, <1>0, <1>1, TicTime, Numbers
         DEF IInv, TowRight, SameSeconds, OtherSeconds
  <2> QED
    BY <2>1, <2>2
<1>5. SecondsRight'
  BY <1>0, <1>1, TicTime, Numbers DEF IInv, SecondsRight, SameSeconds, OtherSeconds
<1>6. WeeksRight'
  <2>1. Behind' = Behind /\ Behind \in Int
    BY <1>1, BehindType DEF Behind, setVars, IInv
  <2> QED
    BY <2>1, <1>0, <1>1, TicTime, Numbers
       DEF IInv, WeeksRight, SameSeconds, OtherSeconds
<1>7. ReadFrom'
  <2>1. CASE r_pc = "first"
    <3>1. PICK w \in Nat : \E s \in 0 .. WEEK - 1 : FirstRead(w, s)
      BY <2>1 DEF IInv, ReadFrom
    <3>2. PICK s \in 0 .. WEEK - 1 : FirstRead(w, s)
      BY <3>1
    <3>3. weeks = w + 1 => seconds < s
      <4>1. (w + 1) * WEEK = w * WEEK + WEEK /\ w * WEEK \in Int
        BY Numbers
      <4> QED
        BY <4>1, <3>2, <2>1, <1>0, <1>1, Numbers DEF FirstRead, Clock
    <3>4. FirstRead(w, s)'
      BY <3>2, <3>3, <1>0, <1>1, TicTime, Numbers DEF FirstRead, readVars
    <3> QED
      BY <2>1, <3>4, <1>1 DEF IInv, ReadFrom, readVars
  <2>2. CASE r_pc # "first"
    BY <2>2, <1>1 DEF IInv, ReadFrom, readVars
  <2> QED
    BY <2>1, <2>2
<1>8. ReadRight'
  BY <1>1 DEF ReadRight, readVars
<1> QED
  BY <1>3, <1>4, <1>5, <1>6, <1>7, <1>8 DEF IInv

LEMMA HowReceivedInv == ASSUME IInv, HowReceived PROVE IInv'
<1>1. tic \in 0 .. WEEK - 1 /\ tic % SUBFRAME = HOW
  BY DEF IInv, TypeOK, HowReceived
<1>2. TOW \in 0 .. LastTow /\ (TOW # 0 => FromTow(TOW) = tic)
  BY <1>1, HowIsNow
<1>3. /\ UNCHANGED <<gpsVars, timeVars, setVars, readVars, ephemerisVars, issue>>
      /\ late' = 0 /\ tow = None
      /\ (tow' = TOW /\ TOW # 0) \/ tow' = None
  BY DEF HowReceived
<1>4. TypeOK'
  <2>1. late' \in 0 .. MAX_LATE /\ 0 \in 0 .. HEARD
    BY <1>3, Numbers DEF HEARD
  <2>2. tow' \in {None} \cup 0 .. LastTow
    BY <1>2, <1>3
  <2>3. heard' \in 0 .. HEARD /\ how' \in BOOLEAN /\ sf' \in {"head", "synced", "lost"}
    BY <2>1, Zenon DEF HowReceived, IInv, TypeOK
  <2> QED
    BY <1>3, <2>1, <2>2, <2>3, Zenon
       DEF IInv, TypeOK, gpsVars, timeVars, setVars, readVars, ephemerisVars
<1>5. TowRight'
  <2>1. CASE tow' = None
    BY <2>1 DEF TowRight
  <2>2. CASE tow' # None
    <3>1. FromTow(tow)' = tic
      BY <2>2, <1>2, <1>3 DEF FromTow
    <3> QED
      BY <3>1, <1>1, <1>3 DEF TowRight, SameSeconds, gpsVars
  <2> QED
    BY <2>1, <2>2
<1>6. SecondsRight' /\ WeeksRight'
  <2>1. Behind' = Behind
    BY <1>3 DEF Behind, setVars
  <2> QED
    BY <2>1, <1>3 DEF IInv, SecondsRight, WeeksRight, SameSeconds, OtherSeconds,
                      gpsVars, timeVars, setVars
<1>7. ReadFrom' /\ ReadRight'
  BY <1>3, ReaderKept DEF timeVars
<1> QED
  BY <1>4, <1>5, <1>6, <1>7 DEF IInv

LEMMA SetTimeInv == ASSUME IInv, set_time_with_tow PROVE IInv'
<1>1. /\ UNCHANGED <<gpsVars, weeks, how, sf, late, issue, ephemerisVars, readVars, used,
                     set_in, early, heard>>
      /\ tow # None /\ tow' = None
  BY DEF set_time_with_tow
<1>2. TowRight'
  BY <1>1 DEF TowRight
<1>3. Behind' = Behind
  BY <1>1 DEF Behind
<1>4. CASE clock_state = "NO_CLOCK"
  <2>1. seconds' = FromTow(tow) /\ clock_state' = "HOW_CLOCK" /\ lag' = late
    BY <1>4 DEF set_time_with_tow
  <2>2. TypeOK'
    BY <1>1, <2>1, Zenon
       DEF IInv, TypeOK, TowRight, gpsVars, readVars, ephemerisVars
  <2>3. SecondsRight'
    BY <1>1, <2>1 DEF IInv, TowRight, SecondsRight, SameSeconds, OtherSeconds, gpsVars
  <2>4. WeeksRight'
    BY <2>1 DEF WeeksRight
  <2>5. ReadFrom' /\ ReadRight'
    BY <1>1, <1>4, NobodyReads
  <2> QED
    BY <1>2, <2>2, <2>3, <2>4, <2>5 DEF IInv
<1>5. CASE clock_state # "NO_CLOCK"
  <2>1. UNCHANGED <<seconds, clock_state, lag>>
    BY <1>5 DEF set_time_with_tow
  <2>2. TypeOK'
    BY <1>1, <2>1 DEF IInv, TypeOK, gpsVars, readVars, ephemerisVars
  <2>3. SecondsRight' /\ WeeksRight'
    BY <1>1, <1>3, <2>1 DEF IInv, SecondsRight, WeeksRight, SameSeconds,
                            OtherSeconds, gpsVars
  <2>4. ReadFrom' /\ ReadRight'
    BY <1>1, <2>1, ReaderKept
  <2> QED
    BY <1>2, <2>2, <2>3, <2>4 DEF IInv
<1> QED
  BY <1>4, <1>5

\* The week of a subframe 1, in whatever era, and the time that was kept since the
\* seconds were set.
LEMMA WeekSet ==
  ASSUME IInv, HowOnly, set_time_with_weeks, local_sf[1] \in Copy,
         UNCHANGED <<gpsVars, seconds, lag>>
  PROVE  /\ weeks' \in Nat /\ clock_state' = "SF1_CLOCK"
         /\ used' \in FIRST .. LAST /\ set_in' \in FIRST - 1 .. LAST
         /\ WeeksRight'
<1> DEFINE u == local_sf[1].week
           e == u \div WEEKS
           r == u % WEEKS
           at == Now - lag
<1>1. u \in FIRST .. LAST
  BY DEF Copy
<1>2. weeks' = r + WEEKS /\ clock_state' = "SF1_CLOCK" /\ used' = u
      /\ set_in' = at \div WEEK
  BY DEF set_time_with_weeks, HowOnly
<1>3. e \in Int /\ r \in 0 .. WEEKS - 1 /\ u = e * WEEKS + r
  <2>1. u \in Int
    BY <1>1, Numbers
  <2> HIDE DEF u
  <2> QED
    BY <2>1, Numbers, Division
<1>4. /\ seconds \in 0 .. WEEK - 1 /\ tic \in 0 .. WEEK - 1 /\ lag \in 0 .. MAX_LATE
      /\ week \in FIRST .. LAST
  BY DEF IInv, TypeOK
<1>5. SameSeconds(seconds, lag) \/ OtherSeconds(seconds, lag)
  BY DEF IInv, SecondsRight, HowOnly
<1>6. /\ SameSeconds(seconds, lag) => set_in' = week
      /\ OtherSeconds(seconds, lag) => set_in' = week - 1
  <2>1. week * WEEK \in Int /\ (week - 1) * WEEK = week * WEEK - WEEK
    BY <1>4, Numbers
  <2>2. at \in Int
    BY <2>1, <1>4, Numbers DEF Now
  <2>3. SameSeconds(seconds, lag) => at = week * WEEK + seconds
    BY <2>1, <1>4, Numbers DEF Now, SameSeconds
  <2>4. OtherSeconds(seconds, lag) => at = (week - 1) * WEEK + seconds
    BY <2>1, <1>4, Numbers DEF Now, OtherSeconds
  <2> HIDE DEF at
  <2>5. /\ at = week * WEEK + seconds => at \div WEEK = week
        /\ at = (week - 1) * WEEK + seconds => at \div WEEK = week - 1
    BY <2>2, <1>4, Numbers, Quotient
  <2> QED
    BY <1>2, <2>3, <2>4, <2>5
<1>7. weeks' + Behind' = set_in'
  <2>1. Behind' = (set_in' - u) + (e - 1) * WEEKS
    BY <1>2 DEF Behind
  <2>2. set_in' \in Int
    BY <1>4, <1>5, <1>6, Numbers
  <2>3. (e - 1) * WEEKS = e * WEEKS - WEEKS /\ e * WEEKS \in Int
    BY <1>3, Numbers
  <2> HIDE DEF e, r, u
  <2> QED
    BY <1>1, <1>2, <1>3, <2>1, <2>2, <2>3, Numbers
<1>8. WeeksRight'
  BY <1>5, <1>6, <1>7 DEF WeeksRight, SameSeconds, OtherSeconds, gpsVars
<1>9. weeks' \in Nat /\ used' \in FIRST .. LAST /\ set_in' \in FIRST - 1 .. LAST
  <2> HIDE DEF e, r, u, at
  <2> QED
    BY <1>1, <1>2, <1>3, <1>4, <1>5, <1>6, Numbers
<1> QED
  BY <1>2, <1>8, <1>9

LEMMA UpdateInv == ASSUME IInv, update_ephemeris PROVE IInv'
<1>1. /\ UNCHANGED <<gpsVars, seconds, messageVars, issue, local_sf, readVars, lag, heard>>
      /\ subframe_flag' = FALSE
  BY DEF update_ephemeris
<1>2. (TowRight' /\ SecondsRight') \/ clock_state' # clock_state
  BY <1>1 DEF IInv, TowRight, SecondsRight, SameSeconds, OtherSeconds, FromTow,
              gpsVars, messageVars
<1>3. CASE Complete /\ Agree /\ ephemeris # local_sf[2].issue
  <2>1. /\ set_time_with_weeks /\ ephemeris' = local_sf[2].issue
        /\ early' = (clock_state = "NO_CLOCK")
    BY <1>3 DEF update_ephemeris
  <2>2. local_sf[1] \in Copy /\ local_sf[2] \in Copy
    BY <1>3 DEF Complete, IInv, TypeOK
  <2>3. ephemeris' \in {None} \cup 0 .. 1 /\ early' \in BOOLEAN
    BY <2>1, <2>2 DEF Copy
  <2>4. CASE HowOnly
    <3>1. /\ weeks' \in Nat /\ clock_state' = "SF1_CLOCK"
          /\ used' \in FIRST .. LAST /\ set_in' \in FIRST - 1 .. LAST
          /\ WeeksRight'
      BY <2>1, <2>2, <2>4, <1>1, WeekSet
    <3>2. TypeOK'
      BY <1>1, <2>3, <3>1, Zenon DEF IInv, TypeOK, gpsVars, messageVars, readVars
    <3>3. TowRight' /\ SecondsRight'
      BY <1>1, <2>4, <3>1 DEF IInv, HowOnly, TowRight, SecondsRight, SameSeconds,
                              OtherSeconds, FromTow, gpsVars, messageVars
    <3>4. ReadFrom' /\ ReadRight'
      BY <1>1, <2>4, NobodyReads DEF HowOnly
    <3> QED
      BY <3>1, <3>2, <3>3, <3>4 DEF IInv
  <2>5. CASE ~HowOnly
    <3>1. UNCHANGED <<weeks, clock_state, used, set_in>>
      BY <2>1, <2>5 DEF set_time_with_weeks
    <3>2. TypeOK'
      BY <1>1, <2>3, <3>1, Zenon DEF IInv, TypeOK, gpsVars, messageVars, readVars
    <3>3. Behind' = Behind
      BY <3>1 DEF Behind
    <3>4. WeeksRight'
      BY <1>1, <3>1, <3>3 DEF IInv, WeeksRight, SameSeconds, OtherSeconds, gpsVars
    <3>5. ReadFrom' /\ ReadRight'
      BY <1>1, <3>1, ReaderKept
    <3> QED
      BY <1>2, <3>1, <3>2, <3>4, <3>5 DEF IInv
  <2> QED
    BY <2>4, <2>5
<1>4. CASE ~(Complete /\ Agree /\ ephemeris # local_sf[2].issue)
  <2>1. UNCHANGED <<weeks, clock_state, ephemeris, used, set_in, early>>
    BY <1>4 DEF update_ephemeris
  <2>2. TypeOK'
    <3>1. weeks' \in Nat /\ ephemeris' \in {None} \cup 0 .. 1 /\ early' \in BOOLEAN
          /\ used' \in FIRST .. LAST /\ set_in' \in FIRST - 1 .. LAST
      BY <2>1, Zenon DEF IInv, TypeOK
    <3>2. clock_state' \in {"NO_CLOCK", "HOW_CLOCK", "SF1_CLOCK"}
      BY <2>1, Zenon DEF IInv, TypeOK
    <3> QED
      BY <1>1, <3>1, <3>2, Zenon DEF IInv, TypeOK, gpsVars, messageVars, readVars
  <2>3. WeeksRight'
    BY <1>1, <2>1, TimeKept DEF messageVars, setVars, timeVars
  <2>4. ReadFrom' /\ ReadRight'
    BY <1>1, <2>1, ReaderKept
  <2> QED
    BY <1>2, <2>1, <2>2, <2>3, <2>4 DEF IInv
<1> QED
  BY <1>3, <1>4

-----------------------------------------------------------------------------
(* Reading.                                                                *)

LEMMA ReadFirstInv == ASSUME IInv, ReadFirst PROVE IInv'
<1>1. /\ UNCHANGED <<gpsVars, timeVars, messageVars, issue, ephemerisVars, setVars, heard>>
      /\ clock_state = "SF1_CLOCK" /\ r_pc = "idle" /\ r_pc' = "first"
      /\ r_from' = Clock
      /\ \/ r_weeks' = weeks /\ r_seconds' = r_seconds
         \/ r_seconds' = seconds /\ r_weeks' = r_weeks
  BY DEF ReadFirst
<1>2. r_weeks = None /\ r_seconds = None /\ weeks \in Nat /\ seconds \in 0 .. WEEK - 1
      /\ Clock \in Nat
  BY <1>1, ClockType DEF IInv, ReadFrom, TypeOK
<1>3. TypeOK'
  <2>1. r_weeks' \in Nat \cup {None} /\ r_seconds' \in {None} \cup 0 .. WEEK - 1
    BY <1>1, <1>2
  <2> QED
    BY <1>1, <1>2, <2>1, Zenon
       DEF IInv, TypeOK, gpsVars, timeVars, messageVars, ephemerisVars, setVars
<1>4. TowRight' /\ SecondsRight' /\ WeeksRight'
  BY <1>1, TimeKept DEF messageVars
<1>5. FirstRead(weeks, seconds)'
  BY <1>1, <1>2, Numbers DEF FirstRead, Clock, timeVars
<1>6. ReadFrom'
  <2>1. weeks' \in Nat /\ seconds' \in 0 .. WEEK - 1 /\ clock_state' = "SF1_CLOCK"
    BY <1>1, <1>2 DEF timeVars
  <2> QED
    BY <1>1, <2>1, <1>5 DEF ReadFrom
<1> QED
  BY <1>1, <1>3, <1>4, <1>6 DEF IInv, ReadRight

LEMMA ReadSecondInv == ASSUME IInv, ReadSecond PROVE IInv'
<1>1. /\ UNCHANGED <<gpsVars, timeVars, messageVars, issue, ephemerisVars, r_from,
                     setVars, heard>>
      /\ r_pc = "first" /\ r_pc' = "done"
      /\ r_weeks' = IF r_weeks = None THEN weeks ELSE r_weeks
      /\ r_seconds' = IF r_seconds = None THEN seconds ELSE r_seconds
  BY DEF ReadSecond
<1>2. weeks \in Nat /\ seconds \in 0 .. WEEK - 1 /\ r_from \in Nat
  BY DEF IInv, TypeOK
<1>3. PICK w \in Nat : \E s \in 0 .. WEEK - 1 : FirstRead(w, s)
  BY <1>1 DEF IInv, ReadFrom
<1>4. PICK s \in 0 .. WEEK - 1 : FirstRead(w, s)
  BY <1>3
<1>5. /\ \/ r_weeks' = w /\ r_seconds' = seconds
         \/ r_weeks' = weeks /\ r_seconds' = s
      /\ r_from = w * WEEK + s
      /\ \/ weeks = w /\ seconds >= s
         \/ weeks = w + 1 /\ seconds <= s
  BY <1>1, <1>2, <1>4 DEF FirstRead, None
<1>6. TypeOK'
  <2>1. r_weeks' \in Nat \cup {None} /\ r_seconds' \in {None} \cup 0 .. WEEK - 1
    BY <1>2, <1>5
  <2> QED
    BY <1>1, <2>1, Zenon
       DEF IInv, TypeOK, gpsVars, timeVars, messageVars, ephemerisVars, setVars
<1>7. TowRight' /\ SecondsRight' /\ WeeksRight'
  BY <1>1, TimeKept DEF messageVars
<1>8. ReadFrom'
  BY <1>1 DEF IInv, ReadFrom, timeVars
<1>9. ReadRight'
  <2>1. /\ w * WEEK \in Nat /\ (w + 1) * WEEK = w * WEEK + WEEK
        /\ r_from \div WEEK = w
    <3>1. w * WEEK \in Nat /\ (w + 1) * WEEK = w * WEEK + WEEK
      BY Numbers
    <3> QED
      BY <3>1, <1>2, <1>5, Numbers, Quotient
  <2>2. Clock' = weeks * WEEK + seconds /\ Clock' \div WEEK = weeks
    <3>1. Clock' = Clock
      BY <1>1 DEF Clock, timeVars
    <3> QED
      BY <3>1, ClockType DEF IInv, Clock
  <2> DEFINE read == r_weeks' * WEEK + r_seconds'
  <2>3. CASE weeks = w
    <3>1. read \in {w * WEEK + s, w * WEEK + seconds}
      BY <1>5, <2>3
    <3>2. r_from' <= read /\ read <= Clock'
      BY <1>1, <1>2, <1>5, <2>1, <2>2, <2>3, <3>1, Numbers
    <3> QED
      BY <3>2 DEF ReadRight
  <2>4. CASE weeks = w + 1
    <3>1. \/ read = w * WEEK + seconds
          \/ read = w * WEEK + WEEK + s
      BY <1>5, <2>1, <2>4
    <3>2. \/ r_from' <= read + WEEK /\ read + WEEK <= Clock'
          \/ r_from' <= read - WEEK /\ read - WEEK <= Clock'
      BY <1>1, <1>2, <1>5, <2>1, <2>2, <2>4, <3>1, Numbers
    <3>3. r_from' \div WEEK # Clock' \div WEEK
      BY <1>1, <2>1, <2>2, <2>4
    <3> QED
      BY <3>2, <3>3 DEF ReadRight
  <2> QED
    BY <1>5, <2>3, <2>4
<1> QED
  BY <1>6, <1>7, <1>8, <1>9 DEF IInv

-----------------------------------------------------------------------------
(* The other steps leave the clock, its setting and its readers alone.     *)

LEMMA OtherInv ==
  ASSUME IInv,
         \/ HowLost \/ SubframeEnd \/ Upload \/ restart_channel
         \/ initialize_channel \/ ReadDone \/ UNCHANGED vars
  PROVE  IInv'
<1>1. TypeOK'
  <2>1. 0 \in 0 .. HEARD /\ (heard \in 0 .. HEARD => (heard < HEARD => heard + 1 \in 0 .. HEARD))
    BY DEF HEARD
  <2>2. CASE HowLost
    BY <2>1, <2>2, Zenon
       DEF HowLost, IInv, TypeOK, gpsVars, timeVars, ephemerisVars, readVars, setVars
  <2>3. CASE SubframeEnd
    <3>1. heard' \in 0 .. HEARD
      BY <2>1, <2>3, HEARD \in 0 .. HEARD DEF SubframeEnd, IInv, TypeOK, HEARD
    <3>2. local_sf' \in [1 .. 3 -> Copy \cup {NoCopy}]
      BY <2>3 DEF SubframeEnd, IInv, TypeOK, Copy
    <3>3. subframe_flag' \in BOOLEAN
      BY <2>3 DEF SubframeEnd, IInv, TypeOK
    <3> QED
      BY <2>3, <3>1, <3>2, <3>3, Zenon
         DEF SubframeEnd, IInv, TypeOK, gpsVars, timeVars, readVars, setVars
  <2>4. CASE Upload
    <3>1. issue' \in 0 .. 1 /\ heard' \in 0 .. HEARD
      BY <2>1, <2>4 DEF Upload
    <3> QED
      BY <2>4, <3>1 DEF Upload, IInv, TypeOK, gpsVars, timeVars, messageVars,
                               ephemerisVars, readVars, setVars
  <2>5. CASE Restart /\ local_sf' \in [1 .. 3 -> Copy \cup {NoCopy}]
                     /\ ephemeris' \in {None} \cup 0 .. 1
    <3>1. sf' \in {"head", "synced", "lost"}
      BY <2>5 DEF Restart
    <3> QED
      BY <2>1, <2>5, <3>1, Zenon
         DEF Restart, IInv, TypeOK, gpsVars, timeVars, readVars, setVars
  <2>6. CASE restart_channel
    BY <2>5, <2>6 DEF restart_channel, IInv, TypeOK
  <2>7. CASE initialize_channel
    BY <2>5, <2>7 DEF initialize_channel
  <2>8. CASE ReadDone
    <3>1. r_weeks' \in Nat \cup {None} /\ r_seconds' \in {None} \cup 0 .. WEEK - 1
          /\ r_from' \in Nat /\ r_pc' \in {"idle", "first", "done"}
      BY <2>8 DEF ReadDone
    <3> QED
      BY <2>8, <3>1, Zenon DEF ReadDone, IInv, TypeOK, gpsVars, timeVars, messageVars,
                               ephemerisVars, setVars
  <2>9. CASE UNCHANGED vars
    BY <2>9 DEF vars, IInv, TypeOK, gpsVars, timeVars, messageVars,
                       ephemerisVars, readVars, setVars
  <2> QED
    BY <2>2, <2>3, <2>4, <2>6, <2>7, <2>8, <2>9
<1>2. UNCHANGED <<gpsVars, timeVars, tow, late, setVars>>
  BY DEF HowLost, SubframeEnd, Upload, restart_channel, initialize_channel, Restart,
         ReadDone, vars, messageVars
<1>3. ReadFrom' /\ ReadRight'
  <2>1. CASE ReadDone
    <3>1. r_pc' = "idle" /\ r_weeks' = None /\ r_seconds' = None
      BY <2>1 DEF ReadDone
    <3> QED
      BY <3>1 DEF ReadFrom, ReadRight
  <2>2. CASE ~ReadDone
    <3>1. UNCHANGED readVars
      BY <2>2 DEF HowLost, SubframeEnd, Upload, restart_channel, initialize_channel,
                  Restart, vars
    <3> QED
      BY <3>1, <1>2, ReaderKept DEF timeVars
  <2> QED
    BY <2>1, <2>2
<1> QED
  BY <1>1, <1>2, <1>3, TimeKept DEF IInv

LEMMA Inductive == Spec => []IInv
<1>1. IInv /\ [Next]_vars => IInv'
  BY TicInv, HowReceivedInv, SetTimeInv, UpdateInv, ReadFirstInv, ReadSecondInv,
     OtherInv DEF Next
<1> QED
  BY InitInv, <1>1, PTL DEF Spec

-----------------------------------------------------------------------------
(* Theorems.                                                               *)

LEMMA ClockRightFromInv == IInv => ClockRight
<1> SUFFICES ASSUME IInv PROVE ClockRight
  OBVIOUS
<1>1. /\ seconds \in 0 .. WEEK - 1 /\ tic \in 0 .. WEEK - 1 /\ lag \in Nat
      /\ weeks \in Nat /\ week \in Nat
  BY Numbers DEF IInv, TypeOK
<1>2. SameSeconds(seconds, lag) \/ OtherSeconds(seconds, lag)
        => (tic - seconds - lag) % WEEK = 0
  <2> DEFINE a == tic - seconds - lag
  <2>1. /\ SameSeconds(seconds, lag) => a = 0 * WEEK + 0
        /\ OtherSeconds(seconds, lag) => a = (-1) * WEEK + 0
        /\ a \in Int
    BY <1>1, Numbers DEF SameSeconds, OtherSeconds
  <2> HIDE DEF a
  <2>2. 0 \in 0 .. WEEK - 1 /\ -1 \in Int
    BY Numbers
  <2>3. a = 0 * WEEK + 0 \/ a = (-1) * WEEK + 0 => a % WEEK = 0
    BY <2>1, <2>2, Numbers, Quotient
  <2> QED
    BY <2>1, <2>3 DEF a
<1>3. clock_state # "NO_CLOCK" => (tic - seconds - lag) % WEEK = 0
  BY <1>2 DEF IInv, SecondsRight
<1>4. clock_state = "SF1_CLOCK" => Clock + lag + Behind * WEEK = Now
  <2>1. SUFFICES ASSUME clock_state = "SF1_CLOCK"
                 PROVE  Clock + lag + Behind * WEEK = Now
    OBVIOUS
  <2>2. Behind \in Int
    BY BehindType DEF IInv
  <2>3. (weeks + Behind) * WEEK = weeks * WEEK + Behind * WEEK
    BY <1>1, <2>2, Numbers
  <2>4. /\ weeks * WEEK \in Int /\ Behind * WEEK \in Int /\ week * WEEK \in Int
        /\ (week - 1) * WEEK = week * WEEK - WEEK
    BY <1>1, <2>2, Numbers
  <2>5. \/ SameSeconds(seconds, lag) /\ weeks + Behind = week
        \/ OtherSeconds(seconds, lag) /\ weeks + Behind = week - 1
    BY <2>1 DEF IInv, WeeksRight
  <2>6. \/ seconds + lag = tic /\ weeks * WEEK + Behind * WEEK = week * WEEK
        \/ /\ seconds + lag = tic + WEEK
           /\ weeks * WEEK + Behind * WEEK = week * WEEK - WEEK
    BY <2>3, <2>4, <2>5 DEF SameSeconds, OtherSeconds
  <2> HIDE DEF Behind
  <2> QED
    BY <1>1, <2>4, <2>6, Numbers DEF Clock, Now
<1> QED
  BY <1>3, <1>4 DEF ClockRight

\* Every variable of the clock keeps its type, whatever the length of weeks and
\* subframes and however long the message thread and the readers are held up.
THEOREM TypeCorrect == Spec => []TypeOK
<1>1. IInv => TypeOK
  BY DEF IInv
<1> QED
  BY Inductive, <1>1, PTL

\* set_time_with_tow(), set_time_with_weeks() and increment_time_with_tic() make one
\* time of the HOW and of the week of subframe 1.
THEOREM ClockRightCorrect == Spec => []ClockRight
  BY Inductive, ClockRightFromInv, PTL

\* A time read while the clock goes on is one it showed, or a week beside it.
THEOREM ReadRightCorrect == Spec => []ReadRight
<1>1. IInv => ReadRight
  BY DEF IInv
<1> QED
  BY Inductive, <1>1, PTL

-----------------------------------------------------------------------------
(* The week comes: subframes that were received one after another, up to   *)
(* the last that has ended, left their copies, of one data set.            *)

After(n) == IF n = 5 THEN 1 ELSE n + 1
Before(n) == IF n = 1 THEN 5 ELSE n - 1

\* The subframe that is over but not dealt with does not count yet.
LastEnded == IF tic % SUBFRAME = 0 /\ sf # "head" THEN Before(Ended) ELSE Ended

\* Subframes since number i ended.
Age(i, last) == IF i <= last THEN last - i ELSE last - i + 5

Heard(i) == Age(i, LastEnded) < heard

HowInTime ==
  /\ sf = "head" => tic % SUBFRAME <= HOW
  /\ sf # "head" => tic % SUBFRAME = 0 \/ HOW <= tic % SUBFRAME

CopiesHeard ==
  \A i \in 1 .. 3 : Heard(i) => local_sf[i] # NoCopy /\ local_sf[i].issue = issue

Known == clock_state = "SF1_CLOCK" \/ early

\* All three were heard, and the ephemeris thread has seen the last of them.
AllSeen == (\A i \in 1 .. 3 : Heard(i)) /\ ~subframe_flag

WeekInv ==
  /\ HowInTime
  /\ CopiesHeard
  /\ ephemeris # None => Known
  /\ AllSeen => Known

LEMMA EndedType == ASSUME tic \in 0 .. WEEK - 1 PROVE Ended \in 1 .. 5
<1> DEFINE q == tic \div SUBFRAME
<1>1. q \in Int
  BY Numbers, Division
<1> HIDE DEF q
<1>2. (q + 4) % 5 \in 0 .. 4
  BY <1>1
<1> QED
  BY <1>2 DEF Ended, q

\* A TIC goes on in its subframe, or on to the next, over the end of a week too.
LEMMA TicEnded ==
  ASSUME tic \in 0 .. WEEK - 1, tic' = (IF tic = WEEK - 1 THEN 0 ELSE tic + 1)
  PROVE  \/ tic' % SUBFRAME = (tic % SUBFRAME) + 1 /\ Ended' = Ended
         \/ /\ tic' % SUBFRAME = 0 /\ tic % SUBFRAME = SUBFRAME - 1
            /\ Ended' = After(Ended)
<1> DEFINE q == tic \div SUBFRAME
           r == tic % SUBFRAME
           p == tic' \div SUBFRAME
           s == tic' % SUBFRAME
           f == WEEK \div (5 * SUBFRAME)
<1>1. q \in Int /\ r \in 0 .. SUBFRAME - 1 /\ tic = q * SUBFRAME + r /\ tic \in Int
  BY Numbers, Division
<1>2. Ended = ((q + 4) % 5) + 1 /\ Ended' = ((p + 4) % 5) + 1
  BY DEF Ended
<1>3. f \in Int /\ WEEK = (5 * f) * SUBFRAME
  <2> DEFINE n == 5 * SUBFRAME
  <2>1. n \in Nat /\ n >= 1 /\ WEEK % n = 0 /\ f = WEEK \div n
    BY Numbers, ClockAssumption
  <2> HIDE DEF n, f
  <2>2. f \in Int /\ WEEK = f * n
    BY <2>1, Numbers, Division
  <2> QED
    BY <2>2, Numbers DEF n
<1> HIDE DEF f
<1>4. CASE tic # WEEK - 1 /\ r # SUBFRAME - 1
  <2>1. tic' = q * SUBFRAME + (r + 1) /\ tic' \in Int /\ r + 1 \in 0 .. SUBFRAME - 1
    <3> HIDE DEF q, r
    <3>1. q * SUBFRAME \in Int
      BY <1>1, Numbers
    <3> QED
      BY <1>1, <1>4, <3>1, Numbers
  <2>2. p = q /\ s = r + 1
    <3> DEFINE t == r + 1
    <3>1. t \in 0 .. SUBFRAME - 1 /\ tic' = q * SUBFRAME + t
      BY <2>1
    <3>2. q \in Int /\ tic' \in Int
      BY <1>1, <2>1
    <3> HIDE DEF q, r, t
    <3>3. p = q /\ s = t
      BY <3>1, <3>2, Numbers, Quotient
    <3> QED
      BY <3>3 DEF t
  <2> QED
    BY <1>2, <2>2
<1>5. CASE tic # WEEK - 1 /\ r = SUBFRAME - 1
  <2> DEFINE m == q + 1
  <2>1. tic' = m * SUBFRAME + 0 /\ tic' \in Int /\ m \in Int /\ 0 \in 0 .. SUBFRAME - 1
    <3> HIDE DEF q, r
    <3>1. q * SUBFRAME \in Int /\ m * SUBFRAME = q * SUBFRAME + SUBFRAME
      BY <1>1, Numbers
    <3> QED
      BY <1>1, <1>5, <3>1, Numbers
  <2>2. p = m /\ s = 0
    <3> HIDE DEF m
    <3> QED
      BY <2>1, Numbers, Quotient
  <2>3. Ended' = After(Ended)
    <3> HIDE DEF q, p
    <3>1. ((q + 1 + 4) % 5) + 1 = (IF ((q + 4) % 5) + 1 = 5 THEN 1 ELSE ((q + 4) % 5) + 2)
      BY <1>1
    <3> QED
      BY <1>1, <1>2, <2>2, <3>1 DEF After
  <2> QED
    BY <1>5, <2>2, <2>3
<1>6. CASE tic = WEEK - 1
  <2> DEFINE m == 5 * f - 1
             z == SUBFRAME - 1
  <2>1. tic = m * SUBFRAME + z /\ m \in Int /\ z \in 0 .. SUBFRAME - 1
    <3>1. m * SUBFRAME = (5 * f) * SUBFRAME - SUBFRAME /\ m \in Int
      BY <1>3, Numbers
    <3>2. z \in 0 .. SUBFRAME - 1
      BY Numbers
    <3>3. m * SUBFRAME \in Int
      BY <3>1, Numbers
    <3> HIDE DEF m
    <3> QED
      BY <1>3, <1>6, <3>1, <3>2, <3>3, Numbers
  <2>2. q = m /\ r = z
    <3> HIDE DEF m, z
    <3> QED
      BY <1>1, <2>1, Numbers, Quotient
  <2>3. p = 0 /\ s = 0
    <3>1. tic' = 0 /\ 0 = 0 * SUBFRAME + 0 /\ 0 \in 0 .. SUBFRAME - 1
      BY <1>6, Numbers
    <3> QED
      BY <3>1, Numbers, Quotient
  <2>4. Ended = 4 /\ Ended' = 5
    <3> HIDE DEF q, p
    <3>1. (m + 4) % 5 = 3 /\ 4 % 5 = 4
      BY <1>3
    <3> QED
      BY <1>2, <2>2, <2>3, <3>1
  <2> QED
    BY <2>2, <2>3, <2>4 DEF After
<1> QED
  BY <1>4, <1>5, <1>6

LEMMA LastKept ==
  ASSUME IInv, HowInTime, Tic
  PROVE  HowInTime' /\ LastEnded' = LastEnded
<1>1. tic \in 0 .. WEEK - 1 /\ tic % SUBFRAME \in 0 .. SUBFRAME - 1
  BY Numbers, Division DEF IInv, TypeOK
<1>2. Ended \in 1 .. 5 /\ sf' = sf /\ ~Due
  BY <1>1, EndedType DEF Tic
<1>3. tic' = (IF tic = WEEK - 1 THEN 0 ELSE tic + 1)
  BY TicTime
<1>4. CASE tic' % SUBFRAME = (tic % SUBFRAME) + 1 /\ Ended' = Ended
  BY <1>1, <1>2, <1>4, Numbers DEF HowInTime, LastEnded, Due
<1>5. CASE /\ tic' % SUBFRAME = 0 /\ tic % SUBFRAME = SUBFRAME - 1
           /\ Ended' = After(Ended)
  <2>1. sf # "head"
    BY <1>1, <1>2, <1>5, Numbers DEF HowInTime, Due
  <2>2. tic % SUBFRAME # 0
    BY <1>5, Numbers
  <2> QED
    BY <1>2, <1>5, <2>1, <2>2 DEF HowInTime, LastEnded, After, Before
<1> QED
  BY <1>1, <1>3, <1>4, <1>5, TicEnded

\* What neither hears nor loses a subframe, nor parses.
LEMMA WeekKept ==
  ASSUME WeekInv, LastEnded' = LastEnded, HowInTime',
         UNCHANGED <<heard, issue, local_sf, ephemeris, subframe_flag, early>>,
         clock_state = "SF1_CLOCK" => clock_state' = "SF1_CLOCK"
  PROVE  WeekInv'
  BY DEF WeekInv, CopiesHeard, AllSeen, Heard, Known

\* With nothing heard there is nothing to show.
LEMMA NothingHeard ==
  ASSUME IInv, HowInTime', heard' = 0,
         ephemeris' # None => Known',
         LastEnded' \in 1 .. 5
  PROVE  WeekInv'
<1>1. \A last \in 1 .. 5 : \A i \in 1 .. 3 : Age(i, last) \in Nat
  BY DEF Age
<1>2. \A i \in 1 .. 3 : ~Heard(i)'
  <2> SUFFICES ASSUME NEW i \in 1 .. 3 PROVE ~Heard(i)'
    OBVIOUS
  <2>1. Heard(i)' <=> Age(i, LastEnded') < heard'
    BY DEF Heard, Age
  <2>2. Age(i, LastEnded') \in Nat
    BY <1>1
  <2> HIDE DEF Age
  <2> QED
    BY <2>1, <2>2
<1> QED
  BY <1>2 DEF WeekInv, CopiesHeard, AllSeen

LEMMA LastType == ASSUME TypeOK PROVE LastEnded \in 1 .. 5
<1>1. Ended \in 1 .. 5
  BY EndedType DEF TypeOK
<1> QED
  BY <1>1 DEF LastEnded, Before

LEMMA WeekStart == Init => WeekInv
<1> SUFFICES ASSUME Init PROVE WeekInv
  OBVIOUS
<1>1. TypeOK
  BY InitInv DEF IInv
<1>2. tic % SUBFRAME = 0
  <2>1. PICK i \in 0 .. LastTow : tic = i * SUBFRAME
    BY DEF Init
  <2>2. LastTow \in Int
    <3>1. WEEK \div SUBFRAME \in Int
      BY Numbers, Division
    <3> QED
      BY <3>1 DEF LastTow
  <2>3. i \in Int /\ tic = i * SUBFRAME + 0 /\ tic \in Int /\ 0 \in 0 .. SUBFRAME - 1
    BY <1>1, <2>1, <2>2, Numbers DEF TypeOK
  <2> QED
    BY <2>3, Numbers, Quotient
<1>3. LastEnded \in 1 .. 5
  BY <1>1, LastType
<1>4. \A i \in 1 .. 3 : ~Heard(i)
  BY <1>3 DEF Heard, Age, Init
<1> QED
  BY <1>2, <1>4, Numbers DEF WeekInv, HowInTime, CopiesHeard, AllSeen, Init

LEMMA SubframeEndWeek ==
  ASSUME IInv, IInv', WeekInv, SubframeEnd PROVE WeekInv'
<1>1. /\ UNCHANGED <<gpsVars, timeVars, issue, ephemeris, setVars>>
      /\ tic % SUBFRAME = 0 /\ sf # "head" /\ sf' = "head" /\ ~subframe_flag
      /\ tic' = tic
  BY DEF SubframeEnd, gpsVars
<1>2. Ended \in 1 .. 5 /\ Ended' = Ended /\ heard \in 0 .. 5 /\ HEARD = 5
  BY <1>1, EndedType DEF IInv, TypeOK, Ended, HEARD
<1>3. LastEnded = Before(Ended) /\ LastEnded' = Ended
  BY <1>1, <1>2 DEF LastEnded
<1>4. HowInTime'
  BY <1>1, Numbers DEF HowInTime
<1>5. Known' = Known /\ (ephemeris' # None => Known')
  BY <1>1 DEF Known, WeekInv, timeVars, setVars
<1>6. CASE heard' = 0
  <2>1. LastEnded' \in 1 .. 5
    BY <1>2, <1>3
  <2> QED
    BY <1>4, <1>5, <1>6, <2>1, NothingHeard
<1>7. CASE /\ sf = "synced"
           /\ heard' = IF heard < HEARD THEN heard + 1 ELSE HEARD
           /\ IF Ended \in 1 .. 3
                THEN /\ subframe_flag' = TRUE
                     /\ local_sf' = [local_sf EXCEPT ![Ended] =
                                       [issue |-> issue, week |-> week]]
                ELSE UNCHANGED <<subframe_flag, local_sf>>
  <2>1. \A i \in 1 .. 3 : i # Ended /\ Heard(i)' => Heard(i)
    BY <1>2, <1>3, <1>7 DEF Heard, Age, Before
  <2>2. CopiesHeard'
    <3> SUFFICES ASSUME NEW i \in 1 .. 3, Heard(i)'
                 PROVE  (local_sf[i] # NoCopy /\ local_sf[i].issue = issue)'
      BY DEF CopiesHeard
    <3>1. CASE i # Ended
      <4>1. local_sf[i] # NoCopy /\ local_sf[i].issue = issue
        BY <2>1, <3>1 DEF WeekInv, CopiesHeard
      <4>2. local_sf'[i] = local_sf[i]
        BY <1>7, <3>1 DEF IInv, TypeOK
      <4> QED
        BY <1>1, <4>1, <4>2
    <3>2. CASE i = Ended
      <4>1. local_sf'[i] = [issue |-> issue, week |-> week]
        BY <1>7, <3>2 DEF IInv, TypeOK
      <4>2. week \in Nat
        BY Numbers DEF IInv, TypeOK
      <4> QED
        BY <1>1, <4>1, <4>2 DEF NoCopy, None
    <3> QED
      BY <3>1, <3>2
  <2>3. AllSeen' => Known'
    <3> SUFFICES ASSUME AllSeen' PROVE Known'
      OBVIOUS
    <3>1. Ended \notin 1 .. 3
      BY <1>7 DEF AllSeen
    <3>2. \A i \in 1 .. 3 : Heard(i)
      BY <2>1, <3>1 DEF AllSeen
    <3> QED
      BY <1>1, <1>5, <3>2 DEF WeekInv, AllSeen
  <2> QED
    BY <1>4, <1>5, <2>2, <2>3 DEF WeekInv
<1> QED
  BY <1>6, <1>7 DEF SubframeEnd

LEMMA UpdateWeek ==
  ASSUME IInv, IInv', WeekInv, update_ephemeris PROVE WeekInv'
<1>1. /\ UNCHANGED <<tic, sf, issue, local_sf, heard>>
      /\ tic' = tic /\ sf' = sf
  BY DEF update_ephemeris, gpsVars, messageVars
<1>2. LastEnded' = LastEnded /\ HowInTime'
  BY <1>1 DEF LastEnded, HowInTime, Ended, WeekInv
<1>3. CopiesHeard' /\ \A i \in 1 .. 3 : Heard(i)' <=> Heard(i)
  BY <1>1, <1>2 DEF CopiesHeard, Heard, WeekInv
<1>4. Known => Known'
  <2>1. CASE HowOnly
    BY <2>1 DEF Known, update_ephemeris, set_time_with_weeks, HowOnly
  <2>2. CASE clock_state = "SF1_CLOCK"
    BY <2>2 DEF Known, update_ephemeris, set_time_with_weeks, HowOnly
  <2>3. CASE clock_state = "NO_CLOCK"
    <3>1. early' = early \/ early' = TRUE
      BY <2>3 DEF update_ephemeris
    <3> QED
      BY <2>3, <3>1 DEF Known
  <2> QED
    BY <2>1, <2>2, <2>3 DEF HowOnly, IInv, TypeOK
<1>5. CASE Complete /\ Agree /\ ephemeris # local_sf[2].issue
  <2>1. clock_state \in {"NO_CLOCK", "HOW_CLOCK", "SF1_CLOCK"}
    BY DEF IInv, TypeOK
  <2>2. Known'
    BY <1>5, <2>1 DEF update_ephemeris, set_time_with_weeks, HowOnly, Known
  <2> QED
    BY <1>2, <1>3, <2>2 DEF WeekInv
<1>6. CASE ~(Complete /\ Agree /\ ephemeris # local_sf[2].issue)
  <2>1. ephemeris' = ephemeris
    BY <1>6 DEF update_ephemeris
  <2>2. AllSeen' => Known'
    <3> SUFFICES ASSUME \A i \in 1 .. 3 : Heard(i) PROVE Known'
      BY <1>3 DEF AllSeen
    <3>1. \A i \in 1 .. 3 : local_sf[i] # NoCopy /\ local_sf[i].issue = issue
      BY DEF WeekInv, CopiesHeard
    <3>2. Complete /\ Agree /\ local_sf[2].issue = issue
      BY <3>1 DEF Complete, Agree
    <3>3. ephemeris # None
      BY <1>6, <3>2 DEF IInv, TypeOK, None
    <3> QED
      BY <1>4, <3>3 DEF WeekInv
  <2> QED
    BY <1>2, <1>3, <1>4, <2>1, <2>2 DEF WeekInv
<1> QED
  BY <1>5, <1>6

LEMMA HowWeek ==
  ASSUME IInv, IInv', WeekInv, HowReceived \/ HowLost PROVE WeekInv'
<1>1. /\ UNCHANGED <<timeVars, issue, ephemerisVars, setVars>>
      /\ tic' = tic /\ tic % SUBFRAME = HOW /\ sf' # "head"
      /\ heard' = heard \/ heard' = 0
  BY DEF HowReceived, HowLost, gpsVars
<1>2. HowInTime'
  BY <1>1, Numbers DEF HowInTime
<1>3. LastEnded' = LastEnded
  BY <1>1, Numbers DEF LastEnded, Ended
<1>4. Known' = Known /\ (ephemeris' # None => Known')
  BY <1>1 DEF Known, WeekInv, timeVars, setVars, ephemerisVars
<1>5. CASE heard' = heard
  BY <1>1, <1>2, <1>3, <1>5, WeekKept DEF timeVars, setVars, ephemerisVars
<1>6. CASE heard' = 0
  <2>1. LastEnded' \in 1 .. 5
    BY <1>3, LastType DEF IInv
  <2> QED
    BY <1>2, <1>4, <1>6, <2>1, NothingHeard
<1> QED
  BY <1>1, <1>5, <1>6

\* A new data set, and a channel that begins again.
LEMMA ResetWeek ==
  ASSUME IInv, IInv', WeekInv, Upload \/ restart_channel \/ initialize_channel
  PROVE  WeekInv'
<1>1. /\ UNCHANGED <<gpsVars, timeVars, setVars>> /\ heard' = 0 /\ tic' = tic
      /\ sf' # "head" <=> sf # "head"
      /\ ephemeris' = ephemeris \/ ephemeris' = None
  BY DEF Upload, restart_channel, initialize_channel, Restart, gpsVars, messageVars,
         ephemerisVars
<1>2. HowInTime'
  BY <1>1 DEF HowInTime, WeekInv
<1>3. ephemeris' # None => Known'
  BY <1>1 DEF Known, WeekInv, timeVars, setVars
<1>4. LastEnded' \in 1 .. 5
  <2>1. LastEnded' = LastEnded
    BY <1>1 DEF LastEnded, Ended
  <2> QED
    BY <2>1, LastType DEF IInv
<1> QED
  BY <1>1, <1>2, <1>3, <1>4, NothingHeard

LEMMA OtherWeek ==
  ASSUME IInv, WeekInv,
         \/ Tic \/ set_time_with_tow \/ ReadFirst \/ ReadSecond \/ ReadDone
         \/ UNCHANGED vars
  PROVE  WeekInv'
<1>1. /\ UNCHANGED <<heard, issue, local_sf, ephemeris, subframe_flag, early>>
      /\ clock_state = "SF1_CLOCK" => clock_state' = "SF1_CLOCK"
  BY DEF Tic, set_time_with_tow, ReadFirst, ReadSecond, ReadDone, vars, ephemerisVars,
         setVars, timeVars
<1>2. LastEnded' = LastEnded /\ HowInTime'
  <2>1. CASE Tic
    BY <2>1, LastKept DEF WeekInv
  <2>2. CASE UNCHANGED <<tic, sf>>
    BY <2>2 DEF LastEnded, HowInTime, Ended, WeekInv
  <2> QED
    BY <2>1, <2>2 DEF set_time_with_tow, ReadFirst, ReadSecond, ReadDone, vars,
                      gpsVars, messageVars
<1> QED
  BY <1>1, <1>2, WeekKept

\* Five subframes received in a row give the week of the time, in whatever order
\* losses, thrown away subframes, restarts and new data sets came before them.
THEOREM WeekComesCorrect == Spec => []WeekComes
<1>1. IInv /\ IInv' /\ WeekInv /\ [Next]_vars => WeekInv'
  BY SubframeEndWeek, UpdateWeek, HowWeek, ResetWeek, OtherWeek DEF Next
<1>2. IInv /\ WeekInv => WeekComes
  <2> SUFFICES ASSUME IInv, WeekInv, heard = HEARD, ~subframe_flag
               PROVE  Known
    BY DEF WeekComes, Known
  <2>1. LastEnded \in 1 .. 5
    BY LastType DEF IInv
  <2>2. \A i \in 1 .. 3 : Heard(i)
    BY <2>1 DEF Heard, Age, HEARD
  <2> QED
    BY <2>2 DEF WeekInv, AllSeen
<1> QED
  BY Inductive, WeekStart, <1>1, <1>2, PTL DEF Spec

-----------------------------------------------------------------------------
(* Years from March to February.                                           *)

\* Year y, from March, is the h-th of the g-th four of the f-th century of the e-th 400.
March(y, e, f, g, h) ==
  /\ e \in Nat /\ f \in 0 .. 3 /\ g \in 0 .. 24 /\ h \in 0 .. 3
  /\ y = 400 * e + 100 * f + 4 * g + h

\* The day of such a year that month m starts with.
Start(m) ==
  IF m = 1 THEN 306 ELSE IF m = 2 THEN 337 ELSE IF m = 3 THEN 0
  ELSE IF m = 4 THEN 31 ELSE IF m = 5 THEN 61 ELSE IF m = 6 THEN 92
  ELSE IF m = 7 THEN 122 ELSE IF m = 8 THEN 153 ELSE IF m = 9 THEN 184
  ELSE IF m = 10 THEN 214 ELSE IF m = 11 THEN 245 ELSE 275

YearOf(d) == IF d.months < 3 THEN d.years - 1 ELSE d.years

DayOf(d) == Start(d.months) + d.days - 1

\* The days from 6 January 1980, which is 723125 days after 1 March of year 0.
DayNumber(d, e, f, g, h) ==
  146097 * e + 36524 * f + 1461 * g + 365 * h + DayOf(d) - 723125

\* The Julian day of that day.
JulianDay(n) == n + 2444245

DayType == [years : Nat, months : 1 .. 12, days : 1 .. 31, part : 0 .. PER_DAY - 1]

Proper(d) == d \in DayType /\ d.days <= DaysIn(d.months, d.years)

\* Which years are leap years: y is the year after one that is given from March.
LEMMA Leap ==
  ASSUME NEW y \in Int, NEW e, NEW f, NEW g, NEW h, March(y - 1, e, f, g, h)
  PROVE  LeapYear(y) <=> h = 3 /\ (g = 24 => f = 3)
<1> USE DEF March
<1>1. y % 4 = IF h = 3 THEN 0 ELSE h + 1
  <2>1. CASE h = 3
    <3>1. y = (100 * e + 25 * f + g + 1) * 4 + 0
      BY <2>1
    <3> QED
      BY <2>1, <3>1, Quotient
  <2>2. CASE h # 3
    <3>1. y = (100 * e + 25 * f + g) * 4 + (h + 1) /\ h + 1 \in 0 .. 3
      BY <2>2
    <3> QED
      BY <2>2, <3>1, Quotient
  <2> QED
    BY <2>1, <2>2
<1>2. h = 3 => y % 100 = IF g = 24 THEN 0 ELSE 4 * g + 4
  <2>1. CASE h = 3 /\ g = 24
    <3>1. y = (4 * e + f + 1) * 100 + 0
      BY <2>1
    <3> QED
      BY <2>1, <3>1, Quotient
  <2>2. CASE h = 3 /\ g # 24
    <3>1. y = (4 * e + f) * 100 + (4 * g + 4) /\ 4 * g + 4 \in 0 .. 99
      BY <2>2
    <3> QED
      BY <2>2, <3>1, Quotient
  <2> QED
    BY <2>1, <2>2
<1>3. h = 3 /\ g = 24 => y % 400 = IF f = 3 THEN 0 ELSE 100 * f + 100
  <2>1. CASE h = 3 /\ g = 24 /\ f = 3
    <3>1. y = (e + 1) * 400 + 0
      BY <2>1
    <3> QED
      BY <2>1, <3>1, Quotient
  <2>2. CASE h = 3 /\ g = 24 /\ f # 3
    <3>1. y = e * 400 + (100 * f + 100) /\ 100 * f + 100 \in 0 .. 399
      BY <2>2
    <3> QED
      BY <2>2, <3>1, Quotient
  <2> QED
    BY <2>1, <2>2
<1> QED
  BY <1>1, <1>2, <1>3 DEF LeapYear

\* A day is in its year; the 366th only if the February at the end has 29.
LEMMA InYear ==
  ASSUME NEW d, Proper(d), NEW e, NEW f, NEW g, NEW h, March(YearOf(d), e, f, g, h)
  PROVE  /\ DayOf(d) \in 0 .. 365
         /\ DayOf(d) = 365 => h = 3 /\ (g = 24 => f = 3)
<1>1. /\ d.years \in Nat /\ d.months \in 1 .. 12 /\ d.days \in 1 .. 31
      /\ d.days <= DaysIn(d.months, d.years)
  BY DEF Proper, DayType
<1>2. CASE d.months # 2
  BY <1>1, <1>2 DEF DayOf, Start, DaysIn
<1>3. CASE d.months = 2
  <2>1. LeapYear(d.years) <=> h = 3 /\ (g = 24 => f = 3)
    BY <1>1, <1>3, Leap DEF YearOf
  <2> QED
    BY <1>1, <1>3, <2>1 DEF DayOf, Start, DaysIn
<1> QED
  BY <1>2, <1>3

(* Fliegel and Van Flandern.                                               *)

\* The month, counted from February.
FromFebruary(m) == IF m < 3 THEN m + 10 ELSE m - 2

\* And the turn of the year in it.
Turned(m) == IF m < 3 THEN 1 ELSE 0

\* The formula gives the date of a Julian day.
LEMMA DateOfDay ==
  ASSUME NEW d, Proper(d), NEW e, NEW f, NEW g, NEW h, March(YearOf(d), e, f, g, h)
  PROVE  Date(JulianDay(DayNumber(d, e, f, g, h)))
           = [years |-> d.years, months |-> d.months, days |-> d.days]
<1> DEFINE y  == DayOf(d)
           x  == 1461 * g + 365 * h + y
           j  == JulianDay(DayNumber(d, e, f, g, h))
           k1 == j + 68569
           n  == 49 + 4 * e + f
           m  == 4 * g + h
           k3 == y + 31
           mm == FromFebruary(d.months)
           k4 == Turned(d.months)
<1>1. /\ e \in Nat /\ f \in 0 .. 3 /\ g \in 0 .. 24 /\ h \in 0 .. 3
      /\ YearOf(d) = 400 * e + 100 * f + 4 * g + h
  BY DEF March
<1>2. y \in 0 .. 365 /\ (y = 365 => h = 3 /\ (g = 24 => f = 3))
  BY InYear
<1>3. x \in 0 .. 36524 /\ (x = 36524 => f = 3)
  <2> HIDE DEF y
  <2>1. x \in Int /\ 0 <= x /\ x <= 36524 /\ (x = 36524 => f = 3)
    BY <1>1, <1>2, SMT
  <2> HIDE DEF x
  <2> QED
    BY <2>1, SMT
<1>4. k1 = 1789689 + 146097 * e + 36524 * f + x /\ k1 \in Int
  BY <1>1, <1>2, SMT DEF JulianDay, DayNumber
<1>5. /\ d.years \in Nat /\ d.months \in 1 .. 12 /\ d.days \in 1 .. 31
      /\ d.days <= DaysIn(d.months, d.years)
  BY DEF Proper, DayType
\* The month and the day.
<1>6. /\ (80 * k3) \div 2447 = mm
      /\ k3 - (2447 * mm) \div 80 = d.days
      /\ mm \div 11 = k4
  <2>1. d.months = 2 => d.days <= 29
    BY <1>5, SMT DEF DaysIn
  <2>2. d.months \in {4, 6, 9, 11} => d.days <= 30
    BY <1>5, SMT DEF DaysIn
  <2>3. k3 \in Int /\ k3 = Start(d.months) + d.days + 30
    BY <1>5, SMT DEF DayOf, Start
  <2> HIDE DEF k3
  <2> DEFINE c == mm
             r == 80 * k3 - c * 2447
             t == 2447 * c - (k3 - d.days) * 80
  <2>4. c \in Int /\ 0 <= r /\ r <= 2446 /\ 0 <= t /\ t <= 79
    <3>1. CASE d.months \in {1, 2, 3}
      BY <1>5, <2>1, <2>3, <3>1, SMT DEF Start, FromFebruary
    <3>2. CASE d.months \in {4, 5, 6}
      BY <1>5, <2>2, <2>3, <3>2, SMT DEF Start, FromFebruary
    <3>3. CASE d.months \in {7, 8, 9}
      BY <1>5, <2>2, <2>3, <3>3, SMT DEF Start, FromFebruary
    <3>4. CASE d.months \in {10, 11, 12}
      BY <1>5, <2>2, <2>3, <3>4, SMT DEF Start, FromFebruary
    <3> QED
      BY <1>5, <3>1, <3>2, <3>3, <3>4, SMT
  <2>5. c \div 11 = k4
    <3>1. CASE d.months < 3
      <4>1. c = 1 * 11 + (d.months - 1) /\ d.months - 1 \in 0 .. 10 /\ c \in Int
        BY <1>5, <3>1, SMT DEF FromFebruary
      <4> HIDE DEF c
      <4>2. c \div 11 = 1
        BY <4>1, Quotient, SMT
      <4> QED
        BY <3>1, <4>2, SMT DEF Turned
    <3>2. CASE ~(d.months < 3)
      <4>1. c = 0 * 11 + c /\ c \in 0 .. 10
        BY <1>5, <3>2, SMT DEF FromFebruary
      <4> HIDE DEF c
      <4>2. c \div 11 = 0
        BY <4>1, Quotient, SMT
      <4> QED
        BY <3>2, <4>2, SMT DEF Turned
    <3> QED
      BY <3>1, <3>2
  <2> HIDE DEF c
  <2>6. /\ r \in Int /\ t \in Int /\ 80 * k3 \in Int /\ 80 * k3 = c * 2447 + r
        /\ 2447 * c \in Int /\ 2447 * c = (k3 - d.days) * 80 + t /\ k3 - d.days \in Int
    BY <1>5, <2>3, <2>4, SMT
  <2> HIDE DEF r, t
  <2>7. (80 * k3) \div 2447 = c
    <3> DEFINE a == 80 * k3
               b == 2447
    <3>1. a \in Int /\ b \in Nat /\ b >= 1 /\ a = c * b + r /\ r \in 0 .. b - 1
      BY <2>4, <2>6, SMT
    <3> HIDE DEF a, b
    <3>2. a \div b = c
      BY <2>4, <3>1, Quotient, SMT
    <3> QED
      BY <3>2, SMT DEF a, b
  <2>8. (2447 * c) \div 80 = k3 - d.days
    <3> DEFINE a == 2447 * c
               b == 80
               q == k3 - d.days
    <3>1. /\ a \in Int /\ b \in Nat /\ b >= 1 /\ a = q * b + t
          /\ t \in 0 .. b - 1 /\ q \in Int
      BY <2>4, <2>6, SMT
    <3> HIDE DEF a, b, q
    <3>2. a \div b = q
      BY <3>1, Quotient, SMT
    <3> QED
      BY <3>2, SMT DEF a, b, q
  <2>9. k3 - (k3 - d.days) = d.days
    BY <1>5, <2>3, SMT
  <2> QED
    BY <2>5, <2>7, <2>8, <2>9, SMT DEF c
<1>7. /\ 100 * (n - 49) + m + k4 = d.years
      /\ mm + 2 - 12 * k4 = d.months
  BY <1>1, <1>5, SMT DEF YearOf, FromFebruary, Turned
\* The century.
<1>8. (4 * k1) \div 146097 = n /\ (146097 * n + 3) \div 4 = k1 - x
  <2> HIDE DEF x, k1
  <2> DEFINE a == 4 * k1
             b == 146097
             r == 3 - f + 4 * x
             z == 146097 * n + 3
             q == k1 - x
  <2>1. /\ a \in Int /\ b \in Nat /\ b >= 1 /\ n \in Int /\ a = n * b + r
        /\ r \in Int /\ 0 <= r /\ r <= b - 1
    BY <1>1, <1>3, <1>4, SMT
  <2>2. z \in Int /\ q \in Int /\ z = q * 4 + f
    BY <1>1, <1>3, <1>4, SMT
  <2> HIDE DEF a, b, n, r, z, q
  <2>3. r \in 0 .. b - 1
    BY <2>1, SMT
  <2>4. a \div b = n
    BY <2>1, <2>3, Quotient, SMT
  <2>5. z \div 4 = q
    BY <1>1, <2>2, Quotient, SMT
  <2> QED
    BY <2>4, <2>5, SMT DEF a, b, z, q
\* The year of the century.
<1>9. (4000 * (x + 1)) \div 1461001 = m /\ (1461 * m) \div 4 = x - y
  <2> HIDE DEF y
  <2> DEFINE a == 4000 * (x + 1)
             b == 1461001
             r == 4000 * (y + 1) - 4 * g - 1001 * h
             z == 1461 * m
             q == x - y
  <2>1. /\ a \in Int /\ b \in Nat /\ b >= 1 /\ m \in Int /\ a = m * b + r
        /\ r \in Int /\ 0 <= r /\ r <= b - 1
    BY <1>1, <1>2, SMT
  <2>2. z \in Int /\ q \in Int /\ z = q * 4 + h
    BY <1>1, <1>2, SMT
  <2> HIDE DEF a, b, m, r, z, q
  <2>3. r \in 0 .. b - 1
    BY <2>1, SMT
  <2>4. a \div b = m
    BY <2>1, <2>3, Quotient, SMT
  <2>5. z \div 4 = q
    BY <1>1, <2>2, Quotient, SMT
  <2> HIDE DEF x
  <2> QED
    BY <2>4, <2>5, SMT DEF a, b, z, q
<1> HIDE DEF k1, x, y, n, m, mm, k4
<1>10. k1 - (k1 - x) = x
  BY <1>3, <1>4, SMT
<1>11. x - (x - y) + 31 = k3
  BY <1>2, <1>3, SMT
<1> HIDE DEF k3
<1>12. Date(j) = [years |-> 100 * (n - 49) + m + k4, months |-> mm + 2 - 12 * k4,
                  days |-> k3 - (2447 * mm) \div 80]
  <2>1. Date(j) = LET k2 == k1 - (146097 * n + 3) \div 4
                      m1 == (4000 * (k2 + 1)) \div 1461001
                      k5 == k2 - (1461 * m1) \div 4 + 31
                      m2 == (80 * k5) \div 2447
                      k6 == m2 \div 11
                  IN  [years |-> 100 * (n - 49) + m1 + k6, months |-> m2 + 2 - 12 * k6,
                       days |-> k5 - (2447 * m2) \div 80]
    BY <1>8, SMT DEF Date, k1
  <2> QED
    BY <1>6, <1>8, <1>9, <1>10, <1>11, <2>1, SMT
<1> QED
  BY <1>6, <1>7, <1>12, SMT

\* The calendar's next day is the next day.
LEMMA NextDayCounts ==
  ASSUME NEW d, Proper(d), NEW e, NEW f, NEW g, NEW h, March(YearOf(d), e, f, g, h)
  PROVE  /\ Proper(NextDay(d)) /\ NextDay(d).part = 0
         /\ \E e1, f1, g1, h1 :
              /\ March(YearOf(NextDay(d)), e1, f1, g1, h1)
              /\ DayNumber(NextDay(d), e1, f1, g1, h1) = DayNumber(d, e, f, g, h) + 1
<1> DEFINE t == NextDay(d)
<1>1. /\ d.years \in Nat /\ d.months \in 1 .. 12 /\ d.days \in 1 .. 31
      /\ d.part \in 0 .. PER_DAY - 1 /\ d \in DayType
      /\ d.days <= DaysIn(d.months, d.years)
  BY DEF Proper, DayType
<1>2. 0 \in 0 .. PER_DAY - 1
  BY CalendarAssumption
<1>3. /\ e \in Nat /\ f \in 0 .. 3 /\ g \in 0 .. 24 /\ h \in 0 .. 3
      /\ YearOf(d) = 400 * e + 100 * f + 4 * g + h
  BY DEF March
<1>4. CASE d.days < DaysIn(d.months, d.years)
  <2>1. t = [d EXCEPT !.days = d.days + 1, !.part = 0]
    BY <1>4 DEF NextDay
  <2>2. /\ t.years = d.years /\ t.months = d.months /\ t.days = d.days + 1 /\ t.part = 0
    BY <2>1, <1>1 DEF DayType
  <2>3. d.days + 1 \in 1 .. 31
    BY <1>1, <1>4 DEF DaysIn
  <2>4. t \in DayType
    BY <2>1, <2>3, <1>1, <1>2 DEF DayType
  <2>5. d.days + 1 <= DaysIn(d.months, d.years)
    BY <1>1, <1>4 DEF DaysIn
  <2>6. DayOf(t) = DayOf(d) + 1 /\ YearOf(t) = YearOf(d)
    BY <2>2, <1>1 DEF DayOf, YearOf, Start
  <2> HIDE DEF t
  <2>7. DayNumber(t, e, f, g, h) = DayNumber(d, e, f, g, h) + 1
    BY <2>6, <1>3, InYear, SMT DEF DayNumber
  <2>8. March(YearOf(t), e, f, g, h)
    BY <2>6
  <2> QED
    BY <2>2, <2>4, <2>5, <2>7, <2>8 DEF Proper, t
<1>5. CASE ~(d.days < DaysIn(d.months, d.years)) /\ d.months < 12
  <2>1. t = [d EXCEPT !.months = d.months + 1, !.days = 1, !.part = 0]
    BY <1>5 DEF NextDay
  <2>2. /\ t.years = d.years /\ t.months = d.months + 1 /\ t.days = 1 /\ t.part = 0
    BY <2>1, <1>1 DEF DayType
  <2>3. t \in DayType
    <3>1. d.months + 1 \in 1 .. 12 /\ 1 \in 1 .. 31
      BY <1>1, <1>5
    <3> QED
      BY <2>1, <3>1, <1>1, <1>2 DEF DayType
  <2>4. 1 <= DaysIn(t.months, t.years)
    BY DEF DaysIn
  <2>5. d.days = DaysIn(d.months, d.years)
    BY <1>1, <1>5 DEF DaysIn
  <2>6. Proper(t)
    BY <2>2, <2>3, <2>4 DEF Proper
  <2> HIDE DEF t
  <2>7. CASE d.months # 2
    <3>1. DayOf(t) = DayOf(d) + 1 /\ YearOf(t) = YearOf(d)
      BY <2>2, <2>5, <2>7, <1>1, <1>5 DEF DayOf, YearOf, Start, DaysIn
    <3>2. DayNumber(t, e, f, g, h) = DayNumber(d, e, f, g, h) + 1
      BY <3>1, <1>3, InYear, SMT DEF DayNumber
    <3>3. March(YearOf(t), e, f, g, h)
      BY <3>1
    <3> QED
      BY <2>2, <2>6, <3>2, <3>3 DEF t
  <2>8. CASE d.months = 2
    <3>1. LeapYear(d.years) <=> h = 3 /\ (g = 24 => f = 3)
      BY <1>1, <2>8, Leap DEF YearOf
    <3>2. DayOf(d) = IF h = 3 /\ (g = 24 => f = 3) THEN 365 ELSE 364
      BY <2>5, <2>8, <3>1 DEF DayOf, Start, DaysIn
    <3>3. DayOf(t) = 0 /\ YearOf(t) = YearOf(d) + 1
      BY <2>2, <2>8, <1>1 DEF DayOf, YearOf, Start
    <3>4. PICK e1, f1, g1, h1 :
            /\ e1 = IF h = 3 /\ g = 24 /\ f = 3 THEN e + 1 ELSE e
            /\ f1 = IF h = 3 /\ g = 24 THEN (IF f = 3 THEN 0 ELSE f + 1) ELSE f
            /\ g1 = IF h = 3 THEN (IF g = 24 THEN 0 ELSE g + 1) ELSE g
            /\ h1 = IF h = 3 THEN 0 ELSE h + 1
      OBVIOUS
    <3>5. March(YearOf(t), e1, f1, g1, h1)
      BY <1>3, <3>3, <3>4 DEF March
    <3>6. DayNumber(t, e1, f1, g1, h1) = DayNumber(d, e, f, g, h) + 1
      BY <1>3, <3>2, <3>3, <3>4, SMT DEF DayNumber
    <3> QED
      BY <2>2, <2>6, <3>5, <3>6 DEF t
  <2> QED
    BY <2>7, <2>8
<1>6. CASE ~(d.days < DaysIn(d.months, d.years)) /\ ~(d.months < 12)
  <2>1. t = [d EXCEPT !.years = d.years + 1, !.months = 1, !.days = 1, !.part = 0]
    BY <1>6 DEF NextDay
  <2>2. /\ t.years = d.years + 1 /\ t.months = 1 /\ t.days = 1 /\ t.part = 0
    BY <2>1, <1>1 DEF DayType
  <2>3. t \in DayType
    <3>1. d.years + 1 \in Nat /\ 1 \in 1 .. 12 /\ 1 \in 1 .. 31
      BY <1>1
    <3> QED
      BY <2>1, <3>1, <1>1, <1>2 DEF DayType
  <2>4. 1 <= DaysIn(t.months, t.years)
    BY DEF DaysIn
  <2>5. d.days = 31 /\ d.months = 12
    BY <1>1, <1>6 DEF DaysIn
  <2>6. Proper(t)
    BY <2>2, <2>3, <2>4 DEF Proper
  <2> HIDE DEF t
  <2>7. DayOf(t) = DayOf(d) + 1 /\ YearOf(t) = YearOf(d)
    BY <2>2, <2>5, <1>1 DEF DayOf, YearOf, Start
  <2>8. DayNumber(t, e, f, g, h) = DayNumber(d, e, f, g, h) + 1
    BY <2>7, <1>3, InYear, SMT DEF DayNumber
  <2>9. March(YearOf(t), e, f, g, h)
    BY <2>7
  <2> QED
    BY <2>2, <2>6, <2>8, <2>9 DEF t
<1> QED
  BY <1>4, <1>5, <1>6

(* The date.                                                               *)

\* The calendar's page is the day that has begun since Sunday, 6 January 1980.
PageInv ==
  /\ gps_weeks \in Nat /\ gps_seconds \in 0 .. SECONDS_IN_WEEK - 1
  /\ Proper(date)
  /\ \E e, f, g, h :
       /\ March(YearOf(date), e, f, g, h)
       /\ Parts(gps_weeks, gps_seconds)
            = DayNumber(date, e, f, g, h) * PER_DAY + date.part

LEMMA PageInit == CalendarInit => PageInv
<1> SUFFICES ASSUME CalendarInit PROVE PageInv
  OBVIOUS
<1>1. PER_DAY \in Nat /\ PER_DAY >= 1 /\ 0 \in 0 .. PER_DAY - 1
  BY CalendarAssumption
<1>2. gps_weeks = 0 /\ gps_seconds = 0
      /\ date = [years |-> 1980, months |-> 1, days |-> 6, part |-> 0]
  BY DEF CalendarInit
<1>3. Proper(date)
  BY <1>1, <1>2 DEF Proper, DayType, DaysIn
<1>4. March(YearOf(date), 4, 3, 19, 3)
  BY <1>2 DEF March, YearOf
<1>5. DayNumber(date, 4, 3, 19, 3) = 0
  BY <1>2, SMT DEF DayNumber, DayOf, Start
<1>6. Parts(0, 0) = 0
  BY <1>1 DEF Parts
<1>7. Parts(gps_weeks, gps_seconds) = DayNumber(date, 4, 3, 19, 3) * PER_DAY + date.part
  <2>1. 0 * PER_DAY + 0 = 0
    BY <1>1
  <2> QED
    BY <1>2, <1>5, <1>6, <2>1
<1>8. gps_seconds \in 0 .. SECONDS_IN_WEEK - 1 /\ gps_weeks \in Nat
  BY <1>1, <1>2 DEF SECONDS_IN_WEEK
<1> QED
  BY <1>3, <1>4, <1>7, <1>8 DEF PageInv

LEMMA PageStep ==
  ASSUME PageInv, [CalendarNext]_calendarVars
  PROVE  PageInv'
<1>1. CASE UNCHANGED calendarVars
  BY <1>1 DEF calendarVars, PageInv
<1>2. CASE Tick
  <2>1. PER_DAY \in Nat /\ PER_DAY >= 1
    BY CalendarAssumption
  <2>2. gps_weeks \in Nat /\ gps_seconds \in 0 .. SECONDS_IN_WEEK - 1 /\ Proper(date)
    BY DEF PageInv
  <2>3. /\ gps_weeks' \in Nat /\ gps_seconds' \in 0 .. SECONDS_IN_WEEK - 1
        /\ Parts(gps_weeks', gps_seconds') = Parts(gps_weeks, gps_seconds) + 1
    <3>1. /\ gps_weeks * 7 * PER_DAY \in Int
          /\ (gps_weeks + 1) * 7 * PER_DAY = gps_weeks * 7 * PER_DAY + 7 * PER_DAY
      BY <2>1, <2>2
    <3>2. CASE gps_seconds + 1 < SECONDS_IN_WEEK
      BY <1>2, <2>1, <2>2, <3>1, <3>2 DEF Tick, Parts, SECONDS_IN_WEEK
    <3>3. CASE ~(gps_seconds + 1 < SECONDS_IN_WEEK)
      BY <1>2, <2>1, <2>2, <3>1, <3>3 DEF Tick, Parts, SECONDS_IN_WEEK
    <3> QED
      BY <3>2, <3>3
  <2>4. PICK e, f, g, h :
          /\ March(YearOf(date), e, f, g, h)
          /\ Parts(gps_weeks, gps_seconds)
               = DayNumber(date, e, f, g, h) * PER_DAY + date.part
    BY DEF PageInv
  <2>5. DayNumber(date, e, f, g, h) \in Int /\ date.part \in 0 .. PER_DAY - 1
    <3>1. e \in Nat /\ f \in Nat /\ g \in Nat /\ h \in Nat
      BY <2>4, SMT DEF March
    <3>2. DayOf(date) \in 0 .. 365
      BY <2>2, <2>4, InYear
    <3> QED
      BY <2>2, <3>1, <3>2, SMT DEF DayNumber, Proper, DayType
  <2>6. CASE date.part + 1 < PER_DAY
    <3>1. date' = [date EXCEPT !.part = date.part + 1]
      BY <1>2, <2>6 DEF Tick
    <3>2. /\ date'.part = date.part + 1 /\ date'.years = date.years
          /\ date'.months = date.months /\ date'.days = date.days /\ date' \in DayType
      BY <2>1, <2>2, <2>6, <3>1 DEF Proper, DayType
    <3>3. Proper(date') /\ YearOf(date') = YearOf(date)
      BY <2>2, <3>2, Zenon DEF Proper, YearOf
    <3>4. DayNumber(date', e, f, g, h) = DayNumber(date, e, f, g, h)
      BY <3>2, SMT DEF DayNumber, DayOf
    <3>5. Parts(gps_weeks', gps_seconds')
            = DayNumber(date', e, f, g, h) * PER_DAY + date'.part
      <4> DEFINE a == DayNumber(date, e, f, g, h) * PER_DAY
      <4>1. a \in Int
        BY <2>1, <2>5
      <4> HIDE DEF a
      <4>2. a + date.part + 1 = a + (date.part + 1)
        BY <4>1, <2>5
      <4> QED
        BY <2>3, <2>4, <3>2, <3>4, <4>2, Zenon DEF a
    <3> QED
      BY <2>3, <2>4, <3>3, <3>5, Zenon DEF PageInv
  <2>7. CASE ~(date.part + 1 < PER_DAY)
    <3>1. date' = NextDay(date)
      BY <1>2, <2>7 DEF Tick
    <3>2. PICK e1, f1, g1, h1 :
            /\ March(YearOf(date'), e1, f1, g1, h1)
            /\ DayNumber(date', e1, f1, g1, h1) = DayNumber(date, e, f, g, h) + 1
      BY <2>2, <2>4, <3>1, NextDayCounts
    <3>3. Proper(date') /\ date'.part = 0
      BY <2>2, <2>4, <3>1, NextDayCounts
    <3>4. Parts(gps_weeks', gps_seconds')
            = DayNumber(date', e1, f1, g1, h1) * PER_DAY + date'.part
      <4> DEFINE j == DayNumber(date, e, f, g, h)
      <4>1. j \in Int /\ date.part + 1 = PER_DAY
        BY <2>1, <2>5, <2>7
      <4> HIDE DEF j
      <4>2. /\ j * PER_DAY \in Int
            /\ (j + 1) * PER_DAY = j * PER_DAY + PER_DAY
        BY <2>1, <4>1
      <4>3. j * PER_DAY + date.part + 1 = (j + 1) * PER_DAY + 0
        BY <2>1, <2>5, <4>1, <4>2
      <4> QED
        BY <2>3, <2>4, <3>2, <3>3, <4>3, Zenon DEF j
    <3> QED
      BY <2>3, <3>2, <3>3, <3>4, Zenon DEF PageInv
  <2> QED
    BY <2>6, <2>7
<1>3. CASE Stop
  BY <1>1, <1>3 DEF Stop
<1> QED
  BY <1>1, <1>2, <1>3 DEF CalendarNext

LEMMA PageDate == PageInv => DateRight
<1> SUFFICES ASSUME PageInv PROVE DateRight
  OBVIOUS
<1>1. PICK e, f, g, h :
        /\ March(YearOf(date), e, f, g, h)
        /\ Parts(gps_weeks, gps_seconds)
             = DayNumber(date, e, f, g, h) * PER_DAY + date.part
  BY DEF PageInv
<1>2. Proper(date) /\ date \in DayType
  BY DEF PageInv, Proper
<1> DEFINE j == DayNumber(date, e, f, g, h)
<1>3. j \in Int /\ date.part \in 0 .. PER_DAY - 1 /\ PER_DAY \in Nat /\ PER_DAY >= 1
  <2>1. e \in Nat /\ f \in Nat /\ g \in Nat /\ h \in Nat
    BY <1>1, SMT DEF March
  <2>2. DayOf(date) \in 0 .. 365
    BY <1>1, <1>2, InYear
  <2> QED
    BY <1>2, <2>1, <2>2, CalendarAssumption, SMT DEF DayNumber, DayType
<1>4. Date(JulianDay(j))
        = [years |-> date.years, months |-> date.months, days |-> date.days]
  BY <1>1, <1>2, DateOfDay
<1> HIDE DEF j
<1>5. /\ Parts(gps_weeks, gps_seconds) \div PER_DAY = j
      /\ Parts(gps_weeks, gps_seconds) % PER_DAY = date.part
  <2>1. j \in Int /\ j * PER_DAY \in Int
    BY <1>3
  <2>2. Parts(gps_weeks, gps_seconds) = j * PER_DAY + date.part
    BY <1>1 DEF j
  <2>3. Parts(gps_weeks, gps_seconds) \in Int
    BY <2>1, <2>2, <1>3
  <2> QED
    BY <1>3, <2>1, <2>2, <2>3, Quotient
<1>6. jd(gps_weeks, gps_seconds) = JulianDay(j) /\ fjd(gps_weeks, gps_seconds) = date.part
  BY <1>3, <1>5, SMT DEF jd, fjd, JulianDay
<1>7. get_standard_time(gps_weeks, gps_seconds)
        = [years |-> date.years, months |-> date.months, days |-> date.days,
           part |-> date.part]
  BY <1>4, <1>6 DEF get_standard_time
<1> QED
  BY <1>2, <1>7 DEF DateRight, DayType

\* time.c:174-216: the date printed is the date in every week from 1980 on, at any
\* instant of a day, as far as the code's ints reach.
THEOREM DateRightCorrect == CalendarSpec => []DateRight
<1>1. PageInv /\ [CalendarNext]_calendarVars => PageInv'
  BY PageStep
<1> QED
  BY <1>1, PageInit, PageDate, PTL DEF CalendarSpec
=============================================================================
