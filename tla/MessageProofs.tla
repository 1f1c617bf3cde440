---------------------------- MODULE MessageProofs ----------------------------
(* Proofs about Message, for words, subframes, weeks and false preambles of   *)
(* any number.                                                                *)
EXTENDS Message, Integers, TLAPS

-----------------------------------------------------------------------------
(* Arithmetic of the bits of a week.                                       *)

LEMMA Numbers ==
  /\ WORD \in Nat /\ WORD >= 2 /\ WORDS \in Nat /\ WORDS >= 3
  /\ SUBFRAMES \in Nat /\ SUBFRAMES >= 2 /\ TOWS \in Nat /\ TOWS >= 1
  /\ TOW_LIMIT \in Nat /\ TOW_LIMIT > TOWS
  /\ EPOCHS \in Nat /\ EPOCHS >= 1
  /\ MAX_BAD_PARITY \in Nat /\ MAX_MISHAPS \in Nat /\ MAX_MISHAPS >= 1
  /\ N_CHANNELS \in Nat
  BY MessageAssumption

LEMMA Division ==
  ASSUME NEW a \in Int, NEW n \in Nat, n >= 1
  PROVE  /\ a \div n \in Int /\ a % n \in 0 .. n - 1
         /\ a = (a \div n) * n + (a % n)
  BY Z3

\* A quotient and a remainder are the quotient and the remainder.
LEMMA Quotient ==
  ASSUME NEW a \in Int, NEW n \in Nat, n >= 1, NEW q \in Int, NEW r \in 0 .. n - 1,
         a = q * n + r
  PROVE  a \div n = q /\ a % n = r
<1> DEFINE d == (a \div n) - q
           s == a % n
<1>1. d \in Int /\ s \in 0 .. n - 1 /\ (a \div n) * n + s = a /\ a \div n \in Int
  <2>1. a \div n \in Int /\ a % n \in 0 .. n - 1 /\ a = (a \div n) * n + (a % n)
    BY Division
  <2>2. d \in Int
    BY <2>1
  <2> QED
    BY <2>1, <2>2, Zenon
<1>2. (a \div n) * n = d * n + q * n
  BY <1>1
<1>3. d * n = r - s
  <2> HIDE DEF d, s
  <2>1. d * n \in Int /\ q * n \in Int
    BY <1>1
  <2> QED
    BY <1>1, <1>2, <2>1
<1> HIDE DEF d, s
<1>4. d < 1
  <2> SUFFICES ASSUME d >= 1 PROVE FALSE
    BY <1>1
  <2>1. (d - 1) * n >= 0
    BY <1>1
  <2> QED
    BY <2>1, <1>1, <1>3
<1>5. d > -1
  <2> SUFFICES ASSUME d <= -1 PROVE FALSE
    BY <1>1
  <2>1. (-1 - d) * n >= 0
    BY <1>1
  <2> QED
    BY <2>1, <1>1, <1>3
<1>6. d = 0 /\ s = r
  BY <1>1, <1>3, <1>4, <1>5
<1> QED
  BY <1>6, <1>1 DEF d, s

\* A week is a whole number of subframes, and these of turns of the epoch counter.
LEMMA Lengths ==
  /\ SUBFRAME_BITS \in Nat /\ SUBFRAME_BITS >= 3 * WORD
  /\ HOW_END \in Nat /\ HOW_END < SUBFRAME_BITS /\ HOW_END = 2 * WORD
  /\ BITS_IN_WEEK \in Nat /\ BITS_IN_WEEK >= SUBFRAME_BITS
  /\ BITS_IN_WEEK = SUBFRAME_BITS * TOWS
  /\ SUBFRAME_BITS = (SUBFRAME_BITS \div EPOCHS) * EPOCHS
  /\ SUBFRAME_BITS \div EPOCHS \in Int
<1>1. SUBFRAME_BITS \in Nat /\ SUBFRAME_BITS >= 3 * WORD
  <2>1. (WORDS - 3) * WORD >= 0 /\ WORD * WORDS = (WORDS - 3) * WORD + 3 * WORD
    BY Numbers
  <2>2. WORD * WORDS \in Nat
    BY Numbers
  <2> QED
    BY <2>1, <2>2, Numbers DEF SUBFRAME_BITS
<1>2. HOW_END \in Nat /\ HOW_END < SUBFRAME_BITS /\ HOW_END = 2 * WORD
  BY <1>1, Numbers DEF HOW_END
<1>3. BITS_IN_WEEK \in Nat /\ BITS_IN_WEEK >= SUBFRAME_BITS
  <2> DEFINE s == SUBFRAME_BITS
  <2>1. s \in Nat /\ BITS_IN_WEEK = s * TOWS
    BY <1>1 DEF BITS_IN_WEEK
  <2> HIDE DEF s
  <2>2. s * TOWS \in Nat /\ (TOWS - 1) * s >= 0 /\ s * TOWS = (TOWS - 1) * s + s
    BY <2>1, Numbers
  <2>3. BITS_IN_WEEK >= s /\ BITS_IN_WEEK \in Nat
    BY <2>1, <2>2, Numbers
  <2> QED
    BY <2>3 DEF s
<1>4. SUBFRAME_BITS % EPOCHS = 0
  BY MessageAssumption
<1>5. /\ SUBFRAME_BITS = (SUBFRAME_BITS \div EPOCHS) * EPOCHS
      /\ SUBFRAME_BITS \div EPOCHS \in Int
  <2> DEFINE s == SUBFRAME_BITS
  <2>1. s \in Int /\ s % EPOCHS = 0
    BY <1>1, <1>4
  <2> HIDE DEF s
  <2>2. s \div EPOCHS \in Int /\ s = (s \div EPOCHS) * EPOCHS + (s % EPOCHS)
    BY <2>1, Numbers, Division
  <2>3. (s \div EPOCHS) * EPOCHS \in Int
    BY <2>2, Numbers
  <2>4. s = (s \div EPOCHS) * EPOCHS
    BY <2>1, <2>2, <2>3
  <2> QED
    BY <2>2, <2>4 DEF s
<1> QED
  BY <1>1, <1>2, <1>3, <1>5 DEF BITS_IN_WEEK

\* The time of a HOW with the TOW that the satellite sends in subframe t.
LEMMA TimeOfHow ==
  ASSUME NEW t \in 0 .. TOWS - 1
  PROVE  TimeOf((t + 1) % TOWS) = t * SUBFRAME_BITS + HOW_END
<1> DEFINE s == SUBFRAME_BITS
           h == HOW_END
<1>1. s \in Nat /\ h \in Nat /\ BITS_IN_WEEK = s * TOWS
  BY Lengths
<1>2. CASE t + 1 < TOWS
  <2>1. (t + 1) % TOWS = t + 1 /\ t + 1 # 0
    BY <1>2, Numbers
  <2>2. TimeOf((t + 1) % TOWS) = (t + 1) * s - (s - h)
    BY <2>1 DEF TimeOf
  <2> HIDE DEF s, h
  <2>3. (t + 1) * s - (s - h) = t * s + h
    <3>1. (t + 1) * s = t * s + s /\ t * s \in Int
      BY <1>1
    <3> QED
      BY <3>1, <1>1
  <2> QED
    BY <2>2, <2>3 DEF s, h
<1>3. CASE t + 1 = TOWS
  <2>1. (t + 1) % TOWS = 0
    BY <1>3, Numbers
  <2>2. TimeOf((t + 1) % TOWS) = s * TOWS - (s - h)
    BY <2>1, <1>1 DEF TimeOf
  <2> HIDE DEF s, h
  <2>3. s * TOWS - (s - h) = t * s + h
    <3>1. s * TOWS = t * s + s /\ t * s \in Int
      BY <1>1, <1>3, Numbers
    <3> QED
      BY <3>1, <1>1
  <2> QED
    BY <2>2, <2>3 DEF s, h
<1> QED
  BY <1>2, <1>3, Numbers

\* At the end of a HOW the epoch counter is to show what it is loaded with.
LEMMA EpochOfHow ==
  ASSUME NEW t \in 0 .. TOWS - 1
  PROVE  (t * SUBFRAME_BITS + HOW_END) % EPOCHS = EpochLoad
<1> DEFINE m == SUBFRAME_BITS \div EPOCHS
           s == SUBFRAME_BITS
           h == HOW_END
<1>1. s = m * EPOCHS /\ m \in Int /\ h \in Nat /\ s \in Nat
  BY Lengths
<1>2. EpochLoad = h % EPOCHS
  BY DEF EpochLoad
<1> HIDE DEF m, s, h
<1>3. /\ h \div EPOCHS \in Int /\ h % EPOCHS \in 0 .. EPOCHS - 1
      /\ h = (h \div EPOCHS) * EPOCHS + (h % EPOCHS)
  BY <1>1, Numbers, Division
<1> DEFINE a == h \div EPOCHS
           b == h % EPOCHS
<1>4. a \in Int /\ b \in 0 .. EPOCHS - 1 /\ h = a * EPOCHS + b
  BY <1>3
<1> HIDE DEF a, b
<1>5. t * s = (t * m) * EPOCHS /\ t * m \in Int
  BY <1>1, Numbers
<1>6. t * s + h = (t * m + a) * EPOCHS + b
  <2>1. (t * m + a) * EPOCHS = (t * m) * EPOCHS + a * EPOCHS
    BY <1>4, <1>5, Numbers
  <2>2. (t * m) * EPOCHS \in Int /\ a * EPOCHS \in Int
    BY <1>4, <1>5, Numbers
  <2> QED
    BY <2>1, <2>2, <1>4, <1>5
<1>7. t * s + h \in Int /\ t * m + a \in Int
  BY <1>1, <1>4, <1>5
<1>8. (t * s + h) % EPOCHS = b
  BY <1>4, <1>6, <1>7, Quotient, Numbers
<1> QED
  BY <1>2, <1>8 DEF s, h, b

\* The receiver counts a bit as the satellite does.
LEMMA NextBit ==
  ASSUME NEW x \in 0 .. BITS_IN_WEEK - 1
  PROVE  /\ (x + 1) % BITS_IN_WEEK \in 0 .. BITS_IN_WEEK - 1
         /\ NextBitTime(x) = (x + 1) % BITS_IN_WEEK
         /\ ((x + 1) % BITS_IN_WEEK) % EPOCHS = ((x % EPOCHS) + 1) % EPOCHS
<1> DEFINE w == BITS_IN_WEEK
           k == (SUBFRAME_BITS \div EPOCHS) * TOWS
           q == x \div EPOCHS
           r == x % EPOCHS
<1>1. w \in Nat /\ w >= 1 /\ w = k * EPOCHS /\ k \in Int
  <2> DEFINE m == SUBFRAME_BITS \div EPOCHS
             s == SUBFRAME_BITS
  <2>1. s \in Nat /\ s >= 1 /\ s = m * EPOCHS /\ m \in Int /\ w = s * TOWS /\ w >= s
        /\ w \in Nat
    BY Lengths, Numbers
  <2> HIDE DEF m, s, w
  <2>2. s * TOWS = (m * TOWS) * EPOCHS /\ m * TOWS \in Int
    BY <2>1, Numbers
  <2>3. w = (m * TOWS) * EPOCHS /\ w >= 1
    BY <2>1, <2>2
  <2> QED
    BY <2>1, <2>2, <2>3 DEF m
<1>2. x \in 0 .. w - 1
  OBVIOUS
<1>3. (x + 1 < w /\ (x + 1) % w = x + 1) \/ (x + 1 = w /\ (x + 1) % w = 0)
  <2> HIDE DEF w
  <2> QED
    BY <1>1, <1>2
<1>4. NextBitTime(x) = (x + 1) % w
  <2> NextBitTime(x) = IF x + 1 >= w THEN x + 1 - w ELSE x + 1
    BY DEF NextBitTime
  <2> HIDE DEF w
  <2> QED
    BY <1>1, <1>2, <1>3
<1>5. q \in Int /\ r \in 0 .. EPOCHS - 1 /\ x = q * EPOCHS + r
  BY <1>1, <1>2, Numbers, Division
<1> HIDE DEF w, k, q, r
<1>6. CASE r + 1 < EPOCHS
  <2>1. x + 1 = q * EPOCHS + (r + 1) /\ r + 1 \in 0 .. EPOCHS - 1 /\ x + 1 \in Int
    <3>1. q * EPOCHS \in Int
      BY <1>5, Numbers
    <3> QED
      BY <3>1, <1>5, <1>6, <1>2, <1>1, Numbers
  <2>2. (x + 1) % EPOCHS = r + 1
    BY <2>1, <1>5, Quotient, Numbers
  <2>3. x + 1 # w
    <3> SUFFICES ASSUME x + 1 = w PROVE FALSE
      OBVIOUS
    <3>1. x + 1 = k * EPOCHS + 0 /\ 0 \in 0 .. EPOCHS - 1
      BY <1>1, Numbers
    <3>2. (x + 1) % EPOCHS = 0
      BY <3>1, <2>1, <1>1, Quotient, Numbers
    <3> QED
      BY <3>2, <2>2, <1>5
  <2>4. (r + 1) % EPOCHS = r + 1
    BY <1>5, <1>6, Numbers
  <2>5. ((x + 1) % w) % EPOCHS = (r + 1) % EPOCHS
    BY <1>3, <2>2, <2>3, <2>4
  <2> QED
    BY <1>1, <1>2, <1>3, <1>4, <2>5 DEF w, r
<1>7. CASE r + 1 = EPOCHS
  <2>1. x + 1 = (q + 1) * EPOCHS + 0 /\ 0 \in 0 .. EPOCHS - 1 /\ x + 1 \in Int
        /\ q + 1 \in Int
    <3>1. (q + 1) * EPOCHS = q * EPOCHS + EPOCHS /\ q * EPOCHS \in Int
      BY <1>5, Numbers
    <3> QED
      BY <3>1, <1>5, <1>7, <1>2, <1>1, Numbers
  <2>2. (x + 1) % EPOCHS = 0
    BY <2>1, Quotient, Numbers
  <2>3. (r + 1) % EPOCHS = 0 /\ 0 % EPOCHS = 0
    BY <1>7, Numbers
  <2>4. ((x + 1) % w) % EPOCHS = (r + 1) % EPOCHS
    BY <1>3, <2>2, <2>3
  <2> QED
    BY <1>1, <1>2, <1>3, <1>4, <2>4 DEF w, r
<1> QED
  BY <1>5, <1>6, <1>7, Numbers

-----------------------------------------------------------------------------
(* Types.                                                                  *)

Record == [TOW : 0 .. TOW_LIMIT - 1, valid : SUBSET Words, right : SUBSET Words]

LEMMA TimeType ==
  /\ \A tow \in 0 .. TOW_LIMIT - 1 : TimeOf(tow) \in 0 .. TOW_LIMIT * SUBFRAME_BITS
  /\ \A time \in 0 .. TOW_LIMIT * SUBFRAME_BITS :
       NextBitTime(time) \in 0 .. TOW_LIMIT * SUBFRAME_BITS
  /\ EpochLoad \in 0 .. EPOCHS - 1
<1> DEFINE s == SUBFRAME_BITS
           h == HOW_END
           w == BITS_IN_WEEK
           most == TOW_LIMIT * SUBFRAME_BITS
<1>1. s \in Nat /\ h \in Nat /\ h < s /\ w = s * TOWS /\ w \in Nat /\ s <= w
  BY Lengths
<1>2. most = TOW_LIMIT * s
  OBVIOUS
<1>3. EpochLoad = h % EPOCHS
  BY DEF EpochLoad
<1>4. \A tow : TimeOf(tow) = IF tow # 0 THEN tow * s - (s - h) ELSE w - (s - h)
  BY DEF TimeOf
<1>5. \A time : NextBitTime(time) = IF time + 1 >= w THEN time + 1 - w ELSE time + 1
  BY DEF NextBitTime
<1> HIDE DEF s, h, w, most
<1>6. most \in Nat /\ w <= most
  <2>1. (TOW_LIMIT - TOWS) * s >= 0 /\ TOW_LIMIT * s = (TOW_LIMIT - TOWS) * s + s * TOWS
    BY <1>1, Numbers
  <2>2. TOW_LIMIT * s \in Nat /\ (TOW_LIMIT - TOWS) * s \in Int
    BY <1>1, Numbers
  <2> QED
    BY <2>1, <2>2, <1>1, <1>2
<1>7. ASSUME NEW tow \in 0 .. TOW_LIMIT - 1 PROVE TimeOf(tow) \in 0 .. most
  <2>1. CASE tow = 0
    BY <2>1, <1>1, <1>4, <1>6
  <2>2. CASE tow # 0
    <3>1. tow >= 1
      BY <2>2, Numbers
    <3>2. /\ tow * s = s + (tow - 1) * s /\ (tow - 1) * s >= 0
          /\ most = tow * s + (TOW_LIMIT - tow) * s /\ (TOW_LIMIT - tow) * s >= 0
      BY <3>1, <1>1, <1>2, Numbers
    <3>3. tow * s \in Int /\ (tow - 1) * s \in Int /\ (TOW_LIMIT - tow) * s \in Int
      BY <1>1, Numbers
    <3> QED
      BY <2>2, <3>2, <3>3, <1>1, <1>4, <1>6
  <2> QED
    BY <2>1, <2>2
<1>8. ASSUME NEW time \in 0 .. most PROVE NextBitTime(time) \in 0 .. most
  BY <1>1, <1>5, <1>6
<1>9. h % EPOCHS \in 0 .. EPOCHS - 1
  BY <1>1, Numbers, Division
<1> QED
  BY <1>3, <1>7, <1>8, <1>9 DEF most

LEMMA EmptyType == Empty \in Record
  BY Numbers DEF Empty, Record

LEMMA SfType ==
  TypeOK <=> /\ sf \in [Ch -> [0 .. SUBFRAMES - 1 -> Record]]
             /\ TypeOK
  BY DEF TypeOK, Record

LEMMA InitType == Init => TypeOK
<1> SUFFICES ASSUME Init PROVE TypeOK
  OBVIOUS
<1>1. BITS_IN_WEEK - 1 \in Nat /\ TOW_LIMIT * SUBFRAME_BITS \in Nat
  BY Lengths, Numbers
<1>2. sf \in [Ch -> [0 .. SUBFRAMES - 1 -> Record]]
  BY EmptyType DEF Init
<1>3. \A c \in Ch : frame_sync[c] => wordcount[c] \in Words
  BY DEF Init
<1>4. /\ clean \in [Ch -> 0 .. BUFFER] /\ subframe \in [Ch -> 0 .. SUBFRAMES - 1]
      /\ bitcount \in [Ch -> 0 .. WORD - 1] /\ wordcount \in [Ch -> 0 .. WORDS]
      /\ epoch_20ms \in [Ch -> 0 .. EPOCHS - 1] /\ mishaps \in [Ch -> 0 .. MAX_MISHAPS]
      /\ bad_parity_count \in 0 .. MAX_BAD_PARITY
  BY Numbers DEF Init, BUFFER
<1>5. /\ sat_bits \in [Ch -> 0 .. BITS_IN_WEEK - 1]
      /\ time_in_bits \in [Ch -> 0 .. TOW_LIMIT * SUBFRAME_BITS]
  BY <1>1 DEF Init
<1>6. /\ pc \in {"wait", "bits", "time", "sync"}
      /\ todo \in SUBSET Ch /\ message_flag \in SUBSET Ch
  BY DEF Init
<1>7. /\ locked \in [Ch -> BOOLEAN] /\ sync_20ms \in [Ch -> BOOLEAN]
      /\ seen \in [Ch -> BOOLEAN] /\ lost \in [Ch -> BOOLEAN] /\ noise \in [Ch -> BOOLEAN]
      /\ frame_sync \in [Ch -> BOOLEAN] /\ real_sync \in [Ch -> BOOLEAN]
      /\ set_ch_time \in [Ch -> BOOLEAN]
      /\ late \in [Ch -> BOOLEAN] /\ fooled \in [Ch -> BOOLEAN]
  BY DEF Init
<1> QED
  BY <1>2, <1>3, <1>4, <1>5, <1>6, <1>7, Zenon DEF TypeOK, Record

LEMMA MishapType ==
  ASSUME TypeOK, NEW c \in Ch
  PROVE  /\ Mishap(c) => mishaps' \in [Ch -> 0 .. MAX_MISHAPS]
         /\ Unblemished(c) => /\ late' \in [Ch -> BOOLEAN] /\ fooled' \in [Ch -> BOOLEAN]
                              /\ mishaps' \in [Ch -> 0 .. MAX_MISHAPS]
<1>1. mishaps \in [Ch -> 0 .. MAX_MISHAPS] /\ late \in [Ch -> BOOLEAN]
      /\ fooled \in [Ch -> BOOLEAN]
  BY DEF TypeOK
<1>2. 0 \in 0 .. MAX_MISHAPS /\ 1 \in 0 .. MAX_MISHAPS
  BY Numbers
<1>3. mishaps[c] < MAX_MISHAPS => mishaps[c] + 1 \in 0 .. MAX_MISHAPS
  BY <1>1, Numbers
<1>4. Mishap(c) => mishaps' \in [Ch -> 0 .. MAX_MISHAPS]
  BY <1>1, <1>3, Zenon DEF Mishap
<1>5. Unblemished(c) => /\ late' \in [Ch -> BOOLEAN] /\ fooled' \in [Ch -> BOOLEAN]
                        /\ mishaps' \in [Ch -> 0 .. MAX_MISHAPS]
  BY <1>1, <1>2 DEF Unblemished
<1> QED
  BY <1>4, <1>5

LEMMA BitType == ASSUME TypeOK, NEW c \in Ch, Bit(c) PROVE TypeOK'
<1>1. sat_bits' \in [Ch -> 0 .. BITS_IN_WEEK - 1]
  <2>1. (sat_bits[c] + 1) % BITS_IN_WEEK \in 0 .. BITS_IN_WEEK - 1
    BY NextBit DEF TypeOK
  <2> QED
    BY <2>1 DEF Bit, TypeOK
<1>2. time_in_bits' \in [Ch -> 0 .. TOW_LIMIT * SUBFRAME_BITS]
  <2>1. NextBitTime(time_in_bits[c]) \in 0 .. TOW_LIMIT * SUBFRAME_BITS
    BY TimeType DEF TypeOK
  <2> QED
    BY <2>1, Zenon DEF Bit, TypeOK
<1>3. epoch_20ms' \in [Ch -> 0 .. EPOCHS - 1]
  <2> DEFINE now == IF sync_20ms[c] THEN EpochLoad ELSE epoch_20ms[c]
  <2>1. now \in 0 .. EPOCHS - 1
    BY TimeType DEF TypeOK
  <2>2. now + 1 \in Int
    BY <2>1, Numbers
  <2>3. (now + 1) % EPOCHS \in 0 .. EPOCHS - 1
    BY <2>2, Numbers, Division
  <2>4. epoch_20ms' = [epoch_20ms EXCEPT ![c] = (now + 1) % EPOCHS]
    BY Zenon DEF Bit
  <2> QED
    BY <2>3, <2>4, Zenon DEF TypeOK
<1>4. mishaps' \in [Ch -> 0 .. MAX_MISHAPS]
  BY MishapType, Zenon DEF Bit, TypeOK
<1>5. /\ locked' \in [Ch -> BOOLEAN] /\ sync_20ms' \in [Ch -> BOOLEAN]
      /\ message_flag' \in SUBSET Ch
      /\ seen' \in [Ch -> BOOLEAN] /\ noise' \in [Ch -> BOOLEAN]
  BY DEF Bit, TypeOK
<1>6. lost' \in [Ch -> BOOLEAN]
  <2>1. (lost[c] \/ ~seen[c]) \in BOOLEAN
    OBVIOUS
  <2> QED
    BY <2>1, Zenon DEF Bit, TypeOK
<1>7. late' \in [Ch -> BOOLEAN]
  <2>1. (late[c] \/ Busy(c)) \in BOOLEAN
    BY Zenon DEF Busy
  <2> QED
    BY <2>1, Zenon DEF Bit, TypeOK
<1> QED
  BY <1>1, <1>2, <1>3, <1>4, <1>5, <1>6, <1>7, Zenon
     DEF Bit, TypeOK, frameVars, threadVars

LEMMA RestartType == ASSUME TypeOK, NEW c \in Ch, Restart(c) PROVE TypeOK'
<1>1. PICK s \in Starts : /\ sat_bits' = [sat_bits EXCEPT ![c] = s[1]]
                          /\ epoch_20ms' = [epoch_20ms EXCEPT ![c] = s[2]]
  BY Zenon DEF Restart
<1>2. s[1] \in 0 .. BITS_IN_WEEK - 1 /\ s[2] \in 0 .. EPOCHS - 1
  BY MessageAssumption
<1>3. sat_bits' \in [Ch -> 0 .. BITS_IN_WEEK - 1] /\ epoch_20ms' \in [Ch -> 0 .. EPOCHS - 1]
  BY <1>1, <1>2 DEF TypeOK
<1>4. sf' \in [Ch -> [0 .. SUBFRAMES - 1 -> Record]]
  <2>1. [i \in 0 .. SUBFRAMES - 1 |-> Empty] \in [0 .. SUBFRAMES - 1 -> Record]
    BY EmptyType
  <2> QED
    BY <2>1, SfType, Zenon DEF Restart, TypeOK
<1>5. /\ late' \in [Ch -> BOOLEAN] /\ fooled' \in [Ch -> BOOLEAN]
      /\ mishaps' \in [Ch -> 0 .. MAX_MISHAPS]
  BY MishapType, Zenon DEF Restart
<1>6. time_in_bits' \in [Ch -> 0 .. TOW_LIMIT * SUBFRAME_BITS]
  <2>1. 0 \in 0 .. TOW_LIMIT * SUBFRAME_BITS
    BY Numbers, Lengths
  <2> QED
    BY <2>1, Zenon DEF Restart, TypeOK
<1>7. /\ clean' \in [Ch -> 0 .. BUFFER]
      /\ subframe' \in [Ch -> 0 .. SUBFRAMES - 1]
  <2>1. 0 \in 0 .. BUFFER /\ 0 \in 0 .. SUBFRAMES - 1
    BY Numbers DEF BUFFER
  <2> QED
    BY <2>1, Zenon DEF Restart, TypeOK
<1>8. /\ locked' \in [Ch -> BOOLEAN] /\ sync_20ms' \in [Ch -> BOOLEAN]
      /\ frame_sync' \in [Ch -> BOOLEAN] /\ real_sync' \in [Ch -> BOOLEAN]
      /\ set_ch_time' \in [Ch -> BOOLEAN]
      /\ lost' \in [Ch -> BOOLEAN] /\ seen' \in [Ch -> BOOLEAN]
  BY DEF Restart, TypeOK
<1>9. \A d \in Ch : frame_sync'[d] => wordcount'[d] \in Words
  BY DEF Restart, TypeOK
<1> QED
  BY <1>3, <1>4, <1>5, <1>6, <1>7, <1>8, <1>9, Zenon
     DEF Restart, TypeOK, Record, threadVars

\* What the message thread makes of a channel's bit.
FrameType ==
  /\ clean \in [Ch -> 0 .. BUFFER]
  /\ frame_sync \in [Ch -> BOOLEAN] /\ real_sync \in [Ch -> BOOLEAN]
  /\ subframe \in [Ch -> 0 .. SUBFRAMES - 1]
  /\ bitcount \in [Ch -> 0 .. WORD - 1] /\ wordcount \in [Ch -> 0 .. WORDS]
  /\ \A c \in Ch : frame_sync[c] => wordcount[c] \in Words
  /\ set_ch_time \in [Ch -> BOOLEAN]
  /\ sf \in [Ch -> [0 .. SUBFRAMES - 1 -> Record]]
  /\ bad_parity_count \in 0 .. MAX_BAD_PARITY
  /\ pc \in {"wait", "bits", "time", "sync"} /\ todo \in SUBSET Ch
  /\ late \in [Ch -> BOOLEAN] /\ fooled \in [Ch -> BOOLEAN]
  /\ mishaps \in [Ch -> 0 .. MAX_MISHAPS]

LEMMA FrameTyped == TypeOK => FrameType
  BY Zenon DEF TypeOK, FrameType, Record

LEMMA ContinueType ==
  ASSUME FrameType, NEW c \in Ch, Continue(c)
  PROVE  pc' \in {"wait", "bits", "time", "sync"} /\ todo' \in SUBSET Ch
  BY DEF FrameType, Continue

LEMMA StoreBitType == ASSUME TypeOK, NEW c \in Ch PROVE store_bit(c) \in 0 .. BUFFER
<1>1. BUFFER \in Nat /\ BUFFER >= 2
  BY Numbers DEF BUFFER
<1>2. clean[c] \in 0 .. BUFFER
  BY DEF TypeOK
<1> QED
  BY <1>1, <1>2 DEF store_bit

LEMMA FoundType ==
  ASSUME TypeOK, NEW c \in Ch, NEW n \in 0 .. BUFFER, NEW i \in 0 .. SUBFRAMES - 1,
         NEW tow \in 0 .. TOW_LIMIT - 1, NEW real \in BOOLEAN,
         Found(c, n, i, tow, real), UNCHANGED bad_parity_count
  PROVE  FrameType'
<1>1. FrameType
  BY FrameTyped
<1>2. /\ wordcount' \in [Ch -> 0 .. WORDS]
      /\ \A d \in Ch : d # c => wordcount'[d] = wordcount[d]
      /\ wordcount'[c] = 2 /\ 2 \in Words
  <2>1. 2 \in 0 .. WORDS /\ 2 \in Words
    BY Numbers DEF Words
  <2>2. wordcount \in [Ch -> 0 .. WORDS] /\ wordcount' = [wordcount EXCEPT ![c] = 2]
    BY <1>1, Zenon DEF Found, FrameType
  <2> QED
    BY <2>1, <2>2
<1>3. frame_sync' \in [Ch -> BOOLEAN] /\ \A d \in Ch : d # c => frame_sync'[d] = frame_sync[d]
  <2>1. /\ frame_sync \in [Ch -> BOOLEAN]
        /\ \/ frame_sync' = [frame_sync EXCEPT ![c] = TRUE]
           \/ frame_sync' = [frame_sync EXCEPT ![c] = FALSE]
    BY <1>1, Zenon DEF Found, FrameType
  <2> QED
    BY <2>1
<1>4. \A d \in Ch : frame_sync'[d] => wordcount'[d] \in Words
  <2>1. \A d \in Ch : frame_sync[d] => wordcount[d] \in Words
    BY <1>1, Zenon DEF FrameType
  <2>2. ASSUME NEW d \in Ch, frame_sync'[d] PROVE wordcount'[d] \in Words
    <3>1. CASE d = c
      BY <1>2, <3>1
    <3>2. CASE d # c
      <4>1. frame_sync[d] /\ wordcount'[d] = wordcount[d]
        BY <1>2, <1>3, <2>2, <3>2, Zenon
      <4> QED
        BY <2>1, <4>1, Zenon
    <3> QED
      BY <3>1, <3>2
  <2> QED
    BY <2>2, Zenon
<1>5. bad_parity_count' \in 0 .. MAX_BAD_PARITY
  BY <1>1 DEF FrameType
<1>6. CASE Follows(c, i, tow)
  <2>1. /\ real_sync' = [real_sync EXCEPT ![c] = real]
        /\ subframe' = [subframe EXCEPT ![c] = i]
        /\ bitcount' = [bitcount EXCEPT ![c] = 0]
        /\ sf' = [sf EXCEPT ![c][i] = [TOW |-> tow, valid |-> FirstWords(c, i),
                                        right |-> IF real THEN {0, 1} ELSE {}]]
        /\ clean' = [clean EXCEPT ![c] = n]
        /\ fooled' = [fooled EXCEPT ![c] = @ \/ (~real /\ Expected(c, i, tow))]
        /\ UNCHANGED mishaps \/ Mishap(c)
        /\ UNCHANGED late
    BY <1>6, Zenon DEF Found
  <2>2. \/ /\ set_ch_time' = [set_ch_time EXCEPT ![c] = TRUE]
           /\ pc' = "time" /\ UNCHANGED todo
        \/ UNCHANGED set_ch_time /\ Continue(c)
    BY <1>6, Zenon DEF Found
  <2>3. sf' \in [Ch -> [0 .. SUBFRAMES - 1 -> Record]]
    <3>1. [TOW |-> tow, valid |-> FirstWords(c, i), right |-> IF real THEN {0, 1} ELSE {}]
            \in Record
      <4>1. {0, 1} \in SUBSET Words /\ {} \in SUBSET Words
        BY Numbers DEF Words
      <4> QED
        BY <4>1 DEF Record, FirstWords
    <3> QED
      BY <1>1, <2>1, <3>1, Zenon DEF FrameType
  <2>4. mishaps' \in [Ch -> 0 .. MAX_MISHAPS]
    BY <1>1, <2>1, MishapType, Zenon DEF FrameType
  <2>5. fooled' \in [Ch -> BOOLEAN] /\ late' \in [Ch -> BOOLEAN]
    <3>1. (fooled[c] \/ (~real /\ Expected(c, i, tow))) \in BOOLEAN
      BY Zenon DEF Expected, Confirmed
    <3> QED
      BY <1>1, <2>1, <3>1, Zenon DEF FrameType
  <2>6. /\ pc' \in {"wait", "bits", "time", "sync"} /\ todo' \in SUBSET Ch
        /\ set_ch_time' \in [Ch -> BOOLEAN]
    BY <1>1, <2>2, ContinueType DEF FrameType
  <2>7. /\ bitcount' \in [Ch -> 0 .. WORD - 1] /\ subframe' \in [Ch -> 0 .. SUBFRAMES - 1]
        /\ clean' \in [Ch -> 0 .. BUFFER] /\ real_sync' \in [Ch -> BOOLEAN]
    <3>1. 0 \in 0 .. WORD - 1
      BY Numbers
    <3> QED
      BY <1>1, <2>1, <3>1, Zenon DEF FrameType
  <2> QED
    BY <1>2, <1>3, <1>4, <1>5, <2>3, <2>4, <2>5, <2>6, <2>7, Zenon DEF FrameType
<1>7. CASE ~Follows(c, i, tow)
  <2>1. /\ subframe' = [subframe EXCEPT ![c] = 0]
        /\ set_ch_time' = [set_ch_time EXCEPT ![c] = FALSE]
        /\ sf' = [sf EXCEPT ![c] = [s \in 0 .. SUBFRAMES - 1 |-> Empty]]
        /\ \E kept \in {0, n} : clean' = [clean EXCEPT ![c] = kept]
        /\ Unblemished(c)
        /\ UNCHANGED <<real_sync, bitcount>>
        /\ Continue(c)
    BY <1>7, Zenon DEF Found
  <2>2. sf' \in [Ch -> [0 .. SUBFRAMES - 1 -> Record]]
    <3>1. [s \in 0 .. SUBFRAMES - 1 |-> Empty] \in [0 .. SUBFRAMES - 1 -> Record]
      BY EmptyType
    <3> QED
      BY <1>1, <2>1, <3>1, Zenon DEF FrameType
  <2>3. clean' \in [Ch -> 0 .. BUFFER] /\ subframe' \in [Ch -> 0 .. SUBFRAMES - 1]
    <3>1. 0 \in 0 .. BUFFER /\ 0 \in 0 .. SUBFRAMES - 1
      BY Numbers DEF BUFFER
    <3> QED
      BY <1>1, <2>1, <3>1 DEF FrameType
  <2>4. /\ mishaps' \in [Ch -> 0 .. MAX_MISHAPS]
        /\ fooled' \in [Ch -> BOOLEAN] /\ late' \in [Ch -> BOOLEAN]
    BY <2>1, MishapType, Zenon
  <2>5. /\ pc' \in {"wait", "bits", "time", "sync"} /\ todo' \in SUBSET Ch
        /\ set_ch_time' \in [Ch -> BOOLEAN]
        /\ bitcount' \in [Ch -> 0 .. WORD - 1] /\ real_sync' \in [Ch -> BOOLEAN]
    BY <1>1, <2>1, ContinueType DEF FrameType
  <2> QED
    BY <1>2, <1>3, <1>4, <1>5, <2>2, <2>3, <2>4, <2>5, Zenon DEF FrameType
<1> QED
  BY <1>6, <1>7

LEMMA LookType ==
  ASSUME TypeOK, NEW c \in Ch, NEW n \in 0 .. BUFFER, look_for_preamble(c, n)
  PROVE  FrameType'
<1>1. UNCHANGED bad_parity_count
  BY Zenon DEF look_for_preamble
<1>2. CASE \E t \in 0 .. TOWS - 1 : Found(c, n, t % SUBFRAMES, (t + 1) % TOWS, TRUE)
  <2>1. PICK t \in 0 .. TOWS - 1 : Found(c, n, t % SUBFRAMES, (t + 1) % TOWS, TRUE)
    BY <1>2
  <2>2. t % SUBFRAMES \in 0 .. SUBFRAMES - 1 /\ (t + 1) % TOWS \in 0 .. TOWS - 1
    BY Numbers, Division
  <2>3. (t + 1) % TOWS \in 0 .. TOW_LIMIT - 1
    BY <2>2, Numbers
  <2> QED
    BY <1>1, <2>1, <2>2, <2>3, FoundType
<1>3. CASE \E p \in Lookalikes : Found(c, n, p[2], p[3], FALSE)
  <2>1. PICK p \in Lookalikes : Found(c, n, p[2], p[3], FALSE)
    BY <1>3
  <2>2. p[2] \in 0 .. SUBFRAMES - 1 /\ p[3] \in 0 .. TOW_LIMIT - 1
    BY MessageAssumption
  <2> QED
    BY <1>1, <2>1, <2>2, FoundType
<1>4. CASE /\ clean' = [clean EXCEPT ![c] = n] /\ Continue(c)
           /\ UNCHANGED <<frameVars, historyVars>>
  <2>1. FrameType
    BY FrameTyped
  <2>2. pc' \in {"wait", "bits", "time", "sync"} /\ todo' \in SUBSET Ch
    BY <1>4, <2>1, ContinueType
  <2>3. clean' \in [Ch -> 0 .. BUFFER]
    BY <1>4, <2>1 DEF FrameType
  <2> QED
    BY <1>1, <1>4, <2>1, <2>2, <2>3, Zenon DEF FrameType, frameVars, historyVars
<1> QED
  BY <1>2, <1>3, <1>4, Zenon DEF look_for_preamble

LEMMA InsideWordType ==
  ASSUME TypeOK, NEW c \in Ch, NEW n \in 0 .. BUFFER, InsideWord(c, n)
  PROVE  FrameType'
<1>1. FrameType
  BY FrameTyped
<1>2. /\ bitcount[c] + 1 < WORD /\ Continue(c)
      /\ bitcount' = [bitcount EXCEPT ![c] = bitcount[c] + 1]
      /\ clean' = [clean EXCEPT ![c] = n]
  BY Zenon DEF InsideWord
<1>3. pc' \in {"wait", "bits", "time", "sync"} /\ todo' \in SUBSET Ch
  BY <1>1, <1>2, ContinueType
<1>4. bitcount' \in [Ch -> 0 .. WORD - 1]
  <2>1. bitcount \in [Ch -> 0 .. WORD - 1]
    BY <1>1, Zenon DEF FrameType
  <2>2. bitcount[c] + 1 \in 0 .. WORD - 1
    BY <2>1, <1>2, Numbers
  <2> QED
    BY <1>2, <2>1, <2>2, Zenon
<1>5. clean' \in [Ch -> 0 .. BUFFER]
  BY <1>1, <1>2, Zenon DEF FrameType
<1> QED
  BY <1>1, <1>3, <1>4, <1>5, Zenon DEF FrameType, InsideWord, historyVars

LEMMA StoreWordType ==
  ASSUME TypeOK, NEW c \in Ch, NEW n \in 0 .. BUFFER, store_word(c, n)
  PROVE  FrameType'
<1> DEFINE i == subframe[c]
           w == wordcount[c]
<1>1. FrameType
  BY FrameTyped
<1>2. /\ frame_sync[c]
      /\ bitcount' = [bitcount EXCEPT ![c] = 0]
      /\ wordcount' = [wordcount EXCEPT ![c] = w + 1]
      /\ Continue(c)
  BY Zenon DEF store_word
<1>3. i \in 0 .. SUBFRAMES - 1 /\ w \in Words /\ w + 1 \in 0 .. WORDS
  <2>1. i \in 0 .. SUBFRAMES - 1 /\ w \in Words
    BY <1>1, <1>2, Zenon DEF FrameType
  <2>2. w + 1 \in 0 .. WORDS
    BY <2>1, Numbers DEF Words
  <2> QED
    BY <2>1, <2>2
<1>4. pc' \in {"wait", "bits", "time", "sync"} /\ todo' \in SUBSET Ch
  BY <1>1, <1>2, ContinueType
<1>5. bitcount' \in [Ch -> 0 .. WORD - 1] /\ wordcount' \in [Ch -> 0 .. WORDS]
  <2>1. 0 \in 0 .. WORD - 1
    BY Numbers
  <2> QED
    BY <2>1, <1>1, <1>2, <1>3, Zenon DEF FrameType
<1>6. /\ \/ frame_sync' = [frame_sync EXCEPT ![c] = w + 1 < WORDS]
         \/ frame_sync' = [frame_sync EXCEPT ![c] = FALSE]
      /\ \/ clean' = [clean EXCEPT ![c] = n]
         \/ \E kept \in {0, n} : clean' = [clean EXCEPT ![c] = kept]
      /\ \/ bad_parity_count' = 0
         \/ /\ bad_parity_count < MAX_BAD_PARITY
            /\ bad_parity_count' = bad_parity_count + 1
  BY Zenon DEF store_word
<1>7. /\ frame_sync' \in [Ch -> BOOLEAN]
      /\ \A d \in Ch : frame_sync'[d] => wordcount'[d] \in Words
  <2>1. w + 1 < WORDS => w + 1 \in Words
    BY <1>3, Numbers DEF Words
  <2>2. /\ frame_sync \in [Ch -> BOOLEAN] /\ wordcount \in [Ch -> 0 .. WORDS]
        /\ \A d \in Ch : frame_sync[d] => wordcount[d] \in Words
    BY <1>1, Zenon DEF FrameType
  <2> HIDE DEF w
  <2>3. (w + 1 < WORDS) \in BOOLEAN
    OBVIOUS
  <2>4. ASSUME NEW d \in Ch, frame_sync'[d] PROVE wordcount'[d] \in Words
    <3>1. CASE d = c
      <4>1. wordcount'[c] = w + 1 /\ (frame_sync'[c] => w + 1 < WORDS)
        BY <1>2, <1>6, <2>2, <2>3
      <4> QED
        BY <3>1, <4>1, <2>1, <2>4
    <3>2. CASE d # c
      BY <3>2, <2>4, <1>2, <1>6, <2>2
    <3> QED
      BY <3>1, <3>2
  <2>5. frame_sync' \in [Ch -> BOOLEAN]
    <3> DEFINE more == w + 1 < WORDS
    <3>1. more \in BOOLEAN /\ \/ frame_sync' = [frame_sync EXCEPT ![c] = more]
                              \/ frame_sync' = [frame_sync EXCEPT ![c] = FALSE]
      BY <1>6, <2>3
    <3> HIDE DEF more
    <3>2. CASE frame_sync' = [frame_sync EXCEPT ![c] = more]
      BY <3>1, <3>2, <2>2, Zenon
    <3>3. CASE frame_sync' = [frame_sync EXCEPT ![c] = FALSE]
      BY <3>3, <2>2
    <3> QED
      BY <3>1, <3>2, <3>3
  <2>6. \A d \in Ch : frame_sync'[d] => wordcount'[d] \in Words
    BY <2>4
  <2> QED
    BY <2>5, <2>6
<1>8. clean' \in [Ch -> 0 .. BUFFER]
  <2>1. 0 \in 0 .. BUFFER
    BY Numbers DEF BUFFER
  <2>2. PICK kept \in 0 .. BUFFER : clean' = [clean EXCEPT ![c] = kept]
    BY <2>1, <1>6, Zenon
  <2> QED
    BY <1>1, <2>2, Zenon DEF FrameType
<1>9. bad_parity_count' \in 0 .. MAX_BAD_PARITY
  BY <1>1, <1>6, Numbers DEF FrameType
<1>10. sf' \in [Ch -> [0 .. SUBFRAMES - 1 -> Record]]
  <2>1. UNCHANGED sf \/ sf' = [sf EXCEPT ![c][i] = Stored(c, sf[c][i], w)]
    BY Zenon DEF store_word
  <2>2. sf \in [Ch -> [0 .. SUBFRAMES - 1 -> Record]]
    BY <1>1, Zenon DEF FrameType
  <2> HIDE DEF i, w
  <2>3. sf[c][i] \in Record
    BY <1>3, <2>2
  <2>4. Stored(c, sf[c][i], w) \in Record
    BY <1>3, <2>3 DEF Stored, Record
  <2> QED
    <3>1. CASE UNCHANGED sf
      BY <3>1, <2>2
    <3>2. CASE sf' = [sf EXCEPT ![c][i] = Stored(c, sf[c][i], w)]
      BY <3>2, <1>3, <2>2, <2>4, Zenon
    <3> QED
      BY <2>1, <3>1, <3>2
<1> QED
  BY <1>1, <1>4, <1>5, <1>7, <1>8, <1>9, <1>10, Zenon DEF FrameType, store_word, historyVars

LEMMA MessageBitType == ASSUME TypeOK, NEW c \in Ch, MessageBit(c) PROVE TypeOK'
<1> DEFINE n == store_bit(c)
<1>1. n \in 0 .. BUFFER
  BY StoreBitType
<1>2. look_for_preamble(c, n) \/ InsideWord(c, n) \/ store_word(c, n)
  BY Zenon DEF MessageBit
<1> HIDE DEF n
<1>3. FrameType'
  BY <1>1, <1>2, LookType, InsideWordType, StoreWordType
<1>4. seen' \in [Ch -> BOOLEAN] /\ lost' \in [Ch -> BOOLEAN]
  BY DEF MessageBit, TypeOK
<1> QED
  BY <1>3, <1>4, Zenon DEF MessageBit, TypeOK, FrameType, Record, dsrVars, epochVars

LEMMA OtherType ==
  ASSUME TypeOK,
         \/ MessageWake
         \/ \E c \in Ch : MessageTime(c) \/ MessageSync(c) \/ Dump(c)
         \/ UNCHANGED vars
  PROVE  TypeOK'
<1>1. CASE MessageWake
  <2>1. /\ pc' \in {"wait", "bits", "time", "sync"}
        /\ todo' \in SUBSET Ch /\ message_flag' \in SUBSET Ch
    BY <1>1 DEF MessageWake, TypeOK
  <2> QED
    BY <1>1, <2>1, Zenon
       DEF MessageWake, TypeOK, dsrVars, epochVars, bitVars, frameVars, historyVars
<1>2. ASSUME NEW c \in Ch, MessageTime(c) PROVE TypeOK'
  <2>1. sf[c][subframe[c]].TOW \in 0 .. TOW_LIMIT - 1
    <3>1. subframe[c] \in 0 .. SUBFRAMES - 1 /\ sf[c] \in [0 .. SUBFRAMES - 1 -> Record]
      BY FrameTyped, Zenon DEF FrameType
    <3>2. sf[c][subframe[c]] \in Record
      BY <3>1, Zenon
    <3> QED
      BY <3>2 DEF Record
  <2>2. TimeOf(sf[c][subframe[c]].TOW) \in 0 .. TOW_LIMIT * SUBFRAME_BITS
    BY <2>1, TimeType, Zenon
  <2>3. time_in_bits' \in [Ch -> 0 .. TOW_LIMIT * SUBFRAME_BITS]
    BY <1>2, <2>2, Zenon DEF MessageTime, TypeOK
  <2>4. pc' \in {"wait", "bits", "time", "sync"}
    BY <1>2 DEF MessageTime
  <2> QED
    BY <1>2, <2>3, <2>4, Zenon
       DEF MessageTime, TypeOK, dsrVars, epochVars, bitVars, frameVars, historyVars
<1>3. ASSUME NEW c \in Ch, MessageSync(c) PROVE TypeOK'
  <2>1. pc' \in {"wait", "bits", "time", "sync"} /\ todo' \in SUBSET Ch
    BY <1>3, FrameTyped, ContinueType DEF MessageSync
  <2>2. sync_20ms' \in [Ch -> BOOLEAN]
    BY <1>3 DEF MessageSync, TypeOK
  <2> QED
    BY <1>3, <2>1, <2>2, Zenon
       DEF MessageSync, TypeOK, dsrVars, bitVars, frameVars, historyVars
<1>4. ASSUME NEW c \in Ch, Dump(c) PROVE TypeOK'
  <2>1. epoch_20ms' \in [Ch -> 0 .. EPOCHS - 1]
    BY <1>4, TimeType, Zenon DEF Dump, TypeOK
  <2>2. sync_20ms' \in [Ch -> BOOLEAN]
    BY <1>4 DEF Dump, TypeOK
  <2> QED
    BY <1>4, <2>1, <2>2, Zenon
       DEF Dump, TypeOK, dsrVars, bitVars, frameVars, threadVars, historyVars
<1>5. CASE UNCHANGED vars
  BY <1>5, Zenon
     DEF vars, TypeOK, dsrVars, epochVars, bitVars, frameVars, threadVars, historyVars
<1> QED
  BY <1>1, <1>2, <1>3, <1>4, <1>5

LEMMA StepType == TypeOK /\ [Next]_vars => TypeOK'
<1> SUFFICES ASSUME TypeOK, [Next]_vars PROVE TypeOK'
  OBVIOUS
<1>1. CASE MessageWake \/ UNCHANGED vars
  BY <1>1, OtherType
<1>2. ASSUME NEW c \in Ch, MessageTime(c) \/ MessageSync(c) \/ Dump(c) PROVE TypeOK'
  BY <1>2, OtherType
<1>3. ASSUME NEW c \in Ch, MessageBit(c) \/ Bit(c) \/ Restart(c) PROVE TypeOK'
  BY <1>3, MessageBitType, BitType, RestartType
<1> QED
  BY <1>1, <1>2, <1>3, Zenon DEF Next, MessageThread

\* Every variable keeps its type; in particular time_in_bits stays within what a
\* time of week that garbage set can be (message.c:305-324, tracking.c:780-786).
THEOREM TypeCorrect == Spec => []TypeOK
  BY InitType, StepType, PTL DEF Spec

-----------------------------------------------------------------------------
(* The time and the epoch counter.                                         *)

\* The time of the channel is set, and nothing has gone wrong that the code cannot
\* see.
Sure(c) == set_ch_time[c] /\ ~late[c] /\ ~fooled[c]

\* While the thread sets the time the TOW at hand is that of the bit just sent; then
\* bits, time and epoch counter are counted together.
TimeInv(c) ==
  /\ Sure(c) /\ ~SettingTime(c) => /\ time_in_bits[c] = sat_bits[c]
                                   /\ IF sync_20ms[c]
                                        THEN sat_bits[c] % EPOCHS = EpochLoad
                                        ELSE epoch_20ms[c] = sat_bits[c] % EPOCHS
  /\ Sure(c) /\ SettingTime(c) => /\ TimeOf(sf[c][subframe[c]].TOW) = sat_bits[c]
                                  /\ sat_bits[c] % EPOCHS = EpochLoad
                                  /\ pc = "sync" => time_in_bits[c] = sat_bits[c]

IInv == TypeOK /\ \A c \in Ch : TimeInv(c)

LEMMA TurnIsOne ==
  ASSUME NEW c \in Ch, NEW d \in Ch, Turn(c), Turn(d) PROVE c = d
<1>1. c <= d /\ d <= c
  BY DEF Turn
<1> QED
  BY <1>1, Numbers DEF Ch

LEMMA BitTime == ASSUME IInv, NEW c \in Ch, Bit(c), NEW d \in Ch PROVE TimeInv(d)'
<1>1. UNCHANGED <<set_ch_time, sf, subframe, pc, todo, fooled>>
  BY Zenon DEF Bit, frameVars, threadVars
<1>2. SettingTime(d)' <=> SettingTime(d)
  BY <1>1 DEF SettingTime, Turn
<1>3. CASE d = c
  <2>1. SUFFICES ASSUME Sure(c)' PROVE TimeInv(c)'
    BY <1>3, Zenon DEF TimeInv
  <2>2. Sure(c) /\ ~Busy(c)
    <3>1. late' = [late EXCEPT ![c] = late[c] \/ Busy(c)] /\ late \in [Ch -> BOOLEAN]
      BY Zenon DEF Bit, IInv, TypeOK
    <3>2. late'[c] = (late[c] \/ Busy(c))
      BY <3>1, Zenon
    <3> QED
      BY <1>1, <2>1, <3>2, Zenon DEF Sure
  <2> DEFINE now == IF sync_20ms[c] THEN EpochLoad ELSE epoch_20ms[c]
  <2>3. /\ ~SettingTime(c) /\ time_in_bits[c] = sat_bits[c]
        /\ now = sat_bits[c] % EPOCHS
    BY <2>2 DEF Busy, IInv, TimeInv
  <2>4. /\ sat_bits'[c] = (sat_bits[c] + 1) % BITS_IN_WEEK
        /\ time_in_bits'[c] = NextBitTime(time_in_bits[c])
        /\ epoch_20ms'[c] = (now + 1) % EPOCHS
        /\ ~sync_20ms'[c]
    BY <2>3 DEF Bit, IInv, TypeOK
  <2>5. sat_bits[c] \in 0 .. BITS_IN_WEEK - 1
    BY Zenon DEF IInv, TypeOK
  <2>6. time_in_bits'[c] = sat_bits'[c] /\ epoch_20ms'[c] = sat_bits'[c] % EPOCHS
    BY <2>3, <2>4, <2>5, NextBit
  <2> QED
    BY <1>2, <1>3, <2>3, <2>4, <2>6, Zenon DEF TimeInv
<1>4. CASE d # c
  <2>1. /\ late'[d] = late[d] /\ sat_bits'[d] = sat_bits[d]
        /\ time_in_bits'[d] = time_in_bits[d] /\ epoch_20ms'[d] = epoch_20ms[d]
        /\ sync_20ms'[d] = sync_20ms[d]
    BY <1>4 DEF Bit, IInv, TypeOK
  <2>2. TimeInv(d)
    BY Zenon DEF IInv
  <2> QED
    BY <1>1, <1>2, <2>1, <2>2 DEF TimeInv, Sure
<1> QED
  BY <1>3, <1>4

LEMMA DumpTime == ASSUME IInv, NEW c \in Ch, Dump(c), NEW d \in Ch PROVE TimeInv(d)'
<1>1. /\ UNCHANGED <<set_ch_time, sf, subframe, pc, todo, late, fooled, time_in_bits,
                     sat_bits>>
      /\ sync_20ms[c]
  BY Zenon DEF Dump, dsrVars, frameVars, threadVars, historyVars
<1>2. SettingTime(d)' <=> SettingTime(d)
  BY <1>1 DEF SettingTime, Turn
<1>3. TimeInv(d)
  BY Zenon DEF IInv
<1>4. \/ d = c /\ epoch_20ms'[d] = EpochLoad /\ ~sync_20ms'[d]
      \/ epoch_20ms'[d] = epoch_20ms[d] /\ sync_20ms'[d] = sync_20ms[d]
  BY DEF Dump, IInv, TypeOK
<1> QED
  BY <1>1, <1>2, <1>3, <1>4 DEF TimeInv, Sure

LEMMA RestartTime == ASSUME IInv, NEW c \in Ch, Restart(c), NEW d \in Ch PROVE TimeInv(d)'
<1>1. pc = "wait" /\ UNCHANGED <<pc, todo>>
  BY Zenon DEF Restart, threadVars
<1>2. ~SettingTime(d)' /\ ~SettingTime(d)
  BY <1>1 DEF SettingTime
<1>3. CASE d = c
  <2>1. ~set_ch_time'[c]
    BY DEF Restart, IInv, TypeOK
  <2> QED
    BY <1>3, <2>1 DEF TimeInv, Sure
<1>4. CASE d # c
  <2>1. /\ set_ch_time'[d] = set_ch_time[d] /\ sync_20ms'[d] = sync_20ms[d]
        /\ time_in_bits'[d] = time_in_bits[d]
    BY <1>4 DEF Restart, IInv, TypeOK
  <2>2. late'[d] = late[d] /\ fooled'[d] = fooled[d]
    BY <1>4 DEF Restart, Unblemished, IInv, TypeOK
  <2>3. sat_bits'[d] = sat_bits[d] /\ epoch_20ms'[d] = epoch_20ms[d]
    BY <1>4 DEF Restart, IInv, TypeOK
  <2>4. TimeInv(d)
    BY Zenon DEF IInv
  <2> QED
    BY <1>2, <2>1, <2>2, <2>3, <2>4, Zenon DEF TimeInv, Sure
<1> QED
  BY <1>3, <1>4

\* Only the HOW of the satellite, or what has the TOW expected and is no HOW, makes
\* the thread set the time.
LEMMA FoundTime ==
  ASSUME IInv, NEW c \in Ch, Turn(c), pc = "bits", NEW n, NEW i \in 0 .. SUBFRAMES - 1,
         NEW tow \in 0 .. TOW_LIMIT - 1, NEW real \in BOOLEAN, Found(c, n, i, tow, real),
         real => TimeOf(tow) = sat_bits[c] /\ sat_bits[c] % EPOCHS = EpochLoad,
         UNCHANGED <<sat_bits, time_in_bits, epochVars>>
  PROVE  TimeInv(c)'
<1>1. ~SettingTime(c) /\ TimeInv(c)
  BY Zenon DEF SettingTime, IInv
<1>2. UNCHANGED <<sat_bits, time_in_bits, epoch_20ms, sync_20ms>>
  BY DEF epochVars
<1>3. CASE ~Follows(c, i, tow)
  <2>1. ~set_ch_time'[c]
    BY <1>3 DEF Found, IInv, TypeOK
  <2> QED
    BY <2>1 DEF TimeInv, Sure
<1>4. CASE Follows(c, i, tow) /\ (~Confirmed(c, i) \/ set_ch_time[c])
  <2>1. UNCHANGED set_ch_time /\ Continue(c) /\ UNCHANGED late
        /\ fooled' = [fooled EXCEPT ![c] = @ \/ (~real /\ Expected(c, i, tow))]
    BY <1>4, Zenon DEF Found
  <2>2. pc' \in {"wait", "bits"}
    BY <2>1 DEF Continue
  <2>3. ~SettingTime(c)'
    BY <2>2 DEF SettingTime
  <2>4. fooled[c] => fooled'[c]
    <3>1. fooled \in [Ch -> BOOLEAN]
      BY Zenon DEF IInv, TypeOK
    <3>2. fooled'[c] = (fooled[c] \/ (~real /\ Expected(c, i, tow)))
      BY <3>1, <2>1, Zenon
    <3> QED
      BY <3>2, Zenon
  <2>5. Sure(c)' => Sure(c)
    BY <2>1, <2>4, Zenon DEF Sure
  <2> QED
    BY <1>1, <1>2, <2>3, <2>5, Zenon DEF TimeInv
<1>5. CASE Follows(c, i, tow) /\ Confirmed(c, i) /\ ~set_ch_time[c]
  <2>1. /\ pc' = "time" /\ UNCHANGED todo
        /\ subframe' = [subframe EXCEPT ![c] = i]
        /\ sf' = [sf EXCEPT ![c][i] = [TOW |-> tow, valid |-> FirstWords(c, i),
                                        right |-> IF real THEN {0, 1} ELSE {}]]
        /\ fooled' = [fooled EXCEPT ![c] = @ \/ (~real /\ Expected(c, i, tow))]
    BY <1>5, Zenon DEF Found
  <2>2. SettingTime(c)'
    BY <2>1 DEF SettingTime, Turn
  <2>3. subframe'[c] = i /\ sf'[c][i].TOW = tow
    <3>1. subframe'[c] = i
      BY <2>1 DEF IInv, TypeOK
    <3>2. sf \in [Ch -> [0 .. SUBFRAMES - 1 -> Record]]
      BY FrameTyped, Zenon DEF FrameType, IInv
    <3>3. sf'[c][i] = [TOW |-> tow, valid |-> FirstWords(c, i),
                       right |-> IF real THEN {0, 1} ELSE {}]
      BY <2>1, <3>2, Zenon
    <3> QED
      BY <3>1, <3>3
  <2>4. ~fooled'[c] => real
    <3>1. fooled \in [Ch -> BOOLEAN] /\ Expected(c, i, tow)
      BY <1>5, Zenon DEF IInv, TypeOK, Expected, Follows
    <3>2. fooled'[c] = (fooled[c] \/ (~real /\ Expected(c, i, tow)))
      BY <3>1, <2>1, Zenon
    <3> QED
      BY <3>1, <3>2, Zenon
  <2>5. sf'[c][subframe'[c]].TOW = tow
    BY <2>3
  <2>6. Sure(c)' => TimeOf(sf[c][subframe[c]].TOW)' = sat_bits'[c]
                    /\ sat_bits'[c] % EPOCHS = EpochLoad
    <3>1. TimeOf(sf[c][subframe[c]].TOW)' = TimeOf(tow)
      BY <2>5 DEF TimeOf
    <3> QED
      BY <1>2, <2>4, <3>1, Zenon DEF Sure
  <2> QED
    BY <2>1, <2>2, <2>6 DEF TimeInv
<1> QED
  BY <1>3, <1>4, <1>5

LEMMA MessageBitTime ==
  ASSUME IInv, NEW c \in Ch, MessageBit(c), NEW d \in Ch PROVE TimeInv(d)'
<1> DEFINE n == store_bit(c)
<1>1. /\ pc = "bits" /\ Turn(c)
      /\ UNCHANGED <<sat_bits, time_in_bits, epoch_20ms, sync_20ms>>
      /\ look_for_preamble(c, n) \/ InsideWord(c, n) \/ store_word(c, n)
      /\ UNCHANGED epochVars
  BY Zenon DEF MessageBit, dsrVars, epochVars
<1>2. TimeInv(d) /\ TimeInv(c) /\ ~SettingTime(d) /\ ~SettingTime(c)
  BY <1>1, Zenon DEF IInv, SettingTime
<1> HIDE DEF n
<1>3. CASE Continue(c) /\ UNCHANGED <<set_ch_time, historyVars>>
  <2>1. ~SettingTime(d)'
    BY <1>3 DEF SettingTime, Continue
  <2> QED
    BY <1>1, <1>2, <1>3, <2>1, Zenon DEF TimeInv, Sure, historyVars
<1>4. ASSUME NEW i \in 0 .. SUBFRAMES - 1, NEW tow \in 0 .. TOW_LIMIT - 1,
             NEW real \in BOOLEAN, Found(c, n, i, tow, real),
             real => TimeOf(tow) = sat_bits[c] /\ sat_bits[c] % EPOCHS = EpochLoad
      PROVE  TimeInv(d)'
  <2>1. CASE d = c
    BY <1>1, <1>4, <2>1, FoundTime
  <2>2. CASE d # c
    <3>1. /\ set_ch_time'[d] = set_ch_time[d] /\ late'[d] = late[d]
          /\ fooled'[d] = fooled[d]
      <4>1. /\ set_ch_time \in [Ch -> BOOLEAN] /\ late \in [Ch -> BOOLEAN]
            /\ fooled \in [Ch -> BOOLEAN]
        BY Zenon DEF IInv, TypeOK
      <4>2. /\ \/ UNCHANGED set_ch_time
               \/ set_ch_time' = [set_ch_time EXCEPT ![c] = TRUE]
               \/ set_ch_time' = [set_ch_time EXCEPT ![c] = FALSE]
            /\ UNCHANGED late \/ late' = [late EXCEPT ![c] = FALSE]
            /\ \/ fooled' = [fooled EXCEPT ![c] = fooled[c] \/ (~real /\ Expected(c, i, tow))]
               \/ fooled' = [fooled EXCEPT ![c] = FALSE]
        BY <1>4, Zenon DEF Found, Unblemished
      <4>3. set_ch_time'[d] = set_ch_time[d] /\ late'[d] = late[d]
        BY <4>1, <4>2, <2>2
      <4>4. fooled'[d] = fooled[d]
        BY <4>1, <4>2, <2>2, Zenon
      <4> QED
        BY <4>3, <4>4
    <3>2. ~SettingTime(d)'
      <4>1. CASE pc' = "time" /\ todo' = todo
        BY <4>1, <1>1, <2>2, TurnIsOne DEF SettingTime, Turn
      <4>2. CASE pc' \in {"wait", "bits"}
        BY <4>2 DEF SettingTime
      <4> QED
        BY <1>4, <4>1, <4>2 DEF Found, Continue
    <3> QED
      BY <1>1, <1>2, <3>1, <3>2, Zenon DEF TimeInv, Sure
  <2> QED
    BY <2>1, <2>2
<1>5. CASE \E t \in 0 .. TOWS - 1 :
             AtHow(c, t) /\ Found(c, n, t % SUBFRAMES, (t + 1) % TOWS, TRUE)
  <2>1. PICK t \in 0 .. TOWS - 1 :
               AtHow(c, t) /\ Found(c, n, t % SUBFRAMES, (t + 1) % TOWS, TRUE)
    BY <1>5
  <2>2. t % SUBFRAMES \in 0 .. SUBFRAMES - 1 /\ (t + 1) % TOWS \in 0 .. TOWS - 1
    BY Numbers, Division
  <2>3. (t + 1) % TOWS \in 0 .. TOW_LIMIT - 1
    BY <2>2, Numbers
  <2>4. TimeOf((t + 1) % TOWS) = sat_bits[c] /\ sat_bits[c] % EPOCHS = EpochLoad
    BY <2>1, TimeOfHow, EpochOfHow DEF AtHow
  <2> QED
    BY <1>4, <2>1, <2>2, <2>3, <2>4
<1>6. CASE \E p \in Lookalikes : Found(c, n, p[2], p[3], FALSE)
  <2>1. PICK p \in Lookalikes : Found(c, n, p[2], p[3], FALSE)
    BY <1>6
  <2>2. p[2] \in 0 .. SUBFRAMES - 1 /\ p[3] \in 0 .. TOW_LIMIT - 1
    BY MessageAssumption
  <2> QED
    BY <1>4, <2>1, <2>2
<1>7. CASE look_for_preamble(c, n)
  BY <1>3, <1>5, <1>6, <1>7, Zenon DEF look_for_preamble, frameVars
<1>8. CASE InsideWord(c, n) \/ store_word(c, n)
  BY <1>3, <1>8, Zenon DEF InsideWord, store_word
<1> QED
  BY <1>1, <1>7, <1>8

LEMMA ThreadTime ==
  ASSUME IInv, NEW d \in Ch,
         \/ MessageWake
         \/ \E c \in Ch : MessageTime(c) \/ MessageSync(c)
         \/ UNCHANGED vars
  PROVE  TimeInv(d)'
<1>1. TimeInv(d)
  BY Zenon DEF IInv
<1>2. CASE MessageWake
  <2>1. ~SettingTime(d) /\ ~SettingTime(d)'
    BY <1>2 DEF MessageWake, SettingTime
  <2> QED
    BY <1>1, <1>2, <2>1, Zenon
       DEF MessageWake, TimeInv, Sure, dsrVars, epochVars, frameVars, historyVars
<1>3. ASSUME NEW c \in Ch, MessageTime(c) PROVE TimeInv(d)'
  <2>1. /\ Turn(c) /\ pc = "time" /\ pc' = "sync"
        /\ UNCHANGED <<sat_bits, epoch_20ms, sync_20ms, set_ch_time, sf, subframe, todo,
                       late, fooled>>
        /\ time_in_bits' = [time_in_bits EXCEPT ![c] = TimeOf(sf[c][subframe[c]].TOW)]
    BY <1>3, Zenon DEF MessageTime, dsrVars, epochVars, frameVars, historyVars
  <2>2. SettingTime(d)' <=> SettingTime(d)
    BY <2>1 DEF SettingTime, Turn
  <2>3. Sure(d)' <=> Sure(d)
    BY <2>1 DEF Sure
  <2>4. TimeOf(sf[d][subframe[d]].TOW)' = TimeOf(sf[d][subframe[d]].TOW)
    BY <2>1 DEF TimeOf
  <2>5. CASE d = c
    <3>1. SettingTime(c) /\ time_in_bits'[c] = TimeOf(sf[c][subframe[c]].TOW)
      BY <2>1 DEF SettingTime, IInv, TypeOK
    <3> QED
      BY <1>1, <2>1, <2>2, <2>3, <2>4, <2>5, <3>1, Zenon DEF TimeInv
  <2>6. CASE d # c
    <3>1. ~SettingTime(d) /\ time_in_bits'[d] = time_in_bits[d]
      BY <2>1, <2>6, TurnIsOne DEF SettingTime, IInv, TypeOK
    <3> QED
      BY <1>1, <2>1, <2>2, <2>3, <3>1, Zenon DEF TimeInv
  <2> QED
    BY <2>5, <2>6
<1>4. ASSUME NEW c \in Ch, MessageSync(c) PROVE TimeInv(d)'
  <2>1. /\ Turn(c) /\ pc = "sync" /\ Continue(c)
        /\ UNCHANGED <<sat_bits, time_in_bits, epoch_20ms, set_ch_time, late, fooled>>
        /\ sync_20ms' = [sync_20ms EXCEPT ![c] = TRUE]
    BY <1>4, Zenon DEF MessageSync, dsrVars, frameVars, historyVars
  <2>2. ~SettingTime(d)'
    BY <2>1 DEF SettingTime, Continue
  <2>3. CASE d = c
    <3>1. SettingTime(c) /\ sync_20ms'[c]
      BY <2>1 DEF SettingTime, IInv, TypeOK
    <3> QED
      BY <1>1, <2>1, <2>2, <2>3, <3>1, Zenon DEF TimeInv, Sure
  <2>4. CASE d # c
    <3>1. ~SettingTime(d) /\ sync_20ms'[d] = sync_20ms[d]
      BY <2>1, <2>4, TurnIsOne DEF SettingTime, IInv, TypeOK
    <3> QED
      BY <1>1, <2>1, <2>2, <3>1, Zenon DEF TimeInv, Sure
  <2> QED
    BY <2>3, <2>4
<1>5. CASE UNCHANGED vars
  <2>1. SettingTime(d)' <=> SettingTime(d)
    BY <1>5 DEF vars, threadVars, SettingTime, Turn
  <2>2. /\ UNCHANGED <<sat_bits, time_in_bits, epoch_20ms, sync_20ms, set_ch_time, sf,
                       subframe, pc, late, fooled>>
    BY <1>5, Zenon DEF vars, dsrVars, epochVars, frameVars, threadVars, historyVars
  <2>3. TimeOf(sf[d][subframe[d]].TOW)' = TimeOf(sf[d][subframe[d]].TOW)
    BY <2>2 DEF TimeOf
  <2> QED
    BY <1>1, <2>1, <2>2, <2>3, Zenon DEF TimeInv, Sure
<1> QED
  BY <1>2, <1>3, <1>4, <1>5

LEMMA Inductive == Spec => []IInv
<1>1. Init => IInv
  <2> SUFFICES ASSUME Init, NEW c \in Ch PROVE TimeInv(c)
    BY InitType DEF IInv
  <2> QED
    BY DEF Init, TimeInv, Sure
<1>2. IInv /\ [Next]_vars => IInv'
  <2> SUFFICES ASSUME IInv, [Next]_vars, NEW d \in Ch PROVE TimeInv(d)'
    BY StepType DEF IInv
  <2>1. ASSUME NEW c \in Ch, Bit(c) \/ Dump(c) \/ Restart(c) PROVE TimeInv(d)'
    BY <2>1, BitTime, DumpTime, RestartTime
  <2>2. ASSUME NEW c \in Ch, MessageBit(c) PROVE TimeInv(d)'
    BY <2>2, MessageBitTime
  <2>3. ASSUME NEW c \in Ch, MessageTime(c) \/ MessageSync(c) PROVE TimeInv(d)'
    BY <2>3, ThreadTime
  <2>4. CASE MessageWake \/ UNCHANGED vars
    BY <2>4, ThreadTime
  <2> QED
    BY <2>1, <2>2, <2>3, <2>4, Zenon DEF Next, MessageThread
<1> QED
  BY <1>1, <1>2, PTL DEF Spec

\* For words, subframes and weeks of any length, and whatever passes for a HOW: the
\* bit time that the thread sets and the DSR goes on counting is the satellite's.
THEOREM TimeRightCorrect == Spec => []TimeRight
<1>1. IInv => TimeRight
  BY Zenon DEF IInv, TimeInv, TimeRight, Sure, Trusted, Measurable
<1> QED
  BY <1>1, Inductive, PTL

\* And so is the 20 ms epoch counter, once the DSR has loaded it.
THEOREM EpochRightCorrect == Spec => []EpochRight
<1>1. IInv => EpochRight
  BY Zenon DEF IInv, TimeInv, EpochRight, Sure, Trusted, Measurable
<1> QED
  BY <1>1, Inductive, PTL

-----------------------------------------------------------------------------
(* The words.                                                              *)

\* A bit of the channel waits for the thread; one does while another is in the works.
Due(c)   == c \in message_flag \/ (c \in todo /\ ~SettingTime(c))
Twice(c) == c \in message_flag /\ c \in todo /\ ~SettingTime(c)

\* A bit that was not read is waited for.  The converse is wrong: after a false
\* preamble the last bit may be taken twice.
DueInv(c) ==
  /\ ~seen[c] => Due(c)
  /\ Twice(c) => ~seen[c]

\* Bits of the subframe before tow begin here in the week.
Start(tow) == ((tow + TOWS - 1) % TOWS) * SUBFRAME_BITS

\* Bits of the subframe that the thread has counted, and the one it has not.
Counted(c) == wordcount[c] * WORD + bitcount[c]
Coming(c)  == IF seen[c] THEN 0 ELSE 1

\* The satellite has sent x bits of the week.
At(c, x) == sat_bits[c] = IF x = BITS_IN_WEEK THEN 0 ELSE x

Good(c) == frame_sync[c] /\ real_sync[c] /\ ~late[c]

\* The thread has counted what was sent ...
InStep(c) == At(c, Start(sf[c][subframe[c]].TOW) + Counted(c) + Coming(c))

\* ... or one bit twice.
Slipped(c) == /\ At(c, Start(sf[c][subframe[c]].TOW) + Counted(c) + Coming(c) - 1)
              /\ IF seen[c] THEN ~Due(c) ELSE ~Twice(c)

\* The words stored are of the subframe: when the last of them is, too, the thread is
\* no longer in sync, and hands them over.
RightInv(c) ==
  real_sync[c] /\ ~late[c] => sf[c][subframe[c]].valid = sf[c][subframe[c]].right

WordInv(c) ==
  /\ RightInv(c)
  /\ Good(c) => wordcount[c] >= 2 /\ (InStep(c) \/ Slipped(c))

WInv == /\ TypeOK
        /\ pc = "wait" => todo = {}
        /\ \A c \in Ch : DueInv(c) /\ WordInv(c)

LEMMA StartPlace ==
  ASSUME NEW tow \in 0 .. TOW_LIMIT - 1
  PROVE  /\ Start(tow) \in Nat /\ Start(tow) + SUBFRAME_BITS <= BITS_IN_WEEK
         /\ \E q \in Int : Start(tow) = q * WORD
<1> DEFINE t == (tow + TOWS - 1) % TOWS
           s == SUBFRAME_BITS
<1>1. t \in 0 .. TOWS - 1
  <2>1. tow + TOWS - 1 \in Int
    BY Numbers
  <2> QED
    BY <2>1, Numbers, Division
<1>2. s \in Nat /\ BITS_IN_WEEK = s * TOWS /\ s = WORD * WORDS
  BY Lengths DEF SUBFRAME_BITS
<1>3. Start(tow) = t * s
  BY DEF Start
<1> HIDE DEF t, s
<1>4. t * s \in Nat /\ (TOWS - 1 - t) * s >= 0 /\ s * TOWS = (TOWS - 1 - t) * s + t * s + s
  BY <1>1, <1>2, Numbers
<1>5. t * s = (t * WORDS) * WORD /\ t * WORDS \in Int
  BY <1>1, <1>2, Numbers
<1>6. t * s + s <= BITS_IN_WEEK
  <2>1. (TOWS - 1 - t) * s \in Int
    BY <1>1, <1>2, Numbers
  <2> QED
    BY <2>1, <1>2, <1>4
<1>7. Start(tow) \in Nat /\ Start(tow) + s <= BITS_IN_WEEK
  BY <1>3, <1>4, <1>6
<1>8. \E q \in Int : Start(tow) = q * WORD
  BY <1>3, <1>5
<1> QED
  BY <1>7, <1>8 DEF s

LEMMA StartOfHow ==
  ASSUME NEW t \in 0 .. TOWS - 1
  PROVE  Start((t + 1) % TOWS) = t * SUBFRAME_BITS
<1>1. (((t + 1) % TOWS) + TOWS - 1) % TOWS = t
  <2>1. CASE t + 1 < TOWS
    <3>1. (t + 1) % TOWS = t + 1
      BY <2>1, Numbers
    <3>2. t + TOWS = 1 * TOWS + t /\ t + TOWS \in Int
      BY Numbers
    <3>3. (t + TOWS) % TOWS = t
      BY <3>2, Quotient, Numbers
    <3>4. t + 1 + TOWS - 1 = t + TOWS
      BY Numbers
    <3> QED
      BY <3>1, <3>3, <3>4
  <2>2. CASE t + 1 = TOWS
    <3>1. (t + 1) % TOWS = 0
      BY <2>2, Numbers
    <3>2. (0 + TOWS - 1) % TOWS = t
      BY <2>2, Numbers
    <3> QED
      BY <3>1, <3>2
  <2> QED
    BY <2>1, <2>2, Numbers
<1> QED
  BY <1>1 DEF Start

\* The words and bits of a subframe that is being received.
LEMMA CountedBits ==
  ASSUME TypeOK, NEW c \in Ch, frame_sync[c]
  PROVE  /\ wordcount[c] \in Words /\ bitcount[c] \in 0 .. WORD - 1
         /\ Counted(c) \in 0 .. SUBFRAME_BITS - 1
         /\ wordcount[c] >= 2 => Counted(c) >= HOW_END
<1> DEFINE w == wordcount[c]
           b == bitcount[c]
<1>1. w \in 0 .. WORDS - 1 /\ b \in 0 .. WORD - 1
  <2>1. wordcount[c] \in Words /\ bitcount[c] \in 0 .. WORD - 1
    BY Zenon DEF TypeOK
  <2> QED
    BY <2>1 DEF Words
<1>2. Counted(c) = w * WORD + b
  BY DEF Counted
<1>3. SUBFRAME_BITS = WORD * WORDS /\ HOW_END = 2 * WORD
  BY DEF SUBFRAME_BITS, HOW_END
<1> HIDE DEF w, b
<1>4. /\ w * WORD \in Nat /\ (WORDS - 1 - w) * WORD >= 0 /\ (WORDS - 1 - w) * WORD \in Int
      /\ WORD * WORDS = (WORDS - 1 - w) * WORD + w * WORD + WORD
  BY <1>1, Numbers
<1>5. w * WORD + b \in 0 .. WORD * WORDS - 1
  BY <1>1, <1>4, Numbers
<1>6. w >= 2 => w * WORD + b >= 2 * WORD
  <2> SUFFICES ASSUME w >= 2 PROVE w * WORD + b >= 2 * WORD
    OBVIOUS
  <2>1. (w - 2) * WORD >= 0 /\ w * WORD = (w - 2) * WORD + 2 * WORD
    BY <1>1, Numbers
  <2>2. (w - 2) * WORD \in Int
    BY <1>1, Numbers
  <2> QED
    BY <2>1, <2>2, <1>1, <1>4, Numbers
<1> QED
  BY <1>1, <1>2, <1>3, <1>5, <1>6 DEF w, b, Words

\* Where the last bit of word w is sent, and that the bit before is none.
LEMMA WordEnds ==
  ASSUME TypeOK, NEW c \in Ch, NEW tow \in 0 .. TOW_LIMIT - 1, NEW w \in Words
  PROVE  /\ At(c, Start(tow) + (w + 1) * WORD) => AtWordEnd(c, tow, w)
         /\ At(c, Start(tow) + (w + 1) * WORD) => AtSomeWordEnd(c)
         /\ At(c, Start(tow) + (w + 1) * WORD - 1) => ~AtSomeWordEnd(c)
<1> DEFINE s == Start(tow)
           e == (w + 1) * WORD
           week == BITS_IN_WEEK
<1>1. w \in 0 .. WORDS - 1
  BY DEF Words
<1>2. PICK q \in Int : s = q * WORD
  BY StartPlace
<1>3. s \in Nat /\ s + SUBFRAME_BITS <= week /\ week \in Nat
  BY StartPlace, Lengths
<1>4. SUBFRAME_BITS = WORD * WORDS
  BY DEF SUBFRAME_BITS
<1>5. week = (WORDS * TOWS) * WORD /\ WORDS * TOWS \in Int
  <2>1. week = (WORD * WORDS) * TOWS
    BY <1>4 DEF BITS_IN_WEEK
  <2> HIDE DEF week
  <2> QED
    BY <2>1, Numbers
<1>6. (q + w + 1) * WORD = s + e /\ q + w + 1 \in Int
  <2>1. (q + (w + 1)) * WORD = q * WORD + (w + 1) * WORD
    BY <1>1, <1>2, Numbers
  <2>2. q + w + 1 = q + (w + 1) /\ q + w + 1 \in Int
    BY <1>1, <1>2, Numbers
  <2> QED
    BY <2>1, <2>2, <1>2
<1>7. e \in Nat /\ e >= WORD /\ e <= WORD * WORDS
  <2>1. w * WORD >= 0 /\ w * WORD \in Int /\ e = w * WORD + WORD
    BY <1>1, Numbers
  <2>2. (WORDS - 1 - w) * WORD >= 0 /\ (WORDS - 1 - w) * WORD \in Int
        /\ WORD * WORDS = (WORDS - 1 - w) * WORD + w * WORD + WORD
    BY <1>1, Numbers
  <2> HIDE DEF e
  <2>3. WORD * WORDS \in Int
    BY Numbers
  <2> QED
    BY <2>1, <2>2, <2>3, Numbers
<1>8. AtWordEnd(c, tow, w) <=> sat_bits[c] = (s + e) % week
  BY DEF AtWordEnd, Start
<1>9. AtSomeWordEnd(c) <=> sat_bits[c] % WORD = 0
  BY DEF AtSomeWordEnd
<1>10. /\ At(c, s + e) <=> sat_bits[c] = IF s + e = week THEN 0 ELSE s + e
       /\ At(c, s + e - 1) <=> sat_bits[c] = IF s + e - 1 = week THEN 0 ELSE s + e - 1
  BY DEF At
<1> HIDE DEF s, e, week
<1>11. s + e \in 0 .. week /\ s + e >= WORD /\ week >= 1
  BY <1>3, <1>4, <1>7, Numbers
<1>12. (s + e) % week = IF s + e = week THEN 0 ELSE s + e
  BY <1>3, <1>11
<1>13. (s + e) % WORD = 0 /\ 0 % WORD = 0
  <2>1. s + e = (q + w + 1) * WORD + 0 /\ 0 \in 0 .. WORD - 1 /\ s + e \in Int
    BY <1>6, <1>11, <1>3, Numbers
  <2>2. (s + e) % WORD = 0
    BY <2>1, <1>6, Quotient, Numbers
  <2> QED
    BY <2>2, Numbers
<1>14. (s + e - 1) % WORD = WORD - 1 /\ s + e - 1 # week
  <2>1. (q + w + 1) * WORD = (q + w) * WORD + WORD /\ q + w \in Int
    <3>1. ((q + w) + 1) * WORD = (q + w) * WORD + WORD
      BY <1>1, <1>2, Numbers
    <3> QED
      BY <3>1, <1>1, <1>2, Numbers
  <2>2. (q + w) * WORD \in Int
    BY <2>1, Numbers
  <2>3. s + e - 1 = (q + w) * WORD + (WORD - 1) /\ WORD - 1 \in 0 .. WORD - 1
        /\ s + e - 1 \in Int
    BY <2>1, <2>2, <1>6, <1>7, <1>11, <1>3, Numbers
  <2>4. (s + e - 1) % WORD = WORD - 1
    BY <2>1, <2>3, Quotient, Numbers
  <2> QED
    BY <2>4, <1>3, <1>7, <1>11
<1>15. At(c, s + e) => AtWordEnd(c, tow, w)
  BY <1>8, <1>10, <1>12
<1>16. At(c, s + e) => AtSomeWordEnd(c)
  BY <1>9, <1>10, <1>13
<1>17. At(c, s + e - 1) => ~AtSomeWordEnd(c)
  BY <1>9, <1>10, <1>14, Numbers
<1> QED
  BY <1>15, <1>16, <1>17 DEF s, e

\* After a bit the thread goes on, or sets the channel's time.
LEMMA BitTurns ==
  ASSUME NEW c \in Ch, MessageBit(c)
  PROVE  \/ todo' = todo \ {c} /\ pc' \in {"wait", "bits"}
         \/ todo' = todo /\ pc' = "time" /\ ~frame_sync[c]
<1>1. Continue(c) => todo' = todo \ {c} /\ pc' \in {"wait", "bits"}
  BY DEF Continue
<1>2. ASSUME NEW n, NEW i, NEW tow, NEW real, Found(c, n, i, tow, real)
      PROVE  Continue(c) \/ (todo' = todo /\ pc' = "time")
  BY <1>2, Zenon DEF Found
<1>3. ASSUME NEW n, look_for_preamble(c, n)
      PROVE  Continue(c) \/ (todo' = todo /\ pc' = "time" /\ ~frame_sync[c])
  BY <1>2, <1>3, Zenon DEF look_for_preamble
<1>4. ASSUME NEW n, InsideWord(c, n) \/ store_word(c, n) PROVE Continue(c)
  BY <1>4, Zenon DEF InsideWord, store_word
<1> QED
  BY <1>1, <1>3, <1>4, Zenon DEF MessageBit

\* What the thread makes of one channel's bit leaves the frames of the others alone.
FrameKept(d) ==
  /\ frame_sync'[d] = frame_sync[d] /\ real_sync'[d] = real_sync[d]
  /\ set_ch_time'[d] = set_ch_time[d]
  /\ late'[d] = late[d] /\ mishaps'[d] = mishaps[d]
  /\ clean'[d] = clean[d] /\ sf'[d] = sf[d] /\ subframe'[d] = subframe[d]
  /\ wordcount'[d] = wordcount[d] /\ bitcount'[d] = bitcount[d]

LEMMA FoundElsewhere ==
  ASSUME TypeOK, NEW c \in Ch, NEW d \in Ch, d # c, NEW n, NEW i \in 0 .. SUBFRAMES - 1,
         NEW tow, NEW real, Found(c, n, i, tow, real)
  PROVE  FrameKept(d)
<1>1. /\ frame_sync \in [Ch -> BOOLEAN] /\ real_sync \in [Ch -> BOOLEAN]
      /\ set_ch_time \in [Ch -> BOOLEAN]
      /\ late \in [Ch -> BOOLEAN] /\ mishaps \in [Ch -> 0 .. MAX_MISHAPS]
      /\ clean \in [Ch -> 0 .. BUFFER] /\ subframe \in [Ch -> 0 .. SUBFRAMES - 1]
      /\ wordcount \in [Ch -> 0 .. WORDS] /\ bitcount \in [Ch -> 0 .. WORD - 1]
  BY Zenon DEF TypeOK
<1>2. sf \in [Ch -> [0 .. SUBFRAMES - 1 -> Record]]
  BY FrameTyped, Zenon DEF FrameType
<1>3. wordcount'[d] = wordcount[d]
  BY <1>1, Zenon DEF Found
<1>4. CASE Follows(c, i, tow)
  <2>1. /\ frame_sync' = [frame_sync EXCEPT ![c] = TRUE]
        /\ real_sync' = [real_sync EXCEPT ![c] = real]
        /\ subframe' = [subframe EXCEPT ![c] = i]
        /\ bitcount' = [bitcount EXCEPT ![c] = 0]
        /\ clean' = [clean EXCEPT ![c] = n]
        /\ UNCHANGED mishaps \/ mishaps' = [mishaps EXCEPT ![c] = @ + 1]
        /\ UNCHANGED late
        /\ UNCHANGED set_ch_time \/ set_ch_time' = [set_ch_time EXCEPT ![c] = TRUE]
    BY <1>4, Zenon DEF Found, Mishap
  <2>2. sf'[d] = sf[d]
    <3>1. sf' = [sf EXCEPT ![c][i] = [TOW |-> tow, valid |-> FirstWords(c, i),
                                      right |-> IF real THEN {0, 1} ELSE {}]]
      BY <1>4, Zenon DEF Found
    <3> QED
      BY <1>2, <3>1, Zenon
  <2>3. /\ frame_sync'[d] = frame_sync[d] /\ real_sync'[d] = real_sync[d]
        /\ subframe'[d] = subframe[d] /\ bitcount'[d] = bitcount[d]
        /\ clean'[d] = clean[d] /\ mishaps'[d] = mishaps[d] /\ late'[d] = late[d]
        /\ set_ch_time'[d] = set_ch_time[d]
    BY <1>1, <2>1, Zenon
  <2> QED
    BY <1>3, <2>2, <2>3, Zenon DEF FrameKept
<1>5. CASE ~Follows(c, i, tow)
  <2>1. /\ frame_sync' = [frame_sync EXCEPT ![c] = FALSE]
        /\ subframe' = [subframe EXCEPT ![c] = 0]
        /\ set_ch_time' = [set_ch_time EXCEPT ![c] = FALSE]
        /\ sf' = [sf EXCEPT ![c] = [s \in 0 .. SUBFRAMES - 1 |-> Empty]]
        /\ \E kept \in {0, n} : clean' = [clean EXCEPT ![c] = kept]
        /\ late' = [late EXCEPT ![c] = FALSE]
        /\ mishaps' = [mishaps EXCEPT ![c] = IF c \in message_flag THEN 1 ELSE 0]
        /\ UNCHANGED <<real_sync, bitcount>>
    BY <1>5, Zenon DEF Found, Unblemished
  <2>2. /\ frame_sync'[d] = frame_sync[d] /\ real_sync'[d] = real_sync[d]
        /\ subframe'[d] = subframe[d] /\ bitcount'[d] = bitcount[d] /\ sf'[d] = sf[d]
        /\ clean'[d] = clean[d] /\ mishaps'[d] = mishaps[d] /\ late'[d] = late[d]
        /\ set_ch_time'[d] = set_ch_time[d]
    BY <1>1, <1>2, <2>1, Zenon
  <2> QED
    BY <1>3, <2>2, Zenon DEF FrameKept
<1> QED
  BY <1>4, <1>5

LEMMA FrameElsewhere ==
  ASSUME TypeOK, NEW c \in Ch, NEW d \in Ch, d # c, MessageBit(c)
  PROVE  FrameKept(d)
<1> DEFINE n == store_bit(c)
<1>1. look_for_preamble(c, n) \/ InsideWord(c, n) \/ store_word(c, n)
  BY Zenon DEF MessageBit
<1> HIDE DEF n
<1>2. /\ frame_sync \in [Ch -> BOOLEAN] /\ clean \in [Ch -> 0 .. BUFFER]
      /\ wordcount \in [Ch -> 0 .. WORDS] /\ bitcount \in [Ch -> 0 .. WORD - 1]
      /\ subframe \in [Ch -> 0 .. SUBFRAMES - 1]
  BY Zenon DEF TypeOK
<1>3. sf \in [Ch -> [0 .. SUBFRAMES - 1 -> Record]]
  BY FrameTyped, Zenon DEF FrameType
<1>4. CASE look_for_preamble(c, n)
  <2>1. CASE \E t \in 0 .. TOWS - 1 : Found(c, n, t % SUBFRAMES, (t + 1) % TOWS, TRUE)
    <3>1. PICK t \in 0 .. TOWS - 1 : Found(c, n, t % SUBFRAMES, (t + 1) % TOWS, TRUE)
      BY <2>1
    <3>2. t % SUBFRAMES \in 0 .. SUBFRAMES - 1
      BY Numbers, Division
    <3> QED
      BY <3>1, <3>2, FoundElsewhere
  <2>2. CASE \E p \in Lookalikes : Found(c, n, p[2], p[3], FALSE)
    <3>1. PICK p \in Lookalikes : Found(c, n, p[2], p[3], FALSE)
      BY <2>2
    <3>2. p[2] \in 0 .. SUBFRAMES - 1
      BY MessageAssumption
    <3> QED
      BY <3>1, <3>2, FoundElsewhere
  <2>3. CASE clean' = [clean EXCEPT ![c] = n] /\ UNCHANGED <<frameVars, historyVars>>
    BY <1>2, <2>3, Zenon DEF FrameKept, frameVars, historyVars
  <2> QED
    BY <1>4, <2>1, <2>2, <2>3, Zenon DEF look_for_preamble
<1>5. CASE InsideWord(c, n)
  BY <1>2, <1>5, Zenon DEF InsideWord, FrameKept, historyVars
<1>6. CASE store_word(c, n)
  <2>1. /\ bitcount' = [bitcount EXCEPT ![c] = 0]
        /\ wordcount' = [wordcount EXCEPT ![c] = wordcount[c] + 1]
        /\ \/ UNCHANGED sf
           \/ sf' = [sf EXCEPT ![c][subframe[c]] = Stored(c, @, wordcount[c])]
        /\ \/ frame_sync' = [frame_sync EXCEPT ![c] = wordcount[c] + 1 < WORDS]
           \/ frame_sync' = [frame_sync EXCEPT ![c] = FALSE]
        /\ \/ clean' = [clean EXCEPT ![c] = n]
           \/ \E kept \in {0, n} : clean' = [clean EXCEPT ![c] = kept]
        /\ UNCHANGED <<real_sync, subframe, set_ch_time, historyVars>>
    BY <1>6, Zenon DEF store_word
  <2>2. sf'[d] = sf[d]
    BY <1>3, <2>1, Zenon
  <2>3. clean'[d] = clean[d]
    BY <1>2, <2>1, Zenon
  <2>4. frame_sync'[d] = frame_sync[d]
    BY <1>2, <2>1, Zenon
  <2> QED
    BY <1>2, <2>1, <2>2, <2>3, <2>4, Zenon DEF FrameKept, historyVars
<1> QED
  BY <1>1, <1>4, <1>5, <1>6

\* A step that does not receive, restart or deal with a bit of channel d.
Kept(d) ==
  /\ sat_bits'[d] = sat_bits[d] /\ seen'[d] = seen[d]
  /\ lost'[d] = lost[d] /\ noise'[d] = noise[d]
  /\ FrameKept(d)
  /\ Due(d)' <=> Due(d)
  /\ Twice(d)' => Twice(d)

LEMMA StepElsewhere ==
  ASSUME TypeOK, pc = "wait" => todo = {}, NEW d \in Ch,
         \/ MessageWake \/ UNCHANGED vars
         \/ \E c \in Ch : MessageTime(c) \/ MessageSync(c) \/ Dump(c)
         \/ \E c \in Ch \ {d} : Bit(c) \/ Restart(c) \/ MessageBit(c)
  PROVE  Kept(d)
<1>1. /\ sat_bits \in [Ch -> 0 .. BITS_IN_WEEK - 1] /\ seen \in [Ch -> BOOLEAN]
      /\ lost \in [Ch -> BOOLEAN] /\ noise \in [Ch -> BOOLEAN]
      /\ late \in [Ch -> BOOLEAN] /\ mishaps \in [Ch -> 0 .. MAX_MISHAPS]
      /\ set_ch_time \in [Ch -> BOOLEAN]
      /\ frame_sync \in [Ch -> BOOLEAN] /\ real_sync \in [Ch -> BOOLEAN]
      /\ subframe \in [Ch -> 0 .. SUBFRAMES - 1] /\ clean \in [Ch -> 0 .. BUFFER]
      /\ sf \in [Ch -> [0 .. SUBFRAMES - 1 -> Record]]
  BY FrameTyped, Zenon DEF TypeOK, FrameType
<1>2. CASE MessageWake
  BY <1>2 DEF MessageWake, Kept, FrameKept, Due, Twice, SettingTime, dsrVars, bitVars,
              frameVars, historyVars
<1>3. CASE UNCHANGED vars
  <2>1. Due(d)' = Due(d) /\ Twice(d)' = Twice(d)
    BY <1>3 DEF vars, threadVars, Due, Twice, SettingTime, Turn
  <2> QED
    BY <1>3, <2>1, Zenon
       DEF vars, Kept, FrameKept, dsrVars, bitVars, frameVars, historyVars
<1>4. ASSUME NEW c \in Ch, MessageTime(c) \/ Dump(c) PROVE Kept(d)
  <2>1. SettingTime(d)' <=> SettingTime(d)
    BY <1>4 DEF MessageTime, Dump, threadVars, SettingTime, Turn
  <2>2. UNCHANGED <<message_flag, todo>>
    BY <1>4, Zenon DEF MessageTime, Dump, threadVars
  <2>3. (Due(d)' <=> Due(d)) /\ (Twice(d)' => Twice(d))
    BY <2>1, <2>2, Zenon DEF Due, Twice
  <2> QED
    BY <1>4, <2>3, Zenon
       DEF MessageTime, Dump, Kept, FrameKept, dsrVars, bitVars, frameVars, historyVars
<1>5. ASSUME NEW c \in Ch, MessageSync(c) PROVE Kept(d)
  <2>1. /\ pc = "sync" /\ Turn(c) /\ pc' \in {"wait", "bits"} /\ todo' = todo \ {c}
        /\ UNCHANGED message_flag
    BY <1>5 DEF MessageSync, Continue
  <2>2. SettingTime(d) <=> d = c
    BY <2>1, TurnIsOne DEF SettingTime
  <2>3. (Due(d)' <=> Due(d)) /\ (Twice(d)' => Twice(d))
    BY <2>1, <2>2 DEF Due, Twice, SettingTime
  <2> QED
    BY <1>5, <2>3, Zenon
       DEF MessageSync, Kept, FrameKept, dsrVars, bitVars, frameVars, historyVars
<1>6. ASSUME NEW c \in Ch \ {d}, Bit(c) PROVE Kept(d)
  <2>1. message_flag' = message_flag \cup {c} /\ UNCHANGED <<pc, todo>>
    BY <1>6, Zenon DEF Bit, threadVars
  <2>2. (Due(d)' <=> Due(d)) /\ (Twice(d)' => Twice(d))
    BY <1>6, <2>1 DEF Due, Twice, SettingTime, Turn
  <2>3. late'[d] = late[d] /\ lost'[d] = lost[d]
    BY <1>1, <1>6, Zenon DEF Bit
  <2>4. sat_bits'[d] = sat_bits[d] /\ seen'[d] = seen[d]
    BY <1>1, <1>6, Zenon DEF Bit
  <2>5. noise'[d] = noise[d] /\ mishaps'[d] = mishaps[d]
    BY <1>1, <1>6, Zenon DEF Bit, Mishap
  <2> QED
    BY <1>6, <2>2, <2>3, <2>4, <2>5, Zenon DEF Bit, Kept, FrameKept, frameVars
<1>7. ASSUME NEW c \in Ch \ {d}, Restart(c) PROVE Kept(d)
  <2>1. UNCHANGED <<message_flag, pc, todo, noise, wordcount, bitcount>>
    BY <1>7, Zenon DEF Restart, threadVars
  <2>2. (Due(d)' <=> Due(d)) /\ (Twice(d)' => Twice(d))
    BY <2>1 DEF Due, Twice, SettingTime, Turn
  <2>3. /\ sat_bits'[d] = sat_bits[d] /\ seen'[d] = seen[d] /\ lost'[d] = lost[d]
        /\ frame_sync'[d] = frame_sync[d] /\ real_sync'[d] = real_sync[d]
        /\ set_ch_time'[d] = set_ch_time[d]
    BY <1>1, <1>7, Zenon DEF Restart
  <2>4. /\ late'[d] = late[d] /\ mishaps'[d] = mishaps[d] /\ clean'[d] = clean[d]
        /\ sf'[d] = sf[d] /\ subframe'[d] = subframe[d]
    BY <1>1, <1>7, Zenon DEF Restart, Unblemished
  <2> QED
    BY <2>1, <2>2, <2>3, <2>4, Zenon DEF Kept, FrameKept
<1>8. ASSUME NEW c \in Ch \ {d}, MessageBit(c) PROVE Kept(d)
  <2>1. /\ pc = "bits" /\ Turn(c)
        /\ UNCHANGED <<sat_bits, message_flag, noise>>
        /\ seen' = [seen EXCEPT ![c] = TRUE] /\ lost' = [lost EXCEPT ![c] = FALSE]
    BY <1>8, Zenon DEF MessageBit, dsrVars
  <2>2. \/ todo' = todo \ {c} /\ pc' \in {"wait", "bits"}
        \/ todo' = todo /\ pc' = "time"
    BY <1>8, BitTurns
  <2>3. ~SettingTime(d) /\ ~SettingTime(d)'
    BY <1>8, <2>1, <2>2, TurnIsOne DEF SettingTime, Turn
  <2>4. (Due(d)' <=> Due(d)) /\ (Twice(d)' => Twice(d))
    BY <1>8, <2>1, <2>2, <2>3 DEF Due, Twice
  <2>5. FrameKept(d)
    BY <1>8, FrameElsewhere
  <2>6. seen'[d] = seen[d] /\ lost'[d] = lost[d]
    BY <1>1, <1>8, <2>1, Zenon
  <2> QED
    BY <2>1, <2>4, <2>5, <2>6, Zenon DEF Kept
<1> QED
  BY <1>2, <1>3, <1>4, <1>5, <1>6, <1>7, <1>8, Zenon

LEMMA SfTow ==
  ASSUME TypeOK, NEW c \in Ch
  PROVE  /\ subframe[c] \in 0 .. SUBFRAMES - 1 /\ sf[c] \in [0 .. SUBFRAMES - 1 -> Record]
         /\ sf[c][subframe[c]].TOW \in 0 .. TOW_LIMIT - 1
<1>1. subframe[c] \in 0 .. SUBFRAMES - 1 /\ sf[c] \in [0 .. SUBFRAMES - 1 -> Record]
  BY FrameTyped, Zenon DEF FrameType
<1>2. sf[c][subframe[c]] \in Record
  BY <1>1
<1> QED
  BY <1>1, <1>2 DEF Record

LEMMA HowInWeek ==
  ASSUME NEW t \in 0 .. TOWS - 1
  PROVE  /\ t * SUBFRAME_BITS \in Nat
         /\ t * SUBFRAME_BITS + SUBFRAME_BITS <= BITS_IN_WEEK
         /\ t * SUBFRAME_BITS + HOW_END + 0 # BITS_IN_WEEK
         /\ t * SUBFRAME_BITS + HOW_END + 0 = t * SUBFRAME_BITS + HOW_END
<1>1. (t + 1) % TOWS \in 0 .. TOW_LIMIT - 1
  <2>1. (t + 1) % TOWS \in 0 .. TOWS - 1
    BY Numbers, Division
  <2> QED
    BY <2>1, Numbers
<1>2. t * SUBFRAME_BITS \in Nat /\ t * SUBFRAME_BITS + SUBFRAME_BITS <= BITS_IN_WEEK
  BY <1>1, StartOfHow, StartPlace
<1> DEFINE x == t * SUBFRAME_BITS
<1> HIDE DEF x
<1>3. x \in Nat /\ x + SUBFRAME_BITS <= BITS_IN_WEEK => x + HOW_END + 0 # BITS_IN_WEEK
  BY Lengths
<1>4. x \in Nat => x + HOW_END + 0 = x + HOW_END
  BY Lengths
<1> QED
  BY <1>2, <1>3, <1>4 DEF x

LEMMA KeptWord ==
  ASSUME NEW d \in Ch, Kept(d), DueInv(d), WordInv(d)
  PROVE  DueInv(d)' /\ WordInv(d)'
<1>1. DueInv(d)'
  BY Zenon DEF DueInv, Kept
<1>2. /\ Good(d)' <=> Good(d)
      /\ Counted(d)' = Counted(d) /\ Coming(d)' = Coming(d)
      /\ sf'[d][subframe'[d]] = sf[d][subframe[d]]
  BY DEF Kept, FrameKept, Good, Counted, Coming
<1>3. /\ InStep(d) => InStep(d)'
      /\ Slipped(d) => Slipped(d)'
  BY <1>2 DEF Kept, InStep, Slipped, At
<1>4. RightInv(d)'
  BY <1>2 DEF WordInv, RightInv, Kept, FrameKept
<1> QED
  BY <1>1, <1>2, <1>3, <1>4 DEF WordInv, Kept, FrameKept

\* The dump that ends a bit: if the last was dealt with, one more is to be counted.
LEMMA BitWord ==
  ASSUME WInv, NEW d \in Ch, Bit(d)
  PROVE  DueInv(d)' /\ WordInv(d)'
<1>1. /\ message_flag' = message_flag \cup {d} /\ UNCHANGED <<pc, todo, frameVars>>
      /\ seen' = [seen EXCEPT ![d] = FALSE] /\ seen \in [Ch -> BOOLEAN]
      /\ late' = [late EXCEPT ![d] = @ \/ Busy(d)] /\ late \in [Ch -> BOOLEAN]
      /\ sat_bits' = [sat_bits EXCEPT ![d] = (@ + 1) % BITS_IN_WEEK]
      /\ sat_bits \in [Ch -> 0 .. BITS_IN_WEEK - 1]
  BY Zenon DEF Bit, WInv, TypeOK, threadVars
<1>2. ~seen'[d] /\ d \in message_flag'
  BY <1>1
<1>3. DueInv(d)'
  BY <1>2 DEF DueInv, Due
<1>4. RightInv(d)'
  <2>1. late'[d] = (late[d] \/ Busy(d))
    BY <1>1, Zenon
  <2>2. RightInv(d)
    BY Zenon DEF WInv, WordInv
  <2>3. /\ real_sync'[d] = real_sync[d]
        /\ sf'[d][subframe'[d]] = sf[d][subframe[d]]
    BY <1>1, Zenon DEF frameVars
  <2> QED
    BY <2>1, <2>2, <2>3, Zenon DEF RightInv
<1>5. ASSUME Good(d)' PROVE wordcount'[d] >= 2 /\ (InStep(d)' \/ Slipped(d)')
  <2>1. Good(d) /\ ~Busy(d)
    <3>1. late'[d] = (late[d] \/ Busy(d))
      BY <1>1, Zenon
    <3> QED
      BY <1>1, <1>5, <3>1, Zenon DEF Good, frameVars
  <2>2. seen[d] /\ ~SettingTime(d)
    BY <2>1, Zenon DEF Busy
  <2>3. SettingTime(d)' <=> SettingTime(d)
    BY <1>1 DEF SettingTime, Turn
  <2>4. /\ Counted(d)' = Counted(d) /\ Coming(d) = 0 /\ Coming(d)' = 1
        /\ sf'[d][subframe'[d]] = sf[d][subframe[d]] /\ wordcount'[d] = wordcount[d]
    BY <1>1, <1>2, <2>2 DEF Counted, Coming, frameVars
  <2> DEFINE s == Start(sf[d][subframe[d]].TOW)
             k == Counted(d)
             week == BITS_IN_WEEK
  <2>5. s \in Nat /\ s + SUBFRAME_BITS <= week /\ SUBFRAME_BITS \in Nat /\ week \in Nat
    <3>1. sf[d][subframe[d]].TOW \in 0 .. TOW_LIMIT - 1
      BY SfTow, Zenon DEF WInv
    <3> QED
      BY <3>1, StartPlace, Lengths
  <2>6. k \in 0 .. SUBFRAME_BITS - 1 /\ k >= 2 * WORD
    BY <2>1, CountedBits, Zenon DEF WInv, WordInv, Good, HOW_END
  <2>7. Start(sf'[d][subframe'[d]].TOW) = s /\ Counted(d)' = k
    BY <2>4
  <2>8. /\ InStep(d) <=> At(d, s + k + 0)
        /\ Slipped(d) <=> At(d, s + k + 0 - 1) /\ ~Due(d)
        /\ InStep(d)' <=> sat_bits'[d] = IF s + k + 1 = week THEN 0 ELSE s + k + 1
        /\ Slipped(d)' <=> /\ sat_bits'[d] = IF s + k + 1 - 1 = week THEN 0 ELSE s + k + 1 - 1
                           /\ ~Twice(d)'
    BY <2>2, <2>4, <2>7, <1>2 DEF InStep, Slipped, At
  <2>9. sat_bits'[d] = (sat_bits[d] + 1) % week
    BY <1>1
  <2> HIDE DEF s, k, week
  <2>10. \A x \in 0 .. week - 1 : sat_bits[d] = x =>
           sat_bits'[d] = IF x + 1 = week THEN 0 ELSE x + 1
    <3> SUFFICES ASSUME NEW x \in 0 .. week - 1, sat_bits[d] = x
                 PROVE  sat_bits'[d] = IF x + 1 = week THEN 0 ELSE x + 1
      OBVIOUS
    <3>1. (x + 1) % week = IF x + 1 = week THEN 0 ELSE x + 1
      BY <2>5
    <3> QED
      BY <2>9, <3>1
  <2>11. CASE InStep(d)
    <3>1. s + k + 0 \in 0 .. week - 1
      BY <2>5, <2>6
    <3>2. sat_bits[d] = s + k + 0
      BY <2>8, <2>11, <3>1, <2>5 DEF At, week
    <3>3. sat_bits'[d] = IF s + k + 1 = week THEN 0 ELSE s + k + 1
      BY <2>5, <2>6, <2>10, <3>1, <3>2
    <3>4. InStep(d)'
      BY <2>8, <3>3
    <3> QED
      BY <2>1, <2>4, <3>4 DEF WInv, WordInv
  <2>12. CASE Slipped(d)
    <3>1. s + k - 1 \in 0 .. week - 1
      BY <2>5, <2>6, Numbers
    <3>2. sat_bits[d] = s + k - 1
      BY <2>8, <2>12, <3>1, <2>5, <2>6 DEF At, week
    <3>3. sat_bits'[d] = IF s + k + 1 - 1 = week THEN 0 ELSE s + k + 1 - 1
      BY <2>5, <2>6, <2>10, <3>1, <3>2
    <3>4. ~Twice(d)'
      BY <1>1, <2>2, <2>3, <2>8, <2>12, Zenon DEF Twice, Due
    <3>5. Slipped(d)'
      BY <2>8, <3>3, <3>4
    <3> QED
      BY <2>1, <2>4, <3>5 DEF WInv, WordInv
  <2> QED
    BY <2>1, <2>11, <2>12 DEF WInv, WordInv
<1> QED
  BY <1>3, <1>4, <1>5, Zenon DEF WordInv

LEMMA RestartWord ==
  ASSUME WInv, NEW d \in Ch, Restart(d)
  PROVE  DueInv(d)' /\ WordInv(d)'
<1>1. seen'[d] /\ ~frame_sync'[d] /\ ~real_sync'[d] /\ message_flag' = {}
  BY DEF Restart, WInv, TypeOK
<1> QED
  BY <1>1 DEF DueInv, WordInv, RightInv, Good, Twice

\* The message thread takes the bit.
LEMMA TakenOnce ==
  ASSUME TypeOK, NEW d \in Ch, DueInv(d), MessageBit(d)
  PROVE  /\ seen'[d] /\ DueInv(d)' /\ Due(d)
         /\ ~Due(d)' \/ Twice(d)
<1>1. /\ pc = "bits" /\ Turn(d) /\ seen' = [seen EXCEPT ![d] = TRUE]
      /\ UNCHANGED message_flag
  BY Zenon DEF MessageBit
<1>2. seen'[d]
  BY <1>1 DEF TypeOK
<1>3. d \in todo /\ ~SettingTime(d)
  BY <1>1 DEF Turn, SettingTime
<1>4. d \notin todo' \/ SettingTime(d)'
  BY <1>1, BitTurns DEF SettingTime, Turn
<1>5. ~Twice(d)'
  BY <1>4 DEF Twice
<1> QED
  BY <1>1, <1>2, <1>3, <1>4, <1>5 DEF DueInv, Due, Twice

LEMMA FoundWord ==
  ASSUME WInv, NEW d \in Ch, NEW n, NEW i \in 0 .. SUBFRAMES - 1, NEW tow, NEW real \in BOOLEAN,
         Found(d, n, i, tow, real), seen'[d], sat_bits' = sat_bits,
         real => \E t \in 0 .. TOWS - 1 : AtHow(d, t) /\ tow = (t + 1) % TOWS
  PROVE  WordInv(d)'
<1>1. /\ frame_sync \in [Ch -> BOOLEAN] /\ real_sync \in [Ch -> BOOLEAN]
      /\ subframe \in [Ch -> 0 .. SUBFRAMES - 1]
      /\ wordcount \in [Ch -> 0 .. WORDS] /\ bitcount \in [Ch -> 0 .. WORD - 1]
      /\ sf \in [Ch -> [0 .. SUBFRAMES - 1 -> Record]]
  BY FrameTyped, Zenon DEF WInv, FrameType
<1>2. CASE ~Follows(d, i, tow)
  <2>1. /\ frame_sync' = [frame_sync EXCEPT ![d] = FALSE]
        /\ subframe' = [subframe EXCEPT ![d] = 0]
        /\ sf' = [sf EXCEPT ![d] = [s \in 0 .. SUBFRAMES - 1 |-> Empty]]
    BY <1>2, Zenon DEF Found
  <2>2. ~frame_sync'[d]
    BY <1>1, <2>1, Zenon
  <2>3. sf'[d][subframe'[d]] = Empty
    <3>1. subframe'[d] = 0 /\ sf'[d] = [s \in 0 .. SUBFRAMES - 1 |-> Empty]
      BY <1>1, <2>1, Zenon
    <3>2. 0 \in 0 .. SUBFRAMES - 1
      BY Numbers
    <3> QED
      BY <3>1, <3>2
  <2> QED
    BY <2>2, <2>3 DEF WordInv, RightInv, Good, Empty
<1>3. CASE Follows(d, i, tow) /\ real
  <2>1. PICK t \in 0 .. TOWS - 1 : AtHow(d, t) /\ tow = (t + 1) % TOWS
    BY <1>3
  <2>2. /\ wordcount' = [wordcount EXCEPT ![d] = 2]
        /\ bitcount' = [bitcount EXCEPT ![d] = 0]
        /\ subframe' = [subframe EXCEPT ![d] = i]
        /\ sf' = [sf EXCEPT ![d][i] = [TOW |-> tow, valid |-> FirstWords(d, i),
                                        right |-> IF real THEN {0, 1} ELSE {}]]
    BY <1>3, Zenon DEF Found
  <2>3. wordcount'[d] = 2 /\ bitcount'[d] = 0 /\ subframe'[d] = i
    BY <1>1, <2>2, Zenon
  <2>4. sf'[d][subframe'[d]] = [TOW |-> tow, valid |-> FirstWords(d, i),
                                right |-> IF real THEN {0, 1} ELSE {}]
    BY <1>1, <2>2, <2>3, Zenon
  <2>5. /\ sf'[d][subframe'[d]].valid = sf'[d][subframe'[d]].right
        /\ sf'[d][subframe'[d]].TOW = tow
    BY <1>3, <2>4 DEF FirstWords
  <2>6. Counted(d)' = HOW_END /\ Coming(d)' = 0
    <3>1. Counted(d)' = 2 * WORD + 0
      BY <2>3 DEF Counted
    <3> QED
      BY <3>1, Numbers DEF Coming, HOW_END
  <2>7. InStep(d)'
    <3>1. Start(sf'[d][subframe'[d]].TOW) = t * SUBFRAME_BITS
      BY <2>1, <2>5, StartOfHow
    <3>2. sat_bits'[d] = t * SUBFRAME_BITS + HOW_END
      BY <2>1 DEF AtHow
    <3>3. InStep(d)' <=> At(d, t * SUBFRAME_BITS + HOW_END + 0)'
      BY <2>6, <3>1 DEF InStep, At
    <3>4. t * SUBFRAME_BITS + HOW_END + 0 # BITS_IN_WEEK
          /\ t * SUBFRAME_BITS + HOW_END + 0 = t * SUBFRAME_BITS + HOW_END
      BY HowInWeek
    <3> QED
      BY <3>2, <3>3, <3>4 DEF At
  <2> QED
    BY <2>3, <2>5, <2>7, Numbers DEF WordInv, RightInv
<1>4. CASE Follows(d, i, tow) /\ ~real
  <2>1. ~real_sync'[d]
    BY <1>1, <1>4 DEF Found
  <2> QED
    BY <2>1 DEF WordInv, RightInv, Good
<1> QED
  BY <1>2, <1>3, <1>4

\* A bit inside a word, or the last of it: counted, in step or slipped.
LEMMA CountWord ==
  ASSUME WInv, NEW d \in Ch, Good(d), MessageBit(d), Counted(d)' = Counted(d) + 1,
         sf'[d][subframe'[d]].TOW = sf[d][subframe[d]].TOW
  PROVE  InStep(d)' \/ Slipped(d)'
<1> DEFINE s == Start(sf[d][subframe[d]].TOW)
           k == Counted(d)
<1>1. s \in Nat /\ k \in Nat
  <2>1. sf[d][subframe[d]].TOW \in 0 .. TOW_LIMIT - 1
    BY SfTow, Zenon DEF WInv
  <2> QED
    BY <2>1, StartPlace, CountedBits, Lengths DEF Good, WInv
<1>2. seen'[d] /\ Due(d) /\ (~Due(d)' \/ Twice(d)) /\ DueInv(d) /\ sat_bits' = sat_bits
  BY TakenOnce, Zenon DEF WInv, MessageBit, dsrVars
<1>3. Start(sf[d][subframe[d]].TOW)' = s /\ Coming(d)' = 0
  BY <1>2 DEF Coming, Start
<1>4. InStep(d) \/ Slipped(d)
  BY DEF WInv, WordInv
<1>5. /\ InStep(d)' <=> At(d, s + (k + 1) + 0)
      /\ Slipped(d)' <=> At(d, s + (k + 1) + 0 - 1) /\ ~Due(d)'
  BY <1>2, <1>3 DEF InStep, Slipped, At
<1>6. CASE InStep(d) /\ ~seen[d]
  <2>1. At(d, s + k + 1)
    BY <1>6 DEF InStep, Coming
  <2> HIDE DEF s, k
  <2>2. s + (k + 1) + 0 = s + k + 1
    BY <1>1
  <2> QED
    BY <1>5, <2>1, <2>2
<1>7. CASE InStep(d) /\ seen[d]
  <2>1. At(d, s + k + 0) /\ ~Due(d)'
    BY <1>2, <1>7 DEF InStep, Coming, DueInv
  <2> HIDE DEF s, k
  <2>2. s + (k + 1) + 0 - 1 = s + k + 0
    BY <1>1
  <2> QED
    BY <1>5, <2>1, <2>2
<1>8. CASE Slipped(d)
  <2>1. ~seen[d] /\ ~Twice(d)
    BY <1>2, <1>8 DEF Slipped
  <2>2. At(d, s + k + 1 - 1) /\ ~Due(d)'
    BY <1>2, <1>8, <2>1 DEF Slipped, Coming
  <2> HIDE DEF s, k
  <2>3. s + (k + 1) + 0 - 1 = s + k + 1 - 1
    BY <1>1
  <2> QED
    BY <1>5, <2>2, <2>3
<1> QED
  BY <1>4, <1>6, <1>7, <1>8

\* The thread waits when no channel is left.
LEMMA WaitEmpty ==
  ASSUME TypeOK, pc = "wait" => todo = {}, [Next]_vars
  PROVE  pc' = "wait" => todo' = {}
<1>1. CASE UNCHANGED <<pc, todo>>
  BY <1>1
<1>2. CASE MessageWake
  BY <1>2 DEF MessageWake
<1>3. ASSUME NEW c \in Ch, MessageBit(c) PROVE pc' = "wait" => todo' = {}
  <2>1. ASSUME NEW n, NEW i, NEW tow, NEW real, Found(c, n, i, tow, real)
        PROVE  Continue(c) \/ pc' = "time"
    BY <2>1, Zenon DEF Found
  <2>2. ASSUME NEW n, look_for_preamble(c, n) \/ InsideWord(c, n) \/ store_word(c, n)
        PROVE  Continue(c) \/ pc' = "time"
    BY <2>1, <2>2, Zenon DEF look_for_preamble, InsideWord, store_word
  <2>3. Continue(c) \/ pc' = "time"
    BY <1>3, <2>2, Zenon DEF MessageBit
  <2> QED
    BY <2>3 DEF Continue
<1>4. ASSUME NEW c \in Ch, MessageTime(c) \/ MessageSync(c)
      PROVE  pc' = "wait" => todo' = {}
  BY <1>4 DEF MessageTime, MessageSync, Continue
<1>5. ASSUME NEW c \in Ch, Bit(c) \/ Dump(c) \/ Restart(c) PROVE UNCHANGED <<pc, todo>>
  BY <1>5, Zenon DEF Bit, Dump, Restart, threadVars
<1>6. CASE UNCHANGED vars
  BY <1>1, <1>6, Zenon DEF vars, threadVars
<1> QED
  BY <1>1, <1>2, <1>3, <1>4, <1>5, <1>6, Zenon DEF Next, MessageThread

LEMMA InsideWordWord ==
  ASSUME WInv, NEW d \in Ch, NEW n, InsideWord(d, n), MessageBit(d)
  PROVE  WordInv(d)'
<1>1. /\ bitcount' = [bitcount EXCEPT ![d] = @ + 1] /\ bitcount \in [Ch -> 0 .. WORD - 1]
      /\ UNCHANGED <<frame_sync, real_sync, late, subframe, wordcount, sf>>
  BY Zenon DEF InsideWord, WInv, TypeOK, historyVars
<1>2. SUFFICES ASSUME Good(d)' PROVE wordcount'[d] >= 2 /\ (InStep(d)' \/ Slipped(d)')
  <2>1. RightInv(d)'
    BY <1>1, Zenon DEF WInv, WordInv, RightInv
  <2> QED
    BY <2>1, Zenon DEF WordInv
<1>3. Good(d)
  BY <1>1, <1>2 DEF Good
<1>4. Counted(d)' = Counted(d) + 1
  <2>1. bitcount'[d] = bitcount[d] + 1 /\ wordcount' = wordcount
    BY <1>1
  <2>2. wordcount[d] \in 0 .. WORDS - 1 /\ bitcount[d] \in 0 .. WORD - 1
    BY <1>3, CountedBits, Zenon DEF Good, WInv, Words
  <2>3. wordcount[d] * WORD \in Int
    BY <2>2, Numbers
  <2> QED
    BY <2>1, <2>2, <2>3 DEF Counted
<1>5. InStep(d)' \/ Slipped(d)'
  BY <1>1, <1>3, <1>4, CountWord
<1> QED
  BY <1>1, <1>3, <1>5 DEF WInv, WordInv

LEMMA StoreWordWord ==
  ASSUME WInv, NEW d \in Ch, NEW n, store_word(d, n), MessageBit(d)
  PROVE  WordInv(d)'
<1> DEFINE i == subframe[d]
           w == wordcount[d]
           tow == sf[d][i].TOW
<1>1. /\ bitcount[d] + 1 >= WORD
      /\ bitcount' = [bitcount EXCEPT ![d] = 0] /\ bitcount \in [Ch -> 0 .. WORD - 1]
      /\ wordcount' = [wordcount EXCEPT ![d] = w + 1] /\ wordcount \in [Ch -> 0 .. WORDS]
      /\ frame_sync[d]
      /\ UNCHANGED <<real_sync, late, subframe>>
      /\ \/ UNCHANGED sf
         \/ /\ sf' = [sf EXCEPT ![d][i] = Stored(d, sf[d][i], w)]
            /\ ParityCheck(d, n)
  BY Zenon DEF store_word, WInv, TypeOK, historyVars
<1>2. SUFFICES ASSUME Good(d)
               PROVE  /\ wordcount'[d] >= 2 /\ (InStep(d)' \/ Slipped(d)')
                      /\ sf'[d][subframe'[d]].valid = sf'[d][subframe'[d]].right
  BY <1>1, Zenon DEF WordInv, RightInv, Good
<1>3. Good(d)
  BY <1>2
<1>4. /\ i \in 0 .. SUBFRAMES - 1 /\ sf[d][i] \in Record /\ tow \in 0 .. TOW_LIMIT - 1
      /\ sf \in [Ch -> [0 .. SUBFRAMES - 1 -> Record]]
  BY SfTow, FrameTyped, Zenon DEF WInv, FrameType
<1>5. w \in Words /\ w >= 2 /\ bitcount[d] = WORD - 1 /\ w \in 0 .. WORDS - 1
  <2>1. w \in Words /\ w >= 2 /\ bitcount[d] \in 0 .. WORD - 1
    BY <1>3, CountedBits, Zenon DEF WInv, WordInv, Good
  <2> QED
    BY <1>1, <2>1, Numbers DEF Words
<1>6. UNCHANGED sf \/ sf'[d][i] = Stored(d, sf[d][i], w)
  <2> DEFINE new == Stored(d, sf[d][i], w)
  <2>1. UNCHANGED sf \/ sf' = [sf EXCEPT ![d][i] = new]
    BY <1>1
  <2> HIDE DEF i, w, new
  <2>2. UNCHANGED sf \/ sf'[d][i] = new
    BY <1>4, <2>1, Zenon
  <2> QED
    BY <2>2 DEF new
<1>7. Counted(d)' = (w + 1) * WORD /\ Counted(d)' = Counted(d) + 1
  <2>1. Counted(d) = w * WORD + (WORD - 1)
    BY <1>5 DEF Counted
  <2>2. Counted(d)' = (w + 1) * WORD + 0
    BY <1>1 DEF Counted
  <2> HIDE DEF w
  <2>3. (w + 1) * WORD = w * WORD + WORD /\ w * WORD \in Int
    BY <1>5, Numbers
  <2> QED
    BY <2>1, <2>2, <2>3, Numbers
<1>8. sf'[d][subframe'[d]].TOW = tow
  <2>1. subframe'[d] = i
    BY <1>1
  <2>2. Stored(d, sf[d][i], w).TOW = tow
    BY <1>4 DEF Stored, Record
  <2>3. sf'[d][i].TOW = tow
    BY <1>6, <2>2
  <2> QED
    BY <2>1, <2>3
<1>9. InStep(d)' \/ Slipped(d)'
  BY <1>3, <1>7, <1>8, CountWord
<1>10. wordcount'[d] >= 2
  BY <1>1, <1>5
<1>11. sf'[d][i].valid = sf'[d][i].right
  <2>1. sf[d][i].valid = sf[d][i].right
    BY <1>3 DEF WInv, WordInv, RightInv, Good
  <2>2. CASE UNCHANGED sf
    BY <2>1, <2>2
  <2>3. CASE ParityCheck(d, n) /\ sf'[d][i] = Stored(d, sf[d][i], w)
    <3>1. AtSomeWordEnd(d)
      BY <2>3 DEF ParityCheck
    <3>2. /\ InStep(d)' => At(d, Start(tow) + (w + 1) * WORD)
          /\ Slipped(d)' => At(d, Start(tow) + (w + 1) * WORD - 1)
      <4>1. Coming(d)' = 0 /\ sat_bits' = sat_bits
        <5>1. TypeOK /\ DueInv(d)
          BY Zenon DEF WInv
        <5> QED
          BY <5>1, TakenOnce, Zenon DEF Coming, MessageBit, dsrVars
      <4>2. Start(sf'[d][subframe'[d]].TOW) = Start(tow)
        BY <1>8
      <4>3. Start(tow) \in Nat /\ (w + 1) * WORD \in Int
        <5>1. \A x \in 0 .. WORDS - 1 : (x + 1) * WORD \in Int
          BY Numbers
        <5> QED
          BY <1>4, <1>5, <5>1, StartPlace
      <4> DEFINE st == Start(tow)
                 e  == (w + 1) * WORD
      <4>4. /\ InStep(d)' <=> sat_bits[d] = IF st + e + 0 = BITS_IN_WEEK THEN 0 ELSE st + e + 0
            /\ Slipped(d)' => sat_bits[d] = IF st + e + 0 - 1 = BITS_IN_WEEK
                                              THEN 0 ELSE st + e + 0 - 1
        BY <1>7, <4>1, <4>2 DEF InStep, Slipped, At
      <4>5. /\ At(d, st + e) <=> sat_bits[d] = IF st + e = BITS_IN_WEEK THEN 0 ELSE st + e
            /\ At(d, st + e - 1) <=> sat_bits[d] = IF st + e - 1 = BITS_IN_WEEK
                                                     THEN 0 ELSE st + e - 1
        BY DEF At
      <4>6. st \in Int /\ e \in Int
        BY <4>3
      <4>7. SUFFICES /\ InStep(d)' => At(d, st + e)
                     /\ Slipped(d)' => At(d, st + e - 1)
        OBVIOUS
      <4> HIDE DEF st, e
      <4> QED
        BY <4>4, <4>5, <4>6
    <3>3. AtWordEnd(d, tow, w)
      BY <1>4, <1>5, <1>9, <3>1, <3>2, WordEnds DEF WInv
    <3> QED
      BY <2>1, <2>3, <3>3 DEF Stored
  <2> QED
    BY <1>1, <1>6, <2>2, <2>3
<1> QED
  BY <1>1, <1>9, <1>10, <1>11

LEMMA MessageBitWord ==
  ASSUME WInv, NEW d \in Ch, MessageBit(d)
  PROVE  DueInv(d)' /\ WordInv(d)'
<1> DEFINE n == store_bit(d)
<1>1. look_for_preamble(d, n) \/ InsideWord(d, n) \/ store_word(d, n)
  BY Zenon DEF MessageBit
<1>2. seen'[d] /\ DueInv(d)' /\ sat_bits' = sat_bits
  <2>1. TypeOK /\ DueInv(d)
    BY Zenon DEF WInv
  <2> QED
    BY <2>1, TakenOnce, Zenon DEF MessageBit, dsrVars
<1> HIDE DEF n
<1>3. CASE look_for_preamble(d, n)
  <2>1. CASE \E t \in 0 .. TOWS - 1 :
               AtHow(d, t) /\ Found(d, n, t % SUBFRAMES, (t + 1) % TOWS, TRUE)
    <3>1. PICK t \in 0 .. TOWS - 1 :
                 AtHow(d, t) /\ Found(d, n, t % SUBFRAMES, (t + 1) % TOWS, TRUE)
      BY <2>1
    <3>2. t % SUBFRAMES \in 0 .. SUBFRAMES - 1
      BY Numbers, Division
    <3> QED
      BY <1>2, <3>1, <3>2, FoundWord
  <2>2. CASE \E p \in Lookalikes : Found(d, n, p[2], p[3], FALSE)
    <3>1. PICK p \in Lookalikes : Found(d, n, p[2], p[3], FALSE)
      BY <2>2
    <3>2. p[2] \in 0 .. SUBFRAMES - 1
      BY MessageAssumption
    <3> QED
      BY <1>2, <3>1, <3>2, FoundWord
  <2>3. CASE ~frame_sync[d] /\ UNCHANGED <<frameVars, historyVars>>
    <3>1. ~frame_sync'[d]
      BY <2>3, Zenon DEF frameVars
    <3>2. RightInv(d)'
      BY <2>3, Zenon DEF WInv, WordInv, RightInv, frameVars, historyVars
    <3> QED
      BY <1>2, <3>1, <3>2 DEF WordInv, Good
  <2> QED
    BY <1>2, <1>3, <2>1, <2>2, <2>3, Zenon DEF look_for_preamble
<1> QED
  BY <1>1, <1>2, <1>3, InsideWordWord, StoreWordWord

LEMMA DueStep ==
  ASSUME TypeOK, pc = "wait" => todo = {}, [Next]_vars, NEW d \in Ch, DueInv(d)
  PROVE  DueInv(d)'
<1>1. CASE Bit(d)
  <2>1. ~seen'[d] /\ d \in message_flag'
    BY <1>1 DEF Bit, TypeOK
  <2> QED
    BY <2>1 DEF DueInv, Due
<1>2. CASE Restart(d)
  <2>1. seen'[d] /\ message_flag' = {}
    BY <1>2 DEF Restart, TypeOK
  <2> QED
    BY <2>1 DEF DueInv, Twice
<1>3. CASE MessageBit(d)
  BY <1>3, TakenOnce
<1>4. CASE ~(Bit(d) \/ Restart(d) \/ MessageBit(d))
  <2>1. Kept(d)
    BY <1>4, StepElsewhere, Zenon DEF Next, MessageThread
  <2> QED
    BY <2>1, Zenon DEF DueInv, Kept
<1> QED
  BY <1>1, <1>2, <1>3, <1>4

LEMMA WordsInductive == Spec => []WInv
<1>1. Init => WInv
  <2> SUFFICES ASSUME Init, NEW c \in Ch PROVE DueInv(c) /\ WordInv(c)
    BY InitType DEF WInv, Init
  <2> QED
    BY DEF Init, DueInv, Twice, WordInv, RightInv, Good
<1>2. WInv /\ [Next]_vars => WInv'
  <2> SUFFICES ASSUME WInv, [Next]_vars PROVE WInv'
    OBVIOUS
  <2>1. TypeOK'
    BY StepType DEF WInv
  <2>2. (pc = "wait" => todo = {})'
    BY WaitEmpty DEF WInv
  <2>3. ASSUME NEW d \in Ch PROVE DueInv(d)' /\ WordInv(d)'
    <3>1. CASE Bit(d) \/ Restart(d) \/ MessageBit(d)
      BY <3>1, BitWord, RestartWord, MessageBitWord
    <3>2. CASE ~(Bit(d) \/ Restart(d) \/ MessageBit(d))
      <4>1. Kept(d)
        BY <3>2, StepElsewhere, Zenon DEF WInv, Next, MessageThread
      <4> QED
        BY <4>1, KeptWord DEF WInv
    <3> QED
      BY <3>1, <3>2
  <2> QED
    BY <2>1, <2>2, <2>3 DEF WInv
<1> QED
  BY <1>1, <1>2, PTL DEF Spec

\* message.c:431: for words and subframes of any length and number, any noise, lost
\* bits and false preambles, each word that is stored as a word of the subframe whose
\* TOW is recorded is that word of it; a bit taken twice only makes the parity fail.
THEOREM WordsRightCorrect == Spec => []WordsRight
<1>1. WInv => WordsRight
  BY Zenon DEF WInv, WordInv, RightInv, WordsRight
<1> QED
  BY <1>1, WordsInductive, PTL

-----------------------------------------------------------------------------
(* The message that is given up.                                           *)

\* Nothing has gone wrong: no bit is lost, wrong, or waited for twice.
Peaceful(c) ==
  /\ ~lost[c] /\ (~seen[c] => ~noise[c])
  /\ seen[c] => ~Due(c)
  /\ ~Twice(c)

\* The thread has not found a HOW yet ...
HeardNothing(c) == ~frame_sync[c] /\ sf[c] = [s \in 0 .. SUBFRAMES - 1 |-> Empty]

\* ... or that of subframe t of the week was the last, and k bits were taken since
\* that subframe began: it is being received, or the next HOW is awaited.
HeardHow(c, t) ==
  /\ clean[c] = BUFFER
  /\ sf[c][t % SUBFRAMES].TOW = (t + 1) % TOWS
  /\ \E k \in HOW_END .. SUBFRAME_BITS + HOW_END - 1 :
       /\ sat_bits[c] = (t * SUBFRAME_BITS + k + Coming(c)) % BITS_IN_WEEK
       /\ IF frame_sync[c] THEN k = Counted(c) /\ subframe[c] = t % SUBFRAMES
                           ELSE k >= SUBFRAME_BITS

PeaceInv(c) ==
  mishaps[c] = 0 =>
    Peaceful(c) /\ (HeardNothing(c) \/ \E t \in 0 .. TOWS - 1 : HeardHow(c, t))

PInv == /\ TypeOK
        /\ pc = "wait" => todo = {}
        /\ \A c \in Ch : DueInv(c) /\ PeaceInv(c)

LEMMA NextOfWeek ==
  ASSUME NEW x \in Nat
  PROVE  ((x % BITS_IN_WEEK) + 1) % BITS_IN_WEEK = (x + 1) % BITS_IN_WEEK
<1> DEFINE week == BITS_IN_WEEK
           q == x \div week
           r == x % week
<1>1. week \in Nat /\ week >= 1
  BY Lengths, Numbers
<1> HIDE DEF week
<1>2. q \in Int /\ r \in 0 .. week - 1 /\ x = q * week + r
  BY <1>1, Division
<1> HIDE DEF q, r
<1>3. q * week \in Int /\ (q + 1) * week = q * week + week /\ x + 1 \in Int
  BY <1>1, <1>2
<1>4. CASE r + 1 < week
  <2>1. x + 1 = q * week + (r + 1) /\ r + 1 \in 0 .. week - 1
    BY <1>1, <1>2, <1>3, <1>4
  <2>2. (x + 1) % week = r + 1
    BY <1>1, <1>2, <1>3, <2>1, Quotient
  <2>3. (r + 1) % week = r + 1
    BY <1>1, <2>1
  <2> QED
    BY <2>2, <2>3 DEF week, r
<1>5. CASE r + 1 = week
  <2>1. x + 1 = (q + 1) * week + 0 /\ 0 \in 0 .. week - 1 /\ q + 1 \in Int
    BY <1>1, <1>2, <1>3, <1>5
  <2>2. (x + 1) % week = 0
    BY <1>1, <1>3, <2>1, Quotient
  <2>3. (r + 1) % week = 0
    BY <1>1, <1>5
  <2> QED
    BY <2>2, <2>3 DEF week, r
<1> QED
  BY <1>1, <1>2, <1>4, <1>5

\* After subframe t the next of the week begins, the first after the last.
LEMMA NextSubframe ==
  ASSUME NEW t \in 0 .. TOWS - 1, NEW j \in 0 .. SUBFRAME_BITS - 1
  PROVE  /\ (t + 1) % TOWS \in 0 .. TOWS - 1
         /\ (t * SUBFRAME_BITS + SUBFRAME_BITS + j) % BITS_IN_WEEK
              = ((t + 1) % TOWS) * SUBFRAME_BITS + j
<1> DEFINE s == SUBFRAME_BITS
           week == BITS_IN_WEEK
<1>1. s \in Nat /\ week \in Nat /\ week >= 1 /\ week = s * TOWS /\ s <= week
  BY Lengths, Numbers
<1>2. \A u \in 0 .. TOWS - 1 : u * s \in Nat /\ u * s + s <= week
  BY HowInWeek
<1>3. j \in 0 .. s - 1
  OBVIOUS
<1> HIDE DEF s, week
<1>4. t * s + s = (t + 1) * s /\ t * s \in Nat
  BY <1>1, <1>2
<1>5. CASE t + 1 < TOWS
  <2>1. (t + 1) % TOWS = t + 1
    BY <1>5, Numbers
  <2>2. (t + 1) * s \in Nat /\ (t + 1) * s + s <= week
    BY <1>2, <1>5, Numbers
  <2>3. t * s + s + j = (t + 1) * s + j /\ (t + 1) * s + j \in 0 .. week - 1
    BY <1>1, <1>3, <1>4, <2>2
  <2>4. ((t + 1) * s + j) % week = (t + 1) * s + j
    BY <1>1, <2>3
  <2> QED
    BY <1>5, <2>1, <2>3, <2>4, Numbers DEF s, week
<1>6. CASE t + 1 = TOWS
  <2>1. (t + 1) % TOWS = 0
    BY <1>6, Numbers
  <2>2. (t + 1) * s = week
    BY <1>1, <1>6, Numbers
  <2>3. t * s + s + j = 1 * week + j /\ j \in 0 .. week - 1 /\ t * s + s + j \in Int
    BY <1>1, <1>3, <1>4, <2>2
  <2>4. (t * s + s + j) % week = j
    BY <1>1, <2>3, Quotient
  <2>5. 0 * s + j = j
    BY <1>1, <1>3
  <2> QED
    BY <2>1, <2>4, <2>5, Numbers DEF s, week
<1> QED
  BY <1>5, <1>6, Numbers

LEMMA OneHow ==
  ASSUME NEW t \in 0 .. TOWS - 1, NEW u \in 0 .. TOWS - 1, NEW j \in 0 .. SUBFRAME_BITS - 1,
         t * SUBFRAME_BITS + HOW_END = u * SUBFRAME_BITS + j
  PROVE  t = u /\ j = HOW_END
<1> DEFINE s == SUBFRAME_BITS
           x == t * s + HOW_END
<1>1. s \in Nat /\ s >= 1 /\ HOW_END \in 0 .. s - 1 /\ t * s \in Nat /\ x = u * s + j
  BY Lengths, Numbers, HowInWeek
<1>2. x \in Int /\ x = t * s + HOW_END
  BY <1>1
<1> HIDE DEF s, x
<1>3. t \in Int /\ u \in Int /\ j \in 0 .. s - 1
  <2>1. j \in 0 .. s - 1
    BY DEF s
  <2> QED
    BY <2>1, Numbers
<1>4. x \div s = t /\ x % s = HOW_END
  BY ONLY <1>1, <1>2, <1>3, Quotient
<1>5. x \div s = u /\ x % s = j
  BY ONLY <1>1, <1>2, <1>3, Quotient
<1> QED
  BY <1>4, <1>5

\* The subframe before the next is this one, in the numbering of the frame too.
LEMMA PreviousSubframe ==
  ASSUME NEW t \in 0 .. TOWS - 1
  PROVE  /\ Previous(((t + 1) % TOWS) % SUBFRAMES) = t % SUBFRAMES
         /\ t % SUBFRAMES \in 0 .. SUBFRAMES - 1
<1> DEFINE q == t \div SUBFRAMES
           r == t % SUBFRAMES
           f == TOWS \div SUBFRAMES
<1>1. q \in Int /\ r \in 0 .. SUBFRAMES - 1 /\ t = q * SUBFRAMES + r
  BY Division, Numbers
<1>2. f \in Int /\ TOWS = f * SUBFRAMES
  <2>1. TOWS % SUBFRAMES = 0
    BY MessageAssumption
  <2>2. f \in Int /\ TOWS = f * SUBFRAMES + (TOWS % SUBFRAMES)
    BY Division, Numbers
  <2> HIDE DEF f
  <2>3. f * SUBFRAMES \in Int
    BY <2>2, Numbers
  <2> QED
    BY <2>1, <2>2, <2>3
<1> HIDE DEF q, r, f
<1>3. q * SUBFRAMES \in Int /\ (q + 1) * SUBFRAMES = q * SUBFRAMES + SUBFRAMES
  BY <1>1, Numbers
<1>4. ((t + 1) % TOWS) % SUBFRAMES = (t + 1) % SUBFRAMES
  <2>1. CASE t + 1 < TOWS
    <3>1. (t + 1) % TOWS = t + 1
      BY <2>1, Numbers
    <3> QED
      BY <3>1
  <2>2. CASE t + 1 = TOWS
    <3>1. (t + 1) % TOWS = 0 /\ 0 % SUBFRAMES = 0
      BY <2>2, Numbers
    <3>2. (t + 1) % SUBFRAMES = 0
      BY <2>2, MessageAssumption
    <3> QED
      BY <3>1, <3>2
  <2> QED
    BY <2>1, <2>2, Numbers
<1>5. CASE r + 1 < SUBFRAMES
  <2>1. t + 1 = q * SUBFRAMES + (r + 1) /\ r + 1 \in 0 .. SUBFRAMES - 1 /\ t + 1 \in Int
    BY <1>1, <1>3, <1>5, Numbers
  <2>2. (t + 1) % SUBFRAMES = r + 1
    BY <1>1, <2>1, Quotient, Numbers
  <2>3. Previous(r + 1) = r
    BY <1>1 DEF Previous
  <2> QED
    BY <1>1, <1>4, <2>2, <2>3 DEF r
<1>6. CASE r + 1 = SUBFRAMES
  <2>1. t + 1 = (q + 1) * SUBFRAMES + 0 /\ 0 \in 0 .. SUBFRAMES - 1 /\ t + 1 \in Int
        /\ q + 1 \in Int
    BY <1>1, <1>3, <1>6, Numbers
  <2>2. (t + 1) % SUBFRAMES = 0
    BY <2>1, Quotient, Numbers
  <2>3. Previous(0) = r
    BY <1>1, <1>6, Numbers DEF Previous
  <2> QED
    BY <1>1, <1>4, <2>2, <2>3 DEF r
<1> QED
  BY <1>1, <1>5, <1>6, Numbers

LEMMA KeptPeace ==
  ASSUME NEW d \in Ch, Kept(d), PeaceInv(d) PROVE PeaceInv(d)'
<1>1. Peaceful(d) => Peaceful(d)'
  BY Zenon DEF Kept, Peaceful
<1>2. HeardNothing(d) => HeardNothing(d)'
  BY Zenon DEF Kept, FrameKept, HeardNothing
<1>3. ASSUME NEW t \in 0 .. TOWS - 1, HeardHow(d, t) PROVE HeardHow(d, t)'
  <2>1. Coming(d)' = Coming(d) /\ Counted(d)' = Counted(d)
    BY DEF Kept, FrameKept, Coming, Counted
  <2> QED
    BY <1>3, <2>1 DEF Kept, FrameKept, HeardHow
<1> QED
  BY <1>1, <1>2, <1>3, Zenon DEF PeaceInv, Kept, FrameKept

LEMMA BitPeace ==
  ASSUME PInv, NEW d \in Ch, Bit(d) PROVE PeaceInv(d)'
<1>1. SUFFICES ASSUME mishaps'[d] = 0 PROVE PeaceInv(d)'
  BY Zenon DEF PeaceInv
<1>2. PICK wrong \in BOOLEAN :
        /\ noise' = [noise EXCEPT ![d] = wrong]
        /\ IF wrong \/ Busy(d) THEN Mishap(d) ELSE UNCHANGED mishaps
  BY Zenon DEF Bit
<1>3. mishaps \in [Ch -> 0 .. MAX_MISHAPS]
  BY Zenon DEF PInv, TypeOK
<1>4. ~wrong /\ ~Busy(d) /\ mishaps[d] = 0
  <2>1. ~Mishap(d)
    <3>1. mishaps[d] \in 0 .. MAX_MISHAPS
      BY <1>3
    <3>2. Mishap(d) => mishaps'[d] = mishaps[d] + 1
      BY <1>3 DEF Mishap
    <3> QED
      BY <1>1, <3>1, <3>2, Numbers
  <2> QED
    BY <1>1, <1>2, <2>1, Zenon
<1>5. Peaceful(d) /\ (HeardNothing(d) \/ \E t \in 0 .. TOWS - 1 : HeardHow(d, t))
  BY <1>4, Zenon DEF PInv, PeaceInv
<1>6. seen[d] /\ ~SettingTime(d)
  BY <1>4, Zenon DEF Busy
<1>7. /\ UNCHANGED <<pc, todo, clean, frameVars>>
      /\ seen' = [seen EXCEPT ![d] = FALSE] /\ seen \in [Ch -> BOOLEAN]
      /\ lost' = [lost EXCEPT ![d] = @ \/ ~seen[d]] /\ lost \in [Ch -> BOOLEAN]
      /\ sat_bits' = [sat_bits EXCEPT ![d] = (@ + 1) % BITS_IN_WEEK]
      /\ sat_bits \in [Ch -> 0 .. BITS_IN_WEEK - 1]
      /\ noise \in [Ch -> BOOLEAN]
  BY Zenon DEF Bit, PInv, TypeOK, threadVars
<1>8. Peaceful(d)'
  <2>1. ~seen'[d] /\ ~lost'[d] /\ ~noise'[d]
    <3>1. lost'[d] = (lost[d] \/ ~seen[d])
      BY <1>7, Zenon
    <3> QED
      BY <1>2, <1>4, <1>5, <1>6, <1>7, <3>1 DEF Peaceful
  <2>2. d \notin todo'
    BY <1>5, <1>6, <1>7 DEF Peaceful, Due
  <2> QED
    BY <2>1, <2>2 DEF Peaceful, Twice
<1>9. HeardNothing(d) => HeardNothing(d)'
  BY <1>7, Zenon DEF HeardNothing, frameVars
<1>10. ASSUME NEW t \in 0 .. TOWS - 1, HeardHow(d, t) PROVE HeardHow(d, t)'
  <2>1. Coming(d) = 0 /\ Coming(d)' = 1 /\ Counted(d)' = Counted(d)
    BY <1>6, <1>7 DEF Coming, Counted, frameVars
  <2>2. PICK k \in HOW_END .. SUBFRAME_BITS + HOW_END - 1 :
           /\ sat_bits[d] = (t * SUBFRAME_BITS + k + Coming(d)) % BITS_IN_WEEK
           /\ IF frame_sync[d] THEN k = Counted(d) /\ subframe[d] = t % SUBFRAMES
                               ELSE k >= SUBFRAME_BITS
    BY <1>10 DEF HeardHow
  <2>3. t * SUBFRAME_BITS + k + 0 \in Nat /\ t * SUBFRAME_BITS \in Nat /\ k \in Nat
    <3>1. t * SUBFRAME_BITS \in Nat /\ k \in Nat
      BY HowInWeek, Lengths
    <3> DEFINE x == t * SUBFRAME_BITS
    <3> HIDE DEF x
    <3>2. x \in Nat => x + k + 0 \in Nat
      BY <3>1
    <3> QED
      BY <3>1, <3>2 DEF x
  <2>4. sat_bits'[d] = (t * SUBFRAME_BITS + k + 1) % BITS_IN_WEEK
    <3> DEFINE x == t * SUBFRAME_BITS + k
               week == BITS_IN_WEEK
    <3>1. x \in Nat /\ x + 0 = x
      BY <2>3
    <3>2. sat_bits[d] = (x + 0) % week /\ sat_bits'[d] = (sat_bits[d] + 1) % week
      BY <1>7, <2>1, <2>2
    <3>3. ((x % week) + 1) % week = (x + 1) % week
      BY <3>1, NextOfWeek
    <3> HIDE DEF x, week
    <3>4. sat_bits'[d] = (x + 1) % week
      BY <3>1, <3>2, <3>3
    <3> QED
      BY <3>4 DEF x, week
  <2>5. sat_bits'[d] = (t * SUBFRAME_BITS + k + Coming(d)') % BITS_IN_WEEK
    BY <2>1, <2>4
  <2> QED
    BY <1>7, <1>10, <2>1, <2>2, <2>5 DEF HeardHow, frameVars
<1> QED
  BY <1>5, <1>8, <1>9, <1>10, Zenon DEF PeaceInv

LEMMA RestartPeace ==
  ASSUME PInv, NEW d \in Ch, Restart(d) PROVE PeaceInv(d)'
<1>1. /\ ~frame_sync'[d] /\ seen'[d] /\ ~lost'[d]
      /\ message_flag' = {} /\ todo' = {}
  BY DEF Restart, PInv, TypeOK, threadVars
<1>2. sf'[d] = [s \in 0 .. SUBFRAMES - 1 |-> Empty]
  <2>1. sf \in [Ch -> [0 .. SUBFRAMES - 1 -> Record]]
    BY FrameTyped, Zenon DEF PInv, FrameType
  <2> QED
    BY <2>1, Zenon DEF Restart
<1> QED
  BY <1>1, <1>2 DEF PeaceInv, Peaceful, Due, Twice, HeardNothing

\* The channel's bit is dealt with and no other waits.
LEMMA TakenPeace ==
  ASSUME PInv, NEW d \in Ch, MessageBit(d)
  PROVE  /\ seen'[d] /\ ~lost'[d] /\ sat_bits' = sat_bits /\ Coming(d)' = 0
         /\ Due(d) /\ (d \notin message_flag => Peaceful(d)')
         /\ mishaps[d] = 0 => /\ ~seen[d] /\ d \notin message_flag
                              /\ store_bit(d) = IF clean[d] < BUFFER THEN clean[d] + 1 ELSE BUFFER
<1>1. /\ pc = "bits" /\ Turn(d) /\ seen' = [seen EXCEPT ![d] = TRUE]
      /\ lost' = [lost EXCEPT ![d] = FALSE]
      /\ UNCHANGED message_flag /\ sat_bits' = sat_bits
  BY Zenon DEF MessageBit, dsrVars
<1>2. seen'[d] /\ ~lost'[d]
  BY <1>1 DEF PInv, TypeOK
<1>3. d \in todo /\ ~SettingTime(d)
  BY <1>1 DEF Turn, SettingTime
<1>4. d \notin todo' \/ SettingTime(d)'
  BY <1>1, BitTurns DEF SettingTime, Turn
<1>5. d \notin message_flag => Peaceful(d)'
  BY <1>1, <1>2, <1>4 DEF Peaceful, Due, Twice
<1>6. mishaps[d] = 0 => ~seen[d] /\ ~lost[d] /\ ~noise[d] /\ d \notin message_flag
  BY <1>3 DEF PInv, PeaceInv, Peaceful, Due, Twice
<1> QED
  BY <1>1, <1>2, <1>3, <1>5, <1>6 DEF Due, Coming, store_bit

\* A HOW that follows is heard; a message given up leaves nothing.
LEMMA FoundPeace ==
  ASSUME PInv, NEW d \in Ch, MessageBit(d), NEW i \in 0 .. SUBFRAMES - 1, NEW tow,
         NEW real \in BOOLEAN, NEW n, Found(d, n, i, tow, real), mishaps'[d] = 0,
         real => \E t \in 0 .. TOWS - 1 :
                   AtHow(d, t) /\ n = BUFFER /\ i = t % SUBFRAMES /\ tow = (t + 1) % TOWS
  PROVE  PeaceInv(d)'
<1>1. /\ frame_sync \in [Ch -> BOOLEAN] /\ clean \in [Ch -> 0 .. BUFFER]
      /\ subframe \in [Ch -> 0 .. SUBFRAMES - 1] /\ mishaps \in [Ch -> 0 .. MAX_MISHAPS]
      /\ wordcount \in [Ch -> 0 .. WORDS] /\ bitcount \in [Ch -> 0 .. WORD - 1]
      /\ sf \in [Ch -> [0 .. SUBFRAMES - 1 -> Record]]
  BY FrameTyped, Zenon DEF PInv, FrameType
<1>2. CASE ~Follows(d, i, tow)
  <2>1. /\ frame_sync' = [frame_sync EXCEPT ![d] = FALSE]
        /\ sf' = [sf EXCEPT ![d] = [s \in 0 .. SUBFRAMES - 1 |-> Empty]]
        /\ mishaps' = [mishaps EXCEPT ![d] = IF d \in message_flag THEN 1 ELSE 0]
    BY <1>2, Zenon DEF Found, Unblemished
  <2>2. HeardNothing(d)'
    BY <1>1, <2>1, Zenon DEF HeardNothing
  <2>3. d \notin message_flag
    BY <1>1, <2>1
  <2> QED
    BY <2>2, <2>3, TakenPeace DEF PeaceInv
<1>3. CASE Follows(d, i, tow) /\ ~real
  <2>1. Mishap(d)
    BY <1>3, Zenon DEF Found
  <2>2. mishaps'[d] = mishaps[d] + 1 /\ mishaps[d] \in 0 .. MAX_MISHAPS
    BY <1>1, <2>1 DEF Mishap
  <2> QED
    BY <2>2, Numbers
<1>4. CASE Follows(d, i, tow) /\ real
  <2>1. PICK t \in 0 .. TOWS - 1 :
           AtHow(d, t) /\ n = BUFFER /\ i = t % SUBFRAMES /\ tow = (t + 1) % TOWS
    BY <1>4
  <2>2. /\ wordcount' = [wordcount EXCEPT ![d] = 2]
        /\ frame_sync' = [frame_sync EXCEPT ![d] = TRUE]
        /\ bitcount' = [bitcount EXCEPT ![d] = 0]
        /\ subframe' = [subframe EXCEPT ![d] = i]
        /\ sf' = [sf EXCEPT ![d][i] = [TOW |-> tow, valid |-> FirstWords(d, i),
                                        right |-> IF real THEN {0, 1} ELSE {}]]
        /\ clean' = [clean EXCEPT ![d] = n]
        /\ UNCHANGED mishaps
    BY <1>4, Zenon DEF Found
  <2>3. /\ wordcount'[d] = 2 /\ bitcount'[d] = 0 /\ subframe'[d] = i
        /\ frame_sync'[d] /\ clean'[d] = BUFFER
    BY <1>1, <2>1, <2>2, Zenon
  <2>4. sf'[d][i].TOW = tow
    <3>1. sf'[d][i] = [TOW |-> tow, valid |-> FirstWords(d, i),
                       right |-> IF real THEN {0, 1} ELSE {}]
      BY <1>1, <2>2, Zenon
    <3> QED
      BY <3>1
  <2>5. Counted(d)' = HOW_END /\ Coming(d)' = 0 /\ HOW_END \in Nat /\ SUBFRAME_BITS \in Nat
        /\ SUBFRAME_BITS >= 1
    <3>1. Counted(d)' = 2 * WORD + 0
      BY <2>3 DEF Counted
    <3> QED
      BY <3>1, Numbers, TakenPeace, Lengths DEF HOW_END
  <2>6. sat_bits'[d] = (t * SUBFRAME_BITS + HOW_END + Coming(d)') % BITS_IN_WEEK
    <3> DEFINE x == t * SUBFRAME_BITS
               week == BITS_IN_WEEK
    <3>1. x \in Nat /\ x + SUBFRAME_BITS <= week
      BY HowInWeek
    <3>2. sat_bits'[d] = x + HOW_END
      BY <2>1, TakenPeace DEF AtHow
    <3>3. week \in Nat
      BY Lengths
    <3> HIDE DEF x, week
    <3>4. (x + HOW_END + 0) % week = x + HOW_END
      <4> DEFINE y == x + HOW_END
      <4>1. y \in 0 .. week - 1 /\ x + HOW_END + 0 = y
        BY <3>1, <3>3, Lengths
      <4> HIDE DEF y
      <4>2. y % week = y
        BY <3>3, <4>1
      <4> QED
        BY <4>1, <4>2 DEF y
    <3> QED
      BY <3>2, <3>4, <2>5 DEF x, week
  <2>7. HeardHow(d, t)'
    <3>1. HOW_END \in HOW_END .. SUBFRAME_BITS + HOW_END - 1
      BY <2>5
    <3> QED
      BY <2>1, <2>3, <2>4, <2>5, <2>6, <3>1 DEF HeardHow
  <2> QED
    BY <2>2, <2>7, TakenPeace, Zenon DEF PeaceInv
<1> QED
  BY <1>2, <1>3, <1>4

\* The bits of a subframe that is being received go on to be taken one by one.
LEMMA InsideWordPeace ==
  ASSUME PInv, NEW d \in Ch, MessageBit(d), InsideWord(d, store_bit(d)), mishaps'[d] = 0
  PROVE  PeaceInv(d)'
<1>1. /\ frame_sync[d]
      /\ bitcount' = [bitcount EXCEPT ![d] = @ + 1] /\ bitcount \in [Ch -> 0 .. WORD - 1]
      /\ clean' = [clean EXCEPT ![d] = store_bit(d)] /\ clean \in [Ch -> 0 .. BUFFER]
      /\ UNCHANGED <<frame_sync, subframe, wordcount, sf, mishaps>>
  BY Zenon DEF InsideWord, PInv, TypeOK, historyVars
<1>2. /\ mishaps[d] = 0 /\ Peaceful(d)' /\ seen'[d] /\ sat_bits' = sat_bits /\ ~seen[d]
      /\ store_bit(d) = IF clean[d] < BUFFER THEN clean[d] + 1 ELSE BUFFER
  BY <1>1, TakenPeace
<1>3. PICK t \in 0 .. TOWS - 1 : HeardHow(d, t)
  BY <1>1, <1>2, Zenon DEF PInv, PeaceInv, HeardNothing
<1>4. PICK k \in HOW_END .. SUBFRAME_BITS + HOW_END - 1 :
        /\ sat_bits[d] = (t * SUBFRAME_BITS + k + Coming(d)) % BITS_IN_WEEK
        /\ k = Counted(d) /\ subframe[d] = t % SUBFRAMES
  BY <1>1, <1>3, Zenon DEF HeardHow
<1>5. Counted(d)' = k + 1
  <2>1. bitcount'[d] = bitcount[d] + 1 /\ wordcount' = wordcount
    BY <1>1
  <2>2. wordcount[d] \in 0 .. WORDS - 1 /\ bitcount[d] \in 0 .. WORD - 1
    BY <1>1, CountedBits, Zenon DEF PInv, Words
  <2>3. wordcount[d] * WORD \in Int
    BY <2>2, Numbers
  <2>4. k = wordcount[d] * WORD + bitcount[d]
    BY <1>4 DEF Counted
  <2> QED
    BY <2>1, <2>2, <2>3, <2>4 DEF Counted
<1>6. k + 1 \in HOW_END .. SUBFRAME_BITS + HOW_END - 1
  <2>1. k \in 0 .. SUBFRAME_BITS - 1
    BY <1>1, <1>4, CountedBits DEF PInv
  <2>2. HOW_END >= 1
    BY Lengths, Numbers
  <2> QED
    BY <2>1, <2>2, Lengths
<1>7. sat_bits'[d] = (t * SUBFRAME_BITS + (k + 1) + Coming(d)') % BITS_IN_WEEK
  <2>1. Coming(d) = 1 /\ Coming(d)' = 0
    BY <1>2 DEF Coming
  <2>2. t * SUBFRAME_BITS + (k + 1) + 0 = t * SUBFRAME_BITS + k + 1
    <3>1. t * SUBFRAME_BITS \in Nat /\ k \in Nat
      BY HowInWeek, Lengths
    <3> DEFINE x == t * SUBFRAME_BITS
    <3> HIDE DEF x
    <3>2. x \in Nat => x + (k + 1) + 0 = x + k + 1
      BY <3>1
    <3> QED
      BY <3>1, <3>2 DEF x
  <2> QED
    BY <1>2, <1>4, <2>1, <2>2
<1>8. clean'[d] = BUFFER
  <2>1. clean'[d] = store_bit(d) /\ clean[d] = BUFFER /\ BUFFER \in Nat
    BY <1>1, <1>3, Numbers DEF HeardHow, BUFFER
  <2> QED
    BY <1>2, <2>1
<1>9. HeardHow(d, t)'
  BY <1>1, <1>3, <1>4, <1>5, <1>6, <1>7, <1>8 DEF HeardHow
<1> QED
  BY <1>2, <1>9 DEF PeaceInv

LEMMA StoreWordPeace ==
  ASSUME PInv, NEW d \in Ch, MessageBit(d), store_word(d, store_bit(d)), mishaps'[d] = 0
  PROVE  PeaceInv(d)'
<1> DEFINE i == subframe[d]
           w == wordcount[d]
           n == store_bit(d)
<1>1. /\ frame_sync[d] /\ bitcount[d] + 1 >= WORD
      /\ bitcount' = [bitcount EXCEPT ![d] = 0] /\ bitcount \in [Ch -> 0 .. WORD - 1]
      /\ wordcount' = [wordcount EXCEPT ![d] = w + 1] /\ wordcount \in [Ch -> 0 .. WORDS]
      /\ clean \in [Ch -> 0 .. BUFFER] /\ frame_sync \in [Ch -> BOOLEAN]
      /\ UNCHANGED <<subframe, mishaps>>
  BY Zenon DEF store_word, PInv, TypeOK, historyVars
<1>2. /\ mishaps[d] = 0 /\ Peaceful(d)' /\ seen'[d] /\ sat_bits' = sat_bits /\ ~seen[d]
      /\ n = IF clean[d] < BUFFER THEN clean[d] + 1 ELSE BUFFER
  BY <1>1, TakenPeace
<1>3. PICK t \in 0 .. TOWS - 1 : HeardHow(d, t)
  BY <1>1, <1>2, Zenon DEF PInv, PeaceInv, HeardNothing
<1>4. PICK k \in HOW_END .. SUBFRAME_BITS + HOW_END - 1 :
        /\ sat_bits[d] = (t * SUBFRAME_BITS + k + Coming(d)) % BITS_IN_WEEK
        /\ k = Counted(d) /\ i = t % SUBFRAMES
  BY <1>1, <1>3, Zenon DEF HeardHow
<1>5. w \in Words /\ bitcount[d] = WORD - 1 /\ w \in 0 .. WORDS - 1
  <2>1. w \in Words /\ bitcount[d] \in 0 .. WORD - 1
    BY <1>1, CountedBits, Zenon DEF PInv
  <2> QED
    BY <1>1, <2>1, Numbers DEF Words
<1>6. k + 1 = (w + 1) * WORD /\ (w + 1 < WORDS \/ k + 1 = SUBFRAME_BITS)
      /\ k \in 0 .. SUBFRAME_BITS - 1
  <2>1. k = w * WORD + (WORD - 1)
    BY <1>4, <1>5 DEF Counted
  <2>2. SUBFRAME_BITS = WORD * WORDS
    BY DEF SUBFRAME_BITS
  <2>3. k \in 0 .. SUBFRAME_BITS - 1
    BY <1>1, <1>4, CountedBits DEF PInv
  <2> HIDE DEF w
  <2>4. (w + 1) * WORD = w * WORD + WORD /\ w * WORD \in Int
    BY <1>5, Numbers
  <2>5. w + 1 = WORDS => (w + 1) * WORD = WORD * WORDS
    BY <1>5, Numbers
  <2> QED
    BY <1>5, <2>1, <2>2, <2>3, <2>4, <2>5, Numbers
<1>7. At(d, t * SUBFRAME_BITS + (k + 1))
  <2> DEFINE x == t * SUBFRAME_BITS
             week == BITS_IN_WEEK
  <2>1. x \in Nat /\ x + SUBFRAME_BITS <= week /\ week \in Nat /\ SUBFRAME_BITS \in Nat
    BY HowInWeek, Lengths
  <2>2. sat_bits[d] = (x + k + 1) % week
    BY <1>2, <1>4 DEF Coming
  <2>3. At(d, x + (k + 1)) <=> sat_bits[d] = IF x + (k + 1) = week THEN 0 ELSE x + (k + 1)
    BY DEF At
  <2>4. SUFFICES At(d, x + (k + 1))
    OBVIOUS
  <2> HIDE DEF x, week
  <2> DEFINE y == x + k + 1
  <2>5. y = x + (k + 1) /\ y \in 0 .. week /\ y >= 1
    BY <1>6, <2>1
  <2>6. sat_bits[d] = y % week
    BY <2>2
  <2> HIDE DEF y
  <2>7. y % week = IF y = week THEN 0 ELSE y
    BY <2>1, <2>5
  <2> QED
    BY <2>3, <2>5, <2>6, <2>7
<1>8. AtSomeWordEnd(d)
  <2>1. (t + 1) % TOWS \in 0 .. TOW_LIMIT - 1
    <3>1. (t + 1) % TOWS \in 0 .. TOWS - 1
      BY Numbers, Division
    <3> QED
      BY <3>1, Numbers
  <2>2. At(d, Start((t + 1) % TOWS) + (w + 1) * WORD)
    BY <1>6, <1>7, StartOfHow
  <2> QED
    BY <1>5, <2>1, <2>2, WordEnds DEF PInv
<1>9. n = BUFFER /\ ParityCheck(d, n)
  <2>1. clean[d] = BUFFER /\ BUFFER \in Nat /\ BUFFER >= WORD + 2
    BY <1>3, Numbers DEF HeardHow, BUFFER
  <2>2. n = BUFFER
    BY <1>2, <2>1
  <2> QED
    BY <1>8, <2>1, <2>2 DEF ParityCheck
<1>10. /\ sf' = [sf EXCEPT ![d][i] = Stored(d, sf[d][i], w)]
       /\ frame_sync' = [frame_sync EXCEPT ![d] = w + 1 < WORDS]
       /\ clean' = [clean EXCEPT ![d] = n]
  BY <1>9, Zenon DEF store_word
<1>11. sf'[d][i].TOW = sf[d][i].TOW
  <2>1. sf \in [Ch -> [0 .. SUBFRAMES - 1 -> Record]] /\ i \in 0 .. SUBFRAMES - 1
        /\ sf[d][i] \in Record
    BY SfTow, FrameTyped, Zenon DEF PInv, FrameType
  <2> DEFINE new == Stored(d, sf[d][i], w)
  <2>2. new.TOW = sf[d][i].TOW
    BY <2>1 DEF Stored, Record
  <2>3. sf' = [sf EXCEPT ![d][i] = new]
    BY <1>10
  <2> HIDE DEF i, w, new
  <2>4. sf'[d][i] = new
    BY <2>1, <2>3, Zenon
  <2> QED
    BY <2>2, <2>4
<1>12. /\ clean'[d] = BUFFER
       /\ frame_sync'[d] <=> w + 1 < WORDS
       /\ Counted(d)' = k + 1 /\ subframe'[d] = i
  <2>1. wordcount'[d] = w + 1 /\ bitcount'[d] = 0
    BY <1>1
  <2>2. Counted(d)' = (w + 1) * WORD + 0
    BY <2>1 DEF Counted
  <2>3. frame_sync'[d] <=> w + 1 < WORDS
    <3> DEFINE more == w + 1 < WORDS
    <3>1. frame_sync' = [frame_sync EXCEPT ![d] = more] /\ frame_sync \in [Ch -> BOOLEAN]
      BY <1>1, <1>10
    <3> HIDE DEF more
    <3>2. frame_sync'[d] = more
      BY <3>1, Zenon
    <3> QED
      BY <3>2 DEF more
  <2>4. clean'[d] = BUFFER
    BY <1>1, <1>9, <1>10
  <2>5. k + 1 \in Int
    OBVIOUS
  <2> QED
    BY <1>1, <1>6, <2>2, <2>3, <2>4, <2>5
<1>13. k + 1 \in HOW_END .. SUBFRAME_BITS + HOW_END - 1
  <2>1. HOW_END >= 1
    BY Lengths, Numbers
  <2> QED
    BY <1>6, <2>1, Lengths
<1>14. sat_bits'[d] = (t * SUBFRAME_BITS + (k + 1) + Coming(d)') % BITS_IN_WEEK
  <2>1. Coming(d) = 1 /\ Coming(d)' = 0
    BY <1>2 DEF Coming
  <2>2. t * SUBFRAME_BITS + (k + 1) + 0 = t * SUBFRAME_BITS + k + 1
    <3>1. t * SUBFRAME_BITS \in Nat /\ k \in Nat
      BY HowInWeek, Lengths
    <3> DEFINE x == t * SUBFRAME_BITS
    <3> HIDE DEF x
    <3>2. x \in Nat => x + (k + 1) + 0 = x + k + 1
      BY <3>1
    <3> QED
      BY <3>1, <3>2 DEF x
  <2> QED
    BY <1>2, <1>4, <2>1, <2>2
<1>15. IF frame_sync'[d] THEN k + 1 = Counted(d)' /\ subframe'[d] = t % SUBFRAMES
                         ELSE k + 1 >= SUBFRAME_BITS
  BY <1>4, <1>6, <1>12, Lengths
<1>16. sf'[d][t % SUBFRAMES].TOW = (t + 1) % TOWS
  BY <1>3, <1>4, <1>11 DEF HeardHow
<1>17. HeardHow(d, t)'
  BY <1>12, <1>13, <1>14, <1>15, <1>16 DEF HeardHow
<1> QED
  BY <1>2, <1>17 DEF PeaceInv

\* Where the satellite is when the thread, awaiting the next HOW, has taken a bit.
LEMMA Awaiting ==
  ASSUME PInv, NEW d \in Ch, MessageBit(d), ~frame_sync[d], mishaps[d] = 0,
         NEW t \in 0 .. TOWS - 1, HeardHow(d, t)
  PROVE  /\ store_bit(d) = BUFFER /\ clean[d] = BUFFER
         /\ sf[d][t % SUBFRAMES].TOW = (t + 1) % TOWS
         /\ \E j \in 1 .. HOW_END :
              /\ sat_bits[d] = ((t + 1) % TOWS) * SUBFRAME_BITS + j
              /\ sat_bits[d] = (t * SUBFRAME_BITS + (SUBFRAME_BITS + j) + 0) % BITS_IN_WEEK
<1>1. ~seen[d] /\ store_bit(d) = IF clean[d] < BUFFER THEN clean[d] + 1 ELSE BUFFER
  BY TakenPeace
<1>2. store_bit(d) = BUFFER
  <2>1. clean[d] = BUFFER /\ BUFFER \in Nat
    BY Numbers DEF HeardHow, BUFFER
  <2> QED
    BY <1>1, <2>1
<1>3. PICK k \in SUBFRAME_BITS .. SUBFRAME_BITS + HOW_END - 1 :
        sat_bits[d] = (t * SUBFRAME_BITS + k + 1) % BITS_IN_WEEK
  <2>1. PICK k \in HOW_END .. SUBFRAME_BITS + HOW_END - 1 :
          sat_bits[d] = (t * SUBFRAME_BITS + k + Coming(d)) % BITS_IN_WEEK
          /\ k >= SUBFRAME_BITS
    BY DEF HeardHow
  <2>2. k \in SUBFRAME_BITS .. SUBFRAME_BITS + HOW_END - 1
    BY <2>1, Lengths
  <2> QED
    BY <1>1, <2>1, <2>2 DEF Coming
<1> DEFINE j == k + 1 - SUBFRAME_BITS
           x == t * SUBFRAME_BITS
<1>4. j \in 1 .. HOW_END /\ j \in 0 .. SUBFRAME_BITS - 1 /\ k + 1 = SUBFRAME_BITS + j
      /\ k \in Nat
  BY Lengths
<1>5. x \in Nat
  BY HowInWeek
<1>6. (x + SUBFRAME_BITS + j) % BITS_IN_WEEK = ((t + 1) % TOWS) * SUBFRAME_BITS + j
  BY <1>4, NextSubframe
<1>7. sat_bits[d] = (x + k + 1) % BITS_IN_WEEK
  BY <1>3
<1> HIDE DEF j, x
<1>8. x + k + 1 = x + SUBFRAME_BITS + j /\ x + k + 1 = x + (SUBFRAME_BITS + j) + 0
  BY <1>4, <1>5, Lengths
<1>9. /\ sat_bits[d] = ((t + 1) % TOWS) * SUBFRAME_BITS + j
      /\ sat_bits[d] = (x + (SUBFRAME_BITS + j) + 0) % BITS_IN_WEEK
  BY <1>6, <1>7, <1>8
<1>10. clean[d] = BUFFER /\ sf[d][t % SUBFRAMES].TOW = (t + 1) % TOWS
  BY DEF HeardHow
<1> QED
  BY <1>2, <1>4, <1>9, <1>10 DEF x

LEMMA LookPeace ==
  ASSUME PInv, NEW d \in Ch, MessageBit(d), look_for_preamble(d, store_bit(d)), mishaps'[d] = 0
  PROVE  PeaceInv(d)'
<1> DEFINE n == store_bit(d)
<1>1. ~frame_sync[d]
  BY Zenon DEF look_for_preamble
<1>2. CASE \E t \in 0 .. TOWS - 1 :
             AtHow(d, t) /\ n = BUFFER /\ Found(d, n, t % SUBFRAMES, (t + 1) % TOWS, TRUE)
  <2>1. PICK t \in 0 .. TOWS - 1 :
             AtHow(d, t) /\ n = BUFFER /\ Found(d, n, t % SUBFRAMES, (t + 1) % TOWS, TRUE)
    BY <1>2
  <2>2. t % SUBFRAMES \in 0 .. SUBFRAMES - 1
    BY Numbers, Division
  <2> HIDE DEF n
  <2> QED
    BY <2>1, <2>2, FoundPeace
<1>3. CASE \E p \in Lookalikes : Found(d, n, p[2], p[3], FALSE)
  <2>1. PICK p \in Lookalikes : Found(d, n, p[2], p[3], FALSE)
    BY <1>3
  <2>2. p[2] \in 0 .. SUBFRAMES - 1
    BY MessageAssumption
  <2> HIDE DEF n
  <2> QED
    BY <2>1, <2>2, FoundPeace
<1>4. CASE /\ ~(AtAnyHow(d) /\ n = BUFFER)
           /\ clean' = [clean EXCEPT ![d] = n]
           /\ UNCHANGED <<frameVars, historyVars>>
  <2>1. /\ mishaps[d] = 0 /\ Peaceful(d)' /\ sat_bits' = sat_bits /\ Coming(d)' = 0
        /\ clean \in [Ch -> 0 .. BUFFER]
        /\ UNCHANGED <<frame_sync, sf, mishaps>>
    <3>1. UNCHANGED <<frame_sync, sf, mishaps>>
      BY <1>4, Zenon DEF frameVars, historyVars
    <3> QED
      BY <3>1, TakenPeace DEF PInv, TypeOK
  <2>2. CASE HeardNothing(d)
    BY <2>1, <2>2 DEF HeardNothing, PeaceInv
  <2>3. ASSUME NEW t \in 0 .. TOWS - 1, HeardHow(d, t) PROVE HeardHow(d, t)'
    <3>1. n = BUFFER /\ sf[d][t % SUBFRAMES].TOW = (t + 1) % TOWS
      BY <1>1, <2>1, <2>3, Awaiting
    <3>2. PICK j \in 1 .. HOW_END :
              /\ sat_bits[d] = ((t + 1) % TOWS) * SUBFRAME_BITS + j
              /\ sat_bits[d] = (t * SUBFRAME_BITS + (SUBFRAME_BITS + j) + 0) % BITS_IN_WEEK
      BY <1>1, <2>1, <2>3, Awaiting
    <3>3. j # HOW_END
      <4>1. (t + 1) % TOWS \in 0 .. TOWS - 1
        BY Numbers, Division
      <4>2. j = HOW_END => AtAnyHow(d)
        BY <3>2, <4>1 DEF AtAnyHow, AtHow
      <4> QED
        BY <1>4, <3>1, <4>2
    <3>4. SUBFRAME_BITS + j \in HOW_END .. SUBFRAME_BITS + HOW_END - 1
          /\ SUBFRAME_BITS + j >= SUBFRAME_BITS
      BY <3>3, Lengths
    <3>5. clean'[d] = BUFFER
      BY <1>4, <2>1, <3>1
    <3>6. /\ ~frame_sync'[d] /\ sf'[d][t % SUBFRAMES].TOW = (t + 1) % TOWS
          /\ sat_bits'[d] = (t * SUBFRAME_BITS + (SUBFRAME_BITS + j) + Coming(d)')
                              % BITS_IN_WEEK
      BY <1>1, <2>1, <3>1, <3>2
    <3> QED
      BY <3>4, <3>5, <3>6 DEF HeardHow
  <2> QED
    BY <2>1, <2>2, <2>3, Zenon DEF PInv, PeaceInv
<1> QED
  BY <1>2, <1>3, <1>4, Zenon DEF look_for_preamble

LEMMA PeaceInductive == Spec => []PInv
<1>1. Init => PInv
  <2> SUFFICES ASSUME Init, NEW c \in Ch PROVE DueInv(c) /\ PeaceInv(c)
    BY InitType DEF PInv, Init
  <2> QED
    BY DEF Init, DueInv, Twice, Due, PeaceInv, Peaceful, HeardNothing
<1>2. PInv /\ [Next]_vars => PInv'
  <2> SUFFICES ASSUME PInv, [Next]_vars PROVE PInv'
    OBVIOUS
  <2>1. TypeOK' /\ (pc' = "wait" => todo' = {})
    BY StepType, WaitEmpty DEF PInv
  <2>2. ASSUME NEW d \in Ch PROVE DueInv(d)'
    BY DueStep DEF PInv
  <2>3. ASSUME NEW d \in Ch PROVE PeaceInv(d)'
    <3>1. CASE Bit(d) \/ Restart(d)
      BY <3>1, BitPeace, RestartPeace
    <3>2. CASE MessageBit(d)
      <4>1. SUFFICES ASSUME mishaps'[d] = 0 PROVE PeaceInv(d)'
        BY Zenon DEF PeaceInv
      <4> QED
        BY <3>2, <4>1, LookPeace, InsideWordPeace, StoreWordPeace, Zenon DEF MessageBit
    <3>3. CASE ~(Bit(d) \/ Restart(d) \/ MessageBit(d))
      <4>1. Kept(d)
        BY <3>3, StepElsewhere, Zenon DEF PInv, Next, MessageThread
      <4> QED
        BY <4>1, KeptPeace DEF PInv
    <3> QED
      BY <3>1, <3>2, <3>3
  <2> QED
    BY <2>1, <2>2, <2>3 DEF PInv
<1> QED
  BY <1>1, <1>2, PTL DEF Spec

\* The HOW that comes after another names its successor, but in the last subframe.
LEMMA NextFollows ==
  ASSUME PInv, NEW d \in Ch, MessageBit(d), ~frame_sync[d], mishaps[d] = 0,
         NEW t \in 0 .. TOWS - 1, AtHow(d, t), ~Follows(d, t % SUBFRAMES, (t + 1) % TOWS)
  PROVE  t = TOWS - 1
<1>1. t % SUBFRAMES \in 0 .. SUBFRAMES - 1
  BY PreviousSubframe
<1>2. CASE HeardNothing(d)
  <2>1. Previous(t % SUBFRAMES) \in 0 .. SUBFRAMES - 1
    BY <1>1, Numbers DEF Previous
  <2>2. sf[d][Previous(t % SUBFRAMES)] = Empty
    BY <1>2, <2>1 DEF HeardNothing
  <2>3. ~Confirmed(d, t % SUBFRAMES)
    BY <2>2 DEF Confirmed, Empty
  <2> QED
    BY <2>3 DEF Follows
<1>3. ASSUME NEW u \in 0 .. TOWS - 1, HeardHow(d, u) PROVE t = TOWS - 1
  <2>1. PICK j \in 1 .. HOW_END : sat_bits[d] = ((u + 1) % TOWS) * SUBFRAME_BITS + j
    BY <1>3, Awaiting
  <2>2. /\ j \in 0 .. SUBFRAME_BITS - 1
        /\ (u + 1) % TOWS \in 0 .. TOWS - 1
    <3>1. j \in 0 .. SUBFRAME_BITS - 1
      BY Lengths
    <3> QED
      BY <3>1, NextSubframe
  <2>3. t * SUBFRAME_BITS + HOW_END = ((u + 1) % TOWS) * SUBFRAME_BITS + j
    BY <2>1 DEF AtHow
  <2>4. t = (u + 1) % TOWS
    BY <2>2, <2>3, OneHow
  <2>5. Previous(t % SUBFRAMES) = u % SUBFRAMES
    BY <2>4, PreviousSubframe
  <2>6. sf[d][Previous(t % SUBFRAMES)].TOW = t
    BY <1>3, <2>4, <2>5 DEF HeardHow
  <2>7. (t + 1) % TOWS # t + 1
    BY <2>6 DEF Follows
  <2> QED
    BY <2>7, Numbers
<1> QED
  BY <1>2, <1>3 DEF PInv, PeaceInv

\* message.c:291: for any week, and whatever passes for a HOW: a channel that keeps
\* its satellite, and whose bits came right and in time since its message was cleared,
\* gives its message and its time up by a HOW of it only in the last subframe.
THEOREM KilledOnlyUnsyncedCorrect == Spec => KilledOnlyUnsynced
<1>1. ASSUME PInv, [Next]_vars, NEW c \in Ch,
             set_ch_time[c], ~set_ch_time'[c], locked[c], AtAnyHow(c)
      PROVE  mishaps[c] > 0 \/ AtHow(c, TOWS - 1)
  <2>1. MessageBit(c)
    <3>1. ~Kept(c)
      BY <1>1 DEF Kept, FrameKept
    <3>2. Bit(c) \/ Restart(c) \/ MessageBit(c)
      BY <1>1, <3>1, StepElsewhere, Zenon DEF PInv, Next, MessageThread
    <3>3. ~Bit(c)
      BY <1>1, Zenon DEF Bit, frameVars
    <3>4. ~Restart(c)
      BY <1>1, Zenon DEF Restart
    <3> QED
      BY <3>2, <3>3, <3>4
  <2> DEFINE n == store_bit(c)
  <2>2. look_for_preamble(c, n)
    <3>1. ~InsideWord(c, n) /\ ~store_word(c, n)
      BY <1>1, Zenon DEF InsideWord, store_word
    <3> QED
      BY <2>1, <3>1, Zenon DEF MessageBit
  <2>3. PICK t \in 0 .. TOWS - 1 :
          AtHow(c, t) /\ Found(c, n, t % SUBFRAMES, (t + 1) % TOWS, TRUE)
    BY <1>1, <2>2, Zenon DEF look_for_preamble, frameVars
  <2>4. ~Follows(c, t % SUBFRAMES, (t + 1) % TOWS)
    <3>1. set_ch_time \in [Ch -> BOOLEAN]
      BY <1>1, Zenon DEF PInv, TypeOK
    <3>2. Follows(c, t % SUBFRAMES, (t + 1) % TOWS)
            => \/ set_ch_time' = [set_ch_time EXCEPT ![c] = TRUE]
               \/ UNCHANGED set_ch_time
      BY <2>3, Zenon DEF Found
    <3> QED
      BY <1>1, <3>1, <3>2
  <2>5. mishaps[c] \in 0 .. MAX_MISHAPS /\ ~frame_sync[c]
    BY <1>1, <2>2, Zenon DEF PInv, TypeOK, look_for_preamble
  <2>6. mishaps[c] = 0 => t = TOWS - 1
    BY <1>1, <2>1, <2>3, <2>4, <2>5, NextFollows
  <2> QED
    BY <2>3, <2>5, <2>6, Numbers
<1>2. PInv /\ [Next]_vars =>
        [\A c \in Ch : set_ch_time[c] /\ ~set_ch_time'[c] /\ locked[c] /\ AtAnyHow(c)
           => mishaps[c] > 0 \/ AtHow(c, TOWS - 1)]_vars
  BY <1>1
<1> QED
  BY <1>2, PeaceInductive, PTL DEF Spec, KilledOnlyUnsynced
=============================================================================
