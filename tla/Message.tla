------------------------------- MODULE Message -------------------------------
(***************************************************************************)
(* The navigation message: the message thread (message.c) puts the bits    *)
(* the tracking DSR delivers together to words and subframes, finds the    *)
(* time of week in them and sets the channel's time_in_bits and its 20 ms  *)
(* epoch counter by it, which the DSR goes on counting (tracking.c).       *)
(*                                                                         *)
(* The DSR interrupts the message thread at any step.  A bit is what the   *)
(* satellite has sent last; of the buffers wordbuf0 and wordbuf1 the model *)
(* keeps how many of their last bits are consecutive bits of the message.  *)
(* The parity check is taken to find every error, and to be indifferent to *)
(* the polarity of the bits, as that of GPS is.                            *)
(***************************************************************************)
EXTENDS Naturals

CONSTANTS
  N_CHANNELS,
  WORD,            \* bits in a word: 30
  WORDS,           \* words in a subframe: 10
  SUBFRAMES,       \* subframes in a frame: 5
  TOWS,            \* subframes in a week: 100800
  TOW_LIMIT,       \* what the field for the time of week can hold: 2^17
  EPOCHS,          \* modulus of the 20 ms epoch counter: 50
  MAX_BAD_PARITY,  \* 5
  MAX_MISHAPS,     \* bound: wrong bits, late bits and false preambles of a channel,
                   \* until its message is cleared
  Lookalikes,      \* data that pass for TLM and HOW: where in the subframe they
                   \* end, the subframe and the TOW they name
  Starts           \* sat_bits and epoch_20ms when a channel may come to lock

Ch            == 0 .. N_CHANNELS - 1
SUBFRAME_BITS == WORD * WORDS
BITS_IN_WEEK  == SUBFRAME_BITS * TOWS
HOW_END       == 2 * WORD          \* bits of a subframe up to the end of the HOW
BUFFER        == 2 * WORD + 2      \* bits in wordbuf1 and wordbuf0

ASSUME MessageAssumption ==
  /\ N_CHANNELS \in Nat \ {0}
  /\ WORD \in Nat \ {0, 1} /\ WORDS \in Nat \ {0, 1, 2}
  /\ SUBFRAMES \in Nat \ {0, 1} /\ TOWS \in Nat \ {0}
  /\ TOWS % SUBFRAMES = 0
  /\ TOW_LIMIT \in Nat /\ TOW_LIMIT > TOWS
  /\ EPOCHS \in Nat \ {0} /\ SUBFRAME_BITS % EPOCHS = 0
  /\ MAX_BAD_PARITY \in Nat /\ MAX_MISHAPS \in Nat \ {0}
  /\ Lookalikes \subseteq (0 .. SUBFRAME_BITS - 1) \X (0 .. SUBFRAMES - 1)
                            \X (0 .. TOW_LIMIT - 1)
  /\ Starts \subseteq (0 .. BITS_IN_WEEK - 1) \X (0 .. EPOCHS - 1)

VARIABLES
  locked,                   \* CH[ch].state is CHANNEL_LOCK
  sat_bits,                 \* bits the satellite has sent since the week began
  time_in_bits,
  sync_20ms, epoch_20ms,    \* sync_20ms_epoch_count, and the counter itself
  message_flag,
  noise,                    \* is CH[ch].bit wrong?
  seen, lost,               \* history: has the thread read CH[ch].bit, and was a bit
                            \* before it never read?
  clean,                    \* the consecutive bits
  frame_sync, subframe, bitcount, wordcount, set_ch_time,
  sf,                       \* with right, history: the words stored in valid that
                            \* are the words of the subframe before TOW
  real_sync,                \* history: frame_sync is due to a real TLM and HOW
  bad_parity_count,
  pc, todo,                 \* the message thread; channels_with_bits left
                            \* history, since the message was cleared:
  late,                     \* did a bit come before the last was dealt with?
  fooled,                   \* did what is no HOW have the TOW expected?
  mishaps                   \* how many wrong and late bits and false preambles

dsrVars    == <<locked, sat_bits>>
epochVars  == <<sync_20ms, epoch_20ms>>
bitVars    == <<noise, seen, lost>>
frameVars  == <<frame_sync, subframe, bitcount, wordcount, set_ch_time, sf, real_sync>>
threadVars == <<pc, todo>>
historyVars == <<late, fooled, mishaps>>
vars == <<dsrVars, time_in_bits, epochVars, message_flag, bitVars, clean,
          frameVars, bad_parity_count, threadVars, historyVars>>

Words == 0 .. WORDS - 1
Empty == [TOW |-> 0, valid |-> {}, right |-> {}]

TypeOK ==
  /\ locked \in [Ch -> BOOLEAN]
  /\ sat_bits \in [Ch -> 0 .. BITS_IN_WEEK - 1]
  /\ time_in_bits \in [Ch -> 0 .. TOW_LIMIT * SUBFRAME_BITS]
  /\ sync_20ms \in [Ch -> BOOLEAN] /\ epoch_20ms \in [Ch -> 0 .. EPOCHS - 1]
  /\ message_flag \in SUBSET Ch
  /\ seen \in [Ch -> BOOLEAN] /\ lost \in [Ch -> BOOLEAN]
  /\ clean \in [Ch -> 0 .. BUFFER] /\ noise \in [Ch -> BOOLEAN]
  /\ frame_sync \in [Ch -> BOOLEAN] /\ real_sync \in [Ch -> BOOLEAN]
  /\ subframe \in [Ch -> 0 .. SUBFRAMES - 1]
  /\ bitcount \in [Ch -> 0 .. WORD - 1] /\ wordcount \in [Ch -> 0 .. WORDS]
  /\ \A c \in Ch : frame_sync[c] => wordcount[c] \in Words
  /\ set_ch_time \in [Ch -> BOOLEAN]
  /\ sf \in [Ch -> [0 .. SUBFRAMES - 1 ->
       [TOW : 0 .. TOW_LIMIT - 1, valid : SUBSET Words, right : SUBSET Words]]]
  /\ bad_parity_count \in 0 .. MAX_BAD_PARITY
  /\ pc \in {"wait", "bits", "time", "sync"} /\ todo \in SUBSET Ch
  /\ late \in [Ch -> BOOLEAN] /\ fooled \in [Ch -> BOOLEAN]
  /\ mishaps \in [Ch -> 0 .. MAX_MISHAPS]

\* After boot: nothing is locked, the structures are zero.
Init ==
  /\ locked = [c \in Ch |-> FALSE] /\ sat_bits = [c \in Ch |-> 0]
  /\ time_in_bits = [c \in Ch |-> 0]
  /\ sync_20ms = [c \in Ch |-> FALSE] /\ epoch_20ms = [c \in Ch |-> 0]
  /\ message_flag = {}
  /\ seen = [c \in Ch |-> TRUE] /\ lost = [c \in Ch |-> FALSE]
  /\ clean = [c \in Ch |-> 0] /\ noise = [c \in Ch |-> FALSE]
  /\ frame_sync = [c \in Ch |-> FALSE] /\ real_sync = [c \in Ch |-> FALSE]
  /\ subframe = [c \in Ch |-> 0]
  /\ bitcount = [c \in Ch |-> 0] /\ wordcount = [c \in Ch |-> 0]
  /\ set_ch_time = [c \in Ch |-> FALSE]
  /\ sf = [c \in Ch |-> [i \in 0 .. SUBFRAMES - 1 |-> Empty]]
  /\ bad_parity_count = 0
  /\ pc = "wait" /\ todo = {}
  /\ late = [c \in Ch |-> FALSE] /\ fooled = [c \in Ch |-> FALSE]
  /\ mishaps = [c \in Ch |-> 0]

\* The thread goes through the channels in ascending order.
Turn(c) == c \in todo /\ \A d \in todo : c <= d

\* It is setting the channel's time.
SettingTime(c) == pc \in {"time", "sync"} /\ Turn(c)

\* Nothing has gone wrong on the channel yet; or its last bit, which came while the
\* thread was at work, is going to be taken twice.
Unblemished(c) == /\ late' = [late EXCEPT ![c] = FALSE]
                  /\ fooled' = [fooled EXCEPT ![c] = FALSE]
                  /\ mishaps' = [mishaps EXCEPT ![c] = IF c \in message_flag THEN 1 ELSE 0]

Mishap(c) == mishaps[c] < MAX_MISHAPS /\ mishaps' = [mishaps EXCEPT ![c] = @ + 1]

\* The channel's last bit is not yet dealt with.
Busy(c) == ~seen[c] \/ SettingTime(c)

-----------------------------------------------------------------------------
(* The tracking DSR.                                                       *)

\* Mutant: the bit time runs on at the end of the week.
NoWrap(time) == time + 1

\* lock() counts the bit; a time that garbage put beyond the week comes back.
NextBitTime(time) == IF time + 1 >= BITS_IN_WEEK THEN time + 1 - BITS_IN_WEEK
                                                 ELSE time + 1

\* Mutant: the bit that is being received is counted already.
LoadNext == (HOW_END + 1) % EPOCHS

EpochLoad == HOW_END % EPOCHS

\* The dump that ends a bit; the satellite may be lost with it.  A request to set
\* the epoch counter that is still there is served first, a millisecond before the
\* counter goes on to the next bit.
Bit(c) ==
  /\ locked[c]
  /\ locked' \in {locked, [locked EXCEPT ![c] = FALSE]}
  /\ sat_bits' = [sat_bits EXCEPT ![c] = (@ + 1) % BITS_IN_WEEK]
  /\ time_in_bits' = [time_in_bits EXCEPT ![c] = NextBitTime(@)]
  /\ epoch_20ms' = [epoch_20ms EXCEPT ![c] =
                      ((IF sync_20ms[c] THEN EpochLoad ELSE @) + 1) % EPOCHS]
  /\ sync_20ms' = [sync_20ms EXCEPT ![c] = FALSE]
  /\ message_flag' = message_flag \cup {c}
  /\ lost' = [lost EXCEPT ![c] = @ \/ ~seen[c]]
  /\ seen' = [seen EXCEPT ![c] = FALSE]
  /\ \E wrong \in BOOLEAN :
       /\ noise' = [noise EXCEPT ![c] = wrong]
       /\ IF wrong \/ Busy(c) THEN Mishap(c) ELSE UNCHANGED mishaps
  /\ late' = [late EXCEPT ![c] = @ \/ Busy(c)]
  /\ UNCHANGED <<clean, frameVars, bad_parity_count, threadVars, fooled>>

\* Any other dump.
Dump(c) ==
  /\ sync_20ms[c]
  /\ epoch_20ms' = [epoch_20ms EXCEPT ![c] = EpochLoad]
  /\ sync_20ms' = [sync_20ms EXCEPT ![c] = FALSE]
  /\ UNCHANGED <<dsrVars, time_in_bits, message_flag, bitVars, clean,
                 frameVars, bad_parity_count, threadVars, historyVars>>

\* The allocate thread restarts the channel, which then comes to lock.  It runs
\* only while the message thread waits.
Restart(c) ==
  /\ ~locked[c] /\ pc = "wait" /\ message_flag = {}
  /\ locked' = [locked EXCEPT ![c] = TRUE]
  /\ \E s \in Starts : /\ sat_bits' = [sat_bits EXCEPT ![c] = s[1]]
                       /\ epoch_20ms' = [epoch_20ms EXCEPT ![c] = s[2]]
  /\ time_in_bits' = [time_in_bits EXCEPT ![c] = 0]
  /\ sync_20ms' = [sync_20ms EXCEPT ![c] = FALSE]
  /\ frame_sync' = [frame_sync EXCEPT ![c] = FALSE]
  /\ real_sync' = [real_sync EXCEPT ![c] = FALSE]
  /\ subframe' = [subframe EXCEPT ![c] = 0]
  /\ set_ch_time' = [set_ch_time EXCEPT ![c] = FALSE]
  /\ sf' = [sf EXCEPT ![c] = [i \in 0 .. SUBFRAMES - 1 |-> Empty]]
  /\ clean' = [clean EXCEPT ![c] = 0]
  /\ lost' = [lost EXCEPT ![c] = FALSE] /\ seen' = [seen EXCEPT ![c] = TRUE]
  /\ Unblemished(c)
  /\ UNCHANGED <<message_flag, noise, bitcount, wordcount, bad_parity_count, threadVars>>

-----------------------------------------------------------------------------
(* The message thread.                                                     *)

MessageWake ==
  /\ pc = "wait" /\ message_flag # {}
  /\ pc' = "bits" /\ todo' = message_flag /\ message_flag' = {}
  /\ UNCHANGED <<dsrVars, time_in_bits, epochVars, bitVars, clean, frameVars,
                 bad_parity_count, historyVars>>

\* On to the next channel with a bit, or to sleep.
Continue(c) ==
  /\ todo' = todo \ {c}
  /\ pc' = IF todo' = {} THEN "wait" ELSE "bits"

\* How many bits in the buffers belong together after store_bit.
store_bit(c) == IF noise[c] THEN 0 ELSE IF lost[c] \/ seen[c] THEN 1
                ELSE IF clean[c] < BUFFER THEN clean[c] + 1 ELSE BUFFER

\* The satellite is at the end of the HOW of subframe t of the week.
AtHow(c, t) == sat_bits[c] = t * SUBFRAME_BITS + HOW_END

AtAnyHow(c) == \E t \in 0 .. TOWS - 1 : AtHow(c, t)

\* Word w of the subframe before tow ends at this bit.
AtWordEnd(c, tow, w) ==
  sat_bits[c] = (((tow + TOWS - 1) % TOWS) * SUBFRAME_BITS + (w + 1) * WORD)
                  % BITS_IN_WEEK

\* Any word ends at this bit.
AtSomeWordEnd(c) == sat_bits[c] % WORD = 0

\* Mutant: the subframe before the first is the first.
NotLast(i) == IF i > 0 THEN i - 1 ELSE 0

Previous(i) == IF i > 0 THEN i - 1 ELSE SUBFRAMES - 1

\* Mutant: a subframe is recorded with the words it had a frame ago still valid.
KeptWords(c, i) == sf[c][i].valid \cup {0, 1}

FirstWords(c, i) == {0, 1}

\* The previous subframe has a valid TLM and HOW.
Confirmed(c, i) == sf[c][Previous(i)].valid \cap {0, 1} # {}

Expected(c, i, tow) == Confirmed(c, i) /\ tow = sf[c][Previous(i)].TOW + 1

\* Mutant: any TOW will do.
AnyTow(c, i, tow) == TRUE

\* Mutant: the TOW is taken for that of the subframe it is in.
SameTow(c, i, tow) == Confirmed(c, i) => tow = sf[c][Previous(i)].TOW

\* The TOW is one more than that of the previous subframe, if that is valid.
Follows(c, i, tow) == Confirmed(c, i) => tow = sf[c][Previous(i)].TOW + 1

\* The words at the end of the buffers pass for TLM and HOW, which say subframe i
\* and tow.  When its bits came inverted, wordbuf0 is complemented, and does not fit
\* the bits that follow if the frame is given up.
Found(c, n, i, tow, real) ==
  /\ wordcount' = [wordcount EXCEPT ![c] = 2]
  /\ \/ /\ Follows(c, i, tow)
        /\ frame_sync' = [frame_sync EXCEPT ![c] = TRUE]
        /\ real_sync' = [real_sync EXCEPT ![c] = real]
        /\ subframe' = [subframe EXCEPT ![c] = i]
        /\ bitcount' = [bitcount EXCEPT ![c] = 0]
        /\ sf' = [sf EXCEPT ![c][i] =
                    [TOW |-> tow, valid |-> FirstWords(c, i),
                     right |-> IF real THEN {0, 1} ELSE {}]]
        /\ clean' = [clean EXCEPT ![c] = n]
        /\ fooled' = [fooled EXCEPT ![c] = @ \/ (~real /\ Expected(c, i, tow))]
        /\ IF real THEN UNCHANGED mishaps ELSE Mishap(c)
        /\ UNCHANGED late
        /\ \/ /\ Confirmed(c, i) /\ ~set_ch_time[c]
              /\ set_ch_time' = [set_ch_time EXCEPT ![c] = TRUE]
              /\ pc' = "time" /\ UNCHANGED todo
           \/ /\ ~Confirmed(c, i) \/ set_ch_time[c]
              /\ UNCHANGED set_ch_time
              /\ Continue(c)
     \/ /\ ~Follows(c, i, tow)      \* clear_messages
        /\ frame_sync' = [frame_sync EXCEPT ![c] = FALSE]
        /\ subframe' = [subframe EXCEPT ![c] = 0]
        /\ set_ch_time' = [set_ch_time EXCEPT ![c] = FALSE]
        /\ sf' = [sf EXCEPT ![c] = [s \in 0 .. SUBFRAMES - 1 |-> Empty]]
        /\ \E kept \in {0, n} : clean' = [clean EXCEPT ![c] = kept]
        /\ Unblemished(c)
        /\ UNCHANGED <<real_sync, bitcount>>
        /\ Continue(c)

\* look_for_preamble; bits that only look like a TLM and a HOW may pass for them.
look_for_preamble(c, n) ==
  /\ ~frame_sync[c]
  /\ \/ \E t \in 0 .. TOWS - 1 :
          /\ AtHow(c, t) /\ n = BUFFER
          /\ Found(c, n, t % SUBFRAMES, (t + 1) % TOWS, TRUE)
     \/ /\ ~AtAnyHow(c)
        /\ \E p \in Lookalikes : /\ sat_bits[c] % SUBFRAME_BITS = p[1]
                               /\ Found(c, n, p[2], p[3], FALSE)
     \/ /\ ~(AtAnyHow(c) /\ n = BUFFER)
        /\ clean' = [clean EXCEPT ![c] = n]
        /\ Continue(c)
        /\ UNCHANGED <<frameVars, historyVars>>
  /\ UNCHANGED bad_parity_count

\* A bit inside a word.
InsideWord(c, n) ==
  /\ frame_sync[c] /\ bitcount[c] + 1 < WORD
  /\ bitcount' = [bitcount EXCEPT ![c] = @ + 1]
  /\ clean' = [clean EXCEPT ![c] = n]
  /\ Continue(c)
  /\ UNCHANGED <<frame_sync, real_sync, subframe, wordcount, set_ch_time, sf,
                 bad_parity_count, historyVars>>

ParityCheck(c, n) == n >= WORD + 2 /\ AtSomeWordEnd(c)

\* Word w is stored in a subframe.
Stored(c, s, w) ==
  [s EXCEPT !.valid = @ \cup {w},
            !.right = IF AtWordEnd(c, s.TOW, w) THEN @ \cup {w} ELSE @ \ {w}]

\* The last bit of a word: store_word, and the end of the subframe after its last.
store_word(c, n) ==
  LET i == subframe[c]  w == wordcount[c] IN
  /\ frame_sync[c] /\ bitcount[c] + 1 >= WORD
  /\ bitcount' = [bitcount EXCEPT ![c] = 0]
  /\ wordcount' = [wordcount EXCEPT ![c] = w + 1]
  /\ \/ /\ ParityCheck(c, n)
        /\ sf' = [sf EXCEPT ![c][i] = Stored(c, @, w)]
        /\ bad_parity_count' = 0
        /\ frame_sync' = [frame_sync EXCEPT ![c] = w + 1 < WORDS]
        /\ clean' = [clean EXCEPT ![c] = n]
     \/ /\ ~ParityCheck(c, n)
        /\ \/ /\ bad_parity_count < MAX_BAD_PARITY
              /\ bad_parity_count' = bad_parity_count + 1
              /\ frame_sync' = [frame_sync EXCEPT ![c] = w + 1 < WORDS]
              /\ clean' = [clean EXCEPT ![c] = n]
           \/ /\ bad_parity_count >= MAX_BAD_PARITY
              /\ bad_parity_count' = 0
              /\ frame_sync' = [frame_sync EXCEPT ![c] = FALSE]
              /\ \E kept \in {0, n} : clean' = [clean EXCEPT ![c] = kept]
        /\ UNCHANGED sf
  /\ Continue(c)
  /\ UNCHANGED <<real_sync, subframe, set_ch_time, historyVars>>

\* A channel's bit.
MessageBit(c) ==
  /\ pc = "bits" /\ Turn(c)
  /\ LET n == store_bit(c) IN
       look_for_preamble(c, n) \/ InsideWord(c, n) \/ store_word(c, n)
  /\ UNCHANGED noise
  /\ seen' = [seen EXCEPT ![c] = TRUE] /\ lost' = [lost EXCEPT ![c] = FALSE]
  /\ UNCHANGED <<dsrVars, time_in_bits, epochVars, message_flag>>

\* The time of the HOW, whose TOW is that of the subframe after it.
TimeOf(tow) == IF tow # 0 THEN tow * SUBFRAME_BITS - (SUBFRAME_BITS - HOW_END)
                          ELSE BITS_IN_WEEK - (SUBFRAME_BITS - HOW_END)

\* After set_ch_time the thread sets time_in_bits ...
MessageTime(c) ==
  /\ pc = "time" /\ Turn(c)
  /\ time_in_bits' = [time_in_bits EXCEPT ![c] = TimeOf(sf[c][subframe[c]].TOW)]
  /\ pc' = "sync"
  /\ UNCHANGED <<dsrVars, epochVars, message_flag, bitVars, clean, frameVars,
                 bad_parity_count, todo, historyVars>>

\* ... and asks the DSR to set the epoch counter.
MessageSync(c) ==
  /\ pc = "sync" /\ Turn(c)
  /\ sync_20ms' = [sync_20ms EXCEPT ![c] = TRUE]
  /\ Continue(c)
  /\ UNCHANGED <<dsrVars, time_in_bits, epoch_20ms, message_flag, bitVars,
                 clean, frameVars, bad_parity_count, historyVars>>

-----------------------------------------------------------------------------
MessageThread ==
  MessageWake \/ \E c \in Ch : MessageBit(c) \/ MessageTime(c) \/ MessageSync(c)

Next == \/ MessageThread
        \/ \E c \in Ch : Bit(c) \/ Dump(c) \/ Restart(c)

Spec == Init /\ [][Next]_vars

\* The DSR comes every 505 us, the allocate thread restarts what is off, and the
\* message thread is the highest but one.
FairSpec ==
  /\ Spec
  /\ WF_vars(MessageThread)
  /\ \A c \in Ch : WF_vars(Bit(c)) /\ WF_vars(Restart(c))

-----------------------------------------------------------------------------
(* Properties.                                                             *)

\* measure_thread takes a channel in lock whose time bits are set, it believes.
Measurable(c) == locked[c] /\ set_ch_time[c]

Trusted(c) == Measurable(c) /\ ~late[c] /\ ~fooled[c]

\* message.c:307-313, "we can calculate the gps time in bit-counts": once the
\* thread is through with a pair of HOWs, time_in_bits is the satellite's time,
\* over the end of the week and whatever false preambles, lost frames and wrong
\* bits there were, unless the thread was late or a false one had the TOW expected.
TimeRight ==
  \A c \in Ch : Trusted(c) /\ ~SettingTime(c) => time_in_bits[c] = sat_bits[c]

\* message.c:326-330: and the 20 ms epoch counter counts the same bits.
EpochRight ==
  \A c \in Ch : Trusted(c) /\ ~SettingTime(c) /\ ~sync_20ms[c]
    => epoch_20ms[c] = sat_bits[c] % EPOCHS

\* message.c:431, "Only send along complete, error free subframes": the words of
\* the subframe being received, and of the one just received and sent along, are those
\* the satellite has sent in it, none from another subframe, channel or time.
WordsRight ==
  \A c \in Ch : real_sync[c] /\ ~late[c]
    => sf[c][subframe[c]].valid = sf[c][subframe[c]].right

\* Noise, lost bits, false preambles or the loss of the satellite.
Trouble(c) == ~locked[c] \/ noise[c] \/ lost[c] \/ (frame_sync[c] /\ ~real_sync[c])

\* A channel that is left in peace finds the time, even though each week's end
\* takes it away.
TimeReturns == \A c \in Ch : []<>Trouble(c) \/ []<>Measurable(c)

\* message.c:291, "We're not actually synced. Kill everything": a channel whose
\* bits all came right and in time does not lose its messages and its time by the HOW
\* its satellite sends; but for the last of a week, whose TOW of 0 never follows (288).
KilledOnlyUnsynced ==
  [][\A c \in Ch : set_ch_time[c] /\ ~set_ch_time'[c] /\ locked[c] /\ AtAnyHow(c)
       => mishaps[c] > 0 \/ AtHow(c, TOWS - 1)]_vars

\* measure.c:81, "4) we've set the channel's time bits, THEN grab the measurement
\* data": a channel the measure thread takes has its time.
MeasuredTimeSet ==
  \A c \in Ch : Trusted(c) => time_in_bits[c] = sat_bits[c]
=============================================================================
