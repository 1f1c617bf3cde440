----------------------------- MODULE Acquisition -----------------------------
(***************************************************************************)
(* One correlator channel under the tracking DSR (tracking.c): the search  *)
(* over code phases and carrier bins, the confirmation of a peak, pull-in  *)
(* with the search for the edges of the data bits, and lock, which         *)
(* delivers the bits of the navigation message.                            *)
(*                                                                         *)
(* A step is one dump of the channel, a millisecond.  What the correlators *)
(* measured is nondeterministic: whether the magnitudes pass a threshold,  *)
(* and q, the sign of q_prompt + q_dither.  The loops that steer the code  *)
(* and carrier DCOs in pull-in and lock are left out.                      *)
(***************************************************************************)
EXTENDS Integers, FiniteSets

CONSTANTS
  CODE_LENGTH,    \* half chips in the C/A code: 2046
  CODE_PHASES,    \* half chips searched in a carrier bin: 2044
  CarrSrchWidth,  \* 40
  N_CONFIRM,      \* 10
  M_HITS,         \* 8
  MS_PER_BIT,     \* 20
  PullInTime,     \* 1000
  AVG_BITS,       \* bits between checks of the signal strength: 5
  BITS_IN_WEEK

ASSUME AcquisitionAssumption ==
  /\ CODE_LENGTH \in Nat \ {0} /\ CODE_PHASES \in 1 .. CODE_LENGTH
  /\ CarrSrchWidth \in Nat \ {0} /\ CarrSrchWidth % 2 = 0  \* half on either side
  /\ N_CONFIRM \in Nat /\ M_HITS \in Nat
  /\ MS_PER_BIT \in Nat \ {0, 1}
  /\ PullInTime \in Nat \ {0}
  /\ AVG_BITS \in Nat \ {0}
  /\ BITS_IN_WEEK \in Nat \ {0}

VARIABLES
  state,
  n_freq, codephase,      \* how far the search is
  bin, offset,            \* the carrier DCO in search steps from CARRIER_REF,
                          \* and the half chips slewed since the start
  searched,               \* history: the <<bin, offset>> tested since the start
  i_confirm, n_thresh,
  ms_count, ch_time, bit_sync,
  last, run,              \* ms_sign: its last bit, and how many equal that one
  load_1ms_epoch_count,
  epoch,                  \* the 1 ms epoch counter of the hardware
  sum,                    \* q_prompt_20 + q_dither_20, one for each dump
  bit, nav_bit_ready,     \* CH[ch].bit, and its bit of nav_bits_ready
  time_in_bits, check_average,
  phase, data, sat_bits,  \* the satellite: milliseconds into the data bit, its
                          \* sign, bits completed since the channel locked
  disturbed               \* history: q had the wrong sign, or a dump was missed

searchVars  == <<n_freq, codephase, bin, offset, searched>>
confirmVars == <<i_confirm, n_thresh>>
signVars    == <<last, run>>
epochVars   == <<load_1ms_epoch_count, epoch>>
bitVars     == <<sum, bit, nav_bit_ready, time_in_bits, check_average>>
satVars     == <<phase, data, sat_bits>>
vars == <<state, searchVars, confirmVars, ms_count, ch_time, bit_sync, signVars,
          epochVars, bitVars, satVars, disturbed>>

Ms == 0 .. MS_PER_BIT - 1

\* Half of CarrSrchWidth, the farthest bin on the right.
HalfWidth == CarrSrchWidth \div 2

\* Pull-in ends at the first end of a bit after PullInTime; finding the edge may
\* put that off once more.
TypeOK ==
  /\ state \in {"OFF", "ACQUISITION", "CONFIRM", "PULL_IN", "LOCK"}
  /\ n_freq \in 0 .. CarrSrchWidth + 1
  /\ codephase \in 0 .. CODE_PHASES - 1
  /\ bin \in -HalfWidth .. HalfWidth + 1
  /\ offset \in 0 .. CODE_LENGTH - 1
  /\ searched \subseteq (-HalfWidth .. HalfWidth + 1) \X (0 .. CODE_LENGTH - 1)
  /\ i_confirm \in 0 .. N_CONFIRM + 1 /\ n_thresh \in 0 .. i_confirm
  /\ ms_count \in Ms
  /\ ch_time \in 0 .. PullInTime + 2 * MS_PER_BIT - 2
  /\ bit_sync \in BOOLEAN
  /\ last \in BOOLEAN /\ run \in 1 .. MS_PER_BIT
  /\ load_1ms_epoch_count \in BOOLEAN /\ epoch \in Ms
  /\ sum \in -MS_PER_BIT .. MS_PER_BIT
  /\ bit \in BOOLEAN /\ nav_bit_ready \in BOOLEAN
  /\ time_in_bits \in 0 .. BITS_IN_WEEK - 1
  /\ check_average \in 0 .. AVG_BITS - 1
  /\ phase \in Ms /\ data \in {-1, 1} /\ sat_bits \in 0 .. BITS_IN_WEEK - 1
  /\ disturbed \in BOOLEAN

\* A channel after boot: off, its structure zero.
Init ==
  /\ state = "OFF"
  /\ n_freq = 0 /\ codephase = 0 /\ bin = 0 /\ offset = 0 /\ searched = {}
  /\ i_confirm = 0 /\ n_thresh = 0
  /\ ms_count = 0 /\ ch_time = 0 /\ bit_sync = FALSE
  /\ last = FALSE /\ run = MS_PER_BIT
  /\ load_1ms_epoch_count = FALSE /\ epoch = 0
  /\ sum = 0 /\ bit = FALSE /\ nav_bit_ready = FALSE
  /\ time_in_bits = 0 /\ check_average = 0
  /\ phase = 0 /\ data = 1 /\ sat_bits = 0
  /\ disturbed = FALSE

-----------------------------------------------------------------------------
(* The allocate thread puts an off channel to search.                      *)

\* initialize_channel and restart_channel alike.  The code offset is counted, and
\* the satellite followed, anew.
Start ==
  /\ state = "OFF"
  /\ state' = "ACQUISITION"
  /\ n_freq' = 0 /\ codephase' = 0 /\ bin' = 0
  /\ ms_count' = 0 /\ bit_sync' = FALSE
  /\ load_1ms_epoch_count' = FALSE
  /\ time_in_bits' = 0
  /\ offset' = 0 /\ searched' = {}
  /\ phase' = 0 /\ data' = 1 /\ sat_bits' = 0 /\ disturbed' = FALSE
  /\ UNCHANGED <<confirmVars, ch_time, signVars, epoch, sum, bit, nav_bit_ready,
                 check_average>>

\* tracking() passes over a channel that is off.
Idle ==
  /\ state = "OFF"
  /\ nav_bit_ready' = FALSE
  /\ load_1ms_epoch_count' = FALSE
  /\ UNCHANGED <<state, searchVars, confirmVars, ms_count, ch_time, bit_sync,
                 signVars, epoch, sum, bit, time_in_bits, check_average,
                 satVars, disturbed>>

-----------------------------------------------------------------------------
(* acquire().                                                              *)

\* What a dump leaves alone before pull-in.
SearchFrame ==
  /\ nav_bit_ready' = FALSE
  /\ load_1ms_epoch_count' = FALSE
  /\ UNCHANGED <<ms_count, ch_time, signVars, epoch, sum, bit, time_in_bits,
                 check_average, satVars, disturbed>>

\* Mutant: given up one bin too early.
WithinNarrow == n_freq < CarrSrchWidth

WithinWidth == n_freq <= CarrSrchWidth

\* A bin and code phase where both magnitudes pass AcqThresh.
AcquireHit ==
  /\ state = "ACQUISITION" /\ WithinWidth
  /\ searched' = searched \cup {<<bin, offset>>}
  /\ state' = "CONFIRM"
  /\ i_confirm' = 0 /\ n_thresh' = 0
  /\ SearchFrame
  /\ UNCHANGED <<n_freq, codephase, bin, offset, bit_sync>>

\* The bin set when search bin n is done: 0, 1, -1, 2, -2, ... for n = 0, 1, ...
BinAfter(n) == IF n % 2 = 1 THEN 1 + (n \div 2) ELSE 0 - (n \div 2)

\* Mutant: the bins are searched over and over.
SameBins == n_freq

NextBin == n_freq + 1

\* No peak: slew the code by half a chip; after CODE_PHASES slews try the next bin.
AcquireMiss ==
  /\ state = "ACQUISITION" /\ WithinWidth
  /\ searched' = searched \cup {<<bin, offset>>}
  /\ offset' = (offset + 1) % CODE_LENGTH
  /\ \/ /\ codephase + 1 < CODE_PHASES
        /\ codephase' = codephase + 1
        /\ UNCHANGED <<n_freq, bin>>
     \/ /\ codephase + 1 >= CODE_PHASES
        /\ codephase' = 0
        /\ bin' = BinAfter(n_freq)
        /\ n_freq' = NextBin
  /\ SearchFrame
  /\ UNCHANGED <<state, confirmVars, bit_sync>>

\* End of the frequency search.
AcquireGiveUp ==
  /\ state = "ACQUISITION" /\ ~WithinWidth
  /\ state' = "OFF"
  /\ SearchFrame
  /\ UNCHANGED <<searchVars, confirmVars, bit_sync>>

-----------------------------------------------------------------------------
(* confirm().                                                              *)

\* A peak is confirmed by M_HITS hits in N_CONFIRM + 1 dumps.
ConfirmMore ==
  /\ state = "CONFIRM" /\ i_confirm < N_CONFIRM
  /\ i_confirm' = i_confirm + 1
  /\ n_thresh' \in {n_thresh, n_thresh + 1}
  /\ SearchFrame
  /\ UNCHANGED <<state, searchVars, bit_sync>>

ConfirmFail ==
  /\ state = "CONFIRM" /\ i_confirm >= N_CONFIRM
  /\ i_confirm' = i_confirm + 1
  /\ n_thresh' \in {n_thresh, n_thresh + 1} /\ n_thresh' < M_HITS
  /\ state' = "ACQUISITION"
  /\ bit_sync' = FALSE
  /\ SearchFrame
  /\ UNCHANGED searchVars

\* The sign buffer gets garbage, whose last bit says "negative" and the one before
\* it does not.  From here on the phase of the satellite's bits matters.
ConfirmPullIn ==
  /\ state = "CONFIRM" /\ i_confirm >= N_CONFIRM
  /\ i_confirm' = i_confirm + 1
  /\ n_thresh' \in {n_thresh, n_thresh + 1} /\ n_thresh' >= M_HITS
  /\ state' = "PULL_IN"
  /\ ch_time' = 0 /\ bit_sync' = FALSE /\ ms_count' = 0
  /\ last' = TRUE /\ run' = 1
  /\ nav_bit_ready' = FALSE /\ load_1ms_epoch_count' = FALSE
  /\ phase' \in Ms /\ data' \in {-1, 1} /\ epoch' \in Ms
  /\ disturbed' = FALSE
  /\ UNCHANGED <<searchVars, sum, bit, time_in_bits, check_average, sat_bits>>

-----------------------------------------------------------------------------
(* A millisecond of a channel in pull-in or in lock.                       *)

\* The satellite: its data may change at the beginning of a bit.
NextMs ==
  /\ phase' = (phase + 1) % MS_PER_BIT
  /\ data' \in IF phase' = 0 THEN {-1, 1} ELSE {data}

\* The sign the correlators saw; without noise it is that of the data.
Signal(q) == disturbed' = (disturbed \/ q # data')

\* Mutant: the epoch counter is loaded with the dump before in mind.
LoadZero == IF load_1ms_epoch_count THEN 0 ELSE (epoch + 1) % MS_PER_BIT

\* The epoch counter counts dumps; the first loop of tracking() loads it with one
\* at the dump after the one that began with a bit edge.
EpochAfterRead == IF load_1ms_epoch_count THEN 1 ELSE (epoch + 1) % MS_PER_BIT

NextCount == (ms_count + 1) % MS_PER_BIT

\* Mutant: any change of sign is taken for the edge of a bit.
AnyEdge(q) == ~bit_sync /\ IF last THEN q > 0 ELSE q < 0

\* The last MS_PER_BIT dumps had one sign and this one has the other.
Edge(q) == ~bit_sync /\ run = MS_PER_BIT /\ IF last THEN q > 0 ELSE q < 0

\* ms_sign is shifted left and gets the new sign.
ShiftSign(q) ==
  /\ last' = (q < 0)
  /\ run' = IF last' # last THEN 1 ELSE IF run < MS_PER_BIT THEN run + 1 ELSE run

\* Mutant: pull-in ends on time or not at all.
OnTime(count, time) == count = MS_PER_BIT - 1 /\ time = PullInTime

PullInOver(count, time) == count = MS_PER_BIT - 1 /\ time >= PullInTime

\* Is it an edge, and did the phase test pass?
PullInSync(q) ==
  \/ /\ Edge(q)
     /\ bit_sync' = TRUE /\ ms_count' = 0 /\ load_1ms_epoch_count' = TRUE
  \/ /\ ms_count' = NextCount /\ load_1ms_epoch_count' = FALSE
     /\ UNCHANGED bit_sync

PullIn(q) ==
  /\ state = "PULL_IN"
  /\ NextMs /\ Signal(q)
  /\ epoch' = EpochAfterRead
  /\ PullInSync(q)
  /\ ShiftSign(q)
  /\ ch_time' = ch_time + 1
  /\ \/ /\ ~PullInOver(ms_count', ch_time')
        /\ UNCHANGED <<state, sum, check_average, sat_bits>>
     \/ /\ PullInOver(ms_count', ch_time')
        /\ bit_sync'
        /\ state' = "LOCK"
        /\ sum' = 0 /\ check_average' = 0
        /\ sat_bits' = time_in_bits
     \/ /\ PullInOver(ms_count', ch_time')
        /\ state' = "OFF"
        /\ UNCHANGED <<sum, check_average, sat_bits>>
  /\ nav_bit_ready' = FALSE
  /\ UNCHANGED <<searchVars, confirmVars, bit, time_in_bits>>

SatBitsNext == IF phase' = MS_PER_BIT - 1 THEN (sat_bits + 1) % BITS_IN_WEEK
                                          ELSE sat_bits

NextBitTime == (time_in_bits + 1) % BITS_IN_WEEK

\* Mutant: the sums of a bit run on into the next.
SumKept(q) == sum

SumCleared(q) == 0

LockSum(q) ==
  /\ state = "LOCK" /\ NextCount # MS_PER_BIT - 1
  /\ sum' = sum + q
  /\ nav_bit_ready' = FALSE
  /\ UNCHANGED <<state, bit, time_in_bits, check_average>>

\* The end of a bit; every AVG_BITS bits the signal may be found lost.
LockBit(q) ==
  /\ state = "LOCK" /\ NextCount = MS_PER_BIT - 1
  /\ bit' = (sum + q > 0)
  /\ nav_bit_ready' = TRUE
  /\ time_in_bits' = NextBitTime
  /\ check_average' = (check_average + 1) % AVG_BITS
  /\ state' \in IF check_average' = 0 THEN {"LOCK", "OFF"} ELSE {"LOCK"}
  /\ sum' = SumCleared(q)

Lock(q) ==
  /\ LockSum(q) \/ LockBit(q)
  /\ NextMs /\ Signal(q)
  /\ epoch' = EpochAfterRead /\ load_1ms_epoch_count' = FALSE
  /\ ms_count' = NextCount
  /\ sat_bits' = SatBitsNext
  /\ UNCHANGED <<searchVars, confirmVars, ch_time, bit_sync, signVars>>

\* A dump overwritten before the DSR read it: tracking() only counts it.
MissedDump ==
  /\ state \in {"PULL_IN", "LOCK"}
  /\ NextMs
  /\ epoch' = (epoch + 1) % MS_PER_BIT
  /\ sat_bits' = SatBitsNext
  /\ disturbed' = TRUE
  /\ UNCHANGED <<state, searchVars, confirmVars, ms_count, ch_time, bit_sync,
                 signVars, load_1ms_epoch_count, bitVars>>

-----------------------------------------------------------------------------
Acquire == AcquireHit \/ AcquireMiss \/ AcquireGiveUp
Confirm == ConfirmMore \/ ConfirmFail \/ ConfirmPullIn

\* tracking() on a dump of the channel.
Dump == \/ Idle \/ Acquire \/ Confirm
        \/ \E q \in -1 .. 1 : PullIn(q) \/ Lock(q)

Next == Start \/ Dump \/ MissedDump

Spec == Init /\ [][Next]_vars

\* The accumulator interrupt comes every 505 us, a dump every millisecond.
FairSpec == Spec /\ WF_vars(Dump)

-----------------------------------------------------------------------------
(* Properties.                                                             *)

\* The bin b has been searched at CODE_PHASES different code offsets.
Covered(b) == Cardinality({p \in searched : p[1] = b}) >= CODE_PHASES

GivesUp == state = "ACQUISITION" /\ state' = "OFF"

\* tracking.c:289, "search 20 frequency steps on either side", and 399, "Generate a
\* search sequence: 0, 1, -1, 2, -2, ...": not so, for the sequence is 0, 0, 1, -1, 2
\* and so on, and ends before its last bin.  When a channel is given up
\* (tracking.c:424) the bins covered are all those of the width but the last on the
\* left, which is set and never searched, the false hits in between notwithstanding.
SearchCovers ==
  [][GivesUp => {b \in -HalfWidth .. HalfWidth : Covered(b)}
                  = (1 - HalfWidth) .. HalfWidth]_vars

\* A channel that searches without end runs into CONFIRM over and over: nothing
\* but ever new false hits keeps acquire() from getting through its bins.
OnlyFalseHitsDelay ==
  <>[](state \in {"ACQUISITION", "CONFIRM"}) => []<>(state = "CONFIRM")

\* tracking.c:561, "sync the ms count to the bit stream": until noise or a missed
\* dump interferes, a channel that found an edge counts the milliseconds of the
\* data bits as the satellite does, and is in lock only with that.
BitAligned ==
  /\ state = "LOCK" => bit_sync
  /\ ~disturbed /\ state \in {"PULL_IN", "LOCK"} /\ bit_sync => ms_count = phase

\* tracking.c:563-565, "this will sync the epoch counter with the bit stream (and
\* the ms_count, too)": from the dump after the edge on the hardware's epoch
\* counter is the millisecond of the data bit, which measure.c relies on.
EpochAligned ==
  ~disturbed /\ state \in {"PULL_IN", "LOCK"} /\ bit_sync
    /\ ~load_1ms_epoch_count
  => epoch = phase

\* The bit handed to the message thread is the one the satellite has just
\* finished: the sums in lock hold all of its dumps and nothing else.
BitIsSent ==
  ~disturbed /\ state = "LOCK" /\ nav_bit_ready
    => phase = MS_PER_BIT - 1 /\ bit = (data = 1)

\* time_in_bits goes up by one for every bit the satellite sends, over the end of
\* the week too.
BitTimeKept == ~disturbed /\ state = "LOCK" => time_in_bits = sat_bits

\* The three states before lock are one to the threads above.
BS == INSTANCE BitStream WITH
        mode <- IF state \in {"OFF", "LOCK"} THEN state ELSE "SEARCH",
        value <- (data = 1),
        ended <- (phase = MS_PER_BIT - 1),
        delivered <- IF nav_bit_ready THEN {bit} ELSE {}

\* Every bit the satellite sends while the channel is in lock is handed over once,
\* right and counted, as the message, measure and allocate threads expect.
BitStreamSpec == BS!Spec
=============================================================================
