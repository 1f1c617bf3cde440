# Verification of the GPL-GPS receiver

GPL-GPS is the firmware of a 12-channel GPS receiver for the Zarlink GP4020, an
ARM7 with twelve hardware correlators. It runs under eCos: one interrupt and
seven threads share plain global variables, and nothing but the order of the
threads' priorities, a few flags and two semaphores keeps them apart. This
directory models that sharing in TLA+, checks it with TLC and proves its safety
properties with TLAPS.

All paths below are under `src/gpl-gps/` of the repository.

## 1. The system

### 1.1 Who runs when

| who | code | priority | woken by |
|---|---|---|---|
| accumulator ISR and DSR | `interrupts.c` | before every thread | the correlators, every 505 us |
| measure thread | `measure.c` | 10 | `measure_semaphore`, posted by the DSR at a TIC (every 100 ms) |
| message thread | `message.c` | 12 | `message_flag`, a bit per channel, set by the DSR when a data bit (20 ms) is complete |
| ephemeris thread | `ephemeris.c` | 14 | `ephemeris_channel_flag` and `ephemeris_subframe_flags[]`, set by the message thread when a subframe (6 s) is complete |
| allocate thread | `allocate.c` | 16 | `allocate_flag`, a bit per channel, set by the DSR for every channel that is off |
| pseudorange thread | `pseudorange.c` | 18 | `pseudorange_flag`, set by the measure thread |
| display thread | `display.c` | 20 | time |
| position thread | `position.c` | 22 | `position_semaphore`, posted by the pseudorange thread |

The smaller number goes first (`gpl-gps.c:22-28`); a thread runs only while those
above it wait. So the order "who may interrupt whom" is total, and every model
here has it as a guard: a thread's action is enabled only while the threads of
the same module above it are blocked, and the DSR's actions always are. Threads
that a module leaves out only take time away from those below.

### 1.2 Components, what they keep, and what could go wrong

**Tracking** (`tracking.c`, in the DSR). Keeps `CH[ch]`: the state (off,
acquisition, confirm, pull-in, lock), the search's counters, the millisecond of
the data bit, the sums of a bit, `time_in_bits`. A step per dump of a channel's
accumulators (1 ms). It writes into everybody's data: the bit for the message
thread, `time_in_bits` and the epoch counters for measurement, the off channels
for the allocate thread. *Hard*: four counters (`ms_count`, the hardware's 1 ms
epoch counter, the sign history, the sums) have to start at the same edge and
stay in step; the search order and its end are counters used before and after
their increment. *Correct when*: every bit handed over is the bit sent, counters
and satellite agree, a channel is not given up before its bins are searched.

**Allocation** (`allocate.c`). Keeps `CH[ch].prn`, `last_lock[]`, the static
`next_satellite`. Restarts channels lately lost, gives the others the next
satellite. *Hard*: the DSR changes states under its loops; the flag that wakes it
is cleared as a whole; time wraps at the end of the week. *Correct when*: no
working channel is disturbed, each idle one is put to work in the end, no
satellite is searched twice at a time and none never.

**Navigation message** (`message.c`). Keeps two word buffers, the frame
synchronisation and ten words for each of five subframes of each channel. Finds
the preamble, checks parity, compares two times of week and then *sets the
channel's time*: `set_ch_time`, `time_in_bits`, and a request to the DSR to load
the 20 ms epoch counter. *Hard*: data may look like a preamble; a bit may be
wrong, or be overwritten before it is read; the DSR counts the very variables the
thread sets. *Correct when*: the time of a channel said to have one is the
satellite's, and words are of the subframe they are filed under.

**Ephemeris** (`ephemeris.c`). Keeps copies of subframes 1 to 3 and the parsed
ephemeris of each channel. *Hard*: subframes of two data sets, or of two
satellites on the same channel one after the other, may meet; a satellite may
turn bad between two of them; the position thread reads what this thread writes.
*Correct when*: a valid ephemeris is one data set of the channel's satellite.

**Measurement, pseudoranges, position** (`measure.c`, `pseudorange.c`,
`position.c`, with `time.c` and `log.c`). The TIC latches the correlators; the DSR
copies bit times, the measure thread reads the latches into `meas[]`, the
pseudorange thread makes `pr[]` of them and, if the slot is free, copies it to
`pr2[]`, from which the slow position thread computes a fix. *Hard*: a fix takes
many TICs, everything above it goes on meanwhile; two signals (`pr2_data_fresh`
and `position_semaphore`) stand for one event; posts are dropped when the measure
thread is late. *Correct when*: a fix uses one epoch's data, unaltered while in
use, and no wakeup is lost.

**Receiver clock** (`time.c`). Two words, seconds and week, and a state. The
measure thread counts TICs, the message thread sets the seconds from the first
time of week that two subframes confirm, the ephemeris thread the week from the
first subframe 1 it parses after that; the display and the log read it. *Hard*:
seconds and week are set from two subframes, with TICs and a week's end between
them; a data set is parsed once only; the readers are preempted between the
words. *Correct when*: the clock is one time, of which all that is missing is
accounted for.

**Rates** (`tracking.c:57-78`, `allocate.c`). A rate is two writes, and the first
goes to a register that all channels share. The DSR writes rates, and so does the
allocate thread under it. *Correct when*: a channel runs at the rates asked for.

**Display, logging, serial port** (`display.c`, `log.c`, `serial.c`). The display
thread takes a key a second and prints a page; the position thread prints the log
when a key has asked for it; both poll one register without a lock, and the log
reads what the threads above write. *Correct when*: records come out, every
ephemeris is logged, and the position thread is not kept.

**Flash and bus** (`at45.c`, `bsio.c`, `gp4020_io.c`): a driver no thread calls.
**Boot tools, eCos builds, examples, board data** (`redboot/`, `examples/`,
`hardware/` and `ecos_default_build`): vendored, generated, or apart from the
receiver.

`PROJECT.json` lists the hazards of all these at their lines with the property
that would catch each, or why none does yet.

## 2. Modules

| module | models | composed with |
|---|---|---|
| `Handoff` | what the pseudorange and position threads promise each other: a mailbox of one slot | implemented by `Pipeline` |
| `Pipeline` | TIC, measure, pseudorange and position threads | `Handoff` through `H == INSTANCE` |
| `Allocation` | allocate thread, DSR as it turns channels off and flags them, clock | |
| `BitStream` | what the tracking DSR promises the threads of a channel: its mode, and in lock the satellite's bits, once each and counted | implemented by `Acquisition` |
| `Acquisition` | one channel under `tracking()`, from off to lock | `BitStream` through `BS == INSTANCE`; gives `Message` its bits and `Allocation` its off channels |
| `Message` | message thread and the DSR's bit counting | gives `Ephemeris` its subframes |
| `Ephemeris` | ephemeris thread between message and allocate threads | |
| `SatPosition` | the position thread's reading of an ephemeris | EXTENDS `Ephemeris` |
| `Epoch` | what a pseudorange is made of: latch, DSR's bit count, measure and pseudorange threads | the numbers behind `Pipeline`'s measurement, the bit time of `Message` |
| `Clock` | the receiver clock under four threads, and a reader | the times and subframes of `Message` and `Ephemeris` |
| `Calendar` | the date of a GPS time | |
| `Dco` | rates of the channels under the DSR and the allocate thread | the states of `Acquisition`, the set-up of `Allocation` |
| `Console` | display thread, log, serial port | ephemerides from `Ephemeris`, the fix of `Pipeline` |
| `PipelineProofs`, `AllocationProofs`, `AcquisitionProofs`, `MessageProofs`, `EphemerisProofs`, `EpochProofs` | theorems | EXTEND their module and TLAPS |
| `ClockProofs`, `RegisterProofs` | theorems about `Clock` and `Calendar`; about `Dco` and `Console`, whose threads share a register | EXTEND both and TLAPS |
| `MCxxx` with `.cfg` | values for TLC | EXTEND their module |

Each definition's lines in the code are in `PROJECT.json` under `map`. Names are
those of the code; a thread `t` has a program counter `t_pc` with one value per
place where it can be interrupted between two accesses to shared data. Variables
marked *history* are no part of the program: they record what a property has to
know and no action's other assignments depend on them. Definitions whose comment
begins with *Mutant* are plausible mistakes in the definition that follows them;
nothing refers to them, and with one put in place of its neighbour the property
named in `PROJECT.json` fails.

### 2.1 Pipeline

A measurement is reduced to the number of the TIC that its parts come from, so
"of one epoch" is an equality of three numbers. `Tic` is the DSR's part of a TIC;
`Measure*`, `Pseudorange*`, `Position*` are the threads, with one step per channel
in each loop. `MeasureChannel` chooses freely whether a channel is measured (it
stands for lock, signal strength, `set_ch_time`), `PositionChannel` whether its
ephemeris is valid. The solution of the equations is the step `PositionStore`.
`overtaken` becomes true for good when a TIC comes before the measure and
pseudorange threads are done with the one before: they have 100 ms, and
the properties that depend on it say so.

### 2.2 Allocation

States are OFF, SEARCH (acquisition, confirm, pull-in) and LOCK. `Tracking(c)` is
a change of one channel's state in the DSR, `TrackingFlags` an interrupt without
one; both flag all channels that are off. The thread's two loops and the loop in
`cold_allocate_channel` are a step a turn. Signed differences of seconds are those
of the code; `NowFor` keeps the code's lasting change of `now`. `since_lock` is the
true age of a lock, up to the limit that matters. Two histories are of one pass and
end with it: `now_age`, the seconds since `now` was read, and `turned_off`, the
channels the DSR has turned off meanwhile. `disturbed`, an interrupt in this pass or
any before, is for ever: two channels that once share a satellite keep it over later
passes.

### 2.3 Acquisition

A step is a dump. Whether magnitudes pass a threshold is free; `q` is the sign of
the sum of two correlator outputs, which in pull-in and lock is the sign of the
data unless `disturbed` becomes true (noise, or a dump missed). `searched` keeps
which code offset was tested in which carrier bin. `run` with `last` stand for the
shift register `ms_sign`, of which only "all of a bit equal, then a change" matters.
The DLL and PLL are left out: they steer frequencies, and the counters do not
depend on them. Under the mapping `BS` acquisition, confirm and pull-in are one
mode, the satellite is its bit and whether this dump ends it, and a bit is
delivered at the dumps that leave `nav_bit_ready` set; whatever else the channel
keeps is its own.

### 2.4 Message

The words themselves are left out. What remains of a buffer is how many of its
last bits are consecutive bits of what the satellite sent (`clean`), and where the
satellite is (`sat_bits`), which determine whether a preamble or a parity check
succeeds. Data that pass for a TLM and a HOW are given as `Lookalikes`. `sf` has
the words marked valid and, as history, which of those are the ones that belong
to its time of week. The three assignments by which a channel gets its time are
three steps, and `Bit` may come between any two. `mishaps` bounds wrong bits, late
bits and false preambles since the channel's messages were last cleared.

### 2.5 Ephemeris and SatPosition

A subframe is the satellite and the issue of the data set it is from, with the
health and accuracy of subframe 1 as one flag. `Received` and `Spoilt` are the
message thread's, `Lost` is the DSR's, `initialize_channel` and
`restart_channel` are the allocate thread's; `EphemerisChannel` is one turn of the
ephemeris thread's loop, of which the readers (lower priority) see nothing
in between. `SatPosition` adds the position thread, which may be interrupted
between any two reads of the ephemeris.

### 2.6 Epoch

Time goes by half chips. A TIC latches code phase and epoch counters; before or
after it a dump may come, be seen by the ISR or missed, and be counted by the DSR,
which then notes its bit count for the measure thread. The epoch counters go on with
each dump and number the millisecond *dumped last*, as `ms_count` does: the first
dump of a bit sets that to 0, and at the dump after it the counter is loaded with 1
(`tracking.c:566-570, 890-896`; `EpochAligned` in `Acquisition`). `time_in_bits` goes
up as `ms_count` becomes 19, a millisecond before the 20 ms counter. `Word` is the
guess by which the pseudorange thread puts the epoch counter into a word of 50 bits
of the bit count, `bit_count_modded` its value as an unsigned long. `at` is the
instant latched, which the result is compared with. The part of a half chip that the
code DCO adds is left out, and the receiver clock is exact.

### 2.7 Clock and Calendar

The unit of `Clock` is a TIC. One channel is followed, the one that sets the clock,
from boot at any subframe of a week. A HOW is received or lost; what it brings is
set in a step of its own, `late` TICs after. `Ended` and `TOW` follow from the time
of week. `lag`, `used`, `set_in` are history: by how much the seconds were late,
the week of the subframe 1 used, the week in which it was. `ReadFirst` and
`ReadSecond` read the words in either order: the structure is copied in whatever
order the compiler chose. `Calendar` puts the code's Julian day and its inverse
beside a calendar that is turned day by day.

### 2.8 Dco

A rate is a number of two halves; the width of a half is a constant. A write to a
lower half latches whatever the shared register holds. What the loops compute is
any rate; when they write is theirs (2 ms and 5 ms after the pull-in began, a bit's
end in lock). `sum` counts the dumps of a pull-in that had a signal, up to the
number of them that cannot reach the mean the code asks for: the largest magnitude
of a dump is 98304, so 8 of 1000 stay below 437 each.

### 2.9 Console

A character is known by what it belongs to. `Poll` and `Write` are the two halves
of `uart2_send_string` for the position thread; the display thread, which nobody
who prints preempts, has them in one step. `Format` is a `sprintf` that reads the
ephemeris. The pages are the ephemeris, of which "e" turns the leaves, and one for
the five others. `logged` is history: whether the last record of what a channel
has is of one data set, or was cut by a new one.

## 3. Runs

Runs that hold:

| run | asks |
|---|---|
| `pipeline` | Do flag, semaphore and threads make a mailbox, and is a fix computed from one epoch? |
| `allocation` | Do all channels work, each on its own satellite, and when alone does a channel not get the satellite again that it lately lost? |
| `acquisition` | Is the search complete, are the counters in step from the bit edge on, and is a channel the bit stream the threads expect? |
| `message` | Is a channel's time the satellite's, are its words its own, is the time found again and lost only for cause? |
| `ephemeris` | Is a valid ephemeris one data set of the channel's satellite, not of a bad one, and up to date in the end? |
| `epoch` | Is a pseudorange the same millisecond early on every channel and otherwise exact, at every instant of a week, whatever the DSR has missed or not yet seen? |
| `clock` | Is the clock one time over weeks' ends, does the week come, and what does a reader see? |
| `calendar` | Is the date the date? |
| `dco` | Does the correlator run at the rates asked for, and a channel in lock at its code rate? |
| `console` | Is the log whole, are all ephemerides in it, and does it end? |

Runs in which TLC finds what the code's comments exclude:

| run | what happens |
|---|---|
| `message_time` | `set_ch_time` is set before the time: a TIC in between is measured with the bits counted since the restart |
| `ephemeris_torn` | the ephemeris is replaced between two reads by the position thread |

Bounds, and why they are enough:

- `pipeline`: two channels, both needed for a fix, three TICs. One channel cannot
  be lost without the other; with two there are full fixes, fixes given up, the
  loss of one and of both. The slot has one place, so one snapshot in use, one
  being made and one waiting to be measured are three TICs.
- `allocation`: two channels, four satellites, one of them dead, a week of three
  seconds, relock limit 2, so that a lock is of now, recent, old, or of the week
  before. Two channels are what a duplicate takes, and what it takes for one to have
  `now` moved a week on for the other. The cfg's `VIEW` keeps of `now`, `now_age` and
  `turned_off` what is still read in this pass: the first two while the first loop
  runs, and after it whether a channel not yet passed was turned off, or has `now` a
  week beyond its lock.
- `acquisition`: a code of three half chips of which two are
  searched, a width of 4, that is the middle bin, two on the right and two on the
  left, of which the code searches one; bits of 3 ms, pull-in of 4 ms, a week of
  three bits: an edge found early, late or never, a bit time that wraps in lock.
- `message`: one channel, words of two bits, subframes of three words, two in a
  frame, four in a week; two false preambles, one that ends with a word and one
  inside; one mishap between two clearings; at most one bad word tolerated. Two
  HOWs in sequence, a false one before, between or after, and a week's end with
  each fit in.
- `ephemeris`: one channel, two satellites with equal issue numbers, two changes of
  data set or health. Channels share nothing but the two flag words, which are
  cleared bit by bit. With two changes a set can be mixed of old and new, and be
  complete again.
- `epoch`: a code of two half chips, bits of 2 ms, a week of two words of 50 bits, five
  dumps missed: the tolerance is in bits and not scaled, so the words of 50
  are the code's. A TIC about every bit, so that all instants of the week are met.
- `clock`: weeks of ten subframes of two TICs, three of them, the last past the end
  of an era of weeks; one TIC while the seconds are set, two while the clock is
  read; two data sets, of which the second may come at any frame.
- `calendar`: two instants a day until 2101, past the leap year 2000 and the
  year 2100, which is none; `DateRightCorrect` is about all weeks after that.
- `dco`: two channels, halves of one bit, so that all four rates are written;
  pull-in of 3 ms with the code loop closed after the first and the carrier loop
  after the second.
- `console`: two channels, two data sets by turns, records of two parts, a page of
  one character, two leaves of the ephemeris.

Every property of these runs fails for a plausible mistake in the code, listed
under `mutants`.

### What the code gets wrong

The last two runs show a fault each. Others are in the models as the code has them,
and the properties name what they spare:

- **Stale positioning** (`position.c:819`). When the last satellite is lost while a
  fix is computed, `clear_position()` is undone as the fix is stored, and the
  receiver says it is positioning from then on.
- **Two channels on one satellite** (`allocate.c:354`). A channel turned off after
  the second loop has passed it keeps its `prn` and no longer counts as having it;
  a later channel may get it, and the next pass restarts the first. Hence
  "undisturbed" in `UndisturbedDistinct`.
- **A week too many** (`allocate.c:349`). `now` stays a week ahead
  for the channels after the first for which it wraps; one of them lost a moment ago
  is treated as lost for long, and its ephemeris goes. `ColdOnlyStale` says that
  nothing else, no interrupt in this pass or before, can have that effect.
- **The last bin on the left** (`tracking.c:397-420`). Comments promise "20
  frequency steps on either side" (289) in the order "0, 1, -1, 2, -2" (399). The
  carrier is set from `n_freq` before that is incremented: the bins are 0, 0, 1, -1,
  ..., 20, and -20 is set as the search ends. `SearchCovers` says exactly this.
- **PRN 31** is listed as operational (`allocate.c:268`) and stepped over all the same
  (`allocate.c:237-241`); it is in `Dead`.
- **The week's end** (`message.c:288`). The time of week returns to 0, does not
  follow the one before, and a channel in perfect sync is cleared. Hence
  `KilledOnlyUnsynced` excepts the last HOW, and `TimeReturns` says that the time
  *returns*. In the receiver clock it means that TOW 0 never sets the time, so the
  branch for it (`time.c:62`) is never taken.
- **Bad words** (`message.c:156`) of all channels are counted in one variable.
- **A millisecond early** (`tracking.c:890-896`). The epoch counter is that of the
  millisecond dumped, the code phase of the one being received, so that every
  satellite's time is 1 ms early and every range 300 km long. As all channels are
  alike the fix takes it for an error of the clock, which it solves for. The
  properties state it: `SatTimeAgrees`, `RangeOneMsLong`.
- **The edges of a week in a pseudorange** (`pseudorange.c:74`, `93`). In its first
  bits a bit count still in the old week makes the satellite's time a week late.
  In its first millisecond, and in the one before if a dump comes between the TIC
  and the DSR, the bit count is 0 and the epoch counter still in the week's last bit: the subtraction below 0 makes the time
  2^32 bits. While receiver and signal are in different weeks the
  range is a week short. `SatTimeAgrees` and `RangeOneMsLong` state exactly these.
- **The tolerance** (`pseudorange.c:72`). "5 is the largest seen": five bits are not
  tolerated at every place of the word, as the conditions ask for the side of 24
  and 26 that each counter is on. Fewer than three bits are, which is what
  `SatTimeAgrees` says.
- **The carry** (`measure.c:119`). `|` for `&`: the rollover branch is never taken.
  The other branch makes `epoch_1ms` 20, which the sum in `sat_time` puts right.
- **The week** (`time.c:144`, `ephemeris.c:268`). An ephemeris parsed before there is
  a time is not parsed again, and the clock waits for its week until the next
  data set; a subframe 1 from before a week's end sets the clock a week back; 1024
  is added after 2019 as before.
- **A torn clock** (`time.c:25`): a reader may see a time a week off.
- **A lost line** (`log.c:102`). The flag is cleared after the text is sent: an
  ephemeris that came meanwhile is logged half and half, or not at all. Lost
  characters (`serial.c:40`) are at most one a page.
- **A wrong code rate** (`tracking.c:76`) can be searched with, but never locked on.
- `current_display` (`display.c:700`) is not changed by the log or by a stop, so
  coming back to the same page does not clear the screen.

## 4. Fairness

- Threads: weak fairness on each thread's actions as a whole. A thread that is
  ready and whose superiors all wait runs; the priority guards do the rest. It
  holds because nobody above computes without end: each of the higher threads
  does a bounded piece of work per event, and events are 20 ms and 100 ms apart.
- DSR: weak fairness on a channel's dump (`Dump`), on the interrupt that flags the
  channels that are off (`TrackingFlags`), on a locked channel's bits (`Bit`): the
  accumulator interrupt is periodic.
- `Restart` in `Message`: weak, since the allocate thread restarts what is off.
- `Received` in `Ephemeris`: strong. A satellite repeats each subframe every
  30 s, and reception is off and on with the channel; that some of infinitely many
  come whole is what a receiver relies on. `EphemerisArrives` is about channels
  that stay on.
- `Console`: weak for the transmitter and the display thread's sending; strong for
  the position thread, which can run only while the display thread sleeps: that
  sleeps for a second after every page, and its priority is lower, not its right
  to run.
- Nothing is assumed of noise, of TICs, of satellites, lookalikes or keys. `Epoch`,
  `Clock`, `Calendar` and `Dco` have no liveness property and no fairness; that the
  week of the clock comes is stated by counting subframes (`WeekComes`).

## 5. Theorems

For any number of channels, satellites, TICs, and any lengths and limits that
satisfy the modules' assumptions:

**Pipeline** (`PipelineProofs`; from `PipelineAssumption`).
- `TypeCorrect`. The type invariant needs "clock plus waiting posts do not exceed
  the TICs" to be inductive.
- `HandshakeCorrect`: flag, semaphore and the two program counters tell one story.
  This one is inductive given the types, and the others follow from it.
- `SnapshotStableCorrect`: nobody writes the slot while it is in use; the two
  actions that write it are guarded by a state `Handshake` excludes.
- `UsedStillInSlotCorrect`: what a fix is computed from is what the slot holds.
  These two follow for every instance from the hand-over that the run checks.
- `PipelineImplementsHandoff`: step by step under the refinement mapping.
  Copying is a stutter as the slot counts as empty until `pr2_data_fresh` is set.
- `SnapshotCoherentCorrect`, `ClockCountsTicsCorrect`: as long as no TIC overtakes,
  fixes mix no two epochs and no TIC is lost to the clock. The strengthening says
  who may be at work (at most one of the two upper threads), and what of `meas[]`
  is of the last TIC at each of its program counters.

**Allocation** (`AllocationProofs`; from `AllocationAssumption`).
- `TypeCorrect`, `OnlyOffIsReassignedCorrect` under every interleaving: the
  strengthening is that the channel being allocated is off, and the DSR never turns
  a channel on.
- `DistinctPrnCorrect`: satellites are distinct *until an interrupt falls into a
  pass*. Between passes the invariant covers the channels that are off, too: a
  restart needs no test because nobody else has the satellite. In the second loop
  it is weakened to the channels that are on, and says that those already passed
  are, so that at its end the stronger form is back.
- `ColdOnlyStaleCorrect`, under every interleaving, from `StaleInv`: dates of locks are
  seconds of a week, so a lock's date and its true age add up to the time but for
  whole weeks (`DatesRight`, `WeeksApart`), and so do `now` and the seconds since it
  was read (`NowRight`); a channel that was off all pass was lost before `now` was
  read (`OffBefore`), so the first loop found it less than the window behind `now`,
  unless `now` was a week beyond it (`PassedLate`). Before there is a clock no lock is
  recent (`NoClock`), and what a pass read of it then dates nothing.

**Acquisition** (`AcquisitionProofs`; from `AcquisitionAssumption`).
- `TypeCorrect`: among others that pull-in ends and that the sums of a bit do not
  run over.
- `BitAlignedCorrect`, `EpochAlignedCorrect`, `BitIsSentCorrect` (and `BitTimeKept`,
  in `InStepCorrect`): `SatInv` says that the garbage in the sign history has run 1
  until the first dump and that its last sign is that of the data from then on, so
  that a change of sign is taken for an edge only where a bit begins; that
  `ms_count`, the epoch counter and a pending load of it agree with the satellite;
  and that the sums in lock are the data's sign times the dumps since the bit began.
- `SearchCoversCorrect`, that the bins covered are those from `HalfWidth - 1` steps on the
  left to `HalfWidth` on the right and no other, for any even width, from `SearchInv`: the last `codephase` code offsets have been
  tested in this bin, and no two of them are equal (`BackInjective`); the `n_freq`
  bins before it are done, which at the end are all but the last on the left
  (`Done`, `EveryBin`), while that one is not begun (`LastBin`, `LastStep`,
  `LastUnsearched`). A false hit goes to confirmation and comes back to the
  same place.
- `AcquisitionImplementsBitStream`: in lock from `SatInv`, and because the dump that
  ends pull-in is the last of a bit. `BitIsSent` is what it says of a single state in
  lock, and has no run of its own.

**Message** (`MessageProofs`; from `MessageAssumption`).
- `TypeCorrect`: that no index leaves its buffer or frame whatever lookalikes there
  are. A channel's numbers are split into parts so that each action touches few.
- `TimeRightCorrect`, `EpochRightCorrect` from `TimeInv`: while the thread is at the
  three assignments, the time of week at hand is that of the bit just sent, and
  from then on satellite, bit time and epoch counter, or the pending load of it,
  move together, over the end of the week too. A bit that comes between two of the
  assignments makes the channel *late*, and *late* or *fooled* ends the claim.
- `WordsRightCorrect` from `WInv`: a bit not read is waited for (`DueInv`), but not
  the other way round, for after a false preamble the last bit may be taken twice.
  So the bits counted in the frame are those sent (`InStep`) or one more
  (`Slipped`), and one more never ends a word where the satellite ends one: parity
  fails and the word is not stored. This is why the assumption asks for words of two
  bits at least (they have 30): words of one bit end at every bit.
- `KilledOnlyUnsyncedCorrect` from `PInv`: a channel without a mishap since its
  messages were cleared has heard no HOW yet, or the last one is that of the
  subframe being received or just over, of which every bit was taken (`HeardHow`);
  so the next TOW follows, but at the end of the week.

**Ephemeris** (`EphemerisProofs`; from `EphemerisAssumption`).
- `TypeCorrect`, `OneDataSetCorrect`, `OwnSatelliteCorrect`, `BadIsInvalidCorrect`.
  One inductive invariant, `IInv`: copies are only of the channel's satellite
  (`Own`), three copies that agree were made an ephemeris (`Parsed`), a valid
  ephemeris has three copies (`Full`), a bad subframe 1 is still flagged or nothing
  is valid (`Pending`), a sleeping thread has no channels left (`Asleep`).
  `Parsed` is what makes "already parsed" harmless: the issue alone does not tell
  satellites apart.

**Epoch** (`EpochProofs`; from `EpochAssumption`).
- `TypeCorrect`, `SatTimeAgreesCorrect`, `RangeOneMsLongCorrect`. The epoch counters are
  one millisecond behind the signal, and what is latched and measured of them is one
  behind its instant (`EpochBehind`, `LatchRight`, `MeasRight`). The rest is a balance
  of milliseconds modulo the week: what the DSR has counted, plus the dumps
  seen and not counted, pending, and missed, is what the satellite has sent
  (`Kept`). Between the TIC and the copying of the bit time it holds of the latch to
  within one millisecond (`Latched`, `Seen`, `Measuring`), because at most one dump
  comes between. Less than three bits of missed dumps plus these two are at most
  three bits and never two bits the other way (`Disagreement`), and for these `Word`
  finds the word (`WordRight`, `WordLate`, `WordEarly`).

**Clock** (`ClockProofs`; from `ClockAssumption`).
- `TypeCorrect`, `ClockRightCorrect`, `ReadRightCorrect`. `IInv` has the two ways the
  seconds can be behind (in the same week or over its end), and with the second of
  them the week is one behind, too; the time of week on its way is late in the same
  two ways (`TowRight`); a reader has one of the two words of a time at most a
  week ago (`FirstRead`).
- `WeekComesCorrect` from `WeekInv`: `heard` counts subframes back from the last that
  ended, and of subframes 1 to 3 those among them left their copies, all of one data
  set (`CopiesHeard`); an ephemeris that was made of three copies gave the clock its
  week, unless it was early; so when five were heard and nothing is flagged, the
  week is there (`AllSeen`).

**Calendar** (`ClockProofs`; from `CalendarAssumption`).
- `DateRightCorrect`: the calendar turned day by day and the code's formula count the
  same days. Dates are put as days of years that begin in March (`March`), so that
  the odd day comes last; the quotients of the formula are then determined by
  bounds on their remainders. The integers are unbounded here; the code's reach far
  beyond any week number of its clock.

**Dco** (`RegisterProofs`; from `DcoAssumption`).
- `TypeCorrect`, `RateAskedCorrect`, `LockedCodeRateCorrect`. The invariant says that
  the allocate thread's channel is off, hence out of the DSR's reach (`OnOff`); that
  the shared register holds the half it wrote unless the DSR wrote since
  (`HalfKept`); and that a wrong code rate in pull-in leaves a sum of few dumps
  (`PullInRate`).

**Console** (`RegisterProofs`; from `ConsoleAssumption`).
- `PortTypeCorrect`, `LogWholeCorrect`, `EphemerisLoggedCorrect` from `LInv`: a
  character of the record is out, in the register or lost, and which of them the last
  one is follows from the program counters (`Place`); the lost ones are at most as
  many as pages, and one fewer while the position thread is between test and write
  and a page may still come (`Count`); a record of which parts were read from two
  data sets is known to be cut (`Reading`).

Every safety and action property of the passing runs is a theorem. Only model-checked
are the liveness properties (`FreshConsumed`, `OffIsReallocated`,
`EverySatelliteSearched`, `OnlyFalseHitsDelay`, `TimeReturns`, `EphemerisArrives`,
`LogGoesOn`), which need fairness and ENABLED, out of the prover's reach; the
two violations are counterexamples.

## 6. Not modelled

- The numbers: correlator arithmetic, what the code and carrier loops compute, the
  least-squares fix, coordinate conversion, the scaling of ephemeris fields. They
  have no control flow that others depend on but validity, which is free or
  modelled. Floating point is beyond TLC. Read, not modelled: `fix_sqrt`
  (`tracking.c:180-206`) divides by zero below 4, and `calculate_position` returns
  its last iterate when it does not converge (`position.c:493-495`).
- The correction of the clock by the fix (`set_clock_correction`, `set_to_fix_clock`):
  the only call is commented out (`position.c:829`).
- `log_pseudoranges`: switched off in `switches.h`. The wording of pages and records.
- Flash driver and bus interface (`at45.c`, `bsio.c`): no caller. `AT45_write` writes
  nothing because its loop's condition is an assignment (`at45.c:185`); there is no
  state of the receiver in which that shows.
- eCos: flags, semaphores and priorities as the threads use them; its start-up,
  and what its flag calls do with a flag that was not initialised
  (`ephemeris.c:316`), are outside. So are RedBoot, the boot tools, the examples and
  the installed headers, which make up most of the repository's lines.

## 7. Plan

Written, in this order: the pipeline with its mailbox, because everything ends
there; allocation; acquisition; message; ephemeris; epoch; clock and calendar;
rates; console; proofs of the safety properties of all of them; the bit stream
between the tracking DSR and the threads, with its proof. Next:

1. `Message` and `Allocation` above `BitStream`: that the DSR's part of each (`Bit`
   there, `Tracking` here) is what a `BitStream` may do, so that the modules rest on
   the same promise that `Acquisition` is proved to keep.
2. `Message` with two channels and the shared count of bad words.
3. An abstract ephemeris (a data set or none, for each channel) that `Ephemeris`
   implements, as `Handoff` is for `Pipeline`.
