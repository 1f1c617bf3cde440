--------------------------- MODULE PipelineProofs ---------------------------
(* Proofs about Pipeline, for every number of channels, TICs and satellites. *)
EXTENDS Pipeline, TLAPS

-----------------------------------------------------------------------------
(* Types.                                                                  *)

\* Thrown-away posts make the clock late, never early.
ClockNotAhead == clock + measure_semaphore <= tic

TypeInv == TypeOK /\ ClockNotAhead

LEMMA InitTypeInv == Init => TypeInv
<1> SUFFICES ASSUME Init PROVE TypeInv
  OBVIOUS
<1>1. 0 \in Stamp /\ 0 \in 0 .. N_CHANNELS /\ 0 \in 0 .. MaxTic
  BY PipelineAssumption DEF Stamp
<1>2. NoRho \in Rho
  BY <1>1 DEF NoRho, Rho
<1>3. meas \in [Ch -> Meas] /\ pr \in [Ch -> Rho] /\ pr2 \in [Ch -> Rho]
  BY <1>1, <1>2 DEF Init, Meas
<1>4. IsEntries(m_rho) /\ IsEntries(fix)
  BY DEF Init, IsEntries, NoEntries
<1>5. ClockNotAhead
  BY DEF Init, ClockNotAhead
<1> QED
  BY <1>1, <1>3, <1>4, <1>5 DEF Init, TypeInv, TypeOK

LEMMA TicTypeInv == TypeInv /\ Tic => TypeInv'
<1> SUFFICES ASSUME TypeInv, Tic PROVE TypeInv'
  OBVIOUS
<1>1. \A ch \in Ch : meas[ch] \in Meas
  BY DEF TypeInv, TypeOK
<1>2. /\ tic' \in Stamp /\ measure_semaphore' \in 0 .. MaxTic
      /\ ClockNotAhead'
  <2>1. /\ tic \in Stamp /\ clock \in Stamp /\ measure_semaphore \in 0 .. MaxTic
        /\ clock + measure_semaphore <= tic
    BY DEF TypeInv, TypeOK, ClockNotAhead
  <2>2. /\ tic < MaxTic /\ tic' = tic + 1 /\ clock' = clock
        /\ measure_semaphore' = measure_semaphore + 1
    BY DEF Tic, measureVars
  <2> QED
    BY <2>1, <2>2, PipelineAssumption DEF ClockNotAhead, Stamp
<1>3. \A ch \in Ch : [meas[ch] EXCEPT !.bits = tic'] \in Meas
  BY <1>1, <1>2 DEF Meas
<1>4. meas' \in [Ch -> Meas]
  BY <1>3 DEF Tic
<1> QED
  BY <1>2, <1>4
  DEF TypeInv, TypeOK, Tic, IsEntries, measureVars, pseudoVars, slotVars,
      positionVars

LEMMA MeasureTypeInv == TypeInv /\ Measure => TypeInv'
<1> SUFFICES ASSUME TypeInv, Measure PROVE TypeInv'
  OBVIOUS
<1> USE DEF TypeInv, TypeOK, IsEntries, pseudoVars, slotVars, positionVars
<1>1. CASE MeasureWake
  <2>1. /\ measure_semaphore' \in 0 .. MaxTic /\ ClockNotAhead'
        /\ clock' \in Stamp /\ m_ch' \in 0 .. N_CHANNELS
    BY <1>1, PipelineAssumption
    DEF MeasureWake, ClockNotAhead, increment_time_with_tic, Stamp
  <2> QED
    BY <1>1, <2>1 DEF MeasureWake, ResetReady
<1>2. CASE MeasureChannel
  <2>1. m_ch \in Ch /\ m_ch' \in 0 .. N_CHANNELS
    BY <1>2, PipelineAssumption DEF MeasureChannel, MoreChannels, Ch
  <2>2. meas[m_ch] \in Meas
    BY <2>1
  <2>3. /\ [meas[m_ch] EXCEPT !.phase = tic, !.valid = TRUE] \in Meas
        /\ [meas[m_ch] EXCEPT !.valid = FALSE] \in Meas
    BY <2>2 DEF Meas
  <2>4. meas' \in [Ch -> Meas] /\ channels_ready' \in SUBSET Ch
    BY <1>2, <2>1, <2>3 DEF MeasureChannel
  <2> QED
    BY <1>2, <2>1, <2>4 DEF MeasureChannel, ClockNotAhead
<1>3. CASE MeasureFlag
  <2>1. pr' \in [Ch -> Rho]
    <3>1. NoRho \in Rho
      BY PipelineAssumption DEF NoRho, Rho, Stamp
    <3> QED
      BY <1>3, <3>1 DEF MeasureFlag, clear_pseudoranges
  <2>2. pseudorange_flag' \in SUBSET Ch /\ positioning' \in BOOLEAN
    BY <1>3 DEF MeasureFlag, clear_pseudoranges
  <2> QED
    BY <1>3, <2>1, <2>2 DEF MeasureFlag, ClockNotAhead
<1>4. CASE MeasureDrain
  <2>1. measure_semaphore' \in 0 .. MaxTic /\ ClockNotAhead'
    BY <1>4, PipelineAssumption DEF MeasureDrain, ClockNotAhead, Stamp
  <2> QED
    BY <1>4, <2>1 DEF MeasureDrain
<1> QED
  BY <1>1, <1>2, <1>3, <1>4 DEF Measure

LEMMA PseudorangeTypeInv == TypeInv /\ Pseudorange => TypeInv'
<1> SUFFICES ASSUME TypeInv, Pseudorange PROVE TypeInv'
  OBVIOUS
<1> USE DEF TypeInv, TypeOK, ClockNotAhead, IsEntries, measureVars, slotVars,
            positionVars
<1>1. CASE PseudorangeWake
  BY <1>1 DEF PseudorangeWake
<1>2. CASE PseudorangeTime
  BY <1>2, PipelineAssumption DEF PseudorangeTime
<1>3. CASE PseudorangeChannel
  <2>1. p_ch \in Ch /\ p_ch' \in 0 .. N_CHANNELS
    BY <1>3, PipelineAssumption DEF PseudorangeChannel, Ch
  <2>2. [pr[p_ch] EXCEPT !.valid = FALSE] \in Rho
    <3>1. pr[p_ch] \in Rho
      BY <2>1
    <3> HIDE DEF TypeInv, TypeOK
    <3> QED
      BY <3>1 DEF Rho
  <2>3. calculate_pseudorange(p_ch) \in Rho
    BY <2>1 DEF Meas, Rho, calculate_pseudorange
  <2>4. pr' \in [Ch -> Rho]
    BY <1>3, <2>1, <2>2, <2>3 DEF PseudorangeChannel
  <2> QED
    BY <1>3, <2>1, <2>4 DEF PseudorangeChannel
<1>4. CASE PseudorangeOffer
  BY <1>4, PipelineAssumption DEF PseudorangeOffer
<1>5. CASE PseudorangeCopy
  <2>1. p_ch \in Ch /\ p_ch' \in 0 .. N_CHANNELS
    BY <1>5, PipelineAssumption DEF PseudorangeCopy, Ch
  <2> QED
    BY <1>5, <2>1 DEF PseudorangeCopy
<1>6. CASE PseudorangePost
  BY <1>6 DEF PseudorangePost
<1> QED
  BY <1>1, <1>2, <1>3, <1>4, <1>5, <1>6 DEF Pseudorange

LEMMA PositionTypeInv == TypeInv /\ Position => TypeInv'
<1> SUFFICES ASSUME TypeInv, Position PROVE TypeInv'
  OBVIOUS
<1> USE DEF TypeInv, TypeOK, ClockNotAhead, measureVars, pseudoVars, slotVars
<1>1. CASE PositionWake
  <2>1. IsEntries(NoEntries)
    BY DEF IsEntries, NoEntries
  <2> QED
    BY <1>1, <2>1, PipelineAssumption DEF PositionWake, KeepSlot, IsEntries
<1>2. CASE PositionChannel
  <2>1. s_ch \in Ch /\ s_ch' \in 0 .. N_CHANNELS
    BY <1>2, PipelineAssumption DEF PositionChannel, Ch
  <2>2. UsedEntry(s_ch) \in Entry
    BY <2>1 DEF UsedEntry, Entry
  <2>3. IsEntries(m_rho')
    <3>1. CASE UNCHANGED m_rho
      BY <3>1
    <3>2. CASE m_rho' = [ch \in DOMAIN m_rho \cup {s_ch} |->
                           IF ch = s_ch THEN UsedEntry(ch) ELSE m_rho[ch]]
      BY <2>1, <2>2, <3>2 DEF IsEntries
    <3> QED
      BY <1>2, <3>1, <3>2 DEF PositionChannel
  <2> QED
    BY <1>2, <2>1, <2>3 DEF PositionChannel, IsEntries
<1>3. CASE PositionDecide
  BY <1>3 DEF PositionDecide, AfterNoFix, IsEntries
<1>4. CASE PositionStore
  BY <1>4 DEF PositionStore, IsEntries
<1>5. CASE PositionLog
  BY <1>5 DEF PositionLog, IsEntries
<1>6. CASE PositionRelease
  BY <1>6 DEF PositionRelease, IsEntries
<1> QED
  BY <1>1, <1>2, <1>3, <1>4, <1>5, <1>6 DEF Position

LEMMA StutterTypeInv == TypeInv /\ UNCHANGED vars => TypeInv'
  BY DEF TypeInv, TypeOK, ClockNotAhead, IsEntries, vars, measureVars, pseudoVars,
      slotVars, positionVars

LEMMA StepTypeInv == TypeInv /\ [Next]_vars => TypeInv'
  BY TicTypeInv, MeasureTypeInv, PseudorangeTypeInv, PositionTypeInv,
     StutterTypeInv DEF Next, Quiet

\* Every variable keeps its type (and the clock never runs ahead of the TICs,
\* which is what keeps it within the bound).
THEOREM TypeCorrect == Spec => []TypeOK
<1>1. TypeInv => TypeOK
  BY DEF TypeInv
<1> QED
  BY InitTypeInv, StepTypeInv, <1>1, PTL DEF Spec

-----------------------------------------------------------------------------
(* The slot: pr2, pr2_time, pr2_data_fresh and position_semaphore.         *)

\* Handshake is inductive together with the types.
LEMMA InitHandshake == Init => Handshake
  BY DEF Init, Handshake

LEMMA StepHandshake == TypeInv /\ Handshake /\ [Next]_vars => Handshake'
<1> SUFFICES ASSUME TypeInv, Handshake, [Next]_vars PROVE Handshake'
  OBVIOUS
<1> USE DEF Handshake, measureVars, pseudoVars, slotVars, positionVars
<1>1. CASE Tic
  BY <1>1 DEF Tic
<1>2. CASE Measure
  BY <1>2 DEF Measure, MeasureWake, MeasureChannel, MeasureFlag, MeasureDrain
<1>3. CASE Pseudorange
  <2>1. CASE PseudorangeWake
    BY <2>1 DEF PseudorangeWake
  <2>2. CASE PseudorangeTime
    BY <2>2 DEF PseudorangeTime
  <2>3. CASE PseudorangeChannel
    BY <2>3 DEF PseudorangeChannel
  <2>4. CASE PseudorangeOffer
    BY <2>4 DEF PseudorangeOffer, SlotFree
  <2>5. CASE PseudorangeCopy
    BY <2>5 DEF PseudorangeCopy
  <2>6. CASE PseudorangePost
    BY <2>6 DEF PseudorangePost
  <2> QED
    BY <1>3, <2>1, <2>2, <2>3, <2>4, <2>5, <2>6 DEF Pseudorange
<1>4. CASE Position
  <2>1. CASE PositionWake
    BY <2>1 DEF PositionWake, KeepSlot, TypeInv, TypeOK
  <2>2. CASE PositionChannel
    BY <2>2 DEF PositionChannel
  <2>3. CASE PositionDecide
    BY <2>3 DEF PositionDecide, AfterNoFix
  <2>4. CASE PositionStore
    BY <2>4 DEF PositionStore
  <2>5. CASE PositionLog
    BY <2>5 DEF PositionLog
  <2>6. CASE PositionRelease
    BY <2>6 DEF PositionRelease, Position, PseudorangeBlocked
  <2> QED
    BY <1>4, <2>1, <2>2, <2>3, <2>4, <2>5, <2>6 DEF Position
<1>5. CASE UNCHANGED vars
  BY <1>5 DEF vars
<1> QED
  BY <1>1, <1>2, <1>3, <1>4, <1>5 DEF Next, Quiet

\* The flag, the semaphore and the two program counters agree at all times.
THEOREM HandshakeCorrect == Spec => []Handshake
<1>1. TypeInv /\ Handshake /\ [Next]_vars => TypeInv' /\ Handshake'
  BY StepTypeInv, StepHandshake
<1> QED
  BY InitTypeInv, InitHandshake, <1>1, PTL DEF Spec

LEMMA SlotKept ==
  Handshake /\ [Next]_vars /\ (s_pc # "wait" \/ position_semaphore > 0)
    => UNCHANGED <<pr2, pr2_time>>
<1> SUFFICES ASSUME Handshake, [Next]_vars, s_pc # "wait" \/ position_semaphore > 0
             PROVE  UNCHANGED <<pr2, pr2_time>>
  OBVIOUS
<1>1. p_pc # "copy"
  BY DEF Handshake
<1> USE DEF slotVars
<1>2. CASE Tic
  BY <1>2 DEF Tic
<1>3. CASE Measure
  BY <1>3 DEF Measure, MeasureWake, MeasureChannel, MeasureFlag, MeasureDrain
<1>4. CASE Pseudorange
  BY <1>1, <1>4
  DEF Pseudorange, PseudorangeWake, PseudorangeTime, PseudorangeChannel,
      PseudorangeOffer, PseudorangeCopy, PseudorangePost
<1>5. CASE Position
  BY <1>5
  DEF Position, PositionWake, PositionChannel, PositionDecide, PositionStore,
      PositionLog, PositionRelease
<1>6. CASE UNCHANGED vars
  BY <1>6 DEF vars
<1> QED
  BY <1>2, <1>3, <1>4, <1>5, <1>6 DEF Next, Quiet

\* Nobody writes the slot while the position thread works on it.
THEOREM SnapshotStableCorrect == Spec => SnapshotStable
<1>1. Handshake /\ [Next]_vars
        => [s_pc # "wait" \/ position_semaphore > 0
              => UNCHANGED <<pr2, pr2_time>>]_vars
  BY SlotKept
<1> QED
  BY HandshakeCorrect, <1>1, PTL DEF Spec, SnapshotStable

LEMMA StepUsedStillInSlot ==
  TypeInv /\ Handshake /\ UsedStillInSlot /\ [Next]_vars => UsedStillInSlot'
<1> SUFFICES ASSUME TypeInv, Handshake, UsedStillInSlot, [Next]_vars
             PROVE  UsedStillInSlot'
  OBVIOUS
<1> USE DEF UsedStillInSlot
<1>1. CASE s_pc # "wait" /\ UNCHANGED <<s_pc, m_rho>>
  BY <1>1, SlotKept
<1>2. CASE s_pc = "wait" /\ UNCHANGED s_pc
  BY <1>2
<1>3. CASE Position
  <2>1. CASE PositionWake
    BY <2>1 DEF PositionWake, NoEntries
  <2>2. CASE PositionChannel
    BY <2>2, SlotKept DEF PositionChannel, UsedEntry
  <2>3. CASE PositionDecide
    BY <2>3, SlotKept DEF PositionDecide, AfterNoFix
  <2>4. CASE PositionStore
    BY <2>4, SlotKept DEF PositionStore
  <2>5. CASE PositionLog
    BY <2>5 DEF PositionLog
  <2>6. CASE PositionRelease
    BY <2>6 DEF PositionRelease
  <2> QED
    BY <1>3, <2>1, <2>2, <2>3, <2>4, <2>5, <2>6 DEF Position
<1>4. ~Position => UNCHANGED <<s_pc, m_rho>>
  BY DEF Next, Tic, Measure, MeasureWake, MeasureChannel, MeasureFlag,
         MeasureDrain, Pseudorange, PseudorangeWake, PseudorangeTime,
         PseudorangeChannel, PseudorangeOffer, PseudorangeCopy, PseudorangePost,
         Quiet, vars, positionVars
<1> QED
  BY <1>1, <1>2, <1>3, <1>4

Inv == TypeInv /\ Handshake /\ UsedStillInSlot

LEMMA InitInv == Init => Inv
  BY InitTypeInv, InitHandshake DEF Init, Inv, UsedStillInSlot

LEMMA StepInv == Inv /\ [Next]_vars => Inv'
  BY StepTypeInv, StepHandshake, StepUsedStillInSlot DEF Inv

\* What the fix is computed from and what its log line prints are the contents of
\* the slot.
THEOREM UsedStillInSlotCorrect == Spec => []UsedStillInSlot
<1>1. Inv => UsedStillInSlot
  BY DEF Inv
<1> QED
  BY InitInv, StepInv, <1>1, PTL DEF Spec

-----------------------------------------------------------------------------
(* The pipeline implements Handoff.                                        *)

LEMMA InitHandoff == Init => H!Init
  BY DEF Init, H!Init, H!Empty, NoEntries

LEMMA PostPuts == Inv /\ PseudorangePost => H!Put
<1> SUFFICES ASSUME Inv, PseudorangePost PROVE H!Put
  OBVIOUS
<1>1. ~pr2_data_fresh /\ pr2_data_fresh' /\ UNCHANGED <<s_pc, fix>>
  BY DEF Inv, Handshake, PseudorangePost, positionVars
<1>2. [ch \in Ch |-> [rho |-> pr2[ch], at |-> pr2_time]]' \in [Ch -> Entry]
  BY DEF Inv, TypeInv, TypeOK, PseudorangePost, Entry
<1> QED
  BY <1>1, <1>2 DEF H!Put, H!Empty, NoEntries

LEMMA SlotNotEmpty ==
  pr2_data_fresh => [ch \in Ch |-> [rho |-> pr2[ch], at |-> pr2_time]] # NoEntries
<1>1. 0 \in Ch
  BY PipelineAssumption DEF Ch
<1> QED
  BY <1>1 DEF NoEntries

LEMMA PositionImplementsHandoff ==
  Inv /\ Position => H!Next \/ UNCHANGED H!vars
<1> SUFFICES ASSUME Inv, Position PROVE H!Next \/ UNCHANGED H!vars
  OBVIOUS
<1> USE DEF Inv, H!Empty, slotVars
<1>1. CASE PositionWake
  <2>1. pr2_data_fresh /\ pr2_data_fresh'
    BY <1>1 DEF PositionWake, Handshake, KeepSlot
  <2>2. H!Take
    BY <1>1, <2>1, SlotNotEmpty DEF PositionWake, H!Take, NoEntries
  <2> QED
    BY <2>2 DEF H!Next
<1>2. CASE PositionChannel
  BY <1>2 DEF PositionChannel, H!vars
<1>3. CASE PositionDecide
  <2>1. CASE s_pc' = "solve"
    BY <1>3, <2>1 DEF PositionDecide, H!vars
  <2>2. CASE s_pc' # "solve"
    BY <1>3, <2>2 DEF PositionDecide, AfterNoFix, H!GiveUp, H!Next
  <2> QED
    BY <2>1, <2>2
<1>4. CASE PositionStore
  <2>1. pr2_data_fresh /\ pr2_data_fresh'
    BY <1>4 DEF PositionStore, Handshake
  <2>2. DOMAIN m_rho \in SUBSET Ch
    BY DEF TypeInv, TypeOK, IsEntries
  <2>3. m_rho = [ch \in DOMAIN m_rho |->
                   [c \in Ch |-> [rho |-> pr2[c], at |-> pr2_time]][ch]]
    BY <1>4, <2>2 DEF PositionStore, UsedStillInSlot, TypeInv, TypeOK, IsEntries
  <2>4. H!Use
    BY <1>4, <2>1, <2>2, <2>3 DEF PositionStore, H!Use
  <2> QED
    BY <2>4 DEF H!Next
<1>5. CASE PositionLog
  BY <1>5 DEF PositionLog, H!vars
<1>6. CASE PositionRelease
  <2>1. H!Release
    BY <1>6 DEF PositionRelease, H!Release, NoEntries
  <2> QED
    BY <2>1 DEF H!Next
<1> QED
  BY <1>1, <1>2, <1>3, <1>4, <1>5, <1>6 DEF Position

LEMMA StepHandoff == Inv /\ [Next]_vars => [H!Next]_(H!vars)
<1> SUFFICES ASSUME Inv, [Next]_vars PROVE H!Next \/ UNCHANGED H!vars
  OBVIOUS
<1>1. CASE Position
  BY <1>1, PositionImplementsHandoff
<1>2. CASE Pseudorange /\ PseudorangePost
  BY <1>2, PostPuts DEF H!Next
<1>3. CASE Pseudorange /\ ~PseudorangePost
  <2>1. UNCHANGED <<pr2_data_fresh, s_pc, fix>>
    BY <1>3
    DEF Pseudorange, PseudorangeWake, PseudorangeTime, PseudorangeChannel,
        PseudorangeOffer, PseudorangeCopy, positionVars
  <2>2. pr2_data_fresh => UNCHANGED <<pr2, pr2_time>>
    BY <1>3
    DEF Inv, Handshake, Pseudorange, PseudorangeWake, PseudorangeTime,
        PseudorangeChannel, PseudorangeOffer, PseudorangeCopy, slotVars
  <2> QED
    BY <2>1, <2>2 DEF H!vars
<1>4. CASE Tic \/ Measure \/ Quiet \/ UNCHANGED vars
  <2>1. UNCHANGED <<pr2, pr2_time, pr2_data_fresh, s_pc, fix>>
    BY <1>4
    DEF Tic, Measure, MeasureWake, MeasureChannel, MeasureFlag, MeasureDrain,
        Quiet, vars, slotVars, positionVars
  <2> QED
    BY <2>1 DEF H!vars
<1> QED
  BY <1>1, <1>2, <1>3, <1>4 DEF Next

\* Whatever the threads' interleaving, a fix is computed from one snapshot that
\* the pseudorange thread put into the slot, complete and unaltered.
THEOREM PipelineImplementsHandoff == Spec => HandoffSpec
  BY InitInv, StepInv, InitHandoff, StepHandoff, PTL
  DEF Spec, HandoffSpec, H!Spec

-----------------------------------------------------------------------------
(* What holds besides when TICs come one at a time.                        *)

\* A TIC is handled by the measure thread, then by the pseudorange thread, and
\* the next comes after both.
OneTicAtATime ==
  /\ clock + measure_semaphore = tic
  /\ meas_time = clock
  /\ measure_semaphore \in {0, 1}
  /\ m_pc # "wait" => measure_semaphore = 0
  /\ m_pc # "wait" \/ measure_semaphore > 0 => p_pc = "wait"
  /\ m_pc = "scan" \/ measure_semaphore > 0 => pseudorange_flag = {}

\* The measurements on their way are valid and of the current TIC.
CurrentMeas(C) == \A ch \in C : meas[ch].valid /\ meas[ch].phase = tic

MeasCurrent ==
  /\ \A ch \in Ch : meas[ch].bits = tic
  /\ m_pc = "scan" => /\ CurrentMeas(channels_ready)
                      /\ \A ch \in channels_ready : ch < m_ch
  /\ CurrentMeas(pseudorange_flag)
  /\ p_pc # "wait" => CurrentMeas(measurements_ready)

Coherent(r, t) == r.valid => r.bits = t /\ r.phase = t /\ r.time = t

RhoCoherent ==
  /\ p_pc \in {"calc", "copy"} => pr_time = tic
  /\ p_pc = "calc" => \A ch \in Ch : ch < p_ch => Coherent(pr[ch], pr_time)
  /\ p_pc = "copy" => \A ch \in Ch : /\ Coherent(pr[ch], pr_time)
                                     /\ ch < p_ch => Coherent(pr2[ch], pr_time)
  /\ pr2_data_fresh => \A ch \in Ch : Coherent(pr2[ch], pr2_time)

TimelyInv == OneTicAtATime /\ MeasCurrent /\ RhoCoherent

LEMMA InitTimely == Init => TimelyInv
  BY DEF Init, TimelyInv, OneTicAtATime, MeasCurrent, CurrentMeas, RhoCoherent

LEMMA TicTimely == TypeInv /\ TimelyInv /\ Tic /\ ~overtaken' => TimelyInv'
<1> SUFFICES ASSUME TypeInv, TimelyInv, Tic, ~overtaken' PROVE TimelyInv'
  OBVIOUS
<1>1. MeasureBlocked /\ PseudorangeBlocked
  BY DEF Tic
<1>2. OneTicAtATime'
  BY <1>1, PipelineAssumption
  DEF TimelyInv, OneTicAtATime, Tic, MeasureBlocked, PseudorangeBlocked,
      measureVars, pseudoVars, TypeInv, TypeOK, Stamp
<1>3. \A ch \in Ch : meas'[ch].bits = tic'
  BY DEF Tic, TypeInv, TypeOK, Meas
<1>4. MeasCurrent'
  BY <1>1, <1>3
  DEF Tic, MeasCurrent, CurrentMeas, MeasureBlocked, PseudorangeBlocked,
      measureVars, pseudoVars
<1>5. RhoCoherent'
  BY <1>1
  DEF Tic, TimelyInv, RhoCoherent, Coherent, PseudorangeBlocked, pseudoVars,
      slotVars
<1> QED
  BY <1>2, <1>4, <1>5 DEF TimelyInv

LEMMA MeasureTimely == TypeInv /\ TimelyInv /\ Measure => TimelyInv'
<1> SUFFICES ASSUME TypeInv, TimelyInv, Measure PROVE TimelyInv'
  OBVIOUS
<1>0. p_pc = "wait" /\ p_pc' = "wait"
  BY DEF Measure, MeasureWake, MeasureChannel, MeasureFlag, MeasureDrain,
         TimelyInv, OneTicAtATime, pseudoVars
<1>1. RhoCoherent'
  BY <1>0
  DEF Measure, MeasureWake, MeasureChannel, MeasureFlag, MeasureDrain,
      TimelyInv, RhoCoherent, Coherent, slotVars
<1>2. CASE MeasureWake
  <2>1. OneTicAtATime'
    BY <1>0, <1>2, PipelineAssumption
    DEF MeasureWake, increment_time_with_tic, TimelyInv, OneTicAtATime, TypeInv,
        TypeOK, Stamp
  <2>2. MeasCurrent'
    BY <1>0, <1>2
    DEF MeasureWake, ResetReady, TimelyInv, OneTicAtATime, MeasCurrent,
        CurrentMeas
  <2> QED
    BY <1>1, <2>1, <2>2 DEF TimelyInv
<1>3. CASE MeasureChannel
  <2>1. OneTicAtATime'
    BY <1>0, <1>3
    DEF MeasureChannel, TimelyInv, OneTicAtATime
  <2>2. /\ m_ch \in Ch /\ pseudorange_flag' = {} /\ m_ch' = m_ch + 1
        /\ \A ch \in channels_ready : ch < m_ch /\ ch \in Ch
        /\ CurrentMeas(channels_ready) /\ tic' = tic /\ m_pc' = "scan"
    BY <1>3, PipelineAssumption
    DEF MeasureChannel, MoreChannels, TimelyInv, OneTicAtATime, MeasCurrent,
        TypeInv, TypeOK, Ch
  <2>3. \A ch \in Ch : meas'[ch].bits = tic
    BY <1>3 DEF MeasureChannel, TimelyInv, MeasCurrent, TypeInv, TypeOK, Meas
  <2>4. \A ch \in Ch : ch # m_ch => meas'[ch] = meas[ch]
    BY <1>3 DEF MeasureChannel, TypeInv, TypeOK
  <2>5. \A ch \in channels_ready' : ch = m_ch \/ ch \in channels_ready
    BY <1>3 DEF MeasureChannel
  <2>6. m_ch \in channels_ready' => meas'[m_ch].valid /\ meas'[m_ch].phase = tic
    <3>1. m_ch \notin channels_ready
      BY <2>2 DEF Ch
    <3>2. [meas[m_ch] EXCEPT !.phase = tic, !.valid = TRUE].phase = tic
          /\ [meas[m_ch] EXCEPT !.phase = tic, !.valid = TRUE].valid
      BY <2>2 DEF TypeInv, TypeOK, Meas
    <3> QED
      BY <1>3, <2>2, <3>1, <3>2 DEF MeasureChannel, TypeInv, TypeOK
  <2>7. CurrentMeas(channels_ready)'
    BY <2>2, <2>4, <2>5, <2>6 DEF CurrentMeas, Ch
  <2>8. \A ch \in channels_ready' : ch < m_ch'
    BY <2>2, <2>5 DEF Ch
  <2>9. MeasCurrent'
    BY <1>0, <2>2, <2>3, <2>7, <2>8 DEF MeasCurrent, CurrentMeas
  <2> QED
    BY <1>1, <2>1, <2>9 DEF TimelyInv
<1>4. CASE MeasureFlag
  <2>1. OneTicAtATime'
    BY <1>0, <1>4 DEF MeasureFlag, TimelyInv, OneTicAtATime, TypeInv, TypeOK
  <2>2. MeasCurrent'
    BY <1>0, <1>4 DEF MeasureFlag, TimelyInv, MeasCurrent, CurrentMeas
  <2> QED
    BY <1>1, <2>1, <2>2 DEF TimelyInv
<1>5. CASE MeasureDrain
  <2>1. OneTicAtATime'
    BY <1>0, <1>5 DEF MeasureDrain, TimelyInv, OneTicAtATime
  <2>2. MeasCurrent'
    BY <1>0, <1>5 DEF MeasureDrain, TimelyInv, MeasCurrent, CurrentMeas
  <2> QED
    BY <1>1, <2>1, <2>2 DEF TimelyInv
<1> QED
  BY <1>2, <1>3, <1>4, <1>5 DEF Measure

LEMMA PseudorangeTimely ==
  TypeInv /\ Handshake /\ TimelyInv /\ Pseudorange => TimelyInv'
<1> SUFFICES ASSUME TypeInv, Handshake, TimelyInv, Pseudorange PROVE TimelyInv'
  OBVIOUS
<1>1. /\ m_pc = "wait" /\ measure_semaphore = 0
      /\ UNCHANGED <<tic, overtaken, meas, measure_semaphore, m_pc, m_ch,
                     channels_ready, clock, meas_time>>
  BY DEF Pseudorange, PseudorangeWake, PseudorangeTime, PseudorangeChannel,
         PseudorangeOffer, PseudorangeCopy, PseudorangePost, MeasureBlocked,
         measureVars
<1>2. OneTicAtATime'
  BY <1>1 DEF TimelyInv, OneTicAtATime
<1>3. MeasCurrent'
  BY <1>1
  DEF TimelyInv, MeasCurrent, CurrentMeas, Pseudorange, PseudorangeWake,
      PseudorangeTime, PseudorangeChannel, PseudorangeOffer, PseudorangeCopy,
      PseudorangePost
<1> USE DEF TimelyInv, RhoCoherent, Coherent
<1>4. RhoCoherent'
  <2>1. CASE PseudorangeWake
    BY <2>1 DEF PseudorangeWake, slotVars
  <2>2. CASE PseudorangeTime
    BY <1>1, <2>2 DEF PseudorangeTime, slotVars, OneTicAtATime, TypeInv, TypeOK,
       Stamp, Ch
  <2>3. CASE PseudorangeChannel
    <3>1. p_ch \in Ch /\ p_ch' = p_ch + 1 /\ p_pc' = "calc" /\ p_pc = "calc"
      BY <2>3, PipelineAssumption DEF PseudorangeChannel, TypeInv, TypeOK, Ch
    <3>2. \A ch \in Ch : ch # p_ch => pr'[ch] = pr[ch]
      BY <2>3 DEF PseudorangeChannel, TypeInv, TypeOK
    <3>3. pr'[p_ch].valid => p_ch \in measurements_ready
                              /\ pr'[p_ch] = calculate_pseudorange(p_ch)
      BY <2>3, <3>1 DEF PseudorangeChannel, TypeInv, TypeOK, Rho
    <3>4. p_ch \in measurements_ready => meas[p_ch].phase = tic
      BY <3>1 DEF MeasCurrent, CurrentMeas
    <3>5. meas[p_ch].bits = tic /\ pr_time = tic
      BY <3>1 DEF MeasCurrent
    <3>6. Coherent(pr'[p_ch], pr_time)
      BY <3>3, <3>4, <3>5 DEF calculate_pseudorange
    <3>7. \A ch \in Ch : ch < p_ch + 1 => ch < p_ch \/ ch = p_ch
      BY <3>1 DEF Ch
    <3>8. \A ch \in Ch : ch < p_ch' => Coherent(pr'[ch], pr_time)
      BY <3>1, <3>2, <3>6, <3>7
    <3> QED
      BY <1>1, <2>3, <3>1, <3>8 DEF PseudorangeChannel, slotVars
  <2>4. CASE PseudorangeOffer
    <3>1. \A ch \in Ch : ch < N_CHANNELS /\ ~(ch < 0)
      BY PipelineAssumption DEF Ch
    <3> QED
      BY <1>1, <2>4, <3>1 DEF PseudorangeOffer, slotVars
  <2>5. CASE PseudorangeCopy
    <3>1. /\ p_ch \in Ch /\ p_ch' = p_ch + 1 /\ p_pc = "copy" /\ p_pc' = "copy"
          /\ ~pr2_data_fresh' /\ UNCHANGED <<pr, pr_time>>
      BY <2>5, PipelineAssumption
      DEF PseudorangeCopy, TypeInv, TypeOK, Ch, Handshake
    <3>2. \A ch \in Ch : pr2'[ch] = IF ch = p_ch THEN pr[ch] ELSE pr2[ch]
      BY <2>5 DEF PseudorangeCopy, TypeInv, TypeOK
    <3>3. \A ch \in Ch : ch < p_ch + 1 => ch < p_ch \/ ch = p_ch
      BY <3>1 DEF Ch
    <3>4. \A ch \in Ch : ch < p_ch' => Coherent(pr2'[ch], pr_time)
      BY <3>1, <3>2, <3>3
    <3> QED
      BY <1>1, <3>1, <3>4
  <2>6. CASE PseudorangePost
    <3>1. \A ch \in Ch : ch < N_CHANNELS
      BY PipelineAssumption DEF Ch
    <3> QED
      BY <1>1, <2>6, <3>1 DEF PseudorangePost
  <2> QED
    BY <2>1, <2>2, <2>3, <2>4, <2>5, <2>6 DEF Pseudorange
<1> QED
  BY <1>2, <1>3, <1>4

LEMMA OtherTimely ==
  Handshake /\ TimelyInv /\ (Position \/ UNCHANGED vars) => TimelyInv'
<1> SUFFICES ASSUME Handshake, TimelyInv, Position \/ UNCHANGED vars
             PROVE  TimelyInv'
  OBVIOUS
<1>1. UNCHANGED <<tic, overtaken, measure_semaphore, measureVars, meas,
                  pseudorange_flag, pseudoVars, pr, slotVars>>
  BY DEF Position, PositionWake, PositionChannel, PositionDecide, PositionStore,
         PositionLog, PositionRelease, vars
<1>2. pr2_data_fresh' => pr2_data_fresh
  BY DEF Position, PositionWake, PositionChannel, PositionDecide, PositionStore,
         PositionLog, PositionRelease, KeepSlot, vars
<1> QED
  BY <1>1, <1>2
  DEF TimelyInv, OneTicAtATime, MeasCurrent, CurrentMeas, RhoCoherent, Coherent,
      measureVars, pseudoVars, slotVars

\* As long as TICs come one at a time, a fix is computed from the measurements of
\* one TIC, stamped with the time of that TIC; the clock counts every TIC; and no
\* pseudorange is computed from a measurement that is not valid.
THEOREM TimelyCorrect == Spec => [](SnapshotCoherent /\ ClockCountsTics /\ TimelyMeasured)
<1> DEFINE SoFarTimely == ~overtaken => TimelyInv
<1>1. Init => Inv /\ SoFarTimely
  BY InitInv, InitTimely
<1>2. Inv /\ SoFarTimely /\ [Next]_vars => (Inv /\ SoFarTimely)'
  <2> SUFFICES ASSUME Inv, SoFarTimely, [Next]_vars, ~overtaken'
               PROVE  TimelyInv'
    BY StepInv
  <2>1. TypeInv /\ Handshake
    BY DEF Inv
  <2>2. ~overtaken
    BY DEF Next, Tic, Measure, MeasureWake, MeasureChannel, MeasureFlag,
           MeasureDrain, Pseudorange, PseudorangeWake, PseudorangeTime,
           PseudorangeChannel, PseudorangeOffer, PseudorangeCopy,
           PseudorangePost, Position, PositionWake, PositionChannel,
           PositionDecide, PositionStore, PositionLog, PositionRelease, Quiet,
           vars
  <2> QED
    BY <2>1, <2>2, TicTimely, MeasureTimely, PseudorangeTimely, OtherTimely
    DEF Next, Quiet
<1>3. Inv /\ SoFarTimely => SnapshotCoherent /\ ClockCountsTics /\ TimelyMeasured
  BY DEF Inv, Handshake, TimelyInv, RhoCoherent, Coherent, OneTicAtATime,
         MeasCurrent, CurrentMeas, SnapshotCoherent, ClockCountsTics,
         TimelyMeasured
<1> QED
  BY <1>1, <1>2, <1>3, PTL DEF Spec

\* While no TIC overtakes the measure and pseudorange threads, a fix is computed
\* from the measurements of one TIC, stamped with the time of that TIC.
THEOREM SnapshotCoherentCorrect == Spec => []SnapshotCoherent
  BY TimelyCorrect, PTL

\* While no TIC overtakes them, the receiver clock counts every TIC.
THEOREM ClockCountsTicsCorrect == Spec => []ClockCountsTics
  BY TimelyCorrect, PTL
=============================================================================
