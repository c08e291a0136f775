------------------------ MODULE Xspress3SeriesProofs ------------------------
(***************************************************************************)
(* Any number of acquisitions: SeriesInv is an inductive invariant for a   *)
(* caller that lets each of them finish.  What was proved of one           *)
(* acquisition then holds of each, and together they keep the promise of   *)
(* FrameDelivery.                                                          *)
(***************************************************************************)
EXTENDS Xspress3DeliveryProofs, Xspress3Series

-----------------------------------------------------------------------------
(* Settled threads.                                                        *)

(* Whoever is not settled was let go by startAcq, and no start is at hand. *)
LEMMA UnsettledReleased ==
    ASSUME TypeOK, SettledInv, ~Settled
    PROVE  Released /\ Started /\ ~MayRestart
<1>1. starts \in Nat
  BY DEF TypeOK, CameraTypeOK
<1> QED
  BY <1>1 DEF SettledInv, MayRestart, Starting, Released, Started, StartPCs

(* A settled acq thread is not where it counts or paces the detector.      *)
LEMMA SettledOut ==
    ASSUME Settled
    PROVE  /\ acq_pc \notin AcqLoopPCs
           /\ acq_pc \notin IntPCs \cup ExtPCs
           /\ acq_pc \notin {"after", "fin", "finwake", "idle1"}
           /\ acq_pc \in {"quitcheck", "dead"} => m_quit
           /\ read_pc \notin {"loop", "read", "ready", "incr", "store", "lock",
                              "drained"}
BY DEF Settled, AcqSettled, ReadSettled, AcqIdlePCs, ReadIdlePCs, AcqLoopPCs,
       IntPCs, ExtPCs

(* A settled acq thread stays so, counts nothing and leaves the detector   *)
(* alone.                                                                  *)
LEMMA AcqSettledStays ==
    ASSUME AcqSettled, m_status = "Idle" \/ m_quit, AcqStep
    PROVE  /\ AcqSettled' /\ (m_status' = "Idle" \/ m_quit')
           /\ UNCHANGED <<m_read_wait_flag, m_acq_frame_nb, hw_running, hw_done>>
<1>1. \/ AcqBegin \/ AcqTop \/ AcqToWait \/ AcqWait \/ AcqWake \/ AcqRunning
      \/ AcqQuit \/ AcqRelease \/ AcqIdle
  BY DEF AcqSettled, AcqIdlePCs, AcqStep, AcqGo, AcqJump, AcqCond, AcqLoop,
     AcqExpose, AcqPause, AcqRestart, AcqStop, AcqFlushed, AcqCount, AcqStore,
     AcqCheck, AcqPoll, AcqPollAbort, AcqCollect, AcqSignal, AcqInner, AcqAfter,
     AcqFin, AcqFinWake
<1>2. m_quit' = m_quit
  BY AcqFrame
<1> USE <1>2 DEF AcqSettled, AcqIdlePCs, AcqGo, AcqJump, AcqCond, acqRest,
        acqButStat, statVars, hwVars
<1>3. CASE AcqBegin \/ AcqTop \/ AcqWait \/ AcqWake
  BY <1>3 DEF AcqBegin, AcqTop, AcqWait, AcqWake
<1>4. CASE AcqToWait \/ AcqRunning
  BY <1>4 DEF AcqToWait, AcqRunning
<1>5. CASE AcqQuit \/ AcqRelease
  BY <1>5 DEF AcqQuit, AcqRelease
<1>6. CASE AcqIdle
  BY <1>6 DEF AcqIdle
<1> QED
  BY <1>1, <1>3, <1>4, <1>5, <1>6

(* A settled read thread stays so, and touches neither its counter nor the *)
(* frames.                                                                 *)
LEMMA ReadSettledStays ==
    ASSUME ReadSettled, ReadStep
    PROVE  ReadSettled' /\ UNCHANGED <<m_read_frame_nb, delivered>>
<1>1. \/ ReadBegin \/ ReadTop \/ ReadToWait \/ ReadWait \/ ReadWake \/ ReadQuit
      \/ ReadAborted \/ ReadRelease \/ ReadFlag
  BY DEF ReadSettled, ReadIdlePCs, ReadStep, ReadGo, ReadJump, ReadCond,
     ReadSetWait, ReadBuffer, ReadLoopEnd, ReadData, ReadReady, ReadIncr,
     ReadStore, ReadLock, ReadDrained
<1>2. m_quit' = m_quit
  BY ReadFrame
<1> QED
  BY <1>1, <1>2 DEF ReadSettled, ReadIdlePCs, ReadGo, ReadJump, ReadCond,
     ReadSetWait, ReadBegin, ReadTop, ReadToWait, ReadWait, ReadWake, ReadQuit,
     ReadAborted, ReadRelease, ReadFlag, readRest

LEMMA ReadKeepsStatus == ReadStep => m_status' = m_status
BY DEF ReadStep, ReadGo, ReadJump, ReadCond, ReadSetWait, ReadBegin, ReadTop,
       ReadToWait, ReadWait, ReadWake, ReadQuit, ReadAborted, ReadRelease,
       ReadBuffer, ReadLoopEnd, ReadData, ReadReady, ReadIncr, ReadStore,
       ReadLock, ReadDrained, ReadFlag, statVars

(* Both threads stay settled whichever of them takes a step.               *)
LEMMA SettledStays ==
    ASSUME Settled, AcqStep \/ ReadStep
    PROVE  Settled'
<1>1. CASE AcqStep
  <2>1. AcqSettled' /\ (m_status' = "Idle" \/ m_quit') /\ UNCHANGED m_read_wait_flag
    BY <1>1, AcqSettledStays DEF Settled
  <2>2. UNCHANGED <<read_pc, m_quit>>
    BY <1>1, AcqFrame
  <2> QED
    BY <2>1, <2>2 DEF Settled, ReadSettled
<1>2. CASE ReadStep
  <2>1. ReadSettled'
    BY <1>2, ReadSettledStays DEF Settled
  <2>2. UNCHANGED <<m_wait_flag, m_quit, acq_pc>>
    BY <1>2, ReadFrame
  <2>3. m_status' = m_status
    BY <1>2, ReadKeepsStatus
  <2> QED
    BY <2>1, <2>2, <2>3 DEF Settled, AcqSettled
<1> QED
  BY <1>1, <1>2

-----------------------------------------------------------------------------
(* The caller.                                                             *)

(* The calls that configure and start. *)
StartCalls ==
    \/ \E n \in FrameCounts : SetNbFrames(n)
    \/ \E mode \in TrigModes : SetTrigMode(mode)
    \/ StartAcq \/ StartResetRead \/ StartHw \/ StartRelease

(* What the caller, the detector and a thread that dies leave alone. *)
LEMMA CallsFrame ==
    ASSUME StartCalls \/ OtherCalls
    PROVE  UNCHANGED <<m_read_wait_flag, acq_pc, completed_frames, acq_reg,
                       read_pc, frame, continueFlag, read_reg>>
BY DEF StartCalls, OtherCalls, SetNbFrames, SetTrigMode, StartAcq,
       StartResetRead, StartHw, StartRelease, Poll, CallStop, CallReset, AskToStop,
       DeleteCamera, CtlFault, StopAcq, ResetStatus, JoinAcq, JoinRead, RaiseQuit,
       CtlGo, CtlJump, acqVars, readVars

LEMMA OtherCallsFrame ==
    ASSUME OtherCalls
    PROVE  /\ UNCHANGED <<m_acq_frame_nb, m_read_frame_nb, m_nb_frames,
                          m_trigger_mode, starts, delivered, hw_running, hw_closed,
                          hw_done>>
           /\ m_wait_flag => m_wait_flag'
           /\ m_quit => m_quit'
           /\ m_abort => m_abort'
           /\ m_status' \in {m_status, "Idle"}
           /\ waiting' = waiting \/ m_quit'
           /\ ~Starting'
           /\ Released => Released'
           /\ Released' => Released \/ ctl_pc = "start_hw"
           /\ Started' <=> Started
<1> USE DEF CtlGo, CtlJump, ctlRest, Poll, CallStop, CallReset, AskToStop,
        DeleteCamera, CtlFault, StopAcq, ResetStatus, JoinAcq, JoinRead, RaiseQuit
<1>1. UNCHANGED <<m_acq_frame_nb, m_read_frame_nb, m_nb_frames, m_trigger_mode,
                  starts, delivered, hw_running, hw_closed, hw_done>>
  BY DEF OtherCalls, confVars, hwVars
<1>2. /\ m_wait_flag => m_wait_flag'
      /\ m_quit => m_quit'
      /\ m_abort => m_abort'
      /\ m_status' \in {m_status, "Idle"}
  BY DEF OtherCalls, flagVars, statVars
<1>3. waiting' = waiting \/ m_quit'
  BY DEF OtherCalls, Locked, condVars
<1>4. /\ ctl_pc' \notin {"set_mode", "prepared"} \cup StartPCs
      /\ ctl_pc = "start_hw" \/ ctl_pc \notin {"set_mode", "prepared"} \cup StartPCs
  BY DEF OtherCalls, StartPCs
<1> QED
  BY <1>1, <1>2, <1>3, <1>4 DEF Starting, Released, Started, StartPCs

LEMMA OtherFrame ==
    ASSUME HwFrame \/ HwComplete \/ SpuriousWakeup \/ AcqFault \/ ReadFault
    PROVE  /\ UNCHANGED <<m_status, m_wait_flag, m_read_wait_flag, m_quit, m_abort,
                          m_acq_frame_nb, m_read_frame_nb, m_nb_frames,
                          m_trigger_mode, completed_frames, acq_reg, frame,
                          read_reg, ctl_pc, may_start, starts, stops, delivered,
                          hw_running>>
           /\ acq_pc' = acq_pc \/ (acq_pc' = "dead" /\ AcqFault)
           /\ read_pc' = read_pc \/ (read_pc' = "dead" /\ read_pc = "read")
           /\ hw_done' \in {hw_done, hw_done + 1}
BY DEF HwFrame, HwComplete, HwUnchanged, SpuriousWakeup, AcqFault, ReadFault,
       shared, statVars, flagVars, confVars, acqVars, readVars, ctlVars, hwVars

(* Before a start and during it both threads are settled. *)
LEMMA StartsSettled ==
    ASSUME FlagsInv, CallsInv, SettledInv, StartCalls
    PROVE  /\ Settled /\ ~m_quit /\ m_status = "Idle"
           /\ Released' => StartRelease /\ m_acq_frame_nb' = 0
<1>1. MayRestart
  BY DEF StartCalls, SetNbFrames, SetTrigMode, StartAcq, StartResetRead, StartHw,
     StartRelease, CtlGo, MayRestart, Starting, StartPCs
<1>2. ctl_pc \in {"free", "set_mode", "prepared", "start_read", "start_hw",
                 "start_lock"}
  BY DEF StartCalls, SetNbFrames, SetTrigMode, StartAcq, StartResetRead, StartHw,
     StartRelease, CtlGo
<1>3. Released' => StartRelease /\ m_acq_frame_nb' = 0
  BY DEF StartCalls, SetNbFrames, SetTrigMode, StartAcq, StartResetRead, StartHw,
     StartRelease, CtlGo, ctlRest, CallsInv, Released, StartPCs
<1> QED
  BY <1>1, <1>2, <1>3 DEF FlagsInv, SettledInv, Settled

LEMMA CallsNext ==
    ASSUME TypeOK, CallsInv, SettledInv, [Next]_vars
    PROVE  CallsInv'
<1> USE DEF CallsInv
<1>1. CASE Closed \/ UNCHANGED vars
  BY <1>1 DEF Closed, vars, shared, ctlVars, Starting
<1>2. CASE AcqStep
  <2>1. UNCHANGED <<ctl_pc, starts, stops, may_start, delivered>>
    BY <1>2, AcqFrame
  <2>2. ctl_pc \in StartPCs => Settled
    BY DEF SettledInv, MayRestart, Starting
  <2>3. ctl_pc \in StartPCs => m_acq_frame_nb' = m_acq_frame_nb
    BY <1>2, <2>2, AcqSettledStays DEF Settled
  <2> QED
    BY <2>1, <2>3 DEF Starting
<1>3. CASE ReadStep
  <2>1. UNCHANGED <<ctl_pc, starts, stops, may_start, m_acq_frame_nb>>
    BY <1>3, ReadFrame
  <2>2. ctl_pc \in StartPCs => Settled
    BY DEF SettledInv, MayRestart, Starting
  <2>3. ctl_pc \in StartPCs => delivered' = delivered
    BY <1>3, <2>2, ReadSettledStays DEF Settled
  <2> QED
    BY <2>1, <2>3 DEF Starting, StartPCs
<1>4. CASE HwFrame \/ HwComplete \/ SpuriousWakeup \/ AcqFault \/ ReadFault
  BY <1>4, OtherFrame DEF Starting
<1>5. CASE StartCalls
  <2>1. starts \in Nat
    BY DEF TypeOK, CameraTypeOK
  <2> QED
    BY <1>5, <2>1 DEF StartCalls, SetNbFrames, SetTrigMode, StartAcq, StartResetRead,
       StartHw, StartRelease, CtlGo, ctlRest, Starting, StartPCs
<1>6. CASE OtherCalls
  <2>1. stops \in Nat
    BY CameraAssumption DEF TypeOK, CameraTypeOK
  <2>2. ctl_pc' \in {"stop", "reset_stop", "reset"} => stops' > 0
    BY <1>6, <2>1 DEF OtherCalls, CtlGo, CtlJump, ctlRest, Poll, CallStop, CallReset,
       AskToStop, DeleteCamera, CtlFault, StopAcq, ResetStatus, JoinAcq, JoinRead,
       RaiseQuit
  <2> QED
    BY <1>6, <2>2, OtherCallsFrame DEF Starting, StartPCs
<1> QED
  BY <1>1, <1>2, <1>3, <1>4, <1>5, <1>6
  DEF Next, CtlCall, CtlStep, StartCalls, OtherCalls

(* A caller that is told it may start finds both threads settled: all      *)
(* frames were announced and the status is Idle, and in a state that has   *)
(* both the read thread is past its loop and the acq thread past its last  *)
(* wait.                                                                   *)
LEMMA ToldSettled ==
    ASSUME CallerFinishes, TypeOK, SeriesInv, Poll, may_start', starts < MaxStarts
    PROVE  Settled
<1> SUFFICES ASSUME ~Settled PROVE FALSE
  OBVIOUS
<1>1. Released /\ Started /\ ~MayRestart
  BY UnsettledReleased DEF SeriesInv
<1>t. /\ starts \in Nat /\ stops \in 0 .. MaxStops /\ MaxStarts \in Nat
      /\ m_nb_frames \in Nat \ {0} /\ m_acq_frame_nb \in Int
      /\ m_read_frame_nb \in Int /\ acq_pc \in AcqPCs
  BY CameraAssumption DEF TypeOK, CameraTypeOK
<1>2. starts # 0 /\ ~(stops = 0 /\ m_abort)
  BY <1>1 DEF MayRestart
<1>3. Policy = "finish" \/ (Policy = "control" /\ stops = 0)
  BY <1>t, <1>2 DEF CallerFinishes
<1>4. m_status = "Idle" /\ stops = 0 /\ Len(delivered) = m_nb_frames
  BY <1>2, <1>3 DEF Poll, MayStart
<1>5. ~GivenUp
  BY <1>2, <1>4 DEF Poll, CtlGo, GivenUp, SeriesInv, FlagsInv
<1>6. m_acq_frame_nb # 0
  <2>1. /\ 0 <= m_read_frame_nb /\ m_read_frame_nb <= m_acq_frame_nb
        /\ read_pc \in {"incr", "store"} => m_read_frame_nb < m_acq_frame_nb
        /\ read_pc \notin {"incr", "store"} => m_read_frame_nb = m_nb_frames
    BY <1>1, <1>4 DEF SeriesInv, ReadInv, CountMatchesDelivered
  <2> QED
    BY <1>t, <2>1
<1>7. /\ Finished
      /\ acq_pc \notin AcqLoopPCs \cup
                       {"quitcheck", "after", "fin", "finwake", "idle1", "dead"}
      /\ Resting => m_wait_flag
  BY <1>1, <1>4, <1>5, <1>6 DEF SeriesInv, FinishInv
<1>8. AcqSettled
  BY <1>t, <1>7 DEF AcqSettled, AcqPCs, AcqIdlePCs, Resting
<1> QED
  BY <1>4, <1>7, <1>8 DEF Finished, Settled

LEMMA SettledNext ==
    ASSUME CallerFinishes, TypeOK, SeriesInv, [Next]_vars
    PROVE  SettledInv'
<1>i. SettledInv /\ CallsInv /\ FlagsInv
  BY DEF SeriesInv
<1>s. stops \in Nat /\ starts \in Nat /\ MaxStarts \in Nat
  BY CameraAssumption DEF TypeOK, CameraTypeOK
<1>1. CASE Closed \/ UNCHANGED vars
  BY <1>1, <1>i DEF Closed, vars, shared, statVars, flagVars, acqVars, readVars,
     ctlVars, SettledInv, MayRestart, Starting, Settled, AcqSettled, ReadSettled
<1>2. CASE AcqStep \/ ReadStep
  <2>1. UNCHANGED <<ctl_pc, starts, stops, may_start, m_abort>>
    BY <1>2, AcqFrame, ReadFrame
  <2> QED
    BY <1>2, <1>i, <2>1, SettledStays DEF SettledInv, MayRestart, Starting
<1>3. CASE HwFrame \/ HwComplete \/ SpuriousWakeup \/ AcqFault \/ ReadFault
  <2>1. MayRestart' => Settled
    BY <1>3, <1>i, OtherFrame DEF SettledInv, MayRestart, Starting
  <2>2. Settled => UNCHANGED <<acq_pc, read_pc>>
    BY <1>3, OtherFrame, SettledOut DEF AcqFault, AcqLoopPCs, Settled, ReadSettled,
       ReadIdlePCs
  <2> QED
    BY <1>3, <2>1, <2>2, OtherFrame DEF SettledInv, Settled, AcqSettled, ReadSettled
<1>4. CASE StartCalls
  <2>1. Settled /\ ~m_quit /\ m_status = "Idle"
    BY <1>4, <1>i, StartsSettled
  <2>2. CASE StartRelease
    BY <1>i, <1>s, <2>2 DEF StartRelease, CtlGo, ctlRest, CallsInv, StartPCs, Starting,
       SettledInv, MayRestart
  <2>3. CASE ~StartRelease
    <3>1. UNCHANGED <<m_wait_flag, m_quit, m_status>>
      BY <1>4, <2>3 DEF StartCalls, SetNbFrames, SetTrigMode, StartAcq,
         StartResetRead, StartHw, CtlGo, flagVars, statVars
    <3> QED
      BY <1>4, <2>1, <3>1, CallsFrame DEF SettledInv, Settled, AcqSettled, ReadSettled
  <2> QED
    BY <2>2, <2>3
<1>5. CASE OtherCalls
  <2>1. MayRestart' => Settled
    <3>1. CASE Poll
      <4>1. may_start' /\ starts < MaxStarts => Settled
        BY <3>1, ToldSettled
      <4>2. UNCHANGED <<ctl_pc, starts, stops, m_abort>>
        BY <3>1 DEF Poll, CtlGo, flagVars
      <4> QED
        BY <1>i, <4>1, <4>2 DEF SettledInv, MayRestart, Starting
    <3>2. CASE ~Poll
      <4>1. UNCHANGED <<may_start, starts>> /\ ~Starting'
        BY <1>5, <3>2 DEF OtherCalls, CtlGo, CtlJump, ctlRest, CallStop, CallReset,
           AskToStop, DeleteCamera, CtlFault, StopAcq, ResetStatus, JoinAcq,
           JoinRead, RaiseQuit, Starting, StartPCs
      <4>2. stops' = 0 /\ m_abort' => stops = 0 /\ m_abort
        <5>1. CASE CallStop \/ CallReset
          <6>1. stops' # 0
            BY <1>s, <5>1 DEF CallStop, CallReset, AskToStop
          <6> QED
            BY <6>1
        <5>2. CASE StopAcq
          <6>1. stops' = stops /\ stops # 0
            BY <1>i, <1>s, <5>2 DEF StopAcq, CtlGo, ctlRest, CallsInv
          <6> QED
            BY <6>1
        <5>3. CASE ~CallStop /\ ~CallReset /\ ~StopAcq
          BY <1>5, <3>2, <5>3 DEF OtherCalls, CtlGo, CtlJump, ctlRest,
             DeleteCamera, CtlFault, ResetStatus, JoinAcq, JoinRead, RaiseQuit,
             flagVars
        <5> QED
          BY <5>1, <5>2, <5>3
      <4> QED
        BY <1>i, <4>1, <4>2 DEF SettledInv, MayRestart
    <3> QED
      BY <3>1, <3>2
  <2> QED
    BY <1>5, <2>1, OtherCallsFrame, CallsFrame DEF SettledInv, Settled, AcqSettled,
       ReadSettled
<1> QED
  BY <1>1, <1>2, <1>3, <1>4, <1>5
  DEF Next, CtlCall, CtlStep, StartCalls, OtherCalls

-----------------------------------------------------------------------------
(* The counters and the frames.                                            *)

FramesInv ==
    AcqInv /\ ReadInv /\ CountMatchesDelivered /\ DeliveredInOrder /\ WholeInv

LEMMA FramesAcq ==
    ASSUME TypeOK, SettledInv, FramesInv, AcqStep
    PROVE  FramesInv'
<1> USE DEF FramesInv
<1>1. UNCHANGED <<m_read_frame_nb, m_nb_frames, m_trigger_mode, read_pc, frame,
                  read_reg, ctl_pc, starts, delivered>>
  BY AcqFrame
<1>2. Started' <=> Started
  BY <1>1 DEF Started
<1>3. CountMatchesDelivered' /\ DeliveredInOrder' /\ WholeInv'
  BY <1>1, <1>2 DEF CountMatchesDelivered, DeliveredInOrder, WholeInv, WholeFrames
<1>4. CASE Started
  <2>1. AcqInv' /\ m_acq_frame_nb <= m_acq_frame_nb'
    BY <1>4, AcqCounts
  <2>2. /\ m_acq_frame_nb \in Int /\ m_acq_frame_nb' \in Int
        /\ m_read_frame_nb \in Int
    BY AcqTyped DEF TypeOK, CameraTypeOK
  <2>3. ReadInv'
    BY <1>1, <1>2, <2>1, <2>2 DEF ReadInv
  <2> QED
    BY <1>3, <2>1, <2>3
<1>5. CASE ~Started
  <2>1. Settled'
    BY <1>5, UnsettledReleased, SettledStays
  <2>2. acq_pc' \notin IntPCs \cup ExtPCs
    BY <2>1 DEF Settled, AcqSettled, AcqIdlePCs, IntPCs, ExtPCs
  <2> QED
    BY <1>2, <1>3, <1>5, <2>2 DEF AcqInv, ReadInv
<1> QED
  BY <1>4, <1>5

LEMMA FramesRead ==
    ASSUME TypeOK, SettledInv, FramesInv, ReadStep
    PROVE  FramesInv'
<1> USE DEF FramesInv
<1>1. UNCHANGED <<m_acq_frame_nb, m_nb_frames, m_trigger_mode, acq_pc,
                  completed_frames, acq_reg, ctl_pc, starts, hw_done>>
  BY ReadFrame
<1>2. Started' <=> Started
  BY <1>1 DEF Started
<1>3. AcqInv'
  BY <1>1, <1>2 DEF AcqInv
<1>4. WholeInv'
  BY WholeRead
<1>5. CASE Started
  BY <1>3, <1>4, <1>5, ReadDelivers
<1>6. CASE ~Started
  <2>1. delivered' = delivered
    BY <1>6, UnsettledReleased, ReadSettledStays DEF Settled
  <2> QED
    BY <1>2, <1>3, <1>4, <1>6, <2>1 DEF ReadInv, CountMatchesDelivered,
       DeliveredInOrder
<1> QED
  BY <1>5, <1>6

(* The frames asked for and the frames done are numbers. *)
LEMMA CountsTyped == TypeOK' => m_nb_frames' \in Nat \ {0} /\ hw_done' \in Nat
<1> SUFFICES ASSUME TypeOK'
             PROVE  m_nb_frames' \in Nat \ {0} /\ hw_done' \in Nat
  OBVIOUS
<1>1. FrameCounts \subseteq Nat \ {0}
  BY CameraAssumption
<1>2. m_nb_frames' \in FrameCounts \cup {1}
  BY Zenon DEF TypeOK, CameraTypeOK
<1>3. hw_done' \in Nat
  BY Zenon DEF TypeOK, CameraTypeOK
<1> QED
  BY <1>1, <1>2, <1>3

(* A start resets the counters and forgets the frames while no thread is   *)
(* where it uses them.                                                     *)
LEMMA FramesStart ==
    ASSUME TypeOK, TypeOK', FlagsInv, CallsInv, SettledInv, FramesInv, StartCalls
    PROVE  FramesInv'
<1>1. /\ acq_pc' = acq_pc /\ acq_pc \notin IntPCs \cup ExtPCs
      /\ read_pc' = read_pc
      /\ read_pc \notin {"loop", "read", "ready", "incr", "store"}
  BY StartsSettled, SettledOut, CallsFrame
<1>2. m_nb_frames' \in Nat \ {0} /\ hw_done' \in Nat
  BY CountsTyped
<1> USE DEF FramesInv
<1>3. CASE \/ \E n \in FrameCounts : SetNbFrames(n)
           \/ \E mode \in TrigModes : SetTrigMode(mode)
           \/ StartAcq
  <2>1. ~Started' /\ delivered' = delivered
    BY <1>3 DEF SetNbFrames, SetTrigMode, StartAcq, CtlGo, ctlRest, Started
  <2> QED
    BY <1>1, <2>1 DEF AcqInv, ReadInv, CountMatchesDelivered, DeliveredInOrder, WholeInv
<1>4. CASE StartResetRead \/ StartHw
  <2>1. /\ m_acq_frame_nb' = 0 /\ m_read_frame_nb' = 0 /\ delivered' = <<>>
    <3>1. CASE StartResetRead
      BY <3>1 DEF StartResetRead, FirstFrame, CtlGo, CallsInv, StartPCs
    <3>2. CASE StartHw
      <4>1. Started /\ m_acq_frame_nb = 0 /\ delivered = <<>>
        BY <3>2 DEF StartHw, CtlGo, CallsInv, StartPCs, Started
      <4>2. m_read_frame_nb \in Int
        BY DEF TypeOK, CameraTypeOK
      <4> QED
        BY <3>2, <4>1, <4>2 DEF StartHw, ctlRest, ReadInv
    <3> QED
      BY <1>4, <3>1, <3>2
  <2>2. Len(delivered') = 0 /\ 1 .. Len(delivered') = {}
    BY <2>1
  <2>3. AcqInv' /\ ReadInv'
    BY <1>1, <1>2, <2>1 DEF AcqInv, ReadInv, IntPCs
  <2>4. CountMatchesDelivered'
    BY <1>1, <2>1, <2>2 DEF CountMatchesDelivered
  <2>5. DeliveredInOrder' /\ WholeInv'
    BY <1>1, <2>2 DEF DeliveredInOrder, WholeInv, WholeFrames
  <2> QED
    BY <2>3, <2>4, <2>5
<1>5. CASE StartRelease
  <2>1. /\ UNCHANGED <<m_acq_frame_nb, m_read_frame_nb, m_nb_frames,
                       m_trigger_mode, delivered, starts, hw_done>>
        /\ Started' <=> Started
    BY <1>5 DEF StartRelease, CtlGo, ctlRest, confVars, hwVars, Started
  <2> QED
    BY <1>1, <2>1, CallsFrame DEF AcqInv, ReadInv, CountMatchesDelivered,
       DeliveredInOrder, WholeInv, WholeFrames
<1> QED
  BY <1>3, <1>4, <1>5 DEF StartCalls

LEMMA FramesCalls ==
    ASSUME FramesInv, OtherCalls
    PROVE  FramesInv'
BY OtherCallsFrame, CallsFrame DEF FramesInv, AcqInv, ReadInv,
   CountMatchesDelivered, DeliveredInOrder, WholeInv, WholeFrames

LEMMA FramesOther ==
    ASSUME TypeOK, FramesInv,
           HwFrame \/ HwComplete \/ SpuriousWakeup \/ AcqFault \/ ReadFault
    PROVE  FramesInv'
<1> USE DEF FramesInv
<1>1. hw_done \in Nat /\ m_acq_frame_nb \in Int /\ completed_frames \in Nat
  BY DEF TypeOK, CameraTypeOK
<1>2. Started' <=> Started
  BY OtherFrame DEF Started
<1>3. AcqInv'
  BY <1>1, <1>2, OtherFrame DEF AcqInv, IntPCs, ExtPCs
<1>4. ReadInv' /\ CountMatchesDelivered' /\ DeliveredInOrder' /\ WholeInv'
  BY <1>2, OtherFrame DEF ReadInv, CountMatchesDelivered, DeliveredInOrder,
     WholeInv, WholeFrames
<1> QED
  BY <1>3, <1>4

LEMMA FramesNext ==
    ASSUME TypeOK, FlagsInv, CallsInv, SettledInv, FramesInv, [Next]_vars
    PROVE  FramesInv'
<1>1. CASE Closed \/ UNCHANGED vars
  BY <1>1 DEF Closed, vars, shared, statVars, flagVars, confVars, acqVars, readVars,
     ctlVars, hwVars, FramesInv, AcqInv, ReadInv, CountMatchesDelivered,
     DeliveredInOrder, WholeInv, WholeFrames, Started
<1>2. CASE HwFrame \/ HwComplete \/ SpuriousWakeup \/ AcqFault \/ ReadFault
  BY <1>2, FramesOther
<1>3. CASE StartCalls
  BY <1>3, TypeNext, FramesStart
<1>4. CASE OtherCalls
  BY <1>4, FramesCalls
<1> QED
  BY <1>1, <1>2, <1>3, <1>4, FramesAcq, FramesRead
  DEF Next, CtlCall, CtlStep, StartCalls, OtherCalls

-----------------------------------------------------------------------------
(* The detector.                                                           *)

LEMMA SeriesDetectorNext ==
    ASSUME TypeOK, FlagsInv, CallsInv, SettledInv, AcqInv, DetectorInv, [Next]_vars
    PROVE  DetectorInv'
<1> USE DEF DetectorInv
<1>1. CASE Closed \/ UNCHANGED vars
  BY <1>1 DEF Closed, vars, shared, flagVars, confVars, acqVars, ctlVars, hwVars,
     Released, AllCounted, MoreAfterThis
<1>2. CASE ReadStep
  BY <1>2, ReadFrame DEF Released, AllCounted, MoreAfterThis
<1>3. CASE HwFrame \/ HwComplete \/ SpuriousWakeup \/ AcqFault \/ ReadFault
  BY <1>3, OtherFrame DEF Released, AllCounted, MoreAfterThis
<1>4. CASE StartCalls \/ (OtherCalls /\ ctl_pc = "start_hw")
  <2>1. /\ acq_pc' \notin AcqLoopPCs
        /\ acq_pc' \notin {"after", "fin", "finwake", "idle1"}
    BY <1>4, StartsSettled, SettledOut, CallsFrame
    DEF SettledInv, MayRestart, Starting, StartPCs
  <2>2. Released' => m_acq_frame_nb' = 0 /\ m_nb_frames' # 0
    <3>1. m_nb_frames \in Nat \ {0}
      BY CameraAssumption DEF TypeOK, CameraTypeOK
    <3> QED
      BY <1>4, <3>1, StartsSettled, OtherCallsFrame DEF StartRelease, confVars,
         CallsInv, StartPCs
  <2> QED
    BY <2>1, <2>2 DEF AllCounted, AcqLoopPCs
<1>5. CASE OtherCalls /\ ctl_pc # "start_hw"
  BY <1>5, OtherCallsFrame, CallsFrame DEF AllCounted, MoreAfterThis
<1> QED
  BY <1>1, <1>2, <1>3, <1>4, <1>5, DetectorAcq
  DEF Next, CtlCall, CtlStep, StartCalls, OtherCalls

-----------------------------------------------------------------------------
(* The status.                                                             *)

LEMMA FinishAcq ==
    ASSUME TypeOK, AcqInv, FinishInv, AcqStep
    PROVE  FinishInv'
<1>1. UNCHANGED <<m_quit, m_abort, m_nb_frames, m_read_frame_nb, read_pc, ctl_pc,
                  starts>>
  BY AcqFrame
<1>2. (Released' <=> Released) /\ (GivenUp' <=> GivenUp)
  BY <1>1 DEF Released, GivenUp
<1> SUFFICES ASSUME Released PROVE FinishInv'
  BY <1>2 DEF FinishInv
<1>3. Finished /\ ~AcqSignal => Finished'
  <2>1. ~AcqSignal => m_read_wait_flag' = m_read_wait_flag
    BY DEF AcqStep, AcqGo, AcqJump, AcqCond, AcqBegin, AcqTop, AcqToWait, AcqWait,
       AcqWake, AcqRunning, AcqQuit, AcqRelease, AcqLoop, AcqExpose, AcqPause,
       AcqRestart, AcqStop, AcqFlushed, AcqCount, AcqStore, AcqCheck, AcqPoll,
       AcqPollAbort, AcqCollect, AcqInner, AcqAfter, AcqFin, AcqFinWake, AcqIdle,
       acqRest, acqButStat
  <2> QED
    BY <1>1, <2>1 DEF Finished, AllRead, ReadSettled
<1>4. /\ m_acq_frame_nb \in Int /\ m_acq_frame_nb \in 0 .. m_nb_frames
  BY DEF TypeOK, CameraTypeOK, AcqInv, Released, Started, StartPCs
<1>5. m_quit => GivenUp
  BY DEF GivenUp
<1>6. /\ acq_pc = "finwake" /\ "acq" \notin waiting => Finished \/ m_quit
      /\ acq_pc = "idle1" => Finished \/ GivenUp
      /\ acq_pc \in {"idle2", "idle3"} => Finished \/ GivenUp \/ m_acq_frame_nb = 0
      /\ Resting => (m_wait_flag /\ Finished) \/ GivenUp \/ m_acq_frame_nb = 0
      /\ acq_pc \in AcqLoopPCs \cup
                    {"quitcheck", "after", "fin", "finwake", "idle1", "dead"} =>
            m_status # "Idle" \/ GivenUp
      /\ m_status = "Idle" => Finished \/ GivenUp \/ m_acq_frame_nb = 0
  BY DEF FinishInv
<1>7. SUFFICES
      /\ acq_pc' = "finwake" /\ "acq" \notin waiting' => Finished' \/ m_quit
      /\ acq_pc' = "idle1" => Finished' \/ GivenUp
      /\ acq_pc' \in {"idle2", "idle3"} =>
            Finished' \/ GivenUp \/ m_acq_frame_nb' = 0
      /\ Resting' => (m_wait_flag' /\ Finished') \/ GivenUp \/ m_acq_frame_nb' = 0
      /\ acq_pc' \in AcqLoopPCs \cup
                     {"quitcheck", "after", "fin", "finwake", "idle1", "dead"} =>
            m_status' # "Idle" \/ GivenUp
      /\ m_status' = "Idle" => Finished' \/ GivenUp \/ m_acq_frame_nb' = 0
  BY <1>1, <1>2 DEF FinishInv
<1> USE <1>3, <1>4, <1>5, <1>6 DEF AcqGo, AcqJump, AcqCond, acqRest, acqButStat,
        statVars, AcqLoopPCs, Resting
<1>11. CASE AcqSignal
  BY <1>11 DEF AcqSignal
<1>12. CASE AcqBegin \/ AcqTop \/ AcqToWait \/ AcqWait \/ AcqWake
  BY <1>12 DEF AcqBegin, AcqTop, AcqToWait, AcqWait, AcqWake, AcqSignal
<1>13. CASE AcqRunning
  BY <1>13 DEF AcqRunning, AcqSignal
<1>14. CASE AcqQuit
  BY <1>14 DEF AcqQuit, AcqSignal
<1>15. CASE AcqRelease
  BY <1>15 DEF AcqRelease, AcqSignal
<1>16. CASE AcqLoop \/ AcqExpose \/ AcqRestart \/ AcqCheck \/ AcqPollAbort
  BY <1>16 DEF AcqLoop, AcqExpose, AcqRestart, AcqCheck, AcqPollAbort, AfterPoll,
     AcqSignal
<1>17. CASE AcqPause \/ AcqCount \/ AcqStore \/ AcqPoll \/ AcqCollect
  BY <1>17 DEF AcqPause, AcqCount, AcqStore, AcqPoll, AcqCollect, AcqSignal
<1>18. CASE AcqInner
  BY <1>18 DEF AcqInner, AcqSignal
<1>19. CASE AcqAfter
  BY <1>19 DEF AcqAfter, WaitForRead, GivenUp, AcqSignal
<1>20. CASE AcqFin
  BY <1>20 DEF AcqFin, LockThenWait, AcqSignal
<1>21. CASE AcqFinWake
  BY <1>21 DEF AcqFinWake, Resume, AcqSignal
<1>22. CASE AcqIdle
  BY <1>22 DEF AcqIdle, AcqSignal
<1>23. CASE \/ AcqStop("stop_last", "flush_last")
            \/ AcqStop("stop_abort", "flush_abort")
            \/ AcqStop("stop_ext", "flush_ext")
  BY <1>23 DEF AcqStop, AcqSignal
<1>24. CASE \/ AcqFlushed("flush_last", "count")
            \/ AcqFlushed("flush_abort", "after")
            \/ AcqFlushed("flush_ext", "collect")
  BY <1>24 DEF AcqFlushed, AcqSignal
<1> QED
  BY <1>11, <1>12, <1>13, <1>14, <1>15, <1>16, <1>17, <1>18, <1>19, <1>20,
     <1>21, <1>22, <1>23, <1>24 DEF AcqStep

(* The read thread wakes the acq thread from its last wait only when all   *)
(* frames are read, and then it is past its loop itself.                   *)
LEMMA FinishRead ==
    ASSUME TypeOK, FinishInv, ReadStep
    PROVE  FinishInv'
<1>1. UNCHANGED <<m_wait_flag, m_quit, m_abort, m_acq_frame_nb, m_nb_frames,
                  acq_pc, ctl_pc, starts>>
  BY ReadFrame
<1>2. /\ Released' <=> Released
      /\ GivenUp' <=> GivenUp
      /\ Resting' <=> Resting
  BY <1>1 DEF Released, GivenUp, Resting
<1>3. m_status' = m_status
  BY ReadKeepsStatus
<1>4. Finished => Finished'
  BY <1>1, ReadSettledStays DEF Finished, AllRead
<1>5. "acq" \notin waiting' => "acq" \notin waiting \/ Finished'
  <2>1. CASE ReadDrained
    <3>1. read_pc' = "flag" /\ UNCHANGED <<m_read_frame_nb, m_nb_frames>>
      BY <1>1, <2>1 DEF ReadDrained, ReadCond, ReadGo, readRest
    <3>2. CASE m_nb_frames = m_read_frame_nb
      BY <3>1, <3>2 DEF Finished, AllRead, ReadSettled
    <3>3. CASE m_nb_frames # m_read_frame_nb
      BY <2>1, <3>3 DEF ReadDrained, ReadCond, WakeAcqThread, condVars
    <3> QED
      BY <3>2, <3>3
  <2>2. CASE ~ReadDrained
    BY <2>2 DEF ReadStep, ReadGo, ReadJump, ReadCond, ReadSetWait, ReadBegin, ReadTop,
       ReadToWait, ReadWait, ReadWake, ReadQuit, ReadAborted, ReadRelease,
       ReadBuffer, ReadLoopEnd, ReadData, ReadReady, ReadIncr, ReadStore,
       ReadLock, ReadFlag, condVars, Lock, Leave, Wait, Resume, Unlock
  <2> QED
    BY <2>1, <2>2
<1> QED
  BY <1>1, <1>2, <1>3, <1>4, <1>5 DEF FinishInv

LEMMA FinishNext ==
    ASSUME SpuriousWakeups = FALSE, TypeOK, FlagsInv, CallsInv, SettledInv, AcqInv,
           FinishInv, [Next]_vars
    PROVE  FinishInv'
<1>1. CASE Closed \/ UNCHANGED vars
  BY <1>1 DEF Closed, vars, condVars, shared, statVars, flagVars, confVars, acqVars,
     readVars, ctlVars, FinishInv, Released, Finished, AllRead, ReadSettled, GivenUp,
     Resting
<1>2. CASE HwFrame \/ HwComplete \/ SpuriousWakeup \/ AcqFault \/ ReadFault
  <2>1. Finished => Finished'
    BY <1>2, OtherFrame DEF Finished, AllRead, ReadSettled, ReadIdlePCs
  <2>2. /\ GivenUp' <=> GivenUp
        /\ Released' <=> Released
    BY <1>2, OtherFrame DEF GivenUp, Released
  <2>3. CASE AcqFault
    <3>1. acq_pc' = "dead" /\ acq_pc \in AcqLoopPCs
      BY <2>3 DEF AcqFault, AcqLoopPCs
    <3> QED
      BY <1>2, <2>1, <2>2, <3>1, OtherFrame DEF FinishInv, Resting
  <2>4. CASE ~AcqFault
    <3>1. waiting' = waiting
      BY <1>2, <2>4 DEF HwFrame, HwComplete, HwUnchanged, SpuriousWakeup, ReadFault,
         Leave, condVars
    <3> QED
      BY <1>2, <2>1, <2>2, <2>4, <3>1, OtherFrame DEF FinishInv, Resting
  <2> QED
    BY <2>3, <2>4
<1>3. CASE StartCalls \/ (OtherCalls /\ ctl_pc = "start_hw")
  <2>1. Settled /\ acq_pc' = acq_pc /\ ~m_quit
    BY <1>3, StartsSettled, CallsFrame
    DEF SettledInv, MayRestart, Starting, StartPCs, FlagsInv
  <2>2. /\ acq_pc' \notin AcqLoopPCs
        /\ acq_pc' \notin {"quitcheck", "after", "fin", "finwake", "idle1", "dead"}
    BY <2>1, SettledOut
  <2>3. Released' => m_acq_frame_nb' = 0
    BY <1>3, StartsSettled, OtherCallsFrame DEF CallsInv, StartPCs
  <2> QED
    BY <2>2, <2>3 DEF FinishInv
<1>4. CASE OtherCalls /\ ctl_pc # "start_hw"
  <2>1. Finished => Finished'
    BY <1>4, OtherCallsFrame, CallsFrame DEF Finished, AllRead, ReadSettled
  <2>2. /\ GivenUp => GivenUp'
        /\ Released' <=> Released
        /\ Resting' <=> Resting
    BY <1>4, OtherCallsFrame, CallsFrame DEF GivenUp, Resting
  <2>3. m_status' = m_status \/ GivenUp'
    BY <1>4, OtherCallsFrame DEF OtherCalls, CtlGo, CtlJump, ctlRest, Poll, CallStop,
       CallReset, AskToStop, DeleteCamera, CtlFault, StopAcq, ResetStatus, JoinAcq,
       JoinRead, RaiseQuit, statVars, FlagsInv, GivenUp
  <2> QED
    BY <1>4, <2>1, <2>2, <2>3, OtherCallsFrame, CallsFrame DEF FinishInv, GivenUp
<1> QED
  BY <1>1, <1>2, <1>3, <1>4, FinishAcq, FinishRead
  DEF Next, CtlCall, CtlStep, StartCalls, OtherCalls

-----------------------------------------------------------------------------
(* The invariant.                                                          *)

SeriesRunInv == TypeOK /\ SeriesInv

LEMMA SeriesInit == Init => SeriesRunInv
<1> SUFFICES ASSUME Init PROVE SeriesRunInv
  OBVIOUS
<1>1. Settled
  BY DEF Init, Settled, AcqSettled, ReadSettled, AcqIdlePCs, ReadIdlePCs
<1>2. CallsInv /\ FinishInv
  BY DEF Init, CallsInv, FinishInv, Starting, StartPCs, Released
<1> QED
  BY <1>1, <1>2, TypeInit, FlagsInit, RunInit, WholeInit, DetectorInit
  DEF SeriesRunInv, SeriesInv, SettledInv, SingleRunInv

LEMMA SeriesNext ==
    ASSUME CallerFinishes, SpuriousWakeups = FALSE
    PROVE  SeriesRunInv /\ [Next]_vars => SeriesRunInv'
<1> SUFFICES ASSUME SeriesRunInv, [Next]_vars PROVE SeriesRunInv'
  OBVIOUS
<1> USE DEF SeriesRunInv
<1>1. /\ TypeOK /\ FlagsInv /\ CallsInv /\ SettledInv /\ FinishInv /\ DetectorInv
      /\ FramesInv
  BY DEF SeriesInv, FramesInv
<1>2. TypeOK' /\ FlagsInv' /\ CallsInv' /\ SettledInv'
  BY <1>1, TypeNext, FlagsNext, CallsNext, SettledNext
<1>3. FramesInv'
  BY <1>1, FramesNext
<1>4. FinishInv' /\ DetectorInv'
  BY <1>1, FinishNext, SeriesDetectorNext DEF FramesInv
<1> QED
  BY <1>2, <1>3, <1>4 DEF SeriesInv, FramesInv

LEMMA Series ==
    ASSUME CallerFinishes, SpuriousWakeups = FALSE
    PROVE  Spec => []SeriesRunInv
<1>1. Init => SeriesRunInv
  BY SeriesInit
<1>2. SeriesRunInv /\ [Next]_vars => SeriesRunInv'
  BY SeriesNext
<1> QED
  BY <1>1, <1>2, PTL DEF Spec

(* However many acquisitions there are: a caller that lets each finish     *)
(* finds both threads settled before each start, and the counters, the     *)
(* frames, the detector and the status of each are as SeriesInv says.      *)
THEOREM SeriesInvariant ==
    ASSUME CallerFinishes, SpuriousWakeups = FALSE
    PROVE  Spec => []SeriesInv
<1>1. SeriesRunInv => SeriesInv
  BY DEF SeriesRunInv
<1> QED
  BY <1>1, Series, PTL

(* The frames of each acquisition are announced in order, each once, in    *)
(* its own buffer with its own data, although startAcq rewinds the counter *)
(* they are named by without the mutex.                                    *)
THEOREM SeriesInOrder ==
    ASSUME CallerFinishes, SpuriousWakeups = FALSE
    PROVE  Spec => []DeliveredInOrder
<1>1. SeriesRunInv => DeliveredInOrder
  BY DEF SeriesRunInv, SeriesInv
<1> QED
  BY <1>1, Series, PTL

(* In each acquisition the read thread stays behind the frames counted,    *)
(* and these do not exceed the frames asked for.                           *)
THEOREM SeriesStaysBehind ==
    ASSUME CallerFinishes, SpuriousWakeups = FALSE
    PROVE  Spec => []ReadBehindAcquired
<1>1. SeriesRunInv => ReadBehindAcquired
  BY CameraAssumption DEF SeriesRunInv, TypeOK, CameraTypeOK, SeriesInv, AcqInv,
     ReadInv, ReadBehindAcquired
<1> QED
  BY <1>1, Series, PTL

(* In each acquisition getNbHwAcquiredFrames is the number of frames Lima  *)
(* was given, but for the frame being announced.                           *)
THEOREM SeriesCounts ==
    ASSUME CallerFinishes, SpuriousWakeups = FALSE
    PROVE  Spec => []CountMatchesDelivered
<1>1. SeriesRunInv => CountMatchesDelivered
  BY DEF SeriesRunInv, SeriesInv
<1> QED
  BY <1>1, Series, PTL

(* In each acquisition with external gates every frame announced was       *)
(* complete when it was read, although startAcq lets the detector forget   *)
(* its frames without the mutex.                                           *)
THEOREM SeriesWhole ==
    ASSUME CallerFinishes, SpuriousWakeups = FALSE
    PROVE  Spec => []ExternalFramesWhole
<1>1. SeriesRunInv => ExternalFramesWhole
  BY DEF SeriesRunInv, SeriesInv, WholeInv, ExternalFramesWhole
<1> QED
  BY <1>1, Series, PTL

(* Each IntTrig acquisition that was not stopped has stopped the detector  *)
(* when the acq thread goes Idle.                                          *)
THEOREM SeriesStopsDetector ==
    ASSUME CallerFinishes, SpuriousWakeups = FALSE
    PROVE  Spec => []IdleMeansStopped
<1>1. SeriesRunInv => IdleMeansStopped
  <2>1. SeriesRunInv /\ acq_pc = "idle1" => Released
    BY UnsettledReleased, SettledOut DEF SeriesRunInv, SeriesInv
  <2> QED
    BY <2>1 DEF SeriesRunInv, SeriesInv, DetectorInv, IdleMeansStopped
<1> QED
  BY <1>1, Series, PTL

(* An acquisition that is not stopped goes Idle with all frames counted    *)
(* only when all were read, provided that wait() returns only for a        *)
(* broadcast: the code tests no condition around that wait().              *)
THEOREM IdleIsAllRead ==
    ASSUME CallerFinishes, SpuriousWakeups = FALSE
    PROVE  Spec => []IdleMeansAllRead
<1>1. SeriesRunInv => IdleMeansAllRead
  <2> SUFFICES ASSUME SeriesRunInv, starts > 0, ctl_pc = "free",
                      m_status = "Idle", ~m_abort, m_acq_frame_nb = m_nb_frames
               PROVE  m_read_frame_nb = m_nb_frames
    BY DEF IdleMeansAllRead
  <2>1. Released /\ ~GivenUp
    BY DEF Released, StartPCs, SeriesRunInv, SeriesInv, FlagsInv, GivenUp
  <2>2. m_nb_frames \in Nat \ {0}
    BY CameraAssumption DEF SeriesRunInv, TypeOK, CameraTypeOK
  <2> QED
    BY <2>1, <2>2 DEF SeriesRunInv, SeriesInv, FinishInv, Finished, AllRead
<1> QED
  BY <1>1, Series, PTL

-----------------------------------------------------------------------------
(* The promise.                                                            *)

LEMMA PromiseInit == Init => Promise!Init
BY DEF Init, Promise!Init, AcqReady, GivenUp

(* In an acquisition the frames given to Lima are those counted as read,   *)
(* unless one is being announced: then some are left to read.              *)
LEMMA GivenCounted ==
    ASSUME TypeOK, SeriesInv, Started
    PROVE  /\ m_read_frame_nb \in 0 .. m_nb_frames
           /\ m_acq_frame_nb = 0 \/ AllRead => Len(delivered) = m_read_frame_nb
           /\ m_acq_frame_nb = 0 => m_read_frame_nb = 0
<1>1. /\ m_acq_frame_nb \in Int /\ m_read_frame_nb \in Int
      /\ m_nb_frames \in Nat \ {0}
  BY CameraAssumption DEF TypeOK, CameraTypeOK
<1>2. /\ 0 <= m_read_frame_nb /\ m_read_frame_nb <= m_acq_frame_nb
      /\ m_acq_frame_nb <= m_nb_frames
      /\ read_pc \in {"incr", "store"} => m_read_frame_nb < m_acq_frame_nb
  BY DEF SeriesInv, AcqInv, ReadInv
<1> QED
  BY <1>1, <1>2 DEF SeriesInv, CountMatchesDelivered, AllRead

LEMMA PromiseAcq ==
    ASSUME SeriesRunInv, AcqStep
    PROVE  [Promise!Next]_(Promise!vars)
<1>1. UNCHANGED <<m_quit, m_abort, m_nb_frames, m_trigger_mode, m_read_frame_nb,
                  delivered>>
  BY AcqFrame
<1>2. GivenUp' = GivenUp
  BY <1>1 DEF GivenUp
<1>3. m_nb_frames \in Nat \ {0}
  BY CameraAssumption DEF SeriesRunInv, TypeOK, CameraTypeOK
<1>4. Released => Started
  BY DEF Released, Started, StartPCs
<1>5. CASE AcqRunning
  <2>1. ~AcqReady'
    BY <1>5 DEF AcqRunning, AcqReady
  <2>2. CASE AcqReady
    <3>1. Len(delivered) < m_nb_frames \/ GivenUp
      <4>1. CASE Released
        <5>1. m_acq_frame_nb = 0 \/ GivenUp
          BY <1>5, <4>1 DEF AcqRunning, AcqGo, SeriesRunInv, SeriesInv, FinishInv,
             Resting, GivenUp
        <5> QED
          BY <1>3, <1>4, <4>1, <5>1, GivenCounted DEF SeriesRunInv
      <4>2. CASE ~Released
        BY <1>5, <4>2, UnsettledReleased DEF AcqRunning, AcqGo, SeriesRunInv,
           SeriesInv, Settled, AcqSettled, GivenUp
      <4> QED
        BY <4>1, <4>2
    <3> QED
      BY <1>1, <1>2, <2>1, <2>2, <3>1 DEF Promise!Next, Promise!GetBusy
  <2>3. CASE ~AcqReady
    BY <1>1, <1>2, <2>1, <2>3 DEF Promise!vars, AcqReady
  <2> QED
    BY <2>2, <2>3
<1>6. CASE AcqPause
  <2>1. ~AcqReady' /\ Released
    BY <1>6, UnsettledReleased, SettledOut DEF AcqPause, AcqGo, AcqReady,
       SeriesRunInv, SeriesInv, AcqLoopPCs
  <2>2. AcqReady => GivenUp
    BY <1>6, <2>1 DEF AcqPause, AcqGo, AcqReady, SeriesRunInv, SeriesInv, FinishInv,
       AcqLoopPCs
  <2>3. CASE AcqReady
    BY <1>1, <1>2, <2>1, <2>2, <2>3 DEF Promise!Next, Promise!GetBusy
  <2>4. CASE ~AcqReady
    BY <1>1, <1>2, <2>1, <2>4 DEF Promise!vars, AcqReady
  <2> QED
    BY <2>3, <2>4
<1>7. CASE AcqQuit
  <2>1. AcqReady' /\ GivenUp
    BY <1>7 DEF AcqQuit, AcqReady, GivenUp
  <2> QED
    BY <1>1, <1>2, <2>1 DEF Promise!Next, Promise!GetReady, Promise!vars, AcqReady
<1>8. CASE AcqIdle
  <2>1. AcqReady' = AcqReady \/ (AcqReady' /\ acq_pc = "idle1")
    BY <1>8 DEF AcqIdle, AcqGo, AcqReady, statVars
  <2>2. acq_pc = "idle1" =>
           GivenUp \/ (m_read_frame_nb = m_nb_frames /\ Len(delivered) = m_nb_frames)
    BY <1>4, UnsettledReleased, SettledOut, GivenCounted DEF SeriesRunInv, SeriesInv,
       FinishInv, Finished, AllRead
  <2>3. CASE AcqReady' = AcqReady
    BY <1>1, <1>2, <2>3 DEF Promise!vars
  <2>4. CASE AcqReady' /\ ~AcqReady /\ acq_pc = "idle1"
    BY <1>1, <1>2, <2>2, <2>4 DEF Promise!Next, Promise!GetReady
  <2>5. AcqReady' /\ AcqReady => AcqReady' = AcqReady
    BY DEF AcqReady
  <2> QED
    BY <2>1, <2>3, <2>4, <2>5
<1>9. CASE ~AcqRunning /\ ~AcqPause /\ ~AcqQuit /\ ~AcqIdle
  <2>1. m_status' = m_status
    BY <1>9 DEF AcqStep, AcqGo, AcqJump, AcqCond, AcqBegin,
       AcqTop, AcqToWait, AcqWait, AcqWake, AcqRelease,
       AcqLoop, AcqExpose, AcqRestart, AcqStop, AcqFlushed, AcqCount,
       AcqStore, AcqCheck, AcqPoll, AcqPollAbort, AcqCollect, AcqSignal,
       AcqInner, AcqAfter, AcqFin, AcqFinWake, acqRest, acqButStat, statVars
  <2> QED
    BY <1>1, <1>2, <2>1 DEF Promise!vars, AcqReady
<1> QED
  BY <1>5, <1>6, <1>7, <1>8, <1>9

LEMMA PromiseRead ==
    ASSUME SeriesRunInv, ReadStep
    PROVE  [Promise!Next]_(Promise!vars)
<1>1. UNCHANGED <<m_quit, m_abort, m_nb_frames, m_trigger_mode, m_status>>
  BY ReadFrame, ReadKeepsStatus
<1>2. GivenUp' = GivenUp /\ AcqReady' = AcqReady
  BY <1>1 DEF GivenUp, AcqReady
<1>3. /\ m_acq_frame_nb \in Int /\ m_read_frame_nb \in Int
      /\ m_nb_frames \in Nat \ {0} /\ delivered \in Seq(Deliveries)
      /\ frame \in [buf : Int, data : Int, whole : BOOLEAN]
  BY CameraAssumption DEF SeriesRunInv, TypeOK, CameraTypeOK
<1>4. read_pc \in {"ready", "store"} => Started /\ Released
  BY UnsettledReleased, SettledOut DEF SeriesRunInv, SeriesInv
<1>5. Started => m_acq_frame_nb <= m_nb_frames
  BY <1>3 DEF SeriesRunInv, SeriesInv, AcqInv
<1>6. CASE ReadReady
  <2>1. Started /\ Released /\ read_pc = "ready"
    BY <1>4, <1>6 DEF ReadReady, ReadGo
  <2>2. /\ m_read_frame_nb < m_acq_frame_nb /\ 0 <= m_read_frame_nb
        /\ frame.buf = m_read_frame_nb /\ frame.data = m_read_frame_nb
        /\ m_read_frame_nb = Len(delivered)
        /\ m_trigger_mode # "IntTrig" => frame.whole
    BY <2>1 DEF SeriesRunInv, SeriesInv, ReadInv, CountMatchesDelivered,
       WholeInv
  <2>3. Len(delivered) < m_nb_frames
    BY <1>3, <1>5, <2>1, <2>2
  <2>4. ~AcqReady \/ GivenUp
    BY <1>3, <1>5, <2>1, <2>2 DEF SeriesRunInv, SeriesInv, FinishInv, Finished, AllRead, AcqReady
  <2>5. /\ delivered' = Append(delivered, Promise!Frame(m_read_frame_nb, frame.whole))
        /\ m_read_frame_nb' = m_read_frame_nb
    BY <1>6, <2>2 DEF ReadReady, Promise!Frame
  <2>6. frame.whole \in BOOLEAN
    BY <1>3
  <2>7. Promise!Give
    BY <1>1, <1>2, <2>2, <2>3, <2>4, <2>5, <2>6 DEF Promise!Give
  <2> QED
    BY <2>7 DEF Promise!Next
<1>7. CASE ReadStore
  <2>1. /\ m_read_frame_nb = Len(delivered) - 1
        /\ m_read_frame_nb' = m_read_frame_nb + 1
        /\ delivered' = delivered
    BY <1>4, <1>7 DEF ReadStore, ReadGo, SeriesRunInv, SeriesInv, ReadInv,
       CountMatchesDelivered
  <2>2. Len(delivered) \in Nat
    BY <1>3
  <2>3. Promise!Report
    BY <1>1, <1>2, <2>1, <2>2 DEF Promise!Report
  <2> QED
    BY <2>3 DEF Promise!Next
<1>8. CASE ~ReadReady /\ ~ReadStore
  <2>1. UNCHANGED <<m_read_frame_nb, delivered>>
    BY <1>8 DEF ReadStep, ReadGo, ReadJump, ReadCond, ReadSetWait, ReadBegin,
       ReadTop, ReadToWait, ReadWait, ReadWake, ReadQuit, ReadAborted,
       ReadRelease, ReadBuffer, ReadLoopEnd, ReadData, ReadIncr,
       ReadLock, ReadDrained, ReadFlag, readRest
  <2> QED
    BY <1>1, <1>2, <2>1 DEF Promise!vars
<1> QED
  BY <1>6, <1>7, <1>8

LEMMA PromiseStart ==
    ASSUME SeriesRunInv, StartCalls
    PROVE  [Promise!Next]_(Promise!vars)
<1> USE DEF CtlGo, ctlRest, confVars, flagVars, statVars, AcqReady, GivenUp
<1>1. m_status = "Idle"
  BY StartsSettled DEF SeriesRunInv, SeriesInv
<1>2. FrameCounts \subseteq Nat \ {0} /\ m_nb_frames \in Nat \ {0}
  BY CameraAssumption DEF SeriesRunInv, TypeOK, CameraTypeOK
<1>3. CASE \E n \in FrameCounts : SetNbFrames(n)
  BY <1>1, <1>2, <1>3 DEF SetNbFrames, Promise!Next, Promise!Ask
<1>4. CASE \E mode \in TrigModes : SetTrigMode(mode)
  BY <1>1, <1>2, <1>4 DEF SetTrigMode, Promise!Next, Promise!Ask
<1>5. CASE StartResetRead
  BY <1>1, <1>5 DEF StartResetRead, FirstFrame, Promise!Next, Promise!Begin
<1>6. CASE StartRelease
  <2>1. delivered = <<>> /\ m_acq_frame_nb = 0 /\ Started
    BY <1>6 DEF StartRelease, SeriesRunInv, SeriesInv, CallsInv, StartPCs, Started
  <2>2. m_read_frame_nb = 0
    BY <2>1, GivenCounted DEF SeriesRunInv
  <2> QED
    BY <1>1, <1>6, <2>1, <2>2 DEF StartRelease, Promise!Next, Promise!LetGo
<1>7. CASE StartAcq \/ StartHw
  BY <1>7 DEF StartAcq, StartHw, Promise!vars
<1> QED
  BY <1>3, <1>4, <1>5, <1>6, <1>7 DEF StartCalls

LEMMA PromiseCalls ==
    ASSUME FlagsInv, OtherCalls
    PROVE  [Promise!Next]_(Promise!vars)
<1> USE DEF CtlGo, CtlJump, ctlRest, confVars, flagVars, statVars, AcqReady, GivenUp
<1>1. CASE StopAcq
  BY <1>1 DEF StopAcq, Promise!Next, Promise!Stop
<1>2. CASE \/ RaiseQuit("quit_acq", "join_acq")
           \/ RaiseQuit("quit_read", "join_read")
  BY <1>2 DEF RaiseQuit, Promise!Next, Promise!Stop
<1>3. CASE ResetStatus
  <2>1. /\ m_status' = "Idle" /\ m_abort
        /\ UNCHANGED <<m_quit, m_abort, m_nb_frames, m_trigger_mode,
                       m_read_frame_nb, delivered>>
    BY <1>3 DEF ResetStatus, FlagsInv
  <2>2. CASE m_status = "Idle"
    BY <2>1, <2>2 DEF Promise!vars
  <2>3. CASE m_status # "Idle"
    BY <2>1, <2>3 DEF Promise!Next, Promise!GetReady
  <2> QED
    BY <2>2, <2>3
<1>4. CASE ~StopAcq /\ ~ResetStatus /\ ~RaiseQuit("quit_acq", "join_acq")
           /\ ~RaiseQuit("quit_read", "join_read")
  BY <1>4 DEF OtherCalls, Poll, CallStop, CallReset, AskToStop, DeleteCamera,
     CtlFault, JoinAcq, JoinRead, Promise!vars
<1> QED
  BY <1>1, <1>2, <1>3, <1>4

LEMMA PromiseNext == SeriesRunInv /\ [Next]_vars => [Promise!Next]_(Promise!vars)
<1> SUFFICES ASSUME SeriesRunInv, [Next]_vars
             PROVE  [Promise!Next]_(Promise!vars)
  OBVIOUS
<1>1. CASE \/ Closed \/ UNCHANGED vars
           \/ HwFrame \/ HwComplete \/ SpuriousWakeup \/ AcqFault \/ ReadFault
  BY <1>1 DEF Closed, vars, HwFrame, HwComplete, HwUnchanged, SpuriousWakeup,
     AcqFault, ReadFault, shared, statVars, flagVars, confVars, Promise!vars,
     AcqReady, GivenUp
<1>2. CASE OtherCalls
  BY <1>2, PromiseCalls DEF SeriesRunInv, SeriesInv
<1> QED
  BY <1>1, <1>2, PromiseAcq, PromiseRead, PromiseStart
  DEF Next, CtlCall, CtlStep, StartCalls, OtherCalls

(* Any number of acquisitions implement FrameDelivery: three threads that  *)
(* share a status, two counters and the flags without the mutex look to    *)
(* Lima like the sequential device that FrameDelivery describes.           *)
THEOREM KeepsPromise ==
    ASSUME CallerFinishes, SpuriousWakeups = FALSE
    PROVE  Spec => PromiseKept
<1>1. Init => Promise!Init /\ SeriesRunInv
  BY PromiseInit, SeriesInit
<1>2. SeriesRunInv /\ [Next]_vars => SeriesRunInv'
  BY SeriesNext
<1>3. SeriesRunInv /\ [Next]_vars => [Promise!Next]_(Promise!vars)
  BY PromiseNext
<1> QED
  BY <1>1, <1>2, <1>3, PTL DEF Spec, PromiseKept, Promise!Spec
=============================================================================
