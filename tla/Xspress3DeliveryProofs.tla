----------------------- MODULE Xspress3DeliveryProofs -----------------------
(***************************************************************************)
(* Who holds the mutex in one acquisition, and when its detector is        *)
(* stopped.                                                                *)
(***************************************************************************)
EXTENDS Xspress3AcqProofs, Xspress3Delivery

-----------------------------------------------------------------------------
(* Whoever is not dormant was released. *)
LEMMA AwakeReleased ==
    CallerInv /\ DormantInv /\ ~Dormant => Released
BY DEF CallerInv, DormantInv, Released, StartPCs

(* While a call is being prepared nothing was released, and both threads   *)
(* sleep.                                                                  *)
LEMMA CallsDormant ==
    ASSUME MaxStarts <= 1, TypeOK, SingleRunInv,
           \/ \E n \in FrameCounts : SetNbFrames(n)
           \/ \E mode \in TrigModes : SetTrigMode(mode)
           \/ StartAcq \/ StartResetRead \/ StartHw \/ StartRelease
    PROVE  Dormant /\ ~Released
<1>1. starts \in Nat /\ MaxStarts \in Nat /\ starts <= MaxStarts
  BY CameraAssumption DEF TypeOK, CameraTypeOK
<1>2. starts = 0 \/ ctl_pc \in StartPCs
  BY <1>1 DEF SetNbFrames, SetTrigMode, StartAcq, StartResetRead, StartHw,
     StartRelease, CtlGo, StartPCs, SingleRunInv, CallerInv
<1> QED
  BY <1>1, <1>2 DEF SingleRunInv, DormantInv, Released

(* The other calls, and what becomes of starts.                            *)
OtherCalls ==
    \/ Poll \/ CallStop \/ CallReset \/ DeleteCamera \/ CtlFault \/ StopAcq
    \/ ResetStatus \/ JoinAcq \/ JoinRead
    \/ RaiseQuit("quit_acq", "join_acq") \/ RaiseQuit("quit_read", "join_read")

LEMMA FlagsInit == Init => FlagsInv
BY DEF Init, FlagsInv

LEMMA FlagsNext == FlagsInv /\ [Next]_vars => FlagsInv'
<1> SUFFICES ASSUME FlagsInv, [Next]_vars PROVE FlagsInv'
  OBVIOUS
<1> USE DEF FlagsInv
<1>1. CASE Closed \/ UNCHANGED vars
  BY <1>1 DEF Closed, vars, shared, flagVars, ctlVars
<1>2. CASE AcqStep
  BY <1>2, AcqFrame
<1>3. CASE ReadStep
  BY <1>3, ReadFrame
<1>4. CASE HwFrame \/ HwComplete \/ SpuriousWakeup \/ AcqFault \/ ReadFault
  BY <1>4 DEF HwFrame, HwComplete, HwUnchanged, SpuriousWakeup, AcqFault,
     ReadFault, shared, flagVars, ctlVars
<1>5. CASE CtlCall \/ CtlStep \/ CtlFault
  BY <1>5 DEF CtlCall, CtlStep, CtlFault, CtlGo, CtlJump, Poll, AskToStop,
     CallStop, CallReset, ResetStatus, DeleteCamera, SetNbFrames, SetTrigMode,
     StartAcq, StartResetRead, StartHw, StartRelease, StopAcq, RaiseQuit,
     JoinAcq, JoinRead, flagVars
<1> QED
  BY <1>1, <1>2, <1>3, <1>4, <1>5 DEF Next

-----------------------------------------------------------------------------
(* The mutex.                                                              *)

LEMMA LockInit == Init => LockInv
BY DEF Init, LockInv, Released, ReadOwnPCs

LEMMA LockAcq ==
    ASSUME TypeOK, SingleRunInv, LockInv, AcqStep
    PROVE  LockInv'
<1>1. UNCHANGED <<m_quit, m_read_frame_nb, m_nb_frames, m_trigger_mode, read_pc,
                  ctl_pc, starts>>
  BY AcqFrame
<1>2. Released' <=> Released
  BY <1>1 DEF Released
<1>3. /\ m_acq_frame_nb \in Int /\ m_nb_frames \in Nat \ {0}
      /\ m_read_frame_nb \in Int /\ completed_frames \in Nat
  BY CameraAssumption DEF TypeOK, CameraTypeOK
<1>4. acq_pc \notin AcqIdlePCs \cup {"quitcheck"} => Released
  BY AwakeReleased DEF SingleRunInv, Dormant
<1>5. Released => Started
  BY DEF Released, Started, StartPCs
<1>6. ~Released => m_wait_flag /\ (acq_pc = "quitcheck" => m_quit)
  BY AwakeReleased DEF SingleRunInv, Dormant
<1>7. Released => /\ m_acq_frame_nb \in 0 .. m_nb_frames
                  /\ acq_pc \in IntPCs => m_acq_frame_nb < m_nb_frames
                  /\ m_read_frame_nb <= m_acq_frame_nb
  BY <1>5 DEF SingleRunInv, AcqInv, ReadInv
<1> USE <1>1, <1>2, <1>3, <1>4, <1>6, <1>7 DEF LockInv, AcqPast, Resting,
        AllRead, ReadOwnPCs, AcqIdlePCs, ExtPCs, AcqGo, AcqJump, AcqCond, acqRest,
        acqButStat, condVars
<1>11. CASE AcqBegin
  BY <1>11 DEF AcqBegin, Lock, Free, NoThread
<1>12. CASE AcqTop
  BY <1>12 DEF AcqTop, Leave, NoThread
<1>13. CASE AcqToWait
  BY <1>13 DEF AcqToWait
<1>14. CASE AcqWait
  BY <1>14 DEF AcqWait, Wait, NoThread
<1>15. CASE AcqWake
  BY <1>15 DEF AcqWake, Resume, Free, NoThread
<1>16. CASE AcqRunning
  BY <1>16 DEF AcqRunning
<1>17. CASE AcqQuit
  BY <1>17 DEF AcqQuit, Leave, NoThread
<1>18. CASE AcqRelease
  BY <1>18 DEF AcqRelease, Unlock, NoThread
<1>19. CASE AcqLoop
  BY <1>19 DEF AcqLoop, FramesToAcquire
<1>20. CASE AcqExpose
  BY <1>20 DEF AcqExpose
<1>21. CASE AcqPause
  BY <1>21 DEF AcqPause
<1>22. CASE AcqRestart
  BY <1>22 DEF AcqRestart
<1>23. CASE AcqCount
  BY <1>23 DEF AcqCount, Lock, Free, NoThread
<1>24. CASE AcqStore
  BY <1>24 DEF AcqStore
<1>25. CASE AcqCheck
  BY <1>25 DEF AcqCheck
<1>26. CASE AcqPoll
  BY <1>26 DEF AcqPoll
<1>27. CASE AcqPollAbort
  BY <1>27 DEF AcqPollAbort, AfterPoll
<1>28. CASE AcqCollect
  BY <1>28 DEF AcqCollect, Lock, Free, NoThread
<1>29. CASE AcqSignal
  BY <1>29 DEF AcqSignal, BroadcastThenUnlock, NoThread
<1>30. CASE AcqInner
  BY <1>30 DEF AcqInner
<1>31. CASE AcqAfter
  BY <1>31 DEF AcqAfter, WaitForRead
<1>32. CASE AcqFin
  BY <1>32 DEF AcqFin, LockThenWait
<1>33. CASE AcqFinWake
  BY <1>33 DEF AcqFinWake, Resume, Free, NoThread
<1>34. CASE AcqIdle
  BY <1>34 DEF AcqIdle
<1>35. CASE \/ AcqStop("stop_last", "flush_last")
            \/ AcqStop("stop_abort", "flush_abort")
            \/ AcqStop("stop_ext", "flush_ext")
  BY <1>35 DEF AcqStop
<1>36. CASE \/ AcqFlushed("flush_last", "count")
            \/ AcqFlushed("flush_abort", "after")
            \/ AcqFlushed("flush_ext", "collect")
  BY <1>36 DEF AcqFlushed
<1> QED
  BY <1>11, <1>12, <1>13, <1>14, <1>15, <1>16, <1>17, <1>18, <1>19, <1>20,
     <1>21, <1>22, <1>23, <1>24, <1>25, <1>26, <1>27, <1>28, <1>29, <1>30,
     <1>31, <1>32, <1>33, <1>34, <1>35, <1>36 DEF AcqStep

LEMMA LockRead ==
    ASSUME TypeOK, SingleRunInv, LockInv, ReadStep
    PROVE  LockInv'
<1>1. UNCHANGED <<m_wait_flag, m_quit, m_acq_frame_nb, m_nb_frames, acq_pc,
                  ctl_pc, starts>>
  BY ReadFrame
<1>2. (Released' <=> Released) /\ (Resting' <=> Resting)
  BY <1>1 DEF Released, Resting
<1>3. /\ m_acq_frame_nb \in Int /\ m_nb_frames \in Nat \ {0}
      /\ m_read_frame_nb \in Int /\ acq_pc \in AcqPCs
  BY CameraAssumption DEF TypeOK, CameraTypeOK
<1>4. read_pc \notin ReadIdlePCs \cup {"quitcheck"} => Released
  BY AwakeReleased DEF SingleRunInv, Dormant
<1>5. Released => Started
  BY DEF Released, Started, StartPCs
<1>6. ~Released => m_wait_flag /\ (read_pc = "quitcheck" => m_quit)
  BY AwakeReleased DEF SingleRunInv, Dormant
<1>7. Released => /\ acq_pc \in IntPCs => m_acq_frame_nb < m_nb_frames
                  /\ m_read_frame_nb <= m_acq_frame_nb
                  /\ m_acq_frame_nb <= m_nb_frames
                  /\ read_pc = "store" => m_read_frame_nb < m_nb_frames
  BY <1>3, <1>5 DEF SingleRunInv, AcqInv, ReadInv
<1>8. m_read_frame_nb' = m_read_frame_nb \/ read_pc = "store"
  BY DEF ReadStep, ReadGo, ReadJump, ReadCond, ReadSetWait, ReadBegin, ReadTop,
     ReadToWait, ReadWait, ReadWake, ReadQuit, ReadAborted, ReadRelease,
     ReadBuffer, ReadLoopEnd, ReadData, ReadReady, ReadIncr, ReadStore,
     ReadLock, ReadDrained, ReadFlag, readRest
<1>9. AcqPast => AcqPast'
  BY <1>1, <1>2, <1>3, <1>4, <1>7, <1>8
  DEF AcqPast, AllRead, Resting, ReadIdlePCs
<1>10. AcqPast => /\ acq_pc \notin {"store", "check", "signal"}
                  /\ acq_pc \in {"top", "towait", "wait", "quitcheck"} =>
                        m_wait_flag \/ m_quit
  BY DEF AcqPast, Resting
<1> USE <1>1, <1>2, <1>3, <1>4, <1>6, <1>9, <1>10 DEF LockInv,
        ReadOwnPCs, ReadIdlePCs, ReadGo, ReadJump, ReadCond, ReadSetWait, condVars
<1>11. CASE ReadBegin
  BY <1>11 DEF ReadBegin, Lock, Free, NoThread
<1>12. CASE ReadTop
  BY <1>12 DEF ReadTop, Leave, NoThread
<1>13. CASE ReadToWait
  BY <1>13 DEF ReadToWait
<1>14. CASE ReadWait
  BY <1>14 DEF ReadWait, Wait, NoThread
<1>15. CASE ReadWake
  BY <1>15 DEF ReadWake, Resume, Free, NoThread
<1>16. CASE ReadQuit
  BY <1>16 DEF ReadQuit, Leave, NoThread
<1>17. CASE ReadAborted
  BY <1>17 DEF ReadAborted
<1>18. CASE ReadRelease
  BY <1>18 DEF ReadRelease, Unlock, NoThread
<1>19. CASE ReadBuffer
  BY <1>19 DEF ReadBuffer
<1>20. CASE ReadLoopEnd
  BY <1>20 DEF ReadLoopEnd
<1>21. CASE ReadData
  BY <1>21 DEF ReadData
<1>22. CASE ReadReady
  BY <1>22 DEF ReadReady
<1>23. CASE ReadIncr
  BY <1>23 DEF ReadIncr
<1>24. CASE ReadStore
  BY <1>24 DEF ReadStore
<1>25. CASE ReadLock
  BY <1>25 DEF ReadLock, Lock, Free, NoThread
<1>26. CASE ReadDrained
  <2>1. CASE m_nb_frames # m_read_frame_nb
    BY <1>26, <2>1 DEF ReadDrained, WakeAcqThread
  <2>2. CASE m_nb_frames = m_read_frame_nb
    <3>1. Released /\ AllRead /\ m_acq_frame_nb = m_nb_frames
      BY <1>26, <2>2, <1>7 DEF ReadDrained, AllRead
    <3>2. owner = "read" \/ AcqPast
      BY <1>26 DEF ReadDrained
    <3>3. owner = "read" => acq_pc \notin {"store", "check", "signal"}
      OBVIOUS
    <3>4. acq_pc \notin IntPCs \cup ExtPCs
      BY <3>1, <1>7
    <3>5. Resting => m_wait_flag \/ m_quit
      BY <3>1
    <3>6. acq_pc # "dead" => AcqPast
      BY <3>1, <3>2, <3>3, <3>4, <3>5
      DEF AcqPast, Resting, IntPCs, ExtPCs, AcqPCs, AcqIdlePCs, AcqLoopPCs
    <3>7. acq_pc = "dead" => AcqPast
      BY <3>1 DEF AcqPast
    <3> QED
      BY <1>26, <3>1, <3>6, <3>7 DEF ReadDrained, WakeAcqThread,
         BroadcastThenUnlock, NoThread
  <2> QED
    BY <2>1, <2>2
<1>27. CASE ReadFlag
  BY <1>27 DEF ReadFlag
<1> QED
  BY <1>11, <1>12, <1>13, <1>14, <1>15, <1>16, <1>17, <1>18, <1>19, <1>20,
     <1>21, <1>22, <1>23, <1>24, <1>25, <1>26, <1>27 DEF ReadStep

LEMMA LockStart ==
    ASSUME MaxStarts <= 1, TypeOK, SingleRunInv, FlagsInv, LockInv,
           \/ \E n \in FrameCounts : SetNbFrames(n)
           \/ \E mode \in TrigModes : SetTrigMode(mode)
           \/ StartAcq \/ StartResetRead \/ StartHw \/ StartRelease
    PROVE  LockInv'
<1>1. Dormant /\ ~Released
  BY CallsDormant
<1>2. UNCHANGED <<acq_pc, read_pc, owner, auto>>
  BY DEF SetNbFrames, SetTrigMode, StartAcq, StartResetRead, StartHw,
     StartRelease, CtlGo, LockedBroadcast, condVars, acqVars, readVars
<1>3. /\ acq_pc \in {"top", "towait", "wait"} => owner = "acq"
      /\ acq_pc = "quitcheck" => m_quit \/ owner = "acq"
      /\ read_pc \in ReadOwnPCs => owner = "read"
      /\ acq_pc \notin {"store", "check", "signal"} \cup ExtPCs
      /\ read_pc \notin {"loop", "read", "ready", "incr", "store", "lock"}
      /\ "quitcheck" \in {acq_pc, read_pc} => m_quit
  BY <1>1 DEF LockInv, AcqPast, Dormant, AcqIdlePCs, ReadIdlePCs, ExtPCs
<1>4. ~m_quit
  BY DEF FlagsInv, SetNbFrames, SetTrigMode, StartAcq, StartResetRead, StartHw,
     StartRelease, CtlGo
<1>5. CASE StartRelease
  BY <1>2, <1>3, <1>4, <1>5 DEF StartRelease, LockedBroadcast, Free, NoThread,
     CtlGo, ctlRest, SingleRunInv, CallerInv, StartPCs, LockInv, ReadOwnPCs
<1>6. CASE ~StartRelease
  <2>1. ~Released'
    BY <1>1, <1>6 DEF SetNbFrames, SetTrigMode, StartAcq, StartResetRead,
       StartHw, CtlGo, ctlRest, Released, StartPCs
  <2> QED
    BY <1>2, <1>3, <1>4, <2>1 DEF LockInv, ReadOwnPCs
<1> QED
  BY <1>5, <1>6

LEMMA LockCalls ==
    ASSUME TypeOK, SingleRunInv, LockInv, OtherCalls
    PROVE  LockInv'
<1> USE DEF CtlGo, CtlJump, ctlRest
<1>1. UNCHANGED <<m_acq_frame_nb, m_read_frame_nb, m_nb_frames, starts, acq_pc,
                  read_pc, auto, owner>>
  BY DEF OtherCalls, Poll, CallStop, CallReset, AskToStop, DeleteCamera,
     CtlFault, StopAcq, ResetStatus, JoinAcq, JoinRead, RaiseQuit, QuitWakes,
     Locked, LockedBroadcast, condVars, acqVars, readVars, confVars
<1>2. /\ m_wait_flag => m_wait_flag'
      /\ m_quit => m_quit'
      /\ m_wait_flag' = m_wait_flag \/ owner = NoThread
  BY DEF OtherCalls, Poll, CallStop, CallReset, AskToStop, DeleteCamera,
     CtlFault, StopAcq, ResetStatus, JoinAcq, JoinRead, RaiseQuit, QuitWakes,
     Locked, LockedBroadcast, Free, flagVars
<1>3. \/ Released' <=> Released
      \/ ctl_pc = "start_hw"
  BY DEF OtherCalls, Poll, CallStop, CallReset, AskToStop, DeleteCamera,
     CtlFault, StopAcq, ResetStatus, JoinAcq, JoinRead, RaiseQuit, Released,
     StartPCs
<1>4. CASE Released' <=> Released
  <2>1. AcqPast => AcqPast'
    BY <1>1, <1>2, <1>4 DEF AcqPast, AllRead, Resting
  <2>2. Resting' <=> Resting
    BY <1>1 DEF Resting
  <2> QED
    BY <1>1, <1>2, <1>4, <2>1, <2>2 DEF LockInv, ReadOwnPCs, NoThread
<1>5. CASE ctl_pc = "start_hw"
  <2>1. Dormant /\ ~Released /\ m_acq_frame_nb = 0
    BY <1>5 DEF Released, SingleRunInv, CallerInv, DormantInv, StartPCs
  <2>2. UNCHANGED flagVars
    BY <1>5 DEF OtherCalls, Poll, CallStop, CallReset, AskToStop, DeleteCamera,
       CtlFault, StopAcq, ResetStatus, JoinAcq, JoinRead, RaiseQuit
  <2> QED
    BY <1>1, <2>1, <2>2 DEF LockInv, AcqPast, ReadOwnPCs, Dormant, AcqIdlePCs,
       ReadIdlePCs, ExtPCs, flagVars
<1> QED
  BY <1>3, <1>4, <1>5

LEMMA LockOther ==
    ASSUME TypeOK, SingleRunInv, LockInv,
           HwFrame \/ HwComplete \/ SpuriousWakeup \/ AcqFault \/ ReadFault
    PROVE  LockInv'
<1>1. UNCHANGED <<m_wait_flag, m_quit, m_acq_frame_nb, m_read_frame_nb,
                  m_nb_frames, ctl_pc, starts>>
  BY DEF HwFrame, HwComplete, HwUnchanged, SpuriousWakeup, AcqFault, ReadFault,
     shared, flagVars, confVars, ctlVars
<1>2. Released' <=> Released
  BY <1>1 DEF Released
<1>3. CASE HwFrame \/ HwComplete \/ SpuriousWakeup
  <2>1. UNCHANGED <<owner, auto, acq_pc, read_pc>>
    BY <1>3 DEF HwFrame, HwComplete, HwUnchanged, SpuriousWakeup, WakeSpuriously,
       condVars, acqVars, readVars
  <2>2. (AcqPast' <=> AcqPast) /\ (Resting' <=> Resting)
    BY <1>1, <1>2, <2>1 DEF AcqPast, AllRead, Resting
  <2> QED
    BY <1>1, <1>2, <2>1, <2>2 DEF LockInv, ReadOwnPCs
<1>4. CASE AcqFault
  <2>1. acq_pc' = "dead" /\ read_pc' = read_pc
    BY <1>4 DEF AcqFault, readVars
  <2>2. Released
    BY <1>4, AwakeReleased DEF AcqFault, SingleRunInv, Dormant, AcqIdlePCs
  <2>3. AcqPast'
    BY <1>2, <2>1, <2>2 DEF AcqPast
  <2>4. auto' \subseteq auto
    BY <1>4 DEF AcqFault, Leave
  <2> QED
    BY <1>2, <2>1, <2>3, <2>4 DEF LockInv, Resting, ExtPCs
<1>5. CASE ReadFault
  <2>1. acq_pc' = acq_pc /\ read_pc' = "dead" /\ owner' = owner
    BY <1>5 DEF ReadFault, acqVars, Leave, LockInv
  <2>2. (AcqPast' <=> AcqPast) /\ (Resting' <=> Resting)
    BY <1>1, <1>2, <2>1 DEF AcqPast, AllRead, Resting
  <2> QED
    BY <1>1, <1>2, <2>1, <2>2 DEF LockInv, ReadOwnPCs
<1> QED
  BY <1>3, <1>4, <1>5

LEMMA LockNext ==
    ASSUME MaxStarts <= 1
    PROVE  TypeOK /\ SingleRunInv /\ FlagsInv /\ LockInv /\ [Next]_vars => LockInv'
<1> SUFFICES ASSUME TypeOK, SingleRunInv, FlagsInv, LockInv, [Next]_vars
             PROVE  LockInv'
  OBVIOUS
<1>1. CASE Closed \/ UNCHANGED vars
  BY <1>1 DEF Closed, vars, condVars, shared, flagVars, confVars, acqVars, readVars,
     ctlVars, LockInv, AcqPast, Released, AllRead, Resting
<1>2. CASE \/ \E n \in FrameCounts : SetNbFrames(n)
           \/ \E mode \in TrigModes : SetTrigMode(mode)
           \/ StartAcq \/ StartResetRead \/ StartHw \/ StartRelease
  BY <1>2, LockStart
<1>3. CASE OtherCalls
  BY <1>3, LockCalls
<1>4. CASE HwFrame \/ HwComplete \/ SpuriousWakeup \/ AcqFault \/ ReadFault
  BY <1>4, LockOther
<1> QED
  BY <1>1, <1>2, <1>3, <1>4, LockAcq, LockRead
  DEF Next, CtlCall, CtlStep, OtherCalls

LEMMA Locks ==
    ASSUME MaxStarts <= 1
    PROVE  Spec => [](TypeOK /\ SingleRunInv /\ FlagsInv /\ LockInv)
<1>1. Init => TypeOK /\ SingleRunInv /\ FlagsInv /\ LockInv
  BY TypeInit, RunInit, FlagsInit, LockInit
<1>2. TypeOK /\ SingleRunInv /\ FlagsInv /\ LockInv /\ [Next]_vars
      => (TypeOK /\ SingleRunInv /\ FlagsInv /\ LockInv)'
  BY TypeNext, RunNext, FlagsNext, LockNext
<1> QED
  BY <1>1, <1>2, PTL DEF Spec

(* In one acquisition the acq thread keeps the mutex from the moment it    *)
(* counts a frame until it has signalled it, although wait() and unlock()  *)
(* release it whoever owns it, and the read thread calls wait() without    *)
(* owning it once all frames are read: by then the acq thread counts none. *)
THEOREM CountingIsExclusive ==
    ASSUME MaxStarts <= 1
    PROVE  Spec => []CountingHoldsMutex
<1>1. LockInv => CountingHoldsMutex
  BY DEF LockInv, CountingHoldsMutex
<1> QED
  BY <1>1, Locks, PTL

-----------------------------------------------------------------------------
(* The detector.                                                           *)

LEMMA DetectorInit == Init => DetectorInv
BY DEF Init, DetectorInv, Released

LEMMA DetectorAcq ==
    ASSUME TypeOK, AcqInv, DetectorInv, AcqStep
    PROVE  DetectorInv'
<1>1. UNCHANGED <<m_abort, m_nb_frames, m_trigger_mode, ctl_pc, starts>>
  BY AcqFrame
<1> SUFFICES ASSUME Released, m_trigger_mode = "IntTrig" PROVE DetectorInv'
  BY <1>1 DEF DetectorInv, Released
<1>2. Released'
  BY <1>1 DEF Released
<1>3. Started
  BY DEF Released, Started, StartPCs
<1>4. /\ m_acq_frame_nb \in 0 .. m_nb_frames
      /\ m_nb_frames \in Nat \ {0}
      /\ acq_pc \in IntPCs => m_acq_frame_nb < m_nb_frames
      /\ acq_pc = "store" => acq_reg = m_acq_frame_nb
      /\ acq_pc \notin ExtPCs
  BY <1>3, CameraAssumption DEF TypeOK, CameraTypeOK, AcqInv
<1> USE <1>1, <1>2, <1>4 DEF DetectorInv, AllCounted, MoreAfterThis, AcqGo,
        AcqJump, AcqCond, acqRest, acqButStat, hwVars
<1>11. CASE AcqExpose
  BY <1>11 DEF AcqExpose, IntPCs
<1>12. CASE AcqPause
  BY <1>12 DEF AcqPause, HwPause, CloseFrame
<1>13. CASE AcqCount
  BY <1>13 DEF AcqCount
<1>14. CASE AcqStore
  BY <1>14 DEF AcqStore, IntPCs
<1>15. CASE \/ AcqStop("stop_last", "flush_last")
            \/ AcqStop("stop_abort", "flush_abort")
            \/ AcqStop("stop_ext", "flush_ext")
  <2>1. ~hw_running' /\ m_acq_frame_nb' = m_acq_frame_nb
    BY <1>15 DEF AcqStop, HwStop, CloseFrame
  <2>2. /\ acq_pc' \in {"flush_last", "flush_abort", "flush_ext"}
        /\ acq_pc' = "flush_abort" => acq_pc = "stop_abort"
    BY <1>15 DEF AcqStop
  <2> QED
    BY <2>1, <2>2
<1>16. CASE \/ AcqFlushed("flush_last", "count")
            \/ AcqFlushed("flush_abort", "after")
            \/ AcqFlushed("flush_ext", "collect")
  BY <1>16 DEF AcqFlushed
<1>17. CASE AcqLoop
  BY <1>17 DEF AcqLoop, FramesToAcquire
<1>18. CASE AcqInner
  BY <1>18 DEF AcqInner
<1>19. CASE \/ AcqBegin \/ AcqTop \/ AcqToWait \/ AcqWait \/ AcqWake \/ AcqRunning
            \/ AcqQuit \/ AcqRelease \/ AcqRestart \/ AcqCheck \/ AcqSignal
            \/ AcqAfter \/ AcqFin \/ AcqFinWake \/ AcqIdle
  <2>1. UNCHANGED <<m_acq_frame_nb, hw_running>>
    BY <1>19 DEF AcqBegin, AcqTop, AcqToWait, AcqWait, AcqWake, AcqRunning,
       AcqQuit, AcqRelease, AcqRestart, AcqCheck, AcqSignal, AcqAfter, AcqFin,
       AcqFinWake, AcqIdle
  <2>2. /\ acq_pc' \notin {"flush_last", "store", "pause", "restart",
                           "stop_abort", "flush_abort", "after"}
        /\ acq_pc' = "count" => acq_pc = "restart"
        /\ acq_pc' \in {"fin", "finwake", "idle1"} =>
              acq_pc \in {"after", "fin", "finwake"}
    BY <1>19 DEF AcqBegin, AcqTop, AcqToWait, AcqWait, AcqWake, AcqRunning,
       AcqQuit, AcqRelease, AcqRestart, AcqCheck, AcqSignal, AcqAfter, AcqFin,
       AcqFinWake, AcqIdle, WaitForRead
  <2> QED
    BY <2>1, <2>2
<1>20. CASE AcqPoll \/ AcqPollAbort \/ AcqCollect
  BY <1>20 DEF AcqPoll, AcqPollAbort, AcqCollect, ExtPCs
<1> QED
  BY <1>11, <1>12, <1>13, <1>14, <1>15, <1>16, <1>17, <1>18, <1>19, <1>20
  DEF AcqStep

LEMMA DetectorNext ==
    ASSUME MaxStarts <= 1
    PROVE  TypeOK /\ SingleRunInv /\ DetectorInv /\ [Next]_vars => DetectorInv'
<1> SUFFICES ASSUME TypeOK, SingleRunInv, DetectorInv, [Next]_vars
             PROVE  DetectorInv'
  OBVIOUS
<1> USE DEF DetectorInv
<1>1. CASE Closed \/ UNCHANGED vars
  BY <1>1 DEF Closed, vars, shared, flagVars, confVars, acqVars, ctlVars, hwVars,
     Released, AllCounted, MoreAfterThis
<1>2. CASE ReadStep
  BY <1>2, ReadFrame DEF Released, AllCounted, MoreAfterThis
<1>3. CASE HwFrame \/ HwComplete \/ SpuriousWakeup \/ AcqFault \/ ReadFault
  <2>1. /\ UNCHANGED <<m_abort, m_acq_frame_nb, m_nb_frames, m_trigger_mode,
                       ctl_pc, starts, hw_running>>
        /\ acq_pc' \in {acq_pc, "dead"}
    BY <1>3 DEF HwFrame, HwComplete, HwUnchanged, SpuriousWakeup, AcqFault,
       ReadFault, shared, flagVars, confVars, acqVars, ctlVars, hwVars
  <2> QED
    BY <2>1 DEF Released, AllCounted, MoreAfterThis
<1>4. CASE \/ \E n \in FrameCounts : SetNbFrames(n)
           \/ \E mode \in TrigModes : SetTrigMode(mode)
           \/ StartAcq \/ StartResetRead \/ StartHw \/ StartRelease
           \/ CtlFault /\ ctl_pc = "start_hw"
  <2>1. Dormant /\ acq_pc' = acq_pc
    BY <1>4, CallsDormant DEF SetNbFrames, SetTrigMode, StartAcq,
       StartResetRead, StartHw, StartRelease, CtlFault, CtlGo, acqVars,
       SingleRunInv, DormantInv, StartPCs
  <2>2. Released' => m_acq_frame_nb' = 0 /\ 0 < m_nb_frames'
    <3>1. m_nb_frames \in Nat \ {0}
      BY CameraAssumption DEF TypeOK, CameraTypeOK
    <3> QED
      BY <1>4, <3>1, CallsDormant DEF SetNbFrames, SetTrigMode, StartAcq,
       StartResetRead, StartHw, StartRelease, CtlFault, CtlGo, ctlRest, confVars,
       SingleRunInv, CallerInv, Released, StartPCs
  <2> QED
    BY <2>1, <2>2 DEF AllCounted, Dormant, AcqIdlePCs
<1>5. CASE OtherCalls /\ ctl_pc # "start_hw"
  <2>1. /\ UNCHANGED <<m_acq_frame_nb, m_nb_frames, m_trigger_mode, acq_pc,
                       starts, hw_running>>
        /\ m_abort => m_abort'
        /\ Released' <=> Released
    BY <1>5 DEF OtherCalls, CtlGo, CtlJump, ctlRest, Poll, CallStop, CallReset,
       AskToStop, DeleteCamera, CtlFault, StopAcq, ResetStatus, JoinAcq,
       JoinRead, RaiseQuit, acqVars, confVars, flagVars, hwVars, Released, StartPCs
  <2> QED
    BY <2>1 DEF AllCounted, MoreAfterThis
<1> QED
  BY <1>1, <1>2, <1>3, <1>4, <1>5, DetectorAcq
  DEF SingleRunInv, Next, CtlCall, CtlStep, OtherCalls, CtlFault, Poll, CallStop,
      CallReset, AskToStop, DeleteCamera, StopAcq, ResetStatus, JoinAcq, JoinRead,
      RaiseQuit, CtlGo, CtlJump

(* An IntTrig acquisition that the caller did not stop has stopped the     *)
(* detector when the acq thread goes Idle, however many frames it had.     *)
THEOREM DetectorIsStopped ==
    ASSUME MaxStarts <= 1
    PROVE  Spec => []IdleMeansStopped
<1>1. Init => TypeOK /\ SingleRunInv /\ DetectorInv
  BY TypeInit, RunInit, DetectorInit
<1>2. TypeOK /\ SingleRunInv /\ DetectorInv /\ [Next]_vars
      => (TypeOK /\ SingleRunInv /\ DetectorInv)'
  BY TypeNext, RunNext, DetectorNext
<1>3. TypeOK /\ SingleRunInv /\ DetectorInv => IdleMeansStopped
  <2>1. TypeOK /\ SingleRunInv /\ acq_pc = "idle1" => Released
    BY AwakeReleased DEF SingleRunInv, Dormant, AcqIdlePCs
  <2> QED
    BY <2>1 DEF DetectorInv, IdleMeansStopped
<1> QED
  BY <1>1, <1>2, <1>3, PTL DEF Spec

-----------------------------------------------------------------------------
(* What DeliveryInv says of the places of both threads, the counters and   *)
(* the frames holds throughout one acquisition.                            *)
THEOREM DeliveryIsInvariant ==
    ASSUME MaxStarts <= 1
    PROVE  Spec => []DeliveryInv
<1>1. Init => TypeOK /\ DeliveryInv
  BY TypeInit, RunInit, WholeInit DEF DeliveryInv
<1>2. TypeOK /\ DeliveryInv /\ [Next]_vars => (TypeOK /\ DeliveryInv)'
  BY TypeNext, RunNext, WholeNext DEF DeliveryInv
<1> QED
  BY <1>1, <1>2, PTL DEF Spec
=============================================================================
