------------------------- MODULE Xspress3AcqProofs -------------------------
(***************************************************************************)
(* Proofs about the acquisition engine, for any number of frames and under *)
(* any policy of the caller: the types, the locks, and the delivery of the *)
(* frames of one acquisition, where SingleRunInv is an inductive invariant *)
(* when startAcq is called at most once.                                   *)
(***************************************************************************)
EXTENDS Xspress3AcqInv, TLAPS

LEMMA CondTyped ==
    ASSUME CondTypeOK, NEW t \in Threads,
           \/ Lock(t) \/ Unlock(t) \/ Wait(t) \/ Resume(t) \/ LockThenWait(t)
           \/ BroadcastThenUnlock(t) \/ Leave(t) \/ WakeSpuriously(t)
           \/ Locked \/ LockedBroadcast
    PROVE  CondTypeOK'
<1>1. owner' \in Threads \cup {NoThread}
  BY DEF CondTypeOK, Lock, Unlock, Wait, Resume, LockThenWait, BroadcastThenUnlock, Leave, WakeSpuriously,
         Locked, LockedBroadcast, condVars, Free
<1>2. waiting' \subseteq Threads /\ auto' \subseteq Threads
  BY DEF CondTypeOK, Lock, Unlock, Wait, Resume, LockThenWait, BroadcastThenUnlock, Leave, WakeSpuriously,
         Locked, LockedBroadcast, condVars, Free
<1> QED
  BY <1>1, <1>2 DEF CondTypeOK

LEMMA FrameTyped ==
    ASSUME NEW f \in [buf : Int, data : Int, whole : BOOLEAN],
           NEW d \in Int, NEW w \in BOOLEAN
    PROVE  [f EXCEPT !.data = d, !.whole = w]
              \in [buf : Int, data : Int, whole : BOOLEAN]
OBVIOUS

LEMMA AcqTyped == CameraTypeOK /\ AcqStep => CameraTypeOK'
<1> SUFFICES ASSUME CameraTypeOK, AcqStep PROVE CameraTypeOK'
  OBVIOUS
<1> USE CameraAssumption DEF CameraTypeOK, AcqPCs, AcqIdlePCs, AcqLoopPCs, AcqGo, acqRest, AcqJump, AcqCond, readVars, ctlVars, confVars, hwVars, statVars, acqButStat
<1>1. CASE AcqBegin
  BY <1>1 DEF AcqBegin
<1>2. CASE AcqWait
  BY <1>2 DEF AcqWait
<1>3. CASE AcqWake
  BY <1>3 DEF AcqWake
<1>4. CASE AcqToWait
  <2>1. /\ AcqGo("towait", "wait")
        /\ m_thread_running' \in BOOLEAN
        /\ UNCHANGED <<m_status, acqButStat>>
    BY <1>4 DEF AcqToWait
  <2> QED
    BY <2>1
<1>5. CASE AcqRunning
  <2>1. /\ AcqGo("towait", "quitcheck")
        /\ m_status' = "Running" /\ m_thread_running' \in BOOLEAN
        /\ UNCHANGED acqButStat
    BY <1>5 DEF AcqRunning
  <2> QED
    BY <2>1
<1>6. CASE AcqQuit
  <2>1. /\ AcqGo("quitcheck", "dead")
        /\ m_status' = "Idle" /\ m_thread_running' \in BOOLEAN
        /\ UNCHANGED acqButStat
    BY <1>6 DEF AcqQuit
  <2> QED
    BY <2>1
<1>7. CASE AcqRelease
  BY <1>7 DEF AcqRelease
<1>8. CASE AcqLoop
  BY <1>8 DEF AcqLoop
<1>9. CASE AcqExpose
  BY <1>9 DEF AcqExpose
<1>10. CASE AcqRestart
  BY <1>10 DEF AcqRestart
<1>11. CASE AcqCount
  BY <1>11 DEF AcqCount
<1>12. CASE AcqStore
  BY <1>12 DEF AcqStore
<1>13. CASE AcqCheck
  BY <1>13 DEF AcqCheck
<1>14. CASE AcqCollect
  BY <1>14 DEF AcqCollect
<1>15. CASE AcqSignal
  <2>1. m_read_wait_flag' \in BOOLEAN
    BY <1>15 DEF AcqSignal
  <2> QED
    BY <1>15, <2>1 DEF AcqSignal
<1>16. CASE AcqInner
  BY <1>16 DEF AcqInner
<1>17. CASE AcqFin
  BY <1>17 DEF AcqFin
<1>18. CASE AcqFinWake
  BY <1>18 DEF AcqFinWake
<1>19. CASE AcqAfter
  BY <1>19 DEF AcqAfter, WaitForRead
<1>20. CASE AcqPollAbort
  BY <1>20 DEF AcqPollAbort, AfterPoll
<1>21. CASE AcqPoll
  BY <1>21 DEF AcqPoll, Progress
<1>22. CASE AcqTop
  <2>1. CASE AcqJump("top", "towait")
    BY <2>1
  <2>2. CASE AcqCond("top", "dead", Leave("acq"))
    BY <2>2
  <2> QED
    BY <1>22, <2>1, <2>2 DEF AcqTop
<1>23. CASE AcqIdle
  <2>1. acq_pc' \in {"idle2", "idle3", "top"}
    BY <1>23 DEF AcqIdle
  <2>2. m_status' \in {"Idle", m_status} /\ m_thread_running' \in BOOLEAN /\ m_wait_flag' \in BOOLEAN
    BY <1>23 DEF AcqIdle
  <2>3. /\ UNCHANGED <<m_quit, m_abort, m_read_wait_flag, m_acq_frame_nb>>
        /\ UNCHANGED <<m_read_frame_nb, confVars, completed_frames, acq_reg>>
    BY <1>23 DEF AcqIdle
  <2>4. UNCHANGED <<readVars, ctlVars, faults, hwVars, delivered>>
    BY <1>23 DEF AcqIdle
  <2>5. /\ m_status' \in {"Idle", "Paused", "Running"} /\ acq_pc' \in AcqPCs
        /\ m_thread_running' \in BOOLEAN /\ m_wait_flag' \in BOOLEAN
    BY <2>1, <2>2
  <2>6. /\ m_quit' \in BOOLEAN /\ m_abort' \in BOOLEAN
        /\ m_read_wait_flag' \in BOOLEAN
        /\ m_acq_frame_nb' \in Int /\ m_read_frame_nb' \in Int
        /\ m_nb_frames' \in FrameCounts \cup {1}
        /\ m_trigger_mode' \in TrigModes \cup {"IntTrig"}
        /\ completed_frames' \in Nat /\ acq_reg' \in Int
    BY <2>3
  <2>7. /\ read_pc' \in ReadPCs /\ continueFlag' \in BOOLEAN /\ read_reg' \in Int
        /\ frame' \in [buf : Int, data : Int, whole : BOOLEAN]
        /\ ctl_pc' \in CtlPCs /\ may_start' \in BOOLEAN
        /\ starts' \in 0 .. MaxStarts /\ stops' \in 0 .. MaxStops
        /\ ctl_pc' \in {"set_mode", "prepared"} => starts' < MaxStarts
        /\ faults' \in 0 .. MaxFaults
        /\ hw_running' \in BOOLEAN /\ hw_closed' \in Nat /\ hw_done' \in Nat
        /\ hw_done' <= hw_closed' /\ delivered' \in Seq(Deliveries)
    BY <2>4
  <2> HIDE DEF AcqPCs
  <2> QED
    BY <2>5, <2>6, <2>7
<1>24. CASE AcqPause
  BY <1>24 DEF AcqPause, HwPause, CloseFrame
<1>25. ASSUME NEW from, NEW to \in AcqPCs, AcqStop(from, to)
       PROVE  CameraTypeOK'
  <2>1. hw_running' = FALSE /\ hw_done' = hw_done
    BY <1>25 DEF AcqStop, HwStop, CloseFrame
  <2>2. hw_closed' \in {hw_closed, hw_closed + 1}
    BY <1>25 DEF AcqStop, HwStop, CloseFrame
  <2>3. /\ hw_running' \in BOOLEAN
        /\ hw_closed' \in Nat /\ hw_done' \in Nat /\ hw_done' <= hw_closed'
    <3>1. hw_running' \in BOOLEAN
      BY <2>1
    <3>2. hw_closed' \in Nat /\ hw_done' \in Nat /\ hw_done' <= hw_closed'
      BY <2>1, <2>2
    <3> QED
      BY <3>1, <3>2
  <2>4. /\ AcqGo(from, to)
        /\ UNCHANGED <<statVars, m_wait_flag, m_read_wait_flag, m_acq_frame_nb,
                        completed_frames, acq_reg>>
    BY <1>25 DEF AcqStop
  <2> QED
    BY <1>25, <2>3, <2>4
<1>26. ASSUME NEW from, NEW to \in AcqPCs, AcqFlushed(from, to)
       PROVE  CameraTypeOK'
  BY <1>26 DEF AcqFlushed
<1> QED
  BY <1>1, <1>2, <1>3, <1>4, <1>5, <1>6, <1>7, <1>8, <1>9, <1>10, <1>11, <1>12, <1>13, <1>14, <1>15, <1>16, <1>17, <1>18, <1>19, <1>20, <1>21, <1>22, <1>23, <1>24, <1>25, <1>26 DEF AcqStep

LEMMA ReadTyped == CameraTypeOK /\ ReadStep => CameraTypeOK'
<1> SUFFICES ASSUME CameraTypeOK, ReadStep PROVE CameraTypeOK'
  OBVIOUS
<1> USE CameraAssumption DEF CameraTypeOK, ReadPCs, ReadIdlePCs, ReadGo, readRest, ReadJump, ReadCond, ReadSetWait, acqVars, ctlVars, confVars, hwVars, statVars, flagVars
<1>1. CASE ReadBegin
  BY <1>1 DEF ReadBegin
<1>2. CASE ReadToWait
  BY <1>2 DEF ReadToWait
<1>3. CASE ReadWait
  BY <1>3 DEF ReadWait
<1>4. CASE ReadWake
  BY <1>4 DEF ReadWake
<1>5. CASE ReadQuit
  BY <1>5 DEF ReadQuit
<1>6. CASE ReadAborted
  BY <1>6 DEF ReadAborted
<1>7. CASE ReadRelease
  BY <1>7 DEF ReadRelease
<1>8. CASE ReadBuffer
  <2>1. frame' \in [buf : Int, data : Int, whole : BOOLEAN]
    BY <1>8 DEF ReadBuffer
  <2> QED
    BY <1>8, <2>1 DEF ReadBuffer
<1>9. CASE ReadLoopEnd
  BY <1>9 DEF ReadLoopEnd
<1>10. CASE ReadIncr
  BY <1>10 DEF ReadIncr
<1>11. CASE ReadStore
  BY <1>11 DEF ReadStore
<1>12. CASE ReadLock
  BY <1>12 DEF ReadLock
<1>13. CASE ReadDrained
  BY <1>13 DEF ReadDrained
<1>14. CASE ReadFlag
  BY <1>14 DEF ReadFlag
<1>15. CASE ReadData
  <2>1. frame' = [frame EXCEPT !.data = m_read_frame_nb,
                               !.whole = m_read_frame_nb < hw_done]
    BY <1>15, Zenon DEF ReadData, FrameToRead
  <2>2. frame' \in [buf : Int, data : Int, whole : BOOLEAN]
    <3>1. (m_read_frame_nb < hw_done) \in BOOLEAN
      OBVIOUS
    <3> QED
      BY <2>1, <3>1, FrameTyped, Zenon
  <2> QED
    BY <1>15, <2>2 DEF ReadData
<1>16. CASE ReadTop
  <2>1. CASE ReadJump("top", "towait")
    BY <2>1
  <2>2. CASE ReadCond("top", "dead", Leave("read"))
    BY <2>2
  <2> QED
    BY <1>16, <2>1, <2>2 DEF ReadTop
<1>17. CASE ReadReady
  <2>1. [nb |-> m_read_frame_nb, buf |-> frame.buf,
         data |-> frame.data, whole |-> frame.whole] \in Deliveries
    BY DEF Deliveries
  <2>2. delivered' \in Seq(Deliveries)
    BY <1>17, <2>1 DEF ReadReady
  <2>3. continueFlag' \in BOOLEAN
    BY <1>17 DEF ReadReady
  <2> QED
    BY <1>17, <2>2, <2>3 DEF ReadReady, NoFrame
<1> QED
  BY <1>1, <1>2, <1>3, <1>4, <1>5, <1>6, <1>7, <1>8, <1>9, <1>10, <1>11, <1>12, <1>13, <1>14, <1>15, <1>16, <1>17 DEF ReadStep

LEMMA CtlTyped == CameraTypeOK /\ (CtlCall \/ CtlStep \/ CtlFault) => CameraTypeOK'
<1> SUFFICES ASSUME CameraTypeOK, CtlCall \/ CtlStep \/ CtlFault PROVE CameraTypeOK'
  OBVIOUS
<1> USE CameraAssumption DEF CameraTypeOK, CtlPCs, CtlGo, AskToStop, ctlRest, CtlJump, RaiseQuit, acqVars, readVars, confVars, hwVars, statVars, flagVars
<1>1. CASE Poll
  <2>1. MayStart \in BOOLEAN
    BY DEF MayStart
  <2>2. may_start' \in BOOLEAN
    BY <1>1, <2>1 DEF Poll
  <2> QED
    BY <1>1, <2>2 DEF Poll
<1>2. CASE CallStop
  BY <1>2 DEF CallStop
<1>3. CASE DeleteCamera
  BY <1>3 DEF DeleteCamera
<1>4. CASE StartHw
  <2>1. /\ ctl_pc' = "start_lock" /\ UNCHANGED <<statVars, m_read_wait_flag>>
        /\ UNCHANGED <<acqVars, readVars>>
    BY <1>4 DEF StartHw
  <2>2. hw_running' = TRUE /\ hw_closed' = 0 /\ hw_done' = 0
    BY <1>4 DEF StartHw, HwStart
  <2>3. UNCHANGED <<flagVars, confVars, may_start, ctlRest>>
    BY <1>4 DEF StartHw
  <2>4. /\ hw_running' \in BOOLEAN /\ hw_closed' \in Nat /\ hw_done' \in Nat
        /\ hw_done' <= hw_closed'
    BY <2>2
  <2>5. /\ ctl_pc' \in CtlPCs
        /\ ctl_pc' \in {"set_mode", "prepared"} => starts' < MaxStarts
    BY <2>1
  <2>6. /\ m_status' \in {"Idle", "Paused", "Running"}
        /\ m_thread_running' \in BOOLEAN /\ m_read_wait_flag' \in BOOLEAN
        /\ acq_pc' \in AcqPCs /\ completed_frames' \in Nat /\ acq_reg' \in Int
        /\ read_pc' \in ReadPCs /\ continueFlag' \in BOOLEAN
        /\ read_reg' \in Int /\ frame' \in [buf : Int, data : Int, whole : BOOLEAN]
    BY <2>1
  <2>7. /\ m_wait_flag' \in BOOLEAN /\ m_quit' \in BOOLEAN /\ m_abort' \in BOOLEAN
        /\ m_acq_frame_nb' \in Int /\ m_read_frame_nb' \in Int
        /\ m_nb_frames' \in FrameCounts \cup {1}
        /\ m_trigger_mode' \in TrigModes \cup {"IntTrig"}
        /\ may_start' \in BOOLEAN /\ starts' \in 0 .. MaxStarts
        /\ stops' \in 0 .. MaxStops /\ faults' \in 0 .. MaxFaults
        /\ delivered' \in Seq(Deliveries)
    BY <2>3
  <2> HIDE DEF CtlPCs
  <2> QED
    BY <2>4, <2>5, <2>6, <2>7
<1>5. CASE StartRelease
  <2>1. /\ ctl_pc' = "free" /\ UNCHANGED <<statVars, m_read_wait_flag>>
        /\ UNCHANGED <<acqVars, readVars>>
    BY <1>5 DEF StartRelease
  <2>2. m_wait_flag' = FALSE /\ m_quit' = FALSE /\ m_abort' = FALSE
    BY <1>5 DEF StartRelease
  <2>3. UNCHANGED <<confVars, may_start, hwVars, ctlRest>>
    BY <1>5 DEF StartRelease
  <2>4. /\ m_status' \in {"Idle", "Paused", "Running"}
        /\ m_thread_running' \in BOOLEAN /\ m_read_wait_flag' \in BOOLEAN
        /\ acq_pc' \in AcqPCs /\ completed_frames' \in Nat /\ acq_reg' \in Int
        /\ read_pc' \in ReadPCs /\ continueFlag' \in BOOLEAN
        /\ read_reg' \in Int /\ frame' \in [buf : Int, data : Int, whole : BOOLEAN]
    BY <2>1
  <2>5. m_wait_flag' \in BOOLEAN /\ m_quit' \in BOOLEAN /\ m_abort' \in BOOLEAN
    BY <2>2
  <2>6. /\ m_acq_frame_nb' \in Int /\ m_read_frame_nb' \in Int
        /\ m_nb_frames' \in FrameCounts \cup {1}
        /\ m_trigger_mode' \in TrigModes \cup {"IntTrig"}
        /\ may_start' \in BOOLEAN /\ starts' \in 0 .. MaxStarts
        /\ stops' \in 0 .. MaxStops /\ faults' \in 0 .. MaxFaults
        /\ hw_running' \in BOOLEAN /\ hw_closed' \in Nat /\ hw_done' \in Nat
        /\ hw_done' <= hw_closed' /\ delivered' \in Seq(Deliveries)
    BY <2>3
  <2>7. /\ ctl_pc' \in CtlPCs
        /\ ctl_pc' \in {"set_mode", "prepared"} => starts' < MaxStarts
    BY <2>1
  <2> HIDE DEF CtlPCs
  <2> QED
    BY <2>4, <2>5, <2>6, <2>7
<1>6. CASE StopAcq
  BY <1>6 DEF StopAcq
<1>7. CASE JoinAcq
  BY <1>7 DEF JoinAcq
<1>8. CASE JoinRead
  BY <1>8 DEF JoinRead
<1>9. CASE CtlFault
  BY <1>9 DEF CtlFault
<1>10. CASE RaiseQuit("quit_acq", "join_acq")
  BY <1>10 DEF RaiseQuit
<1>11. CASE RaiseQuit("quit_read", "join_read")
  BY <1>11 DEF RaiseQuit
<1>12. CASE StartResetRead
  BY <1>12 DEF StartResetRead, FirstFrame
<1>13. CASE StartAcq
  BY <1>13 DEF StartAcq
<1>16. CASE CallReset
  BY <1>16 DEF CallReset
<1>17. CASE ResetStatus
  BY <1>17 DEF ResetStatus
<1>14. ASSUME NEW nb \in FrameCounts, SetNbFrames(nb) PROVE CameraTypeOK'
  <2>1. /\ CtlGo("free", "set_mode") /\ starts < MaxStarts
        /\ m_nb_frames' \in FrameCounts
        /\ may_start' \in BOOLEAN
        /\ UNCHANGED <<flagVars, m_trigger_mode, hwVars, ctlRest>>
    BY <1>14 DEF SetNbFrames
  <2> QED
    BY <2>1
<1>15. ASSUME NEW mode \in TrigModes, SetTrigMode(mode) PROVE CameraTypeOK'
  BY <1>15 DEF SetTrigMode
<1> QED
  BY <1>1, <1>2, <1>3, <1>4, <1>5, <1>6, <1>7, <1>8, <1>9, <1>10, <1>11, <1>12, <1>13, <1>14, <1>15, <1>16, <1>17
     DEF CtlCall, CtlStep

-----------------------------------------------------------------------------
(* The detector, the failing SDK calls and the spurious wakeups. *)
LEMMA OtherTyped ==
    CameraTypeOK
    /\ (HwFrame \/ HwComplete \/ AcqFault \/ ReadFault \/ SpuriousWakeup)
    => CameraTypeOK'
<1> SUFFICES ASSUME CameraTypeOK,
                    HwFrame \/ HwComplete \/ AcqFault \/ ReadFault
                    \/ SpuriousWakeup
             PROVE  CameraTypeOK'
  OBVIOUS
<1> USE CameraAssumption DEF CameraTypeOK, shared, statVars, flagVars, confVars,
        acqVars, readVars, ctlVars, hwVars
<1>1. CASE HwFrame
  BY <1>1 DEF HwFrame, HwUnchanged
<1>2. CASE HwComplete
  BY <1>2 DEF HwComplete, HwUnchanged
<1>3. CASE AcqFault
  BY <1>3 DEF AcqFault, AcqPCs, AcqIdlePCs
<1>4. CASE ReadFault
  BY <1>4 DEF ReadFault, ReadPCs, ReadIdlePCs
<1>5. CASE SpuriousWakeup
  BY <1>5 DEF SpuriousWakeup
<1> QED
  BY <1>1, <1>2, <1>3, <1>4, <1>5

(* Each step of a thread does at most one operation on the Cond. *)
LEMMA AcqCondTyped == CondTypeOK /\ (AcqStep \/ AcqFault) => CondTypeOK'
<1> SUFFICES ASSUME CondTypeOK, AcqStep \/ AcqFault PROVE CondTypeOK'
  OBVIOUS
<1>1. \/ condVars' = condVars
      \/ Lock("acq") \/ Unlock("acq") \/ Wait("acq") \/ Resume("acq")
      \/ LockThenWait("acq") \/ BroadcastThenUnlock("acq") \/ Leave("acq")
  BY DEF AcqStep, AcqFault, AcqGo, AcqJump, AcqCond, AcqBegin, AcqTop,
         AcqToWait, AcqWait, AcqWake, AcqRunning, AcqQuit, AcqRelease, AcqLoop,
         AcqExpose, AcqPause, AcqRestart, AcqStop, AcqFlushed, AcqCount,
         AcqStore, AcqCheck, AcqPoll, AcqPollAbort, AcqCollect, AcqSignal,
         AcqInner, AcqAfter, AcqFin, AcqFinWake, AcqIdle
<1>2. CASE condVars' = condVars
  BY <1>2 DEF condVars, CondTypeOK
<1>3. "acq" \in Threads
  BY CameraAssumption
<1> QED
  BY <1>1, <1>2, <1>3, CondTyped

LEMMA ReadCondTyped == CondTypeOK /\ (ReadStep \/ ReadFault) => CondTypeOK'
<1> SUFFICES ASSUME CondTypeOK, ReadStep \/ ReadFault PROVE CondTypeOK'
  OBVIOUS
<1>1. \/ condVars' = condVars
      \/ Lock("read") \/ Unlock("read") \/ Wait("read") \/ Resume("read")
      \/ BroadcastThenUnlock("read") \/ Leave("read")
  BY DEF ReadStep, ReadFault, ReadGo, ReadJump, ReadCond, ReadSetWait,
         ReadBegin, ReadTop, ReadToWait, ReadWait, ReadWake, ReadQuit,
         ReadAborted, ReadRelease, ReadBuffer, ReadLoopEnd, ReadData, ReadReady,
         ReadIncr, ReadStore, ReadLock, ReadDrained, ReadFlag, WakeAcqThread
<1>2. CASE condVars' = condVars
  BY <1>2 DEF condVars, CondTypeOK
<1>3. "read" \in Threads
  BY CameraAssumption
<1> QED
  BY <1>1, <1>2, <1>3, CondTyped

LEMMA CtlCondTyped ==
    CondTypeOK /\ (CtlCall \/ CtlStep \/ CtlFault) => CondTypeOK'
<1> SUFFICES ASSUME CondTypeOK, CtlCall \/ CtlStep \/ CtlFault
             PROVE  CondTypeOK'
  OBVIOUS
<1>1. condVars' = condVars \/ Locked \/ LockedBroadcast
  BY DEF CtlCall, CtlStep, CtlFault, CtlGo, CtlJump, Poll, AskToStop, CallStop,
         CallReset, ResetStatus,
         DeleteCamera, SetNbFrames, SetTrigMode, StartAcq, StartResetRead,
         StartHw, StartRelease, StopAcq, RaiseQuit, QuitWakes, JoinAcq, JoinRead
<1>2. CASE condVars' = condVars
  BY <1>2 DEF condVars, CondTypeOK
<1>3. "ctl" \in Threads
  BY CameraAssumption
<1> QED
  BY <1>1, <1>2, <1>3, CondTyped

LEMMA OtherCondTyped ==
    CondTypeOK /\ (HwFrame \/ HwComplete \/ SpuriousWakeup) => CondTypeOK'
<1> SUFFICES ASSUME CondTypeOK, HwFrame \/ HwComplete \/ SpuriousWakeup
             PROVE  CondTypeOK'
  OBVIOUS
<1>1. CASE HwFrame \/ HwComplete
  BY <1>1 DEF HwFrame, HwComplete, HwUnchanged, condVars, CondTypeOK
<1>2. CASE SpuriousWakeup
  <2>1. PICK t \in {"acq", "read"} : WakeSpuriously(t)
    BY <1>2 DEF SpuriousWakeup
  <2>2. t \in Threads
    BY <2>1, CameraAssumption
  <2> QED
    BY <2>1, <2>2, CondTyped
<1> QED
  BY <1>1, <1>2

LEMMA TypeInit == Init => TypeOK
<1> SUFFICES ASSUME Init PROVE TypeOK
  OBVIOUS
<1>1. CondTypeOK
  BY DEF Init, CondInit, CondTypeOK
<1>2. CameraTypeOK
  <2>1. /\ m_thread_running \in BOOLEAN /\ m_abort \in BOOLEAN
        /\ m_wait_flag \in BOOLEAN /\ m_read_wait_flag \in BOOLEAN
        /\ m_quit \in BOOLEAN /\ continueFlag \in BOOLEAN
        /\ may_start \in BOOLEAN /\ hw_running \in BOOLEAN
    BY Zenon DEF Init
  <2>2. frame \in [buf : Int, data : Int, whole : BOOLEAN]
    BY DEF Init, NoFrame
  <2>3. delivered \in Seq(Deliveries)
    BY DEF Init
  <2>4. /\ acq_pc \in AcqPCs /\ read_pc \in ReadPCs /\ ctl_pc \in CtlPCs
        /\ ctl_pc \notin {"set_mode", "prepared"}
    BY DEF Init, AcqPCs, AcqIdlePCs, ReadPCs, ReadIdlePCs, CtlPCs
  <2> QED
    BY <2>1, <2>2, <2>3, <2>4, CameraAssumption DEF Init, CameraTypeOK
<1> QED
  BY <1>1, <1>2 DEF TypeOK

LEMMA TypeNext == TypeOK /\ [Next]_vars => TypeOK'
<1> SUFFICES ASSUME TypeOK, [Next]_vars PROVE TypeOK'
  OBVIOUS
<1> USE DEF TypeOK
<1>1. CASE Closed \/ UNCHANGED vars
  <2>1. UNCHANGED vars
    BY <1>1 DEF Closed
  <2>2. CondTypeOK'
    BY <2>1 DEF vars, condVars, CondTypeOK
  <2>3. CameraTypeOK'
    BY <2>1 DEF vars, shared, statVars, flagVars, confVars, acqVars, readVars,
                ctlVars, hwVars, CameraTypeOK
  <2> QED
    BY <2>2, <2>3
<1>2. CASE AcqStep
  BY <1>2, AcqTyped, AcqCondTyped
<1>3. CASE ReadStep
  BY <1>3, ReadTyped, ReadCondTyped
<1>4. CASE CtlCall \/ CtlStep \/ CtlFault
  BY <1>4, CtlTyped, CtlCondTyped
<1>5. CASE HwFrame \/ HwComplete \/ SpuriousWakeup
  BY <1>5, OtherTyped, OtherCondTyped
<1>6. CASE AcqFault \/ ReadFault
  BY <1>6, OtherTyped, AcqCondTyped, ReadCondTyped
<1> QED
  BY <1>1, <1>2, <1>3, <1>4, <1>5, <1>6 DEF Next

(* The variables of the Camera, of its two threads and of the mutex they   *)
(* share keep their types, and memory never holds a frame that was not     *)
(* closed, whatever the caller does.                                       *)
THEOREM TypeCorrect == Spec => []TypeOK
<1>1. Init => TypeOK
  BY TypeInit
<1>2. TypeOK /\ [Next]_vars => TypeOK'
  BY TypeNext
<1> QED
  BY <1>1, <1>2, PTL DEF Spec

-----------------------------------------------------------------------------
(* The acq thread.                                                         *)

(* A step of the acq thread leaves the caller and the read thread alone. *)
LEMMA AcqFrame ==
    AcqStep => UNCHANGED <<m_quit, m_abort, m_read_frame_nb, m_nb_frames,
                           m_trigger_mode, read_pc, frame, continueFlag,
                           read_reg, ctl_pc, may_start, starts, stops, delivered>>
BY DEF AcqStep, AcqGo, AcqJump, AcqCond, AcqBegin, AcqTop,
       AcqToWait, AcqWait, AcqWake, AcqRunning, AcqQuit, AcqRelease, AcqLoop,
       AcqExpose, AcqPause, AcqRestart, AcqStop, AcqFlushed, AcqCount,
       AcqStore, AcqCheck, AcqPoll, AcqPollAbort, AcqCollect, AcqSignal,
       AcqInner, AcqAfter, AcqFin, AcqFinWake, AcqIdle, confVars, readVars, ctlVars

(* Before startAcq releases it, it goes nowhere and counts nothing. *)
LEMMA AcqDormant ==
    TypeOK /\ Dormant /\ AcqStep => Dormant' /\ m_acq_frame_nb' = m_acq_frame_nb
<1> SUFFICES ASSUME TypeOK, Dormant, AcqStep
             PROVE  Dormant' /\ m_acq_frame_nb' = m_acq_frame_nb
  OBVIOUS
<1>1. acq_pc \in {"begin", "top", "towait", "wait", "wake", "dead", "quitcheck"}
  BY DEF Dormant, AcqIdlePCs
<1>2. \/ AcqBegin \/ AcqTop \/ AcqToWait \/ AcqWait \/ AcqWake \/ AcqRunning
      \/ AcqQuit \/ AcqRelease
  BY <1>1 DEF AcqStep, AcqGo, AcqJump, AcqCond, AcqLoop, AcqExpose, AcqPause,
         AcqRestart, AcqStop, AcqFlushed, AcqCount, AcqStore, AcqCheck, AcqPoll,
         AcqPollAbort, AcqCollect, AcqSignal, AcqInner, AcqAfter, AcqFin,
         AcqFinWake, AcqIdle
<1>3. UNCHANGED <<m_wait_flag, m_read_wait_flag, m_acq_frame_nb>>
  BY <1>2 DEF AcqGo, AcqJump, AcqCond, AcqBegin, AcqTop, AcqToWait, AcqWait,
         AcqWake, AcqRunning, AcqQuit, AcqRelease, acqRest, acqButStat
<1>4. UNCHANGED <<m_quit, read_pc>>
  BY AcqFrame
<1>5. /\ acq_pc' \in AcqIdlePCs \cup {"quitcheck"}
      /\ acq_pc' = "quitcheck" => m_quit
  BY <1>2 DEF Dormant, AcqGo, AcqJump, AcqCond, AcqBegin, AcqTop, AcqToWait,
         AcqWait, AcqWake, AcqRunning, AcqQuit, AcqRelease, AcqIdlePCs
<1> QED
  BY <1>3, <1>4, <1>5 DEF Dormant

(* Once released, it counts forwards, as AcqInv says. *)
LEMMA AcqCounts ==
    TypeOK /\ AcqInv /\ Started /\ AcqStep
    => AcqInv' /\ m_acq_frame_nb <= m_acq_frame_nb'
<1> SUFFICES ASSUME TypeOK, AcqInv, Started, AcqStep
             PROVE  AcqInv' /\ m_acq_frame_nb <= m_acq_frame_nb'
  OBVIOUS
<1>0. Started'
  BY AcqFrame DEF Started
<1>t. /\ m_acq_frame_nb \in Int /\ m_nb_frames \in Nat \ {0} /\ hw_done \in Nat
      /\ completed_frames \in Nat /\ acq_reg \in Int
  BY CameraAssumption DEF TypeOK, CameraTypeOK
<1> USE <1>0, <1>t DEF AcqInv, IntPCs, ExtPCs, AcqGo, AcqJump, AcqCond, acqRest,
        confVars, hwVars
<1>1. CASE AcqBegin
  BY <1>1 DEF AcqBegin
<1>2. CASE AcqTop
  BY <1>2 DEF AcqTop
<1>3. CASE AcqToWait
  BY <1>3 DEF AcqToWait, acqButStat
<1>4. CASE AcqWait
  BY <1>4 DEF AcqWait
<1>5. CASE AcqWake
  BY <1>5 DEF AcqWake
<1>6. CASE AcqRunning
  BY <1>6 DEF AcqRunning, acqButStat
<1>7. CASE AcqQuit
  BY <1>7 DEF AcqQuit, acqButStat
<1>8. CASE AcqRelease
  BY <1>8 DEF AcqRelease
<1>9. CASE AcqLoop
  BY <1>9 DEF AcqLoop, FramesToAcquire
<1>10. CASE AcqExpose
  BY <1>10 DEF AcqExpose
<1>11. CASE AcqPause
  BY <1>11 DEF AcqPause, HwPause, CloseFrame
<1>12. CASE AcqRestart
  BY <1>12 DEF AcqRestart
<1>13. CASE AcqCount
  BY <1>13 DEF AcqCount
<1>14. CASE AcqStore
  BY <1>14 DEF AcqStore
<1>15. CASE AcqCheck
  BY <1>15 DEF AcqCheck
<1>16. CASE AcqPoll
  BY <1>16 DEF AcqPoll, Progress
<1>17. CASE AcqPollAbort
  BY <1>17 DEF AcqPollAbort, AfterPoll
<1>18. CASE AcqCollect
  BY <1>18 DEF AcqCollect
<1>19. CASE AcqSignal
  BY <1>19 DEF AcqSignal
<1>20. CASE AcqInner
  BY <1>20 DEF AcqInner
<1>21. CASE AcqAfter
  BY <1>21 DEF AcqAfter, WaitForRead
<1>22. CASE AcqFin
  BY <1>22 DEF AcqFin
<1>23. CASE AcqFinWake
  BY <1>23 DEF AcqFinWake
<1>24. CASE AcqIdle
  BY <1>24 DEF AcqIdle
<1>25. CASE \/ AcqStop("stop_last", "flush_last")
           \/ AcqStop("stop_abort", "flush_abort")
           \/ AcqStop("stop_ext", "flush_ext")
  BY <1>25 DEF AcqStop, HwStop, CloseFrame
<1>26. CASE \/ AcqFlushed("flush_last", "count")
           \/ AcqFlushed("flush_abort", "after")
           \/ AcqFlushed("flush_ext", "collect")
  BY <1>26 DEF AcqFlushed
<1> QED
  BY <1>1, <1>2, <1>3, <1>4, <1>5, <1>6, <1>7, <1>8, <1>9, <1>10, <1>11,
     <1>12, <1>13, <1>14, <1>15, <1>16, <1>17, <1>18, <1>19, <1>20, <1>21,
     <1>22, <1>23, <1>24, <1>25, <1>26 DEF AcqStep

-----------------------------------------------------------------------------
(* The read thread.                                                        *)

LEMMA ReadFrame ==
    ReadStep => UNCHANGED <<m_wait_flag, m_quit, m_abort, m_acq_frame_nb,
                            m_nb_frames, m_trigger_mode, acq_pc,
                            completed_frames, acq_reg, ctl_pc, may_start, starts,
                            stops, hw_running, hw_closed, hw_done>>
BY DEF ReadStep, ReadGo, ReadJump, ReadCond, ReadSetWait, ReadBegin, ReadTop,
       ReadToWait, ReadWait, ReadWake, ReadQuit, ReadAborted, ReadRelease,
       ReadBuffer, ReadLoopEnd, ReadData, ReadReady, ReadIncr, ReadStore,
       ReadLock, ReadDrained, ReadFlag, flagVars, confVars, acqVars, ctlVars,
       hwVars

LEMMA ReadDormant ==
    TypeOK /\ Dormant /\ ReadStep
    => Dormant' /\ UNCHANGED <<m_read_frame_nb, delivered>>
<1> SUFFICES ASSUME TypeOK, Dormant, ReadStep
             PROVE  Dormant' /\ UNCHANGED <<m_read_frame_nb, delivered>>
  OBVIOUS
<1>1. read_pc \in {"begin", "top", "towait", "wait", "wake", "dead", "quitcheck"}
  BY DEF Dormant, ReadIdlePCs
<1>2. \/ ReadBegin \/ ReadTop \/ ReadToWait \/ ReadWait \/ ReadWake \/ ReadQuit
      \/ ReadAborted \/ ReadRelease
  BY <1>1 DEF ReadStep, ReadGo, ReadJump, ReadCond, ReadSetWait, ReadBuffer,
         ReadLoopEnd, ReadData, ReadReady, ReadIncr, ReadStore, ReadLock,
         ReadDrained, ReadFlag
<1>3. m_read_wait_flag' /\ UNCHANGED <<m_read_frame_nb, delivered>>
  BY <1>2 DEF Dormant, ReadGo, ReadJump, ReadCond, ReadSetWait, ReadBegin,
         ReadTop, ReadToWait, ReadWait, ReadWake, ReadQuit, ReadAborted,
         ReadRelease, readRest
<1>4. UNCHANGED <<m_wait_flag, m_quit, acq_pc>>
  BY ReadFrame
<1>5. /\ read_pc' \in ReadIdlePCs \cup {"quitcheck"}
      /\ read_pc' = "quitcheck" => m_quit
  BY <1>2 DEF Dormant, ReadGo, ReadJump, ReadCond, ReadSetWait, ReadBegin,
         ReadTop, ReadToWait, ReadWait, ReadWake, ReadQuit, ReadAborted,
         ReadRelease, ReadIdlePCs
<1> QED
  BY <1>3, <1>4, <1>5 DEF Dormant

(* Once frames were counted, it announces the next one, whose buffer and   *)
(* data it has just taken.                                                 *)
LEMMA ReadDelivers ==
    /\ TypeOK /\ ReadInv /\ CountMatchesDelivered /\ DeliveredInOrder
    /\ Started /\ ReadStep
    => ReadInv' /\ CountMatchesDelivered' /\ DeliveredInOrder'
<1> SUFFICES ASSUME TypeOK, ReadInv, CountMatchesDelivered, DeliveredInOrder,
                    Started, ReadStep
             PROVE  ReadInv' /\ CountMatchesDelivered' /\ DeliveredInOrder'
  OBVIOUS
<1>0. Started'
  BY ReadFrame DEF Started
<1>a. m_acq_frame_nb' = m_acq_frame_nb
  BY ReadFrame
<1>t. /\ m_acq_frame_nb \in Int /\ m_nb_frames \in Nat \ {0}
      /\ m_read_frame_nb \in Int /\ read_reg \in Int
      /\ frame \in [buf : Int, data : Int, whole : BOOLEAN]
      /\ delivered \in Seq(Deliveries)
  BY CameraAssumption DEF TypeOK, CameraTypeOK
<1> USE <1>0, <1>a, <1>t DEF ReadInv, CountMatchesDelivered, ReadGo, ReadJump,
        ReadCond, ReadSetWait, readRest
<1>1. CASE ReadBegin
  BY <1>1 DEF ReadBegin, DeliveredInOrder
<1>2. CASE ReadTop
  BY <1>2 DEF ReadTop, DeliveredInOrder
<1>3. CASE ReadToWait
  BY <1>3 DEF ReadToWait, DeliveredInOrder
<1>4. CASE ReadWait
  BY <1>4 DEF ReadWait, DeliveredInOrder
<1>5. CASE ReadWake
  BY <1>5 DEF ReadWake, DeliveredInOrder
<1>6. CASE ReadQuit
  BY <1>6 DEF ReadQuit, DeliveredInOrder
<1>7. CASE ReadAborted
  BY <1>7 DEF ReadAborted, DeliveredInOrder
<1>8. CASE ReadRelease
  BY <1>8 DEF ReadRelease, DeliveredInOrder
<1>9. CASE ReadBuffer
  BY <1>9 DEF ReadBuffer, FramesToRead, DeliveredInOrder
<1>10. CASE ReadLoopEnd
  BY <1>10 DEF ReadLoopEnd, FramesToRead, DeliveredInOrder
<1>11. CASE ReadData
  BY <1>11 DEF ReadData, FrameToRead, DeliveredInOrder
<1>12. CASE ReadReady
  <2>1. delivered' = Append(delivered,
                            [nb |-> m_read_frame_nb, buf |-> frame.buf,
                             data |-> frame.data, whole |-> frame.whole])
    BY <1>12 DEF ReadReady
  <2>2. Len(delivered') = Len(delivered) + 1 /\ m_read_frame_nb = Len(delivered)
    BY <1>12, <2>1 DEF ReadReady
  <2>3. DeliveredInOrder'
    <3>1. SUFFICES ASSUME NEW i \in 1 .. Len(delivered')
                   PROVE  /\ delivered'[i].nb = i - 1
                          /\ delivered'[i].buf = i - 1
                          /\ delivered'[i].data = i - 1
      BY DEF DeliveredInOrder
    <3>2. CASE i <= Len(delivered)
      BY <2>1, <2>2, <3>2 DEF DeliveredInOrder
    <3>3. CASE i = Len(delivered) + 1
      BY <1>12, <2>1, <2>2, <3>3 DEF ReadReady
    <3> QED
      BY <2>2, <3>2, <3>3
  <2> QED
    BY <1>12, <2>2, <2>3 DEF ReadReady
<1>13. CASE ReadIncr
  BY <1>13 DEF ReadIncr, DeliveredInOrder
<1>14. CASE ReadStore
  BY <1>14 DEF ReadStore, DeliveredInOrder
<1>15. CASE ReadLock
  BY <1>15 DEF ReadLock, DeliveredInOrder
<1>16. CASE ReadDrained
  BY <1>16 DEF ReadDrained, DeliveredInOrder
<1>17. CASE ReadFlag
  BY <1>17 DEF ReadFlag, DeliveredInOrder
<1> QED
  BY <1>1, <1>2, <1>3, <1>4, <1>5, <1>6, <1>7, <1>8, <1>9, <1>10, <1>11,
     <1>12, <1>13, <1>14, <1>15, <1>16, <1>17 DEF ReadStep

-----------------------------------------------------------------------------
(* The caller, the detector and the rest.                                  *)

(* Whoever is not dormant runs in an acquisition that was started. *)
LEMMA AwakeStarted ==
    CallerInv /\ DormantInv /\ ~Dormant => Started
BY DEF CallerInv, DormantInv, Started, StartPCs

(* While the next state has both threads dormant and nothing delivered,    *)
(* its two counters are all there is to the rest of the invariant.         *)
LEMMA DormantRun ==
    ASSUME TypeOK', Dormant', delivered' = <<>>,
           Started' => m_acq_frame_nb' = 0 /\ m_read_frame_nb' = 0
    PROVE  AcqInv' /\ ReadInv' /\ CountMatchesDelivered' /\ DeliveredInOrder'
<1>1. /\ acq_pc' \in AcqIdlePCs \cup {"quitcheck"}
      /\ read_pc' \in ReadIdlePCs \cup {"quitcheck"}
  BY DEF Dormant
<1>2. delivered' = <<>> /\ Len(<<>>) = 0
  OBVIOUS
<1>3. m_nb_frames' \in Nat /\ hw_done' \in Nat
  <2>1. m_nb_frames' \in FrameCounts \cup {1} /\ hw_done' \in Nat
    BY DEF TypeOK, CameraTypeOK
  <2> QED
    BY <2>1, CameraAssumption
<1>4. AcqInv'
  BY <1>1, <1>3 DEF AcqInv, AcqIdlePCs, IntPCs, ExtPCs
<1>5. ReadInv'
  BY <1>1 DEF ReadInv, ReadIdlePCs
<1>6. CountMatchesDelivered'
  BY <1>1, <1>2 DEF CountMatchesDelivered, ReadIdlePCs
<1>7. DeliveredInOrder'
  BY <1>2 DEF DeliveredInOrder
<1> QED
  BY <1>4, <1>5, <1>6, <1>7

(* The calls that configure and start find both threads dormant: each      *)
(* leaves them so, and the first start resets both counters.               *)
LEMMA StartRun ==
    ASSUME MaxStarts <= 1, TypeOK, TypeOK', SingleRunInv,
           \/ \E n \in FrameCounts : SetNbFrames(n)
           \/ \E mode \in TrigModes : SetTrigMode(mode)
           \/ StartAcq \/ StartResetRead \/ StartHw
    PROVE  SingleRunInv'
<1> USE DEF CtlGo, ctlRest, StartPCs
<1>t. /\ starts \in Nat /\ starts <= MaxStarts /\ MaxStarts \in Nat
      /\ m_read_frame_nb \in Int
  BY CameraAssumption DEF TypeOK, CameraTypeOK
<1>1. UNCHANGED <<m_wait_flag, m_read_wait_flag, m_quit, acq_pc, read_pc>>
  BY DEF SetNbFrames, SetTrigMode, StartAcq, StartResetRead, StartHw, flagVars,
         acqVars, readVars
<1>2. /\ starts = 0 \/ ctl_pc \in StartPCs
      /\ CallerInv' /\ delivered' = <<>>
      /\ Started' => m_acq_frame_nb' = 0 /\ m_read_frame_nb' = 0
  <2> USE DEF SingleRunInv, CallerInv, Started
  <2>1. CASE \E n \in FrameCounts : SetNbFrames(n)
    BY <1>t, <2>1 DEF SetNbFrames
  <2>2. CASE \E mode \in TrigModes : SetTrigMode(mode)
    BY <1>t, <2>2 DEF SetTrigMode
  <2>3. CASE StartAcq
    BY <1>t, <2>3 DEF StartAcq
  <2>4. CASE StartResetRead
    BY <1>t, <2>4 DEF StartResetRead, FirstFrame
  <2>5. CASE StartHw
    BY <1>t, <2>5 DEF StartHw, ReadInv
  <2> QED
    BY <2>1, <2>2, <2>3, <2>4, <2>5
<1>3. Dormant'
  BY <1>1, <1>2 DEF SingleRunInv, DormantInv, Dormant
<1> QED
  BY <1>2, <1>3, DormantRun DEF SingleRunInv, DormantInv

(* The other calls leave the counters and the threads alone; those that    *)
(* can come before startAcq only raise flags that keep the threads out.    *)
LEMMA CallRun ==
    ASSUME SingleRunInv,
           \/ Poll \/ CallStop \/ CallReset \/ DeleteCamera \/ StartRelease \/ CtlFault
           \/ StopAcq \/ ResetStatus \/ JoinAcq \/ JoinRead
           \/ RaiseQuit("quit_acq", "join_acq")
           \/ RaiseQuit("quit_read", "join_read")
    PROVE  SingleRunInv'
<1> USE DEF CtlGo, CtlJump, ctlRest
<1>1. UNCHANGED <<m_read_wait_flag, m_acq_frame_nb, m_read_frame_nb, m_nb_frames,
                  m_trigger_mode, acq_pc, completed_frames, acq_reg, read_pc,
                  frame, read_reg, starts, delivered, hw_done>>
  BY DEF Poll, AskToStop, CallStop, CallReset, ResetStatus, DeleteCamera, StartRelease, CtlFault, StopAcq,
         JoinAcq, JoinRead, RaiseQuit, acqVars, readVars, confVars, hwVars
<1>2. /\ ctl_pc' \notin StartPCs \cup {"set_mode", "prepared"}
      /\ ctl_pc \notin {"set_mode", "prepared", "start_read"}
  BY DEF Poll, AskToStop, CallStop, CallReset, ResetStatus, DeleteCamera, StartRelease, CtlFault, StopAcq,
         JoinAcq, JoinRead, RaiseQuit, StartPCs
<1>3. \/ ctl_pc \in StartPCs
      \/ (m_wait_flag => m_wait_flag') /\ (m_quit => m_quit')
  BY DEF Poll, AskToStop, CallStop, CallReset, ResetStatus, DeleteCamera, StartRelease, CtlFault, StopAcq,
         JoinAcq, JoinRead, RaiseQuit, flagVars, StartPCs
<1>4. Started' <=> Started
  BY <1>1, <1>2 DEF Started, StartPCs
<1>5. CallerInv'
  BY <1>1, <1>2 DEF SingleRunInv, CallerInv
<1>6. DormantInv'
  <2>1. SUFFICES ASSUME starts = 0 PROVE Dormant'
    BY <1>1, <1>2 DEF DormantInv
  <2>2. Dormant /\ ctl_pc \notin StartPCs
    BY <2>1 DEF SingleRunInv, DormantInv, CallerInv
  <2> QED
    BY <1>1, <1>3, <2>2 DEF Dormant
<1>7. AcqInv'
  BY <1>1, <1>4 DEF SingleRunInv, AcqInv
<1>8. ReadInv'
  BY <1>1, <1>4 DEF SingleRunInv, ReadInv
<1>9. CountMatchesDelivered' /\ DeliveredInOrder'
  BY <1>1, <1>4 DEF SingleRunInv, CountMatchesDelivered, DeliveredInOrder
<1> QED
  BY <1>5, <1>6, <1>7, <1>8, <1>9 DEF SingleRunInv

(* Frames completing and threads dying leave what was reached as it is. *)
LEMMA OtherRun ==
    ASSUME TypeOK, SingleRunInv,
           HwFrame \/ HwComplete \/ SpuriousWakeup \/ AcqFault \/ ReadFault
    PROVE  SingleRunInv'
<1>1. /\ UNCHANGED <<m_wait_flag, m_read_wait_flag, m_quit, m_acq_frame_nb,
                     m_read_frame_nb, m_nb_frames, m_trigger_mode,
                     completed_frames, acq_reg, frame, read_reg, ctl_pc, starts,
                     delivered>>
      /\ acq_pc' \in {acq_pc, "dead"} /\ read_pc' \in {read_pc, "dead"}
      /\ hw_done' \in {hw_done, hw_done + 1}
  BY DEF HwFrame, HwComplete, HwUnchanged, SpuriousWakeup, AcqFault, ReadFault,
         shared, statVars, flagVars, confVars, acqVars, readVars, ctlVars, hwVars
<1>2. read_pc' = read_pc \/ read_pc = "read"
  BY DEF HwFrame, HwComplete, HwUnchanged, SpuriousWakeup, AcqFault, ReadFault,
         readVars
<1>3. /\ hw_done \in Nat /\ m_acq_frame_nb \in Int /\ completed_frames \in Nat
  BY DEF TypeOK, CameraTypeOK
<1>4. CallerInv'
  BY <1>1 DEF SingleRunInv, CallerInv
<1>5. DormantInv'
  BY <1>1 DEF SingleRunInv, DormantInv, Dormant, AcqIdlePCs, ReadIdlePCs
<1>6. AcqInv'
  BY <1>1, <1>3 DEF SingleRunInv, AcqInv, Started, IntPCs, ExtPCs
<1>7. ReadInv'
  BY <1>1 DEF SingleRunInv, ReadInv, Started
<1>8. CountMatchesDelivered' /\ DeliveredInOrder'
  BY <1>1, <1>2 DEF SingleRunInv, CountMatchesDelivered, DeliveredInOrder,
     Started
<1> QED
  BY <1>4, <1>5, <1>6, <1>7, <1>8 DEF SingleRunInv

LEMMA AcqRun ==
    ASSUME TypeOK, SingleRunInv, AcqStep
    PROVE  SingleRunInv'
<1>1. UNCHANGED <<m_read_frame_nb, m_nb_frames, m_trigger_mode, read_pc, frame,
                  read_reg, ctl_pc, starts, delivered>>
  BY AcqFrame
<1>2. CASE Dormant
  <2>1. Dormant' /\ m_acq_frame_nb' = m_acq_frame_nb
    BY <1>2, AcqDormant
  <2>2. acq_pc' \notin IntPCs \cup ExtPCs /\ acq_pc' # "store"
    BY <2>1 DEF Dormant, AcqIdlePCs, IntPCs, ExtPCs
  <2>3. hw_done' = hw_done
    BY <1>2 DEF Dormant, AcqIdlePCs, AcqStep, AcqGo, AcqJump, AcqCond, AcqBegin,
       AcqTop, AcqToWait, AcqWait, AcqWake, AcqRunning, AcqQuit, AcqRelease,
       AcqLoop, AcqExpose, AcqPause, AcqRestart, AcqStop, AcqFlushed, AcqCount,
       AcqStore, AcqCheck, AcqPoll, AcqPollAbort, AcqCollect, AcqSignal,
       AcqInner, AcqAfter, AcqFin, AcqFinWake, AcqIdle, acqRest, acqButStat,
       hwVars, HwPause, HwStop, CloseFrame
  <2>4. CallerInv' /\ DormantInv'
    BY <1>1, <2>1 DEF SingleRunInv, CallerInv, DormantInv
  <2>5. AcqInv'
    BY <1>1, <2>1, <2>2, <2>3 DEF SingleRunInv, AcqInv, Started
  <2>6. ReadInv' /\ CountMatchesDelivered' /\ DeliveredInOrder'
    BY <1>1, <2>1 DEF SingleRunInv, ReadInv, CountMatchesDelivered,
       DeliveredInOrder, Started
  <2> QED
    BY <2>4, <2>5, <2>6 DEF SingleRunInv
<1>3. CASE ~Dormant
  <2>1. Started
    BY <1>3, AwakeStarted DEF SingleRunInv
  <2>2. AcqInv' /\ m_acq_frame_nb <= m_acq_frame_nb'
    BY <2>1, AcqCounts DEF SingleRunInv
  <2>3. CallerInv' /\ DormantInv'
    BY <1>1, <1>3 DEF SingleRunInv, CallerInv, DormantInv
  <2>4. ReadInv'
    <3>1. /\ m_acq_frame_nb \in Int /\ m_acq_frame_nb' \in Int
          /\ m_read_frame_nb \in Int
      BY AcqTyped DEF TypeOK, CameraTypeOK
    <3> QED
      BY <1>1, <2>1, <2>2, <3>1 DEF SingleRunInv, ReadInv, Started
  <2>5. CountMatchesDelivered' /\ DeliveredInOrder'
    BY <1>1 DEF SingleRunInv, CountMatchesDelivered, DeliveredInOrder, Started
  <2> QED
    BY <2>2, <2>3, <2>4, <2>5 DEF SingleRunInv
<1> QED
  BY <1>2, <1>3

LEMMA ReadRun ==
    ASSUME TypeOK, SingleRunInv, ReadStep
    PROVE  SingleRunInv'
<1>1. UNCHANGED <<m_acq_frame_nb, m_nb_frames, m_trigger_mode, acq_pc,
                  completed_frames, acq_reg, ctl_pc, starts, hw_done>>
  BY ReadFrame
<1>2. AcqInv'
  BY <1>1 DEF SingleRunInv, AcqInv, Started
<1>3. CASE Dormant
  <2>1. Dormant' /\ UNCHANGED <<m_read_frame_nb, delivered>>
    BY <1>3, ReadDormant
  <2>2. CallerInv' /\ DormantInv'
    BY <1>1, <2>1 DEF SingleRunInv, CallerInv, DormantInv
  <2>3. /\ read_pc \notin {"read", "ready", "incr", "store"}
        /\ read_pc' \notin {"read", "ready", "incr", "store"}
    BY <1>3, <2>1 DEF Dormant, ReadIdlePCs
  <2>4. ReadInv' /\ CountMatchesDelivered' /\ DeliveredInOrder'
    BY <1>1, <2>1, <2>3 DEF SingleRunInv, ReadInv, CountMatchesDelivered,
       DeliveredInOrder, Started
  <2> QED
    BY <1>2, <2>2, <2>4 DEF SingleRunInv
<1>4. CASE ~Dormant
  <2>1. Started
    BY <1>4, AwakeStarted DEF SingleRunInv
  <2>2. ReadInv' /\ CountMatchesDelivered' /\ DeliveredInOrder'
    BY <2>1, ReadDelivers DEF SingleRunInv
  <2>3. CallerInv' /\ DormantInv'
    BY <1>1, <1>4 DEF SingleRunInv, CallerInv, DormantInv
  <2> QED
    BY <1>2, <2>2, <2>3 DEF SingleRunInv
<1> QED
  BY <1>3, <1>4

-----------------------------------------------------------------------------
LEMMA RunInit == Init => SingleRunInv
<1> SUFFICES ASSUME Init PROVE SingleRunInv
  OBVIOUS
<1>1. ~Started
  BY DEF Init, Started
<1>2. Len(delivered) = 0 /\ delivered = <<>>
  BY DEF Init
<1>3. CallerInv
  BY <1>2 DEF Init, CallerInv, StartPCs
<1>4. Dormant
  BY DEF Init, Dormant, AcqIdlePCs, ReadIdlePCs
<1>5. AcqInv /\ ReadInv
  BY <1>1 DEF Init, AcqInv, ReadInv, IntPCs, ExtPCs
<1>6. CountMatchesDelivered /\ DeliveredInOrder
  BY <1>1, <1>2 DEF CountMatchesDelivered, DeliveredInOrder
<1> QED
  BY <1>3, <1>4, <1>5, <1>6 DEF SingleRunInv, DormantInv

LEMMA RunNext ==
    ASSUME MaxStarts <= 1
    PROVE  TypeOK /\ SingleRunInv /\ [Next]_vars => SingleRunInv'
<1> SUFFICES ASSUME TypeOK, SingleRunInv, [Next]_vars PROVE SingleRunInv'
  OBVIOUS
<1>1. CASE Closed \/ UNCHANGED vars
  BY <1>1
  DEF Closed, vars, shared, statVars, flagVars, confVars, acqVars, readVars,
      ctlVars, hwVars, SingleRunInv, CallerInv, DormantInv, Dormant, AcqInv,
      ReadInv, CountMatchesDelivered, DeliveredInOrder, Started
<1>2. CASE AcqStep
  BY <1>2, AcqRun
<1>3. CASE ReadStep
  BY <1>3, ReadRun
<1>4. CASE HwFrame \/ HwComplete \/ SpuriousWakeup \/ AcqFault \/ ReadFault
  BY <1>4, OtherRun
<1>5. CASE CtlCall \/ CtlStep \/ CtlFault
  <2>1. CASE \/ \E n \in FrameCounts : SetNbFrames(n)
             \/ \E mode \in TrigModes : SetTrigMode(mode)
             \/ StartAcq \/ StartResetRead \/ StartHw
    <3>1. TypeOK'
      BY TypeNext
    <3> QED
      BY <2>1, <3>1, StartRun
  <2>2. CASE \/ Poll \/ CallStop \/ CallReset \/ DeleteCamera \/ StartRelease \/ CtlFault
             \/ StopAcq \/ ResetStatus \/ JoinAcq \/ JoinRead
             \/ RaiseQuit("quit_acq", "join_acq")
             \/ RaiseQuit("quit_read", "join_read")
    BY <2>2, CallRun
  <2> QED
    BY <1>5, <2>1, <2>2 DEF CtlCall, CtlStep
<1> QED
  BY <1>1, <1>2, <1>3, <1>4, <1>5 DEF Next

LEMMA SingleRun ==
    ASSUME MaxStarts <= 1
    PROVE  Spec => [](TypeOK /\ SingleRunInv)
<1>1. Init => TypeOK /\ SingleRunInv
  BY TypeInit, RunInit
<1>2. TypeOK /\ SingleRunInv /\ [Next]_vars => (TypeOK /\ SingleRunInv)'
  BY TypeNext, RunNext
<1> QED
  BY <1>1, <1>2, PTL DEF Spec

(* In one acquisition the frames are announced to Lima in order, each once *)
(* and none skipped, each in its own buffer with its own data, whatever    *)
(* the interleaving of the threads, a stop, a failing SDK call, a spurious *)
(* wakeup or a refused frame.                                              *)
THEOREM FramesInOrder ==
    ASSUME MaxStarts <= 1
    PROVE  Spec => []DeliveredInOrder
<1>1. TypeOK /\ SingleRunInv => DeliveredInOrder
  BY DEF SingleRunInv
<1> QED
  BY <1>1, SingleRun, PTL

(* In one acquisition the read thread stays behind the frames counted, and *)
(* these never exceed the frames asked for.                                *)
THEOREM ReadStaysBehind ==
    ASSUME MaxStarts <= 1
    PROVE  Spec => []ReadBehindAcquired
<1>1. TypeOK /\ SingleRunInv => ReadBehindAcquired
  BY CameraAssumption
  DEF TypeOK, CameraTypeOK, SingleRunInv, AcqInv, ReadInv, ReadBehindAcquired
<1> QED
  BY <1>1, SingleRun, PTL

(* In one acquisition getNbHwAcquiredFrames is the number of frames Lima   *)
(* was given, but for the frame being announced.                           *)
THEOREM CountIsDelivered ==
    ASSUME MaxStarts <= 1
    PROVE  Spec => []CountMatchesDelivered
<1>1. TypeOK /\ SingleRunInv => CountMatchesDelivered
  BY DEF SingleRunInv
<1> QED
  BY <1>1, SingleRun, PTL

-----------------------------------------------------------------------------
(* The external modes.                                                     *)

LEMMA WholeInit == Init => WholeInv
BY DEF Init, WholeInv, WholeFrames, Started

LEMMA WholeRead ==
    ASSUME TypeOK, AcqInv, ReadInv, WholeInv, ReadStep
    PROVE  WholeInv'
<1> USE DEF WholeInv, Started
<1>1. UNCHANGED <<m_trigger_mode, ctl_pc, starts>>
  BY ReadFrame
<1>2. Started' /\ m_trigger_mode' # "IntTrig"
      => Started /\ m_trigger_mode # "IntTrig"
  BY <1>1
<1> SUFFICES ASSUME Started, m_trigger_mode # "IntTrig"
             PROVE  (read_pc' = "ready" => frame'.whole) /\ WholeFrames'
  BY <1>2
<1>3. CASE ReadData
  <2>1. m_read_frame_nb < hw_done
    <3>1. /\ m_read_frame_nb \in Int /\ m_acq_frame_nb \in Int
          /\ hw_done \in Nat
      BY DEF TypeOK, CameraTypeOK
    <3>2. m_read_frame_nb < m_acq_frame_nb /\ m_acq_frame_nb <= hw_done
      BY <1>3 DEF AcqInv, ReadInv, ReadData, ReadGo
    <3> QED
      BY <3>1, <3>2
  <2>2. frame' = [frame EXCEPT !.data = m_read_frame_nb,
                               !.whole = m_read_frame_nb < hw_done]
    BY <1>3, Zenon DEF ReadData, FrameToRead
  <2>3. frame \in [buf : Int, data : Int, whole : BOOLEAN]
    BY DEF TypeOK, CameraTypeOK
  <2>4. frame'.whole = (m_read_frame_nb < hw_done)
    BY <2>2, <2>3, Zenon
  <2>5. delivered' = delivered
    BY <1>3 DEF ReadData
  <2> QED
    BY <1>1, <2>1, <2>4, <2>5 DEF WholeFrames
<1>4. CASE ReadReady
  <2>1. delivered' = Append(delivered,
                            [nb |-> m_read_frame_nb, buf |-> frame.buf,
                             data |-> frame.data, whole |-> frame.whole])
    BY <1>4 DEF ReadReady
  <2>2. delivered \in Seq(Deliveries)
    BY DEF TypeOK, CameraTypeOK
  <2>3. frame.whole
    BY <1>4 DEF ReadReady, ReadGo
  <2>4. WholeFrames'
    <3>1. SUFFICES ASSUME NEW i \in 1 .. Len(delivered')
                   PROVE  delivered'[i].whole
      BY DEF WholeFrames
    <3>2. CASE i <= Len(delivered)
      BY <2>1, <2>2, <3>2 DEF WholeFrames
    <3>3. CASE i = Len(delivered) + 1
      BY <2>1, <2>2, <2>3, <3>3
    <3> QED
      BY <2>1, <2>2, <3>2, <3>3
  <2>5. read_pc' # "ready"
    BY <1>4 DEF ReadReady, ReadGo
  <2> QED
    BY <1>1, <2>4, <2>5
<1>5. CASE ~ReadData /\ ~ReadReady
  <2>1. read_pc' # "ready" /\ delivered' = delivered
    BY <1>5
    DEF ReadStep, ReadGo, ReadJump, ReadCond, ReadSetWait, ReadBegin, ReadTop,
        ReadToWait, ReadWait, ReadWake, ReadQuit, ReadAborted, ReadRelease,
        ReadBuffer, ReadLoopEnd, ReadIncr, ReadStore, ReadLock, ReadDrained,
        ReadFlag, readRest
  <2> QED
    BY <1>1, <2>1 DEF WholeFrames
<1> QED
  BY <1>3, <1>4, <1>5

LEMMA WholeNext ==
    ASSUME MaxStarts <= 1
    PROVE  TypeOK /\ SingleRunInv /\ WholeInv /\ [Next]_vars => WholeInv'
<1> SUFFICES ASSUME TypeOK, SingleRunInv, WholeInv, [Next]_vars PROVE WholeInv'
  OBVIOUS
<1> USE DEF WholeInv, Started
<1>1. CASE Closed \/ UNCHANGED vars
  BY <1>1 DEF Closed, vars, confVars, readVars, ctlVars, WholeFrames
<1>2. CASE AcqStep
  BY <1>2, AcqFrame DEF WholeFrames
<1>3. CASE ReadStep
  BY <1>3, WholeRead DEF SingleRunInv
<1>4. CASE HwFrame \/ HwComplete \/ SpuriousWakeup \/ AcqFault \/ ReadFault
  BY <1>4 DEF HwFrame, HwComplete, HwUnchanged, SpuriousWakeup, AcqFault,
     ReadFault, confVars, readVars, ctlVars, WholeFrames
<1>5. CASE CtlCall \/ CtlStep \/ CtlFault
  <2>1. UNCHANGED <<read_pc, frame>>
    BY <1>5 DEF CtlCall, CtlStep, CtlFault, CtlGo, CtlJump, Poll, AskToStop, CallStop,
       CallReset, ResetStatus,
       DeleteCamera, SetNbFrames, SetTrigMode, StartAcq, StartResetRead,
       StartHw, StartRelease, StopAcq, RaiseQuit, JoinAcq, JoinRead, readVars
  <2>2. CASE StartResetRead
    <3>1. Dormant
      BY <2>2 DEF StartResetRead, CtlGo, SingleRunInv, DormantInv, StartPCs
    <3>2. read_pc' # "ready"
      BY <2>1, <3>1 DEF Dormant, ReadIdlePCs
    <3>3. WholeFrames'
      BY <2>2 DEF StartResetRead, WholeFrames
    <3> QED
      BY <3>2, <3>3
  <2>3. CASE \/ \E n \in FrameCounts : SetNbFrames(n)
             \/ \E mode \in TrigModes : SetTrigMode(mode)
             \/ StartAcq
    BY <2>3 DEF SetNbFrames, SetTrigMode, StartAcq, CtlGo
  <2>4. CASE \/ Poll \/ CallStop \/ CallReset \/ DeleteCamera \/ StartRelease
             \/ CtlFault \/ StopAcq \/ ResetStatus \/ JoinAcq \/ JoinRead \/ StartHw
             \/ RaiseQuit("quit_acq", "join_acq")
             \/ RaiseQuit("quit_read", "join_read")
    <3>1. Started' => Started
      BY <2>4 DEF Poll, AskToStop, CallStop, CallReset, ResetStatus, DeleteCamera, StartRelease, CtlFault,
         StopAcq, JoinAcq, JoinRead, StartHw, RaiseQuit, CtlGo, CtlJump, ctlRest
    <3>2. UNCHANGED <<m_trigger_mode, delivered>>
      BY <2>4 DEF Poll, AskToStop, CallStop, CallReset, ResetStatus, DeleteCamera, StartRelease, CtlFault,
         StopAcq, JoinAcq, JoinRead, StartHw, RaiseQuit, CtlGo, CtlJump,
         confVars, ctlRest
    <3> QED
      BY <2>1, <3>1, <3>2 DEF WholeFrames
  <2> QED
    BY <1>5, <2>2, <2>3, <2>4 DEF CtlCall, CtlStep
<1> QED
  BY <1>1, <1>2, <1>3, <1>4, <1>5 DEF Next

(* In one acquisition of an external trigger mode every frame announced    *)
(* was complete in the detector's memory when it was read: the acq thread  *)
(* counts no frame before checkProgress reports it, and the read thread    *)
(* reads no frame before it is counted.                                    *)
THEOREM FramesAreWhole ==
    ASSUME MaxStarts <= 1
    PROVE  Spec => []ExternalFramesWhole
<1>1. Init => TypeOK /\ SingleRunInv /\ WholeInv
  BY TypeInit, RunInit, WholeInit
<1>2. TypeOK /\ SingleRunInv /\ WholeInv /\ [Next]_vars
      => (TypeOK /\ SingleRunInv /\ WholeInv)'
  BY TypeNext, RunNext, WholeNext
<1>3. TypeOK /\ SingleRunInv /\ WholeInv => ExternalFramesWhole
  BY DEF WholeInv, ExternalFramesWhole
<1> QED
  BY <1>1, <1>2, <1>3, PTL DEF Spec

-----------------------------------------------------------------------------
(* The stop.                                                               *)

(* A stop sets m_abort and m_wait_flag, and startAcq clears both. *)
StopWaits == m_abort => m_wait_flag

LEMMA StopWaitsNext == StopWaits /\ [Next]_vars => StopWaits'
<1> SUFFICES ASSUME StopWaits, [Next]_vars PROVE StopWaits'
  OBVIOUS
<1>1. \/ UNCHANGED <<m_abort, m_wait_flag>>
      \/ m_wait_flag' = TRUE
      \/ m_abort' = FALSE
  <2>1. CASE AcqStep
    BY <2>1 DEF AcqStep, AcqBegin, AcqTop, AcqToWait, AcqWait, AcqWake, AcqRunning,
       AcqQuit, AcqRelease, AcqLoop, AcqExpose, AcqPause, AcqRestart, AcqStop,
       AcqFlushed, AcqCount, AcqStore, AcqCheck, AcqPoll, AcqPollAbort,
       AcqCollect, AcqSignal, AcqInner, AcqAfter, AcqFin, AcqFinWake, AcqIdle,
       AcqGo, AcqJump, AcqCond, acqRest, acqButStat
  <2>2. CASE ReadStep
    BY <2>2 DEF ReadStep, ReadBegin, ReadTop, ReadToWait, ReadWait, ReadWake, ReadQuit,
       ReadAborted, ReadRelease, ReadBuffer, ReadLoopEnd, ReadData, ReadReady,
       ReadIncr, ReadStore, ReadLock, ReadDrained, ReadFlag, ReadGo, ReadJump,
       ReadCond, ReadSetWait, flagVars
  <2>3. CASE CtlCall \/ CtlStep \/ CtlFault
    BY <2>3 DEF CtlCall, CtlStep, CtlFault, CtlGo, CtlJump, Poll, AskToStop, CallStop,
       CallReset, ResetStatus, DeleteCamera, SetNbFrames, SetTrigMode, StartAcq,
       StartResetRead, StartHw, StartRelease, StopAcq, RaiseQuit, JoinAcq,
       JoinRead, flagVars
  <2>4. CASE \/ AcqFault \/ ReadFault \/ Closed \/ HwFrame \/ HwComplete
             \/ SpuriousWakeup \/ UNCHANGED vars
    BY <2>4 DEF AcqFault, ReadFault, Closed, HwFrame, HwComplete, HwUnchanged,
       SpuriousWakeup, vars, shared, flagVars
  <2> QED
    BY <2>1, <2>2, <2>3, <2>4 DEF Next
<1> QED
  BY <1>1 DEF StopWaits

LEMMA PlaceOf ==
    /\ Place("quitcheck") = 23 /\ Place("loop") = 22 /\ Place("expose") = 21
    /\ Place("poll") = 20 /\ Place("pollabort") = 19 /\ Place("stop_ext") = 18
    /\ Place("flush_ext") = 17 /\ Place("collect") = 16 /\ Place("stop_abort") = 15
    /\ Place("flush_abort") = 14 /\ Place("pause") = 13 /\ Place("restart") = 12
    /\ Place("stop_last") = 11 /\ Place("flush_last") = 10 /\ Place("count") = 9
    /\ Place("store") = 8 /\ Place("check") = 7 /\ Place("signal") = 6
    /\ Place("inner") = 5 /\ Place("after") = 4 /\ Place("fin") = 3
    /\ Place("finwake") = 2 /\ Place("idle1") = 1
    /\ \A pc \in AcqIdlePCs \cup {"idle2", "idle3"} : Place(pc) = 0
BY DEF Place, StopPlaces, AcqIdlePCs

LEMMA PlacesLeft == LeftToStop \in Nat /\ LeftToStop' \in Nat
<1>1. \A pc : Place(pc) \in Nat
  <2>1. \A pc \in DOMAIN StopPlaces : StopPlaces[pc] \in Nat
    BY DEF StopPlaces
  <2> QED
    BY <2>1 DEF Place
<1> QED
  BY <1>1 DEF LeftToStop

(* Where a step of the stopped acq thread may lead. *)
LEMMA StoppedAcq ==
    ASSUME StopWaits, m_abort, AcqStep
    PROVE  /\ m_quit' = m_quit
           /\ LeftToStop' <= LeftToStop
           /\ acq_pc' # acq_pc /\ LeftToStop > 0 => LeftToStop' < LeftToStop
<1>1. m_quit' = m_quit
  BY DEF AcqStep, AcqBegin, AcqTop, AcqToWait, AcqWait, AcqWake, AcqRunning,
     AcqQuit, AcqRelease, AcqLoop, AcqExpose, AcqPause, AcqRestart, AcqStop,
     AcqFlushed, AcqCount, AcqStore, AcqCheck, AcqPoll, AcqPollAbort,
     AcqCollect, AcqSignal, AcqInner, AcqAfter, AcqFin, AcqFinWake, AcqIdle,
     AcqGo, AcqJump, AcqCond
<1>2. /\ \A pc \in AcqIdlePCs \cup {"idle2", "idle3"} : Place(pc) = 0
      /\ "quitcheck" \notin AcqIdlePCs \cup {"idle2", "idle3"}
  BY PlaceOf DEF AcqIdlePCs
<1> USE DEF AcqGo, AcqJump, AcqCond
<1>3. CASE AcqBegin \/ AcqTop \/ AcqToWait \/ AcqWait \/ AcqWake \/ AcqQuit
  <2>1. acq_pc' \in AcqIdlePCs
    BY <1>3 DEF AcqBegin, AcqTop, AcqToWait, AcqWait, AcqWake, AcqQuit, AcqIdlePCs
  <2>2. LeftToStop' = 0
    BY <1>2, <2>1 DEF LeftToStop
  <2>3. acq_pc \in AcqIdlePCs \/ (acq_pc = "quitcheck" /\ m_quit)
    BY <1>3 DEF AcqBegin, AcqTop, AcqToWait, AcqWait, AcqWake, AcqQuit, AcqIdlePCs
  <2>4. LeftToStop = 0
    BY <1>2, <2>3 DEF LeftToStop
  <2> QED
    BY <1>1, <2>2, <2>4
<1>4. CASE AcqRunning
  <2>1. acq_pc = "towait" /\ acq_pc' = "quitcheck" /\ m_quit
    BY <1>4 DEF AcqRunning, StopWaits
  <2>2. LeftToStop' = 0
    BY <1>1, <2>1 DEF LeftToStop
  <2>3. LeftToStop = 0
    BY <1>2, <2>1 DEF LeftToStop, AcqIdlePCs
  <2> QED
    BY <1>1, <2>2, <2>3
<1>5. CASE AcqRelease \/ AcqLoop \/ AcqExpose \/ AcqPause \/ AcqRestart
  <2>1. \/ acq_pc = "quitcheck" /\ ~m_quit /\ acq_pc' = "loop"
        \/ acq_pc = "loop" /\ acq_pc' \in {"after", "expose", "poll"}
        \/ acq_pc = "expose" /\ acq_pc' = "stop_abort"
        \/ acq_pc = "pause" /\ acq_pc' = "restart"
        \/ acq_pc = "restart" /\ acq_pc' = "count"
    BY <1>5 DEF AcqRelease, AcqLoop, AcqExpose, AcqPause, AcqRestart
  <2> QED
    BY <1>1, <2>1, PlaceOf DEF LeftToStop
<1>6. CASE \/ AcqStop("stop_last", "flush_last") \/ AcqFlushed("flush_last", "count")
           \/ AcqStop("stop_abort", "flush_abort") \/ AcqFlushed("flush_abort", "after")
           \/ AcqStop("stop_ext", "flush_ext") \/ AcqFlushed("flush_ext", "collect")
  <2>1. \/ acq_pc = "stop_last" /\ acq_pc' = "flush_last"
        \/ acq_pc = "stop_abort" /\ acq_pc' = "flush_abort"
        \/ acq_pc = "stop_ext" /\ acq_pc' = "flush_ext"
        \/ acq_pc = "flush_last" /\ acq_pc' \in {"flush_last", "count"}
        \/ acq_pc = "flush_abort" /\ acq_pc' \in {"flush_abort", "after"}
        \/ acq_pc = "flush_ext" /\ acq_pc' \in {"flush_ext", "collect"}
    BY <1>6 DEF AcqStop, AcqFlushed
  <2> QED
    BY <1>1, <2>1, PlaceOf DEF LeftToStop
<1>7. CASE AcqCount \/ AcqStore \/ AcqCheck \/ AcqSignal \/ AcqInner
  <2>1. \/ acq_pc = "count" /\ acq_pc' = "store"
        \/ acq_pc = "store" /\ acq_pc' = "check"
        \/ acq_pc = "check" /\ acq_pc' \in {"check", "signal"}
        \/ acq_pc = "signal" /\ acq_pc' = "inner"
        \/ acq_pc = "inner" /\ acq_pc' = "after"
    BY <1>7 DEF AcqCount, AcqStore, AcqCheck, AcqSignal, AcqInner
  <2> QED
    BY <1>1, <2>1, PlaceOf DEF LeftToStop
<1>8. CASE AcqPoll \/ AcqPollAbort \/ AcqCollect
  <2>1. \/ acq_pc = "poll" /\ acq_pc' = "pollabort"
        \/ acq_pc = "pollabort" /\ acq_pc' = "stop_ext"
        \/ acq_pc = "collect" /\ acq_pc' = "signal"
    BY <1>8 DEF AcqPoll, AcqPollAbort, AfterPoll, AcqCollect
  <2> QED
    BY <1>1, <2>1, PlaceOf DEF LeftToStop
<1>9. CASE AcqAfter \/ AcqFin \/ AcqFinWake \/ AcqIdle
  <2>1. \/ acq_pc = "after" /\ acq_pc' = "idle1"
        \/ acq_pc = "fin" /\ acq_pc' = "finwake"
        \/ acq_pc = "finwake" /\ acq_pc' = "idle1"
        \/ acq_pc = "idle1" /\ acq_pc' = "idle2"
        \/ acq_pc \in {"idle2", "idle3"} /\ acq_pc' \in {"idle3", "top"}
    BY <1>9 DEF AcqAfter, WaitForRead, AcqFin, AcqFinWake, AcqIdle
  <2>2. Place("top") = 0 /\ Place("idle2") = 0 /\ Place("idle3") = 0
    BY <1>2 DEF AcqIdlePCs
  <2> QED
    BY <1>1, <2>1, <2>2, PlaceOf DEF LeftToStop
<1> QED
  BY <1>1, <1>3, <1>4, <1>5, <1>6, <1>7, <1>8, <1>9 DEF AcqStep

(* Nobody else moves the acq thread, but that it ends when a call fails. *)
LEMMA StoppedOthers ==
    ASSUME m_abort, m_abort', UNCHANGED acq_pc,
           UNCHANGED m_quit \/ m_quit' = TRUE
    PROVE  LeftToStop' <= LeftToStop
<1>1. CASE acq_pc = "quitcheck" /\ m_quit'
  <2>1. LeftToStop' = 0
    BY <1>1 DEF LeftToStop
  <2> QED
    BY <2>1, PlacesLeft
<1>2. CASE ~(acq_pc = "quitcheck" /\ m_quit')
  <2>1. LeftToStop' = LeftToStop
    BY <1>2 DEF LeftToStop
  <2> QED
    BY <2>1, PlacesLeft
<1> QED
  BY <1>1, <1>2

LEMMA StoppedStep ==
    ASSUME StopWaits, [Next]_vars, m_abort, m_abort'
    PROVE  /\ LeftToStop' <= LeftToStop
           /\ acq_pc' # acq_pc /\ LeftToStop > 0 => LeftToStop' < LeftToStop
<1>1. CASE AcqStep
  BY <1>1, StoppedAcq
<1>2. CASE AcqFault
  <2>1. acq_pc' = "dead"
    BY <1>2 DEF AcqFault
  <2>2. LeftToStop' = 0
    BY <2>1, PlaceOf DEF LeftToStop, AcqIdlePCs
  <2> QED
    BY <2>2, PlacesLeft
<1>3. CASE ~AcqStep /\ ~AcqFault
  <2>1. CASE ReadStep
    BY <2>1, StoppedOthers DEF ReadStep, ReadBegin, ReadTop, ReadToWait, ReadWait,
       ReadWake, ReadQuit, ReadAborted, ReadRelease, ReadBuffer, ReadLoopEnd,
       ReadData, ReadReady, ReadIncr, ReadStore, ReadLock, ReadDrained, ReadFlag,
       ReadGo, ReadJump, ReadCond, ReadSetWait, flagVars, acqVars
  <2>2. CASE CtlCall \/ CtlStep \/ CtlFault
    <3>1. acq_pc' = acq_pc
      BY <2>2 DEF CtlCall, CtlStep, CtlFault, CtlGo, CtlJump, Poll, AskToStop,
         CallStop, CallReset, ResetStatus, DeleteCamera, SetNbFrames, SetTrigMode,
         StartAcq, StartResetRead, StartHw, StartRelease, StopAcq, RaiseQuit,
         JoinAcq, JoinRead, acqVars
    <3>2. m_quit' = m_quit \/ m_quit' = TRUE \/ ~m_abort'
      BY <2>2 DEF CtlCall, CtlStep, CtlFault, CtlGo, CtlJump, Poll, AskToStop,
         CallStop, CallReset, ResetStatus, DeleteCamera, SetNbFrames, SetTrigMode,
         StartAcq, StartResetRead, StartHw, StartRelease, StopAcq, RaiseQuit,
         JoinAcq, JoinRead, flagVars
    <3> QED
      BY <3>1, <3>2, StoppedOthers
  <2>3. CASE \/ ReadFault \/ Closed \/ HwFrame \/ HwComplete
             \/ SpuriousWakeup \/ UNCHANGED vars
    <3>1. acq_pc' = acq_pc /\ m_quit' = m_quit
      BY <2>3 DEF ReadFault, Closed, HwFrame, HwComplete, HwUnchanged,
         SpuriousWakeup, vars, shared, flagVars, acqVars
    <3> QED
      BY <3>1, StoppedOthers
  <2> QED
    BY <1>3, <2>1, <2>2, <2>3 DEF Next
<1> QED
  BY <1>1, <1>2, <1>3

(* After stopAcq the acq thread only goes towards Idle and comes to no     *)
(* place twice, so it counts at most once more and stays out of its loop   *)
(* until startAcq: for any number of frames and of acquisitions, in every  *)
(* mode and under every policy of the caller.                              *)
THEOREM StopBounds == Spec => StopIsBounded
<1>1. Init => StopWaits
  BY DEF Init, StopWaits
<1>2. StopWaits /\ [Next]_vars => StopWaits'
  BY StopWaitsNext
<1>3. StopWaits /\ [Next]_vars
      => [m_abort /\ m_abort' =>
            /\ LeftToStop' <= LeftToStop
            /\ acq_pc' # acq_pc /\ LeftToStop > 0 => LeftToStop' < LeftToStop]_vars
  BY StoppedStep
<1> QED
  BY <1>1, <1>2, <1>3, PTL DEF Spec, StopIsBounded
=============================================================================
