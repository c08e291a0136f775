---------------------------- MODULE Xspress3Acq ----------------------------
(***************************************************************************)
(* The acquisition engine of the Xspress3 plug-in: the part of Camera that *)
(* startAcq, stopAcq and the destructor share with its two threads.        *)
(*                                                                         *)
(*   acq   AcqThread::threadFunction: paces the detector, counts the       *)
(*         frames it completed (m_acq_frame_nb), signals the read thread   *)
(*   read  ReadThread::threadFunction: copies each counted frame into a    *)
(*         Lima buffer and announces it (newFrameReady, m_read_frame_nb)   *)
(*   ctl   the Lima control thread that calls the Camera                   *)
(*                                                                         *)
(* A step of a thread is what it does between two accesses to shared state *)
(* another thread can interleave with: most of that state is written       *)
(* without the mutex, so the steps are small.  A critical section whose    *)
(* effects nobody can see half-done is one step.                           *)
(***************************************************************************)
EXTENDS LimaCond, Integers, Sequences

CONSTANTS
    FrameCounts,        \* the values setNbFrames is called with
    TrigModes,          \* the values setTrigMode is called with
    ExtraGates,         \* external gates beyond m_nb_frames that may come
    Policy,             \* when the caller starts again, see MayStart
    MaxStarts,          \* bounds on the calls of startAcq and of stopAcq
    MaxStops,
    MaxFaults,          \* bound on the SDK calls that fail
    SpuriousWakeups,    \* whether wait() may return without a broadcast
    CallbackMayRefuse,  \* whether newFrameReady may return false
    Resets,             \* whether Interface::reset is called
    DeleteWithin        \* how many starts a Camera that is deleted may have seen

ASSUME CameraAssumption ==
    /\ Threads = {"acq", "read", "ctl"}
    /\ FrameCounts \subseteq Nat \ {0}
    /\ TrigModes \subseteq
          {"IntTrig", "IntTrigMult", "ExtGate", "ExtTrigMult", "ExtTrigSingle"}
    /\ ExtraGates \in Nat
    /\ Policy \in {"any", "running", "status", "control", "finish"}
    /\ MaxStarts \in Nat /\ MaxStops \in Nat /\ MaxFaults \in Nat
    /\ SpuriousWakeups \in BOOLEAN
    /\ CallbackMayRefuse \in BOOLEAN
    /\ Resets \in BOOLEAN
    /\ DeleteWithin \in Int      \* -1: the Camera is never deleted

VARIABLES
    m_status, m_thread_running,         \* what getStatus, isAcqRunning return
    m_wait_flag, m_read_wait_flag, m_quit, m_abort,
    m_acq_frame_nb, m_read_frame_nb, m_nb_frames, m_trigger_mode,
    acq_pc, completed_frames, acq_reg,  \* AcqThread: place, locals
    read_pc, frame, continueFlag, read_reg,
    ctl_pc, may_start, starts, stops, faults,
    hw_running, hw_closed, hw_done,     \* the detector
    delivered                           \* frames announced since startAcq

statVars  == <<m_status, m_thread_running>>
flagVars  == <<m_wait_flag, m_quit, m_abort>>
confVars  == <<m_nb_frames, m_trigger_mode>>
shared    == <<statVars, flagVars, m_read_wait_flag, m_acq_frame_nb,
               m_read_frame_nb>>
acqVars   == <<acq_pc, completed_frames, acq_reg>>
readVars  == <<read_pc, frame, continueFlag, read_reg>>
ctlVars   == <<ctl_pc, may_start, starts, stops>>
hwVars    == <<hw_running, hw_closed, hw_done>>

vars == <<condVars, shared, confVars, acqVars, readVars, ctlVars, faults,
          hwVars, delivered>>

-----------------------------------------------------------------------------
(* Where the threads can be.                                               *)

AcqIdlePCs == {"begin", "top", "towait", "wait", "wake", "dead"}
AcqLoopPCs == {"loop", "expose", "pause", "restart", "stop_last", "flush_last",
               "stop_abort", "flush_abort", "count", "store", "check",
               "poll", "pollabort", "stop_ext", "flush_ext", "collect",
               "signal", "inner"}
AcqPCs == AcqIdlePCs \cup AcqLoopPCs \cup
          {"quitcheck", "after", "fin", "finwake", "idle1", "idle2", "idle3"}

ReadIdlePCs == {"begin", "top", "towait", "wait", "wake", "dead"}
ReadPCs == ReadIdlePCs \cup {"quitcheck", "loop", "read", "ready", "incr",
                             "store", "lock", "drained", "flag"}

CtlPCs == {"free", "set_mode", "prepared", "start_read", "start_hw",
           "start_lock", "stop", "reset_stop", "reset", "quit_acq", "join_acq", "quit_read",
           "join_read", "closed"}

(* What newFrameReady announced: the frame number it was given, the frame  *)
(* whose buffer was filled, the frame whose data was read into it, and     *)
(* whether the detector had completed that frame when it was read.         *)
Deliveries == [nb : Int, buf : Int, data : Int, whole : BOOLEAN]

NoFrame == [buf |-> 0, data |-> 0, whole |-> FALSE]

-----------------------------------------------------------------------------
(* Camera::Camera.  It never sets m_abort and m_read_frame_nb, and only    *)
(* the thread sets m_thread_running: they start with any value.            *)
Init ==
    /\ CondInit
    /\ m_status = "Idle" /\ m_thread_running \in BOOLEAN
    /\ m_wait_flag = TRUE /\ m_read_wait_flag = TRUE
    /\ m_quit = FALSE /\ m_abort \in BOOLEAN
    /\ m_acq_frame_nb = -1 /\ m_read_frame_nb \in {-1, 0, 1}
    /\ m_nb_frames = 1 /\ m_trigger_mode = "IntTrig"
    /\ acq_pc = "begin" /\ completed_frames = 0 /\ acq_reg = 0
    /\ read_pc = "begin" /\ frame = NoFrame /\ continueFlag = TRUE
    /\ read_reg = 0
    /\ ctl_pc = "free" /\ may_start = FALSE
    /\ starts = 0 /\ stops = 0 /\ faults = 0
    /\ hw_running = FALSE /\ hw_closed = 0 /\ hw_done = 0
    /\ delivered = <<>>

-----------------------------------------------------------------------------
(* The detector, as the SDK calls of Xspress3Camera.cpp see it.  A frame   *)
(* is closed when its exposure ends, and completed once its data is in     *)
(* memory.                                                                 *)

FrameLimit ==
    IF m_trigger_mode = "IntTrig" THEN m_nb_frames ELSE m_nb_frames + ExtraGates

HwUnchanged == UNCHANGED <<condVars, shared, confVars, acqVars, readVars,
                           ctlVars, faults, hw_running, delivered>>

(* A frame ends: by the frame generator, or by an external gate. *)
HwFrame ==
    /\ hw_running /\ hw_closed < FrameLimit
    /\ hw_closed' = hw_closed + 1
    /\ HwUnchanged /\ UNCHANGED hw_done

(* The data of a closed frame reaches memory. *)
HwComplete ==
    /\ hw_done < hw_closed
    /\ hw_done' = hw_done + 1
    /\ HwUnchanged /\ UNCHANGED hw_closed

(* xsp3_histogram_start, _pause and _stop; the last two end the current    *)
(* frame.                                                                  *)
HwStart == hw_running' = TRUE /\ hw_closed' = 0 /\ hw_done' = 0

CloseFrame(running) ==
    /\ hw_closed' = hw_closed + (IF hw_running /\ hw_closed < FrameLimit
                                 THEN 1 ELSE 0)
    /\ hw_running' = running
    /\ UNCHANGED hw_done

HwPause == CloseFrame(hw_running)
HwStop == CloseFrame(FALSE)

(* xsp3_histogram_is_any_busy *)
HwBusy == hw_done < hw_closed

(* Mutant: the frames whose exposure ended. *)
ClosedProgress == hw_closed

(* checkProgress: the frames whose data is in memory. *)
Progress == hw_done

-----------------------------------------------------------------------------
(* AcqThread::threadFunction.  AcqGo is a step from one place to another;  *)
(* AcqJump one that does nothing else.                                     *)

AcqGo(from, to) ==
    /\ acq_pc = from /\ acq_pc' = to
    /\ UNCHANGED <<m_quit, m_abort, m_read_frame_nb, confVars, readVars, ctlVars,
                   faults, delivered>>

acqRest == <<statVars, m_wait_flag, m_read_wait_flag, m_acq_frame_nb,
             completed_frames, acq_reg, hwVars>>

AcqJump(from, to) == AcqGo(from, to) /\ UNCHANGED <<condVars, acqRest>>

AcqCond(from, to, op) == AcqGo(from, to) /\ op /\ UNCHANGED acqRest

AcqBegin == AcqCond("begin", "top", Lock("acq"))

(* while (!m_quit) *)
AcqTop ==
    \/ ~m_quit /\ AcqJump("top", "towait")
    \/ m_quit /\ AcqCond("top", "dead", Leave("acq"))

(* while (m_wait_flag && !m_quit) { m_thread_running = false; wait(); } *)
AcqToWait ==
    /\ AcqGo("towait", "wait")
    /\ m_wait_flag /\ ~m_quit
    /\ m_thread_running' = FALSE
    /\ UNCHANGED <<condVars, m_status, m_wait_flag, m_read_wait_flag,
                   m_acq_frame_nb, completed_frames, acq_reg, hwVars>>

AcqWait == AcqCond("wait", "wake", Wait("acq"))
AcqWake == AcqCond("wake", "towait", Resume("acq"))

acqButStat == <<m_wait_flag, m_read_wait_flag, m_acq_frame_nb,
                completed_frames, acq_reg, hwVars>>

AcqRunning ==
    /\ AcqGo("towait", "quitcheck")
    /\ ~m_wait_flag \/ m_quit
    /\ m_status' = "Running" /\ m_thread_running' = TRUE
    /\ UNCHANGED <<condVars, acqButStat>>

(* if (m_quit) { ... return; }  aLock.unlock(); *)
AcqQuit ==
    /\ AcqGo("quitcheck", "dead") /\ m_quit
    /\ m_status' = "Idle" /\ m_thread_running' = FALSE
    /\ Leave("acq")
    /\ UNCHANGED acqButStat

AcqRelease == ~m_quit /\ AcqCond("quitcheck", "loop", Unlock("acq"))

(* while (!m_nb_frames || m_acq_frame_nb < m_nb_frames), then by mode *)
FramesToAcquire == m_nb_frames = 0 \/ m_acq_frame_nb < m_nb_frames

AcqLoop ==
    AcqJump("loop", IF ~FramesToAcquire THEN "after"
                    ELSE IF m_trigger_mode = "IntTrig" THEN "expose" ELSE "poll")

(* Mutant: the last frame is taken for one that another follows. *)
MoreAfterOrLast == m_acq_frame_nb <= m_nb_frames - 1

(* IntTrig: the exposure is over; stop, or go on to the next frame *)
MoreAfterThis == m_acq_frame_nb < m_nb_frames - 1

AcqExpose ==
    AcqJump("expose", IF m_abort THEN "stop_abort"
                      ELSE IF MoreAfterThis THEN "pause" ELSE "stop_last")

(* Camera::pause, which marks the status, and Camera::restart *)
AcqPause ==
    /\ AcqGo("pause", "restart")
    /\ HwPause
    /\ m_status' = "Paused"
    /\ UNCHANGED <<condVars, m_thread_running, m_wait_flag, m_read_wait_flag,
                   m_acq_frame_nb, completed_frames, acq_reg>>

AcqRestart == AcqJump("restart", "count")

(* Camera::stop: the SDK call, then polling until nothing is busy *)
AcqStop(from, to) ==
    /\ AcqGo(from, to)
    /\ HwStop
    /\ UNCHANGED <<condVars, statVars, m_wait_flag, m_read_wait_flag,
                   m_acq_frame_nb, completed_frames, acq_reg>>

AcqFlushed(from, to) == AcqJump(from, IF HwBusy THEN from ELSE to)

(* lock(); ++m_acq_frame_nb, a load and a store: startAcq writes it too *)
AcqCount ==
    /\ AcqGo("count", "store")
    /\ Lock("acq")
    /\ acq_reg' = m_acq_frame_nb
    /\ UNCHANGED <<statVars, m_wait_flag, m_read_wait_flag, m_acq_frame_nb,
                   completed_frames, hwVars>>

AcqStore ==
    /\ AcqGo("store", "check")
    /\ m_acq_frame_nb' = acq_reg + 1 /\ acq_reg' = 0
    /\ UNCHANGED <<condVars, statVars, m_wait_flag, m_read_wait_flag,
                   completed_frames, hwVars>>

(* Mutant: one frame more has to come. *)
CountedAndOneMore == Progress > m_acq_frame_nb

(* do { checkProgress } while (completed_frames < m_acq_frame_nb), locked *)
CountedCompleted == Progress >= m_acq_frame_nb

AcqCheck == AcqJump("check", IF CountedCompleted THEN "signal" ELSE "check")

(* the other modes: do { checkProgress; if (m_abort) { stop(); break; } }  *)
(* while (completed_frames <= m_acq_frame_nb)                              *)
AcqPoll ==
    /\ AcqGo("poll", "pollabort")
    /\ completed_frames' = Progress
    /\ UNCHANGED <<condVars, statVars, m_wait_flag, m_read_wait_flag,
                   m_acq_frame_nb, acq_reg, hwVars>>

(* Mutant: the caller's stop is not looked at between two checks. *)
PollOn == IF completed_frames <= m_acq_frame_nb THEN "poll" ELSE "collect"

AfterPoll ==
    IF m_abort THEN "stop_ext"
    ELSE IF completed_frames <= m_acq_frame_nb THEN "poll" ELSE "collect"

AcqPollAbort == AcqJump("pollabort", AfterPoll)

(* lock(); gates beyond m_nb_frames are not frames of the acquisition *)
AcqCollect ==
    /\ AcqGo("collect", "signal")
    /\ Lock("acq")
    /\ m_acq_frame_nb' = IF completed_frames > m_nb_frames THEN m_nb_frames
                                                           ELSE completed_frames
    /\ completed_frames' = 0
    /\ UNCHANGED <<statVars, m_wait_flag, m_read_wait_flag, acq_reg, hwVars>>

(* m_read_wait_flag = false; broadcast(); unlock(); *)
AcqSignal ==
    /\ AcqGo("signal", "inner")
    /\ m_read_wait_flag' = FALSE
    /\ BroadcastThenUnlock("acq")
    /\ UNCHANGED <<statVars, m_wait_flag, m_acq_frame_nb, completed_frames,
                   acq_reg, hwVars>>

(* if (m_abort) break; *)
AcqInner == AcqJump("inner", IF m_abort THEN "after" ELSE "loop")

(* Mutant: nobody waits for the read thread. *)
NoWaitForRead == "idle1"

(* if (!m_abort) { lock(); wait(); } *)
WaitForRead == IF m_abort THEN "idle1" ELSE "fin"

AcqAfter == AcqJump("after", WaitForRead)
AcqFin == AcqCond("fin", "finwake", LockThenWait("acq"))
AcqFinWake == AcqCond("finwake", "idle1", Resume("acq"))

(* m_status = Idle; m_thread_running = false; m_wait_flag = true; without  *)
(* the mutex after an abort                                                *)
AcqIdle ==
    /\ \/ /\ AcqGo("idle1", "idle2") /\ m_status' = "Idle"
          /\ UNCHANGED <<m_thread_running, m_wait_flag>>
       \/ /\ AcqGo("idle2", "idle3") /\ m_thread_running' = FALSE
          /\ UNCHANGED <<m_status, m_wait_flag>>
       \/ /\ AcqGo("idle3", "top") /\ m_wait_flag' = TRUE
          /\ UNCHANGED statVars
    /\ UNCHANGED <<condVars, m_read_wait_flag, m_acq_frame_nb, completed_frames,
                   acq_reg, hwVars>>

AcqStep ==
    \/ AcqBegin \/ AcqTop \/ AcqToWait \/ AcqWait \/ AcqWake \/ AcqRunning
    \/ AcqQuit \/ AcqRelease \/ AcqLoop \/ AcqExpose \/ AcqPause \/ AcqRestart
    \/ AcqStop("stop_last", "flush_last") \/ AcqFlushed("flush_last", "count")
    \/ AcqStop("stop_abort", "flush_abort") \/ AcqFlushed("flush_abort", "after")
    \/ AcqStop("stop_ext", "flush_ext") \/ AcqFlushed("flush_ext", "collect")
    \/ AcqCount \/ AcqStore \/ AcqCheck \/ AcqPoll \/ AcqPollAbort \/ AcqCollect
    \/ AcqSignal \/ AcqInner \/ AcqAfter \/ AcqFin \/ AcqFinWake \/ AcqIdle

(* An SDK call fails: THROW_HW_ERROR leaves the function, the thread ends. *)
AcqFault ==
    /\ acq_pc \in {"pause", "restart", "stop_last", "stop_abort", "stop_ext",
                   "check", "poll"}
    /\ acq_pc' = "dead"
    /\ faults < MaxFaults /\ faults' = faults + 1
    /\ Leave("acq")
    /\ UNCHANGED <<shared, confVars, completed_frames, acq_reg, readVars, ctlVars,
                   hwVars, delivered>>

-----------------------------------------------------------------------------
(* ReadThread::threadFunction *)

ReadGo(from, to) ==
    /\ read_pc = from /\ read_pc' = to
    /\ UNCHANGED <<statVars, flagVars, m_acq_frame_nb, confVars, acqVars, ctlVars,
                   faults, hwVars>>

readRest == <<m_read_wait_flag, m_read_frame_nb, frame, continueFlag, read_reg,
              delivered>>

ReadJump(from, to) == ReadGo(from, to) /\ UNCHANGED <<condVars, readRest>>

ReadCond(from, to, op) == ReadGo(from, to) /\ op /\ UNCHANGED readRest

ReadSetWait(from, to) ==
    /\ ReadGo(from, to)
    /\ m_read_wait_flag' = TRUE
    /\ UNCHANGED <<condVars, m_read_frame_nb, frame, continueFlag, read_reg,
                   delivered>>

ReadBegin == ReadCond("begin", "top", Lock("read"))

(* while (!m_quit) *)
ReadTop ==
    \/ ~m_quit /\ ReadJump("top", "towait")
    \/ m_quit /\ ReadCond("top", "dead", Leave("read"))

(* while (m_read_wait_flag && !m_quit) wait(); *)
ReadToWait == ReadJump("towait", IF m_read_wait_flag /\ ~m_quit THEN "wait"
                                                                ELSE "quitcheck")
ReadWait == ReadCond("wait", "wake", Wait("read"))
ReadWake == ReadCond("wake", "towait", Resume("read"))

(* if (m_quit) return;  if (m_abort) { m_read_wait_flag = true; continue; } *)
ReadQuit == m_quit /\ ReadCond("quitcheck", "dead", Leave("read"))

ReadAborted == ~m_quit /\ m_abort /\ ReadSetWait("quitcheck", "top")

ReadRelease ==
    /\ ReadGo("quitcheck", "loop")
    /\ ~m_quit /\ ~m_abort
    /\ Unlock("read")
    /\ continueFlag' = TRUE
    /\ UNCHANGED <<m_read_wait_flag, m_read_frame_nb, frame, read_reg, delivered>>

(* Mutant: one frame past those counted. *)
OneFrameMore ==
    continueFlag /\ (m_nb_frames = 0 \/ m_read_frame_nb <= m_acq_frame_nb)

(* while (continueFlag && (!m_nb_frames ||                                 *)
(* m_read_frame_nb < m_acq_frame_nb))                                      *)
FramesToRead ==
    continueFlag /\ (m_nb_frames = 0 \/ m_read_frame_nb < m_acq_frame_nb)

(* getFrameBufferPtr(m_read_frame_nb) *)
ReadBuffer ==
    /\ ReadGo("loop", "read") /\ FramesToRead
    /\ frame' = [frame EXCEPT !.buf = m_read_frame_nb]
    /\ UNCHANGED <<condVars, m_read_wait_flag, m_read_frame_nb, continueFlag,
                   read_reg, delivered>>

ReadLoopEnd == ~FramesToRead /\ ReadJump("loop", "lock")

(* Mutant: the frame counted last. *)
LatestFrame == m_acq_frame_nb - 1

FrameToRead == m_read_frame_nb

(* readFrame(bptr, m_read_frame_nb) *)
ReadData ==
    /\ ReadGo("read", "ready")
    /\ frame' = [frame EXCEPT !.data = FrameToRead, !.whole = FrameToRead < hw_done]
    /\ UNCHANGED <<condVars, m_read_wait_flag, m_read_frame_nb, continueFlag,
                   read_reg, delivered>>

(* continueFlag = newFrameReady({acq_frame_nb = m_read_frame_nb}) *)
ReadReady ==
    /\ ReadGo("ready", "incr")
    /\ delivered' = Append(delivered,
                           [nb |-> m_read_frame_nb, buf |-> frame.buf,
                            data |-> frame.data, whole |-> frame.whole])
    /\ continueFlag' \in IF CallbackMayRefuse THEN BOOLEAN ELSE {TRUE}
    /\ frame' = NoFrame
    /\ UNCHANGED <<condVars, m_read_wait_flag, m_read_frame_nb, read_reg>>

(* ++m_read_frame_nb, a load and a store: startAcq writes it too *)
ReadIncr ==
    /\ ReadGo("incr", "store")
    /\ read_reg' = m_read_frame_nb
    /\ UNCHANGED <<condVars, m_read_wait_flag, m_read_frame_nb, frame,
                   continueFlag, delivered>>

ReadStore ==
    /\ ReadGo("store", "loop")
    /\ m_read_frame_nb' = read_reg + 1 /\ read_reg' = 0
    /\ UNCHANGED <<condVars, m_read_wait_flag, frame, continueFlag, delivered>>

ReadLock == ReadCond("lock", "drained", Lock("read"))

(* Mutant: the mutex is released however many frames were read. *)
AlwaysUnlock == BroadcastThenUnlock("read")

(* Mutant: after a stop there is nobody to wake. *)
WakeUnlessStopped == IF m_nb_frames = m_read_frame_nb /\ ~m_abort
                     THEN BroadcastThenUnlock("read") ELSE UNCHANGED condVars

(* if (m_nb_frames == m_read_frame_nb) { broadcast(); unlock(); } *)
WakeAcqThread == IF m_nb_frames = m_read_frame_nb
                 THEN BroadcastThenUnlock("read") ELSE UNCHANGED condVars

ReadDrained == ReadCond("drained", "flag", WakeAcqThread)

(* m_read_wait_flag = true; without the mutex if all frames were read *)
ReadFlag == ReadSetWait("flag", "top")

ReadStep ==
    \/ ReadBegin \/ ReadTop \/ ReadToWait \/ ReadWait \/ ReadWake \/ ReadQuit
    \/ ReadAborted \/ ReadRelease \/ ReadBuffer \/ ReadLoopEnd \/ ReadData
    \/ ReadReady \/ ReadIncr \/ ReadStore \/ ReadLock \/ ReadDrained \/ ReadFlag

(* readFrame throws *)
ReadFault ==
    /\ read_pc = "read" /\ read_pc' = "dead"
    /\ faults < MaxFaults /\ faults' = faults + 1
    /\ Leave("read")
    /\ UNCHANGED <<shared, confVars, acqVars, frame, continueFlag, read_reg,
                   ctlVars, hwVars, delivered>>

-----------------------------------------------------------------------------
(* The caller.  Lima's control layer calls the Camera from one thread.     *)

CtlGo(from, to) ==
    /\ ctl_pc = from /\ ctl_pc' = to
    /\ UNCHANGED <<statVars, m_read_wait_flag, acqVars, readVars>>

(* What tells the caller that it may start again: nothing, isAcqRunning()  *)
(* (the tests' loop), getStatus(), or getStatus() and either all frames of *)
(* the acquisition announced or the acquisition stopped (hence m_abort).   *)
(* "finish" is the last of these, but what was stopped is not started      *)
(* again.                                                                  *)
MayStart ==
    CASE Policy = "any"     -> TRUE
      [] Policy = "running" -> ~m_thread_running
      [] Policy = "status"  -> m_status = "Idle"
      [] Policy = "control" -> /\ m_status = "Idle"
                               /\ \/ starts = 0 \/ m_abort
                                  \/ Len(delivered) = m_nb_frames
      [] Policy = "finish"  -> /\ m_status = "Idle"
                               /\ \/ starts = 0
                                  \/ /\ stops = 0
                                     /\ m_abort \/ Len(delivered) = m_nb_frames

(* getStatus(), isAcqRunning() *)
Poll ==
    /\ CtlGo("free", "free")
    /\ Locked
    /\ may_start' = MayStart
    /\ UNCHANGED <<flagVars, m_acq_frame_nb, m_read_frame_nb, confVars, starts,
                   stops, faults, hwVars, delivered>>

ctlRest == <<m_acq_frame_nb, m_read_frame_nb, starts, stops, faults, delivered>>

(* Mutant: the number of the last frame. *)
SetNbFramesLast(nb_frames) ==
    /\ CtlGo("free", "set_mode")
    /\ may_start /\ starts < MaxStarts
    /\ m_nb_frames' = nb_frames - 1
    /\ may_start' = FALSE
    /\ UNCHANGED <<condVars, flagVars, m_trigger_mode, hwVars, ctlRest>>

(* The control layer configures, then starts. *)
SetNbFrames(nb_frames) ==
    /\ CtlGo("free", "set_mode")
    /\ may_start /\ starts < MaxStarts
    /\ m_nb_frames' = nb_frames
    /\ may_start' = FALSE
    /\ UNCHANGED <<condVars, flagVars, m_trigger_mode, hwVars, ctlRest>>

SetTrigMode(mode) ==
    /\ CtlGo("set_mode", "prepared")
    /\ m_trigger_mode' = mode
    /\ UNCHANGED <<condVars, flagVars, m_nb_frames, may_start, hwVars, ctlRest>>

(* startAcq: the counters are reset and the detector started without the   *)
(* mutex; the acq thread is released with it                               *)
StartAcq ==
    /\ CtlGo("prepared", "start_read")
    /\ m_acq_frame_nb' = 0
    /\ starts' = starts + 1
    /\ UNCHANGED <<condVars, flagVars, m_read_frame_nb, confVars, may_start,
                   stops, faults, hwVars, delivered>>

(* Mutant: the counter goes on from the last acquisition. *)
KeepReadCount == m_read_frame_nb

FirstFrame == 0

StartResetRead ==
    /\ CtlGo("start_read", "start_hw")
    /\ m_read_frame_nb' = FirstFrame
    /\ delivered' = <<>>
    /\ UNCHANGED <<condVars, flagVars, m_acq_frame_nb, confVars, may_start,
                   starts, stops, faults, hwVars>>

StartHw ==
    /\ CtlGo("start_hw", "start_lock")
    /\ HwStart
    /\ UNCHANGED <<condVars, flagVars, confVars, may_start, ctlRest>>

StartRelease ==
    /\ CtlGo("start_lock", "free")
    /\ LockedBroadcast
    /\ m_wait_flag' = FALSE /\ m_quit' = FALSE /\ m_abort' = FALSE
    /\ UNCHANGED <<confVars, may_start, hwVars, ctlRest>>

(* xsp3_histogram_start fails, or a call of init: startAcq or reset throws *)
CtlFault ==
    /\ CtlGo("start_hw", "free") \/ CtlGo("reset", "free")
    /\ faults < MaxFaults /\ faults' = faults + 1
    /\ UNCHANGED <<condVars, flagVars, m_acq_frame_nb, m_read_frame_nb, confVars,
                   may_start, starts, stops, hwVars, delivered>>

(* stopAcq, or Interface::reset, which begins with it: asked for at any   *)
(* time, done when the mutex is free                                       *)
AskToStop(to) ==
    /\ CtlGo("free", to)
    /\ stops < MaxStops /\ stops' = stops + 1
    /\ UNCHANGED <<condVars, flagVars, m_acq_frame_nb, m_read_frame_nb, confVars,
                   may_start, starts, faults, hwVars, delivered>>

CallStop == AskToStop("stop")
CallReset == Resets /\ AskToStop("reset_stop")

StopAcq ==
    /\ CtlGo("stop", "free") \/ CtlGo("reset_stop", "reset")
    /\ Locked
    /\ m_wait_flag' = TRUE /\ m_abort' = TRUE
    /\ UNCHANGED <<m_quit, confVars, may_start, hwVars, ctlRest>>

(* Camera::reset: init ends by setting the status, without the mutex,       *)
(* wherever the threads are                                                *)
ResetStatus ==
    /\ ctl_pc = "reset" /\ ctl_pc' = "free"
    /\ m_status' = "Idle"
    /\ UNCHANGED <<condVars, m_thread_running, flagVars, m_read_wait_flag, confVars,
                   acqVars, readVars, may_start, hwVars, ctlRest>>

(* Camera::~Camera: each thread object raises m_quit, and its base class   *)
(* waits for the thread; the read thread comes second, then xsp3_close.    *)
CtlJump(from, to) ==
    CtlGo(from, to)
    /\ UNCHANGED <<condVars, flagVars, confVars, may_start, hwVars, ctlRest>>

DeleteCamera == starts <= DeleteWithin /\ CtlJump("free", "quit_acq")

(* Mutant: nobody is woken. *)
QuitQuietly == Locked

QuitWakes == LockedBroadcast

RaiseQuit(from, to) ==
    /\ CtlGo(from, to)
    /\ QuitWakes
    /\ m_quit' = TRUE
    /\ UNCHANGED <<m_wait_flag, m_abort, confVars, may_start, hwVars, ctlRest>>

JoinAcq == acq_pc = "dead" /\ CtlJump("join_acq", "quit_read")
JoinRead == read_pc = "dead" /\ CtlJump("join_read", "closed")

Closed == ctl_pc = "closed" /\ UNCHANGED vars

(* The calls the caller may make, and the steps that finish a call. *)
CtlCall ==
    \/ Poll \/ CallStop \/ CallReset \/ DeleteCamera
    \/ \E n \in FrameCounts : SetNbFrames(n)

CtlStep ==
    \/ \E mode \in TrigModes : SetTrigMode(mode)
    \/ StartAcq \/ StartResetRead \/ StartHw \/ StartRelease
    \/ StopAcq \/ ResetStatus
    \/ RaiseQuit("quit_acq", "join_acq") \/ JoinAcq
    \/ RaiseQuit("quit_read", "join_read") \/ JoinRead

-----------------------------------------------------------------------------
SpuriousWakeup ==
    /\ SpuriousWakeups
    /\ \E t \in {"acq", "read"} : WakeSpuriously(t)
    /\ UNCHANGED <<shared, confVars, acqVars, readVars, ctlVars, faults, hwVars,
                   delivered>>

Next ==
    \/ AcqStep \/ AcqFault
    \/ ReadStep \/ ReadFault
    \/ CtlCall \/ CtlStep \/ CtlFault \/ Closed
    \/ HwFrame \/ HwComplete
    \/ SpuriousWakeup

Spec == Init /\ [][Next]_vars

(* The threads run, a call that was made goes on, and the data of a closed *)
(* frame gets to memory.  Nobody has to call the Camera, no external gate  *)
(* has to come, and no SDK call has to fail.                               *)
Fairness ==
    /\ WF_vars(AcqStep)
    /\ WF_vars(ReadStep)
    /\ WF_vars(CtlStep)
    /\ WF_vars(HwComplete)

FairSpec == Spec /\ Fairness

-----------------------------------------------------------------------------
(* Every variable has its type; the data of a frame reaches memory after   *)
(* the frame was closed.                                                   *)
CameraTypeOK ==
    /\ m_status \in {"Idle", "Paused", "Running"}
    /\ m_thread_running \in BOOLEAN
    /\ m_wait_flag \in BOOLEAN /\ m_read_wait_flag \in BOOLEAN
    /\ m_quit \in BOOLEAN /\ m_abort \in BOOLEAN
    /\ m_acq_frame_nb \in Int /\ m_read_frame_nb \in Int
    /\ m_nb_frames \in FrameCounts \cup {1}
    /\ m_trigger_mode \in TrigModes \cup {"IntTrig"}
    /\ acq_pc \in AcqPCs /\ completed_frames \in Nat /\ acq_reg \in Int
    /\ read_pc \in ReadPCs /\ continueFlag \in BOOLEAN /\ read_reg \in Int
    /\ frame \in [buf : Int, data : Int, whole : BOOLEAN]
    /\ ctl_pc \in CtlPCs /\ may_start \in BOOLEAN
    /\ starts \in 0 .. MaxStarts /\ stops \in 0 .. MaxStops
    /\ ctl_pc \in {"set_mode", "prepared"} => starts < MaxStarts
    /\ faults \in 0 .. MaxFaults
    /\ hw_running \in BOOLEAN /\ hw_closed \in Nat /\ hw_done \in Nat
    /\ hw_done <= hw_closed
    /\ delivered \in Seq(Deliveries)

TypeOK == CondTypeOK /\ CameraTypeOK

(* The frames of an acquisition reach Lima in order, each once, none       *)
(* skipped, and each in its own buffer with its own data: the three reads  *)
(* of m_read_frame_nb that name the buffer, the data and the announcement  *)
(* agree although startAcq resets that counter without the mutex.          *)
DeliveredInOrder ==
    \A i \in 1 .. Len(delivered) :
        /\ delivered[i].nb = i - 1
        /\ delivered[i].buf = i - 1
        /\ delivered[i].data = i - 1

(* While an acquisition is on, the read thread never gets past the frames  *)
(* counted by the acq thread, nor these past the frames asked for.         *)
Started == starts > 0 /\ ctl_pc \notin {"set_mode", "prepared", "start_read"}

ReadBehindAcquired ==
    Started => /\ 0 <= m_read_frame_nb
               /\ m_read_frame_nb <= m_acq_frame_nb
               /\ m_acq_frame_nb <= m_nb_frames

(* getNbHwAcquiredFrames, which returns m_read_frame_nb, is the number of  *)
(* frames Lima was given, but for the frame being announced right now.     *)
CountMatchesDelivered ==
    Started => m_read_frame_nb = IF read_pc \in {"incr", "store"}
                                 THEN Len(delivered) - 1
                                 ELSE Len(delivered)

(* A frame is read only when the detector has completed it.  Only the      *)
(* external trigger modes wait for that before they count a frame.         *)
WholeFrames ==
    \A i \in 1 .. Len(delivered) : delivered[i].whole

ExternalFramesWhole == Started /\ m_trigger_mode # "IntTrig" => WholeFrames

(* An IntTrig acquisition that was not stopped by the caller has stopped   *)
(* the detector by the time the acq thread goes Idle: it tells the last    *)
(* frame from the others before it counts it.                              *)
IdleMeansStopped ==
    acq_pc = "idle1" /\ m_trigger_mode = "IntTrig" /\ ~m_abort => ~hw_running

(* An acquisition that was not stopped goes Idle with all its frames       *)
(* counted only when all of them have been read: a caller that sees the    *)
(* status Idle and starts again does not rewind the counters under the     *)
(* read thread.                                                            *)
IdleMeansAllRead ==
    /\ starts > 0 /\ ctl_pc = "free"
    /\ m_status = "Idle" /\ ~m_abort
    /\ m_acq_frame_nb = m_nb_frames
    => m_read_frame_nb = m_nb_frames

(* The acq thread owns the mutex from the moment it counts a frame until   *)
(* it signals it, although the read thread waits without owning the mutex  *)
(* once it has read all frames, and so releases it whoever owns it.        *)
CountingHoldsMutex == acq_pc \in {"store", "check", "signal"} => owner = "acq"

(* Calls return: no critical section of the threads keeps the mutex from   *)
(* startAcq and stopAcq for ever.                                          *)
CallsReturn == ctl_pc \in {"start_lock", "stop", "reset_stop"} ~> ctl_pc = "free"

(* stopAcq is honoured: if it comes while the acq thread is still taking   *)
(* frames, the status gets to Idle.                                        *)
AbortHonoured == m_abort /\ acq_pc \in AcqLoopPCs ~> m_status = "Idle"

(* The places of the acq thread before the status is Idle, numbered so     *)
(* that every step it takes after a stop goes down: what is left to do.    *)
StopPlaces ==
    [quitcheck |-> 23, loop |-> 22, expose |-> 21, poll |-> 20, pollabort |-> 19,
     stop_ext |-> 18, flush_ext |-> 17, collect |-> 16, stop_abort |-> 15,
     flush_abort |-> 14, pause |-> 13, restart |-> 12, stop_last |-> 11,
     flush_last |-> 10, count |-> 9, store |-> 8, check |-> 7, signal |-> 6,
     inner |-> 5, after |-> 4, fin |-> 3, finwake |-> 2, idle1 |-> 1]

Place(pc) == IF pc \in DOMAIN StopPlaces THEN StopPlaces[pc] ELSE 0

LeftToStop == IF acq_pc = "quitcheck" /\ m_quit THEN 0 ELSE Place(acq_pc)

(* From a stop on the acq thread only goes towards Idle, whatever mode it  *)
(* is in, however many frames are still to come and whatever the detector  *)
(* does: it never comes to a place twice, so it counts at most once more,  *)
(* and once it rests it stays out of its loop until startAcq.              *)
StopIsBounded ==
    [][m_abort /\ m_abort' =>
          /\ LeftToStop' <= LeftToStop
          /\ acq_pc' # acq_pc /\ LeftToStop > 0 => LeftToStop' < LeftToStop]_vars

(* A stop that comes when the acq thread waits for the read thread already *)
(* is honoured too if that thread is in its loop: it reads all frames that *)
(* were counted, unless Lima refuses one, and wakes the acq thread.  (If   *)
(* it has left the loop too early, or was yet to start, nobody does.)      *)
LateStopHonoured ==
    /\ m_abort /\ acq_pc = "finwake"
    /\ read_pc \in {"loop", "read", "ready", "incr", "store"}
    ~> m_status = "Idle" \/ ~continueFlag

(* The destructor of a Camera joins both threads and returns.  This is so  *)
(* for a Camera that acquired nothing; after an acquisition a thread may   *)
(* keep the mutex when it ends.                                            *)
DeleteReturns == ctl_pc = "quit_acq" ~> ctl_pc = "closed"
-----------------------------------------------------------------------------
(* What comments, tests and the SDK documentation say, and the code does   *)
(* not do.                                                                 *)

(* A caller that polls isAcqRunning() after startAcq, as the tests do, and *)
(* finds it false, has all its frames.                                     *)
NotRunningMeansFinished ==
    ctl_pc = "free" /\ starts > 0 /\ may_start /\ ~m_abort
    => Len(delivered) = m_nb_frames

(* When all frames are read, the read thread wakes the acq thread, which   *)
(* goes Idle.                                                              *)
AllReadGoesIdle ==
    Started /\ m_read_frame_nb = m_nb_frames ~> m_status = "Idle"
=============================================================================
