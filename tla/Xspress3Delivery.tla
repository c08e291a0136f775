-------------------------- MODULE Xspress3Delivery --------------------------
(***************************************************************************)
(* The acquisition engine, seen through Interface, keeps the promise of    *)
(* FrameDelivery; and the invariants that tell, beside those of            *)
(* Xspress3AcqInv, who holds the mutex and when the detector is stopped.   *)
(***************************************************************************)
EXTENDS Xspress3AcqInv

(* Mutant: a paused detector counts as ready. *)
ReadyUnlessRunning == m_status # "Running"

(* Interface::getStatus *)
AcqReady == m_status = "Idle"

(* The caller stopped the acquisition, or deletes the Camera. *)
GivenUp == m_abort \/ m_quit

Promise == INSTANCE FrameDelivery WITH
    asked <- m_nb_frames,
    gated <- m_trigger_mode # "IntTrig",
    ready <- AcqReady,
    given <- delivered,
    count <- m_read_frame_nb,
    stopped <- GivenUp

(* Lima is ready, gets its frames and their count as FrameDelivery says,   *)
(* although status, counters and frames are written by three threads.      *)
PromiseKept == Promise!Spec

-----------------------------------------------------------------------------
(* startAcq has let the threads go. *)
Released == starts > 0 /\ ctl_pc \notin {"set_mode", "prepared"} \cup StartPCs

AllCounted == m_acq_frame_nb = m_nb_frames
AllRead == m_read_frame_nb = m_nb_frames

(* What the caller's place says of its flags. *)
FlagsInv ==
    /\ m_quit => ctl_pc \in {"join_acq", "quit_read", "join_read", "closed"}
    /\ ctl_pc = "reset" => m_abort

(* Where the acq thread waits for work, or is on its way to it. *)
Resting == acq_pc \in {"begin", "top", "towait", "wait", "wake", "quitcheck"}

(* The acq thread has left its loop for good. *)
AcqPast ==
    /\ Released
    /\ \/ acq_pc \in {"after", "fin", "finwake", "idle1", "idle2", "idle3", "dead"}
       \/ acq_pc \in {"inner", "loop"} /\ AllRead
       \/ Resting /\ (m_wait_flag \/ m_quit)

ReadOwnPCs == {"top", "towait", "wait", "quitcheck", "drained", "flag"}

(* A thread whose code takes it for granted that it owns the mutex does,   *)
(* but for two: the acq thread once it counts no more, and the read thread *)
(* from then on.  So neither releases it while the other is inside.        *)
LockInv ==
    /\ acq_pc \in {"store", "check", "signal"} => owner = "acq"
    /\ acq_pc \in {"top", "towait", "wait", "quitcheck"} =>
          owner = "acq" \/ AcqPast
    /\ acq_pc = "quitcheck" => m_quit \/ (owner = "acq" /\ ~m_wait_flag)
    /\ read_pc \in ReadOwnPCs => owner = "read" \/ AcqPast
    /\ read_pc \in {"loop", "read", "ready", "incr", "store", "lock"} =>
          "read" \notin auto
    /\ Released => /\ acq_pc \in ExtPCs => m_acq_frame_nb < m_nb_frames
                   /\ Resting => m_wait_flag \/ m_quit \/ m_acq_frame_nb = 0

(* In IntTrig the detector is stopped before the last frame is counted. *)
DetectorInv ==
    Released /\ m_trigger_mode = "IntTrig" =>
        /\ AllCounted => ~hw_running
        /\ acq_pc \in {"flush_last", "count", "store"} /\ ~MoreAfterThis => ~hw_running
        /\ acq_pc \in {"pause", "restart"} => MoreAfterThis
        /\ acq_pc \in {"stop_abort", "flush_abort"} => m_abort
        /\ acq_pc \in {"after", "fin", "finwake", "idle1"} => AllCounted \/ m_abort
=============================================================================
