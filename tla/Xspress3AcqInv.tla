--------------------------- MODULE Xspress3AcqInv ---------------------------
(***************************************************************************)
(* The inductive invariant behind the delivery of the frames of one        *)
(* acquisition.  It relates where the two threads are to the counters they *)
(* share, and says that nothing moves before startAcq releases them.       *)
(***************************************************************************)
EXTENDS Xspress3Acq

StartPCs == {"start_read", "start_hw", "start_lock"}

IntPCs == {"expose", "pause", "restart", "stop_last", "flush_last",
           "stop_abort", "flush_abort", "count", "store"}

ExtPCs == {"poll", "pollabort", "stop_ext", "flush_ext", "collect"}

(* Where the caller is in its one acquisition, and what it has reset. *)
CallerInv ==
    /\ starts \in {0, 1}
    /\ ctl_pc \in {"set_mode", "prepared"} => starts = 0
    /\ ctl_pc \in StartPCs => starts = 1 /\ m_acq_frame_nb = 0
    /\ starts = 0 \/ ctl_pc \in StartPCs => delivered = <<>>

(* Until startAcq releases them both threads stay out of their loops. *)
Dormant ==
    /\ m_wait_flag /\ m_read_wait_flag
    /\ acq_pc \in AcqIdlePCs \cup {"quitcheck"}
    /\ read_pc \in ReadIdlePCs \cup {"quitcheck"}
    /\ "quitcheck" \in {acq_pc, read_pc} => m_quit

DormantInv == starts = 0 \/ ctl_pc \in StartPCs => Dormant

(* The acq thread counts up to the frames asked for, and in the external   *)
(* modes never more than the detector completed.                           *)
AcqInv ==
    /\ acq_pc \in IntPCs => m_trigger_mode = "IntTrig"
    /\ acq_pc \in ExtPCs => m_trigger_mode # "IntTrig"
    /\ Started =>
          /\ m_acq_frame_nb \in 0 .. m_nb_frames
          /\ acq_pc \in IntPCs => m_acq_frame_nb < m_nb_frames
          /\ acq_pc = "store" => acq_reg = m_acq_frame_nb
          /\ m_trigger_mode # "IntTrig" => m_acq_frame_nb <= hw_done
          /\ acq_pc \in ExtPCs \ {"poll"} =>
                /\ m_acq_frame_nb <= completed_frames
                /\ completed_frames <= hw_done

(* The read thread is at most at the frame counted last; its locals are    *)
(* those of the frame it is at.                                            *)
ReadInv ==
    Started =>
        /\ 0 <= m_read_frame_nb /\ m_read_frame_nb <= m_acq_frame_nb
        /\ read_pc \in {"read", "ready", "incr", "store"} =>
              m_read_frame_nb < m_acq_frame_nb
        /\ read_pc \in {"read", "ready"} => frame.buf = m_read_frame_nb
        /\ read_pc = "ready" => frame.data = m_read_frame_nb
        /\ read_pc = "store" => read_reg = m_read_frame_nb

SingleRunInv ==
    /\ CallerInv
    /\ DormantInv
    /\ AcqInv
    /\ ReadInv
    /\ CountMatchesDelivered
    /\ DeliveredInOrder

(* In the external modes a frame that is read is one the detector has      *)
(* completed.                                                              *)
WholeInv ==
    Started /\ m_trigger_mode # "IntTrig" =>
        /\ read_pc = "ready" => frame.whole
        /\ WholeFrames

DeliveryInv == SingleRunInv /\ WholeInv
=============================================================================
