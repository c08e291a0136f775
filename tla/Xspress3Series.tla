--------------------------- MODULE Xspress3Series ---------------------------
(***************************************************************************)
(* Several acquisitions of one Camera: the inductive invariant behind      *)
(* their independence.  A caller that waits for Idle and for all frames    *)
(* finds both threads settled, in whatever order they got there and        *)
(* whoever owns the mutex; so the unlocked writes of startAcq meet no      *)
(* other.                                                                  *)
(***************************************************************************)
EXTENDS Xspress3Delivery

(* The caller starts at most once, or lets every acquisition finish and    *)
(* does not start again what it stopped.                                   *)
CallerFinishes ==
    \/ MaxStarts <= 1
    \/ Policy = "finish"
    \/ Policy = "control" /\ MaxStops = 0

Starting == ctl_pc \in {"set_mode", "prepared"} \cup StartPCs

(* The acq thread has set the status to Idle and only has its flags to     *)
(* set, or it waits, or is on its way to; nothing but startAcq or the      *)
(* destructor gets it out.                                                 *)
AcqSettled ==
    \/ acq_pc \in {"idle2", "idle3"}
    \/ acq_pc \in AcqIdlePCs \ {"dead"} /\ m_wait_flag
    \/ acq_pc \in {"quitcheck", "dead"} /\ m_quit

(* Nothing but the signal of a counted frame gets the read thread back     *)
(* into its loop.                                                          *)
ReadSettled ==
    \/ read_pc = "flag"
    \/ read_pc \in ReadIdlePCs /\ m_read_wait_flag
    \/ read_pc \in {"quitcheck", "dead"} /\ m_quit

Settled == AcqSettled /\ ReadSettled /\ (m_status = "Idle" \/ m_quit)

(* The caller is in a start, or may come to one without asking again.      *)
MayRestart ==
    \/ starts = 0 \/ Starting
    \/ may_start /\ starts < MaxStarts
    \/ stops = 0 /\ m_abort

SettledInv == MayRestart => Settled

CallsInv ==
    /\ ctl_pc \in StartPCs => starts > 0 /\ m_acq_frame_nb = 0
    /\ ctl_pc \in {"start_hw", "start_lock"} => delivered = <<>>
    /\ Starting => ~may_start
    /\ ctl_pc \in {"stop", "reset_stop", "reset"} => stops > 0

(* All frames were read and the read thread will not touch the counters;   *)
(* or the acquisition was given up; or it has yet to count a frame.        *)
Finished == AllRead /\ ReadSettled

(* What wakes the acq thread from its last wait, and what the status       *)
(* tells, in each of the acquisitions.                                     *)
FinishInv ==
    Released =>
        /\ acq_pc = "finwake" /\ "acq" \notin waiting => Finished \/ m_quit
        /\ acq_pc = "idle1" => Finished \/ GivenUp
        /\ acq_pc \in {"idle2", "idle3"} => Finished \/ GivenUp \/ m_acq_frame_nb = 0
        /\ Resting => (m_wait_flag /\ Finished) \/ GivenUp \/ m_acq_frame_nb = 0
        /\ acq_pc \in AcqLoopPCs \cup
                      {"quitcheck", "after", "fin", "finwake", "idle1", "dead"} =>
              m_status # "Idle" \/ GivenUp
        /\ m_status = "Idle" => Finished \/ GivenUp \/ m_acq_frame_nb = 0

SeriesInv ==
    /\ FlagsInv
    /\ CallsInv
    /\ SettledInv
    /\ FinishInv
    /\ AcqInv
    /\ ReadInv
    /\ CountMatchesDelivered
    /\ DeliveredInOrder
    /\ WholeInv
    /\ DetectorInv
=============================================================================
