--------------------------- MODULE FrameDelivery ---------------------------
(***************************************************************************)
(* What the plug-in promises Lima's control layer, which sees it through   *)
(* the Interface: a status, ready or not; the frames it is given, one      *)
(* after the other; and the number of frames acquired so far.  How two     *)
(* threads and a detector keep the promise is in Xspress3Acq.              *)
(***************************************************************************)
EXTENDS Integers, Sequences

VARIABLES
    asked,      \* the frames asked for
    gated,      \* whether frames end on external gates
    ready,      \* getStatus: AcqReady, or AcqRunning
    given,      \* the frames given to Lima since the acquisition began
    count,      \* getNbHwAcquiredFrames
    stopped     \* the acquisition was stopped, or the plug-in is going away

vars == <<asked, gated, ready, given, count, stopped>>

Frame(nb, whole) == [nb |-> nb, buf |-> nb, data |-> nb, whole |-> whole]

Init ==
    /\ asked \in Nat \ {0} /\ gated \in BOOLEAN
    /\ ready = TRUE
    /\ given = <<>> /\ count \in Int
    /\ stopped \in BOOLEAN

(* What is asked for changes only between acquisitions. *)
Ask ==
    /\ ready
    /\ asked' \in Nat \ {0} /\ gated' \in BOOLEAN
    /\ UNCHANGED <<ready, given, count, stopped>>

(* startAcq forgets the frames of the last acquisition, then lets this one *)
(* go.                                                                     *)
Begin ==
    /\ ready
    /\ given' = <<>> /\ count' = 0
    /\ UNCHANGED <<asked, gated, ready, stopped>>

LetGo ==
    /\ ready /\ given = <<>> /\ count = 0
    /\ stopped' = FALSE
    /\ UNCHANGED <<asked, gated, ready, given, count>>

(* It gets busy only for frames that are still to be given. *)
GetBusy ==
    /\ ready /\ (Len(given) < asked \/ stopped)
    /\ ready' = FALSE
    /\ UNCHANGED <<asked, gated, given, count, stopped>>

(* The next frame, in its own buffer with its own data; if frames end on   *)
(* gates, complete.  After a stop the frame in hand may still come.        *)
Give ==
    /\ ~ready \/ stopped
    /\ count = Len(given) /\ Len(given) < asked
    /\ \E whole \in BOOLEAN : /\ gated => whole
                              /\ given' = Append(given, Frame(count, whole))
    /\ UNCHANGED <<asked, gated, ready, count, stopped>>

Report ==
    /\ count = Len(given) - 1
    /\ count' = Len(given)
    /\ UNCHANGED <<asked, gated, ready, given, stopped>>

Stop ==
    /\ stopped' = TRUE
    /\ UNCHANGED <<asked, gated, ready, given, count>>

(* It is ready again when all frames were given and counted. *)
GetReady ==
    /\ ~ready
    /\ stopped \/ (count = asked /\ Len(given) = asked)
    /\ ready' = TRUE
    /\ UNCHANGED <<asked, gated, given, count, stopped>>

Next ==
    \/ Ask \/ Begin \/ LetGo \/ GetBusy \/ Give \/ Report \/ Stop \/ GetReady

Spec == Init /\ [][Next]_vars
=============================================================================
