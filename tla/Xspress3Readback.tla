-------------------------- MODULE Xspress3Readback --------------------------
(***************************************************************************)
(* The data path: the read thread copies each frame into a Lima buffer     *)
(* (readFrame), and a user takes the histogram or the scalers of a channel *)
(* out of the buffers again (readHistogram, readScalers), dead time        *)
(* corrected if m_use_dtc is set.                                          *)
(*                                                                         *)
(* The Lima buffers are a ring, and nothing keeps the read thread from     *)
(* going on while the user copies.  A word of data is named by what it is  *)
(* a measurement of: acquisition, frame, channel and item, the items of a  *)
(* channel being its pixels and then its scalers.  An acquisition starts   *)
(* when the read thread is done with the last one (see Xspress3Acq).       *)
(***************************************************************************)
EXTENDS Integers

CONSTANTS
    NPixels,            \* m_npixels
    NScalers,           \* m_nscalers
    NbChans,            \* m_nb_chans
    NbBuffers,          \* the Lima buffers: setNbBuffers
    BufferOf(_),        \* frame number to buffer: getFrameBufferPtr
    Correction,         \* the scaler XSP3_DTC_USE_GOOD_EVENT selects: 3 or 4
    MaxFrames,          \* bounds: frames of an acquisition, acquisitions
    MaxAcqs

ASSUME ReadbackAssumption ==
    /\ NPixels \in Nat \ {0} /\ NScalers \in Nat \ {0, 1} /\ NbChans \in Nat \ {0}
    /\ NbBuffers \in Nat \ {0} /\ MaxFrames \in Nat
    /\ \A n \in 0 .. MaxFrames : BufferOf(n) \in 0 .. NbBuffers - 1
    /\ \A n, m \in 0 .. MaxFrames :
          n < m /\ m < n + NbBuffers => BufferOf(n) # BufferOf(m)
    /\ Correction \in {3, 4}
    /\ MaxAcqs \in Nat \ {0}

VARIABLES
    acq,                \* the acquisition, counted
    m_read_frame_nb, m_use_dtc,
    buffers,            \* the words in the Lima buffers
    announced,          \* newFrameReady calls of the acquisition
    read_pc, chan, bptr,                \* ReadThread in readFrame
    user_pc, asked, item, factor, data  \* a user in readHistogram, readScalers

readVars == <<m_read_frame_nb, buffers, announced, read_pc, chan, bptr>>
userVars == <<user_pc, asked, item, factor, data>>

vars == <<acq, m_use_dtc, readVars, userVars>>

-----------------------------------------------------------------------------
Buffers == 0 .. NbBuffers - 1
Chans == 0 .. NbChans - 1
Items == 0 .. NPixels + NScalers - 1
Scalers == NPixels .. NPixels + NScalers - 1

(* getDetectorImageSize *)
FrameWords == (NPixels + NScalers) * NbChans
Positions == 0 .. FrameWords - 1

Word(a, f, c, i) == [acq |-> a, frame |-> f, chan |-> c, item |-> i]

Nothing == [acq |-> 0, frame |-> 0, chan |-> 0, item |-> 0]

Words == [acq : Nat, frame : Nat, chan : Chans, item : Items]

(* Mutant: a channel is as long as its histogram. *)
PixelsOnly(c, i) == c * NPixels + i

(* Where readHistogram and readScalers look for an item of a channel. *)
Place(c, i) == c * (NPixels + NScalers) + i

(* A value that is handed to the user, and the dead time correction factor *)
(* that went into it, as the words it was calculated from.                 *)
Value(kind, w, by) == [kind |-> kind, word |-> w, by |-> by]

Undefined == Value("undefined", Nothing, {})

-----------------------------------------------------------------------------
Init ==
    /\ acq = 1 /\ m_use_dtc = FALSE
    /\ m_read_frame_nb = 0 /\ announced = 0
    /\ buffers = [b \in Buffers |-> [p \in Positions |-> Nothing]]
    /\ read_pc = "loop" /\ chan = 0 /\ bptr = 0
    /\ user_pc = "idle"
    /\ asked = [op |-> "readHistogram", frame |-> 0, chan |-> 0, acq |-> 0]
    /\ item = 0 /\ factor = {} /\ data = <<>>

-----------------------------------------------------------------------------
(* The control thread and the read thread.                                 *)

StartAcq ==
    /\ acq < MaxAcqs /\ read_pc = "loop"
    /\ acq' = acq + 1
    /\ m_read_frame_nb' = 0 /\ announced' = 0
    /\ UNCHANGED <<m_use_dtc, buffers, read_pc, chan, bptr, userVars>>

ReadJump(from, to) == read_pc = from /\ read_pc' = to

ReadOnly == UNCHANGED <<acq, m_use_dtc, userVars>>

(* The loop finds one more frame; xsp3_scaler_read of all its channels. *)
ReadScalerData ==
    /\ m_read_frame_nb < MaxFrames
    /\ ReadJump("loop", "histogram")
    /\ chan' = 0 /\ bptr' = 0
    /\ ReadOnly /\ UNCHANGED <<m_read_frame_nb, buffers, announced>>

(* The words of the channel from item i on go where bptr points. *)
Copied(i, n) ==
    buffers' = [buffers EXCEPT ![BufferOf(m_read_frame_nb)] =
        [p \in Positions |->
            IF bptr <= p /\ p < bptr + n
            THEN Word(acq, m_read_frame_nb, chan, p - bptr + i) ELSE @[p]]]

ReadPixels ==
    /\ ReadJump("histogram", "scalers")
    /\ Copied(0, NPixels) /\ bptr' = bptr + NPixels
    /\ ReadOnly /\ UNCHANGED <<m_read_frame_nb, announced, chan>>

(* Mutant: the loop over the scalers runs once too often. *)
OneScalerMore ==
    /\ read_pc = "scalers"
    /\ Copied(NPixels, NScalers) /\ bptr' = bptr + NScalers + 1
    /\ chan' = chan + 1
    /\ read_pc' = IF chan' < NbChans THEN "histogram" ELSE "ready"
    /\ ReadOnly /\ UNCHANGED <<m_read_frame_nb, announced>>

ReadChannelScalers ==
    /\ read_pc = "scalers"
    /\ Copied(NPixels, NScalers) /\ bptr' = bptr + NScalers
    /\ chan' = chan + 1
    /\ read_pc' = IF chan' < NbChans THEN "histogram" ELSE "ready"
    /\ ReadOnly /\ UNCHANGED <<m_read_frame_nb, announced>>

(* Mutant: the frame is available before it is announced. *)
AvailableFirst ==
    \/ /\ ReadJump("ready", "incr") /\ m_read_frame_nb' = m_read_frame_nb + 1
       /\ ReadOnly /\ UNCHANGED <<announced, buffers, chan, bptr>>
    \/ /\ ReadJump("incr", "loop") /\ announced' = announced + 1
       /\ ReadOnly /\ UNCHANGED <<m_read_frame_nb, buffers, chan, bptr>>

(* newFrameReady, then ++m_read_frame_nb *)
ReadReady ==
    \/ /\ ReadJump("ready", "incr") /\ announced' = announced + 1
       /\ ReadOnly /\ UNCHANGED <<m_read_frame_nb, buffers, chan, bptr>>
    \/ /\ ReadJump("incr", "loop") /\ m_read_frame_nb' = m_read_frame_nb + 1
       /\ ReadOnly /\ UNCHANGED <<announced, buffers, chan, bptr>>

ReadStep == ReadScalerData \/ ReadPixels \/ ReadChannelScalers \/ ReadReady

-----------------------------------------------------------------------------
(* The user.                                                               *)

UserOnly == UNCHANGED <<acq, readVars>>

SetUseDtc ==
    /\ m_use_dtc' = ~m_use_dtc
    /\ UNCHANGED <<acq, readVars, userVars>>

(* Mutant: also the frame the read thread is at. *)
NotFuture(f) == f <= m_read_frame_nb

Available(f) == f < m_read_frame_nb

FirstItem(op) == IF op = "readHistogram" THEN 0 ELSE NPixels
EndItem(op) == IF op = "readHistogram" THEN NPixels ELSE NPixels + NScalers

(* What new double[] or new u_int32_t[] returns. *)
Fresh(op) ==
    [k \in 0 .. (IF op = "readHistogram" THEN NPixels ELSE NScalers + 2) - 1
        |-> Undefined]

(* A frame that is not available yet is refused, and nothing is read. *)
Ask(op, f, c) ==
    /\ user_pc = "idle" /\ Available(f)
    /\ user_pc' = "dtc"
    /\ asked' = [op |-> op, frame |-> f, chan |-> c, acq |-> acq]
    /\ item' = FirstItem(op) /\ factor' = {} /\ data' = Fresh(op)
    /\ UserOnly /\ UNCHANGED m_use_dtc

InBuffer(i) == buffers[BufferOf(asked.frame)][Place(asked.chan, i)]

(* xsp3_calculateDeadtimeCorrectionFactors reads the scalers of the        *)
(* channel, and may fail.                                                  *)
AskDtc ==
    /\ user_pc = "dtc"
    /\ \/ ~m_use_dtc /\ user_pc' = "copy" /\ factor' = {}
       \/ /\ m_use_dtc /\ user_pc' = "correct"
          /\ factor' = {InBuffer(i) : i \in Scalers}
       \/ m_use_dtc /\ user_pc' = "idle" /\ factor' = {}
    /\ UserOnly /\ UNCHANGED <<m_use_dtc, asked, item, data>>

InWindows == {NPixels + 5, NPixels + 6}

(* All pixels are corrected, and of the scalers those of the two windows;  *)
(* the number of events is the one that was calculated.                    *)
Corrected(i) ==
    IF i < NPixels \/ i \in InWindows THEN Value("corrected", InBuffer(i), factor)
    ELSE IF i = NPixels + Correction THEN Value("events", Nothing, factor)
    ELSE Value("raw", InBuffer(i), {})

CopyItem ==
    /\ user_pc \in {"copy", "correct"} /\ item < EndItem(asked.op)
    /\ data' = [data EXCEPT ![item - FirstItem(asked.op)] =
                   IF user_pc = "copy" THEN Value("raw", InBuffer(item), {})
                                       ELSE Corrected(item)]
    /\ item' = item + 1
    /\ UserOnly /\ UNCHANGED <<m_use_dtc, user_pc, asked, factor>>

(* Mutant: m_use_dtc is asked again after the scalers were copied. *)
AppendByFlag ==
    LET at == IF m_use_dtc THEN 0 ELSE NScalers
    IN data' = [data EXCEPT ![at] = Value("deadtime", Nothing, {}),
                            ![at + 1] = Value("correction", Nothing, {})]

(* The dead time and the correction factor of the channel.  The pointer    *)
(* they are stored by has moved only if this function copied the scalers:  *)
(* otherwise they replace the first two, and the last two stay undefined.  *)
AppendDeadTime ==
    LET at == IF user_pc = "copy" THEN NScalers ELSE 0
    IN data' = [data EXCEPT ![at] = Value("deadtime", Nothing, {}),
                            ![at + 1] = Value("correction", Nothing, {})]

CopyEnd ==
    /\ user_pc \in {"copy", "correct"} /\ item = EndItem(asked.op)
    /\ user_pc' = "returned"
    /\ IF asked.op = "readScalers" THEN AppendDeadTime ELSE UNCHANGED data
    /\ UserOnly /\ UNCHANGED <<m_use_dtc, asked, item, factor>>

Return ==
    /\ user_pc = "returned" /\ user_pc' = "idle"
    /\ UserOnly /\ UNCHANGED <<m_use_dtc, asked, item, factor, data>>

UserStep ==
    \/ SetUseDtc
    \/ \E op \in {"readHistogram", "readScalers"}, f \in 0 .. MaxFrames, c \in Chans :
          Ask(op, f, c)
    \/ AskDtc \/ CopyItem \/ CopyEnd \/ Return

Next == StartAcq \/ ReadStep \/ UserStep

Spec == Init /\ [][Next]_vars

-----------------------------------------------------------------------------
(* Every variable has its type, and bptr never leaves the frame the buffer *)
(* was sized for (getDetectorImageSize).                                   *)
ReadbackTypeOK ==
    /\ acq \in Nat /\ m_use_dtc \in BOOLEAN
    /\ m_read_frame_nb \in Nat /\ announced \in Nat
    /\ buffers \in [Buffers -> [Positions -> Words]]
    /\ read_pc \in {"loop", "histogram", "scalers", "ready", "incr"}
    /\ chan \in 0 .. NbChans /\ bptr \in 0 .. FrameWords
    /\ user_pc \in {"idle", "dtc", "copy", "correct", "returned"}
    /\ asked \in [op : {"readHistogram", "readScalers"}, frame : Nat,
                  chan : Chans, acq : Nat]
    /\ item \in Nat
    /\ factor \subseteq Words

(* The first frame that is not, or not yet, in a buffer of its own. *)
Begun == IF read_pc = "loop" THEN m_read_frame_nb ELSE m_read_frame_nb + 1

(* A frame of this acquisition whose buffer no later frame has begun to    *)
(* use.                                                                    *)
Kept(f) == f < m_read_frame_nb /\ Begun <= f + NbBuffers

Intact(f) ==
    \A c \in Chans, i \in Items :
        buffers[BufferOf(f)][Place(c, i)] = Word(acq, f, c, i)

(* A frame that is available is in its buffer complete, each item of each  *)
(* channel where readHistogram and readScalers look for it, until the read *)
(* thread comes round the ring: the pointer readFrame moves on and the     *)
(* offsets the readers multiply out agree.                                 *)
KeptIsIntact == \A f \in 0 .. MaxFrames : Kept(f) => Intact(f)

(* A frame is counted available only after newFrameReady, which is what    *)
(* gives getFrameInfo something to return.                                 *)
AvailableIsAnnounced == m_read_frame_nb <= announced

(* The acquisition has not been started again since the call, and the read *)
(* thread has not begun to use the buffer again.                           *)
Undisturbed == acq = asked.acq /\ Begun <= asked.frame + NbBuffers

FromAsked(v) ==
    v.word.acq = asked.acq /\ v.word.frame = asked.frame /\ v.word.chan = asked.chan

OwnScalers == {Word(asked.acq, asked.frame, asked.chan, i) : i \in Scalers}

(* What readHistogram or readScalers returns is of the frame and channel   *)
(* it was asked for, item by item, and is corrected with the dead time of  *)
(* that very frame and channel, however the read thread and setUseDtc      *)
(* interleave with it, as long as the buffer is not reused meanwhile.      *)
ReturnsWhatWasAsked ==
    user_pc = "returned" /\ Undisturbed =>
        \A k \in DOMAIN data :
            data[k].kind \in {"raw", "corrected", "events"} =>
                /\ data[k].kind # "events" =>
                       /\ FromAsked(data[k])
                       /\ data[k].word.item = FirstItem(asked.op) + k
                /\ data[k].kind # "raw" => data[k].by = OwnScalers

(* Without correction readScalers hands out what its comment lists: the    *)
(* scalers, then "scalar 9 - Deadtime %" and "scalar 10 - Deadtime         *)
(* correction factor", nothing left out, also when setUseDtc comes in      *)
(* between.  With correction it does not: see AppendDeadTime.              *)
ScalersAsCommented ==
    user_pc = "returned" /\ asked.op = "readScalers" /\ factor = {} =>
        /\ \A k \in 0 .. NScalers - 1 : data[k].kind = "raw"
        /\ data[NScalers].kind = "deadtime"
        /\ data[NScalers + 1].kind = "correction"
=============================================================================
