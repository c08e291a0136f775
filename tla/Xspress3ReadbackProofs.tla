----------------------- MODULE Xspress3ReadbackProofs -----------------------
(***************************************************************************)
(* Proofs about the data path, for any number of pixels, scalers, channels *)
(* and buffers.  The invariant says how far readFrame has come (Layout,    *)
(* Written) and what a user in the middle of a call may rely on (UserInv). *)
(***************************************************************************)
EXTENDS Xspress3Readback, TLAPS

Width == NPixels + NScalers

(* Where bptr is, and that the loops have not run over their ends. *)
Layout ==
    /\ m_read_frame_nb <= MaxFrames
    /\ read_pc # "loop" => m_read_frame_nb < MaxFrames
    /\ read_pc = "histogram" => chan < NbChans /\ bptr = chan * Width
    /\ read_pc = "scalers" => chan < NbChans /\ bptr = chan * Width + NPixels
    /\ read_pc \in {"ready", "incr"} => chan = NbChans

(* What readFrame has copied so far is in its place. *)
Written ==
    read_pc # "loop" =>
        \A c \in Chans, i \in Items :
            c < chan \/ (read_pc = "scalers" /\ c = chan /\ i < NPixels)
            => buffers[BufferOf(m_read_frame_nb)][Place(c, i)]
               = Word(acq, m_read_frame_nb, c, i)

Good(k) ==
    data[k].kind \in {"raw", "corrected", "events"} =>
        /\ data[k].kind # "events" =>
               /\ FromAsked(data[k])
               /\ data[k].word.item = FirstItem(asked.op) + k
        /\ data[k].kind # "raw" => data[k].by = OwnScalers

Slots(op) == 0 .. (IF op = "readHistogram" THEN NPixels ELSE NScalers + 2) - 1

(* What a call has copied so far is good, and what it goes on to copy will *)
(* be, as long as it is undisturbed.                                       *)
UserInv ==
    user_pc # "idle" =>
        /\ asked.acq <= acq
        /\ asked.acq = acq => asked.frame < m_read_frame_nb
        /\ asked.frame < MaxFrames
        /\ item >= FirstItem(asked.op)
        /\ DOMAIN data = Slots(asked.op)
        /\ Undisturbed =>
               /\ user_pc = "correct" => factor = OwnScalers
               /\ \A k \in Slots(asked.op) : Good(k)

ReadbackInv ==
    ReadbackTypeOK /\ Layout /\ Written /\ KeptIsIntact /\ UserInv

-----------------------------------------------------------------------------
(* Arithmetic of the layout.                                               *)

LEMMA WidthType == Width \in Nat \ {0} /\ NPixels < Width
BY ReadbackAssumption DEF Width

(* The row of a channel ends where the next begins, and the last one where *)
(* the frame does.                                                         *)
LEMMA Rows ==
    ASSUME NEW c \in Nat, NEW d \in Nat, c < d
    PROVE  c * Width + Width <= d * Width
<1>1. \A w \in Nat, e \in Nat : w * e \in Nat
  OBVIOUS
<1>2. PICK e \in Nat : d = c + 1 + e
  <2>1. d = c + 1 + (d - c - 1) /\ d - c - 1 \in Nat
    OBVIOUS
  <2> QED
    BY <2>1
<1>3. \A w \in Nat : (c + 1 + e) * w = c * w + w + e * w
  OBVIOUS
<1> QED
  BY <1>1, <1>2, <1>3, WidthType

LEMMA RowType ==
    ASSUME NEW c \in Nat
    PROVE  c * Width \in Nat /\ (c + 1) * Width = c * Width + Width
<1>1. \A w \in Nat : c * w \in Nat /\ (c + 1) * w = c * w + w
  OBVIOUS
<1> QED
  BY <1>1, WidthType

LEMMA FrameType == FrameWords \in Nat
<1>1. \A w \in Nat, n \in Nat : w * n \in Nat
  OBVIOUS
<1> QED
  BY <1>1, ReadbackAssumption DEF FrameWords

LEMMA InFrame ==
    ASSUME NEW c \in Chans
    PROVE  c * Width \in Nat /\ c * Width + Width <= FrameWords
<1>1. \A w \in Nat, n \in Nat : w * n = n * w
  OBVIOUS
<1>2. FrameWords = NbChans * Width
  BY <1>1, WidthType, ReadbackAssumption DEF FrameWords, Width
<1>3. c \in Nat /\ NbChans \in Nat /\ c < NbChans
  BY ReadbackAssumption DEF Chans
<1>4. c * Width + Width <= NbChans * Width
  BY <1>3, Rows
<1>5. c * Width \in Nat
  BY <1>3, RowType
<1> QED
  BY <1>2, <1>4, <1>5

LEMMA PlaceType ==
    ASSUME NEW c \in Chans, NEW i \in Items
    PROVE  Place(c, i) = c * Width + i /\ Place(c, i) \in Positions
<1>1. c * Width \in Nat /\ c * Width + Width <= FrameWords
  BY InFrame
<1>2. i \in Nat /\ i < Width
  BY ReadbackAssumption DEF Items, Width
<1>3. Place(c, i) = c * Width + i
  BY DEF Place, Width
<1> QED
  BY <1>1, <1>2, <1>3, FrameType, WidthType DEF Positions

(* Different items have different places. *)
LEMMA PlacesDiffer ==
    ASSUME NEW c \in Chans, NEW d \in Chans, c < d, NEW i \in Items
    PROVE  Place(c, i) < d * Width
<1>1. c * Width + Width <= d * Width /\ c * Width \in Nat /\ d * Width \in Nat
  <2>1. c \in Nat /\ d \in Nat
    BY ReadbackAssumption DEF Chans
  <2>2. c * Width + Width <= d * Width
    BY <2>1, Rows
  <2>3. c * Width \in Nat /\ d * Width \in Nat
    BY <2>1, RowType
  <2> QED
    BY <2>2, <2>3
<1>2. i \in Nat /\ i < Width
  BY ReadbackAssumption DEF Items, Width
<1> QED
  BY <1>1, <1>2, PlaceType, WidthType

(* The frames of the ring that are not older than the ring is long have a  *)
(* buffer each.                                                            *)
LEMMA OwnBuffer ==
    ASSUME NEW f \in 0 .. MaxFrames, NEW g \in 0 .. MaxFrames, f < g,
           g < f + NbBuffers
    PROVE  BufferOf(f) # BufferOf(g)
BY ReadbackAssumption

LEMMA BufferType == ASSUME NEW f \in 0 .. MaxFrames PROVE BufferOf(f) \in Buffers
BY ReadbackAssumption DEF Buffers

-----------------------------------------------------------------------------
(* The read thread.                                                        *)

LEMMA WordType ==
    ASSUME NEW a \in Nat, NEW f \in Nat, NEW c \in Chans, NEW i \in Items
    PROVE  Word(a, f, c, i) \in Words
BY DEF Word, Words

LEMMA NothingType == Nothing \in Words
BY ReadbackAssumption DEF Nothing, Words, Chans, Items

(* What copying n words that are the items from i0 on does to the buffers. *)
LEMMA CopiedWords ==
    ASSUME ReadbackTypeOK, Layout, read_pc # "loop", chan \in Chans,
           NEW i0 \in Nat, NEW n \in Nat, i0 + n <= Width, Copied(i0, n)
    PROVE  /\ buffers' \in [Buffers -> [Positions -> Words]]
           /\ \A b \in Buffers : b # BufferOf(m_read_frame_nb) => buffers'[b] = buffers[b]
           /\ \A p \in Positions :
                 buffers'[BufferOf(m_read_frame_nb)][p] =
                     IF bptr <= p /\ p < bptr + n
                     THEN Word(acq, m_read_frame_nb, chan, p - bptr + i0)
                     ELSE buffers[BufferOf(m_read_frame_nb)][p]
<1> DEFINE B == BufferOf(m_read_frame_nb)
           row == [p \in Positions |->
                     IF bptr <= p /\ p < bptr + n
                     THEN Word(acq, m_read_frame_nb, chan, p - bptr + i0)
                     ELSE buffers[B][p]]
<1>1. B \in Buffers
  <2>1. m_read_frame_nb \in 0 .. MaxFrames
    BY ReadbackAssumption DEF ReadbackTypeOK, Layout
  <2> QED
    BY <2>1, BufferType
<1>2. buffers' = [buffers EXCEPT ![B] = row]
  BY DEF Copied
<1>3. row \in [Positions -> Words]
  <2> SUFFICES ASSUME NEW p \in Positions
               PROVE  (IF bptr <= p /\ p < bptr + n
                       THEN Word(acq, m_read_frame_nb, chan, p - bptr + i0)
                       ELSE buffers[B][p]) \in Words
    OBVIOUS
  <2>1. CASE bptr <= p /\ p < bptr + n
    <3>1. p \in Int /\ bptr \in Int
      BY DEF ReadbackTypeOK, Positions
    <3>2. p - bptr + i0 \in Items
      BY <2>1, <3>1, ReadbackAssumption DEF Items, Width
    <3> QED
      BY <2>1, <3>2, WordType DEF ReadbackTypeOK
  <2>2. CASE ~(bptr <= p /\ p < bptr + n)
    BY <1>1, <2>2 DEF ReadbackTypeOK
  <2> QED
    BY <2>1, <2>2
<1>4. buffers \in [Buffers -> [Positions -> Words]]
  BY DEF ReadbackTypeOK
<1>5. buffers'[B] = row
  BY <1>1, <1>2, <1>4
<1>6. \A p \in Positions :
         row[p] = IF bptr <= p /\ p < bptr + n
                  THEN Word(acq, m_read_frame_nb, chan, p - bptr + i0)
                  ELSE buffers[B][p]
  OBVIOUS
<1> HIDE DEF row
<1> QED
  BY <1>1, <1>2, <1>3, <1>4, <1>5, <1>6

(* Frames that are kept do not change while the next one is copied. *)
LEMMA KeptUnchanged ==
    ASSUME ReadbackInv, read_pc # "loop", NEW f \in 0 .. MaxFrames, Kept(f), acq' = acq,
           \A b \in Buffers : b # BufferOf(m_read_frame_nb) => buffers'[b] = buffers[b]
    PROVE  Intact(f)'
<1>1. m_read_frame_nb \in 0 .. MaxFrames /\ f < m_read_frame_nb
      /\ m_read_frame_nb < f + NbBuffers
  BY ReadbackAssumption DEF ReadbackInv, ReadbackTypeOK, Layout, Kept, Begun
<1>2. BufferOf(f) \in Buffers /\ BufferOf(f) # BufferOf(m_read_frame_nb)
  BY <1>1, BufferType, OwnBuffer
<1>3. buffers'[BufferOf(f)] = buffers[BufferOf(f)]
  BY <1>2
<1>4. Intact(f)
  BY DEF ReadbackInv, KeptIsIntact
<1> QED
  BY <1>3, <1>4 DEF Intact

(* One of the two copies of a channel: what was in place stays there, what *)
(* is copied gets there, and the frames that are kept stay as they are.    *)
LEMMA CopyStep ==
    ASSUME ReadbackInv, read_pc # "loop", chan \in Chans,
           NEW i0 \in Nat, NEW n \in Nat, i0 + n <= Width,
           bptr = chan * Width + i0, Copied(i0, n),
           bptr' = bptr + n, acq' = acq, m_read_frame_nb' = m_read_frame_nb,
           read_pc' # "loop",
           \A c \in Chans, i \in Items : c < chan \/ (c = chan /\ i < i0)
              => buffers[BufferOf(m_read_frame_nb)][Place(c, i)]
                 = Word(acq, m_read_frame_nb, c, i)
    PROVE  /\ buffers' \in [Buffers -> [Positions -> Words]]
           /\ bptr' \in 0 .. FrameWords
           /\ \A c \in Chans, i \in Items : c < chan \/ (c = chan /\ i < i0 + n)
              => buffers'[BufferOf(m_read_frame_nb)][Place(c, i)]
                 = Word(acq, m_read_frame_nb, c, i)
           /\ KeptIsIntact'
<1>1. /\ buffers' \in [Buffers -> [Positions -> Words]]
      /\ \A b \in Buffers : b # BufferOf(m_read_frame_nb) => buffers'[b] = buffers[b]
      /\ \A p \in Positions :
            buffers'[BufferOf(m_read_frame_nb)][p] =
                IF bptr <= p /\ p < bptr + n
                THEN Word(acq, m_read_frame_nb, chan, p - bptr + i0)
                ELSE buffers[BufferOf(m_read_frame_nb)][p]
  BY CopiedWords DEF ReadbackInv
<1>2. chan * Width \in Nat /\ chan * Width + Width <= FrameWords
  BY InFrame
<1>3. bptr' \in 0 .. FrameWords
  BY <1>2, FrameType, WidthType
<1>4. ASSUME NEW c \in Chans, NEW i \in Items, c < chan \/ (c = chan /\ i < i0 + n)
      PROVE  buffers'[BufferOf(m_read_frame_nb)][Place(c, i)]
             = Word(acq, m_read_frame_nb, c, i)
  <2>1. Place(c, i) = c * Width + i /\ Place(c, i) \in Positions
        /\ Place(c, i) \in Int
    BY PlaceType DEF Positions
  <2>2. i \in Nat /\ bptr \in Nat
    BY <1>2 DEF Items
  <2>3. CASE c < chan \/ (c = chan /\ i < i0)
    <3>1. Place(c, i) < bptr
      <4>1. CASE c < chan
        BY <1>2, <2>1, <4>1, PlacesDiffer
      <4>2. CASE c = chan /\ i < i0
        BY <1>2, <2>1, <2>2, <4>2
      <4> QED
        BY <2>3, <4>1, <4>2
    <3>2. buffers[BufferOf(m_read_frame_nb)][Place(c, i)]
          = Word(acq, m_read_frame_nb, c, i)
      BY <2>3
    <3>3. ~(bptr <= Place(c, i))
      BY <2>1, <2>2, <3>1
    <3> QED
      BY <1>1, <2>1, <3>2, <3>3
  <2>4. CASE c = chan /\ i0 <= i /\ i < i0 + n
    <3>1. Place(c, i) - bptr + i0 = i /\ bptr <= Place(c, i)
          /\ Place(c, i) < bptr + n
      BY <1>2, <2>1, <2>2, <2>4
    <3> QED
      BY <1>1, <2>1, <2>4, <3>1
  <2> QED
    BY <1>4, <2>2, <2>3, <2>4
<1>5. KeptIsIntact'
  <2> SUFFICES ASSUME NEW f \in 0 .. MaxFrames, Kept(f)' PROVE Intact(f)'
    BY DEF KeptIsIntact
  <2>1. Kept(f)
    BY DEF Kept, Begun
  <2> QED
    BY <1>1, <2>1, KeptUnchanged
<1> QED
  BY <1>1, <1>3, <1>4, <1>5

LEMMA PixelsStep ==
    ReadbackInv /\ ReadPixels
    => ReadbackTypeOK' /\ Layout' /\ Written' /\ KeptIsIntact'
<1> SUFFICES ASSUME ReadbackInv, ReadPixels
             PROVE  ReadbackTypeOK' /\ Layout' /\ Written' /\ KeptIsIntact'
  OBVIOUS
<1>1. /\ read_pc = "histogram" /\ read_pc' = "scalers"
      /\ chan \in Chans /\ bptr = chan * Width
  BY ReadbackAssumption DEF ReadPixels, ReadJump, ReadbackInv, ReadbackTypeOK, Layout, Chans
<1>2. /\ bptr' = bptr + NPixels /\ chan' = chan
      /\ UNCHANGED <<acq, m_use_dtc, m_read_frame_nb, announced, userVars>>
      /\ Copied(0, NPixels)
  BY DEF ReadPixels, ReadOnly
<1>3. 0 + NPixels <= Width /\ NPixels \in Nat /\ 0 + NPixels = NPixels
  BY ReadbackAssumption DEF Width
<1>4. \A c \in Chans, i \in Items : c < chan \/ (c = chan /\ i < 0)
         => buffers[BufferOf(m_read_frame_nb)][Place(c, i)]
            = Word(acq, m_read_frame_nb, c, i)
  BY <1>1 DEF ReadbackInv, Written, Items
<1>5. bptr = chan * Width + 0
  BY <1>1, InFrame
<1>6. /\ buffers' \in [Buffers -> [Positions -> Words]]
      /\ bptr' \in 0 .. FrameWords
      /\ \A c \in Chans, i \in Items : c < chan \/ (c = chan /\ i < NPixels)
         => buffers'[BufferOf(m_read_frame_nb)][Place(c, i)]
            = Word(acq, m_read_frame_nb, c, i)
      /\ KeptIsIntact'
  BY <1>1, <1>2, <1>3, <1>4, <1>5, CopyStep
<1>7. ReadbackTypeOK'
  BY <1>1, <1>2, <1>6 DEF ReadbackInv, ReadbackTypeOK, userVars
<1>8. Layout'
  BY <1>1, <1>2 DEF ReadbackInv, Layout, Chans
<1>9. Written'
  BY <1>1, <1>2, <1>6 DEF Written
<1> QED
  BY <1>6, <1>7, <1>8, <1>9

LEMMA ScalersStep ==
    ReadbackInv /\ ReadChannelScalers
    => ReadbackTypeOK' /\ Layout' /\ Written' /\ KeptIsIntact'
<1> SUFFICES ASSUME ReadbackInv, ReadChannelScalers
             PROVE  ReadbackTypeOK' /\ Layout' /\ Written' /\ KeptIsIntact'
  OBVIOUS
<1>1. /\ read_pc = "scalers" /\ chan \in Chans
      /\ bptr = chan * Width + NPixels
  BY ReadbackAssumption DEF ReadChannelScalers, ReadbackInv, ReadbackTypeOK, Layout, Chans
<1>2. /\ bptr' = bptr + NScalers /\ chan' = chan + 1
      /\ read_pc' = (IF chan + 1 < NbChans THEN "histogram" ELSE "ready")
      /\ UNCHANGED <<acq, m_use_dtc, m_read_frame_nb, announced, userVars>>
      /\ Copied(NPixels, NScalers)
  BY DEF ReadChannelScalers, ReadOnly
<1>3. /\ NPixels + NScalers <= Width /\ NPixels \in Nat /\ NScalers \in Nat
      /\ NPixels + NScalers = Width
  BY ReadbackAssumption DEF Width
<1>4. \A c \in Chans, i \in Items : c < chan \/ (c = chan /\ i < NPixels)
         => buffers[BufferOf(m_read_frame_nb)][Place(c, i)]
            = Word(acq, m_read_frame_nb, c, i)
  BY <1>1 DEF ReadbackInv, Written
<1>5. /\ buffers' \in [Buffers -> [Positions -> Words]]
      /\ bptr' \in 0 .. FrameWords
      /\ \A c \in Chans, i \in Items : c < chan \/ (c = chan /\ i < NPixels + NScalers)
         => buffers'[BufferOf(m_read_frame_nb)][Place(c, i)]
            = Word(acq, m_read_frame_nb, c, i)
      /\ KeptIsIntact'
  BY <1>1, <1>2, <1>3, <1>4, CopyStep
<1>6. chan + 1 \in 0 .. NbChans /\ chan \in Nat
  BY <1>1, ReadbackAssumption DEF Chans
<1>7. ReadbackTypeOK'
  BY <1>1, <1>2, <1>5, <1>6 DEF ReadbackInv, ReadbackTypeOK, userVars
<1>8. Layout'
  <2>1. bptr' = (chan + 1) * Width
    BY <1>1, <1>2, <1>3, <1>6, RowType
  <2> QED
    BY <1>1, <1>2, <1>6, <2>1, ReadbackAssumption DEF ReadbackInv, Layout
<1>9. Written'
  <2> SUFFICES ASSUME NEW c \in Chans, NEW i \in Items, c < chan + 1
               PROVE  buffers'[BufferOf(m_read_frame_nb)][Place(c, i)]
                      = Word(acq, m_read_frame_nb, c, i)
    BY <1>2 DEF Written
  <2>1. c < chan \/ c = chan
    BY <1>6 DEF Chans
  <2>2. i < NPixels + NScalers
    BY <1>3 DEF Items
  <2> QED
    BY <1>5, <2>1, <2>2
<1> QED
  BY <1>5, <1>7, <1>8, <1>9

(* The loop begins a frame: nothing of it is in place yet, and the buffer  *)
(* it gets is no longer the one of the frame it held.                      *)
LEMMA BeginStep ==
    ReadbackInv /\ ReadScalerData
    => ReadbackTypeOK' /\ Layout' /\ Written' /\ KeptIsIntact'
<1> SUFFICES ASSUME ReadbackInv, ReadScalerData
             PROVE  ReadbackTypeOK' /\ Layout' /\ Written' /\ KeptIsIntact'
  OBVIOUS
<1>1. /\ read_pc = "loop" /\ read_pc' = "histogram" /\ chan' = 0 /\ bptr' = 0
      /\ m_read_frame_nb < MaxFrames
      /\ UNCHANGED <<acq, m_use_dtc, m_read_frame_nb, announced, buffers, userVars>>
  BY DEF ReadScalerData, ReadJump, ReadOnly
<1>2. ReadbackTypeOK'
  BY <1>1, FrameType, ReadbackAssumption DEF ReadbackInv, ReadbackTypeOK, userVars
<1>3. Layout'
  <2>1. 0 = 0 * Width
    BY WidthType
  <2> QED
    BY <1>1, <2>1, ReadbackAssumption DEF ReadbackInv, Layout
<1>4. Written'
  BY <1>1 DEF Written, Chans
<1>5. KeptIsIntact'
  <2> SUFFICES ASSUME NEW f \in 0 .. MaxFrames, Kept(f)' PROVE Intact(f)'
    BY DEF KeptIsIntact
  <2>1. Kept(f)
    BY <1>1, ReadbackAssumption DEF Kept, Begun, ReadbackInv, ReadbackTypeOK
  <2>2. Intact(f)
    BY <2>1 DEF ReadbackInv, KeptIsIntact
  <2> QED
    BY <1>1, <2>2 DEF Intact
<1> QED
  BY <1>2, <1>3, <1>4, <1>5

(* The frame that was copied is announced, then becomes available.         *)
LEMMA ReadyStep ==
    ReadbackInv /\ ReadReady
    => ReadbackTypeOK' /\ Layout' /\ Written' /\ KeptIsIntact'
<1> SUFFICES ASSUME ReadbackInv, ReadReady
             PROVE  ReadbackTypeOK' /\ Layout' /\ Written' /\ KeptIsIntact'
  OBVIOUS
<1>1. UNCHANGED <<acq, m_use_dtc, buffers, chan, bptr, userVars>>
  BY DEF ReadReady, ReadOnly
<1>2. CASE read_pc = "ready" /\ read_pc' = "incr" /\ announced' = announced + 1
           /\ m_read_frame_nb' = m_read_frame_nb
  <2>1. ReadbackTypeOK'
    BY <1>1, <1>2 DEF ReadbackInv, ReadbackTypeOK, userVars
  <2>2. Layout' /\ Written'
    BY <1>1, <1>2 DEF ReadbackInv, Layout, Written
  <2>3. KeptIsIntact'
    BY <1>1, <1>2 DEF ReadbackInv, KeptIsIntact, Kept, Begun, Intact
  <2> QED
    BY <2>1, <2>2, <2>3
<1>3. CASE read_pc = "incr" /\ read_pc' = "loop" /\ announced' = announced
           /\ m_read_frame_nb' = m_read_frame_nb + 1
  <2>1. ReadbackTypeOK'
    BY <1>1, <1>3 DEF ReadbackInv, ReadbackTypeOK, userVars
  <2>2. Layout' /\ Written'
    BY <1>1, <1>3, ReadbackAssumption DEF ReadbackInv, ReadbackTypeOK, Layout, Written
  <2>3. KeptIsIntact'
    <3> SUFFICES ASSUME NEW f \in 0 .. MaxFrames, Kept(f)' PROVE Intact(f)'
      BY DEF KeptIsIntact
    <3>1. m_read_frame_nb \in Nat
      BY DEF ReadbackInv, ReadbackTypeOK
    <3>2. CASE f = m_read_frame_nb
      <4>1. chan = NbChans
        BY <1>3 DEF ReadbackInv, Layout
      <4>2. \A c \in Chans : c < chan
        BY <4>1, ReadbackAssumption DEF Chans
      <4>3. \A c \in Chans, i \in Items :
               buffers[BufferOf(m_read_frame_nb)][Place(c, i)]
               = Word(acq, m_read_frame_nb, c, i)
        BY <1>3, <4>2 DEF ReadbackInv, Written
      <4> QED
        BY <1>1, <3>2, <4>3 DEF Intact
    <3>3. CASE f # m_read_frame_nb
      <4>1. Kept(f)
        BY <1>3, <3>1, <3>3, ReadbackAssumption DEF Kept, Begun
      <4>2. Intact(f)
        BY <4>1 DEF ReadbackInv, KeptIsIntact
      <4> QED
        BY <1>1, <4>2 DEF Intact
    <3> QED
      BY <3>2, <3>3
  <2> QED
    BY <2>1, <2>2, <2>3
<1> QED
  BY <1>2, <1>3 DEF ReadReady, ReadJump

LEMMA StartStep ==
    ReadbackInv /\ StartAcq
    => ReadbackTypeOK' /\ Layout' /\ Written' /\ KeptIsIntact'
<1> SUFFICES ASSUME ReadbackInv, StartAcq
             PROVE  ReadbackTypeOK' /\ Layout' /\ Written' /\ KeptIsIntact'
  OBVIOUS
<1>1. /\ read_pc = "loop" /\ acq' = acq + 1 /\ m_read_frame_nb' = 0 /\ announced' = 0
      /\ UNCHANGED <<m_use_dtc, buffers, read_pc, chan, bptr, userVars>>
  BY DEF StartAcq
<1>2. ReadbackTypeOK'
  BY <1>1 DEF ReadbackInv, ReadbackTypeOK, userVars
<1>3. Layout' /\ Written'
  BY <1>1, ReadbackAssumption DEF Layout, Written
<1>4. KeptIsIntact'
  BY <1>1, ReadbackAssumption DEF KeptIsIntact, Kept
<1> QED
  BY <1>2, <1>3, <1>4

-----------------------------------------------------------------------------
(* The user.                                                               *)

(* A step of the others leaves a call disturbed if it was. *)
LEMMA OthersKeepUser ==
    ReadbackInv /\ (StartAcq \/ ReadStep) => UserInv'
<1> SUFFICES ASSUME ReadbackInv, StartAcq \/ ReadStep, user_pc # "idle"
             PROVE  UserInv'
  BY DEF StartAcq, ReadStep, ReadScalerData, ReadPixels, ReadChannelScalers,
     ReadReady, ReadOnly, userVars, UserInv
<1>1. UNCHANGED userVars
  BY DEF StartAcq, ReadStep, ReadScalerData, ReadPixels, ReadChannelScalers,
     ReadReady, ReadOnly
<1>2. acq \in Nat /\ m_read_frame_nb \in Nat /\ asked.acq \in Nat /\ asked.frame \in Nat
  BY DEF ReadbackInv, ReadbackTypeOK
<1>3. \/ acq' = acq + 1
      \/ acq' = acq /\ Begun' >= Begun /\ m_read_frame_nb' >= m_read_frame_nb
  BY <1>2 DEF StartAcq, ReadStep, ReadScalerData, ReadPixels, ReadChannelScalers,
     ReadReady, ReadJump, ReadOnly, Begun
<1>4. Begun \in Nat /\ Begun' \in Nat
  <2>1. ReadbackTypeOK'
    BY BeginStep, PixelsStep, ScalersStep, ReadyStep, StartStep DEF ReadStep
  <2>2. m_read_frame_nb' \in Nat
    BY <2>1 DEF ReadbackTypeOK
  <2>3. Begun' = m_read_frame_nb' \/ Begun' = m_read_frame_nb' + 1
    BY DEF Begun
  <2>4. Begun = m_read_frame_nb \/ Begun = m_read_frame_nb + 1
    BY DEF Begun
  <2> QED
    BY <1>2, <2>2, <2>3, <2>4
<1>5. UserInv
  BY DEF ReadbackInv
<1>6. Undisturbed' => Undisturbed
  BY <1>1, <1>2, <1>3, <1>4, <1>5, ReadbackAssumption DEF UserInv, Undisturbed, userVars
<1>7. OwnScalers' = OwnScalers
  BY <1>1 DEF OwnScalers, userVars
<1>8. \A k : Good(k)' <=> Good(k)
  BY <1>1, <1>7 DEF Good, FromAsked, userVars
<1>9. asked.acq <= acq' /\ (asked.acq = acq' => asked.frame < m_read_frame_nb')
  <2>1. m_read_frame_nb' \in Nat
    BY <1>3, <1>2, BeginStep, PixelsStep, ScalersStep, ReadyStep, StartStep
       DEF ReadStep, ReadbackTypeOK
  <2> QED
    BY <1>2, <1>3, <1>5, <2>1 DEF UserInv
<1> QED
  BY <1>1, <1>5, <1>6, <1>7, <1>8, <1>9 DEF UserInv, userVars

(* A value that is copied is good: the frame is still in its buffer. *)
LEMMA CopiedIsGood ==
    ASSUME ReadbackInv, CopyItem, Undisturbed,
           NEW k \in Int, k = item - FirstItem(asked.op)
    PROVE  Good(k)'
<1> DEFINE v == IF user_pc = "copy" THEN Value("raw", InBuffer(item), {})
                                    ELSE Corrected(item)
<1>1. /\ user_pc \in {"copy", "correct"} /\ item < EndItem(asked.op)
      /\ data' = [data EXCEPT ![k] = v] /\ asked' = asked
  BY DEF CopyItem
<1>2. /\ asked.op \in {"readHistogram", "readScalers"} /\ asked.chan \in Chans
      /\ asked.frame \in Nat /\ item \in Nat /\ m_read_frame_nb \in Nat
  BY DEF ReadbackInv, ReadbackTypeOK
<1>3. /\ asked.frame < m_read_frame_nb /\ asked.frame < MaxFrames
      /\ item >= FirstItem(asked.op) /\ DOMAIN data = Slots(asked.op)
      /\ user_pc = "correct" => factor = OwnScalers
  BY <1>1 DEF ReadbackInv, UserInv, Undisturbed
<1>4. item \in Items /\ k \in Slots(asked.op) /\ FirstItem(asked.op) + k = item
  BY <1>1, <1>2, <1>3, ReadbackAssumption DEF FirstItem, EndItem, Items, Slots
<1>5. InBuffer(item) = Word(asked.acq, asked.frame, asked.chan, item)
  <2>1. asked.frame \in 0 .. MaxFrames /\ Kept(asked.frame)
    BY <1>2, <1>3, ReadbackAssumption DEF Undisturbed, Kept
  <2>2. Intact(asked.frame)
    BY <2>1 DEF ReadbackInv, KeptIsIntact
  <2> QED
    BY <1>2, <1>4, <2>2 DEF Intact, InBuffer, Undisturbed
<1>6. /\ v.kind \in {"raw", "corrected", "events"}
      /\ v.kind # "events" => v.word = Word(asked.acq, asked.frame, asked.chan, item)
      /\ v.kind # "raw" => v.by = OwnScalers
  BY <1>1, <1>3, <1>5 DEF Corrected, Value
<1>7. data'[k] = v
  BY <1>1, <1>3, <1>4
<1> HIDE DEF v
<1>8. /\ v.kind # "events" =>
             /\ v.word.acq = asked.acq /\ v.word.frame = asked.frame
             /\ v.word.chan = asked.chan /\ v.word.item = FirstItem(asked.op) + k
  BY <1>4, <1>6 DEF Word
<1> QED
  BY <1>1, <1>6, <1>7, <1>8 DEF Good, FromAsked, OwnScalers

(* The steps of a user who does not copy an item. *)
LEMMA OtherUserSteps ==
    ReadbackInv /\ UserStep /\ ~CopyItem => UserInv'
<1> SUFFICES ASSUME ReadbackInv, UserStep, ~CopyItem, user_pc' # "idle"
             PROVE  UserInv'
  BY DEF UserInv
<1>1. /\ UserInv /\ UNCHANGED <<acq, readVars>>
      /\ acq \in Nat /\ asked.frame \in Nat /\ m_read_frame_nb \in Nat
      /\ asked.chan \in Chans
  BY DEF ReadbackInv, ReadbackTypeOK, UserStep, SetUseDtc, Ask, AskDtc, CopyItem,
     CopyEnd, Return, UserOnly
<1>2. CASE SetUseDtc
  BY <1>1, <1>2 DEF SetUseDtc, UserInv, Undisturbed, Begun, Good, FromAsked,
     OwnScalers, readVars, userVars
<1>3. CASE \E op \in {"readHistogram", "readScalers"}, f \in 0 .. MaxFrames, c \in Chans :
              Ask(op, f, c)
  <2> PICK op \in {"readHistogram", "readScalers"}, f \in 0 .. MaxFrames, c \in Chans :
              Ask(op, f, c)
    BY <1>3
  <2>1. /\ f < m_read_frame_nb /\ asked'.acq = acq /\ asked'.frame = f
        /\ asked'.op = op /\ item' = FirstItem(op) /\ data' = Fresh(op)
        /\ user_pc' = "dtc"
    BY DEF Ask, Available
  <2>2. \A k \in Slots(op) : Good(k)'
    BY <2>1 DEF Slots, Fresh, Undefined, Value, Good
  <2>3. f < MaxFrames
    BY <1>1, <2>1, ReadbackAssumption DEF ReadbackInv, Layout
  <2>4. item' >= FirstItem(op) /\ DOMAIN data' = Slots(op)
    BY <2>1, ReadbackAssumption DEF FirstItem, Fresh, Slots
  <2> QED
    BY <1>1, <2>1, <2>2, <2>3, <2>4 DEF UserInv, readVars
<1>4. CASE AskDtc
  <2>1. /\ user_pc = "dtc" /\ UNCHANGED <<asked, item, data>>
        /\ user_pc' = "correct" => factor' = {InBuffer(i) : i \in Scalers}
    BY <1>4 DEF AskDtc
  <2>2. ASSUME Undisturbed PROVE {InBuffer(i) : i \in Scalers} = OwnScalers
    <3>1. asked.frame \in 0 .. MaxFrames /\ Kept(asked.frame)
      BY <1>1, <2>1, <2>2, ReadbackAssumption DEF UserInv, Undisturbed, Kept
    <3>2. Intact(asked.frame)
      BY <3>1 DEF ReadbackInv, KeptIsIntact
    <3>3. Scalers \subseteq Items
      BY ReadbackAssumption DEF Scalers, Items
    <3>4. \A i \in Scalers :
             InBuffer(i) = Word(asked.acq, asked.frame, asked.chan, i)
      BY <1>1, <2>2, <3>2, <3>3 DEF Intact, InBuffer, Undisturbed
    <3> QED
      BY <3>4 DEF OwnScalers
  <2>3. OwnScalers' = OwnScalers /\ Undisturbed' = Undisturbed
    BY <1>1, <2>1 DEF OwnScalers, Undisturbed, Begun, readVars
  <2>4. \A k : Good(k)' <=> Good(k)
    BY <2>1, <2>3 DEF Good, FromAsked
  <2> QED
    BY <1>1, <2>1, <2>2, <2>3, <2>4 DEF UserInv, readVars
<1>5. CASE CopyEnd
  <2>1. /\ user_pc \in {"copy", "correct"} /\ UNCHANGED <<asked, item, factor>>
        /\ user_pc' = "returned"
        /\ data' = data \/ AppendDeadTime
    BY <1>5 DEF CopyEnd
  <2>2. OwnScalers' = OwnScalers /\ Undisturbed' = Undisturbed
    BY <1>1, <2>1 DEF OwnScalers, Undisturbed, Begun, readVars
  <2>3. DOMAIN data' = DOMAIN data
    BY <2>1 DEF AppendDeadTime
  <2>4. \A k \in DOMAIN data : data'[k] = data[k]
           \/ data'[k].kind = "deadtime" \/ data'[k].kind = "correction"
    BY <2>1 DEF AppendDeadTime, Value
  <2>5. \A k \in DOMAIN data : Good(k) => Good(k)'
    BY <2>1, <2>2, <2>4 DEF Good, FromAsked
  <2> QED
    BY <1>1, <2>1, <2>2, <2>3, <2>5 DEF UserInv, readVars
<1> QED
  BY <1>2, <1>3, <1>4, <1>5 DEF UserStep, Return

LEMMA CopyItemStep == ReadbackInv /\ CopyItem => UserInv'
<1> SUFFICES ASSUME ReadbackInv, CopyItem PROVE UserInv'
  OBVIOUS
<1>1. /\ UNCHANGED <<acq, readVars, user_pc, asked, factor>>
      /\ user_pc \in {"copy", "correct"} /\ item' = item + 1
      /\ \E v : data' = [data EXCEPT ![item - FirstItem(asked.op)] = v]
  BY DEF CopyItem, UserOnly
<1>2. UserInv /\ item \in Nat /\ FirstItem(asked.op) \in Nat
  BY ReadbackAssumption DEF ReadbackInv, ReadbackTypeOK, FirstItem
<1>3. OwnScalers' = OwnScalers /\ Undisturbed' = Undisturbed
  BY <1>1 DEF OwnScalers, Undisturbed, Begun, readVars
<1>4. DOMAIN data' = DOMAIN data
  BY <1>1
<1>5. ASSUME Undisturbed, NEW k \in Slots(asked.op) PROVE Good(k)'
  <2>1. CASE k = item - FirstItem(asked.op)
    <3>1. k \in Int
      BY <1>2, <2>1
    <3> QED
      BY <1>5, <2>1, <3>1, CopiedIsGood
  <2>2. CASE k # item - FirstItem(asked.op)
    <3>1. data'[k] = data[k]
      BY <1>1, <1>2, <1>5, <2>2 DEF UserInv
    <3>2. Good(k)
      BY <1>1, <1>2, <1>5 DEF UserInv
    <3> QED
      BY <1>1, <1>3, <3>1, <3>2 DEF Good, FromAsked
  <2> QED
    BY <2>1, <2>2
<1>6. item + 1 >= FirstItem(asked.op)
  BY <1>1, <1>2 DEF UserInv
<1> QED
  BY <1>1, <1>2, <1>3, <1>4, <1>5, <1>6 DEF UserInv, readVars

(* What the reading side is does not depend on the user. *)
LEMMA UserKeepsRest ==
    ReadbackInv /\ UserStep
    => ReadbackTypeOK' /\ Layout' /\ Written' /\ KeptIsIntact'
<1> SUFFICES ASSUME ReadbackInv, UserStep
             PROVE  ReadbackTypeOK' /\ Layout' /\ Written' /\ KeptIsIntact'
  OBVIOUS
<1>1. UNCHANGED <<acq, readVars>>
  BY DEF UserStep, SetUseDtc, Ask, AskDtc, CopyItem, CopyEnd, Return, UserOnly
<1>2. Layout' /\ Written' /\ KeptIsIntact'
  BY <1>1 DEF ReadbackInv, Layout, Written, KeptIsIntact, Kept, Begun, Intact, readVars
<1>3. m_use_dtc' \in BOOLEAN
  BY Zenon DEF UserStep, SetUseDtc, Ask, AskDtc, CopyItem, CopyEnd, Return,
     ReadbackInv, ReadbackTypeOK
<1>4. user_pc' \in {"idle", "dtc", "copy", "correct", "returned"}
  BY DEF UserStep, SetUseDtc, Ask, AskDtc, CopyItem, CopyEnd, Return, userVars,
     ReadbackInv, ReadbackTypeOK
<1>5. ASSUME user_pc = "dtc", AskDtc PROVE factor' \subseteq Words
  <2>1. asked.frame \in 0 .. MaxFrames /\ asked.chan \in Chans
    BY <1>5, ReadbackAssumption DEF ReadbackInv, ReadbackTypeOK, UserInv
  <2>2. \A i \in Scalers : Place(asked.chan, i) \in Positions
    BY <2>1, PlaceType, ReadbackAssumption DEF Scalers, Items
  <2>3. BufferOf(asked.frame) \in Buffers
    BY <2>1, BufferType
  <2>4. \A i \in Scalers : InBuffer(i) \in Words
    BY <2>2, <2>3 DEF InBuffer, ReadbackInv, ReadbackTypeOK
  <2> QED
    BY <1>5, <2>4 DEF AskDtc
<1>6. factor' \subseteq Words
  BY <1>5 DEF UserStep, SetUseDtc, Ask, AskDtc, CopyItem, CopyEnd, Return, userVars,
     ReadbackInv, ReadbackTypeOK
<1>7. item' \in Nat
  BY ReadbackAssumption DEF UserStep, SetUseDtc, Ask, AskDtc, CopyItem, CopyEnd,
     Return, userVars, ReadbackInv, ReadbackTypeOK, FirstItem
<1>8. asked' \in [op : {"readHistogram", "readScalers"}, frame : Nat, chan : Chans,
                  acq : Nat]
  BY ReadbackAssumption DEF UserStep, SetUseDtc, Ask, AskDtc, CopyItem, CopyEnd,
     Return, userVars, ReadbackInv, ReadbackTypeOK
<1> QED
  BY <1>1, <1>2, <1>3, <1>4, <1>6, <1>7, <1>8 DEF ReadbackInv, ReadbackTypeOK, readVars

-----------------------------------------------------------------------------
LEMMA ReadbackInit == Init => ReadbackInv
<1> SUFFICES ASSUME Init PROVE ReadbackInv
  OBVIOUS
<1>1. ReadbackTypeOK
  <2>1. buffers \in [Buffers -> [Positions -> Words]]
    BY NothingType DEF Init
  <2>2. asked \in [op : {"readHistogram", "readScalers"}, frame : Nat,
                   chan : Chans, acq : Nat]
    BY ReadbackAssumption DEF Init, Chans
  <2>3. m_use_dtc \in BOOLEAN /\ factor \subseteq Words
    BY Zenon DEF Init
  <2> QED
    BY <2>1, <2>2, <2>3, FrameType, ReadbackAssumption DEF Init, ReadbackTypeOK
<1>2. Layout /\ Written /\ KeptIsIntact /\ UserInv
  BY ReadbackAssumption DEF Init, Layout, Written, KeptIsIntact, Kept, UserInv
<1> QED
  BY <1>1, <1>2 DEF ReadbackInv

LEMMA ReadbackNext == ReadbackInv /\ [Next]_vars => ReadbackInv'
<1> SUFFICES ASSUME ReadbackInv, [Next]_vars PROVE ReadbackInv'
  OBVIOUS
<1>1. CASE UserStep
  BY <1>1, UserKeepsRest, OtherUserSteps, CopyItemStep DEF ReadbackInv
<1>2. CASE StartAcq \/ ReadStep
  BY <1>2, BeginStep, PixelsStep, ScalersStep, ReadyStep, StartStep, OthersKeepUser
     DEF ReadbackInv, ReadStep
<1>3. CASE UNCHANGED vars
  <2>1. ReadbackTypeOK' /\ Layout' /\ Written' /\ KeptIsIntact'
    BY <1>3 DEF ReadbackInv, ReadbackTypeOK, Layout, Written, KeptIsIntact, Kept,
       Begun, Intact, vars, readVars, userVars
  <2>2. UserInv'
    BY <1>3 DEF ReadbackInv, UserInv, Undisturbed, Begun, Good, FromAsked,
       OwnScalers, vars, readVars, userVars
  <2> QED
    BY <2>1, <2>2 DEF ReadbackInv
<1> QED
  BY <1>1, <1>2, <1>3 DEF Next

LEMMA ReadbackInvariant == Spec => []ReadbackInv
BY ReadbackInit, ReadbackNext, PTL DEF Spec

(* The variables keep their types, and readFrame's pointer stays in the    *)
(* frame, whatever the numbers of pixels, scalers and channels.            *)
THEOREM ReadbackTypeCorrect == Spec => []ReadbackTypeOK
<1>1. ReadbackInv => ReadbackTypeOK
  BY DEF ReadbackInv
<1> QED
  BY <1>1, ReadbackInvariant, PTL

(* An available frame is complete in its buffer, item by item where the    *)
(* readers look for it, until the read thread comes round the ring.        *)
THEOREM KeptFramesIntact == Spec => []KeptIsIntact
<1>1. ReadbackInv => KeptIsIntact
  BY DEF ReadbackInv
<1> QED
  BY <1>1, ReadbackInvariant, PTL

(* What readHistogram and readScalers return is of the frame and channel   *)
(* that was asked for, and is corrected with its own dead time, in any     *)
(* interleaving with the read thread, setUseDtc and the next acquisition   *)
(* that does not reuse the buffer.                                         *)
THEOREM ReadersReturnTheFrame == Spec => []ReturnsWhatWasAsked
<1>1. ReadbackInv => ReturnsWhatWasAsked
  BY DEF ReadbackInv, UserInv, ReturnsWhatWasAsked, Good
<1> QED
  BY <1>1, ReadbackInvariant, PTL

-----------------------------------------------------------------------------
(* The frames announced are those available, and the one between the two.  *)
Announcing ==
    /\ m_read_frame_nb \in Nat
    /\ announced = m_read_frame_nb + IF read_pc = "incr" THEN 1 ELSE 0

LEMMA AnnouncingNext == Announcing /\ [Next]_vars => Announcing'
<1> SUFFICES ASSUME Announcing, [Next]_vars PROVE Announcing'
  OBVIOUS
<1> USE DEF Announcing
<1>1. CASE StartAcq
  BY <1>1 DEF StartAcq
<1>2. CASE ReadScalerData \/ ReadPixels
  BY <1>2 DEF ReadScalerData, ReadPixels, ReadJump
<1>3. CASE ReadChannelScalers
  BY <1>3 DEF ReadChannelScalers
<1>4. CASE ReadReady
  BY <1>4 DEF ReadReady, ReadJump
<1>5. CASE UserStep \/ UNCHANGED vars
  BY <1>5 DEF UserStep, UserOnly, SetUseDtc, Ask, AskDtc, CopyItem, CopyEnd, Return,
     vars, readVars
<1> QED
  BY <1>1, <1>2, <1>3, <1>4, <1>5 DEF Next, ReadStep

(* A frame is counted available only when newFrameReady has announced it,  *)
(* through any number of acquisitions.                                     *)
THEOREM AvailableAfterAnnouncement == Spec => []AvailableIsAnnounced
<1>1. Init => Announcing
  BY DEF Init, Announcing
<1>2. Announcing => AvailableIsAnnounced
  BY DEF Announcing, AvailableIsAnnounced
<1> QED
  BY <1>1, <1>2, AnnouncingNext, PTL DEF Spec

-----------------------------------------------------------------------------
(* A call of readScalers that does not correct: what is copied so far lies *)
(* where the comment on it says, and the dead time comes behind it.        *)
AsCommented ==
    /\ \A k \in 0 .. NScalers - 1 : data[k].kind = "raw"
    /\ data[NScalers].kind = "deadtime"
    /\ data[NScalers + 1].kind = "correction"

UncorrectedInv ==
    asked.op = "readScalers" =>
        /\ user_pc = "correct" => factor # {}
        /\ user_pc = "dtc" => item = NPixels
        /\ user_pc = "copy" =>
               /\ item \in NPixels .. NPixels + NScalers
               /\ \A k \in 0 .. item - NPixels - 1 : data[k].kind = "raw"
        /\ user_pc = "returned" /\ factor = {} => AsCommented

LEMMA UncorrectedCopy == ReadbackInv /\ UncorrectedInv /\ CopyItem => UncorrectedInv'
<1> SUFFICES ASSUME ReadbackInv, UncorrectedInv, CopyItem, asked.op = "readScalers"
             PROVE  UncorrectedInv'
  BY DEF CopyItem, UncorrectedInv
<1>1. /\ user_pc \in {"copy", "correct"} /\ user_pc' = user_pc
      /\ asked' = asked /\ factor' = factor /\ item' = item + 1
      /\ item < NPixels + NScalers
  BY DEF CopyItem, EndItem
<1>2. CASE user_pc = "correct"
  BY <1>1, <1>2 DEF UncorrectedInv
<1>3. CASE user_pc = "copy"
  <2>1. item \in NPixels .. NPixels + NScalers
        /\ \A k \in 0 .. item - NPixels - 1 : data[k].kind = "raw"
    BY <1>3 DEF UncorrectedInv
  <2>2. DOMAIN data = 0 .. NScalers + 1
    BY <1>3, ReadbackAssumption DEF ReadbackInv, UserInv, Slots
  <2>3. data' = [data EXCEPT ![item - NPixels] = Value("raw", InBuffer(item), {})]
    BY <1>3 DEF CopyItem, FirstItem
  <2>4. item' \in NPixels .. NPixels + NScalers
    BY <1>1, <2>1, ReadbackAssumption
  <2>5. ASSUME NEW k \in 0 .. item' - NPixels - 1 PROVE data'[k].kind = "raw"
    <3>1. k \in DOMAIN data
      BY <1>1, <2>1, <2>2, <2>4, <2>5, ReadbackAssumption
    <3>2. CASE k = item - NPixels
      BY <2>3, <3>1, <3>2 DEF Value
    <3>3. CASE k # item - NPixels
      <4>1. k \in 0 .. item - NPixels - 1
        BY <1>1, <2>1, <2>5, <3>3, ReadbackAssumption
      <4> QED
        BY <2>1, <2>3, <3>1, <3>3, <4>1
    <3> QED
      BY <3>2, <3>3
  <2>6. user_pc' = "copy"
    BY <1>1, <1>3
  <2> QED
    BY <2>4, <2>5, <2>6 DEF UncorrectedInv
<1> QED
  BY <1>1, <1>2, <1>3

(* Whether the pointer has moved was decided when m_use_dtc was read.      *)
LEMMA UncorrectedEnd == ReadbackInv /\ UncorrectedInv /\ CopyEnd => UncorrectedInv'
<1> SUFFICES ASSUME ReadbackInv, UncorrectedInv, CopyEnd, asked.op = "readScalers",
                    factor = {}
             PROVE  AsCommented'
  BY DEF CopyEnd, UncorrectedInv
<1>1. user_pc = "copy" /\ item = NPixels + NScalers /\ AppendDeadTime
  BY DEF CopyEnd, EndItem, UncorrectedInv
<1>2. \A k \in 0 .. NScalers - 1 : data[k].kind = "raw"
  <2>1. item - NPixels - 1 = NScalers - 1
    BY <1>1, ReadbackAssumption
  <2> QED
    BY <1>1, <2>1 DEF UncorrectedInv
<1>3. DOMAIN data = 0 .. NScalers + 1 /\ NScalers \in Nat
  BY <1>1, ReadbackAssumption DEF ReadbackInv, UserInv, Slots
<1>4. data' = [data EXCEPT ![NScalers] = Value("deadtime", Nothing, {}),
                           ![NScalers + 1] = Value("correction", Nothing, {})]
  BY <1>1 DEF AppendDeadTime
<1>5. \A k \in 0 .. NScalers - 1 : data'[k] = data[k]
  BY <1>3, <1>4
<1>6. data'[NScalers].kind = "deadtime" /\ data'[NScalers + 1].kind = "correction"
  BY <1>3, <1>4 DEF Value
<1> QED
  BY <1>2, <1>5, <1>6 DEF AsCommented

LEMMA UncorrectedNext ==
    ReadbackInv /\ UncorrectedInv /\ [Next]_vars => UncorrectedInv'
<1> SUFFICES ASSUME ReadbackInv, UncorrectedInv, [Next]_vars PROVE UncorrectedInv'
  OBVIOUS
<1>1. CASE UNCHANGED userVars
  BY <1>1 DEF UncorrectedInv, AsCommented, userVars
<1>2. CASE \E op \in {"readHistogram", "readScalers"}, f \in 0 .. MaxFrames, c \in Chans :
              Ask(op, f, c)
  BY <1>2 DEF Ask, FirstItem, UncorrectedInv
<1>3. CASE AskDtc
  <2>1. /\ user_pc = "dtc" /\ UNCHANGED <<asked, item, data>>
        /\ \/ user_pc' = "copy" \/ user_pc' = "idle"
           \/ user_pc' = "correct" /\ factor' = {InBuffer(i) : i \in Scalers}
    BY <1>3 DEF AskDtc
  <2>2. NPixels \in Scalers
    BY ReadbackAssumption DEF Scalers
  <2>3. {InBuffer(i) : i \in Scalers} # {}
    BY <2>2
  <2>4. NPixels \in NPixels .. NPixels + NScalers
        /\ \A k \in 0 .. NPixels - NPixels - 1 : data[k].kind = "raw"
    BY ReadbackAssumption
  <2> QED
    BY <2>1, <2>3, <2>4 DEF UncorrectedInv
<1>4. CASE CopyItem
  BY <1>4, UncorrectedCopy
<1>5. CASE CopyEnd
  BY <1>5, UncorrectedEnd
<1>6. CASE Return
  BY <1>6 DEF Return, UncorrectedInv
<1> QED
  BY <1>1, <1>2, <1>3, <1>4, <1>5, <1>6 DEF Next, UserStep, SetUseDtc, StartAcq,
     ReadStep, ReadScalerData, ReadPixels, ReadChannelScalers, ReadReady, ReadOnly, vars

(* What readScalers hands out without correction is laid out as its        *)
(* comment says, for any number of scalers, however setUseDtc and the read *)
(* thread interleave with it.                                              *)
THEOREM ScalersLaidOut == Spec => []ScalersAsCommented
<1>1. Init => UncorrectedInv
  BY DEF Init, UncorrectedInv
<1>2. UncorrectedInv => ScalersAsCommented
  BY DEF UncorrectedInv, AsCommented, ScalersAsCommented
<1> QED
  BY <1>1, <1>2, UncorrectedNext, ReadbackInvariant, PTL DEF Spec
=============================================================================
