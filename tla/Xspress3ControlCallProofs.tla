--------------------- MODULE Xspress3ControlCallProofs ---------------------
(***************************************************************************)
(* What whole calls of the Camera achieve, for any number of cards,        *)
(* channels and calls: init, stop, loadPlayback and the readers of what    *)
(* was set.  The invariant says, for each of these calls, which SDK calls  *)
(* it has still to make, and what those it has made have done.  At the end *)
(* formatRun, and its word as the header reads it back.                    *)
(***************************************************************************)
EXTENDS Xspress3ControlProofs

Walking == call.name \in {"Camera", "reset"}

StopOp(j) == IF j = 1 THEN System("histogram_stop") ELSE System("is_any_busy")

PlayOp(j) ==
    IF j = 1 THEN System("playback_load")
    ELSE IF j = 2 THEN Op("set_run_flags", Keep, AllChans, DefaultMode \cup Playback)
    ELSE IF j = 3 THEN OnChan("get_chan_cont", 0)
    ELSE Op("set_chan_cont", Keep, 0, SourceBits("PlaybackStream0"))

(* The SDK calls a call other than init and stop makes select no card and  *)
(* do not poll.                                                            *)
Modest(s) == \A i \in 1 .. Len(s) : s[i].card = Keep /\ s[i].f # "is_any_busy"

(* What is left of a call is the end of what it was.                       *)
InitShape ==
    Walking => /\ Len(todo) <= InitLen
               /\ \A i \in 1 .. Len(todo) : todo[i] = InitOp(InitLen - Len(todo) + i)
StopShape ==
    call.name = "stop" =>
        /\ Len(todo) <= 3
        /\ \A i \in 1 .. Len(todo) : todo[i] = StopOp(3 - Len(todo) + i)
PlayShape ==
    call.name = "loadPlayback" =>
        /\ Len(todo) <= 4
        /\ \A i \in 1 .. Len(todo) : todo[i] = PlayOp(4 - Len(todo) + i)
AskShape ==
    /\ call.name = "getDataSource" =>
          /\ Len(todo) <= 1 /\ call.chan \in Chans \cup {AllChans}
          /\ \A i \in 1 .. Len(todo) : todo[i] = OnChan("get_data_source", call.chan)
    /\ call.name = "getRunMode" =>
          Len(todo) <= 1 /\ \A i \in 1 .. Len(todo) : todo[i] = System("get_run_mode")
ModestShape == ~Walking /\ call.name # "stop" => Modest(todo)

Shape == InitShape /\ StopShape /\ PlayShape /\ AskShape /\ ModestShape

-----------------------------------------------------------------------------
(* All cards are selected, but where init walks over them or the user      *)
(* selected one.                                                           *)
AllSelected == ~split => m_card = AllCards \/ (Walking /\ todo # <<>>)

(* The cards stop() selects are told to stop before it polls, and its      *)
(* first idle poll finds no card that counts.                              *)
StopInv ==
    call.name = "stop" /\ outcome # "failed" =>
        /\ Len(todo) <= 2 =>
              \A k \in Cards : StopSelects(k) => phase[k] \in {"idle", "draining"}
        /\ Len(todo) <= 1 => \A k \in Cards : phase[k] # "counting"

(* The cards init has set up already have the clock it sets up.            *)
InitClock ==
    [src |-> {ClockSource}, flags |-> ClkFlags.put.MASTER \cup ClkFlags.put.NO_DITHER]

MadeByInit == InitLen - Len(todo)

ClocksInv ==
    ~split =>
        IF Walking /\ todo # <<>> /\ MadeByInit > 3
        THEN \A k \in Cards : k < MadeByInit - 3 => clocks[k] = InitClock
        ELSE \A j, k \in Cards : clocks[j] = clocks[k]

CardSetInv == ~split => \A j, k \in Cards : card_set[j] = card_set[k]

InitInv ==
    Walking /\ outcome \in {"running", "ok"} =>
        /\ HasSettings /\ Len(todo) <= 1 =>
              cont = saved.cont /\ format = saved.format /\ chan_set = saved.set
        /\ outcome = "ok" =>
              m_card = AllCards /\ m_status = "Idle" /\ run_flags = DefaultMode

PlayInv ==
    call.name = "loadPlayback" /\ outcome \in {"running", "ok"} =>
        /\ Len(todo) <= 3 /\ m_card \in {AllCards, CardOf(0)} =>
              player[CardOf(0)] # "none"
        /\ Len(todo) <= 2 => Playback \subseteq run_flags
        /\ outcome = "ok" => cont[0] \cap SelData = SourceBits("PlaybackStream0")

(* What the user set last is what the words hold.                          *)
AskedInv ==
    /\ asked_mode \in {run_flags, Unknown}
    /\ asked \in [Chans -> Sources \cup {Unknown}]
    /\ \A c \in Chans : asked[c] \in {cont[c] \cap SelData, Unknown}
    /\ CallReturned("getDataSource") =>
          call.chan \in Chans /\ asked[call.chan] \in {answer, Unknown}
    /\ CallReturned("getRunMode") => answer = run_flags

(* The settings of the channels, and of the file, are functions.           *)
SettingsAre ==
    /\ chan_set = [c \in Chans |-> chan_set[c]]
    /\ saved.set = [c \in Chans |-> saved.set[c]]

CallInv ==
    /\ ControlInv /\ Shape /\ AllSelected /\ StopInv /\ ClocksInv /\ CardSetInv
    /\ InitInv /\ PlayInv /\ AskedInv /\ SettingsAre

-----------------------------------------------------------------------------
(* What the steps change.                                                  *)

LEMMA PlainRuns == RunPlain => \E f \in SdkCalls : Run(f)
BY DEF RunPlain, SdkCalls

LEMMA SdkRuns ==
    ASSUME SdkStep PROVE (\E f \in SdkCalls : Run(f)) /\ (Advance \/ Fail)
<1>1. \E f \in SdkCalls : Run(f)
  BY PlainRuns
  DEF SdkStep, SdkCalls, RunGetGeneration, RunClocks, RunRestoreSettings,
      RunSaveSettings, RunChannelSetting, RunCardSetting, RunSetRunFlags,
      RunSetRunFlagsFails, RunGetRunFlags, RunGetChanCont, RunSetChanCont,
      RunGetDataSource, RunReadFails, RunFormat, RunPlaybackLoad, RunClear,
      RunHistogram, NewRuns, RunPoll
<1>2. Advance \/ Fail
  BY DEF SdkStep, Ends, Succeed, RunPlain, RunGetGeneration, RunClocks,
      RunRestoreSettings, RunSaveSettings, RunChannelSetting, RunCardSetting,
      RunSetRunFlags, RunSetRunFlagsFails, RunGetRunFlags, RunGetChanCont,
      RunSetChanCont, RunGetDataSource, RunReadFails, RunFormat, RunPlaybackLoad,
      RunClear, RunHistogram, RunPoll
<1> QED
  BY <1>1, <1>2

LEMMA SdkFrame ==
    ASSUME ControlInv, SdkStep
    PROVE  /\ todo # <<>> /\ Now = todo[1] /\ 1 \in 1 .. Len(todo)
           /\ call' = call /\ Run(Now.f)
           /\ m_card' = IF Now.card = Keep THEN m_card ELSE Now.card
           /\ \/ Advance /\ todo' = Tail(todo) /\ split' = split
                 /\ outcome' = (IF Len(todo) = 1 THEN "ok" ELSE "running")
              \/ Fail /\ todo' = <<>> /\ split' = TRUE /\ outcome' = "failed"
           /\ OpsOK(todo) /\ Len(todo') \in Nat /\ todo' \in {Tail(todo), <<>>}
<1>1. PICK f \in SdkCalls : Run(f)
  BY SdkRuns
<1>2. todo # <<>> /\ Now.f = f /\ call' = call
      /\ m_card' = IF Now.card = Keep THEN m_card ELSE Now.card
  BY <1>1 DEF Run
<1>3. OpsOK(todo) /\ Now = todo[1] /\ 1 \in 1 .. Len(todo)
  BY <1>2 DEF ControlInv, TodoInv, OpsOK, Now
<1>4. (Tail(todo) = <<>>) = (Len(todo) = 1) /\ Len(Tail(todo)) \in Nat
  <2>1. /\ Tail(todo) \in Seq(Ops) /\ Len(Tail(todo)) = Len(todo) - 1
        /\ Len(todo) \in Nat \ {0}
    BY <1>2, <1>3, Remaining DEF OpsOK
  <2>2. Tail(todo) = <<>> <=> Len(Tail(todo)) = 0
    BY <2>1, EmptySeq
  <2> QED
    BY <2>1, <2>2
<1>5. \/ Advance /\ todo' = Tail(todo) /\ split' = split
         /\ outcome' = (IF Len(todo) = 1 THEN "ok" ELSE "running")
      \/ Fail /\ todo' = <<>> /\ split' = TRUE /\ outcome' = "failed"
  BY <1>4, SdkRuns DEF Advance, Fail
<1>6. Len(todo') \in Nat /\ todo' \in {Tail(todo), <<>>}
  BY <1>4, <1>5
<1> QED
  BY <1>1, <1>2, <1>3, <1>5, <1>6

LEMMA WhoChanges ==
    ASSUME SdkStep
    PROVE  /\ RunHistogram \/ UNCHANGED phase
           /\ RunClocks \/ UNCHANGED clocks
           /\ RunCardSetting \/ UNCHANGED card_set
           /\ RunPlaybackLoad \/ UNCHANGED player
           /\ RunGetGeneration \/ RunSetRunFlags \/ RunSetRunFlagsFails \/ UNCHANGED gen
           /\ \/ RunSetRunFlags \/ RunSetRunFlagsFails
              \/ UNCHANGED <<run_flags, asked_mode>>
           /\ RunSetChanCont \/ RunRestoreSettings \/ UNCHANGED <<cont, asked>>
           /\ RunFormat \/ RunRestoreSettings \/ UNCHANGED format
           /\ RunChannelSetting \/ RunRestoreSettings \/ UNCHANGED chan_set
           /\ RunSaveSettings \/ UNCHANGED saved
           /\ RunGetRunFlags \/ RunGetDataSource \/ UNCHANGED answer
<1> USE DEF wordVars, setVars, countVars, askedVars
<1>1. CASE RunPlain \/ RunGetGeneration \/ RunClocks \/ RunRestoreSettings
  BY <1>1 DEF RunPlain, RunGetGeneration, RunClocks, RunRestoreSettings
<1>2. CASE RunSaveSettings \/ RunChannelSetting \/ RunCardSetting
  BY <1>2 DEF RunSaveSettings, RunChannelSetting, RunCardSetting
<1>3. CASE RunSetRunFlags \/ RunSetRunFlagsFails \/ RunGetRunFlags
  BY <1>3 DEF RunSetRunFlags, RunSetRunFlagsFails, RunGetRunFlags
<1>4. CASE RunGetChanCont \/ RunSetChanCont \/ RunGetDataSource \/ RunReadFails
  BY <1>4 DEF RunGetChanCont, RunSetChanCont, RunGetDataSource, RunReadFails
<1>5. CASE RunFormat \/ RunPlaybackLoad \/ RunClear \/ RunHistogram \/ RunPoll
  BY <1>5 DEF RunFormat, RunPlaybackLoad, RunClear, RunHistogram, RunPoll
<1> QED
  BY <1>1, <1>2, <1>3, <1>4, <1>5 DEF SdkStep

(* The detector changes nothing but the counts and the phases it ends.     *)
LEMMA DetectorFrame ==
    ASSUME Detector, ControlInv
    PROVE  /\ UNCHANGED <<m_card, m_status, gen, run_flags, cont, format, chan_set,
                          card_set, clocks, player, saved, answer, asked, asked_mode,
                          todo, call, outcome, split>>
           /\ \A k \in Cards : phase'[k] \in {phase[k], "idle"}
<1>1. UNCHANGED hwRest
  BY DEF Detector, Count, Drained
<1>2. \A k \in Cards : phase'[k] \in {phase[k], "idle"}
  BY DEF Detector, Count, Drained, ControlInv, Contents
<1> QED
  BY <1>1, <1>2 DEF hwRest, camVars, wordVars, setVars, askedVars, callVars

-----------------------------------------------------------------------------
(* What each call begins with.                                             *)

LEMMA ModestOp ==
    ASSUME NEW f \in SdkCalls \ {"is_any_busy"}, NEW chan, NEW word
    PROVE  Modest(<<Op(f, Keep, chan, word)>>)
BY DEF Modest, Op

LEMMA ModestTwo ==
    ASSUME NEW s \in Seq(Ops), NEW t \in Seq(Ops), Modest(s), Modest(t)
    PROVE  Modest(s \o t)
<1>1. /\ Len(s \o t) = Len(s) + Len(t) /\ Len(s) \in Nat /\ Len(t) \in Nat
      /\ \A i \in 1 .. Len(s) + Len(t) :
            (s \o t)[i] = IF i <= Len(s) THEN s[i] ELSE t[i - Len(s)]
  BY ConcatProperties
<1>2. ASSUME NEW i \in 1 .. Len(s \o t)
      PROVE  (s \o t)[i].card = Keep /\ (s \o t)[i].f # "is_any_busy"
  <2>1. CASE i <= Len(s)
    BY <1>1, <2>1 DEF Modest
  <2>2. CASE i > Len(s)
    <3>1. i - Len(s) \in 1 .. Len(t)
      BY <1>1, <2>2
    <3> QED
      BY <1>1, <2>2, <3>1 DEF Modest
  <2> QED
    BY <1>1, <2>1, <2>2
<1> QED
  BY <1>2 DEF Modest

LEMMA ModestSources ==
    ASSUME NEW chan \in Chans \cup {AllChans}, NEW src,
           SourceBits(src) \in Sources
    PROVE  Modest(DataSourceCalls(chan, src))
<1>1. \A c, w : /\ Op("set_chan_cont", Keep, c, w).card = Keep
                /\ Op("set_chan_cont", Keep, c, w).f = "set_chan_cont"
                /\ OnChan("get_chan_cont", c).card = Keep
                /\ OnChan("get_chan_cont", c).f = "get_chan_cont"
  BY DEF Op, OnChan
<1> DEFINE s == DataSourceCalls(chan, src)
<1>2. /\ Len(s) = 2 * NumberOf(chan)
      /\ \A i \in 1 .. 2 * NumberOf(chan) : \E c :
            s[i] \in {OnChan("get_chan_cont", c),
                     Op("set_chan_cont", Keep, c, SourceBits(src))}
  <2>1. /\ Len(s) = 2 * NumberOf(chan)
        /\ \A i \in 1 .. 2 * NumberOf(chan) :
              s[i] = IF i % 2 = 1
                     THEN OnChan("get_chan_cont", FirstOf(chan) + (i - 1) \div 2)
                     ELSE Op("set_chan_cont", Keep, FirstOf(chan) + (i - 1) \div 2,
                             SourceBits(src))
    BY SourceCalls
  <2> HIDE DEF s
  <2> QED
    BY <2>1, Zenon
<1> HIDE DEF s
<1>3. Modest(s)
  BY <1>1, <1>2 DEF Modest
<1> QED
  BY <1>3 DEF s

LEMMA PlayOps ==
    /\ Len(PlaybackCalls) = 4 /\ Modest(PlaybackCalls)
    /\ \A i \in 1 .. 4 : PlaybackCalls[i] = PlayOp(i)
<1> DEFINE l == System("playback_load")
           m == Op("set_run_flags", Keep, AllChans, DefaultMode \cup Playback)
           s == DataSourceCalls(0, "PlaybackStream0")
           a == <<l, m>>
<1>1. SourceBits("PlaybackStream0") \in Sources
  BY DEF Sources, DataSrc
<1>2. WellFormed(s) /\ Len(s) = 2 /\ Modest(s)
      /\ s[1] = OnChan("get_chan_cont", 0)
      /\ s[2] = Op("set_chan_cont", Keep, 0, SourceBits("PlaybackStream0"))
  <2>1. 0 \in Chans \cup {AllChans} /\ NumberOf(0) = 1 /\ FirstOf(0) = 0
    BY Numbers DEF NumberOf, FirstOf
  <2>0. /\ WellFormed(s) /\ Len(s) = 2 * NumberOf(0)
        /\ \A i \in 1 .. 2 * NumberOf(0) :
              s[i] = IF i % 2 = 1 THEN OnChan("get_chan_cont", FirstOf(0) + (i - 1) \div 2)
                     ELSE Op("set_chan_cont", Keep, FirstOf(0) + (i - 1) \div 2,
                             SourceBits("PlaybackStream0"))
    BY <1>1, <2>1, SourceCalls
  <2>2. /\ WellFormed(s) /\ Len(s) = 2
        /\ \A i \in 1 .. 2 :
              s[i] = IF i % 2 = 1 THEN OnChan("get_chan_cont", 0 + (i - 1) \div 2)
                     ELSE Op("set_chan_cont", Keep, 0 + (i - 1) \div 2,
                             SourceBits("PlaybackStream0"))
    <3> HIDE DEF s
    <3>1. 2 * NumberOf(0) = 2 /\ FirstOf(0) = 0
      BY <2>1
    <3> QED
      BY <2>0, <3>1
  <2>3. 1 % 2 = 1 /\ 2 % 2 = 0 /\ 0 + (1 - 1) \div 2 = 0 /\ 0 + (2 - 1) \div 2 = 0
    OBVIOUS
  <2>4. Modest(s)
    BY <1>1, <2>1, ModestSources
  <2> HIDE DEF s
  <2> QED
    BY <2>2, <2>3, <2>4
<1>3. l \in Ops /\ m \in Ops /\ Modest(a)
  <2>1. DefaultMode \cup Playback \in SUBSET (Int \cup Settings)
    BY FlagBits
  <2>2. l \in Ops
    BY OpType DEF System, SdkCalls
  <2>3. m \in Ops
    BY <2>1, OpType DEF SdkCalls
  <2> QED
    BY <2>2, <2>3 DEF Modest, System, Op
<1>4. PlaybackCalls = a \o s
  BY DEF PlaybackCalls
<1> HIDE DEF s, l, m
<1>5. s \in Seq(Ops) /\ a \in Seq(Ops) /\ Len(a) = 2 /\ a[1] = l /\ a[2] = m
  BY <1>2, <1>3 DEF WellFormed, OpsOK
<1> HIDE DEF a
<1>6. /\ Len(a \o s) = Len(a) + Len(s)
      /\ \A i \in 1 .. Len(a) + Len(s) :
            (a \o s)[i] = IF i <= Len(a) THEN a[i] ELSE s[i - Len(a)]
  BY <1>5, ConcatProperties
<1>7. Modest(PlaybackCalls)
  BY <1>2, <1>3, <1>4, <1>5, ModestTwo
<1>8. Len(PlaybackCalls) = 4
  BY <1>2, <1>4, <1>5, <1>6
<1>9. ASSUME NEW i \in 1 .. 4 PROVE PlaybackCalls[i] = PlayOp(i)
  <2>1. i \in {1, 2, 3, 4}
    OBVIOUS
  <2> QED
    BY <1>2, <1>4, <1>5, <1>6, <2>1 DEF PlayOp, l, m
<1> QED
  BY <1>7, <1>8, <1>9

LEMMA StopOps ==
    LET s == <<System("histogram_stop"), System("is_any_busy"), System("is_any_busy")>>
    IN  Len(s) = 3 /\ \A i \in 1 .. 3 : s[i] = StopOp(i)
BY DEF StopOp

LEMMA ModestFormat ==
    ASSUME NEW chan \in ChanArgs, NEW a PROVE Modest(FormatCalls(chan, a))
<1> DEFINE f == <<Op("format_run", Keep, chan, FormatWord(a))>>
           r == IF a.nbits_eng = MaxBitsEng THEN <<Default(AllChans, {"roi"})>>
                ELSE <<>>
<1>1. f \in Seq(Ops) /\ r \in Seq(Ops)
  <2>1. chan \in Chans \cup {AllChans}
    BY Numbers
  <2>2. WellFormed(f)
    BY <2>1, FormatCall
  <2>3. WellFormed(r)
    BY RoiCall, NoCall DEF Settings
  <2> QED
    BY <2>2, <2>3 DEF WellFormed, OpsOK
<1>2. Modest(f) /\ Modest(r)
  BY DEF Modest, Op, Default
<1>3. FormatCalls(chan, a) = f \o r
  BY DEF FormatCalls
<1> HIDE DEF f, r
<1> QED
  BY <1>1, <1>2, <1>3, ModestTwo

(* A call that is none of those whose SDK calls the properties follow.     *)
Named == {"Camera", "reset", "stop", "loadPlayback", "getDataSource", "getRunMode"}

LEMMA ShapeOther ==
    ASSUME call'.name \notin Named, Modest(todo')
    PROVE  Shape'
BY DEF Shape, InitShape, StopShape, PlayShape, AskShape, ModestShape, Walking, Named

LEMMA ModestNone == Modest(<<>>)
BY DEF Modest

(* The calls as one: what they leave, and with what they begin.            *)
CallFrame ==
    /\ todo = <<>>
    /\ UNCHANGED <<m_status, gen, run_flags, cont, format, chan_set, card_set, clocks,
                   player, phase, saved, asked, asked_mode>>
    /\ (m_card' = m_card /\ split' = split) \/ split' = (split \/ m_card' # AllCards)
    /\ Shape'
    /\ call'.name \in Named => outcome' = "running"
    /\ call'.name \in {"Camera", "reset"} => Len(todo') = InitLen
    /\ call'.name = "stop" => Len(todo') = 3
    /\ call'.name = "loadPlayback" => Len(todo') = 4

LEMMA FrameOfCall ==
    ASSUME NEW name, NEW chan, NEW arg, Call(name, chan, arg)
    PROVE  /\ todo = <<>> /\ call'.name = name /\ call'.chan = chan
           /\ UNCHANGED <<m_status, gen, run_flags, cont, format, chan_set, card_set,
                          clocks, player, phase, saved, asked, asked_mode>>
BY DEF Call, wordVars, setVars, countVars, askedVars

LEMMA FrameOther ==
    ASSUME NEW name, NEW chan, NEW arg, Call(name, chan, arg), name \notin Named,
           \/ \E sdk : Begin(sdk) /\ Modest(sdk)
           \/ Reject
    PROVE  CallFrame
<1>1. Modest(todo')
  BY ModestNone DEF Begin, Reject
<1>2. m_card' = m_card /\ split' = split
  BY DEF Begin, Reject, camVars
<1>3. Shape'
  BY <1>1, FrameOfCall, ShapeOther
<1> QED
  BY <1>2, <1>3, FrameOfCall DEF CallFrame, Named

LEMMA CallFrames == ControlInv /\ CameraCall => CallFrame
<1> SUFFICES ASSUME ControlInv, CameraCall PROVE CallFrame
  OBVIOUS
<1>a. \A f \in SdkCalls \ {"is_any_busy"} : \A chan, word :
         Modest(<<Op(f, Keep, chan, word)>>)
  BY ModestOp
<1>b. \A f \in SdkCalls \ {"is_any_busy"} :
         Modest(<<System(f)>>) /\ \A chan : Modest(<<OnChan(f, chan)>>)
  BY <1>a DEF System, OnChan
<1>c. \A chan, names : /\ Modest(<<Default(chan, names)>>)
                       /\ Modest(<<Program(chan, names)>>)
                       /\ Modest(<<ProgramCard(names)>>)
  BY <1>a DEF Default, Program, ProgramCard, SdkCalls
<1>1. ASSUME NEW k \in Cards \cup {AllCards}, SetCard(k) PROVE CallFrame
  <2>1. /\ Call("setCard", AllChans, k) /\ todo' = <<>>
        /\ split' = (split \/ m_card' # AllCards)
    BY <1>1 DEF SetCard, Call
  <2>2. Shape'
    BY <2>1, FrameOfCall, ShapeOther, ModestNone DEF Named
  <2> QED
    BY <2>1, <2>2, FrameOfCall DEF CallFrame, Named
<1>2. ASSUME NEW n \in NbFrames, SetNbFrames(n) PROVE CallFrame
  <2>1. /\ Call("setNbFrames", AllChans, n) /\ todo' = <<>>
        /\ split' = split /\ m_card' = m_card
    BY <1>2 DEF SetNbFrames, Call
  <2>2. Shape'
    BY <2>1, FrameOfCall, ShapeOther, ModestNone DEF Named
  <2> QED
    BY <2>1, <2>2, FrameOfCall DEF CallFrame, Named
<1>3. ASSUME NEW b \in BOOLEAN, SetClearMode(b) PROVE CallFrame
  <2>1. /\ Call("setClearMode", AllChans, b) /\ todo' = <<>>
        /\ split' = split /\ m_card' = m_card
    BY <1>3 DEF SetClearMode, Call
  <2>2. Shape'
    BY <2>1, FrameOfCall, ShapeOther, ModestNone DEF Named
  <2> QED
    BY <2>1, <2>2, FrameOfCall DEF CallFrame, Named
<1>4. ASSUME NEW b \in BOOLEAN, SetPlayback(b) PROVE CallFrame
  <2>1. \A w : Modest(<<System("get_run_flags"), Op("put_run_flags", Keep, AllChans, w)>>)
    BY DEF Modest, System, Op
  <2> QED
    BY <1>4, <2>1, FrameOther DEF SetPlayback, Named
<1>5. CASE Reset
  <2>1. Call("reset", AllChans, {}) /\ Begin(InitCalls)
    BY <1>5 DEF Reset
  <2>2. /\ todo' = InitCalls /\ Len(todo') = InitLen /\ InitLen \in Nat \ {0}
        /\ outcome' = "running" /\ m_card' = m_card /\ split' = split
    BY <2>1, InitOps, ControlAssumption DEF Begin, camVars, InitLen
  <2>3. \A i \in 1 .. InitLen : InitLen - InitLen + i = i
    BY <2>2
  <2>4. Shape'
    BY <2>1, <2>2, <2>3, FrameOfCall, InitOps
    DEF Shape, InitShape, StopShape, PlayShape, AskShape, ModestShape, Walking
  <2> QED
    BY <2>1, <2>2, <2>4, FrameOfCall DEF CallFrame, Named
<1>6. CASE PrepareAcq
  BY <1>6, <1>b, ModestNone, FrameOther DEF PrepareAcq, SdkCalls, Named
<1>7. CASE Start \/ Arm \/ Pause \/ Restart
  BY <1>7, <1>b, FrameOther DEF Start, Arm, Pause, Restart, Control, SdkCalls, Named
<1>8. CASE Stop
  <2>1. /\ Call("stop", AllChans, {}) /\ outcome' = "running"
        /\ todo' = <<System("histogram_stop"), System("is_any_busy"),
                     System("is_any_busy")>>
        /\ m_card' = m_card /\ split' = split
    BY <1>8 DEF Stop, Begin, camVars
  <2>2. Len(todo') = 3 /\ \A i \in 1 .. 3 : todo'[i] = StopOp(3 - 3 + i)
    BY <2>1, StopOps
  <2>3. Shape'
    BY <2>1, <2>2, FrameOfCall
    DEF Shape, InitShape, StopShape, PlayShape, AskShape, ModestShape, Walking
  <2> QED
    BY <2>1, <2>2, <2>3, FrameOfCall DEF CallFrame, Named
<1>9. CASE LoadPlayback
  <2>1. /\ Call("loadPlayback", 0, {}) /\ todo' = PlaybackCalls
        /\ m_card' = m_card /\ split' = split /\ Len(todo') = 4
    BY <1>9, PlayOps DEF LoadPlayback, Begin, camVars
  <2>2. outcome' = "running"
    BY <1>9, PlayOps DEF LoadPlayback, Begin
  <2>3. \A i \in 1 .. 4 : todo'[i] = PlayOp(4 - 4 + i)
    BY <2>1, PlayOps
  <2>4. Shape'
    BY <2>1, <2>3, FrameOfCall, PlayOps
    DEF Shape, InitShape, StopShape, PlayShape, AskShape, ModestShape, Walking
  <2> QED
    BY <2>1, <2>2, <2>4, FrameOfCall DEF CallFrame, Named
<1>10. CASE GetRunMode
  <2>1. /\ Call("getRunMode", AllChans, {}) /\ todo' = <<System("get_run_mode")>>
        /\ m_card' = m_card /\ split' = split /\ outcome' = "running"
    BY <1>10 DEF GetRunMode, Begin, camVars
  <2>2. Modest(todo')
    BY <1>b, <2>1 DEF SdkCalls
  <2>3. Shape'
    BY <2>1, <2>2, FrameOfCall
    DEF Shape, InitShape, StopShape, PlayShape, AskShape, ModestShape, Walking
  <2> QED
    BY <2>1, <2>3, FrameOfCall DEF CallFrame
<1>11. ASSUME NEW c \in ChanArgs, GetDataSource(c) PROVE CallFrame
  <2>1. /\ Call("getDataSource", c, {}) /\ todo' = <<OnChan("get_data_source", c)>>
        /\ m_card' = m_card /\ split' = split /\ outcome' = "running"
    BY <1>11 DEF GetDataSource, Begin, camVars
  <2>2. Modest(todo')
    BY <1>b, <2>1 DEF SdkCalls
  <2>3. Shape'
    BY <2>1, <2>2, FrameOfCall, Numbers
    DEF Shape, InitShape, StopShape, PlayShape, AskShape, ModestShape, Walking
  <2> QED
    BY <2>1, <2>3, FrameOfCall DEF CallFrame
<1>12. CASE StartScope
  <2>1. Modest(<<System("scope_settings_from_mod"), System("start_count_enb"),
                 System("scope_wait"), System("read_scope_data")>>)
    BY DEF Modest, System, Op
  <2> QED
    BY <1>12, <2>1, FrameOther DEF StartScope, Named
<1>13. CASE ReadRawHistogram \/ SaveSettings \/ RestoreSettings
  BY <1>13, <1>b, FrameOther
  DEF ReadRawHistogram, SaveSettings, RestoreSettings, SdkCalls, Named
<1>14. ASSUME NEW flags \in RunModes, SetRunMode(flags) PROVE CallFrame
  BY <1>14, <1>a, FrameOther DEF SetRunMode, SdkCalls, Named
<1>15. ASSUME NEW c \in ChanArgs, NEW src \in DataSources, SetDataSource(c, src)
       PROVE  CallFrame
  <2>1. Modest(DataSourceCalls(c, src))
    BY ModestSources, DataSourcesKnown, Numbers
  <2> QED
    BY <1>15, <2>1, FrameOther DEF SetDataSource, Named
<1>16. ASSUME NEW c \in ChanArgs, NEW a \in FormatArgs, FormatRun(c, a)
       PROVE  CallFrame
  BY <1>16, ModestFormat, FrameOther DEF FormatRun, Named
<1>17. ASSUME NEW c \in ChanArgs, NEW x \in Scalings, SetScaling(c, x)
       PROVE  CallFrame
  BY <1>17, <1>c, FrameOther DEF SetScaling, Named
<1>18. ASSUME NEW c \in ChanArgs,
              \/ InitRoi(c) \/ InitBrams(c) \/ SetRoi(c) \/ SetWindow(c)
              \/ SetGoodThreshold(c) \/ SetRinging(c)
              \/ SetDeadtimeCorrectionParameters(c)
       PROVE  CallFrame
  BY <1>18, <1>c, FrameOther
  DEF InitRoi, InitBrams, SetRoi, SetWindow, SetGoodThreshold, SetRinging,
      SetDeadtimeCorrectionParameters, SetChannel, Named
<1>19. CASE \/ SetDeadtimeCalculationEnergy \/ SetFanSetpoint \/ SetFanController
            \/ SetAdcTempLimit
  BY <1>19, <1>c, FrameOther
  DEF SetDeadtimeCalculationEnergy, SetChannel, SetFanSetpoint, SetFanController,
      SetAdcTempLimit, SetCards, Named
<1>20. ASSUME NEW src \in ClockArgs, SetupClocks(src) PROVE CallFrame
  BY <1>20, <1>a, FrameOther DEF SetupClocks, SdkCalls, Named
<1>21. CASE GetFanTemperatures
  <2>1. Modest([i \in 1 .. FanCards |-> System("read_fan")])
    <3>1. System("read_fan").card = Keep /\ System("read_fan").f = "read_fan"
      BY DEF System, Op
    <3> DEFINE s == [i \in 1 .. FanCards |-> System("read_fan")]
    <3>2. FanCards \in Nat
      BY ControlAssumption DEF ControlInv, Progress, FanCards, Cards
    <3>3. Len(s) = FanCards /\ \A i \in 1 .. FanCards : s[i] = System("read_fan")
      BY <3>2
    <3> QED
      BY <3>1, <3>3 DEF Modest
  <2> QED
    BY <1>21, <2>1, FrameOther DEF GetFanTemperatures, Named
<1> QED
  BY <1>1, <1>2, <1>3, <1>4, <1>5, <1>6, <1>7, <1>8, <1>9, <1>10, <1>11, <1>12,
     <1>13, <1>14, <1>15, <1>16, <1>17, <1>18, <1>19, <1>20, <1>21 DEF CameraCall

-----------------------------------------------------------------------------
(* What is left of a call stays its end.                                   *)

LEMMA TailOf ==
    ASSUME ControlInv, SdkStep
    PROVE  /\ Len(todo) \in Nat \ {0}
           /\ \/ /\ Len(todo') = Len(todo) - 1
                 /\ \A i \in 1 .. Len(todo') : /\ todo'[i] = todo[i + 1]
                                               /\ i + 1 \in 1 .. Len(todo)
              \/ Len(todo') = 0
<1>1. todo # <<>> /\ OpsOK(todo) /\ todo' \in {Tail(todo), <<>>}
  BY SdkFrame
<1>2. /\ Len(Tail(todo)) = Len(todo) - 1 /\ Len(todo) \in Nat \ {0}
      /\ \A i \in 1 .. Len(todo) - 1 : Tail(todo)[i] = todo[i + 1]
  BY <1>1, Remaining
<1>3. CASE todo' = Tail(todo)
  <2>1. \A i \in 1 .. Len(todo) - 1 : i + 1 \in 1 .. Len(todo)
    BY <1>2
  <2> QED
    BY <1>2, <1>3, <2>1
<1>4. CASE todo' = <<>>
  BY <1>2, <1>4
<1> QED
  BY <1>1, <1>3, <1>4

LEMMA ShapeStays ==
    ASSUME ControlInv, Shape, SdkStep
    PROVE  Shape'
<1>1. call' = call
  BY SdkFrame
<1>2. CASE Len(todo') = 0
  <2>1. InitLen \in Nat
    BY InitOps
  <2> QED
    BY <1>1, <1>2, <2>1
    DEF Shape, InitShape, StopShape, PlayShape, AskShape, ModestShape, Modest, Walking
<1>3. CASE /\ Len(todo') = Len(todo) - 1
           /\ \A i \in 1 .. Len(todo') : /\ todo'[i] = todo[i + 1]
                                         /\ i + 1 \in 1 .. Len(todo)
  <2>1. Len(todo) \in Nat \ {0} /\ InitLen \in Nat
    BY TailOf, InitOps
  <2>2. \A i \in 1 .. Len(todo') :
           /\ InitLen - Len(todo') + i = InitLen - Len(todo) + (i + 1)
           /\ 3 - Len(todo') + i = 3 - Len(todo) + (i + 1)
           /\ 4 - Len(todo') + i = 4 - Len(todo) + (i + 1)
    BY <1>3, <2>1
  <2>3. Len(todo') <= Len(todo)
    BY <1>3, <2>1
  <2>4. InitShape'
    BY <1>1, <1>3, <2>1, <2>2, <2>3 DEF Shape, InitShape, Walking
  <2>5. StopShape'
    BY <1>1, <1>3, <2>1, <2>2, <2>3 DEF Shape, StopShape
  <2>6. PlayShape'
    BY <1>1, <1>3, <2>1, <2>2, <2>3 DEF Shape, PlayShape
  <2>7. AskShape'
    BY <1>1, <1>3, <2>1, <2>3 DEF Shape, AskShape
  <2>8. ModestShape'
    BY <1>1, <1>3 DEF Shape, ModestShape, Walking, Modest
  <2> QED
    BY <2>4, <2>5, <2>6, <2>7, <2>8 DEF Shape
<1> QED
  BY <1>2, <1>3, TailOf

(* The operations of init, by their number.                                *)
LEMMA InitOpFields ==
    ASSUME NEW j \in 1 .. InitLen
    PROVE  /\ InitOp(j).f \notin {"is_any_busy", "histogram_stop", "playback_load",
                                  "get_data_source", "get_run_mode"}
           /\ j = InitLen => /\ InitOp(j).f = "set_run_flags"
                             /\ InitOp(j).card = AllCards
                             /\ InitOp(j).word = DefaultMode
           /\ InitOp(j).f = "clocks_setup" <=> j \in 4 .. 3 + NbCards
           /\ j \in 4 .. 3 + NbCards => InitOp(j).card = j - 4 /\ InitOp(j).word = {}
           /\ j > 3 + NbCards /\ j < InitLen => InitOp(j).f = "restore_settings"
           /\ j < InitLen => InitOp(j).f # "set_run_flags"
           /\ InitOp(j).f = "get_generation" <=> j = 3
           /\ InitLen \in Nat /\ NbCards \in Nat \ {0}
           /\ InitLen = 4 + NbCards + (IF HasSettings THEN 1 ELSE 0)
<1>1. NbCards \in Nat \ {0} /\ InitLen \in Nat
      /\ InitLen = 4 + NbCards + (IF HasSettings THEN 1 ELSE 0)
  BY ControlAssumption, InitOps DEF InitLen
<1>2. CASE j = 1
  BY <1>1, <1>2 DEF InitOp, System, Op
<1>3. CASE j = 2
  BY <1>1, <1>3 DEF InitOp, Default, Op
<1>4. CASE j = 3
  BY <1>1, <1>4 DEF InitOp, OnCard, Op
<1>5. CASE j > 3 /\ j <= 3 + NbCards
  BY <1>1, <1>5 DEF InitOp, OnCard, Op
<1>6. CASE j > 3 + NbCards /\ j < InitLen
  BY <1>1, <1>6 DEF InitOp, OnCard, Op
<1>7. CASE j = InitLen
  BY <1>1, <1>7 DEF InitOp, Op
<1> QED
  BY <1>1, <1>2, <1>3, <1>4, <1>5, <1>6, <1>7

(* Where init is: the next operation is the one after those made.          *)
LEMMA InitNow ==
    ASSUME ControlInv, Shape, SdkStep, Walking
    PROVE  /\ MadeByInit \in 0 .. InitLen - 1 /\ Now = InitOp(MadeByInit + 1)
           /\ MadeByInit + 1 \in 1 .. InitLen
           /\ Len(todo) = 1 <=> MadeByInit + 1 = InitLen
           /\ Len(todo') = Len(todo) - 1 => MadeByInit' = MadeByInit + 1
<1>1. Len(todo) \in Nat \ {0} /\ InitLen \in Nat /\ Now = todo[1]
  BY TailOf, InitOps, SdkFrame
<1>2. Len(todo) <= InitLen /\ todo[1] = InitOp(InitLen - Len(todo) + 1)
  BY <1>1 DEF Shape, InitShape
<1>3. MadeByInit' = InitLen - Len(todo')
  BY DEF MadeByInit, InitLen
<1>4. MadeByInit = InitLen - Len(todo)
  BY DEF MadeByInit
<1>5. InitLen - Len(todo) \in 0 .. InitLen - 1
  BY <1>1, <1>2
<1>6. MadeByInit \in 0 .. InitLen - 1 /\ MadeByInit + 1 \in 1 .. InitLen
      /\ (Len(todo) = 1 <=> MadeByInit + 1 = InitLen)
  <2>1. \A n, m \in Nat : n > 0 /\ n <= m
           => /\ m - n \in 0 .. m - 1 /\ m - n + 1 \in 1 .. m
              /\ (n = 1 <=> m - n + 1 = m)
    OBVIOUS
  <2>2. LET d == InitLen - Len(todo)
        IN  d \in 0 .. InitLen - 1 /\ d + 1 \in 1 .. InitLen
            /\ (Len(todo) = 1 <=> d + 1 = InitLen)
    <3>1. Len(todo) \in Nat /\ Len(todo) > 0 /\ InitLen \in Nat
      BY <1>1
    <3>2. Len(todo) <= InitLen
      BY <1>2
    <3> QED
      BY <2>1, <3>1, <3>2
  <2> QED
    BY <1>4, <2>2
<1>7. Len(todo') = Len(todo) - 1 => MadeByInit' = MadeByInit + 1
  BY <1>1, <1>3, <1>4
<1>8. Now = InitOp(MadeByInit + 1)
  BY <1>1, <1>2, <1>4
<1> QED
  BY <1>6, <1>7, <1>8

(* How many SDK calls of init are made, when its next has a given name.    *)
LEMMA NowIsWord ==
    ASSUME ControlInv, Shape, SdkStep, Now.f = "set_run_flags", Walking
    PROVE  Len(todo) = 1 /\ Now.card = AllCards /\ Now.word = DefaultMode
<1>1. /\ MadeByInit + 1 \in 1 .. InitLen /\ Now = InitOp(MadeByInit + 1)
      /\ Len(todo) = 1 <=> MadeByInit + 1 = InitLen
  BY InitNow
<1>2. MadeByInit + 1 = InitLen
  BY <1>1, InitOpFields
<1> QED
  BY <1>1, <1>2, InitOpFields

-----------------------------------------------------------------------------
(* The selection of the cards.                                             *)

LEMMA KeepsOrWalks ==
    ASSUME ControlInv, Shape, SdkStep
    PROVE  \/ Walking
           \/ m_card' = m_card
<1>1. Now = todo[1] /\ 1 \in 1 .. Len(todo)
      /\ m_card' = IF Now.card = Keep THEN m_card ELSE Now.card
  BY SdkFrame
<1>2. CASE call.name = "stop"
  <2>1. Now = StopOp(3 - Len(todo) + 1)
    BY <1>1, <1>2 DEF Shape, StopShape
  <2>2. Now.card = Keep
    BY <2>1 DEF StopOp, System, Op
  <2> QED
    BY <1>1, <2>2
<1>3. CASE call.name # "stop" /\ ~Walking
  BY <1>1, <1>3 DEF Shape, ModestShape, Modest
<1> QED
  BY <1>2, <1>3

LEMMA AllSelectedStays ==
    ASSUME ControlInv, Shape, AllSelected, SdkStep
    PROVE  AllSelected'
<1> SUFFICES ASSUME ~split' PROVE m_card' = AllCards \/ (Walking' /\ todo' # <<>>)
  BY DEF AllSelected
<1>1. /\ Advance /\ split' = split /\ todo' = Tail(todo) /\ call' = call
      /\ m_card' = IF Now.card = Keep THEN m_card ELSE Now.card
  BY SdkFrame
<1>2. CASE ~Walking
  BY <1>1, <1>2, KeepsOrWalks DEF AllSelected
<1>3. CASE Walking /\ Len(todo) = 1
  <2>1. Now.card = AllCards
    BY <1>3, InitNow, InitOpFields
  <2> QED
    BY <1>1, <2>1, Numbers
<1>4. CASE Walking /\ Len(todo) # 1
  <2>1. todo' # <<>>
    <3>1. Len(todo) \in Nat \ {0} /\ OpsOK(todo) /\ todo # <<>>
      BY TailOf, SdkFrame
    <3>2. Len(Tail(todo)) = Len(todo) - 1
      BY <3>1, Remaining
    <3> QED
      BY <1>1, <1>4, <3>1, <3>2
  <2> QED
    BY <1>1, <1>4, <2>1 DEF Walking
<1> QED
  BY <1>2, <1>3, <1>4

(* Outside of init, an SDK call for cards is for all of them.              *)
LEMMA SelectedIsAll ==
    ASSUME ControlInv, Shape, AllSelected, SdkStep, ~split, ~Walking
    PROVE  Selected = Cards
<1>1. m_card' = AllCards
  BY KeepsOrWalks DEF AllSelected
<1> QED
  BY <1>1 DEF Selected, AllCards

-----------------------------------------------------------------------------
(* stop.                                                                   *)

LEMMA UpToThree ==
    \A n \in Nat : /\ n > 0 /\ n <= 3 => n \in 1 .. 3
                   /\ n <= 3 /\ n # 3 => n <= 2
                   /\ 3 - n + 1 = 1 <=> n = 3
OBVIOUS

LEMMA StopNow ==
    ASSUME ControlInv, Shape, SdkStep, call.name = "stop"
    PROVE  /\ Len(todo) \in 1 .. 3
           /\ Now.f = IF Len(todo) = 3 THEN "histogram_stop" ELSE "is_any_busy"
<1>1. Len(todo) \in Nat \ {0} /\ Now = todo[1]
  BY TailOf, SdkFrame
<1>2. todo[1] = StopOp(3 - Len(todo) + 1)
  BY <1>1 DEF Shape, StopShape
<1>3. Len(todo) \in 1 .. 3
  <2>1. Len(todo) <= 3
    BY DEF Shape, StopShape
  <2>2. Len(todo) \in Nat /\ Len(todo) > 0
    BY <1>1
  <2> QED
    BY <2>1, <2>2, UpToThree
<1>4. CASE Len(todo) = 3
  BY <1>1, <1>2, <1>3, <1>4 DEF StopOp, System, Op
<1>5. CASE Len(todo) # 3
  <2>1. 3 - Len(todo) + 1 # 1
    BY <1>1, <1>5, UpToThree
  <2> QED
    BY <1>1, <1>2, <1>3, <1>5, <2>1 DEF StopOp, System, Op
<1> QED
  BY <1>3, <1>4, <1>5

LEMMA StopStays ==
    ASSUME ControlInv, Shape, StopInv, SdkStep
    PROVE  StopInv'
<1> SUFFICES ASSUME call.name = "stop", outcome' # "failed"
             PROVE  /\ Len(todo') <= 2 =>
                          \A k \in Cards : StopSelects(k)'
                                            => phase'[k] \in {"idle", "draining"}
                    /\ Len(todo') <= 1 => \A k \in Cards : phase'[k] # "counting"
  BY SdkFrame DEF StopInv
<1>1. /\ Advance /\ todo' = Tail(todo) /\ todo # <<>> /\ Len(todo') = Len(todo) - 1
      /\ Len(todo) \in 1 .. 3
  <2>1. Advance /\ todo' = Tail(todo) /\ todo # <<>> /\ OpsOK(todo)
    BY SdkFrame
  <2> QED
    BY <2>1, Remaining, StopNow
<1>2. m_card' = m_card
  BY KeepsOrWalks DEF Walking
<1>3. CASE Len(todo) = 3
  <2>1. Now.f = "histogram_stop" /\ RunHistogram
    <3>1. Now.f = "histogram_stop"
      BY <1>3, StopNow
    <3> QED
      BY <3>1
      DEF SdkStep, RunPlain, RunGetGeneration, RunClocks, RunRestoreSettings,
          RunSaveSettings, RunChannelSetting, RunCardSetting, RunSetRunFlags,
          RunSetRunFlagsFails, RunGetRunFlags, RunGetChanCont, RunSetChanCont,
          RunGetDataSource, RunReadFails, RunFormat, RunPlaybackLoad, RunClear,
          RunPoll, Run
  <2>2. PICK done \in SUBSET Selected :
           /\ phase' = [k \in Cards |-> IF k \in done THEN PhaseAfter(Now.f, phase[k])
                                                      ELSE phase[k]]
           /\ Ends(done = Selected)
    BY <2>1 DEF RunHistogram
  <2>3. done = Selected
    BY <2>2 DEF Ends, Fail
  <2>4. \A k \in Cards : StopSelects(k)' => k \in Selected
    BY DEF StopSelects, Selected
  <2>5. \A p : PhaseAfter("histogram_stop", p) \in {"idle", "draining"}
    BY DEF PhaseAfter
  <2>6. ASSUME NEW k \in Cards, StopSelects(k)'
        PROVE  phase'[k] \in {"idle", "draining"}
    <3>1. k \in done
      BY <2>3, <2>4, <2>6
    <3>2. phase'[k] = PhaseAfter("histogram_stop", phase[k])
      <4>1. phase' = [j \in Cards |-> IF j \in done THEN PhaseAfter(Now.f, phase[j])
                                                    ELSE phase[j]]
        BY <2>2
      <4> QED
        BY <2>1, <3>1, <4>1, Zenon
    <3>3. PhaseAfter("histogram_stop", phase[k]) \in {"idle", "draining"}
      BY <2>5
    <3> QED
      BY <3>2, <3>3
  <2>7. ~(Len(todo') <= 1)
    <3>1. Len(todo') = 3 - 1
      BY <1>1, <1>3, Zenon
    <3> QED
      BY <3>1
  <2> QED
    BY <2>6, <2>7
<1>4. CASE Len(todo) # 3
  <2>1. RunPoll
    <3>1. Now.f = "is_any_busy"
      BY <1>4, StopNow
    <3> QED
      BY <3>1
      DEF SdkStep, RunPlain, RunGetGeneration, RunClocks, RunRestoreSettings,
          RunSaveSettings, RunChannelSetting, RunCardSetting, RunSetRunFlags,
          RunSetRunFlagsFails, RunGetRunFlags, RunGetChanCont, RunSetChanCont,
          RunGetDataSource, RunReadFails, RunFormat, RunPlaybackLoad, RunClear,
          RunHistogram, NewRuns, Run
  <2>2. phase' = phase /\ \A k \in Cards : phase[k] # "counting"
    BY <2>1 DEF RunPoll
  <2>3. Len(todo) <= 2
    BY <1>1, <1>4
  <2>4. outcome = "running"
    BY <1>1 DEF ControlInv, Progress
  <2>5. \A k \in Cards : StopSelects(k) => phase[k] \in {"idle", "draining"}
    BY <2>3, <2>4 DEF StopInv
  <2> QED
    BY <1>2, <2>2, <2>5 DEF StopSelects
<1> QED
  BY <1>3, <1>4

(* Nothing polls but stop, and when it does it has stopped its cards.      *)
LEMMA StopGives == CallInv => StopReaches
<1> SUFFICES ASSUME CallInv PROVE StopReaches
  OBVIOUS
<1>1. ASSUME CallReturned("stop")
      PROVE  /\ \A k \in Cards : StopSelects(k) => phase[k] \in {"idle", "draining"}
             /\ \A k \in Cards : phase[k] # "counting"
  <2>1. todo = <<>> /\ call.name = "stop" /\ outcome # "failed"
    BY <1>1 DEF CallInv, ControlInv, Progress, CallReturned
  <2>2. Len(todo) <= 2 /\ Len(todo) <= 1
    BY <2>1
  <2> QED
    BY <2>1, <2>2 DEF CallInv, StopInv
<1>2. ASSUME todo # <<>>, Now.f = "is_any_busy"
      PROVE  \A k \in Cards : StopSelects(k) => phase[k] \in {"idle", "draining"}
  <2>1. Now = todo[1] /\ 1 \in 1 .. Len(todo) /\ Len(todo) \in Nat
    BY <1>2 DEF CallInv, ControlInv, TodoInv, OpsOK, Now
  <2>2. CASE Walking
    <3>1. Len(todo) <= InitLen /\ Now = InitOp(InitLen - Len(todo) + 1)
      BY <2>1, <2>2 DEF CallInv, Shape, InitShape
    <3>2. InitLen \in Nat
      BY InitOps
    <3>3. Len(todo) <= InitLen /\ Len(todo) >= 1
      BY <2>1, <3>1
    <3>4. InitLen - Len(todo) + 1 \in 1 .. InitLen
      BY <2>1, <3>2, <3>3
    <3> QED
      BY <1>2, <3>1, <3>4, InitOpFields
  <2>3. CASE ~Walking /\ call.name # "stop"
    BY <1>2, <2>1, <2>3 DEF CallInv, Shape, ModestShape, Modest
  <2>4. CASE call.name = "stop"
    <3>1. Len(todo) <= 3
      BY <2>1, <2>4 DEF CallInv, Shape, StopShape
    <3>2. Len(todo) = 3 => Now.f = "histogram_stop"
      BY <2>1, <2>4 DEF CallInv, Shape, StopShape, StopOp, System, Op
    <3>3. Len(todo) # 3
      BY <1>2, <3>2
    <3>4. Len(todo) <= 2
      BY <2>1, <3>1, <3>3, UpToThree
    <3>5. outcome # "failed"
      BY <1>2 DEF CallInv, ControlInv, Progress
    <3> QED
      BY <2>4, <3>4, <3>5 DEF CallInv, StopInv
  <2> QED
    BY <2>2, <2>3, <2>4
<1> QED
  BY <1>1, <1>2 DEF StopReaches

-----------------------------------------------------------------------------
(* The cards alike.                                                        *)

LEMMA CardSetStays ==
    ASSUME ControlInv, Shape, AllSelected, CardSetInv, SdkStep
    PROVE  CardSetInv'
<1> SUFFICES ASSUME ~split', RunCardSetting
             PROVE  \A j, k \in Cards : card_set'[j] = card_set'[k]
  BY SdkFrame, WhoChanges DEF CardSetInv
<1>1. Advance /\ split' = split
  BY SdkFrame
<1>2. ~Walking
  <2>1. Now.f = "program_card"
    BY DEF RunCardSetting, Run
  <2>2. ASSUME Walking PROVE FALSE
    <3>1. /\ MadeByInit + 1 \in 1 .. InitLen /\ Now = InitOp(MadeByInit + 1)
      BY <2>2, InitNow
    <3>2. \A j \in 1 .. InitLen : InitOp(j).f # "program_card"
      BY DEF InitOp, System, Default, OnCard, Op
    <3> QED
      BY <2>1, <3>1, <3>2
  <2> QED
    BY <2>2
<1>3. Selected = Cards
  BY <1>1, <1>2, SelectedIsAll
<1>4. PICK done \in SUBSET Selected :
         /\ card_set' = [k \in Cards |-> IF k \in done THEN card_set[k] \cup Now.word
                                                       ELSE card_set[k]]
         /\ Ends(done = Selected)
  BY DEF RunCardSetting
<1>5. done = Cards
  BY <1>1, <1>3, <1>4 DEF Ends, Fail
<1> QED
  BY <1>1, <1>4, <1>5 DEF CardSetInv

LEMMA ClockIs ==
    ASSUME RunClocks, Advance, ~split', split' = split
    PROVE  /\ clocks' = [k \in Cards |-> IF k \in Selected THEN Clock ELSE clocks[k]]
           /\ gen' = gen /\ Now.f = "clocks_setup"
<1>1. PICK done \in SUBSET Selected :
         /\ clocks' = [k \in Cards |-> IF k \in done THEN Clock ELSE clocks[k]]
         /\ Ends(done = Selected)
  BY DEF RunClocks
<1>2. done = Selected
  BY <1>1 DEF Ends, Fail
<1> QED
  BY <1>1, <1>2 DEF RunClocks, Run

LEMMA ClocksStay ==
    ASSUME ControlInv, Shape, AllSelected, ClocksInv, SdkStep
    PROVE  ClocksInv'
<1> SUFFICES ASSUME ~split' PROVE ClocksInv'
  BY DEF ClocksInv
<1>1. /\ Advance /\ split' = split /\ todo' = Tail(todo) /\ call' = call
      /\ todo # <<>>
      /\ m_card' = IF Now.card = Keep THEN m_card ELSE Now.card
  BY SdkFrame
<1>2. Len(todo') = Len(todo) - 1 /\ Len(todo) \in Nat \ {0}
      /\ (todo' = <<>> <=> Len(todo) = 1)
  <2>1. OpsOK(todo)
    BY SdkFrame
  <2>2. /\ Len(Tail(todo)) = Len(todo) - 1 /\ Len(todo) \in Nat \ {0}
        /\ Tail(todo) \in Seq(Ops)
    BY <1>1, <2>1, Remaining DEF OpsOK
  <2>3. Tail(todo) = <<>> <=> Len(Tail(todo)) = 0
    BY <2>2, EmptySeq
  <2> QED
    BY <1>1, <2>2, <2>3
<1>3. CASE ~Walking
  <2>1. \A j, k \in Cards : clocks[j] = clocks[k]
    BY <1>1, <1>3 DEF ClocksInv
  <2>2. CASE RunClocks
    BY <1>1, <1>3, <2>1, <2>2, ClockIs, SelectedIsAll DEF ClocksInv, Walking
  <2>3. CASE UNCHANGED clocks
    BY <1>1, <1>3, <2>1, <2>3 DEF ClocksInv, Walking
  <2> QED
    BY <2>2, <2>3, WhoChanges
<1>4. CASE Walking
  <2> DEFINE p == MadeByInit
  <2>1. /\ p \in 0 .. InitLen - 1 /\ Now = InitOp(p + 1) /\ p + 1 \in 1 .. InitLen
        /\ Len(todo) = 1 <=> p + 1 = InitLen
        /\ MadeByInit' = p + 1 /\ Walking'
    BY <1>1, <1>2, <1>4, InitNow DEF Walking
  <2>2. /\ Now.f = "clocks_setup" <=> p + 1 \in 4 .. 3 + NbCards
        /\ p + 1 \in 4 .. 3 + NbCards => Now.card = p - 3 /\ Now.word = {}
        /\ Now.f = "get_generation" <=> p = 2
        /\ p + 1 < InitLen => Now.f # "set_run_flags"
        /\ InitLen \in Nat /\ NbCards \in Nat \ {0} /\ InitLen >= 4 + NbCards
    BY <2>1, InitOpFields
  <2>3. ~(RunSetRunFlags \/ RunSetRunFlagsFails) \/ p + 1 = InitLen
    <3>1. ~(Now.f = "put_run_flags")
      BY <2>1 DEF InitOp, System, Default, OnCard, Op
    <3>2. RunSetRunFlags \/ RunSetRunFlagsFails => Now.f = "set_run_flags"
      BY <3>1 DEF RunSetRunFlags, RunSetRunFlagsFails, Run
    <3> QED
      BY <2>1, <2>2, <3>2
  <2>4. RunClocks => Now.f = "clocks_setup"
    BY DEF RunClocks, Run
  <2>5. RunGetGeneration => p = 2
    BY <2>2 DEF RunGetGeneration, Run
  <2> HIDE DEF p
  <2>6. CASE p < 3
    <3>1. UNCHANGED clocks
      BY <2>1, <2>2, <2>4, <2>6, WhoChanges
    <3>2. \A j, k \in Cards : clocks[j] = clocks[k]
      BY <1>1, <2>1, <2>6 DEF ClocksInv, p
    <3>3. ~(MadeByInit' > 3)
      BY <2>1, <2>6
    <3> QED
      BY <3>1, <3>2, <3>3 DEF ClocksInv
  <2>7. CASE p >= 3 /\ p < 3 + NbCards
    <3>1. UNCHANGED gen /\ p + 1 < InitLen
      BY <2>1, <2>2, <2>3, <2>5, <2>7, WhoChanges
    <3>2. InitClock' = InitClock
      BY <3>1 DEF InitClock, ClockSource
    <3>3. Now.f = "clocks_setup" /\ Now.card = p - 3 /\ Now.word = {}
      BY <2>1, <2>2, <2>7
    <3>4. RunClocks
      BY <3>3
      DEF SdkStep, RunPlain, RunGetGeneration, RunRestoreSettings,
          RunSaveSettings, RunChannelSetting, RunCardSetting, RunSetRunFlags,
          RunSetRunFlagsFails, RunGetRunFlags, RunGetChanCont, RunSetChanCont,
          RunGetDataSource, RunReadFails, RunFormat, RunPlaybackLoad, RunClear,
          RunHistogram, NewRuns, RunPoll, Run
    <3>5. Selected = {p - 3} /\ p - 3 \in Cards
      BY <1>1, <2>1, <2>2, <2>7, <3>3 DEF Selected, Keep, Cards
    <3>6. Clock = InitClock
      BY <3>3 DEF Clock, InitClock
    <3>7. clocks' = [k \in Cards |-> IF k \in {p - 3} THEN InitClock ELSE clocks[k]]
      BY <1>1, <3>4, <3>5, <3>6, ClockIs
    <3>8. \A k \in Cards : k < p - 3 => clocks[k] = InitClock
      <4>1. CASE p = 3
        BY <4>1, ControlAssumption DEF Cards
      <4>2. CASE p > 3
        BY <1>1, <1>4, <2>7, <4>2 DEF ClocksInv, p
      <4> QED
        BY <2>1, <2>7, <4>1, <4>2
    <3>9. \A k \in Cards : k < p + 1 - 3 => clocks'[k] = InitClock
      BY <2>1, <2>2, <3>7, <3>8, ControlAssumption DEF Cards
    <3>10. todo' # <<>> /\ MadeByInit' > 3
      BY <1>2, <2>1, <2>7, <3>1
    <3> QED
      BY <2>1, <3>2, <3>9, <3>10 DEF ClocksInv
  <2>8. CASE p >= 3 + NbCards
    <3>1. UNCHANGED clocks
      BY <2>1, <2>2, <2>4, <2>8, WhoChanges
    <3>2. \A k \in Cards : clocks[k] = InitClock
      <4>1. \A k \in Cards : k < p - 3
        BY <2>1, <2>2, <2>8 DEF Cards
      <4>2. p > 3
        BY <2>1, <2>2, <2>8
      <4> QED
        BY <1>1, <1>4, <4>1, <4>2 DEF ClocksInv, p
    <3>3. CASE p + 1 = InitLen
      BY <1>2, <2>1, <3>1, <3>2, <3>3 DEF ClocksInv
    <3>4. CASE p + 1 # InitLen
      <4>1. UNCHANGED gen
        BY <2>2, <2>3, <2>5, <2>8, <3>4, WhoChanges
      <4>2. InitClock' = InitClock
        BY <4>1 DEF InitClock, ClockSource
      <4> QED
        BY <3>1, <3>2, <4>2 DEF ClocksInv
    <3> QED
      BY <3>3, <3>4
  <2> QED
    BY <2>1, <2>2, <2>6, <2>7, <2>8
<1> QED
  BY <1>3, <1>4

-----------------------------------------------------------------------------
(* init.                                                                   *)

LEMMA SettingsStay ==
    ASSUME SettingsAre, SdkStep PROVE SettingsAre'
<1>1. chan_set' = [c \in Chans |-> chan_set'[c]]
  <2>1. CASE RunChannelSetting
    BY <2>1 DEF RunChannelSetting
  <2>2. CASE RunRestoreSettings
    BY <2>2 DEF RunRestoreSettings
  <2>3. CASE UNCHANGED chan_set
    BY <2>3 DEF SettingsAre
  <2> QED
    BY <2>1, <2>2, <2>3, WhoChanges
<1>2. saved'.set = [c \in Chans |-> saved'.set[c]]
  BY WhoChanges DEF RunSaveSettings, SettingsAre
<1> QED
  BY <1>1, <1>2 DEF SettingsAre

LEMMA InitStays ==
    ASSUME ControlInv, Shape, AllSelected, InitInv, SettingsAre, SdkStep
    PROVE  InitInv'
<1> SUFFICES ASSUME Walking, outcome' \in {"running", "ok"}
             PROVE  /\ HasSettings /\ Len(todo') <= 1 =>
                          /\ cont' = saved'.cont /\ format' = saved'.format
                          /\ chan_set' = saved'.set
                    /\ outcome' = "ok" =>
                          /\ m_card' = AllCards /\ m_status' = "Idle"
                          /\ run_flags' = DefaultMode
  BY SdkFrame DEF InitInv, Walking
<1>1. /\ Advance /\ todo' = Tail(todo) /\ call' = call /\ outcome = "running"
      /\ outcome' = (IF Len(todo) = 1 THEN "ok" ELSE "running")
      /\ m_card' = IF Now.card = Keep THEN m_card ELSE Now.card
  BY SdkFrame DEF ControlInv, Progress
<1>2. Len(todo') = Len(todo) - 1 /\ Len(todo) \in Nat \ {0}
  BY <1>1, SdkFrame, Remaining
<1> DEFINE p == MadeByInit
<1>3. /\ p \in 0 .. InitLen - 1 /\ Now = InitOp(p + 1) /\ p + 1 \in 1 .. InitLen
      /\ Len(todo) = 1 <=> p + 1 = InitLen
      /\ InitLen \in Nat /\ p = InitLen - Len(todo)
  BY <1>1, <1>2, InitNow, InitOps DEF MadeByInit
<1>4. outcome' = "ok" => /\ m_card' = AllCards /\ m_status' = "Idle"
                         /\ run_flags' = DefaultMode
  <2> SUFFICES ASSUME Len(todo) = 1
               PROVE  /\ m_card' = AllCards /\ m_status' = "Idle"
                      /\ run_flags' = DefaultMode
    BY <1>1
  <2>1. /\ Now.f = "set_run_flags" /\ Now.card = AllCards /\ Now.word = DefaultMode
    BY <1>3, InitOpFields
  <2>2. RunSetRunFlags \/ RunSetRunFlagsFails
    BY <2>1
    DEF SdkStep, RunPlain, RunGetGeneration, RunClocks, RunRestoreSettings,
        RunSaveSettings, RunChannelSetting, RunCardSetting, RunGetRunFlags,
        RunGetChanCont, RunSetChanCont, RunGetDataSource, RunReadFails, RunFormat,
        RunPlaybackLoad, RunClear, RunHistogram, NewRuns, RunPoll, Run
  <2>3. RunSetRunFlags
    BY <1>1, <2>2 DEF RunSetRunFlagsFails, Fail
  <2>4. run_flags' = DefaultMode
    BY <2>1, <2>3 DEF RunSetRunFlags, Run
  <2>5. m_status' = "Idle"
    BY <1>1, <2>1 DEF Advance, StatusAfter, Walking
  <2> QED
    BY <1>1, <2>1, <2>4, <2>5, Numbers
<1>5. ASSUME HasSettings, Len(todo') <= 1
      PROVE  /\ cont' = saved'.cont /\ format' = saved'.format
             /\ chan_set' = saved'.set
  <2>1. saved' = saved
    <3>1. ~RunSaveSettings
      <4>1. \A j \in 1 .. InitLen : InitOp(j).f # "save_settings"
        BY DEF InitOp, System, Default, OnCard, Op
      <4> QED
        BY <1>3, <4>1 DEF RunSaveSettings, Run
    <3> QED
      BY <3>1, WhoChanges
  <2>2. CASE Len(todo) = 1
    <3>1. Now.f = "set_run_flags"
      BY <1>3, <2>2, InitOpFields
    <3>2. cont' = cont /\ format' = format /\ chan_set' = chan_set
      BY <3>1, WhoChanges
      DEF RunSetChanCont, RunRestoreSettings, RunFormat, RunChannelSetting, Run
    <3>3. cont = saved.cont /\ format = saved.format /\ chan_set = saved.set
      BY <1>1, <1>5, <2>2 DEF InitInv
    <3> QED
      BY <2>1, <3>2, <3>3
  <2>3. CASE Len(todo) # 1
    <3>1. Len(todo) = 2
      <4>1. \A n \in Nat : n # 0 /\ n # 1 /\ n - 1 <= 1 => n = 2
        OBVIOUS
      <4> QED
        BY <1>2, <1>5, <2>3, <4>1
    <3>2. p + 1 = InitLen - 1 /\ p + 1 > 3 + NbCards
      <4>1. p = InitLen - 2
        BY <1>3, <3>1
      <4>2. InitLen = 5 + NbCards /\ NbCards \in Nat
        BY <1>3, <1>5, InitOpFields
      <4> HIDE DEF p
      <4> QED
        BY <4>1, <4>2
    <3>3. Now.f = "restore_settings"
      <4>1. p + 1 < InitLen
        BY <1>3, <3>2
      <4> QED
        BY <1>3, <3>2, <4>1, InitOpFields
    <3>4. RunRestoreSettings
      BY <3>3
      DEF SdkStep, RunPlain, RunGetGeneration, RunClocks, RunSetRunFlags,
          RunSetRunFlagsFails,
          RunSaveSettings, RunChannelSetting, RunCardSetting, RunGetRunFlags,
          RunGetChanCont, RunSetChanCont, RunGetDataSource, RunReadFails, RunFormat,
          RunPlaybackLoad, RunClear, RunHistogram, NewRuns, RunPoll, Run
    <3>5. PICK done \in SUBSET Chans :
             /\ cont' = [c \in Chans |-> IF c \in done THEN saved.cont[c] ELSE cont[c]]
             /\ format' = [c \in Chans |->
                              IF c \in done THEN saved.format[c] ELSE format[c]]
             /\ chan_set' = [c \in Chans |->
                                IF c \in done THEN saved.set[c] ELSE chan_set[c]]
             /\ Ends(done = Chans)
      BY <3>4 DEF RunRestoreSettings
    <3>6. done = Chans
      BY <1>1, <3>5 DEF Ends, Fail
    <3>7. /\ saved.cont = [c \in Chans |-> saved.cont[c]]
          /\ saved.format = [c \in Chans |-> saved.format[c]]
          /\ saved.set = [c \in Chans |-> saved.set[c]]
      BY DEF ControlInv, Contents, SettingsAre
    <3>8. /\ cont' = [c \in Chans |-> saved.cont[c]]
          /\ format' = [c \in Chans |-> saved.format[c]]
          /\ chan_set' = [c \in Chans |-> saved.set[c]]
      BY <3>5, <3>6
    <3> QED
      BY <2>1, <3>7, <3>8
  <2> QED
    BY <2>2, <2>3
<1> QED
  BY <1>4, <1>5

-----------------------------------------------------------------------------
(* loadPlayback.                                                           *)

LEMMA UpToFour ==
    \A n \in Nat : /\ n > 0 /\ n <= 4 => n \in {1, 2, 3, 4}
                   /\ n = 4 => 4 - n + 1 = 1
                   /\ n = 3 => 4 - n + 1 = 2
                   /\ n = 2 => 4 - n + 1 = 3
                   /\ n = 1 => 4 - n + 1 = 4
OBVIOUS

LEMMA PlayNow ==
    ASSUME ControlInv, Shape, SdkStep, call.name = "loadPlayback"
    PROVE  /\ Len(todo) \in {1, 2, 3, 4}
           /\ Len(todo) = 4 => Now = PlayOp(1)
           /\ Len(todo) = 3 => Now = PlayOp(2)
           /\ Len(todo) = 2 => Now = PlayOp(3)
           /\ Len(todo) = 1 => Now = PlayOp(4)
<1>1. Len(todo) \in Nat \ {0} /\ Now = todo[1] /\ 1 \in 1 .. Len(todo)
  BY TailOf, SdkFrame
<1>2. todo[1] = PlayOp(4 - Len(todo) + 1)
  BY <1>1 DEF Shape, PlayShape
<1>3. Len(todo) \in {1, 2, 3, 4}
  <2>1. Len(todo) <= 4
    BY DEF Shape, PlayShape
  <2>2. Len(todo) \in Nat /\ Len(todo) > 0
    BY <1>1
  <2> QED
    BY <2>1, <2>2, UpToFour
<1> QED
  BY <1>1, <1>2, <1>3, UpToFour

LEMMA FirstCard == CardOf(0) \in Cards /\ AllCards # CardOf(0)
<1>1. CardOf(0) = 0
  BY ControlAssumption DEF CardOf
<1> QED
  BY <1>1, Numbers

LEMMA PlayStays ==
    ASSUME ControlInv, Shape, AllSelected, PlayInv, SdkStep
    PROVE  PlayInv'
<1> SUFFICES ASSUME call.name = "loadPlayback", outcome' \in {"running", "ok"}
             PROVE  /\ Len(todo') <= 3 /\ m_card' \in {AllCards, CardOf(0)} =>
                          player'[CardOf(0)] # "none"
                    /\ Len(todo') <= 2 => Playback \subseteq run_flags'
                    /\ outcome' = "ok" =>
                          cont'[0] \cap SelData = SourceBits("PlaybackStream0")
  BY SdkFrame DEF PlayInv
<1>1. /\ Advance /\ todo' = Tail(todo) /\ call' = call /\ outcome = "running"
      /\ outcome' = (IF Len(todo) = 1 THEN "ok" ELSE "running")
  BY SdkFrame DEF ControlInv, Progress
<1>2. Len(todo') = Len(todo) - 1 /\ Len(todo) \in Nat \ {0} /\ Len(todo) <= 4
  BY <1>1, SdkFrame, Remaining DEF Shape, PlayShape
<1>3. m_card' = m_card
  BY KeepsOrWalks DEF Walking
<1>4. CASE Len(todo) = 4
  <2>1. Now.f = "playback_load"
    BY <1>4, PlayNow DEF PlayOp, System, Op
  <2>2. RunPlaybackLoad
    BY <2>1
    DEF SdkStep, RunPlain, RunGetGeneration, RunClocks, RunRestoreSettings,
        RunSetRunFlags, RunSetRunFlagsFails,
        RunSaveSettings, RunChannelSetting, RunCardSetting, RunGetRunFlags,
        RunGetChanCont, RunSetChanCont, RunGetDataSource, RunReadFails, RunFormat,
        RunClear, RunHistogram, NewRuns, RunPoll, Run
  <2>3. PICK done \in SUBSET Selected, unpacked \in {"meant", "other"} :
           /\ player' = [k \in Cards |-> IF k \in done THEN unpacked ELSE player[k]]
           /\ Ends(done = Selected)
    BY <2>2 DEF RunPlaybackLoad
  <2>4. done = Selected
    BY <1>1, <2>3 DEF Ends, Fail
  <2>5. m_card' \in {AllCards, CardOf(0)} => CardOf(0) \in Selected
    BY FirstCard, Numbers DEF Selected, AllCards
  <2>6. ~(Len(todo') <= 2) /\ outcome' # "ok"
    <3>1. Len(todo') = 3 /\ Len(todo) # 1
      BY <1>2, <1>4
    <3>2. ~(Len(todo') <= 2)
      BY <3>1
    <3> QED
      BY <1>1, <3>1, <3>2
  <2> QED
    BY <2>3, <2>4, <2>5, <2>6, FirstCard
<1>5. CASE Len(todo) = 3
  <2>1. Now.f = "set_run_flags" /\ Now.word = DefaultMode \cup Playback
    BY <1>5, PlayNow DEF PlayOp, Op
  <2>2. RunSetRunFlags \/ RunSetRunFlagsFails
    BY <2>1
    DEF SdkStep, RunPlain, RunGetGeneration, RunClocks, RunRestoreSettings,
        RunPlaybackLoad,
        RunSaveSettings, RunChannelSetting, RunCardSetting, RunGetRunFlags,
        RunGetChanCont, RunSetChanCont, RunGetDataSource, RunReadFails, RunFormat,
        RunClear, RunHistogram, NewRuns, RunPoll, Run
  <2>3. RunSetRunFlags
    BY <1>1, <2>2 DEF RunSetRunFlagsFails, Fail
  <2>4. run_flags' = DefaultMode \cup Playback /\ player' = player
    BY <2>1, <2>3 DEF RunSetRunFlags, Run, setVars
  <2>5. m_card \in {AllCards, CardOf(0)} => player[CardOf(0)] # "none"
    BY <1>1, <1>5 DEF PlayInv
  <2>6. outcome' # "ok"
    BY <1>1, <1>5
  <2> QED
    BY <1>3, <2>4, <2>5, <2>6
<1>6. CASE Len(todo) = 2
  <2>1. Now.f = "get_chan_cont"
    BY <1>6, PlayNow DEF PlayOp, OnChan, Op
  <2>2. run_flags' = run_flags /\ player' = player
    BY <2>1, WhoChanges
    DEF RunSetRunFlags, RunSetRunFlagsFails, RunPlaybackLoad, Run
  <2>3. /\ m_card \in {AllCards, CardOf(0)} => player[CardOf(0)] # "none"
        /\ Playback \subseteq run_flags
    BY <1>1, <1>6 DEF PlayInv
  <2>4. outcome' # "ok"
    BY <1>1, <1>6
  <2> QED
    BY <1>3, <2>2, <2>3, <2>4
<1>7. CASE Len(todo) = 1
  <2>1. /\ Now.f = "set_chan_cont" /\ Now.chan = 0
        /\ Now.word = SourceBits("PlaybackStream0")
    BY <1>7, PlayNow DEF PlayOp, Op
  <2>2. run_flags' = run_flags /\ player' = player
    BY <2>1, WhoChanges
    DEF RunSetRunFlags, RunSetRunFlagsFails, RunPlaybackLoad, Run
  <2>3. /\ m_card \in {AllCards, CardOf(0)} => player[CardOf(0)] # "none"
        /\ Playback \subseteq run_flags
    BY <1>1, <1>7 DEF PlayInv
  <2>4. RunSetChanCont
    BY <2>1
    DEF SdkStep, RunPlain, RunGetGeneration, RunClocks, RunRestoreSettings,
        RunSetRunFlags, RunSetRunFlagsFails, RunPlaybackLoad,
        RunSaveSettings, RunChannelSetting, RunCardSetting, RunGetRunFlags,
        RunGetChanCont, RunGetDataSource, RunReadFails, RunFormat,
        RunClear, RunHistogram, NewRuns, RunPoll, Run
  <2>5. cont' = [cont EXCEPT ![Now.chan] = Merge(SelData)]
    BY <1>1, <2>4 DEF RunSetChanCont, Fail
  <2>6. cont'[0] = Merge(SelData)
    BY <2>1, <2>5, Numbers DEF ControlInv, Contents
  <2>7. SourceBits("PlaybackStream0") \subseteq SelData
    BY EncodeInField DEF SourceBits
  <2>8. Merge(SelData) \cap SelData = SourceBits("PlaybackStream0")
    BY <2>1, <2>7 DEF Merge
  <2> QED
    BY <1>3, <2>2, <2>3, <2>6, <2>8
<1> QED
  BY <1>4, <1>5, <1>6, <1>7, PlayNow

-----------------------------------------------------------------------------
(* What was set is what is read.                                           *)

LEMMA UnknownIsNone ==
    /\ Unknown \notin Sources
    /\ \A w : w \subseteq 0 .. 3 => w # Unknown
<1>1. -1 \notin 0 .. 3 /\ 0 .. 2 \subseteq 0 .. 3
  OBVIOUS
<1>2. \A w : w \subseteq 0 .. 3 => w # Unknown
  BY <1>1 DEF Unknown
<1> QED
  BY <1>1, <1>2, SourcesInField

LEMMA AskedStays ==
    ASSUME ControlInv, Shape, AskedInv, SdkStep
    PROVE  AskedInv'
<1>0. /\ todo # <<>> /\ Now = todo[1] /\ 1 \in 1 .. Len(todo) /\ call' = call
      /\ outcome = "running"
  BY SdkFrame DEF ControlInv, Progress
<1>1. asked_mode' \in {run_flags', Unknown}
  <2>1. CASE RunSetRunFlagsFails
    BY <2>1 DEF RunSetRunFlagsFails
  <2>2. CASE RunSetRunFlags /\ Now.f = "set_run_flags"
    BY <2>2 DEF RunSetRunFlags, Run
  <2>3. CASE RunSetRunFlags /\ Now.f = "put_run_flags"
    <3>1. reg = run_flags
      BY <1>0, <2>3, OpenWord DEF ControlInv, IsWrite, Loaded
    <3>2. run_flags' = (run_flags \ Playback) \cup Now.word
      BY <2>3, <3>1 DEF RunSetRunFlags, Run, Merge
    <3>3. asked_mode' = IF asked_mode = Unknown THEN Unknown
                        ELSE (asked_mode \ Playback) \cup Now.word
      BY <2>3 DEF RunSetRunFlags, Run
    <3> QED
      BY <3>2, <3>3 DEF AskedInv
  <2>4. CASE UNCHANGED <<run_flags, asked_mode>>
    BY <2>4 DEF AskedInv
  <2> QED
    BY <2>1, <2>2, <2>3, <2>4, WhoChanges DEF RunSetRunFlags, Run
<1>2. /\ asked' \in [Chans -> Sources \cup {Unknown}]
      /\ \A c \in Chans : asked'[c] \in {cont'[c] \cap SelData, Unknown}
  <2>1. CASE RunRestoreSettings
    <3>1. PICK done \in SUBSET Chans :
             /\ cont' = [c \in Chans |-> IF c \in done THEN saved.cont[c] ELSE cont[c]]
             /\ asked' = [c \in Chans |-> IF c \in done THEN Unknown ELSE asked[c]]
      BY <2>1 DEF RunRestoreSettings, Unasked
    <3> QED
      BY <3>1 DEF AskedInv
  <2>2. CASE RunSetChanCont
    <3>1. /\ Now.chan \in Chans /\ Now.word \in Sources
      <4>1. ArgsOK(Now)
        BY <1>0 DEF ControlInv, TodoInv, OpsOK
      <4> QED
        BY <2>2, <4>1 DEF ArgsOK, RunSetChanCont, Run
    <3>2. \/ /\ cont' = [cont EXCEPT ![Now.chan] = Merge(SelData)]
             /\ asked' = [asked EXCEPT ![Now.chan] = Now.word]
          \/ /\ cont' = cont \/ cont' = [cont EXCEPT ![Now.chan] = Merge(SelData)]
             /\ asked' = [c \in Chans |-> IF c \in {Now.chan} THEN Unknown
                                          ELSE asked[c]]
      BY <2>2 DEF RunSetChanCont, Unasked
    <3>3. Merge(SelData) \cap SelData = Now.word
      <4>1. Now.word \subseteq SelData
        BY <3>1, EncodeInField DEF Sources, SourceBits
      <4> QED
        BY <4>1 DEF Merge
    <3>4. /\ cont \in [Chans -> SUBSET (0 .. 31)]
          /\ asked \in [Chans -> Sources \cup {Unknown}]
          /\ \A c \in Chans : asked[c] \in {cont[c] \cap SelData, Unknown}
      BY DEF AskedInv, ControlInv, Contents
    <3>5. CASE /\ cont' = [cont EXCEPT ![Now.chan] = Merge(SelData)]
               /\ asked' = [asked EXCEPT ![Now.chan] = Now.word]
      BY <3>1, <3>3, <3>4, <3>5
    <3>6. CASE /\ cont' = cont \/ cont' = [cont EXCEPT ![Now.chan] = Merge(SelData)]
               /\ asked' = [c \in Chans |-> IF c \in {Now.chan} THEN Unknown
                                            ELSE asked[c]]
      BY <3>1, <3>4, <3>6
    <3> QED
      BY <3>2, <3>5, <3>6
  <2>3. CASE UNCHANGED <<cont, asked>>
    BY <2>3 DEF AskedInv
  <2> QED
    BY <2>1, <2>2, <2>3, WhoChanges
<1>3. CallReturned("getDataSource")' =>
         call'.chan \in Chans /\ asked'[call'.chan] \in {answer', Unknown}
  <2> SUFFICES ASSUME call.name = "getDataSource", outcome' = "ok"
               PROVE  call.chan \in Chans /\ asked'[call.chan] \in {answer', Unknown}
    BY <1>0 DEF CallReturned
  <2>1. Now = OnChan("get_data_source", call.chan)
        /\ call.chan \in Chans \cup {AllChans}
    BY <1>0 DEF Shape, AskShape
  <2>2. Now.f = "get_data_source" /\ Now.chan = call.chan
    BY <2>1 DEF OnChan, Op
  <2>3. RunGetDataSource
    BY <2>2
    DEF SdkStep, RunPlain, RunGetGeneration, RunClocks, RunRestoreSettings,
        RunSetRunFlags, RunSetRunFlagsFails, RunPlaybackLoad,
        RunSaveSettings, RunChannelSetting, RunCardSetting, RunGetRunFlags,
        RunGetChanCont, RunSetChanCont, RunReadFails, RunFormat,
        RunClear, RunHistogram, NewRuns, RunPoll, Run
  <2>4. /\ Now.chan >= 0 /\ asked' = asked
        /\ answer' \in LET word == cont[Now.chan] \cap SelData
                           sources == {SourceBits(src) : src \in DOMAIN DataSrc}
                       IN  IF word \in sources THEN {word} ELSE sources
    BY <2>3 DEF RunGetDataSource, Fail, askedVars
  <2>5. call.chan \in Chans
    BY <2>1, <2>2, <2>4 DEF AllChans
  <2>6. cont[call.chan] \cap SelData \in Sources => answer' = cont[call.chan] \cap SelData
    BY <2>2, <2>4 DEF Sources
  <2>7. /\ asked[call.chan] \in {cont[call.chan] \cap SelData, Unknown}
        /\ asked[call.chan] \in Sources \cup {Unknown}
    BY <2>5 DEF AskedInv
  <2> QED
    BY <2>4, <2>5, <2>6, <2>7
<1>4. CallReturned("getRunMode")' => answer' = run_flags'
  <2> SUFFICES ASSUME call.name = "getRunMode", outcome' = "ok"
               PROVE  answer' = run_flags'
    BY <1>0 DEF CallReturned
  <2>1. Now.f = "get_run_mode"
    BY <1>0 DEF Shape, AskShape, System, Op
  <2>2. RunGetRunFlags
    <3>1. RunGetRunFlags \/ RunReadFails
      BY <2>1
      DEF SdkStep, RunPlain, RunGetGeneration, RunClocks, RunRestoreSettings,
          RunSetRunFlags, RunSetRunFlagsFails, RunPlaybackLoad,
          RunSaveSettings, RunChannelSetting, RunCardSetting,
          RunGetChanCont, RunSetChanCont, RunGetDataSource, RunFormat,
          RunClear, RunHistogram, NewRuns, RunPoll, Run
    <3> QED
      BY <3>1 DEF RunReadFails, Fail
  <2>3. answer' = run_flags \cap (0 .. 3) /\ run_flags' = run_flags
    BY <2>1, <2>2 DEF RunGetRunFlags, Run, wordVars
  <2>4. run_flags \subseteq 0 .. 3
    BY FlagsInRange
  <2> QED
    BY <2>3, <2>4
<1> QED
  BY <1>1, <1>2, <1>3, <1>4 DEF AskedInv

-----------------------------------------------------------------------------
(* The invariant holds in every state.                                     *)

LEMMA CallInvInit == Init => CallInv
<1> SUFFICES ASSUME Init PROVE CallInv
  OBVIOUS
<1>1. ControlInv
  BY InitHolds
<1>2. /\ call.name = "Camera" /\ Walking /\ outcome = "running" /\ todo = InitCalls
      /\ Len(todo) = InitLen /\ InitLen \in Nat /\ todo # <<>> /\ InitLen >= 5
  <2>1. InitLen \in Nat /\ InitLen >= 5
    BY InitOps, ControlAssumption DEF InitLen
  <2>2. InitCalls # <<>>
    BY <2>1, InitOps
  <2> QED
    BY <2>1, <2>2, InitOps DEF Init, Walking
<1>3. Shape
  <2>1. \A i \in 1 .. InitLen : InitLen - InitLen + i = i
    BY <1>2
  <2> QED
    BY <1>2, <2>1, InitOps
    DEF Shape, InitShape, StopShape, PlayShape, AskShape, ModestShape
<1>4. AllSelected /\ StopInv /\ CardSetInv
  BY <1>2 DEF Init, AllSelected, StopInv, CardSetInv
<1>5. ClocksInv
  <2>1. MadeByInit = 0
    BY <1>2 DEF MadeByInit
  <2> QED
    BY <2>1 DEF Init, ClocksInv
<1>6. InitInv /\ PlayInv
  <2>1. ~(Len(todo) <= 1)
    BY <1>2
  <2> QED
    BY <1>2, <2>1 DEF InitInv, PlayInv
<1>7. AskedInv /\ SettingsAre
  BY <1>2 DEF Init, AskedInv, CallReturned, SettingsAre
<1> QED
  BY <1>1, <1>3, <1>4, <1>5, <1>6, <1>7 DEF CallInv

(* A call begins with nothing made.                                        *)
LEMMA CallInvBegins == CallInv /\ CameraCall => CallInv'
<1> SUFFICES ASSUME CallInv, CameraCall PROVE CallInv'
  OBVIOUS
<1>1. ControlInv' /\ CallFrame
  BY CameraCallHolds, CallFrames DEF CallInv
<1> USE DEF CallFrame
<1>2. Shape'
  BY <1>1
<1>a. ~split' => ~split /\ (m_card' = m_card \/ m_card' = AllCards)
  <2>1. split \in BOOLEAN
    BY DEF CallInv, ControlInv, Progress
  <2>2. CASE m_card' = m_card /\ split' = split
    BY <2>2
  <2>3. CASE split' = (split \/ m_card' # AllCards)
    BY <2>1, <2>3
  <2> QED
    BY <1>1, <2>2, <2>3
<1>3. AllSelected'
  <2>1. todo = <<>>
    BY <1>1
  <2> QED
    BY <1>a, <2>1 DEF CallInv, AllSelected
<1>4. StopInv'
  <2> SUFFICES ASSUME call'.name = "stop" PROVE StopInv'
    BY DEF StopInv
  <2>1. outcome' = "running" /\ Len(todo') = 3
    BY <1>1 DEF Named
  <2>2. ~(Len(todo') <= 2)
    BY <2>1
  <2> QED
    BY <2>1, <2>2 DEF StopInv
<1>5. CardSetInv'
  BY <1>1, <1>a DEF CallInv, CardSetInv
<1>6. ClocksInv'
  <2> SUFFICES ASSUME ~split' PROVE ClocksInv'
    BY DEF ClocksInv
  <2>1. \A j, k \in Cards : clocks'[j] = clocks'[k]
    <3>1. todo = <<>> /\ clocks' = clocks
      BY <1>1
    <3> QED
      BY <1>a, <3>1 DEF CallInv, ClocksInv
  <2>2. Walking' => ~(MadeByInit' > 3)
    <3>1. MadeByInit' = InitLen - Len(todo') /\ InitLen \in Nat
      BY InitOps DEF MadeByInit, InitLen
    <3> QED
      BY <1>1, <3>1 DEF Walking
  <2> QED
    BY <2>1, <2>2 DEF ClocksInv
<1>7. InitInv'
  <2> SUFFICES ASSUME Walking' PROVE InitInv'
    BY DEF InitInv
  <2>1. outcome' = "running" /\ Len(todo') = InitLen
    BY <1>1 DEF Walking, Named
  <2>2. InitLen \in Nat /\ InitLen >= 5
    BY InitOps, ControlAssumption DEF InitLen
  <2>3. ~(Len(todo') <= 1)
    BY <2>1, <2>2
  <2> QED
    BY <2>1, <2>3 DEF InitInv
<1>8. PlayInv'
  <2> SUFFICES ASSUME call'.name = "loadPlayback" PROVE PlayInv'
    BY DEF PlayInv
  <2>1. outcome' = "running" /\ Len(todo') = 4
    BY <1>1 DEF Named
  <2>2. ~(Len(todo') <= 3) /\ ~(Len(todo') <= 2)
    BY <2>1
  <2> QED
    BY <2>1, <2>2 DEF PlayInv
<1>9. AskedInv'
  BY <1>1 DEF CallInv, AskedInv, CallReturned, Named
<1>10. SettingsAre'
  BY <1>1 DEF CallInv, SettingsAre
<1> QED
  BY <1>1, <1>2, <1>3, <1>4, <1>5, <1>6, <1>7, <1>8, <1>9, <1>10 DEF CallInv

LEMMA CallInvSdk == CallInv /\ SdkStep => CallInv'
BY SdkStepHolds, ShapeStays, AllSelectedStays, StopStays, ClocksStay, CardSetStays,
   InitStays, PlayStays, AskedStays, SettingsStay
DEF CallInv

(* What the detector leaves alone is all the invariant speaks of, but the  *)
(* phases, which it only ends.                                             *)
LEMMA CallInvCounts == CallInv /\ Detector => CallInv'
<1> SUFFICES ASSUME CallInv, Detector PROVE CallInv'
  OBVIOUS
<1>1. ControlInv'
  BY DetectorHolds DEF CallInv
<1>2. /\ UNCHANGED <<m_card, m_status, gen, run_flags, cont, format, chan_set,
                     card_set, clocks, player, saved, answer, asked, asked_mode,
                     todo, call, outcome, split>>
      /\ \A k \in Cards : phase'[k] \in {phase[k], "idle"}
  BY DetectorFrame DEF CallInv
<1>3. Shape'
  BY <1>2 DEF CallInv, Shape, InitShape, StopShape, PlayShape, AskShape,
              ModestShape, Modest, Walking
<1>4. AllSelected' /\ CardSetInv' /\ SettingsAre'
  BY <1>2 DEF CallInv, AllSelected, Walking, CardSetInv, SettingsAre
<1>5. StopInv'
  BY <1>2 DEF CallInv, StopInv, StopSelects
<1>6. ClocksInv'
  <2>1. InitClock' = InitClock /\ MadeByInit' = MadeByInit
    BY <1>2 DEF InitClock, ClockSource, MadeByInit
  <2> QED
    BY <1>2, <2>1 DEF CallInv, ClocksInv, Walking
<1>7. InitInv' /\ PlayInv'
  BY <1>2 DEF CallInv, InitInv, PlayInv, Walking
<1>8. AskedInv'
  BY <1>2 DEF CallInv, AskedInv, CallReturned
<1> QED
  BY <1>1, <1>3, <1>4, <1>5, <1>6, <1>7, <1>8 DEF CallInv

(* A poll that is made again leaves all of it alone.                       *)
LEMMA CallInvIdle ==
    CallInv /\ (PollBusy \/ UNCHANGED vars) => CallInv'
<1> SUFFICES ASSUME CallInv, PollBusy \/ UNCHANGED vars PROVE CallInv'
  OBVIOUS
<1>1. ControlInv'
  BY PollBusyHolds, StutterHolds DEF CallInv
<1>2. UNCHANGED <<m_card, m_status, gen, run_flags, cont, format, chan_set, phase,
                  card_set, clocks, player, saved, answer, asked, asked_mode,
                  todo, call, outcome, split>>
  BY DEF PollBusy, vars, camVars, wordVars, setVars, countVars, askedVars, callVars
<1>3. Shape'
  BY <1>2 DEF CallInv, Shape, InitShape, StopShape, PlayShape, AskShape,
              ModestShape, Modest, Walking
<1>4. AllSelected' /\ CardSetInv' /\ SettingsAre' /\ StopInv'
  BY <1>2 DEF CallInv, AllSelected, Walking, CardSetInv, SettingsAre, StopInv,
              StopSelects
<1>5. ClocksInv'
  <2>1. InitClock' = InitClock /\ MadeByInit' = MadeByInit
    BY <1>2 DEF InitClock, ClockSource, MadeByInit
  <2> QED
    BY <1>2, <2>1 DEF CallInv, ClocksInv, Walking
<1>6. InitInv' /\ PlayInv' /\ AskedInv'
  BY <1>2 DEF CallInv, InitInv, PlayInv, Walking, AskedInv, CallReturned
<1> QED
  BY <1>1, <1>3, <1>4, <1>5, <1>6 DEF CallInv

LEMMA AlwaysCallInv == Spec => []CallInv
<1>1. Init => CallInv
  BY CallInvInit
<1>2. CallInv /\ [Next]_vars => CallInv'
  BY CallInvBegins, CallInvSdk, CallInvCounts, CallInvIdle DEF Next
<1> QED
  BY <1>1, <1>2, PTL DEF Spec

-----------------------------------------------------------------------------
(* StopReaches: from its first poll on, no card that stop() selects counts *)
(* or is armed or paused, and when stop() has returned no card counts at   *)
(* all, whatever was selected and whatever its polls answered.             *)
THEOREM StopReachesCards == Spec => []StopReaches
BY AlwaysCallInv, StopGives, PTL

(* CardsTogether: setupClocks, init and the setters of the cards leave all *)
(* cards with the same clock and settings between calls.                   *)
THEOREM CardsAreAlike == Spec => []CardsTogether
<1>1. CallInv => CardsTogether
  BY DEF CallInv, ClocksInv, CardSetInv, CardsTogether
<1> QED
  BY <1>1, AlwaysCallInv, PTL

(* InitialisedWhole: a Camera whose constructor or reset() returned is     *)
(* Idle, selects all cards, has the default run flags, and its channels as *)
(* the settings file has them.                                             *)
THEOREM InitIsWhole == Spec => []InitialisedWhole
<1>1. CallInv => InitialisedWhole
  <2> SUFFICES ASSUME CallInv, Walking, outcome = "ok"
               PROVE  /\ m_card = AllCards /\ m_status = "Idle"
                      /\ run_flags = DefaultMode
                      /\ HasSettings => /\ cont = saved.cont
                                        /\ format = saved.format
                                        /\ chan_set = saved.set
    BY DEF InitialisedWhole, CallReturned, Walking
  <2>1. todo = <<>>
    BY DEF CallInv, ControlInv, Progress
  <2>2. Len(todo) <= 1
    BY <2>1
  <2> QED
    BY <2>2 DEF CallInv, InitInv
<1> QED
  BY <1>1, AlwaysCallInv, PTL

(* PlaybackPlays: when loadPlayback has returned, the card of channel 0    *)
(* has the file, playback is on and channel 0 takes its data from it.      *)
THEOREM LoadedPlays == Spec => []PlaybackPlays
<1>1. CallInv => PlaybackPlays
  <2> SUFFICES ASSUME CallInv, CallReturned("loadPlayback"),
                      m_card \in {AllCards, CardOf(0)}
               PROVE  /\ player[CardOf(0)] # "none" /\ Playback \subseteq run_flags
                      /\ cont[0] \cap SelData = SourceBits("PlaybackStream0")
    BY DEF PlaybackPlays
  <2>1. todo = <<>> /\ call.name = "loadPlayback" /\ outcome = "ok"
    BY DEF CallInv, ControlInv, Progress, CallReturned
  <2>2. Len(todo) <= 3 /\ Len(todo) <= 2
    BY <2>1
  <2> QED
    BY <2>1, <2>2 DEF CallInv, PlayInv
<1> QED
  BY <1>1, AlwaysCallInv, PTL

(* ReportedAsSet: getDataSource and getRunMode answer with what was set    *)
(* last, on that channel or by setRunMode and setPlayback, whatever failed *)
(* or came between.                                                        *)
THEOREM AnswersAreSet == Spec => []ReportedAsSet
<1>1. CallInv => ReportedAsSet
  BY DEF CallInv, AskedInv, ReportedAsSet, CallReturned
<1> QED
  BY <1>1, AlwaysCallInv, PTL

-----------------------------------------------------------------------------
(* formatRun: which SDK calls it has still to make, and what those it has  *)
(* made have done.                                                         *)

FormatLen(a) == IF a.nbits_eng = MaxBitsEng THEN 2 ELSE 1

FormatOp(j, chan, a) ==
    IF j = 1 THEN Op("format_run", Keep, chan, FormatWord(a))
    ELSE Default(AllChans, {"roi"})

Formatting == call.name = "formatRun" /\ outcome \in {"running", "ok"}

FormatShape ==
    Formatting =>
        /\ FormatValid(call.arg) /\ Len(todo) <= FormatLen(call.arg)
        /\ \A i \in 1 .. Len(todo) :
              todo[i] = FormatOp(FormatLen(call.arg) - Len(todo) + i, call.chan,
                                 call.arg)

FormatInv ==
    Formatting =>
        /\ Len(todo) < FormatLen(call.arg) =>
              \A c \in ChansOf(call.chan) : format[c] = FormatWord(call.arg)
        /\ outcome = "ok" /\ call.arg.nbits_eng = MaxBitsEng =>
              \A c \in Chans : "roi" \notin chan_set[c]

FormatCallInv == ControlInv /\ FormatShape /\ FormatInv

LEMMA FormatOps ==
    ASSUME NEW chan, NEW a
    PROVE  LET s == FormatCalls(chan, a)
           IN  /\ Len(s) = FormatLen(a) /\ s # <<>>
               /\ \A i \in 1 .. FormatLen(a) : s[i] = FormatOp(i, chan, a)
<1> DEFINE f == Op("format_run", Keep, chan, FormatWord(a))
           r == Default(AllChans, {"roi"})
<1>1. FormatCalls(chan, a)
      = <<f>> \o (IF a.nbits_eng = MaxBitsEng THEN <<r>> ELSE <<>>)
  BY DEF FormatCalls
<1>2. \A i : FormatOp(i, chan, a) = IF i = 1 THEN f ELSE r
  BY DEF FormatOp
<1> HIDE DEF f, r
<1>3. CASE a.nbits_eng = MaxBitsEng
  <2>1. FormatCalls(chan, a) = <<f>> \o <<r>>
    BY <1>1, <1>3
  <2>2. LET s == <<f>> \o <<r>> IN Len(s) = 2 /\ s[1] = f /\ s[2] = r
    OBVIOUS
  <2>3. FormatLen(a) = 2 /\ 1 .. 2 = {1, 2}
    BY <1>3 DEF FormatLen
  <2> QED
    BY <1>2, <2>1, <2>2, <2>3
<1>4. CASE a.nbits_eng # MaxBitsEng
  <2>1. FormatCalls(chan, a) = <<f>> \o <<>>
    BY <1>1, <1>4
  <2>2. LET s == <<f>> \o <<>> IN Len(s) = 1 /\ s[1] = f
    OBVIOUS
  <2>3. FormatLen(a) = 1 /\ 1 .. 1 = {1}
    BY <1>4 DEF FormatLen
  <2> QED
    BY <1>2, <2>1, <2>2, <2>3
<1> QED
  BY <1>3, <1>4

(* The calls of the Camera that are not formatRun.                         *)
LEMMA OtherNames ==
    ASSUME CameraCall
    PROVE  \/ call'.name # "formatRun"
           \/ \E c \in ChanArgs, a \in FormatArgs : FormatRun(c, a)
<1>0. \A name, chan, arg : Call(name, chan, arg) => call'.name = name
  BY FrameOfCall
<1>1. CASE \/ \E k \in Cards \cup {AllCards} : SetCard(k)
           \/ \E n \in NbFrames : SetNbFrames(n)
           \/ \E b \in BOOLEAN : SetClearMode(b) \/ SetPlayback(b)
  BY <1>0, <1>1 DEF SetCard, SetNbFrames, SetClearMode, SetPlayback
<1>2. CASE Reset \/ PrepareAcq \/ Start \/ Arm \/ Pause \/ Restart \/ Stop
  BY <1>0, <1>2 DEF Reset, PrepareAcq, Start, Arm, Pause, Restart, Stop, Control
<1>3. CASE StartScope \/ GetRunMode \/ LoadPlayback \/ ReadRawHistogram
  BY <1>0, <1>3 DEF StartScope, GetRunMode, LoadPlayback, ReadRawHistogram
<1>4. CASE \/ \E flags \in RunModes : SetRunMode(flags)
           \/ \E c \in ChanArgs, src \in DataSources : SetDataSource(c, src)
           \/ \E c \in ChanArgs, x \in Scalings : SetScaling(c, x)
  BY <1>0, <1>4 DEF SetRunMode, SetDataSource, SetScaling
<1>5. CASE \E c \in ChanArgs :
              \/ GetDataSource(c) \/ InitRoi(c) \/ InitBrams(c) \/ SetRoi(c)
              \/ SetWindow(c) \/ SetGoodThreshold(c) \/ SetRinging(c)
              \/ SetDeadtimeCorrectionParameters(c)
  BY <1>0, <1>5
  DEF GetDataSource, InitRoi, InitBrams, SetRoi, SetWindow, SetGoodThreshold,
      SetRinging, SetDeadtimeCorrectionParameters, SetChannel
<1>6. CASE \/ SetDeadtimeCalculationEnergy \/ SetFanSetpoint \/ SetFanController
           \/ SetAdcTempLimit \/ GetFanTemperatures \/ SaveSettings
           \/ RestoreSettings \/ \E src \in ClockArgs : SetupClocks(src)
  BY <1>0, <1>6
  DEF SetDeadtimeCalculationEnergy, SetChannel, SetFanSetpoint, SetFanController,
      SetAdcTempLimit, SetCards, GetFanTemperatures, SaveSettings,
      RestoreSettings, SetupClocks
<1> QED
  BY <1>1, <1>2, <1>3, <1>4, <1>5, <1>6 DEF CameraCall

LEMMA FormatBegins == FormatCallInv /\ CameraCall => FormatCallInv'
<1> SUFFICES ASSUME FormatCallInv, CameraCall PROVE FormatCallInv'
  OBVIOUS
<1>1. ControlInv'
  BY CameraCallHolds DEF FormatCallInv
<1>2. CASE call'.name # "formatRun"
  BY <1>1, <1>2 DEF FormatCallInv, FormatShape, FormatInv, Formatting
<1>3. ASSUME NEW c \in ChanArgs, NEW a \in FormatArgs, FormatRun(c, a)
      PROVE  FormatCallInv'
  <2>1. call'.chan = c /\ call'.arg = a
    BY <1>3 DEF FormatRun, Call
  <2>2. CASE FormatValid(a) /\ Begin(FormatCalls(c, a))
    <3>1. /\ todo' = FormatCalls(c, a) /\ Len(todo') = FormatLen(a)
          /\ outcome' = "running"
          /\ \A i \in 1 .. FormatLen(a) : todo'[i] = FormatOp(i, c, a)
      BY <2>2, FormatOps DEF Begin
    <3>2. FormatLen(a) \in Nat
      BY DEF FormatLen
    <3>3. \A i \in 1 .. FormatLen(a) : FormatLen(a) - FormatLen(a) + i = i
      BY <3>2
    <3>4. FormatShape'
      BY <2>1, <2>2, <3>1, <3>2, <3>3 DEF FormatShape
    <3>5. FormatInv'
      BY <2>1, <3>1, <3>2 DEF FormatInv
    <3> QED
      BY <1>1, <3>4, <3>5 DEF FormatCallInv
  <2>3. CASE Reject
    BY <1>1, <2>3 DEF Reject, FormatCallInv, FormatShape, FormatInv, Formatting
  <2> QED
    BY <1>3, <2>2, <2>3 DEF FormatRun
<1> QED
  BY <1>2, <1>3, OtherNames

(* The step of a given SDK call. *)
LEMMA FormatSteps ==
    ASSUME SdkStep
    PROVE  /\ Now.f = "format_run" => RunFormat
           /\ Now.f = "default" => RunChannelSetting
<1> USE DEF Run
<1>1. CASE RunPlain \/ RunGetGeneration \/ RunClocks \/ RunRestoreSettings
  BY <1>1 DEF RunPlain, RunGetGeneration, RunClocks, RunRestoreSettings
<1>2. CASE RunSaveSettings \/ RunChannelSetting \/ RunCardSetting
  BY <1>2 DEF RunSaveSettings, RunChannelSetting, RunCardSetting
<1>3. CASE RunSetRunFlags \/ RunSetRunFlagsFails \/ RunGetRunFlags
  BY <1>3 DEF RunSetRunFlags, RunSetRunFlagsFails, RunGetRunFlags
<1>4. CASE RunGetChanCont \/ RunSetChanCont \/ RunGetDataSource \/ RunReadFails
  BY <1>4 DEF RunGetChanCont, RunSetChanCont, RunGetDataSource, RunReadFails
<1>5. CASE RunFormat \/ RunPlaybackLoad \/ RunClear \/ RunHistogram \/ RunPoll
  BY <1>5 DEF RunFormat, RunPlaybackLoad, RunClear, RunHistogram, NewRuns, RunPoll
<1> QED
  BY <1>1, <1>2, <1>3, <1>4, <1>5 DEF SdkStep

LEMMA FormatRuns == FormatCallInv /\ SdkStep => FormatCallInv'
<1> SUFFICES ASSUME FormatCallInv, SdkStep PROVE FormatCallInv'
  OBVIOUS
<1>1. ControlInv /\ ControlInv'
  BY SdkStepHolds DEF FormatCallInv
<1>2. call' = call
  BY <1>1, SdkFrame
<1>3. CASE ~Formatting'
  BY <1>1, <1>3 DEF FormatCallInv, FormatShape, FormatInv
<1>4. CASE Formatting'
  <2> DEFINE a == call.arg
             n == FormatLen(a)
  <2>1. /\ Advance /\ todo' = Tail(todo) /\ todo # <<>> /\ Now = todo[1]
        /\ outcome' = (IF Len(todo) = 1 THEN "ok" ELSE "running")
    BY <1>1, <1>4, SdkFrame DEF Formatting
  <2>2. Formatting
    BY <1>1, <1>2, <1>4, <2>1 DEF Formatting, ControlInv, Progress
  <2>3. /\ FormatValid(a) /\ Len(todo) <= n /\ n \in {1, 2}
        /\ \A i \in 1 .. Len(todo) : todo[i] = FormatOp(n - Len(todo) + i, call.chan, a)
    BY <2>2 DEF FormatCallInv, FormatShape, FormatLen
  <2>4. /\ Len(todo) \in Nat \ {0} /\ Len(todo') = Len(todo) - 1
        /\ \A i \in 1 .. Len(todo') : /\ todo'[i] = todo[i + 1]
                                      /\ i + 1 \in 1 .. Len(todo)
    <3>1. OpsOK(todo) /\ Len(Tail(todo)) = Len(todo) - 1 /\ Len(todo) \in Nat \ {0}
          /\ \A i \in 1 .. Len(todo) - 1 : Tail(todo)[i] = todo[i + 1]
      BY <1>1, <2>1, SdkFrame, Remaining
    <3> QED
      BY <2>1, <3>1
  <2> HIDE DEF a, n
  <2>5. FormatShape'
    <3>1. \A i \in 1 .. Len(todo') :
             n - Len(todo') + i = n - Len(todo) + (i + 1)
      BY <2>3, <2>4
    <3>2. /\ Len(todo') <= n
          /\ \A i \in 1 .. Len(todo') :
                todo'[i] = FormatOp(n - Len(todo') + i, call.chan, a)
      BY <2>3, <2>4, <3>1
    <3> QED
      BY <1>2, <2>3, <3>2 DEF FormatShape, a, n
  <2>6. CASE Len(todo) = n
    <3>1. n - Len(todo) + 1 = 1 /\ 1 \in 1 .. Len(todo)
      BY <2>3, <2>6
    <3>2. Now = Op("format_run", Keep, call.chan, FormatWord(a))
      <4>1. Now = FormatOp(n - Len(todo) + 1, call.chan, a)
        BY <2>1, <2>3, <3>1
      <4> QED
        BY <3>1, <4>1 DEF FormatOp
    <3>3. Now.f = "format_run" /\ Now.chan = call.chan /\ Now.word = FormatWord(a)
      BY <3>2 DEF Op
    <3>4. RunFormat /\ outcome' # "failed"
      BY <1>4, <3>3, FormatSteps DEF Formatting
    <3>5. \A c \in ChansOf(call.chan) : format'[c] = FormatWord(a)
      <4>1. format' = [c \in Chans |-> IF c \in Target THEN Now.word ELSE format[c]]
        BY <3>4 DEF RunFormat, Ends, Fail
      <4>2. ChansOf(call.chan) \subseteq Chans /\ Target = ChansOf(call.chan)
        BY <3>3 DEF ChansOf, Target
      <4> QED
        BY <3>3, <4>1, <4>2
    <3>6. ~(outcome' = "ok" /\ a.nbits_eng = MaxBitsEng)
      BY <2>1, <2>6 DEF n, FormatLen
    <3> QED
      BY <1>1, <1>2, <2>5, <3>5, <3>6 DEF FormatCallInv, FormatInv, a
  <2>7. CASE Len(todo) # n
    <3>1. n = 2 /\ Len(todo) = 1
      BY <2>3, <2>4, <2>7
    <3>2. Now = Default(AllChans, {"roi"})
      <4>1. Now = FormatOp(n - Len(todo) + 1, call.chan, a)
        BY <2>1, <2>3, <3>1
      <4>2. n - Len(todo) + 1 # 1
        BY <3>1
      <4> QED
        BY <4>1, <4>2 DEF FormatOp
    <3>3. Now.f = "default" /\ Now.chan = AllChans /\ Now.word = {"roi"}
      BY <3>2 DEF Default, Op
    <3>4. RunChannelSetting /\ outcome' # "failed"
      BY <1>4, <3>3, FormatSteps DEF Formatting
    <3>5. format' = format
      BY <3>4 DEF RunChannelSetting, wordVars
    <3>6. \A c \in Chans : "roi" \notin chan_set'[c]
      <4>1. Target = Chans
        BY <3>3 DEF Target, ChansOf, AllChans
      <4>2. chan_set' = [c \in Chans |-> IF c \notin Target THEN chan_set[c]
                                         ELSE IF Now.f = "program"
                                              THEN chan_set[c] \cup Now.word
                                         ELSE chan_set[c] \ Now.word]
        BY <3>4 DEF RunChannelSetting, Ends, Fail
      <4>3. \A c \in Chans : chan_set'[c] = chan_set[c] \ {"roi"}
        BY <3>3, <4>1, <4>2
      <4> QED
        BY <4>3
    <3>7. \A c \in ChansOf(call.chan) : format[c] = FormatWord(a)
      BY <2>2, <3>1 DEF FormatCallInv, FormatInv, a, n
    <3> QED
      BY <1>1, <1>2, <2>5, <3>5, <3>6, <3>7 DEF FormatCallInv, FormatInv, a
  <2> QED
    BY <2>6, <2>7
<1> QED
  BY <1>3, <1>4

LEMMA FormatKept ==
    FormatCallInv /\ (PollBusy \/ Detector \/ UNCHANGED vars) => FormatCallInv'
<1> SUFFICES ASSUME FormatCallInv, PollBusy \/ Detector \/ UNCHANGED vars
             PROVE  FormatCallInv'
  OBVIOUS
<1>1. ControlInv'
  BY PollBusyHolds, DetectorHolds, StutterHolds DEF FormatCallInv
<1>2. UNCHANGED <<todo, call, outcome, format, chan_set>>
  <2>1. CASE Detector
    BY <2>1, DetectorFrame DEF FormatCallInv
  <2>2. CASE PollBusy \/ UNCHANGED vars
    BY <2>2 DEF PollBusy, vars, wordVars, setVars, callVars
  <2> QED
    BY <2>1, <2>2
<1> QED
  BY <1>1, <1>2 DEF FormatCallInv, FormatShape, FormatInv, Formatting

LEMMA AlwaysFormatInv == Spec => []FormatCallInv
<1>1. Init => FormatCallInv
  BY InitHolds DEF Init, FormatCallInv, FormatShape, FormatInv, Formatting
<1>2. FormatCallInv /\ [Next]_vars => FormatCallInv'
  BY FormatBegins, FormatRuns, FormatKept DEF Next
<1> QED
  BY <1>1, <1>2, PTL DEF Spec

(* The getters of the header read from the word of xsp3_format_run the     *)
(* codes it was made of.                                                   *)
LEMMA FormatDecoded ==
    ASSUME NEW a, FormatValid(a)
    PROVE  LET w == FormatWord(a)
           IN  /\ Decode(Format.get.NBITS_ENG, w) = MaxBitsEng - a.nbits_eng
               /\ Decode(Format.get.NBITS_ADC, w) = NbitsAux[a.adc_bits]
               /\ Decode(Format.get.AUX1_MODE, w) = ResMode(a.aux1_mode)
               /\ Decode(Format.get.AUX2_MODE, w) = a.aux2_mode
<1> DEFINE w == FormatWord(a)
           x == ResMode(a.aux1_mode)
           b == NbitsAux[a.adc_bits]
           y == a.aux2_mode
           e == MaxBitsEng - a.nbits_eng
           ex == Encode(4 .. 7, x)
           ee == Encode(21 .. 24, e)
           eb == Encode(25 .. 27, b)
           ey == Encode(28 .. 30, y)
           p == IF a.pileup_reject THEN {31} ELSE {}
<1>1. /\ Format.get.AUX1_MODE = 4 .. 7 /\ Format.get.NBITS_ENG = 21 .. 24
      /\ Format.get.NBITS_ADC = 25 .. 27 /\ Format.get.AUX2_MODE = 28 .. 30
  BY DEF Format, Register
<1>2. /\ x \in 0 .. 7 /\ b \in 0 .. 7 /\ y \in 0 .. 7 /\ e \in 0 .. 11
  <2>1. x \in 0 .. 7
    BY DEF FormatValid, Aux1Modes, ResMode, ResModes
  <2>2. b \in 0 .. 7
    <3>1. a.adc_bits \in {0, 4, 6, 8, 10, 12, 14, 16}
      BY DEF FormatValid, NbitsAux
    <3>2. b = IF a.adc_bits = 0 THEN 0 ELSE (a.adc_bits - 2) \div 2
      BY <3>1 DEF NbitsAux
    <3> QED
      BY <3>1, <3>2
  <2>3. y \in 0 .. 7 /\ e \in 0 .. 11
    BY DEF FormatValid, MaxBitsEng
  <2> QED
    BY <2>1, <2>2, <2>3
<1>3. w = ex \cup eb \cup ey \cup ee \cup p
  BY FormatFields DEF FormatWord
<1>4. /\ ex \subseteq 4 .. 7 /\ ee \subseteq 21 .. 24 /\ eb \subseteq 25 .. 27
      /\ ey \subseteq 28 .. 30 /\ p \subseteq {31}
  BY EncodeInField
<1> HIDE DEF w, x, b, y, e, ex, ee, eb, ey, p
<1>5. /\ w \cap (4 .. 7) = ex /\ w \cap (21 .. 24) = ee
      /\ w \cap (25 .. 27) = eb /\ w \cap (28 .. 30) = ey
  <2>1. \A i \in 4 .. 7 : i \notin (21 .. 24) \cup (25 .. 27) \cup (28 .. 30) \cup {31}
    OBVIOUS
  <2>2. \A i \in 21 .. 24 : i \notin (25 .. 27) \cup (28 .. 30) \cup {31}
    OBVIOUS
  <2>3. \A i \in 25 .. 27 : i \notin (28 .. 30) \cup {31}
    OBVIOUS
  <2>4. 31 \notin 28 .. 30
    OBVIOUS
  <2>5. w \cap (4 .. 7) = ex
    BY <1>3, <1>4, <2>1, Zenon
  <2>6. w \cap (21 .. 24) = ee
    BY <1>3, <1>4, <2>1, <2>2, Zenon
  <2>7. w \cap (25 .. 27) = eb
    BY <1>3, <1>4, <2>1, <2>2, <2>3, Zenon
  <2>8. w \cap (28 .. 30) = ey
    BY <1>3, <1>4, <2>1, <2>2, <2>3, <2>4, Zenon
  <2> QED
    BY <2>5, <2>6, <2>7, <2>8
<1>6. /\ x \in Nat /\ x < 2 ^ (3 + 1) /\ e \in Nat /\ e < 2 ^ (3 + 1)
      /\ b \in Nat /\ b < 2 ^ (2 + 1) /\ y \in Nat /\ y < 2 ^ (2 + 1)
  <2>1. 2 ^ (2 + 1) = 8 /\ 2 ^ (3 + 1) = 16
    OBVIOUS
  <2> QED
    BY <1>2, <2>1
<1>7. 4 + 3 = 7 /\ 21 + 3 = 24 /\ 25 + 2 = 27 /\ 28 + 2 = 30
  OBVIOUS
<1>8. Decode(4 .. 4 + 3, w) = x
  <2>1. w \cap (4 .. 4 + 3) = Encode(4 .. 4 + 3, x)
    BY <1>5, <1>7 DEF ex
  <2>2. 4 \in Nat /\ 3 \in {1, 2, 3, 7}
    OBVIOUS
  <2>3. \A word : word \cap (4 .. 4 + 3) = Encode(4 .. 4 + 3, x)
                  => Decode(4 .. 4 + 3, word) = x
    BY <1>6, <2>2, AnyFieldReadsBack, Zenon
  <2> QED
    BY <2>1, <2>3, Zenon
<1>9. Decode(21 .. 21 + 3, w) = e
  <2>1. w \cap (21 .. 21 + 3) = Encode(21 .. 21 + 3, e)
    BY <1>5, <1>7 DEF ee
  <2>2. 21 \in Nat /\ 3 \in {1, 2, 3, 7}
    OBVIOUS
  <2>3. \A word : word \cap (21 .. 21 + 3) = Encode(21 .. 21 + 3, e)
                  => Decode(21 .. 21 + 3, word) = e
    BY <1>6, <2>2, AnyFieldReadsBack, Zenon
  <2> QED
    BY <2>1, <2>3, Zenon
<1>10. Decode(25 .. 25 + 2, w) = b
  <2>1. w \cap (25 .. 25 + 2) = Encode(25 .. 25 + 2, b)
    BY <1>5, <1>7 DEF eb
  <2>2. 25 \in Nat /\ 2 \in {1, 2, 3, 7}
    OBVIOUS
  <2>3. \A word : word \cap (25 .. 25 + 2) = Encode(25 .. 25 + 2, b)
                  => Decode(25 .. 25 + 2, word) = b
    BY <1>6, <2>2, AnyFieldReadsBack, Zenon
  <2> QED
    BY <2>1, <2>3, Zenon
<1>11. Decode(28 .. 28 + 2, w) = y
  <2>1. w \cap (28 .. 28 + 2) = Encode(28 .. 28 + 2, y)
    BY <1>5, <1>7 DEF ey
  <2>2. 28 \in Nat /\ 2 \in {1, 2, 3, 7}
    OBVIOUS
  <2>3. \A word : word \cap (28 .. 28 + 2) = Encode(28 .. 28 + 2, y)
                  => Decode(28 .. 28 + 2, word) = y
    BY <1>6, <2>2, AnyFieldReadsBack, Zenon
  <2> QED
    BY <2>1, <2>3, Zenon
<1> QED
  BY <1>1, <1>7, <1>8, <1>9, <1>10, <1>11 DEF w, x, b, y, e

(* FormatAsAsked: a formatRun that returned left, in every channel it was  *)
(* called for, the word whose getters return its arguments, and no ROI in  *)
(* any channel when the spectra are full.                                  *)
THEOREM FormatIsAsked == Spec => []FormatAsAsked
<1>1. FormatCallInv => FormatAsAsked
  <2> SUFFICES ASSUME FormatCallInv, CallReturned("formatRun") PROVE FormatAsAsked
    BY DEF FormatAsAsked
  <2>1. Formatting /\ outcome = "ok" /\ todo = <<>>
    BY DEF CallReturned, Formatting, FormatCallInv, ControlInv, Progress
  <2>2. FormatValid(call.arg)
    BY <2>1 DEF FormatCallInv, FormatShape
  <2>3. Len(todo) < FormatLen(call.arg)
    BY <2>1 DEF FormatLen
  <2>4. \A c \in ChansOf(call.chan) : format[c] = FormatWord(call.arg)
    BY <2>1, <2>3 DEF FormatCallInv, FormatInv
  <2>5. /\ Decode(Format.get.NBITS_ENG, FormatWord(call.arg)) + call.arg.nbits_eng
             = MaxBitsEng
        /\ Decode(Format.get.NBITS_ADC, FormatWord(call.arg)) = NbitsAux[call.arg.adc_bits]
        /\ Decode(Format.get.AUX1_MODE, FormatWord(call.arg)) = ResMode(call.arg.aux1_mode)
        /\ Decode(Format.get.AUX2_MODE, FormatWord(call.arg)) = call.arg.aux2_mode
    <3>1. call.arg.nbits_eng \in Int /\ MaxBitsEng \in Int
      BY <2>2 DEF FormatValid, MaxBitsEng
    <3>2. MaxBitsEng - call.arg.nbits_eng + call.arg.nbits_eng = MaxBitsEng
      BY <3>1
    <3> QED
      BY <2>2, <3>2, FormatDecoded
  <2>6. call.arg.nbits_eng = MaxBitsEng => \A c \in Chans : "roi" \notin chan_set[c]
    BY <2>1 DEF FormatCallInv, FormatInv
  <2> QED
    BY <2>4, <2>5, <2>6 DEF FormatAsAsked
<1> QED
  BY <1>1, AlwaysFormatInv, PTL
=============================================================================
