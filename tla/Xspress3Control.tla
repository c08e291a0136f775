-------------------------- MODULE Xspress3Control --------------------------
(***************************************************************************)
(* What a user of the Camera does beside the acquisition: the connection   *)
(* and its clocks, the settings file, run modes, data sources, playback,   *)
(* the scope, the format of the spectra, ROIs and the other settings of a  *)
(* channel or a card, the calls that clear and start the histogrammers.    *)
(*                                                                         *)
(* One thread makes these calls, one after the other.  A call is a         *)
(* sequence of calls on the SDK, which act on the selected cards, on the   *)
(* channels of their argument or on the whole system; any of them may fail *)
(* when it was done on some of them only.  The detector counts meanwhile.  *)
(*                                                                         *)
(* A setting whose value no property looks at is the name of the setting:  *)
(* it is there when it was programmed.  The exposure time is not set here, *)
(* so that setTimingMode, which setNbFrames calls, returns at once; what   *)
(* it does otherwise is in Xspress3Setup, the threads are in Xspress3Acq.  *)
(***************************************************************************)
EXTENDS Xspress3Registers, Sequences

CONSTANTS
    NbCards, NbChans,   \* m_nb_cards, m_nb_chans
    ChansPerCard,
    MaxFrames,          \* m_max_frames, the frames the SDK has memory for
    Generation,         \* what xsp3_get_generation returns
    HasSettings,        \* whether m_config_directory_name is not empty
    SavedCont,          \* the channel control word in the settings file
    NbFrames,           \* the arguments of setNbFrames
    ChanArgs,           \* the channels the calls are made with
    RunModes, DataSources, FormatArgs, Scalings,
    ClockArgs,          \* the clocks setupClocks is called with
    MaxCalls, MaxFaults \* bounds on the calls and on the SDK calls that fail

ASSUME ControlAssumption ==
    /\ NbCards \in Nat \ {0} /\ NbChans \in Nat \ {0}
    /\ ChansPerCard \in Nat \ {0} /\ NbChans <= NbCards * ChansPerCard
    /\ MaxFrames \in Nat \ {0} /\ NbFrames \subseteq Nat
    /\ Generation \in 1 .. 3 /\ HasSettings \in BOOLEAN
    /\ SavedCont \subseteq 0 .. 31
    /\ ChanArgs \subseteq -1 .. NbChans - 1
    /\ RunModes \subseteq SUBSET (0 .. 3) /\ Scalings \subseteq Int
    /\ DataSources \subseteq {"Normal", "Alternate", "Multiplexer",
                              "PlaybackStream0", "PlaybackStream1"}
    /\ ClockArgs \subseteq {"IntClk", "XtalClk", "ExtClk", "Future", "Mini",
                            "X4AdcLMK", "X4MplLMK"}
    /\ MaxCalls \in Nat /\ MaxFaults \in Nat

VARIABLES
    m_card, m_clear_flag, m_nb_frames, m_status,
    gen, reg,           \* locals: init's generation, the word just read
    run_flags, cont, format, chan_set, card_set, clocks, player,
    phase, mem,         \* what each card does; the frames of each channel
    seen_idle,          \* the last poll of stop() found nothing busy
    saved,              \* the settings file
    todo,               \* the SDK calls the current call has still to make
    call, outcome,      \* the last call of the Camera, and how it ended
    answer,             \* what getDataSource or getRunMode returned
    calls, faults,
    asked,              \* per channel, the source the user set last
    asked_mode,         \* the run flags the user set last
    prepared,           \* per channel, the frames cleared for the next run
    split               \* a card was selected, or an SDK call failed

camVars   == <<m_card, m_clear_flag, m_nb_frames>>
wordVars  == <<run_flags, cont, format>>
setVars   == <<chan_set, card_set, clocks, player>>
countVars == <<phase, mem, prepared, seen_idle>>
askedVars == <<asked, asked_mode>>
callVars  == <<todo, call, outcome, calls, faults, split>>

vars == <<camVars, m_status, gen, reg, wordVars, setVars, countVars, saved, answer,
          askedVars, callVars>>

-----------------------------------------------------------------------------
Cards == 0 .. NbCards - 1
Chans == 0 .. NbChans - 1
Frames == 0 .. MaxFrames - 1
AllCards == -1
AllChans == -1
Keep == -2              \* no setCard before the SDK call

CardOf(chan) == chan \div ChansPerCard

ChansOf(chan) == IF chan < 0 THEN Chans ELSE {chan} \cap Chans

(* A set that was overwritten by a failing call or by the settings file. *)
Unknown == {-1}

DataSrc == [Normal |-> SelDataCodes.NORMAL, Alternate |-> SelDataCodes.ALTERNATE,
            Multiplexer |-> SelDataCodes.MUX_DATA,
            PlaybackStream0 |-> SelDataCodes.EXT0,
            PlaybackStream1 |-> SelDataCodes.EXT1]

SelData == ChanCont.put.SEL_DATA
SourceBits(src) == Encode(SelData, DataSrc[src])

Playback == RunFlags.put.PLAYBACK
Scope == RunFlags.put.SCOPE
Hist == RunFlags.put.HIST
DefaultMode == RunFlags.put.SCALERS \cup Hist

ClockSrc == [IntClk |-> ClkSources.INT, XtalClk |-> ClkSources.XTAL,
             ExtClk |-> ClkSources.EXT, Future |-> ClkSources.FPGA,
             Mini |-> ClkSources.X3M_CDCM61004,
             X4AdcLMK |-> ClkSources.X3M_LMK61E2,
             X4MplLMK |-> ClkSources.MIDPLN_LMK61E2]

(* init: the clock of each generation; none for what is no generation.     *)
ClockSource ==
    ClockSrc[CASE gen = 3 /\ NbCards > 1 -> "X4MplLMK"
               [] gen = 3 /\ NbCards = 1 -> "X4AdcLMK"
               [] gen = 2 -> "Mini" [] OTHER -> "XtalClk"]

Phases == {"idle", "armed", "counting", "paused", "draining"}

-----------------------------------------------------------------------------
(* formatRun: how its arguments are checked, and the word they make.       *)

Aux1Modes == {0, 1, 2, 4, 8}

ResMode(aux1_mode) ==
    CASE aux1_mode \in {0, 1} -> ResModes.NONE [] aux1_mode = 2 -> ResModes.TOP
      [] aux1_mode = 4 -> ResModes.BOT [] aux1_mode = 8 -> ResModes.PILEUP

MaxBitsEng == 12

FormatValid(a) ==
    /\ a.nbits_eng \in 1 .. MaxBitsEng
    /\ a.aux1_mode \in Aux1Modes /\ a.adc_bits \in DOMAIN NbitsAux
    /\ a.aux2_mode \in 0 .. 7

(* xsp3_format_run *)
FormatWord(a) ==
    Encode(Format.put.AUX1_MODE, ResMode(a.aux1_mode))
    \cup Encode(Format.put.NBITS_ADC, NbitsAux[a.adc_bits])
    \cup Encode(Format.put.AUX2_MODE, a.aux2_mode)
    \cup Encode(Format.put.NBITS_ENG, MaxBitsEng - a.nbits_eng)
    \cup (IF a.pileup_reject THEN Format.put.PILEUP_REJECT ELSE {})

-----------------------------------------------------------------------------
(* The SDK calls.  card is the argument of the setCard before the call, if *)
(* there is one; word is a word, or the names of what is programmed.       *)

Op(f, card, chan, word) == [f |-> f, card |-> card, chan |-> chan, word |-> word]

System(f) == Op(f, Keep, AllChans, {})
OnCard(f, card) == Op(f, card, AllChans, {})
OnChan(f, chan) == Op(f, Keep, chan, {})
Program(chan, names) == Op("program", Keep, chan, names)
Default(chan, names) == Op("default", Keep, chan, names)
ProgramCard(names) == Op("program_card", Keep, AllChans, names)

(* Mutant: the settings of the file are restored before initRoi. *)
InitCallsRestoreFirst ==
    <<System("config")>>
    \o (IF HasSettings THEN <<OnCard("restore_settings", AllCards)>> ELSE <<>>)
    \o <<Default(AllChans, {"roi"}), OnCard("get_generation", 0)>>
    \o [i \in 1 .. NbCards |-> OnCard("clocks_setup", i - 1)]
    \o <<Op("set_run_flags", AllCards, AllChans, DefaultMode)>>

(* Mutant: setCard(-1) is forgotten. *)
InitCallsLastCard ==
    <<System("config"), Default(AllChans, {"roi"}), OnCard("get_generation", 0)>>
    \o [i \in 1 .. NbCards |-> OnCard("clocks_setup", i - 1)]
    \o (IF HasSettings THEN <<System("restore_settings")>> ELSE <<>>)
    \o <<Op("set_run_flags", Keep, AllChans, DefaultMode)>>

(* Camera::init: card 0 is asked for the generation, each card is selected *)
(* for its clocks, then all are.                                           *)
InitCalls ==
    <<System("config"), Default(AllChans, {"roi"}), OnCard("get_generation", 0)>>
    \o [i \in 1 .. NbCards |-> OnCard("clocks_setup", i - 1)]
    \o (IF HasSettings THEN <<OnCard("restore_settings", AllCards)>> ELSE <<>>)
    \o <<Op("set_run_flags", AllCards, AllChans, DefaultMode)>>

(* Mutant: the control word is written, then read. *)
DataSourceCallsSwapped(chan, src) ==
    LET first == IF chan < 0 THEN 0 ELSE chan
        number == IF chan < 0 THEN NbChans ELSE 1
    IN  [i \in 1 .. 2 * number |->
            LET c == first + (i - 1) \div 2
            IN  IF i % 2 = 0 THEN OnChan("get_chan_cont", c)
                ELSE Op("set_chan_cont", Keep, c, SourceBits(src))]

(* Camera::setDataSource: each channel's control word is read and written. *)
DataSourceCalls(chan, src) ==
    LET first == IF chan < 0 THEN 0 ELSE chan
        number == IF chan < 0 THEN NbChans ELSE 1
    IN  [i \in 1 .. 2 * number |->
            LET c == first + (i - 1) \div 2
            IN  IF i % 2 = 1 THEN OnChan("get_chan_cont", c)
                ELSE Op("set_chan_cont", Keep, c, SourceBits(src))]

(* Mutant: the run flags are not set. *)
PlaybackCallsNoMode ==
    <<System("playback_load")>> \o DataSourceCalls(0, "PlaybackStream0")

(* Camera::loadPlayback: the file, setRunMode(true, false, true, true),    *)
(* setDataSource(0, PlaybackStream0)                                       *)
PlaybackCalls ==
    <<System("playback_load"),
      Op("set_run_flags", Keep, AllChans, DefaultMode \cup Playback)>>
    \o DataSourceCalls(0, "PlaybackStream0")

(* Mutant: the ROIs of the formatted channel only. *)
FormatCallsOwnRoi(chan, a) ==
    <<Op("format_run", Keep, chan, FormatWord(a))>>
    \o (IF a.nbits_eng = MaxBitsEng THEN <<Default(chan, {"roi"})>> ELSE <<>>)

(* Camera::formatRun: full spectra have no ROIs, in any channel *)
FormatCalls(chan, a) ==
    <<Op("format_run", Keep, chan, FormatWord(a))>>
    \o (IF a.nbits_eng = MaxBitsEng THEN <<Default(AllChans, {"roi"})>> ELSE <<>>)

(* Camera::getFanTemperatures: the cards before the selected one. *)
FanCards == IF m_card = AllCards THEN NbCards ELSE m_card

-----------------------------------------------------------------------------
(* The constructor: init, then the settings of the file, which was written *)
(* by an earlier session with a ROI in every channel.                      *)
Init ==
    /\ m_card = AllCards /\ m_clear_flag = TRUE /\ m_nb_frames = 1
    /\ m_status = "Idle"
    /\ gen = 0 /\ reg = {}
    /\ run_flags = {} /\ cont = [c \in Chans |-> {}]
    /\ format = [c \in Chans |-> {}]
    /\ chan_set = [c \in Chans |-> {}] /\ card_set = [k \in Cards |-> {}]
    /\ clocks = [k \in Cards |-> [src |-> {}, flags |-> {}]]
    /\ player = [k \in Cards |-> "none"]
    /\ phase = [k \in Cards |-> "idle"] /\ seen_idle = FALSE
    /\ mem = [c \in Chans |-> [f \in Frames |-> "stale"]]
    /\ saved = [cont |-> [c \in Chans |-> SavedCont],
                format |-> [c \in Chans |-> {}],
                set |-> [c \in Chans |-> {"roi"}]]
    /\ todo = InitCalls /\ call = [name |-> "Camera", chan |-> AllChans, arg |-> {}]
    /\ outcome = "running" /\ answer = {}
    /\ calls = 0 /\ faults = 0
    /\ asked = [c \in Chans |-> Unknown] /\ asked_mode = Unknown
    /\ prepared = [c \in Chans |-> 0] /\ split = FALSE

-----------------------------------------------------------------------------
(* The calls.  A Camera whose constructor threw does not exist.            *)

Call(name, chan, arg) ==
    /\ todo = <<>> /\ calls < MaxCalls
    /\ ~(call.name = "Camera" /\ outcome = "failed")
    /\ call' = [name |-> name, chan |-> chan, arg |-> arg]
    /\ calls' = calls + 1
    /\ answer' = {}
    /\ UNCHANGED <<m_status, gen, reg, wordVars, setVars, countVars, saved,
                   askedVars, faults>>

Begin(sdk) ==
    /\ todo' = sdk
    /\ outcome' = IF sdk = <<>> THEN "ok" ELSE "running"
    /\ UNCHANGED <<camVars, split>>

(* The call throws before it did anything. *)
Reject == todo' = <<>> /\ outcome' = "rejected" /\ UNCHANGED <<camVars, split>>

SetCard(card) ==
    /\ Call("setCard", AllChans, card)
    /\ m_card' = card
    /\ split' = (split \/ card # AllCards)
    /\ outcome' = "ok"
    /\ UNCHANGED <<m_clear_flag, m_nb_frames, todo>>

SetNbFrames(nb_frames) ==
    /\ Call("setNbFrames", AllChans, nb_frames)
    /\ m_nb_frames' = nb_frames
    /\ outcome' = "ok"
    /\ UNCHANGED <<m_card, m_clear_flag, todo, split>>

SetClearMode(clear_flag) ==
    /\ Call("setClearMode", AllChans, clear_flag)
    /\ m_clear_flag' = clear_flag
    /\ outcome' = "ok"
    /\ UNCHANGED <<m_card, m_nb_frames, todo, split>>

Reset == Call("reset", AllChans, {}) /\ Begin(InitCalls)

PrepareAcq ==
    /\ Call("prepareAcq", AllChans, {})
    /\ Begin(IF m_clear_flag THEN <<System("histogram_clear")>> ELSE <<>>)

(* start, arm, pause and restart: one SDK call each *)
Control(name, f) == Call(name, AllChans, {}) /\ Begin(<<System(f)>>)

Start == Control("start", "histogram_start")
Arm == Control("arm", "histogram_arm")
Pause == Control("pause", "histogram_pause")
Restart == Control("restart", "histogram_continue")

(* Mutant: card 0 only. *)
StopCardZero ==
    /\ Call("stop", AllChans, {})
    /\ Begin(<<OnCard("histogram_stop", 0), System("is_any_busy"),
               System("is_any_busy")>>)

(* Mutant: waits for idle cards, then stops them. *)
StopPollsFirst ==
    /\ Call("stop", AllChans, {})
    /\ Begin(<<System("is_any_busy"), System("is_any_busy"),
               System("histogram_stop")>>)

(* The SDK call, then polling until nothing was busy in two polls; the     *)
(* polls that found something busy are PollBusy.                           *)
Stop ==
    /\ Call("stop", AllChans, {})
    /\ Begin(<<System("histogram_stop"), System("is_any_busy"),
               System("is_any_busy")>>)

StartScope ==
    /\ Call("startScope", AllChans, {})
    /\ Begin(<<System("scope_settings_from_mod"), System("start_count_enb"),
               System("scope_wait"), System("read_scope_data")>>)

SetRunMode(flags) ==
    /\ Call("setRunMode", AllChans, flags)
    /\ Begin(<<Op("set_run_flags", Keep, AllChans, flags)>>)

GetRunMode ==
    /\ Call("getRunMode", AllChans, {})
    /\ Begin(<<System("get_run_mode")>>)

SetPlayback(enable) ==
    /\ Call("setPlayback", AllChans, enable)
    /\ Begin(<<System("get_run_flags"),
               Op("put_run_flags", Keep, AllChans, IF enable THEN Playback ELSE {})>>)

LoadPlayback == Call("loadPlayback", 0, {}) /\ Begin(PlaybackCalls)

SetDataSource(chan, src) ==
    Call("setDataSource", chan, src) /\ Begin(DataSourceCalls(chan, src))

GetDataSource(chan) ==
    Call("getDataSource", chan, {}) /\ Begin(<<OnChan("get_data_source", chan)>>)

FormatRun(chan, a) ==
    /\ Call("formatRun", chan, a)
    /\ \/ FormatValid(a) /\ Begin(FormatCalls(chan, a))
       \/ ~FormatValid(a) /\ Reject

InitRoi(chan) == Call("initRoi", chan, {}) /\ Begin(<<Default(chan, {"roi"})>>)

InitBrams(chan) ==
    Call("initBrams", chan, {}) /\ Begin(<<Default(chan, {"roi", "scaling"})>>)

(* scaling in tenths; a negative one asks the SDK for its own *)
SetScaling(chan, scaling) ==
    /\ Call("setScaling", chan, scaling)
    /\ \/ (scaling < 0 \/ scaling \in 5 .. 20)
          /\ Begin(<<Program(chan, {"scaling"})>>)
       \/ scaling >= 0 /\ scaling \notin 5 .. 20 /\ Reject

(* The setters that check nothing and make one SDK call, for a channel or  *)
(* for the selected cards.                                                 *)
SetChannel(name, chan, setting) ==
    Call(name, chan, {}) /\ Begin(<<Program(chan, {setting})>>)

SetRoi(chan) == SetChannel("setRoi", chan, "roi")
SetWindow(chan) == SetChannel("setWindow", chan, "window")
SetGoodThreshold(chan) == SetChannel("setGoodThreshold", chan, "good_thres")
SetRinging(chan) == SetChannel("setRinging", chan, "ringing")
SetDeadtimeCorrectionParameters(chan) ==
    SetChannel("setDeadtimeCorrectionParameters", chan, "dtc")
SetDeadtimeCalculationEnergy ==
    SetChannel("setDeadtimeCalculationEnergy", AllChans, "dtc_energy")

SetCards(name, setting) ==
    Call(name, AllChans, {}) /\ Begin(<<ProgramCard({setting})>>)

SetFanSetpoint == SetCards("setFanSetpoint", "fan_setpoint")
SetFanController == SetCards("setFanController", "fan_controller")
SetAdcTempLimit == SetCards("setAdcTempLimit", "adc_temp_limit")

SetupClocks(src) ==
    /\ Call("setupClocks", AllChans, {})
    /\ Begin(<<Op("clocks_setup", Keep, AllChans, {ClockSrc[src]})>>)

GetFanTemperatures ==
    /\ Call("getFanTemperatures", AllChans, {})
    /\ Begin([i \in 1 .. FanCards |-> System("read_fan")])

SaveSettings ==
    Call("saveSettings", AllChans, {}) /\ Begin(<<System("save_settings")>>)

RestoreSettings ==
    Call("restoreSettings", AllChans, {}) /\ Begin(<<System("restore_settings")>>)

ReadRawHistogram ==
    Call("readRawHistogram", 0, {}) /\ Begin(<<System("histogram_read3d")>>)

-----------------------------------------------------------------------------
(* The steps of a call.                                                    *)

Now == Head(todo)

(* An SDK call begins, after the setCard before it. *)
Run(f) ==
    /\ todo # <<>> /\ Now.f = f
    /\ m_card' = IF Now.card = Keep THEN m_card ELSE Now.card
    /\ UNCHANGED <<m_clear_flag, m_nb_frames, call, calls>>

Selected == IF m_card' < 0 THEN Cards ELSE {m_card'}

Target == ChansOf(Now.chan)

(* pause marks the status, and init clears it at its end; restart does not *)
StatusAfter ==
    IF Now.f = "histogram_pause" THEN "Paused"
    ELSE IF call.name \in {"Camera", "reset"} /\ Len(todo) = 1 THEN "Idle"
    ELSE m_status

Advance ==
    /\ todo' = Tail(todo)
    /\ outcome' = IF Tail(todo) = <<>> THEN "ok" ELSE "running"
    /\ m_status' = StatusAfter
    /\ UNCHANGED split

Succeed == Advance /\ UNCHANGED faults

(* THROW_HW_ERROR *)
Fail ==
    /\ faults < MaxFaults /\ faults' = faults + 1
    /\ todo' = <<>> /\ outcome' = "failed"
    /\ split' = TRUE
    /\ UNCHANGED m_status

(* It was done on all it is for, or it failed. *)
Ends(whole) == (whole /\ Succeed) \/ Fail

Unasked(done) == asked' = [c \in Chans |-> IF c \in done THEN Unknown ELSE asked[c]]

(* SDK calls that only read, and those whose effect is not modelled.       *)
RunPlain ==
    /\ \E f \in {"config", "scope_settings_from_mod", "scope_wait",
                 "read_scope_data", "read_fan", "histogram_read3d"} : Run(f)
    /\ Ends(TRUE)
    /\ UNCHANGED <<gen, reg, wordVars, setVars, countVars, saved, answer, askedVars>>

(* The result of xsp3_get_generation is not tested: an error is a number   *)
(* that is no generation.                                                  *)
RunGetGeneration ==
    /\ Run("get_generation")
    /\ \/ gen' = Generation /\ UNCHANGED faults
       \/ gen' = -1 /\ faults < MaxFaults /\ faults' = faults + 1
    /\ Advance
    /\ UNCHANGED <<reg, wordVars, setVars, countVars, saved, answer, askedVars>>

(* xsp3_clocks_setup with init's source, or the one setupClocks was given. *)
Clock ==
    IF Now.word # {} THEN [src |-> Now.word, flags |-> {}]
    ELSE [src |-> {ClockSource}, flags |-> ClkFlags.put.MASTER \cup ClkFlags.put.NO_DITHER]

RunClocks ==
    /\ Run("clocks_setup")
    /\ \E done \in SUBSET Selected :
          /\ clocks' = [k \in Cards |-> IF k \in done THEN Clock ELSE clocks[k]]
          /\ Ends(done = Selected)
    /\ UNCHANGED <<gen, reg, wordVars, chan_set, card_set, player, countVars, saved,
                   answer, askedVars>>

(* All registers of a channel come from the file; an error leaves some of  *)
(* the channels as they were.                                              *)
RunRestoreSettings ==
    /\ Run("restore_settings")
    /\ \E done \in SUBSET Chans :
          /\ cont' = [c \in Chans |-> IF c \in done THEN saved.cont[c] ELSE cont[c]]
          /\ format' = [c \in Chans |->
                           IF c \in done THEN saved.format[c] ELSE format[c]]
          /\ chan_set' = [c \in Chans |->
                             IF c \in done THEN saved.set[c] ELSE chan_set[c]]
          /\ Unasked(done)
          /\ Ends(done = Chans)
    /\ UNCHANGED <<gen, reg, run_flags, card_set, clocks, player, countVars, saved,
                   answer, asked_mode>>

RunSaveSettings ==
    /\ Run("save_settings")
    /\ \/ /\ saved' = [cont |-> cont, format |-> format, set |-> chan_set]
          /\ Succeed
       \/ Fail /\ UNCHANGED saved
    /\ UNCHANGED <<gen, reg, wordVars, setVars, countVars, answer, askedVars>>

(* A setting of the channels is programmed, or set to its default. *)
RunChannelSetting ==
    /\ \/ Run("program") \/ Run("default")
    /\ \E done \in SUBSET Target :
          /\ chan_set' = [c \in Chans |->
                             IF c \notin done THEN chan_set[c]
                             ELSE IF Now.f = "program" THEN chan_set[c] \cup Now.word
                             ELSE chan_set[c] \ Now.word]
          /\ Ends(done = Target)
    /\ UNCHANGED <<gen, reg, wordVars, card_set, clocks, player, countVars, saved,
                   answer, askedVars>>

RunCardSetting ==
    /\ Run("program_card")
    /\ \E done \in SUBSET Selected :
          /\ card_set' = [k \in Cards |-> IF k \in done THEN card_set[k] \cup Now.word
                                                        ELSE card_set[k]]
          /\ Ends(done = Selected)
    /\ UNCHANGED <<gen, reg, wordVars, chan_set, clocks, player, countVars, saved,
                   answer, askedVars>>

(* Mutant: the other bits of the word are lost. *)
OthersLost(field) == Now.word

(* Mutant: the bits of the field are not cleared first. *)
FieldNotCleared(field) == reg \cup Now.word

(* flags &= ~field; flags |= word; *)
Merge(field) == (reg \ field) \cup Now.word

(* xsp3_set_run_flags, from setRunMode or from setPlayback *)
RunSetRunFlags ==
    /\ \/ Run("set_run_flags") /\ run_flags' = Now.word /\ UNCHANGED reg
          /\ asked_mode' = Now.word
       \/ Run("put_run_flags") /\ run_flags' = Merge(Playback) /\ reg' = {}
          /\ asked_mode' = IF asked_mode = Unknown THEN Unknown
                           ELSE (asked_mode \ Playback) \cup Now.word
    /\ gen' = 0
    /\ Succeed
    /\ UNCHANGED <<cont, format, setVars, countVars, saved, answer, asked>>

RunSetRunFlagsFails ==
    /\ \/ Run("set_run_flags") \/ Run("put_run_flags")
    /\ Fail
    /\ reg' = {} /\ asked_mode' = Unknown
    /\ \/ UNCHANGED run_flags
       \/ Now.f = "set_run_flags" /\ run_flags' = Now.word
       \/ Now.f = "put_run_flags" /\ run_flags' = Merge(Playback)
    /\ UNCHANGED <<gen, cont, format, setVars, countVars, saved, answer, asked>>

RunGetRunFlags ==
    /\ \/ Run("get_run_flags") /\ reg' = run_flags /\ UNCHANGED answer
       \/ /\ Run("get_run_mode")
          /\ answer' = run_flags \cap (0 .. 3) /\ UNCHANGED reg
    /\ Succeed
    /\ UNCHANGED <<gen, wordVars, setVars, countVars, saved, askedVars>>

RunGetChanCont ==
    /\ Run("get_chan_cont")
    /\ reg' = cont[Now.chan]
    /\ Succeed
    /\ UNCHANGED <<gen, wordVars, setVars, countVars, saved, answer, askedVars>>

RunSetChanCont ==
    /\ Run("set_chan_cont")
    /\ reg' = {}
    /\ \/ /\ cont' = [cont EXCEPT ![Now.chan] = Merge(SelData)]
          /\ asked' = [asked EXCEPT ![Now.chan] = Now.word]
          /\ Succeed
       \/ /\ cont' = cont \/ cont' = [cont EXCEPT ![Now.chan] = Merge(SelData)]
          /\ Unasked({Now.chan})
          /\ Fail
    /\ UNCHANGED <<gen, run_flags, format, setVars, countVars, saved, answer,
                   asked_mode>>

(* The SDK rejects a negative channel; a number that is no DataSrc leaves  *)
(* data_src as the caller had it.                                          *)
RunGetDataSource ==
    /\ Run("get_data_source")
    /\ \/ /\ Now.chan >= 0 /\ Succeed
          /\ answer' \in LET word == cont[Now.chan] \cap SelData
                             sources == {SourceBits(src) : src \in DOMAIN DataSrc}
                         IN  IF word \in sources THEN {word} ELSE sources
       \/ Fail /\ UNCHANGED answer
    /\ UNCHANGED <<gen, reg, wordVars, setVars, countVars, saved, askedVars>>

RunReadFails ==
    /\ \E f \in {"get_run_flags", "get_run_mode", "get_chan_cont"} : Run(f)
    /\ Fail
    /\ UNCHANGED <<gen, reg, wordVars, setVars, countVars, saved, answer, askedVars>>

RunFormat ==
    /\ Run("format_run")
    /\ \E done \in SUBSET Target :
          /\ format' = [c \in Chans |-> IF c \in done THEN Now.word ELSE format[c]]
          /\ Ends(done = Target)
    /\ UNCHANGED <<gen, reg, run_flags, cont, setVars, countVars, saved, answer,
                   askedVars>>

(* str0dig and smooth_join are passed uninitialised, and enb_higher_chan    *)
(* but in generation 2: the file may be unpacked in another way than meant. *)
RunPlaybackLoad ==
    /\ Run("playback_load")
    /\ \E done \in SUBSET Selected, unpacked \in {"meant", "other"} :
          /\ player' = [k \in Cards |-> IF k \in done THEN unpacked ELSE player[k]]
          /\ Ends(done = Selected)
    /\ UNCHANGED <<gen, reg, wordVars, chan_set, card_set, clocks, countVars, saved,
                   answer, askedVars>>

(* Mutant: the last frame is not cleared. *)
AllButLastFrame == 0 .. m_nb_frames - 2

(* xsp3_histogram_clear(m_handle, 0, m_nb_chans, 0, m_nb_frames): the SDK  *)
(* rejects more frames than it has memory for.                             *)
FramesToClear == 0 .. m_nb_frames - 1

RunClear ==
    /\ Run("histogram_clear")
    /\ \E done \in SUBSET Chans :
          /\ m_nb_frames > MaxFrames => done = {}
          /\ mem' = [c \in Chans |-> [f \in Frames |->
                        IF c \in done /\ f \in FramesToClear THEN "clear"
                        ELSE mem[c][f]]]
          /\ \/ /\ done = Chans /\ Succeed
                /\ prepared' = [c \in Chans |-> m_nb_frames]
             \/ Fail /\ UNCHANGED prepared
    /\ UNCHANGED <<gen, reg, wordVars, setVars, phase, seen_idle, saved, answer,
                   askedVars>>

(* A run begins with frame 0: what was counted before is stale.            *)
NewRuns == {"histogram_start", "histogram_arm", "start_count_enb"}

PhaseAfter(f, p) ==
    CASE f \in {"histogram_start", "start_count_enb"} -> "counting"
      [] f = "histogram_arm" -> "armed"
      [] f = "histogram_pause" /\ p = "counting" -> "paused"
      [] f = "histogram_continue" /\ p \in {"armed", "paused"} -> "counting"
      [] f = "histogram_stop" /\ p # "idle" -> "draining"
      [] OTHER -> p

BeginRun(done) ==
    /\ mem' = [c \in Chans |-> [f \in Frames |->
                  IF CardOf(c) \in done /\ mem[c][f] = "own" THEN "stale"
                  ELSE mem[c][f]]]
    /\ prepared' = [c \in Chans |->
                       IF /\ CardOf(c) \in done
                          /\ \/ phase[CardOf(c)] \notin {"idle", "armed"}
                             \/ \E f \in Frames : mem[c][f] = "own"
                       THEN 0 ELSE prepared[c]]

RunHistogram ==
    /\ \E f \in NewRuns \cup {"histogram_pause", "histogram_continue",
                              "histogram_stop"} : Run(f)
    /\ \E done \in SUBSET Selected :
          /\ phase' = [k \in Cards |-> IF k \in done THEN PhaseAfter(Now.f, phase[k])
                                                     ELSE phase[k]]
          /\ \/ Now.f \in NewRuns /\ BeginRun(done)
             \/ Now.f \notin NewRuns /\ UNCHANGED <<mem, prepared>>
          /\ Ends(done = Selected)
    /\ seen_idle' = FALSE
    /\ UNCHANGED <<gen, reg, wordVars, setVars, saved, answer, askedVars>>

(* stop() polls all cards, whatever card is selected.  A thread of the SDK *)
(* that waits for data of a stopped card may be busy or not, and be busy   *)
(* again later: only two polls in a row that find nothing busy mean that   *)
(* nothing is on its way.  A card that counts is busy.                     *)
RunPoll ==
    /\ Run("is_any_busy")
    /\ \A k \in Cards : /\ phase[k] # "counting"
                        /\ seen_idle => phase[k] # "draining"
    /\ Succeed
    /\ seen_idle' = TRUE
    /\ UNCHANGED <<gen, reg, wordVars, setVars, phase, mem, prepared, saved, answer,
                   askedVars>>

(* A poll that found something busy, or failed, which is the same to       *)
(* stop(): it polls again, and does not set its count of idle polls back.  *)
PollBusy ==
    /\ todo # <<>> /\ Now.f = "is_any_busy"
    /\ \/ (\E k \in Cards : phase[k] \in {"counting", "draining"}) /\ UNCHANGED faults
       \/ faults < MaxFaults /\ faults' = faults + 1
    /\ seen_idle' = FALSE
    /\ UNCHANGED <<camVars, m_status, gen, reg, wordVars, setVars, phase, mem, prepared,
                   saved, answer, askedVars, todo, call, outcome, calls, split>>

-----------------------------------------------------------------------------
(* The detector. *)

hwRest == <<camVars, m_status, gen, reg, wordVars, setVars, prepared, seen_idle, saved,
            answer, askedVars, callVars>>

Count(c, f) ==
    /\ phase[CardOf(c)] \in {"counting", "draining"} /\ Hist \subseteq run_flags
    /\ mem[c][f] = "clear"
    /\ mem' = [mem EXCEPT ![c][f] = "own"]
    /\ UNCHANGED <<phase, hwRest>>

Drained(k) ==
    /\ phase[k] = "draining"
    /\ phase' = [phase EXCEPT ![k] = "idle"]
    /\ UNCHANGED <<mem, hwRest>>

-----------------------------------------------------------------------------
CameraCall ==
    \/ \E k \in Cards \cup {AllCards} : SetCard(k)
    \/ \E n \in NbFrames : SetNbFrames(n)
    \/ \E b \in BOOLEAN : SetClearMode(b) \/ SetPlayback(b)
    \/ Reset \/ PrepareAcq \/ Start \/ Arm \/ Pause \/ Restart \/ Stop
    \/ StartScope \/ GetRunMode \/ LoadPlayback \/ ReadRawHistogram
    \/ \E flags \in RunModes : SetRunMode(flags)
    \/ \E c \in ChanArgs, src \in DataSources : SetDataSource(c, src)
    \/ \E c \in ChanArgs, a \in FormatArgs : FormatRun(c, a)
    \/ \E c \in ChanArgs, x \in Scalings : SetScaling(c, x)
    \/ \E c \in ChanArgs :
          \/ GetDataSource(c) \/ InitRoi(c) \/ InitBrams(c) \/ SetRoi(c)
          \/ SetWindow(c) \/ SetGoodThreshold(c) \/ SetRinging(c)
          \/ SetDeadtimeCorrectionParameters(c)
    \/ SetDeadtimeCalculationEnergy
    \/ SetFanSetpoint \/ SetFanController \/ SetAdcTempLimit
    \/ \E src \in ClockArgs : SetupClocks(src)
    \/ GetFanTemperatures \/ SaveSettings \/ RestoreSettings

SdkStep ==
    \/ RunPlain \/ RunGetGeneration \/ RunClocks \/ RunRestoreSettings
    \/ RunSaveSettings \/ RunChannelSetting \/ RunCardSetting
    \/ RunSetRunFlags \/ RunSetRunFlagsFails \/ RunGetRunFlags
    \/ RunGetChanCont \/ RunSetChanCont \/ RunGetDataSource \/ RunReadFails
    \/ RunFormat \/ RunPlaybackLoad \/ RunClear \/ RunHistogram \/ RunPoll

Detector ==
    \/ \E c \in Chans, f \in Frames : Count(c, f)
    \/ \E k \in Cards : Drained(k)

Next == CameraCall \/ SdkStep \/ PollBusy \/ Detector

Spec == Init /\ [][Next]_vars

(* The thread that makes the calls runs, polls of a detector that does not *)
(* count are not busy for ever, and data on its way arrive.                *)
Fairness == WF_vars(SdkStep) /\ \A k \in Cards : WF_vars(Drained(k))

FairSpec == Spec /\ Fairness

-----------------------------------------------------------------------------
CallReturned(name) == call.name = name /\ outcome = "ok"

(* Every variable has its type; a word that was read is kept only until it *)
(* is written back.                                                        *)
ControlTypeOK ==
    /\ m_card \in Cards \cup {AllCards} /\ m_clear_flag \in BOOLEAN
    /\ m_status \in {"Idle", "Paused"}
    /\ m_nb_frames \in NbFrames \cup {1} /\ gen \in {0, Generation, -1}
    /\ reg \subseteq 0 .. 31 /\ run_flags \subseteq 0 .. 31
    /\ reg # {} => outcome \in {"running", "failed"}
    /\ cont \in [Chans -> SUBSET (0 .. 31)] /\ format \in [Chans -> SUBSET (0 .. 31)]
    /\ phase \in [Cards -> Phases]
    /\ mem \in [Chans -> [Frames -> {"clear", "own", "stale"}]]
    /\ outcome \in {"running", "ok", "rejected", "failed"}
    /\ (todo # <<>>) = (outcome = "running")
    /\ calls \in 0 .. MaxCalls /\ faults \in 0 .. MaxFaults
    /\ prepared \in [Chans -> 0 .. MaxFrames] /\ split \in BOOLEAN
    /\ seen_idle \in BOOLEAN

(* After prepareAcq with the clear flag, the frames asked for hold nothing *)
(* but what the run that follows counts, on every channel: the memory is   *)
(* cleared whatever card is selected.  Left out is a run that is started   *)
(* over frames already counted, or while data of the last are on their way. *)
OwnCounts ==
    \A c \in Chans : \A f \in Frames : f < prepared[c] => mem[c][f] # "stale"

(* The cards work alike between calls: they have the same clock and the    *)
(* same settings, unless the user selected a card or an SDK call failed.   *)
CardsTogether ==
    todo = <<>> /\ ~split => \A j, k \in Cards : /\ clocks[j] = clocks[k]
                                                /\ card_set[j] = card_set[k]

StopSelects(k) == m_card < 0 \/ k = m_card

(* While stop() polls, and when it returned, no card it selects counts or  *)
(* can be made to count by restart(), whatever it was doing before: so it  *)
(* waits for none of them.  When it returned no card counts at all, since  *)
(* it polls those it does not select too.                                  *)
StopReaches ==
    /\ CallReturned("stop") \/ (todo # <<>> /\ Now.f = "is_any_busy") =>
          \A k \in Cards : StopSelects(k) => phase[k] \in {"idle", "draining"}
    /\ CallReturned("stop") => \A k \in Cards : phase[k] # "counting"

(* mainpage.h: two consecutive polls that find nothing busy tell that the  *)
(* histogramming threads have flushed what was in the network buffers.  So *)
(* when stop() returned no data is on its way, and what is read from the   *)
(* memory is final.                                                        *)
StopFlushes == CallReturned("stop") => \A k \in Cards : phase[k] # "draining"

(* A stop() of all cards, or of one while no other counts, comes to an end: *)
(* every card that would keep it polling was told to stop.                 *)
StopReturns ==
    call.name = "stop" /\ outcome = "running"
    /\ (\A k \in Cards : StopSelects(k) \/ phase[k] # "counting")
        ~> ~(call.name = "stop" /\ outcome = "running")

(* setDataSource and setPlayback change their own bits of a word and leave *)
(* the others, those of the settings file among them.                      *)
ReadModifyWriteKeeps ==
    [][/\ todo # <<>> /\ Now.f = "set_chan_cont"
          => \A c \in Chans : cont'[c] \ SelData = cont[c] \ SelData
       /\ todo # <<>> /\ Now.f = "put_run_flags"
          => run_flags' \ Playback = run_flags \ Playback]_vars

(* getDataSource returns the source the user set on that channel, alone or *)
(* with all, and getRunMode the run flags the user set, with the playback  *)
(* flag as setPlayback changed it, whatever calls failed or came between.  *)
ReportedAsSet ==
    /\ CallReturned("getDataSource") => asked[call.chan] \in {answer, Unknown}
    /\ CallReturned("getRunMode") => asked_mode \in {answer, Unknown}

(* formatRun leaves the word that the getters of the header read back as   *)
(* its arguments, and full spectra leave no ROI in any channel.            *)
FormatAsAsked ==
    CallReturned("formatRun") =>
        /\ \A c \in ChansOf(call.chan) :
              /\ Decode(Format.get.NBITS_ENG, format[c]) + call.arg.nbits_eng = MaxBitsEng
              /\ Decode(Format.get.NBITS_ADC, format[c]) = NbitsAux[call.arg.adc_bits]
              /\ Decode(Format.get.AUX1_MODE, format[c]) = ResMode(call.arg.aux1_mode)
              /\ Decode(Format.get.AUX2_MODE, format[c]) = call.arg.aux2_mode
        /\ call.arg.nbits_eng = MaxBitsEng =>
              \A c \in Chans : "roi" \notin chan_set[c]

(* After loadPlayback channel 0 plays: its card has the file, playback is  *)
(* on, and its data comes from the stream.  The card selected has to be    *)
(* the one channel 0 is on.                                                *)
PlaybackPlays ==
    CallReturned("loadPlayback") /\ m_card \in {AllCards, CardOf(0)} =>
        /\ player[CardOf(0)] # "none" /\ Playback \subseteq run_flags
        /\ cont[0] \cap SelData = SourceBits("PlaybackStream0")

(* A Camera that was constructed, or reset, is Idle, selects all cards, has *)
(* the run flags for scalers and histograms and, if it has a settings file, *)
(* the channels as they were saved: initRoi comes before the restore.       *)
InitialisedWhole ==
    CallReturned("Camera") \/ CallReturned("reset") =>
        /\ m_card = AllCards /\ m_status = "Idle" /\ run_flags = DefaultMode
        /\ HasSettings => /\ cont = saved.cont /\ format = saved.format
                          /\ chan_set = saved.set
=============================================================================
