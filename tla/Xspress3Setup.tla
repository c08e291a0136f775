--------------------------- MODULE Xspress3Setup ---------------------------
(***************************************************************************)
(* How Camera configures the timing of the detector: the setters Lima      *)
(* calls (setNbFrames, setExpTime, setTrigMode, each of which ends in      *)
(* setTimingMode), the calls a user makes directly (setTiming,             *)
(* setItfgTiming, setCard), and reset.                                     *)
(*                                                                         *)
(* One thread makes these calls, one after the other.  A call is a         *)
(* sequence of calls on the SDK, card by card; any of them may fail, and   *)
(* then the exception leaves the rest undone and m_card where it was.      *)
(*                                                                         *)
(* Times are multiples of 2.5 ns: the frame generator counts ticks of 12.5 *)
(* ns, getExposureTimeRange counts 20 ns.                                  *)
(***************************************************************************)
EXTENDS Integers, Sequences

CONSTANTS
    NbCards,            \* m_nb_cards
    UintMax,            \* UINT_MAX, 2^32 - 1
    NbFrames,           \* the arguments of setNbFrames
    ExpTimes,           \* the arguments of setExpTime
    TimeSrcs,           \* the arguments of setTiming
    AltTtlModes,
    Debounces,
    TriggerModes,       \* those of setItfgTiming
    GapModes,
    HasSettings         \* whether m_config_directory_name is not empty

ASSUME SetupAssumption ==
    /\ NbCards \in Nat \ {0}
    /\ UintMax \in Nat \ {0, 1}
    /\ NbFrames \subseteq Int
    /\ ExpTimes \subseteq Nat
    /\ TimeSrcs \subseteq Int /\ AltTtlModes \subseteq Int
    /\ Debounces \subseteq Int
    /\ TriggerModes \subseteq Int /\ GapModes \subseteq Int
    /\ HasSettings \in BOOLEAN

VARIABLES
    m_card, m_trigger_mode, m_exp_time, m_nb_frames,
    time_a,             \* the timing register of each card
    itfg,               \* the frame generator of card 0
    todo,               \* the SDK calls the current call has still to make
    call, outcome,      \* the last call of the Camera, and how it ended
    applied,            \* the timing is as a setter left it, on all cards
    chosen              \* the user or a failing SDK call left a card selected

camVars == <<m_card, m_trigger_mode, m_exp_time, m_nb_frames>>
regVars == <<time_a, itfg>>
ghosts  == <<applied, chosen>>

vars == <<camVars, regVars, todo, call, outcome, ghosts>>

-----------------------------------------------------------------------------
Cards == 0 .. NbCards - 1
AllCards == -1

AllTrigModes == {"IntTrig", "IntTrigMult", "ExtGate", "ExtTrigMult",
                 "ExtTrigSingle", "ExtStartStop", "ExtTrigReadout"}

(* Camera::setTrigMode *)
ManagedModes == {"IntTrig", "IntTrigMult", "ExtGate", "ExtTrigMult",
                 "ExtTrigSingle"}

(* setTiming: time_src to XSP3_GTIMA_SRC_*, the modes of the TTL outputs *)
Sources ==
    [s \in {0, 1, 3, 4, 5, 6, 7} |->
        CASE s = 0 -> "software" [] s = 1 -> "internal" [] s = 3 -> "idc"
          [] s = 4 -> "ttl_veto" [] s = 5 -> "ttl_both" [] s = 6 -> "lvds_veto"
          [] s = 7 -> "lvds_both"]

AltTtls == {0, 1024, 2048, 4096, 8192, 16384, 32768, 65536, 131072}

ItfgModes == 0 .. 4     \* Burst .. HardwareOnlyFirst
Burst == 0
Gap1us == 3

Registers == [src : {Sources[s] : s \in DOMAIN Sources}, alt : AltTtls,
              debounce : 0 .. 255]
Itfgs == [nframes : Int, itime : 0 .. UintMax, trig : ItfgModes, gap : 0 .. 3]

(* Before anything was written, or as the settings file says. *)
ForeignTimeA == [src |-> "foreign", alt |-> 0, debounce |-> 0]
ForeignItfg == [nframes |-> 0, itime |-> 0, trig |-> 0, gap |-> 0]

-----------------------------------------------------------------------------
(* What is still to do is a sequence of these.  "card" is the argument of  *)
(* the setCard before the call, if there is one.                           *)
Keep == -2

CardArgs == Cards \cup {AllCards, Keep}

TimingCalls == [f : {"setTiming"}, card : CardArgs, src : Int, alt : Int,
                debounce : Int]
ItfgCalls == [f : {"setItfgTiming"}, card : CardArgs, nframes : Int, trig : Int,
              gap : Int]
OtherCalls == [f : {"sdk", "restoreSettings"}, card : CardArgs]

Timing(card, src, alt, debounce) ==
    [f |-> "setTiming", card |-> card, src |-> src, alt |-> alt,
     debounce |-> debounce]

Itfg(card, nframes, trig, gap) ==
    [f |-> "setItfgTiming", card |-> card, nframes |-> nframes, trig |-> trig,
     gap |-> gap]

Other(f, card) == [f |-> f, card |-> card]

(* Mutant: all cards are selected again only after the frame generator. *)
CardAfterItfg ==
    [i \in 1 .. NbCards |-> Timing(i - 1, IF i = 1 THEN 1 ELSE 4, 0,
                                   IF i = 1 THEN 80 ELSE 0)]
    \o <<Itfg(Keep, m_nb_frames', Burst, Gap1us), Other("sdk", AllCards)>>

(* Mutant: the number of frames before it was set. *)
StaleNbFrames ==
    [i \in 1 .. NbCards |-> Timing(i - 1, IF i = 1 THEN 1 ELSE 4, 0,
                                   IF i = 1 THEN 80 ELSE 0)]
    \o <<Itfg(AllCards, m_nb_frames, Burst, Gap1us)>>

(* setTimingMode in IntTrig: card 0 has the frame generator, the others    *)
(* follow it on their TTL inputs.                                          *)
IntTrigCalls ==
    [i \in 1 .. NbCards |-> Timing(i - 1, IF i = 1 THEN 1 ELSE 4, 0,
                                   IF i = 1 THEN 80 ELSE 0)]
    \o <<Itfg(AllCards, m_nb_frames', Burst, Gap1us)>>

ExtGateCalls == <<Timing(Keep, 4, 0, 80)>>

(* setTimingMode does nothing in the other modes, or before the exposure   *)
(* time and the number of frames are known.                                *)
TimingModeCalls ==
    IF m_exp_time' = 0 \/ m_nb_frames' = 0 THEN <<>>
    ELSE CASE m_trigger_mode' = "IntTrig" -> IntTrigCalls
           [] m_trigger_mode' = "ExtGate" -> ExtGateCalls
           [] OTHER -> <<>>

-----------------------------------------------------------------------------
Init ==
    /\ m_card = AllCards /\ m_trigger_mode = "IntTrig"
    /\ m_exp_time = 0 /\ m_nb_frames = 1
    /\ time_a = [c \in Cards |-> ForeignTimeA] /\ itfg = ForeignItfg
    /\ todo = <<>> /\ call = "Camera" /\ outcome = "ok"
    /\ applied = FALSE /\ chosen = FALSE

-----------------------------------------------------------------------------
(* The calls.                                                              *)

Call(name) == todo = <<>> /\ call' = name

Begin(calls) ==
    /\ todo' = calls
    /\ outcome' = IF calls = <<>> THEN "ok" ELSE "running"
    /\ applied' = FALSE
    /\ UNCHANGED <<regVars, chosen>>

(* The call throws before it did anything. *)
Reject == outcome' = "rejected" /\ UNCHANGED <<camVars, regVars, todo, ghosts>>

(* The guard looks at the number of the last call. *)
SetNbFrames(nb_frames) ==
    /\ Call("setNbFrames")
    /\ \/ /\ m_nb_frames >= 0
          /\ m_nb_frames' = nb_frames
          /\ UNCHANGED <<m_card, m_trigger_mode, m_exp_time>>
          /\ Begin(TimingModeCalls)
       \/ m_nb_frames < 0 /\ Reject

SetExpTime(exp_time) ==
    /\ Call("setExpTime")
    /\ m_exp_time' = exp_time
    /\ UNCHANGED <<m_card, m_trigger_mode, m_nb_frames>>
    /\ Begin(TimingModeCalls)

SetTrigMode(mode) ==
    /\ Call("setTrigMode")
    /\ \/ /\ mode \in ManagedModes
          /\ m_trigger_mode' = mode
          /\ UNCHANGED <<m_card, m_exp_time, m_nb_frames>>
          /\ Begin(TimingModeCalls)
       \/ mode \notin ManagedModes /\ Reject

SetCard(card) ==
    /\ Call("setCard")
    /\ m_card' = card
    /\ outcome' = "ok"
    /\ chosen' = (card # AllCards)
    /\ UNCHANGED <<m_trigger_mode, m_exp_time, m_nb_frames, regVars, todo,
                   applied>>

SetTiming(src, alt, debounce) ==
    /\ Call("setTiming")
    /\ UNCHANGED camVars
    /\ Begin(<<Timing(Keep, src, alt, debounce)>>)

SetItfgTiming(nframes, trig, gap) ==
    /\ Call("setItfgTiming")
    /\ UNCHANGED camVars
    /\ Begin(<<Itfg(Keep, nframes, trig, gap)>>)

(* init: the connection and the ROIs, the clocks of each card, the settings *)
(* of the file if there is one, the run flags.                             *)
InitCalls ==
    <<Other("sdk", Keep), Other("sdk", Keep)>>
    \o [i \in 1 .. NbCards |-> Other("sdk", i - 1)]
    \o (IF HasSettings THEN <<Other("restoreSettings", AllCards)>> ELSE <<>>)
    \o <<Other("sdk", AllCards)>>

Reset ==
    /\ Call("reset")
    /\ UNCHANGED camVars
    /\ Begin(InitCalls)

-----------------------------------------------------------------------------
(* The steps of a call.                                                    *)

Now == Head(todo)

(* setCard before the call *)
Select ==
    /\ m_card' = IF Now.card = Keep THEN m_card ELSE Now.card
    /\ chosen' = (chosen /\ Now.card # AllCards)

Selected == IF m_card' < 0 THEN Cards ELSE {m_card'}

Setters == {"setNbFrames", "setExpTime", "setTrigMode"}

Run(f) == todo # <<>> /\ Now.f = f /\ Select

Done ==
    /\ todo' = Tail(todo)
    /\ outcome' = IF Tail(todo) = <<>> THEN "ok" ELSE "running"
    /\ applied' = (Tail(todo) = <<>> /\ call \in Setters /\ m_card' = AllCards)
    /\ UNCHANGED <<m_trigger_mode, m_exp_time, m_nb_frames, call>>

(* THROW_HW_ERROR *)
Throw ==
    /\ todo' = <<>>
    /\ outcome' = "rejected"
    /\ UNCHANGED <<m_trigger_mode, m_exp_time, m_nb_frames, regVars, call,
                   applied>>

TimingValid ==
    /\ Now.src \in DOMAIN Sources
    /\ Now.debounce <= 255
    /\ Now.alt \in AltTtls

(* Mutant: the default debounce time is forgotten. *)
AnyDebounce == [src |-> Sources[Now.src], alt |-> Now.alt,
                debounce |-> Now.debounce]

TimeA == [src |-> Sources[Now.src], alt |-> Now.alt,
          debounce |-> IF Now.debounce < 0 THEN 80 ELSE Now.debounce]

(* xsp3_set_glob_timeA and xsp3_set_glob_timeFixed on the selected cards *)
RunTiming ==
    /\ Run("setTiming")
    /\ \/ /\ TimingValid
          /\ time_a' = [c \in Cards |-> IF c \in Selected THEN TimeA ELSE time_a[c]]
          /\ UNCHANGED itfg
          /\ Done
       \/ ~TimingValid /\ Throw

Tick == 5               \* 12.5 ns

(* Mutant: 12.5E-9 * 2.0 * UINT_MAX *)
TooLongByOne(exp_time) == exp_time > Tick * 2 * UintMax

(* m_exp_time > 12.5E-9 * 2.0 * 0x7FFFFFFF *)
TooLong(exp_time) == exp_time > Tick * (UintMax - 1)

(* (u_int32_t)(m_exp_time / 12.5E-9) *)
Itime(exp_time) == (exp_time \div Tick) % (UintMax + 1)

ItfgValid ==
    /\ m_exp_time > 0
    /\ Now.trig \in ItfgModes
    /\ ~TooLong(m_exp_time)
    /\ Itime(m_exp_time) >= 2

(* xsp3_itfg_setup, always on card 0 *)
RunItfg ==
    /\ Run("setItfgTiming")
    /\ \/ /\ ItfgValid
          /\ itfg' = [nframes |-> Now.nframes, itime |-> Itime(m_exp_time),
                      trig |-> Now.trig,
                      gap |-> IF Now.gap \in 0 .. 2 THEN Now.gap ELSE Gap1us]
          /\ UNCHANGED time_a
          /\ Done
       \/ ~ItfgValid /\ Throw

(* The calls that have nothing to do with the timing, and the one that     *)
(* loads all registers from the settings file.                             *)
RunOther ==
    \/ Run("sdk") /\ UNCHANGED regVars /\ Done
    \/ /\ Run("restoreSettings")
       /\ time_a' = [c \in Cards |-> ForeignTimeA] /\ itfg' = ForeignItfg
       /\ Done

(* An SDK call fails; on some of the cards it may have been done. *)
SdkFault ==
    /\ todo # <<>>
    /\ m_card' = IF Now.card = Keep THEN m_card ELSE Now.card
    /\ chosen' = TRUE
    /\ \/ Now.f = "setTiming" /\ TimingValid
       \/ Now.f = "setItfgTiming" /\ ItfgValid
       \/ Now.f \in {"sdk", "restoreSettings"}
    /\ todo' = <<>> /\ outcome' = "failed"
    /\ \E written \in SUBSET Selected :
          time_a' = IF Now.f = "setTiming"
                    THEN [c \in Cards |-> IF c \in written THEN TimeA ELSE time_a[c]]
                    ELSE time_a
    /\ UNCHANGED <<m_trigger_mode, m_exp_time, m_nb_frames, itfg, call, applied>>

-----------------------------------------------------------------------------
CameraCall ==
    \/ \E n \in NbFrames : SetNbFrames(n)
    \/ \E t \in ExpTimes : SetExpTime(t)
    \/ \E mode \in AllTrigModes : SetTrigMode(mode)
    \/ \E c \in Cards \cup {AllCards} : SetCard(c)
    \/ \E s \in TimeSrcs, a \in AltTtlModes, d \in Debounces : SetTiming(s, a, d)
    \/ \E n \in NbFrames, m \in TriggerModes, g \in GapModes : SetItfgTiming(n, m, g)
    \/ Reset

Next == CameraCall \/ RunTiming \/ RunItfg \/ RunOther \/ SdkFault

Spec == Init /\ [][Next]_vars

-----------------------------------------------------------------------------
(* Every variable has its type; a frame generator that was programmed has  *)
(* an exposure time it can count.                                          *)
SetupTypeOK ==
    /\ m_card \in Cards \cup {AllCards}
    /\ m_trigger_mode \in ManagedModes
    /\ m_exp_time \in ExpTimes \cup {0} /\ m_nb_frames \in NbFrames \cup {1}
    /\ time_a \in [Cards -> Registers \cup {ForeignTimeA}]
    /\ itfg \in [nframes : Int, itime : 0 .. UintMax, trig : ItfgModes,
                 gap : 0 .. 3]
    /\ todo \in Seq(TimingCalls \cup ItfgCalls \cup OtherCalls)
    /\ call \in {"Camera", "setCard", "setTiming", "setItfgTiming", "reset"}
               \cup Setters
    /\ outcome \in {"running", "ok", "rejected", "failed"}
    /\ applied \in BOOLEAN /\ chosen \in BOOLEAN

(* The time the frame generator counts is the exposure time, rounded down  *)
(* to a tick.                                                              *)
CountsExposure(setup) ==
    /\ setup.itime * Tick <= m_exp_time
    /\ m_exp_time < (setup.itime + 1) * Tick

(* What getTrigMode, getExpTime and getNbFrames report is what the         *)
(* detector was told, on every card: a setter that returned normally with  *)
(* all cards selected has written all that depends on what it changed, and *)
(* the calls that follow it keep it so until one of them writes the timing *)
(* again.                                                                  *)
ConfiguredAsReported ==
    applied =>
        /\ \A c \in Cards :
              time_a[c].src = IF m_trigger_mode = "IntTrig" /\ c = 0
                              THEN "internal" ELSE "ttl_veto"
        /\ m_trigger_mode = "IntTrig" =>
              itfg.nframes = m_nb_frames /\ CountsExposure(itfg)

(* Between calls all cards are selected, unless the user chose one or an   *)
(* SDK call failed: a setter or reset that walks over the cards selects    *)
(* them all again, even if setItfgTiming rejects the exposure time.        *)
AllCardsSelected == todo = <<>> /\ ~chosen => m_card = AllCards

(* The frame generator is never programmed with a time other than the one  *)
(* getExpTime reports: no exposure time that was let through wraps around  *)
(* when it is converted to 32 bits.                                        *)
ProgrammedTimeIsReported ==
    [][itfg' # itfg /\ itfg' # ForeignItfg => CountsExposure(itfg')]_vars

-----------------------------------------------------------------------------
(* What comments say, and the code does not do.                            *)

(* getExposureTimeRange: "32bits x 20 ns".  setExpTime accepts the times   *)
(* up to the maximum it reports, but for those below two ticks.            *)
MaxExposure == 8 * UintMax

RangeAccepted ==
    call = "setExpTime" /\ outcome = "rejected"
    => m_exp_time < 2 * Tick \/ m_exp_time > MaxExposure
=============================================================================
