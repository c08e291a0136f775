------------------------ MODULE Xspress3SetupProofs ------------------------
(***************************************************************************)
(* The timing configuration: types, the programmed exposure time, and the  *)
(* selection of the cards, for any number of cards and any width of the    *)
(* frame generator's counter.                                              *)
(***************************************************************************)
EXTENDS Xspress3Setup, TLAPS

SdkCalls == TimingCalls \cup ItfgCalls \cup OtherCalls

-----------------------------------------------------------------------------
(* What a call has to do is a sequence of SDK calls.                       *)

LEMMA CallRecords ==
    /\ \A card \in CardArgs, src \in Int, alt \in Int, debounce \in Int :
          Timing(card, src, alt, debounce) \in SdkCalls
    /\ \A card \in CardArgs, nframes \in Int, trig \in Int, gap \in Int :
          Itfg(card, nframes, trig, gap) \in SdkCalls
    /\ \A card \in CardArgs : /\ Other("sdk", card) \in SdkCalls
                              /\ Other("restoreSettings", card) \in SdkCalls
BY DEF Timing, Itfg, Other, SdkCalls, TimingCalls, ItfgCalls, OtherCalls

LEMMA CardArgument ==
    /\ AllCards \in CardArgs /\ Keep \in CardArgs
    /\ \A i \in 1 .. NbCards : i - 1 \in CardArgs
BY SetupAssumption DEF CardArgs, Cards, AllCards, Keep

LEMMA IntTrigTyped ==
    ASSUME m_nb_frames' \in Int
    PROVE  IntTrigCalls \in Seq(SdkCalls)
<1> DEFINE walk == [i \in 1 .. NbCards |->
                       Timing(i - 1, IF i = 1 THEN 1 ELSE 4, 0,
                              IF i = 1 THEN 80 ELSE 0)]
           last == Itfg(AllCards, m_nb_frames', Burst, Gap1us)
<1>1. \A i \in 1 .. NbCards : walk[i] \in SdkCalls
  BY CallRecords, CardArgument
<1>2. walk \in Seq(SdkCalls)
  BY <1>1, SetupAssumption
<1>3. last \in SdkCalls
  BY CallRecords, CardArgument DEF Burst, Gap1us
<1> HIDE DEF walk, last
<1>4. walk \o <<last>> \in Seq(SdkCalls)
  BY <1>2, <1>3
<1> QED
  BY <1>4 DEF IntTrigCalls, walk, last

LEMMA TimingModeTyped ==
    ASSUME m_nb_frames' \in Int
    PROVE  TimingModeCalls \in Seq(SdkCalls)
<1>1. IntTrigCalls \in Seq(SdkCalls)
  BY IntTrigTyped
<1>2. ExtGateCalls \in Seq(SdkCalls)
  BY CallRecords, CardArgument DEF ExtGateCalls
<1>3. <<>> \in Seq(SdkCalls)
  OBVIOUS
<1> QED
  BY <1>1, <1>2, <1>3 DEF TimingModeCalls

LEMMA InitTyped == InitCalls \in Seq(SdkCalls)
<1> DEFINE walk == [i \in 1 .. NbCards |-> Other("sdk", i - 1)]
           load == IF HasSettings THEN <<Other("restoreSettings", AllCards)>>
                                  ELSE <<>>
<1>1. \A i \in 1 .. NbCards : walk[i] \in SdkCalls
  BY CallRecords, CardArgument
<1>2. walk \in Seq(SdkCalls)
  BY <1>1, SetupAssumption
<1>3. load \in Seq(SdkCalls)
  BY CallRecords, CardArgument
<1>4. /\ <<Other("sdk", Keep), Other("sdk", Keep)>> \in Seq(SdkCalls)
      /\ <<Other("sdk", AllCards)>> \in Seq(SdkCalls)
  BY CallRecords, CardArgument
<1> HIDE DEF walk, load
<1>5. <<Other("sdk", Keep), Other("sdk", Keep)>> \o walk \o load
        \o <<Other("sdk", AllCards)>> \in Seq(SdkCalls)
  BY <1>2, <1>3, <1>4
<1> QED
  BY <1>5 DEF InitCalls, walk, load

-----------------------------------------------------------------------------
(* Types.                                                                  *)

LEMMA NbFramesInt ==
    SetupTypeOK => m_nb_frames \in Int /\ m_exp_time \in Nat
BY SetupAssumption DEF SetupTypeOK

(* A call that starts. *)
LEMMA CallTyped == SetupTypeOK /\ CameraCall => SetupTypeOK'
<1> SUFFICES ASSUME SetupTypeOK, CameraCall PROVE SetupTypeOK'
  OBVIOUS
<1> USE DEF SetupTypeOK, Setters, Call, camVars, regVars, ghosts
<1>1. CASE \E n \in NbFrames : SetNbFrames(n)
  <2>1. PICK n \in NbFrames : SetNbFrames(n)
    BY <1>1
  <2>2. CASE UNCHANGED todo
    BY <2>1, <2>2 DEF SetNbFrames, Begin, Reject
  <2>3. CASE todo' = TimingModeCalls
    <3>1. m_nb_frames' \in NbFrames \cup {1}
      BY <2>1 DEF SetNbFrames, Reject
    <3>2. TimingModeCalls \in Seq(SdkCalls)
      BY <3>1, SetupAssumption, TimingModeTyped
    <3> QED
      BY <2>1, <2>3, <3>1, <3>2 DEF SetNbFrames, Begin, Reject, SdkCalls
  <2> QED
    BY <2>1, <2>2, <2>3 DEF SetNbFrames, Begin, Reject
<1>2. CASE \E t \in ExpTimes : SetExpTime(t)
  <2>1. PICK t \in ExpTimes : SetExpTime(t)
    BY <1>2
  <2>2. TimingModeCalls \in Seq(SdkCalls)
    BY <2>1, NbFramesInt, TimingModeTyped DEF SetExpTime
  <2> QED
    BY <2>1, <2>2 DEF SetExpTime, Begin, SdkCalls
<1>3. CASE \E mode \in AllTrigModes : SetTrigMode(mode)
  <2>1. PICK mode \in AllTrigModes : SetTrigMode(mode)
    BY <1>3
  <2>2. CASE mode \in ManagedModes
    <3>1. TimingModeCalls \in Seq(SdkCalls)
      BY <2>1, <2>2, NbFramesInt, TimingModeTyped DEF SetTrigMode
    <3> QED
      BY <2>1, <2>2, <3>1 DEF SetTrigMode, Begin, SdkCalls
  <2>3. CASE mode \notin ManagedModes
    BY <2>1, <2>3 DEF SetTrigMode, Reject
  <2> QED
    BY <2>2, <2>3
<1>4. CASE \E c \in Cards \cup {AllCards} : SetCard(c)
  <2>1. PICK c \in Cards \cup {AllCards} : SetCard(c)
    BY <1>4
  <2>2. chosen' \in BOOLEAN
    BY <2>1 DEF SetCard
  <2> QED
    BY <2>1, <2>2 DEF SetCard
<1>5. CASE \E s \in TimeSrcs, a \in AltTtlModes, d \in Debounces :
             SetTiming(s, a, d)
  <2>1. PICK s \in TimeSrcs, a \in AltTtlModes, d \in Debounces :
           SetTiming(s, a, d)
    BY <1>5
  <2>2. <<Timing(Keep, s, a, d)>> \in Seq(SdkCalls)
    BY SetupAssumption, CallRecords, CardArgument
  <2> QED
    BY <2>1, <2>2 DEF SetTiming, Begin, SdkCalls
<1>6. CASE \E n \in NbFrames, m \in TriggerModes, g \in GapModes :
             SetItfgTiming(n, m, g)
  <2>1. PICK n \in NbFrames, m \in TriggerModes, g \in GapModes :
           SetItfgTiming(n, m, g)
    BY <1>6
  <2>2. <<Itfg(Keep, n, m, g)>> \in Seq(SdkCalls)
    BY SetupAssumption, CallRecords, CardArgument
  <2> QED
    BY <2>1, <2>2 DEF SetItfgTiming, Begin, SdkCalls
<1>7. CASE Reset
  BY <1>7, InitTyped DEF Reset, Begin, SdkCalls
<1> QED
  BY <1>1, <1>2, <1>3, <1>4, <1>5, <1>6, <1>7 DEF CameraCall

(* Calling the SDK selects a card, or keeps the one selected. *)
LEMMA SelectTyped ==
    SetupTypeOK /\ todo # <<>> /\ Select
    => m_card' \in Cards \cup {AllCards} /\ chosen' \in BOOLEAN
<1> SUFFICES ASSUME SetupTypeOK, todo # <<>>, Select
             PROVE  m_card' \in Cards \cup {AllCards} /\ chosen' \in BOOLEAN
  OBVIOUS
<1>1. Now \in TimingCalls \cup ItfgCalls \cup OtherCalls
  BY DEF SetupTypeOK, Now
<1>2. Now.card \in CardArgs
  BY <1>1 DEF TimingCalls, ItfgCalls, OtherCalls
<1>3. m_card' \in Cards \cup {AllCards}
  BY <1>2 DEF SetupTypeOK, Select, CardArgs
<1>4. chosen' \in BOOLEAN
  BY DEF Select
<1> QED
  BY <1>3, <1>4

LEMMA TimeATyped ==
    SetupTypeOK /\ todo # <<>> /\ Now.f = "setTiming" /\ TimingValid
    => TimeA \in Registers
<1> SUFFICES ASSUME SetupTypeOK, todo # <<>>, Now.f = "setTiming", TimingValid
             PROVE  TimeA \in Registers
  OBVIOUS
<1>1. Now \in TimingCalls \cup ItfgCalls \cup OtherCalls
  BY DEF SetupTypeOK, Now
<1>2. Now.debounce \in Int
  BY <1>1 DEF TimingCalls, ItfgCalls, OtherCalls
<1>3. (IF Now.debounce < 0 THEN 80 ELSE Now.debounce) \in 0 .. 255
  <2>1. Now.debounce <= 255
    BY DEF TimingValid
  <2>2. \A d \in Int : d <= 255 => (IF d < 0 THEN 80 ELSE d) \in 0 .. 255
    OBVIOUS
  <2> QED
    BY <1>2, <2>1, <2>2
<1>4. Sources[Now.src] \in {Sources[s] : s \in DOMAIN Sources}
  BY DEF TimingValid
<1>5. Now.alt \in AltTtls
  BY DEF TimingValid
<1> QED
  BY <1>3, <1>4, <1>5 DEF TimeA, Registers

LEMMA ItimeTyped ==
    \A t \in Nat : Itime(t) \in 0 .. UintMax
<1> SUFFICES ASSUME NEW t \in Nat PROVE Itime(t) \in 0 .. UintMax
  OBVIOUS
<1>1. t \div Tick \in Int
  BY DEF Tick
<1> QED
  BY <1>1, SetupAssumption DEF Itime

LEMMA RunTyped ==
    SetupTypeOK /\ (RunTiming \/ RunItfg \/ RunOther \/ SdkFault) => SetupTypeOK'
<1> SUFFICES ASSUME SetupTypeOK, RunTiming \/ RunItfg \/ RunOther \/ SdkFault
             PROVE  SetupTypeOK'
  OBVIOUS
<1>1. todo # <<>>
  BY DEF RunTiming, RunItfg, RunOther, SdkFault, Run
<1>2. m_card' \in Cards \cup {AllCards} /\ chosen' \in BOOLEAN
  <2>1. CASE Select
    BY <1>1, <2>1, SelectTyped
  <2>2. CASE SdkFault
    <3>1. Now \in TimingCalls \cup ItfgCalls \cup OtherCalls
      BY <1>1 DEF SetupTypeOK, Now
    <3>2. Now.card \in CardArgs
      BY <3>1 DEF TimingCalls, ItfgCalls, OtherCalls
    <3> QED
      BY <2>2, <3>2 DEF SetupTypeOK, SdkFault, CardArgs
  <2> QED
    BY <2>1, <2>2 DEF RunTiming, RunItfg, RunOther, Run
<1>3. UNCHANGED <<m_trigger_mode, m_exp_time, m_nb_frames, call>>
  BY DEF RunTiming, RunItfg, RunOther, SdkFault, Done, Throw
<1>4. todo' \in Seq(TimingCalls \cup ItfgCalls \cup OtherCalls)
  <2>1. todo' = <<>> \/ todo' = Tail(todo)
    BY DEF RunTiming, RunItfg, RunOther, SdkFault, Done, Throw
  <2>2. todo \in Seq(TimingCalls \cup ItfgCalls \cup OtherCalls)
    BY DEF SetupTypeOK
  <2> HIDE DEF SetupTypeOK
  <2>3. \A S : \A q \in Seq(S) : q # <<>> => Tail(q) \in Seq(S)
    OBVIOUS
  <2>4. Tail(todo) \in Seq(TimingCalls \cup ItfgCalls \cup OtherCalls)
    BY <1>1, <2>2, <2>3, Zenon
  <2>5. <<>> \in Seq(TimingCalls \cup ItfgCalls \cup OtherCalls)
    OBVIOUS
  <2> QED
    BY <2>1, <2>4, <2>5
<1>5. /\ outcome' \in {"running", "ok", "rejected", "failed"}
      /\ applied' \in BOOLEAN
  BY Zenon DEF SetupTypeOK, RunTiming, RunItfg, RunOther, SdkFault, Done, Throw
<1>6. time_a' \in [Cards -> Registers \cup {ForeignTimeA}]
  <2>1. CASE time_a' = time_a \/ time_a' = [c \in Cards |-> ForeignTimeA]
    BY <2>1 DEF SetupTypeOK
  <2>2. ASSUME NEW S \in SUBSET Cards, Now.f = "setTiming", TimingValid,
               time_a' = [c \in Cards |-> IF c \in S THEN TimeA ELSE time_a[c]]
        PROVE  time_a' \in [Cards -> Registers \cup {ForeignTimeA}]
    <3>1. TimeA \in Registers
      BY <1>1, <2>2, TimeATyped
    <3> QED
      BY <2>2, <3>1 DEF SetupTypeOK
  <2>3. Selected \subseteq Cards
    BY <1>2 DEF Selected, AllCards, Cards
  <2>4. CASE RunTiming
    BY <2>1, <2>2, <2>3, <2>4 DEF RunTiming, Run, Throw, regVars
  <2>5. CASE SdkFault
    <3>1. CASE Now.f = "setTiming"
      <4>1. PICK S \in SUBSET Selected :
               time_a' = [c \in Cards |-> IF c \in S THEN TimeA ELSE time_a[c]]
        BY <2>5, <3>1 DEF SdkFault
      <4>2. TimingValid
        BY <2>5, <3>1 DEF SdkFault
      <4>3. S \in SUBSET Cards
        BY <2>3
      <4> QED
        BY <2>2, <3>1, <4>1, <4>2, <4>3
    <3>2. CASE Now.f # "setTiming"
      BY <2>1, <2>5, <3>2 DEF SdkFault
    <3> QED
      BY <3>1, <3>2
  <2>6. CASE RunItfg
    BY <2>1, <2>6 DEF RunItfg, Throw, regVars
  <2>7. CASE RunOther
    BY <2>1, <2>7 DEF RunOther, regVars
  <2> QED
    BY <2>4, <2>5, <2>6, <2>7
<1>7. itfg' \in [nframes : Int, itime : 0 .. UintMax, trig : ItfgModes,
                 gap : 0 .. 3]
  <2>1. CASE itfg' = itfg
    BY <2>1 DEF SetupTypeOK
  <2>2. CASE itfg' = ForeignItfg
    BY <2>2, SetupAssumption DEF ForeignItfg, ItfgModes
  <2>3. CASE RunItfg /\ itfg' # itfg
    <3>1. /\ Now.f = "setItfgTiming" /\ ItfgValid
          /\ itfg' = [nframes |-> Now.nframes, itime |-> Itime(m_exp_time),
                      trig |-> Now.trig,
                      gap |-> IF Now.gap \in 0 .. 2 THEN Now.gap ELSE Gap1us]
      BY <2>3 DEF RunItfg, Run, Throw, regVars
    <3>2. Now \in TimingCalls \cup ItfgCalls \cup OtherCalls
      BY <1>1 DEF SetupTypeOK, Now
    <3>3. Now.nframes \in Int
      BY <3>1, <3>2 DEF TimingCalls, ItfgCalls, OtherCalls
    <3>4. Itime(m_exp_time) \in 0 .. UintMax
      BY NbFramesInt, ItimeTyped
    <3>5. (IF Now.gap \in 0 .. 2 THEN Now.gap ELSE Gap1us) \in 0 .. 3
      BY DEF Gap1us
    <3>6. Now.trig \in ItfgModes
      BY <3>1 DEF ItfgValid
    <3> QED
      BY <3>1, <3>3, <3>4, <3>5, <3>6
  <2> QED
    BY <2>1, <2>2, <2>3 DEF RunTiming, RunItfg, RunOther, SdkFault, Throw, regVars
<1> QED
  BY <1>2, <1>3, <1>4, <1>5, <1>6, <1>7 DEF SetupTypeOK

LEMMA SetupTypeInit == Init => SetupTypeOK
<1> SUFFICES ASSUME Init PROVE SetupTypeOK
  OBVIOUS
<1>1. itfg \in [nframes : Int, itime : 0 .. UintMax, trig : ItfgModes,
                gap : 0 .. 3]
  BY SetupAssumption DEF Init, ForeignItfg, ItfgModes
<1>2. time_a \in [Cards -> Registers \cup {ForeignTimeA}]
  BY DEF Init
<1>3. todo \in Seq(TimingCalls \cup ItfgCalls \cup OtherCalls)
  BY DEF Init
<1>4. applied \in BOOLEAN /\ chosen \in BOOLEAN
  BY Zenon DEF Init
<1> QED
  BY <1>1, <1>2, <1>3, <1>4 DEF Init, SetupTypeOK, ManagedModes, Setters

LEMMA SetupTypeNext == SetupTypeOK /\ [Next]_vars => SetupTypeOK'
<1>1. SetupTypeOK /\ UNCHANGED vars => SetupTypeOK'
  BY DEF SetupTypeOK, vars, camVars, regVars, ghosts
<1> QED
  BY <1>1, CallTyped, RunTyped DEF Next

(* The variables of the timing configuration keep their types: no register *)
(* gets a value it cannot hold, whatever the calls and the SDK failures.   *)
THEOREM SetupTypeCorrect == Spec => []SetupTypeOK
<1>1. Init => SetupTypeOK
  BY SetupTypeInit
<1>2. SetupTypeOK /\ [Next]_vars => SetupTypeOK'
  BY SetupTypeNext
<1> QED
  BY <1>1, <1>2, PTL DEF Spec

-----------------------------------------------------------------------------
(* The programmed exposure time.                                           *)

(* An exposure time that is let through fits the counter. *)
LEMMA NoWrap ==
    ASSUME NEW t \in Nat, ~TooLong(t)
    PROVE  /\ Itime(t) = t \div Tick
           /\ Itime(t) * Tick <= t
           /\ t < (Itime(t) + 1) * Tick
<1>1. t \div 5 \in 0 .. UintMax /\ 5 * (t \div 5) <= t /\ t < 5 * (t \div 5) + 5
  BY SetupAssumption DEF TooLong, Tick
<1>2. (t \div 5) % (UintMax + 1) = t \div 5
  <2>1. \A n \in Nat, m \in Nat : n < m => n % m = n
    OBVIOUS
  <2> QED
    BY <1>1, <2>1, SetupAssumption
<1>3. Itime(t) = t \div 5
  BY <1>2 DEF Itime, Tick
<1> QED
  BY <1>1, <1>3 DEF Tick

(* The frame generator is never programmed with another time than the one  *)
(* getExpTime reports, rounded down to a tick: setItfgTiming lets no time  *)
(* through that its conversion to an unsigned 32 bit number would wrap.    *)
THEOREM ExposureIsProgrammed == Spec => ProgrammedTimeIsReported
<1>1. SetupTypeOK /\ [Next]_vars
      => [itfg' # itfg /\ itfg' # ForeignItfg => CountsExposure(itfg')]_vars
  <2> SUFFICES ASSUME SetupTypeOK, Next, itfg' # itfg, itfg' # ForeignItfg
               PROVE  CountsExposure(itfg')
    BY DEF vars, regVars
  <2>1. RunItfg
    BY DEF Next, CameraCall, SetNbFrames, SetExpTime, SetTrigMode, SetCard,
       SetTiming, SetItfgTiming, Reset, Begin, Reject, RunTiming, RunOther,
       SdkFault, Throw, regVars
  <2>2. ItfgValid /\ itfg'.itime = Itime(m_exp_time)
    BY <2>1 DEF RunItfg, Throw, regVars
  <2>3. m_exp_time \in Nat
    BY NbFramesInt
  <2> QED
    BY <2>2, <2>3, NoWrap DEF ItfgValid, CountsExposure
<1> QED
  BY <1>1, SetupTypeCorrect, PTL DEF Spec, ProgrammedTimeIsReported

-----------------------------------------------------------------------------
(* The selection of the cards.                                             *)

(* An SDK call that no argument makes throw. *)
Valid(c) ==
    \/ c.f \in {"sdk", "restoreSettings"}
    \/ /\ c.f = "setTiming"
       /\ c.src \in DOMAIN Sources /\ c.debounce <= 255 /\ c.alt \in AltTtls

(* A call that walks over the cards ends by selecting them all, and throws *)
(* only once it has; the others leave the selection alone.                 *)
Walk(calls) ==
    /\ calls # <<>>
    /\ calls[Len(calls)].card = AllCards
    /\ \A i \in 1 .. Len(calls) : Valid(calls[i]) \/ calls[i].card = AllCards

Stay(calls) == \A i \in 1 .. Len(calls) : calls[i].card = Keep

SelectInv ==
    \/ Walk(todo)
    \/ Stay(todo) /\ (~chosen => m_card = AllCards)

(* A function on 1 .. n is a sequence, and what <<x>> behind it adds. *)
LEMMA FunctionIsSeq ==
    ASSUME NEW n \in Nat, NEW S, NEW f \in [1 .. n -> S]
    PROVE  f \in Seq(S) /\ Len(f) = n
OBVIOUS

LEMMA OneMore ==
    ASSUME NEW S, NEW s \in Seq(S), NEW x \in S
    PROVE  /\ Len(s \o <<x>>) = Len(s) + 1
           /\ \A i \in 1 .. Len(s) : (s \o <<x>>)[i] = s[i]
           /\ (s \o <<x>>)[Len(s) + 1] = x
OBVIOUS

LEMMA IntTrigWalks == Walk(IntTrigCalls)
<1> DEFINE walk == [i \in 1 .. NbCards |->
                       Timing(i - 1, IF i = 1 THEN 1 ELSE 4, 0,
                              IF i = 1 THEN 80 ELSE 0)]
           last == Itfg(AllCards, m_nb_frames', Burst, Gap1us)
<1>1. last.card = AllCards
  BY DEF Itfg
<1>2. \A i \in 1 .. NbCards : Valid(walk[i])
  BY DEF Valid, Timing, Sources, AltTtls
<1> HIDE DEF last
<1> DEFINE calls == {walk[i] : i \in 1 .. NbCards} \cup {last}
<1>3. walk \in [1 .. NbCards -> calls] /\ last \in calls
  OBVIOUS
<1> HIDE DEF walk, calls
<1>4. Len(walk) = NbCards /\ walk \in Seq(calls)
  BY <1>3, FunctionIsSeq, SetupAssumption
<1>5. /\ Len(walk \o <<last>>) = NbCards + 1
      /\ \A i \in 1 .. NbCards : (walk \o <<last>>)[i] = walk[i]
      /\ (walk \o <<last>>)[NbCards + 1] = last
  BY <1>3, <1>4, OneMore
<1>6. Walk(walk \o <<last>>)
  BY <1>1, <1>2, <1>5, SetupAssumption DEF Walk
<1> QED
  BY <1>6 DEF IntTrigCalls, walk, last

LEMMA InitWalks == Walk(InitCalls)
<1> DEFINE others == {Other(f, c) : f \in {"sdk", "restoreSettings"}, c \in CardArgs}
           walk == [i \in 1 .. NbCards |-> Other("sdk", i - 1)]
           load == IF HasSettings THEN <<Other("restoreSettings", AllCards)>>
                                  ELSE <<>>
           before == <<Other("sdk", Keep), Other("sdk", Keep)>> \o walk \o load
           last == Other("sdk", AllCards)
<1>1. \A c \in others : Valid(c)
  BY DEF Valid, Other
<1>2. walk \in Seq(others)
  <2>1. \A i \in 1 .. NbCards : Other("sdk", i - 1) \in others
    BY CardArgument
  <2> QED
    BY <2>1, SetupAssumption
<1>3. load \in Seq(others)
  <2>1. Other("restoreSettings", AllCards) \in others
    BY CardArgument
  <2> HIDE DEF others
  <2> QED
    BY <2>1
<1>4. <<Other("sdk", Keep), Other("sdk", Keep)>> \in Seq(others)
  BY CardArgument
<1>5. last \in others /\ last.card = AllCards
  BY CardArgument DEF Other
<1> HIDE DEF others, walk, load, last
<1>6. before \in Seq(others)
  BY <1>2, <1>3, <1>4
<1> HIDE DEF before
<1>7. /\ Len(before \o <<last>>) = Len(before) + 1 /\ Len(before) \in Nat
      /\ (before \o <<last>>)[Len(before) + 1] = last
      /\ \A i \in 1 .. Len(before) + 1 : (before \o <<last>>)[i] \in others
  BY <1>5, <1>6
<1>8. Walk(before \o <<last>>)
  BY <1>1, <1>5, <1>7 DEF Walk
<1> QED
  BY <1>8 DEF InitCalls, before, walk, load, last

LEMMA TimingModeSelects == Walk(TimingModeCalls) \/ Stay(TimingModeCalls)
BY IntTrigWalks DEF TimingModeCalls, Stay, ExtGateCalls, Timing

(* A call that starts either walks or stays. *)
LEMMA CallSelects == SelectInv /\ CameraCall => SelectInv'
<1> SUFFICES ASSUME SelectInv, CameraCall PROVE SelectInv'
  OBVIOUS
<1>1. todo = <<>>
  BY DEF CameraCall, SetNbFrames, SetExpTime, SetTrigMode, SetCard, SetTiming,
     SetItfgTiming, Reset, Call
<1>2. ~chosen => m_card = AllCards
  BY <1>1 DEF SelectInv, Walk
<1>3. CASE \E c \in Cards \cup {AllCards} : SetCard(c)
  BY <1>1, <1>3 DEF SetCard, SelectInv, Stay
<1>4. CASE ~ \E c \in Cards \cup {AllCards} : SetCard(c)
  <2>1. m_card' = m_card /\ chosen' = chosen
    BY <1>4 DEF CameraCall, SetNbFrames, SetExpTime, SetTrigMode, SetTiming,
       SetItfgTiming, Reset, Begin, Reject, camVars, ghosts
  <2>2. Walk(todo') \/ Stay(todo')
    <3>1. CASE todo' = todo
      BY <1>1, <3>1 DEF Stay
    <3>2. CASE todo' = TimingModeCalls
      BY <3>2, TimingModeSelects
    <3>3. CASE Reset
      BY <3>3, InitWalks DEF Reset, Begin
    <3>4. CASE \E s \in TimeSrcs, a \in AltTtlModes, d \in Debounces :
                  SetTiming(s, a, d)
      BY <3>4 DEF SetTiming, Begin, Stay, Timing
    <3>5. CASE \E n \in NbFrames, m \in TriggerModes, g \in GapModes :
                  SetItfgTiming(n, m, g)
      BY <3>5 DEF SetItfgTiming, Begin, Stay, Itfg
    <3> QED
      BY <1>4, <3>1, <3>2, <3>3, <3>4, <3>5 DEF CameraCall, SetNbFrames,
         SetExpTime, SetTrigMode, Begin, Reject
  <2> QED
    BY <1>2, <2>1, <2>2 DEF SelectInv, Walk, Stay
<1> QED
  BY <1>3, <1>4

(* One SDK call of it. *)
LEMMA RunSelects ==
    SetupTypeOK /\ SelectInv /\ (RunTiming \/ RunItfg \/ RunOther \/ SdkFault)
    => SelectInv'
<1> SUFFICES ASSUME SetupTypeOK, SelectInv,
                    RunTiming \/ RunItfg \/ RunOther \/ SdkFault
             PROVE  SelectInv'
  OBVIOUS
<1>1. todo # <<>> /\ todo \in Seq(SdkCalls) /\ Len(todo) \in Nat \ {0}
  BY DEF SetupTypeOK, SdkCalls, RunTiming, RunItfg, RunOther, SdkFault, Run
<1>2. Now = todo[1]
  BY <1>1 DEF Now
<1>3. CASE SdkFault
  BY <1>3 DEF SdkFault, SelectInv, Stay
<1>4. CASE todo' = Tail(todo) /\ Select
  <2>1. /\ Len(todo') = Len(todo) - 1
        /\ \A i \in 1 .. Len(todo') : todo'[i] = todo[i + 1]
    BY <1>1, <1>4
  <2>2. CASE Stay(todo) /\ (~chosen => m_card = AllCards)
    <3>1. Stay(todo')
      BY <1>1, <2>1, <2>2 DEF Stay
    <3>2. m_card' = m_card /\ chosen' = chosen
      BY <1>1, <1>2, <1>4, <2>2 DEF Stay, Select, Keep, AllCards, SetupTypeOK
    <3> QED
      BY <2>2, <3>1, <3>2 DEF SelectInv
  <2>3. CASE Walk(todo)
    <3>1. CASE Len(todo) = 1
      <4>1. Now.card = AllCards
        BY <1>2, <2>3, <3>1 DEF Walk
      <4>2. m_card' = AllCards
        BY <1>4, <4>1 DEF Select, Keep, AllCards
      <4>3. Stay(todo')
        BY <2>1, <3>1 DEF Stay
      <4> QED
        BY <4>2, <4>3 DEF SelectInv
    <3>2. CASE Len(todo) > 1
      <4>1. Len(todo') \in Nat \ {0} /\ Len(todo') + 1 = Len(todo)
        BY <1>1, <2>1, <3>2
      <4>2. \A i \in 1 .. Len(todo') : i + 1 \in 1 .. Len(todo)
        BY <4>1
      <4>3. todo' # <<>>
        BY <4>1
      <4> QED
        BY <2>1, <2>3, <4>1, <4>2, <4>3 DEF Walk, SelectInv
    <3>3. Len(todo) = 1 \/ Len(todo) > 1
      BY <1>1
    <3> QED
      BY <3>1, <3>2, <3>3
  <2> QED
    BY <2>2, <2>3 DEF SelectInv
<1>5. CASE Throw /\ Select /\ ~Valid(Now)
  <2>1. Stay(todo')
    BY <1>5 DEF Throw, Stay
  <2>2. CASE Walk(todo)
    <3>1. Now.card = AllCards
      BY <1>1, <1>2, <1>5, <2>2 DEF Walk
    <3>2. m_card' = AllCards
      BY <1>5, <3>1 DEF Select, Keep, AllCards
    <3> QED
      BY <2>1, <3>2 DEF SelectInv
  <2>3. CASE Stay(todo) /\ (~chosen => m_card = AllCards)
    <3>1. m_card' = m_card /\ chosen' = chosen
      BY <1>1, <1>2, <1>5, <2>3 DEF Stay, Select, Keep, AllCards, SetupTypeOK
    <3> QED
      BY <2>1, <2>3, <3>1 DEF SelectInv
  <2> QED
    BY <2>2, <2>3 DEF SelectInv
<1>6. \/ SdkFault
      \/ todo' = Tail(todo) /\ Select
      \/ Throw /\ Select /\ ~Valid(Now)
  BY DEF RunTiming, RunItfg, RunOther, Run, Done, Valid, TimingValid
<1> QED
  BY <1>3, <1>4, <1>5, <1>6

(* Between calls all cards are selected, unless the user chose one or an   *)
(* SDK call failed, for any number of cards: the calls that select the     *)
(* cards one by one reach the setCard(-1) behind the loop, and the one     *)
(* exception a legal setter can raise by itself comes after it.            *)
THEOREM CardsStaySelected == Spec => []AllCardsSelected
<1>1. Init => SetupTypeOK /\ SelectInv
  BY SetupTypeInit DEF Init, SelectInv, Stay
<1>2. SetupTypeOK /\ SelectInv /\ [Next]_vars => (SetupTypeOK /\ SelectInv)'
  <2>1. SelectInv /\ UNCHANGED vars => SelectInv'
    BY DEF SelectInv, Walk, Stay, vars, camVars, ghosts
  <2> QED
    BY <2>1, SetupTypeNext, CallSelects, RunSelects DEF Next
<1>3. SetupTypeOK /\ SelectInv => AllCardsSelected
  BY DEF SelectInv, Walk, AllCardsSelected
<1> QED
  BY <1>1, <1>2, <1>3, PTL DEF Spec

-----------------------------------------------------------------------------
(* What a setter leaves behind.                                            *)

(* The SDK calls of setTimingMode in IntTrig, counted from 1, and what the *)
(* card of each listens to.                                                *)
IntTrigCall(j, nframes) ==
    IF j <= NbCards THEN Timing(j - 1, IF j = 1 THEN 1 ELSE 4, 0,
                                IF j = 1 THEN 80 ELSE 0)
                    ELSE Itfg(AllCards, nframes, Burst, Gap1us)

CardSource(c) == IF c = 0 THEN "internal" ELSE "ttl_veto"

(* k of them were made. *)
Walked(k) ==
    /\ Len(todo) = NbCards + 1 - k
    /\ \A i \in 1 .. Len(todo) : todo[i] = IntTrigCall(k + i, m_nb_frames)
    /\ \A c \in 0 .. k - 1 : time_a[c].src = CardSource(c)

(* The setter that is under way. *)
UnderWay ==
    \/ m_trigger_mode = "IntTrig" /\ \E k \in 0 .. NbCards : Walked(k)
    \/ m_trigger_mode = "ExtGate" /\ todo = ExtGateCalls

ConfigInv ==
    /\ todo # <<>> => ~applied
    /\ todo # <<>> /\ call \in Setters => UnderWay
    /\ ConfiguredAsReported

LEMMA IntTrigShape ==
    /\ Len(IntTrigCalls) = NbCards + 1
    /\ \A i \in 1 .. NbCards + 1 :
          IntTrigCalls[i] = IntTrigCall(i, m_nb_frames')
<1> DEFINE walk == [i \in 1 .. NbCards |->
                       Timing(i - 1, IF i = 1 THEN 1 ELSE 4, 0,
                              IF i = 1 THEN 80 ELSE 0)]
           last == Itfg(AllCards, m_nb_frames', Burst, Gap1us)
<1>1. NbCards \in Nat \ {0}
  BY SetupAssumption
<1>2. \A i \in 1 .. NbCards : walk[i] = IntTrigCall(i, m_nb_frames')
  BY DEF IntTrigCall
<1>3. last = IntTrigCall(NbCards + 1, m_nb_frames')
  BY <1>1 DEF IntTrigCall
<1> HIDE DEF last
<1> DEFINE calls == {walk[i] : i \in 1 .. NbCards} \cup {last}
<1>4. walk \in [1 .. NbCards -> calls] /\ last \in calls
  OBVIOUS
<1> HIDE DEF walk, calls
<1>5. Len(walk) = NbCards /\ walk \in Seq(calls)
  BY <1>1, <1>4, FunctionIsSeq
<1>6. /\ Len(walk \o <<last>>) = NbCards + 1
      /\ \A i \in 1 .. NbCards : (walk \o <<last>>)[i] = walk[i]
      /\ (walk \o <<last>>)[NbCards + 1] = last
  BY <1>4, <1>5, OneMore
<1>7. \A i \in 1 .. NbCards + 1 : i \in 1 .. NbCards \/ i = NbCards + 1
  BY <1>1
<1> QED
  BY <1>2, <1>3, <1>6, <1>7 DEF IntTrigCalls, walk, last

(* A setter that starts. *)
LEMMA SetterBegins ==
    ASSUME todo' = TimingModeCalls, todo' # <<>>
    PROVE  UnderWay'
<1>1. \/ m_trigger_mode' = "IntTrig" /\ todo' = IntTrigCalls
      \/ m_trigger_mode' = "ExtGate" /\ todo' = ExtGateCalls
  BY DEF TimingModeCalls
<1>2. CASE m_trigger_mode' = "IntTrig" /\ todo' = IntTrigCalls
  <2>1. Len(todo') = NbCards + 1 - 0
    BY <1>2, IntTrigShape, SetupAssumption
  <2>2. \A i \in 1 .. Len(todo') : todo'[i] = IntTrigCall(0 + i, m_nb_frames')
    BY <1>2, <2>1, IntTrigShape, SetupAssumption
  <2>3. \A c \in 0 .. 0 - 1 : time_a'[c].src = CardSource(c)
    OBVIOUS
  <2>4. 0 \in 0 .. NbCards
    BY SetupAssumption
  <2> QED
    BY <1>2, <2>1, <2>2, <2>3, <2>4 DEF UnderWay, Walked
<1>3. CASE m_trigger_mode' = "ExtGate" /\ todo' = ExtGateCalls
  BY <1>3 DEF UnderWay, ExtGateCalls
<1> QED
  BY <1>1, <1>2, <1>3

LEMMA CallConfigures == ConfigInv /\ CameraCall => ConfigInv'
<1> SUFFICES ASSUME ConfigInv, CameraCall PROVE ConfigInv'
  OBVIOUS
<1>1. todo = <<>>
  BY DEF CameraCall, SetNbFrames, SetExpTime, SetTrigMode, SetCard, SetTiming,
     SetItfgTiming, Reset, Call
<1>2. CASE todo' = <<>> /\ UNCHANGED <<regVars, applied>>
           /\ UNCHANGED <<m_trigger_mode, m_exp_time, m_nb_frames>>
  BY <1>2 DEF ConfigInv, ConfiguredAsReported, CountsExposure, regVars
<1>3. CASE todo' = TimingModeCalls /\ ~applied'
  BY <1>3, SetterBegins DEF ConfigInv, ConfiguredAsReported
<1>4. CASE call' \notin Setters /\ ~applied'
  BY <1>4 DEF ConfigInv, ConfiguredAsReported
<1> QED
  BY <1>1, <1>2, <1>3, <1>4
  DEF CameraCall, SetNbFrames, SetExpTime, SetTrigMode, SetCard, SetTiming,
      SetItfgTiming, Reset, Call, Begin, Reject, camVars, ghosts, Setters

(* The last SDK call but one or more of a setter, and the last. *)
LEMMA TimingConfigures ==
    ASSUME SetupTypeOK, ConfigInv, RunTiming
    PROVE  ConfigInv'
<1>1. /\ todo # <<>> /\ ~applied /\ Now.f = "setTiming" /\ Now = todo[1]
      /\ todo \in Seq(SdkCalls) /\ Len(todo) \in Nat \ {0}
  BY DEF RunTiming, Run, ConfigInv, Now, SetupTypeOK, SdkCalls
<1>2. CASE Throw
  BY <1>1, <1>2 DEF Throw, ConfigInv, ConfiguredAsReported
<1> SUFFICES ASSUME Select, Done, TimingValid,
                    time_a' = [c \in Cards |-> IF c \in Selected THEN TimeA
                                                                 ELSE time_a[c]]
             PROVE  ConfigInv'
  BY <1>2 DEF RunTiming, Run
<1>3. /\ todo' = Tail(todo)
      /\ UNCHANGED <<m_trigger_mode, m_exp_time, m_nb_frames, call>>
      /\ applied' => Tail(todo) = <<>> /\ call \in Setters
      /\ Tail(todo) # <<>> => ~applied'
  BY DEF Done
<1>4. /\ Len(todo') = Len(todo) - 1
      /\ \A i \in 1 .. Len(todo') : todo'[i] = todo[i + 1]
  BY <1>1, <1>3
<1>5. CASE call \notin Setters
  BY <1>3, <1>5 DEF ConfigInv, ConfiguredAsReported
<1>6. CASE call \in Setters /\ m_trigger_mode = "ExtGate" /\ todo = ExtGateCalls
  <2>1. Now.card = Keep /\ Now.src = 4 /\ todo' = <<>>
    BY <1>3, <1>6 DEF Now, ExtGateCalls, Timing
  <2>2. applied' => \A c \in Cards : time_a'[c].src = "ttl_veto"
    <3>1. applied' => m_card' = AllCards
      BY DEF Done
    <3>2. m_card' = AllCards => Selected = Cards
      BY DEF Selected, AllCards
    <3>3. TimeA.src = "ttl_veto"
      BY <2>1 DEF TimeA, Sources
    <3> QED
      BY <3>1, <3>2, <3>3
  <2> QED
    BY <1>3, <1>6, <2>1, <2>2 DEF ConfigInv, ConfiguredAsReported
<1>7. ASSUME call \in Setters, m_trigger_mode = "IntTrig",
             NEW k \in 0 .. NbCards, Walked(k)
      PROVE  ConfigInv'
  <2>1. NbCards \in Nat \ {0}
    BY SetupAssumption
  <2>2. Now = IntTrigCall(k + 1, m_nb_frames)
    BY <1>1, <1>7 DEF Walked
  <2>3. k < NbCards
    BY <1>1, <2>1, <2>2 DEF IntTrigCall, Itfg
  <2>4. Now.card = k /\ Now.src = (IF k = 0 THEN 1 ELSE 4)
    BY <2>1, <2>2, <2>3 DEF IntTrigCall, Timing
  <2>5. Selected = {k} /\ k \in Cards
    BY <2>1, <2>3, <2>4 DEF Select, Selected, Keep, Cards
  <2>6. TimeA.src = CardSource(k)
    BY <2>4 DEF TimeA, Sources, CardSource
  <2>7. \A c \in 0 .. (k + 1) - 1 : time_a'[c].src = CardSource(c)
    <3>1. \A c \in 0 .. (k + 1) - 1 : c \in Cards /\ (c = k \/ c \in 0 .. k - 1)
      BY <2>1, <2>3 DEF Cards
    <3>2. \A c \in 0 .. k - 1 : time_a[c].src = CardSource(c)
      BY <1>7 DEF Walked
    <3> QED
      BY <2>5, <2>6, <3>1, <3>2
  <2>8. Len(todo) = NbCards + 1 - k
    BY <1>7 DEF Walked
  <2>9. Len(todo') = NbCards + 1 - (k + 1)
    BY <1>4, <2>1, <2>8
  <2>10. \A i \in 1 .. Len(todo') :
            todo'[i] = IntTrigCall((k + 1) + i, m_nb_frames')
    <3> SUFFICES ASSUME NEW i \in 1 .. Len(todo')
                 PROVE  todo'[i] = IntTrigCall((k + 1) + i, m_nb_frames')
      OBVIOUS
    <3>1. i + 1 \in 1 .. Len(todo) /\ k + (i + 1) = (k + 1) + i
      BY <2>1, <2>8, <2>9
    <3>2. todo[i + 1] = IntTrigCall(k + (i + 1), m_nb_frames)
      BY <1>7, <3>1 DEF Walked
    <3> QED
      BY <1>3, <1>4, <3>1, <3>2
  <2>11. Walked(k + 1)' /\ k + 1 \in 0 .. NbCards
    BY <2>1, <2>3, <2>7, <2>9, <2>10 DEF Walked
  <2>12. todo' # <<>>
    BY <2>1, <2>3, <2>9
  <2>13. UnderWay'
    BY <1>3, <1>7, <2>11 DEF UnderWay
  <2> QED
    BY <1>3, <2>12, <2>13 DEF ConfigInv, ConfiguredAsReported
<1> QED
  BY <1>1, <1>5, <1>6, <1>7 DEF ConfigInv, UnderWay

LEMMA ItfgConfigures ==
    ASSUME SetupTypeOK, ConfigInv, RunItfg
    PROVE  ConfigInv'
<1>1. /\ todo # <<>> /\ ~applied /\ Now.f = "setItfgTiming" /\ Now = todo[1]
      /\ todo \in Seq(SdkCalls) /\ Len(todo) \in Nat \ {0}
  BY DEF RunItfg, Run, ConfigInv, Now, SetupTypeOK, SdkCalls
<1>2. CASE Throw
  BY <1>1, <1>2 DEF Throw, ConfigInv, ConfiguredAsReported
<1> SUFFICES ASSUME Done, ItfgValid, time_a' = time_a,
                    itfg'.nframes = Now.nframes, itfg'.itime = Itime(m_exp_time)
             PROVE  ConfigInv'
  BY <1>2 DEF RunItfg, Run
<1>3. /\ todo' = Tail(todo)
      /\ UNCHANGED <<m_trigger_mode, m_exp_time, m_nb_frames, call>>
      /\ applied' => Tail(todo) = <<>> /\ call \in Setters
      /\ Tail(todo) # <<>> => ~applied'
  BY DEF Done
<1>4. CASE call \notin Setters
  BY <1>3, <1>4 DEF ConfigInv, ConfiguredAsReported
<1>5. CASE call \in Setters /\ m_trigger_mode = "ExtGate" /\ todo = ExtGateCalls
  BY <1>1, <1>5 DEF ExtGateCalls, Timing
<1>6. ASSUME call \in Setters, m_trigger_mode = "IntTrig",
             NEW k \in 0 .. NbCards, Walked(k)
      PROVE  ConfigInv'
  <2>1. NbCards \in Nat \ {0}
    BY SetupAssumption
  <2>2. Now = IntTrigCall(k + 1, m_nb_frames)
    BY <1>1, <1>6 DEF Walked
  <2>3. k = NbCards
    BY <1>1, <2>1, <2>2 DEF IntTrigCall, Timing
  <2>4. Now.nframes = m_nb_frames
    BY <2>1, <2>2, <2>3 DEF IntTrigCall, Itfg
  <2>5. todo' = <<>>
    BY <1>1, <1>3, <1>6, <2>1, <2>3 DEF Walked
  <2>6. \A c \in Cards : time_a'[c].src = CardSource(c)
    BY <1>6, <2>1, <2>3 DEF Walked, Cards
  <2>7. CountsExposure(itfg')
    <3>1. m_exp_time \in Nat
      BY NbFramesInt
    <3> QED
      BY <3>1, NoWrap DEF CountsExposure, ItfgValid
  <2>8. CountsExposure(itfg)'
    BY <1>3, <2>7 DEF CountsExposure
  <2> QED
    BY <1>3, <1>6, <2>4, <2>5, <2>6, <2>8
    DEF ConfigInv, ConfiguredAsReported, CardSource
<1> QED
  BY <1>1, <1>4, <1>5, <1>6 DEF ConfigInv, UnderWay

LEMMA OtherConfigures ==
    ASSUME SetupTypeOK, ConfigInv, RunOther \/ SdkFault
    PROVE  ConfigInv'
<1>1. /\ todo # <<>> /\ ~applied /\ Now = todo[1] /\ Len(todo) \in Nat \ {0}
  BY DEF RunOther, SdkFault, Run, ConfigInv, Now, SetupTypeOK
<1>2. CASE SdkFault
  BY <1>1, <1>2 DEF SdkFault, ConfigInv, ConfiguredAsReported
<1>3. CASE RunOther
  <2>1. Now.f \in {"sdk", "restoreSettings"} /\ Done
    BY <1>3 DEF RunOther, Run
  <2>2. call \notin Setters
    <3>1. ASSUME NEW k \in 0 .. NbCards, Walked(k) PROVE FALSE
      <4>1. Now = IntTrigCall(k + 1, m_nb_frames)
        BY <1>1, <3>1 DEF Walked
      <4> QED
        BY <2>1, <4>1 DEF IntTrigCall, Timing, Itfg
    <3>2. todo # ExtGateCalls
      BY <1>1, <2>1 DEF ExtGateCalls, Timing
    <3> QED
      BY <1>1, <3>1, <3>2 DEF ConfigInv, UnderWay
  <2> QED
    BY <2>1, <2>2 DEF Done, ConfigInv, ConfiguredAsReported
<1> QED
  BY <1>2, <1>3

(* What getTrigMode, getExpTime and getNbFrames report is what every card  *)
(* was told, for any number of cards, once a setter has returned normally  *)
(* with all cards selected: it walked over all of them, in order, and gave *)
(* the frame generator the values that it had just stored.                 *)
THEOREM ReportedIsConfigured == Spec => []ConfiguredAsReported
<1>1. Init => SetupTypeOK /\ ConfigInv
  BY SetupTypeInit DEF Init, ConfigInv, ConfiguredAsReported
<1>2. SetupTypeOK /\ ConfigInv /\ [Next]_vars => (SetupTypeOK /\ ConfigInv)'
  <2>1. ConfigInv /\ UNCHANGED vars => ConfigInv'
    BY DEF ConfigInv, ConfiguredAsReported, CountsExposure, UnderWay, Walked,
       vars, camVars, regVars, ghosts
  <2> QED
    BY <2>1, SetupTypeNext, CallConfigures, TimingConfigures, ItfgConfigures,
       OtherConfigures DEF Next
<1>3. SetupTypeOK /\ ConfigInv => ConfiguredAsReported
  BY DEF ConfigInv
<1> QED
  BY <1>1, <1>2, <1>3, PTL DEF Spec
=============================================================================
