----------------------- MODULE Xspress3ControlProofs -----------------------
(***************************************************************************)
(* Proofs about the control calls, for any number of cards, channels and   *)
(* calls.  They rest on the shape of what a call has still to do (todo):   *)
(* a word is written right after it was read, and init is a walk over the  *)
(* cards that ends with all of them.                                       *)
(***************************************************************************)
EXTENDS Xspress3Control, Xspress3RegistersProofs, SequenceTheorems, TLAPS

SdkCalls ==
    {"config", "scope_settings_from_mod", "start_count_enb", "scope_wait",
     "read_scope_data", "read_fan", "histogram_read3d", "get_generation",
     "clocks_setup", "restore_settings", "save_settings", "program", "default",
     "program_card", "set_run_flags", "put_run_flags", "get_run_flags",
     "get_run_mode", "get_chan_cont", "set_chan_cont", "get_data_source",
     "format_run", "playback_load", "histogram_clear", "histogram_start",
     "histogram_arm", "histogram_pause", "histogram_continue", "histogram_stop",
     "is_any_busy"}

Settings ==
    {"roi", "scaling", "window", "good_thres", "ringing", "dtc", "dtc_energy",
     "fan_setpoint", "fan_controller", "adc_temp_limit"}

Ops == [f : SdkCalls, card : Cards \cup {AllCards, Keep},
        chan : Chans \cup {AllChans}, word : SUBSET (Int \cup Settings)]

Sources == {SourceBits(src) : src \in DOMAIN DataSrc}

(* The bits of a register that have a field. *)
Bits(register) == UNION {register.put[f] : f \in DOMAIN register.put}

(* The arguments an SDK call is made with. *)
ArgsOK(op) ==
    /\ op.f = "set_run_flags" => op.word \subseteq 0 .. 3
    /\ op.f = "put_run_flags" => op.word \subseteq Playback
    /\ op.f = "set_chan_cont" => op.word \in Sources
    /\ op.f = "format_run" => op.word \subseteq Bits(Format)
    /\ op.f \in {"get_chan_cont", "set_chan_cont"} => op.chan \in Chans

IsRead(op) == op.f \in {"get_chan_cont", "get_run_flags"}
IsWrite(op) == op.f \in {"set_chan_cont", "put_run_flags"}

ReadOf(r, w) ==
    \/ r.f = "get_chan_cont" /\ w.f = "set_chan_cont" /\ r.chan = w.chan
    \/ r.f = "get_run_flags" /\ w.f = "put_run_flags"

(* The word that was read is still the one in the register. *)
Loaded(w) ==
    /\ w.f = "set_chan_cont" => reg = cont[w.chan]
    /\ w.f = "put_run_flags" => reg = run_flags

OpsOK(s) ==
    /\ s \in Seq(Ops)
    /\ \A i \in 1 .. Len(s) : ArgsOK(s[i])
    /\ \A i \in 1 .. Len(s) : IsRead(s[i]) => i < Len(s) /\ ReadOf(s[i], s[i + 1])

(* What a call makes of SDK calls: each write follows its read. *)
WellFormed(s) ==
    /\ OpsOK(s)
    /\ \A i \in 1 .. Len(s) : IsWrite(s[i]) => i > 1 /\ ReadOf(s[i - 1], s[i])

(* What is left of it: a write that comes next has its word.               *)
TodoInv ==
    /\ OpsOK(todo)
    /\ \A i \in 1 .. Len(todo) :
          IsWrite(todo[i]) => IF i = 1 THEN Loaded(todo[i])
                                       ELSE ReadOf(todo[i - 1], todo[i])
    /\ reg # {} => todo # <<>> /\ IsWrite(todo[1])
    /\ run_flags \subseteq 0 .. 3

(* The types of what a call and its progress change ...                    *)
Progress ==
    /\ m_card \in Cards \cup {AllCards} /\ m_clear_flag \in BOOLEAN
    /\ m_status \in {"Idle", "Paused"} /\ m_nb_frames \in NbFrames \cup {1}
    /\ outcome \in {"running", "ok", "rejected", "failed"}
    /\ (todo # <<>>) = (outcome = "running")
    /\ calls \in 0 .. MaxCalls /\ faults \in 0 .. MaxFaults /\ split \in BOOLEAN

(* ... and of what the SDK keeps, with the settings file.                  *)
Contents ==
    /\ gen \in {0, Generation, -1} /\ reg \subseteq 0 .. 31
    /\ cont \in [Chans -> SUBSET (0 .. 31)] /\ format \in [Chans -> SUBSET (0 .. 31)]
    /\ phase \in [Cards -> Phases]
    /\ mem \in [Chans -> [Frames -> {"clear", "own", "stale"}]]
    /\ prepared \in [Chans -> 0 .. MaxFrames] /\ seen_idle \in BOOLEAN
    /\ saved.cont \in [Chans -> SUBSET (0 .. 31)]
    /\ saved.format \in [Chans -> SUBSET (0 .. 31)]

ControlInv == Progress /\ Contents /\ TodoInv

-----------------------------------------------------------------------------
(* The words and the numbers.                                              *)

LEMMA EncodeInField == \A field, v : Encode(field, v) \subseteq field
BY DEF Encode

LEMMA FlagBits ==
    /\ Playback = {0} /\ Hist = {3} /\ DefaultMode = {2, 3}
    /\ SelData = 0 .. 2
BY DEF Playback, Hist, DefaultMode, SelData, RunFlags, ChanCont, Fields, Register

LEMMA SourcesInField == \A w \in Sources : w \subseteq 0 .. 2
BY EncodeInField, FlagBits DEF Sources, SourceBits

LEMMA DataSourcesKnown == \A src \in DataSources : SourceBits(src) \in Sources
<1>1. DOMAIN DataSrc = {"Normal", "Alternate", "Multiplexer", "PlaybackStream0",
                        "PlaybackStream1"}
  BY DEF DataSrc
<1> QED
  BY <1>1, ControlAssumption DEF Sources

LEMMA FieldsInBits ==
    \A register : \A f \in DOMAIN register.put : register.put[f] \subseteq Bits(register)
BY DEF Bits

LEMMA FormatFields ==
    /\ Format.put.AUX1_MODE = 4 .. 7 /\ Format.put.NBITS_ENG = 21 .. 24
    /\ Format.put.NBITS_ADC = 25 .. 27 /\ Format.put.AUX2_MODE = 28 .. 30
    /\ Format.put.PILEUP_REJECT = {31}
    /\ DOMAIN Format.put = {"CSHR_MODE", "USER_TIMESTAMP", "AUX1_MODE", "AUX1_THRES",
                            "NBITS_ENG", "NBITS_ADC", "AUX2_MODE", "PILEUP_REJECT"}
BY DEF Format, Register

LEMMA FormatRange == Bits(Format) \subseteq 0 .. 31
<1>1. \A f \in DOMAIN Format.put : Format.put[f] \subseteq 0 .. 31
  BY DEF Format, Register
<1> QED
  BY <1>1 DEF Bits

LEMMA FormatBits == \A a : FormatWord(a) \subseteq Bits(Format)
<1>1. /\ Format.put.AUX1_MODE \subseteq Bits(Format)
      /\ Format.put.NBITS_ENG \subseteq Bits(Format)
      /\ Format.put.NBITS_ADC \subseteq Bits(Format)
      /\ Format.put.AUX2_MODE \subseteq Bits(Format)
      /\ Format.put.PILEUP_REJECT \subseteq Bits(Format)
  BY FieldsInBits, FormatFields
<1> QED
  BY <1>1, EncodeInField DEF FormatWord

LEMMA Numbers ==
    /\ 0 \in Chans /\ 0 \in Cards /\ Chans \subseteq Nat /\ Cards \subseteq Nat
    /\ ChanArgs \subseteq Chans \cup {AllChans}
    /\ AllCards \notin Cards /\ Keep \notin Cards /\ AllCards # Keep
BY ControlAssumption DEF Chans, Cards, AllChans, AllCards, Keep

-----------------------------------------------------------------------------
(* Sequences of SDK calls.                                                 *)

LEMMA OneOp ==
    ASSUME NEW op \in Ops, ArgsOK(op), ~IsRead(op), ~IsWrite(op)
    PROVE  WellFormed(<<op>>)
BY DEF WellFormed, OpsOK

LEMMA TwoCalls ==
    ASSUME NEW s, NEW t, WellFormed(s), WellFormed(t)
    PROVE  WellFormed(s \o t)
<1>1. s \in Seq(Ops) /\ t \in Seq(Ops) /\ Len(s) \in Nat /\ Len(t) \in Nat
  BY DEF WellFormed, OpsOK
<1>2. /\ s \o t \in Seq(Ops) /\ Len(s \o t) = Len(s) + Len(t)
      /\ \A i \in 1 .. Len(s) + Len(t) :
            (s \o t)[i] = IF i <= Len(s) THEN s[i] ELSE t[i - Len(s)]
  BY <1>1
<1> DEFINE u == s \o t
<1>3. \A i \in 1 .. Len(u) : ArgsOK(u[i])
  BY <1>1, <1>2 DEF WellFormed, OpsOK
<1>4. ASSUME NEW i \in 1 .. Len(u), IsRead(u[i])
      PROVE  i < Len(u) /\ ReadOf(u[i], u[i + 1])
  <2>1. CASE i <= Len(s)
    BY <1>1, <1>2, <1>4, <2>1 DEF WellFormed, OpsOK
  <2>2. CASE i > Len(s)
    <3>1. i - Len(s) \in 1 .. Len(t) /\ i + 1 - Len(s) = i - Len(s) + 1
      BY <1>1, <1>2, <2>2
    <3>2. i - Len(s) < Len(t) /\ ReadOf(t[i - Len(s)], t[i - Len(s) + 1])
      BY <1>1, <1>2, <1>4, <2>2, <3>1 DEF WellFormed, OpsOK
    <3>3. /\ i < Len(u) /\ i + 1 \in 1 .. Len(s) + Len(t)
          /\ ~(i <= Len(s)) /\ ~(i + 1 <= Len(s))
      BY <1>1, <1>2, <2>2, <3>2
    <3>4. u[i] = t[i - Len(s)]
      BY <1>2, <3>3
    <3>5. u[i + 1] = t[i - Len(s) + 1]
      BY <1>2, <3>1, <3>3
    <3> QED
      BY <3>2, <3>3, <3>4, <3>5, Zenon
  <2> QED
    BY <1>1, <2>1, <2>2
<1>5. ASSUME NEW i \in 1 .. Len(u), IsWrite(u[i])
      PROVE  i > 1 /\ ReadOf(u[i - 1], u[i])
  <2>1. CASE i <= Len(s)
    BY <1>1, <1>2, <1>5, <2>1 DEF WellFormed
  <2>2. CASE i > Len(s)
    <3>1. i - Len(s) \in 1 .. Len(t) /\ i - 1 - Len(s) = i - Len(s) - 1
      BY <1>1, <1>2, <2>2
    <3>2. i - Len(s) > 1 /\ ReadOf(t[i - Len(s) - 1], t[i - Len(s)])
      BY <1>1, <1>2, <1>5, <2>2, <3>1 DEF WellFormed
    <3> QED
      BY <1>1, <1>2, <2>2, <3>1, <3>2
  <2> QED
    BY <1>1, <2>1, <2>2
<1> QED
  BY <1>2, <1>3, <1>4, <1>5 DEF WellFormed, OpsOK

LEMMA NoCall == WellFormed(<<>>)
BY DEF WellFormed, OpsOK

LEMMA OpType ==
    ASSUME NEW f \in SdkCalls, NEW card \in Cards \cup {AllCards, Keep},
           NEW chan \in Chans \cup {AllChans},
           NEW word \in SUBSET (Int \cup Settings)
    PROVE  LET op == Op(f, card, chan, word)
           IN  /\ op \in Ops
               /\ op.f = f /\ op.card = card /\ op.chan = chan /\ op.word = word
BY DEF Op, Ops

(* SDK calls that neither read a word nor write one. *)
Simple == SdkCalls \ {"get_chan_cont", "set_chan_cont", "get_run_flags",
                      "put_run_flags", "set_run_flags", "format_run"}

LEMMA SimpleOp ==
    ASSUME NEW f \in Simple, NEW card \in Cards \cup {AllCards, Keep},
           NEW chan \in Chans \cup {AllChans},
           NEW word \in SUBSET (Int \cup Settings)
    PROVE  LET op == Op(f, card, chan, word)
           IN  op \in Ops /\ ArgsOK(op) /\ ~IsRead(op) /\ ~IsWrite(op)
BY OpType DEF Simple, ArgsOK, IsRead, IsWrite

LEMMA SimpleCall ==
    ASSUME NEW f \in Simple, NEW card \in Cards \cup {AllCards, Keep},
           NEW chan \in Chans \cup {AllChans},
           NEW word \in SUBSET (Int \cup Settings)
    PROVE  WellFormed(<<Op(f, card, chan, word)>>)
BY SimpleOp, OneOp

LEMMA FlagsCall ==
    ASSUME NEW card \in {AllCards, Keep}, NEW flags \in SUBSET (0 .. 3)
    PROVE  WellFormed(<<Op("set_run_flags", card, AllChans, flags)>>)
<1> DEFINE op == Op("set_run_flags", card, AllChans, flags)
<1>0. /\ "set_run_flags" \in SdkCalls /\ card \in Cards \cup {AllCards, Keep}
      /\ AllChans \in Chans \cup {AllChans} /\ flags \in SUBSET (Int \cup Settings)
  BY DEF SdkCalls
<1>1. op \in Ops /\ op.f = "set_run_flags" /\ op.word = flags
  BY <1>0, OpType
<1>2. ArgsOK(op) /\ ~IsRead(op) /\ ~IsWrite(op)
  BY <1>1 DEF ArgsOK, IsRead, IsWrite
<1> QED
  BY <1>1, <1>2, OneOp

LEMMA FormatCall ==
    ASSUME NEW chan \in Chans \cup {AllChans}, NEW a
    PROVE  WellFormed(<<Op("format_run", Keep, chan, FormatWord(a))>>)
<1> DEFINE op == Op("format_run", Keep, chan, FormatWord(a))
<1>0. FormatWord(a) \in SUBSET (Int \cup Settings)
  BY FormatBits, FormatRange
<1>1. op \in Ops /\ op.f = "format_run" /\ op.word = FormatWord(a)
  BY <1>0, OpType DEF SdkCalls
<1>2. ArgsOK(op) /\ ~IsRead(op) /\ ~IsWrite(op)
  BY <1>1, FormatBits DEF ArgsOK, IsRead, IsWrite
<1> QED
  BY <1>1, <1>2, OneOp

(* A read and a write of a register. *)
LEMMA ReadWrite ==
    ASSUME NEW r \in Ops, NEW w \in Ops, ArgsOK(r), ArgsOK(w), IsRead(r), IsWrite(w),
           ReadOf(r, w)
    PROVE  WellFormed(<<r, w>>)
BY DEF WellFormed, OpsOK, IsRead, IsWrite, ReadOf

LEMMA PlaybackFlagCalls ==
    ASSUME NEW flags \in SUBSET Playback
    PROVE  WellFormed(<<System("get_run_flags"),
                        Op("put_run_flags", Keep, AllChans, flags)>>)
<1> DEFINE r == System("get_run_flags")
           w == Op("put_run_flags", Keep, AllChans, flags)
<1>1. r \in Ops /\ r.f = "get_run_flags"
  BY OpType DEF System, SdkCalls
<1>2. w \in Ops /\ w.f = "put_run_flags" /\ w.word = flags
  BY OpType, FlagBits DEF SdkCalls
<1> HIDE DEF r, w
<1>3. ReadOf(r, w) /\ IsRead(r) /\ IsWrite(w) /\ ArgsOK(r) /\ ArgsOK(w)
  BY <1>1, <1>2 DEF ReadOf, IsRead, IsWrite, ArgsOK
<1>4. WellFormed(<<r, w>>)
  BY <1>1, <1>2, <1>3, ReadWrite
<1> QED
  BY <1>4 DEF r, w

(* The channels of setDataSource: from first on, number of them.           *)
FirstOf(chan) == IF chan < 0 THEN 0 ELSE chan
NumberOf(chan) == IF chan < 0 THEN NbChans ELSE 1

LEMMA SourceOps ==
    ASSUME NEW c \in Chans, NEW src, SourceBits(src) \in Sources
    PROVE  LET r == OnChan("get_chan_cont", c)
               w == Op("set_chan_cont", Keep, c, SourceBits(src))
           IN  /\ r \in Ops /\ ArgsOK(r) /\ r.chan = c /\ r.f = "get_chan_cont"
               /\ w \in Ops /\ ArgsOK(w) /\ w.chan = c /\ w.f = "set_chan_cont"
<1> DEFINE r == OnChan("get_chan_cont", c)
           w == Op("set_chan_cont", Keep, c, SourceBits(src))
<1>1. r \in Ops /\ r.chan = c /\ r.f = "get_chan_cont"
  BY OpType DEF OnChan, SdkCalls
<1>2. SourceBits(src) \in SUBSET (Int \cup Settings)
  BY SourcesInField
<1>3. w \in Ops /\ w.chan = c /\ w.f = "set_chan_cont" /\ w.word = SourceBits(src)
  BY <1>2, OpType DEF SdkCalls
<1> HIDE DEF r, w
<1>4. ArgsOK(r) /\ ArgsOK(w)
  BY <1>1, <1>3 DEF ArgsOK
<1> QED
  BY <1>1, <1>3, <1>4 DEF r, w

LEMMA SourceCalls ==
    ASSUME NEW chan \in Chans \cup {AllChans}, NEW src,
           SourceBits(src) \in Sources
    PROVE  /\ WellFormed(DataSourceCalls(chan, src))
           /\ Len(DataSourceCalls(chan, src)) = 2 * NumberOf(chan)
           /\ \A i \in 1 .. 2 * NumberOf(chan) :
                 LET c == FirstOf(chan) + (i - 1) \div 2
                 IN  /\ c \in Chans
                     /\ DataSourceCalls(chan, src)[i] =
                           IF i % 2 = 1 THEN OnChan("get_chan_cont", c)
                           ELSE Op("set_chan_cont", Keep, c, SourceBits(src))
<1> DEFINE n == 2 * NumberOf(chan)
           c(i) == FirstOf(chan) + (i - 1) \div 2
           op(i) == IF i % 2 = 1 THEN OnChan("get_chan_cont", c(i))
                    ELSE Op("set_chan_cont", Keep, c(i), SourceBits(src))
           s == DataSourceCalls(chan, src)
<1>1. NumberOf(chan) \in Nat \ {0} /\ FirstOf(chan) \in Nat
      /\ FirstOf(chan) + NumberOf(chan) <= NbChans /\ n \in Nat
  BY ControlAssumption DEF NumberOf, FirstOf, Chans, AllChans
<1>2. \A i \in 1 .. n : (i - 1) \div 2 \in 0 .. NumberOf(chan) - 1
  BY <1>1
<1>3. \A i \in 1 .. n : c(i) \in Chans
  BY <1>1, <1>2, ControlAssumption DEF Chans
<1>4. s = [i \in 1 .. n |-> op(i)]
  BY DEF DataSourceCalls, FirstOf, NumberOf
<1>5. ASSUME NEW i \in 1 .. n
      PROVE  /\ op(i) \in Ops /\ ArgsOK(op(i)) /\ op(i).chan = c(i)
             /\ op(i).f = IF i % 2 = 1 THEN "get_chan_cont" ELSE "set_chan_cont"
  <2>1. c(i) \in Chans
    BY <1>3
  <2> HIDE DEF c
  <2> QED
    BY <2>1, SourceOps
<1> HIDE DEF op, s, n
<1>6. s \in Seq(Ops) /\ Len(s) = n /\ \A i \in 1 .. n : s[i] = op(i)
  <2>1. \A i \in 1 .. n : op(i) \in Ops
    BY <1>5
  <2> QED
    BY <1>1, <1>4, <2>1
<1> USE DEF n
<1>7. ASSUME NEW i \in 1 .. n, i % 2 = 1
      PROVE  i < n /\ (i + 1) % 2 = 0 /\ c(i + 1) = c(i)
  BY <1>1, <1>7
<1>8. ASSUME NEW i \in 1 .. n, i % 2 # 1
      PROVE  i > 1 /\ (i - 1) % 2 = 1 /\ c(i - 1) = c(i)
  BY <1>1, <1>8
<1>9. ASSUME NEW i \in 1 .. n, IsRead(s[i])
      PROVE  i < n /\ ReadOf(s[i], s[i + 1])
  <2>1. i % 2 = 1
    BY <1>5, <1>6, <1>9 DEF IsRead
  <2>2. i < n /\ (i + 1) % 2 = 0 /\ c(i + 1) = c(i) /\ i + 1 \in 1 .. n
    BY <1>1, <1>7, <2>1
  <2> HIDE DEF c
  <2> QED
    BY <1>5, <1>6, <2>1, <2>2 DEF ReadOf
<1>10. ASSUME NEW i \in 1 .. n, IsWrite(s[i])
       PROVE  i > 1 /\ ReadOf(s[i - 1], s[i])
  <2>1. i % 2 # 1
    BY <1>5, <1>6, <1>10 DEF IsWrite
  <2>2. i > 1 /\ (i - 1) % 2 = 1 /\ c(i - 1) = c(i) /\ i - 1 \in 1 .. n
    BY <1>1, <1>8, <2>1
  <2> HIDE DEF c
  <2> QED
    BY <1>5, <1>6, <2>1, <2>2 DEF ReadOf
<1>11. WellFormed(s)
  BY <1>5, <1>6, <1>9, <1>10 DEF WellFormed, OpsOK
<1> QED
  BY <1>3, <1>6, <1>11 DEF op, s

(* One simple SDK call for each number up to n.                            *)
LEMMA ManyCalls ==
    ASSUME NEW n \in Nat, NEW s \in [1 .. n -> Ops],
           \A i \in 1 .. n : ArgsOK(s[i]) /\ ~IsRead(s[i]) /\ ~IsWrite(s[i])
    PROVE  WellFormed(s) /\ s \in Seq(Ops) /\ Len(s) = n
<1>1. s \in Seq(Ops) /\ Len(s) = n
  OBVIOUS
<1> QED
  BY <1>1 DEF WellFormed, OpsOK

(* What init does: the first three calls, the clocks, the end.             *)
InitLen == 4 + NbCards + (IF HasSettings THEN 1 ELSE 0)

InitOp(j) ==
    IF j = 1 THEN System("config")
    ELSE IF j = 2 THEN Default(AllChans, {"roi"})
    ELSE IF j = 3 THEN OnCard("get_generation", 0)
    ELSE IF j <= 3 + NbCards THEN OnCard("clocks_setup", j - 4)
    ELSE IF j < InitLen THEN OnCard("restore_settings", AllCards)
    ELSE Op("set_run_flags", AllCards, AllChans, DefaultMode)

LEMMA InitOps ==
    /\ WellFormed(InitCalls) /\ Len(InitCalls) = InitLen /\ InitLen \in Nat
    /\ \A j \in 1 .. InitLen : InitCalls[j] = InitOp(j)
<1> DEFINE a == <<System("config"), Default(AllChans, {"roi"}),
                  OnCard("get_generation", 0)>>
           b == [i \in 1 .. NbCards |-> OnCard("clocks_setup", i - 1)]
           c == IF HasSettings THEN <<OnCard("restore_settings", AllCards)>> ELSE <<>>
           d == <<Op("set_run_flags", AllCards, AllChans, DefaultMode)>>
<1>1. InitCalls = a \o b \o c \o d
  BY DEF InitCalls
<1>2. NbCards \in Nat \ {0} /\ InitLen \in Nat
  BY ControlAssumption DEF InitLen
<1>3. WellFormed(a) /\ a \in Seq(Ops) /\ Len(a) = 3
      /\ a[1] = System("config") /\ a[2] = Default(AllChans, {"roi"})
      /\ a[3] = OnCard("get_generation", 0)
  <2>1. /\ System("config") \in Ops /\ ArgsOK(System("config"))
        /\ ~IsRead(System("config")) /\ ~IsWrite(System("config"))
    BY SimpleOp DEF System, Simple, SdkCalls
  <2>2. LET op == Default(AllChans, {"roi"})
        IN  op \in Ops /\ ArgsOK(op) /\ ~IsRead(op) /\ ~IsWrite(op)
    BY SimpleOp DEF Default, Simple, SdkCalls, Settings
  <2>3. LET op == OnCard("get_generation", 0)
        IN  op \in Ops /\ ArgsOK(op) /\ ~IsRead(op) /\ ~IsWrite(op)
    BY SimpleOp, Numbers DEF OnCard, Simple, SdkCalls
  <2> QED
    BY <2>1, <2>2, <2>3 DEF WellFormed, OpsOK
<1>4. WellFormed(b) /\ b \in Seq(Ops) /\ Len(b) = NbCards
      /\ \A i \in 1 .. NbCards : b[i] = OnCard("clocks_setup", i - 1)
  <2>1. ASSUME NEW i \in 1 .. NbCards
        PROVE  LET op == OnCard("clocks_setup", i - 1)
               IN  op \in Ops /\ ArgsOK(op) /\ ~IsRead(op) /\ ~IsWrite(op)
    <3>1. i - 1 \in Cards
      BY <1>2 DEF Cards
    <3> QED
      BY <3>1, SimpleOp DEF OnCard, Simple, SdkCalls
  <2>2. /\ b \in [1 .. NbCards -> Ops]
        /\ \A i \in 1 .. NbCards : b[i] = OnCard("clocks_setup", i - 1)
    BY <2>1
  <2> HIDE DEF b
  <2> QED
    BY <1>2, <2>1, <2>2, ManyCalls
<1>5. WellFormed(c) /\ c \in Seq(Ops) /\ Len(c) = (IF HasSettings THEN 1 ELSE 0)
      /\ (HasSettings => c[1] = OnCard("restore_settings", AllCards))
  <2>1. LET op == OnCard("restore_settings", AllCards)
        IN  op \in Ops /\ WellFormed(<<op>>)
    BY SimpleOp, OneOp DEF OnCard, Simple, SdkCalls
  <2> QED
    BY <2>1, NoCall
<1>6. WellFormed(d) /\ d \in Seq(Ops) /\ Len(d) = 1
      /\ d[1] = Op("set_run_flags", AllCards, AllChans, DefaultMode)
  <2>1. Op("set_run_flags", AllCards, AllChans, DefaultMode) \in Ops
    BY OpType, FlagBits DEF SdkCalls
  <2>2. WellFormed(d)
    BY FlagsCall, FlagBits
  <2> QED
    BY <2>1, <2>2
<1> DEFINE e == a \o b
           g == e \o c
           more == IF HasSettings THEN 1 ELSE 0
<1>7. InitCalls = g \o d
  BY <1>1
<1> HIDE DEF a, b, c, d
<1>8. more \in {0, 1} /\ (HasSettings <=> more = 1) /\ InitLen = 4 + NbCards + more
      /\ Len(c) = more
  BY <1>5 DEF InitLen
<1> HIDE DEF more
<1>9. /\ e \in Seq(Ops) /\ Len(e) = 3 + NbCards
      /\ \A i \in 1 .. 3 + NbCards : e[i] = IF i <= 3 THEN a[i] ELSE b[i - 3]
  <2>1. a \in Seq(Ops) /\ b \in Seq(Ops) /\ Len(a) = 3 /\ Len(b) = NbCards
    BY <1>3, <1>4
  <2>2. /\ a \o b \in Seq(Ops) /\ Len(a \o b) = Len(a) + Len(b)
        /\ \A i \in 1 .. Len(a) + Len(b) :
              (a \o b)[i] = IF i <= Len(a) THEN a[i] ELSE b[i - Len(a)]
    BY <2>1, ConcatProperties
  <2> QED
    BY <2>1, <2>2
<1> HIDE DEF e
<1>10. /\ g \in Seq(Ops) /\ Len(g) = 3 + NbCards + more
       /\ \A i \in 1 .. 3 + NbCards + more :
             g[i] = IF i <= 3 + NbCards THEN e[i] ELSE c[i - (3 + NbCards)]
  BY <1>2, <1>5, <1>8, <1>9, ConcatProperties
<1> HIDE DEF g
<1>11. /\ g \o d \in Seq(Ops) /\ Len(g \o d) = InitLen
       /\ \A i \in 1 .. InitLen : (g \o d)[i] = IF i < InitLen THEN g[i] ELSE d[1]
  <2>1. d \in Seq(Ops) /\ Len(d) = 1 /\ Len(g) + 1 = InitLen /\ Len(g) \in Nat
    BY <1>2, <1>6, <1>8, <1>10
  <2>2. /\ g \o d \in Seq(Ops) /\ Len(g \o d) = Len(g) + Len(d)
        /\ \A i \in 1 .. Len(g) + Len(d) :
              (g \o d)[i] = IF i <= Len(g) THEN g[i] ELSE d[i - Len(g)]
    BY <1>10, <2>1, ConcatProperties
  <2>3. \A i \in 1 .. InitLen : (i <= Len(g) <=> i < InitLen)
                                /\ (i = InitLen => i - Len(g) = 1)
    BY <1>2, <2>1
  <2> QED
    BY <1>2, <2>1, <2>2, <2>3
<1>12. ASSUME NEW j \in 1 .. InitLen PROVE InitCalls[j] = InitOp(j)
  <2>1. CASE j <= 3
    <3>1. InitCalls[j] = a[j] /\ j \in {1, 2, 3}
      <4>1. j < InitLen /\ j \in 1 .. 3 + NbCards + more /\ j \in 1 .. 3 + NbCards
        BY <1>2, <1>8, <2>1
      <4>2. InitCalls[j] = g[j]
        BY <1>7, <1>11, <4>1
      <4>3. g[j] = e[j]
        BY <1>10, <4>1
      <4>4. e[j] = a[j] /\ j \in {1, 2, 3}
        BY <1>9, <2>1, <4>1
      <4> QED
        BY <4>2, <4>3, <4>4
    <3> QED
      BY <1>3, <3>1 DEF InitOp
  <2>2. CASE j > 3 /\ j <= 3 + NbCards
    <3>1. j - 3 \in 1 .. NbCards /\ j - 3 - 1 = j - 4
      BY <1>2, <2>2
    <3>2. InitCalls[j] = b[j - 3]
      <4>1. j < InitLen /\ j \in 1 .. 3 + NbCards + more /\ j \in 1 .. 3 + NbCards
        BY <1>2, <1>8, <2>2
      <4>2. InitCalls[j] = g[j]
        BY <1>7, <1>11, <4>1
      <4>3. g[j] = e[j]
        BY <1>10, <4>1
      <4>4. e[j] = b[j - 3]
        BY <1>9, <2>2, <4>1
      <4> QED
        BY <4>2, <4>3, <4>4
    <3> QED
      BY <1>2, <1>4, <2>2, <3>1, <3>2 DEF InitOp
  <2>3. CASE j > 3 + NbCards /\ j < InitLen
    <3>1. InitCalls[j] = c[1] /\ more = 1
      BY <1>2, <1>7, <1>8, <1>10, <1>11, <2>3
    <3> QED
      BY <1>2, <1>5, <1>8, <2>3, <3>1 DEF InitOp
  <2>4. CASE j = InitLen
    <3>1. InitCalls[j] = d[1]
      BY <1>2, <1>7, <1>11, <2>4
    <3> QED
      BY <1>2, <1>6, <1>8, <2>4, <3>1 DEF InitOp
  <2> QED
    BY <1>2, <2>1, <2>2, <2>3, <2>4
<1>13. WellFormed(InitCalls)
  BY <1>3, <1>4, <1>5, <1>6, <1>7, TwoCalls DEF e, g
<1> QED
  BY <1>2, <1>7, <1>11, <1>12, <1>13

-----------------------------------------------------------------------------
(* The calls: what each asks of the SDK is well formed.                    *)

LEMMA RoiCall ==
    ASSUME NEW chan \in ChanArgs \cup {AllChans}, NEW names \in SUBSET Settings
    PROVE  /\ WellFormed(<<Default(chan, names)>>)
           /\ WellFormed(<<Program(chan, names)>>)
           /\ WellFormed(<<ProgramCard(names)>>)
BY SimpleCall, Numbers DEF Default, Program, ProgramCard, Simple, SdkCalls

LEMMA SystemCall ==
    ASSUME NEW f \in Simple PROVE WellFormed(<<System(f)>>)
BY SimpleCall, Numbers DEF System

LEMMA StopCalls ==
    WellFormed(<<System("histogram_stop"), System("is_any_busy"),
                 System("is_any_busy")>>)
<1> DEFINE a == System("histogram_stop")
           b == System("is_any_busy")
<1>1. /\ a \in Ops /\ ArgsOK(a) /\ ~IsRead(a) /\ ~IsWrite(a)
      /\ b \in Ops /\ ArgsOK(b) /\ ~IsRead(b) /\ ~IsWrite(b)
  BY SimpleOp, Numbers DEF System, Simple, SdkCalls
<1> HIDE DEF a, b
<1>2. WellFormed(<<a, b, b>>)
  BY <1>1 DEF WellFormed, OpsOK
<1> QED
  BY <1>2 DEF a, b

LEMMA ScopeCalls ==
    WellFormed(<<System("scope_settings_from_mod"), System("start_count_enb"),
                 System("scope_wait"), System("read_scope_data")>>)
<1> DEFINE a == System("scope_settings_from_mod")
           b == System("start_count_enb")
           c == System("scope_wait")
           d == System("read_scope_data")
<1>1. /\ a \in Ops /\ ArgsOK(a) /\ ~IsRead(a) /\ ~IsWrite(a)
      /\ b \in Ops /\ ArgsOK(b) /\ ~IsRead(b) /\ ~IsWrite(b)
  BY SimpleOp, Numbers DEF System, Simple, SdkCalls
<1>2. /\ c \in Ops /\ ArgsOK(c) /\ ~IsRead(c) /\ ~IsWrite(c)
      /\ d \in Ops /\ ArgsOK(d) /\ ~IsRead(d) /\ ~IsWrite(d)
  BY SimpleOp, Numbers DEF System, Simple, SdkCalls
<1> HIDE DEF a, b, c, d
<1>3. WellFormed(<<a, b, c, d>>)
  BY <1>1, <1>2 DEF WellFormed, OpsOK
<1> QED
  BY <1>3 DEF a, b, c, d

LEMMA FanCalls ==
    ASSUME NEW n \in Nat PROVE WellFormed([i \in 1 .. n |-> System("read_fan")])
<1> DEFINE a == System("read_fan")
           s == [i \in 1 .. n |-> a]
<1>1. a \in Ops /\ ArgsOK(a) /\ ~IsRead(a) /\ ~IsWrite(a)
  BY SimpleOp, Numbers DEF System, Simple, SdkCalls
<1> HIDE DEF a
<1>2. s \in [1 .. n -> Ops] /\ \A i \in 1 .. n : s[i] = a
  BY <1>1
<1> HIDE DEF s
<1>3. WellFormed(s)
  BY <1>1, <1>2, ManyCalls
<1> QED
  BY <1>3 DEF s, a

LEMMA PlaybackWellFormed == WellFormed(PlaybackCalls)
<1> DEFINE l == System("playback_load")
           m == Op("set_run_flags", Keep, AllChans, DefaultMode \cup Playback)
           s == DataSourceCalls(0, "PlaybackStream0")
<1>1. WellFormed(<<l>>)
  BY SystemCall DEF Simple, SdkCalls
<1>2. WellFormed(<<m>>)
  BY FlagsCall, FlagBits
<1>3. SourceBits("PlaybackStream0") \in Sources
  BY DEF Sources, DataSrc
<1>4. WellFormed(s)
  BY <1>3, SourceCalls, Numbers
<1> HIDE DEF l, m, s
<1>5. WellFormed(<<l>> \o <<m>>)
  BY <1>1, <1>2, TwoCalls
<1>6. WellFormed((<<l>> \o <<m>>) \o s)
  BY <1>4, <1>5, TwoCalls
<1>7. <<l>> \o <<m>> = <<l, m>>
  <2>1. <<l>> \in Seq({l, m}) /\ <<m>> \in Seq({l, m}) /\ <<l, m>> \in Seq({l, m})
    OBVIOUS
  <2>2. Len(<<l>> \o <<m>>) = 2 /\ \A i \in 1 .. 2 : (<<l>> \o <<m>>)[i] = <<l, m>>[i]
    BY <2>1
  <2>3. <<l>> \o <<m>> \in Seq({l, m}) /\ Len(<<l, m>>) = 2
    BY <2>1
  <2> HIDE DEF l, m
  <2> QED
    BY <2>1, <2>2, <2>3, SeqEqual
<1> QED
  BY <1>6, <1>7 DEF PlaybackCalls, l, m, s

LEMMA FormatWellFormed ==
    ASSUME NEW chan \in ChanArgs, NEW a PROVE WellFormed(FormatCalls(chan, a))
<1> DEFINE f == <<Op("format_run", Keep, chan, FormatWord(a))>>
           r == IF a.nbits_eng = MaxBitsEng THEN <<Default(AllChans, {"roi"})>>
                ELSE <<>>
<1>1. WellFormed(f)
  <2>1. chan \in Chans \cup {AllChans}
    BY Numbers
  <2> QED
    BY <2>1, FormatCall
<1>2. WellFormed(r)
  BY RoiCall, NoCall DEF Settings
<1>3. FormatCalls(chan, a) = f \o r
  BY DEF FormatCalls
<1> HIDE DEF f, r
<1> QED
  BY <1>1, <1>2, <1>3, TwoCalls

-----------------------------------------------------------------------------
(* Types and words, in every state.                                        *)

LEMMA InvGivesType == ControlInv => ControlTypeOK
<1> SUFFICES ASSUME ControlInv PROVE ControlTypeOK
  OBVIOUS
<1>1. reg # {} => outcome \in {"running", "failed"}
  BY DEF ControlInv, Progress, TodoInv
<1>2. run_flags \subseteq 0 .. 31
  BY DEF ControlInv, TodoInv
<1> QED
  BY <1>1, <1>2 DEF ControlInv, ControlTypeOK, Progress, Contents

LEMMA InitHolds == Init => ControlInv
<1> SUFFICES ASSUME Init PROVE ControlInv
  OBVIOUS
<1>1. Progress
  <2>1. todo # <<>>
    BY InitOps, ControlAssumption DEF Init, InitLen
  <2>2. (todo # <<>>) = (outcome = "running")
    BY <2>1 DEF Init
  <2>3. /\ m_card \in Cards \cup {AllCards} /\ m_clear_flag \in BOOLEAN
        /\ m_status \in {"Idle", "Paused"} /\ m_nb_frames \in NbFrames \cup {1}
        /\ outcome \in {"running", "ok", "rejected", "failed"} /\ split \in BOOLEAN
    BY DEF Init
  <2>4. calls \in 0 .. MaxCalls /\ faults \in 0 .. MaxFaults
    BY ControlAssumption DEF Init
  <2> QED
    BY <2>2, <2>3, <2>4 DEF Progress
<1>2. Contents
  <2>1. SavedCont \subseteq 0 .. 31 /\ MaxFrames \in Nat
    BY ControlAssumption
  <2>2. seen_idle \in BOOLEAN
    BY DEF Init
  <2>3. /\ gen = 0 /\ reg = {}
        /\ cont = [c \in Chans |-> {}] /\ format = [c \in Chans |-> {}]
        /\ phase = [k \in Cards |-> "idle"] /\ prepared = [c \in Chans |-> 0]
        /\ mem = [c \in Chans |-> [f \in Frames |-> "stale"]]
        /\ saved.cont = [c \in Chans |-> SavedCont]
        /\ saved.format = [c \in Chans |-> {}]
    BY DEF Init
  <2> QED
    BY <2>1, <2>2, <2>3 DEF Contents, Phases
<1>3. TodoInv
  BY InitOps DEF Init, TodoInv, WellFormed
<1> QED
  BY <1>1, <1>2, <1>3 DEF ControlInv

(* A call begins when the one before it has ended.                         *)
LEMMA CallBegins ==
    ASSUME ControlInv, NEW name, NEW chan, NEW arg, Call(name, chan, arg),
           NEW sdk, WellFormed(sdk), Begin(sdk)
    PROVE  ControlInv'
<1>1. reg = {}
  BY DEF ControlInv, TodoInv, Call
<1>2. Progress'
  BY ControlAssumption DEF ControlInv, Progress, Call, Begin, camVars
<1>3. Contents'
  BY DEF ControlInv, Contents, Call, wordVars, countVars
<1>4. TodoInv'
  BY <1>1 DEF ControlInv, TodoInv, Call, Begin, wordVars, WellFormed
<1> QED
  BY <1>2, <1>3, <1>4 DEF ControlInv

(* A call that asks the SDK for nothing.                                   *)
LEMMA CallAlone ==
    ASSUME ControlInv, NEW name, NEW chan, NEW arg, Call(name, chan, arg),
           todo' = <<>>, outcome' \in {"ok", "rejected"}, split' \in BOOLEAN,
           m_card' \in Cards \cup {AllCards}, m_clear_flag' \in BOOLEAN,
           m_nb_frames' \in NbFrames \cup {1}
    PROVE  ControlInv'
<1>1. reg = {}
  BY DEF ControlInv, TodoInv, Call
<1>2. Progress'
  BY ControlAssumption DEF ControlInv, Progress, Call
<1>3. Contents'
  BY DEF ControlInv, Contents, Call, wordVars, countVars
<1>4. TodoInv'
  BY <1>1 DEF ControlInv, TodoInv, OpsOK, Call, wordVars
<1> QED
  BY <1>2, <1>3, <1>4 DEF ControlInv

LEMMA CallRejected ==
    ASSUME ControlInv, NEW name, NEW chan, NEW arg, Call(name, chan, arg), Reject
    PROVE  ControlInv'
BY CallAlone DEF ControlInv, Progress, Reject, camVars

LEMMA CameraCallHolds == ControlInv /\ CameraCall => ControlInv'
<1> SUFFICES ASSUME ControlInv, CameraCall PROVE ControlInv'
  OBVIOUS
<1>1. ASSUME NEW k \in Cards \cup {AllCards}, SetCard(k) PROVE ControlInv'
  BY <1>1, CallAlone DEF ControlInv, Progress, SetCard, Call
<1>2. ASSUME NEW n \in NbFrames, SetNbFrames(n) PROVE ControlInv'
  BY <1>2, CallAlone DEF ControlInv, Progress, SetNbFrames, Call
<1>3. ASSUME NEW b \in BOOLEAN, SetClearMode(b) PROVE ControlInv'
  BY <1>3, CallAlone DEF ControlInv, Progress, SetClearMode, Call
<1>4. ASSUME NEW b \in BOOLEAN, SetPlayback(b) PROVE ControlInv'
  BY <1>4, CallBegins, PlaybackFlagCalls DEF SetPlayback
<1>5. CASE Reset
  BY <1>5, CallBegins, InitOps DEF Reset
<1>6. CASE PrepareAcq
  <2>1. WellFormed(<<System("histogram_clear")>>)
    BY SystemCall DEF Simple, SdkCalls
  <2> QED
    BY <1>6, <2>1, CallBegins, NoCall DEF PrepareAcq
<1>7. CASE Start \/ Arm \/ Pause \/ Restart
  <2>1. \A f \in {"histogram_start", "histogram_arm", "histogram_pause",
                  "histogram_continue"} : WellFormed(<<System(f)>>)
    BY SystemCall DEF Simple, SdkCalls
  <2> QED
    BY <1>7, <2>1, CallBegins DEF Start, Arm, Pause, Restart, Control
<1>8. CASE Stop \/ StartScope \/ LoadPlayback
  BY <1>8, CallBegins, StopCalls, ScopeCalls, PlaybackWellFormed
  DEF Stop, StartScope, LoadPlayback
<1>9. CASE GetRunMode \/ ReadRawHistogram \/ SaveSettings \/ RestoreSettings
  <2>1. \A f \in {"get_run_mode", "histogram_read3d", "save_settings",
                  "restore_settings"} : WellFormed(<<System(f)>>)
    BY SystemCall DEF Simple, SdkCalls
  <2> QED
    BY <1>9, <2>1, CallBegins
    DEF GetRunMode, ReadRawHistogram, SaveSettings, RestoreSettings
<1>10. ASSUME NEW flags \in RunModes, SetRunMode(flags) PROVE ControlInv'
  <2>1. WellFormed(<<Op("set_run_flags", Keep, AllChans, flags)>>)
    BY FlagsCall, ControlAssumption
  <2> QED
    BY <1>10, <2>1, CallBegins DEF SetRunMode
<1>11. ASSUME NEW c \in ChanArgs, NEW src \in DataSources, SetDataSource(c, src)
       PROVE  ControlInv'
  <2>1. WellFormed(DataSourceCalls(c, src))
    BY SourceCalls, DataSourcesKnown, Numbers
  <2> QED
    BY <1>11, <2>1, CallBegins DEF SetDataSource
<1>12. ASSUME NEW c \in ChanArgs, NEW a \in FormatArgs, FormatRun(c, a)
       PROVE  ControlInv'
  BY <1>12, CallBegins, CallRejected, FormatWellFormed DEF FormatRun
<1>13. ASSUME NEW c \in ChanArgs, NEW x \in Scalings, SetScaling(c, x)
       PROVE  ControlInv'
  <2>1. WellFormed(<<Program(c, {"scaling"})>>)
    BY RoiCall DEF Settings
  <2> QED
    BY <1>13, <2>1, CallBegins, CallRejected DEF SetScaling
<1>14. ASSUME NEW c \in ChanArgs, GetDataSource(c) PROVE ControlInv'
  <2>1. WellFormed(<<OnChan("get_data_source", c)>>)
    BY SimpleCall, Numbers DEF OnChan, Simple, SdkCalls
  <2> QED
    BY <1>14, <2>1, CallBegins DEF GetDataSource
<1>15. ASSUME NEW c \in ChanArgs, InitRoi(c) \/ InitBrams(c) PROVE ControlInv'
  <2>1. WellFormed(<<Default(c, {"roi"})>>)
        /\ WellFormed(<<Default(c, {"roi", "scaling"})>>)
    BY RoiCall DEF Settings
  <2> QED
    BY <1>15, <2>1, CallBegins DEF InitRoi, InitBrams
<1>16. ASSUME NEW c \in ChanArgs,
              \/ SetRoi(c) \/ SetWindow(c) \/ SetGoodThreshold(c) \/ SetRinging(c)
              \/ SetDeadtimeCorrectionParameters(c)
       PROVE  ControlInv'
  <2>1. \A x \in Settings : WellFormed(<<Program(c, {x})>>)
    BY RoiCall
  <2>2. {"roi", "window", "good_thres", "ringing", "dtc"} \subseteq Settings
    BY DEF Settings
  <2> QED
    BY <1>16, <2>1, <2>2, CallBegins
    DEF SetRoi, SetWindow, SetGoodThreshold, SetRinging,
        SetDeadtimeCorrectionParameters, SetChannel
<1>17. CASE SetDeadtimeCalculationEnergy
  <2>1. WellFormed(<<Program(AllChans, {"dtc_energy"})>>)
    BY RoiCall DEF Settings
  <2> QED
    BY <1>17, <2>1, CallBegins DEF SetDeadtimeCalculationEnergy, SetChannel
<1>18. CASE SetFanSetpoint \/ SetFanController \/ SetAdcTempLimit
  <2>1. \A x \in {"fan_setpoint", "fan_controller", "adc_temp_limit"} :
            WellFormed(<<ProgramCard({x})>>)
    BY RoiCall DEF Settings
  <2> QED
    BY <1>18, <2>1, CallBegins
    DEF SetFanSetpoint, SetFanController, SetAdcTempLimit, SetCards
<1>19. ASSUME NEW src \in ClockArgs, SetupClocks(src) PROVE ControlInv'
  <2>1. ClockSrc[src] \in Int
    BY ControlAssumption DEF ClockSrc, ClkSources
  <2>2. WellFormed(<<Op("clocks_setup", Keep, AllChans, {ClockSrc[src]})>>)
    BY <2>1, SimpleCall DEF Simple, SdkCalls
  <2> QED
    BY <1>19, <2>2, CallBegins DEF SetupClocks
<1>20. CASE GetFanTemperatures
  <2>1. FanCards \in Nat
    BY ControlAssumption DEF ControlInv, Progress, FanCards, Cards
  <2>2. WellFormed([i \in 1 .. FanCards |-> System("read_fan")])
    BY <2>1, FanCalls
  <2> QED
    BY <1>20, <2>2, CallBegins DEF GetFanTemperatures
<1> QED
  BY <1>1, <1>2, <1>3, <1>4, <1>5, <1>6, <1>7, <1>8, <1>9, <1>10, <1>11, <1>12,
     <1>13, <1>14, <1>15, <1>16, <1>17, <1>18, <1>19, <1>20 DEF CameraCall

-----------------------------------------------------------------------------
(* The SDK calls.                                                          *)

(* Progress is made, with or without a fault, or the call ends here.       *)
LEMMA Proceeds ==
    ASSUME ControlInv, NEW f, Run(f), Advance \/ Fail,
           UNCHANGED faults \/ (faults < MaxFaults /\ faults' = faults + 1)
    PROVE  /\ Progress' /\ Now \in Ops /\ ArgsOK(Now) /\ Now.f = f
           /\ todo # <<>> /\ todo' \in {Tail(todo), <<>>}
<1>1. todo \in Seq(Ops) /\ todo # <<>> /\ Now = todo[1] /\ 1 \in 1 .. Len(todo)
  BY DEF ControlInv, TodoInv, OpsOK, Run, Now
<1>2. Now \in Ops /\ ArgsOK(Now) /\ Now.f = f
  BY <1>1 DEF ControlInv, TodoInv, OpsOK, Run
<1>3. todo' \in {Tail(todo), <<>>}
  BY DEF Advance, Fail
<1>4. m_card' \in Cards \cup {AllCards}
  BY <1>2 DEF ControlInv, Progress, Run, Ops
<1>5. m_status' \in {"Idle", "Paused"} /\ split' \in BOOLEAN
  BY DEF ControlInv, Progress, Advance, Fail, StatusAfter
<1>6. outcome' \in {"running", "ok", "failed"}
      /\ (todo' # <<>>) = (outcome' = "running")
  BY DEF Advance, Fail
<1>7. calls' = calls /\ faults' \in 0 .. MaxFaults
      /\ m_clear_flag' = m_clear_flag /\ m_nb_frames' = m_nb_frames
  BY ControlAssumption DEF ControlInv, Progress, Run
<1>8. Progress'
  BY <1>4, <1>5, <1>6, <1>7 DEF ControlInv, Progress
<1> QED
  BY <1>1, <1>2, <1>3, <1>8

LEMMA Remaining ==
    ASSUME OpsOK(todo), todo # <<>>
    PROVE  /\ OpsOK(Tail(todo)) /\ Len(Tail(todo)) = Len(todo) - 1
           /\ Len(todo) \in Nat \ {0}
           /\ \A i \in 1 .. Len(todo) - 1 : Tail(todo)[i] = todo[i + 1]
<1>1. todo \in Seq(Ops)
  BY DEF OpsOK
<1>2. /\ Tail(todo) \in Seq(Ops) /\ Len(Tail(todo)) = Len(todo) - 1
      /\ Len(todo) \in Nat \ {0}
      /\ \A i \in 1 .. Len(todo) - 1 : Tail(todo)[i] = todo[i + 1]
  BY <1>1, HeadTailProperties
<1> QED
  BY <1>2 DEF OpsOK

LEMMA NothingLeft == OpsOK(<<>>)
BY DEF OpsOK

(* A call of the SDK that reads no word is no word's read.                 *)
LEMMA WordIsIdle ==
    ASSUME TodoInv, todo # <<>>, ~IsRead(Now), todo' \in {Tail(todo), <<>>},
           reg' = {}, run_flags' \subseteq 0 .. 3
    PROVE  TodoInv'
<1>1. OpsOK(todo')
  BY Remaining, NothingLeft DEF TodoInv
<1>2. ASSUME NEW i \in 1 .. Len(todo'), IsWrite(todo'[i])
      PROVE  i # 1 /\ ReadOf(todo'[i - 1], todo'[i])
  <2>1. todo' = Tail(todo) /\ Len(todo') = Len(todo) - 1
    <3>1. todo' # <<>>
      BY <1>2
    <3>2. OpsOK(todo)
      BY DEF TodoInv
    <3> QED
      BY <3>1, <3>2, Remaining
  <2>2. /\ todo'[i] = todo[i + 1] /\ i + 1 \in 1 .. Len(todo) /\ i + 1 # 1
        /\ i + 1 - 1 = i /\ Len(todo) \in Nat
    BY <2>1, Remaining DEF TodoInv
  <2>3. ReadOf(todo[i], todo[i + 1])
    BY <1>2, <2>2 DEF TodoInv
  <2>4. CASE i = 1
    <3>1. Now = todo[1]
      BY DEF TodoInv, OpsOK, Now
    <3> QED
      BY <2>3, <2>4, <3>1 DEF ReadOf, IsRead
  <2>5. CASE i # 1
    <3>1. i - 1 \in 1 .. Len(todo) - 1 /\ i - 1 + 1 = i
      BY <2>2, <2>5
    <3>2. todo'[i - 1] = todo[i]
      BY <2>1, <3>1, Remaining DEF TodoInv
    <3> QED
      BY <2>2, <2>3, <2>5, <3>2
  <2> QED
    BY <2>4, <2>5, Zenon
<1> QED
  BY <1>1, <1>2 DEF TodoInv

(* What is read is what is written next.                                   *)
LEMMA WordIsRead ==
    ASSUME TodoInv, todo # <<>>, IsRead(Now), todo' = Tail(todo),
           run_flags' = run_flags, cont' = cont,
           Now.f = "get_chan_cont" => reg' = cont[Now.chan],
           Now.f = "get_run_flags" => reg' = run_flags
    PROVE  TodoInv' /\ todo' # <<>>
<1>1. OpsOK(todo') /\ Len(todo') = Len(todo) - 1 /\ Len(todo) \in Nat
      /\ \A i \in 1 .. Len(todo) - 1 : todo'[i] = todo[i + 1]
  BY Remaining DEF TodoInv
<1>2. Now = todo[1] /\ 1 \in 1 .. Len(todo)
  BY DEF TodoInv, OpsOK, Now
<1>3. Len(todo) > 1 /\ ReadOf(Now, todo[2])
  BY <1>2 DEF TodoInv, OpsOK
<1>4. todo' # <<>> /\ todo'[1] = todo[2] /\ IsWrite(todo'[1])
  <2>1. 1 \in 1 .. Len(todo) - 1 /\ Len(todo') # 0
    BY <1>1, <1>3
  <2>2. todo'[1] = todo[1 + 1] /\ todo' # <<>>
    BY <1>1, <2>1
  <2> QED
    BY <1>3, <2>2 DEF ReadOf, IsWrite
<1>5. Loaded(todo[1])'
  BY <1>3, <1>4 DEF ReadOf, Loaded
<1>6. ASSUME NEW i \in 1 .. Len(todo'), IsWrite(todo'[i]), i # 1
      PROVE  ReadOf(todo'[i - 1], todo'[i])
  <2>1. /\ i \in 1 .. Len(todo) - 1 /\ i - 1 \in 1 .. Len(todo) - 1
        /\ i + 1 \in 1 .. Len(todo) /\ i + 1 # 1 /\ i + 1 - 1 = i /\ i - 1 + 1 = i
    BY <1>1, <1>6
  <2>2. todo'[i] = todo[i + 1] /\ todo'[i - 1] = todo[i]
    BY <1>1, <2>1
  <2> QED
    BY <1>6, <2>1, <2>2 DEF TodoInv
<1>7. reg' # {} => todo' # <<>> /\ IsWrite(todo'[1])
  BY <1>4
<1> QED
  BY <1>1, <1>4, <1>5, <1>6, <1>7 DEF TodoInv

LEMMA OpenWord ==
    ASSUME TodoInv, todo # <<>>
    PROVE  /\ ~IsWrite(Now) => reg = {}
           /\ IsWrite(Now) => Loaded(Now)
<1>1. Now = todo[1] /\ 1 \in 1 .. Len(todo)
  BY DEF TodoInv, OpsOK, Now
<1> QED
  BY <1>1 DEF TodoInv

(* An SDK call that has nothing to do with the words being changed.        *)
LEMMA QuietStep ==
    ASSUME ControlInv, NEW f, Run(f), Advance \/ Fail,
           UNCHANGED faults \/ (faults < MaxFaults /\ faults' = faults + 1),
           f \notin {"get_chan_cont", "set_chan_cont", "get_run_flags",
                     "put_run_flags"},
           reg' = reg, run_flags' \subseteq 0 .. 3
    PROVE  Progress' /\ TodoInv' /\ Now \in Ops /\ ArgsOK(Now) /\ Now.f = f
<1>1. /\ Progress' /\ Now \in Ops /\ ArgsOK(Now) /\ Now.f = f
      /\ todo # <<>> /\ todo' \in {Tail(todo), <<>>}
  BY Proceeds
<1>2. ~IsRead(Now) /\ ~IsWrite(Now)
  BY <1>1 DEF IsRead, IsWrite
<1>3. reg' = {}
  BY <1>1, <1>2, OpenWord DEF ControlInv
<1>4. TodoInv'
  BY <1>1, <1>2, <1>3, WordIsIdle DEF ControlInv
<1> QED
  BY <1>1, <1>4

LEMMA EndsEither ==
    ASSUME NEW whole, Ends(whole)
    PROVE  /\ Advance \/ Fail
           /\ UNCHANGED faults \/ (faults < MaxFaults /\ faults' = faults + 1)
BY DEF Ends, Succeed, Fail

LEMMA FlagsInRange == ControlInv => run_flags \subseteq 0 .. 3
BY DEF ControlInv, TodoInv

LEMMA FramesAsked == ControlInv => m_nb_frames \in Nat
<1>1. NbFrames \subseteq Nat
  BY ControlAssumption
<1> QED
  BY <1>1 DEF ControlInv, Progress

LEMMA MergedFlags ==
    ASSUME ControlInv, Run("put_run_flags")
    PROVE  Merge(Playback) \subseteq 0 .. 3
           /\ Merge(Playback) \ Playback = run_flags \ Playback
<1>1. todo # <<>> /\ Now = todo[1] /\ 1 \in 1 .. Len(todo) /\ Now.f = "put_run_flags"
  BY DEF ControlInv, TodoInv, OpsOK, Run, Now
<1>2. ArgsOK(Now) /\ reg = run_flags
  BY <1>1, OpenWord DEF ControlInv, TodoInv, OpsOK, IsWrite, Loaded
<1>3. Now.word \subseteq {0}
  BY <1>1, <1>2, FlagBits DEF ArgsOK
<1>4. run_flags \subseteq 0 .. 3 /\ Playback = {0}
  BY FlagsInRange, FlagBits
<1> DEFINE m == Merge(Playback)
<1>5. m = (run_flags \ {0}) \cup Now.word
  BY <1>2, <1>4 DEF Merge
<1> HIDE DEF m
<1>6. m \subseteq 0 .. 3 /\ m \ {0} = run_flags \ {0}
  <2>1. Now.word \subseteq 0 .. 3
    BY <1>3
  <2>2. m \subseteq 0 .. 3
    BY <1>4, <1>5, <2>1
  <2>3. m \ {0} = run_flags \ {0}
    BY <1>3, <1>5, Zenon
  <2> QED
    BY <2>2, <2>3
<1> QED
  BY <1>4, <1>6 DEF m

LEMMA MergedSource ==
    ASSUME ControlInv, Run("set_chan_cont")
    PROVE  /\ Merge(SelData) \subseteq 0 .. 31 /\ Now.chan \in Chans
           /\ Merge(SelData) \ SelData = cont[Now.chan] \ SelData
           /\ Merge(SelData) \subseteq cont[Now.chan] \cup SelData
<1>1. todo # <<>> /\ Now = todo[1] /\ 1 \in 1 .. Len(todo) /\ Now.f = "set_chan_cont"
  BY DEF ControlInv, TodoInv, OpsOK, Run, Now
<1>2. ArgsOK(Now) /\ reg = cont[Now.chan]
  BY <1>1, OpenWord DEF ControlInv, TodoInv, OpsOK, IsWrite, Loaded
<1>3. Now.word \subseteq 0 .. 2 /\ Now.chan \in Chans
  BY <1>1, <1>2, SourcesInField DEF ArgsOK
<1>4. cont[Now.chan] \subseteq 0 .. 31
  BY <1>3 DEF ControlInv, Contents
<1> QED
  BY <1>2, <1>3, <1>4, FlagBits DEF Merge

LEMMA SdkStepHolds == ControlInv /\ SdkStep => ControlInv'
<1> SUFFICES ASSUME ControlInv, SdkStep PROVE ControlInv'
  OBVIOUS
<1>0. run_flags \subseteq 0 .. 3
  BY FlagsInRange
<1>1. CASE RunPlain
  <2>1. PICK f \in {"config", "scope_settings_from_mod", "scope_wait",
                    "read_scope_data", "read_fan", "histogram_read3d"} : Run(f)
    BY <1>1 DEF RunPlain
  <2>2. Progress' /\ TodoInv'
    BY <1>0, <1>1, <2>1, EndsEither, QuietStep DEF RunPlain, wordVars
  <2>3. Contents'
    BY <1>1 DEF ControlInv, Contents, RunPlain, wordVars, countVars
  <2> QED
    BY <2>2, <2>3 DEF ControlInv
<1>2. CASE RunGetGeneration
  <2>1. Progress' /\ TodoInv'
    BY <1>0, <1>2, QuietStep DEF RunGetGeneration, wordVars
  <2>2. Contents'
    BY <1>2 DEF ControlInv, Contents, RunGetGeneration, wordVars, countVars
  <2> QED
    BY <2>1, <2>2 DEF ControlInv
<1>3. CASE RunClocks
  <2>1. Progress' /\ TodoInv'
    BY <1>0, <1>3, EndsEither, QuietStep DEF RunClocks, wordVars
  <2>2. Contents'
    BY <1>3 DEF ControlInv, Contents, RunClocks, wordVars, countVars
  <2> QED
    BY <2>1, <2>2 DEF ControlInv
<1>4. CASE RunRestoreSettings
  <2>1. Progress' /\ TodoInv'
    BY <1>0, <1>4, EndsEither, QuietStep DEF RunRestoreSettings
  <2>2. Contents'
    BY <1>4 DEF ControlInv, Contents, RunRestoreSettings, countVars
  <2> QED
    BY <2>1, <2>2 DEF ControlInv
<1>5. CASE RunSaveSettings
  <2>1. Progress' /\ TodoInv'
    BY <1>0, <1>5, QuietStep DEF RunSaveSettings, Succeed, Fail, wordVars
  <2>2. Contents'
    BY <1>5 DEF ControlInv, Contents, RunSaveSettings, wordVars, countVars
  <2> QED
    BY <2>1, <2>2 DEF ControlInv
<1>6. CASE RunChannelSetting
  <2>1. PICK f \in {"program", "default"} : Run(f)
    BY <1>6 DEF RunChannelSetting
  <2>2. Progress' /\ TodoInv'
    BY <1>0, <1>6, <2>1, EndsEither, QuietStep DEF RunChannelSetting, wordVars
  <2>3. Contents'
    BY <1>6 DEF ControlInv, Contents, RunChannelSetting, wordVars, countVars
  <2> QED
    BY <2>2, <2>3 DEF ControlInv
<1>7. CASE RunCardSetting
  <2>1. Progress' /\ TodoInv'
    BY <1>0, <1>7, EndsEither, QuietStep DEF RunCardSetting, wordVars
  <2>2. Contents'
    BY <1>7 DEF ControlInv, Contents, RunCardSetting, wordVars, countVars
  <2> QED
    BY <2>1, <2>2 DEF ControlInv
<1>8. CASE RunSetRunFlags \/ RunSetRunFlagsFails
  <2>1. Advance \/ Fail
    BY <1>8 DEF RunSetRunFlags, RunSetRunFlagsFails, Succeed
  <2>2. UNCHANGED faults \/ (faults < MaxFaults /\ faults' = faults + 1)
    BY <1>8 DEF RunSetRunFlags, RunSetRunFlagsFails, Succeed, Fail
  <2>3. CASE Run("set_run_flags")
    <3>1. Now.f = "set_run_flags" /\ ArgsOK(Now) /\ Progress' /\ todo # <<>>
      BY <2>1, <2>2, <2>3, Proceeds
    <3>2. Now.word \subseteq 0 .. 3 /\ reg = {}
      BY <3>1, OpenWord DEF ArgsOK, IsWrite, ControlInv
    <3>3. run_flags' \subseteq 0 .. 3 /\ reg' = reg
      BY <1>0, <1>8, <3>1, <3>2 DEF RunSetRunFlags, RunSetRunFlagsFails, Run
    <3>4. TodoInv'
      BY <2>1, <2>2, <2>3, <3>3, QuietStep
    <3>5. Contents'
      BY <1>8, <3>3 DEF ControlInv, Contents, RunSetRunFlags, RunSetRunFlagsFails,
                        countVars
    <3> QED
      BY <3>1, <3>4, <3>5 DEF ControlInv
  <2>4. CASE Run("put_run_flags")
    <3>1. /\ Now.f = "put_run_flags" /\ Progress' /\ todo # <<>>
          /\ todo' \in {Tail(todo), <<>>}
      BY <2>1, <2>2, <2>4, Proceeds
    <3>2. Merge(Playback) \subseteq 0 .. 3
      BY <2>4, MergedFlags
    <3>3. run_flags' \subseteq 0 .. 3 /\ reg' = {}
      BY <1>0, <1>8, <3>1, <3>2 DEF RunSetRunFlags, RunSetRunFlagsFails, Run
    <3>4. TodoInv'
      BY <3>1, <3>3, WordIsIdle DEF ControlInv, IsRead
    <3>5. Contents'
      BY <1>8, <3>3 DEF ControlInv, Contents, RunSetRunFlags, RunSetRunFlagsFails,
                        countVars
    <3> QED
      BY <3>1, <3>4, <3>5 DEF ControlInv
  <2> QED
    BY <1>8, <2>3, <2>4 DEF RunSetRunFlags, RunSetRunFlagsFails
<1>9. CASE RunGetRunFlags
  <2>1. CASE Run("get_run_mode") /\ UNCHANGED reg
    <3>1. Progress' /\ TodoInv'
      BY <1>0, <1>9, <2>1, QuietStep DEF RunGetRunFlags, Succeed, wordVars
    <3>2. Contents'
      BY <1>9, <2>1 DEF ControlInv, Contents, RunGetRunFlags, wordVars, countVars
    <3> QED
      BY <3>1, <3>2 DEF ControlInv
  <2>2. CASE Run("get_run_flags") /\ reg' = run_flags
    <3>1. Progress' /\ Now.f = "get_run_flags" /\ todo # <<>>
      BY <1>9, <2>2, Proceeds DEF RunGetRunFlags, Succeed
    <3>2. TodoInv'
      BY <1>9, <2>2, <3>1, WordIsRead
      DEF ControlInv, RunGetRunFlags, Succeed, Advance, IsRead, wordVars
    <3>3. Contents'
      BY <1>0, <1>9, <2>2
      DEF ControlInv, Contents, RunGetRunFlags, wordVars, countVars
    <3> QED
      BY <3>1, <3>2, <3>3 DEF ControlInv
  <2> QED
    BY <1>9, <2>1, <2>2 DEF RunGetRunFlags
<1>10. CASE RunGetChanCont
  <2>1. /\ Progress' /\ Now.f = "get_chan_cont" /\ todo # <<>> /\ ArgsOK(Now)
    BY <1>10, Proceeds DEF RunGetChanCont, Succeed
  <2>2. TodoInv'
    BY <1>10, <2>1, WordIsRead
    DEF ControlInv, RunGetChanCont, Succeed, Advance, IsRead, wordVars
  <2>3. cont[Now.chan] \subseteq 0 .. 31
    BY <2>1 DEF ControlInv, Contents, ArgsOK
  <2>4. Contents'
    BY <1>10, <2>3 DEF ControlInv, Contents, RunGetChanCont, wordVars, countVars
  <2> QED
    BY <2>1, <2>2, <2>4 DEF ControlInv
<1>11. CASE RunSetChanCont
  <2>1. /\ Progress' /\ Now.f = "set_chan_cont" /\ todo # <<>>
        /\ todo' \in {Tail(todo), <<>>}
    BY <1>11, Proceeds DEF RunSetChanCont, Succeed, Fail
  <2>2. TodoInv'
    BY <1>0, <1>11, <2>1, WordIsIdle DEF ControlInv, RunSetChanCont, IsRead
  <2>3. Merge(SelData) \subseteq 0 .. 31
    BY <1>11, MergedSource DEF RunSetChanCont
  <2>4. Contents'
    BY <1>11, <2>3 DEF ControlInv, Contents, RunSetChanCont, countVars
  <2> QED
    BY <2>1, <2>2, <2>4 DEF ControlInv
<1>12. CASE RunGetDataSource
  <2>1. Progress' /\ TodoInv'
    BY <1>0, <1>12, QuietStep DEF RunGetDataSource, Succeed, Fail, wordVars
  <2>2. Contents'
    BY <1>12 DEF ControlInv, Contents, RunGetDataSource, wordVars, countVars
  <2> QED
    BY <2>1, <2>2 DEF ControlInv
<1>13. CASE RunReadFails
  <2>1. PICK f \in {"get_run_flags", "get_run_mode", "get_chan_cont"} : Run(f)
    BY <1>13 DEF RunReadFails
  <2>2. Progress' /\ Now.f = f /\ todo # <<>> /\ todo' = <<>>
    BY <1>13, <2>1, Proceeds DEF RunReadFails, Fail
  <2>3. reg' = {} /\ run_flags' = run_flags
    BY <1>13, <2>1, <2>2, OpenWord DEF RunReadFails, IsWrite, ControlInv, wordVars
  <2>4. TodoInv'
    BY <1>0, <2>2, <2>3, NothingLeft DEF TodoInv, OpsOK
  <2>5. Contents'
    BY <1>13 DEF ControlInv, Contents, RunReadFails, wordVars, countVars
  <2> QED
    BY <2>2, <2>4, <2>5 DEF ControlInv
<1>14. CASE RunFormat
  <2>1. Progress' /\ TodoInv' /\ Now.word \subseteq 0 .. 31
    BY <1>0, <1>14, EndsEither, QuietStep, FormatRange DEF RunFormat, ArgsOK
  <2>2. Contents'
    BY <1>14, <2>1 DEF ControlInv, Contents, RunFormat, countVars
  <2> QED
    BY <2>1, <2>2 DEF ControlInv
<1>15. CASE RunPlaybackLoad
  <2>1. Progress' /\ TodoInv'
    BY <1>0, <1>15, EndsEither, QuietStep DEF RunPlaybackLoad, wordVars
  <2>2. Contents'
    BY <1>15 DEF ControlInv, Contents, RunPlaybackLoad, wordVars, countVars
  <2> QED
    BY <2>1, <2>2 DEF ControlInv
<1>16. CASE RunClear
  <2>1. Progress' /\ TodoInv'
    BY <1>0, <1>16, QuietStep DEF RunClear, Succeed, Fail, wordVars
  <2>2. m_nb_frames \in Nat
    BY FramesAsked
  <2>3. PICK done \in SUBSET Chans :
           /\ m_nb_frames > MaxFrames => done = {}
           /\ mem' = [c \in Chans |-> [f \in Frames |->
                         IF c \in done /\ f \in FramesToClear THEN "clear"
                         ELSE mem[c][f]]]
           /\ \/ done = Chans /\ prepared' = [c \in Chans |-> m_nb_frames]
              \/ UNCHANGED prepared
    BY <1>16 DEF RunClear
  <2>4. mem' \in [Chans -> [Frames -> {"clear", "own", "stale"}]]
    BY <2>3 DEF ControlInv, Contents
  <2>5. prepared' \in [Chans -> 0 .. MaxFrames]
    BY <2>2, <2>3, Numbers, ControlAssumption DEF ControlInv, Contents
  <2>6. Contents'
    BY <1>16, <2>4, <2>5 DEF ControlInv, Contents, RunClear, wordVars
  <2> QED
    BY <2>1, <2>6 DEF ControlInv
<1>17. CASE RunHistogram
  <2>1. PICK f \in NewRuns \cup {"histogram_pause", "histogram_continue",
                                 "histogram_stop"} : Run(f)
    BY <1>17 DEF RunHistogram
  <2>2. Progress' /\ TodoInv' /\ Now.f = f
    BY <1>0, <1>17, <2>1, EndsEither, QuietStep DEF RunHistogram, NewRuns, wordVars
  <2>3. PICK done \in SUBSET Selected :
           /\ phase' = [k \in Cards |-> IF k \in done THEN PhaseAfter(Now.f, phase[k])
                                                      ELSE phase[k]]
           /\ BeginRun(done) \/ UNCHANGED <<mem, prepared>>
    BY <1>17 DEF RunHistogram
  <2>4. phase' \in [Cards -> Phases]
    <3>1. \A p \in Phases : PhaseAfter(Now.f, p) \in Phases
      BY DEF PhaseAfter, Phases
    <3> QED
      BY <2>3, <3>1 DEF ControlInv, Contents
  <2>5. mem' \in [Chans -> [Frames -> {"clear", "own", "stale"}]]
    BY <2>3 DEF ControlInv, Contents, BeginRun
  <2>6. prepared' \in [Chans -> 0 .. MaxFrames]
    BY <2>3, ControlAssumption DEF ControlInv, Contents, BeginRun
  <2>7. Contents'
    BY <1>17, <2>4, <2>5, <2>6 DEF ControlInv, Contents, RunHistogram, wordVars
  <2> QED
    BY <2>2, <2>7 DEF ControlInv
<1>18. CASE RunPoll
  <2>1. Progress' /\ TodoInv'
    BY <1>0, <1>18, QuietStep DEF RunPoll, Succeed, wordVars
  <2>2. Contents'
    BY <1>18 DEF ControlInv, Contents, RunPoll, wordVars
  <2> QED
    BY <2>1, <2>2 DEF ControlInv
<1> QED
  BY <1>1, <1>2, <1>3, <1>4, <1>5, <1>6, <1>7, <1>8, <1>9, <1>10, <1>11, <1>12,
     <1>13, <1>14, <1>15, <1>16, <1>17, <1>18 DEF SdkStep

(* A poll that is made again.                                              *)
LEMMA PollBusyHolds == ControlInv /\ PollBusy => ControlInv'
<1> SUFFICES ASSUME ControlInv, PollBusy PROVE ControlInv'
  OBVIOUS
<1>1. /\ seen_idle' \in BOOLEAN
      /\ UNCHANGED <<camVars, m_status, gen, reg, wordVars, phase, mem, prepared, saved,
                     todo, outcome, calls, split>>
      /\ faults' = faults \/ (faults < MaxFaults /\ faults' = faults + 1)
  BY Zenon DEF PollBusy
<1>2. faults' \in 0 .. MaxFaults
  <2>1. faults \in 0 .. MaxFaults /\ MaxFaults \in Nat
    BY ControlAssumption DEF ControlInv, Progress
  <2> QED
    BY <1>1, <2>1
<1>3. Progress'
  BY <1>1, <1>2 DEF ControlInv, Progress, camVars
<1>4. Contents'
  BY <1>1 DEF ControlInv, Contents, wordVars
<1>5. UNCHANGED <<todo, reg, run_flags, cont>>
  BY <1>1 DEF wordVars
<1>6. TodoInv'
  BY <1>5, Zenon DEF ControlInv, TodoInv, OpsOK, Loaded
<1> QED
  BY <1>3, <1>4, <1>6 DEF ControlInv

(* The detector counts, and drains.                                        *)
LEMMA DetectorHolds == ControlInv /\ Detector => ControlInv'
<1> SUFFICES ASSUME ControlInv, Detector PROVE ControlInv'
  OBVIOUS
<1>1. /\ UNCHANGED hwRest
      /\ mem' \in [Chans -> [Frames -> {"clear", "own", "stale"}]]
      /\ phase' \in [Cards -> Phases]
  <2>1. /\ mem \in [Chans -> [Frames -> {"clear", "own", "stale"}]]
        /\ phase \in [Cards -> Phases] /\ "idle" \in Phases
    BY DEF ControlInv, Contents, Phases
  <2>2. ASSUME NEW c \in Chans, NEW f \in Frames, Count(c, f)
        PROVE  /\ UNCHANGED <<phase, hwRest>>
               /\ mem' \in [Chans -> [Frames -> {"clear", "own", "stale"}]]
    BY <2>1, <2>2 DEF Count
  <2>3. ASSUME NEW k \in Cards, Drained(k)
        PROVE  UNCHANGED <<mem, hwRest>> /\ phase' \in [Cards -> Phases]
    BY <2>1, <2>3 DEF Drained
  <2> QED
    BY <2>1, <2>2, <2>3 DEF Detector
<1>2. Progress' /\ TodoInv'
  BY <1>1 DEF ControlInv, Progress, TodoInv, Loaded, hwRest, camVars, wordVars, callVars
<1>3. Contents'
  BY <1>1 DEF ControlInv, Contents, hwRest, wordVars
<1> QED
  BY <1>2, <1>3 DEF ControlInv

LEMMA StutterHolds == ControlInv /\ UNCHANGED vars => ControlInv'
<1> SUFFICES ASSUME ControlInv, UNCHANGED vars PROVE ControlInv'
  OBVIOUS
<1> USE DEF vars, camVars, wordVars, countVars, callVars
<1>1. Progress'
  BY DEF ControlInv, Progress, Loaded
<1>2. Contents'
  BY DEF ControlInv, Contents
<1>3. UNCHANGED <<todo, reg, run_flags, cont>>
  OBVIOUS
<1>4. TodoInv'
  BY <1>3, Zenon DEF ControlInv, TodoInv, OpsOK, Loaded
<1> QED
  BY <1>1, <1>2, <1>4 DEF ControlInv

LEMMA NextHolds == ControlInv /\ [Next]_vars => ControlInv'
BY CameraCallHolds, SdkStepHolds, PollBusyHolds, DetectorHolds, StutterHolds DEF Next

LEMMA AlwaysInv == Spec => []ControlInv
<1>1. Init => ControlInv
  BY InitHolds
<1>2. ControlInv /\ [Next]_vars => ControlInv'
  BY NextHolds
<1> QED
  BY <1>1, <1>2, PTL DEF Spec

-----------------------------------------------------------------------------
(* ControlTypeOK: every variable of the control calls has its type, and a  *)
(* word that was read is there only between the read and the write of it   *)
(* (setDataSource, setPlayback).                                           *)
THEOREM ControlTypeCorrect == Spec => []ControlTypeOK
BY AlwaysInv, InvGivesType, PTL

(* ReadModifyWriteKeeps: setDataSource leaves the bits of the channel      *)
(* control word that are not the source's, and setPlayback the run flags   *)
(* but PLAYBACK, whatever fails and whatever the detector does meanwhile.  *)
THEOREM OtherBitsKept == Spec => ReadModifyWriteKeeps
<1> DEFINE Keeps ==
       /\ todo # <<>> /\ Now.f = "set_chan_cont"
          => \A c \in Chans : cont'[c] \ SelData = cont[c] \ SelData
       /\ todo # <<>> /\ Now.f = "put_run_flags"
          => run_flags' \ Playback = run_flags \ Playback
<1>1. ControlInv /\ [Next]_vars => [Keeps]_vars
  <2> SUFFICES ASSUME ControlInv, Next PROVE Keeps
    OBVIOUS
  <2>1. CASE cont' = cont /\ run_flags' = run_flags
    BY <2>1
  <2>2. CASE CameraCall
    <3>1. todo = <<>>
      BY <2>2
      DEF CameraCall, Call, SetCard, SetNbFrames, SetClearMode, SetPlayback, Reset,
          PrepareAcq, Start, Arm, Pause, Restart, Control, Stop, StartScope,
          GetRunMode, LoadPlayback, ReadRawHistogram, SetRunMode, SetDataSource,
          FormatRun, SetScaling, GetDataSource, InitRoi, InitBrams, SetRoi,
          SetWindow, SetGoodThreshold, SetRinging, SetDeadtimeCorrectionParameters,
          SetChannel, SetDeadtimeCalculationEnergy, SetFanSetpoint,
          SetFanController, SetAdcTempLimit, SetCards, SetupClocks,
          GetFanTemperatures, SaveSettings, RestoreSettings
    <3> QED
      BY <3>1
  <2>3. CASE RunSetChanCont
    <3>1. Now.f = "set_chan_cont" /\ run_flags' = run_flags
      BY <2>3 DEF RunSetChanCont, Run
    <3>2. /\ Now.chan \in Chans
          /\ Merge(SelData) \ SelData = cont[Now.chan] \ SelData
      BY <2>3, MergedSource DEF RunSetChanCont
    <3>3. ASSUME NEW c \in Chans PROVE cont'[c] \ SelData = cont[c] \ SelData
      BY <2>3, <3>2 DEF RunSetChanCont, ControlInv, Contents
    <3> QED
      BY <3>1, <3>3
  <2>4. CASE RunSetRunFlags \/ RunSetRunFlagsFails
    <3>1. cont' = cont
      BY <2>4 DEF RunSetRunFlags, RunSetRunFlagsFails
    <3>2. ASSUME Now.f = "put_run_flags", todo # <<>>
          PROVE  run_flags' \ Playback = run_flags \ Playback
      <4>1. Run("put_run_flags")
        BY <2>4, <3>2 DEF RunSetRunFlags, RunSetRunFlagsFails, Run
      <4>2. Merge(Playback) \ Playback = run_flags \ Playback
        BY <4>1, MergedFlags
      <4> QED
        BY <2>4, <3>2, <4>2 DEF RunSetRunFlags, RunSetRunFlagsFails, Run
    <3> QED
      BY <3>1, <3>2
  <2>5. CASE RunRestoreSettings
    BY <2>5 DEF RunRestoreSettings, Run
  <2>6. CASE Detector
    BY <2>1, <2>6 DEF Detector, Count, Drained, hwRest, wordVars
  <2>7. CASE \/ RunPlain \/ RunGetGeneration \/ RunClocks \/ RunSaveSettings
             \/ RunChannelSetting \/ RunCardSetting \/ RunGetRunFlags
             \/ RunGetChanCont \/ RunGetDataSource \/ RunReadFails \/ RunFormat
             \/ RunPlaybackLoad \/ RunClear \/ RunHistogram \/ RunPoll
    BY <2>1, <2>7
    DEF RunPlain, RunGetGeneration, RunClocks, RunSaveSettings, RunChannelSetting,
        RunCardSetting, RunGetRunFlags, RunGetChanCont, RunGetDataSource,
        RunReadFails, RunFormat, RunPlaybackLoad, RunClear, RunHistogram, RunPoll,
        wordVars
  <2>8. CASE PollBusy
    BY <2>1, <2>8 DEF PollBusy, wordVars
  <2> QED
    BY <2>2, <2>3, <2>4, <2>5, <2>6, <2>7, <2>8 DEF Next, SdkStep
<1> QED
  BY <1>1, AlwaysInv, PTL DEF Spec, ReadModifyWriteKeeps

(* OwnCounts: what prepareAcq cleared holds nothing but the counts of the  *)
(* run that follows, on every channel, whatever is selected, started a     *)
(* second time, cleared in part or counted meanwhile.                      *)
THEOREM FramesAreOwn == Spec => []OwnCounts
<1>1. Init => OwnCounts
  BY DEF Init, OwnCounts, Frames
<1>2. ControlInv /\ OwnCounts /\ [Next]_vars => OwnCounts'
  <2> SUFFICES ASSUME ControlInv, OwnCounts, [Next]_vars PROVE OwnCounts'
    OBVIOUS
  <2> USE DEF OwnCounts
  <2>1. CASE UNCHANGED <<mem, prepared>>
    BY <2>1
  <2>2. CASE RunClear
    <3>1. m_nb_frames \in Nat
      BY FramesAsked
    <3>2. PICK done \in SUBSET Chans :
             /\ mem' = [c \in Chans |-> [f \in Frames |->
                           IF c \in done /\ f \in FramesToClear THEN "clear"
                           ELSE mem[c][f]]]
             /\ \/ done = Chans /\ prepared' = [c \in Chans |-> m_nb_frames]
                \/ UNCHANGED prepared
      BY <2>2 DEF RunClear
    <3>3. \A f \in Frames : f < m_nb_frames => f \in FramesToClear
      BY <3>1, ControlAssumption DEF Frames, FramesToClear
    <3> QED
      BY <3>2, <3>3
  <2>3. CASE RunHistogram
    <3>1. PICK done : BeginRun(done) \/ UNCHANGED <<mem, prepared>>
      BY <2>3 DEF RunHistogram
    <3>2. ASSUME BeginRun(done), NEW c \in Chans, NEW f \in Frames, f < prepared'[c]
          PROVE  mem'[c][f] # "stale"
      <4>1. prepared'[c] = prepared[c]
            /\ ~(CardOf(c) \in done /\ mem[c][f] = "own")
        BY <3>2, ControlAssumption DEF BeginRun, Frames
      <4>2. mem'[c][f] = mem[c][f]
        BY <3>2, <4>1 DEF BeginRun
      <4> QED
        BY <3>2, <4>1, <4>2
    <3> QED
      BY <2>1, <3>1, <3>2
  <2>4. CASE Detector
    <3>1. CASE \E c \in Chans, f \in Frames : Count(c, f)
      BY <3>1 DEF Count, hwRest, ControlInv, Contents
    <3>2. CASE \E k \in Cards : Drained(k)
      BY <2>1, <3>2 DEF Drained, hwRest
    <3> QED
      BY <2>4, <3>1, <3>2 DEF Detector
  <2>5. CASE CameraCall
    BY <2>1, <2>5
    DEF CameraCall, Call, SetCard, SetNbFrames, SetClearMode, SetPlayback, Reset,
        PrepareAcq, Start, Arm, Pause, Restart, Control, Stop, StartScope,
        GetRunMode, LoadPlayback, ReadRawHistogram, SetRunMode, SetDataSource,
        FormatRun, SetScaling, GetDataSource, InitRoi, InitBrams, SetRoi,
        SetWindow, SetGoodThreshold, SetRinging, SetDeadtimeCorrectionParameters,
        SetChannel, SetDeadtimeCalculationEnergy, SetFanSetpoint,
        SetFanController, SetAdcTempLimit, SetCards, SetupClocks,
        GetFanTemperatures, SaveSettings, RestoreSettings, countVars
  <2>6. CASE \/ RunPlain \/ RunGetGeneration \/ RunClocks \/ RunRestoreSettings
             \/ RunSaveSettings \/ RunChannelSetting \/ RunCardSetting
             \/ RunSetRunFlags \/ RunSetRunFlagsFails \/ RunGetRunFlags
             \/ RunGetChanCont \/ RunSetChanCont \/ RunGetDataSource \/ RunReadFails
             \/ RunFormat \/ RunPlaybackLoad \/ RunPoll
    BY <2>1, <2>6
    DEF RunPlain, RunGetGeneration, RunClocks, RunRestoreSettings, RunSaveSettings,
        RunChannelSetting, RunCardSetting, RunSetRunFlags, RunSetRunFlagsFails,
        RunGetRunFlags, RunGetChanCont, RunSetChanCont, RunGetDataSource,
        RunReadFails, RunFormat, RunPlaybackLoad, RunPoll, countVars
  <2>7. CASE PollBusy \/ UNCHANGED vars
    BY <2>1, <2>7 DEF PollBusy, vars, countVars
  <2> QED
    BY <2>2, <2>3, <2>4, <2>5, <2>6, <2>7 DEF Next, SdkStep
<1> QED
  BY <1>1, <1>2, AlwaysInv, PTL DEF Spec
=============================================================================
