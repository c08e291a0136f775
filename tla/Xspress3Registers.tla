------------------------- MODULE Xspress3Registers -------------------------
(***************************************************************************)
(* The register words of the Xspress3, as sdk/include/xspress3.h lays them *)
(* out.  A word is the set of the numbers of its bits that are 1, so that  *)
(* |, & and &~ of the code are union, intersection and difference.         *)
(*                                                                         *)
(* A register is a pair of functions from field names to sets of bits: put *)
(* is what the macro that builds the field writes, get is what the macro   *)
(* that extracts it reads.  A word that only the hardware builds has its   *)
(* GET macros under put.                                                   *)
(***************************************************************************)
EXTENDS Integers, FiniteSets

Fields(put) == [put |-> put, get |-> <<>>]
Register(put, get) == [put |-> put, get |-> get]

(* The word whose field holds the number v, and the number a field holds.  *)
LowBit(field) == CHOOSE l \in field : \A b \in field : l <= b
Encode(field, v) == {b \in field : (v \div 2 ^ (b - LowBit(field))) % 2 = 1}
Decode(field, word) ==
    CHOOSE v \in 0 .. 2 ^ Cardinality(field) - 1 :
        Encode(field, v) = word \cap field

-----------------------------------------------------------------------------
(* The registers of a channel.                                             *)

ChanCont == Register(
    [SEL_DATA |-> 0 .. 2, DATA_INV |-> {3}, DET_RESET_INV |-> {4},
     USE_TEST_PAT |-> {5}, TP_CONTINUOUS |-> {6}, USE_RESET_FROM_DIFF |-> {7},
     GR_MASKS_RESET_TICKS |-> {8}, GR_FROM_PLAYBACK |-> {9},
     ENB_INL_CORR |-> {10}, AVE_RINGING_REMOVED |-> {11},
     LIVE_TICKS_MODE |-> 12 .. 14, GOOD_GRADE_MODE |-> 15 .. 16,
     NO_EXTEND_RESET_TICKS |-> {17}, RUN_AVE_BY_WIDTH |-> {18},
     NEB_EVENT_MODE |-> 20 .. 22, MAX_FILT_LEN |-> 24 .. 26, FINE_END |-> {27},
     SEL_ENERGY |-> 28 .. 31, SEND_RESET_WIDTHS |-> {12}],
    [MAX_FILT_LEN |-> 24 .. 26, GOOD_GRADE_MODE |-> 15 .. 16])

ResetA == Register(
    [TIME |-> 0 .. 9, OUTPUT_RESET |-> {10}, OVER_RANGE_EXTEND |-> {11},
     DELAY |-> 12 .. 15, THRES |-> 16 .. 31],
    [TIME |-> 0 .. 9, DELAY |-> 12 .. 15, THRES |-> 16 .. 31])

ResetB == Fields(
    [DIFF_DEL |-> 0 .. 3, DATA_DEL |-> 4 .. 9, AVE_CONT |-> 10 .. 11,
     DIFF_THRES |-> 12 .. 22, RAW_TIME |-> 23 .. 28, SET_MODE |-> 30 .. 31])

ResetC == Register(
    [THRES_RISE |-> 0 .. 15, THRES_FALL |-> 16 .. 31,
     THRES_FALL_V2 |-> 20 .. 31, LONG_HOLD_OFF_V2 |-> 16 .. 19],
    [THRES_RISE |-> 0 .. 15, THRES_FALL |-> 16 .. 31])

GlitchA == Register(
    [ENABLE |-> {0}, GLITCH_TIME |-> 1 .. 9, GLITCH_THRES8 |-> 10 .. 17,
     GLITCH_THRES10 |-> 10 .. 19, DIFF_TIME |-> {18}, PRE_TIME |-> 20 .. 24,
     GLOBAL_RESET_LEVEL |-> {25}, GLOBAL_RESET_EDGE |-> {26},
     RETRIGGER |-> {27}, MASK_GLITCH_EVENT |-> {28}, COUNT_TIME |-> {29},
     EVDET |-> 30 .. 31, PRE_TIME_LONG |-> (20 .. 24) \cup (30 .. 31)],
    [GLITCH_TIME |-> 1 .. 9, GLITCH_THRES |-> 10 .. 17])

GlitchB == Register(
    [HOLDOFF |-> 0 .. 8, SUMMODE |-> 9 .. 10, MASK_BOG_EVENT |-> {11},
     GLITCH_STRETCH |-> 12 .. 17, BGE_STRETCH |-> 18 .. 22, FORCE_EVENT |-> {23},
     DIFF_SEP |-> 24 .. 27, BGE_EXTEND |-> {28}, SHORT_PADDING |-> {29},
     BGE_LOOKAHEAD |-> {30}],
    [SUMMODE |-> 9 .. 10, GLITCH_STRETCH |-> 12 .. 17, BGE_STRETCH |-> 18 .. 22,
     DIFF_SEP |-> 24 .. 27])

RstXtk == Register(
    [CHAN_MASK |-> 0 .. 15, ENABLE |-> {16}, EDGE_MODE |-> {17},
     STRETCH_TIME |-> 18 .. 26],
    [CHAN_MASK |-> 0 .. 15, STRETCH_TIME |-> 18 .. 26])

XtkCorrA == Fields(
    [ENB_SUBTRACT |-> {0}, SHAPE_LEN |-> 1 .. 7, PRE_SAMPLES |-> 8 .. 13,
     MIN_AGG |-> 14 .. 23, MAX_NOISE |-> 24 .. 31])

XtkCorrB == Fields(
    [ENB_DELETE |-> 0 .. 2, SERVO_DELETE_TRIG_B |-> {3},
     SERVO_DELETE |-> 4 .. 6, SERVO_MAX_NOISE |-> 8 .. 15,
     DEL_MIN_AGG |-> 16 .. 25, SERVO_PRE_TIME |-> 26 .. 30,
     DISABLE_SPLIT |-> {31}])

XtkCorrC == Register(
    [FIFO1_RESET_BAD |-> {0}, FIFO2_RESET_BAD |-> {1}, SUB_DISCARD_BAD |-> {2},
     SUB_SKIP |-> {3}, MID_DISCARD_BAD |-> {4}, NOISE_DISCARD_BAD |-> {5},
     CHECK_ENG_TOP |-> {6}, ORDER_CHAN_OUT |-> {7}, MID_DISCARD_LATE |-> {8},
     SUB_DISCARD_LATE |-> {9}, NOISE_DEL_CORRECTED |-> {10},
     SERVO_MASK_STRETCH |-> 11 .. 16],
    [SERVO_MASK_STRETCH |-> 1 .. 6])

TrigBThres == Register(
    [ARM |-> 0 .. 9, END |-> 10 .. 19, REARM |-> 20 .. 29, TWO_OVER |-> {30},
     ENABLE_CFD |-> {31}],
    [ARM |-> 0 .. 9, END |-> 10 .. 19, REARM |-> 20 .. 29])

TrigBTimeA == Register(
    [DIFF1 |-> 0 .. 6, DIFF2 |-> 7 .. 13, DATA |-> 14 .. 20, EVENT |-> 21 .. 27,
     AVEMODE |-> 28 .. 29, DISABLE_SPLIT |-> {30}, ENABLE_OVERTHR |-> {31}],
    [DIFF1 |-> 0 .. 6, DIFF2 |-> 7 .. 13, DATA |-> 14 .. 20, EVENT |-> 21 .. 27,
     AVEMODE |-> 28 .. 29])

TrigBTimeB == Register(
    [OVERTHR_DELAY |-> 0 .. 4, OVERTHR_STRETCH |-> 8 .. 13,
     OVERTHR_TRIM |-> 16 .. 20, ENB_SPLIT_OTD |-> {29}, THRES_SCALE |-> {30},
     SCALED_THRES_MODE |-> {31}],
    [OVERTHR_DELAY |-> 0 .. 4, OVERTHR_STRETCH |-> 8 .. 13,
     OVERTHR_TRIM |-> 16 .. 20, THRES_SCALE |-> {30}])

TrigBFast == Register(
    [AVEMODE |-> 0 .. 1, DIFF1_DELAY |-> 2 .. 6, ALIGN_DELAY |-> 7 .. 10,
     ARM_THRES |-> 11 .. 20, END_THRES |-> 21 .. 30, ENABLE |-> {31}],
    [AVEMODE |-> 0 .. 1, DIFF1_DELAY |-> 2 .. 6, ALIGN_DELAY |-> 7 .. 10,
     ARM_THRES |-> 11 .. 20, END_THRES |-> 21 .. 30])

TrigBTimeC == Register(
    [ENB_VARIABLE_WIDTH |-> {0}, VARIABLE_WIDTH |-> 1 .. 5,
     ENB_SPLIT_TOUCHING |-> {6}, ENB_FAST_DIFF2 |-> {7}],
    [VARIABLE_WIDTH |-> 1 .. 5])

TrigBCTime == Register(
    [SERVO_DELAY |-> 0 .. 4, SERVO_STRETCH |-> 8 .. 13, SERVO_TRIM |-> 16 .. 19,
     SERVO_MIN_WIDTH |-> 21 .. 27, USE_DET_RESET |-> {30},
     SERVO_USE_DET_RESET |-> {31}],
    [SERVO_DELAY |-> 0 .. 4, SERVO_STRETCH |-> 8 .. 13, SERVO_TRIM |-> 16 .. 19,
     SERVO_MIN_WIDTH |-> 21 .. 27])

TrigCThres == Register(
    [ARM |-> 0 .. 9, END |-> 10 .. 19, DIFF1 |-> 20 .. 26, AVEMODE |-> 27 .. 28,
     TWO_OVER |-> {29}, ENB_NEGATIVE |-> {30}, IGNORE_NEAR_GLITCH |-> {31}],
    [ARM |-> 0 .. 9, END |-> 10 .. 19, DIFF1 |-> 20 .. 26, AVEMODE |-> 27 .. 28])

TrigBRinging == Register(
    [SCALE_A |-> 0 .. 10, DELAY_A |-> 11 .. 15, SCALE_B |-> 16 .. 26,
     DELAY_B |-> 27 .. 31],
    [SCALE_A |-> 0 .. 10, DELAY_A |-> 1 .. 5, SCALE_B |-> 16 .. 26,
     DELAY_B |-> 27 .. 31])

CalEv == Fields([ENABLE |-> {0}, PERIOD |-> 1 .. 14, AVOID |-> {31}])

Window == Fields([LOW |-> 0 .. 15, HIGH |-> 16 .. 31])

ServoA == Register(
    [DIV |-> 0 .. 2, STRETCH |-> 3 .. 9, PWL_TIME |-> 10 .. 11,
     PRE_GAP |-> 12 .. 15, GRAD_ERR_LIM |-> 16 .. 23,
     MASK_GLOBAL_GLITCH |-> {24}, ACCUM_ON_UPDATE |-> {25},
     CLEAR_ON_UPDATE |-> {26}, CAL_EXCLUDE |-> 27 .. 28, FROM_CAL |-> {29},
     MASK_GLITCH |-> {30}, PWL_ENB |-> {31}],
    [STRETCH |-> 3 .. 9, PWL_TIME |-> 10 .. 11, PRE_GAP |-> 12 .. 15])

ServoB == Fields(
    [GRAD_EST_LIM |-> 0 .. 15, ENB_GLOB_GRAD |-> {16}, GLOB_ADJ_SIZE |-> 17 .. 18,
     GLOB_ADJ_POSN |-> 19 .. 25, GLOB_ADJ_SHIFT |-> 26 .. 28,
     STRETCH_TIME |-> {29}, GLITCH_AS_RESET |-> {30}, USE_ADC_TOP4 |-> {31}])

ServoC == Register(
    [ENB_SERVO |-> {0}, RESTART_ON_RUN |-> {1}, USE_OTD_SERVO |-> {2},
     RESET_STRETCH |-> 3 .. 11, DITHER_CONT |-> 12 .. 14,
     ENB_BI_LIN_TIME |-> {15}, BI_LIN_TIME_CODE |-> 16 .. 17,
     BI_LIN_TIME_START |-> 18 .. 20, RESET_PRE_TIME |-> 21 .. 25,
     GR_PRE_TIME |-> 26 .. 28, GR_STRETCH |-> 29 .. 31],
    [RESET_STRETCH |-> 3 .. 11, DITHER_CONT |-> 12 .. 14])

CshrCont == Register(
    [ENB |-> {0}, COINC |-> 1 .. 2, ENB_NEB_TRIG |-> {8}, ENB_MASK_LARGE |-> {9},
     NEB_TRIG_DISCARD_BAD |-> {10}],
    [COINC |-> 1 .. 2])

XtkMap == Fields(
    [MAPPED |-> 0 .. 3, ENB_MASK_UNCOND |-> {4}, ENB_MASK_COND |-> {5},
     VALID_COIN |-> {6}, VALID_SUBTRACT |-> {7}, MASK_DELAY |-> 8 .. 13,
     MASK_WIDTH |-> 14 .. 19, CSHR_WIDTH |-> 20 .. 25,
     CSHR_STRETCH_WIDTH |-> {29}, CSHR_ENB |-> {30}, STRETCH_WIDTH |-> {31}])

Format == Register(
    [CSHR_MODE |-> 1 .. 2, USER_TIMESTAMP |-> {3}, AUX1_MODE |-> 4 .. 7,
     AUX1_THRES |-> 8 .. 17, NBITS_ENG |-> 21 .. 24, NBITS_ADC |-> 25 .. 27,
     AUX2_MODE |-> 28 .. 30, PILEUP_REJECT |-> {31}],
    [CSHR_MODE |-> 1 .. 2, AUX1_MODE |-> 4 .. 7, AUX1_THRES |-> 8 .. 17,
     NBITS_ENG |-> 21 .. 24, NBITS_ADC |-> 25 .. 27, AUX2_MODE |-> 28 .. 30])

-----------------------------------------------------------------------------
(* The registers and the flags of a card, or of the system.                *)

Sync == Register(
    [MODE |-> 0 .. 7, GR_CARD |-> 6 .. 11, GLOBAL_RESET |-> {15}],
    [MODE |-> 0 .. 7, GR_CARD |-> 6 .. 11])

GlobClock == Fields(
    [FROM_ADC |-> {0}, SP_RESET |-> {1}, IDC_TIMING_DRIVER |-> {2},
     MMCM_RESET |-> {3}, TSYNC_MODE |-> 6 .. 7, TP_ENB_SP_TOP |-> {8},
     USER_TSYNC_MODE |-> 9 .. 11, RS232_SEL |-> {31}])

GlobTimA == Register(
    [TF_SRC |-> 0 .. 2, F0_INV |-> {3}, VETO_INV |-> {4}, ENB_SCALER |-> {5},
     ENB_HIST |-> {6}, LOOP_IO |-> {7}, NUM_SCAL_CHAN |-> 8 .. 11,
     SW_MARKERS |-> 12 .. 13, FRAME_CAPTURE |-> {14}, FROM_RADIAL |-> {15},
     DEBOUNCE |-> 16 .. 23, ALT_TTL |-> 24 .. 27, ITFG_RUN |-> {28},
     COUNT_ENB |-> {29}, PB_RST |-> {30}, RUN |-> {31}],
    [TF_SRC |-> 0 .. 2])

GlobTimB == Register([FIXED |-> 0 .. 23, ITFG_MARK |-> 30 .. 31],
                     [FIXED |-> 0 .. 23])

ScopeChanSel == Register(
    [ENB_SCOPE |-> {0}, BYTE_SWAP |-> {1}, DELAY_START |-> {2},
     EXTRA_DELAY |-> {3}, HIST_TO_DMA |-> {2}, SEL0 |-> 4 .. 7, SEL1 |-> 8 .. 11,
     SEL2 |-> 12 .. 15, SEL3 |-> 16 .. 19, SEL4 |-> 20 .. 23, SEL5 |-> 24 .. 27],
    [SEL0 |-> 4 .. 7, SEL1 |-> 8 .. 11, SEL2 |-> 12 .. 15, SEL3 |-> 16 .. 19,
     SEL4 |-> 20 .. 23, SEL5 |-> 24 .. 27])

DataPath == Fields(
    [HIST_TO_DMA |-> {0}, ENB_10G_RX |-> {1}, ENB_10G_RX_ACKS |-> {2},
     SEL_10G_TX_DMA |-> {3}, FARM_MODE |-> {4}, RX_RESET |-> {30},
     TX_RESET |-> {31}])

TimeStatusA == Fields(
    [FRAME |-> 0 .. 23, ITFG_COUNTING |-> {24}, ITFG_RUNNING |-> {25},
     ITFG_PAUSED |-> {26}, ITFG_FINISHED |-> {27}])

GlobRstGenA == Fields(
    [ENB |-> {0}, SYNC_MODE |-> 1 .. 2, DET_RESET_WIDTH |-> 4 .. 10,
     HOLD_OFF_TIME |-> 12 .. 21, ACTIVE_DELAY |-> 22 .. 28])

ItfgFrames == Register(
    [FRAMES |-> 0 .. 23, TRIG_MODE |-> 24 .. 26, ACQ_WHEN_PAUSED |-> 27 .. 28,
     GAP_MODE |-> 30 .. 31],
    [FRAMES |-> 0 .. 23, TRIG_MODE |-> 24 .. 26, GAP_MODE |-> 30 .. 31])

RunFlags == Fields(
    [PLAYBACK |-> {0}, SCOPE |-> {1}, SCALERS |-> {2}, HIST |-> {3},
     DIAG_HIST |-> {4}, CIRCULAR_BUFFER |-> {8}])

Spi == Fields(
    [GOE |-> 0 .. 3, NSYNC |-> 4 .. 7, DITHER |-> {8}, PSU |-> 9 .. 15,
     TP_TYPE |-> 21 .. 22, TP_ENB |-> {23}, LD2 |-> {24}, LD3 |-> {25},
     DIS_OVER_TEMP |-> {9}, SHUTDOWN0 |-> {10}, SHUTDOWN123 |-> {11},
     SHUTDOWN4 |-> {12}, SHUTDOWN5678 |-> {13}])

ClkFlags == Fields(
    [MASTER |-> {0}, NO_DITHER |-> {1}, STAGE1_ONLY |-> {2}, NO_CHECK |-> {3},
     TP_ENB |-> {4}, DIS_OVER_TEMP |-> {5}, SHUTDOWN0 |-> {6},
     SHUTDOWN123 |-> {7}, SHUTDOWN4 |-> {8}, SHUTDOWN5678 |-> {9},
     SHUTDOWN1_3 |-> 10 .. 12, SHUTDOWN5_9 |-> 13 .. 17, TS_SYNC |-> {30}])

(* The two words of the event list: the header of a frame and an event.    *)
FrameHeader == Fields(
    [FRAME |-> 0 .. 23, PREV_TIME |-> 24 .. 55, TF_DELETE |-> {56},
     TF_MARKER1 |-> {57}, TF_MARKER2 |-> {58}, END_OF_FRAME |-> {59},
     CHAN |-> 60 .. 63])
EventWord == Fields(
    [HEIGHT |-> 0 .. 11, IN_RANGE |-> {12}, CAL_EVENT |-> {13},
     DIFF_NEGATIVE |-> {14}, RESET |-> {15}, GOOD_GRADE |-> {16},
     AUX2 |-> 17 .. 32, WIDTH |-> 33 .. 40, RESET_START |-> 41 .. 44,
     RESET_DUMMY |-> {45}, CHAN |-> 48 .. 51, CSHARE |-> {49},
     AUX1 |-> 52 .. 63])

-----------------------------------------------------------------------------
(* The codes of the fields that hold a choice.                             *)

SelDataCodes == [NORMAL |-> 0, ALTERNATE |-> 1, MUX_DATA |-> 2, EXT0 |-> 4,
                 EXT1 |-> 5, PB_CHAN |-> 6, GLOB_RST |-> 7]
NebEventModes == [NONE |-> 0, TRIGGER |-> 1, REJECT_LONE |-> 2, REJECT_ALL |-> 3]
LiveTicksModes == [OFF |-> 0, RESET_TICKS |-> 1, IN_WINDOW1 |-> 2, PILEUP |-> 3]
GoodGradeModes == [MCA_ONLY |-> 0, MCA_WIN |-> 1, ALL_EVENT |-> 2, ALL_GOOD |-> 3]

ResetBModes == [OFF |-> 0, FROM_START |-> 1, END_GRAD |-> 2, END_LEVEL |-> 3]
ResetBSums == [SUM1 |-> 0, SUM2 |-> 1, SUM4 |-> 2]
GlitchBSums == [SUM1 |-> 0, SUM2 |-> 1, SUM4 |-> 2]

XtkDeletes == [OFF |-> 0, NO_COINC |-> 1, COINC_WID4OFF2 |-> 2,
               COINC_WID6OFF2 |-> 3, COINC_WID8OFF2 |-> 4]
CshrCoincs == [ANY |-> 0, PM2 |-> 1, PM1 |-> 2, COINC |-> 3]

CshrModes == [NONE |-> 0, MARK |-> 1, DELETE |-> 2]
ResModes == [NONE |-> 0, MINDIV8 |-> 1, THRES |-> 2, LOG |-> 3, TOP |-> 4,
             BOT |-> 5, MIN |-> 6, PILEUP |-> 7, LUT_SETUP |-> 8,
             LUT_THRES |-> 9, GOOD_GRADE |-> 15]
NbitsAux == [n \in {0, 4, 6, 8, 10, 12, 14, 16} |->
                IF n = 0 THEN 0 ELSE (n - 2) \div 2]
Aux2Modes == [ADC |-> 0, WIDTH |-> 1, RST_START_ADC |-> 2, NEB_RST_ADC |-> 3,
              NEB_RST_RST_START_ADC |-> 4, TIME_FROM_RST |-> 5,
              NEB_RST_TIME_FROM_RST |-> 6, NEB_RST_TIME_FROM_RSTX8 |-> 7]

TsyncModes == [ASYNC |-> 0, EXT_SYNC |-> 1, EXT_SYNC_RUN |-> 2]
UserTsyncModes == [FRAMING |-> 0, STANDALONE |-> 1, TEST_GLOB_RST |-> 4,
                   TEST_GLOB_RST0 |-> 5, TEST_STANDALONE |-> 6]
TimeSources == [SOFTWARE |-> 0, INTERNAL |-> 1, IDC |-> 3, TTL_VETO_ONLY |-> 4,
                TTL_BOTH |-> 5, LVDS_VETO_ONLY |-> 6, LVDS_BOTH |-> 7]
ItfgMarks == [TTL |-> 0, SW |-> 1, ITFG |-> 2]
AltTtlModes == [TIMING_VETO |-> 0, TIMING_ALL |-> 1, TIMING_VETO_RUN |-> 2,
                TIMING_VETO_GR |-> 4, TIMING_ALL_GR |-> 5, INWINDOW |-> 8,
                INWINLIVE |-> 9, INWINLIVETOGGLE |-> 10, INWINGOODLIVE |-> 11,
                INWINGOODLIVETOGGLE |-> 12]
SyncModes == [NONE |-> 0, LEMO_RADIAL |-> 1, LEMO_DAISYCHAIN |-> 2, IDC |-> 3,
              MIDPLANE |-> 4, LEMO_DAISYCHAIN_TEE |-> 5]

ItfgTrigModes == [BURST |-> 0, SOFTWARE |-> 1, HARDWARE |-> 2,
                  PB0GLOB_RESET |-> 3, SOFTWARE_ONLY_FIRST |-> 5,
                  HARDWARE_ONLY_FIRST |-> 6]
ItfgPausedModes == [OFF |-> 0, ALL |-> 1, EXCL_FIRST |-> 2]
ItfgGapModes == [GAP_25NS |-> 0, GAP_200NS |-> 1, GAP_500NS |-> 2, GAP_1US |-> 3]

(* The clocks xsp3_clocks_setup may be told; no field of a register. *)
ClkSources == [INT |-> 0, XTAL |-> 1, EXT |-> 2, FPGA |-> 3,
               X3M_CDCM61004 |-> 16, X3M_LMK61E2 |-> 17,
               MIDPLN_CDCM61004 |-> 32, MIDPLN_LMK61E2 |-> 33]

-----------------------------------------------------------------------------
(* Numbers the code relies on: what XSP3 functions return when they fail,  *)
(* the scalers of a channel, the offsets of the registers a settings file  *)
(* holds, and the sizes of the memories it holds.                          *)

ErrorCodes == (-12 .. -1) \cup {-20}

SwScalers == [LIVE_TICKS |-> 0, RESET_TICKS |-> 1, NUM_RESETS |-> 2,
              ALL_EVENT |-> 3, ALL_GOOD |-> 4, IN_WINDOW0 |-> 5,
              IN_WINDOW1 |-> 6, PILEUP |-> 7, TOTAL_TICKS |-> 8]
SwNumScalers == 9

ChanOffsets ==
    [REVISION |-> 0, REG_PRESENT |-> 1, CHAN_CONT |-> 2, TP_CYCLES |-> 3,
     RESETA |-> 4, RESETB |-> 5, RESETC |-> 6, GLITCHA |-> 7, GLITCHB |-> 8,
     XTK_CORR_A |-> 9, TRIGB_THRES |-> 10, TRIGB_TIMEA |-> 11,
     TRIGB_TIMEB |-> 12, TRIGBC_TIME |-> 13, TRIGC_THRES |-> 14,
     TRIGB_RINGING |-> 15, CAL_CONT |-> 16, SERVO_A |-> 17, SERVO_B |-> 18,
     SERVO_C |-> 19, TRIGB_FAST |-> 21, TRIGB_TIMEC |-> 22, XTK_CORR_C |-> 23,
     WINDOW0 |-> 24, WINDOW1 |-> 25, GOOD_THRES |-> 26, XTK_CORR_B |-> 27,
     FORMAT |-> 28, SCOPE_SEARCH |-> 29, RST_XTK |-> 30]
MaxNumChanReg == 32

GlobOffsets ==
    [CLOCK_CONT |-> 0, MDIO_WRITE |-> 1, TIMING_A |-> 2, TIMING_FIXED |-> 3,
     SCOPE_CHAN_SEL |-> 4, SCOPE_SRC_SEL |-> 5, SCOPE_NWORDS |-> 6,
     SCOPE_ALTERNATE |-> 7, DATA_PATH_CONT |-> 8, DATA_MUX_CONT |-> 10,
     ITFG_FRAME_LEN |-> 11, ITFG_NUM_FRAMES |-> 12, GLOB_RST_GEN_A |-> 13,
     GLOB_RST_GEN_B |-> 14]
NumGlobReg == 15

RegionSizes ==
    [RESET_TAIL |-> 1024, QUOTIENT |-> 1024, ROI |-> 4096, EVENT_TAIL |-> 1024,
     PWL_SERVO |-> 512, PWL_SERVO16 |-> 2048, PILEUP_TIME |-> 2048,
     AUX1 |-> 4096, SERVO_TAIL |-> 1024, EVENT_LEAD |-> 1024,
     WIDTH_TIME |-> 256, XTK_MAP |-> 256, XTK_SHAPE |-> 128 * 16]
MaxBramSize == 8192
=============================================================================
