------------------------------ MODULE MCSetup ------------------------------
(* Small instances of the timing configuration for TLC.  With UINT_MAX =   *)
(* 15 the frame generator counts up to 14 ticks, 70 units of time, and     *)
(* getExposureTimeRange reports 120.                                       *)
EXTENDS Xspress3Setup

MCNbFrames == {-1, 0, 2}
MCExpTimes == {0, 7, 13, 70, 90}
MCTimeSrcs == {1, 2}
MCAltTtlModes == {0}
MCDebounces == {-1, 256}
MCTriggerModes == {0, 5}
MCGapModes == {3}
=============================================================================
