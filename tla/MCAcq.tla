------------------------------- MODULE MCAcq -------------------------------
(* Small instances of the acquisition engine for TLC.  The .cfg files give *)
(* the other constants their values.                                       *)
EXTENDS Xspress3Series

MCThreads == {"acq", "read", "ctl"}
BothModes == {"IntTrig", "ExtGate"}
Internal == {"IntTrig"}
Never == -1
=============================================================================
