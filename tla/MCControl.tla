----------------------------- MODULE MCControl -----------------------------
(* A small instance of the control calls for TLC: two cards of one channel *)
(* each.                                                                   *)
EXTENDS Xspress3Control

MCNbFrames == {0, 2, 3}
MCChanArgs == {-1, 1}
MCRunModes == {{1, 2}}
MCDataSources == {"Alternate", "Multiplexer"}
MCScalings == {4, 20}
MCClockArgs == {"ExtClk"}
MCSavedCont == {2, 5, 31}

MCFormat(nbits_eng, aux1_mode, adc_bits, aux2_mode, pileup_reject) ==
    [nbits_eng |-> nbits_eng, aux1_mode |-> aux1_mode, adc_bits |-> adc_bits,
     aux2_mode |-> aux2_mode, pileup_reject |-> pileup_reject]

MCFormatArgs == {MCFormat(12, 1, 0, 0, FALSE), MCFormat(1, 8, 16, 7, TRUE),
                 MCFormat(12, 3, 0, 0, FALSE)}
=============================================================================
