----------------------------- MODULE MCReadback -----------------------------
(* Small instances of the data path for TLC: the frames go round the Lima  *)
(* buffers, as they do in a SoftBufferCtrlObj.                             *)
EXTENDS Xspress3Readback

MCBufferOf(n) == n % NbBuffers
=============================================================================
