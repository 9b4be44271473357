--------------------------- MODULE MCBytesToUsecs ---------------------------
(* TLC instance of BytesToUsecs: an 8-bit int64_t and 10 "usecs" per       *)
(* second, so that the product overflows within 40 bytes of a stream.      *)
EXTENDS BytesToUsecs

MCFrameSizes == {2, 3}
MCSampleRates == {1, 3}
MCChunks == {1, 2, 5}
=============================================================================
