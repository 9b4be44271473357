------------------------ MODULE MCTimeInterpolator ------------------------
(* TLC instance of TimeInterpolator.  Unit: 5 ms.  The default latency of  *)
(* 160 ms is 32 units in the code; here it is 8 (40 ms) so that the clock  *)
(* bound reaches several feedback cycles; the 40 ms offset floor is 2.     *)
EXTENDS TimeInterpolator

MCLatencyArgs == {0, 6}
MCSeekArgs == {0, 3}
MCFrameArgs == {1, 4}
=============================================================================
