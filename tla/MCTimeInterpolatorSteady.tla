---------------------- MODULE MCTimeInterpolatorSteady ----------------------
(* TLC instance of TimeInterpolatorSteady: latency 8, callback period 2    *)
(* (a quarter of the latency, as the stability criteria ask), clock bound  *)
(* long enough for the loop to lock and stay locked.                       *)
EXTENDS TimeInterpolatorSteady

MCLatencyArgs == {0}
MCSeekArgs == {0}
MCFrameArgs == {2}
=============================================================================
