--------------------- MODULE MCTimeInterpolatorUnlocked ---------------------
(* TLC instance of TimeInterpolatorUnlocked, with the constants of         *)
(* MCTimeInterpolator and two override targets.                            *)
EXTENDS TimeInterpolatorUnlocked

MCLatencyArgs == {0, 6}
MCSeekArgs == {0, 3}
MCFrameArgs == {1, 4}
MCOverrideArgs == {5, 9}
=============================================================================
