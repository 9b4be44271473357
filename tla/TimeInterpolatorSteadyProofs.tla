--------------------- MODULE TimeInterpolatorSteadyProofs ---------------------
(***************************************************************************)
(* The periodic audio callback is one way of driving the interpolator:     *)
(* every behaviour of SteadySpec is a behaviour of Spec, so every safety   *)
(* theorem about Spec holds of it.  (LocksToUnity, its liveness property,  *)
(* is checked by TLC only.)                                                *)
(***************************************************************************)
EXTENDS TimeInterpolatorSteady, TimeInterpolatorRefinement

\* A callback is a post_buffer(), a clock step is a Tick, and a read is a
\* read; the schedule variable due is the only thing the driver adds.
LEMMA SteadyStep == [SteadyNext]_svars => [Next]_vars
<1>1. CASE Callback
  BY <1>1 DEF Callback, Next, Writer
<1>2. CASE ClockTick
  BY <1>2 DEF ClockTick, Next
<1>3. CASE Reader /\ UNCHANGED due
  BY <1>3 DEF Next
<1>4. CASE UNCHANGED svars
  BY <1>4 DEF svars, vars
<1>. QED  BY <1>1, <1>2, <1>3, <1>4 DEF SteadyNext

\* The steady-state driver refines the general interleaving of writer,
\* readers and clock.
LEMMA SteadyRefinesSpec == SteadySpec => Spec
BY SteadyStep, PTL DEF SteadySpec, SteadyInit, Spec

\* Under the periodic callback, the interpolator implements MediaClock:
\* reads never go back and the write pointer only moves forward between
\* restarts, whatever the period and the latency.
THEOREM SteadyImplementsMediaClock ==
  ASSUME ~CallerMayMisuse
  PROVE  SteadySpec => ImplementsMediaClock
BY SteadyRefinesSpec, ImplementsMediaClockHolds

\* Under the periodic callback, the time factor stays 0 or within the clamp.
THEOREM SteadyTfRange == SteadySpec => []TfRange
BY SteadyRefinesSpec, TfRangeHolds

=============================================================================
