---------------------- MODULE TimeInterpolatorSteady ----------------------
(***************************************************************************)
(* TimeInterpolator driven the way spec.md section 8.4 and the stability   *)
(* criteria of TimeInterpolator.cpp:76-94 describe: one audio callback     *)
(* that calls post_buffer(Period) every Period units of wall time, from a  *)
(* STOPPED interpolator, with readers calling get_stream_usecs() at any    *)
(* time.  The callback fires when it is due and the clock advances: both   *)
(* are weakly fair.  Readers are not.                                      *)
(***************************************************************************)
EXTENDS TimeInterpolator

CONSTANT Period  \* the callback period and the frame_usecs it posts

VARIABLE due     \* the wall time of the next callback

svars == <<vars, due>>

SteadyInit ==
  /\ Init
  /\ due = 0

(* The audio callback: post_buffer(Period) when it is due. *)
Callback ==
  /\ now = due
  /\ post_buffer
  /\ due' = now + Period

(* Wall time advances up to the next callback. *)
ClockTick ==
  /\ now < due
  /\ Tick
  /\ UNCHANGED due

SteadyNext ==
  \/ Callback
  \/ ClockTick
  \/ Reader /\ UNCHANGED due

SteadySpec ==
  /\ SteadyInit
  /\ [][SteadyNext]_svars
  /\ WF_svars(Callback)
  /\ WF_svars(ClockTick)

-----------------------------------------------------------------------------
(* spec.md section 8.4, latency-locked steady state: under a regular       *)
(* callback the feedback loop of post_buffer() drives the time factor to   *)
(* exactly 1.0 and keeps it there; no read in between makes it underrun.   *)
LocksToUnity ==
  <>[](state = "ROLLING" /\ Tf.num = Tf.den)

=============================================================================
