-------------------------- MODULE TimeInterpolator --------------------------
(***************************************************************************)
(* The audio clock interpolator of libstagefright (TimeInterpolator.cpp).  *)
(*                                                                         *)
(* Every public operation except set_latency(),                            *)
(* forcibly_update_read_pointer() and the inline accessors holds m_mutex   *)
(* for its whole body, so each critical section is one atomic step here;   *)
(* set_latency() is one too, as only the writer touches m_latency.         *)
(* pause(true), and so stop() and reset(), is two or three critical        *)
(* sections: it unlocks before calling                                     *)
(* seek(), and the writer's position between them is the variable wpc.     *)
(*                                                                         *)
(* Times are integers in an abstract unit (the code's microseconds         *)
(* scaled down).  The double m_Tf is an exact rational [num, den]; the     *)
(* conversions int64_t(double) are truncations toward zero (Trunc).  The   *)
(* monotonic clock is the variable now, read once per critical section.    *)
(* m_now_last only feeds log messages and is left out.                     *)
(***************************************************************************)
EXTENDS Integers

CONSTANTS
  DefaultLatency,    \* DEFAULT_AUDIO_LATENCY, 160 ms
  MinInitialOffset,  \* the 40 ms floor of the cold-start offset
  LatencyArgs,       \* arguments callers give set_latency()
  SeekArgs,          \* media times callers give seek()
  FrameArgs,         \* frame_usecs the writer gives post_buffer()
  MaxTime,           \* bound on the monotonic clock
  MaxMedia,          \* bound on the read pointer (media posted)
  CallerMayMisuse,   \* TRUE: callers may call resume() outside PAUSED
  NoRead             \* "no read since the last seek or cold start"

ASSUME DefaultLatencyAssumption == DefaultLatency \in Nat \ {0}
ASSUME MinInitialOffsetAssumption == MinInitialOffset \in Nat
ASSUME ArgsAssumption ==
  /\ LatencyArgs \subseteq Int
  /\ SeekArgs \subseteq Nat
  /\ FrameArgs \subseteq Nat
ASSUME BoundsAssumption == MaxTime \in Nat /\ MaxMedia \in Int
ASSUME CallerMayMisuseAssumption == CallerMayMisuse \in BOOLEAN
ASSUME NoReadAssumption == NoRead \notin Int

VARIABLES
  state,    \* m_state
  Tf,       \* m_Tf, a rational [num |-> n, den |-> d]
  t0,       \* m_t0
  pos0,     \* m_pos0
  read,     \* m_read
  queued,   \* m_queued
  latency,  \* m_latency
  last,     \* m_last
  now,      \* the monotonic clock, get_system_usecs()
  wpc,      \* where the writer thread is inside pause(true) / reset()
  seekTo,   \* pause()'s local seek_to, carried across its unlock
  written,  \* ghost: the last seek target plus every frame posted since
  lastRet   \* ghost: the last value get_stream_usecs() returned

vars == <<state, Tf, t0, pos0, read, queued, latency, last, now,
          wpc, seekTo, written, lastRet>>

States == {"STOPPED", "ROLLING", "PAUSED"}

\* Writer positions: idle; inside pause(true) with seek(seek_to) pending;
\* inside reset() with seek(seek_to) then seek(0) pending; seek(0) pending.
WriterPcs == {"idle", "seek", "seekThenZero", "zero"}

Rat(n, d) == [num |-> n, den |-> d]
Zero == Rat(0, 1)
Half == Rat(1, 2)
One  == Rat(1, 1)
Two  == Rat(2, 1)

\* int64_t(a / b) for b > 0: C truncates toward zero.
Trunc(a, b) == IF a >= 0 THEN a \div b ELSE -((-a) \div b)

\* read_pointer(), TimeInterpolator.h.
ReadPointer == read + queued

\* The body of seek(media_time), both branches.
SeekBody(m) ==
  /\ IF state \in {"STOPPED", "PAUSED"}
       THEN /\ pos0' = m
            /\ Tf' = Zero
            /\ last' = m
       ELSE /\ pos0' = m - latency
            /\ Tf' = One
            /\ last' = m - latency
  /\ read' = m
  /\ queued' = 0
  /\ t0' = now
  /\ written' = m
  /\ lastRet' = NoRead

\* Mutant: err_underrun() forgets m_Tf = 0.0.
ErrUnderrun_keepTf(rp) ==
  /\ UNCHANGED Tf
  /\ read' = rp
  /\ pos0' = rp
  /\ queued' = 0
  /\ state' = "STOPPED"

\* err_underrun(): freeze time at the read pointer rp and stop.
ErrUnderrun(rp) ==
  /\ Tf' = Zero
  /\ read' = rp
  /\ pos0' = rp
  /\ queued' = 0
  /\ state' = "STOPPED"

-----------------------------------------------------------------------------
(* Initial state: the constructor, which sets STOPPED and the default      *)
(* latency and then calls seek(0).                                          *)
Init ==
  /\ state = "STOPPED"
  /\ latency = DefaultLatency
  /\ now = 0
  /\ pos0 = 0
  /\ read = 0
  /\ queued = 0
  /\ t0 = 0
  /\ Tf = Zero
  /\ last = 0
  /\ wpc = "idle"
  /\ seekTo = -1
  /\ written = 0
  /\ lastRet = NoRead

\* Mutant: the non-positive argument is not replaced by the default.
set_latency_nodefault ==
  /\ wpc = "idle"
  /\ \E l \in LatencyArgs : latency' = l
  /\ UNCHANGED <<state, Tf, t0, pos0, read, queued, last, now,
                 wpc, seekTo, written, lastRet>>

(* set_latency(lat_usecs). *)
set_latency ==
  /\ wpc = "idle"
  /\ \E l \in LatencyArgs :
       latency' = IF l > 0 THEN l ELSE DefaultLatency
  /\ UNCHANGED <<state, Tf, t0, pos0, read, queued, last, now,
                 wpc, seekTo, written, lastRet>>

(* seek(media_time) called by the writer. *)
seek ==
  /\ wpc = "idle"
  /\ \E m \in SeekArgs : SeekBody(m)
  /\ UNCHANGED <<state, latency, now, wpc, seekTo>>

(* pause(true), stop() and the stop() of reset(): the critical section up  *)
(* to m_mutex.unlock().  The seek it then makes is a separate step.         *)
pause_flush(isReset) ==
  /\ wpc = "idle"
  /\ state' = "STOPPED"
  /\ seekTo' = ReadPointer
  /\ wpc' = CASE ReadPointer >= 0 /\ isReset -> "seekThenZero"
              [] ReadPointer >= 0           -> "seek"
              [] isReset                    -> "zero"
              [] OTHER                      -> "idle"
  /\ UNCHANGED <<Tf, t0, pos0, read, queued, latency, last, now,
                 written, lastRet>>

(* The seek(seek_to) that ends pause(true). *)
seek_after_pause ==
  /\ wpc \in {"seek", "seekThenZero"}
  /\ SeekBody(seekTo)
  /\ wpc' = IF wpc = "seekThenZero" THEN "zero" ELSE "idle"
  /\ seekTo' = -1
  /\ UNCHANGED <<state, latency, now>>

(* The seek(0) that ends reset(). *)
seek_zero_after_reset ==
  /\ wpc = "zero"
  /\ SeekBody(0)
  /\ wpc' = "idle"
  /\ seekTo' = -1
  /\ UNCHANGED <<state, latency, now>>

\* Mutant: pause() keeps the epoch's m_pos0 instead of pinning m_last.
pause_nopin ==
  /\ wpc = "idle"
  /\ state = "ROLLING"
  /\ state' = "PAUSED"
  /\ read' = ReadPointer
  /\ t0' = now
  /\ queued' = 0
  /\ UNCHANGED <<pos0, Tf, latency, last, now, wpc, seekTo, written, lastRet>>

(* pause(false) while ROLLING; in any other state it changes nothing. *)
pause ==
  /\ wpc = "idle"
  /\ state = "ROLLING"
  /\ state' = "PAUSED"
  /\ read' = ReadPointer
  /\ pos0' = last
  /\ t0' = now
  /\ queued' = 0
  /\ UNCHANGED <<Tf, latency, last, now, wpc, seekTo, written, lastRet>>

(* resume(): outside PAUSED it only logs an error and goes on. *)
resume ==
  /\ wpc = "idle"
  /\ state = "PAUSED" \/ CallerMayMisuse
  /\ t0' = now
  /\ Tf' = One
  /\ UNCHANGED <<state, pos0, read, queued, latency, last, now,
                 wpc, seekTo, written, lastRet>>

-----------------------------------------------------------------------------
(* get_stream_usecs(), made by a reader thread at any time.                *)

\* t_media before the underrun clamp.
Interpolated ==
  LET scaled == Trunc(Tf.num * (now - t0), Tf.den)
  IN  pos0 + (IF scaled < 0 THEN 0 ELSE scaled)

\* Mutant: the PAUSED early return (goto end) is missing.
get_stream_usecs_paused_nofreeze ==
  /\ state = "PAUSED"
  /\ last' = Interpolated
  /\ lastRet' = Interpolated
  /\ UNCHANGED <<state, Tf, t0, pos0, read, queued, latency, now,
                 wpc, seekTo, written>>

get_stream_usecs_paused ==
  /\ state = "PAUSED"
  /\ lastRet' = pos0
  /\ UNCHANGED <<state, Tf, t0, pos0, read, queued, latency, last, now,
                 wpc, seekTo, written>>

get_stream_usecs ==
  /\ state # "PAUSED"
  /\ ~(Interpolated >= ReadPointer /\ state = "ROLLING")
  /\ last' = Interpolated
  /\ lastRet' = Interpolated
  /\ UNCHANGED <<state, Tf, t0, pos0, read, queued, latency, now,
                 wpc, seekTo, written>>

\* Mutant: the underrun path returns t_media without clamping it.
get_stream_usecs_underrun_noclamp ==
  /\ state = "ROLLING"
  /\ Interpolated >= ReadPointer
  /\ last' = Interpolated
  /\ lastRet' = Interpolated
  /\ ErrUnderrun(ReadPointer)
  /\ UNCHANGED <<t0, latency, now, wpc, seekTo, written>>

get_stream_usecs_underrun ==
  /\ state = "ROLLING"
  /\ Interpolated >= ReadPointer
  /\ last' = ReadPointer
  /\ lastRet' = ReadPointer
  /\ ErrUnderrun(ReadPointer)
  /\ UNCHANGED <<t0, latency, now, wpc, seekTo, written>>

-----------------------------------------------------------------------------
(* post_buffer(frame_usecs), made by the writer.                           *)

\* max(m_latency / 2, 40000)
InitialOffset ==
  IF latency \div 2 < MinInitialOffset THEN MinInitialOffset
                                        ELSE latency \div 2

post_buffer_start(f) ==
  /\ state = "STOPPED"
  /\ t0' = now
  /\ state' = "ROLLING"
  /\ read' = read + f
  /\ pos0' = read + f - InitialOffset
  /\ queued' = 0
  /\ Tf' = One
  /\ lastRet' = NoRead
  /\ UNCHANGED <<latency, last, now, wpc, seekTo>>

\* dt < frame_usecs/4: the frame joins m_queued and the epoch stays.
post_buffer_aggregate(f) ==
  /\ state \in {"ROLLING", "PAUSED"}
  /\ now - t0 < f \div 4
  /\ state' = "ROLLING"
  /\ queued' = queued + f
  /\ UNCHANGED <<Tf, t0, pos0, read, latency, last, now,
                 wpc, seekTo, lastRet>>

\* err_overrun() from the feedback step: time factor clamped to 2.0 and the
\* epoch abruptly re-pinned at m_read - m_latency (m_t0 = now is set by the
\* caller's action).
ErrOverrun(rp) == [Tf |-> Two, pos0 |-> rp - latency]

\* Mutant: the error enters the time factor with the wrong sign.
Feedback_signflip ==
  LET rp   == ReadPointer
      pos1 == Trunc(pos0 * Tf.den + Tf.num * (now - t0), Tf.den)
      e    == pos1 - (rp - latency)
      raw  == IF state = "PAUSED" THEN One ELSE Rat(latency + e, latency)
  IN  CASE raw.num >= 2 * raw.den -> ErrOverrun(rp)
        [] 2 * raw.num < raw.den  -> [Tf |-> Half, pos0 |-> pos1]
        [] OTHER                  -> [Tf |-> raw,  pos0 |-> pos1]

\* Mutant: the lower clamp m_Tf < .5 -> .5 (lines 535-536) is missing.
Feedback_nolowclamp ==
  LET rp   == ReadPointer
      pos1 == Trunc(pos0 * Tf.den + Tf.num * (now - t0), Tf.den)
      e    == pos1 - (rp - latency)
      raw  == IF state = "PAUSED" THEN One ELSE Rat(latency - e, latency)
  IN  IF raw.num >= 2 * raw.den THEN ErrOverrun(rp)
                                ELSE [Tf |-> raw, pos0 |-> pos1]

\* Lines 507-536: the new [Tf, pos0] after the feedback step, the clamp and
\* err_overrun(), before the underrun check.  rp is m_read after line 507.
Feedback ==
  LET rp   == ReadPointer
      pos1 == Trunc(pos0 * Tf.den + Tf.num * (now - t0), Tf.den)
      e    == pos1 - (rp - latency)
      raw  == IF state = "PAUSED" THEN One ELSE Rat(latency - e, latency)
  IN  CASE raw.num >= 2 * raw.den -> ErrOverrun(rp)
        [] 2 * raw.num < raw.den  -> [Tf |-> Half, pos0 |-> pos1]
        [] OTHER                  -> [Tf |-> raw,  pos0 |-> pos1]

\* Mutant: no underrun check after the feedback step.
post_buffer_update_nocheck(f) ==
  /\ state \in {"ROLLING", "PAUSED"}
  /\ now - t0 >= f \div 4
  /\ state' = "ROLLING"
  /\ read' = ReadPointer
  /\ pos0' = Feedback.pos0
  /\ Tf' = Feedback.Tf
  /\ queued' = f
  /\ UNCHANGED <<latency, last, now, wpc, seekTo, lastRet>>

\* Mutant: line 507, m_read += m_queued, is missing.
post_buffer_update_nofold(f) ==
  /\ state \in {"ROLLING", "PAUSED"}
  /\ now - t0 >= f \div 4
  /\ Feedback.pos0 < ReadPointer
  /\ state' = "ROLLING"
  /\ UNCHANGED read
  /\ pos0' = Feedback.pos0
  /\ Tf' = Feedback.Tf
  /\ queued' = f
  /\ UNCHANGED <<latency, last, now, wpc, seekTo, lastRet>>

post_buffer_update(f) ==
  /\ state \in {"ROLLING", "PAUSED"}
  /\ now - t0 >= f \div 4
  /\ Feedback.pos0 < ReadPointer
  /\ state' = "ROLLING"
  /\ read' = ReadPointer
  /\ pos0' = Feedback.pos0
  /\ Tf' = Feedback.Tf
  /\ queued' = f
  /\ UNCHANGED <<latency, last, now, wpc, seekTo, lastRet>>

post_buffer_underrun(f) ==
  /\ state \in {"ROLLING", "PAUSED"}
  /\ now - t0 >= f \div 4
  /\ Feedback.pos0 >= ReadPointer
  /\ ErrUnderrun(ReadPointer + f)
  /\ UNCHANGED <<latency, last, now, wpc, seekTo, lastRet>>

post_buffer ==
  /\ wpc = "idle"
  /\ \E f \in FrameArgs :
       /\ ReadPointer + f <= MaxMedia
       /\ written' = written + f
       /\ \/ post_buffer_start(f)
          \/ post_buffer_aggregate(f)
          \/ /\ t0' = now
             /\ \/ post_buffer_update(f)
                \/ post_buffer_underrun(f)

(* The monotonic clock advances. *)
Tick ==
  /\ now < MaxTime
  /\ now' = now + 1
  /\ UNCHANGED <<state, Tf, t0, pos0, read, queued, latency, last,
                 wpc, seekTo, written, lastRet>>

Writer ==
  \/ set_latency
  \/ seek
  \/ pause_flush(FALSE)
  \/ pause_flush(TRUE)
  \/ seek_after_pause
  \/ seek_zero_after_reset
  \/ pause
  \/ resume
  \/ post_buffer

Reader ==
  \/ get_stream_usecs_paused
  \/ get_stream_usecs
  \/ get_stream_usecs_underrun

Next == Writer \/ Reader \/ Tick

Spec == Init /\ [][Next]_vars

-----------------------------------------------------------------------------
(* Properties.                                                             *)

TypeOK ==
  /\ state \in States
  /\ Tf \in [num : Nat, den : Nat \ {0}]
  /\ t0 \in Int
  /\ pos0 \in Int
  /\ read \in Int
  /\ queued \in Nat
  /\ latency \in Nat \ {0}
  /\ last \in Int
  /\ now \in Nat
  /\ wpc \in WriterPcs
  /\ seekTo \in Int
  /\ written \in Int
  /\ lastRet \in Int \cup {NoRead}

(* While the interpolator runs (ROLLING, or PAUSED to resume), the media   *)
(* position pinned at the epoch, m_pos0, is not beyond m_read: the        *)
(* underrun check of post_buffer(), err_overrun()'s re-pin and pause()'s  *)
(* pin to m_last keep the epoch behind the data already written.           *)
RunningBehindRead ==
  state \in {"ROLLING", "PAUSED"} => pos0 <= read

(* When the writer is between calls, no value a reader has been given     *)
(* (m_last) is beyond the read pointer: get_stream_usecs() clamps to it,  *)
(* and pause(), post_buffer() and seek() never move it below m_last.      *)
ReportedWithinReadPointer ==
  wpc = "idle" => last <= ReadPointer

(* The read pointer is the last seek target plus every frame posted       *)
(* since: cold start, aggregation, the feedback step's fold of m_queued,  *)
(* err_underrun() and pause() neither lose nor double-count a frame.      *)
ReadPointerAccounting ==
  ReadPointer = written

(* The values get_stream_usecs() returns never decrease, except across a  *)
(* seek() (and so stop() and reset()) or the cold start of post_buffer()  *)
(* from STOPPED: across post_buffer() updates, overruns, underruns,       *)
(* pause() and resume() the reported media time is monotone.              *)
MonotoneReads ==
  [][lastRet # NoRead /\ lastRet' # NoRead => lastRet' >= lastRet]_lastRet

(* What holds of a STOPPED interpolator once the writer has left stop()   *)
(* or reset(): time factor 0, nothing queued, m_pos0 at m_read.  Inside    *)
(* pause(true), between its unlock and its seek(), the interpolator is     *)
(* STOPPED and the pending seek target is a read pointer.                  *)
StoppedAtRest ==
  /\ state = "STOPPED" /\ wpc = "idle" =>
       /\ Tf = Zero
       /\ queued = 0
       /\ pos0 <= read
  /\ wpc # "idle" => state = "STOPPED"
  /\ wpc \in {"seek", "seekThenZero"} => seekTo \in Nat

(* No read can return less than the last value reported (m_last, which   *)
(* the last read returned unless a restart forgot it): while PAUSED the   *)
(* epoch is pinned at m_last, and otherwise the interpolated position has *)
(* not fallen below it, whatever post_buffer()'s feedback step, clamp and *)
(* err_overrun() did to the epoch since.  The monotonic clock never runs  *)
(* behind the epoch.                                                       *)
ReadFloor ==
  /\ t0 <= now
  /\ lastRet \in {NoRead, last}
  /\ state = "PAUSED" => pos0 = last
  /\ state # "PAUSED" /\ lastRet # NoRead => last <= Interpolated

(* The time factor is 0, the frozen clock of STOPPED, err_underrun() and  *)
(* seek() while PAUSED, or within the clamp [0.5, 2.0] of post_buffer():  *)
(* whatever the feedback error, no step leaves m_Tf negative, tiny or      *)
(* above 2.  (RollingTfInRange fails only through the 0.)                  *)
TfRange ==
  Tf.num = 0 \/ (Tf.den <= 2 * Tf.num /\ Tf.num <= 2 * Tf.den)

(* The inductive invariant behind RunningBehindRead,                      *)
(* ReportedWithinReadPointer and ReadPointerAccounting.                    *)
IInv ==
  /\ TypeOK
  /\ written \in Nat
  /\ RunningBehindRead
  /\ ReportedWithinReadPointer
  /\ ReadPointerAccounting
  /\ StoppedAtRest

-----------------------------------------------------------------------------
(* Refinement: the interpolator implements the abstract media clock of     *)
(* MediaClock, with the read pointer as its write pointer and the state    *)
(* PAUSED as its paused flag.                                              *)

Clock == INSTANCE MediaClock
           WITH wp <- ReadPointer, rep <- lastRet, paused <- (state = "PAUSED")

(* Every step of the interpolator is a step of the media clock or leaves   *)
(* what readers can observe unchanged: posts, pause(), err_underrun() and  *)
(* err_overrun() never move the read pointer back; reads never go below    *)
(* the previous one and, while PAUSED, repeat it; only seek(), stop(),     *)
(* reset() and a cold start restart the reads.                             *)
ImplementsMediaClock == Clock!CSpec

-----------------------------------------------------------------------------
(* Claims of the spec and of the code's comments that the code does not    *)
(* keep; each is the one property of a run expected to fail.               *)

(* The code's comment on STOPPED (TimeInterpolator.cpp:136): "the clock   *)
(* is frozen".  Every read made while STOPPED returns m_pos0.              *)
StoppedReadsFrozen ==
  [][state = "STOPPED" /\ lastRet' # NoRead => lastRet' = pos0]_lastRet

(* spec.md section 3: m_Tf is clamped to [0.5, 2.0] while ROLLING.         *)
RollingTfInRange ==
  state = "ROLLING" => /\ 2 * Tf.num >= Tf.den
                       /\ Tf.num <= 2 * Tf.den

=============================================================================
