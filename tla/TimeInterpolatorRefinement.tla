--------------------- MODULE TimeInterpolatorRefinement ---------------------
(***************************************************************************)
(* Proofs that reads of TimeInterpolator are monotone and that the         *)
(* interpolator implements the abstract media clock of MediaClock, for     *)
(* every value of the constants, when callers keep resume()'s contract.    *)
(***************************************************************************)
EXTENDS TimeInterpolatorProofs

-----------------------------------------------------------------------------
(* Arithmetic of the truncating conversion int64_t(a / b).                 *)

\* Truncation toward zero is monotone in the dividend.
LEMMA TruncMonotone ==
  ASSUME NEW a \in Int, NEW b \in Int, NEW d \in Nat \ {0}, a <= b
  PROVE  Trunc(a, d) <= Trunc(b, d)
BY DEF Trunc

\* Folding an integer p into the dividend, as post_buffer() does with
\* m_pos0 at line 508, never yields less than adding p after truncating,
\* as get_stream_usecs() does at line 334.
LEMMA TruncFold ==
  ASSUME NEW p \in Int, NEW x \in Nat, NEW d \in Nat \ {0}
  PROVE  Trunc(p * d + x, d) >= p + Trunc(x, d)
BY DEF Trunc

\* The scaled elapsed time of get_stream_usecs() does not decrease as the
\* clock advances, for a non-negative time factor.
LEMMA ScaledMonotone ==
  ASSUME NEW n \in Nat, NEW d \in Nat \ {0}, NEW u \in Int, NEW v \in Int,
         u <= v
  PROVE  Trunc(n * u, d) <= Trunc(n * v, d)
<1>1. n * u <= n * v
  OBVIOUS
<1>. QED  BY <1>1, TruncMonotone

\* get_stream_usecs() never reports less than m_pos0.
LEMMA InterpolatedAbovePos0 ==
  ASSUME TypeOK
  PROVE  Interpolated >= pos0
<1>1. Trunc(Tf.num * (now - t0), Tf.den) \in Int
  BY TruncType DEF TypeOK
<1>. QED  BY <1>1 DEF Interpolated, TypeOK

\* With the clock at the epoch, get_stream_usecs() computes m_pos0.
LEMMA InterpolatedAtEpoch ==
  ASSUME TypeOK, now = t0
  PROVE  Interpolated = pos0
BY DEF Interpolated, TypeOK, Trunc

\* The feedback step of post_buffer() never moves the epoch below the
\* position get_stream_usecs() would report at the same instant: pos1 is
\* not below it (TruncFold), and err_overrun() re-pins further ahead.
LEMMA FeedbackFloor ==
  ASSUME TypeOK, t0 <= now, state \in {"ROLLING", "PAUSED"}
  PROVE  Feedback.pos0 >= Interpolated
<1> DEFINE x    == Tf.num * (now - t0)
           pos1 == Trunc(pos0 * Tf.den + x, Tf.den)
           e    == pos1 - (ReadPointer - latency)
           raw  == IF state = "PAUSED" THEN One ELSE Rat(latency - e, latency)
<1>1. x \in Nat
  BY DEF TypeOK
<1>2. Interpolated = pos0 + Trunc(x, Tf.den)
  <2>1. Trunc(x, Tf.den) >= 0
    BY <1>1 DEF Trunc, TypeOK
  <2>. QED  BY <2>1, <1>1 DEF Interpolated, x, Trunc, TypeOK
<1>3. pos1 >= Interpolated
  BY <1>1, <1>2, TruncFold DEF TypeOK
<1>4. pos1 \in Int /\ e \in Int
  BY <1>1, TruncType DEF TypeOK, ReadPointer
<1>5. Feedback = CASE raw.num >= 2 * raw.den -> ErrOverrun(ReadPointer)
                   [] 2 * raw.num < raw.den  -> [Tf |-> Half, pos0 |-> pos1]
                   [] OTHER                  -> [Tf |-> raw,  pos0 |-> pos1]
  BY DEF Feedback
<1>6. CASE raw.num >= 2 * raw.den
  <2>1. state # "PAUSED"
    BY <1>6 DEF One, Rat, raw
  <2>2. latency - e >= 2 * latency
    BY <1>6, <2>1 DEF Rat, raw
  <2>3. ~(2 * raw.num < raw.den)
    BY <1>4, <1>6, <2>1 DEF Rat, raw, TypeOK
  <2>4. Feedback = ErrOverrun(ReadPointer)
    BY <1>5, <1>6, <2>3, Zenon
  <2>5. Feedback.pos0 = ReadPointer - latency
    BY <2>4 DEF ErrOverrun
  <2>6. e <= -latency
    BY <1>4, <2>2 DEF TypeOK
  <2>. QED  BY <1>3, <1>4, <2>5, <2>6, InterpolatedType DEF TypeOK, ReadPointer, e
<1>7. CASE ~(raw.num >= 2 * raw.den)
  <2>1. Feedback \in {[Tf |-> Half, pos0 |-> pos1], [Tf |-> raw, pos0 |-> pos1]}
    BY <1>5, <1>7, Zenon
  <2>2. Feedback.pos0 = pos1
    BY <2>1
  <2>. QED  BY <1>3, <2>2
<1>. QED  BY <1>6, <1>7

-----------------------------------------------------------------------------
(* ReadFloor, the strengthening behind MonotoneReads and the refinement.   *)

\* The initial state satisfies both invariants.
LEMMA ReadFloorInit == Init => IInv /\ ReadFloor
BY IInvInit DEF Init, ReadFloor

\* Every step keeps ReadFloor when callers keep resume()'s contract: the
\* value the last read returned stays at or below what get_stream_usecs()
\* would compute now.
LEMMA ReadFloorStep ==
  ~CallerMayMisuse /\ IInv /\ ReadFloor /\ [Next]_vars => ReadFloor'
<1> SUFFICES ASSUME ~CallerMayMisuse, IInv, ReadFloor, [Next]_vars
             PROVE  ReadFloor'
  OBVIOUS
<1>0. IInv'
  BY IInvStep
<1>a. Interpolated \in Int /\ Interpolated >= pos0
  BY InterpolatedType, InterpolatedAbovePos0 DEF IInv
<1>. USE <1>0 DEF IInv, TypeOK, ReadFloor, States
<1>1. CASE set_latency
  BY <1>1 DEF set_latency, Interpolated
<1>2. CASE seek
  BY <1>2 DEF seek, SeekBody
<1>3. ASSUME NEW isReset \in BOOLEAN, pause_flush(isReset) PROVE ReadFloor'
  <2>1. Interpolated' = Interpolated
    BY <1>3 DEF pause_flush, Interpolated
  <2>. QED  BY <1>3, <1>a, <2>1 DEF pause_flush
<1>4. CASE seek_after_pause
  BY <1>4 DEF seek_after_pause, SeekBody
<1>5. CASE seek_zero_after_reset
  BY <1>5 DEF seek_zero_after_reset, SeekBody
<1>6. CASE pause
  BY <1>6 DEF pause
<1>7. CASE resume
  BY <1>7 DEF resume
<1>8. CASE get_stream_usecs_paused
  BY <1>8 DEF get_stream_usecs_paused
<1>9. CASE get_stream_usecs
  <2>1. Interpolated' = Interpolated
    BY <1>9 DEF get_stream_usecs, Interpolated
  <2>. QED  BY <1>9, <1>a, <2>1 DEF get_stream_usecs
<1>10. CASE get_stream_usecs_underrun
  <2>1. Interpolated' = pos0'
    BY <1>10 DEF get_stream_usecs_underrun, ErrUnderrun, Interpolated,
                 Zero, Rat, Trunc
  <2>. QED  BY <1>10, <2>1 DEF get_stream_usecs_underrun, ErrUnderrun
<1>11. CASE post_buffer
  <2>1. PICK f \in FrameArgs :
              /\ wpc = "idle"
              /\ \/ post_buffer_start(f)
                 \/ post_buffer_aggregate(f)
                 \/ /\ t0' = now
                    /\ \/ post_buffer_update(f)
                       \/ post_buffer_underrun(f)
    BY <1>11 DEF post_buffer
  <2>2. f \in Nat
    BY ArgsAssumption
  <2>3. CASE post_buffer_start(f)
    BY <2>3 DEF post_buffer_start
  <2>4. CASE post_buffer_aggregate(f)
    <3>1. Interpolated' = Interpolated
      BY <2>4 DEF post_buffer_aggregate, Interpolated
    <3>. QED  BY <1>a, <2>4, <3>1 DEF post_buffer_aggregate
  <2>5. CASE t0' = now /\ post_buffer_update(f)
    <3>1. Interpolated' = pos0'
      BY <2>5 DEF post_buffer_update, Interpolated, Trunc
    <3>2. pos0' >= Interpolated
      BY <2>5, FeedbackFloor DEF post_buffer_update
    <3>. QED  BY <1>a, <2>5, <3>1, <3>2 DEF post_buffer_update
  <2>6. CASE t0' = now /\ post_buffer_underrun(f)
    <3>1. Interpolated' = pos0'
      BY <2>6 DEF post_buffer_underrun, ErrUnderrun, Interpolated,
                  Zero, Rat, Trunc
    <3>2. last <= ReadPointer
      BY <2>1 DEF ReportedWithinReadPointer
    <3>. QED
      BY <2>2, <2>6, <3>1, <3>2 DEF post_buffer_underrun, ErrUnderrun,
                                    ReadPointer
  <2>. QED  BY <2>1, <2>3, <2>4, <2>5, <2>6
<1>12. CASE Tick
  <2> DEFINE a == Tf.num * (now - t0)
             b == Tf.num * (now + 1 - t0)
  <2>1. a \in Nat /\ b \in Nat /\ a <= b
    BY DEF a, b
  <2>2. Trunc(a, Tf.den) >= 0 /\ Trunc(a, Tf.den) <= Trunc(b, Tf.den)
    BY <2>1 DEF Trunc
  <2>3. Interpolated = pos0 + Trunc(a, Tf.den)
    BY <2>1, <2>2 DEF Interpolated, a, Trunc
  <2>4. Interpolated' = pos0 + Trunc(b, Tf.den)
    BY <1>12, <2>1, <2>2 DEF Tick, Interpolated, b, Trunc
  <2>5. t0' <= now'
    BY <1>12 DEF Tick
  <2>6. lastRet' \in {NoRead, last'} /\ (state' = "PAUSED" => pos0' = last')
    BY <1>12 DEF Tick
  <2>7. state' # "PAUSED" /\ lastRet' # NoRead => last' <= Interpolated'
    BY <1>12, <2>1, <2>2, <2>3, <2>4 DEF Tick, Trunc
  <2>. QED  BY <2>5, <2>6, <2>7
<1>13. CASE UNCHANGED vars
  BY <1>13 DEF vars, Interpolated
<1>. QED
  BY <1>1, <1>2, <1>3, <1>4, <1>5, <1>6, <1>7, <1>8, <1>9, <1>10,
     <1>11, <1>12, <1>13
  DEF Next, Writer, Reader

\* When callers keep resume()'s contract, every reachable state satisfies
\* ReadFloor: the last value get_stream_usecs() returned is m_last, the
\* paused epoch is pinned at it, and a running clock never computes less.
THEOREM ReadFloorHolds ==
  ASSUME ~CallerMayMisuse
  PROVE  Spec => [](IInv /\ ReadFloor)
<1>1. Init => IInv /\ ReadFloor
  BY ReadFloorInit
<1>2. IInv /\ ReadFloor /\ [Next]_vars => (IInv /\ ReadFloor)'
  BY IInvStep, ReadFloorStep
<1>. QED  BY <1>1, <1>2, PTL DEF Spec

-----------------------------------------------------------------------------
(* MonotoneReads.                                                          *)

\* Only a read sets the value reads return; every other step keeps it or
\* restarts it.
LEMMA OnlyReadsReport ==
  ASSUME [Next]_vars, ~Reader
  PROVE  lastRet' \in {lastRet, NoRead}
<1>1. CASE post_buffer
  BY <1>1 DEF post_buffer, post_buffer_start, post_buffer_aggregate,
              post_buffer_update, post_buffer_underrun
<1>2. CASE Writer /\ ~post_buffer
  BY <1>2 DEF Writer, set_latency, seek, SeekBody, pause_flush,
              seek_after_pause, seek_zero_after_reset, pause, resume
<1>. QED  BY <1>1, <1>2 DEF Next, Tick, vars

\* Every step keeps reads monotone, given the invariants.
LEMMA MonotoneReadsStep ==
  ~CallerMayMisuse /\ IInv /\ ReadFloor /\ [Next]_vars
    => [lastRet # NoRead /\ lastRet' # NoRead => lastRet' >= lastRet]_lastRet
<1> SUFFICES ASSUME ~CallerMayMisuse, IInv, ReadFloor, [Next]_vars,
                    lastRet # NoRead, lastRet' # NoRead
             PROVE  lastRet' >= lastRet
  OBVIOUS
<1>. USE DEF IInv, TypeOK, ReadFloor
<1>1. CASE get_stream_usecs_paused
  BY <1>1 DEF get_stream_usecs_paused
<1>2. CASE get_stream_usecs
  BY <1>2, InterpolatedType DEF get_stream_usecs
<1>3. CASE get_stream_usecs_underrun
  BY <1>3 DEF get_stream_usecs_underrun, ReportedWithinReadPointer,
              StoppedAtRest, ReadPointer
<1>4. CASE ~Reader
  BY <1>4, OnlyReadsReport
<1>. QED  BY <1>1, <1>2, <1>3, <1>4 DEF Reader

\* When callers keep resume()'s contract, no get_stream_usecs() returns less
\* than the one before it, until a seek(), stop(), reset() or cold start
\* restarts the reads (spec.md section 1).
THEOREM MonotoneReadsHolds ==
  ASSUME ~CallerMayMisuse
  PROVE  Spec => MonotoneReads
<1>1. Spec => [](IInv /\ ReadFloor)
  BY ReadFloorHolds
<1>2. IInv /\ ReadFloor /\ [Next]_vars
        => [lastRet # NoRead /\ lastRet' # NoRead => lastRet' >= lastRet]_lastRet
  BY MonotoneReadsStep
<1>. QED  BY <1>1, <1>2, PTL DEF Spec, MonotoneReads

-----------------------------------------------------------------------------
(* The interpolator implements MediaClock under the mapping of Clock.     *)

\* Every step of the interpolator is a step of the media clock or a
\* stutter of what readers observe.
LEMMA RefinementStep ==
  ~CallerMayMisuse /\ IInv /\ ReadFloor /\ [Next]_vars
    => [Clock!CNext]_Clock!cvars
<1> SUFFICES ASSUME ~CallerMayMisuse, IInv, ReadFloor, [Next]_vars
             PROVE  [Clock!CNext]_Clock!cvars
  OBVIOUS
<1>. USE DEF IInv, TypeOK, ReadFloor, ReadPointer, Clock!cvars, Clock!CNext
<1>1. CASE set_latency \/ resume \/ Tick
  BY <1>1 DEF set_latency, resume, Tick
<1>2. CASE seek \/ seek_after_pause \/ seek_zero_after_reset
  <2>1. read' \in Int /\ queued' = 0 /\ lastRet' = NoRead /\ state' = state
    BY <1>2, ArgsAssumption DEF seek, seek_after_pause, seek_zero_after_reset,
                                SeekBody, StoppedAtRest
  <2>2. ReadPointer' \in Int
    BY <2>1
  <2>3. Clock!Restart
    BY <2>1, <2>2, Zenon DEF Clock!Restart
  <2>. QED  BY <2>3
<1>3. ASSUME NEW isReset \in BOOLEAN, pause_flush(isReset)
      PROVE  [Clock!CNext]_Clock!cvars
  BY <1>3 DEF pause_flush, Clock!Stop
<1>4. CASE pause
  BY <1>4 DEF pause, Clock!Pause
<1>5. CASE get_stream_usecs_paused
  BY <1>5 DEF get_stream_usecs_paused, Clock!Read
<1>6. CASE get_stream_usecs
  BY <1>6, InterpolatedType DEF get_stream_usecs, Clock!Read
<1>7. CASE get_stream_usecs_underrun
  BY <1>7 DEF get_stream_usecs_underrun, ErrUnderrun, Clock!Read,
              ReportedWithinReadPointer, StoppedAtRest
<1>8. CASE post_buffer
  <2>1. PICK f \in FrameArgs :
              /\ \/ post_buffer_start(f)
                 \/ post_buffer_aggregate(f)
                 \/ post_buffer_update(f)
                 \/ post_buffer_underrun(f)
    BY <1>8 DEF post_buffer
  <2>2. f \in Nat
    BY ArgsAssumption
  <2>3. CASE post_buffer_start(f)
    BY <2>3 DEF post_buffer_start, Clock!Restart
  <2>4. CASE post_buffer_aggregate(f)
    BY <2>2, <2>4 DEF post_buffer_aggregate, Clock!Post
  <2>5. CASE post_buffer_update(f)
    BY <2>2, <2>5 DEF post_buffer_update, Clock!Post
  <2>6. CASE post_buffer_underrun(f)
    BY <2>2, <2>6 DEF post_buffer_underrun, ErrUnderrun, Clock!Post
  <2>. QED  BY <2>1, <2>3, <2>4, <2>5, <2>6
<1>9. CASE UNCHANGED vars
  BY <1>9 DEF vars
<1>. QED
  BY <1>1, <1>2, <1>3, <1>4, <1>5, <1>6, <1>7, <1>8, <1>9
  DEF Next, Writer, Reader

\* When callers keep resume()'s contract, TimeInterpolator implements the
\* media clock it promises its readers: the read pointer never moves back
\* except on a restart, reads never go back, and a paused clock repeats
\* its last read.
THEOREM ImplementsMediaClockHolds ==
  ASSUME ~CallerMayMisuse
  PROVE  Spec => ImplementsMediaClock
<1>1. Init => Clock!CInit
  BY DEF Init, Clock!CInit, ReadPointer
<1>2. Spec => [](IInv /\ ReadFloor)
  BY ReadFloorHolds
<1>3. IInv /\ ReadFloor /\ [Next]_vars => [Clock!CNext]_Clock!cvars
  BY RefinementStep
<1>. QED  BY <1>1, <1>2, <1>3, PTL DEF Spec, ImplementsMediaClock, Clock!CSpec

=============================================================================
