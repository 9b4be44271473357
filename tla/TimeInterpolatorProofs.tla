----------------------- MODULE TimeInterpolatorProofs -----------------------
(***************************************************************************)
(* Proofs about TimeInterpolator, for every value of the constants that    *)
(* satisfies the module's assumptions.                                     *)
(***************************************************************************)
EXTENDS TimeInterpolator, TLAPS

\* The truncating conversion int64_t(a / b) yields an integer.
LEMMA TruncType ==
  ASSUME NEW a \in Int, NEW b \in Nat \ {0}
  PROVE  Trunc(a, b) \in Int
BY DEF Trunc

\* The position get_stream_usecs() computes is an integer.
LEMMA InterpolatedType ==
  ASSUME TypeOK
  PROVE  Interpolated \in Int
<1>1. Trunc(Tf.num * (now - t0), Tf.den) \in Int
  BY TruncType DEF TypeOK
<1>. QED  BY <1>1 DEF Interpolated, TypeOK

\* The feedback step yields an integer m_pos0 and a non-negative rational
\* time factor.
LEMMA FeedbackType ==
  ASSUME TypeOK
  PROVE  /\ Feedback.pos0 \in Int
         /\ Feedback.Tf \in [num : Nat, den : Nat \ {0}]
<1> DEFINE pos1 == Trunc(pos0 * Tf.den + Tf.num * (now - t0), Tf.den)
           e    == pos1 - (ReadPointer - latency)
           raw  == IF state = "PAUSED" THEN One ELSE Rat(latency - e, latency)
<1>1. pos1 \in Int
  BY TruncType DEF TypeOK
<1>2. e \in Int /\ raw \in [num : Int, den : Nat \ {0}]
  BY <1>1 DEF TypeOK, ReadPointer, One, Rat
<1>3. Feedback = CASE raw.num >= 2 * raw.den -> ErrOverrun(ReadPointer)
                   [] 2 * raw.num < raw.den  -> [Tf |-> Half, pos0 |-> pos1]
                   [] OTHER                  -> [Tf |-> raw,  pos0 |-> pos1]
  BY DEF Feedback
<1>. QED  BY <1>1, <1>2, <1>3 DEF TypeOK, ReadPointer, Rat, Two, Half, ErrOverrun

-----------------------------------------------------------------------------
(* Type correctness.                                                       *)

\* The initial state has the types TypeOK gives it.
LEMMA TypeInit == Init => TypeOK
BY DefaultLatencyAssumption, NoReadAssumption
DEF Init, TypeOK, States, WriterPcs, Zero, Rat

\* Every step keeps the types TypeOK gives the state.
LEMMA TypeStep == TypeOK /\ [Next]_vars => TypeOK'
<1>2. TypeOK /\ [Next]_vars => TypeOK'
  <2> SUFFICES ASSUME TypeOK, [Next]_vars PROVE TypeOK'
    OBVIOUS
  <2>. USE DEF TypeOK, States, WriterPcs, Rat, Zero, One, Two, Half
  <2>1. CASE set_latency
    BY <2>1, DefaultLatencyAssumption, ArgsAssumption DEF set_latency
  <2>2. CASE seek
    BY <2>2, ArgsAssumption, NoReadAssumption DEF seek, SeekBody
  <2>3. ASSUME NEW isReset \in BOOLEAN, pause_flush(isReset) PROVE TypeOK'
    BY <2>3 DEF pause_flush, ReadPointer
  <2>4. CASE seek_after_pause
    BY <2>4, NoReadAssumption DEF seek_after_pause, SeekBody
  <2>5. CASE seek_zero_after_reset
    BY <2>5, NoReadAssumption DEF seek_zero_after_reset, SeekBody
  <2>6. CASE pause
    BY <2>6 DEF pause, ReadPointer
  <2>7. CASE resume
    BY <2>7 DEF resume
  <2>8. CASE get_stream_usecs_paused
    BY <2>8 DEF get_stream_usecs_paused
  <2>9. CASE get_stream_usecs
    BY <2>9, InterpolatedType DEF get_stream_usecs
  <2>10. CASE get_stream_usecs_underrun
    BY <2>10 DEF get_stream_usecs_underrun, ErrUnderrun, ReadPointer
  <2>11. CASE post_buffer
    <3>1. PICK f \in FrameArgs :
                /\ written' = written + f
                /\ \/ post_buffer_start(f)
                   \/ post_buffer_aggregate(f)
                   \/ /\ t0' = now
                      /\ \/ post_buffer_update(f)
                         \/ post_buffer_underrun(f)
      BY <2>11 DEF post_buffer
    <3>2. f \in Nat
      BY ArgsAssumption
    <3>3. CASE post_buffer_start(f)
      BY <3>1, <3>2, <3>3, MinInitialOffsetAssumption, NoReadAssumption
      DEF post_buffer_start, InitialOffset
    <3>4. CASE post_buffer_aggregate(f)
      BY <3>1, <3>2, <3>4 DEF post_buffer_aggregate
    <3>5. CASE t0' = now /\ post_buffer_update(f)
      BY <3>1, <3>2, <3>5, FeedbackType DEF post_buffer_update, ReadPointer
    <3>6. CASE t0' = now /\ post_buffer_underrun(f)
      BY <3>1, <3>2, <3>6 DEF post_buffer_underrun, ErrUnderrun, ReadPointer
    <3>. QED  BY <3>1, <3>3, <3>4, <3>5, <3>6
  <2>12. CASE Tick
    BY <2>12 DEF Tick
  <2>13. CASE UNCHANGED vars
    BY <2>13 DEF vars
  <2>. QED
    BY <2>1, <2>2, <2>3, <2>4, <2>5, <2>6, <2>7, <2>8, <2>9, <2>10,
       <2>11, <2>12, <2>13
    DEF Next, Writer, Reader
<1>. QED  BY <1>2

\* Type correctness: every reachable state of the interpolator has the types
\* TypeOK gives it; in particular m_latency stays positive, so the division
\* e / m_latency of post_buffer() never divides by zero, and m_queued never
\* goes negative.
THEOREM TypeCorrect == Spec => []TypeOK
BY TypeInit, TypeStep, PTL DEF Spec

-----------------------------------------------------------------------------
(* The safety invariant, under the caller contract of resume() ("Should   *)
(* only be called when in PAUSED state", TimeInterpolator.cpp:296).        *)

\* With time factor 0, get_stream_usecs() computes m_pos0.
LEMMA FrozenInterpolated ==
  ASSUME TypeOK, Tf = Zero
  PROVE  Interpolated = pos0
<1>1. Trunc(Tf.num * (now - t0), Tf.den) = 0
  BY DEF TypeOK, Zero, Rat, Trunc
<1>. QED  BY <1>1 DEF Interpolated, TypeOK

LEMMA IInvInit == Init => IInv
BY TypeInit, DefaultLatencyAssumption
DEF Init, IInv, RunningBehindRead, ReportedWithinReadPointer,
    ReadPointerAccounting, StoppedAtRest, ReadPointer

LEMMA IInvStep == ~CallerMayMisuse /\ IInv /\ [Next]_vars => IInv'
<1> SUFFICES ASSUME ~CallerMayMisuse, IInv, [Next]_vars PROVE IInv'
  OBVIOUS
<1>0. TypeOK'
  BY TypeStep DEF IInv
<1>. USE <1>0 DEF IInv, TypeOK, RunningBehindRead, ReportedWithinReadPointer,
               ReadPointerAccounting, StoppedAtRest, ReadPointer, WriterPcs
<1>1. CASE set_latency
  BY <1>1 DEF set_latency
<1>2. CASE seek
  BY <1>2, ArgsAssumption DEF seek, SeekBody
<1>3. ASSUME NEW isReset \in BOOLEAN, pause_flush(isReset) PROVE IInv'
  BY <1>3 DEF pause_flush
<1>4. CASE seek_after_pause
  BY <1>4 DEF seek_after_pause, SeekBody
<1>5. CASE seek_zero_after_reset
  BY <1>5 DEF seek_zero_after_reset, SeekBody
<1>6. CASE pause
  BY <1>6 DEF pause
<1>7. CASE resume
  BY <1>7 DEF resume
<1>8. CASE get_stream_usecs_paused
  BY <1>8 DEF get_stream_usecs_paused
<1>9. CASE get_stream_usecs
  <2>1. CASE state = "ROLLING"
    BY <1>9, <2>1, InterpolatedType DEF get_stream_usecs
  <2>2. CASE state = "STOPPED" /\ wpc = "idle"
    BY <1>9, <2>2, FrozenInterpolated DEF get_stream_usecs
  <2>3. CASE state = "STOPPED" /\ wpc # "idle"
    BY <1>9, <2>3 DEF get_stream_usecs
  <2>. QED  BY <1>9, <2>1, <2>2, <2>3 DEF get_stream_usecs, States
<1>10. CASE get_stream_usecs_underrun
  BY <1>10 DEF get_stream_usecs_underrun, ErrUnderrun
<1>11. CASE post_buffer
  <2>1. PICK f \in FrameArgs :
              /\ wpc = "idle"
              /\ written' = written + f
              /\ \/ post_buffer_start(f)
                 \/ post_buffer_aggregate(f)
                 \/ /\ t0' = now
                    /\ \/ post_buffer_update(f)
                       \/ post_buffer_underrun(f)
    BY <1>11 DEF post_buffer
  <2>2. f \in Nat
    BY ArgsAssumption
  <2>3. CASE post_buffer_start(f)
    <3>1. InitialOffset \in Nat
      BY MinInitialOffsetAssumption DEF InitialOffset
    <3>. QED  BY <2>1, <2>2, <2>3, <3>1 DEF post_buffer_start
  <2>4. CASE post_buffer_aggregate(f)
    BY <2>1, <2>2, <2>4 DEF post_buffer_aggregate
  <2>5. CASE t0' = now /\ post_buffer_update(f)
    BY <2>1, <2>2, <2>5, FeedbackType DEF post_buffer_update
  <2>6. CASE t0' = now /\ post_buffer_underrun(f)
    BY <2>1, <2>2, <2>6 DEF post_buffer_underrun, ErrUnderrun
  <2>. QED  BY <2>1, <2>3, <2>4, <2>5, <2>6
<1>12. CASE Tick
  BY <1>12 DEF Tick
<1>13. CASE UNCHANGED vars
  BY <1>13 DEF vars
<1>. QED
  BY <1>1, <1>2, <1>3, <1>4, <1>5, <1>6, <1>7, <1>8, <1>9, <1>10,
     <1>11, <1>12, <1>13
  DEF Next, Writer, Reader

\* The inductive invariant holds in every reachable state when callers keep
\* resume()'s contract.
THEOREM SafetyInvariant ==
  ASSUME ~CallerMayMisuse
  PROVE  Spec => []IInv
<1>1. IInv /\ [Next]_vars => IInv'
  BY IInvStep
<1>. QED  BY IInvInit, <1>1, PTL DEF Spec

\* While ROLLING or PAUSED, m_pos0 is never beyond m_read: post_buffer()'s
\* underrun check, err_overrun() and pause()'s pin to m_last keep the
\* epoch behind the data written.
THEOREM RunningBehindReadHolds ==
  ASSUME ~CallerMayMisuse
  PROVE  Spec => []RunningBehindRead
<1>1. IInv => RunningBehindRead
  BY DEF IInv
<1>. QED  BY SafetyInvariant, <1>1, PTL

\* Between writer calls, no value get_stream_usecs() has reported (m_last)
\* is beyond the read pointer read_pointer().
THEOREM ReportedWithinReadPointerHolds ==
  ASSUME ~CallerMayMisuse
  PROVE  Spec => []ReportedWithinReadPointer
<1>1. IInv => ReportedWithinReadPointer
  BY DEF IInv
<1>. QED  BY SafetyInvariant, <1>1, PTL

\* The read pointer is the last seek target plus every frame posted since:
\* no post_buffer() path, underrun or pause loses or double-counts a frame.
THEOREM ReadPointerAccountingHolds ==
  ASSUME ~CallerMayMisuse
  PROVE  Spec => []ReadPointerAccounting
<1>1. IInv => ReadPointerAccounting
  BY DEF IInv
<1>. QED  BY SafetyInvariant, <1>1, PTL

-----------------------------------------------------------------------------
(* The range of the time factor.  It needs no caller contract: resume()   *)
(* outside PAUSED sets m_Tf = 1 too.                                       *)

\* The feedback step yields a time factor within the clamp: 2 when it
\* overruns, 1/2 when it is clamped from below, and otherwise the raw
\* 1 - e/m_latency, which the failed tests put in [1/2, 2).
LEMMA FeedbackTfRange ==
  ASSUME TypeOK
  PROVE  Feedback.Tf.den <= 2 * Feedback.Tf.num
         /\ Feedback.Tf.num <= 2 * Feedback.Tf.den
<1> DEFINE pos1 == Trunc(pos0 * Tf.den + Tf.num * (now - t0), Tf.den)
           e    == pos1 - (ReadPointer - latency)
           raw  == IF state = "PAUSED" THEN One ELSE Rat(latency - e, latency)
<1>0. pos1 \in Int
  BY TruncType DEF TypeOK
<1>1. raw \in [num : Int, den : Nat \ {0}]
  BY <1>0 DEF TypeOK, ReadPointer, One, Rat
<1>2. Feedback = CASE raw.num >= 2 * raw.den -> ErrOverrun(ReadPointer)
                   [] 2 * raw.num < raw.den  -> [Tf |-> Half, pos0 |-> pos1]
                   [] OTHER                  -> [Tf |-> raw,  pos0 |-> pos1]
  BY DEF Feedback
<1>3. CASE raw.num >= 2 * raw.den
  <2>1. ~(2 * raw.num < raw.den)
    BY <1>1, <1>3
  <2>2. Feedback = ErrOverrun(ReadPointer)
    BY <1>2, <1>3, <2>1, Zenon
  <2>. QED  BY <2>2 DEF ErrOverrun, Two, Rat
<1>4. CASE ~(raw.num >= 2 * raw.den) /\ 2 * raw.num < raw.den
  <2>1. Feedback = [Tf |-> Half, pos0 |-> pos1]
    BY <1>2, <1>4, Zenon
  <2>. QED  BY <2>1 DEF Half, Rat
<1>5. CASE ~(raw.num >= 2 * raw.den) /\ ~(2 * raw.num < raw.den)
  <2>1. Feedback = [Tf |-> raw, pos0 |-> pos1]
    BY <1>2, <1>5, Zenon
  <2>. QED  BY <1>1, <1>5, <2>1
<1>. QED  BY <1>3, <1>4, <1>5

\* Every step keeps the time factor at 0 or within the clamp.
LEMMA TfRangeStep == TypeOK /\ TfRange /\ [Next]_vars => TfRange'
<1> SUFFICES ASSUME TypeOK, TfRange, [Next]_vars PROVE TfRange'
  OBVIOUS
<1>. USE DEF TfRange, Zero, One, Rat
<1>1. CASE set_latency \/ pause_flush(FALSE) \/ pause_flush(TRUE) \/ pause
           \/ Reader \/ Tick \/ UNCHANGED vars
  BY <1>1 DEF set_latency, pause_flush, pause, Reader, get_stream_usecs_paused,
              get_stream_usecs, get_stream_usecs_underrun, ErrUnderrun, Tick,
              vars
<1>2. CASE seek \/ seek_after_pause \/ seek_zero_after_reset
  BY <1>2 DEF seek, seek_after_pause, seek_zero_after_reset, SeekBody
<1>3. CASE resume
  BY <1>3 DEF resume
<1>4. CASE post_buffer
  <2>1. PICK f \in FrameArgs :
              \/ post_buffer_start(f)
              \/ post_buffer_aggregate(f)
              \/ post_buffer_update(f)
              \/ post_buffer_underrun(f)
    BY <1>4 DEF post_buffer
  <2>2. CASE post_buffer_update(f)
    BY <2>2, FeedbackTfRange DEF post_buffer_update
  <2>. QED
    BY <2>1, <2>2 DEF post_buffer_start, post_buffer_aggregate,
                      post_buffer_underrun, ErrUnderrun
<1>. QED  BY <1>1, <1>2, <1>3, <1>4 DEF Next, Writer

\* In every reachable state the time factor is 0 (a frozen clock) or within
\* the clamp [0.5, 2.0] of post_buffer(): the clamps at lines 532-536 and
\* err_overrun() catch every feedback error, for all latencies and frames.
THEOREM TfRangeHolds == Spec => []TfRange
<1>1. Init => TfRange
  BY DEF Init, TfRange, Zero, Rat
<1>2. TypeOK /\ TfRange /\ [Next]_vars => (TypeOK /\ TfRange)'
  BY TypeStep, TfRangeStep
<1>3. Spec => [](TypeOK /\ TfRange)
  BY <1>1, <1>2, TypeInit, PTL DEF Spec
<1>. QED  BY <1>3, PTL

=============================================================================
