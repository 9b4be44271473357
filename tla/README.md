# TLA+ verification of TimeInterpolator

This directory holds the formal model of `android::TimeInterpolator`
(`src/frameworks/av/media/libstagefright/TimeInterpolator.cpp` and
`include/TimeInterpolator.h`). TimeInterpolator is the audio clock that turns
`post_buffer()` calls from an audio callback into a media time that readers can
query. It also holds the TLC configurations that check the model, and the TLAPS
proofs about it.

## 1. Inventory

### Components

| Component | Source | State | Operations |
|---|---|---|---|
| Interpolator, locked part | `TimeInterpolator.cpp` | `m_state`, `m_Tf`, `m_t0`, `m_pos0`, `m_read`, `m_queued`, `m_latency`, `m_last`, `m_now_last` | constructor, `set_latency`, `seek`, `pause(flush)`, `stop`, `reset`, `resume`, `get_stream_usecs`, `post_buffer` with `err_overrun`/`err_underrun`, `set_state` |
| Interpolator, unlocked part | `TimeInterpolator.h`, `.cpp:585` | the same `m_read`, `m_queued` | `read_pointer()`, `usecs_queued()`, `forcibly_update_read_pointer()` |
| Monotonic clock | `get_system_usecs()` | `CLOCK_MONOTONIC` | one read per call |
| `bytes_to_usecs` | `TimeInterpolator.h:90` | none (pure) | `(bytes / frame_size) * 1000000 / sample_rate` |
| `ShotParameters` | `camera/ShotParameters.h` | none of its own | setter declarations only; no implementation here |

### How the parts interact

One writer thread (the audio callback) calls `post_buffer()` at the start of
each FIFO fill. The same thread makes the lifecycle calls (`seek`, `pause`,
`stop`, `reset`, `resume`, `set_latency`). Reader threads (A/V sync, UI) call
`get_stream_usecs()` at any rate. Every one of these calls except
`set_latency` runs its body under `m_mutex`, so each body is one linearised
step. `set_latency` (cpp:112-118) takes no lock, but only the writer thread
touches `m_latency`, so it too is one step of the writer.

There are two exceptions to that:

- **`pause(true)`**: `stop()` and `reset()` both reach it. It unlocks before
  calling `seek(seek_to)`, which locks again. `reset()` then calls `seek(0)`.
  A reader can run between these critical sections.
- **Unlocked accessors**: `read_pointer()`, `usecs_queued()` and
  `forcibly_update_read_pointer()` take no lock.

### What makes it hard

- The interleaving of the reader with the writer's multi-step `stop`/`reset`.
- The order of the state changes inside `post_buffer()`:
  - the cold start from STOPPED;
  - the PAUSED to ROLLING switch with `set_Tf_to_unity`;
  - the aggregation guard `dt < frame_usecs/4`;
  - the fold of `m_queued`, the feedback update and the clamp;
  - the `err_overrun()` re-pin and the underrun check.
- The two truncations of a double into int64. `post_buffer()` truncates the sum
  `pos0 + Tf*dt`. `get_stream_usecs()` truncates only the product.
- The lazy underrun detection. Time stops only when a reader or a post notices
  it.
- Callers that break the call contract: `resume()` outside PAUSED, or a
  `post_buffer()` from PAUSED without `resume()`.

### Properties that make it correct

- **Epoch behind the writer.** While ROLLING or PAUSED, `m_pos0` never passes
  `m_read`.
- **Reports within the writer.** No time given to a reader exceeds
  `read_pointer()`.
- **Accounting.** `read_pointer()` is the last seek target plus every frame
  posted since.
- **Monotone reads.** Between seeks and restarts, the times returned to readers
  never decrease (spec.md section 5).
- **Bounded time factor.** `Tf` stays in [0.5, 2] while ROLLING (spec.md
  section 3).
- **Frozen when stopped.** A STOPPED clock is frozen (code comment, line 136).
- **Unlocked accessors.** These must not report a read pointer the writer never
  had (spec.md section 5).
- **Lock-in.** Under a periodic writer the feedback loop converges to `Tf = 1`
  (spec.md section 8.4).
- **The promise to readers.** The interpolator implements an abstract media
  clock: the write pointer moves back only at a restart, reads never go back
  and repeat while paused.

## 2. Modules and how they map to the code

### `TimeInterpolator.tla`: the locked operations, one writer, readers and the clock

**Variables.** These are the code's members without the `m_` prefix: `state`,
`Tf`, `t0`, `pos0`, `read`, `queued`, `latency` and `last`. The model adds:

- `now`: the monotonic clock;
- `wpc`: where the writer is inside `pause(true)`/`reset()`;
- `seekTo`: `pause()`'s local `seek_to`, carried across the unlock;
- two ghosts, `written` (the last seek target plus the frames posted since) and
  `lastRet` (the last value returned to a reader).

`m_now_last` only feeds log messages and is left out.

**Data abstraction.**

- Times are small integers in an abstract unit. The MC instance uses a unit of
  5 ms but shrinks the default latency so that the bounds cover several feedback
  cycles.
- The double `m_Tf` is an exact rational `[num, den]`. Every value it takes is
  0, 1/2, 1, 2 or `(latency - e)/latency`.
- `int64_t(double)` is `Trunc`, truncation toward zero. The model does not
  include a double's rounding error of at most one ulp.
- The clock is read once per critical section.

**Actions.** There is one action per critical section:

| Action | Code |
|---|---|
| `Init` | constructor, including its `seek(0)` |
| `set_latency` | `set_latency` |
| `seek` | `seek` |
| `pause_flush(isReset)` | the locked half of `pause(true)`/`stop()`/`reset()` |
| `seek_after_pause` | the `seek(seek_to)` that follows the unlock |
| `seek_zero_after_reset` | `reset()`'s `seek(0)` |
| `pause` | `pause(false)` while ROLLING (elsewhere it is a no-op) |
| `resume` | `resume()`; outside PAUSED only when `CallerMayMisuse` |
| `get_stream_usecs_paused`, `get_stream_usecs`, `get_stream_usecs_underrun` | the three paths of `get_stream_usecs()` |
| `post_buffer_start`, `post_buffer_aggregate`, `post_buffer_update`, `post_buffer_underrun` | the four paths of `post_buffer()`, inside `post_buffer` |
| `Feedback` | lines 507–536, including `ErrOverrun` |
| `ErrUnderrun` | `err_underrun()` |
| `Tick` | the clock advancing |

`set_state()` is folded into every action. Its body is error logging plus
`m_state = s`.

`CallerMayMisuse` is not a guard of the code. It is the caller contract stated
at line 296 ("Should only be called when in PAUSED state"): with FALSE, callers
respect it; with TRUE, they may break it.

### `MCTimeInterpolator.tla`: the TLC instance

It sets these values:

- `DefaultLatency = 8`, `MinInitialOffset = 2`;
- `set_latency` arguments {0, 6}, so 0 exercises the default path;
- seek targets {0, 3}, frames {1, 4};
- clock bound `MaxTime = 7`, media bound `MaxMedia = 11`.

With these values every path happens: aggregation, since a frame of 4 has
`frame/4 = 1`, so a post at the same instant aggregates. So does the feedback
step with both clamps, `err_overrun()` (reached after aggregated bursts at
latency 6), underruns from both a read and a post, pause/resume, stop and
reset with readers in the gap. Frames of 1 never aggregate, and that path is
covered too.

### `MediaClock.tla`: what readers are promised

An abstract specification with three variables: `wp` (the write pointer),
`rep` (the last value read, or `NoRead` after a restart) and `paused`. Its
steps are `Post` (the write pointer moves forward and the clock runs), `Read`
(never below the previous read; equal to it while paused), `Pause`, `Stop`
and `Restart` (the write pointer moves anywhere and reads start afresh).
`TimeInterpolator` instances it as `Clock` with `wp <- ReadPointer`,
`rep <- lastRet` and `paused <- (state = "PAUSED")`, and
`ImplementsMediaClock == Clock!CSpec` is a property of the core run. Posts,
aggregation, `err_overrun()` and `err_underrun()` from a post map to `Post`;
the cold start and the seek family to `Restart`; the three read paths to
`Read`; `pause(false)` to `Pause`; the locked half of `pause(true)` to
`Stop`; `set_latency`, `resume` and `Tick` are stutters.

### `TimeInterpolatorUnlocked.tla`: the accessors without the lock

It extends the core with two unlocked callers:

- `read_pointer()` (h:45) as `read_pointer_load` and `read_pointer_return`,
  the two loads of `m_read + m_queued` in either order, made by a reader
  thread. Any locked step may run between them. The ghost `rpSeen` collects
  every read pointer the interpolator had during the call.
- `forcibly_update_read_pointer(rp)` (cpp:585) as `forcibly_load` (load of
  `m_queued`) and `forcibly_store` (`m_read = rp - m_queued`). It is made by
  the writer thread, so the writer's locked operations are disabled between
  the two (`LockedStep`), but readers are not.

`usecs_queued()` is a single load that changes nothing, so it needs no action.
A torn 64-bit load on a 32-bit core is not modelled: each load returns a value
the field held. `MCTimeInterpolatorUnlocked.tla` adds `OverrideArgs = {5, 9}`
to the core instance.

### `BytesToUsecs.tla`: the conversion helper

`bytes_to_usecs(b, fs, sr)` is `TruncDiv(WrapInt((b \div fs) * USecsPerSec), sr)`:
the division of `b` by `fs` first (non-negative operands, so `\div` is C's
`/`), then the product in a `Width`-bit register (`WrapInt`), then C's
truncating division. Signed overflow is undefined in C; the builds this code
targets emit a plain multiply, which wraps, and that is the outcome modelled.
The helper has no caller in this repository, so the driver (`BInit`,
`Convert`: a stream's byte count grows by chunks and is converted after each)
is modelled from spec.md section 6. `MCBytesToUsecs` takes `Width = 8`,
`USecsPerSec = 10`, frame sizes {2, 3}, sample rates {1, 3}, chunks
{1, 2, 5} and `MaxBytes = 40`, so the product passes 127 and the overflow
point is reached on every path.

### `TimeInterpolatorSteady.tla`: the periodic audio callback

spec.md section 8.4 states the lock-in property for a writer that calls
`post_buffer(f)` every `f` of wall time. The module adds a variable `due`:
`Callback` is the core `post_buffer` action at `now = due`, after which the
next callback is due `Period` later; `ClockTick` is `Tick` up to the due time.
Readers run freely. `MCTimeInterpolatorSteady` takes latency 8, frame 2,
`Period = 2`, `MaxTime = 30` and no lifecycle calls.

### `TimeInterpolatorProofs.tla`, `TimeInterpolatorRefinement.tla`, `TimeInterpolatorSteadyProofs.tla`, `BytesToUsecsProofs.tla`: the TLAPS proofs

Described in section 4.

## 3. Runs

| Run | Config | Expect | What it shows |
|---|---|---|---|
| core | `MCTimeInterpolator.cfg` | pass | `TypeOK`, `RunningBehindRead`, `ReportedWithinReadPointer`, `ReadPointerAccounting`, `IInv`, `ReadFloor`, `TfRange`, `MonotoneReads` and `ImplementsMediaClock` hold over all interleavings of writer, reader and clock (3.3M distinct states, about 30 s). |
| stop_window | `MCStopWindow.cfg` | violation | `StoppedReadsFrozen`: a reader between `pause(true)`'s unlock and its `seek()` sees a STOPPED clock still running (post, stop, tick, read). |
| rolling_tf | `MCRollingTf.cfg` | violation | `RollingTfInRange`: post, pause, seek, then a post within `frame/4` of the seek leaves ROLLING with `Tf = 0`. |
| resume_misuse | `MCResumeMisuse.cfg` | violation | `MonotoneReads` with `CallerMayMisuse = TRUE`: `resume()` outside PAUSED re-pins `t0` without moving `pos0`, so the reported time goes back. |
| torn_read_pointer | `MCTornReadPointer.cfg` | violation | `ReadPointerSnapshot`: a reader loads `m_read = 0`, the writer cold-starts and then aggregates a frame into `m_queued`, and the reader returns old `m_read` plus new `m_queued`, a value the read pointer never had. |
| override_lost | `MCOverrideLost.cfg` | violation | `ReadPointerAccounting`: `forcibly_update_read_pointer(5)` loads `m_queued = 1`, a reader's underrun folds it into `m_read`, and the store leaves the read pointer at 4. |
| bytes_to_usecs | `MCBytesToUsecs.cfg` | pass | `ConvertMonotone`: a growing stream's time never goes back while the product fits; 164 states. The run makes the product pass the overflow point on every path; what the wrapped value is past that point is undefined behaviour in C and no property is stated about it. |
| steady_state | `MCTimeInterpolatorSteady.cfg` | pass | `LocksToUnity`: the loop locks from the cold start (e goes 6, 5, 4, 3, 2, 1, 0) and stays at `Tf = 1`; 592 states. |

Two notes on these properties:

- `ReportedWithinReadPointer` is scoped to a writer between calls (`wpc =
  "idle"`). Inside the stop gap it does not hold, which is what the
  stop_window finding is about.
- `MonotoneReads` resets at `seek()` and at a cold start. spec.md exempts
  restarts: every cold start pins `pos0` below the last reported time.

Each property of the passing run has a mutant that TLC must catch:

| Property | Mutant |
|---|---|
| `TypeOK` | `set_latency` without the default for `l <= 0` |
| `RunningBehindRead` | no underrun check after the feedback step |
| `ReportedWithinReadPointer` | no clamp in the underrun path of `get_stream_usecs` |
| `ReadPointerAccounting` | the fold `m_read += m_queued` dropped |
| `IInv` | `err_underrun` keeps `m_Tf` |
| `MonotoneReads`, `ReadFloor` | `pause` keeps `m_pos0` instead of pinning `m_last` |
| `ImplementsMediaClock` | `get_stream_usecs` without the PAUSED early return |
| `TfRange` | the lower clamp `m_Tf < .5` of the feedback step dropped |
| `ConvertMonotone` | the product kept in a register one bit narrower |
| `LocksToUnity` | the error enters the time factor with the wrong sign |

**Fairness.** The core and the unlocked runs assume none: every property
there is a safety property. The steady_state run assumes weak fairness of
`Callback` and of `ClockTick` only. The audio callback is driven by the audio
hardware and fires once per period as long as the stream plays, and the
monotonic clock advances by itself; that is the premise of spec.md
section 8.4. Readers get no fairness: the property must hold whether or not
anyone reads, and the `Reader` disjunct may fire at any point.

**Bounds.** The core bounds reach every path of every operation (section 2);
the steady run's `MaxTime = 30` is twice the lock-in time of 14, so the run
sees the loop locked and staying locked; the bytes run reaches the overflow
point of its 8-bit register.

## 4. Proofs (TLAPS)

The proofs are in `TimeInterpolatorProofs.tla`, `TimeInterpolatorRefinement.tla`,
`TimeInterpolatorSteadyProofs.tla` and `BytesToUsecsProofs.tla`, and hold for
every value of the constants allowed by the modules' ASSUMEs.

**Type correctness.** `TypeCorrect: Spec => []TypeOK`. TypeOK is inductive on
its own (`TypeInit`, `TypeStep`). It rests on these lemmas:

- `TruncType`: truncation yields an integer;
- `InterpolatedType`;
- `FeedbackType`: the feedback step yields an integer `pos0` and a
  non-negative rational `Tf`. In its last CASE arm, the failed clamp tests
  give `num >= den/2 >= 0`.

It shows that `m_latency` stays positive, so line 523 never divides by zero,
and that `m_queued` never goes negative.

**Safety.** `SafetyInvariant`: under `~CallerMayMisuse`, `Spec => []IInv`.
IInv is the conjunction of:

- TypeOK;
- `written \in Nat`;
- `RunningBehindRead`;
- `ReportedWithinReadPointer`;
- `ReadPointerAccounting`;
- `StoppedAtRest`: a STOPPED interpolator with an idle writer has `Tf = 0`,
  `queued = 0` and `pos0 <= read`; inside the stop gap the state is STOPPED
  and the pending seek target is a natural number.

Each of the three checked invariants needs the others:

- `pause` pins `pos0` to `last`, so `RunningBehindRead` needs
  `ReportedWithinReadPointer`.
- A read in STOPPED returns `pos0` only because `Tf = 0` (lemma
  `FrozenInterpolated`). That is why `StoppedAtRest` is needed.
- The cold start keeps `ReadPointerAccounting` only because `queued = 0` in
  STOPPED.
- `written \in Nat` rules out the `seek_to < 0` branch of `pause(true)`.

The corollaries `RunningBehindReadHolds`, `ReportedWithinReadPointerHolds` and
`ReadPointerAccountingHolds` follow from IInv.

**Monotone reads and refinement.** `TimeInterpolatorRefinement.tla` proves,
under `~CallerMayMisuse`:

- `ReadFloorHolds`: `Spec => [](IInv /\ ReadFloor)`. `ReadFloor` is the
  strengthening that makes monotone reads inductive: `t0 <= now`; the last
  read, if any, is `m_last`; a PAUSED epoch is pinned at `m_last`; and while
  not PAUSED, `m_last` is at most what `get_stream_usecs()` would compute now.
  Its step (`ReadFloorStep`) has one case per action. It rests on lemmas on
  the truncations: `TruncMonotone`, `TruncFold` (truncating `p*d + x` is at
  least `p` plus truncating `x`, which relates `post_buffer()`'s rounding of a
  sum to `get_stream_usecs()`'s rounding of a product), `ScaledMonotone`, and
  `FeedbackFloor` (the new epoch of the feedback step, after the clamps and
  `err_overrun()`'s re-pin, is not below the interpolated position).
- `MonotoneReadsHolds`: `Spec => MonotoneReads`, from `ReadFloor` and
  `OnlyReadsReport`.
- `ImplementsMediaClockHolds`: `Spec => ImplementsMediaClock`. `Init` maps
  to `CInit`, and `RefinementStep` maps each action to a `MediaClock` step
  or a stutter, as listed in section 2.

**Time factor.** `TfRangeHolds: Spec => []TfRange`, with no caller
contract: `m_Tf` is 0 or within [0.5, 2.0] in every reachable state. `TfRange`
is inductive together with TypeOK. Its one hard case is the feedback step
(lemma `FeedbackTfRange`): the overrun arm gives 2, the lower clamp 1/2, and
otherwise the two failed tests put the raw `1 - e/latency` in [1/2, 2). A
CASE chooses among all true guards, so each arm of `Feedback` is taken only
after showing the other guards false. The rolling_tf finding is the 0 case
of this invariant: 0 while ROLLING is reachable, nothing else out of band is.

**The periodic driver.** The lemma `SteadyRefinesSpec: SteadySpec => Spec`
holds by construction (a callback is a `post_buffer` with a schedule
conjunct, a clock step a `Tick` with a bound, `due` is the only variable the
driver adds), so it is a lemma and not a result. It carries
`SteadyImplementsMediaClock` and `SteadyTfRange` over from the theorems about
`Spec`: the periodic callback inherits the reader guarantees.

**`bytes_to_usecs`.** `BytesToUsecsProofs.tla` proves, for every register
width, unit and stream format:

- `ConvertMonotoneHolds: BSpec => ConvertMonotone`. Its argument: the lemma
  `BInvHolds` (the caller's time is always the conversion of its byte count;
  the driver's own assignment, so a lemma only), `ConversionExact` (a product
  in `0..HalfRange-1` is not changed by the wrap, and `TruncDiv` of a
  non-negative value is `\div`), and `SpecMonotone` (more bytes give no
  fewer frames; a larger count that fits means the smaller fits; the exact
  time is monotone).

They rest on `MulMonotone` and `DivMonotone` (dividing by a positive number
keeps the order; proved by contradiction from the quotient-remainder
bounds, which the SMT solver does not find for a variable divisor by
itself), and on `WrapIntRange`, `WrapIntFits`, `TruncDivRange`. The provers
do not evaluate `^`, so `HalfRangeAssumption` states that `2^(Width-1)` is a
positive natural, a fact of arithmetic for every `Width` that
`WidthAssumption` allows, and TLC evaluates it on every run.

**Only model-checked.** `LocksToUnity` is a liveness property; TLAPS does
not reason about fairness or ENABLED, so it stays with TLC. It also depends
on the constants (the period against the latency), so it is a claim about
the instance. The unlocked accessors are checked by TLC only: their
properties are violated, which is the finding.

## 5. Not modelled, and why

- **`ShotParameters`.** It declares camera parameter keys and setters whose
  implementation is not in this repository; it keeps no state of its own.
- **Torn 64-bit loads.** On a 32-bit core a load of `m_read` may itself be
  two loads; the model gives each load a value the field held.
- **`bytes_to_usecs` with a zero frame size or sample rate.** The code
  divides unchecked; callers' formats exclude zero (`FormatAssumption`).
- **Logging, `m_now_last`, and the rewind warnings.** These do not change
  state.

## 6. Plan

1. spec.md's scenarios S1–S6 as deterministic runs; S2's expected
   `read = 40000` disagrees with the code's `read = 20000`.
2. Liveness with no more posts: a ROLLING interpolator eventually underruns
   once a reader reads after the write pointer is passed.
3. A passing run of the unlocked accessors with `forcibly_update_read_pointer`
   excluded, to check the locked invariants with `read_pointer()` interleaved.
