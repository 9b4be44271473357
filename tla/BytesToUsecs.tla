---------------------------- MODULE BytesToUsecs ----------------------------
(***************************************************************************)
(* TimeInterpolator::bytes_to_usecs() (TimeInterpolator.h:90-95), and a    *)
(* caller that converts a growing byte count of one stream into time.      *)
(*                                                                         *)
(* int64_t arithmetic is signed arithmetic of Width bits (64 in the code). *)
(* Signed overflow is undefined in C; the builds this code targets         *)
(* (gcc/clang on ARM and x86) emit a plain multiply, whose result wraps,   *)
(* and that is the outcome modelled.  The code divides by frame_size and   *)
(* sample_rate unchecked; the caller's formats keep both positive.         *)
(***************************************************************************)
EXTENDS Integers

CONSTANTS
  Width,        \* bits of int64_t
  USecsPerSec,  \* 1000000
  FrameSizes,   \* bytes per frame of the streams
  SampleRates,  \* frames per second of the streams
  Chunks,       \* byte counts the caller adds between conversions
  MaxBytes      \* bound on the byte count

ASSUME WidthAssumption == Width \in Nat \ {0}
ASSUME FormatAssumption ==
  /\ USecsPerSec \in Nat \ {0}
  /\ FrameSizes \subseteq Nat \ {0}
  /\ SampleRates \subseteq Nat \ {0}
  /\ Chunks \subseteq Nat
  /\ MaxBytes \in Nat

VARIABLES bytes, frameSize, sampleRate, usecs

bvars == <<bytes, frameSize, sampleRate, usecs>>

HalfRange == 2^(Width - 1)

\* The largest int64_t is 2^63 - 1: the register holds -HalfRange..HalfRange-1.
\* (A fact of arithmetic that TLC evaluates and the provers cannot derive
\* from ^.)
ASSUME HalfRangeAssumption == HalfRange \in Nat \ {0}

\* The value of a Width-bit two's-complement register holding x.
WrapInt(x) == ((x + HalfRange) % (2 * HalfRange)) - HalfRange

\* C's signed division for b > 0: truncation toward zero.
TruncDiv(a, b) == IF a >= 0 THEN a \div b ELSE -((-a) \div b)

\* Mutant: the product is kept in a register one bit narrower.
bytes_to_usecs_narrow(b, fs, sr) ==
  TruncDiv(((((b \div fs) * USecsPerSec) + HalfRange \div 2) % HalfRange)
             - HalfRange \div 2, sr)

\* (bytes / frame_size) * 1000000 / sample_rate, left to right in int64_t.
bytes_to_usecs(b, fs, sr) ==
  TruncDiv(WrapInt((b \div fs) * USecsPerSec), sr)

\* The formula of spec.md section 6 in unbounded integers.
SpecUsecs(b, fs, sr) == ((b \div fs) * USecsPerSec) \div sr

\* The intermediate product fits in int64_t.
Fits(b, fs) == (b \div fs) * USecsPerSec < HalfRange

-----------------------------------------------------------------------------
BInit ==
  /\ frameSize \in FrameSizes
  /\ sampleRate \in SampleRates
  /\ bytes = 0
  /\ usecs = 0

(* The caller writes k more bytes of the stream and converts the total. *)
Convert ==
  \E k \in Chunks :
    /\ bytes + k <= MaxBytes
    /\ bytes' = bytes + k
    /\ usecs' = bytes_to_usecs(bytes', frameSize, sampleRate)
    /\ UNCHANGED <<frameSize, sampleRate>>

BSpec == BInit /\ [][Convert]_bvars

-----------------------------------------------------------------------------
(* The type of each variable: the converted time is an int64_t value. *)
BTypeOK ==
  /\ bytes \in 0..MaxBytes
  /\ frameSize \in FrameSizes
  /\ sampleRate \in SampleRates
  /\ usecs \in -HalfRange..(HalfRange - 1)

(* The invariant the proof of ConvertMonotone rests on: the types, and the *)
(* caller's time is the conversion of its current byte count.             *)
BInv ==
  /\ BTypeOK
  /\ usecs = bytes_to_usecs(bytes, frameSize, sampleRate)

(* A stream's time never goes back as its byte count grows, as long as the *)
(* product fits in int64_t: a clock derived from bytes_to_usecs() is       *)
(* monotone up to the overflow point.                                      *)
ConvertMonotone ==
  [][Fits(bytes', frameSize) => usecs' >= usecs]_bvars

=============================================================================
