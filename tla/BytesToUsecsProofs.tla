------------------------- MODULE BytesToUsecsProofs -------------------------
(***************************************************************************)
(* Proofs about bytes_to_usecs() and the caller that converts a growing    *)
(* byte count: every converted time fits the register, it is the exact     *)
(* formula while the product fits, and it never goes back as the count     *)
(* grows.  They hold for every Width, unit and stream format the ASSUMEs   *)
(* of BytesToUsecs allow.                                                  *)
(***************************************************************************)
EXTENDS BytesToUsecs, TLAPS

-----------------------------------------------------------------------------
(* Lemmas on the arithmetic of the conversion.                             *)

\* Whatever the product, the register holds a value of its range.
LEMMA WrapIntRange ==
  ASSUME NEW x \in Int
  PROVE  WrapInt(x) \in -HalfRange..(HalfRange - 1)
BY HalfRangeAssumption DEF WrapInt

\* A product within the non-negative range of the register is not changed.
LEMMA WrapIntFits ==
  ASSUME NEW x \in 0..(HalfRange - 1)
  PROVE  WrapInt(x) = x
BY HalfRangeAssumption DEF WrapInt

\* Dividing by a positive sample rate keeps a value in the register's range.
LEMMA TruncDivRange ==
  ASSUME NEW v \in -HalfRange..(HalfRange - 1), NEW s \in Nat \ {0}
  PROVE  TruncDiv(v, s) \in -HalfRange..(HalfRange - 1)
BY HalfRangeAssumption DEF TruncDiv

\* Scaling by a natural number keeps the order.
LEMMA MulMonotone ==
  ASSUME NEW x \in Int, NEW y \in Int, NEW k \in Nat, x <= y
  PROVE  x * k <= y * k
OBVIOUS

\* Dividing by a positive number keeps the order of naturals.
LEMMA DivMonotone ==
  ASSUME NEW x \in Nat, NEW y \in Nat, x <= y, NEW d \in Nat \ {0}
  PROVE  x \div d <= y \div d
<1>1. /\ (x \div d) * d <= x
      /\ y < (y \div d) * d + d
      /\ x \div d \in Nat /\ y \div d \in Nat
  OBVIOUS
<1>2. SUFFICES ASSUME x \div d >= y \div d + 1 PROVE FALSE
  BY <1>1
<1>3. (y \div d + 1) * d <= (x \div d) * d
  BY <1>1, <1>2, MulMonotone
<1>4. (y \div d + 1) * d = (y \div d) * d + d
  BY <1>1
<1>. QED  BY <1>1, <1>3, <1>4

\* The whole frames of a byte count, scaled, are a natural number.
LEMMA ProductNat ==
  ASSUME NEW b \in Nat, NEW fs \in FrameSizes
  PROVE  (b \div fs) * USecsPerSec \in Nat
BY FormatAssumption

\* Every conversion is a value the register can hold.
LEMMA ConversionRange ==
  ASSUME NEW b \in Nat, NEW fs \in FrameSizes, NEW sr \in SampleRates
  PROVE  bytes_to_usecs(b, fs, sr) \in -HalfRange..(HalfRange - 1)
<1>1. WrapInt((b \div fs) * USecsPerSec) \in -HalfRange..(HalfRange - 1)
  BY ProductNat, WrapIntRange
<1>. QED  BY <1>1, TruncDivRange, FormatAssumption DEF bytes_to_usecs

\* While the product fits, the conversion is the formula of spec.md
\* section 6.
LEMMA ConversionExact ==
  ASSUME NEW b \in Nat, NEW fs \in FrameSizes, NEW sr \in SampleRates,
         Fits(b, fs)
  PROVE  bytes_to_usecs(b, fs, sr) = SpecUsecs(b, fs, sr)
<1>1. (b \div fs) * USecsPerSec \in 0..(HalfRange - 1)
  BY ProductNat, HalfRangeAssumption DEF Fits
<1>2. WrapInt((b \div fs) * USecsPerSec) = (b \div fs) * USecsPerSec
  BY <1>1, WrapIntFits
<1>. QED  BY <1>1, <1>2, FormatAssumption DEF bytes_to_usecs, SpecUsecs, TruncDiv

\* More bytes never give fewer whole frames, nor a smaller exact time; and a
\* larger count whose product fits means the smaller one fits too.
LEMMA SpecMonotone ==
  ASSUME NEW b \in Nat, NEW c \in Nat, b <= c,
         NEW fs \in FrameSizes, NEW sr \in SampleRates
  PROVE  /\ (b \div fs) * USecsPerSec <= (c \div fs) * USecsPerSec
         /\ Fits(c, fs) => Fits(b, fs)
         /\ SpecUsecs(b, fs, sr) <= SpecUsecs(c, fs, sr)
<1>1. b \div fs <= c \div fs
  BY FormatAssumption, DivMonotone
<1>2. (b \div fs) * USecsPerSec <= (c \div fs) * USecsPerSec
  <2>1. b \div fs \in Int /\ c \div fs \in Int /\ USecsPerSec \in Nat
    BY FormatAssumption
  <2>. QED  BY <1>1, <2>1, MulMonotone
<1>3. Fits(c, fs) => Fits(b, fs)
  BY <1>2, ProductNat, HalfRangeAssumption DEF Fits
<1>4. SpecUsecs(b, fs, sr) <= SpecUsecs(c, fs, sr)
  <2>1. sr \in Nat \ {0}
    BY FormatAssumption
  <2>. QED  BY <1>2, <2>1, ProductNat, DivMonotone DEF SpecUsecs
<1>. QED  BY <1>2, <1>3, <1>4

-----------------------------------------------------------------------------
(* The caller's conversions.                                               *)

\* The initial state satisfies the invariant: no bytes, time 0.
LEMMA BInvInit == BInit => BInv
<1> SUFFICES ASSUME BInit PROVE BInv
  OBVIOUS
<1>1. WrapInt((0 \div frameSize) * USecsPerSec) = 0
  <2>1. (0 \div frameSize) * USecsPerSec = 0
    BY FormatAssumption DEF BInit
  <2>. QED  BY <2>1, WrapIntFits, HalfRangeAssumption
<1>. QED
  BY <1>1, FormatAssumption, HalfRangeAssumption
  DEF BInit, BInv, BTypeOK, bytes_to_usecs, TruncDiv

\* Every conversion keeps the invariant.
LEMMA BInvStep == BInv /\ [Convert]_bvars => BInv'
<1> SUFFICES ASSUME BInv, [Convert]_bvars PROVE BInv'
  OBVIOUS
<1>1. CASE Convert
  <2>1. PICK k \in Chunks : /\ bytes + k <= MaxBytes
                            /\ bytes' = bytes + k
                            /\ usecs' = bytes_to_usecs(bytes', frameSize, sampleRate)
                            /\ UNCHANGED <<frameSize, sampleRate>>
    BY <1>1 DEF Convert
  <2>2. bytes' \in 0..MaxBytes
    BY <2>1, FormatAssumption DEF BInv, BTypeOK
  <2>3. usecs' \in -HalfRange..(HalfRange - 1)
    BY <2>1, <2>2, ConversionRange, FormatAssumption DEF BInv, BTypeOK
  <2>. QED  BY <2>1, <2>2, <2>3 DEF BInv, BTypeOK
<1>2. CASE UNCHANGED bvars
  BY <1>2 DEF BInv, BTypeOK, bvars
<1>. QED  BY <1>1, <1>2

\* Every state the caller reaches satisfies BInv.
LEMMA BInvHolds == BSpec => []BInv
BY BInvInit, BInvStep, PTL DEF BSpec

\* A growing stream's converted time never goes back while the product
\* fits: the step a conversion makes, with the invariant.
LEMMA ConvertMonotoneStep ==
  BInv /\ [Convert]_bvars => [Fits(bytes', frameSize) => usecs' >= usecs]_bvars
<1> SUFFICES ASSUME BInv, [Convert]_bvars, Fits(bytes', frameSize)
             PROVE  usecs' >= usecs
  BY DEF bvars
<1>1. CASE UNCHANGED bvars
  BY <1>1, ConversionRange DEF bvars, BInv, BTypeOK
<1>2. CASE Convert
  <2>1. PICK k \in Chunks : /\ bytes' = bytes + k
                            /\ usecs' = bytes_to_usecs(bytes', frameSize, sampleRate)
                            /\ UNCHANGED <<frameSize, sampleRate>>
    BY <1>2 DEF Convert
  <2>2. bytes \in Nat /\ bytes' \in Nat /\ bytes <= bytes'
    BY <2>1, FormatAssumption DEF BInv, BTypeOK
  <2>3. Fits(bytes, frameSize)
    BY <2>1, <2>2, SpecMonotone DEF BInv, BTypeOK
  <2>4. usecs = SpecUsecs(bytes, frameSize, sampleRate)
    BY <2>3, ConversionExact DEF BInv, BTypeOK
  <2>5. usecs' = SpecUsecs(bytes', frameSize, sampleRate)
    BY <2>1, <2>2, ConversionExact DEF BInv, BTypeOK
  <2>. QED  BY <2>2, <2>4, <2>5, SpecMonotone DEF BInv, BTypeOK
<1>. QED  BY <1>1, <1>2

\* The caller's time never goes back as its byte count grows, up to the
\* overflow point.
THEOREM ConvertMonotoneHolds == BSpec => ConvertMonotone
BY BInvHolds, ConvertMonotoneStep, PTL DEF BSpec, ConvertMonotone

=============================================================================
