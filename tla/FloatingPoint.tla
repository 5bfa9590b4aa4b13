------------------------------ MODULE FloatingPoint ------------------------------
(***************************************************************************)
(* Comparing floating-point numbers: the FloatingPoint template of           *)
(* gtest-internal.h, FloatLE() and EXPECT_NEAR() of gtest.cc, and the         *)
(* matcher of gmock-matchers.h, for numbers of any number of bits.  A number *)
(* is its bits; Exact gives what they stand for, as a multiple of the least  *)
(* number above zero.                                                        *)
(***************************************************************************)
EXTENDS Integers, FiniteSets

CONSTANTS kExponentBitCount, kFractionBitCount, kMaxUlps

ASSUME FloatingPointAssumption ==
  kExponentBitCount \in Nat \ {0} /\ kFractionBitCount \in Nat \ {0} /\ kMaxUlps \in Nat

(* 1 << n *)
Pow2[n \in Nat] == IF n = 0 THEN 1 ELSE 2 * Pow2[n - 1]

kBitCount == 1 + kExponentBitCount + kFractionBitCount
kSignBitMask == Pow2[kBitCount - 1]
AllBits == 0 .. Pow2[kBitCount] - 1
sign_bit(x) == x \div kSignBitMask
exponent_bits(x) == (x % kSignBitMask) \div Pow2[kFractionBitCount]
fraction_bits(x) == x % Pow2[kFractionBitCount]
kInfinity == (Pow2[kExponentBitCount] - 1) * Pow2[kFractionBitCount]

is_nan(x) == exponent_bits(x) = Pow2[kExponentBitCount] - 1 /\ fraction_bits(x) # 0
is_inf(x) == x % kSignBitMask = kInfinity

(* The number, of the hardware's format: infinity follows the greatest one *)
Exact(x) ==
  LET size == IF exponent_bits(x) = 0 THEN fraction_bits(x)
              ELSE (Pow2[kFractionBitCount] + fraction_bits(x)) * Pow2[exponent_bits(x) - 1]
  IN  IF sign_bit(x) = 1 THEN - size ELSE size
Negative(x) == (x + kSignBitMask) % Pow2[kBitCount]
Fabs(x) == x % kSignBitMask
(* The nearest number to n >= 0 units, the even one of two *)
Nearest(n) ==
  LET below == Cardinality({x \in 0 .. kInfinity : Exact(x) <= n}) - 1
      Nearer(x) == 2 * n < Exact(x) + Exact(x + 1) \/ (2 * n = Exact(x) + Exact(x + 1) /\ x % 2 = 0)
  IN  IF below = kInfinity \/ Nearer(below) THEN below ELSE below + 1
NaN == kInfinity + 1
Less(x, y) == ~ is_nan(x) /\ ~ is_nan(y) /\ Exact(x) < Exact(y)
AtMost(x, y) == ~ is_nan(x) /\ ~ is_nan(y) /\ Exact(x) <= Exact(y)
(* fabs(x - y), rounded *)
Apart(x, y) ==
  IF is_nan(x) \/ is_nan(y) \/ (is_inf(x) /\ x = y) THEN NaN
  ELSE IF is_inf(x) \/ is_inf(y) THEN kInfinity
  ELSE Nearest(IF Exact(x) >= Exact(y) THEN Exact(x) - Exact(y) ELSE Exact(y) - Exact(x))

--------------------------------------------------------------------------------
(* Sign and magnitude, biased: ~sam + 1 below zero.  A slip: ~sam.           *)
BiasedByComplement(sam) ==
  IF sign_bit(sam) = 1 THEN Pow2[kBitCount] - 1 - sam ELSE kSignBitMask + sam
SignAndMagnitudeToBiased(sam) ==
  IF sign_bit(sam) = 1 THEN (Pow2[kBitCount] - sam) % Pow2[kBitCount] ELSE kSignBitMask + sam
Distance(sam1, sam2) ==
  LET biased1 == SignAndMagnitudeToBiased(sam1) biased2 == SignAndMagnitudeToBiased(sam2)
  IN  IF biased1 >= biased2 THEN biased1 - biased2 ELSE biased2 - biased1
AlmostEquals(x, y) == ~ is_nan(x) /\ ~ is_nan(y) /\ Distance(x, y) <= kMaxUlps

FloatingPointLE(x, y) == Less(x, y) \/ AlmostEquals(x, y)

(* EXPECT_NEAR(): "passed", "failed", or failed with the advice that the      *)
(* bound is too small for anything but equal numbers to pass.                *)
DoubleNearPredFormat(val1, val2, abs_error) ==
  LET min_abs == IF Less(Fabs(val2), Fabs(val1)) THEN Fabs(val2) ELSE Fabs(val1)
      next == IF min_abs = kInfinity THEN min_abs ELSE min_abs + 1
      epsilon == Apart(next, min_abs)
  IN  CASE AtMost(Apart(val1, val2), abs_error) -> "passed"
        [] /\ ~ AtMost(Apart(val1, val2), abs_error)
           /\ ~ is_nan(val1) /\ ~ is_nan(val2) /\ Less(0, abs_error) /\ Less(abs_error, epsilon) -> "advised"
        [] OTHER -> "failed"

(* FloatEq() and its like: max_abs_error is negative where the ULPs decide *)
FloatingEq(value, expected, nan_eq_nan, max_abs_error) ==
  IF is_nan(value) \/ is_nan(expected) THEN is_nan(value) /\ is_nan(expected) /\ nan_eq_nan
  ELSE IF AtMost(0, max_abs_error)
  THEN Exact(value) = Exact(expected) \/ AtMost(Apart(value, expected), max_abs_error)
  ELSE AlmostEquals(value, expected)
================================================================================
