----------------------------- MODULE Difficulty -----------------------------
(***************************************************************************)
(* The difficulty rule of one header chain: ASERT (core/src/asert.rs), the *)
(* compact encoding of targets (core/src/compact.rs) and their use by      *)
(* expected_bits, check_pow and median_time_past of node/src/chain.rs.     *)
(*                                                                         *)
(* The widths are parameters: a byte has BYTE values (256 in the code), a  *)
(* target WORD bytes (32), a fraction FRAC values (2^16).  Compact bits    *)
(* are kept as their two fields.  ChainState takes what this module says   *)
(* of bits and work as NEXT_BITS and WORK.                                 *)
(***************************************************************************)
EXTENDS Integers, Sequences, FiniteSets, TLC

CONSTANTS
    BYTE_BITS, WORD,           \* widths of a byte and of a target
    FRAC, POLY, POLY_ONE,         \* 2^x on [0, 1): cubic POLY over POLY_ONE, in units of 1/FRAC
    POW_LIMIT,                 \* easiest target, also that of genesis
    BLOCK_INTERVAL, ASERT_TAU,
    MTP_WINDOW,                \* blocks of the median time
    Times,                     \* the times blocks may carry, from genesis
    MAX_BLOCKS                 \* bound of the model

\* b^n
Exp(b, n) == LET p[i \in 0..n] == IF i = 0 THEN 1 ELSE b * p[i - 1] IN p[n]

BYTE       == Exp(2, BYTE_BITS)
SIGN       == Exp(BYTE, 3) \div 2      \* the sign bit of a 3-byte mantissa
MAX_TARGET == Exp(BYTE, WORD) - 1

ASSUME DifficultyAssumption ==
    /\ {BYTE_BITS, FRAC, POLY_ONE, BLOCK_INTERVAL, ASERT_TAU, MTP_WINDOW} \subseteq Nat \ {0}
    /\ WORD \in Nat /\ WORD >= 3
    /\ \A i \in 1..3 : POLY[i] \in Nat
    /\ Times \subseteq Nat
    /\ POW_LIMIT \in 1..((MAX_TARGET - 1) \div 2)

VARIABLES
    times     \* block times since genesis, genesis first

-----------------------------------------------------------------------------
None == 0     \* no target is zero

BitsToTarget(bits) ==
    LET t == IF bits.exp <= 3 THEN bits.mant \div Exp(BYTE, 3 - bits.exp)
             ELSE bits.mant * Exp(BYTE, bits.exp - 3)
    IN  IF bits.mant >= SIGN \/ bits.exp > WORD THEN None ELSE t

\* The number of base-b digits of n.
Digits(n, b) == CHOOSE k \in 0..(2 * WORD * BYTE_BITS) :
                    n < Exp(b, k) /\ (k > 0 => n >= Exp(b, k - 1))

Mantissa(target, size) ==
    IF size <= 3 THEN target * Exp(BYTE, 3 - size) ELSE target \div Exp(BYTE, size - 3)

\* A faulty variant: the top bit of the mantissa is taken for a digit.
TargetToBitsUnsigned(target) ==
    LET size == Digits(target, BYTE) IN [exp |-> size, mant |-> Mantissa(target, size)]

\* A mantissa that would set the sign bit moves down by a byte.
TargetToBits(target) ==
    LET size == Digits(target, BYTE)
        mant == Mantissa(target, size)
    IN  IF mant >= SIGN THEN [exp |-> size + 1, mant |-> mant \div BYTE]
        ELSE [exp |-> size, mant |-> mant]

-----------------------------------------------------------------------------
\* Division of signed integers truncates.
Quotient(a, b) == IF a >= 0 THEN a \div b ELSE -((-a) \div b)

Exponent(timeDiff, heightDiff) ==
    Quotient((timeDiff - BLOCK_INTERVAL * (heightDiff + 1)) * FRAC, ASERT_TAU)

\* 2^(frac/FRAC) in units of 1/FRAC, rounded.
Factor(frac) ==
    FRAC + (POLY[1] * frac + POLY[2] * (frac * frac) + POLY[3] * (frac * frac * frac)
              + POLY_ONE \div 2) \div POLY_ONE

\* The cubic stays below 2 on [0, 1).
ASSUME FactorAssumption == Factor(FRAC - 1) <= 2 * FRAC

\* A faulty variant: whole powers are divided off, so a negative exponent is
\* rounded up and its fraction is taken from the wrong side.
SplitTruncating(exponent) ==
    LET q == Quotient(exponent, FRAC)
        r == exponent - q * FRAC
    IN  [shifts |-> q, frac |-> IF r < 0 THEN -r ELSE r]

\* exponent = shifts * FRAC + frac, with 0 <= frac < FRAC
Split(exponent) == [shifts |-> exponent \div FRAC, frac |-> exponent % FRAC]

Capped(n, limit) == IF n > limit THEN limit ELSE n

\* asert::next_target, anchored at genesis, whose target is the limit.
NextTarget(timeDiff, heightDiff) ==
    LET x    == Split(Exponent(timeDiff, heightDiff))
        base == (POW_LIMIT * Factor(x.frac)) \div FRAC
        bits == BYTE_BITS * WORD
        down == base \div Exp(2, Capped(-x.shifts, bits))
    IN  CASE x.shifts < 0  -> IF down = 0 THEN 1 ELSE Capped(down, POW_LIMIT)
          [] x.shifts >= 0 -> IF Digits(base, 2) + Capped(x.shifts, bits) >= 2 * bits
                              THEN POW_LIMIT
                              ELSE Capped(base * Exp(2, Capped(x.shifts, bits)), POW_LIMIT)

WorkFromTarget(target) == MAX_TARGET \div (target + 1)

-----------------------------------------------------------------------------
Tip    == times[Len(times)]
Height == Len(times) - 1

ExpectedBits == TargetToBits(NextTarget(Tip - times[1], Height))

MedianTimePast(s) ==
    LET n == Capped(Len(s), MTP_WINDOW)
    IN  SortSeq(SubSeq(s, Len(s) - n + 1, Len(s)), <)[n \div 2 + 1]

\* A header with the expected bits and an admissible time joins the chain.
AddHeader(time) ==
    /\ Height < MAX_BLOCKS
    /\ time > MedianTimePast(times)
    /\ times' = Append(times, time)

DifficultyInit == times = <<0>>

DifficultyNext == \E t \in Times : AddHeader(t)

DifficultySpec == DifficultyInit /\ [][DifficultyNext]_times

-----------------------------------------------------------------------------
(***************************************************************************)
(* Properties.                                                             *)
(***************************************************************************)
\* Whatever the times of its blocks, a chain can be extended: the bits that
\* expected_bits demands decode, to a target check_pow admits and whose block
\* adds work.  They stand for the ASERT target up to the precision of the
\* mantissa, never for an easier one, and are the only bits of their target:
\* add_block compares bits, check_pow and the work compare targets.
BitsAreExact ==
    LET target == NextTarget(Tip - times[1], Height)
        back   == BitsToTarget(ExpectedBits)
    IN  /\ back \in 1..POW_LIMIT /\ WorkFromTarget(back) >= 1
        /\ back <= target
        /\ (target - back) * BYTE < target
        /\ TargetToBits(back) = ExpectedBits

\* A later parent never makes the next block harder, and a tip that is one
\* block further at the same time never makes it easier, also across the
\* encoding: slow blocks ease the target and fast ones tighten it.
Steers ==
    LET bits(t, h) == BitsToTarget(TargetToBits(NextTarget(t, h)))
        t == Tip - times[1]
    IN  bits(t, Height) <= bits(t + 1, Height) /\ bits(t, Height + 1) <= bits(t, Height)
=============================================================================
