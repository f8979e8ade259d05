------------------------------ MODULE Emission ------------------------------
(***************************************************************************)
(* The subsidy schedule of core/src/emission.rs, followed block by block:  *)
(* R(h) = R0 * ((M-1)/M)^h in fixed point, by repeated squaring.  ONE is   *)
(* 2^96 in the code.  Ledger takes the schedule as BLOCK_REWARD.           *)
(***************************************************************************)
EXTENDS Integers

CONSTANTS
    SUPPLY_CAP, DECAY_M,
    ONE,              \* 1 in fixed point
    MAX_HEIGHT        \* bound of the model

ASSUME EmissionAssumption ==
    /\ {SUPPLY_CAP, DECAY_M, ONE} \subseteq Nat \ {0}
    /\ MAX_HEIGHT \in Nat

VARIABLES
    next_height,  \* of the next block
    issued        \* subsidies of all blocks below it

emissionVars == <<next_height, issued>>

-----------------------------------------------------------------------------
Mul(x, y) == (x * y) \div ONE
Base      == ((DECAY_M - 1) * ONE) \div DECAY_M

\* One round of the loop of pow_q96.
Round(s) ==
    IF s.e = 0 THEN s
    ELSE [acc  |-> IF s.e % 2 = 1 THEN Mul(s.acc, s.base) ELSE s.acc,
          base |-> Mul(s.base, s.base),
          e    |-> s.e \div 2]

\* base^e; the loop is over after e rounds at the latest.
Pow(base, e) ==
    LET run[i \in 0..e] == IF i = 0 THEN [acc |-> ONE, base |-> base, e |-> e]
                           ELSE Round(run[i - 1])
    IN  run[e].acc

\* A faulty variant: fractions are rounded up.
BlockRewardCeiling(h) ==
    ((SUPPLY_CAP \div DECAY_M) * Pow(Base, h) + ONE - 1) \div ONE

BlockReward(h) == Mul(SUPPLY_CAP \div DECAY_M, Pow(Base, h))

-----------------------------------------------------------------------------
EmissionInit == next_height = 0 /\ issued = 0

\* A block claims its whole subsidy.
Issue == /\ next_height < MAX_HEIGHT
         /\ next_height' = next_height + 1
         /\ issued' = issued + BlockReward(next_height)

EmissionSpec == EmissionInit /\ [][Issue]_emissionVars

-----------------------------------------------------------------------------
(***************************************************************************)
(* Properties.                                                             *)
(***************************************************************************)
\* The hard cap: floor rounding in every multiplication of pow_q96 only ever
\* undershoots, so the subsidies of all blocks together stay within it.
WithinCap == issued <= SUPPLY_CAP
=============================================================================
