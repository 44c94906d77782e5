----------------------------- MODULE Difficulty -----------------------------
(***************************************************************************)
(* ondris-core/src/difficulty.rs: how the difficulty of a block follows    *)
(* from the time its branch took.  Numbers are u64, bounded by MaxU64;     *)
(* the product is a u128 and is only truncated when it is cast back.       *)
(***************************************************************************)
EXTENDS Integers

CONSTANT MaxU64          \* u64::MAX

ASSUME MaxU64Assumption == MaxU64 \in Nat \ {0}

U64 == 0..MaxU64

AtLeast(x, y) == IF x >= y THEN x ELSE y     \* x.max(y)
AtMost(x, y)  == IF x <= y THEN x ELSE y     \* x.min(y)

SatAdd(x, y) == AtMost(x + y, MaxU64)        \* u64::saturating_add
SatSub(x, y) == AtLeast(x - y, 0)            \* u64::saturating_sub
SatMul(x, y) == AtMost(x * y, MaxU64)        \* u64::saturating_mul
Wrap(x)      == x % (MaxU64 + 1)             \* +, * and `as u64` in a release build

-----------------------------------------------------------------------------

\* The time the window should have taken.
TargetTimespan(target_block_time, window) ==
  AtLeast(SatMul(target_block_time, window), 1)

\* Mutation: a short time is not clamped.
ClampedAbove(actual, target) == AtLeast(AtMost(actual, Wrap(target * 4)), 1)

\* The observed time, clamped around the target.
ClampedTimespan(actual, target) ==
  AtLeast(AtMost(AtLeast(actual, target \div 4), Wrap(target * 4)), 1)

\* Mutation: the ratio is upside down.
next_difficulty_inverted(prev, actual, target_block_time, window) ==
  LET target == TargetTimespan(target_block_time, window)
  IN  AtLeast(Wrap((prev * ClampedTimespan(actual, target)) \div target), 1)

next_difficulty(prev, actual, target_block_time, window) ==
  LET target == TargetTimespan(target_block_time, window)
  IN  AtLeast(Wrap((prev * target) \div ClampedTimespan(actual, target)), 1)

=============================================================================
