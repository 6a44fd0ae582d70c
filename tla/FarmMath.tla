------------------------------ MODULE FarmMath ------------------------------
(* Integer arithmetic of the program: the fixed-point decimals, the checked  *)
(* machine integers and the early-withdrawal penalty.                        *)
EXTENDS Naturals

CONSTANTS
  WAD,        \* the scale of decimal_wad::Decimal, 10^18 in the program
  U64_MAX,    \* u64::MAX
  U128_MAX,   \* u128::MAX
  POWERS_OF_TEN   \* the table of ten_pow: 10^x for the exponents 0 .. 19 in the program

ASSUME MathAssumption ==
  /\ WAD \in Nat \ {0}
  /\ U64_MAX \in Nat
  /\ U128_MAX \in Nat
  /\ U64_MAX =< U128_MAX
  /\ \A x \in DOMAIN POWERS_OF_TEN : POWERS_OF_TEN[x] \in Nat \ {0}

BPS_DIV_FACTOR == 10000

(* Release builds keep overflow checks: a value outside its machine integer  *)
(* aborts the instruction, and an aborted instruction changes nothing.       *)
IsU64(n)  == n \in 0 .. U64_MAX
IsU128(n) == n \in 0 .. U128_MAX

MulDiv(a, b, d) == (a * b) \div d

Least(a, b) == IF a =< b THEN a ELSE b

(* ten_pow panics on an exponent that is not in its table. *)
TenPowOk(x) == x \in DOMAIN POWERS_OF_TEN

TenPow(x) == IF TenPowOk(x) THEN POWERS_OF_TEN[x] ELSE 1

-----------------------------------------------------------------------------
(* A lock runs from begin to begin + duration. *)

Locked(begin, duration, now) == begin =< now /\ now < begin + duration

(* get_withdrawal_penalty_bps fails on a locked stake whose penalty is 0 or  *)
(* 100 %, on an overflowing maturity and on an overflowing product.          *)
PenaltyOk(begin, duration, now, bps) ==
  /\ IsU64(begin + duration)
  /\ Locked(begin, duration, now) =>
       /\ bps \in 1 .. BPS_DIV_FACTOR - 1
       /\ IsU64(bps * (begin + duration - now))

(* Mutant: the time elapsed in place of the time remaining. *)
MutPenaltyOfElapsed(begin, duration, now, bps) ==
  IF Locked(begin, duration, now) THEN (bps * (now - begin)) \div duration ELSE 0

WithdrawalPenaltyBps(begin, duration, now, bps) ==
  IF Locked(begin, duration, now)
  THEN (bps * (begin + duration - now)) \div duration
  ELSE 0

EarlyWithdrawalPenalty(begin, duration, now, bps, amount) ==
  MulDiv(amount, WithdrawalPenaltyBps(begin, duration, now, bps), BPS_DIV_FACTOR)
=============================================================================
