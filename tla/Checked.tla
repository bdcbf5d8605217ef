------------------------------ MODULE Checked ------------------------------
(***************************************************************************)
(* math/checked: arithmetic on fixed-width integers that reports overflow  *)
(* instead of wrapping.  The Go functions come in four copies (int64,      *)
(* int32, uint64, uint32) that differ only in the width, so a type is a    *)
(* parameter here: t.min .. t.max are its values and t.bits its width.     *)
(* Every operation returns the pair of the Go function: a value and ok.    *)
(***************************************************************************)
EXTENDS Integers

\* The signed and the unsigned type of w bits.
IntType(w) == [min |-> -(2^(w - 1)), max |-> 2^(w - 1) - 1, bits |-> w]
UintType(w) == [min |-> 0, max |-> 2^w - 1, bits |-> w]

Values(t) == t.min .. t.max

\* What the machine keeps of an exact result: two's complement wrap-around.
Wrap(t, x) ==
  IF x \in Values(t) THEN x ELSE ((x - t.min) % (t.max - t.min + 1)) + t.min

Good(v) == [val |-> v, ok |-> TRUE]
Bad == [val |-> 0, ok |-> FALSE]

\* Go's division and remainder truncate towards zero.
Quo(a, b) ==
  LET q == (IF a < 0 THEN -a ELSE a) \div (IF b < 0 THEN -b ELSE b)
  IN IF (a < 0) = (b < 0) THEN q ELSE -q
Rem(a, b) == a - b * Quo(a, b)

\* Go's >> on a signed or unsigned value rounds towards minus infinity.
Shr(a, n) == a \div 2^n

AddInt(t, a, b) ==
  IF \/ b > 0 /\ a > t.max - b
     \/ b < 0 /\ a < t.min - b
  THEN Bad ELSE Good(Wrap(t, a + b))

SubInt(t, a, b) ==
  IF \/ b > 0 /\ a < t.min + b
     \/ b < 0 /\ a > t.max + b
  THEN Bad ELSE Good(Wrap(t, a - b))

\* Mutant: the product of two negative numbers is not checked.
MulIntUnchecked(t, a, b) ==
  IF \/ a > 0 /\ b > 0 /\ a > Quo(t.max, b)
     \/ a > 0 /\ b <= 0 /\ b < Quo(t.min, a)
     \/ a <= 0 /\ b > 0 /\ a < Quo(t.min, b)
  THEN Bad ELSE Good(Wrap(t, a * b))

MulInt(t, a, b) ==
  IF \/ a > 0 /\ b > 0 /\ a > Quo(t.max, b)
     \/ a > 0 /\ b <= 0 /\ b < Quo(t.min, a)
     \/ a <= 0 /\ b > 0 /\ a < Quo(t.min, b)
     \/ a < 0 /\ b <= 0 /\ b < Quo(t.max, a)
  THEN Bad ELSE Good(Wrap(t, a * b))

DivInt(t, a, b) ==
  IF b = 0 \/ (a = t.min /\ b = -1) THEN Bad ELSE Good(Wrap(t, Quo(a, b)))

ModInt(t, a, b) ==
  IF b = 0 \/ (a = t.min /\ b = -1) THEN Bad ELSE Good(Wrap(t, Rem(a, b)))

NegateInt(t, a) == IF a = t.min THEN Bad ELSE Good(Wrap(t, -a))

LshiftInt(t, a, b) ==
  IF \/ b < 0 \/ b >= t.bits
     \/ a >= 0 /\ a > Shr(t.max, b)
     \/ a < 0 /\ a < Shr(t.min, b)
  THEN Bad ELSE Good(Wrap(t, a * 2^b))

AddUint(t, a, b) == IF t.max - a < b THEN Bad ELSE Good(Wrap(t, a + b))

SubUint(t, a, b) == IF a < b THEN Bad ELSE Good(Wrap(t, a - b))

MulUint(t, a, b) ==
  IF b > 0 /\ a > Quo(t.max, b) THEN Bad ELSE Good(Wrap(t, a * b))

DivUint(t, a, b) == IF b = 0 THEN Bad ELSE Good(Quo(a, b))

ModUint(t, a, b) == IF b = 0 THEN Bad ELSE Good(Rem(a, b))

LshiftUint(t, a, b) ==
  IF b >= t.bits \/ a > Shr(t.max, b) THEN Bad ELSE Good(Wrap(t, a * 2^b))
-----------------------------------------------------------------------------
(* Reference: ok exactly when the mathematical result fits the type.       *)

Fits(t, r, x) == r = IF x \in Values(t) THEN Good(x) ELSE Bad

\* The signed operations of checked.go agree with exact arithmetic: they
\* report overflow exactly when the mathematical result does not fit, and
\* return it otherwise (quotient and remainder are Go's, towards zero).
SignedExact(t, a, b) ==
  /\ Fits(t, AddInt(t, a, b), a + b)
  /\ Fits(t, SubInt(t, a, b), a - b)
  /\ Fits(t, MulInt(t, a, b), a * b)
  /\ Fits(t, NegateInt(t, a), -a)
  /\ b # 0 => /\ Fits(t, DivInt(t, a, b), Quo(a, b))
              /\ LET d == DivInt(t, a, b)
                     m == ModInt(t, a, b)
                 IN d.ok = m.ok /\ (d.ok => a = b * d.val + m.val)
  /\ b \in 0 .. t.bits - 1 => Fits(t, LshiftInt(t, a, b), a * 2^b)
  /\ b \notin 0 .. t.bits - 1 => ~LshiftInt(t, a, b).ok

\* The same for the unsigned operations.
UnsignedExact(t, a, b) ==
  /\ Fits(t, AddUint(t, a, b), a + b)
  /\ Fits(t, SubUint(t, a, b), a - b)
  /\ Fits(t, MulUint(t, a, b), a * b)
  /\ b # 0 => /\ DivUint(t, a, b).val = a \div b
              /\ ModUint(t, a, b).val = a % b
  /\ b < t.bits => Fits(t, LshiftUint(t, a, b), a * 2^b)
  /\ b >= t.bits => ~LshiftUint(t, a, b).ok
=============================================================================
