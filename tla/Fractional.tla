------------------------------ MODULE Fractional ------------------------------
(***************************************************************************)
(* The fixed-point decimal of src/client/dexterity/codegen/dex/types/      *)
(* fractional.py: value = m * 10^(-exp), m an I64 and exp a U64 on the     *)
(* wire.  Python integers do not overflow, so the arithmetic is exact and  *)
(* the width matters only when a value is packed.                          *)
(*                                                                         *)
(* The state is an accumulator x that a client folds operands into with   *)
(* + and *, as order code does with prices and sizes, next to a ghost     *)
(* ref that holds the same sum or product without any simplification.     *)
(***************************************************************************)
EXTENDS Integers

CONSTANTS
    Operands,   \* the operands (records [m, exp]) folded into x
    MaxOps      \* bound on the number of operations

VARIABLES x, ref, ops
vars == <<x, ref, ops>>

Frac(m, e) == [m |-> m, exp |-> e]

Larger(a, b) == IF a >= b THEN a ELSE b

(* Mutant: the loop strips one trailing zero at most.                     *)
SimplifyOnce(f) ==
    IF f.m = 0 THEN Frac(0, 0)
    ELSE IF f.m % 10 = 0 THEN Frac(f.m \div 10, f.exp - 1) ELSE f

(* Fractional.simplify: zero becomes (0, 0); otherwise strip trailing     *)
(* zeros of m while m % 10 == 0, decrementing exp each time, with no      *)
(* check that exp stays positive.                                         *)
RECURSIVE Simplify(_)
Simplify(f) ==
    IF f.m = 0 THEN Frac(0, 0)
    ELSE IF f.m % 10 = 0 THEN Simplify(Frac(f.m \div 10, f.exp - 1))
    ELSE f

(* Mutant: mantissas are added without rescaling to the common exponent.  *)
AddNoRescale(a, b) == Simplify(Frac(a.m + b.m, Larger(a.exp, b.exp)))

(* Fractional.__add__: rescale both mantissas to the larger exponent.     *)
Add(a, b) ==
    LET e == Larger(a.exp, b.exp)
    IN  Simplify(Frac(a.m * 10^(e - a.exp) + b.m * 10^(e - b.exp), e))

(* Fractional.__mul__.                                                    *)
Mul(a, b) == Simplify(Frac(a.m * b.m, a.exp + b.exp))

(* a and b denote the same number (exponents may be negative after        *)
(* Simplify, so compare at a common exponent).                            *)
SameValue(a, b) ==
    LET e == Larger(a.exp, b.exp)
    IN  a.m * 10^(e - a.exp) = b.m * 10^(e - b.exp)

ExactAdd(a, b) ==
    LET e == Larger(a.exp, b.exp)
    IN  Frac(a.m * 10^(e - a.exp) + b.m * 10^(e - b.exp), e)

ExactMul(a, b) == Frac(a.m * b.m, a.exp + b.exp)

TypeOK ==
    /\ x \in [m : Int, exp : Int]
    /\ ref \in [m : Int, exp : Nat]
    /\ ops \in 0 .. MaxOps

Init ==
    /\ x \in Operands
    /\ ref = x
    /\ ops = 0

(* Mutant: the bound on the number of operations is not checked.         *)
AddStepUnbounded(c) ==
    /\ x' = Add(x, c)
    /\ ref' = ExactAdd(ref, c)
    /\ ops' = ops + 1

AddStep(c) ==
    /\ ops < MaxOps
    /\ x' = Add(x, c)
    /\ ref' = ExactAdd(ref, c)
    /\ ops' = ops + 1

MulStep(c) ==
    /\ ops < MaxOps
    /\ x' = Mul(x, c)
    /\ ref' = ExactMul(ref, c)
    /\ ops' = ops + 1

(* A new computation starts from one of the operands.                    *)
Restart ==
    /\ ops > 0
    /\ x' \in Operands
    /\ ref' = x'
    /\ ops' = 0

Next == (\E c \in Operands : AddStep(c) \/ MulStep(c)) \/ Restart

Spec == Init /\ [][Next]_vars

(* Any sequence of + and * keeps the value exact: x denotes the number    *)
(* the unsimplified computation denotes.                                  *)
ArithmeticExact == SameValue(x, ref)

(* Every result of + or * is in canonical form: zero is (0, 0) and a    *)
(* nonzero mantissa has no trailing zero, so equal values have equal    *)
(* representations ((12,1) and (120,2) behave alike as operands).        *)
ResultCanonical ==
    ops > 0 => /\ x.m = 0 => x.exp = 0
               /\ x.m # 0 => x.m % 10 # 0

(* Spec, section 4.1: simplify stops at exponent 0, so every result fits *)
(* the wire form, whose exponent is a U64.                                *)
SimplifiedExpUnsigned == x.exp >= 0
=============================================================================
