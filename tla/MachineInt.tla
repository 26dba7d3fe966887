----------------------------- MODULE MachineInt -----------------------------
(***************************************************************************)
(* The signed machine integers the simulated programs compute with         *)
(* (int32_t in the code).  The width is a parameter so that TLC can check  *)
(* a small one; the code has MaxInt = 2^31 - 1.                            *)
(***************************************************************************)
EXTENDS Integers

CONSTANT MaxInt

ASSUME IntAssumption == MaxInt \in Nat

MinInt == -MaxInt - 1
Int32 == MinInt .. MaxInt

(***************************************************************************)
(* The machine integer that an arithmetic result becomes.  C++ leaves a    *)
(* signed overflow undefined; on operands the compiler does not know, what *)
(* it emits is two's complement arithmetic, which wraps around.            *)
(***************************************************************************)
Wrap(n) == ((n - MinInt) % (MaxInt - MinInt + 1)) + MinInt

(* Mutant of Plus32: the sum is not cut to the width.                      *)
Plus32Unbounded(m, n) == m + n

Plus32(m, n) == Wrap(m + n)
=============================================================================
