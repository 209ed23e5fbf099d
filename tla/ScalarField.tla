----------------------------- MODULE ScalarField -----------------------------
(* The BN254 scalar field, which the circuits compute in and the contract   *)
(* reads public signals into.                                               *)
EXTENDS Integers

CONSTANT FieldModulus   \* BN254_FR_MODULUS, r

ASSUME ModulusAssumption == FieldModulus \in Nat \ {0}

\* Powers of two and of the digit base, as a recursive function.
Pow(b, k) ==
  LET p[n \in Nat] == IF n = 0 THEN 1 ELSE b * p[n - 1]
  IN p[k]

Field == 0..(FieldModulus - 1)
Reduce(x) == x % FieldModulus

\* The order of the field is prime.
ASSUME PrimeAssumption == \A x, y \in Field : Reduce(x * y) = 0 => x = 0 \/ y = 0

=============================================================================
