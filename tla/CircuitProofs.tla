---------------------------- MODULE CircuitProofs ----------------------------
(***************************************************************************)
(* What the gadgets of the circuits and the word conversions of the        *)
(* contract compute, for every width: powers, range checks, comparators,   *)
(* digits.                                                                 *)
(***************************************************************************)
EXTENDS MerkleSumCircuits, WireFormat, SumTheorems, SequenceTheorems

----------------------------------------------------------------------------
(***************************************************************************)
(* Powers.                                                                 *)
(***************************************************************************)
IsPow(p, b) == p = [n \in Nat |-> IF n = 0 THEN 1 ELSE b * p[n - 1]]

\* The recursive definition of the powers of b has a solution.
LEMMA PowExists == \A b : \E p : IsPow(p, b)
  <1> SUFFICES ASSUME NEW b PROVE \E p : IsPow(p, b)
    OBVIOUS
  <1> DEFINE Upto(h, n) == h = [i \in 0..n |-> IF i = 0 THEN 1 ELSE b * h[i - 1]]
  <1>1. \A n \in Nat : \E h : Upto(h, n)
    <2> DEFINE Q == {n \in Nat : \E h : Upto(h, n)}
    <2>1. 0 \in Q
      <3> DEFINE h == [i \in 0..0 |-> 1]
      <3>1. Upto(h, 0)
        OBVIOUS
      <3> QED BY <3>1
    <2>2. ASSUME NEW n \in Nat, n \in Q PROVE n + 1 \in Q
      <3>1. PICK h : Upto(h, n)
        BY <2>2
      <3> DEFINE g == [i \in 0..(n + 1) |-> IF i = 0 THEN 1 ELSE b * h[i - 1]]
      <3>2. ASSUME NEW i \in 0..n PROVE g[i] = h[i]
        BY <3>1, <3>2
      <3>3. \A i \in 0..(n + 1) : i # 0 => i - 1 \in 0..n
        OBVIOUS
      <3>4. g = [i \in 0..(n + 1) |-> IF i = 0 THEN 1 ELSE b * g[i - 1]]
        BY <3>2, <3>3
      <3> HIDE DEF g
      <3> QED BY <3>4
    <2> HIDE DEF Q
    <2>3. Nat \subseteq Q
      BY <2>1, <2>2, NumberInduction
    <2> QED BY <2>3 DEF Q
  <1>2. ASSUME NEW n \in Nat, NEW m \in Nat, NEW h, NEW g, Upto(h, n), Upto(g, m)
        PROVE  \A i \in Nat : i <= n /\ i <= m => h[i] = g[i]
    <2> DEFINE Q == {i \in Nat : i <= n /\ i <= m => h[i] = g[i]}
    <2>1. 0 \in Q
      BY <1>2
    <2>2. ASSUME NEW i \in Nat, i \in Q PROVE i + 1 \in Q
      <3> SUFFICES ASSUME i + 1 <= n, i + 1 <= m PROVE h[i + 1] = g[i + 1]
        OBVIOUS
      <3>1. h[i] = g[i]
        BY <2>2
      <3>2. h[i + 1] = b * h[i] /\ g[i + 1] = b * g[i]
        BY <1>2
      <3> QED BY <3>1, <3>2
    <2> HIDE DEF Q
    <2>3. Nat \subseteq Q
      BY <2>1, <2>2, NumberInduction
    <2> QED BY <2>3 DEF Q
  <1> DEFINE a(n) == CHOOSE h : Upto(h, n)
             p == [n \in Nat |-> a(n)[n]]
  <1>3. \A n \in Nat : Upto(a(n), n)
    BY <1>1, Zenon
  <1>4. ASSUME NEW n \in Nat PROVE p[n] = IF n = 0 THEN 1 ELSE b * p[n - 1]
    <2> HIDE DEF a
    <2>1. CASE n = 0
      <3>1. a(0)[0] = 1
        BY <1>3
      <3> QED BY <2>1, <3>1
    <2>2. CASE n # 0
      <3>1. n - 1 \in Nat /\ n - 1 <= n /\ n - 1 <= n - 1
        BY <2>2
      <3>2. a(n)[n] = b * a(n)[n - 1]
        <4>1. Upto(a(n), n)
          BY <1>3
        <4> QED BY <2>2, <4>1
      <3>3. a(n)[n - 1] = a(n - 1)[n - 1]
        <4>1. Upto(a(n), n) /\ Upto(a(n - 1), n - 1)
          BY <1>3, <3>1
        <4> HIDE DEF Upto
        <4> QED BY <1>2, <3>1, <4>1
      <3> QED BY <2>2, <3>1, <3>2, <3>3
    <2> QED BY <2>1, <2>2
  <1>5. p = [n \in Nat |-> IF n = 0 THEN 1 ELSE b * p[n - 1]]
    <2>1. \A n \in Nat : p[n] = IF n = 0 THEN 1 ELSE b * p[n - 1]
      BY <1>4
    <2> QED BY <2>1
  <1> HIDE DEF p
  <1> QED BY <1>5 DEF IsPow

\* The powers of a number are numbers, each that many times the one before.
LEMMA PowLaws ==
  ASSUME NEW b \in Nat
  PROVE  /\ Pow(b, 0) = 1
         /\ \A n \in Nat : Pow(b, n) \in Nat /\ Pow(b, n + 1) = b * Pow(b, n)
  <1> DEFINE p == CHOOSE p : IsPow(p, b)
  <1>1. \A n : Pow(b, n) = p[n]
    BY DEF Pow, IsPow
  <1>2. IsPow(p, b)
    BY PowExists, Zenon
  <1> HIDE DEF p
  <1>3. p[0] = 1 /\ \A n \in Nat : p[n + 1] = b * p[n]
    BY <1>2 DEF IsPow
  <1> DEFINE Q == {n \in Nat : p[n] \in Nat}
  <1>4. \A n \in Nat : n \in Q => n + 1 \in Q
    BY <1>3
  <1>5. 0 \in Q
    BY <1>3
  <1>6. Nat \subseteq Q
    <2> HIDE DEF Q
    <2> QED BY <1>4, <1>5, NumberInduction
  <1> QED BY <1>1, <1>3, <1>6

\* Powers of a positive number are positive, and grow with the exponent.
LEMMA PowGrows ==
  ASSUME NEW b \in Nat \ {0}, NEW m \in Nat, NEW n \in Nat
  PROVE  /\ Pow(b, m) \in Nat \ {0}
         /\ Pow(b, m) <= Pow(b, m + n)
  <1>0. \A k \in Nat : Pow(b, k) \in Nat /\ Pow(b, k + 1) = b * Pow(b, k)
    BY PowLaws
  <1>1. \A k \in Nat : Pow(b, k) >= 1
    <2> DEFINE Q == {k \in Nat : Pow(b, k) >= 1}
    <2>1. 0 \in Q
      BY PowLaws
    <2>2. ASSUME NEW k \in Nat, k \in Q PROVE k + 1 \in Q
      <3>1. \A x, y \in Nat : x >= 1 /\ y >= 1 => x * y >= 1
        OBVIOUS
      <3> QED BY <1>0, <2>2, <3>1
    <2> HIDE DEF Q
    <2>3. Nat \subseteq Q
      BY <2>1, <2>2, NumberInduction
    <2> QED BY <2>3 DEF Q
  <1>2. \A k \in Nat : Pow(b, m) <= Pow(b, m + k)
    <2> DEFINE Q == {k \in Nat : Pow(b, m) <= Pow(b, m + k)}
    <2>1. 0 \in Q
      BY <1>0
    <2>2. ASSUME NEW k \in Nat, k \in Q PROVE k + 1 \in Q
      <3>1. \A x, y \in Nat : x >= 1 => y <= x * y
        OBVIOUS
      <3>2. (m + k) + 1 = m + (k + 1) /\ m + k \in Nat
        OBVIOUS
      <3>3. Pow(b, m + k) \in Nat /\ Pow(b, m + (k + 1)) = b * Pow(b, m + k)
        BY <1>0, <3>2
      <3>4. Pow(b, m + k) <= b * Pow(b, m + k)
        BY <3>1, <3>3
      <3> QED BY <1>0, <2>2, <3>3, <3>4
    <2> HIDE DEF Q
    <2>3. Nat \subseteq Q
      BY <2>1, <2>2, NumberInduction
    <2> QED BY <2>3 DEF Q
  <1>3. Pow(b, m) \in Nat /\ Pow(b, m) >= 1
    BY <1>0, <1>1
  <1> QED BY <1>2, <1>3

\* Exponents add.
LEMMA PowAdds ==
  ASSUME NEW b \in Nat, NEW m \in Nat, NEW n \in Nat
  PROVE  Pow(b, m + n) = Pow(b, m) * Pow(b, n)
  <1>0. \A k \in Nat : Pow(b, k) \in Nat /\ Pow(b, k + 1) = b * Pow(b, k)
    BY PowLaws
  <1> DEFINE Q == {k \in Nat : Pow(b, m + k) = Pow(b, m) * Pow(b, k)}
  <1>1. 0 \in Q
    <2>1. Pow(b, 0) = 1
      BY PowLaws
    <2> QED BY <1>0, <2>1
  <1>2. ASSUME NEW k \in Nat, k \in Q PROVE k + 1 \in Q
    <2>1. Pow(b, m + (k + 1)) = b * Pow(b, m + k)
      <3>1. (m + k) + 1 = m + (k + 1) /\ m + k \in Nat
        OBVIOUS
      <3> QED BY <1>0, <3>1
    <2>2. Pow(b, m + k) = Pow(b, m) * Pow(b, k)
      BY <1>2
    <2>3. \A x, y \in Nat : b * (x * y) = x * (b * y)
      OBVIOUS
    <2>4. b * (Pow(b, m) * Pow(b, k)) = Pow(b, m) * (b * Pow(b, k))
      BY <1>0, <2>3
    <2> QED BY <1>0, <2>1, <2>2, <2>4
  <1> HIDE DEF Q
  <1>3. Nat \subseteq Q
    BY <1>1, <1>2, NumberInduction
  <1> QED BY <1>3 DEF Q

----------------------------------------------------------------------------
(***************************************************************************)
(* Range checks and comparators.                                           *)
(***************************************************************************)

\* A range check below the width of the field spells one number or none.
LEMMA RangeCheck ==
  ASSUME NEW n \in Nat, Pow(2, n) <= FieldModulus, NEW x \in Field
  PROVE  /\ Num2Bits(n, x) = {v \in {x} : v < Pow(2, n)}
         /\ InBits(n, x) <=> x < Pow(2, n)
  <1> DEFINE P == Pow(2, n)
             K == 0..(P \div FieldModulus)
  <1>1. P \in Nat \ {0} /\ P <= FieldModulus /\ FieldModulus \in Nat \ {0}
    BY PowGrows, ModulusAssumption
  <1>2. x \in Nat /\ x < FieldModulus
    BY <1>1 DEF Field
  <1>3. 0 \in K /\ \A k \in K : k \in Nat
    <2> HIDE DEF P
    <2>1. P \div FieldModulus \in Nat
      BY <1>1
    <2> QED BY <2>1
  <1>4. ASSUME NEW k \in K, x + k * FieldModulus < P
        PROVE  k = 0
    <2> HIDE DEF P, K
    <2>1. k \in Nat
      BY <1>3
    <2>2. k # 0 => k * FieldModulus >= FieldModulus
      <3>1. \A a, b \in Nat : a >= 1 => a * b >= b
        OBVIOUS
      <3> QED BY <1>1, <2>1, <3>1
    <2>3. k * FieldModulus \in Nat
      BY <1>1, <2>1
    <2> QED BY <1>1, <1>2, <1>4, <2>1, <2>2, <2>3
  <1>5. Num2Bits(n, x) = {v \in {x} : v < P}
    <2>1. Num2Bits(n, x) = {v \in {x + k * FieldModulus : k \in K} : v < P}
      BY DEF Num2Bits
    <2>2. x + 0 * FieldModulus = x
      BY <1>1, <1>2
    <2> HIDE DEF P, K
    <2> QED BY <1>3, <1>4, <2>1, <2>2
  <1> HIDE DEF P, K
  <1>6. InBits(n, x) <=> {v \in {x} : v < P} # {}
    BY <1>5 DEF InBits
  <1>7. {v \in {x} : v < P} # {} <=> x < P
    OBVIOUS
  <1> QED BY <1>5, <1>6, <1>7 DEF P

\* The comparators compare, when both sides fit their width and the field is
\* wider than that.
THEOREM Comparators ==
  ASSUME NEW n \in Nat, Pow(2, n + 1) <= FieldModulus,
         NEW a \in Nat, a < Pow(2, n)
  PROVE  /\ \A b \in Nat : b <= Pow(2, n) => (LessThan(n, a, b) <=> a < b)
         /\ \A b \in Nat : b < Pow(2, n) => (LessEqThan(n, a, b) <=> a <= b)
  <1> DEFINE P == Pow(2, n)
  <1>1. P \in Nat \ {0} /\ Pow(2, n + 1) = 2 * P /\ FieldModulus \in Nat \ {0}
    BY PowGrows, PowLaws, ModulusAssumption
  <1>2. ASSUME NEW b \in Nat, b <= P
        PROVE  LessThan(n, a, b) <=> a < b
    <2> DEFINE x == a + P - b
    <2>1. LessThan(n, a, b) <=> \E v \in Num2Bits(n + 1, Reduce(x)) : v < P
      BY DEF LessThan
    <2>2. x \in Nat /\ x < 2 * P /\ 2 * P <= FieldModulus
      BY <1>1, <1>2
    <2>3. x < FieldModulus
      BY <1>1, <2>2
    <2> HIDE DEF x
    <2>4. Reduce(x) = x /\ x \in Field
      BY <1>1, <2>2, <2>3 DEF Reduce, Field
    <2>5. Num2Bits(n + 1, x) = {v \in {x} : v < 2 * P}
      BY <1>1, <2>4, RangeCheck
    <2>6. LessThan(n, a, b) <=> x < P
      BY <2>1, <2>2, <2>4, <2>5
    <2> QED BY <1>1, <1>2, <2>6 DEF x
  <1>3. ASSUME NEW b \in Nat, b < P
        PROVE  LessEqThan(n, a, b) <=> a <= b
    <2>1. b + 1 \in Nat /\ b + 1 <= P /\ b + 1 < FieldModulus
      BY <1>1, <1>3
    <2>2. Reduce(b + 1) = b + 1
      BY <1>1, <2>1 DEF Reduce
    <2>3. LessThan(n, a, b + 1) <=> a < b + 1
      BY <1>2, <2>1
    <2> QED BY <2>2, <2>3 DEF LessEqThan
  <1> QED BY <1>2, <1>3 DEF P

----------------------------------------------------------------------------
(***************************************************************************)
(* Division.                                                               *)
(***************************************************************************)

\* Quotient and remainder of a number.
LEMMA DivMod ==
  ASSUME NEW v \in Nat, NEW d \in Nat \ {0}
  PROVE  /\ v \div d \in Nat /\ v % d \in 0..(d - 1)
         /\ v = ((v \div d) * d) + (v % d)
  OBVIOUS

\* They are the only ones.
LEMMA DivModUnique ==
  ASSUME NEW v \in Nat, NEW d \in Nat \ {0}, NEW q \in Nat, NEW r \in 0..(d - 1),
         v = q * d + r
  PROVE  v \div d = q /\ v % d = r
  <1> DEFINE p == v \div d
             t == v % d
  <1>1. p \in Nat /\ t \in 0..(d - 1) /\ v = p * d + t
    BY DivMod
  <1> HIDE DEF p, t
  <1>2. (p - q) * d = r - t
    BY <1>1
  <1>3. \A x, y \in Int : x >= 1 /\ y >= 1 => x * y >= y
    OBVIOUS
  <1>4. ~(p - q >= 1)
    <2>1. p - q >= 1 => (p - q) * d >= d
      BY <1>1, <1>3
    <2> QED BY <1>1, <1>2, <2>1
  <1>5. ~(q - p >= 1)
    <2>1. q - p >= 1 => (q - p) * d >= d
      BY <1>1, <1>3
    <2>2. (q - p) * d = t - r
      BY <1>1
    <2> QED BY <1>1, <2>1, <2>2
  <1>6. p = q
    BY <1>1, <1>4, <1>5
  <1>7. t = r
    BY <1>1, <1>2, <1>6
  <1> QED BY <1>6, <1>7 DEF p, t

\* Dividing by a product is dividing twice, and the remainders combine.
LEMMA DivTwice ==
  ASSUME NEW v \in Nat, NEW d \in Nat \ {0}, NEW c \in Nat \ {0}
  PROVE  /\ v \div (d * c) = (v \div d) \div c
         /\ v % (d * c) = (((v \div d) % c) * d) + (v % d)
  <1> DEFINE q == v \div d
             r == v % d
             q2 == q \div c
             r2 == q % c
  <1>1. q \in Nat /\ r \in 0..(d - 1) /\ v = q * d + r
    BY DivMod
  <1>2. q2 \in Nat /\ r2 \in 0..(c - 1) /\ q = q2 * c + r2
    <2> HIDE DEF q
    <2> QED BY <1>1, DivMod
  <1> HIDE DEF q, r, q2, r2
  <1>3. v = q2 * (d * c) + (r2 * d + r)
    <2>1. (q2 * c + r2) * d = q2 * (d * c) + r2 * d
      BY <1>1, <1>2
    <2> QED BY <1>1, <1>2, <2>1
  <1>4. r2 * d + r \in 0..(d * c - 1)
    <2>1. r2 * d <= (c - 1) * d
      BY <1>2
    <2>2. (c - 1) * d = d * c - d
      OBVIOUS
    <2>3. r2 * d \in Nat
      BY <1>2
    <2> QED BY <1>1, <2>1, <2>2, <2>3
  <1>5. d * c \in Nat \ {0}
    OBVIOUS
  <1>6. v \div (d * c) = q2 /\ v % (d * c) = r2 * d + r
    <2> DEFINE m == d * c
               s == r2 * d + r
    <2>1. m \in Nat \ {0} /\ s \in 0..(m - 1) /\ v = q2 * m + s
      BY <1>3, <1>4, <1>5
    <2> HIDE DEF m, s
    <2>2. v \div m = q2 /\ v % m = s
      BY <1>2, <2>1, DivModUnique
    <2> QED BY <2>2 DEF m, s
  <1> QED BY <1>6 DEF q, r, q2, r2

----------------------------------------------------------------------------
(***************************************************************************)
(* Words.                                                                  *)
(***************************************************************************)

\* The base is positive, and a word has its positions.
LEMMA WordFacts ==
  /\ Radix \in Nat \ {0} /\ Radix > 1
  /\ WordLen \in Nat /\ HalfLen \in 1..WordLen /\ U32Len \in 1..HalfLen
  /\ \A k \in Nat : Pow(Radix, k) \in Nat \ {0} /\ Pow(Radix, k + 1) = Radix * Pow(Radix, k)
  /\ Pow(Radix, 0) = 1
  <1>1. Radix \in Nat \ {0} /\ Radix > 1
    BY WordWidthAssumption
  <1>2. \A k \in Nat : Pow(Radix, k) \in Nat \ {0}
    BY <1>1, PowGrows
  <1> QED BY <1>1, <1>2, PowLaws, WordWidthAssumption

\* No digits spell 0; one digit more multiplies by the base and adds it.
LEMMA DigitStep ==
  ASSUME NEW word, NEW first \in Nat, NEW last \in Nat, first <= last + 1,
         \A i \in first..(last + 1) : word[i] \in Nat
  PROVE  /\ DigitsValue(word, last + 1, last) = 0
         /\ DigitsValue(word, first, last) \in Nat
         /\ DigitsValue(word, first, last + 1)
              = (DigitsValue(word, first, last) * Radix) + word[last + 1]
  <1> DEFINE S == first..last
             T == first..(last + 1)
             f == [i \in S |-> word[i] * Pow(Radix, last - i)]
             g == [i \in T |-> word[i] * Pow(Radix, (last + 1) - i)]
  <1>0. IsFiniteSet(S) /\ IsFiniteSet(T) /\ last + 1 \in T /\ T \ {last + 1} = S
    BY FS_Interval
  <1>1. DigitsValue(word, last + 1, last) = 0
    <2>1. (last + 1)..last = {}
      OBVIOUS
    <2> QED BY <2>1, SumEmpty DEF DigitsValue, SumFunction
  <1>2. \A i \in S : f[i] \in Nat /\ g[i] = f[i] * Radix /\ g[i] \in Nat
    <2> SUFFICES ASSUME NEW i \in S
                 PROVE  f[i] \in Nat /\ g[i] = f[i] * Radix /\ g[i] \in Nat
      OBVIOUS
    <2>1. last - i \in Nat /\ (last + 1) - i = (last - i) + 1 /\ word[i] \in Nat /\ i \in T
      OBVIOUS
    <2> DEFINE x == word[i]
               y == Pow(Radix, last - i)
    <2>2. x \in Nat /\ y \in Nat /\ Pow(Radix, (last + 1) - i) = Radix * y /\ Radix \in Nat
      BY <2>1, WordFacts
    <2>3. f[i] = x * y /\ g[i] = x * Pow(Radix, (last + 1) - i)
      BY <2>1
    <2> HIDE DEF f, g, x, y
    <2>4. x * y \in Nat /\ x * (Radix * y) = (x * y) * Radix /\ (x * y) * Radix \in Nat
      BY <2>2
    <2> QED BY <2>2, <2>3, <2>4
  <1>3. g[last + 1] = word[last + 1] /\ g[last + 1] \in Nat
    <2>1. g[last + 1] = word[last + 1] * Pow(Radix, (last + 1) - (last + 1))
      BY <1>0
    <2>2. (last + 1) - (last + 1) = 0 /\ word[last + 1] \in Nat
      OBVIOUS
    <2> HIDE DEF g
    <2> QED BY <2>1, <2>2, WordFacts
  <1>4. DigitsValue(word, first, last) = SumFunctionOnSet(f, S)
    BY DEF DigitsValue, SumFunction
  <1>5. DigitsValue(word, first, last + 1) = SumFunctionOnSet(g, T)
    BY DEF DigitsValue, SumFunction
  <1> HIDE DEF f, g, S, T
  <1>6. SumFunctionOnSet(f, S) \in Nat
    BY <1>0, <1>2, SumType
  <1>7. \A i \in T : g[i] \in Int
    BY <1>0, <1>2, <1>3
  <1>8. SumFunctionOnSet(g, T) = g[last + 1] + SumFunctionOnSet(g, S)
    BY <1>0, <1>7, SumTakeOut
  <1>9. SumFunctionOnSet(g, S) = SumFunctionOnSet(f, S) * Radix
    <2>1. Radix \in Int /\ \A i \in S : f[i] \in Int /\ g[i] = f[i] * Radix
      BY <1>2, WordFacts
    <2> QED BY <1>0, <2>1, SumScale
  <1> QED BY <1>1, <1>3, <1>4, <1>5, <1>6, <1>8, <1>9, WordFacts

\* The digits first..last of the word the page writes for a number spell the
\* number without its last digits, modulo the digits above them.
LEMMA DigitsOfNumber ==
  ASSUME NEW v \in Nat, NEW first \in Positions
  PROVE  \A last \in Positions : first <= last =>
           DigitsValue(FeBytes(v), first, last)
             = (v \div Pow(Radix, WordLen - last)) % Pow(Radix, (last + 1) - first)
  <1> DEFINE word == FeBytes(v)
             Val(n) == (v \div Pow(Radix, WordLen - (first + n))) % Pow(Radix, n + 1)
             Q == {n \in Nat : first + n <= WordLen =>
                                  DigitsValue(word, first, first + n) = Val(n)}
  <1>0. first \in Nat /\ first >= 1 /\ first <= WordLen
    BY WordFacts DEF Positions
  <1>1. \A i \in Positions : /\ WordLen - i \in Nat
                           /\ v \div Pow(Radix, WordLen - i) \in Nat
                           /\ word[i] = (v \div Pow(Radix, WordLen - i)) % Radix
                           /\ word[i] \in Nat
    <2> SUFFICES ASSUME NEW i \in Positions
                 PROVE  /\ WordLen - i \in Nat
                        /\ v \div Pow(Radix, WordLen - i) \in Nat
                        /\ word[i] = (v \div Pow(Radix, WordLen - i)) % Radix
                        /\ word[i] \in Nat
      OBVIOUS
    <2>1. WordLen - i \in Nat
      BY WordFacts DEF Positions
    <2>2. Pow(Radix, WordLen - i) \in Nat \ {0}
      BY <2>1, WordFacts
    <2>3. v \div Pow(Radix, WordLen - i) \in Nat
      BY <2>2, DivMod
    <2>4. word[i] = (v \div Pow(Radix, WordLen - i)) % Radix
      BY DEF FeBytes
    <2> HIDE DEF word
    <2>5. \A x \in Nat : x % Radix \in Nat
      BY DivMod, WordFacts
    <2> QED BY <2>1, <2>3, <2>4, <2>5
  <1> HIDE DEF word
  <1>2. 0 \in Q
    <2> SUFFICES DigitsValue(word, first, first) = Val(0)
      BY <1>0
    <2>1. first - 1 \in Nat /\ (first - 1) + 1 = first /\ first <= (first - 1) + 1
      BY <1>0
    <2>2. \A i \in first..first : word[i] \in Nat
      BY <1>1
    <2>3. /\ DigitsValue(word, first, first - 1) = 0
          /\ DigitsValue(word, first, first)
               = (DigitsValue(word, first, first - 1) * Radix) + word[first]
      <3> DEFINE l == first - 1
      <3>1. /\ l \in Nat /\ l + 1 = first /\ first <= l + 1
            /\ \A i \in first..(l + 1) : word[i] \in Nat
        BY <2>1, <2>2
      <3> HIDE DEF l
      <3>2. /\ DigitsValue(word, l + 1, l) = 0
            /\ DigitsValue(word, first, l + 1) = (DigitsValue(word, first, l) * Radix) + word[l + 1]
        BY <1>0, <3>1, DigitStep
      <3> QED BY <3>1, <3>2 DEF l
    <2>4. DigitsValue(word, first, first) = word[first]
      BY <1>1, <2>3, WordFacts
    <2>5. Pow(Radix, 0 + 1) = Radix /\ first + 0 = first
      <3>1. Pow(Radix, 0 + 1) = Radix * 1
        BY WordFacts
      <3> QED BY <1>0, <3>1, WordFacts
    <2> QED BY <1>1, <2>4, <2>5
  <1>3. ASSUME NEW n \in Nat, n \in Q PROVE n + 1 \in Q
    <2> SUFFICES ASSUME first + (n + 1) <= WordLen
                 PROVE  DigitsValue(word, first, first + (n + 1)) = Val(n + 1)
      OBVIOUS
    <2> DEFINE l == first + n
               q == v \div Pow(Radix, WordLen - (l + 1))
    <2>1. l \in Nat /\ l + 1 \in Positions /\ first <= l + 1 /\ l + 1 = first + (n + 1)
      BY <1>0, WordFacts DEF Positions
    <2>2. \A i \in first..(l + 1) : word[i] \in Nat
      <3>1. first..(l + 1) \subseteq Positions
        BY <1>0, <2>1, WordFacts DEF Positions
      <3> QED BY <1>1, <3>1
    <2>3. DigitsValue(word, first, l + 1) = (DigitsValue(word, first, l) * Radix) + word[l + 1]
      BY <1>0, <2>1, <2>2, DigitStep
    <2>4. DigitsValue(word, first, l) = (v \div Pow(Radix, WordLen - l)) % Pow(Radix, n + 1)
      BY <1>0, <1>3, <2>1, WordFacts
    <2>5. q \in Nat /\ word[l + 1] = q % Radix
      BY <1>1, <2>1
    <2>6. v \div Pow(Radix, WordLen - l) = q \div Radix
      <3> DEFINE P == Pow(Radix, WordLen - (l + 1))
      <3>1. WordLen - (l + 1) \in Nat /\ WordLen - l = (WordLen - (l + 1)) + 1
        BY <2>1, WordFacts DEF Positions
      <3>2. Pow(Radix, WordLen - l) = Radix * P /\ P \in Nat \ {0}
        <4> HIDE DEF l
        <4> QED BY <3>1, WordFacts
      <3>3. Radix * P = P * Radix
        BY <3>2, WordFacts
      <3> HIDE DEF P, l
      <3>4. v \div (P * Radix) = (v \div P) \div Radix
        BY <3>2, DivTwice, WordFacts
      <3> QED BY <3>2, <3>3, <3>4 DEF P
    <2>7. q % Pow(Radix, (n + 1) + 1) = (((q \div Radix) % Pow(Radix, n + 1)) * Radix) + (q % Radix)
      <3>1. Pow(Radix, n + 1) \in Nat \ {0} /\ Pow(Radix, (n + 1) + 1) = Radix * Pow(Radix, n + 1)
        BY WordFacts
      <3> DEFINE m == Pow(Radix, n + 1)
      <3>2. m \in Nat \ {0} /\ Pow(Radix, (n + 1) + 1) = Radix * m /\ Radix \in Nat \ {0}
        BY <3>1, WordFacts
      <3> HIDE DEF q, m
      <3>3. q % (Radix * m) = (((q \div Radix) % m) * Radix) + (q % Radix)
        BY <2>5, <3>2, DivTwice
      <3> QED BY <3>2, <3>3 DEF m
    <2> QED BY <2>1, <2>3, <2>4, <2>5, <2>6, <2>7
  <1>4. Nat \subseteq Q
    <2> HIDE DEF Q
    <2> QED BY <1>2, <1>3, NumberInduction
  <1>5. ASSUME NEW last \in Positions, first <= last
        PROVE  DigitsValue(word, first, last)
                 = (v \div Pow(Radix, WordLen - last)) % Pow(Radix, (last + 1) - first)
    <2>1. last - first \in Nat /\ first + (last - first) = last /\ last <= WordLen
          /\ (last - first) + 1 = (last + 1) - first
      BY <1>0, <1>5, WordFacts DEF Positions
    <2>2. last - first \in Q
      BY <1>4, <2>1
    <2> QED BY <2>1, <2>2
  <1> QED BY <1>5 DEF word

\* What a word spells.
Spelt(word) == DigitsValue(word, 1, WordLen)

\* A number that fits is written as a word that spells it, and its low digits
\* are what is left of it in a u32.
LEMMA WrittenNumber ==
  ASSUME NEW v \in Nat, v < Pow(Radix, WordLen)
  PROVE  /\ FeBytes(v) \in Words
         /\ Spelt(FeBytes(v)) = v
         /\ Be32ToU32(FeBytes(v)) = v % Pow(Radix, U32Len)
  <1>1. 1 \in Positions /\ WordLen \in Positions /\ 1 <= WordLen /\ WordLen - WordLen = 0
        /\ (WordLen + 1) - 1 = WordLen
    BY WordFacts DEF Positions
  <1>2. v \div Pow(Radix, 0) = v
    BY WordFacts
  <1>3. FeBytes(v) \in Words
    <2>1. ASSUME NEW i \in Positions
          PROVE  (v \div Pow(Radix, WordLen - i)) % Radix \in 0..(Radix - 1)
      <3>1. WordLen - i \in Nat
        BY WordFacts DEF Positions
      <3>2. v \div Pow(Radix, WordLen - i) \in Nat
        BY <3>1, WordFacts, DivMod
      <3>3. \A x \in Nat : x % Radix \in 0..(Radix - 1)
        BY WordFacts, DivMod
      <3> QED BY <3>2, <3>3
    <2> QED BY <2>1 DEF FeBytes, Words
  <1>4. Spelt(FeBytes(v)) = v
    <2>1. Spelt(FeBytes(v)) = v % Pow(Radix, WordLen)
      <3>1. Spelt(FeBytes(v))
              = (v \div Pow(Radix, WordLen - WordLen)) % Pow(Radix, (WordLen + 1) - 1)
        BY <1>1, DigitsOfNumber DEF Spelt
      <3> QED BY <1>1, <1>2, <3>1
    <2> DEFINE P == Pow(Radix, WordLen)
    <2>2. P \in Nat \ {0} /\ v < P
      BY WordFacts
    <2> HIDE DEF P
    <2>3. v % P = v
      BY <2>2
    <2> QED BY <2>1, <2>3 DEF P
  <1>5. Be32ToU32(FeBytes(v)) = v % Pow(Radix, U32Len)
    <2> DEFINE first == WordLen - U32Len + 1
    <2>1. first \in Positions /\ first <= WordLen /\ (WordLen + 1) - first = U32Len
      BY WordFacts DEF Positions
    <2>2. Be32ToU32(FeBytes(v)) = DigitsValue(FeBytes(v), first, WordLen)
      BY DEF Be32ToU32
    <2> HIDE DEF first
    <2>3. Be32ToU32(FeBytes(v))
            = (v \div Pow(Radix, WordLen - WordLen)) % Pow(Radix, (WordLen + 1) - first)
      BY <1>1, <2>1, <2>2, DigitsOfNumber
    <2> QED BY <1>1, <1>2, <2>1, <2>3
  <1> QED BY <1>3, <1>4, <1>5

\* ge_be decides at the first digit that differs; that is to compare the numbers
\* the two words spell.
THEOREM BytewiseIsNumeric ==
  ASSUME NEW a \in Words, NEW b \in Words
  PROVE  /\ Spelt(a) \in Nat /\ Spelt(b) \in Nat
         /\ a = b <=> Spelt(a) = Spelt(b)
         /\ GeBe(a, b) <=> Spelt(a) >= Spelt(b)
  <1> DEFINE A(k) == DigitsValue(a, 1, k)
             B(k) == DigitsValue(b, 1, k)
             Same(k) == \A i \in 1..k : a[i] = b[i]
             Above(k) == \E i \in 1..k : a[i] > b[i] /\ \A j \in 1..(i - 1) : a[j] = b[j]
             Ordered(k) == /\ A(k) \in Nat /\ B(k) \in Nat
                           /\ Same(k) <=> A(k) = B(k)
                           /\ Above(k) <=> A(k) > B(k)
             Q == {k \in Nat : k <= WordLen => Ordered(k)}
  <1>0. \A i \in 1..WordLen : /\ a[i] \in Nat /\ a[i] < Radix
                             /\ b[i] \in Nat /\ b[i] < Radix
    <2>1. /\ a \in [1..WordLen -> 0..(Radix - 1)]
          /\ b \in [1..WordLen -> 0..(Radix - 1)]
      BY DEF Words, Positions
    <2>2. Radix \in Nat
      BY WordFacts
    <2>3. ASSUME NEW i \in 1..WordLen PROVE a[i] \in 0..(Radix - 1) /\ b[i] \in 0..(Radix - 1)
      BY <2>1
    <2> QED BY <2>2, <2>3
  <1>1. \A k \in Nat : k + 1 <= WordLen =>
          /\ A(k) \in Nat /\ A(k + 1) = (A(k) * Radix) + a[k + 1]
          /\ B(k) \in Nat /\ B(k + 1) = (B(k) * Radix) + b[k + 1]
    <2> SUFFICES ASSUME NEW k \in Nat, k + 1 <= WordLen
                 PROVE  /\ A(k) \in Nat /\ A(k + 1) = (A(k) * Radix) + a[k + 1]
                        /\ B(k) \in Nat /\ B(k + 1) = (B(k) * Radix) + b[k + 1]
      OBVIOUS
    <2>1. 1 <= k + 1 /\ (\A i \in 1..(k + 1) : a[i] \in Nat) /\ \A i \in 1..(k + 1) : b[i] \in Nat
      BY <1>0, WordFacts
    <2> QED BY <2>1, DigitStep
  <1>2. 0 \in Q
    <2>1. A(0) = 0 /\ B(0) = 0
      <3>1. 1..0 = {}
        OBVIOUS
      <3> QED BY <3>1, SumEmpty DEF DigitsValue, SumFunction
    <2> HIDE DEF A, B
    <2> QED BY <2>1
  <1>3. ASSUME NEW k \in Nat, k \in Q PROVE k + 1 \in Q
    <2> HIDE DEF Ordered
    <2>a. (k <= WordLen => Ordered(k)) /\ k + 1 \in Nat
      BY <1>3
    <2> SUFFICES ASSUME k + 1 <= WordLen
                 PROVE  Ordered(k + 1)
      BY <2>a
    <2>b. Ordered(k)
      BY <2>a, WordFacts
    <2> USE DEF Ordered
    <2> HIDE DEF A, B
    <2> DEFINE x == a[k + 1]
               y == b[k + 1]
    <2>1. /\ A(k) \in Nat /\ B(k) \in Nat
          /\ Same(k) <=> A(k) = B(k)
          /\ Above(k) <=> A(k) > B(k)
      BY <2>b
    <2>2. A(k + 1) = (A(k) * Radix) + x /\ B(k + 1) = (B(k) * Radix) + y
      BY <1>1
    <2>3. x \in 0..(Radix - 1) /\ y \in 0..(Radix - 1)
      BY <1>0, WordFacts
    <2>4. Same(k + 1) <=> Same(k) /\ x = y
      <3>1. 1..(k + 1) = (1..k) \cup {k + 1}
        OBVIOUS
      <3> QED BY <3>1
    <2>5. Above(k + 1) <=> Above(k) \/ (Same(k) /\ x > y)
      <3>1. 1..(k + 1) = (1..k) \cup {k + 1} /\ (k + 1) - 1 = k
        OBVIOUS
      <3> QED BY <3>1
    <2> HIDE DEF x, y, Same, Above
    <2>6. \A p, q \in Nat : p > q => p * Radix >= (q * Radix) + Radix
      <3>1. \A m, n \in Nat : m >= 1 => m * n >= n
        OBVIOUS
      <3>2. ASSUME NEW p \in Nat, NEW q \in Nat, p > q
            PROVE  p * Radix >= (q * Radix) + Radix
        <4>1. (p - q) * Radix >= Radix
          BY <3>1, <3>2, WordFacts
        <4>2. (p - q) * Radix = (p * Radix) - (q * Radix)
          BY WordFacts
        <4>3. p * Radix \in Nat /\ q * Radix \in Nat
          BY WordFacts
        <4> QED BY <4>1, <4>2, <4>3, WordFacts
      <3> QED BY <3>2
    <2>7. A(k) * Radix \in Nat /\ B(k) * Radix \in Nat
      BY <2>1, WordFacts
    <2>8. CASE A(k) = B(k)
      BY <2>1, <2>2, <2>3, <2>4, <2>5, <2>7, <2>8, WordFacts
    <2>9. CASE A(k) > B(k)
      <3>1. A(k) * Radix >= (B(k) * Radix) + Radix
        BY <2>1, <2>6, <2>9
      <3>2. A(k + 1) > B(k + 1)
        BY <2>2, <2>3, <2>7, <3>1, WordFacts
      <3>3. A(k + 1) \in Nat /\ B(k + 1) \in Nat
        BY <2>2, <2>3, <2>7, WordFacts
      <3> QED BY <2>1, <2>4, <2>5, <2>9, <3>2, <3>3
    <2>10. CASE B(k) > A(k)
      <3>1. B(k) * Radix >= (A(k) * Radix) + Radix
        BY <2>1, <2>6, <2>10
      <3>2. B(k + 1) > A(k + 1)
        BY <2>2, <2>3, <2>7, <3>1, WordFacts
      <3>3. A(k + 1) \in Nat /\ B(k + 1) \in Nat
        BY <2>2, <2>3, <2>7, WordFacts
      <3> QED BY <2>1, <2>4, <2>5, <2>10, <3>2, <3>3
    <2> QED BY <2>1, <2>8, <2>9, <2>10
  <1>4. WordLen \in Q
    <2> HIDE DEF Q
    <2>1. Nat \subseteq Q
      BY <1>2, <1>3, NumberInduction
    <2> QED BY <2>1, WordFacts
  <1>5. Same(WordLen) <=> a = b
    <2>1. a = [i \in 1..WordLen |-> a[i]] /\ b = [i \in 1..WordLen |-> b[i]]
      BY DEF Words, Positions
    <2> QED BY <2>1
  <1>6. GeBe(a, b) <=> a = b \/ Above(WordLen)
    BY DEF GeBe, Positions
  <1>7. Spelt(a) = A(WordLen) /\ Spelt(b) = B(WordLen)
    BY DEF Spelt
  <1> HIDE DEF A, B, Same, Above
  <1>8. Ordered(WordLen)
    BY <1>4, WordFacts
  <1> QED BY <1>5, <1>6, <1>7, <1>8

\* assert_canonical_signals lets through exactly the words below the modulus,
\* and no two of them are the same signal.
THEOREM CanonicalWords ==
  /\ \A word \in Words : IsCanonicalFr(word) <=> Spelt(word) < FieldModulus
  /\ \A u, w \in Words :
       IsCanonicalFr(u) /\ IsCanonicalFr(w) /\ ToFr(u) = ToFr(w) => u = w
  <1>0. FieldModulus \in Nat \ {0} /\ FieldModulus < Pow(Radix, WordLen)
    BY ModulusAssumption, WordWidthAssumption
  <1>1. FeBytes(FieldModulus) \in Words /\ Spelt(FeBytes(FieldModulus)) = FieldModulus
    BY <1>0, WrittenNumber
  <1>2. \A word \in Words : IsCanonicalFr(word) <=> Spelt(word) < FieldModulus
    BY <1>0, <1>1, BytewiseIsNumeric DEF IsCanonicalFr
  <1>3. ASSUME NEW u \in Words, NEW w \in Words, IsCanonicalFr(u), IsCanonicalFr(w),
               ToFr(u) = ToFr(w)
        PROVE  u = w
    <2>1. /\ Spelt(u) \in Nat /\ Spelt(u) < FieldModulus
          /\ Spelt(w) \in Nat /\ Spelt(w) < FieldModulus
      BY <1>2, <1>3, BytewiseIsNumeric
    <2>2. Spelt(u) % FieldModulus = Spelt(u) /\ Spelt(w) % FieldModulus = Spelt(w)
      BY <1>0, <2>1
    <2> QED BY <1>3, <2>2, BytewiseIsNumeric DEF ToFr, Reduce, Spelt
  <1> QED BY <1>2, <1>3

----------------------------------------------------------------------------
(***************************************************************************)
(* The field.                                                              *)
(***************************************************************************)

\* The remainder of an integer is the one number below the modulus that differs
\* from it by a multiple.
LEMMA RemainderUnique ==
  ASSUME NEW d \in Nat \ {0}, NEW q \in Int, NEW r \in 0..(d - 1)
  PROVE  ((q * d) + r) % d = r
  <1> DEFINE v == (q * d) + r
             p == v \div d
             s == v % d
  <1>1. v \in Int /\ q * d \in Int
    OBVIOUS
  <1>2. p \in Int /\ s \in 0..(d - 1) /\ v = (p * d) + s
    <2> HIDE DEF v
    <2> QED BY <1>1
  <1>3. (q - p) * d = s - r
    <2>1. (q - p) * d = (q * d) - (p * d) /\ p * d \in Int
      <3> HIDE DEF p
      <3> QED BY <1>2
    <2>2. (q * d) + r = (p * d) + s
      BY <1>2
    <2> HIDE DEF v, p, s
    <2> QED BY <1>1, <1>2, <2>1, <2>2
  <1> HIDE DEF p, s
  <1>4. q - p = 0
    <2> DEFINE k == q - p
    <2>1. k \in Int /\ k * d = s - r
      BY <1>2, <1>3
    <2> HIDE DEF k
    <2>2. \A a \in Int, b \in Nat \ {0} : (a >= 1 => a * b >= b) /\ (a <= -1 => a * b <= -b)
      OBVIOUS
    <2>3. s - r < d /\ s - r > -d
      BY <1>2
    <2>4. k = 0
      BY <2>1, <2>2, <2>3
    <2> QED BY <2>4 DEF k
  <1>5. s = r
    BY <1>2, <1>3, <1>4
  <1> QED BY <1>5 DEF s

\* Reducing is idempotent, leaves the field alone, and does not see
\* multiples of the modulus.
LEMMA ReduceLaws ==
  /\ \A x \in Int : Reduce(x) \in Field /\ Reduce(x) \in Nat
  /\ \A x \in Field : Reduce(x) = x
  /\ \A x \in Int : \E k \in Int : x = (k * FieldModulus) + Reduce(x)
  /\ \A x \in Int, k \in Int : Reduce(x + (k * FieldModulus)) = Reduce(x)
  <1> DEFINE d == FieldModulus
  <1>1. d \in Nat \ {0}
    BY ModulusAssumption
  <1>2. \A x \in Int : /\ x % d \in 0..(d - 1) /\ x \div d \in Int
                      /\ x = ((x \div d) * d) + (x % d)
    <2> HIDE DEF d
    <2> QED BY <1>1
  <1>3. \A x \in 0..(d - 1) : x % d = x
    <2> HIDE DEF d
    <2> QED BY <1>1
  <1>4. ASSUME NEW x \in Int, NEW k \in Int PROVE (x + (k * d)) % d = x % d
    <2> DEFINE q == x \div d
               r == x % d
    <2>1. q \in Int /\ r \in 0..(d - 1) /\ x = (q * d) + r
      BY <1>2
    <2> HIDE DEF d, q, r
    <2>2. k * d \in Int /\ q * d \in Int /\ (q + k) * d = (q * d) + (k * d)
      BY <1>1, <2>1
    <2>3. x + (k * d) = ((q + k) * d) + r
      BY <2>1, <2>2
    <2>4. q + k \in Int /\ (((q + k) * d) + r) % d = r
      BY <1>1, <2>1, RemainderUnique
    <2> QED BY <2>3, <2>4 DEF r
  <1>5. \A x \in Int : Reduce(x) \in Field /\ Reduce(x) \in Nat
    <2>1. \A x \in Int : x % d \in 0..(d - 1)
      BY <1>2
    <2>2. 0..(d - 1) \subseteq Nat
      OBVIOUS
    <2> QED BY <2>1, <2>2 DEF Reduce, Field
  <1>6. \A x \in Int : \E k \in Int : x = (k * d) + Reduce(x)
    <2>1. \A x \in Int : x \div d \in Int /\ x = ((x \div d) * d) + Reduce(x)
      BY <1>2 DEF Reduce
    <2> HIDE DEF d
    <2> QED BY <2>1
  <1>7. \A x \in Field : Reduce(x) = x
    BY <1>3 DEF Reduce, Field
  <1>8. \A x \in Int, k \in Int : Reduce(x + (k * d)) = Reduce(x)
    <2> HIDE DEF d
    <2>1. \A x \in Int, k \in Int : (x + (k * d)) % d = x % d
      BY <1>4
    <2> QED BY <2>1, Zenon DEF Reduce, d
  <1> QED BY <1>5, <1>6, <1>7, <1>8

\* Field elements are numbers.
LEMMA FieldNumbers == 0 \in Field /\ Field \subseteq Nat /\ Field \subseteq Int
  BY ModulusAssumption DEF Field

\* Sums may be reduced before or after they are added.
LEMMA ReduceSum ==
  ASSUME NEW x \in Int, NEW y \in Int
  PROVE  /\ Reduce(Reduce(x) + y) = Reduce(x + y)
         /\ Reduce(x + Reduce(y)) = Reduce(x + y)
         /\ Reduce(Reduce(x) + Reduce(y)) = Reduce(x + y)
  <1> DEFINE d == FieldModulus
             u == Reduce(x)
             v == Reduce(y)
  <1>0. u \in Int /\ v \in Int /\ d \in Int
    BY ReduceLaws, ModulusAssumption
  <1>1. PICK k \in Int : x = (k * d) + u
    BY ReduceLaws
  <1>2. PICK m \in Int : y = (m * d) + v
    BY ReduceLaws
  <1> HIDE DEF d, u, v
  <1>3. \A a \in Int, b \in Int : Reduce(a + (b * d)) = Reduce(a)
    BY ReduceLaws DEF d
  <1>4. k * d \in Int /\ m * d \in Int /\ (k + m) * d = (k * d) + (m * d) /\ k + m \in Int
    BY <1>0
  <1>5. x + y = (u + y) + (k * d) /\ x + y = (x + v) + (m * d) /\ x + y = (u + v) + ((k + m) * d)
    BY <1>0, <1>1, <1>2, <1>4
  <1>6. u + y \in Int /\ x + v \in Int /\ u + v \in Int
    BY <1>0
  <1>7. /\ Reduce(x + y) = Reduce(u + y)
        /\ Reduce(x + y) = Reduce(x + v)
        /\ Reduce(x + y) = Reduce(u + v)
    BY <1>3, <1>4, <1>5, <1>6
  <1> QED BY <1>7 DEF u, v

----------------------------------------------------------------------------
(***************************************************************************)
(* What an honest page writes is read back, and its proof verifies.        *)
(***************************************************************************)

\* A number below k * d has a quotient below k.
LEMMA QuotientBound ==
  ASSUME NEW v \in Nat, NEW d \in Nat \ {0}, NEW k \in Nat, v < k * d
  PROVE  v \div d < k
  <1> DEFINE q == v \div d
             r == v % d
  <1>1. q \in Nat /\ r \in 0..(d - 1) /\ v = (q * d) + r
    BY DivMod
  <1> HIDE DEF q, r
  <1>2. q * d \in Nat /\ k * d \in Nat /\ q * d < k * d
    BY <1>1
  <1>3. \A i, j \in Nat : i <= j => i * d <= j * d
    OBVIOUS
  <1>4. q < k
    BY <1>1, <1>2, <1>3
  <1> QED BY <1>4 DEF q

\* be32_to_i128 reads a number whose double fits its digits.
LEMMA ReserveIsRead ==
  ASSUME NEW v \in Nat, 2 * v < Pow(Radix, HalfLen)
  PROVE  v < Pow(Radix, WordLen) /\ Be32ToI128(FeBytes(v)) = v
  <1> DEFINE word == FeBytes(v)
             first == (WordLen - HalfLen) + 1
             top == Pow(Radix, HalfLen)
             below == Pow(Radix, HalfLen - 1)
             half == Radix \div 2
  <1>1. /\ Radix \in Nat \ {0} /\ Radix > 1 /\ Radix % 2 = 0
        /\ WordLen \in Nat /\ HalfLen \in 1..WordLen /\ HalfLen - 1 \in Nat
        /\ WordLen - HalfLen \in Nat /\ first \in Positions
    BY WordWidthAssumption DEF Positions
  <1>2. /\ top \in Nat \ {0} /\ below \in Nat \ {0} /\ top = Radix * below
    <2>1. (HalfLen - 1) + 1 = HalfLen
      BY <1>1
    <2> QED BY <1>1, <2>1, WordFacts
  <1>3. half \in Nat /\ Radix = 2 * half
    <2>1. half \in Nat /\ Radix = (half * 2) + (Radix % 2)
      BY <1>1, DivMod
    <2> QED BY <1>1, <2>1
  <1>4. v < top
    BY <1>2
  <1>5. \A k \in Nat : top <= Pow(Radix, HalfLen + k)
    BY <1>1, PowGrows
  <1>6. v < Pow(Radix, WordLen)
    <2>1. HalfLen + (WordLen - HalfLen) = WordLen
      BY <1>1
    <2>2. top <= Pow(Radix, WordLen)
      BY <1>1, <1>5, <2>1
    <2>3. Pow(Radix, WordLen) \in Nat
      BY <1>1, WordFacts
    <2> HIDE DEF top
    <2> QED BY <1>2, <1>4, <2>2, <2>3
  <1>7. ASSUME NEW i \in 1..(WordLen - HalfLen) PROVE word[i] = 0
    <2> DEFINE d == Pow(Radix, WordLen - i)
    <2>1. WordLen - i \in Nat /\ (WordLen - i) - HalfLen \in Nat
          /\ HalfLen + ((WordLen - i) - HalfLen) = WordLen - i
          /\ i \in Positions
      BY <1>1 DEF Positions
    <2>2. d \in Nat \ {0} /\ top <= d
      BY <1>5, <2>1, WordFacts
    <2>3. word[i] = (v \div d) % Radix
      BY <2>1 DEF FeBytes
    <2> HIDE DEF d, top
    <2>4. v < 1 * d
      BY <1>2, <1>4, <2>2
    <2>5. v \div d < 1 /\ v \div d \in Nat
      BY <2>2, <2>4, QuotientBound, DivMod
    <2>6. v \div d = 0
      BY <2>5
    <2>7. 0 % Radix = 0
      BY <1>1
    <2> QED BY <2>3, <2>6, <2>7
  <1>8. word[first] < half
    <2>1. WordLen - first = HalfLen - 1
      BY <1>1
    <2>2. word[first] = (v \div below) % Radix
      BY <1>1, <2>1 DEF FeBytes
    <2> DEFINE q == v \div below
    <2>3. q < half /\ q \in Nat
      <3>1. v < half * below
        <4> HIDE DEF top, below, half
        <4>1. top = 2 * (half * below) /\ half * below \in Nat
          BY <1>2, <1>3
        <4>2. 2 * v < top
          BY DEF top
        <4> QED BY <4>1, <4>2
      <3> HIDE DEF below, half
      <3> QED BY <1>2, <1>3, <3>1, QuotientBound, DivMod
    <2> HIDE DEF q, half
    <2>4. q % Radix = q
      <3>1. q \in 0..(Radix - 1)
        BY <1>1, <1>3, <2>3
      <3> QED BY <1>1, <3>1
    <2> QED BY <2>2, <2>3, <2>4 DEF q
  <1>9. DigitsValue(word, first, WordLen) = v
    <2>1. DigitsValue(word, first, WordLen)
            = (v \div Pow(Radix, WordLen - WordLen)) % Pow(Radix, (WordLen + 1) - first)
      <3>1. WordLen \in Positions /\ first <= WordLen
        BY <1>1 DEF Positions
      <3> HIDE DEF first
      <3> QED BY <1>1, <3>1, DigitsOfNumber
    <2>2. WordLen - WordLen = 0 /\ (WordLen + 1) - first = HalfLen /\ Pow(Radix, 0) = 1
      BY <1>1, WordFacts
    <2>3. DigitsValue(word, first, WordLen) = (v \div 1) % top
      BY <2>1, <2>2
    <2>4. v \div 1 = v
      OBVIOUS
    <2> HIDE DEF top, word, first
    <2>5. v % top = v
      <3>1. v \in 0..(top - 1)
        BY <1>2, <1>4
      <3> QED BY <1>2, <3>1
    <2> QED BY <2>3, <2>4, <2>5
  <1>10. word[first] \in Nat /\ ~(word[first] >= half)
    <2>1. word[first] \in 0..(Radix - 1)
      <3>1. word \in Words
        BY <1>6, WrittenNumber
      <3> HIDE DEF word, first
      <3> QED BY <1>1, <3>1 DEF Words
    <2>2. word[first] \in Nat
      <3> HIDE DEF word, first
      <3> QED BY <1>1, <2>1
    <2> HIDE DEF word, first, half
    <2> QED BY <1>3, <1>8, <2>2
  <1>11. Be32ToI128(word) = v
    <2> HIDE DEF word, half
    <2> QED BY <1>7, <1>9, <1>10 DEF Be32ToI128, half
  <1> QED BY <1>6, <1>11

\* The sum of the prover is the sum of the contract: a term of its own and one for
\* each input, under the ic point one place later.
LEMMA InputsSum ==
  ASSUME NEW ic \in Seq(Field), NEW s \in Seq(Field), Len(ic) = Len(s) + 1
  PROVE  LET f == [i \in DOMAIN ic |-> ic[i] * (IF i = 1 THEN 1 ELSE s[i - 1])]
             g == [i \in DOMAIN s |-> s[i] * ic[i + 1]]
         IN /\ SumFunction(g) \in Int
            /\ SumFunction(f) = ic[1] + SumFunction(g)
  <1> DEFINE n == Len(s)
             S == 1..n
             T == 1..(n + 1)
             f == [i \in DOMAIN ic |-> ic[i] * (IF i = 1 THEN 1 ELSE s[i - 1])]
             g == [i \in DOMAIN s |-> s[i] * ic[i + 1]]
             r == [i \in S |-> i + 1]
  <1>1. n \in Nat /\ DOMAIN s = S /\ DOMAIN ic = T
    OBVIOUS
  <1>2. IsFiniteSet(S) /\ IsFiniteSet(T)
    BY <1>1, FS_Interval
  <1>0. (\A i \in S : s[i] \in Field) /\ (\A i \in T : ic[i] \in Field)
    BY <1>1
  <1>3. \A i \in S : s[i] \in Int /\ ic[i + 1] \in Int
    <2> SUFFICES ASSUME NEW i \in S PROVE s[i] \in Int /\ ic[i + 1] \in Int
      OBVIOUS
    <2>1. i + 1 \in T
      BY <1>1
    <2> HIDE DEF S, T
    <2> QED BY <1>0, <2>1, FieldNumbers
  <1>4. ic[1] \in Int /\ 1 \in T
    <2>1. 1 \in T
      BY <1>1
    <2> HIDE DEF T
    <2> QED BY <1>0, <2>1, FieldNumbers
  <1>5. \A i \in S : g[i] = s[i] * ic[i + 1] /\ g[i] \in Int
    BY <1>1, <1>3
  <1>6. f[1] = ic[1]
    BY <1>1, <1>4
  <1>7. ASSUME NEW i \in S PROVE f[i + 1] = g[i] /\ r[i] = i + 1 /\ i + 1 \in T /\ i + 1 # 1
    <2>1. i + 1 \in T /\ i + 1 # 1 /\ (i + 1) - 1 = i
      BY <1>1
    <2>2. f[i + 1] = ic[i + 1] * s[i]
      BY <1>1, <2>1
    <2> QED BY <1>3, <1>5, <2>1, <2>2
  <1>8. {r[i] : i \in S} = T \ {1}
    <2>1. ASSUME NEW j \in T \ {1} PROVE \E i \in S : r[i] = j
      <3>1. j - 1 \in S /\ r[j - 1] = j
        BY <1>1, <2>1
      <3> QED BY <3>1
    <2>2. ASSUME NEW i \in S PROVE r[i] \in T \ {1}
      BY <1>7
    <2> HIDE DEF r, S, T
    <2> QED BY <2>1, <2>2
  <1>9. SumFunctionOnSet(f, T \ {1}) = SumFunctionOnSet(g, S)
    <2>1. \A x, y \in S : r[x] = r[y] => x = y
      BY <1>1
    <2>2. \A x \in S : g[x] \in Int /\ f[r[x]] = g[x]
      BY <1>5, <1>7
    <2> HIDE DEF f, g, r, S, T
    <2>3. SumFunctionOnSet(f, {r[x] : x \in S}) = SumFunctionOnSet(g, S)
      BY ONLY <1>2, <2>1, <2>2, SumImage
    <2> QED BY <1>8, <2>3
  <1>10. \A i \in T : f[i] \in Int
    <2> SUFFICES ASSUME NEW i \in T PROVE f[i] \in Int
      OBVIOUS
    <2>1. CASE i = 1
      BY <1>4, <1>6, <2>1
    <2>2. CASE i # 1
      <3>1. i - 1 \in S /\ (i - 1) + 1 = i
        BY <1>1, <2>2
      <3>2. f[(i - 1) + 1] = g[i - 1]
        BY <1>7, <3>1
      <3> QED BY <1>5, <3>1, <3>2
    <2> QED BY <2>1, <2>2
  <1>11. DOMAIN f = T /\ DOMAIN g = S
    BY <1>1
  <1> HIDE DEF f, g, S, T
  <1>12. SumFunctionOnSet(f, T) = f[1] + SumFunctionOnSet(f, T \ {1})
    BY <1>2, <1>4, <1>10, SumTakeOut
  <1>13. SumFunctionOnSet(g, S) \in Int
    BY <1>2, <1>5, SumType
  <1>14. SumFunction(f) = ic[1] + SumFunction(g) /\ SumFunction(g) \in Int
    BY <1>6, <1>9, <1>11, <1>12, <1>13 DEF SumFunction
  <1> QED BY <1>14 DEF f, g

\* The host reads the eight coordinates of a proof where the page wrote them, and so
\* that proof and no other.
LEMMA ProofIsRead ==
  ASSUME NEW a, NEW b, NEW c
  PROVE  LET p == [a |-> a, b |-> b, c |-> c] IN ProofFromBytes(ProofToBytes(p)) = {p}
  <1> DEFINE p == [a |-> a, b |-> b, c |-> c]
             raw == ProofToBytes(p)
             A == G1Bytes(a)
             B == G2Bytes(b)
             C == G1Bytes(c)
             X == {A[i] : i \in 1..2} \cup {B[i] : i \in 1..4} \cup {C[i] : i \in 1..2}
  <1>1. /\ A = HostG1(a) /\ B = HostG2(b) /\ C = HostG1(c)
        /\ DOMAIN A = 1..2 /\ DOMAIN B = 1..4 /\ DOMAIN C = 1..2
        /\ A[1][2] = a /\ B[1][2] = b /\ C[1][2] = c
    BY DEF G1Bytes, G2Bytes, HostG1, HostG2
  <1>2. raw = (A \o B) \o C
    BY DEF ProofToBytes
  <1>0. /\ A = <<A[1], A[2]>> /\ C = <<C[1], C[2]>> /\ B = <<B[1], B[2], B[3], B[4]>>
    BY DEF G1Bytes, G2Bytes
  <1> HIDE DEF A, B, C, raw
  <1>3. A \in Seq(X) /\ Len(A) = 2 /\ B \in Seq(X) /\ Len(B) = 4 /\ C \in Seq(X) /\ Len(C) = 2
    <2>1. /\ A[1] \in X /\ A[2] \in X /\ C[1] \in X /\ C[2] \in X
          /\ B[1] \in X /\ B[2] \in X /\ B[3] \in X /\ B[4] \in X
      OBVIOUS
    <2> HIDE DEF X
    <2>2. A \in Seq(X) /\ Len(A) = 2
      <3>1. <<A[1], A[2]>> \in Seq(X) /\ Len(<<A[1], A[2]>>) = 2
        BY <2>1
      <3> QED BY <1>0, <3>1
    <2>3. C \in Seq(X) /\ Len(C) = 2
      <3>1. <<C[1], C[2]>> \in Seq(X) /\ Len(<<C[1], C[2]>>) = 2
        BY <2>1
      <3> QED BY <1>0, <3>1
    <2>4. B \in Seq(X) /\ Len(B) = 4
      <3>1. <<B[1], B[2], B[3], B[4]>> \in Seq(X) /\ Len(<<B[1], B[2], B[3], B[4]>>) = 4
        BY <2>1
      <3> QED BY <1>0, <3>1
    <2> QED BY <2>2, <2>3, <2>4
  <1> HIDE DEF X
  <1>4. /\ A \o B \in Seq(X) /\ Len(A \o B) = 6
        /\ \A i \in 1..6 : (A \o B)[i] = IF i <= 2 THEN A[i] ELSE B[i - 2]
    <2>1. /\ A \o B \in Seq(X) /\ Len(A \o B) = Len(A) + Len(B)
          /\ \A i \in 1..(Len(A) + Len(B)) :
               (A \o B)[i] = IF i <= Len(A) THEN A[i] ELSE B[i - Len(A)]
      BY <1>3, ConcatProperties
    <2>2. Len(A) + Len(B) = 6
      BY <1>3
    <2> QED BY <1>3, <2>1, <2>2
  <1>5. /\ raw \in Seq(X) /\ Len(raw) = 8
        /\ \A i \in 1..8 : raw[i] = IF i <= 6 THEN (A \o B)[i] ELSE C[i - 6]
    <2> DEFINE D == A \o B
    <2>0. D \in Seq(X) /\ Len(D) = 6 /\ raw = D \o C
      BY <1>2, <1>4
    <2> HIDE DEF D
    <2>1. /\ D \o C \in Seq(X) /\ Len(D \o C) = Len(D) + Len(C)
          /\ \A i \in 1..(Len(D) + Len(C)) :
               (D \o C)[i] = IF i <= Len(D) THEN D[i] ELSE C[i - Len(D)]
      BY <1>3, <2>0, ConcatProperties
    <2>2. Len(D) + Len(C) = 8
      BY <1>3, <2>0
    <2> QED BY <1>3, <2>0, <2>1, <2>2 DEF D
  <1>6. /\ raw[1] = A[1] /\ raw[2] = A[2]
        /\ raw[3] = B[1] /\ raw[4] = B[2] /\ raw[5] = B[3] /\ raw[6] = B[4]
        /\ raw[7] = C[1] /\ raw[8] = C[2]
    <2> DEFINE D == A \o B
    <2>1. /\ D[1] = A[1] /\ D[2] = A[2]
          /\ D[3] = B[1] /\ D[4] = B[2] /\ D[5] = B[3] /\ D[6] = B[4]
      BY <1>4
    <2>2. \A i \in 1..8 : raw[i] = IF i <= 6 THEN D[i] ELSE C[i - 6]
      BY <1>5
    <2> HIDE DEF D
    <2>3. /\ raw[1] = D[1] /\ raw[2] = D[2] /\ raw[3] = D[3] /\ raw[4] = D[4]
          /\ raw[5] = D[5] /\ raw[6] = D[6] /\ raw[7] = C[1] /\ raw[8] = C[2]
      BY <2>2
    <2> QED BY <2>1, <2>3
  <1>7. /\ SubSeq(raw, 1, 2) = <<raw[1], raw[2]>>
        /\ SubSeq(raw, 3, 6) = <<raw[3], raw[4], raw[5], raw[6]>>
        /\ SubSeq(raw, 7, 8) = <<raw[7], raw[8]>>
    <2>0. raw \in Seq(X) /\ Len(raw) = 8
      BY <1>5
    <2>1. \A i \in 1..8 : raw[i] \in X
      <3>1. \A t \in Seq(X) : \A i \in 1..Len(t) : t[i] \in X
        OBVIOUS
      <3> QED BY <2>0, <3>1
    <2>2. \A t \in Seq(X) : /\ Len(t) = 2 => t = <<t[1], t[2]>>
                            /\ Len(t) = 4 => t = <<t[1], t[2], t[3], t[4]>>
      OBVIOUS
    <2>3. /\ SubSeq(raw, 1, 2) \in Seq(X) /\ Len(SubSeq(raw, 1, 2)) = 2
          /\ SubSeq(raw, 1, 2)[1] = raw[1] /\ SubSeq(raw, 1, 2)[2] = raw[2]
      <3>1. \A i \in 1..2 : raw[i] \in X
        BY <2>1
      <3> QED BY <3>1, SubSeqProperties
    <2>4. /\ SubSeq(raw, 3, 6) \in Seq(X) /\ Len(SubSeq(raw, 3, 6)) = 4
          /\ SubSeq(raw, 3, 6)[1] = raw[3] /\ SubSeq(raw, 3, 6)[2] = raw[4]
          /\ SubSeq(raw, 3, 6)[3] = raw[5] /\ SubSeq(raw, 3, 6)[4] = raw[6]
      <3>1. \A i \in 3..6 : raw[i] \in X
        BY <2>1
      <3> QED BY <3>1, SubSeqProperties
    <2>5. /\ SubSeq(raw, 7, 8) \in Seq(X) /\ Len(SubSeq(raw, 7, 8)) = 2
          /\ SubSeq(raw, 7, 8)[1] = raw[7] /\ SubSeq(raw, 7, 8)[2] = raw[8]
      <3>1. \A i \in 7..8 : raw[i] \in X
        BY <2>1
      <3> QED BY <3>1, SubSeqProperties
    <2> QED BY <2>2, <2>3, <2>4, <2>5
  <1>8. SubSeq(raw, 1, 2) = A /\ SubSeq(raw, 3, 6) = B /\ SubSeq(raw, 7, 8) = C
    BY <1>0, <1>6, <1>7
  <1>9. p.a = a /\ p.b = b /\ p.c = c
    OBVIOUS
  <1>10. raw[1][2] = a /\ raw[3][2] = b /\ raw[7][2] = c
    BY <1>1, <1>6
  <1>11. p \in [a : {raw[1][2]}, b : {raw[3][2]}, c : {raw[7][2]}]
    BY <1>10
  <1>13. ASSUME NEW q \in [a : {raw[1][2]}, b : {raw[3][2]}, c : {raw[7][2]}]
         PROVE  q = p
    BY <1>10
  <1> HIDE DEF p
  <1>12. p \in ProofFromBytes(raw)
    BY <1>1, <1>8, <1>9, <1>11 DEF ProofFromBytes
  <1>14. \A q \in ProofFromBytes(raw) : q = p
    BY <1>13 DEF ProofFromBytes
  <1> QED BY <1>12, <1>14 DEF p, raw

\* There is a third point for whatever the prover draws: delta has an inverse.
LEMMA ThirdPoint ==
  ASSUME NEW x \in Int, NEW y \in Int, NEW delta \in Field, NEW inverse \in Field,
         Reduce(delta * inverse) = 1
  PROVE  \E c \in Field : Reduce(y) = Reduce(x + c * delta)
  <1> DEFINE r == FieldModulus
             d == y - x
             c == Reduce(d * inverse)
  <1>1. delta \in Int /\ inverse \in Int /\ r \in Int /\ d \in Int
        /\ delta * inverse \in Int /\ d * inverse \in Int
    BY FieldNumbers, ModulusAssumption
  <1>2. PICK m \in Int : delta * inverse = (m * r) + 1
    BY <1>1, ReduceLaws
  <1>3. c \in Field /\ c \in Int /\ \E k \in Int : d * inverse = (k * r) + c
    <2> DEFINE z == d * inverse
    <2>1. z \in Int
      BY <1>1
    <2> HIDE DEF z
    <2>2. Reduce(z) \in Field /\ \E k \in Int : z = (k * r) + Reduce(z)
      BY <2>1, ReduceLaws
    <2> QED BY <2>2, FieldNumbers DEF z
  <1>4. PICK k \in Int : d * inverse = (k * r) + c
    BY <1>3
  <1> HIDE DEF r, c, d
  <1> DEFINE e == (d * m) - (k * delta)
  <1>5. e \in Int
    BY <1>1
  <1>6. c * delta = d + (e * r)
    <2>1. c = (d * inverse) - (k * r)
      BY <1>1, <1>3, <1>4
    <2>2. c * delta = (d * (delta * inverse)) - ((k * delta) * r)
      BY <1>1, <2>1
    <2>3. d * (delta * inverse) = (d * (m * r)) + d
      BY <1>1, <1>2
    <2>4. (d * (m * r)) - ((k * delta) * r) = e * r
      BY <1>1
    <2> QED BY <1>1, <1>3, <1>5, <2>2, <2>3, <2>4
  <1> HIDE DEF e
  <1>7. x + c * delta = y + (e * r)
    BY <1>1, <1>3, <1>5, <1>6 DEF d
  <1>8. Reduce(y + (e * r)) = Reduce(y)
    BY <1>5, ReduceLaws DEF r
  <1> QED BY <1>3, <1>7, <1>8

\* The contract accepts the proof of an honest prover for its own signals.
THEOREM HonestProofVerifies ==
  ASSUME NEW vk, NEW s \in Seq(Field), NEW a \in Field, NEW b \in Field, NEW inverse \in Field,
         vk.alpha \in Field, vk.beta \in Field, vk.gamma \in Field, vk.delta \in Field,
         vk.ic \in Seq(Field), Len(vk.ic) = Len(s) + 1,
         Reduce(vk.delta * inverse) = 1
  PROVE  LET p == Groth16Prove(vk, s, a, b)
         IN /\ p = [a |-> a, b |-> b, c |-> p.c] /\ p.c \in Field
            /\ Groth16Verify(vk, p, s)
  <1> DEFINE ic == vk.ic
             f == [i \in DOMAIN ic |-> ic[i] * (IF i = 1 THEN 1 ELSE s[i - 1])]
             g == [i \in DOMAIN s |-> s[i] * ic[i + 1]]
             v == Reduce(SumFunction(f))
             x == vk.alpha * vk.beta + v * vk.gamma
             y == a * b
             p == Groth16Prove(vk, s, a, b)
             P(c) == Reduce(y) = Reduce(x + c * vk.delta)
  <1>1. SumFunction(g) \in Int /\ SumFunction(f) = ic[1] + SumFunction(g)
    BY InputsSum
  <1>2. ic[1] \in Int
    <2>1. ic[1] \in Field
      OBVIOUS
    <2> QED BY <2>1, FieldNumbers
  <1>3. SumFunction(f) \in Int /\ VkX(vk, s) = v
    <2> HIDE DEF f
    <2>1. VkX(vk, s) = Reduce(ic[1] + SumFunction(g))
      BY DEF VkX
    <2> HIDE DEF g, ic
    <2> QED BY <1>1, <1>2, <2>1
  <1>4. p = [a |-> a, b |-> b, c |-> CHOOSE c \in Field : P(c)]
    BY DEF Groth16Prove
  <1>5. p.a = a /\ p.b = b /\ p.c = CHOOSE c \in Field : P(c)
    BY <1>4
  <1>6. v \in Int
    <2> HIDE DEF f
    <2> QED BY <1>3, ReduceLaws, FieldNumbers
  <1>0. /\ vk.alpha \in Int /\ vk.beta \in Int /\ vk.gamma \in Int /\ vk.delta \in Int
        /\ a \in Int /\ b \in Int
    BY FieldNumbers
  <1>7. x \in Int /\ y \in Int
    <2> HIDE DEF v
    <2> QED BY <1>0, <1>6
  <1> HIDE DEF x, y, v, p
  <1>8. \E c \in Field : P(c)
    <2> DEFINE delta == vk.delta
    <2>1. delta \in Field /\ Reduce(delta * inverse) = 1
      OBVIOUS
    <2> HIDE DEF delta
    <2>2. \E c \in Field : Reduce(y) = Reduce(x + c * delta)
      BY <1>7, <2>1, ThirdPoint
    <2> QED BY <2>2 DEF delta
  <1>9. p.c \in Field /\ P(p.c)
    <2> HIDE DEF P
    <2> QED BY <1>5, <1>8
  <1> DEFINE z == x + p.c * vk.delta
  <1>10. z \in Int /\ Reduce(y) = Reduce(z)
    <2>1. p.c \in Int
      BY <1>9, FieldNumbers
    <2> QED BY <1>0, <1>7, <1>9, <2>1
  <1>11. Reduce(z - y) = 0
    <2> HIDE DEF z
    <2>1. PICK k \in Int : z = (k * FieldModulus) + Reduce(z)
      BY <1>10, ReduceLaws
    <2>2. PICK m \in Int : y = (m * FieldModulus) + Reduce(y)
      BY <1>7, ReduceLaws
    <2>3. z - y = 0 + ((k - m) * FieldModulus)
      <3> DEFINE q == Reduce(y)
      <3>1. q \in Int /\ Reduce(z) = q /\ FieldModulus \in Int
        BY <1>7, <1>10, ReduceLaws, FieldNumbers, ModulusAssumption
      <3> HIDE DEF q
      <3>2. z = (k * FieldModulus) + q /\ y = (m * FieldModulus) + q
        BY <2>1, <2>2, <3>1 DEF q
      <3> QED BY <3>1, <3>2
    <2>4. k - m \in Int /\ 0 \in Int /\ 0 \in Field
      BY FieldNumbers
    <2>5. Reduce(0 + ((k - m) * FieldModulus)) = Reduce(0) /\ Reduce(0) = 0
      BY <2>4, ReduceLaws
    <2> QED BY <2>3, <2>5
  <1>12. PairingCheck(vk, p, VkX(vk, s))
    <2>1. vk.alpha * vk.beta + v * vk.gamma + p.c * vk.delta - p.a * p.b = z - y
      <3>1. p.c \in Int
        BY <1>9, FieldNumbers
      <3> DEFINE u == vk.alpha * vk.beta
                 m == v * vk.gamma
                 k == p.c * vk.delta
      <3>2. u \in Int /\ m \in Int /\ k \in Int /\ y \in Int
        <4>1. \A i, j \in Int : i * j \in Int
          OBVIOUS
        <4>2. u \in Int
          BY <1>0, <4>1
        <4>3. m \in Int
          BY <1>0, <1>6, <4>1
        <4>4. k \in Int
          BY <1>0, <3>1, <4>1
        <4> QED BY <1>7, <4>2, <4>3, <4>4
      <3>3. x = u + m /\ z = x + k /\ p.a * p.b = y
        BY <1>5 DEF x, y
      <3> HIDE DEF u, m, k, z
      <3>4. u + m + k - p.a * p.b = z - y
        BY <3>2, <3>3
      <3> QED BY <3>4 DEF u, m, k
    <2> QED BY <1>3, <1>11, <2>1 DEF PairingCheck
  <1>13. Groth16Verify(vk, p, s)
    BY <1>12 DEF Groth16Verify
  <1> QED BY <1>4, <1>5, <1>9, <1>13 DEF p

----------------------------------------------------------------------------
(***************************************************************************)
(* What the Groth16 equation binds.                                        *)
(***************************************************************************)

\* A product that vanishes in the field has a factor that does.
LEMMA NoZeroDivisors ==
  ASSUME NEW x \in Int, NEW y \in Field, y # 0, Reduce(x * y) = 0
  PROVE  Reduce(x) = 0
  <1> DEFINE r == FieldModulus
             u == Reduce(x)
  <1>1. u \in Field /\ u \in Int /\ y \in Int /\ r \in Int /\ u * y \in Int
    <2>1. u \in Field /\ u \in Int
      BY ReduceLaws, FieldNumbers
    <2>2. y \in Int /\ r \in Int
      BY FieldNumbers, ModulusAssumption
    <2> HIDE DEF u, r
    <2> QED BY <2>1, <2>2
  <1>2. PICK k \in Int : x = (k * r) + u
    BY ReduceLaws
  <1> HIDE DEF r, u
  <1>3. x * y = (u * y) + ((k * y) * r)
    <2>1. ((k * r) + u) * y = (u * y) + ((k * y) * r)
      BY <1>1
    <2> QED BY <1>2, <2>1
  <1>4. k * y \in Int
    BY <1>1
  <1>5. Reduce(x * y) = Reduce(u * y)
    <2> DEFINE z == u * y
               m == k * y
    <2>1. z \in Int /\ m \in Int /\ x * y = z + (m * r)
      BY <1>1, <1>3, <1>4
    <2> HIDE DEF z, m
    <2>2. Reduce(z + (m * r)) = Reduce(z)
      BY <2>1, ReduceLaws DEF r
    <2> QED BY <2>1, <2>2 DEF z
  <1> QED BY <1>1, <1>5, PrimeAssumption DEF u

\* Field elements whose difference vanishes are equal, and numbers with the same
\* residue have a difference that vanishes.
LEMMA SameResidue ==
  /\ \A x, y \in Field : Reduce(x - y) = 0 => x = y
  /\ \A x, y \in Int : Reduce(x) = Reduce(y) <=> Reduce(x - y) = 0
  <1> DEFINE r == FieldModulus
  <1>0. r \in Nat \ {0} /\ 0 \in Field
    BY ModulusAssumption, FieldNumbers
  <1>1. ASSUME NEW x \in Int, NEW y \in Int
        PROVE  Reduce(x) = Reduce(y) <=> Reduce(x - y) = 0
    <2> DEFINE u == Reduce(x)
               v == Reduce(y)
    <2>1. u \in Field /\ v \in Field /\ u \in Int /\ v \in Int
      BY ReduceLaws, FieldNumbers
    <2>2. PICK k \in Int : x = (k * r) + u
      BY ReduceLaws
    <2>3. PICK m \in Int : y = (m * r) + v
      BY ReduceLaws
    <2>4. PICK n \in Int : x - y = (n * r) + Reduce(x - y)
      BY ReduceLaws
    <2> DEFINE w == Reduce(x - y)
    <2>5. w \in Int
      BY ReduceLaws
    <2>6. k - m \in Int /\ n + m \in Int
      OBVIOUS
    <2>7. ASSUME u = v PROVE w = 0
      <3> HIDE DEF r, u, v
      <3>1. x - y = 0 + ((k - m) * r)
        BY <1>0, <2>1, <2>2, <2>3, <2>7
      <3> DEFINE i == k - m
      <3>2. Reduce(0 + (i * r)) = 0
        <4>1. i \in Int /\ 0 \in Int
          BY <2>6
        <4> HIDE DEF i
        <4>2. Reduce(0 + (i * r)) = Reduce(0)
          BY <4>1, ReduceLaws DEF r
        <4> QED BY <1>0, <4>2, ReduceLaws
      <3> QED BY <3>1, <3>2
    <2>8. ASSUME w = 0 PROVE u = v
      <3> HIDE DEF r, u, v
      <3>1. x = v + ((n + m) * r)
        <4>1. x - y = n * r
          BY <1>0, <2>4, <2>8 DEF w
        <4>2. x = (n * r) + ((m * r) + v)
          BY <1>0, <2>1, <2>3, <4>1
        <4> QED BY <1>0, <2>1, <4>2
      <3>2. Reduce(v + ((n + m) * r)) = Reduce(v) /\ Reduce(v) = v
        BY <2>1, <2>6, ReduceLaws DEF r
      <3> QED BY <3>1, <3>2 DEF u
    <2> QED BY <2>7, <2>8
  <1>2. ASSUME NEW x \in Field, NEW y \in Field, Reduce(x - y) = 0 PROVE x = y
    <2>1. x \in Int /\ y \in Int /\ Reduce(x) = x /\ Reduce(y) = y
      BY FieldNumbers, ReduceLaws
    <2> QED BY <1>1, <1>2, <2>1
  <1> QED BY <1>1, <1>2

\* Two vectors of inputs that satisfy the equation of one proof have one vk_x.
LEMMA OneVkX ==
  ASSUME NEW vk, NEW p, NEW u, NEW v,
         vk.alpha \in Field, vk.beta \in Field, vk.gamma \in Field, vk.delta \in Field,
         vk.gamma # 0, p.a \in Field, p.b \in Field, p.c \in Field,
         u \in Field, v \in Field,
         PairingCheck(vk, p, u), PairingCheck(vk, p, v)
  PROVE  u = v
  <1> DEFINE g == vk.gamma
             e == vk.alpha * vk.beta + p.c * vk.delta - p.a * p.b
  <1>1. u \in Int /\ v \in Int /\ g \in Int /\ g \in Field /\ g # 0
    BY FieldNumbers
  <1>2. e \in Int
    <2>1. \A i, j \in Int : i * j \in Int
      OBVIOUS
    <2>2. vk.alpha * vk.beta \in Int /\ p.c * vk.delta \in Int /\ p.a * p.b \in Int
      BY <2>1, FieldNumbers
    <2> QED BY <2>2
  <1>3. ASSUME NEW x \in Int, PairingCheck(vk, p, x) PROVE Reduce(x * g + e) = 0
    <2> DEFINE i == vk.alpha * vk.beta
               j == p.c * vk.delta
               k == p.a * p.b
               h == x * vk.gamma
    <2>1. i \in Int /\ j \in Int /\ k \in Int /\ h \in Int
      <3>1. \A y, z \in Int : y * z \in Int
        OBVIOUS
      <3> QED BY <3>1, FieldNumbers
    <2>2. Reduce(i + h + j - k) = 0
      BY <1>3 DEF PairingCheck
    <2>3. x * g + e = h + (i + j - k)
      OBVIOUS
    <2> HIDE DEF i, j, k, h
    <2>4. i + h + j - k = h + (i + j - k)
      BY <2>1
    <2> QED BY <2>2, <2>3, <2>4
  <1>4. Reduce(u * g + e) = 0 /\ Reduce(v * g + e) = 0
    BY <1>1, <1>3
  <1> HIDE DEF g, e
  <1>5. Reduce((u - v) * g) = 0
    <2>1. u * g \in Int /\ v * g \in Int
      BY <1>1
    <2> DEFINE x == u * g + e
               y == v * g + e
    <2>2. x \in Int /\ y \in Int /\ x - y = (u - v) * g
      BY <1>1, <1>2, <2>1
    <2>3. Reduce(x) = Reduce(y)
      BY <1>4
    <2> HIDE DEF x, y
    <2>4. Reduce(x - y) = 0
      BY <2>2, <2>3, SameResidue
    <2> QED BY <2>2, <2>4
  <1>6. u - v \in Int
    BY <1>1
  <1>7. Reduce(u - v) = 0
    BY <1>1, <1>5, <1>6, NoZeroDivisors
  <1> QED BY <1>7, SameResidue

\* The same of any two integers.
LEMMA NoZeroFactors ==
  ASSUME NEW x \in Int, NEW y \in Int, Reduce(x * y) = 0
  PROVE  Reduce(x) = 0 \/ Reduce(y) = 0
  <1> DEFINE v == Reduce(y)
  <1>1. v \in Field /\ v \in Int
    BY ReduceLaws, FieldNumbers
  <1>2. PICK k \in Int : y = (k * FieldModulus) + v
    BY ReduceLaws
  <1>3. FieldModulus \in Int
    BY ModulusAssumption
  <1> HIDE DEF v
  <1> DEFINE m == x * k
             z == x * v
  <1>4. m \in Int /\ z \in Int
    BY <1>1
  <1>5. x * y = z + (m * FieldModulus)
    <2>1. x * ((k * FieldModulus) + v) = (x * v) + ((x * k) * FieldModulus)
      BY <1>1, <1>3
    <2> QED BY <1>2, <2>1
  <1>6. Reduce(z) = 0
    <2> HIDE DEF m, z
    <2>1. Reduce(z + (m * FieldModulus)) = Reduce(z)
      BY <1>4, ReduceLaws
    <2> QED BY <1>5, <2>1
  <1> QED BY <1>1, <1>6, NoZeroDivisors DEF v

\* The terms of vk_x, one of each input.
InputTerms(ic, s) == [j \in DOMAIN s |-> s[j] * ic[j + 1]]

LEMMA VkXTerms ==
  ASSUME NEW vk, NEW s \in Seq(Field), vk.ic \in Seq(Field), Len(vk.ic) = Len(s) + 1
  PROVE  LET f == InputTerms(vk.ic, s)
             S == 1..Len(s)
         IN /\ IsFiniteSet(S)
            /\ \A j \in S : /\ f[j] = s[j] * vk.ic[j + 1] /\ f[j] \in Int
                            /\ s[j] \in Field /\ vk.ic[j + 1] \in Field
            /\ SumFunctionOnSet(f, S) \in Int
            /\ VkX(vk, s) = Reduce(vk.ic[1] + SumFunctionOnSet(f, S))
            /\ vk.ic[1] \in Int
  <1> DEFINE f == InputTerms(vk.ic, s)
             n == Len(s)
             S == 1..n
  <1>1. n \in Nat /\ DOMAIN s = S /\ DOMAIN vk.ic = 1..(n + 1)
    OBVIOUS
  <1>2. IsFiniteSet(S)
    BY <1>1, FS_Interval
  <1>3. \A j \in S : f[j] = s[j] * vk.ic[j + 1] /\ s[j] \in Field /\ vk.ic[j + 1] \in Field
    <2> SUFFICES ASSUME NEW j \in S
                 PROVE  f[j] = s[j] * vk.ic[j + 1] /\ s[j] \in Field /\ vk.ic[j + 1] \in Field
      OBVIOUS
    <2>1. j \in DOMAIN s /\ j + 1 \in DOMAIN vk.ic
      BY <1>1
    <2> QED BY <2>1 DEF InputTerms
  <1>4. \A j \in S : f[j] \in Int
    <2> SUFFICES ASSUME NEW j \in S PROVE f[j] \in Int
      OBVIOUS
    <2>1. s[j] \in Int /\ vk.ic[j + 1] \in Int
      BY <1>3, FieldNumbers
    <2> DEFINE x == s[j]
               y == vk.ic[j + 1]
    <2>2. f[j] = x * y
      BY <1>3
    <2>3. x \in Int /\ y \in Int
      BY <2>1
    <2> HIDE DEF x, y, f
    <2> QED BY <2>2, <2>3
  <1>5. SumFunctionOnSet(f, S) \in Int
    <2> HIDE DEF f, S
    <2> QED BY <1>2, <1>4, SumType
  <1>6. VkX(vk, s) = Reduce(vk.ic[1] + SumFunctionOnSet(f, S))
    <2>1. SumFunction(f) = SumFunctionOnSet(f, S)
      BY <1>1 DEF SumFunction, InputTerms
    <2>2. VkX(vk, s) = Reduce(vk.ic[1] + SumFunction(f))
      BY DEF VkX, InputTerms
    <2> HIDE DEF f
    <2> QED BY <2>1, <2>2
  <1>7. vk.ic[1] \in Int
    <2>1. 1 \in DOMAIN vk.ic
      BY <1>1
    <2>2. vk.ic[1] \in Field
      BY <2>1
    <2> QED BY <2>2, FieldNumbers
  <1> HIDE DEF f, S
  <1>8. \A j \in S : f[j] = s[j] * vk.ic[j + 1] /\ f[j] \in Int
                     /\ s[j] \in Field /\ vk.ic[j + 1] \in Field
    BY <1>3, <1>4
  <1> QED BY <1>2, <1>5, <1>6, <1>7, <1>8 DEF f, S, n

\* Vectors of one length with one vk_x have sums that are one in the field.
LEMMA VkXDifference ==
  ASSUME NEW vk, NEW s \in Seq(Field), NEW u \in Seq(Field), Len(u) = Len(s),
         vk.ic \in Seq(Field), Len(vk.ic) = Len(s) + 1, VkX(vk, u) = VkX(vk, s)
  PROVE  LET S == 1..Len(s)
         IN Reduce(SumFunctionOnSet(InputTerms(vk.ic, u), S)
                     - SumFunctionOnSet(InputTerms(vk.ic, s), S)) = 0
  <1> DEFINE S == 1..Len(s)
             x == SumFunctionOnSet(InputTerms(vk.ic, u), S)
             y == SumFunctionOnSet(InputTerms(vk.ic, s), S)
             c == vk.ic[1]
  <1>1. x \in Int /\ VkX(vk, u) = Reduce(c + x)
    BY VkXTerms
  <1>2. y \in Int /\ VkX(vk, s) = Reduce(c + y) /\ c \in Int
    BY VkXTerms
  <1>3. Reduce(c + x) = Reduce(c + y)
    BY <1>1, <1>2
  <1> HIDE DEF x, y, c
  <1> DEFINE v == c + x
             w == c + y
  <1>4. v \in Int /\ w \in Int /\ Reduce(v) = Reduce(w) /\ v - w = x - y
    BY <1>1, <1>2, <1>3
  <1> HIDE DEF v, w
  <1>5. Reduce(v - w) = 0
    BY <1>4, SameResidue
  <1> QED BY <1>4, <1>5 DEF x, y

\* One term and the sum of the others.
LEMMA TermOut ==
  ASSUME NEW f, NEW S, IsFiniteSet(S), NEW i \in S, \A j \in S : f[j] \in Int
  PROVE  SumFunctionOnSet(f, S) = f[i] + SumFunctionOnSet(f, S \ {i})
  BY SumTakeOut

\* Two terms and the sum of the others.
LEMMA TwoTermsOut ==
  ASSUME NEW f, NEW S, IsFiniteSet(S), NEW x \in S, NEW y \in S, x # y,
         \A j \in S : f[j] \in Int
  PROVE  SumFunctionOnSet(f, S) = f[x] + (f[y] + SumFunctionOnSet(f, (S \ {x}) \ {y}))
  <1>1. SumFunctionOnSet(f, S) = f[x] + SumFunctionOnSet(f, S \ {x})
    BY SumTakeOut
  <1>2. ASSUME NEW T, T = S \ {x}
        PROVE  SumFunctionOnSet(f, T) = f[y] + SumFunctionOnSet(f, T \ {y})
    <2>1. IsFiniteSet(T) /\ y \in T /\ \A j \in T : f[j] \in Int
      BY <1>2, FS_Subset
    <2> QED BY ONLY <2>1, SumTakeOut
  <1> QED BY <1>1, <1>2

\* A vector with another value in one place has another vk_x, if the key's point
\* there is not the identity.
LEMMA OneInputBound ==
  ASSUME NEW vk, NEW s \in Seq(Field), NEW u \in Seq(Field), Len(u) = Len(s),
         NEW i, i \in 1..Len(s),
         vk.ic \in Seq(Field), Len(vk.ic) = Len(s) + 1, VkX(vk, u) = VkX(vk, s),
         vk.ic[i + 1] # 0, \A j \in 1..Len(s) : j # i => u[j] = s[j]
  PROVE  u = s
  <1> DEFINE S == 1..Len(s)
             f == InputTerms(vk.ic, u)
             g == InputTerms(vk.ic, s)
             R == S \ {i}
             k == vk.ic[i + 1]
  <1>1. /\ IsFiniteSet(S) /\ i \in S
        /\ \A j \in S : f[j] = u[j] * vk.ic[j + 1] /\ f[j] \in Int /\ u[j] \in Field
    BY VkXTerms
  <1>2. \A j \in S : /\ g[j] = s[j] * vk.ic[j + 1] /\ g[j] \in Int /\ s[j] \in Field
                     /\ vk.ic[j + 1] \in Field
    BY VkXTerms
  <1>3. Reduce(SumFunctionOnSet(f, S) - SumFunctionOnSet(g, S)) = 0
    BY VkXDifference
  <1>4. \A j \in R : f[j] = g[j]
    BY <1>1, <1>2
  <1>5. f[i] = u[i] * k /\ g[i] = s[i] * k /\ k \in Field /\ k # 0 /\ u[i] \in Field /\ s[i] \in Field
    BY <1>1, <1>2
  <1> HIDE DEF S, f, g, k, R
  <1>6. IsFiniteSet(R)
    BY <1>1, FS_Subset DEF R
  <1>7. SumFunctionOnSet(f, R) = SumFunctionOnSet(g, R) /\ SumFunctionOnSet(g, R) \in Int
    <2>1. \A j \in R : g[j] \in Int
      BY <1>2 DEF R
    <2> QED BY <1>4, <1>6, <2>1, SumSame, SumType
  <1>8. /\ SumFunctionOnSet(f, S) = f[i] + SumFunctionOnSet(f, R)
        /\ SumFunctionOnSet(g, S) = g[i] + SumFunctionOnSet(g, R)
    <2>1. \A j \in S : f[j] \in Int
      BY <1>1
    <2>2. \A j \in S : g[j] \in Int
      BY <1>2
    <2>3. IsFiniteSet(S) /\ i \in S
      BY <1>1
    <2>4. SumFunctionOnSet(f, S) = f[i] + SumFunctionOnSet(f, S \ {i})
      BY ONLY <2>1, <2>3, TermOut
    <2>5. SumFunctionOnSet(g, S) = g[i] + SumFunctionOnSet(g, S \ {i})
      BY ONLY <2>2, <2>3, TermOut
    <2> QED BY <2>4, <2>5 DEF R
  <1> DEFINE x == u[i]
             y == s[i]
             a == SumFunctionOnSet(g, R)
  <1>9. x \in Field /\ y \in Field /\ k \in Int /\ x \in Int /\ y \in Int /\ a \in Int
    BY <1>5, <1>7, FieldNumbers
  <1>10. /\ SumFunctionOnSet(f, S) = x * k + a
         /\ SumFunctionOnSet(g, S) = y * k + a
    BY <1>5, <1>7, <1>8
  <1> HIDE DEF x, y, a
  <1>11. Reduce((x - y) * k) = 0
    <2>1. (x * k + a) - (y * k + a) = (x - y) * k
      BY <1>9
    <2> QED BY <1>3, <1>10, <2>1
  <1>12. x - y \in Int
    BY <1>9
  <1>13. Reduce(x - y) = 0
    BY <1>5, <1>11, <1>12, NoZeroDivisors
  <1>14. u[i] = s[i]
    BY <1>9, <1>13, SameResidue DEF x, y
  <1> QED BY <1>14

\* Two inputs in each other's places make another vk_x, if the key's points there
\* are distinct.
LEMMA ExchangedInputsBound ==
  ASSUME NEW vk, NEW s \in Seq(Field), NEW u \in Seq(Field), Len(u) = Len(s),
         NEW i, i \in 2..Len(s),
         vk.ic \in Seq(Field), Len(vk.ic) = Len(s) + 1, VkX(vk, u) = VkX(vk, s),
         vk.ic[i + 1] # vk.ic[2], u[1] = s[i], u[i] = s[1],
         \A j \in 1..Len(s) : j # i /\ j # 1 => u[j] = s[j]
  PROVE  u = s
  <1> DEFINE S == 1..Len(s)
             f == InputTerms(vk.ic, u)
             g == InputTerms(vk.ic, s)
             T == S \ {1}
             R == T \ {i}
             k == vk.ic[i + 1]
             l == vk.ic[2]
  <1>0. 1 \in S /\ i \in S /\ i # 1 /\ 1 + 1 = 2
    OBVIOUS
  <1>1. /\ IsFiniteSet(S)
        /\ \A j \in S : f[j] = u[j] * vk.ic[j + 1] /\ f[j] \in Int /\ u[j] \in Field
    BY VkXTerms
  <1>2. \A j \in S : /\ g[j] = s[j] * vk.ic[j + 1] /\ g[j] \in Int /\ s[j] \in Field
                     /\ vk.ic[j + 1] \in Field
    BY VkXTerms
  <1>3. Reduce(SumFunctionOnSet(f, S) - SumFunctionOnSet(g, S)) = 0
    BY VkXDifference
  <1>4. \A j \in R : f[j] = g[j]
    BY <1>1, <1>2
  <1>5. /\ f[1] = s[i] * l /\ g[1] = s[1] * l /\ f[i] = s[1] * k /\ g[i] = s[i] * k
        /\ k \in Field /\ l \in Field /\ s[1] \in Field /\ s[i] \in Field
    BY <1>0, <1>1, <1>2
  <1> HIDE DEF S, f, g, k, l, R, T
  <1>6. IsFiniteSet(T) /\ IsFiniteSet(R)
    BY <1>1, FS_Subset DEF R, T
  <1>7. SumFunctionOnSet(f, R) = SumFunctionOnSet(g, R) /\ SumFunctionOnSet(g, R) \in Int
    <2>1. \A j \in R : g[j] \in Int
      BY <1>2 DEF R, T
    <2> QED BY <1>4, <1>6, <2>1, SumSame, SumType
  <1>8. SumFunctionOnSet(f, S) = f[1] + (f[i] + SumFunctionOnSet(f, R))
    <2>1. \A j \in S : f[j] \in Int
      BY <1>1
    <2>2. IsFiniteSet(S) /\ 1 \in S /\ i \in S /\ 1 # i
      BY <1>0, <1>1
    <2>3. SumFunctionOnSet(f, S) = f[1] + (f[i] + SumFunctionOnSet(f, (S \ {1}) \ {i}))
      BY ONLY <2>1, <2>2, TwoTermsOut
    <2> QED BY <2>3 DEF R, T
  <1>9. SumFunctionOnSet(g, S) = g[1] + (g[i] + SumFunctionOnSet(g, R))
    <2>1. \A j \in S : g[j] \in Int
      BY <1>2
    <2>2. IsFiniteSet(S) /\ 1 \in S /\ i \in S /\ 1 # i
      BY <1>0, <1>1
    <2>3. SumFunctionOnSet(g, S) = g[1] + (g[i] + SumFunctionOnSet(g, (S \ {1}) \ {i}))
      BY ONLY <2>1, <2>2, TwoTermsOut
    <2> QED BY <2>3 DEF R, T
  <1> DEFINE x == s[1]
             y == s[i]
             a == SumFunctionOnSet(g, R)
  <1>10. /\ x \in Field /\ y \in Field /\ x \in Int /\ y \in Int /\ a \in Int
         /\ k \in Int /\ l \in Int
    BY <1>5, <1>7, FieldNumbers
  <1>11. /\ SumFunctionOnSet(f, S) = y * l + (x * k + a)
         /\ SumFunctionOnSet(g, S) = x * l + (y * k + a)
    BY <1>5, <1>7, <1>8, <1>9
  <1> HIDE DEF x, y, a
  <1>12. Reduce((y - x) * (l - k)) = 0
    <2>1. (y * l + (x * k + a)) - (x * l + (y * k + a)) = (y - x) * (l - k)
      BY <1>10
    <2> QED BY <1>3, <1>11, <2>1
  <1>13. y - x \in Int /\ l - k \in Int
    BY <1>10
  <1>14. Reduce(y - x) = 0 \/ Reduce(l - k) = 0
    BY <1>12, <1>13, NoZeroFactors
  <1>15. Reduce(l - k) # 0
    BY <1>5, SameResidue DEF k, l
  <1>16. y = x
    BY <1>10, <1>14, <1>15, SameResidue
  <1>17. \A j \in 1..Len(s) : u[j] = s[j]
    BY <1>16 DEF x, y
  <1> QED BY <1>17

=============================================================================
