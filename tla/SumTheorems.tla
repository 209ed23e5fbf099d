----------------------------- MODULE SumTheorems -----------------------------
(***************************************************************************)
(* Induction over numbers and finite sets, and the laws of the sums the    *)
(* models are built from: SumFunction of the community modules.            *)
(*                                                                         *)
(* The induction principles are about sets: a property of numbers or of    *)
(* finite sets is the set of those that have it.  They follow from the     *)
(* fact that a set of numbers has a least element.                         *)
(***************************************************************************)
EXTENDS Functions, FiniteSetTheorems, WellFoundedInduction, TLAPS

----------------------------------------------------------------------------
(***************************************************************************)
(* Induction.                                                              *)
(***************************************************************************)
Below == {ss \in Nat \X Nat : ss[1] < ss[2]}

\* A set of numbers has a least element.
LEMMA LeastElement ==
  ASSUME NEW T \in SUBSET Nat, T # {}
  PROVE  \E x \in T : \A y \in T : x <= y
  <1>1. IsWellFoundedOn(Below, Nat)
    BY NatLessThanWellFounded DEF OpToRel, Below
  <1>2. PICK x \in T : \A y \in T : <<y, x>> \notin Below
    BY <1>1, WFMin
  <1>3. ASSUME NEW y \in T PROVE x <= y
    <2>1. x \in Nat /\ y \in Nat /\ <<y, x>> \notin Below
      BY <1>2
    <2>2. ~(y < x)
      BY <2>1 DEF Below
    <2> QED BY <2>1, <2>2
  <1> QED BY <1>3

\* Q holds every number if it holds 0 and, with a number, the next.
LEMMA NumberInduction ==
  ASSUME NEW Q, 0 \in Q, \A n \in Nat : n \in Q => n + 1 \in Q
  PROVE  Nat \subseteq Q
  <1> SUFFICES ASSUME Nat \ Q # {} PROVE FALSE
    OBVIOUS
  <1>1. PICK x \in Nat \ Q : \A y \in Nat \ Q : x <= y
    BY LeastElement
  <1>2. x - 1 \in Nat /\ x - 1 \notin Nat \ Q
    BY <1>1
  <1> QED BY <1>1, <1>2

\* Q holds every subset of S if it holds each whose proper subsets it holds.
LEMMA SubsetInduction ==
  ASSUME NEW S, IsFiniteSet(S), NEW Q,
         \A T \in SUBSET S : (\A U \in SUBSET T : U # T => U \in Q) => T \in Q
  PROVE  SUBSET S \subseteq Q
  <1> SUFFICES ASSUME (SUBSET S) \ Q # {} PROVE FALSE
    OBVIOUS
  <1> DEFINE C == {Cardinality(T) : T \in (SUBSET S) \ Q}
  <1>1. \A T \in SUBSET S : IsFiniteSet(T) /\ Cardinality(T) \in Nat
    BY FS_Subset, FS_CardinalityType
  <1>2. C \in SUBSET Nat /\ C # {}
    BY <1>1
  <1>3. PICK c \in C : \A d \in C : c <= d
    BY <1>2, LeastElement
  <1>4. PICK T \in (SUBSET S) \ Q : c = Cardinality(T)
    BY <1>3
  <1>5. ASSUME NEW U \in SUBSET T, U # T PROVE U \in Q
    <2>1. Cardinality(U) < Cardinality(T)
      BY <1>1, <1>4, <1>5, FS_Subset
    <2>2. U \in SUBSET S /\ Cardinality(U) \in Nat /\ c \in Nat
      BY <1>1, <1>4
    <2>3. U \notin Q => c <= Cardinality(U)
      BY <1>3, <2>2
    <2> QED BY <1>4, <2>1, <2>2, <2>3
  <1> QED BY <1>4, <1>5

----------------------------------------------------------------------------
(***************************************************************************)
(* A fold over a finite set is a function that satisfies its equation.     *)
(***************************************************************************)
Picked(s) == CHOOSE x \in s : TRUE

IsFold(g, f, D) ==
  g = [s \in D |-> IF s = {} THEN 0 ELSE f[Picked(s)] + g[s \ {Picked(s)}]]

\* The member picked of a set that has one.
LEMMA PickedIn == ASSUME NEW s, s # {} PROVE Picked(s) \in s
  BY DEF Picked

\* There is a fold over every finite set.
LEMMA FoldExists ==
  ASSUME NEW f, NEW S, IsFiniteSet(S)
  PROVE  \E g : IsFold(g, f, SUBSET S)
  <1> DEFINE Sub(n) == {s \in SUBSET S : Cardinality(s) <= n}
             Q == {n \in Nat : \E g : IsFold(g, f, Sub(n))}
  <1>1. \A s \in SUBSET S : IsFiniteSet(s) /\ Cardinality(s) \in Nat
    BY FS_Subset, FS_CardinalityType
  <1>2. 0 \in Q
    <2> DEFINE g == [s \in Sub(0) |-> 0]
    <2>1. \A s \in Sub(0) : s = {}
      BY <1>1, FS_EmptySet
    <2>2. g = [s \in Sub(0) |-> IF s = {} THEN 0 ELSE f[Picked(s)] + g[s \ {Picked(s)}]]
      BY <2>1
    <2> HIDE DEF g
    <2> QED BY <2>2 DEF IsFold
  <1>3. ASSUME NEW n \in Nat, n \in Q PROVE n + 1 \in Q
    <2>1. PICK g : IsFold(g, f, Sub(n))
      BY <1>3
    <2> DEFINE h == [s \in Sub(n + 1) |->
                       IF s = {} THEN 0 ELSE f[Picked(s)] + g[s \ {Picked(s)}]]
    <2>2. ASSUME NEW s \in Sub(n + 1), s # {}
          PROVE  s \ {Picked(s)} \in Sub(n)
      BY <1>1, <2>2, PickedIn, FS_RemoveElement
    <2>3. ASSUME NEW t \in Sub(n) PROVE h[t] = g[t]
      <3>1. t \in Sub(n + 1)
        BY <1>1, <2>3
      <3>2. g[t] = IF t = {} THEN 0 ELSE f[Picked(t)] + g[t \ {Picked(t)}]
        BY <2>1, <2>3 DEF IsFold
      <3> QED BY <3>1, <3>2
    <2>4. h = [s \in Sub(n + 1) |-> IF s = {} THEN 0 ELSE f[Picked(s)] + h[s \ {Picked(s)}]]
      BY <2>2, <2>3
    <2> HIDE DEF h
    <2>5. IsFold(h, f, Sub(n + 1))
      BY <2>4 DEF IsFold
    <2> HIDE DEF Sub
    <2> QED BY <2>5
  <1>4. Cardinality(S) \in Q
    <2> HIDE DEF Q
    <2>1. Nat \subseteq Q
      BY <1>2, <1>3, NumberInduction
    <2> QED BY <1>1, <2>1
  <1>5. Sub(Cardinality(S)) = SUBSET S
    BY <1>1, FS_Subset
  <1> QED BY <1>4, <1>5

\* Folds of functions that agree on a set agree on that set.
LEMMA FoldUnique ==
  ASSUME NEW S, NEW g, NEW f, NEW U, NEW h, NEW e,
         IsFold(g, f, SUBSET S), IsFold(h, e, SUBSET U),
         IsFiniteSet(U), U \subseteq S,
         \A x \in U : f[x] = e[x]
  PROVE  g[U] = h[U]
  <1> DEFINE Q == {V \in SUBSET U : g[V] = h[V]}
  <1>1. ASSUME NEW V \in SUBSET U, \A W \in SUBSET V : W # V => W \in Q
        PROVE  V \in Q
    <2>1. CASE V = {}
      BY <2>1 DEF IsFold
    <2>2. CASE V # {}
      <3> DEFINE p == Picked(V)
      <3>1. p \in V
        BY <2>2, PickedIn
      <3>2. g[V] = f[p] + g[V \ {p}] /\ h[V] = e[p] + h[V \ {p}]
        BY <2>2 DEF IsFold
      <3>3. V \ {p} \in Q
        BY <1>1, <3>1
      <3> QED BY <3>1, <3>2, <3>3
    <2> QED BY <2>1, <2>2
  <1> HIDE DEF Q
  <1>2. SUBSET U \subseteq Q
    BY <1>1, SubsetInduction
  <1> QED BY <1>2 DEF Q

\* The sum is what the folds give.
LEMMA SumIsFold ==
  ASSUME NEW f, NEW S, IsFiniteSet(S)
  PROVE  \E g : IsFold(g, f, SUBSET S) /\ SumFunctionOnSet(f, S) = g[S]
  <1> DEFINE g == CHOOSE g : IsFold(g, f, SUBSET S)
  <1>1. SumFunctionOnSet(f, S) = g[S]
    BY DEF SumFunctionOnSet, FoldFunctionOnSet, MapThenFoldSet, Picked, IsFold
  <1>2. IsFold(g, f, SUBSET S)
    BY FoldExists, Zenon
  <1> QED BY <1>1, <1>2

----------------------------------------------------------------------------
(***************************************************************************)
(* Sums.                                                                   *)
(***************************************************************************)

\* The empty sum.
LEMMA SumEmpty == \A f : SumFunctionOnSet(f, {}) = 0
  <1> SUFFICES ASSUME NEW f PROVE SumFunctionOnSet(f, {}) = 0
    OBVIOUS
  <1>1. PICK g : IsFold(g, f, SUBSET {}) /\ SumFunctionOnSet(f, {}) = g[{}]
    BY SumIsFold, FS_EmptySet
  <1> QED BY <1>1 DEF IsFold

\* Equal terms have equal sums.
LEMMA SumSame ==
  ASSUME NEW f, NEW e, NEW S, IsFiniteSet(S), \A x \in S : f[x] = e[x]
  PROVE  SumFunctionOnSet(f, S) = SumFunctionOnSet(e, S)
  <1>1. PICK g : IsFold(g, f, SUBSET S) /\ SumFunctionOnSet(f, S) = g[S]
    BY SumIsFold
  <1>2. PICK h : IsFold(h, e, SUBSET S) /\ SumFunctionOnSet(e, S) = h[S]
    BY SumIsFold
  <1>3. g[S] = h[S]
    <2>1. IsFold(g, f, SUBSET S) /\ IsFold(h, e, SUBSET S) /\ S \subseteq S
      BY <1>1, <1>2
    <2> QED BY ONLY <2>1, IsFiniteSet(S), \A x \in S : f[x] = e[x], FoldUnique
  <1> QED BY <1>1, <1>2, <1>3

\* One term and the sum of the others: the one that is picked.
LEMMA SumPicked ==
  ASSUME NEW f, NEW S, IsFiniteSet(S), S # {}
  PROVE  /\ Picked(S) \in S
         /\ IsFiniteSet(S \ {Picked(S)})
         /\ SumFunctionOnSet(f, S) = f[Picked(S)] + SumFunctionOnSet(f, S \ {Picked(S)})
  <1> DEFINE p == Picked(S)
  <1>1. p \in S /\ IsFiniteSet(S \ {p})
    BY PickedIn, FS_RemoveElement
  <1>2. PICK g : IsFold(g, f, SUBSET S) /\ SumFunctionOnSet(f, S) = g[S]
    BY SumIsFold
  <1>3. PICK h : IsFold(h, f, SUBSET (S \ {p})) /\ SumFunctionOnSet(f, S \ {p}) = h[S \ {p}]
    BY <1>1, SumIsFold
  <1>4. g[S \ {p}] = h[S \ {p}]
    <2>1. ASSUME NEW R, R = S \ {p} PROVE g[R] = h[R]
      <3>1. IsFold(g, f, SUBSET S) /\ IsFold(h, f, SUBSET R)
        BY <1>2, <1>3, <2>1
      <3>2. IsFiniteSet(R) /\ R \subseteq S
        BY <1>1, <2>1
      <3> QED BY ONLY <3>1, <3>2, FoldUnique, SMTT(30)
    <2> QED BY <2>1
  <1>5. g[S] = f[p] + g[S \ {p}]
    BY <1>2 DEF IsFold
  <1> QED BY <1>1, <1>2, <1>3, <1>4, <1>5

\* Integers sum to an integer, numbers to a number.
LEMMA SumType ==
  ASSUME NEW f, NEW S, IsFiniteSet(S), \A x \in S : f[x] \in Int
  PROVE  /\ SumFunctionOnSet(f, S) \in Int
         /\ (\A x \in S : f[x] >= 0) => SumFunctionOnSet(f, S) \in Nat
  <1> DEFINE Q == {T \in SUBSET S :
                     /\ SumFunctionOnSet(f, T) \in Int
                     /\ (\A x \in T : f[x] >= 0) => SumFunctionOnSet(f, T) \in Nat}
  <1>1. ASSUME NEW T \in SUBSET S, \A U \in SUBSET T : U # T => U \in Q
        PROVE  T \in Q
    <2>1. CASE T = {}
      BY <2>1, SumEmpty
    <2>2. CASE T # {}
      <3> DEFINE p == Picked(T)
      <3>1. /\ p \in T
            /\ SumFunctionOnSet(f, T) = f[p] + SumFunctionOnSet(f, T \ {p})
        BY <2>2, SumPicked, FS_Subset
      <3>2. T \ {p} \in Q
        BY <1>1, <3>1
      <3>3. f[p] \in Int
        BY <3>1
      <3> QED BY <3>1, <3>2, <3>3
    <2> QED BY <2>1, <2>2
  <1> HIDE DEF Q
  <1>2. S \in Q
    BY <1>1, SubsetInduction
  <1> QED BY <1>2 DEF Q

\* One term and the sum of the others: any of them.
LEMMA SumTakeOut ==
  ASSUME NEW f, NEW S, IsFiniteSet(S), \A x \in S : f[x] \in Int, NEW x \in S
  PROVE  SumFunctionOnSet(f, S) = f[x] + SumFunctionOnSet(f, S \ {x})
  <1> DEFINE Q == {T \in SUBSET S : \A y \in T :
                     SumFunctionOnSet(f, T) = f[y] + SumFunctionOnSet(f, T \ {y})}
  <1>1. ASSUME NEW T \in SUBSET S, \A U \in SUBSET T : U # T => U \in Q,
               NEW y \in T
        PROVE  SumFunctionOnSet(f, T) = f[y] + SumFunctionOnSet(f, T \ {y})
    <2> DEFINE p == Picked(T)
    <2>0. IsFiniteSet(T) /\ T # {}
      BY FS_Subset
    <2>1. p \in T /\ SumFunctionOnSet(f, T) = f[p] + SumFunctionOnSet(f, T \ {p})
      BY <2>0, SumPicked
    <2>2. CASE y # p
      <3>1. T \ {p} \in Q /\ T \ {y} \in Q
        BY <1>1, <2>1
      <3>2. SumFunctionOnSet(f, T \ {p}) = f[y] + SumFunctionOnSet(f, (T \ {p}) \ {y})
        BY <2>2, <3>1
      <3>3. SumFunctionOnSet(f, T \ {y}) = f[p] + SumFunctionOnSet(f, (T \ {y}) \ {p})
        BY <2>1, <2>2, <3>1
      <3>4. (T \ {p}) \ {y} = (T \ {y}) \ {p}
        OBVIOUS
      <3>5. f[p] \in Int /\ f[y] \in Int
        BY <2>1
      <3>6. SumFunctionOnSet(f, (T \ {y}) \ {p}) \in Int
        <4>1. IsFiniteSet((T \ {y}) \ {p})
          BY <2>0, FS_Subset
        <4> QED BY <4>1, SumType
      <3> DEFINE a == SumFunctionOnSet(f, (T \ {y}) \ {p})
      <3>7. SumFunctionOnSet(f, T) = f[p] + (f[y] + a)
        BY <2>1, <3>2, <3>4
      <3>8. f[y] + SumFunctionOnSet(f, T \ {y}) = f[y] + (f[p] + a)
        BY <3>3
      <3>9. a \in Int
        BY <3>6
      <3> HIDE DEF a, p
      <3> QED BY <3>5, <3>7, <3>8, <3>9
    <2> QED BY <2>1, <2>2
  <1>2. \A T \in SUBSET S : (\A U \in SUBSET T : U # T => U \in Q) => T \in Q
    BY <1>1
  <1> HIDE DEF Q
  <1>3. S \in Q
    BY <1>2, SubsetInduction
  <1> QED BY <1>3 DEF Q

\* A sum over two disjoint sets.
LEMMA SumUnion ==
  ASSUME NEW f, NEW S, NEW R, IsFiniteSet(S), IsFiniteSet(R), S \cap R = {},
         \A x \in S \cup R : f[x] \in Int
  PROVE  SumFunctionOnSet(f, S \cup R) = SumFunctionOnSet(f, S) + SumFunctionOnSet(f, R)
  <1> DEFINE Q == {T \in SUBSET S : SumFunctionOnSet(f, T \cup R)
                                      = SumFunctionOnSet(f, T) + SumFunctionOnSet(f, R)}
  <1>0. SumFunctionOnSet(f, R) \in Int
    BY SumType
  <1>1. ASSUME NEW T \in SUBSET S, \A U \in SUBSET T : U # T => U \in Q
        PROVE  T \in Q
    <2>1. CASE T = {}
      <3>1. T \cup R = R
        BY <2>1
      <3> QED BY <1>0, <2>1, <3>1, SumEmpty
    <2>2. CASE T # {}
      <3>1. PICK x \in T : TRUE
        BY <2>2
      <3>2. IsFiniteSet(T) /\ IsFiniteSet(T \ {x}) /\ IsFiniteSet(T \cup R)
        BY FS_Subset, FS_Union
      <3>3. SumFunctionOnSet(f, T) = f[x] + SumFunctionOnSet(f, T \ {x})
        BY <3>2, SumTakeOut
      <3>4. SumFunctionOnSet(f, T \cup R) = f[x] + SumFunctionOnSet(f, (T \ {x}) \cup R)
        <4>1. (T \cup R) \ {x} = (T \ {x}) \cup R
          OBVIOUS
        <4> QED BY <3>2, <4>1, SumTakeOut
      <3>5. T \ {x} \in Q
        BY <1>1
      <3>6. f[x] \in Int /\ SumFunctionOnSet(f, T \ {x}) \in Int
        BY <3>2, SumType
      <3> QED BY <1>0, <3>3, <3>4, <3>5, <3>6
    <2> QED BY <2>1, <2>2
  <1> HIDE DEF Q
  <1>2. S \in Q
    BY <1>1, SubsetInduction
  <1> QED BY <1>2 DEF Q

\* Larger terms have a larger sum.
LEMMA SumMonotonic ==
  ASSUME NEW f, NEW e, NEW S, IsFiniteSet(S),
         \A x \in S : f[x] \in Int /\ e[x] \in Int /\ f[x] <= e[x]
  PROVE  SumFunctionOnSet(f, S) <= SumFunctionOnSet(e, S)
  <1> DEFINE Q == {T \in SUBSET S : SumFunctionOnSet(f, T) <= SumFunctionOnSet(e, T)}
  <1>1. ASSUME NEW T \in SUBSET S, \A U \in SUBSET T : U # T => U \in Q
        PROVE  T \in Q
    <2>1. CASE T = {}
      BY <2>1, SumEmpty
    <2>2. CASE T # {}
      <3>1. PICK x \in T : TRUE
        BY <2>2
      <3>2. IsFiniteSet(T) /\ IsFiniteSet(T \ {x})
        BY FS_Subset
      <3>3. /\ SumFunctionOnSet(f, T) = f[x] + SumFunctionOnSet(f, T \ {x})
            /\ SumFunctionOnSet(e, T) = e[x] + SumFunctionOnSet(e, T \ {x})
        BY <3>2, SumTakeOut
      <3>4. T \ {x} \in Q
        BY <1>1
      <3>5. SumFunctionOnSet(f, T \ {x}) \in Int /\ SumFunctionOnSet(e, T \ {x}) \in Int
        BY <3>2, SumType
      <3> QED BY <3>3, <3>4, <3>5
    <2> QED BY <2>1, <2>2
  <1> HIDE DEF Q
  <1>2. S \in Q
    BY <1>1, SubsetInduction
  <1> QED BY <1>2 DEF Q

\* A sum of n terms of at most b is at most n * b.
LEMMA SumBound ==
  ASSUME NEW f, NEW S, NEW b \in Int, IsFiniteSet(S),
         \A x \in S : f[x] \in Int /\ f[x] <= b
  PROVE  SumFunctionOnSet(f, S) <= Cardinality(S) * b
  <1> DEFINE Q == {T \in SUBSET S : SumFunctionOnSet(f, T) <= Cardinality(T) * b}
  <1>1. ASSUME NEW T \in SUBSET S, \A U \in SUBSET T : U # T => U \in Q
        PROVE  T \in Q
    <2>1. CASE T = {}
      BY <2>1, SumEmpty, FS_EmptySet
    <2>2. CASE T # {}
      <3>1. PICK x \in T : TRUE
        BY <2>2
      <3>2. IsFiniteSet(T) /\ IsFiniteSet(T \ {x})
        BY FS_Subset
      <3>3. SumFunctionOnSet(f, T) = f[x] + SumFunctionOnSet(f, T \ {x})
        BY <3>2, SumTakeOut
      <3>4. T \ {x} \in Q
        BY <1>1
      <3>5. SumFunctionOnSet(f, T \ {x}) \in Int
        BY <3>2, SumType
      <3>6. /\ Cardinality(T) \in Nat /\ Cardinality(T \ {x}) = Cardinality(T) - 1
        BY <3>2, FS_CardinalityType, FS_RemoveElement
      <3>7. (Cardinality(T) - 1) * b + b = Cardinality(T) * b
        BY <3>6
      <3> QED BY <3>3, <3>4, <3>5, <3>6, <3>7
    <2> QED BY <2>1, <2>2
  <1> HIDE DEF Q
  <1>2. S \in Q
    BY <1>1, SubsetInduction
  <1> QED BY <1>2 DEF Q

\* A common factor comes out of a sum.
LEMMA SumScale ==
  ASSUME NEW f, NEW e, NEW S, NEW c \in Int, IsFiniteSet(S),
         \A x \in S : f[x] \in Int /\ e[x] = f[x] * c
  PROVE  SumFunctionOnSet(e, S) = SumFunctionOnSet(f, S) * c
  <1> DEFINE Q == {T \in SUBSET S : SumFunctionOnSet(e, T) = SumFunctionOnSet(f, T) * c}
  <1>0. \A x \in S : e[x] \in Int
    OBVIOUS
  <1>1. ASSUME NEW T \in SUBSET S, \A U \in SUBSET T : U # T => U \in Q
        PROVE  T \in Q
    <2>1. CASE T = {}
      BY <2>1, SumEmpty
    <2>2. CASE T # {}
      <3>1. PICK x \in T : TRUE
        BY <2>2
      <3>2. IsFiniteSet(T) /\ IsFiniteSet(T \ {x})
        BY FS_Subset
      <3>3. /\ SumFunctionOnSet(f, T) = f[x] + SumFunctionOnSet(f, T \ {x})
            /\ SumFunctionOnSet(e, T) = e[x] + SumFunctionOnSet(e, T \ {x})
        BY <1>0, <3>2, SumTakeOut
      <3>4. SumFunctionOnSet(e, T \ {x}) = SumFunctionOnSet(f, T \ {x}) * c
        BY <1>1
      <3>5. SumFunctionOnSet(f, T \ {x}) \in Int /\ f[x] \in Int
        BY <3>2, SumType
      <3>6. \A a, b \in Int : (a + b) * c = a * c + b * c
        OBVIOUS
      <3> QED BY <3>3, <3>4, <3>5, <3>6
    <2> QED BY <2>1, <2>2
  <1> HIDE DEF Q
  <1>2. S \in Q
    BY <1>1, SubsetInduction
  <1> QED BY <1>2 DEF Q

\* A sum does not depend on how its terms are numbered.
LEMMA SumImage ==
  ASSUME NEW f, NEW e, NEW r, NEW S, IsFiniteSet(S),
         \A x, y \in S : r[x] = r[y] => x = y,
         \A x \in S : f[x] \in Int /\ e[r[x]] = f[x]
  PROVE  /\ IsFiniteSet({r[x] : x \in S})
         /\ SumFunctionOnSet(e, {r[x] : x \in S}) = SumFunctionOnSet(f, S)
  <1> DEFINE Im(T) == {r[x] : x \in T}
             Q == {T \in SUBSET S : /\ IsFiniteSet(Im(T))
                                    /\ SumFunctionOnSet(e, Im(T)) = SumFunctionOnSet(f, T)}
  <1>1. ASSUME NEW T \in SUBSET S, \A U \in SUBSET T : U # T => U \in Q
        PROVE  T \in Q
    <2>1. CASE T = {}
      <3>1. Im(T) = {}
        BY <2>1
      <3> QED BY <2>1, <3>1, SumEmpty, FS_EmptySet
    <2>2. CASE T # {}
      <3>1. PICK x \in T : TRUE
        BY <2>2
      <3>2. IsFiniteSet(T) /\ T \ {x} \in Q
        BY <1>1, FS_Subset
      <3>3. Im(T \ {x}) = Im(T) \ {r[x]} /\ Im(T) = Im(T \ {x}) \cup {r[x]}
        OBVIOUS
      <3>4. IsFiniteSet(Im(T))
        <4>1. IsFiniteSet(Im(T \ {x}))
          BY <3>2
        <4> HIDE DEF Im
        <4>2. IsFiniteSet(Im(T \ {x}) \cup {r[x]})
          BY <4>1, FS_AddElement
        <4> QED BY <3>3, <4>2
      <3>5. r[x] \in Im(T) /\ \A y \in Im(T) : e[y] \in Int
        OBVIOUS
      <3>6. SumFunctionOnSet(f, T) = f[x] + SumFunctionOnSet(f, T \ {x})
        BY <3>2, SumTakeOut
      <3> DEFINE I == Im(T)
      <3>7. SumFunctionOnSet(e, I) = e[r[x]] + SumFunctionOnSet(e, I \ {r[x]})
        <4>1. IsFiniteSet(I) /\ r[x] \in I /\ \A y \in I : e[y] \in Int
          BY <3>4, <3>5
        <4> HIDE DEF I
        <4> QED BY <4>1, SumTakeOut
      <3>8. SumFunctionOnSet(e, I \ {r[x]}) = SumFunctionOnSet(f, T \ {x})
        BY <3>2, <3>3
      <3> QED BY <3>4, <3>6, <3>7, <3>8
    <2> QED BY <2>1, <2>2
  <1> HIDE DEF Q
  <1>2. S \in Q
    BY <1>1, SubsetInduction
  <1> QED BY <1>2 DEF Q

\* The sum up to n + 1 is the sum up to n and the last term.
LEMMA SumLast ==
  ASSUME NEW f, NEW n \in Nat, \A i \in 1..(n + 1) : f[i] \in Int
  PROVE  SumFunctionOnSet(f, 1..(n + 1)) = f[n + 1] + SumFunctionOnSet(f, 1..n)
  <1> DEFINE S == 1..(n + 1)
  <1>1. IsFiniteSet(S) /\ n + 1 \in S /\ S \ {n + 1} = 1..n /\ \A i \in S : f[i] \in Int
    BY FS_Interval
  <1> HIDE DEF S
  <1>2. SumFunctionOnSet(f, S) = f[n + 1] + SumFunctionOnSet(f, S \ {n + 1})
    BY <1>1, SumTakeOut
  <1> QED BY <1>1, <1>2 DEF S

\* Adding the terms up in pairs first makes no difference.
LEMMA SumPairs ==
  ASSUME NEW f, NEW e, NEW m \in Nat, \A i \in 1..(2 * m) : f[i] \in Int,
         \A i \in 1..m : e[i] = f[2 * i - 1] + f[2 * i]
  PROVE  SumFunctionOnSet(e, 1..m) = SumFunctionOnSet(f, 1..(2 * m))
  <1> DEFINE Q == {n \in Nat : n <= m =>
                     SumFunctionOnSet(e, 1..n) = SumFunctionOnSet(f, 1..(2 * n))}
  <1>1. 0 \in Q
    <2>1. 1..0 = {} /\ 1..(2 * 0) = {}
      OBVIOUS
    <2> QED BY <2>1, SumEmpty
  <1>2. ASSUME NEW n \in Nat, n \in Q PROVE n + 1 \in Q
    <2> SUFFICES ASSUME n + 1 <= m
                 PROVE  SumFunctionOnSet(e, 1..(n + 1)) = SumFunctionOnSet(f, 1..(2 * (n + 1)))
      OBVIOUS
    <2> DEFINE a == SumFunctionOnSet(f, 1..(2 * n))
               b == SumFunctionOnSet(f, 1..(2 * n + 1))
               c == SumFunctionOnSet(f, 1..(2 * n + 2))
               d == SumFunctionOnSet(e, 1..n)
               g == SumFunctionOnSet(e, 1..(n + 1))
    <2>0. a = d
      BY <1>2
    <2>1. \A i \in 1..(2 * n + 2) : f[i] \in Int
      OBVIOUS
    <2>2. /\ \A i \in 1..(n + 1) : e[i] = f[2 * i - 1] + f[2 * i]
          /\ \A i \in 1..(n + 1) : 2 * i - 1 \in 1..(2 * n + 2) /\ 2 * i \in 1..(2 * n + 2)
      OBVIOUS
    <2>3. \A i \in 1..(n + 1) : e[i] \in Int
      BY <2>1, <2>2
    <2>4. g = e[n + 1] + d
      BY <2>3, SumLast
    <2>5. b = f[2 * n + 1] + a
      <3>1. 2 * n \in Nat /\ \A i \in 1..(2 * n + 1) : f[i] \in Int
        BY <2>1
      <3> QED BY <3>1, SumLast
    <2>6. c = f[2 * n + 2] + b
      <3>1. 2 * n + 1 \in Nat /\ \A i \in 1..((2 * n + 1) + 1) : f[i] \in Int
        BY <2>1
      <3>2. SumFunctionOnSet(f, 1..((2 * n + 1) + 1)) = f[(2 * n + 1) + 1] + b
        BY <3>1, SumLast
      <3>3. (2 * n + 1) + 1 = 2 * n + 2
        OBVIOUS
      <3> QED BY <3>2, <3>3
    <2>7. e[n + 1] = f[2 * n + 1] + f[2 * n + 2]
      <3>1. 2 * (n + 1) - 1 = 2 * n + 1 /\ 2 * (n + 1) = 2 * n + 2 /\ n + 1 \in 1..(n + 1)
        OBVIOUS
      <3> QED BY <2>2, <3>1
    <2>8. a \in Int
      <3>1. IsFiniteSet(1..(2 * n)) /\ \A i \in 1..(2 * n) : f[i] \in Int
        BY <2>1, FS_Interval
      <3> QED BY <3>1, SumType
    <2>9. f[2 * n + 1] \in Int /\ f[2 * n + 2] \in Int
      BY <2>1
    <2>10. c = SumFunctionOnSet(f, 1..(2 * (n + 1))) /\ g = SumFunctionOnSet(e, 1..(n + 1))
      <3>1. 2 * (n + 1) = 2 * n + 2
        OBVIOUS
      <3> QED BY <3>1
    <2> HIDE DEF a, b, c, d, g
    <2> QED BY <2>0, <2>4, <2>5, <2>6, <2>7, <2>8, <2>9, <2>10
  <1> HIDE DEF Q
  <1>3. m \in Q
    BY <1>1, <1>2, NumberInduction
  <1> QED BY <1>3 DEF Q

\* Terms that are 0 add nothing.
LEMMA SumZeros ==
  ASSUME NEW f, NEW S, NEW T, IsFiniteSet(T), S \subseteq T,
         \A x \in S : f[x] \in Int, \A x \in T \ S : f[x] = 0
  PROVE  SumFunctionOnSet(f, T) = SumFunctionOnSet(f, S)
  <1> DEFINE R == T \ S
  <1>1. IsFiniteSet(S) /\ IsFiniteSet(R) /\ S \cap R = {} /\ S \cup R = T
    BY FS_Subset
  <1>2. \A x \in R : f[x] \in Int /\ f[x] <= 0 /\ f[x] >= 0
    OBVIOUS
  <1>3. \A x \in S \cup R : f[x] \in Int
    OBVIOUS
  <1> HIDE DEF R
  <1>4. SumFunctionOnSet(f, S \cup R) = SumFunctionOnSet(f, S) + SumFunctionOnSet(f, R)
    BY <1>1, <1>3, SumUnion
  <1>5. SumFunctionOnSet(f, R) \in Nat
    BY <1>1, <1>2, SumType
  <1>6. SumFunctionOnSet(f, R) <= Cardinality(R) * 0
    BY <1>1, <1>2, SumBound
  <1>7. Cardinality(R) \in Nat /\ Cardinality(R) * 0 = 0
    BY <1>1, FS_CardinalityType
  <1>8. SumFunctionOnSet(f, S) \in Int
    BY <1>1, SumType
  <1>9. SumFunctionOnSet(f, R) = 0
    BY <1>5, <1>6, <1>7
  <1>10. SumFunctionOnSet(f, S \cup R) = SumFunctionOnSet(f, S)
    BY <1>4, <1>8, <1>9
  <1> QED BY <1>1, <1>10

=============================================================================
