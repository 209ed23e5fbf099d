--------------------------- MODULE DataPathProofs ---------------------------
(***************************************************************************)
(* The path of a book, for every depth, width, word format and book: what  *)
(* the page builds is what the circuits compute, what they accept is true  *)
(* in integers, and the words carry it to the contract's storage.          *)
(***************************************************************************)
EXTENDS DataPath, CircuitProofs

----------------------------------------------------------------------------
(***************************************************************************)
(* The page's tree.                                                        *)
(***************************************************************************)
PageLeaves(balances) ==
  [i \in 1..NLeaves |-> [hash |-> LeafHash(AcctCommit(i), Reduce(PadBook(balances)[i])),
                         sum |-> PadBook(balances)[i]]]

Parents(level, n) == [i \in 1..n |-> PageParent(level[2*i - 1], level[2*i])]

\* The levels 0..n over a row of leaves.
IsTreeUpto(t, leaves, n) ==
  t = [d \in 0..n |-> IF d = 0 THEN leaves
                      ELSE [i \in 1..Pow(2, Depth - d) |->
                              PageParent(t[d - 1][2*i - 1], t[d - 1][2*i])]]

IsTree(t, leaves) == IsTreeUpto(t, leaves, Depth)

\* The page's loop over the levels builds a tree.
LEMMA TreeExists == \A leaves : \E t : IsTree(t, leaves)
  <1> SUFFICES ASSUME NEW leaves PROVE \E t : IsTree(t, leaves)
    OBVIOUS
  <1> DEFINE Q == {n \in Nat : \E t : IsTreeUpto(t, leaves, n)}
  <1>1. 0 \in Q
    <2> DEFINE t == [d \in 0..0 |-> leaves]
    <2>1. IsTreeUpto(t, leaves, 0)
      BY DEF IsTreeUpto
    <2> QED BY <2>1
  <1>2. ASSUME NEW n \in Nat, n \in Q PROVE n + 1 \in Q
    <2>1. PICK t : IsTreeUpto(t, leaves, n)
      BY <1>2
    <2> DEFINE Row(r, d) == [i \in 1..Pow(2, Depth - d) |-> PageParent(r[2*i - 1], r[2*i])]
               g == [d \in 0..(n + 1) |-> IF d = 0 THEN leaves ELSE Row(t[d - 1], d)]
    <2> HIDE DEF Row
    <2>2. t = [d \in 0..n |-> IF d = 0 THEN leaves ELSE Row(t[d - 1], d)]
      BY <2>1 DEF IsTreeUpto, Row
    <2>3. \A d \in 0..n : g[d] = t[d]
      BY <2>2
    <2>4. \A d \in 0..(n + 1) : d # 0 => d - 1 \in 0..n
      OBVIOUS
    <2>5. g = [d \in 0..(n + 1) |-> IF d = 0 THEN leaves ELSE Row(g[d - 1], d)]
      BY <2>3, <2>4
    <2> HIDE DEF g
    <2>6. IsTreeUpto(g, leaves, n + 1)
      BY <2>5 DEF IsTreeUpto, Row
    <2> QED BY <2>6
  <1> HIDE DEF Q
  <1>3. Nat \subseteq Q
    BY <1>1, <1>2, NumberInduction
  <1> QED BY <1>3, WidthsAssumption DEF Q, IsTree

\* It is the one BuildTree names.
LEMMA BuildTreeIsTree ==
  ASSUME NEW balances
  PROVE  IsTree(BuildTree(balances), PageLeaves(balances))
  <1> DEFINE leaves == PageLeaves(balances)
             t == CHOOSE t : IsTree(t, leaves)
  <1>1. BuildTree(balances) = t
    BY DEF BuildTree, PageLeaves, IsTree, IsTreeUpto
  <1>2. IsTree(t, leaves)
    BY TreeExists, Zenon
  <1> QED BY <1>1, <1>2

\* The number of nodes halves from one level to the next.
LEMMA LevelWidth ==
  /\ NLeaves \in Nat \ {0} /\ Depth \in Nat
  /\ \A d \in 0..Depth : Pow(2, Depth - d) \in Nat \ {0}
  /\ \A d \in 0..(Depth - 1) : Pow(2, Depth - d) = 2 * Pow(2, Depth - (d + 1))
  <1>1. Depth \in Nat
    BY WidthsAssumption
  <1>2. \A n \in Nat : Pow(2, n) \in Nat \ {0} /\ Pow(2, n + 1) = 2 * Pow(2, n)
    BY PowLaws, PowGrows
  <1>3. ASSUME NEW d \in 0..Depth PROVE Pow(2, Depth - d) \in Nat \ {0}
    <2>1. Depth - d \in Nat
      BY <1>1
    <2> QED BY <1>2, <2>1
  <1>4. ASSUME NEW d \in 0..(Depth - 1)
        PROVE  Pow(2, Depth - d) = 2 * Pow(2, Depth - (d + 1))
    <2>1. Depth - (d + 1) \in Nat /\ (Depth - (d + 1)) + 1 = Depth - d
      BY <1>1
    <2> QED BY <1>2, <2>1
  <1> QED BY <1>1, <1>2, <1>3, <1>4 DEF NLeaves

\* Each level is made of the parents of the level before.
LEMMA TreeLevels ==
  ASSUME NEW t, NEW leaves, IsTree(t, leaves)
  PROVE  /\ t[0] = leaves
         /\ \A d \in 0..(Depth - 1) : t[d + 1] = Parents(t[d], Pow(2, Depth - (d + 1)))
  <1> DEFINE Row(r, d) == [i \in 1..Pow(2, Depth - d) |-> PageParent(r[2*i - 1], r[2*i])]
  <1>1. \A r, d : Row(r, d) = Parents(r, Pow(2, Depth - d))
    BY DEF Parents
  <1> HIDE DEF Row
  <1>2. t = [d \in 0..Depth |-> IF d = 0 THEN leaves ELSE Row(t[d - 1], d)]
    BY DEF IsTree, IsTreeUpto, Row
  <1>3. /\ 0 \in 0..Depth
        /\ \A d \in 0..(Depth - 1) : d + 1 \in 0..Depth /\ d + 1 # 0 /\ (d + 1) - 1 = d
    BY WidthsAssumption
  <1>4. t[0] = leaves
    BY <1>2, <1>3
  <1>5. \A d \in 0..(Depth - 1) : t[d + 1] = Row(t[d], d + 1)
    BY <1>2, <1>3
  <1> QED BY <1>1, <1>4, <1>5

\* A property of the leaves that each level hands on to the next holds at all.
LEMMA LevelInduction ==
  ASSUME NEW Q, 0 \in Q, \A d \in 0..(Depth - 1) : d \in Q => d + 1 \in Q
  PROVE  0..Depth \subseteq Q
  <1> DEFINE R == {d \in Nat : d <= Depth => d \in Q}
  <1>1. 0 \in R
    OBVIOUS
  <1>2. ASSUME NEW d \in Nat, d \in R PROVE d + 1 \in R
    <2> SUFFICES ASSUME d + 1 <= Depth PROVE d + 1 \in Q
      OBVIOUS
    <2>1. d \in 0..(Depth - 1) /\ d <= Depth
      BY WidthsAssumption
    <2> QED BY <1>2, <2>1
  <1>3. Nat \subseteq R
    <2> HIDE DEF R
    <2> QED BY <1>1, <1>2, NumberInduction
  <1> QED BY <1>3, WidthsAssumption

\* The page adds without reducing: every level adds up to what the leaves do, and
\* the root carries that sum.
LEMMA TreeSums ==
  ASSUME NEW t, NEW leaves, IsTree(t, leaves),
         \A i \in 1..NLeaves : leaves[i].sum \in Int
  PROVE  /\ \A d \in 0..Depth : \A i \in 1..Pow(2, Depth - d) : t[d][i].sum \in Int
         /\ t[Depth][1].sum = SumFunction([i \in 1..NLeaves |-> leaves[i].sum])
  <1> DEFINE W(d) == Pow(2, Depth - d)
             Sums(d) == [i \in 1..W(d) |-> t[d][i].sum]
             Total0 == SumFunctionOnSet(Sums(0), 1..W(0))
             Typed(d) == \A i \in 1..W(d) : t[d][i].sum \in Int
             Q == {d \in 0..Depth : Typed(d) /\ SumFunctionOnSet(Sums(d), 1..W(d)) = Total0}
  <1>1. t[0] = leaves /\ \A d \in 0..(Depth - 1) : t[d + 1] = Parents(t[d], W(d + 1))
    BY TreeLevels
  <1>2. W(0) = NLeaves
    <2>1. Depth - 0 = Depth
      BY WidthsAssumption
    <2> QED BY <2>1 DEF NLeaves
  <1>3. 0 \in Q
    <2>1. 0 \in 0..Depth
      BY WidthsAssumption
    <2>2. Typed(0)
      <3> HIDE DEF W
      <3> QED BY <1>1, <1>2
    <2>3. SumFunctionOnSet(Sums(0), 1..W(0)) = Total0
      OBVIOUS
    <2> HIDE DEF W, Sums, Total0, Typed
    <2> QED BY <2>1, <2>2, <2>3
  <1>4. ASSUME NEW d \in 0..(Depth - 1), d \in Q PROVE d + 1 \in Q
    <2> DEFINE m == W(d + 1)
               f == Sums(d)
               e == Sums(d + 1)
    <2>1. m \in Nat \ {0} /\ W(d) = 2 * m /\ d + 1 \in 0..Depth
      <3>1. d + 1 \in 0..Depth
        BY WidthsAssumption
      <3> QED BY <3>1, LevelWidth
    <2>2. t[d + 1] = Parents(t[d], m)
      BY <1>1
    <2>3. Typed(d) /\ SumFunctionOnSet(f, 1..W(d)) = Total0
      BY <1>4
    <2> HIDE DEF W, m, Total0
    <2>4. \A i \in 1..(2 * m) : t[d][i].sum \in Int /\ f[i] = t[d][i].sum
      BY <2>1, <2>3
    <2>5. \A i \in 1..m : 2*i - 1 \in 1..(2 * m) /\ 2*i \in 1..(2 * m)
      BY <2>1
    <2>6. \A i \in 1..m : t[d + 1][i].sum = t[d][2*i - 1].sum + t[d][2*i].sum
      BY <2>2 DEF Parents, PageParent
    <2>7. \A i \in 1..m : e[i] = t[d + 1][i].sum
      BY DEF m
    <2> HIDE DEF e, f
    <2>8. \A i \in 1..m : e[i] = f[2*i - 1] + f[2*i]
      BY <2>4, <2>5, <2>6, <2>7
    <2>9. \A i \in 1..(2 * m) : f[i] \in Int
      BY <2>4
    <2>10. SumFunctionOnSet(e, 1..m) = SumFunctionOnSet(f, 1..(2 * m))
      BY <2>1, <2>8, <2>9, SumPairs
    <2>11. \A i \in 1..m : t[d + 1][i].sum \in Int
      BY <2>4, <2>5, <2>6
    <2> QED BY <2>1, <2>3, <2>10, <2>11 DEF e, m
  <1> HIDE DEF Q
  <1>5. 0..Depth \subseteq Q
    BY <1>3, <1>4, LevelInduction
  <1> USE DEF Q
  <1>6. W(Depth) = 1
    <2>1. Depth - Depth = 0
      BY WidthsAssumption
    <2> QED BY <2>1, PowLaws
  <1>7. t[Depth][1].sum \in Int /\ SumFunctionOnSet(Sums(Depth), {1}) = Total0
    <2>1. Depth \in Q
      BY <1>5, WidthsAssumption
    <2>2. 1..1 = {1}
      OBVIOUS
    <2> QED BY <1>6, <2>1, <2>2
  <1>8. SumFunctionOnSet(Sums(Depth), {1}) = t[Depth][1].sum
    <2> DEFINE f == Sums(Depth)
    <2>1. f[1] = t[Depth][1].sum
      BY <1>6
    <2> HIDE DEF f
    <2>2. f[1] \in Int
      BY <1>7, <2>1
    <2>3. IsFiniteSet({1}) /\ {1} \ {1} = {}
      BY FS_Singleton
    <2>4. SumFunctionOnSet(f, {1}) = f[1] + SumFunctionOnSet(f, {1} \ {1})
      BY <2>2, <2>3, SumTakeOut
    <2>5. SumFunctionOnSet(f, {1}) = t[Depth][1].sum
      BY <2>1, <2>2, <2>3, <2>4, SumEmpty
    <2> QED BY <2>5 DEF f
  <1>9. Total0 = SumFunction([i \in 1..NLeaves |-> leaves[i].sum])
    BY <1>1, <1>2 DEF SumFunction
  <1> QED BY <1>5, <1>7, <1>8, <1>9

----------------------------------------------------------------------------
(***************************************************************************)
(* The circuits' tree.                                                     *)
(***************************************************************************)

\* What the circuit computes of two nodes is what the page computed of them.
LEMMA NodeOfParent ==
  ASSUME NEW l, NEW r, l.sum \in Int, r.sum \in Int
  PROVE  Node(PageParent(l, r)) = MerkleSumParent(Node(l), Node(r))
  <1> DEFINE p == PageParent(l, r)
             h == <<l.hash, Reduce(l.sum), r.hash, Reduce(r.sum)>>
  <1>1. p.hash = h /\ p.sum = l.sum + r.sum
    BY DEF PageParent
  <1>2. Node(p) = [hash |-> h, sum |-> Reduce(l.sum + r.sum)]
    BY <1>1 DEF Node
  <1>3. MerkleSumParent(Node(l), Node(r)) =
          [hash |-> h, sum |-> Reduce(Reduce(l.sum) + Reduce(r.sum))]
    BY DEF Node, MerkleSumParent
  <1> QED BY <1>2, <1>3, ReduceSum

CircuitLevels(f, leaves) ==
  f = [d \in 0..Depth |-> IF d = Depth THEN leaves ELSE MerkleSumLayer(f[d + 1])]

NodesOf(level) == [i \in DOMAIN level |-> Node(level[i])]

\* Level d of the circuit holds the nodes of level Depth - d of the page.
LEMMA CircuitLevelsOfTree ==
  ASSUME NEW t, NEW leaves, IsTree(t, leaves), DOMAIN leaves = 1..NLeaves,
         \A i \in 1..NLeaves : leaves[i].sum \in Int
  PROVE  CircuitLevels([d \in 0..Depth |-> NodesOf(t[Depth - d])], NodesOf(leaves))
  <1> DEFINE f == [d \in 0..Depth |-> NodesOf(t[Depth - d])]
  <1>1. /\ t[0] = leaves
        /\ \A d \in 0..(Depth - 1) : t[d + 1] = Parents(t[d], Pow(2, Depth - (d + 1)))
    BY TreeLevels
  <1>2. \A d \in 0..Depth : \A i \in 1..Pow(2, Depth - d) : t[d][i].sum \in Int
    BY TreeSums
  <1>3. \A d \in 0..Depth : DOMAIN t[d] = 1..Pow(2, Depth - d)
    <2> SUFFICES ASSUME NEW d \in 0..Depth PROVE DOMAIN t[d] = 1..Pow(2, Depth - d)
      OBVIOUS
    <2>1. CASE d = 0
      <3>1. Depth - 0 = Depth
        BY WidthsAssumption
      <3> QED BY <1>1, <2>1, <3>1 DEF NLeaves
    <2>2. CASE d # 0
      <3>1. d - 1 \in 0..(Depth - 1) /\ (d - 1) + 1 = d
        BY <2>2, WidthsAssumption
      <3>2. t[d] = Parents(t[d - 1], Pow(2, Depth - d))
        BY <1>1, <3>1
      <3> QED BY <3>2 DEF Parents
    <2> QED BY <2>1, <2>2
  <1>4. f[Depth] = NodesOf(leaves)
    <2>1. Depth - Depth = 0 /\ Depth \in 0..Depth
      BY WidthsAssumption
    <2> QED BY <1>1, <2>1
  <1>5. ASSUME NEW d \in 0..Depth, d # Depth PROVE f[d] = MerkleSumLayer(f[d + 1])
    <2> DEFINE e == Depth - (d + 1)
               m == Pow(2, d)
               row == t[e]
    <2>1. /\ d + 1 \in 0..Depth /\ e \in 0..(Depth - 1) /\ e \in 0..Depth
          /\ e + 1 = Depth - d /\ Depth - (e + 1) = d
      BY <1>5, WidthsAssumption
    <2>2. f[d] = NodesOf(t[e + 1]) /\ f[d + 1] = NodesOf(row)
      BY <2>1
    <2>3. t[e + 1] = Parents(row, m)
      BY <1>1, <2>1
    <2>4. m \in Nat \ {0} /\ Pow(2, Depth - e) = 2 * m
      <3> HIDE DEF e
      <3>1. m = Pow(2, Depth - (e + 1)) /\ e + 1 \in 0..Depth
        BY <2>1, WidthsAssumption
      <3> HIDE DEF m
      <3> QED BY <2>1, <3>1, LevelWidth
    <2>5. DOMAIN row = 1..(2 * m) /\ \A i \in 1..(2 * m) : row[i].sum \in Int
      BY <1>2, <1>3, <2>1, <2>4
    <2> HIDE DEF e, m, row, f
    <2>6. /\ DOMAIN NodesOf(row) = 1..(2 * m)
          /\ \A i \in 1..(2 * m) : NodesOf(row)[i] = Node(row[i])
      BY <2>5 DEF NodesOf
    <2>7. Len(NodesOf(row)) = 2 * m
      <3>1. NodesOf(row) = [i \in 1..(2 * m) |-> Node(row[i])]
        BY <2>5 DEF NodesOf
      <3>2. 2 * m \in Nat
        BY <2>4
      <3> QED BY <3>1, <3>2
    <2>8. (2 * m) \div 2 = m
      BY <2>4
    <2>9. MerkleSumLayer(NodesOf(row)) =
            [i \in 1..m |-> MerkleSumParent(NodesOf(row)[2*i - 1], NodesOf(row)[2*i])]
      BY <2>7, <2>8 DEF MerkleSumLayer
    <2>10. ASSUME NEW i \in 1..m
           PROVE  Node(PageParent(row[2*i - 1], row[2*i]))
                    = MerkleSumParent(NodesOf(row)[2*i - 1], NodesOf(row)[2*i])
      <3>1. 2*i - 1 \in 1..(2 * m) /\ 2*i \in 1..(2 * m)
        BY <2>4
      <3>2. row[2*i - 1].sum \in Int /\ row[2*i].sum \in Int
        BY <2>5, <3>1
      <3>3. Node(PageParent(row[2*i - 1], row[2*i]))
              = MerkleSumParent(Node(row[2*i - 1]), Node(row[2*i]))
        BY <3>2, NodeOfParent
      <3> QED BY <2>6, <3>1, <3>3
    <2>11. NodesOf(t[e + 1]) = [i \in 1..m |-> Node(PageParent(row[2*i - 1], row[2*i]))]
      BY <2>3 DEF NodesOf, Parents
    <2> QED BY <2>2, <2>9, <2>10, <2>11
  <1>6. f = [d \in 0..Depth |-> IF d = Depth THEN NodesOf(leaves) ELSE MerkleSumLayer(f[d + 1])]
    <2>1. f = [d \in 0..Depth |-> f[d]]
      OBVIOUS
    <2> HIDE DEF f
    <2> QED BY <1>4, <1>5, <2>1
  <1> HIDE DEF f
  <1>7. CircuitLevels(f, NodesOf(leaves))
    BY <1>6 DEF CircuitLevels
  <1> QED BY <1>7 DEF f

\* MerkleSumRoot reads the one solution there is.
LEMMA CircuitRoot ==
  ASSUME NEW t, NEW leaves, IsTree(t, leaves), DOMAIN leaves = 1..NLeaves,
         \A i \in 1..NLeaves : leaves[i].sum \in Int
  PROVE  MerkleSumRoot(NodesOf(leaves)) = Node(t[Depth][1])
  <1> DEFINE ns == NodesOf(leaves)
             f == [d \in 0..Depth |-> NodesOf(t[Depth - d])]
             level == CHOOSE g : CircuitLevels(g, ns)
  <1>1. MerkleSumRoot(ns) = level[0][1]
    BY DEF MerkleSumRoot, CircuitLevels
  <1>2. CircuitLevels(f, ns)
    BY CircuitLevelsOfTree
  <1>3. CircuitLevels(level, ns)
    BY <1>2, Zenon
  <1>4. f[0] = NodesOf(t[Depth])
    <2>1. 0 \in 0..Depth /\ Depth - 0 = Depth
      BY WidthsAssumption
    <2> QED BY <2>1
  <1> HIDE DEF level, f, ns
  <1> DEFINE Q == {k \in 0..Depth : level[Depth - k] = f[Depth - k]}
  <1>5. 0 \in Q
    <2>1. Depth - 0 = Depth /\ 0 \in 0..Depth /\ Depth \in 0..Depth
      BY WidthsAssumption
    <2> QED BY <1>2, <1>3, <2>1 DEF CircuitLevels
  <1>6. ASSUME NEW k \in 0..(Depth - 1), k \in Q PROVE k + 1 \in Q
    <2> DEFINE d == Depth - (k + 1)
    <2>1. d \in 0..Depth /\ d # Depth /\ d + 1 = Depth - k /\ k + 1 \in 0..Depth
      BY WidthsAssumption
    <2>2. level[d + 1] = f[d + 1]
      BY <1>6, <2>1
    <2> HIDE DEF d
    <2>3. level[d] = MerkleSumLayer(level[d + 1]) /\ f[d] = MerkleSumLayer(f[d + 1])
      BY <1>2, <1>3, <2>1 DEF CircuitLevels
    <2> QED BY <2>1, <2>2, <2>3 DEF d
  <1> HIDE DEF Q
  <1>7. Depth \in Q
    <2>1. Depth \in 0..Depth
      BY WidthsAssumption
    <2> QED BY <1>5, <1>6, <2>1, LevelInduction
  <1>8. level[0] = f[0]
    <2>1. Depth - Depth = 0
      BY WidthsAssumption
    <2> QED BY <1>7, <2>1 DEF Q
  <1>9. NodesOf(t[Depth])[1] = Node(t[Depth][1])
    <2>1. 1 \in DOMAIN t[Depth]
      <3>1. CASE Depth = 0
        <4>1. t[Depth] = leaves
          BY <3>1, TreeLevels
        <4> QED BY <4>1, LevelWidth
      <3>2. CASE Depth # 0
        <4>1. Depth - 1 \in 0..(Depth - 1) /\ (Depth - 1) + 1 = Depth
          BY <3>2, WidthsAssumption
        <4>2. t[Depth] = Parents(t[Depth - 1], Pow(2, Depth - Depth))
          BY <4>1, TreeLevels
        <4>3. Depth - Depth = 0 /\ Pow(2, 0) = 1
          BY PowLaws, WidthsAssumption
        <4> QED BY <4>2, <4>3 DEF Parents
      <3> QED BY <3>1, <3>2
    <2> QED BY <2>1 DEF NodesOf
  <1> QED BY <1>1, <1>4, <1>8, <1>9 DEF ns

----------------------------------------------------------------------------
(***************************************************************************)
(* The page's figures in the circuits' field.                              *)
(***************************************************************************)

IsBook(balances) == balances \in Seq(FigureRange) /\ Len(balances) <= NLeaves

InRange(balances) ==
  \A i \in DOMAIN balances : balances[i] \in 0..(Pow(2, BalanceBits) - 1)

\* How the widths of the circuits relate to each other and to the field.
LEMMA Widths ==
  /\ CmpBits \in Nat /\ RiskBits \in Nat
  /\ Pow(2, BalanceBits) \in Nat \ {0} /\ Pow(2, BpsBits) \in Nat \ {0}
  /\ Pow(2, CmpBits) \in Nat \ {0}
  /\ Pow(2, CmpBits) = 2 * (NLeaves * Pow(2, BalanceBits))
  /\ Pow(2, RiskBits) = Pow(2, CmpBits) * Pow(2, BpsBits)
  /\ Pow(2, BalanceBits) <= Pow(2, CmpBits) /\ Pow(2, CmpBits) <= Pow(2, RiskBits)
  /\ Pow(2, BpsBits) <= FieldModulus /\ Pow(2, BalanceBits) <= FieldModulus
  /\ Pow(2, CmpBits) <= FieldModulus /\ Pow(2, CmpBits + 1) <= FieldModulus
  /\ Pow(2, RiskBits + 1) <= FieldModulus /\ Pow(2, RiskBits) < FieldModulus
  <1>1. /\ Depth \in Nat /\ BalanceBits \in Nat /\ BpsBits \in Nat
        /\ Pow(2, RiskBits + 1) < FieldModulus /\ FieldModulus \in Nat
    BY WidthsAssumption, ModulusAssumption
  <1>2. /\ CmpBits \in Nat /\ RiskBits \in Nat /\ CmpBits = (Depth + BalanceBits) + 1
        /\ RiskBits = CmpBits + BpsBits
    BY <1>1 DEF CmpBits, RiskBits
  <1>3. \A n \in Nat : Pow(2, n) \in Nat \ {0} /\ Pow(2, n + 1) = 2 * Pow(2, n)
    BY PowLaws, PowGrows
  <1>0. \A m, n \in Nat : Pow(2, m) <= Pow(2, m + n)
    <2>1. 2 \in Nat \ {0}
      OBVIOUS
    <2> QED BY <2>1, PowGrows
  <1>4. Pow(2, CmpBits) = 2 * (NLeaves * Pow(2, BalanceBits))
    <2>1. Depth + BalanceBits \in Nat
      BY <1>1
    <2>2. Pow(2, Depth + BalanceBits) = Pow(2, Depth) * Pow(2, BalanceBits)
      BY <1>1, PowAdds
    <2> QED BY <1>2, <1>3, <2>1, <2>2 DEF NLeaves
  <1>5. Pow(2, RiskBits) = Pow(2, CmpBits) * Pow(2, BpsBits)
    BY <1>1, <1>2, PowAdds
  <1>6. /\ Pow(2, BalanceBits) <= Pow(2, CmpBits)
        /\ Pow(2, BpsBits) <= Pow(2, RiskBits)
        /\ Pow(2, CmpBits) <= Pow(2, RiskBits)
    <2>1. /\ CmpBits = BalanceBits + (Depth + 1) /\ Depth + 1 \in Nat
          /\ RiskBits = BpsBits + CmpBits
      BY <1>1, <1>2
    <2>2. Pow(2, BalanceBits) <= Pow(2, BalanceBits + (Depth + 1))
      BY <1>1, <1>0, <2>1
    <2>3. Pow(2, BpsBits) <= Pow(2, BpsBits + CmpBits)
      BY <1>1, <1>2, <1>0
    <2>4. Pow(2, CmpBits) <= Pow(2, CmpBits + BpsBits)
      BY <1>1, <1>2, <1>0
    <2> QED BY <1>2, <2>1, <2>2, <2>3, <2>4
  <1>7. Pow(2, CmpBits + 1) <= Pow(2, RiskBits + 1)
    BY <1>2, <1>3, <1>6
  <1>8. Pow(2, RiskBits) < Pow(2, RiskBits + 1)
    BY <1>2, <1>3
  <1> DEFINE b == Pow(2, BalanceBits)
             p == Pow(2, BpsBits)
             c == Pow(2, CmpBits)
             c1 == Pow(2, CmpBits + 1)
             r == Pow(2, RiskBits)
             r1 == Pow(2, RiskBits + 1)
  <1>9. /\ b \in Nat \ {0} /\ p \in Nat \ {0} /\ c \in Nat \ {0} /\ c1 \in Nat \ {0}
        /\ r \in Nat \ {0} /\ r1 \in Nat \ {0}
    BY <1>1, <1>2, <1>3
  <1>10. b <= c /\ p <= r /\ c <= r /\ c1 <= r1 /\ r < r1 /\ r1 < FieldModulus
    BY <1>1, <1>6, <1>7, <1>8
  <1>11. /\ p <= FieldModulus /\ b <= FieldModulus /\ c <= FieldModulus /\ c1 <= FieldModulus
         /\ r1 <= FieldModulus /\ r < FieldModulus
    <2> HIDE DEF b, p, c, c1, r, r1
    <2> QED BY <1>1, <1>9, <1>10
  <1> QED BY <1>2, <1>4, <1>5, <1>6, <1>9, <1>11

\* A figure in the field passes a range check exactly when it is a number that
\* short, and is then unchanged.
LEMMA FigureInField ==
  ASSUME NEW x \in FigureRange
  PROVE  /\ x \in Int /\ ProveBalance(x) \in Field /\ Reduce(x) = ProveBalance(x)
         /\ \A b \in 0..Pow(2, CmpBits) : ProveBalance(x) < b <=> x \in 0..(b - 1)
         /\ x >= 0 => ProveBalance(x) = x
  <1> DEFINE c == Pow(2, CmpBits)
             d == FieldModulus
  <1>1. c \in Nat \ {0} /\ d \in Nat \ {0} /\ c <= d
    BY Widths, ModulusAssumption
  <1>2. x \in Int /\ c - d <= x /\ x <= d - 1
    BY <1>1 DEF FigureRange
  <1>3. ProveBalance(x) = IF x < 0 THEN d + x ELSE x
    BY DEF ProveBalance
  <1>4. ProveBalance(x) \in Field
    <2> HIDE DEF c
    <2> QED BY <1>1, <1>2, <1>3 DEF Field
  <1>5. Reduce(x) = ProveBalance(x)
    <2>1. CASE x >= 0
      BY <1>2, <1>3, <1>4, <2>1, ReduceLaws
    <2>2. CASE x < 0
      <3>1. Reduce(x + (1 * d)) = Reduce(x)
        BY <1>2, ReduceLaws
      <3>2. x + (1 * d) = ProveBalance(x)
        BY <1>1, <1>2, <1>3, <2>2
      <3> QED BY <1>4, <3>1, <3>2, ReduceLaws
    <2> QED BY <1>2, <2>1, <2>2
  <1>6. ASSUME NEW b \in 0..c PROVE ProveBalance(x) < b <=> x \in 0..(b - 1)
    <2> HIDE DEF c
    <2> QED BY <1>1, <1>2, <1>3
  <1> QED BY <1>2, <1>3, <1>4, <1>5, <1>6

\* Padding a book with zeros leaves its sum.
LEMMA PaddedBook ==
  ASSUME NEW balances, IsBook(balances)
  PROVE  /\ Len(balances) \in Nat /\ DOMAIN balances = 1..Len(balances)
         /\ DOMAIN balances \subseteq 1..NLeaves
         /\ \A i \in DOMAIN balances : /\ balances[i] \in FigureRange
                                       /\ PadBook(balances)[i] = ProveBalance(balances[i])
         /\ \A i \in 1..NLeaves : i \notin DOMAIN balances => PadBook(balances)[i] = 0
         /\ \A i \in 1..NLeaves : /\ PadBook(balances)[i] \in Field
                                  /\ Reduce(PadBook(balances)[i]) = PadBook(balances)[i]
         /\ SumFunction(PadBook(balances))
              = SumFunction([i \in DOMAIN balances |-> ProveBalance(balances[i])])
  <1> DEFINE n == Len(balances)
             f == PadBook(balances)
             e == [i \in DOMAIN balances |-> ProveBalance(balances[i])]
             S == 1..n
             T == 1..NLeaves
  <1>1. n \in Nat /\ DOMAIN balances = S /\ \A i \in S : balances[i] \in FigureRange
    BY DEF IsBook
  <1>2. S \subseteq T /\ IsFiniteSet(S) /\ IsFiniteSet(T)
    BY <1>1, LevelWidth, FS_Interval DEF IsBook
  <1>3. DOMAIN f = T /\ DOMAIN e = S /\ \A i \in S : f[i] = ProveBalance(balances[i]) /\ e[i] = f[i]
    BY <1>1, <1>2 DEF PadBook
  <1>4. \A i \in T \ S : f[i] = 0
    BY <1>1 DEF PadBook
  <1>5. \A i \in S : f[i] \in Field
    BY <1>1, <1>3, FigureInField
  <1>6. 0 \in Field /\ Field \subseteq Int
    BY ModulusAssumption DEF Field
  <1>7. \A i \in T : f[i] \in Field /\ Reduce(f[i]) = f[i]
    BY <1>4, <1>5, <1>6, ReduceLaws
  <1> HIDE DEF f, e, n, S, T
  <1>8. SumFunctionOnSet(f, T) = SumFunctionOnSet(f, S)
    <2>1. \A i \in S : f[i] \in Int
      BY <1>5, <1>6
    <2> QED BY <1>2, <1>4, <2>1, SumZeros
  <1>9. SumFunctionOnSet(f, S) = SumFunctionOnSet(e, S)
    <2>1. \A i \in S : f[i] = e[i]
      BY <1>3
    <2> QED BY <1>2, <2>1, SumSame
  <1>10. SumFunction(f) = SumFunction(e)
    BY <1>3, <1>8, <1>9 DEF SumFunction
  <1> QED BY <1>1, <1>2, <1>3, <1>4, <1>7, <1>10 DEF f, e, n, S, T

\* A book within the circuits' ranges is its own padded image; its total fits the
\* width of the comparator with a bit to spare.
LEMMA RangedBook ==
  ASSUME NEW balances, IsBook(balances), InRange(balances)
  PROVE  /\ \A i \in DOMAIN balances : PadBook(balances)[i] = balances[i]
         /\ SumFunction(PadBook(balances)) = SumFunction(balances)
         /\ SumFunction(balances) \in Nat
         /\ 2 * SumFunction(balances) <= Pow(2, CmpBits)
         /\ SumFunction(balances) < Pow(2, CmpBits)
  <1> DEFINE b == Pow(2, BalanceBits)
             c == Pow(2, CmpBits)
             n == Len(balances)
             S == 1..n
             e == [i \in DOMAIN balances |-> ProveBalance(balances[i])]
             s == SumFunction(balances)
  <1>1. n \in Nat /\ DOMAIN balances = S /\ S \subseteq 1..NLeaves /\ n <= NLeaves
    BY PaddedBook DEF IsBook
  <1>2. \A i \in S : balances[i] \in Int /\ balances[i] >= 0 /\ balances[i] <= b
    <2>1. b \in Nat
      BY Widths
    <2> HIDE DEF b, S
    <2>2. \A i \in S : balances[i] \in 0..(b - 1)
      BY <1>1 DEF InRange, b
    <2> QED BY <2>1, <2>2
  <1>3. \A i \in S : ProveBalance(balances[i]) = balances[i]
    BY <1>2 DEF ProveBalance
  <1>4. IsFiniteSet(S) /\ Cardinality(S) = n
    BY <1>1, FS_Interval
  <1>5. SumFunction(e) = s
    <2>1. DOMAIN e = S /\ \A i \in S : e[i] = balances[i]
      BY <1>1, <1>3
    <2> HIDE DEF e, S
    <2>2. SumFunctionOnSet(e, S) = SumFunctionOnSet(balances, S)
      BY <1>4, <2>1, SumSame
    <2> QED BY <1>1, <2>1, <2>2 DEF SumFunction
  <1>6. s \in Nat /\ s <= n * b
    <2>1. b \in Int
      BY Widths
    <2> HIDE DEF S, n, b
    <2>2. SumFunctionOnSet(balances, S) \in Nat
      BY <1>2, <1>4, SumType
    <2>3. SumFunctionOnSet(balances, S) <= Cardinality(S) * b
      BY <1>2, <1>4, <2>1, SumBound
    <2> QED BY <1>1, <1>4, <2>2, <2>3 DEF SumFunction
  <1>7. 2 * s <= c
    <2>1. b \in Nat \ {0} /\ NLeaves \in Nat \ {0} /\ c = 2 * (NLeaves * b)
      BY Widths, LevelWidth
    <2> HIDE DEF n, b, c, s
    <2>2. \A x, y \in Nat, z \in Nat : x <= y => x * z <= y * z
      OBVIOUS
    <2>3. n * b <= NLeaves * b /\ n * b \in Nat /\ NLeaves * b \in Nat
      BY <1>1, <2>1, <2>2
    <2> QED BY <1>6, <2>1, <2>3
  <1>8. s < c
    <2>1. c \in Nat \ {0}
      BY Widths
    <2> HIDE DEF c, s
    <2> QED BY <1>6, <1>7, <2>1
  <1>9. /\ SumFunction(PadBook(balances)) = SumFunction(e)
        /\ \A i \in S : PadBook(balances)[i] = ProveBalance(balances[i])
    BY <1>1, PaddedBook
  <1> QED BY <1>1, <1>3, <1>5, <1>6, <1>7, <1>8, <1>9

\* Whatever the leaves' commitments, the circuits' root carries the sum of the
\* padded book, reduced.
LEMMA CircuitTotal ==
  ASSUME NEW balances, IsBook(balances), NEW w,
         w.balances = [i \in 1..NLeaves |-> Reduce(PadBook(balances)[i])]
  PROVE  MerkleSumRoot(MerkleLeaves(w)).sum = Reduce(SumFunction(PadBook(balances)))
  <1> DEFINE p == PadBook(balances)
             leaves == [i \in 1..NLeaves |-> [hash |-> LeafHash(w.acctCommit[i], Reduce(p[i])),
                                              sum |-> p[i]]]
  <1>1. DOMAIN leaves = 1..NLeaves /\ \A i \in 1..NLeaves : leaves[i].sum = p[i]
    OBVIOUS
  <1>2. \A i \in 1..NLeaves : p[i] \in Int
    BY PaddedBook, FieldNumbers, Zenon
  <1>3. PICK t : IsTree(t, leaves)
    BY TreeExists
  <1>4. MerkleLeaves(w) = NodesOf(leaves)
    BY DEF MerkleLeaves, NodesOf, Node
  <1>5. p = [i \in 1..NLeaves |-> leaves[i].sum]
    BY DEF PadBook
  <1> HIDE DEF p, leaves
  <1>6. MerkleSumRoot(NodesOf(leaves)) = Node(t[Depth][1])
    BY <1>1, <1>2, <1>3, CircuitRoot
  <1>7. t[Depth][1].sum = SumFunction([i \in 1..NLeaves |-> leaves[i].sum])
    BY <1>1, <1>2, <1>3, TreeSums
  <1> QED BY <1>4, <1>5, <1>6, <1>7 DEF Node, p

\* The circuit rebuilds the page's tree: the root and the total the page takes
\* from its levels are those the constraints compute.
LEMMA SolvencyRoot ==
  ASSUME NEW balances, IsBook(balances), NEW reserves, NEW w,
         w.rootHash = SolvencyInput(balances, reserves).rootHash,
         w.balances = SolvencyInput(balances, reserves).balances,
         w.acctCommit = SolvencyInput(balances, reserves).acctCommit
  PROVE  /\ MerkleSumRoot(MerkleLeaves(w)).hash = w.rootHash
         /\ MerkleSumRoot(MerkleLeaves(w)).sum = Reduce(SumFunction(PadBook(balances)))
         /\ SolvencyInput(balances, reserves).total = Reduce(SumFunction(PadBook(balances)))
         /\ SolvencyInput(balances, reserves).reserves = Reduce(reserves)
  <1> DEFINE p == PadBook(balances)
             t == BuildTree(balances)
             leaves == PageLeaves(balances)
  <1>1. /\ w.rootHash = t[Depth][1].hash
        /\ w.balances = [i \in 1..NLeaves |-> Reduce(p[i])]
        /\ w.acctCommit = [i \in 1..NLeaves |-> AcctCommit(i)]
        /\ SolvencyInput(balances, reserves).total = Reduce(t[Depth][1].sum)
        /\ SolvencyInput(balances, reserves).reserves = Reduce(reserves)
    BY DEF SolvencyInput
  <1>2. DOMAIN leaves = 1..NLeaves /\ \A i \in 1..NLeaves : leaves[i].sum = p[i]
    BY DEF PageLeaves
  <1>3. \A i \in 1..NLeaves : p[i] \in Int
    BY PaddedBook, FieldNumbers, Zenon
  <1>4. IsTree(t, leaves)
    BY BuildTreeIsTree
  <1>5. MerkleLeaves(w) = NodesOf(leaves)
    BY <1>1 DEF MerkleLeaves, NodesOf, Node, PageLeaves
  <1>6. p = [i \in 1..NLeaves |-> leaves[i].sum]
    BY DEF PadBook, PageLeaves
  <1> HIDE DEF p, leaves, t
  <1>7. MerkleSumRoot(NodesOf(leaves)) = Node(t[Depth][1])
    BY <1>2, <1>3, <1>4, CircuitRoot
  <1>8. t[Depth][1].sum = SumFunction([i \in 1..NLeaves |-> leaves[i].sum])
    BY <1>2, <1>3, <1>4, TreeSums
  <1> QED BY <1>1, <1>5, <1>6, <1>7, <1>8 DEF Node, p

----------------------------------------------------------------------------
(***************************************************************************)
(* What the constraint systems mean in integers.                           *)
(***************************************************************************)

\* A product of a figure that fits the comparator and of a number no larger than
\* a bound may be does not wrap, and fits the wider comparator.
LEMMA BoundedProduct ==
  ASSUME NEW x \in Nat, NEW y \in Nat, x < Pow(2, CmpBits), y <= Pow(2, BpsBits)
  PROVE  /\ x * y \in Nat /\ x * y < Pow(2, RiskBits)
         /\ Reduce(x * y) = x * y
  <1> DEFINE c == Pow(2, CmpBits)
             p == Pow(2, BpsBits)
             r == Pow(2, RiskBits)
  <1>1. c \in Nat \ {0} /\ p \in Nat \ {0} /\ r = c * p /\ r < FieldModulus
    BY Widths
  <1>2. x < c /\ y <= p
    OBVIOUS
  <1> HIDE DEF c, p, r
  <1>3. \A i, j, k \in Nat : i <= j => i * k <= j * k /\ k * i <= k * j
    OBVIOUS
  <1>4. x * y <= x * p /\ x * p \in Nat /\ x * y \in Nat
    BY <1>1, <1>2, <1>3
  <1>5. (x + 1) * p <= c * p /\ (x + 1) * p = (x * p) + p
    BY <1>1, <1>2, <1>3
  <1>6. x * y < r
    BY <1>1, <1>4, <1>5
  <1>7. x * y \in Field
    BY <1>1, <1>4, <1>6, ModulusAssumption DEF Field
  <1> QED BY <1>4, <1>6, <1>7, ReduceLaws DEF r

\* A witness for a book, a reserve figure and some commitments of its leaves.
IsWitness(w, balances, reserves) ==
  /\ w.balances = [i \in 1..NLeaves |-> Reduce(PadBook(balances)[i])]
  /\ w.total = Reduce(SumFunction(PadBook(balances)))
  /\ w.reserves = Reduce(reserves)
  /\ MerkleSumRoot(MerkleLeaves(w)).hash = w.rootHash

Solvent(balances, reserves) ==
  /\ InRange(balances)
  /\ reserves \in 0..(Pow(2, CmpBits) - 1)
  /\ SumFunction(balances) <= reserves

\* The constraints of solvency.circom hold exactly of a solvent book, and its
\* signals are then the figures of the page: no negative, no wrapped and no
\* oversized entry satisfies them.
THEOREM SolvencyMeans ==
  ASSUME NEW balances, IsBook(balances), NEW reserves \in FigureRange,
         NEW w, IsWitness(w, balances, reserves)
  PROVE  /\ SolvencyConstraints(w) <=> Solvent(balances, reserves)
         /\ Solvent(balances, reserves) =>
              w.total = SumFunction(balances) /\ w.reserves = reserves
  <1> DEFINE p == PadBook(balances)
             b == Pow(2, BalanceBits)
             c == Pow(2, CmpBits)
             s == SumFunction(balances)
  <1>1. /\ b \in Nat \ {0} /\ c \in Nat \ {0} /\ b <= c /\ c <= FieldModulus
        /\ BalanceBits \in Nat /\ CmpBits \in Nat
    BY Widths, WidthsAssumption
  <1>2. \A i \in 1..NLeaves : /\ p[i] \in Field /\ w.balances[i] = p[i]
    <2>1. \A i \in 1..NLeaves : p[i] \in Field /\ Reduce(p[i]) = p[i]
      BY PaddedBook
    <2> HIDE DEF p
    <2> QED BY <2>1 DEF IsWitness, p
  <1>3. BalanceBitsChecked(w) <=> InRange(balances)
    <2>1. \A x \in Field : InBits(BalanceBits, x) <=> x < b
      BY Widths, WidthsAssumption, RangeCheck
    <2>2. BalanceBitsChecked(w) <=> \A i \in 1..NLeaves : p[i] < b
      <3> HIDE DEF p, b
      <3> QED BY <1>2, <2>1 DEF BalanceBitsChecked
    <2>3. /\ \A i \in 1..NLeaves : i \notin DOMAIN balances => p[i] = 0
          /\ \A i \in DOMAIN balances : p[i] = ProveBalance(balances[i])
          /\ DOMAIN balances \subseteq 1..NLeaves
          /\ \A i \in DOMAIN balances : balances[i] \in FigureRange
      BY PaddedBook
    <2>4. \A i \in DOMAIN balances : ProveBalance(balances[i]) < b <=> balances[i] \in 0..(b - 1)
      <3>1. b \in 0..c
        <4> HIDE DEF b, c
        <4> QED BY <1>1
      <3> HIDE DEF b
      <3> QED BY <2>3, <3>1, FigureInField
    <2>5. 0 < b
      BY <1>1
    <2>6. InRange(balances) <=> \A i \in DOMAIN balances : p[i] < b
      <3> HIDE DEF p
      <3> QED BY <2>3, <2>4 DEF InRange
    <2> HIDE DEF p, b
    <2> QED BY <2>2, <2>3, <2>5, <2>6
  <1>4. InBits(CmpBits, w.reserves) <=> reserves \in 0..(c - 1)
    <2>1. w.reserves = ProveBalance(reserves) /\ ProveBalance(reserves) \in Field
      BY FigureInField DEF IsWitness
    <2>2. InBits(CmpBits, w.reserves) <=> ProveBalance(reserves) < c
      BY <1>1, <2>1, RangeCheck
    <2>3. c \in 0..c
      <3> HIDE DEF c
      <3> QED BY <1>1
    <2>4. ProveBalance(reserves) < c <=> reserves \in 0..(c - 1)
      BY <2>3, FigureInField
    <2> QED BY <2>2, <2>4
  <1>5. ASSUME reserves \in 0..(c - 1) PROVE w.reserves = reserves
    <2>1. reserves >= 0
      <3> HIDE DEF c
      <3> QED BY <1>1, <1>5
    <2> QED BY <2>1, FigureInField DEF IsWitness
  <1>6. ASSUME InRange(balances) PROVE w.total = s /\ s \in Nat /\ s < c
    <2>1. SumFunction(p) = s /\ s \in Nat /\ s < c
      BY <1>6, RangedBook
    <2>2. s \in Field
      <3> HIDE DEF s, c
      <3> QED BY <1>1, <2>1, ModulusAssumption DEF Field
    <2> QED BY <2>1, <2>2, ReduceLaws DEF IsWitness
  <1>7. ASSUME InRange(balances), reserves \in 0..(c - 1)
        PROVE  LessEqThan(CmpBits, w.total, w.reserves) <=> s <= reserves
    <2>1. reserves \in Nat /\ reserves < c
      <3> HIDE DEF c
      <3> QED BY <1>1, <1>7
    <2>2. Pow(2, CmpBits + 1) <= FieldModulus
      BY Widths
    <2>3. LessEqThan(CmpBits, s, reserves) <=> s <= reserves
      <3>1. s \in Nat /\ s < Pow(2, CmpBits)
        BY <1>6, <1>7
      <3> HIDE DEF s
      <3> QED BY <1>1, <2>1, <2>2, <3>1, Comparators
    <2> QED BY <1>5, <1>6, <1>7, <2>3
  <1>8. MerkleSumRoot(MerkleLeaves(w)).sum = w.total
    BY CircuitTotal DEF IsWitness
  <1>9. SolvencyConstraints(w) <=>
          /\ BalanceBitsChecked(w)
          /\ InBits(CmpBits, w.reserves)
          /\ LessEqThan(CmpBits, w.total, w.reserves)
    BY <1>8 DEF SolvencyConstraints, IsWitness
  <1> QED BY <1>3, <1>4, <1>5, <1>6, <1>7, <1>9 DEF Solvent

\* The cap and the floor of a book, in basis points.
Capped(amount, balances, conc) == amount * BpsUnit <= conc * SumFunction(balances)

Covered(balances, reserves, coll) ==
  coll * SumFunction(balances) <= reserves * BpsUnit

\* The wide comparators compare amounts a solvent book can have.
LEMMA BoundsCompared ==
  ASSUME NEW balances, IsBook(balances), NEW reserves \in FigureRange,
         NEW w, IsWitness(w, balances, reserves), Solvent(balances, reserves)
  PROVE  /\ \A amount \in Nat :
              amount < Pow(2, CmpBits) /\ w.maxConcBps \in 0..(Pow(2, BpsBits) - 1) =>
                (Concentrated(w, amount) <=> Capped(amount, balances, w.maxConcBps))
         /\ w.minCollBps \in 0..(Pow(2, BpsBits) - 1) =>
              (Collateralized(w) <=> Covered(balances, reserves, w.minCollBps))
  <1> DEFINE c == Pow(2, CmpBits)
             p == Pow(2, BpsBits)
             r == Pow(2, RiskBits)
             s == SumFunction(balances)
  <1>1. /\ c \in Nat \ {0} /\ p \in Nat \ {0} /\ RiskBits \in Nat
        /\ Pow(2, RiskBits + 1) <= FieldModulus
    BY Widths
  <1>2. BpsUnit \in Nat /\ BpsUnit <= p
    <2>1. BpsUnit \in 1..p
      BY WidthsAssumption
    <2> HIDE DEF p
    <2> QED BY <1>1, <2>1
  <1>3. w.total = s /\ w.reserves = reserves
    BY SolvencyMeans
  <1>4. s \in Nat /\ s < c
    BY RangedBook DEF Solvent
  <1>5. reserves \in Nat /\ reserves < c
    <2>1. reserves \in 0..(c - 1)
      BY DEF Solvent
    <2> HIDE DEF c
    <2> QED BY <1>1, <2>1
  <1>6. \A a, b \in Nat : a < r /\ b < r => (LessEqThan(RiskBits, a, b) <=> a <= b)
    BY <1>1, Comparators
  <1> HIDE DEF s
  <1>7. ASSUME NEW amount \in Nat, amount < c, w.maxConcBps \in 0..(p - 1)
        PROVE  Concentrated(w, amount) <=> Capped(amount, balances, w.maxConcBps)
    <2> DEFINE k == w.maxConcBps
               x == amount * BpsUnit
               y == k * s
    <2>1. k \in Nat /\ k <= p
      <3> HIDE DEF p
      <3> QED BY <1>1, <1>7
    <2>2. x \in Nat /\ x < r /\ Reduce(x) = x
      BY <1>2, <1>7, BoundedProduct
    <2>3. y \in Nat /\ y < r /\ Reduce(y) = y
      <3> HIDE DEF k
      <3>1. s * k \in Nat /\ s * k < r /\ Reduce(s * k) = s * k
        BY <1>4, <2>1, BoundedProduct
      <3>2. s * k = k * s
        BY <1>4, <2>1
      <3> QED BY <3>1, <3>2
    <2>4. Concentrated(w, amount) <=> LessEqThan(RiskBits, Reduce(x), Reduce(y))
      BY <1>3 DEF Concentrated
    <2>5. Capped(amount, balances, k) <=> x <= y
      BY DEF Capped, s
    <2> HIDE DEF x, y, r
    <2> QED BY <1>6, <2>2, <2>3, <2>4, <2>5
  <1>8. ASSUME w.minCollBps \in 0..(p - 1)
        PROVE  Collateralized(w) <=> Covered(balances, reserves, w.minCollBps)
    <2> DEFINE k == w.minCollBps
               x == k * s
               y == reserves * BpsUnit
    <2>1. k \in Nat /\ k <= p
      <3> HIDE DEF p
      <3> QED BY <1>1, <1>8
    <2>2. y \in Nat /\ y < r /\ Reduce(y) = y
      BY <1>2, <1>5, BoundedProduct
    <2>3. x \in Nat /\ x < r /\ Reduce(x) = x
      <3> HIDE DEF k
      <3>1. s * k \in Nat /\ s * k < r /\ Reduce(s * k) = s * k
        BY <1>4, <2>1, BoundedProduct
      <3>2. s * k = k * s
        BY <1>4, <2>1
      <3> QED BY <3>1, <3>2
    <2>4. Collateralized(w) <=> LessEqThan(RiskBits, Reduce(x), Reduce(y))
      BY <1>3 DEF Collateralized
    <2>5. Covered(balances, reserves, k) <=> x <= y
      BY DEF Covered, s
    <2> HIDE DEF x, y, r
    <2> QED BY <1>6, <2>2, <2>3, <2>4, <2>5
  <1> QED BY <1>7, <1>8

\* A bound the circuits let through is one its bits spell.
LEMMA BoundsInBits ==
  ASSUME NEW x \in Field
  PROVE  InBits(BpsBits, x) <=> x \in 0..(Pow(2, BpsBits) - 1)
  <1> DEFINE p == Pow(2, BpsBits)
  <1>1. InBits(BpsBits, x) <=> x < p
    BY Widths, WidthsAssumption, RangeCheck
  <1>2. x \in Nat /\ p \in Nat
    BY FieldNumbers, Widths
  <1> HIDE DEF p
  <1>3. InBits(BpsBits, x) <=> x \in 0..(p - 1)
    BY <1>1, <1>2
  <1> QED BY <1>3 DEF p

\* The constraints of risk_solvency.circom hold exactly of a solvent book whose
\* bounds fit their bits and whose balances and reserves meet them, in integers.
THEOREM RiskSolvencyMeans ==
  ASSUME NEW balances, IsBook(balances), NEW reserves \in FigureRange,
         NEW w, IsWitness(w, balances, reserves),
         w.maxConcBps \in Field, w.minCollBps \in Field
  PROVE  RiskSolvencyConstraints(w) <=>
           /\ Solvent(balances, reserves)
           /\ w.maxConcBps < Pow(2, BpsBits) /\ w.minCollBps < Pow(2, BpsBits)
           /\ \A i \in DOMAIN balances : Capped(balances[i], balances, w.maxConcBps)
           /\ Covered(balances, reserves, w.minCollBps)
  <1> DEFINE p == Pow(2, BpsBits)
             k == w.maxConcBps
             m == w.minCollBps
  <1>1. p \in Nat \ {0} /\ k \in Nat /\ m \in Nat
    BY Widths, FieldNumbers
  <1>2. (InBits(BpsBits, k) <=> k < p) /\ (InBits(BpsBits, m) <=> m < p)
    <2>1. (InBits(BpsBits, k) <=> k \in 0..(p - 1)) /\ (InBits(BpsBits, m) <=> m \in 0..(p - 1))
      BY BoundsInBits
    <2> HIDE DEF p, k, m
    <2> QED BY <1>1, <2>1
  <1>3. SolvencyConstraints(w) <=> Solvent(balances, reserves)
    BY SolvencyMeans
  <1>4. ASSUME Solvent(balances, reserves), k < p
        PROVE  (\A i \in 1..NLeaves : Concentrated(w, w.balances[i]))
                 <=> \A i \in DOMAIN balances : Capped(balances[i], balances, k)
    <2> DEFINE f == PadBook(balances)
               c == Pow(2, CmpBits)
    <2>1. k \in 0..(p - 1)
      <3> HIDE DEF p, k
      <3> QED BY <1>1, <1>4
    <2>2. \A amount \in Nat :
            amount < c => (Concentrated(w, amount) <=> Capped(amount, balances, k))
      BY <1>4, <2>1, BoundsCompared
    <2>3. /\ \A i \in 1..NLeaves : i \notin DOMAIN balances => f[i] = 0
          /\ \A i \in DOMAIN balances : f[i] = balances[i]
          /\ DOMAIN balances \subseteq 1..NLeaves
          /\ \A i \in 1..NLeaves : w.balances[i] = f[i]
      <3>1. InRange(balances)
        BY <1>4 DEF Solvent
      <3>2. \A i \in 1..NLeaves : Reduce(f[i]) = f[i]
        BY PaddedBook
      <3>3. \A i \in 1..NLeaves : w.balances[i] = f[i]
        <4> HIDE DEF f
        <4> QED BY <3>2 DEF IsWitness, f
      <3> QED BY <3>1, <3>3, PaddedBook, RangedBook
    <2>4. \A i \in DOMAIN balances : balances[i] \in Nat /\ balances[i] < c
      <3> DEFINE b == Pow(2, BalanceBits)
      <3>1. b \in Nat \ {0} /\ c \in Nat \ {0} /\ b <= c
        BY Widths
      <3>2. \A i \in DOMAIN balances : balances[i] \in 0..(b - 1)
        BY <1>4 DEF Solvent, InRange
      <3> HIDE DEF b, c
      <3> QED BY <3>1, <3>2
    <2>5. 0 \in Nat /\ 0 < c /\ Capped(0, balances, k)
      <3>1. c \in Nat \ {0} /\ BpsUnit \in Nat
        BY Widths, WidthsAssumption
      <3>2. SumFunction(balances) \in Nat
        BY <1>4, RangedBook DEF Solvent
      <3>3. \A x, y \in Nat : 0 * x <= y * x /\ x * y \in Nat /\ 0 * x = 0
        OBVIOUS
      <3> HIDE DEF c, k
      <3>4. k * SumFunction(balances) \in Nat /\ 0 * BpsUnit = 0
        BY <1>1, <3>1, <3>2, <3>3
      <3> QED BY <3>1, <3>4 DEF Capped
    <2> HIDE DEF f, c, k
    <2>6. \A i \in DOMAIN balances :
            Concentrated(w, w.balances[i]) <=> Capped(balances[i], balances, k)
      BY <2>2, <2>3, <2>4
    <2>7. \A i \in 1..NLeaves : i \notin DOMAIN balances => Concentrated(w, w.balances[i])
      BY <2>2, <2>3, <2>5
    <2> QED BY <2>3, <2>6, <2>7
  <1>5. ASSUME Solvent(balances, reserves), m < p
        PROVE  Collateralized(w) <=> Covered(balances, reserves, m)
    <2>1. m \in 0..(p - 1)
      <3> HIDE DEF p, m
      <3> QED BY <1>1, <1>5
    <2> QED BY <1>5, <2>1, BoundsCompared
  <1> HIDE DEF p, k, m
  <1>6. RiskSolvencyConstraints(w) <=>
          /\ SolvencyConstraints(w) /\ InBits(BpsBits, k) /\ InBits(BpsBits, m)
          /\ \A i \in 1..NLeaves : Concentrated(w, w.balances[i])
          /\ Collateralized(w)
    BY DEF RiskSolvencyConstraints, k, m
  <1>7. RiskSolvencyConstraints(w) <=>
          /\ Solvent(balances, reserves) /\ k < p /\ m < p
          /\ \A i \in DOMAIN balances : Capped(balances[i], balances, k)
          /\ Covered(balances, reserves, m)
    BY <1>2, <1>3, <1>4, <1>5, <1>6
  <1> QED BY <1>7 DEF k, m, p

\* What a key holds over all the leaves it has.
Held(balances, keys, k) ==
  SumFunction([i \in {i \in DOMAIN balances : keys[i] = k} |-> balances[i]])

\* keySum is what the key holds: no more than the book, so nothing wraps.
LEMMA KeySumIsHeld ==
  ASSUME NEW balances, IsBook(balances), InRange(balances), NEW i \in 1..NLeaves,
         NEW w, w.balances = [j \in 1..NLeaves |-> Reduce(PadBook(balances)[j])]
  PROVE  /\ KeySum(w, i) = Held(balances, w.keys, w.keys[i])
         /\ KeySum(w, i) \in Nat /\ KeySum(w, i) < Pow(2, CmpBits)
  <1> DEFINE p == PadBook(balances)
             c == Pow(2, CmpBits)
             k == w.keys[i]
             n == Len(balances)
             D == {j \in DOMAIN balances : w.keys[j] = k}
             S == {j \in 1..NLeaves : w.keys[j] = k}
             f == [j \in S |-> w.balances[j]]
             e == [j \in D |-> balances[j]]
  <1>1. /\ DOMAIN balances = 1..n /\ n \in Nat /\ DOMAIN balances \subseteq 1..NLeaves
        /\ \A j \in DOMAIN balances : p[j] = balances[j]
        /\ \A j \in 1..NLeaves : j \notin DOMAIN balances => p[j] = 0
    BY PaddedBook, RangedBook
  <1>2. \A j \in 1..NLeaves : w.balances[j] = p[j]
    <2>1. \A j \in 1..NLeaves : Reduce(p[j]) = p[j]
      BY PaddedBook
    <2> HIDE DEF p
    <2> QED BY <2>1 DEF p
  <1> HIDE DEF p
  <1>3. IsFiniteSet(1..NLeaves) /\ IsFiniteSet(DOMAIN balances)
    BY <1>1, LevelWidth, FS_Interval
  <1>4. /\ IsFiniteSet(S) /\ D \subseteq S /\ D \subseteq DOMAIN balances /\ IsFiniteSet(D)
        /\ IsFiniteSet(DOMAIN balances \ D)
    <2>1. S \subseteq 1..NLeaves /\ D \subseteq S /\ D \subseteq DOMAIN balances
      BY <1>1
    <2>2. DOMAIN balances \ D \subseteq DOMAIN balances
      OBVIOUS
    <2> HIDE DEF S, D
    <2> QED BY <1>3, <2>1, <2>2, FS_Subset
  <1>5. \A j \in DOMAIN balances : balances[j] \in Nat
    <2>1. Pow(2, BalanceBits) \in Nat
      BY Widths
    <2> QED BY <2>1 DEF InRange
  <1>6. /\ \A j \in D : f[j] = balances[j] /\ e[j] = balances[j] /\ f[j] \in Int
        /\ \A j \in S \ D : f[j] = 0
    BY <1>1, <1>2, <1>5
  <1>7. DOMAIN f = S /\ DOMAIN e = D
    OBVIOUS
  <1>8. KeySum(w, i) = Reduce(SumFunction(f))
    BY DEF KeySum, FieldSum
  <1>9. Held(balances, w.keys, k) = SumFunction(e)
    BY DEF Held
  <1> HIDE DEF f, e, S, D
  <1>10. SumFunctionOnSet(f, S) = SumFunctionOnSet(f, D)
    BY <1>4, <1>6, SumZeros
  <1>11. SumFunctionOnSet(f, D) = SumFunctionOnSet(e, D)
    <2>1. \A j \in D : f[j] = e[j]
      BY <1>6
    <2> QED BY <1>4, <2>1, SumSame
  <1>12. SumFunctionOnSet(e, D) = SumFunctionOnSet(balances, D)
    <2>1. \A j \in D : e[j] = balances[j]
      BY <1>6
    <2> QED BY <1>4, <2>1, SumSame
  <1> DEFINE h == SumFunctionOnSet(balances, D)
             o == SumFunctionOnSet(balances, DOMAIN balances \ D)
             s == SumFunction(balances)
  <1>13. h \in Nat /\ o \in Nat
    <2>1. /\ \A j \in D : balances[j] \in Int /\ balances[j] >= 0
          /\ \A j \in DOMAIN balances \ D : balances[j] \in Int /\ balances[j] >= 0
      BY <1>4, <1>5
    <2> QED BY <1>4, <2>1, SumType
  <1>14. s = h + o
    <2> DEFINE R == DOMAIN balances \ D
    <2>1. D \cup R = DOMAIN balances /\ D \cap R = {} /\ IsFiniteSet(R)
      BY <1>4
    <2>2. \A j \in D \cup R : balances[j] \in Int
      BY <1>5, <2>1
    <2> HIDE DEF R
    <2>3. SumFunctionOnSet(balances, D \cup R) =
            SumFunctionOnSet(balances, D) + SumFunctionOnSet(balances, R)
      BY <1>4, <2>1, <2>2, SumUnion
    <2> QED BY <2>1, <2>3 DEF SumFunction, R
  <1>15. s < c /\ s \in Nat /\ c \in Nat /\ c <= FieldModulus /\ FieldModulus \in Nat
    BY RangedBook, Widths, ModulusAssumption
  <1>16. SumFunction(f) = h /\ SumFunction(e) = h
    BY <1>7, <1>10, <1>11, <1>12 DEF SumFunction
  <1> HIDE DEF h, o, s, c
  <1>17. h < c /\ h \in Field
    BY <1>13, <1>14, <1>15 DEF Field
  <1>18. Reduce(h) = h
    BY <1>17, ReduceLaws
  <1> QED BY <1>8, <1>9, <1>13, <1>16, <1>17, <1>18 DEF c

\* The constraints of the per-key circuit hold exactly of a solvent book in which
\* what each key holds, over all its leaves, meets the cap.
THEOREM KeyedRiskMeans ==
  ASSUME NEW balances, IsBook(balances), NEW reserves \in FigureRange,
         NEW w, IsWitness(w, balances, reserves),
         w.maxConcBps \in Field, w.minCollBps \in Field,
         \A i \in 1..NLeaves : w.acctCommit[i] = <<w.keys[i], w.nonces[i]>>
  PROVE  KeyedRiskR1Constraints(w) <=>
           /\ Solvent(balances, reserves)
           /\ w.maxConcBps < Pow(2, BpsBits) /\ w.minCollBps < Pow(2, BpsBits)
           /\ \A i \in 1..NLeaves :
                Capped(Held(balances, w.keys, w.keys[i]), balances, w.maxConcBps)
           /\ Covered(balances, reserves, w.minCollBps)
  <1> DEFINE p == Pow(2, BpsBits)
             k == w.maxConcBps
             m == w.minCollBps
  <1>1. p \in Nat \ {0} /\ k \in Nat /\ m \in Nat
    BY Widths, FieldNumbers
  <1>2. (InBits(BpsBits, k) <=> k < p) /\ (InBits(BpsBits, m) <=> m < p)
    <2>1. (InBits(BpsBits, k) <=> k \in 0..(p - 1)) /\ (InBits(BpsBits, m) <=> m \in 0..(p - 1))
      BY BoundsInBits
    <2> HIDE DEF p, k, m
    <2> QED BY <1>1, <2>1
  <1>3. SolvencyConstraints(w) <=> Solvent(balances, reserves)
    BY SolvencyMeans
  <1>4. ASSUME Solvent(balances, reserves), k < p, NEW i \in 1..NLeaves
        PROVE  Concentrated(w, KeySum(w, i))
                 <=> Capped(Held(balances, w.keys, w.keys[i]), balances, k)
    <2>1. k \in 0..(p - 1)
      <3> HIDE DEF p, k
      <3> QED BY <1>1, <1>4
    <2>2. /\ KeySum(w, i) = Held(balances, w.keys, w.keys[i])
          /\ KeySum(w, i) \in Nat /\ KeySum(w, i) < Pow(2, CmpBits)
      BY <1>4, KeySumIsHeld DEF Solvent, IsWitness
    <2>3. Concentrated(w, KeySum(w, i)) <=> Capped(KeySum(w, i), balances, k)
      BY <1>4, <2>1, <2>2, BoundsCompared
    <2> QED BY <2>2, <2>3
  <1>5. ASSUME Solvent(balances, reserves), m < p
        PROVE  Collateralized(w) <=> Covered(balances, reserves, m)
    <2>1. m \in 0..(p - 1)
      <3> HIDE DEF p, m
      <3> QED BY <1>1, <1>5
    <2> QED BY <1>5, <2>1, BoundsCompared
  <1> HIDE DEF p, k, m
  <1>6. KeyedRiskR1Constraints(w) <=>
          /\ SolvencyConstraints(w) /\ InBits(BpsBits, k) /\ InBits(BpsBits, m)
          /\ \A i \in 1..NLeaves : Concentrated(w, KeySum(w, i))
          /\ Collateralized(w)
    BY DEF KeyedRiskR1Constraints, k, m
  <1>7. KeyedRiskR1Constraints(w) <=>
          /\ Solvent(balances, reserves) /\ k < p /\ m < p
          /\ \A i \in 1..NLeaves : Capped(Held(balances, w.keys, w.keys[i]), balances, k)
          /\ Covered(balances, reserves, m)
    BY <1>2, <1>3, <1>4, <1>5, <1>6
  <1> QED BY <1>7 DEF k, m, p

----------------------------------------------------------------------------
(***************************************************************************)
(* The inclusion path.                                                     *)
(***************************************************************************)

\* The node above leaf idx on level d, counted from 0, halves from one level to
\* the next and stays within the level.
LEMMA PathNodes ==
  ASSUME NEW idx \in 0..(NLeaves - 1)
  PROVE  /\ idx \div Pow(2, 0) = idx
         /\ \A d \in 0..Depth : /\ idx \div Pow(2, d) \in Nat
                                /\ idx \div Pow(2, d) < Pow(2, Depth - d)
         /\ \A d \in 0..(Depth - 1) :
              idx \div Pow(2, d + 1) = (idx \div Pow(2, d)) \div 2
  <1> DEFINE j(d) == idx \div Pow(2, d)
  <1>1. /\ \A n \in Nat : Pow(2, n) \in Nat \ {0} /\ Pow(2, n + 1) = 2 * Pow(2, n)
        /\ Pow(2, 0) = 1
    <2>1. 2 \in Nat \ {0} /\ 2 \in Nat
      OBVIOUS
    <2>2. \A n \in Nat : Pow(2, n) \in Nat \ {0}
      BY <2>1, PowGrows
    <2>3. Pow(2, 0) = 1 /\ \A n \in Nat : Pow(2, n + 1) = 2 * Pow(2, n)
      BY <2>1, PowLaws
    <2> QED BY <2>2, <2>3
  <1>2. Depth \in Nat /\ idx \in Nat /\ idx < NLeaves
    BY LevelWidth
  <1>3. j(0) = idx
    BY <1>1, <1>2
  <1>4. ASSUME NEW d \in 0..(Depth - 1) PROVE j(d + 1) = j(d) \div 2
    <2> DEFINE p == Pow(2, d)
    <2>1. d \in Nat /\ p \in Nat \ {0} /\ Pow(2, d + 1) = 2 * p
      BY <1>1, <1>2
    <2> HIDE DEF p
    <2>2. 2 * p = p * 2
      BY <2>1
    <2>3. idx \div (p * 2) = (idx \div p) \div 2
      <3>1. 2 \in Nat \ {0} /\ idx \in Nat
        BY <1>2
      <3> QED BY <2>1, <3>1, DivTwice
    <2> QED BY <2>1, <2>2, <2>3 DEF p
  <1> DEFINE Q == {d \in 0..Depth : j(d) \in Nat /\ j(d) < Pow(2, Depth - d)}
  <1>5. 0 \in Q
    <2>1. Depth - 0 = Depth /\ 0 \in 0..Depth
      BY <1>2
    <2> HIDE DEF j
    <2> QED BY <1>2, <1>3, <2>1 DEF NLeaves
  <1>6. ASSUME NEW d \in 0..(Depth - 1), d \in Q PROVE d + 1 \in Q
    <2> DEFINE m == Pow(2, Depth - (d + 1))
               x == j(d)
    <2>1. d + 1 \in 0..Depth
      BY <1>2
    <2>2. Pow(2, Depth - d) = 2 * m /\ m \in Nat \ {0}
      BY <2>1, LevelWidth
    <2>3. x \in Nat /\ x < 2 * m
      BY <1>6, <2>2
    <2>4. j(d + 1) = x \div 2
      BY <1>4
    <2> HIDE DEF j, m, x
    <2>5. x \div 2 \in Nat /\ x \div 2 < m
      BY <2>2, <2>3
    <2> QED BY <2>1, <2>4, <2>5 DEF m
  <1>7. 0..Depth \subseteq Q
    <2> HIDE DEF Q
    <2> QED BY <1>5, <1>6, LevelInduction
  <1> HIDE DEF j
  <1>8. \A d \in 0..Depth : j(d) \in Nat /\ j(d) < Pow(2, Depth - d)
    BY <1>7
  <1> QED BY <1>3, <1>4, <1>8 DEF j

IsPath(cur, w) ==
  cur = [d \in 0..Depth |->
           IF d = 0 THEN [hash |-> LeafHash(w.acctCommit, w.balance), sum |-> w.balance]
           ELSE InclusionLevel(cur[d - 1], w.siblings[d], w.pathIndex[d])]

\* Over the co-path the page gives for a leaf, the circuit's fold meets the
\* page's nodes one after the other.
LEMMA PathOfTree ==
  ASSUME NEW balances, IsBook(balances), NEW idx \in 0..(NLeaves - 1), NEW claimed,
         Reduce(claimed) = PadBook(balances)[idx + 1]
  PROVE  IsPath([d \in 0..Depth |-> Node(BuildTree(balances)[d][(idx \div Pow(2, d)) + 1])],
                InclusionInput(balances, idx, claimed))
  <1> DEFINE t == BuildTree(balances)
             w == InclusionInput(balances, idx, claimed)
             j(d) == idx \div Pow(2, d)
             n(d) == Node(t[d][j(d) + 1])
             p == PadBook(balances)
             leaves == PageLeaves(balances)
  <1>1. IsTree(t, leaves)
    BY BuildTreeIsTree
  <1>2. \A i \in 1..NLeaves : leaves[i].sum = p[i] /\ p[i] \in Int /\ Reduce(p[i]) = p[i]
    <2>1. \A i \in 1..NLeaves : p[i] \in Field /\ Reduce(p[i]) = p[i]
      BY PaddedBook
    <2>2. \A i \in 1..NLeaves : leaves[i].sum = p[i]
      BY DEF PageLeaves
    <2> HIDE DEF p, leaves
    <2> QED BY <2>1, <2>2, FieldNumbers
  <1>3. \A d \in 0..Depth : \A i \in 1..Pow(2, Depth - d) : t[d][i].sum \in Int
    <2>1. \A i \in 1..NLeaves : leaves[i].sum \in Int
      BY <1>2
    <2> HIDE DEF leaves, t
    <2> QED BY <1>1, <2>1, TreeSums
  <1>4. /\ t[0] = leaves
        /\ \A d \in 0..(Depth - 1) : t[d + 1] = Parents(t[d], Pow(2, Depth - (d + 1)))
    <2> HIDE DEF leaves, t
    <2> QED BY <1>1, TreeLevels
  <1>5. /\ w.acctCommit = AcctCommit(idx + 1) /\ w.balance = Reduce(claimed)
        /\ \A d \in 0..(Depth - 1) : /\ w.siblings[d + 1] = Node(t[d][Sibling(j(d)) + 1])
                                     /\ w.pathIndex[d + 1] = j(d) % 2
    <2>1. /\ w.acctCommit = AcctCommit(idx + 1) /\ w.balance = Reduce(claimed)
          /\ \A d \in 1..Depth :
               /\ w.siblings[d] = Node(t[d - 1][Sibling(idx \div Pow(2, d - 1)) + 1])
               /\ w.pathIndex[d] = (idx \div Pow(2, d - 1)) % 2
      BY DEF InclusionInput
    <2>2. \A d \in 0..(Depth - 1) : d + 1 \in 1..Depth /\ (d + 1) - 1 = d
      BY WidthsAssumption
    <2> HIDE DEF w, t
    <2> QED BY <2>1, <2>2
  <1>6. /\ j(0) = idx
        /\ \A d \in 0..Depth : j(d) \in Nat /\ j(d) < Pow(2, Depth - d)
        /\ \A d \in 0..(Depth - 1) : j(d + 1) = j(d) \div 2
    BY PathNodes
  <1>7. n(0) = [hash |-> LeafHash(w.acctCommit, w.balance), sum |-> w.balance]
    <2>1. idx + 1 \in 1..NLeaves
      BY LevelWidth
    <2>2. leaves[idx + 1] = [hash |-> LeafHash(AcctCommit(idx + 1), Reduce(p[idx + 1])),
                             sum |-> p[idx + 1]]
      BY <2>1 DEF PageLeaves
    <2>3. t[0][j(0) + 1] = leaves[idx + 1]
      <3> HIDE DEF t, leaves, j
      <3> QED BY <1>4, <1>6
    <2>4. Reduce(p[idx + 1]) = p[idx + 1]
      BY <1>2, <2>1
    <2>5. n(0) = [hash |-> LeafHash(AcctCommit(idx + 1), p[idx + 1]), sum |-> p[idx + 1]]
      <3> HIDE DEF t, leaves, j, p
      <3> QED BY <2>2, <2>3, <2>4 DEF Node
    <2> HIDE DEF n, w, p
    <2> QED BY <1>5, <2>5 DEF p
  <1>8. ASSUME NEW d \in 0..(Depth - 1)
        PROVE  n(d + 1) = InclusionLevel(n(d), w.siblings[d + 1], w.pathIndex[d + 1])
    <2> DEFINE x == j(d)
               q == x \div 2
               row == t[d]
               m == Pow(2, Depth - (d + 1))
               l == row[2 * (q + 1) - 1]
               r == row[2 * (q + 1)]
    <2>1. /\ d \in 0..Depth /\ x \in Nat /\ x < 2 * m /\ m \in Nat \ {0}
          /\ Pow(2, Depth - d) = 2 * m
      <3>1. d \in 0..Depth /\ d + 1 \in 0..Depth
        BY WidthsAssumption
      <3>2. m \in Nat \ {0} /\ Pow(2, Depth - d) = 2 * m
        BY <3>1, LevelWidth
      <3>3. x \in Nat /\ x < Pow(2, Depth - d)
        BY <1>6, <3>1
      <3> HIDE DEF x, m
      <3> QED BY <3>1, <3>2, <3>3
    <2>2. j(d + 1) = q
      BY <1>6
    <2>3. n(d) = Node(row[x + 1]) /\ w.siblings[d + 1] = Node(row[Sibling(x) + 1])
          /\ w.pathIndex[d + 1] = x % 2
      BY <1>5
    <2>4. t[d + 1] = Parents(row, m)
      BY <1>4
    <2>5. \A i \in 1..(2 * m) : row[i].sum \in Int
      BY <1>3, <2>1
    <2>12. n(d + 1) = Node(t[d + 1][q + 1])
      BY <2>2
    <2> HIDE DEF x, row, m, n, w, j, t
    <2>6. q \in Nat /\ q + 1 \in 1..m /\ (x % 2 = 0 \/ x % 2 = 1) /\ x = 2 * q + (x % 2)
      BY <2>1
    <2> HIDE DEF q
    <2>7. 2 * (q + 1) - 1 \in 1..(2 * m) /\ 2 * (q + 1) \in 1..(2 * m)
      BY <2>1, <2>6
    <2>8. t[d + 1][q + 1] = PageParent(l, r)
      BY <2>4, <2>6 DEF Parents
    <2>9. Node(PageParent(l, r)) = MerkleSumParent(Node(l), Node(r))
      <3>1. l.sum \in Int /\ r.sum \in Int
        BY <2>5, <2>7
      <3> HIDE DEF l, r
      <3> QED BY <3>1, NodeOfParent
    <2>10. CASE x % 2 = 0
      <3>1. x + 1 = 2 * (q + 1) - 1 /\ Sibling(x) + 1 = 2 * (q + 1)
        BY <2>1, <2>6, <2>10 DEF Sibling
      <3>2. n(d) = Node(l) /\ w.siblings[d + 1] = Node(r) /\ w.pathIndex[d + 1] = 0
        BY <2>3, <2>10, <3>1
      <3> HIDE DEF l, r
      <3> QED BY <2>12, <2>8, <2>9, <3>2 DEF InclusionLevel
    <2>11. CASE x % 2 = 1
      <3>1. x + 1 = 2 * (q + 1) /\ Sibling(x) + 1 = 2 * (q + 1) - 1
        BY <2>1, <2>6, <2>11 DEF Sibling
      <3>2. n(d) = Node(r) /\ w.siblings[d + 1] = Node(l) /\ w.pathIndex[d + 1] = 1
        BY <2>3, <2>11, <3>1
      <3> HIDE DEF l, r
      <3> QED BY <2>12, <2>8, <2>9, <3>2 DEF InclusionLevel
    <2> QED BY <2>6, <2>10, <2>11
  <1> DEFINE f == [d \in 0..Depth |-> n(d)]
  <1>9. IsPath(f, w)
    <2> DEFINE first == [hash |-> LeafHash(w.acctCommit, w.balance), sum |-> w.balance]
    <2>1. \A d \in 0..Depth : f[d] = n(d)
      OBVIOUS
    <2>2. \A d \in 0..Depth :
            d # 0 => d - 1 \in 0..(Depth - 1) /\ d - 1 \in 0..Depth /\ (d - 1) + 1 = d
      BY WidthsAssumption
    <2>3. DOMAIN f = 0..Depth /\ f = [d \in 0..Depth |-> f[d]]
      OBVIOUS
    <2> HIDE DEF n, f
    <2>4. \A d \in 0..Depth :
            f[d] = IF d = 0 THEN first ELSE InclusionLevel(f[d - 1], w.siblings[d], w.pathIndex[d])
      <3> HIDE DEF w
      <3> QED BY <1>7, <1>8, <2>1, <2>2
    <2> HIDE DEF w
    <2> QED BY <2>3, <2>4 DEF IsPath
  <1> QED BY <1>9

\* The fold of an honest path ends at the root of the tree.
LEMMA PathFolds ==
  ASSUME NEW balances, IsBook(balances), NEW idx \in 0..(NLeaves - 1), NEW claimed,
         Reduce(claimed) = PadBook(balances)[idx + 1]
  PROVE  InclusionRoot(InclusionInput(balances, idx, claimed)).hash
           = InclusionInput(balances, idx, claimed).rootHash
  <1> DEFINE w == InclusionInput(balances, idx, claimed)
             t == BuildTree(balances)
             f == [d \in 0..Depth |-> Node(t[d][(idx \div Pow(2, d)) + 1])]
             cur == CHOOSE c : IsPath(c, w)
  <1>1. IsPath(f, w)
    BY PathOfTree
  <1>2. InclusionRoot(w) = cur[Depth]
    BY DEF InclusionRoot, IsPath
  <1>3. IsPath(cur, w)
    BY <1>1, Zenon
  <1>4. f[Depth] = Node(t[Depth][1])
    <2>1. Depth \in 0..Depth /\ Depth - Depth = 0 /\ Pow(2, 0) = 1
      BY WidthsAssumption, PowLaws
    <2>2. idx \div Pow(2, Depth) \in Nat /\ idx \div Pow(2, Depth) < 1
      BY <2>1, PathNodes
    <2>3. (idx \div Pow(2, Depth)) + 1 = 1
      BY <2>2
    <2>4. f[Depth] = Node(t[Depth][(idx \div Pow(2, Depth)) + 1])
      BY <2>1
    <2> QED BY <2>3, <2>4
  <1>5. w.rootHash = t[Depth][1].hash
    BY DEF InclusionInput
  <1> HIDE DEF w, f, cur
  <1> DEFINE Q == {d \in 0..Depth : cur[d] = f[d]}
  <1>6. 0 \in Q
    <2>1. 0 \in 0..Depth
      BY WidthsAssumption
    <2> QED BY <1>1, <1>3, <2>1 DEF IsPath
  <1>7. ASSUME NEW d \in 0..(Depth - 1), d \in Q PROVE d + 1 \in Q
    <2>1. d + 1 \in 0..Depth /\ d + 1 # 0 /\ (d + 1) - 1 = d
      BY WidthsAssumption
    <2>2. /\ cur[d + 1] = InclusionLevel(cur[d], w.siblings[d + 1], w.pathIndex[d + 1])
          /\ f[d + 1] = InclusionLevel(f[d], w.siblings[d + 1], w.pathIndex[d + 1])
      BY <1>1, <1>3, <2>1 DEF IsPath
    <2> QED BY <1>7, <2>1, <2>2
  <1> HIDE DEF Q
  <1>8. cur[Depth] = f[Depth]
    <2>1. Depth \in 0..Depth
      BY WidthsAssumption
    <2>2. Depth \in Q
      BY <1>6, <1>7, <2>1, LevelInduction
    <2> QED BY <2>2 DEF Q
  <1> QED BY <1>2, <1>4, <1>5, <1>8 DEF Node, w

\* The constraints of inclusion.circom hold, over the co-path of an account,
\* exactly of its true balance, and of that one if it is in range.
THEOREM InclusionMeans ==
  ASSUME NEW balances, IsBook(balances), NEW idx \in Nat, idx < Len(balances),
         NEW claimed \in FigureRange
  PROVE  InclusionConstraints(InclusionInput(balances, idx, claimed)) <=>
           /\ balances[idx + 1] = claimed
           /\ balances[idx + 1] \in 0..(Pow(2, BalanceBits) - 1)
  <1> DEFINE w == InclusionInput(balances, idx, claimed)
             own == balances[idx + 1]
             b == Pow(2, BalanceBits)
  <1>1. /\ idx \in 0..(NLeaves - 1) /\ idx + 1 \in DOMAIN balances /\ idx + 1 \in 1..NLeaves
        /\ own \in FigureRange
        /\ PadBook(balances)[idx + 1] = ProveBalance(own)
    <2>1. /\ idx + 1 \in DOMAIN balances /\ DOMAIN balances \subseteq 1..NLeaves
          /\ Len(balances) <= NLeaves /\ NLeaves \in Nat
      BY PaddedBook, LevelWidth DEF IsBook
    <2>2. idx \in 0..(NLeaves - 1) /\ idx + 1 \in 1..NLeaves
      BY <2>1
    <2>3. own \in FigureRange /\ PadBook(balances)[idx + 1] = ProveBalance(own)
      BY <2>1, PaddedBook
    <2> QED BY <2>1, <2>2, <2>3
  <1>2. b \in 0..Pow(2, CmpBits) /\ b <= FieldModulus
    <2> DEFINE c == Pow(2, CmpBits)
    <2>1. b \in Nat /\ c \in Nat /\ b <= c /\ b <= FieldModulus
      BY Widths
    <2> HIDE DEF b, c
    <2> QED BY <2>1 DEF c
  <1>3. /\ ProveBalance(own) \in Field /\ Reduce(ProveBalance(own)) = ProveBalance(own)
        /\ ProveBalance(own) < b <=> own \in 0..(b - 1)
        /\ own >= 0 => ProveBalance(own) = own
    <2> HIDE DEF own, b
    <2> QED BY <1>1, <1>2, FigureInField, ReduceLaws
  <1>4. /\ Reduce(claimed) = ProveBalance(claimed) /\ ProveBalance(claimed) \in Field
        /\ ProveBalance(claimed) < b <=> claimed \in 0..(b - 1)
        /\ claimed >= 0 => ProveBalance(claimed) = claimed
    <2> HIDE DEF b
    <2> QED BY <1>2, FigureInField
  <1>5. b \in Nat /\ \A x \in 0..(b - 1) : x >= 0
    <2>1. b \in Nat
      BY Widths
    <2> HIDE DEF b
    <2> QED BY <2>1
  <1>6. /\ w.balance = Reduce(claimed) /\ w.acctCommit = AcctCommit(idx + 1)
        /\ w.leafCommitment = BuildTree(balances)[0][idx + 1].hash
        /\ \A d \in 1..Depth : w.pathIndex[d] = (idx \div Pow(2, d - 1)) % 2
    BY DEF InclusionInput
  <1>7. w.leafCommitment = LeafHash(AcctCommit(idx + 1), ProveBalance(own))
    <2> DEFINE t == BuildTree(balances)
               leaves == PageLeaves(balances)
    <2>1. IsTree(t, leaves)
      BY BuildTreeIsTree
    <2>2. leaves[idx + 1].hash =
            LeafHash(AcctCommit(idx + 1), Reduce(PadBook(balances)[idx + 1]))
      BY <1>1 DEF PageLeaves
    <2>3. t[0] = leaves
      <3> HIDE DEF t, leaves
      <3> QED BY <2>1, TreeLevels
    <2> HIDE DEF t, leaves, w, own
    <2> QED BY <1>1, <1>3, <1>6, <2>2, <2>3 DEF t
  <1>8. InBits(BalanceBits, w.balance) <=> claimed \in 0..(b - 1)
    <2>1. InBits(BalanceBits, ProveBalance(claimed)) <=> ProveBalance(claimed) < b
      BY <1>2, <1>4, WidthsAssumption, RangeCheck
    <2> HIDE DEF w, b
    <2> QED BY <1>4, <1>6, <2>1
  <1>9. LeafHash(w.acctCommit, w.balance) = w.leafCommitment
          <=> ProveBalance(claimed) = ProveBalance(own)
    <2> HIDE DEF w, own
    <2> QED BY <1>4, <1>6, <1>7 DEF LeafHash
  <1>10. \A d \in 1..Depth : Reduce(w.pathIndex[d] * (w.pathIndex[d] - 1)) = 0
    <2> SUFFICES ASSUME NEW d \in 1..Depth
                 PROVE  Reduce(w.pathIndex[d] * (w.pathIndex[d] - 1)) = 0
      OBVIOUS
    <2> DEFINE x == idx \div Pow(2, d - 1)
    <2>1. x \in Nat
      <3>1. d - 1 \in 0..Depth
        BY WidthsAssumption
      <3> QED BY <1>1, <3>1, PathNodes
    <2>2. w.pathIndex[d] = x % 2
      BY <1>6
    <2> HIDE DEF x, w
    <2>3. x % 2 = 0 \/ x % 2 = 1
      BY <2>1
    <2>4. 0 * (0 - 1) = 0 /\ 1 * (1 - 1) = 0
      OBVIOUS
    <2>5. w.pathIndex[d] * (w.pathIndex[d] - 1) = 0
      BY <2>2, <2>3, <2>4
    <2> QED BY <2>5, FieldNumbers, ReduceLaws
  <1>11. ASSUME ProveBalance(claimed) = ProveBalance(own)
         PROVE  InclusionRoot(w).hash = w.rootHash
    <2>1. Reduce(claimed) = PadBook(balances)[idx + 1]
      BY <1>1, <1>4, <1>11
    <2> QED BY <1>1, <2>1, PathFolds
  <1>12. InclusionConstraints(w) <=>
           claimed \in 0..(b - 1) /\ ProveBalance(claimed) = ProveBalance(own)
    <2> HIDE DEF w, b, own
    <2> QED BY <1>8, <1>9, <1>10, <1>11 DEF InclusionConstraints
  <1> HIDE DEF w, b, own
  <1>13. claimed \in 0..(b - 1) /\ ProveBalance(claimed) = ProveBalance(own)
           <=> own = claimed /\ own \in 0..(b - 1)
    <2>1. ASSUME claimed \in 0..(b - 1), ProveBalance(claimed) = ProveBalance(own)
          PROVE  own = claimed
      <3>1. own \in 0..(b - 1)
        BY <1>3, <1>4, <2>1
      <3> QED BY <1>3, <1>4, <1>5, <2>1, <3>1
    <2> QED BY <2>1
  <1> QED BY <1>12, <1>13 DEF w, own, b

----------------------------------------------------------------------------
(***************************************************************************)
(* What travels.                                                           *)
(***************************************************************************)

\* Signals in the field are written as words, and so are the variations of them
\* a call may carry.
LEMMA SignalsAsWords ==
  ASSUME NEW p, p.signals \in Seq(Field)
  PROVE  /\ SignalWords(p) \in Seq(Words) /\ Len(SignalWords(p)) = Len(p.signals)
         /\ \A i \in 1..Len(p.signals) : /\ SignalWords(p)[i] = FeBytes(p.signals[i])
                                        /\ Spelt(SignalWords(p)[i]) = p.signals[i]
                                        /\ Be32ToU32(SignalWords(p)[i])
                                             = p.signals[i] % Pow(Radix, U32Len)
  <1> DEFINE s == p.signals
             n == Len(s)
  <1>1. n \in Nat /\ DOMAIN s = 1..n /\ \A i \in 1..n : s[i] \in Field
    OBVIOUS
  <1>2. \A i \in 1..n : s[i] \in Nat /\ s[i] < Pow(Radix, WordLen)
    <2> SUFFICES ASSUME NEW i \in 1..n PROVE s[i] \in Nat /\ s[i] < Pow(Radix, WordLen)
      OBVIOUS
    <2> DEFINE x == s[i]
    <2>1. x \in 0..(FieldModulus - 1)
      BY <1>1 DEF Field
    <2>2. /\ FieldModulus \in Nat /\ FieldModulus < Pow(Radix, WordLen)
          /\ Pow(Radix, WordLen) \in Nat
      BY ModulusAssumption, WordWidthAssumption, WordFacts
    <2> HIDE DEF x
    <2>3. x \in Nat /\ x < Pow(Radix, WordLen)
      BY <2>1, <2>2
    <2> QED BY <2>3 DEF x
  <1> HIDE DEF s
  <1>3. \A i \in 1..n : /\ FeBytes(s[i]) \in Words
                       /\ Spelt(FeBytes(s[i])) = s[i]
                       /\ Be32ToU32(FeBytes(s[i])) = s[i] % Pow(Radix, U32Len)
    BY <1>2, WrittenNumber
  <1>4. SignalWords(p) = [i \in 1..n |-> FeBytes(s[i])]
    BY <1>1 DEF SignalWords, s
  <1> HIDE DEF n
  <1>5. SignalWords(p) \in Seq(Words) /\ Len(SignalWords(p)) = n
    <2>1. [i \in 1..n |-> FeBytes(s[i])] \in [1..n -> Words]
      BY <1>3
    <2> QED BY <1>1, <1>4, <2>1
  <1>6. \A i \in 1..n : SignalWords(p)[i] = FeBytes(s[i])
    BY <1>4
  <1> QED BY <1>3, <1>5, <1>6 DEF s, n

\* The words of signals are canonical and read back as the signals.
LEMMA SignalWordsSpell ==
  ASSUME NEW p, p.signals \in Seq(Field), NEW i \in 1..Len(p.signals)
  PROVE  IsCanonicalFr(SignalWords(p)[i]) /\ ToFr(SignalWords(p)[i]) = p.signals[i]
  <1> DEFINE w == SignalWords(p)[i]
             x == p.signals[i]
  <1>1. SignalWords(p) \in Seq(Words) /\ Len(SignalWords(p)) = Len(p.signals) /\ Spelt(w) = x
    BY SignalsAsWords
  <1>2. w \in Words /\ x \in Field
    BY <1>1
  <1> HIDE DEF w, x
  <1>3. x < FieldModulus
    BY <1>2, ModulusAssumption DEF Field
  <1>4. ToFr(w) = Reduce(x)
    BY <1>1 DEF ToFr, Spelt
  <1> QED BY <1>1, <1>2, <1>3, <1>4, CanonicalWords, ReduceLaws DEF w, x

\* A number that fits is written as a word.
LEMMA FittingWord == \A v : FeBytesFits(v) => FeBytes(v) \in Words
  <1> SUFFICES ASSUME NEW v, FeBytesFits(v) PROVE FeBytes(v) \in Words
    OBVIOUS
  <1> DEFINE b == Pow(Radix, WordLen)
  <1>1. v \in 0..(b - 1) /\ b \in Nat
    BY WordFacts DEF FeBytesFits
  <1> HIDE DEF b
  <1>2. v \in Nat /\ v < b
    BY <1>1
  <1> QED BY <1>2, WrittenNumber DEF b

\* The forms of a call: the words of the proof, one replaced, two exchanged, one
\* too few or one too many.
LEMMA CallShapes ==
  ASSUME NEW p, NEW call \in CallWords(p), p.signals \in Seq(Field), p.signals # <<>>
  PROVE  LET ws == SignalWords(p)
             n == Len(p.signals)
         IN \/ call = ws
            \/ call = Tail(ws) \/ call = SubSeq(ws, 1, n - 1) \/ call = Append(ws, FeBytes(0))
            \/ \E i \in 1..n : \E v : FeBytesFits(v) /\ call = [ws EXCEPT ![i] = FeBytes(v)]
            \/ \E i \in 1..n : call = [ws EXCEPT ![1] = ws[i], ![i] = ws[1]]
  <1> DEFINE ws == SignalWords(p)
             n == Len(p.signals)
  <1>1. ws \in Seq(Words) /\ Len(ws) = n
    BY SignalsAsWords
  <1>2. DOMAIN ws = 1..n
    BY <1>1
  <1>3. call \in Resized(ws) \/ call \in Replaced(ws, p.signals) \/ call \in Exchanged(ws)
    BY DEF CallWords
  <1> HIDE DEF ws, n
  <1>4. ASSUME call \in Replaced(ws, p.signals)
        PROVE  \E i \in 1..n : \E v : FeBytesFits(v) /\ call = [ws EXCEPT ![i] = FeBytes(v)]
    <2>1. PICK i \in 1..n : call \in OneReplaced(ws, i, p.signals[i])
      BY <1>2, <1>4 DEF Replaced
    <2>2. PICK v \in OtherValues(p.signals[i]) : call = [ws EXCEPT ![i] = FeBytes(v)]
      BY <2>1 DEF OneReplaced
    <2>3. FeBytesFits(v)
      BY <2>2 DEF OtherValues
    <2> QED BY <2>2, <2>3
  <1>5. ASSUME call \in Exchanged(ws)
        PROVE  \E i \in 1..n : call = [ws EXCEPT ![1] = ws[i], ![i] = ws[1]]
    BY <1>2, <1>5 DEF Exchanged, FirstExchanged
  <1>6. ASSUME call \in Resized(ws)
        PROVE  \/ call = ws \/ call = Tail(ws) \/ call = SubSeq(ws, 1, n - 1)
               \/ call = Append(ws, FeBytes(0))
    BY <1>1, <1>6 DEF Resized
  <1> QED BY <1>3, <1>4, <1>5, <1>6 DEF ws, n

\* Whatever a call carries, it carries words, as many as there are signals or one
\* more or less; as many, only if they are the proof's, one replaced or two exchanged.
LEMMA CallsCarryWords ==
  ASSUME NEW p, NEW call \in CallWords(p), p.signals \in Seq(Field), p.signals # <<>>
  PROVE  LET ws == SignalWords(p)
             n == Len(p.signals)
         IN /\ call \in Seq(Words)
            /\ Len(call) \in {n - 1, n, n + 1}
            /\ Len(call) = n =>
                 \/ call = ws
                 \/ \E i \in 1..n : \E v : FeBytesFits(v) /\ call = [ws EXCEPT ![i] = FeBytes(v)]
                 \/ \E i \in 1..n : call = [ws EXCEPT ![1] = ws[i], ![i] = ws[1]]
  <1> DEFINE ws == SignalWords(p)
             n == Len(p.signals)
             replaced == \E i \in 1..n : \E v :
                           FeBytesFits(v) /\ call = [ws EXCEPT ![i] = FeBytes(v)]
             exchanged == \E i \in 1..n : call = [ws EXCEPT ![1] = ws[i], ![i] = ws[1]]
  <1>1. ws \in Seq(Words) /\ Len(ws) = n /\ n = Len(p.signals)
    BY SignalsAsWords
  <1>2. n \in Nat /\ n >= 1 /\ DOMAIN ws = 1..n
    BY <1>1
  <1>4. FeBytes(0) \in Words
    <2> HIDE DEF ws, n, replaced, exchanged
    <2> DEFINE b == Pow(Radix, WordLen)
    <2>1. b \in Nat \ {0}
      BY WordFacts
    <2>2. 0 \in Nat /\ 0 < b
      <3> HIDE DEF b
      <3> QED BY <2>1
    <2> QED BY <2>2, WrittenNumber
  <1>5. \/ call = ws
        \/ call = Tail(ws) \/ call = SubSeq(ws, 1, n - 1) \/ call = Append(ws, FeBytes(0))
        \/ replaced \/ exchanged
    BY CallShapes
  <1> HIDE DEF ws, n
  <1>6. /\ Tail(ws) \in Seq(Words) /\ Len(Tail(ws)) = n - 1
        /\ Append(ws, FeBytes(0)) \in Seq(Words) /\ Len(Append(ws, FeBytes(0))) = n + 1
    BY <1>1, <1>2, <1>4
  <1>7. SubSeq(ws, 1, n - 1) \in Seq(Words) /\ Len(SubSeq(ws, 1, n - 1)) = n - 1
    <2>1. n - 1 \in Nat /\ \A i \in 1..(n - 1) : ws[i] \in Words
      BY <1>1, <1>2
    <2>2. SubSeq(ws, 1, n - 1) = [i \in 1..(n - 1) |-> ws[i]]
      BY <1>1, <1>2
    <2>3. [i \in 1..(n - 1) |-> ws[i]] \in [1..(n - 1) -> Words]
      BY <2>1
    <2> QED BY <2>1, <2>2, <2>3
  <1>8. ASSUME NEW i \in 1..n, NEW v, FeBytesFits(v)
        PROVE  /\ [ws EXCEPT ![i] = FeBytes(v)] \in Seq(Words)
               /\ Len([ws EXCEPT ![i] = FeBytes(v)]) = n
    BY <1>1, <1>2, <1>8, FittingWord
  <1>9. ASSUME NEW i \in 1..n
        PROVE  /\ [ws EXCEPT ![1] = ws[i], ![i] = ws[1]] \in Seq(Words)
               /\ Len([ws EXCEPT ![1] = ws[i], ![i] = ws[1]]) = n
    <2>1. ws[i] \in Words /\ ws[1] \in Words /\ 1 \in DOMAIN ws /\ i \in DOMAIN ws
      BY <1>1, <1>2
    <2> QED BY <1>1, <1>2, <2>1
  <1>10. n - 1 # n /\ n + 1 # n
    BY <1>2
  <1>11. replaced => call \in Seq(Words) /\ Len(call) = n
    BY <1>8
  <1>12. exchanged => call \in Seq(Words) /\ Len(call) = n
    BY <1>9
  <1>13. call = ws => call \in Seq(Words) /\ Len(call) = n
    BY <1>1
  <1> HIDE DEF replaced, exchanged
  <1>14. /\ call \in Seq(Words) /\ Len(call) \in {n - 1, n, n + 1}
         /\ Len(call) = n => call = ws \/ replaced \/ exchanged
    BY <1>5, <1>6, <1>7, <1>10, <1>11, <1>12, <1>13
  <1> QED BY <1>14 DEF ws, n, replaced, exchanged

----------------------------------------------------------------------------
(***************************************************************************)
(* The invariants.                                                         *)
(***************************************************************************)

\* The page's sums are integers, so its signals are in the field.
LEMMA SolvencySignals ==
  ASSUME NEW balances \in Seq(Int), NEW reserves \in Int
  PROVE  /\ SolvencyInput(balances, reserves).total \in Field
         /\ SolvencyInput(balances, reserves).reserves \in Field
  <1> DEFINE t == BuildTree(balances)
             leaves == PageLeaves(balances)
             w == SolvencyInput(balances, reserves)
  <1>1. w.total = Reduce(t[Depth][1].sum) /\ w.reserves = Reduce(reserves)
    BY DEF SolvencyInput
  <1>2. \A i \in 1..NLeaves : leaves[i].sum \in Int
    <2>1. \A i \in 1..NLeaves : PadBook(balances)[i] \in Int
      BY ModulusAssumption DEF PadBook, ProveBalance
    <2> QED BY <2>1 DEF PageLeaves
  <1>3. IsTree(t, leaves)
    BY BuildTreeIsTree
  <1>4. t[Depth][1].sum \in Int
    <2> HIDE DEF t, leaves
    <2>1. \A d \in 0..Depth : \A i \in 1..Pow(2, Depth - d) : t[d][i].sum \in Int
      BY <1>2, <1>3, TreeSums
    <2>2. Depth \in 0..Depth /\ Depth - Depth = 0 /\ Pow(2, 0) = 1
      BY WidthsAssumption, PowLaws
    <2> QED BY <2>1, <2>2
  <1> HIDE DEF t, w
  <1>5. w.total \in Field /\ w.reserves \in Field
    BY <1>1, <1>4, ReduceLaws
  <1> QED BY <1>5 DEF w

\* The risk input is the solvency input with the bounds.
LEMMA RiskInputFields ==
  ASSUME NEW balances, NEW reserves, NEW conc, NEW coll
  PROVE  LET w == RiskInput(balances, reserves, conc, coll)
             s == SolvencyInput(balances, reserves)
         IN /\ w.rootHash = s.rootHash /\ w.total = s.total /\ w.reserves = s.reserves
            /\ w.balances = s.balances /\ w.acctCommit = s.acctCommit
            /\ w.maxConcBps = conc /\ w.minCollBps = coll
  BY DEF RiskInput

\* A satisfied constraint system is a truth value.
LEMMA Satisfied ==
  ASSUME NEW w
  PROVE  /\ SolvencyConstraints(w) \in BOOLEAN /\ RiskSolvencyConstraints(w) \in BOOLEAN
         /\ KeyedRiskR1Constraints(w) \in BOOLEAN /\ InclusionConstraints(w) \in BOOLEAN
  BY DEF SolvencyConstraints, RiskSolvencyConstraints, KeyedRiskR1Constraints,
         InclusionConstraints

\* The proof made last is the outcome of a request on the page's book.
Made(circuit, request, satisfied, signals) ==
  proof = [circuit |-> circuit, request |-> request, proved |-> satisfied,
           signals |-> IF satisfied THEN signals ELSE <<>>]

MadeSolvency ==
  LET w == SolvencyInput(page.balances, page.treasury)
  IN Made("solvency", <<>>, SolvencyConstraints(w), <<RootValue, w.total, w.reserves>>)

MadeRisk ==
  \E conc \in ConcBounds, coll \in CollBounds :
    LET w == RiskInput(page.balances, page.treasury, conc, coll)
    IN Made("risk_solvency", <<conc, coll>>, RiskSolvencyConstraints(w),
            <<RootValue, w.total, w.reserves, w.maxConcBps, w.minCollBps>>)

MadeKeyedRisk ==
  \E keys \in KeyLists, conc \in ConcBounds, coll \in CollBounds :
    LET w == KeyedRiskInput(page.balances, page.treasury, keys, conc, coll)
    IN Made("keyed_risk_r1", <<keys, conc, coll>>, KeyedRiskR1Constraints(w), <<>>)

MadeInclusion ==
  \E idx \in 0..(NLeaves - 1), claimed \in Claims :
    LET w == InclusionInput(page.balances, idx, claimed)
    IN /\ idx < Len(page.balances)
       /\ Made("inclusion", <<idx, claimed>>, InclusionConstraints(w),
               <<RootValue, LeafValue + idx>>)

PageInv ==
  page # None =>
    \E b \in Books, t \in Treasuries :
      Len(b) <= NLeaves /\ page = [balances |-> b, treasury |-> t]

ProofInv ==
  proof # None =>
    page # None /\ (MadeSolvency \/ MadeRisk \/ MadeKeyedRisk \/ MadeInclusion)

CallInv == /\ sent # None => proof # None
           /\ latest # None => page # None

PathInv == PageInv /\ ProofInv /\ CallInv

\* The circuit, the signals and the outcome of a proof.
LEMMA MadeFields ==
  ASSUME NEW circuit, NEW request, NEW satisfied, NEW signals,
         Made(circuit, request, satisfied, signals)
  PROVE  /\ proof.circuit = circuit /\ proof.request = request /\ proof.proved = satisfied
         /\ proof.signals = IF satisfied THEN signals ELSE <<>>
  BY DEF Made

\* Whatever is proved is proved of the page's book, and a call is made of a proof.
LEMMA PathInvariance == Spec => []PathInv
  <1>1. Init => PathInv
    BY DEF Init, PathInv, PageInv, ProofInv, CallInv
  <1>2. PathInv /\ [Next]_vars => PathInv'
    <2> SUFFICES ASSUME PathInv, [Next]_vars PROVE PathInv'
      OBVIOUS
    <2>1. ASSUME NEW b \in Books, NEW t \in Treasuries, Enter(b, t) PROVE PathInv'
      <3>1. page' = [balances |-> b, treasury |-> t] /\ Len(b) <= NLeaves
        BY <2>1 DEF Enter
      <3>2. PageInv'
        BY <3>1 DEF PageInv
      <3>3. proof = None /\ UNCHANGED <<proof, sent, latest>>
        BY <2>1 DEF Enter, PathInv, ProofInv
      <3>4. latest = None
        BY <2>1 DEF Enter, PathInv, CallInv
      <3> QED BY <3>2, <3>3, <3>4 DEF PathInv, ProofInv, CallInv
    <2>2. ASSUME MayProve, UNCHANGED <<page, latest>>, sent' = None,
                 (MadeSolvency \/ MadeRisk \/ MadeKeyedRisk \/ MadeInclusion)'
          PROVE  PathInv'
      <3>1. page' # None
        BY <2>2 DEF MayProve
      <3> QED BY <2>2, <3>1 DEF PathInv, PageInv, ProofInv, CallInv
    <2>3. CASE ProveSolvency
      <3>1. MadeSolvency' /\ MayProve /\ UNCHANGED <<page, latest>> /\ sent' = None
        BY <2>3 DEF ProveSolvency, FullProve, MadeSolvency, Made
      <3> QED BY <2>2, <3>1
    <2>4. ASSUME NEW conc \in ConcBounds, NEW coll \in CollBounds, ProveRisk(conc, coll)
          PROVE  PathInv'
      <3>1. MadeRisk' /\ MayProve /\ UNCHANGED <<page, latest>> /\ sent' = None
        BY <2>4 DEF ProveRisk, FullProve, MadeRisk, Made
      <3> QED BY <2>2, <3>1
    <2>5. ASSUME NEW keys \in KeyLists, NEW conc \in ConcBounds, NEW coll \in CollBounds,
                 ProveKeyedRisk(keys, conc, coll)
          PROVE  PathInv'
      <3>1. MadeKeyedRisk' /\ MayProve /\ UNCHANGED <<page, latest>> /\ sent' = None
        BY <2>5 DEF ProveKeyedRisk, FullProve, MadeKeyedRisk, Made
      <3> QED BY <2>2, <3>1
    <2>6. ASSUME NEW idx \in 0..(NLeaves - 1), NEW claimed \in Claims,
                 ProveInclusion(idx, claimed)
          PROVE  PathInv'
      <3>1. MadeInclusion' /\ MayProve /\ UNCHANGED <<page, latest>> /\ sent' = None
        BY <2>6 DEF ProveInclusion, FullProve, MadeInclusion, Made
      <3> QED BY <2>2, <3>1
    <2>7. ASSUME NEW circuit, NEW words \in Sendable, Submit(circuit, words) PROVE PathInv'
      <3>1. proof # None /\ UNCHANGED <<page, proof>>
        BY <2>7 DEF Sendable, Submit
      <3> QED BY <3>1 DEF PathInv, PageInv, ProofInv, CallInv, MadeSolvency, MadeRisk,
                          MadeKeyedRisk, MadeInclusion, Made
    <2>8. ASSUME NEW words \in Sendable, VerifyInclusion(words) PROVE PathInv'
      <3>1. proof # None /\ UNCHANGED <<page, proof, latest>>
        BY <2>8 DEF Sendable, VerifyInclusion
      <3> QED BY <3>1 DEF PathInv, PageInv, ProofInv, CallInv, MadeSolvency, MadeRisk,
                          MadeKeyedRisk, MadeInclusion, Made
    <2>9. CASE UNCHANGED vars
      BY <2>9 DEF vars, PathInv, PageInv, ProofInv, CallInv, MadeSolvency, MadeRisk,
                  MadeKeyedRisk, MadeInclusion, Made
    <2> QED BY <2>1, <2>3, <2>4, <2>5, <2>6, <2>7, <2>8, <2>9 DEF Next
  <1> QED BY <1>1, <1>2, PTL DEF Spec

\* A proof has the signals asked for or, when a constraint fails, none.
LEMMA MadeSignals ==
  ASSUME NEW circuit, NEW request, NEW satisfied \in BOOLEAN, NEW signals \in Seq(Field),
         Made(circuit, request, satisfied, signals)
  PROVE  /\ proof.circuit = circuit /\ proof.request = request
         /\ proof.proved = satisfied /\ proof.proved \in BOOLEAN
         /\ proof.signals \in Seq(Field)
         /\ proof.signals # <<>> => proof.proved /\ proof.signals = signals
  <1>1. /\ proof.circuit = circuit /\ proof.request = request /\ proof.proved = satisfied
        /\ proof.signals = IF satisfied THEN signals ELSE <<>>
    BY MadeFields
  <1>2. <<>> \in Seq(Field)
    OBVIOUS
  <1>3. CASE satisfied = TRUE
    <2>1. proof.signals = signals
      BY <1>1, <1>3
    <2> QED BY <1>1, <1>3, <2>1
  <1>4. CASE satisfied = FALSE
    <2>1. proof.signals = <<>>
      BY <1>1, <1>4
    <2> QED BY <1>1, <1>2, <1>4, <2>1
  <1> QED BY <1>3, <1>4

\* The public signals of a proof are field elements, as many as its circuit has.
LEMMA SignalsInField ==
  ASSUME PathInv, proof # None
  PROVE  /\ proof.signals \in Seq(Field)
         /\ proof.circuit \in Circuits \cup {"keyed_risk_r1"}
         /\ proof.proved \in BOOLEAN
         /\ page # None /\ page.balances \in Seq(Int) /\ page.treasury \in Int
         /\ proof.signals # <<>> =>
              /\ proof.circuit \in Circuits /\ proof.proved
              /\ Len(proof.signals) = NPublic[proof.circuit]
  <1>1. page # None /\ (MadeSolvency \/ MadeRisk \/ MadeKeyedRisk \/ MadeInclusion)
    BY DEF PathInv, ProofInv
  <1>2. page.balances \in Seq(Int) /\ page.treasury \in Int
    BY <1>1, PageAssumption DEF PathInv, PageInv
  <1> DEFINE s == SolvencyInput(page.balances, page.treasury)
  <1>3. s.total \in Field /\ s.reserves \in Field /\ RootValue \in Field
    BY <1>2, SolvencySignals, PageAssumption
  <1>4. /\ NPublic["solvency"] = 3 /\ NPublic["risk_solvency"] = 5 /\ NPublic["inclusion"] = 2
        /\ {"solvency", "risk_solvency", "inclusion"} = Circuits
    BY DEF NPublic, Circuits
  <1> HIDE DEF s
  <1>5. CASE MadeSolvency
    <2> DEFINE sig == <<RootValue, s.total, s.reserves>>
    <2>1. Made("solvency", <<>>, SolvencyConstraints(s), sig)
      BY <1>5 DEF MadeSolvency, s
    <2>2. sig \in Seq(Field) /\ Len(sig) = 3
      BY <1>3
    <2> HIDE DEF sig
    <2>3. SolvencyConstraints(s) \in BOOLEAN
      BY Satisfied
    <2>4. /\ proof.circuit = "solvency" /\ proof.proved \in BOOLEAN
          /\ proof.signals \in Seq(Field)
          /\ proof.signals # <<>> => proof.proved /\ proof.signals = sig
      BY <2>1, <2>2, <2>3, MadeSignals
    <2> QED BY <1>1, <1>2, <1>4, <2>2, <2>4
  <1>6. CASE MadeRisk
    <2>1. PICK conc \in ConcBounds, coll \in CollBounds :
            LET w == RiskInput(page.balances, page.treasury, conc, coll)
            IN Made("risk_solvency", <<conc, coll>>, RiskSolvencyConstraints(w),
                    <<RootValue, w.total, w.reserves, w.maxConcBps, w.minCollBps>>)
      BY <1>6 DEF MadeRisk
    <2> DEFINE w == RiskInput(page.balances, page.treasury, conc, coll)
               sig == <<RootValue, w.total, w.reserves, w.maxConcBps, w.minCollBps>>
    <2>2. /\ w.total \in Field /\ w.reserves \in Field
          /\ w.maxConcBps \in Field /\ w.minCollBps \in Field
      BY <1>3, RiskInputFields, PageAssumption DEF s
    <2>3. Made("risk_solvency", <<conc, coll>>, RiskSolvencyConstraints(w), sig)
      BY <2>1
    <2> HIDE DEF w
    <2>4. sig \in Seq(Field) /\ Len(sig) = 5
      BY <1>3, <2>2
    <2> HIDE DEF sig
    <2>5. RiskSolvencyConstraints(w) \in BOOLEAN
      BY Satisfied
    <2>6. /\ proof.circuit = "risk_solvency" /\ proof.proved \in BOOLEAN
          /\ proof.signals \in Seq(Field)
          /\ proof.signals # <<>> => proof.proved /\ proof.signals = sig
      BY <2>3, <2>4, <2>5, MadeSignals
    <2> QED BY <1>1, <1>2, <1>4, <2>4, <2>6
  <1>7. CASE MadeKeyedRisk
    <2>1. PICK keys \in KeyLists, conc \in ConcBounds, coll \in CollBounds :
            Made("keyed_risk_r1", <<keys, conc, coll>>,
                 KeyedRiskR1Constraints(KeyedRiskInput(page.balances, page.treasury, keys, conc, coll)),
                 <<>>)
      BY <1>7 DEF MadeKeyedRisk
    <2> DEFINE sig == <<>>
    <2>2. sig \in Seq(Field)
      OBVIOUS
    <2> HIDE DEF sig
    <2>3. /\ proof.circuit = "keyed_risk_r1" /\ proof.proved \in BOOLEAN
          /\ proof.signals \in Seq(Field)
          /\ proof.signals # <<>> => proof.signals = sig
      <3> DEFINE w == KeyedRiskInput(page.balances, page.treasury, keys, conc, coll)
      <3>1. KeyedRiskR1Constraints(w) \in BOOLEAN
        BY Satisfied
      <3> HIDE DEF w
      <3>2. Made("keyed_risk_r1", <<keys, conc, coll>>, KeyedRiskR1Constraints(w), sig)
        BY <2>1 DEF w, sig
      <3> QED BY <2>2, <3>1, <3>2, MadeSignals
    <2>4. proof.signals = <<>>
      BY <2>3 DEF sig
    <2> QED BY <1>1, <1>2, <1>4, <2>3, <2>4
  <1>8. CASE MadeInclusion
    <2>1. PICK idx \in 0..(NLeaves - 1), claimed \in Claims :
            Made("inclusion", <<idx, claimed>>,
                 InclusionConstraints(InclusionInput(page.balances, idx, claimed)),
                 <<RootValue, LeafValue + idx>>)
      BY <1>8 DEF MadeInclusion
    <2> DEFINE sig == <<RootValue, LeafValue + idx>>
    <2>2. LeafValue + idx \in Field
      BY PageAssumption
    <2>3. sig \in Seq(Field) /\ Len(sig) = 2
      BY <1>3, <2>2
    <2> HIDE DEF sig
    <2>4. /\ proof.circuit = "inclusion" /\ proof.proved \in BOOLEAN
          /\ proof.signals \in Seq(Field)
          /\ proof.signals # <<>> => proof.proved /\ proof.signals = sig
      <3> DEFINE w == InclusionInput(page.balances, idx, claimed)
      <3>1. InclusionConstraints(w) \in BOOLEAN
        BY Satisfied
      <3> HIDE DEF w
      <3>2. Made("inclusion", <<idx, claimed>>, InclusionConstraints(w), sig)
        BY <2>1 DEF w, sig
      <3> QED BY <2>3, <3>1, <3>2, MadeSignals
    <2> QED BY <1>1, <1>2, <1>4, <2>3, <2>4
  <1> QED BY <1>1, <1>5, <1>6, <1>7, <1>8

\* A call carries words and has one of four answers; one that went through
\* carries canonical words.
SentInv ==
  sent # None =>
    /\ sent.circuit \in Circuits
    /\ sent.words \in Seq(Words)
    /\ sent.answer \in {"stored", "reverted", "true", "false"}
    /\ sent.answer \in {"stored", "true"} =>
         \A i \in DOMAIN sent.words : IsCanonicalFr(sent.words[i])

StoredInv == latest # None => {latest.root, latest.total, latest.reserves} \subseteq Words

\* What a submission that is accepted stores.
Stored(circuit, words) ==
  [circuit |-> circuit, root |-> words[1], total |-> words[2], reserves |-> words[3],
   bounds |-> IF circuit = "risk_solvency"
              THEN <<Be32ToU32(words[4]), Be32ToU32(words[5])>> ELSE <<>>]

\* A submission stores all of it or nothing.
LEMMA SubmitOutcome ==
  ASSUME NEW circuit \in {"solvency", "risk_solvency"}, NEW words \in Sendable,
         PathInv, Submit(circuit, words)
  PROVE  /\ words \in Seq(Words) /\ proof # None /\ proof' = proof /\ page' = page
         /\ sent'.circuit = circuit /\ sent'.words = words
         /\ \/ /\ Accepted(circuit, ProofBytes(proof), words)
               /\ sent'.answer = "stored" /\ latest' = Stored(circuit, words)
               /\ words[1] \in Words /\ words[2] \in Words /\ words[3] \in Words
               /\ \A i \in DOMAIN words : IsCanonicalFr(words[i])
            \/ sent'.answer = "reverted" /\ latest' = latest
  <1>1. proof # None /\ proof.signals # <<>> /\ words \in CallWords(proof)
    BY DEF Sendable
  <1>2. words \in Seq(Words)
    BY <1>1, CallsCarryWords, SignalsInField
  <1> DEFINE ok == Accepted(circuit, ProofBytes(proof), words)
  <1>3. /\ sent' = [circuit |-> circuit, words |-> words,
                    answer |-> IF ok THEN "stored" ELSE "reverted"]
        /\ latest' = IF ok THEN Stored(circuit, words) ELSE latest
        /\ proof' = proof /\ page' = page
    BY DEF Submit, Stored
  <1>4. sent'.circuit = circuit /\ sent'.words = words
        /\ sent'.answer = IF ok THEN "stored" ELSE "reverted"
    BY <1>3
  <1>6. CASE ok
    <2>1. Len(words) = NPublic[circuit] /\ \A i \in DOMAIN words : IsCanonicalFr(words[i])
      BY <1>6 DEF Accepted, WellFormed
    <2>2. Len(words) >= 3
      BY <2>1 DEF NPublic
    <2>3. words[1] \in Words /\ words[2] \in Words /\ words[3] \in Words
      BY <1>2, <2>2
    <2>4. sent'.answer = "stored" /\ latest' = Stored(circuit, words)
      BY <1>3, <1>4, <1>6
    <2> HIDE DEF ok
    <2> QED BY <1>1, <1>2, <1>3, <1>4, <1>6, <2>1, <2>3, <2>4, Zenon DEF ok
  <1>7. CASE ~ok
    <2>1. sent'.answer = "reverted" /\ latest' = latest
      BY <1>3, <1>4, <1>7
    <2> HIDE DEF ok
    <2> QED BY <1>1, <1>2, <1>3, <1>4, <2>1
  <1> QED BY <1>6, <1>7

\* The typing of the path: what a call carries and what the contract stores.
LEMMA SentInvariance == Spec => [](SentInv /\ StoredInv)
  <1>1. Init => SentInv /\ StoredInv
    BY DEF Init, SentInv, StoredInv
  <1>2. PathInv /\ SentInv /\ StoredInv /\ [Next]_vars => (SentInv /\ StoredInv)'
    <2> SUFFICES ASSUME PathInv, SentInv, StoredInv, [Next]_vars PROVE (SentInv /\ StoredInv)'
      OBVIOUS
    <2>1. ASSUME UNCHANGED <<sent, latest>> PROVE (SentInv /\ StoredInv)'
      BY <2>1 DEF SentInv, StoredInv
    <2>2. ASSUME sent' = None, UNCHANGED latest PROVE (SentInv /\ StoredInv)'
      BY <2>2 DEF SentInv, StoredInv
    <2>3. ASSUME NEW b \in Books, NEW t \in Treasuries, Enter(b, t)
          PROVE  (SentInv /\ StoredInv)'
      BY <2>1, <2>3 DEF Enter
    <2>4. CASE ProveSolvency
      BY <2>2, <2>4 DEF ProveSolvency, FullProve
    <2>5. ASSUME NEW conc \in ConcBounds, NEW coll \in CollBounds, ProveRisk(conc, coll)
          PROVE  (SentInv /\ StoredInv)'
      BY <2>2, <2>5 DEF ProveRisk, FullProve
    <2>6. ASSUME NEW keys \in KeyLists, NEW conc \in ConcBounds, NEW coll \in CollBounds,
                 ProveKeyedRisk(keys, conc, coll)
          PROVE  (SentInv /\ StoredInv)'
      BY <2>2, <2>6 DEF ProveKeyedRisk, FullProve
    <2>7. ASSUME NEW idx \in 0..(NLeaves - 1), NEW claimed \in Claims,
                 ProveInclusion(idx, claimed)
          PROVE  (SentInv /\ StoredInv)'
      BY <2>2, <2>7 DEF ProveInclusion, FullProve
    <2>8. ASSUME NEW circuit \in {"solvency", "risk_solvency"}, NEW words \in Sendable,
                 Submit(circuit, words)
          PROVE  (SentInv /\ StoredInv)'
      <3>1. /\ words \in Seq(Words)
            /\ sent'.circuit = circuit /\ sent'.words = words
            /\ \/ /\ sent'.answer = "stored" /\ latest' = Stored(circuit, words)
                  /\ words[1] \in Words /\ words[2] \in Words /\ words[3] \in Words
                  /\ \A i \in DOMAIN words : IsCanonicalFr(words[i])
               \/ sent'.answer = "reverted" /\ latest' = latest
        BY <2>8, SubmitOutcome
      <3>2. circuit \in Circuits
        BY DEF Circuits
      <3>3. SentInv'
        BY <3>1, <3>2 DEF SentInv
      <3>4. StoredInv'
        <4>1. CASE latest' = latest
          BY <4>1 DEF StoredInv
        <4>2. CASE latest' = Stored(circuit, words) /\ words[1] \in Words
                   /\ words[2] \in Words /\ words[3] \in Words
          <5>1. latest'.root = words[1] /\ latest'.total = words[2] /\ latest'.reserves = words[3]
            BY <4>2 DEF Stored
          <5> QED BY <4>2, <5>1 DEF StoredInv
        <4> QED BY <3>1, <4>1, <4>2
      <3> QED BY <3>3, <3>4
    <2>9. ASSUME NEW words \in Sendable, VerifyInclusion(words) PROVE (SentInv /\ StoredInv)'
      <3>1. words \in Seq(Words)
        <4>1. proof # None /\ proof.signals # <<>> /\ words \in CallWords(proof)
          BY DEF Sendable
        <4> QED BY <4>1, CallsCarryWords, SignalsInField
      <3> DEFINE malformed == ~WellFormed("inclusion", words) \/ latest = None
                 other == words[1] # latest.root
                 unread == ProofFromBytes(ProofBytes(proof)) = {}
                 verified == ProofVerifies("inclusion", ProofBytes(proof), words)
                 answer == IF malformed THEN "reverted"
                           ELSE IF other THEN "false"
                           ELSE IF unread THEN "reverted"
                           ELSE IF verified THEN "true" ELSE "false"
      <3>7. /\ sent' = [circuit |-> "inclusion", words |-> words, answer |-> answer]
            /\ latest' = latest
        BY <2>9, Zenon DEF VerifyInclusion
      <3>8. answer \in {"reverted", "false", "true"} /\ (answer = "true" => ~malformed)
        <4> HIDE DEF malformed, other, unread, verified
        <4>1. CASE malformed
          BY <4>1
        <4>2. CASE ~malformed
          BY <4>2
        <4> QED BY <4>1, <4>2
      <3> HIDE DEF answer
      <3>2. /\ latest' = latest
            /\ sent'.circuit = "inclusion" /\ sent'.words = words /\ sent'.answer = answer
            /\ answer \in {"reverted", "false", "true"}
            /\ answer = "true" => WellFormed("inclusion", words)
        BY <3>7, <3>8
      <3>3. answer = "true" => \A i \in DOMAIN words : IsCanonicalFr(words[i])
        BY <3>2 DEF WellFormed
      <3>4. answer \in {"stored", "true"} => answer = "true"
        BY <3>2
      <3>5. "inclusion" \in Circuits
        BY DEF Circuits
      <3>6. SentInv'
        BY <3>1, <3>2, <3>3, <3>4, <3>5 DEF SentInv
      <3> QED BY <3>2, <3>6 DEF StoredInv
    <2>10. CASE UNCHANGED vars
      BY <2>1, <2>10 DEF vars
    <2> QED BY <2>3, <2>4, <2>5, <2>6, <2>7, <2>8, <2>9, <2>10 DEF Next
  <1> QED BY <1>1, <1>2, PathInvariance, PTL DEF Spec

\* Type correctness: the page keeps integers, a proof's signals are field elements,
\* a call carries words and has one of four answers, and the storage keeps words.
THEOREM DataPathTyped == Spec => []PathTypeOK
  <1>1. PathInv /\ SentInv /\ StoredInv => PathTypeOK
    <2> SUFFICES ASSUME PathInv, SentInv, StoredInv PROVE PathTypeOK
      OBVIOUS
    <2>1. page # None => page.balances \in Seq(Int) /\ page.treasury \in Int
      BY PageAssumption DEF PathInv, PageInv
    <2>2. proof # None => /\ proof.circuit \in Circuits \cup {"keyed_risk_r1"}
                          /\ proof.signals \in Seq(Field)
                          /\ proof.proved \in BOOLEAN
      BY SignalsInField
    <2>3. sent # None => /\ sent.circuit \in Circuits
                         /\ sent.words \in Seq(Words)
                         /\ sent.answer \in {"stored", "reverted", "true", "false"}
      BY DEF SentInv
    <2> QED BY <2>1, <2>2, <2>3 DEF PathTypeOK, StoredInv
  <1> QED BY <1>1, PathInvariance, SentInvariance, PTL

----------------------------------------------------------------------------
(***************************************************************************)
(* The book as the field takes it.                                         *)
(***************************************************************************)

\* Two rows of leaves with the same nodes have the same nodes on every level.
LEMMA SameNodes ==
  ASSUME NEW t, NEW u, NEW leaves, NEW others, IsTree(t, leaves), IsTree(u, others),
         \A i \in 1..NLeaves : /\ leaves[i].sum \in Int /\ others[i].sum \in Int
                               /\ Node(leaves[i]) = Node(others[i])
  PROVE  \A d \in 0..Depth : \A i \in 1..Pow(2, Depth - d) : Node(t[d][i]) = Node(u[d][i])
  <1> DEFINE W(d) == Pow(2, Depth - d)
             Q == {d \in 0..Depth : \A i \in 1..W(d) : Node(t[d][i]) = Node(u[d][i])}
  <1>1. /\ t[0] = leaves /\ \A d \in 0..(Depth - 1) : t[d + 1] = Parents(t[d], W(d + 1))
        /\ u[0] = others /\ \A d \in 0..(Depth - 1) : u[d + 1] = Parents(u[d], W(d + 1))
    <2>1. t[0] = leaves /\ \A d \in 0..(Depth - 1) : t[d + 1] = Parents(t[d], W(d + 1))
      BY TreeLevels
    <2>2. u[0] = others /\ \A d \in 0..(Depth - 1) : u[d + 1] = Parents(u[d], W(d + 1))
      BY TreeLevels
    <2> QED BY <2>1, <2>2
  <1>2. \A d \in 0..Depth : \A i \in 1..W(d) : t[d][i].sum \in Int /\ u[d][i].sum \in Int
    <2>1. \A d \in 0..Depth : \A i \in 1..W(d) : t[d][i].sum \in Int
      BY TreeSums
    <2>2. \A d \in 0..Depth : \A i \in 1..W(d) : u[d][i].sum \in Int
      BY TreeSums
    <2> QED BY <2>1, <2>2
  <1>3. 0 \in Q
    <2>1. 0 \in 0..Depth /\ W(0) = NLeaves
      <3>1. 0 \in 0..Depth /\ Depth - 0 = Depth
        BY WidthsAssumption
      <3> QED BY <3>1 DEF NLeaves
    <2> HIDE DEF W
    <2> QED BY <1>1, <2>1
  <1>4. ASSUME NEW d \in 0..(Depth - 1), d \in Q PROVE d + 1 \in Q
    <2> DEFINE m == W(d + 1)
               row == t[d]
               col == u[d]
    <2>1. m \in Nat \ {0} /\ W(d) = 2 * m /\ d \in 0..Depth /\ d + 1 \in 0..Depth
      <3>1. d + 1 \in 0..Depth
        BY WidthsAssumption
      <3> QED BY <3>1, LevelWidth
    <2>2. t[d + 1] = Parents(row, m) /\ u[d + 1] = Parents(col, m)
      BY <1>1
    <2>3. \A i \in 1..W(d) : Node(row[i]) = Node(col[i])
      BY <1>4
    <2>4. \A i \in 1..W(d) : row[i].sum \in Int /\ col[i].sum \in Int
      BY <1>2, <2>1
    <2> HIDE DEF W, m, row, col
    <2>5. ASSUME NEW i \in 1..m PROVE Node(t[d + 1][i]) = Node(u[d + 1][i])
      <3>1. 2*i - 1 \in 1..(2 * m) /\ 2*i \in 1..(2 * m)
        BY <2>1
      <3>2. /\ t[d + 1][i] = PageParent(row[2*i - 1], row[2*i])
            /\ u[d + 1][i] = PageParent(col[2*i - 1], col[2*i])
        BY <2>2 DEF Parents
      <3>3. /\ row[2*i - 1].sum \in Int /\ row[2*i].sum \in Int
            /\ col[2*i - 1].sum \in Int /\ col[2*i].sum \in Int
            /\ Node(row[2*i - 1]) = Node(col[2*i - 1]) /\ Node(row[2*i]) = Node(col[2*i])
        BY <2>1, <2>3, <2>4, <3>1
      <3>4. /\ Node(t[d + 1][i]) = MerkleSumParent(Node(row[2*i - 1]), Node(row[2*i]))
            /\ Node(u[d + 1][i]) = MerkleSumParent(Node(col[2*i - 1]), Node(col[2*i]))
        BY <3>2, <3>3, NodeOfParent
      <3> QED BY <3>3, <3>4
    <2> QED BY <2>1, <2>5 DEF m
  <1> HIDE DEF Q
  <1>5. 0..Depth \subseteq Q
    BY <1>3, <1>4, LevelInduction
  <1> QED BY <1>5 DEF Q

\* What the field takes is a book of figures it can tell from all others.
LEMMA TakenIsBook ==
  ASSUME NEW balances \in Seq(Int), Len(balances) <= NLeaves
  PROVE  /\ IsBook(Taken(balances)) /\ Taken(balances) \in Seq(Field)
         /\ DOMAIN Taken(balances) = DOMAIN balances
         /\ Len(Taken(balances)) = Len(balances)
         /\ \A i \in DOMAIN balances : Taken(balances)[i] = Reduce(balances[i])
  <1> DEFINE taken == Taken(balances)
             n == Len(balances)
  <1>1. n \in Nat /\ DOMAIN balances = 1..n /\ \A i \in 1..n : balances[i] \in Int
    OBVIOUS
  <1>2. taken = [i \in 1..n |-> Reduce(balances[i])]
    BY <1>1 DEF Taken
  <1>3. \A i \in 1..n : Reduce(balances[i]) \in Field
    BY <1>1, ReduceLaws
  <1> HIDE DEF taken, n
  <1>4. /\ taken \in Seq(Field) /\ Len(taken) = n /\ DOMAIN taken = 1..n
        /\ \A i \in 1..n : taken[i] = Reduce(balances[i])
    BY <1>1, <1>2, <1>3
  <1>5. Field \subseteq FigureRange
    <2> DEFINE c == Pow(2, CmpBits)
    <2>1. c \in Nat /\ c <= FieldModulus /\ FieldModulus \in Nat
      BY Widths, ModulusAssumption
    <2> HIDE DEF c
    <2>2. 0..(FieldModulus - 1) \subseteq (c - FieldModulus)..(FieldModulus - 1)
      BY <2>1
    <2> QED BY <2>2 DEF Field, FigureRange, c
  <1>6. taken \in Seq(FigureRange)
    <2> HIDE DEF Field, FigureRange
    <2> QED BY <1>4, <1>5
  <1> QED BY <1>1, <1>4, <1>6 DEF IsBook, taken, n

\* Padded, it is the padded book of the page, reduced.
LEMMA TakenPads ==
  ASSUME NEW balances \in Seq(Int), Len(balances) <= NLeaves, NEW i \in 1..NLeaves
  PROVE  /\ PadBook(balances)[i] \in Int /\ PadBook(Taken(balances))[i] \in Int
         /\ Reduce(PadBook(balances)[i]) = Reduce(PadBook(Taken(balances))[i])
  <1> DEFINE taken == Taken(balances)
             p == PadBook(balances)[i]
             q == PadBook(taken)[i]
  <1>1. /\ DOMAIN taken = DOMAIN balances
        /\ p = IF i \in DOMAIN balances THEN ProveBalance(balances[i]) ELSE 0
        /\ q = IF i \in DOMAIN balances THEN ProveBalance(taken[i]) ELSE 0
    BY TakenIsBook DEF PadBook
  <1>2. ASSUME i \in DOMAIN balances
        PROVE  /\ p \in Int /\ q \in Int /\ Reduce(p) = Reduce(q)
    <2> DEFINE x == balances[i]
    <2>1. x \in Int
      BY <1>2
    <2>2. Reduce(x) \in Field /\ Reduce(Reduce(x)) = Reduce(x) /\ Reduce(x) \in Nat
      BY <2>1, ReduceLaws
    <2>3. ProveBalance(x) \in Int /\ Reduce(ProveBalance(x)) = Reduce(x)
      <3> HIDE DEF x
      <3>1. FieldModulus \in Int /\ x + (1 * FieldModulus) = FieldModulus + x
        BY <2>1, ModulusAssumption
      <3>2. Reduce(x + (1 * FieldModulus)) = Reduce(x)
        BY <2>1, ReduceLaws
      <3> QED BY <2>1, <3>1, <3>2 DEF ProveBalance
    <2>4. taken[i] = Reduce(x)
      BY <1>2, TakenIsBook
    <2> HIDE DEF x
    <2>5. ProveBalance(taken[i]) = Reduce(x)
      BY <2>2, <2>4 DEF ProveBalance
    <2>6. p = ProveBalance(x) /\ q = Reduce(x)
      BY <1>1, <1>2, <2>5 DEF x
    <2> HIDE DEF p, q
    <2> QED BY <2>2, <2>3, <2>6
  <1>3. CASE i \notin DOMAIN balances
    BY <1>1, <1>3
  <1> QED BY <1>2, <1>3

\* The circuits' inputs for the page's book are those for the book as the field
\* takes it.
LEMMA TakenInputs ==
  ASSUME NEW balances \in Seq(Int), Len(balances) <= NLeaves
  PROVE  /\ \A reserves \in Int :
              SolvencyInput(balances, reserves) = SolvencyInput(Taken(balances), Reduce(reserves))
         /\ \A idx \in 0..(NLeaves - 1), claimed \in Int :
              InclusionInput(balances, idx, claimed)
                = InclusionInput(Taken(balances), idx, Reduce(claimed))
  <1> DEFINE taken == Taken(balances)
             t == BuildTree(balances)
             u == BuildTree(taken)
             leaves == PageLeaves(balances)
             others == PageLeaves(taken)
             p == PadBook(balances)
             q == PadBook(taken)
  <1>1. IsTree(t, leaves) /\ IsTree(u, others)
    BY BuildTreeIsTree
  <1>2. \A i \in 1..NLeaves : p[i] \in Int /\ q[i] \in Int /\ Reduce(p[i]) = Reduce(q[i])
    BY TakenPads
  <1>3. \A i \in 1..NLeaves :
          /\ leaves[i] = [hash |-> LeafHash(AcctCommit(i), Reduce(p[i])), sum |-> p[i]]
          /\ others[i] = [hash |-> LeafHash(AcctCommit(i), Reduce(q[i])), sum |-> q[i]]
    BY DEF PageLeaves
  <1> HIDE DEF p, q, t, u, leaves, others
  <1>4. \A i \in 1..NLeaves : /\ leaves[i].sum \in Int /\ others[i].sum \in Int
                              /\ Node(leaves[i]) = Node(others[i])
    <2> SUFFICES ASSUME NEW i \in 1..NLeaves
                 PROVE  /\ leaves[i].sum \in Int /\ others[i].sum \in Int
                        /\ Node(leaves[i]) = Node(others[i])
      OBVIOUS
    <2> DEFINE h == LeafHash(AcctCommit(i), Reduce(p[i]))
    <2>1. leaves[i] = [hash |-> h, sum |-> p[i]] /\ others[i] = [hash |-> h, sum |-> q[i]]
      <3>1. Reduce(p[i]) = Reduce(q[i])
        BY <1>2
      <3> QED BY <1>3, <3>1
    <2> HIDE DEF h
    <2>2. Node(leaves[i]) = [hash |-> h, sum |-> Reduce(p[i])]
      BY <2>1 DEF Node
    <2>3. Node(others[i]) = [hash |-> h, sum |-> Reduce(q[i])]
      BY <2>1 DEF Node
    <2> QED BY <1>2, <2>1, <2>2, <2>3
  <1>5. \A d \in 0..Depth : \A i \in 1..Pow(2, Depth - d) : Node(t[d][i]) = Node(u[d][i])
    BY <1>1, <1>4, SameNodes
  <1>6. \A l, r : Node(l) = Node(r) => l.hash = r.hash /\ Reduce(l.sum) = Reduce(r.sum)
    BY DEF Node
  <1>7. t[Depth][1].hash = u[Depth][1].hash /\ Reduce(t[Depth][1].sum) = Reduce(u[Depth][1].sum)
    <2>1. Depth \in 0..Depth /\ Depth - Depth = 0 /\ Pow(2, 0) = 1 /\ 1 \in 1..1
      BY WidthsAssumption, PowLaws
    <2>2. Node(t[Depth][1]) = Node(u[Depth][1])
      BY <1>5, <2>1
    <2> QED BY <1>6, <2>2, Zenon
  <1>8. \A x \in Int : Reduce(Reduce(x)) = Reduce(x)
    BY ReduceLaws
  <1>9. ASSUME NEW reserves \in Int
        PROVE  SolvencyInput(balances, reserves) = SolvencyInput(taken, Reduce(reserves))
    <2>1. [i \in 1..NLeaves |-> Reduce(p[i])] = [i \in 1..NLeaves |-> Reduce(q[i])]
      BY <1>2
    <2>2. SolvencyInput(balances, reserves) =
            [rootHash |-> t[Depth][1].hash, total |-> Reduce(t[Depth][1].sum),
             reserves |-> Reduce(reserves), balances |-> [i \in 1..NLeaves |-> Reduce(p[i])],
             acctCommit |-> [i \in 1..NLeaves |-> AcctCommit(i)]]
      BY DEF SolvencyInput, t, p
    <2>3. SolvencyInput(taken, Reduce(reserves)) =
            [rootHash |-> u[Depth][1].hash, total |-> Reduce(u[Depth][1].sum),
             reserves |-> Reduce(Reduce(reserves)),
             balances |-> [i \in 1..NLeaves |-> Reduce(q[i])],
             acctCommit |-> [i \in 1..NLeaves |-> AcctCommit(i)]]
      BY DEF SolvencyInput, u, q
    <2> HIDE DEF taken
    <2> QED BY <1>7, <1>8, <2>1, <2>2, <2>3
  <1>10. ASSUME NEW idx \in 0..(NLeaves - 1), NEW claimed \in Int
         PROVE  InclusionInput(balances, idx, claimed) = InclusionInput(taken, idx, Reduce(claimed))
    <2> DEFINE j(d) == idx \div Pow(2, d - 1)
               sibs == [d \in 1..Depth |-> Node(t[d - 1][Sibling(j(d)) + 1])]
               bros == [d \in 1..Depth |-> Node(u[d - 1][Sibling(j(d)) + 1])]
               path == [d \in 1..Depth |-> j(d) % 2]
    <2>1. ASSUME NEW d \in 1..Depth
          PROVE  Node(t[d - 1][Sibling(j(d)) + 1]) = Node(u[d - 1][Sibling(j(d)) + 1])
      <3> DEFINE x == j(d)
                 m == Pow(2, Depth - ((d - 1) + 1))
      <3>1. d - 1 \in 0..(Depth - 1) /\ d - 1 \in 0..Depth /\ (d - 1) + 1 \in 0..Depth
        BY WidthsAssumption
      <3>2. x \in Nat /\ x < Pow(2, Depth - (d - 1))
        BY <3>1, PathNodes
      <3>3. m \in Nat \ {0} /\ Pow(2, Depth - (d - 1)) = 2 * m
        BY <3>1, LevelWidth
      <3> HIDE DEF x, m
      <3>4. Sibling(x) + 1 \in 1..(2 * m)
        <4>1. x % 2 = 0 \/ x % 2 = 1
          BY <3>2
        <4>2. x = 2 * (x \div 2) + (x % 2) /\ x \div 2 \in Nat
          BY <3>2
        <4> QED BY <3>2, <3>3, <4>1, <4>2 DEF Sibling
      <3>5. Sibling(x) + 1 \in 1..Pow(2, Depth - (d - 1))
        BY <3>3, <3>4
      <3> QED BY <1>5, <3>1, <3>5 DEF x
    <2>2. sibs = bros
      <3> HIDE DEF j
      <3> QED BY <2>1
    <2>3. t[0][idx + 1].hash = u[0][idx + 1].hash
      <3>1. 0 \in 0..Depth /\ Depth - 0 = Depth /\ idx + 1 \in 1..NLeaves
        BY LevelWidth
      <3>2. Node(t[0][idx + 1]) = Node(u[0][idx + 1])
        BY <1>5, <3>1 DEF NLeaves
      <3> QED BY <1>6, <3>2, Zenon
    <2>4. InclusionInput(balances, idx, claimed) =
            [rootHash |-> t[Depth][1].hash, leafCommitment |-> t[0][idx + 1].hash,
             balance |-> Reduce(claimed), acctCommit |-> AcctCommit(idx + 1),
             siblings |-> sibs, pathIndex |-> path]
      BY DEF InclusionInput, t
    <2>5. InclusionInput(taken, idx, Reduce(claimed)) =
            [rootHash |-> u[Depth][1].hash, leafCommitment |-> u[0][idx + 1].hash,
             balance |-> Reduce(Reduce(claimed)), acctCommit |-> AcctCommit(idx + 1),
             siblings |-> bros, pathIndex |-> path]
      BY DEF InclusionInput, u
    <2> HIDE DEF taken, sibs, bros, path
    <2> QED BY <1>7, <1>8, <2>2, <2>3, <2>4, <2>5
  <1> QED BY <1>9, <1>10

\* A figure as the field takes it is one the field can tell from others.
LEMMA ReducedFigure == \A x \in Int : Reduce(x) \in FigureRange
  <1> DEFINE c == Pow(2, CmpBits)
  <1>1. c \in Nat /\ c <= FieldModulus /\ FieldModulus \in Nat
    BY Widths, ModulusAssumption
  <1>2. \A x \in Int : Reduce(x) \in 0..(FieldModulus - 1)
    BY ReduceLaws DEF Field
  <1> HIDE DEF c
  <1>3. \A x \in Int : Reduce(x) \in (c - FieldModulus)..(FieldModulus - 1)
    BY <1>1, <1>2
  <1> QED BY <1>3 DEF FigureRange, c

\* In a path the page's inputs are those of the book as the field takes it, which
\* has as many entries.
LEMMA PageTaken ==
  ASSUME PathInv, page # None
  PROVE  /\ IsBook(TakenBook) /\ TakenBook \in Seq(Field) /\ TakenTreasury \in FigureRange
         /\ page.balances \in Seq(Int) /\ page.treasury \in Int
         /\ DOMAIN TakenBook = DOMAIN page.balances /\ Len(TakenBook) = Len(page.balances)
         /\ \A i \in DOMAIN TakenBook : TakenBook[i] = Reduce(page.balances[i])
         /\ SolvencyInput(page.balances, page.treasury) = SolvencyInput(TakenBook, TakenTreasury)
         /\ \A conc, coll : RiskInput(page.balances, page.treasury, conc, coll)
                              = RiskInput(TakenBook, TakenTreasury, conc, coll)
         /\ \A keys, conc, coll : KeyedRiskInput(page.balances, page.treasury, keys, conc, coll)
                                    = KeyedRiskInput(TakenBook, TakenTreasury, keys, conc, coll)
         /\ \A idx \in 0..(NLeaves - 1), claimed \in Int :
              InclusionInput(page.balances, idx, claimed)
                = InclusionInput(TakenBook, idx, Reduce(claimed))
  <1>1. PICK b \in Books, t \in Treasuries :
          Len(b) <= NLeaves /\ page = [balances |-> b, treasury |-> t]
    BY DEF PathInv, PageInv
  <1>2. page.balances = b /\ page.treasury = t
    BY <1>1
  <1>3. b \in Seq(Int) /\ t \in Int
    BY PageAssumption
  <1>4. TakenBook = Taken(b) /\ TakenTreasury = Reduce(t)
    BY <1>2 DEF TakenBook, TakenTreasury
  <1>5. /\ IsBook(Taken(b)) /\ Taken(b) \in Seq(Field) /\ DOMAIN Taken(b) = DOMAIN b /\ Len(Taken(b)) = Len(b)
        /\ \A i \in DOMAIN b : Taken(b)[i] = Reduce(b[i])
    BY <1>1, <1>3, TakenIsBook
  <1>6. Reduce(t) \in FigureRange
    BY <1>3, ReducedFigure
  <1>7. /\ SolvencyInput(b, t) = SolvencyInput(Taken(b), Reduce(t))
        /\ \A idx \in 0..(NLeaves - 1), claimed \in Int :
             InclusionInput(b, idx, claimed) = InclusionInput(Taken(b), idx, Reduce(claimed))
    BY <1>1, <1>3, TakenInputs
  <1>8. \A conc, coll : RiskInput(b, t, conc, coll) = RiskInput(Taken(b), Reduce(t), conc, coll)
    BY <1>7 DEF RiskInput
  <1>9. \A keys, conc, coll : KeyedRiskInput(b, t, keys, conc, coll)
                                = KeyedRiskInput(Taken(b), Reduce(t), keys, conc, coll)
    BY <1>8 DEF KeyedRiskInput
  <1> QED BY <1>2, <1>3, <1>4, <1>5, <1>6, <1>7, <1>8, <1>9

\* A figure the field can tell from others is taken as entered when it passes a
\* range check.
LEMMA TakenUnchanged ==
  ASSUME NEW x \in Int, NEW b \in 0..Pow(2, CmpBits), Reduce(x) \in 0..(b - 1)
  PROVE  TakenAsEntered(x, Reduce(x))
  <1> SUFFICES ASSUME x \in FigureRange PROVE x = Reduce(x)
    BY DEF TakenAsEntered
  <1>1. Reduce(x) = ProveBalance(x)
    BY FigureInField
  <1>2. b \in Nat
    <2> DEFINE c == Pow(2, CmpBits)
    <2>1. c \in Nat
      BY Widths
    <2> HIDE DEF c
    <2>2. b \in 0..c
      BY DEF c
    <2> QED BY <2>1, <2>2
  <1>3. ProveBalance(x) < b
    BY <1>1, <1>2
  <1>4. x \in 0..(b - 1)
    BY <1>3, FigureInField
  <1>5. x >= 0
    BY <1>2, <1>4
  <1> QED BY <1>1, <1>5, FigureInField

----------------------------------------------------------------------------
(***************************************************************************)
(* The statements about proofs.                                            *)
(***************************************************************************)

\* What the page builds is a witness for its book.
LEMMA PageWitnesses ==
  ASSUME NEW balances, IsBook(balances), NEW reserves, NEW keys, NEW conc, NEW coll
  PROVE  /\ IsWitness(SolvencyInput(balances, reserves), balances, reserves)
         /\ IsWitness(RiskInput(balances, reserves, conc, coll), balances, reserves)
         /\ LET w == KeyedRiskInput(balances, reserves, keys, conc, coll)
            IN /\ IsWitness(w, balances, reserves)
               /\ \A i \in 1..NLeaves : w.acctCommit[i] = <<w.keys[i], w.nonces[i]>>
               /\ w.keys = keys /\ w.maxConcBps = conc /\ w.minCollBps = coll
  <1> DEFINE s == SolvencyInput(balances, reserves)
             r == RiskInput(balances, reserves, conc, coll)
             w == KeyedRiskInput(balances, reserves, keys, conc, coll)
             acct == [i \in 1..NLeaves |-> <<keys[i], i>>]
             k == [acctCommit |-> acct, balances |-> r.balances]
  <1>1. s.balances = [i \in 1..NLeaves |-> Reduce(PadBook(balances)[i])]
    BY DEF SolvencyInput
  <1>2. /\ r.rootHash = s.rootHash /\ r.total = s.total /\ r.reserves = s.reserves
        /\ r.balances = s.balances /\ r.acctCommit = s.acctCommit
    BY RiskInputFields
  <1>3. /\ w.rootHash = MerkleSumRoot(MerkleLeaves(k)).hash
        /\ w.total = r.total /\ w.reserves = r.reserves /\ w.balances = r.balances
        /\ w.acctCommit = acct /\ w.keys = keys /\ w.nonces = [i \in 1..NLeaves |-> i]
        /\ w.maxConcBps = conc /\ w.minCollBps = coll
    BY DEF KeyedRiskInput
  <1> HIDE DEF s, r, w
  <1>4. /\ MerkleSumRoot(MerkleLeaves(s)).hash = s.rootHash
        /\ s.total = Reduce(SumFunction(PadBook(balances))) /\ s.reserves = Reduce(reserves)
    BY SolvencyRoot DEF s
  <1>5. MerkleSumRoot(MerkleLeaves(r)).hash = r.rootHash
    BY <1>2, SolvencyRoot DEF s
  <1>6. MerkleLeaves(w) = MerkleLeaves(k)
    <2>1. k.acctCommit = w.acctCommit /\ k.balances = w.balances
      BY <1>3
    <2> HIDE DEF k
    <2> QED BY <2>1 DEF MerkleLeaves
  <1>7. MerkleSumRoot(MerkleLeaves(w)).hash = w.rootHash
    BY <1>3, <1>6
  <1>8. \A i \in 1..NLeaves : w.acctCommit[i] = <<w.keys[i], w.nonces[i]>>
    BY <1>3
  <1>9. IsWitness(s, balances, reserves) /\ IsWitness(r, balances, reserves)
    BY <1>1, <1>2, <1>4, <1>5 DEF IsWitness
  <1>10. IsWitness(w, balances, reserves)
    BY <1>1, <1>2, <1>3, <1>4, <1>7 DEF IsWitness
  <1> QED BY <1>3, <1>8, <1>9, <1>10 DEF s, r, w

\* The circuit of a proof tells which request it answers.
LEMMA ProofOf ==
  ASSUME PathInv, proof # None
  PROVE  /\ page # None
         /\ proof.circuit = "solvency" => MadeSolvency
         /\ proof.circuit = "risk_solvency" => MadeRisk
         /\ proof.circuit = "keyed_risk_r1" => MadeKeyedRisk
         /\ proof.circuit = "inclusion" => MadeInclusion
  <1>1. page # None /\ (MadeSolvency \/ MadeRisk \/ MadeKeyedRisk \/ MadeInclusion)
    BY DEF PathInv, ProofInv
  <1>2. MadeSolvency => proof.circuit = "solvency"
    BY DEF MadeSolvency, Made
  <1>3. MadeRisk => proof.circuit = "risk_solvency"
    BY DEF MadeRisk, Made
  <1>4. MadeKeyedRisk => proof.circuit = "keyed_risk_r1"
    BY DEF MadeKeyedRisk, Made
  <1>5. MadeInclusion => proof.circuit = "inclusion"
    BY DEF MadeInclusion, Made
  <1> QED BY <1>1, <1>2, <1>3, <1>4, <1>5

\* A per-key proof caps what each key holds over all its leaves, in integers.
THEOREM KeyedProofsCapKeys == Spec => []KeysWithinCap
  <1>1. PathInv => KeysWithinCap
    <2> SUFFICES ASSUME PathInv, proof # None, proof.circuit = "keyed_risk_r1", proof.proved,
                        NEW i \in DOMAIN TakenBook
                 PROVE  Held(TakenBook, proof.request[1], proof.request[1][i]) * BpsUnit
                          <= proof.request[2] * Total
      BY DEF KeysWithinCap, Held
    <2>1. page # None /\ MadeKeyedRisk
      BY ProofOf
    <2>2. IsBook(TakenBook) /\ TakenTreasury \in FigureRange
      BY <2>1, PageTaken
    <2>3. PICK keys \in KeyLists, conc \in ConcBounds, coll \in CollBounds :
            Made("keyed_risk_r1", <<keys, conc, coll>>,
                 KeyedRiskR1Constraints(KeyedRiskInput(TakenBook, TakenTreasury, keys, conc, coll)),
                 <<>>)
      BY <2>1, PageTaken DEF MadeKeyedRisk
    <2> DEFINE w == KeyedRiskInput(TakenBook, TakenTreasury, keys, conc, coll)
    <2>4. /\ IsWitness(w, TakenBook, TakenTreasury)
          /\ \A j \in 1..NLeaves : w.acctCommit[j] = <<w.keys[j], w.nonces[j]>>
          /\ w.keys = keys /\ w.maxConcBps = conc /\ w.minCollBps = coll
      BY <2>2, PageWitnesses
    <2>5. proof.request = <<keys, conc, coll>> /\ proof.proved = KeyedRiskR1Constraints(w)
      BY <2>3, MadeFields
    <2> HIDE DEF w
    <2>6. w.maxConcBps \in Field /\ w.minCollBps \in Field
      BY <2>4, PageAssumption
    <2>7. KeyedRiskR1Constraints(w)
      BY <2>5
    <2>8. \A j \in 1..NLeaves :
            Capped(Held(TakenBook, w.keys, w.keys[j]), TakenBook, w.maxConcBps)
      BY <2>2, <2>4, <2>6, <2>7, KeyedRiskMeans
    <2>9. i \in 1..NLeaves
      BY <2>2, PaddedBook
    <2>10. proof.request[1] = keys /\ proof.request[2] = conc
      BY <2>5
    <2> QED BY <2>4, <2>8, <2>9, <2>10 DEF Capped, Total
  <1> QED BY <1>1, PathInvariance, PTL

\* Exactly the true balance of an account folds to the root of its book: whatever
\* is entered, the two are one number in the field, and one number outright unless
\* the field takes one of them as another.
THEOREM InclusionProofsAreTrue == Spec => []OnlyTrueBalanceFolds
  <1>1. PathInv => OnlyTrueBalanceFolds
    <2> DEFINE b == Pow(2, BalanceBits)
    <2> SUFFICES ASSUME PathInv, proof # None, proof.circuit = "inclusion"
                 PROVE  LET own == page.balances[proof.request[1] + 1]
                            claimed == proof.request[2]
                        IN /\ proof.proved <=> /\ Reduce(own) = Reduce(claimed)
                                               /\ Reduce(own) \in 0..(b - 1)
                           /\ proof.proved /\ {own, claimed} \subseteq FigureRange => own = claimed
      BY DEF OnlyTrueBalanceFolds
    <2>1. page # None /\ MadeInclusion
      BY ProofOf
    <2>2. /\ IsBook(TakenBook) /\ page.balances \in Seq(Int)
          /\ Len(TakenBook) = Len(page.balances)
      BY <2>1, PageTaken
    <2>3. PICK idx \in 0..(NLeaves - 1), claimed \in Claims :
            /\ idx < Len(page.balances)
            /\ Made("inclusion", <<idx, claimed>>,
                    InclusionConstraints(InclusionInput(page.balances, idx, claimed)),
                    <<RootValue, LeafValue + idx>>)
      BY <2>1 DEF MadeInclusion
    <2> DEFINE w == InclusionInput(TakenBook, idx, Reduce(claimed))
               own == page.balances[idx + 1]
    <2>4. /\ claimed \in Int /\ idx \in Nat /\ idx + 1 \in DOMAIN page.balances /\ own \in Int
          /\ TakenBook[idx + 1] = Reduce(own)
      <3>1. claimed \in Int
        BY PageAssumption
      <3>2. idx \in Nat /\ idx + 1 \in DOMAIN page.balances
        BY <2>2, <2>3
      <3>3. own \in Int
        BY <2>2, <3>2
      <3>4. idx + 1 \in DOMAIN TakenBook
        BY <2>1, <3>2, PageTaken
      <3> QED BY <2>1, <3>1, <3>2, <3>3, <3>4, PageTaken
    <2>5. InclusionInput(page.balances, idx, claimed) = w
      BY <2>1, <2>4, PageTaken
    <2>6. proof.request = <<idx, claimed>> /\ proof.proved = InclusionConstraints(w)
      BY <2>3, <2>5, MadeFields
    <2>7. Reduce(claimed) \in FigureRange
      BY <2>4, ReducedFigure
    <2>8. InclusionConstraints(w) <=> Reduce(own) = Reduce(claimed) /\ Reduce(own) \in 0..(b - 1)
      BY <2>2, <2>3, <2>4, <2>7, InclusionMeans
    <2> HIDE DEF w, own
    <2>9. proof.request[1] = idx /\ proof.request[2] = claimed
      BY <2>6
    <2>10. ASSUME Reduce(own) = Reduce(claimed), Reduce(own) \in 0..(b - 1),
                  own \in FigureRange, claimed \in FigureRange
           PROVE  own = claimed
      <3>1. b \in 0..Pow(2, CmpBits)
        BY Widths
      <3> HIDE DEF b
      <3>2. Reduce(claimed) \in 0..(b - 1)
        BY <2>10
      <3>3. own = Reduce(own) /\ claimed = Reduce(claimed)
        BY <2>4, <2>10, <3>1, <3>2, TakenUnchanged DEF TakenAsEntered
      <3> QED BY <2>10, <3>3
    <2> HIDE DEF b
    <2> QED BY <2>6, <2>8, <2>9, <2>10 DEF own
  <1> QED BY <1>1, PathInvariance, PTL

\* The abstract module sums as this one does.
LEMMA AbstractSum == \A f : Abstract!SumFunction(f) = SumFunction(f)
  BY DEF Abstract!SumFunction, Abstract!SumFunctionOnSet, Abstract!FoldFunctionOnSet,
         Abstract!MapThenFoldSet, SumFunction, SumFunctionOnSet, FoldFunctionOnSet,
         MapThenFoldSet

\* The abstract tree of the page's book: its root, its depth, its leaves.
LEMMA AbstractTree ==
  ASSUME NEW s, s.root = RootValue
  PROVE  /\ Abstract!HealthyTree(s, Depth) <=>
              /\ s.total <= s.reserves /\ s.reserves < Pow(2, CmpBits)
              /\ \A i \in DOMAIN TakenBook : TakenBook[i] < Pow(2, BalanceBits)
              /\ s.total = Reduce(SumFunction(TakenBook))
  <1> DEFINE tree == [depth |-> Depth,
                      leaves |-> [i \in DOMAIN page.balances |->
                                    [owner |-> AcctCommit(i), nonce |-> 0,
                                     balance |-> TakenBook[i]]]]
  <1>0. /\ DOMAIN TakenBook = DOMAIN page.balances
        /\ TakenBook = [i \in DOMAIN page.balances |-> TakenBook[i]]
    BY DEF TakenBook, Taken
  <1>1. s.root \in Abstract!Roots
    BY DEF Abstract!Roots
  <1>2. /\ Abstract!Leaves(s.root) = tree.leaves
        /\ \A i \in DOMAIN TakenBook : Abstract!Leaf(s.root, i).balance = TakenBook[i]
        /\ DOMAIN Abstract!Leaves(s.root) = DOMAIN TakenBook
    BY <1>0 DEF Abstract!Leaves, Abstract!Leaf
  <1>3. Abstract!RootSum(s.root) = Reduce(SumFunction(TakenBook))
    <2>1. [i \in DOMAIN Abstract!Leaves(s.root) |-> Abstract!Leaf(s.root, i).balance] = TakenBook
      BY <1>0, <1>2
    <2> QED BY <2>1, AbstractSum DEF Abstract!RootSum, Reduce
  <1>4. Abstract!BalancesInRange(s.root) <=>
          \A i \in DOMAIN TakenBook : TakenBook[i] < Pow(2, BalanceBits)
    BY <1>2 DEF Abstract!BalancesInRange
  <1> QED BY <1>1, <1>3, <1>4 DEF Abstract!HealthyTree

\* The abstract limits on the page's book.
LEMMA AbstractLimits ==
  ASSUME NEW s, s.root = RootValue
  PROVE  Abstract!RiskLimits(s) <=>
           /\ s.conc < Pow(2, BpsBits) * (10000 \div BpsUnit)
           /\ s.coll < Pow(2, BpsBits) * (10000 \div BpsUnit)
           /\ \A i \in DOMAIN TakenBook : TakenBook[i] * 10000 <= s.conc * s.total
           /\ s.coll * s.total <= s.reserves * 10000
  <1>1. /\ DOMAIN Abstract!Leaves(s.root) = DOMAIN TakenBook
        /\ \A i \in DOMAIN TakenBook : Abstract!Leaf(s.root, i).balance = TakenBook[i]
    <2>1. DOMAIN TakenBook = DOMAIN page.balances
      BY DEF TakenBook, Taken
    <2> QED BY <2>1 DEF Abstract!Leaves, Abstract!Leaf
  <1> QED BY <1>1 DEF Abstract!RiskLimits

\* The wrapping sum and the field's order make no difference: a tree the abstract
\* circuits accept is a solvent book, and a solvent book is one they accept.
LEMMA SolventIsHealthy ==
  ASSUME PathInv, page # None, NEW s,
         s.root = RootValue, s.total = Reduce(SumFunction(PadBook(TakenBook))),
         s.reserves = Reduce(TakenTreasury)
  PROVE  /\ Abstract!HealthyTree(s, Depth) <=> Solvent(TakenBook, TakenTreasury)
         /\ Solvent(TakenBook, TakenTreasury) =>
              s.total = SumFunction(TakenBook) /\ s.reserves = TakenTreasury
  <1> DEFINE b == TakenBook
             t == TakenTreasury
             c == Pow(2, CmpBits)
             total == SumFunction(b)
  <1>0. IsBook(b) /\ t \in FigureRange /\ \A i \in DOMAIN b : b[i] \in Nat
    <2>1. IsBook(b) /\ t \in FigureRange /\ b \in Seq(Field)
      BY PageTaken
    <2>2. \A i \in DOMAIN b : b[i] \in Field
      BY <2>1
    <2> QED BY <2>1, <2>2, FieldNumbers
  <1>1. Abstract!HealthyTree(s, Depth) <=>
          /\ s.total <= s.reserves /\ s.reserves < c
          /\ \A i \in DOMAIN b : b[i] < Pow(2, BalanceBits)
    <2>1. SumFunction(PadBook(b)) = SumFunction([i \in DOMAIN b |-> ProveBalance(b[i])])
      BY <1>0, PaddedBook
    <2>2. [i \in DOMAIN b |-> ProveBalance(b[i])] = [i \in DOMAIN b |-> b[i]]
      BY <1>0 DEF ProveBalance
    <2>3. b = [i \in DOMAIN b |-> b[i]]
      BY <1>0 DEF IsBook
    <2>4. s.total = Reduce(SumFunction(b))
      BY <2>1, <2>2, <2>3
    <2> QED BY <2>4, AbstractTree
  <1>2. (\A i \in DOMAIN b : b[i] < Pow(2, BalanceBits)) <=> InRange(b)
    <2> DEFINE m == Pow(2, BalanceBits)
    <2>1. m \in Nat
      BY Widths
    <2> HIDE DEF b, m
    <2>2. \A i \in DOMAIN b : b[i] < m <=> b[i] \in 0..(m - 1)
      BY <1>0, <2>1
    <2> QED BY <2>2 DEF InRange, m
  <1>3. c \in Nat \ {0} /\ c <= FieldModulus
    BY Widths
  <1>4. s.reserves \in Field /\ (s.reserves < c <=> t \in 0..(c - 1))
    <2>1. s.reserves = ProveBalance(t) /\ ProveBalance(t) \in Field
      BY <1>0, FigureInField
    <2>2. c \in 0..Pow(2, CmpBits)
      BY <1>3
    <2> QED BY <1>0, <2>1, <2>2, FigureInField
  <1>5. t \in 0..(c - 1) => s.reserves = t
    <2>1. s.reserves = ProveBalance(t)
      BY <1>0, FigureInField
    <2> QED BY <1>0, <1>3, <2>1, FigureInField
  <1>6. InRange(b) => s.total = total /\ total \in Nat
    <2> SUFFICES ASSUME InRange(b) PROVE s.total = total /\ total \in Nat
      OBVIOUS
    <2>1. SumFunction(PadBook(b)) = total /\ total \in Nat /\ total < c
      BY <1>0, RangedBook
    <2>2. total \in Field
      <3> HIDE DEF total, c
      <3> QED BY <1>3, <2>1, ModulusAssumption DEF Field
    <2> QED BY <2>1, <2>2, ReduceLaws
  <1> HIDE DEF b, t, c, total
  <1>7. Solvent(b, t) <=> InRange(b) /\ t \in 0..(c - 1) /\ total <= t
    BY DEF Solvent, c, total
  <1>8. Abstract!HealthyTree(s, Depth) <=> Solvent(b, t)
    BY <1>1, <1>2, <1>4, <1>5, <1>6, <1>7
  <1>9. Solvent(b, t) => s.total = total /\ s.reserves = t
    BY <1>5, <1>6, <1>7
  <1> QED BY <1>8, <1>9 DEF b, t, total

\* The signals of the abstract circuits for the page's book.
LEMMA AbstractSignalsOf ==
  ASSUME PathInv, page # None, NEW conc, NEW coll
  PROVE  LET s == AbstractSignals(conc, coll)
         IN /\ s.root = RootValue
            /\ s.total = Reduce(SumFunction(PadBook(TakenBook)))
            /\ s.reserves = Reduce(TakenTreasury)
            /\ s.conc = conc * (10000 \div BpsUnit) /\ s.coll = coll * (10000 \div BpsUnit)
  <1> DEFINE w == SolvencyInput(page.balances, page.treasury)
  <1>1. IsBook(TakenBook) /\ w = SolvencyInput(TakenBook, TakenTreasury)
    BY PageTaken
  <1> HIDE DEF w
  <1>2. /\ w.total = Reduce(SumFunction(PadBook(TakenBook)))
        /\ w.reserves = Reduce(TakenTreasury)
    BY <1>1, SolvencyRoot
  <1> QED BY <1>2 DEF AbstractSignals, w

\* Basis points in units of BpsUnit and in units of 10000 cap the same amounts.
LEMMA SameUnits ==
  ASSUME NEW q \in Nat, BpsUnit * q = 10000
  PROVE  /\ q > 0
         /\ \A k, p \in Nat : k * q < p * q <=> k < p
         /\ \A x, k, y \in Nat : x * 10000 <= (k * q) * y <=> x * BpsUnit <= k * y
         /\ \A x, k, y \in Nat : (k * q) * y <= x * 10000 <=> k * y <= x * BpsUnit
  <1> DEFINE u == BpsUnit
  <1>1. u \in Nat /\ u * q = 10000
    BY WidthsAssumption, Widths
  <1> HIDE DEF u
  <1>2. q > 0
    BY <1>1
  <1>3. \A a, b \in Nat : a <= b => a * q <= b * q
    BY <1>1
  <1>4. \A a, b \in Nat : a < b => a * q < b * q
    <2> SUFFICES ASSUME NEW a \in Nat, NEW b \in Nat, a < b PROVE a * q < b * q
      OBVIOUS
    <2>1. (a + 1) * q <= b * q /\ (a + 1) * q = a * q + q
      BY <1>3
    <2>2. a * q \in Nat /\ b * q \in Nat
      OBVIOUS
    <2> QED BY <1>2, <2>1, <2>2
  <1>5. \A a, b \in Nat : (a * q < b * q <=> a < b) /\ (a * q <= b * q <=> a <= b)
    BY <1>3, <1>4
  <1>6. \A x, k, y \in Nat : /\ x * 10000 = (x * u) * q /\ (k * q) * y = (k * y) * q
                             /\ x * u \in Nat /\ k * y \in Nat
    BY <1>1
  <1>7. ASSUME NEW x \in Nat, NEW k \in Nat, NEW y \in Nat
        PROVE  /\ x * 10000 <= (k * q) * y <=> x * u <= k * y
               /\ (k * q) * y <= x * 10000 <=> k * y <= x * u
    <2> DEFINE a == x * u
               b == k * y
    <2>1. a \in Nat /\ b \in Nat /\ x * 10000 = a * q /\ (k * q) * y = b * q
      <3>1. x * 10000 = (x * u) * q
        BY <1>6
      <3>2. (k * q) * y = (k * y) * q
        BY <1>6
      <3>3. x * u \in Nat /\ k * y \in Nat
        BY <1>1
      <3> QED BY <3>1, <3>2, <3>3
    <2> HIDE DEF a, b
    <2>2. (a * q <= b * q <=> a <= b) /\ (b * q <= a * q <=> b <= a)
      BY <1>5, <2>1
    <2> QED BY <2>1, <2>2 DEF a, b
  <1> QED BY <1>2, <1>5, <1>7 DEF u

\* What the risk circuit adds is what the abstract one adds.
LEMMA LimitsAsAbstracted ==
  ASSUME PathInv, page # None, NEW conc \in Field, NEW coll \in Field,
         Solvent(TakenBook, TakenTreasury)
  PROVE  Abstract!RiskLimits(AbstractSignals(conc, coll)) <=>
           /\ conc < Pow(2, BpsBits) /\ coll < Pow(2, BpsBits)
           /\ \A i \in DOMAIN TakenBook : Capped(TakenBook[i], TakenBook, conc)
           /\ Covered(TakenBook, TakenTreasury, coll)
  <1> DEFINE s == AbstractSignals(conc, coll)
             b == TakenBook
             t == TakenTreasury
             p == Pow(2, BpsBits)
             q == 10000 \div BpsUnit
             total == SumFunction(b)
  <1>1. /\ s.root = RootValue /\ s.conc = conc * q /\ s.coll = coll * q
        /\ s.total = Reduce(SumFunction(PadBook(b))) /\ s.reserves = Reduce(t)
    BY AbstractSignalsOf
  <1> HIDE DEF s
  <1>2. s.total = total /\ s.reserves = t
    BY <1>1, SolventIsHealthy
  <1>3. total \in Nat /\ t \in Nat
    BY PageTaken, RangedBook DEF Solvent
  <1>4. ASSUME NEW i \in DOMAIN b PROVE b[i] \in Nat
    <2>1. b[i] \in 0..(Pow(2, BalanceBits) - 1)
      BY DEF Solvent, InRange
    <2> QED BY <2>1, Widths
  <1>5. p \in Nat /\ conc \in Nat /\ coll \in Nat
    BY Widths, FieldNumbers
  <1>6. q \in Nat /\ BpsUnit * q = 10000
    BY UnitsAssumption, WidthsAssumption, Widths
  <1>7. Abstract!RiskLimits(s) <=>
          /\ conc * q < p * q /\ coll * q < p * q
          /\ \A i \in DOMAIN b : b[i] * 10000 <= (conc * q) * total
          /\ (coll * q) * total <= t * 10000
    <2>1. Abstract!RiskLimits(s) <=>
            /\ s.conc < p * q /\ s.coll < p * q
            /\ \A i \in DOMAIN b : b[i] * 10000 <= s.conc * s.total
            /\ s.coll * s.total <= s.reserves * 10000
      <3>1. s.root = RootValue
        BY <1>1
      <3>2. Abstract!RiskLimits(s) <=>
              /\ s.conc < Pow(2, BpsBits) * (10000 \div BpsUnit)
              /\ s.coll < Pow(2, BpsBits) * (10000 \div BpsUnit)
              /\ \A i \in DOMAIN TakenBook :
                   TakenBook[i] * 10000 <= s.conc * s.total
              /\ s.coll * s.total <= s.reserves * 10000
        BY ONLY <3>1, AbstractLimits
      <3> QED BY <3>2
    <2> HIDE DEF b, t, p, q, total
    <2> QED BY <1>1, <1>2, <2>1
  <1> HIDE DEF b, t, p, q, total
  <1>8. /\ conc * q < p * q <=> conc < p
        /\ coll * q < p * q <=> coll < p
        /\ \A x \in Nat : x * 10000 <= (conc * q) * total <=> x * BpsUnit <= conc * total
        /\ (coll * q) * total <= t * 10000 <=> coll * total <= t * BpsUnit
    BY <1>3, <1>5, <1>6, SameUnits
  <1>9. (\A i \in DOMAIN b : b[i] * 10000 <= (conc * q) * total)
          <=> \A i \in DOMAIN b : b[i] * BpsUnit <= conc * total
    BY <1>4, <1>8
  <1> QED BY <1>7, <1>8, <1>9 DEF s, b, t, p, total, Capped, Covered

\* A proof of the page's book exists exactly when the abstract circuits of the
\* ledger's model say so.
THEOREM CircuitsImplementAbstract == Spec => []CircuitsAsAbstracted
  <1>1. PathInv => CircuitsAsAbstracted
    <2> SUFFICES ASSUME PathInv, proof # None PROVE CircuitsAsAbstracted
      BY DEF CircuitsAsAbstracted
    <2> DEFINE b == TakenBook
               t == TakenTreasury
    <2>1. page # None /\ IsBook(b) /\ t \in FigureRange
      BY ProofOf, PageTaken
    <2>2. ASSUME proof.circuit = "solvency"
          PROVE  proof.proved = Abstract!Solvency(AbstractSignals(0, 0))
      <3> DEFINE w == SolvencyInput(b, t)
                 s == AbstractSignals(0, 0)
      <3>1. proof.proved = SolvencyConstraints(w)
        BY <2>1, <2>2, ProofOf, PageTaken, MadeFields DEF MadeSolvency
      <3>2. IsWitness(w, b, t)
        BY <2>1, PageWitnesses
      <3>3. /\ s.root = RootValue
            /\ s.total = Reduce(SumFunction(PadBook(b))) /\ s.reserves = Reduce(t)
        BY <2>1, AbstractSignalsOf
      <3> HIDE DEF w, s
      <3>4. SolvencyConstraints(w) <=> Solvent(b, t)
        BY <2>1, <3>2, SolvencyMeans
      <3>5. Abstract!HealthyTree(s, Depth) <=> Solvent(b, t)
        BY <2>1, <3>3, SolventIsHealthy
      <3>6. Abstract!Solvency(s) = Abstract!HealthyTree(s, Depth)
        BY DEF Abstract!Solvency
      <3>7. SolvencyConstraints(w) \in BOOLEAN /\ Abstract!HealthyTree(s, Depth) \in BOOLEAN
        BY DEF SolvencyConstraints, Abstract!HealthyTree
      <3> QED BY <3>1, <3>4, <3>5, <3>6, <3>7 DEF s
    <2>3. ASSUME proof.circuit = "risk_solvency"
          PROVE  proof.proved =
                   Abstract!RiskSolvency(AbstractSignals(proof.request[1], proof.request[2]))
      <3>1. PICK conc \in ConcBounds, coll \in CollBounds :
              LET w == RiskInput(b, t, conc, coll)
              IN Made("risk_solvency", <<conc, coll>>, RiskSolvencyConstraints(w),
                      <<RootValue, w.total, w.reserves, w.maxConcBps, w.minCollBps>>)
        BY <2>1, <2>3, ProofOf, PageTaken DEF MadeRisk
      <3> DEFINE w == RiskInput(b, t, conc, coll)
                 s == AbstractSignals(conc, coll)
      <3>2. proof.request = <<conc, coll>> /\ proof.proved = RiskSolvencyConstraints(w)
        BY <3>1, MadeFields
      <3>3. conc \in Field /\ coll \in Field
        BY PageAssumption
      <3>4. IsWitness(w, b, t) /\ w.maxConcBps = conc /\ w.minCollBps = coll
        <4>1. IsWitness(w, b, t)
          BY <2>1, PageWitnesses
        <4> QED BY <4>1, RiskInputFields
      <3>5. /\ s.root = RootValue
            /\ s.total = Reduce(SumFunction(PadBook(b))) /\ s.reserves = Reduce(t)
        BY <2>1, AbstractSignalsOf
      <3> HIDE DEF w, s
      <3>6. RiskSolvencyConstraints(w) <=>
              /\ Solvent(b, t)
              /\ conc < Pow(2, BpsBits) /\ coll < Pow(2, BpsBits)
              /\ \A i \in DOMAIN b : Capped(b[i], b, conc)
              /\ Covered(b, t, coll)
        BY <2>1, <3>3, <3>4, RiskSolvencyMeans
      <3>7. Abstract!HealthyTree(s, Depth) <=> Solvent(b, t)
        BY <2>1, <3>5, SolventIsHealthy
      <3>8. Solvent(b, t) =>
              (Abstract!RiskLimits(s) <=>
                 /\ conc < Pow(2, BpsBits) /\ coll < Pow(2, BpsBits)
                 /\ \A i \in DOMAIN b : Capped(b[i], b, conc)
                 /\ Covered(b, t, coll))
        BY <2>1, <3>3, LimitsAsAbstracted DEF s
      <3>9. Abstract!RiskSolvency(s) = (Abstract!HealthyTree(s, Depth) /\ Abstract!RiskLimits(s))
        BY DEF Abstract!RiskSolvency
      <3>10. RiskSolvencyConstraints(w) \in BOOLEAN
        BY Satisfied
      <3>11. proof.request[1] = conc /\ proof.request[2] = coll
        BY <3>2
      <3>12. RiskSolvencyConstraints(w) <=> Abstract!RiskSolvency(s)
        BY <3>6, <3>7, <3>8, <3>9
      <3>13. Abstract!RiskSolvency(s) \in BOOLEAN
        BY <3>9
      <3>14. RiskSolvencyConstraints(w) = Abstract!RiskSolvency(s)
        BY <3>10, <3>12, <3>13
      <3> QED BY <3>2, <3>11, <3>14 DEF s
    <2> QED BY <2>2, <2>3 DEF CircuitsAsAbstracted
  <1> QED BY <1>1, PathInvariance, PTL

----------------------------------------------------------------------------
(***************************************************************************)
(* The statements about calls: a proof goes through with the words of its  *)
(* own signals, and with no other call.                                    *)
(***************************************************************************)

\* The bytes of a proof are read as one proof, and it satisfies the equation of its
\* circuit's key for its signals.
LEMMA HonestProofOf ==
  ASSUME NEW made, made.circuit \in Circuits, made.signals \in Seq(Field),
         Len(made.signals) = NPublic[made.circuit]
  PROVE  \E p : /\ p.a \in Field /\ p.b \in Field /\ p.c \in Field
                /\ ProofFromBytes(ProofBytes(made)) = {p}
                /\ Groth16Verify(VerifyingKey[made.circuit], p, made.signals)
  <1> DEFINE s == made.signals
             vk == VerifyingKey[made.circuit]
             p == Groth16Prove(vk, s, RandomA, RandomB)
  <1>1. s \in Seq(Field) /\ vk.ic \in Seq(Field) /\ Len(vk.ic) = Len(s) + 1
    BY KeyAssumption
  <1>2. /\ vk.alpha \in Field /\ vk.beta \in Field /\ vk.gamma \in Field /\ vk.delta \in Field
        /\ \E inverse \in Field : Reduce(vk.delta * inverse) = 1
        /\ RandomA \in Field /\ RandomB \in Field
    BY KeyAssumption
  <1>3. ProofBytes(made) = ProofToBytes(p)
    BY DEF ProofBytes
  <1> HIDE DEF vk
  <1>4. PICK inverse \in Field : Reduce(vk.delta * inverse) = 1
    BY <1>2
  <1>5. p = [a |-> RandomA, b |-> RandomB, c |-> p.c] /\ p.c \in Field /\ Groth16Verify(vk, p, s)
    BY <1>1, <1>2, <1>4, HonestProofVerifies
  <1> HIDE DEF p
  <1>6. ProofFromBytes(ProofToBytes(p)) = {p}
    <2> DEFINE q == [a |-> RandomA, b |-> RandomB, c |-> p.c]
    <2>1. ProofFromBytes(ProofToBytes(q)) = {q}
      BY ProofIsRead
    <2>2. p = q
      BY <1>5
    <2> HIDE DEF q
    <2> QED BY <2>1, <2>2
  <1>7. p.a \in Field /\ p.b \in Field /\ p.c \in Field
    <2>1. p.a = RandomA /\ p.b = RandomB
      BY <1>5
    <2> QED BY <1>2, <1>5, <2>1
  <1>8. ProofFromBytes(ProofBytes(made)) = {p} /\ Groth16Verify(VerifyingKey[made.circuit], p, s)
    BY <1>3, <1>5, <1>6 DEF vk
  <1> HIDE DEF s
  <1>9. \E q : /\ q.a \in Field /\ q.b \in Field /\ q.c \in Field
               /\ ProofFromBytes(ProofBytes(made)) = {q}
               /\ Groth16Verify(VerifyingKey[made.circuit], q, s)
    BY <1>7, <1>8
  <1> QED BY <1>9 DEF s

\* What a word spells is read into the field.
LEMMA WordInField == \A word \in Words : ToFr(word) \in Field
  <1>1. \A word \in Words : Spelt(word) \in Int
    BY BytewiseIsNumeric
  <1> QED BY <1>1, ReduceLaws DEF ToFr, Spelt

\* A proof passes the check of its circuit's key with no call of the right length
\* but one that spells its signals: a word replaced by another value, or two words
\* exchanged, changes vk_x.
THEOREM KeysBindSignals ==
  ASSUME NEW made, made.circuit \in Circuits, made.signals \in Seq(Field),
         Len(made.signals) = NPublic[made.circuit],
         NEW words \in CallWords(made), Len(words) = NPublic[made.circuit],
         ProofVerifies(made.circuit, ProofBytes(made), words)
  PROVE  [i \in DOMAIN words |-> ToFr(words[i])] = made.signals
  <1> DEFINE s == made.signals
             n == Len(s)
             vk == VerifyingKey[made.circuit]
             ws == SignalWords(made)
             u == [i \in DOMAIN words |-> ToFr(words[i])]
  <1>1. s \in Seq(Field) /\ n \in Nat /\ n >= 2 /\ s # <<>> /\ DOMAIN s = 1..n
    <2>1. n >= 2
      BY DEF NPublic, Circuits
    <2> QED BY <2>1
  <1>2. /\ words \in Seq(Words) /\ Len(words) = n
        /\ \/ words = ws
           \/ \E i \in 1..n : \E v : FeBytesFits(v) /\ words = [ws EXCEPT ![i] = FeBytes(v)]
           \/ \E i \in 1..n : words = [ws EXCEPT ![1] = ws[i], ![i] = ws[1]]
    BY <1>1, CallsCarryWords
  <1>3. /\ ws \in Seq(Words) /\ Len(ws) = n /\ DOMAIN ws = 1..n
        /\ \A i \in 1..n : ToFr(ws[i]) = s[i]
    <2>1. ws \in Seq(Words) /\ Len(ws) = n
      BY <1>1, SignalsAsWords
    <2> QED BY <1>1, <2>1, SignalWordsSpell
  <1>4. /\ vk.alpha \in Field /\ vk.beta \in Field /\ vk.gamma \in Field /\ vk.delta \in Field
        /\ vk.ic \in Seq(Field) /\ Len(vk.ic) = n + 1 /\ vk.gamma # 0
        /\ \A i, j \in 2..(n + 1) : vk.ic[i] # 0 /\ (i # j => vk.ic[i] # vk.ic[j])
    BY KeyAssumption
  <1>5. PICK p : /\ p.a \in Field /\ p.b \in Field /\ p.c \in Field
                 /\ ProofFromBytes(ProofBytes(made)) = {p}
                 /\ Groth16Verify(vk, p, s)
    BY HonestProofOf
  <1>6. Groth16Verify(vk, p, u)
    <2>1. \E q \in ProofFromBytes(ProofBytes(made)) : Groth16Verify(vk, q, u)
      BY DEF ProofVerifies
    <2> HIDE DEF vk, u
    <2> QED BY <1>5, <2>1
  <1>7. u \in Seq(Field) /\ Len(u) = n /\ \A i \in 1..n : u[i] = ToFr(words[i])
    <2>1. DOMAIN words = 1..n
      BY <1>2
    <2>2. \A i \in 1..n : words[i] \in Words
      BY <1>2
    <2>3. u = [i \in 1..n |-> ToFr(words[i])]
      BY <2>1
    <2> HIDE DEF u
    <2>4. u \in [1..n -> Field]
      BY <2>2, <2>3, WordInField
    <2> QED BY <1>1, <2>3, <2>4
  <1> HIDE DEF s, n, vk, ws, u
  <1>8. VkX(vk, u) = VkX(vk, s)
    <2>1. PairingCheck(vk, p, VkX(vk, u)) /\ PairingCheck(vk, p, VkX(vk, s))
      BY <1>5, <1>6 DEF Groth16Verify
    <2>2. VkX(vk, u) \in Field /\ VkX(vk, s) \in Field
      <3>1. ASSUME NEW x \in Seq(Field), Len(x) = n PROVE VkX(vk, x) \in Field
        <4>1. Len(vk.ic) = Len(x) + 1 /\ vk.ic \in Seq(Field)
          BY <1>4, <3>1
        <4> DEFINE sum == SumFunctionOnSet(InputTerms(vk.ic, x), 1..Len(x))
                   c == vk.ic[1]
        <4>2. sum \in Int /\ VkX(vk, x) = Reduce(c + sum) /\ c \in Int
          BY <4>1, VkXTerms
        <4> HIDE DEF sum, c
        <4>3. c + sum \in Int
          BY <4>2
        <4> QED BY <4>2, <4>3, ReduceLaws
      <3> QED BY <1>1, <1>7, <3>1 DEF n
    <2> QED BY <1>4, <1>5, <2>1, <2>2, OneVkX
  <1>9. Len(s) = n /\ Len(u) = Len(s) /\ Len(vk.ic) = Len(s) + 1
    BY <1>4, <1>7 DEF n
  <1>10. ASSUME NEW i \in 1..n, NEW v, words = [ws EXCEPT ![i] = FeBytes(v)]
         PROVE  u = s
    <2>1. \A j \in 1..n : j # i => words[j] = ws[j]
      BY <1>3, <1>10
    <2>2. \A j \in 1..Len(s) : j # i => u[j] = s[j]
      BY <1>3, <1>7, <1>9, <2>1
    <2>3. i \in 1..Len(s) /\ i + 1 \in 2..(n + 1)
      BY <1>1, <1>9
    <2>4. vk.ic[i + 1] # 0
      BY <1>4, <2>3
    <2>5. /\ s \in Seq(Field) /\ u \in Seq(Field) /\ Len(u) = Len(s)
          /\ vk.ic \in Seq(Field) /\ Len(vk.ic) = Len(s) + 1 /\ VkX(vk, u) = VkX(vk, s)
      BY <1>1, <1>4, <1>7, <1>8, <1>9
    <2> QED BY ONLY <2>2, <2>3, <2>4, <2>5, OneInputBound, SMTT(20)
  <1>11. ASSUME NEW i \in 1..n, words = [ws EXCEPT ![1] = ws[i], ![i] = ws[1]]
         PROVE  u = s
    <2>1. CASE i = 1
      <3>1. \A j \in 1..n : words[j] = ws[j]
        BY <1>1, <1>3, <1>11, <2>1
      <3>2. \A j \in 1..n : u[j] = s[j]
        BY <1>3, <1>7, <3>1
      <3> QED BY <1>1, <1>7, <1>9, <3>2
    <2>2. CASE i # 1
      <3>1. /\ words[1] = ws[i] /\ words[i] = ws[1]
            /\ \A j \in 1..n : j # i /\ j # 1 => words[j] = ws[j]
        BY <1>1, <1>3, <1>11, <2>2
      <3>2. 1 \in 1..n /\ i \in 2..Len(s) /\ i + 1 \in 2..(n + 1) /\ 2 \in 2..(n + 1) /\ i + 1 # 2
        BY <1>1, <1>9, <2>2
      <3>3. u[1] = s[i] /\ u[i] = s[1] /\ \A j \in 1..Len(s) : j # i /\ j # 1 => u[j] = s[j]
        BY <1>3, <1>7, <1>9, <3>1, <3>2
      <3>4. vk.ic[i + 1] # vk.ic[2]
        BY <1>4, <3>2
      <3>5. /\ s \in Seq(Field) /\ u \in Seq(Field) /\ Len(u) = Len(s) /\ i \in 2..Len(s)
            /\ vk.ic \in Seq(Field) /\ Len(vk.ic) = Len(s) + 1 /\ VkX(vk, u) = VkX(vk, s)
        BY <1>1, <1>4, <1>7, <1>8, <1>9, <3>2
      <3> QED BY ONLY <3>3, <3>4, <3>5, ExchangedInputsBound, SMTT(20)
    <2> QED BY <2>1, <2>2
  <1>12. u = s
    <2>1. CASE words = ws
      <3>1. \A i \in 1..n : u[i] = s[i]
        BY <1>3, <1>7, <2>1
      <3> QED BY <1>1, <1>7, <1>9, <3>1
    <2> QED BY <1>2, <1>10, <1>11, <2>1
  <1> QED BY <1>12 DEF u, s

\* What a call can carry depends on the circuit and the signals of a proof alone.
LEMMA SameCalls ==
  ASSUME NEW p, NEW q, p.circuit = q.circuit, p.signals = q.signals
  PROVE  CallWords(p) = CallWords(q) /\ ProofBytes(p) = ProofBytes(q)
  <1>1. SignalWords(p) = SignalWords(q)
    BY DEF SignalWords
  <1> QED BY <1>1 DEF CallWords, ProofBytes

\* A proof sent to another circuit's entrypoint is refused: for its number of words,
\* or by the key.
LEMMA OtherKeysRefuse ==
  ASSUME KeysApart, PathInv, NEW circuit \in Circuits, NEW words \in Sendable,
         WellFormed(circuit, words), ProofVerifies(circuit, ProofBytes(proof), words)
  PROVE  circuit = proof.circuit
  <1> DEFINE s == proof.signals
             n == Len(s)
  <1>1. proof # None /\ s # <<>> /\ words \in CallWords(proof)
    BY DEF Sendable
  <1>2. s \in Seq(Field) /\ proof.circuit \in Circuits /\ n = NPublic[proof.circuit]
        /\ proof.proved /\ page # None
    BY <1>1, SignalsInField
  <1>3. Len(words) \in {n - 1, n, n + 1} /\ Len(words) = NPublic[circuit]
    BY <1>1, <1>2, CallsCarryWords DEF WellFormed
  <1>4. ASSUME OwnKeyOnly(proof.circuit, s) PROVE circuit = proof.circuit
    <2> DEFINE p == [circuit |-> proof.circuit, signals |-> s]
    <2>1. p.circuit = proof.circuit /\ p.signals = proof.signals
      OBVIOUS
    <2>2. \A other \in Circuits \ {proof.circuit}, call \in CallWords(p) :
            ~ProofVerifies(other, ProofBytes(p), call)
      BY <1>4 DEF OwnKeyOnly
    <2> HIDE DEF p
    <2>3. CallWords(p) = CallWords(proof) /\ ProofBytes(p) = ProofBytes(proof)
      BY <2>1, SameCalls
    <2> QED BY <1>1, <2>2, <2>3
  <1>5. CASE proof.circuit = "risk_solvency"
    <2>1. n = 5
      BY <1>2, <1>5 DEF NPublic
    <2>2. NPublic[circuit] \in {4, 5, 6}
      BY <1>3, <2>1
    <2> HIDE DEF n
    <2> QED BY <1>5, <2>2 DEF NPublic, Circuits
  <1>6. CASE proof.circuit = "solvency"
    <2>1. PICK b \in Books, t \in Treasuries :
            Len(b) <= NLeaves /\ page = [balances |-> b, treasury |-> t]
      BY <1>2 DEF PathInv, PageInv
    <2> DEFINE w == SolvencyInput(b, t)
    <2>2. page.balances = b /\ page.treasury = t
      BY <2>1
    <2>3. Made("solvency", <<>>, SolvencyConstraints(w), <<RootValue, w.total, w.reserves>>)
      BY <1>1, <1>6, <2>2, ProofOf DEF MadeSolvency
    <2> DEFINE sig == <<RootValue, w.total, w.reserves>>
    <2>4. SolvencyConstraints(w) => OwnKeyOnly("solvency", sig)
      BY <2>1 DEF KeysApart
    <2> HIDE DEF w
    <2>5. s = IF SolvencyConstraints(w) THEN sig ELSE <<>>
      BY <2>3, MadeFields
    <2> HIDE DEF sig
    <2>6. SolvencyConstraints(w) /\ s = sig
      BY <1>1, <2>5
    <2> HIDE DEF s
    <2> QED BY <1>4, <1>6, <2>4, <2>6
  <1>7. CASE proof.circuit = "inclusion"
    <2>1. PICK idx \in 0..(NLeaves - 1), claimed \in Claims :
            Made("inclusion", <<idx, claimed>>,
                 InclusionConstraints(InclusionInput(page.balances, idx, claimed)),
                 <<RootValue, LeafValue + idx>>)
      BY <1>1, <1>7, ProofOf DEF MadeInclusion
    <2> DEFINE ok == InclusionConstraints(InclusionInput(page.balances, idx, claimed))
               sig == <<RootValue, LeafValue + idx>>
    <2>2. OwnKeyOnly("inclusion", sig)
      BY DEF KeysApart
    <2>3. s = IF ok THEN sig ELSE <<>>
      BY <2>1, MadeFields
    <2> HIDE DEF ok, sig
    <2>4. s = sig
      BY <1>1, <2>3
    <2> HIDE DEF s
    <2> QED BY <1>4, <1>7, <2>2, <2>4
  <1> QED BY <1>2, <1>5, <1>6, <1>7 DEF Circuits

\* Two canonical words that spell one field element are one word, so a call that
\* is accepted carries the words of the page.
LEMMA AcceptedIsIntact ==
  ASSUME KeysApart, PathInv, NEW circuit \in Circuits,
         NEW words \in Sendable, WellFormed(circuit, words),
         ProofVerifies(circuit, ProofBytes(proof), words)
  PROVE  circuit = proof.circuit /\ words = SignalWords(proof)
  <1> DEFINE s == proof.signals
             ws == SignalWords(proof)
             n == Len(s)
  <1>1. proof # None /\ s # <<>> /\ words \in CallWords(proof)
    BY DEF Sendable
  <1>2. s \in Seq(Field)
    BY <1>1, SignalsInField
  <1>3. words \in Seq(Words)
    BY <1>1, <1>2, CallsCarryWords
  <1>4. circuit = proof.circuit /\ [i \in DOMAIN words |-> ToFr(words[i])] = s
    <2>1. circuit = proof.circuit
      BY OtherKeysRefuse
    <2>2. Len(s) = NPublic[circuit]
      BY <1>1, <2>1, SignalsInField
    <2>3. Len(words) = NPublic[circuit]
      BY DEF WellFormed
    <2> QED BY <1>1, <1>2, <2>1, <2>2, <2>3, KeysBindSignals
  <1>5. /\ ws \in Seq(Words) /\ Len(ws) = n
        /\ \A i \in 1..n : Spelt(ws[i]) = s[i]
    BY <1>2, SignalsAsWords
  <1>6. Len(words) = n /\ n \in Nat /\ \A i \in 1..n : ToFr(words[i]) = s[i]
    <2> DEFINE m == Len(words)
    <2>1. m \in Nat /\ DOMAIN words = 1..m
      BY <1>3
    <2>2. DOMAIN s = 1..m
      BY <1>4, <2>1
    <2>3. n = m
      BY <1>2, <2>1, <2>2
    <2> QED BY <1>4, <2>1, <2>3
  <1>7. ASSUME NEW i \in 1..n PROVE words[i] = ws[i]
    <2>1. words[i] \in Words /\ ws[i] \in Words /\ s[i] \in Field
      BY <1>2, <1>3, <1>5, <1>6
    <2>2. IsCanonicalFr(words[i])
      BY <1>3, <1>6 DEF WellFormed
    <2>3. s[i] < FieldModulus
      BY <2>1, ModulusAssumption DEF Field
    <2>4. IsCanonicalFr(ws[i])
      BY <1>5, <2>1, <2>3, CanonicalWords
    <2>5. ToFr(ws[i]) = Reduce(s[i])
      BY <1>5 DEF ToFr, Spelt
    <2>6. ToFr(ws[i]) = ToFr(words[i])
      BY <1>6, <2>1, <2>5, ReduceLaws
    <2> QED BY <2>1, <2>2, <2>4, <2>6, CanonicalWords
  <1> HIDE DEF s, ws, n
  <1>8. words = ws
    BY <1>3, <1>5, <1>6, <1>7
  <1> QED BY <1>4, <1>8 DEF ws

\* What is stored is the book as the field took it, and the storage's page has not
\* changed since.
AttestedInv ==
  latest # None =>
    /\ Solvent(TakenBook, TakenTreasury)
    /\ Spelt(latest.root) = RootValue
    /\ Spelt(latest.total) = SumFunction(TakenBook)
    /\ Spelt(latest.reserves) = TakenTreasury
    /\ latest.circuit = "risk_solvency" =>
         /\ latest.bounds[1] <= MaxConcBps /\ latest.bounds[2] >= MinCollBps
         /\ \A i \in DOMAIN TakenBook :
              Capped(TakenBook[i], TakenBook, latest.bounds[1])
         /\ Covered(TakenBook, TakenTreasury, latest.bounds[2])

\* The low digits of a bound's word are the bound.
LEMMA BoundIsRead ==
  ASSUME NEW bound \in Field, bound < Pow(2, BpsBits)
  PROVE  bound % Pow(Radix, U32Len) = bound
  <1> DEFINE p == Pow(2, BpsBits)
             u == Pow(Radix, U32Len)
  <1>1. u \in Nat /\ p \in Nat /\ p <= u /\ bound \in Nat
    BY UnitsAssumption, WordFacts, Widths, FieldNumbers
  <1> HIDE DEF p, u
  <1>2. bound < p
    BY DEF p
  <1>3. bound \in 0..(u - 1)
    BY <1>1, <1>2
  <1>4. bound % u = bound
    BY <1>1, <1>3
  <1> QED BY <1>4 DEF u

\* A solvency proof was made of a solvent book, and its signals are the book's.
LEMMA SolvencyProofSays ==
  ASSUME PathInv, proof # None, proof.signals # <<>>,
         proof.circuit = "solvency"
  PROVE  /\ Solvent(TakenBook, TakenTreasury)
         /\ proof.signals = <<RootValue, SumFunction(TakenBook), TakenTreasury>>
  <1> DEFINE b == TakenBook
             t == TakenTreasury
             w == SolvencyInput(b, t)
  <1>1. page # None /\ MadeSolvency
    BY ProofOf
  <1>2. IsBook(b) /\ t \in FigureRange
    BY <1>1, PageTaken
  <1>3. Made("solvency", <<>>, SolvencyConstraints(w), <<RootValue, w.total, w.reserves>>)
    BY <1>1, PageTaken DEF MadeSolvency
  <1>4. IsWitness(w, b, t)
    BY <1>2, PageWitnesses
  <1> HIDE DEF w
  <1>5. proof.signals = IF SolvencyConstraints(w) THEN <<RootValue, w.total, w.reserves>> ELSE <<>>
    BY <1>3, MadeFields
  <1>6. SolvencyConstraints(w) /\ proof.signals = <<RootValue, w.total, w.reserves>>
    BY <1>5
  <1>7. Solvent(b, t) /\ w.total = SumFunction(b) /\ w.reserves = t
    BY <1>2, <1>4, <1>6, SolvencyMeans
  <1> QED BY <1>6, <1>7

\* A risk proof says the same, and that the book keeps the bounds it signs.
LEMMA RiskProofSays ==
  ASSUME PathInv, proof # None, proof.signals # <<>>,
         proof.circuit = "risk_solvency"
  PROVE  /\ Solvent(TakenBook, TakenTreasury)
         /\ \E conc \in Field, coll \in Field :
              /\ proof.signals = <<RootValue, SumFunction(TakenBook), TakenTreasury, conc, coll>>
              /\ conc < Pow(2, BpsBits) /\ coll < Pow(2, BpsBits)
              /\ \A i \in DOMAIN TakenBook : Capped(TakenBook[i], TakenBook, conc)
              /\ Covered(TakenBook, TakenTreasury, coll)
  <1> DEFINE b == TakenBook
             t == TakenTreasury
  <1>1. page # None /\ MadeRisk
    BY ProofOf
  <1>2. IsBook(b) /\ t \in FigureRange
    BY <1>1, PageTaken
  <1>3. PICK conc \in ConcBounds, coll \in CollBounds :
          LET w == RiskInput(b, t, conc, coll)
          IN Made("risk_solvency", <<conc, coll>>, RiskSolvencyConstraints(w),
                  <<RootValue, w.total, w.reserves, w.maxConcBps, w.minCollBps>>)
    BY <1>1, PageTaken DEF MadeRisk
  <1> DEFINE w == RiskInput(b, t, conc, coll)
             sig == <<RootValue, w.total, w.reserves, w.maxConcBps, w.minCollBps>>
  <1>4. proof.signals = IF RiskSolvencyConstraints(w) THEN sig ELSE <<>>
    BY <1>3, MadeFields
  <1>5. conc \in Field /\ coll \in Field
    BY PageAssumption
  <1>6. IsWitness(w, b, t)
    BY <1>2, PageWitnesses
  <1>7. w.maxConcBps = conc /\ w.minCollBps = coll
    BY RiskInputFields
  <1> HIDE DEF w
  <1>8. RiskSolvencyConstraints(w) /\ proof.signals = sig
    BY <1>4
  <1>9. /\ Solvent(b, t) /\ conc < Pow(2, BpsBits) /\ coll < Pow(2, BpsBits)
        /\ \A i \in DOMAIN b : Capped(b[i], b, conc)
        /\ Covered(b, t, coll)
    BY <1>2, <1>5, <1>6, <1>7, <1>8, RiskSolvencyMeans
  <1>10. w.total = SumFunction(b) /\ w.reserves = t
    BY <1>2, <1>6, <1>9, SolvencyMeans
  <1>11. proof.signals = <<RootValue, SumFunction(b), t, conc, coll>>
    BY <1>7, <1>8, <1>10
  <1> QED BY <1>5, <1>9, <1>11

\* An accepted submission stores the figures of the book.
LEMMA StoredIsAttested ==
  ASSUME KeysApart, PathInv,
         NEW circuit \in {"solvency", "risk_solvency"}, NEW words \in Sendable,
         page' = page, latest' = Stored(circuit, words),
         Accepted(circuit, ProofBytes(proof), words)
  PROVE  AttestedInv'
  <1> DEFINE s == proof.signals
             b == TakenBook
             t == TakenTreasury
             total == SumFunction(b)
  <1>0. TakenBook' = TakenBook /\ TakenTreasury' = TakenTreasury
    BY DEF TakenBook, TakenTreasury, Taken
  <1>1. proof # None /\ s # <<>>
    BY DEF Sendable
  <1>2. circuit \in Circuits /\ WellFormed(circuit, words) /\ PolicyMet(circuit, words)
        /\ ProofVerifies(circuit, ProofBytes(proof), words)
    BY DEF Circuits, Accepted
  <1>3. circuit = proof.circuit /\ words = SignalWords(proof)
    BY <1>2, AcceptedIsIntact
  <1>4. s \in Seq(Field)
    BY <1>1, SignalsInField
  <1>5. /\ Len(words) = Len(s)
        /\ \A i \in 1..Len(s) : /\ Spelt(words[i]) = s[i]
                                /\ Be32ToU32(words[i]) = s[i] % Pow(Radix, U32Len)
    BY <1>3, <1>4, SignalsAsWords
  <1>6. /\ latest'.root = words[1] /\ latest'.total = words[2] /\ latest'.reserves = words[3]
        /\ latest'.circuit = circuit
        /\ circuit = "risk_solvency" =>
             latest'.bounds = <<Be32ToU32(words[4]), Be32ToU32(words[5])>>
    BY DEF Stored
  <1>7. CASE circuit = "solvency"
    <2>1. Solvent(b, t) /\ s = <<RootValue, total, t>>
      BY <1>1, <1>3, <1>7, SolvencyProofSays
    <2>2. Spelt(words[1]) = RootValue /\ Spelt(words[2]) = total /\ Spelt(words[3]) = t
      <3> HIDE DEF total, t
      <3>1. Len(s) = 3 /\ s[1] = RootValue /\ s[2] = total /\ s[3] = t
        BY <2>1
      <3> HIDE DEF s
      <3> QED BY <1>5, <3>1
    <2>3. latest'.circuit # "risk_solvency"
      BY <1>6, <1>7
    <2> QED BY <1>0, <1>6, <2>1, <2>2, <2>3 DEF AttestedInv, Solvent, InRange
  <1>8. CASE circuit = "risk_solvency"
    <2>1. Solvent(b, t)
      BY <1>1, <1>3, <1>8, RiskProofSays
    <2>2. PICK conc \in Field, coll \in Field :
            /\ s = <<RootValue, total, t, conc, coll>>
            /\ conc < Pow(2, BpsBits) /\ coll < Pow(2, BpsBits)
            /\ \A i \in DOMAIN b : Capped(b[i], b, conc)
            /\ Covered(b, t, coll)
      BY <1>1, <1>3, <1>8, RiskProofSays
    <2>3. /\ Spelt(words[1]) = RootValue /\ Spelt(words[2]) = total /\ Spelt(words[3]) = t
          /\ Be32ToU32(words[4]) = conc % Pow(Radix, U32Len)
          /\ Be32ToU32(words[5]) = coll % Pow(Radix, U32Len)
      <3> HIDE DEF total, t
      <3>1. /\ Len(s) = 5 /\ s[1] = RootValue /\ s[2] = total /\ s[3] = t
            /\ s[4] = conc /\ s[5] = coll
        BY <2>2
      <3> HIDE DEF s
      <3> QED BY <1>5, <3>1
    <2>4. Be32ToU32(words[4]) = conc /\ Be32ToU32(words[5]) = coll
      BY <2>2, <2>3, BoundIsRead
    <2>5. conc <= MaxConcBps /\ coll >= MinCollBps
      BY <1>2, <1>8, <2>4 DEF PolicyMet
    <2>6. latest'.bounds[1] = conc /\ latest'.bounds[2] = coll
      BY <1>6, <1>8, <2>4
    <2> QED BY <1>0, <1>6, <2>1, <2>2, <2>3, <2>5, <2>6
            DEF AttestedInv, Solvent, InRange, Capped, Covered
  <1> QED BY <1>7, <1>8

\* Only the call a proof was made for goes through: another value or order of the
\* words fails the pairing equation, another encoding of a value or a word more or
\* less the canonical and length checks, another entrypoint its circuit's key.
THEOREM CallsThatPassAreIntact ==
  ASSUME KeysApart
  PROVE  Spec => []OnlyIntactCallsAccepted
  <1>1. Init => OnlyIntactCallsAccepted
    BY DEF Init, OnlyIntactCallsAccepted
  <1>2. PathInv /\ OnlyIntactCallsAccepted /\ [Next]_vars => OnlyIntactCallsAccepted'
    <2> SUFFICES ASSUME PathInv, OnlyIntactCallsAccepted, [Next]_vars
                 PROVE  OnlyIntactCallsAccepted'
      OBVIOUS
    <2>1. ASSUME sent' = None PROVE OnlyIntactCallsAccepted'
      BY <2>1 DEF OnlyIntactCallsAccepted
    <2>2. ASSUME NEW b \in Books, NEW t \in Treasuries, Enter(b, t)
          PROVE  OnlyIntactCallsAccepted'
      <3>1. sent' = None
        BY <2>2 DEF Enter, PathInv, CallInv, ProofInv
      <3> QED BY <2>1, <3>1
    <2>3. CASE ProveSolvency
      BY <2>1, <2>3 DEF ProveSolvency, FullProve
    <2>4. ASSUME NEW conc \in ConcBounds, NEW coll \in CollBounds, ProveRisk(conc, coll)
          PROVE  OnlyIntactCallsAccepted'
      BY <2>1, <2>4 DEF ProveRisk, FullProve
    <2>5. ASSUME NEW keys \in KeyLists, NEW conc \in ConcBounds, NEW coll \in CollBounds,
                 ProveKeyedRisk(keys, conc, coll)
          PROVE  OnlyIntactCallsAccepted'
      BY <2>1, <2>5 DEF ProveKeyedRisk, FullProve
    <2>6. ASSUME NEW idx \in 0..(NLeaves - 1), NEW claimed \in Claims,
                 ProveInclusion(idx, claimed)
          PROVE  OnlyIntactCallsAccepted'
      BY <2>1, <2>6 DEF ProveInclusion, FullProve
    <2>7. ASSUME NEW circuit \in {"solvency", "risk_solvency"}, NEW words \in Sendable,
                 Submit(circuit, words)
          PROVE  OnlyIntactCallsAccepted'
      <3>1. /\ proof' = proof /\ sent'.circuit = circuit /\ sent'.words = words
            /\ \/ Accepted(circuit, ProofBytes(proof), words)
               \/ sent'.answer = "reverted"
        BY <2>7, SubmitOutcome
      <3>2. sent = None /\ circuit \in Circuits
        BY <2>7 DEF Submit, Circuits
      <3>3. CASE Accepted(circuit, ProofBytes(proof), words)
        <4>1. WellFormed(circuit, words) /\ ProofVerifies(circuit, ProofBytes(proof), words)
          BY <3>3 DEF Accepted
        <4>2. circuit = proof.circuit /\ words = SignalWords(proof)
          BY <3>2, <4>1, AcceptedIsIntact
        <4> QED BY <3>1, <4>2 DEF OnlyIntactCallsAccepted, Intact, SignalWords
      <3>4. CASE sent'.answer = "reverted"
        BY <3>4 DEF OnlyIntactCallsAccepted
      <3> QED BY <3>1, <3>3, <3>4
    <2>8. ASSUME NEW words \in Sendable, VerifyInclusion(words) PROVE OnlyIntactCallsAccepted'
      <3> DEFINE malformed == ~WellFormed("inclusion", words) \/ latest = None
                 other == words[1] # latest.root
                 unread == ProofFromBytes(ProofBytes(proof)) = {}
                 verified == ProofVerifies("inclusion", ProofBytes(proof), words)
                 answer == IF malformed THEN "reverted"
                           ELSE IF other THEN "false"
                           ELSE IF unread THEN "reverted"
                           ELSE IF verified THEN "true" ELSE "false"
      <3>1. /\ sent' = [circuit |-> "inclusion", words |-> words, answer |-> answer]
            /\ proof' = proof /\ sent = None
        BY <2>8, Zenon DEF VerifyInclusion
      <3>2. answer \in {"reverted", "false", "true"} /\ (answer = "true" => ~malformed /\ verified)
        <4> HIDE DEF malformed, other, unread, verified
        <4>1. CASE malformed
          BY <4>1
        <4>2. CASE ~malformed
          BY <4>2
        <4> QED BY <4>1, <4>2
      <3> HIDE DEF answer
      <3>3. sent'.circuit = "inclusion" /\ sent'.words = words /\ sent'.answer = answer
        BY <3>1
      <3>4. CASE answer = "true"
        <4>1. /\ WellFormed("inclusion", words)
              /\ ProofVerifies("inclusion", ProofBytes(proof), words)
          BY <3>2, <3>4
        <4>2. "inclusion" = proof.circuit /\ words = SignalWords(proof)
          <5>1. "inclusion" \in Circuits
            BY DEF Circuits
          <5> QED BY <3>1, <4>1, <5>1, AcceptedIsIntact
        <4> QED BY <3>1, <3>3, <4>2 DEF OnlyIntactCallsAccepted, Intact, SignalWords
      <3>5. CASE answer # "true"
        <4>1. answer \notin {"stored", "true"}
          BY <3>2, <3>5
        <4> QED BY <3>3, <4>1 DEF OnlyIntactCallsAccepted
      <3> QED BY <3>4, <3>5
    <2>9. CASE UNCHANGED vars
      BY <2>9 DEF vars, OnlyIntactCallsAccepted, Intact, SignalWords
    <2> QED BY <2>2, <2>3, <2>4, <2>5, <2>6, <2>7, <2>8, <2>9 DEF Next
  <1> QED BY <1>1, <1>2, PathInvariance, PTL DEF Spec

\* What is stored is the book as the field took it, one that is solvent and keeps its
\* bounds.
LEMMA AttestedInvariance ==
  ASSUME KeysApart
  PROVE  Spec => []AttestedInv
  <1>1. Init => AttestedInv
    BY DEF Init, AttestedInv
  <1>2. PathInv /\ AttestedInv /\ [Next]_vars => AttestedInv'
    <2> SUFFICES ASSUME PathInv, AttestedInv, [Next]_vars
                 PROVE  AttestedInv'
      OBVIOUS
    <2>1. ASSUME UNCHANGED <<page, latest>> PROVE AttestedInv'
      <3>1. page' = page /\ latest' = latest
        BY <2>1
      <3> QED BY <3>1 DEF AttestedInv, Solvent, Capped, Covered, InRange, TakenBook,
                          TakenTreasury, Taken
    <2>2. ASSUME NEW b \in Books, NEW t \in Treasuries, Enter(b, t) PROVE AttestedInv'
      <3>1. latest' = None
        BY <2>2 DEF Enter, PathInv, CallInv
      <3> QED BY <3>1 DEF AttestedInv
    <2>3. CASE ProveSolvency
      BY <2>1, <2>3 DEF ProveSolvency, FullProve
    <2>4. ASSUME NEW conc \in ConcBounds, NEW coll \in CollBounds, ProveRisk(conc, coll)
          PROVE  AttestedInv'
      BY <2>1, <2>4 DEF ProveRisk, FullProve
    <2>5. ASSUME NEW keys \in KeyLists, NEW conc \in ConcBounds, NEW coll \in CollBounds,
                 ProveKeyedRisk(keys, conc, coll)
          PROVE  AttestedInv'
      BY <2>1, <2>5 DEF ProveKeyedRisk, FullProve
    <2>6. ASSUME NEW idx \in 0..(NLeaves - 1), NEW claimed \in Claims,
                 ProveInclusion(idx, claimed)
          PROVE  AttestedInv'
      BY <2>1, <2>6 DEF ProveInclusion, FullProve
    <2>7. ASSUME NEW circuit \in {"solvency", "risk_solvency"}, NEW words \in Sendable,
                 Submit(circuit, words)
          PROVE  AttestedInv'
      <3>1. /\ page' = page
            /\ \/ /\ Accepted(circuit, ProofBytes(proof), words)
                  /\ latest' = Stored(circuit, words)
               \/ latest' = latest
        BY <2>7, SubmitOutcome
      <3>2. sent = None
        BY <2>7 DEF Submit
      <3>3. CASE Accepted(circuit, ProofBytes(proof), words) /\ latest' = Stored(circuit, words)
        BY <3>1, <3>2, <3>3, StoredIsAttested
      <3> QED BY <2>1, <3>1, <3>3
    <2>8. ASSUME NEW words \in Sendable, VerifyInclusion(words) PROVE AttestedInv'
      BY <2>1, <2>8 DEF VerifyInclusion
    <2>9. CASE UNCHANGED vars
      BY <2>1, <2>9 DEF vars
    <2> QED BY <2>2, <2>3, <2>4, <2>5, <2>6, <2>7, <2>8, <2>9 DEF Next
  <1> QED BY <1>1, <1>2, PathInvariance, PTL DEF Spec

\* An attested book, as the field takes it, has no oversized entry; its integer sum
\* is the stored total, its treasury the stored reserves, and they cover it.  An
\* entry is attested as another number only if the field takes it as another.
THEOREM AttestationsTellTheTruth ==
  ASSUME KeysApart
  PROVE  Spec => []AttestedIsTrueBook
  <1>1. PathInv /\ AttestedInv => AttestedIsTrueBook
    <2> SUFFICES ASSUME PathInv, AttestedInv, latest # None
                 PROVE  /\ \A i \in DOMAIN TakenBook :
                             /\ TakenBook[i] \in 0..(Pow(2, BalanceBits) - 1)
                             /\ TakenAsEntered(page.balances[i], TakenBook[i])
                        /\ TakenAsEntered(page.treasury, TakenTreasury)
                        /\ Number(latest.root) = RootValue
                        /\ Number(latest.total) = Total
                        /\ Number(latest.reserves) = TakenTreasury
                        /\ Total <= TakenTreasury
      BY DEF AttestedIsTrueBook
    <2>1. /\ Number(latest.root) = Spelt(latest.root)
          /\ Number(latest.total) = Spelt(latest.total)
          /\ Number(latest.reserves) = Spelt(latest.reserves)
      BY DEF Number, Spelt
    <2>2. page # None
      BY DEF PathInv, CallInv
    <2>3. /\ page.balances \in Seq(Int) /\ page.treasury \in Int
          /\ DOMAIN TakenBook = DOMAIN page.balances
          /\ \A i \in DOMAIN TakenBook : TakenBook[i] = Reduce(page.balances[i])
      BY <2>2, PageTaken
    <2>4. /\ \A i \in DOMAIN TakenBook : TakenBook[i] \in 0..(Pow(2, BalanceBits) - 1)
          /\ TakenTreasury \in 0..(Pow(2, CmpBits) - 1)
      BY DEF AttestedInv, Solvent, InRange
    <2>5. Pow(2, BalanceBits) \in 0..Pow(2, CmpBits) /\ Pow(2, CmpBits) \in 0..Pow(2, CmpBits)
      BY Widths
    <2>6. ASSUME NEW i \in DOMAIN TakenBook PROVE TakenAsEntered(page.balances[i], TakenBook[i])
      <3>1. page.balances[i] \in Int
        BY <2>3
      <3> QED BY <2>3, <2>4, <2>5, <3>1, TakenUnchanged
    <2>7. TakenAsEntered(page.treasury, TakenTreasury)
      BY <2>3, <2>4, <2>5, TakenUnchanged DEF TakenTreasury
    <2> QED BY <2>1, <2>4, <2>6, <2>7 DEF AttestedInv, Solvent, Total
  <1> QED BY <1>1, PathInvariance, AttestedInvariance, PTL

\* An attestation of the risk path meets in integers the bounds it stores, and the
\* bounds meet the contract's policy.
THEOREM AttestationsKeepLimits ==
  ASSUME KeysApart
  PROVE  Spec => []AttestedWithinLimits
  <1>1. AttestedInv => AttestedWithinLimits
    BY DEF AttestedInv, AttestedWithinLimits, Capped, Covered, Total
  <1> QED BY <1>1, AttestedInvariance, PTL

----------------------------------------------------------------------------
(***************************************************************************)
(* A call the page makes goes through.                                     *)
(***************************************************************************)

\* The words of a proof's signals are canonical, as many as the circuit has, and
\* the contract's check of the proof for them passes.
LEMMA IntactProofVerifies ==
  ASSUME PathInv, proof # None, proof.signals # <<>>
  PROVE  /\ proof.circuit \in Circuits
         /\ WellFormed(proof.circuit, SignalWords(proof))
         /\ ProofVerifies(proof.circuit, ProofBytes(proof), SignalWords(proof))
  <1> DEFINE c == proof.circuit
             s == proof.signals
             n == Len(s)
             words == SignalWords(proof)
             vk == VerifyingKey[c]
  <1>1. s \in Seq(Field) /\ c \in Circuits /\ n = NPublic[c]
    BY SignalsInField
  <1>2. words \in Seq(Words) /\ Len(words) = n
    BY <1>1, SignalsAsWords
  <1>3. \A i \in 1..n : IsCanonicalFr(words[i]) /\ ToFr(words[i]) = s[i]
    BY <1>1, SignalWordsSpell
  <1>4. PICK p : ProofFromBytes(ProofBytes(proof)) = {p} /\ Groth16Verify(vk, p, s)
    BY <1>1, HonestProofOf
  <1> HIDE DEF words, s, vk
  <1>5. DOMAIN words = 1..n /\ DOMAIN s = 1..n
    BY <1>1, <1>2
  <1>6. [i \in DOMAIN words |-> ToFr(words[i])] = s
    BY <1>1, <1>3, <1>5
  <1>7. WellFormed(c, words)
    BY <1>1, <1>2, <1>3, <1>5 DEF WellFormed
  <1>8. ProofVerifies(c, ProofBytes(proof), words)
    BY <1>4, <1>6 DEF ProofVerifies, vk
  <1> QED BY <1>1, <1>7, <1>8 DEF words

\* Reserves of a solvent book cover its total word by word and are read back as the
\* figure of the page.
LEMMA IntactReservesRead ==
  ASSUME NEW balances, IsBook(balances), NEW reserves, Solvent(balances, reserves),
         NEW words \in Seq(Words), Len(words) >= 3,
         words[2] = FeBytes(SumFunction(balances)), words[3] = FeBytes(reserves),
         Spelt(words[2]) = SumFunction(balances), Spelt(words[3]) = reserves
  PROVE  /\ GeBe(words[3], words[2])
         /\ Be32ToI128(words[3]) # NoNumber
         /\ Be32ToI128(words[3]) = reserves
  <1> DEFINE c == Pow(2, CmpBits)
             h == Pow(Radix, HalfLen)
             total == SumFunction(balances)
  <1>1. words[2] \in Words /\ words[3] \in Words
    BY DEF Words
  <1>2. c \in Nat \ {0} /\ h \in Nat /\ 2 * c <= h
    BY Widths, WordFacts, UnitsAssumption
  <1>3. reserves \in 0..(c - 1) /\ total <= reserves /\ total \in Nat
    BY RangedBook DEF Solvent
  <1> HIDE DEF c, h, total
  <1>4. reserves \in Nat /\ 2 * reserves < h /\ reserves >= total
    BY <1>2, <1>3
  <1>5. GeBe(words[3], words[2])
    BY <1>1, <1>4, BytewiseIsNumeric DEF total
  <1>6. Be32ToI128(words[3]) = reserves
    BY <1>4, ReserveIsRead DEF h
  <1>7. reserves # NoNumber
    BY <1>4, WordWidthAssumption
  <1> QED BY <1>5, <1>6, <1>7

\* An intact submission is accepted unless the live balance or the policy forbids it.
LEMMA IntactIsAccepted ==
  ASSUME PathInv, proof # None, proof.signals # <<>>,
         proof.circuit \in {"solvency", "risk_solvency"},
         PolicyMet(proof.circuit, SignalWords(proof)), ~(TakenTreasury > HolderBalance)
  PROVE  Accepted(proof.circuit, ProofBytes(proof), SignalWords(proof))
  <1> DEFINE s == proof.signals
             b == TakenBook
             t == TakenTreasury
             total == SumFunction(b)
             words == SignalWords(proof)
  <1>1. /\ WellFormed(proof.circuit, words)
        /\ ProofVerifies(proof.circuit, ProofBytes(proof), words)
    BY IntactProofVerifies
  <1>2. IsBook(b) /\ t \in FigureRange
    BY ProofOf, PageTaken
  <1>3. Solvent(b, t) /\ Len(s) >= 3 /\ s[2] = total /\ s[3] = t
    <2>1. CASE proof.circuit = "solvency"
      <3>1. Solvent(b, t) /\ s = <<RootValue, total, t>>
        BY <2>1, SolvencyProofSays
      <3> HIDE DEF total, t, b
      <3>2. Len(s) = 3 /\ s[2] = total /\ s[3] = t
        BY <3>1
      <3> QED BY <3>1, <3>2
    <2>2. CASE proof.circuit = "risk_solvency"
      <3>1. Solvent(b, t) /\ \E conc \in Field, coll \in Field : s = <<RootValue, total, t, conc, coll>>
        BY <2>2, RiskProofSays
      <3> HIDE DEF total, t, b
      <3>2. Len(s) = 5 /\ s[2] = total /\ s[3] = t
        BY <3>1
      <3> QED BY <3>1, <3>2
    <2> QED BY <2>1, <2>2
  <1>4. s \in Seq(Field)
    BY SignalsInField
  <1>5. /\ words \in Seq(Words) /\ Len(words) = Len(s)
        /\ \A i \in 1..Len(s) : words[i] = FeBytes(s[i]) /\ Spelt(words[i]) = s[i]
    BY <1>4, SignalsAsWords
  <1> HIDE DEF words, s, total, b, t
  <1>6. /\ words[2] = FeBytes(total) /\ words[3] = FeBytes(t)
        /\ Spelt(words[2]) = total /\ Spelt(words[3]) = t /\ Len(words) >= 3
    <2>1. 2 \in 1..Len(s) /\ 3 \in 1..Len(s)
      BY <1>3, <1>4
    <2> QED BY <1>3, <1>5, <2>1
  <1>7. /\ GeBe(words[3], words[2]) /\ Be32ToI128(words[3]) # NoNumber
        /\ Be32ToI128(words[3]) = t
    BY <1>2, <1>3, <1>5, <1>6, IntactReservesRead DEF total
  <1>8. t <= HolderBalance
    <2>1. t \in Int /\ HolderBalance \in Int /\ ~(t > HolderBalance)
      BY <1>2, FigureInField, UnitsAssumption DEF t
    <2> QED BY <2>1
  <1>9. ReservesBacked(words)
    BY <1>7, <1>8 DEF ReservesBacked
  <1> QED BY <1>1, <1>9 DEF Accepted, words

\* The first signal of an inclusion proof is the book's root.
LEMMA RootSignal ==
  ASSUME PathInv, proof # None, proof.signals # <<>>, proof.circuit = "inclusion"
  PROVE  Len(proof.signals) = 2 /\ proof.signals[1] = RootValue
  <1>1. PICK idx \in 0..(NLeaves - 1), claimed \in Claims :
          Made("inclusion", <<idx, claimed>>,
               InclusionConstraints(InclusionInput(page.balances, idx, claimed)),
               <<RootValue, LeafValue + idx>>)
    BY ProofOf DEF MadeInclusion
  <1> DEFINE ok == InclusionConstraints(InclusionInput(page.balances, idx, claimed))
             leaf == LeafValue + idx
  <1>2. proof.signals = IF ok THEN <<RootValue, leaf>> ELSE <<>>
    BY <1>1, MadeFields
  <1> HIDE DEF ok, leaf
  <1>3. proof.signals = <<RootValue, leaf>>
    BY <1>2
  <1> QED BY <1>3

\* What a satisfied circuit proves is never lost on the way: the page's own call goes
\* through unless the live balance or the policy forbids it, or a member asks before
\* there is an attestation.
THEOREM IntactCallsGoThrough ==
  ASSUME KeysApart
  PROVE  Spec => []IntactCallsAccepted
  <1>1. Init => IntactCallsAccepted
    BY DEF Init, IntactCallsAccepted
  <1>2. PathInv /\ StoredInv /\ AttestedInv /\ IntactCallsAccepted /\ [Next]_vars
          => IntactCallsAccepted'
    <2> SUFFICES ASSUME PathInv, StoredInv, AttestedInv, IntactCallsAccepted, [Next]_vars
                 PROVE  IntactCallsAccepted'
      OBVIOUS
    <2>1. ASSUME sent' = None PROVE IntactCallsAccepted'
      BY <2>1 DEF IntactCallsAccepted
    <2>2. ASSUME NEW b \in Books, NEW t \in Treasuries, Enter(b, t)
          PROVE  IntactCallsAccepted'
      <3>1. sent' = None
        BY <2>2 DEF Enter, PathInv, CallInv, ProofInv
      <3> QED BY <2>1, <3>1
    <2>3. CASE ProveSolvency
      BY <2>1, <2>3 DEF ProveSolvency, FullProve
    <2>4. ASSUME NEW conc \in ConcBounds, NEW coll \in CollBounds, ProveRisk(conc, coll)
          PROVE  IntactCallsAccepted'
      BY <2>1, <2>4 DEF ProveRisk, FullProve
    <2>5. ASSUME NEW keys \in KeyLists, NEW conc \in ConcBounds, NEW coll \in CollBounds,
                 ProveKeyedRisk(keys, conc, coll)
          PROVE  IntactCallsAccepted'
      BY <2>1, <2>5 DEF ProveKeyedRisk, FullProve
    <2>6. ASSUME NEW idx \in 0..(NLeaves - 1), NEW claimed \in Claims,
                 ProveInclusion(idx, claimed)
          PROVE  IntactCallsAccepted'
      BY <2>1, <2>6 DEF ProveInclusion, FullProve
    <2>7. ASSUME NEW circuit \in {"solvency", "risk_solvency"}, NEW words \in Sendable,
                 Submit(circuit, words)
          PROVE  IntactCallsAccepted'
      <3>1. /\ proof' = proof /\ page' = page /\ sent'.circuit = circuit /\ sent'.words = words
            /\ \/ sent'.answer = "stored"
               \/ sent'.answer = "reverted"
        BY <2>7, SubmitOutcome
      <3>2. Accepted(circuit, ProofBytes(proof), words) => sent'.answer = "stored"
        BY <2>7 DEF Submit
      <3>3. proof # None /\ proof.signals # <<>>
        BY DEF Sendable
      <3>0. TakenTreasury' = TakenTreasury
        BY <2>7 DEF Submit, TakenTreasury
      <3>4. ASSUME Intact'
            PROVE  \/ sent'.answer = "stored"
                   \/ TakenTreasury' > HolderBalance
                   \/ circuit = "risk_solvency" /\ ~PolicyMet("risk_solvency", words)
        <4>1. circuit = proof.circuit /\ words = SignalWords(proof)
          BY <3>1, <3>4 DEF Intact, SignalWords
        <4>2. circuit = "solvency" => PolicyMet(circuit, words)
          BY DEF PolicyMet
        <4>3. PolicyMet(circuit, words) /\ ~(TakenTreasury > HolderBalance)
                => Accepted(circuit, ProofBytes(proof), words)
          BY <3>3, <4>1, IntactIsAccepted
        <4> QED BY <3>0, <3>1, <3>2, <4>2, <4>3
      <3> QED BY <3>1, <3>4 DEF IntactCallsAccepted
    <2>8. ASSUME NEW words \in Sendable, VerifyInclusion(words) PROVE IntactCallsAccepted'
      <3> DEFINE malformed == ~WellFormed("inclusion", words) \/ latest = None
                 other == words[1] # latest.root
                 unread == ProofFromBytes(ProofBytes(proof)) = {}
                 verified == ProofVerifies("inclusion", ProofBytes(proof), words)
                 answer == IF malformed THEN "reverted"
                           ELSE IF other THEN "false"
                           ELSE IF unread THEN "reverted"
                           ELSE IF verified THEN "true" ELSE "false"
      <3>1. /\ sent' = [circuit |-> "inclusion", words |-> words, answer |-> answer]
            /\ proof' = proof /\ latest' = latest
        BY <2>8, Zenon DEF VerifyInclusion
      <3>2. proof # None /\ proof.signals # <<>>
        BY DEF Sendable
      <3>3. ASSUME "inclusion" = proof.circuit, words = SignalWords(proof), latest # None
            PROVE  answer = "true"
        <4>1. WellFormed("inclusion", words) /\ verified
          BY <3>2, <3>3, IntactProofVerifies
        <4>2. ~unread
          BY <4>1 DEF ProofVerifies
        <4>3. ~other
          <5>1. Len(proof.signals) = 2 /\ proof.signals[1] = RootValue
            BY <3>2, <3>3, RootSignal
          <5>2. words \in Seq(Words) /\ Len(words) = 2 /\ Spelt(words[1]) = RootValue
            <6>1. proof.signals \in Seq(Field) /\ 1 \in 1..Len(proof.signals)
              BY <3>2, <5>1, SignalsInField
            <6>2. /\ SignalWords(proof) \in Seq(Words)
                  /\ Len(SignalWords(proof)) = Len(proof.signals)
                  /\ Spelt(SignalWords(proof)[1]) = proof.signals[1]
              BY <6>1, SignalsAsWords
            <6> QED BY <3>3, <5>1, <6>2
          <5>3. words[1] \in Words /\ latest.root \in Words /\ Spelt(latest.root) = RootValue
            <6>1. words[1] \in Words
              BY <5>2
            <6>2. {latest.root, latest.total, latest.reserves} \subseteq Words
              BY <3>3 DEF StoredInv
            <6>3. Spelt(latest.root) = RootValue
              BY <3>3 DEF AttestedInv
            <6> QED BY <6>1, <6>2, <6>3, Zenon
          <5> QED BY <5>2, <5>3, BytewiseIsNumeric
        <4>4. ~malformed
          BY <3>3, <4>1
        <4> HIDE DEF malformed, other, unread, verified
        <4> QED BY <4>1, <4>2, <4>3, <4>4
      <3> HIDE DEF answer
      <3>4. sent'.circuit = "inclusion" /\ sent'.words = words /\ sent'.answer = answer
        BY <3>1
      <3>5. Intact' => "inclusion" = proof.circuit /\ words = SignalWords(proof)
        BY <3>1, <3>4 DEF Intact, SignalWords
      <3> QED BY <3>1, <3>3, <3>4, <3>5 DEF IntactCallsAccepted
    <2>9. CASE UNCHANGED vars
      BY <2>9 DEF vars, IntactCallsAccepted, Intact, SignalWords, TakenTreasury
    <2> QED BY <2>2, <2>3, <2>4, <2>5, <2>6, <2>7, <2>8, <2>9 DEF Next
  <1> QED BY <1>1, <1>2, PathInvariance, SentInvariance, AttestedInvariance, PTL DEF Spec

=============================================================================
