----------------------------- MODULE SumProofs -----------------------------
(***************************************************************************)
(* Lemmas about sums over finite sets.  The community modules define a sum *)
(* by a recursive function over the subsets of the set; here it is shown   *)
(* to be the number of units there are: element x has weight[x] of them.   *)
(***************************************************************************)
EXTENDS Integers, FiniteSetsExt, Functions, FiniteSetTheorems, WellFoundedInduction,
        TLAPS

Weights(weight, S) == \A x \in S : weight[x] \in Nat

UnitsOf(weight, S) == {u \in S \X Nat : 1 <= u[2] /\ u[2] <= weight[u[1]]}

Total(weight, S) == Cardinality(UnitsOf(weight, S))

---------------------------------------------------------------------------
\* NUMBERS

\* A set of natural numbers that is not empty has a least element.
LEMMA LeastNumber ==
    ASSUME NEW S \in SUBSET Nat, S # {}
    PROVE  \E x \in S : \A y \in S : x <= y
<1>1. IsWellFoundedOn(OpToRel(<, Nat), Nat)
  BY NatLessThanWellFounded
<1>2. \E x \in S : \A y \in S : <<y, x>> \notin OpToRel(<, Nat)
  BY <1>1, WFMin, Zenon
<1>3. \A x, y \in Nat : <<y, x>> \in OpToRel(<, Nat) <=> y < x
  BY DEF OpToRel
<1>4. \E x \in S : \A y \in S : ~ (y < x)
  BY <1>2, <1>3, Zenon
<1> QED
  BY <1>4

---------------------------------------------------------------------------
\* TOTALS

\* The units of one element.
LEMMA ColumnSize ==
    ASSUME NEW x, NEW n \in Nat
    PROVE  IsFiniteSet({x} \X (1 .. n)) /\ Cardinality({x} \X (1 .. n)) = n
<1>1. IsFiniteSet({x}) /\ Cardinality({x}) = 1
  BY FS_Singleton
<1>2. IsFiniteSet(1 .. n) /\ Cardinality(1 .. n) = n
  BY FS_Interval
<1>3. /\ IsFiniteSet({x} \X (1 .. n))
      /\ Cardinality({x} \X (1 .. n)) = Cardinality({x}) * Cardinality(1 .. n)
  BY <1>1, <1>2, FS_Product
<1> QED
  BY <1>1, <1>2, <1>3

\* There are finitely many units.
LEMMA UnitsFinite ==
    ASSUME NEW S, IsFiniteSet(S), NEW weight, Weights(weight, S)
    PROVE  IsFiniteSet(UnitsOf(weight, S)) /\ Total(weight, S) \in Nat
<1> DEFINE column  == [x \in S |-> {x} \X (1 .. weight[x])]
           columns == {column[x] : x \in S}
<1>1. IsFiniteSet(columns)
  <2>1. column \in Surjection(S, columns)
    BY DEF Surjection
  <2> QED
    BY <2>1, FS_Surjection
<1>2. \A T \in columns : IsFiniteSet(T)
  <2>1. \A x \in S : IsFiniteSet({x} \X (1 .. weight[x]))
    BY ColumnSize DEF Weights
  <2> QED
    BY <2>1
<1>3. UnitsOf(weight, S) \subseteq UNION columns
  <2> SUFFICES ASSUME NEW u \in UnitsOf(weight, S)
               PROVE  u \in column[u[1]] /\ u[1] \in S
    OBVIOUS
  <2>1. u \in S \X Nat /\ 1 <= u[2] /\ u[2] <= weight[u[1]]
    BY DEF UnitsOf
  <2>2. u = <<u[1], u[2]>> /\ u[1] \in S /\ u[2] \in Nat /\ weight[u[1]] \in Nat
    BY <2>1 DEF Weights
  <2>3. u[2] \in 1 .. weight[u[1]]
    BY <2>1, <2>2
  <2> QED
    BY <2>2, <2>3
<1>4. IsFiniteSet(UNION columns)
  BY <1>1, <1>2, FS_UNION
<1>5. IsFiniteSet(UnitsOf(weight, S))
  BY <1>3, <1>4, FS_Subset
<1> QED
  BY <1>5, FS_CardinalityType DEF Total

\* One element more adds its weight.
LEMMA TotalAdd ==
    ASSUME NEW S, IsFiniteSet(S), NEW x, x \notin S,
           NEW weight, Weights(weight, S \cup {x})
    PROVE  Total(weight, S \cup {x}) = Total(weight, S) + weight[x]
<1> DEFINE column == {x} \X (1 .. weight[x])
<1>1. weight[x] \in Nat /\ Weights(weight, S)
  BY DEF Weights
<1>2. UnitsOf(weight, S \cup {x}) = UnitsOf(weight, S) \cup column
  BY <1>1 DEF UnitsOf
<1>3. UnitsOf(weight, S) \cap column = {}
  BY DEF UnitsOf
<1>4. IsFiniteSet(column) /\ Cardinality(column) = weight[x]
  BY <1>1, ColumnSize
<1>5. IsFiniteSet(UnitsOf(weight, S)) /\ Total(weight, S) \in Nat
  BY <1>1, UnitsFinite
<1> HIDE DEF column
<1>6. Cardinality(UnitsOf(weight, S) \cup column)
         = Cardinality(UnitsOf(weight, S)) + Cardinality(column)
              - Cardinality(UnitsOf(weight, S) \cap column)
  BY <1>4, <1>5, FS_Union
<1>7. Cardinality(UnitsOf(weight, S) \cap column) = 0
  BY <1>3, FS_EmptySet
<1>8. Total(weight, S \cup {x}) = Cardinality(UnitsOf(weight, S) \cup column)
  BY <1>2, Zenon DEF Total
<1>9. Cardinality(UnitsOf(weight, S)) = Total(weight, S)
  BY Zenon DEF Total
<1> QED
  BY <1>1, <1>4, <1>5, <1>6, <1>7, <1>8, <1>9

\* Nothing adds up to nothing.
LEMMA TotalNothing ==
    ASSUME NEW S, NEW weight, \A x \in S : weight[x] = 0
    PROVE  Total(weight, S) = 0
<1>1. UnitsOf(weight, S) = {}
  BY DEF UnitsOf
<1> QED
  BY <1>1, FS_EmptySet DEF Total

LEMMA TotalEmpty ==
    ASSUME NEW weight
    PROVE  Total(weight, {}) = 0
BY TotalNothing

\* Only the weights of the elements count.
LEMMA TotalSame ==
    ASSUME NEW S, NEW v, NEW w, \A x \in S : v[x] = w[x]
    PROVE  Total(v, S) = Total(w, S)
<1>1. UnitsOf(v, S) = UnitsOf(w, S)
  BY DEF UnitsOf
<1> QED
  BY <1>1 DEF Total

\* Another weight of one element changes the total by as much.
LEMMA TotalChange ==
    ASSUME NEW S, IsFiniteSet(S), NEW x \in S, NEW v, NEW w,
           Weights(v, S), Weights(w, S),
           \A y \in S \ {x} : v[y] = w[y]
    PROVE  Total(w, S) = Total(v, S) + w[x] - v[x]
<1>1. IsFiniteSet(S \ {x}) /\ x \notin S \ {x} /\ S = (S \ {x}) \cup {x}
  BY FS_RemoveElement
<1>2. Total(v, S) = Total(v, S \ {x}) + v[x]
  BY <1>1, TotalAdd
<1>3. Total(w, S) = Total(w, S \ {x}) + w[x]
  BY <1>1, TotalAdd
<1>4. Total(v, S \ {x}) = Total(w, S \ {x})
  BY TotalSame
<1>5. Weights(v, S \ {x})
  BY DEF Weights
<1>6. Total(v, S \ {x}) \in Nat /\ v[x] \in Nat /\ w[x] \in Nat
  BY <1>1, <1>5, UnitsFinite DEF Weights
<1> QED
  BY <1>2, <1>3, <1>4, <1>6

---------------------------------------------------------------------------
\* THE SUMS OF THE COMMUNITY MODULES

Pick(s) == CHOOSE x \in s : TRUE

\* What the recursive function of MapThenFoldSet has to satisfy.
Adds(sum, weight, S) ==
    sum = [s \in SUBSET S |->
              IF s = {} THEN 0 ELSE weight[Pick(s)] + sum[s \ {Pick(s)}]]

LEMMA PickIn ==
    ASSUME NEW s, s # {}
    PROVE  Pick(s) \in s
BY DEF Pick

LEMMA PickAdds ==
    ASSUME NEW s, IsFiniteSet(s), s # {}, NEW weight, Weights(weight, s)
    PROVE  Total(weight, s) = weight[Pick(s)] + Total(weight, s \ {Pick(s)})
<1>1. Pick(s) \in s
  BY PickIn
<1> DEFINE x == Pick(s)
<1> HIDE DEF x
<1>2. IsFiniteSet(s \ {x}) /\ x \notin s \ {x} /\ s = (s \ {x}) \cup {x} /\ x \in s
  BY <1>1, FS_RemoveElement DEF x
<1>3. Weights(weight, s \ {x}) /\ weight[x] \in Nat
  BY <1>2 DEF Weights
<1>4. Total(weight, s) = Total(weight, s \ {x}) + weight[x]
  BY <1>2, TotalAdd
<1>5. Total(weight, s \ {x}) \in Nat
  BY <1>2, <1>3, UnitsFinite
<1> QED
  BY <1>3, <1>4, <1>5 DEF x

\* There is such a function: the totals.
LEMMA TotalsAdd ==
    ASSUME NEW S, IsFiniteSet(S), NEW weight, Weights(weight, S)
    PROVE  Adds([s \in SUBSET S |-> Total(weight, s)], weight, S)
<1> DEFINE sum == [s \in SUBSET S |-> Total(weight, s)]
<1>1. ASSUME NEW s \in SUBSET S
      PROVE  Total(weight, s)
                = IF s = {} THEN 0 ELSE weight[Pick(s)] + sum[s \ {Pick(s)}]
  <2>1. IsFiniteSet(s) /\ Weights(weight, s)
    BY FS_Subset DEF Weights
  <2>2. CASE s = {}
    BY <2>2, TotalEmpty
  <2>3. CASE s # {}
    <3>1. s \ {Pick(s)} \in SUBSET S
      OBVIOUS
    <3>2. sum[s \ {Pick(s)}] = Total(weight, s \ {Pick(s)})
      BY <3>1
    <3> QED
      BY <2>1, <2>3, <3>2, PickAdds
  <2> QED
    BY <2>2, <2>3
<1> QED
  BY <1>1 DEF Adds

\* There is no other: if two differed, they would on a smallest subset.
LEMMA OnlyTotalsAdd ==
    ASSUME NEW S, IsFiniteSet(S), NEW weight, Weights(weight, S),
           NEW sum, Adds(sum, weight, S)
    PROVE  sum[S] = Total(weight, S)
<1> DEFINE wrong == {s \in SUBSET S : sum[s] # Total(weight, s)}
           sizes == {Cardinality(s) : s \in wrong}
<1>1. \A s \in SUBSET S : IsFiniteSet(s) /\ Cardinality(s) \in Nat
  BY FS_Subset, FS_CardinalityType
<1>2. wrong = {}
  <2> SUFFICES ASSUME wrong # {} PROVE FALSE
    OBVIOUS
  <2>1. sizes \in SUBSET Nat /\ sizes # {}
    BY <1>1
  <2>2. PICK n \in sizes : \A k \in sizes : n <= k
    BY <2>1, LeastNumber
  <2>3. PICK s \in wrong : \A t \in wrong : Cardinality(s) <= Cardinality(t)
    BY <2>2
  <2>4. s \in SUBSET S /\ sum[s] # Total(weight, s)
    BY <2>3
  <2>5. sum[s] = IF s = {} THEN 0 ELSE weight[Pick(s)] + sum[s \ {Pick(s)}]
    BY <2>4 DEF Adds
  <2>6. s # {}
    BY <2>4, <2>5, TotalEmpty
  <2>7. IsFiniteSet(s) /\ Weights(weight, s) /\ Pick(s) \in s
    BY <1>1, <2>4, <2>6, PickIn DEF Weights
  <2>8. Cardinality(s \ {Pick(s)}) = Cardinality(s) - 1 /\ Cardinality(s) \in Nat
    BY <1>1, <2>4, <2>7, FS_RemoveElement
  <2>9. s \ {Pick(s)} \in SUBSET S /\ s \ {Pick(s)} \notin wrong
    <3> DEFINE rest == s \ {Pick(s)}
    <3>1. rest \in SUBSET S /\ Cardinality(rest) = Cardinality(s) - 1
      BY <2>4, <2>8
    <3> HIDE DEF rest, wrong
    <3>2. rest \notin wrong
      BY <2>3, <2>8, <3>1
    <3> QED
      BY <3>1, <3>2 DEF rest
  <2>10. sum[s \ {Pick(s)}] = Total(weight, s \ {Pick(s)})
    BY <2>9
  <2> QED
    BY <2>4, <2>5, <2>6, <2>7, <2>10, PickAdds
<1> QED
  BY <1>2

\* SumFunction adds up what it should.
LEMMA SumFunctionTotal ==
    ASSUME NEW f, IsFiniteSet(DOMAIN f), Weights(f, DOMAIN f)
    PROVE  SumFunction(f) = Total(f, DOMAIN f)
<1>1. \A sum : Adds(sum, f, DOMAIN f) => sum[DOMAIN f] = Total(f, DOMAIN f)
  BY OnlyTotalsAdd
<1>2. \E sum : Adds(sum, f, DOMAIN f)
  BY TotalsAdd
<1> QED
  BY <1>1, <1>2 DEF SumFunction, SumFunctionOnSet, FoldFunctionOnSet, MapThenFoldSet, Adds,
                    Pick
============================================================================
