------------------------------ MODULE SetFacts ------------------------------
(***************************************************************************)
(* Facts about finite sets that the proofs of several modules rest on: the  *)
(* least and the greatest number of a set, and sums over a set, which do    *)
(* not depend on the order in which they are taken.  What is shown for all  *)
(* finite sets is shown by way of a smallest set for which it would fail.   *)
(***************************************************************************)
EXTENDS Integers, FiniteSets, FiniteSetsExt, Functions, FiniteSetTheorems, TLAPS

-----------------------------------------------------------------------------
(* Least and greatest *)

\* A set of natural numbers has a least one.
LEMMA LeastNat ==
    ASSUME NEW S, S \subseteq Nat, S # {}
    PROVE  \E x \in S : \A y \in S : x <= y
<1> DEFINE less == {p \in Nat \X Nat : p[1] < p[2]}
<1>1. IsWellFoundedOn(less, Nat)
  <2>1. OpToRel(<, Nat) = less
    BY DEF OpToRel
  <2> QED
    BY <2>1, NatLessThanWellFounded, Zenon
<1>2. PICK x \in S : \A y \in S : ~(<<y, x>> \in less)
  <2> HIDE DEF less
  <2> QED
    BY <1>1, WFMin
<1>3. ASSUME NEW y \in S PROVE x <= y
  <2>1. x \in Nat /\ y \in Nat
    OBVIOUS
  <2>2. <<y, x>> \in less <=> y < x
    BY <2>1
  <2> QED
    BY <1>2, <2>1, <2>2
<1> QED
  BY <1>3

\* Min returns it.
LEMMA MinOf ==
    ASSUME NEW S, S \subseteq Nat, S # {}
    PROVE  Min(S) \in S /\ \A y \in S : Min(S) <= y
BY LeastNat, Zenon DEF Min

\* Among the subsets of a finite set there is a smallest one of any kind.
LEMMA SmallestSet ==
    ASSUME NEW S, IsFiniteSet(S), NEW B \in SUBSET SUBSET S, B # {}
    PROVE  \E T \in B : IsFiniteSet(T) /\ \A U \in B : U \subseteq T => U = T
<1>1. \A T \in B : IsFiniteSet(T) /\ Cardinality(T) \in Nat
  BY FS_Subset, FS_CardinalityType
<1> DEFINE sizes == {Cardinality(T) : T \in B}
<1>2. PICK n \in sizes : \A m \in sizes : n <= m
  <2>1. sizes \subseteq Nat /\ sizes # {}
    BY <1>1
  <2> HIDE DEF sizes
  <2> QED
    BY <2>1, LeastNat
<1>3. PICK T \in B : n = Cardinality(T)
  BY <1>2
<1>4. ASSUME NEW U \in B, U \subseteq T PROVE U = T
  <2>1. Cardinality(T) <= Cardinality(U)
    BY <1>2, <1>3
  <2>2. Cardinality(U) <= Cardinality(T) /\ (Cardinality(U) = Cardinality(T) => U = T)
    BY <1>1, <1>4, FS_Subset
  <2> QED
    BY <1>1, <2>1, <2>2
<1> QED
  BY <1>1, <1>4

\* A finite set of natural numbers has a greatest one.
LEMMA GreatestNat ==
    ASSUME NEW S, S \subseteq Nat, S # {}, IsFiniteSet(S)
    PROVE  \E x \in S : \A y \in S : y <= x
<1> DEFINE Above(x) == {y \in S : y > x}
           sizes == {Cardinality(Above(x)) : x \in S}
<1>1. \A x \in S : IsFiniteSet(Above(x)) /\ Cardinality(Above(x)) \in Nat
  <2> SUFFICES ASSUME NEW x \in S PROVE IsFiniteSet(Above(x)) /\ Cardinality(Above(x)) \in Nat
    OBVIOUS
  <2>1. Above(x) \subseteq S
    OBVIOUS
  <2> HIDE DEF Above
  <2> QED
    BY <2>1, FS_Subset, FS_CardinalityType
<1>2. PICK n \in sizes : \A m \in sizes : n <= m
  <2>1. sizes \subseteq Nat /\ sizes # {}
    BY <1>1
  <2> HIDE DEF sizes
  <2> QED
    BY <2>1, LeastNat
<1>3. PICK x \in S : n = Cardinality(Above(x))
  BY <1>2
<1>4. ASSUME NEW y \in S, y > x PROVE FALSE
  <2>1. x \in Nat /\ y \in Nat
    OBVIOUS
  <2>2. \A z \in S : z \in Nat
    OBVIOUS
  <2>3. Above(y) \subseteq Above(x)
    <3>1. \A z \in S : z > y => z > x
      BY <1>4, <2>1, <2>2
    <3> QED
      BY <3>1
  <2>4. y \in Above(x) /\ y \notin Above(y)
    BY <1>4, <2>1
  <2>5. Cardinality(Above(y)) < Cardinality(Above(x))
    <3> HIDE DEF Above
    <3>1. /\ Cardinality(Above(y)) \in Nat /\ Cardinality(Above(x)) \in Nat
          /\ IsFiniteSet(Above(x))
      BY <1>1
    <3>2. /\ Cardinality(Above(y)) <= Cardinality(Above(x))
          /\ Cardinality(Above(y)) = Cardinality(Above(x)) => Above(y) = Above(x)
      BY <2>3, <3>1, FS_Subset
    <3> QED
      BY <2>3, <2>4, <3>1, <3>2
  <2>6. Cardinality(Above(x)) <= Cardinality(Above(y))
    BY <1>2, <1>3
  <2> QED
    BY <1>1, <2>5, <2>6
<1>5. \A y \in S : ~(y > x) /\ x \in Nat /\ y \in Nat
  BY <1>4
<1> QED
  BY <1>5

-----------------------------------------------------------------------------
(* Sums *)

First(s) == CHOOSE x \in s : TRUE

\* F sums w over every subset of S.
IsSum(F, w, S) ==
    F = [s \in SUBSET S |-> IF s = {} THEN 0 ELSE w[First(s)] + F[s \ {First(s)}]]

LEMMA FirstOf == ASSUME NEW s, s # {} PROVE First(s) \in s
BY DEF First

LEMMA SumUnfolded ==
    ASSUME NEW S, NEW w
    PROVE  SumFunctionOnSet(w, S) = (CHOOSE F : IsSum(F, w, S))[S]
BY DEF SumFunctionOnSet, FoldFunctionOnSet, MapThenFoldSet, IsSum, First

\* What IsSum says of one subset.
LEMMA SumOfSubset ==
    ASSUME NEW S, NEW w, NEW F, IsSum(F, w, S), NEW s \in SUBSET S
    PROVE  /\ s = {} => F[s] = 0
           /\ s # {} => F[s] = w[First(s)] + F[s \ {First(s)}]
<1>1. F[s] = IF s = {} THEN 0 ELSE w[First(s)] + F[s \ {First(s)}]
  BY Zenon DEF IsSum
<1> QED
  BY <1>1

\* Only one function does.
LEMMA SumUnique ==
    ASSUME NEW S, IsFiniteSet(S), NEW w, NEW F, NEW G, IsSum(F, w, S), IsSum(G, w, S)
    PROVE  F = G
<1> DEFINE B == {T \in SUBSET S : F[T] # G[T]}
<1>1. B = {}
  <2> SUFFICES ASSUME B # {} PROVE FALSE
    OBVIOUS
  <2>1. PICK T \in B : \A U \in B : U \subseteq T => U = T
    <3>1. B \in SUBSET SUBSET S
      OBVIOUS
    <3> HIDE DEF B
    <3> QED
      BY <3>1, SmallestSet
  <2>2. T # {}
    BY SumOfSubset
  <2>3. First(T) \in T
    BY <2>2, FirstOf
  <2>4. F[T \ {First(T)}] = G[T \ {First(T)}]
    BY <2>1, <2>3
  <2> QED
    BY <2>2, <2>4, SumOfSubset
<1>2. F = [s \in SUBSET S |-> F[s]] /\ G = [s \in SUBSET S |-> G[s]]
  BY DEF IsSum
<1> QED
  BY <1>1, <1>2

\* It sums over the subsets of a subset, too.
LEMMA SumRestricted ==
    ASSUME NEW S, NEW w, NEW F, IsSum(F, w, S), NEW T \in SUBSET S
    PROVE  IsSum([s \in SUBSET T |-> F[s]], w, T)
<1> DEFINE G == [s \in SUBSET T |-> F[s]]
<1>1. ASSUME NEW s \in SUBSET T
      PROVE  G[s] = IF s = {} THEN 0 ELSE w[First(s)] + G[s \ {First(s)}]
  <2>1. s \in SUBSET S /\ s \ {First(s)} \in SUBSET T
    OBVIOUS
  <2> QED
    BY <2>1, SumOfSubset
<1>2. G = [s \in SUBSET T |-> IF s = {} THEN 0 ELSE w[First(s)] + G[s \ {First(s)}]]
  <2>1. G = [s \in SUBSET T |-> G[s]]
    OBVIOUS
  <2> HIDE DEF G
  <2> QED
    BY <1>1, <2>1
<1> QED
  BY <1>2 DEF IsSum

\* So it is what SumFunctionOnSet returns.
LEMMA SumIs ==
    ASSUME NEW S, IsFiniteSet(S), NEW w, NEW F, IsSum(F, w, S), NEW T \in SUBSET S
    PROVE  SumFunctionOnSet(w, T) = F[T]
<1> DEFINE G == [s \in SUBSET T |-> F[s]]
           H == CHOOSE H : IsSum(H, w, T)
<1>1. IsSum(G, w, T) /\ IsFiniteSet(T)
  BY SumRestricted, FS_Subset
<1>2. IsSum(H, w, T)
  BY <1>1
<1>3. H = G
  <2> HIDE DEF G, H
  <2> QED
    BY <1>1, <1>2, SumUnique
<1> QED
  BY <1>3, SumUnfolded

\* There is such a function.
LEMMA SumExists ==
    ASSUME NEW S, IsFiniteSet(S), NEW w
    PROVE  \E F : IsSum(F, w, S)
<1> DEFINE B == {T \in SUBSET S : ~\E F : IsSum(F, w, T)}
<1> SUFFICES ASSUME B # {} PROVE FALSE
  OBVIOUS
<1>1. PICK T \in B : IsFiniteSet(T) /\ \A U \in B : U \subseteq T => U = T
  <2>1. B \in SUBSET SUBSET S
    OBVIOUS
  <2> HIDE DEF B
  <2> QED
    BY <2>1, SmallestSet
<1> DEFINE F == [s \in SUBSET T |->
                    IF s = {} THEN 0
                    ELSE w[First(s)] + SumFunctionOnSet(w, s \ {First(s)})]
<1>2. ASSUME NEW U \in SUBSET T, U # T PROVE F[U] = SumFunctionOnSet(w, U)
  <2>1. IsFiniteSet(U) /\ U \notin B /\ U \in SUBSET S
    BY <1>1, <1>2, FS_Subset
  <2>2. PICK G : IsSum(G, w, U)
    BY <2>1
  <2>3. \A V \in SUBSET U : SumFunctionOnSet(w, V) = G[V]
    BY <2>1, <2>2, SumIs
  <2>4. G[U] = F[U]
    BY <2>2, <2>3, SumOfSubset
  <2> QED
    BY <2>3, <2>4
<1>3. ASSUME NEW s \in SUBSET T
      PROVE  F[s] = IF s = {} THEN 0 ELSE w[First(s)] + F[s \ {First(s)}]
  <2>1. CASE s = {}
    BY <2>1
  <2>2. CASE s # {}
    <3>1. s \ {First(s)} \in SUBSET T /\ s \ {First(s)} # T
      BY <2>2, FirstOf
    <3>2. F[s \ {First(s)}] = SumFunctionOnSet(w, s \ {First(s)})
      BY <1>2, <3>1
    <3> QED
      BY <2>2, <3>2
  <2> QED
    BY <2>1, <2>2
<1>4. F = [s \in SUBSET T |-> F[s]]
  OBVIOUS
<1> HIDE DEF F
<1>5. IsSum(F, w, T)
  BY <1>3, <1>4 DEF IsSum
<1> QED
  BY <1>1, <1>5

\* The empty sum, and the sum of a set less its first element.
LEMMA SumFirst ==
    ASSUME NEW S, IsFiniteSet(S), NEW w
    PROVE  /\ S = {} => SumFunctionOnSet(w, S) = 0
           /\ S # {} => SumFunctionOnSet(w, S)
                        = w[First(S)] + SumFunctionOnSet(w, S \ {First(S)})
<1>1. PICK F : IsSum(F, w, S)
  BY SumExists
<1>2. \A T \in SUBSET S : SumFunctionOnSet(w, T) = F[T]
  BY <1>1, SumIs
<1> QED
  BY <1>1, <1>2, SumOfSubset

\* A sum of integers is one, and one of natural numbers is natural.
LEMMA SumType ==
    ASSUME NEW S, IsFiniteSet(S), NEW w, NEW N \in {Int, Nat}, \A x \in S : w[x] \in N
    PROVE  SumFunctionOnSet(w, S) \in N
<1> DEFINE B == {T \in SUBSET S : SumFunctionOnSet(w, T) \notin N}
<1> SUFFICES ASSUME B # {} PROVE FALSE
  OBVIOUS
<1>1. PICK T \in B : IsFiniteSet(T) /\ \A U \in B : U \subseteq T => U = T
  <2>1. B \in SUBSET SUBSET S
    OBVIOUS
  <2> HIDE DEF B
  <2> QED
    BY <2>1, SmallestSet
<1>2. T # {}
  <2>1. 0 \in N
    OBVIOUS
  <2> QED
    BY <1>1, <2>1, SumFirst
<1>3. First(T) \in T
  BY <1>2, FirstOf
<1>4. SumFunctionOnSet(w, T \ {First(T)}) \in N /\ w[First(T)] \in N
  BY <1>1, <1>3
<1>5. SumFunctionOnSet(w, T) = w[First(T)] + SumFunctionOnSet(w, T \ {First(T)})
  BY <1>1, <1>2, SumFirst
<1>6. SumFunctionOnSet(w, T) \in N
  BY <1>4, <1>5
<1> QED
  BY <1>6

\* A sum depends only on what is summed.
LEMMA SumSame ==
    ASSUME NEW S, IsFiniteSet(S), NEW v, NEW w, \A x \in S : v[x] = w[x]
    PROVE  SumFunctionOnSet(v, S) = SumFunctionOnSet(w, S)
<1> DEFINE B == {T \in SUBSET S : SumFunctionOnSet(v, T) # SumFunctionOnSet(w, T)}
<1> SUFFICES ASSUME B # {} PROVE FALSE
  OBVIOUS
<1>1. PICK T \in B : IsFiniteSet(T) /\ \A U \in B : U \subseteq T => U = T
  <2>1. B \in SUBSET SUBSET S
    OBVIOUS
  <2> HIDE DEF B
  <2> QED
    BY <2>1, SmallestSet
<1>2. T # {}
  BY <1>1, SumFirst
<1>3. First(T) \in T
  BY <1>2, FirstOf
<1>4. /\ SumFunctionOnSet(v, T \ {First(T)}) = SumFunctionOnSet(w, T \ {First(T)})
      /\ v[First(T)] = w[First(T)]
  BY <1>1, <1>3
<1>5. /\ SumFunctionOnSet(v, T) = v[First(T)] + SumFunctionOnSet(v, T \ {First(T)})
      /\ SumFunctionOnSet(w, T) = w[First(T)] + SumFunctionOnSet(w, T \ {First(T)})
  BY <1>1, <1>2, SumFirst
<1>6. SumFunctionOnSet(v, T) = SumFunctionOnSet(w, T)
  BY <1>4, <1>5
<1> QED
  BY <1>6

\* Any element may come first.
LEMMA SumElement ==
    ASSUME NEW S, IsFiniteSet(S), NEW w, \A y \in S : w[y] \in Int, NEW e \in S
    PROVE  SumFunctionOnSet(w, S) = w[e] + SumFunctionOnSet(w, S \ {e})
<1> DEFINE Sum(T) == SumFunctionOnSet(w, T)
           B == {T \in SUBSET S : \E x \in T : Sum(T) # w[x] + Sum(T \ {x})}
<1> SUFFICES ASSUME B # {} PROVE FALSE
  OBVIOUS
<1>1. PICK T \in B : IsFiniteSet(T) /\ \A U \in B : U \subseteq T => U = T
  <2>1. B \in SUBSET SUBSET S
    OBVIOUS
  <2> HIDE DEF B
  <2> QED
    BY <2>1, SmallestSet
<1>2. PICK x \in T : Sum(T) # w[x] + Sum(T \ {x})
  BY <1>1
<1> DEFINE y == First(T)
           rest == T \ {x, y}
<1>3. T \in SUBSET S /\ y \in T
  BY <1>1, <1>2, FirstOf
<1>4. Sum(rest) \in Int /\ w[x] \in Int /\ w[y] \in Int
  <2>1. rest \in SUBSET S /\ IsFiniteSet(rest)
    BY <1>3, FS_Subset
  <2> HIDE DEF rest
  <2> QED
    BY <1>2, <1>3, <2>1, SumType
<1>5. Sum(T) = w[y] + Sum(T \ {y})
  BY <1>1, <1>3, SumFirst
<1>6. x # y
  BY <1>2, <1>5
<1>7. Sum(T \ {y}) = w[x] + Sum(rest) /\ Sum(T \ {x}) = w[y] + Sum(rest)
  <2>1. /\ T \ {x} \notin B /\ T \ {y} \notin B /\ y \in T \ {x} /\ x \in T \ {y}
        /\ (T \ {y}) \ {x} = rest /\ (T \ {x}) \ {y} = rest
        /\ T \ {x} \in SUBSET S /\ T \ {y} \in SUBSET S
    BY <1>1, <1>2, <1>3, <1>6
  <2> HIDE DEF rest, y, Sum
  <2> QED
    BY <2>1
<1> HIDE DEF rest, y, Sum
<1> QED
  BY <1>2, <1>4, <1>5, <1>7

\* The sum over two sets apart.
LEMMA SumDisjoint ==
    ASSUME NEW A, IsFiniteSet(A), NEW S, IsFiniteSet(S), A \cap S = {}, NEW w,
           \A x \in A \cup S : w[x] \in Int
    PROVE  SumFunctionOnSet(w, A \cup S) = SumFunctionOnSet(w, A) + SumFunctionOnSet(w, S)
<1> DEFINE Sum(T) == SumFunctionOnSet(w, T)
           B == {T \in SUBSET S : Sum(A \cup T) # Sum(A) + Sum(T)}
<1> SUFFICES ASSUME B # {} PROVE FALSE
  OBVIOUS
<1>1. PICK T \in B : IsFiniteSet(T) /\ \A U \in B : U \subseteq T => U = T
  <2>1. B \in SUBSET SUBSET S
    OBVIOUS
  <2> HIDE DEF B
  <2> QED
    BY <2>1, SmallestSet
<1>2. T \in SUBSET S /\ Sum(A \cup T) # Sum(A) + Sum(T) /\ IsFiniteSet(A \cup T)
  BY <1>1, FS_Union
<1>3. Sum(A) \in Int
  BY SumType
<1>4. T # {}
  <2> SUFFICES ASSUME T = {} PROVE FALSE
    OBVIOUS
  <2>1. A \cup T = A
    OBVIOUS
  <2>2. Sum(A \cup T) = Sum(A)
    BY <2>1
  <2>3. Sum(T) = 0
    BY <1>1, SumFirst
  <2> HIDE DEF Sum, B
  <2> QED
    BY <1>2, <1>3, <2>2, <2>3
<1>5. PICK x \in T : TRUE
  BY <1>4
<1>6. /\ (A \cup T) \ {x} = A \cup (T \ {x}) /\ T \ {x} \in SUBSET S /\ T \ {x} \notin B
      /\ x \in A \cup T /\ w[x] \in Int
  BY <1>1, <1>2, <1>5
<1>7. Sum(A \cup (T \ {x})) = Sum(A) + Sum(T \ {x})
  BY <1>6
<1>8. Sum(T) = w[x] + Sum(T \ {x})
  BY <1>1, <1>2, <1>5, SumElement
<1>9. Sum(A \cup T) = w[x] + Sum((A \cup T) \ {x})
  <2>1. \A y \in A \cup T : w[y] \in Int
    BY <1>2
  <2> QED
    BY <1>2, <1>6, <2>1, SumElement
<1>10. Sum(T \ {x}) \in Int
  <2>1. IsFiniteSet(T \ {x}) /\ \A y \in T \ {x} : w[y] \in Int
    BY <1>1, <1>2, FS_Subset
  <2> QED
    BY <2>1, SumType
<1>11. Sum(A \cup T) = w[x] + Sum(A \cup (T \ {x}))
  BY <1>6, <1>9
<1> HIDE DEF Sum
<1> QED
  BY <1>2, <1>3, <1>6, <1>7, <1>8, <1>10, <1>11

\* A sum grows with what is summed.
LEMMA SumMonotone ==
    ASSUME NEW S, IsFiniteSet(S), NEW v, NEW w,
           \A x \in S : v[x] \in Int /\ w[x] \in Int /\ v[x] <= w[x]
    PROVE  SumFunctionOnSet(v, S) <= SumFunctionOnSet(w, S)
<1> DEFINE B == {T \in SUBSET S : ~(SumFunctionOnSet(v, T) <= SumFunctionOnSet(w, T))}
<1> SUFFICES ASSUME B # {} PROVE FALSE
  OBVIOUS
<1>1. PICK T \in B : IsFiniteSet(T) /\ \A U \in B : U \subseteq T => U = T
  <2>1. B \in SUBSET SUBSET S
    OBVIOUS
  <2> HIDE DEF B
  <2> QED
    BY <2>1, SmallestSet
<1>2. T \in SUBSET S /\ ~(SumFunctionOnSet(v, T) <= SumFunctionOnSet(w, T))
  BY <1>1
<1>3. T # {}
  <2>1. T = {} => SumFunctionOnSet(v, T) = 0 /\ SumFunctionOnSet(w, T) = 0
    BY <1>1, SumFirst
  <2> QED
    BY <1>2, <2>1
<1>4. PICK x \in T : v[x] \in Int /\ w[x] \in Int /\ v[x] <= w[x]
  BY <1>2, <1>3
<1>5. /\ SumFunctionOnSet(v, T) = v[x] + SumFunctionOnSet(v, T \ {x})
      /\ SumFunctionOnSet(w, T) = w[x] + SumFunctionOnSet(w, T \ {x})
  BY <1>1, <1>2, SumElement
<1>6. T \ {x} \in SUBSET S /\ T \ {x} \notin B /\ IsFiniteSet(T \ {x})
  BY <1>1, <1>2, FS_Subset
<1>7. SumFunctionOnSet(v, T \ {x}) \in Int /\ SumFunctionOnSet(w, T \ {x}) \in Int
  BY <1>6, SumType
<1>8. SumFunctionOnSet(v, T \ {x}) <= SumFunctionOnSet(w, T \ {x})
  BY <1>6
<1> QED
  BY <1>2, <1>4, <1>5, <1>7, <1>8

\* Taking k from every element takes it as often as there are elements.
LEMMA SumShift ==
    ASSUME NEW S, IsFiniteSet(S), NEW v, NEW w, NEW k \in Int,
           \A x \in S : w[x] \in Int /\ v[x] = w[x] - k
    PROVE  SumFunctionOnSet(v, S) = SumFunctionOnSet(w, S) - Cardinality(S) * k
<1> DEFINE B == {T \in SUBSET S :
                    SumFunctionOnSet(v, T) # SumFunctionOnSet(w, T) - Cardinality(T) * k}
<1> SUFFICES ASSUME B # {} PROVE FALSE
  OBVIOUS
<1>1. PICK T \in B : IsFiniteSet(T) /\ \A U \in B : U \subseteq T => U = T
  <2>1. B \in SUBSET SUBSET S
    OBVIOUS
  <2> HIDE DEF B
  <2> QED
    BY <2>1, SmallestSet
<1>2. T \in SUBSET S /\ SumFunctionOnSet(v, T) # SumFunctionOnSet(w, T) - Cardinality(T) * k
  BY <1>1
<1>3. T # {}
  <2>1. T = {} => /\ SumFunctionOnSet(v, T) = 0 /\ SumFunctionOnSet(w, T) = 0
                  /\ Cardinality(T) = 0
    BY <1>1, SumFirst, FS_EmptySet
  <2> QED
    BY <1>2, <2>1
<1>4. PICK x \in T : w[x] \in Int /\ v[x] = w[x] - k
  BY <1>2, <1>3
<1>5. /\ SumFunctionOnSet(v, T) = v[x] + SumFunctionOnSet(v, T \ {x})
      /\ SumFunctionOnSet(w, T) = w[x] + SumFunctionOnSet(w, T \ {x})
  BY <1>1, <1>2, SumElement
<1>6. /\ T \ {x} \in SUBSET S /\ T \ {x} \notin B /\ IsFiniteSet(T \ {x})
      /\ Cardinality(T \ {x}) = Cardinality(T) - 1 /\ Cardinality(T) \in Nat
  <2>1. T \ {x} \in SUBSET S /\ T \ {x} \notin B
    BY <1>1, <1>2
  <2> HIDE DEF B
  <2> QED
    BY <1>1, <2>1, FS_RemoveElement, FS_CardinalityType
<1>7. SumFunctionOnSet(v, T \ {x}) \in Int /\ SumFunctionOnSet(w, T \ {x}) \in Int
  BY <1>6, SumType
<1>8. SumFunctionOnSet(v, T \ {x}) = SumFunctionOnSet(w, T \ {x}) - (Cardinality(T) - 1) * k
  BY <1>6
<1>9. (Cardinality(T) - 1) * k = Cardinality(T) * k - k /\ Cardinality(T) * k \in Int
  BY <1>6
<1> QED
  BY <1>2, <1>4, <1>5, <1>7, <1>8, <1>9

\* What is summed class by class is summed.
LEMMA SumByPart ==
    ASSUME NEW S, IsFiniteSet(S), NEW w, \A x \in S : w[x] \in Int,
           NEW G, IsFiniteSet(G), NEW f, \A x \in S : f[x] \in G, NEW part,
           \A g \in G : part[g] \subseteq S /\ \A x \in S : x \in part[g] <=> f[x] = g,
           NEW v, \A g \in G : v[g] = SumFunctionOnSet(w, part[g])
    PROVE  SumFunctionOnSet(v, G) = SumFunctionOnSet(w, S)
<1> DEFINE Of(T) == {x \in S : f[x] \in T}
           B == {T \in SUBSET G : SumFunctionOnSet(v, T) # SumFunctionOnSet(w, Of(T))}
<1>0. Of(G) = S
  OBVIOUS
<1> SUFFICES ASSUME B # {} PROVE FALSE
  BY <1>0
<1>1. PICK T \in B : IsFiniteSet(T) /\ \A U \in B : U \subseteq T => U = T
  <2>1. B \in SUBSET SUBSET G
    OBVIOUS
  <2> HIDE DEF B
  <2> QED
    BY <2>1, SmallestSet
<1>2. T \in SUBSET G /\ SumFunctionOnSet(v, T) # SumFunctionOnSet(w, Of(T))
  BY <1>1
<1>3. T # {}
  <2>1. Of({}) = {} /\ IsFiniteSet({})
    BY FS_EmptySet
  <2>2. SumFunctionOnSet(v, {}) = 0 /\ SumFunctionOnSet(w, {}) = 0
    BY <2>1, SumFirst
  <2> HIDE DEF Of
  <2> QED
    BY <1>2, <2>1, <2>2
<1>4. PICK g \in T : g \in G
  BY <1>2, <1>3
<1>5. /\ Of(T) = Of(T \ {g}) \cup part[g] /\ Of(T \ {g}) \cap part[g] = {}
      /\ Of(T \ {g}) \subseteq S /\ part[g] \subseteq S
  BY <1>4
<1>6. IsFiniteSet(Of(T \ {g})) /\ IsFiniteSet(part[g])
  BY <1>5, FS_Subset
<1>7. T \ {g} \in SUBSET G /\ T \ {g} \notin B
  BY <1>1, <1>2, <1>4
<1>8. SumFunctionOnSet(v, T \ {g}) = SumFunctionOnSet(w, Of(T \ {g}))
  BY <1>7
<1>9. \A h \in G : v[h] = SumFunctionOnSet(w, part[h]) /\ part[h] \subseteq S
  OBVIOUS
<1> HIDE DEF Of, B
<1>10. \A h \in G : v[h] \in Int
  <2> SUFFICES ASSUME NEW h \in G PROVE v[h] \in Int
    OBVIOUS
  <2>1. IsFiniteSet(part[h]) /\ \A x \in part[h] : w[x] \in Int
    BY <1>9, FS_Subset
  <2>2. SumFunctionOnSet(w, part[h]) \in Int
    BY <2>1, SumType
  <2> QED
    BY <1>9, <2>2
<1>11. SumFunctionOnSet(v, T) = v[g] + SumFunctionOnSet(v, T \ {g})
  BY <1>1, <1>2, <1>4, <1>10, SumElement
<1>12. \A x \in Of(T \ {g}) \cup part[g] : w[x] \in Int
  BY <1>5
<1>13. SumFunctionOnSet(w, Of(T)) = SumFunctionOnSet(w, Of(T \ {g})) + SumFunctionOnSet(w, part[g])
  <2> DEFINE rest == Of(T \ {g})
             class == part[g]
  <2>1. /\ Of(T) = rest \cup class /\ rest \cap class = {} /\ IsFiniteSet(rest) /\ IsFiniteSet(class)
        /\ \A x \in rest \cup class : w[x] \in Int
    BY <1>5, <1>6, <1>12
  <2> HIDE DEF rest, class
  <2>2. SumFunctionOnSet(w, rest \cup class) = SumFunctionOnSet(w, rest) + SumFunctionOnSet(w, class)
    BY <2>1, SumDisjoint
  <2> QED
    BY <2>1, <2>2 DEF rest, class
<1>14. SumFunctionOnSet(w, Of(T \ {g})) \in Int /\ SumFunctionOnSet(w, part[g]) \in Int
  BY <1>6, <1>12, SumType
<1> QED
  BY <1>2, <1>4, <1>8, <1>9, <1>11, <1>13, <1>14

\* Nothing adds up to nothing.
LEMMA SumZero ==
    ASSUME NEW S, IsFiniteSet(S), NEW w, \A x \in S : w[x] = 0
    PROVE  SumFunctionOnSet(w, S) = 0
<1> DEFINE B == {T \in SUBSET S : SumFunctionOnSet(w, T) # 0}
<1> SUFFICES ASSUME B # {} PROVE FALSE
  OBVIOUS
<1>1. PICK T \in B : IsFiniteSet(T) /\ \A U \in B : U \subseteq T => U = T
  <2>1. B \in SUBSET SUBSET S
    OBVIOUS
  <2> HIDE DEF B
  <2> QED
    BY <2>1, SmallestSet
<1>2. T # {} /\ T \in SUBSET S
  BY <1>1, SumFirst
<1>3. First(T) \in T /\ w[First(T)] = 0
  BY <1>2, FirstOf
<1>4. SumFunctionOnSet(w, T) = w[First(T)] + SumFunctionOnSet(w, T \ {First(T)})
  BY <1>1, <1>2, SumFirst
<1>5. SumFunctionOnSet(w, T \ {First(T)}) = 0
  BY <1>1, <1>2, <1>3
<1> QED
  BY <1>1, <1>3, <1>4, <1>5

=============================================================================
