-------------------------------- MODULE Sums --------------------------------
(***************************************************************************)
(* What the proofs about the partner's counter need to know of sums over a *)
(* finite set (SumFunctionOnSet of the community modules).  The induction  *)
(* principles of the library take an operator as a parameter; here they    *)
(* are stated with the set of the numbers for which something holds.       *)
(***************************************************************************)
EXTENDS Integers, FiniteSets, Functions, FiniteSetTheorems, WellFoundedInduction, TLAPS

(* Every set of numbers has a least one, and what follows from it: the     *)
(* induction over the numbers.                                             *)
LEMMA LeastNumber ==
  ASSUME NEW T, T \subseteq Nat, T # {}
  PROVE  \E n \in T : \A m \in T : ~(m < n)
<1> DEFINE R == {ss \in Nat \X Nat : ss[1] < ss[2]}
<1>1. IsWellFoundedOn(R, Nat)
  BY NatLessThanWellFounded DEF OpToRel
<1>2. \E x \in T : \A y \in T : ~ (<<y, x>> \in R)
  <2> HIDE DEF R
  <2> QED BY <1>1, WFMin
<1> QED BY <1>2

LEMMA NaturalInduction ==
  ASSUME NEW T, 0 \in T, \A n \in Nat : n \in T => n + 1 \in T
  PROVE  \A n \in Nat : n \in T
<1> DEFINE U == Nat \ T
<1>1. SUFFICES ASSUME U # {} PROVE FALSE
  OBVIOUS
<1>2. PICK n \in U : \A m \in U : ~(m < n)
  <2> HIDE DEF U
  <2>1. U \subseteq Nat
    BY DEF U
  <2> QED BY <1>1, <2>1, LeastNumber
<1>3. n # 0 /\ n - 1 \in Nat /\ n - 1 < n
  OBVIOUS
<1>4. n - 1 \in T
  BY <1>2, <1>3
<1> QED BY <1>3, <1>4

(* Over the subsets of a finite set, by their size.                        *)
LEMMA SubsetInduction ==
  ASSUME NEW S, IsFiniteSet(S), NEW P,
         {} \in P,
         \A s \in SUBSET S : s # {} /\ (\A x \in s : s \ {x} \in P) => s \in P
  PROVE  \A s \in SUBSET S : s \in P
<1> DEFINE T == {n \in Nat : \A s \in SUBSET S : Cardinality(s) = n => s \in P}
<1>1. \A s \in SUBSET S : IsFiniteSet(s) /\ Cardinality(s) \in Nat
  BY FS_Subset, FS_CardinalityType
<1>2. 0 \in T
  BY <1>1, FS_EmptySet
<1>3. ASSUME NEW n \in Nat, n \in T
      PROVE  n + 1 \in T
  <2> SUFFICES ASSUME NEW s \in SUBSET S, Cardinality(s) = n + 1
               PROVE  s \in P
    OBVIOUS
  <2>1. s # {}
    BY FS_EmptySet
  <2>2. ASSUME NEW x \in s
        PROVE  s \ {x} \in P
    <3>1. Cardinality(s \ {x}) = n
      BY <1>1, FS_RemoveElement
    <3> QED BY <1>3, <3>1
  <2> QED BY <2>1, <2>2
<1> HIDE DEF T
<1>4. \A n \in Nat : n \in T
  BY <1>2, <1>3, NaturalInduction
<1> QED BY <1>1, <1>4 DEF T

-----------------------------------------------------------------------------
(* The sum is defined by a recursion over the subsets.                     *)
Pick(s) == CHOOSE x \in s : TRUE

Unfolds(g, f, S) ==
  g = [s \in SUBSET S |-> IF s = {} THEN 0 ELSE f[Pick(s)] + g[s \ {Pick(s)}]]

LEMMA SumByDefinition ==
  ASSUME NEW f, NEW S
  PROVE  SumFunctionOnSet(f, S) = (CHOOSE g : Unfolds(g, f, S))[S]
  BY DEF SumFunctionOnSet, FoldFunctionOnSet, MapThenFoldSet, Unfolds, Pick

LEMMA PickIsMember == \A s : s # {} => Pick(s) \in s
  BY DEF Pick

LEMMA RecursionDefined ==
  ASSUME NEW f, NEW S, IsFiniteSet(S)
  PROVE  \E g : Unfolds(g, f, S)
<1> DEFINE Upto(n) == {s \in SUBSET S : Cardinality(s) <= n}
           Solves(g, n) == g = [s \in Upto(n) |->
                                  IF s = {} THEN 0 ELSE f[Pick(s)] + g[s \ {Pick(s)}]]
           T == {n \in Nat : \E g : Solves(g, n)}
<1>1. \A s \in SUBSET S :
         IsFiniteSet(s) /\ Cardinality(s) \in Nat /\ Cardinality(s) <= Cardinality(S)
  BY FS_Subset, FS_CardinalityType
<1>2. 0 \in T
  <2>1. \A s \in Upto(0) : s = {}
    BY <1>1, FS_EmptySet
  <2>2. Solves([s \in Upto(0) |-> 0], 0)
    BY <2>1
  <2> QED BY <2>2
<1>3. ASSUME NEW n \in Nat, n \in T
      PROVE  n + 1 \in T
  <2>1. PICK g : Solves(g, n)
    BY <1>3
  <2> DEFINE h == [s \in Upto(n + 1) |-> IF s = {} THEN 0 ELSE f[Pick(s)] + g[s \ {Pick(s)}]]
  <2>2. ASSUME NEW s \in Upto(n + 1), s # {}
        PROVE  h[s \ {Pick(s)}] = g[s \ {Pick(s)}]
    <3> DEFINE r == s \ {Pick(s)}
    <3>1. Pick(s) \in s
      BY <2>2, PickIsMember
    <3>2. r \in Upto(n)
      BY <1>1, <3>1, FS_RemoveElement
    <3>3. r \in Upto(n + 1)
      BY <1>1, <3>2
    <3> HIDE DEF r, Upto
    <3>4. g[r] = IF r = {} THEN 0 ELSE f[Pick(r)] + g[r \ {Pick(r)}]
      BY <2>1, <3>2
    <3>5. h[r] = IF r = {} THEN 0 ELSE f[Pick(r)] + g[r \ {Pick(r)}]
      BY <3>3
    <3> QED BY <3>4, <3>5 DEF r
  <2>3. Solves(h, n + 1)
    <3> HIDE DEF Upto
    <3> QED BY <2>2
  <2> HIDE DEF Solves, h
  <2> QED BY <2>3
<1>4. Cardinality(S) \in T
  <2> HIDE DEF T
  <2>1. Cardinality(S) \in Nat
    BY FS_CardinalityType
  <2> QED BY <1>2, <1>3, <2>1, NaturalInduction
<1>5. Upto(Cardinality(S)) = SUBSET S
  BY <1>1
<1> QED BY <1>4, <1>5 DEF Unfolds

LEMMA RecursionUnique ==
  ASSUME NEW f, NEW S, IsFiniteSet(S), NEW R \in SUBSET S,
         NEW g, Unfolds(g, f, S), NEW h, Unfolds(h, f, R)
  PROVE  \A s \in SUBSET R : g[s] = h[s]
<1> DEFINE P == {s \in SUBSET R : g[s] = h[s]}
<1>1. IsFiniteSet(R)
  BY FS_Subset
<1>2. ASSUME NEW s \in SUBSET R
      PROVE  /\ g[s] = IF s = {} THEN 0 ELSE f[Pick(s)] + g[s \ {Pick(s)}]
             /\ h[s] = IF s = {} THEN 0 ELSE f[Pick(s)] + h[s \ {Pick(s)}]
  BY DEF Unfolds
<1>3. {} \in P
  BY <1>2
<1>4. \A s \in SUBSET R : s # {} /\ s \ {Pick(s)} \in P => s \in P
  BY <1>2
<1>5. \A s \in SUBSET R : s # {} /\ (\A x \in s : s \ {x} \in P) => s \in P
  <2> HIDE DEF P
  <2> QED BY <1>3, <1>4, PickIsMember
<1> HIDE DEF P
<1>6. \A s \in SUBSET R : s \in P
  BY <1>1, <1>3, <1>5, SubsetInduction
<1> QED BY <1>6 DEF P

(* What the definition comes to: a sum is one summand and the rest.        *)
LEMMA SumUnfolds ==
  ASSUME NEW f, NEW S, IsFiniteSet(S)
  PROVE  SumFunctionOnSet(f, S) =
           IF S = {} THEN 0 ELSE f[Pick(S)] + SumFunctionOnSet(f, S \ {Pick(S)})
<1> DEFINE iter == CHOOSE g : Unfolds(g, f, S)
           R == S \ {Pick(S)}
           rest == CHOOSE g : Unfolds(g, f, R)
<1>1. IsFiniteSet(R) /\ R \in SUBSET S
  BY FS_Subset
<1>2. Unfolds(iter, f, S) /\ Unfolds(rest, f, R)
  <2>1. Unfolds(iter, f, S)
    BY RecursionDefined
  <2>2. Unfolds(rest, f, R)
    <3> HIDE DEF R
    <3> QED BY <1>1, RecursionDefined
  <2> QED BY <2>1, <2>2
<1>3. SumFunctionOnSet(f, S) = iter[S] /\ SumFunctionOnSet(f, R) = rest[R]
  BY SumByDefinition
<1> HIDE DEF iter, rest
<1>4. iter[S] = IF S = {} THEN 0 ELSE f[Pick(S)] + iter[R]
  BY <1>2 DEF Unfolds
<1>5. iter[R] = rest[R]
  <2> HIDE DEF R
  <2> QED BY <1>1, <1>2, RecursionUnique
<1> QED BY <1>3, <1>4, <1>5

-----------------------------------------------------------------------------
LEMMA SumIsInteger ==
  ASSUME NEW f, NEW S, IsFiniteSet(S), \A x \in S : f[x] \in Int
  PROVE  \A s \in SUBSET S : SumFunctionOnSet(f, s) \in Int
<1> DEFINE Sum(s) == SumFunctionOnSet(f, s)
           P == {s \in SUBSET S : Sum(s) \in Int}
<1>1. ASSUME NEW s \in SUBSET S
      PROVE  Sum(s) = IF s = {} THEN 0 ELSE f[Pick(s)] + Sum(s \ {Pick(s)})
  BY FS_Subset, SumUnfolds
<1> HIDE DEF Sum
<1>2. {} \in P
  <2>1. {} \in SUBSET S
    OBVIOUS
  <2>2. Sum({}) = 0
    BY <1>1, <2>1
  <2> QED BY <2>1, <2>2
<1>3. ASSUME NEW s \in SUBSET S, s # {}, \A x \in s : s \ {x} \in P
      PROVE  s \in P
  <2>1. Pick(s) \in s
    BY <1>3, PickIsMember
  <2>2. s \ {Pick(s)} \in P
    BY <1>3, <2>1
  <2> QED BY <1>1, <1>3, <2>1, <2>2
<1> HIDE DEF P
<1>4. \A s \in SUBSET S : s \in P
  BY <1>2, <1>3, SubsetInduction
<1> QED BY <1>4 DEF P, Sum

(* Any summand may be taken out first.                                     *)
LEMMA SumRemove ==
  ASSUME NEW f, NEW S, IsFiniteSet(S), \A x \in S : f[x] \in Int
  PROVE  \A x \in S : SumFunctionOnSet(f, S) = f[x] + SumFunctionOnSet(f, S \ {x})
<1> DEFINE Sum(s) == SumFunctionOnSet(f, s)
           P == {s \in SUBSET S : \A x \in s : Sum(s) = f[x] + Sum(s \ {x})}
<1>0. \A s \in SUBSET S : Sum(s) \in Int
  BY SumIsInteger
<1>1. ASSUME NEW s \in SUBSET S
      PROVE  Sum(s) = IF s = {} THEN 0 ELSE f[Pick(s)] + Sum(s \ {Pick(s)})
  BY FS_Subset, SumUnfolds
<1> HIDE DEF Sum
<1>2. {} \in P
  BY <1>1
<1>3. ASSUME NEW s \in SUBSET S, s # {}, \A x \in s : s \ {x} \in P
      PROVE  s \in P
  <2> DEFINE p == Pick(s)
  <2>1. p \in s
    BY <1>3, PickIsMember
  <2>2. Sum(s) = f[p] + Sum(s \ {p})
    BY <1>1, <1>3
  <2> HIDE DEF p
  <2>4. ASSUME NEW x \in s, x # p
        PROVE  Sum(s) = f[x] + Sum(s \ {x})
    <3> DEFINE t == (s \ {p}) \ {x}
    <3>1. Sum(s \ {p}) = f[x] + Sum(t)
      BY <1>3, <2>1, <2>4
    <3>2. t = (s \ {x}) \ {p}
      OBVIOUS
    <3> HIDE DEF t
    <3>3. Sum(s \ {x}) = f[p] + Sum(t)
      BY <1>3, <2>1, <2>4, <3>2
    <3>4. f[x] \in Int /\ f[p] \in Int
      BY <2>1
    <3>5. Sum(t) \in Int
      BY <1>0, <3>2
    <3> QED BY <2>2, <3>1, <3>3, <3>4, <3>5
  <2> QED BY <2>2, <2>4
<1> HIDE DEF P
<1>4. \A s \in SUBSET S : s \in P
  BY <1>2, <1>3, SubsetInduction
<1> QED BY <1>4 DEF P, Sum

LEMMA SumOfNone == \A f : SumFunctionOnSet(f, {}) = 0
  BY FS_EmptySet, SumUnfolds

(* A sum depends on the summands of its set only.                          *)
LEMMA SumAgrees ==
  ASSUME NEW S, IsFiniteSet(S), NEW f, NEW g,
         \A x \in S : f[x] \in Int /\ g[x] = f[x]
  PROVE  SumFunctionOnSet(g, S) = SumFunctionOnSet(f, S)
<1> DEFINE P == {s \in SUBSET S : SumFunctionOnSet(g, s) = SumFunctionOnSet(f, s)}
<1>1. ASSUME NEW s \in SUBSET S, s # {}, \A x \in s : s \ {x} \in P
      PROVE  s \in P
  <2>1. IsFiniteSet(s) /\ \A x \in s : f[x] \in Int /\ g[x] \in Int
    BY FS_Subset
  <2>2. PICK x \in s : TRUE
    BY <1>1
  <2>3. SumFunctionOnSet(f, s) = f[x] + SumFunctionOnSet(f, s \ {x})
    BY <2>1, SumRemove
  <2>4. SumFunctionOnSet(g, s) = g[x] + SumFunctionOnSet(g, s \ {x})
    BY <2>1, SumRemove
  <2> QED BY <1>1, <2>3, <2>4
<1>2. {} \in P
  BY SumOfNone
<1> HIDE DEF P
<1>3. \A s \in SUBSET S : s \in P
  BY <1>1, <1>2, SubsetInduction
<1> QED BY <1>3 DEF P

(* Two functions that differ at one point only.                            *)
LEMMA SumChanges ==
  ASSUME NEW S, IsFiniteSet(S), NEW f, NEW g, NEW a \in S,
         \A x \in S : f[x] \in Int /\ g[x] \in Int,
         \A x \in S \ {a} : g[x] = f[x]
  PROVE  SumFunctionOnSet(g, S) = SumFunctionOnSet(f, S) + (g[a] - f[a])
<1> DEFINE R == S \ {a}
<1>1. IsFiniteSet(R)
  BY FS_Subset
<1>2. SumFunctionOnSet(g, R) = SumFunctionOnSet(f, R)
  BY <1>1, SumAgrees
<1>3. SumFunctionOnSet(f, R) \in Int
  BY SumIsInteger
<1>4. /\ SumFunctionOnSet(f, S) = f[a] + SumFunctionOnSet(f, R)
      /\ SumFunctionOnSet(g, S) = g[a] + SumFunctionOnSet(g, R)
  BY SumRemove
<1> HIDE DEF R
<1> QED BY <1>2, <1>3, <1>4

LEMMA SumIsMonotone ==
  ASSUME NEW S, IsFiniteSet(S), NEW f, NEW g,
         \A x \in S : f[x] \in Int /\ g[x] \in Int /\ f[x] <= g[x]
  PROVE  SumFunctionOnSet(f, S) <= SumFunctionOnSet(g, S)
<1> DEFINE P == {s \in SUBSET S : SumFunctionOnSet(f, s) <= SumFunctionOnSet(g, s)}
<1>1. ASSUME NEW s \in SUBSET S, s # {}, \A x \in s : s \ {x} \in P
      PROVE  s \in P
  <2>1. IsFiniteSet(s) /\ \A x \in s : f[x] \in Int /\ g[x] \in Int /\ f[x] <= g[x]
    BY FS_Subset
  <2>2. PICK x \in s : TRUE
    BY <1>1
  <2>3. SumFunctionOnSet(f, s) = f[x] + SumFunctionOnSet(f, s \ {x})
    BY <2>1, SumRemove
  <2>4. SumFunctionOnSet(g, s) = g[x] + SumFunctionOnSet(g, s \ {x})
    BY <2>1, SumRemove
  <2>5. SumFunctionOnSet(f, s \ {x}) \in Int /\ SumFunctionOnSet(g, s \ {x}) \in Int
    BY SumIsInteger
  <2> QED BY <1>1, <2>1, <2>3, <2>4, <2>5
<1>2. {} \in P
  BY SumOfNone
<1> HIDE DEF P
<1>3. \A s \in SUBSET S : s \in P
  BY <1>1, <1>2, SubsetInduction
<1> QED BY <1>3 DEF P

LEMMA SumOfZeros ==
  ASSUME NEW S, IsFiniteSet(S), NEW f, \A x \in S : f[x] = 0
  PROVE  SumFunctionOnSet(f, S) = 0
<1> DEFINE P == {s \in SUBSET S : SumFunctionOnSet(f, s) = 0}
<1>1. ASSUME NEW s \in SUBSET S, s # {}, \A x \in s : s \ {x} \in P
      PROVE  s \in P
  <2>1. IsFiniteSet(s) /\ \A x \in s : f[x] \in Int
    BY FS_Subset
  <2>2. PICK x \in s : TRUE
    BY <1>1
  <2>3. SumFunctionOnSet(f, s) = f[x] + SumFunctionOnSet(f, s \ {x})
    BY <2>1, SumRemove
  <2> QED BY <1>1, <2>3
<1>2. {} \in P
  BY SumOfNone
<1> HIDE DEF P
<1>3. \A s \in SUBSET S : s \in P
  BY <1>1, <1>2, SubsetInduction
<1> QED BY <1>3 DEF P

(* Every summand is a part of the sum.                                     *)
LEMMA SumIsNatural ==
  ASSUME NEW S, IsFiniteSet(S), NEW f, \A x \in S : f[x] \in Nat
  PROVE  /\ SumFunctionOnSet(f, S) \in Nat
         /\ \A a \in S : f[a] <= SumFunctionOnSet(f, S)
<1>1. ASSUME NEW R \in SUBSET S
      PROVE  SumFunctionOnSet(f, R) \in Nat
  <2> DEFINE zero == [x \in R |-> 0]
  <2>1. IsFiniteSet(R)
    BY FS_Subset
  <2>2. SumFunctionOnSet(zero, R) = 0
    BY <2>1, SumOfZeros
  <2>3. SumFunctionOnSet(zero, R) <= SumFunctionOnSet(f, R)
    BY <2>1, SumIsMonotone
  <2>4. SumFunctionOnSet(f, R) \in Int
    BY <2>1, SumIsInteger
  <2> HIDE DEF zero
  <2> QED BY <2>2, <2>3, <2>4
<1>2. ASSUME NEW a \in S
      PROVE  f[a] <= SumFunctionOnSet(f, S)
  <2>1. SumFunctionOnSet(f, S) = f[a] + SumFunctionOnSet(f, S \ {a})
    BY SumRemove
  <2> QED BY <1>1, <2>1
<1> QED BY <1>1, <1>2

(* A sum over two parts is the sum of theirs.                              *)
LEMMA SumSplit ==
  ASSUME NEW S, IsFiniteSet(S), NEW f, \A x \in S : f[x] \in Int, NEW R
  PROVE  SumFunctionOnSet(f, S) = SumFunctionOnSet(f, S \cap R) + SumFunctionOnSet(f, S \ R)
<1> DEFINE Sum(s) == SumFunctionOnSet(f, s)
           P == {s \in SUBSET S : Sum(s) = Sum(s \cap R) + Sum(s \ R)}
<1>0. \A s \in SUBSET S : Sum(s) \in Int
  BY SumIsInteger
<1>1. ASSUME NEW s \in SUBSET S
      PROVE  \A x \in s : Sum(s) = f[x] + Sum(s \ {x})
  <2>1. IsFiniteSet(s) /\ \A x \in s : f[x] \in Int
    BY FS_Subset
  <2> QED BY <2>1, SumRemove
<1>2. Sum({}) = 0
  BY SumOfNone
<1> HIDE DEF Sum
<1>3. {} \in P
  <2>1. {} \cap R = {} /\ {} \ R = {}
    OBVIOUS
  <2> QED BY <1>2, <2>1
<1>4. ASSUME NEW s \in SUBSET S, s # {}, \A x \in s : s \ {x} \in P
      PROVE  s \in P
  <2>1. PICK x \in s : TRUE
    BY <1>4
  <2> DEFINE t == s \ {x}
  <2>2. /\ Sum(s) = f[x] + Sum(t)
        /\ Sum(t) = Sum(t \cap R) + Sum(t \ R)
        /\ f[x] \in Int
    BY <1>1, <1>4
  <2>3. CASE x \in R
    <3>1. s \ R = t \ R /\ (s \cap R) \ {x} = t \cap R /\ x \in s \cap R
      BY <2>3
    <3>2. Sum(s \cap R) = f[x] + Sum(t \cap R)
      BY <1>1, <3>1
    <3>3. Sum(t \cap R) \in Int /\ Sum(t \ R) \in Int
      BY <1>0
    <3> HIDE DEF t
    <3>4. Sum(s \ R) = Sum(t \ R)
      BY <3>1, Zenon
    <3>5. Sum(s) = Sum(s \cap R) + Sum(s \ R)
      BY <2>2, <3>2, <3>3, <3>4
    <3> QED BY <3>5
  <2>4. CASE x \notin R
    <3>1. s \cap R = t \cap R /\ (s \ R) \ {x} = t \ R /\ x \in s \ R
      BY <2>4
    <3>2. Sum(s \ R) = f[x] + Sum(t \ R)
      BY <1>1, <3>1
    <3>3. Sum(t \cap R) \in Int /\ Sum(t \ R) \in Int
      BY <1>0
    <3> HIDE DEF t
    <3>4. Sum(s \cap R) = Sum(t \cap R)
      BY <3>1, Zenon
    <3>5. Sum(s) = Sum(s \cap R) + Sum(s \ R)
      BY <2>2, <3>2, <3>3, <3>4
    <3> QED BY <3>5
  <2> QED BY <2>3, <2>4
<1> HIDE DEF P
<1>5. \A s \in SUBSET S : s \in P
  BY <1>3, <1>4, SubsetInduction
<1> QED BY <1>5 DEF P, Sum

(* Taking members of a set one by one from another set: the sum is the same. *)
LEMMA SumOfImage ==
  ASSUME NEW D, IsFiniteSet(D), NEW h, \A x, y \in D : h[x] = h[y] => x = y,
         NEW f, NEW g, \A x \in D : g[x] \in Int /\ f[h[x]] = g[x]
  PROVE  SumFunctionOnSet(f, {h[x] : x \in D}) = SumFunctionOnSet(g, D)
<1> DEFINE Image(s) == {h[x] : x \in s}
           P == {s \in SUBSET D : SumFunctionOnSet(f, Image(s)) = SumFunctionOnSet(g, s)}
<1>1. {} \in P
  <2>1. Image({}) = {}
    OBVIOUS
  <2> QED BY <2>1, SumOfNone
<1>2. ASSUME NEW s \in SUBSET D, s # {}, \A x \in s : s \ {x} \in P
      PROVE  s \in P
  <2>1. PICK x \in s : TRUE
    BY <1>2
  <2> DEFINE T == Image(s)
             U == Image(s \ {x})
  <2>2. /\ IsFiniteSet(s) /\ \A y \in s : g[y] \in Int
        /\ IsFiniteSet(T) /\ \A z \in T : f[z] \in Int
    <3>1. IsFiniteSet(s)
      BY FS_Subset
    <3>2. [y \in s |-> h[y]] \in Surjection(s, T)
      BY DEF Surjection
    <3>3. IsFiniteSet(T)
      BY <3>1, <3>2, FS_Surjection
    <3> QED BY <3>1, <3>3
  <2>3. SumFunctionOnSet(g, s) = g[x] + SumFunctionOnSet(g, s \ {x})
    BY <2>2, SumRemove
  <2>4. h[x] \in T /\ T \ {h[x]} = U
    OBVIOUS
  <2>5. SumFunctionOnSet(f, U) = SumFunctionOnSet(g, s \ {x})
    BY <1>2
  <2>6. f[h[x]] = g[x]
    OBVIOUS
  <2>7. SumFunctionOnSet(f, T) = SumFunctionOnSet(g, s)
    <3> HIDE DEF T, U
    <3>1. SumFunctionOnSet(f, T) = f[h[x]] + SumFunctionOnSet(f, T \ {h[x]})
      BY <2>2, <2>4, SumRemove
    <3> QED BY <2>3, <2>4, <2>5, <2>6, <3>1
  <2> QED BY <2>7
<1> HIDE DEF P
<1>3. \A s \in SUBSET D : s \in P
  BY <1>1, <1>2, SubsetInduction
<1> QED BY <1>3 DEF P
=============================================================================
