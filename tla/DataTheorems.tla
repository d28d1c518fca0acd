------------------------------ MODULE DataTheorems -----------------------------
(***************************************************************************)
(* Induction over data, and what it gives about sums: the sums of finite   *)
(* sets as SumFunctionOnSet of the community module Functions computes     *)
(* them.  A set takes the place of the predicate of an induction: that the *)
(* naturals are well founded under < speaks of a relation, so the provers  *)
(* can use it.                                                             *)
(***************************************************************************)
EXTENDS Integers, Sequences, FiniteSets, SequencesExt, Functions, FiniteSetTheorems, WellFoundedInduction, TLAPS

(* A set of naturals has a least element.                                   *)
LEMMA LeastElement ==
    ASSUME NEW T, T \subseteq Nat, T # {}
    PROVE  \E x \in T : \A y \in T : x <= y
<1> DEFINE R == {pair \in Nat \X Nat : pair[1] < pair[2]}
<1>1. IsWellFoundedOn(R, Nat)
  BY NatLessThanWellFounded DEF OpToRel
<1>2. PICK x \in T : \A y \in T : <<y, x>> \notin R
  <2> HIDE DEF R
  <2> QED BY <1>1, WFMin
<1>3. ASSUME NEW y \in T PROVE x <= y
  <2>1. <<y, x>> \notin R /\ x \in Nat /\ y \in Nat
    BY <1>2
  <2> QED BY <2>1
<1> HIDE DEF R
<1> QED BY <1>3

(* Induction over the naturals.                                             *)
LEMMA SetOfNaturals ==
    ASSUME NEW S, 0 \in S, \A n \in Nat : n \in S => n + 1 \in S
    PROVE  Nat \subseteq S
<1> SUFFICES ASSUME NEW n \in Nat, n \notin S PROVE FALSE
  OBVIOUS
<1> DEFINE T == Nat \ S
<1>1. T \subseteq Nat /\ T # {}
  OBVIOUS
<1>2. PICK x \in T : \A y \in T : x <= y
  <2> HIDE DEF T
  <2> QED BY <1>1, LeastElement
<1>3. x # 0 /\ x - 1 \in Nat /\ x - 1 \notin T
  BY <1>2
<1> QED BY <1>2, <1>3

(* Induction over the subsets of a finite set: a family that has the empty  *)
(* set and grows by any element has the whole set.                          *)
LEMMA FamilyOfSubsets ==
    ASSUME NEW S, IsFiniteSet(S), NEW Q, {} \in Q,
           \A T \in SUBSET S : \A x \in S \ T : T \in Q => T \cup {x} \in Q
    PROVE  \A T \in SUBSET S : T \in Q
<1> DEFINE N == {n \in Nat : \A T \in SUBSET S : Cardinality(T) = n => T \in Q}
<1>0. \A T \in SUBSET S : IsFiniteSet(T) /\ Cardinality(T) \in Nat
  BY FS_Subset, FS_CardinalityType
<1>1. 0 \in N
  BY <1>0, FS_EmptySet
<1>2. ASSUME NEW n \in Nat, n \in N
      PROVE  n + 1 \in N
  <2> SUFFICES ASSUME NEW T \in SUBSET S, Cardinality(T) = n + 1
               PROVE  T \in Q
    OBVIOUS
  <2>1. PICK x \in T : TRUE
    BY <1>0, FS_EmptySet
  <2>2. Cardinality(T \ {x}) = n
    <3>1. IsFiniteSet(T) /\ x \in T
      BY <1>0, <2>1
    <3>2. Cardinality(T \ {x}) = Cardinality(T) - 1
      BY <3>1, FS_RemoveElement
    <3> QED BY <3>2
  <2>3. T \ {x} \in Q
    BY <1>2, <2>2
  <2>4. (T \ {x}) \cup {x} = T
    BY <2>1
  <2>5. (T \ {x}) \cup {x} \in Q
    BY <2>1, <2>3
  <2> QED BY <2>4, <2>5
<1>3. Nat \subseteq N
  <2> HIDE DEF N
  <2> QED BY <1>1, <1>2, SetOfNaturals
<1> QED BY <1>0, <1>3

(* The image of a finite set under a function.                              *)
LEMMA ImageIsFinite ==
    ASSUME NEW S, IsFiniteSet(S), NEW f
    PROVE  IsFiniteSet({f[x] : x \in S})
<1> DEFINE g == [x \in S |-> f[x]]
           T == {f[x] : x \in S}
<1>1. g \in Surjection(S, T)
  BY DEF Surjection
<1> HIDE DEF g, T
<1>2. IsFiniteSet(T)
  BY <1>1, FS_Surjection
<1> QED BY <1>2 DEF T

-----------------------------------------------------------------------------
(***************************************************************************)
(* The recursive function behind a sum.                                    *)
(***************************************************************************)
AnyOf(s) == CHOOSE x \in s : TRUE
Peeled(f, it, s) == IF s = {} THEN 0 ELSE f[AnyOf(s)] + it[s \ {AnyOf(s)}]
IsSum(f, S, it) == it = [s \in SUBSET S |-> Peeled(f, it, s)]

LEMMA SumIsChosen ==
    ASSUME NEW f, NEW S
    PROVE  SumFunctionOnSet(f, S) = (CHOOSE it : IsSum(f, S, it))[S]
BY DEF SumFunctionOnSet, FoldFunctionOnSet, MapThenFoldSet, IsSum, Peeled, AnyOf

(* There is such a function on the subsets of a finite set: one on the      *)
(* subsets of n elements gives one on those of n + 1.                       *)
LEMMA SumExists ==
    ASSUME NEW f, NEW S, IsFiniteSet(S)
    PROVE  \E it : IsSum(f, S, it)
<1> DEFINE Upto(n) == {s \in SUBSET S : Cardinality(s) <= n}
           Good(it, n) == it = [s \in Upto(n) |-> Peeled(f, it, s)]
           N == {n \in Nat : \E it : Good(it, n)}
<1>0. \A s \in SUBSET S : IsFiniteSet(s) /\ Cardinality(s) \in Nat /\ Cardinality(s) <= Cardinality(S)
  BY FS_Subset, FS_CardinalityType
<1>1. \A s \in SUBSET S : s # {} => /\ AnyOf(s) \in s
                                   /\ Cardinality(s \ {AnyOf(s)}) = Cardinality(s) - 1
  <2> SUFFICES ASSUME NEW s \in SUBSET S, s # {}
               PROVE  AnyOf(s) \in s /\ Cardinality(s \ {AnyOf(s)}) = Cardinality(s) - 1
    OBVIOUS
  <2>1. AnyOf(s) \in s
    BY DEF AnyOf
  <2>2. IsFiniteSet(s)
    BY <1>0
  <2> QED BY <2>1, <2>2, FS_RemoveElement
<1>2. 0 \in N
  <2> DEFINE it == [s \in Upto(0) |-> 0]
  <2>1. \A s \in Upto(0) : s = {}
    BY <1>0, FS_EmptySet
  <2>2. \A s \in Upto(0) : Peeled(f, it, s) = 0
    BY <2>1 DEF Peeled
  <2>3. Good(it, 0)
    BY <2>2
  <2> QED BY <2>3
<1>3. ASSUME NEW n \in Nat, n \in N
      PROVE  n + 1 \in N
  <2>1. PICK g : Good(g, n)
    BY <1>3
  <2> DEFINE it == [s \in Upto(n + 1) |-> Peeled(f, g, s)]
  <2>2. \A s \in Upto(n) : s \in Upto(n + 1) /\ it[s] = g[s]
    <3>1. \A s \in Upto(n) : s \in Upto(n + 1)
      BY <1>0
    <3>2. \A s \in Upto(n) : g[s] = Peeled(f, g, s)
      BY <2>1
    <3> QED BY <3>1, <3>2
  <2>3. ASSUME NEW s \in Upto(n + 1)
        PROVE  Peeled(f, it, s) = Peeled(f, g, s)
    <3>1. CASE s = {}
      BY <3>1 DEF Peeled
    <3>2. CASE s # {}
      <4>1. s \ {AnyOf(s)} \in Upto(n)
        BY <1>0, <1>1, <3>2
      <4>2. it[s \ {AnyOf(s)}] = g[s \ {AnyOf(s)}]
        BY <2>2, <4>1
      <4> HIDE DEF it
      <4> QED BY <3>2, <4>2 DEF Peeled
    <3> QED BY <3>1, <3>2
  <2>4. Good(it, n + 1)
    BY <2>3
  <2> HIDE DEF Good, it
  <2>5. \E h : Good(h, n + 1)
    BY <2>4
  <2> QED BY <2>5
<1>4. Nat \subseteq N
  <2> HIDE DEF N
  <2> QED BY <1>2, <1>3, SetOfNaturals
<1>5. PICK it : Good(it, Cardinality(S))
  BY <1>0, <1>4
<1>6. Upto(Cardinality(S)) = SUBSET S
  BY <1>0
<1> QED BY <1>5, <1>6 DEF IsSum

(* The functions of two finite sets agree on what is a subset of both.      *)
LEMMA SumsAgree ==
    ASSUME NEW f, NEW g, NEW S, IsFiniteSet(S), NEW T, IsFiniteSet(T), NEW U, U \subseteq S \cap T,
           \A x \in U : f[x] = g[x], NEW it, NEW jt, IsSum(f, S, it), IsSum(g, T, jt)
    PROVE  it[U] = jt[U]
<1> DEFINE N == {n \in Nat : \A s \in SUBSET U : Cardinality(s) = n => it[s] = jt[s]}
<1>0. IsFiniteSet(U)
  BY FS_Subset
<1>1. \A s \in SUBSET U : IsFiniteSet(s) /\ Cardinality(s) \in Nat
  BY <1>0, FS_Subset, FS_CardinalityType
<1>2. \A s \in SUBSET U : it[s] = Peeled(f, it, s) /\ jt[s] = Peeled(g, jt, s)
  BY DEF IsSum
<1>3. 0 \in N
  <2> SUFFICES ASSUME NEW s \in SUBSET U, Cardinality(s) = 0 PROVE it[s] = jt[s]
    OBVIOUS
  <2>1. s = {}
    BY <1>1, FS_EmptySet
  <2> QED BY <1>2, <2>1 DEF Peeled
<1>4. ASSUME NEW n \in Nat, n \in N
      PROVE  n + 1 \in N
  <2> SUFFICES ASSUME NEW s \in SUBSET U, Cardinality(s) = n + 1 PROVE it[s] = jt[s]
    OBVIOUS
  <2>1. s # {}
    BY FS_EmptySet
  <2>2. AnyOf(s) \in s
    BY <2>1 DEF AnyOf
  <2>3. Cardinality(s \ {AnyOf(s)}) = n
    <3>1. IsFiniteSet(s)
      BY <1>1
    <3>2. Cardinality(s \ {AnyOf(s)}) = Cardinality(s) - 1
      BY <2>2, <3>1, FS_RemoveElement
    <3> QED BY <3>2
  <2>4. it[s \ {AnyOf(s)}] = jt[s \ {AnyOf(s)}]
    BY <1>4, <2>3
  <2> QED BY <1>2, <2>1, <2>2, <2>4 DEF Peeled
<1>5. Nat \subseteq N
  <2> HIDE DEF N
  <2> QED BY <1>3, <1>4, SetOfNaturals
<1> QED BY <1>1, <1>5

(* Sums of functions that agree on a set.                                   *)
LEMMA SumCongruence ==
    ASSUME NEW f, NEW g, NEW S, IsFiniteSet(S), \A x \in S : f[x] = g[x]
    PROVE  SumFunctionOnSet(f, S) = SumFunctionOnSet(g, S)
<1> DEFINE it == CHOOSE h : IsSum(f, S, h)
           jt == CHOOSE h : IsSum(g, S, h)
<1>1. IsSum(f, S, it) /\ IsSum(g, S, jt)
  BY SumExists
<1>2. SumFunctionOnSet(f, S) = it[S] /\ SumFunctionOnSet(g, S) = jt[S]
  BY SumIsChosen
<1> HIDE DEF it, jt
<1>3. it[S] = jt[S]
  BY <1>1, SumsAgree
<1> QED BY <1>2, <1>3

LEMMA SumOfNone ==
    ASSUME NEW f
    PROVE  SumFunctionOnSet(f, {}) = 0
<1>1. IsSum(f, {}, CHOOSE it : IsSum(f, {}, it))
  BY SumExists, FS_EmptySet
<1>2. (CHOOSE it : IsSum(f, {}, it))[{}] = 0
  BY <1>1 DEF IsSum, Peeled
<1> QED BY <1>2, SumIsChosen

(* The element the sum takes first.                                         *)
LEMMA SumPeels ==
    ASSUME NEW f, NEW S, IsFiniteSet(S), S # {}
    PROVE  /\ AnyOf(S) \in S
           /\ SumFunctionOnSet(f, S) = f[AnyOf(S)] + SumFunctionOnSet(f, S \ {AnyOf(S)})
<1> DEFINE T == S \ {AnyOf(S)}
           it == CHOOSE h : IsSum(f, S, h)
           jt == CHOOSE h : IsSum(f, T, h)
<1>1. AnyOf(S) \in S
  BY DEF AnyOf
<1>2. IsFiniteSet(T)
  BY FS_RemoveElement
<1>3. IsSum(f, S, it) /\ IsSum(f, T, jt)
  BY <1>2, SumExists
<1>4. SumFunctionOnSet(f, S) = it[S] /\ SumFunctionOnSet(f, T) = jt[T]
  BY SumIsChosen
<1> HIDE DEF it, jt
<1>5. it[T] = jt[T]
  BY <1>2, <1>3, SumsAgree
<1>6. it[S] = f[AnyOf(S)] + it[T]
  BY <1>3 DEF IsSum, Peeled
<1> QED BY <1>1, <1>4, <1>5, <1>6

LEMMA SumType ==
    ASSUME NEW f, NEW S, IsFiniteSet(S), \A x \in S : f[x] \in Int
    PROVE  SumFunctionOnSet(f, S) \in Int
<1> DEFINE N == {n \in Nat : \A s \in SUBSET S : Cardinality(s) = n => SumFunctionOnSet(f, s) \in Int}
<1>1. \A s \in SUBSET S : IsFiniteSet(s) /\ Cardinality(s) \in Nat
  BY FS_Subset, FS_CardinalityType
<1>2. 0 \in N
  <2> SUFFICES ASSUME NEW s \in SUBSET S, Cardinality(s) = 0 PROVE SumFunctionOnSet(f, s) \in Int
    OBVIOUS
  <2>1. s = {}
    BY <1>1, FS_EmptySet
  <2> QED BY <2>1, SumOfNone
<1>3. ASSUME NEW n \in Nat, n \in N
      PROVE  n + 1 \in N
  <2> SUFFICES ASSUME NEW s \in SUBSET S, Cardinality(s) = n + 1 PROVE SumFunctionOnSet(f, s) \in Int
    OBVIOUS
  <2>1. IsFiniteSet(s) /\ s # {}
    BY <1>1, FS_EmptySet
  <2>2. /\ AnyOf(s) \in s
        /\ SumFunctionOnSet(f, s) = f[AnyOf(s)] + SumFunctionOnSet(f, s \ {AnyOf(s)})
    BY <2>1, SumPeels
  <2>3. Cardinality(s \ {AnyOf(s)}) = Cardinality(s) - 1
    BY <2>1, <2>2, FS_RemoveElement
  <2>4. SumFunctionOnSet(f, s \ {AnyOf(s)}) \in Int
    BY <1>3, <2>3
  <2> QED BY <2>2, <2>4
<1>4. Nat \subseteq N
  <2> HIDE DEF N
  <2> QED BY <1>2, <1>3, SetOfNaturals
<1> QED BY <1>1, <1>4

(* AnyOf element can be taken out of a sum.                                   *)
THEOREM SumTakesOut ==
    ASSUME NEW f, NEW S, IsFiniteSet(S), \A x \in S : f[x] \in Int, NEW e \in S
    PROVE  SumFunctionOnSet(f, S) = f[e] + SumFunctionOnSet(f, S \ {e})
<1> DEFINE Out(s) == \A x \in s : SumFunctionOnSet(f, s) = f[x] + SumFunctionOnSet(f, s \ {x})
           N == {n \in Nat : \A s \in SUBSET S : Cardinality(s) = n => Out(s)}
<1>1. \A s \in SUBSET S : /\ IsFiniteSet(s) /\ Cardinality(s) \in Nat
                          /\ SumFunctionOnSet(f, s) \in Int
  BY FS_Subset, FS_CardinalityType, SumType
<1>2. 0 \in N
  BY <1>1, FS_EmptySet
<1>3. ASSUME NEW n \in Nat, n \in N
      PROVE  n + 1 \in N
  <2> SUFFICES ASSUME NEW s \in SUBSET S, Cardinality(s) = n + 1, NEW x \in s
               PROVE  SumFunctionOnSet(f, s) = f[x] + SumFunctionOnSet(f, s \ {x})
    OBVIOUS
  <2>0. IsFiniteSet(s) /\ s # {}
    BY <1>1
  <2> DEFINE a == AnyOf(s)
             u == s \ {a}
             v == s \ {x}
             w == (s \ {a}) \ {x}
  <2>1. a \in s /\ SumFunctionOnSet(f, s) = f[a] + SumFunctionOnSet(f, u)
    BY <2>0, SumPeels
  <2> HIDE DEF a
  <2>2. CASE x = a
    BY <2>1, <2>2
  <2>3. CASE x # a
    <3>1. /\ u \in SUBSET S /\ v \in SUBSET S /\ w \in SUBSET S
          /\ x \in u /\ a \in v /\ v \ {a} = w
          /\ f[x] \in Int /\ f[a] \in Int
      BY <2>1, <2>3
    <3>2. Cardinality(u) = n /\ Cardinality(v) = n
      <4>1. Cardinality(u) = Cardinality(s) - 1 /\ Cardinality(v) = Cardinality(s) - 1
        BY <2>0, <2>1, FS_RemoveElement
      <4> QED BY <4>1
    <3>3. Out(u) /\ Out(v)
      BY <1>3, <3>1, <3>2
    <3>4. /\ SumFunctionOnSet(f, u) = f[x] + SumFunctionOnSet(f, w)
          /\ SumFunctionOnSet(f, v) = f[a] + SumFunctionOnSet(f, w)
      BY <3>1, <3>3
    <3>5. SumFunctionOnSet(f, w) \in Int
      BY <1>1, <3>1
    <3> HIDE DEF u, v, w
    <3> QED BY <2>1, <3>1, <3>4, <3>5 DEF v
  <2> QED BY <2>2, <2>3
<1>4. Nat \subseteq N
  <2> HIDE DEF N
  <2> QED BY <1>2, <1>3, SetOfNaturals
<1> QED BY <1>1, <1>4

(* Adding an element.                                                       *)
THEOREM SumAdds ==
    ASSUME NEW f, NEW S, IsFiniteSet(S), NEW e, e \notin S, \A x \in S \cup {e} : f[x] \in Int
    PROVE  SumFunctionOnSet(f, S \cup {e}) = SumFunctionOnSet(f, S) + f[e]
<1>1. IsFiniteSet(S \cup {e}) /\ (S \cup {e}) \ {e} = S
  BY FS_AddElement
<1>2. SumFunctionOnSet(f, S \cup {e}) = f[e] + SumFunctionOnSet(f, S)
  BY <1>1, SumTakesOut
<1>3. SumFunctionOnSet(f, S) \in Int
  BY SumType
<1> QED BY <1>2, <1>3

(* The sum over two sets without a common element.                          *)
THEOREM SumOverUnion ==
    ASSUME NEW f, NEW S, IsFiniteSet(S), NEW T, IsFiniteSet(T), S \cap T = {},
           \A x \in S \cup T : f[x] \in Int
    PROVE  SumFunctionOnSet(f, S \cup T) = SumFunctionOnSet(f, S) + SumFunctionOnSet(f, T)
<1> DEFINE Q == {U \in SUBSET T : SumFunctionOnSet(f, S \cup U)
                                   = SumFunctionOnSet(f, S) + SumFunctionOnSet(f, U)}
<1>0. \A U \in SUBSET T : /\ IsFiniteSet(U) /\ IsFiniteSet(S \cup U)
                          /\ SumFunctionOnSet(f, U) \in Int
                          /\ SumFunctionOnSet(f, S) \in Int
  BY FS_Subset, FS_Union, SumType
<1>1. {} \in Q
  <2>1. S \cup {} = S
    OBVIOUS
  <2>2. SumFunctionOnSet(f, S \cup {}) = SumFunctionOnSet(f, S)
    BY <2>1
  <2>3. SumFunctionOnSet(f, {}) = 0
    BY SumOfNone
  <2>4. SumFunctionOnSet(f, S \cup {}) = SumFunctionOnSet(f, S) + SumFunctionOnSet(f, {})
    BY <1>0, <2>2, <2>3
  <2> QED BY <2>4
<1>2. ASSUME NEW U \in SUBSET T, NEW x \in T \ U, U \in Q
      PROVE  U \cup {x} \in Q
  <2>1. SumFunctionOnSet(f, U \cup {x}) = SumFunctionOnSet(f, U) + f[x]
    BY <1>0, SumAdds
  <2>2. SumFunctionOnSet(f, (S \cup U) \cup {x}) = SumFunctionOnSet(f, S \cup U) + f[x]
    BY <1>0, SumAdds
  <2>3. (S \cup U) \cup {x} = S \cup (U \cup {x})
    OBVIOUS
  <2>4. f[x] \in Int
    OBVIOUS
  <2>5. SumFunctionOnSet(f, S \cup (U \cup {x})) = SumFunctionOnSet(f, S \cup U) + f[x]
    BY <2>2, <2>3
  <2>6. SumFunctionOnSet(f, S \cup U) = SumFunctionOnSet(f, S) + SumFunctionOnSet(f, U)
    BY <1>2
  <2>7. SumFunctionOnSet(f, S \cup (U \cup {x}))
            = SumFunctionOnSet(f, S) + SumFunctionOnSet(f, U \cup {x})
    <3>1. SumFunctionOnSet(f, U) \in Int /\ SumFunctionOnSet(f, S) \in Int
      BY <1>0
    <3>2. \A a, b, c \in Int : (a + b) + c = a + (b + c)
      OBVIOUS
    <3> QED BY <2>1, <2>4, <2>5, <2>6, <3>1, <3>2
  <2> QED BY <2>7
<1>3. T \in Q
  <2> HIDE DEF Q
  <2> QED BY <1>1, <1>2, FamilyOfSubsets
<1> QED BY <1>3

(* Where nothing is added, the sum is nothing.                              *)
LEMMA SumOfZeros ==
    ASSUME NEW f, NEW S, IsFiniteSet(S), \A x \in S : f[x] = 0
    PROVE  SumFunctionOnSet(f, S) = 0
<1> DEFINE Q == {U \in SUBSET S : SumFunctionOnSet(f, U) = 0}
<1>1. {} \in Q
  BY SumOfNone
<1>2. ASSUME NEW U \in SUBSET S, NEW x \in S \ U, U \in Q
      PROVE  U \cup {x} \in Q
  <2>1. IsFiniteSet(U)
    BY FS_Subset
  <2>2. SumFunctionOnSet(f, U \cup {x}) = SumFunctionOnSet(f, U) + f[x]
    BY <2>1, SumAdds
  <2> QED BY <1>2, <2>2
<1>3. S \in Q
  <2> HIDE DEF Q
  <2> QED BY <1>1, <1>2, FamilyOfSubsets
<1> QED BY <1>3

(* A sum is that of the part where there is something to add.               *)
THEOREM SumOverPart ==
    ASSUME NEW f, NEW S, IsFiniteSet(S), NEW T, T \subseteq S,
           \A x \in T : f[x] \in Int, \A x \in S \ T : f[x] = 0
    PROVE  SumFunctionOnSet(f, S) = SumFunctionOnSet(f, T)
<1> DEFINE R == S \ T
<1>1. IsFiniteSet(T) /\ IsFiniteSet(R)
  BY FS_Subset
<1>2. T \cap R = {} /\ T \cup R = S /\ \A x \in T \cup R : f[x] \in Int
  OBVIOUS
<1>3. SumFunctionOnSet(f, R) = 0
  BY <1>1, SumOfZeros
<1> HIDE DEF R
<1>4. SumFunctionOnSet(f, T \cup R) = SumFunctionOnSet(f, T) + SumFunctionOnSet(f, R)
  BY <1>1, <1>2, SumOverUnion
<1>5. SumFunctionOnSet(f, T) \in Int
  BY <1>1, SumType
<1>6. SumFunctionOnSet(f, S) = SumFunctionOnSet(f, T) + SumFunctionOnSet(f, R)
  BY <1>2, <1>4
<1> QED BY <1>3, <1>5, <1>6

(* The sum of differences is the difference of the sums.                    *)
THEOREM SumOfDifferences ==
    ASSUME NEW f, NEW g, NEW h, NEW S, IsFiniteSet(S),
           \A x \in S : g[x] \in Int /\ h[x] \in Int /\ f[x] = g[x] - h[x]
    PROVE  SumFunctionOnSet(f, S) = SumFunctionOnSet(g, S) - SumFunctionOnSet(h, S)
<1> DEFINE Q == {U \in SUBSET S : SumFunctionOnSet(f, U) = SumFunctionOnSet(g, U) - SumFunctionOnSet(h, U)}
<1>1. {} \in Q
  BY SumOfNone
<1>2. ASSUME NEW U \in SUBSET S, NEW x \in S \ U, U \in Q
      PROVE  U \cup {x} \in Q
  <2>1. IsFiniteSet(U)
    BY FS_Subset
  <2>2. \A y \in S : f[y] \in Int
    OBVIOUS
  <2>3. /\ SumFunctionOnSet(f, U \cup {x}) = SumFunctionOnSet(f, U) + f[x]
        /\ SumFunctionOnSet(g, U \cup {x}) = SumFunctionOnSet(g, U) + g[x]
        /\ SumFunctionOnSet(h, U \cup {x}) = SumFunctionOnSet(h, U) + h[x]
    <3>1. \A y \in U \cup {x} : f[y] \in Int /\ g[y] \in Int /\ h[y] \in Int
      BY <2>2
    <3> QED BY <2>1, <3>1, SumAdds
  <2>4. SumFunctionOnSet(g, U) \in Int /\ SumFunctionOnSet(h, U) \in Int
    BY <2>1, SumType
  <2>5. SumFunctionOnSet(f, U) = SumFunctionOnSet(g, U) - SumFunctionOnSet(h, U)
    BY <1>2
  <2>6. f[x] = g[x] - h[x] /\ g[x] \in Int /\ h[x] \in Int
    OBVIOUS
  <2>7. SumFunctionOnSet(f, U \cup {x}) = SumFunctionOnSet(g, U \cup {x}) - SumFunctionOnSet(h, U \cup {x})
    BY <2>3, <2>4, <2>5, <2>6
  <2> QED BY <2>7
<1>3. S \in Q
  <2> HIDE DEF Q
  <2> QED BY <1>1, <1>2, FamilyOfSubsets
<1> QED BY <1>3

(* Two sums cancel when each element of one cancels its own of the other.   *)
THEOREM SumsCancel ==
    ASSUME NEW f, NEW g, NEW m, NEW S, IsFiniteSet(S),
           \A x \in S : f[m[x]] \in Int /\ g[x] = -f[m[x]],
           \A x, y \in S : m[x] = m[y] => x = y
    PROVE  SumFunctionOnSet(g, S) + SumFunctionOnSet(f, {m[x] : x \in S}) = 0
<1> DEFINE Image(U) == {m[x] : x \in U}
           Q == {U \in SUBSET S : SumFunctionOnSet(g, U) + SumFunctionOnSet(f, Image(U)) = 0}
<1>1. {} \in Q
  <2>1. Image({}) = {}
    OBVIOUS
  <2> HIDE DEF Image
  <2>2. SumFunctionOnSet(f, Image({})) = 0 /\ SumFunctionOnSet(g, {}) = 0
    BY <2>1, SumOfNone
  <2> QED BY <2>2
<1>2. ASSUME NEW U \in SUBSET S, NEW x \in S \ U, U \in Q
      PROVE  U \cup {x} \in Q
  <2>1. IsFiniteSet(U) /\ IsFiniteSet(Image(U))
    BY FS_Subset, ImageIsFinite
  <2>2. Image(U \cup {x}) = Image(U) \cup {m[x]} /\ m[x] \notin Image(U)
    OBVIOUS
  <2>3. /\ \A y \in U \cup {x} : g[y] \in Int
        /\ \A y \in Image(U) \cup {m[x]} : f[y] \in Int
    OBVIOUS
  <2>4. g[x] = -f[m[x]] /\ f[m[x]] \in Int
    OBVIOUS
  <2>5. SumFunctionOnSet(g, U) + SumFunctionOnSet(f, Image(U)) = 0
    BY <1>2
  <2> HIDE DEF Image
  <2>6. /\ SumFunctionOnSet(g, U \cup {x}) = SumFunctionOnSet(g, U) + g[x]
        /\ SumFunctionOnSet(f, Image(U) \cup {m[x]}) = SumFunctionOnSet(f, Image(U)) + f[m[x]]
    BY <2>1, <2>2, <2>3, SumAdds
  <2>7. SumFunctionOnSet(g, U) \in Int /\ SumFunctionOnSet(f, Image(U)) \in Int
    BY <2>1, <2>3, SumType
  <2>8. SumFunctionOnSet(g, U \cup {x}) + SumFunctionOnSet(f, Image(U \cup {x})) = 0
    <3>1. SumFunctionOnSet(f, Image(U \cup {x})) = SumFunctionOnSet(f, Image(U)) + f[m[x]]
      BY <2>2, <2>6
    <3> QED BY <2>4, <2>5, <2>6, <2>7, <3>1
  <2> QED BY <2>8 DEF Image
<1>3. S \in Q
  <2> HIDE DEF Q
  <2> QED BY <1>1, <1>2, FamilyOfSubsets
<1> QED BY <1>3

-----------------------------------------------------------------------------
(***************************************************************************)
(* Recursion over 1..n from the last element down: a set of elements none   *)
(* of which is struck out by a later element of it.  R says who may strike  *)
(* out whom.                                                                *)
(***************************************************************************)
Unstruck(R, n, f) == f = [x \in 1..n |-> ~\E y \in 1..n : y > x /\ <<y, x>> \in R /\ f[y]]

THEOREM UnstruckExists ==
    ASSUME NEW R, NEW n \in Nat
    PROVE  \E f : Unstruck(R, n, f)
<1> DEFINE Ending(k) == {x \in 1..n : x > n - k}
           Good(k, f) == f = [x \in Ending(k) |-> ~\E y \in Ending(k) : y > x /\ <<y, x>> \in R /\ f[y]]
           N == {k \in Nat : \E f : Good(k, f)}
<1>1. 0 \in N
  <2>1. Ending(0) = {}
    OBVIOUS
  <2>2. Good(0, [x \in {} |-> TRUE])
    BY <2>1
  <2> QED BY <2>2
<1>2. ASSUME NEW k \in Nat, k \in N
      PROVE  k + 1 \in N
  <2>1. PICK f : Good(k, f)
    BY <1>2
  <2> DEFINE g == [x \in Ending(k + 1) |->
                     IF x \in Ending(k) THEN f[x] ELSE ~\E y \in Ending(k) : y > x /\ <<y, x>> \in R /\ f[y]]
  <2>2. /\ Ending(k) \subseteq Ending(k + 1)
        /\ \A x, y \in Ending(k + 1) : y > x => y \in Ending(k)
    OBVIOUS
  <2>3. \A x \in Ending(k + 1) : g[x] = ~\E y \in Ending(k) : y > x /\ <<y, x>> \in R /\ f[y]
    <3> HIDE DEF Last
    <3> QED BY <2>1
  <2>4. \A y \in Ending(k) : g[y] = f[y]
    <3> HIDE DEF Last
    <3> QED BY <2>2
  <2>5. DOMAIN g = Ending(k + 1) /\ g = [x \in Ending(k + 1) |-> g[x]]
    <3> HIDE DEF Last
    <3> QED OBVIOUS
  <2> HIDE DEF g, Last
  <2>6. \A x \in Ending(k + 1) : g[x] = ~\E y \in Ending(k + 1) : y > x /\ <<y, x>> \in R /\ g[y]
    <3> SUFFICES ASSUME NEW x \in Ending(k + 1)
                 PROVE  g[x] = ~\E y \in Ending(k + 1) : y > x /\ <<y, x>> \in R /\ g[y]
      OBVIOUS
    <3>1. (\E y \in Ending(k) : y > x /\ <<y, x>> \in R /\ f[y])
            <=> \E y \in Ending(k + 1) : y > x /\ <<y, x>> \in R /\ g[y]
      BY <2>2, <2>4
    <3> QED BY <2>3, <3>1
  <2>7. Good(k + 1, g)
    BY <2>5, <2>6, Zenon
  <2>8. k + 1 \in Nat
    OBVIOUS
  <2> HIDE DEF Good
  <2> QED BY <2>7, <2>8
<1>3. Nat \subseteq N
  <2> HIDE DEF N
  <2> QED BY <1>1, <1>2, SetOfNaturals
<1>4. PICK f : Good(n, f)
  BY <1>3
<1>5. Ending(n) = 1..n
  OBVIOUS
<1> HIDE DEF Last
<1> QED BY <1>4, <1>5 DEF Unstruck

-----------------------------------------------------------------------------
(* A finite set, made a sequence, has each of its elements there once.      *)
LEMMA SequenceOfSet ==
    ASSUME NEW S, IsFiniteSet(S)
    PROVE  /\ SetToSeq(S) \in Seq(S)
           /\ Len(SetToSeq(S)) = Cardinality(S) /\ Cardinality(S) \in Nat
           /\ \A w \in S : \E n \in 1..Len(SetToSeq(S)) : SetToSeq(S)[n] = w
<1> DEFINE n == Cardinality(S)
           f == SetToSeq(S)
<1>1. n \in Nat /\ ExistsBijection(1..n, S)
  BY FS_CardinalityType
<1>2. f \in [1..n -> S] /\ IsInjective(f)
  <2>1. \E g \in [1..n -> S] : IsInjective(g)
    BY <1>1 DEF ExistsBijection, Bijection, Injection
  <2> QED BY <2>1 DEF SetToSeq
<1> HIDE DEF f
<1>3. f \in Injection(1..n, S)
  BY <1>2 DEF Injection
<1>4. Cardinality(1..n) = n
  BY <1>1, FS_Interval
<1>5. f \in Surjection(1..n, S)
  BY <1>3, <1>4, FS_Injection
<1>6. \A w \in S : \E m \in 1..n : f[m] = w
  BY <1>5 DEF Surjection
<1> HIDE DEF n
<1>7. f \in Seq(S) /\ Len(f) = n
  BY <1>1, <1>2
<1> QED BY <1>1, <1>6, <1>7 DEF f, n

-----------------------------------------------------------------------------
(* Recursion from 0 to N, each value made of the one before.                *)
Recursion(N, first, step, f) ==
    f = [n \in 0 .. N |-> IF n = 0 THEN first ELSE step[n][f[n - 1]]]

THEOREM RecursionFromZero ==
    ASSUME NEW N \in Nat, NEW S, NEW first \in S, NEW step,
           \A n \in 1 .. N : \A x \in S : step[n][x] \in S
    PROVE  \E f \in [0 .. N -> S] : Recursion(N, first, step, f)
<1> DEFINE Good(k, f) == /\ f \in [0 .. k -> S]
                         /\ \A n \in 0 .. k : f[n] = IF n = 0 THEN first ELSE step[n][f[n - 1]]
           M == {k \in Nat : k <= N => \E f : Good(k, f)}
<1>1. 0 \in M
  <2>1. Good(0, [n \in 0 .. 0 |-> first])  OBVIOUS
  <2> QED  BY <2>1
<1>2. ASSUME NEW k \in Nat, k \in M
      PROVE  k + 1 \in M
  <2> SUFFICES ASSUME k + 1 <= N PROVE \E f : Good(k + 1, f)
    OBVIOUS
  <2>1. PICK f : Good(k, f)  BY <1>2
  <2> DEFINE g == [n \in 0 .. k + 1 |-> IF n \in 0 .. k THEN f[n] ELSE step[n][f[k]]]
  <2>2. k + 1 \in 1 .. N /\ f[k] \in S  BY <2>1
  <2>3. step[k + 1][f[k]] \in S  BY <2>2
  <2>4. \A n \in 0 .. k : g[n] = f[n] /\ f[n] \in S  BY <2>1
  <2>5. g[k + 1] = step[k + 1][f[k]]  OBVIOUS
  <2>6. \A n \in 0 .. k + 1 : n = k + 1 \/ n \in 0 .. k  OBVIOUS
  <2> HIDE DEF g
  <2>7. DOMAIN g = 0 .. k + 1 /\ g = [n \in 0 .. k + 1 |-> g[n]]  BY DEF g
  <2>8. \A n \in 0 .. k + 1 : g[n] \in S  BY <2>3, <2>4, <2>5, <2>6
  <2>9. \A n \in 0 .. k + 1 : g[n] = IF n = 0 THEN first ELSE step[n][g[n - 1]]
    <3> SUFFICES ASSUME NEW n \in 0 .. k + 1 PROVE g[n] = IF n = 0 THEN first ELSE step[n][g[n - 1]]
      OBVIOUS
    <3>1. CASE n = k + 1
      <4>1. g[k] = f[k] /\ k + 1 - 1 = k /\ k + 1 # 0  BY <2>4
      <4> QED  BY <3>1, <4>1, <2>5
    <3>2. CASE n \in 0 .. k
      <4>1. g[n] = f[n] /\ f[n] = IF n = 0 THEN first ELSE step[n][f[n - 1]]  BY <2>1, <2>4, <3>2
      <4>2. n # 0 => n - 1 \in 0 .. k  BY <3>2
      <4>3. n # 0 => g[n - 1] = f[n - 1]  BY <2>4, <4>2
      <4> QED  BY <4>1, <4>3
    <3> QED  BY <2>6, <3>1, <3>2
  <2>10. g \in [0 .. k + 1 -> S]  BY <2>7, <2>8
  <2> QED  BY <2>9, <2>10
<1>3. Nat \subseteq M
  <2> HIDE DEF M
  <2> QED  BY <1>1, <1>2, SetOfNaturals
<1>4. PICK f : Good(N, f)  BY <1>3
<1>5. f = [n \in 0 .. N |-> f[n]]  BY <1>4
<1>6. f = [n \in 0 .. N |-> IF n = 0 THEN first ELSE step[n][f[n - 1]]]
  BY <1>4, <1>5
<1> QED  BY <1>4, <1>6 DEF Recursion

(* Such a recursion stays in S,                                             *)
LEMMA RecursionStays ==
    ASSUME NEW N \in Nat, NEW S, NEW first \in S, NEW step,
           \A n \in 1 .. N : \A x \in S : step[n][x] \in S,
           NEW f, Recursion(N, first, step, f)
    PROVE  f \in [0 .. N -> S]
<1> DEFINE M == {n \in Nat : n <= N => f[n] \in S}
<1>1. DOMAIN f = 0 .. N /\ f = [n \in 0 .. N |-> f[n]]
  BY DEF Recursion
<1>2. \A n \in 0 .. N : f[n] = IF n = 0 THEN first ELSE step[n][f[n - 1]]
  BY DEF Recursion
<1>3. 0 \in M
  BY <1>2
<1>4. ASSUME NEW n \in Nat, n \in M
      PROVE  n + 1 \in M
  <2> SUFFICES ASSUME n + 1 <= N PROVE f[n + 1] \in S
    OBVIOUS
  <2>1. n + 1 \in 1 .. N /\ n + 1 \in 0 .. N /\ n + 1 # 0 /\ (n + 1) - 1 = n
    OBVIOUS
  <2>2. f[n + 1] = step[n + 1][f[n]]
    BY <1>2, <2>1
  <2>3. f[n] \in S
    BY <1>4
  <2> QED  BY <2>1, <2>2, <2>3
<1>5. Nat \subseteq M
  <2> HIDE DEF M
  <2> QED  BY <1>3, <1>4, SetOfNaturals
<1>6. \A n \in 0 .. N : f[n] \in S
  BY <1>5
<1> QED  BY <1>1, <1>6

(* so the function a definition chooses for it satisfies it and is into S.  *)
THEOREM RecursiveFunction ==
    ASSUME NEW N \in Nat, NEW S, NEW first \in S, NEW step,
           \A n \in 1 .. N : \A x \in S : step[n][x] \in S
    PROVE  LET chosen == CHOOSE f : Recursion(N, first, step, f) IN
           Recursion(N, first, step, chosen) /\ chosen \in [0 .. N -> S]
<1>1. \E f : Recursion(N, first, step, f)
  BY RecursionFromZero
<1> DEFINE chosen == CHOOSE f : Recursion(N, first, step, f)
<1>2. Recursion(N, first, step, chosen)
  BY <1>1
<1> HIDE DEF chosen
<1>3. chosen \in [0 .. N -> S]
  BY <1>2, RecursionStays
<1> QED  BY <1>2, <1>3 DEF chosen

-----------------------------------------------------------------------------
(* A step that only takes elements out of a finite set settles after as     *)
(* many rounds as the set has elements.                                     *)
THEOREM ShrinkingSettles ==
    ASSUME NEW S, IsFiniteSet(S), NEW step, \A T \in SUBSET S : step[T] \subseteq T,
           NEW f, f[0] = S, \A n \in 1 .. Cardinality(S) : f[n] = step[f[n - 1]]
    PROVE  f[Cardinality(S)] \in SUBSET S /\ step[f[Cardinality(S)]] = f[Cardinality(S)]
<1> DEFINE K == Cardinality(S)
           Settled(T) == step[T] = T
           M == {n \in Nat : n <= K => f[n] \in SUBSET S /\ (Settled(f[n]) \/ Cardinality(f[n]) <= K - n)}
<1>1. K \in Nat
  BY FS_CardinalityType
<1>2. \A T \in SUBSET S : IsFiniteSet(T) /\ Cardinality(T) \in Nat
  BY FS_Subset, FS_CardinalityType
<1>3. 0 \in M
  BY <1>1
<1>4. ASSUME NEW n \in Nat, n \in M
      PROVE  n + 1 \in M
  <2> SUFFICES ASSUME n + 1 <= K
               PROVE  f[n + 1] \in SUBSET S /\ (Settled(f[n + 1]) \/ Cardinality(f[n + 1]) <= K - (n + 1))
    OBVIOUS
  <2>1. n <= K /\ n + 1 \in 1 .. K /\ (n + 1) - 1 = n
    BY <1>1
  <2>2. f[n] \in SUBSET S /\ (Settled(f[n]) \/ Cardinality(f[n]) <= K - n)
    BY <1>4, <2>1
  <2>3. f[n + 1] = step[f[n]]
    BY <2>1
  <2>4. f[n + 1] \subseteq f[n]
    BY <2>2, <2>3
  <2>5. CASE Settled(f[n])
    BY <2>2, <2>3, <2>5
  <2>6. CASE ~Settled(f[n])
    <3>1. f[n + 1] # f[n] /\ Cardinality(f[n]) <= K - n
      BY <2>2, <2>3, <2>6
    <3>2. Cardinality(f[n + 1]) \in Nat /\ Cardinality(f[n]) \in Nat
      BY <1>2, <2>2, <2>4
    <3>3. Cardinality(f[n + 1]) < Cardinality(f[n])
      <4>1. IsFiniteSet(f[n])
        BY <1>2, <2>2
      <4>2. f[n + 1] \in SUBSET f[n]
        BY <2>4
      <4>3. /\ Cardinality(f[n + 1]) <= Cardinality(f[n])
            /\ Cardinality(f[n]) = Cardinality(f[n + 1]) => f[n] = f[n + 1]
        BY <4>1, <4>2, FS_Subset
      <4> QED  BY <3>1, <3>2, <4>3
    <3>4. Cardinality(f[n + 1]) <= K - (n + 1)
      BY <1>1, <3>1, <3>2, <3>3
    <3> QED  BY <2>2, <2>4, <3>4
  <2> QED  BY <2>5, <2>6
<1>5. Nat \subseteq M
  <2> HIDE DEF M
  <2> QED  BY <1>3, <1>4, SetOfNaturals
<1>6. f[K] \in SUBSET S /\ (Settled(f[K]) \/ Cardinality(f[K]) <= 0)
  <2>1. K \in M /\ K - K = 0
    BY <1>1, <1>5
  <2> QED  BY <1>1, <2>1
<1>7. CASE ~Settled(f[K])
  <2>1. IsFiniteSet(f[K]) /\ Cardinality(f[K]) = 0
    BY <1>2, <1>6, <1>7
  <2>2. f[K] = {}
    BY <2>1, FS_EmptySet
  <2>3. step[f[K]] \subseteq f[K]
    BY <1>6
  <2> QED  BY <1>7, <2>2, <2>3
<1> QED  BY <1>6, <1>7
=============================================================================
