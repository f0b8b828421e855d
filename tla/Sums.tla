-------------------------------- MODULE Sums --------------------------------
(***************************************************************************)
(* Facts about SumFunctionOnSet, the sum of the values of a function over  *)
(* a finite set of its arguments, as the other modules' proofs need them.  *)
(* The operator is defined by recursion on sets that takes the elements    *)
(* out in the order of CHOOSE; the facts say that no order matters.  An    *)
(* induction is stated with the set of the subsets for which the claim     *)
(* holds.                                                                  *)
(***************************************************************************)
EXTENDS Integers, FiniteSets, Functions, FiniteSetTheorems,
        WellFoundedInduction, TLAPS

(* A set of natural numbers with 0 and with the successor of each of its   *)
(* elements has them all.                                                  *)
LEMMA NatInductionOnSet ==
    ASSUME NEW T, 0 \in T, \A n \in Nat : n \in T => n + 1 \in T
    PROVE  \A n \in Nat : n \in T
  <1> DEFINE R == OpToRel(<, Nat)
             U == Nat \ T
  <1> SUFFICES ASSUME U # {} PROVE FALSE
    OBVIOUS
  <1>1. IsWellFoundedOn(R, Nat)
    BY NatLessThanWellFounded
  <1>2. PICK m \in U : \A y \in U : ~ (<<y, m>> \in R)
    <2> HIDE DEF R
    <2>1. U \subseteq Nat
      OBVIOUS
    <2> HIDE DEF U
    <2> QED BY <1>1, <2>1, WFMin, Zenon
  <1>3. m \in Nat /\ m # 0
    OBVIOUS
  <1>4. m - 1 \in Nat /\ m - 1 < m /\ (m - 1) + 1 = m
    BY <1>3
  <1>5. m - 1 \in U
    BY <1>4
  <1>6. <<m - 1, m>> \in R
    BY <1>3, <1>4, Zenon DEF OpToRel
  <1> QED BY <1>2, <1>5, <1>6

(* Induction over the subsets of a finite set: F has a subset as soon as   *)
(* it has all that lack one more element.                                  *)
LEMMA SubsetInduction ==
    ASSUME NEW S, IsFiniteSet(S), NEW F,
           \A T \in SUBSET S : (\A x \in T : T \ {x} \in F) => T \in F
    PROVE  \A T \in SUBSET S : T \in F
  <1> DEFINE N == {n \in Nat : \A T \in SUBSET S : Cardinality(T) = n => T \in F}
  <1>1. \A T \in SUBSET S : IsFiniteSet(T) /\ Cardinality(T) \in Nat
    BY FS_Subset, FS_CardinalityType
  <1>2. 0 \in N
    <2> SUFFICES ASSUME NEW T \in SUBSET S, Cardinality(T) = 0 PROVE T \in F
      OBVIOUS
    <2>1. T = {}
      BY <1>1, FS_EmptySet
    <2> QED BY <2>1
  <1>3. ASSUME NEW n \in Nat, n \in N PROVE n + 1 \in N
    <2> SUFFICES ASSUME NEW T \in SUBSET S, Cardinality(T) = n + 1
                 PROVE  T \in F
      OBVIOUS
    <2>1. ASSUME NEW x \in T PROVE T \ {x} \in F
      <3>1. Cardinality(T \ {x}) = Cardinality(T) - 1
        BY <1>1, FS_RemoveElement
      <3>2. Cardinality(T \ {x}) = n
        BY <3>1
      <3> QED BY <3>2, <1>3
    <2> QED BY <2>1
  <1>4. \A n \in Nat : n \in N
    <2> HIDE DEF N
    <2> QED BY <1>2, <1>3, NatInductionOnSet
  <1> QED BY <1>1, <1>4

-----------------------------------------------------------------------------
(* The recursion *)

Chosen(s) == CHOOSE x \in s : TRUE

(* One unfolding of the recursion that defines the sum. *)
Unfold(f, S, g) ==
    [s \in SUBSET S |-> IF s = {} THEN 0 ELSE f[Chosen(s)] + g[s \ {Chosen(s)}]]

LEMMA ChosenIn == ASSUME NEW s, s # {} PROVE Chosen(s) \in s
  BY DEF Chosen

(* Some function solves the recursion. *)
LEMMA SumExists ==
    ASSUME NEW f, NEW S, IsFiniteSet(S)
    PROVE  \E g : g = Unfold(f, S, g)
  <1> DEFINE Solves(g, n) == \A s \in SUBSET S :
                                Cardinality(s) <= n => g[s] = Unfold(f, S, g)[s]
             N == {n \in Nat : \E g : Solves(g, n)}
  <1>1. \A T \in SUBSET S : IsFiniteSet(T) /\ Cardinality(T) \in Nat
    BY FS_Subset, FS_CardinalityType
  <1>2. 0 \in N
    <2> DEFINE g == [s \in SUBSET S |-> 0]
    <2>1. ASSUME NEW s \in SUBSET S, Cardinality(s) <= 0
          PROVE  g[s] = Unfold(f, S, g)[s]
      <3>1. Cardinality(s) = 0
        BY <1>1, <2>1
      <3>2. s = {}
        BY <1>1, <3>1, FS_EmptySet
      <3> QED BY <3>2 DEF Unfold
    <2>2. Solves(g, 0)
      BY <2>1
    <2> QED BY <2>2
  <1>3. ASSUME NEW n \in Nat, n \in N PROVE n + 1 \in N
    <2>1. PICK g : Solves(g, n)
      BY <1>3
    <2> DEFINE h == Unfold(f, S, g)
    <2>2. ASSUME NEW s \in SUBSET S, Cardinality(s) <= n + 1, s # {}
          PROVE  h[s] = Unfold(f, S, h)[s]
      <3> DEFINE r == s \ {Chosen(s)}
      <3>1. r \in SUBSET S /\ Cardinality(r) = Cardinality(s) - 1
        BY <1>1, <2>2, ChosenIn, FS_RemoveElement
      <3>2. Cardinality(r) <= n
        BY <1>1, <3>1, <2>2
      <3>3. g[r] = h[r]
        BY <2>1, <3>1, <3>2
      <3>4. h[s] = f[Chosen(s)] + g[r]
        BY <2>2 DEF Unfold
      <3>5. Unfold(f, S, h)[s] = f[Chosen(s)] + h[r]
        BY <2>2 DEF Unfold
      <3> QED BY <3>3, <3>4, <3>5
    <2>3. ASSUME NEW s \in SUBSET S, s = {}
          PROVE  h[s] = Unfold(f, S, h)[s]
      BY <2>3 DEF Unfold
    <2>4. Solves(h, n + 1)
      <3> HIDE DEF h
      <3> QED BY <2>2, <2>3
    <2> QED BY <2>4
  <1>4. \A n \in Nat : n \in N
    <2> HIDE DEF N
    <2> QED BY <1>2, <1>3, NatInductionOnSet
  <1>5. PICK g : Solves(g, Cardinality(S))
    BY <1>1, <1>4
  <1>6. \A s \in SUBSET S : g[s] = Unfold(f, S, g)[s]
    BY <1>5, FS_Subset
  <1> DEFINE h == [s \in SUBSET S |-> g[s]]
  <1>7. \A s \in SUBSET S : s \ {Chosen(s)} \in SUBSET S
    OBVIOUS
  <1>8. Unfold(f, S, h) = Unfold(f, S, g)
    BY <1>7 DEF Unfold
  <1>9. h = Unfold(f, S, g)
    BY <1>6, Zenon DEF Unfold
  <1> QED BY <1>8, <1>9

(* The solutions for two sets agree on the smaller one. *)
LEMMA SumUnique ==
    ASSUME NEW f, NEW S, IsFiniteSet(S), NEW T \in SUBSET S,
           NEW g, g = Unfold(f, S, g), NEW h, h = Unfold(f, T, h)
    PROVE  \A s \in SUBSET T : g[s] = h[s]
  <1> DEFINE F == {s \in SUBSET T : g[s] = h[s]}
  <1>1. IsFiniteSet(T)
    BY FS_Subset
  <1>2. ASSUME NEW s \in SUBSET T, \A x \in s : s \ {x} \in F
        PROVE  s \in F
    <2>1. CASE s = {}
      <3>1. g[s] = Unfold(f, S, g)[s] /\ h[s] = Unfold(f, T, h)[s]
        OBVIOUS
      <3> QED BY <2>1, <3>1 DEF Unfold
    <2>2. CASE s # {}
      <3>1. g[s \ {Chosen(s)}] = h[s \ {Chosen(s)}]
        BY <1>2, <2>2, ChosenIn
      <3>2. g[s] = Unfold(f, S, g)[s] /\ h[s] = Unfold(f, T, h)[s]
        OBVIOUS
      <3>3. s \in SUBSET S
        OBVIOUS
      <3>4. Unfold(f, S, g)[s] = f[Chosen(s)] + g[s \ {Chosen(s)}]
        BY <2>2, <3>3 DEF Unfold
      <3>5. Unfold(f, T, h)[s] = f[Chosen(s)] + h[s \ {Chosen(s)}]
        BY <2>2 DEF Unfold
      <3> QED BY <3>1, <3>2, <3>4, <3>5
    <2> QED BY <2>1, <2>2
  <1>3. \A s \in SUBSET T : s \in F
    <2> HIDE DEF F
    <2> QED BY <1>1, <1>2, SubsetInduction, Zenon
  <1> QED BY <1>3

(* The sum is the value of any solution. *)
LEMMA SumIsSolution ==
    ASSUME NEW f, NEW S, IsFiniteSet(S)
    PROVE  \E g : g = Unfold(f, S, g) /\ SumFunctionOnSet(f, S) = g[S]
  <1> DEFINE c == CHOOSE g : g = Unfold(f, S, g)
  <1>1. c = Unfold(f, S, c)
    BY SumExists
  <1>2. SumFunctionOnSet(f, S) = c[S]
    BY DEF SumFunctionOnSet, FoldFunctionOnSet, MapThenFoldSet, Unfold, Chosen
  <1> QED BY <1>1, <1>2, Zenon

-----------------------------------------------------------------------------
(* The sum *)

(* Nothing sums up to zero. *)
LEMMA SumEmpty == ASSUME NEW f PROVE SumFunctionOnSet(f, {}) = 0
  <1>1. IsFiniteSet({})
    BY FS_EmptySet
  <1>2. PICK g : g = Unfold(f, {}, g) /\ SumFunctionOnSet(f, {}) = g[{}]
    BY <1>1, SumIsSolution
  <1>3. g[{}] = Unfold(f, {}, g)[{}]
    BY <1>2
  <1>4. Unfold(f, {}, g)[{}] = 0
    BY DEF Unfold
  <1> QED BY <1>2, <1>3, <1>4

(* The element that CHOOSE takes first, and the others. *)
LEMMA SumChosen ==
    ASSUME NEW f, NEW S, IsFiniteSet(S), S # {}
    PROVE  SumFunctionOnSet(f, S) =
                f[Chosen(S)] + SumFunctionOnSet(f, S \ {Chosen(S)})
  <1> DEFINE T == S \ {Chosen(S)}
  <1>1. IsFiniteSet(T) /\ T \in SUBSET S
    BY FS_Subset
  <1>2. PICK g : g = Unfold(f, S, g) /\ SumFunctionOnSet(f, S) = g[S]
    BY SumIsSolution
  <1>3. PICK h : h = Unfold(f, T, h) /\ SumFunctionOnSet(f, T) = h[T]
    BY <1>1, SumIsSolution, Zenon
  <1>4. g[T] = h[T]
    <2>1. T \in SUBSET T
      OBVIOUS
    <2> HIDE DEF T
    <2> QED BY <1>1, <1>2, <1>3, <2>1, SumUnique
  <1>5. g[S] = Unfold(f, S, g)[S]
    BY <1>2
  <1>6. Unfold(f, S, g)[S] = f[Chosen(S)] + g[T]
    BY DEF Unfold
  <1> QED BY <1>2, <1>3, <1>4, <1>5, <1>6

(* A sum of integers is an integer. *)
LEMMA SumType ==
    ASSUME NEW f, NEW S, IsFiniteSet(S), \A x \in S : f[x] \in Int
    PROVE  SumFunctionOnSet(f, S) \in Int
  <1> DEFINE F == {T \in SUBSET S : SumFunctionOnSet(f, T) \in Int}
  <1>1. ASSUME NEW T \in SUBSET S, \A x \in T : T \ {x} \in F
        PROVE  T \in F
    <2>1. CASE T = {}
      BY <2>1, SumEmpty
    <2>2. CASE T # {}
      <3>1. IsFiniteSet(T)
        BY FS_Subset
      <3>2. Chosen(T) \in T
        BY <2>2, ChosenIn
      <3>3. SumFunctionOnSet(f, T \ {Chosen(T)}) \in Int /\ f[Chosen(T)] \in Int
        BY <1>1, <3>2
      <3>4. SumFunctionOnSet(f, T) = f[Chosen(T)] + SumFunctionOnSet(f, T \ {Chosen(T)})
        BY <2>2, <3>1, SumChosen
      <3> QED BY <3>3, <3>4
    <2> QED BY <2>1, <2>2
  <1>2. \A T \in SUBSET S : T \in F
    <2> HIDE DEF F
    <2> QED BY <1>1, SubsetInduction, Zenon
  <1> QED BY <1>2

(* Any element may be taken first. *)
LEMMA SumElement ==
    ASSUME NEW f, NEW S, IsFiniteSet(S), \A x \in S : f[x] \in Int, NEW e \in S
    PROVE  SumFunctionOnSet(f, S) = f[e] + SumFunctionOnSet(f, S \ {e})
  <1> DEFINE Su(T) == SumFunctionOnSet(f, T)
             F == {T \in SUBSET S : \A x \in T : Su(T) = f[x] + Su(T \ {x})}
  <1>1. \A T \in SUBSET S : IsFiniteSet(T) /\ Su(T) \in Int
    <2>1. ASSUME NEW T \in SUBSET S PROVE IsFiniteSet(T)
      BY FS_Subset
    <2>2. ASSUME NEW T \in SUBSET S PROVE \A x \in T : f[x] \in Int
      OBVIOUS
    <2> QED BY <2>1, <2>2, SumType
  <1>2. ASSUME NEW T \in SUBSET S, \A x \in T : T \ {x} \in F
        PROVE  T \in F
    <2> SUFFICES ASSUME NEW x \in T PROVE Su(T) = f[x] + Su(T \ {x})
      OBVIOUS
    <2> DEFINE c == Chosen(T)
    <2>1. c \in T
      BY ChosenIn
    <2>2. Su(T) = f[c] + Su(T \ {c})
      BY <1>1, SumChosen
    <2>3. CASE x = c
      BY <2>2, <2>3
    <2>4. CASE x # c
      <3> HIDE DEF Su, c
      <3>1. x \in T \ {c} /\ c \in T \ {x}
        BY <2>1, <2>4
      <3>2. Su(T \ {c}) = f[x] + Su((T \ {c}) \ {x})
        BY <1>2, <2>1, <3>1
      <3>3. Su(T \ {x}) = f[c] + Su((T \ {x}) \ {c})
        BY <1>2, <3>1
      <3>4. (T \ {c}) \ {x} = (T \ {x}) \ {c}
        OBVIOUS
      <3>5. Su((T \ {x}) \ {c}) \in Int /\ f[c] \in Int /\ f[x] \in Int
        BY <1>1, <2>1
      <3> DEFINE r == Su((T \ {x}) \ {c})
      <3>6. Su(T) = f[c] + (f[x] + r)
        BY <2>2, <3>2, <3>4
      <3>7. Su(T \ {x}) = f[c] + r
        BY <3>3
      <3>8. f[c] + (f[x] + r) = f[x] + (f[c] + r)
        BY <3>5
      <3> HIDE DEF r
      <3> QED BY <3>6, <3>7, <3>8, Zenon
    <2> QED BY <2>3, <2>4
  <1>3. \A T \in SUBSET S : T \in F
    <2> HIDE DEF F
    <2> QED BY <1>2, SubsetInduction, Zenon
  <1> QED BY <1>3

(* A new element adds its value. *)
LEMMA SumAdd ==
    ASSUME NEW f, NEW S, IsFiniteSet(S), NEW e, e \notin S,
           \A x \in S \cup {e} : f[x] \in Int
    PROVE  SumFunctionOnSet(f, S \cup {e}) = SumFunctionOnSet(f, S) + f[e]
  <1>1. IsFiniteSet(S \cup {e})
    BY FS_AddElement
  <1>2. (S \cup {e}) \ {e} = S
    OBVIOUS
  <1>3. SumFunctionOnSet(f, S \cup {e}) =
            f[e] + SumFunctionOnSet(f, (S \cup {e}) \ {e})
    BY <1>1, SumElement
  <1>4. SumFunctionOnSet(f, S) \in Int /\ f[e] \in Int
    BY SumType
  <1>5. \A i, j \in Int : i + j = j + i
    OBVIOUS
  <1> QED BY <1>2, <1>3, <1>4, <1>5, Zenon

(* Functions that agree on a set have the same sum over it. *)
LEMMA SumAgree ==
    ASSUME NEW f, NEW g, NEW S, IsFiniteSet(S), \A x \in S : f[x] = g[x]
    PROVE  SumFunctionOnSet(f, S) = SumFunctionOnSet(g, S)
  <1> DEFINE F == {T \in SUBSET S : SumFunctionOnSet(f, T) = SumFunctionOnSet(g, T)}
  <1>1. ASSUME NEW T \in SUBSET S, \A x \in T : T \ {x} \in F
        PROVE  T \in F
    <2>1. CASE T = {}
      BY <2>1, SumEmpty
    <2>2. CASE T # {}
      <3>1. IsFiniteSet(T)
        BY FS_Subset
      <3>2. Chosen(T) \in T
        BY <2>2, ChosenIn
      <3>3. /\ f[Chosen(T)] = g[Chosen(T)]
            /\ SumFunctionOnSet(f, T \ {Chosen(T)}) = SumFunctionOnSet(g, T \ {Chosen(T)})
        BY <1>1, <3>2
      <3> QED BY <2>2, <3>1, <3>3, SumChosen
    <2> QED BY <2>1, <2>2
  <1>2. \A T \in SUBSET S : T \in F
    <2> HIDE DEF F
    <2> QED BY <1>1, SubsetInduction, Zenon
  <1> QED BY <1>2

(* One value changes. *)
LEMMA SumUpdate ==
    ASSUME NEW f, NEW g, NEW S, IsFiniteSet(S), NEW e \in S,
           \A x \in S : f[x] \in Int, g[e] \in Int,
           \A x \in S \ {e} : g[x] = f[x]
    PROVE  SumFunctionOnSet(g, S) = SumFunctionOnSet(f, S) + g[e] - f[e]
  <1> DEFINE T == S \ {e}
             r == SumFunctionOnSet(f, T)
  <1>1. \A x \in S : g[x] \in Int
    BY Zenon
  <1>2. IsFiniteSet(T)
    BY FS_Subset
  <1>3. SumFunctionOnSet(f, S) = f[e] + r
    BY SumElement
  <1>4. SumFunctionOnSet(g, S) = g[e] + SumFunctionOnSet(g, T)
    BY <1>1, SumElement
  <1>5. SumFunctionOnSet(g, T) = r
    <2> HIDE DEF T
    <2>1. \A x \in T : g[x] = f[x]
      BY DEF T
    <2> QED BY <1>2, <2>1, SumAgree
  <1>6. r \in Int
    <2>1. \A x \in T : f[x] \in Int
      OBVIOUS
    <2> HIDE DEF T
    <2> QED BY <1>2, <2>1, SumType
  <1>7. g[e] + r = (f[e] + r) + g[e] - f[e]
    <2> HIDE DEF r
    <2>1. f[e] \in Int /\ g[e] \in Int
      OBVIOUS
    <2> QED BY <1>6, <2>1
  <1> HIDE DEF r
  <1> QED BY <1>3, <1>4, <1>5, <1>7, Zenon

(* A disjoint union adds the two sums. *)
LEMMA SumUnion ==
    ASSUME NEW f, NEW S, IsFiniteSet(S), NEW U, IsFiniteSet(U), S \cap U = {},
           \A x \in S \cup U : f[x] \in Int
    PROVE  SumFunctionOnSet(f, S \cup U) =
                SumFunctionOnSet(f, S) + SumFunctionOnSet(f, U)
  <1> DEFINE Su(T) == SumFunctionOnSet(f, T)
             F == {T \in SUBSET S : Su(T \cup U) = Su(T) + Su(U)}
  <1>1. Su(U) \in Int
    BY SumType
  <1>2. ASSUME NEW T \in SUBSET S, \A x \in T : T \ {x} \in F
        PROVE  T \in F
    <2>1. IsFiniteSet(T) /\ \A x \in T : f[x] \in Int
      BY FS_Subset
    <2>2. Su(T) \in Int
      BY <2>1, SumType
    <2>3. CASE T = {}
      <3>1. T \cup U = U /\ Su(T) = 0
        BY <2>3, SumEmpty
      <3> HIDE DEF Su
      <3>2. 0 + Su(U) = Su(U)
        BY <1>1
      <3>3. Su(T \cup U) = Su(T) + Su(U)
        BY <3>1, <3>2, Zenon
      <3> QED BY <3>3
    <2>4. CASE T # {}
      <3> DEFINE c == Chosen(T)
                 T1 == T \ {c}
      <3>1. c \in T
        BY <2>4, ChosenIn
      <3> HIDE DEF c
      <3>2. T1 \in F
        BY <1>2, <3>1
      <3>3. Su(T) = f[c] + Su(T1)
        BY <2>1, <3>1, SumElement
      <3>4. IsFiniteSet(T1) /\ (\A x \in T1 : f[x] \in Int)
        BY <2>1, FS_Subset
      <3>5. Su(T1) \in Int
        BY <3>4, SumType, Zenon
      <3>6. IsFiniteSet(T1 \cup U) /\ T1 \cup U \cup {c} = T \cup U /\ c \notin T1 \cup U
        BY <3>1, <3>4, FS_Union, Zenon
      <3>7. \A x \in (T1 \cup U) \cup {c} : f[x] \in Int
        BY <3>1, <3>6
      <3>8. Su(T \cup U) = Su(T1 \cup U) + f[c]
        <4> DEFINE V == T1 \cup U
        <4>1. IsFiniteSet(V) /\ c \notin V /\ (\A x \in V \cup {c} : f[x] \in Int)
          BY <3>6, <3>7
        <4>2. V \cup {c} = T \cup U
          BY <3>6
        <4> HIDE DEF V, T1
        <4>3. SumFunctionOnSet(f, V \cup {c}) = SumFunctionOnSet(f, V) + f[c]
          BY <4>1, SumAdd
        <4> QED BY <4>2, <4>3, Zenon DEF V
      <3>9. Su(T1 \cup U) = Su(T1) + Su(U)
        BY <3>2
      <3>10. f[c] \in Int
        BY <3>7
      <3>11. (Su(T1) + Su(U)) + f[c] = (f[c] + Su(T1)) + Su(U)
        <4> HIDE DEF Su, T1
        <4> QED BY <1>1, <3>5, <3>10
      <3>12. Su(T \cup U) = Su(T) + Su(U)
        <4> HIDE DEF Su, T1
        <4> QED BY <3>3, <3>8, <3>9, <3>11, Zenon
      <3> QED BY <3>12
    <2> QED BY <2>3, <2>4
  <1>3. \A T \in SUBSET S : T \in F
    <2> HIDE DEF F
    <2> QED BY <1>2, SubsetInduction, Zenon
  <1>4. S \in F
    BY <1>3
  <1> QED BY <1>4

(* A sum is not larger than one of larger values; in particular a sum of   *)
(* natural numbers is one.                                                 *)
LEMMA SumMonotone ==
    ASSUME NEW f, NEW g, NEW S, IsFiniteSet(S),
           \A x \in S : f[x] \in Int /\ g[x] \in Int /\ f[x] <= g[x]
    PROVE  SumFunctionOnSet(f, S) <= SumFunctionOnSet(g, S)
  <1> DEFINE F == {T \in SUBSET S : SumFunctionOnSet(f, T) <= SumFunctionOnSet(g, T)}
  <1>1. ASSUME NEW T \in SUBSET S, \A x \in T : T \ {x} \in F
        PROVE  T \in F
    <2>1. CASE T = {}
      BY <2>1, SumEmpty
    <2>2. CASE T # {}
      <3> DEFINE c == Chosen(T)
                 T1 == T \ {c}
      <3>1. IsFiniteSet(T) /\ IsFiniteSet(T1)
        BY FS_Subset
      <3>2. c \in T
        BY <2>2, ChosenIn
      <3>3. f[c] \in Int /\ g[c] \in Int /\ f[c] <= g[c]
        BY <3>2
      <3>4. SumFunctionOnSet(f, T1) <= SumFunctionOnSet(g, T1)
        BY <1>1, <3>2
      <3>5. (\A x \in T1 : f[x] \in Int) /\ (\A x \in T1 : g[x] \in Int)
        OBVIOUS
      <3>6. SumFunctionOnSet(f, T1) \in Int /\ SumFunctionOnSet(g, T1) \in Int
        <4> HIDE DEF T1
        <4> QED BY <3>1, <3>5, SumType
      <3>7. /\ SumFunctionOnSet(f, T) = f[c] + SumFunctionOnSet(f, T1)
            /\ SumFunctionOnSet(g, T) = g[c] + SumFunctionOnSet(g, T1)
        BY <2>2, <3>1, SumChosen
      <3>8. f[c] + SumFunctionOnSet(f, T1) <= g[c] + SumFunctionOnSet(g, T1)
        <4> HIDE DEF T1, c
        <4> QED BY <3>3, <3>4, <3>6
      <3>9. SumFunctionOnSet(f, T) <= SumFunctionOnSet(g, T)
        BY <3>7, <3>8, Zenon
      <3> QED BY <3>9
    <2> QED BY <2>1, <2>2
  <1>2. \A T \in SUBSET S : T \in F
    <2> HIDE DEF F
    <2> QED BY <1>1, SubsetInduction, Zenon
  <1> QED BY <1>2

(* A sum of zeros is zero. *)
LEMMA SumZero ==
    ASSUME NEW f, NEW S, IsFiniteSet(S), \A x \in S : f[x] = 0
    PROVE  SumFunctionOnSet(f, S) = 0
  <1> DEFINE F == {T \in SUBSET S : SumFunctionOnSet(f, T) = 0}
  <1>1. ASSUME NEW T \in SUBSET S, \A x \in T : T \ {x} \in F
        PROVE  T \in F
    <2>1. CASE T = {}
      BY <2>1, SumEmpty
    <2>2. CASE T # {}
      <3>1. IsFiniteSet(T)
        BY FS_Subset
      <3>2. Chosen(T) \in T
        BY <2>2, ChosenIn
      <3>3. SumFunctionOnSet(f, T \ {Chosen(T)}) = 0 /\ f[Chosen(T)] = 0
        BY <1>1, <3>2
      <3>4. SumFunctionOnSet(f, T) = f[Chosen(T)] + SumFunctionOnSet(f, T \ {Chosen(T)})
        BY <2>2, <3>1, SumChosen
      <3> QED BY <3>3, <3>4
    <2> QED BY <2>1, <2>2
  <1>2. \A T \in SUBSET S : T \in F
    <2> HIDE DEF F
    <2> QED BY <1>1, SubsetInduction, Zenon
  <1> QED BY <1>2

(* A sum of natural numbers is one. *)
LEMMA SumNat ==
    ASSUME NEW f, NEW S, IsFiniteSet(S), \A x \in S : f[x] \in Nat
    PROVE  SumFunctionOnSet(f, S) \in Nat
  <1> DEFINE z == [x \in S |-> 0]
  <1>1. \A x \in S : z[x] = 0 /\ z[x] \in Int /\ f[x] \in Int /\ z[x] <= f[x]
    OBVIOUS
  <1> HIDE DEF z
  <1>2. SumFunctionOnSet(z, S) = 0
    BY <1>1, SumZero
  <1>3. SumFunctionOnSet(z, S) <= SumFunctionOnSet(f, S)
    BY <1>1, SumMonotone
  <1>4. SumFunctionOnSet(f, S) \in Int
    BY <1>1, SumType
  <1> QED BY <1>2, <1>3, <1>4

(* A sum of positive numbers is positive. *)
LEMMA SumPositive ==
    ASSUME NEW f, NEW S, IsFiniteSet(S), S # {}, \A x \in S : f[x] \in Nat \ {0}
    PROVE  SumFunctionOnSet(f, S) \in Nat \ {0}
  <1>1. PICK e \in S : TRUE
    OBVIOUS
  <1> DEFINE T == S \ {e}
             r == SumFunctionOnSet(f, T)
  <1>2. IsFiniteSet(T) /\ \A x \in T : f[x] \in Nat
    BY FS_Subset
  <1>3. r \in Nat
    <2> HIDE DEF T
    <2> QED BY <1>2, SumNat
  <1>4. SumFunctionOnSet(f, S) = f[e] + r
    <2>1. \A x \in S : f[x] \in Int
      OBVIOUS
    <2> QED BY <2>1, SumElement
  <1>5. f[e] \in Nat \ {0}
    OBVIOUS
  <1> HIDE DEF r
  <1> QED BY <1>3, <1>4, <1>5

(* Every element counts for one. *)
LEMMA SumOnes ==
    ASSUME NEW f, NEW S, IsFiniteSet(S), \A x \in S : f[x] = 1
    PROVE  SumFunctionOnSet(f, S) = Cardinality(S)
  <1> DEFINE F == {T \in SUBSET S : SumFunctionOnSet(f, T) = Cardinality(T)}
  <1>1. ASSUME NEW T \in SUBSET S, \A x \in T : T \ {x} \in F
        PROVE  T \in F
    <2>1. CASE T = {}
      BY <2>1, SumEmpty, FS_EmptySet
    <2>2. CASE T # {}
      <3> DEFINE c == Chosen(T)
      <3>1. c \in T /\ IsFiniteSet(T)
        BY <2>2, ChosenIn, FS_Subset
      <3>2. SumFunctionOnSet(f, T) = f[c] + SumFunctionOnSet(f, T \ {c})
        BY <2>2, <3>1, SumChosen
      <3>3. SumFunctionOnSet(f, T \ {c}) = Cardinality(T \ {c}) /\ f[c] = 1
        BY <1>1, <3>1
      <3>4. Cardinality(T \ {c}) = Cardinality(T) - 1 /\ Cardinality(T) \in Nat
        BY <3>1, FS_RemoveElement, FS_CardinalityType
      <3> HIDE DEF c
      <3>5. SumFunctionOnSet(f, T) = Cardinality(T)
        BY <3>2, <3>3, <3>4
      <3> QED BY <3>5
    <2> QED BY <2>1, <2>2
  <1>2. \A T \in SUBSET S : T \in F
    <2> HIDE DEF F
    <2> QED BY <1>1, SubsetInduction, Zenon
  <1> QED BY <1>2

(* The values g are the values f times c / s, rounded down. *)
Scaled(f, g, S, c, s) ==
    \A x \in S : /\ f[x] \in Nat /\ g[x] \in Nat
                 /\ s * g[x] <= c * f[x] /\ c * f[x] + 1 <= s * (g[x] + 1)

(* Sums that differ by a value each, compared with factors. *)
LEMMA ScaledAdd ==
    ASSUME NEW s \in Nat, NEW c \in Nat, NEW n \in Nat,
           NEW F \in Nat, NEW G \in Nat, NEW u \in Nat, NEW v \in Nat,
           s * G <= c * F, c * F + n <= s * (G + n),
           s * v <= c * u, c * u + 1 <= s * (v + 1)
    PROVE  s * (v + G) <= c * (u + F) /\ c * (u + F) + (n + 1) <= s * ((v + G) + (n + 1))
  <1>1. /\ s * (v + G) = s * v + s * G /\ c * (u + F) = c * u + c * F
        /\ s * (G + n) = s * G + s * n /\ s * (v + 1) = s * v + s
        /\ s * ((v + G) + (n + 1)) = s * v + s * G + s * n + s
    OBVIOUS
  <1>2. /\ s * v \in Int /\ s * G \in Int /\ c * u \in Int /\ c * F \in Int
        /\ s * n \in Int
    OBVIOUS
  <1> QED BY <1>1, <1>2

(* Rounding down loses less than one for each value. *)
LEMMA SumScaled ==
    ASSUME NEW f, NEW g, NEW S, IsFiniteSet(S), NEW c \in Nat, NEW s \in Nat,
           Scaled(f, g, S, c, s)
    PROVE  /\ s * SumFunctionOnSet(g, S) <= c * SumFunctionOnSet(f, S)
           /\ c * SumFunctionOnSet(f, S) + Cardinality(S)
                <= s * (SumFunctionOnSet(g, S) + Cardinality(S))
  <1> DEFINE Claim(T) == /\ s * SumFunctionOnSet(g, T) <= c * SumFunctionOnSet(f, T)
                         /\ c * SumFunctionOnSet(f, T) + Cardinality(T)
                              <= s * (SumFunctionOnSet(g, T) + Cardinality(T))
             F == {T \in SUBSET S : Claim(T)}
  <1>1. ASSUME NEW T \in SUBSET S, \A x \in T : T \ {x} \in F
        PROVE  T \in F
    <2>1. CASE T = {}
      <3>1. /\ SumFunctionOnSet(f, T) = 0 /\ SumFunctionOnSet(g, T) = 0
            /\ Cardinality(T) = 0
        BY <2>1, SumEmpty, FS_EmptySet
      <3>2. s * 0 <= c * 0 /\ c * 0 + 0 <= s * (0 + 0)
        OBVIOUS
      <3>3. Claim(T)
        BY <3>1, <3>2, Zenon
      <3> QED BY <3>3
    <2>2. CASE T # {}
      <3> DEFINE e == Chosen(T)
                 T1 == T \ {e}
                 n == Cardinality(T1)
                 F1 == SumFunctionOnSet(f, T1)
                 G1 == SumFunctionOnSet(g, T1)
      <3>1. e \in T /\ IsFiniteSet(T) /\ IsFiniteSet(T1)
        BY <2>2, ChosenIn, FS_Subset
      <3>2. /\ SumFunctionOnSet(f, T) = f[e] + F1
            /\ SumFunctionOnSet(g, T) = g[e] + G1
        BY <2>2, <3>1, SumChosen
      <3>3. Claim(T1)
        BY <1>1, <3>1
      <3>4. Cardinality(T) = n + 1 /\ n \in Nat
        <4>1. n = Cardinality(T) - 1 /\ Cardinality(T) \in Nat /\ n \in Nat
          BY <3>1, FS_RemoveElement, FS_CardinalityType
        <4> HIDE DEF n
        <4> QED BY <4>1
      <3>5. F1 \in Nat /\ G1 \in Nat
        <4>1. (\A x \in T1 : f[x] \in Nat) /\ (\A x \in T1 : g[x] \in Nat)
          BY DEF Scaled
        <4> HIDE DEF T1
        <4> QED BY <3>1, <4>1, SumNat
      <3>6. /\ f[e] \in Nat /\ g[e] \in Nat
            /\ s * g[e] <= c * f[e] /\ c * f[e] + 1 <= s * (g[e] + 1)
        BY <3>1, Zenon DEF Scaled
      <3>7. s * G1 <= c * F1 /\ c * F1 + n <= s * (G1 + n)
        BY <3>3, Zenon
      <3> HIDE DEF F1, G1, n, T1, e
      <3>8. /\ s * (g[e] + G1) <= c * (f[e] + F1)
            /\ c * (f[e] + F1) + (n + 1) <= s * ((g[e] + G1) + (n + 1))
        BY <3>4, <3>5, <3>6, <3>7, ScaledAdd
      <3>9. Claim(T)
        BY <3>2, <3>4, <3>8, Zenon
      <3> QED BY <3>9
    <2> QED BY <2>1, <2>2
  <1>2. \A T \in SUBSET S : T \in F
    <2> HIDE DEF F
    <2> QED BY <1>1, SubsetInduction, Zenon
  <1>3. S \in F
    BY <1>2
  <1> QED BY <1>3

(* Parts of c in proportion to the values f, rounded down, sum up to c but
   for less than one each. *)
LEMMA SumParts ==
    ASSUME NEW f, NEW g, NEW S, IsFiniteSet(S), S # {}, NEW c \in Nat, NEW s \in Nat \ {0},
           SumFunctionOnSet(f, S) = s, Scaled(f, g, S, c, s)
    PROVE  /\ SumFunctionOnSet(g, S) \in Nat /\ SumFunctionOnSet(g, S) <= c
           /\ SumFunctionOnSet(g, S) + Cardinality(S) > c
  <1> DEFINE G == SumFunctionOnSet(g, S)
             n == Cardinality(S)
  <1>1. G \in Nat
    <2>1. \A x \in S : g[x] \in Nat
      BY DEF Scaled
    <2> QED BY <2>1, SumNat
  <1>2. n \in Nat \ {0}
    BY FS_CardinalityType, FS_EmptySet
  <1>3. s * G <= c * s /\ c * s + n <= s * (G + n)
    BY SumScaled, Zenon
  <1> HIDE DEF G, n
  <1>4. c * s = s * c /\ s * c \in Nat /\ s * (G + n) \in Nat /\ s * G \in Nat
    BY <1>1, <1>2
  <1>5. ~ (G >= c + 1)
    <2> SUFFICES ASSUME G >= c + 1 PROVE FALSE
      OBVIOUS
    <2>1. s * G = s * c + s * (G - c) /\ s * (G - c) >= s
      BY <1>1
    <2> QED BY <1>1, <1>3, <1>4, <2>1
  <1>6. ~ (G + n <= c)
    <2> SUFFICES ASSUME G + n <= c PROVE FALSE
      OBVIOUS
    <2>1. s * c = s * (G + n) + s * (c - (G + n)) /\ s * (c - (G + n)) >= 0
      BY <1>1, <1>2
    <2> QED BY <1>1, <1>2, <1>3, <1>4, <2>1
  <1>7. G <= c /\ G + n > c
    BY <1>1, <1>2, <1>5, <1>6
  <1> QED BY <1>1, <1>7 DEF G, n

(* A set splits into any part of it and the rest. *)
LEMMA SumSplit ==
    ASSUME NEW f, NEW S, IsFiniteSet(S), \A x \in S : f[x] \in Int, NEW T \in SUBSET S
    PROVE  SumFunctionOnSet(f, S) =
                SumFunctionOnSet(f, T) + SumFunctionOnSet(f, S \ T)
  <1> DEFINE U == S \ T
  <1>1. IsFiniteSet(T) /\ IsFiniteSet(U)
    BY FS_Subset
  <1>2. T \cap U = {} /\ T \cup U = S
    OBVIOUS
  <1>3. \A x \in T \cup U : f[x] \in Int
    OBVIOUS
  <1> HIDE DEF U
  <1>4. SumFunctionOnSet(f, T \cup U) = SumFunctionOnSet(f, T) + SumFunctionOnSet(f, U)
    BY <1>1, <1>2, <1>3, SumUnion
  <1> QED BY <1>2, <1>4, Zenon DEF U

(* The same of a function that has numbers on a finite set, and of a      *)
(* single element of it.                                                   *)
Numbers(f, S) == IsFiniteSet(S) /\ \A x \in S : f[x] \in Int
Splits(f, S, T) ==
    SumFunctionOnSet(f, S) = SumFunctionOnSet(f, T) + SumFunctionOnSet(f, S \ T)
SplitsOff(f, S, e) ==
    SumFunctionOnSet(f, S) = f[e] + SumFunctionOnSet(f, S \ {e})

LEMMA SumPart ==
    ASSUME NEW f, NEW S, Numbers(f, S), NEW T \in SUBSET S
    PROVE  Splits(f, S, T)
  BY SumSplit DEF Numbers, Splits

LEMMA SumPoint ==
    ASSUME NEW f, NEW S, Numbers(f, S), NEW e \in S
    PROVE  SplitsOff(f, S, e)
  BY SumElement DEF Numbers, SplitsOff

-----------------------------------------------------------------------------
(* The sum of all values of a function *)

LEMMA SumFunctionType ==
    ASSUME NEW f, IsFiniteSet(DOMAIN f), \A x \in DOMAIN f : f[x] \in Nat
    PROVE  SumFunction(f) \in Nat
  BY SumNat DEF SumFunction

LEMMA SumFunctionEmpty ==
    ASSUME NEW f, DOMAIN f = {}
    PROVE  SumFunction(f) = 0
  BY SumEmpty DEF SumFunction

(* The function g has an argument e more than f. *)
LEMMA SumFunctionAdd ==
    ASSUME NEW f, NEW g, NEW e, IsFiniteSet(DOMAIN f), e \notin DOMAIN f,
           DOMAIN g = DOMAIN f \cup {e}, g[e] \in Int,
           \A x \in DOMAIN f : g[x] = f[x] /\ f[x] \in Int
    PROVE  SumFunction(g) = SumFunction(f) + g[e]
  <1> DEFINE D == DOMAIN f
  <1>1. \A x \in D \cup {e} : g[x] \in Int
    OBVIOUS
  <1>2. IsFiniteSet(D) /\ e \notin D /\ \A x \in D : g[x] = f[x]
    OBVIOUS
  <1> HIDE DEF D
  <1>3. SumFunctionOnSet(g, D \cup {e}) = SumFunctionOnSet(g, D) + g[e]
    BY <1>1, <1>2, SumAdd
  <1>4. SumFunctionOnSet(g, D) = SumFunctionOnSet(f, D)
    BY <1>2, SumAgree
  <1> QED BY <1>3, <1>4, Zenon DEF D, SumFunction

(* The function f is g on some of its arguments and h on the others. *)
LEMMA SumFunctionUnion ==
    ASSUME NEW f, NEW g, NEW h, IsFiniteSet(DOMAIN f),
           DOMAIN f = DOMAIN g \cup DOMAIN h, DOMAIN g \cap DOMAIN h = {},
           \A x \in DOMAIN f : f[x] \in Int,
           \A x \in DOMAIN g : g[x] = f[x],
           \A x \in DOMAIN h : h[x] = f[x]
    PROVE  SumFunction(f) = SumFunction(g) + SumFunction(h)
  <1> DEFINE G == DOMAIN g
             H == DOMAIN h
  <1>1. IsFiniteSet(G) /\ IsFiniteSet(H)
    BY FS_Subset
  <1>2. /\ G \cap H = {} /\ \A x \in G \cup H : f[x] \in Int
        /\ \A x \in G : g[x] = f[x]
        /\ \A x \in H : h[x] = f[x]
    OBVIOUS
  <1> HIDE DEF G, H
  <1>3. SumFunctionOnSet(f, G \cup H) = SumFunctionOnSet(f, G) + SumFunctionOnSet(f, H)
    BY <1>1, <1>2, SumUnion
  <1>4. SumFunctionOnSet(g, G) = SumFunctionOnSet(f, G)
    BY <1>1, <1>2, SumAgree
  <1>5. SumFunctionOnSet(h, H) = SumFunctionOnSet(f, H)
    BY <1>1, <1>2, SumAgree
  <1> QED BY <1>3, <1>4, <1>5, Zenon DEF G, H, SumFunction

(* The functions f and g differ at e only. *)
LEMMA SumFunctionUpdate ==
    ASSUME NEW f, NEW g, NEW e \in DOMAIN f, IsFiniteSet(DOMAIN f),
           DOMAIN g = DOMAIN f, g[e] \in Int,
           \A x \in DOMAIN f : f[x] \in Int,
           \A x \in DOMAIN f \ {e} : g[x] = f[x]
    PROVE  SumFunction(g) = SumFunction(f) + g[e] - f[e]
  <1> DEFINE D == DOMAIN f
  <1>1. /\ IsFiniteSet(D) /\ e \in D /\ \A x \in D : f[x] \in Int
        /\ \A x \in D \ {e} : g[x] = f[x]
    OBVIOUS
  <1> HIDE DEF D
  <1>2. SumFunctionOnSet(g, D) = SumFunctionOnSet(f, D) + g[e] - f[e]
    BY <1>1, SumUpdate
  <1> QED BY <1>2, Zenon DEF D, SumFunction

(* One argument alone. *)
LEMMA SumFunctionSingle ==
    ASSUME NEW f, NEW e, DOMAIN f = {e}, f[e] \in Int
    PROVE  SumFunction(f) = f[e]
  <1>1. IsFiniteSet({}) /\ e \notin {} /\ {} \cup {e} = {e}
    BY FS_EmptySet
  <1>2. \A x \in {} \cup {e} : f[x] \in Int
    OBVIOUS
  <1>3. SumFunctionOnSet(f, {} \cup {e}) = SumFunctionOnSet(f, {}) + f[e]
    BY <1>1, <1>2, SumAdd, Zenon
  <1>4. 0 + f[e] = f[e]
    OBVIOUS
  <1> QED BY <1>1, <1>3, <1>4, SumEmpty, Zenon DEF SumFunction

-----------------------------------------------------------------------------
(* Sums over the fields of records and the entries of tables *)

(* The functions f and g differ at e only, within S. *)
SameBut(S, e, f, g) == e \in S /\ \A x \in S : x # e => g[x] = f[x]

(* The sum of the balances of the records of fs. *)
SumBalances(M, fs) == SumFunction([m \in M |-> fs[m].balance])

Counted(M, fs) == IsFiniteSet(M) /\ \A m \in M : fs[m].balance \in Nat

LEMMA SumBalancesType ==
    ASSUME NEW M, NEW fs, Counted(M, fs)
    PROVE  SumBalances(M, fs) \in Nat
  <1> DEFINE f == [m \in M |-> fs[m].balance]
  <1>1. DOMAIN f = M /\ IsFiniteSet(M) /\ \A m \in M : f[m] \in Nat
    BY DEF Counted
  <1> HIDE DEF f
  <1>2. SumFunction(f) \in Nat
    BY <1>1, SumFunctionType
  <1> QED BY <1>2 DEF SumBalances, f

(* One record changes. *)
LEMMA SumBalancesChange ==
    ASSUME NEW M, NEW fs, NEW gs, NEW m, Counted(M, fs), Counted(M, gs),
           SameBut(M, m, fs, gs)
    PROVE  SumBalances(M, gs) = SumBalances(M, fs) + gs[m].balance - fs[m].balance
  <1> DEFINE f == [n \in M |-> fs[n].balance]
             g == [n \in M |-> gs[n].balance]
  <1>1. /\ DOMAIN f = M /\ DOMAIN g = M /\ f[m] = fs[m].balance /\ g[m] = gs[m].balance
        /\ \A n \in M : f[n] \in Int /\ g[n] \in Int
        /\ \A n \in M \ {m} : g[n] = f[n]
        /\ IsFiniteSet(M) /\ m \in M
    BY DEF Counted, SameBut
  <1> HIDE DEF f, g
  <1>2. SumFunction(g) = SumFunction(f) + g[m] - f[m]
    BY <1>1, SumFunctionUpdate
  <1> QED BY <1>1, <1>2, Zenon DEF SumBalances, f, g

(* The sum of a table's entries in column q. *)
SumColumn(v, q) == SumFunction([a \in DOMAIN v |-> v[a][q]])

Tabled(A, q, v) == IsFiniteSet(A) /\ v \in [A -> [{q} -> Nat]]

LEMMA SumColumnType ==
    ASSUME NEW A, NEW q, NEW v, Tabled(A, q, v)
    PROVE  SumColumn(v, q) \in Nat
  <1> DEFINE f == [a \in DOMAIN v |-> v[a][q]]
  <1>1. DOMAIN f = A /\ IsFiniteSet(A) /\ \A a \in A : f[a] \in Nat
    BY DEF Tabled
  <1> HIDE DEF f
  <1>2. SumFunction(f) \in Nat
    BY <1>1, SumFunctionType
  <1> QED BY <1>2 DEF SumColumn, f

(* One row changes. *)
LEMMA SumColumnChange ==
    ASSUME NEW A, NEW q, NEW v, NEW w, NEW a, Tabled(A, q, v), Tabled(A, q, w),
           SameBut(A, a, v, w)
    PROVE  SumColumn(w, q) = SumColumn(v, q) + w[a][q] - v[a][q]
  <1> DEFINE f == [b \in DOMAIN v |-> v[b][q]]
             g == [b \in DOMAIN w |-> w[b][q]]
  <1>1. /\ DOMAIN f = A /\ DOMAIN g = A /\ a \in A
        /\ f[a] = v[a][q] /\ g[a] = w[a][q]
        /\ \A b \in A \ {a} : g[b] = f[b]
    BY DEF SameBut, Tabled
  <1>2. IsFiniteSet(A) /\ \A b \in A : f[b] \in Int /\ g[b] \in Int
    BY DEF Tabled
  <1> HIDE DEF f, g
  <1>3. SumFunction(g) = SumFunction(f) + g[a] - f[a]
    BY <1>1, <1>2, SumFunctionUpdate
  <1> QED BY <1>1, <1>3, Zenon DEF SumColumn, f, g

(* The sum of the amounts of those records in S that have the denom d. *)
SumAmounts(S, d) == SumFunction([s \in {x \in S : x.denom = d} |-> s.amount])

Priced(S) == \A x \in S : x.amount \in Nat

LEMMA SumAmountsType ==
    ASSUME NEW S, IsFiniteSet(S), NEW d, Priced(S)
    PROVE  SumAmounts(S, d) \in Nat
  <1> DEFINE f == [s \in {x \in S : x.denom = d} |-> s.amount]
  <1>1. /\ DOMAIN f = {x \in S : x.denom = d} /\ \A x \in DOMAIN f : f[x] \in Nat
        /\ IsFiniteSet({x \in S : x.denom = d})
    BY FS_Subset DEF Priced
  <1> HIDE DEF f
  <1>2. SumFunction(f) \in Nat
    BY <1>1, SumFunctionType
  <1> QED BY <1>2 DEF SumAmounts, f

(* A record more. *)
LEMMA SumAmountsAdd ==
    ASSUME NEW S, IsFiniteSet(S), NEW s, s \notin S, NEW d,
           Priced(S \cup {s})
    PROVE  /\ SumAmounts(S, d) \in Nat
           /\ SumAmounts(S \cup {s}, d)
                = SumAmounts(S, d) + (IF s.denom = d THEN s.amount ELSE 0)
  <1> DEFINE D == {x \in S : x.denom = d}
             E == {x \in S \cup {s} : x.denom = d}
             f == [x \in D |-> x.amount]
             g == [x \in E |-> x.amount]
  <1>1. /\ DOMAIN f = D /\ \A x \in D : f[x] = x.amount /\ f[x] \in Nat
        /\ DOMAIN g = E /\ \A x \in E : g[x] = x.amount
        /\ s.amount \in Nat
    BY DEF Priced
  <1>2. IsFiniteSet(D)
    BY FS_Subset
  <1>3. /\ SumAmounts(S, d) = SumFunction(f) /\ SumAmounts(S \cup {s}, d) = SumFunction(g)
        /\ s.denom = d => E = D \cup {s} /\ s \notin D
        /\ s.denom # d => f = g
    BY DEF SumAmounts
  <1> HIDE DEF f, g, D, E
  <1>4. SumFunction(f) \in Nat
    BY <1>1, <1>2, SumFunctionType
  <1>5. CASE s.denom = d
    <2>1. g[s] = s.amount /\ \A x \in D : g[x] = f[x] /\ f[x] \in Int
      BY <1>1, <1>3, <1>5
    <2>2. SumFunction(g) = SumFunction(f) + g[s]
      BY <1>1, <1>2, <1>3, <1>5, <2>1, SumFunctionAdd
    <2> QED BY <1>3, <1>4, <1>5, <2>1, <2>2
  <1> QED BY <1>3, <1>4, <1>5

(* A record less. *)
LEMMA SumAmountsRemove ==
    ASSUME NEW S, IsFiniteSet(S), NEW s \in S, NEW d, Priced(S)
    PROVE  /\ SumAmounts(S \ {s}, d) \in Nat /\ SumAmounts(S, d) \in Nat
           /\ SumAmounts(S, d)
                = SumAmounts(S \ {s}, d) + (IF s.denom = d THEN s.amount ELSE 0)
  <1> DEFINE R == S \ {s}
  <1>1. /\ IsFiniteSet(R) /\ s \notin R /\ R \cup {s} = S /\ s.amount \in Nat
        /\ Priced(R \cup {s})
    BY FS_Subset DEF Priced
  <1> HIDE DEF R
  <1>2. /\ SumAmounts(R, d) \in Nat
        /\ SumAmounts(R \cup {s}, d) = SumAmounts(R, d) + (IF s.denom = d THEN s.amount ELSE 0)
    BY <1>1, SumAmountsAdd
  <1>3. SumAmounts(S, d) = SumAmounts(R, d) + (IF s.denom = d THEN s.amount ELSE 0)
    BY <1>1, <1>2
  <1>4. SumAmounts(S, d) \in Nat
    BY <1>1, <1>2, <1>3
  <1> QED BY <1>2, <1>3, <1>4 DEF R

LEMMA SumAmountsEmpty == \A d : SumAmounts({}, d) = 0
  <1> SUFFICES ASSUME NEW d PROVE SumAmounts({}, d) = 0
    OBVIOUS
  <1> DEFINE f == [s \in {x \in {} : x.denom = d} |-> s.amount]
  <1>1. DOMAIN f = {}
    OBVIOUS
  <1> HIDE DEF f
  <1>2. SumFunction(f) = 0
    BY <1>1, SumFunctionEmpty
  <1> QED BY <1>2 DEF SumAmounts, f
=============================================================================
