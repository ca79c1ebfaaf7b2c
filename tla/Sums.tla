-------------------------------- MODULE Sums --------------------------------
(***************************************************************************)
(* Facts about the sums that the models form with MapThenSumSet: what an   *)
(* element adds does not depend on the order in which the recursion takes  *)
(* the elements. The induction over the size of a set is made on a set of  *)
(* naturals, which has a least element.                                    *)
(***************************************************************************)
EXTENDS Integers, FiniteSets, TLAPS, WellFoundedInduction, FiniteSetTheorems

(* The recursion of MapThenSumSet for a function f, over the subsets of a  *)
(* set: g solves it at s.                                                  *)
Some(s) == CHOOSE x \in s : TRUE
Solves(g, f, s) == g[s] = IF s = {} THEN 0 ELSE f[Some(s)] + g[s \ {Some(s)}]
SumOf(f, S) ==
    (CHOOSE g : g = [s \in SUBSET S |->
                        IF s = {} THEN 0 ELSE f[Some(s)] + g[s \ {Some(s)}]])[S]

(* A set of naturals that is not empty has a least member.                 *)
LEMMA LeastMember ==
    ASSUME NEW T, T \subseteq Nat, T # {}
    PROVE  \E x \in T : \A y \in T : x <= y
  <1> DEFINE R == OpToRel(<, Nat)
  <1>1. IsWellFoundedOn(R, Nat) BY NatLessThanWellFounded
  <1>2. \A x, y \in Nat : x < y => <<x, y>> \in R BY DEF OpToRel
  <1> HIDE DEF R
  <1>3. PICK x \in T : \A y \in T : ~(<<y, x>> \in R) BY <1>1, WFMin
  <1>4. \A y \in T : x <= y
    <2> SUFFICES ASSUME NEW y \in T PROVE x <= y OBVIOUS
    <2>1. x \in Nat /\ y \in Nat OBVIOUS
    <2>2. ~(y < x) BY <1>2, <1>3, <2>1, Zenon
    <2> QED BY <2>1, <2>2
  <1> QED BY <1>4

(* A set that holds 0 and every successor of what it holds has all of Nat. *)
LEMMA SuccessorsReachAll ==
    ASSUME NEW T, 0 \in T, \A n \in Nat : n \in T => n + 1 \in T
    PROVE  \A n \in Nat : n \in T
  <1> SUFFICES ASSUME NEW n \in Nat, n \notin T PROVE FALSE OBVIOUS
  <1> DEFINE B == {m \in Nat : m \notin T}
  <1>1. PICK x \in B : \A y \in B : x <= y
    <2>1. B \subseteq Nat /\ B # {} OBVIOUS
    <2> HIDE DEF B
    <2> QED BY <2>1, LeastMember
  <1>2. x # 0 /\ x \in Nat /\ x \notin T OBVIOUS
  <1>3. x - 1 \in Nat /\ x - 1 \in T BY <1>1, <1>2
  <1>4. (x - 1) + 1 \in T BY <1>3
  <1> QED BY <1>2, <1>4

(* A set of sets that holds the empty set, and every finite set with an    *)
(* element without which it holds the set, has every finite set in it.     *)
LEMMA RemovalsReachAll ==
    ASSUME NEW S, IsFiniteSet(S), NEW P \in SUBSET SUBSET S, {} \in P,
           \A s \in SUBSET S : s # {} /\ (\A x \in s : s \ {x} \in P) => s \in P
    PROVE  \A s \in SUBSET S : s \in P
  <1> DEFINE Reached(n) == \A s \in SUBSET S : Cardinality(s) = n => s \in P
             T == {n \in Nat : Reached(n)}
  <1>0. \A s \in SUBSET S : IsFiniteSet(s) /\ Cardinality(s) \in Nat
    BY FS_Subset, FS_CardinalityType
  <1>1. Reached(0) BY <1>0, FS_EmptySet
  <1>2. ASSUME NEW n \in Nat, Reached(n) PROVE Reached(n + 1)
    <2> SUFFICES ASSUME NEW s \in SUBSET S, Cardinality(s) = n + 1 PROVE s \in P OBVIOUS
    <2>1. s # {} BY FS_EmptySet
    <2>2. ASSUME NEW x \in s PROVE Cardinality(s \ {x}) = n /\ s \ {x} \in SUBSET S
      <3>1. IsFiniteSet(s) BY <1>0
      <3>2. Cardinality(s \ {x}) = Cardinality(s) - 1 BY <3>1, FS_RemoveElement
      <3> QED BY <3>2
    <2> QED BY <1>2, <2>1, <2>2
  <1>3. \A n \in Nat : n \in T
    <2>1. 0 \in T BY <1>1
    <2>2. \A n \in Nat : n \in T => n + 1 \in T
      <3> HIDE DEF Reached
      <3> QED BY <1>2
    <2> HIDE DEF T
    <2> QED BY <2>1, <2>2, SuccessorsReachAll
  <1> QED BY <1>0, <1>3

LEMMA SomeIsMember == \A s : s # {} => Some(s) \in s
  BY DEF Some

(* The recursion has a solution, and its values agree with every other.    *)
LEMMA SolutionIsUnique ==
    ASSUME NEW S, IsFiniteSet(S), NEW f, NEW g, NEW h,
           \A s \in SUBSET S : Solves(g, f, s) /\ Solves(h, f, s)
    PROVE  \A s \in SUBSET S : g[s] = h[s]
  <1> DEFINE P == {s \in SUBSET S : g[s] = h[s]}
  <1>1. {} \in P BY DEF Solves
  <1>2. ASSUME NEW s \in SUBSET S, s # {}, \A x \in s : s \ {x} \in P PROVE s \in P
    BY <1>2, SomeIsMember DEF Solves
  <1>3. P \in SUBSET SUBSET S OBVIOUS
  <1> HIDE DEF P
  <1>4. \A s \in SUBSET S : s \in P BY <1>1, <1>2, <1>3, RemovalsReachAll
  <1> QED BY <1>4 DEF P

(* A recursion over the subsets of a finite set that takes out an element  *)
(* at a time has a solution.                                               *)
Follows(g, step, last, b, s) ==
    g[s] = IF s = {} THEN b ELSE step[last[s]][g[s \ {last[s]}]]

LEMMA RecursionExists ==
    ASSUME NEW S, IsFiniteSet(S), NEW b, NEW step, NEW last,
           \A s \in SUBSET S : s # {} => last[s] \in s
    PROVE  \E g : \A s \in SUBSET S : Follows(g, step, last, b, s)
  <1> USE DEF Follows
  <1> DEFINE Folds(g, s) == Follows(g, step, last, b, s)
             Upto(n) == \E g : \A s \in SUBSET S : Cardinality(s) <= n => Folds(g, s)
             T == {n \in Nat : Upto(n)}
  <1>0. \A s \in SUBSET S : IsFiniteSet(s) /\ Cardinality(s) \in Nat
    BY FS_Subset, FS_CardinalityType
  <1>1. ASSUME NEW s \in SUBSET S, s # {}
        PROVE  /\ last[s] \in S /\ s \ {last[s]} \in SUBSET S
               /\ Cardinality(s \ {last[s]}) = Cardinality(s) - 1
    BY <1>0, <1>1, FS_RemoveElement
  <1>2. Upto(0)
    <2> DEFINE g == [s \in SUBSET S |-> b]
    <2>1. \A s \in SUBSET S : Cardinality(s) <= 0 => s = {} BY <1>0, FS_EmptySet
    <2>2. \A s \in SUBSET S : Cardinality(s) <= 0 => Folds(g, s) BY <2>1
    <2> QED BY <2>2
  <1>3. ASSUME NEW n \in Nat, Upto(n) PROVE Upto(n + 1)
    <2>1. PICK g : \A s \in SUBSET S : Cardinality(s) <= n => Folds(g, s) BY <1>3
    <2> DEFINE h == [s \in SUBSET S |-> IF s = {} THEN b
                                        ELSE IF Cardinality(s) = n + 1
                                        THEN step[last[s]][g[s \ {last[s]}]] ELSE g[s]]
    <2>2. ASSUME NEW s \in SUBSET S, Cardinality(s) <= n + 1 PROVE Folds(h, s)
      <3>1. CASE s = {} BY <3>1
      <3>2. CASE s # {}
        <4>1. Cardinality(s \ {last[s]}) <= n /\ s \ {last[s]} \in SUBSET S
          BY <1>0, <1>1, <2>2, <3>2
        <4>2. h[s \ {last[s]}] = g[s \ {last[s]}] BY <1>0, <2>1, <4>1
        <4>3. CASE Cardinality(s) = n + 1 BY <3>2, <4>2, <4>3
        <4>4. CASE Cardinality(s) # n + 1
          <5>1. Cardinality(s) <= n BY <1>0, <2>2, <4>4
          <5>2. Folds(g, s) BY <2>1, <5>1
          <5> QED BY <3>2, <4>2, <4>4, <5>2
        <4> QED BY <4>3, <4>4
      <3> QED BY <3>1, <3>2
    <2> HIDE DEF h, Folds
    <2> QED BY <2>2
  <1>4. \A n \in Nat : n \in T
    <2>1. 0 \in T BY <1>2
    <2>2. \A n \in Nat : n \in T => n + 1 \in T
      <3> HIDE DEF Upto
      <3> QED BY <1>3
    <2> HIDE DEF T
    <2> QED BY <2>1, <2>2, SuccessorsReachAll
  <1>5. Upto(Cardinality(S)) BY <1>4, FS_CardinalityType
  <1>6. \A s \in SUBSET S : Cardinality(s) <= Cardinality(S) BY FS_Subset
  <1> QED BY <1>5, <1>6

(* What solves such a recursion is in V[s] at every s.                     *)
LEMMA RecursionStays ==
    ASSUME NEW S, IsFiniteSet(S), NEW V, NEW g, NEW last, g[{}] \in V[{}],
           \A s \in SUBSET S : s # {} => last[s] \in s,
           \A s \in SUBSET S : s # {} /\ g[s \ {last[s]}] \in V[s \ {last[s]}] => g[s] \in V[s]
    PROVE  \A s \in SUBSET S : g[s] \in V[s]
  <1> DEFINE P == {s \in SUBSET S : g[s] \in V[s]}
  <1>1. {} \in P OBVIOUS
  <1>2. ASSUME NEW s \in SUBSET S, s # {}, \A x \in s : s \ {x} \in P PROVE s \in P BY <1>2
  <1>3. P \in SUBSET SUBSET S OBVIOUS
  <1> HIDE DEF P
  <1>4. \A s \in SUBSET S : s \in P BY <1>1, <1>2, <1>3, RemovalsReachAll
  <1> QED BY <1>4 DEF P

LEMMA RecursionIn ==
    ASSUME NEW S, IsFiniteSet(S), NEW V, NEW b, b \in V[{}], NEW step, NEW last,
           \A s \in SUBSET S : s # {} => last[s] \in s,
           \A s \in SUBSET S : s # {} =>
               \A v \in V[s \ {last[s]}] : step[last[s]][v] \in V[s]
    PROVE  \E g : \A s \in SUBSET S : Follows(g, step, last, b, s) /\ g[s] \in V[s]
  <1>1. PICK g : \A s \in SUBSET S : Follows(g, step, last, b, s) BY RecursionExists
  <1>2. g[{}] \in V[{}] BY <1>1 DEF Follows
  <1>3. ASSUME NEW s \in SUBSET S, s # {}, g[s \ {last[s]}] \in V[s \ {last[s]}]
        PROVE  g[s] \in V[s]
    BY <1>1, <1>3 DEF Follows
  <1>4. \A s \in SUBSET S : g[s] \in V[s] BY <1>2, <1>3, RecursionStays
  <1> QED BY <1>1, <1>4

LEMMA SolutionExists ==
    ASSUME NEW S, IsFiniteSet(S), NEW f, \A x \in S : f[x] \in Int
    PROVE  \E g \in [SUBSET S -> Int] : \A s \in SUBSET S : Solves(g, f, s)
  <1> DEFINE step == [x \in S |-> [v \in Int |-> f[x] + v]]
             last == [s \in SUBSET S |-> Some(s)]
             V == [s \in SUBSET S |-> Int]
  <1>1. \A x \in S, v \in Int : step[x][v] = f[x] + v /\ step[x][v] \in Int OBVIOUS
  <1>2. \A s \in SUBSET S : last[s] = Some(s) /\ (s # {} => last[s] \in s) BY SomeIsMember
  <1>3. \A s \in SUBSET S : V[s] = Int /\ V[{}] = Int OBVIOUS
  <1> HIDE DEF step, last, V
  <1>4. PICK g : \A s \in SUBSET S : Follows(g, step, last, 0, s) /\ g[s] \in V[s]
    <2>1. 0 \in V[{}] BY <1>3
    <2>2. ASSUME NEW s \in SUBSET S, s # {}, NEW v \in V[s \ {last[s]}]
          PROVE  step[last[s]][v] \in V[s]
      BY <1>1, <1>2, <1>3, <2>2
    <2>3. \A s \in SUBSET S : s # {} =>
              \A v \in V[s \ {last[s]}] : step[last[s]][v] \in V[s]
      BY <2>2
    <2>4. \A s \in SUBSET S : s # {} => last[s] \in s BY <1>2
    <2> QED BY <2>1, <2>3, <2>4, RecursionIn
  <1> DEFINE h == [s \in SUBSET S |-> g[s]]
  <1>5. h \in [SUBSET S -> Int] BY <1>3, <1>4
  <1>6. ASSUME NEW s \in SUBSET S PROVE Solves(h, f, s)
    <2>1. CASE s = {} BY <1>4, <2>1 DEF Solves, Follows
    <2>2. CASE s # {}
      <3>1. Some(s) \in S /\ s \ {Some(s)} \in SUBSET S BY <2>2, SomeIsMember
      <3>2. g[s] = step[Some(s)][g[s \ {Some(s)}]] BY <1>2, <1>4, <2>2 DEF Follows
      <3>3. g[s \ {Some(s)}] \in Int BY <1>3, <1>4, <3>1
      <3> QED BY <1>1, <2>2, <3>1, <3>2, <3>3 DEF Solves
    <2> QED BY <2>1, <2>2
  <1> HIDE DEF h
  <1> QED BY <1>5, <1>6

(* SumOf is that solution, at the whole set.                               *)
LEMMA SumIsSolution ==
    ASSUME NEW S, IsFiniteSet(S), NEW f, \A x \in S : f[x] \in Int
    PROVE  \E g \in [SUBSET S -> Int] :
               (\A s \in SUBSET S : Solves(g, f, s)) /\ SumOf(f, S) = g[S]
  <1> DEFINE G == CHOOSE g : g = [s \in SUBSET S |->
                                    IF s = {} THEN 0 ELSE f[Some(s)] + g[s \ {Some(s)}]]
  <1>1. PICK g \in [SUBSET S -> Int] : \A s \in SUBSET S : Solves(g, f, s) BY SolutionExists
  <1>2. g = [s \in SUBSET S |-> IF s = {} THEN 0 ELSE f[Some(s)] + g[s \ {Some(s)}]]
    BY <1>1 DEF Solves
  <1>3. G = [s \in SUBSET S |-> IF s = {} THEN 0 ELSE f[Some(s)] + G[s \ {Some(s)}]] BY <1>2, Zenon
  <1>4. PICK h : /\ h = [s \in SUBSET S |->
                            IF s = {} THEN 0 ELSE f[Some(s)] + h[s \ {Some(s)}]]
                 /\ SumOf(f, S) = h[S]
    BY <1>3, Zenon DEF SumOf
  <1>5. \A s \in SUBSET S : Solves(h, f, s) /\ Solves(g, f, s) BY <1>1, <1>4 DEF Solves
  <1>6. \A s \in SUBSET S : h[s] = g[s] BY <1>5, SolutionIsUnique, SMTT(40)
  <1> QED BY <1>1, <1>4, <1>6

(* Any solution of the recursion over a set gives the sum of each subset.  *)
LEMMA SumOfSubset ==
    ASSUME NEW S, IsFiniteSet(S), NEW f, \A x \in S : f[x] \in Int,
           NEW g, \A s \in SUBSET S : Solves(g, f, s), NEW R \in SUBSET S
    PROVE  SumOf(f, R) = g[R]
  <1>1. IsFiniteSet(R) BY FS_Subset
  <1>2. PICK h \in [SUBSET R -> Int] :
            (\A s \in SUBSET R : Solves(h, f, s)) /\ SumOf(f, R) = h[R]
    BY <1>1, SumIsSolution
  <1>3. \A s \in SUBSET R : Solves(g, f, s) OBVIOUS
  <1>4. h[R] = g[R]
    <2>1. \A s \in SUBSET R : Solves(h, f, s) /\ Solves(g, f, s) BY <1>2, <1>3
    <2>2. \A s \in SUBSET R : h[s] = g[s] BY <1>1, <2>1, SolutionIsUnique
    <2> QED BY <2>2
  <1> QED BY <1>2, <1>4

(* The sum of nothing, and the type of a sum.                              *)
LEMMA SumOfNothing == \A f : SumOf(f, {}) = 0
  BY FS_EmptySet, SumIsSolution DEF Solves

LEMMA SumIsInteger ==
    ASSUME NEW S, IsFiniteSet(S), NEW f, \A x \in S : f[x] \in Int
    PROVE  SumOf(f, S) \in Int
  <1>1. PICK g \in [SUBSET S -> Int] :
            (\A s \in SUBSET S : Solves(g, f, s)) /\ SumOf(f, S) = g[S]
    BY SumIsSolution
  <1> QED BY <1>1

(* An element adds its value, whichever element it is.                     *)
LEMMA TakeOut ==
    ASSUME NEW S, IsFiniteSet(S), NEW f, \A x \in S : f[x] \in Int, NEW k \in S
    PROVE  SumOf(f, S) = f[k] + SumOf(f, S \ {k})
  <1>1. PICK g \in [SUBSET S -> Int] :
            (\A s \in SUBSET S : Solves(g, f, s)) /\ SumOf(f, S) = g[S]
    BY SumIsSolution
  <1> DEFINE P == {s \in SUBSET S : \A y \in s : g[s] = f[y] + g[s \ {y}]}
  <1>2. {} \in P OBVIOUS
  <1>3. ASSUME NEW s \in SUBSET S, s # {}, \A x \in s : s \ {x} \in P PROVE s \in P
    <2> SUFFICES ASSUME NEW y \in s PROVE g[s] = f[y] + g[s \ {y}] OBVIOUS
    <2>1. PICK x \in s : g[s] = f[x] + g[s \ {x}] BY <1>1, <1>3, SomeIsMember DEF Solves
    <2>2. CASE x = y BY <2>1, <2>2
    <2>3. CASE x # y
      <3>1. g[s \ {x}] = f[y] + g[(s \ {y}) \ {x}] BY <1>3, <2>3
      <3>2. g[s \ {y}] = f[x] + g[(s \ {y}) \ {x}] BY <1>3, <2>3
      <3>3. PICK a \in Int, b \in Int, c \in Int :
                a = f[x] /\ b = f[y] /\ c = g[(s \ {y}) \ {x}]
        OBVIOUS
      <3>4. g[s] = a + (b + c) BY <2>1, <3>1, <3>3
      <3>5. g[s \ {y}] = a + c BY <3>2, <3>3
      <3> QED BY <3>3, <3>4, <3>5
    <2> QED BY <2>2, <2>3
  <1>4. P \in SUBSET SUBSET S OBVIOUS
  <1> HIDE DEF P
  <1>5. S \in P BY <1>2, <1>3, <1>4, RemovalsReachAll
  <1>6. g[S] = f[k] + g[S \ {k}] BY <1>5 DEF P
  <1>7. SumOf(f, S \ {k}) = g[S \ {k}] BY <1>1, SumOfSubset
  <1> QED BY <1>1, <1>6, <1>7

(* Functions that agree on a set have the same sum over it.                *)
LEMMA SumsAgree ==
    ASSUME NEW S, IsFiniteSet(S), NEW f, NEW h,
           \A x \in S : f[x] \in Int /\ h[x] = f[x]
    PROVE  SumOf(h, S) = SumOf(f, S)
  <1>1. PICK g \in [SUBSET S -> Int] :
            (\A s \in SUBSET S : Solves(g, f, s)) /\ SumOf(f, S) = g[S]
    BY SumIsSolution
  <1>2. ASSUME NEW s \in SUBSET S PROVE Solves(g, h, s) BY <1>1, SomeIsMember DEF Solves
  <1>3. SumOf(h, S) = g[S] BY <1>2, SumOfSubset
  <1> QED BY <1>1, <1>3

(* A sum of naturals is one, and no less than any of them.                 *)
LEMMA SumIsNatural ==
    ASSUME NEW S, IsFiniteSet(S), NEW f, \A x \in S : f[x] \in Nat
    PROVE  SumOf(f, S) \in Nat
  <1>1. PICK g \in [SUBSET S -> Int] :
            (\A s \in SUBSET S : Solves(g, f, s)) /\ SumOf(f, S) = g[S]
    <2>1. \A x \in S : f[x] \in Int OBVIOUS
    <2> QED BY <2>1, SumIsSolution
  <1> DEFINE P == {s \in SUBSET S : g[s] \in Nat}
  <1>2. {} \in P
    <2>1. Solves(g, f, {}) BY <1>1
    <2>2. g[{}] = 0 BY <2>1 DEF Solves
    <2> QED BY <2>2
  <1>3. ASSUME NEW s \in SUBSET S, s # {}, \A x \in s : s \ {x} \in P PROVE s \in P
    <2>1. PICK x \in s : g[s] = f[x] + g[s \ {x}] BY <1>1, <1>3, SomeIsMember DEF Solves
    <2>2. f[x] \in Nat /\ g[s \ {x}] \in Nat BY <1>3
    <2>3. \A a, b \in Nat : a + b \in Nat OBVIOUS
    <2> QED BY <2>1, <2>2, <2>3
  <1>4. P \in SUBSET SUBSET S OBVIOUS
  <1> HIDE DEF P
  <1>5. S \in P BY <1>2, <1>3, <1>4, RemovalsReachAll
  <1> QED BY <1>1, <1>5 DEF P

(* A part of a set of naturals adds up to no more than the whole.          *)
LEMMA PartIsNoMore ==
    ASSUME NEW S, IsFiniteSet(S), NEW f, \A x \in S : f[x] \in Nat, NEW R \in SUBSET S
    PROVE  SumOf(f, R) <= SumOf(f, S)
  <1> DEFINE P == {s \in SUBSET S : SumOf(f, S \ s) <= SumOf(f, S)}
  <1>0. \A s \in SUBSET S : IsFiniteSet(s) /\ SumOf(f, s) \in Nat BY FS_Subset, SumIsNatural
  <1>1. {} \in P BY <1>0
  <1>2. ASSUME NEW s \in SUBSET S, s # {}, \A x \in s : s \ {x} \in P PROVE s \in P
    <2>1. PICK x \in s : SumOf(f, S \ (s \ {x})) <= SumOf(f, S) BY <1>2
    <2> DEFINE T == S \ (s \ {x})
    <2>2. T \in SUBSET S /\ x \in T /\ T \ {x} = S \ s /\ S \ s \in SUBSET S OBVIOUS
    <2>3. IsFiniteSet(T) /\ \A y \in T : f[y] \in Int BY <1>0, <2>2
    <2> HIDE DEF T
    <2>4. SumOf(f, T) = f[x] + SumOf(f, T \ {x}) BY <2>2, <2>3, TakeOut
    <2>5. SumOf(f, S \ s) <= SumOf(f, T)
      <3>1. f[x] \in Nat /\ SumOf(f, S \ s) \in Nat BY <1>0, <2>2
      <3> QED BY <2>2, <2>4, <3>1
    <2>6. SumOf(f, T) \in Nat /\ SumOf(f, S) \in Nat /\ SumOf(f, S \ s) \in Nat BY <1>0, <2>2
    <2>7. SumOf(f, S \ s) <= SumOf(f, S) BY <2>1, <2>5, <2>6 DEF T
    <2> QED BY <2>7
  <1>3. P \in SUBSET SUBSET S OBVIOUS
  <1> HIDE DEF P
  <1>4. S \ R \in P BY <1>1, <1>2, <1>3, RemovalsReachAll
  <1>5. S \ (S \ R) = R OBVIOUS
  <1> QED BY <1>4, <1>5 DEF P

(* Two functions that differ at one element.                               *)
LEMMA SumChanges ==
    ASSUME NEW S, IsFiniteSet(S), NEW f, NEW h, NEW k \in S,
           \A x \in S : f[x] \in Int /\ h[x] \in Int,
           \A x \in S \ {k} : h[x] = f[x]
    PROVE  SumOf(h, S) = SumOf(f, S) + (h[k] - f[k])
  <1>1. SumOf(f, S) = f[k] + SumOf(f, S \ {k}) BY TakeOut
  <1>2. SumOf(h, S) = h[k] + SumOf(h, S \ {k}) BY TakeOut
  <1>3. IsFiniteSet(S \ {k}) BY FS_RemoveElement
  <1>4. SumOf(h, S \ {k}) = SumOf(f, S \ {k}) /\ SumOf(f, S \ {k}) \in Int
    BY <1>3, SumsAgree, SumIsInteger
  <1>5. PICK a \in Int, b \in Int, c \in Int : a = f[k] /\ b = h[k] /\ c = SumOf(f, S \ {k}) BY <1>4
  <1> QED BY <1>1, <1>2, <1>4, <1>5

(* The sum of sums, and of multiples.                                      *)
LEMMA SumIsLinear ==
    ASSUME NEW S, IsFiniteSet(S), NEW f, NEW g, NEW h, NEW c \in Int,
           \A x \in S : f[x] \in Int /\ g[x] \in Int /\ h[x] = f[x] + c * g[x]
    PROVE  SumOf(h, S) = SumOf(f, S) + c * SumOf(g, S)
  <1>1. PICK F \in [SUBSET S -> Int] :
            (\A s \in SUBSET S : Solves(F, f, s)) /\ SumOf(f, S) = F[S]
    BY SumIsSolution
  <1>2. PICK G \in [SUBSET S -> Int] :
            (\A s \in SUBSET S : Solves(G, g, s)) /\ SumOf(g, S) = G[S]
    BY SumIsSolution
  <1> DEFINE H == [s \in SUBSET S |-> F[s] + c * G[s]]
  <1>3. ASSUME NEW s \in SUBSET S PROVE Solves(H, h, s)
    <2>1. CASE s = {}
      <3>1. F[{}] = 0 /\ G[{}] = 0 BY <1>1, <1>2 DEF Solves
      <3> QED BY <2>1, <3>1 DEF Solves
    <2>2. CASE s # {}
      <3> DEFINE x == Some(s)
                 r == s \ {x}
      <3>1. x \in S /\ r \in SUBSET S BY <2>2, SomeIsMember
      <3>2. F[s] = f[x] + F[r] /\ G[s] = g[x] + G[r] BY <1>1, <1>2, <2>2 DEF Solves
      <3>3. PICK m \in Int, n \in Int, u \in Int, v \in Int :
                m = f[x] /\ n = g[x] /\ u = F[r] /\ v = G[r]
        BY <3>1
      <3>4. H[s] = (m + u) + c * (n + v) /\ h[x] = m + c * n /\ H[r] = u + c * v BY <3>1, <3>2, <3>3
      <3>5. (m + u) + c * (n + v) = (m + c * n) + (u + c * v) BY <3>3
      <3>6. H[s] = h[x] + H[r] BY <3>4, <3>5
      <3> QED BY <2>2, <3>6 DEF Solves
    <2> QED BY <2>1, <2>2
  <1>4. H[S] = F[S] + c * G[S] OBVIOUS
  <1>5. \A x \in S : h[x] \in Int OBVIOUS
  <1>6. SumOf(h, S) = H[S]
    <2> HIDE DEF H
    <2> QED BY <1>3, <1>5, SumOfSubset
  <1> QED BY <1>1, <1>2, <1>4, <1>6

(* The same number for every element.                                      *)
LEMMA SumOfConstant ==
    ASSUME NEW S, IsFiniteSet(S), NEW c \in Int, NEW f, \A x \in S : f[x] = c
    PROVE  SumOf(f, S) = c * Cardinality(S)
  <1> DEFINE g == [s \in SUBSET S |-> c * Cardinality(s)]
  <1>0. \A s \in SUBSET S : IsFiniteSet(s) /\ Cardinality(s) \in Nat
    BY FS_Subset, FS_CardinalityType
  <1>1. ASSUME NEW s \in SUBSET S PROVE Solves(g, f, s)
    <2>1. CASE s = {} BY <2>1, FS_EmptySet DEF Solves
    <2>2. CASE s # {}
      <3> DEFINE x == Some(s)
      <3>1. x \in s BY <2>2, SomeIsMember
      <3>2. Cardinality(s \ {x}) = Cardinality(s) - 1 BY <1>0, <3>1, FS_RemoveElement
      <3>3. PICK n \in Int : n = Cardinality(s) BY <1>0
      <3>4. c * n = c + c * (n - 1) BY <3>3
      <3>5. g[s] = f[x] + g[s \ {x}] BY <3>1, <3>2, <3>3, <3>4
      <3> QED BY <2>2, <3>5 DEF Solves
    <2> QED BY <2>1, <2>2
  <1>2. g[S] = c * Cardinality(S) OBVIOUS
  <1>3. SumOf(f, S) = g[S]
    <2> HIDE DEF g
    <2> QED BY <1>1, SumOfSubset
  <1> QED BY <1>2, <1>3

(* A finite set that is not empty has a member with the greatest value.    *)
LEMMA GreatestValue ==
    ASSUME NEW S, IsFiniteSet(S), S # {}, NEW f, \A x \in S : f[x] \in Int
    PROVE  \E x \in S : \A y \in S : f[x] >= f[y]
  <1> DEFINE P == {s \in SUBSET S : s = {} \/ \E x \in s : \A y \in s : f[x] >= f[y]}
  <1>1. {} \in P OBVIOUS
  <1>2. ASSUME NEW s \in SUBSET S, s # {}, \A x \in s : s \ {x} \in P PROVE s \in P
    <2>1. PICK x \in s : s \ {x} \in P BY <1>2
    <2>2. CASE s \ {x} = {} BY <2>2
    <2>3. CASE s \ {x} # {}
      <3>1. PICK z \in s \ {x} : \A y \in s \ {x} : f[z] >= f[y] BY <2>1, <2>3
      <3>2. CASE f[x] >= f[z] BY <3>1, <3>2
      <3>3. CASE ~(f[x] >= f[z]) BY <3>1, <3>3
      <3> QED BY <3>2, <3>3
    <2> QED BY <2>2, <2>3
  <1>3. P \in SUBSET SUBSET S OBVIOUS
  <1> HIDE DEF P
  <1>4. S \in P BY <1>1, <1>2, <1>3, RemovalsReachAll
  <1> QED BY <1>4 DEF P

LEMMA GreatestMember ==
    ASSUME NEW S, IsFiniteSet(S), S \subseteq Int, S # {}
    PROVE  \E x \in S : \A y \in S : x >= y
  <1> DEFINE f == [x \in S |-> x]
  <1>1. \A x \in S : f[x] = x /\ f[x] \in Int OBVIOUS
  <1> HIDE DEF f
  <1>2. \E x \in S : \A y \in S : f[x] >= f[y] BY <1>1, GreatestValue
  <1> QED BY <1>1, <1>2

(* The sum over two sets that share nothing.                               *)
LEMMA SumOfUnion ==
    ASSUME NEW S, IsFiniteSet(S), NEW T, IsFiniteSet(T), S \cap T = {}, NEW f,
           \A x \in S \cup T : f[x] \in Int
    PROVE  SumOf(f, S \cup T) = SumOf(f, S) + SumOf(f, T)
  <1> DEFINE P == {t \in SUBSET T : SumOf(f, S \cup t) = SumOf(f, S) + SumOf(f, t)}
  <1>0. \A t \in SUBSET T : IsFiniteSet(t) /\ IsFiniteSet(S \cup t) BY FS_Subset, FS_Union
  <1>1. {} \in P BY SumIsInteger, SumOfNothing
  <1>2. ASSUME NEW t \in SUBSET T, t # {}, \A x \in t : t \ {x} \in P PROVE t \in P
    <2>1. PICK x \in t : SumOf(f, S \cup (t \ {x})) = SumOf(f, S) + SumOf(f, t \ {x}) BY <1>2
    <2>2. (S \cup t) \ {x} = S \cup (t \ {x}) /\ x \in S \cup t BY <2>1
    <2>3. SumOf(f, S \cup t) = f[x] + SumOf(f, S \cup (t \ {x}))
      <3>1. \A y \in S \cup t : f[y] \in Int OBVIOUS
      <3>2. SumOf(f, S \cup t) = f[x] + SumOf(f, (S \cup t) \ {x}) BY <1>0, <2>2, <3>1, TakeOut
      <3> QED BY <2>2, <3>2
    <2>4. SumOf(f, t) = f[x] + SumOf(f, t \ {x}) BY <1>0, TakeOut
    <2>5. PICK a \in Int, b \in Int, c \in Int :
              a = f[x] /\ b = SumOf(f, S) /\ c = SumOf(f, t \ {x})
      BY <1>0, SumIsInteger
    <2>6. SumOf(f, S \cup t) = SumOf(f, S) + SumOf(f, t) BY <2>1, <2>3, <2>4, <2>5
    <2> QED BY <2>6
  <1>3. P \in SUBSET SUBSET T OBVIOUS
  <1> HIDE DEF P
  <1>4. T \in P BY <1>1, <1>2, <1>3, RemovalsReachAll
  <1> QED BY <1>4 DEF P

(* Elements that count nothing may be left out.                            *)
LEMMA SumOfPart ==
    ASSUME NEW S, IsFiniteSet(S), NEW R \in SUBSET S, NEW f, \A x \in S : f[x] \in Int,
           \A x \in S \ R : f[x] = 0
    PROVE  SumOf(f, S) = SumOf(f, R)
  <1>1. IsFiniteSet(R) /\ IsFiniteSet(S \ R) /\ R \cup (S \ R) = S /\ R \cap (S \ R) = {}
    BY FS_Subset
  <1>2. SumOf(f, R \cup (S \ R)) = SumOf(f, R) + SumOf(f, S \ R) BY <1>1, SumOfUnion
  <1>3. SumOf(f, S \ R) = 0 BY <1>1, SumOfConstant, FS_CardinalityType
  <1>4. SumOf(f, R) \in Int BY <1>1, SumIsInteger
  <1>5. SumOf(f, S) = SumOf(f, R \cup (S \ R)) BY <1>1, Zenon
  <1> QED BY <1>2, <1>3, <1>4, <1>5

(* Another name for every element.                                         *)
LEMMA SumRenamed ==
    ASSUME NEW T, IsFiniteSet(T), NEW f, NEW g, NEW h,
           \A x \in T : g[x] = f[h[x]] /\ f[h[x]] \in Int,
           \A x, y \in T : h[x] = h[y] => x = y
    PROVE  /\ IsFiniteSet({h[x] : x \in T})
           /\ SumOf(g, T) = SumOf(f, {h[x] : x \in T})
  <1> DEFINE I(t) == {h[x] : x \in t}
             P == {t \in SUBSET T : IsFiniteSet(I(t)) /\ SumOf(g, t) = SumOf(f, I(t))}
  <1>0. \A t \in SUBSET T : IsFiniteSet(t) BY FS_Subset
  <1>1. {} \in P BY SumOfNothing, FS_EmptySet
  <1>2. ASSUME NEW t \in SUBSET T, t # {}, \A x \in t : t \ {x} \in P PROVE t \in P
    <2>1. PICK x \in t : /\ IsFiniteSet(I(t \ {x}))
                         /\ SumOf(g, t \ {x}) = SumOf(f, I(t \ {x}))
      BY <1>2
    <2>2. /\ I(t) = I(t \ {x}) \cup {h[x]} /\ h[x] \in I(t)
          /\ I(t) \ {h[x]} = I(t \ {x})
      BY <2>1
    <2>3. IsFiniteSet(I(t \ {x}) \cup {h[x]})
      <3> HIDE DEF I
      <3> QED BY <2>1, FS_AddElement
    <2>4. \A y \in I(t) : f[y] \in Int OBVIOUS
    <2>5. \A y \in t : g[y] \in Int OBVIOUS
    <2>6. g[x] = f[h[x]] BY <2>1
    <2>7. IsFiniteSet(I(t)) BY <2>2, <2>3
    <2> HIDE DEF I
    <2>8. SumOf(f, I(t)) = f[h[x]] + SumOf(f, I(t) \ {h[x]}) BY <2>2, <2>4, <2>7, TakeOut
    <2>9. SumOf(g, t) = g[x] + SumOf(g, t \ {x}) BY <1>0, <2>1, <2>5, TakeOut
    <2> QED BY <2>1, <2>2, <2>6, <2>7, <2>8, <2>9
  <1>3. P \in SUBSET SUBSET T OBVIOUS
  <1> HIDE DEF P
  <1>4. T \in P BY <1>1, <1>2, <1>3, RemovalsReachAll
  <1> QED BY <1>4 DEF P

(* A finite set of integers can be written in increasing order.            *)
Lists(e, S) ==
    /\ e \in [1..Cardinality(S) -> S]
    /\ \A i, j \in 1..Cardinality(S) : i < j => e[i] < e[j]
    /\ \A x \in S : \E i \in 1..Cardinality(S) : e[i] = x

LEMMA ListExists ==
    ASSUME NEW S, IsFiniteSet(S), S \subseteq Int
    PROVE  \E e : Lists(e, S)
  <1> DEFINE P == {s \in SUBSET S : \E e : Lists(e, s)}
  <1>1. {} \in P
    <2>1. Cardinality({}) = 0 BY FS_EmptySet
    <2>2. Lists([i \in 1..0 |-> i], {}) BY <2>1 DEF Lists
    <2> QED BY <2>2
  <1>2. ASSUME NEW s \in SUBSET S, s # {}, \A x \in s : s \ {x} \in P PROVE s \in P
    <2>1. IsFiniteSet(s) /\ s \subseteq Int BY FS_Subset
    <2>2. PICK m \in s : \A y \in s : m >= y BY <1>2, <2>1, GreatestMember
    <2>3. PICK e : Lists(e, s \ {m}) BY <1>2
    <2>4. PICK n \in Nat : n = Cardinality(s \ {m}) /\ Cardinality(s) = n + 1
      <3>1. Cardinality(s) \in Nat /\ Cardinality(s \ {m}) = Cardinality(s) - 1
            /\ IsFiniteSet(s \ {m})
        BY <2>1, FS_CardinalityType, FS_RemoveElement
      <3>2. Cardinality(s \ {m}) \in Nat BY <3>1, FS_CardinalityType
      <3> QED BY <3>1, <3>2
    <2> DEFINE d == [i \in 1..(n + 1) |-> IF i = n + 1 THEN m ELSE e[i]]
    <2>5. \A i \in 1..n : e[i] \in s \ {m} BY <2>3, <2>4 DEF Lists
    <2>6. d \in [1..(n + 1) -> s] BY <2>5
    <2>7. ASSUME NEW i \in 1..(n + 1), NEW j \in 1..(n + 1), i < j PROVE d[i] < d[j]
      <3>1. i \in 1..n /\ d[i] = e[i] BY <2>7
      <3>2. CASE j = n + 1
        <4>1. d[j] = m BY <3>2
        <4>2. e[i] \in Int /\ m \in Int /\ m >= e[i] /\ e[i] # m BY <2>1, <2>2, <2>5, <3>1
        <4> QED BY <3>1, <4>1, <4>2
      <3>3. CASE j # n + 1
        <4>1. j \in 1..n /\ d[j] = e[j] BY <3>3
        <4> QED BY <2>3, <2>4, <2>7, <3>1, <4>1 DEF Lists
      <3> QED BY <3>2, <3>3
    <2>8. ASSUME NEW x \in s PROVE \E i \in 1..(n + 1) : d[i] = x
      <3>1. CASE x = m BY <3>1
      <3>2. CASE x # m
        <4>1. PICK i \in 1..n : e[i] = x BY <2>3, <2>4, <3>2 DEF Lists
        <4>2. i \in 1..(n + 1) /\ d[i] = e[i] OBVIOUS
        <4> QED BY <4>1, <4>2
      <3> QED BY <3>1, <3>2
    <2> HIDE DEF d
    <2>9. Lists(d, s) BY <2>4, <2>6, <2>7, <2>8 DEF Lists
    <2> QED BY <2>9
  <1>3. P \in SUBSET SUBSET S OBVIOUS
  <1> HIDE DEF P
  <1>4. S \in P BY <1>1, <1>2, <1>3, RemovalsReachAll
  <1> QED BY <1>4 DEF P

(* A set of the numbers 1 and 2 whose members are all the same one.       *)
LEMMA AtMostOne ==
    ASSUME NEW S, S \subseteq {1, 2}, \A m, n \in S : m = n
    PROVE  Cardinality(S) <= 1
  <1>1. CASE S = {} BY <1>1, FS_EmptySet
  <1>2. CASE S # {}
    <2>1. PICK n \in S : S = {n} BY <1>2
    <2>2. Cardinality(S) = 1 BY <2>1, FS_Singleton
    <2> QED BY <2>2
  <1> QED BY <1>1, <1>2
=============================================================================
