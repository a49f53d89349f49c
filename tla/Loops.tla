------------------------------- MODULE Loops -------------------------------
(***************************************************************************)
(* Lemmas about loops over finite sets, as MapThenFoldSet of the community *)
(* modules defines them: the value at S of the function on the subsets of  *)
(* S that applies the loop's body for one element to its value for the     *)
(* others. To reason about such a loop one must know that there is such a  *)
(* function; and then that what the body keeps holds after the loop.       *)
(***************************************************************************)
EXTENDS Integers, FiniteSetsExt, FiniteSetTheorems, WellFoundedInduction, TLAPS

\* run is that function. The body is given as a function of a value and an
\* element, and choice picks the element, of each subset, that comes last.
IsRunBy(run, base, body, choice, S) ==
    run = [s \in SUBSET S |->
              IF s = {} THEN base
              ELSE body[<<run[s \ {choice[s]}], choice[s]>>]]

\* The loops over numbers come to the greatest one last.
IsRun(run, base, body, S) ==
    run = [s \in SUBSET S |-> IF s = {} THEN base
                              ELSE body[<<run[s \ {Max(s)}], Max(s)>>]]

-----------------------------------------------------------------------------
\* A set of naturals that is not empty has a least element.
LEMMA Least ==
    ASSUME NEW S \in SUBSET Nat, S # {}
    PROVE  \E j \in S : \A k \in S : j <= k
  <1>1. PICK n \in S : TRUE
    OBVIOUS
  <1>2. PICK j \in S : \A k \in S : <<k, j>> \notin OpToRel(<, Nat)
    BY WFMin, NatLessThanWellFounded
  <1>3. \A k \in S : k < j => <<k, j>> \in OpToRel(<, Nat)
    BY Zenon DEF OpToRel
  <1>4. \A k \in S : ~(k < j)
    BY <1>2, <1>3
  <1> QED BY <1>4

\* What holds of 0 and is handed on from each number to the next holds up to n.
LEMMA UpTo ==
    ASSUME NEW n \in Nat, NEW T, 0 \in T,
           \A k \in 1 .. n : k - 1 \in T => k \in T
    PROVE  \A k \in 0 .. n : k \in T
  <1> SUFFICES ASSUME NEW b \in 0 .. n, b \notin T PROVE FALSE
    OBVIOUS
  <1> DEFINE Bad == {k \in 0 .. n : k \notin T}
  <1>1. Bad \in SUBSET Nat /\ Bad # {}
    OBVIOUS
  <1>2. PICK j \in Bad : \A k \in Bad : j <= k
    <2> HIDE DEF Bad
    <2> QED BY <1>1, Least
  <1>3. j \in 1 .. n /\ j \notin T
    OBVIOUS
  <1>4. j - 1 \in 0 .. n /\ ~(j <= j - 1)
    BY <1>3
  <1>5. j - 1 \notin Bad
    BY <1>2, <1>4
  <1> QED BY <1>3, <1>4, <1>5

\* One that is bounded has a greatest element.
LEMMA Greatest ==
    ASSUME NEW n \in Nat, NEW S \in SUBSET (0 .. n), S # {}
    PROVE  Max(S) \in S /\ \A k \in S : k <= Max(S)
  <1> DEFINE D == {d \in Nat : n - d \in S}
  <1>1. D \in SUBSET Nat /\ D # {}
    <2>1. PICK k \in S : TRUE
      OBVIOUS
    <2>2. n - k \in Nat /\ n - (n - k) = k
      BY <2>1
    <2> QED BY <2>1, <2>2
  <1>2. PICK d \in D : \A e \in D : d <= e
    <2> HIDE DEF D
    <2> QED BY <1>1, Least
  <1>3. n - d \in S
    OBVIOUS
  <1>4. ASSUME NEW k \in S PROVE n - d >= k
    <2>1. n - k \in Nat /\ n - (n - k) = k /\ d \in Nat
      OBVIOUS
    <2>2. n - k \in D
      BY <2>1
    <2> QED BY <1>2, <2>1, <2>2
  <1>5. Max(S) \in S /\ \A y \in S : Max(S) >= y
    BY <1>3, <1>4 DEF Max
  <1> QED BY <1>5

\* What is left of a subset when an element is done.
LEMMA OneLess ==
    ASSUME NEW S, IsFiniteSet(S), NEW s \in SUBSET S, NEW x \in s
    PROVE  /\ s \ {x} \in SUBSET S
           /\ Cardinality(s) \in Nat /\ Cardinality(s \ {x}) \in Nat
           /\ Cardinality(s \ {x}) + 1 = Cardinality(s)
  <1>1. IsFiniteSet(s) /\ IsFiniteSet(s \ {x})
    BY FS_Subset
  <1>2. Cardinality(s) \in Nat /\ Cardinality(s \ {x}) \in Nat
    BY <1>1, FS_CardinalityType
  <1>3. Cardinality(s \ {x}) = Cardinality(s) - 1
    BY <1>1, FS_RemoveElement
  <1> QED BY <1>2, <1>3

\* The function for the subsets of up to n elements, for one n after another.
LEMMA RunExistsBy ==
    ASSUME NEW S, IsFiniteSet(S), NEW base, NEW body, NEW choice,
           \A s \in SUBSET S : s # {} => choice[s] \in s
    PROVE  \E run : IsRunBy(run, base, body, choice, S)
  <1> DEFINE Small(n) == {s \in SUBSET S : Cardinality(s) <= n}
             Value(run, s) == IF s = {} THEN base
                              ELSE body[<<run[s \ {choice[s]}], choice[s]>>]
             Partial(run, n) == run = [s \in Small(n) |-> Value(run, s)]
             Exists(n) == \E run : Partial(run, n)
             Bad == {n \in Nat : ~Exists(n)}
  <1>1. Exists(0)
    <2>1. \A s \in Small(0) : s = {}
      <3>1. ASSUME NEW s \in SUBSET S, Cardinality(s) <= 0 PROVE s = {}
        <4>1. IsFiniteSet(s) /\ Cardinality(s) \in Nat
          BY FS_Subset, FS_CardinalityType
        <4> QED BY <3>1, <4>1, FS_EmptySet
      <3> QED BY <3>1
    <2> DEFINE run == [s \in Small(0) |-> base]
    <2>2. Partial(run, 0)
      <3> HIDE DEF Small
      <3> QED BY <2>1
    <2> QED BY <2>2
  <1>2. ASSUME NEW n \in Nat, Exists(n) PROVE Exists(n + 1)
    <2>1. PICK run : Partial(run, n)
      BY <1>2
    <2> DEFINE next == [s \in Small(n + 1) |-> Value(run, s)]
    <2>2. ASSUME NEW s \in Small(n + 1), s # {}
          PROVE  /\ s \ {choice[s]} \in Small(n)
                 /\ s \ {choice[s]} \in Small(n + 1)
      <3>1. s \in SUBSET S /\ Cardinality(s) <= n + 1 /\ choice[s] \in s
        BY <2>2
      <3>2. /\ s \ {choice[s]} \in SUBSET S
            /\ Cardinality(s) \in Nat /\ Cardinality(s \ {choice[s]}) \in Nat
            /\ Cardinality(s \ {choice[s]}) + 1 = Cardinality(s)
        BY <3>1, OneLess
      <3> QED BY <3>1, <3>2
    <2>3. \A s \in Small(n) : s \in Small(n + 1)
      <3>1. ASSUME NEW s \in SUBSET S, Cardinality(s) <= n
            PROVE  Cardinality(s) <= n + 1
        <4>1. Cardinality(s) \in Nat
          BY FS_Subset, FS_CardinalityType
        <4> QED BY <3>1, <4>1
      <3> QED BY <3>1
    <2> HIDE DEF Small, Value
    <2>4. \A s \in Small(n) : next[s] = run[s]
      BY <2>1, <2>3
    <2>5. ASSUME NEW s \in Small(n + 1) PROVE Value(run, s) = Value(next, s)
      <3>1. CASE s = {}
        BY <3>1 DEF Value
      <3>2. CASE s # {}
        BY <2>2, <2>4, <3>2 DEF Value
      <3> QED BY <3>1, <3>2
    <2>6. Partial(next, n + 1)
      BY <2>5
    <2> QED BY <2>6
  <1>3. Bad = {}
    <2> HIDE DEF Exists
    <2>1. SUFFICES ASSUME Bad # {} PROVE FALSE
      OBVIOUS
    <2>2. PICK m \in Bad : \A k \in Bad : m <= k
      <3>1. Bad \in SUBSET Nat
        OBVIOUS
      <3> HIDE DEF Bad
      <3> QED BY <2>1, <3>1, Least
    <2>3. m \in Nat /\ m # 0
      BY <1>1
    <2>4. m - 1 \in Nat /\ (m - 1) + 1 = m /\ ~(m <= m - 1)
      BY <2>3
    <2>5. Exists(m - 1)
      BY <2>2, <2>4
    <2>6. Exists(m)
      BY <1>2, <2>4, <2>5
    <2> QED BY <2>6
  <1>4. Cardinality(S) \in Nat
    BY FS_CardinalityType
  <1>5. Exists(Cardinality(S))
    <2> HIDE DEF Exists
    <2> QED BY <1>3, <1>4
  <1>6. Small(Cardinality(S)) = SUBSET S
    BY FS_Subset
  <1>7. PICK run : Partial(run, Cardinality(S))
    BY <1>5
  <1>8. run = [s \in SUBSET S |-> Value(run, s)]
    <2> HIDE DEF Small, Value
    <2> QED BY <1>6, <1>7
  <1> QED BY <1>8 DEF IsRunBy

\* What holds before a loop and is kept by its body holds after it. P says for
\* each set of elements what may be when the body was done for them.
LEMMA RunKeepsBy ==
    ASSUME NEW S, IsFiniteSet(S), NEW run, NEW P, NEW choice,
           run[{}] \in P[{}],
           \A s \in SUBSET S :
               s # {} => /\ choice[s] \in s
                         /\ run[s \ {choice[s]}] \in P[s \ {choice[s]}]
                                => run[s] \in P[s]
    PROVE  \A s \in SUBSET S : run[s] \in P[s]
  <1> DEFINE Bad == {n \in Nat : \E s \in SUBSET S : /\ run[s] \notin P[s]
                                                     /\ Cardinality(s) = n}
  <1>1. SUFFICES Bad = {}
    <2>1. \A s \in SUBSET S : Cardinality(s) \in Nat
      BY FS_Subset, FS_CardinalityType
    <2> QED BY <2>1
  <1>2. SUFFICES ASSUME Bad # {} PROVE FALSE
    OBVIOUS
  <1>3. PICK m \in Bad : \A k \in Bad : m <= k
    <2>1. Bad \in SUBSET Nat
      OBVIOUS
    <2> HIDE DEF Bad
    <2> QED BY <1>2, <2>1, Least
  <1>4. PICK s \in SUBSET S : run[s] \notin P[s] /\ Cardinality(s) = m
    BY <1>3
  <1>5. s # {} /\ choice[s] \in s
    BY <1>4
  <1> DEFINE t == s \ {choice[s]}
  <1>6. t \in SUBSET S /\ run[t] \notin P[t]
    BY <1>4, <1>5
  <1>7. Cardinality(t) \in Nat /\ Cardinality(t) + 1 = m
    BY <1>4, <1>5, OneLess
  <1> HIDE DEF t
  <1>8. Cardinality(t) \in Bad
    BY <1>6, <1>7
  <1>9. m <= Cardinality(t)
    BY <1>3, <1>8
  <1> QED BY <1>7, <1>9

-----------------------------------------------------------------------------
(* The same for the loops over numbers. *)

LEMMA NumbersAreFinite ==
    ASSUME NEW n \in Nat, NEW S \in SUBSET (0 .. n)
    PROVE  IsFiniteSet(S)
  <1>1. IsFiniteSet(0 .. n)
    BY FS_Interval
  <1> QED BY <1>1, FS_Subset

LEMMA RunKeeps ==
    ASSUME NEW n \in Nat, NEW S \in SUBSET (0 .. n), NEW run, NEW P,
           run[{}] \in P[{}],
           \A s \in SUBSET S :
               s # {} /\ run[s \ {Max(s)}] \in P[s \ {Max(s)}] =>
                   run[s] \in P[s]
    PROVE  \A s \in SUBSET S : run[s] \in P[s]
  <1> DEFINE choice == [s \in SUBSET S |-> Max(s)]
  <1>1. ASSUME NEW s \in SUBSET S, s # {}
        PROVE  /\ choice[s] \in s
               /\ run[s \ {choice[s]}] \in P[s \ {choice[s]}] =>
                      run[s] \in P[s]
    <2>1. choice[s] = Max(s) /\ Max(s) \in s
      BY <1>1, Greatest
    <2> QED BY <1>1, <2>1
  <1> HIDE DEF choice
  <1> QED BY <1>1, NumbersAreFinite, RunKeepsBy

\* Both: there is a run of the loop, and P holds all along it.
LEMMA LoopKeeps ==
    ASSUME NEW n \in Nat, NEW S \in SUBSET (0 .. n), NEW base, NEW body, NEW P,
           base \in P[{}],
           \A s \in SUBSET S : \A x \in s :
               \A t \in P[s \ {x}] : body[<<t, x>>] \in P[s]
    PROVE  \E run : /\ IsRun(run, base, body, S)
                    /\ \A s \in SUBSET S : run[s] \in P[s]
  <1> DEFINE choice == [s \in SUBSET S |-> Max(s)]
  <1>1. \A s \in SUBSET S : s # {} => choice[s] \in s
    BY Greatest
  <1>2. PICK run : IsRunBy(run, base, body, choice, S)
    <2> HIDE DEF choice
    <2> QED BY <1>1, NumbersAreFinite, RunExistsBy
  <1>3. IsRun(run, base, body, S)
    BY <1>2 DEF IsRunBy, IsRun
  <1>4. run[{}] \in P[{}]
    BY <1>3 DEF IsRun
  <1>5. ASSUME NEW s \in SUBSET S, s # {},
               run[s \ {Max(s)}] \in P[s \ {Max(s)}]
        PROVE  run[s] \in P[s]
    <2>1. Max(s) \in s
      BY <1>5, Greatest
    <2>2. run[s] = body[<<run[s \ {Max(s)}], Max(s)>>]
      BY <1>3, <1>5 DEF IsRun
    <2> QED BY <1>5, <2>1, <2>2
  <1>6. \A s \in SUBSET S : run[s] \in P[s]
    BY <1>4, <1>5, RunKeeps
  <1> QED BY <1>3, <1>6
=============================================================================
