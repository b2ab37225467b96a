--------------------------- MODULE FiniteRanges ----------------------------
(***************************************************************************)
(* Greatest and least elements of sets of small integers, for the searches *)
(* of the code ("the last rank that holds w", "the first free slot") that  *)
(* the models write with CHOOSE.                                           *)
(***************************************************************************)
EXTENDS Integers, WellFoundedInduction, FiniteSetTheorems, TLAPS

\* A set of integers up to n that is not empty has a greatest element: the
\* sets of what lies above a member are finite and ordered by inclusion, and
\* one of them is minimal.
LEMMA MaxExists ==
  ASSUME NEW n \in Int, NEW T, T \subseteq 0 .. n, T # {}
  PROVE  \E x \in T : \A y \in T : y <= x
<1> DEFINE S == 0 .. n
           R == StrictSubsetOrdering(S)
           Above(x) == {y \in T : y > x}
           C == {Above(x) : x \in T}
<1>1. IsFiniteSet(S) /\ FiniteSubsetsOf(S) = SUBSET S
  <2>1. IsFiniteSet(S)
    BY 0 \in Int, FS_Interval
  <2> QED BY <2>1, FS_FiniteSubsetsOfFinite
<1>2. IsWellFoundedOn(R, SUBSET S)
  BY <1>1, FS_StrictSubsetOrderingWellFounded, Zenon
<1>3. C \subseteq SUBSET S /\ C # {}
  OBVIOUS
<1> HIDE DEF C
<1>4. PICK D \in C : \A E \in C : ~(<<E, D>> \in R)
  <2> HIDE DEF R
  <2> QED BY <1>2, <1>3, WFMin, Zenon
<1>5. PICK x \in T : D = Above(x)
  BY <1>4 DEF C
<1>6. ASSUME NEW y \in T PROVE y <= x
  <2>1. SUFFICES ASSUME y > x PROVE FALSE
    BY T \subseteq Int
  <2>2. /\ \A z \in T : z > y => z > x
        /\ ~(y > y)
    BY <2>1, T \subseteq Int
  <2>3. Above(y) \in C
    BY DEF C
  <2>4. Above(y) \in SUBSET S /\ Above(x) \in SUBSET S
    OBVIOUS
  <2>5. <<Above(y), Above(x)>> \in R
    <3>1. Above(y) \subseteq Above(x) /\ y \in Above(x) /\ y \notin Above(y)
      BY <2>1, <2>2
    <3> QED BY <3>1, <2>4 DEF StrictSubsetOrdering
  <2> QED BY <2>3, <2>5, <1>4, <1>5
<1> QED BY <1>6

\* And a least one: the greatest of the mirrored set.
LEMMA MinExists ==
  ASSUME NEW n \in Int, NEW T, T \subseteq 0 .. n, T # {}
  PROVE  \E x \in T : \A y \in T : x <= y
<1> DEFINE M == {n - t : t \in T}
<1>1. M \subseteq 0 .. n /\ M # {}
  <2>1. \A t \in 0 .. n : n - t \in 0 .. n
    OBVIOUS
  <2> QED BY <2>1
<1>2. PICK m \in M : \A u \in M : u <= m
  BY <1>1, MaxExists
<1>3. PICK x \in T : m = n - x
  BY <1>2
<1>4. ASSUME NEW y \in T PROVE x <= y
  <2>1. n - y \in M
    OBVIOUS
  <2>2. n - y <= n - x
    BY <2>1, <1>2, <1>3
  <2>3. x \in Int /\ y \in Int
    OBVIOUS
  <2> QED BY <2>2, <2>3
<1> QED BY <1>4
=============================================================================
