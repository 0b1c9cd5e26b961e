------------------------ MODULE Subsequences_proofs -------------------------
(***************************************************************************)
(* What a subsequence consists of, and that a set of numbers has a least   *)
(* one: the induction these proofs rest on, over sets instead of formulas. *)
(***************************************************************************)
EXTENDS Subsequences, FiniteSetTheorems, SequenceTheorems, WellFoundedInduction, TLAPS

\* A set of numbers has a least one.
LEMMA LeastNumber ==
  ASSUME NEW T \in SUBSET Nat, T # {}
  PROVE  \E x \in T : \A y \in T : x <= y
<1> DEFINE R == {ss \in Nat \X Nat : ss[1] < ss[2]}
<1>1. IsWellFoundedOn(R, Nat)
  BY NatLessThanWellFounded DEF OpToRel
<1> HIDE DEF R
<1>2. PICK x \in T : \A y \in T : ~(<<y, x>> \in R)
  BY <1>1, WFMin
<1>3. ASSUME NEW y \in T, y < x PROVE <<y, x>> \in R
  <2>1. <<y, x>> \in Nat \X Nat
    BY <1>2
  <2>2. <<y, x>>[1] < <<y, x>>[2]
    BY <1>3
  <2> QED BY <2>1, <2>2, Zenon DEF R
<1>4. ASSUME NEW y \in T PROVE x <= y
  <2>1. ~(y < x)
    BY <1>2, <1>3
  <2> QED BY <2>1, <1>2
<1> QED BY <1>2, <1>4

-----------------------------------------------------------------------------
\* R orders the members of S one after the other.
OrderOn(S, R) ==
  /\ \A x \in S : <<x, x>> \notin R
  /\ \A x, y, z \in S : <<x, y>> \in R /\ <<y, z>> \in R => <<x, z>> \in R
  /\ \A x, y \in S : x # y => <<x, y>> \in R \/ <<y, x>> \in R

\* Ranks are numbers below the size of the set, and they grow with the member.
LEMMA RankGrows ==
  ASSUME NEW S, IsFiniteSet(S), NEW R, OrderOn(S, R), NEW x \in S
  PROVE  /\ RankIn(S, R, x) \in Nat /\ RankIn(S, R, x) < Cardinality(S)
         /\ \A y \in S : <<y, x>> \in R => RankIn(S, R, y) < RankIn(S, R, x)
<1>1. ASSUME NEW T \in SUBSET S, NEW z \in S, z \in T,
             \A y \in S : <<y, z>> \in R => y \in T
      PROVE  RankIn(S, R, z) \in Nat /\ RankIn(S, R, z) < Cardinality(T)
  <2> DEFINE B == {y \in S : <<y, z>> \in R}
  <2>1. IsFiniteSet(B) /\ z \notin B /\ B \cup {z} \subseteq T /\ IsFiniteSet(T)
    BY <1>1, FS_Subset DEF OrderOn
  <2>2. Cardinality(B) \in Nat /\ Cardinality(T) \in Nat
    BY <2>1, FS_CardinalityType
  <2>3. Cardinality(B \cup {z}) = Cardinality(B) + 1
    BY <2>1, FS_AddElement
  <2>4. Cardinality(B \cup {z}) <= Cardinality(T)
    BY <2>1, FS_Subset
  <2> QED BY <2>2, <2>3, <2>4 DEF RankIn
<1>2. RankIn(S, R, x) \in Nat /\ RankIn(S, R, x) < Cardinality(S)
  BY <1>1
<1>3. ASSUME NEW y \in S, <<y, x>> \in R PROVE RankIn(S, R, y) < RankIn(S, R, x)
  <2> DEFINE T == {z \in S : <<z, x>> \in R}
  <2>1. y \in T /\ \A z \in S : <<z, y>> \in R => z \in T
    BY <1>3 DEF OrderOn
  <2>2. RankIn(S, R, y) < Cardinality(T)
    BY <1>1, <2>1
  <2> QED BY <2>2 DEF RankIn
<1> QED BY <1>2, <1>3

\* A nonempty part of S has a first member.
LEMMA FirstMember ==
  ASSUME NEW S, IsFiniteSet(S), NEW R, OrderOn(S, R), NEW T \in SUBSET S, T # {}
  PROVE  \E x \in T : \A y \in T : y # x => <<x, y>> \in R
<1> DEFINE Ranks == {RankIn(S, R, x) : x \in T}
<1>1. Ranks \in SUBSET Nat /\ Ranks # {}
  BY RankGrows
<1>2. PICK m \in Ranks : \A n \in Ranks : m <= n
  <2> HIDE DEF Ranks
  <2> QED BY <1>1, LeastNumber
<1>3. PICK x \in T : m = RankIn(S, R, x)
  BY <1>2
<1>4. ASSUME NEW y \in T, y # x PROVE <<x, y>> \in R
  <2>1. RankIn(S, R, x) <= RankIn(S, R, y)
    BY <1>2, <1>3
  <2>2. RankIn(S, R, x) \in Nat /\ RankIn(S, R, y) \in Nat
    BY RankGrows
  <2>3. ~(RankIn(S, R, y) < RankIn(S, R, x))
    BY <2>1, <2>2
  <2>4. <<y, x>> \notin R
    BY <2>3, RankGrows
  <2> QED BY <1>4, <2>4 DEF OrderOn
<1> QED BY <1>4

\* Every rank below the size of the set is taken.
LEMMA RankTaken ==
  ASSUME NEW S, IsFiniteSet(S), NEW R, OrderOn(S, R), NEW k \in 1..Cardinality(S)
  PROVE  \E x \in S : RankIn(S, R, x) = k - 1
<1>0. Cardinality(S) \in Nat
  BY FS_CardinalityType
<1> DEFINE Missing == {m \in Nat : m < Cardinality(S) /\ \A x \in S : RankIn(S, R, x) # m}
<1>1. SUFFICES ASSUME Missing # {} PROVE FALSE
  <2>1. k - 1 \in Nat /\ k - 1 < Cardinality(S)
    BY <1>0
  <2> QED BY <2>1
<1>2. PICK m \in Missing : \A n \in Missing : m <= n
  <2> HIDE DEF Missing
  <2>1. Missing \in SUBSET Nat
    BY DEF Missing
  <2> QED BY <2>1, <1>1, LeastNumber
<1>3. m \in Nat /\ m < Cardinality(S) /\ \A x \in S : RankIn(S, R, x) # m
  BY <1>2
<1>4. PICK T \in SUBSET S : Cardinality(T) = m /\ \A x \in T, y \in S : <<y, x>> \in R => y \in T
  <2>1. CASE m = 0
    <3>1. Cardinality({}) = 0
      BY FS_EmptySet
    <3> QED BY <2>1, <3>1
  <2>2. CASE m # 0
    <3>1. m - 1 \in Nat /\ m - 1 < Cardinality(S) /\ m - 1 \notin Missing
      BY <1>0, <1>2, <1>3, <2>2
    <3>2. PICK x \in S : RankIn(S, R, x) = m - 1
      BY <3>1
    <3> DEFINE B == {y \in S : <<y, x>> \in R}
    <3>3. IsFiniteSet(B) /\ x \notin B
      BY FS_Subset DEF OrderOn
    <3>4. Cardinality(B \cup {x}) = m
      <4>1. Cardinality(B) = m - 1
        BY <3>2 DEF RankIn
      <4>2. Cardinality(B \cup {x}) = Cardinality(B) + 1
        BY <3>3, FS_AddElement
      <4> QED BY <1>3, <4>1, <4>2
    <3>5. \A z \in B \cup {x}, y \in S : <<y, z>> \in R => y \in B \cup {x}
      BY DEF OrderOn
    <3> QED BY <3>4, <3>5
  <2> QED BY <2>1, <2>2
<1>5. S \ T # {}
  <2>1. T # S
    BY <1>0, <1>3, <1>4
  <2> QED BY <1>4, <2>1
<1>6. PICK x \in S \ T : \A y \in S \ T : y # x => <<x, y>> \in R
  <2> DEFINE U == S \ T
  <2>1. U \in SUBSET S /\ U # {}
    BY <1>5
  <2> HIDE DEF U
  <2>2. \E x \in U : \A y \in U : y # x => <<x, y>> \in R
    BY <2>1, FirstMember
  <2> QED BY <2>2 DEF U
<1>7. {y \in S : <<y, x>> \in R} = T
  <2>1. ASSUME NEW y \in S, <<y, x>> \in R PROVE y \in T
    <3>1. CASE y = x
      BY <2>1, <3>1 DEF OrderOn
    <3>2. CASE y # x /\ y \notin T
      <4>1. <<x, y>> \in R
        BY <1>6, <3>2
      <4>2. <<y, y>> \in R
        BY <2>1, <4>1 DEF OrderOn
      <4> QED BY <4>2 DEF OrderOn
    <3> QED BY <3>1, <3>2
  <2>2. ASSUME NEW y \in T PROVE <<y, x>> \in R
    <3>1. y # x /\ <<x, y>> \notin R
      BY <1>4, <1>6
    <3> QED BY <1>4, <3>1 DEF OrderOn
  <2> QED BY <1>4, <2>1, <2>2
<1> QED BY <1>3, <1>4, <1>6, <1>7 DEF RankIn

\* A sorted set has each of its members once, one after the other.
LEMMA SortedEffect ==
  ASSUME NEW S, IsFiniteSet(S), NEW R, OrderOn(S, R)
  PROVE  /\ Sorted(S, R) \in Seq(S) /\ Len(Sorted(S, R)) = Cardinality(S)
         /\ \A x \in S : \E k \in 1..Cardinality(S) : Sorted(S, R)[k] = x
         /\ \A k, l \in 1..Cardinality(S) : k < l => <<Sorted(S, R)[k], Sorted(S, R)[l]>> \in R
<1>0. Cardinality(S) \in Nat
  BY FS_CardinalityType
<1> DEFINE q == Sorted(S, R)
<1>1. ASSUME NEW k \in 1..Cardinality(S) PROVE q[k] \in S /\ RankIn(S, R, q[k]) = k - 1
  <2>1. \E x \in S : RankIn(S, R, x) = k - 1
    BY RankTaken
  <2>2. q[k] = CHOOSE x \in S : RankIn(S, R, x) = k - 1
    BY DEF Sorted
  <2> HIDE DEF q
  <2> QED BY <2>1, <2>2
<1>2. q = [k \in 1..Cardinality(S) |-> q[k]]
  BY DEF Sorted
<1> HIDE DEF q
<1>3. q \in Seq(S) /\ Len(q) = Cardinality(S)
  BY <1>0, <1>1, <1>2
<1>4. ASSUME NEW x \in S PROVE \E k \in 1..Cardinality(S) : q[k] = x
  <2>1. RankIn(S, R, x) \in Nat /\ RankIn(S, R, x) < Cardinality(S)
    BY RankGrows
  <2> DEFINE k == RankIn(S, R, x) + 1
             y == q[k]
  <2>2. k \in 1..Cardinality(S) /\ k - 1 = RankIn(S, R, x)
    BY <1>0, <2>1
  <2>3. y \in S /\ RankIn(S, R, y) = RankIn(S, R, x)
    BY <1>1, <2>2
  <2> HIDE DEF y, k
  <2>4. ~(<<x, y>> \in R) /\ ~(<<y, x>> \in R)
    BY <2>1, <2>3, RankGrows
  <2>5. y = x
    BY <2>3, <2>4 DEF OrderOn
  <2> QED BY <2>2, <2>5 DEF y
<1>5. ASSUME NEW k \in 1..Cardinality(S), NEW l \in 1..Cardinality(S), k < l
      PROVE  <<q[k], q[l]>> \in R
  <2> DEFINE a == q[k]
             b == q[l]
  <2>1. a \in S /\ b \in S /\ RankIn(S, R, a) = k - 1 /\ RankIn(S, R, b) = l - 1
    BY <1>1
  <2> HIDE DEF a, b
  <2>2. a # b /\ <<b, a>> \notin R
    BY <1>0, <1>5, <2>1, RankGrows
  <2>3. <<a, b>> \in R
    BY <2>1, <2>2 DEF OrderOn
  <2> QED BY <2>3 DEF a, b
<1> QED BY <1>3, <1>4, <1>5 DEF q

-----------------------------------------------------------------------------
\* Nth enumerates a set of numbers in increasing order.
LEMMA NthEnumerates ==
  ASSUME NEW I \in SUBSET Nat, IsFiniteSet(I)
  PROVE  /\ Cardinality(I) \in Nat
         /\ \A k \in 1..Cardinality(I) : Nth(I, k) \in I
         /\ \A k, l \in 1..Cardinality(I) : k < l => Nth(I, k) < Nth(I, l)
         /\ \A i \in I : \E k \in 1..Cardinality(I) : Nth(I, k) = i
<1> DEFINE R == {p \in I \X I : p[1] < p[2]}
           q == Sorted(I, R)
<1>1. \A i, j \in I : <<i, j>> \in R <=> i < j
  OBVIOUS
<1>2. \A k \in 1..Cardinality(I) : q[k] = Nth(I, k)
  <2>1. ASSUME NEW i \in I PROVE RankIn(I, R, i) = Cardinality({j \in I : j < i})
    <3>1. {j \in I : <<j, i>> \in R} = {j \in I : j < i}
      BY <1>1
    <3> HIDE DEF R
    <3> QED BY <3>1 DEF RankIn
  <2> HIDE DEF R
  <2> QED BY <2>1 DEF Sorted, Nth
<1> HIDE DEF R
<1>3. OrderOn(I, R)
  BY <1>1 DEF OrderOn
<1>4. /\ q \in Seq(I) /\ Len(q) = Cardinality(I)
      /\ \A i \in I : \E k \in 1..Cardinality(I) : q[k] = i
      /\ \A k, l \in 1..Cardinality(I) : k < l => <<q[k], q[l]>> \in R
  BY <1>3, SortedEffect
<1> HIDE DEF q
<1>5. Cardinality(I) \in Nat
  BY FS_CardinalityType
<1>6. \A k \in 1..Cardinality(I) : q[k] \in I
  BY <1>4
<1> QED BY <1>1, <1>2, <1>4, <1>5, <1>6

\* A subsequence consists of the entries at the positions it keeps.
LEMMA PickEffect ==
  ASSUME NEW S, NEW s \in Seq(S), NEW I \in SUBSET (DOMAIN s)
  PROVE  /\ Pick(s, I) \in Seq(S) /\ Len(Pick(s, I)) = Cardinality(I)
         /\ \A k \in 1..Len(Pick(s, I)) : Nth(I, k) \in I /\ Pick(s, I)[k] = s[Nth(I, k)]
         /\ \A i \in I : \E k \in 1..Len(Pick(s, I)) : Pick(s, I)[k] = s[i] /\ Nth(I, k) = i
<1>1. I \in SUBSET Nat /\ IsFiniteSet(I)
  <2>1. DOMAIN s = 1..Len(s) /\ Len(s) \in Nat
    OBVIOUS
  <2>2. IsFiniteSet(1..Len(s))
    BY <2>1, FS_Interval
  <2> QED BY <2>1, <2>2, FS_Subset
<1>2. /\ Cardinality(I) \in Nat
      /\ \A k \in 1..Cardinality(I) : Nth(I, k) \in I
      /\ \A i \in I : \E k \in 1..Cardinality(I) : Nth(I, k) = i
  BY <1>1, NthEnumerates
<1> DEFINE p == Pick(s, I)
<1>3. p = [k \in 1..Cardinality(I) |-> s[Nth(I, k)]]
  BY DEF Pick
<1> HIDE DEF p
<1>4. p \in Seq(S) /\ Len(p) = Cardinality(I)
  <2>1. \A k \in 1..Cardinality(I) : s[Nth(I, k)] \in S
    BY <1>2
  <2> QED BY <1>2, <1>3, <2>1
<1>5. \A k \in 1..Len(p) : Nth(I, k) \in I /\ p[k] = s[Nth(I, k)]
  BY <1>2, <1>3, <1>4
<1>6. \A i \in I : \E k \in 1..Len(p) : p[k] = s[i] /\ Nth(I, k) = i
  BY <1>2, <1>4, <1>5
<1> QED BY <1>4, <1>5, <1>6 DEF p
=============================================================================
