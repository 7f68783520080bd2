-------------------------- MODULE SelectingProofs --------------------------
(***************************************************************************)
(* What is picked from a list, and that a change of the list which keeps   *)
(* the picked members and their order keeps what is picked.                *)
(***************************************************************************)
EXTENDS Selecting, FiniteSetTheorems, WellFoundedInduction, SequenceTheorems, TLAPS

\* A set of numbers has a least one.
LEMMA LeastExists ==
    ASSUME NEW T, T \subseteq Nat, T # {}
    PROVE  \E x \in T : \A y \in T : x <= y
  <1> DEFINE R == {ss \in Nat \X Nat : ss[1] < ss[2]}
  <1>1. IsWellFoundedOn(R, Nat)
    BY NatLessThanWellFounded DEF OpToRel
  <1>2. \A x, y \in Nat : x < y => <<x, y>> \in R
    OBVIOUS
  <1> HIDE DEF R
  <1>3. PICK x \in T : \A y \in T : ~(<<y, x>> \in R)
    BY <1>1, WFMin
  <1>4. \A y \in T : ~(y < x) /\ y \in Nat /\ x \in Nat
    BY <1>2, <1>3
  <1> QED BY <1>4

\* FirstAt is the first of the positions, and behind the end if there are none.
LEMMA FirstAtIs ==
    ASSUME NEW s, NEW S \in SUBSET Nat
    PROVE  /\ S = {} => FirstAt(s, S) = Len(s) + 1
           /\ S # {} => FirstAt(s, S) \in S /\ \A j \in S : FirstAt(s, S) <= j
  <1>1. S # {} => \E i \in S : \A j \in S : i <= j
    BY LeastExists
  <1> QED BY <1>1 DEF FirstAt

\* The place of i among the positions S.
Below(S, i) == {j \in S : j <= i}
Rank(S, i) == Cardinality(Below(S, i))

\* The place of a number in a finite set of numbers, and that it grows with the number.
LEMMA Ranks ==
    ASSUME NEW S \in SUBSET Nat, IsFiniteSet(S)
    PROVE  /\ Cardinality(S) \in Nat
           /\ \A i \in S : Rank(S, i) \in 1..Cardinality(S)
           /\ \A i, j \in S : i < j => Rank(S, i) < Rank(S, j)
           /\ \A i, j \in S : Rank(S, i) = Rank(S, j) => i = j
  <1> DEFINE k == Cardinality(S)
  <1>1. k \in Nat
    BY FS_CardinalityType
  <1>2. \A i \in S : IsFiniteSet(Below(S, i)) /\ Rank(S, i) \in Nat /\ Rank(S, i) <= k /\ Rank(S, i) # 0
    <2> TAKE i \in S
    <2>1. Below(S, i) \in SUBSET S /\ i \in Below(S, i)
      BY DEF Below
    <2>2. IsFiniteSet(Below(S, i)) /\ Rank(S, i) <= k
      BY <2>1, FS_Subset DEF Rank
    <2>3. Rank(S, i) \in Nat
      BY <2>2, FS_CardinalityType DEF Rank
    <2>4. Rank(S, i) # 0
      BY <2>1, <2>2, FS_EmptySet DEF Rank
    <2> QED BY <2>2, <2>3, <2>4
  <1>3. ASSUME NEW a \in S, NEW b \in S, a < b PROVE Rank(S, a) < Rank(S, b)
    <2>1. a \in Nat /\ b \in Nat /\ \A j \in S : j \in Nat
      OBVIOUS
    <2>2. b <= b /\ ~(b <= a) /\ \A j \in S : j <= a => j <= b
      BY <1>3, <2>1
    <2>3. Below(S, a) \in SUBSET Below(S, b) /\ Below(S, a) # Below(S, b)
      BY <2>2 DEF Below
    <2>4. Rank(S, a) <= Rank(S, b) /\ Rank(S, a) # Rank(S, b)
      BY <1>2, <2>3, FS_Subset DEF Rank
    <2> QED BY <1>2, <2>4
  <1>4. ASSUME NEW a \in S, NEW b \in S, Rank(S, a) = Rank(S, b) PROVE a = b
    <2>1. a \in Nat /\ b \in Nat /\ Rank(S, a) \in Nat
      BY <1>2
    <2>2. ~(a < b) /\ ~(b < a)
      BY <1>3, <1>4, <2>1
    <2> QED BY <2>1, <2>2
  <1>5. \A i \in S : Rank(S, i) \in 1..k
    <2> HIDE DEF k
    <2> QED BY <1>1, <1>2
  <1> QED BY <1>1, <1>3, <1>4, <1>5

\* Every place up to the size of the set is taken, by the number NthOf says.
LEMMA NthRank ==
    ASSUME NEW S \in SUBSET Nat, IsFiniteSet(S), NEW n \in 1..Cardinality(S)
    PROVE  NthOf(S, n) \in S /\ Rank(S, NthOf(S, n)) = n
  <1> DEFINE k == Cardinality(S)
             rk == [i \in S |-> Rank(S, i)]
             R == {rk[i] : i \in S}
  <1>1. k \in Nat /\ (\A i \in S : rk[i] \in 1..k) /\ (\A a, b \in S : rk[a] = rk[b] => a = b)
    BY Ranks
  <1>2. rk \in [S -> R] /\ \A r \in R : \E i \in S : rk[i] = r
    OBVIOUS
  <1>3. R \in SUBSET (1..k)
    <2> HIDE DEF rk
    <2> QED BY <1>1
  <1> HIDE DEF rk, R
  <1>4. rk \in Bijection(S, R)
    BY <1>1, <1>2 DEF Bijection, Injection, Surjection, IsInjective
  <1>5. ExistsBijection(S, R)
    BY <1>4 DEF ExistsBijection
  <1>6. IsFiniteSet(R) /\ Cardinality(R) = k
    BY <1>5, FS_Bijection
  <1>7. IsFiniteSet(1..k) /\ Cardinality(1..k) = k
    <2>1. 1 \in Int /\ k \in Int /\ (IF 1 > k THEN 0 ELSE k - 1 + 1) = k
      BY <1>1
    <2> HIDE DEF k
    <2> QED BY <2>1, FS_Interval
  <1>8. R = 1..k
    BY <1>3, <1>6, <1>7, FS_Subset
  <1>9. PICK i \in S : rk[i] = n
    BY <1>2, <1>8
  <1>10. \E x \in S : Cardinality({j \in S : j <= x}) = n
    BY <1>9 DEF rk, Rank, Below
  <1> QED BY <1>10 DEF NthOf, Rank, Below

\* The number at the place of i is i.
LEMMA RankNth ==
    ASSUME NEW S \in SUBSET Nat, IsFiniteSet(S), NEW i \in S
    PROVE  Rank(S, i) \in 1..Cardinality(S) /\ NthOf(S, Rank(S, i)) = i
  <1>1. Rank(S, i) \in 1..Cardinality(S)
    BY Ranks
  <1>2. NthOf(S, Rank(S, i)) \in S /\ Rank(S, NthOf(S, Rank(S, i))) = Rank(S, i)
    BY <1>1, NthRank
  <1>3. \A a, b \in S : Rank(S, a) = Rank(S, b) => a = b
    BY Ranks
  <1> QED BY <1>1, <1>2, <1>3

\* What is picked from a sequence is of the sequence, at the positions asked for.
LEMMA PickedIs ==
    ASSUME NEW T, NEW s \in Seq(T), NEW S \in SUBSET DOMAIN s
    PROVE  /\ PickAt(s, S) \in Seq(T)
           /\ \A n \in DOMAIN PickAt(s, S) : \E i \in S : PickAt(s, S)[n] = s[i]
  <1>1. DOMAIN s = 1..Len(s) /\ Len(s) \in Nat
    OBVIOUS
  <1>2. IsFiniteSet(1..Len(s))
    BY <1>1, FS_Interval
  <1>3. S \in SUBSET Nat /\ IsFiniteSet(S)
    BY <1>1, <1>2, FS_Subset
  <1>4. Cardinality(S) \in Nat
    BY <1>3, FS_CardinalityType
  <1>5. \A n \in 1..Cardinality(S) : NthOf(S, n) \in S
    BY <1>3, NthRank
  <1>6. \A n \in 1..Cardinality(S) : s[NthOf(S, n)] \in T
    BY <1>1, <1>5
  <1> DEFINE q == PickAt(s, S)
  <1>7. q = [n \in 1..Cardinality(S) |-> s[NthOf(S, n)]]
    BY DEF PickAt
  <1> HIDE DEF q
  <1>8. q \in Seq(T)
    BY <1>4, <1>6, <1>7
  <1>9. \A n \in DOMAIN q : \E i \in S : q[n] = s[i]
    BY <1>5, <1>7
  <1> QED BY <1>8, <1>9 DEF q

LEMMA PickNone ==
    ASSUME NEW s
    PROVE  PickAt(s, {}) = <<>>
  <1>1. Cardinality({}) = 0
    BY FS_EmptySet
  <1>2. 1..0 = {}
    OBVIOUS
  <1> QED BY <1>1, <1>2 DEF PickAt

LEMMA PickOne ==
    ASSUME NEW s, NEW a \in Nat
    PROVE  PickAt(s, {a}) = <<s[a]>>
  <1>1. Cardinality({a}) = 1
    BY FS_Singleton
  <1>2. NthOf({a}, 1) = a
    <2>1. {j \in {a} : j <= a} = {a}
      OBVIOUS
    <2>2. \E i \in {a} : Cardinality({j \in {a} : j <= i}) = 1
      BY <1>1, <2>1
    <2>3. NthOf({a}, 1) \in {a}
      BY <2>2 DEF NthOf
    <2> QED BY <2>3
  <1>3. PickAt(s, {a}) = [n \in 1..1 |-> s[NthOf({a}, n)]]
    BY <1>1 DEF PickAt
  <1>4. \A n \in 1..1 : n = 1
    OBVIOUS
  <1>5. [n \in 1..1 |-> s[NthOf({a}, n)]] = [n \in 1..1 |-> s[a]]
    BY <1>2, <1>4
  <1> QED BY <1>3, <1>5

\* Two lists that agree along an order of their picked positions give the same.
LEMMA SamePicked ==
    ASSUME NEW s, NEW t, NEW S \in SUBSET Nat, NEW T \in SUBSET Nat, IsFiniteSet(S),
           NEW h \in [S -> T], \A i, j \in S : i < j => h[i] < h[j],
           \A x \in T : \E i \in S : h[i] = x, \A i \in S : s[i] = t[h[i]]
    PROVE  PickAt(s, S) = PickAt(t, T)
  <1>1. \A i, j \in S : h[i] = h[j] => i = j
    <2> SUFFICES ASSUME NEW i \in S, NEW j \in S, h[i] = h[j] PROVE i = j
      OBVIOUS
    <2>1. i \in Nat /\ j \in Nat /\ h[i] \in Nat /\ h[j] \in Nat
      OBVIOUS
    <2>2. ~(i < j) /\ ~(j < i)
      BY <2>1
    <2> QED BY <2>1, <2>2
  <1>2. h \in Bijection(S, T)
    BY <1>1 DEF Bijection, Injection, Surjection, IsInjective
  <1>3. IsFiniteSet(T) /\ Cardinality(T) = Cardinality(S)
    BY <1>2, FS_Bijection DEF ExistsBijection
  <1>4. ASSUME NEW i \in S PROVE Rank(T, h[i]) = Rank(S, i)
    <2> DEFINE A == Below(S, i)
               B == Below(T, h[i])
               g == [j \in A |-> h[j]]
    <2>1. A \in SUBSET S /\ B \in SUBSET T
      BY DEF Below
    <2>2. \A j \in A : h[j] \in B
      <3> TAKE j \in A
      <3>1. j \in S /\ j <= i /\ i \in Nat /\ j \in Nat
        BY DEF Below
      <3>2. j = i \/ j < i
        BY <3>1
      <3>3. h[j] \in T /\ h[j] \in Nat /\ h[i] \in Nat /\ (h[j] = h[i] \/ h[j] < h[i])
        BY <3>1, <3>2
      <3> QED BY <3>3 DEF Below
    <2>3. \A x \in B : \E j \in A : h[j] = x
      <3> TAKE x \in B
      <3>1. x \in T /\ x <= h[i]
        BY DEF Below
      <3>2. PICK j \in S : h[j] = x
        BY <3>1
      <3>5. i \in Nat /\ j \in Nat /\ h[i] \in Nat /\ h[j] \in Nat
        OBVIOUS
      <3>6. h[j] <= h[i]
        BY <3>1, <3>2
      <3>3. i \in Nat /\ j \in Nat /\ ~(h[i] < h[j])
        BY <3>5, <3>6
      <3>4. ~(i < j)
        BY <3>3
      <3> QED BY <3>2, <3>3, <3>4 DEF Below
    <2> HIDE DEF A, B
    <2>4. g \in [A -> B] /\ (\A a, b \in A : g[a] = g[b] => a = b) /\ (\A x \in B : \E j \in A : g[j] = x)
      BY <1>1, <2>1, <2>2, <2>3
    <2> HIDE DEF g
    <2>5. g \in Bijection(A, B)
      BY <2>4 DEF Bijection, Injection, Surjection, IsInjective
    <2>6. IsFiniteSet(A)
      BY <2>1, FS_Subset
    <2>7. Cardinality(B) = Cardinality(A)
      BY <2>5, <2>6, FS_Bijection DEF ExistsBijection
    <2> QED BY <2>7 DEF A, B, Rank
  <1>5. ASSUME NEW n \in 1..Cardinality(S) PROVE s[NthOf(S, n)] = t[NthOf(T, n)]
    <2> DEFINE i == NthOf(S, n)
    <2>1. i \in S /\ Rank(S, i) = n
      BY NthRank
    <2> HIDE DEF i
    <2>2. h[i] \in T /\ Rank(T, h[i]) = n
      BY <1>4, <2>1
    <2>3. NthOf(T, n) = h[i]
      BY <1>3, <2>2, RankNth
    <2> QED BY <2>1, <2>3 DEF i
  <1> QED BY <1>3, <1>5 DEF PickAt

\* Picking from what was picked.
LEMMA PickedTwice ==
    ASSUME NEW s, NEW S \in SUBSET Nat, IsFiniteSet(S), NEW T \in SUBSET S, NEW U \in SUBSET (1..Cardinality(S)),
           \A n \in 1..Cardinality(S) : n \in U <=> NthOf(S, n) \in T
    PROVE  PickAt(s, T) = PickAt(PickAt(s, S), U)
  <1> DEFINE h == [i \in T |-> Rank(S, i)]
             q == PickAt(s, S)
  <1>1. T \in SUBSET Nat /\ IsFiniteSet(T) /\ Cardinality(S) \in Nat
    BY FS_Subset, FS_CardinalityType
  <1>2. U \in SUBSET Nat
    BY <1>1
  <1>3. \A i \in T : Rank(S, i) \in 1..Cardinality(S) /\ NthOf(S, Rank(S, i)) = i
    BY RankNth
  <1>4. h \in [T -> U]
    BY <1>3
  <1>5. \A i, j \in T : i < j => h[i] < h[j]
    BY Ranks
  <1>6. \A x \in U : \E i \in T : h[i] = x
    <2> TAKE x \in U
    <2>1. NthOf(S, x) \in T /\ Rank(S, NthOf(S, x)) = x
      BY NthRank
    <2> QED BY <2>1
  <1>7. \A i \in T : s[i] = q[h[i]]
    BY <1>3 DEF PickAt
  <1> HIDE DEF h, q
  <1>8. PickAt(s, T) = PickAt(q, U)
    BY <1>1, <1>2, <1>4, <1>5, <1>6, <1>7, SamePicked
  <1> QED BY <1>8 DEF q

=============================================================================
