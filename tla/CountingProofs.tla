--------------------------- MODULE CountingProofs ---------------------------
(***************************************************************************)
(* How counts change when a sequence grows at its end or loses its head.   *)
(***************************************************************************)
EXTENDS Counting, TLAPS, FiniteSetTheorems, SequenceTheorems

LEMMA CountType ==
  ASSUME NEW s, NEW v, NEW n \in Nat
  PROVE  /\ IsFiniteSet({i \in 1..n : s[i] = v})
         /\ Count(s, v, n) \in Nat
<1>1. IsFiniteSet(1..n)
  BY FS_Interval
<1>2. IsFiniteSet({i \in 1..n : s[i] = v})
  BY <1>1, FS_Subset
<1> QED
  BY <1>2, FS_CardinalityType DEF Count

(* One more position counts one more occurrence, or none. *)
LEMMA CountStep ==
  ASSUME NEW s, NEW v, NEW n \in Nat
  PROVE  /\ Count(s, v, 0) = 0
         /\ Count(s, v, n + 1) = Count(s, v, n) + IF s[n + 1] = v THEN 1 ELSE 0
<1> DEFINE P(m) == {i \in 1..m : s[i] = v}
<1>1. P(0) = {}
  OBVIOUS
<1>2. IsFiniteSet(P(n)) /\ Cardinality(P(n)) \in Nat
  BY CountType, FS_CardinalityType
<1>3. CASE s[n + 1] = v
  <2>1. P(n + 1) = P(n) \union {n + 1} /\ n + 1 \notin P(n)
    BY <1>3
  <2> QED
    BY <1>1, <1>2, <1>3, <2>1, FS_AddElement, FS_EmptySet DEF Count
<1>4. CASE s[n + 1] # v
  <2>1. P(n + 1) = P(n)
    BY <1>4
  <2> QED
    BY <1>1, <1>2, <1>4, <2>1, FS_EmptySet DEF Count
<1> QED
  BY <1>3, <1>4

(* Counts only depend on the positions counted. *)
LEMMA CountSame ==
  ASSUME NEW s, NEW t, NEW v, NEW n \in Nat,
         \A i \in 1..n : s[i] = t[i]
  PROVE  Count(s, v, n) = Count(t, v, n)
<1>1. {i \in 1..n : s[i] = v} = {i \in 1..n : t[i] = v}
  OBVIOUS
<1> QED
  BY <1>1 DEF Count

(* Losing the head shifts every count by one position. *)
LEMMA CountShift ==
  ASSUME NEW s, NEW t, NEW v, NEW n \in Nat,
         \A i \in 1..n : t[i] = s[i + 1]
  PROVE  Count(s, v, n + 1) = Count(t, v, n) + IF s[1] = v THEN 1 ELSE 0
<1> DEFINE A == {i \in 1..n : t[i] = v}
           B == {i \in 1..(n + 1) : s[i] = v}
           C == B \ {1}
           f == [i \in A |-> i + 1]
<1>1. f \in Bijection(A, C)
  <2>1. f \in [A -> C]
    OBVIOUS
  <2>2. \A a, b \in A : f[a] = f[b] => a = b
    OBVIOUS
  <2>3. \A c \in C : \E a \in A : f[a] = c
    <3> TAKE c \in C
    <3> WITNESS c - 1 \in A
    <3> QED
      OBVIOUS
  <2> QED
    BY <2>1, <2>2, <2>3 DEF Bijection, Injection, Surjection, IsInjective
<1>2. IsFiniteSet(A) /\ IsFiniteSet(B)
  <2>1. n + 1 \in Nat
    OBVIOUS
  <2>2. IsFiniteSet(B)
    BY ONLY <2>1, CountType
  <2> QED
    BY <2>2, CountType
<1>3. Cardinality(C) = Cardinality(A)
  BY <1>1, <1>2, FS_Bijection DEF ExistsBijection
<1>4. Cardinality(C) = IF 1 \in B THEN Cardinality(B) - 1 ELSE Cardinality(B)
  BY <1>2, FS_RemoveElement
<1>5. Cardinality(A) \in Nat /\ Cardinality(B) \in Nat
  BY <1>2, FS_CardinalityType
<1>6. 1 \in B <=> s[1] = v
  OBVIOUS
<1> QED
  BY <1>3, <1>4, <1>5, <1>6 DEF Count

LEMMA OccurrencesAppend ==
  ASSUME NEW S, NEW s \in Seq(S), NEW u \in S, NEW v \in S
  PROVE  Occurrences(Append(s, u), v)
           = Occurrences(s, v) + IF u = v THEN 1 ELSE 0
<1>1. /\ Len(s) \in Nat
      /\ Len(Append(s, u)) = Len(s) + 1
      /\ \A i \in 1..Len(s) : Append(s, u)[i] = s[i]
      /\ Append(s, u)[Len(s) + 1] = u
  OBVIOUS
<1> DEFINE t == Append(s, u)
           n == Len(s)
<1> HIDE DEF t, n
<1>2. Count(t, v, n) = Count(s, v, n) /\ Count(s, v, n) \in Nat
  BY <1>1, CountSame, CountType DEF t, n
<1>3. Count(t, v, n + 1) = Count(t, v, n) + IF t[n + 1] = v THEN 1 ELSE 0
  BY <1>1, CountStep DEF n
<1> QED
  BY <1>1, <1>2, <1>3 DEF Occurrences, t, n

LEMMA OccurrencesTail ==
  ASSUME NEW S, NEW s \in Seq(S), s # <<>>, NEW v \in S
  PROVE  Occurrences(s, v) = Occurrences(Tail(s), v) + IF Head(s) = v THEN 1 ELSE 0
<1>1. /\ Len(s) \in Nat \ {0}
      /\ Len(Tail(s)) = Len(s) - 1
      /\ \A i \in 1..Len(Tail(s)) : Tail(s)[i] = s[i + 1]
      /\ Head(s) = s[1]
  OBVIOUS
<1> DEFINE t == Tail(s)
           n == Len(Tail(s))
<1> HIDE DEF t, n
<1>2. n \in Nat /\ \A i \in 1..n : t[i] = s[i + 1]
  BY <1>1 DEF t, n
<1>3. Count(s, v, n + 1) = Count(t, v, n) + IF s[1] = v THEN 1 ELSE 0
  BY <1>2, CountShift
<1> QED
  BY <1>1, <1>3 DEF Occurrences, t, n

LEMMA RankAppend ==
  ASSUME NEW S, NEW s \in Seq(S), NEW u \in S
  PROVE  /\ \A i \in 1..Len(s) : Rank(Append(s, u), i) = Rank(s, i)
         /\ Rank(Append(s, u), Len(s) + 1) = Occurrences(s, u) + 1
<1>1. /\ Len(s) \in Nat
      /\ Len(Append(s, u)) = Len(s) + 1
      /\ \A i \in 1..Len(s) : Append(s, u)[i] = s[i]
      /\ Append(s, u)[Len(s) + 1] = u
  OBVIOUS
<1>2. ASSUME NEW i \in 1..Len(s)
      PROVE  Rank(Append(s, u), i) = Rank(s, i)
  <2> DEFINE t == Append(s, u)
             v == s[i]
  <2>1. i \in Nat /\ (\A j \in 1..i : t[j] = s[j]) /\ t[i] = v
    BY <1>1
  <2> HIDE DEF t, v
  <2>2. Count(t, v, i) = Count(s, v, i)
    BY <2>1, CountSame
  <2> QED
    BY <2>1, <2>2 DEF Rank, t, v
<1>3. Rank(Append(s, u), Len(s) + 1) = Occurrences(s, u) + 1
  <2>1. Occurrences(Append(s, u), u) = Occurrences(s, u) + 1
    BY OccurrencesAppend
  <2> QED
    BY <1>1, <2>1 DEF Rank, Occurrences
<1> QED
  BY <1>2, <1>3

LEMMA RankTail ==
  ASSUME NEW S, NEW s \in Seq(S), s # <<>>, NEW i \in 1..(Len(s) - 1)
  PROVE  Rank(s, i + 1) = Rank(Tail(s), i) + IF s[i + 1] = Head(s) THEN 1 ELSE 0
<1>1. /\ Len(s) \in Nat \ {0}
      /\ Len(Tail(s)) = Len(s) - 1
      /\ \A j \in 1..Len(Tail(s)) : Tail(s)[j] = s[j + 1]
      /\ Head(s) = s[1]
      /\ i \in Nat
  OBVIOUS
<1> DEFINE t == Tail(s)
           v == s[i + 1]
<1>2. (\A j \in 1..i : t[j] = s[j + 1]) /\ t[i] = v
  BY <1>1
<1> HIDE DEF t, v
<1>3. Count(s, v, i + 1) = Count(t, v, i) + IF s[1] = v THEN 1 ELSE 0
  BY <1>1, <1>2, CountShift
<1> QED
  BY <1>1, <1>2, <1>3 DEF Rank, t, v

(* A rank is at least 1 and never more than the number of occurrences. *)
LEMMA RankRange ==
  ASSUME NEW S, NEW s \in Seq(S), NEW i \in 1..Len(s)
  PROVE  Rank(s, i) \in 1..Occurrences(s, s[i])
<1> DEFINE P(m) == {j \in 1..m : s[j] = s[i]}
<1>1. Len(s) \in Nat /\ i \in Nat
  OBVIOUS
<1>2. IsFiniteSet(P(i)) /\ IsFiniteSet(P(Len(s)))
  BY <1>1, CountType
<1>3. P(i) \in SUBSET P(Len(s)) /\ i \in P(i)
  BY <1>1
<1>4. Cardinality(P(i)) <= Cardinality(P(Len(s)))
  BY <1>2, <1>3, FS_Subset
<1>5. Cardinality(P(i)) \in Nat /\ Cardinality(P(Len(s))) \in Nat
  BY <1>2, FS_CardinalityType
<1>6. Cardinality(P(i)) # 0
  BY <1>2, <1>3, FS_EmptySet
<1> QED
  BY <1>4, <1>5, <1>6 DEF Rank, Occurrences, Count

(* The head is the first occurrence of its value. *)
LEMMA RankHead ==
  ASSUME NEW S, NEW s \in Seq(S), s # <<>>
  PROVE  Rank(s, 1) = 1 /\ Occurrences(s, Head(s)) \in Nat \ {0}
<1>1. Len(s) \in Nat \ {0} /\ Head(s) = s[1] /\ 1 \in 1..Len(s)
  OBVIOUS
<1>2. Count(s, s[1], 0 + 1) = 0 + 1
  BY CountStep
<1>3. Rank(s, 1) \in 1..Occurrences(s, s[1])
  BY <1>1, RankRange
<1>4. Occurrences(s, s[1]) \in Nat
  BY <1>1, CountType DEF Occurrences
<1> QED
  BY <1>1, <1>2, <1>3, <1>4 DEF Rank
=============================================================================
