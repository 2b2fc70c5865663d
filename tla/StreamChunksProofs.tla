------------------------- MODULE StreamChunksProofs -------------------------
(***************************************************************************)
(* What Pick returns: the elements at the given indices, each once and in  *)
(* the order of the indices; and what the operators of StreamChunks        *)
(* return: a suffix, a prefix, or the longer of two suffixes of the same   *)
(* stream.                                                                 *)
(***************************************************************************)
EXTENDS StreamChunks, SequenceTheorems, FiniteSetTheorems, TLAPS

-----------------------------------------------------------------------------
(* The elements at some indices.                                           *)

\* How many indices of I come before i.
Before(I, i) == {j \in I : j < i}
Rank(I, i) == Cardinality(Before(I, i))

\* A set of indices is finite, and of numbers.
LEMMA IndexSet ==
  ASSUME NEW n \in Nat, NEW I \in SUBSET (1..n)
  PROVE  IsFiniteSet(I) /\ Cardinality(I) \in Nat /\ \A i \in I : i \in Int
<1>1. IsFiniteSet(1..n)
  <2>1. 1 \in Int /\ n \in Int
    OBVIOUS
  <2>. QED
    BY <2>1, FS_Interval
<1>2. IsFiniteSet(I)
  BY <1>1, FS_Subset
<1>3. Cardinality(I) \in Nat
  BY <1>2, FS_CardinalityType
<1>. QED
  BY <1>2, <1>3

\* Fewer of the indices come before one than there are.
LEMMA RankIsLess ==
  ASSUME NEW n \in Nat, NEW I \in SUBSET (1..n), NEW i \in I
  PROVE  Rank(I, i) \in 0..(Cardinality(I) - 1)
<1>1. IsFiniteSet(I) /\ Cardinality(I) \in Nat /\ \A j \in I : j \in Int
  BY IndexSet
<1>2. /\ Before(I, i) \in SUBSET I
      /\ i \notin Before(I, i)
  BY DEF Before
<1>3. /\ IsFiniteSet(Before(I, i))
      /\ Cardinality(Before(I, i)) <= Cardinality(I)
      /\ Cardinality(Before(I, i)) # Cardinality(I)
  BY <1>1, <1>2, FS_Subset
<1>. QED
  BY <1>1, <1>3, FS_CardinalityType DEF Rank

\* More come before a later one.
LEMMA RankIncreases ==
  ASSUME NEW n \in Nat, NEW I \in SUBSET (1..n), NEW i \in I, NEW k \in I, i < k
  PROVE  Rank(I, i) < Rank(I, k)
<1>1. IsFiniteSet(Before(I, k))
  <2>1. IsFiniteSet(I) /\ Before(I, k) \in SUBSET I
    BY IndexSet DEF Before
  <2>. QED
    BY <2>1, FS_Subset
<1>2. /\ Before(I, i) \in SUBSET Before(I, k)
      /\ i \in Before(I, k) /\ i \notin Before(I, i)
  <2>1. \A j \in I : j \in Int
    BY IndexSet
  <2>2. \A j \in I : j < i => j < k
    BY <2>1
  <2>3. ~(i < i)
    BY <2>1
  <2>. QED
    BY <2>2, <2>3, Zenon DEF Before
<1>3. /\ IsFiniteSet(Before(I, i))
      /\ Cardinality(Before(I, i)) <= Cardinality(Before(I, k))
      /\ Cardinality(Before(I, i)) # Cardinality(Before(I, k))
  BY <1>1, <1>2, FS_Subset
<1>4. Cardinality(Before(I, i)) \in Nat /\ Cardinality(Before(I, k)) \in Nat
  BY <1>1, <1>3, FS_CardinalityType
<1>. QED
  BY <1>3, <1>4 DEF Rank

\* An index is found under every rank: as many indices as ranks, and no two
\* under one.
LEMMA RankReached ==
  ASSUME NEW n \in Nat, NEW I \in SUBSET (1..n), NEW r \in 0..(Cardinality(I) - 1)
  PROVE  \E i \in I : Rank(I, i) = r
<1>. DEFINE f == [i \in I |-> Rank(I, i)]
            R == 0..(Cardinality(I) - 1)
<1>1. IsFiniteSet(I) /\ Cardinality(I) \in Nat /\ \A i \in I : i \in Int
  BY IndexSet
<1>2. IsFiniteSet(R) /\ Cardinality(R) = Cardinality(I)
  <2>1. 0 \in Int /\ Cardinality(I) - 1 \in Int
    BY <1>1
  <2>2. /\ IsFiniteSet(R)
        /\ Cardinality(R) = IF 0 > Cardinality(I) - 1 THEN 0 ELSE (Cardinality(I) - 1) - 0 + 1
    BY <2>1, FS_Interval
  <2>. QED
    BY <1>1, <2>2
<1>3. f \in [I -> R]
  BY RankIsLess
<1>4. \A i, k \in I : f[i] = f[k] => i = k
  <2>. SUFFICES ASSUME NEW i \in I, NEW k \in I, f[i] = f[k], i # k PROVE FALSE
    OBVIOUS
  <2>1. i < k \/ k < i
    BY <1>1
  <2>2. Rank(I, i) = Rank(I, k) /\ Rank(I, i) \in Int
    BY <1>1, <1>3
  <2>. HIDE DEF f
  <2>3. i < k => Rank(I, i) < Rank(I, k)
    BY RankIncreases
  <2>4. k < i => Rank(I, k) < Rank(I, i)
    BY RankIncreases
  <2>. QED
    BY <2>1, <2>2, <2>3, <2>4
<1>5. f \in Injection(I, R)
  BY <1>3, <1>4 DEF Injection, IsInjective
<1>. HIDE DEF f
<1>6. f \in Surjection(I, R)
  BY <1>2, <1>5, FS_Injection
<1>7. \E i \in I : f[i] = r
  BY <1>6 DEF Surjection
<1>. QED
  BY <1>7 DEF f

\* What is picked, is picked at increasing indices, and nothing at an index
\* of I is left out.
PickedAt(s, I, at) ==
  /\ at \in [1..Cardinality(I) -> I]
  /\ \A m \in 1..Cardinality(I) : Pick(s, I)[m] = s[at[m]]
  /\ \A l, m \in 1..Cardinality(I) : l < m => at[l] < at[m]
  /\ \A i \in I : \E m \in 1..Cardinality(I) : at[m] = i

LEMMA PickProperties ==
  ASSUME NEW S, NEW s \in Seq(S), NEW I \in SUBSET (1..Len(s))
  PROVE  /\ Cardinality(I) \in Nat
         /\ Pick(s, I) \in Seq(S)
         /\ Len(Pick(s, I)) = Cardinality(I)
         /\ \E at : PickedAt(s, I, at)
<1>. DEFINE N == Cardinality(I)
            at == [m \in 1..N |-> CHOOSE i \in I : Rank(I, i) = m - 1]
<1>1. Len(s) \in Nat /\ s \in [1..Len(s) -> S]
  BY LenProperties
<1>2. N \in Nat /\ \A i \in I : i \in Int
  BY <1>1, IndexSet
<1>3. \A m \in 1..N : at[m] \in I /\ Rank(I, at[m]) = m - 1
  <2>. SUFFICES ASSUME NEW m \in 1..N PROVE at[m] \in I /\ Rank(I, at[m]) = m - 1
    OBVIOUS
  <2>1. m - 1 \in 0..(N - 1)
    BY <1>2
  <2>2. \E i \in I : Rank(I, i) = m - 1
    BY <1>1, <2>1, RankReached
  <2>. QED
    BY <2>2
<1>4. \A m \in 1..N : Pick(s, I)[m] = s[at[m]]
  BY DEF Pick, Rank, Before
<1>5. Pick(s, I) \in Seq(S) /\ Len(Pick(s, I)) = N
  <2>. DEFINE e(m) == s[at[m]]
  <2>1. Pick(s, I) = [m \in 1..N |-> e(m)]
    BY DEF Pick, Rank, Before
  <2>2. \A m \in 1..N : e(m) \in S
    BY <1>1, <1>3
  <2>. HIDE DEF e
  <2>3. [m \in 1..N |-> e(m)] \in Seq(S) /\ Len([m \in 1..N |-> e(m)]) = N
    BY <1>2, <2>2
  <2>. QED
    BY <2>1, <2>3
<1>6. at \in [1..N -> I]
  BY <1>3
<1>. HIDE DEF at
<1>7. \A l, m \in 1..N : l < m => at[l] < at[m]
  <2>. SUFFICES ASSUME NEW l \in 1..N, NEW m \in 1..N, l < m, ~(at[l] < at[m]) PROVE FALSE
    OBVIOUS
  <2>1. /\ at[l] \in I /\ at[m] \in I
        /\ Rank(I, at[l]) = l - 1 /\ Rank(I, at[m]) = m - 1
    BY <1>3
  <2>2. at[m] = at[l] \/ at[m] < at[l]
    <3>1. at[l] \in Int /\ at[m] \in Int
      BY <1>2, <2>1, Zenon
    <3>. QED
      BY <3>1
  <2>3. at[m] = at[l] => l - 1 = m - 1
    BY <2>1
  <2>4. at[m] < at[l] => m - 1 < l - 1
    BY <2>1, <1>1, RankIncreases
  <2>. QED
    BY <1>2, <2>2, <2>3, <2>4
<1>8. \A i \in I : \E m \in 1..N : at[m] = i
  <2>. SUFFICES ASSUME NEW i \in I PROVE \E m \in 1..N : at[m] = i
    OBVIOUS
  <2>1. Rank(I, i) \in 0..(N - 1)
    BY <1>1, RankIsLess
  <2>2. PICK m \in 1..N : m - 1 = Rank(I, i)
    <3>. DEFINE m == Rank(I, i) + 1
    <3>1. m \in 1..N /\ m - 1 = Rank(I, i)
      BY <1>2, <2>1
    <3>. QED
      BY <3>1
  <2>3. at[m] \in I /\ Rank(I, at[m]) = Rank(I, i)
    BY <1>3, <2>2
  <2>4. at[m] < i => Rank(I, at[m]) < Rank(I, i)
    BY <1>1, <2>3, RankIncreases
  <2>5. i < at[m] => Rank(I, i) < Rank(I, at[m])
    BY <1>1, <2>3, RankIncreases
  <2>6. Rank(I, i) \in Int
    BY <1>2, <2>1
  <2>7. at[m] \in Int /\ i \in Int
    BY <1>2, <2>3, Zenon
  <2>. QED
    BY <2>3, <2>4, <2>5, <2>6, <2>7
<1>9. PickedAt(s, I, at)
  BY <1>4, <1>6, <1>7, <1>8 DEF PickedAt
<1>. QED
  BY <1>2, <1>5, <1>9

-----------------------------------------------------------------------------
(* The chunks of a stream.                                                 *)

\* Shifting chunks off the head of a sequence leaves a suffix of it.
LEMMA FromFirstIsSuffix ==
  ASSUME NEW S, NEW s \in Seq(S), NEW I \in SUBSET (1..Len(s))
  PROVE  \E k \in 1..(Len(s) + 1) : FromFirst(s, I) = SubSeq(s, k, Len(s))
<1>1. CASE \E i \in I : IsLeast(i, I)
  <2>1. (CHOOSE i \in I : IsLeast(i, I)) \in I
    BY <1>1
  <2>2. PICK k \in I : k = (CHOOSE i \in I : IsLeast(i, I))
    BY <2>1
  <2>3. Len(s) \in Nat /\ k \in 1..Len(s)
    BY LenProperties
  <2>4. k \in 1..(Len(s) + 1)
    BY <2>3
  <2>5. FromFirst(s, I) = SubSeq(s, k, Len(s))
    BY <1>1, <2>2 DEF FromFirst, Suffix
  <2>. QED
    BY <2>4, <2>5
<1>2. CASE ~(\E i \in I : IsLeast(i, I))
  <2>1. Len(s) \in Nat
    BY LenProperties
  <2>2. SubSeq(s, Len(s) + 1, Len(s)) = <<>>
    BY <2>1, SubSeqEmpty
  <2>. QED
    BY <1>2, <2>1, <2>2 DEF FromFirst
<1>. QED
  BY <1>1, <1>2

\* The type and the elements of what a suffix of a sequence is.
LEMMA SuffixProperties ==
  ASSUME NEW S, NEW s \in Seq(S), NEW k \in 1..(Len(s) + 1)
  PROVE  /\ SubSeq(s, k, Len(s)) \in Seq(S)
         /\ Len(SubSeq(s, k, Len(s))) = Len(s) - k + 1
         /\ \A i \in 1..(Len(s) - k + 1) : SubSeq(s, k, Len(s))[i] = s[k - 1 + i]
<1>1. Len(s) \in Nat /\ k \in Int
  BY LenProperties
<1>2. \A i \in k..Len(s) : s[i] \in S
  BY <1>1, ElementOfSeq
<1>3. /\ SubSeq(s, k, Len(s)) \in Seq(S)
      /\ Len(SubSeq(s, k, Len(s))) = IF k <= Len(s) THEN Len(s) - k + 1 ELSE 0
      /\ \A i \in 1..(Len(s) - k + 1) : SubSeq(s, k, Len(s))[i] = s[k + i - 1]
  BY <1>1, <1>2, SubSeqProperties
<1>4. \A i \in 1..(Len(s) - k + 1) : k + i - 1 = k - 1 + i
  BY <1>1
<1>. QED
  BY <1>1, <1>3, <1>4

\* A suffix of a suffix is a suffix.
LEMMA SuffixOfSuffix ==
  ASSUME NEW S, NEW t \in Seq(S), NEW s \in Seq(S), IsSuffixOf(s, t),
         NEW I \in SUBSET (1..Len(s))
  PROVE  /\ FromFirst(s, I) \in Seq(S)
         /\ IsSuffixOf(FromFirst(s, I), s)
         /\ IsSuffixOf(FromFirst(s, I), t)
<1>1. PICK k \in 1..(Len(s) + 1) : FromFirst(s, I) = SubSeq(s, k, Len(s))
  BY FromFirstIsSuffix
<1>0. /\ FromFirst(s, I) \in Seq(S)
      /\ Len(FromFirst(s, I)) = Len(s) - k + 1
      /\ \A i \in 1..(Len(s) - k + 1) : FromFirst(s, I)[i] = s[k - 1 + i]
  BY <1>1, SuffixProperties
<1>2. /\ FromFirst(s, I) \in Seq(S)
      /\ Len(FromFirst(s, I)) = Len(s) - k + 1
      /\ \A i \in 1..Len(FromFirst(s, I)) :
           FromFirst(s, I)[i] = s[Len(s) - Len(FromFirst(s, I)) + i]
  <2>1. Len(s) \in Nat /\ k \in Int
    BY LenProperties
  <2>2. Len(s) - Len(FromFirst(s, I)) = k - 1
    BY <2>1, <1>0
  <2>. QED
    BY <1>0, <2>2
<1>3. Len(s) \in Nat /\ Len(t) \in Nat
  BY LenProperties
<1>4. \A i \in 1..Len(s) : s[i] = t[Len(t) - Len(s) + i]
  BY DEF IsSuffixOf
<1>5. IsSuffixOf(FromFirst(s, I), s)
  BY <1>2, <1>3 DEF IsSuffixOf
<1>6. IsSuffixOf(FromFirst(s, I), t)
  <2>1. Len(FromFirst(s, I)) <= Len(t)
    BY <1>2, <1>3 DEF IsSuffixOf
  <2>2. ASSUME NEW i \in 1..Len(FromFirst(s, I))
        PROVE  FromFirst(s, I)[i] = t[Len(t) - Len(FromFirst(s, I)) + i]
    <3>1. Len(s) - Len(FromFirst(s, I)) + i \in 1..Len(s)
      BY <1>2, <1>3
    <3>2. FromFirst(s, I)[i] = s[Len(s) - Len(FromFirst(s, I)) + i]
      BY <1>2
    <3>3. Len(t) - Len(s) + (Len(s) - Len(FromFirst(s, I)) + i)
            = Len(t) - Len(FromFirst(s, I)) + i
      BY <1>2, <1>3
    <3>. QED
      BY <3>1, <3>2, <3>3, <1>4
  <2>. QED
    BY <2>1, <2>2 DEF IsSuffixOf
<1>. QED
  BY <1>2, <1>5, <1>6

\* Appending the same chunk to both keeps a suffix a suffix.
LEMMA AppendSuffix ==
  ASSUME NEW S, NEW t \in Seq(S), NEW s \in Seq(S), IsSuffixOf(s, t), NEW c \in S
  PROVE  IsSuffixOf(Append(s, c), Append(t, c))
<1>1. Len(s) \in Nat /\ Len(t) \in Nat
  BY LenProperties
<1>2. /\ Len(Append(s, c)) = Len(s) + 1
      /\ \A i \in 1..Len(s) : Append(s, c)[i] = s[i]
      /\ Append(s, c)[Len(s) + 1] = c
  BY AppendProperties
<1>3. /\ Len(Append(t, c)) = Len(t) + 1
      /\ \A i \in 1..Len(t) : Append(t, c)[i] = t[i]
      /\ Append(t, c)[Len(t) + 1] = c
  BY AppendProperties
<1>4. \A i \in 1..Len(s) : s[i] = t[Len(t) - Len(s) + i] /\ Len(t) - Len(s) + i \in 1..Len(t)
  BY <1>1 DEF IsSuffixOf
<1>. QED
  BY <1>1, <1>2, <1>3, <1>4 DEF IsSuffixOf

\* Picking a prefix of the indices gives the prefix.
LEMMA PickPrefix ==
  ASSUME NEW S, NEW s \in Seq(S), NEW k \in 0..Len(s)
  PROVE  Pick(s, 1..k) = SubSeq(s, 1, k)
<1>1. Len(s) \in Nat /\ k \in Int
  BY LenProperties
<1>2. Cardinality(1..k) = k
  BY <1>1, FS_Interval
<1>3. ASSUME NEW n \in 1..k
      PROVE  (CHOOSE i \in 1..k : Cardinality({j \in 1..k : j < i}) = n - 1) = n
  <2>1. ASSUME NEW i \in 1..k
        PROVE  Cardinality({j \in 1..k : j < i}) = i - 1
    <3>1. {j \in 1..k : j < i} = 1..(i - 1)
      BY <1>1
    <3>2. Cardinality(1..(i - 1)) = i - 1
      BY <1>1, FS_Interval
    <3>. QED
      BY <3>1, <3>2
  <2>2. \A i \in 1..k : Cardinality({j \in 1..k : j < i}) = n - 1 <=> i = n
    BY <1>1, <2>1
  <2>. QED
    BY <2>2
<1>4. Pick(s, 1..k) = [n \in 1..k |-> s[n]]
  <2>. DEFINE at(n) == CHOOSE i \in 1..k : Cardinality({j \in 1..k : j < i}) = n - 1
  <2>1. Pick(s, 1..k) = [n \in 1..k |-> s[at(n)]]
    BY <1>2, Zenon DEF Pick
  <2>2. \A n \in 1..k : at(n) = n
    BY <1>3
  <2>. HIDE DEF at
  <2>. QED
    BY <2>1, <2>2
<1>5. \A i \in 1..k : s[i] \in S
  BY <1>1, ElementOfSeq
<1>6. /\ SubSeq(s, 1, k) \in Seq(S)
      /\ Len(SubSeq(s, 1, k)) = k
      /\ \A i \in 1..k : SubSeq(s, 1, k)[i] = s[i]
  BY <1>1, <1>5, SubSeqProperties
<1>7. DOMAIN SubSeq(s, 1, k) = 1..k /\ SubSeq(s, 1, k) \in [1..k -> S]
  BY <1>6, LenProperties
<1>. QED
  BY <1>4, <1>6, <1>7

\* How many chunks a window reaches further back than a queue.
Surplus(queue, w) == IF Len(w) > Len(queue) THEN Len(w) - Len(queue) ELSE 0

\* The window chunks that the queue lacks are the first ones, so that
\* unshifting them in front of the queue leaves no gap.
LEMMA MissingIsPrefix ==
  ASSUME NEW S, NEW t \in Seq(S), NEW queue \in Seq(S), NEW w \in Seq(S),
         Numbered(t), IsSuffixOf(queue, t), IsSuffixOf(w, t)
  PROVE  /\ Missing(queue, w) = 1..Surplus(queue, w)
         /\ Surplus(queue, w) \in 0..Len(w)
<1>1. Len(t) \in Nat /\ Len(queue) \in Nat /\ Len(w) \in Nat
  BY LenProperties
<1>2. Len(queue) <= Len(t) /\ Len(w) <= Len(t)
  BY DEF IsSuffixOf
<1>3. \A j \in 1..Len(queue) : queue[j].id = Len(t) - Len(queue) + j - 1
  <2>1. ASSUME NEW j \in 1..Len(queue)
        PROVE  queue[j].id = Len(t) - Len(queue) + j - 1
    <3>1. queue[j] = t[Len(t) - Len(queue) + j]
      BY DEF IsSuffixOf
    <3>2. Len(t) - Len(queue) + j \in 1..Len(t)
      BY <1>1, <1>2
    <3>. QED
      BY <3>1, <3>2 DEF Numbered
  <2>. QED
    BY <2>1
<1>4. \A i \in 1..Len(w) : w[i].id = Len(t) - Len(w) + i - 1
  <2>1. ASSUME NEW i \in 1..Len(w)
        PROVE  w[i].id = Len(t) - Len(w) + i - 1
    <3>1. w[i] = t[Len(t) - Len(w) + i]
      BY DEF IsSuffixOf
    <3>2. Len(t) - Len(w) + i \in 1..Len(t)
      BY <1>1, <1>2
    <3>. QED
      BY <3>1, <3>2 DEF Numbered
  <2>. QED
    BY <2>1
<1>5. ASSUME NEW i \in 1..Len(w)
      PROVE  (\A j \in 1..Len(queue) : queue[j].id # w[i].id) <=> i <= Len(w) - Len(queue)
  <2>1. CASE i <= Len(w) - Len(queue)
    BY <1>1, <1>3, <1>4, <2>1
  <2>2. CASE i > Len(w) - Len(queue)
    <3>1. i - Len(w) + Len(queue) \in 1..Len(queue)
      BY <1>1, <2>2
    <3>2. queue[i - Len(w) + Len(queue)].id = w[i].id
      BY <1>1, <1>3, <1>4, <3>1
    <3>. QED
      BY <1>1, <2>2, <3>1, <3>2
  <2>. QED
    BY <1>1, <2>1, <2>2
<1>6. Surplus(queue, w) \in 0..Len(w)
  BY <1>1 DEF Surplus
<1>7. Missing(queue, w) = 1..Surplus(queue, w)
  <2>1. ASSUME NEW i \in 1..Len(w)
        PROVE  i \in Missing(queue, w) <=> i <= Len(w) - Len(queue)
    BY <1>5 DEF Missing
  <2>2. Missing(queue, w) \subseteq 1..Len(w)
    BY DEF Missing
  <2>3. ASSUME NEW i \in 1..Len(w)
        PROVE  i \in 1..Surplus(queue, w) <=> i <= Len(w) - Len(queue)
    BY <1>1 DEF Surplus
  <2>4. 1..Surplus(queue, w) \subseteq 1..Len(w)
    BY <1>1, <1>6
  <2>. QED
    BY <2>1, <2>2, <2>3, <2>4
<1>. QED
  BY <1>6, <1>7

\* A rewind leaves in the queue the longer of the two, and the chunks it puts
\* back are the surplus of the window.
LEMMA RewoundIsTheLonger ==
  ASSUME NEW S, NEW t \in Seq(S), NEW queue \in Seq(S), NEW w \in Seq(S),
         Numbered(t), IsSuffixOf(queue, t), IsSuffixOf(w, t)
  PROVE  Rewound(queue, w) = IF Len(w) > Len(queue) THEN w ELSE queue
<1>. DEFINE n == Surplus(queue, w)
<1>1. /\ Missing(queue, w) = 1..n
      /\ n \in 0..Len(w)
  BY MissingIsPrefix
<1>2. Rewound(queue, w) = SubSeq(w, 1, n) \o queue
  BY <1>1, PickPrefix DEF Rewound
<1>3. Len(t) \in Nat /\ Len(queue) \in Nat /\ Len(w) \in Nat /\ n \in Int
  BY <1>1, LenProperties
<1>4. CASE Len(w) > Len(queue)
  <2>1. n = Len(w) - Len(queue)
    BY <1>4 DEF Surplus
  <2>. HIDE DEF n
  <2>2. PICK k \in 1..(Len(w) + 1) : k = n + 1
    BY <1>1, <1>3
  <2>3. /\ SubSeq(w, k, Len(w)) \in Seq(S)
        /\ Len(SubSeq(w, k, Len(w))) = Len(w) - k + 1
        /\ \A i \in 1..(Len(w) - k + 1) : SubSeq(w, k, Len(w))[i] = w[k - 1 + i]
    BY SuffixProperties
  <2>4. Len(SubSeq(w, k, Len(w))) = Len(queue)
    BY <1>3, <2>1, <2>2, <2>3
  <2>5. ASSUME NEW i \in 1..Len(queue)
        PROVE  SubSeq(w, k, Len(w))[i] = queue[i]
    <3>1. queue[i] = t[Len(t) - Len(queue) + i]
      BY DEF IsSuffixOf
    <3>2. k - 1 + i \in 1..Len(w)
      BY <1>1, <1>3, <2>1, <2>2
    <3>3. w[k - 1 + i] = t[Len(t) - Len(w) + (k - 1 + i)]
      BY <3>2 DEF IsSuffixOf
    <3>4. Len(t) - Len(w) + (k - 1 + i) = Len(t) - Len(queue) + i
      BY <1>3, <2>1, <2>2
    <3>5. i \in 1..(Len(w) - k + 1)
      BY <1>3, <2>1, <2>2
    <3>. QED
      BY <2>3, <3>1, <3>3, <3>4, <3>5
  <2>6. SubSeq(w, k, Len(w)) = queue
    BY <2>3, <2>4, <2>5, SeqEqual
  <2>7. SubSeq(w, 1, n) \o SubSeq(w, n + 1, Len(w)) = SubSeq(w, 1, Len(w))
    <3>1. 1 \in 1..(Len(w) + 1) /\ n \in (1 - 1)..Len(w) /\ Len(w) \in n..Len(w)
      BY <1>1, <1>3
    <3>. QED
      BY <3>1, ConcatAdjacentSubSeq
  <2>8. SubSeq(w, 1, Len(w)) = w
    BY SubSeqFull
  <2>. QED
    BY <1>2, <1>4, <2>2, <2>6, <2>7, <2>8
<1>5. CASE ~(Len(w) > Len(queue))
  <2>1. n = 0
    BY <1>5 DEF Surplus
  <2>. HIDE DEF n
  <2>2. SubSeq(w, 1, n) = <<>>
    BY <2>1, SubSeqEmpty
  <2>. QED
    BY <1>2, <1>5, <2>2, ConcatEmptySeq
<1>. QED
  BY <1>4, <1>5

\* The part of a sequence before a suffix of it.
LEMMA PrefixProperties ==
  ASSUME NEW S, NEW s \in Seq(S), NEW r \in Seq(S), IsSuffixOf(r, s)
  PROVE  /\ SubSeq(s, 1, Len(s) - Len(r)) \in Seq(S)
         /\ Len(SubSeq(s, 1, Len(s) - Len(r))) = Len(s) - Len(r)
         /\ \A i \in 1..(Len(s) - Len(r)) : SubSeq(s, 1, Len(s) - Len(r))[i] = s[i]
<1>1. Len(s) \in Nat /\ Len(r) \in Nat /\ Len(r) <= Len(s)
  BY LenProperties DEF IsSuffixOf
<1>2. \A i \in 1..(Len(s) - Len(r)) : s[i] \in S
  BY <1>1, ElementOfSeq
<1>3. \A i \in 1..(Len(s) - Len(r)) : 1 + i - 1 = i
  BY <1>1
<1>. QED
  BY <1>1, <1>2, <1>3, SubSeqProperties

\* Counting the bytes of a sequence gives a number.
LEMMA BytesType ==
  ASSUME NEW S, NEW s \in Seq(S)
  PROVE  Bytes(s) \in Nat
<1>1. Len(s) \in Int /\ MaxLen \in Int
  BY LenProperties, MaxLenAssumption
<1>2. IsFiniteSet(1..Len(s)) /\ IsFiniteSet(1..MaxLen)
  BY <1>1, FS_Interval
<1>3. IsFiniteSet((1..Len(s)) \X (1..MaxLen))
  BY <1>2, FS_Product
<1>4. IsFiniteSet({p \in (1..Len(s)) \X (1..MaxLen) : p[2] <= s[p[1]].len})
  BY <1>3, FS_Subset
<1>. QED
  BY <1>4, FS_CardinalityType DEF Bytes

-----------------------------------------------------------------------------
(* Bytes adds up.                                                          *)

Cells(s) == {p \in (1..Len(s)) \X (1..MaxLen) : p[2] <= s[p[1]].len}

LEMMA CellsFinite ==
  ASSUME NEW S, NEW s \in Seq(S)
  PROVE  IsFiniteSet(Cells(s)) /\ Bytes(s) = Cardinality(Cells(s)) /\ Bytes(s) \in Nat
<1>1. Len(s) \in Int /\ MaxLen \in Int
  BY LenProperties, MaxLenAssumption
<1>2. IsFiniteSet(1..Len(s)) /\ IsFiniteSet(1..MaxLen)
  BY <1>1, FS_Interval
<1>3. IsFiniteSet((1..Len(s)) \X (1..MaxLen))
  BY <1>2, FS_Product
<1>4. IsFiniteSet(Cells(s))
  BY <1>3, FS_Subset DEF Cells
<1>5. Bytes(s) = Cardinality(Cells(s))
  BY DEF Bytes, Cells
<1>. QED
  BY <1>4, <1>5, FS_CardinalityType

LEMMA BytesOfConcat ==
  ASSUME NEW S, NEW s \in Seq(S), NEW t \in Seq(S)
  PROVE  Bytes(s \o t) = Bytes(s) + Bytes(t)
<1>. DEFINE u == s \o t
            Moved == {p \in Cells(u) : p[1] > Len(s)}
            move == [p \in Cells(t) |-> <<Len(s) + p[1], p[2]>>]
<1>1. Len(s) \in Nat /\ Len(t) \in Nat /\ MaxLen \in Nat
  BY LenProperties, MaxLenAssumption
<1>2. /\ u \in Seq(S) /\ Len(u) = Len(s) + Len(t)
      /\ \A i \in 1..Len(s) + Len(t) : u[i] = IF i <= Len(s) THEN s[i] ELSE t[i - Len(s)]
  BY ConcatProperties
<1>3. \A i \in 1..Len(s) : i \in 1..Len(u) /\ u[i] = s[i]
  BY <1>1, <1>2
<1>4. \A i \in 1..Len(t) : Len(s) + i \in 1..Len(u) /\ u[Len(s) + i] = t[i]
  <2>. SUFFICES ASSUME NEW i \in 1..Len(t)
                PROVE  Len(s) + i \in 1..Len(u) /\ u[Len(s) + i] = t[i]
    OBVIOUS
  <2>1. Len(s) + i \in 1..Len(s) + Len(t) /\ ~(Len(s) + i <= Len(s)) /\ (Len(s) + i) - Len(s) = i
    BY <1>1
  <2>. QED
    BY <1>2, <2>1
<1>. HIDE DEF u
<1>5. \A i \in 1..Len(u) : i \in 1..Len(s) \/ (i > Len(s) /\ i - Len(s) \in 1..Len(t))
  BY <1>1, <1>2
<1>6. Cells(u) = Cells(s) \cup Moved
  <2>1. ASSUME NEW p \in Cells(u), ~(p[1] > Len(s)) PROVE p \in Cells(s)
    <3>1. p \in (1..Len(u)) \X (1..MaxLen) /\ p[2] <= u[p[1]].len
      BY DEF Cells
    <3>2. p[1] \in 1..Len(s)
      BY <1>5, <2>1, <3>1
    <3>3. u[p[1]] = s[p[1]]
      BY <1>3, <3>2
    <3>4. p \in (1..Len(s)) \X (1..MaxLen)
      BY <3>1, <3>2
    <3>. QED
      BY <3>1, <3>3, <3>4 DEF Cells
  <2>2. ASSUME NEW p \in Cells(s) PROVE p \in Cells(u)
    <3>1. p \in (1..Len(s)) \X (1..MaxLen) /\ p[2] <= s[p[1]].len
      BY DEF Cells
    <3>2. p[1] \in 1..Len(u) /\ u[p[1]] = s[p[1]]
      BY <1>3, <3>1
    <3>3. p \in (1..Len(u)) \X (1..MaxLen)
      BY <3>1, <3>2
    <3>. QED
      BY <3>1, <3>2, <3>3 DEF Cells
  <2>. QED
    BY <2>1, <2>2
<1>7. Cells(s) \cap Moved = {}
  <2>1. \A p \in Cells(s) : p[1] \in 1..Len(s)
    BY DEF Cells
  <2>2. \A p \in Cells(s) : ~(p[1] > Len(s))
    BY <1>1, <2>1
  <2>. QED
    BY <2>2
<1>8. move \in [Cells(t) -> Moved]
  <2>. SUFFICES ASSUME NEW p \in Cells(t) PROVE <<Len(s) + p[1], p[2]>> \in Moved
    OBVIOUS
  <2>1. p \in (1..Len(t)) \X (1..MaxLen) /\ p[2] <= t[p[1]].len
    BY DEF Cells
  <2>2. p[1] \in 1..Len(t) /\ p[2] \in 1..MaxLen
    BY <2>1
  <2>3. Len(s) + p[1] \in 1..Len(u) /\ u[Len(s) + p[1]] = t[p[1]] /\ Len(s) + p[1] > Len(s)
    BY <1>1, <1>4, <2>2
  <2>. DEFINE q == <<Len(s) + p[1], p[2]>>
  <2>4. q \in (1..Len(u)) \X (1..MaxLen) /\ q[1] = Len(s) + p[1] /\ q[2] = p[2]
    BY <2>2, <2>3
  <2>5. q[2] <= u[q[1]].len /\ q[1] > Len(s)
    BY <2>1, <2>3, <2>4
  <2>. HIDE DEF q
  <2>6. q \in Moved
    BY <2>4, <2>5 DEF Cells
  <2>. QED
    BY <2>6 DEF q
<1>9. \A p, q \in Cells(t) : move[p] = move[q] => p = q
  <2>. SUFFICES ASSUME NEW p \in Cells(t), NEW q \in Cells(t), move[p] = move[q] PROVE p = q
    OBVIOUS
  <2>1. p \in (1..Len(t)) \X (1..MaxLen) /\ q \in (1..Len(t)) \X (1..MaxLen)
    BY DEF Cells
  <2>2. <<Len(s) + p[1], p[2]>> = <<Len(s) + q[1], q[2]>>
    OBVIOUS
  <2>3. p[1] \in Int /\ q[1] \in Int /\ Len(s) + p[1] = Len(s) + q[1] /\ p[2] = q[2]
    BY <2>1, <2>2
  <2>4. p[1] = q[1]
    BY <1>1, <2>3
  <2>. QED
    BY <2>1, <2>3, <2>4
<1>10. \A m \in Moved : \E p \in Cells(t) : move[p] = m
  <2>. SUFFICES ASSUME NEW m \in Moved PROVE \E p \in Cells(t) : move[p] = m
    OBVIOUS
  <2>. DEFINE p == <<m[1] - Len(s), m[2]>>
  <2>1. m \in (1..Len(u)) \X (1..MaxLen) /\ m[2] <= u[m[1]].len /\ m[1] > Len(s)
    BY DEF Cells
  <2>2. /\ m[1] \in 1..Len(u) /\ m[2] \in 1..MaxLen /\ m = <<m[1], m[2]>>
    BY <2>1
  <2>3. m[1] - Len(s) \in 1..Len(t) /\ m[1] \in Int
    BY <1>1, <1>5, <2>1, <2>2
  <2>4. Len(s) + (m[1] - Len(s)) = m[1]
    BY <1>1, <2>3
  <2>5. u[m[1]] = t[m[1] - Len(s)]
    BY <1>4, <2>3, <2>4
  <2>6. p \in (1..Len(t)) \X (1..MaxLen) /\ p[1] = m[1] - Len(s) /\ p[2] = m[2]
    BY <2>2, <2>3
  <2>7. p[2] <= t[p[1]].len
    BY <2>1, <2>5, <2>6
  <2>. HIDE DEF p
  <2>8. p \in Cells(t)
    BY <2>6, <2>7 DEF Cells
  <2>9. move[p] = <<Len(s) + p[1], p[2]>>
    BY <2>8
  <2>. QED
    BY <2>2, <2>4, <2>6, <2>8, <2>9
<1>. HIDE DEF move
<1>11. move \in Bijection(Cells(t), Moved)
  BY <1>8, <1>9, <1>10 DEF Bijection, Injection, Surjection, IsInjective
<1>12. /\ IsFiniteSet(Cells(s)) /\ Bytes(s) = Cardinality(Cells(s)) /\ Bytes(s) \in Nat
       /\ IsFiniteSet(Cells(t)) /\ Bytes(t) = Cardinality(Cells(t)) /\ Bytes(t) \in Nat
       /\ Bytes(u) = Cardinality(Cells(u))
  BY <1>2, CellsFinite
<1>13. IsFiniteSet(Moved) /\ Cardinality(Moved) = Cardinality(Cells(t))
  <2>1. ExistsBijection(Cells(t), Moved)
    BY <1>11 DEF ExistsBijection
  <2>. QED
    BY <1>12, <2>1, FS_Bijection
<1>14. Cardinality(Cells(u)) = Cardinality(Cells(s)) + Cardinality(Moved) - Cardinality({})
  <2>. HIDE DEF Moved
  <2>1. Cardinality(Cells(s) \cup Moved)
          = Cardinality(Cells(s)) + Cardinality(Moved) - Cardinality(Cells(s) \cap Moved)
    BY <1>12, <1>13, FS_Union
  <2>. QED
    BY <1>6, <1>7, <2>1
<1>15. Cardinality({}) = 0
  BY FS_EmptySet
<1>. QED
  BY <1>12, <1>13, <1>14, <1>15 DEF u

LEMMA BytesOfOne ==
  ASSUME NEW c, c.len \in 1..MaxLen
  PROVE  Bytes(<<c>>) = c.len
<1>. DEFINE s == <<c>>
            cell == [k \in 1..c.len |-> <<1, k>>]
<1>1. MaxLen \in Nat /\ c.len \in Nat
  BY MaxLenAssumption
<1>2. s \in Seq({c}) /\ Len(s) = 1 /\ s[1] = c
  OBVIOUS
<1>. HIDE DEF s
<1>3. 1..Len(s) = {1}
  BY <1>2
<1>4. \A k \in 1..c.len : k \in 1..MaxLen
  BY <1>1
<1>5. cell \in [1..c.len -> Cells(s)]
  <2>. SUFFICES ASSUME NEW k \in 1..c.len PROVE <<1, k>> \in Cells(s)
    OBVIOUS
  <2>1. <<1, k>> \in (1..Len(s)) \X (1..MaxLen)
    BY <1>3, <1>4
  <2>2. k <= s[1].len
    BY <1>2
  <2>. QED
    BY <2>1, <2>2 DEF Cells
<1>6. \A k, l \in 1..c.len : cell[k] = cell[l] => k = l
  OBVIOUS
<1>7. \A p \in Cells(s) : \E k \in 1..c.len : cell[k] = p
  <2>. SUFFICES ASSUME NEW p \in Cells(s) PROVE \E k \in 1..c.len : cell[k] = p
    OBVIOUS
  <2>1. p \in (1..Len(s)) \X (1..MaxLen) /\ p[2] <= s[p[1]].len
    BY DEF Cells
  <2>2. p[1] = 1 /\ p[2] \in 1..MaxLen /\ p = <<p[1], p[2]>>
    BY <1>3, <2>1
  <2>3. p[2] <= c.len
    BY <1>2, <2>1, <2>2
  <2>4. p[2] \in 1..c.len
    BY <1>1, <2>2, <2>3
  <2>. QED
    BY <2>2, <2>4
<1>. HIDE DEF cell
<1>8. ExistsBijection(1..c.len, Cells(s))
  BY <1>5, <1>6, <1>7 DEF ExistsBijection, Bijection, Injection, Surjection, IsInjective
<1>9. IsFiniteSet(1..c.len) /\ Cardinality(1..c.len) = c.len
  <2>1. 1 \in Int /\ c.len \in Int
    BY <1>1
  <2>2. IsFiniteSet(1..c.len) /\ Cardinality(1..c.len) = IF 1 > c.len THEN 0 ELSE c.len - 1 + 1
    BY <2>1, FS_Interval
  <2>. QED
    BY <1>1, <2>2
<1>10. Cardinality(Cells(s)) = c.len
  BY <1>8, <1>9, FS_Bijection
<1>. QED
  BY <1>2, <1>10, CellsFinite DEF s

-----------------------------------------------------------------------------
(* The first index at which the shifting stops.                            *)

LEMMA LeastExists ==
  ASSUME NEW n \in Nat, NEW I \in SUBSET (1..n), I # {}
  PROVE  \E i \in I : IsLeast(i, I)
<1>1. IsFiniteSet(I) /\ Cardinality(I) \in Nat /\ \A i \in I : i \in Int
  BY IndexSet
<1>2. Cardinality(I) # 0
  BY <1>1, FS_EmptySet
<1>3. 0 \in 0..(Cardinality(I) - 1)
  BY <1>1, <1>2
<1>4. PICK i \in I : Rank(I, i) = 0
  BY <1>3, RankReached
<1>5. IsFiniteSet(Before(I, i)) /\ Cardinality(Before(I, i)) = 0
  <2>1. Before(I, i) \in SUBSET I
    BY DEF Before
  <2>. QED
    BY <1>1, <1>4, <2>1, FS_Subset DEF Rank
<1>6. Before(I, i) = {}
  BY <1>5, FS_EmptySet
<1>7. \A j \in I : i <= j
  BY <1>1, <1>6 DEF Before
<1>. QED
  BY <1>7 DEF IsLeast

LEMMA FromFirstAt ==
  ASSUME NEW S, NEW s \in Seq(S), NEW I \in SUBSET (1..Len(s)), NEW k \in I, IsLeast(k, I)
  PROVE  FromFirst(s, I) = SubSeq(s, k, Len(s))
<1>1. Len(s) \in Nat
  BY LenProperties
<1>2. \A i \in I : IsLeast(i, I) => i = k
  BY <1>1 DEF IsLeast
<1>3. (CHOOSE i \in I : IsLeast(i, I)) = k
  BY <1>2
<1>. QED
  BY <1>3 DEF FromFirst, Suffix

\* In a sequence, and in what it ends with, the same elements are left.
LEMMA FromFirstOfSuffix ==
  ASSUME NEW S, NEW t \in Seq(S), NEW w \in Seq(S), IsSuffixOf(w, t),
         NEW I \in SUBSET (1..Len(w)), NEW J \in SUBSET (1..Len(t)),
         \A i \in 1..Len(t) : i \in J <=> i - (Len(t) - Len(w)) \in I
  PROVE  FromFirst(t, J) = FromFirst(w, I)
<1>. DEFINE d == Len(t) - Len(w)
<1>1. Len(t) \in Nat /\ Len(w) \in Nat /\ d \in Nat
  BY LenProperties DEF IsSuffixOf
<1>2. \A i \in I : d + i \in J
  BY <1>1
<1>3. \A j \in J : j - d \in I
  OBVIOUS
<1>4. CASE I = {}
  <2>1. J = {}
    BY <1>3, <1>4
  <2>. QED
    BY <1>4, <2>1 DEF FromFirst
<1>5. CASE I # {}
  <2>1. PICK k \in I : IsLeast(k, I)
    BY <1>1, <1>5, LeastExists
  <2>2. PICK m \in J : m = d + k
    BY <1>2
  <2>3. k \in 1..Len(w) /\ m \in 1..Len(t) /\ Len(t) - m = Len(w) - k /\ m - k = d
    BY <1>1, <2>2
  <2>4. IsLeast(m, J)
    <3>. SUFFICES ASSUME NEW j \in J PROVE m <= j
      BY DEF IsLeast
    <3>1. k <= j - d
      BY <1>3, <2>1 DEF IsLeast
    <3>. QED
      BY <1>1, <2>2, <2>3, <3>1
  <2>5. FromFirst(w, I) = SubSeq(w, k, Len(w)) /\ FromFirst(t, J) = SubSeq(t, m, Len(t))
    BY <2>1, <2>4, FromFirstAt
  <2>6. k \in 1..(Len(w) + 1) /\ m \in 1..(Len(t) + 1)
    BY <1>1, <2>3
  <2>7. /\ SubSeq(w, k, Len(w)) \in Seq(S) /\ Len(SubSeq(w, k, Len(w))) = Len(w) - k + 1
        /\ \A i \in 1..(Len(w) - k + 1) : SubSeq(w, k, Len(w))[i] = w[k - 1 + i]
        /\ SubSeq(t, m, Len(t)) \in Seq(S) /\ Len(SubSeq(t, m, Len(t))) = Len(t) - m + 1
        /\ \A i \in 1..(Len(t) - m + 1) : SubSeq(t, m, Len(t))[i] = t[m - 1 + i]
    BY <2>6, SuffixProperties
  <2>8. Len(SubSeq(w, k, Len(w))) = Len(SubSeq(t, m, Len(t)))
    BY <1>1, <2>3, <2>7
  <2>9. ASSUME NEW i \in 1..Len(SubSeq(t, m, Len(t)))
        PROVE  SubSeq(t, m, Len(t))[i] = SubSeq(w, k, Len(w))[i]
    <3>1. i \in 1..(Len(w) - k + 1) /\ i \in 1..(Len(t) - m + 1)
      BY <2>7, <2>8
    <3>2. k - 1 + i \in 1..Len(w) /\ d + (k - 1 + i) = m - 1 + i
      BY <1>1, <2>2, <2>3, <3>1
    <3>3. w[k - 1 + i] = t[d + (k - 1 + i)]
      BY <3>2 DEF IsSuffixOf
    <3>. QED
      BY <2>7, <3>1, <3>2, <3>3
  <2>10. SubSeq(t, m, Len(t)) = SubSeq(w, k, Len(w))
    BY <2>7, <2>8, <2>9, SeqEqual
  <2>. QED
    BY <2>5, <2>10
<1>. QED
  BY <1>4, <1>5

\* In a window of whole groups of pictures every key frame is a point where
\* the shifting can stop, and no other chunk is: one that is no key frame
\* is never at the head.
LEMMA TrimmedToKeyFrame ==
  ASSUME NEW S, NEW w \in Seq(S), NEW now, NEW delay,
         Len(w) > 0, w[1].keyFrame,
         \A i \in 2..Len(w) : ~(w[i].keyFrame /\ w[i - 1].keyFrame)
  PROVE  Trimmed(w, now, delay)
           = FromFirst(w, {i \in 1..Len(w) : w[i].keyFrame /\ now - w[i].time <= delay})
<1>1. Len(w) \in Nat
  BY LenProperties
<1>2. \A i \in 1..Len(w) : IsTrimPoint(w, i) <=> w[i].keyFrame
  <2>. SUFFICES ASSUME NEW i \in 1..Len(w) PROVE IsTrimPoint(w, i) <=> w[i].keyFrame
    OBVIOUS
  <2>1. CASE i = 1
    BY <2>1 DEF IsTrimPoint
  <2>2. CASE i # 1
    <3>1. i \in 2..Len(w) /\ 1 \in 1..(i - 1)
      BY <1>1, <2>2
    <3>. QED
      BY <2>2, <3>1 DEF IsTrimPoint
  <2>. QED
    BY <2>1, <2>2
<1>. QED
  BY <1>2 DEF Trimmed
=============================================================================
