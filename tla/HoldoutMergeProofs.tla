------------------------- MODULE HoldoutMergeProofs -------------------------
(***************************************************************************)
(* The merge of the holdout is sound and exact wherever its tools are      *)
(* killed. The inductive invariant, MergeInv, says what the files of the   *)
(* members hold (MembersInv), what the files of the merge hold at any time *)
(* (DurableIsTrue) and what a run knows where it is (WorkInv). The first   *)
(* lemmas are about the operators of the specification: places, joined     *)
(* sequences, the first rows of each identity. Where they need induction   *)
(* they look at a least counterexample.                                    *)
(***************************************************************************)
EXTENDS HoldoutMerge, FiniteSetTheorems, WellFoundedInduction, TLAPS

\* The lines of a file f for the rows of the members up to the n-th, and the
\* identities of these.
Merged(f, n) == Lines(f, RowsUpTo(n))

\* The record that a row leaves in the table of identities.
SeenOf(row) == [id |-> row.id, member |-> row.member,
                text |-> IF job.merge = "strict" THEN Absent ELSE row.text]

\* The records of the first rows of each identity among the members up to n.
SeenUpTo(n) == {SeenOf(RowsUpTo(n)[Firsts(RowsUpTo(n))[k]]) : k \in DOMAIN Firsts(RowsUpTo(n))}

\* The files of a member are what the archive says.
CorpusDone(i) == corpus[i] = Texts(Selected(i, job.window))
IdentDone(i) == ident[i] = Ids(Selected(i, job.window))

(* Places and rows that are picked.                                        *)

\* The members of S that are smaller.
Below(S, k) == {j \in S : j < k}

\* In a finite set of numbers each has a rank of its own.
LEMMA Ranks ==
  ASSUME NEW S \in SUBSET Int, IsFiniteSet(S)
  PROVE  /\ Cardinality(S) \in Nat
         /\ \A k \in S : /\ IsFiniteSet(Below(S, k))
                         /\ Cardinality(Below(S, k)) \in 0..(Cardinality(S) - 1)
         /\ \A j, k \in S : j < k => Cardinality(Below(S, j)) < Cardinality(Below(S, k))
  <1>1. Cardinality(S) \in Nat
    BY FS_CardinalityType
  <1>2. ASSUME NEW k \in S
        PROVE  IsFiniteSet(Below(S, k)) /\ Cardinality(Below(S, k)) \in 0..(Cardinality(S) - 1)
    <2>1. Below(S, k) \in SUBSET S /\ k \notin Below(S, k)
      BY DEF Below
    <2>2. /\ IsFiniteSet(Below(S, k)) /\ Cardinality(Below(S, k)) <= Cardinality(S)
          /\ Cardinality(S) = Cardinality(Below(S, k)) => S = Below(S, k)
      BY <2>1, FS_Subset
    <2>3. Cardinality(Below(S, k)) \in Nat
      BY <2>2, FS_CardinalityType
    <2> QED BY <1>1, <2>1, <2>2, <2>3
  <1>3. ASSUME NEW j \in S, NEW k \in S, j < k
        PROVE  Cardinality(Below(S, j)) < Cardinality(Below(S, k))
    <2>0. j \in Int /\ k \in Int
      OBVIOUS
    <2>a. ASSUME NEW i \in S, i < j
          PROVE  i < k
      <3>1. i \in Int
        OBVIOUS
      <3> QED BY <1>3, <2>0, <2>a, <3>1
    <2>b. Below(S, j) \in SUBSET Below(S, k) /\ j \in Below(S, k)
      BY <1>3, <2>a DEF Below
    <2>c. ~(j < j)
      BY <2>0
    <2>1. Below(S, j) \in SUBSET Below(S, k) /\ j \in Below(S, k) /\ j \notin Below(S, j)
      BY <2>b, <2>c DEF Below
    <2>2. /\ Cardinality(Below(S, j)) <= Cardinality(Below(S, k))
          /\ Cardinality(Below(S, k)) = Cardinality(Below(S, j)) => Below(S, k) = Below(S, j)
      BY <1>2, <2>1, FS_Subset
    <2>3. Below(S, j) # Below(S, k)
      BY <2>1
    <2>4. Cardinality(Below(S, j)) \in Int /\ Cardinality(Below(S, k)) \in Int
      BY <1>1, <1>2
    <2> QED BY <2>2, <2>3, <2>4
  <1> QED BY <1>1, <1>2, <1>3

\* Places gives each number the place of its rank.
LEMMA PlacesByRank ==
  ASSUME NEW S \in SUBSET Int, IsFiniteSet(S)
  PROVE  /\ Cardinality(S) \in Nat /\ Places(S) \in [1..Cardinality(S) -> S]
         /\ \A n \in 1..Cardinality(S) : Cardinality(Below(S, Places(S)[n])) = n - 1
         /\ \A k \in S : /\ Cardinality(Below(S, k)) + 1 \in 1..Cardinality(S)
                         /\ Places(S)[Cardinality(Below(S, k)) + 1] = k
         /\ \A m, n \in 1..Cardinality(S) : m < n => Places(S)[m] < Places(S)[n]
  <1> DEFINE c == Cardinality(S)
             rank(k) == Cardinality(Below(S, k))
             f == [k \in S |-> rank(k) + 1]
  <1>1. c \in Nat /\ IsFiniteSet(1..c) /\ Cardinality(1..c) = c
    <2>1. c \in Nat /\ 1 \in Int /\ c \in Int
      BY FS_CardinalityType
    <2> QED BY <2>1, FS_Interval
  <1>2. ASSUME NEW j \in S, NEW k \in S, rank(j) = rank(k)
        PROVE  j = k
    <2>1. ~(j < k) /\ ~(k < j)
      BY <1>2, Ranks
    <2> QED BY <2>1
  <1>3. f \in Injection(S, 1..c)
    <2>1. \A k \in S : rank(k) + 1 \in 1..c
      BY <1>1, Ranks
    <2>2. \A j, k \in S : f[j] = f[k] => j = k
      <3>1. \A k \in S : rank(k) \in Nat
        BY Ranks
      <3> QED BY <1>2, <3>1
    <2> QED BY <2>1, <2>2 DEF Injection, IsInjective
  <1>4. f \in Surjection(S, 1..c)
    BY <1>1, <1>3, FS_Injection
  <1>5. ASSUME NEW n \in 1..c
        PROVE  Places(S)[n] \in S /\ rank(Places(S)[n]) = n - 1
    <2>1. PICK k \in S : f[k] = n
      BY <1>4 DEF Surjection
    <2>2. rank(k) = n - 1
      BY <2>1, Ranks
    <2>3. Places(S)[n] = CHOOSE j \in S : rank(j) = n - 1
      BY DEF Places, Below
    <2> QED BY <2>2, <2>3
  <1>6. Places(S) \in [1..c -> S]
    BY <1>5 DEF Places
  <1>7. ASSUME NEW k \in S
        PROVE  rank(k) + 1 \in 1..c /\ Places(S)[rank(k) + 1] = k
    <2>1. rank(k) + 1 \in 1..c /\ rank(k) \in Nat
      BY <1>1, Ranks
    <2>2. Places(S)[rank(k) + 1] \in S /\ rank(Places(S)[rank(k) + 1]) = rank(k)
      BY <1>5, <2>1
    <2> QED BY <1>2, <2>1, <2>2
  <1>8. ASSUME NEW m \in 1..c, NEW n \in 1..c, m < n
        PROVE  Places(S)[m] < Places(S)[n]
    <2> DEFINE j == Places(S)[m]  k == Places(S)[n]
    <2>1. j \in S /\ k \in S /\ rank(j) = m - 1 /\ rank(k) = n - 1
      BY <1>5
    <2> HIDE DEF j, k
    <2>2. j # k /\ (k < j => rank(k) < rank(j))
      BY <1>8, <2>1, Ranks
    <2>3. ~(k < j)
      BY <1>8, <2>1, <2>2
    <2>4. j \in Int /\ k \in Int
      BY <2>1
    <2>5. j < k
      BY <2>2, <2>3, <2>4
    <2> QED BY <2>5 DEF j, k
  <1> QED BY <1>1, <1>5, <1>6, <1>7, <1>8

\* What gives each number the place of its rank is Places.
LEMMA PlacesUnique ==
  ASSUME NEW S \in SUBSET Int, IsFiniteSet(S), NEW p, DOMAIN p = 1..Cardinality(S),
         p = [n \in DOMAIN p |-> p[n]],
         \A n \in DOMAIN p : p[n] \in S /\ Cardinality(Below(S, p[n])) = n - 1
  PROVE  p = Places(S)
  <1>1. ASSUME NEW n \in 1..Cardinality(S)
        PROVE  p[n] = Places(S)[n]
    <2>1. Places(S)[Cardinality(Below(S, p[n])) + 1] = p[n]
      BY PlacesByRank
    <2>2. Cardinality(Below(S, p[n])) + 1 = n
      BY PlacesByRank
    <2> QED BY <2>1, <2>2
  <1> QED BY <1>1, PlacesByRank

\* Numbers behind others have their places behind theirs.
LEMMA PlacesJoin ==
  ASSUME NEW S \in SUBSET Int, NEW T \in SUBSET Int, IsFiniteSet(S), IsFiniteSet(T),
         \A j \in S, k \in T : j < k
  PROVE  /\ Cardinality(S \cup T) = Cardinality(S) + Cardinality(T)
         /\ IsFiniteSet(S \cup T)
         /\ Places(S \cup T) = [n \in 1..(Cardinality(S) + Cardinality(T)) |->
                                  IF n <= Cardinality(S) THEN Places(S)[n]
                                  ELSE Places(T)[n - Cardinality(S)]]
  <1> DEFINE c == Cardinality(S)  d == Cardinality(T)
             p == [n \in 1..(c + d) |-> IF n <= c THEN Places(S)[n] ELSE Places(T)[n - c]]
  <1>1. c \in Nat /\ d \in Nat
    BY FS_CardinalityType
  <1>2. IsFiniteSet(S \cup T) /\ Cardinality(S \cup T) = c + d
    <2>1. S \cap T = {}
      <3> SUFFICES ASSUME NEW j \in S, j \in T
                   PROVE  FALSE
        OBVIOUS
      <3>1. j \in Int /\ j < j
        OBVIOUS
      <3> QED BY <3>1
    <2>2. Cardinality(S \cap T) = 0
      BY <2>1, FS_EmptySet
    <2>3. IsFiniteSet(S \cup T) /\ Cardinality(S \cup T) = c + d - Cardinality(S \cap T)
      BY FS_Union
    <2> QED BY <1>1, <2>2, <2>3
  <1>3. ASSUME NEW n \in 1..(c + d)
        PROVE  p[n] \in S \cup T /\ Cardinality(Below(S \cup T, p[n])) = n - 1
    <2>1. CASE n <= c
      <3>1. n \in 1..c
        BY <1>1, <2>1
      <3>2. p[n] \in S /\ Cardinality(Below(S, p[n])) = n - 1
        BY <2>1, <3>1, PlacesByRank
      <3>3. ASSUME NEW j \in T, j < p[n]
            PROVE  FALSE
        <4>1. j \in Int /\ p[n] \in Int /\ p[n] < j
          BY <3>2
        <4> QED BY <3>3, <4>1
      <3>4. Below(S \cup T, p[n]) = Below(S, p[n])
        BY <3>3 DEF Below
      <3> QED BY <3>2, <3>4
    <2>2. CASE ~(n <= c)
      <3>1. n - c \in 1..d /\ p[n] = Places(T)[n - c]
        BY <1>1, <2>2
      <3>2. p[n] \in T /\ Cardinality(Below(T, p[n])) = n - c - 1 /\ IsFiniteSet(Below(T, p[n]))
        BY <3>1, PlacesByRank, Ranks
      <3> HIDE DEF p
      <3>a. ASSUME NEW j \in S
            PROVE  j < p[n] /\ j \notin Below(T, p[n])
        <4>1. j < p[n]
          BY <3>2
        <4>2. ASSUME j \in T
              PROVE  FALSE
          <5>1. j \in Int /\ j < j
            BY <4>2
          <5> QED BY <5>1
        <4> QED BY <4>1, <4>2 DEF Below
      <3>3. Below(S \cup T, p[n]) = S \cup Below(T, p[n])
        BY <3>a DEF Below
      <3>b. S \cap Below(T, p[n]) = {}
        BY <3>a
      <3>4. Cardinality(S \cap Below(T, p[n])) = 0
        BY <3>b, FS_EmptySet
      <3>5. /\ IsFiniteSet(S \cup Below(T, p[n]))
            /\ Cardinality(S \cup Below(T, p[n]))
                 = c + Cardinality(Below(T, p[n])) - Cardinality(S \cap Below(T, p[n]))
        BY <3>2, FS_Union
      <3>6. c + (n - c - 1) - 0 = n - 1 /\ n \in Int
        BY <1>1
      <3> QED BY <3>2, <3>3, <3>4, <3>5, <3>6
    <2> QED BY <2>1, <2>2
  <1>4. S \cup T \in SUBSET Int
    OBVIOUS
  <1>5. DOMAIN p = 1..Cardinality(S \cup T) /\ p = [n \in DOMAIN p |-> p[n]]
    BY <1>2
  <1> HIDE DEF p
  <1>6. p = Places(S \cup T)
    BY <1>2, <1>3, <1>4, <1>5, PlacesUnique
  <1> QED BY <1>2, <1>6 DEF p

\* Numbers moved by a distance keep their places.
LEMMA PlacesShift ==
  ASSUME NEW S \in SUBSET Int, IsFiniteSet(S), NEW d \in Int
  PROVE  LET T == {d + k : k \in S}
         IN  /\ IsFiniteSet(T) /\ T \in SUBSET Int /\ Cardinality(T) = Cardinality(S)
             /\ Places(T) = [n \in 1..Cardinality(S) |-> d + Places(S)[n]]
  <1> DEFINE T == {d + k : k \in S}
             p == [n \in 1..Cardinality(S) |-> d + Places(S)[n]]
  <1>1. ASSUME NEW R \in SUBSET S
        PROVE  IsFiniteSet({d + k : k \in R}) /\ Cardinality({d + k : k \in R}) = Cardinality(R)
    <2> DEFINE g == [k \in R |-> d + k]
    <2>1. IsFiniteSet(R)
      BY FS_Subset
    <2>2. \A j, k \in R : g[j] = g[k] => j = k
      <3> SUFFICES ASSUME NEW j \in R, NEW k \in R, d + j = d + k
                   PROVE  j = k
        OBVIOUS
      <3>1. j \in Int /\ k \in Int
        OBVIOUS
      <3> QED BY <3>1
    <2>3. g \in Bijection(R, {d + k : k \in R})
      BY <2>2 DEF Bijection, Injection, Surjection, IsInjective
    <2> HIDE DEF g
    <2> QED BY <2>1, <2>3, FS_Bijection DEF ExistsBijection
  <1>2. IsFiniteSet(T) /\ T \in SUBSET Int /\ Cardinality(T) = Cardinality(S)
    <2>1. S \in SUBSET S
      OBVIOUS
    <2>2. IsFiniteSet(T) /\ Cardinality(T) = Cardinality(S)
      BY <1>1, <2>1
    <2>3. \A k \in S : d + k \in Int
      OBVIOUS
    <2> QED BY <2>2, <2>3
  <1>3. ASSUME NEW n \in 1..Cardinality(S)
        PROVE  p[n] \in T /\ Cardinality(Below(T, p[n])) = n - 1
    <2>1. Places(S)[n] \in S /\ Cardinality(Below(S, Places(S)[n])) = n - 1
      BY PlacesByRank
    <2>a. ASSUME NEW k \in S
          PROVE  d + k < d + Places(S)[n] <=> k < Places(S)[n]
      <3>1. k \in Int /\ Places(S)[n] \in Int
        BY <2>1
      <3> QED BY <3>1
    <2>2. Below(T, p[n]) = {d + k : k \in Below(S, Places(S)[n])}
      BY <2>1, <2>a DEF Below
    <2>3. Below(S, Places(S)[n]) \in SUBSET S
      BY DEF Below
    <2> QED BY <1>1, <2>1, <2>2, <2>3
  <1>4. DOMAIN p = 1..Cardinality(T) /\ p = [n \in DOMAIN p |-> p[n]]
    BY <1>2
  <1> HIDE DEF p, T
  <1>5. p = Places(T)
    BY <1>2, <1>3, <1>4, PlacesUnique
  <1> QED BY <1>2, <1>5 DEF p, T

\* All numbers up to one are at their own places.
LEMMA PlacesUpTo ==
  ASSUME NEW c \in Nat
  PROVE  /\ IsFiniteSet(1..c) /\ Cardinality(1..c) = c
         /\ Places(1..c) = [n \in 1..c |-> n]
  <1>1. ASSUME NEW m \in Nat
        PROVE  IsFiniteSet(1..m) /\ Cardinality(1..m) = m
    <2>1. 1 \in Int /\ m \in Int
      OBVIOUS
    <2> QED BY <2>1, FS_Interval
  <1> DEFINE p == [n \in 1..c |-> n]
  <1>2. ASSUME NEW n \in 1..c
        PROVE  p[n] \in 1..c /\ Cardinality(Below(1..c, p[n])) = n - 1
    <2>1. Below(1..c, n) = 1..(n - 1) /\ n - 1 \in Nat
      BY DEF Below
    <2> QED BY <1>1, <2>1
  <1>3. 1..c \in SUBSET Int /\ DOMAIN p = 1..Cardinality(1..c) /\ p = [n \in DOMAIN p |-> p[n]]
    BY <1>1
  <1> HIDE DEF p
  <1>4. p = Places(1..c)
    BY <1>1, <1>2, <1>3, PlacesUnique
  <1> QED BY <1>1, <1>4 DEF p

\* A set of naturals has a least one, since the intervals below its elements
\* are well-founded by inclusion.
LEMMA Least ==
  ASSUME NEW S, S \subseteq Nat, S # {}
  PROVE  \E n \in S : \A i \in S : n <= i
  <1> DEFINE UpTo(n) == 1..n
             T == {UpTo(n) : n \in S}
             Order == StrictSubsetOrdering(Nat)
  <1>1. T \subseteq FiniteSubsetsOf(Nat)
    <2> SUFFICES ASSUME NEW n \in S PROVE UpTo(n) \in FiniteSubsetsOf(Nat)
      OBVIOUS
    <2>1. n \in Int /\ UpTo(n) \subseteq Nat
      OBVIOUS
    <2>2. IsFiniteSet(UpTo(n))
      BY <2>1, FS_Interval
    <2> QED BY <2>1, <2>2 DEF FiniteSubsetsOf
  <1>2. IsWellFoundedOn(Order, FiniteSubsetsOf(Nat))
    BY FS_StrictSubsetOrderingWellFounded
  <1>3. T # {}
    OBVIOUS
  <1> HIDE DEF T, Order
  <1>4. PICK x \in T : \A y \in T : <<y, x>> \notin Order
    BY <1>1, <1>2, <1>3, WFMin
  <1>5. PICK n \in S : x = UpTo(n)
    BY DEF T
  <1>6. ASSUME NEW i \in S, i < n PROVE FALSE
    <2>1. UpTo(i) \in T
      BY DEF T
    <2>2. /\ UpTo(i) \subseteq UpTo(n) /\ UpTo(n) \subseteq Nat
          /\ n \in UpTo(n) /\ n \notin UpTo(i)
      BY <1>6
    <2> HIDE DEF UpTo
    <2>3. <<UpTo(i), UpTo(n)>> \in Order
      BY <2>2 DEF Order, StrictSubsetOrdering
    <2> QED BY <1>4, <1>5, <2>1, <2>3
  <1> QED BY <1>6


-----------------------------------------------------------------------------
(* Joined sequences.                                                       *)

\* f is what FlattenSeq computes for the first n of the sequences s.
Joined(f, s, n) == f = [i \in 1..n |-> IF i = 1 THEN s[i] ELSE f[i-1] \o s[i]]

\* There is such an f, or a least n without one.
LEMMA JoinedExists ==
  ASSUME NEW s, NEW c \in Nat
  PROVE  \E f : Joined(f, s, c)
  <1> DEFINE Bad == {n \in 0..c : ~\E f : Joined(f, s, n)}
  <1> SUFFICES ASSUME Bad # {} PROVE FALSE
    OBVIOUS
  <1>0. Bad \subseteq Nat
    OBVIOUS
  <1> HIDE DEF Bad
  <1>1. PICK n \in Bad : \A i \in Bad : n <= i
    BY <1>0, Least
  <1>2. n \in 0..c /\ ~\E f : Joined(f, s, n)
    BY DEF Bad
  <1>3. CASE n = 0
    <2> DEFINE f == [i \in 1..0 |-> 0]
    <2>1. Joined(f, s, 0)
      BY DEF Joined
    <2> QED BY <1>2, <1>3, <2>1
  <1>4. CASE n # 0
    <2>1. n - 1 \in 0..c /\ n - 1 \notin Bad
      BY <1>0, <1>1, <1>2, <1>4
    <2>2. PICK f : Joined(f, s, n - 1)
      BY <2>1 DEF Bad
    <2> DEFINE g == [i \in 1..n |-> IF i < n THEN f[i] ELSE IF n = 1 THEN s[n] ELSE f[n-1] \o s[n]]
    <2>3. \A i \in 1..(n-1) : f[i] = IF i = 1 THEN s[i] ELSE f[i-1] \o s[i]
      BY <1>2, <2>2 DEF Joined
    <2>4. \A i \in 1..n : g[i] = IF i = 1 THEN s[i] ELSE g[i-1] \o s[i]
      <3> SUFFICES ASSUME NEW i \in 1..n
                   PROVE  g[i] = IF i = 1 THEN s[i] ELSE g[i-1] \o s[i]
        OBVIOUS
      <3>1. CASE i = n
        <4>1. i # 1 => g[i-1] = f[n-1]
          BY <1>2, <1>4, <3>1
        <4>2. g[i] = IF n = 1 THEN s[n] ELSE f[n-1] \o s[n]
          BY <1>2, <1>4, <3>1
        <4> QED BY <3>1, <4>1, <4>2
      <3>2. CASE i # n
        <4>1. i \in 1..(n-1) /\ g[i] = f[i] /\ (i # 1 => g[i-1] = f[i-1])
          BY <1>2, <1>4, <3>2
        <4> QED BY <2>3, <4>1
      <3> QED BY <3>1, <3>2
    <2>5. Joined(g, s, n)
      <3>1. g = [i \in 1..n |-> g[i]]
        OBVIOUS
      <3> HIDE DEF g
      <3>2. g = [i \in 1..n |-> IF i = 1 THEN s[i] ELSE g[i-1] \o s[i]]
        BY <2>4, <3>1
      <3> QED BY <3>2 DEF Joined
    <2> QED BY <1>2, <2>5
  <1> QED BY <1>3, <1>4

\* All such f agree on what they have in common, and are sequences of the
\* elements of s.
LEMMA JoinedOnce ==
  ASSUME NEW E, NEW s, NEW t, NEW c \in Nat, NEW d \in Nat, c <= d,
         \A i \in 1..c : s[i] = t[i] /\ s[i] \in Seq(E),
         NEW f, Joined(f, s, c), NEW g, Joined(g, t, d)
  PROVE  \A i \in 1..c : f[i] = g[i] /\ f[i] \in Seq(E)
  <1> DEFINE Bad == {i \in 1..c : ~(f[i] = g[i] /\ f[i] \in Seq(E))}
  <1> SUFFICES ASSUME Bad # {} PROVE FALSE
    OBVIOUS
  <1>0. Bad \subseteq Nat
    OBVIOUS
  <1> HIDE DEF Bad
  <1>1. PICK n \in Bad : \A i \in Bad : n <= i
    BY <1>0, Least
  <1>2. n \in 1..c /\ n \in 1..d /\ ~(f[n] = g[n] /\ f[n] \in Seq(E))
    BY DEF Bad
  <1>3. f[n] = IF n = 1 THEN s[n] ELSE f[n-1] \o s[n]
    BY <1>2 DEF Joined
  <1>4. g[n] = IF n = 1 THEN t[n] ELSE g[n-1] \o t[n]
    BY <1>2 DEF Joined
  <1>5. CASE n = 1
    BY <1>2, <1>3, <1>4, <1>5
  <1>6. CASE n # 1
    <2>1. n - 1 \in 1..c /\ n - 1 \notin Bad
      BY <1>0, <1>1, <1>2, <1>6
    <2>2. f[n-1] = g[n-1] /\ f[n-1] \in Seq(E) /\ s[n] = t[n] /\ s[n] \in Seq(E)
      BY <1>2, <2>1 DEF Bad
    <2> QED BY <1>2, <1>3, <1>4, <1>6, <2>2
  <1> QED BY <1>5, <1>6

\* The recursive function of FlattenSeq is one that joins step by step.
LEMMA FlattenIsJoined ==
  ASSUME NEW E, NEW s \in Seq(Seq(E)), Len(s) # 0
  PROVE  \E f : Joined(f, s, Len(s)) /\ FlattenSeq(s) = f[Len(s)]
  <1> DEFINE f == CHOOSE g : Joined(g, s, Len(s))
  <1>1. Joined(f, s, Len(s))
    <2>1. Len(s) \in Nat
      OBVIOUS
    <2> QED BY <2>1, JoinedExists
  <1>2. FlattenSeq(s) = f[Len(s)]
    BY DEF FlattenSeq, Joined
  <1> QED BY <1>1, <1>2

\* Joining one sequence more.
LEMMA FlattenGrows ==
  ASSUME NEW E, NEW s \in Seq(Seq(E)), NEW t \in Seq(E)
  PROVE  /\ FlattenSeq(s) \in Seq(E)
         /\ FlattenSeq(Append(s, t)) = FlattenSeq(s) \o t
         /\ Len(s) = 0 => FlattenSeq(s) = <<>>
  <1> DEFINE st == Append(s, t)  n == Len(s)
  <1>1. /\ st \in Seq(Seq(E)) /\ n \in Nat /\ Len(st) = n + 1 /\ st[n + 1] = t
        /\ \A i \in 1..n : st[i] = s[i] /\ s[i] \in Seq(E)
    OBVIOUS
  <1> HIDE DEF st, n
  <1>2. PICK g : Joined(g, st, n + 1) /\ FlattenSeq(st) = g[n + 1]
    BY <1>1, FlattenIsJoined, SMTT(20)
  <1>3. g[n + 1] = IF n = 0 THEN t ELSE g[n] \o t
    <2>1. n + 1 \in 1..(n + 1) /\ (n + 1) - 1 = n /\ (n + 1 = 1 <=> n = 0)
      BY <1>1
    <2>2. g[n + 1] = IF n + 1 = 1 THEN st[n + 1] ELSE g[(n + 1) - 1] \o st[n + 1]
      BY <1>2, <2>1 DEF Joined
    <2> QED BY <1>1, <2>1, <2>2
  <1>4. CASE n = 0
    <2>1. FlattenSeq(s) = s /\ s = <<>>
      BY <1>4 DEF FlattenSeq, n
    <2>2. <<>> \o t = t /\ <<>> \in Seq(E)
      OBVIOUS
    <2> QED BY <1>2, <1>3, <1>4, <2>1, <2>2 DEF st, n
  <1>5. CASE n # 0
    <2>1. PICK f : Joined(f, s, n) /\ FlattenSeq(s) = f[n]
      BY <1>5, FlattenIsJoined DEF n
    <2>2. n \in 1..n /\ n + 1 \in Nat /\ n <= n + 1
      BY <1>1, <1>5
    <2>3. \A i \in 1..n : f[i] = g[i] /\ f[i] \in Seq(E)
      BY <1>1, <1>2, <2>1, <2>2, JoinedOnce, ZenonT(40)
    <2> QED BY <1>2, <1>3, <1>5, <2>1, <2>2, <2>3 DEF st, n
  <1> QED BY <1>4, <1>5

-----------------------------------------------------------------------------
(* The rows of the archive.                                                *)

\* A sequence is a function on its places.
LEMMA SeqIs ==
  ASSUME NEW E, NEW s \in Seq(E)
  PROVE  Len(s) \in Nat /\ s = [n \in 1..Len(s) |-> s[n]]
  OBVIOUS

\* A sequence behind another, place by place.
LEMMA JoinIs ==
  ASSUME NEW E, NEW p \in Seq(E), NEW q \in Seq(E), NEW c, NEW d, Len(p) = c, Len(q) = d
  PROVE  /\ p \o q \in Seq(E) /\ Len(p \o q) = c + d /\ c \in Nat /\ d \in Nat
         /\ p \o q = [n \in 1..(c + d) |-> IF n <= c THEN p[n] ELSE q[n - c]]
  <1>1. p \o q \in Seq(E) /\ Len(p \o q) = c + d /\ c \in Nat /\ d \in Nat
    OBVIOUS
  <1>2. \A n \in 1..c : (p \o q)[n] = p[n]
    OBVIOUS
  <1>3. \A n \in 1..(c + d) : n > c => (p \o q)[n] = q[n - c]
    OBVIOUS
  <1>4. p \o q = [n \in 1..(c + d) |-> (p \o q)[n]]
    <2> DEFINE r == p \o q
    <2>1. r \in Seq(E) /\ Len(r) = c + d
      BY <1>1
    <2> HIDE DEF r
    <2>2. r = [n \in 1..(c + d) |-> r[n]]
      BY <2>1, SeqIs
    <2> QED BY <2>2 DEF r
  <1>5. ASSUME NEW n \in 1..(c + d)
        PROVE  (p \o q)[n] = IF n <= c THEN p[n] ELSE q[n - c]
    <2>1. n <= c => n \in 1..c
      BY <1>1
    <2>2. ~(n <= c) => n > c
      BY <1>1
    <2> QED BY <1>2, <1>3, <2>1, <2>2
  <1> QED BY <1>1, <1>4, <1>5

\* What is picked from a sequence is one.
LEMMA PickRows ==
  ASSUME NEW E, NEW rows \in Seq(E), NEW S \in SUBSET DOMAIN rows
  PROVE  /\ IsFiniteSet(S) /\ S \in SUBSET Int /\ Cardinality(S) \in 0..Len(rows)
         /\ Pick(rows, S) \in Seq(E) /\ Len(Pick(rows, S)) = Cardinality(S)
  <1>1. Len(rows) \in Nat /\ DOMAIN rows = 1..Len(rows) /\ DOMAIN rows \in SUBSET Int
    OBVIOUS
  <1>2. IsFiniteSet(DOMAIN rows) /\ Cardinality(DOMAIN rows) = Len(rows)
    BY <1>1, PlacesUpTo
  <1>3. IsFiniteSet(S) /\ Cardinality(S) <= Len(rows) /\ S \in SUBSET Int
    BY <1>1, <1>2, FS_Subset
  <1>4. Cardinality(S) \in Nat
    BY <1>3, FS_CardinalityType
  <1>5. \A n \in 1..Cardinality(S) : Places(S)[n] \in DOMAIN rows
    BY <1>3, PlacesByRank
  <1>6. Pick(rows, S) \in [1..Cardinality(S) -> E]
    BY <1>5 DEF Pick
  <1> QED BY <1>1, <1>3, <1>4, <1>6

\* What is picked up to a place and what is picked behind it.
LEMMA PickJoin ==
  ASSUME NEW E, NEW rows \in Seq(E), NEW S \in SUBSET DOMAIN rows, NEW T \in SUBSET DOMAIN rows,
         \A j \in S, k \in T : j < k
  PROVE  Pick(rows, S \cup T) = Pick(rows, S) \o Pick(rows, T)
  <1> DEFINE c == Cardinality(S)  d == Cardinality(T)
             p == Pick(rows, S)  q == Pick(rows, T)
  <1>1. /\ c \in Nat /\ d \in Nat /\ IsFiniteSet(S) /\ IsFiniteSet(T)
        /\ S \in SUBSET Int /\ T \in SUBSET Int
        /\ p \in Seq(E) /\ Len(p) = c /\ q \in Seq(E) /\ Len(q) = d
    BY PickRows
  <1>2. /\ Cardinality(S \cup T) = c + d
        /\ Places(S \cup T) = [n \in 1..(c + d) |-> IF n <= c THEN Places(S)[n] ELSE Places(T)[n - c]]
    BY <1>1, PlacesJoin
  <1>3. Pick(rows, S \cup T) = [n \in 1..(c + d) |-> rows[Places(S \cup T)[n]]]
    BY <1>2 DEF Pick
  <1>4. ASSUME NEW n \in 1..(c + d)
        PROVE  rows[Places(S \cup T)[n]] = IF n <= c THEN p[n] ELSE q[n - c]
    <2>1. CASE n <= c
      <3>1. n \in 1..c
        BY <1>1, <2>1
      <3>2. p[n] = rows[Places(S)[n]] /\ Places(S \cup T)[n] = Places(S)[n]
        BY <1>2, <2>1, <3>1 DEF Pick
      <3> QED BY <2>1, <3>2
    <2>2. CASE ~(n <= c)
      <3>1. n - c \in 1..d
        BY <1>1, <2>2
      <3>2. q[n - c] = rows[Places(T)[n - c]] /\ Places(S \cup T)[n] = Places(T)[n - c]
        BY <1>2, <2>2, <3>1 DEF Pick
      <3> QED BY <2>2, <3>2
    <2> QED BY <2>1, <2>2
  <1> HIDE DEF p, q
  <1>5. p \o q = [n \in 1..(c + d) |-> IF n <= c THEN p[n] ELSE q[n - c]]
    BY <1>1, JoinIs
  <1> QED BY <1>3, <1>4, <1>5 DEF p, q

\* The rows of one member, with its number.
Tagged(i) ==
  LET rows == Selected(i, job.window)
  IN  [k \in DOMAIN rows |-> [id |-> rows[k].id, text |-> rows[k].text, member |-> i]]

\* Rows that carry the number of one of n members.
TaggedRows(n) == [id : RowIds, text : RowTexts, member : 1..n]

\* What a job says of its archive.
LEMMA ArchiveRows ==
  ASSUME job \in Jobs
  PROVE  /\ N \in Nat /\ Members = 1..N /\ job.archive \in Seq(Seq(Rows))
         /\ \A i \in Members : job.archive[i] \in Seq(Rows)
         /\ \A row \in Rows : row.id \in RowIds /\ row.text \in RowTexts
  <1>1. job.archive \in Seq(Seq(Rows))
    BY MembersAssumption
  <1>2. \A row \in Rows : row.id \in RowIds /\ row.text \in RowTexts
    BY DEF RowIds, RowTexts
  <1> HIDE DEF Rows
  <1> QED BY <1>1, <1>2 DEF N, Members

\* The rows in a window are rows of the archive, and so many texts and identities.
LEMMA SelectedRows ==
  ASSUME job \in Jobs, NEW i \in Members, NEW w
  PROVE  /\ Selected(i, w) \in Seq(Rows)
         /\ Texts(Selected(i, w)) \in Seq(RowTexts) /\ Len(Texts(Selected(i, w))) = Len(Selected(i, w))
         /\ Ids(Selected(i, w)) \in Seq(RowIds) /\ Len(Ids(Selected(i, w))) = Len(Selected(i, w))
  <1>1. job.archive[i] \in Seq(Rows)
    BY ArchiveRows
  <1>2. Lying(i, w, 1, Len(job.archive[i])) \in SUBSET DOMAIN job.archive[i]
    BY <1>1 DEF Lying
  <1>3. Selected(i, w) \in Seq(Rows)
    BY <1>1, <1>2, PickRows DEF Selected
  <1>4. ASSUME NEW rows \in Seq(Rows)
        PROVE  /\ Texts(rows) \in Seq(RowTexts) /\ Len(Texts(rows)) = Len(rows)
               /\ Ids(rows) \in Seq(RowIds) /\ Len(Ids(rows)) = Len(rows)
    <2>1. \A k \in 1..Len(rows) : rows[k].text \in RowTexts /\ rows[k].id \in RowIds
      BY ArchiveRows
    <2>2. DOMAIN rows = 1..Len(rows) /\ Len(rows) \in Nat
      OBVIOUS
    <2>3. Texts(rows) \in [1..Len(rows) -> RowTexts] /\ Ids(rows) \in [1..Len(rows) -> RowIds]
      BY <2>1, <2>2 DEF Texts, Ids
    <2> QED BY <2>2, <2>3
  <1> QED BY <1>3, <1>4

\* The numbered rows of a member have the texts and identities of its rows.
LEMMA TaggedSelected ==
  ASSUME job \in Jobs, NEW n \in Nat, NEW i \in 1..n, n <= N
  PROVE  /\ Tagged(i) \in Seq(TaggedRows(n)) /\ i \in Members
         /\ Len(Tagged(i)) = Len(Selected(i, job.window))
         /\ Texts(Tagged(i)) = Texts(Selected(i, job.window))
         /\ Ids(Tagged(i)) = Ids(Selected(i, job.window))
         /\ \A k \in DOMAIN Tagged(i) : Tagged(i)[k].member = i
  <1> DEFINE rows == Selected(i, job.window)
  <1>1. rows \in Seq(Rows) /\ i \in Members
    BY ArchiveRows, SelectedRows
  <1>2. \A k \in 1..Len(rows) : rows[k].text \in RowTexts /\ rows[k].id \in RowIds
    BY <1>1, ArchiveRows
  <1> HIDE DEF rows
  <1>3. DOMAIN rows = 1..Len(rows) /\ Len(rows) \in Nat
    BY <1>1
  <1>4. Tagged(i) = [k \in 1..Len(rows) |-> [id |-> rows[k].id, text |-> rows[k].text, member |-> i]]
    BY <1>3 DEF Tagged, rows
  <1>5. Tagged(i) \in [1..Len(rows) -> TaggedRows(n)]
    BY <1>2, <1>4 DEF TaggedRows
  <1>6. Tagged(i) \in Seq(TaggedRows(n)) /\ Len(Tagged(i)) = Len(rows) /\ DOMAIN Tagged(i) = 1..Len(rows)
    BY <1>3, <1>5
  <1>7. Texts(Tagged(i)) = Texts(rows) /\ Ids(Tagged(i)) = Ids(rows)
    BY <1>3, <1>4, <1>6 DEF Texts, Ids
  <1> QED BY <1>1, <1>4, <1>6, <1>7 DEF rows

\* The rows of the members up to the next are those before and its own.
LEMMA RowsUpToGrow ==
  ASSUME job \in Jobs, NEW n \in 0..N
  PROVE  /\ RowsUpTo(n) \in Seq(TaggedRows(n))
         /\ n # N => RowsUpTo(n + 1) = RowsUpTo(n) \o Tagged(n + 1)
         /\ RowsUpTo(0) = <<>>
  <1> DEFINE s(m) == [i \in 1..m |-> Tagged(i)]
  <1>0. N \in Nat /\ n \in Nat
    BY ArchiveRows
  <1>1. \A m : RowsUpTo(m) = FlattenSeq(s(m))
    BY DEF RowsUpTo, Tagged
  <1>2. ASSUME NEW m \in Nat, m <= N
        PROVE  s(m) \in Seq(Seq(TaggedRows(m))) /\ Len(s(m)) = m
    <2>1. \A i \in 1..m : Tagged(i) \in Seq(TaggedRows(m))
      BY <1>2, TaggedSelected
    <2> QED BY <2>1
  <1>3. RowsUpTo(n) \in Seq(TaggedRows(n))
    <2>1. s(n) \in Seq(Seq(TaggedRows(n))) /\ <<>> \in Seq(TaggedRows(n))
      BY <1>0, <1>2
    <2> HIDE DEF s
    <2> QED BY <1>1, <2>1, FlattenGrows
  <1>4. RowsUpTo(0) = <<>>
    <2>1. s(0) \in Seq(Seq(TaggedRows(0))) /\ <<>> \in Seq(TaggedRows(0)) /\ Len(s(0)) = 0
      BY <1>0, <1>2
    <2> HIDE DEF s
    <2> QED BY <1>1, <2>1, FlattenGrows
  <1>5. ASSUME n # N
        PROVE  RowsUpTo(n + 1) = RowsUpTo(n) \o Tagged(n + 1)
    <2>1. n + 1 \in Nat /\ n + 1 <= N /\ n + 1 \in 1..(n + 1)
      BY <1>0, <1>5
    <2>2. s(n + 1) \in Seq(Seq(TaggedRows(n + 1))) /\ Len(s(n + 1)) = n + 1
      BY <1>2, <2>1
    <2>3. s(n) \in Seq(Seq(TaggedRows(n + 1))) /\ Len(s(n)) = n
      <3>1. \A i \in 1..n : Tagged(i) \in Seq(TaggedRows(n + 1))
        BY <1>0, <2>1, TaggedSelected
      <3> QED BY <1>0, <3>1
    <2>4. Tagged(n + 1) \in Seq(TaggedRows(n + 1))
      BY <2>1, TaggedSelected
    <2>5. s(n + 1) = Append(s(n), Tagged(n + 1))
      <3>1. DOMAIN s(n) = 1..n /\ \A i \in 1..n : s(n)[i] = Tagged(i)
        OBVIOUS
      <3>2. \A i \in 1..(n + 1) : s(n + 1)[i] = Tagged(i)
        OBVIOUS
      <3>3. Append(s(n), Tagged(n + 1)) = [i \in 1..(n + 1) |-> IF i \in 1..n THEN s(n)[i] ELSE Tagged(n + 1)]
        <4> HIDE DEF s
        <4> QED BY <1>0, <2>3, <2>4
      <3> QED BY <1>0, <3>1, <3>2, <3>3
    <2> HIDE DEF s
    <2> QED BY <1>1, <2>3, <2>4, <2>5, FlattenGrows
  <1> QED BY <1>3, <1>4, <1>5

\* They are a prefix of all rows: otherwise they are not for a last number.
LEMMA RowsUpToPrefix ==
  ASSUME job \in Jobs, NEW m \in 0..N
  PROVE  \E rest \in Seq(TaggedRows(N)) : AllRows = RowsUpTo(m) \o rest
  <1> DEFINE Ok(n) == \E rest \in Seq(TaggedRows(N)) : AllRows = RowsUpTo(n) \o rest
             Bad == {d \in 0..N : ~Ok(N - d)}
  <1>0. N \in Nat /\ m \in Nat
    BY ArchiveRows
  <1> SUFFICES ASSUME Bad # {} PROVE FALSE
    <2>1. N - m \in 0..N /\ N - (N - m) = m
      BY <1>0
    <2>2. Bad = {} => Ok(N - (N - m))
      BY <2>1
    <2> QED BY <2>1, <2>2
  <1>1. Bad \subseteq Nat
    OBVIOUS
  <1>a. \A d \in 0..N : d \in Bad <=> ~Ok(N - d)
    OBVIOUS
  <1>b. \A d \in Bad : d \in 0..N
    OBVIOUS
  <1> HIDE DEF Bad
  <1>2. PICK d \in Bad : \A e \in Bad : d <= e
    BY <1>1, Least
  <1>3. d \in 0..N /\ ~Ok(N - d)
    BY <1>2, <1>a, <1>b
  <1>4. CASE d = 0
    <2>1. N - d = N
      BY <1>0, <1>4
    <2>2. RowsUpTo(N) \in Seq(TaggedRows(N)) /\ AllRows = RowsUpTo(N)
      BY <1>0, RowsUpToGrow DEF AllRows
    <2>3. AllRows = RowsUpTo(N) \o <<>> /\ <<>> \in Seq(TaggedRows(N))
      BY <2>2
    <2> QED BY <1>3, <2>1, <2>3
  <1>5. CASE d # 0
    <2> DEFINE n == N - d
    <2>1. n \in 0..N /\ n # N /\ n \in Nat /\ n + 1 = N - (d - 1) /\ d - 1 \in 0..N /\ n + 1 \in Nat /\ n + 1 <= N
      BY <1>0, <1>3, <1>5
    <2>2. d - 1 \notin Bad
      BY <1>2, <1>3, <2>1
    <2>3. PICK rest \in Seq(TaggedRows(N)) : AllRows = RowsUpTo(n + 1) \o rest
      BY <1>a, <2>1, <2>2
    <2> HIDE DEF n
    <2>4. RowsUpTo(n + 1) = RowsUpTo(n) \o Tagged(n + 1) /\ RowsUpTo(n) \in Seq(TaggedRows(n))
      BY <2>1, RowsUpToGrow
    <2>5. Tagged(n + 1) \in Seq(TaggedRows(N))
      <3>1. n + 1 \in 1..N /\ N <= N
        BY <1>0, <2>1
      <3> QED BY <1>0, <3>1, TaggedSelected
    <2>6. Tagged(n + 1) \o rest \in Seq(TaggedRows(N))
      BY <2>5
    <2>7. (RowsUpTo(n) \o Tagged(n + 1)) \o rest = RowsUpTo(n) \o (Tagged(n + 1) \o rest)
      BY <2>4, <2>5
    <2> QED BY <1>3, <2>3, <2>4, <2>6, <2>7 DEF n
  <1> QED BY <1>4, <1>5

-----------------------------------------------------------------------------
(* The lines of the rows.                                                  *)

\* The n-th line of a file, for a row.
Line(f, n, row) ==
  IF f = "corpus" THEN row.text ELSE [record |-> n, id |-> row.id, member |-> row.member]

\* The places of the rows with an identity that is not before them; and of those
\* among new rows, behind others.
FirstSet(rows) == {k \in DOMAIN rows : \A j \in 1..(k - 1) : rows[j].id # rows[k].id}
FreshIn(rows, new) == {k \in FirstSet(new) : \A j \in DOMAIN rows : rows[j].id # new[k].id}

\* There is a line for the first row of each identity, in order.
LEMMA LinesAre ==
  ASSUME NEW E, NEW rows \in Seq(E), NEW c, c = Cardinality(FirstSet(rows))
  PROVE  /\ c \in 0..Len(rows) /\ FirstSet(rows) \in SUBSET DOMAIN rows /\ IsFiniteSet(FirstSet(rows))
         /\ Firsts(rows) = Places(FirstSet(rows)) /\ Len(Firsts(rows)) = c
         /\ Firsts(rows) \in [1..c -> FirstSet(rows)] /\ DOMAIN Firsts(rows) = 1..c
         /\ \A k \in FirstSet(rows) : \E n \in 1..c : Firsts(rows)[n] = k
         /\ \A f : Lines(f, rows) = [n \in 1..c |-> Line(f, n, rows[Firsts(rows)[n]])]
  <1>1. FirstSet(rows) \in SUBSET DOMAIN rows
    BY DEF FirstSet
  <1>2. /\ c \in 0..Len(rows) /\ c \in Nat /\ IsFiniteSet(FirstSet(rows))
        /\ FirstSet(rows) \in SUBSET Int
    BY <1>1, PickRows
  <1>3. Firsts(rows) = Places(FirstSet(rows))
    BY DEF Firsts, FirstSet
  <1>4. /\ Firsts(rows) \in [1..c -> FirstSet(rows)]
        /\ \A k \in FirstSet(rows) : \E n \in 1..c : Firsts(rows)[n] = k
    BY <1>2, <1>3, PlacesByRank
  <1>5. DOMAIN Firsts(rows) = 1..c /\ Len(Firsts(rows)) = c
    BY <1>2, <1>4
  <1>6. \A f : Lines(f, rows) = [n \in 1..c |-> Line(f, n, rows[Firsts(rows)[n]])]
    BY <1>5 DEF Lines, Line
  <1> QED BY <1>1, <1>2, <1>3, <1>4, <1>5, <1>6

\* The lines of rows of members are lines that files hold.
LEMMA LinesInFiles ==
  ASSUME NEW m \in Nat, NEW rows \in Seq(TaggedRows(m)), NEW f \in Files
  PROVE  Lines(f, rows) \in Seq(FileLines) /\ Len(Lines(f, rows)) = Cardinality(FirstSet(rows))
  <1> DEFINE c == Cardinality(FirstSet(rows))
  <1>1. /\ c \in Nat /\ Lines(f, rows) = [n \in 1..c |-> Line(f, n, rows[Firsts(rows)[n]])]
        /\ \A n \in 1..c : Firsts(rows)[n] \in DOMAIN rows
    BY LinesAre
  <1>2. ASSUME NEW n \in 1..c
        PROVE  Line(f, n, rows[Firsts(rows)[n]]) \in FileLines
    <2>1. rows[Firsts(rows)[n]] \in TaggedRows(m)
      BY <1>1
    <2>2. PICK row \in TaggedRows(m) : row = rows[Firsts(rows)[n]]
      BY <2>1
    <2>3. row.text \in RowTexts /\ row.id \in RowIds /\ row.member \in Nat /\ n \in Nat
      BY <1>1 DEF TaggedRows
    <2>4. [record |-> n, id |-> row.id, member |-> row.member]
            \in [record : Nat, id : RowIds \cup {Garbage}, member : Nat]
      BY <2>3
    <2> QED BY <2>2, <2>3, <2>4 DEF Line, FileLines
  <1> HIDE DEF c
  <1>3. Lines(f, rows) \in [1..c -> FileLines]
    BY <1>1, <1>2
  <1> QED BY <1>1, <1>3 DEF c

\* The firsts of rows behind others: theirs, and those of an identity that the
\* others do not have.
LEMMA FirstSetGrows ==
  ASSUME NEW E, NEW rows \in Seq(E), NEW new \in Seq(E)
  PROVE  FirstSet(rows \o new) = FirstSet(rows) \cup {Len(rows) + k : k \in FreshIn(rows, new)}
  <1> DEFINE a == Len(rows)  b == Len(new)  all == rows \o new
  <1>1. /\ a \in Nat /\ b \in Nat /\ DOMAIN rows = 1..a /\ DOMAIN new = 1..b /\ DOMAIN all = 1..(a + b)
        /\ \A k \in 1..a : all[k] = rows[k]
        /\ \A k \in 1..b : all[a + k] = new[k]
    <2>0. Len(rows) = a /\ Len(new) = b
      OBVIOUS
    <2>2. DOMAIN rows = 1..a /\ DOMAIN new = 1..b
      OBVIOUS
    <2> HIDE DEF a, b
    <2>1. /\ all \in Seq(E) /\ Len(all) = a + b /\ a \in Nat /\ b \in Nat
          /\ all = [n \in 1..(a + b) |-> IF n <= a THEN rows[n] ELSE new[n - a]]
      BY <2>0, JoinIs
    <2> HIDE DEF all
    <2>3. ASSUME NEW k \in 1..b PROVE all[a + k] = new[k]
      <3>1. a + k \in 1..(a + b) /\ ~(a + k <= a) /\ (a + k) - a = k
        BY <2>1
      <3> QED BY <2>1, <3>1
    <2>4. ASSUME NEW k \in 1..a PROVE all[k] = rows[k]
      BY <2>1
    <2> QED BY <2>1, <2>2, <2>3, <2>4
  <1> HIDE DEF a, b, all
  <1>2. ASSUME NEW k \in 1..a
        PROVE  k \in FirstSet(all) <=> k \in FirstSet(rows)
    <2>1. k \in 1..(a + b) /\ \A j \in 1..(k - 1) : j \in 1..a
      BY <1>1
    <2> QED BY <1>1, <2>1 DEF FirstSet
  <1>3. ASSUME NEW k \in 1..b
        PROVE  a + k \in FirstSet(all) <=> k \in FreshIn(rows, new)
    <2>1. a + k \in 1..(a + b) /\ all[a + k] = new[k]
      BY <1>1
    <2>2. ASSUME a + k \in FirstSet(all) PROVE k \in FreshIn(rows, new)
      <3>1. \A j \in 1..((a + k) - 1) : all[j].id # new[k].id
        BY <2>1, <2>2 DEF FirstSet
      <3>2. ASSUME NEW j \in 1..a PROVE rows[j].id # new[k].id
        <4>1. j \in 1..((a + k) - 1) /\ all[j] = rows[j]
          BY <1>1
        <4> QED BY <3>1, <4>1
      <3>3. ASSUME NEW j \in 1..(k - 1) PROVE new[j].id # new[k].id
        <4>1. a + j \in 1..((a + k) - 1) /\ j \in 1..b
          BY <1>1
        <4>2. all[a + j] = new[j]
          BY <1>1, <4>1
        <4> QED BY <3>1, <4>1, <4>2
      <3> QED BY <1>1, <3>2, <3>3 DEF FreshIn, FirstSet
    <2>3. ASSUME k \in FreshIn(rows, new) PROVE a + k \in FirstSet(all)
      <3>1. ASSUME NEW j \in 1..((a + k) - 1) PROVE all[j].id # new[k].id
        <4>1. CASE j <= a
          <5>1. j \in 1..a
            BY <4>1
          <5> QED BY <1>1, <2>3, <5>1 DEF FreshIn
        <4>2. CASE ~(j <= a)
          <5>1. j - a \in 1..(k - 1) /\ j - a \in 1..b /\ a + (j - a) = j
            BY <1>1, <4>2
          <5>2. all[j] = new[j - a]
            BY <1>1, <5>1
          <5> QED BY <2>3, <5>1, <5>2 DEF FreshIn, FirstSet
        <4> QED BY <4>1, <4>2
      <3> QED BY <1>1, <2>1, <3>1 DEF FirstSet
    <2> QED BY <2>2, <2>3
  <1>4. ASSUME NEW k \in FirstSet(all)
        PROVE  k \in FirstSet(rows) \cup {a + j : j \in FreshIn(rows, new)}
    <2>1. k \in 1..(a + b)
      BY <1>1 DEF FirstSet
    <2>2. CASE k <= a
      <3>1. k \in 1..a
        BY <2>1, <2>2
      <3> QED BY <1>2, <3>1
    <2>3. CASE ~(k <= a)
      <3>1. k - a \in 1..b /\ a + (k - a) = k
        BY <1>1, <2>1, <2>3
      <3>2. k - a \in FreshIn(rows, new)
        BY <1>3, <3>1
      <3> QED BY <3>1, <3>2
    <2> QED BY <2>2, <2>3
  <1>5. FirstSet(rows) \subseteq FirstSet(all)
    BY <1>1, <1>2 DEF FirstSet
  <1>6. \A j \in FreshIn(rows, new) : a + j \in FirstSet(all)
    BY <1>1, <1>3 DEF FreshIn, FirstSet
  <1>7. FirstSet(all) = FirstSet(rows) \cup {a + j : j \in FreshIn(rows, new)}
    BY <1>4, <1>5, <1>6
  <1> QED BY <1>7 DEF a, all

\* The firsts of all rows, where new ones follow others.
FirstsFollow(all, rows, new) ==
  LET c == Cardinality(FirstSet(rows))
      F == FreshIn(rows, new)
      d == Cardinality(F)
  IN  /\ c \in Nat /\ d \in Nat /\ Cardinality(FirstSet(all)) = c + d
      /\ F \in SUBSET DOMAIN new
      /\ \A n \in 1..d : Places(F)[n] \in F
      /\ \A k \in F : \E n \in 1..d : Places(F)[n] = k
      /\ \A n \in 1..(c + d) :
           all[Firsts(all)[n]] = IF n <= c THEN rows[Firsts(rows)[n]] ELSE new[Places(F)[n - c]]

\* Behind other rows, the fresh ones among new rows are the first of their identity.
LEMMA FirstsGrow ==
  ASSUME NEW E, NEW rows \in Seq(E), NEW new \in Seq(E)
  PROVE  FirstsFollow(rows \o new, rows, new)
  <1> DEFINE a == Len(rows)  all == rows \o new
             c == Cardinality(FirstSet(rows))  d == Cardinality(FreshIn(rows, new))
             S == FirstSet(rows)  F == FreshIn(rows, new)  T == {a + k : k \in F}
  <1>1. F \in SUBSET DOMAIN new
    BY DEF FreshIn, FirstSet
  <1>2. IsFiniteSet(F) /\ F \in SUBSET Int /\ d \in Nat
    BY <1>1, PickRows
  <1>3. /\ IsFiniteSet(S) /\ S \in SUBSET DOMAIN rows /\ c \in Nat /\ S \in SUBSET Int
        /\ Firsts(rows) = Places(S) /\ Firsts(rows) \in [1..c -> S]
    <2>1. /\ IsFiniteSet(S) /\ S \in SUBSET DOMAIN rows
          /\ Firsts(rows) = Places(S) /\ Firsts(rows) \in [1..c -> S]
      BY LinesAre
    <2> QED BY <2>1, PickRows
  <1>4. a \in Int /\ a \in Nat /\ DOMAIN rows = 1..a /\ DOMAIN new = 1..Len(new)
    OBVIOUS
  <1>5. /\ IsFiniteSet(T) /\ T \in SUBSET Int /\ Cardinality(T) = d
        /\ Places(T) = [n \in 1..d |-> a + Places(F)[n]]
    <2> HIDE DEF F, a
    <2> QED BY <1>2, <1>4, PlacesShift DEF F
  <1>6. \A j \in S, k \in T : j < k
    <2> SUFFICES ASSUME NEW j \in S, NEW i \in F
                 PROVE  j < a + i
      OBVIOUS
    <2>1. j \in 1..a /\ i \in 1..Len(new)
      BY <1>1, <1>3, <1>4
    <2> HIDE DEF a
    <2> QED BY <1>4, <2>1
  <1>7. FirstSet(all) = S \cup T
    <2>1. FirstSet(rows \o new) = S \cup T
      BY FirstSetGrows
    <2> QED BY <2>1
  <1>8. /\ Cardinality(S \cup T) = c + d
        /\ Places(S \cup T) = [n \in 1..(c + d) |-> IF n <= c THEN Places(S)[n] ELSE Places(T)[n - c]]
    <2>1. Cardinality(S) = c
      OBVIOUS
    <2> HIDE DEF S, T
    <2>2. \A j \in S : \A k \in T : j < k
      BY <1>6
    <2>3. /\ Cardinality(S \cup T) = Cardinality(S) + Cardinality(T)
          /\ Places(S \cup T) = [n \in 1..(Cardinality(S) + Cardinality(T)) |->
                IF n <= Cardinality(S) THEN Places(S)[n] ELSE Places(T)[n - Cardinality(S)]]
      BY <1>3, <1>5, <2>2, PlacesJoin
    <2> QED BY <1>5, <2>1, <2>3
  <1>9. Firsts(all) = Places(S \cup T)
    <2>1. Firsts(all) = Places(FirstSet(all))
      BY DEF Firsts, FirstSet
    <2> QED BY <1>7, <2>1
  <1>10. /\ \A n \in 1..d : Places(F)[n] \in F
         /\ \A k \in F : \E n \in 1..d : Places(F)[n] = k
    BY <1>2, PlacesByRank
  <1>11. ASSUME NEW n \in 1..(c + d)
         PROVE  all[Firsts(all)[n]] = IF n <= c THEN rows[Firsts(rows)[n]] ELSE new[Places(F)[n - c]]
    <2>0. \A k \in 1..a : all[k] = rows[k]
      OBVIOUS
    <2>00. ASSUME NEW k \in 1..Len(new)
           PROVE  all[a + k] = new[k]
      OBVIOUS
    <2>1. CASE n <= c
      <3>1. n \in 1..c
        BY <1>2, <1>3, <2>1
      <3>2. Firsts(all)[n] = Firsts(rows)[n] /\ Firsts(rows)[n] \in 1..a
        BY <1>3, <1>4, <1>8, <1>9, <2>1, <3>1
      <3> QED BY <2>0, <2>1, <3>2
    <2>2. CASE ~(n <= c)
      <3>1. n - c \in 1..d
        BY <1>2, <1>3, <2>2
      <3>2. Firsts(all)[n] = Places(T)[n - c]
        BY <1>8, <1>9, <2>2
      <3>3. Places(T)[n - c] = a + Places(F)[n - c] /\ Places(F)[n - c] \in 1..Len(new)
        BY <1>1, <1>4, <1>5, <1>10, <3>1
      <3> QED BY <2>00, <2>2, <3>2, <3>3
    <2> QED BY <2>1, <2>2
  <1> HIDE DEF S, F, T, a, all, c, d
  <1>12. Cardinality(FirstSet(all)) = c + d
    BY <1>7, <1>8
  <1> QED BY <1>1, <1>2, <1>3, <1>10, <1>11, <1>12 DEF F, c, d, all, FirstsFollow

\* New rows add one line for each fresh one.
LEMMA LinesGrow ==
  ASSUME NEW E, NEW rows \in Seq(E), NEW new \in Seq(E), NEW f,
         NEW c, c = Cardinality(FirstSet(rows)), NEW d, d = Cardinality(FreshIn(rows, new)),
         NEW D, Lines(f, rows) \in Seq(D),
         NEW more \in Seq(D), Len(more) = d,
         \A n \in 1..d : more[n] = Line(f, c + n, new[Places(FreshIn(rows, new))[n]])
  PROVE  Lines(f, rows \o new) = Lines(f, rows) \o more
  <1> DEFINE all == rows \o new  F == FreshIn(rows, new)
  <1>1. /\ c \in Nat /\ d \in Nat /\ Cardinality(FirstSet(all)) = c + d
        /\ \A n \in 1..(c + d) :
             all[Firsts(all)[n]] = IF n <= c THEN rows[Firsts(rows)[n]] ELSE new[Places(F)[n - c]]
    <2>1. FirstsFollow(all, rows, new)
      BY FirstsGrow
    <2> HIDE DEF all
    <2> QED BY <2>1 DEF FirstsFollow
  <1>2. all \in Seq(E)
    OBVIOUS
  <1> HIDE DEF all
  <1>3. Lines(f, all) = [n \in 1..(c + d) |-> Line(f, n, all[Firsts(all)[n]])]
    <2>1. c + d = Cardinality(FirstSet(all))
      BY <1>1
    <2> DEFINE e == c + d
    <2>2. e = Cardinality(FirstSet(all))
      BY <2>1
    <2> HIDE DEF e
    <2>3. Lines(f, all) = [n \in 1..e |-> Line(f, n, all[Firsts(all)[n]])]
      BY <1>2, <2>2, LinesAre
    <2> QED BY <2>3 DEF e
  <1>4. Lines(f, rows) = [n \in 1..c |-> Line(f, n, rows[Firsts(rows)[n]])]
    BY LinesAre
  <1>5. Len(Lines(f, rows)) = c
    BY <1>1, <1>4
  <1>6. Lines(f, rows) \o more = [n \in 1..(c + d) |-> IF n <= c THEN Lines(f, rows)[n] ELSE more[n - c]]
    BY <1>5, JoinIs
  <1>7. ASSUME NEW n \in 1..(c + d)
        PROVE  Line(f, n, all[Firsts(all)[n]]) = IF n <= c THEN Lines(f, rows)[n] ELSE more[n - c]
    <2>1. CASE n <= c
      <3>1. n \in 1..c
        BY <1>1, <2>1
      <3> QED BY <1>1, <1>4, <2>1, <3>1
    <2>2. CASE ~(n <= c)
      <3>1. n - c \in 1..d /\ c + (n - c) = n
        BY <1>1, <2>2
      <3>2. more[n - c] = Line(f, n, new[Places(F)[n - c]])
        BY <3>1
      <3> QED BY <1>1, <2>2, <3>2
    <2> QED BY <2>1, <2>2
  <1> QED BY <1>3, <1>6, <1>7 DEF all

\* Every identity has a first row, and only one.
LEMMA EveryIdIsFirst ==
  ASSUME NEW E, NEW rows \in Seq(E), NEW j \in DOMAIN rows
  PROVE  \E k \in FirstSet(rows) : rows[k].id = rows[j].id
  <1> DEFINE S == {k \in DOMAIN rows : rows[k].id = rows[j].id}
  <1>1. S \subseteq Nat /\ S # {} /\ DOMAIN rows = 1..Len(rows) /\ Len(rows) \in Nat
    OBVIOUS
  <1> HIDE DEF S
  <1>2. PICK k \in S : \A i \in S : k <= i
    BY <1>1, Least
  <1>3. k \in 1..Len(rows) /\ rows[k].id = rows[j].id
    BY <1>1, <1>2 DEF S
  <1>4. ASSUME NEW i \in 1..(k - 1), rows[i].id = rows[k].id
        PROVE  FALSE
    <2>1. i \in 1..Len(rows) /\ i < k
      BY <1>1, <1>3
    <2>2. i \in S
      BY <1>1, <1>3, <1>4, <2>1 DEF S
    <2>3. k <= i
      BY <1>2, <2>2
    <2> QED BY <1>3, <2>1, <2>3
  <1> QED BY <1>1, <1>3, <1>4 DEF FirstSet

\* First rows have different identities.
LEMMA FirstsDiffer ==
  ASSUME NEW E, NEW rows \in Seq(E), NEW j \in FirstSet(rows), NEW k \in FirstSet(rows),
         rows[j].id = rows[k].id
  PROVE  j = k
  <1>1. j \in 1..Len(rows) /\ k \in 1..Len(rows) /\ Len(rows) \in Nat
    BY DEF FirstSet
  <1>2. ~(j < k)
    <2> SUFFICES ASSUME j < k PROVE FALSE
      OBVIOUS
    <2>1. j \in 1..(k - 1)
      BY <1>1
    <2> QED BY <2>1 DEF FirstSet
  <1>3. ~(k < j)
    <2> SUFFICES ASSUME k < j PROVE FALSE
      OBVIOUS
    <2>1. k \in 1..(j - 1)
      BY <1>1
    <2> QED BY <2>1 DEF FirstSet
  <1> QED BY <1>1, <1>2, <1>3

\* How many identities the members up to n have: the lines of each file.
Count(n) == Cardinality(FirstSet(RowsUpTo(n)))

\* A merged file has one line for each identity.
LEMMA MergedTyped ==
  ASSUME job \in Jobs, NEW n \in 0..N
  PROVE  /\ Count(n) \in Nat /\ Len(Firsts(RowsUpTo(n))) = Count(n) /\ Count(n) <= Len(RowsUpTo(n))
         /\ \A f \in Files : Merged(f, n) \in Seq(FileLines) /\ Len(Merged(f, n)) = Count(n)
  <1>1. n \in Nat
    BY ArchiveRows
  <1>2. RowsUpTo(n) \in Seq(TaggedRows(n))
    BY RowsUpToGrow
  <1>3. Count(n) \in 0..Len(RowsUpTo(n)) /\ Len(Firsts(RowsUpTo(n))) = Count(n)
    BY <1>2, LinesAre DEF Count
  <1>4. \A f \in Files : Merged(f, n) \in Seq(FileLines) /\ Len(Merged(f, n)) = Count(n)
    BY <1>1, <1>2, LinesInFiles DEF Merged, Count
  <1>5. Len(RowsUpTo(n)) \in Nat
    BY <1>2
  <1> QED BY <1>3, <1>4, <1>5

\* What the rows of the next member add to a file.
Fresh(n) == FreshIn(RowsUpTo(n), Tagged(n + 1))

\* The next member adds one line for each of its fresh rows.
LEMMA MergedGrows ==
  ASSUME job \in Jobs, NEW n \in 0..N, n # N, NEW f \in Files,
         NEW more \in Seq(FileLines), Len(more) = Cardinality(Fresh(n)),
         \A k \in 1..Cardinality(Fresh(n)) :
           more[k] = Line(f, Count(n) + k, Tagged(n + 1)[Places(Fresh(n))[k]])
  PROVE  Merged(f, n + 1) = Merged(f, n) \o more
  <1>0. N \in Nat /\ n \in Nat /\ n + 1 \in Nat /\ n + 1 <= N /\ n + 1 \in 1..(n + 1)
    BY ArchiveRows
  <1>1. RowsUpTo(n + 1) = RowsUpTo(n) \o Tagged(n + 1) /\ RowsUpTo(n) \in Seq(TaggedRows(n + 1))
    <2>1. RowsUpTo(n + 1) = RowsUpTo(n) \o Tagged(n + 1) /\ RowsUpTo(n) \in Seq(TaggedRows(n))
      BY RowsUpToGrow
    <2>2. TaggedRows(n) \subseteq TaggedRows(n + 1)
      BY <1>0 DEF TaggedRows
    <2> HIDE DEF TaggedRows
    <2> QED BY <2>1, <2>2
  <1>2. Tagged(n + 1) \in Seq(TaggedRows(n + 1))
    BY <1>0, TaggedSelected
  <1>3. Lines(f, RowsUpTo(n)) \in Seq(FileLines)
    BY MergedTyped DEF Merged
  <1>4. Lines(f, RowsUpTo(n) \o Tagged(n + 1)) = Lines(f, RowsUpTo(n)) \o more
    BY <1>1, <1>2, <1>3, LinesGrow DEF Fresh, Count
  <1> QED BY <1>1, <1>4 DEF Merged

\* What is merged so far is the beginning of the result.
LEMMA MergedIsPrefix ==
  ASSUME job \in Jobs, NEW n \in 0..N, NEW f \in Files
  PROVE  /\ Count(n) <= Count(N) /\ Expected(f) = Merged(f, N) /\ N \in 0..N
         /\ \A k \in 1..Count(n) : Expected(f)[k] = Merged(f, n)[k]
  <1>0. N \in Nat /\ n \in Nat /\ N \in 0..N
    BY ArchiveRows
  <1>1. PICK rest \in Seq(TaggedRows(N)) : AllRows = RowsUpTo(n) \o rest
    BY RowsUpToPrefix
  <1>2. RowsUpTo(n) \in Seq(TaggedRows(N))
    <2>1. RowsUpTo(n) \in Seq(TaggedRows(n))
      BY RowsUpToGrow
    <2>2. TaggedRows(n) \subseteq TaggedRows(N)
      BY <1>0 DEF TaggedRows
    <2> HIDE DEF TaggedRows
    <2> QED BY <2>1, <2>2
  <1>3. FirstsFollow(AllRows, RowsUpTo(n), rest)
    BY <1>1, <1>2, FirstsGrow
  <1>4. AllRows = RowsUpTo(N) /\ Expected(f) = Merged(f, N)
    BY DEF AllRows, Expected, Merged
  <1>5. /\ Count(n) \in Nat /\ Cardinality(FreshIn(RowsUpTo(n), rest)) \in Nat
        /\ Count(N) = Count(n) + Cardinality(FreshIn(RowsUpTo(n), rest))
    BY <1>3, <1>4 DEF FirstsFollow, Count
  <1>6. /\ Merged(f, N) = [k \in 1..Count(N) |-> Line(f, k, RowsUpTo(N)[Firsts(RowsUpTo(N))[k]])]
        /\ Merged(f, n) = [k \in 1..Count(n) |-> Line(f, k, RowsUpTo(n)[Firsts(RowsUpTo(n))[k]])]
    <2>1. RowsUpTo(N) \in Seq(TaggedRows(N))
      BY <1>0, RowsUpToGrow
    <2> QED BY <1>2, <2>1, LinesAre DEF Merged, Count
  <1>7. ASSUME NEW k \in 1..Count(n)
        PROVE  RowsUpTo(N)[Firsts(RowsUpTo(N))[k]] = RowsUpTo(n)[Firsts(RowsUpTo(n))[k]]
    <2>1. k \in 1..(Count(n) + Cardinality(FreshIn(RowsUpTo(n), rest))) /\ k <= Count(n)
      BY <1>5
    <2> QED BY <1>3, <1>4, <2>1 DEF FirstsFollow, Count
  <1>8. \A k \in 1..Count(n) : k \in 1..Count(N)
    BY <1>5
  <1>9. Count(n) <= Count(N)
    BY <1>5
  <1> QED BY <1>0, <1>4, <1>6, <1>7, <1>8, <1>9

\* There are not more rows up to a member than in all.
LEMMA RowsUpToLength ==
  ASSUME job \in Jobs, NEW n \in 0..N
  PROVE  Len(RowsUpTo(n)) \in 0..Len(AllRows)
  <1>1. PICK rest \in Seq(TaggedRows(N)) : AllRows = RowsUpTo(n) \o rest
    BY RowsUpToPrefix
  <1>2. RowsUpTo(n) \in Seq(TaggedRows(n))
    BY RowsUpToGrow
  <1>3. Len(AllRows) = Len(RowsUpTo(n)) + Len(rest) /\ Len(rest) \in Nat /\ Len(RowsUpTo(n)) \in Nat
    BY <1>1, <1>2
  <1> QED BY <1>3

-----------------------------------------------------------------------------
(* The identities seen, and whether they are ambiguous.                    *)

\* A row and the new rows behind the others, by place.
LEMMA JoinedPlaces ==
  ASSUME NEW E, NEW rows \in Seq(E), NEW new \in Seq(E)
  PROVE  /\ DOMAIN (rows \o new) = 1..(Len(rows) + Len(new))
         /\ Len(rows) \in Nat /\ Len(new) \in Nat /\ DOMAIN rows = 1..Len(rows) /\ DOMAIN new = 1..Len(new)
         /\ \A k \in DOMAIN rows : (rows \o new)[k] = rows[k]
         /\ \A k \in DOMAIN new : (rows \o new)[Len(rows) + k] = new[k]
         /\ \A k \in DOMAIN (rows \o new) :
              k \in DOMAIN rows \/ (k - Len(rows) \in DOMAIN new /\ k = Len(rows) + (k - Len(rows)))
  OBVIOUS

\* Every row has its identity in the table, once, with the member that was first.
LEMMA SeenOfFirsts ==
  ASSUME job \in Jobs, NEW n \in 0..N
  PROVE  /\ SeenUpTo(n) = {SeenOf(RowsUpTo(n)[k]) : k \in FirstSet(RowsUpTo(n))}
         /\ IsFiniteSet(SeenUpTo(n)) /\ Cardinality(SeenUpTo(n)) = Count(n)
         /\ \A s \in SeenUpTo(n) : s.member \in 1..n
         /\ \A k \in DOMAIN RowsUpTo(n) : \E s \in SeenUpTo(n) : s.id = RowsUpTo(n)[k].id
         /\ n = 0 => SeenUpTo(n) = {} /\ Count(n) = 0 /\ ~Ambiguous(RowsUpTo(n))
  <1> DEFINE rows == RowsUpTo(n)  S == FirstSet(rows)  g == [k \in S |-> SeenOf(rows[k])]
  <1>1. rows \in Seq(TaggedRows(n))
    BY RowsUpToGrow
  <1>2. /\ IsFiniteSet(S) /\ S \in SUBSET DOMAIN rows /\ DOMAIN Firsts(rows) = 1..Count(n)
        /\ \A k \in 1..Count(n) : Firsts(rows)[k] \in S
        /\ \A k \in S : \E m \in 1..Count(n) : Firsts(rows)[m] = k
    BY <1>1, LinesAre DEF Count
  <1>3. SeenUpTo(n) = {SeenOf(rows[k]) : k \in S}
    <2> HIDE DEF rows, S
    <2>1. SeenUpTo(n) = {SeenOf(rows[Firsts(rows)[k]]) : k \in 1..Count(n)}
      BY <1>2 DEF SeenUpTo, rows
    <2> QED BY <1>2, <2>1
  <1>4. \A k \in S : SeenOf(rows[k]).id = rows[k].id /\ SeenOf(rows[k]).member = rows[k].member
    BY DEF SeenOf
  <1>5. g \in Bijection(S, SeenUpTo(n))
    <2>1. \A j, k \in S : g[j] = g[k] => j = k
      <3> SUFFICES ASSUME NEW j \in S, NEW k \in S, g[j] = g[k]
                   PROVE  j = k
        OBVIOUS
      <3>1. rows[j].id = rows[k].id
        BY <1>4
      <3> QED BY <1>1, <3>1, FirstsDiffer
    <2> HIDE DEF rows, S
    <2>2. \A k \in S : g[k] \in SeenUpTo(n)
      BY <1>3
    <2>3. \A s \in SeenUpTo(n) : \E k \in S : g[k] = s
      BY <1>3
    <2>4. g \in [S -> SeenUpTo(n)]
      BY <2>2
    <2> HIDE DEF g
    <2> QED BY <2>1, <2>3, <2>4 DEF Bijection, Injection, Surjection, IsInjective
  <1>6. IsFiniteSet(SeenUpTo(n)) /\ Cardinality(SeenUpTo(n)) = Count(n)
    <2> HIDE DEF g
    <2> QED BY <1>2, <1>5, FS_Bijection DEF ExistsBijection, Count
  <1>7. \A s \in SeenUpTo(n) : s.member \in 1..n
    <2> SUFFICES ASSUME NEW k \in S PROVE rows[k].member \in 1..n
      BY <1>3, <1>4
    <2>1. rows[k] \in TaggedRows(n)
      BY <1>1, <1>2
    <2> QED BY <2>1 DEF TaggedRows
  <1>8. ASSUME NEW k \in DOMAIN rows
        PROVE  \E s \in SeenUpTo(n) : s.id = rows[k].id
    <2>1. PICK j \in S : rows[j].id = rows[k].id
      BY <1>1, EveryIdIsFirst
    <2> QED BY <1>3, <1>4, <2>1
  <1>9. ASSUME n = 0
        PROVE  SeenUpTo(n) = {} /\ Count(n) = 0 /\ ~Ambiguous(RowsUpTo(n))
    <2>1. rows = <<>>
      BY <1>9, RowsUpToGrow
    <2>2. DOMAIN rows = {}
      BY <2>1
    <2>3. S = {}
      BY <1>2, <2>2
    <2>4. Cardinality(S) = 0
      BY <2>3, FS_EmptySet
    <2>5. Count(n) = 0 /\ SeenUpTo(n) = {}
      BY <1>3, <2>3, <2>4 DEF Count
    <2>6. ~Ambiguous(rows)
      BY <2>2 DEF Ambiguous
    <2> QED BY <2>5, <2>6
  <1> QED BY <1>3, <1>6, <1>7, <1>8, <1>9

\* The next member adds its fresh rows to the table, and nothing of an earlier member.
LEMMA SeenGrows ==
  ASSUME job \in Jobs, NEW n \in 0..N, n # N
  PROVE  /\ SeenUpTo(n + 1) = SeenUpTo(n) \cup {SeenOf(Tagged(n + 1)[k]) : k \in Fresh(n)}
         /\ {s \in SeenUpTo(n + 1) : s.member <= n} = SeenUpTo(n)
         /\ {s \in SeenUpTo(n + 1) : s.member <= n + 1} = SeenUpTo(n + 1)
  <1> DEFINE rows == RowsUpTo(n)  new == Tagged(n + 1)  all == RowsUpTo(n + 1)
  <1>0. N \in Nat /\ n \in Nat /\ n + 1 \in 0..N /\ n + 1 <= N /\ n + 1 \in 1..(n + 1)
    BY ArchiveRows
  <1>1. all = rows \o new /\ rows \in Seq(TaggedRows(n + 1)) /\ new \in Seq(TaggedRows(n + 1))
    <2>1. RowsUpTo(n + 1) = RowsUpTo(n) \o Tagged(n + 1) /\ RowsUpTo(n) \in Seq(TaggedRows(n))
      BY RowsUpToGrow
    <2>2. TaggedRows(n) \subseteq TaggedRows(n + 1)
      BY <1>0 DEF TaggedRows
    <2>3. Tagged(n + 1) \in Seq(TaggedRows(n + 1))
      BY <1>0, TaggedSelected
    <2> HIDE DEF TaggedRows
    <2> QED BY <2>1, <2>2, <2>3
  <1>2. FirstSet(rows \o new) = FirstSet(rows) \cup {Len(rows) + k : k \in Fresh(n)}
    BY <1>1, FirstSetGrows DEF Fresh
  <1>3. /\ FirstSet(rows) \subseteq DOMAIN rows /\ Fresh(n) \subseteq DOMAIN new
        /\ \A k \in DOMAIN rows : all[k] = rows[k]
        /\ \A k \in DOMAIN new : all[Len(rows) + k] = new[k]
    <2>1. FirstSet(rows) \subseteq DOMAIN rows /\ Fresh(n) \subseteq DOMAIN new
      BY DEF FirstSet, Fresh, FreshIn
    <2> HIDE DEF rows, new
    <2>2. /\ \A k \in DOMAIN rows : (rows \o new)[k] = rows[k]
          /\ \A k \in DOMAIN new : (rows \o new)[Len(rows) + k] = new[k]
      BY <1>1, JoinedPlaces
    <2> QED BY <1>1, <2>1, <2>2
  <1>4. /\ SeenUpTo(n) = {SeenOf(rows[k]) : k \in FirstSet(rows)}
        /\ SeenUpTo(n + 1) = {SeenOf(all[k]) : k \in FirstSet(all)}
    BY <1>0, SeenOfFirsts
  <1>m. \A s \in SeenUpTo(n) : s.member \in 1..n
    BY SeenOfFirsts
  <1>n. \A k \in Fresh(n) : SeenOf(new[k]).member = n + 1
    <2>1. \A k \in DOMAIN new : new[k].member = n + 1
      BY <1>0, TaggedSelected
    <2> QED BY <1>3, <2>1 DEF SeenOf
  <1> HIDE DEF rows, new, all
  <1>5. FirstSet(all) = FirstSet(rows) \cup {Len(rows) + k : k \in Fresh(n)}
    BY <1>1, <1>2
  <1>6. SeenUpTo(n + 1) = SeenUpTo(n) \cup {SeenOf(new[k]) : k \in Fresh(n)}
    <2>1. \A k \in FirstSet(rows) : SeenOf(all[k]) = SeenOf(rows[k])
      BY <1>3
    <2>2. \A k \in Fresh(n) : SeenOf(all[Len(rows) + k]) = SeenOf(new[k])
      BY <1>3
    <2> QED BY <1>4, <1>5, <2>1, <2>2
  <1>7. ASSUME NEW s \in SeenUpTo(n) PROVE s.member <= n /\ s.member <= n + 1
    BY <1>0, <1>m
  <1>8. ASSUME NEW k \in Fresh(n)
        PROVE  ~(SeenOf(new[k]).member <= n) /\ SeenOf(new[k]).member <= n + 1
    BY <1>0, <1>n
  <1>9. {s \in SeenUpTo(n + 1) : s.member <= n} = SeenUpTo(n)
    BY <1>6, <1>7, <1>8
  <1>10. {s \in SeenUpTo(n + 1) : s.member <= n + 1} = SeenUpTo(n + 1)
    BY <1>6, <1>7, <1>8
  <1> QED BY <1>6, <1>9, <1>10 DEF new

\* Two rows that no tool merges.
Clash(row, other) ==
  row.id = other.id /\ (job.merge = "dedupe" => row.text # other.text)

\* Rows that clash with none before them make nothing ambiguous.
LEMMA StaysClear ==
  ASSUME NEW E, NEW rows \in Seq(E), NEW new \in Seq(E), ~Ambiguous(rows),
         \A k \in DOMAIN new : /\ \A j \in DOMAIN rows : ~Clash(rows[j], new[k])
                               /\ \A j \in 1..(k - 1) : ~Clash(new[j], new[k])
  PROVE  ~Ambiguous(rows \o new)
  <1> DEFINE all == rows \o new  a == Len(rows)
  <1>1. /\ DOMAIN all = 1..(a + Len(new)) /\ a \in Nat /\ Len(new) \in Nat
        /\ DOMAIN rows = 1..a /\ DOMAIN new = 1..Len(new)
        /\ \A k \in DOMAIN rows : all[k] = rows[k]
        /\ \A k \in DOMAIN new : all[a + k] = new[k]
        /\ \A k \in DOMAIN all : k \in DOMAIN rows \/ (k - a \in DOMAIN new /\ k = a + (k - a))
    BY JoinedPlaces
  <1> HIDE DEF all, a
  <1> SUFFICES ASSUME NEW j \in DOMAIN all, NEW k \in DOMAIN all, j < k, Clash(all[j], all[k])
               PROVE  FALSE
    BY DEF Ambiguous, Clash, all
  <1>2. j \in 1..(a + Len(new)) /\ k \in 1..(a + Len(new))
    BY <1>1
  <1>3. CASE k \in DOMAIN rows
    <2>1. j \in DOMAIN rows
      BY <1>1, <1>2, <1>3
    <2> QED BY <1>1, <1>3, <2>1 DEF Ambiguous, Clash
  <1>4. CASE k \notin DOMAIN rows
    <2>1. k - a \in DOMAIN new /\ all[k] = new[k - a]
      BY <1>1, <1>4
    <2>2. CASE j \in DOMAIN rows
      BY <1>1, <2>1, <2>2
    <2>3. CASE j \notin DOMAIN rows
      <3>1. j - a \in DOMAIN new /\ all[j] = new[j - a]
        BY <1>1, <2>3
      <3>2. j - a \in 1..((k - a) - 1)
        BY <1>1, <1>2, <3>1
      <3> QED BY <2>1, <3>1, <3>2
    <2> QED BY <2>2, <2>3
  <1> QED BY <1>3, <1>4

-----------------------------------------------------------------------------
(* The whole merge: joined files are the lines of the joined rows.         *)

\* The rows under a function.
Mapped(g, rows) == [k \in DOMAIN rows |-> g[rows[k]]]

\* One sequence of c elements behind another of d.
Behind(p, q, c, d) == [n \in 1..(c + d) |-> IF n <= c THEN p[n] ELSE q[n - c]]

\* A join, by place.
LEMMA JoinBehind ==
  ASSUME NEW E, NEW p \in Seq(E), NEW q \in Seq(E)
  PROVE  p \o q = Behind(p, q, Len(p), Len(q))
  <1>1. p \o q = [n \in 1..(Len(p) + Len(q)) |-> IF n <= Len(p) THEN p[n] ELSE q[n - Len(p)]]
    <2> DEFINE c == Len(p)  d == Len(q)
    <2>1. Len(p) = c /\ Len(q) = d
      OBVIOUS
    <2> HIDE DEF c, d
    <2>2. p \o q = [n \in 1..(c + d) |-> IF n <= c THEN p[n] ELSE q[n - c]]
      BY <2>1, JoinIs
    <2> QED BY <2>2 DEF c, d
  <1> QED BY <1>1 DEF Behind

\* An appended sequence, by place.
LEMMA AppendIs ==
  ASSUME NEW E, NEW s \in Seq(E), NEW x \in E, NEW n, Len(s) = n
  PROVE  Append(s, x) = [i \in 1..(n + 1) |-> IF i \in 1..n THEN s[i] ELSE x]
  <1>1. n \in Nat
    OBVIOUS
  <1>2. Append(s, x) \in Seq(E) /\ Len(Append(s, x)) = n + 1
    OBVIOUS
  <1>3. \A i \in 1..(n + 1) : Append(s, x)[i] = IF i \in 1..n THEN s[i] ELSE x
    <2>1. \A i \in 1..n : Append(s, x)[i] = s[i]
      OBVIOUS
    <2>2. Append(s, x)[n + 1] = x
      OBVIOUS
    <2>3. \A i \in 1..(n + 1) : i \in 1..n \/ i = n + 1
      BY <1>1
    <2>4. n + 1 \notin 1..n
      BY <1>1
    <2> QED BY <2>1, <2>2, <2>3, <2>4
  <1> DEFINE t == Append(s, x)
  <1>4. t = [i \in 1..(n + 1) |-> t[i]]
    <2>1. t \in Seq(E) /\ Len(t) = n + 1
      BY <1>2
    <2> HIDE DEF t
    <2> QED BY <2>1, SeqIs
  <1>5. \A i \in 1..(n + 1) : t[i] = IF i \in 1..n THEN s[i] ELSE x
    BY <1>3
  <1> HIDE DEF t
  <1>6. t = [i \in 1..(n + 1) |-> IF i \in 1..n THEN s[i] ELSE x]
    BY <1>4, <1>5
  <1> QED BY <1>6 DEF t

\* A function from E to D.
Maps(g, E, D) == g \in [E -> D]

\* Mapping and joining may change places.
LEMMA MappedIs ==
  ASSUME NEW E, NEW D, NEW g, Maps(g, E, D), NEW p \in Seq(E), NEW q \in Seq(E)
  PROVE  /\ Mapped(g, p) \in Seq(D) /\ Len(Mapped(g, p)) = Len(p)
         /\ Mapped(g, p \o q) = Mapped(g, p) \o Mapped(g, q)
  <1>1. ASSUME NEW r \in Seq(E)
        PROVE  /\ Mapped(g, r) \in Seq(D) /\ Len(Mapped(g, r)) = Len(r)
               /\ Mapped(g, r) = [k \in 1..Len(r) |-> g[r[k]]]
    <2>1. DOMAIN r = 1..Len(r) /\ Len(r) \in Nat /\ \A k \in 1..Len(r) : r[k] \in E
      OBVIOUS
    <2>2. Mapped(g, r) \in [1..Len(r) -> D]
      BY <2>1 DEF Mapped, Maps
    <2> QED BY <2>1, <2>2 DEF Mapped
  <1> DEFINE a == Len(p)  b == Len(q)  r == p \o q  mp == Mapped(g, p)  mq == Mapped(g, q)
  <1>2. Len(p) = a /\ Len(q) = b /\ a \in Nat /\ b \in Nat
    OBVIOUS
  <1>3. /\ mp \in Seq(D) /\ Len(mp) = a /\ mp = [k \in 1..a |-> g[p[k]]]
        /\ mq \in Seq(D) /\ Len(mq) = b /\ mq = [k \in 1..b |-> g[q[k]]]
    BY <1>1
  <1>c. mp \in Seq(D) /\ Len(mp) = a /\ mq \in Seq(D) /\ Len(mq) = b
    BY <1>3
  <1> HIDE DEF a, b, mp, mq
  <1>4. r \in Seq(E) /\ Len(r) = a + b /\ r = [n \in 1..(a + b) |-> IF n <= a THEN p[n] ELSE q[n - a]]
    <2>1. r \in Seq(E) /\ Len(r) = a + b
      BY <1>2
    <2>a. p \o q = Behind(p, q, a, b)
      BY <1>2, JoinBehind
    <2>2. p \o q = [n \in 1..(a + b) |-> IF n <= a THEN p[n] ELSE q[n - a]]
      BY <2>a DEF Behind
    <2> QED BY <2>1, <2>2
  <1> HIDE DEF r
  <1>5. Mapped(g, r) = [k \in 1..(a + b) |-> g[r[k]]]
    BY <1>1, <1>4
  <1>6. mp \o mq = [n \in 1..(a + b) |-> IF n <= a THEN mp[n] ELSE mq[n - a]]
    BY <1>c, JoinIs
  <1>7. ASSUME NEW n \in 1..(a + b)
        PROVE  g[r[n]] = IF n <= a THEN mp[n] ELSE mq[n - a]
    <2>1. CASE n <= a
      <3>1. n \in 1..a
        BY <1>2, <2>1
      <3> QED BY <1>3, <1>4, <2>1, <3>1
    <2>2. CASE ~(n <= a)
      <3>1. n - a \in 1..b
        BY <1>2, <2>2
      <3> QED BY <1>3, <1>4, <2>2, <3>1
    <2> QED BY <2>1, <2>2
  <1>8. Mapped(g, r) = mp \o mq
    BY <1>5, <1>6, <1>7
  <1> QED BY <1>1, <1>8 DEF r, mp, mq

\* The joined rows of the members under a function, as the whole merge joins them.
LEMMA RowsUpToMapped ==
  ASSUME job \in Jobs, NEW D, NEW g, Maps(g, TaggedRows(N), D)
  PROVE  FlattenSeq([i \in 1..N |-> Mapped(g, Tagged(i))]) = Mapped(g, AllRows)
  <1> DEFINE E == TaggedRows(N)
             s(n) == [i \in 1..n |-> Mapped(g, Tagged(i))]
             Bad == {n \in 0..N : FlattenSeq(s(n)) # Mapped(g, RowsUpTo(n))}
  <1>0. N \in Nat
    BY ArchiveRows
  <1>1. \A i \in 1..N : Tagged(i) \in Seq(E) /\ Mapped(g, Tagged(i)) \in Seq(D)
    <2> SUFFICES ASSUME NEW i \in 1..N
                 PROVE  Tagged(i) \in Seq(E) /\ Mapped(g, Tagged(i)) \in Seq(D)
      OBVIOUS
    <2>1. Tagged(i) \in Seq(E)
      BY <1>0, TaggedSelected
    <2> HIDE DEF E
    <2> QED BY <2>1, MappedIs DEF E
  <1> SUFFICES ASSUME Bad # {} PROVE FALSE
    BY <1>0 DEF AllRows
  <1>2. Bad \subseteq Nat
    OBVIOUS
  <1>3. \A n \in 0..N : n \in Bad <=> FlattenSeq(s(n)) # Mapped(g, RowsUpTo(n))
    OBVIOUS
  <1>4. \A n \in Bad : n \in 0..N
    OBVIOUS
  <1> HIDE DEF Bad
  <1>5. PICK n \in Bad : \A i \in Bad : n <= i
    BY <1>2, Least
  <1>6. n \in 0..N /\ FlattenSeq(s(n)) # Mapped(g, RowsUpTo(n))
    BY <1>3, <1>4
  <1>7. \A m \in 0..N : s(m) \in Seq(Seq(D)) /\ Len(s(m)) = m
    BY <1>0, <1>1
  <1>8. CASE n = 0
    <2>1. s(0) \in Seq(Seq(D)) /\ Len(s(0)) = 0 /\ <<>> \in Seq(D)
      BY <1>0, <1>7
    <2> HIDE DEF s
    <2>2. FlattenSeq(s(0)) = <<>>
      BY <2>1, FlattenGrows
    <2>3. RowsUpTo(0) = <<>>
      BY <1>0, RowsUpToGrow
    <2>4. Mapped(g, <<>>) = <<>>
      BY DEF Mapped
    <2> QED BY <1>6, <1>8, <2>2, <2>3, <2>4
  <1>9. CASE n # 0
    <2> DEFINE m == n - 1
    <2>1. m \in 0..N /\ m # N /\ m + 1 = n /\ m \in Nat /\ n \in 1..N /\ m <= N
      BY <1>0, <1>6, <1>9
    <2>2. FlattenSeq(s(m)) = Mapped(g, RowsUpTo(m))
      <3>1. m \notin Bad
        BY <1>5, <1>6, <2>1
      <3> QED BY <1>3, <2>1, <3>1
    <2> HIDE DEF m
    <2>3. RowsUpTo(n) = RowsUpTo(m) \o Tagged(n) /\ RowsUpTo(m) \in Seq(E)
      <3>1. RowsUpTo(m + 1) = RowsUpTo(m) \o Tagged(m + 1) /\ RowsUpTo(m) \in Seq(TaggedRows(m))
        BY <2>1, RowsUpToGrow
      <3>2. TaggedRows(m) \subseteq E
        BY <1>0, <2>1 DEF TaggedRows
      <3> HIDE DEF E
      <3>3. RowsUpTo(m) \in Seq(E)
        BY <3>1, <3>2
      <3> QED BY <2>1, <3>1, <3>3
    <2>4. Mapped(g, RowsUpTo(n)) = Mapped(g, RowsUpTo(m)) \o Mapped(g, Tagged(n))
      <3>1. Tagged(n) \in Seq(E)
        BY <1>1, <2>1
      <3>2. Maps(g, E, D)
        OBVIOUS
      <3> HIDE DEF E
      <3>3. Mapped(g, RowsUpTo(m) \o Tagged(n)) = Mapped(g, RowsUpTo(m)) \o Mapped(g, Tagged(n))
        <4>1. RowsUpTo(m) \in Seq(E)
          BY <2>3
        <4> DEFINE p == RowsUpTo(m)  q == Tagged(n)
        <4>2. p \in Seq(E) /\ q \in Seq(E)
          BY <3>1, <4>1
        <4> HIDE DEF p, q
        <4>3. Mapped(g, p \o q) = Mapped(g, p) \o Mapped(g, q)
          BY <3>2, <4>2, MappedIs
        <4> QED BY <4>3 DEF p, q
      <3> QED BY <2>3, <3>3
    <2>5. s(n) = Append(s(m), Mapped(g, Tagged(n)))
      <3>1. s(m) \in Seq(Seq(D)) /\ Len(s(m)) = m /\ Mapped(g, Tagged(n)) \in Seq(D)
        BY <1>1, <1>7, <2>1
      <3>2. \A i \in 1..m : s(m)[i] = Mapped(g, Tagged(i))
        OBVIOUS
      <3>3. DOMAIN s(m) = 1..m
        OBVIOUS
      <3>4. Append(s(m), Mapped(g, Tagged(n)))
              = [i \in 1..(m + 1) |-> IF i \in 1..m THEN s(m)[i] ELSE Mapped(g, Tagged(n))]
        <4> HIDE DEF s
        <4> QED BY <3>1, AppendIs
      <3>5. \A i \in 1..(m + 1) : i \notin 1..m => i = n
        BY <2>1
      <3> QED BY <2>1, <3>2, <3>4, <3>5
    <2>6. FlattenSeq(s(n)) = FlattenSeq(s(m)) \o Mapped(g, Tagged(n))
      <3>1. s(m) \in Seq(Seq(D)) /\ Mapped(g, Tagged(n)) \in Seq(D)
        BY <1>1, <1>7, <2>1
      <3> HIDE DEF s
      <3> QED BY <2>5, <3>1, FlattenGrows
    <2> QED BY <1>6, <2>2, <2>4, <2>6
  <1> QED BY <1>8, <1>9

\* The files of all members, when each is right.
LEMMA WholeContent ==
  ASSUME job \in Jobs, DOMAIN corpus = Members, DOMAIN ident = Members,
         corpus = [i \in DOMAIN corpus |-> corpus[i]], ident = [i \in DOMAIN ident |-> ident[i]],
         \A i \in Members : CorpusDone(i) /\ IdentDone(i)
  PROVE  /\ FlattenSeq(corpus) = Texts(AllRows) /\ FlattenSeq(ident) = Ids(AllRows)
         /\ ChunkIdents = [n \in DOMAIN AllRows |->
                             [record |-> n, id |-> AllRows[n].id, member |-> AllRows[n].member]]
  <1> DEFINE E == TaggedRows(N)
             text == [row \in E |-> row.text]
             id == [row \in E |-> row.id]
             both == [row \in E |-> [id |-> row.id, member |-> row.member]]
  <1>0. N \in Nat /\ Members = 1..N /\ N \in 0..N
    BY ArchiveRows
  <1>1. AllRows \in Seq(E) /\ AllRows = RowsUpTo(N)
    BY <1>0, RowsUpToGrow DEF AllRows
  <1>2. ASSUME NEW i \in 1..N
        PROVE  /\ Tagged(i) \in Seq(E) /\ corpus[i] = Texts(Tagged(i)) /\ ident[i] = Ids(Tagged(i))
               /\ \A k \in DOMAIN Tagged(i) : Tagged(i)[k] \in E /\ Tagged(i)[k].member = i
    <2>1. /\ Tagged(i) \in Seq(E) /\ i \in Members
          /\ Texts(Tagged(i)) = Texts(Selected(i, job.window))
          /\ Ids(Tagged(i)) = Ids(Selected(i, job.window))
          /\ \A k \in DOMAIN Tagged(i) : Tagged(i)[k].member = i
      BY <1>0, TaggedSelected
    <2> HIDE DEF E
    <2> QED BY <2>1 DEF CorpusDone, IdentDone
  <1>3. \A rows \in Seq(E) : \A k \in DOMAIN rows : rows[k] \in E
    <2> HIDE DEF E
    <2> QED OBVIOUS
  <1>4. ASSUME NEW rows \in Seq(E)
        PROVE  /\ Texts(rows) = Mapped(text, rows) /\ Ids(rows) = Mapped(id, rows)
               /\ Mapped(both, rows) = [k \in DOMAIN rows |-> [id |-> rows[k].id, member |-> rows[k].member]]
    BY <1>3 DEF Texts, Ids, Mapped
  <1>5. /\ Maps(text, E, RowTexts) /\ Maps(id, E, RowIds)
        /\ Maps(both, E, [id : RowIds, member : 1..N])
    BY DEF TaggedRows, Maps
  <1> HIDE DEF text, id, both, E
  <1>6. corpus = [i \in 1..N |-> Mapped(text, Tagged(i))]
    <2>1. corpus = [i \in 1..N |-> corpus[i]]
      BY <1>0
    <2>2. \A i \in 1..N : corpus[i] = Mapped(text, Tagged(i))
      BY <1>2, <1>4
    <2> QED BY <2>1, <2>2
  <1>7. ident = [i \in 1..N |-> Mapped(id, Tagged(i))]
    <2>1. ident = [i \in 1..N |-> ident[i]]
      BY <1>0
    <2>2. \A i \in 1..N : ident[i] = Mapped(id, Tagged(i))
      BY <1>2, <1>4
    <2> QED BY <2>1, <2>2
  <1>8. FlattenSeq(corpus) = Texts(AllRows)
    <2>1. FlattenSeq([i \in 1..N |-> Mapped(text, Tagged(i))]) = Mapped(text, AllRows)
      BY <1>5, RowsUpToMapped DEF E
    <2> QED BY <1>1, <1>4, <1>6, <2>1
  <1>9. FlattenSeq(ident) = Ids(AllRows)
    <2>1. FlattenSeq([i \in 1..N |-> Mapped(id, Tagged(i))]) = Mapped(id, AllRows)
      BY <1>5, RowsUpToMapped DEF E
    <2> QED BY <1>1, <1>4, <1>7, <2>1
  <1>10. FlattenSeq([i \in 1..N |-> Mapped(both, Tagged(i))]) = Mapped(both, AllRows)
    BY <1>5, RowsUpToMapped DEF E
  <1>11. ASSUME NEW i \in 1..N
         PROVE  [k \in DOMAIN ident[i] |-> [id |-> ident[i][k], member |-> i]] = Mapped(both, Tagged(i))
    <2>1. DOMAIN ident[i] = DOMAIN Tagged(i) /\ \A k \in DOMAIN Tagged(i) : ident[i][k] = Tagged(i)[k].id
      <3>1. ident[i] = Ids(Tagged(i))
        BY <1>2
      <3>2. DOMAIN Ids(Tagged(i)) = DOMAIN Tagged(i) /\ \A k \in DOMAIN Tagged(i) : Ids(Tagged(i))[k] = Tagged(i)[k].id
        BY DEF Ids
      <3> QED BY <3>1, <3>2
    <2>2. Mapped(both, Tagged(i))
            = [k \in DOMAIN Tagged(i) |-> [id |-> Tagged(i)[k].id, member |-> Tagged(i)[k].member]]
      BY <1>2, <1>4
    <2> QED BY <1>2, <2>1, <2>2
  <1>12. [i \in 1..N |-> [k \in DOMAIN ident[i] |-> [id |-> ident[i][k], member |-> i]]]
           = [i \in 1..N |-> Mapped(both, Tagged(i))]
    BY <1>11
  <1>13. ChunkIdents = [n \in DOMAIN Mapped(both, AllRows) |->
                          [record |-> n, id |-> Mapped(both, AllRows)[n].id, member |-> Mapped(both, AllRows)[n].member]]
    BY <1>10, <1>12 DEF ChunkIdents
  <1>14. Mapped(both, AllRows)
           = [k \in DOMAIN AllRows |-> [id |-> AllRows[k].id, member |-> AllRows[k].member]]
    BY <1>1, <1>4
  <1>15. ChunkIdents = [n \in DOMAIN AllRows |->
                          [record |-> n, id |-> AllRows[n].id, member |-> AllRows[n].member]]
    BY <1>13, <1>14
  <1> QED BY <1>8, <1>9, <1>15

\* Without two rows of one identity, the lines of all rows are one for each.
LEMMA WholeIsExact ==
  ASSUME job \in Jobs, DOMAIN corpus = Members, DOMAIN ident = Members,
         corpus = [i \in DOMAIN corpus |-> corpus[i]], ident = [i \in DOMAIN ident |-> ident[i]],
         \A i \in Members : CorpusDone(i) /\ IdentDone(i)
  PROVE  /\ IsInjective(FlattenSeq(ident)) => ~Ambiguous(AllRows)
         /\ job.merge = "whole" /\ ~Ambiguous(AllRows) => \A f \in Files : Content(f) = Expected(f)
  <1>0. N \in Nat /\ N \in 0..N
    BY ArchiveRows
  <1>1. AllRows \in Seq(TaggedRows(N))
    BY <1>0, RowsUpToGrow DEF AllRows
  <1>2. /\ DOMAIN AllRows = 1..Len(AllRows) /\ Len(AllRows) \in Nat
    BY <1>1
  <1>3. ASSUME IsInjective(FlattenSeq(ident)), Ambiguous(AllRows)
        PROVE  FALSE
    <2>1. PICK j \in DOMAIN AllRows, k \in DOMAIN AllRows : j < k /\ AllRows[j].id = AllRows[k].id
      BY <1>3 DEF Ambiguous
    <2>2. DOMAIN Ids(AllRows) = DOMAIN AllRows /\ Ids(AllRows)[j] = Ids(AllRows)[k]
      BY <2>1 DEF Ids
    <2>3. j = k
      BY <1>3, <2>2, WholeContent DEF IsInjective
    <2>4. j \in Nat
      BY <1>2
    <2> QED BY <2>1, <2>3, <2>4
  <1>4. ASSUME job.merge = "whole", ~Ambiguous(AllRows), NEW f \in Files
        PROVE  Content(f) = Expected(f)
    <2> DEFINE c == Len(AllRows)
    <2>1. ASSUME NEW k \in DOMAIN AllRows, NEW j \in 1..(k - 1)
          PROVE  AllRows[j].id # AllRows[k].id
      <3>1. j \in DOMAIN AllRows /\ j < k
        BY <1>2, <2>1
      <3> QED BY <1>4, <3>1 DEF Ambiguous
    <2>2. FirstSet(AllRows) = 1..c
      BY <1>2, <2>1 DEF FirstSet
    <2>3. Cardinality(1..c) = c /\ Places(1..c) = [n \in 1..c |-> n]
      BY <1>2, PlacesUpTo
    <2>4. Lines(f, AllRows) = [n \in 1..c |-> Line(f, n, AllRows[n])]
      <3>1. /\ Firsts(AllRows) = Places(FirstSet(AllRows))
            /\ c = Cardinality(FirstSet(AllRows))
        BY <1>1, <2>2, <2>3, LinesAre
      <3>2. Lines(f, AllRows) = [n \in 1..c |-> Line(f, n, AllRows[Firsts(AllRows)[n]])]
        <4> HIDE DEF c
        <4> QED BY <1>1, <3>1, LinesAre
      <3>3. \A n \in 1..c : Firsts(AllRows)[n] = n
        BY <2>2, <2>3, <3>1
      <3> QED BY <3>2, <3>3
    <2>5. CASE f = "corpus"
      <3>1. Content(f) = Texts(AllRows)
        BY <2>5, WholeContent DEF Content
      <3>2. Texts(AllRows) = [n \in 1..c |-> AllRows[n].text]
        BY <1>2 DEF Texts
      <3> QED BY <2>4, <2>5, <3>1, <3>2 DEF Expected, Line
    <2>6. CASE f = "ident"
      <3>1. Content(f) = [n \in 1..c |-> [record |-> n, id |-> AllRows[n].id, member |-> AllRows[n].member]]
        BY <1>2, <2>6, WholeContent DEF Content
      <3> QED BY <2>4, <2>6, <3>1 DEF Expected, Line
    <2> QED BY <2>5, <2>6 DEF Files
  <1> QED BY <1>3, <1>4

-----------------------------------------------------------------------------
(* The member in work.                                                     *)

\* What a job is made of stays as it is.
LEMMA SameJob ==
  ASSUME job' = job
  PROVE  /\ N' = N /\ Members' = Members /\ AllRows' = AllRows
         /\ \A i, w : Selected(i, w)' = Selected(i, w) /\ Marker(i, w)' = Marker(i, w)
         /\ \A n : RowsUpTo(n)' = RowsUpTo(n)
         /\ \A f, n : Merged(f, n)' = Merged(f, n)
         /\ \A f : Expected(f)' = Expected(f)
         /\ \A n : SeenUpTo(n)' = SeenUpTo(n)
         /\ \A rows : Ambiguous(rows)' <=> Ambiguous(rows)
  <1>1. /\ N' = N /\ Members' = Members
        /\ \A i, w : Selected(i, w)' = Selected(i, w) /\ Marker(i, w)' = Marker(i, w)
    BY DEF N, Members, Selected, Lying, Marker
  <1>2. \A n : RowsUpTo(n)' = RowsUpTo(n)
    BY DEF RowsUpTo, Selected, Lying
  <1>3. AllRows' = AllRows
    BY <1>1, <1>2 DEF AllRows
  <1>4. \A f, n : Merged(f, n)' = Merged(f, n)
    BY <1>2 DEF Merged
  <1>5. \A n : SeenUpTo(n)' = SeenUpTo(n)
    BY <1>2 DEF SeenUpTo, SeenOf
  <1>6. \A f : Expected(f)' = Expected(f)
    BY <1>3 DEF Expected
  <1>7. \A rows : Ambiguous(rows)' <=> Ambiguous(rows)
    BY DEF Ambiguous
  <1> QED BY <1>1, <1>2, <1>3, <1>4, <1>5, <1>6, <1>7

\* Where no tool but dedupe accepts it, no row of a member has an identity that
\* is there.
LEMMA ClearIsFresh ==
  ASSUME job \in Jobs, NEW n \in 0..N, n # N, job.merge # "dedupe", ~Ambiguous(RowsUpTo(n + 1))
  PROVE  Fresh(n) = DOMAIN Tagged(n + 1)
  <1> DEFINE rows == RowsUpTo(n)  new == Tagged(n + 1)  a == Len(rows)  all == RowsUpTo(n + 1)
  <1>0. N \in Nat /\ n \in Nat /\ n + 1 \in Nat /\ n + 1 <= N /\ n + 1 \in 1..(n + 1)
    BY ArchiveRows
  <1>1. all = rows \o new /\ rows \in Seq(TaggedRows(n + 1)) /\ new \in Seq(TaggedRows(n + 1))
    <2>1. RowsUpTo(n + 1) = RowsUpTo(n) \o Tagged(n + 1) /\ RowsUpTo(n) \in Seq(TaggedRows(n))
      BY RowsUpToGrow
    <2>2. TaggedRows(n) \subseteq TaggedRows(n + 1)
      BY <1>0 DEF TaggedRows
    <2>3. Tagged(n + 1) \in Seq(TaggedRows(n + 1))
      BY <1>0, TaggedSelected
    <2> HIDE DEF TaggedRows
    <2> QED BY <2>1, <2>2, <2>3
  <1>2. \A j, k \in DOMAIN all : j < k => all[j].id # all[k].id
    BY DEF Ambiguous
  <1> HIDE DEF rows, new, all
  <1>3. /\ DOMAIN all = 1..(a + Len(new)) /\ a \in Nat /\ Len(new) \in Nat
        /\ DOMAIN rows = 1..a /\ DOMAIN new = 1..Len(new)
        /\ \A k \in DOMAIN rows : all[k] = rows[k]
        /\ \A k \in DOMAIN new : all[a + k] = new[k]
    <2>1. /\ DOMAIN (rows \o new) = 1..(Len(rows) + Len(new))
          /\ Len(rows) \in Nat /\ Len(new) \in Nat /\ DOMAIN rows = 1..Len(rows) /\ DOMAIN new = 1..Len(new)
          /\ \A k \in DOMAIN rows : (rows \o new)[k] = rows[k]
          /\ \A k \in DOMAIN new : (rows \o new)[Len(rows) + k] = new[k]
      BY <1>1, JoinedPlaces
    <2> QED BY <1>1, <2>1
  <1> HIDE DEF a
  <1>4. ASSUME NEW k \in DOMAIN new
        PROVE  k \in FreshIn(rows, new)
    <2>1. k \in 1..Len(new) /\ a + k \in DOMAIN all /\ all[a + k] = new[k]
      BY <1>3
    <2>2. ASSUME NEW j \in DOMAIN rows PROVE rows[j].id # new[k].id
      <3>1. j \in DOMAIN all /\ j < a + k /\ all[j] = rows[j]
        BY <1>3, <2>1
      <3> QED BY <1>2, <2>1, <3>1
    <2>3. ASSUME NEW j \in 1..(k - 1) PROVE new[j].id # new[k].id
      <3>1. j \in DOMAIN new /\ a + j \in DOMAIN all /\ a + j < a + k
        BY <1>3, <2>1
      <3>2. all[a + j] = new[j]
        BY <1>3, <3>1
      <3> QED BY <1>2, <2>1, <3>1, <3>2
    <2> QED BY <2>2, <2>3 DEF FreshIn, FirstSet
  <1>5. FreshIn(rows, new) \subseteq DOMAIN new
    BY DEF FreshIn, FirstSet
  <1>6. FreshIn(rows, new) = DOMAIN new
    BY <1>4, <1>5
  <1> QED BY <1>6 DEF Fresh, rows, new

\* The strict tool copies the texts of a member as they are.
LEMMA StrictCorpus ==
  ASSUME job \in Jobs, NEW n \in 0..N, n # N, job.merge # "dedupe", ~Ambiguous(RowsUpTo(n + 1))
  PROVE  Merged("corpus", n + 1) = Merged("corpus", n) \o Texts(Selected(n + 1, job.window))
  <1> DEFINE new == Tagged(n + 1)  c == Len(new)
  <1>0. N \in Nat /\ n \in Nat /\ n + 1 \in Nat /\ n + 1 <= N /\ n + 1 \in 1..(n + 1) /\ "corpus" \in Files
    BY ArchiveRows DEF Files
  <1>1. /\ new \in Seq(TaggedRows(n + 1)) /\ Texts(new) = Texts(Selected(n + 1, job.window))
        /\ Len(new) = Len(Selected(n + 1, job.window)) /\ n + 1 \in Members
    BY <1>0, TaggedSelected
  <1>2. Texts(new) \in Seq(FileLines) /\ Len(Texts(new)) = c
    <2>1. Texts(new) \in Seq(RowTexts) /\ Len(Texts(new)) = c
      BY <1>1, SelectedRows
    <2>2. RowTexts \subseteq FileLines
      BY DEF FileLines
    <2> HIDE DEF new, c
    <2> QED BY <2>1, <2>2
  <1>3. c \in Nat /\ DOMAIN new = 1..c
    BY <1>1
  <1>4. Fresh(n) = 1..c
    BY <1>3, ClearIsFresh
  <1>5. Cardinality(Fresh(n)) = c /\ Places(Fresh(n)) = [k \in 1..c |-> k]
    BY <1>3, <1>4, PlacesUpTo
  <1>6. \A k \in 1..c : Texts(new)[k] = Line("corpus", Count(n) + k, new[Places(Fresh(n))[k]])
    BY <1>3, <1>5 DEF Texts, Line
  <1> HIDE DEF new, c
  <1>7. Merged("corpus", n + 1) = Merged("corpus", n) \o Texts(new)
    BY <1>0, <1>2, <1>5, <1>6, MergedGrows DEF new
  <1> QED BY <1>1, <1>7

\* A row has an identity that is not in the table exactly where it is one of no
\* row before.
LEMMA KeptIsFresh ==
  ASSUME job \in Jobs, NEW n \in 0..N, n # N, seen = SeenUpTo(n), ident[n + 1] = Ids(Tagged(n + 1))
  PROVE  /\ {k \in DOMAIN ident[n + 1] : First(n + 1, k)} = Fresh(n)
         /\ Kept(n + 1) = Places(Fresh(n))
         /\ DOMAIN ident[n + 1] = DOMAIN Tagged(n + 1)
         /\ \A k \in DOMAIN Tagged(n + 1) : ident[n + 1][k] = Tagged(n + 1)[k].id
         /\ \A k \in DOMAIN Tagged(n + 1) :
              k \in FirstSet(Tagged(n + 1)) <=> \A j \in 1..(k - 1) : ident[n + 1][j] # ident[n + 1][k]
  <1> DEFINE rows == RowsUpTo(n)  new == Tagged(n + 1)  i == n + 1
  <1>0. N \in Nat /\ n \in Nat /\ n + 1 \in Nat /\ n + 1 <= N /\ n + 1 \in 1..(n + 1)
    BY ArchiveRows
  <1>1. rows \in Seq(TaggedRows(n)) /\ new \in Seq(TaggedRows(n + 1))
    BY <1>0, RowsUpToGrow, TaggedSelected
  <1>2. DOMAIN ident[i] = DOMAIN new /\ \A k \in DOMAIN new : ident[i][k] = new[k].id
    BY DEF Ids
  <1>3. /\ seen = {SeenOf(rows[k]) : k \in FirstSet(rows)}
        /\ \A k \in DOMAIN rows : \E s \in seen : s.id = rows[k].id
    BY SeenOfFirsts
  <1>4. DOMAIN new = 1..Len(new) /\ Len(new) \in Nat
    BY <1>1
  <1> HIDE DEF rows, new, i
  <1>5. ASSUME NEW k \in DOMAIN new
        PROVE  Known(i, k) = {} <=> \A j \in DOMAIN rows : rows[j].id # new[k].id
    <2>1. ASSUME Known(i, k) = {}, NEW j \in DOMAIN rows PROVE rows[j].id # new[k].id
      <3>1. PICK s \in seen : s.id = rows[j].id
        BY <1>3
      <3> QED BY <1>2, <2>1, <3>1 DEF Known
    <2>2. ASSUME NEW s \in Known(i, k) PROVE \E j \in DOMAIN rows : rows[j].id = new[k].id
      <3>1. PICK j \in FirstSet(rows) : s = SeenOf(rows[j])
        BY <1>3 DEF Known
      <3>2. s.id = ident[i][k] /\ s.id = rows[j].id
        BY <3>1 DEF Known, SeenOf
      <3>3. j \in DOMAIN rows
        BY DEF FirstSet
      <3> QED BY <1>2, <3>2, <3>3
    <2> QED BY <2>1, <2>2
  <1>6. ASSUME NEW k \in DOMAIN new
        PROVE  k \in FirstSet(new) <=> \A j \in 1..(k - 1) : ident[i][j] # ident[i][k]
    <2>1. \A j \in 1..(k - 1) : j \in DOMAIN new
      BY <1>4
    <2>2. \A j \in 1..(k - 1) : ident[i][j] = new[j].id
      BY <1>2, <2>1
    <2> QED BY <1>2, <2>2 DEF FirstSet
  <1>7. \A k \in DOMAIN new : First(i, k) <=> k \in FreshIn(rows, new)
    BY <1>5, <1>6 DEF First, FreshIn
  <1>8. FreshIn(rows, new) \subseteq DOMAIN new
    BY DEF FreshIn, FirstSet
  <1>9. {k \in DOMAIN ident[i] : First(i, k)} = Fresh(n)
    BY <1>2, <1>7, <1>8 DEF Fresh, rows, new
  <1>10. Kept(i) = Places(Fresh(n))
    BY <1>9 DEF Kept
  <1> QED BY <1>2, <1>6, <1>9, <1>10 DEF i, new

-----------------------------------------------------------------------------
(* The inductive invariant.                                                *)

\* A file that is absent, or its lines.
FileStates == {Absent} \cup Seq(FileLines)

\* The types of the variables of the members.
MembersTyped ==
  /\ job \in Jobs
  /\ tool \in {"idle", "pool", "sliced", "merge"}
  /\ result \in {"none", "pass", "error", "progress", "killed"}
  /\ at \in [Members -> {"idle", "queued", "started", "corpus", "ident", "done", "failed"}]
  /\ budget \in 0..MaxRows /\ crashes \in 0..MaxCrashes /\ faults \in 0..MaxFaults
  /\ cursor \in Nat \X {"idle", "member", "slice", "ident", "marker"}
  /\ corpus \in [Members -> FileStates] /\ ident \in [Members -> FileStates]
  /\ DOMAIN marker = Members
  /\ cut \in [Members -> [off : Int, eof : BOOLEAN, parts : Seq(Rows), stray : BOOLEAN]]

\* A marker of this job is what the archive says, and so are the slices read.
MarkersAreTrue ==
  \A i \in Members :
    marker[i] # Absent /\ marker[i].window = job.window => marker[i] = Marker(i, job.window)

\* The rows of a member that slices up to the k-th source row have read.
Read(i, k) == Pick(job.archive[i], Lying(i, job.window, 1, k))

\* The slices hold the rows in the window up to where they have read.
SlicesAreTrue ==
  \A i \in Members :
    /\ cut[i].off \in -1..Len(job.archive[i])
    /\ cut[i].off >= 0 => cut[i].parts = Read(i, cut[i].off)
    /\ cut[i].off = -1 => cut[i].parts = <<>>
    /\ cut[i].eof => cut[i].off = Len(job.archive[i])

\* The files that a run has written before the marker are what it will name.
PoolIsTrue ==
  tool = "pool" => \A i \in Members :
    /\ at[i] \in {"corpus", "ident", "done"} => CorpusDone(i)
    /\ at[i] \in {"ident", "done"} => IdentDone(i)

\* What a run of the sliced tool has written before the marker is what it will name.
CursorIsTrue ==
  LET i == cursor[1]
  IN  /\ (cursor[2] \in {"slice", "ident", "marker"} => tool = "sliced" /\ i \in Members)
      /\ (cursor[2] = "slice" => cut[i].off >= 0)
      /\ (cursor[2] \in {"ident", "marker"} => cut[i].off = Len(job.archive[i]) /\ CorpusDone(i))
      /\ (cursor[2] = "marker" => IdentDone(i))

\* What is known of the files of the members.
MembersInv == MembersTyped /\ MarkersAreTrue /\ SlicesAreTrue /\ PoolIsTrue /\ CursorIsTrue

\* Where a merge can be, and the places that it visits once for each file.
StageKinds == {"none", "recover", "member", "transform", "append", "commit", "finish", "complete",
               "refinalize", "rename", "recomplete", "whole"}
TwoFiles == {"recover", "append", "finish", "rename", "whole"}
MergeStates == [next : 0..N, rows : 0..Len(AllRows), complete : BOOLEAN]

\* The types of the variables of the merge.
MergeTyped ==
  /\ ms = Absent \/ ms \in MergeStates
  /\ part \in [Files -> FileStates] /\ out \in [Files -> FileStates]
  /\ batch \in [Files -> Seq(FileLines)]
  /\ stage \in StageKinds \X Files /\ (stage[2] = "corpus" \/ stage[1] \in TwoFiles)

\* A file that begins with these lines.
Extends(file, lines) ==
  Len(lines) <= Len(file) /\ \A k \in DOMAIN lines : file[k] = lines[k]

\* What a partial file and a result hold, wherever a run was killed.
PartIsTrue(f) ==
  /\ part[f] = Absent /\ out[f] = Absent => ms.rows = 0
  /\ part[f] # Absent => Extends(part[f], Merged(f, ms.next))

\* A result is exact: the whole merge writes it in one step, the others when they are at
\* the last member.
ResultIsTrue(f) ==
  out[f] # Absent => IF job.merge = "whole" THEN ~Ambiguous(AllRows) /\ out[f] = Expected(f)
                     ELSE ms # Absent /\ ms.next = N /\ out[f] = Merged(f, N)

\* What the files of the merge hold at any time, killed or not: the state counts the
\* identities of the members merged, the table has theirs and those of nobody counted,
\* and the partial files begin with their lines.
DurableIsTrue ==
  /\ ms = Absent => seen = {} /\ NoneExist(part)
  /\ job.merge = "whole" => ms = Absent
  /\ ms # Absent =>
       /\ ms.rows = Count(ms.next) /\ ~Ambiguous(RowsUpTo(ms.next))
       /\ Committed = SeenUpTo(ms.next)
       /\ \A f \in Files : PartIsTrue(f)
       /\ ms.complete => Exist(out)
  /\ \A f \in Files : ResultIsTrue(f)

\* What the member in work adds to a file.
Adding(f) == IF job.merge = "strict" /\ f = "corpus" THEN Merged(f, ms.next) \o corpus[ms.next + 1]
             ELSE Merged(f, ms.next + 1)

\* What is known where a run is.
Where == stage[1]

\* The places of the strict and the dedupe merge.
MergeStages == StageKinds \ {"none", "whole"}

\* What a run checks before it begins and what nothing changes while it goes on.
Ready ==
  /\ job.merge \in {"strict", "dedupe"} /\ ms # Absent
  /\ \A i \in Members : marker[i] = Marker(i, job.window) /\ corpus[i] # Absent /\ ident[i] # Absent

\* Where a run is agrees with its tool and with how many members are merged.
WorkMatches ==
  /\ tool = "merge" <=> Where # "none"
  /\ Where \in MergeStages => Ready
  /\ Where \in {"transform", "append", "commit"} => ms.next < N
  /\ Where \in {"finish", "complete", "refinalize", "rename", "recomplete"} => ms.next = N
  /\ Where \in {"refinalize", "rename", "recomplete"} => job.merge = "strict"

\* What holds at each place of the work on one member.
MemberInWork ==
  /\ stage = <<"recover", "ident">> \/ Where \in {"member", "transform"} =>
       \A f \in Files : part[f] = Merged(f, ms.next)
  /\ Where = "transform" => seen = SeenUpTo(ms.next)
  /\ Where \in {"append", "commit"} =>
       seen = SeenUpTo(ms.next + 1) /\ ~Ambiguous(RowsUpTo(ms.next + 1))
  /\ stage = <<"append", "corpus">> =>
       /\ part["corpus"] # Absent /\ part["corpus"] \o batch["corpus"] = Adding("corpus")
       /\ part["ident"] = Merged("ident", ms.next)
       /\ Merged("ident", ms.next) \o batch["ident"] = Merged("ident", ms.next + 1)
  /\ stage = <<"append", "ident">> =>
       /\ part["corpus"] = Merged("corpus", ms.next + 1)
       /\ part["ident"] # Absent /\ part["ident"] \o batch["ident"] = Merged("ident", ms.next + 1)
  /\ Where = "commit" => \A f \in Files : part[f] = Merged(f, ms.next + 1)

\* What holds at each place of the end, and in the whole merge.
EndInWork ==
  /\ stage \in {<<"finish", "ident">>, <<"rename", "ident">>} => out["corpus"] # Absent
  /\ stage = <<"finish", "ident">> /\ job.merge = "strict" /\ out["ident"] = Absent => Fits(part["ident"])
  /\ Where \in {"complete", "recomplete"} => Exist(out)
  /\ Where = "whole" =>
       /\ job.merge = "whole" /\ ~Ambiguous(AllRows)
       /\ \A i \in Members : CorpusDone(i) /\ IdentDone(i)

\* What is known of the run that goes on.
WorkInv == WorkMatches /\ MemberInWork /\ EndInWork

\* The inductive invariant.
MergeInv == MembersInv /\ MergeTyped /\ DurableIsTrue /\ WorkInv

\* What Transform finds and what it needs.
InWork(n) ==
  /\ job \in Jobs /\ n \in 0..N /\ n # N /\ job.merge \in {"strict", "dedupe"}
  /\ marker[n + 1] = Marker(n + 1, job.window)
  /\ ms.rows = Count(n) /\ ~Ambiguous(RowsUpTo(n)) /\ seen = SeenUpTo(n)
  /\ Admissible(n + 1)

\* A member that is admitted has the identities and, where they are read, the
\* texts that the archive says, and makes nothing ambiguous.
LEMMA Admitted ==
  ASSUME NEW n, InWork(n)
  PROVE  /\ ident[n + 1] = Ids(Tagged(n + 1))
         /\ job.merge = "dedupe" => corpus[n + 1] = Texts(Tagged(n + 1))
         /\ ~Ambiguous(RowsUpTo(n + 1))
  <1> DEFINE rows == RowsUpTo(n)  new == Tagged(n + 1)  i == n + 1
  <1>0. /\ job \in Jobs /\ n \in 0..N /\ n # N /\ N \in Nat /\ n \in Nat /\ n + 1 \in Nat /\ n + 1 <= N
        /\ n + 1 \in 1..(n + 1) /\ job.merge \in {"strict", "dedupe"}
    BY ArchiveRows DEF InWork
  <1>1. /\ rows \in Seq(TaggedRows(n + 1)) /\ new \in Seq(TaggedRows(n + 1))
        /\ RowsUpTo(n + 1) = rows \o new
    <2>1. RowsUpTo(n + 1) = RowsUpTo(n) \o Tagged(n + 1) /\ RowsUpTo(n) \in Seq(TaggedRows(n))
      BY <1>0, RowsUpToGrow
    <2>2. TaggedRows(n) \subseteq TaggedRows(n + 1)
      BY <1>0 DEF TaggedRows
    <2>3. Tagged(n + 1) \in Seq(TaggedRows(n + 1))
      BY <1>0, TaggedSelected
    <2> HIDE DEF TaggedRows
    <2> QED BY <2>1, <2>2, <2>3
  <1>2. Texts(new) = Texts(Selected(i, job.window)) /\ Ids(new) = Ids(Selected(i, job.window))
    BY <1>0, TaggedSelected
  <1>3. marker[i].corpus = Texts(new) /\ marker[i].ident = Ids(new)
    BY <1>2 DEF InWork, Marker
  <1>4. ident[i] = Ids(new)
    <2>1. CASE job.merge = "strict"
      BY <1>3, <2>1 DEF InWork, Admissible
    <2>2. CASE job.merge # "strict"
      <3>1. Chunk("ident", i) = Markers("ident", i)
        BY <2>2 DEF InWork, Admissible, Files
      <3> QED BY <1>3, <3>1 DEF Chunk, Markers
    <2> QED BY <2>1, <2>2
  <1>5. job.merge = "dedupe" => corpus[i] = Texts(new)
    <2> SUFFICES ASSUME job.merge = "dedupe" PROVE corpus[i] = Texts(new)
      OBVIOUS
    <2>1. Chunk("corpus", i) = Markers("corpus", i)
      BY DEF InWork, Admissible, Files
    <2> QED BY <1>3, <2>1 DEF Chunk, Markers
  <1>6. /\ seen = SeenUpTo(n) /\ ~Ambiguous(rows) /\ Admissible(i)
    BY DEF InWork
  <1>7. /\ {k \in DOMAIN ident[i] : First(i, k)} = Fresh(n)
        /\ DOMAIN ident[i] = DOMAIN new
        /\ \A k \in DOMAIN new : ident[i][k] = new[k].id
    BY <1>0, <1>4, <1>6, KeptIsFresh
  <1>8. DOMAIN new = 1..Len(new) /\ Len(new) \in Nat
    BY <1>1
  <1>9. ASSUME NEW k \in DOMAIN new
        PROVE  /\ \A j \in DOMAIN rows : ~Clash(rows[j], new[k])
               /\ \A j \in 1..(k - 1) : ~Clash(new[j], new[k])
    <2>0. k \in DOMAIN ident[i] /\ ident[i][k] = new[k].id /\ \A j \in 1..(k - 1) : j \in DOMAIN new
      BY <1>7, <1>8
    <2>1. CASE job.merge = "strict"
      <3>1. First(i, k)
        BY <1>6, <2>0, <2>1 DEF Admissible
      <3>2. k \in FreshIn(rows, new)
        BY <1>7, <2>0, <3>1 DEF Fresh
      <3> HIDE DEF rows, new, i
      <3>3. \A j \in DOMAIN rows : rows[j].id # new[k].id
        BY <3>2 DEF FreshIn
      <3>4. \A j \in 1..(k - 1) : new[j].id # new[k].id
        BY <3>2 DEF FreshIn, FirstSet
      <3> QED BY <3>3, <3>4 DEF Clash
    <2>2. CASE job.merge = "dedupe"
      <3>1. /\ \A s \in Known(i, k) : s.text = corpus[i][k]
            /\ \A j \in 1..(k - 1) : ident[i][j] = ident[i][k] => corpus[i][j] = corpus[i][k]
        BY <1>6, <2>0, <2>2 DEF Admissible
      <3>2. \A j \in DOMAIN new : corpus[i][j] = new[j].text
        BY <1>5, <2>2 DEF Texts
      <3>3. ASSUME NEW j \in 1..(k - 1) PROVE ~Clash(new[j], new[k])
        <4>1. j \in DOMAIN new /\ ident[i][j] = new[j].id
          BY <1>7, <2>0
        <4>2. corpus[i][j] = new[j].text /\ corpus[i][k] = new[k].text
          BY <3>2, <4>1
        <4>3. ident[i][j] = ident[i][k] => corpus[i][j] = corpus[i][k]
          BY <3>1
        <4>4. new[j].id = new[k].id => new[j].text = new[k].text
          BY <2>0, <4>1, <4>2, <4>3
        <4> QED BY <2>2, <4>4 DEF Clash
      <3>4. ASSUME NEW j \in DOMAIN rows, rows[j].id = new[k].id PROVE rows[j].text = new[k].text
        <4>1. PICK m \in FirstSet(rows) : rows[m].id = rows[j].id
          BY <1>1, EveryIdIsFirst
        <4>2. SeenOf(rows[m]) \in seen
          <5>1. SeenUpTo(n) = {SeenOf(RowsUpTo(n)[q]) : q \in FirstSet(RowsUpTo(n))}
            BY <1>0, SeenOfFirsts
          <5> QED BY <1>6, <5>1
        <4>3. SeenOf(rows[m]) \in Known(i, k)
          BY <2>0, <3>4, <4>1, <4>2 DEF Known, SeenOf
        <4>4. SeenOf(rows[m]).text = rows[m].text
          BY <2>2 DEF SeenOf
        <4>5. rows[m].text = new[k].text
          BY <3>1, <3>2, <4>3, <4>4
        <4>6. m = j \/ m < j \/ j < m
          <5>1. m \in Nat /\ j \in Nat
            BY <1>1 DEF FirstSet
          <5> QED BY <5>1
        <4>7. rows[m].text = rows[j].text
          <5>1. m \in DOMAIN rows /\ j \in DOMAIN rows
            BY DEF FirstSet
          <5> QED BY <1>6, <2>2, <4>1, <4>6, <5>1 DEF Ambiguous
        <4> QED BY <4>5, <4>7
      <3>5. ASSUME NEW j \in DOMAIN rows PROVE ~Clash(rows[j], new[k])
        BY <2>2, <3>4 DEF Clash
      <3> QED BY <3>3, <3>5
    <2> QED BY <1>0, <2>1, <2>2
  <1> HIDE DEF rows, new
  <1>10. ~Ambiguous(rows \o new)
    BY <1>1, <1>6, <1>9, StaysClear
  <1> QED BY <1>1, <1>4, <1>5, <1>10 DEF new

\* Its kept rows become the identities seen ...
LEMMA TransformedSeen ==
  ASSUME NEW n, InWork(n)
  PROVE  SeenUpTo(n + 1) =
           seen \cup {[id |-> ident[n + 1][Kept(n + 1)[k]], member |-> n + 1,
                       text |-> IF job.merge = "strict" THEN Absent ELSE corpus[n + 1][Kept(n + 1)[k]]]
                      : k \in DOMAIN Kept(n + 1)}
  <1> DEFINE new == Tagged(n + 1)  i == n + 1  kept == Kept(n + 1)
             added(k) == [id |-> ident[i][k], member |-> i,
                          text |-> IF job.merge = "strict" THEN Absent ELSE corpus[i][k]]
  <1>0. /\ job \in Jobs /\ n \in 0..N /\ n # N /\ N \in Nat /\ n \in Nat /\ n + 1 \in Nat /\ n + 1 <= N
        /\ n + 1 \in 1..(n + 1) /\ job.merge \in {"strict", "dedupe"} /\ seen = SeenUpTo(n)
    BY ArchiveRows DEF InWork
  <1>1. ident[i] = Ids(new) /\ (job.merge = "dedupe" => corpus[i] = Texts(new))
    BY Admitted
  <1>2. kept = Places(Fresh(n)) /\ \A k \in DOMAIN new : ident[i][k] = new[k].id
    BY <1>0, <1>1, KeptIsFresh
  <1>3. Fresh(n) \subseteq DOMAIN new
    BY DEF Fresh, FreshIn, FirstSet
  <1>4. new \in Seq(TaggedRows(n + 1)) /\ \A k \in DOMAIN new : new[k].member = i
    BY <1>0, TaggedSelected
  <1>5. /\ DOMAIN kept = 1..Cardinality(Fresh(n)) /\ \A k \in DOMAIN kept : kept[k] \in Fresh(n)
        /\ \A k \in Fresh(n) : \E m \in DOMAIN kept : kept[m] = k
    <2>1. IsFiniteSet(Fresh(n)) /\ Fresh(n) \in SUBSET Int
      BY <1>3, <1>4, PickRows
    <2> HIDE DEF new, kept
    <2>2. /\ Cardinality(Fresh(n)) \in Nat /\ kept \in [1..Cardinality(Fresh(n)) -> Fresh(n)]
          /\ \A k \in Fresh(n) : /\ Cardinality(Below(Fresh(n), k)) + 1 \in 1..Cardinality(Fresh(n))
                                /\ kept[Cardinality(Below(Fresh(n), k)) + 1] = k
      BY <1>2, <2>1, PlacesByRank
    <2> QED BY <2>2
  <1>6. ASSUME NEW k \in DOMAIN new PROVE added(k) = SeenOf(new[k])
    <2>1. job.merge # "strict" => corpus[i][k] = new[k].text
      BY <1>0, <1>1 DEF Texts
    <2> QED BY <1>2, <1>4, <2>1 DEF SeenOf
  <1> HIDE DEF added, new, kept, i
  <1>7. {added(kept[k]) : k \in DOMAIN kept} = {SeenOf(new[k]) : k \in Fresh(n)}
    <2>1. ASSUME NEW k \in DOMAIN kept PROVE \E m \in Fresh(n) : added(kept[k]) = SeenOf(new[m])
      BY <1>3, <1>5, <1>6
    <2>2. ASSUME NEW m \in Fresh(n) PROVE \E k \in DOMAIN kept : added(kept[k]) = SeenOf(new[m])
      BY <1>3, <1>5, <1>6
    <2> QED BY <2>1, <2>2
  <1>8. SeenUpTo(n + 1) = SeenUpTo(n) \cup {SeenOf(new[k]) : k \in Fresh(n)}
    BY <1>0, SeenGrows DEF new
  <1>9. SeenUpTo(n + 1) = seen \cup {added(kept[k]) : k \in DOMAIN kept}
    BY <1>0, <1>7, <1>8
  <1> QED BY <1>9 DEF added, kept, i

\* The kept rows of the member in work.
LEMMA KeptRows ==
  ASSUME NEW n, InWork(n), NEW c, c = Cardinality(Fresh(n))
  PROVE  /\ c \in Nat /\ DOMAIN Kept(n + 1) = 1..c /\ Kept(n + 1) = Places(Fresh(n))
         /\ \A k \in 1..c :
              /\ Kept(n + 1)[k] \in DOMAIN Tagged(n + 1) /\ Tagged(n + 1)[Kept(n + 1)[k]].member = n + 1
              /\ ident[n + 1][Kept(n + 1)[k]] = Tagged(n + 1)[Kept(n + 1)[k]].id
              /\ Tagged(n + 1)[Kept(n + 1)[k]].id \in RowIds
              /\ Tagged(n + 1)[Kept(n + 1)[k]].text \in RowTexts
              /\ job.merge = "dedupe" =>
                   corpus[n + 1][Kept(n + 1)[k]] = Tagged(n + 1)[Kept(n + 1)[k]].text
  <1> DEFINE new == Tagged(n + 1)  i == n + 1  kept == Kept(n + 1)
  <1>0. /\ job \in Jobs /\ n \in 0..N /\ n # N /\ N \in Nat /\ n \in Nat /\ n + 1 \in Nat /\ n + 1 <= N
        /\ n + 1 \in 1..(n + 1) /\ job.merge \in {"strict", "dedupe"} /\ seen = SeenUpTo(n)
    BY ArchiveRows DEF InWork
  <1>1. ident[i] = Ids(new) /\ (job.merge = "dedupe" => corpus[i] = Texts(new))
    BY Admitted
  <1>2. kept = Places(Fresh(n)) /\ \A k \in DOMAIN new : ident[i][k] = new[k].id
    BY <1>0, <1>1, KeptIsFresh
  <1>3. Fresh(n) \subseteq DOMAIN new
    BY DEF Fresh, FreshIn, FirstSet
  <1>4. new \in Seq(TaggedRows(n + 1)) /\ \A k \in DOMAIN new : new[k].member = i
    BY <1>0, TaggedSelected
  <1>5. c \in Nat /\ kept \in [1..c -> Fresh(n)]
    <2>1. IsFiniteSet(Fresh(n)) /\ Fresh(n) \in SUBSET Int
      BY <1>3, <1>4, PickRows
    <2> HIDE DEF new, kept
    <2> QED BY <1>2, <2>1, PlacesByRank
  <1>6. \A k \in DOMAIN new : new[k].id \in RowIds /\ new[k].text \in RowTexts
    <2>1. \A k \in DOMAIN new : new[k] \in TaggedRows(n + 1)
      <3> HIDE DEF new
      <3> QED BY <1>4
    <2> HIDE DEF new
    <2> QED BY <2>1 DEF TaggedRows
  <1>7. job.merge = "dedupe" => \A k \in DOMAIN new : corpus[i][k] = new[k].text
    BY <1>1 DEF Texts
  <1> HIDE DEF new, kept, i
  <1>8. \A k \in 1..c : kept[k] \in DOMAIN new
    BY <1>3, <1>5
  <1>9. /\ c \in Nat /\ DOMAIN kept = 1..c /\ kept = Places(Fresh(n))
    BY <1>2, <1>5
  <1>10. \A k \in 1..c :
              /\ kept[k] \in DOMAIN new /\ new[kept[k]].member = i
              /\ ident[i][kept[k]] = new[kept[k]].id
              /\ new[kept[k]].id \in RowIds
              /\ new[kept[k]].text \in RowTexts
              /\ job.merge = "dedupe" => corpus[i][kept[k]] = new[kept[k]].text
    BY <1>2, <1>4, <1>6, <1>7, <1>8
  <1> QED BY <1>9, <1>10 DEF new, kept, i

\* ... and the lines that the member adds to the identity map ...
LEMMA TransformedIdent ==
  ASSUME NEW n, InWork(n), NEW lines,
         lines = Numbered(ms.rows, n + 1, [k \in DOMAIN Kept(n + 1) |-> ident[n + 1][Kept(n + 1)[k]]])
  PROVE  /\ lines \in Seq(FileLines)
         /\ Merged("ident", n + 1) = Merged("ident", n) \o lines
  <1> DEFINE c == Cardinality(Fresh(n))
  <1>0. /\ job \in Jobs /\ n \in 0..N /\ n # N /\ n \in Nat /\ ms.rows = Count(n) /\ "ident" \in Files
    BY ArchiveRows DEF InWork, Files
  <1>1. /\ c \in Nat /\ DOMAIN Kept(n + 1) = 1..c /\ Kept(n + 1) = Places(Fresh(n))
        /\ \A k \in 1..c :
              /\ Tagged(n + 1)[Kept(n + 1)[k]].member = n + 1
              /\ ident[n + 1][Kept(n + 1)[k]] = Tagged(n + 1)[Kept(n + 1)[k]].id
              /\ Tagged(n + 1)[Kept(n + 1)[k]].id \in RowIds
    BY KeptRows
  <1>2. Count(n) \in Nat
    BY <1>0, MergedTyped
  <1> HIDE DEF c
  <1>3. lines = [k \in 1..c |-> [record |-> Count(n) + k, id |-> ident[n + 1][Kept(n + 1)[k]], member |-> n + 1]]
    BY <1>0, <1>1 DEF Numbered
  <1>4. \A k \in 1..c : lines[k] = Line("ident", Count(n) + k, Tagged(n + 1)[Places(Fresh(n))[k]])
    <2> TAKE k \in 1..c
    <2> DEFINE row == Tagged(n + 1)[Kept(n + 1)[k]]
    <2>1. row.member = n + 1 /\ row.id = ident[n + 1][Kept(n + 1)[k]]
      BY <1>1
    <2> HIDE DEF row
    <2>2. lines[k] = [record |-> Count(n) + k, id |-> row.id, member |-> row.member]
      BY <1>3, <2>1
    <2>3. lines[k] = Line("ident", Count(n) + k, row)
      BY <2>2 DEF Line
    <2> QED BY <1>1, <2>3 DEF row
  <1>5. \A k \in 1..c : [record |-> Count(n) + k, id |-> ident[n + 1][Kept(n + 1)[k]], member |-> n + 1] \in FileLines
    <2> TAKE k \in 1..c
    <2>1. Count(n) + k \in Nat /\ ident[n + 1][Kept(n + 1)[k]] \in RowIds /\ n + 1 \in Nat
      BY <1>0, <1>1, <1>2
    <2> QED BY <2>1 DEF FileLines
  <1>6. lines \in Seq(FileLines) /\ Len(lines) = c
    <2>1. \A k \in 1..c : lines[k] \in FileLines
      BY <1>3, <1>5
    <2>2. lines = [k \in 1..c |-> lines[k]]
      BY <1>3
    <2> QED BY <1>1, <2>1, <2>2
  <1>7. Merged("ident", n + 1) = Merged("ident", n) \o lines
    BY <1>0, <1>4, <1>6, MergedGrows DEF c
  <1> QED BY <1>6, <1>7

\* ... and, where the dedupe tool does it, to the corpus.
LEMMA TransformedCorpus ==
  ASSUME NEW n, InWork(n), job.merge = "dedupe", NEW lines,
         lines = [k \in DOMAIN Kept(n + 1) |-> corpus[n + 1][Kept(n + 1)[k]]]
  PROVE  /\ lines \in Seq(FileLines)
         /\ Merged("corpus", n + 1) = Merged("corpus", n) \o lines
  <1> DEFINE c == Cardinality(Fresh(n))
  <1>0. /\ job \in Jobs /\ n \in 0..N /\ n # N /\ n \in Nat /\ "corpus" \in Files
    BY ArchiveRows DEF InWork, Files
  <1>1. /\ c \in Nat /\ DOMAIN Kept(n + 1) = 1..c /\ Kept(n + 1) = Places(Fresh(n))
        /\ \A k \in 1..c :
              /\ corpus[n + 1][Kept(n + 1)[k]] = Tagged(n + 1)[Kept(n + 1)[k]].text
              /\ Tagged(n + 1)[Kept(n + 1)[k]].text \in RowTexts
    BY KeptRows
  <1> HIDE DEF c
  <1>3. lines = [k \in 1..c |-> corpus[n + 1][Kept(n + 1)[k]]]
    BY <1>1
  <1>4. \A k \in 1..c : lines[k] = Line("corpus", Count(n) + k, Tagged(n + 1)[Places(Fresh(n))[k]])
    BY <1>1, <1>3 DEF Line
  <1>5. \A k \in 1..c : corpus[n + 1][Kept(n + 1)[k]] \in FileLines
    BY <1>1 DEF FileLines
  <1>6. lines \in Seq(FileLines) /\ Len(lines) = c
    BY <1>1, <1>3, <1>5
  <1>7. Merged("corpus", n + 1) = Merged("corpus", n) \o lines
    BY <1>0, <1>4, <1>6, MergedGrows DEF c
  <1> QED BY <1>6, <1>7

-----------------------------------------------------------------------------
(* The steps of the tools that normalize.                                  *)

\* A step that leaves the files of the members alone, goes on, ends a run, or
\* begins a merge where no member is in work.
Quiet ==
  /\ UNCHANGED <<job, fileVars>> /\ crashes' \in 0..MaxCrashes /\ faults' \in 0..MaxFaults
  /\ \/ UNCHANGED <<tool, result, at, cursor, budget>>
     \/ \E how \in {"pass", "error", "progress", "killed"} : End(how)
     \/ /\ tool # "sliced" /\ tool' = "merge" /\ result' \in {result, "none"}
        /\ at' \in {at, [i \in Members |-> "idle"]} /\ UNCHANGED <<cursor, budget>>

\* A quiet step keeps what is known of the members.
LEMMA MembersKept ==
  ASSUME MembersInv, Quiet
  PROVE  MembersInv'
  <1>1. job' = job /\ corpus' = corpus /\ ident' = ident /\ marker' = marker /\ cut' = cut
    BY DEF Quiet, fileVars
  <1>2. /\ N' = N /\ Members' = Members /\ \A i, w : Selected(i, w)' = Selected(i, w) /\ Marker(i, w)' = Marker(i, w)
    BY <1>1, SameJob
  <1>3. /\ job' \in Jobs
        /\ corpus' \in [Members' -> FileStates] /\ ident' \in [Members' -> FileStates]
        /\ DOMAIN marker' = Members'
        /\ cut' \in [Members' -> [off : Int, eof : BOOLEAN, parts : Seq(Rows), stray : BOOLEAN]]
    BY <1>1, <1>2 DEF MembersInv, MembersTyped
  <1>4. /\ tool \in {"idle", "pool", "sliced", "merge"}
        /\ result \in {"none", "pass", "error", "progress", "killed"}
        /\ at \in [Members -> {"idle", "queued", "started", "corpus", "ident", "done", "failed"}]
        /\ budget \in 0..MaxRows
        /\ cursor \in Nat \X {"idle", "member", "slice", "ident", "marker"}
    BY DEF MembersInv, MembersTyped
  <1>5. CASE UNCHANGED <<tool, result, at, cursor, budget>>
    <2>1. MembersTyped'
      BY <1>2, <1>3, <1>4, <1>5 DEF MembersTyped, Quiet
    <2>2. PoolIsTrue' /\ CursorIsTrue'
      BY <1>1, <1>2, <1>5 DEF MembersInv, PoolIsTrue, CursorIsTrue, CorpusDone, IdentDone
    <2>3. MarkersAreTrue' /\ SlicesAreTrue'
      BY <1>1, <1>2 DEF MembersInv, MarkersAreTrue, SlicesAreTrue, Read, Lying
    <2> QED BY <2>1, <2>2, <2>3 DEF MembersInv
  <1>6. CASE \E how \in {"pass", "error", "progress", "killed"} : End(how)
    <2>0. /\ tool' = "idle" /\ result' \in {"pass", "error", "progress", "killed"}
          /\ at' = [i \in Members |-> "idle"] /\ cursor' = <<0, "idle">> /\ budget' = 0
      BY <1>6 DEF End
    <2>1. MembersTyped'
      <3>1. 0 \in 0..MaxRows
        BY MembersAssumption
      <3> QED BY <1>2, <1>3, <2>0, <3>1 DEF MembersTyped, Quiet
    <2>2. PoolIsTrue' /\ CursorIsTrue'
      BY <2>0 DEF PoolIsTrue, CursorIsTrue
    <2>3. MarkersAreTrue' /\ SlicesAreTrue'
      BY <1>1, <1>2 DEF MembersInv, MarkersAreTrue, SlicesAreTrue, Read, Lying
    <2> QED BY <2>1, <2>2, <2>3 DEF MembersInv
  <1>7. CASE /\ tool # "sliced" /\ tool' = "merge" /\ result' \in {result, "none"}
             /\ at' \in {at, [i \in Members |-> "idle"]} /\ UNCHANGED <<cursor, budget>>
    <2>1. MembersTyped'
      BY <1>2, <1>3, <1>4, <1>7 DEF MembersTyped, Quiet
    <2>2. PoolIsTrue' /\ CursorIsTrue'
      BY <1>4, <1>7 DEF PoolIsTrue, CursorIsTrue, MembersInv
    <2>3. MarkersAreTrue' /\ SlicesAreTrue'
      BY <1>1, <1>2 DEF MembersInv, MarkersAreTrue, SlicesAreTrue, Read, Lying
    <2> QED BY <2>1, <2>2, <2>3 DEF MembersInv
  <1> QED BY <1>5, <1>6, <1>7 DEF Quiet

\* The pool keeps what is known of the members.
LEMMA PoolKeepsMembers ==
  ASSUME MembersInv,
         \/ PoolBegin \/ PoolEnd
         \/ \E i \in Members : \/ TaskStart(i) \/ TaskCorpus(i) \/ TaskIdent(i) \/ TaskMarker(i)
                               \/ TaskFails(i) \/ Cancel(i)
  PROVE  MembersInv'
  <1> USE DEF MembersInv
  <1>1. CASE PoolEnd
    <2>1. \E how \in {"pass", "error", "progress", "killed"} : End(how)
      BY <1>1 DEF PoolEnd
    <2>2. UNCHANGED <<job, fileVars>> /\ crashes' \in 0..MaxCrashes /\ faults' \in 0..MaxFaults
      BY <1>1 DEF PoolEnd, MembersTyped
    <2> QED BY <2>1, <2>2, MembersKept DEF Quiet
  <1>2. CASE PoolBegin
    <2>0. /\ job' = job /\ corpus' = corpus /\ ident' = ident /\ marker' = marker /\ cut' = cut
          /\ cursor' = cursor /\ budget' = budget /\ crashes' = crashes /\ faults' = faults
          /\ tool = "idle" /\ tool' = "pool" /\ result' = "none"
          /\ at' = [i \in Members |-> IF ValidMarker(i) THEN "done" ELSE "queued"]
      BY <1>2 DEF PoolBegin, fileVars
    <2>1. Members' = Members /\ \A i, w : Selected(i, w)' = Selected(i, w) /\ Marker(i, w)' = Marker(i, w)
      BY <2>0, SameJob
    <2>2. MembersTyped'
      BY <2>0, <2>1 DEF MembersTyped
    <2>3. MarkersAreTrue' /\ SlicesAreTrue'
      BY <2>0, <2>1, ZenonT(40) DEF MarkersAreTrue, SlicesAreTrue, Read, Lying
    <2>4. CursorIsTrue'
      BY <2>0 DEF CursorIsTrue
    <2>5. ASSUME NEW i \in Members, at'[i] # "queued"
          PROVE  CorpusDone(i)' /\ IdentDone(i)'
      <3>1. ValidMarker(i)
        BY <2>0, <2>5
      <3>2. marker[i] = Marker(i, job.window)
        BY <3>1 DEF ValidMarker, MarkersAreTrue
      <3>3. corpus[i] = Texts(Selected(i, job.window)) /\ ident[i] = Ids(Selected(i, job.window))
        BY <3>1, <3>2 DEF ValidMarker, Marker
      <3> QED BY <2>0, <2>1, <3>3 DEF CorpusDone, IdentDone
    <2>6. PoolIsTrue'
      BY <2>1, <2>5 DEF PoolIsTrue
    <2> QED BY <2>2, <2>3, <2>4, <2>6
  <1>3. ASSUME NEW i \in Members,
               TaskStart(i) \/ TaskCorpus(i) \/ TaskIdent(i) \/ TaskMarker(i) \/ TaskFails(i) \/ Cancel(i)
        PROVE  MembersInv'
    <2>0. /\ job' = job /\ cut' = cut /\ tool' = tool /\ tool = "pool" /\ cursor' = cursor /\ budget' = budget
          /\ result' = result /\ crashes' = crashes
          /\ faults' = faults \/ (faults' = faults + 1 /\ faults < MaxFaults)
      <3>1. CASE TaskStart(i)
        BY <3>1 DEF TaskStart, fileVars
      <3>2. CASE TaskCorpus(i) \/ TaskIdent(i) \/ TaskMarker(i)
        BY <3>2 DEF TaskCorpus, TaskIdent, TaskMarker
      <3>3. CASE TaskFails(i)
        BY <3>3 DEF TaskFails, Fault, fileVars
      <3>4. CASE Cancel(i)
        BY <3>4 DEF Cancel, fileVars
      <3> QED BY <1>3, <3>1, <3>2, <3>3, <3>4
    <2>1. /\ Members' = Members
          /\ \A j, w : Selected(j, w)' = Selected(j, w) /\ Marker(j, w)' = Marker(j, w)
      BY <2>0, SameJob
    <2>2. SlicesAreTrue' /\ CursorIsTrue'
      <3>1. SlicesAreTrue'
        BY <2>0, <2>1, ZenonT(40) DEF SlicesAreTrue, Read, Lying
      <3>2. cursor[2] \notin {"slice", "ident", "marker"}
        BY <2>0 DEF CursorIsTrue
      <3> QED BY <2>0, <3>1, <3>2 DEF CursorIsTrue
    <2>3. /\ job' \in Jobs /\ tool' \in {"idle", "pool", "sliced", "merge"}
          /\ result' \in {"none", "pass", "error", "progress", "killed"}
          /\ budget' \in 0..MaxRows /\ crashes' \in 0..MaxCrashes /\ faults' \in 0..MaxFaults
          /\ cursor' \in Nat \X {"idle", "member", "slice", "ident", "marker"}
          /\ cut' \in [Members' -> [off : Int, eof : BOOLEAN, parts : Seq(Rows), stray : BOOLEAN]]
      <3>1. faults \in 0..MaxFaults /\ MaxFaults \in Nat
        BY MembersAssumption DEF MembersTyped
      <3>2. faults' \in 0..MaxFaults
        BY <2>0, <3>1
      <3> QED BY <2>0, <2>1, <3>2 DEF MembersTyped
    <2>4. /\ Texts(Selected(i, job.window)) \in FileStates /\ Ids(Selected(i, job.window)) \in FileStates
      <3>1. Texts(Selected(i, job.window)) \in Seq(RowTexts) /\ Ids(Selected(i, job.window)) \in Seq(RowIds)
        BY SelectedRows DEF MembersTyped
      <3>2. RowTexts \subseteq FileLines /\ RowIds \subseteq FileLines
        BY DEF FileLines
      <3> QED BY <3>1, <3>2 DEF FileStates
    <2>5. /\ corpus \in [Members -> FileStates] /\ ident \in [Members -> FileStates] /\ DOMAIN marker = Members
          /\ at \in [Members -> {"idle", "queued", "started", "corpus", "ident", "done", "failed"}]
      BY DEF MembersTyped
    <2>6. \A j \in Members : /\ at[j] \in {"corpus", "ident", "done"} => CorpusDone(j)
                             /\ at[j] \in {"ident", "done"} => IdentDone(j)
      BY <2>0 DEF PoolIsTrue
    <2>7. CASE \/ UNCHANGED fileVars /\ \E to \in {"started", "failed"} : at' = [at EXCEPT ![i] = to]
      <3>0. corpus' = corpus /\ ident' = ident /\ marker' = marker
        BY <2>7 DEF fileVars
      <3>1. MembersTyped'
        BY <2>1, <2>3, <2>5, <2>7, <3>0 DEF MembersTyped
      <3>2. MarkersAreTrue'
        BY <2>0, <2>1, <3>0 DEF MarkersAreTrue
      <3>3. PoolIsTrue'
        BY <2>0, <2>1, <2>5, <2>6, <2>7, <3>0 DEF PoolIsTrue, CorpusDone, IdentDone
      <3> QED BY <2>2, <3>1, <3>2, <3>3
    <2>8. CASE TaskCorpus(i)
      <3>0. /\ ident' = ident /\ marker' = marker
            /\ corpus' = [corpus EXCEPT ![i] = Texts(Selected(i, job.window))]
            /\ at' = [at EXCEPT ![i] = "corpus"]
        BY <2>8 DEF TaskCorpus
      <3>1. MembersTyped'
        BY <2>1, <2>3, <2>4, <2>5, <3>0 DEF MembersTyped
      <3>2. MarkersAreTrue'
        BY <2>0, <2>1, <3>0 DEF MarkersAreTrue
      <3>3. PoolIsTrue'
        BY <2>0, <2>1, <2>5, <2>6, <3>0 DEF PoolIsTrue, CorpusDone, IdentDone
      <3> QED BY <2>2, <3>1, <3>2, <3>3
    <2>9. CASE TaskIdent(i)
      <3>0. /\ corpus' = corpus /\ marker' = marker /\ at[i] = "corpus"
            /\ ident' = [ident EXCEPT ![i] = Ids(Selected(i, job.window))]
            /\ at' = [at EXCEPT ![i] = "ident"]
        BY <2>9 DEF TaskIdent
      <3>1. MembersTyped'
        BY <2>1, <2>3, <2>4, <2>5, <3>0 DEF MembersTyped
      <3>2. MarkersAreTrue'
        BY <2>0, <2>1, <3>0 DEF MarkersAreTrue
      <3>3. PoolIsTrue'
        BY <2>0, <2>1, <2>5, <2>6, <3>0 DEF PoolIsTrue, CorpusDone, IdentDone
      <3> QED BY <2>2, <3>1, <3>2, <3>3
    <2>10. CASE TaskMarker(i)
      <3>0. /\ corpus' = corpus /\ ident' = ident /\ at[i] = "ident"
            /\ marker' = [marker EXCEPT ![i] = Marker(i, job.window)]
            /\ at' = [at EXCEPT ![i] = "done"]
        BY <2>10 DEF TaskMarker
      <3>1. MembersTyped'
        BY <2>1, <2>3, <2>5, <3>0 DEF MembersTyped
      <3>2. MarkersAreTrue'
        BY <2>0, <2>1, <2>5, <3>0 DEF MarkersAreTrue
      <3>3. PoolIsTrue'
        BY <2>0, <2>1, <2>5, <2>6, <3>0 DEF PoolIsTrue, CorpusDone, IdentDone
      <3> QED BY <2>2, <3>1, <3>2, <3>3
    <2> QED BY <1>3, <2>7, <2>8, <2>9, <2>10 DEF TaskStart, TaskFails, Cancel
  <1> QED BY <1>1, <1>2, <1>3

\* The rows of one slice follow those of the slices before it.
SliceJoins(i, w, off, from, to) ==
  Pick(job.archive[i], Lying(i, w, 1, off)) \o Pick(job.archive[i], Lying(i, w, from, to))
    = Pick(job.archive[i], Lying(i, w, 1, to))

\* A slice adds the rows that it read.
LEMMA SliceAdds ==
  ASSUME job \in Jobs, NEW i \in Members, NEW off \in Nat, NEW to \in Nat, NEW from, NEW w,
         from = off + 1, off <= to, to <= Len(job.archive[i])
  PROVE  /\ SliceJoins(i, w, off, from, to)
         /\ Pick(job.archive[i], Lying(i, w, 1, off)) \in Seq(Rows)
         /\ Pick(job.archive[i], Lying(i, w, 1, 0)) = <<>>
  <1> DEFINE rows == job.archive[i]  S == Lying(i, w, 1, off)  T == Lying(i, w, from, to)
  <1>1. rows \in Seq(Rows) /\ Len(rows) \in Nat /\ DOMAIN rows = 1..Len(rows)
    <2>1. rows \in Seq(Rows)
      BY ArchiveRows
    <2> HIDE DEF rows
    <2> QED BY <2>1
  <1>2. /\ S \in SUBSET DOMAIN rows /\ T \in SUBSET DOMAIN rows /\ \A j \in S, k \in T : j < k
        /\ S \cup T = Lying(i, w, 1, to)
    <2>1. off \in 0..Len(rows) /\ to \in 0..Len(rows) /\ off <= to /\ from = off + 1
      BY <1>1
    <2> HIDE DEF rows
    <2>2. /\ 1..off \subseteq 1..Len(rows) /\ from..to \subseteq 1..Len(rows)
          /\ 1..to = (1..off) \cup (from..to)
          /\ \A j \in 1..off, k \in from..to : j < k
      BY <1>1, <2>1
    <2> QED BY <1>1, <2>2 DEF Lying
  <1>3. Lying(i, w, 1, 0) = {}
    BY DEF Lying
  <1> HIDE DEF rows, S, T
  <1>4. Pick(rows, S \cup T) = Pick(rows, S) \o Pick(rows, T) /\ Pick(rows, S) \in Seq(Rows)
    BY <1>1, <1>2, PickJoin, PickRows
  <1>5. Pick(rows, {}) = <<>>
    <2>1. Pick(rows, {}) \in Seq(Rows) /\ Len(Pick(rows, {})) = Cardinality({})
      BY <1>1, PickRows
    <2>2. Cardinality({}) = 0
      BY FS_EmptySet
    <2> QED BY <2>1, <2>2
  <1> QED BY <1>2, <1>3, <1>4, <1>5 DEF rows, S, T, SliceJoins

\* A step of the sliced tool at one member, whose slices and files it may change.
SliceStep(i) ==
  /\ tool = "sliced" /\ UNCHANGED <<job, crashes, faults>>
  /\ \/ tool' = "sliced" /\ UNCHANGED <<at, result>> /\ budget' \in 0..MaxRows
     \/ \E how \in {"pass", "error"} : End(how)
  /\ \A j \in Members \ {i} :
       cut'[j] = cut[j] /\ corpus'[j] = corpus[j] /\ ident'[j] = ident[j] /\ marker'[j] = marker[j]

\* What such a step leaves true.
LEMMA SliceStepKeeps ==
  ASSUME MembersInv, NEW i \in Members, SliceStep(i),
         cursor' \in Nat \X {"idle", "member", "slice", "ident", "marker"},
         corpus' \in [Members -> FileStates], ident' \in [Members -> FileStates],
         DOMAIN marker' = Members,
         cut' \in [Members -> [off : Int, eof : BOOLEAN, parts : Seq(Rows), stray : BOOLEAN]],
         marker'[i] = marker[i] \/ marker'[i] = Marker(i, job.window),
         /\ cut'[i].off \in -1..Len(job.archive[i])
         /\ cut'[i].off >= 0 => cut'[i].parts = Read(i, cut'[i].off)
         /\ cut'[i].off = -1 => cut'[i].parts = <<>>
         /\ cut'[i].eof => cut'[i].off = Len(job.archive[i])
  PROVE  MembersTyped' /\ MarkersAreTrue' /\ SlicesAreTrue' /\ PoolIsTrue'
  <1> USE DEF MembersInv
  <1>1. /\ job' = job /\ Members' = Members
        /\ \A j, w : Selected(j, w)' = Selected(j, w) /\ Marker(j, w)' = Marker(j, w)
    BY SameJob DEF SliceStep
  <1>2. /\ tool' \in {"idle", "sliced"}
        /\ result' \in {"none", "pass", "error", "progress", "killed"}
        /\ at' \in [Members -> {"idle", "queued", "started", "corpus", "ident", "done", "failed"}]
        /\ budget' \in 0..MaxRows
    BY MembersAssumption, SMTT(20) DEF SliceStep, End, MembersTyped
  <1>3. MembersTyped'
    BY <1>1, <1>2 DEF MembersTyped, SliceStep
  <1>4. MarkersAreTrue'
    <2> SUFFICES ASSUME NEW j \in Members, marker'[j] # Absent, marker'[j].window = job.window
                 PROVE  marker'[j] = Marker(j, job.window)
      BY <1>1 DEF MarkersAreTrue
    <2>1. CASE j = i
      BY <2>1 DEF MarkersAreTrue
    <2>2. CASE j # i
      BY <2>2 DEF MarkersAreTrue, SliceStep
    <2> QED BY <2>1, <2>2
  <1>5. SlicesAreTrue'
    <2>1. \A j, k : Read(j, k)' = Read(j, k)
      BY <1>1 DEF Read, Lying
    <2> SUFFICES ASSUME NEW j \in Members
                 PROVE  /\ cut'[j].off \in -1..Len(job.archive[j])
                        /\ cut'[j].off >= 0 => cut'[j].parts = Read(j, cut'[j].off)
                        /\ cut'[j].off = -1 => cut'[j].parts = <<>>
                        /\ cut'[j].eof => cut'[j].off = Len(job.archive[j])
      BY <1>1, <2>1 DEF SlicesAreTrue
    <2>2. CASE j = i
      BY <2>2
    <2>3. CASE j # i
      BY <2>3 DEF SlicesAreTrue, SliceStep
    <2> QED BY <2>2, <2>3
  <1>6. PoolIsTrue'
    BY <1>2 DEF PoolIsTrue
  <1> QED BY <1>3, <1>4, <1>5, <1>6

\* The sliced tool keeps what is known of the members.
LEMMA SlicedKeepsMembers ==
  ASSUME MembersInv,
         \/ SlicedBegin \/ SlicedEnd
         \/ \E i \in Members :
              \/ SliceSkip(i) \/ SliceExtract(i) \/ SliceRead(i)
              \/ \E taken \in 0..MaxRows, eof \in BOOLEAN : SliceCommit(i, taken, eof)
              \/ SliceMerge(i) \/ SliceIdent(i) \/ SliceMarker(i)
  PROVE  MembersInv'
  <1> USE DEF MembersInv
  <1>0. /\ job \in Jobs /\ N \in Nat /\ Members = 1..N /\ N = Len(job.archive)
        /\ corpus \in [Members -> FileStates] /\ ident \in [Members -> FileStates]
        /\ DOMAIN marker = Members /\ budget \in 0..MaxRows /\ MaxRows \in Nat
        /\ cut \in [Members -> [off : Int, eof : BOOLEAN, parts : Seq(Rows), stray : BOOLEAN]]
        /\ \A i \in Members : Len(job.archive[i]) \in Nat
    <2>1. job \in Jobs
      BY DEF MembersTyped
    <2>2. \A i \in Members : Len(job.archive[i]) \in Nat
      <3> TAKE i \in Members
      <3>1. job.archive[i] \in Seq(Rows)
        BY <2>1, ArchiveRows
      <3> QED BY <3>1
    <2>3. N \in Nat /\ Members = 1..N /\ N = Len(job.archive)
      BY <2>1, ArchiveRows DEF N
    <2> QED BY <2>1, <2>2, <2>3, MembersAssumption DEF MembersTyped
  <1>1. CASE SlicedEnd
    <2>1. \E how \in {"pass", "error", "progress", "killed"} : End(how)
      BY <1>1 DEF SlicedEnd
    <2>2. UNCHANGED <<job, fileVars>> /\ crashes' \in 0..MaxCrashes /\ faults' \in 0..MaxFaults
      BY <1>1 DEF SlicedEnd, MembersTyped
    <2> QED BY <2>1, <2>2, MembersKept DEF Quiet
  <1>2. CASE SlicedBegin
    <2>0. /\ job' = job /\ corpus' = corpus /\ ident' = ident /\ marker' = marker /\ cut' = cut
          /\ at' = at /\ crashes' = crashes /\ faults' = faults
          /\ tool' = "sliced" /\ result' = "none" /\ cursor' = <<1, "member">> /\ budget' = MaxRows
      BY <1>2 DEF SlicedBegin, fileVars
    <2>1. Members' = Members /\ \A i, w : Selected(i, w)' = Selected(i, w) /\ Marker(i, w)' = Marker(i, w)
      BY <2>0, SameJob
    <2>2. MembersTyped'
      <3>1. budget' \in 0..MaxRows
        BY <1>0, <2>0
      <3>2. cursor' \in Nat \X {"idle", "member", "slice", "ident", "marker"}
        BY <2>0
      <3>3. tool' \in {"idle", "pool", "sliced", "merge"}
            /\ result' \in {"none", "pass", "error", "progress", "killed"}
        BY <2>0
      <3> QED BY <2>0, <2>1, <3>1, <3>2, <3>3 DEF MembersTyped
    <2>3. MarkersAreTrue' /\ SlicesAreTrue'
      BY <2>0, <2>1, ZenonT(40) DEF MarkersAreTrue, SlicesAreTrue, Read, Lying
    <2>4. CursorIsTrue' /\ PoolIsTrue'
      BY <2>0 DEF CursorIsTrue, PoolIsTrue
    <2> QED BY <2>2, <2>3, <2>4
  <1>3. ASSUME NEW i \in Members,
               \/ SliceSkip(i) \/ SliceExtract(i) \/ SliceRead(i)
               \/ \E taken \in 0..MaxRows, eof \in BOOLEAN : SliceCommit(i, taken, eof)
               \/ SliceMerge(i) \/ SliceIdent(i) \/ SliceMarker(i)
        PROVE  MembersInv'
    <2>0. /\ i \in Nat /\ i + 1 \in Nat
          /\ cut[i].off \in -1..Len(job.archive[i]) /\ Len(job.archive[i]) \in Nat
          /\ cut[i].off >= 0 => cut[i].parts = Read(i, cut[i].off)
          /\ cut[i].off = -1 => cut[i].parts = <<>>
          /\ cut[i].eof => cut[i].off = Len(job.archive[i])
          /\ cut[i] \in [off : Int, eof : BOOLEAN, parts : Seq(Rows), stray : BOOLEAN]
      <3>1. i \in Nat /\ i + 1 \in Nat
        BY <1>0
      <3>2. Len(job.archive[i]) \in Nat
        BY <1>0
      <3>3. cut[i] \in [off : Int, eof : BOOLEAN, parts : Seq(Rows), stray : BOOLEAN]
        BY <1>0
      <3>4. /\ cut[i].off \in -1..Len(job.archive[i])
            /\ cut[i].off >= 0 => cut[i].parts = Read(i, cut[i].off)
            /\ cut[i].off = -1 => cut[i].parts = <<>>
            /\ cut[i].eof => cut[i].off = Len(job.archive[i])
        BY Zenon DEF MembersInv, SlicesAreTrue
      <3> QED BY <3>1, <3>2, <3>3, <3>4
    <2>1. Read(i, Len(job.archive[i])) = Selected(i, job.window)
      BY DEF Read, Selected
    <2>2. /\ Texts(Selected(i, job.window)) \in FileStates /\ Ids(Selected(i, job.window)) \in FileStates
      <3>1. Texts(Selected(i, job.window)) \in Seq(RowTexts) /\ Ids(Selected(i, job.window)) \in Seq(RowIds)
        BY SelectedRows DEF MembersTyped
      <3>2. RowTexts \subseteq FileLines /\ RowIds \subseteq FileLines
        BY DEF FileLines
      <3> QED BY <3>1, <3>2 DEF FileStates
    <2> DEFINE Kinds == {"idle", "member", "slice", "ident", "marker"}
               Cuts == [Members -> [off : Int, eof : BOOLEAN, parts : Seq(Rows), stray : BOOLEAN]]
               CutTrue == /\ cut'[i].off \in -1..Len(job.archive[i])
                          /\ cut'[i].off >= 0 => cut'[i].parts = Read(i, cut'[i].off)
                          /\ cut'[i].off = -1 => cut'[i].parts = <<>>
                          /\ cut'[i].eof => cut'[i].off = Len(job.archive[i])
               MarkerTrue == marker'[i] = marker[i] \/ marker'[i] = Marker(i, job.window)
    <2>3. ASSUME SliceStep(i), cursor' \in Nat \X Kinds, corpus' \in [Members -> FileStates],
                 ident' \in [Members -> FileStates], DOMAIN marker' = Members, cut' \in Cuts, CutTrue, MarkerTrue,
                 CursorIsTrue'
          PROVE  MembersInv'
      BY <2>3, SliceStepKeeps
    <2>4. job' = job => /\ Members' = Members
                        /\ \A j, w : Selected(j, w)' = Selected(j, w) /\ Marker(j, w)' = Marker(j, w)
      BY SameJob
    <2>5. \A where : Go(i, where) \/ Go(i + 1, where) => UNCHANGED <<tool, at, result>>
      BY DEF Go
    <2> HIDE DEF Cuts, CutTrue, MarkerTrue
    <2>6. CASE SliceSkip(i)
      <3>0. /\ tool = "sliced" /\ job' = job /\ cut' = [cut EXCEPT ![i] = NoSlices]
            /\ cursor' = <<i + 1, "member">> /\ corpus' = corpus /\ ident' = ident /\ marker' = marker
            /\ budget' = budget /\ crashes' = crashes /\ faults' = faults /\ tool' = tool /\ at' = at
            /\ result' = result
        BY <2>6 DEF SliceSkip, Cursor, Go
      <3>1. SliceStep(i)
        BY <1>0, <3>0 DEF SliceStep
      <3>2. NoSlices \in [off : Int, eof : BOOLEAN, parts : Seq(Rows), stray : BOOLEAN]
        BY DEF NoSlices
      <3>3. cut' \in Cuts /\ CutTrue /\ MarkerTrue
        BY <1>0, <2>0, <3>0, <3>2 DEF NoSlices, Cuts, CutTrue, MarkerTrue
      <3>4. CursorIsTrue'
        BY <3>0 DEF CursorIsTrue
      <3>5. cursor' \in Nat \X Kinds
        BY <2>0, <3>0
      <3> QED BY <1>0, <2>3, <3>0, <3>1, <3>3, <3>4, <3>5
    <2>7. CASE SliceExtract(i)
      <3>0. /\ tool = "sliced" /\ job' = job /\ cut' = [cut EXCEPT ![i].off = 0] /\ cut[i] = NoSlices
            /\ cursor' = <<i, "member">> /\ corpus' = corpus /\ ident' = ident /\ marker' = marker
            /\ budget' = budget /\ crashes' = crashes /\ faults' = faults /\ tool' = tool /\ at' = at
            /\ result' = result
        BY <2>7 DEF SliceExtract, Cursor, Go
      <3>1. SliceStep(i)
        BY <1>0, <3>0 DEF SliceStep
      <3>2. Read(i, 0) = <<>>
        <4>1. 0 \in Nat /\ 1 = 0 + 1 /\ 0 <= 0 /\ 0 <= Len(job.archive[i])
          BY <2>0
        <4> QED BY <1>0, <4>1, SliceAdds DEF Read
      <3>3. cut'[i] = [off |-> 0, eof |-> FALSE, parts |-> <<>>, stray |-> FALSE]
        <4>1. cut'[i] = [NoSlices EXCEPT !.off = 0]
          BY <1>0, <3>0
        <4> QED BY <4>1 DEF NoSlices
      <3>4. cut' \in Cuts /\ CutTrue /\ MarkerTrue
        <4>1. cut'[i].off = 0 /\ cut'[i].parts = <<>> /\ cut'[i].eof = FALSE
          BY <3>3
        <4>2. CutTrue
          BY <2>0, <3>2, <4>1 DEF CutTrue
        <4>3. cut'[i] \in [off : Int, eof : BOOLEAN, parts : Seq(Rows), stray : BOOLEAN]
          BY <3>3
        <4>4. cut' = [cut EXCEPT ![i] = cut'[i]]
          BY <1>0, <3>0
        <4>5. cut' \in Cuts
          BY <1>0, <4>3, <4>4 DEF Cuts
        <4> QED BY <3>0, <4>2, <4>5 DEF MarkerTrue
      <3>5. CursorIsTrue'
        BY <3>0 DEF CursorIsTrue
      <3>6. cursor' \in Nat \X Kinds
        BY <2>0, <3>0
      <3> QED BY <1>0, <2>3, <3>0, <3>1, <3>4, <3>5, <3>6
    <2>8. CASE SliceRead(i)
      <3>0. /\ tool = "sliced" /\ job' = job /\ cut[i].off >= 0
            /\ corpus' = corpus /\ ident' = ident /\ marker' = marker
            /\ crashes' = crashes /\ faults' = faults
        BY <2>8 DEF SliceRead, Cursor
      <3>1. CASE cut[i].stray
        <4>0. End("error") /\ cut' = cut
          BY <2>8, <3>1 DEF SliceRead
        <4>1. SliceStep(i)
          BY <3>0, <4>0 DEF SliceStep
        <4>2. cursor' = <<0, "idle">>
          BY <4>0 DEF End
        <4>3. CutTrue /\ MarkerTrue /\ cut' \in Cuts /\ CursorIsTrue' /\ cursor' \in Nat \X Kinds
          BY <1>0, <2>0, <3>0, <4>0, <4>2 DEF CutTrue, MarkerTrue, Cuts, CursorIsTrue
        <4> QED BY <1>0, <2>3, <3>0, <4>1, <4>3
      <3>2. CASE ~cut[i].stray
        <4>0. /\ cut' = [cut EXCEPT ![i].stray = TRUE] /\ cursor' = <<i, "slice">> /\ budget' = budget
              /\ tool' = tool /\ at' = at /\ result' = result
          BY <2>8, <3>2 DEF SliceRead, Go
        <4>1. SliceStep(i)
          BY <1>0, <3>0, <4>0 DEF SliceStep
        <4>2. CutTrue /\ MarkerTrue /\ cut' \in Cuts /\ cursor' \in Nat \X Kinds
          BY <1>0, <2>0, <3>0, <4>0 DEF CutTrue, MarkerTrue, Cuts
        <4>3. cut'[i].off >= 0
          BY <1>0, <3>0, <4>0
        <4>4. CursorIsTrue'
          BY <2>4, <3>0, <4>0, <4>3 DEF CursorIsTrue
        <4> QED BY <1>0, <2>3, <3>0, <4>1, <4>2, <4>4
      <3> QED BY <3>1, <3>2
    <2>9. ASSUME NEW taken \in 0..MaxRows, NEW eof \in BOOLEAN, SliceCommit(i, taken, eof)
          PROVE  MembersInv'
      <3> DEFINE off == cut[i].off
                 new == [off |-> off + taken, eof |-> eof,
                         parts |-> cut[i].parts \o Pick(job.archive[i], Lying(i, job.window, off + 1, off + taken)),
                         stray |-> FALSE]
      <3>0. /\ tool = "sliced" /\ cursor = <<i, "slice">> /\ job' = job
            /\ corpus' = corpus /\ ident' = ident /\ marker' = marker
            /\ crashes' = crashes /\ faults' = faults
            /\ taken <= Len(job.archive[i]) - off /\ taken <= budget
            /\ eof => taken = Len(job.archive[i]) - off
            /\ cut' = [cut EXCEPT ![i] = new]
        BY <2>9 DEF SliceCommit, Cursor
      <3>1. off >= 0
        BY <3>0 DEF CursorIsTrue
      <3>2. /\ off \in Nat /\ taken \in Nat /\ off + taken <= Len(job.archive[i])
            /\ off + taken \in -1..Len(job.archive[i]) /\ off + taken >= 0
            /\ budget - taken \in 0..MaxRows
            /\ eof => off + taken = Len(job.archive[i])
        BY <1>0, <2>0, <3>0, <3>1, SMTT(20)
      <3> HIDE DEF off
      <3>3. new.parts = Read(i, off + taken) /\ new.parts \in Seq(Rows)
        <4>1. cut[i].parts = Read(i, off)
          BY <2>0, <3>1 DEF off
        <4>2. Read(i, off + taken) = Read(i, off) \o Pick(job.archive[i], Lying(i, job.window, off + 1, off + taken))
          <5> DEFINE from == off + 1  to == off + taken
          <5>1. from = off + 1 /\ to \in Nat /\ off <= to /\ to <= Len(job.archive[i])
            BY <3>2
          <5> HIDE DEF from, to
          <5>2. SliceJoins(i, job.window, off, from, to)
            BY <1>0, <3>2, <5>1, SliceAdds
          <5> QED BY <5>2 DEF SliceJoins, Read, from, to
        <4>3. Read(i, off + taken) \in Seq(Rows)
          <5> DEFINE to == off + taken
          <5>1. to \in Nat /\ to + 1 = to + 1 /\ to <= to /\ to <= Len(job.archive[i])
            BY <3>2
          <5> HIDE DEF to
          <5>2. Pick(job.archive[i], Lying(i, job.window, 1, to)) \in Seq(Rows)
            BY <1>0, <5>1, SliceAdds
          <5> QED BY <5>2 DEF Read, to
        <4> QED BY <4>1, <4>2, <4>3
      <3>4. cut'[i] = new /\ new.off = off + taken /\ new.eof = eof
        BY <1>0, <3>0
      <3>5. new \in [off : Int, eof : BOOLEAN, parts : Seq(Rows), stray : BOOLEAN]
        BY <3>2, <3>3
      <3> HIDE DEF new
      <3>6. CutTrue
        BY <3>2, <3>3, <3>4, <2>0 DEF CutTrue
      <3>7. MarkerTrue /\ cut' \in Cuts
        BY <1>0, <3>0, <3>5 DEF MarkerTrue, Cuts
      <3>8. \/ tool' = "sliced" /\ UNCHANGED <<at, result>> /\ budget' = budget - taken
               /\ \E next \in {i, i + 1} : cursor' = <<next, "member">>
            \/ End("pass")
        BY <2>9, <3>0 DEF SliceCommit, Go
      <3>9. SliceStep(i)
        <4>1. \A j \in Members \ {i} : cut'[j] = cut[j]
          BY <1>0, <3>0
        <4> QED BY <3>0, <3>2, <3>8, <4>1 DEF SliceStep
      <3>10. cursor' \in Nat \X Kinds /\ cursor'[2] \notin {"slice", "ident", "marker"}
        BY <2>0, <3>8 DEF End
      <3>11. CursorIsTrue'
        BY <3>10 DEF CursorIsTrue
      <3> QED BY <1>0, <2>3, <3>0, <3>6, <3>7, <3>9, <3>10, <3>11
    <2>10. CASE SliceMerge(i)
      <3>0. /\ tool = "sliced" /\ job' = job /\ cut[i].eof
            /\ ident' = ident /\ marker' = marker /\ cut' = cut
            /\ crashes' = crashes /\ faults' = faults
        BY <2>10 DEF SliceMerge, Cursor
      <3>1. CASE marker[i] # Absent
        <4>0. End("error") /\ corpus' = corpus
          BY <2>10, <3>1 DEF SliceMerge
        <4>1. SliceStep(i)
          BY <3>0, <4>0 DEF SliceStep
        <4>2. cursor' = <<0, "idle">>
          BY <4>0 DEF End
        <4>3. CutTrue /\ MarkerTrue /\ cut' \in Cuts /\ CursorIsTrue' /\ cursor' \in Nat \X Kinds
          BY <1>0, <2>0, <3>0, <4>0, <4>2 DEF CutTrue, MarkerTrue, Cuts, CursorIsTrue
        <4> QED BY <1>0, <2>3, <3>0, <4>0, <4>1, <4>3
      <3>2. CASE marker[i] = Absent
        <4>0. /\ corpus' = [corpus EXCEPT ![i] = Texts(cut[i].parts)] /\ cursor' = <<i, "ident">>
              /\ budget' = budget /\ tool' = tool /\ at' = at /\ result' = result
          BY <2>10, <3>2 DEF SliceMerge, Go
        <4>1. SliceStep(i)
          BY <1>0, <3>0, <4>0 DEF SliceStep
        <4>2. cut[i].off = Len(job.archive[i]) /\ cut[i].parts = Selected(i, job.window)
          BY <2>0, <2>1, <3>0
        <4>3. corpus'[i] = Texts(Selected(i, job.window)) /\ corpus' \in [Members -> FileStates]
          BY <1>0, <2>2, <4>0, <4>2
        <4>4. CutTrue /\ MarkerTrue /\ cut' \in Cuts /\ cursor' \in Nat \X Kinds
          BY <1>0, <2>0, <3>0, <4>0 DEF CutTrue, MarkerTrue, Cuts
        <4>5. CursorIsTrue'
          BY <2>4, <3>0, <4>0, <4>2, <4>3 DEF CursorIsTrue, CorpusDone
        <4> QED BY <1>0, <2>3, <3>0, <4>1, <4>3, <4>4, <4>5
      <3> QED BY <3>1, <3>2
    <2>11. CASE SliceIdent(i)
      <3>0. /\ tool = "sliced" /\ job' = job /\ cursor = <<i, "ident">>
            /\ corpus' = corpus /\ marker' = marker /\ cut' = cut
            /\ crashes' = crashes /\ faults' = faults
            /\ ident' = [ident EXCEPT ![i] = Ids(cut[i].parts)] /\ cursor' = <<i, "marker">>
            /\ budget' = budget /\ tool' = tool /\ at' = at /\ result' = result
        BY <2>11 DEF SliceIdent, Cursor, Go
      <3>1. SliceStep(i)
        BY <1>0, <3>0 DEF SliceStep
      <3>2. cut[i].off = Len(job.archive[i]) /\ CorpusDone(i)
        BY <3>0 DEF CursorIsTrue
      <3>3. cut[i].parts = Selected(i, job.window)
        BY <2>0, <2>1, <3>2
      <3>4. ident'[i] = Ids(Selected(i, job.window)) /\ ident' \in [Members -> FileStates]
        BY <1>0, <2>2, <3>0, <3>3
      <3>5. CutTrue /\ MarkerTrue /\ cut' \in Cuts /\ cursor' \in Nat \X Kinds
        BY <1>0, <2>0, <3>0 DEF CutTrue, MarkerTrue, Cuts
      <3>6. CursorIsTrue'
        BY <2>4, <3>0, <3>2, <3>4 DEF CursorIsTrue, CorpusDone, IdentDone
      <3> QED BY <1>0, <2>3, <3>0, <3>1, <3>4, <3>5, <3>6
    <2>12. CASE SliceMarker(i)
      <3>0. /\ tool = "sliced" /\ job' = job /\ cursor = <<i, "marker">>
            /\ corpus' = corpus /\ ident' = ident /\ cut' = cut
            /\ crashes' = crashes /\ faults' = faults
            /\ marker' = [marker EXCEPT ![i] = [window |-> job.window, corpus |-> corpus[i], ident |-> ident[i]]]
            /\ \/ budget' = budget /\ tool' = tool /\ at' = at /\ result' = result /\ cursor' = <<i, "member">>
               \/ End("pass")
        BY <2>12 DEF SliceMarker, Cursor, Go
      <3>1. SliceStep(i)
        BY <1>0, <3>0 DEF SliceStep
      <3>2. CorpusDone(i) /\ IdentDone(i)
        BY <3>0 DEF CursorIsTrue
      <3>3. marker'[i] = Marker(i, job.window) /\ DOMAIN marker' = Members
        BY <1>0, <3>0, <3>2 DEF CorpusDone, IdentDone, Marker
      <3>4. CutTrue /\ MarkerTrue /\ cut' \in Cuts
        BY <1>0, <2>0, <3>0, <3>3 DEF CutTrue, MarkerTrue, Cuts
      <3>5. cursor' \in Nat \X Kinds /\ cursor'[2] \notin {"slice", "ident", "marker"}
        BY <2>0, <3>0 DEF End
      <3>6. CursorIsTrue'
        BY <3>5 DEF CursorIsTrue
      <3> QED BY <1>0, <2>3, <3>0, <3>1, <3>3, <3>4, <3>5, <3>6
    <2> QED BY <1>3, <2>6, <2>7, <2>8, <2>9, <2>10, <2>11, <2>12
  <1> QED BY <1>1, <1>2, <1>3

\* Counts stay while the job does.
LEMMA SameCount ==
  ASSUME job' = job
  PROVE  \A n : Count(n)' = Count(n)
  <1>1. \A n : RowsUpTo(n)' = RowsUpTo(n)
    BY SameJob
  <1> QED BY <1>1 DEF Count

\* Between runs nothing is in work.
LEMMA NothingInWork ==
  ASSUME Where' = "none", tool' # "merge"
  PROVE  WorkInv'
  <1>1. stage'[1] = "none"
    BY DEF Where
  <1>2. WorkMatches'
    BY <1>1 DEF WorkMatches, Where, MergeStages
  <1>3. MemberInWork'
    <2>1. stage' \notin {<<"recover", "ident">>, <<"append", "corpus">>, <<"append", "ident">>}
      BY <1>1
    <2> QED BY <1>1, <2>1 DEF MemberInWork, Where
  <1>4. EndInWork'
    BY <1>1 DEF EndInWork, Where
  <1> QED BY <1>2, <1>3, <1>4 DEF WorkInv

\* Where the files of the merge stay, so does what they hold.
LEMMA DurableKept ==
  ASSUME DurableIsTrue, job' = job, UNCHANGED mergeFiles
  PROVE  DurableIsTrue'
  <1>1. ms' = ms /\ part' = part /\ seen' = seen /\ out' = out
    BY DEF mergeFiles
  <1>2. /\ N' = N /\ AllRows' = AllRows /\ \A n : RowsUpTo(n)' = RowsUpTo(n)
        /\ \A f, n : Merged(f, n)' = Merged(f, n)
        /\ \A f : Expected(f)' = Expected(f)
        /\ \A n : SeenUpTo(n)' = SeenUpTo(n)
        /\ \A rows : Ambiguous(rows)' <=> Ambiguous(rows)
        /\ \A n : Count(n)' = Count(n)
    BY SameJob, SameCount
  <1>3. Committed' = Committed
    BY <1>1 DEF Committed
  <1>4. ASSUME NEW f \in Files, ms # Absent, PartIsTrue(f) PROVE PartIsTrue(f)'
    BY <1>1, <1>2, <1>4 DEF PartIsTrue
  <1>5. ASSUME NEW f \in Files, ResultIsTrue(f) PROVE ResultIsTrue(f)'
    BY <1>1, <1>2, <1>5 DEF ResultIsTrue
  <1>6. ms # Absent => /\ ms.rows = Count(ms.next)' /\ ~Ambiguous(RowsUpTo(ms.next))'
                       /\ SeenUpTo(ms.next)' = SeenUpTo(ms.next)
    BY <1>1, <1>2 DEF DurableIsTrue
  <1> QED BY <1>1, <1>2, <1>3, <1>4, <1>5, <1>6 DEF DurableIsTrue, NoneExist, Exist

\* Where the files of the merge stay, so do their types.
LEMMA MergeTypedKept ==
  ASSUME MergeTyped, job' = job, UNCHANGED mergeFiles,
         batch' \in [Files -> Seq(FileLines)],
         stage' \in StageKinds \X Files /\ (stage'[2] = "corpus" \/ stage'[1] \in TwoFiles)
  PROVE  MergeTyped'
  <1>1. ms' = ms /\ part' = part /\ out' = out
    BY DEF mergeFiles
  <1>2. N' = N /\ AllRows' = AllRows
    BY SameJob
  <1>3. MergeStates' = MergeStates
    BY <1>2 DEF MergeStates
  <1> QED BY <1>1, <1>3 DEF MergeTyped

\* A step of the members leaves the merge as it is.
LEMMA MergeKept ==
  ASSUME MergeInv, job' = job, UNCHANGED <<mergeFiles, batch, stage>>, tool # "merge", tool' # "merge"
  PROVE  MergeTyped' /\ DurableIsTrue' /\ WorkInv'
  <1>1. MergeTyped /\ DurableIsTrue /\ WorkInv
    BY DEF MergeInv
  <1>2. Where = "none"
    BY <1>1 DEF WorkInv, WorkMatches
  <1>3. Where' = "none"
    BY <1>2 DEF Where
  <1>4. MergeTyped'
    BY <1>1, MergeTypedKept DEF MergeTyped
  <1> QED BY <1>1, <1>3, <1>4, NothingInWork, DurableKept

\* The steps of the members, and what is lost of their files.
LEMMA MembersStep ==
  ASSUME MergeInv,
         \/ (MemberStep \/ PoolBegin \/ SlicedBegin) /\ UNCHANGED <<mergeFiles, batch, stage>>
         \/ \E i \in Members : Damage(i)
  PROVE  MergeInv'
  <1>1. CASE (MemberStep \/ PoolBegin \/ SlicedBegin) /\ UNCHANGED <<mergeFiles, batch, stage>>
    <2>1. job' = job /\ tool # "merge" /\ tool' # "merge"
      <3>1. CASE PoolEnd \/ SlicedEnd \/ PoolBegin \/ SlicedBegin
        BY <3>1 DEF PoolEnd, SlicedEnd, PoolBegin, SlicedBegin, End, Cursor
      <3>2. ASSUME NEW i \in Members,
                   \/ TaskStart(i) \/ TaskCorpus(i) \/ TaskIdent(i) \/ TaskMarker(i)
                   \/ TaskFails(i) \/ Cancel(i)
            PROVE  job' = job /\ tool # "merge" /\ tool' # "merge"
        BY <3>2 DEF TaskStart, TaskCorpus, TaskIdent, TaskMarker, TaskFails, Cancel
      <3>3. ASSUME NEW i \in Members, SliceSkip(i) \/ SliceExtract(i) \/ SliceRead(i)
            PROVE  job' = job /\ tool # "merge" /\ tool' # "merge"
        BY <3>3 DEF SliceSkip, SliceExtract, SliceRead, Cursor, Go, End
      <3>4. ASSUME NEW i \in Members, NEW taken \in 0..MaxRows, NEW eof \in BOOLEAN, SliceCommit(i, taken, eof)
            PROVE  job' = job /\ tool # "merge" /\ tool' # "merge"
        BY <3>4 DEF SliceCommit, Cursor, Go, End
      <3>5. ASSUME NEW i \in Members, SliceMerge(i) \/ SliceIdent(i) \/ SliceMarker(i)
            PROVE  job' = job /\ tool # "merge" /\ tool' # "merge"
        BY <3>5 DEF SliceMerge, SliceIdent, SliceMarker, Cursor, Go, End
      <3> QED BY <1>1, <3>1, <3>2, <3>3, <3>4, <3>5 DEF MemberStep
    <2>2. MembersInv'
      <3>1. CASE \/ PoolBegin \/ PoolEnd
                 \/ \E i \in Members : \/ TaskStart(i) \/ TaskCorpus(i) \/ TaskIdent(i) \/ TaskMarker(i)
                                       \/ TaskFails(i) \/ Cancel(i)
        BY <3>1, PoolKeepsMembers DEF MergeInv
      <3>2. CASE \/ SlicedBegin \/ SlicedEnd
                 \/ \E i \in Members :
                      \/ SliceSkip(i) \/ SliceExtract(i) \/ SliceRead(i)
                      \/ \E taken \in 0..MaxRows, eof \in BOOLEAN : SliceCommit(i, taken, eof)
                      \/ SliceMerge(i) \/ SliceIdent(i) \/ SliceMarker(i)
        BY <3>2, SlicedKeepsMembers DEF MergeInv
      <3> QED BY <1>1, <3>1, <3>2 DEF MemberStep
    <2> QED BY <1>1, <2>1, <2>2, MergeKept DEF MergeInv
  <1>2. ASSUME NEW i \in Members, Damage(i)
        PROVE  MergeInv'
    <2>0. /\ job' = job /\ marker' = marker /\ cut' = cut /\ tool' = tool /\ tool = "idle"
          /\ at' = at /\ cursor' = cursor /\ budget' = budget /\ result' = result /\ crashes' = crashes
          /\ faults < MaxFaults /\ faults' = faults + 1
          /\ UNCHANGED <<mergeFiles, batch, stage>>
      BY <1>2 DEF Damage, Fault, runVars
    <2>1. MergeTyped' /\ DurableIsTrue' /\ WorkInv'
      BY <2>0, MergeKept
    <2>2. Members' = Members /\ \A j, w : Selected(j, w)' = Selected(j, w) /\ Marker(j, w)' = Marker(j, w)
      BY <2>0, SameJob
    <2>3. MembersInv
      BY DEF MergeInv
    <2>4. ASSUME NEW file \in FileStates, NEW bad \in Damaged(file)
          PROVE  bad \in FileStates
      <3>1. CASE bad = Absent
        BY <3>1 DEF FileStates
      <3>2. CASE file # Absent /\ file # <<>> /\ bad = [file EXCEPT ![1] = Garbage]
        <4>1. file \in Seq(FileLines) /\ Garbage \in FileLines
          BY <3>2 DEF FileStates, FileLines
        <4>2. [file EXCEPT ![1] = Garbage] \in Seq(FileLines)
          <5> DEFINE n == Len(file)
          <5>1. n \in Nat /\ file \in [1..n -> FileLines]
            BY <4>1
          <5> HIDE DEF n
          <5>2. [file EXCEPT ![1] = Garbage] \in [1..n -> FileLines]
            BY <4>1, <5>1
          <5> QED BY <5>1, <5>2
        <4> QED BY <3>2, <4>2 DEF FileStates
      <3> QED BY <2>4, <3>1, <3>2 DEF Damaged
    <2>5. corpus' \in [Members -> FileStates] /\ ident' \in [Members -> FileStates]
      <3>0. corpus \in [Members -> FileStates] /\ ident \in [Members -> FileStates]
        BY <2>3 DEF MembersInv, MembersTyped
      <3>1. CASE ident' = ident /\ \E bad \in Damaged(corpus[i]) : corpus' = [corpus EXCEPT ![i] = bad]
        BY <2>4, <3>0, <3>1
      <3>2. CASE corpus' = corpus /\ \E bad \in Damaged(ident[i]) : ident' = [ident EXCEPT ![i] = bad]
        BY <2>4, <3>0, <3>2
      <3> QED BY <1>2, <3>1, <3>2 DEF Damage
    <2>6. MembersTyped'
      <3>1. faults' \in 0..MaxFaults
        BY <2>0, <2>3, MembersAssumption DEF MembersInv, MembersTyped
      <3> QED BY <2>0, <2>2, <2>3, <2>5, <3>1 DEF MembersInv, MembersTyped
    <2>7. MarkersAreTrue' /\ SlicesAreTrue'
      <3>1. MarkersAreTrue'
        BY <2>0, <2>2, <2>3, ZenonT(40) DEF MembersInv, MarkersAreTrue
      <3>2. SlicesAreTrue'
        BY <2>0, <2>2, <2>3, ZenonT(40) DEF MembersInv, SlicesAreTrue, Read, Lying
      <3> QED BY <3>1, <3>2
    <2>8. PoolIsTrue' /\ CursorIsTrue'
      BY <2>0, <2>3 DEF MembersInv, PoolIsTrue, CursorIsTrue
    <2> QED BY <2>1, <2>6, <2>7, <2>8 DEF MergeInv, MembersInv
  <1> QED BY <1>1, <1>2

\* What the proofs of the steps of a merge need all the time.
LEMMA MergeFacts ==
  ASSUME MergeInv
  PROVE  /\ MembersInv /\ MergeTyped /\ DurableIsTrue /\ WorkInv
         /\ job \in Jobs /\ N \in Nat /\ Members = 1..N
         /\ crashes \in 0..MaxCrashes /\ faults \in 0..MaxFaults
         /\ Absent \notin Seq(FileLines)
         /\ part \in [Files -> FileStates] /\ out \in [Files -> FileStates]
         /\ ms # Absent => /\ ms \in MergeStates /\ ms.next \in 0..N /\ ms.rows = Count(ms.next)
                           /\ ms.rows \in Nat /\ ms.complete \in BOOLEAN
         /\ \A n \in 0..N : /\ Count(n) \in 0..Len(AllRows)
                            /\ \A f \in Files : /\ Merged(f, n) \in Seq(FileLines) /\ Merged(f, n) # Absent
                                                /\ Len(Merged(f, n)) = Count(n)
  <1>1. MembersInv /\ MergeTyped /\ DurableIsTrue /\ WorkInv
    BY DEF MergeInv
  <1>2. job \in Jobs /\ crashes \in 0..MaxCrashes /\ faults \in 0..MaxFaults
    BY <1>1 DEF MembersInv, MembersTyped
  <1>3. N \in Nat /\ Members = 1..N /\ Absent \notin Seq(FileLines)
    BY <1>2, ArchiveRows, MergeAssumption
  <1>4. part \in [Files -> FileStates] /\ out \in [Files -> FileStates]
    BY <1>1 DEF MergeTyped
  <1>5. ASSUME NEW n \in 0..N
        PROVE  /\ Count(n) \in 0..Len(AllRows)
               /\ \A f \in Files : /\ Merged(f, n) \in Seq(FileLines) /\ Merged(f, n) # Absent
                                   /\ Len(Merged(f, n)) = Count(n)
    <2>1. /\ Count(n) \in Nat /\ Count(n) <= Len(RowsUpTo(n))
          /\ \A f \in Files : Merged(f, n) \in Seq(FileLines) /\ Len(Merged(f, n)) = Count(n)
      BY <1>2, MergedTyped
    <2>2. Len(RowsUpTo(n)) \in 0..Len(AllRows)
      BY <1>2, RowsUpToLength
    <2>3. Len(AllRows) \in Nat
      <3>1. N \in 0..N
        BY <1>3
      <3>2. RowsUpTo(N) \in Seq(TaggedRows(N))
        BY <1>2, <3>1, RowsUpToGrow
      <3> QED BY <3>2 DEF AllRows
    <2> QED BY <1>3, <2>1, <2>2, <2>3
  <1>6. ASSUME ms # Absent
        PROVE  /\ ms \in MergeStates /\ ms.next \in 0..N /\ ms.rows = Count(ms.next)
               /\ ms.rows \in Nat /\ ms.complete \in BOOLEAN
    <2>1. ms \in MergeStates
      BY <1>1, <1>6 DEF MergeTyped
    <2>2. ms.next \in 0..N /\ ms.rows \in Nat /\ ms.complete \in BOOLEAN
      BY <2>1 DEF MergeStates
    <2> QED BY <1>1, <1>6, <2>1, <2>2 DEF DurableIsTrue
  <1> QED BY <1>1, <1>2, <1>3, <1>4, <1>5, <1>6

\* A file begins with itself.
LEMMA ExtendsItself ==
  ASSUME NEW E, NEW lines \in Seq(E)
  PROVE  Extends(lines, lines)
  BY DEF Extends

\* Where the state, the results and the counted identities stay, and a partial
\* file stays or is cut back, all that outlives a run stays true.
LEMMA DurableStays ==
  ASSUME MergeInv, job' = job, ms' = ms, out' = out, Committed' = Committed,
         ms = Absent => seen' = {} /\ part' = part,
         \A f \in Files : part'[f] = part[f] \/ (ms # Absent /\ part'[f] # Absent /\ Extends(part'[f], Merged(f, ms.next)))
  PROVE  DurableIsTrue'
  <1>1. DurableIsTrue /\ (ms # Absent => ms.next \in 0..N)
    BY MergeFacts
  <1>2. /\ N' = N /\ AllRows' = AllRows /\ \A n : RowsUpTo(n)' = RowsUpTo(n)
        /\ \A f, n : Merged(f, n)' = Merged(f, n)
        /\ \A f : Expected(f)' = Expected(f)
        /\ \A n : SeenUpTo(n)' = SeenUpTo(n)
        /\ \A rows : Ambiguous(rows)' <=> Ambiguous(rows)
        /\ \A n : Count(n)' = Count(n)
    BY SameJob, SameCount
  <1>4. ASSUME NEW f \in Files, ms # Absent PROVE PartIsTrue(f)'
    <2>1. PartIsTrue(f)
      BY <1>1, <1>4 DEF DurableIsTrue
    <2>2. Merged(f, ms.next)' = Merged(f, ms.next)
      BY <1>2
    <2>3. CASE part'[f] = part[f]
      <3>1. part'[f] # Absent => Extends(part'[f], Merged(f, ms.next))
        BY <2>1, <2>3 DEF PartIsTrue
      <3>2. part'[f] = Absent /\ out'[f] = Absent => ms'.rows = 0
        BY <2>1, <2>3 DEF PartIsTrue
      <3> QED BY <2>2, <3>1, <3>2 DEF PartIsTrue
    <2>4. CASE part'[f] # Absent /\ Extends(part'[f], Merged(f, ms.next))
      BY <2>2, <2>4 DEF PartIsTrue
    <2> QED BY <2>3, <2>4
  <1>5. ASSUME NEW f \in Files PROVE ResultIsTrue(f)'
    <2>1. ResultIsTrue(f)
      BY <1>1 DEF DurableIsTrue
    <2> QED BY <1>2, <2>1 DEF ResultIsTrue
  <1>6. ms # Absent => /\ ms'.rows = Count(ms.next)' /\ ~Ambiguous(RowsUpTo(ms.next))'
                       /\ Committed' = SeenUpTo(ms.next)'
                       /\ ms'.complete => Exist(out')
    BY <1>1, <1>2 DEF DurableIsTrue
  <1>7. (ms' = Absent => seen' = {} /\ NoneExist(part')) /\ (job'.merge = "whole" => ms' = Absent)
    BY <1>1 DEF DurableIsTrue
  <1> QED BY <1>4, <1>5, <1>6, <1>7 DEF DurableIsTrue, NoneExist, Exist

\* A run that ends or is killed, before it counts another member.
LEMMA StopKeeps ==
  ASSUME MergeInv, NEW how \in {"pass", "error", "progress", "killed"}, Stop(how),
         UNCHANGED <<job, fileVars, ms, out>>,
         crashes' \in 0..MaxCrashes, faults' \in 0..MaxFaults,
         seen' \in {seen, Committed}, batch' \in {batch, NoBatch}, part' \in [Files -> FileStates],
         \A f \in Files : part'[f] = part[f] \/ (ms # Absent /\ part'[f] = Merged(f, ms.next))
  PROVE  MergeInv'
  <1>0. /\ MembersInv /\ MergeTyped /\ DurableIsTrue /\ job' = job /\ ms' = ms /\ out' = out
        /\ stage' = NoStage /\ tool' = "idle" /\ End(how)
    BY MergeFacts DEF Stop, End
  <1>1. MembersInv'
    BY <1>0, MembersKept DEF Quiet
  <1>2. WorkInv'
    <2>1. Where' = "none"
      BY <1>0 DEF Where, NoStage
    <2> QED BY <1>0, <2>1, NothingInWork
  <1>3. MergeTyped'
    <2>1. MergeStates' = MergeStates
      <3>1. N' = N /\ AllRows' = AllRows
        BY <1>0, SameJob
      <3> QED BY <3>1 DEF MergeStates
    <2>2. batch' \in [Files -> Seq(FileLines)]
      <3>1. <<>> \in Seq(FileLines)
        OBVIOUS
      <3>2. NoBatch \in [Files -> Seq(FileLines)]
        BY <3>1 DEF NoBatch
      <3>3. batch \in [Files -> Seq(FileLines)]
        BY <1>0 DEF MergeTyped
      <3> QED BY <3>2, <3>3
    <2>3. stage' \in StageKinds \X Files /\ stage'[2] = "corpus"
      BY <1>0 DEF NoStage, StageKinds, Files
    <2> QED BY <1>0, <2>1, <2>2, <2>3 DEF MergeTyped
  <1>4. DurableIsTrue'
    <2>1. ms = Absent => seen = {} /\ NoneExist(part)
      BY <1>0 DEF DurableIsTrue
    <2>2. ms = Absent => seen' = {} /\ part' = part
      <3> SUFFICES ASSUME ms = Absent PROVE seen' = {} /\ part' = part
        OBVIOUS
      <3>1. seen' = {}
        BY <2>1 DEF Committed
      <3>2. \A f \in Files : part'[f] = part[f]
        OBVIOUS
      <3>3. part \in [Files -> FileStates]
        BY <1>0 DEF MergeTyped
      <3> QED BY <3>1, <3>2, <3>3
    <2>3. Committed' = Committed
      BY <1>0 DEF Committed
    <2>4. ASSUME NEW f \in Files, ms # Absent, part'[f] = Merged(f, ms.next)
          PROVE  part'[f] # Absent /\ Extends(part'[f], Merged(f, ms.next))
      <3>1. Merged(f, ms.next) \in Seq(FileLines) /\ Merged(f, ms.next) # Absent
        BY <2>4, MergeFacts
      <3> QED BY <2>4, <3>1, ExtendsItself
    <2> QED BY <1>0, <2>2, <2>3, <2>4, DurableStays
  <1> QED BY <1>1, <1>2, <1>3, <1>4 DEF MergeInv

\* The invariant holds before anything runs.
LEMMA MergeInvAtFirst ==
  ASSUME MergeInit
  PROVE  MergeInv
  <1>0. /\ MembersInit /\ ms = Absent /\ seen = {}
        /\ part = [f \in Files |-> Absent] /\ out = [f \in Files |-> Absent]
        /\ batch = NoBatch /\ stage = NoStage
    BY DEF MergeInit
  <1>1. /\ job \in Jobs /\ cut = [i \in Members |-> NoSlices] /\ tool = "idle" /\ result = "none"
        /\ at = [i \in Members |-> "idle"] /\ cursor = <<0, "idle">> /\ budget = 0
        /\ crashes = 0 /\ faults = 0
    BY <1>0 DEF MembersInit
  <1>2. /\ corpus = [i \in Members |-> IF job.old = NoWindow THEN Absent ELSE Texts(Selected(i, job.old))]
        /\ ident = [i \in Members |-> IF job.old = NoWindow THEN Absent ELSE Ids(Selected(i, job.old))]
        /\ marker = [i \in Members |-> IF job.old = NoWindow THEN Absent ELSE Marker(i, job.old)]
    BY <1>0 DEF MembersInit
  <1>3. MembersTyped
    <2>1. ASSUME NEW i \in Members
          PROVE  /\ Texts(Selected(i, job.old)) \in FileStates /\ Ids(Selected(i, job.old)) \in FileStates
                 /\ Absent \in FileStates
      <3>1. Texts(Selected(i, job.old)) \in Seq(RowTexts) /\ Ids(Selected(i, job.old)) \in Seq(RowIds)
        BY <1>1, SelectedRows
      <3>2. RowTexts \subseteq FileLines /\ RowIds \subseteq FileLines
        BY DEF FileLines
      <3> QED BY <3>1, <3>2 DEF FileStates
    <2>2. NoSlices \in [off : Int, eof : BOOLEAN, parts : Seq(Rows), stray : BOOLEAN]
      BY DEF NoSlices
    <2>3. corpus \in [Members -> FileStates] /\ ident \in [Members -> FileStates]
      BY <1>2, <2>1
    <2>4. 0 \in 0..MaxRows /\ 0 \in 0..MaxCrashes /\ 0 \in 0..MaxFaults
      BY MembersAssumption
    <2> QED BY <1>1, <1>2, <2>2, <2>3, <2>4 DEF MembersTyped
  <1>4. MarkersAreTrue
    <2> SUFFICES ASSUME NEW i \in Members, marker[i] # Absent, marker[i].window = job.window
                 PROVE  marker[i] = Marker(i, job.window)
      BY DEF MarkersAreTrue
    <2>1. marker[i] = Marker(i, job.old)
      BY <1>2
    <2>2. Marker(i, job.old).window = job.old
      BY DEF Marker
    <2> QED BY <2>1, <2>2
  <1>5. SlicesAreTrue
    <2> SUFFICES ASSUME NEW i \in Members
                 PROVE  /\ cut[i].off \in -1..Len(job.archive[i])
                        /\ cut[i].off >= 0 => cut[i].parts = Read(i, cut[i].off)
                        /\ cut[i].off = -1 => cut[i].parts = <<>>
                        /\ cut[i].eof => cut[i].off = Len(job.archive[i])
      BY DEF SlicesAreTrue
    <2>1. cut[i].off = -1 /\ cut[i].parts = <<>> /\ cut[i].eof = FALSE
      BY <1>1 DEF NoSlices
    <2>2. Len(job.archive[i]) \in Nat
      <3>1. job.archive[i] \in Seq(Rows)
        BY <1>1, ArchiveRows
      <3> QED BY <3>1
    <2> QED BY <2>1, <2>2
  <1>6. PoolIsTrue /\ CursorIsTrue
    BY <1>1 DEF PoolIsTrue, CursorIsTrue
  <1>7. MergeTyped
    <2>1. NoBatch \in [Files -> Seq(FileLines)]
      <3>1. <<>> \in Seq(FileLines)
        OBVIOUS
      <3> QED BY <3>1 DEF NoBatch
    <2>2. NoStage \in StageKinds \X Files /\ NoStage[2] = "corpus"
      BY DEF NoStage, StageKinds, Files
    <2>3. part \in [Files -> FileStates] /\ out \in [Files -> FileStates]
      BY <1>0 DEF FileStates
    <2> QED BY <1>0, <2>1, <2>2, <2>3 DEF MergeTyped
  <1>8. DurableIsTrue
    BY <1>0 DEF DurableIsTrue, ResultIsTrue, NoneExist
  <1>9. WorkInv
    <2>1. Where = "none" /\ stage = <<"none", "corpus">>
      BY <1>0 DEF Where, NoStage
    <2>2. WorkMatches
      BY <1>1, <2>1 DEF WorkMatches, MergeStages
    <2>3. MemberInWork /\ EndInWork
      BY <2>1 DEF MemberInWork, EndInWork
    <2> QED BY <2>2, <2>3 DEF WorkInv
  <1> QED BY <1>3, <1>4, <1>5, <1>6, <1>7, <1>8, <1>9 DEF MergeInv, MembersInv

\* What a merge is ready for stays while its files do.
LEMMA ReadyKept ==
  ASSUME Ready, job' = job, UNCHANGED fileVars, ms' # Absent
  PROVE  Ready'
  <1>1. Members' = Members /\ \A i, w : Marker(i, w)' = Marker(i, w)
    BY SameJob
  <1>2. marker' = marker /\ corpus' = corpus /\ ident' = ident
    BY DEF fileVars
  <1> QED BY <1>1, <1>2 DEF Ready

\* Nothing is written yet where a merge starts.
LEMMA NothingMerged ==
  ASSUME job \in Jobs
  PROVE  /\ Count(0) = 0 /\ SeenUpTo(0) = {} /\ ~Ambiguous(RowsUpTo(0)) /\ 0 \in 0..N
  <1>1. 0 \in 0..N
    BY ArchiveRows
  <1> QED BY <1>1, SeenOfFirsts

\* A run of the strict or the dedupe tool begins.
LEMMA MergeBegins ==
  ASSUME MergeInv, MergeBegin
  PROVE  MergeInv'
  <1>0. /\ MembersInv /\ MergeTyped /\ DurableIsTrue /\ WorkInv /\ job \in Jobs
        /\ crashes \in 0..MaxCrashes /\ faults \in 0..MaxFaults
        /\ part \in [Files -> FileStates] /\ N \in Nat
    BY MergeFacts
  <1>1. /\ tool = "idle" /\ job.merge \in {"strict", "dedupe"} /\ job' = job /\ UNCHANGED fileVars
        /\ batch' = batch /\ crashes' = crashes /\ faults' = faults
    BY DEF MergeBegin
  <1>2. ASSUME NEW how \in {"pass", "error"}, Stop(how), UNCHANGED mergeFiles
        PROVE  MergeInv'
    <2>1. ms' = ms /\ part' = part /\ seen' = seen /\ out' = out
      BY <1>2 DEF mergeFiles
    <2> QED BY <1>0, <1>1, <1>2, <2>1, StopKeeps
  <1>3. ASSUME MarkersPresent
        PROVE  \A i \in Members : marker[i] = Marker(i, job.window) /\ corpus[i] # Absent /\ ident[i] # Absent
    BY <1>0, <1>3 DEF MarkersPresent, MembersInv, MarkersAreTrue
  <1>4. ASSUME tool' = "merge", result' = "none", UNCHANGED runVars
        PROVE  MembersInv'
    <2>1. at' = at /\ cursor' = cursor /\ budget' = budget
      BY <1>4 DEF runVars
    <2>2. Quiet
      BY <1>0, <1>1, <1>4, <2>1 DEF Quiet
    <2> QED BY <1>0, <2>2, MembersKept
  <1>5. CASE MergeStarts
    <2>0. /\ MarkersPresent /\ ms = Absent /\ NoneExist(out)
          /\ ms' = [next |-> 0, rows |-> 0, complete |-> FALSE]
          /\ tool' = "merge" /\ result' = "none" /\ stage' = <<"recover", "corpus">>
          /\ UNCHANGED runVars /\ part' = part /\ seen' = seen /\ out' = out
      BY <1>5 DEF MergeStarts
    <2>1. MembersInv'
      BY <1>4, <2>0
    <2>2. ms'.next = 0 /\ ms'.rows = 0 /\ ms'.complete = FALSE /\ ms' \in MergeStates
      <3>1. 0 \in 0..N /\ 0 \in 0..Len(AllRows)
        <4>1. Count(0) \in 0..Len(AllRows) /\ Count(0) = 0 /\ 0 \in 0..N
          BY <1>0, NothingMerged, MergeFacts
        <4> QED BY <4>1
      <3> QED BY <2>0, <3>1 DEF MergeStates
    <2>3. ms' # Absent
      <3>1. ms' \in [next : Nat, rows : Nat, complete : BOOLEAN]
        BY <2>0
      <3> QED BY <3>1, MergeAssumption
    <2>4. MergeTyped'
      <3>1. N' = N /\ AllRows' = AllRows
        BY <1>1, SameJob
      <3>2. MergeStates' = MergeStates
        BY <3>1 DEF MergeStates
      <3>3. stage' \in StageKinds \X Files /\ stage'[2] = "corpus"
        BY <2>0 DEF StageKinds, Files
      <3> QED BY <1>0, <1>1, <2>0, <2>2, <3>2, <3>3 DEF MergeTyped
    <2>5. DurableIsTrue'
      <3>1. seen = {} /\ NoneExist(part)
        BY <1>0, <2>0 DEF DurableIsTrue
      <3>2. /\ Count(0)' = 0 /\ SeenUpTo(0)' = {} /\ ~Ambiguous(RowsUpTo(0))'
        BY <1>0, <1>1, SameJob, SameCount, NothingMerged
      <3>3. Committed' = {}
        BY <2>0, <3>1 DEF Committed
      <3>4. \A f \in Files : PartIsTrue(f)' /\ ResultIsTrue(f)'
        BY <2>0, <2>2, <3>1 DEF PartIsTrue, ResultIsTrue, NoneExist
      <3> QED BY <1>1, <2>2, <2>3, <3>2, <3>3, <3>4 DEF DurableIsTrue
    <2>6. WorkInv'
      <3>1. Where' = "recover" /\ stage' = <<"recover", "corpus">>
        BY <2>0 DEF Where
      <3>2. Ready'
        <4>1. Members' = Members /\ \A i, w : Marker(i, w)' = Marker(i, w)
          BY <1>1, SameJob
        <4>2. marker' = marker /\ corpus' = corpus /\ ident' = ident
          BY <1>1 DEF fileVars
        <4> QED BY <1>1, <1>3, <2>0, <2>3, <4>1, <4>2 DEF Ready
      <3>3. WorkMatches'
        BY <2>0, <3>1, <3>2 DEF WorkMatches
      <3>4. MemberInWork' /\ EndInWork'
        BY <3>1 DEF MemberInWork, EndInWork
      <3> QED BY <3>3, <3>4 DEF WorkInv
    <2> QED BY <2>1, <2>4, <2>5, <2>6 DEF MergeInv
  <1>6. CASE MergeResumes
    <2>0. /\ MarkersPresent /\ ms # Absent
          /\ tool' = "merge" /\ result' = "none"
          /\ stage' = <<IF job.merge = "strict" /\ ms.next = N THEN "refinalize" ELSE "recover", "corpus">>
          /\ UNCHANGED runVars /\ UNCHANGED mergeFiles /\ ms' = ms
      BY <1>6 DEF MergeResumes, mergeFiles
    <2>1. MembersInv'
      BY <1>4, <2>0
    <2>2. DurableIsTrue'
      BY <1>0, <1>1, <2>0, DurableKept
    <2>3. MergeTyped'
      <3>1. stage' \in StageKinds \X Files /\ stage'[2] = "corpus"
        BY <2>0 DEF StageKinds, Files
      <3>2. batch' \in [Files -> Seq(FileLines)]
        BY <1>0, <1>1 DEF MergeTyped
      <3> QED BY <1>0, <1>1, <2>0, <3>1, <3>2, MergeTypedKept
    <2>4. WorkInv'
      <3>1. /\ Where' \in {"refinalize", "recover"} /\ stage'[2] = "corpus"
            /\ Where' = "refinalize" => job.merge = "strict" /\ ms.next = N
        BY <2>0 DEF Where
      <3>2. Ready'
        <4>1. Members' = Members /\ \A i, w : Marker(i, w)' = Marker(i, w)
          BY <1>1, SameJob
        <4>2. marker' = marker /\ corpus' = corpus /\ ident' = ident
          BY <1>1 DEF fileVars
        <4> QED BY <1>1, <1>3, <2>0, <4>1, <4>2 DEF Ready
      <3>3. WorkMatches'
        <4>1. N' = N
          BY <1>1, SameJob
        <4> QED BY <1>1, <2>0, <3>1, <3>2, <4>1 DEF WorkMatches
      <3>4. stage' # <<"recover", "ident">> /\ stage'[1] \in {"refinalize", "recover"}
        BY <3>1 DEF Where
      <3>5. stage' \notin {<<"append", "corpus">>, <<"append", "ident">>, <<"finish", "ident">>, <<"rename", "ident">>}
        BY <3>4
      <3>6. MemberInWork' /\ EndInWork'
        BY <3>1, <3>4, <3>5 DEF MemberInWork, EndInWork
      <3> QED BY <3>3, <3>6 DEF WorkInv
    <2> QED BY <2>1, <2>2, <2>3, <2>4 DEF MergeInv
  <1> QED BY <1>2, <1>5, <1>6 DEF MergeBegin, MergeRefuses, MergeIsComplete

\* A run is killed.
LEMMA CrashKeeps ==
  ASSUME MergeInv, Crash
  PROVE  MergeInv'
  <1>1. /\ crashes < MaxCrashes /\ crashes' = crashes + 1 /\ Stop("killed") /\ batch' = NoBatch
        /\ job' = job /\ UNCHANGED fileVars /\ faults' = faults
        /\ ms' = ms /\ part' = part /\ seen' = seen /\ out' = out
    BY DEF Crash, mergeFiles
  <1>2. /\ crashes \in 0..MaxCrashes /\ faults \in 0..MaxFaults /\ part \in [Files -> FileStates]
    BY MergeFacts
  <1>3. crashes' \in 0..MaxCrashes
    BY <1>1, <1>2, MembersAssumption
  <1> QED BY <1>1, <1>2, <1>3, StopKeeps

\* The merge of the pool begins where every member has its files.
LEMMA WholeBegins ==
  ASSUME MergeInv, WholeBegin
  PROVE  MergeInv'
  <1>0. /\ MembersInv /\ MergeTyped /\ DurableIsTrue /\ WorkInv /\ job \in Jobs
        /\ crashes \in 0..MaxCrashes /\ faults \in 0..MaxFaults
        /\ part \in [Files -> FileStates]
    BY MergeFacts
  <1>1. /\ tool = "pool" /\ job.merge = "whole" /\ job' = job /\ UNCHANGED fileVars
        /\ batch' = batch /\ crashes' = crashes /\ faults' = faults /\ UNCHANGED mergeFiles
        /\ ms' = ms /\ part' = part /\ seen' = seen /\ out' = out
        /\ \A i \in Members : at[i] = "done"
    BY DEF WholeBegin, PoolDone, mergeFiles
  <1>2. CASE Stop("error")
    BY <1>0, <1>1, <1>2, StopKeeps
  <1>3. CASE /\ IsInjective(FlattenSeq(ident)) /\ tool' = "merge" /\ stage' = <<"whole", "corpus">>
             /\ at' = [i \in Members |-> "idle"] /\ UNCHANGED <<cursor, budget, result>>
    <2>1. MembersInv'
      <3>1. Quiet
        BY <1>0, <1>1, <1>3 DEF Quiet
      <3> QED BY <1>0, <3>1, MembersKept
    <2>2. DurableIsTrue'
      BY <1>0, <1>1, DurableKept
    <2>3. MergeTyped'
      <3>1. stage' \in StageKinds \X Files /\ stage'[2] = "corpus"
        BY <1>3 DEF StageKinds, Files
      <3>2. batch' \in [Files -> Seq(FileLines)]
        BY <1>0, <1>1 DEF MergeTyped
      <3> QED BY <1>0, <1>1, <3>1, <3>2, MergeTypedKept
    <2>4. \A i \in Members : CorpusDone(i) /\ IdentDone(i)
      BY <1>0, <1>1 DEF MembersInv, PoolIsTrue
    <2>5. ~Ambiguous(AllRows)
      <3>1. /\ DOMAIN corpus = Members /\ DOMAIN ident = Members
            /\ corpus = [i \in DOMAIN corpus |-> corpus[i]] /\ ident = [i \in DOMAIN ident |-> ident[i]]
        BY <1>0 DEF MembersInv, MembersTyped
      <3> QED BY <1>0, <1>3, <2>4, <3>1, WholeIsExact
    <2>6. WorkInv'
      <3>1. Where' = "whole" /\ stage'[1] = "whole"
        BY <1>3 DEF Where
      <3>2. WorkMatches' /\ MemberInWork'
        <4>1. stage' \notin {<<"recover", "ident">>, <<"append", "corpus">>, <<"append", "ident">>}
          BY <3>1
        <4> QED BY <1>3, <3>1, <4>1 DEF WorkMatches, MemberInWork, MergeStages
      <3>3. \A i \in Members' : CorpusDone(i)' /\ IdentDone(i)'
        <4>1. Members' = Members /\ \A i, w : Selected(i, w)' = Selected(i, w)
          BY <1>1, SameJob
        <4>2. corpus' = corpus /\ ident' = ident
          BY <1>1 DEF fileVars
        <4> QED BY <1>1, <2>4, <4>1, <4>2 DEF CorpusDone, IdentDone
      <3>4. ~Ambiguous(AllRows)'
        BY <1>1, <2>5, SameJob
      <3>5. EndInWork'
        <4>1. stage' \notin {<<"finish", "ident">>, <<"rename", "ident">>}
          BY <3>1
        <4> QED BY <1>1, <3>1, <3>3, <3>4, <4>1 DEF EndInWork
      <3> QED BY <3>2, <3>5 DEF WorkInv
    <2> QED BY <2>1, <2>2, <2>3, <2>6 DEF MergeInv
  <1> QED BY <1>2, <1>3 DEF WholeBegin

\* It names both results, or takes them back.
LEMMA WholeKeeps ==
  ASSUME MergeInv, NEW f \in Files, WholeRename(f) \/ WholeFails(f)
  PROVE  MergeInv'
  <1>0. /\ MembersInv /\ MergeTyped /\ DurableIsTrue /\ WorkInv /\ job \in Jobs /\ N \in Nat
        /\ crashes \in 0..MaxCrashes /\ faults \in 0..MaxFaults
        /\ part \in [Files -> FileStates] /\ out \in [Files -> FileStates]
        /\ \A g \in Files : Merged(g, N) \in Seq(FileLines)
    <2>1. N \in 0..N
      BY MergeFacts
    <2> QED BY <2>1, MergeFacts
  <1>1. /\ tool = "merge" /\ stage = <<"whole", f>> /\ job' = job /\ UNCHANGED fileVars
        /\ batch' = batch /\ crashes' = crashes
        /\ ms' = ms /\ part' = part /\ seen' = seen
    BY DEF WholeRename, WholeFails, At
  <1>2. /\ job.merge = "whole" /\ ~Ambiguous(AllRows) /\ \A i \in Members : CorpusDone(i) /\ IdentDone(i)
        /\ ms = Absent
    BY <1>0, <1>1 DEF WorkInv, EndInWork, Where, DurableIsTrue
  <1>3. \A g \in Files : Content(g) = Expected(g) /\ Expected(g) \in Seq(FileLines)
    <2>1. /\ DOMAIN corpus = Members /\ DOMAIN ident = Members
          /\ corpus = [i \in DOMAIN corpus |-> corpus[i]] /\ ident = [i \in DOMAIN ident |-> ident[i]]
      BY <1>0 DEF MembersInv, MembersTyped
    <2>2. \A g \in Files : Content(g) = Expected(g)
      BY <1>0, <1>2, <2>1, WholeIsExact
    <2>3. \A g \in Files : Expected(g) = Merged(g, N)
      BY DEF Expected, Merged, AllRows
    <2> QED BY <1>0, <2>2, <2>3
  <1>4. /\ N' = N /\ Members' = Members /\ AllRows' = AllRows /\ (Ambiguous(AllRows)' <=> Ambiguous(AllRows))
        /\ \A g : Expected(g)' = Expected(g)
        /\ \A i, w : Selected(i, w)' = Selected(i, w)
    BY <1>1, SameJob
  <1>5. MergeStates' = MergeStates
    BY <1>4 DEF MergeStates
  <1>6. seen = {} /\ NoneExist(part)
    BY <1>0, <1>2 DEF DurableIsTrue
  \* What is to show of either step.
  <1>7. ASSUME out' \in [Files -> FileStates],
               \A g \in Files : out'[g] # Absent => out'[g] = Expected(g),
               stage' \in StageKinds \X Files /\ (stage'[2] = "corpus" \/ stage'[1] \in TwoFiles)
        PROVE  MergeTyped' /\ DurableIsTrue'
    <2>1. MergeTyped'
      <3>1. /\ part' \in [Files -> FileStates] /\ batch' \in [Files -> Seq(FileLines)]
            /\ (ms' = Absent \/ ms' \in MergeStates')
        BY <1>0, <1>1, <1>5 DEF MergeTyped
      <3> QED BY <1>7, <3>1 DEF MergeTyped
    <2>2. \A g \in Files : ResultIsTrue(g)'
      BY <1>1, <1>2, <1>4, <1>7 DEF ResultIsTrue
    <2> QED BY <1>1, <1>2, <1>6, <2>1, <2>2 DEF DurableIsTrue, NoneExist
  <1>8. ASSUME NEW how \in {"pass", "error"}, Stop(how), faults' \in 0..MaxFaults,
               out' \in [Files -> FileStates], \A g \in Files : out'[g] # Absent => out'[g] = Expected(g)
        PROVE  MergeInv'
    <2>1. MembersInv'
      <3>1. Quiet
        BY <1>0, <1>1, <1>8 DEF Quiet, Stop
      <3> QED BY <1>0, <3>1, MembersKept
    <2>2. stage' = NoStage /\ tool' = "idle"
      BY <1>8 DEF Stop, End
    <2>3. MergeTyped' /\ DurableIsTrue'
      <3>1. stage' \in StageKinds \X Files /\ stage'[2] = "corpus"
        BY <2>2 DEF NoStage, StageKinds, Files
      <3> QED BY <1>7, <1>8, <3>1
    <2>4. WorkInv'
      <3>1. Where' = "none"
        BY <2>2 DEF NoStage, Where
      <3> QED BY <2>2, <3>1, NothingInWork
    <2> QED BY <2>1, <2>3, <2>4 DEF MergeInv
  <1>9. CASE WholeFails(f)
    <2>1. /\ out' = [g \in Files |-> Absent] /\ Stop("error")
          /\ faults < MaxFaults /\ faults' = faults + 1
      BY <1>9 DEF WholeFails, Fault
    <2>2. faults' \in 0..MaxFaults
      BY <1>0, <2>1, MembersAssumption
    <2>3. out' \in [Files -> FileStates]
      BY <2>1 DEF FileStates
    <2> QED BY <1>8, <2>1, <2>2, <2>3
  <1>10. CASE WholeRename(f)
    <2>1. out' = [out EXCEPT ![f] = Content(f)] /\ faults' = faults
      BY <1>10 DEF WholeRename
    <2>2. out' \in [Files -> FileStates]
      <3>1. Content(f) \in FileStates
        BY <1>3 DEF FileStates
      <3> QED BY <1>0, <2>1, <3>1
    <2>3. ASSUME NEW g \in Files, out'[g] # Absent PROVE out'[g] = Expected(g)
      <3>1. CASE g = f
        BY <1>0, <1>3, <2>1, <3>1
      <3>2. CASE g # f
        <4>1. out'[g] = out[g]
          BY <1>0, <2>1, <3>2
        <4>2. ResultIsTrue(g)
          BY <1>0 DEF DurableIsTrue
        <4> QED BY <1>2, <2>3, <4>1, <4>2 DEF ResultIsTrue
      <3> QED BY <3>1, <3>2
    <2>4. CASE f = "corpus"
      <3>1. To("whole", "ident")
        BY <1>10, <2>4 DEF WholeRename
      <3>2. MembersInv'
        <4>1. Quiet
          BY <1>0, <1>1, <2>1, <3>1 DEF Quiet, To
        <4> QED BY <1>0, <4>1, MembersKept
      <3>3. stage' = <<"whole", "ident">> /\ tool' = "merge" /\ Where' = "whole"
        BY <1>1, <3>1 DEF To, Where
      <3>4. MergeTyped' /\ DurableIsTrue'
        <4>1. stage' \in StageKinds \X Files /\ stage'[1] \in TwoFiles
          BY <3>3 DEF StageKinds, TwoFiles, Files
        <4> QED BY <1>7, <2>2, <2>3, <4>1
      <3>5. WorkInv'
        <4>1. stage' \notin {<<"recover", "ident">>, <<"append", "corpus">>, <<"append", "ident">>,
                            <<"finish", "ident">>, <<"rename", "ident">>}
          BY <3>3
        <4>2. \A i \in Members' : CorpusDone(i)' /\ IdentDone(i)'
          <5>1. corpus' = corpus /\ ident' = ident
            BY <1>1 DEF fileVars
          <5> QED BY <1>1, <1>2, <1>4, <5>1 DEF CorpusDone, IdentDone
        <4>3. WorkMatches' /\ MemberInWork'
          BY <3>3, <4>1 DEF WorkMatches, MemberInWork, MergeStages
        <4>4. EndInWork'
          BY <1>1, <1>2, <1>4, <3>3, <4>1, <4>2 DEF EndInWork
        <4> QED BY <4>3, <4>4 DEF WorkInv
      <3> QED BY <3>2, <3>4, <3>5 DEF MergeInv
    <2>5. CASE f # "corpus"
      <3>1. Stop("pass")
        BY <1>10, <2>5 DEF WholeRename
      <3> QED BY <1>0, <1>8, <2>1, <2>2, <2>3, <3>1
    <2> QED BY <2>4, <2>5
  <1> QED BY <1>9, <1>10

\* A merge that goes on to another stage.
LEMMA GoesOn ==
  ASSUME MergeInv, Where \in MergeStages, NEW where \in MergeStages, NEW f \in Files,
         f = "corpus" \/ where \in TwoFiles, stage' = <<where, f>>,
         job' = job, tool' = tool, result' = result, at' = at, cursor' = cursor, budget' = budget,
         UNCHANGED fileVars, crashes' = crashes, faults' = faults,
         ms' \in MergeStates, ms' # Absent, part' \in [Files -> FileStates], out' \in [Files -> FileStates],
         batch' \in [Files -> Seq(FileLines)],
         where \in {"transform", "append", "commit"} => ms'.next < N,
         where \in {"finish", "complete", "refinalize", "rename", "recomplete"} => ms'.next = N,
         where \in {"refinalize", "rename", "recomplete"} => job.merge = "strict"
  PROVE  MembersInv' /\ MergeTyped' /\ WorkMatches' /\ Where' = where
  <1>1. /\ MembersInv /\ MergeTyped /\ WorkInv /\ crashes \in 0..MaxCrashes /\ faults \in 0..MaxFaults
    BY MergeFacts
  <1>2. MembersInv'
    <2>1. Quiet
      BY <1>1 DEF Quiet
    <2> QED BY <1>1, <2>1, MembersKept
  <1>3. N' = N /\ AllRows' = AllRows
    BY SameJob
  <1>4. MergeTyped'
    <2>1. MergeStates' = MergeStates
      BY <1>3 DEF MergeStates
    <2>2. stage' \in StageKinds \X Files /\ (stage'[2] = "corpus" \/ stage'[1] \in TwoFiles)
      BY DEF MergeStages
    <2> QED BY <2>1, <2>2 DEF MergeTyped
  <1>5. Where' = where
    BY DEF Where
  <1>6. WorkMatches'
    <2>1. Ready /\ tool = "merge"
      BY <1>1 DEF WorkInv, WorkMatches, MergeStages
    <2>2. Ready'
      BY <2>1, ReadyKept
    <2>3. tool' = "merge" /\ where # "none"
      BY <2>1 DEF MergeStages
    <2> QED BY <1>3, <1>5, <2>2, <2>3 DEF WorkMatches
  <1> QED BY <1>2, <1>4, <1>5, <1>6

\* The table of identities goes back to what is committed, which is as much as
\* the state says.
LEMMA ForgetKeeps ==
  ASSUME MergeInv,
         \/ At("recover", "ident") /\ ForgetUncommitted("member")
         \/ At("member", "corpus") /\ ms.next < N /\ ForgetUncommitted("transform")
         \/ At("refinalize", "corpus") /\ ForgetUncommitted("rename")
  PROVE  MergeInv'
  <1>0. /\ MembersInv /\ MergeTyped /\ DurableIsTrue /\ WorkInv /\ job \in Jobs
        /\ crashes \in 0..MaxCrashes /\ faults \in 0..MaxFaults
        /\ part \in [Files -> FileStates] /\ out \in [Files -> FileStates]
    BY MergeFacts
  <1>1. /\ job' = job /\ UNCHANGED fileVars /\ ms' = ms /\ part' = part /\ out' = out /\ batch' = batch
        /\ crashes' = crashes /\ faults' = faults /\ seen' = Committed /\ tool = "merge"
        /\ Where \in {"recover", "member", "refinalize"}
    BY DEF ForgetUncommitted, At, Where
  <1>2. CASE Stop("error")
    BY <1>0, <1>1, <1>2, StopKeeps
  <1>3. ASSUME NEW where \in {"member", "transform", "rename"}, To(where, "corpus"),
               \/ stage = <<"recover", "ident">> /\ where = "member"
               \/ stage = <<"member", "corpus">> /\ ms.next < N /\ where = "transform"
               \/ stage = <<"refinalize", "corpus">> /\ where = "rename"
        PROVE  MergeInv'
    <2>1. ms # Absent /\ ms \in MergeStates /\ ms.next \in 0..N
      <3>1. ms # Absent
        BY <1>0, <1>1 DEF WorkInv, WorkMatches, MergeStages, StageKinds, Ready
      <3> QED BY <3>1, MergeFacts
    <2>2. MembersInv' /\ MergeTyped' /\ WorkMatches' /\ Where' = where
      <3>1. Where \in MergeStages /\ where \in MergeStages /\ "corpus" \in Files
        BY <1>1 DEF MergeStages, StageKinds, Files
      <3>2. stage' = <<where, "corpus">> /\ UNCHANGED <<tool, result, at, cursor, budget>>
        BY <1>3 DEF To
      <3>3. batch' \in [Files -> Seq(FileLines)]
        BY <1>0, <1>1 DEF MergeTyped
      <3>4. where = "rename" => ms.next = N /\ job.merge = "strict"
        BY <1>0, <1>3 DEF WorkInv, WorkMatches, Where
      <3> QED BY <1>0, <1>1, <1>3, <2>1, <3>1, <3>2, <3>3, <3>4, GoesOn
    <2>3. Committed = SeenUpTo(ms.next) /\ seen' = SeenUpTo(ms.next)
      BY <1>0, <1>1, <2>1 DEF DurableIsTrue
    <2>4. DurableIsTrue'
      <3>1. Committed' = Committed
        BY <1>1 DEF Committed
      <3> QED BY <1>1, <2>1, <3>1, DurableStays
    <2>5. WorkInv'
      <3>1. stage' = <<where, "corpus">> /\ stage'[1] = where
        BY <1>3 DEF To
      <3>2. where \in {"member", "transform"} => \A f \in Files : part[f] = Merged(f, ms.next)
        BY <1>0, <1>3 DEF WorkInv, MemberInWork, Where
      <3>3. /\ \A f, n : Merged(f, n)' = Merged(f, n)
            /\ \A n : SeenUpTo(n)' = SeenUpTo(n)
        BY <1>1, SameJob
      <3>4. MemberInWork'
        <4>1. where \in {"member", "transform"} => \A f \in Files : part'[f] = Merged(f, ms.next)'
          BY <1>1, <3>2, <3>3
        <4>2. seen' = SeenUpTo(ms.next)'
          BY <1>1, <2>3, <3>3
        <4>3. stage' \notin {<<"recover", "ident">>, <<"append", "corpus">>, <<"append", "ident">>}
          BY <3>1
        <4> QED BY <2>2, <4>1, <4>2, <4>3 DEF MemberInWork
      <3>5. EndInWork'
        <4>1. stage' \notin {<<"finish", "ident">>, <<"rename", "ident">>}
          BY <3>1
        <4> QED BY <2>2, <4>1 DEF EndInWork
      <3> QED BY <2>2, <3>4, <3>5 DEF WorkInv
    <2> QED BY <2>2, <2>4, <2>5 DEF MergeInv
  <1> QED BY <1>2, <1>3 DEF ForgetUncommitted, At

\* Cutting a file back leaves the lines that it begins with.
LEMMA CutBack ==
  ASSUME NEW E, NEW file \in Seq(E), NEW lines \in Seq(E), Extends(file, lines), NEW n, n = Len(lines)
  PROVE  SubSeq(file, 1, n) = lines
  <1>1. n \in Nat /\ n <= Len(file) /\ \A k \in 1..n : file[k] = lines[k]
    BY DEF Extends
  <1>2. SubSeq(file, 1, n) = [k \in 1..n |-> file[k]]
    BY <1>1
  <1>3. lines = [k \in 1..n |-> lines[k]]
    BY SeqIs
  <1> QED BY <1>1, <1>2, <1>3

\* Moving one line from what is still to be added to the file changes nothing
\* of the two together.
LEMMA MoveOne ==
  ASSUME NEW E, NEW file \in Seq(E), NEW rest \in Seq(E), rest # <<>>
  PROVE  /\ Append(file, Head(rest)) \o Tail(rest) = file \o rest
         /\ Append(file, Head(rest)) \in Seq(E) /\ Tail(rest) \in Seq(E)
         /\ \A lines \in Seq(E) : Extends(file, lines) => Extends(Append(file, Head(rest)), lines)
  <1> DEFINE c == Len(file)  d == Len(rest)  longer == Append(file, Head(rest))  less == Tail(rest)
  <1>1. /\ c \in Nat /\ d \in Nat /\ d # 0 /\ Head(rest) = rest[1] /\ Head(rest) \in E
    OBVIOUS
  <1>2. /\ longer \in Seq(E) /\ Len(longer) = c + 1
        /\ \A k \in 1..(c + 1) : longer[k] = IF k = c + 1 THEN rest[1] ELSE file[k]
    BY <1>1
  <1>3. less \in Seq(E) /\ Len(less) = d - 1 /\ \A k \in 1..(d - 1) : less[k] = rest[k + 1]
    BY <1>1
  <1> HIDE DEF longer, less
  <1>4. \A lines \in Seq(E) : Extends(file, lines) => Extends(longer, lines)
    <2> SUFFICES ASSUME NEW lines \in Seq(E), Extends(file, lines) PROVE Extends(longer, lines)
      OBVIOUS
    <2>1. Len(lines) <= c /\ Len(lines) \in Nat /\ \A k \in 1..Len(lines) : file[k] = lines[k]
      BY DEF Extends
    <2>2. \A k \in 1..Len(lines) : longer[k] = lines[k]
      BY <1>1, <1>2, <2>1
    <2>3. DOMAIN lines = 1..Len(lines) /\ Len(lines) <= Len(longer)
      <3> HIDE DEF c
      <3> QED BY <1>1, <1>2, <2>1
    <2> QED BY <2>2, <2>3 DEF Extends
  <1> HIDE DEF c, d
  <1>5. /\ longer \o less = [n \in 1..((c + 1) + (d - 1)) |-> IF n <= c + 1 THEN longer[n] ELSE less[n - (c + 1)]]
    <2>1. Len(longer) = c + 1 /\ Len(less) = d - 1 /\ longer \in Seq(E) /\ less \in Seq(E)
      BY <1>2, <1>3 DEF c, d
    <2>2. longer \o less = Behind(longer, less, Len(longer), Len(less))
      BY <2>1, JoinBehind
    <2>3. longer \o less = Behind(longer, less, c + 1, d - 1)
      BY <2>1, <2>2
    <2> QED BY <2>3 DEF Behind
  <1>6. file \o rest = [n \in 1..(c + d) |-> IF n <= c THEN file[n] ELSE rest[n - c]]
    BY JoinBehind DEF Behind, c, d
  <1>7. ASSUME NEW n \in 1..(c + d)
        PROVE  (IF n <= c + 1 THEN longer[n] ELSE less[n - (c + 1)]) = (IF n <= c THEN file[n] ELSE rest[n - c])
    <2>1. CASE n <= c
      <3>1. n <= c + 1 /\ n \in 1..(c + 1) /\ n # c + 1
        BY <1>1, <2>1
      <3> QED BY <1>2, <2>1, <3>1
    <2>2. CASE n = c + 1
      <3>1. n <= c + 1 /\ ~(n <= c) /\ n - c = 1 /\ n \in 1..(c + 1)
        BY <1>1, <2>2
      <3> QED BY <1>2, <2>2, <3>1
    <2>3. CASE n > c + 1
      <3>1. ~(n <= c + 1) /\ ~(n <= c) /\ n - (c + 1) \in 1..(d - 1) /\ (n - (c + 1)) + 1 = n - c
        BY <1>1, <2>3
      <3> QED BY <1>3, <3>1
    <2>4. n <= c \/ n = c + 1 \/ n > c + 1
      BY <1>1
    <2> QED BY <2>1, <2>2, <2>3, <2>4
  <1>8. (c + 1) + (d - 1) = c + d
    BY <1>1
  <1>9. longer \o less = file \o rest
    BY <1>5, <1>6, <1>7, <1>8
  <1> QED BY <1>2, <1>3, <1>4, <1>9 DEF longer, less

\* Recovery takes from the partial files what no state counts.
LEMMA RecoverKeeps ==
  ASSUME MergeInv, RecoverFiles
  PROVE  MergeInv'
  <1>0. /\ MembersInv /\ MergeTyped /\ DurableIsTrue /\ WorkInv /\ job \in Jobs
        /\ crashes \in 0..MaxCrashes /\ faults \in 0..MaxFaults
        /\ part \in [Files -> FileStates] /\ out \in [Files -> FileStates]
    BY MergeFacts
  <1>1. /\ job' = job /\ UNCHANGED fileVars /\ ms' = ms /\ seen' = seen /\ out' = out /\ batch' = batch
        /\ crashes' = crashes /\ faults' = faults /\ tool = "merge" /\ stage = <<"recover", "corpus">>
        /\ Where = "recover"
    BY DEF RecoverFiles, At, Where
  <1>2. CASE Stop("error") /\ UNCHANGED part
    BY <1>0, <1>1, <1>2, StopKeeps
  <1>3. CASE /\ ~\E f \in Files : Short(f)
             /\ part' = [f \in Files |-> IF part[f] = Absent THEN <<>> ELSE SubSeq(part[f], 1, ms.rows)]
             /\ To("recover", "ident")
    <2>1. /\ ms # Absent /\ ms \in MergeStates /\ ms.next \in 0..N /\ ms.rows = Count(ms.next)
      <3>1. ms # Absent
        BY <1>0, <1>1 DEF WorkInv, WorkMatches, MergeStages, StageKinds, Ready
      <3> QED BY <3>1, MergeFacts
    <2>2. ASSUME NEW f \in Files
          PROVE  part'[f] = Merged(f, ms.next) /\ part'[f] \in FileStates /\ part'[f] # Absent
      <3>0. /\ Merged(f, ms.next) \in Seq(FileLines) /\ Merged(f, ms.next) # Absent
            /\ Len(Merged(f, ms.next)) = ms.rows
        BY <2>1, MergeFacts
      <3>1. CASE part[f] = Absent
        <4>1. ms.rows = 0
          BY <1>3, <3>1 DEF Short
        <4>2. Merged(f, ms.next) = <<>>
          BY <3>0, <4>1
        <4> QED BY <1>3, <3>0, <3>1, <4>2 DEF FileStates
      <3>2. CASE part[f] # Absent
        <4>1. part[f] \in Seq(FileLines)
          BY <1>0, <3>2 DEF FileStates
        <4>2. Extends(part[f], Merged(f, ms.next))
          BY <1>0, <2>1, <3>2 DEF DurableIsTrue, PartIsTrue
        <4>3. SubSeq(part[f], 1, ms.rows) = Merged(f, ms.next)
          BY <3>0, <4>1, <4>2, CutBack
        <4> QED BY <1>3, <3>0, <3>2, <4>3 DEF FileStates
      <3> QED BY <3>1, <3>2
    <2>3. part' \in [Files -> FileStates]
      <3>1. DOMAIN part' = Files /\ part' = [f \in Files |-> part'[f]]
        BY <1>3
      <3> QED BY <2>2, <3>1
    <2>4. MembersInv' /\ MergeTyped' /\ WorkMatches' /\ Where' = "recover"
      <3>1. Where \in MergeStages /\ "recover" \in MergeStages /\ "ident" \in Files /\ "recover" \in TwoFiles
        BY <1>1 DEF MergeStages, StageKinds, Files, TwoFiles
      <3>2. stage' = <<"recover", "ident">> /\ UNCHANGED <<tool, result, at, cursor, budget>>
        BY <1>3 DEF To
      <3>3. batch' \in [Files -> Seq(FileLines)]
        BY <1>0, <1>1 DEF MergeTyped
      <3> QED BY <1>0, <1>1, <2>1, <2>3, <3>1, <3>2, <3>3, GoesOn
    <2>5. DurableIsTrue'
      <3>1. Committed' = Committed
        BY <1>1 DEF Committed
      <3>2. \A f \in Files : Extends(part'[f], Merged(f, ms.next)) /\ part'[f] # Absent
        <4> TAKE f \in Files
        <4>1. part'[f] = Merged(f, ms.next) /\ Merged(f, ms.next) \in Seq(FileLines) /\ part'[f] # Absent
          BY <2>1, <2>2, MergeFacts
        <4> QED BY <4>1, ExtendsItself
      <3> QED BY <1>1, <2>1, <3>1, <3>2, DurableStays
    <2>6. WorkInv'
      <3>1. stage' = <<"recover", "ident">> /\ stage'[1] = "recover"
        BY <1>3 DEF To
      <3>2. \A f, n : Merged(f, n)' = Merged(f, n)
        BY <1>1, SameJob
      <3>3. \A f \in Files : part'[f] = Merged(f, ms.next)'
        BY <1>1, <2>2, <3>2
      <3>4. stage' \notin {<<"append", "corpus">>, <<"append", "ident">>, <<"finish", "ident">>, <<"rename", "ident">>}
        BY <3>1
      <3> QED BY <2>4, <3>3, <3>4 DEF WorkInv, MemberInWork, EndInWork
    <2> QED BY <2>4, <2>5, <2>6 DEF MergeInv
  <1> QED BY <1>2, <1>3 DEF RecoverFiles

\* What is added stays while the state and the files do.
LEMMA SameAdding ==
  ASSUME job' = job, ms' = ms, UNCHANGED fileVars
  PROVE  \A f \in Files : Adding(f)' = Adding(f)
  <1>1. \A f, n : Merged(f, n)' = Merged(f, n)
    BY SameJob
  <1>2. corpus' = corpus
    BY DEF fileVars
  <1> QED BY <1>1, <1>2 DEF Adding

\* The member in work is checked and prepared.
LEMMA TransformKeeps ==
  ASSUME MergeInv, Transform
  PROVE  MergeInv'
  <1> DEFINE n == ms.next  i == ms.next + 1  kept == Kept(i)
             kinds == [k \in DOMAIN kept |-> ident[i][kept[k]]]
             texts == [k \in DOMAIN kept |-> corpus[i][kept[k]]]
             lines == Numbered(ms.rows, i, kinds)
             added == IF job.merge = "strict" THEN corpus[i] ELSE texts
  <1>0. /\ MembersInv /\ MergeTyped /\ DurableIsTrue /\ WorkInv /\ job \in Jobs /\ N \in Nat /\ Members = 1..N
        /\ crashes \in 0..MaxCrashes /\ faults \in 0..MaxFaults
        /\ part \in [Files -> FileStates] /\ out \in [Files -> FileStates]
    BY MergeFacts
  <1>1. /\ job' = job /\ UNCHANGED fileVars /\ ms' = ms /\ part' = part /\ out' = out
        /\ crashes' = crashes /\ faults' = faults /\ tool = "merge" /\ stage = <<"transform", "corpus">>
        /\ Where = "transform"
    BY DEF Transform, At, Where
  <1>2. CASE Stop("error") /\ UNCHANGED <<seen, batch>>
    BY <1>0, <1>1, <1>2, StopKeeps
  <1>3. CASE /\ Admissible(i)
             /\ seen' = seen \cup
                   {[id |-> ident[i][kept[k]], member |-> i,
                     text |-> IF job.merge = "strict" THEN Absent ELSE corpus[i][kept[k]]]
                      : k \in DOMAIN kept}
             /\ batch' = [corpus |-> added, ident |-> lines]
             /\ To("append", "corpus")
    <2>1. /\ Ready /\ n < N /\ seen = SeenUpTo(n) /\ \A f \in Files : part[f] = Merged(f, n)
          /\ ms # Absent
      BY <1>0, <1>1 DEF WorkInv, WorkMatches, MergeStages, StageKinds, Ready, MemberInWork
    <2>2. ms \in MergeStates /\ n \in 0..N /\ n # N /\ n \in Nat /\ i \in Members /\ ms.rows = Count(n)
      <3>1. ms \in MergeStates /\ n \in 0..N /\ ms.rows = Count(n)
        BY <2>1, MergeFacts
      <3> HIDE DEF n
      <3>2. n + 1 \in 1..N /\ n \in Nat /\ n # N
        BY <1>0, <2>1, <3>1
      <3> QED BY <1>0, <3>1, <3>2 DEF n
    <2>3. InWork(n)
      <3>1. ~Ambiguous(RowsUpTo(n))
        BY <1>0, <2>1 DEF DurableIsTrue
      <3>2. marker[i] = Marker(i, job.window) /\ job.merge \in {"strict", "dedupe"}
        BY <2>1, <2>2 DEF Ready
      <3> QED BY <1>0, <1>3, <2>1, <2>2, <3>1, <3>2 DEF InWork
    <2>4. seen' = SeenUpTo(n + 1) /\ ~Ambiguous(RowsUpTo(n + 1))
      <3> HIDE DEF n
      <3>1. SeenUpTo(n + 1) =
              seen \cup {[id |-> ident[n + 1][Kept(n + 1)[k]], member |-> n + 1,
                       text |-> IF job.merge = "strict" THEN Absent ELSE corpus[n + 1][Kept(n + 1)[k]]]
                      : k \in DOMAIN Kept(n + 1)}
        BY <2>3, TransformedSeen
      <3> QED BY <1>3, <2>3, <3>1, Admitted DEF n
    <2>5. lines \in Seq(FileLines) /\ Merged("ident", n + 1) = Merged("ident", n) \o lines
      <3> HIDE DEF lines, n
      <3>1. lines = Numbered(ms.rows, n + 1, [k \in DOMAIN Kept(n + 1) |-> ident[n + 1][Kept(n + 1)[k]]])
        BY DEF lines, n
      <3> QED BY <2>3, <3>1, TransformedIdent
    <2>6. added \in Seq(FileLines) /\ Merged("corpus", n) \o added = Adding("corpus")
      <3>1. CASE job.merge = "strict"
        <4>1. corpus[i] \in FileStates /\ corpus[i] # Absent
          BY <1>0, <2>1, <2>2 DEF Ready, MembersInv, MembersTyped
        <4> QED BY <3>1, <4>1 DEF Adding, FileStates
      <3>2. CASE job.merge = "dedupe"
        <4> DEFINE new == [k \in DOMAIN Kept(n + 1) |-> corpus[n + 1][Kept(n + 1)[k]]]
        <4>1. added = new
          BY <3>2
        <4>2. new = [k \in DOMAIN Kept(n + 1) |-> corpus[n + 1][Kept(n + 1)[k]]]
          OBVIOUS
        <4> HIDE DEF new, n
        <4>3. new \in Seq(FileLines) /\ Merged("corpus", n + 1) = Merged("corpus", n) \o new
          BY <2>3, <3>2, <4>2, TransformedCorpus
        <4> QED BY <3>2, <4>1, <4>3 DEF Adding, n
      <3> QED BY <2>3, <3>1, <3>2 DEF InWork
    <2> HIDE DEF added, lines, n
    <2>7. batch'["corpus"] = added /\ batch'["ident"] = lines /\ batch' \in [Files -> Seq(FileLines)]
      <3>1. batch' = [corpus |-> added, ident |-> lines]
        BY <1>3
      <3>2. DOMAIN batch' = Files /\ batch' = [f \in Files |-> batch'[f]]
        BY <3>1 DEF Files
      <3>3. batch'["corpus"] = added /\ batch'["ident"] = lines
        BY <3>1
      <3> QED BY <2>5, <2>6, <3>2, <3>3 DEF Files
    <2>8. MembersInv' /\ MergeTyped' /\ WorkMatches' /\ Where' = "append"
      <3>1. Where \in MergeStages /\ "append" \in MergeStages /\ "corpus" \in Files
        BY <1>1 DEF MergeStages, StageKinds, Files
      <3>2. stage' = <<"append", "corpus">> /\ UNCHANGED <<tool, result, at, cursor, budget>>
        BY <1>3 DEF To
      <3>3. ms.next < N
        BY <2>1 DEF n
      <3> QED BY <1>0, <1>1, <2>1, <2>2, <2>7, <3>1, <3>2, <3>3, GoesOn
    <2>9. DurableIsTrue'
      <3>1. Committed' = SeenUpTo(n)
        <4>1. {s \in SeenUpTo(n + 1) : s.member <= n} = SeenUpTo(n)
          BY <1>0, <2>2, SeenGrows
        <4> QED BY <1>1, <2>4, <4>1 DEF Committed, n
      <3>2. Committed = SeenUpTo(n)
        BY <1>0, <2>1 DEF DurableIsTrue, n
      <3> QED BY <1>1, <2>1, <3>1, <3>2, DurableStays
    <2>10. WorkInv'
      <3>1. stage' = <<"append", "corpus">> /\ stage'[1] = "append"
        BY <1>3 DEF To
      <3>2. /\ \A f, m : Merged(f, m)' = Merged(f, m)
            /\ \A m : SeenUpTo(m)' = SeenUpTo(m) /\ RowsUpTo(m)' = RowsUpTo(m)
            /\ \A rows : Ambiguous(rows)' <=> Ambiguous(rows)
            /\ Adding("corpus")' = Adding("corpus")
        BY <1>1, SameJob, SameAdding DEF Files
      <3>3. seen' = SeenUpTo(ms.next + 1)' /\ ~Ambiguous(RowsUpTo(ms.next + 1))'
        BY <1>1, <2>4, <3>2 DEF n
      <3>4. /\ part'["corpus"] # Absent /\ part'["corpus"] \o batch'["corpus"] = Adding("corpus")'
            /\ part'["ident"] = Merged("ident", ms.next)'
            /\ Merged("ident", ms.next)' \o batch'["ident"] = Merged("ident", ms.next + 1)'
        <4>1. "corpus" \in Files /\ "ident" \in Files
          BY DEF Files
        <4>2. part["corpus"] = Merged("corpus", n) /\ part["ident"] = Merged("ident", n)
          BY <2>1, <4>1
        <4>3. part["corpus"] # Absent
          BY <2>2, <4>1, <4>2, MergeFacts
        <4>4. Merged("ident", ms.next)' = Merged("ident", n) /\ Merged("ident", ms.next + 1)' = Merged("ident", n + 1)
          BY <1>1, <3>2 DEF n
        <4> QED BY <1>1, <2>5, <2>6, <2>7, <3>2, <4>2, <4>3, <4>4
      <3>5. MemberInWork'
        <4>1. stage' \notin {<<"recover", "ident">>, <<"append", "ident">>}
          BY <3>1
        <4> QED BY <2>8, <3>3, <3>4, <4>1 DEF MemberInWork
      <3>6. EndInWork'
        <4>1. stage' \notin {<<"finish", "ident">>, <<"rename", "ident">>}
          BY <3>1
        <4> QED BY <2>8, <4>1 DEF EndInWork
      <3> QED BY <2>8, <3>5, <3>6 DEF WorkInv
    <2> QED BY <2>8, <2>9, <2>10 DEF MergeInv
  <1> QED BY <1>2, <1>3 DEF Transform

\* What is known while the member in work is added to the files.
LEMMA AppendFacts ==
  ASSUME MergeInv, Where \in {"append", "commit"}
  PROVE  /\ Ready /\ ms # Absent /\ ms \in MergeStates /\ ms.next < N /\ ms.next \in 0..N /\ ms.next # N
         /\ ms.next + 1 \in 0..N /\ ms.next + 1 \in Members /\ ms.rows = Count(ms.next)
         /\ seen = SeenUpTo(ms.next + 1) /\ ~Ambiguous(RowsUpTo(ms.next + 1))
         /\ Where \in MergeStages /\ tool = "merge"
  <1>1. WorkInv /\ N \in Nat /\ Members = 1..N
    BY MergeFacts
  <1>2. /\ Ready /\ ms # Absent /\ ms.next < N /\ Where \in MergeStages /\ tool = "merge"
        /\ seen = SeenUpTo(ms.next + 1) /\ ~Ambiguous(RowsUpTo(ms.next + 1))
    BY <1>1 DEF WorkInv, WorkMatches, MergeStages, StageKinds, Ready, MemberInWork
  <1>3. ms \in MergeStates /\ ms.next \in 0..N /\ ms.rows = Count(ms.next)
    BY <1>2, MergeFacts
  <1>4. ms.next # N /\ ms.next + 1 \in 1..N /\ ms.next + 1 \in 0..N
    BY <1>1, <1>2, <1>3
  <1> QED BY <1>1, <1>2, <1>3, <1>4

\* One line more is in a file.
LEMMA AppendRowKeeps ==
  ASSUME MergeInv, NEW f \in Files, AppendRow(f)
  PROVE  MergeInv'
  <1>0. /\ MembersInv /\ MergeTyped /\ DurableIsTrue /\ WorkInv /\ job \in Jobs
        /\ part \in [Files -> FileStates] /\ out \in [Files -> FileStates]
        /\ batch \in [Files -> Seq(FileLines)]
        /\ stage \in StageKinds \X Files /\ (stage[2] = "corpus" \/ stage[1] \in TwoFiles)
    BY MergeFacts DEF MergeTyped
  <1>1. /\ job' = job /\ UNCHANGED fileVars /\ ms' = ms /\ seen' = seen /\ out' = out
        /\ crashes' = crashes /\ faults' = faults /\ stage = <<"append", f>> /\ stage' = stage
        /\ tool' = tool /\ result' = result /\ at' = at /\ cursor' = cursor /\ budget' = budget
        /\ Where = "append" /\ batch[f] # <<>>
        /\ part' = [part EXCEPT ![f] = Append(@, Head(batch[f]))]
        /\ batch' = [batch EXCEPT ![f] = Tail(@)]
    BY DEF AppendRow, At, Where, memberVars, runVars
  <1>2. /\ ms # Absent /\ ms \in MergeStates /\ ms.next < N /\ ms.next \in 0..N /\ Where \in MergeStages
        /\ seen = SeenUpTo(ms.next + 1) /\ ~Ambiguous(RowsUpTo(ms.next + 1))
    BY <1>1, AppendFacts
  <1>3. part[f] # Absent /\ part[f] \in Seq(FileLines) /\ batch[f] \in Seq(FileLines)
    <2>1. part[f] # Absent
      <3>1. f = "corpus" \/ f = "ident"
        BY DEF Files
      <3> QED BY <1>0, <1>1, <3>1 DEF WorkInv, MemberInWork
    <2> QED BY <1>0, <2>1 DEF FileStates
  <1>4. Extends(part[f], Merged(f, ms.next)) /\ Merged(f, ms.next) \in Seq(FileLines)
    <2>1. PartIsTrue(f)
      BY <1>0, <1>2 DEF DurableIsTrue
    <2> QED BY <1>2, <1>3, <2>1, MergeFacts DEF PartIsTrue
  <1>5. /\ part'[f] \o batch'[f] = part[f] \o batch[f]
        /\ part'[f] \in Seq(FileLines) /\ batch'[f] \in Seq(FileLines)
        /\ Extends(part'[f], Merged(f, ms.next)) /\ part'[f] # Absent
    <2> DEFINE longer == Append(part[f], Head(batch[f]))  less == Tail(batch[f])
    <2>1. /\ longer \o less = part[f] \o batch[f]
          /\ longer \in Seq(FileLines) /\ less \in Seq(FileLines)
          /\ Extends(longer, Merged(f, ms.next))
      BY <1>1, <1>3, <1>4, MoveOne
    <2>2. part'[f] = longer /\ batch'[f] = less
      BY <1>0, <1>1
    <2> HIDE DEF longer, less
    <2>3. longer # Absent
      BY <2>1, MergeAssumption
    <2> QED BY <2>1, <2>2, <2>3
  <1>6. \A g \in Files \ {f} : part'[g] = part[g] /\ batch'[g] = batch[g]
    BY <1>0, <1>1
  <1>7. part' \in [Files -> FileStates] /\ batch' \in [Files -> Seq(FileLines)]
    <2>1. part'[f] \in FileStates
      BY <1>5 DEF FileStates
    <2>2. part' = [part EXCEPT ![f] = part'[f]] /\ batch' = [batch EXCEPT ![f] = batch'[f]]
      BY <1>0, <1>1
    <2> QED BY <1>0, <1>5, <2>1, <2>2
  <1>8. MembersInv' /\ MergeTyped' /\ WorkMatches' /\ Where' = "append"
    <2>1. "append" \in MergeStages /\ "append" \in TwoFiles /\ stage' = <<"append", f>>
      BY <1>1 DEF MergeStages, StageKinds, TwoFiles
    <2> QED BY <1>0, <1>1, <1>2, <1>7, <2>1, GoesOn
  <1>9. DurableIsTrue'
    <2>1. Committed' = Committed
      BY <1>1 DEF Committed
    <2> QED BY <1>1, <1>2, <1>5, <1>6, <2>1, DurableStays
  <1>10. WorkInv'
    <2>1. /\ \A g, m : Merged(g, m)' = Merged(g, m)
          /\ \A m : SeenUpTo(m)' = SeenUpTo(m) /\ RowsUpTo(m)' = RowsUpTo(m)
          /\ \A rows : Ambiguous(rows)' <=> Ambiguous(rows)
          /\ Adding("corpus")' = Adding("corpus")
      BY <1>1, SameJob, SameAdding DEF Files
    <2>2. /\ Merged("ident", ms.next)' = Merged("ident", ms.next)
          /\ Merged("corpus", ms.next + 1)' = Merged("corpus", ms.next + 1)
          /\ Merged("ident", ms.next + 1)' = Merged("ident", ms.next + 1)
          /\ seen' = SeenUpTo(ms.next + 1)' /\ ~Ambiguous(RowsUpTo(ms.next + 1))'
      BY <1>1, <1>2, <2>1
    <2>3. MemberInWork'
      <3>1. CASE f = "corpus"
        <4>1. /\ part["corpus"] \o batch["corpus"] = Adding("corpus")
              /\ part["ident"] = Merged("ident", ms.next)
              /\ Merged("ident", ms.next) \o batch["ident"] = Merged("ident", ms.next + 1)
          BY <1>0, <1>1, <3>1 DEF WorkInv, MemberInWork
        <4>2. part'["ident"] = part["ident"] /\ batch'["ident"] = batch["ident"]
          BY <1>6, <3>1 DEF Files
        <4>3. stage' = <<"append", "corpus">> /\ stage' \notin {<<"recover", "ident">>, <<"append", "ident">>}
          BY <1>1, <3>1
        <4> QED BY <1>5, <1>8, <2>1, <2>2, <3>1, <4>1, <4>2, <4>3 DEF MemberInWork
      <3>2. CASE f = "ident"
        <4>1. /\ part["ident"] \o batch["ident"] = Merged("ident", ms.next + 1)
              /\ part["corpus"] = Merged("corpus", ms.next + 1)
          BY <1>0, <1>1, <3>2 DEF WorkInv, MemberInWork
        <4>2. part'["corpus"] = part["corpus"]
          BY <1>6, <3>2 DEF Files
        <4>3. stage' = <<"append", "ident">> /\ stage' \notin {<<"recover", "ident">>, <<"append", "corpus">>}
          BY <1>1, <3>2
        <4> QED BY <1>5, <1>8, <2>2, <3>2, <4>1, <4>2, <4>3 DEF MemberInWork
      <3> QED BY <3>1, <3>2 DEF Files
    <2>4. EndInWork'
      <3>1. stage' \notin {<<"finish", "ident">>, <<"rename", "ident">>}
        BY <1>1
      <3> QED BY <1>8, <3>1 DEF EndInWork
    <2> QED BY <1>8, <2>3, <2>4 DEF WorkInv
  <1> QED BY <1>8, <1>9, <1>10 DEF MergeInv

\* A file has all lines of the member, or loses them again.
LEMMA AppendsKeeps ==
  ASSUME MergeInv, NEW f \in Files, Appends(f)
  PROVE  MergeInv'
  <1> DEFINE n == ms.next
             differs == job.merge = "strict" /\ f = "corpus" /\ corpus[n + 1] # marker[n + 1].corpus
  <1>0. /\ MembersInv /\ MergeTyped /\ DurableIsTrue /\ WorkInv /\ job \in Jobs
        /\ crashes \in 0..MaxCrashes /\ faults \in 0..MaxFaults
        /\ part \in [Files -> FileStates] /\ out \in [Files -> FileStates]
        /\ batch \in [Files -> Seq(FileLines)]
    BY MergeFacts DEF MergeTyped
  <1>1. /\ job' = job /\ UNCHANGED fileVars /\ ms' = ms /\ seen' = seen /\ out' = out
        /\ crashes' = crashes /\ faults' = faults /\ stage = <<"append", f>>
        /\ Where = "append" /\ batch[f] = <<>>
    BY DEF Appends, At, Where
  <1>2. /\ ms # Absent /\ ms \in MergeStates /\ ms.next < N /\ n \in 0..N /\ n # N /\ Where \in MergeStages
        /\ seen = SeenUpTo(n + 1) /\ ~Ambiguous(RowsUpTo(n + 1)) /\ ms.rows = Count(n) /\ Ready /\ n + 1 \in Members
    BY <1>1, AppendFacts
  <1>3. part[f] # Absent /\ part[f] \in Seq(FileLines)
    <2>1. part[f] # Absent
      <3>1. f = "corpus" \/ f = "ident"
        BY DEF Files
      <3> QED BY <1>0, <1>1, <3>1 DEF WorkInv, MemberInWork
    <2> QED BY <1>0, <2>1 DEF FileStates
  <1>4. CASE differs
    <2>1. part' = [part EXCEPT ![f] = SubSeq(@, 1, ms.rows)] /\ Stop("error") /\ batch' = NoBatch
      BY <1>4 DEF Appends
    <2>2. SubSeq(part[f], 1, ms.rows) = Merged(f, n) /\ Merged(f, n) \in FileStates
      <3>1. Extends(part[f], Merged(f, n))
        BY <1>0, <1>2, <1>3 DEF DurableIsTrue, PartIsTrue
      <3>2. Merged(f, n) \in Seq(FileLines) /\ Len(Merged(f, n)) = ms.rows
        BY <1>2, MergeFacts
      <3> QED BY <1>3, <3>1, <3>2, CutBack DEF FileStates
    <2>3. part'[f] = Merged(f, n) /\ part' \in [Files -> FileStates]
          /\ \A g \in Files \ {f} : part'[g] = part[g]
      <3>1. part' = [part EXCEPT ![f] = Merged(f, n)]
        BY <1>0, <2>1, <2>2
      <3> HIDE DEF n
      <3> QED BY <1>0, <2>2, <3>1
    <2> QED BY <1>0, <1>1, <1>2, <2>1, <2>3, StopKeeps
  <1>5. CASE ~differs
    <2>1. /\ After("append", f, "commit") /\ part' = part /\ batch' = batch
      BY <1>5 DEF Appends
    <2>2. UNCHANGED mergeFiles
      BY <1>1, <2>1 DEF mergeFiles
    <2>3. part[f] \o batch[f] = part[f]
      BY <1>1, <1>3
    <2>4. /\ \A g, m : Merged(g, m)' = Merged(g, m)
          /\ \A m : SeenUpTo(m)' = SeenUpTo(m) /\ RowsUpTo(m)' = RowsUpTo(m)
          /\ \A rows : Ambiguous(rows)' <=> Ambiguous(rows)
      BY <1>1, SameJob
    <2>5. /\ Merged("corpus", ms.next + 1)' = Merged("corpus", n + 1)
          /\ Merged("ident", ms.next + 1)' = Merged("ident", n + 1)
          /\ seen' = SeenUpTo(ms.next + 1)' /\ ~Ambiguous(RowsUpTo(ms.next + 1))'
      BY <1>1, <1>2, <2>4
    <2>6. DurableIsTrue'
      BY <1>0, <1>1, <2>2, DurableKept
    <2>7. CASE f = "corpus"
      <3>1. To("append", "ident") /\ stage' = <<"append", "ident">>
        BY <2>1, <2>7 DEF After, To
      <3>2. MembersInv' /\ MergeTyped' /\ WorkMatches' /\ Where' = "append"
        <4>1. "append" \in MergeStages /\ "append" \in TwoFiles /\ "ident" \in Files
          BY DEF MergeStages, StageKinds, TwoFiles, Files
        <4>2. UNCHANGED <<tool, result, at, cursor, budget>>
          BY <3>1 DEF To
        <4> QED BY <1>0, <1>1, <1>2, <2>1, <3>1, <4>1, <4>2, GoesOn
      <3>3. /\ part["corpus"] = Adding("corpus") /\ part["ident"] = Merged("ident", n)
            /\ Merged("ident", n) \o batch["ident"] = Merged("ident", n + 1)
        BY <1>0, <1>1, <2>3, <2>7 DEF WorkInv, MemberInWork
      <3>4. Adding("corpus") = Merged("corpus", n + 1)
        <4>1. CASE job.merge = "strict"
          <5>1. corpus[n + 1] = Marker(n + 1, job.window).corpus
            BY <1>2, <1>5, <2>7, <4>1 DEF Ready
          <5>2. corpus[n + 1] = Texts(Selected(n + 1, job.window))
            BY <5>1 DEF Marker
          <5>3. Merged("corpus", n + 1) = Merged("corpus", n) \o Texts(Selected(n + 1, job.window))
            <6> HIDE DEF n
            <6> QED BY <1>0, <1>2, <4>1, StrictCorpus
          <5> QED BY <4>1, <5>2, <5>3 DEF Adding
        <4>2. CASE job.merge # "strict"
          BY <4>2 DEF Adding
        <4> QED BY <4>1, <4>2
      <3>5. "ident" \in Files /\ Merged("ident", n) # Absent
        <4>1. "ident" \in Files
          BY DEF Files
        <4> QED BY <1>2, <4>1, MergeFacts
      <3>6. MemberInWork'
        <4>1. stage' \notin {<<"recover", "ident">>, <<"append", "corpus">>}
          BY <3>1
        <4>2. part'["corpus"] = Merged("corpus", ms.next + 1)'
          BY <2>1, <2>5, <3>3, <3>4
        <4>3. part'["ident"] # Absent /\ part'["ident"] \o batch'["ident"] = Merged("ident", ms.next + 1)'
          BY <2>1, <2>5, <3>3, <3>5
        <4> QED BY <2>5, <3>1, <3>2, <4>1, <4>2, <4>3 DEF MemberInWork
      <3>7. EndInWork'
        <4>1. stage' \notin {<<"finish", "ident">>, <<"rename", "ident">>}
          BY <3>1
        <4> QED BY <3>2, <4>1 DEF EndInWork
      <3> QED BY <2>6, <3>2, <3>6, <3>7 DEF WorkInv, MergeInv
    <2>8. CASE f = "ident"
      <3>1. To("commit", "corpus") /\ stage' = <<"commit", "corpus">>
        BY <2>1, <2>8 DEF After, To
      <3>2. MembersInv' /\ MergeTyped' /\ WorkMatches' /\ Where' = "commit"
        <4>1. "commit" \in MergeStages /\ "corpus" \in Files
          BY DEF MergeStages, StageKinds, Files
        <4>2. UNCHANGED <<tool, result, at, cursor, budget>>
          BY <3>1 DEF To
        <4> QED BY <1>0, <1>1, <1>2, <2>1, <3>1, <4>1, <4>2, GoesOn
      <3>3. part["ident"] = Merged("ident", n + 1) /\ part["corpus"] = Merged("corpus", n + 1)
        BY <1>0, <1>1, <2>3, <2>8 DEF WorkInv, MemberInWork
      <3>4. \A g \in Files : part'[g] = Merged(g, ms.next + 1)'
        BY <1>1, <2>1, <2>4, <2>5, <3>3 DEF Files
      <3>5. MemberInWork' /\ EndInWork'
        <4>1. stage' \notin {<<"recover", "ident">>, <<"append", "corpus">>, <<"append", "ident">>,
                             <<"finish", "ident">>, <<"rename", "ident">>}
          BY <3>1
        <4> QED BY <2>5, <3>2, <3>4, <4>1 DEF MemberInWork, EndInWork
      <3> QED BY <2>6, <3>2, <3>5 DEF WorkInv, MergeInv
    <2> QED BY <2>7, <2>8 DEF Files
  <1> QED BY <1>4, <1>5

\* The member in work is counted.
LEMMA CommitKeeps ==
  ASSUME MergeInv, Commit
  PROVE  MergeInv'
  <1> DEFINE n == ms.next + 1
  <1>0. /\ MembersInv /\ MergeTyped /\ DurableIsTrue /\ WorkInv /\ job \in Jobs /\ N \in Nat
        /\ crashes \in 0..MaxCrashes /\ faults \in 0..MaxFaults
        /\ part \in [Files -> FileStates] /\ out \in [Files -> FileStates]
        /\ batch \in [Files -> Seq(FileLines)]
    BY MergeFacts DEF MergeTyped
  <1>1. /\ job' = job /\ UNCHANGED fileVars /\ part' = part /\ seen' = seen /\ out' = out /\ batch' = batch
        /\ crashes' = crashes /\ faults' = faults /\ stage = <<"commit", "corpus">> /\ Where = "commit"
        /\ ms' = [ms EXCEPT !.next = @ + 1, !.rows = Cardinality({s \in seen : s.member <= ms.next + 1})]
    BY DEF Commit, At, Where
  <1>2. /\ ms # Absent /\ ms \in MergeStates /\ ms.next < N /\ ms.next \in 0..N /\ ms.next # N /\ n \in 0..N
        /\ seen = SeenUpTo(n) /\ ~Ambiguous(RowsUpTo(n)) /\ Where \in MergeStages /\ tool = "merge"
    BY <1>1, AppendFacts
  <1>3. {s \in seen : s.member <= n} = SeenUpTo(n) /\ Cardinality(SeenUpTo(n)) = Count(n)
    BY <1>0, <1>2, SeenGrows, SeenOfFirsts
  <1>4. /\ ms'.next = n /\ ms'.rows = Count(n) /\ ms'.complete = ms.complete /\ ms' \in MergeStates
    <2>1. Count(n) \in 0..Len(AllRows)
      BY <1>2, MergeFacts
    <2>2. ms' = [ms EXCEPT !.next = n, !.rows = Count(n)]
      BY <1>1, <1>3
    <2> HIDE DEF n
    <2> QED BY <1>2, <2>1, <2>2 DEF MergeStates
  <1>5. ms' # Absent
    <2>1. ms' \in [next : Nat, rows : Nat, complete : BOOLEAN]
      BY <1>4 DEF MergeStates
    <2> QED BY <2>1, MergeAssumption
  <1>6. \A f \in Files : part[f] = Merged(f, n) /\ Merged(f, n) \in Seq(FileLines) /\ part[f] # Absent
    <2>1. \A f \in Files : part[f] = Merged(f, n)
      BY <1>0, <1>1 DEF WorkInv, MemberInWork
    <2>2. \A f \in Files : Merged(f, n) \in Seq(FileLines) /\ Merged(f, n) # Absent
      BY <1>2, MergeFacts
    <2> QED BY <2>1, <2>2
  <1> HIDE DEF n
  <1>7. /\ N' = N /\ AllRows' = AllRows
        /\ \A f \in Files : Merged(f, ms.next)' = Merged(f, n)
        /\ Count(ms.next)' = Count(n) /\ SeenUpTo(ms.next)' = SeenUpTo(n)
        /\ ~Ambiguous(RowsUpTo(ms.next))'
    <2>1. /\ N' = N /\ AllRows' = AllRows
          /\ \A f, m : Merged(f, m)' = Merged(f, m)
          /\ \A m : SeenUpTo(m)' = SeenUpTo(m)
          /\ \A m : RowsUpTo(m)' = RowsUpTo(m)
          /\ \A rows : Ambiguous(rows)' <=> Ambiguous(rows)
      BY <1>1, SameJob
    <2>2. \A m : Count(m)' = Count(m)
      BY <1>1, SameCount
    <2>3. RowsUpTo(ms.next)' = RowsUpTo(n)
      BY <1>4, <2>1
    <2>4. ~Ambiguous(RowsUpTo(ms.next))'
      BY <1>2, <2>1, <2>3 DEF Ambiguous
    <2> QED BY <1>4, <2>1, <2>2, <2>4
  <1>8. DurableIsTrue'
    <2>1. \A f \in Files : out[f] = Absent
      <3> SUFFICES ASSUME NEW f \in Files, out[f] # Absent PROVE FALSE
        OBVIOUS
      <3>1. ResultIsTrue(f)
        BY <1>0 DEF DurableIsTrue
      <3>2. job.merge # "whole"
        BY <1>0, <1>2 DEF DurableIsTrue
      <3> QED BY <1>2, <3>1, <3>2 DEF ResultIsTrue
    <2>2. \A f \in Files : PartIsTrue(f)' /\ ResultIsTrue(f)'
      <3> TAKE f \in Files
      <3>1. Extends(part'[f], Merged(f, ms.next)')
        <4>1. part'[f] = Merged(f, n) /\ Merged(f, n) \in Seq(FileLines) /\ Merged(f, ms.next)' = Merged(f, n)
          BY <1>1, <1>6, <1>7
        <4> QED BY <4>1, ExtendsItself
      <3>2. part'[f] # Absent /\ out'[f] = Absent
        BY <1>1, <1>6, <2>1
      <3> QED BY <3>1, <3>2 DEF PartIsTrue, ResultIsTrue
    <2>3. Committed' = SeenUpTo(n)
      BY <1>1, <1>3, <1>4 DEF Committed
    <2>4. ms'.complete => Exist(out')
      BY <1>0, <1>1, <1>2, <1>4 DEF DurableIsTrue
    <2>5. job'.merge # "whole"
      BY <1>0, <1>1, <1>2 DEF DurableIsTrue
    <2> QED BY <1>4, <1>5, <1>7, <2>2, <2>3, <2>4, <2>5 DEF DurableIsTrue, Exist
  <1>9. MergeStates' = MergeStates
    BY <1>7 DEF MergeStates
  <1>10. CASE To("member", "corpus")
    <2>1. stage' = <<"member", "corpus">> /\ UNCHANGED <<tool, result, at, cursor, budget>>
      BY <1>10 DEF To
    <2>2. MembersInv' /\ MergeTyped' /\ WorkMatches' /\ Where' = "member"
      <3>1. "member" \in MergeStages /\ "corpus" \in Files
        BY DEF MergeStages, StageKinds, Files
      <3> QED BY <1>0, <1>1, <1>2, <1>4, <1>5, <2>1, <3>1, GoesOn
    <2>3. \A f \in Files : part'[f] = Merged(f, ms.next)'
      BY <1>1, <1>6, <1>7
    <2>4. MemberInWork' /\ EndInWork'
      <3>1. stage' \notin {<<"append", "corpus">>, <<"append", "ident">>,
                           <<"finish", "ident">>, <<"rename", "ident">>}
        BY <2>1
      <3> QED BY <2>2, <2>3, <3>1 DEF MemberInWork, EndInWork
    <2> QED BY <1>8, <2>2, <2>4 DEF WorkInv, MergeInv
  <1>11. CASE Stop("progress")
    <2>1. stage' = NoStage /\ tool' = "idle" /\ End("progress")
      BY <1>11 DEF Stop, End
    <2>2. MembersInv'
      <3>1. Quiet
        BY <1>0, <1>1, <2>1 DEF Quiet
      <3> QED BY <1>0, <3>1, MembersKept
    <2>3. MergeTyped'
      <3>1. stage' \in StageKinds \X Files /\ stage'[2] = "corpus"
        BY <2>1 DEF NoStage, StageKinds, Files
      <3> QED BY <1>0, <1>1, <1>4, <1>9, <3>1 DEF MergeTyped
    <2>4. WorkInv'
      <3>1. Where' = "none"
        BY <2>1 DEF Where, NoStage
      <3> QED BY <2>1, <3>1, NothingInWork
    <2> QED BY <1>8, <2>2, <2>3, <2>4 DEF MergeInv
  <1> QED BY <1>10, <1>11 DEF Commit

\* The places of the end of a merge.
EndStages == {"member", "finish", "complete", "refinalize", "rename", "recomplete"}

\* What is known at the end of a merge.
LEMMA EndFacts ==
  ASSUME MergeInv, Where \in EndStages, Where = "member" => ms.next = N
  PROVE  /\ Ready /\ ms # Absent /\ ms \in MergeStates /\ ms.next = N /\ N \in 0..N /\ ms.rows = Count(N)
         /\ Where \in MergeStages /\ tool = "merge" /\ job.merge \in {"strict", "dedupe"}
  <1>1. WorkInv /\ N \in Nat
    BY MergeFacts
  <1>2. /\ Ready /\ ms # Absent /\ Where \in MergeStages /\ tool = "merge" /\ ms.next = N
        /\ job.merge \in {"strict", "dedupe"}
    BY <1>1 DEF WorkInv, WorkMatches, MergeStages, StageKinds, Ready, EndStages
  <1>3. ms \in MergeStates /\ ms.rows = Count(ms.next)
    BY <1>2, MergeFacts
  <1> QED BY <1>1, <1>2, <1>3

\* A partial file that has the size is what is to be its result, and gets its
\* name.
LEMMA RenameKeeps ==
  ASSUME MergeInv, NEW f \in Files, ms # Absent, ms.next = N, job.merge # "whole",
         Rename(f), Fits(part[f]), job' = job, ms' = ms, seen' = seen
  PROVE  /\ DurableIsTrue' /\ out'[f] # Absent
         /\ out' \in [Files -> FileStates] /\ part' \in [Files -> FileStates]
         /\ \A g \in Files \ {f} : out'[g] = out[g] /\ part'[g] = part[g]
  <1>0. /\ DurableIsTrue /\ part \in [Files -> FileStates] /\ out \in [Files -> FileStates]
        /\ N \in Nat /\ ms.rows = Count(ms.next) /\ ms.next \in 0..N
    BY MergeFacts
  <1>1. /\ Merged(f, ms.next) \in Seq(FileLines) /\ Len(Merged(f, ms.next)) = ms.rows
    BY <1>0, MergeFacts
  <1>2. part[f] = Merged(f, N) /\ part[f] # Absent
    <2>1. part[f] \in Seq(FileLines) /\ Len(part[f]) = ms.rows /\ part[f] # Absent
      BY <1>0 DEF Fits, FileStates
    <2>2. Extends(part[f], Merged(f, ms.next))
      BY <1>0, <2>1 DEF DurableIsTrue, PartIsTrue
    <2>3. SubSeq(part[f], 1, ms.rows) = Merged(f, ms.next)
      BY <1>1, <2>1, <2>2, CutBack
    <2>4. SubSeq(part[f], 1, ms.rows) = part[f]
      <3> DEFINE file == part[f]
      <3>1. Extends(file, file) /\ file \in Seq(FileLines) /\ ms.rows = Len(file)
        BY <2>1, ExtendsItself
      <3> HIDE DEF file
      <3>2. SubSeq(file, 1, ms.rows) = file
        BY <3>1, CutBack
      <3> QED BY <3>2 DEF file
    <2> QED BY <2>1, <2>3, <2>4
  <1>3. out' = [out EXCEPT ![f] = part[f]] /\ part' = [part EXCEPT ![f] = Absent]
    BY DEF Rename
  <1>4. /\ out'[f] = Merged(f, N) /\ out'[f] # Absent /\ part'[f] = Absent
        /\ \A g \in Files \ {f} : out'[g] = out[g] /\ part'[g] = part[g]
    BY <1>0, <1>2, <1>3
  <1>5. out' \in [Files -> FileStates] /\ part' \in [Files -> FileStates]
    <2>1. Absent \in FileStates /\ part[f] \in FileStates
      BY <1>0 DEF FileStates
    <2> QED BY <1>0, <1>3, <2>1
  <1>6. /\ N' = N /\ AllRows' = AllRows
        /\ \A g, m : Merged(g, m)' = Merged(g, m)
        /\ \A m : SeenUpTo(m)' = SeenUpTo(m) /\ Count(m)' = Count(m) /\ RowsUpTo(m)' = RowsUpTo(m)
        /\ \A rows : Ambiguous(rows)' <=> Ambiguous(rows)
    BY SameJob, SameCount
  <1>7. \A g \in Files : PartIsTrue(g)' /\ ResultIsTrue(g)'
    <2> TAKE g \in Files
    <2>1. CASE g = f
      <3>1. PartIsTrue(g)'
        BY <1>4, <2>1 DEF PartIsTrue
      <3>2. ResultIsTrue(g)'
        BY <1>4, <1>6, <2>1 DEF ResultIsTrue
      <3> QED BY <3>1, <3>2
    <2>2. CASE g # f
      <3>1. part'[g] = part[g] /\ out'[g] = out[g] /\ PartIsTrue(g) /\ ResultIsTrue(g)
        BY <1>0, <1>4, <2>2 DEF DurableIsTrue
      <3>2. Merged(g, ms.next)' = Merged(g, ms.next)
        BY <1>6
      <3>3. PartIsTrue(g)'
        BY <3>1, <3>2 DEF PartIsTrue
      <3>4. ResultIsTrue(g)'
        BY <1>6, <3>1 DEF ResultIsTrue
      <3> QED BY <3>3, <3>4
    <2> QED BY <2>1, <2>2
  <1>8. /\ ms'.rows = Count(ms.next)' /\ ~Ambiguous(RowsUpTo(ms.next))' /\ Committed' = SeenUpTo(ms.next)'
    <2>1. Committed' = Committed
      BY DEF Committed
    <2> QED BY <1>0, <1>6, <2>1 DEF DurableIsTrue
  <1>9. ms'.complete => Exist(out')
    BY <1>0, <1>4 DEF DurableIsTrue, Exist
  <1>10. DurableIsTrue'
    BY <1>7, <1>8, <1>9 DEF DurableIsTrue, Exist
  <1> QED BY <1>4, <1>5, <1>10

\* Where both results are there, they are complete.
LEMMA CompleteMarks ==
  ASSUME MergeInv, ms # Absent, Exist(out), ms' = [ms EXCEPT !.complete = TRUE],
         job' = job, seen' = seen, part' = part, out' = out
  PROVE  DurableIsTrue' /\ ms' \in MergeStates /\ ms' # Absent /\ ms'.next = ms.next
  <1>0. DurableIsTrue /\ ms \in MergeStates
    BY MergeFacts
  <1>1. ms'.next = ms.next /\ ms'.rows = ms.rows /\ ms' \in MergeStates
    BY <1>0 DEF MergeStates
  <1>2. ms' # Absent
    <2>1. N \in Nat
      BY MergeFacts
    <2>2. ms' \in [next : Nat, rows : Nat, complete : BOOLEAN]
      BY <1>1, <2>1 DEF MergeStates
    <2> QED BY <2>2, MergeAssumption
  <1>3. /\ N' = N /\ AllRows' = AllRows
        /\ \A g, m : Merged(g, m)' = Merged(g, m)
        /\ \A m : SeenUpTo(m)' = SeenUpTo(m) /\ Count(m)' = Count(m) /\ RowsUpTo(m)' = RowsUpTo(m)
        /\ \A rows : Ambiguous(rows)' <=> Ambiguous(rows)
    BY SameJob, SameCount
  <1>4. \A g \in Files : PartIsTrue(g)' /\ ResultIsTrue(g)'
    <2> TAKE g \in Files
    <2>1. PartIsTrue(g) /\ ResultIsTrue(g)
      BY <1>0 DEF DurableIsTrue
    <2>2. Merged(g, ms.next)' = Merged(g, ms.next)
      BY <1>1, <1>3
    <2>3. PartIsTrue(g)'
      BY <1>1, <2>1, <2>2 DEF PartIsTrue
    <2>4. ResultIsTrue(g)'
      <3>1. job.merge # "whole"
        BY <1>0 DEF DurableIsTrue
      <3> QED BY <1>1, <1>2, <1>3, <2>1, <3>1 DEF ResultIsTrue
    <2> QED BY <2>3, <2>4
  <1>5. /\ ms'.rows = Count(ms.next)' /\ Committed' = SeenUpTo(ms.next)'
    <2>1. Committed' = Committed
      BY <1>1 DEF Committed
    <2> QED BY <1>0, <1>1, <1>3, <2>1 DEF DurableIsTrue
  <1>6. ~Ambiguous(RowsUpTo(ms.next))'
    <2>1. RowsUpTo(ms.next)' = RowsUpTo(ms.next)
      BY <1>1, <1>3
    <2> QED BY <1>0, <2>1 DEF DurableIsTrue, Ambiguous
  <1>7. (job'.merge = "whole" => ms' = Absent) /\ Exist(out')
    BY <1>0 DEF DurableIsTrue, Exist
  <1>8. DurableIsTrue'
    BY <1>2, <1>4, <1>5, <1>6, <1>7 DEF DurableIsTrue, Exist
  <1> QED BY <1>1, <1>2, <1>8

\* A state that names both results ends the run, or starts its end anew.
LEMMA CompleteKeeps ==
  ASSUME MergeInv, Complete \/ Recomplete
  PROVE  MergeInv'
  <1>0. /\ MembersInv /\ MergeTyped /\ DurableIsTrue /\ WorkInv /\ job \in Jobs
        /\ crashes \in 0..MaxCrashes /\ faults \in 0..MaxFaults
        /\ part \in [Files -> FileStates] /\ out \in [Files -> FileStates]
        /\ batch \in [Files -> Seq(FileLines)]
    BY MergeFacts DEF MergeTyped
  <1>1. /\ job' = job /\ UNCHANGED fileVars /\ part' = part /\ seen' = seen /\ out' = out /\ batch' = batch
        /\ crashes' = crashes /\ faults' = faults /\ Where \in {"complete", "recomplete"}
        /\ ms' = [ms EXCEPT !.complete = TRUE]
    BY DEF Complete, Recomplete, At, Where
  <1>2. /\ ms # Absent /\ ms.next = N /\ Where \in MergeStages /\ tool = "merge"
    BY <1>1, EndFacts DEF EndStages
  <1>3. Exist(out)
    BY <1>0, <1>1 DEF WorkInv, EndInWork
  <1>4. DurableIsTrue' /\ ms' \in MergeStates /\ ms' # Absent /\ ms'.next = N
    BY <1>1, <1>2, <1>3, CompleteMarks
  <1>5. CASE Stop("pass")
    <2>1. stage' = NoStage /\ tool' = "idle" /\ End("pass")
      BY <1>5 DEF Stop, End
    <2>2. MembersInv'
      <3>1. Quiet
        BY <1>0, <1>1, <2>1 DEF Quiet
      <3> QED BY <1>0, <3>1, MembersKept
    <2>3. MergeTyped'
      <3>1. stage' \in StageKinds \X Files /\ stage'[2] = "corpus"
        BY <2>1 DEF NoStage, StageKinds, Files
      <3>2. N' = N /\ AllRows' = AllRows
        BY <1>1, SameJob
      <3>3. MergeStates' = MergeStates
        BY <3>2 DEF MergeStates
      <3> QED BY <1>0, <1>1, <1>4, <3>1, <3>3 DEF MergeTyped
    <2>4. WorkInv'
      <3>1. Where' = "none"
        BY <2>1 DEF Where, NoStage
      <3> QED BY <2>1, <3>1, NothingInWork
    <2> QED BY <1>4, <2>2, <2>3, <2>4 DEF MergeInv
  <1>6. CASE To("finish", "corpus")
    <2>1. stage' = <<"finish", "corpus">> /\ UNCHANGED <<tool, result, at, cursor, budget>>
      BY <1>6 DEF To
    <2>2. MembersInv' /\ MergeTyped' /\ WorkMatches' /\ Where' = "finish"
      <3>1. "finish" \in MergeStages /\ "corpus" \in Files
        BY DEF MergeStages, StageKinds, Files
      <3> QED BY <1>0, <1>1, <1>2, <1>4, <2>1, <3>1, GoesOn
    <2>3. MemberInWork' /\ EndInWork'
      <3>1. stage' \notin {<<"recover", "ident">>, <<"append", "corpus">>, <<"append", "ident">>,
                           <<"finish", "ident">>, <<"rename", "ident">>}
        BY <2>1
      <3> QED BY <2>2, <3>1 DEF MemberInWork, EndInWork
    <2> QED BY <1>4, <2>2, <2>3 DEF WorkInv, MergeInv
  <1> QED BY <1>5, <1>6 DEF Complete, Recomplete

\* The partial files get their final names.
LEMMA FinishKeeps ==
  ASSUME MergeInv, NEW f \in Files, Finish(f) \/ RenameAgain(f)
  PROVE  MergeInv'
  <1>0. /\ MembersInv /\ MergeTyped /\ DurableIsTrue /\ WorkInv /\ job \in Jobs
        /\ crashes \in 0..MaxCrashes /\ faults \in 0..MaxFaults
        /\ part \in [Files -> FileStates] /\ out \in [Files -> FileStates]
        /\ batch \in [Files -> Seq(FileLines)]
    BY MergeFacts DEF MergeTyped
  <1>1. /\ job' = job /\ UNCHANGED fileVars /\ ms' = ms /\ seen' = seen /\ batch' = batch
        /\ crashes' = crashes /\ faults' = faults
    BY DEF Finish, RenameAgain
  <1>2. /\ Where \in {"member", "finish", "rename"} /\ (Where = "member" => ms.next = N)
        /\ f = "ident" => stage \in {<<"finish", "ident">>, <<"rename", "ident">>}
    <2>1. /\ stage \in {<<"finish", f>>, <<"rename", f>>, <<"member", f>>} /\ (stage = <<"member", f>> => ms.next = N)
          /\ stage = <<"member", f>> => f = "corpus"
      BY DEF Finish, RenameAgain, At
    <2> QED BY <2>1 DEF Where
  <1>3. /\ ms # Absent /\ ms \in MergeStates /\ ms.next = N /\ Where \in MergeStages /\ tool = "merge"
        /\ job.merge \in {"strict", "dedupe"}
    BY <1>2, EndFacts DEF EndStages
  <1>4. CASE Stop("error") /\ UNCHANGED <<part, out>>
    BY <1>0, <1>1, <1>4, StopKeeps
  <1>5. ASSUME NEW on \in {"finish", "rename"}, NEW then \in {"complete", "recomplete"},
               After(on, f, then), IF out[f] = Absent THEN Rename(f) ELSE UNCHANGED <<part, out>>,
               out[f] = Absent => Fits(part[f]),
               on = "finish" /\ f = "corpus" /\ job.merge = "strict" => Fits(part["ident"]),
               on = "rename" \/ then = "recomplete" => job.merge = "strict"
        PROVE  MergeInv'
    <2>1. /\ DurableIsTrue' /\ out'[f] # Absent
          /\ out' \in [Files -> FileStates] /\ part' \in [Files -> FileStates]
          /\ \A g \in Files \ {f} : out'[g] = out[g] /\ part'[g] = part[g]
      <3>1. CASE out[f] = Absent
        BY <1>1, <1>3, <1>5, <3>1, RenameKeeps
      <3>2. CASE out[f] # Absent
        <4>1. part' = part /\ out' = out
          BY <1>5, <3>2
        <4>2. UNCHANGED mergeFiles
          BY <1>1, <4>1 DEF mergeFiles
        <4> QED BY <1>0, <1>1, <3>2, <4>1, <4>2, DurableKept
      <3> QED BY <3>1, <3>2
    <2>2. UNCHANGED <<tool, result, at, cursor, budget>>
      BY <1>5 DEF After, To
    <2>3. CASE f = "corpus"
      <3>1. stage' = <<on, "ident">> /\ stage'[1] = on
        BY <1>5, <2>3 DEF After, To
      <3>2. MembersInv' /\ MergeTyped' /\ WorkMatches' /\ Where' = on
        <4>1. on \in MergeStages /\ on \in TwoFiles /\ "ident" \in Files
          BY DEF MergeStages, StageKinds, TwoFiles, Files
        <4> QED BY <1>0, <1>1, <1>3, <1>5, <2>1, <2>2, <3>1, <4>1, GoesOn
      <3>3. out'["corpus"] # Absent
        BY <2>1, <2>3
      <3>4. on = "finish" /\ job.merge = "strict" => Fits(part["ident"])'
        <4>1. part'["ident"] = part["ident"]
          BY <2>1, <2>3 DEF Files
        <4> QED BY <1>1, <1>5, <2>3, <4>1 DEF Fits
      <3>5. MemberInWork'
        <4>1. stage' \notin {<<"recover", "ident">>, <<"append", "corpus">>, <<"append", "ident">>}
          BY <3>1
        <4> QED BY <3>2, <4>1 DEF MemberInWork
      <3>6. EndInWork'
        <4>1. stage' = <<"finish", "ident">> => on = "finish"
          BY <3>1
        <4> QED BY <1>1, <3>2, <3>3, <3>4, <4>1 DEF EndInWork
      <3> QED BY <2>1, <3>2, <3>5, <3>6 DEF WorkInv, MergeInv
    <2>4. CASE f = "ident"
      <3>1. stage' = <<then, "corpus">> /\ stage'[1] = then
        BY <1>5, <2>4 DEF After, To
      <3>2. MembersInv' /\ MergeTyped' /\ WorkMatches' /\ Where' = then
        <4>1. then \in MergeStages /\ "corpus" \in Files
          BY DEF MergeStages, StageKinds, Files
        <4> QED BY <1>0, <1>1, <1>3, <1>5, <2>1, <2>2, <3>1, <4>1, GoesOn
      <3>3. Exist(out')
        <4>1. out["corpus"] # Absent
          BY <1>0, <1>2, <2>4 DEF WorkInv, EndInWork
        <4>2. out'["corpus"] # Absent
          BY <2>1, <2>4, <4>1 DEF Files
        <4> QED BY <2>1, <2>4, <4>2 DEF Exist, Files
      <3>4. MemberInWork' /\ EndInWork'
        <4>1. stage' \notin {<<"recover", "ident">>, <<"append", "corpus">>, <<"append", "ident">>,
                             <<"finish", "ident">>, <<"rename", "ident">>}
          BY <3>1
        <4> QED BY <3>2, <3>3, <4>1 DEF MemberInWork, EndInWork, Exist
      <3> QED BY <2>1, <3>2, <3>4 DEF WorkInv, MergeInv
    <2> QED BY <2>3, <2>4 DEF Files
  <1>6. CASE Finish(f) /\ ~Stop("error")
    <2>1. /\ ~\E g \in Needed(f) : ~Fits(part[g])
          /\ After("finish", f, "complete")
          /\ IF out[f] = Absent THEN Rename(f) ELSE UNCHANGED <<part, out>>
      BY <1>6 DEF Finish
    <2>2. f = "corpus" /\ job.merge = "strict" => Fits(part["ident"]) /\ Fits(part["corpus"])
      BY <2>1 DEF Needed, Files
    <2>3. job.merge = "dedupe" => Fits(part[f])
      BY <2>1 DEF Needed
    <2>4. f = "ident" /\ job.merge = "strict" /\ out["ident"] = Absent => Fits(part["ident"])
      <3> SUFFICES ASSUME f = "ident", job.merge = "strict", out["ident"] = Absent PROVE Fits(part["ident"])
        OBVIOUS
      <3>1. stage = <<"finish", "ident">>
        BY <1>6 DEF Finish, At
      <3> QED BY <1>0, <3>1 DEF WorkInv, EndInWork
    <2>5. out[f] = Absent => Fits(part[f])
      BY <1>3, <2>2, <2>3, <2>4 DEF Files
    <2> QED BY <1>5, <2>1, <2>2, <2>5
  <1>7. CASE RenameAgain(f) /\ ~Stop("error")
    <2>1. /\ After("rename", f, "recomplete")
          /\ IF out[f] = Absent THEN Rename(f) ELSE UNCHANGED <<part, out>>
          /\ out[f] = Absent => Fits(part[f])
      BY <1>7 DEF RenameAgain
    <2>2. job.merge = "strict"
      <3>1. Where = "rename"
        BY <1>7 DEF RenameAgain, At, Where
      <3> QED BY <1>0, <3>1 DEF WorkInv, WorkMatches
    <2> QED BY <1>5, <2>1, <2>2
  <1>8. Stop("error") => UNCHANGED <<part, out>>
    <2>1. ASSUME Stop("error"), After("finish", f, "complete") \/ After("rename", f, "recomplete")
          PROVE  FALSE
      <3>1. tool' = "idle" /\ tool' = tool
        BY <2>1 DEF Stop, End, After, To
      <3> QED BY <1>3, <3>1
    <2> QED BY <2>1 DEF Finish, RenameAgain
  <1> QED BY <1>4, <1>6, <1>7, <1>8

\* Nothing changes where no variable does.
LEMMA StutterKeeps ==
  ASSUME MergeInv, UNCHANGED vars
  PROVE  MergeInv'
  <1>0. MembersInv /\ MergeTyped /\ DurableIsTrue /\ WorkInv /\ crashes \in 0..MaxCrashes /\ faults \in 0..MaxFaults
    BY MergeFacts
  <1>1. /\ job' = job /\ UNCHANGED fileVars /\ corpus' = corpus /\ ident' = ident /\ marker' = marker /\ cut' = cut
        /\ tool' = tool /\ result' = result /\ at' = at /\ cursor' = cursor /\ budget' = budget
        /\ crashes' = crashes /\ faults' = faults
        /\ ms' = ms /\ part' = part /\ seen' = seen /\ out' = out /\ batch' = batch /\ stage' = stage
        /\ UNCHANGED mergeFiles
    BY DEF vars, memberVars, fileVars, runVars, mergeFiles
  <1>2. MembersInv'
    <2>1. Quiet
      BY <1>0, <1>1 DEF Quiet
    <2> QED BY <1>0, <2>1, MembersKept
  <1>3. MergeTyped'
    <2>1. N' = N /\ AllRows' = AllRows
      BY <1>1, SameJob
    <2>2. MergeStates' = MergeStates
      BY <2>1 DEF MergeStates
    <2> QED BY <1>0, <1>1, <2>2 DEF MergeTyped
  <1>4. DurableIsTrue'
    BY <1>0, <1>1, DurableKept
  <1>5. /\ N' = N /\ Members' = Members /\ Where' = Where
        /\ \A f, n : Merged(f, n)' = Merged(f, n)
        /\ \A n : SeenUpTo(n)' = SeenUpTo(n) /\ RowsUpTo(n)' = RowsUpTo(n)
        /\ (Ambiguous(AllRows)' <=> Ambiguous(AllRows))
        /\ \A rows : Ambiguous(rows)' <=> Ambiguous(rows)
        /\ Adding("corpus")' = Adding("corpus")
        /\ \A i, w : Selected(i, w)' = Selected(i, w)
    BY <1>1, SameJob, SameAdding DEF Where, Files
  <1>6. WorkMatches'
    <2>1. Ready => Ready'
      BY <1>1, ReadyKept DEF Ready
    <2> QED BY <1>0, <1>1, <1>5, <2>1 DEF WorkInv, WorkMatches, MergeStages, StageKinds
  <1>7. MemberInWork'
    <2>1. ~Ambiguous(RowsUpTo(ms.next + 1)) => ~Ambiguous(RowsUpTo(ms.next + 1))'
      <3>1. RowsUpTo(ms.next + 1)' = RowsUpTo(ms.next + 1)
        BY <1>1, <1>5
      <3> QED BY <1>1, <3>1 DEF Ambiguous
    <2>2. /\ \A f \in Files : Merged(f, ms.next)' = Merged(f, ms.next) /\ Merged(f, ms.next + 1)' = Merged(f, ms.next + 1)
          /\ Merged("ident", ms.next)' = Merged("ident", ms.next)
          /\ Merged("ident", ms.next + 1)' = Merged("ident", ms.next + 1)
          /\ Merged("corpus", ms.next + 1)' = Merged("corpus", ms.next + 1)
          /\ SeenUpTo(ms.next)' = SeenUpTo(ms.next) /\ SeenUpTo(ms.next + 1)' = SeenUpTo(ms.next + 1)
      BY <1>1, <1>5
    <2>3. MemberInWork
      BY <1>0 DEF WorkInv
    <2> QED BY <1>1, <1>5, <2>1, <2>2, <2>3 DEF MemberInWork
  <1>8. EndInWork'
    <2>1. (\A i \in Members : CorpusDone(i) /\ IdentDone(i)) => \A i \in Members' : CorpusDone(i)' /\ IdentDone(i)'
      BY <1>1, <1>5 DEF CorpusDone, IdentDone
    <2>2. EndInWork
      BY <1>0 DEF WorkInv
    <2> QED BY <1>1, <1>5, <2>1, <2>2 DEF EndInWork, Exist, Fits
  <1> QED BY <1>2, <1>3, <1>4, <1>6, <1>7, <1>8 DEF MergeInv, WorkInv

\* The invariant, for all archives and all numbers of crashes and faults.
THEOREM MergeInvariant == Spec => []MergeInv
  <1>1. MergeInit => MergeInv
    BY MergeInvAtFirst
  <1>2. MergeInv /\ [Next]_vars => MergeInv'
    <2> SUFFICES ASSUME MergeInv, [Next]_vars PROVE MergeInv'
      OBVIOUS
    <2>1. CASE UNCHANGED vars
      BY <2>1, StutterKeeps
    <2>2. CASE MergeStep
      <3>1. CASE RecoverFiles
        BY <3>1, RecoverKeeps
      <3>2. CASE RecoverSeen \/ Member \/ Refinalize
        BY <3>2, ForgetKeeps DEF RecoverSeen, Member, Refinalize
      <3>3. CASE Transform
        BY <3>3, TransformKeeps
      <3>4. CASE Commit
        BY <3>4, CommitKeeps
      <3>5. CASE Complete \/ Recomplete
        BY <3>5, CompleteKeeps
      <3>6. CASE WholeBegin
        BY <3>6, WholeBegins
      <3>7. ASSUME NEW f \in Files, AppendRow(f) PROVE MergeInv'
        BY <3>7, AppendRowKeeps
      <3>8. ASSUME NEW f \in Files, Appends(f) PROVE MergeInv'
        BY <3>8, AppendsKeeps
      <3>9. ASSUME NEW f \in Files, Finish(f) \/ RenameAgain(f) PROVE MergeInv'
        BY <3>9, FinishKeeps
      <3>10. ASSUME NEW f \in Files, WholeRename(f) PROVE MergeInv'
        BY <3>10, WholeKeeps
      <3> QED BY <2>2, <3>1, <3>2, <3>3, <3>4, <3>5, <3>6, <3>7, <3>8, <3>9, <3>10 DEF MergeStep
    <2>3. CASE (MemberStep \/ PoolBegin \/ SlicedBegin) /\ UNCHANGED <<mergeFiles, batch, stage>>
      BY <2>3, MembersStep
    <2>4. CASE MergeBegin
      BY <2>4, MergeBegins
    <2>5. CASE Crash
      BY <2>5, CrashKeeps
    <2>6. CASE \E i \in Members : Damage(i)
      BY <2>6, MembersStep
    <2>7. ASSUME NEW f \in Files, WholeFails(f) PROVE MergeInv'
      BY <2>7, WholeKeeps
    <2> QED BY <2>1, <2>2, <2>3, <2>4, <2>5, <2>6, <2>7 DEF Next, Step, Begin
  <1> QED BY <1>1, <1>2, PTL DEF Spec

\* What the invariant says of the files below the committed size.
LEMMA InvIsSound ==
  ASSUME MergeInv
  PROVE  MergeIsSound
  <1>0. /\ MembersInv /\ MergeTyped /\ DurableIsTrue /\ job \in Jobs
        /\ part \in [Files -> FileStates] /\ out \in [Files -> FileStates]
    BY MergeFacts
  <1>1. MergeTypeOK
    BY <1>0 DEF MembersInv, MembersTyped, MergeTyped, MergeStates, MergeTypeOK
  <1>2. ASSUME ms # Absent
        PROVE  /\ Cardinality(Committed) = ms.rows
               /\ {s.id : s \in Committed} = {Expected("ident")[k].id : k \in 1..ms.rows}
    <2> DEFINE n == ms.next  rows == RowsUpTo(n)  first == Firsts(rows)
    <2>1. n \in 0..N /\ ms.rows = Count(n) /\ Committed = SeenUpTo(n)
      BY <1>0, <1>2, MergeFacts DEF DurableIsTrue
    <2> HIDE DEF n
    <2>2. Cardinality(SeenUpTo(n)) = Count(n)
      BY <1>0, <2>1, SeenOfFirsts
    <2>3. /\ DOMAIN first = 1..Count(n)
          /\ Merged("ident", n) = [k \in 1..Count(n) |-> Line("ident", k, rows[first[k]])]
      <3>1. rows \in Seq(TaggedRows(n))
        BY <1>0, <2>1, RowsUpToGrow
      <3>2. Count(n) = Cardinality(FirstSet(rows))
        BY DEF Count
      <3> QED BY <3>1, <3>2, LinesAre DEF Merged
    <2>4. SeenUpTo(n) = {SeenOf(rows[first[k]]) : k \in DOMAIN first}
      BY DEF SeenUpTo
    <2> HIDE DEF rows, first
    <2>5. \A k \in 1..Count(n) : Expected("ident")[k].id = rows[first[k]].id
      <3> TAKE k \in 1..Count(n)
      <3>1. Expected("ident")[k] = Merged("ident", n)[k]
        BY <1>0, <2>1, MergedIsPrefix DEF Files
      <3>2. Merged("ident", n)[k] = Line("ident", k, rows[first[k]])
        BY <2>3
      <3> QED BY <3>1, <3>2 DEF Line
    <2>6. \A k \in 1..Count(n) : SeenOf(rows[first[k]]).id = rows[first[k]].id
      BY DEF SeenOf
    <2>7. {s.id : s \in SeenUpTo(n)} = {Expected("ident")[k].id : k \in 1..Count(n)}
      <3>1. ASSUME NEW s \in SeenUpTo(n) PROVE \E k \in 1..Count(n) : s.id = Expected("ident")[k].id
        BY <2>3, <2>4, <2>5, <2>6
      <3>2. ASSUME NEW k \in 1..Count(n) PROVE \E s \in SeenUpTo(n) : s.id = Expected("ident")[k].id
        BY <2>3, <2>4, <2>5, <2>6
      <3> QED BY <3>1, <3>2
    <2> QED BY <2>1, <2>2, <2>7
  <1>3. ASSUME ms # Absent, NEW f \in Files
        PROVE  /\ part[f] # Absent => Len(part[f]) >= ms.rows /\ IsPrefix(SubSeq(Expected(f), 1, ms.rows), part[f])
               /\ part[f] = Absent /\ out[f] = Absent => ms.rows = 0
    <2>1. PartIsTrue(f) /\ ms.next \in 0..N /\ ms.rows = Count(ms.next) /\ ms.rows \in Nat
      BY <1>0, <1>3, MergeFacts DEF DurableIsTrue
    <2>2. ASSUME part[f] # Absent
          PROVE  Len(part[f]) >= ms.rows /\ IsPrefix(SubSeq(Expected(f), 1, ms.rows), part[f])
      <3> DEFINE lines == Merged(f, ms.next)  all == Expected(f)  file == part[f]  c == ms.rows
      <3>1. file \in Seq(FileLines) /\ lines \in Seq(FileLines) /\ Len(lines) = c /\ Extends(file, lines)
        BY <1>0, <2>1, <2>2, MergeFacts DEF PartIsTrue, FileStates
      <3>2. all \in Seq(FileLines) /\ c <= Len(all) /\ \A k \in 1..c : all[k] = lines[k]
        <4>1. N \in 0..N
          BY <1>0, <2>1, MergedIsPrefix
        <4>2. Expected(f) \in Seq(FileLines) /\ Len(Expected(f)) = Count(N)
          BY <1>0, <2>1, <4>1, MergedIsPrefix, MergeFacts
        <4> QED BY <1>0, <2>1, <4>2, MergedIsPrefix
      <3> HIDE DEF lines, all, file, c
      <3>3. c \in Nat /\ c <= Len(file) /\ \A k \in 1..c : file[k] = lines[k]
        BY <2>1, <3>1 DEF Extends, c
      <3>4. SubSeq(all, 1, c) = lines
        <4>1. Extends(all, lines)
          BY <3>1, <3>2 DEF Extends
        <4> QED BY <3>1, <3>2, <4>1, CutBack
      <3>5. SubSeq(file, 1, c) = lines
        BY <3>1, CutBack
      <3>6. SubSeq(lines, 1, c) = lines
        <4>1. Extends(lines, lines)
          BY <3>1, ExtendsItself
        <4> QED BY <3>1, <4>1, CutBack
      <3>7. IsPrefix(lines, file)
        BY <3>1, <3>3, <3>5, <3>6 DEF IsPrefix
      <3>8. c <= Len(file) => Len(file) >= c
        BY <3>1, <3>3
      <3> QED BY <3>3, <3>4, <3>7, <3>8 DEF lines, all, file, c
    <2> QED BY <2>1, <2>2 DEF PartIsTrue
  <1> QED BY <1>1, <1>2, <1>3 DEF MergeIsSound, CommittedIsExact

\* ... and of the results.
LEMMA InvIsExact ==
  ASSUME MergeInv
  PROVE  OutputIsExact
  <1>0. DurableIsTrue /\ job \in Jobs /\ N \in Nat
    BY MergeFacts
  <1>1. ASSUME NEW f \in Files, out[f] # Absent
        PROVE  ~Ambiguous(AllRows) /\ out[f] = Expected(f)
    <2>1. ResultIsTrue(f)
      BY <1>0 DEF DurableIsTrue
    <2>2. CASE job.merge = "whole"
      BY <1>1, <2>1, <2>2 DEF ResultIsTrue
    <2>3. CASE job.merge # "whole"
      <3>1. ms # Absent /\ ms.next = N /\ out[f] = Merged(f, N)
        BY <1>1, <2>1, <2>3 DEF ResultIsTrue
      <3>2. ~Ambiguous(RowsUpTo(N))
        BY <1>0, <3>1 DEF DurableIsTrue
      <3> QED BY <3>1, <3>2 DEF AllRows, Expected, Merged
    <2> QED BY <2>2, <2>3
  <1>2. IsComplete => Exist(out)
    BY <1>0 DEF IsComplete, DurableIsTrue
  <1> QED BY <1>1, <1>2 DEF OutputIsExact

\* The merge state is sound.
THEOREM MergeSoundly == Spec => []MergeIsSound
  <1>1. MergeInv => MergeIsSound
    BY InvIsSound
  <1> QED BY <1>1, MergeInvariant, PTL

\* The results are exact.
THEOREM OutputsAreExact == Spec => []OutputIsExact
  <1>1. MergeInv => OutputIsExact
    BY InvIsExact
  <1> QED BY <1>1, MergeInvariant, PTL

=============================================================================
