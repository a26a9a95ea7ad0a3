------------------------ MODULE AnalysisServiceProofs ------------------------
(***************************************************************************)
(* The analysis service for any requests, workloads, rules and limits. The *)
(* invariant ServiceInv is inductive; from it follow the types and the     *)
(* clean-up of failures, that the findings of a parallel analysis are      *)
(* those of a sequential one, that the evidence of a successful analysis   *)
(* is kept and was read, that the chains of a report are complete, and     *)
(* that its scenarios keep to their scope. For the chains, each kind is    *)
(* described by the positions it holds, and of those that are the same one *)
(* is shown to be kept; for the scenarios, the groups that are merged pair *)
(* by pair are shown to be a partition that the relation binds.            *)
(***************************************************************************)
EXTENDS AnalysisService, FiniteSetTheorems, TLAPS

-----------------------------------------------------------------------------
(* Order.                                                                  *)

Below(S, R, x) == {y \in S : <<y, x>> \in R}

IsOrder(R, S) ==
  /\ \A x, y \in S : x # y => <<x, y>> \in R \/ <<y, x>> \in R
  /\ \A x \in S : <<x, x>> \notin R
  /\ \A x, y, z \in S : <<x, y>> \in R /\ <<y, z>> \in R => <<x, z>> \in R

\* The elements of a finite set all have a place of their own in an order.
LEMMA InOrderSorts ==
  ASSUME NEW S, IsFiniteSet(S), NEW R, IsOrder(R, S)
  PROVE  /\ Cardinality(S) \in Nat /\ DOMAIN InOrder(S, R) = 1..Cardinality(S)
         /\ \A n \in 1..Cardinality(S) : InOrder(S, R)[n] \in S
         /\ \A x \in S : \E n \in 1..Cardinality(S) : InOrder(S, R)[n] = x
         /\ \A m, n \in 1..Cardinality(S) : m < n => <<InOrder(S, R)[m], InOrder(S, R)[n]>> \in R
  <1> DEFINE N == Cardinality(S)
             rank(x) == Cardinality(Below(S, R, x))
             f == [x \in S |-> rank(x) + 1]
             s == InOrder(S, R)
  <1>1. N \in Nat /\ IsFiniteSet(1..N) /\ Cardinality(1..N) = N
    <2>1. N \in Nat
      BY FS_CardinalityType
    <2>2. 1 \in Int /\ N \in Int
      BY <2>1
    <2> QED BY <2>1, <2>2, FS_Interval
  <1>2. ASSUME NEW x \in S
        PROVE  IsFiniteSet(Below(S, R, x)) /\ rank(x) \in 0..(N - 1)
    <2>1. Below(S, R, x) \in SUBSET S /\ x \notin Below(S, R, x)
      BY DEF IsOrder, Below
    <2>2. IsFiniteSet(Below(S, R, x)) /\ rank(x) <= N /\ (N = rank(x) => S = Below(S, R, x))
      BY <2>1, FS_Subset
    <2>3. rank(x) \in Nat
      BY <2>2, FS_CardinalityType
    <2> QED BY <1>1, <2>1, <2>2, <2>3
  <1>3. ASSUME NEW x \in S, NEW y \in S, <<x, y>> \in R
        PROVE  rank(x) < rank(y)
    <2>1. Below(S, R, x) \in SUBSET Below(S, R, y)
      BY <1>3 DEF IsOrder, Below
    <2>2. x \in Below(S, R, y) /\ x \notin Below(S, R, x)
      BY <1>3 DEF IsOrder, Below
    <2>3. rank(x) <= rank(y) /\ (rank(y) = rank(x) => Below(S, R, y) = Below(S, R, x))
      BY <1>2, <2>1, FS_Subset
    <2> QED BY <1>2, <2>2, <2>3
  <1>4. f \in Injection(S, 1..N)
    <2>1. f \in [S -> 1..N]
      <3>1. \A x \in S : rank(x) + 1 \in 1..N
        BY <1>1, <1>2
      <3> QED BY <3>1
    <2>2. ASSUME NEW x \in S, NEW y \in S, f[x] = f[y]
          PROVE  x = y
      <3>1. rank(x) = rank(y)
        BY <1>2, <2>2
      <3>2. ~(rank(x) < rank(y)) /\ ~(rank(y) < rank(x))
        BY <1>2, <3>1
      <3> QED BY <1>3, <3>2 DEF IsOrder
    <2> QED BY <2>1, <2>2 DEF Injection, IsInjective
  <1>5. f \in Surjection(S, 1..N)
    BY <1>1, <1>4, FS_Injection
  <1>6. ASSUME NEW n \in 1..N
        PROVE  s[n] \in S /\ rank(s[n]) = n - 1
    <2>1. PICK x \in S : f[x] = n
      BY <1>5 DEF Surjection
    <2>2. rank(x) = n - 1
      BY <1>2, <2>1
    <2>3. s[n] = CHOOSE z \in S : rank(z) = n - 1
      BY DEF InOrder, Below
    <2> HIDE DEF rank, s
    <2> QED BY <2>2, <2>3
  <1>7. ASSUME NEW x \in S
        PROVE  \E n \in 1..N : s[n] = x
    <2>1. rank(x) + 1 \in 1..N /\ (rank(x) + 1) - 1 = rank(x)
      BY <1>1, <1>2
    <2>2. s[rank(x) + 1] \in S /\ rank(s[rank(x) + 1]) = rank(x)
      BY <1>6, <2>1
    <2>3. ~(rank(s[rank(x) + 1]) < rank(x)) /\ ~(rank(x) < rank(s[rank(x) + 1]))
      BY <1>2, <2>2
    <2>4. s[rank(x) + 1] = x
      BY <1>3, <2>2, <2>3 DEF IsOrder
    <2> QED BY <2>1, <2>4
  <1>8. ASSUME NEW m \in 1..N, NEW n \in 1..N, m < n
        PROVE  <<s[m], s[n]>> \in R
    <2>1. s[m] \in S /\ s[n] \in S /\ rank(s[m]) = m - 1 /\ rank(s[n]) = n - 1
      BY <1>6
    <2>2. rank(s[m]) < rank(s[n]) /\ ~(rank(s[n]) < rank(s[m]))
      BY <1>1, <1>8, <2>1
    <2>3. s[m] # s[n]
      BY <2>2
    <2> QED BY <1>3, <2>1, <2>2, <2>3 DEF IsOrder
  <1>9. DOMAIN s = 1..N
    BY DEF InOrder
  <1> QED BY <1>1, <1>6, <1>7, <1>8, <1>9

Up(S) == {p \in S \X S : p[1] < p[2]}

\* Picked keeps the events at the given positions in their order.
LEMMA PickedSorts ==
  ASSUME NEW I, I \subseteq Nat, IsFiniteSet(I)
  PROVE  /\ Cardinality(I) \in Nat /\ DOMAIN InOrder(I, Up(I)) = 1..Cardinality(I)
         /\ \A n \in 1..Cardinality(I) : InOrder(I, Up(I))[n] \in I
         /\ \A x \in I : \E n \in 1..Cardinality(I) : InOrder(I, Up(I))[n] = x
         /\ \A m, n \in 1..Cardinality(I) : m < n => InOrder(I, Up(I))[m] < InOrder(I, Up(I))[n]
  <1>1. IsOrder(Up(I), I)
    BY DEF IsOrder, Up
  <1>2. \A x, y : <<x, y>> \in Up(I) => x < y
    BY DEF Up
  <1> DEFINE s == InOrder(I, Up(I))
  <1>3. /\ Cardinality(I) \in Nat /\ DOMAIN s = 1..Cardinality(I)
        /\ \A n \in 1..Cardinality(I) : s[n] \in I
        /\ \A x \in I : \E n \in 1..Cardinality(I) : s[n] = x
        /\ \A m, n \in 1..Cardinality(I) : m < n => <<s[m], s[n]>> \in Up(I)
    BY <1>1, InOrderSorts
  <1> HIDE DEF s
  <1>4. \A m, n \in 1..Cardinality(I) : m < n => s[m] < s[n]
    BY <1>2, <1>3
  <1> QED BY <1>3, <1>4 DEF s

\* A finite set of numbers has a least and a greatest element.
LEMMA Extremes ==
  ASSUME NEW I, I \subseteq Nat, IsFiniteSet(I), I # {}
  PROVE  /\ Max(I) \in I /\ \A i \in I : i <= Max(I)
         /\ Min(I) \in I /\ \A i \in I : Min(I) <= i
  <1> DEFINE s == InOrder(I, Up(I))
             N == Cardinality(I)
  <1>1. /\ N \in Nat /\ \A n \in 1..N : s[n] \in I
        /\ \A x \in I : \E n \in 1..N : s[n] = x
        /\ \A m, n \in 1..N : m < n => s[m] < s[n]
    BY PickedSorts
  <1> HIDE DEF s, N
  <1>2. N >= 1
    <2>1. PICK x \in I : TRUE
      OBVIOUS
    <2>2. PICK n \in 1..N : s[n] = x
      BY <1>1, <2>1
    <2> QED BY <1>1, <2>2
  <1>3. \A i \in I : s[1] <= i /\ i <= s[N]
    <2> SUFFICES ASSUME NEW i \in I PROVE s[1] <= i /\ i <= s[N]
      OBVIOUS
    <2>1. PICK n \in 1..N : s[n] = i
      BY <1>1
    <2>2. 1 \in 1..N /\ N \in 1..N /\ n \in Nat
      BY <1>1, <1>2, <2>1
    <2>7. s[1] \in Nat /\ s[N] \in Nat
      BY <1>1, <2>2
    <2>3. n = 1 \/ 1 < n
      BY <2>1
    <2>4. n = N \/ n < N
      BY <1>1, <2>1
    <2>5. s[1] <= i
      BY <1>1, <2>1, <2>2, <2>3, <2>7
    <2>6. i <= s[N]
      BY <1>1, <2>1, <2>2, <2>4, <2>7
    <2> QED BY <2>5, <2>6
  <1>4. s[1] \in I /\ s[N] \in I
    BY <1>1, <1>2
  <1>5. \E x \in I : \A y \in I : x >= y
    BY <1>3, <1>4
  <1>6. \E x \in I : \A y \in I : x =< y
    BY <1>3, <1>4
  <1> QED BY <1>5, <1>6 DEF Max, Min

-----------------------------------------------------------------------------
(* Findings.                                                               *)

KeyOf(r, e) == <<r.id, Key(e), Matched(r, e)>>

\* The findings report each rule that fires on the events at the places I, once
\* for each observation and match.
Reports(F, events, I) ==
  /\ \A f \in F : \E r \in Rules, i \in I : Fires(r, events[i]) /\ f = Finding(r, events[i])
  /\ \A r \in Rules, i \in I :
       Fires(r, events[i]) => \E f \in F : FindingKey(f) = KeyOf(r, events[i])
  /\ \A f, g \in F : FindingKey(f) = FindingKey(g) => f = g

\* The key of a finding is that of its rule and event.
LEMMA KeyOfFinding ==
  ASSUME NEW r, NEW e
  PROVE  FindingKey(Finding(r, e)) = KeyOf(r, e)
  BY DEF FindingKey, Finding, KeyOf

\* The findings of some events report them.
LEMMA FindingsOfReports ==
  ASSUME NEW events, NEW I, I \subseteq Nat, IsFiniteSet(I)
  PROVE  Reports(FindingsOf(events, I), events, I)
  <1> DEFINE mine(i) == {Finding(r, events[i]) : r \in {s \in Rules : Fires(s, events[i])}}
             before(i) == UNION {mine(j) : j \in {k \in I : k < i}}
             F == FindingsOf(events, I)
  <1>1. F = UNION {{f \in mine(i) : \A g \in before(i) : FindingKey(g) # FindingKey(f)} :
                    i \in I}
    BY DEF FindingsOf
  <1>2. \A i, f : f \in mine(i) <=>
                    \E r \in Rules : Fires(r, events[i]) /\ f = Finding(r, events[i])
    OBVIOUS
  <1>3. \A i, g : g \in before(i) <=> \E j \in I : j < i /\ g \in mine(j)
    OBVIOUS
  <1> HIDE DEF mine, before, F
  <1>4. \A f : f \in F <=> \E i \in I : /\ f \in mine(i)
                                        /\ \A g \in before(i) : FindingKey(g) # FindingKey(f)
    <2>1. \A f, i : f \in {h \in mine(i) : \A g \in before(i) : FindingKey(g) # FindingKey(h)}
                      <=> f \in mine(i) /\ \A g \in before(i) : FindingKey(g) # FindingKey(f)
      OBVIOUS
    <2> QED BY <1>1, <2>1
  <1>5. \A f \in F : \E r \in Rules, i \in I : Fires(r, events[i]) /\ f = Finding(r, events[i])
    BY <1>2, <1>4
  <1>6. ASSUME NEW r \in Rules, NEW i \in I, Fires(r, events[i])
        PROVE  \E f \in F : FindingKey(f) = KeyOf(r, events[i])
    <2> DEFINE key == KeyOf(r, events[i])
               J == {j \in I : \E f \in mine(j) : FindingKey(f) = key}
    <2>1. J \subseteq Nat /\ J \in SUBSET I /\ i \in J
      BY <1>2, <1>6, KeyOfFinding
    <2>2. IsFiniteSet(J)
      BY <2>1, FS_Subset
    <2>3. Min(J) \in J /\ \A j \in J : Min(J) <= j
      BY <2>1, <2>2, Extremes
    <2>4. PICK f \in mine(Min(J)) : FindingKey(f) = key
      BY <2>3
    <2>5. ASSUME NEW g \in before(Min(J))
          PROVE  FindingKey(g) # key
      <3>1. PICK j \in I : j < Min(J) /\ g \in mine(j)
        BY <1>3
      <3>2. j \notin J
        BY <2>1, <2>3, <3>1
      <3> QED BY <3>1, <3>2
    <2> QED BY <1>4, <2>3, <2>4, <2>5
  <1>7. ASSUME NEW f \in F, NEW g \in F, FindingKey(f) = FindingKey(g)
        PROVE  f = g
    <2>1. PICK i \in I : f \in mine(i) /\ \A h \in before(i) : FindingKey(h) # FindingKey(f)
      BY <1>4
    <2>2. PICK j \in I : g \in mine(j) /\ \A h \in before(j) : FindingKey(h) # FindingKey(g)
      BY <1>4
    <2>3. i = j
      <3>1. ~(i < j) /\ ~(j < i)
        BY <1>3, <1>7, <2>1, <2>2
      <3> QED BY <3>1
    <2>4. PICK r \in Rules : f = Finding(r, events[i])
      BY <1>2, <2>1
    <2>5. PICK s \in Rules : g = Finding(s, events[i])
      BY <1>2, <2>2, <2>3
    <2>6. r.id = s.id
      BY <1>7, <2>4, <2>5, KeyOfFinding DEF KeyOf
    <2> QED BY <2>4, <2>5, <2>6, DetectionAssumption
  <1> QED BY <1>5, <1>6, <1>7 DEF Reports, F

\* What chunks report, they report together, in whatever order they come.
LEMMA MergedReports ==
  ASSUME NEW events, NEW I, NEW J, NEW F, NEW G, Reports(F, events, I), Reports(G, events, J)
  PROVE  Reports(Merged(F, G), events, I \cup J)
  <1>1. \A f : f \in Merged(F, G) <=>
                 f \in F \/ (f \in G /\ \A g \in F : FindingKey(g) # FindingKey(f))
    BY DEF Merged
  <1>2. \A f \in Merged(F, G) :
          \E r \in Rules, i \in I \cup J : Fires(r, events[i]) /\ f = Finding(r, events[i])
    BY <1>1 DEF Reports
  <1>3. ASSUME NEW r \in Rules, NEW i \in I \cup J, Fires(r, events[i])
        PROVE  \E f \in Merged(F, G) : FindingKey(f) = KeyOf(r, events[i])
    BY <1>1, <1>3 DEF Reports
  <1>4. ASSUME NEW f \in Merged(F, G), NEW g \in Merged(F, G), FindingKey(f) = FindingKey(g)
        PROVE  f = g
    BY <1>1, <1>4 DEF Reports
  <1> QED BY <1>2, <1>3, <1>4 DEF Reports

Keyed(events, I) ==
  {KeyOf(x[1], events[x[2]]) : x \in {y \in Rules \X I : Fires(y[1], events[y[2]])}}

\* They are finitely many.
LEMMA ReportsAreFinite ==
  ASSUME NEW events, NEW I, IsFiniteSet(I), NEW F, Reports(F, events, I)
  PROVE  IsFiniteSet(F)
  <1> DEFINE P == Rules \X I
             key(p) == KeyOf(p[1], events[p[2]])
             PF == {p \in P : Fires(p[1], events[p[2]])}
             g == [p \in PF |-> CHOOSE f \in F : FindingKey(f) = key(p)]
  <1>1. IsFiniteSet(P)
    BY DetectionAssumption, FS_Product
  <1>2. IsFiniteSet(PF)
    BY <1>1, FS_Subset
  <1>3. \A p \in PF : g[p] \in F /\ FindingKey(g[p]) = key(p)
    BY DEF Reports
  <1>4. \A f \in F : \E p \in PF : g[p] = f
    <2> SUFFICES ASSUME NEW f \in F PROVE \E p \in PF : g[p] = f
      OBVIOUS
    <2>1. PICK r \in Rules, i \in I : Fires(r, events[i]) /\ f = Finding(r, events[i])
      BY DEF Reports
    <2>2. <<r, i>> \in PF /\ key(<<r, i>>) = FindingKey(f)
      BY <2>1, KeyOfFinding
    <2>3. g[<<r, i>>] = f
      BY <1>3, <2>2 DEF Reports
    <2> QED BY <2>2, <2>3
  <1> HIDE DEF PF, key
  <1>5. g \in Surjection(PF, F)
    BY <1>3, <1>4 DEF Surjection
  <1> QED BY <1>2, <1>5, FS_Surjection

\* A report has as many findings as there are keys.
LEMMA ReportsCount ==
  ASSUME NEW events, NEW I, IsFiniteSet(I), NEW F, Reports(F, events, I)
  PROVE  /\ {FindingKey(f) : f \in F} = Keyed(events, I)
         /\ Cardinality(F) = Cardinality(Keyed(events, I))
  <1> DEFINE K == Keyed(events, I)
             h == [f \in F |-> FindingKey(f)]
  <1>1. \A k : k \in K <=> \E r \in Rules, i \in I : Fires(r, events[i]) /\ k = KeyOf(r, events[i])
    <2>1. ASSUME NEW k \in K
          PROVE  \E r \in Rules, i \in I : Fires(r, events[i]) /\ k = KeyOf(r, events[i])
      BY <2>1 DEF Keyed
    <2>2. ASSUME NEW r \in Rules, NEW i \in I, Fires(r, events[i])
          PROVE  KeyOf(r, events[i]) \in K
      <3>1. <<r, i>> \in {y \in Rules \X I : Fires(y[1], events[y[2]])}
        BY <2>2
      <3>2. KeyOf(<<r, i>>[1], events[<<r, i>>[2]]) = KeyOf(r, events[i])
        OBVIOUS
      <3> QED BY <3>1, <3>2 DEF Keyed
    <2> QED BY <2>1, <2>2
  <1> HIDE DEF K
  <1>2. \A f \in F : FindingKey(f) \in K
    BY <1>1, KeyOfFinding DEF Reports
  <1>3. \A k \in K : \E f \in F : FindingKey(f) = k
    BY <1>1 DEF Reports
  <1>4. {FindingKey(f) : f \in F} = K
    BY <1>2, <1>3
  <1>5. h \in Bijection(F, K)
    BY <1>2, <1>3 DEF Reports, Bijection, Injection, Surjection, IsInjective
  <1>6. IsFiniteSet(F)
    BY ReportsAreFinite
  <1>7. ExistsBijection(F, K)
    BY <1>5 DEF ExistsBijection
  <1>8. Cardinality(K) = Cardinality(F)
    BY <1>6, <1>7, FS_Bijection
  <1> QED BY <1>4, <1>8 DEF K

\* The smaller of two numbers.
LEMMA MinOfTwo ==
  ASSUME NEW a \in Nat, NEW b \in Nat
  PROVE  Min({a, b}) = IF a <= b THEN a ELSE b
  <1>1. {a, b} \subseteq Nat /\ {a, b} # {}
    OBVIOUS
  <1>2. IsFiniteSet({a, b})
    <2>1. IsFiniteSet({a}) /\ {a, b} = {a} \cup {b}
      BY FS_Singleton
    <2> QED BY <2>1, FS_AddElement
  <1>3. Min({a, b}) \in {a, b} /\ \A i \in {a, b} : Min({a, b}) <= i
    BY <1>1, <1>2, Extremes
  <1> QED BY <1>3

\* A quotient is a number, and what it leaves is less than the divisor.
LEMMA Quotient ==
  ASSUME NEW a \in Nat, NEW c \in Nat \ {0}
  PROVE  a \div c \in Nat /\ (a \div c) * c <= a /\ a < (a \div c) * c + c
  OBVIOUS

\* The chunks cover the events, and nothing else.
LEMMA ChunksCover ==
  ASSUME NEW events, Len(events) \in Nat
  PROVE  /\ \A k \in Chunks(events) : /\ ChunkOf(events, k) \subseteq Nat
                                      /\ IsFiniteSet(ChunkOf(events, k))
         /\ UNION {ChunkOf(events, k) : k \in Chunks(events)} = 1..Len(events)
  <1> DEFINE n == Len(events)
             c == ChunkSize
             m == (n + c - 1) \div c
  <1>1. c \in Nat \ {0} /\ n \in Nat /\ n + c - 1 \in Nat
    BY DetectionAssumption
  <1>2. m \in Nat /\ m * c <= n + c - 1 /\ n + c - 1 < m * c + c
    BY <1>1, Quotient
  <1>3. Chunks(events) = 1..m
    BY DEF Chunks
  <1> HIDE DEF m
  <1>4. ASSUME NEW k \in 1..m
        PROVE  /\ k * c \in Nat /\ (k - 1) * c \in Nat
               /\ ChunkOf(events, k) = ((k - 1) * c + 1)..(IF k * c <= n THEN k * c ELSE n)
    <2>1. k * c \in Nat /\ (k - 1) * c \in Nat
      BY <1>1, <1>2
    <2>2. Min({k * c, n}) = IF k * c <= n THEN k * c ELSE n
      BY <1>1, <2>1, MinOfTwo
    <2> QED BY <2>1, <2>2 DEF ChunkOf
  <1>5. ASSUME NEW k \in Chunks(events)
        PROVE  /\ ChunkOf(events, k) \subseteq Nat /\ IsFiniteSet(ChunkOf(events, k))
               /\ ChunkOf(events, k) \subseteq 1..n
    <2>1. k \in 1..m
      BY <1>3
    <2> DEFINE a == (k - 1) * c + 1
               b == IF k * c <= n THEN k * c ELSE n
    <2>2. a \in Nat \ {0} /\ b \in Nat /\ b <= n /\ ChunkOf(events, k) = a..b
      BY <1>1, <1>4, <2>1
    <2> HIDE DEF a, b
    <2>3. a \in Int /\ b \in Int /\ a..b \subseteq 1..n /\ a..b \subseteq Nat
      BY <1>1, <2>2
    <2> QED BY <2>2, <2>3, FS_Interval
  <1>6. ASSUME NEW i \in 1..n
        PROVE  \E k \in Chunks(events) : i \in ChunkOf(events, k)
    <2> DEFINE q == (i - 1) \div c
    <2>1. i - 1 \in Nat
      OBVIOUS
    <2>2. q \in Nat /\ q * c <= i - 1 /\ i - 1 < q * c + c
      BY <1>1, <2>1, Quotient
    <2> HIDE DEF q
    <2>3. q * c < m * c /\ (q + 1) * c = q * c + c
      BY <1>1, <1>2, <2>2
    <2>4. q < m
      BY <1>1, <1>2, <2>2, <2>3
    <2>5. q + 1 \in 1..m /\ (q + 1) - 1 = q
      BY <1>2, <2>2, <2>4
    <2>6. ChunkOf(events, q + 1) = (q * c + 1)..(IF (q + 1) * c <= n THEN (q + 1) * c ELSE n)
      BY <1>4, <2>5
    <2>7. q * c \in Nat /\ (q + 1) * c \in Nat
      BY <1>1, <2>2
    <2>8. q * c + 1 <= i /\ i <= (q + 1) * c /\ i <= n
      BY <1>1, <2>2, <2>3, <2>7
    <2>9. i \in ChunkOf(events, q + 1)
      BY <1>1, <2>6, <2>7, <2>8
    <2> QED BY <1>3, <2>5, <2>9
  <1> QED BY <1>5, <1>6

-----------------------------------------------------------------------------
\* What a request finds, said without the code's way to find a parent.
Starters(events, i) ==
  {j \in 1..(i - 1) : /\ events[j].id = "4688" /\ events[j].host = events[i].host
                      /\ events[j].pid = events[i].ppid /\ events[j].pid # ""
                      /\ events[j].image # "" /\ Timed(events[j])}
Child(events, i, image) ==
  /\ events[i].id = "4688" /\ Timed(events[i])
  /\ \E j \in Starters(events, i) : /\ \A l \in Starters(events, i) : l <= j
                                /\ events[j].image = image
                                /\ events[i].t - events[j].t \in 0..ParentWindow

\* The greatest element of a set is known by its comparisons.
LEMMA Greatest ==
  ASSUME NEW J, J \subseteq Nat, IsFiniteSet(J), NEW j \in J, \A l \in J : l <= j
  PROVE  j = Max(J)
  <1> DEFINE m == Max(J)
  <1>1. m \in J /\ j <= m
    BY Extremes
  <1> HIDE DEF m
  <1>2. m <= j /\ m \in Nat /\ j \in Nat
    BY <1>1
  <1> QED BY <1>1, <1>2 DEF m

\* A process has finitely many possible parents.
LEMMA StartersFinite ==
  ASSUME NEW events, NEW i \in Nat
  PROVE  Starters(events, i) \subseteq Nat /\ IsFiniteSet(Starters(events, i))
  <1>1. i - 1 \in Int /\ 1 \in Int
    OBVIOUS
  <1>2. IsFiniteSet(1..(i - 1))
    BY <1>1, FS_Interval
  <1>3. Starters(events, i) \in SUBSET (1..(i - 1))
    BY DEF Starters
  <1> QED BY <1>2, <1>3, FS_Subset

\* The code finds the parent that the property names.
LEMMA ParentIsLast ==
  ASSUME NEW events, NEW i \in Nat, NEW image, image # ""
  PROVE  ParentOf(events, i) = image <=> Child(events, i, image)
  <1> DEFINE J == Starters(events, i)
             Age(j) == events[i].t - events[j].t \in 0..ParentWindow
  <1>1. Creations(events, i) = J
    BY DEF Creations, Starters, IsProcess
  <1>2. IsFiniteSet(J) /\ J \subseteq Nat
    BY StartersFinite
  <1>4. ParentOf(events, i) =
          IF /\ events[i].id = "4688" /\ Timed(events[i]) /\ J # {}
             /\ Age(Max(J))
          THEN events[Max(J)].image ELSE ""
    BY <1>1 DEF ParentOf, IsProcess
  <1>5. Child(events, i, image) <=>
          /\ events[i].id = "4688" /\ Timed(events[i])
          /\ \E j \in J : /\ \A l \in J : l <= j
                          /\ events[j].image = image
                          /\ Age(j)
    BY DEF Child
  <1> HIDE DEF J, Age
  <1>6. CASE J = {}
    BY <1>4, <1>5, <1>6
  <1>7. CASE J # {}
    <2>1. Max(J) \in J /\ \A j \in J : j <= Max(J)
      BY <1>2, <1>7, Extremes
    <2>2. ASSUME NEW j \in J, \A l \in J : l <= j
          PROVE  j = Max(J)
      BY <1>2, <2>2, Greatest
    <2>3. (\E j \in J : /\ \A l \in J : l <= j
                        /\ events[j].image = image /\ Age(j))
            <=> events[Max(J)].image = image /\ Age(Max(J))
      BY <2>1, <2>2
    <2>4. Child(events, i, image) <=>
            /\ events[i].id = "4688" /\ Timed(events[i])
            /\ events[Max(J)].image = image /\ Age(Max(J))
      BY <1>5, <2>3
    <2> DEFINE C == /\ events[i].id = "4688" /\ Timed(events[i])
                    /\ Age(Max(J))
               v == events[Max(J)].image
    <2>5. ParentOf(events, i) = IF C THEN v ELSE ""
      BY <1>4, <1>7
    <2>6. Child(events, i, image) <=> C /\ v = image
      BY <2>4
    <2> HIDE DEF C, v
    <2>7. CASE C
      <3>1. ParentOf(events, i) = v
        BY <2>5, <2>7
      <3> QED BY <2>6, <2>7, <3>1
    <2>8. CASE ~C
      <3>1. ParentOf(events, i) = ""
        BY <2>5, <2>8
      <3> QED BY <2>6, <2>8, <3>1
    <2> QED BY <2>7, <2>8
  <1> QED BY <1>6, <1>7

\* An event with its parent is the same observation and matches the same rules.
LEMMA ParentsKeepEvents ==
  ASSUME NEW events, NEW i \in DOMAIN events, events[i] \in Record, NEW r
  PROVE  /\ Key(WithParents(events)[i]) = Key(events[i])
         /\ Matched(r, WithParents(events)[i]) = Matched(r, events[i])
         /\ WithParents(events)[i].marks = events[i].marks
         /\ WithParents(events)[i].parent = ParentOf(events, i)
  <1>1. WithParents(events)[i] = [events[i] EXCEPT !.parent = ParentOf(events, i)]
    BY DEF WithParents
  <1>2. /\ WithParents(events)[i].marks = events[i].marks
        /\ WithParents(events)[i].parent = ParentOf(events, i)
        /\ WithParents(events)[i].t = events[i].t /\ WithParents(events)[i].host = events[i].host
        /\ WithParents(events)[i].id = events[i].id /\ WithParents(events)[i].rec = events[i].rec
    BY <1>1 DEF Record
  <1> QED BY <1>2 DEF Key, Matched

Expected(events) ==
  LET fires(r, i) == /\ \E n \in DOMAIN r.targets : r.targets[n] \in events[i].marks
                     /\ r.parent = "" \/ Child(events, i, r.parent)
  IN  {KeyOf(x[1], events[x[2]]) :
         x \in {y \in Rules \X DOMAIN events : fires(y[1], y[2])}}

\* The rules fire with the parents the code finds exactly as the property expects.
LEMMA ExpectedKeys ==
  ASSUME NEW events \in Seq(Record)
  PROVE  Keyed(WithParents(events), DOMAIN events) = Expected(events)
  <1> DEFINE line == WithParents(events)
             D == DOMAIN events
             fires(r, i) == /\ \E n \in DOMAIN r.targets : r.targets[n] \in events[i].marks
                            /\ r.parent = "" \/ Child(events, i, r.parent)
  <1>1. ASSUME NEW r \in Rules, NEW i \in D
        PROVE  /\ Fires(r, line[i]) <=> fires(r, i)
               /\ KeyOf(r, line[i]) = KeyOf(r, events[i])
    <2>1. events[i] \in Record /\ i \in Nat
      OBVIOUS
    <2>2. r.parent # "" => (ParentOf(events, i) = r.parent <=> Child(events, i, r.parent))
      BY <2>1, ParentIsLast
    <2>3. /\ Key(line[i]) = Key(events[i]) /\ Matched(r, line[i]) = Matched(r, events[i])
          /\ line[i].marks = events[i].marks /\ line[i].parent = ParentOf(events, i)
      BY <2>1, ParentsKeepEvents
    <2> QED BY <2>2, <2>3 DEF Fires, KeyOf
  <1> HIDE DEF line
  <1>2. {y \in Rules \X D : Fires(y[1], line[y[2]])} = {y \in Rules \X D : fires(y[1], y[2])}
    BY <1>1
  <1>3. \A y \in Rules \X D : KeyOf(y[1], line[y[2]]) = KeyOf(y[1], events[y[2]])
    BY <1>1
  <1>4. Expected(events) =
          {KeyOf(x[1], events[x[2]]) : x \in {y \in Rules \X D : fires(y[1], y[2])}}
    BY DEF Expected
  <1> HIDE DEF fires, D
  <1>5. Keyed(line, D) = {KeyOf(x[1], line[x[2]]) : x \in {y \in Rules \X D : fires(y[1], y[2])}}
    BY <1>2 DEF Keyed
  <1> QED BY <1>3, <1>4, <1>5 DEF line, D

-----------------------------------------------------------------------------
(* What is true of the service between any two steps.                      *)

\* The stages from the reading of the events on, those of them in which the
\* directory is in use, and those after the encryption.
InUse == {"match", "threads", "correlate", "export", "clean", "seal"}
Sealing == {"register", "lineage", "undo", "ok"}
Begun(r) == stage[r] \notin {"none", "new", "failed", "ok"}

\* The names a request has taken.
Held(r) == created[r] \union (IF stage[r] = "reading" THEN {path[r]} ELSE {})

Control ==
  /\ work \in Workloads
  /\ stage \in [Requests -> Stages] /\ turn \in Active \union {NoReq}
  /\ next \in [Requests -> Nat \ {0}] /\ got \in [Requests -> Nat]
  /\ path \in [Requests -> Nat \X Nat] /\ created \in [Requests -> SUBSET (Nat \X Nat)]
  /\ DOMAIN read = Requests /\ DOMAIN pending = Requests /\ DOMAIN found = Requests
  /\ skipped \in [Requests -> SUBSET (Active \X Nat)]
  /\ \A r \in Requests :
       /\ turn = r <=> stage[r] \notin {"none", "new", "reading", "ok", "failed"}
       /\ stage[r] = "none" <=> r \notin Active
       /\ stage[r] \in {"none", "new"} => next[r] = 1 /\ created[r] = {}
       /\ r \in Active => next[r] <= Len(Uploads(r)) + 1
       /\ stage[r] = "reading" => next[r] <= Len(Uploads(r)) /\ got[r] <= Len(Content(r))
       /\ stage[r] \in InUse \union Sealing => next[r] = Len(Uploads(r)) + 1
       /\ stage[r] = "clean" => ~CallerDir(r)
       /\ stage[r] \in {"lineage", "undo"} => Again(r)
  /\ blocked \subseteq Active /\ faults \in 0..MaxFaults

StoredFile ==
  [dir : {Dir(r) : r \in Active}, name : Nat \X Nat, form : {"plain", "sealed"},
   of : Active \X Nat, upto : Nat]

\* A request that failed, or is going to, may have left files: until they are
\* cleaned up with its own directory, or for good.
Left(r) == (stage[r] = "failing" /\ ~CallerDir(r)) \/ r \in blocked

FileIsWell(f) ==
  /\ f \in StoredFile /\ f.dir \in dirs /\ f.dir = Dir(f.of[1])
  /\ f.of[2] = 0 <=> f.name = ReportName
  /\ f.of[2] # 0 => /\ f.of[2] \in DOMAIN Uploads(f.of[1])
                    /\ f.upto <= Len(Uploads(f.of[1])[f.of[2]].events)
                    /\ f.form = "plain" => f.name \in Held(f.of[1]) \/ Left(f.of[1])
  /\ f.form = "sealed" =>
       /\ work.encrypt
       /\ CallerDir(f.of[1]) /\ ~Shared(f.of[1]) =>
            stage[f.of[1]] \in {"register", "ok"} \/ f.of[1] \in blocked

NamesAreUnique ==
  \A f, g \in files :
    f.form = "plain" /\ g.form = "plain" /\ f.dir = g.dir /\ f.name = g.name => f = g

NamesAreTaken ==
  \A r \in Requests :
    /\ IsFiniteSet(created[r]) /\ \A n \in Held(r) : n # ReportName
    /\ stage[r] = "reading" => path[r] \notin created[r]

Disk ==
  /\ IsFiniteSet(files) /\ \A f \in files : FileIsWell(f)
  /\ NamesAreUnique /\ NamesAreTaken
  /\ \A r \in Active : /\ stage[r] \in InUse => Dir(r) \in dirs
                       /\ Begun(r) \/ (stage[r] = "ok" /\ CallerDir(r))
                            => Dir(r) \in dirs \union removed
  /\ removed \subseteq {Dir(r) : r \in Active}

Row(r) == [dir |-> Dir(r), by |-> r]

History ==
  \A row \in rows :
    \E r \in Active : /\ row = Row(r)
                      /\ \/ stage[r] \in {"lineage", "undo", "ok"}
                         \/ stage[r] = "failed" /\ r \in blocked

\* What the analysis has read and found.
Evaluation ==
  \A r \in Requests :
    /\ read[r] \in Seq(Record) /\ pending[r] \subseteq Chunks(read[r])
    /\ stage[r] \in {"none", "new", "open", "reading", "match"} =>
         pending[r] = {} /\ found[r] = {}
    /\ stage[r] = "threads" =>
         Reports(found[r], WithParents(read[r]),
                 UNION {ChunkOf(read[r], k) : k \in Chunks(read[r]) \ pending[r]})
    /\ stage[r] = "correlate" => Reports(found[r], WithParents(read[r]), DOMAIN read[r])

\* The names of a request's uploads stay with it as long as it may have to
\* clean them up.
Present ==
  \A r \in Active :
    Begun(r) /\ Dir(r) \notin removed /\ ~work.encrypt =>
      \A n \in Held(r) : \E f \in files : f.dir = Dir(r) /\ f.name = n /\ f.of[1] = r

Settled(r) == Dir(r) \in dirs \ removed /\ ~(work.encrypt /\ Shared(r))

\* Upload n of a request is stored with u events of it, encrypted if it should be.
Stored(q, n, u, form) ==
  \E f \in files : /\ f.dir = Dir(q) /\ f.of = <<q, n>> /\ f.upto = u
                   /\ work.encrypt => f.form = form

Form(q) == IF stage[q] \in Sealing THEN "sealed" ELSE "plain"

\* The uploads are stored, the one under way as far as it has come.
UploadsStored(r) ==
  /\ \A n \in 1..(next[r] - 1) : Stored(r, n, Len(Uploads(r)[n].events), Form(r))
  /\ stage[r] = "reading" => Stored(r, next[r], got[r], "plain")

Kept ==
  \A r \in Active :
    Settled(r) /\ stage[r] \notin {"new", "failing", "failed"} => UploadsStored(r)

\* The events of the uploads are read, if they are of the kind that is read and
\* their file was not cut short.
UploadsRead(r) ==
  \A n \in DOMAIN Uploads(r) :
    Uploads(r)[n].evtx = Converts(r) /\ <<r, n>> \notin skipped[r] =>
      \A i \in DOMAIN Uploads(r)[n].events :
        \E j \in DOMAIN read[r] : Key(read[r][j]) = Key(Uploads(r)[n].events[i])

AllRead ==
  \A r \in Active :
    /\ stage[r] \in InUse \union Sealing /\ Dir(r) \notin removed
    /\ ~(work.encrypt /\ Shared(r)) /\ MaxEvents = 0
    => UploadsRead(r)

ServiceInv == Control /\ Disk /\ History /\ Evaluation /\ Present /\ Kept /\ AllRead
                /\ FailuresLeaveNothing

-----------------------------------------------------------------------------
(* Control.                                                                *)

ControlOf(q) ==
  /\ turn = q <=> stage[q] \notin {"none", "new", "reading", "ok", "failed"}
  /\ stage[q] = "none" <=> q \notin Active
  /\ stage[q] \in {"none", "new"} => next[q] = 1 /\ created[q] = {}
  /\ q \in Active => next[q] <= Len(Uploads(q)) + 1
  /\ stage[q] = "reading" => next[q] <= Len(Uploads(q)) /\ got[q] <= Len(Content(q))
  /\ stage[q] \in InUse \union Sealing => next[q] = Len(Uploads(q)) + 1
  /\ stage[q] = "clean" => ~CallerDir(q)
  /\ stage[q] \in {"lineage", "undo"} => Again(q)

ControlTypes ==
  /\ work \in Workloads
  /\ stage \in [Requests -> Stages] /\ turn \in Active \union {NoReq}
  /\ next \in [Requests -> Nat \ {0}] /\ got \in [Requests -> Nat]
  /\ path \in [Requests -> Nat \X Nat] /\ created \in [Requests -> SUBSET (Nat \X Nat)]
  /\ DOMAIN read = Requests /\ DOMAIN pending = Requests /\ DOMAIN found = Requests
  /\ skipped \in [Requests -> SUBSET (Active \X Nat)]
  /\ blocked \subseteq Active /\ faults \in 0..MaxFaults

\* What the requests of a workload ask for is as it should be.
LEMMA WorkloadIsWell ==
  ASSUME work \in Workloads
  PROVE  /\ Active \subseteq Requests /\ NoReq \notin Requests
         /\ \A r \in Active : /\ Uploads(r) \in Seq(Upload) /\ Len(Uploads(r)) \in Nat
                              /\ Again(r) => ~CallerDir(r)
                              /\ CallerDir(r) => Dir(r) \notin Requests
                              /\ ~CallerDir(r) => Dir(r) = r
         /\ \A r \in Active : \A n \in DOMAIN Uploads(r) : Uploads(r)[n] \in Upload
  <1>1. \A r \in Active : Uploads(r) \in Seq(Upload)
    BY ServiceAssumption DEF Active, Uploads
  <1>2. \A r \in Active : /\ Len(Uploads(r)) \in Nat
                          /\ \A n \in DOMAIN Uploads(r) : Uploads(r)[n] \in Upload
    BY <1>1
  <1>3. \A r \in Active : /\ Again(r) => ~CallerDir(r)
                          /\ CallerDir(r) => Dir(r) \notin Requests
                          /\ ~CallerDir(r) => Dir(r) = r
    BY ServiceAssumption DEF Active, Again, CallerDir, Dir
  <1>4. Active \subseteq Requests /\ NoReq \notin Requests
    BY ServiceAssumption DEF Active
  <1>5. ASSUME NEW r \in Active
        PROVE  /\ Uploads(r) \in Seq(Upload) /\ Len(Uploads(r)) \in Nat
               /\ Again(r) => ~CallerDir(r)
               /\ CallerDir(r) => Dir(r) \notin Requests
               /\ ~CallerDir(r) => Dir(r) = r
               /\ \A n \in DOMAIN Uploads(r) : Uploads(r)[n] \in Upload
    <2>1. Uploads(r) \in Seq(Upload)
      BY <1>1
    <2>2. /\ Len(Uploads(r)) \in Nat
          /\ \A n \in DOMAIN Uploads(r) : Uploads(r)[n] \in Upload
      BY <1>2
    <2>3. /\ Again(r) => ~CallerDir(r)
          /\ CallerDir(r) => Dir(r) \notin Requests
          /\ ~CallerDir(r) => Dir(r) = r
      BY <1>3
    <2> QED BY <2>1, <2>2, <2>3
  <1> QED BY <1>4, <1>5

\* A step of a request is in nobody else's way.
LEMMA Frame ==
  ASSUME Control, NEW r \in Active, Step(r)
  PROVE  /\ work' = work /\ turn \in {NoReq, r} /\ turn' \in {NoReq, r}
         /\ \A q \in Requests \ {r} :
              /\ stage'[q] = stage[q] /\ next'[q] = next[q] /\ path'[q] = path[q]
              /\ got'[q] = got[q] /\ created'[q] = created[q] /\ read'[q] = read[q]
              /\ skipped'[q] = skipped[q] /\ pending'[q] = pending[q] /\ found'[q] = found[q]
  <1> USE DEF Control, Continue, GiveWay, uploadVars, analysisVars, loopVars, diskVars
  <1>1. CASE Begin(r)
    BY <1>1 DEF Begin
  <1>2. CASE Open(r)
    BY <1>2 DEF Open
  <1>3. CASE Receive(r)
    BY <1>3 DEF Receive
  <1>4. CASE Complete(r)
    BY <1>4 DEF Complete
  <1>5. CASE Refuse(r)
    BY <1>5 DEF Refuse
  <1>6. CASE CleanUp(r)
    BY <1>6 DEF CleanUp
  <1>7. CASE Start(r)
    BY <1>7 DEF Start, Reads
  <1>8. CASE Analyze(r)
    BY <1>8 DEF Analyze
  <1>9. CASE ChunkFails(r)
    BY <1>9 DEF ChunkFails
  <1>10. CASE Correlate(r)
    BY <1>10 DEF Correlate
  <1>11. CASE \E k \in pending[r] : MergeChunk(r, k)
    BY <1>11 DEF MergeChunk
  <1>12. CASE Export(r)
    BY <1>12 DEF Export
  <1>13. CASE Clean(r)
    BY <1>13 DEF Clean
  <1>14. CASE Seal(r)
    BY <1>14 DEF Seal
  <1>15. CASE Register(r)
    BY <1>15 DEF Register
  <1>16. CASE SetLineage(r)
    BY <1>16 DEF SetLineage
  <1>17. CASE Undo(r)
    BY <1>17 DEF Undo
  <1> QED
    BY <1>1, <1>2, <1>3, <1>4, <1>5, <1>6, <1>7, <1>8, <1>9, <1>10, <1>11, <1>12, <1>13, <1>14,
       <1>15, <1>16, <1>17
    DEF Step

\* How the stages follow one another.
LEMMA Transitions ==
  ASSUME Control, NEW r \in Active, NEW k
  PROVE  /\ Begin(r) => stage[r] = "new" /\ stage'[r] = "open"
         /\ Open(r) => stage[r] = "open" /\ stage'[r] \in {"reading", "failing"}
         /\ Receive(r) => stage[r] = "reading" /\ stage'[r] = "reading"
         /\ Complete(r) => stage[r] = "reading" /\ stage'[r] = "open"
         /\ Refuse(r) => stage[r] = "reading" /\ stage'[r] = "failing"
         /\ CleanUp(r) => stage[r] = "failing" /\ stage'[r] = "failed"
         /\ Start(r) => stage[r] = "open" /\ stage'[r] \in {"match", "failing"}
         /\ Analyze(r) => stage[r] = "match" /\ stage'[r] \in {"threads", "correlate"}
         /\ ChunkFails(r) => stage[r] = "threads" /\ stage'[r] = "failing"
         /\ Correlate(r) => stage[r] = "correlate" /\ stage'[r] = "export"
         /\ MergeChunk(r, k) => stage[r] = "threads" /\ stage'[r] \in {"correlate", "threads"}
         /\ Export(r) => stage[r] = "export" /\ stage'[r] \in {"clean", "seal", "failing"}
         /\ Clean(r) => stage[r] = "clean" /\ stage'[r] \in {"ok", "seal"}
         /\ Seal(r) => stage[r] = "seal" /\ stage'[r] \in {"register", "failing"}
         /\ Register(r) => stage[r] = "register" /\ stage'[r] \in {"lineage", "ok", "failing"}
         /\ SetLineage(r) => stage[r] = "lineage" /\ stage'[r] \in {"ok", "undo"}
         /\ Undo(r) => stage[r] = "undo" /\ stage'[r] = "failed"
  <1>1. r \in Requests /\ stage \in [Requests -> Stages]
    BY WorkloadIsWell DEF Control
  <1> USE <1>1 DEF Continue, GiveWay
  <1>2. Begin(r) => stage[r] = "new" /\ stage'[r] = "open"
    BY DEF Begin
  <1>3. Open(r) => stage[r] = "open" /\ stage'[r] \in {"reading", "failing"}
    BY DEF Open
  <1>4. Receive(r) => stage[r] = "reading" /\ stage'[r] = "reading"
    BY DEF Receive
  <1>5. Complete(r) => stage[r] = "reading" /\ stage'[r] = "open"
    BY DEF Complete
  <1>6. Refuse(r) => stage[r] = "reading" /\ stage'[r] = "failing"
    BY DEF Refuse
  <1>7. CleanUp(r) => stage[r] = "failing" /\ stage'[r] = "failed"
    BY DEF CleanUp
  <1>8. Start(r) => stage[r] = "open" /\ stage'[r] \in {"match", "failing"}
    BY DEF Start
  <1>9. Analyze(r) => stage[r] = "match" /\ stage'[r] \in {"threads", "correlate"}
    BY DEF Analyze
  <1>10. ChunkFails(r) => stage[r] = "threads" /\ stage'[r] = "failing"
    BY DEF ChunkFails
  <1>11. Correlate(r) => stage[r] = "correlate" /\ stage'[r] = "export"
    BY DEF Correlate
  <1>12. MergeChunk(r, k) => stage[r] = "threads" /\ stage'[r] \in {"correlate", "threads"}
    BY DEF MergeChunk
  <1>13. Export(r) => stage[r] = "export" /\ stage'[r] \in {"clean", "seal", "failing"}
    BY DEF Export
  <1>14. Clean(r) => stage[r] = "clean" /\ stage'[r] \in {"ok", "seal"}
    BY DEF Clean
  <1>15. Seal(r) => stage[r] = "seal" /\ stage'[r] \in {"register", "failing"}
    BY DEF Seal
  <1>16. Register(r) => stage[r] = "register" /\ stage'[r] \in {"lineage", "ok", "failing"}
    BY DEF Register
  <1>17. SetLineage(r) => stage[r] = "lineage" /\ stage'[r] \in {"ok", "undo"}
    BY DEF SetLineage
  <1>18. Undo(r) => stage[r] = "undo" /\ stage'[r] = "failed"
    BY DEF Undo
  <1> QED
    BY <1>2, <1>3, <1>4, <1>5, <1>6, <1>7, <1>8, <1>9, <1>10, <1>11, <1>12, <1>13, <1>14, <1>15,
       <1>16, <1>17, <1>18

\* What stage a request can have come from.
LEMMA StagesBefore ==
  ASSUME Control, NEW r \in Active, Step(r)
  PROVE  /\ stage[r] \notin {"none", "ok", "failed"} /\ (stage[r] = "new" => Begin(r))
         /\ stage[r] = "failing" => stage'[r] = "failed"
         /\ stage'[r] \in Sealing => stage[r] \in Sealing \/ Seal(r) \/ Clean(r)
         /\ stage[r] \in Sealing => stage'[r] \in Sealing \union {"failing", "failed"}
         /\ stage'[r] \in InUse \union Sealing => stage[r] \in InUse \union Sealing \/ Start(r)
         /\ stage'[r] = "reading" => Open(r) \/ Receive(r)
  <1> USE Transitions DEF InUse, Sealing
  <1>1. CASE Begin(r) \/ Open(r) \/ Receive(r) \/ Complete(r) \/ Refuse(r) \/ CleanUp(r)
    BY <1>1
  <1>2. CASE Start(r) \/ Analyze(r) \/ ChunkFails(r) \/ Correlate(r)
    BY <1>2
  <1>3. CASE \E k \in pending[r] : MergeChunk(r, k)
    BY <1>3
  <1>4. CASE Export(r) \/ Clean(r) \/ Seal(r) \/ Register(r) \/ SetLineage(r) \/ Undo(r)
    BY <1>4
  <1> QED BY <1>1, <1>2, <1>3, <1>4 DEF Step

\* A request that fails does nothing but clean up.
LEMMA FailingCleansUp ==
  ASSUME NEW r, Step(r), stage[r] = "failing"
  PROVE  CleanUp(r)
  <1>1. ~(Begin(r) \/ Open(r) \/ Receive(r) \/ Complete(r) \/ Refuse(r))
    BY DEF Begin, Open, Receive, Complete, Refuse
  <1>2. ~(Start(r) \/ Analyze(r) \/ ChunkFails(r) \/ Correlate(r))
    BY DEF Start, Analyze, ChunkFails, Correlate
  <1>3. ~\E k \in pending[r] : MergeChunk(r, k)
    BY DEF MergeChunk
  <1>4. ~(Export(r) \/ Clean(r) \/ Seal(r) \/ Register(r) \/ SetLineage(r) \/ Undo(r))
    BY DEF Export, Clean, Seal, Register, SetLineage, Undo
  <1> QED BY <1>1, <1>2, <1>3, <1>4 DEF Step

\* What removes a directory, whole or in part, takes nothing else and marks it
\* when it takes anything.
Reduces(d) ==
  /\ files' \subseteq files /\ \A f \in files : f.dir # d => f \in files'
  /\ dirs' \in {dirs, dirs \ {d}} /\ (dirs' = dirs \/ \A f \in files' : f.dir # d)
  /\ removed' \in {removed, removed \union {d}}
  /\ d \in removed' \/ (files' = files /\ dirs' = dirs)

LEMMA RemovalReduces ==
  ASSUME NEW d, Removes(d) \/ RemovedInPart(d)
  PROVE  Reduces(d)
  <1>1. CASE Removes(d)
    BY <1>1 DEF Removes, Reduces
  <1>2. CASE RemovedInPart(d)
    <2>1. PICK gone \in SUBSET {f \in files : f.dir = d} :
             /\ files' = files \ gone /\ dirs' = dirs
             /\ removed' = IF gone = {} THEN removed ELSE removed \union {d}
      BY <1>2 DEF RemovedInPart
    <2>2. files' \subseteq files /\ \A f \in files : f.dir # d => f \in files'
      BY <2>1
    <2>3. removed' \in {removed, removed \union {d}} /\ (d \in removed' \/ files' = files)
      BY <2>1
    <2> QED BY <2>1, <2>2, <2>3 DEF Reduces
  <1> QED BY <1>1, <1>2

\* What it leaves: the files of directories that are not marked, in directories
\* that are there.
LEMMA ReductionSpares ==
  ASSUME NEW d, Reduces(d)
  PROVE  /\ files' \subseteq files /\ dirs' \subseteq dirs /\ removed \subseteq removed'
         /\ \A f \in files : f.dir \notin removed' => f \in files'
         /\ \A x \in dirs : x \in dirs' \/ x \in removed'
         /\ \A f \in files' : f.dir \in dirs => f.dir \in dirs'
         /\ removed' \subseteq removed \union {d}
  <1>1. files' \subseteq files /\ dirs' \subseteq dirs /\ removed \subseteq removed'
        /\ removed' \subseteq removed \union {d}
    BY DEF Reduces
  <1>2. \A f \in files : f.dir \notin removed' => f \in files'
    BY DEF Reduces
  <1>3. \A x \in dirs : x \in dirs' \/ x \in removed'
    BY DEF Reduces
  <1>4. \A f \in files' : f.dir \in dirs => f.dir \in dirs'
    BY DEF Reduces
  <1> QED BY <1>1, <1>2, <1>3, <1>4

\* Where a request takes back its case, and where it is not to keep its results.
LEMMA UndoReduces ==
  ASSUME NEW r, Undo(r)
  PROVE  Reduces(Dir(r)) /\ rows' \subseteq rows /\ (r \in blocked' \/ Deletes(Row(r)))
  <1>1. Removes(Dir(r)) \/ RemovedInPart(Dir(r))
    BY DEF Undo, Deletes, KeepsRow
  <1>2. rows' \subseteq rows
    BY DEF Undo, Deletes, KeepsRow
  <1>3. r \in blocked' \/ Deletes(Row(r))
    BY DEF Undo, Row
  <1> QED BY <1>1, <1>2, <1>3, RemovalReduces

LEMMA CleanReduces ==
  ASSUME NEW r, Clean(r)
  PROVE  \/ /\ dirs' = dirs \ {Dir(r)} /\ files' = {f \in files : f.dir # Dir(r)}
            /\ removed' = removed /\ GiveWay(r, "ok")
         \/ Reduces(Dir(r)) /\ dirs' = dirs /\ Continue(r, "seal")
  <1>1. RemovedInPart(Dir(r)) => dirs' = dirs
    BY DEF RemovedInPart
  <1> QED BY <1>1, RemovalReduces DEF Clean

\* Of whom something stays is never forgotten.
LEMMA BlockedGrows ==
  ASSUME NEW r, Step(r)
  PROVE  blocked \subseteq blocked' /\ blocked' \subseteq blocked \union {r}
  <1>1. CASE Begin(r) \/ Open(r) \/ Receive(r) \/ Complete(r)
    BY <1>1 DEF Begin, Open, Receive, Complete
  <1>2. CASE Refuse(r) \/ CleanUp(r) \/ Seal(r) \/ Undo(r)
    BY <1>2 DEF Refuse, CleanUp, Seal, Undo, Leaves
  <1>3. CASE Start(r) \/ Analyze(r) \/ ChunkFails(r) \/ Correlate(r)
    BY <1>3 DEF Start, Analyze, ChunkFails, Correlate
  <1>4. CASE \E k \in pending[r] : MergeChunk(r, k)
    BY <1>4 DEF MergeChunk
  <1>5. CASE Export(r) \/ Clean(r) \/ Register(r) \/ SetLineage(r)
    BY <1>5 DEF Export, Clean, Register, SetLineage
  <1> QED BY <1>1, <1>2, <1>3, <1>4, <1>5 DEF Step

\* A step takes the request to another stage, except that it may receive a part
\* of an upload.
Goes(r, s) ==
  /\ stage' = [stage EXCEPT ![r] = s]
  /\ turn' = IF s \in {"reading", "ok", "failed"} THEN NoReq ELSE r

Stays(r) == stage' = stage /\ turn' = turn /\ stage[r] = "reading"

\* What a step does to the stage of its request and to the event loop.
LEMMA Moves ==
  ASSUME NEW r, Step(r)
  PROVE  /\ Stays(r) \/ \E s \in Stages \ {"none", "new"} : Goes(r, s)
         /\ faults' = faults \/ Fault
  <1> USE DEF Continue, GiveWay
  <1>a. \A s : Goes(r, s) /\ s \in Stages \ {"none", "new"} =>
                 Stays(r) \/ \E t \in Stages \ {"none", "new"} : Goes(r, t)
    OBVIOUS
  <1>1. CASE Begin(r)
    <2>1. Goes(r, "open")
      BY <1>1 DEF Begin, Goes, Stays, loopVars
    <2>2. faults' = faults \/ Fault
      BY <1>1 DEF Begin
    <2> QED BY <1>a, <2>1, <2>2 DEF Stages
  <1>2. CASE Open(r)
    <2>1. Goes(r, "reading") \/ Goes(r, "failing")
      BY <1>2 DEF Open, Goes, Stays, loopVars
    <2>2. faults' = faults \/ Fault
      BY <1>2 DEF Open
    <2> QED BY <1>a, <2>1, <2>2 DEF Stages
  <1>3. CASE Receive(r)
    <2>1. Stays(r)
      BY <1>3 DEF Receive, Goes, Stays, loopVars
    <2>2. faults' = faults \/ Fault
      BY <1>3 DEF Receive
    <2> QED BY <1>a, <2>1, <2>2 DEF Stages
  <1>4. CASE Complete(r)
    <2>1. Goes(r, "open")
      BY <1>4 DEF Complete, Goes, Stays, loopVars
    <2>2. faults' = faults \/ Fault
      BY <1>4 DEF Complete
    <2> QED BY <1>a, <2>1, <2>2 DEF Stages
  <1>5. CASE Refuse(r)
    <2>1. Goes(r, "failing")
      BY <1>5 DEF Refuse, Goes, Stays, loopVars
    <2>2. faults' = faults \/ Fault
      BY <1>5 DEF Refuse
    <2> QED BY <1>a, <2>1, <2>2 DEF Stages
  <1>6. CASE CleanUp(r)
    <2>1. Goes(r, "failed")
      BY <1>6 DEF CleanUp, Goes, Stays, loopVars
    <2>2. faults' = faults \/ Fault
      BY <1>6 DEF CleanUp
    <2> QED BY <1>a, <2>1, <2>2 DEF Stages
  <1>7. CASE Start(r)
    <2>1. Goes(r, "match") \/ Goes(r, "failing")
      BY <1>7 DEF Start, Goes, Stays, loopVars
    <2>2. faults' = faults \/ Fault
      BY <1>7 DEF Start
    <2> QED BY <1>a, <2>1, <2>2 DEF Stages
  <1>8. CASE Analyze(r)
    <2>1. Goes(r, "threads") \/ Goes(r, "correlate")
      BY <1>8 DEF Analyze, Goes, Stays, loopVars
    <2>2. faults' = faults \/ Fault
      BY <1>8 DEF Analyze
    <2> QED BY <1>a, <2>1, <2>2 DEF Stages
  <1>9. CASE ChunkFails(r)
    <2>1. Goes(r, "failing")
      BY <1>9 DEF ChunkFails, Goes, Stays, loopVars
    <2>2. faults' = faults \/ Fault
      BY <1>9 DEF ChunkFails
    <2> QED BY <1>a, <2>1, <2>2 DEF Stages
  <1>10. CASE Correlate(r)
    <2>1. Goes(r, "export")
      BY <1>10 DEF Correlate, Goes, Stays, loopVars
    <2>2. faults' = faults \/ Fault
      BY <1>10 DEF Correlate
    <2> QED BY <1>a, <2>1, <2>2 DEF Stages
  <1>11. CASE \E k \in pending[r] : MergeChunk(r, k)
    <2>1. Goes(r, "correlate") \/ Goes(r, "threads")
      BY <1>11 DEF MergeChunk, Goes, Stays, loopVars
    <2>2. faults' = faults \/ Fault
      BY <1>11 DEF MergeChunk
    <2> QED BY <1>a, <2>1, <2>2 DEF Stages
  <1>12. CASE Export(r)
    <2>1. Goes(r, "clean") \/ Goes(r, "seal") \/ Goes(r, "failing")
      BY <1>12 DEF Export, Goes, Stays, loopVars
    <2>2. faults' = faults \/ Fault
      BY <1>12 DEF Export
    <2> QED BY <1>a, <2>1, <2>2 DEF Stages
  <1>13. CASE Clean(r)
    <2>1. Goes(r, "ok") \/ Goes(r, "seal")
      BY <1>13 DEF Clean, Goes, Stays, loopVars
    <2>2. faults' = faults \/ Fault
      BY <1>13 DEF Clean
    <2> QED BY <1>a, <2>1, <2>2 DEF Stages
  <1>14. CASE Seal(r)
    <2>1. Goes(r, "register") \/ Goes(r, "failing")
      BY <1>14 DEF Seal, Goes, Stays, loopVars
    <2>2. faults' = faults \/ Fault
      BY <1>14 DEF Seal
    <2> QED BY <1>a, <2>1, <2>2 DEF Stages
  <1>15. CASE Register(r)
    <2>1. Goes(r, "lineage") \/ Goes(r, "ok") \/ Goes(r, "failing")
      BY <1>15 DEF Register, Goes, Stays, loopVars
    <2>2. faults' = faults \/ Fault
      BY <1>15 DEF Register
    <2> QED BY <1>a, <2>1, <2>2 DEF Stages
  <1>16. CASE SetLineage(r)
    <2>1. Goes(r, "ok") \/ Goes(r, "undo")
      BY <1>16 DEF SetLineage, Goes, Stays, loopVars
    <2>2. faults' = faults \/ Fault
      BY <1>16 DEF SetLineage
    <2> QED BY <1>a, <2>1, <2>2 DEF Stages
  <1>17. CASE Undo(r)
    <2>1. Goes(r, "failed")
      BY <1>17 DEF Undo, Goes, Stays, loopVars
    <2>2. faults' = faults \/ Fault
      BY <1>17 DEF Undo
    <2> QED BY <1>a, <2>1, <2>2 DEF Stages
  <1> QED
    BY <1>1, <1>2, <1>3, <1>4, <1>5, <1>6, <1>7, <1>8, <1>9, <1>10, <1>11, <1>12, <1>13, <1>14,
       <1>15, <1>16, <1>17
    DEF Step


\* The collision count stops at a name that nothing in the directory has.
LEMMA FreeNameIsFree ==
  ASSUME Control, Disk, NEW r \in Active, next[r] <= Len(Uploads(r))
  PROVE  /\ FreeName(r) \in Nat \X Nat /\ FreeName(r) # ReportName
         /\ FreeName(r) \notin Taken(r)
  <1> DEFINE T == Taken(r)
             N == Cardinality(T) + 1
             base == Uploads(r)[next[r]].name
             Free == {k \in 1..N : <<base, k>> \notin T}
             k == Min(Free)
  <1>1. r \in Requests /\ base \in Nat \ {0}
    <2>1. r \in Requests /\ Uploads(r) \in Seq(Upload) /\ next[r] \in Nat \ {0}
      BY WorkloadIsWell DEF Control
    <2>2. Uploads(r)[next[r]] \in Upload
      BY <2>1
    <2> QED BY <2>1, <2>2 DEF Upload
  <1>2. IsFiniteSet(T)
    <2>1. IsFiniteSet(created[r]) /\ IsFiniteSet(files)
      BY <1>1 DEF Disk, NamesAreTaken
    <2>2. IsFiniteSet(Plain(Dir(r)))
      <3>1. Plain(Dir(r)) \in SUBSET files
        BY DEF Plain
      <3> QED BY <2>1, <3>1, FS_Subset
    <2>3. IsFiniteSet(Names(Plain(Dir(r))))
      <3> DEFINE P == Plain(Dir(r))
                 h == [f \in P |-> f.name]
      <3>1. h \in Surjection(P, Names(P))
        BY DEF Surjection, Names
      <3> HIDE DEF h, P
      <3> QED BY <2>2, <3>1, FS_Surjection DEF P
    <2> QED BY <2>1, <2>3, FS_Union DEF Taken
  <1>3. N \in Nat /\ 1 \in Int /\ N \in Int /\ Cardinality(T) < N
    BY <1>2, FS_CardinalityType
  <1>4. IsFiniteSet(1..N) /\ Cardinality(1..N) = N
    BY <1>3, FS_Interval
  <1> HIDE DEF base, T, N
  <1>5. Free # {}
    <2> SUFFICES ASSUME Free = {} PROVE FALSE
      OBVIOUS
    <2> DEFINE h == [i \in 1..N |-> <<base, i>>]
    <2>1. h \in [1..N -> T]
      OBVIOUS
    <2>2. \A i, j \in 1..N : h[i] = h[j] => i = j
      OBVIOUS
    <2> HIDE DEF h
    <2>3. \E i, j \in 1..N : i # j /\ h[i] = h[j]
      BY <1>2, <1>3, <1>4, <2>1, FS_PigeonHole
    <2> QED BY <2>2, <2>3
  <1>6. Free \subseteq Nat /\ IsFiniteSet(Free)
    <2>1. Free \in SUBSET (1..N)
      OBVIOUS
    <2> HIDE DEF Free
    <2>2. 1..N \subseteq Nat
      BY <1>3
    <2> QED BY <1>4, <2>1, <2>2, FS_Subset
  <1>7. k \in Free
    BY <1>5, <1>6, Extremes
  <1>8. FreeName(r) = <<base, k>>
    BY DEF FreeName, base, T, N
  <1> HIDE DEF k
  <1> QED BY <1>1, <1>6, <1>7, <1>8 DEF ReportName, T

\* The variables keep their types.
LEMMA TypesKept ==
  ASSUME Control, Disk, NEW r \in Active, Step(r)
  PROVE  ControlTypes'
  <1>0. Active \subseteq Requests /\ MaxFaults \in Nat
    BY WorkloadIsWell, ServiceAssumption DEF Control
  <1>a. stage' \in [Requests -> Stages] /\ turn' \in {r, NoReq}
    BY <1>0, Moves, Frame, ZenonT(40) DEF Control, Goes, Stays
  <1>e. faults \in 0..MaxFaults
    BY DEF Control
  <1>b. faults' \in 0..MaxFaults
    BY <1>0, <1>e, Moves DEF Fault
  <1>c. work' = work
    BY Frame
  <1>f. blocked' \subseteq Active
    BY BlockedGrows DEF Control
  <1> DEFINE Rest == /\ next' \in [Requests -> Nat \ {0}] /\ got' \in [Requests -> Nat]
                     /\ path' \in [Requests -> Nat \X Nat]
                     /\ created' \in [Requests -> SUBSET (Nat \X Nat)]
                     /\ DOMAIN read' = Requests /\ DOMAIN pending' = Requests
                     /\ DOMAIN found' = Requests /\ blocked' \subseteq Active
                     /\ skipped' \in [Requests -> SUBSET (Active \X Nat)]
  <1> USE DEF uploadVars, analysisVars
  <1>1. ASSUME Begin(r) PROVE Rest
    BY <1>0, <1>1 DEF Begin, Control
  <1>2. ASSUME Open(r) PROVE Rest
    <2>1. FreeName(r) \in Nat \X Nat
      BY <1>2, FreeNameIsFree DEF Open
    <2> HIDE DEF Rest
    <2>2. CASE Dir(r) \in dirs
      <3>1. /\ path' = [path EXCEPT ![r] = FreeName(r)] /\ got' = [got EXCEPT ![r] = 0]
            /\ UNCHANGED <<next, created, read, skipped, pending, found, blocked>>
        BY <1>2, <2>2 DEF Open
      <3> QED BY <1>0, <2>1, <3>1 DEF Control, Rest
    <2>3. CASE Dir(r) \notin dirs
      BY <1>0, <1>2, <2>3 DEF Open, Control, Rest
    <2> QED BY <2>2, <2>3
  <1>3. ASSUME Receive(r) PROVE Rest
    BY <1>0, <1>3, SMTT(20) DEF Receive, Control
  <1>4. ASSUME Complete(r) PROVE Rest
    BY <1>0, <1>4 DEF Complete, Control
  <1>5. ASSUME Refuse(r) PROVE Rest
    BY <1>0, <1>f, <1>5 DEF Refuse, Control
  <1>6. ASSUME CleanUp(r) PROVE Rest
    BY <1>0, <1>6 DEF CleanUp, Control
  <1>7. ASSUME Start(r) PROVE Rest
    <2>1. /\ UNCHANGED <<next, got, path, created, pending, found, blocked>>
          /\ skipped' = skipped \/ \E upto : Reads(r, upto)
          /\ read' = read \/ \E upto : Reads(r, upto)
      BY <1>7 DEF Start
    <2>2. \A f \in files : f.of \in Active \X Nat
      BY DEF Disk, FileIsWell, StoredFile
    <2>3. ASSUME NEW upto, Reads(r, upto)
          PROVE  /\ skipped' \in [Requests -> SUBSET (Active \X Nat)]
                 /\ DOMAIN read' = Requests
      <3>1. {f.of : f \in CutShort(r, upto)} \subseteq Active \X Nat
        BY <2>2 DEF CutShort, Chosen, Plain
      <3>2. /\ skipped' = [skipped EXCEPT ![r] = {f.of : f \in CutShort(r, upto)}]
            /\ DOMAIN read' = DOMAIN read
        BY <2>3 DEF Reads
      <3> QED BY <3>1, <3>2 DEF Control
    <2> QED BY <1>0, <2>1, <2>3 DEF Control
  <1>8. ASSUME Analyze(r) PROVE Rest
    BY <1>0, <1>8 DEF Analyze, Control
  <1>9. ASSUME ChunkFails(r) PROVE Rest
    BY <1>0, <1>9 DEF ChunkFails, Control
  <1>10. ASSUME Correlate(r) PROVE Rest
    BY <1>0, <1>10 DEF Correlate, Control
  <1>11. ASSUME \E k \in pending[r] : MergeChunk(r, k) PROVE Rest
    BY <1>0, <1>11 DEF MergeChunk, Control
  <1>12. ASSUME Export(r) PROVE Rest
    BY <1>0, <1>12 DEF Export, Control
  <1>13. ASSUME Clean(r) PROVE Rest
    BY <1>0, <1>13 DEF Clean, Control
  <1>14. ASSUME Seal(r) PROVE Rest
    BY <1>0, <1>f, <1>14 DEF Seal, Control
  <1>15. ASSUME Register(r) PROVE Rest
    BY <1>0, <1>15 DEF Register, Control
  <1>16. ASSUME SetLineage(r) PROVE Rest
    BY <1>0, <1>16 DEF SetLineage, Control
  <1>17. ASSUME Undo(r) PROVE Rest
    BY <1>0, <1>f, <1>17 DEF Undo, Control
  <1>d. Rest
    BY <1>1, <1>2, <1>3, <1>4, <1>5, <1>6, <1>7, <1>8, <1>9, <1>10, <1>11, <1>12, <1>13, <1>14,
       <1>15, <1>16, <1>17
    DEF Step
  <1> QED BY <1>a, <1>b, <1>c, <1>d DEF ControlTypes, Control, Active

\* Control in two parts: the types, and what is true of each request.
LEMMA ControlParts ==
  Control <=> ControlTypes /\ \A q \in Requests : ControlOf(q)
  BY DEF Control, ControlTypes, ControlOf

\* What a workload says does not change.
LEMMA SameWork ==
  ASSUME work' = work
  PROVE  /\ Active' = Active
         /\ \A q : /\ Uploads(q)' = Uploads(q) /\ Dir(q)' = Dir(q) /\ Again(q)' = Again(q)
                   /\ CallerDir(q)' = CallerDir(q) /\ Converts(q)' = Converts(q)
         /\ \A q : Shared(q)' = Shared(q)
  BY DEF Active, Uploads, Dir, Again, CallerDir, Converts, Shared

\* What is true of another request stays true.
LEMMA OthersStay ==
  ASSUME Control, NEW r \in Active, Step(r), NEW q \in Requests \ {r}
  PROVE  ControlOf(q)'
  <1>1. ControlOf(q) /\ NoReq \notin Requests /\ Active \subseteq Requests
    BY ControlParts, WorkloadIsWell DEF ControlTypes
  <1>2. /\ Active' = Active /\ Uploads(q)' = Uploads(q) /\ Again(q)' = Again(q)
        /\ CallerDir(q)' = CallerDir(q)
        /\ stage'[q] = stage[q] /\ next'[q] = next[q] /\ got'[q] = got[q]
        /\ created'[q] = created[q]
    BY Frame, SameWork
  <1>3. turn' = q <=> turn = q
    BY <1>1, Frame
  <1>4. Content(q)' = Content(q)
    BY <1>2 DEF Content
  <1> QED BY <1>1, <1>2, <1>3, <1>4 DEF ControlOf

\* An upload holds events and has a name.
LEMMA ContentLength ==
  ASSUME work \in Workloads, NEW r \in Active, NEW n \in DOMAIN Uploads(r)
  PROVE  /\ Uploads(r)[n].events \in Seq(Record) /\ Len(Uploads(r)[n].events) \in Nat
         /\ Uploads(r)[n].name \in Nat \ {0}
  <1>1. Uploads(r)[n] \in Upload
    BY WorkloadIsWell
  <1> QED BY <1>1 DEF Upload

\* A step of a request keeps Control.
LEMMA ControlKept ==
  ASSUME Control, Disk, NEW r \in Active, Step(r)
  PROVE  Control'
  <1>1. /\ ControlTypes' /\ ControlTypes /\ ControlOf(r) /\ r \in Requests /\ NoReq \notin Requests
        /\ Len(Uploads(r)) \in Nat
    BY TypesKept, ControlParts, WorkloadIsWell DEF ControlTypes
  <1>2. /\ Active' = Active /\ Uploads(r)' = Uploads(r) /\ Again(r)' = Again(r)
        /\ CallerDir(r)' = CallerDir(r)
    BY Frame, SameWork
  <1>3. /\ turn' = r <=> stage'[r] \notin {"none", "new", "reading", "ok", "failed"}
        /\ stage'[r] \notin {"none", "new"}
    <2>1. CASE Stays(r)
      BY <1>1, <2>1 DEF Stays, ControlOf
    <2>2. CASE \E s \in Stages \ {"none", "new"} : Goes(r, s)
      <3>1. PICK s \in Stages \ {"none", "new"} : Goes(r, s)
        BY <2>2
      <3>2. stage'[r] = s /\ turn' = IF s \in {"reading", "ok", "failed"} THEN NoReq ELSE r
        BY <1>1, <3>1 DEF Goes, ControlTypes
      <3> QED BY <1>1, <3>2
    <2> QED BY <2>1, <2>2, Moves
  <1> DEFINE Rest ==
               /\ next'[r] <= Len(Uploads(r)) + 1
               /\ stage'[r] = "reading" =>
                    next'[r] <= Len(Uploads(r)) /\ got'[r] <= Len(Uploads(r)[next'[r]].events)
               /\ stage'[r] \in InUse \union Sealing => next'[r] = Len(Uploads(r)) + 1
               /\ stage'[r] = "clean" => ~CallerDir(r)
               /\ stage'[r] \in {"lineage", "undo"} => Again(r)
  <1> USE DEF uploadVars, Continue, GiveWay, ControlOf, ControlTypes, InUse, Sealing, Cleaning
  <1>4. ASSUME Begin(r) PROVE Rest
    BY <1>1, <1>4 DEF Begin
  <1>5. ASSUME Open(r) PROVE Rest
    BY <1>1, <1>5, ContentLength, SMTT(20) DEF Open
  <1>6. ASSUME Receive(r) PROVE Rest
    BY <1>1, <1>6, ContentLength DEF Receive, Content
  <1>7. ASSUME Complete(r) PROVE Rest
    BY <1>1, <1>7, ContentLength DEF Complete, Content
  <1>8. ASSUME Refuse(r) PROVE Rest
    BY <1>1, <1>8 DEF Refuse
  <1>9. ASSUME CleanUp(r) PROVE Rest
    BY <1>1, <1>9 DEF CleanUp
  <1>10. ASSUME Start(r) PROVE Rest
    BY <1>1, <1>10 DEF Start
  <1>11. ASSUME Analyze(r) PROVE Rest
    BY <1>1, <1>11 DEF Analyze
  <1>12. ASSUME ChunkFails(r) PROVE Rest
    BY <1>1, <1>12 DEF ChunkFails
  <1>13. ASSUME Correlate(r) PROVE Rest
    BY <1>1, <1>13 DEF Correlate
  <1>14. ASSUME \E k \in pending[r] : MergeChunk(r, k) PROVE Rest
    BY <1>1, <1>14 DEF MergeChunk
  <1>15. ASSUME Export(r) PROVE Rest
    BY <1>1, <1>15 DEF Export
  <1>16. ASSUME Clean(r) PROVE Rest
    BY <1>1, <1>16 DEF Clean
  <1>17. ASSUME Seal(r) PROVE Rest
    BY <1>1, <1>17 DEF Seal
  <1>18. ASSUME Register(r) PROVE Rest
    BY <1>1, <1>18 DEF Register
  <1>19. ASSUME SetLineage(r) PROVE Rest
    BY <1>1, <1>19 DEF SetLineage
  <1>20. ASSUME Undo(r) PROVE Rest
    BY <1>1, <1>20 DEF Undo
  <1>21. Rest
    BY <1>4, <1>5, <1>6, <1>7, <1>8, <1>9, <1>10, <1>11, <1>12, <1>13, <1>14, <1>15, <1>16, <1>17,
       <1>18, <1>19, <1>20
    DEF Step
  <1>22. ControlOf(r)'
    BY <1>1, <1>2, <1>3, <1>21 DEF Content
  <1>23. \A q \in Requests : ControlOf(q)'
    BY <1>22, OthersStay
  <1> QED BY <1>1, <1>23 DEF Control, ControlTypes, ControlOf

-----------------------------------------------------------------------------
(* Files.                                                                  *)

NewFile(r) ==
  [dir |-> Dir(r), name |-> FreeName(r), form |-> "plain", of |-> <<r, next[r]>>, upto |-> 0]
ReportFile(r) ==
  [dir |-> Dir(r), name |-> ReportName, form |-> "plain", of |-> <<r, 0>>, upto |-> 0]
Arrives(r, f) == f.of = <<r, next[r]>> /\ f.form = "plain"
Longer(r, f) == IF Arrives(r, f) THEN [f EXCEPT !.upto = got[r] + 1] ELSE f

\* The steps after which files are there that were not there before.
LEMMA FileOrigins ==
  ASSUME NEW r, Step(r)
  PROVE  \/ Open(r) /\ Dir(r) \in dirs /\ files' = files \union {NewFile(r)}
         \/ Receive(r) /\ files' = {Longer(r, f) : f \in files}
         \/ Export(r) /\ files' = {f \in files : f \notin Plain(Dir(r)) \/ f.name # ReportName}
                                     \union {ReportFile(r)}
         \/ Seal(r) /\ work.encrypt /\ files' \subseteq files \union SealedCopies(Plain(Dir(r)))
         \/ files' \subseteq files
  <1> USE DEF diskVars
  <1>1. CASE Begin(r)
    BY <1>1 DEF Begin
  <1>2. CASE Open(r)
    BY <1>2 DEF Open, NewFile
  <1>3. CASE Receive(r)
    BY <1>3 DEF Receive, Longer, Arrives
  <1>4. CASE Complete(r)
    BY <1>4 DEF Complete
  <1>5. CASE Refuse(r)
    BY <1>5 DEF Refuse
  <1>6. CASE CleanUp(r)
    BY <1>6 DEF CleanUp
  <1>7. CASE Start(r)
    BY <1>7 DEF Start
  <1>8. CASE Analyze(r)
    BY <1>8 DEF Analyze
  <1>9. CASE ChunkFails(r)
    BY <1>9 DEF ChunkFails
  <1>10. CASE Correlate(r)
    BY <1>10 DEF Correlate
  <1>11. CASE \E k \in pending[r] : MergeChunk(r, k)
    BY <1>11 DEF MergeChunk
  <1>12. CASE Export(r)
    BY <1>12 DEF Export, ReportFile
  <1>13. CASE Clean(r)
    BY <1>13, CleanReduces DEF Reduces
  <1>14. CASE Seal(r)
    <2>1. CASE files' = Seals(Dir(r)) /\ work.encrypt
      BY <1>14, <2>1 DEF Seals
    <2>2. ASSUME work.encrypt, NEW left \in SUBSET Plain(Dir(r)), NEW gone \in SUBSET left,
                 files' = (files \ gone) \union SealedCopies(left)
          PROVE  files' \subseteq files \union SealedCopies(Plain(Dir(r)))
      BY <2>2 DEF SealedCopies
    <2> QED BY <1>14, <2>1, <2>2 DEF Seal
  <1>15. CASE Register(r)
    BY <1>15 DEF Register
  <1>16. CASE SetLineage(r)
    BY <1>16 DEF SetLineage
  <1>17. CASE Undo(r)
    BY <1>17, UndoReduces DEF Reduces
  <1> QED
    BY <1>1, <1>2, <1>3, <1>4, <1>5, <1>6, <1>7, <1>8, <1>9, <1>10, <1>11, <1>12, <1>13, <1>14,
       <1>15, <1>16, <1>17
    DEF Step

\* A request keeps its names, except for that of an upload it refuses.
LEMMA HeldGrows ==
  ASSUME Control, NEW r \in Active, Step(r)
  PROVE  /\ \A q \in Requests \ {r} : Held(q)' = Held(q)
         /\ ~Refuse(r) => Held(r) \subseteq Held(r)'
         /\ Refuse(r) => Held(r)' = created[r]
         /\ created[r] \subseteq created'[r]
  <1>1. \A q \in Requests \ {r} : Held(q)' = Held(q)
    BY Frame DEF Held
  <1>2. r \in Requests /\ created \in [Requests -> SUBSET (Nat \X Nat)]
        /\ stage \in [Requests -> Stages]
    BY WorkloadIsWell DEF Control
  <1> DEFINE Rest == Held(r) \subseteq Held(r)' /\ created[r] \subseteq created'[r]
  <1> USE DEF uploadVars, Continue, GiveWay
  <1>3. ASSUME Begin(r) PROVE Rest
    BY <1>2, <1>3 DEF Begin, Held
  <1>4. ASSUME Open(r) PROVE Rest
    BY <1>2, <1>4 DEF Open, Held
  <1>5. ASSUME Receive(r) PROVE Rest
    BY <1>2, <1>5 DEF Receive, Held
  <1>6. ASSUME Complete(r) PROVE Rest
    BY <1>2, <1>6 DEF Complete, Held
  <1>8. ASSUME CleanUp(r) PROVE Rest
    BY <1>2, <1>8 DEF CleanUp, Held
  <1>9. ASSUME Start(r) PROVE Rest
    BY <1>2, <1>9 DEF Start, Held
  <1>10. ASSUME Analyze(r) PROVE Rest
    BY <1>2, <1>10 DEF Analyze, Held
  <1>11. ASSUME ChunkFails(r) PROVE Rest
    BY <1>2, <1>11 DEF ChunkFails, Held
  <1>12. ASSUME Correlate(r) PROVE Rest
    BY <1>2, <1>12 DEF Correlate, Held
  <1>13. ASSUME \E k \in pending[r] : MergeChunk(r, k) PROVE Rest
    BY <1>2, <1>13 DEF MergeChunk, Held
  <1>14. ASSUME Export(r) PROVE Rest
    BY <1>2, <1>14 DEF Export, Held
  <1>15. ASSUME Clean(r) PROVE Rest
    BY <1>2, <1>15 DEF Clean, Held
  <1>16. ASSUME Seal(r) PROVE Rest
    BY <1>2, <1>16 DEF Seal, Held
  <1>17. ASSUME Register(r) PROVE Rest
    BY <1>2, <1>17 DEF Register, Held
  <1>18. ASSUME SetLineage(r) PROVE Rest
    BY <1>2, <1>18 DEF SetLineage, Held
  <1>19. ASSUME Undo(r) PROVE Rest
    BY <1>2, <1>19 DEF Undo, Held
  <1>20. ~Refuse(r) => Rest
    BY <1>3, <1>4, <1>5, <1>6, <1>8, <1>9, <1>10, <1>11, <1>12, <1>13, <1>14, <1>15, <1>16, <1>17,
       <1>18, <1>19
    DEF Step
  <1>21. Refuse(r) => Held(r)' = created[r] /\ created'[r] = created[r]
    BY <1>2 DEF Refuse, Held
  <1> QED BY <1>1, <1>20, <1>21

\* There are only ever finitely many files.
LEMMA FilesStayFinite ==
  ASSUME Disk, NEW r, Step(r)
  PROVE  IsFiniteSet(files')
  <1>1. IsFiniteSet(files)
    BY DEF Disk
  <1>2. ASSUME NEW F \in SUBSET files PROVE IsFiniteSet(F)
    BY <1>1, FS_Subset
  <1>3. CASE files' = files \union {NewFile(r)}
    BY <1>1, <1>3, FS_AddElement
  <1>4. CASE files' = {Longer(r, f) : f \in files}
    <2> DEFINE h == [f \in files |-> Longer(r, f)]
    <2>1. h \in Surjection(files, files')
      BY <1>4 DEF Surjection
    <2> QED BY <1>1, <2>1, FS_Surjection
  <1>5. CASE files' = {f \in files : f \notin Plain(Dir(r)) \/ f.name # ReportName}
                         \union {ReportFile(r)}
    BY <1>2, <1>5, FS_AddElement
  <1>6. CASE files' \subseteq files \union SealedCopies(Plain(Dir(r)))
    <2> DEFINE P == Plain(Dir(r))
               S == SealedCopies(P)
               h == [f \in P |-> [f EXCEPT !.form = "sealed"]]
    <2>1. h \in Surjection(P, S)
      BY DEF Surjection, SealedCopies
    <2>2. IsFiniteSet(P)
      BY <1>2 DEF Plain
    <2>3. IsFiniteSet(S)
      BY <2>1, <2>2, FS_Surjection
    <2>4. files' \in SUBSET (files \union S)
      BY <1>6
    <2> HIDE DEF P, S
    <2>5. IsFiniteSet(files \union S)
      BY <1>1, <2>3, FS_Union
    <2> QED BY <2>4, <2>5, FS_Subset
  <1>7. CASE files' \subseteq files
    BY <1>2, <1>7
  <1> QED BY <1>3, <1>4, <1>5, <1>6, <1>7, FileOrigins

\* A step makes no directory but that of its request.
LEMMA DirsGrow ==
  ASSUME NEW r, Step(r)
  PROVE  dirs' \subseteq dirs \union {Dir(r)}
  <1> USE DEF diskVars
  <1>1. CASE Begin(r) \/ Open(r) \/ Receive(r) \/ Complete(r) \/ Refuse(r) \/ CleanUp(r)
    BY <1>1 DEF Begin, Open, Receive, Complete, Refuse, CleanUp
  <1>2. CASE Start(r) \/ Analyze(r) \/ ChunkFails(r) \/ Correlate(r)
    BY <1>2 DEF Start, Analyze, ChunkFails, Correlate
  <1>3. CASE \E k \in pending[r] : MergeChunk(r, k)
    BY <1>3 DEF MergeChunk
  <1>4. CASE Export(r) \/ Seal(r) \/ Register(r) \/ SetLineage(r)
    BY <1>4 DEF Export, Seal, Register, SetLineage
  <1>5. CASE Clean(r) \/ Undo(r)
    BY <1>5, CleanReduces, UndoReduces DEF Reduces
  <1> QED BY <1>1, <1>2, <1>3, <1>4, <1>5 DEF Step

\* A directory goes with everything in it, and only the request it was made
\* for takes it away, or a part of it.
LEMMA DirsGo ==
  ASSUME Control, NEW r \in Active, Step(r)
  PROVE  /\ removed \subseteq removed' /\ removed' \in {removed, removed \union {Dir(r)}}
         /\ \/ dirs \subseteq dirs'
            \/ /\ ~CallerDir(r) /\ stage'[r] \in {"ok", "failed"} /\ dirs' = dirs \ {Dir(r)}
               /\ \A f \in files' : f \in files /\ f.dir # Dir(r)
  <1>0. r \in Requests /\ (~CallerDir(r) => Dir(r) = r)
    BY WorkloadIsWell DEF Control
  <1>1. CASE CleanUp(r)
    <2>1. removed' = removed /\ stage'[r] = "failed"
      BY <1>1, Transitions DEF CleanUp
    <2>2. CASE dirs' = dirs
      BY <2>1, <2>2
    <2>3. CASE dirs' # dirs
      <3>1. ~CallerDir(r) /\ dirs' = dirs \ {r} /\ files' = files \ Litter(r)
        BY <1>1, <2>3 DEF CleanUp
      <3>2. \A f \in files' : f \in files /\ f.dir # Dir(r)
        BY <3>1 DEF Litter
      <3> QED BY <1>0, <2>1, <3>1, <3>2
    <2> QED BY <2>2, <2>3
  <1>2. CASE Clean(r)
    <2>1. ~CallerDir(r) /\ stage'[r] \in {"ok", "seal"}
      BY <1>0, <1>2, Transitions DEF Control
    <2>2. CASE /\ dirs' = dirs \ {Dir(r)} /\ files' = {f \in files : f.dir # Dir(r)}
               /\ removed' = removed /\ GiveWay(r, "ok")
      <3>1. stage'[r] = "ok"
        BY <1>0, <2>2 DEF GiveWay, Control
      <3> QED BY <2>1, <2>2, <3>1
    <2>3. CASE Reduces(Dir(r)) /\ dirs' = dirs
      BY <2>3 DEF Reduces
    <2> QED BY <1>2, <2>2, <2>3, CleanReduces
  <1>3. CASE Undo(r)
    <2>1. ~CallerDir(r) /\ stage'[r] = "failed"
      BY <1>0, <1>3, WorkloadIsWell, Transitions DEF Control
    <2>2. Reduces(Dir(r))
      BY <1>3, UndoReduces
    <2> QED BY <2>1, <2>2 DEF Reduces
  <1>4. CASE ~CleanUp(r) /\ ~Clean(r) /\ ~Undo(r)
    <2>1. dirs \subseteq dirs' /\ removed' = removed
      <3> USE DEF diskVars
      <3>1. CASE Begin(r) \/ Open(r) \/ Receive(r) \/ Complete(r) \/ Refuse(r)
        BY <3>1 DEF Begin, Open, Receive, Complete, Refuse
      <3>2. CASE Start(r) \/ Analyze(r) \/ ChunkFails(r) \/ Correlate(r)
        BY <3>2 DEF Start, Analyze, ChunkFails, Correlate
      <3>3. CASE \E k \in pending[r] : MergeChunk(r, k)
        BY <3>3 DEF MergeChunk
      <3>4. CASE Export(r) \/ Seal(r) \/ Register(r) \/ SetLineage(r)
        BY <3>4 DEF Export, Seal, Register, SetLineage
      <3> QED BY <1>4, <3>1, <3>2, <3>3, <3>4 DEF Step
    <2> QED BY <2>1
  <1> QED BY <1>1, <1>2, <1>3, <1>4

\* A file that stays is as well as before.
LEMMA OldFilesAreWell ==
  ASSUME Control, Disk, NEW r \in Active, Step(r), NEW g \in files, g \in files'
  PROVE  FileIsWell(g)'
  <1>1. /\ FileIsWell(g) /\ g.of[1] \in Active /\ Active \subseteq Requests
        /\ r \in Requests /\ stage \in [Requests -> Stages]
    BY WorkloadIsWell DEF Disk, Control, FileIsWell, StoredFile
  <1> DEFINE q == g.of[1]
  <1>2. /\ work' = work /\ Active' = Active /\ Uploads(q)' = Uploads(q) /\ Dir(q)' = Dir(q)
        /\ CallerDir(q)' = CallerDir(q) /\ Shared(q)' = Shared(q)
        /\ StoredFile' = StoredFile
    <2>1. work' = work
      BY Frame
    <2>2. StoredFile' = StoredFile
      BY <2>1 DEF StoredFile, Active, Dir, CallerDir
    <2> QED BY <2>1, <2>2, SameWork
  <1>3. g.dir \in dirs'
    BY <1>1, DirsGo DEF FileIsWell
  <1>4. ASSUME g.of[2] # 0, g.form = "plain"
        PROVE  g.name \in Held(q)' \/ Left(q)'
    <2>1. g.name \in Held(q) \/ Left(q)
      BY <1>1, <1>4 DEF FileIsWell
    <2>2. CASE q # r
      <3>1. Left(q) => Left(q)'
        BY <1>1, <1>2, <2>2, Frame, BlockedGrows DEF Left
      <3> QED BY <1>1, <2>1, <2>2, <3>1, HeldGrows
    <2>3. CASE q = r /\ g.name \in Held(r) /\ Refuse(r)
      <3>1. stage'[r] = "failing"
        BY <2>3, Transitions
      <3>2. CASE g.name # path[r]
        BY <2>3, <3>2, HeldGrows DEF Held
      <3>3. CASE Leaves(r)
        <4>1. CallerDir(r) => r \in blocked'
          BY <3>3 DEF Leaves
        <4> QED BY <1>2, <2>3, <3>1, <4>1 DEF Left
      <3> QED BY <1>1, <1>4, <2>3, <3>2, <3>3 DEF Refuse, FileIsWell
    <2>4. CASE q = r /\ g.name \in Held(r) /\ ~Refuse(r)
      BY <2>4, HeldGrows
    <2>5. CASE q = r /\ r \in blocked
      BY <2>5, BlockedGrows DEF Left
    <2>6. CASE q = r /\ stage[r] = "failing" /\ ~CallerDir(r)
      <3>1. CleanUp(r)
        BY <2>6, FailingCleansUp
      <3>2. g \in Litter(r)
        BY <1>1, <2>6 DEF Litter, FileIsWell
      <3>3. r \in blocked'
        BY <3>1, <3>2 DEF CleanUp
      <3> QED BY <2>6, <3>3 DEF Left
    <2> QED BY <2>1, <2>2, <2>3, <2>4, <2>5, <2>6 DEF Left
  <1>5. ASSUME CallerDir(q), stage[q] \in {"register", "ok"} \/ q \in blocked
        PROVE  stage'[q] \in {"register", "ok"} \/ q \in blocked'
    <2>1. CASE q \in blocked
      BY <2>1, BlockedGrows
    <2>2. CASE q # r
      BY <1>1, <1>5, <2>2, Frame, BlockedGrows
    <2>3. CASE q = r /\ stage[r] \in {"register", "ok"}
      <3>0. stage[r] = "register"
        BY <2>3, StagesBefore
      <3>1. Register(r)
        BY <3>0 DEF Step, Begin, Open, Receive, Complete, Refuse, CleanUp, Start, Analyze,
          ChunkFails, Correlate, MergeChunk, Export, Clean, Seal, SetLineage, Undo
      <3>2. ~Again(r)
        BY <1>5, <2>3, WorkloadIsWell DEF Control
      <3> QED BY <1>1, <2>3, <3>1, <3>2 DEF Register, GiveWay
    <2> QED BY <1>5, <2>1, <2>2, <2>3
  <1> QED BY <1>1, <1>2, <1>3, <1>4, <1>5 DEF FileIsWell

\* What a file can be does not change.
LEMMA SameFileTypes ==
  ASSUME work' = work
  PROVE  StoredFile' = StoredFile
  BY DEF StoredFile, Active, Dir, CallerDir

\* What encryption makes of a file.
LEMMA SealedIs ==
  ASSUME NEW f \in StoredFile
  PROVE  LET g == [f EXCEPT !.form = "sealed"]
         IN  /\ g \in StoredFile /\ g.dir = f.dir /\ g.name = f.name /\ g.form = "sealed"
             /\ g.of = f.of /\ g.upto = f.upto
  BY DEF StoredFile

\* After a step every file is where and what it should be.
LEMMA FilesAreWell ==
  ASSUME Control, Disk, NEW r \in Active, Step(r), NEW g \in files'
  PROVE  FileIsWell(g)'
  <1>1. /\ r \in Requests /\ stage \in [Requests -> Stages] /\ next[r] \in Nat \ {0}
        /\ created \in [Requests -> SUBSET (Nat \X Nat)] /\ path \in [Requests -> Nat \X Nat]
        /\ next[r] <= Len(Uploads(r)) + 1 /\ got[r] \in Nat
        /\ Uploads(r) \in Seq(Upload) /\ Len(Uploads(r)) \in Nat
    BY WorkloadIsWell DEF Control
  <1>2. /\ work' = work /\ Active' = Active /\ Uploads(r)' = Uploads(r) /\ Dir(r)' = Dir(r)
        /\ CallerDir(r)' = CallerDir(r) /\ Shared(r)' = Shared(r)
        /\ StoredFile' = StoredFile
    BY Frame, SameWork, SameFileTypes
  <1>3. CASE g \in files
    BY <1>3, OldFilesAreWell
  <1>4. CASE Open(r) /\ Dir(r) \in dirs /\ g = NewFile(r)
    <2>1. next[r] <= Len(Uploads(r)) /\ dirs' = dirs
      BY <1>4 DEF Open, diskVars
    <2>2. FreeName(r) \in Nat \X Nat /\ FreeName(r) # ReportName
      BY <2>1, FreeNameIsFree
    <2>3. /\ g.dir = Dir(r) /\ g.name = FreeName(r) /\ g.form = "plain" /\ g.of[1] = r
          /\ g.of[2] = next[r] /\ g.upto = 0
      BY <1>4 DEF NewFile
    <2>4. g \in StoredFile
      BY <1>1, <1>4, <2>2 DEF NewFile, StoredFile
    <2>5. FreeName(r) \in Held(r)'
      BY <1>1, <1>4 DEF Open, Held, GiveWay
    <2>6. next[r] \in DOMAIN Uploads(r) /\ 0 <= Len(Uploads(r)[next[r]].events)
      <3>1. next[r] \in DOMAIN Uploads(r)
        BY <1>1, <2>1
      <3>2. Len(Uploads(r)[next[r]].events) \in Nat
        BY <3>1, ContentLength DEF Control
      <3> QED BY <3>1, <3>2
    <2> QED BY <1>1, <1>2, <1>4, <2>1, <2>2, <2>3, <2>4, <2>5, <2>6 DEF FileIsWell
  <1>5. CASE Receive(r) /\ (\E f \in files : g = Longer(r, f)) /\ g \notin files
    <2>1. PICK f \in files : g = Longer(r, f)
      BY <1>5
    <2>2. FileIsWell(f) /\ Arrives(r, f) /\ g = [f EXCEPT !.upto = got[r] + 1]
      BY <1>5, <2>1 DEF Longer, Disk
    <2>3. f \in StoredFile
      BY <2>2 DEF FileIsWell
    <2>4. /\ g \in StoredFile /\ g.dir = f.dir /\ g.name = f.name /\ g.form = "plain"
          /\ g.of = f.of /\ g.of[1] = r /\ g.of[2] = next[r] /\ g.upto = got[r] + 1
          /\ f.form = "plain"
      <3>1. f.of = <<r, next[r]>> /\ f.form = "plain" /\ got[r] + 1 \in Nat
        BY <1>1, <2>2 DEF Arrives
      <3>2. /\ g \in StoredFile /\ g.dir = f.dir /\ g.name = f.name /\ g.form = f.form
            /\ g.of = f.of /\ g.upto = got[r] + 1
        BY <2>2, <2>3, <3>1 DEF StoredFile
      <3> QED BY <3>1, <3>2
    <2>5. /\ stage' = stage /\ dirs' = dirs /\ Held(r)' = Held(r)
          /\ got[r] < Len(Content(r)) /\ stage[r] = "reading"
      BY <1>5 DEF Receive, Held
    <2>6. next[r] \in DOMAIN Uploads(r) /\ got[r] + 1 <= Len(Uploads(r)[next[r]].events)
      <3>1. next[r] \in DOMAIN Uploads(r)
        BY <1>1, <2>5 DEF Control
      <3>2. Len(Uploads(r)[next[r]].events) \in Nat
        BY <3>1, ContentLength DEF Control
      <3> QED BY <1>1, <2>5, <3>1, <3>2 DEF Content
    <2>7. Left(r) => Left(r)'
      BY <1>2, <2>5, BlockedGrows DEF Left
    <2> QED BY <1>2, <2>2, <2>4, <2>5, <2>6, <2>7 DEF FileIsWell
  <1>6. CASE Export(r) /\ g = ReportFile(r)
    <2>1. Dir(r) \in dirs /\ dirs' = dirs
      BY <1>6 DEF Export, Disk, InUse
    <2>2. /\ g.dir = Dir(r) /\ g.name = ReportName /\ g.form = "plain" /\ g.of[1] = r
          /\ g.of[2] = 0 /\ g \in StoredFile
      BY <1>1, <1>6 DEF ReportFile, StoredFile, ReportName
    <2> QED BY <1>2, <2>1, <2>2 DEF FileIsWell
  <1>7. CASE Seal(r) /\ work.encrypt /\ g \in SealedCopies(Plain(Dir(r))) /\ g \notin files
    <2>1. PICK f \in Plain(Dir(r)) : g = [f EXCEPT !.form = "sealed"]
      BY <1>7 DEF SealedCopies
    <2>2. f \in files /\ f.dir = Dir(r) /\ FileIsWell(f)
      BY <2>1 DEF Plain, Disk
    <2>3. f \in StoredFile /\ f.of[1] \in Active
      BY <2>2 DEF FileIsWell, StoredFile
    <2>4. /\ g \in StoredFile /\ g.dir = f.dir /\ g.name = f.name /\ g.form = "sealed"
          /\ g.of = f.of /\ g.upto = f.upto
      BY <2>1, <2>3, SealedIs
    <2>5. dirs' = dirs
      BY <1>7 DEF Seal
    <2>6. ~Shared(f.of[1]) /\ CallerDir(f.of[1]) =>
            stage'[f.of[1]] = "register" \/ f.of[1] \in blocked'
      <3>1. ~Shared(f.of[1]) => f.of[1] = r
        BY <2>2, <2>3 DEF FileIsWell, Shared
      <3>2. Continue(r, "register") \/ Leaves(r)
        <4>1. files' # files
          BY <1>7
        <4> QED BY <1>7, <4>1 DEF Seal
      <3>3. stage'[r] = "register" \/ (CallerDir(r) => r \in blocked')
        BY <1>1, <3>2 DEF Continue, Leaves
      <3> QED BY <3>1, <3>3
    <2>7. /\ Uploads(f.of[1])' = Uploads(f.of[1]) /\ Dir(f.of[1])' = Dir(f.of[1])
          /\ Shared(f.of[1])' = Shared(f.of[1]) /\ CallerDir(f.of[1])' = CallerDir(f.of[1])
      BY <1>2, SameWork
    <2> QED BY <1>2, <1>7, <2>2, <2>4, <2>5, <2>6, <2>7 DEF FileIsWell
  <1> QED BY <1>3, <1>4, <1>5, <1>6, <1>7, FileOrigins

\* No two plain files of a directory get the same name: FreeName takes one that
\* nothing has.
LEMMA NamesStayUnique ==
  ASSUME Control, Disk, NEW r \in Active, Step(r)
  PROVE  NamesAreUnique'
  <1>1. NamesAreUnique
    BY DEF Disk
  <1>2. CASE Open(r) /\ Dir(r) \in dirs /\ files' = files \union {NewFile(r)}
    <2>1. FreeName(r) \notin Taken(r)
      BY <1>2, FreeNameIsFree DEF Open
    <2>2. \A f \in files : f.form = "plain" /\ f.dir = Dir(r) => f.name # FreeName(r)
      BY <2>1 DEF Taken, Names, Plain
    <2>3. /\ NewFile(r).form = "plain" /\ NewFile(r).dir = Dir(r)
          /\ NewFile(r).name = FreeName(r)
      BY DEF NewFile
    <2> HIDE DEF NewFile
    <2> QED BY <1>1, <1>2, <2>2, <2>3 DEF NamesAreUnique
  <1>3. CASE files' = {Longer(r, f) : f \in files}
    <2>1. \A f \in files : /\ Longer(r, f).form = f.form /\ Longer(r, f).dir = f.dir
                           /\ Longer(r, f).name = f.name
      <3> SUFFICES ASSUME NEW f \in files
                   PROVE  /\ Longer(r, f).form = f.form /\ Longer(r, f).dir = f.dir
                          /\ Longer(r, f).name = f.name
        OBVIOUS
      <3>1. f \in StoredFile
        BY DEF Disk, FileIsWell
      <3> QED BY <3>1 DEF Longer, StoredFile
    <2> HIDE DEF Longer
    <2> QED BY <1>1, <1>3, <2>1 DEF NamesAreUnique
  <1>4. CASE files' = {f \in files : f \notin Plain(Dir(r)) \/ f.name # ReportName}
                         \union {ReportFile(r)}
    <2>1. /\ ReportFile(r).form = "plain" /\ ReportFile(r).dir = Dir(r)
          /\ ReportFile(r).name = ReportName
      BY DEF ReportFile
    <2> HIDE DEF ReportFile
    <2> QED BY <1>1, <1>4, <2>1 DEF NamesAreUnique, Plain
  <1>5. CASE files' \subseteq files \union SealedCopies(Plain(Dir(r)))
    <2>1. \A f \in files' : f.form = "plain" => f \in files
      <3> SUFFICES ASSUME NEW f \in files', f \notin files PROVE f.form # "plain"
        OBVIOUS
      <3>1. PICK g \in Plain(Dir(r)) : f = [g EXCEPT !.form = "sealed"]
        BY <1>5 DEF SealedCopies
      <3>2. g \in StoredFile
        BY DEF Disk, FileIsWell, Plain
      <3> QED BY <3>1, <3>2 DEF StoredFile
    <2> QED BY <1>1, <2>1 DEF NamesAreUnique
  <1>6. CASE files' \subseteq files
    BY <1>1, <1>6 DEF NamesAreUnique
  <1> QED BY <1>2, <1>3, <1>4, <1>5, <1>6, FileOrigins

\* The names of completed uploads differ from that of the one under way.
LEMMA NamesStayTaken ==
  ASSUME Control, Disk, NEW r \in Active, Step(r)
  PROVE  NamesAreTaken'
  <1>1. /\ r \in Requests /\ NamesAreTaken /\ stage \in [Requests -> Stages]
        /\ created \in [Requests -> SUBSET (Nat \X Nat)] /\ path \in [Requests -> Nat \X Nat]
    BY WorkloadIsWell DEF Control, Disk
  <1> DEFINE Well(q) == /\ IsFiniteSet(created[q]) /\ \A n \in Held(q) : n # ReportName
                        /\ stage[q] = "reading" => path[q] \notin created[q]
  <1>2. ASSUME NEW q \in Requests \ {r} PROVE Well(q)'
    <2>1. /\ created'[q] = created[q] /\ stage'[q] = stage[q] /\ path'[q] = path[q]
          /\ Held(q)' = Held(q)
      BY Frame, HeldGrows
    <2> QED BY <1>1, <2>1 DEF NamesAreTaken
  <1>3. Well(r)'
    <2>0. Well(r)
      BY <1>1 DEF NamesAreTaken
    <2>1. CASE Open(r)
      <3>1. CASE Dir(r) \in dirs
        <4>1. /\ stage'[r] = "reading" /\ path'[r] = FreeName(r) /\ created'[r] = created[r]
              /\ stage[r] = "open"
          BY <1>1, <2>1, <3>1 DEF Open, GiveWay
        <4>2. FreeName(r) # ReportName /\ FreeName(r) \notin created[r]
          BY <2>1, FreeNameIsFree DEF Open, Taken
        <4> QED BY <2>0, <4>1, <4>2 DEF Held
      <3>2. CASE Dir(r) \notin dirs
        BY <1>1, <2>0, <2>1, <3>2 DEF Open, Continue, uploadVars, Held
      <3> QED BY <3>1, <3>2
    <2>2. CASE Receive(r)
      BY <2>0, <2>2 DEF Receive, Held
    <2>3. CASE Complete(r)
      <3>1. created'[r] = created[r] \union {path[r]} /\ stage'[r] = "open" /\ stage[r] = "reading"
        BY <1>1, <2>3 DEF Complete, Continue
      <3>2. IsFiniteSet(created'[r])
        BY <2>0, <3>1, FS_AddElement
      <3> QED BY <2>0, <3>1, <3>2 DEF Held
    <2>4. CASE ~Open(r) /\ ~Receive(r) /\ ~Complete(r)
      <3>1. created'[r] = created[r]
        <4> USE DEF uploadVars
        <4>1. CASE Begin(r) \/ Refuse(r) \/ CleanUp(r) \/ Start(r) \/ Analyze(r) \/ ChunkFails(r)
          BY <4>1 DEF Begin, Refuse, CleanUp, Start, Analyze, ChunkFails
        <4>2. CASE Correlate(r) \/ \E k \in pending[r] : MergeChunk(r, k)
          BY <4>2 DEF Correlate, MergeChunk
        <4>3. CASE \/ Export(r) \/ Clean(r) \/ Seal(r) \/ Register(r) \/ SetLineage(r) \/ Undo(r)
          BY <4>3 DEF Export, Clean, Seal, Register, SetLineage, Undo
        <4> QED BY <2>4, <4>1, <4>2, <4>3 DEF Step
      <3>2. stage'[r] # "reading"
        <4> USE <1>1 DEF Continue, GiveWay
        <4>1. CASE Begin(r) \/ Refuse(r) \/ CleanUp(r) \/ Start(r) \/ Analyze(r) \/ ChunkFails(r)
          BY <4>1 DEF Begin, Refuse, CleanUp, Start, Analyze, ChunkFails
        <4>2. CASE Correlate(r) \/ \E k \in pending[r] : MergeChunk(r, k)
          BY <4>2 DEF Correlate, MergeChunk
        <4>3. CASE \/ Export(r) \/ Clean(r) \/ Seal(r) \/ Register(r) \/ SetLineage(r) \/ Undo(r)
          BY <4>3 DEF Export, Clean, Seal, Register, SetLineage, Undo
        <4> QED BY <2>4, <4>1, <4>2, <4>3 DEF Step
      <3> QED BY <2>0, <3>1, <3>2 DEF Held
    <2> QED BY <2>1, <2>2, <2>3, <2>4
  <1> QED BY <1>2, <1>3 DEF NamesAreTaken

\* A directory made for a request is no other request's.
LEMMA OwnDirectory ==
  ASSUME work \in Workloads, NEW r \in Active, ~CallerDir(r), NEW q \in Active, q # r
  PROVE  Dir(q) # Dir(r)
  <1>1. r \in Requests /\ Dir(r) = r
    BY WorkloadIsWell
  <1>2. CallerDir(q) => Dir(q) \notin Requests
    BY WorkloadIsWell
  <1>3. ~CallerDir(q) => Dir(q) = q
    BY WorkloadIsWell
  <1> QED BY <1>1, <1>2, <1>3

Housed(q) == /\ stage[q] \in InUse => Dir(q) \in dirs
             /\ Begun(q) \/ (stage[q] = "ok" /\ CallerDir(q)) => Dir(q) \in dirs \union removed

\* The directory of a request stays while it is needed, unless its case is deleted.
LEMMA HousedKept ==
  ASSUME Control, Disk, NEW r \in Active, Step(r), NEW q \in Active
  PROVE  Housed(q)'
  <1>1. /\ Dir(q)' = Dir(q) /\ CallerDir(q)' = CallerDir(q) /\ Active \subseteq Requests /\ stage \in [Requests -> Stages]
        /\ q \in Requests /\ r \in Requests /\ work \in Workloads
    BY Frame, SameWork, WorkloadIsWell DEF Control
  <1>2. Housed(q)
    BY DEF Disk, Housed
  <1>3. CASE q # r
    <2>1. stage'[q] = stage[q]
      BY <1>1, <1>3, Frame
    <2>2. ~CallerDir(r) => Dir(q) # Dir(r)
      BY <1>1, <1>3, OwnDirectory
    <2> QED BY <1>1, <1>2, <2>1, <2>2, DirsGo DEF Housed, Begun
  <1>4. CASE q = r
    <2>1. CASE stage'[r] = "failed" \/ (stage'[r] = "ok" /\ ~CallerDir(r))
      BY <1>1, <1>4, <2>1 DEF Housed, Begun, InUse
    <2>2. CASE Begin(r)
      BY <1>1, <1>4, <2>2 DEF Begin, Continue, Housed, Begun, InUse
    <2>3. CASE Start(r)
      BY <1>1, <1>4, <2>3 DEF Start, Continue, Housed, Begun
    <2>4. CASE /\ ~Begin(r) /\ ~Start(r)
               /\ ~(stage'[r] = "failed" \/ (stage'[r] = "ok" /\ ~CallerDir(r)))
      <3>1. dirs \subseteq dirs' /\ removed \subseteq removed'
        BY <2>4, DirsGo
      <3>2. stage[r] \notin {"none", "new", "ok", "failed"}
        <4>1. r \in Active /\ (turn = r => stage[r] \notin {"none", "new", "ok", "failed"})
          BY <1>1 DEF Control
        <4> QED BY <2>4, <4>1 DEF Step, Open, Receive, Complete, Refuse, CleanUp, Analyze,
              ChunkFails, Correlate, MergeChunk, Export, Clean, Seal, Register, SetLineage, Undo
      <3>3. stage'[r] \in InUse => stage[r] \in InUse
        <4> USE <1>1 DEF Continue, GiveWay, InUse
        <4>1. CASE Open(r) \/ Receive(r) \/ Complete(r) \/ Refuse(r) \/ CleanUp(r)
          BY <4>1 DEF Open, Receive, Complete, Refuse, CleanUp
        <4>2. CASE Analyze(r) \/ ChunkFails(r) \/ Correlate(r) \/ \E k \in pending[r] : MergeChunk(r, k)
          BY <4>2 DEF Analyze, ChunkFails, Correlate, MergeChunk
        <4>3. CASE \/ Export(r) \/ Clean(r) \/ Seal(r) \/ Register(r) \/ SetLineage(r) \/ Undo(r)
          BY <4>3 DEF Export, Clean, Seal, Register, SetLineage, Undo
        <4> QED BY <2>4, <4>1, <4>2, <4>3 DEF Step
      <3> QED BY <1>1, <1>2, <1>4, <3>1, <3>2, <3>3 DEF Housed, Begun
    <2> QED BY <2>1, <2>2, <2>3, <2>4
  <1> QED BY <1>3, <1>4

\* A step of a request keeps Disk.
LEMMA DiskKept ==
  ASSUME Control, Disk, NEW r \in Active, Step(r)
  PROVE  Disk'
  <1>1. IsFiniteSet(files') /\ NamesAreUnique' /\ NamesAreTaken'
    BY FilesStayFinite, NamesStayUnique, NamesStayTaken
  <1>2. \A f \in files' : FileIsWell(f)'
    BY FilesAreWell
  <1>3. \A q \in Active : Housed(q)'
    BY HousedKept
  <1>4. Active' = Active /\ \A q : Dir(q)' = Dir(q)
    BY Frame, SameWork
  <1>5. removed' \subseteq {Dir(q) : q \in Active}
    BY DirsGo DEF Disk
  <1>6. (removed \subseteq {Dir(q) : q \in Active})'
    <2>1. {Dir(q) : q \in Active}' = {Dir(q) : q \in Active}
      BY Frame DEF Active, Dir, CallerDir
    <2> QED BY <1>5, <2>1
  <1> QED BY <1>1, <1>2, <1>3, <1>4, <1>6 DEF Disk, Housed

-----------------------------------------------------------------------------
(* Cases.                                                                  *)

\* A step of a request keeps History: a case is registered once, by its request.
LEMMA HistoryKept ==
  ASSUME Control, History, NEW r \in Active, Step(r)
  PROVE  History'
  <1>1. /\ Active \subseteq Requests /\ stage \in [Requests -> Stages] /\ r \in Requests
        /\ NoReq \notin Requests
    BY WorkloadIsWell DEF Control
  <1>2. Active' = Active /\ (\A q : Row(q)' = Row(q)) /\ \A q : Row(q).by = q
    <2>1. work' = work
      BY Frame
    <2> QED BY <2>1 DEF Row, Active, Dir, CallerDir
  <1>3. blocked \subseteq blocked'
    BY BlockedGrows
  <1>4. ASSUME NEW row \in rows', row \in rows
        PROVE  \E q \in Active : /\ row = Row(q)
                                 /\ \/ stage'[q] \in {"lineage", "undo", "ok"}
                                    \/ stage'[q] = "failed" /\ q \in blocked'
    <2>1. PICK q \in Active : /\ row = Row(q)
                              /\ \/ stage[q] \in {"lineage", "undo", "ok"}
                                 \/ stage[q] = "failed" /\ q \in blocked
      BY <1>4 DEF History
    <2>2. CASE q # r
      BY <1>1, <1>3, <2>1, <2>2, Frame
    <2>3. CASE q = r
      <3>1. SetLineage(r) \/ Undo(r)
        <4>1. turn = r => stage[r] \notin {"ok", "failed"}
          BY <1>1 DEF Control
        <4> QED BY <2>1, <2>3, <4>1 DEF Step, Begin, Open, Receive, Complete, Refuse, CleanUp,
              Start, Analyze, ChunkFails, Correlate, MergeChunk, Export, Clean, Seal, Register
      <3>2. CASE SetLineage(r)
        BY <1>1, <2>1, <2>3, <3>2 DEF SetLineage, GiveWay, Continue
      <3>3. CASE Undo(r)
        <4>1. stage'[r] = "failed"
          BY <1>1, <3>3 DEF Undo, GiveWay
        <4>2. r \in blocked'
          BY <1>4, <2>1, <2>3, <3>3, UndoReduces DEF Deletes
        <4> QED BY <2>1, <2>3, <4>1, <4>2
      <3> QED BY <3>1, <3>2, <3>3
    <2> QED BY <2>2, <2>3
  <1>5. ASSUME NEW row \in rows', row \notin rows
        PROVE  row = Row(r) /\ stage'[r] \in {"lineage", "ok"}
    <2>1. Register(r)
      <3> USE DEF diskVars
      <3>1. CASE Begin(r) \/ Open(r) \/ Receive(r) \/ Complete(r) \/ Refuse(r) \/ CleanUp(r)
        BY <1>5, <3>1 DEF Begin, Open, Receive, Complete, Refuse, CleanUp
      <3>2. CASE Start(r) \/ Analyze(r) \/ ChunkFails(r) \/ Correlate(r)
        BY <1>5, <3>2 DEF Start, Analyze, ChunkFails, Correlate
      <3>3. CASE \E k \in pending[r] : MergeChunk(r, k)
        BY <1>5, <3>3 DEF MergeChunk
      <3>4. CASE Export(r) \/ Clean(r) \/ Seal(r) \/ SetLineage(r) \/ Undo(r)
        BY <1>5, <3>4, UndoReduces DEF Export, Clean, Seal, SetLineage
      <3> QED BY <3>1, <3>2, <3>3, <3>4 DEF Step
    <2> QED BY <1>1, <1>5, <2>1 DEF Register, Row, Continue, GiveWay
  <1> QED BY <1>2, <1>4, <1>5 DEF History

\* Whose a file is does not change.
LEMMA OwnersStay ==
  ASSUME Disk, NEW r, Step(r), NEW g \in files', g.of[1] # r
  PROVE  \E f \in files : f.of = g.of
  <1>1. \A f \in files : f \in StoredFile
    BY DEF Disk, FileIsWell
  <1>2. CASE g \in files
    BY <1>2
  <1>3. CASE g = NewFile(r) \/ g = ReportFile(r)
    BY <1>3 DEF NewFile, ReportFile
  <1>4. CASE \E f \in files : g = Longer(r, f)
    BY <1>1, <1>4 DEF Longer, StoredFile
  <1>5. CASE g \in SealedCopies(Plain(Dir(r)))
    <2>1. PICK f \in Plain(Dir(r)) : g = [f EXCEPT !.form = "sealed"]
      BY <1>5 DEF SealedCopies
    <2> QED BY <1>1, <2>1 DEF Plain, StoredFile
  <1> QED BY <1>2, <1>3, <1>4, <1>5, FileOrigins

\* A request that fails removes what is its own, and nobody puts it back.
LEMMA FailuresKept ==
  ASSUME Control, Disk, History, FailuresLeaveNothing, NEW r \in Active, Step(r)
  PROVE  FailuresLeaveNothing'
  <1>1. /\ Active \subseteq Requests /\ stage \in [Requests -> Stages] /\ r \in Requests
        /\ Active' = Active /\ work' = work /\ work \in Workloads
        /\ \A q : Dir(q)' = Dir(q) /\ CallerDir(q)' = CallerDir(q) /\ Shared(q)' = Shared(q)
    BY Frame, SameWork, WorkloadIsWell DEF Control
  <1>2. SUFFICES ASSUME NEW q \in Active, stage'[q] = "failed", q \notin blocked',
                        ~(work.encrypt /\ Shared(q))
                 PROVE  /\ \A f \in files' : f.of[1] = q => f.of[2] = 0 /\ CallerDir(q)
                        /\ Dir(q) \in dirs' => CallerDir(q)
                        /\ \A row \in rows' : row.by # q
    BY <1>1 DEF FailuresLeaveNothing
  <1>3. CASE q # r
    <2>1. stage[q] = "failed"
      BY <1>1, <1>2, <1>3, Frame
    <2>2. q \notin blocked
      BY <1>2, BlockedGrows
    <2>3. /\ \A f \in files : f.of[1] = q => f.of[2] = 0 /\ CallerDir(q)
          /\ Dir(q) \in dirs => CallerDir(q)
      BY <1>2, <2>1, <2>2 DEF FailuresLeaveNothing
    <2>4. \A f \in files' : f.of[1] = q => f.of[2] = 0 /\ CallerDir(q)
      BY <1>3, <2>3, OwnersStay
    <2>5. dirs' \subseteq dirs \union {Dir(r)}
      BY DirsGrow
    <2>6. Dir(q) \in dirs' => CallerDir(q)
      BY <1>1, <1>3, <2>3, <2>5, OwnDirectory
    <2>7. \A row \in rows' : row.by # q
      <3> SUFFICES ASSUME NEW row \in rows', row.by = q PROVE FALSE
        OBVIOUS
      <3>1. PICK p \in Active : /\ row = Row(p)
                                /\ \/ stage'[p] \in {"lineage", "undo", "ok"}
                                   \/ stage'[p] = "failed" /\ p \in blocked'
        <4>1. \A p : Row(p)' = Row(p)
          BY <1>1 DEF Row
        <4> QED BY <1>1, <4>1, HistoryKept DEF History
      <3>2. p = q
        BY <3>1 DEF Row
      <3> QED BY <1>2, <3>1, <3>2
    <2> QED BY <2>4, <2>6, <2>7
  <1>4. CASE q = r
    <2>1. CleanUp(r) \/ Undo(r)
      <3>1. stage[r] # "failed" \/ turn # r
        BY <1>1 DEF Control
      <3> USE <1>1, <1>2, <1>4 DEF Continue, GiveWay
      <3>2. ~(Begin(r) \/ Open(r) \/ Receive(r) \/ Complete(r) \/ Refuse(r))
        BY <3>1 DEF Begin, Open, Receive, Complete, Refuse
      <3>3. ~(Start(r) \/ Analyze(r) \/ ChunkFails(r) \/ Correlate(r))
        BY <3>1 DEF Start, Analyze, ChunkFails, Correlate
      <3>4. ~\E k \in pending[r] : MergeChunk(r, k)
        BY <3>1 DEF MergeChunk
      <3>5. ~(Export(r) \/ Clean(r) \/ Seal(r) \/ Register(r) \/ SetLineage(r))
        BY <3>1 DEF Export, Clean, Seal, Register, SetLineage
      <3> QED BY <3>2, <3>3, <3>4, <3>5 DEF Step
    <2>2. ASSUME NEW row \in rows', row.by = r PROVE FALSE
      <3>1. PICK p \in Active : /\ row = Row(p)
                                /\ \/ stage'[p] \in {"lineage", "undo", "ok"}
                                   \/ stage'[p] = "failed" /\ p \in blocked'
        <4>1. \A p : Row(p)' = Row(p)
          BY <1>1 DEF Row
        <4> QED BY <1>1, <4>1, HistoryKept DEF History
      <3>2. p = r
        BY <2>2, <3>1 DEF Row
      <3> QED BY <1>2, <1>4, <3>1, <3>2
    <2>3. \A f \in files : FileIsWell(f)
      BY DEF Disk
    <2>4. CASE CleanUp(r)
      <3>1. /\ stage[r] = "failing" /\ files' = files \ Litter(r)
            /\ dirs' = IF CallerDir(r) THEN dirs ELSE dirs \ {r}
        BY <1>2, <1>4, <2>4 DEF CleanUp
      <3>2. ASSUME NEW f \in files', f.of[1] = r
            PROVE  f.of[2] = 0 /\ CallerDir(r)
        <4>1. f \in files /\ f.dir = Dir(r) /\ FileIsWell(f)
          BY <2>3, <3>1, <3>2 DEF FileIsWell
        <4>2. CallerDir(r) /\ r \notin blocked
          BY <1>2, <1>4, <3>1, <4>1, BlockedGrows DEF Litter
        <4>3. f.form = "plain"
          <5>1. f.form # "sealed"
            BY <1>2, <1>4, <3>1, <3>2, <4>1, <4>2 DEF FileIsWell
          <5> QED BY <4>1, <5>1 DEF FileIsWell, StoredFile
        <4>4. f.name \notin created[r]
          BY <3>1, <4>1, <4>3 DEF Litter
        <4>5. f.of[2] = 0
          BY <3>1, <3>2, <4>1, <4>2, <4>3, <4>4 DEF FileIsWell, Held, Left
        <4> QED BY <4>2, <4>5
      <3>3. Dir(r) \in dirs' => CallerDir(r)
        BY <1>1, <3>1, WorkloadIsWell
      <3> QED BY <1>4, <2>2, <3>2, <3>3
    <2>5. CASE Undo(r)
      <3>1. ~CallerDir(r)
        BY <1>1, <2>5, WorkloadIsWell DEF Control, Undo
      <3>2. files' = {f \in files : f.dir # Dir(r)} /\ dirs' = dirs \ {Dir(r)}
        BY <1>2, <1>4, <2>5, UndoReduces DEF Deletes, Removes, Row
      <3>3. \A f \in files' : f.of[1] # r
        BY <2>3, <3>2 DEF FileIsWell
      <3> QED BY <1>4, <2>2, <3>2, <3>3
    <2> QED BY <2>1, <2>4, <2>5
  <1> QED BY <1>3, <1>4

-----------------------------------------------------------------------------
(* What is read.                                                           *)

\* Of the positions picked, all and only their events are there.
LEMMA PickedIs ==
  ASSUME NEW events \in Seq(Record), NEW I \in SUBSET DOMAIN events
  PROVE  /\ Picked(events, I) \in Seq(Record)
         /\ \A i \in I : \E n \in DOMAIN Picked(events, I) : Picked(events, I)[n] = events[i]
  <1> DEFINE s == InOrder(I, Up(I))
             N == Cardinality(I)
  <1>1. IsFiniteSet(I) /\ I \subseteq Nat
    <2>1. DOMAIN events = 1..Len(events) /\ Len(events) \in Nat /\ 1 \in Int /\ Len(events) \in Int
      OBVIOUS
    <2>2. IsFiniteSet(1..Len(events)) /\ 1..Len(events) \subseteq Nat
      BY <2>1, FS_Interval
    <2> QED BY <2>1, <2>2, FS_Subset
  <1>2. /\ N \in Nat /\ DOMAIN s = 1..N /\ \A n \in 1..N : s[n] \in I
        /\ \A x \in I : \E n \in 1..N : s[n] = x
    BY <1>1, PickedSorts
  <1>3. Picked(events, I) = [n \in DOMAIN s |-> events[s[n]]]
    BY DEF Picked, Up
  <1> HIDE DEF s, N
  <1>4. Picked(events, I) = [n \in 1..N |-> events[s[n]]]
    BY <1>2, <1>3
  <1>5. \A n \in 1..N : events[s[n]] \in Record
    BY <1>2
  <1>6. Picked(events, I) \in Seq(Record)
    BY <1>2, <1>4, <1>5
  <1>7. ASSUME NEW i \in I
        PROVE  \E n \in DOMAIN Picked(events, I) : Picked(events, I)[n] = events[i]
    <2>1. PICK n \in 1..N : s[n] = i
      BY <1>2
    <2>2. n \in DOMAIN Picked(events, I) /\ Picked(events, I)[n] = events[s[n]]
      BY <1>4
    <2> QED BY <2>1, <2>2
  <1> QED BY <1>6, <1>7

\* An observation that is left out is made by another event.
LEMMA NormalizedIs ==
  ASSUME NEW events \in Seq(Record)
  PROVE  /\ Normalized(events) \in Seq(Record)
         /\ \A i \in DOMAIN events :
              \E n \in DOMAIN Normalized(events) : Key(Normalized(events)[n]) = Key(events[i])
  <1> DEFINE I == {i \in DOMAIN events :
                     events[i].rec # "" => \A j \in 1..(i - 1) : Key(events[j]) # Key(events[i])}
  <1>1. Normalized(events) = Picked(events, I) /\ I \in SUBSET DOMAIN events
    BY DEF Normalized
  <1>2. ASSUME NEW i \in DOMAIN events
        PROVE  \E m \in I : Key(events[m]) = Key(events[i])
    <2> DEFINE J == {j \in DOMAIN events : Key(events[j]) = Key(events[i])}
    <2>1. J \in SUBSET (1..Len(events)) /\ J \subseteq Nat /\ i \in J /\ Len(events) \in Nat
      OBVIOUS
    <2>2. IsFiniteSet(J)
      BY <2>1, FS_Interval, FS_Subset
    <2> DEFINE m == Min(J)
    <2>3. m \in J /\ \A j \in J : m <= j
      BY <2>1, <2>2, Extremes
    <2> HIDE DEF m
    <2>4. ASSUME NEW j \in 1..(m - 1) PROVE Key(events[j]) # Key(events[m])
      <3>1. j \in DOMAIN events /\ j < m /\ ~(m <= j)
        BY <2>3
      <3> QED BY <2>3, <3>1
    <2>5. m \in I
      BY <2>3, <2>4
    <2> QED BY <2>3, <2>5
  <1> HIDE DEF I
  <1>3. /\ Picked(events, I) \in Seq(Record)
        /\ \A i \in I : \E n \in DOMAIN Picked(events, I) : Picked(events, I)[n] = events[i]
    BY <1>1, PickedIs
  <1>4. ASSUME NEW i \in DOMAIN events
        PROVE  \E n \in DOMAIN Normalized(events) : Key(Normalized(events)[n]) = Key(events[i])
    BY <1>1, <1>2, <1>3
  <1> QED BY <1>1, <1>3, <1>4

\* Without a limit on the events, every observation of the input is collected.
LEMMA CollectedIs ==
  ASSUME NEW events \in Seq(Record)
  PROVE  /\ Collected(events) \in Seq(Record)
         /\ MaxEvents = 0 =>
              \A i \in DOMAIN events :
                \E n \in DOMAIN Collected(events) : Key(Collected(events)[n]) = Key(events[i])
  <1> DEFINE all == Normalized(events)
             m == Min({MaxEvents, Len(all)})
  <1>1. all \in Seq(Record) /\ Len(all) \in Nat /\ MaxEvents \in Nat
    BY NormalizedIs, DetectionAssumption
  <1>2. m \in Nat /\ m <= Len(all)
    BY <1>1, MinOfTwo
  <1>3. Collected(events) = IF MaxEvents = 0 THEN all ELSE SubSeq(all, 1, m)
    BY DEF Collected
  <1> HIDE DEF all, m
  <1>4. SubSeq(all, 1, m) \in Seq(Record)
    BY <1>1, <1>2
  <1> QED BY <1>1, <1>3, <1>4, NormalizedIs DEF all

Places(r, upto) == UNION {{f} \X (1..upto[f]) : f \in Chosen(r)}
EventAt(p) == work.uploads[p[1].of[1]][p[1].of[2]].events[p[2]]

\* All and only the events of the chosen files are input, as far as they are read.
LEMMA InputIs ==
  ASSUME Control, Disk, NEW r \in Active, NEW upto \in Readings(r)
  PROVE  /\ Input(r, upto) \in Seq(Record)
         /\ \A f \in Chosen(r) : \A i \in 1..upto[f] :
              \E n \in DOMAIN Input(r, upto) : Input(r, upto)[n] = EventAt(<<f, i>>)
  <1> DEFINE C == Chosen(r)
             P == Places(r, upto)
             R == {p \in P \X P : Sooner(p[1], p[2])}
             s == InOrder(P, R)
             N == Cardinality(P)
  <1>1. \A f \in C : /\ f \in files /\ f.dir = Dir(r) /\ f.form = "plain" /\ FileIsWell(f)
                     /\ f.of[2] # 0 /\ f.name \in Nat \X Nat /\ f.upto \in Nat
                     /\ f.of[1] \in Active
    BY DEF Chosen, Plain, Disk, FileIsWell, StoredFile
  <1>16. \A f \in C : upto[f] \in Nat /\ upto[f] <= f.upto
    <2>1. /\ upto \in [C -> UNION {0..f.upto : f \in C}]
          /\ \A f \in C : upto[f] <= f.upto
      BY DEF Readings
    <2>2. UNION {0..f.upto : f \in C} \subseteq Nat
      BY <1>1
    <2> HIDE DEF C
    <2> QED BY <2>1, <2>2
  <1>2. IsFiniteSet(C)
    <2>1. C \in SUBSET files /\ IsFiniteSet(files)
      BY <1>1 DEF Disk
    <2> QED BY <2>1, FS_Subset
  <1> HIDE DEF C
  <1>3. \A p : p \in P <=> \E f \in C : \E i \in 1..upto[f] : p = <<f, i>>
    BY DEF Places, C
  <1>4. IsFiniteSet(P)
    <2> DEFINE h == [f \in C |-> {f} \X (1..upto[f])]
               S == {{f} \X (1..upto[f]) : f \in C}
    <2>1. h \in Surjection(C, S)
      BY DEF Surjection
    <2>2. IsFiniteSet(S)
      BY <1>2, <2>1, FS_Surjection
    <2>3. ASSUME NEW f \in C PROVE IsFiniteSet({f} \X (1..upto[f]))
      <3>1. 1 \in Int /\ upto[f] \in Int
        BY <1>16
      <3> QED BY <3>1, FS_Interval, FS_Singleton, FS_Product
    <2>4. P = UNION S
      BY DEF Places, C
    <2>5. \A T \in S : IsFiniteSet(T)
      BY <2>3
    <2> HIDE DEF S, P
    <2> QED BY <2>2, <2>4, <2>5, FS_UNION
  <1>5. \A p \in P : /\ p[1] \in C /\ p[2] \in 1..upto[p[1]] /\ p = <<p[1], p[2]>>
                     /\ p[1].name[1] \in Nat /\ p[1].name[2] \in Nat /\ p[2] \in Nat
                     /\ p[1].name = <<p[1].name[1], p[1].name[2]>>
    BY <1>1, <1>3
  <1> HIDE DEF P
  <1>6. \A p, q : <<p, q>> \in R <=> p \in P /\ q \in P /\ Sooner(p, q)
    OBVIOUS
  <1> HIDE DEF R
  <1>7. ASSUME NEW p \in P, NEW q \in P, p # q
        PROVE  Sooner(p, q) \/ Sooner(q, p)
    <2>1. p[1].name = q[1].name => p[1] = q[1]
      BY <1>1, <1>5 DEF Disk, NamesAreUnique
    <2>2. p[1].name = q[1].name => p[2] < q[2] \/ q[2] < p[2]
      BY <1>5, <1>7, <2>1
    <2>3. p[1].name # q[1].name =>
            p[1].name[1] # q[1].name[1] \/ p[1].name[2] # q[1].name[2]
      BY <1>5
    <2> QED BY <1>5, <2>2, <2>3 DEF Sooner
  <1>8. \A p \in P : ~Sooner(p, p)
    BY <1>5 DEF Sooner
  <1>9. ASSUME NEW p \in P, NEW q \in P, NEW t \in P, Sooner(p, q), Sooner(q, t)
        PROVE  Sooner(p, t)
    BY <1>5, <1>9 DEF Sooner
  <1>10. IsOrder(R, P)
    BY <1>6, <1>7, <1>8, <1>9 DEF IsOrder
  <1>11. /\ N \in Nat /\ DOMAIN s = 1..N /\ \A n \in 1..N : s[n] \in P
         /\ \A x \in P : \E n \in 1..N : s[n] = x
    BY <1>4, <1>10, InOrderSorts
  <1>12. Input(r, upto) = [k \in DOMAIN s |-> EventAt(s[k])]
    BY DEF Input, Places, Chosen, EventAt, P, R
  <1> HIDE DEF s, N
  <1>13. ASSUME NEW p \in P PROVE EventAt(p) \in Record
    <2>1. /\ p[1].of[1] \in Active /\ p[1].of[2] \in DOMAIN Uploads(p[1].of[1])
          /\ p[1].upto <= Len(Uploads(p[1].of[1])[p[1].of[2]].events)
      BY <1>1, <1>5 DEF FileIsWell
    <2>2. Uploads(p[1].of[1])[p[1].of[2]].events \in Seq(Record)
      BY <2>1, ContentLength DEF Control
    <2>3. p[2] \in 1..Len(Uploads(p[1].of[1])[p[1].of[2]].events)
      <3>1. /\ p[1].upto \in Nat /\ upto[p[1]] \in Nat /\ upto[p[1]] <= p[1].upto
            /\ Len(Uploads(p[1].of[1])[p[1].of[2]].events) \in Nat
        BY <1>1, <1>5, <1>16, <2>2
      <3> QED BY <1>5, <2>1, <3>1
    <2>4. Uploads(p[1].of[1])[p[1].of[2]].events[p[2]] \in Record
      BY <2>2, <2>3
    <2> QED BY <2>4 DEF EventAt, Uploads
  <1>14. Input(r, upto) \in Seq(Record)
    <2>1. Input(r, upto) = [k \in 1..N |-> EventAt(s[k])] /\ \A k \in 1..N : EventAt(s[k]) \in Record
      BY <1>11, <1>12, <1>13
    <2> HIDE DEF EventAt
    <2> QED BY <1>11, <2>1
  <1>15. ASSUME NEW f \in C, NEW i \in 1..upto[f]
         PROVE  \E n \in DOMAIN Input(r, upto) : Input(r, upto)[n] = EventAt(<<f, i>>)
    <2>1. <<f, i>> \in P
      BY <1>3
    <2>2. PICK n \in 1..N : s[n] = <<f, i>>
      BY <1>11, <2>1
    <2>3. n \in DOMAIN Input(r, upto) /\ Input(r, upto)[n] = EventAt(s[n])
      BY <1>11, <1>12
    <2> QED BY <2>2, <2>3
  <1> QED BY <1>14, <1>15 DEF C

-----------------------------------------------------------------------------
(* What is found.                                                          *)

\* The events of some of the chunks, and what the stage of a request says of the
\* events it has read, the chunks pending and its findings.
Covered(events, K) == UNION {ChunkOf(events, k) : k \in K}

Sound(s, events, K, F) ==
  /\ events \in Seq(Record) /\ K \subseteq Chunks(events)
  /\ s \in {"none", "new", "open", "reading", "match"} => K = {} /\ F = {}
  /\ s = "threads" => Reports(F, WithParents(events), Covered(events, Chunks(events) \ K))
  /\ s = "correlate" => Reports(F, WithParents(events), DOMAIN events)

Evaluated(r) == Sound(stage[r], read[r], pending[r], found[r])

\* Evaluation in one part for each request.
LEMMA EvaluationParts ==
  Evaluation <=> \A r \in Requests : Evaluated(r)
  BY DEF Evaluation, Evaluated, Sound, Covered

\* Whichever chunk a thread finishes next, the findings report the chunks finished.
LEMMA EvaluationKept ==
  ASSUME Control, Disk, Evaluation, NEW r \in Active, Step(r)
  PROVE  Evaluation'
  <1>1. /\ r \in Requests /\ stage \in [Requests -> Stages] /\ Evaluated(r)
        /\ DOMAIN read = Requests /\ DOMAIN pending = Requests /\ DOMAIN found = Requests
    BY WorkloadIsWell, EvaluationParts DEF Control
  <1>2. ASSUME NEW q \in Requests \ {r} PROVE Evaluated(q)'
    <2>1. /\ stage'[q] = stage[q] /\ read'[q] = read[q] /\ pending'[q] = pending[q]
          /\ found'[q] = found[q]
      BY Frame
    <2> QED BY <2>1, EvaluationParts DEF Evaluated
  <1>3. /\ read[r] \in Seq(Record) /\ Len(read[r]) \in Nat /\ DOMAIN read[r] = 1..Len(read[r])
        /\ IsFiniteSet(DOMAIN read[r]) /\ DOMAIN read[r] \subseteq Nat
    <2>1. /\ read[r] \in Seq(Record) /\ Len(read[r]) \in Nat /\ DOMAIN read[r] = 1..Len(read[r])
      BY <1>1 DEF Evaluated, Sound
    <2>2. 1 \in Int /\ Len(read[r]) \in Int
      BY <2>1
    <2> QED BY <2>1, <2>2, FS_Interval
  <1>4. ASSUME Start(r)
        PROVE  Evaluated(r)'
    <2>1. /\ stage'[r] \in {"match", "failing"} /\ stage[r] = "open"
          /\ read'[r] = read[r] \/ \E upto \in Readings(r) : read'[r] = Collected(Input(r, upto))
          /\ pending'[r] = pending[r] /\ found'[r] = found[r]
      <3> USE <1>1, <1>4 DEF Start, Continue
      <3>1. stage'[r] \in {"match", "failing"} /\ stage[r] = "open"
        OBVIOUS
      <3>2. read'[r] = read[r] \/ \E upto \in Readings(r) : read'[r] = Collected(Input(r, upto))
        BY DEF Reads
      <3>3. pending'[r] = pending[r] /\ found'[r] = found[r]
        OBVIOUS
      <3> QED BY <3>1, <3>2, <3>3
    <2>2. read'[r] \in Seq(Record)
      <3>1. \A upto \in Readings(r) : Input(r, upto) \in Seq(Record)
        BY InputIs
      <3> QED BY <1>3, <2>1, <3>1, CollectedIs
    <2>3. pending[r] = {} /\ found[r] = {}
      BY <1>1, <2>1 DEF Evaluated, Sound
    <2>4. Sound(stage'[r], read'[r], pending'[r], found'[r])
      BY <1>3, <2>1, <2>2, <2>3 DEF Sound
    <2> QED BY <2>4 DEF Evaluated
  <1>5. ASSUME Analyze(r)
        PROVE  Evaluated(r)'
    <2>1. stage[r] = "match" /\ read' = read /\ pending[r] = {} /\ found[r] = {}
      BY <1>1, <1>5 DEF Analyze, Evaluated, Sound
    <2>2. CASE Len(read[r]) > ParallelAbove
      <3>1. /\ pending'[r] = Chunks(read[r]) /\ stage'[r] = "threads" /\ found'[r] = {}
        BY <1>1, <1>5, <2>1, <2>2 DEF Analyze, Continue
      <3>2. Covered(read[r], Chunks(read[r]) \ Chunks(read[r])) = {}
        BY DEF Covered
      <3>3. Reports({}, WithParents(read[r]), {})
        BY DEF Reports
      <3>4. Sound("threads", read[r], Chunks(read[r]), {})
        BY <1>3, <3>2, <3>3 DEF Sound
      <3> QED BY <2>1, <3>1, <3>4 DEF Evaluated
    <2>3. CASE ~(Len(read[r]) > ParallelAbove)
      <3>1. /\ pending'[r] = {} /\ stage'[r] = "correlate" /\ found'[r] = Sequential(read[r])
        BY <1>1, <1>5, <2>1, <2>3 DEF Analyze, Continue
      <3>2. Reports(Sequential(read[r]), WithParents(read[r]), DOMAIN read[r])
        BY <1>3, FindingsOfReports DEF Sequential, WithParents
      <3>3. Sound("correlate", read[r], {}, Sequential(read[r]))
        BY <1>3, <3>2 DEF Sound
      <3> QED BY <2>1, <3>1, <3>3 DEF Evaluated
    <2> QED BY <2>2, <2>3
  <1>6. ASSUME NEW k \in pending[r], MergeChunk(r, k)
        PROVE  Evaluated(r)'
    <2> DEFINE E == read[r]
               of(K) == Covered(E, K)
    <2>1. /\ stage[r] = "threads" /\ read' = read /\ pending'[r] = pending[r] \ {k}
          /\ found'[r] = Merged(found[r], ChunkFindings(E, k))
          /\ stage'[r] = IF pending[r] = {k} THEN "correlate" ELSE "threads"
      BY <1>1, <1>6 DEF MergeChunk, Continue
    <2>2. pending[r] \subseteq Chunks(E) /\ Reports(found[r], WithParents(E), of(Chunks(E) \ pending[r]))
      BY <1>1, <2>1 DEF Evaluated, Sound
    <2>3. k \in Chunks(E) /\ ChunkOf(E, k) \subseteq Nat /\ IsFiniteSet(ChunkOf(E, k))
      BY <1>3, <2>2, ChunksCover
    <2>4. Reports(ChunkFindings(E, k), WithParents(E), ChunkOf(E, k))
      BY <2>3, FindingsOfReports DEF ChunkFindings
    <2> HIDE DEF of, E
    <2>5. Reports(found'[r], WithParents(E), of(Chunks(E) \ pending[r]) \union ChunkOf(E, k))
      BY <2>1, <2>2, <2>4, MergedReports
    <2>6. of(Chunks(E) \ pending[r]) \union ChunkOf(E, k) = of(Chunks(E) \ pending'[r])
      BY <2>1, <2>3 DEF of, Covered
    <2>7. pending[r] = {k} => of(Chunks(E) \ pending'[r]) = DOMAIN E
      <3>1. pending[r] = {k} => Chunks(E) \ pending'[r] = Chunks(E)
        BY <2>1
      <3>2. of(Chunks(E)) = DOMAIN E
        BY <1>3, ChunksCover DEF of, E, Covered
      <3> QED BY <3>1, <3>2
    <2>8. /\ stage'[r] = "threads" => Reports(found'[r], WithParents(E), of(Chunks(E) \ pending'[r]))
          /\ stage'[r] = "correlate" => Reports(found'[r], WithParents(E), DOMAIN E)
          /\ stage'[r] \in {"threads", "correlate"}
      BY <2>1, <2>5, <2>6, <2>7
    <2>9. pending'[r] \subseteq Chunks(E)
      BY <2>1, <2>2
    <2>10. Sound(stage'[r], E, pending'[r], found'[r])
      BY <1>3, <2>8, <2>9 DEF Sound, of, E
    <2> QED BY <2>1, <2>10 DEF Evaluated, E
  <1>7. ASSUME ~Start(r) /\ ~Analyze(r) /\ ~\E k \in pending[r] : MergeChunk(r, k)
        PROVE  Evaluated(r)'
    <2>1. /\ read'[r] = read[r] /\ pending'[r] = pending[r] /\ found'[r] = found[r]
          /\ stage'[r] \notin {"match", "threads", "correlate"}
          /\ stage'[r] \in {"none", "new", "open", "reading"} =>
               stage[r] \in {"none", "new", "open", "reading"}
      <3> USE <1>1 DEF Continue, GiveWay, analysisVars
      <3>1. CASE Begin(r) \/ Open(r) \/ Receive(r) \/ Complete(r) \/ Refuse(r) \/ CleanUp(r)
        BY <3>1 DEF Begin, Open, Receive, Complete, Refuse, CleanUp
      <3>2. CASE ChunkFails(r) \/ Correlate(r)
        BY <3>2 DEF ChunkFails, Correlate
      <3>4. CASE Export(r) \/ Clean(r) \/ Seal(r) \/ Register(r) \/ SetLineage(r) \/ Undo(r)
        BY <3>4 DEF Export, Clean, Seal, Register, SetLineage, Undo
      <3> QED BY <1>7, <3>1, <3>2, <3>4 DEF Step
    <2>2. Sound(stage'[r], read'[r], pending'[r], found'[r])
      BY <1>1, <2>1 DEF Evaluated, Sound
    <2> QED BY <2>2 DEF Evaluated
  <1>8. Evaluated(r)'
    BY <1>4, <1>5, <1>6, <1>7
  <1> QED BY <1>2, <1>8 DEF Evaluation, Evaluated, Sound, Covered

-----------------------------------------------------------------------------
(* What is stored.                                                         *)

\* A step leaves the uploads of others alone, also in a directory it shares
\* with them, where it goes by the names of files.
LEMMA OthersFilesStay ==
  ASSUME Control, Disk, Present, NEW r \in Active, Step(r), NEW f \in files, f.of[1] # r,
         f.of[2] # 0, f.dir \notin removed', ~(work.encrypt /\ Shared(f.of[1]))
  PROVE  f \in files'
  <1> DEFINE q == f.of[1]
  <1>1. /\ FileIsWell(f) /\ f \in StoredFile /\ q \in Active /\ f.dir = Dir(q)
        /\ f.name # ReportName /\ f.form \in {"plain", "sealed"}
    BY DEF Disk, FileIsWell, StoredFile
  <1>2. Receive(r) => f \in files'
    <2>1. Longer(r, f) = f
      BY DEF Longer, Arrives
    <2> QED BY <2>1 DEF Receive, Longer, Arrives
  <1>3. CASE Dir(q) # Dir(r)
    <2> USE <1>1, <1>3 DEF diskVars
    <2>1. CASE Begin(r) \/ Open(r) \/ Complete(r) \/ Refuse(r)
      BY <2>1 DEF Begin, Open, Complete, Refuse
    <2>6. CASE CleanUp(r)
      BY <2>6 DEF CleanUp, Litter
    <2>2. CASE Start(r) \/ Analyze(r) \/ ChunkFails(r) \/ Correlate(r)
      BY <2>2 DEF Start, Analyze, ChunkFails, Correlate
    <2>3. CASE \E k \in pending[r] : MergeChunk(r, k)
      BY <2>3 DEF MergeChunk
    <2>4. CASE Export(r)
      BY <2>4 DEF Export, Plain
    <2>7. CASE Clean(r)
      BY <2>7, CleanReduces, ReductionSpares
    <2>8. CASE Seal(r)
      <3>1. f \notin Plain(Dir(r))
        BY DEF Plain
      <3> QED BY <2>8, <3>1 DEF Seal, Seals
    <2>5. CASE Register(r) \/ SetLineage(r)
      BY <2>5 DEF Register, SetLineage
    <2>9. CASE Undo(r)
      BY <2>9, UndoReduces, ReductionSpares
    <2> QED BY <1>2, <2>1, <2>2, <2>3, <2>4, <2>5, <2>6, <2>7, <2>8, <2>9 DEF Step
  <1>4. CASE Dir(q) = Dir(r)
    <2>1. CallerDir(r) /\ Shared(q) /\ ~work.encrypt
      BY <1>1, <1>4, OwnDirectory DEF Control, Shared
    <2>2. f.form = "plain" /\ \A g \in files : g.form = "plain"
      BY <2>1 DEF Disk, FileIsWell, StoredFile
    <2>3. Dir(r) \notin removed
      BY <1>1, <1>4, DirsGo
    <2>4. ASSUME Begun(r) PROVE f.name \notin Held(r)
      <3> SUFFICES ASSUME f.name \in Held(r) PROVE FALSE
        OBVIOUS
      <3>1. PICK g \in files : g.dir = Dir(r) /\ g.name = f.name /\ g.of[1] = r
        BY <2>1, <2>3, <2>4 DEF Present
      <3>2. g = f
        BY <1>1, <1>4, <2>2, <3>1 DEF Disk, NamesAreUnique
      <3> QED BY <3>1, <3>2
    <2> USE <1>1, <1>4, <2>1, <2>2, <2>4 DEF diskVars
    <2>5. CASE Refuse(r)
      BY <2>5 DEF Refuse, Begun, Held
    <2>12. CASE CleanUp(r)
      <3>1. f \notin Litter(r)
        BY <2>12 DEF Litter, CleanUp, Begun, Held
      <3> QED BY <2>12, <3>1 DEF CleanUp
    <2>6. CASE Begin(r) \/ Open(r) \/ Complete(r)
      BY <2>6 DEF Begin, Open, Complete
    <2>7. CASE Start(r) \/ Analyze(r) \/ ChunkFails(r) \/ Correlate(r)
      BY <2>7 DEF Start, Analyze, ChunkFails, Correlate
    <2>8. CASE \E k \in pending[r] : MergeChunk(r, k)
      BY <2>8 DEF MergeChunk
    <2>9. CASE Export(r) \/ Seal(r) \/ Register(r) \/ SetLineage(r)
      BY <2>9 DEF Export, Seal, Register, SetLineage
    <2>10. CASE Clean(r)
      <3>1. r \in Requests
        BY WorkloadIsWell DEF Control
      <3> QED BY <2>10, <3>1 DEF Clean, Control
    <2>11. CASE Undo(r)
      BY <2>11, UndoReduces, ReductionSpares
    <2> QED BY <1>2, <2>5, <2>6, <2>7, <2>8, <2>9, <2>10, <2>11, <2>12 DEF Step
  <1> QED BY <1>3, <1>4

Later(r, f) ==
  IF Seal(r) /\ work.encrypt /\ stage'[r] = "register" /\ f.form = "plain" /\ f.dir = Dir(r)
  THEN "sealed" ELSE f.form

\* Its own uploads a request only takes away when it fails or is not to keep
\* its directory.
LEMMA OwnFilesStay ==
  ASSUME Control, Disk, NEW r \in Active, Step(r), NEW f \in files, f.of[1] = r, f.of[2] # 0,
         stage'[r] # "failed", stage'[r] = "failing" => ~work.encrypt,
         f.dir \in dirs' \ removed', ~Refuse(r) \/ f.name # path[r]
  PROVE  \E g \in files' : /\ g.dir = f.dir /\ g.name = f.name /\ g.of = f.of
                           /\ g.form = Later(r, f)
                           /\ g.upto = IF Receive(r) /\ Arrives(r, f) THEN got[r] + 1 ELSE f.upto
  <1>1. /\ FileIsWell(f) /\ f \in StoredFile /\ f.dir = Dir(r) /\ f.name # ReportName
        /\ f.form \in {"plain", "sealed"}
    BY DEF Disk, FileIsWell, StoredFile
  <1>2. r \in Requests /\ stage \in [Requests -> Stages]
    BY WorkloadIsWell DEF Control
  <1> DEFINE Goal == \E g \in files' : /\ g.dir = f.dir /\ g.name = f.name /\ g.of = f.of
                                       /\ g.form = Later(r, f)
                                       /\ g.upto = IF Receive(r) /\ Arrives(r, f) THEN got[r] + 1
                                                                                ELSE f.upto
  <1>3. ASSUME Receive(r) PROVE Goal
    <2>1. Longer(r, f) \in files'
      BY <1>3 DEF Receive, Longer, Arrives
    <2>2. ~Seal(r)
      BY <1>3 DEF Receive, Seal
    <2>3. f.form = Later(r, f)
      BY <2>2 DEF Later
    <2>4. /\ Longer(r, f).dir = f.dir /\ Longer(r, f).name = f.name /\ Longer(r, f).of = f.of
          /\ Longer(r, f).form = f.form
          /\ Longer(r, f).upto = IF Arrives(r, f) THEN got[r] + 1 ELSE f.upto
      BY <1>1 DEF Longer, StoredFile
    <2> HIDE DEF Longer
    <2> QED BY <1>3, <2>1, <2>3, <2>4
  <1>4. ASSUME Seal(r) PROVE Goal
    <2>1. ~Receive(r)
      BY <1>4 DEF Receive, Seal
    <2>2. CASE work.encrypt /\ stage'[r] = "register" /\ f.form = "plain"
      <3> DEFINE g == [f EXCEPT !.form = "sealed"]
      <3>1. files' = Seals(Dir(r))
        BY <1>2, <1>4, <2>2 DEF Seal, Continue
      <3>2. g \in files'
        <4>1. f \in Plain(Dir(r))
          BY <1>1, <2>2 DEF Plain
        <4>2. g \in SealedCopies(Plain(Dir(r)))
          BY <4>1 DEF SealedCopies
        <4> QED BY <3>1, <4>2 DEF Seals
      <3>3. /\ g.dir = f.dir /\ g.name = f.name /\ g.of = f.of /\ g.form = "sealed"
            /\ g.upto = f.upto
        BY <1>1, SealedIs
      <3>4. Later(r, f) = "sealed"
        BY <1>1, <1>4, <2>2 DEF Later
      <3> HIDE DEF g
      <3> QED BY <2>1, <3>2, <3>3, <3>4
    <2>3. CASE ~(work.encrypt /\ stage'[r] = "register" /\ f.form = "plain")
      <3>1. f \in files'
        <4>1. stage'[r] \in {"register", "failing"}
          BY <1>4, Transitions
        <4>2. CASE stage'[r] = "failing"
          BY <1>2, <1>4, <4>2 DEF Seal, Continue
        <4>3. CASE stage'[r] = "register"
          <5>1. files' = IF work.encrypt THEN Seals(Dir(r)) ELSE files
            BY <1>2, <1>4, <4>3 DEF Seal, Continue
          <5> QED BY <2>3, <4>3, <5>1 DEF Seals, Plain
        <4> QED BY <4>1, <4>2, <4>3
      <3>2. Later(r, f) = f.form
        BY <2>3 DEF Later
      <3> QED BY <2>1, <3>1, <3>2
    <2> QED BY <2>2, <2>3
  <1>5. ASSUME ~Receive(r), ~Seal(r) PROVE Goal
    <2>1. f \in files'
      <3> USE <1>1, <1>2 DEF diskVars
      <3>1. CASE Begin(r) \/ Open(r) \/ Complete(r) \/ Refuse(r)
        BY <3>1 DEF Begin, Open, Complete, Refuse
      <3>2. CASE Start(r) \/ Analyze(r) \/ ChunkFails(r) \/ Correlate(r)
        BY <3>2 DEF Start, Analyze, ChunkFails, Correlate
      <3>3. CASE \E k \in pending[r] : MergeChunk(r, k)
        BY <3>3 DEF MergeChunk
      <3>4. CASE Export(r) \/ Register(r) \/ SetLineage(r)
        BY <3>4 DEF Export, Register, SetLineage
      <3>5. CASE Clean(r)
        BY <3>5, CleanReduces, ReductionSpares
      <3>6. ~CleanUp(r) /\ ~Undo(r)
        BY Transitions
      <3> QED BY <1>5, <3>1, <3>2, <3>3, <3>4, <3>5, <3>6 DEF Step
    <2>2. Later(r, f) = f.form
      BY <1>5 DEF Later
    <2> QED BY <1>5, <2>1, <2>2
  <1> QED BY <1>3, <1>4, <1>5

\* Only the end of an upload leads to the next.
LEMMA NextStays ==
  ASSUME NEW r, Step(r)
  PROVE  Complete(r) \/ next' = next
  <1> USE DEF uploadVars
  <1>1. CASE Begin(r) \/ Open(r) \/ Receive(r) \/ Refuse(r) \/ CleanUp(r)
    BY <1>1 DEF Begin, Open, Receive, Refuse, CleanUp
  <1>2. CASE Start(r) \/ Analyze(r) \/ ChunkFails(r) \/ Correlate(r)
    BY <1>2 DEF Start, Analyze, ChunkFails, Correlate
  <1>3. CASE \E k \in pending[r] : MergeChunk(r, k)
    BY <1>3 DEF MergeChunk
  <1>4. CASE Export(r) \/ Clean(r) \/ Seal(r) \/ Register(r) \/ SetLineage(r) \/ Undo(r)
    BY <1>4 DEF Export, Clean, Seal, Register, SetLineage, Undo
  <1> QED BY <1>1, <1>2, <1>3, <1>4 DEF Step

\* Events are read only at the start of an analysis.
LEMMA ReadStays ==
  ASSUME NEW r, Step(r)
  PROVE  Start(r) \/ (read' = read /\ skipped' = skipped)
  <1> USE DEF analysisVars
  <1>1. CASE Begin(r) \/ Open(r) \/ Receive(r) \/ Complete(r) \/ Refuse(r) \/ CleanUp(r)
    BY <1>1 DEF Begin, Open, Receive, Complete, Refuse, CleanUp
  <1>2. CASE Analyze(r) \/ ChunkFails(r) \/ Correlate(r)
    BY <1>2 DEF Analyze, ChunkFails, Correlate
  <1>3. CASE \E k \in pending[r] : MergeChunk(r, k)
    BY <1>3 DEF MergeChunk
  <1>4. CASE Export(r) \/ Clean(r) \/ Seal(r) \/ Register(r) \/ SetLineage(r) \/ Undo(r)
    BY <1>4 DEF Export, Clean, Seal, Register, SetLineage, Undo
  <1> QED BY <1>1, <1>2, <1>3, <1>4 DEF Step

\* A request that may have to clean up finds its own files under their names.
LEMMA PresentKept ==
  ASSUME Control, Disk, Present, NEW r \in Active, Step(r)
  PROVE  Present'
  <1>1. /\ Active \subseteq Requests /\ stage \in [Requests -> Stages] /\ r \in Requests
        /\ Active' = Active /\ work' = work /\ work \in Workloads /\ removed \subseteq removed'
        /\ \A q : Dir(q)' = Dir(q)
    BY Frame, SameWork, WorkloadIsWell, DirsGo DEF Control
  <1>2. SUFFICES ASSUME NEW q \in Active, Begun(q)', Dir(q) \notin removed', ~work.encrypt,
                        NEW n \in Held(q)'
                 PROVE  \E f \in files' : f.dir = Dir(q) /\ f.name = n /\ f.of[1] = q
    BY <1>1 DEF Present
  <1>3. Dir(q) \in dirs'
    BY <1>1, <1>2, HousedKept DEF Housed
  <1>4. ASSUME NEW f \in files, f.name \in Held(q) PROVE f.name # ReportName /\ f.of[2] # 0
    <2>1. f.name # ReportName
      BY <1>1, <1>4 DEF Disk, NamesAreTaken
    <2> QED BY <2>1 DEF Disk, FileIsWell
  <1>5. CASE q # r
    <2>1. Held(q)' = Held(q) /\ stage'[q] = stage[q]
      BY <1>1, <1>5, Frame, HeldGrows
    <2>2. PICK f \in files : f.dir = Dir(q) /\ f.name = n /\ f.of[1] = q
      BY <1>1, <1>2, <2>1 DEF Present, Begun
    <2>3. f \in files'
      BY <1>2, <1>4, <1>5, <2>1, <2>2, OthersFilesStay
    <2> QED BY <2>2, <2>3
  <1>6. CASE q = r
    <2>1. CASE Open(r) /\ Dir(r) \in dirs /\ n = FreeName(r)
      <3>1. NewFile(r) \in files'
        BY <2>1 DEF Open, NewFile
      <3> QED BY <1>6, <2>1, <3>1 DEF NewFile
    <2>2. CASE n \in Held(r) /\ Begun(r)
      <3>1. PICK f \in files : f.dir = Dir(r) /\ f.name = n /\ f.of[1] = r
        BY <1>1, <1>2, <1>6, <2>2 DEF Present
      <3>2. Refuse(r) => n # path[r]
        <4>1. Refuse(r) => n \in created[r] /\ stage[r] = "reading"
          BY <1>2, <1>6, HeldGrows, Transitions
        <4> QED BY <1>1, <4>1 DEF Disk, NamesAreTaken
      <3>3. stage'[r] # "failed"
        BY <1>2, <1>6 DEF Begun
      <3>4. f.of[2] # 0
        BY <1>4, <1>6, <2>2, <3>1
      <3>5. f.dir \in dirs' \ removed'
        BY <1>2, <1>3, <1>6, <3>1
      <3>6. ~Refuse(r) \/ f.name # path[r]
        BY <3>1, <3>2
      <3>7. \E g \in files' : g.dir = f.dir /\ g.name = f.name /\ g.of = f.of
        BY <1>2, <3>1, <3>3, <3>4, <3>5, <3>6, OwnFilesStay
      <3> QED BY <1>6, <3>1, <3>7
    <2>3. Held(r)' \subseteq Held(r) \/ (Open(r) /\ Dir(r) \in dirs)
      <3>1. created \in [Requests -> SUBSET (Nat \X Nat)]
        BY DEF Control
      <3>2. CASE Complete(r)
        BY <1>1, <3>1, <3>2 DEF Complete, Held, Continue
      <3>3. CASE ~Complete(r)
        <4>1. created'[r] = created[r]
          <5> USE DEF uploadVars
          <5>1. CASE Begin(r) \/ Open(r) \/ Receive(r) \/ Refuse(r) \/ CleanUp(r)
            BY <5>1 DEF Begin, Open, Receive, Refuse, CleanUp
          <5>2. CASE Start(r) \/ Analyze(r) \/ ChunkFails(r) \/ Correlate(r)
            BY <5>2 DEF Start, Analyze, ChunkFails, Correlate
          <5>3. CASE \E k \in pending[r] : MergeChunk(r, k)
            BY <5>3 DEF MergeChunk
          <5>4. CASE Export(r) \/ Clean(r) \/ Seal(r) \/ Register(r) \/ SetLineage(r) \/ Undo(r)
            BY <5>4 DEF Export, Clean, Seal, Register, SetLineage, Undo
          <5> QED BY <3>3, <5>1, <5>2, <5>3, <5>4 DEF Step
        <4>2. CASE stage'[r] # "reading"
          BY <4>1, <4>2 DEF Held
        <4>3. CASE Receive(r)
          BY <4>3 DEF Receive, Held
        <4>4. CASE Open(r)
          BY <1>1, <4>1, <4>4 DEF Open, Continue, Held
        <4> QED BY <4>2, <4>3, <4>4, StagesBefore
      <3> QED BY <3>2, <3>3
    <2>4. CASE Open(r) /\ Dir(r) \in dirs /\ n # FreeName(r)
      <3>1. path'[r] = FreeName(r) /\ created'[r] = created[r]
        BY <1>1, <2>4 DEF Open, Control
      <3>2. n \in Held(r)
        BY <1>2, <1>6, <2>4, <3>1 DEF Held
      <3>3. Begun(r)
        BY <2>4, Transitions DEF Begun
      <3> QED BY <2>2, <3>2, <3>3
    <2>5. CASE Held(r)' \subseteq Held(r)
      <3>1. n \in Held(r)
        BY <1>2, <1>6, <2>5
      <3>2. stage[r] # "new"
        BY <1>1, <3>1 DEF Control, Held
      <3>3. Begun(r)
        BY <3>2, StagesBefore DEF Begun
      <3> QED BY <2>2, <3>1, <3>3
    <2> QED BY <2>1, <2>3, <2>4, <2>5
  <1> QED BY <1>5, <1>6

\* While a request is busy with it, its directory stays unless its case is deleted.
LEMMA SettledBefore ==
  ASSUME Control, Disk, NEW r \in Active, Step(r), NEW q \in Active,
         Settled(q)', stage'[q] \notin {"new", "failing", "failed"}
  PROVE  \/ q = r /\ Begin(r)
         \/ Settled(q) /\ stage[q] \notin {"new", "failing", "failed"}
  <1>1. /\ Active \subseteq Requests /\ work' = work /\ work \in Workloads
        /\ Dir(q)' = Dir(q) /\ Shared(q)' = Shared(q) /\ removed \subseteq removed'
    BY Frame, SameWork, WorkloadIsWell, DirsGo DEF Control
  <1>2. Dir(q) \in dirs' /\ Dir(q) \notin removed' /\ ~(work.encrypt /\ Shared(q))
    BY <1>1 DEF Settled
  <1>3. CASE q # r
    <2>1. stage'[q] = stage[q]
      BY <1>1, <1>3, Frame
    <2>2. Dir(q) \in dirs
      <3>1. CASE Dir(q) = Dir(r)
        <4>1. CallerDir(q)
          BY <1>1, <1>3, <3>1, OwnDirectory
        <4>2. Begun(q) \/ stage[q] = "ok"
          <5>1. stage[q] # "none"
            BY <1>1 DEF Control
          <5> QED BY <2>1, <5>1 DEF Begun
        <4> QED BY <1>1, <1>2, <4>1, <4>2 DEF Disk
      <3>2. CASE Dir(q) # Dir(r)
        BY <1>2, <3>2, DirsGrow
      <3> QED BY <3>1, <3>2
    <2> QED BY <1>1, <1>2, <2>1, <2>2 DEF Settled
  <1>4. CASE q = r
    <2>1. Begin(r) \/ stage[r] \notin {"none", "new", "failing", "ok", "failed"}
      BY <1>4, StagesBefore
    <2>2. stage[r] \notin {"none", "new", "failing", "ok", "failed"} => Dir(r) \in dirs
      BY <1>1, <1>2, <1>4 DEF Disk, Begun
    <2> QED BY <1>1, <1>2, <1>4, <2>1, <2>2 DEF Settled
  <1> QED BY <1>3, <1>4

\* An upload that was complete stays stored.
LEMMA StoredStays ==
  ASSUME Control, Disk, Present, NEW r \in Active, Step(r), NEW q \in Active,
         Settled(q)', stage'[q] \notin {"new", "failing", "failed"},
         NEW n \in Nat \ {0}, NEW u, Stored(q, n, u, Form(q)),
         ~(q = r /\ Receive(r) /\ n = next[r])
  PROVE  Stored(q, n, u, Form(q))'
  <1>1. /\ Active \subseteq Requests /\ work' = work /\ work \in Workloads
        /\ Dir(q)' = Dir(q) /\ Shared(q)' = Shared(q)
    BY Frame, SameWork, WorkloadIsWell DEF Control
  <1>2. Dir(q) \in dirs' /\ Dir(q) \notin removed' /\ ~(work.encrypt /\ Shared(q))
    BY <1>1 DEF Settled
  <1>3. PICK f \in files : /\ f.dir = Dir(q) /\ f.of = <<q, n>> /\ f.upto = u
                           /\ work.encrypt => f.form = Form(q)
    BY DEF Stored
  <1>4. f.of[1] = q /\ f.of[2] = n /\ f.of[2] # 0
    BY <1>3
  <1>5. CASE q # r
    <2>1. f \in files'
      BY <1>2, <1>3, <1>4, <1>5, OthersFilesStay
    <2>2. Form(q)' = Form(q)
      BY <1>1, <1>5, Frame DEF Form
    <2> QED BY <1>1, <1>3, <2>1, <2>2 DEF Stored
  <1>6. CASE q = r
    <2>1. ~Refuse(r)
      BY <1>6, Transitions
    <2>2. stage'[r] \notin {"failed", "failing"} /\ f.dir \in dirs' \ removed'
      BY <1>2, <1>3, <1>6
    <2>3. PICK g \in files' :
             /\ g.dir = f.dir /\ g.name = f.name /\ g.of = f.of /\ g.form = Later(r, f)
             /\ g.upto = IF Receive(r) /\ Arrives(r, f) THEN got[r] + 1 ELSE f.upto
      BY <1>4, <1>6, <2>1, <2>2, OwnFilesStay
    <2>4. g.upto = u
      BY <1>3, <1>4, <1>6, <2>3 DEF Arrives
    <2>5. ASSUME work.encrypt PROVE g.form = Form(r)'
      <3>1. f.form = Form(r)
        BY <1>3, <1>6, <2>5
      <3>2. CASE Seal(r)
        <4>1. stage[r] = "seal" /\ stage'[r] = "register"
          BY <1>6, <3>2, Transitions
        <4> QED BY <1>3, <1>6, <2>3, <2>5, <3>1, <3>2, <4>1 DEF Form, Later, Sealing
      <3>3. CASE ~Seal(r)
        <4>1. g.form = Form(r)
          BY <2>3, <3>1, <3>3 DEF Later
        <4>2. ~Clean(r) \/ stage'[r] # "ok"
          <5> SUFFICES ASSUME Clean(r), stage'[r] = "ok" PROVE FALSE
            OBVIOUS
          <5>1. stage'[r] # "seal" /\ Dir(r) \in dirs'
            BY <1>2, <1>6
          <5>2. stage \in [Requests -> Stages] /\ r \in Requests
            BY WorkloadIsWell DEF Control
          <5>3. ~Continue(r, "seal")
            BY <5>1, <5>2 DEF Continue
          <5> QED BY <5>1, <5>3, CleanReduces
        <4>3. stage'[r] \in Sealing <=> stage[r] \in Sealing
          <5>1. Clean(r) => stage'[r] = "seal" /\ stage[r] = "clean"
            BY <4>2, Transitions
          <5> QED BY <1>6, <3>3, <5>1, StagesBefore DEF Sealing
        <4> QED BY <4>1, <4>3 DEF Form
      <3> QED BY <3>2, <3>3
    <2> QED BY <1>1, <1>3, <1>6, <2>3, <2>4, <2>5 DEF Stored
  <1> QED BY <1>5, <1>6

\* A step of a request keeps what is stored of every upload.
LEMMA UploadsKept ==
  ASSUME Control, Disk, Present, Kept, NEW r \in Active, Step(r)
  PROVE  Kept'
  <1>1. /\ Active \subseteq Requests /\ Active' = Active /\ work' = work /\ work \in Workloads
        /\ \A q : Uploads(q)' = Uploads(q) /\ Dir(q)' = Dir(q)
        /\ stage \in [Requests -> Stages] /\ next \in [Requests -> Nat \ {0}]
        /\ got \in [Requests -> Nat] /\ r \in Requests
    BY Frame, SameWork, WorkloadIsWell DEF Control
  <1>2. SUFFICES ASSUME NEW q \in Active, Settled(q)', stage'[q] \notin {"new", "failing", "failed"}
                 PROVE  UploadsStored(q)'
    BY <1>1 DEF Kept
  <1>3. CASE q = r /\ Begin(r)
    <2>1. next'[q] = 1 /\ stage'[q] = "open"
      <3>1. next[r] = 1
        BY <1>1, <1>3, Transitions DEF Control
      <3> QED BY <1>3, <3>1, Transitions DEF Begin, uploadVars
    <2> QED BY <1>3, <2>1 DEF UploadsStored
  <1>4. CASE ~(q = r /\ Begin(r))
    <2>1. Settled(q) /\ stage[q] \notin {"new", "failing", "failed"}
      BY <1>2, <1>4, SettledBefore
    <2>2. /\ \A n \in 1..(next[q] - 1) : Stored(q, n, Len(Uploads(q)[n].events), Form(q))
          /\ stage[q] = "reading" => Stored(q, next[q], got[q], "plain")
      BY <2>1 DEF Kept, UploadsStored
    <2>3. next[q] \in Nat \ {0}
      BY <1>1
    <2>4. \A n \in 1..(next[q] - 1) : Stored(q, n, Len(Uploads(q)[n].events), Form(q))'
      <3> SUFFICES ASSUME NEW n \in 1..(next[q] - 1)
                   PROVE  Stored(q, n, Len(Uploads(q)[n].events), Form(q))'
        OBVIOUS
      <3>1. n \in Nat \ {0} /\ n # next[q]
        BY <2>3
      <3>2. Stored(q, n, Len(Uploads(q)[n].events), Form(q))
        BY <2>2
      <3> DEFINE u == Len(Uploads(q)[n].events)
      <3>3. u' = u
        BY <1>1
      <3> HIDE DEF u
      <3> QED BY <1>2, <3>1, <3>2, <3>3, StoredStays DEF u
    <2>5. CASE q # r
      <3>1. next'[q] = next[q] /\ stage'[q] = stage[q] /\ got'[q] = got[q]
        BY <1>1, <2>5, Frame
      <3>2. ASSUME stage[q] = "reading" PROVE Stored(q, next[q], got[q], "plain")'
        <4>1. Form(q) = "plain" /\ Form(q)' = "plain"
          BY <3>1, <3>2 DEF Form, Sealing
        <4> DEFINE n == next[q]
                   u == got[q]
        <4>2. n' = n /\ u' = u /\ n \in Nat \ {0}
          BY <2>3, <3>1
        <4>3. Stored(q, n, u, Form(q))
          BY <2>2, <3>2, <4>1
        <4> HIDE DEF n, u
        <4>4. Stored(q, n, u, Form(q))'
          BY <1>2, <2>5, <4>2, <4>3, StoredStays
        <4> QED BY <4>1, <4>2, <4>4 DEF n, u, Stored
      <3> QED BY <2>4, <3>1, <3>2 DEF UploadsStored
    <2>6. CASE q = r
      <3>1. CASE Complete(r)
        <4>1. /\ next'[r] = next[r] + 1 /\ stage'[r] = "open" /\ stage[r] = "reading"
              /\ got[r] = Len(Content(r)) /\ files' = files
          BY <1>1, <3>1 DEF Complete, Continue, diskVars
        <4>2. Stored(r, next[r], Len(Uploads(r)[next[r]].events), "plain")
          BY <2>2, <2>6, <4>1 DEF Content
        <4>3. Form(r)' = "plain"
          BY <4>1 DEF Form, Sealing
        <4>4. (\E f \in files' : /\ f.dir = Dir(r) /\ f.of = <<r, next[r]>>
                                 /\ f.upto = Len(Uploads(r)[next[r]].events)
                                 /\ work.encrypt => f.form = "plain")
          BY <4>1, <4>2 DEF Stored
        <4>5. ASSUME NEW n \in 1..(next'[r] - 1), n \notin 1..(next[r] - 1)
              PROVE  n = next[r]
          BY <2>3, <2>6, <4>1, <4>5
        <4>6. ASSUME NEW n, n = next[r] PROVE Stored(r, n, Len(Uploads(r)[n].events), Form(r))'
          BY <1>1, <4>3, <4>4, <4>6 DEF Stored
        <4> QED BY <2>4, <2>6, <4>1, <4>5, <4>6 DEF UploadsStored
      <3>2. CASE ~Complete(r)
        <4>1. next' = next
          BY <3>2, NextStays
        <4>2. ASSUME stage'[r] = "reading" PROVE Stored(r, next[r], got[r], "plain")'
          <5>1. CASE Open(r)
            <6>1. NewFile(r) \in files' /\ got'[r] = 0
              BY <1>1, <4>2, <5>1 DEF Open, NewFile, Continue
            <6> QED BY <1>1, <4>1, <6>1 DEF NewFile, Stored
          <5>2. CASE Receive(r)
            <6>1. /\ stage[r] = "reading" /\ got'[r] = got[r] + 1 /\ stage' = stage
              BY <1>1, <5>2 DEF Receive
            <6>2. PICK f \in files : /\ f.dir = Dir(r) /\ f.of = <<r, next[r]>>
                                     /\ f.upto = got[r]
                                     /\ work.encrypt => f.form = "plain"
              BY <2>2, <2>6, <6>1 DEF Stored
            <6>3. f.form = "plain" /\ f \in StoredFile
              <7>1. f \in StoredFile /\ (f.form = "sealed" => work.encrypt)
                BY DEF Disk, FileIsWell
              <7> QED BY <6>2, <7>1 DEF StoredFile
            <6>4. Longer(r, f) \in files'
              BY <5>2 DEF Receive, Longer, Arrives
            <6>5. /\ Longer(r, f).dir = f.dir /\ Longer(r, f).of = f.of
                  /\ Longer(r, f).form = "plain" /\ Longer(r, f).upto = got[r] + 1
              BY <6>2, <6>3 DEF Longer, StoredFile, Arrives
            <6> HIDE DEF Longer
            <6> QED BY <1>1, <4>1, <6>1, <6>2, <6>4, <6>5 DEF Stored
          <5> QED BY <4>2, <5>1, <5>2, StagesBefore
        <4> QED BY <2>4, <2>6, <4>1, <4>2 DEF UploadsStored
      <3> QED BY <3>1, <3>2
    <2> QED BY <2>5, <2>6
  <1> QED BY <1>3, <1>4

\* When the analysis starts, it reads all that was uploaded of the kind it reads,
\* but for the files it cuts short.
LEMMA StartReadsAll ==
  ASSUME Control, Disk, Kept, NEW r \in Active, Start(r), stage'[r] = "match",
         Dir(r) \notin removed, ~(work.encrypt /\ Shared(r)), MaxEvents = 0
  PROVE  UploadsRead(r)'
  <1>1. /\ r \in Requests /\ stage[r] = "open" /\ next[r] = Len(Uploads(r)) + 1 /\ work' = work
    <2>1. /\ stage \in [Requests -> Stages] /\ next[r] \in Nat /\ Len(Uploads(r)) \in Nat
          /\ next[r] <= Len(Uploads(r)) + 1 /\ r \in Requests
      BY WorkloadIsWell DEF Control
    <2>2. stage[r] = "open" /\ next[r] > Len(Uploads(r)) /\ work' = work
      BY DEF Start, Continue
    <2> QED BY <2>1, <2>2
  <1>2. PICK upto \in Readings(r) : Reads(r, upto)
    <2>1. stage \in [Requests -> Stages]
      BY DEF Control
    <2> QED BY <1>1, <2>1 DEF Start, Continue
  <1>12. /\ read'[r] = Collected(Input(r, upto))
         /\ skipped'[r] = {f.of : f \in CutShort(r, upto)}
    BY <1>1, <1>2 DEF Reads, Control
  <1>3. UploadsStored(r)
    <2>1. Settled(r)
      BY <1>1 DEF Disk, Begun, Settled
    <2> QED BY <1>1, <2>1 DEF Kept
  <1>4. SUFFICES ASSUME NEW n \in DOMAIN Uploads(r), Uploads(r)[n].evtx = Converts(r),
                        <<r, n>> \notin skipped'[r],
                        NEW i \in DOMAIN Uploads(r)[n].events
                 PROVE  \E j \in DOMAIN Collected(Input(r, upto)) :
                          Key(Collected(Input(r, upto))[j]) = Key(Uploads(r)[n].events[i])
    <2>1. Uploads(r)' = Uploads(r) /\ Converts(r)' = Converts(r)
      BY <1>1 DEF Uploads, Converts
    <2> QED BY <1>12, <2>1 DEF UploadsRead
  <1>5. /\ n \in 1..(next[r] - 1) /\ n # 0
        /\ DOMAIN Uploads(r)[n].events = 1..Len(Uploads(r)[n].events)
    <2>1. Uploads(r) \in Seq(Upload) /\ Uploads(r)[n] \in Upload
      BY WorkloadIsWell DEF Control
    <2>2. Uploads(r)[n].events \in Seq(Record)
      BY <2>1 DEF Upload
    <2>3. n \in 1..Len(Uploads(r)) /\ Len(Uploads(r)) \in Nat
      BY <2>1
    <2> QED BY <1>1, <2>2, <2>3
  <1>6. Form(r) = "plain"
    BY <1>1 DEF Form, Sealing
  <1>7. PICK f \in files : /\ f.dir = Dir(r) /\ f.of = <<r, n>>
                           /\ f.upto = Len(Uploads(r)[n].events)
                           /\ work.encrypt => f.form = "plain"
    BY <1>3, <1>5, <1>6 DEF UploadsStored, Stored
  <1>8. f \in Chosen(r)
    <2>1. f \in StoredFile /\ (f.form = "sealed" => work.encrypt)
      BY DEF Disk, FileIsWell
    <2>2. f.form = "plain"
      BY <1>7, <2>1 DEF StoredFile
    <2>3. f.name # ReportName
      BY <1>5, <1>7 DEF Disk, FileIsWell
    <2>4. Evtx(f) = Converts(r)
      BY <1>4, <1>7 DEF Evtx, Uploads
    <2> QED BY <1>7, <2>2, <2>3, <2>4 DEF Chosen, Plain
  <1>9. upto[f] = f.upto
    <2>1. f \notin CutShort(r, upto)
      BY <1>4, <1>7, <1>12
    <2>2. upto \in [Chosen(r) -> UNION {0..g.upto : g \in Chosen(r)}] /\ upto[f] <= f.upto
      BY <1>8 DEF Readings
    <2>3. \A g \in Chosen(r) : g.upto \in Nat
      BY DEF Chosen, Plain, Disk, FileIsWell, StoredFile
    <2>4. upto[f] \in Nat /\ f.upto \in Nat
      BY <1>8, <2>2, <2>3
    <2> QED BY <1>8, <2>1, <2>2, <2>4 DEF CutShort
  <1>10. PICK k \in DOMAIN Input(r, upto) : Input(r, upto)[k] = EventAt(<<f, i>>)
    BY <1>4, <1>5, <1>7, <1>8, <1>9, InputIs
  <1>11. Input(r, upto)[k] = Uploads(r)[n].events[i]
    BY <1>7, <1>10 DEF EventAt, Uploads
  <1>13. Input(r, upto) \in Seq(Record)
    BY InputIs
  <1> QED BY <1>10, <1>11, <1>13, CollectedIs

\* A step of a request keeps AllRead.
LEMMA AllReadKept ==
  ASSUME Control, Disk, Kept, AllRead, NEW r \in Active, Step(r)
  PROVE  AllRead'
  <1>1. /\ Active \subseteq Requests /\ Active' = Active /\ work' = work
        /\ \A q : /\ Dir(q)' = Dir(q) /\ Uploads(q)' = Uploads(q) /\ Shared(q)' = Shared(q)
                  /\ Converts(q)' = Converts(q)
        /\ removed \subseteq removed'
    <2>1. work' = work
      BY Frame
    <2> QED BY <2>1, SameWork, WorkloadIsWell, DirsGo DEF Control, Converts
  <1>2. SUFFICES ASSUME NEW q \in Active, stage'[q] \in InUse \union Sealing,
                        Dir(q) \notin removed, ~(work.encrypt /\ Shared(q)), MaxEvents = 0
                 PROVE  UploadsRead(q)'
    BY <1>1 DEF AllRead
  <1>3. ASSUME stage[q] \in InUse \union Sealing, read'[q] = read[q], skipped'[q] = skipped[q]
        PROVE  UploadsRead(q)'
    <2>1. UploadsRead(q)
      BY <1>2, <1>3 DEF AllRead
    <2> QED BY <1>1, <1>3, <2>1 DEF UploadsRead
  <1>4. CASE q # r
    BY <1>1, <1>2, <1>3, <1>4, Frame
  <1>5. CASE q = r /\ Start(r)
    <2>1. stage'[r] = "match"
      BY <1>2, <1>5, Transitions DEF InUse, Sealing
    <2> QED BY <1>2, <1>5, <2>1, StartReadsAll
  <1>6. CASE q = r /\ ~Start(r)
    BY <1>2, <1>3, <1>6, StagesBefore, ReadStays
  <1> QED BY <1>4, <1>5, <1>6

-----------------------------------------------------------------------------
(* Deleted cases.                                                          *)

\* A case is deleted between the steps of the requests, with its directory, or
\* a part of that, and nothing else.
LEMMA DeletesIs ==
  ASSUME Control, History, NEW row \in rows, DeleteCase(row)
  PROVE  /\ \E p \in Active : row.dir = Dir(p)
         /\ work' = work /\ turn' = turn /\ stage' = stage
         /\ next' = next /\ path' = path /\ got' = got /\ created' = created
         /\ read' = read /\ skipped' = skipped /\ pending' = pending /\ found' = found
         /\ blocked' = blocked /\ (faults' = faults \/ Fault)
         /\ rows' \subseteq rows /\ Reduces(row.dir)
         /\ \A r \in Active : stage[r] \notin InUse
  <1>1. turn = NoReq /\ NoReq \notin Requests /\ Active \subseteq Requests
    BY WorkloadIsWell DEF DeleteCase, Control
  <1>2. \A r \in Active : stage[r] \notin InUse
    BY <1>1 DEF Control, InUse
  <1>3. \E p \in Active : row.dir = Dir(p)
    BY DEF History, Row
  <1>4. /\ work' = work /\ turn' = turn /\ stage' = stage
        /\ next' = next /\ path' = path /\ got' = got /\ created' = created
        /\ read' = read /\ skipped' = skipped /\ pending' = pending /\ found' = found
        /\ blocked' = blocked
    BY DEF DeleteCase, loopVars, uploadVars, analysisVars
  <1>5. /\ rows' \subseteq rows /\ (faults' = faults \/ Fault)
        /\ Removes(row.dir) \/ RemovedInPart(row.dir)
    BY DEF DeleteCase, Deletes, KeepsRow
  <1>6. Reduces(row.dir)
    BY <1>5, RemovalReduces
  <1> QED BY <1>2, <1>3, <1>4, <1>5, <1>6

\* The deletion of a case keeps Disk.
LEMMA DeletionKeepsDisk ==
  ASSUME Control, History, Disk, NEW row \in rows, DeleteCase(row)
  PROVE  Disk'
  <1>1. /\ \E p \in Active : row.dir = Dir(p)
        /\ work' = work /\ stage' = stage /\ path' = path /\ created' = created
        /\ blocked' = blocked /\ Reduces(row.dir)
        /\ \A r \in Active : stage[r] \notin InUse
    BY DeletesIs
  <1>9. /\ files' \subseteq files /\ dirs' \subseteq dirs /\ removed \subseteq removed'
        /\ \A x \in dirs : x \in dirs' \/ x \in removed'
        /\ \A f \in files' : f.dir \in dirs => f.dir \in dirs'
        /\ removed' \subseteq removed \union {row.dir}
    BY <1>1, ReductionSpares
  <1>2. /\ Active' = Active
        /\ \A q : /\ Dir(q)' = Dir(q) /\ Uploads(q)' = Uploads(q) /\ CallerDir(q)' = CallerDir(q)
                  /\ Shared(q)' = Shared(q) /\ Held(q)' = Held(q)
                  /\ (Begun(q))' = Begun(q) /\ Left(q)' = Left(q)
    <2>1. \A q : /\ Held(q)' = Held(q) /\ (Begun(q))' = Begun(q) /\ Left(q)' = Left(q)
                 /\ CallerDir(q)' = CallerDir(q)
      BY <1>1 DEF Held, Begun, Left, CallerDir
    <2> QED BY <1>1, <2>1, SameWork
  <1>3. IsFiniteSet(files')
    <2>1. files' \in SUBSET files /\ IsFiniteSet(files)
      BY <1>9 DEF Disk
    <2> QED BY <2>1, FS_Subset
  <1>4. ASSUME NEW f \in files' PROVE FileIsWell(f)'
    <2>1. f \in files /\ FileIsWell(f)
      BY <1>9 DEF Disk
    <2>3. f.dir \in dirs'
      BY <1>9, <2>1 DEF FileIsWell
    <2>2. StoredFile' = StoredFile
      BY <1>1 DEF StoredFile, Active, Dir, CallerDir
    <2> QED BY <1>1, <1>2, <2>1, <2>2, <2>3 DEF FileIsWell
  <1>5. NamesAreUnique'
    BY <1>9 DEF Disk, NamesAreUnique
  <1>6. NamesAreTaken'
    BY <1>1, <1>2 DEF Disk, NamesAreTaken
  <1>7. ASSUME NEW q \in Active PROVE Housed(q)'
    <2>1. Housed(q) /\ stage[q] \notin InUse
      BY <1>1 DEF Disk, Housed
    <2>2. Dir(q) \in dirs \union removed => Dir(q) \in dirs' \union removed'
      BY <1>9
    <2> QED BY <1>1, <1>2, <2>1, <2>2 DEF Housed
  <1>8. (removed \subseteq {Dir(q) : q \in Active})'
    <2>1. {Dir(q) : q \in Active}' = {Dir(q) : q \in Active}
      BY <1>1 DEF Active, Dir, CallerDir
    <2> QED BY <1>1, <1>9, <2>1 DEF Disk
  <1> QED BY <1>2, <1>3, <1>4, <1>5, <1>6, <1>7, <1>8 DEF Disk, Housed

\* The deletion of a case takes the uploads of nobody whose directory stays.
LEMMA DeletionKeepsUploads ==
  ASSUME Control, History, Disk, Present, Kept, AllRead, NEW row \in rows, DeleteCase(row)
  PROVE  Present' /\ Kept' /\ AllRead'
  <1>1. /\ work' = work /\ stage' = stage /\ path' = path /\ created' = created
        /\ next' = next /\ got' = got /\ read' = read /\ skipped' = skipped
        /\ Reduces(row.dir)
    BY DeletesIs
  <1>6. /\ dirs' \subseteq dirs /\ removed \subseteq removed'
        /\ \A f \in files : f.dir \notin removed' => f \in files'
    BY <1>1, ReductionSpares
  <1>2. /\ Active' = Active
        /\ \A q : /\ Dir(q)' = Dir(q) /\ Uploads(q)' = Uploads(q) /\ Converts(q)' = Converts(q)
                  /\ Shared(q)' = Shared(q) /\ Held(q)' = Held(q) /\ Form(q)' = Form(q)
                  /\ (Begun(q))' = Begun(q)
    <2>1. \A q : Held(q)' = Held(q) /\ (Begun(q))' = Begun(q) /\ Form(q)' = Form(q)
      BY <1>1 DEF Held, Begun, Form
    <2> QED BY <1>1, <2>1, SameWork
  <1>3. Present'
    <2> SUFFICES ASSUME NEW q \in Active, Begun(q), Dir(q) \notin removed', ~work.encrypt,
                        NEW n \in Held(q)
                 PROVE  \E f \in files' : f.dir = Dir(q) /\ f.name = n /\ f.of[1] = q
      BY <1>1, <1>2 DEF Present
    <2>1. PICK f \in files : f.dir = Dir(q) /\ f.name = n /\ f.of[1] = q
      BY <1>6 DEF Present
    <2> QED BY <1>6, <2>1
  <1>4. Kept'
    <2> SUFFICES ASSUME NEW q \in Active, Settled(q)',
                        stage[q] \notin {"new", "failing", "failed"}
                 PROVE  UploadsStored(q)'
      BY <1>1, <1>2 DEF Kept
    <2>1. Settled(q) /\ Dir(q) \notin removed'
      BY <1>1, <1>2, <1>6 DEF Settled
    <2>2. UploadsStored(q)
      BY <2>1 DEF Kept
    <2> QED BY <1>1, <1>2, <1>6, <2>1, <2>2 DEF UploadsStored, Stored
  <1>5. AllRead'
    <2> SUFFICES ASSUME NEW q \in Active, stage[q] \in InUse \union Sealing,
                        Dir(q) \notin removed', ~(work.encrypt /\ Shared(q)), MaxEvents = 0
                 PROVE  UploadsRead(q)'
      BY <1>1, <1>2 DEF AllRead
    <2>1. UploadsRead(q)
      BY <1>6 DEF AllRead
    <2> QED BY <1>1, <1>2, <2>1 DEF UploadsRead
  <1> QED BY <1>3, <1>4, <1>5

\* The deletion of a case keeps the rest of the invariant.
LEMMA DeletionKeepsRest ==
  ASSUME Control, History, Evaluation, FailuresLeaveNothing, NEW row \in rows, DeleteCase(row)
  PROVE  Control' /\ History' /\ Evaluation' /\ FailuresLeaveNothing'
  <1>1. /\ work' = work /\ turn' = turn /\ stage' = stage
        /\ next' = next /\ path' = path /\ got' = got /\ created' = created
        /\ read' = read /\ skipped' = skipped /\ pending' = pending /\ found' = found
        /\ blocked' = blocked /\ rows' \subseteq rows
    BY DeletesIs
  <1>7. dirs' \subseteq dirs /\ files' \subseteq files
    BY DeletesIs, ReductionSpares
  <1>8. faults' \in 0..MaxFaults
    <2>1. faults' = faults \/ Fault
      BY DeletesIs
    <2>2. faults \in 0..MaxFaults /\ MaxFaults \in Nat
      BY ServiceAssumption DEF Control
    <2> QED BY <2>1, <2>2 DEF Fault
  <1>2. /\ Active' = Active
        /\ \A q : /\ Dir(q)' = Dir(q) /\ CallerDir(q)' = CallerDir(q) /\ Shared(q)' = Shared(q)
                  /\ Row(q)' = Row(q) /\ ControlOf(q)' = ControlOf(q)
    <2>1. \A q : Row(q)' = Row(q)
      BY <1>1 DEF Row, Dir, CallerDir
    <2>2. \A q : ControlOf(q)' = ControlOf(q)
      BY <1>1 DEF ControlOf, Active, Uploads, Content, CallerDir, Again
    <2> QED BY <1>1, <2>1, <2>2, SameWork
  <1>3. Control'
    <2>1. ControlTypes'
      BY <1>1, <1>8, ControlParts DEF ControlTypes, Active
    <2> QED BY <1>2, <2>1, ControlParts DEF Control, ControlTypes, ControlOf
  <1>4. History'
    BY <1>1, <1>2 DEF History
  <1>5. Evaluation'
    BY <1>1, ZenonT(40) DEF Evaluation
  <1>6. FailuresLeaveNothing'
    BY <1>1, <1>2, <1>7 DEF FailuresLeaveNothing
  <1> QED BY <1>3, <1>4, <1>5, <1>6

-----------------------------------------------------------------------------
(* The service.                                                            *)

\* The invariant holds at the start.
LEMMA ServiceStarts ==
  ASSUME Init
  PROVE  ServiceInv
  <1>1. Active \subseteq Requests /\ NoReq \notin Requests /\ work \in Workloads
        /\ \A r \in Active : Len(Uploads(r)) \in Nat
    BY WorkloadIsWell DEF Init
  <1>2. ASSUME NEW r \in Requests
        PROVE  /\ stage[r] = IF r \in Active THEN "new" ELSE "none"
               /\ next[r] = 1 /\ path[r] = <<0, 0>> /\ got[r] = 0 /\ created[r] = {}
               /\ read[r] = <<>> /\ skipped[r] = {} /\ pending[r] = {} /\ found[r] = {}
    BY DEF Init, ReportName
  <1>3. ControlTypes
    <2>1. stage \in [Requests -> Stages]
      BY DEF Init, Stages
    <2>2. /\ next \in [Requests -> Nat \ {0}] /\ got \in [Requests -> Nat]
          /\ path \in [Requests -> Nat \X Nat] /\ created \in [Requests -> SUBSET (Nat \X Nat)]
      BY DEF Init, ReportName
    <2>3. /\ DOMAIN read = Requests /\ DOMAIN pending = Requests /\ DOMAIN found = Requests
          /\ skipped \in [Requests -> SUBSET (Active \X Nat)] /\ turn = NoReq /\ blocked = {}
      BY DEF Init
    <2>4. faults \in 0..MaxFaults
      BY ServiceAssumption DEF Init
    <2> QED BY <1>1, <2>1, <2>2, <2>3, <2>4 DEF ControlTypes
  <1>4. ASSUME NEW q \in Requests PROVE ControlOf(q)
    <2>1. turn # q
      BY <1>1 DEF Init
    <2> QED BY <1>1, <1>2, <2>1 DEF ControlOf, InUse, Sealing
  <1>5. Control
    BY <1>3, <1>4, ControlParts
  <1>6. files = {} /\ rows = {} /\ removed = {} /\ dirs = {}
    BY DEF Init
  <1>7. \A r \in Active : stage[r] = "new"
    BY <1>1, <1>2
  <1>8. Disk
    <2>1. NamesAreTaken
      BY <1>2, FS_EmptySet DEF NamesAreTaken, Held
    <2> QED BY <1>6, <1>7, <2>1, FS_EmptySet DEF Disk, NamesAreUnique, InUse, Begun
  <1>9. Evaluation
    <2>1. <<>> \in Seq(Record)
      OBVIOUS
    <2>2. \A r \in Requests : stage[r] \notin {"threads", "correlate"}
      BY <1>2
    <2> QED BY <1>2, <2>1, <2>2 DEF Evaluation
  <1>10. History /\ Present /\ Kept /\ AllRead /\ FailuresLeaveNothing
    BY <1>6, <1>7 DEF History, Present, Kept, AllRead, FailuresLeaveNothing, Begun, InUse, Sealing
  <1> QED BY <1>5, <1>8, <1>9, <1>10 DEF ServiceInv

\* The invariant is about the variables of the service only.
LEMMA ServiceStutters ==
  ASSUME ServiceInv, UNCHANGED vars
  PROVE  ServiceInv'
  <1>1. /\ work' = work /\ turn' = turn /\ stage' = stage
        /\ next' = next /\ path' = path /\ got' = got /\ created' = created
        /\ read' = read /\ skipped' = skipped /\ pending' = pending /\ found' = found
        /\ blocked' = blocked /\ faults' = faults
        /\ rows' = rows /\ dirs' = dirs /\ files' = files /\ removed' = removed
    BY DEF vars, loopVars, uploadVars, analysisVars, diskVars
  <1>2. /\ Active' = Active /\ StoredFile' = StoredFile
        /\ {Dir(q) : q \in Active}' = {Dir(q) : q \in Active}
        /\ \A q : /\ Dir(q)' = Dir(q) /\ Uploads(q)' = Uploads(q) /\ CallerDir(q)' = CallerDir(q)
                  /\ Converts(q)' = Converts(q) /\ Shared(q)' = Shared(q)
    BY <1>1, SameWork DEF StoredFile, Active, Dir, CallerDir
  <1>3. \A q : /\ Held(q)' = Held(q) /\ Form(q)' = Form(q) /\ (Begun(q))' = Begun(q)
               /\ Left(q)' = Left(q)
               /\ Row(q)' = Row(q) /\ ControlOf(q)' = ControlOf(q) /\ Settled(q)' = Settled(q)
    <2>1. \A q : /\ Held(q)' = Held(q) /\ Form(q)' = Form(q) /\ (Begun(q))' = Begun(q)
                 /\ Left(q)' = Left(q)
      BY <1>1 DEF Held, Form, Begun, Left, CallerDir
    <2>2. \A q : Row(q)' = Row(q) /\ Settled(q)' = Settled(q)
      BY <1>1, <1>2 DEF Row, Settled
    <2>3. \A q : ControlOf(q)' = ControlOf(q)
      BY <1>1 DEF ControlOf, Active, Uploads, Content, CallerDir, Again
    <2> QED BY <2>1, <2>2, <2>3
  <1>4. Control'
    <2>1. ControlTypes' = ControlTypes
      BY <1>1 DEF ControlTypes, Active
    <2> QED BY <1>2, <1>3, <2>1, ControlParts DEF ServiceInv, Control, ControlTypes, ControlOf
  <1>5. Disk'
    <2>1. \A f : FileIsWell(f)' = FileIsWell(f)
      BY <1>1, <1>2, <1>3 DEF FileIsWell
    <2>2. NamesAreUnique' /\ NamesAreTaken'
      BY <1>1, <1>3 DEF ServiceInv, Disk, NamesAreUnique, NamesAreTaken
    <2> QED BY <1>1, <1>2, <1>3, <2>1, <2>2 DEF ServiceInv, Disk
  <1>6. History' /\ Evaluation' /\ FailuresLeaveNothing'
    <2>1. History'
      BY <1>1, <1>2, <1>3 DEF ServiceInv, History
    <2>2. Evaluation'
      BY <1>1, ZenonT(40) DEF ServiceInv, Evaluation
    <2>3. FailuresLeaveNothing'
      BY <1>1, <1>2, <1>3 DEF ServiceInv, FailuresLeaveNothing
    <2> QED BY <2>1, <2>2, <2>3
  <1>7. Present'
    BY <1>1, <1>2, <1>3 DEF ServiceInv, Present
  <1>8. Kept'
    <2>1. \A q : UploadsStored(q)' = UploadsStored(q)
      BY <1>1, <1>2, <1>3 DEF UploadsStored, Stored
    <2> QED BY <1>1, <1>2, <1>3, <2>1 DEF ServiceInv, Kept
  <1>9. AllRead'
    <2>1. \A q : UploadsRead(q)' = UploadsRead(q)
      BY <1>1, <1>2 DEF UploadsRead
    <2> QED BY <1>1, <1>2, <2>1 DEF ServiceInv, AllRead
  <1> QED BY <1>4, <1>5, <1>6, <1>7, <1>8, <1>9 DEF ServiceInv

\* Every step keeps the invariant.
LEMMA ServiceInvKept ==
  ASSUME ServiceInv, [Next]_vars
  PROVE  ServiceInv'
  <1> USE DEF ServiceInv
  <1>1. CASE \E r \in Active : Step(r)
    <2>1. PICK r \in Active : Step(r)
      BY <1>1
    <2> QED BY <2>1, ControlKept, DiskKept, HistoryKept, EvaluationKept, PresentKept, UploadsKept,
              AllReadKept, FailuresKept
  <1>2. CASE \E row \in rows : DeleteCase(row)
    <2>1. PICK row \in rows : DeleteCase(row)
      BY <1>2
    <2> QED BY <2>1, DeletionKeepsDisk, DeletionKeepsUploads, DeletionKeepsRest
  <1>3. CASE UNCHANGED vars
    BY <1>3, ServiceStutters
  <1> QED BY <1>1, <1>2, <1>3 DEF Next

\* The inductive invariant of the service, for any requests, workloads, rules and
\* limits (api/services/analysis_service.py): what is known of control, of the files
\* on disk, of the history, of the findings and of what is kept, between any two steps.
THEOREM ServiceInvariant == Spec => []ServiceInv
  BY ServiceStarts, ServiceInvKept, PTL DEF Spec

-----------------------------------------------------------------------------
\* The inductive invariant implies the types and that failures leave nothing.
LEMMA AnalysisInvFollows ==
  ASSUME ServiceInv
  PROVE  TypeOK /\ FailuresLeaveNothing
  <1>1. Control /\ Disk /\ History /\ Evaluation /\ FailuresLeaveNothing
    BY DEF ServiceInv
  <1>2. stage \in [Requests -> Stages] /\ turn \in Active \union {NoReq}
        /\ blocked \subseteq Active /\ faults \in 0..MaxFaults
    BY <1>1 DEF Control
  <1>3. ASSUME NEW r \in Requests
        PROVE  /\ turn = r <=> stage[r] \notin {"none", "new", "reading", "ok", "failed"}
               /\ next[r] \in 1..(IF r \in Active THEN Len(Uploads(r)) + 1 ELSE 1)
               /\ created[r] \subseteq Nat \X Nat /\ path[r] \in Nat \X Nat /\ got[r] \in Nat
               /\ pending[r] \subseteq Chunks(read[r]) /\ skipped[r] \subseteq Active \X Nat
    <2>1. /\ turn = r <=> stage[r] \notin {"none", "new", "reading", "ok", "failed"}
          /\ created[r] \subseteq Nat \X Nat /\ path[r] \in Nat \X Nat /\ got[r] \in Nat
          /\ skipped[r] \subseteq Active \X Nat
      BY <1>1 DEF Control
    <2>2. next[r] \in Nat \ {0} /\ (r \in Active => next[r] <= Len(Uploads(r)) + 1)
          /\ (r \notin Active => next[r] = 1)
      BY <1>1 DEF Control
    <2>3. r \in Active => Len(Uploads(r)) \in Nat
      BY <1>1, WorkloadIsWell DEF Control
    <2>4. next[r] \in 1..(IF r \in Active THEN Len(Uploads(r)) + 1 ELSE 1)
      BY <2>2, <2>3
    <2>5. pending[r] \subseteq Chunks(read[r])
      BY <1>1 DEF Evaluation
    <2> QED BY <2>1, <2>4, <2>5
  <1>4. ASSUME NEW f \in files
        PROVE  /\ f.dir \in dirs /\ f.name \in Nat \X Nat /\ f.form \in {"plain", "sealed"}
               /\ f.of \in Active \X Nat /\ f.upto \in Nat
    BY <1>1 DEF Disk, FileIsWell, StoredFile
  <1>5. \A row \in rows : row.by \in Active /\ row.dir = Dir(row.by)
    BY <1>1 DEF History, Row
  <1>6. removed \subseteq {Dir(r) : r \in Active}
    BY <1>1 DEF Disk
  <1> QED BY <1>1, <1>2, <1>3, <1>4, <1>5, <1>6 DEF TypeOK

\* The inductive invariant implies that the findings are sequential.
LEMMA FindingsFollow ==
  ASSUME ServiceInv
  PROVE  FindingsAreSequential
  <1> DEFINE last(E, i) == {j \in 1..(i - 1) :
                             /\ E[j].id = "4688" /\ E[j].host = E[i].host
                             /\ E[j].pid = E[i].ppid /\ E[j].pid # ""
                             /\ E[j].image # "" /\ Timed(E[j])}
             child(E, i, image) ==
               /\ E[i].id = "4688" /\ Timed(E[i])
               /\ \E j \in last(E, i) : /\ \A l \in last(E, i) : l <= j
                                        /\ E[j].image = image
                                        /\ E[i].t - E[j].t \in 0..ParentWindow
             fired(E) == {x \in Rules \X DOMAIN E :
                            /\ \E n \in DOMAIN x[1].targets : x[1].targets[n] \in E[x[2]].marks
                            /\ x[1].parent = "" \/ child(E, x[2], x[1].parent)}
             keys(E) == {<<x[1].id, Key(E[x[2]]), Matched(x[1], E[x[2]])>> : x \in fired(E)}
  <1>1. SUFFICES ASSUME NEW r \in Active, stage[r] = "correlate"
                 PROVE  /\ {FindingKey(f) : f \in found[r]} = keys(read[r])
                        /\ Cardinality(found[r]) = Cardinality(keys(read[r]))
    BY DEF FindingsAreSequential, Analysed
  <1>2. keys(read[r]) = Expected(read[r])
    <2>1. \A i, image : child(read[r], i, image) <=> Child(read[r], i, image)
      BY DEF Child, Starters
    <2> HIDE DEF child
    <2>2. fired(read[r]) =
            {y \in Rules \X DOMAIN read[r] :
               /\ \E n \in DOMAIN y[1].targets : y[1].targets[n] \in read[r][y[2]].marks
               /\ y[1].parent = "" \/ Child(read[r], y[2], y[1].parent)}
      BY <2>1
    <2> HIDE DEF fired
    <2>3. keys(read[r]) = {KeyOf(x[1], read[r][x[2]]) : x \in fired(read[r])}
      BY DEF KeyOf
    <2> QED BY <2>2, <2>3 DEF Expected
  <1> HIDE DEF keys
  <1>3. /\ read[r] \in Seq(Record)
        /\ Reports(found[r], WithParents(read[r]), DOMAIN read[r])
    BY <1>1, WorkloadIsWell DEF ServiceInv, Control, Evaluation
  <1>4. IsFiniteSet(DOMAIN read[r])
    <2>1. DOMAIN read[r] = 1..Len(read[r]) /\ 1 \in Int /\ Len(read[r]) \in Int
      BY <1>3
    <2> QED BY <2>1, FS_Interval
  <1> QED BY <1>1, <1>2, <1>3, <1>4, ReportsCount, ExpectedKeys

\* However the events fall into chunks and in whatever order the threads finish,
\* the findings are those of one reading of all the events (analyzer.apply_rules_parallel).
THEOREM FindingsInvariant == Spec => []FindingsAreSequential
  BY ServiceInvariant, FindingsFollow, PTL

\* The inductive invariant implies that evidence is kept.
LEMMA EvidenceFollows ==
  ASSUME ServiceInv
  PROVE  EvidenceIsKept
  <1> SUFFICES ASSUME NEW r \in Active, stage[r] = "ok", Dir(r) \in dirs \ removed,
                      ~(work.encrypt /\ Shared(r)), NEW n \in DOMAIN Uploads(r)
               PROVE  /\ \E f \in files : /\ f.dir = Dir(r) /\ f.of = <<r, n>>
                                          /\ f.upto = Len(Uploads(r)[n].events)
                                          /\ work.encrypt => f.form = "sealed"
                      /\ \A i \in DOMAIN Uploads(r)[n].events :
                           /\ MaxEvents = 0 /\ Uploads(r)[n].evtx = Converts(r)
                           /\ <<r, n>> \notin skipped[r]
                           => \E j \in DOMAIN read[r] :
                               Key(read[r][j]) = Key(Uploads(r)[n].events[i])
    BY DEF EvidenceIsKept
  <1>1. Settled(r) /\ Form(r) = "sealed" /\ stage[r] \in InUse \union Sealing
    BY DEF Settled, Form, Sealing
  <1>2. n \in 1..(next[r] - 1)
    <2>1. /\ next[r] = Len(Uploads(r)) + 1 /\ Uploads(r) \in Seq(Upload)
          /\ Len(Uploads(r)) \in Nat
      BY <1>1, WorkloadIsWell DEF ServiceInv, Control
    <2>2. n \in 1..Len(Uploads(r))
      BY <2>1
    <2> QED BY <2>1, <2>2
  <1>3. Stored(r, n, Len(Uploads(r)[n].events), Form(r))
    BY <1>1, <1>2 DEF ServiceInv, Kept, UploadsStored
  <1>4. MaxEvents = 0 => UploadsRead(r)
    BY <1>1 DEF ServiceInv, AllRead
  <1> QED BY <1>1, <1>3, <1>4 DEF Stored, UploadsRead

\* After a successful analysis every uploaded file is there complete, as long as
\* nothing was removed from its directory, and its events were read, but for what could
\* not be read of a file, whatever other requests did in the same
\* directory meanwhile (analysis_service.py, save_uploads and the clean-up).
THEOREM EvidenceInvariant == Spec => []EvidenceIsKept
  BY ServiceInvariant, EvidenceFollows, PTL

\* Under encryption nothing plain is left, from the encryption on, in a directory
\* that nobody shares.
SealedTight ==
  \A r \in Active :
    work.encrypt /\ stage[r] \in Sealing /\ ~Shared(r) => Plain(Dir(r)) = {}

\* Plain files come only from uploads and exports, in the directory of who makes them.
LEMMA PlainOrigins ==
  ASSUME Control, Disk, NEW p \in Active, Step(p), NEW g \in files', g.form = "plain"
  PROVE  \/ \E f \in files : f.form = "plain" /\ f.dir = g.dir
         \/ g.dir = Dir(p) /\ (Open(p) \/ Export(p))
  <1>1. CASE g \in files
    BY <1>1
  <1>2. CASE Open(p) /\ g = NewFile(p)
    BY <1>2 DEF NewFile
  <1>3. CASE Export(p) /\ g = ReportFile(p)
    BY <1>3 DEF ReportFile
  <1>4. ASSUME NEW f \in files, g = Longer(p, f)
        PROVE  f.form = "plain" /\ f.dir = g.dir
    <2>1. f \in StoredFile
      BY DEF Disk, FileIsWell
    <2>2. [f EXCEPT !.upto = got[p] + 1].dir = f.dir /\ [f EXCEPT !.upto = got[p] + 1].form = f.form
      BY <2>1 DEF StoredFile
    <2> QED BY <1>4, <2>2 DEF Longer
  <1>5. \A x \in SealedCopies(Plain(Dir(p))) : x.form = "sealed"
    <2> SUFFICES ASSUME NEW f \in Plain(Dir(p)) PROVE [f EXCEPT !.form = "sealed"].form = "sealed"
      BY DEF SealedCopies
    <2>1. f \in StoredFile
      BY DEF Plain, Disk, FileIsWell
    <2> QED BY <2>1, SealedIs
  <1>6. g \notin SealedCopies(Plain(Dir(p)))
    BY <1>5
  <1> QED BY <1>1, <1>2, <1>3, <1>4, <1>6, FileOrigins

LEMMA SealedTightStep ==
  ASSUME ServiceInv, SealedTight, NEW p \in Active, Step(p)
  PROVE  SealedTight'
  <1>1. /\ Control /\ Disk /\ work' = work /\ Active' = Active /\ p \in Requests
        /\ \A q : Dir(q)' = Dir(q) /\ Shared(q)' = Shared(q)
        /\ stage \in [Requests -> Stages] /\ Active \subseteq Requests
    BY Frame, SameWork, WorkloadIsWell DEF ServiceInv, Control
  <1>2. SUFFICES ASSUME NEW r \in Active, work.encrypt, stage'[r] \in Sealing, ~Shared(r),
                        NEW g \in files', g.form = "plain", g.dir = Dir(r)
                 PROVE  FALSE
    BY <1>1 DEF SealedTight, Plain
  <1>3. CASE stage[r] \in Sealing
    <2>1. ~\E f \in files : f.form = "plain" /\ f.dir = g.dir
      BY <1>2, <1>3 DEF SealedTight, Plain
    <2>2. Dir(p) = Dir(r) /\ (Open(p) \/ Export(p))
      BY <1>1, <1>2, <2>1, PlainOrigins
    <2>3. p = r
      BY <1>2, <2>2 DEF Shared
    <2> QED BY <1>1, <1>3, <2>2, <2>3, Transitions DEF Sealing
  <1>4. CASE stage[r] \notin Sealing
    <2>1. p = r
      BY <1>1, <1>2, <1>4, Frame
    <2>2. CASE Seal(r)
      <3>1. files' = Seals(Dir(r))
        <4>1. stage'[r] # "failing"
          BY <1>2 DEF Sealing
        <4> QED BY <1>1, <1>2, <2>1, <2>2, <4>1 DEF Seal, Continue
      <3>2. g \in SealedCopies(Plain(Dir(r)))
        BY <1>2, <3>1 DEF Seals, Plain
      <3>3. PICK f \in Plain(Dir(r)) : g = [f EXCEPT !.form = "sealed"]
        BY <3>2 DEF SealedCopies
      <3>4. f \in StoredFile
        BY <1>1 DEF Plain, Disk, FileIsWell
      <3> QED BY <1>2, <3>3, <3>4, SealedIs
    <2>3. CASE Clean(r)
      <3>1. stage'[r] # "seal"
        BY <1>2 DEF Sealing
      <3>2. ~Continue(r, "seal")
        BY <1>1, <2>1, <3>1 DEF Continue
      <3> QED BY <1>2, <2>3, <3>2, CleanReduces
    <2> QED BY <1>1, <1>2, <1>4, <2>1, <2>2, <2>3, StagesBefore
  <1> QED BY <1>3, <1>4

LEMMA SealedTightKept ==
  ASSUME ServiceInv, SealedTight, [Next]_vars
  PROVE  SealedTight'
  <1>1. CASE \E p \in Active : Step(p)
    BY <1>1, SealedTightStep
  <1>2. ASSUME work' = work, stage' = stage, files' \subseteq files
        PROVE  SealedTight'
    <2>1. Active' = Active /\ \A q : Dir(q)' = Dir(q) /\ Shared(q)' = Shared(q)
      BY <1>2, SameWork
    <2> QED BY <1>2, <2>1 DEF SealedTight, Plain
  <1>3. CASE \E row \in rows : DeleteCase(row)
    <2>1. PICK row \in rows : DeleteCase(row)
      BY <1>3
    <2>2. work' = work /\ stage' = stage /\ files' \subseteq files
      BY <2>1, DeletesIs, ReductionSpares DEF ServiceInv
    <2> QED BY <1>2, <2>2
  <1>4. CASE UNCHANGED vars
    BY <1>2, <1>4 DEF vars, loopVars, diskVars
  <1> QED BY <1>1, <1>3, <1>4 DEF Next

\* When a request has succeeded under encryption, no file it keeps is plain, although
\* a removal may have failed half way (analysis_service.py:380).
THEOREM EncryptionInvariant == Spec => []NothingStaysPlain
  <1>1. Init => SealedTight
    <2> SUFFICES ASSUME Init PROVE SealedTight
      OBVIOUS
    <2>1. files = {}
      BY DEF Init
    <2> QED BY <2>1 DEF SealedTight, Plain
  <1>2. SealedTight => NothingStaysPlain
    BY DEF SealedTight, NothingStaysPlain, Sealing
  <1> QED BY <1>1, <1>2, ServiceInvariant, SealedTightKept, PTL DEF Spec

\* The state keeps its form, the event loop is busy with a request exactly between
\* two of the points where it gives way, a request that failed has left nothing of
\* itself behind, and one that succeeded under encryption nothing plain
\* (analysis_service.py, the clean-up of a failed analysis and line 380).
THEOREM AnalysisInvariant == Spec => []AnalysisInv
  <1>1. ServiceInv /\ NothingStaysPlain => AnalysisInv
    BY AnalysisInvFollows DEF AnalysisInv
  <1> QED BY <1>1, ServiceInvariant, EncryptionInvariant, PTL

-----------------------------------------------------------------------------
(* The timeline and the chains of rules.                                   *)

\* A timeline holds events that have times, in the order of them.
IsTimeline(line) ==
  /\ line \in Seq(Record)
  /\ \A p \in DOMAIN line : line[p].t \in Nat
  /\ \A p, q \in DOMAIN line : p < q => line[p].t <= line[q].t

\* The timeline of any events is one.
LEMMA TimelineIs ==
  ASSUME NEW events \in Seq(Record)
  PROVE  IsTimeline(Timeline(events))
  <1> DEFINE S == {i \in DOMAIN events : Timed(events[i])}
             R == {p \in S \X S :
                     \/ events[p[1]].t < events[p[2]].t
                     \/ events[p[1]].t = events[p[2]].t /\ p[1] < p[2]}
             s == InOrder(S, R)
             N == Cardinality(S)
  <1>1. DOMAIN events = 1..Len(events) /\ Len(events) \in Nat
    OBVIOUS
  <1>2. \A i \in S : i \in Nat /\ events[i] \in Record /\ events[i].t \in Nat
    <2> SUFFICES ASSUME NEW i \in S PROVE i \in Nat /\ events[i] \in Record /\ events[i].t \in Nat
      OBVIOUS
    <2>1. i \in Nat /\ events[i] \in Record
      BY <1>1
    <2>2. events[i].t \in Nat \union {NoTime} /\ events[i].t # NoTime
      BY <2>1 DEF Record, Timed
    <2> QED BY <2>1, <2>2
  <1>3. IsFiniteSet(S)
    <2>1. IsFiniteSet(1..Len(events))
      BY <1>1, FS_Interval
    <2> QED BY <1>1, <2>1, FS_Subset
  <1>4. \A x, y \in S : <<x, y>> \in R <=> \/ events[x].t < events[y].t
                                           \/ events[x].t = events[y].t /\ x < y
    OBVIOUS
  <1> HIDE DEF S, R
  <1>5. IsOrder(R, S)
    <2>1. ASSUME NEW x \in S, NEW y \in S, x # y PROVE <<x, y>> \in R \/ <<y, x>> \in R
      <3>1. x \in Nat /\ y \in Nat /\ events[x].t \in Nat /\ events[y].t \in Nat
        BY <1>2
      <3>2. events[x].t < events[y].t \/ events[y].t < events[x].t \/ events[x].t = events[y].t
        BY <3>1
      <3>3. x < y \/ y < x
        BY <2>1, <3>1
      <3> QED BY <1>4, <3>2, <3>3
    <2>2. ASSUME NEW x \in S PROVE <<x, x>> \notin R
      <3>1. x \in Nat /\ events[x].t \in Nat
        BY <1>2
      <3>2. ~(events[x].t < events[x].t) /\ ~(x < x)
        BY <3>1
      <3> QED BY <1>4, <3>2
    <2>3. ASSUME NEW x \in S, NEW y \in S, NEW z \in S, <<x, y>> \in R, <<y, z>> \in R
          PROVE  <<x, z>> \in R
      <3>1. /\ x \in Nat /\ y \in Nat /\ z \in Nat
            /\ events[x].t \in Nat /\ events[y].t \in Nat /\ events[z].t \in Nat
        BY <1>2
      <3>2. /\ events[x].t < events[y].t \/ (events[x].t = events[y].t /\ x < y)
            /\ events[y].t < events[z].t \/ (events[y].t = events[z].t /\ y < z)
        BY <1>4, <2>3
      <3>3. events[x].t < events[z].t \/ (events[x].t = events[z].t /\ x < z)
        BY <3>1, <3>2
      <3> QED BY <1>4, <3>3
    <2> QED BY <2>1, <2>2, <2>3 DEF IsOrder
  <1>6. /\ N \in Nat /\ DOMAIN s = 1..N /\ \A n \in 1..N : s[n] \in S
        /\ \A m, n \in 1..N : m < n => <<s[m], s[n]>> \in R
    BY <1>3, <1>5, InOrderSorts
  <1>7. Timeline(events) = [p \in 1..N |-> events[s[p]]]
    BY <1>6 DEF Timeline, S, R
  <1> HIDE DEF s, N
  <1>8. Timeline(events) \in Seq(Record)
    BY <1>2, <1>6, <1>7
  <1>9. \A p \in 1..N : Timeline(events)[p].t = events[s[p]].t /\ events[s[p]].t \in Nat
    BY <1>2, <1>6, <1>7
  <1>10. \A p, q \in 1..N : p < q => events[s[p]].t <= events[s[q]].t
    <2> SUFFICES ASSUME NEW p \in 1..N, NEW q \in 1..N, p < q
                 PROVE  events[s[p]].t <= events[s[q]].t
      OBVIOUS
    <2>1. s[p] \in S /\ s[q] \in S /\ <<s[p], s[q]>> \in R
      BY <1>6
    <2>2. events[s[p]].t < events[s[q]].t \/ events[s[p]].t = events[s[q]].t
      BY <1>4, <2>1
    <2>3. events[s[p]].t \in Nat /\ events[s[q]].t \in Nat
      BY <1>2, <2>1
    <2> QED BY <2>2, <2>3
  <1>11. DOMAIN Timeline(events) = 1..N
    BY <1>7
  <1> QED BY <1>8, <1>9, <1>10, <1>11 DEF IsTimeline

\* The positions of a timeline.
LEMMA PositionsOf ==
  ASSUME NEW line, IsTimeline(line)
  PROVE  /\ Len(line) \in Nat /\ DOMAIN line = 1..Len(line) /\ IsFiniteSet(DOMAIN line)
         /\ DOMAIN line \subseteq Nat
         /\ \A P : P \subseteq DOMAIN line => IsFiniteSet(P)
  <1>1. Len(line) \in Nat /\ DOMAIN line = 1..Len(line)
    BY DEF IsTimeline
  <1>2. IsFiniteSet(1..Len(line))
    BY <1>1, FS_Interval
  <1> QED BY <1>1, <1>2, FS_Subset

\* The numbers of a set in order.
LEMMA AscendingSorts ==
  ASSUME NEW I, I \subseteq Nat, IsFiniteSet(I)
  PROVE  /\ Cardinality(I) \in Nat /\ DOMAIN Ascending(I) = 1..Cardinality(I)
         /\ Len(Ascending(I)) = Cardinality(I)
         /\ \A n \in 1..Cardinality(I) : Ascending(I)[n] \in I
         /\ \A x \in I : \E n \in 1..Cardinality(I) : Ascending(I)[n] = x
         /\ \A m, n \in 1..Cardinality(I) : m < n => Ascending(I)[m] < Ascending(I)[n]
  <1>1. Ascending(I) = InOrder(I, Up(I))
    BY DEF Ascending, Up
  <1>2. Cardinality(I) \in Nat /\ DOMAIN Ascending(I) = 1..Cardinality(I)
    BY <1>1, PickedSorts
  <1>3. Len(Ascending(I)) = Cardinality(I)
    BY <1>2
  <1> QED BY <1>1, <1>3, PickedSorts

\* Counting the elements up to x finds the last of them.
LEMMA BisectFinds ==
  ASSUME NEW N \in Nat, NEW s, DOMAIN s = 1..N, \A n \in 1..N : s[n] \in Int,
         \A m, n \in 1..N : m < n => s[m] <= s[n], NEW x \in Int
  PROVE  /\ BisectRight(s, x) \in 0..N
         /\ \A n \in 1..N : n <= BisectRight(s, x) <=> s[n] <= x
  <1> DEFINE J == {k \in 1..N : s[k] <= x}
             m == Max(J)
  <1>1. BisectRight(s, x) = Cardinality(J)
    BY DEF BisectRight
  <1>2. IsFiniteSet(J) /\ J \subseteq Nat
    <2>1. IsFiniteSet(1..N)
      BY FS_Interval
    <2> QED BY <2>1, FS_Subset
  <1>3. CASE J = {}
    <2>1. BisectRight(s, x) = 0
      BY <1>1, <1>3, FS_EmptySet
    <2>2. \A n \in 1..N : ~(s[n] <= x) /\ ~(n <= 0)
      BY <1>3
    <2> QED BY <2>1, <2>2
  <1>4. CASE J # {}
    <2>1. m \in J /\ \A i \in J : i <= m
      BY <1>2, <1>4, Extremes
    <2> HIDE DEF m
    <2>2. m \in 1..N /\ s[m] <= x
      BY <2>1
    <2>3. J = 1..m
      <3>1. \A k \in J : k \in 1..m
        BY <2>1, <2>2
      <3>2. \A k \in 1..m : k \in J
        <4> SUFFICES ASSUME NEW k \in 1..m PROVE k \in J
          OBVIOUS
        <4>1. k \in 1..N /\ (k = m \/ k < m)
          BY <2>2
        <4>2. s[k] <= s[m] /\ s[k] \in Int /\ s[m] \in Int
          BY <2>2, <4>1
        <4> QED BY <2>2, <4>1, <4>2
      <3> QED BY <3>1, <3>2
    <2>4. Cardinality(1..m) = m
      BY <2>2, FS_Interval
    <2>5. BisectRight(s, x) = m
      BY <1>1, <2>3, <2>4
    <2>6. \A n \in 1..N : n <= m <=> n \in J
      BY <2>2, <2>3
    <2> QED BY <2>2, <2>5, <2>6
  <1> QED BY <1>3, <1>4

\* The chain of a rule at a position: what the rule says follows it.
LEMMA RuleChainIs ==
  ASSUME NEW line, IsTimeline(line), NEW F, NEW c \in CorrelationRules, NEW p \in DOMAIN line
  PROVE  /\ RuleChain(line, F, c, p).events = {p} \union Follows(line, c, p)
         /\ RuleChain(line, F, c, p).type = c.type
  <1> DEFINE B == {q \in DOMAIN line : Answers(line[q], c.b)}
             b == Ascending(B)
             times == [k \in DOMAIN b |-> line[b[k]].t]
             N == Cardinality(B)
             start == BisectRight(b, p)
             end == BisectRight(times, line[p].t + c.window)
             hits == {b[k] : k \in {n \in (start + 1)..end : InCommon(line[p], line[b[n]], c.fields)}}
  <1>1. B \subseteq DOMAIN line /\ B \subseteq Nat /\ IsFiniteSet(B) /\ p \in Nat
    BY PositionsOf
  <1>2. /\ N \in Nat /\ DOMAIN b = 1..N /\ \A n \in 1..N : b[n] \in B
        /\ \A x \in B : \E n \in 1..N : b[n] = x
        /\ \A m, n \in 1..N : m < n => b[m] < b[n]
    BY <1>1, AscendingSorts
  <1>3. c.window \in Nat /\ line[p].t \in Nat /\ \A q \in DOMAIN line : line[q].t \in Nat
    BY CorrelationAssumption DEF IsTimeline
  <1>x. \A q \in B : q \in DOMAIN line /\ q \in Nat /\ Answers(line[q], c.b)
    BY <1>1
  <1>y. \A q \in DOMAIN line : q \in B <=> Answers(line[q], c.b)
    OBVIOUS
  <1> HIDE DEF B, b, N
  <1>4. start \in 0..N /\ \A n \in 1..N : n <= start <=> b[n] <= p
    <2>1. \A n \in 1..N : b[n] \in Int
      BY <1>1, <1>2
    <2>2. \A m, n \in 1..N : m < n => b[m] <= b[n]
      BY <1>2, <2>1
    <2>3. p \in Int
      BY <1>1
    <2> QED BY <1>2, <2>1, <2>2, <2>3, BisectFinds
  <1>5. end \in 0..N /\ \A n \in 1..N : n <= end <=> times[n] <= line[p].t + c.window
    <2>1. DOMAIN times = 1..N /\ \A n \in 1..N : times[n] \in Int
      BY <1>2, <1>x, <1>3
    <2>2. \A m, n \in 1..N : m < n => times[m] <= times[n]
      BY <1>2, <1>x DEF IsTimeline
    <2>3. line[p].t + c.window \in Int
      BY <1>3
    <2> HIDE DEF times
    <2> QED BY <1>2, <2>1, <2>2, <2>3, BisectFinds
  <1>6. \A n \in 1..N : times[n] = line[b[n]].t
    BY <1>2
  <1> HIDE DEF start, end, times
  <1>7. hits = Follows(line, c, p)
    <2>1. ASSUME NEW q \in hits PROVE q \in Follows(line, c, p)
      <3>1. PICK k \in (start + 1)..end : b[k] = q /\ InCommon(line[p], line[b[k]], c.fields)
        BY <2>1
      <3>2. k \in 1..N /\ ~(k <= start) /\ k <= end
        BY <1>2, <1>4, <1>5, <3>1
      <3>3. q \in B /\ q > p /\ line[q].t <= line[p].t + c.window
        BY <1>1, <1>2, <1>4, <1>5, <1>6, <1>x, <3>1, <3>2
      <3>4. q \in DOMAIN line /\ line[q].t - line[p].t <= c.window
        BY <1>3, <1>x, <3>3
      <3> QED BY <1>x, <3>1, <3>3, <3>4 DEF Follows
    <2>2. ASSUME NEW q \in Follows(line, c, p) PROVE q \in hits
      <3>1. /\ q \in DOMAIN line /\ q > p /\ line[q].t - line[p].t <= c.window
            /\ Answers(line[q], c.b) /\ InCommon(line[p], line[q], c.fields)
        BY DEF Follows
      <3>2. PICK n \in 1..N : b[n] = q
        BY <1>2, <1>y, <3>1
      <3>3. ~(n <= start) /\ n <= end
        BY <1>1, <1>3, <1>4, <1>5, <1>6, <1>x, <1>y, <3>1, <3>2
      <3>4. n \in (start + 1)..end
        BY <1>2, <1>4, <1>5, <3>2, <3>3
      <3> QED BY <3>1, <3>2, <3>4
    <2> QED BY <2>1, <2>2
  <1>8. RuleChain(line, F, c, p) =
          Chain(c.type, {p} \union hits, UNION {Attached(line, F, q) : q \in {p} \union hits}, <<>>)
    BY DEF RuleChain, B, b, times, start, end, hits
  <1> QED BY <1>7, <1>8 DEF Chain

\* Its findings are some of all.
LEMMA RuleChainFinds ==
  ASSUME NEW line, NEW F, NEW c, NEW p
  PROVE  RuleChain(line, F, c, p).findings \subseteq F
  BY DEF RuleChain, Chain, Attached

-----------------------------------------------------------------------------
(* Chains that are the same.                                               *)

\* A chain is of some events of the timeline and finitely many findings.
WellChain(line, ch) ==
  /\ ch.events \subseteq DOMAIN line /\ ch.events # {} /\ IsFiniteSet(ch.findings)
  /\ ch.type = "remote" => ch.remote.of \in Nat \X Nat

\* A chain of a type is told from others by its first event, that of a remote
\* command by the command.
Told(C) ==
  \A a, b \in C :
    /\ a.type = b.type
    /\ IF a.type = "remote" THEN a.remote.of = b.remote.of ELSE Min(a.events) = Min(b.events)
    => a = b

CountOf(line, ch, k) == Cardinality({p \in ch.events : Key(line[p]) = k})

\* How often a chain has an observation is a number, and 0 when it has not.
LEMMA CountIs ==
  ASSUME NEW line, IsTimeline(line), NEW ch, WellChain(line, ch), NEW k
  PROVE  /\ CountOf(line, ch, k) \in Nat
         /\ CountOf(line, ch, k) > 0 <=> k \in Keys(line, ch.events)
  <1> DEFINE P == {p \in ch.events : Key(line[p]) = k}
  <1>1. IsFiniteSet(P)
    BY PositionsOf DEF WellChain
  <1>2. Cardinality(P) \in Nat /\ (Cardinality(P) = 0 <=> P = {})
    BY <1>1, FS_CardinalityType, FS_EmptySet
  <1>3. P # {} <=> k \in Keys(line, ch.events)
    BY DEF Keys
  <1> HIDE DEF P
  <1>4. Cardinality(P) > 0 <=> k \in Keys(line, ch.events)
    BY <1>2, <1>3
  <1> QED BY <1>2, <1>4 DEF CountOf, P

\* Chains that are the same to the code have the same observations.
LEMMA SameChainIs ==
  ASSUME NEW line, IsTimeline(line), NEW a, NEW b, WellChain(line, a), WellChain(line, b)
  PROVE  SameChain(line, a, b) <=>
           /\ a.type = b.type /\ Keys(line, a.events) = Keys(line, b.events)
           /\ \A k \in Keys(line, a.events) : CountOf(line, a, k) = CountOf(line, b, k)
  <1>1. SameChain(line, a, b) <=>
          /\ a.type = b.type
          /\ \A p \in a.events \union b.events :
               CountOf(line, a, Key(line[p])) = CountOf(line, b, Key(line[p]))
    BY DEF SameChain, CountOf
  <1>2. ASSUME SameChain(line, a, b) PROVE Keys(line, a.events) = Keys(line, b.events)
    <2>1. \A k : k \in Keys(line, a.events) \/ k \in Keys(line, b.events) =>
            CountOf(line, a, k) = CountOf(line, b, k)
      BY <1>1, <1>2 DEF Keys
    <2>2. \A k : k \in Keys(line, a.events) <=> k \in Keys(line, b.events)
      BY <2>1, CountIs
    <2> QED BY <2>2
  <1>3. \A p \in a.events : Key(line[p]) \in Keys(line, a.events)
    BY DEF Keys
  <1>4. \A p \in b.events : Key(line[p]) \in Keys(line, b.events)
    BY DEF Keys
  <1>5. \A k \in Keys(line, a.events) : \E p \in a.events : k = Key(line[p])
    BY DEF Keys
  <1> QED BY <1>1, <1>2, <1>3, <1>4, <1>5

\* To be the same chain is an equivalence.
LEMMA SameChainJoins ==
  ASSUME NEW line, IsTimeline(line), NEW a, NEW b, NEW c,
         WellChain(line, a), WellChain(line, b), WellChain(line, c)
  PROVE  /\ SameChain(line, a, a)
         /\ SameChain(line, a, b) => SameChain(line, b, a)
         /\ SameChain(line, a, b) /\ SameChain(line, a, c) => SameChain(line, b, c)
  <1>1. \A x, y \in {a, b, c} : SameChain(line, x, y) <=>
           /\ x.type = y.type /\ Keys(line, x.events) = Keys(line, y.events)
           /\ \A k \in Keys(line, x.events) : CountOf(line, x, k) = CountOf(line, y, k)
    BY SameChainIs
  <1> QED BY <1>1

\* The smaller of two numbers, of any sign.
LEMMA LesserOfTwo ==
  ASSUME NEW a \in Int, NEW b \in Int
  PROVE  Min({a, b}) \in Int /\ (Min({a, b}) = IF a <= b THEN a ELSE b)
  <1>1. \E x \in {a, b} : \A y \in {a, b} : x =< y
    OBVIOUS
  <1>2. Min({a, b}) \in {a, b} /\ \A y \in {a, b} : Min({a, b}) =< y
    BY <1>1 DEF Min
  <1> QED BY <1>2

\* How sure a chain is, is a number.
LEMMA ConfidenceIs ==
  ASSUME NEW line, IsTimeline(line), NEW ch, WellChain(line, ch)
  PROVE  Confidence(line, ch) \in Int
  <1> DEFINE span == line[Max(ch.events)].t - line[Min(ch.events)].t
             close == CASE span = 0 -> 0 [] span < 60 -> 20 [] span < 300 -> 10
                        [] span < 600 -> 5 [] OTHER -> 0
             n == Cardinality(ch.findings)
             severe == Cardinality({f \in ch.findings : Rank(f.severity) >= 3})
             medium == Cardinality({f \in ch.findings : f.severity = "medium"})
             weight == 20 * severe + 10 * medium + 5 * (n - severe - medium)
  <1>1. n \in Int /\ severe \in Int /\ medium \in Int
    <2>1. \A S \in SUBSET ch.findings : Cardinality(S) \in Nat
      BY FS_Subset, FS_CardinalityType DEF WellChain
    <2>2. \A S \in SUBSET ch.findings : Cardinality(S) \in Int
      BY <2>1
    <2> QED BY <2>2
  <1>2. span \in Int
    <2>1. ch.events \subseteq Nat /\ IsFiniteSet(ch.events) /\ ch.events # {}
      BY PositionsOf DEF WellChain
    <2>2. Max(ch.events) \in DOMAIN line /\ Min(ch.events) \in DOMAIN line
      BY <2>1, Extremes DEF WellChain
    <2> QED BY <2>2 DEF IsTimeline
  <1> HIDE DEF span, n, severe, medium
  <1>3. close \in Int
    <2>1. span = 0 \/ span < 60 \/ span < 300 \/ span < 600 \/ span >= 600
      BY <1>2
    <2> QED BY <1>2, <2>1
  <1>4. weight \in Int
    BY <1>1
  <1>5. Min({10, 2 * n}) \in Int
    BY <1>1, LesserOfTwo
  <1> DEFINE sum == 30 + close + weight + Min({10, 2 * n})
  <1>6. sum \in Int
    <2> HIDE DEF close, weight
    <2> QED BY <1>3, <1>4, <1>5
  <1>7. Min({100, sum}) \in Int
    <2> HIDE DEF sum
    <2> QED BY <1>6, LesserOfTwo
  <1>8. Confidence(line, ch) = IF ch.type = "session" THEN 70 ELSE Min({100, sum})
    BY DEF Confidence, span, n, severe, medium
  <1> HIDE DEF sum
  <1> QED BY <1>7, <1>8

Precedes(line, a, b) ==
  \/ Confidence(line, a) > Confidence(line, b)
  \/ Confidence(line, a) = Confidence(line, b) /\ Before(a, b)

\* A chain has a first event.
LEMMA FirstEventIs ==
  ASSUME NEW line, IsTimeline(line), NEW ch, WellChain(line, ch)
  PROVE  Min(ch.events) \in Nat /\ Min(ch.events) \in ch.events /\ \A p \in ch.events : Min(ch.events) <= p
  <1>1. ch.events \subseteq Nat /\ IsFiniteSet(ch.events) /\ ch.events # {}
    BY PositionsOf DEF WellChain
  <1> QED BY <1>1, Extremes

\* Of the chains that are the same one comes first.
LEMMA PrecedesIsOrder ==
  ASSUME NEW line, IsTimeline(line), NEW K, \A ch \in K : WellChain(line, ch), Told(K),
         \A a, b \in K : a.type = b.type
  PROVE  IsOrder({x \in K \X K : Precedes(line, x[1], x[2])}, K)
  <1> DEFINE R == {x \in K \X K : Precedes(line, x[1], x[2])}
  <1>1. \A a, b \in K : <<a, b>> \in R <=> Precedes(line, a, b)
    OBVIOUS
  <1> HIDE DEF R
  <1>2. \A a \in K : Confidence(line, a) \in Int /\ Min(a.events) \in Nat
    BY ConfidenceIs, FirstEventIs
  <1>3. \A a \in K : a.type = "remote" => a.remote.of \in Nat \X Nat
    BY DEF WellChain
  <1>4. \A a, b \in K : a # b => Precedes(line, a, b) \/ Precedes(line, b, a)
    <2> SUFFICES ASSUME NEW a \in K, NEW b \in K, a # b, Confidence(line, a) = Confidence(line, b)
                 PROVE  Before(a, b) \/ Before(b, a)
      BY <1>2 DEF Precedes
    <2>1. CASE a.type = "remote"
      <3>1. a.remote.of # b.remote.of /\ b.type = "remote"
        BY <2>1 DEF Told
      <3>2. a.remote.of \in Nat \X Nat /\ b.remote.of \in Nat \X Nat
        BY <1>3, <2>1, <3>1
      <3> QED BY <2>1, <3>1, <3>2 DEF Before, Earlier
    <2>2. CASE a.type # "remote"
      <3>1. Min(a.events) # Min(b.events) /\ b.type # "remote"
        BY <2>2 DEF Told
      <3> QED BY <1>2, <2>2, <3>1 DEF Before
    <2> QED BY <2>1, <2>2
  <1>5. \A a \in K : ~Precedes(line, a, a)
    BY <1>2, <1>3 DEF Precedes, Before, Earlier
  <1>6. \A a, b, c \in K : Before(a, b) /\ Before(b, c) => Before(a, c)
    <2> SUFFICES ASSUME NEW a \in K, NEW b \in K, NEW c \in K, Before(a, b), Before(b, c)
                 PROVE  Before(a, c)
      OBVIOUS
    <2>1. CASE a.type = "remote"
      <3>1. b.type = "remote" /\ c.type = "remote"
        BY <2>1
      <3>2. a.remote.of \in Nat \X Nat /\ b.remote.of \in Nat \X Nat /\ c.remote.of \in Nat \X Nat
        BY <1>3, <2>1, <3>1
      <3> QED BY <2>1, <3>1, <3>2 DEF Before, Earlier
    <2>2. CASE a.type # "remote"
      <3>1. b.type # "remote" /\ c.type # "remote"
        BY <2>2
      <3> QED BY <1>2, <2>2, <3>1 DEF Before
    <2> QED BY <2>1, <2>2
  <1>7. \A a, b, c \in K : Precedes(line, a, b) /\ Precedes(line, b, c) => Precedes(line, a, c)
    BY <1>2, <1>6 DEF Precedes
  <1> QED BY <1>1, <1>4, <1>5, <1>7 DEF IsOrder, R

\* Of chains that are the same one is kept, and only one.
LEMMA OneIsKept ==
  ASSUME NEW line, IsTimeline(line), NEW C, IsFiniteSet(C), \A ch \in C : WellChain(line, ch),
         Told(C)
  PROVE  /\ \A a \in C : \E b \in Deduplicated(line, C) : SameChain(line, a, b)
         /\ \A a, b \in Deduplicated(line, C) : a # b => ~SameChain(line, a, b)
         /\ Deduplicated(line, C) \subseteq C
  <1>1. \A a : a \in Deduplicated(line, C) <=>
                 a \in C /\ \A b \in C \ {a} : SameChain(line, a, b) => Precedes(line, a, b)
    BY DEF Deduplicated, Precedes
  <1>2. ASSUME NEW a \in C PROVE \E b \in Deduplicated(line, C) : SameChain(line, a, b)
    <2> DEFINE K == {b \in C : SameChain(line, a, b)}
               R == {x \in K \X K : Precedes(line, x[1], x[2])}
               s == InOrder(K, R)
               N == Cardinality(K)
    <2>1. IsFiniteSet(K) /\ \A ch \in K : WellChain(line, ch)
      BY FS_Subset
    <2>2. Told(K) /\ a \in K
      BY SameChainJoins DEF Told
    <2>3. \A x, y \in K : x.type = y.type
      BY DEF SameChain
    <2>4. \A b : b \in K <=> b \in C /\ SameChain(line, a, b)
      OBVIOUS
    <2>5. \A x, y \in K : <<x, y>> \in R => Precedes(line, x, y)
      OBVIOUS
    <2> HIDE DEF K
    <2>6. IsOrder(R, K)
      BY <2>1, <2>2, <2>3, PrecedesIsOrder
    <2> HIDE DEF R
    <2>7. /\ N \in Nat /\ \A n \in 1..N : s[n] \in K
          /\ \A x \in K : \E n \in 1..N : s[n] = x
          /\ \A m, n \in 1..N : m < n => <<s[m], s[n]>> \in R
      BY <2>1, <2>6, InOrderSorts
    <2> HIDE DEF s, N
    <2>8. PICK i \in 1..N : s[i] = a
      BY <2>2, <2>7
    <2>9. 1 \in 1..N
      BY <2>7, <2>8
    <2>10. ASSUME NEW b \in C \ {s[1]}, SameChain(line, s[1], b) PROVE Precedes(line, s[1], b)
      <3>1. s[1] \in K /\ s[1] \in C /\ SameChain(line, a, s[1])
        BY <2>7, <2>4, <2>9
      <3>2. SameChain(line, s[1], a)
        BY <3>1, SameChainJoins
      <3>3. SameChain(line, a, b)
        BY <2>10, <3>1, <3>2, SameChainJoins
      <3>4. b \in K
        BY <2>4, <3>3
      <3>5. PICK n \in 1..N : s[n] = b
        BY <2>7, <3>4
      <3>6. 1 < n
        BY <3>5
      <3> QED BY <2>7, <2>5, <2>9, <3>1, <3>4, <3>5, <3>6
    <2> QED BY <1>1, <2>7, <2>4, <2>9, <2>10
  <1>3. ASSUME NEW a \in Deduplicated(line, C), NEW b \in Deduplicated(line, C), a # b,
               SameChain(line, a, b)
        PROVE  FALSE
    <2> DEFINE K == {a, b}
               R == {x \in K \X K : Precedes(line, x[1], x[2])}
    <2>1. a \in C /\ b \in C /\ SameChain(line, b, a)
      BY <1>1, <1>3, SameChainJoins
    <2>2. Precedes(line, a, b) /\ Precedes(line, b, a)
      BY <1>1, <1>3, <2>1
    <2>3. IsOrder(R, K)
      <3>1. (\A ch \in K : WellChain(line, ch)) /\ Told(K) /\ \A x, y \in K : x.type = y.type
        BY <1>3, <2>1 DEF Told, SameChain
      <3> HIDE DEF K
      <3> QED BY <3>1, PrecedesIsOrder
    <2>4. <<a, b>> \in R /\ <<b, a>> \in R
      BY <2>2
    <2> HIDE DEF R
    <2> QED BY <2>3, <2>4 DEF IsOrder
  <1> QED BY <1>1, <1>2, <1>3

-----------------------------------------------------------------------------
(* Passes over a sequence, and the life of a session.                      *)

\* A pass over N elements, whose step is the function pass, has a result after
\* each of them.
IsPass(f, N, A, a, pass) ==
  f \in [0..N -> A] /\ f[0] = a /\ \A n \in 1..N : f[n] = pass[<<n, f[n - 1]>>]

\* Every pass has results: the recursive functions of the correlation are defined.
LEMMA PassExists ==
  ASSUME NEW N \in Nat, NEW A, NEW a \in A, NEW pass \in [(1..N) \X A -> A]
  PROVE  \E f : IsPass(f, N, A, a, pass)
  <1> SUFFICES \E f \in [0..N -> A] : f[0] = a /\ \A n \in 1..N : f[n] = pass[<<n, f[n - 1]>>]
    BY DEF IsPass
  <1> DEFINE Good(m) == \E f \in [0..m -> A] :
                          f[0] = a /\ \A n \in 1..m : f[n] = pass[<<n, f[n - 1]>>]
             Bad == {m \in 0..N : ~Good(m)}
  <1>1. SUFFICES ASSUME Bad # {} PROVE FALSE
    <2>1. N \in 0..N
      OBVIOUS
    <2> QED BY <2>1
  <1> DEFINE m == Min(Bad)
  <1>2. m \in 0..N /\ ~Good(m) /\ \A k \in 0..N : ~Good(k) => m <= k
    <2>1. IsFiniteSet(Bad) /\ Bad \subseteq Nat
      <3>1. IsFiniteSet(0..N)
        BY FS_Interval
      <3> QED BY <3>1, FS_Subset
    <2>2. m \in Bad /\ \A k \in Bad : m <= k
      BY <1>1, <2>1, Extremes
    <2> HIDE DEF m
    <2> QED BY <2>2
  <1>3. Good(0)
    <2> DEFINE f == [k \in 0..0 |-> a]
    <2>1. f \in [0..0 -> A] /\ f[0] = a /\ \A n \in 1..0 : f[n] = pass[<<n, f[n - 1]>>]
      OBVIOUS
    <2> HIDE DEF f
    <2> QED BY <2>1
  <1> HIDE DEF m, Bad
  <1>4. m # 0
    BY <1>2, <1>3
  <1>5. m \in 1..N /\ m - 1 \in 0..N
    BY <1>2, <1>4
  <1>6. Good(m - 1)
    BY <1>2, <1>5
  <1>7. PICK f \in [0..(m - 1) -> A] :
          f[0] = a /\ \A n \in 1..(m - 1) : f[n] = pass[<<n, f[n - 1]>>]
    BY <1>6
  <1> DEFINE g == [k \in 0..m |-> IF k < m THEN f[k] ELSE pass[<<m, f[m - 1]>>]]
  <1>8. f[m - 1] \in A /\ pass[<<m, f[m - 1]>>] \in A
    BY <1>5
  <1>9. g \in [0..m -> A]
    <2>1. \A k \in 0..m : k < m => f[k] \in A
      BY <1>5
    <2> QED BY <1>8, <2>1
  <1>10. g[0] = a
    BY <1>5, <1>7
  <1>11. \A n \in 1..m : g[n] = pass[<<n, g[n - 1]>>]
    <2> SUFFICES ASSUME NEW n \in 1..m PROVE g[n] = pass[<<n, g[n - 1]>>]
      OBVIOUS
    <2>1. n - 1 \in 0..m /\ n \in 0..m /\ n - 1 < m /\ (n = m \/ n \in 1..(m - 1))
      BY <1>5
    <2>2. g[n - 1] = f[n - 1]
      BY <2>1
    <2>3. CASE n = m
      <3>1. g[m] = pass[<<m, f[m - 1]>>]
        BY <2>1, <2>3
      <3> HIDE DEF g
      <3> QED BY <2>2, <2>3, <3>1
    <2>4. CASE n \in 1..(m - 1)
      <3>1. n \in 0..m /\ n < m
        BY <1>5, <2>1, <2>4
      <3>2. g[n] = f[n]
        BY <3>1
      <3> HIDE DEF g
      <3> QED BY <1>7, <2>2, <2>4, <3>2
    <2> QED BY <2>1, <2>3, <2>4
  <1>12. Good(m)
    <2> HIDE DEF g
    <2> QED BY <1>9, <1>10, <1>11
  <1> QED BY <1>2, <1>12

\* What holds at first and is kept by each step holds at the end.
LEMMA StepByStep ==
  ASSUME NEW N \in Nat, NEW G, 0 \in G, \A n \in 1..N : n - 1 \in G => n \in G
  PROVE  N \in G
  <1> DEFINE Bad == {m \in 0..N : m \notin G}
             m == Min(Bad)
  <1>1. SUFFICES ASSUME Bad # {} PROVE FALSE
    OBVIOUS
  <1>2. m \in Bad /\ \A k \in Bad : m <= k
    <2>1. IsFiniteSet(Bad) /\ Bad \subseteq Nat
      <3>1. IsFiniteSet(0..N)
        BY FS_Interval
      <3> QED BY <3>1, FS_Subset
    <2> QED BY <1>1, <2>1, Extremes
  <1> HIDE DEF m
  <1>3. m \in 1..N /\ m - 1 \in 0..N /\ ~(m <= m - 1)
    BY <1>2
  <1>4. m - 1 \notin Bad
    BY <1>2, <1>3
  <1> QED BY <1>2, <1>3, <1>4

-----------------------------------------------------------------------------
\* The elements i to j of a sequence.
Run(s, i, j) == {s[k] : k \in i..j}

\* A run of positions is a set of numbers.
LEMMA RunIs ==
  ASSUME NEW s, NEW n \in Nat \ {0}, NEW i \in 1..n
  PROVE  /\ Run(s, n, n) = {s[n]}
         /\ i < n => Run(s, i, n) = Run(s, i, n - 1) \union {s[n]}
         /\ s[i] \in Run(s, i, n)
  <1>1. n..n = {n}
    OBVIOUS
  <1>2. i < n => i..n = (i..(n - 1)) \union {n}
    OBVIOUS
  <1>3. i \in i..n
    OBVIOUS
  <1> QED BY <1>1, <1>2, <1>3 DEF Run

\* What opens, goes on with and ends the lifetime of a session.
LifeEvents(line, host, session) ==
  {p \in DOMAIN line : line[p].host = host /\ Session(line[p]) = session}

Once(line, host, session) ==
  {p \in LifeEvents(line, host, session) :
     \A q \in LifeEvents(line, host, session) : Key(line[q]) = Key(line[p]) => p <= q}

\* A sequence of the elements of S, and one in the order of their times.
Enumerates(s, S) ==
  /\ Len(s) \in Nat /\ DOMAIN s = 1..Len(s)
  /\ \A n \in 1..Len(s) : s[n] \in S
  /\ \A x \in S : \E n \in 1..Len(s) : s[n] = x
  /\ \A m, n \in 1..Len(s) : m < n => s[m] # s[n]

InTime(line, s) == \A m, n \in 1..Len(s) : m < n => line[s[m]].t <= line[s[n]].t

\* The life of a session holds each of its observations once, in the order of time.
LEMMA LifelineIs ==
  ASSUME NEW line, IsTimeline(line), NEW host, NEW session
  PROVE  /\ Enumerates(Lifeline(line, host, session), Once(line, host, session))
         /\ InTime(line, Lifeline(line, host, session))
  <1> DEFINE S == Once(line, host, session)
             s == Lifeline(line, host, session)
             N == Cardinality(S)
             rank(e) == CASE e.id = "4624" -> 0 [] e.id = "4647" -> 1 [] OTHER -> 2
             earlier(p, q) ==
               \/ line[p].t < line[q].t
               \/ line[p].t = line[q].t /\ rank(line[p]) < rank(line[q])
               \/ line[p].t = line[q].t /\ rank(line[p]) = rank(line[q]) /\ p < q
             R == {x \in S \X S : earlier(x[1], x[2])}
  <1>1. s = InOrder(S, R)
    BY DEF Lifeline, Once, LifeEvents
  <1>2. S \subseteq DOMAIN line /\ S \subseteq Nat /\ IsFiniteSet(S)
    <2>1. S \subseteq DOMAIN line
      BY DEF Once, LifeEvents
    <2> QED BY <2>1, PositionsOf
  <1>3. \A p \in S : line[p].t \in Nat /\ p \in Nat
    BY <1>2 DEF IsTimeline
  <1>4. \A p : rank(line[p]) \in Int
    OBVIOUS
  <1>5. \A p, q \in S : <<p, q>> \in R <=> earlier(p, q)
    OBVIOUS
  <1> HIDE DEF R, S, rank
  <1>6. IsOrder(R, S)
    <2>1. \A p, q \in S : p # q => <<p, q>> \in R \/ <<q, p>> \in R
      BY <1>3, <1>4, <1>5
    <2>2. \A p \in S : <<p, p>> \notin R
      BY <1>3, <1>4, <1>5
    <2>3. \A p, q, o \in S : <<p, q>> \in R /\ <<q, o>> \in R => <<p, o>> \in R
      BY <1>3, <1>4, <1>5
    <2> QED BY <2>1, <2>2, <2>3 DEF IsOrder
  <1>7. /\ N \in Nat /\ DOMAIN s = 1..N
        /\ \A n \in 1..N : s[n] \in S
        /\ \A x \in S : \E n \in 1..N : s[n] = x
        /\ \A m, n \in 1..N : m < n => <<s[m], s[n]>> \in R
    BY <1>1, <1>2, <1>6, InOrderSorts
  <1>8. Len(s) = N
    BY <1>7
  <1>9. ASSUME NEW m \in 1..N, NEW n \in 1..N, m < n
        PROVE  line[s[m]].t <= line[s[n]].t /\ s[m] # s[n]
    <2>1. s[m] \in S /\ s[n] \in S /\ <<s[m], s[n]>> \in R
      BY <1>7, <1>9
    <2> QED BY <1>3, <1>5, <1>6, <2>1 DEF IsOrder
  <1> QED BY <1>7, <1>8, <1>9 DEF S, Enumerates, InTime

-----------------------------------------------------------------------------
(* Lifetimes.                                                              *)

IsName(x) == x # ""

\* The elements i to j of s are a lifetime: a logon, what follows it, and at the
\* end, unless the next logon or nothing comes next, a logoff.
Lived(line, s, i, j) ==
  /\ i \in 1..Len(s) /\ j \in 1..Len(s) /\ i < j
  /\ line[s[i]].id = "4624"
  /\ \A k \in (i + 1)..(j - 1) : line[s[k]].id = "4647"
  /\ line[s[j]].id \in {"4647", "4634"}
  /\ line[s[j]].id = "4634" \/ j = Len(s) \/ line[s[j + 1]].id = "4624"

Closed(line, s, i, j) == Lived(line, s, i, j) /\ line[s[j]].id = "4634"

Opens(line, s, i, n) ==
  i \in 1..n /\ line[s[i]].id = "4624" /\ \A k \in (i + 1)..n : line[s[k]].id = "4647"

Parts == [open : SUBSET Nat, done : SUBSET SUBSET Nat]

\* The lifetimes after the first n elements.
LifeSoFar(line, s, n, acc) ==
  /\ acc \in Parts
  /\ acc.open # {} => \E i \in 1..n : Opens(line, s, i, n) /\ acc.open = Run(s, i, n)
  /\ \A i \in 1..n : Opens(line, s, i, n) => acc.open = Run(s, i, n)
  /\ \A S \in acc.done : \E i, j \in 1..n : Lived(line, s, i, j) /\ S = Run(s, i, j)
  /\ \A i, j \in 1..n : Closed(line, s, i, j) => Run(s, i, j) \in acc.done

\* A lifetime of two events or more that is still open may be closed.
LEMMA ClosingIs ==
  ASSUME NEW line, NEW s, NEW n \in Nat, Len(s) \in Nat, n <= Len(s),
         NEW acc, LifeSoFar(line, s, n, acc), n = Len(s) \/ line[s[n + 1]].id = "4624"
  PROVE  /\ acc.done \subseteq Closing(acc)
         /\ \A S \in Closing(acc) : \E i, j \in 1..n : Lived(line, s, i, j) /\ S = Run(s, i, j)
  <1>1. acc.done \subseteq Closing(acc)
    BY DEF Closing
  <1>2. ASSUME NEW S \in Closing(acc), S \notin acc.done
        PROVE  \E i, j \in 1..n : Lived(line, s, i, j) /\ S = Run(s, i, j)
    <2>1. S = acc.open /\ Cardinality(S) >= 2
      BY <1>2 DEF Closing
    <2>2. S # {}
      <3>1. SUFFICES ASSUME S = {} PROVE FALSE
        OBVIOUS
      <3>2. Cardinality(S) = 0
        BY <3>1, FS_EmptySet
      <3> QED BY <2>1, <3>2
    <2>3. PICK i \in 1..n : Opens(line, s, i, n) /\ S = Run(s, i, n)
      BY <2>1, <2>2 DEF LifeSoFar
    <2>4. i # n
      <3>1. SUFFICES ASSUME i = n PROVE FALSE
        OBVIOUS
      <3>2. S = {s[n]}
        BY <2>3, <3>1, RunIs
      <3>3. Cardinality(S) = 1
        BY <3>2, FS_Singleton
      <3> QED BY <2>1, <3>3
    <2>5. /\ i \in 1..Len(s) /\ n \in 1..Len(s) /\ i < n /\ n \in 1..n
          /\ n \in (i + 1)..n /\ (i + 1)..(n - 1) \subseteq (i + 1)..n
      BY <2>3, <2>4
    <2>6. Lived(line, s, i, n)
      BY <2>3, <2>5 DEF Lived, Opens
    <2> QED BY <2>3, <2>5, <2>6
  <1>3. \A S \in acc.done : \E i, j \in 1..n : Lived(line, s, i, j) /\ S = Run(s, i, j)
    BY DEF LifeSoFar
  <1> QED BY <1>1, <1>2, <1>3

\* How a lifetime that is open goes on with the next element.
LEMMA OpensGoOn ==
  ASSUME NEW line, NEW s, NEW n \in Nat \ {0}, NEW i \in 1..n
  PROVE  /\ i < n => (Opens(line, s, i, n) <=> Opens(line, s, i, n - 1) /\ line[s[n]].id = "4647")
         /\ Opens(line, s, n, n) <=> line[s[n]].id = "4624"
         /\ i < n => i \in 1..(n - 1)
         /\ Closed(line, s, i, n) => i < n /\ Opens(line, s, i, n - 1) /\ line[s[n]].id = "4634"
  <1>1. i < n => i \in 1..(n - 1) /\ (i + 1)..n = ((i + 1)..(n - 1)) \union {n}
    OBVIOUS
  <1>2. (n + 1)..n = {} /\ n \in 1..n
    OBVIOUS
  <1>3. Closed(line, s, i, n) => i < n
    BY DEF Closed, Lived
  <1> QED BY <1>1, <1>2, <1>3 DEF Opens, Closed, Lived

\* One step of the pass.
LEMMA LifeGoesOn ==
  ASSUME NEW line, NEW s, Len(s) \in Nat, NEW n \in 1..Len(s), s[n] \in Nat,
         line[s[n]].id \in {"4624", "4634", "4647"},
         NEW acc, LifeSoFar(line, s, n - 1, acc)
  PROVE  LifeSoFar(line, s, n, Living(line, acc, s[n]))
  <1> DEFINE new == Living(line, acc, s[n])
             id == line[s[n]].id
  <1> SUFFICES LifeSoFar(line, s, n, new)
    OBVIOUS
  <1>1. n \in Nat \ {0} /\ n - 1 \in Nat /\ n - 1 <= Len(s) /\ n \in 1..n
        /\ 1..(n - 1) \subseteq 1..n /\ (n - 1) + 1 = n
        /\ \A i \in 1..n : i = n \/ (i < n /\ i \in 1..(n - 1))
    OBVIOUS
  <1>2. acc \in Parts /\ acc.open \subseteq Nat /\ acc.done \subseteq SUBSET Nat
    BY DEF LifeSoFar, Parts
  <1>3. \A i \in 1..(n - 1) : s[i] \in Run(s, i, n - 1)
    BY <1>1, RunIs
  <1>4. acc.open # {} => \E i \in 1..(n - 1) :
                           Opens(line, s, i, n - 1) /\ acc.open = Run(s, i, n - 1)
    BY DEF LifeSoFar
  <1>5. \A i \in 1..(n - 1) : Opens(line, s, i, n - 1) => acc.open = Run(s, i, n - 1)
    BY DEF LifeSoFar
  <1>6. \A S \in acc.done : \E i, j \in 1..(n - 1) : Lived(line, s, i, j) /\ S = Run(s, i, j)
    BY DEF LifeSoFar
  <1>7. \A i, j \in 1..(n - 1) : Closed(line, s, i, j) => Run(s, i, j) \in acc.done
    BY DEF LifeSoFar
  <1>8. \A S \in acc.done : \E i, j \in 1..n : Lived(line, s, i, j) /\ S = Run(s, i, j)
    BY <1>1, <1>6
  <1>9. \A i \in 1..(n - 1) : Run(s, i, n) = Run(s, i, n - 1) \union {s[n]}
    BY <1>1, RunIs
  <1>10. Run(s, n, n) = {s[n]}
    BY <1>1, RunIs
  <1>11. \A i \in 1..n : Closed(line, s, i, n) =>
           i \in 1..(n - 1) /\ Opens(line, s, i, n - 1) /\ id = "4634"
    BY <1>1, OpensGoOn
  <1>12. \A i, j \in 1..n : Closed(line, s, i, j) /\ j # n => Run(s, i, j) \in acc.done
    <2> SUFFICES ASSUME NEW i \in 1..n, NEW j \in 1..n, Closed(line, s, i, j), j # n
                 PROVE  Run(s, i, j) \in acc.done
      OBVIOUS
    <2>1. i < j
      BY DEF Closed, Lived
    <2>2. i \in 1..(n - 1) /\ j \in 1..(n - 1)
      BY <1>1, <2>1
    <2> QED BY <1>7, <2>2
  <1>13. \A i \in 1..(n - 1) :
           Opens(line, s, i, n) <=> Opens(line, s, i, n - 1) /\ id = "4647"
    <2> SUFFICES ASSUME NEW i \in 1..(n - 1)
                 PROVE  Opens(line, s, i, n) <=> Opens(line, s, i, n - 1) /\ id = "4647"
      OBVIOUS
    <2>1. i \in 1..n /\ i < n
      OBVIOUS
    <2> QED BY <1>1, <2>1, OpensGoOn
  <1>14. Opens(line, s, n, n) <=> id = "4624"
    BY <1>1, OpensGoOn
  <1> HIDE DEF id
  <1>15. id \in {"4624", "4634", "4647"}
    BY DEF id
  <1>a. CASE id = "4624"
    <2>1. new = [open |-> {s[n]}, done |-> Closing(acc)]
      BY <1>a DEF Living, id
    <2>2. n - 1 = Len(s) \/ line[s[n - 1 + 1]].id = "4624"
      BY <1>1, <1>a DEF id
    <2>3. /\ acc.done \subseteq Closing(acc)
          /\ \A S \in Closing(acc) :
               \E i, j \in 1..(n - 1) : Lived(line, s, i, j) /\ S = Run(s, i, j)
      <3> HIDE DEF new
      <3> DEFINE m == n - 1
      <3>1. m \in Nat /\ m <= Len(s) /\ LifeSoFar(line, s, m, acc)
        BY <1>1
      <3>2. m = Len(s) \/ line[s[m + 1]].id = "4624"
        BY <2>2
      <3> HIDE DEF m
      <3>3. /\ acc.done \subseteq Closing(acc)
            /\ \A S \in Closing(acc) :
                 \E i, j \in 1..m : Lived(line, s, i, j) /\ S = Run(s, i, j)
        BY <3>1, <3>2, ClosingIs
      <3> QED BY <3>3 DEF m
    <2>4. Closing(acc) \subseteq SUBSET Nat
      BY <1>2 DEF Closing
    <2>5. new \in Parts
      BY <2>1, <2>4 DEF Parts
    <2> HIDE DEF new
    <2>6. new.open = {s[n]} /\ new.done = Closing(acc)
      BY <2>1
    <2>7. \A i \in 1..n : Opens(line, s, i, n) => i = n
      BY <1>1, <1>13, <1>a
    <2>8. \A i \in 1..n : ~Closed(line, s, i, n)
      BY <1>11, <1>a
    <2>9. new.open # {} => \E i \in 1..n : Opens(line, s, i, n) /\ new.open = Run(s, i, n)
      BY <1>1, <1>10, <1>14, <1>a, <2>6
    <2>10. \A i \in 1..n : Opens(line, s, i, n) => new.open = Run(s, i, n)
      BY <1>10, <2>6, <2>7
    <2>11. \A S \in new.done : \E i, j \in 1..n : Lived(line, s, i, j) /\ S = Run(s, i, j)
      BY <1>1, <2>3, <2>6
    <2>12. \A i, j \in 1..n : Closed(line, s, i, j) => Run(s, i, j) \in new.done
      BY <1>12, <2>3, <2>6, <2>8
    <2> QED BY <2>5, <2>9, <2>10, <2>11, <2>12, Zenon DEF LifeSoFar
  <1>b. CASE id = "4647" /\ acc.open # {}
    <2>1. new = [acc EXCEPT !.open = @ \union {s[n]}]
      BY <1>b DEF Living, id
    <2>2. new \in Parts /\ new.open = acc.open \union {s[n]} /\ new.done = acc.done
      BY <1>2, <2>1 DEF Parts
    <2> HIDE DEF new
    <2>3. \A i \in 1..n : Opens(line, s, i, n) => i \in 1..(n - 1) /\ Opens(line, s, i, n - 1)
      BY <1>1, <1>13, <1>14, <1>b
    <2>4. \A i \in 1..n : ~Closed(line, s, i, n)
      BY <1>11, <1>b
    <2>5. \E i \in 1..n : Opens(line, s, i, n) /\ new.open = Run(s, i, n)
      BY <1>1, <1>4, <1>9, <1>13, <1>b, <2>2
    <2>6. \A i \in 1..n : Opens(line, s, i, n) => new.open = Run(s, i, n)
      BY <1>5, <1>9, <2>2, <2>3
    <2>7. \A S \in new.done : \E i, j \in 1..n : Lived(line, s, i, j) /\ S = Run(s, i, j)
      BY <1>8, <2>2
    <2>8. \A i, j \in 1..n : Closed(line, s, i, j) => Run(s, i, j) \in new.done
      BY <1>12, <2>2, <2>4
    <2> QED BY <2>2, <2>5, <2>6, <2>7, <2>8, Zenon DEF LifeSoFar
  <1>c. CASE id = "4634" /\ acc.open # {}
    <2>1. new = [open |-> {}, done |-> acc.done \union {acc.open \union {s[n]}}]
      BY <1>c DEF Living, id
    <2>2. /\ new \in Parts /\ new.open = {}
          /\ new.done = acc.done \union {acc.open \union {s[n]}}
      BY <1>2, <2>1 DEF Parts
    <2> HIDE DEF new
    <2>3. \A i \in 1..n : ~Opens(line, s, i, n)
      BY <1>1, <1>13, <1>14, <1>c
    <2>4. \A i \in 1..n : Closed(line, s, i, n) => Run(s, i, n) \in new.done
      BY <1>5, <1>9, <1>11, <2>2
    <2>5. PICK i \in 1..(n - 1) : Opens(line, s, i, n - 1) /\ acc.open = Run(s, i, n - 1)
      BY <1>4, <1>c
    <2>6. acc.open \union {s[n]} = Run(s, i, n)
      BY <1>9, <2>5
    <2>7. Lived(line, s, i, n)
      <3>1. i \in 1..Len(s) /\ i < n
        BY <1>1, <2>5
      <3> QED BY <1>c, <2>5, <3>1 DEF Lived, Opens, id
    <2>8. \A S \in new.done : \E j, k \in 1..n : Lived(line, s, j, k) /\ S = Run(s, j, k)
      BY <1>1, <1>8, <2>2, <2>5, <2>6, <2>7
    <2>9. \A j, k \in 1..n : Closed(line, s, j, k) => Run(s, j, k) \in new.done
      BY <1>12, <2>2, <2>4
    <2> QED BY <2>2, <2>3, <2>8, <2>9, Zenon DEF LifeSoFar
  <1>d. CASE id # "4624" /\ acc.open = {}
    <2>1. new = acc
      BY <1>d DEF Living, id
    <2> HIDE DEF new
    <2>2. \A i \in 1..(n - 1) : ~Opens(line, s, i, n - 1)
      BY <1>3, <1>5, <1>d
    <2>3. \A i \in 1..n : ~Opens(line, s, i, n) /\ ~Closed(line, s, i, n)
      BY <1>1, <1>11, <1>13, <1>14, <1>d, <2>2
    <2>4. \A i, j \in 1..n : Closed(line, s, i, j) => Run(s, i, j) \in acc.done
      BY <1>12, <2>3
    <2>5. LifeSoFar(line, s, n, acc)
      BY <1>2, <1>8, <1>d, <2>3, <2>4, Zenon DEF LifeSoFar
    <2> QED BY <2>1, <2>5
  <1> QED BY <1>15, <1>a, <1>b, <1>c, <1>d

\* One pass cuts the lifetimes of a session.
LEMMA SegmentsAre ==
  ASSUME NEW line, IsTimeline(line), NEW host, NEW session, IsName(session)
  PROVE  LET s == Lifeline(line, host, session)
         IN  /\ \A S \in Segments(line, host, session) :
                  \E i, j \in 1..Len(s) : Lived(line, s, i, j) /\ S = Run(s, i, j)
             /\ \A i, j \in 1..Len(s) :
                  Closed(line, s, i, j) => Run(s, i, j) \in Segments(line, host, session)
  <1> DEFINE s == Lifeline(line, host, session)
             N == Len(s)
             empty == [open |-> {}, done |-> {}]
             step(acc, p) == Living(line, acc, p)
             after[n \in 0..Len(s)] == IF n = 0 THEN empty ELSE step(after[n - 1], s[n])
             pass == [x \in (1..N) \X Parts |-> step(x[2], s[x[1]])]
  <1>1. Segments(line, host, session) = Closing(after[N])
    BY DEF Segments
  <1> HIDE DEF after, pass
  <1>2. /\ N \in Nat /\ DOMAIN s = 1..N
        /\ \A n \in 1..N : s[n] \in Once(line, host, session)
    BY LifelineIs DEF Enumerates
  <1>3. N \in Nat
    BY <1>2
  <1>4. \A n \in 1..N : s[n] \in Nat /\ line[s[n]].id \in {"4624", "4634", "4647"}
    <2> SUFFICES ASSUME NEW n \in 1..N
                 PROVE  s[n] \in Nat /\ line[s[n]].id \in {"4624", "4634", "4647"}
      OBVIOUS
    <2>1. s[n] \in DOMAIN line /\ Session(line[s[n]]) = session
      BY <1>2 DEF Once, LifeEvents
    <2>2. s[n] \in Nat
      BY <2>1, PositionsOf
    <2> QED BY <2>1, <2>2 DEF Session, IsName
  <1> HIDE DEF s, N
  <1>5. empty \in Parts
    BY DEF Parts
  <1>6. \A acc \in Parts, p \in Nat : step(acc, p) \in Parts
    BY DEF Parts, Living, Closing
  <1> HIDE DEF step
  <1>7. pass \in [(1..N) \X Parts -> Parts]
    BY <1>4, <1>6 DEF pass
  <1>8. PICK f : IsPass(f, N, Parts, empty, pass)
    <2> HIDE DEF empty
    <2> QED BY <1>3, <1>5, <1>7, PassExists
  <1>9. /\ f \in [0..N -> Parts] /\ f[0] = empty
        /\ \A n \in 1..N : f[n] = pass[<<n, f[n - 1]>>]
    BY <1>8 DEF IsPass
  <1>10. \A n \in 1..N : f[n] = step(f[n - 1], s[n])
    <2> SUFFICES ASSUME NEW n \in 1..N PROVE f[n] = step(f[n - 1], s[n])
      OBVIOUS
    <2>1. n - 1 \in 0..N
      BY <1>3
    <2>2. <<n, f[n - 1]>> \in (1..N) \X Parts
      BY <1>9, <2>1
    <2>3. pass[<<n, f[n - 1]>>] = step(f[n - 1], s[n])
      BY <2>2 DEF pass
    <2> QED BY <1>9, <2>3
  <1>11. f = [n \in 0..N |-> IF n = 0 THEN empty ELSE step(f[n - 1], s[n])]
    <2> DEFINE g == [n \in 0..N |-> IF n = 0 THEN empty ELSE step(f[n - 1], s[n])]
    <2>1. \A n \in 0..N : f[n] = g[n]
      <3> SUFFICES ASSUME NEW n \in 0..N PROVE f[n] = g[n]
        OBVIOUS
      <3>1. n = 0 \/ n \in 1..N
        BY <1>3
      <3> HIDE DEF empty
      <3> QED BY <1>9, <1>10, <3>1
    <2>2. DOMAIN f = 0..N /\ DOMAIN g = 0..N
      BY <1>9
    <2> HIDE DEF g
    <2>3. f = [n \in 0..N |-> f[n]] /\ g = [n \in 0..N |-> g[n]]
      BY <1>9, <2>2 DEF g
    <2> QED BY <2>1, <2>3 DEF g
  <1>12. after = [n \in 0..N |-> IF n = 0 THEN empty ELSE step(after[n - 1], s[n])]
    BY <1>11 DEF N, after
  <1>13. after[0] = empty /\ \A n \in 1..N : after[n] = step(after[n - 1], s[n])
    <2> DEFINE g == [n \in 0..N |-> IF n = 0 THEN empty ELSE step(after[n - 1], s[n])]
    <2> HIDE DEF empty
    <2>1. 0 \in 0..N /\ \A n \in 1..N : n \in 0..N /\ n # 0
      BY <1>3
    <2>2. g[0] = empty /\ \A n \in 1..N : g[n] = step(after[n - 1], s[n])
      BY <2>1
    <2> HIDE DEF g
    <2> QED BY <1>12, <2>2 DEF g
  <1> DEFINE G == {n \in 0..N : LifeSoFar(line, s, n, after[n])}
  <1>14. 0 \in G
    <2>1. after[0].open = {} /\ after[0].done = {} /\ after[0] \in Parts /\ 0 \in 0..N
          /\ 1..0 = {}
      BY <1>3, <1>5, <1>13
    <2> QED BY <2>1 DEF LifeSoFar
  <1>15. ASSUME NEW n \in 1..N, n - 1 \in G PROVE n \in G
    <2>1. LifeSoFar(line, s, n - 1, after[n - 1]) /\ n \in 0..N
      BY <1>3, <1>15
    <2>2. LifeSoFar(line, s, n, Living(line, after[n - 1], s[n]))
      <3>1. Len(s) \in Nat /\ n \in 1..Len(s)
        BY <1>3 DEF N
      <3> QED BY <1>4, <2>1, <3>1, LifeGoesOn
    <2> QED BY <1>13, <2>1, <2>2 DEF step
  <1> HIDE DEF G
  <1>16. N \in G
    BY <1>3, <1>14, <1>15, StepByStep
  <1>17. LifeSoFar(line, s, N, after[N])
    BY <1>16 DEF G
  <1>18. /\ after[N].done \subseteq Closing(after[N])
         /\ \A S \in Closing(after[N]) : \E i, j \in 1..N : Lived(line, s, i, j) /\ S = Run(s, i, j)
    <2>1. Len(s) \in Nat /\ N <= Len(s) /\ (N = Len(s) \/ line[s[N + 1]].id = "4624")
      BY <1>3 DEF N
    <2> QED BY <1>3, <1>17, <2>1, ClosingIs
  <1> QED BY <1>1, <1>17, <1>18 DEF LifeSoFar, N, s

-----------------------------------------------------------------------------
(* Stretches.                                                              *)

\* The elements i to j of s fit the window, and the next one does not.
Stretch(line, s, i, j) ==
  /\ i \in 1..Len(s) /\ j \in i..Len(s)
  /\ \A k \in i..j : line[s[k]].t - line[s[i]].t <= ActivityWindow
  /\ j = Len(s) \/ line[s[j + 1]].t - line[s[i]].t > ActivityWindow

Fits(line, s, i, n) ==
  i \in 1..n /\ \A k \in i..n : line[s[k]].t - line[s[i]].t <= ActivityWindow

StretchedSoFar(line, s, n, acc) ==
  /\ acc \in Parts
  /\ n = 0 => acc.open = {}
  /\ n # 0 => \E i \in 1..n : Fits(line, s, i, n) /\ acc.open = Run(s, i, n)
  /\ \A S \in acc.done : \E i, j \in 1..Len(s) : Stretch(line, s, i, j) /\ S = Run(s, i, j)

\* Positions in ascending order.
Rising(s) ==
  /\ Len(s) \in Nat /\ \A n \in 1..Len(s) : s[n] \in Nat
  /\ \A m, n \in 1..Len(s) : m < n => s[m] < s[n]

\* The first position of a run is its least.
LEMMA FirstOfRun ==
  ASSUME NEW s, Rising(s), NEW j \in 1..Len(s), NEW i \in 1..j
  PROVE  Min(Run(s, i, j)) = s[i] /\ Run(s, i, j) \subseteq Nat
  <1>1. i \in i..j /\ \A k \in i..j : k \in 1..Len(s) /\ i \in 1..Len(s) /\ (k = i \/ i < k)
    BY DEF Rising
  <1>2. \A x \in Run(s, i, j) : x \in Nat /\ s[i] <= x
    <2> SUFFICES ASSUME NEW k \in i..j PROVE s[k] \in Nat /\ s[i] <= s[k]
      BY DEF Run
    <2>1. s[k] \in Nat /\ s[i] \in Nat /\ (k = i \/ s[i] < s[k])
      BY <1>1 DEF Rising
    <2> QED BY <2>1
  <1>3. s[i] \in Run(s, i, j)
    BY <1>1 DEF Run
  <1> DEFINE P == Run(s, i, j)
             m == Min(P)
  <1> HIDE DEF P
  <1>4. \E x \in P : \A y \in P : x =< y
    BY <1>2, <1>3 DEF P
  <1>5. m \in P /\ \A y \in P : m =< y
    BY <1>4 DEF Min
  <1> HIDE DEF m
  <1>6. m \in Nat /\ m <= s[i] /\ s[i] <= m /\ s[i] \in Nat
    BY <1>2, <1>3, <1>5 DEF P
  <1>7. m = s[i]
    BY <1>6
  <1> QED BY <1>2, <1>7 DEF m, P

\* One step of the pass.
LEMMA StretchGoesOn ==
  ASSUME NEW line, NEW s, Rising(s), \A n \in 1..Len(s) : line[s[n]].t \in Nat,
         NEW n \in 1..Len(s), NEW acc, StretchedSoFar(line, s, n - 1, acc)
  PROVE  StretchedSoFar(line, s, n, Stretching(line, acc, s[n]))
  <1> DEFINE new == Stretching(line, acc, s[n])
  <1> SUFFICES StretchedSoFar(line, s, n, new)
    OBVIOUS
  <1>1. /\ Len(s) \in Nat /\ n \in Nat \ {0} /\ n - 1 \in Nat /\ n # 0 /\ s[n] \in Nat
        /\ ActivityWindow \in Nat /\ line[s[n]].t \in Nat
    BY CorrelationAssumption DEF Rising
  <1>2. acc \in Parts /\ acc.open \subseteq Nat /\ acc.done \subseteq SUBSET Nat
    BY DEF StretchedSoFar, Parts
  <1>3. \A S \in acc.done : \E i, j \in 1..Len(s) : Stretch(line, s, i, j) /\ S = Run(s, i, j)
    BY DEF StretchedSoFar
  <1>4. Run(s, n, n) = {s[n]}
    BY <1>1, RunIs
  <1>5. n \in 1..n /\ Fits(line, s, n, n)
    <2>1. n..n = {n} /\ n \in 1..n
      BY <1>1
    <2> QED BY <1>1, <2>1 DEF Fits
  <1>a. CASE acc.open = {}
    <2>1. new = [acc EXCEPT !.open = @ \union {s[n]}]
      BY <1>a DEF Stretching
    <2>2. new \in Parts /\ new.open = {s[n]} /\ new.done = acc.done
      BY <1>1, <1>2, <1>a, <2>1 DEF Parts
    <2> HIDE DEF new
    <2>3. \E i \in 1..n : Fits(line, s, i, n) /\ new.open = Run(s, i, n)
      BY <1>4, <1>5, <2>2
    <2> QED BY <1>1, <1>3, <2>2, <2>3 DEF StretchedSoFar
  <1>b. CASE acc.open # {}
    <2>1. n - 1 # 0
      BY <1>b DEF StretchedSoFar
    <2>2. PICK i \in 1..(n - 1) : Fits(line, s, i, n - 1) /\ acc.open = Run(s, i, n - 1)
      BY <2>1 DEF StretchedSoFar
    <2>3. n - 1 \in 1..Len(s) /\ i \in 1..Len(s) /\ i < n /\ i \in 1..n
      BY <1>1, <2>1, <2>2
    <2>4. Min(acc.open) = s[i]
      BY <2>2, <2>3, FirstOfRun
    <2>5. line[s[i]].t \in Nat
      BY <2>3
    <2>6. CASE line[s[n]].t - line[s[i]].t <= ActivityWindow
      <3>1. new = [acc EXCEPT !.open = @ \union {s[n]}]
        BY <2>4, <2>6 DEF Stretching
      <3>2. new \in Parts /\ new.open = acc.open \union {s[n]} /\ new.done = acc.done
        BY <1>1, <1>2, <3>1 DEF Parts
      <3> HIDE DEF new
      <3>3. new.open = Run(s, i, n)
        BY <1>1, <2>2, <2>3, <3>2, RunIs
      <3>4. Fits(line, s, i, n)
        <4>1. \A k \in i..n : k = n \/ k \in i..(n - 1)
          BY <1>1, <2>3
        <4> QED BY <2>2, <2>3, <2>6, <4>1 DEF Fits
      <3> QED BY <1>1, <1>3, <2>3, <3>2, <3>3, <3>4 DEF StretchedSoFar
    <2>7. CASE ~(line[s[n]].t - line[s[i]].t <= ActivityWindow)
      <3>1. new = [open |-> {s[n]}, done |-> acc.done \union {acc.open}]
        BY <1>b, <2>4, <2>7 DEF Stretching
      <3>2. /\ new \in Parts /\ new.open = {s[n]}
            /\ new.done = acc.done \union {acc.open}
        BY <1>1, <1>2, <3>1 DEF Parts
      <3> HIDE DEF new
      <3>3. Stretch(line, s, i, n - 1)
        <4>1. line[s[n]].t - line[s[i]].t > ActivityWindow /\ (n - 1) + 1 = n
          BY <1>1, <2>5, <2>7
        <4>2. n - 1 \in i..Len(s)
          BY <1>1, <2>2, <2>3
        <4> QED BY <2>2, <2>3, <4>1, <4>2 DEF Stretch, Fits
      <3>4. \E j \in 1..n : Fits(line, s, j, n) /\ new.open = Run(s, j, n)
        BY <1>4, <1>5, <3>2
      <3>5. \A S \in new.done : \E j, k \in 1..Len(s) : Stretch(line, s, j, k) /\ S = Run(s, j, k)
        BY <1>3, <2>2, <2>3, <3>2, <3>3
      <3> QED BY <1>1, <3>2, <3>4, <3>5 DEF StretchedSoFar
    <2> QED BY <2>6, <2>7
  <1> QED BY <1>a, <1>b

\* One pass cuts what an account did into stretches.
LEMMA StretchesAre ==
  ASSUME NEW line, IsTimeline(line), NEW F, NEW host, NEW user
  PROVE  LET s == Ascending(Activity(line, F, host, user))
         IN  \A S \in Stretches(line, F, host, user) :
               \E i, j \in 1..Len(s) : Stretch(line, s, i, j) /\ S = Run(s, i, j)
  <1> DEFINE P == Activity(line, F, host, user)
             s == Ascending(P)
             N == Len(s)
             empty == [open |-> {}, done |-> {}]
             step(acc, p) == Stretching(line, acc, p)
             after[n \in 0..Len(s)] == IF n = 0 THEN empty ELSE step(after[n - 1], s[n])
             pass == [x \in (1..N) \X Parts |-> step(x[2], s[x[1]])]
             end == after[N]
  <1>1. Stretches(line, F, host, user) =
          {S \in end.done \union {end.open} : Cardinality(S) >= 2}
    BY DEF Stretches
  <1> HIDE DEF after, pass
  <1>2. P \subseteq DOMAIN line /\ P \subseteq Nat /\ IsFiniteSet(P)
    <2>1. P \subseteq DOMAIN line
      BY DEF Activity
    <2> HIDE DEF P
    <2> QED BY <2>1, PositionsOf
  <1> HIDE DEF P
  <1>3. /\ N \in Nat /\ DOMAIN s = 1..N /\ \A n \in 1..N : s[n] \in P
        /\ \A m, n \in 1..N : m < n => s[m] < s[n]
    <2> DEFINE M == Cardinality(P)
    <2>1. /\ M \in Nat /\ DOMAIN s = 1..M /\ Len(s) = M /\ \A n \in 1..M : s[n] \in P
          /\ \A m, n \in 1..M : m < n => s[m] < s[n]
      BY <1>2, AscendingSorts
    <2> HIDE DEF s, M
    <2> QED BY <2>1
  <1> HIDE DEF s, N
  <1>4. N \in Nat /\ N = Len(s)
    BY <1>3 DEF N
  <1>5. \A n \in 1..N : s[n] \in Nat /\ line[s[n]].t \in Nat
    BY <1>2, <1>3 DEF IsTimeline
  <1>6. Rising(s)
    BY <1>3, <1>4, <1>5 DEF Rising
  <1>7. empty \in Parts
    BY DEF Parts
  <1>8. \A acc \in Parts, p \in Nat : step(acc, p) \in Parts
    BY DEF Parts, Stretching
  <1> HIDE DEF step
  <1>9. pass \in [(1..N) \X Parts -> Parts]
    BY <1>5, <1>8 DEF pass
  <1>10. PICK f : IsPass(f, N, Parts, empty, pass)
    <2> HIDE DEF empty
    <2> QED BY <1>4, <1>7, <1>9, PassExists
  <1>11. /\ f \in [0..N -> Parts] /\ f[0] = empty
         /\ \A n \in 1..N : f[n] = pass[<<n, f[n - 1]>>]
    BY <1>10 DEF IsPass
  <1>12. \A n \in 1..N : f[n] = step(f[n - 1], s[n])
    <2> SUFFICES ASSUME NEW n \in 1..N PROVE f[n] = step(f[n - 1], s[n])
      OBVIOUS
    <2>1. n - 1 \in 0..N
      BY <1>4
    <2>2. <<n, f[n - 1]>> \in (1..N) \X Parts
      BY <1>11, <2>1
    <2>3. pass[<<n, f[n - 1]>>] = step(f[n - 1], s[n])
      BY <2>2 DEF pass
    <2> QED BY <1>11, <2>3
  <1>13. f = [n \in 0..N |-> IF n = 0 THEN empty ELSE step(f[n - 1], s[n])]
    <2> DEFINE g == [n \in 0..N |-> IF n = 0 THEN empty ELSE step(f[n - 1], s[n])]
    <2>1. \A n \in 0..N : f[n] = g[n]
      <3> SUFFICES ASSUME NEW n \in 0..N PROVE f[n] = g[n]
        OBVIOUS
      <3>1. n = 0 \/ n \in 1..N
        BY <1>4
      <3> HIDE DEF empty
      <3> QED BY <1>11, <1>12, <3>1
    <2>2. DOMAIN f = 0..N /\ DOMAIN g = 0..N
      BY <1>11
    <2> HIDE DEF g
    <2>3. f = [n \in 0..N |-> f[n]] /\ g = [n \in 0..N |-> g[n]]
      BY <1>11, <2>2 DEF g
    <2> QED BY <2>1, <2>3 DEF g
  <1>14. after = [n \in 0..N |-> IF n = 0 THEN empty ELSE step(after[n - 1], s[n])]
    BY <1>13 DEF N, after
  <1>15. after[0] = empty /\ \A n \in 1..N : after[n] = step(after[n - 1], s[n])
    <2> DEFINE g == [n \in 0..N |-> IF n = 0 THEN empty ELSE step(after[n - 1], s[n])]
    <2> HIDE DEF empty
    <2>1. 0 \in 0..N /\ \A n \in 1..N : n \in 0..N /\ n # 0
      BY <1>4
    <2>2. g[0] = empty /\ \A n \in 1..N : g[n] = step(after[n - 1], s[n])
      BY <2>1
    <2> HIDE DEF g
    <2> QED BY <1>14, <2>2 DEF g
  <1> DEFINE G == {n \in 0..N : StretchedSoFar(line, s, n, after[n])}
  <1>16. 0 \in G
    <2>1. /\ after[0].open = {} /\ after[0].done = {} /\ after[0] \in Parts /\ 0 \in 0..N
          /\ 1..0 = {}
      BY <1>4, <1>7, <1>15
    <2> QED BY <2>1 DEF StretchedSoFar
  <1>17. ASSUME NEW n \in 1..N, n - 1 \in G PROVE n \in G
    <2>1. StretchedSoFar(line, s, n - 1, after[n - 1]) /\ n \in 0..N
      BY <1>4, <1>17
    <2>2. StretchedSoFar(line, s, n, Stretching(line, after[n - 1], s[n]))
      <3>1. n \in 1..Len(s) /\ \A m \in 1..Len(s) : line[s[m]].t \in Nat
        BY <1>4, <1>5
      <3> QED BY <1>6, <2>1, <3>1, StretchGoesOn
    <2> QED BY <1>15, <2>1, <2>2 DEF step
  <1> HIDE DEF G
  <1>18. N \in G
    BY <1>4, <1>16, <1>17, StepByStep
  <1>19. StretchedSoFar(line, s, N, after[N])
    BY <1>18 DEF G
  <1>20. SUFFICES ASSUME NEW S \in end.done \union {end.open}, Cardinality(S) >= 2
                  PROVE  \E i, j \in 1..Len(s) : Stretch(line, s, i, j) /\ S = Run(s, i, j)
    BY <1>1 DEF s, P
  <1>21. CASE S \in end.done
    BY <1>19, <1>21 DEF StretchedSoFar
  <1>22. CASE S = end.open
    <2>1. S # {}
      <3>1. SUFFICES ASSUME S = {} PROVE FALSE
        OBVIOUS
      <3>2. Cardinality(S) = 0
        BY <3>1, FS_EmptySet
      <3> QED BY <1>20, <3>2
    <2>2. PICK i \in 1..N : Fits(line, s, i, N) /\ S = Run(s, i, N)
      BY <1>19, <1>22, <2>1 DEF StretchedSoFar
    <2>3. i \in 1..Len(s) /\ N \in i..Len(s) /\ N \in 1..Len(s) /\ N = Len(s)
      BY <1>4, <2>2
    <2>4. Stretch(line, s, i, N)
      BY <2>2, <2>3 DEF Stretch, Fits
    <2> QED BY <2>2, <2>3, <2>4
  <1> QED BY <1>20, <1>21, <1>22

-----------------------------------------------------------------------------
(* The chains of rules and of sessions.                                    *)

\* What a function covers from a finite set is finite.
LEMMA CoveredIsFinite ==
  ASSUME NEW S, IsFiniteSet(S), NEW g, NEW T, \A t \in T : \E x \in S : g[x] = t
  PROVE  IsFiniteSet(T)
  <1> DEFINE P == {x \in S : g[x] \in T}
             h == [x \in P |-> g[x]]
  <1>1. IsFiniteSet(P)
    BY FS_Subset
  <1>2. \A x \in P : h[x] \in T
    OBVIOUS
  <1>3. \A t \in T : \E x \in P : h[x] = t
    OBVIOUS
  <1>4. h \in Surjection(P, T)
    BY <1>2, <1>3 DEF Surjection
  <1> QED BY <1>1, <1>4, FS_Surjection

-----------------------------------------------------------------------------
(* Rules.                                                                  *)

StartsRule(line, c, p) == Answers(line[p], c.a) /\ Follows(line, c, p) # {}

\* There is a chain for each event that starts a rule.
LEMMA RuleChainsAre ==
  ASSUME NEW line, IsTimeline(line), NEW F
  PROVE  /\ \A ch \in RuleChains(line, F) :
              \E c \in CorrelationRules, p \in DOMAIN line :
                StartsRule(line, c, p) /\ ch = RuleChain(line, F, c, p)
         /\ \A c \in CorrelationRules, p \in DOMAIN line :
              StartsRule(line, c, p) => RuleChain(line, F, c, p) \in RuleChains(line, F)
  <1>1. ASSUME NEW c \in CorrelationRules, NEW p \in DOMAIN line
        PROVE  Cardinality(RuleChain(line, F, c, p).events) >= 2 <=> Follows(line, c, p) # {}
    <2> DEFINE Q == Follows(line, c, p)
    <2>1. RuleChain(line, F, c, p).events = {p} \union Follows(line, c, p)
      BY RuleChainIs
    <2>2. RuleChain(line, F, c, p).events = Q \union {p}
      BY <2>1
    <2>3. p \in Nat /\ p \notin Q /\ Q \subseteq DOMAIN line
      BY PositionsOf DEF Follows
    <2> HIDE DEF Q
    <2>4. IsFiniteSet(Q)
      BY <2>3, PositionsOf
    <2>5. Cardinality(Q \union {p}) = Cardinality(Q) + 1
      BY <2>3, <2>4, FS_AddElement
    <2>6. Cardinality(Q) \in Nat /\ (Cardinality(Q) = 0 <=> Q = {})
      BY <2>4, FS_CardinalityType, FS_EmptySet
    <2>7. Cardinality(Q) + 1 >= 2 <=> Q # {}
      BY <2>6
    <2> QED BY <2>2, <2>5, <2>7 DEF Q
  <1> DEFINE pairs == {x \in CorrelationRules \X DOMAIN line : Answers(line[x[2]], x[1].a)}
             made == {RuleChain(line, F, pair[1], pair[2]) : pair \in pairs}
  <1>2. RuleChains(line, F) = {ch \in made : Cardinality(ch.events) >= 2}
    BY DEF RuleChains
  <1>3. \A ch \in made : \E c \in CorrelationRules, p \in DOMAIN line :
          Answers(line[p], c.a) /\ ch = RuleChain(line, F, c, p)
    OBVIOUS
  <1>4. \A c \in CorrelationRules, p \in DOMAIN line :
          Answers(line[p], c.a) => RuleChain(line, F, c, p) \in made
    <2> SUFFICES ASSUME NEW c \in CorrelationRules, NEW p \in DOMAIN line, Answers(line[p], c.a)
                 PROVE  RuleChain(line, F, c, p) \in made
      OBVIOUS
    <2>1. <<c, p>> \in pairs
      OBVIOUS
    <2> QED BY <2>1
  <1> HIDE DEF made
  <1> QED BY <1>1, <1>2, <1>3, <1>4 DEF StartsRule

\* Such a chain begins with this event.
LEMMA RuleChainIsWell ==
  ASSUME NEW line, IsTimeline(line), NEW F, IsFiniteSet(F), NEW c \in CorrelationRules,
         NEW p \in DOMAIN line
  PROVE  /\ WellChain(line, RuleChain(line, F, c, p))
         /\ RuleChain(line, F, c, p).type = c.type
         /\ c.type \notin {"session", "activity", "remote"}
         /\ Min(RuleChain(line, F, c, p).events) = p
  <1> DEFINE ch == RuleChain(line, F, c, p)
             Q == {p} \union Follows(line, c, p)
  <1>1. /\ RuleChain(line, F, c, p).events = {p} \union Follows(line, c, p)
        /\ RuleChain(line, F, c, p).type = c.type
    BY RuleChainIs
  <1>2. ch.events = Q /\ ch.type = c.type
    BY <1>1
  <1>3. ch.findings \subseteq F
    BY RuleChainFinds
  <1>4. c.type \notin {"session", "activity", "remote"}
    BY CorrelationAssumption
  <1>5. Q \subseteq DOMAIN line /\ p \in Q /\ \A q \in Q : p <= q
    BY PositionsOf DEF Follows
  <1> HIDE DEF ch, Q
  <1>6. IsFiniteSet(ch.findings)
    BY <1>3, FS_Subset
  <1>7. WellChain(line, ch)
    BY <1>2, <1>4, <1>5, <1>6 DEF WellChain
  <1>8. Min(ch.events) \in Nat /\ Min(ch.events) <= p /\ p <= Min(ch.events) /\ p \in Nat
    BY <1>2, <1>5, <1>7, FirstEventIs, PositionsOf
  <1> QED BY <1>2, <1>4, <1>7, <1>8 DEF ch

-----------------------------------------------------------------------------
(* Sessions.                                                               *)

SessionChain(line, F, n, P) ==
  Chain("session", P, About(line, F, P),
        IF Reused(line, n[1], n[2])
        THEN <<n[1], n[2], Key(line[CHOOSE p \in P : line[p].id = "4624"])>> ELSE <<>>)

SessionName(line, p) == <<line[p].host, Session(line[p])>>

LifeOf(line, p) == Lifeline(line, line[p].host, Session(line[p]))

\* There is a chain for each segment of a session with a name.
LEMMA SessionChainsAre ==
  ASSUME NEW line, NEW F
  PROVE  /\ \A ch \in SessionChains(line, F) :
              \E p \in DOMAIN line :
                /\ IsName(Session(line[p]))
                /\ \E P \in Segments(line, line[p].host, Session(line[p])) :
                     ch = SessionChain(line, F, SessionName(line, p), P)
         /\ \A p \in DOMAIN line :
              IsName(Session(line[p])) =>
                \A P \in Segments(line, line[p].host, Session(line[p])) :
                  SessionChain(line, F, SessionName(line, p), P) \in SessionChains(line, F)
  <1> DEFINE named == {q \in DOMAIN line : Session(line[q]) # ""}
             names == {SessionName(line, p) : p \in named}
             of(n) == {SessionChain(line, F, n, P) : P \in Segments(line, n[1], n[2])}
  <1>1. SessionChains(line, F) = UNION {of(n) : n \in names}
    BY DEF SessionChains, SessionChain, SessionName
  <1>2. \A p : SessionName(line, p)[1] = line[p].host /\ SessionName(line, p)[2] = Session(line[p])
    BY DEF SessionName
  <1>3. \A p \in DOMAIN line : p \in named <=> IsName(Session(line[p]))
    BY DEF IsName
  <1>4. named \subseteq DOMAIN line
    OBVIOUS
  <1> HIDE DEF named
  <1>5. ASSUME NEW ch \in SessionChains(line, F)
        PROVE  \E p \in DOMAIN line :
                 /\ IsName(Session(line[p]))
                 /\ \E P \in Segments(line, line[p].host, Session(line[p])) :
                      ch = SessionChain(line, F, SessionName(line, p), P)
    <2>1. PICK p \in named : ch \in of(SessionName(line, p))
      BY <1>1
    <2>2. PICK P \in Segments(line, SessionName(line, p)[1], SessionName(line, p)[2]) :
            ch = SessionChain(line, F, SessionName(line, p), P)
      BY <2>1
    <2> QED BY <1>2, <1>3, <1>4, <2>2
  <1>6. ASSUME NEW p \in DOMAIN line, IsName(Session(line[p])),
               NEW P \in Segments(line, line[p].host, Session(line[p]))
        PROVE  SessionChain(line, F, SessionName(line, p), P) \in SessionChains(line, F)
    <2>1. p \in named
      BY <1>3, <1>6
    <2>2. P \in Segments(line, SessionName(line, p)[1], SessionName(line, p)[2])
      BY <1>2
    <2>3. SessionChain(line, F, SessionName(line, p), P) \in of(SessionName(line, p))
      BY <2>2
    <2> QED BY <1>1, <2>1, <2>3
  <1> QED BY <1>5, <1>6

\* The elements of a lifetime.
LEMMA LifeElements ==
  ASSUME NEW line, IsTimeline(line), NEW host, NEW session
  PROVE  LET s == Lifeline(line, host, session)
         IN  /\ Len(s) \in Nat
             /\ \A k \in 1..Len(s) :
                  /\ s[k] \in DOMAIN line /\ s[k] \in Nat /\ line[s[k]].t \in Nat
                  /\ line[s[k]].host = host /\ Session(line[s[k]]) = session
             /\ \A m, n \in 1..Len(s) : s[m] = s[n] => m = n
             /\ \A m, n \in 1..Len(s) : m <= n => line[s[m]].t <= line[s[n]].t
             /\ \A p \in DOMAIN line :
                  line[p].host = host /\ Session(line[p]) = session =>
                    \E k \in 1..Len(s) : Key(line[s[k]]) = Key(line[p])
             /\ \A m, n \in 1..Len(s) : Key(line[s[m]]) = Key(line[s[n]]) => m = n
  <1> DEFINE s == Lifeline(line, host, session)
             S == Once(line, host, session)
             L == LifeEvents(line, host, session)
  <1>1. Enumerates(s, S) /\ InTime(line, s)
    BY LifelineIs
  <1> HIDE DEF s
  <1>2. Len(s) \in Nat
    BY <1>1 DEF Enumerates
  <1>3. \A p \in S : /\ p \in DOMAIN line /\ p \in Nat /\ line[p].t \in Nat
                     /\ line[p].host = host /\ Session(line[p]) = session
    BY PositionsOf DEF Once, LifeEvents, IsTimeline
  <1>4. \A k \in 1..Len(s) : s[k] \in S
    BY <1>1 DEF Enumerates
  <1>5. \A k \in 1..Len(s) :
                  /\ s[k] \in DOMAIN line /\ s[k] \in Nat /\ line[s[k]].t \in Nat
                  /\ line[s[k]].host = host /\ Session(line[s[k]]) = session
    BY <1>3, <1>4
  <1>6. \A m, n \in 1..Len(s) : s[m] = s[n] => m = n
    <2> SUFFICES ASSUME NEW m \in 1..Len(s), NEW n \in 1..Len(s), s[m] = s[n] PROVE m = n
      OBVIOUS
    <2>1. ~(m < n) /\ ~(n < m)
      BY <1>1 DEF Enumerates
    <2> QED BY <2>1
  <1>7. \A m, n \in 1..Len(s) : m <= n => line[s[m]].t <= line[s[n]].t
    <2> SUFFICES ASSUME NEW m \in 1..Len(s), NEW n \in 1..Len(s), m <= n
                 PROVE  line[s[m]].t <= line[s[n]].t
      OBVIOUS
    <2>1. m < n => line[s[m]].t <= line[s[n]].t
      BY <1>1 DEF InTime
    <2>2. m = n => line[s[m]].t <= line[s[n]].t
      BY <1>5
    <2> QED BY <2>1, <2>2
  <1>8. ASSUME NEW p \in DOMAIN line, line[p].host = host, Session(line[p]) = session
        PROVE  \E k \in 1..Len(s) : Key(line[s[k]]) = Key(line[p])
    <2> DEFINE Q == {q \in L : Key(line[q]) = Key(line[p])}
    <2>1. p \in Q /\ Q \subseteq Nat /\ IsFiniteSet(Q)
      <3>1. Q \subseteq DOMAIN line
        BY DEF LifeEvents
      <3>2. p \in Q
        BY <1>8 DEF LifeEvents
      <3> HIDE DEF Q
      <3> QED BY <3>1, <3>2, PositionsOf
    <2>2. Min(Q) \in Q /\ \A q \in Q : Min(Q) <= q
      BY <2>1, Extremes
    <2>3. Min(Q) \in S /\ Key(line[Min(Q)]) = Key(line[p])
      BY <2>2 DEF Once
    <2>4. PICK k \in 1..Len(s) : s[k] = Min(Q)
      BY <1>1, <2>3 DEF Enumerates
    <2> QED BY <2>3, <2>4
  <1>9. ASSUME NEW m \in 1..Len(s), NEW n \in 1..Len(s), Key(line[s[m]]) = Key(line[s[n]])
        PROVE  m = n
    <2>1. s[m] \in S /\ s[n] \in S
      BY <1>4
    <2>2. s[m] <= s[n] /\ s[n] <= s[m] /\ s[m] \in Nat /\ s[n] \in Nat
      BY <1>5, <1>9, <2>1 DEF Once
    <2>3. s[m] = s[n]
      BY <2>2
    <2> QED BY <1>6, <2>3
  <1> QED BY <1>2, <1>5, <1>6, <1>7, <1>8, <1>9 DEF s

\* The elements of the lifetime of the session an event belongs to.
LEMMA LifeOfElements ==
  ASSUME NEW line, IsTimeline(line), NEW p
  PROVE  /\ Len(LifeOf(line, p)) \in Nat
         /\ \A k \in 1..Len(LifeOf(line, p)) :
              /\ LifeOf(line, p)[k] \in DOMAIN line /\ LifeOf(line, p)[k] \in Nat
              /\ line[LifeOf(line, p)[k]].t \in Nat
              /\ line[LifeOf(line, p)[k]].host = line[p].host
              /\ Session(line[LifeOf(line, p)[k]]) = Session(line[p])
         /\ \A m, n \in 1..Len(LifeOf(line, p)) :
              LifeOf(line, p)[m] = LifeOf(line, p)[n] => m = n
         /\ \A m, n \in 1..Len(LifeOf(line, p)) :
              m <= n => line[LifeOf(line, p)[m]].t <= line[LifeOf(line, p)[n]].t
         /\ \A q \in DOMAIN line :
              line[q].host = line[p].host /\ Session(line[q]) = Session(line[p]) =>
                \E k \in 1..Len(LifeOf(line, p)) :
                  Key(line[LifeOf(line, p)[k]]) = Key(line[q])
         /\ \A m, n \in 1..Len(LifeOf(line, p)) :
              Key(line[LifeOf(line, p)[m]]) = Key(line[LifeOf(line, p)[n]]) => m = n
  <1>1. /\ Len(LifeOf(line, p)) \in Nat
        /\ \A m, n \in 1..Len(LifeOf(line, p)) :
             LifeOf(line, p)[m] = LifeOf(line, p)[n] => m = n
    BY LifeElements, ZenonT(40) DEF LifeOf
  <1>2. \A k \in 1..Len(LifeOf(line, p)) :
          /\ LifeOf(line, p)[k] \in DOMAIN line /\ LifeOf(line, p)[k] \in Nat
          /\ line[LifeOf(line, p)[k]].t \in Nat
          /\ line[LifeOf(line, p)[k]].host = line[p].host
          /\ Session(line[LifeOf(line, p)[k]]) = Session(line[p])
    BY LifeElements, SMTT(30) DEF LifeOf
  <1>3. \A m, n \in 1..Len(LifeOf(line, p)) :
          m <= n => line[LifeOf(line, p)[m]].t <= line[LifeOf(line, p)[n]].t
    BY LifeElements, ZenonT(40) DEF LifeOf
  <1>4. \A q \in DOMAIN line :
          line[q].host = line[p].host /\ Session(line[q]) = Session(line[p]) =>
            \E k \in 1..Len(LifeOf(line, p)) :
              Key(line[LifeOf(line, p)[k]]) = Key(line[q])
    <2> DEFINE s == Lifeline(line, line[p].host, Session(line[p]))
    <2>1. \A q \in DOMAIN line :
            line[q].host = line[p].host /\ Session(line[q]) = Session(line[p]) =>
              \E k \in 1..Len(s) : Key(line[s[k]]) = Key(line[q])
      BY LifeElements, SMTT(30)
    <2>2. LifeOf(line, p) = s
      BY DEF LifeOf
    <2> HIDE DEF s
    <2> QED BY <2>1, <2>2, SMTT(30)
  <1>5. \A m, n \in 1..Len(LifeOf(line, p)) :
          Key(line[LifeOf(line, p)[m]]) = Key(line[LifeOf(line, p)[n]]) => m = n
    BY LifeElements, ZenonT(40) DEF LifeOf
  <1> QED BY <1>1, <1>2, <1>3, <1>4, <1>5, ZenonT(40)

\* Two lifetimes with a common element are one.
LEMMA LivesAreApart ==
  ASSUME NEW line, NEW s, Len(s) \in Nat, NEW i, NEW j, NEW m, NEW n,
         Lived(line, s, i, j), Lived(line, s, m, n), NEW k \in i..j, k \in m..n
  PROVE  i = m /\ j = n
  <1>1. /\ i \in 1..Len(s) /\ j \in 1..Len(s) /\ i < j /\ m \in 1..Len(s) /\ n \in 1..Len(s) /\ m < n
        /\ i \in Nat /\ j \in Nat /\ m \in Nat /\ n \in Nat /\ k \in Nat
        /\ i <= k /\ k <= j /\ m <= k /\ k <= n
    BY DEF Lived
  <1>2. \A q \in (i + 1)..j : line[s[q]].id \in {"4647", "4634"}
    <2> SUFFICES ASSUME NEW q \in (i + 1)..j PROVE line[s[q]].id \in {"4647", "4634"}
      OBVIOUS
    <2>1. q = j \/ q \in (i + 1)..(j - 1)
      BY <1>1
    <2> QED BY <2>1 DEF Lived
  <1>3. \A q \in (m + 1)..n : line[s[q]].id \in {"4647", "4634"}
    <2> SUFFICES ASSUME NEW q \in (m + 1)..n PROVE line[s[q]].id \in {"4647", "4634"}
      OBVIOUS
    <2>1. q = n \/ q \in (m + 1)..(n - 1)
      BY <1>1
    <2> QED BY <2>1 DEF Lived
  <1>4. line[s[i]].id = "4624" /\ line[s[m]].id = "4624"
    BY DEF Lived
  <1>5. ~(i < m)
    <2>1. i < m => m \in (i + 1)..j
      BY <1>1
    <2> QED BY <1>2, <1>4, <2>1
  <1>6. ~(m < i)
    <2>1. m < i => i \in (m + 1)..n
      BY <1>1
    <2> QED BY <1>3, <1>4, <2>1
  <1>7. i = m
    BY <1>1, <1>5, <1>6
  <1>8. ~(j < n)
    <2>1. SUFFICES ASSUME j < n PROVE FALSE
      OBVIOUS
    <2>2. j \in (m + 1)..(n - 1) /\ j + 1 \in (m + 1)..n /\ j # Len(s)
      BY <1>1, <1>7, <2>1
    <2>3. line[s[j]].id = "4647" /\ line[s[j + 1]].id \in {"4647", "4634"}
      BY <1>3, <2>2 DEF Lived
    <2> QED BY <2>2, <2>3 DEF Lived
  <1>9. ~(n < j)
    <2>1. SUFFICES ASSUME n < j PROVE FALSE
      OBVIOUS
    <2>2. n \in (i + 1)..(j - 1) /\ n + 1 \in (i + 1)..j /\ n # Len(s)
      BY <1>1, <1>7, <2>1
    <2>3. line[s[n]].id = "4647" /\ line[s[n + 1]].id \in {"4647", "4634"}
      BY <1>2, <2>2 DEF Lived
    <2> QED BY <2>2, <2>3 DEF Lived
  <1>10. j = n
    BY <1>1, <1>8, <1>9
  <1> QED BY <1>7, <1>10

\* What a session chain is.
LEMMA SessionChainIs ==
  ASSUME NEW line, IsTimeline(line), NEW F, NEW ch \in SessionChains(line, F)
  PROVE  \E p \in DOMAIN line : \E i, j \in 1..Len(LifeOf(line, p)) :
           /\ IsName(Session(line[p])) /\ Lived(line, LifeOf(line, p), i, j)
           /\ ch = SessionChain(line, F, SessionName(line, p), Run(LifeOf(line, p), i, j))
  <1>1. PICK p \in DOMAIN line :
          /\ IsName(Session(line[p]))
          /\ \E P \in Segments(line, line[p].host, Session(line[p])) :
               ch = SessionChain(line, F, SessionName(line, p), P)
    BY SessionChainsAre
  <1>2. PICK P \in Segments(line, line[p].host, Session(line[p])) :
          ch = SessionChain(line, F, SessionName(line, p), P)
    BY <1>1
  <1> DEFINE s == LifeOf(line, p)
  <1>3. \E i, j \in 1..Len(s) : Lived(line, s, i, j) /\ P = Run(s, i, j)
    BY <1>1, SegmentsAre DEF LifeOf
  <1> QED BY <1>1, <1>2, <1>3

\* What is in a run.
LEMMA RunElements ==
  ASSUME NEW s, NEW i, NEW j
  PROVE  \A x : x \in Run(s, i, j) <=> \E k \in i..j : x = s[k]
  BY DEF Run

\* A session chain is a chain.
LEMMA SessionChainIsWell ==
  ASSUME NEW line, IsTimeline(line), NEW F, IsFiniteSet(F), NEW ch \in SessionChains(line, F)
  PROVE  WellChain(line, ch) /\ ch.type = "session"
  <1>1. PICK p \in DOMAIN line : \E i, j \in 1..Len(LifeOf(line, p)) :
           /\ IsName(Session(line[p])) /\ Lived(line, LifeOf(line, p), i, j)
           /\ ch = SessionChain(line, F, SessionName(line, p), Run(LifeOf(line, p), i, j))
    BY SessionChainIs
  <1>2. PICK i \in 1..Len(LifeOf(line, p)), j \in 1..Len(LifeOf(line, p)) :
           /\ IsName(Session(line[p])) /\ Lived(line, LifeOf(line, p), i, j)
           /\ ch = SessionChain(line, F, SessionName(line, p), Run(LifeOf(line, p), i, j))
    BY <1>1
  <1> DEFINE s == LifeOf(line, p)
  <1>3. Len(s) \in Nat /\ \A k \in 1..Len(s) : s[k] \in DOMAIN line
    BY LifeOfElements
  <1>4. ch.events = Run(s, i, j) /\ ch.type = "session" /\ ch.findings \subseteq F
    BY <1>2 DEF SessionChain, Chain, About
  <1>5. i \in i..j /\ \A k \in i..j : k \in 1..Len(s)
    BY <1>2, <1>3 DEF Lived
  <1>6. s[i] \in ch.events /\ \A x \in ch.events : \E k \in i..j : x = s[k]
    BY <1>4, <1>5, RunElements
  <1> HIDE DEF s
  <1>7. ch.events \subseteq DOMAIN line /\ ch.events # {}
    BY <1>3, <1>5, <1>6
  <1>8. IsFiniteSet(ch.findings)
    BY <1>4, FS_Subset
  <1> QED BY <1>4, <1>7, <1>8 DEF WellChain

\* Session chains have no event in common.
LEMMA SessionChainsAreApart ==
  ASSUME NEW line, IsTimeline(line), NEW F, NEW a \in SessionChains(line, F),
         NEW b \in SessionChains(line, F), NEW x \in a.events, x \in b.events
  PROVE  a = b
  <1>1. PICK p \in DOMAIN line : \E i, j \in 1..Len(LifeOf(line, p)) :
           /\ IsName(Session(line[p])) /\ Lived(line, LifeOf(line, p), i, j)
           /\ a = SessionChain(line, F, SessionName(line, p), Run(LifeOf(line, p), i, j))
    BY SessionChainIs
  <1>2. PICK i \in 1..Len(LifeOf(line, p)), j \in 1..Len(LifeOf(line, p)) :
           /\ IsName(Session(line[p])) /\ Lived(line, LifeOf(line, p), i, j)
           /\ a = SessionChain(line, F, SessionName(line, p), Run(LifeOf(line, p), i, j))
    BY <1>1
  <1>3. PICK q \in DOMAIN line : \E m, n \in 1..Len(LifeOf(line, q)) :
           /\ IsName(Session(line[q])) /\ Lived(line, LifeOf(line, q), m, n)
           /\ b = SessionChain(line, F, SessionName(line, q), Run(LifeOf(line, q), m, n))
    BY SessionChainIs
  <1>4. PICK m \in 1..Len(LifeOf(line, q)), n \in 1..Len(LifeOf(line, q)) :
           /\ IsName(Session(line[q])) /\ Lived(line, LifeOf(line, q), m, n)
           /\ b = SessionChain(line, F, SessionName(line, q), Run(LifeOf(line, q), m, n))
    BY <1>3
  <1>5. a.events = Run(LifeOf(line, p), i, j) /\ b.events = Run(LifeOf(line, q), m, n)
    BY <1>2, <1>4 DEF SessionChain, Chain
  <1>6. PICK k \in i..j : x = LifeOf(line, p)[k]
    BY <1>5, RunElements
  <1>7. PICK l \in m..n : x = LifeOf(line, q)[l]
    BY <1>5, RunElements
  <1>8. /\ Len(LifeOf(line, p)) \in Nat
        /\ \A o \in 1..Len(LifeOf(line, p)) : /\ line[LifeOf(line, p)[o]].host = line[p].host
                                              /\ Session(line[LifeOf(line, p)[o]]) = Session(line[p])
    BY LifeOfElements
  <1>9. /\ Len(LifeOf(line, q)) \in Nat
        /\ \A o \in 1..Len(LifeOf(line, q)) : /\ line[LifeOf(line, q)[o]].host = line[q].host
                                              /\ Session(line[LifeOf(line, q)[o]]) = Session(line[q])
    BY LifeOfElements
  <1>10. k \in 1..Len(LifeOf(line, p)) /\ l \in 1..Len(LifeOf(line, q))
    BY <1>2, <1>4, <1>6, <1>7, <1>8, <1>9
  <1>11. line[p].host = line[q].host /\ Session(line[p]) = Session(line[q])
    <2>1. line[x].host = line[p].host /\ Session(line[x]) = Session(line[p])
      BY <1>6, <1>8, <1>10
    <2>2. line[x].host = line[q].host /\ Session(line[x]) = Session(line[q])
      BY <1>7, <1>9, <1>10
    <2> QED BY <2>1, <2>2
  <1>12. LifeOf(line, p) = LifeOf(line, q) /\ SessionName(line, p) = SessionName(line, q)
    BY <1>11 DEF LifeOf, SessionName
  <1>13. k = l
    <2> DEFINE s == LifeOf(line, p)
    <2>1. \A o, r \in 1..Len(s) : s[o] = s[r] => o = r
      BY LifeOfElements
    <2> QED BY <1>6, <1>7, <1>10, <1>12, <2>1
  <1>14. i = m /\ j = n
    BY <1>2, <1>4, <1>6, <1>7, <1>8, <1>12, <1>13, LivesAreApart
  <1> QED BY <1>2, <1>4, <1>12, <1>14

-----------------------------------------------------------------------------
(* Activities.                                                             *)

ActivityChain(line, F, P) == Chain("activity", P, About(line, F, P), <<>>)

ActivityOf(line, F, p) == Ascending(Activity(line, F, line[p].host, line[p].user))

\* What an activity chain is.
LEMMA ActivityChainIs ==
  ASSUME NEW line, IsTimeline(line), NEW F, NEW ch \in ActivityChains(line, F)
  PROVE  \E p \in DOMAIN line : \E i, j \in 1..Len(ActivityOf(line, F, p)) :
           /\ IsName(line[p].user) /\ Stretch(line, ActivityOf(line, F, p), i, j)
           /\ ch = ActivityChain(line, F, Run(ActivityOf(line, F, p), i, j))
  <1> DEFINE named == {q \in DOMAIN line : line[q].user # ""}
             account(p) == <<line[p].host, line[p].user>>
             accounts == {account(p) : p \in named}
             of(a) == {ActivityChain(line, F, P) : P \in Stretches(line, F, a[1], a[2])}
  <1>1. ActivityChains(line, F) = UNION {of(a) : a \in accounts}
    BY DEF ActivityChains, ActivityChain
  <1>2. \A p \in named : p \in DOMAIN line /\ IsName(line[p].user)
    BY DEF IsName
  <1> HIDE DEF named
  <1>3. PICK p \in named : ch \in of(account(p))
    BY <1>1
  <1>4. PICK P \in Stretches(line, F, line[p].host, line[p].user) : ch = ActivityChain(line, F, P)
    BY <1>3
  <1> DEFINE s == ActivityOf(line, F, p)
  <1>5. \E i, j \in 1..Len(s) : Stretch(line, s, i, j) /\ P = Run(s, i, j)
    BY <1>4, StretchesAre DEF ActivityOf
  <1> QED BY <1>2, <1>4, <1>5

\* The activity of an account on a host, in the order of the timeline.
LEMMA ActivityElements ==
  ASSUME NEW line, IsTimeline(line), NEW F, NEW p
  PROVE  LET s == ActivityOf(line, F, p)
         IN  /\ Rising(s) /\ Len(s) \in Nat
             /\ \A k \in 1..Len(s) : /\ s[k] \in DOMAIN line /\ line[s[k]].t \in Nat
                                     /\ s[k] \in Activity(line, F, line[p].host, line[p].user)
             /\ \A q \in Activity(line, F, line[p].host, line[p].user) :
                  \E k \in 1..Len(s) : s[k] = q
             /\ \A m, n \in 1..Len(s) : s[m] = s[n] => m = n
             /\ \A m, n \in 1..Len(s) : m <= n => line[s[m]].t <= line[s[n]].t
  <1> DEFINE P == Activity(line, F, line[p].host, line[p].user)
             s == Ascending(P)
             N == Cardinality(P)
  <1>1. P \subseteq DOMAIN line
    BY DEF Activity
  <1> HIDE DEF P
  <1>2. P \subseteq Nat /\ IsFiniteSet(P)
    BY <1>1, PositionsOf
  <1>3. /\ N \in Nat /\ Len(s) = N /\ \A n \in 1..N : s[n] \in P
        /\ \A x \in P : \E n \in 1..N : s[n] = x
        /\ \A m, n \in 1..N : m < n => s[m] < s[n]
    BY <1>2, AscendingSorts
  <1> HIDE DEF s, N
  <1>4. Rising(s) /\ Len(s) \in Nat
    BY <1>2, <1>3 DEF Rising
  <1>5. \A k \in 1..Len(s) : s[k] \in DOMAIN line /\ line[s[k]].t \in Nat /\ s[k] \in P
    BY <1>1, <1>3 DEF IsTimeline
  <1>6. ASSUME NEW m \in 1..Len(s), NEW n \in 1..Len(s), s[m] = s[n] PROVE m = n
    <2>1. s[m] \in Nat /\ s[n] \in Nat /\ (m < n => s[m] < s[n]) /\ (n < m => s[n] < s[m])
      BY <1>4 DEF Rising
    <2> QED BY <1>6, <2>1
  <1>7. ASSUME NEW m \in 1..Len(s), NEW n \in 1..Len(s), m <= n
        PROVE  line[s[m]].t <= line[s[n]].t
    <2>1. CASE m = n
      BY <1>5, <2>1
    <2>2. CASE m < n
      <3>1. s[m] < s[n]
        BY <1>4, <2>2 DEF Rising
      <3> QED BY <1>5, <3>1 DEF IsTimeline
    <2> QED BY <1>7, <2>1, <2>2
  <1> QED BY <1>3, <1>4, <1>5, <1>6, <1>7 DEF ActivityOf, s, P

\* An activity chain is a chain.
LEMMA ActivityChainIsWell ==
  ASSUME NEW line, IsTimeline(line), NEW F, IsFiniteSet(F), NEW ch \in ActivityChains(line, F)
  PROVE  WellChain(line, ch) /\ ch.type = "activity"
  <1>1. PICK p \in DOMAIN line : \E i, j \in 1..Len(ActivityOf(line, F, p)) :
           /\ IsName(line[p].user) /\ Stretch(line, ActivityOf(line, F, p), i, j)
           /\ ch = ActivityChain(line, F, Run(ActivityOf(line, F, p), i, j))
    BY ActivityChainIs
  <1>2. PICK i \in 1..Len(ActivityOf(line, F, p)), j \in 1..Len(ActivityOf(line, F, p)) :
           /\ IsName(line[p].user) /\ Stretch(line, ActivityOf(line, F, p), i, j)
           /\ ch = ActivityChain(line, F, Run(ActivityOf(line, F, p), i, j))
    BY <1>1
  <1> DEFINE s == ActivityOf(line, F, p)
  <1>3. Len(s) \in Nat /\ \A k \in 1..Len(s) : s[k] \in DOMAIN line
    BY ActivityElements
  <1>4. ch.events = Run(s, i, j) /\ ch.type = "activity" /\ ch.findings \subseteq F
    BY <1>2 DEF ActivityChain, Chain, About
  <1>5. i \in i..j /\ \A k \in i..j : k \in 1..Len(s)
    BY <1>2, <1>3 DEF Stretch
  <1>6. s[i] \in ch.events /\ \A x \in ch.events : \E k \in i..j : x = s[k]
    BY <1>4, <1>5, RunElements
  <1> HIDE DEF s
  <1>7. ch.events \subseteq DOMAIN line /\ ch.events # {}
    BY <1>3, <1>5, <1>6
  <1>8. IsFiniteSet(ch.findings)
    BY <1>4, FS_Subset
  <1> QED BY <1>4, <1>7, <1>8 DEF WellChain

\* An activity chain is told from others by its first event.
LEMMA ActivityChainsAreApart ==
  ASSUME NEW line, IsTimeline(line), NEW F, NEW a \in ActivityChains(line, F),
         NEW b \in ActivityChains(line, F), Min(a.events) = Min(b.events)
  PROVE  a = b
  <1>1. PICK p \in DOMAIN line : \E i, j \in 1..Len(ActivityOf(line, F, p)) :
           /\ IsName(line[p].user) /\ Stretch(line, ActivityOf(line, F, p), i, j)
           /\ a = ActivityChain(line, F, Run(ActivityOf(line, F, p), i, j))
    BY ActivityChainIs
  <1>2. PICK i \in 1..Len(ActivityOf(line, F, p)), j \in 1..Len(ActivityOf(line, F, p)) :
           /\ IsName(line[p].user) /\ Stretch(line, ActivityOf(line, F, p), i, j)
           /\ a = ActivityChain(line, F, Run(ActivityOf(line, F, p), i, j))
    BY <1>1
  <1>3. PICK q \in DOMAIN line : \E m, n \in 1..Len(ActivityOf(line, F, q)) :
           /\ IsName(line[q].user) /\ Stretch(line, ActivityOf(line, F, q), m, n)
           /\ b = ActivityChain(line, F, Run(ActivityOf(line, F, q), m, n))
    BY ActivityChainIs
  <1>4. PICK m \in 1..Len(ActivityOf(line, F, q)), n \in 1..Len(ActivityOf(line, F, q)) :
           /\ IsName(line[q].user) /\ Stretch(line, ActivityOf(line, F, q), m, n)
           /\ b = ActivityChain(line, F, Run(ActivityOf(line, F, q), m, n))
    BY <1>3
  <1> DEFINE s == ActivityOf(line, F, p)
             u == ActivityOf(line, F, q)
  <1>5. a.events = Run(s, i, j) /\ b.events = Run(u, m, n)
    BY <1>2, <1>4 DEF ActivityChain, Chain
  <1>6. Rising(s) /\ Rising(u) /\ Len(s) \in Nat /\ Len(u) \in Nat
    BY ActivityElements
  <1>7. i \in 1..j /\ m \in 1..n
    BY <1>2, <1>4, <1>6 DEF Stretch
  <1>8. Min(Run(s, i, j)) = s[i] /\ Min(Run(u, m, n)) = u[m]
    BY <1>2, <1>4, <1>6, <1>7, FirstOfRun
  <1>9. s[i] = u[m]
    BY <1>5, <1>8
  <1>10. /\ s[i] \in Activity(line, F, line[p].host, line[p].user)
         /\ u[m] \in Activity(line, F, line[q].host, line[q].user)
    BY <1>2, <1>4, ActivityElements
  <1>11. line[p].host = line[q].host /\ line[p].user = line[q].user
    BY <1>9, <1>10 DEF Activity
  <1>12. s = u
    BY <1>11 DEF ActivityOf
  <1>13. i = m
    BY <1>2, <1>4, <1>9, <1>12, ActivityElements
  <1> HIDE DEF s, u
  <1>14. Stretch(line, s, i, j) /\ Stretch(line, s, i, n)
    BY <1>2, <1>4, <1>12, <1>13 DEF s, u
  <1>15. ~(j < n) /\ ~(n < j)
    <2>1. ASSUME NEW k, NEW l, Stretch(line, s, i, k), Stretch(line, s, i, l), k < l PROVE FALSE
      <3>1. k \in 1..Len(s) /\ l \in 1..Len(s) /\ k + 1 \in i..l /\ k # Len(s) /\ i \in 1..Len(s)
        BY <1>6, <2>1 DEF Stretch
      <3>2. /\ line[s[k + 1]].t - line[s[i]].t <= ActivityWindow
            /\ line[s[k + 1]].t - line[s[i]].t > ActivityWindow
        BY <2>1, <3>1 DEF Stretch
      <3>3. k + 1 \in 1..Len(s)
        BY <1>6, <3>1
      <3>4. line[s[k + 1]].t \in Nat /\ line[s[i]].t \in Nat /\ ActivityWindow \in Nat
        BY <3>1, <3>3, ActivityElements, CorrelationAssumption DEF s
      <3> QED BY <3>2, <3>4
    <2> QED BY <1>14, <2>1
  <1>16. j = n
    BY <1>6, <1>14, <1>15 DEF Stretch
  <1> QED BY <1>2, <1>4, <1>12, <1>13, <1>16 DEF s, u

-----------------------------------------------------------------------------
(* Remote commands.                                                        *)

\* The parts of RemoteMatches.
TargetsOf(line, x) == Resolves(line, Call(line, x).target)

TargetOf(line, x) == CHOOSE h \in TargetsOf(line, x) : TRUE

Crossing(line) ==
  {x \in Calls(line) : /\ Cardinality(TargetsOf(line, x)) = 1
                       /\ line[x[1]].host \notin TargetsOf(line, x)}

Marker(line, x) == <<Key(line[x[1]]), TargetsOf(line, x), Kind(Call(line, x))>>

Counted(line) ==
  {x \in Crossing(line) : \A y \in Crossing(line) : Marker(line, y) = Marker(line, x) => ~Earlier(y, x)}

EvidenceOf(line, x) == Evidence(line, x, TargetOf(line, x))

Operation(line, x) ==
  <<line[x[1]].host, TargetsOf(line, x), Kind(Call(line, x)), Keys(line, EvidenceOf(line, x))>>

Effective(line) == {x \in Counted(line) : EvidenceOf(line, x) # {}}

FirstCalls(line) ==
  {x \in Effective(line) :
     \A y \in Effective(line) : Operation(line, y) = Operation(line, x) => ~Earlier(y, x)}

MatchOf(line, x) ==
  [source |-> line[x[1]].host, target |-> TargetOf(line, x), method |-> Call(line, x).method,
   of |-> x, events |-> {x[1]} \union EvidenceOf(line, x)]

RemoteChain(line, F, x) ==
  [Chain("remote", {x[1]} \union EvidenceOf(line, x),
         About(line, F, {x[1]} \union EvidenceOf(line, x)), <<>>)
     EXCEPT !.remote = [source |-> line[x[1]].host, target |-> TargetOf(line, x),
                        method |-> Call(line, x).method, of |-> x]]

\* There is a match for each call that counts.
LEMMA RemoteMatchesAre ==
  ASSUME NEW line
  PROVE  RemoteMatches(line) = {MatchOf(line, x) : x \in FirstCalls(line)}
  BY DEF RemoteMatches, MatchOf, FirstCalls, Effective, Operation, EvidenceOf, Counted, Marker,
         Crossing, TargetOf, TargetsOf, Keys

\* There is a chain for each call that counts.
LEMMA RemoteChainsAre ==
  ASSUME NEW line, NEW F
  PROVE  /\ \A ch \in RemoteChains(line, F) : \E x \in FirstCalls(line) : ch = RemoteChain(line, F, x)
         /\ \A x \in FirstCalls(line) : RemoteChain(line, F, x) \in RemoteChains(line, F)
  <1> DEFINE chain(m) ==
               [Chain("remote", m.events, About(line, F, m.events), <<>>)
                  EXCEPT !.remote = [source |-> m.source, target |-> m.target,
                                     method |-> m.method, of |-> m.of]]
  <1>1. RemoteChains(line, F) = {chain(m) : m \in RemoteMatches(line)}
    BY DEF RemoteChains
  <1>2. \A x : chain(MatchOf(line, x)) = RemoteChain(line, F, x)
    BY DEF MatchOf, RemoteChain
  <1> HIDE DEF chain
  <1> QED BY <1>1, <1>2, RemoteMatchesAre

\* What such a chain is.
LEMMA RemoteChainIs ==
  ASSUME NEW line, NEW F, NEW x
  PROVE  LET ch == RemoteChain(line, F, x)
         IN  /\ ch.type = "remote" /\ ch.events = {x[1]} \union EvidenceOf(line, x)
             /\ ch.findings = About(line, F, ch.events)
             /\ ch.remote.of = x /\ ch.remote.source = line[x[1]].host
             /\ ch.remote.target = TargetOf(line, x) /\ ch.remote.method = Call(line, x).method
  BY DEF RemoteChain, Chain

\* A call is the number of a position and of one of its commands.
LEMMA CallIs ==
  ASSUME NEW line, IsTimeline(line), NEW x \in Calls(line)
  PROVE  /\ x \in Nat \X Nat /\ x = <<x[1], x[2]>> /\ x[1] \in DOMAIN line
         /\ x[2] \in DOMAIN line[x[1]].calls /\ line[x[1]].id \in {"1", "4104", "4688"}
  <1> DEFINE Q == {q \in DOMAIN line : line[q].id \in {"1", "4104", "4688"}}
             of(p) == {<<p, k>> : k \in DOMAIN line[p].calls}
  <1>1. Calls(line) = UNION {of(p) : p \in Q}
    BY DEF Calls
  <1>2. PICK p \in Q : x \in of(p)
    BY <1>1
  <1>3. PICK k \in DOMAIN line[p].calls : x = <<p, k>>
    BY <1>2
  <1>4. p \in DOMAIN line /\ line[p].id \in {"1", "4104", "4688"}
    OBVIOUS
  <1>5. k \in Nat
    <2>1. Len(line[p].calls) \in Nat /\ DOMAIN line[p].calls = 1..Len(line[p].calls)
      BY <1>4 DEF IsTimeline, Record
    <2> QED BY <2>1
  <1>6. p \in Nat
    BY <1>4, PositionsOf
  <1> QED BY <1>3, <1>4, <1>5, <1>6

\* There are finitely many calls.
LEMMA CallsAreFinite ==
  ASSUME NEW line, IsTimeline(line)
  PROVE  IsFiniteSet(Calls(line))
  <1> DEFINE Q == {q \in DOMAIN line : line[q].id \in {"1", "4104", "4688"}}
             of(p) == {<<p, k>> : k \in DOMAIN line[p].calls}
             G == {of(p) : p \in Q}
  <1>1. Calls(line) = UNION G
    BY DEF Calls
  <1>2. IsFiniteSet(Q)
    BY PositionsOf
  <1>3. ASSUME NEW p \in Q PROVE IsFiniteSet(of(p))
    <2> DEFINE D == DOMAIN line[p].calls
               g == [k \in D |-> <<p, k>>]
    <2>1. Len(line[p].calls) \in Nat /\ D = 1..Len(line[p].calls)
      BY DEF IsTimeline, Record
    <2>2. IsFiniteSet(D)
      BY <2>1, FS_Interval
    <2>3. \A t \in of(p) : \E k \in D : g[k] = t
      OBVIOUS
    <2> HIDE DEF g, D
    <2> QED BY <2>2, <2>3, CoveredIsFinite
  <1> HIDE DEF of
  <1>4. IsFiniteSet(G)
    <2> DEFINE g == [p \in Q |-> of(p)]
    <2>1. \A t \in G : \E p \in Q : g[p] = t
      OBVIOUS
    <2> HIDE DEF g, G, Q
    <2> QED BY <1>2, <2>1, CoveredIsFinite
  <1>5. \A T \in G : IsFiniteSet(T)
    BY <1>3
  <1> HIDE DEF G
  <1> QED BY <1>1, <1>4, <1>5, FS_UNION

\* Of some calls one is the first.
LEMMA OneIsFirst ==
  ASSUME NEW line, IsTimeline(line), NEW S, S \subseteq Calls(line), S # {}
  PROVE  \E x \in S : \A y \in S : ~Earlier(y, x)
  <1> DEFINE P == {x[1] : x \in S}
             p == Min(P)
             K == {x[2] : x \in {z \in S : z[1] = p}}
             k == Min(K)
  <1>1. \A x \in S : x \in Nat \X Nat /\ x[1] \in DOMAIN line /\ x[2] \in DOMAIN line[x[1]].calls
    BY CallIs
  <1>2. P \subseteq DOMAIN line /\ P # {}
    BY <1>1
  <1>3. P \subseteq Nat /\ IsFiniteSet(P)
    BY <1>2, PositionsOf
  <1>4. p \in P /\ \A q \in P : p <= q
    BY <1>2, <1>3, Extremes
  <1>5. \A x \in S : p <= x[1]
    BY <1>4
  <1>6. K # {} /\ K \subseteq DOMAIN line[p].calls
    BY <1>1, <1>4
  <1>7. K \subseteq Nat /\ IsFiniteSet(K)
    <2>1. p \in DOMAIN line
      BY <1>2, <1>4
    <2>2. Len(line[p].calls) \in Nat /\ DOMAIN line[p].calls = 1..Len(line[p].calls)
      BY <2>1 DEF IsTimeline, Record
    <2>3. IsFiniteSet(1..Len(line[p].calls))
      BY <2>2, FS_Interval
    <2>4. K \subseteq 1..Len(line[p].calls)
      BY <1>6, <2>2
    <2> HIDE DEF K
    <2>5. IsFiniteSet(K)
      BY <2>3, <2>4, FS_Subset
    <2>6. K \subseteq Nat
      BY <2>2, <2>4
    <2> QED BY <2>5, <2>6
  <1>8. k \in K /\ \A l \in K : k <= l
    BY <1>6, <1>7, Extremes
  <1>9. PICK x \in S : x[1] = p /\ x[2] = k
    BY <1>8
  <1>10. \A y \in S : y[1] = p => k <= y[2]
    BY <1>8
  <1>11. p \in Nat /\ k \in Nat
    BY <1>3, <1>4, <1>7, <1>8
  <1> HIDE DEF p, k, K, P
  <1> QED BY <1>1, <1>5, <1>9, <1>10, <1>11 DEF Earlier

\* A call that crosses has one target.
LEMMA TargetsAre ==
  ASSUME NEW line, IsTimeline(line), NEW x \in Calls(line)
  PROVE  /\ x \in Crossing(line) => Crosses(line, x, TargetOf(line, x))
         /\ \A q \in DOMAIN line : Crosses(line, x, line[q].host) =>
              x \in Crossing(line) /\ TargetsOf(line, x) = {line[q].host}
              /\ TargetOf(line, x) = line[q].host
  <1> DEFINE T == TargetsOf(line, x)
             H == {line[p].host : p \in DOMAIN line}
             name == Call(line, x).target
  <1>1. T = {h \in H : name \in {h, ShortName[h]}}
    BY DEF TargetsOf, Resolves
  <1>2. IsFiniteSet(T)
    <2> DEFINE g == [p \in DOMAIN line |-> line[p].host]
    <2>1. \A t \in T : \E p \in DOMAIN line : g[p] = t
      BY <1>1
    <2> HIDE DEF g, T
    <2> QED BY <2>1, PositionsOf, CoveredIsFinite
  <1>3. \A q \in DOMAIN line : line[q].host \in T <=> name \in {line[q].host, ShortName[line[q].host]}
    BY <1>1
  <1>4. ASSUME x \in Crossing(line) PROVE Crosses(line, x, TargetOf(line, x))
    <2>1. Cardinality(T) = 1 /\ line[x[1]].host \notin T
      BY <1>4 DEF Crossing
    <2>2. PICK h : T = {h}
      BY <1>2, <2>1, FS_Singleton
    <2>3. TargetOf(line, x) = h
      BY <2>2 DEF TargetOf
    <2>4. name \in {h, ShortName[h]}
      BY <1>1, <2>2
    <2>5. h # line[x[1]].host /\ \A q \in DOMAIN line : line[q].host \in T => line[q].host = h
      BY <2>1, <2>2
    <2> HIDE DEF T
    <2> QED BY <1>3, <2>3, <2>4, <2>5 DEF Crosses
  <1>5. ASSUME NEW q \in DOMAIN line, Crosses(line, x, line[q].host)
        PROVE  x \in Crossing(line) /\ T = {line[q].host} /\ TargetOf(line, x) = line[q].host
    <2>1. /\ line[q].host # line[x[1]].host /\ name \in {line[q].host, ShortName[line[q].host]}
          /\ \A o \in DOMAIN line : name \in {line[o].host, ShortName[line[o].host]}
                                      => line[o].host = line[q].host
      BY <1>5 DEF Crosses
    <2>2. T = {line[q].host}
      BY <1>1, <2>1
    <2>3. Cardinality(T) = 1
      BY <2>2, FS_Singleton
    <2>4. TargetOf(line, x) = line[q].host
      BY <2>2 DEF TargetOf
    <2> QED BY <2>1, <2>2, <2>3, <2>4 DEF Crossing
  <1> QED BY <1>4, <1>5

\* Two users agree when one is unknown or they are the same.
LEMMA UsersAgree ==
  ASSUME NEW u, NEW v
  PROVE  Cardinality({u, v} \ {""}) <= 1 <=> u = "" \/ v = "" \/ u = v
  <1> DEFINE S == {u, v} \ {""}
  <1>1. IsFiniteSet(S)
    <2>1. IsFiniteSet({u} \union {v})
      BY FS_Singleton, FS_Union
    <2>2. S \subseteq {u} \union {v}
      OBVIOUS
    <2> QED BY <2>1, <2>2, FS_Subset
  <1>2. Cardinality(S) \in Nat /\ (Cardinality(S) = 1 <=> \E x : S = {x})
        /\ (Cardinality(S) = 0 <=> S = {})
    BY <1>1, FS_CardinalityType, FS_Singleton, FS_EmptySet
  <1>3. (S = {} \/ \E x : S = {x}) <=> u = "" \/ v = "" \/ u = v
    <2>1. ASSUME u # "", v # "", u # v, NEW x, S \subseteq {x} PROVE FALSE
      <3>1. u \in S /\ v \in S
        BY <2>1
      <3> HIDE DEF S
      <3> QED BY <2>1, <3>1
    <2>2. CASE u = "" /\ v = ""
      BY <2>2
    <2>3. CASE u = "" /\ v # ""
      <3>1. S = {v}
        BY <2>3
      <3> QED BY <2>3, <3>1
    <2>4. CASE u # "" /\ v = ""
      <3>1. S = {u}
        BY <2>4
      <3> QED BY <2>4, <3>1
    <2>5. CASE u # "" /\ v # "" /\ u = v
      <3>1. S = {u}
        BY <2>5
      <3> QED BY <2>5, <3>1
    <2> QED BY <2>1, <2>2, <2>3, <2>4, <2>5
  <1> HIDE DEF S
  <1>4. Cardinality(S) <= 1 <=> S = {} \/ \E x : S = {x}
    BY <1>2
  <1> QED BY <1>3, <1>4 DEF S

\* The first and the last of some positions are among them.
LEMMA OneOf ==
  ASSUME NEW line, IsTimeline(line), NEW Q, Q \subseteq DOMAIN line
  PROVE  /\ Earliest(Q) \subseteq Q /\ (Earliest(Q) = {} <=> Q = {})
         /\ Latest(Q) \subseteq Q /\ (Latest(Q) = {} <=> Q = {})
  <1>1. Q \subseteq Nat /\ IsFiniteSet(Q)
    BY PositionsOf
  <1>2. Q # {} => Min(Q) \in Q /\ Max(Q) \in Q
    BY <1>1, Extremes
  <1> QED BY <1>2 DEF Earliest, Latest

\* The network logons that the code looks for are those of the same user.
LEMMA LogonIs ==
  ASSUME NEW line, NEW p, NEW q
  PROVE  IsNetworkLogon(line[q], line[p]) <=> LogsOn(line, p, q)
  BY UsersAgree DEF IsNetworkLogon, LogsOn

\* The events about a call on a host are those that are close to it.
LEMMA WindowIs ==
  ASSUME NEW line, IsTimeline(line), NEW p \in DOMAIN line, NEW h
  PROVE  \A q : q \in Within(line, h, line[p].t - RemoteSkew, line[p].t + RemoteWindow)
                  <=> q \in DOMAIN line /\ Soon(line, p, q, h)
  <1> SUFFICES ASSUME NEW q \in DOMAIN line
               PROVE  line[q].t \in (line[p].t - RemoteSkew)..(line[p].t + RemoteWindow)
                        <=> line[q].t - line[p].t \in (-RemoteSkew)..RemoteWindow
    BY DEF Within, Soon
  <1>1. line[p].t \in Nat /\ line[q].t \in Nat /\ RemoteSkew \in Nat /\ RemoteWindow \in Nat
    BY RemoteAssumption DEF IsTimeline
  <1> QED BY <1>1

\* What the evidence of a call is.
LEMMA EvidenceIs ==
  ASSUME NEW line, IsTimeline(line), NEW x \in Calls(line), NEW h
  PROVE  /\ \A q \in Evidence(line, x, h) :
              /\ q \in DOMAIN line /\ Soon(line, x[1], q, h)
              /\ q \in Effects(line, x, h) \/ (NeedsLogon(line, x) /\ LogsOn(line, x[1], q))
         /\ Evidence(line, x, h) # {} /\ NeedsLogon(line, x) =>
              \E q \in Evidence(line, x, h) : LogsOn(line, x[1], q)
         /\ Evidence(line, x, h) # {} /\ Telling(line, x) =>
              \E q \in Evidence(line, x, h) : line[q].id \in {"4624", "7045", "4697"}
         /\ Telling(line, x) /\ Effects(line, x, h) # {}
            /\ (NeedsLogon(line, x) =>
                  \E l \in DOMAIN line : Soon(line, x[1], l, h) /\ LogsOn(line, x[1], l))
            => Evidence(line, x, h) \intersect Effects(line, x, h) # {}
  <1> DEFINE source == line[x[1]]
             call == Call(line, x)
             window == Within(line, h, source.t - RemoteSkew, source.t + RemoteWindow)
             logons == {q \in window : IsNetworkLogon(line[q], source)}
             marked(q) == "psexesvc" \in line[q].marks
             shell == {q \in window : RunsProcess(line[q]) /\ "wsmprovhost" \in line[q].marks}
             install == {q \in window : IsService(line[q]) /\ marked(q)}
             run == {q \in window : RunsProcess(line[q]) /\ marked(q)}
             defines(q) == IsService(line[q]) /\ call.service # "" /\ line[q].service = call.service
             create == {q \in window : defines(q)}
             before == {q \in Within(line, h, source.t - Lookback, source.t + RemoteSkew) :
                          defines(q) /\ line[q].file # ""}
             start == {q \in window : /\ RunsProcess(line[q])
                                      /\ \E d \in Latest(before) : line[q].command = line[d].file}
             E == Evidence(line, x, h)
             C == Effects(line, x, h)
  <1>1. x[1] \in DOMAIN line
    BY CallIs
  <1>2. \A q : q \in window <=> q \in DOMAIN line /\ Soon(line, x[1], q, h)
    BY <1>1, WindowIs
  <1>3. E = CASE call.method = "powershell" ->
                   IF Earliest(logons) # {} /\ Earliest(shell) # {}
                   THEN Earliest(logons) \union Earliest(shell) ELSE {}
              [] call.method = "psexec" ->
                   IF Earliest(logons) # {} /\ Earliest(install) \union Earliest(run) # {}
                   THEN Earliest(logons) \union Earliest(install) \union Earliest(run) ELSE {}
              [] call.method = "scm" /\ call.operation = "create" -> Earliest(create)
              [] call.method = "scm" /\ call.operation = "start" -> Earliest(start)
              [] OTHER -> {}
    BY DEF Evidence
  <1>4. \A q : q \in C <=> q \in window /\
           \/ call.method = "powershell" /\ RunsProcess(line[q]) /\ "wsmprovhost" \in line[q].marks
           \/ call.method = "psexec" /\ (RunsProcess(line[q]) \/ IsService(line[q])) /\ marked(q)
           \/ /\ call.method = "scm" /\ call.operation = "create"
              /\ IsService(line[q]) /\ line[q].service = call.service
           \/ call.method = "scm" /\ call.operation = "start" /\ RunsProcess(line[q]) /\ line[q].command # ""
    BY <1>2 DEF Effects
  <1>5. window \subseteq DOMAIN line /\ before \subseteq DOMAIN line
    BY DEF Within
  <1>6. /\ \A q \in logons : q \in window /\ LogsOn(line, x[1], q) /\ line[q].id = "4624"
        /\ \A q \in window : LogsOn(line, x[1], q) => q \in logons
    BY LogonIs DEF LogsOn
  <1>7. \A Q : Q \subseteq window => /\ Earliest(Q) \subseteq Q /\ (Earliest(Q) = {} <=> Q = {})
    BY <1>5, OneOf
  <1>8. \A d \in Latest(before) : line[d].file # ""
    BY <1>5, OneOf
  <1>9. /\ logons \subseteq window /\ shell \subseteq window /\ install \subseteq window
        /\ run \subseteq window /\ create \subseteq window /\ start \subseteq window
    OBVIOUS
  <1>10. /\ NeedsLogon(line, x) <=> call.method \in {"powershell", "psexec"}
         /\ Telling(line, x) <=> \/ call.method \in {"powershell", "psexec"}
                                 \/ /\ call.method = "scm" /\ call.operation = "create"
                                    /\ call.service # ""
    BY DEF NeedsLogon, Telling
  <1> DEFINE Good == /\ \A q \in E : q \in C \/ (NeedsLogon(line, x) /\ LogsOn(line, x[1], q))
                     /\ \A q \in E : q \in window
                     /\ E # {} /\ NeedsLogon(line, x) => \E q \in E : LogsOn(line, x[1], q)
                     /\ E # {} /\ Telling(line, x) =>
                          \E q \in E : line[q].id \in {"4624", "7045", "4697"}
                     /\ Telling(line, x) /\ C # {} /\ (NeedsLogon(line, x) => logons # {})
                          => E \intersect C # {}
  <1>11. ASSUME call.method = "powershell" PROVE Good
    <2>1. E = IF Earliest(logons) # {} /\ Earliest(shell) # {}
              THEN Earliest(logons) \union Earliest(shell) ELSE {}
      BY <1>3, <1>11
    <2>2. \A q : q \in C <=> q \in shell
      <3> HIDE DEF C, window, call
      <3> QED BY <1>4, <1>11
    <2> HIDE DEF E, C, window, logons, shell, call
    <2>3. /\ Earliest(logons) \subseteq logons /\ (Earliest(logons) = {} <=> logons = {})
          /\ Earliest(shell) \subseteq shell /\ (Earliest(shell) = {} <=> shell = {})
      BY <1>7, <1>9
    <2>4. NeedsLogon(line, x)
      BY <1>10, <1>11
    <2>5. CASE logons = {} \/ shell = {}
      <3>1. E = {}
        BY <2>1, <2>3, <2>5
      <3>2. C # {} => logons = {}
        BY <2>2, <2>5
      <3> QED BY <2>4, <3>1, <3>2
    <2>6. CASE logons # {} /\ shell # {}
      <3>1. E = Earliest(logons) \union Earliest(shell)
        BY <2>1, <2>3, <2>6
      <3>2. \A q \in E : q \in logons \/ q \in shell
        BY <2>3, <3>1
      <3>3. PICK l : l \in E /\ l \in logons
        BY <2>3, <2>6, <3>1
      <3>4. PICK q : q \in E /\ q \in shell
        BY <2>3, <2>6, <3>1
      <3>5. \A o \in E : (o \in C \/ LogsOn(line, x[1], o)) /\ o \in window
        BY <1>6, <1>9, <2>2, <3>2
      <3>6. LogsOn(line, x[1], l) /\ line[l].id = "4624"
        BY <1>6, <3>3
      <3>7. E \intersect C # {}
        BY <2>2, <3>4
      <3> QED BY <2>4, <3>3, <3>5, <3>6, <3>7
    <2> QED BY <2>5, <2>6
  <1>12. ASSUME call.method = "psexec" PROVE Good
    <2>1. E = IF Earliest(logons) # {} /\ Earliest(install) \union Earliest(run) # {}
              THEN Earliest(logons) \union Earliest(install) \union Earliest(run) ELSE {}
      BY <1>3, <1>12
    <2>2. \A q : q \in C <=> q \in install \/ q \in run
      <3> HIDE DEF C, window, call
      <3> QED BY <1>4, <1>12
    <2> HIDE DEF E, C, window, logons, install, run, call
    <2>3. /\ Earliest(logons) \subseteq logons /\ (Earliest(logons) = {} <=> logons = {})
          /\ Earliest(install) \subseteq install /\ (Earliest(install) = {} <=> install = {})
          /\ Earliest(run) \subseteq run /\ (Earliest(run) = {} <=> run = {})
      BY <1>7, <1>9
    <2>4. \A q \in E : q \in logons \/ q \in C
      BY <2>1, <2>2, <2>3
    <2>5. E # {} => \E q \in E : q \in logons
      BY <2>1, <2>3
    <2>6. C # {} /\ logons # {} => E \intersect C # {}
      BY <2>1, <2>2, <2>3
    <2>7. NeedsLogon(line, x)
      BY <1>10, <1>12
    <2>8. \A q \in E : q \in window
      BY <1>9, <2>2, <2>4
    <2> QED BY <1>6, <2>4, <2>5, <2>6, <2>7, <2>8
  <1>13. ASSUME call.method = "scm" /\ call.operation = "create" PROVE Good
    <2>1. E = Earliest(create)
      BY <1>3, <1>13
    <2>2. create \subseteq C /\ (call.service # "" => C = create)
      BY <1>4, <1>13
    <2>3. \A q \in create : line[q].id \in {"4624", "7045", "4697"}
      BY DEF IsService
    <2> HIDE DEF E, C, window, create, call
    <2>4. ~NeedsLogon(line, x)
      BY <1>10, <1>13
    <2>5. Telling(line, x) <=> call.service # ""
      BY <1>10, <1>13
    <2>6. E \subseteq create /\ (E = {} <=> create = {})
      BY <1>7, <1>9, <2>1
    <2>7. /\ \A q \in E : q \in C /\ q \in window
          /\ \A q \in E : line[q].id \in {"4624", "7045", "4697"}
      BY <1>9, <2>2, <2>3, <2>6
    <2>8. Telling(line, x) /\ C # {} => E \intersect C # {}
      <3>1. ASSUME call.service # "", C # {} PROVE E \intersect C # {}
        <4>1. C = create
          BY <2>2, <3>1
        <4> QED BY <2>6, <3>1, <4>1
      <3> QED BY <2>5, <3>1
    <2> QED BY <2>4, <2>7, <2>8
  <1>14. ASSUME call.method = "scm" /\ call.operation = "start" PROVE Good
    <2>1. E = Earliest(start)
      BY <1>3, <1>14
    <2>2. start \subseteq C
      BY <1>4, <1>8, <1>14
    <2> HIDE DEF E, C, window, start, call
    <2>3. ~NeedsLogon(line, x) /\ ~Telling(line, x)
      BY <1>10, <1>14
    <2> QED BY <1>7, <1>9, <2>1, <2>2, <2>3
  <1>15. ASSUME call.method \notin {"powershell", "psexec"},
                ~(call.method = "scm" /\ call.operation \in {"create", "start"})
         PROVE  Good
    <2>1. E = {}
      BY <1>3, <1>15
    <2> HIDE DEF E, C, call
    <2>2. ~NeedsLogon(line, x) /\ ~Telling(line, x)
      BY <1>10, <1>15
    <2> QED BY <2>1, <2>2
  <1>16. Good
    BY <1>11, <1>12, <1>13, <1>14, <1>15
  <1>17. (\E l \in DOMAIN line : Soon(line, x[1], l, h) /\ LogsOn(line, x[1], l)) => logons # {}
    <2>1. ASSUME NEW l \in DOMAIN line, Soon(line, x[1], l, h), LogsOn(line, x[1], l)
          PROVE  l \in logons
      BY <1>2, <1>6, <2>1
    <2> QED BY <2>1
  <1> HIDE DEF E, C, window, logons
  <1>18. \A q \in E : q \in DOMAIN line /\ Soon(line, x[1], q, h)
    BY <1>2, <1>16
  <1>19. Telling(line, x) /\ C # {}
         /\ (NeedsLogon(line, x) =>
               \E l \in DOMAIN line : Soon(line, x[1], l, h) /\ LogsOn(line, x[1], l))
         => E \intersect C # {}
    BY <1>16, <1>17
  <1> HIDE DEF Good
  <1>20. /\ \A q \in E : q \in C \/ (NeedsLogon(line, x) /\ LogsOn(line, x[1], q))
         /\ E # {} /\ NeedsLogon(line, x) => \E q \in E : LogsOn(line, x[1], q)
         /\ E # {} /\ Telling(line, x) =>
              \E q \in E : line[q].id \in {"4624", "7045", "4697"}
    BY <1>16 DEF Good
  <1> QED BY <1>18, <1>19, <1>20 DEF E, C

\* Calls that are of the same moment, user and kind have the same evidence.
LEMMA SameEvidence ==
  ASSUME NEW line, NEW x, NEW y, NEW h, line[x[1]].t = line[y[1]].t,
         line[x[1]].user = line[y[1]].user, Kind(Call(line, x)) = Kind(Call(line, y))
  PROVE  Evidence(line, x, h) = Evidence(line, y, h)
  <1>1. /\ Call(line, x).method = Call(line, y).method
        /\ Call(line, x).operation = Call(line, y).operation
        /\ Call(line, x).service = Call(line, y).service
    BY DEF Kind
  <1> QED BY <1>1 DEF Evidence, IsNetworkLogon

-----------------------------------------------------------------------------
(* All the chains.                                                         *)

\* A remote chain is a chain.
LEMMA RemoteChainIsWell ==
  ASSUME NEW line, IsTimeline(line), NEW F, IsFiniteSet(F), NEW ch \in RemoteChains(line, F)
  PROVE  WellChain(line, ch) /\ ch.type = "remote"
  <1>1. PICK x \in FirstCalls(line) : ch = RemoteChain(line, F, x)
    BY RemoteChainsAre
  <1>2. x \in Calls(line)
    BY DEF FirstCalls, Effective, Counted, Crossing
  <1>3. /\ ch.type = "remote" /\ ch.events = {x[1]} \union EvidenceOf(line, x)
        /\ ch.findings = About(line, F, ch.events) /\ ch.remote.of = x
    BY <1>1, RemoteChainIs
  <1>4. ch.findings \subseteq F
    BY <1>3 DEF About
  <1>5. IsFiniteSet(ch.findings)
    BY <1>4, FS_Subset
  <1>6. \A q \in EvidenceOf(line, x) : q \in DOMAIN line
    BY <1>2, EvidenceIs DEF EvidenceOf
  <1>7. x \in Nat \X Nat /\ x[1] \in DOMAIN line
    BY <1>2, CallIs
  <1>8. ch.events \subseteq DOMAIN line /\ ch.events # {}
    BY <1>3, <1>6, <1>7
  <1> QED BY <1>3, <1>5, <1>7, <1>8 DEF WellChain

AllChains(line, F) ==
  RuleChains(line, F) \union SessionChains(line, F) \union ActivityChains(line, F)
    \union RemoteChains(line, F)

\* Each kind of chain is of a type of its own.
LEMMA KindsAre ==
  ASSUME NEW line, IsTimeline(line), NEW F, IsFiniteSet(F), NEW ch \in AllChains(line, F)
  PROVE  /\ WellChain(line, ch)
         /\ ch.type = "session" => ch \in SessionChains(line, F)
         /\ ch.type = "activity" => ch \in ActivityChains(line, F)
         /\ ch.type = "remote" => ch \in RemoteChains(line, F)
         /\ ch.type \notin {"session", "activity", "remote"} => ch \in RuleChains(line, F)
         /\ \A c \in CorrelationRules : ch.type = c.type => ch \in RuleChains(line, F)
  <1>1. \A c \in CorrelationRules : c.type \notin {"session", "activity", "remote"}
    BY CorrelationAssumption
  <1>2. CASE ch \in RuleChains(line, F)
    <2>1. PICK c \in CorrelationRules, p \in DOMAIN line : ch = RuleChain(line, F, c, p)
      BY <1>2, RuleChainsAre
    <2>2. /\ WellChain(line, ch) /\ ch.type = c.type
          /\ c.type \notin {"session", "activity", "remote"}
      BY <2>1, RuleChainIsWell
    <2> QED BY <1>2, <2>2
  <1>3. CASE ch \in SessionChains(line, F)
    <2>1. WellChain(line, ch) /\ ch.type = "session"
      BY <1>3, SessionChainIsWell
    <2> QED BY <1>1, <1>3, <2>1
  <1>4. CASE ch \in ActivityChains(line, F)
    <2>1. WellChain(line, ch) /\ ch.type = "activity"
      BY <1>4, ActivityChainIsWell
    <2> QED BY <1>1, <1>4, <2>1
  <1>5. CASE ch \in RemoteChains(line, F)
    <2>1. WellChain(line, ch) /\ ch.type = "remote"
      BY <1>5, RemoteChainIsWell
    <2> QED BY <1>1, <1>5, <2>1
  <1> QED BY <1>2, <1>3, <1>4, <1>5 DEF AllChains

\* There are finitely many chains.
LEMMA ChainsAreFinite ==
  ASSUME NEW line, IsTimeline(line), NEW F, IsFiniteSet(F)
  PROVE  IsFiniteSet(AllChains(line, F))
  <1> DEFINE D == DOMAIN line
  <1>1. IsFiniteSet(D) /\ IsFiniteSet(SUBSET D)
    BY PositionsOf, FS_SUBSET
  <1>2. IsFiniteSet(RuleChains(line, F))
    <2> DEFINE S == CorrelationRules \X D
               g == [x \in S |-> RuleChain(line, F, x[1], x[2])]
    <2>1. IsFiniteSet(S)
      BY <1>1, CorrelationAssumption, FS_Product
    <2>2. \A c \in CorrelationRules, p \in D :
            <<c, p>> \in S /\ g[<<c, p>>] = RuleChain(line, F, c, p)
      OBVIOUS
    <2> HIDE DEF S, g
    <2>3. ASSUME NEW ch \in RuleChains(line, F) PROVE \E x \in S : g[x] = ch
      <3>1. PICK c \in CorrelationRules, p \in D : ch = RuleChain(line, F, c, p)
        BY RuleChainsAre
      <3> QED BY <2>2, <3>1
    <2> QED BY <2>1, <2>3, CoveredIsFinite
  <1>3. IsFiniteSet(SessionChains(line, F))
    <2> DEFINE S == D \X (SUBSET D)
               g == [x \in S |-> SessionChain(line, F, SessionName(line, x[1]), x[2])]
    <2>1. IsFiniteSet(S)
      BY <1>1, FS_Product
    <2>2. \A p \in D, P \in SUBSET D :
            <<p, P>> \in S /\ g[<<p, P>>] = SessionChain(line, F, SessionName(line, p), P)
      OBVIOUS
    <2> HIDE DEF S, g
    <2>3. ASSUME NEW ch \in SessionChains(line, F) PROVE \E x \in S : g[x] = ch
      <3>1. PICK p \in D : \E P \in Segments(line, line[p].host, Session(line[p])) :
                             ch = SessionChain(line, F, SessionName(line, p), P)
        BY SessionChainsAre
      <3>2. PICK P : ch = SessionChain(line, F, SessionName(line, p), P)
        BY <3>1
      <3>3. P = ch.events
        BY <3>2 DEF SessionChain, Chain
      <3>4. P \in SUBSET D
        BY <3>3, SessionChainIsWell DEF WellChain
      <3> QED BY <2>2, <3>2, <3>4
    <2> QED BY <2>1, <2>3, CoveredIsFinite
  <1>4. IsFiniteSet(ActivityChains(line, F))
    <2> DEFINE S == SUBSET D
               g == [P \in S |-> ActivityChain(line, F, P)]
    <2>1. ASSUME NEW ch \in ActivityChains(line, F) PROVE \E P \in S : g[P] = ch
      <3>1. PICK P : ch = ActivityChain(line, F, P)
        BY ActivityChainIs
      <3>2. P = ch.events
        BY <3>1 DEF ActivityChain, Chain
      <3>3. P \in S
        BY <3>2, ActivityChainIsWell DEF WellChain
      <3> QED BY <3>1, <3>3
    <2> HIDE DEF g
    <2> QED BY <1>1, <2>1, CoveredIsFinite
  <1>5. IsFiniteSet(RemoteChains(line, F))
    <2> DEFINE S == Calls(line)
               g == [x \in S |-> RemoteChain(line, F, x)]
    <2>1. FirstCalls(line) \subseteq S
      BY DEF FirstCalls, Effective, Counted, Crossing
    <2>2. \A ch \in RemoteChains(line, F) : \E x \in S : g[x] = ch
      BY <2>1, RemoteChainsAre
    <2> HIDE DEF g
    <2> QED BY <2>2, CallsAreFinite, CoveredIsFinite
  <1> QED BY <1>2, <1>3, <1>4, <1>5, FS_Union DEF AllChains

\* Chains of a type differ in their first event or, if remote, in their command.
LEMMA ChainsAreTold ==
  ASSUME NEW line, IsTimeline(line), NEW F, IsFiniteSet(F)
  PROVE  Told(AllChains(line, F))
  <1> SUFFICES ASSUME NEW a \in AllChains(line, F), NEW b \in AllChains(line, F), a.type = b.type,
                      IF a.type = "remote" THEN a.remote.of = b.remote.of
                      ELSE Min(a.events) = Min(b.events)
               PROVE  a = b
    BY DEF Told
  <1>1. CASE a.type = "remote"
    <2>1. a \in RemoteChains(line, F) /\ b \in RemoteChains(line, F) /\ a.remote.of = b.remote.of
      BY <1>1, KindsAre
    <2>2. PICK x \in FirstCalls(line) : a = RemoteChain(line, F, x)
      BY <2>1, RemoteChainsAre
    <2>3. PICK y \in FirstCalls(line) : b = RemoteChain(line, F, y)
      BY <2>1, RemoteChainsAre
    <2>4. a.remote.of = x /\ b.remote.of = y
      BY <2>2, <2>3, RemoteChainIs
    <2> QED BY <2>1, <2>2, <2>3, <2>4
  <1>2. CASE a.type = "session"
    <2>1. a \in SessionChains(line, F) /\ b \in SessionChains(line, F) /\ Min(a.events) = Min(b.events)
      BY <1>2, KindsAre
    <2>2. Min(a.events) \in a.events /\ Min(b.events) \in b.events
      BY KindsAre, FirstEventIs
    <2> QED BY <2>1, <2>2, SessionChainsAreApart
  <1>3. CASE a.type = "activity"
    <2>1. /\ a \in ActivityChains(line, F) /\ b \in ActivityChains(line, F)
          /\ Min(a.events) = Min(b.events)
      BY <1>3, KindsAre
    <2> QED BY <2>1, ActivityChainsAreApart
  <1>4. CASE a.type \notin {"remote", "session", "activity"}
    <2>1. a \in RuleChains(line, F) /\ b \in RuleChains(line, F) /\ Min(a.events) = Min(b.events)
      BY <1>4, KindsAre
    <2>2. PICK c \in CorrelationRules, p \in DOMAIN line : a = RuleChain(line, F, c, p)
      BY <2>1, RuleChainsAre
    <2>3. PICK d \in CorrelationRules, q \in DOMAIN line : b = RuleChain(line, F, d, q)
      BY <2>1, RuleChainsAre
    <2>4. a.type = c.type /\ b.type = d.type /\ Min(a.events) = p /\ Min(b.events) = q
      BY <2>2, <2>3, RuleChainIsWell
    <2>5. c = d /\ p = q
      BY <2>1, <2>4, CorrelationAssumption
    <2> QED BY <2>2, <2>3, <2>5
  <1> QED BY <1>1, <1>2, <1>3, <1>4

\* The chains that are kept.
KeptChains(line, F) == Deduplicated(line, AllChains(line, F))

\* For each chain one over the same observations is kept, and no two are the same.
LEMMA KeptAre ==
  ASSUME NEW line, IsTimeline(line), NEW F, IsFiniteSet(F)
  PROVE  /\ KeptChains(line, F) \subseteq AllChains(line, F)
         /\ \A a \in AllChains(line, F) : \E b \in KeptChains(line, F) :
              a.type = b.type /\ Keys(line, a.events) = Keys(line, b.events)
         /\ \A a, b \in KeptChains(line, F) : a # b => ~SameChain(line, a, b)
  <1> DEFINE C == AllChains(line, F)
  <1>1. IsFiniteSet(C) /\ Told(C) /\ \A ch \in C : WellChain(line, ch)
    BY ChainsAreFinite, ChainsAreTold, KindsAre
  <1> HIDE DEF C
  <1>2. /\ \A a \in C : \E b \in Deduplicated(line, C) : SameChain(line, a, b)
        /\ \A a, b \in Deduplicated(line, C) : a # b => ~SameChain(line, a, b)
        /\ Deduplicated(line, C) \subseteq C
    BY <1>1, OneIsKept
  <1>3. \A a, b \in C : SameChain(line, a, b) =>
          a.type = b.type /\ Keys(line, a.events) = Keys(line, b.events)
    BY <1>1, SameChainIs
  <1> QED BY <1>2, <1>3 DEF KeptChains, C

-----------------------------------------------------------------------------
(* The chains are complete.                                                *)

\* The chains of rules that are kept are all there are.
LEMMA RuleChainsComplete ==
  ASSUME NEW line, IsTimeline(line), NEW F, IsFiniteSet(F)
  PROVE  RuleChainsAreComplete(line, KeptChains(line, F))
  <1> SUFFICES ASSUME NEW c \in CorrelationRules
               PROVE  {Keys(line, ch.events) : ch \in {x \in KeptChains(line, F) : x.type = c.type}}
                        = {Keys(line, {p} \union Follows(line, c, p)) :
                             p \in {q \in DOMAIN line : StartsRule(line, c, q)}}
    BY DEF RuleChainsAreComplete, StartsRule
  <1>1. ASSUME NEW ch \in KeptChains(line, F), ch.type = c.type
        PROVE  \E p \in DOMAIN line :
                 StartsRule(line, c, p) /\ ch.events = {p} \union Follows(line, c, p)
    <2>1. ch \in RuleChains(line, F)
      BY <1>1, KeptAre, KindsAre
    <2>2. PICK d \in CorrelationRules, p \in DOMAIN line :
            StartsRule(line, d, p) /\ ch = RuleChain(line, F, d, p)
      BY <2>1, RuleChainsAre
    <2>3. ch.type = d.type /\ ch.events = {p} \union Follows(line, d, p)
      BY <2>2, RuleChainIs
    <2>4. d = c
      BY <1>1, <2>3, CorrelationAssumption
    <2> QED BY <2>2, <2>3, <2>4
  <1>2. ASSUME NEW p \in DOMAIN line, StartsRule(line, c, p)
        PROVE  \E ch \in KeptChains(line, F) :
                 ch.type = c.type
                 /\ Keys(line, ch.events) = Keys(line, {p} \union Follows(line, c, p))
    <2> DEFINE a == RuleChain(line, F, c, p)
    <2>1. a \in AllChains(line, F)
      BY <1>2, RuleChainsAre DEF AllChains
    <2>2. a.type = c.type /\ a.events = {p} \union Follows(line, c, p)
      BY RuleChainIs
    <2> HIDE DEF a
    <2>3. PICK b \in KeptChains(line, F) : a.type = b.type /\ Keys(line, a.events) = Keys(line, b.events)
      BY <2>1, KeptAre
    <2> QED BY <2>2, <2>3
  <1> QED BY <1>1, <1>2

\* The events of sessions are of three kinds.
LEMMA SessionEventsAre ==
  ASSUME NEW e, Session(e) # ""
  PROVE  e.id \in {"4624", "4634", "4647"}
  BY DEF Session

\* One observation has one time, host and identifier.
LEMMA SameObservation ==
  ASSUME NEW e, NEW f, Key(e) = Key(f)
  PROVE  e.t = f.t /\ e.host = f.host /\ e.id = f.id
  BY DEF Key

\* A session chain is what the code calls a lifetime.
LEMMA SessionChainsAreSound ==
  ASSUME NEW line, IsTimeline(line), NEW F, NEW ch \in SessionChains(line, F)
  PROVE  \E p \in ch.events :
           /\ line[p].id = "4624" /\ Session(line[p]) # ""
           /\ \A q \in ch.events \ {p} :
                /\ line[p].host = line[q].host /\ Session(line[p]) = Session(line[q])
                /\ line[q].id # "4624" /\ line[p].t <= line[q].t
           /\ \A q, x \in ch.events : line[q].id = "4634" => line[x].t <= line[q].t
           /\ \A q \in DOMAIN line, x \in ch.events :
                /\ line[p].host = line[q].host /\ Session(line[p]) = Session(line[q])
                /\ line[p].t < line[q].t /\ line[q].t < line[x].t
                => Key(line[q]) \in Keys(line, ch.events)
  <1>1. PICK o \in DOMAIN line : \E i, j \in 1..Len(LifeOf(line, o)) :
           /\ IsName(Session(line[o])) /\ Lived(line, LifeOf(line, o), i, j)
           /\ ch = SessionChain(line, F, SessionName(line, o), Run(LifeOf(line, o), i, j))
    BY SessionChainIs
  <1>2. PICK i \in 1..Len(LifeOf(line, o)), j \in 1..Len(LifeOf(line, o)) :
           /\ IsName(Session(line[o])) /\ Lived(line, LifeOf(line, o), i, j)
           /\ ch = SessionChain(line, F, SessionName(line, o), Run(LifeOf(line, o), i, j))
    BY <1>1
  <1> DEFINE s == LifeOf(line, o)
  <1>3. /\ Len(s) \in Nat
        /\ \A k \in 1..Len(s) : s[k] \in DOMAIN line /\ line[s[k]].t \in Nat
                                /\ line[s[k]].host = line[o].host
                                /\ Session(line[s[k]]) = Session(line[o])
        /\ \A m, n \in 1..Len(s) : m <= n => line[s[m]].t <= line[s[n]].t
        /\ \A p \in DOMAIN line :
             line[p].host = line[o].host /\ Session(line[p]) = Session(line[o]) =>
               \E k \in 1..Len(s) : Key(line[s[k]]) = Key(line[p])
    BY LifeOfElements
  <1>4. ch.events = Run(s, i, j)
    BY <1>2 DEF SessionChain, Chain
  <1>5. Lived(line, s, i, j)
    BY <1>2
  <1> HIDE DEF s
  <1>6. \A x : x \in ch.events <=> \E k \in i..j : x = s[k]
    BY <1>4, RunElements
  <1>7. i \in Nat /\ j \in Nat /\ i < j /\ \A k \in i..j : k \in 1..Len(s)
    BY <1>3, <1>5 DEF Lived
  <1>8. \A k \in (i + 1)..j : line[s[k]].id \in {"4647", "4634"} /\ (k < j => line[s[k]].id = "4647")
    <2> SUFFICES ASSUME NEW k \in (i + 1)..j
                 PROVE  line[s[k]].id \in {"4647", "4634"} /\ (k < j => line[s[k]].id = "4647")
      OBVIOUS
    <2>1. k = j \/ k \in (i + 1)..(j - 1)
      BY <1>7
    <2> QED BY <1>5, <1>7, <2>1 DEF Lived
  <1>9. line[s[i]].id = "4624" /\ Session(line[s[i]]) # "" /\ s[i] \in ch.events
    <2>1. line[s[i]].id = "4624" /\ i \in 1..Len(s) /\ i \in i..j
      BY <1>5, <1>7 DEF Lived
    <2>2. IsName(Session(line[s[i]]))
      BY <1>2, <1>3, <2>1
    <2>3. s[i] \in ch.events
      BY <1>6, <2>1
    <2> QED BY <2>1, <2>2, <2>3 DEF IsName
  <1>10. ASSUME NEW q \in ch.events \ {s[i]}
         PROVE  /\ line[s[i]].host = line[q].host /\ Session(line[s[i]]) = Session(line[q])
                /\ line[q].id # "4624" /\ line[s[i]].t <= line[q].t
    <2>1. PICK k \in i..j : q = s[k]
      BY <1>6
    <2>2. k \in (i + 1)..j /\ k \in 1..Len(s) /\ i \in 1..Len(s) /\ i <= k
      BY <1>7, <2>1
    <2> QED BY <1>3, <1>8, <2>1, <2>2
  <1>11. ASSUME NEW q \in ch.events, NEW x \in ch.events, line[q].id = "4634"
         PROVE  line[x].t <= line[q].t
    <2>1. PICK k \in i..j : q = s[k]
      BY <1>6
    <2>2. PICK l \in i..j : x = s[l]
      BY <1>6
    <2>3. k = j
      <3>1. k # i
        BY <1>9, <1>11, <2>1
      <3>2. k \in (i + 1)..j
        BY <1>7, <3>1
      <3> QED BY <1>7, <1>8, <1>11, <2>1, <3>2
    <2>4. l <= k /\ l \in 1..Len(s) /\ k \in 1..Len(s)
      BY <1>7, <2>3
    <2> QED BY <1>3, <2>1, <2>2, <2>4
  <1>12. ASSUME NEW q \in DOMAIN line, NEW x \in ch.events,
                line[s[i]].host = line[q].host, Session(line[s[i]]) = Session(line[q]),
                line[s[i]].t < line[q].t, line[q].t < line[x].t
         PROVE  Key(line[q]) \in Keys(line, ch.events)
    <2>1. PICK l \in i..j : x = s[l]
      BY <1>6
    <2>2. PICK k \in 1..Len(s) : Key(line[s[k]]) = Key(line[q])
      BY <1>3, <1>7, <1>12
    <2>3. line[s[k]].t = line[q].t
      BY <2>2, SameObservation
    <2>4. l \in 1..Len(s) /\ i \in 1..Len(s)
      BY <1>7
    <2>5. ~(k <= i) /\ ~(l <= k)
      BY <1>3, <1>12, <2>1, <2>3, <2>4
    <2>6. k \in i..j
      BY <1>7, <2>5
    <2>7. s[k] \in ch.events
      BY <1>6, <2>6
    <2> QED BY <2>2, <2>7 DEF Keys
  <1> QED BY <1>9, <1>10, <1>11, <1>12

\* Every logoff is in the chain of the logon before it.
LEMMA SessionChainsAreThere ==
  ASSUME NEW line, IsTimeline(line), NEW F, NEW p \in DOMAIN line, NEW q \in DOMAIN line,
         line[p].id = "4624", IsName(Session(line[p])), line[q].id = "4634",
         line[p].host = line[q].host, Session(line[p]) = Session(line[q]),
         line[p].t < line[q].t,
         \A x \in DOMAIN line :
           /\ line[x].id \in {"4624", "4634"}
           /\ line[p].host = line[x].host /\ Session(line[p]) = Session(line[x])
           /\ line[x].t \in line[p].t..line[q].t
           => Key(line[x]) \in Keys(line, {p, q})
  PROVE  \E ch \in SessionChains(line, F) :
           ch.type = "session" /\ Keys(line, {p, q}) \subseteq Keys(line, ch.events)
  <1> DEFINE s == LifeOf(line, p)
  <1>1. /\ Len(s) \in Nat
        /\ \A k \in 1..Len(s) : s[k] \in DOMAIN line /\ line[s[k]].t \in Nat
                                /\ line[s[k]].host = line[p].host
                                /\ Session(line[s[k]]) = Session(line[p])
        /\ \A m, n \in 1..Len(s) : m <= n => line[s[m]].t <= line[s[n]].t
        /\ \A o \in DOMAIN line :
             line[o].host = line[p].host /\ Session(line[o]) = Session(line[p]) =>
               \E k \in 1..Len(s) : Key(line[s[k]]) = Key(line[o])
        /\ \A m, n \in 1..Len(s) : Key(line[s[m]]) = Key(line[s[n]]) => m = n
    BY LifeOfElements
  <1> HIDE DEF s
  <1>2. PICK k \in 1..Len(s) : Key(line[s[k]]) = Key(line[p])
    BY <1>1
  <1>3. PICK l \in 1..Len(s) : Key(line[s[l]]) = Key(line[q])
    BY <1>1
  <1>4. /\ line[s[k]].t = line[p].t /\ line[s[k]].id = "4624"
        /\ line[s[l]].t = line[q].t /\ line[s[l]].id = "4634"
    BY <1>2, <1>3, SameObservation
  <1>5. k < l
    <2>1. ~(l <= k)
      BY <1>1, <1>4
    <2> QED BY <1>1, <2>1
  <1>6. ASSUME NEW m \in (k + 1)..(l - 1) PROVE line[s[m]].id = "4647"
    <2>1. m \in 1..Len(s) /\ k <= m /\ m <= l /\ m # k /\ m # l
      BY <1>1, <1>5
    <2>2. line[s[m]].t \in line[p].t..line[q].t
      BY <1>1, <1>4, <2>1
    <2>3. Key(line[s[m]]) # Key(line[p]) /\ Key(line[s[m]]) # Key(line[q])
      BY <1>1, <1>2, <1>3, <2>1
    <2>4. Key(line[s[m]]) \notin Keys(line, {p, q})
      BY <2>3 DEF Keys
    <2>5. line[s[m]].id \notin {"4624", "4634"}
      BY <1>1, <2>1, <2>2, <2>4
    <2>6. line[s[m]].id \in {"4624", "4634", "4647"}
      BY <1>1, <2>1, SessionEventsAre DEF IsName
    <2> QED BY <2>5, <2>6
  <1>7. Closed(line, s, k, l)
    BY <1>4, <1>5, <1>6 DEF Closed, Lived
  <1>8. Run(s, k, l) \in Segments(line, line[p].host, Session(line[p]))
    BY <1>7, SegmentsAre DEF s, LifeOf
  <1> DEFINE ch == SessionChain(line, F, SessionName(line, p), Run(s, k, l))
  <1>9. ch \in SessionChains(line, F)
    BY <1>8, SessionChainsAre
  <1>10. ch.events = Run(s, k, l) /\ ch.type = "session"
    BY DEF SessionChain, Chain
  <1> HIDE DEF ch
  <1>11. s[k] \in ch.events /\ s[l] \in ch.events
    <2>1. k \in k..l /\ l \in k..l
      BY <1>5
    <2> QED BY <1>10, <2>1, RunElements
  <1>12. Keys(line, {p, q}) \subseteq Keys(line, ch.events)
    BY <1>2, <1>3, <1>11 DEF Keys
  <1> QED BY <1>9, <1>10, <1>12

\* The session chains that are kept are all there are.
LEMMA SessionChainsComplete ==
  ASSUME NEW line, IsTimeline(line), NEW F, IsFiniteSet(F)
  PROVE  SessionChainsAreComplete(line, KeptChains(line, F))
  <1> DEFINE mine == {ch \in KeptChains(line, F) : ch.type = "session"}
             same(p, q) == line[p].host = line[q].host /\ Session(line[p]) = Session(line[q])
             opens(p) == line[p].id = "4624" /\ Session(line[p]) # ""
             ends(p) == line[p].id = "4634" /\ Session(line[p]) # ""
             OfSession(ch) ==
               \E p \in ch.events :
                 /\ opens(p)
                 /\ \A q \in ch.events \ {p} : same(p, q) /\ ~opens(q) /\ line[p].t <= line[q].t
                 /\ \A q, x \in ch.events : ends(q) => line[x].t <= line[q].t
                 /\ \A q \in DOMAIN line, x \in ch.events :
                      same(p, q) /\ line[p].t < line[q].t /\ line[q].t < line[x].t
                        => Key(line[q]) \in Keys(line, ch.events)
             Near(p, q) ==
               /\ opens(p) /\ ends(q) /\ same(p, q) /\ line[p].t < line[q].t
               /\ \A x \in DOMAIN line :
                    (opens(x) \/ ends(x)) /\ same(p, x) /\ line[x].t \in line[p].t..line[q].t
                      => Key(line[x]) \in Keys(line, {p, q})
  <1>1. ASSUME NEW ch \in mine PROVE OfSession(ch)
    <2>1. ch \in SessionChains(line, F)
      BY KeptAre, KindsAre
    <2>2. PICK p \in ch.events :
           /\ line[p].id = "4624" /\ Session(line[p]) # ""
           /\ \A q \in ch.events \ {p} :
                /\ line[p].host = line[q].host /\ Session(line[p]) = Session(line[q])
                /\ line[q].id # "4624" /\ line[p].t <= line[q].t
           /\ \A q, x \in ch.events : line[q].id = "4634" => line[x].t <= line[q].t
           /\ \A q \in DOMAIN line, x \in ch.events :
                /\ line[p].host = line[q].host /\ Session(line[p]) = Session(line[q])
                /\ line[p].t < line[q].t /\ line[q].t < line[x].t
                => Key(line[q]) \in Keys(line, ch.events)
      BY <2>1, SessionChainsAreSound
    <2> WITNESS p \in ch.events
    <2> QED BY <2>2
  <1>2. ASSUME NEW p \in DOMAIN line, NEW q \in DOMAIN line, Near(p, q)
        PROVE  \E ch \in mine : Keys(line, {p, q}) \subseteq Keys(line, ch.events)
    <2>1. /\ line[p].id = "4624" /\ IsName(Session(line[p])) /\ line[q].id = "4634"
          /\ line[p].host = line[q].host /\ Session(line[p]) = Session(line[q])
          /\ line[p].t < line[q].t
      BY <1>2 DEF IsName
    <2>2. \A x \in DOMAIN line :
            /\ line[x].id \in {"4624", "4634"}
            /\ line[p].host = line[x].host /\ Session(line[p]) = Session(line[x])
            /\ line[x].t \in line[p].t..line[q].t
            => Key(line[x]) \in Keys(line, {p, q})
      BY <1>2
    <2>3. PICK a \in SessionChains(line, F) :
            a.type = "session" /\ Keys(line, {p, q}) \subseteq Keys(line, a.events)
      BY <2>1, <2>2, SessionChainsAreThere
    <2>4. PICK b \in KeptChains(line, F) : a.type = b.type /\ Keys(line, a.events) = Keys(line, b.events)
      BY <2>3, KeptAre DEF AllChains
    <2> QED BY <2>3, <2>4
  <1> QED BY <1>1, <1>2 DEF SessionChainsAreComplete

\* The activity chains that are kept are as long as they may be.
LEMMA ActivityChainsComplete ==
  ASSUME NEW line, IsTimeline(line), NEW F, IsFiniteSet(F)
  PROVE  ActivityChainsAreComplete(line, F, KeptChains(line, F))
  <1> DEFINE shown(p) == \E f \in F : Key(f.event) = Key(line[p])
             same(p, q) == line[p].host = line[q].host /\ line[p].user = line[q].user
             counts(p) == /\ shown(p) /\ Session(line[p]) = "" /\ line[p].user # ""
                          /\ line[p].id \notin {"4624", "4634", "4625", "4647"}
  <1> SUFFICES ASSUME NEW ch \in KeptChains(line, F), ch.type = "activity"
               PROVE  /\ \A p \in ch.events : counts(p) /\ same(p, Min(ch.events))
                      /\ \A q \in DOMAIN line :
                           counts(q) /\ same(q, Min(ch.events)) /\ q > Min(ch.events)
                             => (q \in ch.events <=> line[q].t - line[Min(ch.events)].t <= ActivityWindow)
    BY DEF ActivityChainsAreComplete
  <1>1. ch \in ActivityChains(line, F)
    BY KeptAre, KindsAre
  <1>2. PICK o \in DOMAIN line : \E i, j \in 1..Len(ActivityOf(line, F, o)) :
           /\ IsName(line[o].user) /\ Stretch(line, ActivityOf(line, F, o), i, j)
           /\ ch = ActivityChain(line, F, Run(ActivityOf(line, F, o), i, j))
    BY <1>1, ActivityChainIs
  <1>3. PICK i \in 1..Len(ActivityOf(line, F, o)), j \in 1..Len(ActivityOf(line, F, o)) :
           /\ IsName(line[o].user) /\ Stretch(line, ActivityOf(line, F, o), i, j)
           /\ ch = ActivityChain(line, F, Run(ActivityOf(line, F, o), i, j))
    BY <1>2
  <1> DEFINE s == ActivityOf(line, F, o)
  <1>4. /\ Rising(s) /\ Len(s) \in Nat
        /\ \A k \in 1..Len(s) : /\ s[k] \in DOMAIN line /\ line[s[k]].t \in Nat
                                /\ s[k] \in Activity(line, F, line[o].host, line[o].user)
        /\ \A q \in Activity(line, F, line[o].host, line[o].user) : \E k \in 1..Len(s) : s[k] = q
        /\ \A m, n \in 1..Len(s) : m <= n => line[s[m]].t <= line[s[n]].t
    BY ActivityElements
  <1>5. ch.events = Run(s, i, j)
    BY <1>3 DEF ActivityChain, Chain
  <1>6. Stretch(line, s, i, j)
    BY <1>3
  <1> HIDE DEF s
  <1>7. i \in 1..Len(s) /\ j \in 1..Len(s) /\ i <= j /\ i \in Nat /\ j \in Nat
    BY <1>4, <1>6 DEF Stretch
  <1>8. Min(ch.events) = s[i]
    <2>1. i \in 1..j
      BY <1>7
    <2> QED BY <1>4, <1>5, <1>7, <2>1, FirstOfRun
  <1>9. \A x : x \in ch.events <=> \E k \in i..j : x = s[k]
    BY <1>5, RunElements
  <1>10. \A p \in DOMAIN line : p \in Activity(line, F, line[o].host, line[o].user) <=>
           counts(p) /\ line[p].host = line[o].host /\ line[p].user = line[o].user
    BY <1>3 DEF Activity, IsName
  <1>11. counts(s[i]) /\ line[s[i]].host = line[o].host /\ line[s[i]].user = line[o].user
    BY <1>4, <1>7, <1>10
  <1>12. ASSUME NEW p \in ch.events PROVE counts(p) /\ same(p, s[i])
    <2>1. PICK k \in i..j : p = s[k]
      BY <1>9
    <2>2. k \in 1..Len(s)
      BY <1>7
    <2> QED BY <1>4, <1>10, <1>11, <2>1, <2>2
  <1> HIDE DEF counts
  <1>13. ASSUME NEW q \in DOMAIN line, counts(q), same(q, s[i]), q > s[i]
         PROVE  q \in ch.events <=> line[q].t - line[s[i]].t <= ActivityWindow
    <2>1. PICK k \in 1..Len(s) : s[k] = q
      BY <1>4, <1>10, <1>11, <1>13
    <2>2. i < k
      <3>1. s[k] \in Nat /\ s[i] \in Nat /\ (k < i => s[k] < s[i])
        BY <1>4, <1>7 DEF Rising
      <3> QED BY <1>7, <1>13, <2>1, <3>1
    <2>3. CASE k <= j
      <3>1. k \in i..j
        BY <1>7, <2>2, <2>3
      <3> QED BY <1>6, <1>9, <2>1, <3>1 DEF Stretch
    <2>4. CASE j < k
      <3>1. q \notin ch.events
        <4>1. ASSUME NEW l \in i..j, q = s[l] PROVE FALSE
          <5>1. l \in 1..Len(s) /\ l < k
            BY <1>7, <2>4
          <5>2. s[l] < s[k] /\ s[l] \in Nat
            BY <1>4, <5>1 DEF Rising
          <5> QED BY <2>1, <4>1, <5>2
        <4> QED BY <1>9, <4>1
      <3>2. j + 1 \in 1..Len(s) /\ j + 1 <= k /\ j # Len(s)
        BY <1>4, <1>7, <2>4
      <3>3. line[s[j + 1]].t <= line[s[k]].t /\ line[s[j + 1]].t \in Nat /\ line[s[k]].t \in Nat
            /\ line[s[i]].t \in Nat /\ ActivityWindow \in Nat
        BY <1>4, <1>7, <3>2, CorrelationAssumption
      <3>4. line[s[j + 1]].t - line[s[i]].t > ActivityWindow
        BY <1>6, <3>2 DEF Stretch
      <3>5. ~(line[s[k]].t - line[s[i]].t <= ActivityWindow)
        BY <3>3, <3>4
      <3> QED BY <2>1, <3>1, <3>5
    <2> QED BY <1>7, <2>3, <2>4
  <1> QED BY <1>8, <1>12, <1>13

\* A call that counts crosses to its target and has an effect there.
LEMMA FirstCallIs ==
  ASSUME NEW line, IsTimeline(line), NEW x \in FirstCalls(line)
  PROVE  /\ x \in Calls(line) /\ x \in Crossing(line) /\ EvidenceOf(line, x) # {}
         /\ Crosses(line, x, TargetOf(line, x)) /\ x[1] \in DOMAIN line
         /\ line[x[1]].host # TargetOf(line, x)
         /\ \A q \in EvidenceOf(line, x) : q \in DOMAIN line /\ line[q].host = TargetOf(line, x)
         /\ x[1] \notin EvidenceOf(line, x)
  <1>1. x \in Calls(line) /\ x \in Crossing(line) /\ EvidenceOf(line, x) # {}
    BY DEF FirstCalls, Effective, Counted, Crossing
  <1>2. Crosses(line, x, TargetOf(line, x)) /\ x[1] \in DOMAIN line
    BY <1>1, TargetsAre, CallIs
  <1>3. line[x[1]].host # TargetOf(line, x)
    BY <1>2 DEF Crosses
  <1>4. \A q \in EvidenceOf(line, x) : q \in DOMAIN line /\ line[q].host = TargetOf(line, x)
    BY <1>1, EvidenceIs DEF EvidenceOf, Soon
  <1> QED BY <1>1, <1>2, <1>3, <1>4

\* A remote chain is of a call that crosses to its target and has an effect there.
LEMMA RemoteChainsAreSound ==
  ASSUME NEW line, IsTimeline(line), NEW F, NEW ch \in RemoteChains(line, F)
  PROVE  \E x \in Calls(line) :
           LET h == ch.remote.target
           IN  /\ Crosses(line, x, h) /\ x[1] \in ch.events
               /\ ch.remote.method = Call(line, x).method
               /\ ch.events \ {x[1]} # {}
               /\ \A q \in ch.events \ {x[1]} :
                    \/ q \in Effects(line, x, h)
                    \/ NeedsLogon(line, x) /\ Soon(line, x[1], q, h) /\ LogsOn(line, x[1], q)
               /\ NeedsLogon(line, x) => \E q \in ch.events : LogsOn(line, x[1], q)
  <1>1. PICK x \in FirstCalls(line) : ch = RemoteChain(line, F, x)
    BY RemoteChainsAre
  <1> DEFINE h == TargetOf(line, x)
             E == EvidenceOf(line, x)
  <1>2. /\ x \in Calls(line) /\ E # {} /\ Crosses(line, x, h) /\ x[1] \notin E
    BY FirstCallIs
  <1>3. /\ ch.events = {x[1]} \union E /\ ch.remote.target = h
        /\ ch.remote.method = Call(line, x).method
    BY <1>1, RemoteChainIs
  <1>4. /\ \A q \in E : \/ q \in Effects(line, x, h)
                        \/ NeedsLogon(line, x) /\ Soon(line, x[1], q, h) /\ LogsOn(line, x[1], q)
        /\ NeedsLogon(line, x) => \E q \in E : LogsOn(line, x[1], q)
    BY <1>2, EvidenceIs DEF EvidenceOf
  <1> HIDE DEF h, E
  <1>5. ch.events \ {x[1]} = E /\ x[1] \in ch.events /\ E \subseteq ch.events
    BY <1>2, <1>3
  <1> QED BY <1>2, <1>3, <1>4, <1>5

\* Two chains over the same observations are of the same hosts.
LEMMA RemoteHostsAre ==
  ASSUME NEW line, IsTimeline(line), NEW F, NEW x \in FirstCalls(line), NEW y \in FirstCalls(line),
         Telling(line, x),
         Keys(line, RemoteChain(line, F, x).events) = Keys(line, RemoteChain(line, F, y).events)
  PROVE  line[x[1]].host = line[y[1]].host /\ TargetOf(line, x) = TargetOf(line, y)
  <1> DEFINE K == Keys(line, {x[1]} \union EvidenceOf(line, x))
  <1>1. K = Keys(line, {y[1]} \union EvidenceOf(line, y))
    <2>1. /\ RemoteChain(line, F, x).events = {x[1]} \union EvidenceOf(line, x)
          /\ RemoteChain(line, F, y).events = {y[1]} \union EvidenceOf(line, y)
      BY RemoteChainIs
    <2> QED BY <2>1
  <1>2. PICK e \in EvidenceOf(line, x) : line[e].id \in {"4624", "7045", "4697"}
    BY FirstCallIs, EvidenceIs DEF EvidenceOf
  <1>3. /\ line[e].host = TargetOf(line, x) /\ line[x[1]].host # TargetOf(line, x)
        /\ line[y[1]].host # TargetOf(line, y)
    BY FirstCallIs
  <1>4. line[y[1]].id \in {"1", "4104", "4688"}
    BY FirstCallIs, CallIs
  <1>5. PICK f \in {y[1]} \union EvidenceOf(line, y) : Key(line[f]) = Key(line[e])
    BY <1>1 DEF Keys
  <1>6. PICK g \in {y[1]} \union EvidenceOf(line, y) : Key(line[g]) = Key(line[x[1]])
    BY <1>1 DEF Keys
  <1>7. /\ line[f].id = line[e].id /\ line[f].host = line[e].host
        /\ line[g].host = line[x[1]].host
    BY <1>5, <1>6, SameObservation
  <1>8. f \in EvidenceOf(line, y)
    BY <1>2, <1>4, <1>5, <1>7
  <1>9. TargetOf(line, x) = TargetOf(line, y)
    BY <1>3, <1>7, <1>8, FirstCallIs
  <1>10. g = y[1]
    BY <1>3, <1>6, <1>7, <1>9, FirstCallIs
  <1> QED BY <1>7, <1>9, <1>10

\* A call with an effect is in a chain: in its own, in that of an earlier observation
\* of it, or in that of another call which explains the same.
LEMMA RemoteChainsAreThere ==
  ASSUME NEW line, IsTimeline(line), NEW F, IsFiniteSet(F), NEW x \in Calls(line),
         NEW q \in DOMAIN line, Telling(line, x), Crosses(line, x, line[q].host),
         q \in Effects(line, x, line[q].host),
         \A y \in Calls(line) : Key(line[y[1]]) = Key(line[x[1]]) => line[y[1]].user = line[x[1]].user,
         NeedsLogon(line, x) =>
           \E l \in DOMAIN line : Soon(line, x[1], l, line[q].host) /\ LogsOn(line, x[1], l)
  PROVE  \E ch \in KeptChains(line, F) :
           /\ ch.type = "remote"
           /\ ch.remote.source = line[x[1]].host /\ ch.remote.target = line[q].host
           /\ Keys(line, ch.events) \intersect Keys(line, Effects(line, x, line[q].host)) # {}
  <1> DEFINE h == line[q].host
  <1>1. x \in Crossing(line) /\ TargetsOf(line, x) = {h} /\ TargetOf(line, x) = h
    BY TargetsAre
  <1> DEFINE S == {y \in Crossing(line) : Marker(line, y) = Marker(line, x)}
  <1>2. PICK y \in S : \A z \in S : ~Earlier(z, y)
    <2>1. S \subseteq Calls(line) /\ x \in S
      BY <1>1 DEF Crossing
    <2> HIDE DEF S
    <2> QED BY <2>1, OneIsFirst
  <1>3. y \in Counted(line)
    BY <1>2 DEF Counted
  <1>4. /\ y \in Calls(line) /\ Key(line[y[1]]) = Key(line[x[1]]) /\ TargetsOf(line, y) = {h}
        /\ Kind(Call(line, y)) = Kind(Call(line, x))
    BY <1>1, <1>2 DEF Marker, Crossing
  <1>5. /\ line[y[1]].t = line[x[1]].t /\ line[y[1]].host = line[x[1]].host
        /\ line[y[1]].user = line[x[1]].user
    BY <1>4, SameObservation
  <1>6. TargetOf(line, y) = h
    BY <1>4 DEF TargetOf
  <1>7. EvidenceOf(line, y) = Evidence(line, x, h)
    BY <1>4, <1>5, <1>6, SameEvidence DEF EvidenceOf
  <1>8. PICK e \in Evidence(line, x, h) : e \in Effects(line, x, h)
    <2>1. Effects(line, x, h) # {}
      OBVIOUS
    <2> QED BY <2>1, EvidenceIs
  <1>9. y \in Effective(line)
    BY <1>3, <1>7, <1>8 DEF Effective
  <1> DEFINE T == {z \in Effective(line) : Operation(line, z) = Operation(line, y)}
  <1>10. PICK z \in T : \A w \in T : ~Earlier(w, z)
    <2>1. T \subseteq Calls(line) /\ y \in T
      BY <1>9 DEF Effective, Counted, Crossing
    <2> HIDE DEF T
    <2> QED BY <2>1, OneIsFirst
  <1>11. z \in FirstCalls(line)
    BY <1>10 DEF FirstCalls
  <1>12. /\ line[z[1]].host = line[x[1]].host /\ TargetsOf(line, z) = {h}
         /\ Kind(Call(line, z)) = Kind(Call(line, x))
         /\ Keys(line, EvidenceOf(line, z)) = Keys(line, EvidenceOf(line, y))
    BY <1>4, <1>5, <1>10 DEF Operation
  <1>13. TargetOf(line, z) = h
    BY <1>12 DEF TargetOf
  <1>14. Telling(line, z)
    BY <1>12 DEF Telling, NeedsLogon, Kind
  <1> DEFINE a == RemoteChain(line, F, z)
  <1>15. a \in AllChains(line, F) /\ a.type = "remote" /\ a.events = {z[1]} \union EvidenceOf(line, z)
    BY <1>11, RemoteChainsAre, RemoteChainIs DEF AllChains
  <1> HIDE DEF a
  <1>16. PICK b \in KeptChains(line, F) : a.type = b.type /\ Keys(line, a.events) = Keys(line, b.events)
    <2>1. \A c \in AllChains(line, F) : \E b \in KeptChains(line, F) :
            c.type = b.type /\ Keys(line, c.events) = Keys(line, b.events)
      BY KeptAre
    <2>2. a \in AllChains(line, F)
      BY <1>15
    <2> QED BY <2>1, <2>2
  <1>17. PICK w \in FirstCalls(line) : b = RemoteChain(line, F, w)
    BY <1>15, <1>16, KeptAre, KindsAre, RemoteChainsAre
  <1>18. line[w[1]].host = line[z[1]].host /\ TargetOf(line, w) = TargetOf(line, z)
    BY <1>11, <1>14, <1>16, <1>17, RemoteHostsAre DEF a
  <1>19. b.remote.source = line[x[1]].host /\ b.remote.target = h
    BY <1>12, <1>13, <1>17, <1>18, RemoteChainIs
  <1>20. Key(line[e]) \in Keys(line, b.events)
    <2>1. Key(line[e]) \in Keys(line, EvidenceOf(line, z))
      BY <1>7, <1>8, <1>12 DEF Keys
    <2>2. Keys(line, EvidenceOf(line, z)) \subseteq Keys(line, a.events)
      BY <1>15 DEF Keys
    <2> QED BY <1>16, <2>1, <2>2
  <1>21. Key(line[e]) \in Keys(line, Effects(line, x, h))
    BY <1>8 DEF Keys
  <1> QED BY <1>15, <1>16, <1>19, <1>20, <1>21

\* The remote chains that are kept are all there are.
LEMMA RemoteChainsComplete ==
  ASSUME NEW line, IsTimeline(line), NEW F, IsFiniteSet(F)
  PROVE  RemoteChainsAreComplete(line, KeptChains(line, F))
  <1>1. \A ch \in KeptChains(line, F) : ch.type = "remote" => ch \in RemoteChains(line, F)
    BY KeptAre, KindsAre
  <1> QED BY <1>1, RemoteChainsAreSound, RemoteChainsAreThere DEF RemoteChainsAreComplete

-----------------------------------------------------------------------------
(* Groups of chains.                                                       *)

\* Which chains are related.
Ties(line, C) == {x \in C \X C : Related(Scope(line, x[1]), Scope(line, x[2]))}

\* No part of K is closed under the pairs of R.
Bound(R, K) ==
  \A S \in (SUBSET K) \ {{}} :
    (\A a \in S, b \in K : <<a, b>> \in R => b \in S) => S = K

\* A partition of C into parts that are bound.
Grouping(R, C, P) ==
  /\ P \subseteq SUBSET C /\ {} \notin P
  /\ \A ch \in C : \E K \in P : ch \in K
  /\ \A K, L \in P : K # L => K \intersect L = {}
  /\ \A K \in P : Bound(R, K)

\* To join two related parts leaves such a partition.
LEMMA JoinedIs ==
  ASSUME NEW C, NEW R, R \subseteq C \X C, \A a, b \in C : <<a, b>> \in R => <<b, a>> \in R,
         NEW P, Grouping(R, C, P), NEW a \in C, NEW b \in C, <<a, b>> \in R
  PROVE  Grouping(R, C, Joined(P, a, b))
  <1> USE DEF Grouping
  <1>1. PICK A \in P : a \in A
    OBVIOUS
  <1>2. PICK B \in P : b \in B
    OBVIOUS
  <1>3. {G \in P : a \in G \/ b \in G} = {A, B}
    BY <1>1, <1>2
  <1> DEFINE U == A \union B
             Q == Joined(P, a, b)
  <1>4. Q = {G \in P : a \notin G /\ b \notin G} \union {U}
    BY <1>3 DEF Joined
  <1>5. \A G : G \in Q <=> G = U \/ (G \in P /\ G # A /\ G # B)
    BY <1>1, <1>2, <1>4
  <1>6. Q \subseteq SUBSET C /\ {} \notin Q
    BY <1>1, <1>5
  <1>7. \A ch \in C : \E K \in Q : ch \in K
    <2> TAKE ch \in C
    <2>1. PICK K \in P : ch \in K
      OBVIOUS
    <2> HIDE DEF Q
    <2>2. U \in Q /\ (K \in Q \/ ch \in U)
      BY <1>5, <2>1
    <2> HIDE DEF U
    <2> QED BY <2>1, <2>2
  <1>8. \A K, L \in Q : K # L => K \intersect L = {}
    <2>1. \A K \in P : K # A /\ K # B => K \intersect U = {}
      BY <1>1, <1>2
    <2> HIDE DEF U, Q
    <2> QED BY <1>5, <2>1
  <1>9. Bound(R, U)
    <2> SUFFICES ASSUME NEW S \in SUBSET U, S # {},
                        \A x \in S, y \in U : <<x, y>> \in R => y \in S
                 PROVE  S = U
      BY DEF Bound
    <2>1. Bound(R, A) /\ Bound(R, B)
      BY <1>1, <1>2
    <2>2. S \intersect A # {} => A \subseteq S
      <3>1. \A x \in S \intersect A, y \in A : <<x, y>> \in R => y \in S \intersect A
        OBVIOUS
      <3>2. S \intersect A # {} => S \intersect A \in (SUBSET A) \ {{}}
        OBVIOUS
      <3>3. S \intersect A # {} => S \intersect A = A
        <4> DEFINE Part == S \intersect A
        <4>1. Part # {} => Part \in (SUBSET A) \ {{}}
          BY <3>2
        <4>2. \A x \in Part, y \in A : <<x, y>> \in R => y \in Part
          BY <3>1
        <4> HIDE DEF Part
        <4>3. Part # {} => Part = A
          BY <2>1, <4>1, <4>2 DEF Bound
        <4> QED BY <4>3 DEF Part
      <3> QED BY <3>3
    <2>3. S \intersect B # {} => B \subseteq S
      <3>1. \A x \in S \intersect B, y \in B : <<x, y>> \in R => y \in S \intersect B
        OBVIOUS
      <3>2. S \intersect B # {} => S \intersect B \in (SUBSET B) \ {{}}
        OBVIOUS
      <3>3. S \intersect B # {} => S \intersect B = B
        <4> DEFINE Part == S \intersect B
        <4>1. Part # {} => Part \in (SUBSET B) \ {{}}
          BY <3>2
        <4>2. \A x \in Part, y \in B : <<x, y>> \in R => y \in Part
          BY <3>1
        <4> HIDE DEF Part
        <4>3. Part # {} => Part = B
          BY <2>1, <4>1, <4>2 DEF Bound
        <4> QED BY <4>3 DEF Part
      <3> QED BY <3>3
    <2>4. <<b, a>> \in R
      OBVIOUS
    <2>5. a \in S => b \in S
      BY <1>2
    <2>6. b \in S => a \in S
      BY <1>1, <2>4
    <2> QED BY <1>1, <1>2, <2>2, <2>3, <2>5, <2>6
  <1>10. \A K \in Q : Bound(R, K)
    <2> HIDE DEF U, Q
    <2> QED BY <1>5, <1>9
  <1> HIDE DEF Q
  <1> QED BY <1>6, <1>7, <1>8, <1>10 DEF Q

\* A fold over the subsets of S with the function op, one element after the other.
IsFold(f, S, a, op) ==
  \A T \in SUBSET S : f[T] = IF T = {} THEN a
                             ELSE op[<<CHOOSE x \in T : TRUE, f[T \ {CHOOSE x \in T : TRUE}]>>]

\* Every fold over a finite set has a result.
LEMMA FoldExists ==
  ASSUME NEW S, IsFiniteSet(S), NEW A, NEW a \in A, NEW op \in [S \X A -> A]
  PROVE  \E f \in [SUBSET S -> A] : IsFold(f, S, a, op)
  <1> DEFINE pick(T) == CHOOSE x \in T : TRUE
             upto(n) == {T \in SUBSET S : Cardinality(T) <= n}
             folds(f, n) == \A T \in upto(n) : f[T] = IF T = {} THEN a ELSE op[<<pick(T), f[T \ {pick(T)}]>>]
             good(n) == \E f \in [upto(n) -> A] : folds(f, n)
             N == Cardinality(S)
             G == {n \in 0..N : good(n)}
  <1>1. /\ N \in Nat
        /\ \A T \in SUBSET S : IsFiniteSet(T) /\ Cardinality(T) \in 0..N /\ (Cardinality(T) = 0 <=> T = {})
    <2>1. N \in Nat
      BY FS_CardinalityType
    <2>2. \A T \in SUBSET S : IsFiniteSet(T) /\ Cardinality(T) <= N
      BY FS_Subset
    <2> QED BY <2>1, <2>2, FS_CardinalityType, FS_EmptySet
  <1>2. \A T \in SUBSET S : T # {} => /\ pick(T) \in T /\ T \ {pick(T)} \in SUBSET S
                                      /\ Cardinality(T \ {pick(T)}) = Cardinality(T) - 1
    BY <1>1, FS_RemoveElement
  <1> HIDE DEF N, pick
  <1>3. good(0)
    <2> DEFINE f == [T \in upto(0) |-> a]
    <2>1. \A T \in upto(0) : T = {}
      BY <1>1
    <2>2. f \in [upto(0) -> A] /\ folds(f, 0)
      BY <2>1
    <2> HIDE DEF f
    <2> QED BY <2>2
  <1>4. ASSUME NEW n \in 1..N, good(n - 1) PROVE good(n)
    <2>1. PICK f \in [upto(n - 1) -> A] : folds(f, n - 1)
      BY <1>4
    <2> DEFINE step(T) == IF T = {} THEN a ELSE op[<<pick(T), f[T \ {pick(T)}]>>]
               g == [T \in upto(n) |-> step(T)]
    <2>2. \A T \in upto(n) : T # {} => pick(T) \in S /\ T \ {pick(T)} \in upto(n - 1)
      BY <1>1, <1>2
    <2>3. \A T \in upto(n) : step(T) \in A
      <3> TAKE T \in upto(n)
      <3>1. CASE T = {}
        BY <3>1
      <3>2. CASE T # {}
        <4>1. pick(T) \in S /\ f[T \ {pick(T)}] \in A
          BY <2>2, <3>2
        <4> QED BY <3>2, <4>1
      <3> QED BY <3>1, <3>2
    <2>4. g \in [upto(n) -> A]
      BY <2>3
    <2>5. \A T \in upto(n - 1) : T \in upto(n) /\ g[T] = f[T]
      <3> TAKE T \in upto(n - 1)
      <3>1. T \in upto(n)
        BY <1>1
      <3>2. f[T] = step(T)
        BY <2>1
      <3> QED BY <3>1, <3>2
    <2>6. \A T \in upto(n) : g[T] = step(T)
      OBVIOUS
    <2>7. folds(g, n)
      <3> SUFFICES ASSUME NEW T \in upto(n), T # {}
                   PROVE  g[T] = op[<<pick(T), g[T \ {pick(T)}]>>]
        BY <2>6
      <3> HIDE DEF g, upto
      <3> QED BY <2>2, <2>5, <2>6
    <2> HIDE DEF g
    <2> QED BY <2>4, <2>7
  <1>5. N \in G
    <2>1. 0 \in G
      BY <1>1, <1>3
    <2>2. \A n \in 1..N : n - 1 \in G => n \in G
      <3> SUFFICES ASSUME NEW n \in 1..N, n - 1 \in G PROVE n \in G
        OBVIOUS
      <3>1. good(n - 1) /\ n \in 0..N
        <4> HIDE DEF good
        <4> QED BY <1>1
      <3>2. good(n)
        BY <1>4, <3>1
      <3> HIDE DEF good
      <3> QED BY <3>1, <3>2
    <2> HIDE DEF G
    <2> QED BY <1>1, <2>1, <2>2, StepByStep
  <1>6. upto(N) = SUBSET S
    BY <1>1
  <1>7. PICK f \in [upto(N) -> A] : folds(f, N)
    BY <1>5
  <1> HIDE DEF upto
  <1> QED BY <1>6, <1>7 DEF IsFold, pick

\* What holds at first and is kept by each element holds of the result.
LEMMA FoldKeeps ==
  ASSUME NEW S, IsFiniteSet(S), NEW f, NEW B, f[{}] \in B,
         \A T \in SUBSET S : T # {} /\ f[T \ {CHOOSE x \in T : TRUE}] \in B => f[T] \in B
  PROVE  f[S] \in B
  <1> DEFINE N == Cardinality(S)
             G == {n \in 0..N : \A T \in SUBSET S : Cardinality(T) <= n => f[T] \in B}
             pick(T) == CHOOSE x \in T : TRUE
  <1>1. /\ N \in Nat
        /\ \A T \in SUBSET S : IsFiniteSet(T) /\ Cardinality(T) \in 0..N /\ (Cardinality(T) = 0 <=> T = {})
    <2>1. N \in Nat
      BY FS_CardinalityType
    <2>2. \A T \in SUBSET S : IsFiniteSet(T) /\ Cardinality(T) <= N
      BY FS_Subset
    <2> QED BY <2>1, <2>2, FS_CardinalityType, FS_EmptySet
  <1>2. \A T \in SUBSET S : T # {} => /\ pick(T) \in T /\ T \ {pick(T)} \in SUBSET S
                                      /\ Cardinality(T \ {pick(T)}) = Cardinality(T) - 1
    BY <1>1, FS_RemoveElement
  <1>3. \A T \in SUBSET S : T # {} /\ f[T \ {pick(T)}] \in B => f[T] \in B
    OBVIOUS
  <1> HIDE DEF N, pick
  <1>4. 0 \in G
    <2>1. \A T \in SUBSET S : Cardinality(T) <= 0 => T = {}
      BY <1>1
    <2> QED BY <1>1, <1>3, <2>1
  <1>5. ASSUME NEW n \in 1..N, n - 1 \in G PROVE n \in G
    <2>2. n \in 0..N
      BY <1>1
    <2> SUFFICES ASSUME NEW T \in SUBSET S, Cardinality(T) <= n, T # {} PROVE f[T] \in B
      BY <1>3, <2>2
    <2>1. f[T \ {pick(T)}] \in B
      BY <1>1, <1>2, <1>5
    <2> QED BY <1>3, <2>1
  <1> HIDE DEF G
  <1>6. N \in G
    BY <1>1, <1>4, <1>5, StepByStep
  <1> QED BY <1>1, <1>6 DEF G, N

\* Relation does not depend on the order.
LEMMA TiesAreMutual ==
  ASSUME NEW line, NEW C, NEW a \in C, NEW b \in C, <<a, b>> \in Ties(line, C)
  PROVE  <<b, a>> \in Ties(line, C)
  <1>1. \A s, t : Related(s, t) <=> Related(t, s)
    BY DEF Related, Share
  <1> QED BY <1>1 DEF Ties

\* The groups of chains are a partition.
LEMMA GroupsAre ==
  ASSUME NEW line, NEW C, IsFiniteSet(C)
  PROVE  Grouping(Ties(line, C), C, Groups(line, C))
  <1> DEFINE R == Ties(line, C)
             A == SUBSET SUBSET C
             a == {{ch} : ch \in C}
             op == [y \in R \X A |-> Joined(y[2], y[1][1], y[1][2])]
             B == {P \in A : Grouping(R, C, P)}
             step(f, T) == IF T = {} THEN a
                           ELSE Joined(f[T \ {CHOOSE x \in T : TRUE}],
                                  (CHOOSE x \in T : TRUE)[1], (CHOOSE x \in T : TRUE)[2])
             fold == CHOOSE f : f = [T \in SUBSET R |-> step(f, T)]
  <1>1. R \subseteq C \X C /\ \A x, y \in C : <<x, y>> \in R => <<y, x>> \in R
    BY TiesAreMutual DEF Ties
  <1>2. IsFiniteSet(R)
    BY <1>1, FS_Product, FS_Subset
  <1>3. Groups(line, C) = fold[R]
    BY DEF Groups, FoldSet, MapThenFoldSet, Ties
  <1> HIDE DEF R
  <1>4. a \in B
    <2>1. a \in A
      OBVIOUS
    <2>2. \A ch \in C : Bound(R, {ch})
      <3>1. ASSUME NEW ch, NEW S \in SUBSET {ch}, S # {} PROVE S = {ch}
        BY <3>1
      <3> QED BY <3>1 DEF Bound
    <2>3. \A K \in a : Bound(R, K)
      BY <2>2
    <2> QED BY <2>1, <2>3 DEF Grouping
  <1>5. \A P \in A, x, y \in C : Joined(P, x, y) \in A
    BY DEF Joined
  <1>6. \A y \in R \X A : op[y] = Joined(y[2], y[1][1], y[1][2]) /\ op[y] \in A
    <2> TAKE y \in R \X A
    <2>1. y[2] \in A /\ y[1][1] \in C /\ y[1][2] \in C
      BY <1>1
    <2> HIDE DEF A
    <2> QED BY <1>5, <2>1
  <1>7. op \in [R \X A -> A]
    BY <1>6
  <1> HIDE DEF op
  <1>8. PICK f \in [SUBSET R -> A] : IsFold(f, R, a, op)
    <2>1. a \in A
      BY <1>4
    <2> HIDE DEF a, A
    <2> QED BY <1>2, <1>7, <2>1, FoldExists
  <1>9. \A T \in SUBSET R : T # {} => (CHOOSE x \in T : TRUE) \in R /\ T \ {CHOOSE x \in T : TRUE} \in SUBSET R
    OBVIOUS
  <1>10. \A T \in SUBSET R : f[T] = step(f, T)
    <2> TAKE T \in SUBSET R
    <2>1. CASE T = {}
      BY <1>8, <2>1 DEF IsFold
    <2>2. CASE T # {}
      <3> DEFINE x == CHOOSE x \in T : TRUE
      <3>1. x \in R /\ f[T \ {x}] \in A
        BY <1>8, <1>9, <2>2
      <3>2. f[T] = op[<<x, f[T \ {x}]>>]
        BY <1>8, <2>2 DEF IsFold
      <3> HIDE DEF x, A
      <3>3. <<x, f[T \ {x}]>> \in R \X A
        BY <3>1
      <3>4. f[T] = Joined(f[T \ {x}], x[1], x[2])
        BY <1>6, <3>2, <3>3
      <3> QED BY <2>2, <3>4 DEF x
    <2> QED BY <2>1, <2>2
  <1>11. f = [T \in SUBSET R |-> step(f, T)]
    BY <1>10
  <1>12. fold = [T \in SUBSET R |-> step(fold, T)]
    <2> HIDE DEF step
    <2> QED BY <1>11
  <1> HIDE DEF fold
  <1>13. \A T \in SUBSET R : fold[T] = step(fold, T)
    <2> HIDE DEF step
    <2> QED BY <1>12
  <1>14. fold[{}] \in B
    BY <1>4, <1>13
  <1>15. ASSUME NEW T \in SUBSET R, T # {}, fold[T \ {CHOOSE x \in T : TRUE}] \in B
         PROVE  fold[T] \in B
    <2> DEFINE x == CHOOSE x \in T : TRUE
               P == fold[T \ {x}]
    <2>1. fold[T] = Joined(P, x[1], x[2])
      BY <1>13, <1>15
    <2>2. x \in R /\ x = <<x[1], x[2]>> /\ x[1] \in C /\ x[2] \in C
      BY <1>1, <1>9, <1>15
    <2>3. P \in A /\ Grouping(R, C, P)
      BY <1>15
    <2> HIDE DEF x, P, A
    <2>4. Grouping(R, C, fold[T]) /\ fold[T] \in A
      BY <1>1, <1>5, <2>1, <2>2, <2>3, JoinedIs
    <2> QED BY <2>4
  <1>16. fold[R] \in B
    <2> HIDE DEF B
    <2> QED BY <1>2, <1>14, <1>15, FoldKeeps
  <1> QED BY <1>3, <1>16 DEF R

-----------------------------------------------------------------------------
(* Components.                                                             *)

\* Each chain is of one host, and no two stand for the same lifetime.
Distinct(line, C) ==
  /\ \A ch \in C : \E h : Scope(line, ch).hosts = {h}
  /\ \A a, b \in C : a.instance = b.instance /\ a.instance # <<>> => a = b

\* The chains that join a lifetime, and the component they make with it.
Joining(line, C, i) == {ch \in C : ch.instance = <<>> /\ Claims(line, C, ch) = {i}}
Lifetime(line, C, i) == {ch \in C : ch.instance = i} \union Joining(line, C, i)
Unresolved(line, C) ==
  {ch \in C : ch.instance = <<>> /\ \A i \in Lifetimes(C) : Claims(line, C, ch) # {i}}

\* The components are lifetimes with what joins them, and groups of the rest.
LEMMA ComponentsAre ==
  ASSUME NEW line, NEW C
  PROVE  Components(line, C) =
           {Lifetime(line, C, i) : i \in Lifetimes(C)} \union Groups(line, Unresolved(line, C))
  <1> DEFINE plain == {ch \in C : ch.instance = <<>>}
             joined(i) == {ch \in plain : Claims(line, C, ch) = {i}}
             unresolved == plain \ UNION {joined(i) : i \in Lifetimes(C)}
  <1>1. Components(line, C) =
          {{ch \in C : ch.instance = i} \union joined(i) : i \in Lifetimes(C)} \union Groups(line, unresolved)
    BY DEF Components
  <1>2. \A i : joined(i) = Joining(line, C, i)
    BY DEF Joining
  <1>3. unresolved = Unresolved(line, C)
    BY DEF Unresolved
  <1> HIDE DEF joined, unresolved
  <1> QED BY <1>1, <1>2, <1>3 DEF Lifetime

\* What joins a lifetime is related to it and overlaps it.
LEMMA LifetimeIs ==
  ASSUME NEW line, NEW C, Distinct(line, C), NEW i \in Lifetimes(C)
  PROVE  \E life \in C :
           /\ life.instance = i /\ i # <<>>
           /\ Lifetime(line, C, i) = {life} \union Joining(line, C, i)
           /\ \A ch \in Joining(line, C, i) : <<ch, life>> \in Ties(line, C) /\ Overlap(line, ch, life)
  <1>1. PICK life \in C : life.instance = i /\ i # <<>>
    BY DEF Lifetimes
  <1>2. {ch \in C : ch.instance = i} = {life}
    BY <1>1 DEF Distinct
  <1>3. ASSUME NEW ch \in Joining(line, C, i)
        PROVE  <<ch, life>> \in Ties(line, C) /\ Overlap(line, ch, life)
    <2>1. ch \in C /\ i \in Claims(line, C, ch)
      BY DEF Joining
    <2>2. PICK x \in C : x.instance = i /\ Related(Scope(line, ch), Scope(line, x)) /\ Overlap(line, ch, x)
      BY <2>1 DEF Claims
    <2>3. x = life
      BY <1>1, <2>2 DEF Distinct
    <2> QED BY <2>1, <2>2, <2>3 DEF Ties
  <1> QED BY <1>1, <1>2, <1>3 DEF Lifetime

\* A component with a lifetime is bound by it.
LEMMA LifetimeIsBound ==
  ASSUME NEW line, NEW C, Distinct(line, C), NEW i \in Lifetimes(C)
  PROVE  Bound(Ties(line, C), Lifetime(line, C, i))
  <1>1. PICK life \in C :
           /\ Lifetime(line, C, i) = {life} \union Joining(line, C, i)
           /\ \A ch \in Joining(line, C, i) : <<ch, life>> \in Ties(line, C)
    BY LifetimeIs
  <1> DEFINE K == Lifetime(line, C, i)
  <1>2. \A ch \in K : ch = life \/ (<<ch, life>> \in Ties(line, C) /\ <<life, ch>> \in Ties(line, C))
    BY <1>1, TiesAreMutual DEF Joining
  <1>3. life \in K
    BY <1>1
  <1> HIDE DEF K
  <1> SUFFICES ASSUME NEW S \in SUBSET K, S # {},
                      \A a \in S, b \in K : <<a, b>> \in Ties(line, C) => b \in S
               PROVE  S = K
    BY DEF Bound, K
  <1>4. life \in S
    BY <1>2, <1>3
  <1>5. \A ch \in K : ch \in S
    BY <1>2, <1>3, <1>4
  <1> QED BY <1>5

\* What is bound by the relation of some chains is bound by that of more.
LEMMA BoundByMore ==
  ASSUME NEW R, NEW Q, R \subseteq Q, NEW K, Bound(R, K)
  PROVE  Bound(Q, K)
  BY DEF Bound

\* The components are a partition of the chains.
LEMMA ComponentsPartition ==
  ASSUME NEW line, NEW C, IsFiniteSet(C), Distinct(line, C)
  PROVE  Grouping(Ties(line, C), C, Components(line, C))
  <1> DEFINE R == Ties(line, C)
             U == Unresolved(line, C)
             L(i) == Lifetime(line, C, i)
             P == Components(line, C)
             G == Groups(line, U)
  <1>1. U \subseteq C /\ IsFiniteSet(U)
    <2>1. U \subseteq C
      BY DEF Unresolved
    <2> QED BY <2>1, FS_Subset
  <1>2. Grouping(Ties(line, U), U, G)
    BY <1>1, GroupsAre
  <1>3. \A K : K \in P <=> K \in G \/ \E i \in Lifetimes(C) : K = L(i)
    BY ComponentsAre
  <1>4. \A i \in Lifetimes(C) : L(i) \subseteq C /\ L(i) # {} /\ Bound(R, L(i))
    BY LifetimeIs, LifetimeIsBound DEF Joining
  <1>5. \A K \in G : K \subseteq U /\ K # {} /\ Bound(R, K)
    <2>1. Ties(line, U) \subseteq R
      BY <1>1 DEF Ties
    <2> QED BY <1>2, <2>1, BoundByMore DEF Grouping
  <1>6. \A ch \in C : ch \in U \/ \E i \in Lifetimes(C) : ch \in L(i)
    BY DEF Unresolved, Lifetime, Joining, Lifetimes
  <1>7. \A i, j \in Lifetimes(C) : \A ch \in L(i) : ch \in L(j) => i = j
    <2> SUFFICES ASSUME NEW i \in Lifetimes(C), NEW j \in Lifetimes(C), NEW ch \in L(i), ch \in L(j)
                 PROVE  i = j
      OBVIOUS
    <2>1. i # <<>> /\ j # <<>>
      BY DEF Lifetimes
    <2>2. ch.instance = i \/ (ch.instance = <<>> /\ Claims(line, C, ch) = {i})
      BY DEF Lifetime, Joining
    <2>3. ch.instance = j \/ (ch.instance = <<>> /\ Claims(line, C, ch) = {j})
      BY DEF Lifetime, Joining
    <2> QED BY <2>1, <2>2, <2>3
  <1>8. \A i \in Lifetimes(C) : L(i) \intersect U = {}
    BY DEF Unresolved, Lifetime, Joining, Lifetimes
  <1> HIDE DEF R, U, L, P, G
  <1>9. P \subseteq SUBSET C /\ {} \notin P /\ \A K \in P : Bound(R, K)
    BY <1>1, <1>3, <1>4, <1>5
  <1>10. \A ch \in C : \E K \in P : ch \in K
    BY <1>2, <1>3, <1>6 DEF Grouping
  <1>11. \A K, M \in P : K # M => K \intersect M = {}
    <2>1. \A K, M \in G : K # M => K \intersect M = {}
      BY <1>2 DEF Grouping
    <2>2. \A i \in Lifetimes(C), M \in G : L(i) \intersect M = {}
      BY <1>5, <1>8
    <2>3. \A i, j \in Lifetimes(C) : L(i) # L(j) => L(i) \intersect L(j) = {}
      BY <1>7
    <2> QED BY <1>3, <2>1, <2>2, <2>3
  <1> QED BY <1>9, <1>10, <1>11 DEF Grouping, R, P

\* A component has one lifetime at most, and everything in it overlaps that.
LEMMA ComponentsLive ==
  ASSUME NEW line, NEW C, IsFiniteSet(C), Distinct(line, C), NEW K \in Components(line, C)
  PROVE  /\ \A a, b \in K : a.instance # <<>> /\ b.instance # <<>> => a.instance = b.instance
         /\ \A a, b \in K : a.instance # <<>> /\ b.instance = <<>> => Overlap(line, a, b)
  <1>1. CASE K \in Groups(line, Unresolved(line, C))
    <2>1. IsFiniteSet(Unresolved(line, C))
      <3>1. Unresolved(line, C) \subseteq C
        BY DEF Unresolved
      <3> QED BY <3>1, FS_Subset
    <2>2. K \subseteq Unresolved(line, C)
      BY <1>1, <2>1, GroupsAre DEF Grouping
    <2> QED BY <2>2 DEF Unresolved
  <1>2. ASSUME NEW i \in Lifetimes(C), K = Lifetime(line, C, i)
        PROVE  /\ \A a, b \in K : a.instance # <<>> /\ b.instance # <<>> => a.instance = b.instance
               /\ \A a, b \in K : a.instance # <<>> /\ b.instance = <<>> => Overlap(line, a, b)
    <2>1. PICK life \in C :
            /\ life.instance = i /\ i # <<>>
            /\ Lifetime(line, C, i) = {life} \union Joining(line, C, i)
            /\ \A ch \in Joining(line, C, i) : Overlap(line, ch, life)
      BY LifetimeIs
    <2>2. \A ch \in K : IF ch.instance = <<>> THEN Overlap(line, ch, life) ELSE ch = life
      BY <1>2, <2>1 DEF Joining
    <2>3. \A ch : Overlap(line, ch, life) => Overlap(line, life, ch)
      BY DEF Overlap
    <2> QED BY <2>2, <2>3
  <1> QED BY <1>1, <1>2, ComponentsAre

\* A component is of one host.
LEMMA ComponentsAreLocal ==
  ASSUME NEW line, NEW C, IsFiniteSet(C), Distinct(line, C), NEW K \in Components(line, C)
  PROVE  K # {} /\ \E h : \A ch \in K : Scope(line, ch).hosts = {h}
  <1>1. K \subseteq C /\ K # {} /\ Bound(Ties(line, C), K)
    BY ComponentsPartition DEF Grouping
  <1>2. PICK one \in K : TRUE
    BY <1>1
  <1>3. PICK h : Scope(line, one).hosts = {h}
    BY <1>1 DEF Distinct
  <1> DEFINE S == {ch \in K : Scope(line, ch).hosts = {h}}
  <1>4. S \in (SUBSET K) \ {{}}
    BY <1>2, <1>3
  <1>5. ASSUME NEW a \in S, NEW b \in K, <<a, b>> \in Ties(line, C) PROVE b \in S
    <2>1. Share(Scope(line, a).hosts, Scope(line, b).hosts)
      BY <1>5 DEF Ties, Related
    <2>2. Scope(line, a).hosts = {h}
      OBVIOUS
    <2>3. PICK g : Scope(line, b).hosts = {g}
      BY <1>1 DEF Distinct
    <2>4. g = h
      BY <2>1, <2>2, <2>3 DEF Share
    <2> QED BY <2>3, <2>4
  <1>6. S = K
    <2> HIDE DEF S
    <2> QED BY <1>1, <1>4, <1>5 DEF Bound
  <1>7. \A ch \in K : Scope(line, ch).hosts = {h}
    BY <1>6
  <1> QED BY <1>1, <1>7

\* The findings of a chain are about its events.
LEMMA FindingsAreAbout ==
  ASSUME NEW line, IsTimeline(line), NEW F, IsFiniteSet(F), NEW ch \in AllChains(line, F),
         NEW f \in ch.findings
  PROVE  f \in F /\ \E p \in ch.events : Key(f.event) = Key(line[p])
  <1>1. CASE ch \in RuleChains(line, F)
    <2>1. PICK c \in CorrelationRules, p \in DOMAIN line : ch = RuleChain(line, F, c, p)
      BY <1>1, RuleChainsAre
    <2>2. PICK H : /\ ch.events = {p} \union H
                   /\ ch.findings = UNION {Attached(line, F, q) : q \in {p} \union H}
      BY <2>1 DEF RuleChain, Chain
    <2>3. PICK q \in ch.events : f \in Attached(line, F, q)
      BY <2>2
    <2> QED BY <2>3 DEF Attached
  <1>2. CASE ch \in SessionChains(line, F)
    <2>1. PICK p \in DOMAIN line : \E i, j \in 1..Len(LifeOf(line, p)) :
             ch = SessionChain(line, F, SessionName(line, p), Run(LifeOf(line, p), i, j))
      BY <1>2, SessionChainIs
    <2>2. ch.findings = About(line, F, ch.events)
      BY <2>1 DEF SessionChain, Chain
    <2> QED BY <2>2 DEF About
  <1>3. CASE ch \in ActivityChains(line, F)
    <2>1. PICK p \in DOMAIN line : \E i, j \in 1..Len(ActivityOf(line, F, p)) :
             ch = ActivityChain(line, F, Run(ActivityOf(line, F, p), i, j))
      BY <1>3, ActivityChainIs
    <2>2. ch.findings = About(line, F, ch.events)
      BY <2>1 DEF ActivityChain, Chain
    <2> QED BY <2>2 DEF About
  <1>4. CASE ch \in RemoteChains(line, F)
    <2>1. PICK x \in FirstCalls(line) : ch = RemoteChain(line, F, x)
      BY <1>4, RemoteChainsAre
    <2>2. ch.findings = About(line, F, ch.events)
      BY <2>1, RemoteChainIs
    <2> QED BY <2>2 DEF About
  <1> QED BY <1>1, <1>2, <1>3, <1>4 DEF AllChains

\* But for remote commands, the events of a chain are of one host.
LEMMA ChainsAreLocal ==
  ASSUME NEW line, IsTimeline(line), NEW F, IsFiniteSet(F), NEW ch \in AllChains(line, F),
         ch.type # "remote"
  PROVE  \E h : \A p \in ch.events : line[p].host = h
  <1>1. CASE ch \in RuleChains(line, F)
    <2>1. PICK c \in CorrelationRules, p \in DOMAIN line : ch = RuleChain(line, F, c, p)
      BY <1>1, RuleChainsAre
    <2>2. ch.events = {p} \union Follows(line, c, p) /\ "host" \in c.fields
      BY <2>1, RuleChainIs, CorrelationAssumption
    <2>3. \A q \in Follows(line, c, p) : line[q].host = line[p].host
      BY <2>2 DEF Follows, InCommon
    <2> QED BY <2>2, <2>3
  <1>2. CASE ch \in SessionChains(line, F)
    <2>1. PICK p \in ch.events :
           /\ line[p].id = "4624" /\ Session(line[p]) # ""
           /\ \A q \in ch.events \ {p} :
                /\ line[p].host = line[q].host /\ Session(line[p]) = Session(line[q])
                /\ line[q].id # "4624" /\ line[p].t <= line[q].t
           /\ \A q, x \in ch.events : line[q].id = "4634" => line[x].t <= line[q].t
           /\ \A q \in DOMAIN line, x \in ch.events :
                /\ line[p].host = line[q].host /\ Session(line[p]) = Session(line[q])
                /\ line[p].t < line[q].t /\ line[q].t < line[x].t
                => Key(line[q]) \in Keys(line, ch.events)
      BY <1>2, SessionChainsAreSound
    <2>2. \A q \in ch.events \ {p} : line[p].host = line[q].host
      BY <2>1
    <2>3. \A q \in ch.events : line[q].host = line[p].host
      BY <2>2
    <2> QED BY <2>3
  <1>3. CASE ch \in ActivityChains(line, F)
    <2>1. PICK p \in DOMAIN line : \E i, j \in 1..Len(ActivityOf(line, F, p)) :
             /\ Stretch(line, ActivityOf(line, F, p), i, j)
             /\ ch = ActivityChain(line, F, Run(ActivityOf(line, F, p), i, j))
      BY <1>3, ActivityChainIs
    <2> DEFINE s == ActivityOf(line, F, p)
    <2>2. PICK i \in 1..Len(s), j \in 1..Len(s) :
            Stretch(line, s, i, j) /\ ch = ActivityChain(line, F, Run(s, i, j))
      BY <2>1
    <2>3. ch.events = Run(s, i, j)
      BY <2>2 DEF ActivityChain, Chain
    <2>4. Len(s) \in Nat /\ \A k \in 1..Len(s) : s[k] \in Activity(line, F, line[p].host, line[p].user)
      BY ActivityElements
    <2>5. \A k \in 1..Len(s) : line[s[k]].host = line[p].host
      BY <2>4 DEF Activity
    <2>6. \A k \in i..j : k \in 1..Len(s)
      BY <2>2, <2>4
    <2> QED BY <2>3, <2>5, <2>6, RunElements
  <1>4. CASE ch \in RemoteChains(line, F)
    BY <1>4, RemoteChainIsWell
  <1> QED BY <1>1, <1>2, <1>3, <1>4 DEF AllChains

\* So is its scope.
LEMMA ScopesAreLocal ==
  ASSUME NEW line, IsTimeline(line), NEW F, IsFiniteSet(F), NEW ch \in AllChains(line, F),
         ch.type # "remote"
  PROVE  \E h : Scope(line, ch).hosts = {h}
  <1> DEFINE E == ChainEvents(line, ch) \union {f.event : f \in ch.findings}
  <1>1. PICK h : \A p \in ch.events : line[p].host = h
    BY ChainsAreLocal
  <1>2. \A f \in ch.findings : f.event.host = h
    BY <1>1, FindingsAreAbout, SameObservation
  <1>3. PICK p \in ch.events : TRUE
    BY KindsAre DEF WellChain
  <1>4. line[p] \in E
    BY DEF ChainEvents
  <1>5. \A e \in E : e.host = h
    BY <1>1, <1>2 DEF ChainEvents
  <1>6. Scope(line, ch).hosts = {e.host : e \in E}
    BY DEF Scope, ScopeOf
  <1> HIDE DEF E
  <1> QED BY <1>4, <1>5, <1>6

\* Only sessions stand for lifetimes, one for each.
LEMMA OneLifetimeEach ==
  ASSUME NEW line, IsTimeline(line), NEW F, IsFiniteSet(F), NEW a \in AllChains(line, F),
         NEW b \in AllChains(line, F), a.instance = b.instance, a.instance # <<>>
  PROVE  a = b
  <1>1. \A ch \in AllChains(line, F) : ch.instance # <<>> => ch \in SessionChains(line, F)
    <2>1. \A ch \in RuleChains(line, F) : ch.instance = <<>>
      BY DEF RuleChains, RuleChain, Chain
    <2>2. ASSUME NEW ch \in ActivityChains(line, F) PROVE ch.instance = <<>>
      <3>1. PICK p \in DOMAIN line : \E i, j \in 1..Len(ActivityOf(line, F, p)) :
               ch = ActivityChain(line, F, Run(ActivityOf(line, F, p), i, j))
        BY <2>2, ActivityChainIs
      <3>2. PICK P : ch = ActivityChain(line, F, P)
        BY <3>1
      <3> QED BY <3>2 DEF ActivityChain, Chain
    <2>3. \A ch \in RemoteChains(line, F) : ch.instance = <<>>
      BY DEF RemoteChains, Chain
    <2> QED BY <2>1, <2>2, <2>3 DEF AllChains
  <1>2. ASSUME NEW ch \in SessionChains(line, F), ch.instance # <<>>
        PROVE  \E p \in DOMAIN line : \E k \in 1..Len(LifeOf(line, p)) :
                 /\ LifeOf(line, p)[k] \in ch.events
                 /\ ch.instance = <<line[p].host, Session(line[p]), Key(line[LifeOf(line, p)[k]])>>
    <2>1. PICK p \in DOMAIN line : \E i, j \in 1..Len(LifeOf(line, p)) :
             /\ Lived(line, LifeOf(line, p), i, j)
             /\ ch = SessionChain(line, F, SessionName(line, p), Run(LifeOf(line, p), i, j))
      BY SessionChainIs
    <2> DEFINE s == LifeOf(line, p)
    <2>2. PICK i \in 1..Len(s), j \in 1..Len(s) :
             Lived(line, s, i, j) /\ ch = SessionChain(line, F, SessionName(line, p), Run(s, i, j))
      BY <2>1
    <2> DEFINE P == Run(s, i, j)
               x == CHOOSE q \in P : line[q].id = "4624"
    <2>3. ch.events = P /\ ch.instance = <<line[p].host, Session(line[p]), Key(line[x])>>
      <3>1. ch = SessionChain(line, F, <<line[p].host, Session(line[p])>>, P)
        BY <2>2 DEF SessionName
      <3> QED BY <1>2, <3>1 DEF SessionChain, Chain
    <2>4. Len(s) \in Nat
      BY LifeOfElements
    <2>5. s[i] \in P /\ line[s[i]].id = "4624"
      BY <2>2, <2>4, RunElements DEF Lived
    <2>6. x \in P
      BY <2>5
    <2>7. PICK k \in i..j : x = s[k]
      BY <2>6, RunElements
    <2>8. k \in 1..Len(s)
      BY <2>2, <2>4, <2>7
    <2> HIDE DEF x, P, s
    <2> QED BY <2>3, <2>6, <2>7, <2>8 DEF s
  <1>3. a \in SessionChains(line, F) /\ b \in SessionChains(line, F)
    BY <1>1
  <1>4. PICK p \in DOMAIN line : \E k \in 1..Len(LifeOf(line, p)) :
          /\ LifeOf(line, p)[k] \in a.events
          /\ a.instance = <<line[p].host, Session(line[p]), Key(line[LifeOf(line, p)[k]])>>
    BY <1>2, <1>3
  <1>5. PICK q \in DOMAIN line : \E k \in 1..Len(LifeOf(line, q)) :
          /\ LifeOf(line, q)[k] \in b.events
          /\ b.instance = <<line[q].host, Session(line[q]), Key(line[LifeOf(line, q)[k]])>>
    BY <1>2, <1>3
  <1>6. PICK k \in 1..Len(LifeOf(line, p)) :
          /\ LifeOf(line, p)[k] \in a.events
          /\ a.instance = <<line[p].host, Session(line[p]), Key(line[LifeOf(line, p)[k]])>>
    BY <1>4
  <1>7. PICK l \in 1..Len(LifeOf(line, q)) :
          /\ LifeOf(line, q)[l] \in b.events
          /\ b.instance = <<line[q].host, Session(line[q]), Key(line[LifeOf(line, q)[l]])>>
    BY <1>5
  <1>8. /\ line[p].host = line[q].host /\ Session(line[p]) = Session(line[q])
        /\ Key(line[LifeOf(line, p)[k]]) = Key(line[LifeOf(line, q)[l]])
    <2> DEFINE u == Key(line[LifeOf(line, p)[k]])
               v == Key(line[LifeOf(line, q)[l]])
    <2>1. a.instance = <<line[p].host, Session(line[p]), u>>
      BY <1>6
    <2>2. b.instance = <<line[q].host, Session(line[q]), v>>
      BY <1>7
    <2> HIDE DEF u, v
    <2>3. a.instance[1] = line[p].host /\ a.instance[2] = Session(line[p]) /\ a.instance[3] = u
      BY <2>1
    <2>4. b.instance[1] = line[q].host /\ b.instance[2] = Session(line[q]) /\ b.instance[3] = v
      BY <2>2
    <2>5. line[p].host = line[q].host /\ Session(line[p]) = Session(line[q]) /\ u = v
      BY <2>3, <2>4
    <2> QED BY <2>5 DEF u, v
  <1>9. LifeOf(line, p) = LifeOf(line, q)
    BY <1>8 DEF LifeOf
  <1>10. k = l
    BY <1>8, <1>9, LifeOfElements
  <1>11. LifeOf(line, p)[k] \in a.events /\ LifeOf(line, p)[k] \in b.events
    BY <1>6, <1>7, <1>9, <1>10
  <1> QED BY <1>3, <1>11, SessionChainsAreApart

\* The chains that scenarios of one host are told from.
LocalChains(line, F) == {ch \in KeptChains(line, F) : ch.type # "remote"}

\* There are finitely many, each of one host, and one for each lifetime.
LEMMA LocalChainsAre ==
  ASSUME NEW line, IsTimeline(line), NEW F, IsFiniteSet(F)
  PROVE  IsFiniteSet(LocalChains(line, F)) /\ Distinct(line, LocalChains(line, F))
  <1>1. LocalChains(line, F) \subseteq AllChains(line, F)
    BY KeptAre DEF LocalChains
  <1>2. IsFiniteSet(LocalChains(line, F))
    BY <1>1, ChainsAreFinite, FS_Subset
  <1>3. Distinct(line, LocalChains(line, F))
    <2>1. \A ch \in LocalChains(line, F) : ch.type # "remote"
      BY DEF LocalChains
    <2> QED BY <1>1, <2>1, ScopesAreLocal, OneLifetimeEach DEF Distinct
  <1> QED BY <1>2, <1>3

-----------------------------------------------------------------------------
(* Scenarios of one host.                                                  *)

\* What supports a component was found in its events, or at least on its host.
LEMMA SupportingIs ==
  ASSUME NEW line, IsTimeline(line), NEW F, IsFiniteSet(F), NEW K,
         NEW f \in Supporting(line, F, K)
  PROVE  /\ f \in F /\ \E ch \in K : f.event.host \in Scope(line, ch).hosts
         /\ Lifetimes(K) # {} => \E ch \in K : Key(f.event) \in Keys(line, ch.events)
  <1> DEFINE E == UNION {ChainEvents(line, ch) \union {g.event : g \in ch.findings} : ch \in K}
             keys == {Key(e) : e \in UNION {ChainEvents(line, ch) : ch \in K}}
  <1>1. f \in F /\ IF Lifetimes(K) # {} THEN Key(f.event) \in keys
                   ELSE Related(ScopeOf({f.event}), ScopeOf(E))
    BY DEF Supporting
  <1>2. CASE Lifetimes(K) # {}
    <2>0. PICK ch \in K : \E e \in ChainEvents(line, ch) : Key(f.event) = Key(e)
      BY <1>1, <1>2
    <2>1. PICK e \in ChainEvents(line, ch) : Key(f.event) = Key(e)
      BY <2>0
    <2>2. PICK p \in ch.events : e = line[p]
      BY DEF ChainEvents
    <2>3. f.event.host = e.host
      BY <2>1, SameObservation
    <2>4. e.host \in Scope(line, ch).hosts
      BY DEF Scope, ScopeOf
    <2>5. Key(f.event) \in Keys(line, ch.events)
      BY <2>1, <2>2 DEF Keys
    <2> QED BY <1>1, <2>3, <2>4, <2>5
  <1>3. CASE Lifetimes(K) = {}
    <2>1. Related(ScopeOf({f.event}), ScopeOf(E))
      BY <1>1, <1>3
    <2>2. Share(ScopeOf({f.event}).hosts, ScopeOf(E).hosts)
      BY <2>1 DEF Related
    <2>3. ScopeOf({f.event}).hosts = {f.event.host} /\ ScopeOf(E).hosts = {e.host : e \in E}
      BY DEF ScopeOf
    <2>4. PICK e \in E : e.host = f.event.host
      BY <2>2, <2>3 DEF Share
    <2>5. PICK ch \in K : e \in ChainEvents(line, ch) \union {g.event : g \in ch.findings}
      BY <2>4
    <2>6. e.host \in Scope(line, ch).hosts
      BY <2>5 DEF Scope, ScopeOf
    <2> QED BY <1>1, <1>3, <2>4, <2>6
  <1> QED BY <1>2, <1>3

\* The scenarios told from the components of some chains.
ToldFrom(line, F, C) ==
  UNION {FromTemplates(Supporting(line, F, K), K) \union FromChains(Supporting(line, F, K), K) :
           K \in Components(line, C)}

\* What a component's own events show supports it, if there is an account or a
\* lifetime to go by.
LEMMA ShownSupports ==
  ASSUME NEW line, NEW F, NEW K, NEW f \in F, Shown(line, K, f)
  PROVE  f \in Supporting(line, F, K)
  <1> DEFINE E == UNION {ChainEvents(line, ch) \union {g.event : g \in ch.findings} : ch \in K}
             keys == {Key(e) : e \in UNION {ChainEvents(line, ch) : ch \in K}}
  <1>1. PICK ch \in K : \E p \in ch.events :
           f.event = line[p] /\ (f.event.user # "" \/ Lifetimes(K) # {})
    BY DEF Shown
  <1>2. f.event \in ChainEvents(line, ch) /\ (f.event.user # "" \/ Lifetimes(K) # {})
    BY <1>1 DEF ChainEvents
  <1>3. f.event \in E /\ Key(f.event) \in keys
    BY <1>2
  <1> HIDE DEF E, keys
  <1>4. ASSUME Lifetimes(K) = {} PROVE Related(ScopeOf({f.event}), ScopeOf(E))
    <2>1. /\ f.event.host \in ScopeOf({f.event}).hosts /\ f.event.host \in ScopeOf(E).hosts
          /\ f.event.user \in ScopeOf({f.event}).users /\ f.event.user \in ScopeOf(E).users
      BY <1>2, <1>3, <1>4 DEF ScopeOf
    <2>2. ScopeOf({f.event}).sessions \subseteq ScopeOf(E).sessions
      BY <1>3 DEF ScopeOf
    <2> QED BY <2>1, <2>2 DEF Related, Share
  <1>5. Supporting(line, F, K) =
          {g \in F : IF Lifetimes(K) # {} THEN Key(g.event) \in keys
                     ELSE Related(ScopeOf({g.event}), ScopeOf(E))}
    BY DEF Supporting, E, keys
  <1> QED BY <1>3, <1>4, <1>5

\* Such a scenario is not named like those of remote commands, has chains of its
\* component, and claims what supports that, or what its chains say themselves.
LEMMA ToldIs ==
  ASSUME NEW line, NEW F, NEW C, NEW s \in ToldFrom(line, F, C)
  PROVE  /\ s.name # "remote" /\ s.component \in Components(line, C)
         /\ s.chains # {} /\ s.chains \subseteq s.component
         /\ \A t \in s.techniques :
              ~(s.name \in ChainScenarios /\ t \in {"T1105", "T1059.001"})
              => \E f \in Supporting(line, F, s.component) : f.technique = t
         /\ \A tm \in Templates : s.name = tm.id =>
              \A t \in tm.required : \E x \in s.techniques : x = t \/ <<x, t>> \in SubTechniques
  <1>1. PICK K \in Components(line, C) :
          s \in FromTemplates(Supporting(line, F, K), K) \union FromChains(Supporting(line, F, K), K)
    BY DEF ToldFrom
  <1> DEFINE own == Supporting(line, F, K)
             T == {f.technique : f \in own}
  <1>2. CASE s \in FromTemplates(own, K)
    <2> DEFINE matching(tm) == {ch \in K : tm.patterns = {} \/ ch.type \in tm.patterns}
               seen(tm) == T \intersect (tm.required \union tm.optional)
    <2>1. PICK tm \in Templates :
            /\ matching(tm) # {} /\ \A t \in tm.required : \E x \in seen(tm) : Meets(x, t)
            /\ s = [name |-> tm.id, component |-> K, chains |-> matching(tm), techniques |-> seen(tm)]
      BY <1>2 DEF FromTemplates
    <2>2. s.name # "remote" /\ s.name \notin ChainScenarios
      BY <2>1, ScenarioAssumption DEF ChainScenarios
    <2>3. s.name = tm.id /\ s.component = K /\ s.chains = matching(tm) /\ s.techniques = seen(tm)
      BY <2>1
    <2>4. \A t \in seen(tm) : \E f \in own : f.technique = t
      OBVIOUS
    <2>5. \A t \in tm.required : \E x \in seen(tm) : x = t \/ <<x, t>> \in SubTechniques
      BY <2>1 DEF Meets
    <2>6. \A other \in Templates : other.id = tm.id => other = tm
      BY ScenarioAssumption
    <2> HIDE DEF seen, own
    <2>7. \A other \in Templates : s.name = other.id =>
            \A t \in other.required : \E x \in s.techniques : x = t \/ <<x, t>> \in SubTechniques
      BY <2>3, <2>5, <2>6
    <2>8. /\ s.component \in Components(line, C) /\ s.chains # {} /\ s.chains \subseteq s.component
          /\ \A t \in s.techniques : \E f \in Supporting(line, F, s.component) : f.technique = t
      BY <2>1, <2>3, <2>4 DEF own
    <2> QED BY <2>2, <2>7, <2>8
  <1>3. CASE s \in FromChains(own, K)
    <2>1. PICK type \in ChainScenarios, U \in SUBSET (T \union {"T1105", "T1059.001"}) :
            /\ \E ch \in K : ch.type = type
            /\ s = [name |-> type, component |-> K, chains |-> {ch \in K : ch.type = type}, techniques |-> U]
      BY <1>3 DEF FromChains, ChainScenarios
    <2>2. s.name = type /\ s.component = K /\ s.chains = {ch \in K : ch.type = type} /\ s.techniques = U
      BY <2>1
    <2>3. \A t \in U : t \notin {"T1105", "T1059.001"} => \E f \in own : f.technique = t
      OBVIOUS
    <2>4. {ch \in K : ch.type = type} # {}
      BY <2>1
    <2>5. s.name \in ChainScenarios /\ s.name # "remote" /\ \A tm \in Templates : s.name # tm.id
      BY <2>2, ScenarioAssumption DEF ChainScenarios
    <2> HIDE DEF own
    <2>6. \A t \in s.techniques : t \notin {"T1105", "T1059.001"} =>
            \E f \in Supporting(line, F, s.component) : f.technique = t
      BY <2>2, <2>3 DEF own
    <2> QED BY <2>2, <2>4, <2>5, <2>6
  <1> QED BY <1>1, <1>2, <1>3

\* Where all that a template requires is shown, and a chain has its form, there is
\* its scenario.
LEMMA ToldWhereShown ==
  ASSUME NEW line, NEW F, NEW C, NEW K \in Components(line, C), NEW tm \in Templates,
         tm.required # {}, \E ch \in K : tm.patterns = {} \/ ch.type \in tm.patterns,
         \A t \in tm.required : \E f \in F : f.technique = t /\ Shown(line, K, f)
  PROVE  \E s \in ToldFrom(line, F, C) : s.name = tm.id /\ s.component = K
  <1> DEFINE own == Supporting(line, F, K)
             matching(x) == {ch \in K : x.patterns = {} \/ ch.type \in x.patterns}
             seen(x) == {f.technique : f \in own} \intersect (x.required \union x.optional)
             met(x) == /\ x.required # {} /\ matching(x) # {}
                       /\ \A t \in x.required : \E y \in seen(x) : Meets(y, t)
             told(x) == [name |-> x.id, component |-> K, chains |-> matching(x), techniques |-> seen(x)]
  <1>1. \A t \in tm.required : t \in {f.technique : f \in own}
    BY ShownSupports
  <1> HIDE DEF own
  <1>2. met(tm)
    BY <1>1 DEF Meets
  <1>3. told(tm).name = tm.id /\ told(tm).component = K
    OBVIOUS
  <1>4. FromTemplates(own, K) = {told(x) : x \in {y \in Templates : met(y)}}
    BY DEF FromTemplates
  <1> HIDE DEF told, met
  <1>5. told(tm) \in FromTemplates(own, K)
    BY <1>2, <1>4
  <1>6. told(tm) \in ToldFrom(line, F, C)
    BY <1>5 DEF ToldFrom, own
  <1> QED BY <1>3, <1>6

\* Chains that all name accounts are related by accounts and sessions only.
LEMMA OnlyBoundByTies ==
  ASSUME NEW line, NEW C, NEW K, K \subseteq C, Bound(Ties(line, C), K),
         \A ch \in K : Scope(line, ch).users # {}, NEW S \in (SUBSET K) \ {{}},
         \A a \in S, b \in K :
           \/ Scope(line, a).users \intersect Scope(line, b).users # {}
           \/ Scope(line, a).sessions \intersect Scope(line, b).sessions # {}
           => b \in S
  PROVE  S = K
  <1>1. ASSUME NEW a \in S, NEW b \in K, <<a, b>> \in Ties(line, C)
        PROVE  b \in S
    <2>1. Related(Scope(line, a), Scope(line, b))
      BY <1>1 DEF Ties
    <2>2. Scope(line, a).users # {}
      OBVIOUS
    <2>3. \/ Scope(line, a).users \intersect Scope(line, b).users # {}
          \/ Scope(line, a).sessions \intersect Scope(line, b).sessions # {}
      BY <2>1, <2>2 DEF Related, Share
    <2> QED BY <2>3
  <1> QED BY <1>1 DEF Bound

\* The scenarios of one host keep to their scope.
LEMMA LocalScenariosKeep ==
  ASSUME NEW line, IsTimeline(line), NEW F, IsFiniteSet(F), NEW S,
         S = ToldFrom(line, F, LocalChains(line, F))
  PROVE  LocalScenariosStayInScope(line, F, LocalChains(line, F), S)
  <1> DEFINE C == LocalChains(line, F)
             components == Components(line, C)
             users(ch) == Scope(line, ch).users
             sessions(ch) == Scope(line, ch).sessions
             hosts(K) == UNION {Scope(line, ch).hosts : ch \in K}
             tied(a, b) == users(a) \intersect users(b) # {} \/ sessions(a) \intersect sessions(b) # {}
             closed(K, T) == \A a \in T, b \in K : tied(a, b) => b \in T
  <1>1. IsFiniteSet(C) /\ Distinct(line, C)
    BY LocalChainsAre
  <1>2. Grouping(Ties(line, C), C, components)
    BY <1>1, ComponentsPartition
  <1>3. ASSUME NEW ch \in C PROVE Cardinality({K \in components : ch \in K}) = 1
    <2>1. PICK K \in components : ch \in K
      BY <1>2 DEF Grouping
    <2>2. \A L \in components : ch \in L => L = K
      BY <1>2, <2>1 DEF Grouping
    <2>3. {L \in components : ch \in L} = {K}
      BY <2>1, <2>2
    <2> QED BY <2>3, FS_Singleton
  <1>4. ASSUME NEW K \in components
        PROVE  /\ Cardinality(hosts(K)) = 1
               /\ Cardinality(Lifetimes(K)) <= 1
               /\ \A T \in (SUBSET K) \ {{}} : closed(K, T) /\ T # K => \E ch \in K : users(ch) = {}
    <2>1. Cardinality(hosts(K)) = 1
      <3>1. K # {} /\ \E h : \A ch \in K : Scope(line, ch).hosts = {h}
        BY <1>1, ComponentsAreLocal
      <3>2. PICK h : \A ch \in K : Scope(line, ch).hosts = {h}
        BY <3>1
      <3>3. hosts(K) = {h}
        BY <3>1, <3>2
      <3> QED BY <3>3, FS_Singleton
    <2>2. Cardinality(Lifetimes(K)) <= 1
      <3>1. CASE Lifetimes(K) = {}
        BY <3>1, FS_EmptySet
      <3>2. CASE Lifetimes(K) # {}
        <4>1. PICK i : i \in Lifetimes(K)
          BY <3>2
        <4>2. \A j \in Lifetimes(K) : j = i
          BY <1>1, <4>1, ComponentsLive DEF Lifetimes
        <4>3. Lifetimes(K) = {i}
          BY <4>1, <4>2
        <4> QED BY <4>3, FS_Singleton
      <3> QED BY <3>1, <3>2
    <2>3. ASSUME NEW T \in (SUBSET K) \ {{}}, closed(K, T), T # K
          PROVE  \E ch \in K : users(ch) = {}
      <3>1. K \subseteq C /\ Bound(Ties(line, C), K)
        BY <1>2 DEF Grouping
      <3> QED BY <2>3, <3>1, OnlyBoundByTies
    <2> QED BY <2>1, <2>2, <2>3
  <1>5. ASSUME NEW s \in S
        PROVE  /\ s.component \in components /\ s.chains # {} /\ s.chains \subseteq s.component
               /\ \A t \in s.techniques :
                    ~(s.name \in ChainScenarios /\ t \in {"T1105", "T1059.001"})
                    => \E f \in F :
                      /\ f.technique = t /\ f.event.host \in hosts(s.component)
                      /\ Lifetimes(s.component) # {} =>
                           \E ch \in s.component : Key(f.event) \in Keys(line, ch.events)
               /\ \A a, b \in s.component :
                    a.instance # <<>> /\ b.instance = <<>> => Overlap(line, a, b)
    <2>1. /\ s.component \in components /\ s.chains # {} /\ s.chains \subseteq s.component
          /\ \A t \in s.techniques :
               ~(s.name \in ChainScenarios /\ t \in {"T1105", "T1059.001"})
               => \E f \in Supporting(line, F, s.component) : f.technique = t
      BY ToldIs
    <2>2. ASSUME NEW t \in s.techniques,
                 ~(s.name \in ChainScenarios /\ t \in {"T1105", "T1059.001"})
          PROVE  \E f \in F :
                   /\ f.technique = t /\ f.event.host \in hosts(s.component)
                   /\ Lifetimes(s.component) # {} =>
                        \E ch \in s.component : Key(f.event) \in Keys(line, ch.events)
      <3>1. PICK f \in Supporting(line, F, s.component) : f.technique = t
        BY <2>1, <2>2
      <3>2. /\ f \in F /\ \E ch \in s.component : f.event.host \in Scope(line, ch).hosts
            /\ Lifetimes(s.component) # {} =>
                 \E ch \in s.component : Key(f.event) \in Keys(line, ch.events)
        BY SupportingIs
      <3>3. f.event.host \in hosts(s.component)
        BY <3>2
      <3> QED BY <3>1, <3>2, <3>3
    <2>3. \A a, b \in s.component : a.instance # <<>> /\ b.instance = <<>> => Overlap(line, a, b)
      BY <1>1, <2>1, ComponentsLive
    <2> QED BY <2>1, <2>2, <2>3
  <1>6. \A s \in S, tm \in Templates : s.name = tm.id =>
          \A t \in tm.required : \E x \in s.techniques : x = t \/ <<x, t>> \in SubTechniques
    BY ToldIs
  <1>7. \A K \in components, tm \in Templates :
          /\ tm.required # {} /\ \E ch \in K : tm.patterns = {} \/ ch.type \in tm.patterns
          /\ \A t \in tm.required : \E f \in F : f.technique = t /\ Shown(line, K, f)
          => \E s \in S : s.name = tm.id /\ s.component = K
    BY ToldWhereShown
  <1> HIDE DEF C
  <1> QED BY <1>3, <1>4, <1>5, <1>6, <1>7 DEF LocalScenariosStayInScope, C

-----------------------------------------------------------------------------
(* Scenarios across two hosts.                                             *)

\* Remote chains in the order of their starts.
Starts(line, ch) == line[Min(ch.events)].t

ByStart(line, M) ==
  {x \in M \X M : \/ Starts(line, x[1]) < Starts(line, x[2])
                  \/ /\ Starts(line, x[1]) = Starts(line, x[2])
                     /\ Earlier(x[1].remote.of, x[2].remote.of)}

\* In this order no two remote chains have the same place.
LEMMA StartsAreInOrder ==
  ASSUME NEW line, IsTimeline(line), NEW F, IsFiniteSet(F), NEW M, M \subseteq AllChains(line, F),
         \A ch \in M : ch.type = "remote"
  PROVE  IsOrder(ByStart(line, M), M)
  <1>1. \A ch \in M : /\ Starts(line, ch) \in Nat /\ ch.remote.of = <<ch.remote.of[1], ch.remote.of[2]>>
                      /\ ch.remote.of[1] \in Nat /\ ch.remote.of[2] \in Nat
    <2> SUFFICES ASSUME NEW ch \in M
                 PROVE  /\ Starts(line, ch) \in Nat
                        /\ ch.remote.of = <<ch.remote.of[1], ch.remote.of[2]>>
                        /\ ch.remote.of[1] \in Nat /\ ch.remote.of[2] \in Nat
      OBVIOUS
    <2>1. WellChain(line, ch) /\ ch.type = "remote"
      BY KindsAre
    <2>2. Min(ch.events) \in DOMAIN line
      BY <2>1, FirstEventIs DEF WellChain
    <2>3. line[Min(ch.events)].t \in Nat
      BY <2>2 DEF IsTimeline
    <2>4. ch.remote.of \in Nat \X Nat
      BY <2>1 DEF WellChain
    <2> QED BY <2>3, <2>4 DEF Starts
  <1>2. \A a, b \in M : a.remote.of = b.remote.of => a = b
    BY ChainsAreTold DEF Told
  <1>3. \A a, b \in M : a # b =>
          a.remote.of[1] # b.remote.of[1] \/ a.remote.of[2] # b.remote.of[2]
    BY <1>1, <1>2
  <1> DEFINE precedes(a, b) == \/ Starts(line, a) < Starts(line, b)
                               \/ /\ Starts(line, a) = Starts(line, b)
                                  /\ Earlier(a.remote.of, b.remote.of)
  <1>4. \A a, b \in M : <<a, b>> \in ByStart(line, M) <=> precedes(a, b)
    BY DEF ByStart
  <1>5. \A a, b \in M : a # b => precedes(a, b) \/ precedes(b, a)
    BY <1>1, <1>3 DEF Earlier
  <1>6. \A a \in M : ~precedes(a, a)
    BY <1>1 DEF Earlier
  <1>7. ASSUME NEW a \in M, NEW b \in M, NEW c \in M, precedes(a, b), precedes(b, c)
        PROVE  precedes(a, c)
    <2>1. /\ Starts(line, a) \in Nat /\ Starts(line, b) \in Nat /\ Starts(line, c) \in Nat
          /\ a.remote.of[1] \in Nat /\ b.remote.of[1] \in Nat /\ c.remote.of[1] \in Nat
          /\ a.remote.of[2] \in Nat /\ b.remote.of[2] \in Nat /\ c.remote.of[2] \in Nat
      BY <1>1
    <2> QED BY <1>7, <2>1 DEF Earlier
  <1> HIDE DEF precedes
  <1> QED BY <1>4, <1>5, <1>6, <1>7 DEF IsOrder

\* Of the numbers where something begins one is the last up to m.
LEMMA LastBegins ==
  ASSUME NEW B, B \subseteq Nat, 1 \in B, NEW m \in Nat \ {0}
  PROVE  \E b \in B : b <= m /\ (b + 1)..m \intersect B = {}
  <1> DEFINE I == {b \in B : b <= m}
             b == Max(I)
  <1>0. m \in Nat /\ 1 <= m /\ \A x \in B : x \in Nat
    OBVIOUS
  <1>1. I \subseteq Nat /\ 1 \in I
    BY <1>0
  <1>2. IsFiniteSet(I)
    <2>0. ASSUME NEW x \in I PROVE x \in 0..m
      <3>1. x \in Nat /\ x <= m /\ m \in Nat
        BY <1>0
      <3> QED BY <3>1
    <2>1. I \subseteq 0..m
      BY <2>0
    <2>2. IsFiniteSet(0..m)
      BY FS_Interval
    <2> QED BY <2>1, <2>2, FS_Subset
  <1> HIDE DEF I
  <1>3. b \in I /\ \A i \in I : i <= b
    BY <1>1, <1>2, Extremes
  <1> HIDE DEF b
  <1>4. b \in B /\ b <= m /\ b \in Nat /\ \A i \in B : i <= m => i <= b
    BY <1>3 DEF I
  <1>5. ASSUME NEW i \in (b + 1)..m, i \in B PROVE FALSE
    BY <1>4, <1>5
  <1> QED BY <1>4, <1>5

\* And it is the only one.
LEMMA LastBeginsOnce ==
  ASSUME NEW B, B \subseteq Nat, NEW m \in Nat, NEW a \in B, NEW b \in B,
         a <= m, b <= m, (a + 1)..m \intersect B = {}, (b + 1)..m \intersect B = {}
  PROVE  a = b
  <1>1. CASE a < b
    BY <1>1
  <1>2. CASE b < a
    BY <1>2
  <1> QED BY <1>1, <1>2

\* The episodes of some remote chains are a partition of them.
LEMMA EpisodesPartition ==
  ASSUME NEW line, IsTimeline(line), NEW F, IsFiniteSet(F), NEW M, M \subseteq AllChains(line, F),
         \A ch \in M : ch.type = "remote"
  PROVE  /\ \A E \in EpisodesOf(line, M) : E \subseteq M
         /\ \A ch \in M : \E E \in EpisodesOf(line, M) : ch \in E
         /\ \A D, E \in EpisodesOf(line, M) : \A ch \in D : ch \in E => D = E
  <1> DEFINE N == Cardinality(M)
             row == InOrder(M, ByStart(line, M))
             end(ch) == line[Max(ch.events)].t
             B == {n \in DOMAIN row : n > 1 => Starts(line, row[n]) - end(row[n - 1]) > EpisodeGap}
             part(b) == {m \in b..Len(row) : (b + 1)..m \intersect B = {}}
             episode(b) == {row[n] : n \in part(b)}
  <1>1. IsFiniteSet(M)
    BY ChainsAreFinite, FS_Subset
  <1>2. /\ N \in Nat /\ DOMAIN row = 1..N /\ \A n \in 1..N : row[n] \in M
        /\ \A x \in M : \E n \in 1..N : row[n] = x
        /\ \A m, n \in 1..N : m < n => <<row[m], row[n]>> \in ByStart(line, M)
    BY <1>1, StartsAreInOrder, InOrderSorts
  <1>3. Len(row) = N
    BY <1>2 DEF InOrder
  <1>4. \A m, n \in 1..N : row[m] = row[n] => m = n
    <2>1. \A x : <<x, x>> \notin ByStart(line, M) \/ x \notin M
      BY StartsAreInOrder DEF IsOrder
    <2>2. ASSUME NEW m \in 1..N, NEW n \in 1..N, m < n PROVE row[m] # row[n]
      BY <1>2, <2>1, <2>2
    <2>3. \A m, n \in 1..N : m < n \/ n < m \/ m = n
      OBVIOUS
    <2> QED BY <2>2, <2>3
  <1>5. EpisodesOf(line, M) = {episode(b) : b \in B}
    BY DEF EpisodesOf, ByStart, Starts
  <1>6. B \subseteq Nat /\ B \subseteq 1..N /\ (N > 0 => 1 \in B)
    BY <1>2
  <1> HIDE DEF row, B, N
  <1>7. \A b \in B : \A ch : ch \in episode(b) <=>
          \E n \in 1..N : ch = row[n] /\ b <= n /\ (b + 1)..n \intersect B = {}
    BY <1>2, <1>3, <1>6
  <1> HIDE DEF episode
  <1>8. \A b \in B : episode(b) \subseteq M
    BY <1>2, <1>7
  <1>9. ASSUME NEW ch \in M PROVE \E b \in B : ch \in episode(b)
    <2>1. PICK n \in 1..N : row[n] = ch
      BY <1>2
    <2>2. n \in Nat \ {0} /\ 1 \in B
      BY <1>2, <1>6, <2>1
    <2>3. \E b \in B : b <= n /\ (b + 1)..n \intersect B = {}
      BY <1>6, <2>2, LastBegins
    <2> QED BY <1>7, <2>1, <2>3
  <1>10. ASSUME NEW a \in B, NEW b \in B, NEW ch \in episode(a), ch \in episode(b)
         PROVE  a = b
    <2>1. PICK n \in 1..N : ch = row[n] /\ a <= n /\ (a + 1)..n \intersect B = {}
      BY <1>7
    <2>2. PICK m \in 1..N : ch = row[m] /\ b <= m /\ (b + 1)..m \intersect B = {}
      BY <1>7, <1>10
    <2>3. m = n
      BY <1>4, <2>1, <2>2
    <2>4. N \in Nat
      BY <1>2
    <2>5. n \in Nat
      BY <2>4
    <2> QED BY <1>6, <2>1, <2>2, <2>3, <2>5, LastBeginsOnce
  <1> QED BY <1>5, <1>8, <1>9, <1>10

\* What a remote chain shows at one end by a severe finding.
ShownAt(ch, h) ==
  {f.technique : f \in {g \in ch.findings : Rank(g.severity) >= 3 /\ g.event.host = h}}

\* A finding is severe when its severity is high or critical.
LEMMA SeverityIs ==
  ASSUME NEW severity
  PROVE  Rank(severity) >= 3 <=> severity \in {"high", "critical"}
  <1>1. CASE severity = "low"
    BY <1>1 DEF Rank
  <1>2. CASE severity = "medium"
    BY <1>2 DEF Rank
  <1>3. CASE severity = "high"
    BY <1>3 DEF Rank
  <1>4. CASE severity = "critical"
    BY <1>4 DEF Rank
  <1>5. CASE severity \notin {"low", "medium", "high", "critical"}
    BY <1>5 DEF Rank
  <1> QED BY <1>1, <1>2, <1>3, <1>4, <1>5

\* The techniques a remote chain counts by are those of its method that severe
\* findings about its events show at both ends.
LEMMA SharedIs ==
  ASSUME NEW line, IsTimeline(line), NEW F, IsFiniteSet(F), NEW ch \in RemoteChains(line, F), NEW t
  PROVE  t \in SharedTechniques(ch) <=>
           /\ t \in MethodTechniques[ch.remote.method]
           /\ \A h \in {ch.remote.source, ch.remote.target} :
                \E f \in F : /\ f.severity \in {"high", "critical"} /\ f.technique = t
                             /\ f.event.host = h /\ Key(f.event) \in Keys(line, ch.events)
  <1>1. ch.findings = About(line, F, ch.events)
    <2>1. PICK x \in FirstCalls(line) : ch = RemoteChain(line, F, x)
      BY RemoteChainsAre
    <2> QED BY <2>1, RemoteChainIs
  <1>2. \A f : f \in ch.findings <=> f \in F /\ Key(f.event) \in Keys(line, ch.events)
    BY <1>1 DEF About, Keys
  <1>3. ASSUME NEW h
        PROVE  t \in ShownAt(ch, h) <=>
                 \E f \in F : /\ f.severity \in {"high", "critical"} /\ f.technique = t
                              /\ f.event.host = h /\ Key(f.event) \in Keys(line, ch.events)
    BY <1>2, SeverityIs DEF ShownAt
  <1>4. SharedTechniques(ch) =
          ShownAt(ch, ch.remote.source) \intersect ShownAt(ch, ch.remote.target)
            \intersect MethodTechniques[ch.remote.method]
    BY DEF SharedTechniques, ShownAt
  <1> QED BY <1>3, <1>4

\* Remote chains that count by the same techniques, between the same ends.
CountedOf(C) == {ch \in C : ch.type = "remote" /\ SharedTechniques(ch) # {}}
KindOf(ch) == <<ch.remote.source, ch.remote.target, SharedTechniques(ch)>>
LikeOf(C, ch) == {x \in CountedOf(C) : KindOf(x) = KindOf(ch)}

RemoteScenario(E, ch) ==
  [name |-> "remote", component |-> E, chains |-> E, techniques |-> SharedTechniques(ch)]

\* There is a scenario for each episode of such chains.
LEMMA RemoteScenariosAre ==
  ASSUME NEW line, NEW C, NEW s
  PROVE  s \in RemoteScenarios(line, C) <=>
           \E ch \in CountedOf(C) : \E E \in EpisodesOf(line, LikeOf(C, ch)) : s = RemoteScenario(E, ch)
  <1>1. RemoteScenarios(line, C) =
          UNION {{RemoteScenario(E, ch) : E \in EpisodesOf(line, LikeOf(C, ch))} : ch \in CountedOf(C)}
    BY DEF RemoteScenarios, CountedOf, KindOf, LikeOf, RemoteScenario
  <1> QED BY <1>1

\* The scenarios of remote commands keep to their scope.
LEMMA RemoteScenariosKeep ==
  ASSUME NEW line, IsTimeline(line), NEW F, IsFiniteSet(F), NEW C, C \subseteq AllChains(line, F)
  PROVE  RemoteScenariosStayInScope(line, F, {ch \in C : ch.type = "remote"}, RemoteScenarios(line, C))
  <1> DEFINE S == RemoteScenarios(line, C)
             R == {ch \in C : ch.type = "remote"}
             severe(h, ch, t) ==
               \E f \in F : /\ f.severity \in {"high", "critical"} /\ f.technique = t
                            /\ f.event.host = h /\ Key(f.event) \in Keys(line, ch.events)
             proves(ch, t) == /\ t \in MethodTechniques[ch.remote.method]
                              /\ severe(ch.remote.source, ch, t) /\ severe(ch.remote.target, ch, t)
  <1>1. ASSUME NEW ch \in R, NEW t
        PROVE  t \in SharedTechniques(ch) <=> proves(ch, t)
    <2>1. ch \in RemoteChains(line, F)
      BY KindsAre
    <2> QED BY <2>1, SharedIs
  <1>2. ASSUME NEW ch \in CountedOf(C)
        PROVE  /\ \A E \in EpisodesOf(line, LikeOf(C, ch)) : E \subseteq LikeOf(C, ch)
               /\ \A x \in LikeOf(C, ch) : \E E \in EpisodesOf(line, LikeOf(C, ch)) : x \in E
               /\ \A D, E \in EpisodesOf(line, LikeOf(C, ch)) : \A x \in D : x \in E => D = E
    <2>1. LikeOf(C, ch) \subseteq AllChains(line, F) /\ \A x \in LikeOf(C, ch) : x.type = "remote"
      BY DEF LikeOf, CountedOf
    <2> HIDE DEF LikeOf
    <2> QED BY <2>1, EpisodesPartition
  <1>3. ASSUME NEW a \in CountedOf(C), NEW b \in LikeOf(C, a)
        PROVE  /\ b \in CountedOf(C) /\ b \in R /\ LikeOf(C, b) = LikeOf(C, a)
               /\ SharedTechniques(b) = SharedTechniques(a)
               /\ b.remote.source = a.remote.source /\ b.remote.target = a.remote.target
    <2>1. b \in CountedOf(C) /\ KindOf(b) = KindOf(a)
      BY DEF LikeOf
    <2>2. LikeOf(C, b) = LikeOf(C, a) /\ b \in R
      BY <2>1 DEF LikeOf, CountedOf
    <2>3. KindOf(a)[1] = KindOf(b)[1] /\ KindOf(a)[2] = KindOf(b)[2] /\ KindOf(a)[3] = KindOf(b)[3]
      BY <2>1
    <2>4. /\ KindOf(a)[1] = a.remote.source /\ KindOf(a)[2] = a.remote.target
          /\ KindOf(a)[3] = SharedTechniques(a)
          /\ KindOf(b)[1] = b.remote.source /\ KindOf(b)[2] = b.remote.target
          /\ KindOf(b)[3] = SharedTechniques(b)
      BY DEF KindOf
    <2> QED BY <2>1, <2>2, <2>3, <2>4
  <1>4. ASSUME NEW s \in S
        PROVE  \E a \in CountedOf(C) : \E E \in EpisodesOf(line, LikeOf(C, a)) :
                 /\ s = RemoteScenario(E, a)
                 /\ s.chains = E /\ s.techniques = SharedTechniques(a)
    <2>1. PICK a \in CountedOf(C) : \E E \in EpisodesOf(line, LikeOf(C, a)) : s = RemoteScenario(E, a)
      BY RemoteScenariosAre
    <2>2. PICK E \in EpisodesOf(line, LikeOf(C, a)) : s = RemoteScenario(E, a)
      BY <2>1
    <2>3. s.chains = E /\ s.techniques = SharedTechniques(a)
      BY <2>2 DEF RemoteScenario
    <2> QED BY <2>2, <2>3
  <1>5. ASSUME NEW s \in S
        PROVE  /\ s.chains \subseteq R /\ s.techniques # {}
               /\ \A a, b \in s.chains :
                    /\ \A t \in s.techniques : proves(a, t)
                    /\ a.remote.source = b.remote.source /\ a.remote.target = b.remote.target
    <2>1. PICK c \in CountedOf(C) : \E E \in EpisodesOf(line, LikeOf(C, c)) :
             s.chains = E /\ s.techniques = SharedTechniques(c)
      BY <1>4
    <2>2. s.chains \subseteq LikeOf(C, c) /\ s.techniques = SharedTechniques(c)
      BY <1>2, <2>1
    <2>3. s.chains \subseteq R
      BY <1>3, <2>2
    <2>4. s.techniques # {}
      BY <2>2 DEF CountedOf
    <2>5. ASSUME NEW a \in s.chains, NEW b \in s.chains
          PROVE  /\ \A t \in s.techniques : proves(a, t)
                 /\ a.remote.source = b.remote.source /\ a.remote.target = b.remote.target
      <3>1. a \in LikeOf(C, c) /\ b \in LikeOf(C, c) /\ a \in R
        BY <2>2, <2>3
      <3>2. SharedTechniques(a) = s.techniques
        BY <1>3, <2>2, <3>1
      <3>3. \A t \in s.techniques : proves(a, t)
        BY <1>1, <3>1, <3>2
      <3>4. a.remote.source = b.remote.source /\ a.remote.target = b.remote.target
        BY <1>3, <3>1
      <3> QED BY <3>3, <3>4
    <2> QED BY <2>3, <2>4, <2>5
  <1>6. ASSUME NEW ch \in R, SharedTechniques(ch) # {}
        PROVE  Cardinality({s \in S : ch \in s.chains}) = 1
    <2>1. ch \in CountedOf(C) /\ ch \in LikeOf(C, ch)
      BY <1>6 DEF CountedOf, LikeOf
    <2>2. PICK E \in EpisodesOf(line, LikeOf(C, ch)) : ch \in E
      BY <1>2, <2>1
    <2> DEFINE one == RemoteScenario(E, ch)
    <2>3. one \in S /\ ch \in one.chains
      <3>1. one.chains = E
        BY DEF RemoteScenario
      <3>2. one \in S
        BY <2>1, RemoteScenariosAre
      <3> QED BY <2>2, <3>1, <3>2
    <2>4. ASSUME NEW s \in S, ch \in s.chains PROVE s = one
      <3>1. PICK a \in CountedOf(C) : \E D \in EpisodesOf(line, LikeOf(C, a)) :
               s = RemoteScenario(D, a) /\ s.chains = D /\ s.techniques = SharedTechniques(a)
        BY <1>4
      <3>2. PICK D \in EpisodesOf(line, LikeOf(C, a)) : s = RemoteScenario(D, a) /\ s.chains = D
        BY <3>1
      <3>3. ch \in LikeOf(C, a)
        BY <1>2, <2>4, <3>2
      <3>4. LikeOf(C, ch) = LikeOf(C, a) /\ SharedTechniques(ch) = SharedTechniques(a)
        BY <1>3, <3>3
      <3>5. D = E
        BY <1>2, <2>1, <2>2, <2>4, <3>2, <3>4
      <3> QED BY <3>2, <3>4, <3>5 DEF RemoteScenario
    <2> HIDE DEF one, S
    <2>5. {s \in S : ch \in s.chains} = {one}
      BY <2>3, <2>4
    <2> QED BY <2>5, FS_Singleton
  <1>7. ASSUME NEW ch \in R, SharedTechniques(ch) = {}
        PROVE  Cardinality({s \in S : ch \in s.chains}) = 0
    <2>1. ASSUME NEW s \in S, ch \in s.chains PROVE FALSE
      <3>1. PICK a \in CountedOf(C) : \E D \in EpisodesOf(line, LikeOf(C, a)) : s.chains = D
        BY <1>4
      <3>2. ch \in LikeOf(C, a)
        BY <1>2, <2>1, <3>1
      <3>3. ch \in CountedOf(C)
        BY <1>3, <3>2
      <3> QED BY <1>7, <3>3 DEF CountedOf
    <2>2. {s \in S : ch \in s.chains} = {}
      BY <2>1
    <2> QED BY <2>2, FS_EmptySet
  <1>8. ASSUME NEW ch \in R
        PROVE  Cardinality({s \in S : ch \in s.chains}) =
                 IF \E t \in MethodTechniques[ch.remote.method] : proves(ch, t) THEN 1 ELSE 0
    <2>1. (\E t \in MethodTechniques[ch.remote.method] : proves(ch, t)) <=> SharedTechniques(ch) # {}
      BY <1>1
    <2> HIDE DEF proves
    <2> QED BY <1>6, <1>7, <2>1
  <1> HIDE DEF S, R
  <1> QED BY <1>5, <1>8 DEF RemoteScenariosStayInScope, S, R

-----------------------------------------------------------------------------
(* The report.                                                             *)

\* The report that is about to be written is of finitely many findings, and its
\* chains and scenarios are those of the events read and these findings.
Correlated ==
  /\ DOMAIN report = Requests
  /\ \A r \in Active : stage[r] = "export" =>
       /\ IsFiniteSet(report[r].findings)
       /\ report[r].chains = Chains(read[r], report[r].findings)
       /\ report[r].scenarios = InferScenarios(read[r], report[r].findings, report[r].chains)

\* Only the correlation makes a report.
LEMMA OnlyCorrelates ==
  ASSUME Control, NEW r \in Active, Step(r)
  PROVE  Correlate(r) \/ (report' = report /\ stage'[r] # "export")
  <1> USE Transitions DEF analysisVars
  <1>1. CASE Begin(r) \/ Open(r) \/ Receive(r) \/ Complete(r) \/ Refuse(r) \/ CleanUp(r)
    BY <1>1 DEF Begin, Open, Receive, Complete, Refuse, CleanUp
  <1>2. CASE Start(r) \/ Analyze(r) \/ ChunkFails(r) \/ Correlate(r)
    BY <1>2 DEF Start, Analyze, ChunkFails
  <1>3. CASE \E k \in pending[r] : MergeChunk(r, k)
    BY <1>3 DEF MergeChunk
  <1>4. CASE Export(r) \/ Clean(r) \/ Seal(r) \/ Register(r) \/ SetLineage(r) \/ Undo(r)
    BY <1>4 DEF Export, Clean, Seal, Register, SetLineage, Undo
  <1> QED BY <1>1, <1>2, <1>3, <1>4 DEF Step

\* A correlation makes such a report.
LEMMA CorrelationIs ==
  ASSUME ServiceInv, Correlated, NEW r \in Active, Correlate(r)
  PROVE  /\ DOMAIN report' = Requests /\ read' = read
         /\ \A q : q # r => report'[q] = report[q]
         /\ IsFiniteSet(report'[r].findings)
         /\ report'[r].chains = Chains(read[r], report'[r].findings)
         /\ report'[r].scenarios = InferScenarios(read[r], report'[r].findings, report'[r].chains)
  <1>1. r \in Requests /\ stage[r] = "correlate"
    BY WorkloadIsWell DEF ServiceInv, Control, Correlate
  <1>2. /\ read[r] \in Seq(Record)
        /\ Reports(found[r], WithParents(read[r]), DOMAIN read[r])
    BY <1>1 DEF ServiceInv, Evaluation
  <1>3. IsFiniteSet(DOMAIN read[r])
    <2>1. DOMAIN read[r] = 1..Len(read[r]) /\ 1 \in Int /\ Len(read[r]) \in Int
      BY <1>2
    <2> QED BY <2>1, FS_Interval
  <1> DEFINE shown == Filtered(found[r], work.wanted[r])
             chains == Chains(read[r], shown)
             made == [findings |-> shown, chains |-> chains,
                      scenarios |-> InferScenarios(read[r], shown, chains)]
  <1>4. IsFiniteSet(shown)
    <2>1. IsFiniteSet(found[r])
      BY <1>2, <1>3, ReportsAreFinite
    <2>2. shown \subseteq found[r]
      BY DEF Filtered
    <2> QED BY <2>1, <2>2, FS_Subset
  <1>5. report' = [report EXCEPT ![r] = made] /\ read' = read
    BY DEF Correlate
  <1>6. /\ made.findings = shown /\ made.chains = Chains(read[r], made.findings)
        /\ made.scenarios = InferScenarios(read[r], made.findings, made.chains)
    OBVIOUS
  <1> HIDE DEF made, shown
  <1>7. report'[r] = made /\ DOMAIN report' = Requests /\ \A q : q # r => report'[q] = report[q]
    BY <1>1, <1>5 DEF Correlated
  <1> QED BY <1>4, <1>5, <1>6, <1>7

\* Every step keeps this.
LEMMA CorrelatedKept ==
  ASSUME ServiceInv, Correlated, [Next]_vars
  PROVE  Correlated'
  <1>1. Control
    BY DEF ServiceInv
  <1>2. ASSUME NEW r \in Active, Step(r) PROVE Correlated'
    <2>1. work' = work /\ \A q \in Requests \ {r} : stage'[q] = stage[q] /\ read'[q] = read[q]
      BY <1>1, <1>2, Frame
    <2>2. Active' = Active /\ Active \subseteq Requests
      BY <1>1, <2>1, WorkloadIsWell DEF Active, Control
    <2>3. CASE Correlate(r)
      <3>1. /\ DOMAIN report' = Requests /\ read' = read
            /\ \A q : q # r => report'[q] = report[q]
            /\ IsFiniteSet(report'[r].findings)
            /\ report'[r].chains = Chains(read[r], report'[r].findings)
            /\ report'[r].scenarios = InferScenarios(read[r], report'[r].findings, report'[r].chains)
        BY <2>3, CorrelationIs
      <3> QED BY <2>1, <2>2, <3>1 DEF Correlated
    <2>4. CASE report' = report /\ stage'[r] # "export"
      BY <2>1, <2>2, <2>4 DEF Correlated
    <2> QED BY <1>1, <1>2, <2>3, <2>4, OnlyCorrelates
  <1>3. ASSUME NEW row \in rows, DeleteCase(row) PROVE Correlated'
    BY <1>3 DEF DeleteCase, loopVars, analysisVars, Correlated, Active
  <1>4. ASSUME UNCHANGED vars PROVE Correlated'
    BY <1>4 DEF vars, loopVars, analysisVars, Correlated, Active
  <1> QED BY <1>2, <1>3, <1>4 DEF Next

\* It holds at the start.
LEMMA CorrelatedStarts ==
  ASSUME Init
  PROVE  Correlated
  <1>1. Active \subseteq Requests
    BY WorkloadIsWell DEF Init
  <1>2. \A r \in Active : stage[r] # "export"
    BY <1>1 DEF Init
  <1>3. DOMAIN report = Requests
    BY DEF Init
  <1> QED BY <1>2, <1>3 DEF Correlated

\* The chains of a correlation are complete.
LEMMA ChainsFollow ==
  ASSUME ServiceInv, Correlated
  PROVE  ChainsAreComplete
  <1> SUFFICES ASSUME NEW r \in Active, stage[r] = "export"
               PROVE  LET line == Timeline(read[r])
                          chains == report[r].chains
                      IN  /\ RuleChainsAreComplete(line, chains)
                          /\ SessionChainsAreComplete(line, chains)
                          /\ ActivityChainsAreComplete(line, report[r].findings, chains)
                          /\ RemoteChainsAreComplete(line, chains)
                          /\ \A a, b \in chains : a # b => ~SameChain(line, a, b)
    BY DEF ChainsAreComplete, Reported
  <1> DEFINE line == Timeline(read[r])
             F == report[r].findings
  <1>1. r \in Requests
    BY WorkloadIsWell DEF ServiceInv, Control
  <1>2. IsTimeline(line)
    BY <1>1, TimelineIs DEF ServiceInv, Evaluation
  <1>3. IsFiniteSet(F) /\ report[r].chains = KeptChains(line, F)
    BY DEF Correlated, Chains, KeptChains, AllChains
  <1> HIDE DEF line, F
  <1>4. /\ RuleChainsAreComplete(line, KeptChains(line, F))
        /\ SessionChainsAreComplete(line, KeptChains(line, F))
        /\ ActivityChainsAreComplete(line, F, KeptChains(line, F))
        /\ RemoteChainsAreComplete(line, KeptChains(line, F))
        /\ \A a, b \in KeptChains(line, F) : a # b => ~SameChain(line, a, b)
    BY <1>2, <1>3, RuleChainsComplete, SessionChainsComplete, ActivityChainsComplete,
       RemoteChainsComplete, KeptAre
  <1> QED BY <1>3, <1>4 DEF line, F

\* The chains of a report are all those, and only those, that its timeline holds,
\* each once, for any rules, windows and numbers of events (correlator.correlate_events).
THEOREM ChainsInvariant == Spec => []ChainsAreComplete
  <1>1. Spec => []Correlated
    BY ServiceInvariant, CorrelatedStarts, CorrelatedKept, PTL DEF Spec
  <1> QED BY <1>1, ServiceInvariant, ChainsFollow, PTL

\* The scenarios of a correlation are those of remote commands, which alone are
\* named so, and those told from the chains of one host.
LEMMA InferredAre ==
  ASSUME NEW line, NEW F, NEW C, NEW D, NEW S,
         S = RemoteScenarios(line, C) \union ToldFrom(line, F, D)
  PROVE  /\ {s \in S : s.name = "remote"} = RemoteScenarios(line, C)
         /\ S \ {s \in S : s.name = "remote"} = ToldFrom(line, F, D)
  <1>1. \A s \in ToldFrom(line, F, D) : s.name # "remote"
    BY ToldIs
  <1>2. ASSUME NEW s \in RemoteScenarios(line, C) PROVE s.name = "remote"
    <2>1. PICK ch \in CountedOf(C) : \E E \in EpisodesOf(line, LikeOf(C, ch)) : s = RemoteScenario(E, ch)
      BY RemoteScenariosAre
    <2> QED BY <2>1 DEF RemoteScenario
  <1> QED BY <1>1, <1>2

\* The scenarios of a correlation keep to their scope.
LEMMA ScenariosFollow ==
  ASSUME ServiceInv, Correlated
  PROVE  ScenariosStayInScope
  <1> SUFFICES ASSUME NEW r \in Active, stage[r] = "export"
               PROVE  LET line == Timeline(read[r])
                          remote(S) == {ch \in S : ch.type = "remote"}
                          across == {s \in report[r].scenarios : s.name = "remote"}
                      IN  /\ LocalScenariosStayInScope(line, report[r].findings,
                               report[r].chains \ remote(report[r].chains), report[r].scenarios \ across)
                          /\ RemoteScenariosStayInScope(line, report[r].findings,
                               remote(report[r].chains), across)
    BY DEF ScenariosStayInScope, Reported
  <1> DEFINE line == Timeline(read[r])
             F == report[r].findings
             C == report[r].chains
             S == report[r].scenarios
  <1>1. r \in Requests
    BY WorkloadIsWell DEF ServiceInv, Control
  <1>2. IsTimeline(line)
    BY <1>1, TimelineIs DEF ServiceInv, Evaluation
  <1>3. IsFiniteSet(F) /\ C = KeptChains(line, F)
    BY DEF Correlated, Chains, KeptChains, AllChains
  <1>4. S = RemoteScenarios(line, C) \union ToldFrom(line, F, {ch \in C : ch.type # "remote"})
    BY DEF Correlated, InferScenarios, ToldFrom
  <1> HIDE DEF line, F, C, S
  <1>5. C \ {ch \in C : ch.type = "remote"} = LocalChains(line, F)
    BY <1>3 DEF LocalChains
  <1>6. {ch \in C : ch.type # "remote"} = LocalChains(line, F)
    BY <1>3 DEF LocalChains
  <1>7. /\ {s \in S : s.name = "remote"} = RemoteScenarios(line, C)
        /\ S \ {s \in S : s.name = "remote"} = ToldFrom(line, F, LocalChains(line, F))
    <2>1. S = RemoteScenarios(line, C) \union ToldFrom(line, F, LocalChains(line, F))
      BY <1>4, <1>6
    <2> QED BY <2>1, InferredAre
  <1>8. LocalScenariosStayInScope(line, F, LocalChains(line, F), S \ {s \in S : s.name = "remote"})
    BY <1>2, <1>3, <1>7, LocalScenariosKeep
  <1>9. C \subseteq AllChains(line, F)
    BY <1>2, <1>3, KeptAre
  <1>10. RemoteScenariosStayInScope(line, F, {ch \in C : ch.type = "remote"}, RemoteScenarios(line, C))
    BY <1>2, <1>3, <1>9, RemoteScenariosKeep
  <1> QED BY <1>5, <1>7, <1>8, <1>10 DEF line, F, C, S

\* No scenario mixes evidence of unrelated hosts, accounts or sessions, and none is
\* told without what its template requires, nor left out where that is shown, whatever
\* the templates, the relations of techniques and the pause between episodes
\* (scenario_user_scope, scenario.infer_scenarios).
THEOREM ScenariosInvariant == Spec => []ScenariosStayInScope
  <1>1. Spec => []Correlated
    BY ServiceInvariant, CorrelatedStarts, CorrelatedKept, PTL DEF Spec
  <1> QED BY <1>1, ServiceInvariant, ScenariosFollow, PTL
=============================================================================
