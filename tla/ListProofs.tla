----------------------------- MODULE ListProofs -----------------------------
(***************************************************************************)
(* A sorted list has every member of its set once, in order; lists of      *)
(* distinct members are joined and lose one; and a recursion over the      *)
(* places of a list has a value, which is what the proofs about recursive  *)
(* functions start from.                                                   *)
(***************************************************************************)
EXTENDS Lists, Integers, SequencesExt, FiniteSetTheorems, FunctionTheorems,
        SequenceTheorems, WellFoundedInduction, TLAPS

\* A set of naturals has a least one: induction, as the provers take it.
LEMMA LeastOf ==
  ASSUME NEW T \in SUBSET Nat, T # {}
  PROVE  \E m \in T : \A k \in T : m <= k
<1>1. PICK m \in T : \A k \in T : ~ (<<k, m>> \in OpToRel(<, Nat))
  BY NatLessThanWellFounded, WFMin
<1>2. \A k \in T : (k < m) => <<k, m>> \in OpToRel(<, Nat)
  BY DEF OpToRel
<1>3. \A k \in T : m <= k
  <2> SUFFICES ASSUME NEW k \in T
               PROVE  m <= k
    OBVIOUS
  <2>1. ~ (k < m)
    BY <1>1, <1>2
  <2>2. k \in Nat /\ m \in Nat
    OBVIOUS
  <2>3. QED
    BY <2>1, <2>2
<1>4. QED
  BY <1>3

\* What holds of the first place and is handed on holds of every place: the places
\* of which it holds are a set, so that the provers can be asked.
LEMMA Places ==
  ASSUME NEW n \in Nat, NEW T, 0 \in T, \A i \in 1 .. n : i - 1 \in T => i \in T
  PROVE  \A i \in 0 .. n : i \in T
<1> DEFINE U == {i \in 0 .. n : i \notin T}
<1> SUFFICES ASSUME U # {}
             PROVE  FALSE
  OBVIOUS
<1>1. PICK m \in U : \A k \in U : m <= k
  <2>1. U \in SUBSET Nat
    OBVIOUS
  <2> HIDE DEF U
  <2>2. QED
    BY <2>1, LeastOf
<1>2. m \in 1 .. n /\ m \notin T /\ ~ (m <= m - 1) /\ m - 1 \in 0 .. n
  OBVIOUS
<1>3. m - 1 \notin U
  <2> HIDE DEF U
  <2>1. QED
    BY <1>1, <1>2
<1>4. QED
  BY <1>2, <1>3

\* f unrolls a recursion over 1 .. n: step makes each value from the one before.
Unrolls(f, n, S, b, step) ==
  f \in [0 .. n -> S] /\ f[0] = b /\ \A i \in 1 .. n : f[i] = step[<<f[i - 1], i>>]

\* A recursion over 1 .. n has a value in every place.
THEOREM Recursion ==
  ASSUME NEW n \in Nat, NEW S, NEW b \in S, NEW step \in [S \X (1 .. n) -> S]
  PROVE  \E f : Unrolls(f, n, S, b, step)
<1> USE DEF Unrolls
<1> DEFINE Solves(f, m) == Unrolls(f, m, S, b, step)
           T == {m \in 0 .. n : ~ \E f : Solves(f, m)}
<1>1. SUFFICES ASSUME T # {}
               PROVE  FALSE
  <2>1. n \notin T => \E f : Solves(f, n)
    OBVIOUS
  <2>2. QED
    BY <1>1, <2>1
<1>2. PICK m \in T : \A k \in T : m <= k
  <2>1. T \in SUBSET Nat
    OBVIOUS
  <2> HIDE DEF T
  <2>2. QED
    BY <1>1, <2>1, LeastOf
<1>3. m # 0
  <2>1. Solves([i \in 0 .. 0 |-> b], 0)
    OBVIOUS
  <2>2. 0 \notin T
    BY <2>1
  <2>3. QED
    BY <2>2
<1>4. m - 1 \in 0 .. n /\ m \in 1 .. n
  BY <1>3
<1>5. m - 1 \notin T
  <2> HIDE DEF T
  <2>1. m \in Nat /\ ~ (m <= m - 1)
    BY <1>4
  <2>2. QED
    BY <1>2, <2>1
<1>6. PICK f : Solves(f, m - 1)
  BY <1>4, <1>5
<1> DEFINE g == [i \in 0 .. m |-> IF i = m THEN step[<<f[m - 1], m>>] ELSE f[i]]
<1>7. step[<<f[m - 1], m>>] \in S
  BY <1>4, <1>6
<1>8. g \in [0 .. m -> S] /\ g[0] = b
  BY <1>3, <1>4, <1>6, <1>7
<1>9. \A i \in 1 .. m : g[i] = step[<<g[i - 1], i>>]
  <2> SUFFICES ASSUME NEW i \in 1 .. m
               PROVE  g[i] = step[<<g[i - 1], i>>]
    OBVIOUS
  <2>1. CASE i = m
    <3>1. g[m] = step[<<f[m - 1], m>>] /\ g[m - 1] = f[m - 1]
      BY <1>4
    <3>2. QED
      BY <2>1, <3>1
  <2>2. CASE i # m
    <3>1. i \in 1 .. m - 1 /\ i - 1 \in 0 .. m /\ i - 1 # m /\ i \in 0 .. m
      BY <1>4, <2>2
    <3>2. g[i] = f[i] /\ g[i - 1] = f[i - 1]
      BY <2>2, <3>1
    <3>3. f[i] = step[<<f[i - 1], i>>]
      BY <1>6, <3>1
    <3>4. QED
      BY <3>2, <3>3
  <2>3. QED
    BY <2>1, <2>2
<1>10. Solves(g, m)
  BY <1>8, <1>9
<1>11. m \notin T
  BY <1>10
<1>12. QED
  BY <1>11

\* A strict total order of the members of S, as a set of pairs.
Orders(before, S) ==
  /\ \A x \in S : <<x, x>> \notin before
  /\ \A x, y, z \in S : <<x, y>> \in before /\ <<y, z>> \in before => <<x, z>> \in before
  /\ \A x, y \in S : x = y \/ <<x, y>> \in before \/ <<y, x>> \in before

\* InOrder lists every member of a finite set once, each before those that follow.
THEOREM InOrderLists ==
  ASSUME NEW S, IsFiniteSet(S), NEW before, Orders(before, S)
  PROVE  LET list == InOrder(S, before) IN
         /\ list \in Seq(S) /\ Len(list) = Cardinality(S) /\ Cardinality(S) \in Nat
         /\ DOMAIN list = 1 .. Cardinality(S)
         /\ \A x \in S : \E i \in DOMAIN list : list[i] = x
         /\ \A i, j \in DOMAIN list : list[i] = list[j] => i = j
         /\ \A i, j \in DOMAIN list : i < j => <<list[i], list[j]>> \in before
<1> DEFINE n == Cardinality(S)
           Below(x) == {y \in S : <<y, x>> \in before}
           rank == [x \in S |-> Cardinality(Below(x))]
           list == InOrder(S, before)
<1>1. n \in Nat
  BY FS_CardinalityType
<1>2. \A x \in S : /\ IsFiniteSet(Below(x)) /\ Cardinality(Below(x)) \in Nat
                   /\ Cardinality(Below(x)) < n
  <2> SUFFICES ASSUME NEW x \in S
               PROVE  /\ IsFiniteSet(Below(x)) /\ Cardinality(Below(x)) \in Nat
                      /\ Cardinality(Below(x)) < n
    OBVIOUS
  <2>1. Below(x) \in SUBSET S /\ Below(x) # S
    BY DEF Orders
  <2>2. /\ IsFiniteSet(Below(x)) /\ Cardinality(Below(x)) <= n
        /\ Cardinality(Below(x)) # n
    BY <2>1, FS_Subset
  <2>3. Cardinality(Below(x)) \in Nat
    BY <2>2, FS_CardinalityType
  <2>4. QED
    BY <1>1, <2>2, <2>3
<1>3. \A x, y \in S : <<x, y>> \in before => Cardinality(Below(x)) < Cardinality(Below(y))
  <2> SUFFICES ASSUME NEW x \in S, NEW y \in S, <<x, y>> \in before
               PROVE  Cardinality(Below(x)) < Cardinality(Below(y))
    OBVIOUS
  <2>1. Below(x) \in SUBSET Below(y) /\ Below(x) # Below(y)
    BY DEF Orders
  <2>2. Cardinality(Below(x)) <= Cardinality(Below(y)) /\ Cardinality(Below(x)) # Cardinality(Below(y))
    BY <1>2, <2>1, FS_Subset
  <2>3. Cardinality(Below(x)) \in Nat /\ Cardinality(Below(y)) \in Nat
    BY <1>2
  <2> HIDE DEF Below
  <2>4. QED
    BY <2>2, <2>3
<1>4. rank \in [S -> 0 .. n - 1]
  <2>1. \A x \in S : Cardinality(Below(x)) \in 0 .. n - 1
    <3> HIDE DEF Below, n
    <3>1. QED
      BY <1>1, <1>2
  <2> HIDE DEF Below
  <2>2. QED
    BY <2>1
<1>5. \A x, y \in S : rank[x] = rank[y] => x = y
  <2> SUFFICES ASSUME NEW x \in S, NEW y \in S, rank[x] = rank[y]
               PROVE  x = y
    OBVIOUS
  <2>1. ~ (Cardinality(Below(x)) < Cardinality(Below(y))) /\ ~ (Cardinality(Below(y)) < Cardinality(Below(x)))
    BY <1>2
  <2>2. <<x, y>> \notin before /\ <<y, x>> \notin before
    BY <1>3, <2>1
  <2>3. QED
    BY <2>2 DEF Orders
<1>6. \A k \in 0 .. n - 1 : \E x \in S : rank[x] = k
  <2>1. rank \in Injection(S, 0 .. n - 1)
    BY <1>4, <1>5, Fun_IsInj
  <2>2. IsFiniteSet(0 .. n - 1) /\ Cardinality(0 .. n - 1) = n
    BY <1>1, FS_Interval
  <2>3. rank \in Surjection(S, 0 .. n - 1)
    BY <2>1, <2>2, FS_Injection
  <2> HIDE DEF rank
  <2>4. \A k \in 0 .. n - 1 : \E x \in S : rank[x] = k
    <3> HIDE DEF n
    <3>1. QED
      BY <2>3, Fun_SurjectionProperties, Zenon
  <2>5. QED
    BY <2>4
<1>7. list = [k \in 1 .. n |-> CHOOSE x \in S : rank[x] = k - 1]
  BY DEF InOrder
<1>8. \A k \in 1 .. n : list[k] \in S /\ rank[list[k]] = k - 1
  <2> SUFFICES ASSUME NEW k \in 1 .. n
               PROVE  list[k] \in S /\ rank[list[k]] = k - 1
    OBVIOUS
  <2>1. k - 1 \in 0 .. n - 1
    BY <1>1
  <2>2. \E x \in S : rank[x] = k - 1
    BY <1>6, <2>1
  <2>3. list[k] = CHOOSE x \in S : rank[x] = k - 1
    BY <1>7
  <2> HIDE DEF rank, list
  <2>4. QED
    BY <2>2, <2>3
<1>9. /\ list \in Seq(S) /\ Len(list) = n /\ DOMAIN list = 1 .. n
  <2>1. list \in [1 .. n -> S]
    BY <1>7, <1>8
  <2>2. QED
    BY <1>1, <2>1, SeqDef, LenProperties
<1>10. \A x \in S : \E i \in 1 .. n : list[i] = x
  <2> SUFFICES ASSUME NEW x \in S
               PROVE  \E i \in 1 .. n : list[i] = x
    OBVIOUS
  <2>1. rank[x] \in 0 .. n - 1
    BY <1>4
  <2> HIDE DEF rank, list
  <2>2. rank[x] + 1 \in 1 .. n
    BY <1>1, <2>1
  <2>3. rank[list[rank[x] + 1]] = rank[x] /\ list[rank[x] + 1] \in S
    BY <1>8, <2>1, <2>2
  <2>4. QED
    BY <1>5, <2>2, <2>3
<1>11. \A i, j \in 1 .. n : list[i] = list[j] => i = j
  <2> SUFFICES ASSUME NEW i \in 1 .. n, NEW j \in 1 .. n, list[i] = list[j]
               PROVE  i = j
    OBVIOUS
  <2> HIDE DEF rank, list
  <2>1. i - 1 = j - 1
    BY <1>8
  <2>2. QED
    BY <1>1, <2>1
<1>12. \A i, j \in 1 .. n : i < j => <<list[i], list[j]>> \in before
  <2> SUFFICES ASSUME NEW i \in 1 .. n, NEW j \in 1 .. n, i < j
               PROVE  <<list[i], list[j]>> \in before
    OBVIOUS
  <2>1. list[i] \in S /\ list[j] \in S /\ list[i] # list[j]
    <3> HIDE DEF list, rank, n
    <3>1. QED
      BY <1>1, <1>8, <1>11
  <2>2. rank[list[i]] < rank[list[j]]
    BY <1>1, <1>8
  <2>3. ~ (rank[list[j]] < rank[list[i]])
    BY <1>4, <2>1, <2>2
  <2>4. <<list[j], list[i]>> \notin before
    BY <1>3, <2>1, <2>3
  <2>5. QED
    BY <2>1, <2>4 DEF Orders
<1> HIDE DEF rank, list, n
<1>13. QED
  BY <1>1, <1>9, <1>10, <1>11, <1>12 DEF list, n

\* No two places of s hold the same.
Distinct(s) == \A i, j \in DOMAIN s : s[i] = s[j] => i = j

\* Two lists of distinct members that share none make one.
LEMMA Joined ==
  ASSUME NEW S, NEW s \in Seq(S), NEW t \in Seq(S)
  PROVE  /\ s \o t \in Seq(S)
         /\ Range(s \o t) = Range(s) \cup Range(t)
         /\ Distinct(s) /\ Distinct(t) /\ Range(s) \cap Range(t) = {} => Distinct(s \o t)
<1> DEFINE m == Len(s)
           n == Len(t)
           u == s \o t
<1>1. /\ m \in Nat /\ n \in Nat /\ u \in Seq(S) /\ Len(u) = m + n
      /\ \A i \in 1 .. m + n : u[i] = IF i <= m THEN s[i] ELSE t[i - m]
  BY ConcatProperties, LenProperties
<1>2. DOMAIN s = 1 .. m /\ DOMAIN t = 1 .. n /\ DOMAIN u = 1 .. m + n
  BY <1>1, LenProperties
<1> HIDE DEF m, n, u
<1>3. \A i \in 1 .. m : i \in 1 .. m + n /\ u[i] = s[i]
  BY <1>1
<1>4. \A i \in 1 .. n : m + i \in 1 .. m + n /\ u[m + i] = t[i]
  <2> SUFFICES ASSUME NEW i \in 1 .. n
               PROVE  m + i \in 1 .. m + n /\ u[m + i] = t[i]
    OBVIOUS
  <2>1. m + i \in 1 .. m + n /\ ~ (m + i <= m) /\ m + i - m = i
    BY <1>1
  <2>2. QED
    BY <1>1, <2>1
<1>5. \A i \in 1 .. m + n : i \in 1 .. m \/ (i - m \in 1 .. n /\ i = m + (i - m))
  BY <1>1
<1>6. Range(u) = Range(s) \cup Range(t)
  <2>1. ASSUME NEW x \in Range(u)
        PROVE  x \in Range(s) \cup Range(t)
    <3>1. PICK i \in 1 .. m + n : x = u[i]
      BY <1>2 DEF Range
    <3>2. CASE i \in 1 .. m
      BY <1>2, <1>3, <3>1, <3>2 DEF Range
    <3>3. CASE i - m \in 1 .. n /\ i = m + (i - m)
      <4>1. x = t[i - m]
        BY <1>4, <3>1, <3>3
      <4>2. QED
        BY <1>2, <3>3, <4>1 DEF Range
    <3>4. QED
      BY <1>5, <3>2, <3>3
  <2>2. ASSUME NEW x \in Range(s)
        PROVE  x \in Range(u)
    BY <1>2, <1>3 DEF Range
  <2>3. ASSUME NEW x \in Range(t)
        PROVE  x \in Range(u)
    BY <1>2, <1>4 DEF Range
  <2>4. QED
    BY <2>1, <2>2, <2>3
<1>7. ASSUME Distinct(s), Distinct(t), Range(s) \cap Range(t) = {}
      PROVE  Distinct(u)
  <2> SUFFICES ASSUME NEW i \in 1 .. m + n, NEW j \in 1 .. m + n, u[i] = u[j]
               PROVE  i = j
    BY <1>2 DEF Distinct
  <2>1. CASE i \in 1 .. m /\ j \in 1 .. m
    BY <1>2, <1>3, <1>7, <2>1 DEF Distinct
  <2>2. CASE i - m \in 1 .. n /\ j - m \in 1 .. n /\ i = m + (i - m) /\ j = m + (j - m)
    <3>1. t[i - m] = t[j - m]
      BY <1>4, <2>2
    <3>2. i - m = j - m
      BY <1>2, <1>7, <2>2, <3>1 DEF Distinct
    <3>3. QED
      BY <2>2, <3>2
  <2>3. CASE i \in 1 .. m /\ j - m \in 1 .. n /\ j = m + (j - m)
    <3>1. s[i] = t[j - m]
      BY <1>3, <1>4, <2>3
    <3>2. QED
      BY <1>2, <1>7, <2>3, <3>1 DEF Range
  <2>4. CASE j \in 1 .. m /\ i - m \in 1 .. n /\ i = m + (i - m)
    <3>1. s[j] = t[i - m]
      BY <1>3, <1>4, <2>4
    <3>2. QED
      BY <1>2, <1>7, <2>4, <3>1 DEF Range
  <2>5. QED
    BY <1>5, <2>1, <2>2, <2>3, <2>4
<1>8. QED
  BY <1>1, <1>6, <1>7 DEF u

\* A list of distinct members without the one in place n.
LEMMA Removed ==
  ASSUME NEW S, NEW s \in Seq(S), NEW n \in DOMAIN s, Distinct(s)
  PROVE  LET r == RemoveAt(s, n) IN
         r \in Seq(S) /\ Distinct(r) /\ Range(r) = Range(s) \ {s[n]}
<1> DEFINE m == Len(s)
           a == SubSeq(s, 1, n - 1)
           b == SubSeq(s, n + 1, m)
<1>1. m \in Nat /\ DOMAIN s = 1 .. m /\ n \in 1 .. m /\ \A i \in 1 .. m : s[i] \in S
  BY LenProperties, ElementOfSeq
<1>2. RemoveAt(s, n) = a \o b
  BY DEF RemoveAt
<1>3. a \in Seq(S) /\ Len(a) = n - 1 /\ \A i \in 1 .. n - 1 : a[i] = s[i]
  <2> HIDE DEF m
  <2>1. 1 \in Int /\ n - 1 \in Int /\ \A i \in 1 .. n - 1 : s[i] \in S
    BY <1>1
  <2>2. /\ a \in Seq(S) /\ Len(a) = IF 1 <= n - 1 THEN n - 1 - 1 + 1 ELSE 0
        /\ \A i \in 1 .. n - 1 - 1 + 1 : a[i] = s[1 + i - 1]
    BY <2>1, SubSeqProperties
  <2> HIDE DEF a
  <2>3. Len(a) = n - 1
    BY <1>1, <2>2
  <2>4. ASSUME NEW i \in 1 .. n - 1
        PROVE  a[i] = s[i]
    <3>1. i \in 1 .. n - 1 - 1 + 1 /\ 1 + i - 1 = i
      BY <1>1
    <3>2. QED
      BY <2>2, <3>1
  <2>5. QED
    BY <2>2, <2>3, <2>4
<1>4. b \in Seq(S) /\ Len(b) = m - n /\ \A i \in 1 .. m - n : b[i] = s[n + i]
  <2> HIDE DEF m
  <2>1. n + 1 \in Int /\ m \in Int /\ \A i \in n + 1 .. m : s[i] \in S
    BY <1>1
  <2>2. /\ b \in Seq(S) /\ Len(b) = IF n + 1 <= m THEN m - (n + 1) + 1 ELSE 0
        /\ \A i \in 1 .. m - (n + 1) + 1 : b[i] = s[n + 1 + i - 1]
    BY <2>1, SubSeqProperties
  <2> HIDE DEF b
  <2>3. Len(b) = m - n
    BY <1>1, <2>2
  <2>4. ASSUME NEW i \in 1 .. m - n
        PROVE  b[i] = s[n + i]
    <3>1. i \in 1 .. m - (n + 1) + 1 /\ n + 1 + i - 1 = n + i
      BY <1>1
    <3>2. QED
      BY <2>2, <3>1
  <2>5. QED
    BY <2>2, <2>3, <2>4
<1> HIDE DEF a, b, m
<1>5. DOMAIN a = 1 .. n - 1 /\ DOMAIN b = 1 .. m - n
  BY <1>3, <1>4, LenProperties
<1>6. \A i \in 1 .. n - 1 : i \in 1 .. m /\ i # n
  BY <1>1
<1>7. \A i \in 1 .. m - n : n + i \in 1 .. m /\ n + i # n
  BY <1>1
<1>8. Distinct(a) /\ Distinct(b) /\ Range(a) \cap Range(b) = {}
  <2>1. Distinct(a)
    BY <1>1, <1>3, <1>5, <1>6 DEF Distinct
  <2>2. ASSUME NEW i \in 1 .. m - n, NEW j \in 1 .. m - n, b[i] = b[j]
        PROVE  i = j
    <3>1. n + i = n + j
      BY <1>1, <1>4, <1>7, <2>2 DEF Distinct
    <3>2. QED
      BY <1>1, <3>1
  <2>3. ASSUME NEW i \in 1 .. n - 1, NEW j \in 1 .. m - n, a[i] = b[j]
        PROVE  FALSE
    <3>1. i = n + j
      BY <1>1, <1>3, <1>4, <1>6, <1>7, <2>3 DEF Distinct
    <3>2. QED
      BY <1>1, <3>1
  <2>4. QED
    BY <1>5, <2>1, <2>2, <2>3 DEF Distinct, Range
<1>9. Range(a) \cup Range(b) = Range(s) \ {s[n]}
  <2>1. ASSUME NEW x \in Range(a) \cup Range(b)
        PROVE  x \in Range(s) \ {s[n]}
    <3>1. CASE x \in Range(a)
      <4>1. PICK i \in 1 .. n - 1 : x = a[i]
        BY <1>5, <3>1 DEF Range
      <4>2. QED
        BY <1>1, <1>3, <1>6, <4>1 DEF Range, Distinct
    <3>2. CASE x \in Range(b)
      <4>1. PICK i \in 1 .. m - n : x = b[i]
        BY <1>5, <3>2 DEF Range
      <4>2. QED
        BY <1>1, <1>4, <1>7, <4>1 DEF Range, Distinct
    <3>3. QED
      BY <2>1, <3>1, <3>2
  <2>2. ASSUME NEW x \in Range(s) \ {s[n]}
        PROVE  x \in Range(a) \cup Range(b)
    <3>1. PICK i \in 1 .. m : x = s[i] /\ i # n
      BY <1>1 DEF Range
    <3>2. CASE i < n
      <4>1. i \in 1 .. n - 1
        BY <1>1, <3>2
      <4>2. QED
        BY <1>3, <1>5, <3>1, <4>1 DEF Range
    <3>3. CASE i > n
      <4>1. i - n \in 1 .. m - n /\ n + (i - n) = i
        BY <1>1, <3>3
      <4>2. b[i - n] = x
        BY <1>4, <3>1, <4>1
      <4>3. QED
        BY <1>5, <4>1, <4>2 DEF Range
    <3>4. QED
      BY <1>1, <3>1, <3>2, <3>3
  <2>3. QED
    BY <2>1, <2>2
<1>10. a \o b \in Seq(S) /\ Distinct(a \o b) /\ Range(a \o b) = Range(s) \ {s[n]}
  BY <1>3, <1>4, <1>8, <1>9, Joined
<1>11. QED
  BY <1>2, <1>10

-----------------------------------------------------------------------------
(* Filtering, taking off the head, and sorting by insertion. *)

\* Among keeps the members of S, each as often as list has it.
LEMMA AmongLists ==
  ASSUME NEW T, NEW list \in Seq(T), NEW S
  PROVE  LET a == Among(list, S) IN
         /\ a \in Seq(T)
         /\ Range(a) = Range(list) \cap S
         /\ Distinct(list) => Distinct(a)
<1> DEFINE places == {i \in DOMAIN list : list[i] \in S}
           before == {p \in places \X places : p[1] < p[2]}
           order == InOrder(places, before)
           n == Cardinality(places)
           a == Among(list, S)
<1>1. IsFiniteSet(places) /\ places \subseteq Nat
  <2>1. DOMAIN list = 1 .. Len(list) /\ Len(list) \in Nat
    BY LenProperties
  <2>2. IsFiniteSet(1 .. Len(list))
    BY <2>1, FS_Interval
  <2>3. places \subseteq 1 .. Len(list)
    BY <2>1
  <2>4. QED
    BY <2>1, <2>2, <2>3, FS_Subset
<1>2. Orders(before, places)
  <2>1. \A i, j \in places : <<i, j>> \in before <=> i < j
    OBVIOUS
  <2> HIDE DEF before
  <2>2. QED
    BY <1>1, <2>1 DEF Orders
<1>3. /\ n \in Nat /\ order \in Seq(places) /\ DOMAIN order = 1 .. n
      /\ \A i \in places : \E k \in DOMAIN order : order[k] = i
      /\ \A j, k \in DOMAIN order : order[j] = order[k] => j = k
  <2> HIDE DEF before, places
  <2>1. QED
    BY <1>1, <1>2, InOrderLists
<1>4. \A k \in 1 .. n : order[k] \in places
  <2> HIDE DEF order, n, places
  <2>1. QED
    BY <1>3, ElementOfSeq, LenProperties
<1>5. a = [k \in 1 .. n |-> list[order[k]]]
  BY <1>3 DEF Among
<1> HIDE DEF order, n, before, a
<1>6. \A i \in DOMAIN list : list[i] \in T
  BY LenProperties, ElementOfSeq
<1>7. a \in Seq(T)
  <2>1. \A k \in 1 .. n : list[order[k]] \in T
    BY <1>4, <1>6
  <2>2. a \in [1 .. n -> T]
    BY <1>5, <2>1
  <2>3. QED
    BY <1>3, <2>2
<1>8. Range(a) = Range(list) \cap S
  <2>1. ASSUME NEW x \in Range(a)
        PROVE  x \in Range(list) \cap S
    BY <1>4, <1>5 DEF Range
  <2>2. ASSUME NEW x \in Range(list) \cap S
        PROVE  x \in Range(a)
    <3>1. PICK i \in DOMAIN list : list[i] = x
      BY DEF Range
    <3>2. i \in places
      BY <3>1
    <3>3. PICK k \in 1 .. n : order[k] = i
      BY <1>3, <3>2
    <3>4. QED
      BY <1>5, <3>1, <3>3 DEF Range
  <2>3. QED
    BY <2>1, <2>2
<1>9. ASSUME Distinct(list)
      PROVE  Distinct(a)
  <2> SUFFICES ASSUME NEW j \in 1 .. n, NEW k \in 1 .. n, a[j] = a[k]
               PROVE  j = k
    BY <1>5 DEF Distinct
  <2>1. list[order[j]] = list[order[k]] /\ order[j] \in DOMAIN list /\ order[k] \in DOMAIN list
    BY <1>4, <1>5
  <2>2. order[j] = order[k]
    BY <1>9, <2>1 DEF Distinct
  <2>3. QED
    BY <1>3, <2>2
<1>10. QED
  BY <1>7, <1>8, <1>9 DEF a

\* The head of a list of distinct members is not in its tail.
LEMMA TailLists ==
  ASSUME NEW T, NEW list \in Seq(T), list # <<>>
  PROVE  /\ Head(list) \in T /\ Head(list) \in Range(list)
         /\ Tail(list) \in Seq(T)
         /\ Range(Tail(list)) \subseteq Range(list)
         /\ Distinct(list) => Distinct(Tail(list)) /\ Head(list) \notin Range(Tail(list))
<1> DEFINE n == Len(list)
           t == Tail(list)
<1>1. n \in Nat \ {0} /\ DOMAIN list = 1 .. n /\ Head(list) = list[1]
  BY LenProperties, EmptySeq
<1>2. t \in Seq(T) /\ Len(t) = n - 1 /\ \A i \in 1 .. n - 1 : t[i] = list[i + 1]
  BY HeadTailProperties
<1>3. DOMAIN t = 1 .. n - 1
  BY <1>2, LenProperties
<1> HIDE DEF t, n
<1>4. \A i \in 1 .. n - 1 : i + 1 \in 1 .. n /\ i + 1 # 1
  BY <1>1
<1>5. 1 \in 1 .. n
  BY <1>1
<1>6. list[1] \in T /\ list[1] \in Range(list)
  BY <1>1, <1>5, ElementOfSeq DEF Range, n
<1>7. Range(t) \subseteq Range(list)
  BY <1>1, <1>2, <1>3, <1>4 DEF Range
<1>8. ASSUME Distinct(list)
      PROVE  Distinct(t) /\ list[1] \notin Range(t)
  <2>1. Distinct(t)
    <3> SUFFICES ASSUME NEW i \in 1 .. n - 1, NEW j \in 1 .. n - 1, t[i] = t[j]
                 PROVE  i = j
      BY <1>3 DEF Distinct
    <3>1. list[i + 1] = list[j + 1]
      BY <1>2
    <3>2. i + 1 = j + 1
      BY <1>1, <1>4, <1>8, <3>1 DEF Distinct
    <3>3. QED
      BY <3>2
  <2>2. ASSUME NEW i \in 1 .. n - 1, t[i] = list[1]
        PROVE  FALSE
    <3>1. list[i + 1] = list[1]
      BY <1>2, <2>2
    <3>2. i + 1 = 1
      BY <1>1, <1>4, <1>5, <1>8, <3>1 DEF Distinct
    <3>3. QED
      BY <1>4, <3>2
  <2>3. QED
    BY <1>3, <2>1, <2>2 DEF Range
<1>9. QED
  BY <1>1, <1>2, <1>6, <1>7, <1>8 DEF t

\* One more member, wherever before puts it.
LEMMA InsertedLists ==
  ASSUME NEW S, NEW list \in Seq(S), NEW x \in S, NEW before
  PROVE  LET new == Inserted(list, x, before) IN
         /\ new \in Seq(S) /\ Range(new) = Range(list) \cup {x}
         /\ Distinct(list) /\ x \notin Range(list) => Distinct(new)
<1> DEFINE ahead == {y \in Range(list) : <<y, x>> \in before}
           a == Among(list, ahead)
           b == Among(list, Range(list) \ ahead)
           one == <<x>>
           c == a \o one
<1>1. a \in Seq(S) /\ Range(a) = ahead /\ (Distinct(list) => Distinct(a))
  <2>1. Range(list) \cap ahead = ahead
    OBVIOUS
  <2> HIDE DEF ahead
  <2>2. QED
    BY <2>1, AmongLists
<1>2. b \in Seq(S) /\ Range(b) = Range(list) \ ahead /\ (Distinct(list) => Distinct(b))
  <2>1. Range(list) \cap (Range(list) \ ahead) = Range(list) \ ahead
    OBVIOUS
  <2> HIDE DEF ahead
  <2>2. QED
    BY <2>1, AmongLists
<1>3. one \in Seq(S) /\ Range(one) = {x} /\ Distinct(one)
  BY DEF Range, Distinct
<1>4. ahead \subseteq Range(list)
  OBVIOUS
<1>5. Inserted(list, x, before) = c \o b
  BY DEF Inserted
<1> HIDE DEF a, b, one, ahead
<1>6. /\ c \in Seq(S) /\ Range(c) = ahead \cup {x}
      /\ Distinct(list) /\ x \notin Range(list) => Distinct(c)
  <2>1. x \notin Range(list) => Range(a) \cap Range(one) = {}
    BY <1>1, <1>3, <1>4
  <2>2. QED
    BY <1>1, <1>3, <2>1, Joined
<1> HIDE DEF c
<1>7. /\ Range(c) \cup Range(b) = Range(list) \cup {x}
      /\ x \notin Range(list) => Range(c) \cap Range(b) = {}
  BY <1>2, <1>4, <1>6
<1>8. QED
  BY <1>2, <1>5, <1>6, <1>7, Joined

\* Sorted lists every member of a finite set once, whatever before says of them.
THEOREM SortedLists ==
  ASSUME NEW S, IsFiniteSet(S), NEW before
  PROVE  LET list == Sorted(S, before) IN
         list \in Seq(S) /\ Distinct(list) /\ Range(list) = S
<1> DEFINE list == SetToSeq(S)
           n == Cardinality(S)
           m == Len(list)
           step == [p \in Seq(S) \X (1 .. n) |-> Inserted(p[1], list[p[2]], before)]
           Solves(g) == g = [i \in 0 .. m |-> IF i = 0 THEN <<>>
                                              ELSE Inserted(g[i - 1], list[i], before)]
           g == CHOOSE a : Solves(a)
<1>1. n \in Nat /\ list \in [1 .. n -> S] /\ IsInjective(list) /\ Range(list) = S
  <2>1. n \in Nat /\ ExistsBijection(1 .. n, S)
    BY FS_CardinalityType
  <2>2. PICK f \in Bijection(1 .. n, S) : TRUE
    <3> HIDE DEF n
    <3>1. QED
      BY <2>1, Fun_ExistsBij
  <2>3. f \in [1 .. n -> S] /\ IsInjective(f)
    <3> DEFINE D == 1 .. n
    <3> HIDE DEF D
    <3>1. f \in Bijection(D, S)
      BY <2>2 DEF D
    <3>2. f \in Injection(D, S)
      BY <3>1, Fun_BijectionProperties
    <3>3. QED
      BY <3>2 DEF D, Injection
  <2>4. list \in [1 .. n -> S] /\ IsInjective(list)
    BY <2>3 DEF SetToSeq
  <2>5. list \in Injection(1 .. n, S)
    <3> HIDE DEF list, n
    <3>1. QED
      BY <2>4, Fun_IsInj DEF IsInjective
  <2>6. list \in Surjection(1 .. n, S)
    <3>1. IsFiniteSet(1 .. n) /\ Cardinality(1 .. n) = n
      BY <2>1, FS_Interval
    <3>2. Cardinality(1 .. n) = Cardinality(S)
      BY <3>1
    <3> HIDE DEF list, n
    <3>3. QED
      BY <2>5, <3>1, <3>2, FS_Injection
  <2> HIDE DEF list, n
  <2>7. Range(list) = S
    <3> DEFINE D == 1 .. n
    <3> HIDE DEF D
    <3>1. list \in Surjection(D, S)
      BY <2>6 DEF D
    <3>2. \A x \in S : \E i \in D : list[i] = x
      BY <3>1, Fun_SurjectionProperties, Zenon
    <3>3. QED
      BY <2>4, <3>2 DEF Range, D
  <2>8. QED
    BY <2>1, <2>4, <2>7
<1>2. Sorted(S, before) = g[m]
  BY DEF Sorted
<1> HIDE DEF list, n
<1>3. /\ list \in Seq(S) /\ m = n
      /\ \A i \in 1 .. n : list[i] \in S
      /\ \A i, j \in 1 .. n : list[i] = list[j] => i = j
  BY <1>1 DEF IsInjective
<1> HIDE DEF m
<1>4. step \in [Seq(S) \X (1 .. n) -> Seq(S)]
  <2>1. ASSUME NEW s \in Seq(S), NEW i \in 1 .. n
        PROVE  Inserted(s, list[i], before) \in Seq(S)
    BY <1>3, InsertedLists
  <2>2. QED
    BY <2>1
<1>5. PICK f : Unrolls(f, n, Seq(S), <<>>, step)
  <2>1. <<>> \in Seq(S)
    OBVIOUS
  <2> HIDE DEF step
  <2>2. QED
    BY <1>1, <1>4, <2>1, Recursion
<1>6. /\ f \in [0 .. n -> Seq(S)] /\ f[0] = <<>>
      /\ \A i \in 1 .. n : f[i - 1] \in Seq(S) /\ f[i] = Inserted(f[i - 1], list[i], before)
  <2>1. ASSUME NEW i \in 1 .. n
        PROVE  f[i - 1] \in Seq(S) /\ f[i] = Inserted(f[i - 1], list[i], before)
    <3>1. i - 1 \in 0 .. n
      BY <1>1
    <3>2. f[i - 1] \in Seq(S) /\ f[i] = step[<<f[i - 1], i>>]
      BY <1>5, <3>1 DEF Unrolls
    <3>3. QED
      BY <3>2
  <2>2. QED
    BY <1>5, <2>1 DEF Unrolls
<1>7. Solves(f)
  <2>1. \A i \in 0 .. n : i = 0 \/ i \in 1 .. n
    BY <1>1
  <2>2. f = [i \in 0 .. n |-> IF i = 0 THEN <<>> ELSE Inserted(f[i - 1], list[i], before)]
    BY <1>6, <2>1
  <2>3. QED
    BY <1>3, <2>2
<1>8. Solves(g)
  <2> HIDE DEF Solves
  <2>1. QED
    BY <1>7
<1>9. \A i \in 0 .. n : g[i] = f[i]
  <2> DEFINE T == {i \in 0 .. n : g[i] = f[i]}
  <2>1. g[0] = <<>>
    <3> HIDE DEF g
    <3>1. QED
      BY <1>1, <1>3, <1>8
  <2>2. ASSUME NEW i \in 1 .. n
        PROVE  g[i] = Inserted(g[i - 1], list[i], before)
    <3>1. i \in 0 .. n /\ i # 0
      BY <1>1
    <3> HIDE DEF g
    <3>2. QED
      BY <1>3, <1>8, <3>1
  <2> HIDE DEF g
  <2>3. 0 \in T
    BY <1>1, <1>6, <2>1
  <2>4. \A i \in 1 .. n : i - 1 \in T => i \in T
    BY <1>1, <1>6, <2>2
  <2>5. \A i \in 0 .. n : i \in T
    <3> HIDE DEF T
    <3>1. QED
      BY <1>1, <2>3, <2>4, Places
  <2>6. QED
    BY <2>5
<1> DEFINE Once(i) == /\ Distinct(f[i]) /\ \A j \in 1 .. i : list[j] \in Range(f[i])
                      /\ \A x \in Range(f[i]) : \E j \in 1 .. i : x = list[j]
           P == {i \in 0 .. n : Once(i)}
<1>10. 0 \in P
  BY <1>1, <1>6 DEF Distinct, Range
<1>11. \A i \in 1 .. n : i - 1 \in P => i \in P
  <2> SUFFICES ASSUME NEW i \in 1 .. n, Once(i - 1)
               PROVE  Once(i)
    <3> HIDE DEF Once
    <3>1. \A i \in 1 .. n : i \in 0 .. n
      BY <1>1
    <3>2. QED
      BY <3>1
  <2>1. \A j \in 1 .. i : j = i \/ (j \in 1 .. i - 1 /\ j # i)
    BY <1>1
  <2>2. \A j \in 1 .. i - 1 : j \in 1 .. i /\ j \in 1 .. n /\ j # i
    BY <1>1
  <2>3. list[i] \notin Range(f[i - 1])
    BY <1>3, <2>2
  <2>4. Distinct(f[i]) /\ Range(f[i]) = Range(f[i - 1]) \cup {list[i]}
    BY <1>3, <1>6, <2>3, InsertedLists
  <2>5. i \in 1 .. i
    BY <1>1
  <2>6. QED
    BY <2>1, <2>2, <2>4, <2>5
<1>12. Once(n)
  <2> HIDE DEF P
  <2>1. n \in P
    BY <1>1, <1>10, <1>11, Places
  <2>2. QED
    BY <2>1 DEF P
<1>13. Range(f[n]) = S
  <2>1. DOMAIN list = 1 .. n
    BY <1>1
  <2>2. QED
    BY <1>1, <1>12, <2>1 DEF Range
<1>14. Sorted(S, before) = f[n]
  <2> HIDE DEF g
  <2>1. QED
    BY <1>1, <1>2, <1>3, <1>9
<1>15. f[n] \in Seq(S)
  BY <1>1, <1>6
<1>16. QED
  BY <1>12, <1>13, <1>14, <1>15
=============================================================================
