------------------------ MODULE TeacherLabelsProofs ------------------------
(***************************************************************************)
(* What TeacherLabels promises for any corpora, options, quotas, workers   *)
(* and engine upgrades: a bucket ends as one worker alone would have left  *)
(* it, labels that replace barred ones come from one engine, and a tier    *)
(* built across another merges with it.                                    *)
(***************************************************************************)
EXTENDS Teacher, ListProofs

\* Shapes.
Label == [root : RootKeys, source : Marks]
Buckets == [next : Nat, accepted : Seq(Label), failed : Seq(Label), excluded : Seq(Label)]
Running == build # Missing

\* A bucket that has come to candidate i.
Placed(b, i) == [b EXCEPT !.next = i]

Shapes ==
  /\ version \in Sources
  /\ receipts \in [Contracts -> [Halves -> [RootKeys -> Marks]]]
  /\ bucket \in [Halves -> Buckets]
  /\ pool \in Seq(Halves \X Nat)
  /\ done = [h \in Halves |-> done[h]]
  /\ \A h \in Halves : done[h] \in [DOMAIN done[h] -> Marks] /\ DOMAIN done[h] \subseteq Nat
  /\ artifact = [t \in Tiers |-> artifact[t]]
  /\ Running => build.tier \in Tiers /\ build.contract \in Contracts
  /\ \A t \in Tiers : artifact[t] # Missing => artifact[t].contract \in Contracts

\* Nothing is left of a build that is over.
Cleared ==
  ~ Running => /\ pool = <<>>
               /\ \A h \in Halves : bucket[h] = Empty /\ DOMAIN done[h] = {}

\* Submitted candidates of a half that no worker has labelled.
Entries(h) == {i \in Nat : <<h, i>> \in Range(pool)}

Settled(h, k) == k \in build.barred[h] \/ Receipt(h, k) # Missing

\* g files the first lo candidates, one after the other, over the receipts.
Files(h, g, lo) ==
  LET cs == Candidates(build.tier, h) IN
  /\ g \in [0 .. lo -> Buckets]
  /\ g[0] = Empty
  /\ \A i \in 1 .. lo : /\ g[i] = Placed(Filed(g[i - 1], h, cs[i], Receipt(h, cs[i])), i)
                        /\ Settled(h, cs[i])

\* A half of a running build: lo candidates are filed, those up to next are a wave
\* that cannot overshoot the quota, labelled or in the pool.
InStep(h, g, lo) ==
  LET cs == Candidates(build.tier, h)
      q  == Quota(build.tier, h)
      b  == bucket[h]
      hi == bucket[h].next IN
  /\ Files(h, g, lo)
  /\ b = Placed(g[lo], hi)
  /\ \A j \in 0 .. lo - 1 : Len(g[j].accepted) < q
  /\ lo <= hi /\ hi <= Len(cs)
  /\ hi - lo + Len(b.accepted) <= q
  /\ hi > 0 => hi = Len(cs) \/ hi - lo + Len(b.accepted) = q
  /\ DOMAIN done[h] \cup Entries(h) = lo + 1 .. hi
  /\ DOMAIN done[h] \cap Entries(h) = {}
  /\ \A i \in DOMAIN done[h] : done[h][i] = Receipt(h, cs[i]) /\ Settled(h, cs[i])

Waves ==
  /\ Distinct(pool)
  /\ Running => \A h \in Halves : \E lo \in Nat : \E g : InStep(h, g, lo)

\* Labels come from the engine that generated the corpora their receipt is filed
\* under, and a build only looks under its own corpora.
Generated ==
  /\ \A c \in Contracts, h \in Halves, k \in RootKeys :
       receipts[c][h][k] \in Sources => receipts[c][h][k] = c.from
  /\ Running => build.contract.from = build.from

\* A tier has labels of the engine that generated its corpora.
OwnLabels ==
  \A t \in Tiers : artifact[t] # Missing =>
    /\ artifact[t].from \in Sources
    /\ \A h \in Halves : \A l \in artifact[t].labels[h] : l.source = artifact[t].from

\* What a build across the other tier is barred from.
Across(x, barred) ==
  /\ ~ Leaks([labels |-> x])
  /\ \A h \in Halves : barred[h] = States({l.root : l \in x[Other(h, Halves)]})

\* Labels that keep clear of barred states.
Clear(S, barred) == \A l \in S : l.root \notin barred /\ Options[l.root] \cap barred = {}

Apartness ==
  /\ Running => \A x \in build.across : Across(x, build.barred)
  /\ \A t \in Tiers : artifact[t] # Missing =>
       \A x \in artifact[t].across :
         \E barred : Across(x, barred) /\ \A h \in Halves : Clear(artifact[t].labels[h], barred[h])

LabelsInv == Shapes /\ Cleared /\ Waves /\ Generated /\ Apartness /\ OwnLabels

-----------------------------------------------------------------------------
(* Candidates and buckets. *)

\* The samples a half keeps are finitely many, ordered by rank, and one to a state.
LEMMA RetainedSorted ==
  ASSUME NEW t, NEW h \in Halves
  PROVE  LET R == Retained(t, h)
             before == {p \in R \X R : p[1].rank < p[2].rank} IN
         /\ R \subseteq Samples[h] /\ IsFiniteSet(R) /\ Orders(before, R)
         /\ \A s, u \in R : s.key = u.key => s = u
<1> DEFINE R == Retained(t, h)
           before == {p \in R \X R : p[1].rank < p[2].rank}
<1>1. R \subseteq Samples[h]
  BY DEF Retained
<1>2. IsFiniteSet(R)
  BY <1>1, LabelsAssumption, FS_Subset
<1>3. \A s \in R : s.rank \in Nat
  BY <1>1, LabelsAssumption
<1>4. \A s, u \in R : s.rank = u.rank => s = u
  BY <1>1, LabelsAssumption
<1>5. \A s, u \in R : s.key = u.key => s.rank <= u.rank
  BY DEF Retained
<1>6. \A s, u \in R : s.key = u.key => s = u
  BY <1>3, <1>4, <1>5
<1> HIDE DEF R
<1>7. \A s, u \in R : <<s, u>> \in before <=> s.rank < u.rank
  OBVIOUS
<1> HIDE DEF before
<1>8. Orders(before, R)
  <2>1. \A s \in R : <<s, s>> \notin before
    BY <1>3, <1>7
  <2>2. ASSUME NEW s \in R, NEW u \in R, NEW v \in R, <<s, u>> \in before, <<u, v>> \in before
        PROVE  <<s, v>> \in before
    <3>1. s.rank < u.rank /\ u.rank < v.rank /\ s.rank \in Nat /\ u.rank \in Nat /\ v.rank \in Nat
      BY <1>3, <1>7, <2>2
    <3>2. s.rank < v.rank
      BY <3>1
    <3>3. QED
      BY <1>7, <3>2
  <2>3. ASSUME NEW s \in R, NEW u \in R
        PROVE  s = u \/ <<s, u>> \in before \/ <<u, s>> \in before
    <3>1. s.rank \in Nat /\ u.rank \in Nat
      BY <1>3
    <3>2. s.rank = u.rank \/ s.rank < u.rank \/ u.rank < s.rank
      BY <3>1
    <3>3. QED
      BY <1>4, <1>7, <3>2
  <2>4. QED
    BY <2>1, <2>2, <2>3 DEF Orders
<1>9. QED
  BY <1>1, <1>2, <1>6, <1>8 DEF R, before

\* A bucket has each of its roots once among its candidates.
LEMMA CandidatesOnce ==
  ASSUME NEW t \in Tiers, NEW h \in Halves
  PROVE  LET cs == Candidates(t, h) IN
         /\ cs \in Seq(RootKeys) /\ Len(cs) \in Nat /\ DOMAIN cs = 1 .. Len(cs)
         /\ \A i \in 1 .. Len(cs) : cs[i] \in RootKeys
         /\ \A i, j \in 1 .. Len(cs) : cs[i] = cs[j] => i = j
<1> DEFINE R == Retained(t, h)
           before == {p \in R \X R : p[1].rank < p[2].rank}
           order == InOrder(R, before)
           cs == Candidates(t, h)
           n == Cardinality(R)
<1>1. /\ R \subseteq Samples[h] /\ IsFiniteSet(R) /\ Orders(before, R)
      /\ \A s, u \in R : s.key = u.key => s = u
  BY RetainedSorted
<1>2. cs = [i \in DOMAIN order |-> order[i].key]
  BY DEF Candidates, CandidateLists
<1> HIDE DEF R, before, cs
<1>3. /\ order \in Seq(R) /\ n \in Nat /\ DOMAIN order = 1 .. n
      /\ \A i, j \in 1 .. n : order[i] = order[j] => i = j
  BY <1>1, InOrderLists
<1>4. \A i \in 1 .. n : order[i] \in R
  BY <1>3
<1> HIDE DEF order
<1>5. \A s \in R : s.key \in RootKeys
  BY <1>1 DEF RootKeys, Roots, Halves
<1>6. cs = [i \in 1 .. n |-> order[i].key]
  BY <1>2, <1>3
<1> HIDE DEF n
<1>7. cs \in [1 .. n -> RootKeys]
  BY <1>4, <1>5, <1>6
<1>8. cs \in Seq(RootKeys) /\ Len(cs) = n
  BY <1>3, <1>7, SeqDef, LenProperties
<1>9. \A i, j \in 1 .. n : cs[i] = cs[j] => i = j
  BY <1>1, <1>3, <1>4, <1>6
<1>10. QED
  BY <1>3, <1>7, <1>8, <1>9 DEF cs

\* A bucket before its first candidate.
LEMMA EmptyBucket ==
  Empty \in Buckets /\ Empty.next = 0 /\ Len(Empty.accepted) = 0
BY DEF Empty, Buckets

\* Moving on keeps the three lists.
LEMMA NextOf ==
  ASSUME NEW n, NEW m, NEW x, NEW y, NEW z
  PROVE  [[next |-> n, accepted |-> x, failed |-> y, excluded |-> z] EXCEPT !.next = m] =
            [next |-> m, accepted |-> x, failed |-> y, excluded |-> z]
OBVIOUS

\* Filing a root adds a row to one of three lists, whatever next is.
LEMMA FiledIs ==
  ASSUME NEW b \in Buckets, NEW h, NEW k \in RootKeys, NEW mark \in Marks
  PROVE  LET f == Filed(b, h, k, mark)
             l == [root |-> k, source |-> mark] IN
         /\ f \in Buckets /\ f.next = b.next
         /\ f.accepted = b.accepted \o (IF Outcome(h, k, mark) = "accepted" THEN <<l>> ELSE <<>>)
         /\ Len(f.accepted) \in Nat /\ Len(b.accepted) \in Nat
         /\ Len(b.accepted) <= Len(f.accepted) /\ Len(f.accepted) <= Len(b.accepted) + 1
<1> DEFINE f == Filed(b, h, k, mark)
           l == [root |-> k, source |-> mark]
           rows(outcome) == IF Outcome(h, k, mark) = outcome THEN <<l>> ELSE <<>>
<1>1. l \in Label
  BY DEF Label
<1>2. /\ b = [next |-> b.next, accepted |-> b.accepted, failed |-> b.failed, excluded |-> b.excluded]
      /\ b.next \in Nat /\ b.accepted \in Seq(Label) /\ b.failed \in Seq(Label) /\ b.excluded \in Seq(Label)
  BY DEF Buckets
<1>3. \A o : rows(o) \in Seq(Label) /\ Len(rows(o)) \in {0, 1}
  <2> HIDE DEF l
  <2>1. <<l>> \in Seq(Label) /\ <<>> \in Seq(Label) /\ Len(<<l>>) = 1 /\ Len(<<>>) = 0
    BY <1>1
  <2>2. QED
    BY <2>1
<1>4. \A c \in [next : Nat, accepted : Seq(Label), failed : Seq(Label), excluded : Seq(Label)] :
        Filed(c, h, k, mark) =
          [next |-> c.next, accepted |-> c.accepted \o rows("accepted"),
           failed |-> c.failed \o rows("failed"), excluded |-> c.excluded \o rows("excluded")]
  <2> SUFFICES ASSUME NEW c \in [next : Nat, accepted : Seq(Label), failed : Seq(Label), excluded : Seq(Label)]
               PROVE  Filed(c, h, k, mark) =
                        [next |-> c.next, accepted |-> c.accepted \o rows("accepted"),
                         failed |-> c.failed \o rows("failed"), excluded |-> c.excluded \o rows("excluded")]
    OBVIOUS
  <2>1. c = [next |-> c.next, accepted |-> c.accepted, failed |-> c.failed, excluded |-> c.excluded]
    OBVIOUS
  <2>2. Filed(c, h, k, mark) =
          [c EXCEPT !.accepted = c.accepted \o rows("accepted"),
                    !.failed   = c.failed \o rows("failed"),
                    !.excluded = c.excluded \o rows("excluded")]
    BY DEF Filed
  <2> HIDE DEF rows
  <2>3. QED
    BY <2>1, <2>2
<1> HIDE DEF l, rows
<1>5. \A o : \A s \in Seq(Label) : s \o rows(o) \in Seq(Label) /\ Len(s \o rows(o)) = Len(s) + Len(rows(o))
                                 /\ Len(s) \in Nat
  BY <1>3, ConcatProperties, LenProperties
<1>6. f = [next |-> b.next, accepted |-> b.accepted \o rows("accepted"),
           failed |-> b.failed \o rows("failed"), excluded |-> b.excluded \o rows("excluded")]
  BY <1>4 DEF Buckets
<1> HIDE DEF f
<1>8. f \in Buckets
  BY <1>2, <1>5, <1>6 DEF Buckets
<1>9. f.next = b.next /\ f.accepted = b.accepted \o rows("accepted")
  BY <1>6
<1>10. Len(f.accepted) = Len(b.accepted) + Len(rows("accepted"))
  BY <1>2, <1>5, <1>9
<1>11. /\ Len(f.accepted) \in Nat /\ Len(b.accepted) \in Nat
       /\ Len(b.accepted) <= Len(f.accepted) /\ Len(f.accepted) <= Len(b.accepted) + 1
  <2> DEFINE m == Len(rows("accepted"))
             n == Len(b.accepted)
             o == Len(f.accepted)
  <2>1. m \in {0, 1} /\ n \in Nat /\ o = n + m
    BY <1>2, <1>3, <1>10
  <2> HIDE DEF m, n, o
  <2>2. o \in Nat /\ n \in Nat /\ n <= o /\ o <= n + 1
    BY <2>1
  <2>3. QED
    BY <2>2 DEF n, o
<1>12. QED
  BY <1>8, <1>9, <1>11 DEF f, l, rows

\* Where a bucket was does not matter to what is filed in it.
LEMMA NextIgnored ==
  ASSUME NEW b \in Buckets, NEW h, NEW k \in RootKeys, NEW mark \in Marks,
         NEW i \in Nat, NEW j \in Nat
  PROVE  Placed(Filed(Placed(b, j), h, k, mark), i) = Placed(Filed(b, h, k, mark), i)
<1> DEFINE l == [root |-> k, source |-> mark]
           rows(outcome) == IF Outcome(h, k, mark) = outcome THEN <<l>> ELSE <<>>
           x == b.accepted \o rows("accepted")
           y == b.failed \o rows("failed")
           z == b.excluded \o rows("excluded")
           B == [next : Nat, accepted : Seq(Label), failed : Seq(Label), excluded : Seq(Label)]
           c == [next |-> j, accepted |-> b.accepted, failed |-> b.failed, excluded |-> b.excluded]
           r == [next |-> i, accepted |-> x, failed |-> y, excluded |-> z]
<1>1. /\ b = [next |-> b.next, accepted |-> b.accepted, failed |-> b.failed, excluded |-> b.excluded]
      /\ b \in B /\ c \in B
  BY DEF Buckets
<1>2. \A d \in B : Filed(d, h, k, mark) =
          [next |-> d.next, accepted |-> d.accepted \o rows("accepted"),
           failed |-> d.failed \o rows("failed"), excluded |-> d.excluded \o rows("excluded")]
  <2> SUFFICES ASSUME NEW d \in B
               PROVE  Filed(d, h, k, mark) =
                        [next |-> d.next, accepted |-> d.accepted \o rows("accepted"),
                         failed |-> d.failed \o rows("failed"), excluded |-> d.excluded \o rows("excluded")]
    OBVIOUS
  <2>1. d = [next |-> d.next, accepted |-> d.accepted, failed |-> d.failed, excluded |-> d.excluded]
    OBVIOUS
  <2>2. Filed(d, h, k, mark) =
          [d EXCEPT !.accepted = d.accepted \o rows("accepted"),
                    !.failed   = d.failed \o rows("failed"),
                    !.excluded = d.excluded \o rows("excluded")]
    BY DEF Filed
  <2> HIDE DEF rows
  <2>3. QED
    BY <2>1, <2>2
<1>3. Placed(b, j) = c
  <2> DEFINE d == [next |-> b.next, accepted |-> b.accepted, failed |-> b.failed, excluded |-> b.excluded]
  <2>1. b = d
    BY <1>1
  <2>2. Placed(d, j) = c
    BY NextOf DEF Placed
  <2> HIDE DEF d, c
  <2>3. QED
    BY <2>1, <2>2
<1>4. /\ Filed(c, h, k, mark) = [next |-> j, accepted |-> x, failed |-> y, excluded |-> z]
      /\ Filed(b, h, k, mark) = [next |-> b.next, accepted |-> x, failed |-> y, excluded |-> z]
  BY <1>1, <1>2
<1> HIDE DEF x, y, z
<1>5. /\ Placed([next |-> j, accepted |-> x, failed |-> y, excluded |-> z], i) = r
      /\ Placed([next |-> b.next, accepted |-> x, failed |-> y, excluded |-> z], i) = r
  BY NextOf DEF Placed
<1> HIDE DEF r, c
<1>6. QED
  BY <1>3, <1>4, <1>5, Zenon

\* Moving on changes next and nothing else.
LEMMA PlacedIs ==
  ASSUME NEW b \in Buckets, NEW i \in Nat
  PROVE  /\ Placed(b, i) \in Buckets
         /\ Placed(b, i).next = i
         /\ Placed(b, i).accepted = b.accepted
         /\ b.next = i => Placed(b, i) = b
BY DEF Buckets, Placed

-----------------------------------------------------------------------------
(* The two recursions have values. *)

\* Every half of a tier has a root to label.
LEMMA QuotaIs ==
  ASSUME NEW t \in Tiers, NEW h
  PROVE  Quota(t, h) \in Nat \ {0}
<1>1. TargetRoots[t] \in Nat /\ TrainRoots[t] \in 1 .. TargetRoots[t] - 1
  BY LabelsAssumption
<1>2. QED
  BY <1>1 DEF Quota

\* A receipt is a source, a failure or none.
LEMMA ReceiptIs ==
  ASSUME Shapes, Running, NEW h \in Halves, NEW k \in RootKeys
  PROVE  Receipt(h, k) \in Marks
BY DEF Shapes, Receipt

\* One candidate of the sequential scheduler.
Consumed(h, b, i) ==
  LET cs == Candidates(build.tier, h) IN
  IF Len(b.accepted) = Quota(build.tier, h) THEN b
  ELSE Placed(Filed(b, h, cs[i], Receipt(h, cs[i])), i)

\* _run_bucket takes the candidates one after the other.
LEMMA RunBucketRuns ==
  ASSUME Shapes, Running, NEW h \in Halves
  PROVE  LET n == Len(Candidates(build.tier, h)) IN
         \E f \in [0 .. n -> Buckets] :
           /\ RunBucket(h) = f[n]
           /\ f[0] = Empty
           /\ \A i \in 1 .. n : f[i] = Consumed(h, f[i - 1], i)
<1> DEFINE cs == Candidates(build.tier, h)
           n == Len(cs)
           step == [p \in Buckets \X (1 .. n) |-> Consumed(h, p[1], p[2])]
<1>1. n \in Nat /\ \A i \in 1 .. n : cs[i] \in RootKeys
  BY CandidatesOnce DEF Shapes
<1>2. \A b \in Buckets, i \in 1 .. n : Consumed(h, b, i) \in Buckets
  <2> SUFFICES ASSUME NEW b \in Buckets, NEW i \in 1 .. n
               PROVE  Consumed(h, b, i) \in Buckets
    OBVIOUS
  <2>1. cs[i] \in RootKeys /\ Receipt(h, cs[i]) \in Marks
    BY <1>1, ReceiptIs
  <2> DEFINE c == Filed(b, h, cs[i], Receipt(h, cs[i]))
  <2>2. c \in Buckets
    BY <2>1, FiledIs
  <2>3. i \in Nat
    BY <1>1
  <2> HIDE DEF c
  <2>4. Placed(c, i) \in Buckets
    BY <2>2, <2>3, PlacedIs
  <2>5. Consumed(h, b, i) \in {b, Placed(c, i)}
    BY DEF Consumed, c
  <2>6. QED
    BY <2>4, <2>5
<1>3. step \in [Buckets \X (1 .. n) -> Buckets]
  <2> HIDE DEF cs, n
  <2>1. QED
    BY <1>2
<1>4. PICK f : Unrolls(f, n, Buckets, Empty, step)
  <2>1. n \in Nat /\ Empty \in Buckets
    BY <1>1, EmptyBucket
  <2> HIDE DEF step, n
  <2>2. QED
    BY <1>3, <2>1, Recursion
<1>5. \A i \in 1 .. n : f[i - 1] \in Buckets /\ f[i] = Consumed(h, f[i - 1], i)
  <2> SUFFICES ASSUME NEW i \in 1 .. n
               PROVE  f[i - 1] \in Buckets /\ f[i] = Consumed(h, f[i - 1], i)
    OBVIOUS
  <2>1. f[i - 1] \in Buckets
    <3>1. i - 1 \in 0 .. n
      BY <1>1
    <3>2. QED
      BY <1>4, <3>1 DEF Unrolls
  <2>2. f[i] = step[<<f[i - 1], i>>]
    BY <1>4 DEF Unrolls
  <2>3. QED
    BY <2>1, <2>2
<1> DEFINE Solves(g) ==
      g = [i \in 0 .. n |->
             IF i = 0 THEN Empty
             ELSE LET b == g[i - 1] IN
                  IF Len(b.accepted) = Quota(build.tier, h) THEN b
                  ELSE Placed(Filed(b, h, cs[i], Receipt(h, cs[i])), i)]
           g == CHOOSE a : Solves(a)
<1>6. RunBucket(h) = g[n]
  BY DEF RunBucket, Placed
<1>7. Solves(f)
  <2>1. \A i \in 0 .. n : f[i] = IF i = 0 THEN Empty
             ELSE LET b == f[i - 1] IN
                  IF Len(b.accepted) = Quota(build.tier, h) THEN b
                  ELSE Placed(Filed(b, h, cs[i], Receipt(h, cs[i])), i)
    <3> SUFFICES ASSUME NEW i \in 0 .. n, i # 0
                 PROVE  f[i] = LET b == f[i - 1] IN
                               IF Len(b.accepted) = Quota(build.tier, h) THEN b
                               ELSE Placed(Filed(b, h, cs[i], Receipt(h, cs[i])), i)
      BY <1>4 DEF Unrolls
    <3>1. i \in 1 .. n
      BY <1>1
    <3>2. f[i] = Consumed(h, f[i - 1], i)
      BY <1>5, <3>1
    <3> HIDE DEF n
    <3>3. QED
      BY <3>2 DEF Consumed
  <2> HIDE DEF n, cs
  <2>2. QED
    BY <1>4, <2>1 DEF Unrolls
<1>8. Solves(g)
  <2> HIDE DEF Solves
  <2>1. QED
    BY <1>7
<1>9. \A i \in 0 .. n : g[i] = f[i]
  <2> DEFINE T == {i \in 0 .. n : g[i] = f[i]}
  <2>1. g[0] = Empty
    <3> HIDE DEF g, cs
    <3>1. QED
      BY <1>1, <1>8
  <2>2. ASSUME NEW i \in 1 .. n
        PROVE  g[i] = Consumed(h, g[i - 1], i)
    <3>1. i \in 0 .. n /\ i # 0
      BY <1>1
    <3> HIDE DEF g, n
    <3>2. QED
      BY <1>8, <3>1 DEF Consumed
  <2> HIDE DEF g, n, cs
  <2>3. 0 \in T
    BY <1>1, <1>4, <2>1 DEF Unrolls
  <2>4. \A i \in 1 .. n : i - 1 \in T => i \in T
    BY <1>1, <1>5, <2>2
  <2>5. \A i \in 0 .. n : i \in T
    <3> HIDE DEF T
    <3>1. QED
      BY <1>1, <2>3, <2>4, Places
  <2>6. QED
    BY <2>5
<1>10. RunBucket(h) = f[n]
  <2> HIDE DEF g, n
  <2>1. QED
    BY <1>1, <1>6, <1>9
<1>11. f \in [0 .. n -> Buckets] /\ f[0] = Empty
  BY <1>4 DEF Unrolls
<1>12. QED
  BY <1>5, <1>10, <1>11

\* _run_buckets_parallel commits the labelled roots one after the other.
LEMMA CommittedRuns ==
  ASSUME Shapes, Running, NEW h \in Halves
  PROVE  LET cs == Candidates(build.tier, h)
             n == Len(cs) IN
         \E f \in [0 .. n -> Buckets] :
           /\ Committed(h) = f[n]
           /\ f[0] = bucket[h]
           /\ \A i \in 1 .. n : f[i] = IF i \in DOMAIN done[h]
                                       THEN Filed(f[i - 1], h, cs[i], done[h][i]) ELSE f[i - 1]
<1> DEFINE cs == Candidates(build.tier, h)
           n == Len(cs)
           next(b, i) == IF i \in DOMAIN done[h] THEN Filed(b, h, cs[i], done[h][i]) ELSE b
           step == [p \in Buckets \X (1 .. n) |-> next(p[1], p[2])]
<1>1. n \in Nat /\ \A i \in 1 .. n : cs[i] \in RootKeys
  BY CandidatesOnce DEF Shapes
<1>2. \A b \in Buckets, i \in 1 .. n : next(b, i) \in Buckets
  <2> SUFFICES ASSUME NEW b \in Buckets, NEW i \in 1 .. n, i \in DOMAIN done[h]
               PROVE  Filed(b, h, cs[i], done[h][i]) \in Buckets
    OBVIOUS
  <2>1. cs[i] \in RootKeys /\ done[h][i] \in Marks
    BY <1>1 DEF Shapes
  <2> HIDE DEF cs
  <2>2. QED
    BY <2>1, FiledIs
<1>3. step \in [Buckets \X (1 .. n) -> Buckets]
  <2> HIDE DEF cs, n, next
  <2>1. QED
    BY <1>2
<1>4. PICK f : Unrolls(f, n, Buckets, bucket[h], step)
  <2>1. n \in Nat /\ bucket[h] \in Buckets
    BY <1>1 DEF Shapes
  <2> HIDE DEF step, n
  <2>2. QED
    BY <1>3, <2>1, Recursion
<1>5. \A i \in 1 .. n : f[i - 1] \in Buckets /\ f[i] = next(f[i - 1], i)
  <2> SUFFICES ASSUME NEW i \in 1 .. n
               PROVE  f[i - 1] \in Buckets /\ f[i] = next(f[i - 1], i)
    OBVIOUS
  <2>1. f[i - 1] \in Buckets
    <3>1. i - 1 \in 0 .. n
      BY <1>1
    <3>2. QED
      BY <1>4, <3>1 DEF Unrolls
  <2>2. f[i] = step[<<f[i - 1], i>>]
    BY <1>4 DEF Unrolls
  <2> HIDE DEF next
  <2>3. QED
    BY <2>1, <2>2
<1> DEFINE Solves(g) ==
      g = [i \in 0 .. n |->
             IF i = 0 THEN bucket[h]
             ELSE IF i \in DOMAIN done[h] THEN Filed(g[i - 1], h, cs[i], done[h][i])
             ELSE g[i - 1]]
           g == CHOOSE a : Solves(a)
<1>6. Committed(h) = g[n]
  BY DEF Committed
<1>7. Solves(f)
  <2>1. \A i \in 0 .. n : f[i] = IF i = 0 THEN bucket[h]
             ELSE IF i \in DOMAIN done[h] THEN Filed(f[i - 1], h, cs[i], done[h][i])
             ELSE f[i - 1]
    <3> SUFFICES ASSUME NEW i \in 0 .. n, i # 0
                 PROVE  f[i] = next(f[i - 1], i)
      BY <1>4 DEF Unrolls
    <3>1. i \in 1 .. n
      BY <1>1
    <3> HIDE DEF n, next
    <3>2. QED
      BY <1>5, <3>1
  <2> HIDE DEF n, cs
  <2>2. QED
    BY <1>4, <2>1 DEF Unrolls
<1>8. Solves(g)
  <2> HIDE DEF Solves
  <2>1. QED
    BY <1>7
<1>9. \A i \in 0 .. n : g[i] = f[i]
  <2> DEFINE T == {i \in 0 .. n : g[i] = f[i]}
  <2>1. g[0] = bucket[h]
    <3> HIDE DEF g, cs
    <3>1. QED
      BY <1>1, <1>8
  <2>2. ASSUME NEW i \in 1 .. n
        PROVE  g[i] = next(g[i - 1], i)
    <3>1. i \in 0 .. n /\ i # 0
      BY <1>1
    <3> HIDE DEF g, n
    <3>2. QED
      BY <1>8, <3>1
  <2> HIDE DEF g, n, cs, next
  <2>3. 0 \in T
    BY <1>1, <1>4, <2>1 DEF Unrolls
  <2>4. \A i \in 1 .. n : i - 1 \in T => i \in T
    BY <1>1, <1>5, <2>2
  <2>5. \A i \in 0 .. n : i \in T
    <3> HIDE DEF T
    <3>1. QED
      BY <1>1, <2>3, <2>4, Places
  <2>6. QED
    BY <2>5
<1>10. Committed(h) = f[n]
  <2> HIDE DEF g, n
  <2>1. QED
    BY <1>1, <1>6, <1>9
<1>11. f \in [0 .. n -> Buckets] /\ f[0] = bucket[h]
  BY <1>4 DEF Unrolls
<1>12. QED
  BY <1>5, <1>10, <1>11

\* A wave takes the bucket to the end of its candidates or to its quota.
LEMMA WaveIs ==
  ASSUME Running, build.tier \in Tiers, NEW h \in Halves, NEW b \in Buckets,
         b.next <= Len(Candidates(build.tier, h)), Len(b.accepted) <= Quota(build.tier, h)
  PROVE  LET n == Len(Candidates(build.tier, h))
             q == Quota(build.tier, h)
             w == Wave(h, b)
             m == Len(Wave(h, b)) IN
         /\ w \in Seq(Halves \X Nat) /\ m \in Nat
         /\ \A i \in 1 .. m : w[i] = <<h, b.next + i>>
         /\ b.next + m <= n /\ Len(b.accepted) + m <= q
         /\ b.next + m = n \/ Len(b.accepted) + m = q
<1> DEFINE n == Len(Candidates(build.tier, h))
           q == Quota(build.tier, h)
           a == Len(b.accepted)
           stop == b.next + q - a
           m == (IF stop < n THEN stop ELSE n) - b.next
           w == [i \in 1 .. m |-> <<h, b.next + i>>]
<1>1. n \in Nat /\ q \in Nat /\ a \in Nat /\ b.next \in Nat
  <2>1. b.next \in Nat /\ b.accepted \in Seq(Label)
    BY DEF Buckets
  <2>2. QED
    BY <2>1, CandidatesOnce, QuotaIs, LenProperties
<1>2. Wave(h, b) = w
  BY DEF Wave
<1> HIDE DEF n, q, a
<1>3. b.next <= n /\ a <= q
  BY DEF n, q, a
<1>4. /\ m \in Nat /\ b.next + m <= n /\ a + m <= q
      /\ b.next + m = n \/ a + m = q
  BY <1>1, <1>3
<1> HIDE DEF m
<1>5. w \in [1 .. m -> Halves \X Nat]
  BY <1>1, <1>4
<1>6. w \in Seq(Halves \X Nat) /\ Len(w) = m
  BY <1>4, <1>5, SeqDef, LenProperties
<1>7. QED
  BY <1>2, <1>4, <1>6 DEF n, q, a

\* A wave whose roots are all labelled is committed as the sequential scheduler
\* would have gone on over the same receipts.
LEMMA FilingGoesOn ==
  ASSUME Shapes, Running, NEW h \in Halves, NEW lo \in Nat, NEW g, InStep(h, g, lo),
         Entries(h) = {}, DOMAIN done[h] # {}
  PROVE  LET c == Committed(h)
             hi == bucket[h].next IN
         /\ c \in Buckets /\ c.next = hi /\ hi \in Nat
         /\ hi <= Len(Candidates(build.tier, h)) /\ Len(c.accepted) <= Quota(build.tier, h)
         /\ \E e : /\ Files(h, e, hi) /\ c = e[hi]
                   /\ \A j \in 0 .. hi - 1 : Len(e[j].accepted) < Quota(build.tier, h)
<1> DEFINE cs == Candidates(build.tier, h)
           n == Len(cs)
           q == Quota(build.tier, h)
           b == bucket[h]
           hi == b.next
           c == Committed(h)
<1>1. /\ n \in Nat /\ q \in Nat /\ hi \in Nat /\ lo \in Nat /\ b \in Buckets /\ Len(b.accepted) \in Nat
      /\ \A i \in 1 .. n : cs[i] \in RootKeys
  <2>1. b \in Buckets
    BY DEF Shapes
  <2>2. b.next \in Nat /\ b.accepted \in Seq(Label)
    BY <2>1 DEF Buckets
  <2>3. n \in Nat /\ q \in Nat /\ \A i \in 1 .. n : cs[i] \in RootKeys
    BY CandidatesOnce, QuotaIs DEF Shapes
  <2>4. QED
    BY <2>1, <2>2, <2>3, LenProperties
<1>2. /\ lo <= hi /\ hi <= n /\ hi - lo + Len(b.accepted) <= q
      /\ DOMAIN done[h] = lo + 1 .. hi
      /\ \A j \in 0 .. lo - 1 : Len(g[j].accepted) < q
      /\ b = Placed(g[lo], hi)
      /\ \A i \in DOMAIN done[h] : done[h][i] = Receipt(h, cs[i]) /\ Settled(h, cs[i])
  BY DEF InStep
<1>3. /\ g \in [0 .. lo -> Buckets] /\ g[0] = Empty
      /\ \A i \in 1 .. lo : /\ g[i] = Placed(Filed(g[i - 1], h, cs[i], Receipt(h, cs[i])), i)
                            /\ Settled(h, cs[i])
  BY DEF InStep, Files
<1>4. PICK f \in [0 .. n -> Buckets] :
        /\ c = f[n] /\ f[0] = b
        /\ \A i \in 1 .. n : f[i] = IF i \in DOMAIN done[h]
                                    THEN Filed(f[i - 1], h, cs[i], done[h][i]) ELSE f[i - 1]
  BY CommittedRuns
<1> HIDE DEF cs, n, q, b, hi, c
<1>5. lo < hi
  BY <1>1, <1>2
<1>6. \A i \in 1 .. n : i \notin lo + 1 .. hi => f[i] = f[i - 1]
  BY <1>2, <1>4
<1>7. \A i \in lo + 1 .. hi :
        /\ i \in 1 .. n /\ i - 1 \in 0 .. n /\ f[i - 1] \in Buckets /\ cs[i] \in RootKeys
        /\ Receipt(h, cs[i]) \in Marks /\ Settled(h, cs[i])
        /\ f[i] = Filed(f[i - 1], h, cs[i], Receipt(h, cs[i]))
  <2> SUFFICES ASSUME NEW i \in lo + 1 .. hi
               PROVE  /\ i \in 1 .. n /\ i - 1 \in 0 .. n /\ f[i - 1] \in Buckets /\ cs[i] \in RootKeys
                      /\ Receipt(h, cs[i]) \in Marks /\ Settled(h, cs[i])
                      /\ f[i] = Filed(f[i - 1], h, cs[i], Receipt(h, cs[i]))
    OBVIOUS
  <2>1. i \in 1 .. n /\ i - 1 \in 0 .. n
    BY <1>1, <1>2
  <2>2. f[i - 1] \in Buckets /\ cs[i] \in RootKeys
    BY <1>1, <1>4, <2>1
  <2>3. f[i] = Filed(f[i - 1], h, cs[i], Receipt(h, cs[i])) /\ Settled(h, cs[i])
    BY <1>2, <1>4, <2>1
  <2>4. QED
    BY <2>1, <2>2, <2>3, ReceiptIs
<1>8. f[lo] = b
  <2> DEFINE T == {i \in 0 .. lo : f[i] = b}
  <2>1. 0 \in T
    BY <1>4
  <2>2. ASSUME NEW i \in 1 .. lo, i - 1 \in T
        PROVE  i \in T
    <3>1. i \in 1 .. n /\ i \notin lo + 1 .. hi
      BY <1>1, <1>2
    <3>2. QED
      BY <1>6, <2>2, <3>1
  <2>3. \A i \in 0 .. lo : i \in T
    <3> HIDE DEF T
    <3>1. QED
      BY <1>1, <2>1, <2>2, Places
  <2>4. QED
    BY <1>1, <2>3
<1>9. f[n] = f[hi]
  <2> DEFINE T == {i \in 0 .. n : i < hi \/ f[i] = f[hi]}
  <2>1. 0 \in T
    BY <1>1, <1>5
  <2>2. ASSUME NEW i \in 1 .. n, i - 1 \in T
        PROVE  i \in T
    <3>1. CASE i <= hi
      BY <1>1, <3>1
    <3>2. CASE i > hi
      <4>1. i \notin lo + 1 .. hi /\ ~ (i - 1 < hi) /\ i \in 0 .. n
        BY <1>1, <3>2
      <4>2. QED
        BY <1>6, <2>2, <4>1
    <3>3. QED
      BY <1>1, <3>1, <3>2
  <2>3. \A i \in 0 .. n : i \in T
    <3> HIDE DEF T
    <3>1. QED
      BY <1>1, <2>1, <2>2, Places
  <2>4. n \in T /\ ~ (n < hi)
    BY <1>1, <1>2, <2>3
  <2>5. QED
    BY <2>4
\* The wave adds at most a row for each of its roots.
<1> DEFINE Within(i) == /\ f[i].next = hi
                        /\ Len(f[i].accepted) \in Nat
                        /\ Len(f[i].accepted) <= Len(b.accepted) + (i - lo)
           U == {i \in 0 .. hi : i < lo \/ Within(i)}
<1>10. \A i \in 0 .. hi : i \in U
  <2>1. 0 \in U
    <3>1. CASE lo = 0
      BY <1>1, <1>8, <3>1 DEF hi
    <3>2. CASE lo # 0
      <4>1. 0 < lo /\ 0 \in 0 .. hi
        BY <1>1, <3>2
      <4>2. QED
        BY <4>1
    <3>3. QED
      BY <3>1, <3>2
  <2>2. ASSUME NEW i \in 1 .. hi, i - 1 \in U
        PROVE  i \in U
    <3>1. CASE i < lo
      <4>1. i \in 0 .. hi
        BY <1>1
      <4>2. QED
        BY <3>1, <4>1
    <3>2. CASE i = lo
      <4>1. f[i].next = hi /\ Len(f[i].accepted) = Len(b.accepted)
        BY <1>8, <3>2 DEF hi
      <4>2. QED
        BY <1>1, <3>2, <4>1
    <3>3. CASE i > lo
      <4>1. i \in lo + 1 .. hi /\ ~ (i - 1 < lo)
        BY <1>1, <3>3
      <4> DEFINE x == f[i - 1]
                 y == f[i]
      <4>2. x.next = hi /\ Len(x.accepted) \in Nat /\ Len(x.accepted) <= Len(b.accepted) + (i - 1 - lo)
        BY <2>2, <4>1
      <4>3. y.next = x.next /\ Len(y.accepted) \in Nat /\ Len(y.accepted) <= Len(x.accepted) + 1
        <5>1. x \in Buckets /\ cs[i] \in RootKeys /\ Receipt(h, cs[i]) \in Marks
            /\ y = Filed(x, h, cs[i], Receipt(h, cs[i]))
        BY <1>7, <4>1
      <5> HIDE DEF x, y
      <5>2. QED
        BY <5>1, FiledIs
      <4> HIDE DEF x, y
      <4>4. Len(y.accepted) <= Len(b.accepted) + (i - lo)
        BY <1>1, <4>2, <4>3
      <4>5. QED
        BY <4>2, <4>3, <4>4 DEF y
    <3>4. QED
      BY <1>1, <3>1, <3>2, <3>3
  <2>3. QED
    <3> HIDE DEF U
    <3>1. QED
      BY <1>1, <2>1, <2>2, Places
<1>11. \A i \in lo .. hi : /\ f[i].next = hi /\ Len(f[i].accepted) \in Nat
                           /\ Len(f[i].accepted) <= Len(b.accepted) + (i - lo)
  <2> SUFFICES ASSUME NEW i \in lo .. hi
               PROVE  /\ f[i].next = hi /\ Len(f[i].accepted) \in Nat
                      /\ Len(f[i].accepted) <= Len(b.accepted) + (i - lo)
    OBVIOUS
  <2>1. i \in U /\ ~ (i < lo)
    BY <1>1, <1>10
  <2>2. QED
    BY <2>1
<1> HIDE DEF U
<1> DEFINE e == [i \in 0 .. hi |-> IF i <= lo THEN g[i] ELSE Placed(f[i], i)]
<1>12. \A i \in lo + 1 .. hi : /\ f[i] \in Buckets /\ e[i] = Placed(f[i], i)
                               /\ e[i] \in Buckets /\ e[i].next = i /\ e[i].accepted = f[i].accepted
  <2> SUFFICES ASSUME NEW i \in lo + 1 .. hi
               PROVE  /\ f[i] \in Buckets /\ e[i] = Placed(f[i], i)
                      /\ e[i] \in Buckets /\ e[i].next = i /\ e[i].accepted = f[i].accepted
    OBVIOUS
  <2>1. i \in 0 .. n /\ i \in 0 .. hi /\ ~ (i <= lo) /\ i \in Nat
    BY <1>1, <1>2
  <2>2. f[i] \in Buckets
    BY <1>4, <2>1
  <2>3. e[i] = Placed(f[i], i)
    BY <2>1
  <2> HIDE DEF e
  <2>4. QED
    BY <2>1, <2>2, <2>3, PlacedIs
<1>13. \A i \in 0 .. lo : e[i] = g[i] /\ g[i] \in Buckets
  BY <1>1, <1>2, <1>3
<1>14. e \in [0 .. hi -> Buckets]
  <2>1. \A i \in 0 .. hi : e[i] \in Buckets
    <3> SUFFICES ASSUME NEW i \in 0 .. hi
                 PROVE  e[i] \in Buckets
      OBVIOUS
    <3>1. i \in 0 .. lo \/ i \in lo + 1 .. hi
      BY <1>1
    <3> HIDE DEF e
    <3>2. QED
      BY <1>12, <1>13, <3>1
  <2>2. e = [i \in 0 .. hi |-> e[i]]
    OBVIOUS
  <2> HIDE DEF e
  <2>3. QED
    BY <2>1, <2>2
<1> HIDE DEF e
<1>15. \A i \in 1 .. hi : /\ e[i] = Placed(Filed(e[i - 1], h, cs[i], Receipt(h, cs[i])), i)
                          /\ Settled(h, cs[i])
  <2> SUFFICES ASSUME NEW i \in 1 .. hi
               PROVE  /\ e[i] = Placed(Filed(e[i - 1], h, cs[i], Receipt(h, cs[i])), i)
                      /\ Settled(h, cs[i])
    OBVIOUS
  <2> DEFINE k == cs[i]
             r == Receipt(h, cs[i])
  <2>1. CASE i <= lo
    <3>1. i \in 1 .. lo /\ i \in 0 .. lo /\ i - 1 \in 0 .. lo
      BY <1>1, <2>1
    <3>2. QED
      BY <1>3, <1>13, <3>1
  <2>2. CASE i = lo + 1
    <3>1. i \in lo + 1 .. hi /\ i - 1 = lo /\ i \in Nat /\ lo \in 0 .. lo
      BY <1>1, <2>2
    <3>2. f[i] = Filed(Placed(g[lo], hi), h, k, r)
      BY <1>2, <1>7, <1>8, <3>1
    <3>3. e[i - 1] = g[lo] /\ g[lo] \in Buckets
      BY <1>13, <3>1
    <3>4. k \in RootKeys /\ r \in Marks
      BY <1>7, <3>1
    <3> HIDE DEF k, r
    <3>5. Placed(Filed(Placed(g[lo], hi), h, k, r), i) = Placed(Filed(g[lo], h, k, r), i)
      BY <1>1, <3>1, <3>3, <3>4, NextIgnored
    <3>6. e[i] = Placed(Filed(e[i - 1], h, k, r), i)
      BY <1>12, <3>1, <3>2, <3>3, <3>5
    <3>7. QED
      BY <1>7, <3>1, <3>6 DEF k, r
  <2>3. CASE i > lo + 1
    <3>1. i \in lo + 1 .. hi /\ i - 1 \in lo + 1 .. hi /\ i \in Nat /\ i - 1 \in Nat
      BY <1>1, <2>3
    <3> DEFINE x == f[i - 1]
    <3>2. f[i] = Filed(x, h, k, r) /\ x \in Buckets /\ k \in RootKeys /\ r \in Marks
      BY <1>7, <3>1
    <3>3. e[i - 1] = Placed(x, i - 1) /\ e[i] = Placed(f[i], i)
      BY <1>12, <3>1
    <3> HIDE DEF k, r, x
    <3>4. Placed(Filed(Placed(x, i - 1), h, k, r), i) = Placed(Filed(x, h, k, r), i)
      BY <3>1, <3>2, NextIgnored
    <3>5. e[i] = Placed(Filed(e[i - 1], h, k, r), i)
      BY <3>2, <3>3, <3>4
    <3>6. QED
      BY <1>7, <3>1, <3>5 DEF k, r
  <2>4. QED
    BY <1>1, <2>1, <2>2, <2>3
<1>16. \A j \in 0 .. hi - 1 : Len(e[j].accepted) < q
  <2> SUFFICES ASSUME NEW j \in 0 .. hi - 1
               PROVE  Len(e[j].accepted) < q
    OBVIOUS
  <2>1. CASE j < lo
    <3>1. j \in 0 .. lo - 1 /\ j \in 0 .. lo
      BY <1>1, <2>1
    <3>2. QED
      BY <1>2, <1>13, <3>1
  <2>2. CASE j = lo
    <3>1. lo \in 0 .. lo
      BY <1>1
    <3>2. e[j] = g[lo] /\ g[lo] \in Buckets
      BY <1>13, <2>2, <3>1
    <3>3. b.accepted = g[lo].accepted
      BY <1>1, <1>2, <3>2, PlacedIs
    <3>4. Len(b.accepted) < q
      BY <1>1, <1>2, <1>5
    <3>5. QED
      BY <3>2, <3>3, <3>4
  <2>3. CASE j > lo
    <3>1. j \in lo + 1 .. hi /\ j \in lo .. hi /\ j < hi
      BY <1>1, <2>3
    <3> DEFINE x == Len(f[j].accepted)
               y == Len(b.accepted)
    <3>2. x \in Nat /\ x <= y + (j - lo) /\ y \in Nat /\ hi - lo + y <= q
      BY <1>1, <1>2, <1>11, <3>1
    <3> HIDE DEF x, y
    <3>3. x < q
      BY <1>1, <3>1, <3>2
    <3>4. QED
      BY <1>12, <3>1, <3>3 DEF x
  <2>4. QED
    BY <1>1, <2>1, <2>2, <2>3
<1>17. c = e[hi] /\ c \in Buckets /\ c.next = hi /\ Len(c.accepted) <= q
  <2>1. hi \in lo + 1 .. hi /\ hi \in lo .. hi
    BY <1>1, <1>5
  <2>2. c = f[hi] /\ f[hi] \in Buckets /\ f[hi].next = hi
    BY <1>4, <1>9, <1>11, <1>12, <2>1
  <2>3. Placed(f[hi], hi) = f[hi]
    BY <1>1, <2>2, PlacedIs
  <2> DEFINE x == Len(f[hi].accepted)
             y == Len(b.accepted)
  <2>4. x \in Nat /\ x <= y + (hi - lo) /\ y \in Nat /\ hi - lo + y <= q
    BY <1>1, <1>2, <1>11, <2>1
  <2> HIDE DEF x, y
  <2>5. x <= q
    BY <1>1, <2>4
  <2>6. QED
    BY <1>12, <2>1, <2>2, <2>3, <2>5 DEF x
<1>18. Files(h, e, hi)
  <2>1. 0 \in 0 .. lo
    BY <1>1
  <2>2. e[0] = Empty
    BY <1>3, <1>13, <2>1
  <2>3. QED
    BY <1>14, <1>15, <2>2 DEF Files, cs
<1>19. hi \in Nat /\ hi <= n
  BY <1>1, <1>2
<1>20. QED
  BY <1>16, <1>17, <1>18, <1>19 DEF c, hi, n, q, cs, b

-----------------------------------------------------------------------------
(* What the waves come to. *)

\* A bucket with nothing outstanding is where one worker alone would have left it.
LEMMA WavesMatch ==
  ASSUME Shapes, Waves
  PROVE  MatchesSequence
<1> SUFFICES ASSUME NEW h \in Halves, Running, bucket[h] # Empty, ~ Pending(h), DOMAIN done[h] = {}
             PROVE  bucket[h] = RunBucket(h)
  BY DEF MatchesSequence, Running
<1> DEFINE cs == Candidates(build.tier, h)
           n == Len(cs)
           q == Quota(build.tier, h)
           b == bucket[h]
           hi == b.next
<1>1p. PICK lo \in Nat : \E g : InStep(h, g, lo)
  BY DEF Waves
<1>1. PICK g : InStep(h, g, lo)
  BY <1>1p
<1>2. Entries(h) = {}
  BY DEF Entries, Pending, Range
<1>3. /\ lo + 1 .. hi = {} /\ lo <= hi /\ hi <= n
      /\ b = Placed(g[lo], hi)
      /\ \A j \in 0 .. lo - 1 : Len(g[j].accepted) < q
      /\ hi - lo + Len(b.accepted) <= q
      /\ hi > 0 => hi = n \/ hi - lo + Len(b.accepted) = q
  BY <1>1, <1>2 DEF InStep
<1>4. /\ g \in [0 .. lo -> Buckets] /\ g[0] = Empty
      /\ \A i \in 1 .. lo : g[i] = Placed(Filed(g[i - 1], h, cs[i], Receipt(h, cs[i])), i)
  BY <1>1 DEF InStep, Files
<1>5. /\ n \in Nat /\ q \in Nat /\ hi \in Nat /\ Len(b.accepted) \in Nat
      /\ \A i \in 1 .. n : cs[i] \in RootKeys
  <2>1. b \in Buckets
    BY DEF Shapes
  <2>2. b.next \in Nat /\ b.accepted \in Seq(Label)
    BY <2>1 DEF Buckets
  <2>3. n \in Nat /\ q \in Nat /\ \A i \in 1 .. n : cs[i] \in RootKeys
    BY CandidatesOnce, QuotaIs DEF Shapes
  <2>4. QED
    BY <2>2, <2>3, LenProperties
<1>6. PICK f \in [0 .. n -> Buckets] :
        /\ RunBucket(h) = f[n] /\ f[0] = Empty
        /\ \A i \in 1 .. n : f[i] = Consumed(h, f[i - 1], i)
  BY RunBucketRuns
<1>7. \A i \in 1 .. n : f[i] = IF Len(f[i - 1].accepted) = q THEN f[i - 1]
                               ELSE Placed(Filed(f[i - 1], h, cs[i], Receipt(h, cs[i])), i)
  BY <1>6 DEF Consumed
<1> HIDE DEF n, cs, q, b, hi
<1>8. lo = hi
  BY <1>3, <1>5
<1>9. \A i \in 0 .. lo : f[i] = g[i]
  <2> DEFINE T == {i \in 0 .. lo : f[i] = g[i]}
  <2>1. 0 \in T
    BY <1>4, <1>6
  <2>2. ASSUME NEW i \in 1 .. lo, i - 1 \in T
        PROVE  i \in T
    <3>1. i \in 1 .. n /\ i - 1 \in 0 .. lo - 1 /\ i \in 0 .. lo
      BY <1>3, <1>5, <1>8
    <3>2. f[i - 1] = g[i - 1] /\ i - 1 \in 0 .. lo
      BY <2>2
    <3>3. Len(f[i - 1].accepted) < q
      BY <1>3, <3>1, <3>2
    <3>4. Len(f[i - 1].accepted) # q
      <4> DEFINE x == Len(f[i - 1].accepted)
      <4> HIDE DEF x
      <4>1. x < q => x # q
        BY <1>5
      <4>2. QED
        BY <3>3, <4>1 DEF x
    <3>5. f[i] = g[i]
      BY <1>4, <1>7, <3>1, <3>2, <3>4
    <3>6. QED
      BY <3>1, <3>5
  <2>3. \A i \in 0 .. lo : i \in T
    <3> HIDE DEF T
    <3>1. QED
      BY <2>1, <2>2, Places
  <2>4. QED
    BY <2>3
<1>10. b = f[lo]
  <2>1. g[lo] \in Buckets /\ g[lo].next = lo /\ f[lo] = g[lo]
    <3>1. CASE lo = 0
      <4>1. g[0].next = 0 /\ g[0] \in Buckets
        BY <1>4, EmptyBucket
      <4>2. 0 \in 0 .. lo
        OBVIOUS
      <4>3. QED
        BY <1>9, <3>1, <4>1, <4>2
    <3>2. CASE lo # 0
      <4>1. lo \in 1 .. lo /\ lo - 1 \in 0 .. lo /\ lo \in 1 .. n /\ lo \in 0 .. lo
        BY <1>3, <1>5, <1>8, <3>2
      <4>2. g[lo - 1] \in Buckets /\ cs[lo] \in RootKeys /\ Receipt(h, cs[lo]) \in Marks
        BY <1>4, <1>5, <4>1, ReceiptIs
      <4>3. Filed(g[lo - 1], h, cs[lo], Receipt(h, cs[lo])) \in Buckets
        BY <4>2, FiledIs
      <4>4. g[lo].next = lo
        <5> DEFINE x == Filed(g[lo - 1], h, cs[lo], Receipt(h, cs[lo]))
        <5>1. Placed(x, lo).next = lo
          BY <4>3, PlacedIs
        <5>2. g[lo] = Placed(x, lo)
          BY <1>4, <4>1
        <5>3. QED
          BY <5>1, <5>2, Zenon
      <4>5. QED
        BY <1>4, <1>9, <4>1, <4>4
    <3>3. QED
      BY <3>1, <3>2
  <2>2. QED
    BY <1>3, <1>8, <2>1, PlacedIs
<1>11. hi # 0
  <2>1. ASSUME hi = 0
        PROVE  FALSE
    <3>1. b = Empty
      BY <1>6, <1>8, <1>10, <2>1
    <3>2. QED
      BY <3>1 DEF b
  <2>2. QED
    BY <2>1
<1>12. CASE hi = n
  BY <1>6, <1>8, <1>10, <1>12 DEF b
<1>13. CASE hi # n
  <2>1. Len(b.accepted) = q
    BY <1>3, <1>5, <1>8, <1>11, <1>13
  <2> DEFINE T == {i \in 0 .. n : i < lo \/ f[i] = b}
  <2>2. 0 \in T
    <3>1. 0 < lo /\ 0 \in 0 .. n
      BY <1>5, <1>8, <1>11
    <3>2. QED
      BY <3>1
  <2>3. ASSUME NEW i \in 1 .. n, i - 1 \in T
        PROVE  i \in T
    <3>1. i \in 0 .. n
      BY <1>5
    <3>2. CASE i < lo
      BY <3>1, <3>2
    <3>3. CASE i = lo
      BY <1>10, <3>1, <3>3
    <3>4. CASE i > lo
      <4>1. ~ (i - 1 < lo)
        BY <3>4
      <4>2. f[i - 1] = b
        BY <2>3, <4>1
      <4>3. f[i] = b
        BY <1>7, <2>1, <4>2
      <4>4. QED
        BY <3>1, <4>3
    <3>5. QED
      BY <3>2, <3>3, <3>4
  <2>4. n \in T
    <3> HIDE DEF T
    <3>1. \A i \in 0 .. n : i \in T
      BY <1>5, <2>2, <2>3, Places
    <3>2. QED
      BY <1>5, <3>1
  <2>5. f[n] = b
    BY <1>3, <1>5, <1>8, <2>4
  <2>6. QED
    BY <1>6, <2>5 DEF b
<1>14. QED
  BY <1>12, <1>13

\* What a bucket has accepted: settled roots clear of the barred states, labelled
\* by the engine that generated the corpora.
LEMMA WavesClear ==
  ASSUME Shapes, Waves, Generated, Running, NEW h \in Halves
  PROVE  /\ Clear(Labels(h), build.barred[h])
         /\ \A l \in Labels(h) : l.source \in Sources /\ l.source = build.from
<1> DEFINE cs == Candidates(build.tier, h)
           Good(l) == /\ l.root \notin build.barred[h] /\ Options[l.root] \cap build.barred[h] = {}
                      /\ l.source \in Sources /\ l.source = build.from
<1>1p. PICK lo \in Nat : \E g : InStep(h, g, lo)
  BY DEF Waves
<1>1. PICK g : InStep(h, g, lo)
  BY <1>1p
<1>2. /\ g \in [0 .. lo -> Buckets] /\ g[0] = Empty
      /\ \A i \in 1 .. lo : /\ g[i] = Placed(Filed(g[i - 1], h, cs[i], Receipt(h, cs[i])), i)
                            /\ Settled(h, cs[i])
      /\ lo <= Len(cs) /\ bucket[h] = Placed(g[lo], bucket[h].next) /\ bucket[h].next \in Nat
  <2>1. bucket[h] \in Buckets
    BY DEF Shapes
  <2>2. bucket[h].next \in Nat
    BY <2>1 DEF Buckets
  <2>3. lo <= bucket[h].next /\ bucket[h].next <= Len(cs) /\ Len(cs) \in Nat
    BY <1>1, CandidatesOnce DEF InStep
  <2>4. lo <= Len(cs)
    <3> DEFINE x == bucket[h].next
               y == Len(cs)
    <3> HIDE DEF x, y
    <3>1. x \in Nat /\ y \in Nat /\ lo <= x /\ x <= y => lo <= y
      OBVIOUS
    <3>2. QED
      BY <2>2, <2>3, <3>1 DEF x, y
  <2>5. QED
    BY <1>1, <2>2, <2>4 DEF InStep, Files
<1>3. Len(cs) \in Nat /\ \A i \in 1 .. Len(cs) : cs[i] \in RootKeys
  BY CandidatesOnce DEF Shapes
<1> HIDE DEF cs
<1> DEFINE T == {i \in 0 .. lo : \A l \in Range(g[i].accepted) : Good(l)}
<1>4. 0 \in T
  <2>1. g[0].accepted = <<>>
    BY <1>2 DEF Empty
  <2>2. Range(<<>>) = {}
    BY DEF Range
  <2>3. QED
    BY <2>1, <2>2
<1>5. ASSUME NEW i \in 1 .. lo, i - 1 \in T
      PROVE  i \in T
  <2> DEFINE k == cs[i]
             r == Receipt(h, k)
             p == g[i - 1]
             l == [root |-> k, source |-> r]
             rows == IF Outcome(h, k, r) = "accepted" THEN <<l>> ELSE <<>>
  <2>1. i - 1 \in 0 .. lo /\ i \in 0 .. lo /\ i \in 1 .. Len(cs) /\ i \in Nat
    BY <1>2, <1>3
  <2>2. p \in Buckets /\ k \in RootKeys /\ r \in Marks /\ Settled(h, k)
    BY <1>2, <1>3, <2>1, ReceiptIs
  <2>3. g[i] = Placed(Filed(p, h, k, r), i)
    BY <1>2
  <2>4. l \in Label
    BY <2>2 DEF Label
  <2> HIDE DEF k, r, p
  <2>5. /\ Filed(p, h, k, r) \in Buckets
        /\ Filed(p, h, k, r).accepted = p.accepted \o rows
    BY <2>2, FiledIs
  <2> HIDE DEF l
  <2>6. rows \in Seq(Label) /\ p.accepted \in Seq(Label)
    BY <2>2, <2>4 DEF Buckets
  <2>7. Range(rows) \subseteq {l} /\ (Outcome(h, k, r) # "accepted" => Range(rows) = {})
    BY DEF Range
  <2>8. g[i].accepted = p.accepted \o rows
    <3>1. Placed(Filed(p, h, k, r), i).accepted = Filed(p, h, k, r).accepted
      BY <2>1, <2>5, PlacedIs
    <3>2. QED
      BY <2>3, <2>5, <3>1, Zenon
  <2>9. ASSUME Outcome(h, k, r) = "accepted"
        PROVE  Good(l)
    <3>1. k \notin build.barred[h] /\ r # Failed /\ Options[k] \cap build.barred[h] = {}
      BY <2>9 DEF Outcome
    <3>2. r # Missing
      BY <2>2, <3>1 DEF Settled, r
    <3>3. r \in Sources
      BY <2>2, <3>1, <3>2 DEF Marks
    <3>4. build.contract \in Contracts /\ r = receipts[build.contract][h][k]
      BY DEF Shapes, r, Receipt
    <3>5. r = build.from
      BY <2>2, <3>3, <3>4 DEF Generated
    <3>6. l.root = k /\ l.source = r
      BY DEF l
    <3>7. QED
      BY <3>1, <3>3, <3>5, <3>6
  <2> HIDE DEF Good, rows
  <2>10. \A e \in Range(p.accepted) : Good(e)
    BY <1>5 DEF p
  <2>11. Range(g[i].accepted) = Range(p.accepted) \cup Range(rows)
    BY <2>6, <2>8, Joined
  <2>12. \A e \in Range(g[i].accepted) : Good(e)
    BY <2>7, <2>9, <2>10, <2>11
  <2>13. QED
    BY <2>1, <2>12
<1>6. lo \in T
  <2>1. \A i \in 0 .. lo : i \in T
    <3> HIDE DEF T
    <3>1. QED
      BY <1>4, <1>5, Places
  <2>2. QED
    BY <2>1
<1>7. bucket[h].accepted = g[lo].accepted
  <2>1. g[lo] \in Buckets
    BY <1>2
  <2>2. Placed(g[lo], bucket[h].next).accepted = g[lo].accepted
    BY <1>2, <2>1, PlacedIs
  <2>3. bucket[h] = Placed(g[lo], bucket[h].next)
    BY <1>2
  <2>4. QED
    BY <2>2, <2>3, Zenon
<1>8. Labels(h) = Range(g[lo].accepted)
  BY <1>7 DEF Labels, ToSet, Range
<1>9. QED
  BY <1>6, <1>8 DEF Clear

-----------------------------------------------------------------------------
(* What a step keeps. *)

\* A receipt that settles its root is not rewritten.
Lasting(h) == \A k \in RootKeys : Settled(h, k) => Settled(h, k)' /\ Receipt(h, k)' = Receipt(h, k)

\* What was filed would be filed again over receipts that last.
LEMMA FilesKept ==
  ASSUME build' = build, build.tier \in Tiers, NEW h \in Halves, NEW g, NEW lo \in Nat,
         Files(h, g, lo), lo <= Len(Candidates(build.tier, h)), Lasting(h)
  PROVE  Files(h, g, lo)'
<1> DEFINE cs == Candidates(build.tier, h)
<1>1. Len(cs) \in Nat /\ \A i \in 1 .. Len(cs) : cs[i] \in RootKeys
  BY CandidatesOnce
<1>2. cs' = cs
  OBVIOUS
<1>3. \A b, k, m : Filed(b, h, k, m)' = Filed(b, h, k, m)
  BY DEF Filed, Outcome
<1>4. /\ g \in [0 .. lo -> Buckets] /\ g[0] = Empty
      /\ \A i \in 1 .. lo : /\ g[i] = Placed(Filed(g[i - 1], h, cs[i], Receipt(h, cs[i])), i)
                            /\ Settled(h, cs[i])
  BY DEF Files
<1> HIDE DEF cs
<1>5. ASSUME NEW i \in 1 .. lo
      PROVE  /\ g[i] = Placed(Filed(g[i - 1], h, cs[i], Receipt(h, cs[i])'), i)
             /\ Settled(h, cs[i])'
  <2>1. i \in 1 .. Len(cs)
    BY <1>1 DEF cs
  <2>2. cs[i] \in RootKeys
    BY <1>1, <2>1
  <2>3. Settled(h, cs[i])' /\ Receipt(h, cs[i])' = Receipt(h, cs[i])
    BY <1>2, <1>4, <2>2 DEF Lasting
  <2>4. QED
    BY <1>4, <2>3
<1>6. /\ g \in [0 .. lo -> Buckets] /\ g[0] = Empty
      /\ \A i \in 1 .. lo : /\ g[i] = Placed(Filed(g[i - 1], h, cs'[i], Receipt(h, cs[i])'), i)
                            /\ Settled(h, cs[i])'
  BY <1>2, <1>4, <1>5
<1>7. QED
  BY <1>2, <1>3, <1>6 DEF Files, cs, Placed

\* The candidates of a half that are labelled or in the pool.
Open(h) == DOMAIN done[h] \cup Entries(h)

\* A half whose bucket stays as it is, whichever open candidate is labelled.
LEMMA InStepKept ==
  ASSUME Shapes, Running, build' = build, NEW h \in Halves, NEW g, NEW lo \in Nat, InStep(h, g, lo),
         bucket'[h] = bucket[h], Lasting(h), Open(h)' = Open(h),
         DOMAIN done'[h] \cap Entries(h)' = {},
         \A i \in DOMAIN done'[h] : LET k == Candidates(build.tier, h)[i] IN
                                    done'[h][i] = Receipt(h, k)' /\ Settled(h, k)'
  PROVE  InStep(h, g, lo)'
<1> DEFINE cs == Candidates(build.tier, h)
           hi == bucket[h].next
           n == Len(cs)
<1>1. lo <= hi /\ hi <= n /\ Files(h, g, lo)
  BY DEF InStep
<1>2. bucket[h] \in Buckets /\ n \in Nat
  BY CandidatesOnce DEF Shapes
<1>3. hi \in Nat
  BY <1>2 DEF Buckets
<1>4. lo <= n
  <2> HIDE DEF hi, n
  <2>1. QED
    BY <1>1, <1>2, <1>3
<1>5. Files(h, g, lo)'
  BY <1>1, <1>4, FilesKept DEF Shapes
<1>6. DOMAIN done'[h] \cup Entries(h)' = lo + 1 .. hi
  BY DEF InStep, Open
<1>7. QED
  BY <1>1, <1>5, <1>6 DEF InStep, Placed

\* A half whose wave is submitted.
LEMMA Launched ==
  ASSUME Running, build.tier \in Tiers, build' = build, receipts' = receipts,
         NEW h \in Halves, NEW g, NEW c \in Buckets, NEW lo \in Nat, NEW hi \in Nat,
         Files(h, g, lo), c = g[lo], c.next = lo,
         lo <= Len(Candidates(build.tier, h)),
         Len(c.accepted) <= Quota(build.tier, h),
         \A j \in 0 .. lo - 1 : Len(g[j].accepted) < Quota(build.tier, h),
         hi = lo + Len(Wave(h, c)),
         bucket'[h] = Placed(c, hi),
         DOMAIN done'[h] = {},
         Entries(h)' = lo + 1 .. hi
  PROVE  InStep(h, g, lo)'
<1> DEFINE n == Len(Candidates(build.tier, h))
           q == Quota(build.tier, h)
           a == Len(c.accepted)
           m == Len(Wave(h, c))
<1>1. /\ m \in Nat /\ lo + m <= n /\ a + m <= q
      /\ lo + m = n \/ a + m = q
  BY WaveIs
<1>2. n \in Nat /\ q \in Nat /\ a \in Nat
  <2>1. c.accepted \in Seq(Label)
    BY DEF Buckets
  <2>2. QED
    BY <2>1, CandidatesOnce, QuotaIs, LenProperties
<1>3. Placed(c, hi).next = hi /\ Placed(c, hi).accepted = c.accepted
  BY PlacedIs
<1>4. bucket'[h].next = hi /\ Len(bucket'[h].accepted) = a /\ bucket'[h] = Placed(g[lo], hi)
  BY <1>3
<1>5. Lasting(h)
  BY DEF Lasting, Settled, Receipt
<1>6. Files(h, g, lo)'
  BY <1>5, FilesKept
<1>7. Candidates(build'.tier, h) = Candidates(build.tier, h) /\ Quota(build'.tier, h) = q
  OBVIOUS
<1>8. /\ lo <= hi /\ hi <= n /\ hi - lo + a <= q
      /\ hi > 0 => hi = n \/ hi - lo + a = q
  <2> HIDE DEF n, a, q
  <2>1. hi = lo + m
    OBVIOUS
  <2> HIDE DEF m
  <2>2. QED
    BY <1>1, <1>2, <2>1
<1>9. \A j \in 0 .. lo - 1 : Len(g[j].accepted) < q
  OBVIOUS
<1> DEFINE b == bucket'[h]
<1>10. /\ lo <= b.next /\ b.next <= n /\ b.next - lo + Len(b.accepted) <= q
       /\ b.next > 0 => b.next = n \/ b.next - lo + Len(b.accepted) = q
       /\ b = Placed(g[lo], b.next)
       /\ Entries(h)' = lo + 1 .. b.next
  <2>1. b.next = hi /\ Len(b.accepted) = a
    BY <1>4
  <2> HIDE DEF n, a, q, b
  <2> DEFINE e == Len(b.accepted)
             f == b.next
  <2>2. e = a /\ f = hi
    BY <2>1
  <2> HIDE DEF e, f
  <2>3. /\ lo <= f /\ f <= n /\ f - lo + e <= q
        /\ f > 0 => f = n \/ f - lo + e = q
    BY <1>2, <1>8, <2>2
  <2>4. b = Placed(g[lo], f) /\ Entries(h)' = lo + 1 .. f
    BY <1>4, <2>2 DEF b
  <2>5. QED
    BY <2>3, <2>4 DEF e, f
<1> HIDE DEF m, a, n, q
<1>11. QED
  BY <1>6, <1>7, <1>9, <1>10 DEF InStep, n, q, Placed

\* Without a build there is no wave.
LEMMA WavesIdle ==
  ASSUME ~ Running', pool' = <<>>
  PROVE  Waves'
BY DEF Waves, Distinct

\* A step that touches no bucket, receipt or root in the pool keeps the waves.
LEMMA WavesKept ==
  ASSUME Shapes, Waves, UNCHANGED <<receipts, build, bucket, pool, done>>
  PROVE  Waves'
<1>1. Distinct(pool)'
  BY DEF Waves, Distinct
<1>2. ASSUME Running, NEW h \in Halves
      PROVE  \E lo \in Nat : \E g : InStep(h, g, lo)'
  <2>1p. PICK lo \in Nat : \E g : InStep(h, g, lo)
    BY <1>2 DEF Waves
  <2>1. PICK g : InStep(h, g, lo)
    BY <2>1p
  <2>2. Lasting(h) /\ Open(h)' = Open(h) /\ Entries(h)' = Entries(h)
    BY DEF Lasting, Settled, Receipt, Open, Entries
  <2>3. \A i \in DOMAIN done'[h] : LET k == Candidates(build.tier, h)[i] IN
                                   done'[h][i] = Receipt(h, k)' /\ Settled(h, k)'
    BY <2>1 DEF InStep, Settled, Receipt
  <2>4. DOMAIN done'[h] \cap Entries(h)' = {}
    BY <2>1, <2>2 DEF InStep
  <2>5. InStep(h, g, lo)'
    BY <1>2, <2>1, <2>2, <2>3, <2>4, InStepKept
  <2>6. QED
    BY <2>5
<1>3. Running' = Running
  BY DEF Running
<1>4. QED
  BY <1>1, <1>2, <1>3 DEF Waves

-----------------------------------------------------------------------------
(* The steps. *)

\* There are two halves and two tiers.
LEMMA OtherIs ==
  /\ Other("train", Halves) = "holdout" /\ Other("holdout", Halves) = "train"
  /\ \A h \in Halves : Other(h, Halves) \in Halves /\ Other(h, Halves) # h
  /\ \A t \in Tiers : Other(t, Tiers) \in Tiers /\ Other(t, Tiers) # t
<1>1. "train" \in Halves /\ "holdout" \in Halves /\ "quiet" \in Tiers /\ "tactical" \in Tiers
  BY DEF Halves, Tiers
<1>2. ASSUME NEW S, NEW x \in S, NEW y \in S, y # x
      PROVE  Other(x, S) \in S /\ Other(x, S) # x
  BY <1>2 DEF Other
<1>3. QED
  BY <1>1, <1>2 DEF Halves, Tiers

\* Nothing is labelled yet.
LEMMA InitHolds == ASSUME LabelsInit PROVE LabelsInv
<1> USE DEF LabelsInit
<1>1. ~ Running /\ version \in Sources
  BY LabelsAssumption DEF Running, Sources
<1>2. Missing \in Marks /\ Missing \notin Sources
  BY LabelsAssumption DEF Marks, Sources
<1>3. \A h \in Halves : bucket[h] = Empty /\ done[h] = <<>> /\ DOMAIN done[h] = {}
  OBVIOUS
<1>4. bucket \in [Halves -> Buckets]
  BY EmptyBucket
<1>5. receipts \in [Contracts -> [Halves -> [RootKeys -> Marks]]]
  BY <1>2 DEF NoReceipts
<1>6. \A t \in Tiers : artifact[t] = Missing
  OBVIOUS
<1>7. done = [h \in Halves |-> done[h]] /\ \A h \in Halves : done[h] \in [DOMAIN done[h] -> Marks]
  BY <1>3
<1>8. Shapes
  BY <1>1, <1>3, <1>4, <1>5, <1>6, <1>7 DEF Shapes
<1>9. \A c \in Contracts, h \in Halves, k \in RootKeys : receipts[c][h][k] = Missing
  BY DEF NoReceipts
<1>10. Cleared /\ Waves /\ Generated /\ Apartness /\ OwnLabels
  BY <1>1, <1>2, <1>3, <1>6, <1>9
     DEF Cleared, Waves, Distinct, Generated, Apartness, OwnLabels
<1>11. QED
  BY <1>8, <1>10 DEF LabelsInv

\* A build starts with empty buckets, barred from what the other tier reaches.
LEMMA StartKeeps ==
  ASSUME LabelsInv, NEW t \in Tiers, StartBuild(t)
  PROVE  LabelsInv'
<1> USE DEF LabelsInv
<1>1. ~ Running /\ pool = <<>> /\ \A h \in Halves : DOMAIN done[h] = {}
  BY DEF StartBuild, Cleared, Running
<1> DEFINE other == artifact[Other(t, Tiers)]
           barred(across) == IF across THEN Barred(other) ELSE [h \in Halves |-> {}]
<1>2. PICK from \in Generators, across \in BOOLEAN, prior \in BOOLEAN :
        /\ across => other # Missing /\ other.complete /\ ~ Leaks(other)
        /\ prior => artifact[t] # Missing /\ Compatible(CacheContract(t, from, prior), t, from)
        /\ Reusable(CacheContract(t, from, prior), barred(across))
        /\ build' = [tier |-> t, from |-> from, contract |-> CacheContract(t, from, prior),
                     barred |-> barred(across), prior |-> prior,
                     across |-> IF across THEN {other.labels} ELSE {}]
  BY DEF StartBuild
<1>3. /\ bucket' = [h \in Halves |-> Empty]
      /\ UNCHANGED <<version, receipts, pool, done, artifact>>
  BY DEF StartBuild
<1> DEFINE c == CacheContract(t, from, prior)
<1>4. c \in Contracts /\ c.from = from
  <2>1. CASE prior
    BY <1>2, <2>1 DEF CacheContract, Compatible, Shapes
  <2>2. CASE ~ prior
    <3>1. c = [tier |-> t, source |-> version, from |-> from]
      BY <2>2 DEF CacheContract
    <3>2. QED
      BY <3>1 DEF Shapes, Contracts
  <2>3. QED
    BY <2>1, <2>2
<1> HIDE DEF c, barred, other
<1>5. /\ build'.tier = t /\ build'.contract = c /\ build'.barred = barred(across)
      /\ build'.from = from
      /\ build'.across = IF across THEN {other.labels} ELSE {}
  BY <1>2 DEF c
<1>6. Shapes'
  <2>1. bucket' \in [Halves -> Buckets]
    BY <1>3, EmptyBucket
  <2>2. QED
    BY <1>3, <1>4, <1>5, <2>1 DEF Shapes
<1>7. Cleared'
  BY <1>1, <1>3 DEF Cleared
<1>8. Waves'
  <2>1. Distinct(pool)'
    BY <1>1, <1>3 DEF Distinct
  <2>2. ASSUME NEW h \in Halves
        PROVE  InStep(h, [j \in 0 .. 0 |-> Empty], 0)'
    <3> DEFINE g == [j \in 0 .. 0 |-> Empty]
               cs == Candidates(t, h)
               q == Quota(t, h)
    <3>1. g \in [0 .. 0 -> Buckets] /\ g[0] = Empty /\ 1 .. 0 = {}
      BY EmptyBucket
    <3> HIDE DEF g
    <3>2. Files(h, g, 0)'
      BY <3>1 DEF Files
    <3>3. bucket'[h] = Empty /\ bucket'[h].next = 0 /\ Len(bucket'[h].accepted) = 0
      BY <1>3, EmptyBucket
    <3>4. Placed(Empty, 0) = Empty
      BY EmptyBucket, PlacedIs
    <3>5. DOMAIN done'[h] = {} /\ Entries(h)' = {}
      BY <1>1, <1>3 DEF Entries, Range
    <3>6. Len(cs) \in Nat /\ q \in Nat
      BY CandidatesOnce, QuotaIs
    <3>7. 0 .. 0 - 1 = {} /\ 0 + 1 .. 0 = {} /\ 0 <= 0
      OBVIOUS
    <3>8. 0 <= Len(cs) /\ 0 - 0 + 0 <= q
      <4> DEFINE n == Len(cs)
      <4> HIDE DEF n, q
      <4>1. n \in Nat /\ q \in Nat => 0 <= n /\ 0 - 0 + 0 <= q
        OBVIOUS
      <4>2. QED
        BY <3>6, <4>1 DEF n, q
    <3>9. InStep(h, g, 0)'
      BY <1>5, <3>1, <3>2, <3>3, <3>4, <3>5, <3>7, <3>8 DEF InStep, Placed
    <3>10. QED
      BY <3>9 DEF g
  <2>3. QED
    BY <2>1, <2>2 DEF Waves
<1>9. Generated'
  BY <1>3, <1>4, <1>5 DEF Generated
<1>10. Apartness'
  <2>1. ASSUME NEW x \in build'.across
        PROVE  Across(x, build'.barred)
    <3>1. across /\ x = other.labels /\ build'.barred = Barred(other) /\ ~ Leaks(other)
      BY <1>2, <1>5, <2>1 DEF barred
    <3>2. ~ Leaks([labels |-> x])
      BY <3>1 DEF Leaks, Reached
    <3>3. \A h \in Halves : Barred(other)[h] = States({l.root : l \in x[Other(h, Halves)]})
      BY <3>1, OtherIs DEF Barred, Reached
    <3>4. QED
      BY <3>1, <3>2, <3>3 DEF Across
  <2>2. QED
    BY <1>3, <2>1 DEF Apartness
<1>11. OwnLabels'
  BY <1>3 DEF OwnLabels
<1>12. QED
  BY <1>6, <1>7, <1>8, <1>9, <1>10, <1>11

\* The places of a wave are those of the candidates that follow.
LEMMA WaveRange ==
  ASSUME Running, build.tier \in Tiers, NEW h \in Halves, NEW b \in Buckets,
         b.next <= Len(Candidates(build.tier, h)), Len(b.accepted) <= Quota(build.tier, h)
  PROVE  LET w == Wave(h, b) IN
         /\ w \in Seq(Halves \X Nat) /\ Distinct(w)
         /\ Range(w) = {<<h, b.next + i>> : i \in 1 .. Len(w)}
<1> DEFINE w == Wave(h, b)
           m == Len(w)
           lo == b.next
<1>1. /\ w \in Seq(Halves \X Nat) /\ m \in Nat /\ lo \in Nat
      /\ \A i \in 1 .. m : w[i] = <<h, lo + i>>
  BY WaveIs DEF Buckets
<1>2. DOMAIN w = 1 .. m
  BY <1>1, LenProperties
<1> HIDE DEF w, m, lo
<1>3. Range(w) = {<<h, lo + i>> : i \in 1 .. m}
  BY <1>1, <1>2 DEF Range
<1>4. Distinct(w)
  <2> SUFFICES ASSUME NEW i \in 1 .. m, NEW j \in 1 .. m, w[i] = w[j]
               PROVE  i = j
    BY <1>2 DEF Distinct
  <2>1. lo + i = lo + j
    BY <1>1
  <2>2. QED
    BY <1>1, <2>1
<1>5. QED
  BY <1>1, <1>3, <1>4 DEF w, m, lo

\* The first wave of each half asks for its quota.
LEMMA SubmitKeeps ==
  ASSUME LabelsInv, Submit
  PROVE  LabelsInv'
<1> USE DEF LabelsInv
<1>1. /\ Running /\ pool = <<>>
      /\ \A h \in Halves : bucket[h] = Empty /\ DOMAIN done[h] = {}
      /\ pool' = Wave("holdout", Empty) \o Wave("train", Empty)
      /\ bucket' = [h \in Halves |-> Placed(Empty, Len(Wave(h, Empty)))]
      /\ UNCHANGED <<version, receipts, build, done, artifact>>
  BY DEF Submit, Running, Placed
<1>2. build.tier \in Tiers
  BY <1>1 DEF Shapes
<1>3. ASSUME NEW h \in Halves
      PROVE  /\ Empty.next <= Len(Candidates(build.tier, h))
             /\ Len(Empty.accepted) <= Quota(build.tier, h)
  <2> DEFINE n == Len(Candidates(build.tier, h))
             q == Quota(build.tier, h)
  <2>1. n \in Nat /\ q \in Nat
    BY <1>2, CandidatesOnce, QuotaIs
  <2> HIDE DEF n, q
  <2>2. 0 <= n /\ 0 <= q
    BY <2>1
  <2>3. QED
    BY <2>2, EmptyBucket DEF n, q
<1>4. ASSUME NEW h \in Halves
      PROVE  /\ Wave(h, Empty) \in Seq(Halves \X Nat) /\ Distinct(Wave(h, Empty))
             /\ Range(Wave(h, Empty)) = {<<h, Empty.next + i>> : i \in 1 .. Len(Wave(h, Empty))}
             /\ Len(Wave(h, Empty)) \in Nat
  BY <1>1, <1>2, <1>3, EmptyBucket, WaveRange, LenProperties
<1> DEFINE w == Wave("holdout", Empty)
           v == Wave("train", Empty)
<1>5. "holdout" \in Halves /\ "train" \in Halves /\ Halves = {"holdout", "train"} /\ "holdout" # "train"
  BY DEF Halves
<1>6. Range(w) \cap Range(v) = {}
  BY <1>4, <1>5
<1>7. pool' \in Seq(Halves \X Nat) /\ Distinct(pool)' /\ Range(pool') = Range(w) \cup Range(v)
  <2>1. w \in Seq(Halves \X Nat) /\ v \in Seq(Halves \X Nat) /\ Distinct(w) /\ Distinct(v)
    BY <1>4, <1>5
  <2> HIDE DEF w, v
  <2>2. /\ w \o v \in Seq(Halves \X Nat) /\ Distinct(w \o v)
        /\ Range(w \o v) = Range(w) \cup Range(v)
    BY <1>6, <2>1, Joined
  <2>3. pool' = w \o v
    BY <1>1 DEF w, v
  <2>4. QED
    BY <2>2, <2>3 DEF Distinct
<1>8. Shapes'
  <2>1. bucket' \in [Halves -> Buckets]
    BY <1>1, <1>4, EmptyBucket, PlacedIs
  <2>2. QED
    BY <1>1, <1>7, <2>1 DEF Shapes
<1>9. ASSUME NEW h \in Halves
      PROVE  InStep(h, [j \in 0 .. 0 |-> Empty], 0)'
  <2> DEFINE g == [j \in 0 .. 0 |-> Empty]
             m == Len(Wave(h, Empty))
  <2>1. g \in [0 .. 0 -> Buckets] /\ g[0] = Empty /\ 1 .. 0 = {} /\ 0 .. 0 - 1 = {}
    BY EmptyBucket
  <2> HIDE DEF g
  <2>2. Files(h, g, 0)
    BY <2>1 DEF Files
  <2>3. Empty \in Buckets /\ Empty.next = 0
    BY EmptyBucket
  <2>4. /\ m \in Nat /\ bucket'[h] = Placed(Empty, m)
        /\ Range(Wave(h, Empty)) = {<<h, Empty.next + i>> : i \in 1 .. m}
    BY <1>1, <1>4
  <2> HIDE DEF m
  <2>5. DOMAIN done'[h] = {}
    BY <1>1
  <2>6. Entries(h)' = 0 + 1 .. m
    <3>1. \A i \in Nat : <<h, i>> \in Range(pool') <=> <<h, i>> \in Range(Wave(h, Empty))
      BY <1>4, <1>5, <1>7
    <3>2. \A i \in Nat : <<h, i>> \in Range(Wave(h, Empty)) <=> i \in 0 + 1 .. m
      BY <2>3, <2>4
    <3>3. 0 + 1 .. m \subseteq Nat
      BY <2>4
    <3>4. Entries(h)' = {i \in Nat : <<h, i>> \in Range(pool')}
      BY DEF Entries
    <3>5. QED
      BY <3>1, <3>2, <3>3, <3>4
  <2>7. Files(h, g, 0) /\ Empty = g[0] /\ 0 \in Nat
        /\ \A j \in 0 .. 0 - 1 : Len(g[j].accepted) < Quota(build.tier, h)
    BY <2>1, <2>2
  <2>8. InStep(h, g, 0)'
    <3>1. m = 0 + Len(Wave(h, Empty))
      BY <2>4 DEF m
    <3>2. QED
      BY <1>1, <1>2, <1>3, <2>3, <2>4, <2>5, <2>6, <2>7, <3>1, Launched
  <2>9. QED
    BY <2>8 DEF g
<1>10. Waves'
  <2>1. 0 \in Nat
    OBVIOUS
  <2>2. QED
    BY <1>7, <1>9, <2>1 DEF Waves
<1>11. Cleared' /\ Generated' /\ Apartness' /\ OwnLabels'
  BY <1>1 DEF Cleared, Generated, Apartness, OwnLabels, Running
<1>12. QED
  BY <1>8, <1>10, <1>11

\* A wave is committed whole and the next asks for what is still missing.
LEMMA CollectKeeps ==
  ASSUME LabelsInv, NEW h \in Halves, Collect(h)
  PROVE  LabelsInv'
<1> USE DEF LabelsInv
<1> DEFINE c == Committed(h)
           w == Wave(h, c)
           m == Len(w)
<1>1. /\ Running /\ ~ Pending(h) /\ DOMAIN done[h] # {}
      /\ bucket' = [bucket EXCEPT ![h] = Placed(c, c.next + m)]
      /\ pool' = pool \o w
      /\ done' = [done EXCEPT ![h] = <<>>]
      /\ UNCHANGED <<version, receipts, build, artifact>>
  BY DEF Collect, Running, Placed
<1>2. build.tier \in Tiers /\ pool \in Seq(Halves \X Nat) /\ Distinct(pool)
  BY <1>1 DEF Shapes, Waves
<1>3. Entries(h) = {} /\ \A i \in Nat : <<h, i>> \notin Range(pool)
  BY <1>1 DEF Entries, Pending, Range
<1>4p. PICK lo \in Nat : \E g : InStep(h, g, lo)
  BY <1>1 DEF Waves
<1>4. PICK g : InStep(h, g, lo)
  BY <1>4p
<1>5. /\ c \in Buckets /\ c.next = bucket[h].next /\ bucket[h].next \in Nat
      /\ bucket[h].next <= Len(Candidates(build.tier, h)) /\ Len(c.accepted) <= Quota(build.tier, h)
      /\ \E e : /\ Files(h, e, bucket[h].next) /\ c = e[bucket[h].next]
                /\ \A j \in 0 .. bucket[h].next - 1 : Len(e[j].accepted) < Quota(build.tier, h)
  BY <1>1, <1>3, <1>4, FilingGoesOn
<1>5a. PICK hi \in Nat : hi = bucket[h].next
  BY <1>5
<1>6. PICK e : /\ Files(h, e, hi) /\ c = e[hi]
               /\ \A j \in 0 .. hi - 1 : Len(e[j].accepted) < Quota(build.tier, h)
  BY <1>5, <1>5a
<1> HIDE DEF c
<1>7. /\ w \in Seq(Halves \X Nat) /\ Distinct(w) /\ m \in Nat
      /\ Range(w) = {<<h, c.next + i>> : i \in 1 .. m}
  BY <1>1, <1>2, <1>5, WaveRange, LenProperties
<1> HIDE DEF w, m
<1>7a. PICK to \in Nat : to = hi + m
  BY <1>7
<1>8. c.next = hi /\ c \in Buckets
  BY <1>5, <1>5a
<1>9. pool' \in Seq(Halves \X Nat) /\ Distinct(pool)' /\ Range(pool') = Range(pool) \cup Range(w)
  <2>1. Range(pool) \cap Range(w) = {}
    BY <1>3, <1>7, <1>8
  <2>2. pool' \in Seq(Halves \X Nat) /\ Distinct(pool \o w) /\ Range(pool') = Range(pool) \cup Range(w)
    BY <1>1, <1>2, <1>7, <2>1, Joined
  <2>3. QED
    BY <1>1, <2>2 DEF Distinct
<1>10. bucket'[h] = Placed(c, to) /\ \A x \in Halves : x # h => bucket'[x] = bucket[x]
  BY <1>1, <1>7a, <1>8 DEF Shapes
<1>11. /\ done' = [x \in Halves |-> done'[x]] /\ DOMAIN done'[h] = {} /\ done'[h] \in [DOMAIN done'[h] -> Marks]
       /\ \A x \in Halves : x # h => done'[x] = done[x]
  <2>1. done = [x \in Halves |-> done[x]]
    BY DEF Shapes
  <2>2. done'[h] = <<>> /\ (\A x \in Halves : x # h => done'[x] = done[x]) /\ done' = [x \in Halves |-> done'[x]]
    BY <1>1, <2>1
  <2>3. <<>> \in [DOMAIN <<>> -> Marks] /\ DOMAIN <<>> = {}
    OBVIOUS
  <2>4. QED
    BY <2>2, <2>3
<1>12. Shapes'
  <2>1. Placed(c, to) \in Buckets
    BY <1>8, PlacedIs
  <2>2. bucket' \in [Halves -> Buckets]
    BY <1>1, <1>7a, <1>8, <2>1 DEF Shapes
  <2>3. \A x \in Halves : done'[x] \in [DOMAIN done'[x] -> Marks] /\ DOMAIN done'[x] \subseteq Nat
    BY <1>11 DEF Shapes
  <2>4. QED
    BY <1>1, <1>9, <1>11, <2>2, <2>3 DEF Shapes
<1>13. InStep(h, e, hi)'
  <2>1. Entries(h)' = hi + 1 .. to
    <3>1. \A i \in Nat : <<h, i>> \in Range(w) <=> i \in hi + 1 .. to
      <4> SUFFICES ASSUME NEW i \in Nat
                   PROVE  <<h, i>> \in Range(w) <=> i \in hi + 1 .. to
        OBVIOUS
      <4>1. <<h, i>> \in Range(w) <=> \E j \in 1 .. m : i = hi + j
        BY <1>7, <1>8
      <4>2. i \in hi + 1 .. to => i - hi \in 1 .. m /\ i = hi + (i - hi)
        BY <1>7, <1>7a
      <4>3. \A j \in 1 .. m : hi + j \in hi + 1 .. to
        BY <1>7, <1>7a
      <4>4. QED
        BY <4>1, <4>2, <4>3
    <3>2. \A i \in Nat : <<h, i>> \in Range(pool') <=> i \in hi + 1 .. to
      BY <1>3, <1>9, <3>1
    <3>3. Entries(h)' = {i \in Nat : <<h, i>> \in Range(pool')}
      BY DEF Entries
    <3>4. hi + 1 .. to \subseteq Nat
      OBVIOUS
    <3>5. QED
      BY <3>2, <3>3, <3>4
  <2>2. to = hi + Len(Wave(h, c)) /\ bucket'[h] = Placed(c, to) /\ DOMAIN done'[h] = {}
    BY <1>7a, <1>10, <1>11 DEF w, m
  <2>3. /\ c \in Buckets /\ Files(h, e, hi) /\ c = e[hi] /\ c.next = hi
        /\ hi <= Len(Candidates(build.tier, h)) /\ Len(c.accepted) <= Quota(build.tier, h)
        /\ \A j \in 0 .. hi - 1 : Len(e[j].accepted) < Quota(build.tier, h)
    BY <1>5, <1>5a, <1>6, <1>8
  <2>4. Running /\ build.tier \in Tiers /\ build' = build /\ receipts' = receipts
    BY <1>1, <1>2
  <2>5. QED
    BY <2>1, <2>2, <2>3, <2>4, Launched
<1>14. ASSUME NEW x \in Halves, x # h
       PROVE  \E l \in Nat : \E f : InStep(x, f, l)'
  <2>1p. PICK l \in Nat : \E f : InStep(x, f, l)
    BY <1>1 DEF Waves
  <2>1. PICK f : InStep(x, f, l)
    BY <2>1p
  <2>2. Entries(x)' = Entries(x)
    <3>1. \A i \in Nat : <<x, i>> \in Range(pool') <=> <<x, i>> \in Range(pool)
      BY <1>7, <1>9, <1>14
    <3>2. QED
      BY <3>1 DEF Entries
  <2>3. bucket'[x] = bucket[x] /\ done'[x] = done[x]
    BY <1>10, <1>11, <1>14
  <2>4. Lasting(x) /\ Open(x)' = Open(x) /\ DOMAIN done'[x] \cap Entries(x)' = {}
    BY <1>1, <2>1, <2>2, <2>3 DEF Lasting, Settled, Receipt, Open, InStep
  <2>5. \A i \in DOMAIN done'[x] : LET k == Candidates(build.tier, x)[i] IN
                                   done'[x][i] = Receipt(x, k)' /\ Settled(x, k)'
    BY <1>1, <2>1, <2>3 DEF InStep, Settled, Receipt
  <2>6. InStep(x, f, l)'
    BY <1>1, <2>1, <2>3, <2>4, <2>5, InStepKept
  <2>7. QED
    BY <2>6
<1>15. Waves'
  <2>1. ASSUME NEW x \in Halves
        PROVE  \E l \in Nat : \E f : InStep(x, f, l)'
    <3>1. CASE x = h
      BY <1>8, <1>13, <3>1
    <3>2. CASE x # h
      BY <1>14, <3>2
    <3>3. QED
      BY <3>1, <3>2
  <2>2. QED
    BY <1>9, <2>1 DEF Waves
<1>16. Cleared' /\ Generated' /\ Apartness' /\ OwnLabels'
  BY <1>1 DEF Cleared, Generated, Apartness, OwnLabels, Running
<1>17. QED
  BY <1>12, <1>15, <1>16

\* A worker settles a root that nothing had settled, in whatever order.
LEMMA LabelKeeps ==
  ASSUME LabelsInv, NEW n \in DOMAIN pool, LabelRoot(n)
  PROVE  LabelsInv'
<1> USE DEF LabelsInv
<1>1. pool \in Seq(Halves \X Nat) /\ Distinct(pool) /\ Running
  BY DEF Shapes, Waves, LabelRoot, Running
<1>2. pool[n] \in Halves \X Nat
  BY <1>1, ElementOfSeq, LenProperties
<1>3. PICK h \in Halves, i \in Nat : pool[n] = <<h, i>>
  BY <1>2
<1>4. pool[n][1] = h /\ pool[n][2] = i
  BY <1>3
<1> DEFINE cs == Candidates(build.tier, h)
<1>5. PICK k : k = cs[i]
  OBVIOUS
<1>6. i \in Entries(h)
  BY <1>3 DEF Entries, Range
<1>7. i \notin DOMAIN done[h] /\ i \in 1 .. Len(cs) /\ k \in RootKeys
  <2>1p. PICK lo \in Nat : \E g : InStep(h, g, lo)
    BY <1>1 DEF Waves
  <2>1. PICK g : InStep(h, g, lo)
    BY <2>1p
  <2> DEFINE hi == bucket[h].next
             m == Len(cs)
  <2>2. hi \in Nat /\ m \in Nat
    <3>1. bucket[h] \in Buckets
      BY DEF Shapes
    <3>2. QED
      BY <3>1, CandidatesOnce DEF Buckets
  <2>3. i \in lo + 1 .. hi /\ hi <= m /\ i \notin DOMAIN done[h]
    BY <1>6, <2>1 DEF InStep
  <2> HIDE DEF hi, m
  <2>4. i \in 1 .. m
    BY <2>2, <2>3
  <2>5. QED
    BY <1>1, <1>5, <2>3, <2>4, CandidatesOnce DEF m, Shapes
<1> DEFINE fresh == k \notin build.barred[h] /\ Receipt(h, k) = Missing
<1>8. PICK mark \in IF fresh THEN Searches ELSE {Receipt(h, k)} :
        /\ receipts' = Written(h, k, mark)
        /\ done' = [done EXCEPT ![h] = [j \in DOMAIN done[h] \cup {i} |-> IF j = i THEN mark ELSE done[h][j]]]
  BY <1>4, <1>5 DEF LabelRoot
<1>9. pool' = RemoveAt(pool, n) /\ UNCHANGED <<version, build, bucket, artifact>>
  BY DEF LabelRoot
<1>10. version \in Sources /\ build.contract \in Contracts /\ Receipt(h, k) \in Marks
  BY <1>1, <1>7, ReceiptIs DEF Shapes
<1>11. mark \in Marks /\ (fresh => mark \in {build.from, Failed} /\ mark # Missing)
  BY <1>8, <1>10, LabelsAssumption DEF Searches, Recoverable, Marks, Sources, Failed
<1>12. ~ fresh => mark = Receipt(h, k)
  BY <1>8
<1>13. /\ receipts' \in [Contracts -> [Halves -> [RootKeys -> Marks]]]
       /\ receipts'[build.contract][h][k] = mark
       /\ \A c \in Contracts, x \in Halves, y \in RootKeys :
            c # build.contract \/ x # h \/ y # k => receipts'[c][x][y] = receipts[c][x][y]
  <2>1. receipts \in [Contracts -> [Halves -> [RootKeys -> Marks]]]
    BY DEF Shapes
  <2>2. receipts' = [receipts EXCEPT ![build.contract] =
                       [receipts[build.contract] EXCEPT ![h] =
                         [receipts[build.contract][h] EXCEPT ![k] = mark]]]
    BY <1>8 DEF Written
  <2> DEFINE r == receipts[build.contract]
             s == receipts[build.contract][h]
             s1 == [s EXCEPT ![k] = mark]
             r1 == [r EXCEPT ![h] = s1]
  <2>3. r \in [Halves -> [RootKeys -> Marks]] /\ s \in [RootKeys -> Marks]
    BY <1>10, <2>1
  <2> HIDE DEF s
  <2>4. /\ s1 \in [RootKeys -> Marks] /\ s1[k] = mark
        /\ \A y \in RootKeys : y # k => s1[y] = s[y]
    BY <1>7, <1>11, <2>3
  <2>5. r[h] = s
    BY DEF s
  <2> HIDE DEF r, s1
  <2>6. r1 \in [Halves -> [RootKeys -> Marks]] /\ r1[h] = s1 /\ \A x \in Halves : x # h => r1[x] = r[x]
    BY <2>3, <2>4
  <2>7. receipts' = [receipts EXCEPT ![build.contract] = r1]
    BY <2>2 DEF r1, r, s1, s
  <2> HIDE DEF r1
  <2>8. /\ receipts' \in [Contracts -> [Halves -> [RootKeys -> Marks]]]
        /\ receipts'[build.contract] = r1
        /\ \A c \in Contracts : c # build.contract => receipts'[c] = receipts[c]
    BY <1>10, <2>1, <2>6, <2>7
  <2>9. receipts[build.contract] = r
    BY DEF r
  <2>10. QED
    BY <2>4, <2>5, <2>6, <2>8, <2>9
<1>14. /\ \A x \in Halves, y \in RootKeys : x # h \/ y # k => Receipt(x, y)' = Receipt(x, y)
       /\ Receipt(h, k)' = mark
  BY <1>9, <1>10, <1>13 DEF Receipt
<1>15. Settled(h, k)'
  BY <1>9, <1>11, <1>12, <1>14 DEF Settled
<1>16. \A x \in Halves : Lasting(x)
  <2> SUFFICES ASSUME NEW x \in Halves, NEW y \in RootKeys, Settled(x, y)
               PROVE  Settled(x, y)' /\ Receipt(x, y)' = Receipt(x, y)
    BY DEF Lasting
  <2>1. CASE x = h /\ y = k
    <3>1. ~ fresh
      BY <2>1 DEF Settled
    <3>2. QED
      BY <1>12, <1>14, <1>15, <2>1, <3>1
  <2>2. CASE x # h \/ y # k
    <3>1. Receipt(x, y)' = Receipt(x, y)
      BY <1>14, <2>2
    <3>2. QED
      BY <1>9, <3>1 DEF Settled
  <2>3. QED
    BY <2>1, <2>2
<1>17. pool' \in Seq(Halves \X Nat) /\ Distinct(pool)' /\ Range(pool') = Range(pool) \ {<<h, i>>}
  <2>1. LET r == RemoveAt(pool, n) IN
        r \in Seq(Halves \X Nat) /\ Distinct(r) /\ Range(r) = Range(pool) \ {pool[n]}
    BY <1>1, Removed
  <2>2. QED
    BY <1>3, <1>9, <2>1 DEF Distinct
<1>18. Entries(h)' = Entries(h) \ {i} /\ \A x \in Halves : x # h => Entries(x)' = Entries(x)
  <2>1. \A x \in Halves, j \in Nat :
          <<x, j>> \in Range(pool') <=> <<x, j>> \in Range(pool) /\ (x # h \/ j # i)
    BY <1>17
  <2>2. QED
    BY <2>1 DEF Entries
<1>19. /\ done' = [x \in Halves |-> done'[x]]
       /\ done'[h] = [j \in DOMAIN done[h] \cup {i} |-> IF j = i THEN mark ELSE done[h][j]]
       /\ \A x \in Halves : x # h => done'[x] = done[x]
  <2>1. done = [x \in Halves |-> done[x]]
    BY DEF Shapes
  <2>2. QED
    BY <1>8, <2>1
<1>20. /\ DOMAIN done'[h] = DOMAIN done[h] \cup {i} /\ done'[h][i] = mark
       /\ \A j \in DOMAIN done[h] : j # i => done'[h][j] = done[h][j]
  BY <1>19
<1>21. Shapes'
  <2>1. done[h] \in [DOMAIN done[h] -> Marks] /\ DOMAIN done[h] \subseteq Nat
    BY DEF Shapes
  <2>2. done'[h] \in [DOMAIN done'[h] -> Marks] /\ DOMAIN done'[h] \subseteq Nat
    BY <1>11, <1>19, <2>1
  <2>3. \A x \in Halves : done'[x] \in [DOMAIN done'[x] -> Marks] /\ DOMAIN done'[x] \subseteq Nat
    BY <1>19, <2>2 DEF Shapes
  <2>4. QED
    BY <1>9, <1>13, <1>17, <1>19, <2>3 DEF Shapes, Running
<1>22. ASSUME NEW x \in Halves
       PROVE  \E lo \in Nat : \E g : InStep(x, g, lo)'
  <2>1p. PICK lo \in Nat : \E g : InStep(x, g, lo)
    BY <1>1 DEF Waves
  <2>1. PICK g : InStep(x, g, lo)
    BY <2>1p
  <2>2. /\ DOMAIN done[x] \cap Entries(x) = {}
        /\ \A j \in DOMAIN done[x] : LET y == Candidates(build.tier, x)[j] IN
             done[x][j] = Receipt(x, y) /\ Settled(x, y) /\ y \in RootKeys
    <3>1. DOMAIN done[x] \subseteq 1 .. Len(Candidates(build.tier, x))
      <4> DEFINE hi == bucket[x].next
                 m == Len(Candidates(build.tier, x))
      <4>1. hi \in Nat /\ m \in Nat
        <5>1. bucket[x] \in Buckets
          BY DEF Shapes
        <5>2. QED
          BY <5>1, CandidatesOnce DEF Buckets
      <4>2. DOMAIN done[x] \subseteq lo + 1 .. hi /\ hi <= m
        BY <2>1 DEF InStep
      <4> HIDE DEF hi, m
      <4>3. lo + 1 .. hi \subseteq 1 .. m
        BY <4>1, <4>2
      <4>4. QED
        BY <4>2, <4>3 DEF m
    <3>2. QED
      BY <1>1, <2>1, <3>1, CandidatesOnce DEF InStep, Shapes
  <2>3. Open(x)' = Open(x) /\ DOMAIN done'[x] \cap Entries(x)' = {}
    BY <1>6, <1>18, <1>19, <1>20, <2>2 DEF Open
  <2>4. \A j \in DOMAIN done'[x] : LET y == Candidates(build.tier, x)[j] IN
          done'[x][j] = Receipt(x, y)' /\ Settled(x, y)'
    <3> SUFFICES ASSUME NEW j \in DOMAIN done'[x]
                 PROVE  LET y == Candidates(build.tier, x)[j] IN
                        done'[x][j] = Receipt(x, y)' /\ Settled(x, y)'
      OBVIOUS
    <3>1. PICK y : y = Candidates(build.tier, x)[j]
      OBVIOUS
    <3>2. CASE x = h /\ j = i
      BY <1>5, <1>9, <1>14, <1>15, <1>20, <3>1, <3>2
    <3>3. CASE ~ (x = h /\ j = i)
      <4>1. j \in DOMAIN done[x] /\ done'[x][j] = done[x][j]
        BY <1>19, <1>20, <3>3
      <4>2. done[x][j] = Receipt(x, y) /\ Settled(x, y) /\ y \in RootKeys
        BY <2>2, <3>1, <4>1
      <4>3. Receipt(x, y)' = Receipt(x, y) /\ Settled(x, y)'
        BY <1>16, <4>2 DEF Lasting
      <4>4. QED
        BY <1>9, <3>1, <4>1, <4>2, <4>3
    <3>4. QED
      BY <3>2, <3>3
  <2>5. InStep(x, g, lo)'
    BY <1>1, <1>9, <1>16, <2>1, <2>3, <2>4, InStepKept
  <2>6. QED
    BY <2>5
<1>23. Waves'
  BY <1>17, <1>22 DEF Waves
<1>24. Generated'
  <2>1. ASSUME NEW c \in Contracts, NEW x \in Halves, NEW y \in RootKeys, receipts'[c][x][y] \in Sources
        PROVE  receipts'[c][x][y] = c.from
    <3>1. CASE c # build.contract \/ x # h \/ y # k
      BY <1>13, <2>1, <3>1 DEF Generated
    <3>2. CASE c = build.contract /\ x = h /\ y = k
      <4>1. CASE fresh
        <5>1. mark = build.from
          BY <1>11, <1>13, <2>1, <3>2, <4>1 DEF Sources, Failed
        <5>2. QED
          BY <1>1, <1>13, <3>2, <5>1 DEF Generated
      <4>2. CASE ~ fresh
        BY <1>10, <1>12, <1>13, <2>1, <3>2, <4>2 DEF Receipt, Generated
      <4>3. QED
        BY <4>1, <4>2
    <3>3. QED
      BY <3>1, <3>2
  <2>2. QED
    BY <1>9, <2>1 DEF Generated, Running
<1>25. Cleared' /\ Apartness' /\ OwnLabels'
  BY <1>1, <1>9 DEF Cleared, Apartness, OwnLabels, Running
<1>26. QED
  BY <1>21, <1>23, <1>24, <1>25

\* The artifact holds what the buckets accepted.
LEMMA PublishKeeps ==
  ASSUME LabelsInv, Publish
  PROVE  LabelsInv'
<1> USE DEF LabelsInv
<1>1. /\ Running /\ pool = <<>> /\ \A h \in Halves : DOMAIN done[h] = {}
      /\ artifact' = [artifact EXCEPT ![build.tier] = TierArtifact]
      /\ build' = Missing
      /\ bucket' = [h \in Halves |-> Empty]
      /\ UNCHANGED <<version, receipts, pool, done>>
  BY DEF Publish, Running
<1> DEFINE a == TierArtifact
<1>2. build.tier \in Tiers /\ build.contract \in Contracts /\ artifact = [t \in Tiers |-> artifact[t]]
  BY <1>1 DEF Shapes
<1>3. /\ a.contract = build.contract /\ a.from = build.from /\ a.across = build.across
      /\ \A h \in Halves : a.labels[h] = Labels(h)
  BY DEF TierArtifact
<1>4. /\ artifact' = [t \in Tiers |-> artifact'[t]] /\ artifact'[build.tier] = a
      /\ \A t \in Tiers : t # build.tier => artifact'[t] = artifact[t]
  BY <1>1, <1>2
<1>5. ASSUME NEW h \in Halves
      PROVE  /\ Clear(Labels(h), build.barred[h])
             /\ \A l \in Labels(h) : l.source = build.from
  BY <1>1, WavesClear
<1> HIDE DEF a
<1>6. ~ Running'
  BY <1>1 DEF Running
<1>7. Shapes'
  <2>1. bucket' \in [Halves -> Buckets]
    BY <1>1, EmptyBucket
  <2>2. \A t \in Tiers : artifact'[t] # Missing => artifact'[t].contract \in Contracts
    BY <1>2, <1>3, <1>4 DEF Shapes
  <2>3. QED
    BY <1>1, <1>4, <1>6, <2>1, <2>2 DEF Shapes
<1>8. Cleared' /\ Waves'
  BY <1>1, <1>6, WavesIdle DEF Cleared
<1>9. Generated'
  BY <1>1, <1>6 DEF Generated
<1>10. Apartness'
  <2>1. ASSUME NEW t \in Tiers, artifact'[t] # Missing, NEW x \in artifact'[t].across
        PROVE  \E barred : Across(x, barred) /\ \A h \in Halves : Clear(artifact'[t].labels[h], barred[h])
    <3>1. CASE t = build.tier
      <4>1. Across(x, build.barred)
        BY <1>1, <1>3, <1>4, <2>1, <3>1 DEF Apartness
      <4>2. \A h \in Halves : Clear(artifact'[t].labels[h], build.barred[h])
        BY <1>3, <1>4, <1>5, <3>1
      <4>3. QED
        BY <4>1, <4>2
    <3>2. CASE t # build.tier
      BY <1>4, <2>1, <3>2 DEF Apartness
    <3>3. QED
      BY <3>1, <3>2
  <2>2. QED
    BY <1>6, <2>1 DEF Apartness
<1>11. OwnLabels'
  <2>1. ASSUME NEW t \in Tiers, artifact'[t] # Missing
        PROVE  /\ artifact'[t].from \in Sources
               /\ \A h \in Halves : \A l \in artifact'[t].labels[h] : l.source = artifact'[t].from
    <3>1. CASE t = build.tier
      BY <1>1, <1>2, <1>3, <1>4, <1>5, <3>1, LabelsAssumption DEF Generated, Contracts
    <3>2. CASE t # build.tier
      BY <1>4, <2>1, <3>2 DEF OwnLabels
    <3>3. QED
      BY <3>1, <3>2
  <2>2. QED
    BY <2>1 DEF OwnLabels
<1>12. QED
  BY <1>7, <1>8, <1>9, <1>10, <1>11

\* A build that is killed leaves its receipts.
LEMMA KillKeeps ==
  ASSUME LabelsInv, Kill
  PROVE  LabelsInv'
<1> USE DEF LabelsInv
<1>1. /\ build' = Missing /\ pool' = <<>>
      /\ bucket' = [h \in Halves |-> Empty] /\ done' = [h \in Halves |-> <<>>]
      /\ UNCHANGED <<version, receipts, artifact>>
  BY DEF Kill
<1>2. ~ Running'
  BY <1>1 DEF Running
<1>3. Shapes'
  <2>1. bucket' \in [Halves -> Buckets]
    BY <1>1, EmptyBucket
  <2>2. \A h \in Halves : done'[h] \in [DOMAIN done'[h] -> Marks] /\ DOMAIN done'[h] = {}
    BY <1>1
  <2>3. done' = [h \in Halves |-> done'[h]] /\ pool' \in Seq(Halves \X Nat)
    BY <1>1
  <2>4. QED
    BY <1>1, <1>2, <2>1, <2>2, <2>3 DEF Shapes
<1>4. Cleared' /\ Waves'
  BY <1>1, <1>2, WavesIdle DEF Cleared
<1>5. Generated' /\ Apartness' /\ OwnLabels'
  BY <1>1, <1>2 DEF Generated, Apartness, OwnLabels
<1>6. QED
  BY <1>3, <1>4, <1>5

\* Another engine finds everything as the last one left it.
LEMMA UpgradeKeeps ==
  ASSUME LabelsInv, Upgrade
  PROVE  LabelsInv'
<1> USE DEF LabelsInv
<1>1. /\ build = Missing /\ version' \in Sources
      /\ UNCHANGED <<receipts, build, bucket, pool, done, artifact>>
  BY DEF Upgrade
<1>2. ~ Running /\ ~ Running'
  BY <1>1 DEF Running
<1>3. Shapes'
  BY <1>1, <1>2 DEF Shapes
<1>4. Cleared' /\ Waves'
  BY <1>1, <1>2, WavesIdle DEF Cleared
<1>5. Generated' /\ Apartness' /\ OwnLabels'
  BY <1>1, <1>2 DEF Generated, Apartness, OwnLabels
<1>6. QED
  BY <1>3, <1>4, <1>5

\* A step that leaves the labelling alone.
LEMMA StutterKeeps ==
  ASSUME LabelsInv, UNCHANGED <<version, receipts, build, bucket, pool, done, artifact>>
  PROVE  LabelsInv'
<1> USE DEF LabelsInv
<1>1. Waves'
  BY WavesKept
<1>2. Shapes' /\ Cleared' /\ Generated' /\ Apartness' /\ OwnLabels'
  BY DEF Shapes, Cleared, Generated, Apartness, OwnLabels, Running
<1>3. QED
  BY <1>1, <1>2

\* A corpus that is handed on takes all that is left of the labelling along.
LEMMA DeliverKeeps ==
  ASSUME LabelsInv, Deliver
  PROVE  LabelsInv'
<1> USE DEF LabelsInv
<1>1. /\ build = Missing /\ version' = 1
      /\ receipts' = NoReceipts /\ artifact' = [t \in Tiers |-> Missing]
      /\ UNCHANGED <<build, bucket, pool, done>>
  BY DEF Deliver
<1>2. ~ Running /\ ~ Running'
  BY <1>1 DEF Running
<1>3. Missing \in Marks /\ Missing \notin Sources /\ 1 \in Sources
  BY LabelsAssumption DEF Marks, Sources
<1>4. /\ receipts' \in [Contracts -> [Halves -> [RootKeys -> Marks]]]
      /\ \A c \in Contracts, h \in Halves, k \in RootKeys : receipts'[c][h][k] \notin Sources
  BY <1>1, <1>3 DEF NoReceipts
<1>5. artifact' = [t \in Tiers |-> artifact'[t]] /\ \A t \in Tiers : artifact'[t] = Missing
  BY <1>1
<1>6. Shapes'
  BY <1>1, <1>2, <1>3, <1>4, <1>5 DEF Shapes
<1>7. Cleared' /\ Waves'
  BY <1>1, <1>2, WavesIdle DEF Cleared
<1>8. Generated' /\ Apartness' /\ OwnLabels'
  BY <1>2, <1>4, <1>5 DEF Generated, Apartness, OwnLabels
<1>9. QED
  BY <1>6, <1>7, <1>8

\* The inductive invariant, over both halves of the teacher.
LEMMA LabelsInvHolds ==
  TeacherSpec => []LabelsInv
<1>1. TeacherInit => LabelsInv
  BY InitHolds DEF TeacherInit
<1>2. LabelsInv /\ [TeacherNext]_<<vars, labelVars>> => LabelsInv'
  <2> SUFFICES ASSUME LabelsInv, [TeacherNext]_<<vars, labelVars>>
               PROVE  LabelsInv'
    OBVIOUS
  <2>1. CASE LabelsNext
    <3>1. ASSUME NEW t \in Tiers, StartBuild(t)
          PROVE  LabelsInv'
      BY <3>1, StartKeeps
    <3>2. CASE Submit
      BY <3>2, SubmitKeeps
    <3>3. ASSUME NEW n \in DOMAIN pool, LabelRoot(n)
          PROVE  LabelsInv'
      BY <3>3, LabelKeeps
    <3>4. ASSUME NEW h \in Halves, Collect(h)
          PROVE  LabelsInv'
      BY <3>4, CollectKeeps
    <3>5. CASE Publish
      BY <3>5, PublishKeeps
    <3>6. CASE Kill
      BY <3>6, KillKeeps
    <3>7. CASE Upgrade
      BY <3>7, UpgradeKeeps
    <3>8. CASE Merge
      BY <3>8, StutterKeeps DEF Merge
    <3>9. QED
      BY <2>1, <3>1, <3>2, <3>3, <3>4, <3>5, <3>6, <3>7, <3>8 DEF LabelsNext
  <2>2. CASE Deliver
    BY <2>2, DeliverKeeps
  <2>3. CASE UNCHANGED labelVars
    BY <2>3, StutterKeeps DEF labelVars
  <2>4. QED
    BY <2>1, <2>2, <2>3 DEF TeacherNext
<1>3. QED
  BY <1>1, <1>2, PTL DEF TeacherSpec

\* Whichever worker is first and wherever an earlier build was killed, a bucket with
\* nothing outstanding is the sequential scheduler's over the same receipts.
THEOREM TeacherMatchesSequence ==
  TeacherSpec => []MatchesSequence
<1>1. LabelsInv => MatchesSequence
  BY WavesMatch DEF LabelsInv
<1>2. QED
  BY <1>1, LabelsInvHolds, PTL

\* Whatever engines come and go and whichever receipts are reused, a tier has labels
\* of the engine that generated its corpora, and so have two that can be merged
\* (_recover_source_series, _resolve_receipt_cache_contract).
THEOREM TeacherOneEngine ==
  TeacherSpec => []OneEngine
<1>1. OwnLabels => OneEngine
  <2> SUFFICES ASSUME OwnLabels, Comparable(artifact["quiet"], artifact["tactical"])
               PROVE  \E v \in Sources : \A t \in Tiers, h \in Halves :
                        \A l \in artifact[t].labels[h] : l.source = v
    BY DEF OneEngine, OwnLabels
  <2>1. Tiers = {"quiet", "tactical"}
    BY DEF Tiers
  <2>2. \A t \in Tiers : artifact[t] # Missing /\ artifact[t].from = artifact["quiet"].from
    BY <2>1 DEF Comparable
  <2>3. artifact["quiet"].from \in Sources
    BY <2>1, <2>2 DEF OwnLabels
  <2>4. QED
    BY <2>1, <2>2, <2>3 DEF OwnLabels
<1>2. LabelsInv => OneEngine
  BY <1>1 DEF LabelsInv
<1>3. QED
  BY <1>2, LabelsInvHolds, PTL

\* What an artifact reaches contains its roots and the states of their options.
LEMMA ReachedIs ==
  ASSUME NEW S
  PROVE  LET k == {l.root : l \in S} IN
         /\ k \subseteq States(k)
         /\ \A x \in k : Options[x] \subseteq States(k)
BY DEF States

\* A tier built across another merges with it.
THEOREM TeacherAcrossMerges ==
  TeacherSpec => []AcrossMerges
<1>1. Apartness => AcrossMerges
  <2> SUFFICES ASSUME Apartness, NEW t \in Tiers,
                      artifact[t] # Missing, artifact[Other(t, Tiers)] # Missing,
                      Comparable(artifact[t], artifact[Other(t, Tiers)]),
                      artifact[Other(t, Tiers)].labels \in artifact[t].across, ~ Leaks(artifact[t]),
                      \A h \in Halves : {l.root : l \in artifact[t].labels[h]} \cap
                                        {l.root : l \in artifact[Other(t, Tiers)].labels[h]} = {}
               PROVE  Mergeable(artifact[t], artifact[Other(t, Tiers)])
    BY DEF AcrossMerges
  <2> DEFINE a == artifact[t]
             b == artifact[Other(t, Tiers)]
             A(h) == {l.root : l \in a.labels[h]}
             B(h) == {l.root : l \in b.labels[h]}
  <2>1. PICK barred : Across(b.labels, barred) /\ \A h \in Halves : Clear(a.labels[h], barred[h])
    BY DEF Apartness
  <2>2. "train" \in Halves /\ "holdout" \in Halves /\ Halves = {"holdout", "train"}
    BY DEF Halves
  <2>3. States(A("train")) \cap States(A("holdout")) = {}
    BY <2>2 DEF Leaks, Reached
  <2>4. States(B("train")) \cap States(B("holdout")) = {}
    BY <2>1, <2>2 DEF Across, Leaks, Reached
  <2>5. barred["train"] = States(B("holdout")) /\ barred["holdout"] = States(B("train"))
    BY <2>1, <2>2, OtherIs DEF Across
  <2>6. \A h \in Halves : \A k \in A(h) : k \notin barred[h] /\ Options[k] \cap barred[h] = {}
    BY <2>1 DEF Clear
  <2>7. \A h \in Halves : /\ A(h) \subseteq States(A(h)) /\ B(h) \subseteq States(B(h))
                          /\ \A k \in A(h) : Options[k] \subseteq States(A(h))
                          /\ \A k \in B(h) : Options[k] \subseteq States(B(h))
    BY ReachedIs
  <2>8. \A h \in Halves : RootsOf(a, b, h) = A(h) \cup B(h)
    BY DEF RootsOf
  <2>9. ~ Repeated(a, b)
    <3>1. \A h \in Halves : A(h) \cap B(h) = {}
      OBVIOUS
    <3>2. ~ Repeated(a, b) <=> \A h, g \in Halves : A(h) \cap B(g) = {}
      BY DEF Repeated
    <3> HIDE DEF A, B
    <3>3. A("train") \cap B("holdout") = {} /\ A("holdout") \cap B("train") = {}
      BY <2>2, <2>5, <2>6, <2>7
    <3>4. QED
      BY <2>2, <3>1, <3>2, <3>3
  <2>10. Apart(A("train") \cup B("train"), A("holdout") \cup B("holdout"))
    <3> DEFINE T == A("train")
               H == A("holdout")
               U == B("train")
               G == B("holdout")
    <3>1. /\ States(T) \cap States(H) = {} /\ States(U) \cap States(G) = {}
          /\ T \subseteq States(T) /\ H \subseteq States(H) /\ U \subseteq States(U) /\ G \subseteq States(G)
          /\ \A k \in T : Options[k] \subseteq States(T) /\ k \notin States(G) /\ Options[k] \cap States(G) = {}
          /\ \A k \in H : Options[k] \subseteq States(H) /\ k \notin States(U) /\ Options[k] \cap States(U) = {}
          /\ \A k \in U : Options[k] \subseteq States(U)
          /\ \A k \in G : Options[k] \subseteq States(G)
      <4> HIDE DEF A, B
      <4>1. QED
        BY <2>2, <2>3, <2>4, <2>5, <2>6, <2>7
    <3> HIDE DEF T, H, U, G
    <3>2. \A x \in T \cup U, y \in H \cup G :
            /\ x # y /\ Options[x] \cap Options[y] = {}
            /\ y \notin Options[x] /\ x \notin Options[y]
      <4> SUFFICES ASSUME NEW x \in T \cup U, NEW y \in H \cup G
                   PROVE  /\ x # y /\ Options[x] \cap Options[y] = {}
                          /\ y \notin Options[x] /\ x \notin Options[y]
        OBVIOUS
      <4>1. CASE x \in T /\ y \in H
        BY <3>1, <4>1
      <4>2. CASE x \in U /\ y \in G
        BY <3>1, <4>2
      <4>3. CASE x \in T /\ y \in G
        BY <3>1, <4>3
      <4>4. CASE x \in U /\ y \in H
        BY <3>1, <4>4
      <4>5. QED
        BY <4>1, <4>2, <4>3, <4>4
    <3>3. Apart(T \cup U, H \cup G)
      BY <3>2 DEF Apart
    <3>4. QED
      BY <3>3 DEF T, H, U, G
  <2>11. QED
    BY <2>2, <2>8, <2>9, <2>10 DEF Mergeable
<1>2. LabelsInv => AcrossMerges
  BY <1>1 DEF LabelsInv
<1>3. QED
  BY <1>2, LabelsInvHolds, PTL
=============================================================================
