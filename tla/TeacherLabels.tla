---------------------------- MODULE TeacherLabels ----------------------------
(***************************************************************************)
(* native_teacher.py: the labelled corpora the teacher is fitted on.  A    *)
(* build labels candidate roots of a train and of a holdout corpus, a      *)
(* bucket of each, with a pool of worker processes that leave a receipt    *)
(* per root; a build that was killed, or one that bars more states, picks  *)
(* the receipts up again.  Two builds of different tiers are merged.       *)
(*                                                                         *)
(* There is one profile and series cell per half.  A state is its key; the *)
(* options of a root are the keys they end in, which the search determines.*)
(* A label is its root and the engine source that searched it.  An engine  *)
(* source is a digest of the checkout's files, which can be checked out    *)
(* again.  Corpora that two engines generated differ in their contracts;   *)
(* here they hold the same boundaries.  A build that is killed takes its   *)
(* workers along.                                                          *)
(***************************************************************************)
EXTENDS Naturals, SequencesExt, Lists

CONSTANTS
  Samples,      \* half -> boundaries of its corpus: state key, series left in
                \* the game, place in the candidate order
  Options,      \* root -> final states of the series its search retains
  TargetRoots,  \* tier -> roots to label
  TrainRoots,   \* tier -> those of them in the train half
  Workers,      \* processes of the pool
  MaxVersions,  \* bound on the engine sources
  Generators,   \* those of them that generated corpora
  MaxBuilds,    \* bound on the builds
  MaxFailures,  \* bound on the roots whose search fails
  Missing       \* None

Tiers  == {"quiet", "tactical"}
Halves == {"holdout", "train"}
Failed == 0
Sources == 1 .. MaxVersions
Marks == Sources \cup {Failed, Missing}

\* The place in the candidate order is a digest: no two boundaries share it.
ASSUME LabelsAssumption ==
  /\ Workers \in Nat \ {0} /\ MaxVersions \in Nat \ {0}
  /\ Generators \subseteq Sources
  /\ MaxBuilds \in Nat /\ MaxFailures \in Nat
  /\ \A t \in Tiers : TargetRoots[t] \in Nat /\ TrainRoots[t] \in 1 .. TargetRoots[t] - 1
  /\ Missing \notin Nat
  /\ \A h \in Halves :
       /\ IsFiniteSet(Samples[h])
       /\ \A s \in Samples[h] : s.rank \in Nat
       /\ \A s, u \in Samples[h] : s.rank = u.rank => s = u

VARIABLES
  version,   \* ENGINE_SOURCE_FINGERPRINT of the checkout
  receipts,  \* cache contract -> half -> root -> receipt: its source or Failed
  build,     \* the build that runs
  bucket,    \* half -> _BucketProgress
  pool,      \* submitted roots that are not labelled yet, in order
  done,      \* half -> labelled roots that are not committed yet
  artifact,  \* tier -> its artifact on disk
  corpus,    \* the merged corpus
  builds, failures

labelVars == <<version, receipts, build, bucket, pool, done, artifact, corpus,
               builds, failures>>

-----------------------------------------------------------------------------
(* Candidates. *)

Other(x, S) == CHOOSE y \in S : y # x

Matches(s, t) == IF t = "tactical" THEN s.left = 1 ELSE s.left >= 2

Roots(h) == {s.key : s \in Samples[h]}
RootKeys == Roots("train") \cup Roots("holdout")

\* _candidate_population: one sample of each state, the foremost; the holdout
\* gives way to the train corpus.
Retained(t, h) ==
  LET open == {s \in Samples[h] : Matches(s, t) /\ (h = "holdout" => s.key \notin Roots("train"))}
  IN {s \in open : \A u \in open : u.key = s.key => s.rank <= u.rank}

\* The candidates of every bucket, in _teacher_candidate_order.
CandidateLists ==
  [t \in Tiers |-> [h \in Halves |->
     LET S == Retained(t, h)
         order == InOrder(S, {p \in S \X S : p[1].rank < p[2].rank})
     IN [i \in DOMAIN order |-> order[i].key]]]
Candidates(t, h) == CandidateLists[t][h]

\* _balanced_quotas: each cell's share of the roots, then of the train roots;
\* holdout is the complement.
Quota(t, h) == IF h = "train" THEN TrainRoots[t] ELSE TargetRoots[t] - TrainRoots[t]

States(roots) == roots \cup UNION {Options[k] : k \in roots}

\* The contract a receipt is filed under: the tier's settings, a source and the
\* corpora, known by the engine in their generation contracts.
Contracts == [tier : Tiers, source : Sources, from : Generators]

-----------------------------------------------------------------------------
(* A bucket. *)

Empty == [next |-> 0, accepted |-> <<>>, failed |-> <<>>, excluded |-> <<>>]

\* Where a root goes: a barred one is never searched, one whose options meet a
\* barred state is excluded in spite of its label.
Outcome(h, k, mark) ==
  IF k \in build.barred[h] THEN "excluded"
  ELSE IF mark = Failed THEN "failed"
  ELSE IF Options[k] \cap build.barred[h] # {} THEN "excluded" ELSE "accepted"

Receipt(h, k) == receipts[build.contract][h][k]

\* _validated_single_candidate_result: one row in one of three lists.
Filed(b, h, k, mark) ==
  LET rows(outcome) == IF Outcome(h, k, mark) = outcome
                       THEN <<[root |-> k, source |-> mark]>> ELSE <<>>
  IN [b EXCEPT !.accepted = @ \o rows("accepted"),
               !.failed   = @ \o rows("failed"),
               !.excluded = @ \o rows("excluded")]

\* _run_bucket over the receipts there are: candidates in order to the quota.
RunBucket(h) ==
  LET cs == Candidates(build.tier, h)
      after[i \in 0 .. Len(cs)] ==
        IF i = 0 THEN Empty
        ELSE LET b == after[i - 1] IN
             IF Len(b.accepted) = Quota(build.tier, h) THEN b
             ELSE [Filed(b, h, cs[i], Receipt(h, cs[i])) EXCEPT !.next = i]
  IN after[Len(cs)]

\* Mutant: every wave is a quota of roots.
WaveOfQuota(h, b) ==
  LET stop == b.next + Quota(build.tier, h)
      size == Len(Candidates(build.tier, h)) IN
  [i \in 1 .. (IF Len(b.accepted) = Quota(build.tier, h) THEN 0
               ELSE (IF stop < size THEN stop ELSE size) - b.next) |-> <<h, b.next + i>>]

\* submit_wave: as many candidates as the bucket lacks.
Wave(h, b) ==
  LET stop == b.next + Quota(build.tier, h) - Len(b.accepted)
      size == Len(Candidates(build.tier, h)) IN
  [i \in 1 .. (IF stop < size THEN stop ELSE size) - b.next |-> <<h, b.next + i>>]

\* The roots of a finished wave, committed by candidate index.
Committed(h) ==
  LET cs == Candidates(build.tier, h)
      after[i \in 0 .. Len(cs)] ==
        IF i = 0 THEN bucket[h]
        ELSE IF i \in DOMAIN done[h] THEN Filed(after[i - 1], h, cs[i], done[h][i])
        ELSE after[i - 1]
  IN after[Len(cs)]

Pending(h) == \E n \in DOMAIN pool : pool[n][1] = h

-----------------------------------------------------------------------------
(* Builds. *)

\* _cross_tier_forbidden_state_keys: what each half of the other tier reaches.
Reached(a) == [h \in Halves |-> States({l.root : l \in a.labels[h]})]
Leaks(a) == Reached(a)["train"] \cap Reached(a)["holdout"] # {}

\* Mutant: each half is barred from its own states of the other tier.
BarredOwn(a) == Reached(a)

Barred(a) == [h \in Halves |-> Reached(a)[Other(h, Halves)]]

\* _validate_replacement_cache_source: with barred states the contract has to be of
\* the checkout's own source.  Receipts do not say who wrote them.
Reusable(contract, barred) ==
  \A h \in Halves : barred[h] # {} => contract.source = version

\* _resolve_receipt_cache_contract: the receipts of the checkout's own source, or
\* those the tier's last artifact was built from.
CacheContract(t, from, prior) ==
  IF prior THEN artifact[t].contract ELSE [tier |-> t, source |-> version, from |-> from]

\* Also there: a prior contract may differ from the current one in its source only.
Compatible(contract, t, from) == contract.tier = t /\ contract.from = from

\* --cross-tier-artifact and --prior-receipt-cache-contract-artifact.
StartBuild(t) ==
  /\ build = Missing /\ builds < MaxBuilds
  /\ \A h \in Halves : Len(Candidates(t, h)) >= Quota(t, h)
  /\ \E from \in Generators, across, prior \in BOOLEAN :
       LET other    == artifact[Other(t, Tiers)]
           barred   == IF across THEN Barred(other) ELSE [h \in Halves |-> {}]
           contract == CacheContract(t, from, prior)
       IN /\ across => other # Missing /\ other.complete /\ ~ Leaks(other)
          /\ prior => artifact[t] # Missing /\ Compatible(contract, t, from)
          /\ Reusable(contract, barred)
          /\ build' = [tier |-> t, from |-> from, contract |-> contract, barred |-> barred,
                       prior |-> prior, across |-> IF across THEN {other.labels} ELSE {}]
  /\ bucket' = [h \in Halves |-> Empty]
  /\ builds' = builds + 1
  /\ UNCHANGED <<version, receipts, pool, done, artifact, corpus, failures>>

\* Jobs are sorted, so the holdout bucket submits its wave first.
Submit ==
  /\ build # Missing /\ pool = <<>>
  /\ \A h \in Halves : bucket[h] = Empty /\ DOMAIN done[h] = {}
  /\ pool' = Wave("holdout", Empty) \o Wave("train", Empty)
  /\ bucket' = [h \in Halves |-> [Empty EXCEPT !.next = Len(Wave(h, Empty))]]
  /\ UNCHANGED <<version, receipts, build, done, artifact, corpus, builds, failures>>

\* Mutant: the source series is taken on trust.
RecoverableAlways == TRUE

\* _recover_source_series: the game is played again, which an engine does with games
\* of corpora it generated only (validate_current_native_generation_config).
Recoverable == version = build.from

\* What a search of a root may come to: every retained option scored and the series
\* that was played found again, or a reason why not.
Searches == {v \in {version} : Recoverable} \cup {Failed}

\* _write_root_receipt.
Written(h, k, mark) == [receipts EXCEPT ![build.contract][h][k] = mark]

\* A search that could have given a label and failed.
Unlucky(fresh, mark) == fresh /\ mark = Failed /\ Recoverable

\* A worker, one of the first roots of the pool: the receipt of the root if it
\* has one, else a search and the receipt of what came of it.
LabelRoot(n) ==
  LET h == pool[n][1]  i == pool[n][2]
      k == Candidates(build.tier, h)[i]
      fresh == k \notin build.barred[h] /\ Receipt(h, k) = Missing IN
  /\ build # Missing /\ n <= Workers
  /\ \E mark \in IF fresh THEN Searches ELSE {Receipt(h, k)} :
       /\ Unlucky(fresh, mark) => failures < MaxFailures
       /\ receipts' = Written(h, k, mark)
       /\ failures' = IF Unlucky(fresh, mark) THEN failures + 1 ELSE failures
       /\ done' = [done EXCEPT ![h] = [j \in DOMAIN @ \cup {i} |-> IF j = i THEN mark ELSE @[j]]]
  /\ pool' = RemoveAt(pool, n)
  /\ UNCHANGED <<version, build, bucket, artifact, corpus, builds>>

\* The scheduler commits a whole wave and submits the next one.
Collect(h) ==
  /\ build # Missing /\ ~ Pending(h) /\ DOMAIN done[h] # {}
  /\ LET b == Committed(h) IN
       /\ bucket' = [bucket EXCEPT ![h] = [b EXCEPT !.next = @ + Len(Wave(h, b))]]
       /\ pool' = pool \o Wave(h, b)
  /\ done' = [done EXCEPT ![h] = <<>>]
  /\ UNCHANGED <<version, receipts, build, artifact, corpus, builds, failures>>

Labels(h) == ToSet(bucket[h].accepted)

\* No bucket is short.
Complete == \A h \in Halves : Len(bucket[h].accepted) = Quota(build.tier, h)

\* The artifact of the finished build.
TierArtifact ==
  [labels |-> [h \in Halves |-> Labels(h)], contract |-> build.contract,
   from |-> build.from, prior |-> build.prior, version |-> version,
   across |-> build.across, complete |-> Complete]

\* The artifact replaces the tier's last one.
Publish ==
  /\ build # Missing /\ pool = <<>>
  /\ \A h \in Halves : DOMAIN done[h] = {} /\ bucket[h] # Empty
  /\ artifact' = [artifact EXCEPT ![build.tier] = TierArtifact]
  /\ build' = Missing
  /\ bucket' = [h \in Halves |-> Empty]
  /\ UNCHANGED <<version, receipts, pool, done, corpus, builds, failures>>

\* Only the receipts survive a build.
Kill ==
  /\ build # Missing
  /\ build' = Missing /\ pool' = <<>>
  /\ bucket' = [h \in Halves |-> Empty] /\ done' = [h \in Halves |-> <<>>]
  /\ UNCHANGED <<version, receipts, artifact, corpus, builds, failures>>

\* Another engine is checked out, a new one or one that was there before.
Upgrade ==
  /\ build = Missing
  /\ \E v \in Sources \ {version} : version' = v
  /\ UNCHANGED <<receipts, build, bucket, pool, done, artifact, corpus, builds, failures>>

-----------------------------------------------------------------------------
(* Merging two tiers. *)

\* augment_teacher_artifact: every root is found in the corpus of its half.
Augmentable(a) == \A h \in Halves : \A l \in a.labels[h] : l.root \in Roots(h)

\* _validated_mixed_tier, and the provenance both tiers must share.
Comparable(a, b) ==
  /\ a # Missing /\ b # Missing /\ a.complete /\ b.complete
  /\ Augmentable(a) /\ Augmentable(b)
  /\ a.version = b.version /\ a.from = b.from /\ a.prior = b.prior

RootsOf(a, b, h) == {l.root : l \in a.labels[h] \cup b.labels[h]}

\* A root labelled in both tiers, of whatever half.
Repeated(a, b) ==
  \E h, g \in Halves : {l.root : l \in a.labels[h]} \cap {l.root : l \in b.labels[g]} # {}

\* merge_native_teacher_tiers: four audits between the halves.
Apart(train, holdout) ==
  LET finals(S) == UNION {Options[k] : k \in S} IN
  /\ train \cap holdout = {}
  /\ finals(train) \cap finals(holdout) = {}
  /\ finals(train) \cap holdout = {}
  /\ finals(holdout) \cap train = {}

Mergeable(a, b) ==
  /\ Comparable(a, b)
  /\ ~ Repeated(a, b)
  /\ Apart(RootsOf(a, b, "train"), RootsOf(a, b, "holdout"))

Merge ==
  LET a == artifact["quiet"]  b == artifact["tactical"] IN
  /\ build = Missing /\ Mergeable(a, b)
  /\ corpus' = [h \in Halves |-> States(RootsOf(a, b, h))]
  /\ UNCHANGED <<version, receipts, build, bucket, pool, done, artifact, builds, failures>>

-----------------------------------------------------------------------------
NoReceipts == [c \in Contracts |-> [h \in Halves |-> [k \in RootKeys |-> Missing]]]

LabelsInit ==
  /\ version = 1
  /\ receipts = NoReceipts
  /\ build = Missing
  /\ bucket = [h \in Halves |-> Empty]
  /\ pool = <<>>
  /\ done = [h \in Halves |-> <<>>]
  /\ artifact = [t \in Tiers |-> Missing]
  /\ corpus = Missing
  /\ builds = 0 /\ failures = 0

LabelsNext ==
  \/ \E t \in Tiers : StartBuild(t)
  \/ Submit
  \/ \E n \in DOMAIN pool : LabelRoot(n)
  \/ \E h \in Halves : Collect(h)
  \/ Publish \/ Kill \/ Upgrade \/ Merge

LabelsSpec == LabelsInit /\ [][LabelsNext]_labelVars

-----------------------------------------------------------------------------
\* A bucket with nothing left to wait for holds what the sequential scheduler
\* gives over the same receipts, in its order, and was never searched further:
\* "a final wave cannot overshoot the quota, and failures only open an equally
\* sized replacement wave" (_run_buckets_parallel), whichever worker is first
\* and wherever an earlier build was killed.
MatchesSequence ==
  \A h \in Halves :
    build # Missing /\ bucket[h] # Empty /\ ~ Pending(h) /\ DOMAIN done[h] = {}
      => bucket[h] = RunBucket(h)

\* A tier has labels of one engine only, the one that generated its corpora, and so
\* have two tiers that can be merged: whatever prior contracts were reused, by
\* whichever engine, and however often the checkout changed in between.
OneEngine ==
  /\ \A t \in Tiers : artifact[t] # Missing =>
       \A h \in Halves : \A l \in artifact[t].labels[h] : l.source = artifact[t].from
  /\ Comparable(artifact["quiet"], artifact["tactical"]) =>
       \E v \in Sources : \A t \in Tiers, h \in Halves :
         \A l \in artifact[t].labels[h] : l.source = v

\* A tier built across another merges with it, unless it leaks by itself or
\* labels a root the other has in the same half.
AcrossMerges ==
  \A t \in Tiers :
    LET a == artifact[t]  b == artifact[Other(t, Tiers)] IN
    /\ a # Missing /\ b # Missing /\ Comparable(a, b)
    /\ b.labels \in a.across /\ ~ Leaks(a)
    /\ \A h \in Halves : {l.root : l \in a.labels[h]} \cap {l.root : l \in b.labels[h]} = {}
    => Mergeable(a, b)
=============================================================================
