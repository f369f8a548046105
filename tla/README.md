# Verification of Scottish Progressive

TLA+ models of the stateful, failure-prone parts of this repository, the TLC
instances that check them, and theorems about them that TLAPS proves for every
value of the constants. Paths are relative to `src/scottish_progressive/` unless
they start with `docs/`, `scripts/`, `benchmarks/` or `tests/`. `PROJECT.json`
lists every component with its status, every hazard at its line with the
properties that are about it, the lines each definition stands for, the runs,
the theorems, and for each property of a passing run a mutant, a plausible bug
in the modelled code under which TLC finds the property violated.

## 1. The system

A chess-variant engine (a side plays a series of moves: one, then two, then
three, ...) with an evolution pipeline around it.

| component | state it keeps | operations | what is hard |
|---|---|---|---|
| series rules (`rules.py`, `model.py`) | a position: board, series number, quiet clock, e.p. targets | play a series, generate series, adjudicate | transposed series are merged although the rights they leave differ; a bounded frontier |
| search (`search.py`, mate and horizon searches, `evaluation.py`) | transposition table, evidence of rejected roots, budgets | analyse a position under limits | interruption at every poll; retried passes; what is proved and what only looked at |
| mate proof cache (`mate_proof_cache.py`) | SQLite rows keyed by position and engine | look up, store, validate | stale or damaged rows |
| native kernels (`_native_*.cpp`, `native_*.cpp`, bindings) | root session in WASM memory | begin, dispatch, finish | numeric code |
| corpus store (`corpus_shards.py`) | `manifest.json`, shard files, claims, receipts, a file lock | begin, write, finalize, abort, release, recover | several processes, crashes between durable writes |
| corpus pipeline (`corpus_pipeline.py`) | the plan of ranges, a thread pool | `generate_corpus`, verify | retries, failures of one worker, other producers |
| league (`league.py`, `fast_training.py`, `profiles.py`, `cli.py`) | SQLite tables of runs, populations, games, matches, lineage; the champion file | `run_league`, resume, publish | each commit stands alone; runs are stopped and replayed |
| teacher (`native_teacher.py`, `scripts/*teacher*`) | receipts of labelled roots; split artifacts, models, fit receipt, claim registry, results | build, augment, merge; split, fit, evaluate once | kills, engine upgrades, racing commands, a sealed half that may be opened once |
| browser root coordinator (`web/static/root-iteration-coordinator.js`) | candidates, work ledger, incumbent | dispatch, consume, certify, repair, select | replies in any order, stale bounds, budget at its limit |
| release (`benchmarks/build_root_session_wasm.py`, `scripts/*browser_wasm*`) | checkout, artifact, gate receipts, outputs, attestations, the site | build, measure, promote, attest, commit, deploy | files change under the commands; two promotions race |
| browser client, board interface, web server, external engines, database | workers, requests, DOM, a semaphore, pipes | search, cancel, render | not modelled, see 6 |

Interaction: the league plays its games with the search on the rules; the
corpus pipeline runs native self-play and stores shards; the teacher labels
positions of those games, and its one-shot holdout decides on an overlay of the
evaluation; the board searches in Python behind `webapp.py` or in the browser,
where the coordinator spreads root candidates over WASM workers; a new WASM
engine reaches the site through the release scripts.

What makes each correct, beyond types: the store can always be recovered, and
every shard is traceable to one claim and one durable outcome; the pipeline
delivers every range once in spite of failures; the league only crowns profiles
that earned it by stored games, never contradicts itself when it is resumed,
and gets to its end; a sealed seed is scored once and blind; the coordinator
publishes the exact best within its work whatever the order of the replies;
what is deployed was measured and attested as it is; the search's selection is
the minimax one, its proofs are true, and a move it publishes stands.

## 2. The modules

| module | models | proofs |
|---|---|---|
| `Corpus` | abstract specification: what a corpus directory promises | |
| `CorpusStore` | `CorpusStore` and `CorpusShardWriter`, one durable write per step | `CorpusPipelineProofs` (first part) |
| `CorpusPipeline` | `generate_corpus`: processes with a main thread and a pool, over `CorpusStore` | `CorpusPipelineProofs` |
| `League` | `run_league` and `LeagueStore`, one commit per step | `LeagueProofs` |
| `RootCoordinator` | `runRootIteration`, one turn or one step of a turn at a time | `RootCoordinatorProofs` |
| `TeacherLabels` | labelling with a pool, receipts, upgrades, merge | `TeacherLabelsProofs` |
| `TeacherFit` | split, fit, evaluate as racing processes | `TeacherFitProofs` |
| `Teacher` | labels, then fit, over one merged corpus | `TeacherFitProofs` (last section) |
| `Release` | build to deployment, with the operator's edits, copies and commits | `ReleaseProofs` |
| `Series` | sides, the order of moves, scores and proof intervals | |
| `SeriesRules` | series generation, merging, frontier cap and reserve, draws | |
| `SearchFrontiers` | what a search node is made of: order, cap, mates, ladders | |
| `SearchValues` | `_minimax`: window, table, probes | |
| `Search` | one call of `ProgressiveSearcher.run`, over any frontiers, mates and values | `SearchProofs` |
| `SearchTruth` | the reference: walks, minimax and decided positions, and the properties that compare with it | |
| `Lists` | filtering and sorting, for `TeacherLabels` and `Search` | `ListProofs` |
| `MC*` | instances for TLC | |

**Corpus, CorpusStore.** `Corpus` knows ranges that are reserved by an owner,
promised a content (a receipt is on disk) and final; a final entry is never
changed or removed. `CorpusStore` has the directory as variables (`manifest`,
`shards`, `claims`, `outcomes`, and `lock`). A thread enters every call through
`_synchronize_locked` (`Enter` adopts orphan shards and publishes the manifest,
`Sweep` unlinks finalized claims) and then does its writes one by one:
`BindReceipt`, `RenameShard`, `PublishManifest`, `UnlinkClaim` are those of
`_finalize` in the code's order; `PersistOutcome` is the receipt
`corpus_pipeline` writes before it finalizes. `Crash` kills a process between any
two writes, `WriteRaises` makes one raise, and the lock goes with its holder.
Hashes and containers are a content value; a check that compares them compares
contents.

**CorpusPipeline** extends `CorpusStore` with the phases of `generate_corpus` (open
the store, take the pending ranges, submit, collect, verify) and its workers. A
worker failure fails the run; another process, or a rerun, takes over. The
generator is deterministic and the owner id stable, so a plan has one owner and a
range one content (`PipelineAssumption`), and the pipeline never releases a claim.

**League.** Tables are variables, `published` is the champion file, `pc` and `me`
the process. An action is one `commit()` or one replacement of the file; `Crash`
can come between any two. `Launch` is `cli._league_run`: with `AnyRun = FALSE` it
starts and resumes the way `train-engine.cmd` does (`--continue-latest`), with
`TRUE` an operator may resume any run and start runs at will. `Upgrade` changes
the engine's fingerprint, also back to an earlier one (it is a digest of the sources);
runs of another one cannot be resumed, and the launcher starts a new run. One process
runs at a time; the code takes no lock, so this is an assumption.

**RootCoordinator.** JavaScript runs a turn without interruption, so the awaits
(`pc` at `search`, `certify`, `probe`, `repair`) are where the environment chooses:
which worker replies, what the probe says, a lost reply, the deadline. `truth` is
what a full-window search would say of a candidate. Assumptions about the kernel,
which is outside: a reply is truthful for `truth`; a null-window scout that fails answers
the edge of its window (`Bounds`; scores beyond the edge, as a fail-soft search gives
them, are not modelled); a certification repeats the
score and may lose the proof of a mate score, but not find a new proof that the
opponent wins; a horizon re-search may give any value. The second matters: the
coordinator compares scores only (`root-iteration-coordinator.js:1947`). The
kernel derives proof and score from one search, which is why a reply that kept the
score and turned the proof is excluded.

**TeacherLabels, TeacherFit, Teacher.** A build labels roots of two halves with a
pool of workers that leave a receipt per root; builds are killed, resumed over
old receipts and merged. One profile and series cell per half, a killed build takes
its workers along, and a tactical root always passes its gate. `Upgrade` goes to any
engine, also back. A receipt is filed under the tier's settings, the source that the
reused artifact names and the corpora, and does not say who wrote it, so an engine can
find labels under its own name that another one left. They cannot disagree, because
a label other than a failure starts from the series recovered from the corpora, and
`_recover_source_series` accepts nothing but what this engine generates again itself
(`Recoverable`): an engine that did not generate the corpora gets an error receipt for every
root. So what a tier has labels of is the engine of its corpora, which is what
`OneEngine` says; it need not be the one the artifact names as its source. The
corpora of every engine hold the same boundaries here, a simplification. In `TeacherFit` a
label set is its set of semantic keys; folds, bootstrap and gate numbers are
abstracted, as they decide what a result says but not who may open what. A manifest
may preregister the corpus its sealed half derives from (`Declared`). That file is
not sealed, yet it is read by the splitter and again after the claim, so an
evaluation that finds it gone or changed (`intact`) has used its seed up; the
splitter made the half from that very corpus (`Derived`). The fit half may derive from a
development artifact whose labels were replaced by a script outside this repository; that
relabelling is not modelled. A run killed at any point is one that takes no further
step; `SplitTorn` is the kill that leaves a mark.

**Release.** A tree is three version numbers (engine, assets, shell) with the
release and its mirror; a digest is the value it commits to. Every command reads
files the others and the operator rewrite. Builds do not overlap and nobody edits
during one, commits have one parent, and the legacy v5 branch of the scripts is
left out.

**Series, SeriesRules, SearchFrontiers, SearchValues, Search, SearchTruth.** Boards are
abstract (python-chess is a library): a placement has moves for either side and is or
is not check. The evaluation is a table. `Search` is the control: depths, passes,
screens, ladder, certification, repair, veto, quarantine, widening, interruption at
every poll, and the final gates. The frontiers, the mates, the ladders, the
adjudications and what a child's search answers are its CONSTANTS, so that it can be
proved about whatever they are; `MCSearch` gives them the values that `SearchFrontiers`
and `SearchValues` compute from the code's own algorithms. Of the widening the capped
path of the native search is followed, and a native probe that answers "unsupported" is
treated like one that ran out of work. `SearchAssumption` says of
the frontiers what `_merged_series_generation` makes true: none lists a series twice,
and the same moves lead to the same boundary. A child's search is one step (nothing of
one that was stopped is used again). The native subtree, the promotion-mate lanes and the
overlays are left out; the native solvers answer truly or not at all.

## 3. What TLC checks

| run | question | bounds |
|---|---|---|
| `corpus_store` | Are shards disjoint, undisputed, bound to their outcomes and never lost, also under `release_claim`? | two threads in two processes, three ranges one of which straddles the others, two owners, two contents |
| `corpus_release_orphan` | violation: a released claim can leave an orphan nobody can adopt | the same |
| `pipeline` | Can the store always be opened, is a sole producer never refused, is success complete, do reruns get there, do the files implement `Corpus`? | two processes with pools of two and one, two ranges, three faults |
| `league` | Do the tables stay consistent over stops, replays, engine changes and a handpicked champion? | one run, two generations, two base pairs and a replacement, all results, two faults, two engine versions |
| `league_launcher` | Does the launcher's discipline give a proper succession, what evidence does the champion file carry, and do runs complete? | two runs, two generations, two profiles, two faults, two engine versions |
| `league_retry` | violation: a failed replacement pair is never retried | one run, one generation |
| `league_any_run` | violation: an older run crowns over a newer champion | two runs, one generation |
| `root` | Is the best selectable candidate published, and do the coordinator's checks of itself never fail? | three candidates with scores -1..1, with or without a proven loss, two workers, an aspiration window, one repair each, both sides to move |
| `root_budget` | Is the ledger balanced, the reserve kept at the limit, every winner probed itself, and does every iteration end? | two candidates of every kind (mates proven and claimed, terminal), two workers, eight units, calls of at most two |
| `teacher` | Does a bucket hold what one worker alone would give, across kills, engine changes and merges, and labels of one engine; is a sealed half scored once and blind, and what can burn it? | 16 states, two tiers, two workers, three builds, two engines that alternate, corpora of one of them, one failed root; two runs of each command, two manifests of one seed, one of which declares the merged corpus as its source, that corpus and two that leak, one file changed at a time |
| `release` | Is what is deployed attested, reviewed, and what its certificates say; are outputs final? | two builds, two promotions over two outputs, two recorded runs, one attestation, one edit, three commits |
| `search` | Is the winner the minimax one, are proofs true of the whole game tree, does a published move stand, is every pass new? | 101 calls on a game of 22 placements, to depth 3, capped and uncapped, interrupted at any poll |

Why the bounds are enough. The store's guards compare at most two ranges and two
owners, and each recovery path needs one stopped thread and one running one. In
the league every commit of a generation can be the last before a stop, and a second
generation is what a replay could damage; three pairs give a failed, an undecided
and a decided pair in one match. A stale scout needs three candidates and two
workers; work and credits are small enough that a call gets less than it asks for,
or nothing, at every place that reserves. A double evaluation needs two
evaluations of one claim key, a mixed split two splitters in one directory. The
search instance has e.p. captures, promotions, transposed series, a stalemate,
mates, a ladder and a mate only the wide frontier holds. For what section 5
proves, the bounds no longer matter.

Deadlock is not checked where the system may come to rest: an iteration that ended,
a finished league whose operator starts no further run, a finished release, a
store in which a release left an orphan, and a teacher whose commands are all over.

Fairness. `FairPSpec`: a live thread that can take a step takes it, and a process
that died is started again; faults are bounded. `FairSpec` of the league: the process
goes on, and `train-engine.cmd` is started again after a stop ("You can close this
window and run this file again to resume its checkpoint"). `FairSpec` of the
coordinator: an iteration that can go on does, because the deadline timer settles
every await. Weak fairness is enough in all three. The other specifications state
none: they promise safety only.

## 4. Findings

* `corpus_release_orphan`: `release_claim` after a shard was renamed but before
  the manifest was published leaves an orphan no claim accounts for, and every
  later call on the store raises, whatever the class's docstring says of recovery.
* `league_retry`: after a worker exception in a replacement pair the stored reason
  promises that "resume will retry the affected job", but the replacement loop
  leaves at the first stored failure, so the run stays at needs-resume.
* `league_any_run`: resuming an older unfinished run replaces the active champion
  by a challenger that played another profile.

Two things that no document denies, and that the properties therefore state as they are:

* Promotion evidence. If the process stops between `set_active_champion` and
  `record_lineage` (`league.py:2821`, `2822`) and the engine changes before the next
  start, `--continue-latest` passes the run over (`cli.py:297`), the new run starts from
  the active champion, and the file it publishes carries no evidence; nobody writes
  the row later. "Every published challenger has its evidence" fails in
  `league_launcher` after 13 steps. `PublishedEvidence` says that this is the only way: a file without
  evidence names what such a `Stranded` run promoted, and its match is in the database.
* Declared sources. `BurnsOnlyMismatches` says what can burn a claimed seed unscored: a
  sealed half that is missing, torn or not the counterpart, or a declared source that is
  gone or changed, although that one could be read before the claim.

## 5. What is proved

Every theorem holds for all sets of threads, processes, workers, candidates,
profiles, files and manifests and for all values of the limits, under the named
assumptions of the modules (`LeagueAssumption`, `RootAssumption`, ...), which say
what the code validates or how its values are built. A few `MarkAssumption`s say
that the constant `None` is none of the records it stands beside. Hypotheses
beyond that are given below.

**`CorpusPipelineProofs`, the store.** `TypeCorrect`, `ShardsDisjoint`, `ShardsHaveProvenance`,
`OnlyClaimedPublished`, `NothingLost`; with `~ WithRelease`, which is how
`generate_corpus` uses the store, `NeverLockedOut` and the refinement
`FilesImplementCorpus`. `corpus_release_orphan` shows that those two need it. The
safety invariants are not inductive. `StoreInv` adds what a thread inside a call
knows (`Knows`): while it holds the lock, the claim in its hands is on disk until
it unlinks it; between two writes nobody else is (`LockOK`); and of an orphan, that only
its own claim, bound to its content, may touch it (`FilesOK`). That part survives
`release_claim`: a released orphan stays unadoptable, but nobody can publish
across it. `KeptInv` adds that every orphan still has its claim, and that is what
`release_claim` breaks. Under it a shard is as good as final from its rename on, so
the refinement maps `RenameShard` to `Finalize`, `PersistOutcome` to `Promise`, a
claim to `Reserve`, and crashes, manifest writes and recovery to stutters.

**`CorpusPipelineProofs`, the pipeline.** `PipelineIsStore` maps the pipeline's steps to the store's,
and so carries `PipelineNeverLockedOut` and `PipelineImplementsCorpus` over.
`ReceiptsAreComplete` and `NeverRefusedAlone` need `PipeInv`: the main thread only
opens the store and does so while its pool is quiet (`Order`); a run that succeeded
has every range finalized (`Receipts`); and in a process that is alone, a range
waiting in the pool has no shard, and a worker's range is no other's, with its claim on
disk while it writes (`Shares`). The last holds only while no other process is there,
so starting a second one must make it void and not false, and a kill must
re-establish it: the next run takes only ranges without an entry, and the open
that precedes has adopted every orphan.

**`LeagueProofs`.** `NeverRefused`, `EveryPromotionEarned`, `LineageIsTheStory`, and
the action properties `DecidedOnce` and `ResultsStay`, with any operator and any
number of upgrades. They rest on one invariant, `TablesFit`. Its parts about the
tables: runs are numbered without gaps; a stored match is what population and
settled games make it (`Decisions`); nothing is stored of generations to come
(`Ahead`); a row of the lineage is a promoted match (`Lineages`); a population is bred
around the champion of the row before (`Bred`, `Followed`). Its parts about the
process say how far it is from the tables alone (`Position`, `Playing`): that is
why a replay after a stop finds what it would have written and writes nothing else.
`Decisions` is inductive only with `Settled`: a replay computes the same verdict
because no pair of a decided generation may still be played.

**`LeagueProofs`, the launcher.** With `AnyRun = FALSE` and no handpicked champion:
`ChampionsAreBeaten`, from `Latest` (the process is in the latest run, and the active
champion is that run's or what its match promoted), and `EvidencePublished`, from
`Trail`: every champion of a row is accounted for (`Backed`: the baseline, a row of the
lineage, or a `Stranded` run), and the champion of a run about to be created also, or
it is what the latest run still has to record (`Pending`). Both hold for any number of
engine changes: a run that was passed over is out of the launcher's reach
(`StrandedStays`), so what accounts for a champion lasts.

**`RootCoordinatorProofs`.** `SafetyWorkHeld` from `LedgerInv`
(every call in flight has a credit; the probe holds one exactly while it is
awaited or being charged). From `SelInv`: `BestIsSelected`, `SelectionCertified`,
`NeverAtOdds`, `LedgerBalances`, `TypeCorrect`. Its parts: what is recorded of a
candidate is true of what its search returns, whatever incumbent it was scouted
against (`Faithful`); every call, queued candidate and planned task belongs to a
candidate that waits for it (`Searches`, `Plans`, `Recalls`); once a winner is on its
way, it leads the exact candidates and every other one is covered (`Standing`);
rejections are repairs plus vetoes plus the one that is open (`Dispositions`, with
`Tokens` counting repairs); and the reservation is the number of outstanding units
(`Balanced`, by cardinalities). That a leader exists among finitely many exact
candidates (`proofAwareRootPrecedes` is a strict order) is a well-founded minimum,
not an induction over the list. The veto of a repaired winner is where it is
delicate: the value changes, so the incumbent must be chosen anew before anything
compares with it.

**`TeacherFitProofs`.** `ScoredAtMostOnce` (a claim file outlives every kill and names
the one run that may score), `HalvesStayTogether` (`Halved`: a train half is in place
before a holdout half can be, and is replaced by nobody), `EvidenceStaysBlind`
(`Supported`: an evaluation's inputs were frozen before its claim and models are
only added), `NothingElseBurns` (an action property, from both). `TeacherIsFit`
shows that the specification which starts at the labels refines the one of the
commands alone, and `HoldoutEndToEnd` carries the four properties over to it.

**`TeacherLabelsProofs`, `ListProofs`.** `TeacherMatchesSequence`,
`TeacherOneEngine` and `TeacherAcrossMerges`, over the specification that
starts at the labels. The invariant `LabelsInv` has at its centre `Waves`: for each
half there is a number `lo` of candidates filed so far and a function `g` that files
them one after the other over the receipts there are (`Files`); the bucket is `g[lo]`,
none of the earlier ones was full, and the candidates up to `next` are one wave, each
either labelled or in the pool exactly once, and too few to overshoot the quota
(`InStep`). Such a `g` lasts because a worker writes only receipts of roots that
nothing has settled (`Lasting`), so a wave that is committed just prolongs it
(`FilingGoesOn`), whatever order its roots came in. When nothing is outstanding, `g`
is the sequential scheduler up to `lo`, and from there that scheduler stands still
(`WavesMatch`). For `OneEngine`, with engines that come and go: a receipt with a label
is of the engine that generated the corpora it is filed under (`Generated`), hence so are
the labels of a build and of an artifact (`OwnLabels`), and tiers of different corpora
are refused by the merge. `Apartness` (an artifact keeps
clear of what it was barred from, and that was the other tier's other half) gives the
four audits of the merge. `_run_bucket` and the commit of a wave are recursive
functions over the places of a list: that such a function has the values its
equations say (`Recursion`) and that what is handed from place to place holds at every place
(`Places`) follow from the least member of a set of naturals, which takes the place of
induction; `InOrderLists` is the theorem about sorting. The one assumption beyond the
bounds the code checks is that no two candidates of a corpus share a rank, which is a
SHA-256 digest.

**`ReleaseProofs`.** `BytesAreCertified`, `SiteIsAttested`, `SiteIsReviewed`,
`OutputsAreFinal` and `RecordsStay`, from `EverythingTraced`: an artifact is compiled from
the sources its build hashed (`Compiled`); a release in any place (memory, output,
working tree, commit) is of a finished build, of gates that were run and of an
attestation on disk (`Supported`); copies are exact (`CopiesExact`). That records are
never taken back (`Ratchet`) is what makes a fact checked long before deployment still
true at deployment.

**`SearchProofs`.** `SearchPublishedMoveStands` and `SearchEveryPassIsNew`, for every
game, cap, depth and prefix, whatever the searches of the children answer and wherever
the clock stops the call. They share the invariant `Inv`. What the caches hold of a
mate is true, whoever wrote it (`Known`): that is what lets a gate rely on an answer
found many passes earlier. From the gates on, what would be published is
not rejected, and past the last probe it allows no mate (`Gated`); the rescue that
may replace it looks only at candidates nobody rejected, each under moves of its own,
so that rejecting one leaves the others as they were (`Rescuing`). For
the passes: what a pass has scored or has left to score is not excluded (`Scanning`), so
its winner enters each lane unjudged by it (`Won`), and a lane that starts another
pass adds to one of five sets nobody takes from. The two delicate places are the
widening, where a candidate known to be mated may stand in the list of those still to be looked
at (`Widening`: it is then one whose child was retained, and is skipped), and the
sorted lists, in which each candidate is there once whatever the order says
(`SortedLists`). The rest is shapes of records (`Shaped`, `Listed`).

Each inductive invariant was checked by TLC on the instances before it was proved.

Only model-checked, and why:

* `EventuallyComplete`, `RunsComplete`, `Termination`: liveness under fairness.
* `SeriesAreExact`, `WinnerIsMinimax`, `ProofsAreSound` (module `SearchTruth`): minimax,
  the walk of a series and the tables of decided positions are recursive operators,
  and that alpha-beta computes minimax is an induction over the tree.

## 6. Not modelled, and why

Position arithmetic, move generation and the numeric evaluation are large
sequential code that tests reach better. The mate proof cache acts on a search only
as an answer known in advance; the validation of its rows is not modelled. The browser
client, the board, the HTTP server, external engines and the games database are
mostly rendering, parsing and pipes to programs outside this repository.
Benchmarks, reports and archives are data.

## 7. Plan

1. Done: all modules of section 2, their runs, and the proofs of section 5.
2. Perhaps later: request identities, cancellation and restart of workers in
   `browser-engine-client.js`, composed with `RootCoordinator` through the abort signal.
