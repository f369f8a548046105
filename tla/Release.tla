------------------------------ MODULE Release -------------------------------
(***************************************************************************)
(* The way of a browser engine to the deployed site.                       *)
(* build_root_session_wasm.py compiles it, the gates measure it,           *)
(* promote_browser_wasm_release.py with build_browser_wasm_bundle.py turns *)
(* artifact and receipts into a candidate or a release, Opera attests a    *)
(* candidate on a page, the operator commits a release, and                *)
(* validate_promoted_browser_wasm_release.py admits a commit to the site.  *)
(* Every command reads files that the others and the operator rewrite      *)
(* meanwhile.  A command that is refused or killed takes no further step.  *)
(*                                                                         *)
(* A digest is the value it commits to.  A tree is three version numbers,  *)
(* engine (the fingerprinted sources), assets (the scripts an attestation  *)
(* records) and shell (the rest of the page), with the release and its     *)
(* static mirror.  A compiled artifact is named by the build that linked   *)
(* it.                                                                     *)
(***************************************************************************)
EXTENDS Integers, Sequences, FiniteSets, Functions

CONSTANTS Builds,       \* runs of build_root_session_wasm.py, one directory
          Promotions,   \* runs of promote_browser_wasm_release.py
          Faulty,       \* the gates an artifact may fail
          Seconds,      \* search times in question, at most Limit
          Limit,        \* MAXIMUM_PUBLIC_SECONDS
          Outputs,      \* output directories
          Recorded,     \* runs of Opera -> what it recorded of each
          Reserve,      \* CERTIFIED_SAFETY_RESERVE_POSITIONS
          ProbeLimit,   \* PV_HORIZON_MATE_WORK_LIMIT
          MaxAttested,  \* bound on attestations
          MaxEdits,     \* bound on edits of the sources
          MaxCommits,   \* bound on commits
          None

\* The gates whose receipts a promotion is given, besides the build's.
Kinds == {"root_smoke", "root_parity", "prefix_parity", "browser_prefix", "mate_parity",
          "opera"}

ASSUME ReleaseAssumption ==
  /\ Faulty \subseteq Kinds /\ None \notin Builds \cup Kinds
  /\ Seconds \subseteq Nat /\ Limit \in Nat
  /\ Reserve \in Nat /\ ProbeLimit \in Nat /\ MaxAttested \in Nat
  /\ MaxEdits \in Nat /\ MaxCommits \in Nat \ {0}

\* The work and the credit of a safety probe are integers in the JSON of a run (_integer).
ASSUME RecordedAssumption ==
  \A r \in DOMAIN Recorded : \A t \in Recorded[r].safety : t.used \in Nat /\ t.credit \in Nat

VARIABLES
  commits,    \* history: tree and single parent of each commit
  head, work, \* the checkout: commit and working tree
  edits,      \* edits made so far
  build,      \* build -> how far it is, what it read, its receipt
  artifact,   \* the linked files in the build directory
  receipts,   \* build -> receipts of the gates run on it
  promotion,  \* promotion -> how far it is and what it holds in memory
  output,     \* directory -> candidate or release in it
  attested,   \* opera checked-horizon receipts on disk
  deployed,   \* commits the site was built from
  from        \* history: artifact -> engine it was compiled from

vars == <<commits, head, work, edits, build, artifact, receipts, promotion,
          output, attested, deployed, from>>

Tree(c) == [engine |-> c.engine, assets |-> c.assets, shell |-> c.shell,
            release |-> c.release, mirror |-> c.mirror]
SameSources(c, d) == c.engine = d.engine /\ c.assets = d.assets /\ c.shell = d.shell
CleanCheckout == work = Tree(commits[head])

-----------------------------------------------------------------------------
\* Builds do not overlap, and nobody edits the sources under one (see README).
Building == \E b \in Builds : build[b].at \in {"hashed", "linked"}

\* build_root_session_wasm.main: the sources are hashed, then compiled, then the
\* receipt names the revision checked out and hashes the files linked by then.
BuildHashes(b) ==
  /\ build[b].at = "idle" /\ ~ Building
  /\ build' = [build EXCEPT ![b] = [at |-> "hashed", engine |-> work.engine]]
  /\ UNCHANGED <<commits, head, work, edits, artifact, receipts, promotion, output,
                 attested, deployed, from>>

BuildCompiles(b) ==
  /\ build[b].at = "hashed"
  /\ artifact' = b
  /\ from' = [from EXCEPT ![b] = work.engine]
  /\ build' = [build EXCEPT ![b].at = "linked"]
  /\ UNCHANGED <<commits, head, work, edits, receipts, promotion, output, attested, deployed>>

BuildRecords(b) ==
  /\ build[b].at = "linked"
  /\ build' = [build EXCEPT ![b] =
       [at |-> "done",
        id |-> [revision |-> head, engine |-> build[b].engine, wasm |-> artifact]]]
  /\ UNCHANGED <<commits, head, work, edits, artifact, receipts, promotion, output,
                 attested, deployed, from>>

\* Someone runs the gates' benchmarks on the linked files: each receipt repeats the
\* identity of the build and says whether the gate passed and how long it took.
Measure(b) ==
  /\ build[b].at = "done" /\ artifact = build[b].id.wasm /\ receipts[b] = None
  /\ \E o \in ({None} \X Seconds) \cup (Faulty \X {0}) :
       receipts' = [receipts EXCEPT ![b] = [fails |-> o[1], seconds |-> o[2]]]
  /\ UNCHANGED <<commits, head, work, edits, build, artifact, promotion, output,
                 attested, deployed, from>>

-----------------------------------------------------------------------------
\* _validate_source_checkout: HEAD is the revision, nothing is dirty or untracked,
\* the sources hash to the fingerprint and to the blobs of the revision.
SourceCheckout(id) == head = id.revision /\ CleanCheckout /\ work.engine = id.engine

\* _validate_build_receipt: the files its records name hash to its identity.
BuildReceipt(b) == build[b].at = "done" /\ artifact = build[b].id.wasm

\* A promotion is given a receipt of every kind, each from the gates of any build.
Measured == {b \in Builds : receipts[b] # None}
Given == [Kinds -> Measured]
Receipt(b, k) ==
  [id |-> build[b].id, passed |-> receipts[b].fails # k, seconds |-> receipts[b].seconds]

\* _require_identity: all six identities of a receipt are the build's; and it passed.
Passes(e, k, id) == Receipt(e[k], k).id = id /\ Receipt(e[k], k).passed

RootSmoke(e, id)     == Passes(e, "root_smoke", id)
RootParity(e, id)    == Passes(e, "root_parity", id)
PrefixParity(e, id)  == Passes(e, "prefix_parity", id)
BrowserPrefix(e, id) == Passes(e, "browser_prefix", id)
MateParity(e, id)    == Passes(e, "mate_parity", id)
Opera(e, id)         == Passes(e, "opera", id) /\ Receipt(e["opera"], "opera").seconds < Limit

\* The six gates, as validate_evidence and _validate_semantic_evidence run them.
Gates(e, id) ==
  /\ RootSmoke(e, id) /\ RootParity(e, id) /\ PrefixParity(e, id)
  /\ BrowserPrefix(e, id) /\ MateParity(e, id) /\ Opera(e, id)

\* build_certificates: the public limits, and no default shorter than the
\* search Opera measured.
Certified(e, seconds) == 0 < seconds /\ seconds <= Limit /\ seconds >= Receipt(e["opera"], "opera").seconds

\* build_certificates and build_bundle: three certificates of one identity, the limits
\* in the root session's, and the copied files.
Bundle(id, seconds, wasm) ==
  [cert |-> [c \in {"prefix", "root_session", "mate"} |-> id], seconds |-> seconds,
   wasm |-> wasm]

\* validate_prefix_certificate, validate_root_session_certificate and
\* validate_mate_certificate compare one certificate with files and sources.
PrefixCertificate(c, wasm, engine) == c["prefix"].wasm = wasm /\ c["prefix"].engine = engine
RootSessionCertificate(c, wasm, engine, seconds) ==
  /\ c["root_session"].wasm = wasm /\ c["root_session"].engine = engine
  /\ 0 < seconds /\ seconds <= Limit
MateCertificate(c, wasm, engine) == c["mate"].wasm = wasm /\ c["mate"].engine = engine

\* validate_existing_bundle: files hash to the certificates, and the certificates
\* to the sources of the checkout.
ExistingBundle(bundle, engine) ==
  /\ PrefixCertificate(bundle.cert, bundle.wasm, engine)
  /\ RootSessionCertificate(bundle.cert, bundle.wasm, engine, bundle.seconds)
  /\ MateCertificate(bundle.cert, bundle.wasm, engine)

\* validate_evidence and build_certificates; every receipt is in memory from here on.
PromoteStarts(p) ==
  /\ promotion[p].at = "idle"
  /\ \E b \in Builds, e \in Given :
       /\ BuildReceipt(b) /\ SourceCheckout(build[b].id)
       /\ Gates(e, build[b].id)
       /\ \E s \in Seconds, o \in Outputs, mode \in {"stage", "promote"} :
            /\ Certified(e, s)
            /\ promotion' = [promotion EXCEPT ![p] =
                 [at |-> "validated", id |-> build[b].id, evidence |-> e,
                  seconds |-> s, out |-> o, mode |-> mode]]
  /\ UNCHANGED <<commits, head, work, edits, build, artifact, receipts, output,
                 attested, deployed, from>>

\* stage_release_candidate, promote_release: the output must be free; _build_variant
\* compares the artifact and the sources with the certificates.
PromoteChecks(p) ==
  /\ promotion[p].at = "validated"
  /\ output[promotion[p].out] = None
  /\ ExistingBundle(Bundle(promotion[p].id, promotion[p].seconds, artifact), work.engine)
  /\ promotion' = [promotion EXCEPT ![p].at = "checked"]
  /\ UNCHANGED <<commits, head, work, edits, build, artifact, receipts, output,
                 attested, deployed, from>>

Copied(p, bundle) ==
  /\ promotion' = [promotion EXCEPT ![p] =
       [id |-> promotion[p].id, evidence |-> promotion[p].evidence,
        seconds |-> promotion[p].seconds, out |-> promotion[p].out,
        mode |-> promotion[p].mode,
        at |-> IF promotion[p].mode = "stage" THEN "staged" ELSE "copied",
        bundle |-> bundle]]
  /\ UNCHANGED <<commits, head, work, edits, build, artifact, receipts, output,
                 attested, deployed, from>>

\* Mutant: what was compared is not looked at again after it is copied.
CopiesOnTrust(p) ==
  /\ promotion[p].at = "checked"
  /\ Copied(p, Bundle(promotion[p].id, promotion[p].seconds, artifact))

\* build_bundle copies the files it compared a moment ago, and what it copied is
\* validated again.
PromoteCopies(p) ==
  LET bundle == Bundle(promotion[p].id, promotion[p].seconds, artifact) IN
  /\ promotion[p].at = "checked"
  /\ ExistingBundle(bundle, work.engine)
  /\ Copied(p, bundle)

\* What Opera recorded of its run.  An exchange with a worker has a sequence number, a
\* worker, a candidate and its safety revision; a safety probe was given a credit and
\* answered with the work it used and, when it found a mate, a proof of it; a research
\* was sent proofs and says whether it visited the newest of them.
RunComplete(run) == run.complete /\ run.seconds < Limit /\ run.selected = "b2b3"
RunBalanced(run) == run.rejections = 2 /\ run.repairs = 1 /\ run.vetoes = 1

SafetyTrace(t) == t.used > 0 /\ t.used <= t.credit /\ t.credit <= Reserve
ResearchTrace(t) == t.proofs # <<>> /\ IsInjective(t.proofs)
RawTraces(run) ==
  /\ run.safety # {} /\ \A t \in run.safety : SafetyTrace(t)
  /\ run.research # {} /\ \A t \in run.research : ResearchTrace(t)

\* _validate_safety_repair_crosslink: the proof of the found mate goes to the worker
\* that owns the candidate, later, under the next revision.
CrossLink(found, repair) ==
  /\ repair.worker = found.worker /\ repair.sequence > found.sequence
  /\ repair.candidate = found.candidate /\ repair.revision = found.revision + 1
  /\ repair.proofs[Len(repair.proofs)] = found.proof

\* The rejected candidate was found unsafe, repaired with that one proof, certified
\* warm, found unsafe by another proof, and then vetoed rather than repaired again.
RepairChain(run) ==
  \E found, again \in run.safety, repair, warm \in run.research :
    /\ found.status = "found" /\ again.status = "found"
    /\ {t \in run.safety : t.status = "found" /\ t.candidate = found.candidate} = {found, again}
    /\ CrossLink(found, repair) /\ repair.newest /\ Len(repair.proofs) = 1
    /\ warm = [repair EXCEPT !.sequence = warm.sequence, !.newest = FALSE]
    /\ warm.sequence > repair.sequence
    /\ again.sequence > warm.sequence /\ again.worker = warm.worker
    /\ again.candidate = found.candidate /\ again.revision = warm.revision
    /\ again.proof # found.proof
    /\ found.candidate = "f2f3" /\ run.vetoed = found.candidate
    \* FOUND stops the ladder: no shallower probe before the repair
    /\ ~ \E t \in run.safety : /\ found.sequence < t.sequence /\ t.sequence < repair.sequence
                               /\ t.candidate = found.candidate /\ t.revision = found.revision
    /\ ~ \E t \in run.research : t.candidate = found.candidate /\ Len(t.proofs) > 1

\* The three boundary probes of the selected line, leaf first: each had the credit the
\* reserve allows, one unit kept for every probe to come, and was exhausted.
Spent(ladder, n) ==
  (IF n > 0 THEN ladder[1].used ELSE 0) + (IF n > 1 THEN ladder[2].used ELSE 0)
    + (IF n > 2 THEN ladder[3].used ELSE 0)
ProbeCredit(ladder, i) ==
  LET spare == Reserve - Spent(ladder, i - 1) - (3 - i) IN
  IF i < 3 /\ spare > ProbeLimit THEN ProbeLimit ELSE spare
LadderExhausted(run) ==
  /\ Len(run.ladder) = 3 /\ IsInjective(run.ladder)
  /\ \A i \in 1..3 : LET p == run.ladder[i] IN
       /\ p \in run.safety /\ p.candidate = run.selected
       /\ p.status = "exhausted" /\ p.credit = ProbeCredit(run.ladder, i)
       /\ i > 1 => /\ p.sequence > run.ladder[i - 1].sequence
                   /\ p.worker = run.ladder[i - 1].worker
                   /\ p.revision = run.ladder[i - 1].revision

\* A second run starved one probe into not knowing: the ladder went no further and the
\* depth was given up.
UnknownStops(run) == run.starved = [status |-> "unknown", shallower |-> 0, depth |-> 4]

\* Mutant: the attestation of another candidate of this artifact will do.
HorizonOfArtifact(a, bundle, assets) == a.bundle.wasm = bundle.wasm /\ a.assets = assets

\* validate_opera_checked_horizon_receipt: Opera was served these very bundle bytes,
\* and page scripts that the repository has, and its run was what it must be.
Served(a, bundle) == a.bundle = bundle
PageScripts(a, assets) == a.assets = assets
CheckedHorizon(a, bundle, assets) ==
  /\ Served(a, bundle) /\ PageScripts(a, assets)
  /\ LET run == Recorded[a.run] IN
       /\ RunComplete(run) /\ RunBalanced(run) /\ RawTraces(run)
       /\ RepairChain(run) /\ LadderExhausted(run) /\ UnknownStops(run)

PromoteAttests(p) ==
  /\ promotion[p].at = "copied"
  /\ \E a \in attested :
       /\ CheckedHorizon(a, promotion[p].bundle, work.assets)
       /\ promotion' = [promotion EXCEPT ![p] =
            [out |-> promotion[p].out, at |-> "staged", mode |-> "promote",
             id |-> promotion[p].id, evidence |-> promotion[p].evidence,
             bundle |-> promotion[p].bundle, checked |-> a]]
  /\ UNCHANGED <<commits, head, work, edits, build, artifact, receipts, output,
                 attested, deployed, from>>

\* What the staging directory holds when it is moved to its place.
Staged(p) ==
  IF promotion[p].mode = "stage" THEN [what |-> "candidate", bundle |-> promotion[p].bundle]
  ELSE [what |-> "release", id |-> promotion[p].id, evidence |-> promotion[p].evidence,
        bundle |-> promotion[p].bundle, checked |-> promotion[p].checked]

\* Mutant: the move replaces what another promotion put there meanwhile.
PromoteReplaces(p) ==
  /\ promotion[p].at = "staged"
  /\ output' = [output EXCEPT ![promotion[p].out] = Staged(p)]
  /\ promotion' = [promotion EXCEPT ![p] = [at |-> "done"]]
  /\ UNCHANGED <<commits, head, work, edits, build, artifact, receipts, attested,
                 deployed, from>>

\* staging.replace(output): renaming onto a directory that is there by now fails.
PromotePublishes(p) ==
  /\ promotion[p].at = "staged" /\ output[promotion[p].out] = None
  /\ output' = [output EXCEPT ![promotion[p].out] = Staged(p)]
  /\ promotion' = [promotion EXCEPT ![p] = [at |-> "done"]]
  /\ UNCHANGED <<commits, head, work, edits, build, artifact, receipts, attested,
                 deployed, from>>

\* Someone serves a candidate with the page of the checkout to Opera and records it.
Attest(o) ==
  /\ output[o] # None /\ output[o].what = "candidate"
  /\ Cardinality(attested) < MaxAttested
  /\ \E run \in DOMAIN Recorded :
       attested' = attested \cup {[bundle |-> output[o].bundle, assets |-> work.assets,
                                   run |-> run]}
  /\ UNCHANGED <<commits, head, work, edits, build, artifact, receipts, promotion, output,
                 deployed, from>>

-----------------------------------------------------------------------------
\* The operator edits a part of the sources (never while a build runs, see README).
Edit ==
  /\ edits < MaxEdits /\ ~ Building
  /\ \/ work' = [work EXCEPT !.engine = 1 - @]
     \/ work' = [work EXCEPT !.assets = 1 - @]
     \/ work' = [work EXCEPT !.shell = 1 - @]
  /\ edits' = edits + 1
  /\ UNCHANGED <<commits, head, build, artifact, receipts, promotion, output, attested,
                 deployed, from>>

\* The operator puts a release, or only its bundle, into the tree.
CopyRelease(o) ==
  /\ output[o] # None
  /\ \/ output[o].what = "release" /\ work' = [work EXCEPT !.release = output[o]]
     \/ work.release # None /\ work' = [work EXCEPT !.release.bundle = output[o].bundle]
     \/ work' = [work EXCEPT !.mirror = output[o].bundle]
  /\ UNCHANGED <<commits, head, edits, build, artifact, receipts, promotion, output,
                 attested, deployed, from>>

Commit ==
  /\ Len(commits) < MaxCommits /\ ~ CleanCheckout
  /\ commits' = Append(commits,
       [engine |-> work.engine, assets |-> work.assets, shell |-> work.shell,
        release |-> work.release, mirror |-> work.mirror, parent |-> head])
  /\ head' = Len(commits) + 1
  /\ UNCHANGED <<work, edits, build, artifact, receipts, promotion, output, attested,
                 deployed, from>>

\* git checkout of a commit, or of the one checked out, dropping changes.
Checkout(c) ==
  /\ ~ Building
  /\ head' = c /\ work' = Tree(commits[c])
  /\ UNCHANGED <<commits, edits, build, artifact, receipts, promotion, output, attested,
                 deployed, from>>

-----------------------------------------------------------------------------
\* Mutant: a release may come with other changes.
AnyCommit(c) ==
  c.parent = c.release.id.revision /\ c.release # commits[c.parent].release

\* _validate_artifact_commit: the sole parent is the source revision, and the commit
\* replaces the release and changes nothing but the release and its mirror.
ArtifactCommit(c) ==
  LET parent == commits[c.parent] IN
  /\ c.parent = c.release.id.revision
  /\ SameSources(c, parent)
  /\ c.release # parent.release

\* _validate_static_mirrors
StaticMirrors(c) == c.mirror = c.release.bundle

\* _validate_semantic_evidence: all gates, the certificates and the attestation again,
\* from the release's own files and the sources and page of the commit.
DeployedBuild(c) == c.release.id.engine = c.engine
SemanticEvidence(c) ==
  LET r == c.release IN
  /\ DeployedBuild(c)
  /\ Gates(r.evidence, r.id)
  /\ Certified(r.evidence, r.bundle.seconds)
  /\ CheckedHorizon(r.checked, r.bundle, c.assets)

\* _validate_certificates, _validate_browser_bundle: the embedded certificates are the
\* release's, and the bundle is what they certify.
ReleaseCertificates(r) == \A k \in DOMAIN r.bundle.cert : r.bundle.cert[k] = r.id
BrowserBundle(c) == ExistingBundle(c.release.bundle, c.engine)

\* validate_promoted_release on a clean checkout of c.
Admitted(c) ==
  /\ c.release # None /\ c.parent # None
  /\ ReleaseCertificates(c.release)
  /\ SemanticEvidence(c)
  /\ BrowserBundle(c)
  /\ ArtifactCommit(c)
  /\ StaticMirrors(c)

Deploy(i) ==
  /\ Admitted(commits[i])
  /\ deployed' = deployed \cup {i}
  /\ UNCHANGED <<commits, head, work, edits, build, artifact, receipts, promotion, output,
                 attested, from>>

Init ==
  /\ commits = <<[engine |-> 0, assets |-> 0, shell |-> 0, release |-> None,
                  mirror |-> None, parent |-> None]>>
  /\ head = 1 /\ work = Tree(commits[1]) /\ edits = 0
  /\ build = [b \in Builds |-> [at |-> "idle"]]
  /\ artifact = None
  /\ receipts = [b \in Builds |-> None] /\ attested = {} /\ deployed = {}
  /\ promotion = [p \in Promotions |-> [at |-> "idle"]]
  /\ output = [o \in Outputs |-> None]
  /\ from = [b \in Builds |-> None]

Promoting(p) ==
  \/ PromoteStarts(p) \/ PromoteChecks(p) \/ PromoteCopies(p) \/ PromoteAttests(p)
  \/ PromotePublishes(p)

Next ==
  \/ \E b \in Builds : BuildHashes(b) \/ BuildCompiles(b) \/ BuildRecords(b) \/ Measure(b)
  \/ \E p \in Promotions : Promoting(p)
  \/ \E o \in Outputs : Attest(o) \/ CopyRelease(o)
  \/ Edit \/ Commit
  \/ \E i \in DOMAIN commits : Checkout(i) \/ Deploy(i)

Spec == Init /\ [][Next]_vars

-----------------------------------------------------------------------------
\* Nothing was found against the selected line, with credit for every probe and within
\* the reserve, and nothing was searched for a mate between a find and its repair.
SafelySelected(run) ==
  /\ \A i \in 1..3 : run.ladder[i].status = "exhausted" /\ run.ladder[i].credit > 0
  /\ Spent(run.ladder, 3) <= Reserve
  /\ run.vetoed # run.selected

\* A visitor of the site gets bundle bytes and page scripts that Opera ran together,
\* around an artifact that passed every gate itself, in a run whose boundary probes all
\* had credit and together stayed within the reserve, whatever was rebuilt, edited,
\* mixed or committed on the way (docs/browser-wasm-release-promotion.md).
DeployedIsAttested ==
  \A i \in deployed : LET c == commits[i] IN
    /\ \E a \in attested :
         a.bundle = c.mirror /\ a.assets = c.assets /\ SafelySelected(Recorded[a.run])
    /\ \A k \in Kinds : \E b \in Measured :
         Receipt(b, k).id.wasm = c.mirror.wasm /\ Receipt(b, k).passed

\* The artifact was compiled from the engine sources it is deployed with, and page
\* and engine are those of the revision that was checked out when it was built.
DeployedIsReviewed ==
  \A i \in deployed : LET c == commits[i] IN
    /\ from[c.mirror.wasm] = c.engine
    /\ \E b \in Builds : build[b].at = "done" /\ build[b].id.wasm = c.mirror.wasm
         /\ SameSources(commits[build[b].id.revision], c)

\* A candidate or release that is on disk holds the bytes its certificates certify,
\* though the artifact may be linked anew while it is bundled.
CertifiedBytes ==
  \A o \in Outputs : output[o] # None => LET b == output[o].bundle IN
    \A k \in DOMAIN b.cert : b.cert[k].wasm = b.wasm

\* Of promotions racing for one output one wins, and its files stay.
OutputsStay == [][\A o \in Outputs : output[o] # None => output'[o] = output[o]]_vars
=============================================================================
