--------------------------- MODULE ReleaseProofs ----------------------------
(***************************************************************************)
(* What Release promises, for every number of builds, promotions, output   *)
(* directories, attestations and commits: an output stays, it holds the    *)
(* bytes its certificates certify, and what is deployed was attested and   *)
(* is compiled from the sources it is deployed with.                       *)
(***************************************************************************)
EXTENDS Release, SequenceTheorems, TLAPS

\* What the files and the memories of the commands can hold.
Versions == {0, 1}
Ids == [revision : Nat, engine : Versions, wasm : Builds]
Bundles == [cert : [{"prefix", "root_session", "mate"} -> Ids], seconds : Seconds,
            wasm : Builds \cup {None}]
Attestations == [bundle : Bundles, assets : Versions, run : DOMAIN Recorded]
Candidates == [what : {"candidate"}, bundle : Bundles]
Releases == [what : {"release"}, id : Ids, evidence : [Kinds -> Builds], bundle : Bundles,
             checked : Attestations]
Trees == [engine : Versions, assets : Versions, shell : Versions,
          release : Releases \cup {None}, mirror : Bundles \cup {None}]
Commits == [engine : Versions, assets : Versions, shell : Versions,
            release : Releases \cup {None}, mirror : Bundles \cup {None},
            parent : Nat \cup {None}]
GateReceipts == [fails : Kinds \cup {None}, seconds : Nat]

IdleBuilds == [at : {"idle"}]
OpenBuilds == [at : {"hashed", "linked"}, engine : Versions]
DoneBuilds == [at : {"done"}, id : Ids]

\* A promotion, from nothing through validated receipts and copied bundle to a release.
Waiting == [at : {"idle", "done"}]
Validated == [at : {"validated", "checked"}, id : Ids, evidence : [Kinds -> Builds],
              seconds : Seconds, out : Outputs, mode : {"stage", "promote"}]
Copies == [at : {"copied"}, id : Ids, evidence : [Kinds -> Builds], seconds : Seconds,
           out : Outputs, mode : {"promote"}, bundle : Bundles]
Stagings == [at : {"staged"}, id : Ids, evidence : [Kinds -> Builds], seconds : Seconds,
             out : Outputs, mode : {"stage"}, bundle : Bundles]
Attesting == [out : Outputs, at : {"staged"}, mode : {"promote"}, id : Ids,
              evidence : [Kinds -> Builds], bundle : Bundles, checked : Attestations]
PromotionStates == Waiting \cup Validated \cup Copies \cup Stagings \cup Attesting

TypeOK ==
  /\ commits \in Seq(Commits) /\ head \in DOMAIN commits /\ work \in Trees
  /\ build \in [Builds -> IdleBuilds \cup OpenBuilds \cup DoneBuilds]
  /\ artifact \in Builds \cup {None}
  /\ receipts \in [Builds -> GateReceipts \cup {None}]
  /\ promotion \in [Promotions -> PromotionStates]
  /\ output \in [Outputs -> Candidates \cup Releases \cup {None}]
  /\ attested \subseteq Attestations
  /\ deployed \subseteq DOMAIN commits
  /\ from \in [Builds -> Versions \cup {None}]

\* Builds do not overlap, and each compiles the sources it hashed.
Compiled ==
  /\ \A b, c \in Builds :
       build[b] \in OpenBuilds /\ build[c] \in OpenBuilds => b = c
  /\ \A b \in Builds :
       /\ build[b] \in OpenBuilds => build[b].engine = work.engine
       /\ build[b].at = "linked" => artifact = b /\ from[b] = build[b].engine
       /\ build[b].at = "done" => /\ build[b].id.wasm = b /\ from[b] = build[b].id.engine
                                  /\ build[b].id.revision \in DOMAIN commits
       /\ receipts[b] # None => build[b].at = "done"

\* A release in any place is of a build, of gates that were run, and of an attestation.
Built == {build[b].id : b \in {c \in Builds : build[c].at = "done"}}
Backed(id, e) == id \in Built /\ e \in [Kinds -> Measured]
Traced(r) == r # None /\ r.what = "release" => Backed(r.id, r.evidence) /\ r.checked \in attested
Supported ==
  /\ \A p \in Promotions :
       /\ promotion[p] \notin Waiting => Backed(promotion[p].id, promotion[p].evidence)
       /\ promotion[p] \in Attesting => promotion[p].checked \in attested
  /\ \A o \in Outputs : Traced(output[o])
  /\ Traced(work.release)
  /\ \A i \in DOMAIN commits : Traced(commits[i].release)

\* Every bundle that was copied holds what its certificates certify.
Exact(b) == \A k \in DOMAIN b.cert : b.cert[k].wasm = b.wasm
CopiesExact ==
  \A p \in Promotions : promotion[p] \in Copies \cup Stagings \cup Attesting => Exact(promotion[p].bundle)

IInv == TypeOK /\ Compiled /\ Supported /\ CopiesExact

-----------------------------------------------------------------------------
(* Which state a build, a promotion or an output is in follows from its mark. *)
LEMMA BuildShape ==
  ASSUME TypeOK, NEW b \in Builds
  PROVE  /\ build[b].at = "idle" <=> build[b] \in IdleBuilds
         /\ build[b].at \in {"hashed", "linked"} <=> build[b] \in OpenBuilds
         /\ build[b].at = "done" <=> build[b] \in DoneBuilds
         /\ build[b].at \in {"idle", "hashed", "linked", "done"}
  BY DEF TypeOK, IdleBuilds, OpenBuilds, DoneBuilds

LEMMA PromotionShape ==
  ASSUME TypeOK, NEW p \in Promotions
  PROVE  /\ promotion[p].at \in {"idle", "done"} <=> promotion[p] \in Waiting
         /\ promotion[p].at \in {"validated", "checked"} <=> promotion[p] \in Validated
         /\ promotion[p].at = "copied" <=> promotion[p] \in Copies
         /\ promotion[p].at = "staged" <=> promotion[p] \in Stagings \cup Attesting
         /\ promotion[p] \in Stagings => promotion[p].mode = "stage"
         /\ promotion[p] \in Copies \cup Attesting => promotion[p].mode = "promote"
  BY DEF TypeOK, PromotionStates, Waiting, Validated, Copies, Stagings, Attesting

LEMMA OutputShape ==
  ASSUME TypeOK, NEW o \in Outputs, output[o] # None
  PROVE  /\ output[o].what = "candidate" <=> output[o] \in Candidates
         /\ output[o].what = "release" <=> output[o] \in Releases
         /\ output[o].bundle \in Bundles
  BY DEF TypeOK, Candidates, Releases

LEMMA NewBundle ==
  ASSUME NEW id \in Ids, NEW s \in Seconds, NEW w \in Builds \cup {None}
  PROVE  Bundle(id, s, w) \in Bundles
  BY DEF Bundle, Bundles

LEMMA CommitShape ==
  ASSUME TypeOK, NEW c \in DOMAIN commits
  PROVE  commits[c] \in Commits /\ Tree(commits[c]) \in Trees /\ c \in Nat /\ c > 0
<1>1. commits \in Seq(Commits)
  BY DEF TypeOK
<1>2. commits[c] \in Commits /\ c \in Nat /\ c > 0
  BY <1>1
<1>3. QED
  BY <1>2 DEF Commits, Trees, Tree

-----------------------------------------------------------------------------
(* Every step keeps the types. *)
LEMMA TypeBuilds ==
  ASSUME TypeOK, Compiled, NEW b \in Builds,
         BuildHashes(b) \/ BuildCompiles(b) \/ BuildRecords(b) \/ Measure(b)
  PROVE  TypeOK'
<1>1. CASE BuildHashes(b)
  <2>1. [at |-> "hashed", engine |-> work.engine] \in OpenBuilds
    BY DEF TypeOK, OpenBuilds, Trees
  <2>2. QED
    BY <1>1, <2>1 DEF BuildHashes, TypeOK
<1>2. CASE BuildCompiles(b)
  <2>1. build[b] \in OpenBuilds
    BY <1>2, BuildShape DEF BuildCompiles
  <2>2. [build[b] EXCEPT !.at = "linked"] \in OpenBuilds
    BY <2>1 DEF OpenBuilds
  <2>3. work.engine \in Versions
    BY DEF TypeOK, Trees
  <2>4. QED
    BY <1>2, <2>2, <2>3 DEF BuildCompiles, TypeOK
<1>3. CASE BuildRecords(b)
  <2>1. build[b] \in OpenBuilds /\ artifact = b
    BY <1>3, BuildShape DEF BuildRecords, Compiled
  <2>2. head \in Nat
    BY CommitShape DEF TypeOK
  <2>3. [at |-> "done", id |-> [revision |-> head, engine |-> build[b].engine,
                                wasm |-> artifact]] \in DoneBuilds
    BY <2>1, <2>2 DEF DoneBuilds, OpenBuilds, Ids
  <2>4. QED
    BY <1>3, <2>3 DEF BuildRecords, TypeOK
<1>4. CASE Measure(b)
  <2>1. PICK o \in ({None} \X Seconds) \cup (Faulty \X {0}) :
          receipts' = [receipts EXCEPT ![b] = [fails |-> o[1], seconds |-> o[2]]]
    BY <1>4 DEF Measure
  <2>2. [fails |-> o[1], seconds |-> o[2]] \in GateReceipts
    <3>1. CASE o \in {None} \X Seconds
      <4>1. PICK x \in {None}, y \in Seconds : o = <<x, y>>
        BY <3>1
      <4>2. QED
        BY <4>1, ReleaseAssumption DEF GateReceipts
    <3>2. CASE o \in Faulty \X {0}
      <4>1. PICK x \in Faulty, y \in {0} : o = <<x, y>>
        BY <3>2
      <4>2. QED
        BY <4>1, ReleaseAssumption DEF GateReceipts
    <3>3. QED
      BY <2>1, <3>1, <3>2
  <2>3. QED
    BY <1>4, <2>1, <2>2 DEF Measure, TypeOK
<1>5. QED
  BY <1>1, <1>2, <1>3, <1>4

LEMMA TypePromotions ==
  ASSUME TypeOK, Compiled, NEW p \in Promotions, Promoting(p)
  PROVE  TypeOK'
<1>1. CASE PromoteStarts(p)
  <2>1. PICK b \in Builds, e \in Given :
          /\ BuildReceipt(b) /\ SourceCheckout(build[b].id)
          /\ Gates(e, build[b].id)
          /\ \E s \in Seconds, o \in Outputs, mode \in {"stage", "promote"} :
               /\ Certified(e, s)
               /\ promotion' = [promotion EXCEPT ![p] =
                    [at |-> "validated", id |-> build[b].id, evidence |-> e,
                     seconds |-> s, out |-> o, mode |-> mode]]
    BY <1>1 DEF PromoteStarts
  <2>2. PICK s \in Seconds, o \in Outputs, mode \in {"stage", "promote"} :
          promotion' = [promotion EXCEPT ![p] =
            [at |-> "validated", id |-> build[b].id, evidence |-> e,
             seconds |-> s, out |-> o, mode |-> mode]]
    BY <2>1
  <2>3. build[b].id \in Ids
    BY <2>1, BuildShape DEF BuildReceipt, DoneBuilds
  <2>4. e \in [Kinds -> Builds]
    BY DEF Given, Measured
  <2>5. [at |-> "validated", id |-> build[b].id, evidence |-> e,
         seconds |-> s, out |-> o, mode |-> mode] \in Validated
    BY <2>3, <2>4 DEF Validated
  <2>6. QED
    BY <1>1, <2>2, <2>5 DEF PromoteStarts, TypeOK, PromotionStates
<1>2. CASE PromoteChecks(p)
  <2>1. promotion[p] \in Validated
    BY <1>2, PromotionShape DEF PromoteChecks
  <2>2. [promotion[p] EXCEPT !.at = "checked"] \in Validated
    BY <2>1 DEF Validated
  <2>3. QED
    BY <1>2, <2>2 DEF PromoteChecks, TypeOK, PromotionStates
<1>3. CASE PromoteCopies(p)
  <2> DEFINE bundle == Bundle(promotion[p].id, promotion[p].seconds, artifact)
             new == [id |-> promotion[p].id, evidence |-> promotion[p].evidence,
                     seconds |-> promotion[p].seconds, out |-> promotion[p].out,
                     mode |-> promotion[p].mode,
                     at |-> IF promotion[p].mode = "stage" THEN "staged" ELSE "copied",
                     bundle |-> bundle]
  <2>1. promotion[p] \in Validated
    BY <1>3, PromotionShape DEF PromoteCopies
  <2>2. bundle \in Bundles
    BY <2>1, NewBundle DEF Validated, TypeOK
  <2> HIDE DEF bundle
  <2>3. new \in Copies \cup Stagings
    BY <2>1, <2>2 DEF Validated, Copies, Stagings
  <2>4. /\ promotion' = [promotion EXCEPT ![p] = new]
        /\ UNCHANGED <<commits, head, work, edits, build, artifact, receipts, output,
                       attested, deployed, from>>
    BY <1>3 DEF PromoteCopies, Copied, bundle
  <2> HIDE DEF new
  <2>5. QED
    BY <2>3, <2>4 DEF TypeOK, PromotionStates
<1>4. CASE PromoteAttests(p)
  <2>1. PICK a \in attested :
          promotion' = [promotion EXCEPT ![p] =
            [out |-> promotion[p].out, at |-> "staged", mode |-> "promote",
             id |-> promotion[p].id, evidence |-> promotion[p].evidence,
             bundle |-> promotion[p].bundle, checked |-> a]]
    BY <1>4 DEF PromoteAttests
  <2>2. promotion[p] \in Copies /\ a \in Attestations
    BY <1>4, PromotionShape DEF PromoteAttests, TypeOK
  <2>3. [out |-> promotion[p].out, at |-> "staged", mode |-> "promote",
         id |-> promotion[p].id, evidence |-> promotion[p].evidence,
         bundle |-> promotion[p].bundle, checked |-> a] \in Attesting
    BY <2>2 DEF Copies, Attesting
  <2>4. QED
    BY <1>4, <2>1, <2>3 DEF PromoteAttests, TypeOK, PromotionStates
<1>5. CASE PromotePublishes(p)
  <2>1. Staged(p) \in Candidates \cup Releases
    <3>1. CASE promotion[p] \in Stagings
      BY <3>1, PromotionShape DEF Staged, Stagings, Candidates
    <3>2. CASE promotion[p] \in Attesting
      BY <3>2, PromotionShape DEF Staged, Attesting, Releases
    <3>3. QED
      BY <1>5, <3>1, <3>2, PromotionShape DEF PromotePublishes
  <2>2. [at |-> "done"] \in Waiting
    BY DEF Waiting
  <2>3. QED
    BY <1>5, <2>1, <2>2 DEF PromotePublishes, TypeOK, PromotionStates
<1>6. QED
  BY <1>1, <1>2, <1>3, <1>4, <1>5 DEF Promoting

LEMMA TypeOperator ==
  ASSUME TypeOK,
         \/ \E o \in Outputs : Attest(o) \/ CopyRelease(o)
         \/ Edit \/ Commit
         \/ \E i \in DOMAIN commits : Checkout(i) \/ Deploy(i)
  PROVE  TypeOK'
<1>1. ASSUME NEW o \in Outputs, Attest(o)
      PROVE  TypeOK'
  <2>1. PICK run \in DOMAIN Recorded :
          attested' = attested \cup {[bundle |-> output[o].bundle, assets |-> work.assets,
                                      run |-> run]}
    BY <1>1 DEF Attest
  <2>2. [bundle |-> output[o].bundle, assets |-> work.assets, run |-> run] \in Attestations
    BY <1>1, OutputShape DEF Attest, Attestations, TypeOK, Trees
  <2>3. QED
    BY <1>1, <2>1, <2>2 DEF Attest, TypeOK
<1>2. ASSUME NEW o \in Outputs, CopyRelease(o)
      PROVE  TypeOK'
  <2>1. work' \in Trees
    <3>1. CASE output[o].what = "release" /\ work' = [work EXCEPT !.release = output[o]]
      BY <1>2, <3>1, OutputShape DEF CopyRelease, TypeOK, Trees
    <3>2. CASE work.release # None /\ work' = [work EXCEPT !.release.bundle = output[o].bundle]
      <4>1. work.release \in Releases /\ output[o].bundle \in Bundles
        BY <1>2, <3>2, OutputShape DEF CopyRelease, TypeOK, Trees
      <4>2. [work.release EXCEPT !.bundle = output[o].bundle] \in Releases
        BY <4>1 DEF Releases
      <4>3. QED
        BY <3>2, <4>2 DEF TypeOK, Trees
    <3>3. CASE work' = [work EXCEPT !.mirror = output[o].bundle]
      BY <1>2, <3>3, OutputShape DEF CopyRelease, TypeOK, Trees
    <3>4. QED
      BY <1>2, <3>1, <3>2, <3>3 DEF CopyRelease
  <2>2. QED
    BY <1>2, <2>1 DEF CopyRelease, TypeOK
<1>3. CASE Edit
  <2>1. work' \in Trees
    BY <1>3 DEF Edit, TypeOK, Trees, Versions
  <2>2. QED
    BY <1>3, <2>1 DEF Edit, TypeOK
<1>4. CASE Commit
  <2> DEFINE c == [engine |-> work.engine, assets |-> work.assets, shell |-> work.shell,
                   release |-> work.release, mirror |-> work.mirror, parent |-> head]
  <2>1. c \in Commits
    BY CommitShape DEF TypeOK, Trees, Commits
  <2>2. /\ commits' = Append(commits, c) /\ head' = Len(commits) + 1
        /\ UNCHANGED <<work, edits, build, artifact, receipts, promotion, output, attested,
                       deployed, from>>
    BY <1>4 DEF Commit
  <2> HIDE DEF c
  <2>3. commits' \in Seq(Commits) /\ head' \in DOMAIN commits' /\ DOMAIN commits \subseteq DOMAIN commits'
    BY <2>1, <2>2 DEF TypeOK
  <2>4. QED
    BY <2>2, <2>3 DEF TypeOK
<1>5. ASSUME NEW i \in DOMAIN commits, Checkout(i)
      PROVE  TypeOK'
  BY <1>5, CommitShape DEF Checkout, TypeOK
<1>6. ASSUME NEW i \in DOMAIN commits, Deploy(i)
      PROVE  TypeOK'
  BY <1>6 DEF Deploy, TypeOK
<1>7. QED
  BY <1>1, <1>2, <1>3, <1>4, <1>5, <1>6

LEMMA TypeStep ==
  ASSUME TypeOK, Compiled, [Next]_vars
  PROVE  TypeOK'
<1>1. CASE UNCHANGED vars
  BY <1>1 DEF vars, TypeOK
<1>2. CASE Next
  BY <1>2, TypeBuilds, TypePromotions, TypeOperator DEF Next
<1>3. QED
  BY <1>1, <1>2

-----------------------------------------------------------------------------
(* What no step takes back: a commit, a recorded build and what it was compiled *)
(* from, the receipts of its gates, an attestation.                             *)
Ratchet ==
  /\ \A i \in DOMAIN commits : i \in DOMAIN commits' /\ commits'[i] = commits[i]
  /\ \A b \in Builds :
       /\ build[b].at = "done" => build'[b] = build[b] /\ from'[b] = from[b]
       /\ receipts[b] # None => receipts'[b] = receipts[b]
  /\ Built \subseteq Built' /\ Measured \subseteq Measured' /\ attested \subseteq attested'

LEMMA BuiltStays ==
  ASSUME \A b \in Builds : build[b].at = "done" => build'[b] = build[b]
  PROVE  Built \subseteq Built'
  BY DEF Built

LEMMA RatchetStep ==
  ASSUME TypeOK, Compiled, [Next]_vars
  PROVE  Ratchet
<1> USE DEF TypeOK
<1>1. \A i \in DOMAIN commits : i \in DOMAIN commits' /\ commits'[i] = commits[i]
  <2>1. CASE Commit
    BY <2>1 DEF Commit
  <2>2. CASE commits' = commits
    BY <2>2
  <2>3. QED
    BY <2>1, <2>2 DEF Next, vars, Promoting, BuildHashes, BuildCompiles, BuildRecords,
       Measure, PromoteStarts, PromoteChecks, PromoteCopies, Copied, PromoteAttests,
       PromotePublishes, Attest, CopyRelease, Edit, Checkout, Deploy
<1>2. \A b \in Builds : build[b].at = "done" => build'[b] = build[b] /\ from'[b] = from[b]
  <2>1. ASSUME NEW b \in Builds, build[b].at = "done",
               NEW c \in Builds, BuildHashes(c) \/ BuildCompiles(c) \/ BuildRecords(c)
        PROVE  build'[b] = build[b] /\ from'[b] = from[b]
    BY <2>1 DEF BuildHashes, BuildCompiles, BuildRecords
  <2>2. CASE build' = build /\ from' = from
    BY <2>2
  <2>3. QED
    BY <2>1, <2>2 DEF Next, vars, Promoting, Measure, PromoteStarts, PromoteChecks,
       PromoteCopies, Copied, PromoteAttests, PromotePublishes, Attest, CopyRelease, Edit,
       Commit, Checkout, Deploy
<1>3. \A b \in Builds : receipts[b] # None => receipts'[b] = receipts[b]
  <2>1. ASSUME NEW b \in Builds, receipts[b] # None, NEW c \in Builds, Measure(c)
        PROVE  receipts'[b] = receipts[b]
    BY <2>1 DEF Measure
  <2>2. CASE receipts' = receipts
    BY <2>2
  <2>3. QED
    BY <2>1, <2>2 DEF Next, vars, Promoting, BuildHashes, BuildCompiles, BuildRecords,
       PromoteStarts, PromoteChecks, PromoteCopies, Copied, PromoteAttests,
       PromotePublishes, Attest, CopyRelease, Edit, Commit, Checkout, Deploy
<1>4. attested \subseteq attested'
  BY DEF Next, vars, Promoting, BuildHashes, BuildCompiles, BuildRecords, Measure,
     PromoteStarts, PromoteChecks, PromoteCopies, Copied, PromoteAttests,
     PromotePublishes, Attest, CopyRelease, Edit, Commit, Checkout, Deploy
<1>5. Built \subseteq Built'
  BY <1>2, BuiltStays
<1>6. Measured \subseteq Measured'
  BY <1>3 DEF Measured
<1>7. QED
  BY <1>1, <1>2, <1>3, <1>4, <1>5, <1>6 DEF Ratchet

-----------------------------------------------------------------------------
(* Builds stay apart, and compile what they hashed. *)
LEMMA BuildingIsOpen ==
  ASSUME TypeOK
  PROVE  ~ Building <=> \A b \in Builds : build[b] \notin OpenBuilds
  BY BuildShape DEF Building

LEMMA CompiledStep ==
  ASSUME TypeOK, Compiled, [Next]_vars
  PROVE  Compiled'
<1> USE DEF TypeOK
<1>0. TypeOK' /\ Ratchet
  BY TypeStep, RatchetStep
<1>1. ASSUME NEW b \in Builds, BuildHashes(b)
      PROVE  Compiled'
  <2>1. build'[b] \in OpenBuilds /\ build'[b].at = "hashed" /\ build'[b].engine = work.engine
    BY <1>1 DEF BuildHashes, OpenBuilds, Trees
  <2>2. \A c \in Builds : c # b => build'[c] = build[c] /\ build[c] \notin OpenBuilds
    BY <1>1, BuildingIsOpen DEF BuildHashes
  <2>3. UNCHANGED <<commits, work, artifact, receipts, from>> /\ build[b].at = "idle"
    BY <1>1 DEF BuildHashes
  <2>4. \A c \in Builds : c # b => build'[c].at # "linked"
    BY <2>2, BuildShape
  <2>5. QED
    BY <2>1, <2>2, <2>3, <2>4 DEF Compiled
<1>2. ASSUME NEW b \in Builds, BuildCompiles(b)
      PROVE  Compiled'
  <2>1. build[b] \in OpenBuilds
    BY <1>2, BuildShape DEF BuildCompiles
  <2>2. \A c \in Builds : c # b => build'[c] = build[c] /\ build[c] \notin OpenBuilds
    BY <1>2, <2>1 DEF BuildCompiles, Compiled
  <2>3. build'[b] = [build[b] EXCEPT !.at = "linked"] /\ artifact' = b
        /\ from' = [from EXCEPT ![b] = work.engine]
        /\ UNCHANGED <<commits, work, receipts>> /\ build[b].at = "hashed"
    BY <1>2 DEF BuildCompiles
  <2>4. build'[b].at = "linked" /\ build'[b].engine = build[b].engine
    BY <2>1, <2>3 DEF OpenBuilds
  <2>5. \A c \in Builds : c # b => build'[c].at # "linked" /\ from'[c] = from[c]
    BY <2>2, <2>3, BuildShape
  <2>6. build[b].engine = work.engine /\ from'[b] = work.engine
    BY <2>1, <2>3 DEF Compiled
  <2>7. artifact' = b /\ UNCHANGED <<commits, work, receipts>> /\ receipts[b] = None
    BY <2>3 DEF Compiled
  <2>8. QED
    BY <2>2, <2>4, <2>5, <2>6, <2>7 DEF Compiled
<1>3. ASSUME NEW b \in Builds, BuildRecords(b)
      PROVE  Compiled'
  <2>1. build[b] \in OpenBuilds /\ artifact = b /\ from[b] = build[b].engine
    BY <1>3, BuildShape DEF BuildRecords, Compiled
  <2>2. \A c \in Builds : c # b => build'[c] = build[c] /\ build[c] \notin OpenBuilds
    BY <1>3, <2>1 DEF BuildRecords, Compiled
  <2>3. /\ build'[b].at = "done"
        /\ build'[b].id = [revision |-> head, engine |-> build[b].engine, wasm |-> artifact]
        /\ UNCHANGED <<commits, work, artifact, receipts, from>>
    BY <1>3 DEF BuildRecords
  <2>4. build'[b] \notin OpenBuilds /\ head \in DOMAIN commits
    BY <2>3 DEF OpenBuilds
  <2>5. QED
    BY <2>1, <2>2, <2>3, <2>4 DEF Compiled
<1>4. ASSUME NEW b \in Builds, Measure(b)
      PROVE  Compiled'
  BY <1>4 DEF Measure, Compiled
<1>5. CASE /\ UNCHANGED <<build, artifact, receipts, from>>
           /\ work'.engine = work.engine \/ ~ Building
  <2>1. \A b \in Builds : build[b].at = "done" => build[b].id.revision \in DOMAIN commits'
    BY <1>0 DEF Compiled, Ratchet
  <2>2. CASE ~ Building
    BY <1>5, <2>1, <2>2, BuildingIsOpen DEF Compiled
  <2>3. CASE work'.engine = work.engine
    BY <1>5, <2>1, <2>3 DEF Compiled
  <2>4. QED
    BY <1>5, <2>2, <2>3
<1>6. ASSUME NEW o \in Outputs, CopyRelease(o)
      PROVE  work'.engine = work.engine
  BY <1>6 DEF CopyRelease, Trees
<1>7. QED
  BY <1>1, <1>2, <1>3, <1>4, <1>5, <1>6 DEF Next, vars, Promoting, PromoteStarts,
     PromoteChecks, PromoteCopies, Copied, PromoteAttests, PromotePublishes, Attest,
     CopyRelease, Edit, Commit, Checkout, Deploy

-----------------------------------------------------------------------------
(* What is on disk, in memory or committed goes back to a build, its gates and an *)
(* attestation.                                                                    *)
LEMMA BackedStays ==
  ASSUME Ratchet, NEW id, NEW e, Backed(id, e)
  PROVE  id \in Built' /\ e \in [Kinds -> Measured']
  BY DEF Ratchet, Backed

LEMMA TracedStays ==
  ASSUME Ratchet, NEW r, Traced(r)
  PROVE  r # None /\ r.what = "release" => r.id \in Built' /\ r.evidence \in [Kinds -> Measured']
                           /\ r.checked \in attested'
  BY BackedStays DEF Ratchet, Traced

LEMMA SupportedStep ==
  ASSUME TypeOK, Compiled, Supported, [Next]_vars
  PROVE  Supported'
<1>0. TypeOK' /\ Ratchet
  BY TypeStep, RatchetStep
<1> DEFINE Sound(r) == r # None /\ r.what = "release" => /\ r.id \in Built' /\ r.evidence \in [Kinds -> Measured']
                                         /\ r.checked \in attested'
           Kept(s) == /\ s \notin Waiting => s.id \in Built' /\ s.evidence \in [Kinds -> Measured']
                      /\ s \in Attesting => s.checked \in attested'
<1>1. \A p \in Promotions : Kept(promotion[p])
  BY <1>0, BackedStays DEF Supported, Ratchet
<1>2. \A o \in Outputs : Sound(output[o])
  BY <1>0, TracedStays DEF Supported
<1>3. Sound(work.release)
  BY <1>0, TracedStays DEF Supported
<1>4. \A i \in DOMAIN commits : Sound(commits[i].release)
  BY <1>0, TracedStays DEF Supported
<1> SUFFICES /\ \A p \in Promotions : Kept(promotion'[p])
             /\ \A o \in Outputs : Sound(output'[o])
             /\ Sound(work'.release)
             /\ \A i \in DOMAIN commits' : Sound(commits'[i].release)
  BY DEF Supported, Traced, Backed
<1>5. \A p \in Promotions : Kept(promotion'[p])
  <2>1. ASSUME NEW p \in Promotions, NEW q \in Promotions, PromoteStarts(q)
        PROVE  Kept(promotion'[p])
    <3>1. PICK b \in Builds, e \in Given :
            /\ BuildReceipt(b) /\ SourceCheckout(build[b].id)
            /\ Gates(e, build[b].id)
            /\ \E s \in Seconds, o \in Outputs, mode \in {"stage", "promote"} :
                 /\ Certified(e, s)
                 /\ promotion' = [promotion EXCEPT ![q] =
                      [at |-> "validated", id |-> build[b].id, evidence |-> e,
                       seconds |-> s, out |-> o, mode |-> mode]]
      BY <2>1 DEF PromoteStarts
    <3>2. build[b].id \in Built /\ e \in [Kinds -> Measured]
      BY <3>1 DEF BuildReceipt, Built, Given
    <3>3. build[b].id \in Built' /\ e \in [Kinds -> Measured']
      BY <1>0, <3>2 DEF Ratchet
    <3>4. CASE p = q
      <4>1. promotion'[p].id = build[b].id /\ promotion'[p].evidence = e
            /\ promotion'[p].at = "validated"
        BY <3>1, <3>4 DEF TypeOK
      <4>2. promotion'[p] \notin Attesting
        BY <4>1 DEF Attesting
      <4>3. QED
        BY <3>3, <4>1, <4>2
    <3>5. CASE p # q
      BY <1>1, <3>1, <3>5 DEF TypeOK
    <3>6. QED
      BY <3>4, <3>5
  <2>2. ASSUME NEW p \in Promotions, NEW q \in Promotions, PromoteChecks(q)
        PROVE  Kept(promotion'[p])
    <3>1. promotion[q] \in Validated /\ promotion' = [promotion EXCEPT ![q].at = "checked"]
      BY <2>2, PromotionShape DEF PromoteChecks
    <3>2. CASE p = q
      <4>1. /\ promotion'[p].id = promotion[p].id
            /\ promotion'[p].evidence = promotion[p].evidence
            /\ promotion'[p].at = "checked"
        BY <3>1, <3>2 DEF TypeOK, Validated
      <4>2. promotion'[p] \notin Attesting /\ promotion[p] \notin Waiting
        BY <3>1, <3>2, <4>1 DEF Attesting, Waiting, Validated
      <4>3. QED
        BY <1>1, <4>1, <4>2
    <3>3. CASE p # q
      BY <1>1, <3>1, <3>3 DEF TypeOK
    <3>4. QED
      BY <3>2, <3>3
  <2>3. ASSUME NEW p \in Promotions, NEW q \in Promotions, PromoteCopies(q)
        PROVE  Kept(promotion'[p])
    <3>1. promotion[q] \in Validated
      BY <2>3, PromotionShape DEF PromoteCopies
    <3>2. PICK bundle :
            promotion' = [promotion EXCEPT ![q] =
              [id |-> promotion[q].id, evidence |-> promotion[q].evidence,
               seconds |-> promotion[q].seconds, out |-> promotion[q].out,
               mode |-> promotion[q].mode,
               at |-> IF promotion[q].mode = "stage" THEN "staged" ELSE "copied",
               bundle |-> bundle]]
      BY <2>3 DEF PromoteCopies, Copied
    <3>3. CASE p = q
      <4>1. /\ promotion'[p].id = promotion[p].id
            /\ promotion'[p].evidence = promotion[p].evidence
            /\ promotion'[p].at = IF promotion[q].mode = "stage" THEN "staged" ELSE "copied"
            /\ promotion'[p].mode = promotion[p].mode
        BY <3>2, <3>3 DEF TypeOK
      <4>2. promotion'[p] \notin Attesting /\ promotion[p] \notin Waiting
        BY <3>1, <3>3, <4>1 DEF Attesting, Waiting, Validated
      <4>3. QED
        BY <1>1, <4>1, <4>2
    <3>4. CASE p # q
      BY <1>1, <3>2, <3>4 DEF TypeOK
    <3>5. QED
      BY <3>3, <3>4
  <2>4. ASSUME NEW p \in Promotions, NEW q \in Promotions, PromoteAttests(q)
        PROVE  Kept(promotion'[p])
    <3>1. PICK a \in attested :
            promotion' = [promotion EXCEPT ![q] =
              [out |-> promotion[q].out, at |-> "staged", mode |-> "promote",
               id |-> promotion[q].id, evidence |-> promotion[q].evidence,
               bundle |-> promotion[q].bundle, checked |-> a]]
      BY <2>4 DEF PromoteAttests
    <3>2. promotion[q] \in Copies
      BY <2>4, PromotionShape DEF PromoteAttests
    <3>3. CASE p = q
      <4>1. /\ promotion'[p].id = promotion[p].id
            /\ promotion'[p].evidence = promotion[p].evidence
            /\ promotion'[p].checked = a
        BY <3>1, <3>3 DEF TypeOK
      <4>2. promotion[p] \notin Waiting /\ a \in attested'
        BY <1>0, <3>2, <3>3 DEF Waiting, Copies, Ratchet
      <4>3. QED
        BY <1>1, <4>1, <4>2
    <3>4. CASE p # q
      BY <1>1, <3>1, <3>4 DEF TypeOK
    <3>5. QED
      BY <3>3, <3>4
  <2>5. ASSUME NEW p \in Promotions, NEW q \in Promotions, PromotePublishes(q)
        PROVE  Kept(promotion'[p])
    <3>1. promotion' = [promotion EXCEPT ![q] = [at |-> "done"]]
      BY <2>5 DEF PromotePublishes
    <3>2. CASE p = q
      <4>1. promotion'[p] \in Waiting
        BY <3>1, <3>2 DEF TypeOK, Waiting
      <4>2. promotion'[p] \notin Attesting
        BY <4>1 DEF Waiting, Attesting
      <4>3. QED
        BY <4>1, <4>2
    <3>3. CASE p # q
      BY <1>1, <3>1, <3>3 DEF TypeOK
    <3>4. QED
      BY <3>2, <3>3
  <2>6. CASE promotion' = promotion
    BY <1>1, <2>6
  <2> HIDE DEF Kept
  <2>7. QED
    BY <2>1, <2>2, <2>3, <2>4, <2>5, <2>6 DEF Next, vars, Promoting, BuildHashes,
       BuildCompiles, BuildRecords, Measure, Attest, CopyRelease, Edit, Commit, Checkout,
       Deploy
<1>6. \A o \in Outputs : Sound(output'[o])
  <2>1. ASSUME NEW o \in Outputs, NEW q \in Promotions, PromotePublishes(q)
        PROVE  Sound(output'[o])
    <3>1. CASE output'[o] = output[o]
      BY <1>2, <3>1
    <3>2. CASE output'[o] = Staged(q) /\ promotion[q] \in Attesting
      <4>1. /\ output'[o].id = promotion[q].id
            /\ output'[o].evidence = promotion[q].evidence
            /\ output'[o].checked = promotion[q].checked
        BY <3>2, PromotionShape DEF Staged
      <4>2. promotion[q] \notin Waiting
        BY <3>2 DEF Attesting, Waiting
      <4>3. QED
        BY <1>1, <3>2, <4>1, <4>2
    <3>3. CASE output'[o] = Staged(q) /\ promotion[q] \in Stagings
      <4>1. output'[o].what = "candidate"
        BY <3>3, PromotionShape DEF Staged
      <4>2. QED
        BY <4>1
    <3>4. promotion[q] \in Stagings \cup Attesting
      BY <2>1, PromotionShape DEF PromotePublishes
    <3>5. output'[o] = output[o] \/ output'[o] = Staged(q)
      BY <2>1 DEF PromotePublishes, TypeOK
    <3>6. QED
      BY <3>1, <3>2, <3>3, <3>4, <3>5
  <2>2. CASE output' = output
    BY <1>2, <2>2
  <2> HIDE DEF Sound
  <2>3. QED
    BY <2>1, <2>2 DEF Next, vars, Promoting, BuildHashes, BuildCompiles, BuildRecords,
       Measure, PromoteStarts, PromoteChecks, PromoteCopies, Copied, PromoteAttests,
       Attest, CopyRelease, Edit, Commit, Checkout, Deploy
<1>7. Sound(work'.release)
  <2>1. ASSUME NEW o \in Outputs, CopyRelease(o)
        PROVE  Sound(work'.release)
    <3>1. CASE output[o].what = "release" /\ work' = [work EXCEPT !.release = output[o]]
      <4>1. work'.release = output[o]
        BY <3>1 DEF TypeOK, Trees
      <4>2. QED
        BY <1>2, <4>1
    <3>2. CASE work.release # None /\ work' = [work EXCEPT !.release.bundle = output[o].bundle]
      <4>1. work.release \in Releases
        BY <3>2 DEF TypeOK, Trees
      <4>2. work'.release = [work.release EXCEPT !.bundle = output[o].bundle]
        BY <3>2 DEF TypeOK, Trees
      <4>3. /\ work'.release.what = work.release.what /\ work'.release.id = work.release.id
            /\ work'.release.evidence = work.release.evidence
            /\ work'.release.checked = work.release.checked
        BY <4>1, <4>2 DEF Releases
      <4>4. QED
        BY <1>3, <3>2, <4>1, <4>3 DEF Releases
    <3>3. CASE work' = [work EXCEPT !.mirror = output[o].bundle]
      <4>1. work'.release = work.release
        BY <3>3 DEF TypeOK, Trees
      <4>2. QED
        BY <1>3, <4>1
    <3>4. QED
      BY <2>1, <3>1, <3>2, <3>3 DEF CopyRelease
  <2>2. ASSUME NEW i \in DOMAIN commits, Checkout(i)
        PROVE  Sound(work'.release)
    <3>1. work'.release = commits[i].release
      BY <2>2 DEF Checkout, Tree
    <3>2. QED
      BY <1>4, <3>1
  <2>3. CASE Edit
    <3>1. work'.release = work.release
      BY <2>3 DEF Edit, TypeOK, Trees
    <3>2. QED
      BY <1>3, <3>1
  <2>4. CASE work' = work
    BY <1>3, <2>4
  <2> HIDE DEF Sound
  <2>5. QED
    BY <2>1, <2>2, <2>3, <2>4 DEF Next, vars, Promoting, BuildHashes, BuildCompiles,
       BuildRecords, Measure, PromoteStarts, PromoteChecks, PromoteCopies, Copied,
       PromoteAttests, PromotePublishes, Attest, Commit, Deploy
<1>8. \A i \in DOMAIN commits' : Sound(commits'[i].release)
  <2>1. CASE Commit
    <3>1. ASSUME NEW i \in DOMAIN commits'
          PROVE  i \in DOMAIN commits \/ commits'[i].release = work.release
      BY <2>1 DEF Commit, TypeOK
    <3>2. QED
      BY <1>0, <1>3, <1>4, <3>1 DEF Ratchet
  <2>2. CASE commits' = commits
    BY <1>4, <2>2
  <2> HIDE DEF Sound
  <2>3. QED
    BY <2>1, <2>2 DEF Next, vars, Promoting, BuildHashes, BuildCompiles, BuildRecords,
       Measure, PromoteStarts, PromoteChecks, PromoteCopies, Copied, PromoteAttests,
       PromotePublishes, Attest, CopyRelease, Edit, Checkout, Deploy
<1>9. QED
  BY <1>5, <1>6, <1>7, <1>8

-----------------------------------------------------------------------------
(* What is copied into a bundle is compared with the certificates again. *)
LEMMA ComparedIsExact ==
  ASSUME NEW id, NEW s, NEW w, NEW engine, ExistingBundle(Bundle(id, s, w), engine)
  PROVE  Exact(Bundle(id, s, w))
  BY DEF ExistingBundle, PrefixCertificate, RootSessionCertificate, MateCertificate, Bundle,
     Exact

LEMMA CopiesExactStep ==
  ASSUME TypeOK, Compiled, CopiesExact, [Next]_vars
  PROVE  CopiesExact'
<1>0. TypeOK'
  BY TypeStep
<1> DEFINE Kept(s) == s \in Copies \cup Stagings \cup Attesting => Exact(s.bundle)
<1>1. \A p \in Promotions : Kept(promotion[p])
  BY DEF CopiesExact
<1> SUFFICES ASSUME NEW p \in Promotions
             PROVE  Kept(promotion'[p])
  BY DEF CopiesExact, Exact
<1>2. ASSUME NEW q \in Promotions, PromoteStarts(q)
      PROVE  Kept(promotion'[p])
  <2>1. PICK b \in Builds, e \in Given :
          /\ BuildReceipt(b) /\ SourceCheckout(build[b].id)
          /\ Gates(e, build[b].id)
          /\ \E s \in Seconds, o \in Outputs, mode \in {"stage", "promote"} :
               /\ Certified(e, s)
               /\ promotion' = [promotion EXCEPT ![q] =
                    [at |-> "validated", id |-> build[b].id, evidence |-> e,
                     seconds |-> s, out |-> o, mode |-> mode]]
    BY <1>2 DEF PromoteStarts
  <2>2. promotion'[p] = promotion[p] \/ promotion'[p].at = "validated"
    BY <2>1 DEF TypeOK
  <2>3. QED
    BY <1>1, <2>2 DEF Copies, Stagings, Attesting
<1>3. ASSUME NEW q \in Promotions, PromoteChecks(q)
      PROVE  Kept(promotion'[p])
  <2>1. promotion[q] \in Validated
    BY <1>3, PromotionShape DEF PromoteChecks
  <2>2. promotion'[p] = promotion[p] \/ promotion'[p].at = "checked"
    BY <1>3, <2>1 DEF PromoteChecks, TypeOK, Validated
  <2>3. QED
    BY <1>1, <2>2 DEF Copies, Stagings, Attesting
<1>4. ASSUME NEW q \in Promotions, PromoteCopies(q)
      PROVE  Kept(promotion'[p])
  <2> DEFINE bundle == Bundle(promotion[q].id, promotion[q].seconds, artifact)
  <2>1. Exact(bundle)
    BY <1>4, ComparedIsExact DEF PromoteCopies
  <2> HIDE DEF bundle
  <2>2. promotion' = [promotion EXCEPT ![q] =
          [id |-> promotion[q].id, evidence |-> promotion[q].evidence,
           seconds |-> promotion[q].seconds, out |-> promotion[q].out,
           mode |-> promotion[q].mode,
           at |-> IF promotion[q].mode = "stage" THEN "staged" ELSE "copied",
           bundle |-> bundle]]
    BY <1>4 DEF PromoteCopies, Copied, bundle
  <2>3. promotion'[p] = promotion[p] \/ promotion'[p].bundle = bundle
    BY <2>2 DEF TypeOK
  <2>4. QED
    BY <1>1, <2>1, <2>3
<1>5. ASSUME NEW q \in Promotions, PromoteAttests(q)
      PROVE  Kept(promotion'[p])
  <2>1. PICK a \in attested :
          promotion' = [promotion EXCEPT ![q] =
            [out |-> promotion[q].out, at |-> "staged", mode |-> "promote",
             id |-> promotion[q].id, evidence |-> promotion[q].evidence,
             bundle |-> promotion[q].bundle, checked |-> a]]
    BY <1>5 DEF PromoteAttests
  <2>2. promotion[q] \in Copies
    BY <1>5, PromotionShape DEF PromoteAttests
  <2>3. promotion'[p] = promotion[p] \/ promotion'[p].bundle = promotion[q].bundle
    BY <2>1 DEF TypeOK
  <2>4. QED
    BY <1>1, <2>2, <2>3
<1>6. ASSUME NEW q \in Promotions, PromotePublishes(q)
      PROVE  Kept(promotion'[p])
  <2>1. promotion'[p] = promotion[p] \/ promotion'[p].at = "done"
    BY <1>6 DEF PromotePublishes, TypeOK
  <2>2. QED
    BY <1>1, <2>1 DEF Copies, Stagings, Attesting
<1>7. CASE promotion' = promotion
  BY <1>1, <1>7
<1> HIDE DEF Kept
<1>8. QED
  BY <1>2, <1>3, <1>4, <1>5, <1>6, <1>7 DEF Next, vars, Promoting, BuildHashes,
     BuildCompiles, BuildRecords, Measure, Attest, CopyRelease, Edit, Commit, Checkout,
     Deploy

-----------------------------------------------------------------------------
LEMMA InitHolds == Init => IInv
<1> SUFFICES ASSUME Init
             PROVE  IInv
  OBVIOUS
<1>1. TypeOK
  <2>1. commits[1] \in Commits /\ commits \in Seq(Commits) /\ DOMAIN commits = {1}
    BY DEF Init, Commits, Versions
  <2>2. work \in Trees
    BY <2>1 DEF Init, Tree, Trees, Commits
  <2>3. [at |-> "idle"] \in IdleBuilds /\ [at |-> "idle"] \in Waiting
    BY DEF IdleBuilds, Waiting
  <2>4. QED
    BY <2>1, <2>2, <2>3 DEF Init, TypeOK, PromotionStates
<1>2. \A b \in Builds : build[b].at = "idle" /\ receipts[b] = None
  BY DEF Init
<1>3. Compiled
  BY <1>2 DEF Compiled, OpenBuilds
<1>4. Supported
  <2>2. \A p \in Promotions : promotion[p] \in Waiting /\ promotion[p] \notin Attesting
    BY DEF Init, Waiting, Attesting
  <2>3. work.release = None /\ \A i \in DOMAIN commits : commits[i].release = None
    BY DEF Init, Tree
  <2>4. \A o \in Outputs : output[o] = None
    BY DEF Init
  <2>5. QED
    BY <2>2, <2>3, <2>4 DEF Supported, Traced
<1>5. CopiesExact
  BY DEF CopiesExact, Init, Copies, Stagings, Attesting
<1>6. QED
  BY <1>1, <1>3, <1>4, <1>5 DEF IInv

LEMMA InvariantStep == IInv /\ [Next]_vars => IInv'
  BY TypeStep, CompiledStep, SupportedStep, CopiesExactStep DEF IInv

\* Whatever is in memory, on disk or in the history goes back to one completed build, to
\* receipts of gates that were run and to an attestation on disk: validate_evidence and
\* _validate_build_receipt look at files that may have changed since.
THEOREM EverythingTraced == Spec => []IInv
  BY InitHolds, InvariantStep, PTL DEF Spec

\* Nothing recorded is taken back: no commit, no build receipt, no gate receipt and no
\* attestation changes once it is there.
THEOREM RecordsStay == Spec => [][Ratchet]_vars
<1>1. IInv /\ [Next]_vars => [Ratchet]_vars
  BY RatchetStep DEF IInv
<1>2. QED
  BY <1>1, EverythingTraced, PTL DEF Spec

\* OutputsStay: of promotions racing for one output one wins, and its files stay
\* (staging.replace in promote_release and stage_release_candidate).
THEOREM OutputsAreFinal == Spec => OutputsStay
<1>1. IInv /\ [Next]_vars => [\A o \in Outputs : output[o] # None => output'[o] = output[o]]_vars
  <2> SUFFICES ASSUME IInv, [Next]_vars, NEW o \in Outputs, output[o] # None
               PROVE  output'[o] = output[o]
    OBVIOUS
  <2>1. ASSUME NEW p \in Promotions, PromotePublishes(p)
        PROVE  output'[o] = output[o]
    BY <2>1 DEF PromotePublishes, IInv, TypeOK
  <2>2. CASE output' = output
    BY <2>2
  <2>3. QED
    BY <2>1, <2>2 DEF Next, vars, Promoting, BuildHashes, BuildCompiles, BuildRecords,
       Measure, PromoteStarts, PromoteChecks, PromoteCopies, Copied, PromoteAttests,
       Attest, CopyRelease, Edit, Commit, Checkout, Deploy
<1>2. QED
  BY <1>1, EverythingTraced, PTL DEF Spec, OutputsStay

\* CertifiedBytes: a candidate or release on disk holds the bytes its certificates
\* certify, though the artifact may be linked anew while it is bundled (build_bundle).
THEOREM BytesAreCertified == Spec => []CertifiedBytes
<1>1. Init => CertifiedBytes
  BY DEF Init, CertifiedBytes
<1>2. IInv /\ CertifiedBytes /\ [Next]_vars => CertifiedBytes'
  <2> SUFFICES ASSUME IInv, CertifiedBytes, [Next]_vars, NEW o \in Outputs, output'[o] # None
               PROVE  Exact(output'[o].bundle)
    BY DEF CertifiedBytes, Exact
  <2>1. ASSUME NEW p \in Promotions, PromotePublishes(p)
        PROVE  Exact(output'[o].bundle)
    <3>1. Exact(promotion[p].bundle)
      BY <2>1, PromotionShape DEF PromotePublishes, IInv, CopiesExact
    <3>2. Staged(p).bundle = promotion[p].bundle
      BY DEF Staged
    <3>3. output'[o] = output[o] \/ output'[o] = Staged(p)
      BY <2>1 DEF PromotePublishes, IInv, TypeOK
    <3>4. CASE output'[o] = output[o]
      BY <3>4 DEF CertifiedBytes, Exact
    <3>5. CASE output'[o] = Staged(p)
      BY <3>1, <3>2, <3>5
    <3>6. QED
      BY <3>3, <3>4, <3>5
  <2>2. CASE output' = output
    BY <2>2 DEF CertifiedBytes, Exact
  <2>3. QED
    BY <2>1, <2>2 DEF Next, vars, Promoting, BuildHashes, BuildCompiles, BuildRecords,
       Measure, PromoteStarts, PromoteChecks, PromoteCopies, Copied, PromoteAttests,
       Attest, CopyRelease, Edit, Commit, Checkout, Deploy
<1>3. QED
  BY <1>1, <1>2, EverythingTraced, PTL DEF Spec

-----------------------------------------------------------------------------
(* A commit that is admitted. *)
LEMMA LadderIsSafe ==
  ASSUME NEW r \in DOMAIN Recorded, RunComplete(Recorded[r]), RawTraces(Recorded[r]),
         RepairChain(Recorded[r]), LadderExhausted(Recorded[r])
  PROVE  SafelySelected(Recorded[r])
<1> DEFINE run == Recorded[r]
           ladder == run.ladder
<1>1. \A i \in 1..3 : /\ ladder[i].used \in Nat /\ ladder[i].credit \in Nat
                      /\ ladder[i].used > 0 /\ ladder[i].used <= ladder[i].credit
                      /\ ladder[i].status = "exhausted"
                      /\ ladder[i].credit = ProbeCredit(ladder, i)
  BY RecordedAssumption DEF RawTraces, SafetyTrace, LadderExhausted
<1>2. ladder[3].used <= ProbeCredit(ladder, 3)
  BY <1>1
<1>3. ProbeCredit(ladder, 3) = Reserve - (ladder[1].used + ladder[2].used)
  BY <1>1, ReleaseAssumption DEF ProbeCredit, Spent
<1>4. Spent(ladder, 3) = ladder[1].used + ladder[2].used + ladder[3].used
  BY <1>1 DEF Spent
<1>5. Spent(ladder, 3) <= Reserve
  BY <1>1, <1>2, <1>3, <1>4, ReleaseAssumption
<1>6. \A i \in 1..3 : ladder[i].status = "exhausted" /\ ladder[i].credit > 0
  BY <1>1
<1>7. run.vetoed # run.selected
  BY DEF RunComplete, RepairChain
<1>8. QED
  BY <1>5, <1>6, <1>7 DEF SafelySelected

Attests(i) ==
  /\ \E a \in attested : /\ a.bundle = commits[i].mirror /\ a.assets = commits[i].assets
                         /\ SafelySelected(Recorded[a.run])
  /\ \A k \in Kinds : \E b \in Measured :
       Receipt(b, k).id.wasm = commits[i].mirror.wasm /\ Receipt(b, k).passed
Reviews(i) ==
  /\ from[commits[i].mirror.wasm] = commits[i].engine
  /\ \E b \in Builds : /\ build[b].at = "done" /\ build[b].id.wasm = commits[i].mirror.wasm
                       /\ SameSources(commits[build[b].id.revision], commits[i])

LEMMA AdmittedShape ==
  ASSUME TypeOK, NEW i \in DOMAIN commits, Admitted(commits[i])
  PROVE  /\ commits[i].release \in Releases /\ commits[i].mirror = commits[i].release.bundle
         /\ commits[i].mirror.wasm = commits[i].release.id.wasm
<1>1. commits[i].release \in Releases
  BY CommitShape DEF Admitted, Commits
<1>2. commits[i].mirror = commits[i].release.bundle
  BY DEF Admitted, StaticMirrors
<1>3. commits[i].release.bundle \in Bundles
  BY <1>1 DEF Releases
<1>4. "mate" \in DOMAIN commits[i].release.bundle.cert
  BY <1>3 DEF Bundles
<1>5. commits[i].release.bundle.cert["mate"] = commits[i].release.id
  BY <1>4 DEF Admitted, ReleaseCertificates
<1>6. commits[i].release.bundle.cert["mate"].wasm = commits[i].release.bundle.wasm
  BY DEF Admitted, BrowserBundle, ExistingBundle, MateCertificate
<1>7. QED
  BY <1>1, <1>2, <1>5, <1>6

LEMMA AdmittedIsAttested ==
  ASSUME IInv, NEW i \in DOMAIN commits, Admitted(commits[i])
  PROVE  Attests(i)
<1> DEFINE c == commits[i]
           r == c.release
<1>1. r \in Releases /\ r.what = "release" /\ c.mirror = r.bundle /\ c.mirror.wasm = r.id.wasm
  BY AdmittedShape DEF IInv, Releases
<1>2. r # None /\ Traced(r)
  BY DEF IInv, Supported, Admitted
<1>3. r.checked \in attested /\ r.evidence \in [Kinds -> Measured]
  BY <1>1, <1>2 DEF Traced, Backed
<1>4. SemanticEvidence(c)
  BY DEF Admitted
<1>5. \E a \in attested :
        a.bundle = c.mirror /\ a.assets = c.assets /\ SafelySelected(Recorded[a.run])
  <2> DEFINE a == r.checked
  <2>1. a.bundle = r.bundle /\ a.assets = c.assets
    BY <1>4 DEF SemanticEvidence, CheckedHorizon, Served, PageScripts
  <2>2. a.run \in DOMAIN Recorded
    BY <1>3 DEF IInv, TypeOK, Attestations
  <2>3. /\ RunComplete(Recorded[a.run]) /\ RawTraces(Recorded[a.run])
        /\ RepairChain(Recorded[a.run]) /\ LadderExhausted(Recorded[a.run])
    BY <1>4 DEF SemanticEvidence, CheckedHorizon
  <2>4. SafelySelected(Recorded[a.run])
    BY <2>2, <2>3, LadderIsSafe
  <2>5. QED
    BY <1>1, <1>3, <2>1, <2>4
<1>6. \A k \in Kinds : Receipt(r.evidence[k], k).id = r.id /\ Receipt(r.evidence[k], k).passed
  <2>1. Gates(r.evidence, r.id)
    BY <1>4 DEF SemanticEvidence
  <2>2. QED
    BY <2>1 DEF Gates, RootSmoke, RootParity, PrefixParity, BrowserPrefix, MateParity, Opera,
       Passes, Kinds
<1>7. \A k \in Kinds : \E b \in Measured :
        Receipt(b, k).id.wasm = c.mirror.wasm /\ Receipt(b, k).passed
  <2> SUFFICES ASSUME NEW k \in Kinds
               PROVE  \E b \in Measured :
                        Receipt(b, k).id.wasm = c.mirror.wasm /\ Receipt(b, k).passed
    OBVIOUS
  <2>1. r.evidence[k] \in Measured
    BY <1>3
  <2>2. QED
    BY <1>1, <1>6, <2>1
<1>8. QED
  BY <1>5, <1>7 DEF Attests

LEMMA AdmittedIsReviewed ==
  ASSUME IInv, NEW i \in DOMAIN commits, Admitted(commits[i])
  PROVE  Reviews(i)
<1> DEFINE c == commits[i]
           r == c.release
<1>1. r \in Releases /\ r.what = "release" /\ c.mirror.wasm = r.id.wasm
  BY AdmittedShape DEF IInv, Releases
<1>2. r # None /\ Traced(r)
  BY DEF IInv, Supported, Admitted
<1>3. PICK b \in Builds : build[b].at = "done" /\ build[b].id = r.id
  BY <1>1, <1>2 DEF Traced, Backed, Built
<1>4. r.id.wasm = b /\ from[b] = r.id.engine
  BY <1>3 DEF IInv, Compiled
<1>5. r.id.engine = c.engine
  BY DEF Admitted, SemanticEvidence, DeployedBuild
<1>6. c.parent = r.id.revision /\ SameSources(c, commits[c.parent])
  BY DEF Admitted, ArtifactCommit
<1>7. QED
  BY <1>1, <1>3, <1>4, <1>5, <1>6 DEF Reviews, SameSources

\* What was true of a commit when it was admitted stays true.
LEMMA AttestsStays ==
  ASSUME IInv, Ratchet, NEW i \in DOMAIN commits, Attests(i)
  PROVE  Attests(i)'
<1>1. \A b \in Measured : \A k \in Kinds : Receipt(b, k)' = Receipt(b, k)
  BY DEF Measured, Receipt, Ratchet, IInv, Compiled
<1>2. commits'[i] = commits[i] /\ attested \subseteq attested' /\ Measured \subseteq Measured'
  BY DEF Ratchet
<1>3. QED
  BY <1>1, <1>2 DEF Attests

LEMMA ReviewsStays ==
  ASSUME IInv, Ratchet, NEW i \in DOMAIN commits, Reviews(i)
  PROVE  Reviews(i)'
<1>1. PICK b \in Builds : /\ build[b].at = "done" /\ build[b].id.wasm = commits[i].mirror.wasm
                          /\ SameSources(commits[build[b].id.revision], commits[i])
  BY DEF Reviews
<1>2. /\ build'[b] = build[b] /\ from'[b] = from[b] /\ commits'[i] = commits[i]
  BY <1>1 DEF Ratchet
<1>3. commits[i].mirror.wasm = b /\ build[b].id.revision \in DOMAIN commits
  BY <1>1 DEF IInv, Compiled
<1>4. commits'[build[b].id.revision] = commits[build[b].id.revision]
  BY <1>3 DEF Ratchet
<1>5. QED
  BY <1>1, <1>2, <1>3, <1>4 DEF Reviews

LEMMA NewlyDeployed ==
  ASSUME TypeOK, [Next]_vars, NEW i \in deployed'
  PROVE  i \in DOMAIN commits /\ (i \in deployed \/ Admitted(commits[i]))
<1>1. CASE i \in deployed
  BY <1>1 DEF TypeOK
<1>2. ASSUME NEW j \in DOMAIN commits, Deploy(j)
      PROVE  i \in DOMAIN commits /\ (i \in deployed \/ Admitted(commits[i]))
  BY <1>1, <1>2 DEF Deploy
<1>3. CASE deployed' = deployed
  BY <1>1, <1>3
<1>4. QED
  BY <1>2, <1>3 DEF Next, vars, Promoting, BuildHashes, BuildCompiles, BuildRecords,
     Measure, PromoteStarts, PromoteChecks, PromoteCopies, Copied, PromoteAttests,
     PromotePublishes, Attest, CopyRelease, Edit, Commit, Checkout

\* DeployedIsAttested: a visitor of the site gets bundle bytes and page scripts that
\* Opera ran together, around an artifact that passed every gate itself, in a run whose
\* boundary probes stayed within the reserve (validate_promoted_release).
THEOREM SiteIsAttested == Spec => []DeployedIsAttested
<1>1. Init => DeployedIsAttested
  BY DEF Init, DeployedIsAttested
<1>2. IInv /\ DeployedIsAttested /\ [Next]_vars => DeployedIsAttested'
  <2> SUFFICES ASSUME IInv, DeployedIsAttested, [Next]_vars, NEW i \in deployed'
               PROVE  Attests(i)'
    BY DEF DeployedIsAttested, Attests
  <2>1. Ratchet
    BY RatchetStep DEF IInv
  <2>2. i \in DOMAIN commits /\ Attests(i)
    BY NewlyDeployed, AdmittedIsAttested DEF IInv, DeployedIsAttested, Attests
  <2>3. QED
    BY <2>1, <2>2, AttestsStays
<1>3. QED
  BY <1>1, <1>2, EverythingTraced, PTL DEF Spec

\* DeployedIsReviewed: the artifact was compiled from the engine sources it is deployed
\* with, and page and engine are those of the revision it was built from
\* (_validate_artifact_commit, _validate_deployed_build_evidence).
THEOREM SiteIsReviewed == Spec => []DeployedIsReviewed
<1>1. Init => DeployedIsReviewed
  BY DEF Init, DeployedIsReviewed
<1>2. IInv /\ DeployedIsReviewed /\ [Next]_vars => DeployedIsReviewed'
  <2> SUFFICES ASSUME IInv, DeployedIsReviewed, [Next]_vars, NEW i \in deployed'
               PROVE  Reviews(i)'
    BY DEF DeployedIsReviewed, Reviews
  <2>1. Ratchet
    BY RatchetStep DEF IInv
  <2>2. i \in DOMAIN commits /\ Reviews(i)
    BY NewlyDeployed, AdmittedIsReviewed DEF IInv, DeployedIsReviewed, Reviews
  <2>3. QED
    BY <2>1, <2>2, ReviewsStays
<1>3. QED
  BY <1>1, <1>2, EverythingTraced, PTL DEF Spec
=============================================================================
