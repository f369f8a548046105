----------------------------- MODULE TeacherFit -----------------------------
(***************************************************************************)
(* fit_deep_teacher_value.py: the three commands that turn a labelled      *)
(* corpus into one-shot holdout evidence.  split-artifacts writes the two  *)
(* halves of a corpus, fit trains models on the train half and freezes     *)
(* them in a receipt, evaluate-holdout opens the sealed half once.  Runs   *)
(* of the commands are processes that share directories and the claim      *)
(* registry of the Git common directory; files can change under them       *)
(* between two commands.  A run killed at any point is one that takes no   *)
(* further step (Spec has no fairness); SplitTorn is the kill whose mark   *)
(* stays on disk.                                                          *)
(*                                                                         *)
(* A label set is the set of its semantic keys; a digest is the value it   *)
(* commits to.  The frozen implementation and the rejected leader's        *)
(* profile are version numbers.  A manifest may declare the corpus its     *)
(* sealed half is made from; that file is another one that can change.     *)
(***************************************************************************)
EXTENDS Naturals, FiniteSets

CONSTANTS Splits, Fits, Evaluations,  \* the runs of each command
          Preregs,                    \* preregistration manifests
          ClaimKey,                   \* cycle schema and sealed seed of each
          Contract,                   \* the generation contract of each
          Declared,                   \* sealed_holdout.artifact_source of each
          Corpora,                    \* combined teacher corpora on disk
          SplitDirs, FitDirs, ResultDirs,
          MaxEdits,                   \* bound on the versions of a shared file
          MaxChanged,                 \* bound on the files changed at a time
          LeaderReturns,              \* bound: may the leader's be put back?
          None, Torn

Runs == Splits \cup Fits \cup Evaluations

ASSUME TeacherAssumption ==
  /\ Splits \cap Fits = {} /\ (Splits \cup Fits) \cap Evaluations = {}
  /\ \A c \in Corpora : {"contract", "train", "holdout"} \subseteq DOMAIN c
  /\ \A p \in Preregs : Declared[p] \in Corpora \cup {None}
  /\ MaxEdits \in Nat /\ MaxChanged \in Nat /\ LeaderReturns \in BOOLEAN

VARIABLES
  run,        \* the runs: how far each came, its arguments and what it read
  code,       \* version of the frozen implementation in the checkout
  leader,     \* version of the rejected leader's profile
  intact,     \* declared corpora whose file is there with the declared bytes
  split,      \* directory -> the train and sealed_holdout artifacts in it
  models,     \* directory -> model files in it
  receipt,    \* directory -> deep-teacher-fit-receipt.json
  temp,       \* directory -> its temporary next to the receipt
  claim,      \* claim key -> who reserved it
  result,     \* directory -> deep-teacher-holdout-receipt.json
  opened      \* history: evaluations that scored a sealed artifact, with what

vars == <<run, code, leader, intact, split, models, receipt, temp, claim, result, opened>>

Keys == UNION {c.train \cup c.holdout : c \in Corpora}
Claims == {ClaimKey[p] : p \in Preregs}
DeclaredSources == {Declared[p] : p \in Preregs} \ {None}

\* One half of a corpus: its keys, its counterpart's, the corpus both come from
\* (the label payloads) and the preregistration it was made under.
Artifact(p, c, half) ==
  [prereg |-> p, half |-> half, source |-> c,
   keys  |-> IF half = "train" THEN c.train ELSE c.holdout,
   other |-> IF half = "train" THEN c.holdout ELSE c.train]
Artifacts == {Artifact(p, c, h) : p \in Preregs, c \in Corpora, h \in {"train", "holdout"}}

ASSUME MarkAssumption ==
  None # Torn /\ None \notin Evaluations /\ Artifacts \cap {None, Torn} = {}

Versions == 0..MaxEdits
Idle == [at |-> "idle"]

\* How a run ends; what it read is gone with it.
Over == {"done", "failed", "dead"}
At(r, step) == run[r].at = step
Goes(r, step) == run' = [run EXCEPT ![r].at = step]
Ends(r, how) == run' = [run EXCEPT ![r] = [at |-> how]]

-----------------------------------------------------------------------------
\* _load_preregistration: the manifest's frozen implementation is the checkout's
\* (version 0 is the one every manifest froze).
Loads(p) == code = 0

\* The labels were generated and taught under the contract of the manifest.
Combined(c, p) == c.contract = Contract[p]

\* _read_declared_artifact_source, _require_labels_derived_from_declared_source: the
\* file the manifest declares for this half is read, and holds these labels.
Derived(a, p) ==
  a.half = "holdout" /\ Declared[p] # None =>
    Declared[p] \in intact /\ a.keys = Declared[p].holdout

\* _validate_split_preregistration_provenance: the labels of a half are those of its
\* declared source, if any, and were taught under the manifest's contract.
Provenance(a, p) == Derived(a, p) /\ a.source.contract = Contract[p]

\* _validate_split_artifact: the half asked for, bound to this manifest and to the
\* corpus it declares, with commitments that match its labels.
ValidArtifact(a, p, half) ==
  /\ a \in Artifacts /\ a.prereg = p /\ a.half = half
  /\ half = "holdout" => Declared[p] \in {None, a.source}
  /\ Provenance(a, p)

\* _require_clean_cross_artifact_split, also the splitter's own audit.
Clean(train, holdout) == train \cap holdout = {}

\* _materialize_labels: labels there are, and no key on both sides.
Materialized(train, holdout) == train \cup holdout # {} /\ Clean(train, holdout)

\* split-artifacts: everything is validated before the first byte is written.
SplitStarts(s) ==
  \E p \in Preregs, c \in Corpora, d \in SplitDirs :
    /\ At(s, "idle")
    /\ Loads(p)
    /\ split[d] = [h \in {"train", "holdout"} |-> None]
    /\ Combined(c, p)
    /\ Materialized(c.train, c.holdout) /\ Clean(c.train, c.holdout)
    /\ \A h \in {"train", "holdout"} : ValidArtifact(Artifact(p, c, h), p, h)
    /\ run' = [run EXCEPT ![s] = [at |-> "train", prereg |-> p, corpus |-> c, dir |-> d]]
    /\ UNCHANGED <<code, leader, intact, split, models, receipt, temp, claim, result, opened>>

\* Mutant: the halves are written like any other file.
SplitOverwrites(s, half) ==
  LET d == run[s].dir IN
  /\ At(s, half)
  /\ split' = [split EXCEPT ![d][half] = Artifact(run[s].prereg, run[s].corpus, half)]
  /\ IF half = "train" THEN Goes(s, "holdout") ELSE Ends(s, "done")
  /\ UNCHANGED <<code, leader, intact, models, receipt, temp, claim, result, opened>>

\* _exclusive_json: O_EXCL reserves the name, so another splitter's file stays.
SplitWrites(s, half) ==
  LET d == run[s].dir IN
  /\ At(s, half)
  /\ IF split[d][half] = None
     THEN /\ split' = [split EXCEPT ![d][half] = Artifact(run[s].prereg, run[s].corpus, half)]
          /\ IF half = "train" THEN Goes(s, "holdout") ELSE Ends(s, "done")
     ELSE Ends(s, "failed") /\ UNCHANGED split
  /\ UNCHANGED <<code, leader, intact, models, receipt, temp, claim, result, opened>>

\* A splitter killed between the exclusive create and the last byte.
SplitTorn(s, half) ==
  /\ At(s, half) /\ split[run[s].dir][half] = None
  /\ split' = [split EXCEPT ![run[s].dir][half] = Torn]
  /\ Ends(s, "dead")
  /\ UNCHANGED <<code, leader, intact, models, receipt, temp, claim, result, opened>>

-----------------------------------------------------------------------------
\* fit: reads one snapshot of the train artifact and of the leader's profile.
FitStarts(f) ==
  \E p \in Preregs, s \in SplitDirs, d \in FitDirs :
    /\ At(f, "idle")
    /\ Loads(p)
    /\ models[d] = {} /\ receipt[d] = None /\ temp[d] = None
    /\ ValidArtifact(split[s]["train"], p, "train")
    /\ run' = [run EXCEPT ![f] = [at |-> "models", prereg |-> p, dir |-> d, from |-> s,
                                  train |-> split[s]["train"], leader |-> leader]]
    /\ UNCHANGED <<code, leader, intact, split, models, receipt, temp, claim, result, opened>>

\* The models go under names that hold their content identity.
Model(f) == [train |-> run[f].train, by |-> f]

FitWritesModels(f) ==
  /\ At(f, "models")
  /\ models' = [models EXCEPT ![run[f].dir] = @ \cup {Model(f)}]
  /\ Goes(f, "receipt")
  /\ UNCHANGED <<code, leader, intact, split, receipt, temp, claim, result, opened>>

\* _fit_receipt_base: hashes of the inputs read at the start, of the model on
\* disk and of the implementation on disk when the receipt is written.
FitReceipt(f) ==
  [prereg |-> run[f].prereg, from |-> run[f].from, train |-> run[f].train,
   model |-> Model(f), dir |-> run[f].dir, code |-> code, leader |-> run[f].leader]

\* _atomic_json, first half.  The temporary has one name per target: with another
\* writer between its two halves either one's text or a mixture is left there.
FitWritesReceipt(f) ==
  LET d == run[f].dir
      shared == \E g \in Fits \ {f} : At(g, "replace") /\ run[g].dir = d IN
  /\ At(f, "receipt")
  /\ temp' = [temp EXCEPT ![d] = FitReceipt(f)] \/ (shared /\ temp' = [temp EXCEPT ![d] = Torn])
  /\ Goes(f, "replace")
  /\ UNCHANGED <<code, leader, intact, split, models, receipt, claim, result, opened>>

\* _atomic_json, second half: the replace fails when the temporary has gone.
FitPublishes(f) ==
  LET d == run[f].dir IN
  /\ At(f, "replace")
  /\ IF temp[d] = None
     THEN Ends(f, "failed") /\ UNCHANGED <<receipt, temp>>
     ELSE /\ receipt' = [receipt EXCEPT ![d] = temp[d]]
          /\ temp' = [temp EXCEPT ![d] = None]
          /\ Ends(f, "done")
  /\ UNCHANGED <<code, leader, intact, split, models, claim, result, opened>>

-----------------------------------------------------------------------------
\* Mutants: the receipt of another manifest, or of a changed implementation, will do.
UnsealedAnyManifest(p, r) ==
  /\ r # None /\ r # Torn
  /\ r.code = code /\ r.leader = leader
  /\ split[r.from]["train"] = r.train
  /\ r.model \in models[r.dir]
UnsealedAnyCode(p, r) ==
  /\ r # None /\ r # Torn
  /\ r.prereg = p /\ r.leader = leader
  /\ split[r.from]["train"] = r.train
  /\ r.model \in models[r.dir]

\* evaluate-holdout, first part: every unsealed input is checked against the fit
\* receipt; a run that fails here has reserved nothing.
Unsealed(p, r) ==
  /\ r # None /\ r # Torn
  /\ r.prereg = p
  /\ r.code = code
  /\ split[r.from]["train"] = r.train
  /\ ValidArtifact(r.train, p, "train")
  /\ r.leader = leader
  /\ r.model \in models[r.dir] /\ r.model.train = r.train

EvaluateStarts(e) ==
  \E p \in Preregs, d \in FitDirs, s \in SplitDirs, o \in ResultDirs :
    /\ At(e, "idle")
    /\ Loads(p)
    /\ result[o] = None
    /\ Unsealed(p, receipt[d])
    /\ run' = [run EXCEPT ![e] = [at |-> "validated", prereg |-> p, sealed |-> s,
                                  out |-> o, fit |-> receipt[d]]]
    /\ UNCHANGED <<code, leader, intact, split, models, receipt, temp, claim, result, opened>>

\* Mutant: a claim that is written over.
ClaimsAgain(e) ==
  /\ At(e, "validated")
  /\ claim' = [claim EXCEPT ![ClaimKey[run[e].prereg]] = e] /\ Goes(e, "claimed")
  /\ UNCHANGED <<code, leader, intact, split, models, receipt, temp, result, opened>>

\* _exclusive_json on _holdout_claim_path: the marker comes before the first look.
EvaluateClaims(e) ==
  LET k == ClaimKey[run[e].prereg] IN
  /\ At(e, "validated")
  /\ IF claim[k] = None
     THEN claim' = [claim EXCEPT ![k] = e] /\ Goes(e, "claimed")
     ELSE Ends(e, "failed") /\ UNCHANGED claim
  /\ UNCHANGED <<code, leader, intact, split, models, receipt, temp, result, opened>>

\* The pair of halves: each commits to the other's keys and label payloads.
Paired(train, holdout) ==
  /\ holdout.other = train.keys /\ holdout.keys = train.other
  /\ holdout.source = train.source

\* The sealed artifact is opened, validated and scored by the frozen models.  A
\* failure from here on burns the claim for nothing.
EvaluateScores(e) ==
  LET r == run[e]
      a == split[r.sealed]["holdout"] IN
  /\ At(e, "claimed")
  /\ IF /\ ValidArtifact(a, r.prereg, "holdout")
        /\ Paired(r.fit.train, a)
        /\ Clean(r.fit.train.keys, a.keys)
     THEN /\ opened' = opened \cup {[by |-> e, key |-> ClaimKey[r.prereg], fit |-> r.fit,
                                     labels |-> a]}
          /\ Goes(e, "scored")
     ELSE Ends(e, "failed") /\ UNCHANGED opened
  /\ UNCHANGED <<code, leader, intact, split, models, receipt, temp, claim, result>>

\* The holdout receipt, passed or not, replaces whatever is at its path by now.
EvaluatePublishes(e) ==
  /\ At(e, "scored")
  /\ result' = [result EXCEPT ![run[e].out] = [by |-> e, fit |-> run[e].fit]]
  /\ Ends(e, "done")
  /\ UNCHANGED <<code, leader, intact, split, models, receipt, temp, claim, opened>>

-----------------------------------------------------------------------------
\* How many shared files are not as they were at the start.
Changed ==
  Cardinality({f \in {"code", "leader"} : [code |-> code, leader |-> leader][f] # 0})
  + Cardinality(DeclaredSources \ intact)

\* Someone edits the frozen implementation or the leader's profile, removes a
\* declared corpus, or puts one of them back.
Edit ==
  /\ \/ \E v \in Versions \ {code} : code' = v /\ UNCHANGED <<leader, intact>>
     \/ /\ \E v \in Versions \ {leader} : (v < leader => LeaderReturns) /\ leader' = v
        /\ UNCHANGED <<code, intact>>
     \/ /\ \E c \in DeclaredSources : intact' = (intact \ {c}) \cup ({c} \ intact)
        /\ UNCHANGED <<code, leader>>
  /\ Changed' <= MaxChanged
  /\ UNCHANGED <<run, split, models, receipt, temp, claim, result, opened>>

Init ==
  /\ run = [r \in Runs |-> Idle]
  /\ code = 0 /\ leader = 0 /\ intact = DeclaredSources
  /\ split = [d \in SplitDirs |-> [h \in {"train", "holdout"} |-> None]]
  /\ models = [d \in FitDirs |-> {}]
  /\ receipt = [d \in FitDirs |-> None]
  /\ temp = [d \in FitDirs |-> None]
  /\ claim = [k \in Claims |-> None]
  /\ result = [o \in ResultDirs |-> None]
  /\ opened = {}

Splitting(s) ==
  \/ SplitStarts(s)
  \/ \E half \in {"train", "holdout"} : SplitWrites(s, half) \/ SplitTorn(s, half)
Fitting(f) == FitStarts(f) \/ FitWritesModels(f) \/ FitWritesReceipt(f) \/ FitPublishes(f)
Evaluating(e) ==
  EvaluateStarts(e) \/ EvaluateClaims(e) \/ EvaluateScores(e) \/ EvaluatePublishes(e)

Next ==
  \/ \E s \in Splits : Splitting(s)
  \/ \E f \in Fits : Fitting(f)
  \/ \E e \in Evaluations : Evaluating(e)
  \/ Edit

Spec == Init /\ [][Next]_vars

-----------------------------------------------------------------------------
\* Shapes of the files and of the runs.
Models == [train : Artifacts, by : Fits]
Receipts == [prereg : Preregs, from : SplitDirs, train : Artifacts, model : Models,
             dir : FitDirs, code : Versions, leader : Versions]
Stopped == [at : Over \cup {"idle"}]
SplitRuns == [at : {"train", "holdout"}, prereg : Preregs, corpus : Corpora, dir : SplitDirs]
FitRuns == [at : {"models", "receipt", "replace"}, prereg : Preregs, dir : FitDirs,
            from : SplitDirs, train : Artifacts, leader : Versions]
EvaluationRuns == [at : {"validated", "claimed", "scored"}, prereg : Preregs,
                   sealed : SplitDirs, out : ResultDirs, fit : Receipts]

TypeOK ==
  /\ DOMAIN run = Runs
  /\ \A s \in Splits : run[s] \in Stopped \cup SplitRuns
  /\ \A f \in Fits : run[f] \in Stopped \cup FitRuns
  /\ \A e \in Evaluations : run[e] \in Stopped \cup EvaluationRuns
  /\ code \in Versions /\ leader \in Versions /\ intact \subseteq DeclaredSources
  /\ split \in [SplitDirs -> [{"train", "holdout"} -> Artifacts \cup {None, Torn}]]
  /\ models \in [FitDirs -> SUBSET Models]
  /\ receipt \in [FitDirs -> Receipts \cup {None, Torn}]
  /\ temp \in [FitDirs -> Receipts \cup {None, Torn}]
  /\ claim \in [Claims -> Evaluations \cup {None}]
  /\ result \in [ResultDirs -> [by : Evaluations, fit : Receipts] \cup {None}]
  /\ opened \subseteq [by : Evaluations, key : Claims, fit : Receipts, labels : Artifacts]

\* Whatever is refitted, copied, killed or run at once, a cycle's sealed seed is
\* scored at most once, and only by the run that reserved it
\* (docs/deep-teacher-one-shot-protocol.md, lines 3-16).
ScoredOnce ==
  /\ \A x \in opened : claim[x.key] = x.by
  /\ \A x, y \in opened : x.key = y.key => x = y

\* Splitters that race for a directory leave the halves of one corpus in it, so
\* its halves are a bound pair (_exclusive_json, _split_artifacts_command).
HalvesTogether ==
  \A d \in SplitDirs : LET t == split[d]["train"]  h == split[d]["holdout"] IN
    t \notin {None, Torn} /\ h \notin {None, Torn} => t.prereg = h.prereg /\ Paired(t, h)

\* A holdout is burned without being scored only when the run was killed, was given
\* a sealed half that is not the counterpart of the train half its models were
\* fitted on, or cannot read the corpus the manifest declares for the sealed half:
\* the train half, the fit receipt, its models and the leader cannot burn it.
BurnsOnlyMismatches ==
  [][\A e \in Evaluations :
       At(e, "claimed") /\ run'[e].at = "failed" =>
         LET a == split[run[e].sealed]  c == Declared[run[e].prereg] IN
         \/ a["holdout"] \in {None, Torn} \/ a["train"] # run[e].fit.train
         \/ c # None /\ c \notin intact]_vars

\* What a published result reports was frozen before the seed was reserved: the
\* models are still on disk, were trained under the same manifest by the frozen
\* implementation and share no key with the labels they were scored on.
EvidenceIsBlind ==
  \A o \in ResultDirs : result[o] # None =>
    \E x \in opened :
      /\ x.by = result[o].by /\ x.fit = result[o].fit
      /\ x.fit.prereg = x.labels.prereg
      /\ x.fit.code = 0
      /\ x.fit.model \in models[x.fit.dir]
      /\ x.fit.model.train = x.fit.train
      /\ Clean(x.fit.model.train.keys, x.labels.keys)
=============================================================================
