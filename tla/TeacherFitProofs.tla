-------------------------- MODULE TeacherFitProofs --------------------------
(***************************************************************************)
(* The one-shot holdout of TeacherFit, for every number of splitters, fits *)
(* and evaluations, all manifests, corpora and directories, and any number *)
(* of edits under them.                                                    *)
(***************************************************************************)
EXTENDS Teacher, TLAPS

-----------------------------------------------------------------------------
(* Types. *)

\* The runs of the commands are different runs.
LEMMA DifferentRuns ==
  /\ \A s \in Splits : s \in Runs /\ s \notin Fits /\ s \notin Evaluations
  /\ \A f \in Fits : f \in Runs /\ f \notin Evaluations
  /\ \A e \in Evaluations : e \in Runs
BY TeacherAssumption DEF Runs

\* A step of a run changes that run alone.
LEMMA OneRun ==
  ASSUME TypeOK, NEW r \in Runs, NEW v, run' = [run EXCEPT ![r] = v]
  PROVE  /\ DOMAIN run' = Runs
         /\ run'[r] = v
         /\ \A q \in Runs \ {r} : run'[q] = run[q]
BY DEF TypeOK

LEMMA SplittingTyped ==
  ASSUME TypeOK, NEW s \in Splits, Splitting(s)
  PROVE  TypeOK'
<1> USE DifferentRuns DEF At, Goes, Ends, Over, Stopped, SplitRuns
<1>1. CASE SplitStarts(s)
  BY <1>1 DEF SplitStarts, TypeOK
<1>2. ASSUME NEW half \in {"train", "holdout"}, SplitWrites(s, half)
      PROVE  TypeOK'
  <2>1. run[s] \in SplitRuns
    BY <1>2 DEF TypeOK, SplitWrites
  <2>2. Artifact(run[s].prereg, run[s].corpus, half) \in Artifacts
    BY <1>2, <2>1 DEF Artifacts
  <2>3. split' \in [SplitDirs -> [{"train", "holdout"} -> Artifacts \cup {None, Torn}]]
    BY <1>2, <2>1, <2>2 DEF TypeOK, SplitWrites
  <2>4. run'[s] \in Stopped \cup SplitRuns
        /\ DOMAIN run' = Runs /\ \A q \in Runs \ {s} : run'[q] = run[q]
    BY <1>2, <2>1 DEF TypeOK, SplitWrites
  <2> QED
    BY <1>2, <2>3, <2>4, ZenonT(40) DEF TypeOK, SplitWrites
<1>3. ASSUME NEW half \in {"train", "holdout"}, SplitTorn(s, half)
      PROVE  TypeOK'
  <2>1. run[s] \in SplitRuns
    BY <1>3 DEF TypeOK, SplitTorn
  <2>2. split' \in [SplitDirs -> [{"train", "holdout"} -> Artifacts \cup {None, Torn}]]
    BY <1>3, <2>1 DEF TypeOK, SplitTorn
  <2> QED
    BY <1>3, <2>1, <2>2 DEF TypeOK, SplitTorn
<1> QED
  BY <1>1, <1>2, <1>3 DEF Splitting

LEMMA FittingTyped ==
  ASSUME TypeOK, NEW f \in Fits, Fitting(f)
  PROVE  TypeOK'
<1> USE DifferentRuns DEF At, Goes, Ends, Over, Stopped, FitRuns
<1>1. CASE FitStarts(f)
  <2>1. PICK p \in Preregs, s \in SplitDirs, d \in FitDirs :
           /\ ValidArtifact(split[s]["train"], p, "train")
           /\ run' = [run EXCEPT ![f] = [at |-> "models", prereg |-> p, dir |-> d, from |-> s,
                                         train |-> split[s]["train"], leader |-> leader]]
    BY <1>1 DEF FitStarts
  <2>2. split[s]["train"] \in Artifacts
    BY <2>1 DEF ValidArtifact
  <2>3. leader \in Versions
    BY DEF TypeOK
  <2>4. run'[f] \in FitRuns
    BY <2>1, <2>2, <2>3 DEF TypeOK
  <2> QED
    BY <1>1, <2>1, <2>4 DEF TypeOK, FitStarts
<1>2. CASE FitWritesModels(f)
  <2>1. run[f] \in FitRuns
    BY <1>2 DEF TypeOK, FitWritesModels
  <2>2. Model(f) \in Models /\ run[f].dir \in FitDirs
    BY <2>1 DEF Model, Models
  <2>3. models' \in [FitDirs -> SUBSET Models]
    BY <1>2, <2>2 DEF TypeOK, FitWritesModels
  <2>4. run'[f] \in FitRuns /\ DOMAIN run' = Runs /\ \A q \in Runs \ {f} : run'[q] = run[q]
    BY <1>2, <2>1 DEF TypeOK, FitWritesModels
  <2> QED
    BY <1>2, <2>3, <2>4 DEF TypeOK, FitWritesModels
<1>3. CASE FitWritesReceipt(f)
  <2>1. run[f] \in FitRuns
    BY <1>3 DEF TypeOK, FitWritesReceipt
  <2>2. Model(f) \in Models /\ run[f].dir \in FitDirs /\ code \in Versions
    BY <2>1 DEF Model, Models, TypeOK
  <2>3. FitReceipt(f) \in Receipts
    BY <2>1, <2>2 DEF FitReceipt, Receipts
  <2>4. temp' \in [FitDirs -> Receipts \cup {None, Torn}]
    BY <1>3, <2>2, <2>3 DEF TypeOK, FitWritesReceipt
  <2>5. run'[f] \in FitRuns /\ DOMAIN run' = Runs /\ \A q \in Runs \ {f} : run'[q] = run[q]
    BY <1>3, <2>1 DEF TypeOK, FitWritesReceipt
  <2> QED
    BY <1>3, <2>4, <2>5 DEF TypeOK, FitWritesReceipt
<1>4. CASE FitPublishes(f)
  <2>1. run[f] \in FitRuns
    BY <1>4 DEF TypeOK, FitPublishes
  <2>2. run[f].dir \in FitDirs
    BY <2>1
  <2>3. /\ temp' \in [FitDirs -> Receipts \cup {None, Torn}]
        /\ receipt' \in [FitDirs -> Receipts \cup {None, Torn}]
    BY <1>4, <2>2 DEF TypeOK, FitPublishes
  <2>4. run'[f] \in Stopped /\ DOMAIN run' = Runs /\ \A q \in Runs \ {f} : run'[q] = run[q]
    BY <1>4 DEF TypeOK, FitPublishes
  <2> QED
    BY <1>4, <2>3, <2>4 DEF TypeOK, FitPublishes
<1> QED
  BY <1>1, <1>2, <1>3, <1>4 DEF Fitting

LEMMA EvaluatingTyped ==
  ASSUME TypeOK, NEW e \in Evaluations, Evaluating(e)
  PROVE  TypeOK'
<1> USE DifferentRuns DEF At, Goes, Ends, Over, Stopped, EvaluationRuns
<1>1. CASE EvaluateStarts(e)
  <2>1. PICK p \in Preregs, d \in FitDirs, s \in SplitDirs, o \in ResultDirs :
           /\ Unsealed(p, receipt[d])
           /\ run' = [run EXCEPT ![e] = [at |-> "validated", prereg |-> p, sealed |-> s,
                                         out |-> o, fit |-> receipt[d]]]
    BY <1>1 DEF EvaluateStarts
  <2>2. receipt[d] \in Receipts
    BY <2>1 DEF TypeOK, Unsealed
  <2>3. run'[e] \in EvaluationRuns
    BY <2>1, <2>2 DEF TypeOK
  <2> QED
    BY <1>1, <2>1, <2>3 DEF TypeOK, EvaluateStarts
<1>2. CASE EvaluateClaims(e)
  <2>1. run[e] \in EvaluationRuns
    BY <1>2 DEF TypeOK, EvaluateClaims
  <2>2. ClaimKey[run[e].prereg] \in Claims
    BY <2>1 DEF Claims
  <2>3. claim' \in [Claims -> Evaluations \cup {None}]
    BY <1>2, <2>2 DEF TypeOK, EvaluateClaims
  <2>4. run'[e] \in Stopped \cup EvaluationRuns
        /\ DOMAIN run' = Runs /\ \A q \in Runs \ {e} : run'[q] = run[q]
    BY <1>2, <2>1, SMTT(40) DEF TypeOK, EvaluateClaims
  <2> QED
    BY <1>2, <2>3, <2>4, SMTT(40) DEF TypeOK, EvaluateClaims
<1>3. CASE EvaluateScores(e)
  <2>1. run[e] \in EvaluationRuns
    BY <1>3 DEF TypeOK, EvaluateScores
  <2>2. opened' \subseteq [by : Evaluations, key : Claims, fit : Receipts, labels : Artifacts]
    BY <1>3, <2>1 DEF TypeOK, EvaluateScores, Claims, ValidArtifact
  <2>3. run'[e] \in Stopped \cup EvaluationRuns
        /\ DOMAIN run' = Runs /\ \A q \in Runs \ {e} : run'[q] = run[q]
    BY <1>3, <2>1 DEF TypeOK, EvaluateScores
  <2> QED
    BY <1>3, <2>2, <2>3 DEF TypeOK, EvaluateScores
<1>4. CASE EvaluatePublishes(e)
  <2>1. run[e] \in EvaluationRuns
    BY <1>4 DEF TypeOK, EvaluatePublishes
  <2>2. result' \in [ResultDirs -> [by : Evaluations, fit : Receipts] \cup {None}]
    BY <1>4, <2>1 DEF TypeOK, EvaluatePublishes
  <2>3. run'[e] \in Stopped /\ DOMAIN run' = Runs /\ \A q \in Runs \ {e} : run'[q] = run[q]
    BY <1>4 DEF TypeOK, EvaluatePublishes
  <2> QED
    BY <1>4, <2>2, <2>3 DEF TypeOK, EvaluatePublishes
<1> QED
  BY <1>1, <1>2, <1>3, <1>4 DEF Evaluating

\* Every file and every run has its shape (fit_deep_teacher_value.py).
THEOREM TypeCorrect == Spec => []TypeOK
<1>1. Init => TypeOK
  BY TeacherAssumption, DifferentRuns
  DEF Init, TypeOK, Idle, Stopped, Over, Versions
<1>2. TypeOK /\ [Next]_vars => TypeOK'
  <2> SUFFICES ASSUME TypeOK, [Next]_vars PROVE TypeOK'
    OBVIOUS
  <2>1. CASE \E s \in Splits : Splitting(s)
    BY <2>1, SplittingTyped
  <2>2. CASE \E f \in Fits : Fitting(f)
    BY <2>2, FittingTyped
  <2>3. CASE \E e \in Evaluations : Evaluating(e)
    BY <2>3, EvaluatingTyped
  <2>4. CASE Edit
    BY <2>4, TeacherAssumption DEF Edit, TypeOK, Versions
  <2>5. CASE UNCHANGED vars
    BY <2>5 DEF vars, TypeOK
  <2> QED BY <2>1, <2>2, <2>3, <2>4, <2>5 DEF Next
<1> QED
  BY <1>1, <1>2, PTL DEF Spec

-----------------------------------------------------------------------------
(* The claim registry. *)

\* A run past its claim holds it; a seed that was scored is claimed by the run
\* that scored it, which has gone past scoring.
Claimed ==
  /\ \A e \in Evaluations : run[e].at \in {"claimed", "scored"} =>
       claim[ClaimKey[run[e].prereg]] = e
  /\ \A x \in opened : /\ claim[x.key] = x.by
                       /\ run[x.by].at \notin {"idle", "validated", "claimed"}
  /\ \A x, y \in opened : x.key = y.key => x = y

\* What a splitter or a fit does is no business of the registry.
LEMMA OthersKeepClaims ==
  ASSUME TypeOK, Claimed, NEW r \in Splits \cup Fits, NEW v, run' = [run EXCEPT ![r] = v],
         UNCHANGED <<claim, opened>>
  PROVE  Claimed'
<1>1. \A e \in Evaluations : run'[e] = run[e]
  BY OneRun, DifferentRuns
<1>2. \A x \in opened : x.by \in Evaluations
  BY DEF TypeOK
<1> QED
  BY <1>1, <1>2 DEF Claimed

LEMMA EvaluationsKeepClaims ==
  ASSUME TypeOK, Claimed, NEW e \in Evaluations, Evaluating(e)
  PROVE  Claimed'
<1> USE DifferentRuns DEF At, Goes, Ends
<1>0. /\ \A x \in opened : x.by \in Evaluations /\ x.key \in Claims
      /\ DOMAIN run = Runs /\ claim \in [Claims -> Evaluations \cup {None}]
      /\ \A g \in Evaluations : run[g].at \in {"validated", "claimed", "scored"} =>
           run[g] \in EvaluationRuns /\ ClaimKey[run[g].prereg] \in Claims
  BY DEF TypeOK, Stopped, Over, Claims, EvaluationRuns
<1>1. CASE EvaluateStarts(e)
  BY <1>0, <1>1 DEF Claimed, EvaluateStarts
<1>2. CASE EvaluateClaims(e)
  <2> DEFINE k == ClaimKey[run[e].prereg]
  <2>1. CASE claim[k] = None
    <3>1. claim' = [claim EXCEPT ![k] = e] /\ UNCHANGED opened
      BY <1>2, <2>1 DEF EvaluateClaims
    <3>2. /\ run'[e].at = "claimed" /\ run'[e].prereg = run[e].prereg
          /\ \A g \in Evaluations \ {e} : run'[g] = run[g]
      BY <1>0, <1>2, <2>1 DEF EvaluateClaims, EvaluationRuns
    <3>3. \A x \in opened : x.key # k /\ x.by # e
      BY <1>0, <1>2, <2>1, MarkAssumption DEF EvaluateClaims, Claimed
    <3>4. \A g \in Evaluations \ {e} : run[g].at \in {"claimed", "scored"} =>
            ClaimKey[run[g].prereg] # k
      BY <2>1, MarkAssumption DEF Claimed
    <3> QED
      BY <1>0, <1>2, <3>1, <3>2, <3>3, <3>4 DEF Claimed, EvaluateClaims
  <2>2. CASE claim[k] # None
    BY <1>0, <1>2, <2>2 DEF Claimed, EvaluateClaims
  <2> QED BY <2>1, <2>2
<1>3. CASE EvaluateScores(e)
  <2>1. run[e] \in EvaluationRuns /\ run[e].at = "claimed" /\ UNCHANGED claim
    BY <1>0, <1>3 DEF EvaluateScores
  <2>2. /\ \A g \in Evaluations \ {e} : run'[g] = run[g]
        /\ run'[e].at \in {"failed", "scored"}
        /\ run'[e].at = "scored" => run'[e].prereg = run[e].prereg
    BY <1>0, <1>3, <2>1 DEF EvaluateScores, EvaluationRuns
  <2>3. CASE UNCHANGED opened
    BY <1>0, <2>1, <2>2, <2>3 DEF Claimed
  <2>4. CASE opened' # opened
    <3> DEFINE new == [by |-> e, key |-> ClaimKey[run[e].prereg], fit |-> run[e].fit,
                       labels |-> split[run[e].sealed]["holdout"]]
    <3>1. opened' = opened \cup {new}
      BY <1>3, <2>4 DEF EvaluateScores
    <3>2. new.by = e /\ new.key = ClaimKey[run[e].prereg] /\ new.key \in Claims
      BY <1>0, <2>1
    <3>3. \A y \in opened : y.key # new.key
      BY <2>1, <3>2 DEF Claimed
    <3> HIDE DEF new
    <3> QED
      BY <1>0, <2>1, <2>2, <3>1, <3>2, <3>3 DEF Claimed
  <2> QED BY <2>3, <2>4
<1>4. CASE EvaluatePublishes(e)
  BY <1>0, <1>4 DEF Claimed, EvaluatePublishes
<1> QED
  BY <1>1, <1>2, <1>3, <1>4 DEF Evaluating

\* Whatever is refitted, killed or run at once, a sealed seed is scored at most
\* once, by the run that reserved it (_evaluate_holdout_command).
THEOREM ScoredAtMostOnce == Spec => []ScoredOnce
<1>1. Init => Claimed
  BY DifferentRuns DEF Init, Claimed, Idle
<1>2. TypeOK /\ Claimed /\ [Next]_vars => Claimed'
  <2> SUFFICES ASSUME TypeOK, Claimed, [Next]_vars PROVE Claimed'
    OBVIOUS
  <2>1. CASE \E s \in Splits : Splitting(s)
    <3> PICK s \in Splits : Splitting(s)
      BY <2>1
    <3>1. UNCHANGED <<claim, opened>> /\ \E v : run' = [run EXCEPT ![s] = v]
      BY DEF Splitting, SplitStarts, SplitWrites, SplitTorn, Goes, Ends
    <3> QED BY <3>1, OthersKeepClaims
  <2>2. CASE \E f \in Fits : Fitting(f)
    <3> PICK f \in Fits : Fitting(f)
      BY <2>2
    <3>1. UNCHANGED <<claim, opened>> /\ \E v : run' = [run EXCEPT ![f] = v]
      BY DEF Fitting, FitStarts, FitWritesModels, FitWritesReceipt, FitPublishes, Goes, Ends
    <3> QED BY <3>1, OthersKeepClaims
  <2>3. CASE \E e \in Evaluations : Evaluating(e)
    BY <2>3, EvaluationsKeepClaims
  <2>4. CASE Edit
    BY <2>4 DEF Edit, Claimed
  <2>5. CASE UNCHANGED vars
    BY <2>5 DEF vars, Claimed
  <2> QED BY <2>1, <2>2, <2>3, <2>4, <2>5 DEF Next
<1>3. Claimed => ScoredOnce
  BY DEF Claimed, ScoredOnce
<1> QED
  BY <1>1, <1>2, <1>3, TypeCorrect, PTL DEF Spec

-----------------------------------------------------------------------------
(* The two halves of a corpus. *)

\* What split-artifacts checks before it writes.
Audited(p, c) == Combined(c, p) /\ Clean(c.train, c.holdout) /\ Declared[p] \in {None, c}

\* A splitter that goes on to the holdout half has put the train half of its
\* corpus in place, which nobody replaces; so a holdout half is in its company.
Halved ==
  /\ \A s \in Splits : run[s].at \in {"train", "holdout"} =>
       Audited(run[s].prereg, run[s].corpus)
  /\ \A s \in Splits : run[s].at = "holdout" =>
       split[run[s].dir]["train"] = Artifact(run[s].prereg, run[s].corpus, "train")
  /\ \A d \in SplitDirs : split[d]["holdout"] \notin {None, Torn} =>
       \E p \in Preregs, c \in Corpora :
         /\ Audited(p, c)
         /\ split[d]["train"] = Artifact(p, c, "train")
         /\ split[d]["holdout"] = Artifact(p, c, "holdout")

\* No file a splitter finds is an artifact it could still write over.
LEMMA WritingSplitter ==
  ASSUME TypeOK, NEW s \in Splits, run[s].at \in {"train", "holdout"}
  PROVE  /\ run[s] \in SplitRuns
         /\ run[s].prereg \in Preregs /\ run[s].corpus \in Corpora /\ run[s].dir \in SplitDirs
         /\ \A half \in {"train", "holdout"} :
              Artifact(run[s].prereg, run[s].corpus, half) \in Artifacts
<1>1. run[s] \in SplitRuns
  BY DEF TypeOK, Stopped, Over
<1> QED
  BY <1>1 DEF SplitRuns, Artifacts

LEMMA SplittingKeepsHalves ==
  ASSUME TypeOK, Halved, NEW s \in Splits, Splitting(s)
  PROVE  Halved'
<1> USE DifferentRuns DEF At, Goes, Ends
<1>0. DOMAIN run = Runs /\ split \in [SplitDirs -> [{"train", "holdout"} -> Artifacts \cup {None, Torn}]]
  BY DEF TypeOK
<1>1. CASE SplitStarts(s)
  <2>1. PICK p \in Preregs, c \in Corpora, d \in SplitDirs :
          /\ Combined(c, p) /\ Clean(c.train, c.holdout)
          /\ ValidArtifact(Artifact(p, c, "holdout"), p, "holdout")
          /\ run' = [run EXCEPT ![s] = [at |-> "train", prereg |-> p, corpus |-> c, dir |-> d]]
    BY <1>1 DEF SplitStarts
  <2>2. Audited(p, c)
    BY <2>1 DEF Audited, ValidArtifact, Artifact
  <2> QED
    BY <1>0, <1>1, <2>1, <2>2 DEF Halved, SplitStarts
<1>2. CASE SplitWrites(s, "train")
  <2>1. /\ run[s].at = "train" /\ \A q \in Splits \ {s} : run'[q] = run[q]
    BY <1>0, <1>2 DEF SplitWrites
  <2>2. /\ run[s] \in SplitRuns /\ run[s].dir \in SplitDirs
        /\ Artifact(run[s].prereg, run[s].corpus, "train") \in Artifacts
    BY <2>1, WritingSplitter
  <2>3. CASE split[run[s].dir]["train"] = None
    <3>1. split' = [split EXCEPT ![run[s].dir]["train"] = Artifact(run[s].prereg, run[s].corpus, "train")]
      BY <1>2, <2>3 DEF SplitWrites
    <3>2. run'[s].at = "holdout" /\ run'[s].prereg = run[s].prereg
          /\ run'[s].corpus = run[s].corpus /\ run'[s].dir = run[s].dir
      BY <1>0, <1>2, <2>2, <2>3 DEF SplitWrites, SplitRuns
    <3>3. \A q \in Splits : run[q].at = "holdout" => run[q].dir # run[s].dir
      BY <2>3, WritingSplitter, MarkAssumption DEF Halved
    <3>4. split[run[s].dir]["holdout"] \in {None, Torn}
      BY <2>2, <2>3, MarkAssumption DEF Halved, Artifacts
    <3>5. /\ split'[run[s].dir]["train"] = Artifact(run[s].prereg, run[s].corpus, "train")
          /\ split'[run[s].dir]["holdout"] = split[run[s].dir]["holdout"]
          /\ \A d \in SplitDirs \ {run[s].dir} : split'[d] = split[d]
      BY <1>0, <2>2, <3>1
    <3>6. \A q \in Splits : run'[q].at \in {"train", "holdout"} => Audited(run'[q].prereg, run'[q].corpus)
      BY <2>1, <3>2 DEF Halved
    <3>7. \A q \in Splits : run'[q].at = "holdout" =>
            split'[run'[q].dir]["train"] = Artifact(run'[q].prereg, run'[q].corpus, "train")
      BY <2>1, <3>2, <3>3, <3>5, WritingSplitter DEF Halved
    <3>8. \A d \in SplitDirs : split'[d]["holdout"] \notin {None, Torn} =>
            d # run[s].dir /\ split'[d] = split[d]
      BY <3>4, <3>5
    <3> QED
      BY <3>6, <3>7, <3>8 DEF Halved
  <2>4. CASE split[run[s].dir]["train"] # None
    <3>1. UNCHANGED split /\ run'[s].at = "failed"
      BY <1>0, <1>2, <2>4 DEF SplitWrites
    <3> QED
      BY <2>1, <3>1 DEF Halved
  <2> QED BY <2>3, <2>4
<1>3. CASE SplitWrites(s, "holdout")
  <2>1. /\ run[s].at = "holdout" /\ \A q \in Splits \ {s} : run'[q] = run[q]
        /\ run'[s].at \notin {"train", "holdout"}
    BY <1>0, <1>3 DEF SplitWrites
  <2>2. /\ run[s].prereg \in Preregs /\ run[s].corpus \in Corpora /\ run[s].dir \in SplitDirs
    BY <2>1, WritingSplitter
  <2>3. CASE UNCHANGED split
    BY <2>1, <2>3 DEF Halved
  <2>4. CASE split' = [split EXCEPT ![run[s].dir]["holdout"] = Artifact(run[s].prereg, run[s].corpus, "holdout")]
    <3>1. /\ split'[run[s].dir]["train"] = split[run[s].dir]["train"]
          /\ split'[run[s].dir]["holdout"] = Artifact(run[s].prereg, run[s].corpus, "holdout")
          /\ \A d \in SplitDirs \ {run[s].dir} : split'[d] = split[d]
      BY <1>0, <2>2, <2>4
    <3>2. \A d \in SplitDirs : split'[d]["train"] = split[d]["train"]
      BY <3>1
    <3>3. /\ Audited(run[s].prereg, run[s].corpus)
          /\ split[run[s].dir]["train"] = Artifact(run[s].prereg, run[s].corpus, "train")
      BY <2>1 DEF Halved
    <3> QED
      BY <2>1, <2>2, <3>1, <3>2, <3>3, WritingSplitter DEF Halved
  <2> QED BY <1>3, <2>3, <2>4 DEF SplitWrites
<1>4. ASSUME NEW half \in {"train", "holdout"}, SplitTorn(s, half)
      PROVE  Halved'
  <2> DEFINE d == run[s].dir
  <2>1. /\ \A q \in Splits \ {s} : run'[q] = run[q]
        /\ run'[s].at \notin {"train", "holdout"} /\ d \in SplitDirs
        /\ split[d][half] = None
    BY <1>0, <1>4, WritingSplitter DEF SplitTorn
  <2>2. /\ split'[d][half] = Torn
        /\ \A h \in {"train", "holdout"} \ {half} : split'[d][h] = split[d][h]
        /\ \A e \in SplitDirs \ {d} : split'[e] = split[e]
    BY <1>0, <1>4, <2>1 DEF SplitTorn
  <2>3. CASE half = "train"
    <3>1. split[d]["holdout"] \in {None, Torn}
      BY <2>1, <2>3, MarkAssumption DEF Halved, Artifacts
    <3>2. \A q \in Splits : run[q].at = "holdout" => run[q].dir # d /\ run[q].dir \in SplitDirs
      BY <2>1, <2>3, WritingSplitter, MarkAssumption DEF Halved
    <3> QED
      BY <2>1, <2>2, <2>3, <3>1, <3>2 DEF Halved
  <2>4. CASE half = "holdout"
    <3>1. \A e \in SplitDirs : split'[e]["train"] = split[e]["train"]
      BY <2>2, <2>4
    <3>2. \A e \in SplitDirs : split'[e]["holdout"] \notin {None, Torn} => split'[e] = split[e]
      BY <2>2, <2>4
    <3> QED
      BY <2>1, <3>1, <3>2, WritingSplitter DEF Halved
  <2> QED BY <2>3, <2>4
<1> QED
  BY <1>1, <1>2, <1>3, <1>4 DEF Splitting

LEMMA HalvedInvariant == Spec => []Halved
<1>1. Init => Halved
  BY DifferentRuns DEF Init, Halved, Idle
<1>2. TypeOK /\ Halved /\ [Next]_vars => Halved'
  <2> SUFFICES ASSUME TypeOK, Halved, [Next]_vars PROVE Halved'
    OBVIOUS
  <2>1. CASE \E s \in Splits : Splitting(s)
    BY <2>1, SplittingKeepsHalves
  <2>2. ASSUME UNCHANGED split, \A s \in Splits : run'[s] = run[s]
        PROVE  Halved'
    BY <2>2 DEF Halved
  <2>3. CASE \E f \in Fits : Fitting(f)
    <3> PICK f \in Fits : Fitting(f)
      BY <2>3
    <3>1. UNCHANGED split /\ \E v : run' = [run EXCEPT ![f] = v]
      BY DEF Fitting, FitStarts, FitWritesModels, FitWritesReceipt, FitPublishes, Goes, Ends
    <3> QED BY <3>1, <2>2, OneRun, DifferentRuns
  <2>4. CASE \E e \in Evaluations : Evaluating(e)
    <3> PICK e \in Evaluations : Evaluating(e)
      BY <2>4
    <3>1. UNCHANGED split /\ \E v : run' = [run EXCEPT ![e] = v]
      BY DEF Evaluating, EvaluateStarts, EvaluateClaims, EvaluateScores, EvaluatePublishes, Goes, Ends
    <3> QED BY <3>1, <2>2, OneRun, DifferentRuns
  <2>5. CASE Edit
    BY <2>2, <2>5 DEF Edit
  <2>6. CASE UNCHANGED vars
    BY <2>2, <2>6 DEF vars
  <2> QED BY <2>1, <2>3, <2>4, <2>5, <2>6 DEF Next
<1> QED
  BY <1>1, <1>2, TypeCorrect, PTL DEF Spec

\* The two halves of an audited corpus are a bound pair.
LEMMA CounterpartsPaired ==
  ASSUME NEW p \in Preregs, NEW c \in Corpora, Audited(p, c)
  PROVE  LET t == Artifact(p, c, "train")  h == Artifact(p, c, "holdout") IN
         /\ t.prereg = h.prereg /\ Paired(t, h) /\ Clean(t.keys, h.keys)
         /\ Declared[p] \in intact \cup {None} => ValidArtifact(h, p, "holdout")
<1> DEFINE t == Artifact(p, c, "train")
           h == Artifact(p, c, "holdout")
<1>1. /\ t.prereg = p /\ t.source = c /\ t.keys = c.train /\ t.other = c.holdout
      /\ h.prereg = p /\ h.source = c /\ h.keys = c.holdout /\ h.other = c.train
      /\ h.half = "holdout"
  BY DEF Artifact
<1>2. h \in Artifacts
  BY DEF Artifacts
<1> HIDE DEF t, h
<1> QED
  BY <1>1, <1>2 DEF Paired, Audited, ValidArtifact, Combined, Provenance, Derived, Clean, t, h

\* Splitters that race for a directory leave a bound pair in it
\* (_split_artifacts_command, _exclusive_json).
THEOREM HalvesStayTogether == Spec => []HalvesTogether
<1>1. Halved => HalvesTogether
  BY CounterpartsPaired DEF Halved, HalvesTogether
<1> QED
  BY <1>1, HalvedInvariant, PTL

-----------------------------------------------------------------------------
(* What an evaluation reports. *)

\* The unsealed inputs, as they were checked: made under the manifest by the
\* frozen implementation, the models still on disk.
Frozen(r, p) ==
  /\ r.prereg = p /\ r.code = 0
  /\ ValidArtifact(r.train, p, "train")
  /\ r.model \in models[r.dir] /\ r.model.train = r.train

\* An evaluation that scored a sealed half blind.
Blind(x) ==
  /\ Frozen(x.fit, x.labels.prereg)
  /\ Clean(x.fit.model.train.keys, x.labels.keys)

Supported ==
  /\ \A e \in Evaluations : run[e].at \in {"validated", "claimed", "scored"} =>
       Frozen(run[e].fit, run[e].prereg)
  /\ \A e \in Evaluations : run[e].at = "scored" =>
       \E x \in opened : x.by = e /\ x.fit = run[e].fit /\ Blind(x)
  /\ \A o \in ResultDirs : result[o] # None =>
       \E x \in opened : x.by = result[o].by /\ x.fit = result[o].fit /\ Blind(x)

\* Models are only added, in the directories there are.
LEMMA FrozenStays ==
  ASSUME TypeOK, NEW r \in Receipts, NEW p, Frozen(r, p),
         \A d \in FitDirs : models[d] \subseteq models'[d]
  PROVE  Frozen(r, p)'
<1>1. r.dir \in FitDirs
  BY DEF Receipts
<1> QED
  BY <1>1 DEF Frozen, ValidArtifact, Provenance, Derived

LEMMA BlindStays ==
  ASSUME TypeOK, NEW x \in opened, Blind(x), \A d \in FitDirs : models[d] \subseteq models'[d]
  PROVE  Blind(x)'
<1>1. x.fit \in Receipts
  BY DEF TypeOK
<1> QED
  BY <1>1, FrozenStays DEF Blind, Clean

LEMMA EvaluatorTyped ==
  ASSUME TypeOK, NEW e \in Evaluations, run[e].at \in {"validated", "claimed", "scored"}
  PROVE  /\ run[e] \in EvaluationRuns /\ run[e].fit \in Receipts
         /\ run[e].prereg \in Preregs /\ run[e].out \in ResultDirs
<1>1. run[e] \in EvaluationRuns
  BY DEF TypeOK, Stopped, Over
<1> QED
  BY <1>1 DEF EvaluationRuns

\* Steps that leave the evaluations, what they opened and the results alone.
LEMMA OthersKeepSupport ==
  ASSUME TypeOK, Supported, UNCHANGED <<opened, result>>,
         \A d \in FitDirs : models[d] \subseteq models'[d],
         \A e \in Evaluations : run'[e] = run[e]
  PROVE  Supported'
<1>1. \A x \in opened : Blind(x) => Blind(x)'
  BY BlindStays
<1>2. ASSUME NEW e \in Evaluations, run[e].at \in {"validated", "claimed", "scored"}
      PROVE  Frozen(run[e].fit, run[e].prereg)'
  BY <1>2, EvaluatorTyped, FrozenStays DEF Supported, Frozen, ValidArtifact, Provenance, Derived
<1> QED
  BY <1>1, <1>2 DEF Supported, Frozen

LEMMA EvaluatingKeepsSupport ==
  ASSUME TypeOK, Supported, NEW e \in Evaluations, Evaluating(e)
  PROVE  Supported'
<1> USE DifferentRuns DEF At, Goes, Ends
<1>0. /\ DOMAIN run = Runs /\ result \in [ResultDirs -> [by : Evaluations, fit : Receipts] \cup {None}]
      /\ UNCHANGED <<models, intact>>
  BY DEF TypeOK, Evaluating, EvaluateStarts, EvaluateClaims, EvaluateScores, EvaluatePublishes
<1>1. /\ \A r, p : Frozen(r, p)' = Frozen(r, p)
      /\ \A x : Blind(x)' = Blind(x)
  BY <1>0 DEF Frozen, Blind, ValidArtifact, Provenance, Derived, Clean
<1>2. CASE EvaluateStarts(e)
  <2> PICK p \in Preregs, d \in FitDirs, s \in SplitDirs, o \in ResultDirs :
        /\ Loads(p) /\ Unsealed(p, receipt[d])
        /\ run' = [run EXCEPT ![e] = [at |-> "validated", prereg |-> p, sealed |-> s,
                                      out |-> o, fit |-> receipt[d]]]
    BY <1>2 DEF EvaluateStarts
  <2>1. UNCHANGED <<opened, result>>
    BY <1>2 DEF EvaluateStarts
  <2>2. Frozen(receipt[d], p)
    BY DEF Unsealed, Loads, Frozen
  <2>3. run'[e].at = "validated" /\ run'[e].fit = receipt[d] /\ run'[e].prereg = p
        /\ \A g \in Evaluations \ {e} : run'[g] = run[g]
    BY <1>0
  <2> QED
    BY <1>1, <2>1, <2>2, <2>3 DEF Supported
<1>3. CASE EvaluateClaims(e)
  <2>1. run[e].at = "validated" /\ UNCHANGED <<opened, result>>
        /\ \A g \in Evaluations \ {e} : run'[g] = run[g]
    BY <1>0, <1>3 DEF EvaluateClaims
  <2>2. \/ run'[e].at = "failed"
        \/ run'[e].at = "claimed" /\ run'[e].fit = run[e].fit /\ run'[e].prereg = run[e].prereg
    BY <1>0, <1>3, <2>1, EvaluatorTyped DEF EvaluateClaims, EvaluationRuns
  <2> QED
    BY <1>1, <2>1, <2>2 DEF Supported
<1>4. CASE EvaluateScores(e)
  <2> DEFINE a == split[run[e].sealed]["holdout"]
             new == [by |-> e, key |-> ClaimKey[run[e].prereg], fit |-> run[e].fit, labels |-> a]
  <2>1. run[e].at = "claimed" /\ UNCHANGED result
        /\ \A g \in Evaluations \ {e} : run'[g] = run[g]
    BY <1>0, <1>4 DEF EvaluateScores
  <2>2. CASE run'[e].at = "failed" /\ UNCHANGED opened
    BY <1>1, <2>1, <2>2 DEF Supported
  <2>3. CASE ~ (run'[e].at = "failed" /\ UNCHANGED opened)
    <3>1. /\ ValidArtifact(a, run[e].prereg, "holdout") /\ Clean(run[e].fit.train.keys, a.keys)
          /\ opened' = opened \cup {new} /\ run' = [run EXCEPT ![e].at = "scored"]
      BY <1>0, <1>4, <2>3 DEF EvaluateScores
    <3>2. run'[e].at = "scored" /\ run'[e].fit = run[e].fit /\ run'[e].prereg = run[e].prereg
      BY <1>0, <2>1, <3>1, EvaluatorTyped DEF EvaluationRuns
    <3>3. Frozen(run[e].fit, run[e].prereg)
      BY <2>1 DEF Supported
    <3>4. new.by = e /\ new.fit = run[e].fit /\ new.labels = a
      OBVIOUS
    <3>5. a.prereg = run[e].prereg
      BY <3>1 DEF ValidArtifact
    <3> HIDE DEF new, a
    <3>6. Blind(new)
      BY <3>1, <3>3, <3>4, <3>5 DEF Blind, Frozen
    <3> QED
      BY <1>1, <2>1, <3>1, <3>2, <3>3, <3>4, <3>6 DEF Supported
  <2> QED BY <2>2, <2>3
<1>5. CASE EvaluatePublishes(e)
  <2>1. /\ run[e].at = "scored" /\ UNCHANGED opened /\ run'[e].at = "done"
        /\ \A g \in Evaluations \ {e} : run'[g] = run[g]
    BY <1>0, <1>5 DEF EvaluatePublishes
  <2>2. run[e].out \in ResultDirs
    BY <2>1, EvaluatorTyped
  <2>3. /\ result'[run[e].out].by = e /\ result'[run[e].out].fit = run[e].fit
        /\ \A o \in ResultDirs \ {run[e].out} : result'[o] = result[o]
    BY <1>0, <1>5, <2>2 DEF EvaluatePublishes
  <2> QED
    BY <1>1, <2>1, <2>2, <2>3 DEF Supported
<1> QED
  BY <1>2, <1>3, <1>4, <1>5 DEF Evaluating

LEMMA SupportedInvariant == Spec => []Supported
<1>1. Init => Supported
  BY DifferentRuns DEF Init, Supported, Idle
<1>2. TypeOK /\ Supported /\ [Next]_vars => Supported'
  <2> SUFFICES ASSUME TypeOK, Supported, [Next]_vars PROVE Supported'
    OBVIOUS
  <2>1. CASE \E s \in Splits : Splitting(s)
    <3> PICK s \in Splits : Splitting(s)
      BY <2>1
    <3>1. UNCHANGED <<opened, result, models>> /\ \E v : run' = [run EXCEPT ![s] = v]
      BY DEF Splitting, SplitStarts, SplitWrites, SplitTorn, Goes, Ends
    <3>2. \A e \in Evaluations : run'[e] = run[e]
      BY <3>1, OneRun, DifferentRuns
    <3> QED BY <3>1, <3>2, OthersKeepSupport
  <2>2. CASE \E f \in Fits : Fitting(f)
    <3> PICK f \in Fits : Fitting(f)
      BY <2>2
    <3>1. UNCHANGED <<opened, result>> /\ \E v : run' = [run EXCEPT ![f] = v]
      BY DEF Fitting, FitStarts, FitWritesModels, FitWritesReceipt, FitPublishes, Goes, Ends
    <3>2. \A d \in FitDirs : models[d] \subseteq models'[d]
      BY DEF TypeOK, Fitting, FitStarts, FitWritesModels, FitWritesReceipt, FitPublishes
    <3>3. \A e \in Evaluations : run'[e] = run[e]
      BY <3>1, OneRun, DifferentRuns
    <3> QED BY <3>1, <3>2, <3>3, OthersKeepSupport
  <2>3. CASE \E e \in Evaluations : Evaluating(e)
    BY <2>3, EvaluatingKeepsSupport
  <2>4. CASE Edit
    BY <2>4, OthersKeepSupport DEF Edit
  <2>5. CASE UNCHANGED vars
    BY <2>5, OthersKeepSupport DEF vars
  <2> QED BY <2>1, <2>2, <2>3, <2>4, <2>5 DEF Next
<1> QED
  BY <1>1, <1>2, TypeCorrect, PTL DEF Spec

\* A published result reports models that were frozen before the seed was
\* reserved, by the manifest's implementation, and never saw a key they were
\* scored on (_evaluate_holdout_command).
THEOREM EvidenceStaysBlind == Spec => []EvidenceIsBlind
<1>1. Supported => EvidenceIsBlind
  BY DEF Supported, EvidenceIsBlind, Blind, Frozen
<1> QED
  BY <1>1, SupportedInvariant, PTL

\* A claimed seed is burned unscored only by a sealed half that is missing, torn
\* or not the counterpart of the train half, or by a manifest whose declared source
\* of the sealed half is missing or changed by then (_evaluate_holdout_command).
THEOREM NothingElseBurns == Spec => BurnsOnlyMismatches
<1>1. TypeOK /\ Halved /\ Supported /\ [Next]_vars
      => [\A e \in Evaluations : At(e, "claimed") /\ run'[e].at = "failed" =>
            LET a == split[run[e].sealed]  c == Declared[run[e].prereg] IN
            \/ a["holdout"] \in {None, Torn} \/ a["train"] # run[e].fit.train
            \/ c # None /\ c \notin intact]_vars
  <2> SUFFICES ASSUME TypeOK, Halved, Supported, Next,
                      NEW e \in Evaluations, run[e].at = "claimed", run'[e].at = "failed",
                      split[run[e].sealed]["holdout"] \notin {None, Torn},
                      split[run[e].sealed]["train"] = run[e].fit.train,
                      Declared[run[e].prereg] \in intact \cup {None}
               PROVE  FALSE
    BY DEF At
  <2>1. run[e] \in EvaluationRuns /\ run[e].sealed \in SplitDirs
    BY EvaluatorTyped DEF EvaluationRuns
  <2>2. EvaluateScores(e)
    <3>1. \A r \in Runs \ {e} : ~ \E v : run' = [run EXCEPT ![r] = v]
      BY OneRun, DifferentRuns
    <3>2. ~ \E s \in Splits : Splitting(s)
      BY <3>1, DifferentRuns, ZenonT(40) DEF Splitting, SplitStarts, SplitWrites, SplitTorn, Goes, Ends
    <3>3. ~ \E f \in Fits : Fitting(f)
      BY <3>1, DifferentRuns
      DEF Fitting, FitStarts, FitWritesModels, FitWritesReceipt, FitPublishes, Goes, Ends
    <3>4. \A g \in Evaluations \ {e} : ~ Evaluating(g)
      BY <3>1, DifferentRuns
      DEF Evaluating, EvaluateStarts, EvaluateClaims, EvaluateScores, EvaluatePublishes, Goes, Ends
    <3>5. ~ Edit
      BY DEF Edit
    <3> QED
      BY <3>2, <3>3, <3>4, <3>5
      DEF Next, Evaluating, EvaluateStarts, EvaluateClaims, EvaluatePublishes, At
  <2>3. PICK p \in Preregs, c \in Corpora :
           /\ Audited(p, c)
           /\ run[e].fit.train = Artifact(p, c, "train")
           /\ split[run[e].sealed]["holdout"] = Artifact(p, c, "holdout")
    BY <2>1 DEF Halved
  <2>4. run[e].prereg = p
    BY <2>3 DEF Supported, Frozen, ValidArtifact, Artifact
  <2>5. run' = [run EXCEPT ![e].at = "scored"]
    BY <2>2, <2>3, <2>4, CounterpartsPaired DEF EvaluateScores, Goes
  <2> QED
    BY <2>1, <2>5, DifferentRuns DEF EvaluationRuns, TypeOK
<1> QED
  BY <1>1, TypeCorrect, HalvedInvariant, SupportedInvariant, PTL DEF Spec, BurnsOnlyMismatches
-----------------------------------------------------------------------------
(* The teacher end to end, whose first half makes the corpora. *)

\* Labelling and delivery leave the commands' files alone, and the commands run
\* as they do when the corpora are given (merge_native_teacher_tiers.py, then
\* fit_deep_teacher_value.py): nothing the labelling does is a step of theirs.
THEOREM TeacherIsFit == TeacherSpec => Spec
<1>1. TeacherInit => Init
  BY DEF TeacherInit
<1>2. [TeacherNext]_<<vars, labelVars>> => [Next]_vars
  BY DEF TeacherNext, Deliver
<1> QED
  BY <1>1, <1>2, PTL DEF TeacherSpec, Spec

\* What the commands promise of a sealed holdout holds from the labels on
\* (_evaluate_holdout_command).
THEOREM HoldoutEndToEnd ==
  TeacherSpec => /\ []ScoredOnce
                 /\ []HalvesTogether
                 /\ []EvidenceIsBlind
                 /\ BurnsOnlyMismatches
BY TeacherIsFit, ScoredAtMostOnce, HalvesStayTogether, EvidenceStaysBlind, NothingElseBurns, PTL
=============================================================================
