------------------------------- MODULE Teacher -------------------------------
(***************************************************************************)
(* The offline teacher end to end: corpora are labelled and merged         *)
(* (TeacherLabels), then split, fitted and evaluated (TeacherFit).  Only   *)
(* the merged corpus goes from one to the other; once it is delivered, the *)
(* labelling is over and its files are no longer looked at.                *)
(***************************************************************************)
EXTENDS TeacherFit, TeacherLabels

\* A merged corpus, as the splitter reads it, made under contract g.
Delivered(g) == [contract |-> g, train |-> corpus["train"], holdout |-> corpus["holdout"]]

\* The merged corpus is one of the files the commands are given.
Deliver ==
  /\ build = Missing /\ corpus # Missing
  /\ \E p \in Preregs : Delivered(Contract[p]) \in Corpora
  /\ builds' = MaxBuilds + 1
  /\ version' = 1 /\ failures' = 0 /\ corpus' = Missing
  /\ receipts' = NoReceipts /\ artifact' = [t \in Tiers |-> Missing]
  /\ UNCHANGED <<build, bucket, pool, done>>
  /\ UNCHANGED vars

Labelling == builds <= MaxBuilds

TeacherInit == Init /\ LabelsInit

TeacherNext ==
  \/ Labelling /\ LabelsNext /\ UNCHANGED vars
  \/ Labelling /\ Deliver
  \/ ~ Labelling /\ Next /\ UNCHANGED labelVars

TeacherSpec == TeacherInit /\ [][TeacherNext]_<<vars, labelVars>>
=============================================================================
