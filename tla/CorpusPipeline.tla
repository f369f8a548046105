--------------------------- MODULE CorpusPipeline ---------------------------
(***************************************************************************)
(* corpus_pipeline.generate_corpus: processes that run the same plan over  *)
(* one corpus root, each with a main thread and a pool of workers.  The    *)
(* main thread opens the store, takes the ranges that are not finalized,   *)
(* lets the pool generate them all (an exception in one of them does not   *)
(* stop the others, but fails the run), and succeeds only if every planned *)
(* range is finalized at the end.  A failed or killed run is started again *)
(* by the operator with the same plan.  The store is module CorpusStore;   *)
(* the generator is deterministic, so a range has one content.             *)
(***************************************************************************)
EXTENDS CorpusStore

CONSTANTS Main,        \* the main thread of each process
          MaxFaults    \* bound on kills, write errors and generator errors

ASSUME PipelineAssumption ==
  /\ Main \in [Processes -> Threads]
  /\ \A p \in Processes : ProcessOf[Main[p]] = p
  /\ MaxFaults \in Nat
  /\ \A o, q \in Owners : o = q
  /\ \A k, l \in Contents : k = l
  /\ NonOverlapping({[range |-> r] : r \in Ranges})
  /\ ~ WithRelease

VARIABLES phase,       \* how far the run of each process is
          todo,        \* ranges submitted to the pool that no worker took yet
          failed,      \* whether a call of this run raised
          faults

pvars == <<vars, phase, todo, failed, faults>>

Pool(p) == {t \in Threads : ProcessOf[t] = p} \ {Main[p]}

-----------------------------------------------------------------------------
Finalized == {e.range : e \in manifest}

To(p, f) == phase' = [phase EXCEPT ![p] = f]

\* CorpusStore(...), then the store.shards of _pending_ranges, then the verify
\* after the pool has drained: each is one locked synchronization.
MainEnters(p) ==
  /\ \/ phase[p] \in {"stopped", "opened"}
     \/ /\ phase[p] = "running" /\ todo[p] = {} /\ ~ failed[p]
        /\ \A t \in Pool(p) : pc[t] = "idle"
  /\ Open(Main[p])
  /\ UNCHANGED <<phase, todo, failed, faults>>

StoreOpened(p) ==
  /\ phase[p] = "stopped"
  /\ Opened(Main[p])
  /\ To(p, "opened")
  /\ UNCHANGED <<todo, failed, faults>>

\* Mutant: claimed ranges are left to their claims.
SubmitUnclaimed(p) ==
  /\ phase[p] = "opened"
  /\ Opened(Main[p])
  /\ To(p, "running")
  /\ todo' = [todo EXCEPT ![p] = Ranges \ (Finalized \cup {c.range : c \in claims})]
  /\ UNCHANGED <<failed, faults>>

\* _pending_ranges: the pool gets every planned range without a shard of its own.
Submit(p) ==
  /\ phase[p] = "opened"
  /\ Opened(Main[p])
  /\ To(p, "running")
  /\ todo' = [todo EXCEPT ![p] = Ranges \ Finalized]
  /\ UNCHANGED <<failed, faults>>

\* The receipt of the run: refused unless every planned range is finalized.
Complete(p) ==
  /\ phase[p] = "running"
  /\ Opened(Main[p])
  /\ To(p, IF Ranges \subseteq Finalized THEN "done" ELSE "stopped")
  /\ UNCHANGED <<todo, failed, faults>>

\* future.result() raises out of the pool once the pool has drained.
Fail(p) ==
  /\ phase[p] = "running" /\ todo[p] = {} /\ failed[p]
  /\ \A t \in Pool(p) : pc[t] = "idle"
  /\ To(p, "stopped")
  /\ failed' = [failed EXCEPT ![p] = FALSE]
  /\ UNCHANGED <<vars, todo, faults>>

-----------------------------------------------------------------------------
\* A worker takes the next range.  Its owner id is a function of the range.
Take(p, t) ==
  /\ phase[p] = "running"
  /\ \E r \in todo[p], o \in Owners :
       Begin(t, r, o) /\ todo' = [todo EXCEPT ![p] = @ \ {r}]
  /\ UNCHANGED <<phase, failed, faults>>

Work(t) ==
  /\ \/ Begun(t) \/ \E k \in Contents : Finalize(t, k)
     \/ PersistOutcome(t) \/ BindReceipt(t) \/ RenameShard(t)
     \/ PublishManifest(t) \/ UnlinkClaim(t)
  /\ UNCHANGED <<phase, todo, failed, faults>>

\* Another process got there first: the worker raises.
Lose(p, t) ==
  /\ BeginRaises(t) \/ FinalizeRaises(t)
  /\ failed' = [failed EXCEPT ![p] = TRUE]
  /\ UNCHANGED <<phase, todo, faults>>

Break(p, t) ==
  /\ faults < MaxFaults /\ faults' = faults + 1
  /\ Abort(t) \/ WriteRaises(t)
  /\ failed' = [failed EXCEPT ![p] = TRUE]
  /\ UNCHANGED <<phase, todo>>

\* An exception in the main thread ends the run.
BreakMain(p) ==
  /\ faults < MaxFaults /\ faults' = faults + 1
  /\ WriteRaises(Main[p])
  /\ To(p, "stopped")
  /\ UNCHANGED <<todo, failed>>

Kill(p) ==
  /\ phase[p] \in {"stopped", "opened", "running"}
  /\ faults < MaxFaults /\ faults' = faults + 1
  /\ Crash(p)
  /\ To(p, "stopped")
  /\ todo' = [todo EXCEPT ![p] = {}]
  /\ failed' = [failed EXCEPT ![p] = FALSE]

-----------------------------------------------------------------------------
\* Each process is one that the operator runs, or one that there never is.
PInit ==
  /\ Init
  /\ phase \in [Processes -> {"absent", "stopped"}]
  /\ todo = [p \in Processes |-> {}]
  /\ failed = [p \in Processes |-> FALSE]
  /\ faults = 0

Sweeps(t) == Sweep(t) /\ UNCHANGED <<phase, todo, failed, faults>>

MainStep(p) == MainEnters(p) \/ StoreOpened(p) \/ Submit(p) \/ Complete(p)
                 \/ Fail(p) \/ Sweeps(Main[p])

PoolStep(p, t) == Take(p, t) \/ Work(t) \/ Lose(p, t) \/ Sweeps(t)

AllDone == (\A p \in Processes : phase[p] \in {"absent", "done"}) /\ UNCHANGED pvars

PNext ==
  \/ \E p \in Processes :
       \/ MainStep(p) \/ BreakMain(p) \/ Kill(p)
       \/ \E t \in Pool(p) : PoolStep(p, t) \/ Break(p, t)
  \/ AllDone

PSpec == PInit /\ [][PNext]_pvars

\* Threads are scheduled and a stopped run is started again; no thread is
\* promised the lock while others contend for it.
Fairness ==
  \A p \in Processes :
    /\ WF_pvars(MainStep(p))
    /\ \A t \in Pool(p) : WF_pvars(PoolStep(p, t))

FairPSpec == PSpec /\ Fairness

-----------------------------------------------------------------------------
(* Properties. *)

\* A run that returns a receipt has finalized its whole plan, each shard bound
\* to the durable outcome of its range (corpus_pipeline.py:1140-1154).
ReceiptIsComplete ==
  \A p \in Processes : phase[p] = "done" =>
    \A r \in Ranges : \E e \in manifest :
      e.range = r /\ [range |-> r, content |-> e.receipt] \in outcomes

\* A producer alone on its root is never refused its own ranges: whatever a kill
\* or an error left behind, the rerun with the stable owner id takes it over
\* (corpus_pipeline.py:929-933, corpus_shards.py:902-933, 974-1022).
SoleProducerNeverRefused ==
  \A t \in Threads : (\A q \in Processes \ {ProcessOf[t]} : phase[q] = "absent") =>
    /\ ~ (Swept(t, "begin") /\ Blocked(t))
    /\ ~ (Swept(t, "finalize") /\ Refused(t))

\* With finitely many faults and the runs restarted, every run of the plan ends
\* in success, also when two processes generate the same plan at once and
\* take each other's ranges (docs/corpus-shards.md, recovery).
EventuallyComplete ==
  \A p \in Processes : phase[p] = "stopped" ~> [](phase[p] = "done")
=====================
