----------------------- MODULE RootCoordinatorProofs ------------------------
(***************************************************************************)
(* The reservation ledger of RootCoordinator and what runRootIteration     *)
(* publishes, for every number of workers and candidates, every work limit,*)
(* reserve and credit, any order of replies and any answers of the kernel: *)
(* the ledger is never overdrawn; the root is the best candidate that may  *)
(* be selected, certified and probed; and none of the checks the coordinator*)
(* makes of itself can fail.                                               *)
(***************************************************************************)
EXTENDS RootCoordinator, FiniteSetTheorems, WellFoundedInduction, TLAPS

\* What the ledger's safety rests on: each outstanding call has a credit, and
\* the probe has one exactly while it is awaited (or is being charged).
Credited ==
  /\ active = [w \in Workers |-> active[w]]
  /\ \A w \in Workers : active[w] # None => active[w].credit \in Nat
  /\ probe # None => probe \in Nat
  /\ pc = "probe" => probe # None
  /\ pc \notin {"probe", "abort"} => probe = None

Counted ==
  /\ reserved \in Int /\ committed \in Int /\ safetyCommitted \in Int

LedgerInv == Credited /\ Counted /\ SearchSparesSafety

\* The step that sends a search call keeps the ledger's invariant.
LEMMA SendKeeps ==
  ASSUME LedgerInv, NEW w, NEW c, NEW purpose, Send(w, c, purpose),
         pc \notin {"probe", "abort"}, pc' \notin {"probe", "abort"}
  PROVE  LedgerInv'
<1> DEFINE credit == Least(SearchCredit, Available)
<1>0. MaxWork \in Int /\ SearchCredit \in Nat /\ SafetyReserve \in Int
  BY RootAssumption
<1>1. probe = None /\ probe' = None
  BY DEF LedgerInv, Credited, Send
<1>2. Held \in Int /\ Remaining \in Int /\ Held' = Held
  BY <1>0, <1>1 DEF LedgerInv, Counted, Held, Remaining, Greatest, SafetyReserved, Send
<1>3. Available \in Nat /\ Available = Greatest(0, Remaining - Held)
  BY <1>2 DEF Available, Greatest
<1>4. credit \in Nat /\ credit <= Available
  BY <1>0, <1>3 DEF Least
<1>5. reserved' = reserved + credit /\ UNCHANGED <<committed, safetyCommitted>>
  BY DEF Send
<1>6. Counted'
  BY <1>4, <1>5 DEF LedgerInv, Counted
<1>7. SearchSparesSafety'
  <2>1. Remaining' = Remaining - credit
    BY <1>0, <1>4, <1>5 DEF Remaining, LedgerInv, Counted
  <2>2. Remaining >= Held
    BY DEF LedgerInv, SearchSparesSafety
  <2> QED
    BY <1>2, <1>3, <1>4, <2>1, <2>2 DEF SearchSparesSafety, Greatest
<1>8. Credited'
  <2>1. active' = [active EXCEPT ![w] =
                    [candidate |-> c, purpose |-> purpose, alpha |-> Window(c, purpose)[1],
                     beta |-> Window(c, purpose)[2], credit |-> credit]]
    BY DEF Send
  <2>2. active' = [v \in Workers |-> active'[v]]
    BY <2>1 DEF LedgerInv, Credited
  <2>3. \A v \in Workers : active'[v] # None => active'[v].credit \in Nat
    <3> TAKE v \in Workers
    <3>1. CASE v = w
      BY <3>1, <2>1, <1>4 DEF LedgerInv, Credited
    <3>2. CASE v # w
      BY <3>2, <2>1 DEF LedgerInv, Credited
    <3> QED BY <3>1, <3>2
  <2> QED
    BY <2>2, <2>3, <1>1 DEF Credited
<1> QED
  BY <1>6, <1>7, <1>8 DEF LedgerInv

\* Settling a call for no more than its credit keeps it too.
LEMMA SettleKeeps ==
  ASSUME LedgerInv, NEW w \in Workers, active[w] # None, NEW used \in Nat, Settle(w, used),
         pc \notin {"probe", "abort"}, pc' # "probe"
  PROVE  LedgerInv'
<1>0. MaxWork \in Int /\ SafetyReserve \in Int
  BY RootAssumption
<1>1. probe = None /\ probe' = None
  BY DEF LedgerInv, Credited, Settle
<1>2. active[w].credit \in Nat /\ used <= active[w].credit
  BY DEF LedgerInv, Credited, Settle
<1>3. /\ reserved' = reserved - active[w].credit /\ committed' = committed + used
      /\ safetyCommitted' = safetyCommitted
  BY DEF Settle
<1>4. Counted'
  BY <1>2, <1>3 DEF LedgerInv, Counted
<1>5. SearchSparesSafety'
  <2>1. Held \in Int /\ Held' = Held
    BY <1>0, <1>1, <1>3 DEF LedgerInv, Counted, Held, Greatest, SafetyReserved
  <2>2. Remaining' = Remaining + (active[w].credit - used) /\ Remaining \in Int
    BY <1>0, <1>2, <1>3 DEF Remaining, LedgerInv, Counted
  <2>3. Remaining >= Held
    BY DEF LedgerInv, SearchSparesSafety
  <2> QED
    BY <1>2, <2>1, <2>2, <2>3 DEF SearchSparesSafety
<1>6. Credited'
  <2>1. active' = [active EXCEPT ![w] = None]
    BY DEF Settle
  <2>2. active' = [v \in Workers |-> active'[v]]
    BY <2>1 DEF LedgerInv, Credited
  <2>3. \A v \in Workers : active'[v] # None => active'[v].credit \in Nat
    BY <2>1 DEF LedgerInv, Credited
  <2> QED
    BY <2>2, <2>3, <1>1 DEF Credited
<1> QED
  BY <1>4, <1>5, <1>6 DEF LedgerInv

\* Settling the probe gives back what it did not use, and what it used comes
\* off the reserve.
LEMMA SettleProbeKeeps ==
  ASSUME LedgerInv, probe # None, NEW used \in Nat, SettleProbe(used),
         UNCHANGED active, pc' # "probe"
  PROVE  LedgerInv'
<1>0. MaxWork \in Int /\ SafetyReserve \in Int /\ None \notin Int
  BY RootAssumption
<1>1. probe \in Nat /\ used <= probe /\ probe' = None
  BY DEF LedgerInv, Credited, SettleProbe
<1>2. /\ reserved' = reserved - probe /\ committed' = committed + used
      /\ safetyCommitted' = safetyCommitted + used
  BY DEF SettleProbe
<1>3. Counted'
  BY <1>1, <1>2 DEF LedgerInv, Counted
<1>4. SearchSparesSafety'
  <2>1. Held = Greatest(0, SafetyReserve - safetyCommitted - probe)
    BY DEF Held, SafetyReserved, LedgerInv
  <2>2. Held' = Greatest(0, SafetyReserve - (safetyCommitted + used))
    BY <1>0, <1>1, <1>2 DEF Held, SafetyReserved, LedgerInv, Counted, Greatest
  <2>3. Remaining' = Remaining + (probe - used) /\ Remaining \in Int
    BY <1>0, <1>1, <1>2 DEF Remaining, LedgerInv, Counted
  <2>4. Remaining >= Held
    BY DEF LedgerInv, SearchSparesSafety
  <2> QED
    BY <1>0, <1>1, <2>1, <2>2, <2>3, <2>4 DEF SearchSparesSafety, Greatest, LedgerInv, Counted
<1>5. Credited'
  BY <1>1 DEF LedgerInv, Credited
<1> QED
  BY <1>3, <1>4, <1>5 DEF LedgerInv

\* A step that leaves the ledger and the calls alone keeps it.
LEMMA IdleKeeps ==
  ASSUME LedgerInv, UNCHANGED <<active, ledger>>, pc' # "probe",
         pc = "probe" => pc' = "abort", pc = "abort" => pc' \in {"abort", "done"},
         pc = "abort" /\ pc' = "done" => probe = None
  PROVE  LedgerInv'
<1>1. UNCHANGED <<active, probe, reserved, committed, safetyCommitted>>
  BY DEF ledger
<1>2. SearchSparesSafety'
  BY <1>1 DEF LedgerInv, SearchSparesSafety, Remaining, Held, SafetyReserved
<1>3. Credited'
  BY <1>1 DEF LedgerInv, Credited
<1> QED
  BY <1>1, <1>2, <1>3 DEF LedgerInv, Counted

\* A step that fails goes to "abort".
LEMMA FailKeeps ==
  ASSUME LedgerInv, NEW e, Fail(e), pc # "abort"
  PROVE  LedgerInv'
  BY IdleKeeps DEF Fail

LEMMA InitLedger == Init => LedgerInv
<1> SUFFICES ASSUME Init PROVE LedgerInv
  OBVIOUS
<1>1. MaxWork \in Nat /\ InitialWork \in 0 .. MaxWork /\ SafetyReserve \in 0 .. MaxWork - InitialWork
  BY RootAssumption
<1>2. Credited /\ Counted
  BY <1>1 DEF Init, Credited, Counted
<1>3. Remaining = MaxWork - InitialWork /\ Held = Greatest(0, SafetyReserve)
  BY <1>1 DEF Init, Remaining, Held, SafetyReserved
<1> QED
  BY <1>1, <1>2, <1>3 DEF LedgerInv, SearchSparesSafety, Greatest

\* Every step keeps the ledger's invariant.
LEMMA StepLedger == LedgerInv /\ [Next]_vars => LedgerInv'
<1> SUFFICES ASSUME LedgerInv, [Next]_vars PROVE LedgerInv'
  OBVIOUS
<1>1. CASE Start
  BY <1>1, IdleKeeps DEF Start
<1>2. CASE Seed
  BY <1>2, IdleKeeps, SendKeeps, FailKeeps DEF Seed
<1>3. CASE Fill
  BY <1>3, IdleKeeps, SendKeeps, FailKeeps DEF Fill
<1>4. CASE Dispatch
  BY <1>4, SendKeeps, FailKeeps DEF Dispatch
<1>5. CASE Cover
  BY <1>5, IdleKeeps, FailKeeps DEF Cover
<1>6. CASE Decide
  <2>1. CASE \E c : Unrepair(c) /\ UNCHANGED <<active, ledger>>
    BY <1>6, <2>1, IdleKeeps DEF Decide, Unrepair
  <2>2. CASE \E e : Fail(e)
    BY <1>6, <2>2, FailKeeps DEF Decide
  <2>3. CASE \E w, c, p : Send(w, c, p) /\ pc' = "certify"
    BY <1>6, <2>3, SendKeeps DEF Decide
  <2>4. CASE UNCHANGED <<active, ledger>> /\ pc' = "finish"
    BY <1>6, <2>4, IdleKeeps DEF Decide
  <2> QED
    BY <1>6, <2>1, <2>2, <2>3, <2>4 DEF Decide
<1>7. CASE Ask
  <2>1. CASE Fail("work-limit")
    BY <1>7, <2>1, FailKeeps DEF Ask
  <2>2. CASE pc' = "probe"
    <3> DEFINE credit == Least(SafetyCredit, Greatest(0, Remaining))
    <3>0. MaxWork \in Int /\ SafetyCredit \in Nat /\ SafetyReserve \in Int /\ None \notin Int
      BY RootAssumption
    <3>1. /\ probe = None /\ probe' = credit /\ reserved' = reserved + credit
          /\ UNCHANGED <<active, committed, safetyCommitted>>
      BY <1>7, <2>2 DEF Ask, Fail, LedgerInv, Credited
    <3>2. Remaining \in Int /\ Remaining >= Held /\ Held = Greatest(0, SafetyReserve - safetyCommitted)
      BY <3>0, <3>1 DEF LedgerInv, Counted, SearchSparesSafety, Remaining, Held, SafetyReserved
    <3>3. credit \in Nat /\ credit <= Remaining
      BY <3>0, <3>2 DEF Least, Greatest, LedgerInv, Counted
    <3>4. Counted' /\ Remaining' = Remaining - credit
      BY <3>0, <3>1, <3>3 DEF LedgerInv, Counted, Remaining
    <3>5. Held' = Greatest(0, SafetyReserve - safetyCommitted - credit)
      BY <3>0, <3>1, <3>3 DEF Held, SafetyReserved
    <3>6. SearchSparesSafety'
      BY <3>0, <3>2, <3>3, <3>4, <3>5 DEF SearchSparesSafety, Greatest, LedgerInv, Counted
    <3>7. Credited'
      BY <3>0, <3>1, <3>3, <2>2 DEF LedgerInv, Credited
    <3> QED
      BY <3>4, <3>6, <3>7 DEF LedgerInv
  <2> QED
    BY <1>7, <2>1, <2>2 DEF Ask
<1>8. CASE Mend
  <2>1. CASE \E c : Reject(c) /\ UNCHANGED <<active, ledger>>
    BY <1>8, <2>1, IdleKeeps DEF Mend, Reject
  <2>2. CASE \E w, c, p : Send(w, c, p) /\ pc' = "repair"
    BY <1>8, <2>2, SendKeeps DEF Mend
  <2>3. CASE Fail("owner-unavailable")
    BY <1>8, <2>3, FailKeeps DEF Mend
  <2> QED
    BY <1>8, <2>1, <2>2, <2>3 DEF Mend
<1>9. CASE Finish
  BY <1>9, IdleKeeps, FailKeeps DEF Finish
<1>10. CASE \E w \in Workers, used \in CallWork :
              Reply(w, used) \/ Certify(w, used) \/ Repaired(w, used)
  <2>1. PICK w \in Workers, used \in CallWork :
               Reply(w, used) \/ Certify(w, used) \/ Repaired(w, used)
    BY <1>10
  <2>2. used \in Nat
    BY RootAssumption
  <2>3. CASE Reply(w, used)
    <3>1. pc' \in {"fill", "dispatch"}
      BY <2>3 DEF Reply, Widen, Scouted
    <3> QED
      BY <2>2, <2>3, <3>1, SettleKeeps DEF Reply
  <2>4. CASE Certify(w, used)
    <3>1. pc' \in {"cover", "ask", "abort"}
      BY <2>4 DEF Certify, Unrepair
    <3> QED
      BY <2>2, <2>4, <3>1, SettleKeeps DEF Certify
  <2>5. CASE Repaired(w, used)
    <3>1. pc' = "cover"
      BY <2>5 DEF Repaired, Reject
    <3> QED
      BY <2>2, <2>5, <3>1, SettleKeeps DEF Repaired
  <2> QED
    BY <2>1, <2>3, <2>4, <2>5
<1>11. CASE \E used \in CallWork : Probed(used)
  <2>1. PICK used \in CallWork : Probed(used)
    BY <1>11
  <2>2. used \in Nat /\ probe # None
    BY <2>1, RootAssumption DEF Probed, LedgerInv, Credited
  <2>3. pc' \in {"abort", "finish", "cover", "mend"}
    BY <2>1 DEF Probed, RejectedLine, Reject
  <2> QED
    BY <2>1, <2>2, <2>3, SettleProbeKeeps DEF Probed
<1>12. CASE Cancel
  BY <1>12, FailKeeps DEF Cancel
<1>13. CASE LoseWorker
  BY <1>13, FailKeeps DEF LoseWorker
<1>14. CASE LoseProbe
  BY <1>14, FailKeeps DEF LoseProbe
<1>15. CASE Abort
  <2>1. CASE \E w \in Busy :
               /\ active' = [active EXCEPT ![w] = None]
               /\ reserved' = reserved - active[w].credit
               /\ committed' = committed + active[w].credit
               /\ UNCHANGED <<probe, safetyCommitted, pc>>
    <3>1. PICK w \in Busy :
               /\ active' = [active EXCEPT ![w] = None]
               /\ reserved' = reserved - active[w].credit
               /\ committed' = committed + active[w].credit
               /\ UNCHANGED <<probe, safetyCommitted, pc>>
      BY <2>1
    <3>2. w \in Workers /\ active[w] # None /\ active[w].credit \in Nat
      BY DEF Busy, LedgerInv, Credited
    <3>3. MaxWork \in Int
      BY RootAssumption
    <3>4. Counted' /\ Remaining' = Remaining
      BY <3>1, <3>2, <3>3 DEF LedgerInv, Counted, Remaining
    <3>5. Held' = Held
      BY <3>1 DEF Held, SafetyReserved
    <3>6. Credited'
      <4>1. active' = [v \in Workers |-> active'[v]]
        BY <3>1 DEF LedgerInv, Credited
      <4>2. \A v \in Workers : active'[v] # None => active'[v].credit \in Nat
        BY <3>1 DEF LedgerInv, Credited
      <4> QED
        BY <3>1, <4>1, <4>2 DEF LedgerInv, Credited
    <3> QED
      BY <3>4, <3>5, <3>6 DEF LedgerInv, SearchSparesSafety
  <2>2. CASE probe # None /\ SettleProbe(probe) /\ UNCHANGED <<active, pc>>
    BY <1>15, <2>2, SettleProbeKeeps DEF Abort, LedgerInv, Credited
  <2>3. CASE probe = None /\ pc' = "done" /\ UNCHANGED <<active, ledger>>
    BY <1>15, <2>3, IdleKeeps DEF Abort
  <2> QED
    BY <1>15, <2>1, <2>2, <2>3 DEF Abort
<1>16. CASE UNCHANGED vars
  BY <1>16 DEF vars, LedgerInv, Credited, Counted, SearchSparesSafety, Remaining, Held,
     SafetyReserved
<1> QED
  BY <1>1, <1>2, <1>3, <1>4, <1>5, <1>6, <1>7, <1>8, <1>9, <1>10, <1>11, <1>12, <1>13,
     <1>14, <1>15, <1>16 DEF Next

\* Search never spends what is held for the safety probe, and no sequence of
\* calls, refunds, losses and cancellations exceeds the work of the request.
THEOREM SafetyWorkHeld == Spec => []SearchSparesSafety
<1>1. LedgerInv => SearchSparesSafety
  BY DEF LedgerInv
<1> QED
  BY <1>1, InitLedger, StepLedger, PTL DEF Spec

-----------------------------------------------------------------------------
(* What an iteration publishes. *)

\* A candidate the incumbent may be: exact, eligible and ahead of the others.
IsLeader(c) == c \in Exacts /\ Leads(c)

AllCovered ==
  \A l, c \in Candidates :
    IsLeader(l) /\ Eligible(rec[c]) => CoversFinal(rec[c], Key[c], rec[l], Key[l])

\* What is recorded of a candidate is true of what its search returns.
Faithful(c) ==
  /\ rec[c].exact => /\ rec[c].score = truth[c].score /\ rec[c].adverse = truth[c].adverse
                     /\ rec[c].quarantined = truth[c].claim /\ rec[c].bound = None
                     /\ rec[c].terminal \/ rec[c].owner # None
  /\ ~ rec[c].exact => /\ ~ rec[c].rejected /\ ~ rec[c].terminal /\ ~ rec[c].quarantined
                       /\ rec[c].proofs = 0 /\ rec[c].repairs = 0
  /\ rec[c].adverse => truth[c].adverse
  /\ rec[c].bound # None =>
       IF rec[c].bound.kind = "upper" THEN truth[c].score <= rec[c].bound.score
                                      ELSE truth[c].score >= rec[c].bound.score
  /\ rec[c].terminal => /\ rec[c].exact /\ rec[c].safety = "terminal" /\ ~ rec[c].rejected
                        /\ ~ truth[c].adverse /\ ~ truth[c].claim
  /\ pc = "start" /\ ~ rec[c].terminal => truth[c].score \in 1 - Mate .. Mate - 1

Searching == {"start", "seed", "fill", "search", "dispatch"}
Deciding  == {"cover", "decide", "certify", "ask", "probe", "mend", "repair", "finish"}
Running   == Searching \cup Deciding
Recalling == {"certify", "repair"}
Mending   == {"mend", "repair"}

\* What the workers, the queue and the planned task are about.
Searches ==
  /\ \A c \in queue : /\ ~ rec[c].exact
                      /\ pc \in {"start", "seed"} =>
                           rec[c].attempts = 0 /\ (rec[c].aspires => Aspiration # {})
  /\ \A w \in Busy : /\ active[w].purpose \in {"scout", "aspiration", "full", "threat-research"}
                     /\ active[w].purpose = "aspiration" => Aspiration # {}
                     /\ ~ rec[active[w].candidate].exact
                     /\ active[w].candidate \notin queue
  /\ \A w, v \in Busy : active[w].candidate = active[v].candidate => w = v

Plans ==
  /\ next # None /\ next.purpose \in {"aspiration", "full", "threat-research"}
  /\ next.purpose = "aspiration" =>
       Aspiration # {} /\ rec[next.candidate].attempts < MaxAttempts
  /\ active[next.worker] = None /\ ~ rec[next.candidate].exact
  /\ next.candidate \notin queue
  /\ \A w \in Busy : active[w].candidate # next.candidate

Recalls ==
  \A w \in Busy :
    /\ IsLeader(active[w].candidate) /\ rec[active[w].candidate].owner = w
    /\ pc = "certify" /\ active[w].purpose = "horizon-research" =>
         rec[active[w].candidate].proofs > 0

Calls ==
  /\ \A w \in Busy : active[w].alpha \in -Full .. Full /\ active[w].beta \in -Full .. Full
  /\ pc \in Searching => Searches
  /\ pc = "dispatch" => Plans
  /\ pc \in Deciding => queue = {}
  /\ pc \in {"start", "done"} \cup (Deciding \ Recalling) => Busy = {}
  /\ pc \in Recalling => Recalls

\* The incumbent on its way to be published.
Standing ==
  /\ pc \in Deciding \ {"cover"} => Exacts # {} /\ AllCovered
  /\ \A l \in Candidates : IsLeader(l) =>
       /\ pc \in {"certify", "ask", "probe", "mend", "repair"} => ~ rec[l].terminal
       /\ pc = "finish" => rec[l].safety \in {"exhausted", "terminal"}

\* A repair a candidate has had.
Tokens == {x \in Candidates \X (1 .. MaxRepairs) : x[2] <= rec[x[1]].repairs}

Open == IF pc \in Mending THEN 1 ELSE 0

Dispositions ==
  /\ \A c \in Candidates : ~ rec[c].rejected =>
       rec[c].proofs = rec[c].repairs + (IF pc \in Mending /\ IsLeader(c) THEN 1 ELSE 0)
  /\ repairs = Cardinality(Tokens)
  /\ repairs + vetoes + Open = rejections

Verdicts ==
  /\ error \notin Faults
  /\ pc # "done" => selected = None
  /\ pc \in Running => error = None

Sane == /\ \A c \in Candidates : Faithful(c)
        /\ Standing /\ Dispositions

Balanced == reserved = Cardinality(Outstanding) + SafetyReserved

SelInv == /\ TypeOK /\ LedgerInv /\ Balanced /\ Calls /\ Verdicts
          /\ pc \in Running => Sane
          /\ SelectedIsBest /\ SelectedIsCertified


-----------------------------------------------------------------------------
(* The constants, and what comes first. *)
LEMMA LeastOf ==
  ASSUME NEW T \in SUBSET Nat, T # {}
  PROVE  \E m \in T : \A k \in T : m <= k
<1>1. PICK m \in T : \A k \in T : ~ (<<k, m>> \in OpToRel(<, Nat))
  BY NatLessThanWellFounded, WFMin
<1>2. \A k \in T : (k < m) => <<k, m>> \in OpToRel(<, Nat)
  BY DEF OpToRel
<1>3. \A k \in T : m <= k
  <2> SUFFICES ASSUME NEW k \in T
               PROVE  m <= k
    OBVIOUS
  <2>1. ~ (k < m)
    BY <1>1, <1>2
  <2>2. k \in Nat /\ m \in Nat
    OBVIOUS
  <2>3. QED
    BY <2>1, <2>2
<1>4. QED
  BY <1>3

LEMMA FirstOf ==
  ASSUME NEW S \in SUBSET Nat, S # {}
  PROVE  First(S) \in S /\ \A y \in S : First(S) <= y
<1>1. \E x \in S : \A y \in S : x <= y
  BY LeastOf
<1>2. QED
  BY <1>1 DEF First

LEMMA Given ==
  /\ Workers \subseteq Nat /\ Candidates \subseteq Nat /\ Workers # {}
  /\ IsFiniteSet(Workers) /\ IsFiniteSet(Candidates)
  /\ Mate \in Nat /\ Mate > 1 /\ Full \in Nat /\ Full = 2 * Mate + 2
  /\ MaxAttempts \in Nat /\ MaxAttempts > 0 /\ MaxRepairs \in Nat /\ SearchCredit \in Nat
  /\ SearchCredit > 0 /\ SafetyCredit \in Nat /\ CallWork \subseteq Nat
  /\ None \notin Candidates /\ None \notin Workers /\ None \notin Int
<1>1. /\ Workers # {} /\ IsFiniteSet(Workers) /\ IsFiniteSet(Candidates)
      /\ None \notin Candidates /\ None \notin Workers /\ None \notin Int
  BY RootAssumption
<1>2. Workers \subseteq Nat /\ Candidates \subseteq Nat
  <2>1. Workers = 1 .. Cardinality(Workers) /\ Candidates = 1 .. Cardinality(Candidates)
    BY RootAssumption
  <2>2. \A n : 1 .. n \subseteq Nat
    OBVIOUS
  <2>3. QED
    BY <2>1, <2>2
<1>3. Mate \in Nat /\ Mate > 1 /\ Full \in Nat /\ Full = 2 * Mate + 2
  BY RootAssumption DEF Full
<1>4. /\ MaxAttempts \in Nat /\ MaxAttempts > 0 /\ MaxRepairs \in Nat /\ SearchCredit \in Nat
      /\ SearchCredit > 0 /\ SafetyCredit \in Nat /\ CallWork \subseteq Nat
  BY RootAssumption
<1>5. QED
  BY <1>1, <1>2, <1>3, <1>4

\* A task, a plan and a bound are not None: records are told from it by their fields.
LEMMA WindowType ==
  ASSUME TypeOK, NEW c \in Candidates, NEW purpose \in Purposes,
         purpose = "aspiration" => Aspiration # {},
         purpose = "scout" => Incumbent \in Candidates /\ rec[Incumbent].score \in -Mate .. Mate
  PROVE  /\ Window(c, purpose)[1] \in -Full .. Full
         /\ Window(c, purpose)[2] \in -Full .. Full
<1>1. CASE purpose = "aspiration"
  <2> DEFINE a == CHOOSE a \in Aspiration : TRUE
  <2>1. a \in Aspiration
    BY <1>1
  <2>2. a.center \in -2 * Mate - 1 .. 2 * Mate + 1
    BY <2>1, RootAssumption
  <2>3. rec[c].delta \in Nat
    BY DEF TypeOK, Record
  <2>4. Window(c, purpose) =
          <<Greatest(-Full, a.center - rec[c].delta), Least(Full, a.center + rec[c].delta)>>
    BY <1>1 DEF Window
  <2> HIDE DEF a
  <2>5. QED
    BY <2>2, <2>3, <2>4, Given DEF Greatest, Least
<1>2. CASE purpose = "scout"
  <2>1. Window(c, purpose) = IF white THEN <<rec[Incumbent].score, rec[Incumbent].score + 1>>
                                      ELSE <<rec[Incumbent].score - 1, rec[Incumbent].score>>
    BY <1>2 DEF Window, TypeOK
  <2>2. QED
    BY <1>2, <2>1, Given
<1>3. CASE purpose \notin {"aspiration", "scout"}
  <2>1. Window(c, purpose) = <<-Full, Full>>
    BY <1>3 DEF Window
  <2>2. QED
    BY <2>1, Given
<1>4. QED
  BY <1>1, <1>2, <1>3

-----------------------------------------------------------------------------
(* The incumbent. *)
LEMMA RecordFields ==
  ASSUME TypeOK, NEW c \in Candidates
  PROVE  /\ rec[c] \in Record /\ truth[c] \in Truth
         /\ rec[c].terminal \in BOOLEAN /\ rec[c].exact \in BOOLEAN
         /\ rec[c].score \in (-Mate .. Mate) \cup {None} /\ rec[c].adverse \in BOOLEAN
         /\ rec[c].bound \in Bound \cup {None} /\ rec[c].rejected \in BOOLEAN
         /\ rec[c].quarantined \in BOOLEAN /\ rec[c].owner \in Workers \cup {None}
         /\ rec[c].proofs \in 0 .. MaxRepairs /\ rec[c].repairs \in 0 .. MaxRepairs
         /\ rec[c].delta \in Nat /\ rec[c].attempts \in 0 .. MaxAttempts
         /\ rec[c].aspires \in BOOLEAN
         /\ truth[c].score \in -Mate .. Mate /\ truth[c].adverse \in BOOLEAN
         /\ truth[c].claim \in BOOLEAN
<1>1. rec[c] \in Record /\ truth[c] \in Truth
  BY DEF TypeOK
<1>2. QED
  BY <1>1 DEF Record, Truth

LEMMA ExactFields ==
  ASSUME TypeOK, NEW c \in Exacts, Faithful(c)
  PROVE  /\ c \in Candidates /\ rec[c].exact /\ rec[c].score \in -Mate .. Mate
         /\ rec[c].score \in Int /\ rec[c].adverse \in BOOLEAN
         /\ ~ rec[c].rejected /\ ~ rec[c].quarantined
         /\ rec[c].score = truth[c].score /\ rec[c].adverse = truth[c].adverse
<1>1. c \in Candidates /\ rec[c].exact /\ ~ rec[c].rejected /\ ~ rec[c].quarantined
  BY DEF Exacts, Eligible
<1>2. rec[c].score = truth[c].score /\ rec[c].adverse = truth[c].adverse
  BY <1>1 DEF Faithful
<1>3. truth[c].score \in -Mate .. Mate /\ truth[c].score \in Int /\ truth[c].adverse \in BOOLEAN
  BY <1>1, RecordFields, Given
<1>4. QED
  BY <1>1, <1>2, <1>3

\* proofAwareRootPrecedes is a strict order on the exact candidates: two leaders are one.
LEMMA LeaderUnique ==
  ASSUME TypeOK, \A c \in Candidates : Faithful(c), NEW c, NEW d, IsLeader(c), IsLeader(d)
  PROVE  c = d
<1> SUFFICES ASSUME c # d
             PROVE  FALSE
  OBVIOUS
<1>1. c \in Exacts /\ d \in Exacts
  BY DEF IsLeader
<1>2. /\ rec[c].score \in Int /\ rec[c].adverse \in BOOLEAN /\ c \in Candidates
      /\ rec[d].score \in Int /\ rec[d].adverse \in BOOLEAN /\ d \in Candidates
  <2>1. c \in Candidates /\ d \in Candidates
    BY <1>1 DEF Exacts
  <2>2. QED
    BY <1>1, <2>1, ExactFields
<1>3. Precedes(rec[c], Key[c], rec[d], Key[d]) /\ Precedes(rec[d], Key[d], rec[c], Key[c])
  BY <1>1 DEF IsLeader, Leads
<1>4. Key[c] \in Nat /\ Key[d] \in Nat
  BY <1>2, RootAssumption
<1>5. QED
  BY <1>2, <1>3, <1>4 DEF Precedes

\* There is a leader: the proven losses aside, the best score, the least order key.
LEMMA LeaderExists ==
  ASSUME TypeOK, \A c \in Candidates : Faithful(c), Exacts # {}
  PROVE  /\ \E c \in Exacts : Leads(c)
         /\ Incumbent \in Candidates /\ IsLeader(Incumbent) /\ Incumbent # None
<1> DEFINE Sorted(x) == {c \in Exacts : rec[c].adverse = x}
           rank(c) == IF white THEN Mate - rec[c].score ELSE Mate + rec[c].score
<1>0. \A c \in Exacts : /\ c \in Candidates /\ rec[c].adverse \in BOOLEAN
                        /\ rec[c].score \in -Mate .. Mate /\ Key[c] \in Nat
  <2> SUFFICES ASSUME NEW c \in Exacts
               PROVE  /\ c \in Candidates /\ rec[c].adverse \in BOOLEAN
                      /\ rec[c].score \in -Mate .. Mate /\ Key[c] \in Nat
    OBVIOUS
  <2>1. c \in Candidates
    BY DEF Exacts
  <2>2. QED
    BY <2>1, ExactFields, RootAssumption
<1>1. PICK x \in BOOLEAN : Sorted(x) # {} /\ (x => Sorted(FALSE) = {})
  <2>1. CASE Sorted(FALSE) = {}
    <3>1. Sorted(TRUE) # {}
      BY <1>0, <2>1
    <3>2. QED
      BY <2>1, <3>1
  <2>2. CASE Sorted(FALSE) # {}
    BY <2>2
  <2>3. QED
    BY <2>1, <2>2
<1>2. \A c \in Exacts : rank(c) \in Nat
  BY <1>0, Given
<1>3. PICK c1 \in Sorted(x) : \A d \in Sorted(x) : rank(c1) <= rank(d)
  <2>1. {rank(c) : c \in Sorted(x)} \in SUBSET Nat /\ {rank(c) : c \in Sorted(x)} # {}
    BY <1>1, <1>2
  <2>2. PICK m \in {rank(c) : c \in Sorted(x)} : \A k \in {rank(c) : c \in Sorted(x)} : m <= k
    BY <2>1, LeastOf
  <2>3. QED
    BY <2>2
<1> DEFINE Tied == {c \in Sorted(x) : rank(c) = rank(c1)}
<1>4. PICK c2 \in Tied : \A d \in Tied : Key[c2] <= Key[d]
  <2>1. {Key[c] : c \in Tied} \in SUBSET Nat /\ {Key[c] : c \in Tied} # {}
    BY <1>0, <1>3
  <2>2. PICK m \in {Key[c] : c \in Tied} : \A k \in {Key[c] : c \in Tied} : m <= k
    BY <2>1, LeastOf
  <2>3. QED
    BY <2>2
<1>5. ASSUME NEW d \in Exacts \ {c2}
      PROVE  Precedes(rec[c2], Key[c2], rec[d], Key[d])
  <2>1. c2 \in Exacts /\ d \in Exacts /\ rec[c2].adverse = x /\ rank(c2) = rank(c1) /\ c2 # d
    BY <1>4
  <2>2. CASE rec[d].adverse # x
    <3>1. ~ x
      BY <1>0, <1>1, <2>2
    <3>2. QED
      BY <2>1, <2>2, <3>1 DEF Precedes
  <2>3. CASE rec[d].adverse = x
    <3>1. rank(c2) <= rank(d)
      BY <1>3, <2>1, <2>3
    <3>2. rank(d) = rank(c2) => Key[c2] <= Key[d] /\ Key[c2] # Key[d]
      <4>1. rank(d) = rank(c2) => d \in Tied
        BY <2>1, <2>3
      <4>2. Key[c2] # Key[d]
        BY <1>0, <2>1, RootAssumption
      <4>3. QED
        BY <1>4, <4>1, <4>2
    <3>3. rec[c2].score \in Int /\ rec[d].score \in Int /\ Key[c2] \in Nat /\ Key[d] \in Nat
      BY <1>0, <2>1, Given
    <3>4. rec[d].score = rec[c2].score => Key[c2] < Key[d]
      BY <3>2, <3>3
    <3>5. rec[d].score # rec[c2].score =>
            IF white THEN rec[c2].score > rec[d].score ELSE rec[c2].score < rec[d].score
      BY <3>1, <3>3, Given
    <3>6. QED
      BY <2>1, <2>3, <3>4, <3>5 DEF Precedes
  <2>4. QED
    BY <2>2, <2>3
<1>6. \E c \in Exacts : Leads(c)
  <2>1. c2 \in Exacts
    BY <1>4
  <2>2. QED
    BY <1>5, <2>1 DEF Leads
<1>7. Incumbent \in Exacts /\ Leads(Incumbent)
  BY <1>6 DEF Incumbent
<1>8. QED
  BY <1>0, <1>6, <1>7, Given DEF IsLeader

LEMMA IncumbentIs ==
  ASSUME TypeOK, \A c \in Candidates : Faithful(c)
  PROVE  /\ Incumbent # None <=> Exacts # {}
         /\ \A c : IsLeader(c) => Incumbent = c
<1>1. Exacts # {} => Incumbent # None
  BY LeaderExists
<1>2. \A c : IsLeader(c) => Incumbent = c
  <2> SUFFICES ASSUME NEW c, IsLeader(c)
               PROVE  Incumbent = c
    OBVIOUS
  <2>1. Exacts # {}
    BY DEF IsLeader
  <2>2. IsLeader(Incumbent)
    BY <2>1, LeaderExists
  <2>3. QED
    BY <2>2, LeaderUnique
<1>3. QED
  BY <1>1, <1>2 DEF Incumbent

\* A step that leaves the fields a comparison reads leaves the leaders.
LEMMA SameStanding ==
  ASSUME white' = white,
         \A c \in Candidates :
           /\ rec'[c].exact = rec[c].exact /\ rec'[c].rejected = rec[c].rejected
           /\ rec'[c].quarantined = rec[c].quarantined /\ rec'[c].score = rec[c].score
           /\ rec'[c].adverse = rec[c].adverse /\ rec'[c].bound = rec[c].bound
  PROVE  /\ Exacts' = Exacts /\ \A c : IsLeader(c)' <=> IsLeader(c)
         /\ AllCovered' <=> AllCovered
<1>1. \A c \in Candidates : Eligible(rec'[c]) <=> Eligible(rec[c])
  BY DEF Eligible
<1>2. Exacts' = Exacts
  BY <1>1 DEF Exacts
<1>3. \A c, d \in Candidates : Precedes(rec[c], Key[c], rec[d], Key[d])'
                                 <=> Precedes(rec[c], Key[c], rec[d], Key[d])
  BY DEF Precedes
<1>4. Exacts \subseteq Candidates
  BY DEF Exacts
<1>5. \A c : IsLeader(c)' <=> IsLeader(c)
  BY <1>2, <1>3, <1>4 DEF IsLeader, Leads
<1>6. \A c, l \in Candidates : CoversFinal(rec[c], Key[c], rec[l], Key[l])'
                                 <=> CoversFinal(rec[c], Key[c], rec[l], Key[l])
  BY DEF CoversFinal
<1>7. AllCovered' <=> AllCovered
  BY <1>1, <1>5, <1>6 DEF AllCovered
<1>8. QED
  BY <1>2, <1>5, <1>7

-----------------------------------------------------------------------------
(* The units of work that are outstanding. *)
LEMMA UnitsOf ==
  ASSUME NEW w, NEW n \in Nat
  PROVE  IsFiniteSet({w} \X (1 .. n)) /\ Cardinality({w} \X (1 .. n)) = n
<1> DEFINE f == [u \in 1 .. n |-> <<w, u>>]
<1>1. f \in Bijection(1 .. n, {w} \X (1 .. n))
  <2>1. f \in [1 .. n -> {w} \X (1 .. n)]
    OBVIOUS
  <2>2. \A a, b \in 1 .. n : f[a] = f[b] => a = b
    OBVIOUS
  <2>3. \A t \in {w} \X (1 .. n) : \E u \in 1 .. n : f[u] = t
    OBVIOUS
  <2> HIDE DEF f
  <2>4. IsInjective(f)
    BY <2>1, <2>2 DEF IsInjective
  <2>5. QED
    BY <2>1, <2>3, <2>4 DEF Bijection, Injection, Surjection
<1>2. IsFiniteSet(1 .. n) /\ Cardinality(1 .. n) = n
  BY FS_Interval
<1>3. ExistsBijection(1 .. n, {w} \X (1 .. n))
  BY <1>1 DEF ExistsBijection
<1>4. QED
  BY <1>2, <1>3, FS_Bijection

LEMMA OutstandingFinite ==
  ASSUME TypeOK
  PROVE  IsFiniteSet(Outstanding) /\ Cardinality(Outstanding) \in Nat
<1>1. IsFiniteSet(1 .. SearchCredit)
  BY FS_Interval, Given
<1>2. IsFiniteSet(Workers \X (1 .. SearchCredit))
  BY <1>1, Given, FS_Product
<1>3. Outstanding \subseteq Workers \X (1 .. SearchCredit)
  BY DEF Outstanding
<1>4. QED
  BY <1>2, <1>3, FS_Subset, FS_CardinalityType

\* A call that is sent takes its credit, one that is settled gives it back.
LEMMA Taken ==
  ASSUME TypeOK, NEW w \in Workers, active[w] = None, NEW t \in Task,
         active' = [active EXCEPT ![w] = t]
  PROVE  Cardinality(Outstanding') = Cardinality(Outstanding) + t.credit
<1> DEFINE U == {w} \X (1 .. t.credit)
<1>1. t.credit \in 1 .. SearchCredit /\ t.credit \in Nat
  BY Given DEF Task
<1>2. t # None
  BY MarkAssumption
<1>3. active'[w] = t /\ \A v \in Workers \ {w} : active'[v] = active[v]
  BY DEF TypeOK
<1>4. Outstanding' = Outstanding \cup U
  BY <1>1, <1>2, <1>3, Given DEF Outstanding, Busy
<1>5. Outstanding \cap U = {}
  BY DEF Outstanding, Busy
<1> HIDE DEF U
<1>6. IsFiniteSet(U) /\ Cardinality(U) = t.credit
  BY <1>1, UnitsOf DEF U
<1>7. Cardinality(Outstanding \cap U) = 0
  BY <1>5, FS_EmptySet
<1>8. /\ IsFiniteSet(Outstanding) /\ Cardinality(Outstanding) \in Nat
      /\ Cardinality(Outstanding \cup U)
           = Cardinality(Outstanding) + Cardinality(U) - Cardinality(Outstanding \cap U)
  BY <1>6, OutstandingFinite, FS_Union
<1>9. QED
  BY <1>1, <1>4, <1>6, <1>7, <1>8

LEMMA Returned ==
  ASSUME TypeOK, NEW w \in Busy, active' = [active EXCEPT ![w] = None]
  PROVE  Cardinality(Outstanding') = Cardinality(Outstanding) - active[w].credit
<1> DEFINE U == {w} \X (1 .. active[w].credit)
<1>1. w \in Workers /\ active[w] \in Task
  BY DEF Busy, TypeOK
<1>2. active[w].credit \in 1 .. SearchCredit /\ active[w].credit \in Nat
  BY <1>1, Given DEF Task
<1>3. active'[w] = None /\ \A v \in Workers \ {w} : active'[v] = active[v]
  BY <1>1 DEF TypeOK
<1>4. Outstanding' = Outstanding \ U
  BY <1>2, <1>3, Given DEF Outstanding, Busy
<1>5. U \subseteq Outstanding
  BY <1>1, <1>2, Given DEF Outstanding
<1>6. Outstanding = Outstanding' \cup U /\ Outstanding' \cap U = {}
  BY <1>4, <1>5
<1> HIDE DEF U
<1>7. IsFiniteSet(U) /\ Cardinality(U) = active[w].credit
  BY <1>2, UnitsOf DEF U
<1>8. IsFiniteSet(Outstanding') /\ Cardinality(Outstanding') \in Nat
  BY <1>4, OutstandingFinite, FS_Subset, FS_CardinalityType
<1>9. Cardinality(Outstanding' \cap U) = 0
  BY <1>6, FS_EmptySet
<1>10. Cardinality(Outstanding' \cup U)
         = Cardinality(Outstanding') + Cardinality(U) - Cardinality(Outstanding' \cap U)
  BY <1>7, <1>8, FS_Union
<1>11. Cardinality(Outstanding) = Cardinality(Outstanding') + active[w].credit
  BY <1>2, <1>6, <1>7, <1>8, <1>9, <1>10
<1>12. QED
  BY <1>2, <1>8, <1>11

-----------------------------------------------------------------------------
(* Calls and records. *)

\* What sending a call leaves of a record.
Kept(d) ==
  /\ rec'[d].terminal = rec[d].terminal /\ rec'[d].exact = rec[d].exact
  /\ rec'[d].score = rec[d].score /\ rec'[d].adverse = rec[d].adverse
  /\ rec'[d].bound = rec[d].bound /\ rec'[d].rejected = rec[d].rejected
  /\ rec'[d].quarantined = rec[d].quarantined /\ rec'[d].owner = rec[d].owner
  /\ rec'[d].proofs = rec[d].proofs /\ rec'[d].repairs = rec[d].repairs
  /\ rec'[d].safety = rec[d].safety /\ rec'[d].aspires = rec[d].aspires

Purse == /\ probe \in (0 .. SafetyCredit) \cup {None}
         /\ reserved \in Nat /\ committed \in Nat /\ safetyCommitted \in Nat

LEMMA Updated ==
  ASSUME TypeOK, NEW c \in Candidates, NEW r \in Record, rec' = [rec EXCEPT ![c] = r]
  PROVE  /\ rec' \in [Candidates -> Record] /\ rec'[c] = r
         /\ \A d \in Candidates \ {c} : rec'[d] = rec[d]
  BY DEF TypeOK

LEMMA Attempted ==
  ASSUME NEW r \in Record, NEW n \in 0 .. MaxAttempts, NEW q, q = [r EXCEPT !.attempts = n]
  PROVE  /\ q \in Record
         /\ q.terminal = r.terminal /\ q.exact = r.exact /\ q.score = r.score
         /\ q.adverse = r.adverse /\ q.bound = r.bound /\ q.rejected = r.rejected
         /\ q.quarantined = r.quarantined /\ q.owner = r.owner /\ q.proofs = r.proofs
         /\ q.repairs = r.repairs /\ q.safety = r.safety /\ q.aspires = r.aspires
  BY DEF Record

LEMMA Sent ==
  ASSUME TypeOK, Balanced, NEW w \in Workers, active[w] = None, NEW c \in Candidates,
         NEW purpose \in Purposes,
         Window(c, purpose)[1] \in -Full .. Full, Window(c, purpose)[2] \in -Full .. Full,
         purpose = "aspiration" => rec[c].attempts < MaxAttempts,
         Send(w, c, purpose)
  PROVE  /\ active' \in [Workers -> Task \cup {None}]
         /\ rec' \in [Candidates -> Record] /\ Purse' /\ Balanced'
         /\ Busy' = Busy \cup {w} /\ \A v \in Busy : active'[v] = active[v]
         /\ active'[w].candidate = c /\ active'[w].purpose = purpose
         /\ active'[w].alpha \in -Full .. Full /\ active'[w].beta \in -Full .. Full
         /\ \A d \in Candidates : Kept(d) /\ (d # c => rec'[d] = rec[d])
<1> DEFINE credit == Least(SearchCredit, Available)
           t == [candidate |-> c, purpose |-> purpose, alpha |-> Window(c, purpose)[1],
                 beta |-> Window(c, purpose)[2], credit |-> credit]
<1>1. /\ Available > 0 /\ active' = [active EXCEPT ![w] = t] /\ reserved' = reserved + credit
      /\ probe' = probe /\ committed' = committed /\ safetyCommitted' = safetyCommitted
      /\ rec' = [rec EXCEPT ![c].attempts = IF purpose = "aspiration" THEN @ + 1 ELSE @]
  BY DEF Send
<1>2. credit \in 1 .. SearchCredit
  <2>1. MaxWork \in Int /\ SafetyReserve \in Int /\ committed \in Int /\ reserved \in Int
        /\ safetyCommitted \in Int /\ (probe # None => probe \in Int)
    BY RootAssumption DEF TypeOK
  <2>2. Available \in Int
    <3>1. Remaining \in Int
      BY <2>1 DEF Remaining
    <3>2. SafetyReserved \in Int
      BY <2>1 DEF SafetyReserved
    <3>3. Held \in Int
      BY <2>1, <3>2 DEF Held, Greatest
    <3>4. QED
      BY <3>1, <3>3 DEF Available, Greatest
  <2>3. QED
    BY <1>1, <2>2, Given DEF Least
<1>3. t \in Task /\ t.candidate = c /\ t.purpose = purpose /\ t.credit = credit
      /\ t.alpha \in -Full .. Full /\ t.beta \in -Full .. Full
  BY <1>2, Given DEF Task
<1> HIDE DEF t, credit
<1>4. t # None
  BY <1>3, MarkAssumption
<1>5. /\ active' \in [Workers -> Task \cup {None}] /\ active'[w] = t
      /\ \A v \in Workers \ {w} : active'[v] = active[v]
  BY <1>1, <1>3 DEF TypeOK
<1>6. Busy' = Busy \cup {w} /\ \A v \in Busy : active'[v] = active[v]
  BY <1>4, <1>5 DEF Busy
<1>7. Balanced' /\ Purse'
  <2>1. Cardinality(Outstanding') = Cardinality(Outstanding) + credit
    BY <1>1, <1>3, Taken
  <2>2. SafetyReserved' = SafetyReserved
    BY <1>1 DEF SafetyReserved
  <2>3. Cardinality(Outstanding) \in Nat /\ credit \in Nat /\ reserved \in Nat
    BY <1>2, OutstandingFinite, Given DEF TypeOK
  <2>4. SafetyReserved \in Int
    BY Given DEF SafetyReserved, TypeOK
  <2>5. Balanced'
    BY <1>1, <2>1, <2>2, <2>3, <2>4 DEF Balanced
  <2>6. QED
    BY <1>1, <2>3, <2>5 DEF Purse, TypeOK
<1>8. rec' \in [Candidates -> Record] /\ \A d \in Candidates : Kept(d) /\ (d # c => rec'[d] = rec[d])
  <2> DEFINE n == IF purpose = "aspiration" THEN rec[c].attempts + 1 ELSE rec[c].attempts
  <2>1. rec[c] \in Record /\ n \in 0 .. MaxAttempts
    BY RecordFields, Given
  <2>2. rec' = [rec EXCEPT ![c] = [rec[c] EXCEPT !.attempts = n]]
    BY <1>1
  <2> HIDE DEF n
  <2> DEFINE q == [rec[c] EXCEPT !.attempts = n]
             r == rec[c]
  <2>a. r \in Record /\ q = [r EXCEPT !.attempts = n]
    BY <2>1
  <2>3. /\ q \in Record
        /\ q.terminal = r.terminal /\ q.exact = r.exact /\ q.score = r.score
        /\ q.adverse = r.adverse /\ q.bound = r.bound /\ q.rejected = r.rejected
        /\ q.quarantined = r.quarantined /\ q.owner = r.owner /\ q.proofs = r.proofs
        /\ q.repairs = r.repairs /\ q.safety = r.safety /\ q.aspires = r.aspires
    <3> HIDE DEF r, q
    <3> QED
      BY <2>1, <2>a, Attempted
  <2>b. rec' = [rec EXCEPT ![c] = q]
    BY <2>2
  <2> HIDE DEF q
  <2>4. /\ rec' \in [Candidates -> Record] /\ rec'[c] = q
        /\ \A d \in Candidates \ {c} : rec'[d] = rec[d]
    BY <2>b, <2>3, Updated
  <2>5. \A d \in Candidates : Kept(d)
    BY <2>3, <2>4 DEF Kept
  <2>6. QED
    BY <2>4, <2>5
<1>9. QED
  BY <1>3, <1>5, <1>6, <1>7, <1>8

LEMMA Settled ==
  ASSUME TypeOK, Balanced, NEW w \in Workers, active[w] # None, NEW used \in Nat,
         active' = [active EXCEPT ![w] = None], reserved' = reserved - active[w].credit,
         committed' = committed + used, probe' = probe, safetyCommitted' = safetyCommitted
  PROVE  /\ active' \in [Workers -> Task \cup {None}] /\ Purse' /\ Balanced'
         /\ Busy' = Busy \ {w} /\ active'[w] = None
         /\ \A v \in Workers \ {w} : active'[v] = active[v]
<1>1. /\ active' \in [Workers -> Task \cup {None}] /\ active'[w] = None
      /\ \A v \in Workers \ {w} : active'[v] = active[v]
  BY DEF TypeOK
<1>2. Busy' = Busy \ {w}
  BY <1>1 DEF Busy
<1>3. active[w].credit \in Nat
  BY DEF TypeOK, Task
<1>4. Cardinality(Outstanding') = Cardinality(Outstanding) - active[w].credit
  BY Returned DEF Busy
<1>5. SafetyReserved' = SafetyReserved /\ SafetyReserved \in Nat
  BY Given DEF SafetyReserved, TypeOK
<1>6. Cardinality(Outstanding) \in Nat
  BY OutstandingFinite
<1>7. Balanced'
  BY <1>3, <1>4, <1>5, <1>6 DEF Balanced
<1>8. Cardinality(Outstanding') \in Nat
  <2>1. Outstanding' \subseteq Outstanding
    BY <1>1 DEF Outstanding, Busy
  <2>2. QED
    BY <2>1, OutstandingFinite, FS_Subset, FS_CardinalityType
<1>9. Purse'
  BY <1>5, <1>7, <1>8 DEF Purse, Balanced, TypeOK
<1>10. QED
  BY <1>1, <1>2, <1>7, <1>9

LEMMA ProbeSettled ==
  ASSUME TypeOK, Balanced, probe # None, NEW used \in Nat, SettleProbe(used), UNCHANGED active
  PROVE  Purse' /\ Balanced'
<1>1. /\ probe \in Nat /\ probe' = None /\ reserved' = reserved - probe
      /\ committed' = committed + used /\ safetyCommitted' = safetyCommitted + used
  BY Given DEF SettleProbe, TypeOK
<1>2. Outstanding' = Outstanding
  BY DEF Outstanding, Busy
<1>3. Cardinality(Outstanding) \in Nat
  BY OutstandingFinite
<1>4. Balanced' /\ reserved' \in Nat
  BY <1>1, <1>2, <1>3 DEF Balanced, SafetyReserved, TypeOK
<1>5. QED
  BY <1>1, <1>4 DEF Purse, TypeOK

\* makeExact
LEMMA MadeExact ==
  ASSUME NEW r \in Record, NEW w \in Workers, NEW v \in Truth, NEW q, q = MakeExact(r, w, v)
  PROVE  /\ q \in Record
         /\ q.exact /\ q.bound = None /\ q.score = v.score /\ q.adverse = v.adverse
         /\ q.quarantined = v.claim /\ q.owner = w
         /\ q.terminal = r.terminal /\ q.rejected = r.rejected /\ q.proofs = r.proofs
         /\ q.repairs = r.repairs /\ q.safety = r.safety
<1>1. q = [r EXCEPT !.exact = TRUE, !.bound = None, !.score = v.score, !.adverse = v.adverse,
                    !.quarantined = v.claim, !.owner = w]
  BY DEF MakeExact
<1>2. v.score \in -Mate .. Mate /\ v.adverse \in BOOLEAN /\ v.claim \in BOOLEAN
  BY DEF Truth
<1>3. /\ r.terminal \in BOOLEAN /\ r.rejected \in BOOLEAN
      /\ r.proofs \in 0 .. MaxRepairs /\ r.repairs \in 0 .. MaxRepairs
      /\ r.safety \in {"none", "exhausted", "found", "terminal", "line-rejected"}
      /\ r.aspires \in BOOLEAN /\ r.delta \in Nat /\ r.attempts \in 0 .. MaxAttempts
  BY DEF Record
<1>4. q = [terminal |-> r.terminal, exact |-> TRUE, score |-> v.score, adverse |-> v.adverse,
           bound |-> None, rejected |-> r.rejected, quarantined |-> v.claim, owner |-> w,
           proofs |-> r.proofs, repairs |-> r.repairs, safety |-> r.safety,
           aspires |-> r.aspires, delta |-> r.delta, attempts |-> r.attempts]
  BY <1>1, ZenonT(40) DEF Record
<1>5. q \in Record
  BY <1>2, <1>3, <1>4 DEF Record
<1>6. QED
  BY <1>4, <1>5

-----------------------------------------------------------------------------
(* Steps of every kind. *)

\* A step that goes on.
LEMMA Onward ==
  ASSUME SelInv, TypeOK', LedgerInv', Balanced', Calls', Sane', selected' = None, error' = None
  PROVE  SelInv'
<1>1. Verdicts'
  BY MarkAssumption DEF Verdicts
<1>2. selected' \notin Candidates
  BY Given
<1>3. SelectedIsBest' /\ SelectedIsCertified'
  BY <1>2 DEF SelectedIsBest, SelectedIsCertified
<1>4. QED
  BY <1>1, <1>3 DEF SelInv

\* A step that fails, but not because the coordinator is at odds with itself.
LEMMA OnFail ==
  ASSUME SelInv, LedgerInv', NEW e \in Errors, Fail(e), pc # "done"
  PROVE  SelInv'
<1>1. /\ pc' = "abort" /\ error' = e /\ selected' = selected
      /\ white' = white /\ truth' = truth /\ rec' = rec /\ active' = active /\ queue' = queue
      /\ next' = next /\ probe' = probe /\ reserved' = reserved /\ committed' = committed
      /\ safetyCommitted' = safetyCommitted /\ rejections' = rejections
      /\ repairs' = repairs /\ vetoes' = vetoes
  BY DEF Fail, ledger, counters
<1>2. selected = None
  BY DEF SelInv, Verdicts
<1>3. TypeOK'
  BY <1>1 DEF SelInv, TypeOK
<1>4. Balanced'
  BY <1>1 DEF SelInv, Balanced, Outstanding, Busy, SafetyReserved
<1>5. Calls'
  BY <1>1 DEF SelInv, Calls, Busy, Searching, Deciding, Recalling
<1>6. Verdicts'
  BY <1>1, <1>2 DEF Verdicts, Errors, Faults, Running, Searching, Deciding
<1>7. selected' \notin Candidates
  BY <1>1, <1>2, Given
<1>8. SelectedIsBest' /\ SelectedIsCertified'
  BY <1>7 DEF SelectedIsBest, SelectedIsCertified
<1>9. pc' \notin Running
  BY <1>1 DEF Running, Searching, Deciding
<1>10. QED
  BY <1>3, <1>4, <1>5, <1>6, <1>8, <1>9 DEF SelInv

\* What SelInv says while the iteration runs.
LEMMA Facts ==
  ASSUME SelInv, pc \in Running
  PROVE  /\ TypeOK /\ Balanced /\ Calls /\ Sane /\ LedgerInv
         /\ \A c \in Candidates : Faithful(c)
         /\ selected = None /\ error = None
         /\ pc \notin {"probe", "abort"} => probe = None
         /\ pc # "probe" => SafetyReserved = 0
  BY DEF SelInv, Sane, Verdicts, Running, Searching, Deciding, LedgerInv, Credited, SafetyReserved

\* Away from the repair of a line, the records and counters carry over to any stage.
LEMMA Moved ==
  ASSUME Sane, UNCHANGED <<white, truth, rec, rejections, repairs, vetoes>>,
         pc \notin Mending, pc' \notin Mending, pc' # "start"
  PROVE  /\ \A c \in Candidates : Faithful(c)'
         /\ Dispositions' /\ Exacts' = Exacts
         /\ \A c : IsLeader(c)' <=> IsLeader(c)
         /\ AllCovered' <=> AllCovered
<1>1. /\ Exacts' = Exacts /\ \A c : IsLeader(c)' <=> IsLeader(c)
      /\ AllCovered' <=> AllCovered
  BY SameStanding
<1>2. \A c \in Candidates : Faithful(c)'
  BY DEF Sane, Faithful
<1>3. Dispositions'
  BY DEF Sane, Dispositions, Tokens, Open
<1>4. QED
  BY <1>1, <1>2, <1>3

LEMMA TokensFinite ==
  ASSUME TypeOK
  PROVE  IsFiniteSet(Tokens) /\ Cardinality(Tokens) \in Nat
<1>1. IsFiniteSet(1 .. MaxRepairs)
  BY FS_Interval, Given
<1>2. IsFiniteSet(Candidates \X (1 .. MaxRepairs))
  BY <1>1, Given, FS_Product
<1>3. Tokens \subseteq Candidates \X (1 .. MaxRepairs)
  BY DEF Tokens
<1>4. QED
  BY <1>2, <1>3, FS_Subset, FS_CardinalityType

\* A step on records that leaves proofs, repairs, vetoes and counters alone.
LEMMA SameDispositions ==
  ASSUME Dispositions, UNCHANGED <<rejections, repairs, vetoes>>,
         pc \notin Mending, pc' \notin Mending,
         \A d \in Candidates : /\ rec'[d].rejected = rec[d].rejected
                               /\ rec'[d].proofs = rec[d].proofs
                               /\ rec'[d].repairs = rec[d].repairs
  PROVE  Dispositions'
<1>1. Tokens' = Tokens
  BY DEF Tokens
<1>2. QED
  BY <1>1 DEF Dispositions, Open

-----------------------------------------------------------------------------
(* Searches are sent. *)
LEMMA SendSearch ==
  ASSUME SelInv, LedgerInv', pc \in {"seed", "fill", "dispatch"},
         NEW w \in Workers, active[w] = None, NEW c \in Candidates, ~ rec[c].exact,
         \A v \in Busy : active[v].candidate # c,
         NEW purpose \in {"scout", "aspiration", "full", "threat-research"},
         purpose = "aspiration" => Aspiration # {} /\ rec[c].attempts < MaxAttempts,
         purpose = "scout" => Incumbent \in Candidates /\ rec[Incumbent].score \in -Mate .. Mate,
         Send(w, c, purpose), queue' = queue \ {c},
         UNCHANGED <<white, truth, rejections, repairs, vetoes, selected, error>>,
         pc' \in {"seed", "fill", "search"}, pc' = "seed" => pc = "seed",
         next' \in Planned \cup {None}
  PROVE  SelInv'
<1>1. /\ TypeOK /\ Balanced /\ Calls /\ Sane /\ LedgerInv /\ selected = None /\ error = None
      /\ \A d \in Candidates : Faithful(d)
  BY Facts DEF Running, Searching
<1>2. purpose \in Purposes
  BY DEF Purposes, Windowed
<1>3. Window(c, purpose)[1] \in -Full .. Full /\ Window(c, purpose)[2] \in -Full .. Full
  BY <1>1, <1>2, WindowType
<1>4. /\ active' \in [Workers -> Task \cup {None}]
      /\ rec' \in [Candidates -> Record] /\ Purse' /\ Balanced'
      /\ Busy' = Busy \cup {w} /\ \A v \in Busy : active'[v] = active[v]
      /\ active'[w].candidate = c /\ active'[w].purpose = purpose
      /\ active'[w].alpha \in -Full .. Full /\ active'[w].beta \in -Full .. Full
      /\ \A d \in Candidates : Kept(d) /\ (d # c => rec'[d] = rec[d])
  BY <1>1, <1>2, <1>3, Sent
<1>5. TypeOK'
  <2>1. queue' \subseteq Candidates
    BY <1>1 DEF TypeOK
  <2>2. QED
    BY <1>1, <1>4, <2>1 DEF TypeOK, Purse
<1>6. queue \subseteq Candidates /\ Searches
  BY <1>1 DEF TypeOK, Calls, Searching
<1>7. Searches'
  <2>1. \A d \in queue' : /\ ~ rec'[d].exact
                          /\ pc' \in {"start", "seed"} =>
                               rec'[d].attempts = 0 /\ (rec'[d].aspires => Aspiration # {})
    <3> SUFFICES ASSUME NEW d \in queue'
                 PROVE  /\ ~ rec'[d].exact
                        /\ pc' \in {"start", "seed"} =>
                             rec'[d].attempts = 0 /\ (rec'[d].aspires => Aspiration # {})
      OBVIOUS
    <3>1. d \in queue /\ d \in Candidates /\ rec'[d] = rec[d]
      BY <1>4, <1>6
    <3>2. QED
      BY <1>6, <3>1 DEF Searches
  <2>2. \A v \in Busy' :
           /\ active'[v].purpose \in {"scout", "aspiration", "full", "threat-research"}
           /\ active'[v].purpose = "aspiration" => Aspiration # {}
           /\ ~ rec'[active'[v].candidate].exact
           /\ active'[v].candidate \notin queue'
    <3>1. ASSUME NEW v \in Busy
          PROVE  /\ active'[v].purpose \in {"scout", "aspiration", "full", "threat-research"}
                 /\ active'[v].purpose = "aspiration" => Aspiration # {}
                 /\ ~ rec'[active'[v].candidate].exact
                 /\ active'[v].candidate \notin queue'
      <4>1. active[v].candidate \in Candidates /\ active'[v] = active[v]
        BY <1>1, <1>4 DEF Busy, TypeOK, Task
      <4>2. rec'[active[v].candidate].exact = rec[active[v].candidate].exact
        BY <1>4, <4>1 DEF Kept
      <4>3. QED
        BY <1>6, <4>1, <4>2 DEF Searches
    <3>2. rec'[c].exact = rec[c].exact
      BY <1>4 DEF Kept
    <3>3. QED
      BY <1>4, <3>1, <3>2
  <2>3. \A v, u \in Busy' : active'[v].candidate = active'[u].candidate => v = u
    BY <1>4, <1>6 DEF Searches
  <2>4. QED
    BY <2>1, <2>2, <2>3 DEF Searches
<1>8. Calls'
  <2>1. \A v \in Busy' : active'[v].alpha \in -Full .. Full /\ active'[v].beta \in -Full .. Full
    BY <1>1, <1>4 DEF Calls
  <2>2. QED
    BY <1>7, <2>1 DEF Calls, Searching, Deciding, Recalling
<1>9. Sane'
  <2>1. \A d \in Candidates : Faithful(d)'
    <3> SUFFICES ASSUME NEW d \in Candidates
                 PROVE  Faithful(d)'
      OBVIOUS
    <3>1. Kept(d) /\ Faithful(d)
      BY <1>1, <1>4
    <3>2. QED
      BY <3>1 DEF Faithful, Kept
  <2>2. Dispositions'
    BY <1>1, <1>4, SameDispositions DEF Sane, Kept, Mending
  <2>3. Standing'
    BY DEF Standing, Deciding
  <2>4. QED
    BY <2>1, <2>2, <2>3 DEF Sane
<1>10. QED
  BY <1>1, <1>4, <1>5, <1>8, <1>9, Onward

LEMMA SameBalance ==
  ASSUME Balanced, UNCHANGED <<active, probe, reserved>>
  PROVE  Balanced'
  BY DEF Balanced, Outstanding, Busy, SafetyReserved

\* An immediate mate is published without a search: nothing can precede it.
LEMMA OnStart ==
  ASSUME SelInv, LedgerInv', Start
  PROVE  SelInv'
<1> DEFINE mates == {c \in Candidates : rec[c].terminal /\ rec[c].score = MoverMate(1)}
<1>1. /\ pc = "start" /\ UNCHANGED <<white, truth, rec, active, queue, next, error>>
      /\ UNCHANGED <<probe, reserved, committed, safetyCommitted, rejections, repairs, vetoes>>
      /\ IF mates = {} THEN pc' = "seed" /\ selected' = selected
                       ELSE pc' = "done" /\ selected' = First(mates)
  BY DEF Start, ledger, counters
<1>2. /\ TypeOK /\ Balanced /\ Calls /\ Sane /\ LedgerInv /\ selected = None /\ error = None
      /\ \A c \in Candidates : Faithful(c)
  BY <1>1, Facts DEF Running, Searching
<1>3. Balanced'
  BY <1>1, <1>2, SameBalance
<1>4. Busy = {} /\ Busy' = {}
  BY <1>1, <1>2 DEF Calls, Busy
<1>5. CASE mates = {}
  <2>1. pc' = "seed" /\ selected' = None /\ error' = None
    BY <1>1, <1>2, <1>5
  <2>2. TypeOK'
    BY <1>1, <1>2, <2>1 DEF TypeOK
  <2>3. Calls'
    BY <1>1, <1>2, <1>4, <2>1 DEF Calls, Searches, Searching, Deciding, Recalling
  <2>4. Sane'
    <3>1. (\A c \in Candidates : Faithful(c)') /\ Dispositions'
      BY <1>1, <1>2, <2>1, Moved DEF Mending
    <3>2. Standing'
      BY <2>1 DEF Standing, Deciding
    <3>3. QED
      BY <3>1, <3>2 DEF Sane
  <2>5. QED
    BY <1>3, <2>1, <2>2, <2>3, <2>4, Onward
<1>6. CASE mates # {}
  <2>0. PICK s : s = First(mates)
    OBVIOUS
  <2>1. s \in mates /\ \A c \in mates : s <= c
    <3>1. mates \in SUBSET Nat
      BY Given
    <3> HIDE DEF mates
    <3>2. QED
      BY <1>6, <2>0, <3>1, FirstOf
  <2>2. /\ pc' = "done" /\ selected' = s /\ error' = None
        /\ s \in Candidates /\ rec[s].terminal /\ rec[s].score = MoverMate(1)
    BY <1>1, <1>2, <1>6, <2>0, <2>1
  <2>3. TypeOK'
    BY <1>1, <1>2, <2>2 DEF TypeOK
  <2>4. Calls'
    BY <1>4, <2>2 DEF Calls, Searching, Deciding, Recalling
  <2>5. Verdicts' /\ pc' \notin Running
    BY <2>2, MarkAssumption DEF Verdicts, Running, Searching, Deciding
  <2>6. /\ truth[s].score = MoverMate(1) /\ ~ truth[s].adverse /\ ~ truth[s].claim
        /\ rec[s].safety = "terminal" /\ ~ rec[s].rejected /\ truth[s].adverse \in BOOLEAN
    BY <1>2, <2>2, RecordFields DEF Faithful
  <2>7. SelectedIsCertified'
    BY <1>1, <2>2, <2>6 DEF SelectedIsCertified
  <2>8. SelectedIsBest'
    <3> SUFFICES ASSUME NEW c \in Candidates \ {s},
                        ~ (rec[c].terminal /\ rec[c].score = MoverMate(1) /\ s < c)
                 PROVE  ~ Precedes(truth[c], Key[c], truth[s], Key[s])'
      BY <1>1, <2>2 DEF SelectedIsBest, MoverMate
    <3>1. ~ (rec[c].terminal /\ rec[c].score = MoverMate(1))
      <4>1. c \in Nat /\ s \in Nat /\ c # s
        BY <2>2, Given
      <4>2. QED
        BY <2>1, <4>1
    <3>2. Faithful(c) /\ truth[c].score \in -Mate .. Mate /\ truth[c].adverse \in BOOLEAN
      BY <1>2, RecordFields
    <3>3. truth[c].score # MoverMate(1)
      <4>1. CASE rec[c].terminal
        BY <3>1, <3>2, <4>1 DEF Faithful
      <4>2. CASE ~ rec[c].terminal
        BY <1>1, <3>2, <4>2, Given DEF Faithful, MoverMate
      <4>3. QED
        BY <4>1, <4>2
    <3>4. white \in BOOLEAN
      BY <1>2 DEF TypeOK
    <3>5. ~ Precedes(truth[c], Key[c], truth[s], Key[s])
      <4>1. CASE truth[c].adverse
        BY <2>6, <4>1 DEF Precedes
      <4>2. CASE ~ truth[c].adverse
        <5>1. /\ truth[c].score \in Int /\ truth[s].score \in Int
              /\ white => truth[c].score < truth[s].score
              /\ ~ white => truth[c].score > truth[s].score
          BY <2>6, <3>2, <3>3, <3>4, Given DEF MoverMate
        <5>2. QED
          BY <2>6, <3>2, <3>4, <4>2, <5>1 DEF Precedes
      <4>3. QED
        BY <4>1, <4>2
    <3>6. QED
      BY <1>1, <3>5 DEF Precedes
  <2>9. QED
    BY <1>3, <2>3, <2>4, <2>5, <2>7, <2>8 DEF SelInv
<1>7. QED
  BY <1>5, <1>6

\* The candidates are all searched: what is left is to await, or to cover.
LEMMA SearchOver ==
  ASSUME SelInv, LedgerInv', pc \in {"seed", "fill"}, pc' = IF Busy = {} THEN "cover" ELSE "search",
         Busy = {} => queue = {},
         UNCHANGED <<white, truth, rec, active, queue, next, ledger, counters, outcome>>
  PROVE  SelInv'
<1>1. /\ UNCHANGED <<white, truth, rec, active, queue, next, selected, error>>
      /\ UNCHANGED <<probe, reserved, committed, safetyCommitted, rejections, repairs, vetoes>>
  BY DEF ledger, counters, outcome
<1>2. /\ TypeOK /\ Balanced /\ Calls /\ Sane /\ LedgerInv /\ selected = None /\ error = None
      /\ \A c \in Candidates : Faithful(c)
  BY Facts DEF Running, Searching
<1>3. TypeOK' /\ Balanced'
  <2>1. TypeOK'
    BY <1>1, <1>2 DEF TypeOK
  <2>2. QED
    BY <1>1, <1>2, <2>1, SameBalance
<1>4. Busy' = Busy
  BY <1>1 DEF Busy
<1>5. Calls'
  BY <1>1, <1>2, <1>4 DEF Calls, Searches, Searching, Deciding, Recalling
<1>6. Sane'
  <2>1. (\A c \in Candidates : Faithful(c)') /\ Dispositions'
    BY <1>1, <1>2, Moved DEF Mending
  <2>2. Standing'
    BY DEF Standing, Deciding
  <2>3. QED
    BY <2>1, <2>2 DEF Sane
<1>7. QED
  BY <1>1, <1>2, <1>3, <1>5, <1>6, Onward

LEMMA NextInQueue ==
  ASSUME SelInv, pc \in {"seed", "fill"}, queue # {}
  PROVE  /\ First(queue) \in queue /\ First(queue) \in Candidates
         /\ ~ rec[First(queue)].exact /\ \A v \in Busy : active[v].candidate # First(queue)
         /\ pc = "seed" => rec[First(queue)].attempts = 0
                           /\ (rec[First(queue)].aspires => Aspiration # {})
<1>1. TypeOK /\ Calls
  BY DEF SelInv
<1>2. queue \in SUBSET Nat /\ queue \subseteq Candidates
  BY <1>1, Given DEF TypeOK
<1>3. First(queue) \in queue
  BY <1>2, FirstOf
<1>4. Searches
  BY <1>1 DEF Calls, Searching
<1>5. QED
  BY <1>2, <1>3, <1>4 DEF Searches

LEMMA FirstIdle ==
  ASSUME Idle # {}
  PROVE  First(Idle) \in Workers /\ active[First(Idle)] = None
<1>1. Idle \in SUBSET Nat
  BY Given DEF Idle
<1>2. First(Idle) \in Idle
  BY <1>1, FirstOf
<1>3. QED
  BY <1>2 DEF Idle, Busy

LEMMA OnSeed ==
  ASSUME SelInv, LedgerInv', Seed
  PROVE  SelInv'
<1>0. pc = "seed"
  BY DEF Seed
<1>1. TypeOK
  BY DEF SelInv
<1>2. Wave \in 1 .. Cardinality(Workers) /\ Cardinality(Workers) \in Nat
  BY Given, FS_CardinalityType, RootAssumption
<1>3. CASE Seeding /\ Send(First(Idle), First(queue),
                           IF rec[First(queue)].aspires THEN "aspiration" ELSE "full")
           /\ queue' = queue \ {First(queue)}
           /\ UNCHANGED <<white, truth, next, counters, pc, outcome>>
  <2> DEFINE w == First(Idle)
             c == First(queue)
             p == IF rec[c].aspires THEN "aspiration" ELSE "full"
  <2>1. Idle # {}
    <3>1. Cardinality(Busy) < Wave
      BY <1>3 DEF Seeding
    <3>2. Busy # Workers
      BY <1>2, <3>1
    <3>3. QED
      BY <3>2 DEF Idle, Busy
  <2>2. w \in Workers /\ active[w] = None
    BY <2>1, FirstIdle
  <2>3. /\ c \in Candidates /\ ~ rec[c].exact /\ \A v \in Busy : active[v].candidate # c
        /\ rec[c].attempts = 0 /\ (rec[c].aspires => Aspiration # {})
    BY <1>0, <1>3, NextInQueue DEF Seeding
  <2>4. /\ p \in {"scout", "aspiration", "full", "threat-research"} /\ p # "scout"
        /\ (p = "aspiration" => Aspiration # {} /\ rec[c].attempts < MaxAttempts)
    BY <2>3, Given
  <2>5. /\ UNCHANGED <<white, truth, rejections, repairs, vetoes, selected, error>>
        /\ pc' = "seed" /\ next' \in Planned \cup {None}
    BY <1>0, <1>1, <1>3 DEF counters, outcome, TypeOK
  <2>6. Send(w, c, p) /\ queue' = queue \ {c}
    BY <1>3
  <2> HIDE DEF w, c, p
  <2>7. QED
    BY <1>0, <2>2, <2>3, <2>4, <2>5, <2>6, SendSearch
<1>4. CASE Fail("work-limit")
  BY <1>0, <1>4, OnFail DEF Errors
<1>5. CASE ~ Seeding /\ pc' = (IF Busy = {} THEN "cover" ELSE "search")
           /\ UNCHANGED <<white, truth, rec, active, queue, next, ledger, counters, outcome>>
  <2>1. Busy = {} => queue = {}
    BY <1>2, <1>5, FS_EmptySet DEF Seeding
  <2>2. QED
    BY <1>0, <1>5, <2>1, SearchOver
<1>6. QED
  BY <1>3, <1>4, <1>5 DEF Seed

LEMMA OnFill ==
  ASSUME SelInv, LedgerInv', Fill
  PROVE  SelInv'
<1>0. pc = "fill"
  BY DEF Fill
<1>1. TypeOK /\ \A c \in Candidates : Faithful(c)
  BY <1>0, Facts DEF Running, Searching
<1>2. CASE Filling /\ Send(First(Idle), First(queue), IF Incumbent = None THEN "full" ELSE "scout")
           /\ queue' = queue \ {First(queue)}
           /\ UNCHANGED <<white, truth, next, counters, pc, outcome>>
  <2> DEFINE w == First(Idle)
             c == First(queue)
             p == IF Incumbent = None THEN "full" ELSE "scout"
  <2>1. w \in Workers /\ active[w] = None
    BY <1>2, FirstIdle DEF Filling
  <2>2. c \in Candidates /\ ~ rec[c].exact /\ \A v \in Busy : active[v].candidate # c
    BY <1>0, <1>2, NextInQueue DEF Filling
  <2>3. p \in {"scout", "aspiration", "full", "threat-research"} /\ p # "aspiration"
    OBVIOUS
  <2>4. p = "scout" => Incumbent \in Candidates /\ rec[Incumbent].score \in -Mate .. Mate
    <3> SUFFICES ASSUME Incumbent # None
                 PROVE  Incumbent \in Candidates /\ rec[Incumbent].score \in -Mate .. Mate
      OBVIOUS
    <3>1. IsLeader(Incumbent) /\ Incumbent \in Candidates
      BY <1>1, IncumbentIs, LeaderExists
    <3>2. Incumbent \in Exacts /\ Faithful(Incumbent)
      BY <1>1, <3>1 DEF IsLeader
    <3>3. QED
      BY <1>1, <3>1, <3>2, ExactFields
  <2>5. /\ UNCHANGED <<white, truth, rejections, repairs, vetoes, selected, error>>
        /\ pc' = "fill" /\ next' \in Planned \cup {None}
    BY <1>0, <1>1, <1>2 DEF counters, outcome, TypeOK
  <2>6. Send(w, c, p) /\ queue' = queue \ {c}
    BY <1>2
  <2> HIDE DEF w, c, p
  <2>7. QED
    BY <1>0, <2>1, <2>2, <2>3, <2>4, <2>5, <2>6, SendSearch
<1>3. CASE Fail("work-limit")
  BY <1>0, <1>3, OnFail DEF Errors
<1>4. CASE ~ Filling /\ pc' = (IF Busy = {} THEN "cover" ELSE "search")
           /\ UNCHANGED <<white, truth, rec, active, queue, next, ledger, counters, outcome>>
  <2>1. Busy = {} => queue = {}
    BY <1>4, Given DEF Filling, Idle
  <2>2. QED
    BY <1>0, <1>4, <2>1, SearchOver
<1>5. QED
  BY <1>2, <1>3, <1>4 DEF Fill

LEMMA OnDispatch ==
  ASSUME SelInv, LedgerInv', Dispatch
  PROVE  SelInv'
<1>0. pc = "dispatch"
  BY DEF Dispatch
<1>1. CASE Fail("work-limit")
  BY <1>0, <1>1, OnFail DEF Errors
<1>2. CASE Send(next.worker, next.candidate, next.purpose) /\ next' = None /\ pc' = "search"
           /\ UNCHANGED <<white, truth, queue, counters, outcome>>
  <2>1. TypeOK /\ Plans /\ next \in Planned
    BY <1>0 DEF SelInv, Calls, TypeOK, Plans
  <2>2. next.worker \in Workers /\ next.candidate \in Candidates
    BY <2>1 DEF Planned
  <2>3. UNCHANGED <<white, truth, rejections, repairs, vetoes, selected, error>>
    BY <1>2 DEF counters, outcome
  <2>4. /\ active[next.worker] = None /\ ~ rec[next.candidate].exact
        /\ \A v \in Busy : active[v].candidate # next.candidate
        /\ next.purpose \in {"scout", "aspiration", "full", "threat-research"}
        /\ next.purpose # "scout"
        /\ next.purpose = "aspiration" =>
             Aspiration # {} /\ rec[next.candidate].attempts < MaxAttempts
        /\ next.candidate \notin queue
    BY <2>1 DEF Plans
  <2>5. queue' = queue \ {next.candidate}
    BY <1>2, <2>4
  <2> DEFINE w == next.worker
             c == next.candidate
             p == next.purpose
  <2>6. /\ w \in Workers /\ c \in Candidates /\ active[w] = None /\ ~ rec[c].exact
        /\ \A v \in Busy : active[v].candidate # c
        /\ p \in {"scout", "aspiration", "full", "threat-research"}
        /\ p # "scout"
        /\ p = "aspiration" => Aspiration # {} /\ rec[c].attempts < MaxAttempts
        /\ queue' = queue \ {c} /\ Send(w, c, p)
    BY <1>2, <2>2, <2>4, <2>5
  <2> HIDE DEF w, c, p
  <2>7. QED
    BY <1>0, <1>2, <2>3, <2>6, SendSearch
<1>3. QED
  BY <1>1, <1>2 DEF Dispatch

-----------------------------------------------------------------------------
(* Searches are answered. *)

\* The candidate w had is recorded anew and not planned, or planned on w again.
LEMMA Answered ==
  ASSUME SelInv, LedgerInv', pc = "search", NEW w \in Workers, active[w] # None,
         NEW used \in Nat, Settle(w, used), NEW c, c = active[w].candidate,
         NEW q \in Record, rec' = [rec EXCEPT ![c] = q],
         q.rejected = rec[c].rejected, q.proofs = rec[c].proofs, q.repairs = rec[c].repairs,
         Faithful(c)', UNCHANGED <<white, truth, queue, rejections, repairs, vetoes, selected, error>>,
         next' \in Planned \cup {None}, pc' \in {"fill", "dispatch"},
         pc' = "dispatch" =>
           /\ next' # None /\ next'.worker = w /\ next'.candidate = c /\ ~ q.exact
           /\ next'.purpose \in {"aspiration", "full", "threat-research"}
           /\ next'.purpose = "aspiration" => Aspiration # {} /\ q.attempts < MaxAttempts
  PROVE  SelInv'
<1>1. /\ TypeOK /\ Balanced /\ Calls /\ Sane /\ LedgerInv /\ selected = None /\ error = None
      /\ \A d \in Candidates : Faithful(d)
  BY Facts DEF Running, Searching
<1>2. w \in Busy /\ c \in Candidates /\ Searches
  BY <1>1 DEF Busy, TypeOK, Task, Calls, Searching
<1>3. /\ active' = [active EXCEPT ![w] = None] /\ reserved' = reserved - active[w].credit
      /\ committed' = committed + used /\ probe' = probe /\ safetyCommitted' = safetyCommitted
  BY DEF Settle
<1>4. /\ active' \in [Workers -> Task \cup {None}] /\ Purse' /\ Balanced'
      /\ Busy' = Busy \ {w} /\ active'[w] = None
      /\ \A v \in Workers \ {w} : active'[v] = active[v]
  BY <1>1, <1>3, Settled
<1>5. /\ rec' \in [Candidates -> Record] /\ rec'[c] = q
      /\ \A d \in Candidates \ {c} : rec'[d] = rec[d]
  BY <1>1, <1>2, Updated
<1>6. TypeOK'
  BY <1>1, <1>4, <1>5 DEF TypeOK, Purse
<1>7. \A v \in Busy' : /\ v \in Busy /\ v # w /\ active'[v] = active[v]
                       /\ active[v].candidate \in Candidates /\ active[v].candidate # c
  <2> SUFFICES ASSUME NEW v \in Busy'
               PROVE  /\ v \in Busy /\ v # w /\ active'[v] = active[v]
                      /\ active[v].candidate \in Candidates /\ active[v].candidate # c
    OBVIOUS
  <2>1. v \in Busy /\ v # w /\ active'[v] = active[v]
    BY <1>4 DEF Busy
  <2>2. active[v].candidate \in Candidates
    BY <1>1, <2>1 DEF Busy, TypeOK, Task
  <2>3. active[v].candidate # c
    BY <1>2, <2>1 DEF Searches
  <2>4. QED
    BY <2>1, <2>2, <2>3
<1>8. c \notin queue
  BY <1>2 DEF Searches
<1>9. Searches'
  <2>1. \A d \in queue' : ~ rec'[d].exact
    <3>1. queue' \subseteq Candidates \ {c}
      BY <1>1, <1>8 DEF TypeOK
    <3>2. QED
      BY <1>2, <1>5, <3>1 DEF Searches
  <2>2. \A v \in Busy' :
           /\ active'[v].purpose \in {"scout", "aspiration", "full", "threat-research"}
           /\ active'[v].purpose = "aspiration" => Aspiration # {}
           /\ ~ rec'[active'[v].candidate].exact
           /\ active'[v].candidate \notin queue'
    <3> SUFFICES ASSUME NEW v \in Busy'
                 PROVE  /\ active'[v].purpose \in {"scout", "aspiration", "full", "threat-research"}
                        /\ active'[v].purpose = "aspiration" => Aspiration # {}
                        /\ ~ rec'[active'[v].candidate].exact
                        /\ active'[v].candidate \notin queue'
      OBVIOUS
    <3>1. v \in Busy /\ active'[v] = active[v] /\ rec'[active[v].candidate] = rec[active[v].candidate]
      BY <1>5, <1>7
    <3>2. QED
      BY <1>2, <3>1 DEF Searches
  <2>3. \A v, u \in Busy' : active'[v].candidate = active'[u].candidate => v = u
    BY <1>2, <1>7 DEF Searches
  <2>4. QED
    BY <2>1, <2>2, <2>3 DEF Searches
<1>10. pc' = "dispatch" => Plans'
  <2> SUFFICES ASSUME pc' = "dispatch"
               PROVE  Plans'
    OBVIOUS
  <2>1. \A v \in Busy' : active'[v].candidate # next'.candidate
    BY <1>7
  <2>2. QED
    BY <1>4, <1>5, <1>8, <2>1 DEF Plans
<1>11. Calls'
  <2>1. \A v \in Busy' : active'[v].alpha \in -Full .. Full /\ active'[v].beta \in -Full .. Full
    BY <1>1, <1>7 DEF Calls
  <2>2. QED
    BY <1>9, <1>10, <2>1 DEF Calls, Searching, Deciding, Recalling
<1>12. Sane'
  <2>1. \A d \in Candidates : Faithful(d)'
    <3> SUFFICES ASSUME NEW d \in Candidates, d # c
                 PROVE  Faithful(d)'
      OBVIOUS
    <3>1. rec'[d] = rec[d] /\ Faithful(d)
      BY <1>1, <1>5
    <3>2. QED
      BY <3>1 DEF Faithful
  <2>2. \A d \in Candidates : /\ rec'[d].rejected = rec[d].rejected
                              /\ rec'[d].proofs = rec[d].proofs
                              /\ rec'[d].repairs = rec[d].repairs
    BY <1>5
  <2>3. Dispositions'
    BY <1>1, <2>2, SameDispositions DEF Sane, Mending
  <2>4. Standing'
    BY DEF Standing, Deciding
  <2>5. QED
    BY <2>1, <2>3, <2>4 DEF Sane
<1>13. QED
  BY <1>1, <1>4, <1>6, <1>11, <1>12, Onward

\* classifyBound says something true.
LEMMA BoundsTrue ==
  ASSUME NEW v \in Truth, NEW alpha \in -Full .. Full, NEW beta \in -Full .. Full,
         NEW b \in Bounds(v, alpha, beta)
  PROVE  /\ b \in Bound /\ b # None
         /\ IF b.kind = "upper" THEN v.score <= b.score ELSE v.score >= b.score
<1>1. v.score \in -Full .. Full
  BY Given DEF Truth
<1>2. CASE \E s \in {v.score, alpha} : v.score <= alpha /\ b = [kind |-> "upper", score |-> s]
  <2>1. PICK s \in {v.score, alpha} : v.score <= alpha /\ b = [kind |-> "upper", score |-> s]
    BY <1>2
  <2>2. b \in Bound /\ v.score <= s /\ b.kind = "upper" /\ b.score = s
    BY <1>1, <2>1, Given DEF Bound
  <2>3. QED
    BY <2>2, MarkAssumption
<1>3. CASE \E s \in {v.score, beta} : v.score >= beta /\ b = [kind |-> "lower", score |-> s]
  <2>1. PICK s \in {v.score, beta} : v.score >= beta /\ b = [kind |-> "lower", score |-> s]
    BY <1>3
  <2>2. b \in Bound /\ v.score >= s /\ b.kind = "lower" /\ b.score = s
    BY <1>1, <2>1, Given DEF Bound
  <2>3. QED
    BY <2>2, MarkAssumption
<1>4. QED
  BY <1>2, <1>3 DEF Bounds

LEMMA Widened ==
  ASSUME NEW r \in Record, NEW n \in Nat, NEW q,
         q = [r EXCEPT !.aspires = FALSE] \/ q = [r EXCEPT !.delta = n]
  PROVE  /\ q \in Record /\ q.bound = r.bound /\ q.adverse = r.adverse
         /\ q.terminal = r.terminal /\ q.exact = r.exact /\ q.rejected = r.rejected
         /\ q.quarantined = r.quarantined /\ q.proofs = r.proofs /\ q.repairs = r.repairs
         /\ q.attempts = r.attempts
<1>1. CASE q = [r EXCEPT !.aspires = FALSE]
  BY <1>1, ZenonT(40) DEF Record
<1>2. CASE q = [r EXCEPT !.delta = n]
  BY <1>2, ZenonT(40) DEF Record
<1>3. QED
  BY <1>1, <1>2

LEMMA OnReply ==
  ASSUME SelInv, LedgerInv', NEW w \in Workers, NEW used \in CallWork, Reply(w, used)
  PROVE  SelInv'
<1>0. PICK t, c, v : t = active[w] /\ c = t.candidate /\ v = truth[c]
  OBVIOUS
<1>1. /\ pc = "search" /\ t # None /\ Settle(w, used) /\ t = active[w] /\ c = active[w].candidate
      /\ UNCHANGED <<white, truth, queue, rejections, repairs, vetoes, selected, error>>
  BY <1>0 DEF Reply, counters, outcome
<1>2. /\ TypeOK /\ Calls /\ selected = None /\ error = None /\ \A d \in Candidates : Faithful(d)
  BY <1>1, Facts DEF Running, Searching
<1>3. used \in Nat /\ w \in Busy /\ t \in Task /\ c \in Candidates
  BY <1>0, <1>1, <1>2, Given DEF Busy, TypeOK, Task
<1>4. /\ t.alpha \in -Full .. Full /\ t.beta \in -Full .. Full
      /\ ~ rec[c].exact /\ (t.purpose = "aspiration" => Aspiration # {})
  BY <1>0, <1>1, <1>2, <1>3 DEF Calls, Searches, Searching
<1>5. rec[c] \in Record /\ v \in Truth /\ v.adverse \in BOOLEAN
      /\ rec[c].attempts \in 0 .. MaxAttempts /\ rec[c].delta \in Nat
  BY <1>0, <1>2, <1>3, RecordFields
<1>6. /\ ~ rec[c].rejected /\ ~ rec[c].terminal /\ ~ rec[c].quarantined
      /\ rec[c].proofs = 0 /\ rec[c].repairs = 0
  BY <1>2, <1>3, <1>4 DEF Faithful
<1>7. CASE rec' = [rec EXCEPT ![c] = MakeExact(@, w, v)] /\ pc' = "fill" /\ next' = next
  <2>0. PICK q, r : q = MakeExact(rec[c], w, v) /\ r = rec[c]
    OBVIOUS
  <2>1. /\ q \in Record
        /\ q.exact /\ q.bound = None /\ q.score = v.score /\ q.adverse = v.adverse
        /\ q.quarantined = v.claim /\ q.owner = w
        /\ q.terminal = rec[c].terminal /\ q.rejected = rec[c].rejected
        /\ q.proofs = rec[c].proofs /\ q.repairs = rec[c].repairs
    <3>1. r \in Record /\ q = MakeExact(r, w, v)
      BY <1>5, <2>0
    <3>2. /\ q \in Record
          /\ q.exact /\ q.bound = None /\ q.score = v.score /\ q.adverse = v.adverse
          /\ q.quarantined = v.claim /\ q.owner = w
          /\ q.terminal = r.terminal /\ q.rejected = r.rejected
          /\ q.proofs = r.proofs /\ q.repairs = r.repairs
      BY <1>5, <3>1, MadeExact
    <3>3. QED
      BY <2>0, <3>2
  <2>2. rec' = [rec EXCEPT ![c] = q]
    BY <1>7, <2>0
  <2>3. rec'[c] = q
    BY <1>2, <1>3, <2>1, <2>2, Updated
  <2>4. Faithful(c)'
    BY <1>0, <1>1, <1>6, <1>7, <2>1, <2>3, Given DEF Faithful
  <2>5. next' \in Planned \cup {None}
    BY <1>2, <1>7 DEF TypeOK
  <2>6. QED
    BY <1>0, <1>1, <1>3, <1>7, <2>1, <2>2, <2>4, <2>5, Answered, ZenonT(40)
<1>8. ASSUME NEW b \in Bounds(v, t.alpha, t.beta), NEW a \in {v.adverse, FALSE},
             IF t.purpose = "aspiration" THEN Widen(w, c, b, a) ELSE Scouted(w, c, b, a)
      PROVE  SelInv'
  <2>0. PICK r, s : r = rec[c] /\ s = [rec[c] EXCEPT !.bound = b, !.adverse = a]
    OBVIOUS
  <2>1. /\ b \in Bound /\ b # None
        /\ IF b.kind = "upper" THEN v.score <= b.score ELSE v.score >= b.score
    BY <1>4, <1>5, BoundsTrue
  <2>2. /\ s \in Record /\ s.bound = b /\ (s.adverse <=> a)
        /\ s.terminal = r.terminal /\ s.exact = r.exact /\ s.rejected = r.rejected
        /\ s.quarantined = r.quarantined /\ s.proofs = r.proofs /\ s.repairs = r.repairs
        /\ s.delta = r.delta /\ s.attempts = r.attempts
    <3>1. r \in Record /\ s = [r EXCEPT !.bound = b, !.adverse = a] /\ a \in BOOLEAN
      BY <1>5, <2>0
    <3>2. QED
      BY <2>1, <3>1 DEF Record
  <2>3. PICK q \in Record :
          /\ rec' = [rec EXCEPT ![c] = q] /\ q.bound = b /\ (q.adverse <=> a)
          /\ q.terminal = r.terminal /\ q.exact = r.exact /\ q.rejected = r.rejected
          /\ q.quarantined = r.quarantined /\ q.proofs = r.proofs /\ q.repairs = r.repairs
          /\ q.attempts = r.attempts
          /\ next' \in Planned \cup {None} /\ pc' \in {"fill", "dispatch"}
          /\ pc' = "dispatch" =>
               /\ next' # None /\ next'.worker = w /\ next'.candidate = c
               /\ next'.purpose \in {"aspiration", "full", "threat-research"}
               /\ next'.purpose = "aspiration" => Aspiration # {} /\ q.attempts < MaxAttempts
    <3>1. CASE t.purpose = "aspiration"
      <4> DEFINE wider == Least(Full, 2 * s.delta)
                 spent == \/ s.attempts >= MaxAttempts
                          \/ wider <= s.delta
                          \/ /\ (CHOOSE x \in Aspiration : TRUE).center - wider <= -Full
                             /\ (CHOOSE x \in Aspiration : TRUE).center + wider >= Full
                 again == IF spent THEN "full" ELSE "aspiration"
                 q == IF spent THEN [s EXCEPT !.aspires = FALSE] ELSE [s EXCEPT !.delta = wider]
                 plan == [worker |-> w, candidate |-> c, purpose |-> again]
      <4>1. rec' = [rec EXCEPT ![c] = q] /\ next' = plan /\ pc' = "dispatch"
        BY <1>8, <2>0, <3>1 DEF Widen
      <4>2. wider \in Nat
        BY <1>5, <2>0, <2>2, Given DEF Least
      <4>3. again = "aspiration" => s.attempts < MaxAttempts
        BY <1>5, <2>0, <2>2, Given
      <4>4. q = [s EXCEPT !.aspires = FALSE] \/ q = [s EXCEPT !.delta = wider]
        OBVIOUS
      <4>5. again \in {"aspiration", "full"}
        OBVIOUS
      <4> HIDE DEF wider, spent, again, q
      <4>6. /\ q \in Record /\ q.bound = s.bound /\ q.adverse = s.adverse
            /\ q.terminal = s.terminal /\ q.exact = s.exact /\ q.rejected = s.rejected
            /\ q.quarantined = s.quarantined /\ q.proofs = s.proofs /\ q.repairs = s.repairs
            /\ q.attempts = s.attempts
        BY <2>2, <4>2, <4>4, Widened
      <4>7. /\ plan \in Planned /\ plan.worker = w /\ plan.candidate = c /\ plan.purpose = again
        BY <1>3, <4>5 DEF Planned, Purposes, Windowed
      <4>8. plan # None
        BY <4>7, MarkAssumption
      <4> HIDE DEF plan
      <4>9. QED
        BY <1>4, <2>2, <3>1, <4>1, <4>3, <4>5, <4>6, <4>7, <4>8
    <3>2. CASE t.purpose # "aspiration"
      <4> DEFINE plan == [worker |-> w, candidate |-> c, purpose |-> "threat-research"]
      <4>1. rec' = [rec EXCEPT ![c] = s]
        BY <1>8, <2>0, <3>2 DEF Scouted
      <4>2. (next' = None /\ pc' = "fill") \/ (next' = plan /\ pc' = "dispatch")
        BY <1>8, <2>0, <3>2 DEF Scouted
      <4>3. /\ plan \in Planned /\ plan.worker = w /\ plan.candidate = c
            /\ plan.purpose = "threat-research"
        BY <1>3 DEF Planned, Purposes, Windowed
      <4>4. plan # None
        BY <4>3, MarkAssumption
      <4> HIDE DEF plan
      <4>5. QED
        BY <2>2, <4>1, <4>2, <4>3, <4>4
    <3>3. QED
      BY <3>1, <3>2
  <2>4. rec'[c] = q
    BY <1>2, <1>3, <2>3, Updated
  <2>5. a => v.adverse
    OBVIOUS
  <2>6. Faithful(c)'
    <3>1. /\ ~ r.exact /\ ~ r.rejected /\ ~ r.terminal /\ ~ r.quarantined
          /\ r.proofs = 0 /\ r.repairs = 0
      BY <1>4, <1>6, <2>0 DEF Faithful
    <3>2. /\ ~ rec'[c].exact /\ ~ rec'[c].rejected /\ ~ rec'[c].terminal /\ ~ rec'[c].quarantined
          /\ rec'[c].proofs = 0 /\ rec'[c].repairs = 0 /\ rec'[c].bound = b
          /\ rec'[c].adverse => v.adverse
      BY <2>3, <2>4, <2>5, <3>1
    <3>3. truth'[c] = v /\ pc' # "start"
      BY <1>0, <1>1, <2>3
    <3>4. QED
      BY <2>1, <3>2, <3>3 DEF Faithful
  <2>7. ~ q.exact
    BY <1>4, <2>0, <2>3
  <2>8. QED
    BY <1>0, <1>1, <1>3, <2>0, <2>3, <2>6, <2>7, Answered
<1>9. QED
  BY <1>0, <1>7, <1>8 DEF Reply

-----------------------------------------------------------------------------
(* The winner is decided. *)

\* The incumbent while a winner is on its way to be published.
LEMMA Winner ==
  ASSUME SelInv, pc \in Deciding \ {"cover"}, NEW c, c = Incumbent
  PROVE  /\ c \in Candidates /\ IsLeader(c) /\ c # None
         /\ \A d : IsLeader(d) => d = c
         /\ rec[c].exact /\ ~ rec[c].rejected /\ ~ rec[c].quarantined
         /\ ~ rec[c].terminal => rec[c].owner \in Workers
         /\ Exacts # {} /\ AllCovered /\ queue = {}
<1>1. /\ TypeOK /\ Calls /\ Sane /\ \A d \in Candidates : Faithful(d)
  BY Facts DEF Running
<1>2. Exacts # {} /\ AllCovered
  BY <1>1 DEF Sane, Standing
<1>3. c \in Candidates /\ IsLeader(c) /\ c # None
  BY <1>1, <1>2, LeaderExists
<1>4. \A d : IsLeader(d) => d = c
  BY <1>1, IncumbentIs
<1>5. rec[c].exact /\ ~ rec[c].rejected /\ ~ rec[c].quarantined
  BY <1>3 DEF IsLeader, Exacts, Eligible
<1>6. ~ rec[c].terminal => rec[c].owner \in Workers
  <2>1. rec[c].owner \in Workers \cup {None}
    BY <1>1, <1>3, RecordFields
  <2>2. ~ rec[c].terminal => rec[c].owner # None
    BY <1>1, <1>3, <1>5 DEF Faithful
  <2>3. QED
    BY <2>1, <2>2
<1>7. queue = {}
  BY <1>1 DEF Calls
<1>8. QED
  BY <1>2, <1>3, <1>4, <1>5, <1>6, <1>7

\* A step of the coordinator's own that changes no record, call or counter.
LEMMA Turn ==
  ASSUME SelInv, LedgerInv', pc \in Running \ Mending, pc' \in Running \ Mending, pc' # "start",
         UNCHANGED <<white, truth, rec, active, ledger, counters, outcome>>,
         queue' \subseteq Candidates, next' \in Planned \cup {None}, Calls', Standing'
  PROVE  SelInv'
<1>1. /\ UNCHANGED <<white, truth, rec, active, selected, error>>
      /\ UNCHANGED <<probe, reserved, committed, safetyCommitted, rejections, repairs, vetoes>>
  BY DEF ledger, counters, outcome
<1>2. /\ TypeOK /\ Balanced /\ Sane /\ selected = None /\ error = None
  BY Facts
<1>3. TypeOK'
  BY <1>1, <1>2 DEF TypeOK, Running, Searching, Deciding
<1>4. Balanced'
  BY <1>1, <1>2, SameBalance
<1>5. (\A c \in Candidates : Faithful(c)') /\ Dispositions'
  BY <1>1, <1>2, Moved
<1>6. Sane'
  BY <1>5 DEF Sane
<1>7. QED
  BY <1>1, <1>2, <1>3, <1>4, <1>6, Onward

LEMMA OnCover ==
  ASSUME SelInv, LedgerInv', Cover
  PROVE  SelInv'
<1>0. pc = "cover"
  BY DEF Cover
<1>1. /\ TypeOK /\ Calls /\ Sane /\ \A d \in Candidates : Faithful(d)
  BY <1>0, Facts DEF Running, Deciding
<1>2. Busy = {} /\ queue = {} /\ pc \in Running \ Mending
  BY <1>0, <1>1 DEF Calls, Deciding, Recalling, Running, Mending
<1>3. Idle = Workers
  BY <1>2 DEF Idle
<1>4. CASE Incumbent # None /\ Uncovered = {} /\ pc' = "decide"
           /\ UNCHANGED <<white, truth, rec, active, queue, next, ledger, counters, outcome>>
  <2>1. Exacts # {}
    BY <1>1, <1>4, IncumbentIs
  <2>2. AllCovered
    <3> SUFFICES ASSUME NEW l \in Candidates, NEW c \in Candidates, IsLeader(l), Eligible(rec[c])
                 PROVE  CoversFinal(rec[c], Key[c], rec[l], Key[l])
      BY DEF AllCovered
    <3>1. Incumbent = l
      BY <1>1, IncumbentIs
    <3>2. Covered(c, rec[c])
      BY <1>4 DEF Uncovered
    <3>3. QED
      BY <3>1, <3>2 DEF Covered
  <2>3. Exacts' = Exacts /\ (AllCovered' <=> AllCovered)
    BY <1>4, SameStanding
  <2>4. Standing'
    BY <1>4, <2>1, <2>2, <2>3 DEF Standing
  <2>5. Busy' = {}
    BY <1>2, <1>4 DEF Busy
  <2>6. Calls'
    BY <1>2, <1>4, <2>5 DEF Calls, Searching, Deciding, Recalling
  <2>7. queue' \subseteq Candidates /\ next' \in Planned \cup {None}
    BY <1>1, <1>4 DEF TypeOK
  <2>8. pc' \in Running \ Mending /\ pc' # "start"
    BY <1>4 DEF Running, Deciding, Mending
  <2>9. QED
    BY <1>2, <1>4, <2>4, <2>6, <2>7, <2>8, Turn
<1>5. CASE Incumbent # None /\ Uncovered # {} /\ queue' = Uncovered /\ pc' = "fill"
           /\ UNCHANGED <<white, truth, rec, active, next, ledger, counters, outcome>>
  <2>1. \A c \in Uncovered : c \in Candidates /\ ~ rec[c].exact
    BY <1>5 DEF Uncovered, Covered, CoversFinal
  <2>2. Busy' = {}
    BY <1>2, <1>5 DEF Busy
  <2>3. Searches'
    BY <1>5, <2>1, <2>2 DEF Searches
  <2>4. Calls'
    BY <1>5, <2>2, <2>3 DEF Calls, Searching, Deciding, Recalling
  <2>5. Standing'
    BY <1>5 DEF Standing, Deciding
  <2>6. queue' \subseteq Candidates /\ next' \in Planned \cup {None}
    BY <1>1, <1>5, <2>1 DEF TypeOK
  <2>7. pc' \in Running \ Mending /\ pc' # "start"
    BY <1>5 DEF Running, Searching, Mending
  <2>8. QED
    BY <1>2, <1>5, <2>4, <2>5, <2>6, <2>7, Turn
<1>6. ASSUME Incumbent = None
      PROVE  {c \in {c \in Candidates : Eligible(rec[c])} : ~ rec[c].exact}
               = {c \in Candidates : Eligible(rec[c])}
  <2>1. Exacts = {}
    BY <1>1, <1>6, IncumbentIs
  <2>2. QED
    BY <2>1 DEF Exacts
<1>7. CASE Fail("frontier-exhausted")
  BY <1>0, <1>7, OnFail DEF Errors
<1>8. ASSUME Incumbent = None,
             {c \in Candidates : Eligible(rec[c])} # {},
             {c \in {c \in Candidates : Eligible(rec[c])} : ~ rec[c].exact} = {} \/ Idle = {}
      PROVE  FALSE
  BY <1>3, <1>6, <1>8, Given
<1>9. ASSUME Incumbent = None, NEW seeds,
             seeds = {c \in {c \in Candidates : Eligible(rec[c])} : ~ rec[c].exact},
             seeds # {}, Idle # {}, pc' = "dispatch",
             next' = [worker |-> First(Idle), candidate |-> First(seeds), purpose |-> "full"],
             UNCHANGED <<white, truth, rec, active, queue, ledger, counters, outcome>>
      PROVE  SelInv'
  <2>1. seeds \in SUBSET Nat
    BY <1>9, Given
  <2>2. First(seeds) \in seeds
    BY <1>9, <2>1, FirstOf
  <2>3. First(seeds) \in Candidates /\ ~ rec[First(seeds)].exact
    BY <1>9, <2>2
  <2>4. First(Idle) \in Workers /\ active[First(Idle)] = None
    BY <1>9, FirstIdle
  <2>5. next' \in Planned /\ next'.worker = First(Idle) /\ next'.candidate = First(seeds)
        /\ next'.purpose = "full"
    BY <1>9, <2>3, <2>4 DEF Planned, Purposes, Windowed
  <2>6. next' # None
    BY <2>5, MarkAssumption
  <2>7. Busy' = {} /\ queue' = {}
    BY <1>2, <1>9 DEF Busy
  <2>8. Plans'
    BY <1>9, <2>3, <2>4, <2>5, <2>6, <2>7 DEF Plans
  <2>9. Searches'
    BY <2>7 DEF Searches
  <2>10. Calls'
    BY <1>9, <2>7, <2>8, <2>9 DEF Calls, Searching, Deciding, Recalling
  <2>11. Standing'
    BY <1>9 DEF Standing, Deciding
  <2>12. queue' \subseteq Candidates /\ next' \in Planned \cup {None}
    BY <2>5, <2>7
  <2>13. pc' \in Running \ Mending /\ pc' # "start"
    BY <1>9 DEF Running, Searching, Mending
  <2>14. QED
    BY <1>2, <1>9, <2>10, <2>11, <2>12, <2>13, Turn
<1>10. QED
  BY <1>4, <1>5, <1>7, <1>8, <1>9 DEF Cover

\* The records and counters carry over where the leaders and what is open do.
LEMMA Carried ==
  ASSUME Dispositions, UNCHANGED <<rejections, repairs, vetoes>>,
         pc \in Mending <=> pc' \in Mending,
         \A d \in Candidates : IsLeader(d)' <=> IsLeader(d),
         \A d \in Candidates : /\ rec'[d].rejected = rec[d].rejected
                               /\ rec'[d].proofs = rec[d].proofs
                               /\ rec'[d].repairs = rec[d].repairs
  PROVE  Dispositions'
<1>1. Tokens' = Tokens
  BY DEF Tokens
<1>2. Open' = Open
  BY DEF Open
<1>3. QED
  BY <1>1, <1>2 DEF Dispositions

\* The winner goes back to its owner.
LEMMA SendRecall ==
  ASSUME SelInv, LedgerInv', pc \in {"decide", "mend"}, NEW c, c = Incumbent, ~ rec[c].terminal,
         NEW purpose \in {"selected-certification", "horizon-research"},
         pc = "decide" /\ purpose = "horizon-research" => rec[c].proofs > 0,
         Send(rec[c].owner, c, purpose),
         pc' = IF pc = "decide" THEN "certify" ELSE "repair",
         UNCHANGED <<white, truth, queue, next, counters, outcome>>
  PROVE  SelInv'
<1>1. /\ TypeOK /\ Balanced /\ Calls /\ Sane /\ selected = None /\ error = None
      /\ \A d \in Candidates : Faithful(d)
  BY Facts DEF Running, Deciding
<1>2. /\ c \in Candidates /\ IsLeader(c) /\ (\A d : IsLeader(d) => d = c)
      /\ rec[c].owner \in Workers /\ Exacts # {} /\ AllCovered /\ queue = {}
  BY Winner DEF Deciding
<1>3. Busy = {}
  BY <1>1 DEF Calls, Deciding, Recalling
<1>4. UNCHANGED <<rejections, repairs, vetoes, selected, error>>
  BY DEF counters, outcome
<1>5. PICK w : w = rec[c].owner
  OBVIOUS
<1>6. w \in Workers /\ active[w] = None /\ Send(w, c, purpose)
  BY <1>2, <1>3, <1>5 DEF Busy
<1>7. purpose \in Purposes /\ purpose # "aspiration" /\ purpose # "scout"
  BY DEF Purposes
<1>8. Window(c, purpose)[1] \in -Full .. Full /\ Window(c, purpose)[2] \in -Full .. Full
  BY <1>1, <1>2, <1>7, WindowType
<1>9. /\ active' \in [Workers -> Task \cup {None}]
      /\ rec' \in [Candidates -> Record] /\ Purse' /\ Balanced'
      /\ Busy' = Busy \cup {w}
      /\ active'[w].candidate = c /\ active'[w].purpose = purpose
      /\ active'[w].alpha \in -Full .. Full /\ active'[w].beta \in -Full .. Full
      /\ \A d \in Candidates : Kept(d)
  BY <1>1, <1>2, <1>6, <1>7, <1>8, Sent
<1>10. TypeOK'
  BY <1>1, <1>4, <1>9 DEF TypeOK, Purse
<1>11. Busy' = {w}
  BY <1>3, <1>9
<1>12. /\ Exacts' = Exacts /\ (\A d : IsLeader(d)' <=> IsLeader(d)) /\ (AllCovered' <=> AllCovered)
  BY <1>9, SameStanding DEF Kept
<1>13. rec'[c].owner = w /\ rec'[c].proofs = rec[c].proofs /\ ~ rec'[c].terminal
  BY <1>2, <1>5, <1>9 DEF Kept
<1>14. Recalls'
  BY <1>2, <1>9, <1>11, <1>12, <1>13 DEF Recalls
<1>15. Calls'
  BY <1>2, <1>9, <1>11, <1>14 DEF Calls, Searching, Deciding, Recalling
<1>16. Sane'
  <2>1. \A d \in Candidates : Faithful(d)'
    <3> SUFFICES ASSUME NEW d \in Candidates
                 PROVE  Faithful(d)'
      OBVIOUS
    <3>1. Kept(d) /\ Faithful(d)
      BY <1>1, <1>9
    <3>2. QED
      BY <3>1 DEF Faithful, Kept
  <2>2. Dispositions'
    BY <1>1, <1>4, <1>9, <1>12, Carried DEF Sane, Kept, Mending
  <2>3. Standing'
    BY <1>2, <1>12, <1>13 DEF Standing
  <2>4. QED
    BY <2>1, <2>2, <2>3 DEF Sane
<1>17. QED
  BY <1>1, <1>4, <1>9, <1>10, <1>15, <1>16, Onward

\* What a verdict on the winner records, once no call is outstanding.
LEMMA Recorded ==
  ASSUME SelInv, LedgerInv', pc \in Deciding, NEW c \in Candidates, NEW q \in Record,
         rec' = [rec EXCEPT ![c] = q], truth' \in [Candidates -> Truth],
         \A d \in Candidates \ {c} : truth'[d] = truth[d],
         UNCHANGED <<white, queue, next, selected, error>>,
         active' \in [Workers -> Task \cup {None}], Purse', Balanced', Busy' = {},
         rejections' \in Nat, repairs' \in Nat, vetoes' \in Nat,
         pc' \in {"cover", "ask", "finish", "mend"},
         Faithful(c)', Dispositions', Standing'
  PROVE  SelInv'
<1>1. /\ TypeOK /\ Calls /\ selected = None /\ error = None
      /\ \A d \in Candidates : Faithful(d)
  BY Facts DEF Running
<1>2. /\ rec' \in [Candidates -> Record] /\ rec'[c] = q
      /\ \A d \in Candidates \ {c} : rec'[d] = rec[d]
  BY <1>1, Updated
<1>3. TypeOK'
  BY <1>1, <1>2 DEF TypeOK, Purse
<1>4. queue' = {}
  BY <1>1 DEF Calls
<1>5. Calls'
  BY <1>4 DEF Calls, Searching, Deciding, Recalling
<1>6. Sane'
  <2>1. ASSUME NEW d \in Candidates \ {c}
        PROVE  Faithful(d)'
    <3>1. rec'[d] = rec[d] /\ truth'[d] = truth[d] /\ Faithful(d)
      BY <1>1, <1>2
    <3>2. QED
      BY <3>1 DEF Faithful
  <2>2. QED
    BY <2>1 DEF Sane
<1>7. QED
  BY <1>1, <1>3, <1>5, <1>6, Onward

\* A verdict of the probe changes one field, a veto two, a lost repair three.
LEMMA Marked ==
  ASSUME NEW r \in Record, NEW q,
         NEW x \in {"none", "exhausted", "found", "terminal", "line-rejected"},
         NEW n \in 0 .. MaxRepairs,
         \/ q = [r EXCEPT !.safety = x]
         \/ q = [r EXCEPT !.rejected = TRUE, !.safety = x]
         \/ q = [r EXCEPT !.rejected = TRUE, !.safety = x, !.repairs = n]
         \/ q = [r EXCEPT !.safety = x, !.repairs = n]
         \/ q = [r EXCEPT !.proofs = n]
  PROVE  /\ q \in Record
         /\ q.terminal = r.terminal /\ q.exact = r.exact /\ q.score = r.score
         /\ q.adverse = r.adverse /\ q.bound = r.bound
         /\ q.quarantined = r.quarantined /\ q.owner = r.owner
<1>1. CASE q = [r EXCEPT !.safety = x]
  BY <1>1, ZenonT(40) DEF Record
<1>2. CASE q = [r EXCEPT !.rejected = TRUE, !.safety = x]
  BY <1>2, ZenonT(40) DEF Record
<1>3. CASE q = [r EXCEPT !.rejected = TRUE, !.safety = x, !.repairs = n]
  BY <1>3, ZenonT(40) DEF Record
<1>4. CASE q = [r EXCEPT !.safety = x, !.repairs = n]
  BY <1>4, ZenonT(40) DEF Record
<1>5. CASE q = [r EXCEPT !.proofs = n]
  BY <1>5, ZenonT(40) DEF Record
<1>6. QED
  BY <1>1, <1>2, <1>3, <1>4, <1>5

LEMMA Vetoed ==
  ASSUME SelInv, pc \in Deciding \ {"cover"}, NEW c, c = Incumbent, ~ rec[c].terminal,
         NEW q \in Record, rec' = [rec EXCEPT ![c] = q], truth' = truth, q.rejected,
         q.terminal = rec[c].terminal, q.exact = rec[c].exact, q.score = rec[c].score,
         q.adverse = rec[c].adverse, q.bound = rec[c].bound,
         q.quarantined = rec[c].quarantined, q.owner = rec[c].owner, pc' = "cover"
  PROVE  Faithful(c)' /\ Standing'
<1>1. TypeOK /\ \A d \in Candidates : Faithful(d)
  BY Facts DEF Running
<1>2. c \in Candidates /\ rec[c].exact
  BY Winner
<1>3. rec'[c] = q
  BY <1>1, <1>2, Updated
<1>4. Faithful(c)'
  <2>1. Faithful(c)
    BY <1>1, <1>2
  <2>2. /\ rec[c].score = truth[c].score /\ rec[c].adverse = truth[c].adverse
        /\ rec[c].quarantined = truth[c].claim /\ rec[c].bound = None /\ rec[c].owner # None
    BY <1>2, <2>1 DEF Faithful
  <2>3. /\ q.score = truth[c].score /\ q.adverse = truth[c].adverse
        /\ q.quarantined = truth[c].claim /\ q.bound = None /\ q.owner # None
    BY <2>2
  <2>4. q.exact /\ ~ q.terminal
    BY <1>2
  <2>5. QED
    BY <1>3, <2>3, <2>4 DEF Faithful
<1>5. Standing'
  BY DEF Standing
<1>6. QED
  BY <1>4, <1>5

\* A rejected line that is open, or just found, becomes one veto.
LEMMA Tally ==
  ASSUME repairs \in Int, vetoes \in Int, rejections \in Int, rejections' \in Int, Open \in Int,
         rejections' + Open = rejections + 1, repairs + vetoes + Open = rejections
  PROVE  repairs + (vetoes + 1) + 0 = rejections'
<1>1. \A i, j, k, n, o \in Int : n + o = k + 1 /\ i + j + o = k => i + (j + 1) + 0 = n
  OBVIOUS
<1>2. QED
  BY <1>1

\* rejectCandidate closes the rejection of a line with a veto.
LEMMA Rejects ==
  ASSUME SelInv, LedgerInv', pc \in {"probe", "mend", "repair"}, NEW c, c = Incumbent,
         ~ rec[c].terminal, Reject(c), repairs' = repairs, rejections' \in Nat,
         rejections' + Open = rejections + 1,
         UNCHANGED <<white, truth, queue, next, selected, error>>,
         active' \in [Workers -> Task \cup {None}], Purse', Balanced', Busy' = {}
  PROVE  SelInv'
<1>1. TypeOK /\ Sane
  BY Facts DEF Running, Deciding
<1>2. c \in Candidates /\ \A d : IsLeader(d) => d = c
  BY Winner DEF Deciding
<1>3. PICK q, r : r = rec[c] /\ q = [r EXCEPT !.rejected = TRUE, !.safety = "line-rejected"]
  OBVIOUS
<1>4. r \in Record
  BY <1>1, <1>2, <1>3, RecordFields
<1>5. /\ q \in Record
      /\ q.terminal = r.terminal /\ q.exact = r.exact /\ q.score = r.score
      /\ q.adverse = r.adverse /\ q.bound = r.bound
      /\ q.quarantined = r.quarantined /\ q.owner = r.owner
      /\ q.rejected /\ q.repairs = r.repairs
  BY <1>3, <1>4, ZenonT(40) DEF Record
<1>6. rec' = [rec EXCEPT ![c] = q] /\ pc' = "cover" /\ vetoes' = vetoes + 1
  BY <1>3 DEF Reject
<1>7. rec'[c] = q /\ \A d \in Candidates \ {c} : rec'[d] = rec[d]
  BY <1>1, <1>2, <1>5, <1>6, Updated
<1>8. Dispositions'
  <2>1. \A d \in Candidates : rec'[d].repairs = rec[d].repairs
    <3>1. rec'[c].repairs = rec[c].repairs
      BY <1>3, <1>5, <1>7
    <3>2. \A d \in Candidates \ {c} : rec'[d].repairs = rec[d].repairs
      BY <1>7
    <3>3. QED
      BY <3>1, <3>2
  <2>2. Tokens' = Tokens
    BY <2>1 DEF Tokens
  <2>3. \A d \in Candidates : ~ rec'[d].rejected => rec'[d].proofs = rec'[d].repairs
    <3> SUFFICES ASSUME NEW d \in Candidates, ~ rec'[d].rejected
                 PROVE  rec'[d].proofs = rec'[d].repairs
      OBVIOUS
    <3>1. d # c /\ rec'[d] = rec[d] /\ ~ IsLeader(d)
      BY <1>2, <1>5, <1>7
    <3>2. rec[d].repairs \in Int
      BY <1>1, RecordFields, Given
    <3>3. QED
      BY <1>1, <3>1, <3>2 DEF Sane, Dispositions
  <2>4. \A d \in Candidates : rec'[d].repairs \in Int
    BY <1>1, <2>1, RecordFields, Given
  <2>5. pc' \notin Mending /\ Open' = 0
    BY <1>6 DEF Mending, Open
  <2>6. repairs' + vetoes' + Open' = rejections'
    <3>1. repairs + vetoes + Open = rejections /\ Open \in Int
      BY <1>1 DEF Sane, Dispositions, Open
    <3>2. repairs \in Int /\ vetoes \in Int /\ rejections \in Int
      BY <1>1 DEF TypeOK
    <3>3. rejections' \in Int /\ vetoes' = vetoes + 1 /\ repairs' = repairs
      BY <1>6
    <3>6. repairs + (vetoes + 1) + 0 = rejections'
      BY <3>1, <3>2, <3>3, Tally
    <3>7. QED
      BY <2>5, <3>3, <3>6
  <2>7. QED
    BY <1>1, <2>2, <2>3, <2>4, <2>5, <2>6 DEF Sane, Dispositions
<1>9. Faithful(c)' /\ Standing'
  BY <1>3, <1>5, <1>6, Vetoed DEF Deciding
<1>10. repairs' \in Nat /\ vetoes' \in Nat /\ truth' \in [Candidates -> Truth]
  BY <1>1, <1>6 DEF TypeOK
<1>11. QED
  BY <1>2, <1>5, <1>6, <1>8, <1>9, <1>10, Recorded DEF Deciding

\* The repair a winner with proofs has had becomes a veto.
LEMMA Unrepairs ==
  ASSUME SelInv, LedgerInv', pc \in {"decide", "certify"}, NEW c, c = Incumbent,
         ~ rec[c].terminal, rec[c].proofs > 0, Unrepair(c), rejections' = rejections,
         UNCHANGED <<white, truth, queue, next>>,
         active' \in [Workers -> Task \cup {None}], Purse', Balanced', Busy' = {}
  PROVE  SelInv'
<1>1. TypeOK /\ Sane /\ selected = None /\ error = None
  BY Facts DEF Running, Deciding
<1>2. /\ c \in Candidates /\ IsLeader(c) /\ ~ rec[c].rejected /\ \A d : IsLeader(d) => d = c
  BY Winner DEF Deciding
<1>3. rec[c].repairs \in 1 .. MaxRepairs /\ rec[c].proofs = rec[c].repairs
  <2>1. rec[c].proofs \in Int /\ rec[c].repairs \in 0 .. MaxRepairs
    BY <1>1, <1>2, RecordFields, Given
  <2>2. rec[c].proofs = rec[c].repairs + 0
    BY <1>1, <1>2 DEF Sane, Dispositions, Mending
  <2>3. QED
    BY <2>1, <2>2, Given
<1>4. PICK n : n = rec[c].repairs
  OBVIOUS
<1>5. <<c, n>> \in Tokens
  BY <1>2, <1>3, <1>4, Given DEF Tokens
<1>6. repairs = Cardinality(Tokens) /\ IsFiniteSet(Tokens) /\ repairs \in Nat
  BY <1>1, TokensFinite DEF Sane, Dispositions
<1>7. repairs >= 1
  <2>1. Cardinality(Tokens) # 0
    BY <1>5, <1>6, FS_EmptySet
  <2>2. QED
    BY <1>6, <2>1
<1>a. ~ (rec[c].repairs < 1 \/ repairs < 1)
  BY <1>3, <1>6, <1>7, Given
<1>b. rec' = [rec EXCEPT ![c].rejected = TRUE, ![c].safety = "line-rejected",
                         ![c].repairs = @ - 1]
  BY <1>a DEF Unrepair
<1>8. /\ repairs' = repairs - 1 /\ vetoes' = vetoes + 1 /\ pc' = "cover"
      /\ selected' = selected /\ error' = error
  BY <1>a DEF Unrepair, outcome
<1>9. PICK q, r : r = rec[c] /\ q = [r EXCEPT !.rejected = TRUE, !.safety = "line-rejected",
                                              !.repairs = n - 1]
  OBVIOUS
<1>10. r \in Record /\ n - 1 \in 0 .. MaxRepairs
  BY <1>1, <1>2, <1>3, <1>4, <1>9, RecordFields, Given
<1>11. /\ q \in Record
       /\ q.terminal = r.terminal /\ q.exact = r.exact /\ q.score = r.score
       /\ q.adverse = r.adverse /\ q.bound = r.bound
       /\ q.quarantined = r.quarantined /\ q.owner = r.owner
       /\ q.rejected /\ q.repairs = n - 1
  BY <1>9, <1>10 DEF Record
<1>12. rec' = [rec EXCEPT ![c] = q]
  BY <1>1, <1>2, <1>4, <1>b, <1>9 DEF TypeOK
<1>13. rec'[c] = q /\ \A d \in Candidates \ {c} : rec'[d] = rec[d]
  BY <1>1, <1>2, <1>11, <1>12, Updated
<1>14. Dispositions'
  <2>1. Tokens' = Tokens \ {<<c, n>>}
    <3>1. \A x \in Candidates \X (1 .. MaxRepairs) :
            x[2] <= rec'[x[1]].repairs <=> x[2] <= rec[x[1]].repairs /\ x # <<c, n>>
      <4> SUFFICES ASSUME NEW d \in Candidates, NEW k \in 1 .. MaxRepairs
                   PROVE  k <= rec'[d].repairs <=> k <= rec[d].repairs /\ <<d, k>> # <<c, n>>
        OBVIOUS
      <4>1. CASE d = c
        BY <1>3, <1>4, <1>11, <1>13, <4>1, Given
      <4>2. CASE d # c
        BY <1>13, <4>2
      <4>3. QED
        BY <4>1, <4>2
    <3>2. QED
      BY <3>1 DEF Tokens
  <2>2. Cardinality(Tokens \ {<<c, n>>}) = Cardinality(Tokens) - 1
    BY <1>5, <1>6, FS_RemoveElement
  <2>3. repairs' = Cardinality(Tokens')
    BY <1>6, <1>8, <2>1, <2>2
  <2>4. \A d \in Candidates : ~ rec'[d].rejected => d # c /\ rec'[d] = rec[d]
    BY <1>11, <1>13
  <2>5. pc' \notin Mending /\ pc \notin Mending /\ Open = 0 /\ Open' = 0
    BY <1>8 DEF Mending, Open
  <2>6. repairs' + vetoes' + Open' = rejections'
    <3>1. repairs + vetoes + 0 = rejections /\ repairs \in Nat /\ vetoes \in Nat
      BY <1>1, <2>5 DEF Sane, Dispositions, TypeOK
    <3>2. QED
      BY <1>8, <2>5, <3>1
  <2>7. QED
    BY <1>1, <2>3, <2>4, <2>5, <2>6 DEF Sane, Dispositions
<1>15. Faithful(c)' /\ Standing'
  BY <1>8, <1>9, <1>11, <1>12, Vetoed, ZenonT(40) DEF Deciding
<1>16. /\ repairs' \in Nat /\ vetoes' \in Nat /\ rejections' \in Nat
       /\ truth' \in [Candidates -> Truth]
  BY <1>1, <1>6, <1>7, <1>8 DEF TypeOK
<1>17. QED
  BY <1>2, <1>8, <1>11, <1>12, <1>14, <1>15, <1>16, Recorded DEF Deciding

\* Where no call is outstanding and none is sent or settled.
LEMMA Resting ==
  ASSUME SelInv, pc \in {"cover", "decide", "mend", "ask", "finish"},
         UNCHANGED <<active, ledger>>
  PROVE  /\ active' \in [Workers -> Task \cup {None}] /\ Purse' /\ Balanced' /\ Busy' = {}
         /\ Busy = {}
<1>1. TypeOK /\ Balanced /\ Calls
  BY Facts DEF Running, Deciding
<1>2. Busy = {} /\ Busy' = {}
  BY <1>1 DEF Calls, Deciding, Recalling, Busy
<1>3. Balanced'
  BY <1>1, SameBalance DEF ledger
<1>4. QED
  BY <1>1, <1>2, <1>3 DEF TypeOK, Purse, ledger

LEMMA OnDecide ==
  ASSUME SelInv, LedgerInv', Decide
  PROVE  SelInv'
<1>0. PICK c : c = Incumbent
  OBVIOUS
<1>1. pc = "decide"
  BY DEF Decide
<1>2. /\ TypeOK /\ Calls /\ Sane /\ \A d \in Candidates : Faithful(d)
  BY <1>1, Facts DEF Running, Deciding
<1>3. /\ c \in Candidates /\ IsLeader(c) /\ (\A d : IsLeader(d) => d = c)
      /\ (~ rec[c].terminal => rec[c].owner \in Workers) /\ Exacts # {} /\ AllCovered
      /\ queue = {}
  BY <1>0, <1>1, Winner DEF Deciding
<1>4. Busy = {} /\ Idle = Workers
  BY <1>1, <1>2 DEF Calls, Deciding, Recalling, Idle
<1>5. CASE Fail("widening-required")
  BY <1>1, <1>5, OnFail DEF Errors
<1>6. CASE rec[c].terminal /\ pc' = "finish"
           /\ UNCHANGED <<white, truth, rec, active, queue, next, ledger, counters, outcome>>
  <2>1. rec[c].safety = "terminal"
    BY <1>2, <1>3, <1>6 DEF Faithful
  <2>2. /\ Exacts' = Exacts /\ (\A d : IsLeader(d)' <=> IsLeader(d)) /\ (AllCovered' <=> AllCovered)
    BY <1>6, SameStanding
  <2>3. Standing'
    BY <1>3, <1>6, <2>1, <2>2 DEF Standing
  <2>4. Busy' = {}
    BY <1>4, <1>6 DEF Busy
  <2>5. Calls'
    BY <1>3, <1>6, <2>4 DEF Calls, Searching, Deciding, Recalling
  <2>6. queue' \subseteq Candidates /\ next' \in Planned \cup {None}
    BY <1>2, <1>6 DEF TypeOK
  <2>7. pc \in Running \ Mending /\ pc' \in Running \ Mending /\ pc' # "start"
    BY <1>1, <1>6 DEF Running, Deciding, Mending
  <2>8. QED
    BY <1>6, <2>3, <2>5, <2>6, <2>7, Turn
<1>7. ~ rec[c].terminal => Owned(c)
  BY <1>3, <1>4, Given DEF Owned
<1>8. CASE ~ rec[c].terminal /\ pc' = "certify"
           /\ Send(rec[c].owner, c, IF rec[c].proofs = 0 THEN "selected-certification"
                                                         ELSE "horizon-research")
           /\ UNCHANGED <<white, truth, queue, next, counters, outcome>>
  <2>1. PICK p : p = IF rec[c].proofs = 0 THEN "selected-certification" ELSE "horizon-research"
    OBVIOUS
  <2>2. rec[c].proofs \in 0 .. MaxRepairs
    BY <1>2, <1>3, RecordFields
  <2>3. /\ p \in {"selected-certification", "horizon-research"}
        /\ (p = "horizon-research" => rec[c].proofs > 0)
    BY <2>1, <2>2, Given
  <2>4. QED
    BY <1>0, <1>1, <1>8, <2>1, <2>3, SendRecall
<1>9. CASE Fail("work-limit")
  BY <1>1, <1>9, OnFail DEF Errors
<1>10. CASE ~ rec[c].terminal /\ rec[c].proofs > 0 /\ Unrepair(c)
            /\ UNCHANGED <<white, truth, active, queue, next, ledger, rejections>>
  <2>1. active' \in [Workers -> Task \cup {None}] /\ Purse' /\ Balanced' /\ Busy' = {}
    BY <1>1, <1>10, Resting
  <2>2. QED
    BY <1>0, <1>1, <1>10, <2>1, Unrepairs
<1>11. QED
  BY <1>0, <1>5, <1>6, <1>7, <1>8, <1>9, <1>10 DEF Decide

\* The winner's certification or repair is the only call outstanding.
LEMMA Recalled ==
  ASSUME SelInv, pc \in Recalling, NEW w \in Workers, active[w] # None, NEW used \in Nat,
         Settle(w, used), NEW c, c = active[w].candidate
  PROVE  /\ c = Incumbent /\ c \in Candidates /\ rec[c].owner = w /\ ~ rec[c].terminal
         /\ pc = "certify" /\ active[w].purpose = "horizon-research" => rec[c].proofs > 0
         /\ active' \in [Workers -> Task \cup {None}] /\ Purse' /\ Balanced' /\ Busy' = {}
<1>1. /\ TypeOK /\ Balanced /\ Calls /\ Sane /\ \A d \in Candidates : Faithful(d)
  BY Facts DEF Running, Deciding, Recalling
<1>2. Recalls /\ w \in Busy
  BY <1>1 DEF Calls, Busy
<1>3. /\ IsLeader(c) /\ rec[c].owner = w
      /\ pc = "certify" /\ active[w].purpose = "horizon-research" => rec[c].proofs > 0
  BY <1>2 DEF Recalls
<1>4. c = Incumbent /\ c \in Candidates
  BY <1>1, <1>3, IncumbentIs DEF IsLeader, Exacts
<1>5. ~ rec[c].terminal
  BY <1>1, <1>3, <1>4 DEF Sane, Standing, Recalling
<1>6. \A v \in Busy : v = w
  <2> SUFFICES ASSUME NEW v \in Busy
               PROVE  v = w
    OBVIOUS
  <2>1. IsLeader(active[v].candidate) /\ rec[active[v].candidate].owner = v
    BY <1>2 DEF Recalls
  <2>2. active[v].candidate = c
    BY <1>1, <1>3, <2>1, LeaderUnique
  <2>3. QED
    BY <1>3, <2>1, <2>2
<1>7. /\ active' = [active EXCEPT ![w] = None] /\ reserved' = reserved - active[w].credit
      /\ committed' = committed + used /\ probe' = probe /\ safetyCommitted' = safetyCommitted
  BY DEF Settle
<1>8. active' \in [Workers -> Task \cup {None}] /\ Purse' /\ Balanced' /\ Busy' = Busy \ {w}
  BY <1>1, <1>7, Settled
<1>9. Busy' = {}
  BY <1>6, <1>8
<1>10. QED
  BY <1>3, <1>4, <1>5, <1>8, <1>9

\* The values of a search, and of a proven loss, are values.
LEMMA ValuesTyped ==
  ASSUME white \in BOOLEAN
  PROVE  /\ Values \subseteq Truth /\ Lost \in Truth /\ Lost.adverse /\ ~ Lost.claim
         /\ \A v \in Truth : Again(v) \subseteq Truth
<1>1. \A s \in -Mate .. Mate : \A a, b \in BOOLEAN : Value(s, a, b) \in Truth
  BY DEF Value, Truth
<1>2. MoverMate(2) \in -Mate .. Mate /\ -MoverMate(2) \in -Mate .. Mate
  BY Given DEF MoverMate
<1>3. /\ 1 - Mate \in -Mate .. Mate /\ Mate - 1 \in -Mate .. Mate
  BY Given
<1>4. Scores \subseteq -Mate .. Mate
  BY Given, RootAssumption DEF Scores
<1>5. Values \subseteq Truth
  <2>1. {Value(s, FALSE, FALSE) : s \in {s \in Scores : "plain" \in Kinds}} \subseteq Truth
    BY <1>1, <1>4
  <2>2. {Value(s, TRUE, FALSE) : s \in {s \in Scores : "adverse" \in Kinds}} \subseteq Truth
    BY <1>1, <1>4
  <2>3. {Value(s, s # MoverMate(2), FALSE) : s \in {s \in {1 - Mate, Mate - 1} : "mate" \in Kinds}}
          \subseteq Truth
    BY <1>1, <1>3
  <2>4. {Value(s, FALSE, TRUE) : s \in {s \in {1 - Mate, Mate - 1} : "claim" \in Kinds}}
          \subseteq Truth
    BY <1>1, <1>3
  <2>5. QED
    BY <2>1, <2>2, <2>3, <2>4 DEF Values
<1>6. Lost \in Truth
  BY <1>1, <1>2 DEF Lost
<1>7. Lost.adverse /\ ~ Lost.claim
  BY DEF Lost, Value
<1>8. \A v \in Truth : Again(v) \subseteq Truth
  BY <1>1, <1>3 DEF Again
<1>9. QED
  BY <1>5, <1>6, <1>7, <1>8

\* A value that is recorded anew is recorded faithfully.
LEMMA Restated ==
  ASSUME TypeOK, pc' # "start", NEW c \in Candidates, ~ rec[c].terminal,
         NEW v \in Truth, truth' = [truth EXCEPT ![c] = v],
         NEW q \in Record, rec' = [rec EXCEPT ![c] = q],
         q.exact, q.bound = None, q.score = v.score, q.adverse = v.adverse,
         q.quarantined = v.claim, q.owner \in Workers, q.terminal = rec[c].terminal
  PROVE  /\ Faithful(c)' /\ truth' \in [Candidates -> Truth]
         /\ \A d \in Candidates \ {c} : truth'[d] = truth[d]
         /\ rec'[c] = q /\ \A d \in Candidates \ {c} : rec'[d] = rec[d]
<1>1. /\ truth' \in [Candidates -> Truth] /\ truth'[c] = v
      /\ \A d \in Candidates \ {c} : truth'[d] = truth[d]
  BY DEF TypeOK
<1>2. rec'[c] = q /\ \A d \in Candidates \ {c} : rec'[d] = rec[d]
  BY Updated
<1>3. q.owner # None /\ ~ q.terminal
  BY Given
<1>4. Faithful(c)'
  BY <1>1, <1>2, <1>3 DEF Faithful
<1>5. QED
  BY <1>1, <1>2, <1>4

LEMMA OnCertify ==
  ASSUME SelInv, LedgerInv', NEW w \in Workers, NEW used \in CallWork, Certify(w, used)
  PROVE  SelInv'
<1>0. PICK t, c : t = active[w] /\ c = t.candidate
  OBVIOUS
<1>1. /\ pc = "certify" /\ active[w] # None /\ Settle(w, used) /\ c = active[w].candidate
      /\ UNCHANGED <<white, queue, next, rejections>> /\ used \in Nat
  BY <1>0, Given DEF Certify
<1>2. /\ TypeOK /\ Sane /\ \A d \in Candidates : Faithful(d)
  BY <1>1, Facts DEF Running, Deciding
<1>3. /\ c = Incumbent /\ c \in Candidates /\ rec[c].owner = w /\ ~ rec[c].terminal
      /\ (active[w].purpose = "horizon-research" => rec[c].proofs > 0)
      /\ active' \in [Workers -> Task \cup {None}] /\ Purse' /\ Balanced' /\ Busy' = {}
  BY <1>1, Recalled DEF Recalling
<1>4. /\ rec[c].exact /\ ~ rec[c].rejected /\ Exacts # {} /\ AllCovered
      /\ (\A d : IsLeader(d) => d = c) /\ Faithful(c)
  BY <1>1, <1>2, <1>3, Winner DEF Deciding
<1>5. CASE t.purpose = "horizon-research" /\ Unrepair(c) /\ UNCHANGED truth
  BY <1>0, <1>1, <1>3, <1>5, Unrepairs
<1>6. ASSUME NEW v \in Again(truth[c]), truth' = [truth EXCEPT ![c] = v],
             rec' = [rec EXCEPT ![c] = MakeExact(@, w, v)],
             pc' = IF v.claim THEN "cover" ELSE "ask", UNCHANGED <<repairs, vetoes, outcome>>
      PROVE  SelInv'
  <2>1. v \in Truth /\ rec[c] \in Record /\ truth[c] \in Truth
    <3>1. rec[c] \in Record /\ truth[c] \in Truth /\ white \in BOOLEAN
      BY <1>2, <1>3, RecordFields DEF TypeOK
    <3>2. QED
      BY <1>6, <3>1, ValuesTyped
  <2>2. PICK q, r : r = rec[c] /\ q = MakeExact(r, w, v)
    OBVIOUS
  <2>3. /\ q \in Record
        /\ q.exact /\ q.bound = None /\ q.score = v.score /\ q.adverse = v.adverse
        /\ q.quarantined = v.claim /\ q.owner = w
        /\ q.terminal = r.terminal /\ q.rejected = r.rejected /\ q.proofs = r.proofs
        /\ q.repairs = r.repairs /\ q.safety = r.safety
    BY <2>1, <2>2, MadeExact
  <2>4. rec' = [rec EXCEPT ![c] = q]
    BY <1>6, <2>2
  <2>5. pc' \in {"cover", "ask"}
    BY <1>6
  <2>6. /\ Faithful(c)' /\ truth' \in [Candidates -> Truth]
        /\ \A d \in Candidates \ {c} : truth'[d] = truth[d]
        /\ rec'[c] = q /\ \A d \in Candidates \ {c} : rec'[d] = rec[d]
    <3>1. /\ TypeOK /\ c \in Candidates /\ ~ rec[c].terminal /\ pc' # "start"
          /\ truth' = [truth EXCEPT ![c] = v] /\ v \in Truth
      BY <1>2, <1>3, <1>6, <2>1, <2>5
    <3>2. q.owner \in Workers /\ q.terminal = rec[c].terminal
      BY <2>2, <2>3
    <3>3. QED
      BY <2>3, <2>4, <3>1, <3>2, Restated
  <2>7. UNCHANGED <<selected, error>> /\ rejections' \in Nat /\ repairs' \in Nat /\ vetoes' \in Nat
    BY <1>1, <1>2, <1>6 DEF TypeOK, outcome
  <2>8. Dispositions'
    <3>1. \A d \in Candidates : /\ rec'[d].rejected = rec[d].rejected
                                /\ rec'[d].proofs = rec[d].proofs
                                /\ rec'[d].repairs = rec[d].repairs
      <4> SUFFICES ASSUME NEW d \in Candidates
                   PROVE  /\ rec'[d].rejected = rec[d].rejected
                          /\ rec'[d].proofs = rec[d].proofs
                          /\ rec'[d].repairs = rec[d].repairs
        OBVIOUS
      <4>1. CASE d = c
        BY <2>2, <2>3, <2>6, <4>1
      <4>2. CASE d # c
        BY <2>6, <4>2
      <4>3. QED
        BY <4>1, <4>2
    <3>2. QED
      BY <1>1, <1>2, <1>6, <2>5, <3>1, SameDispositions DEF Sane, Mending
  <2>9. Standing'
    <3>1. CASE pc' = "cover"
      BY <3>1 DEF Standing
    <3>2. CASE pc' = "ask"
      <4>1. v = truth[c]
        <5>1. ~ v.claim
          BY <1>6, <3>2
        <5>2. QED
          BY <1>6, <5>1 DEF Again, Value
      <4>2. /\ rec[c].score = v.score /\ rec[c].adverse = v.adverse
            /\ rec[c].quarantined = v.claim /\ rec[c].bound = None
        BY <1>4, <4>1 DEF Faithful
      <4>3. \A d \in Candidates :
              /\ rec'[d].exact = rec[d].exact /\ rec'[d].rejected = rec[d].rejected
              /\ rec'[d].quarantined = rec[d].quarantined /\ rec'[d].score = rec[d].score
              /\ rec'[d].adverse = rec[d].adverse /\ rec'[d].bound = rec[d].bound
        <5> SUFFICES ASSUME NEW d \in Candidates
                     PROVE  /\ rec'[d].exact = rec[d].exact /\ rec'[d].rejected = rec[d].rejected
                            /\ rec'[d].quarantined = rec[d].quarantined
                            /\ rec'[d].score = rec[d].score
                            /\ rec'[d].adverse = rec[d].adverse /\ rec'[d].bound = rec[d].bound
          OBVIOUS
        <5>1. CASE d # c
          BY <2>6, <5>1
        <5>2. CASE d = c
          <6>1. q.exact \in BOOLEAN /\ rec[c].exact \in BOOLEAN
            BY <1>2, <1>3, <2>3, RecordFields DEF Record
          <6>2. rec'[d] = q /\ rec[d] = rec[c]
            BY <2>6, <5>2
          <6>3. q.exact = rec[c].exact
            BY <1>4, <2>3, <6>1
          <6>4. /\ q.score = rec[c].score /\ q.adverse = rec[c].adverse
                /\ q.quarantined = rec[c].quarantined /\ q.bound = rec[c].bound
                /\ q.rejected = rec[c].rejected
            BY <2>2, <2>3, <4>2
          <6>5. QED
            BY <6>2, <6>3, <6>4
        <5>3. QED
          BY <5>1, <5>2
      <4>4. /\ Exacts' = Exacts /\ (\A d : IsLeader(d)' <=> IsLeader(d)) /\ (AllCovered' <=> AllCovered)
        BY <1>1, <4>3, SameStanding
      <4>5. ~ rec'[c].terminal
        BY <1>3, <2>2, <2>3, <2>6
      <4>6. QED
        BY <1>4, <3>2, <4>4, <4>5 DEF Standing
    <3>3. QED
      BY <2>5, <3>1, <3>2
  <2>10. pc \in Deciding /\ pc' \in {"cover", "ask", "finish", "mend"}
    BY <1>1, <2>5 DEF Deciding
  <2>11. QED
    BY <1>1, <1>3, <2>3, <2>4, <2>6, <2>7, <2>8, <2>9, <2>10, Recorded
<1>7. QED
  BY <1>0, <1>5, <1>6 DEF Certify

LEMMA OnAsk ==
  ASSUME SelInv, LedgerInv', Ask
  PROVE  SelInv'
<1>0. PICK c : c = Incumbent
  OBVIOUS
<1>1. pc = "ask"
  BY DEF Ask
<1>2. CASE Fail("work-limit")
  BY <1>1, <1>2, OnFail DEF Errors
<1>3. ASSUME NEW credit, credit = Least(SafetyCredit, Greatest(0, Remaining)),
             probe' = credit, reserved' = reserved + credit, pc' = "probe",
             UNCHANGED <<white, truth, rec, active, queue, next, committed, safetyCommitted,
                         counters, outcome>>
      PROVE  SelInv'
  <2>1. /\ TypeOK /\ Balanced /\ Calls /\ Sane /\ selected = None /\ error = None
        /\ SafetyReserved = 0
    BY <1>1, Facts DEF Running, Deciding
  <2>2. /\ Exacts # {} /\ AllCovered
    BY <1>0, <1>1, Winner DEF Deciding
  <2>3. /\ UNCHANGED <<rejections, repairs, vetoes, selected, error>>
    BY <1>3 DEF counters, outcome
  <2>4. credit \in 0 .. SafetyCredit /\ credit \in Nat /\ credit # None
    <3>1. Remaining \in Int
      BY <2>1, RootAssumption DEF Remaining, TypeOK
    <3>2. Greatest(0, Remaining) \in Nat
      BY <3>1 DEF Greatest
    <3>3. credit \in 0 .. SafetyCredit
      BY <1>3, <3>2, Given DEF Least
    <3>4. QED
      BY <3>3, Given
  <2>5. TypeOK'
    BY <1>3, <2>1, <2>3, <2>4 DEF TypeOK
  <2>6. Balanced'
    <3>1. Outstanding' = Outstanding
      BY <1>3 DEF Outstanding, Busy
    <3>2. SafetyReserved' = credit
      BY <1>3, <2>4 DEF SafetyReserved
    <3>3. Cardinality(Outstanding) \in Nat
      BY <2>1, OutstandingFinite
    <3>4. reserved = Cardinality(Outstanding)
      BY <2>1, <3>3 DEF Balanced
    <3>5. QED
      BY <1>3, <3>1, <3>2, <3>4 DEF Balanced
  <2>7. Busy' = {} /\ queue' = {}
    BY <1>1, <1>3, <2>1 DEF Calls, Deciding, Recalling, Busy
  <2>8. Calls'
    BY <1>3, <2>7 DEF Calls, Searching, Deciding, Recalling
  <2>9. /\ (\A d \in Candidates : Faithful(d)') /\ Dispositions' /\ Exacts' = Exacts
        /\ (\A d : IsLeader(d)' <=> IsLeader(d)) /\ (AllCovered' <=> AllCovered)
    BY <1>1, <1>3, <2>1, <2>3, Moved DEF Mending
  <2>10. Standing'
    BY <1>1, <1>3, <2>1, <2>2, <2>9 DEF Sane, Standing
  <2>11. QED
    BY <2>1, <2>3, <2>5, <2>6, <2>8, <2>9, <2>10, Onward DEF Sane
<1>4. QED
  BY <1>2, <1>3 DEF Ask

\* A winner's record changes, but none of what decides the winner.
LEMMA StillLeads ==
  ASSUME TypeOK, white' = white, NEW c \in Candidates, NEW q \in Record, rec' = [rec EXCEPT ![c] = q],
         q.exact = rec[c].exact, q.rejected = rec[c].rejected,
         q.quarantined = rec[c].quarantined, q.score = rec[c].score,
         q.adverse = rec[c].adverse, q.bound = rec[c].bound
  PROVE  /\ rec'[c] = q /\ (\A d \in Candidates \ {c} : rec'[d] = rec[d])
         /\ Exacts' = Exacts /\ (\A d : IsLeader(d)' <=> IsLeader(d)) /\ (AllCovered' <=> AllCovered)
<1>1. rec'[c] = q /\ \A d \in Candidates \ {c} : rec'[d] = rec[d]
  BY Updated
<1>2. \A d \in Candidates :
        /\ rec'[d].exact = rec[d].exact /\ rec'[d].rejected = rec[d].rejected
        /\ rec'[d].quarantined = rec[d].quarantined /\ rec'[d].score = rec[d].score
        /\ rec'[d].adverse = rec[d].adverse /\ rec'[d].bound = rec[d].bound
  <2> SUFFICES ASSUME NEW d \in Candidates
               PROVE  /\ rec'[d].exact = rec[d].exact /\ rec'[d].rejected = rec[d].rejected
                      /\ rec'[d].quarantined = rec[d].quarantined /\ rec'[d].score = rec[d].score
                      /\ rec'[d].adverse = rec[d].adverse /\ rec'[d].bound = rec[d].bound
    OBVIOUS
  <2>1. CASE d = c
    BY <1>1, <2>1
  <2>2. CASE d # c
    BY <1>1, <2>2
  <2>3. QED
    BY <2>1, <2>2
<1>3. QED
  BY <1>1, <1>2, SameStanding

\* A record that differs in fields Faithful does not read for a candidate to be published.
LEMMA StillFaithful ==
  ASSUME NEW c \in Candidates, Faithful(c), rec[c].exact, ~ rec[c].terminal, truth' = truth,
         NEW q, rec'[c] = q, q.exact, ~ q.terminal, q.score = rec[c].score,
         q.adverse = rec[c].adverse, q.quarantined = rec[c].quarantined,
         q.bound = rec[c].bound, q.owner = rec[c].owner, pc' # "start"
  PROVE  Faithful(c)'
<1>1. /\ rec[c].score = truth[c].score /\ rec[c].adverse = truth[c].adverse
      /\ rec[c].quarantined = truth[c].claim /\ rec[c].bound = None /\ rec[c].owner # None
  BY DEF Faithful
<1>2. /\ q.score = truth[c].score /\ q.adverse = truth[c].adverse
      /\ q.quarantined = truth[c].claim /\ q.bound = None /\ q.owner # None
  BY <1>1
<1>3. QED
  BY <1>2 DEF Faithful

LEMMA OnProbed ==
  ASSUME SelInv, LedgerInv', NEW used \in CallWork, Probed(used)
  PROVE  SelInv'
<1>0. PICK c, r : c = Incumbent /\ r = rec[c]
  OBVIOUS
<1>1. /\ pc = "probe" /\ SettleProbe(used) /\ used \in Nat
      /\ UNCHANGED <<white, active, queue, next, repairs>>
  BY Given DEF Probed
<1>2. /\ TypeOK /\ Balanced /\ Calls /\ Sane /\ LedgerInv /\ selected = None /\ error = None
      /\ \A d \in Candidates : Faithful(d)
  BY <1>1, Facts DEF Running, Deciding
<1>3. /\ c \in Candidates /\ IsLeader(c) /\ (\A d : IsLeader(d) => d = c)
      /\ rec[c].exact /\ ~ rec[c].rejected
      /\ (~ rec[c].terminal => rec[c].owner \in Workers) /\ Exacts # {} /\ AllCovered
      /\ queue = {}
  BY <1>0, <1>1, Winner DEF Deciding
<1>4. ~ rec[c].terminal /\ rec[c].owner \in Workers
  BY <1>1, <1>2, <1>3 DEF Sane, Standing
<1>5. Purse' /\ Balanced'
  <2>1. probe # None
    BY <1>1, <1>2 DEF LedgerInv, Credited
  <2>2. QED
    BY <1>1, <1>2, <2>1, ProbeSettled
<1>6. Busy' = {} /\ active' \in [Workers -> Task \cup {None}]
  BY <1>1, <1>2 DEF Calls, Deciding, Recalling, Busy, TypeOK
<1>7. r \in Record /\ rec[c].proofs \in 0 .. MaxRepairs /\ rec[c].repairs \in 0 .. MaxRepairs
  BY <1>0, <1>2, <1>3, RecordFields
<1>8. CASE /\ pc' = "abort" /\ error' = "safety-unknown"
           /\ UNCHANGED <<truth, rec, rejections, vetoes, selected>>
  <2>1. TypeOK'
    BY <1>1, <1>2, <1>5, <1>6, <1>8 DEF TypeOK, Purse, Errors
  <2>2. Calls'
    BY <1>6, <1>8 DEF Calls, Searching, Deciding, Recalling
  <2>3. Verdicts'
    BY <1>2, <1>8 DEF Verdicts, Faults, Running, Searching, Deciding
  <2>4. SelectedIsBest' /\ SelectedIsCertified'
    BY <1>2, <1>8, Given DEF SelectedIsBest, SelectedIsCertified
  <2>5. pc' \notin Running
    BY <1>8 DEF Running, Searching, Deciding
  <2>6. QED
    BY <1>5, <2>1, <2>2, <2>3, <2>4, <2>5 DEF SelInv
<1>9. CASE /\ rec' = [rec EXCEPT ![c].safety = "exhausted"] /\ pc' = "finish"
           /\ UNCHANGED <<truth, rejections, vetoes, outcome>>
  <2>1. PICK q : q = [r EXCEPT !.safety = "exhausted"]
    OBVIOUS
  <2>2. /\ q \in Record
        /\ q.terminal = r.terminal /\ q.exact = r.exact /\ q.score = r.score
        /\ q.adverse = r.adverse /\ q.bound = r.bound
        /\ q.quarantined = r.quarantined /\ q.owner = r.owner
        /\ q.rejected = r.rejected /\ q.proofs = r.proofs /\ q.repairs = r.repairs
        /\ q.safety = "exhausted"
    BY <1>7, <2>1 DEF Record
  <2>3. rec' = [rec EXCEPT ![c] = q]
    BY <1>0, <1>9, <2>1
  <2>4. /\ rec'[c] = q /\ (\A d \in Candidates \ {c} : rec'[d] = rec[d])
        /\ Exacts' = Exacts /\ (\A d : IsLeader(d)' <=> IsLeader(d)) /\ (AllCovered' <=> AllCovered)
    BY <1>0, <1>1, <1>2, <1>3, <2>2, <2>3, StillLeads
  <2>5. Faithful(c)'
    BY <1>0, <1>2, <1>3, <1>4, <1>9, <2>2, <2>4, StillFaithful, ZenonT(40)
  <2>6. Dispositions'
    <3>1. \A d \in Candidates : /\ rec'[d].rejected = rec[d].rejected
                                /\ rec'[d].proofs = rec[d].proofs
                                /\ rec'[d].repairs = rec[d].repairs
      BY <1>0, <2>2, <2>4
    <3>2. QED
      BY <1>1, <1>2, <1>9, <3>1, SameDispositions DEF Sane, Mending
  <2>7. Standing'
    BY <1>3, <1>9, <2>2, <2>4 DEF Standing
  <2>8. /\ truth' \in [Candidates -> Truth] /\ (\A d \in Candidates \ {c} : truth'[d] = truth[d])
        /\ rejections' \in Nat /\ repairs' \in Nat /\ vetoes' \in Nat
        /\ UNCHANGED <<selected, error>>
    BY <1>1, <1>2, <1>9 DEF TypeOK, outcome
  <2>9. pc \in Deciding /\ pc' \in {"cover", "ask", "finish", "mend"}
    BY <1>1, <1>9 DEF Deciding
  <2>10. QED
    BY <1>1, <1>3, <1>5, <1>6, <2>2, <2>3, <2>5, <2>6, <2>7, <2>8, <2>9, Recorded
<1>10. CASE rejections' = rejections + 1 /\ Reject(c) /\ UNCHANGED <<truth, outcome>>
  <2>1. rejections' \in Nat /\ rejections' + Open = rejections + 1
    <3>1. Open = 0 /\ rejections \in Nat
      BY <1>1, <1>2 DEF Open, Mending, TypeOK
    <3>2. QED
      BY <1>10, <3>1
  <2>2. UNCHANGED <<white, truth, queue, next, selected, error>> /\ repairs' = repairs
    BY <1>1, <1>10 DEF outcome
  <2>3. QED
    BY <1>0, <1>1, <1>4, <1>5, <1>6, <1>10, <2>1, <2>2, Rejects
<1>11. CASE /\ rejections' = rejections + 1 /\ rec[c].repairs < MaxRepairs
            /\ rec' = [rec EXCEPT ![c].proofs = @ + 1]
            /\ pc' = "mend" /\ UNCHANGED <<vetoes, truth, outcome>>
  <2>1. PICK n : n = rec[c].proofs + 1
    OBVIOUS
  <2>2. n \in 0 .. MaxRepairs /\ n = rec[c].repairs + 1
    <3>1. rec[c].proofs = rec[c].repairs + 0
      BY <1>1, <1>2, <1>3 DEF Sane, Dispositions, Mending
    <3>2. QED
      BY <1>7, <1>11, <2>1, <3>1, Given
  <2>3. PICK q : q = [r EXCEPT !.proofs = n]
    OBVIOUS
  <2>4. /\ q \in Record
        /\ q.terminal = r.terminal /\ q.exact = r.exact /\ q.score = r.score
        /\ q.adverse = r.adverse /\ q.bound = r.bound
        /\ q.quarantined = r.quarantined /\ q.owner = r.owner
        /\ q.rejected = r.rejected /\ q.proofs = n /\ q.repairs = r.repairs
    BY <1>7, <2>2, <2>3 DEF Record
  <2>5. rec' = [rec EXCEPT ![c] = q]
    BY <1>0, <1>11, <2>1, <2>3
  <2>6. /\ rec'[c] = q /\ (\A d \in Candidates \ {c} : rec'[d] = rec[d])
        /\ Exacts' = Exacts /\ (\A d : IsLeader(d)' <=> IsLeader(d)) /\ (AllCovered' <=> AllCovered)
    BY <1>0, <1>1, <1>2, <1>3, <2>4, <2>5, StillLeads
  <2>7. Faithful(c)'
    BY <1>0, <1>2, <1>3, <1>4, <1>11, <2>4, <2>6, StillFaithful, ZenonT(40)
  <2>8. Dispositions'
    <3>1. \A d \in Candidates : rec'[d].repairs = rec[d].repairs
      BY <1>0, <2>4, <2>6
    <3>2. Tokens' = Tokens
      BY <3>1 DEF Tokens
    <3>3. pc' \in Mending /\ pc \notin Mending /\ Open = 0 /\ Open' = 1
      BY <1>1, <1>11 DEF Mending, Open
    <3>4. ASSUME NEW d \in Candidates, ~ rec'[d].rejected
          PROVE  rec'[d].proofs = rec'[d].repairs
                   + (IF pc' \in Mending /\ IsLeader(d)' THEN 1 ELSE 0)
      <4>1. CASE d = c
        <5>1. IsLeader(d)'
          BY <1>3, <2>6, <4>1
        <5>2. rec'[d].proofs = n /\ rec'[d].repairs = rec[c].repairs
          BY <1>0, <2>4, <2>6, <4>1
        <5>3. QED
          BY <2>2, <3>3, <5>1, <5>2
      <4>2. CASE d # c
        <5>1. ~ IsLeader(d)'
          BY <1>3, <2>6, <4>2
        <5>2. rec'[d] = rec[d]
          BY <2>6, <4>2
        <5>3. rec[d].proofs = rec[d].repairs + 0
          BY <1>2, <3>3, <3>4, <5>2 DEF Sane, Dispositions
        <5>4. QED
          BY <5>1, <5>2, <5>3
      <4>3. QED
        BY <4>1, <4>2
    <3>5. repairs' + vetoes' + Open' = rejections'
      <4>1. repairs + vetoes + 0 = rejections /\ repairs \in Nat /\ vetoes \in Nat
        BY <1>2, <3>3 DEF Sane, Dispositions, TypeOK
      <4>2. QED
        BY <1>1, <1>11, <3>3, <4>1
    <3>6. repairs' = Cardinality(Tokens')
      BY <1>1, <1>2, <3>2 DEF Sane, Dispositions
    <3>7. QED
      BY <3>4, <3>5, <3>6 DEF Dispositions
  <2>9. Standing'
    <3>1. ~ rec'[c].terminal
      BY <1>0, <1>4, <2>4, <2>6
    <3>2. QED
      BY <1>3, <1>11, <2>6, <3>1 DEF Standing
  <2>10. /\ truth' \in [Candidates -> Truth] /\ (\A d \in Candidates \ {c} : truth'[d] = truth[d])
         /\ rejections' \in Nat /\ repairs' \in Nat /\ vetoes' \in Nat
         /\ UNCHANGED <<selected, error>>
    BY <1>1, <1>2, <1>11 DEF TypeOK, outcome
  <2>11. pc \in Deciding /\ pc' \in {"cover", "ask", "finish", "mend"}
    BY <1>1, <1>11 DEF Deciding
  <2>12. QED
    BY <1>1, <1>3, <1>5, <1>6, <2>4, <2>5, <2>7, <2>8, <2>9, <2>10, <2>11, Recorded
<1>12. CASE /\ truth' = [truth EXCEPT ![c] = Lost]
            /\ rec' = [rec EXCEPT ![c] = Overridden(@)]
            /\ pc' = "cover" /\ UNCHANGED <<rejections, vetoes, outcome>>
  <2>1. PICK v, w : v = Lost /\ w = rec[c].owner
    OBVIOUS
  <2>a. PICK p : p = MakeExact(r, w, v)
    OBVIOUS
  <2>b. r \in Record
    BY <1>7
  <2>2. v \in Truth /\ w \in Workers
    BY <1>2, <1>4, <2>1, ValuesTyped DEF TypeOK
  <2>3. /\ p \in Record
        /\ p.exact /\ p.bound = None /\ p.score = v.score /\ p.adverse = v.adverse
        /\ p.quarantined = v.claim /\ p.owner = w
        /\ p.terminal = r.terminal /\ p.rejected = r.rejected /\ p.proofs = r.proofs
        /\ p.repairs = r.repairs
    BY <2>a, <2>b, <2>2, MadeExact
  <2>4. PICK q : q = [p EXCEPT !.safety = "found"]
    OBVIOUS
  <2>5. /\ q \in Record
        /\ q.exact = p.exact /\ q.bound = p.bound /\ q.score = p.score /\ q.adverse = p.adverse
        /\ q.quarantined = p.quarantined /\ q.owner = p.owner
        /\ q.terminal = p.terminal /\ q.rejected = p.rejected /\ q.proofs = p.proofs
        /\ q.repairs = p.repairs
    BY <2>3, <2>4 DEF Record
  <2>6. rec' = [rec EXCEPT ![c] = q]
    BY <1>0, <1>12, <2>1, <2>a, <2>4 DEF Overridden
  <2>7. /\ Faithful(c)' /\ truth' \in [Candidates -> Truth]
        /\ \A d \in Candidates \ {c} : truth'[d] = truth[d]
        /\ rec'[c] = q /\ \A d \in Candidates \ {c} : rec'[d] = rec[d]
    <3>1. /\ TypeOK /\ c \in Candidates /\ ~ rec[c].terminal /\ pc' # "start"
          /\ truth' = [truth EXCEPT ![c] = v] /\ v \in Truth
      BY <1>2, <1>3, <1>4, <1>12, <2>1, <2>2
    <3>2. /\ q.owner \in Workers /\ q.terminal = rec[c].terminal /\ q.exact /\ q.bound = None
          /\ q.score = v.score /\ q.adverse = v.adverse /\ q.quarantined = v.claim
      BY <1>0, <2>2, <2>3, <2>5
    <3>3. QED
      BY <2>5, <2>6, <3>1, <3>2, Restated
  <2>8. Dispositions'
    <3>1. \A d \in Candidates : /\ rec'[d].rejected = rec[d].rejected
                                /\ rec'[d].proofs = rec[d].proofs
                                /\ rec'[d].repairs = rec[d].repairs
      BY <1>0, <2>3, <2>5, <2>7
    <3>2. QED
      BY <1>1, <1>2, <1>12, <3>1, SameDispositions DEF Sane, Mending
  <2>9. Standing'
    BY <1>12 DEF Standing
  <2>10. /\ rejections' \in Nat /\ repairs' \in Nat /\ vetoes' \in Nat
         /\ UNCHANGED <<selected, error>>
    BY <1>1, <1>2, <1>12 DEF TypeOK, outcome
  <2>11. pc \in Deciding /\ pc' \in {"cover", "ask", "finish", "mend"}
    BY <1>1, <1>12 DEF Deciding
  <2>12. QED
    BY <1>1, <1>3, <1>5, <1>6, <2>5, <2>6, <2>7, <2>8, <2>9, <2>10, <2>11, Recorded
<1>13. QED
  BY <1>0, <1>8, <1>9, <1>10, <1>11, <1>12 DEF Probed, RejectedLine

LEMMA OnMend ==
  ASSUME SelInv, LedgerInv', Mend
  PROVE  SelInv'
<1>0. PICK c : c = Incumbent
  OBVIOUS
<1>1. pc = "mend"
  BY DEF Mend
<1>2. TypeOK /\ Calls /\ Sane
  BY <1>1, Facts DEF Running, Deciding
<1>3. c \in Candidates /\ IsLeader(c) /\ (~ rec[c].terminal => rec[c].owner \in Workers)
  BY <1>0, <1>1, Winner DEF Deciding
<1>4. ~ rec[c].terminal
  BY <1>1, <1>2, <1>3 DEF Sane, Standing
<1>5. Owned(c)
  BY <1>1, <1>2, <1>3, <1>4, Given DEF Owned, Calls, Deciding, Recalling, Idle
<1>6. CASE /\ Send(rec[c].owner, c, "horizon-research") /\ pc' = "repair"
           /\ UNCHANGED <<white, truth, queue, next, counters, outcome>>
  <2>1. "horizon-research" \in {"selected-certification", "horizon-research"}
    OBVIOUS
  <2>2. QED
    BY <1>0, <1>1, <1>4, <1>6, <2>1, SendRecall
<1>7. CASE /\ Reject(c)
           /\ UNCHANGED <<white, truth, active, queue, next, ledger, rejections, repairs, outcome>>
  <2>1. active' \in [Workers -> Task \cup {None}] /\ Purse' /\ Balanced' /\ Busy' = {}
    BY <1>1, <1>7, Resting
  <2>2. rejections' \in Nat /\ rejections' + Open = rejections + 1
    BY <1>1, <1>2, <1>7 DEF Open, Mending, TypeOK
  <2>3. UNCHANGED <<white, truth, queue, next, selected, error>> /\ repairs' = repairs
    BY <1>7 DEF outcome
  <2>4. QED
    BY <1>0, <1>1, <1>4, <1>7, <2>1, <2>2, <2>3, Rejects
<1>8. QED
  BY <1>0, <1>5, <1>6, <1>7 DEF Mend

LEMMA OnRepaired ==
  ASSUME SelInv, LedgerInv', NEW w \in Workers, NEW used \in CallWork, Repaired(w, used)
  PROVE  SelInv'
<1>0. PICK c, r : c = active[w].candidate /\ r = rec[c]
  OBVIOUS
<1>1. /\ pc = "repair" /\ active[w] # None /\ Settle(w, used) /\ used \in Nat
      /\ UNCHANGED <<white, queue, next, rejections, selected, error>>
  BY Given DEF Repaired, outcome
<1>2. /\ TypeOK /\ Sane
  BY <1>1, Facts DEF Running, Deciding
<1>3. /\ c = Incumbent /\ c \in Candidates /\ ~ rec[c].terminal
      /\ active' \in [Workers -> Task \cup {None}] /\ Purse' /\ Balanced' /\ Busy' = {}
  BY <1>0, <1>1, Recalled DEF Recalling
<1>4. ~ rec[c].rejected /\ IsLeader(c) /\ \A d : IsLeader(d) => d = c
  BY <1>1, <1>3, Winner DEF Deciding
<1>5. CASE Reject(c) /\ UNCHANGED <<truth, repairs>>
  <2>1. rejections' \in Nat /\ rejections' + Open = rejections + 1
    BY <1>1, <1>2 DEF Open, Mending, TypeOK
  <2>2. UNCHANGED <<white, truth, queue, next, selected, error>> /\ repairs' = repairs
    BY <1>1, <1>5
  <2>3. QED
    BY <1>1, <1>3, <1>5, <2>1, <2>2, Rejects
<1>6. ASSUME NEW v \in Values, truth' = [truth EXCEPT ![c] = v],
             rec' = [rec EXCEPT ![c] = Mended(@, w, v)],
             repairs' = repairs + 1, pc' = "cover", vetoes' = vetoes
      PROVE  SelInv'
  <2>1. v \in Truth
    BY <1>2, ValuesTyped DEF TypeOK
  <2>2. PICK n, p : n = rec[c].repairs + 1 /\ p = MakeExact(r, w, v)
    OBVIOUS
  <2>3. n \in 1 .. MaxRepairs /\ rec[c].proofs = n /\ rec[c].repairs = n - 1
    <3>1. rec[c].proofs \in 0 .. MaxRepairs /\ rec[c].repairs \in 0 .. MaxRepairs
      BY <1>2, <1>3, RecordFields
    <3>2. rec[c].proofs = rec[c].repairs + 1
      BY <1>1, <1>2, <1>3, <1>4 DEF Sane, Dispositions, Mending
    <3>3. QED
      BY <2>2, <3>1, <3>2, Given
  <2>4. r \in Record
    BY <1>0, <1>2, <1>3, RecordFields
  <2>5. /\ p \in Record
        /\ p.exact /\ p.bound = None /\ p.score = v.score /\ p.adverse = v.adverse
        /\ p.quarantined = v.claim /\ p.owner = w
        /\ p.terminal = r.terminal /\ p.rejected = r.rejected /\ p.proofs = r.proofs
        /\ p.repairs = r.repairs
    BY <2>1, <2>2, <2>4, MadeExact
  <2>6. PICK q : q = [p EXCEPT !.safety = "none", !.repairs = n]
    OBVIOUS
  <2>7. /\ q \in Record
        /\ q.exact = p.exact /\ q.bound = p.bound /\ q.score = p.score /\ q.adverse = p.adverse
        /\ q.quarantined = p.quarantined /\ q.owner = p.owner
        /\ q.terminal = p.terminal /\ q.rejected = p.rejected /\ q.proofs = p.proofs
        /\ q.repairs = n
    <3>1. n \in 0 .. MaxRepairs /\ p \in Record
      BY <2>3, <2>5, Given
    <3>2. QED
      BY <2>6, <3>1 DEF Record
  <2>8. rec' = [rec EXCEPT ![c] = q]
    <3>1. p.repairs + 1 = n
      BY <1>0, <2>2, <2>5
    <3>2. q = [p EXCEPT !.safety = "none", !.repairs = @ + 1]
      BY <2>5, <2>6, <3>1 DEF Record
    <3>3. q = Mended(r, w, v)
      BY <2>2, <3>2 DEF Mended
    <3>4. QED
      BY <1>0, <1>6, <3>3
  <2>9. /\ Faithful(c)' /\ truth' \in [Candidates -> Truth]
        /\ \A d \in Candidates \ {c} : truth'[d] = truth[d]
        /\ rec'[c] = q /\ \A d \in Candidates \ {c} : rec'[d] = rec[d]
    <3>1. /\ TypeOK /\ c \in Candidates /\ ~ rec[c].terminal /\ pc' # "start"
          /\ truth' = [truth EXCEPT ![c] = v] /\ v \in Truth
      BY <1>2, <1>3, <1>6, <2>1
    <3>2. /\ q.owner \in Workers /\ q.terminal = rec[c].terminal /\ q.exact /\ q.bound = None
          /\ q.score = v.score /\ q.adverse = v.adverse /\ q.quarantined = v.claim
      BY <1>0, <2>5, <2>7
    <3>3. QED
      BY <2>7, <2>8, <3>1, <3>2, Restated
  <2>10. Dispositions'
    <3>1. /\ repairs = Cardinality(Tokens) /\ IsFiniteSet(Tokens) /\ <<c, n>> \notin Tokens
      <4>1. <<c, n>> \notin Tokens
        BY <2>3, Given DEF Tokens
      <4>2. QED
        BY <1>2, <4>1, TokensFinite DEF Sane, Dispositions
    <3>2. Tokens' = Tokens \cup {<<c, n>>}
      <4>1. \A x \in Candidates \X (1 .. MaxRepairs) :
              x[2] <= rec'[x[1]].repairs <=> x[2] <= rec[x[1]].repairs \/ x = <<c, n>>
        <5> SUFFICES ASSUME NEW d \in Candidates, NEW k \in 1 .. MaxRepairs
                     PROVE  k <= rec'[d].repairs <=> k <= rec[d].repairs \/ <<d, k>> = <<c, n>>
          OBVIOUS
        <5>1. CASE d = c
          BY <2>3, <2>7, <2>9, <5>1, Given
        <5>2. CASE d # c
          BY <2>9, <5>2
        <5>3. QED
          BY <5>1, <5>2
      <4>2. <<c, n>> \in Candidates \X (1 .. MaxRepairs)
        BY <1>3, <2>3
      <4>3. QED
        BY <4>1, <4>2 DEF Tokens
    <3>3. Cardinality(Tokens \cup {<<c, n>>}) = Cardinality(Tokens) + 1
      BY <3>1, FS_AddElement
    <3>4. repairs' = Cardinality(Tokens')
      BY <1>6, <3>1, <3>2, <3>3
    <3>5. pc' \notin Mending /\ pc \in Mending /\ Open = 1 /\ Open' = 0
      BY <1>1, <1>6 DEF Mending, Open
    <3>6. ASSUME NEW d \in Candidates, ~ rec'[d].rejected
          PROVE  rec'[d].proofs = rec'[d].repairs + 0
      <4>1. CASE d = c
        <5>1. rec'[d].proofs = n /\ rec'[d].repairs = n /\ n \in Int
          BY <1>0, <2>3, <2>5, <2>7, <2>9, <4>1, Given
        <5>2. QED
          BY <5>1
      <4>2. CASE d # c
        <5>1. rec'[d] = rec[d] /\ ~ IsLeader(d)
          BY <1>4, <2>9, <4>2
        <5>2. QED
          BY <1>2, <3>6, <5>1 DEF Sane, Dispositions
      <4>3. QED
        BY <4>1, <4>2
    <3>7. repairs' + vetoes' + Open' = rejections'
      <4>1. repairs + vetoes + 1 = rejections /\ repairs \in Nat /\ vetoes \in Nat
        BY <1>2, <3>5 DEF Sane, Dispositions, TypeOK
      <4>2. QED
        BY <1>1, <1>6, <3>5, <4>1
    <3>8. QED
      BY <3>4, <3>5, <3>6, <3>7 DEF Dispositions
  <2>11. Standing'
    BY <1>6 DEF Standing
  <2>12. rejections' \in Nat /\ repairs' \in Nat /\ vetoes' \in Nat
    BY <1>1, <1>2, <1>6 DEF TypeOK
  <2>13. pc \in Deciding /\ pc' \in {"cover", "ask", "finish", "mend"}
    BY <1>1, <1>6 DEF Deciding
  <2>14. QED
    BY <1>1, <1>3, <2>7, <2>8, <2>9, <2>10, <2>11, <2>12, <2>13, Recorded
<1>7. QED
  BY <1>0, <1>5, <1>6 DEF Repaired

-----------------------------------------------------------------------------
(* The end of the iteration. *)

\* What covers a candidate shows that its value does not precede the winner's.
LEMMA CoverSound ==
  ASSUME TypeOK, NEW s \in Candidates, NEW c \in Candidates \ {s},
         \A d \in Candidates : Faithful(d), IsLeader(s), Eligible(rec[c]),
         CoversFinal(rec[c], Key[c], rec[s], Key[s])
  PROVE  ~ Precedes(truth[c], Key[c], truth[s], Key[s])
<1>1. /\ rec[s].score = truth[s].score /\ rec[s].adverse = truth[s].adverse
      /\ truth[s].score \in Int /\ truth[s].adverse \in BOOLEAN
  BY ExactFields DEF IsLeader
<1>2. /\ rec[c].exact \in BOOLEAN /\ rec[c].adverse \in BOOLEAN /\ truth[c].adverse \in BOOLEAN
      /\ truth[c].score \in Int /\ rec[c].bound \in Bound \cup {None} /\ white \in BOOLEAN
  <2>1. /\ rec[c].exact \in BOOLEAN /\ rec[c].adverse \in BOOLEAN /\ truth[c].adverse \in BOOLEAN
        /\ truth[c].score \in -Mate .. Mate /\ rec[c].bound \in Bound \cup {None}
    BY RecordFields
  <2>2. QED
    BY <2>1, Given DEF TypeOK
<1>3. Key[c] \in Nat /\ Key[s] \in Nat
  BY RootAssumption
<1>4. CASE rec[c].exact
  <2>1. c \in Exacts
    BY <1>4 DEF Exacts
  <2>2. Precedes(rec[s], Key[s], rec[c], Key[c])
    BY <2>1 DEF IsLeader, Leads
  <2>3. rec[c].score = truth[c].score /\ rec[c].adverse = truth[c].adverse
    BY <1>4 DEF Faithful
  <2>4. CASE truth[s].adverse # truth[c].adverse
    BY <1>1, <1>2, <2>2, <2>3, <2>4 DEF Precedes
  <2>5. CASE truth[s].adverse = truth[c].adverse
    <3>1. IF truth[s].score # truth[c].score
          THEN IF white THEN truth[s].score > truth[c].score ELSE truth[s].score < truth[c].score
          ELSE Key[s] < Key[c]
      BY <1>1, <2>2, <2>3, <2>5 DEF Precedes
    <3>2. ~ (IF truth[c].score # truth[s].score
             THEN IF white THEN truth[c].score > truth[s].score ELSE truth[c].score < truth[s].score
             ELSE Key[c] < Key[s])
      BY <1>1, <1>2, <1>3, <3>1
    <3>3. QED
      BY <2>5, <3>2 DEF Precedes
  <2>6. QED
    BY <2>4, <2>5
<1>5. CASE ~ rec[c].exact
  <2>1. /\ rec[c].bound # None
        /\ IF rec[c].adverse # rec[s].adverse THEN rec[c].adverse
           ELSE \/ /\ white /\ rec[c].bound.kind = "upper"
                   /\ \/ rec[c].bound.score < rec[s].score
                      \/ rec[c].bound.score = rec[s].score /\ Key[c] >= Key[s]
                \/ /\ ~ white /\ rec[c].bound.kind = "lower"
                   /\ \/ rec[c].bound.score > rec[s].score
                      \/ rec[c].bound.score = rec[s].score /\ Key[c] >= Key[s]
    BY <1>5 DEF CoversFinal
  <2>2. /\ rec[c].adverse => truth[c].adverse
        /\ IF rec[c].bound.kind = "upper" THEN truth[c].score <= rec[c].bound.score
                                          ELSE truth[c].score >= rec[c].bound.score
    BY <2>1 DEF Faithful
  <2>3. rec[c].bound.score \in Int
    BY <1>2, <2>1, Given DEF Bound
  <2>4. CASE truth[c].adverse # truth[s].adverse
    <3>1. truth[c].adverse
      BY <1>1, <1>2, <2>1, <2>2, <2>4
    <3>2. QED
      BY <1>2, <2>4, <3>1 DEF Precedes
  <2>5. CASE truth[c].adverse = truth[s].adverse /\ ~ (rec[c].adverse # rec[s].adverse)
    <3>1. IF white THEN \/ truth[c].score < truth[s].score
                        \/ truth[c].score = truth[s].score /\ Key[c] >= Key[s]
                   ELSE \/ truth[c].score > truth[s].score
                        \/ truth[c].score = truth[s].score /\ Key[c] >= Key[s]
      <4>1. PICK b \in Int : b = rec[c].bound.score
        BY <2>3
      <4>2. CASE white
        <5>1. /\ truth[c].score <= b
              /\ b < truth[s].score \/ (b = truth[s].score /\ Key[c] >= Key[s])
          BY <1>1, <2>1, <2>2, <2>5, <4>1, <4>2
        <5>2. \/ truth[c].score < truth[s].score
              \/ truth[c].score = truth[s].score /\ Key[c] >= Key[s]
          BY <1>1, <1>2, <5>1
        <5>3. QED
          BY <4>2, <5>2
      <4>3. CASE ~ white
        <5>1. /\ truth[c].score >= b
              /\ b > truth[s].score \/ (b = truth[s].score /\ Key[c] >= Key[s])
          BY <1>1, <2>1, <2>2, <2>5, <4>1, <4>3
        <5>2. \/ truth[c].score > truth[s].score
              \/ truth[c].score = truth[s].score /\ Key[c] >= Key[s]
          BY <1>1, <1>2, <5>1
        <5>3. QED
          BY <4>3, <5>2
      <4>4. QED
        BY <4>2, <4>3
    <3>2. ~ (IF truth[c].score # truth[s].score
             THEN IF white THEN truth[c].score > truth[s].score ELSE truth[c].score < truth[s].score
             ELSE Key[c] < Key[s])
      BY <1>1, <1>2, <1>3, <3>1
    <3>3. QED
      BY <2>5, <3>2 DEF Precedes
  <2>6. CASE truth[c].adverse = truth[s].adverse /\ rec[c].adverse # rec[s].adverse
    <3>1. rec[c].adverse /\ truth[c].adverse /\ truth[s].adverse
      BY <1>1, <1>2, <2>1, <2>2, <2>6
    <3>2. FALSE
      BY <1>1, <1>2, <2>6, <3>1
    <3>3. QED
      BY <3>2
  <2>7. QED
    BY <2>4, <2>5, <2>6
<1>6. QED
  BY <1>2, <1>4, <1>5

LEMMA OnFinish ==
  ASSUME SelInv, LedgerInv', Finish
  PROVE  SelInv'
<1>0. PICK s : s = Incumbent
  OBVIOUS
<1>1. pc = "finish"
  BY DEF Finish
<1>2. /\ TypeOK /\ Balanced /\ Calls /\ Sane /\ selected = None /\ error = None
      /\ \A d \in Candidates : Faithful(d)
  BY <1>1, Facts DEF Running, Deciding
<1>3. /\ s \in Candidates /\ IsLeader(s) /\ s # None /\ rec[s].exact
      /\ ~ rec[s].rejected /\ ~ rec[s].quarantined /\ AllCovered
  BY <1>0, <1>1, Winner DEF Deciding
<1>4. Uncovered = {}
  BY <1>0, <1>3 DEF AllCovered, Uncovered, Covered
<1>5. repairs + vetoes = rejections
  BY <1>1, <1>2 DEF Sane, Dispositions, Open, Mending, TypeOK
<1>6. /\ selected' = s /\ pc' = "done"
      /\ UNCHANGED <<white, truth, rec, active, queue, next, error>>
      /\ UNCHANGED <<probe, reserved, committed, safetyCommitted, rejections, repairs, vetoes>>
  BY <1>0, <1>4, <1>5 DEF Finish, ledger, counters
<1>7. TypeOK' /\ Balanced'
  <2>1. TypeOK'
    BY <1>2, <1>3, <1>6 DEF TypeOK
  <2>2. QED
    BY <1>2, <1>6, <2>1, SameBalance
<1>8. Calls'
  <2>1. Busy' = {}
    BY <1>1, <1>2, <1>6 DEF Calls, Deciding, Recalling, Busy
  <2>2. QED
    BY <1>6, <2>1 DEF Calls, Searching, Deciding, Recalling
<1>9. Verdicts' /\ pc' \notin Running
  BY <1>2, <1>6, MarkAssumption DEF Verdicts, Running, Searching, Deciding
<1>10. SelectedIsCertified'
  <2>1. ~ truth[s].claim
    <3>1. rec[s].quarantined = truth[s].claim
      BY <1>2, <1>3 DEF Faithful
    <3>2. QED
      BY <1>3, <3>1
  <2>2. rec[s].safety \in {"exhausted", "terminal"}
    BY <1>1, <1>2, <1>3 DEF Sane, Standing
  <2>3. QED
    BY <1>3, <1>6, <2>1, <2>2 DEF SelectedIsCertified
<1>11. SelectedIsBest'
  <2>1. \A c \in Candidates \ {s} :
          Eligible(rec[c]) => ~ Precedes(truth[c], Key[c], truth[s], Key[s])
    BY <1>2, <1>3, CoverSound DEF AllCovered
  <2>2. \A c \in Candidates \ {s} :
          ~ Eligible(rec[c])' \/ ~ Precedes(truth[c], Key[c], truth[s], Key[s])'
    BY <1>6, <2>1 DEF Eligible, Precedes
  <2>3. QED
    BY <1>6, <2>2 DEF SelectedIsBest
<1>12. QED
  BY <1>7, <1>8, <1>9, <1>10, <1>11 DEF SelInv

\* The work of the calls outstanding is charged.
LEMMA OnAbort ==
  ASSUME SelInv, LedgerInv', Abort
  PROVE  SelInv'
<1>1. pc = "abort" /\ TypeOK /\ Balanced /\ Calls /\ Verdicts /\ LedgerInv /\ selected = None
  BY DEF Abort, SelInv, Verdicts
<1>2. ASSUME selected' = None, error' = error, pc' \in {"abort", "done"}, TypeOK', Balanced', Calls'
      PROVE  SelInv'
  <2>1. Verdicts' /\ pc' \notin Running
    BY <1>1, <1>2 DEF Verdicts, Running, Searching, Deciding
  <2>2. selected' \notin Candidates
    BY <1>2, Given
  <2>3. SelectedIsBest' /\ SelectedIsCertified'
    BY <2>2 DEF SelectedIsBest, SelectedIsCertified
  <2>4. QED
    BY <1>2, <2>1, <2>3 DEF SelInv
<1>3. ASSUME NEW w \in Busy, active' = [active EXCEPT ![w] = None],
             reserved' = reserved - active[w].credit, committed' = committed + active[w].credit,
             UNCHANGED <<white, truth, rec, queue, next, probe, safetyCommitted, counters,
                         pc, outcome>>
      PROVE  SelInv'
  <2>1. w \in Workers /\ active[w] # None /\ active[w].credit \in Nat
    BY <1>1, <1>3 DEF Busy, LedgerInv, Credited
  <2>2. PICK used \in Nat : used = active[w].credit
    BY <2>1
  <2>3. /\ active' \in [Workers -> Task \cup {None}] /\ Purse' /\ Balanced'
        /\ Busy' = Busy \ {w}
        /\ \A v \in Workers \ {w} : active'[v] = active[v]
    BY <1>1, <1>3, <2>1, <2>2, Settled
  <2>4. TypeOK'
    BY <1>1, <1>3, <2>3 DEF TypeOK, Purse, counters, outcome
  <2>5. Calls'
    <3>1. \A v \in Busy' : v \in Busy /\ active'[v] = active[v]
      BY <2>3 DEF Busy
    <3>2. QED
      BY <1>1, <1>3, <3>1 DEF Calls, Searching, Deciding, Recalling
  <2>6. QED
    BY <1>1, <1>2, <1>3, <2>3, <2>4, <2>5 DEF outcome
<1>4. ASSUME Busy = {}, probe # None, SettleProbe(probe),
             UNCHANGED <<white, truth, rec, active, queue, next, counters, pc, outcome>>
      PROVE  SelInv'
  <2>1. PICK used \in Nat : used = probe
    BY <1>1, <1>4 DEF LedgerInv, Credited
  <2>2. Purse' /\ Balanced'
    BY <1>1, <1>4, <2>1, ProbeSettled
  <2>3. TypeOK'
    BY <1>1, <1>4, <2>2 DEF TypeOK, Purse, counters, outcome
  <2>4. Calls'
    BY <1>1, <1>4 DEF Calls, Searching, Deciding, Recalling, Busy
  <2>5. QED
    BY <1>1, <1>2, <1>4, <2>2, <2>3, <2>4 DEF outcome
<1>5. ASSUME Busy = {}, pc' = "done",
             UNCHANGED <<white, truth, rec, active, queue, next, ledger, counters, outcome>>
      PROVE  SelInv'
  <2>1. TypeOK'
    BY <1>1, <1>5 DEF TypeOK, ledger, counters, outcome
  <2>2. Balanced'
    BY <1>1, <1>5, SameBalance DEF ledger
  <2>3. Calls'
    BY <1>5 DEF Calls, Searching, Deciding, Recalling, Busy
  <2>4. QED
    BY <1>1, <1>2, <1>5, <2>1, <2>2, <2>3 DEF outcome
<1>6. QED
  BY <1>3, <1>4, <1>5 DEF Abort

LEMMA OnStutter ==
  ASSUME SelInv, UNCHANGED vars
  PROVE  SelInv'
<1>1. /\ white' = white /\ truth' = truth /\ rec' = rec /\ active' = active /\ queue' = queue
      /\ next' = next /\ probe' = probe /\ reserved' = reserved /\ committed' = committed
      /\ safetyCommitted' = safetyCommitted /\ rejections' = rejections /\ repairs' = repairs
      /\ vetoes' = vetoes /\ pc' = pc /\ selected' = selected /\ error' = error
  BY DEF vars
<1>2. TypeOK' /\ Verdicts'
  BY <1>1 DEF SelInv, TypeOK, Verdicts
<1>3. LedgerInv'
  BY <1>1 DEF SelInv, LedgerInv, Credited, Counted, SearchSparesSafety, Remaining, Held,
              SafetyReserved
<1>4. Balanced'
  BY <1>1 DEF SelInv, Balanced, Outstanding, Busy, SafetyReserved
<1>5. /\ Exacts' = Exacts /\ (\A d : IsLeader(d)' <=> IsLeader(d)) /\ (AllCovered' <=> AllCovered)
  BY <1>1, SameStanding
<1>6. Calls'
  <2>1. Busy' = Busy
    BY <1>1 DEF Busy
  <2>2. Searches' <=> Searches
    BY <1>1, <2>1 DEF Searches
  <2>3. Plans' <=> Plans
    BY <1>1, <2>1 DEF Plans
  <2>4. Recalls' <=> Recalls
    BY <1>1, <1>5, <2>1 DEF Recalls
  <2>5. QED
    BY <1>1, <2>1, <2>2, <2>3, <2>4 DEF SelInv, Calls
<1>7. pc' \in Running => Sane'
  <2> SUFFICES ASSUME pc \in Running
               PROVE  Sane'
    BY <1>1
  <2>1. Sane
    BY DEF SelInv
  <2>2. \A c \in Candidates : Faithful(c)'
    BY <1>1, <2>1 DEF Sane, Faithful
  <2>3. Standing'
    BY <1>1, <1>5, <2>1 DEF Sane, Standing
  <2>4. Dispositions'
    <3>1. \A d \in Candidates : /\ rec'[d].rejected = rec[d].rejected
                                /\ rec'[d].proofs = rec[d].proofs
                                /\ rec'[d].repairs = rec[d].repairs
      BY <1>1
    <3>2. QED
      BY <1>1, <1>5, <2>1, <3>1, Carried DEF Sane
  <2>5. QED
    BY <2>2, <2>3, <2>4 DEF Sane
<1>8. SelectedIsBest' /\ SelectedIsCertified'
  BY <1>1 DEF SelInv, SelectedIsBest, SelectedIsCertified, Eligible, Precedes, MoverMate
<1>9. QED
  BY <1>2, <1>3, <1>4, <1>6, <1>7, <1>8 DEF SelInv

-----------------------------------------------------------------------------
(* The invariant holds. *)
LEMMA InitValues ==
  ASSUME white \in BOOLEAN
  PROVE  /\ \A v \in Endings : v \in Truth /\ ~ v.adverse /\ ~ v.claim
         /\ \A v \in Values : v \in Truth /\ v.score \in 1 - Mate .. Mate - 1
<1>1. ASSUME NEW v \in Endings
      PROVE  v \in Truth /\ ~ v.adverse /\ ~ v.claim
  <2>1. PICK s \in {MoverMate(1), 0} : v = Value(s, FALSE, FALSE)
    BY <1>1 DEF Endings
  <2>2. s \in -Mate .. Mate
    BY <2>1, Given DEF MoverMate
  <2>3. QED
    BY <2>1, <2>2 DEF Value, Truth
<1>2. ASSUME NEW v \in Values
      PROVE  v \in Truth /\ v.score \in 1 - Mate .. Mate - 1
  <2>1. \E s \in 1 - Mate .. Mate - 1 : \E a, b \in BOOLEAN : v = Value(s, a, b)
    <3>1. Scores \subseteq 1 - Mate .. Mate - 1
      BY Given, RootAssumption DEF Scores
    <3>2. 1 - Mate \in 1 - Mate .. Mate - 1 /\ Mate - 1 \in 1 - Mate .. Mate - 1
      BY Given
    <3>3. CASE \E s \in Scores : v = Value(s, FALSE, FALSE)
      BY <3>1, <3>3
    <3>4. CASE \E s \in Scores : v = Value(s, TRUE, FALSE)
      BY <3>1, <3>4
    <3>5. CASE \E s \in {1 - Mate, Mate - 1} : v = Value(s, s # MoverMate(2), FALSE)
      BY <3>2, <3>5
    <3>6. CASE \E s \in {1 - Mate, Mate - 1} : v = Value(s, FALSE, TRUE)
      BY <3>2, <3>6
    <3>7. QED
      BY <1>2, <3>3, <3>4, <3>5, <3>6 DEF Values
  <2>2. PICK s \in 1 - Mate .. Mate - 1, a \in BOOLEAN, b \in BOOLEAN : v = Value(s, a, b)
    BY <2>1
  <2>3. s \in -Mate .. Mate /\ v.score = s
    BY <2>2, Given DEF Value
  <2>4. v \in Truth
    BY <2>2, <2>3 DEF Value, Truth
  <2>5. QED
    BY <2>2, <2>3, <2>4
<1>3. QED
  BY <1>1, <1>2

LEMMA InitSel == Init => SelInv
<1> SUFFICES ASSUME Init
             PROVE  SelInv
  OBVIOUS
<1>1. LedgerInv
  BY InitLedger
<1>2. /\ white \in BOOLEAN /\ active = [w \in Workers |-> None] /\ next = None
      /\ probe = None /\ reserved = 0 /\ committed = InitialWork /\ safetyCommitted = 0
      /\ rejections = 0 /\ repairs = 0 /\ vetoes = 0
      /\ pc = "start" /\ selected = None /\ error = None
  BY DEF Init
<1>3. PICK Ended \in SUBSET Candidates :
        /\ truth \in [Candidates -> Values \cup Endings]
        /\ \A c \in Candidates : truth[c] \in IF c \in Ended THEN Endings ELSE Values
        /\ rec = [c \in Candidates |->
            LET seeded == Cardinality({d \in Candidates \ Ended : d < c}) < Wave IN
            [terminal |-> c \in Ended, exact |-> c \in Ended,
             score |-> IF c \in Ended THEN truth[c].score ELSE None,
             adverse |-> FALSE, bound |-> None, rejected |-> FALSE, quarantined |-> FALSE,
             owner |-> None, proofs |-> 0, repairs |-> 0,
             safety |-> IF c \in Ended THEN "terminal" ELSE "none",
             aspires |-> Aspiration # {} /\ c \notin Ended /\ seeded,
             delta |-> IF Aspiration = {} THEN 0 ELSE (CHOOSE a \in Aspiration : TRUE).delta,
             attempts |-> 0]]
        /\ queue = Candidates \ Ended
  BY DEF Init
<1>4. (IF Aspiration = {} THEN 0 ELSE (CHOOSE a \in Aspiration : TRUE).delta) \in Nat
  <2>1. CASE Aspiration # {}
    <3>1. (CHOOSE a \in Aspiration : TRUE) \in Aspiration
      BY <2>1
    <3>2. QED
      BY <2>1, <3>1, RootAssumption
  <2>2. QED
    BY <2>1
<1>5. ASSUME NEW c \in Candidates
      PROVE  /\ rec[c] \in Record /\ truth[c] \in Truth
             /\ rec[c].terminal <=> c \in Ended
             /\ rec[c].exact <=> c \in Ended
             /\ c \in Ended => rec[c].score = truth[c].score /\ rec[c].safety = "terminal"
             /\ ~ rec[c].adverse /\ rec[c].bound = None /\ ~ rec[c].rejected
             /\ ~ rec[c].quarantined /\ rec[c].proofs = 0 /\ rec[c].repairs = 0
             /\ rec[c].attempts = 0
             /\ rec[c].aspires => Aspiration # {}
  <2>1. truth[c] \in Truth /\ truth[c].score \in -Mate .. Mate
    <3>1. truth[c] \in Truth
      BY <1>2, <1>3, InitValues
    <3>2. QED
      BY <3>1 DEF Truth
  <2>2. PICK score, delta, aspires, safety :
          /\ score = IF c \in Ended THEN truth[c].score ELSE None
          /\ delta = IF Aspiration = {} THEN 0 ELSE (CHOOSE a \in Aspiration : TRUE).delta
          /\ aspires = (Aspiration # {} /\ c \notin Ended
                          /\ Cardinality({d \in Candidates \ Ended : d < c}) < Wave)
          /\ safety = IF c \in Ended THEN "terminal" ELSE "none"
    OBVIOUS
  <2>3. rec[c] = [terminal |-> c \in Ended, exact |-> c \in Ended, score |-> score,
                  adverse |-> FALSE, bound |-> None, rejected |-> FALSE, quarantined |-> FALSE,
                  owner |-> None, proofs |-> 0, repairs |-> 0, safety |-> safety,
                  aspires |-> aspires, delta |-> delta, attempts |-> 0]
    BY <1>3, <2>2
  <2>4. /\ score \in (-Mate .. Mate) \cup {None} /\ delta \in Nat /\ aspires \in BOOLEAN
        /\ safety \in {"none", "exhausted", "found", "terminal", "line-rejected"}
        /\ (aspires => Aspiration # {})
        /\ (c \in Ended => score = truth[c].score /\ safety = "terminal")
    BY <1>4, <2>1, <2>2
  <2>5. 0 \in 0 .. MaxRepairs /\ 0 \in 0 .. MaxAttempts
    BY Given
  <2>6. rec[c] \in Record /\ (rec[c].terminal <=> c \in Ended)
                         /\ (rec[c].exact <=> c \in Ended)
    <3>1. CASE c \in Ended
      <4>1. rec[c] = [terminal |-> TRUE, exact |-> TRUE, score |-> score,
                  adverse |-> FALSE, bound |-> None, rejected |-> FALSE, quarantined |-> FALSE,
                  owner |-> None, proofs |-> 0, repairs |-> 0, safety |-> safety,
                  aspires |-> aspires, delta |-> delta, attempts |-> 0]
        BY <2>3, <3>1, Zenon
      <4>2. rec[c] \in Record
        BY <4>1, <2>4, <2>5 DEF Record
      <4>3. rec[c].terminal /\ rec[c].exact
        BY <4>1
      <4>4. QED
        BY <4>2, <4>3, <3>1
    <3>2. CASE c \notin Ended
      <4>0. (c \in Ended) = FALSE
        BY <3>2
      <4>1. rec[c] = [terminal |-> FALSE, exact |-> FALSE, score |-> score,
                  adverse |-> FALSE, bound |-> None, rejected |-> FALSE, quarantined |-> FALSE,
                  owner |-> None, proofs |-> 0, repairs |-> 0, safety |-> safety,
                  aspires |-> aspires, delta |-> delta, attempts |-> 0]
        BY <2>3, <4>0, Zenon
      <4>2. rec[c] \in Record
        BY <4>1, <2>4, <2>5 DEF Record
      <4>3. ~ rec[c].terminal /\ ~ rec[c].exact
        BY <4>1
      <4>4. QED
        BY <4>2, <4>3, <3>2
    <3>3. QED
      BY <3>1, <3>2
  <2>8. /\ ~ rec[c].adverse /\ rec[c].bound = None /\ ~ rec[c].rejected
        /\ ~ rec[c].quarantined /\ rec[c].proofs = 0 /\ rec[c].repairs = 0
        /\ rec[c].attempts = 0
    BY <2>3
  <2>9. /\ c \in Ended => rec[c].score = truth[c].score /\ rec[c].safety = "terminal"
        /\ rec[c].aspires => Aspiration # {}
    BY <2>3, <2>4
  <2>10. QED
    BY <2>1, <2>6, <2>8, <2>9
<1>6. TypeOK
  <2>1. rec \in [Candidates -> Record] /\ truth \in [Candidates -> Truth]
    BY <1>3, <1>5
  <2>2. active \in [Workers -> Task \cup {None}]
    BY <1>2
  <2>3. committed \in Nat
    BY <1>2, RootAssumption
  <2>4. QED
    BY <1>2, <1>3, <2>1, <2>2, <2>3 DEF TypeOK
<1>7. Busy = {}
  BY <1>2 DEF Busy
<1>8. Balanced
  <2>1. Outstanding = {} /\ SafetyReserved = 0
    BY <1>2, <1>7 DEF Outstanding, SafetyReserved
  <2>2. QED
    BY <1>2, <2>1, FS_EmptySet DEF Balanced
<1>9. Calls
  <2>1. Searches
    BY <1>3, <1>5, <1>7 DEF Searches
  <2>2. QED
    BY <1>2, <1>7, <2>1 DEF Calls, Deciding, Recalling
<1>10. Verdicts
  BY <1>2, MarkAssumption DEF Verdicts
<1>11. Sane
  <2>1. ASSUME NEW c \in Candidates
        PROVE  Faithful(c)
    <3>1. CASE c \in Ended
      <4>1. ~ truth[c].adverse /\ ~ truth[c].claim /\ truth[c] \in Truth
        BY <1>2, <1>3, <3>1, InitValues
      <4>2. /\ truth[c].adverse \in BOOLEAN /\ truth[c].claim \in BOOLEAN
            /\ rec[c].adverse \in BOOLEAN /\ rec[c].quarantined \in BOOLEAN
        BY <1>6, RecordFields
      <4>3. rec[c].adverse = truth[c].adverse /\ rec[c].quarantined = truth[c].claim
        BY <1>5, <4>1, <4>2
      <4>4. QED
        BY <1>5, <3>1, <4>1, <4>3 DEF Faithful
    <3>2. CASE c \notin Ended
      <4>1. truth[c].score \in 1 - Mate .. Mate - 1
        BY <1>2, <1>3, <3>2, InitValues
      <4>2. QED
        BY <1>5, <3>2, <4>1 DEF Faithful
    <3>3. QED
      BY <3>1, <3>2
  <2>2. Standing
    BY <1>2 DEF Standing, Deciding
  <2>3. Dispositions
    <3>1. Tokens = {}
      <4>1. \A c \in Candidates : \A n \in 1 .. MaxRepairs : ~ (n <= rec[c].repairs)
        BY <1>5, Given
      <4>2. QED
        BY <4>1 DEF Tokens
    <3>2. Open = 0 /\ pc \notin Mending
      BY <1>2 DEF Open, Mending
    <3>3. repairs = Cardinality(Tokens)
      BY <1>2, <3>1, FS_EmptySet
    <3>4. \A c \in Candidates : rec[c].proofs = rec[c].repairs + 0
      BY <1>5
    <3>5. QED
      BY <1>2, <3>2, <3>3, <3>4 DEF Dispositions
  <2>4. QED
    BY <2>1, <2>2, <2>3 DEF Sane
<1>12. SelectedIsBest /\ SelectedIsCertified
  BY <1>2, Given DEF SelectedIsBest, SelectedIsCertified
<1>13. QED
  BY <1>1, <1>6, <1>8, <1>9, <1>10, <1>11, <1>12 DEF SelInv

LEMMA StepSel == SelInv /\ [Next]_vars => SelInv'
<1> SUFFICES ASSUME SelInv, [Next]_vars
             PROVE  SelInv'
  OBVIOUS
<1>1. LedgerInv'
  BY StepLedger DEF SelInv
<1>2. CASE Start
  BY <1>1, <1>2, OnStart
<1>3. CASE Seed
  BY <1>1, <1>3, OnSeed
<1>4. CASE Fill
  BY <1>1, <1>4, OnFill
<1>5. CASE Dispatch
  BY <1>1, <1>5, OnDispatch
<1>6. CASE Cover
  BY <1>1, <1>6, OnCover
<1>7. CASE Decide
  BY <1>1, <1>7, OnDecide
<1>8. CASE Ask
  BY <1>1, <1>8, OnAsk
<1>9. CASE Mend
  BY <1>1, <1>9, OnMend
<1>10. CASE Finish
  BY <1>1, <1>10, OnFinish
<1>11. ASSUME NEW w \in Workers, NEW used \in CallWork,
              Reply(w, used) \/ Certify(w, used) \/ Repaired(w, used)
       PROVE  SelInv'
  BY <1>1, <1>11, OnReply, OnCertify, OnRepaired
<1>12. ASSUME NEW used \in CallWork, Probed(used)
       PROVE  SelInv'
  BY <1>1, <1>12, OnProbed
<1>13. CASE Cancel
  BY <1>1, <1>13, OnFail DEF Cancel, Errors
<1>14. CASE LoseWorker
  BY <1>1, <1>14, OnFail DEF LoseWorker, Errors
<1>15. CASE LoseProbe
  BY <1>1, <1>15, OnFail DEF LoseProbe, Errors
<1>16. CASE Abort
  BY <1>1, <1>16, OnAbort
<1>17. CASE UNCHANGED vars
  BY <1>17, OnStutter
<1>18. QED
  BY <1>2, <1>3, <1>4, <1>5, <1>6, <1>7, <1>8, <1>9, <1>10, <1>11, <1>12, <1>13, <1>14,
     <1>15, <1>16, <1>17 DEF Next

\* Whatever the workers answer, and in whatever order, the iteration keeps to
\* its invariant.
THEOREM SelectionHolds == Spec => []SelInv
  BY InitSel, StepSel, PTL DEF Spec

\* The records, the calls and the ledger have their types throughout.
THEOREM TypeCorrect == Spec => []TypeOK
<1>1. SelInv => TypeOK
  BY DEF SelInv
<1>2. QED
  BY <1>1, SelectionHolds, PTL

\* runRootIteration publishes the best of the candidates that may be selected,
\* although most of them were only ever bounded by scouts, at incumbents that
\* have since been replaced, vetoed or repaired.
THEOREM BestIsSelected == Spec => []SelectedIsBest
<1>1. SelInv => SelectedIsBest
  BY DEF SelInv
<1>2. QED
  BY <1>1, SelectionHolds, PTL

\* What it publishes ends the game or was probed to exhaustion as it now stands.
THEOREM SelectionCertified == Spec => []SelectedIsCertified
<1>1. SelInv => SelectedIsCertified
  BY DEF SelInv
<1>2. QED
  BY <1>1, SelectionHolds, PTL

\* "incumbent-missing", "owner-unavailable", "coverage-incomplete" and the
\* mismatch of rejected lines with repairs and vetoes are never raised.
THEOREM NeverAtOdds == Spec => []NoInternalFault
<1>1. SelInv => NoInternalFault
  BY DEF SelInv, Verdicts, NoInternalFault
<1>2. QED
  BY <1>1, SelectionHolds, PTL

\* The ledger's reservations are those of the calls outstanding, to the unit,
\* and an iteration that is over holds none.
THEOREM LedgerBalances == Spec => []LedgerBalanced
<1>1. SelInv => LedgerBalanced
  <2> SUFFICES ASSUME SelInv
               PROVE  LedgerBalanced
    OBVIOUS
  <2>1. reserved = Cardinality(Outstanding) + SafetyReserved
    BY DEF SelInv, Balanced
  <2>2. ASSUME pc = "done"
        PROVE  reserved = 0
    <3>1. Busy = {} /\ probe = None
      BY <2>2 DEF SelInv, Calls, LedgerInv, Credited
    <3>2. Outstanding = {} /\ SafetyReserved = 0
      BY <3>1 DEF Outstanding, SafetyReserved
    <3>3. QED
      BY <2>1, <3>2, FS_EmptySet
  <2>3. QED
    BY <2>1, <2>2 DEF LedgerBalanced
<1>2. QED
  BY <1>1, SelectionHolds, PTL
=============================================================================
