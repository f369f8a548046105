--------------------------- MODULE RootCoordinator --------------------------
(***************************************************************************)
(* runRootIteration of root-iteration-coordinator.js: one iteration of a   *)
(* root search.  The coordinator hands the retained root candidates to a   *)
(* set of workers, prunes with null-window scouts around the best exact    *)
(* candidate so far, re-searches what a scout could not settle, has the    *)
(* winner certified by the worker that owns it and checked by a safety     *)
(* probe, and repairs or vetoes a winner the probe rejects.  Every call    *)
(* runs on work reserved from one ledger.                                  *)
(*                                                                         *)
(* JavaScript is single-threaded: what may happen at an await is a reply   *)
(* of any busy worker or of the safety probe, a lost worker, or the        *)
(* deadline; everything else runs to the next await without interruption.  *)
(* pc says where the coordinator is: at "search", "certify", "probe" and   *)
(* "repair" it awaits, at the other values it is within a turn, and only   *)
(* the next step of that turn is enabled.                                  *)
(*                                                                         *)
(* Series, principal variations and identities are abstracted; a reply     *)
(* that fails validation and a worker that dies end the iteration alike.   *)
(* The kernel is taken at its word: what a worker answers is truthful for  *)
(* the value its search gives the candidate.  That value may change: a     *)
(* horizon proof may give any other, a found reply mate makes it a proven  *)
(* loss, and a certification may lose the proof of a mate score.           *)
(***************************************************************************)
EXTENDS Integers, FiniteSets

CONSTANTS Workers,        \* 1 .. request.worker_count, in the caller's order
          Candidates,     \* order_index of the retained candidates
          Key,            \* order_key of each candidate, as its rank
          Best,           \* no ordinary score exceeds this
          Mate,           \* request.mate_score - 1
          Wave,           \* request.initial_full_wave
          Aspiration,     \* {} or {[center |-> c, delta |-> d]}
          MaxAttempts,    \* MAX_ASPIRATION_ATTEMPTS
          MaxRepairs,     \* MAX_SAME_ROOT_HORIZON_REPAIRS
          MaxWork, InitialWork, SafetyReserve, SearchCredit, SafetyCredit,
          CallWork,       \* work a call may use, as far as its credit goes
          Kinds,          \* the kinds of candidates, see Values
          None

ASSUME RootAssumption ==
  /\ Workers = 1 .. Cardinality(Workers) /\ Workers # {} /\ IsFiniteSet(Workers)
  /\ Candidates = 1 .. Cardinality(Candidates) /\ Candidates # {} /\ IsFiniteSet(Candidates)
  /\ Key \in [Candidates -> Nat]
  /\ \A c, d \in Candidates : Key[c] = Key[d] => c = d
  /\ Best \in Nat /\ Mate \in Nat /\ Best + 1 < Mate
  /\ Wave \in 1 .. Cardinality(Workers)
  /\ Aspiration \subseteq [center : -2 * Mate - 1 .. 2 * Mate + 1, delta : Nat \ {0}]
  /\ \A a, b \in Aspiration : a = b
  /\ MaxAttempts \in Nat \ {0} /\ MaxRepairs \in Nat
  /\ MaxWork \in Nat /\ InitialWork \in 0 .. MaxWork
  /\ SafetyReserve \in 0 .. MaxWork - InitialWork
  /\ SearchCredit \in 1 .. MaxWork /\ SafetyCredit \in 0 .. MaxWork
  /\ CallWork \subseteq Nat /\ 0 \in CallWork
  /\ Kinds \subseteq {"plain", "adverse", "mate", "claim", "terminal"}
  /\ None \notin Candidates \cup Workers \cup Int

Full   == 2 * (Mate + 1)
Scores == -Best .. Best

VARIABLES white,      \* the side to move at the root
          truth,      \* what a full-window search of each candidate returns
          rec,        \* records
          active,     \* the task of each worker, or None
          queue,      \* the pending or uncovered candidates
          next,       \* the task to dispatch next, or None
          probe,      \* the credit reserved for the safety probe, or None
          reserved, committed, safetyCommitted,   \* ledger
          rejections, repairs, vetoes,            \* the pvHorizon... counters
          pc,
          selected,   \* the candidate that is published, or None
          error       \* why the iteration failed, or None

ledger   == <<probe, reserved, committed, safetyCommitted>>
counters == <<rejections, repairs, vetoes>>
outcome  == <<selected, error>>
vars     == <<white, truth, rec, active, queue, next, probe, reserved, committed,
              safetyCommitted, rejections, repairs, vetoes, pc, selected, error>>

-----------------------------------------------------------------------------
(* Data. *)

\* A candidate's value: its score, whether the opponent is proven to win, and
\* whether it is a mate score without the proof that matches it.
Truth == [score : -Mate .. Mate, adverse : BOOLEAN, claim : BOOLEAN]

Value(s, a, q) == [score |-> s, adverse |-> a, claim |-> q]

\* The side to move mates at the end of the n-th series.
MoverMate(n) == IF white THEN Mate + 1 - n ELSE n - Mate - 1

\* What the search may say of a candidate that is not terminal: an ordinary
\* score, without or with a proof that the opponent wins, a proven mate, or a
\* mate score without its proof.
Values ==
  UNION {{Value(s, FALSE, FALSE) : s \in {s \in Scores : "plain" \in Kinds}},
         {Value(s, TRUE, FALSE) : s \in {s \in Scores : "adverse" \in Kinds}},
         {Value(s, s # MoverMate(2), FALSE) :
            s \in {s \in {1 - Mate, Mate - 1} : "mate" \in Kinds}},
         {Value(s, FALSE, TRUE) : s \in {s \in {1 - Mate, Mate - 1} : "claim" \in Kinds}}}

\* A candidate that ends the game: the side to move mates, or a draw.
Endings == {Value(s, FALSE, FALSE) : s \in {s \in {MoverMate(1), 0} : "terminal" \in Kinds}}

Lost == Value(-MoverMate(2), TRUE, FALSE)

Bound == [kind : {"upper", "lower"}, score : -Full .. Full]

Record == [terminal : BOOLEAN, exact : BOOLEAN, score : (-Mate .. Mate) \cup {None},
           adverse : BOOLEAN, bound : Bound \cup {None}, rejected : BOOLEAN,
           quarantined : BOOLEAN, owner : Workers \cup {None},
           proofs : 0 .. MaxRepairs, repairs : 0 .. MaxRepairs,
           safety : {"none", "exhausted", "found", "terminal", "line-rejected"},
           aspires : BOOLEAN, delta : Nat, attempts : 0 .. MaxAttempts]

Windowed == {"scout", "aspiration"}
Purposes == Windowed \cup {"full", "threat-research", "selected-certification",
                           "horizon-research"}
Task     == [candidate : Candidates, purpose : Purposes,
             alpha : Int, beta : Int, credit : 1 .. SearchCredit]
Planned  == [worker : Workers, candidate : Candidates, purpose : Purposes]

\* Errors of a run that goes wrong outside, and of one that is at odds with itself.
Errors == {"cancelled", "worker-lost", "work-limit", "frontier-exhausted",
           "safety-unknown", "widening-required"}
Faults == {"incumbent-missing", "owner-unavailable", "accounting", "coverage-incomplete"}

ASSUME MarkAssumption == None \notin Bound \cup Task \cup Planned \cup Faults

TypeOK ==
  /\ white \in BOOLEAN
  /\ truth \in [Candidates -> Truth]
  /\ rec \in [Candidates -> Record]
  /\ active \in [Workers -> Task \cup {None}]
  /\ queue \subseteq Candidates
  /\ next \in Planned \cup {None}
  /\ probe \in (0 .. SafetyCredit) \cup {None}
  /\ reserved \in Nat /\ committed \in Nat /\ safetyCommitted \in Nat
  /\ rejections \in Nat /\ repairs \in Nat /\ vetoes \in Nat
  /\ pc \in {"start", "seed", "search", "fill", "dispatch", "cover", "decide", "certify",
             "ask", "probe", "mend", "repair", "finish", "abort", "done"}
  /\ selected \in Candidates \cup {None}
  /\ error \in Errors \cup Faults \cup {None}

-----------------------------------------------------------------------------
(* Comparing candidates. *)

Eligible(r) == ~ r.rejected /\ ~ r.quarantined

\* proofAwareRootPrecedes: a proven loss comes last, then the score decides,
\* then the order key.
Precedes(r, kr, s, ks) ==
  IF r.adverse # s.adverse THEN ~ r.adverse
  ELSE IF r.score # s.score THEN IF white THEN r.score > s.score ELSE r.score < s.score
  ELSE kr < ks

Exacts == {c \in Candidates : rec[c].exact /\ Eligible(rec[c])}

\* recomputeIncumbent: the exact and eligible candidate that precedes the others.
Leads(c)  == \A d \in Exacts \ {c} : Precedes(rec[c], Key[c], rec[d], Key[d])
Incumbent == IF Exacts = {} THEN None ELSE CHOOSE c \in Exacts : Leads(c)

\* Mutant of coversFinal: a bound equal to the incumbent's score always covers.
CoversEqual(r, kr, s, ks) ==
  \/ r.exact
  \/ /\ r.bound # None
     /\ IF r.adverse # s.adverse THEN r.adverse
        ELSE \/ white /\ r.bound.kind = "upper" /\ r.bound.score <= s.score
             \/ ~ white /\ r.bound.kind = "lower" /\ r.bound.score >= s.score

\* coversFinal: what is known of r shows that it does not beat the incumbent s.
CoversFinal(r, kr, s, ks) ==
  \/ r.exact
  \/ /\ r.bound # None
     /\ IF r.adverse # s.adverse THEN r.adverse
        ELSE \/ /\ white /\ r.bound.kind = "upper"
                /\ r.bound.score < s.score \/ (r.bound.score = s.score /\ kr >= ks)
             \/ /\ ~ white /\ r.bound.kind = "lower"
                /\ r.bound.score > s.score \/ (r.bound.score = s.score /\ kr >= ks)

Covered(c, r) == Incumbent # None /\ CoversFinal(r, Key[c], rec[Incumbent], Key[Incumbent])

Uncovered == {c \in Candidates : Eligible(rec[c]) /\ ~ Covered(c, rec[c])}

-----------------------------------------------------------------------------
(* The ledger. *)

Least(a, b)   == IF a < b THEN a ELSE b
Greatest(a, b) == IF a > b THEN a ELSE b
First(S)      == CHOOSE x \in S : \A y \in S : x <= y

Busy == {w \in Workers : active[w] # None}
Idle == Workers \ Busy

SafetyReserved == IF probe = None THEN 0 ELSE probe
Remaining      == MaxWork - committed - reserved

\* What is kept back for the safety probe.
Held == Greatest(0, SafetyReserve - safetyCommitted - SafetyReserved)

\* Mutant: search may spend the safety reserve.
AvailableToAll == Greatest(0, Remaining)

\* ReservationLedger.available("search")
Available == Greatest(0, Remaining - Held)

Window(c, purpose) ==
  CASE purpose = "aspiration" ->
         LET a == CHOOSE a \in Aspiration : TRUE IN
         <<Greatest(-Full, a.center - rec[c].delta), Least(Full, a.center + rec[c].delta)>>
    [] purpose = "scout" /\ white   -> <<rec[Incumbent].score, rec[Incumbent].score + 1>>
    [] purpose = "scout" /\ ~ white -> <<rec[Incumbent].score - 1, rec[Incumbent].score>>
    [] OTHER                        -> <<-Full, Full>>

\* dispatch: a search call on its own reservation.
Send(w, c, purpose) ==
  LET credit == Least(SearchCredit, Available) IN
  /\ Available > 0
  /\ active' = [active EXCEPT ![w] =
                  [candidate |-> c, purpose |-> purpose, alpha |-> Window(c, purpose)[1],
                   beta |-> Window(c, purpose)[2], credit |-> credit]]
  /\ rec' = [rec EXCEPT ![c].attempts = IF purpose = "aspiration" THEN @ + 1 ELSE @]
  /\ reserved' = reserved + credit
  /\ UNCHANGED <<probe, committed, safetyCommitted>>

\* consumeOne: the reply of w is settled.
Settle(w, used) ==
  /\ used <= active[w].credit
  /\ active' = [active EXCEPT ![w] = None]
  /\ reserved' = reserved - active[w].credit
  /\ committed' = committed + used
  /\ UNCHANGED <<probe, safetyCommitted>>

SettleProbe(used) ==
  /\ used <= probe
  /\ probe' = None
  /\ reserved' = reserved - probe
  /\ committed' = committed + used
  /\ safetyCommitted' = safetyCommitted + used

\* A step fails; what is reserved is settled at "abort".
Fail(e) ==
  /\ pc' = "abort" /\ error' = e
  /\ UNCHANGED <<white, truth, rec, active, queue, next, ledger, counters, selected>>

-----------------------------------------------------------------------------
(* The initial state, and the first wave. *)

Init ==
  /\ white \in BOOLEAN
  /\ \E Ended \in SUBSET Candidates :
       /\ "terminal" \notin Kinds => Ended = {}
       /\ truth \in [Candidates -> Values \cup Endings]
       /\ \A c \in Candidates : truth[c] \in IF c \in Ended THEN Endings ELSE Values
       /\ rec = [c \in Candidates |->
            LET seeded == Cardinality({d \in Candidates \ Ended : d < c}) < Wave IN
            [terminal |-> c \in Ended, exact |-> c \in Ended,
             score |-> IF c \in Ended THEN truth[c].score ELSE None,
             adverse |-> FALSE, bound |-> None, rejected |-> FALSE, quarantined |-> FALSE,
             owner |-> None, proofs |-> 0, repairs |-> 0,
             safety |-> IF c \in Ended THEN "terminal" ELSE "none",
             aspires |-> Aspiration # {} /\ c \notin Ended /\ seeded,
             delta |-> IF Aspiration = {} THEN 0 ELSE (CHOOSE a \in Aspiration : TRUE).delta,
             attempts |-> 0]]
       /\ queue = Candidates \ Ended
  /\ active = [w \in Workers |-> None] /\ next = None
  /\ probe = None /\ reserved = 0 /\ committed = InitialWork /\ safetyCommitted = 0
  /\ rejections = 0 /\ repairs = 0 /\ vetoes = 0
  /\ pc = "start" /\ selected = None /\ error = None

\* A terminal candidate that mates ends the iteration before any search.
Start ==
  LET mates == {c \in Candidates : rec[c].terminal /\ rec[c].score = MoverMate(1)} IN
  /\ pc = "start"
  /\ IF mates = {} THEN pc' = "seed" /\ UNCHANGED selected
                   ELSE pc' = "done" /\ selected' = First(mates)
  /\ UNCHANGED <<white, truth, rec, active, queue, next, ledger, counters, error>>

Seeding == queue # {} /\ Cardinality(Busy) < Wave

Seed ==
  /\ pc = "seed"
  /\ \/ /\ Seeding
        /\ Send(First(Idle), First(queue), IF rec[First(queue)].aspires THEN "aspiration" ELSE "full")
        /\ queue' = queue \ {First(queue)}
        /\ UNCHANGED <<white, truth, next, counters, pc, outcome>>
     \/ Seeding /\ Available = 0 /\ Fail("work-limit")
     \/ /\ ~ Seeding
        /\ pc' = IF Busy = {} THEN "cover" ELSE "search"
        /\ UNCHANGED <<white, truth, rec, active, queue, next, ledger, counters, outcome>>

\* fillIdle: every idle worker gets the next candidate.
Filling == queue # {} /\ Idle # {}

Fill ==
  /\ pc = "fill"
  /\ \/ /\ Filling
        /\ Send(First(Idle), First(queue), IF Incumbent = None THEN "full" ELSE "scout")
        /\ queue' = queue \ {First(queue)}
        /\ UNCHANGED <<white, truth, next, counters, pc, outcome>>
     \/ Filling /\ Available = 0 /\ Fail("work-limit")
     \/ /\ ~ Filling
        /\ pc' = IF Busy = {} THEN "cover" ELSE "search"
        /\ UNCHANGED <<white, truth, rec, active, queue, next, ledger, counters, outcome>>

\* The task a reply, or a coverage without incumbent, calls for.
Dispatch ==
  /\ pc = "dispatch"
  /\ \/ /\ Send(next.worker, next.candidate, next.purpose)
        /\ next' = None /\ pc' = "search"
        /\ UNCHANGED <<white, truth, queue, counters, outcome>>
     \/ Available = 0 /\ Fail("work-limit")

-----------------------------------------------------------------------------
(* Replies to searches: consumeOne and handleSearchOutcome. *)

\* makeExact: a mate score without its proof is quarantined.
MakeExact(r, w, v) ==
  [r EXCEPT !.exact = TRUE, !.bound = None, !.score = v.score, !.adverse = v.adverse,
            !.quarantined = v.claim, !.owner = w]

\* classifyBound: what a call on window (alpha, beta) may say of the value v.  A
\* bound is the value itself or the edge of the window, and may miss a proof.
Bounds(v, alpha, beta) ==
  {[kind |-> "upper", score |-> s] : s \in {s \in {v.score, alpha} : v.score <= alpha}}
  \cup {[kind |-> "lower", score |-> s] : s \in {s \in {v.score, beta} : v.score >= beta}}

Exact(t) == \/ t.purpose \notin Windowed
            \/ t.alpha < truth[t.candidate].score /\ truth[t.candidate].score < t.beta

\* What follows a bound b with proof a from an aspiration window: the candidate
\* is searched again on the same worker, on a wider window or on the full one.
Widen(w, c, b, a) ==
  LET r     == [rec[c] EXCEPT !.bound = b, !.adverse = a]
      wider == Least(Full, 2 * r.delta)
      asp   == CHOOSE x \in Aspiration : TRUE
      spent == \/ r.attempts >= MaxAttempts
               \/ wider <= r.delta
               \/ asp.center - wider <= -Full /\ asp.center + wider >= Full
      again == IF spent THEN "full" ELSE "aspiration"
  IN /\ rec' = [rec EXCEPT ![c] = IF spent THEN [r EXCEPT !.aspires = FALSE]
                                           ELSE [r EXCEPT !.delta = wider]]
     /\ next' = [worker |-> w, candidate |-> c, purpose |-> again]
     /\ pc' = "dispatch"

\* What follows a bound from a scout: it covers the candidate as things stand
\* now, or the candidate is searched in full on the same worker.
Scouted(w, c, b, a) ==
  LET r == [rec[c] EXCEPT !.bound = b, !.adverse = a] IN
  /\ rec' = [rec EXCEPT ![c] = r]
  /\ IF Covered(c, r) THEN next' = None /\ pc' = "fill"
     ELSE /\ next' = [worker |-> w, candidate |-> c, purpose |-> "threat-research"]
          /\ pc' = "dispatch"

Reply(w, used) ==
  LET t == active[w]
      v == truth[t.candidate]
  IN
  /\ pc = "search" /\ t # None
  /\ Settle(w, used)
  /\ \/ /\ Exact(t)
        /\ rec' = [rec EXCEPT ![t.candidate] = MakeExact(@, w, v)]
        /\ pc' = "fill" /\ UNCHANGED next
     \/ /\ ~ Exact(t)
        /\ \E b \in Bounds(v, t.alpha, t.beta), a \in {v.adverse, FALSE} :
             IF t.purpose = "aspiration" THEN Widen(w, t.candidate, b, a)
                                         ELSE Scouted(w, t.candidate, b, a)
  /\ UNCHANGED <<white, truth, queue, counters, outcome>>

-----------------------------------------------------------------------------
(* ensureFinalCoverage *)

Cover ==
  /\ pc = "cover"
  /\ \/ /\ Incumbent # None /\ Uncovered = {}
        /\ pc' = "decide"
        /\ UNCHANGED <<white, truth, rec, active, queue, next, ledger, counters, outcome>>
     \/ /\ Incumbent # None /\ Uncovered # {}
        /\ queue' = Uncovered /\ pc' = "fill"
        /\ UNCHANGED <<white, truth, rec, active, next, ledger, counters, outcome>>
     \/ /\ Incumbent = None
        /\ LET eligible == {c \in Candidates : Eligible(rec[c])}
               seeds    == {c \in eligible : ~ rec[c].exact}
           IN \/ eligible = {} /\ Fail("frontier-exhausted")
              \/ eligible # {} /\ (seeds = {} \/ Idle = {}) /\ Fail("incumbent-missing")
              \/ /\ seeds # {} /\ Idle # {}
                 /\ next' = [worker |-> First(Idle), candidate |-> First(seeds), purpose |-> "full"]
                 /\ pc' = "dispatch"
                 /\ UNCHANGED <<white, truth, rec, active, queue, ledger, counters, outcome>>

-----------------------------------------------------------------------------
(* The selected candidate: certification by its owner, the safety probe, the *)
(* repair of a rejected line.                                               *)

\* rejectCandidate
Reject(c) ==
  /\ rec' = [rec EXCEPT ![c].rejected = TRUE, ![c].safety = "line-rejected"]
  /\ vetoes' = vetoes + 1
  /\ pc' = "cover"

\* Mutant: the repair that did not hold stays counted.
RejectOnly(c) == Reject(c) /\ UNCHANGED <<repairs, outcome>>

\* A repaired winner that is not certified again is rejected, and its last
\* repair becomes a veto.
Unrepair(c) ==
  IF rec[c].repairs < 1 \/ repairs < 1
  THEN pc' = "abort" /\ error' = "accounting" /\ UNCHANGED <<rec, repairs, vetoes, selected>>
  ELSE /\ rec' = [rec EXCEPT ![c].rejected = TRUE, ![c].safety = "line-rejected",
                             ![c].repairs = @ - 1]
       /\ repairs' = repairs - 1 /\ vetoes' = vetoes + 1
       /\ pc' = "cover" /\ UNCHANGED outcome

Owned(c) == rec[c].owner # None /\ rec[c].owner \in Idle

Decide ==
  LET c == Incumbent
      r == rec[c]
  IN
  /\ pc = "decide"
  /\ \/ r.safety = "found" /\ Fail("widening-required")
     \/ /\ r.safety # "found" /\ r.terminal
        /\ pc' = "finish"
        /\ UNCHANGED <<white, truth, rec, active, queue, next, ledger, counters, outcome>>
     \/ r.safety # "found" /\ ~ r.terminal /\ ~ Owned(c) /\ Fail("owner-unavailable")
     \/ /\ r.safety # "found" /\ ~ r.terminal /\ Owned(c)
        /\ Send(r.owner, c, IF r.proofs = 0 THEN "selected-certification" ELSE "horizon-research")
        /\ pc' = "certify"
        /\ UNCHANGED <<white, truth, queue, next, counters, outcome>>
     \/ /\ r.safety # "found" /\ ~ r.terminal /\ Owned(c) /\ Available = 0
        /\ \/ r.proofs = 0 /\ Fail("work-limit")
           \/ /\ r.proofs > 0 /\ Unrepair(c)
              /\ UNCHANGED <<white, truth, active, queue, next, ledger, rejections>>

\* The value a certification may find for v: v, or a mate score without its proof.
Again(v) == {v} \cup {Value(s, FALSE, TRUE) : s \in {v.score} \cap {1 - Mate, Mate - 1}}

\* certifySelectedOnOwner
Certify(w, used) ==
  LET t == active[w]
      c == t.candidate
  IN
  /\ pc = "certify" /\ t # None
  /\ Settle(w, used)
  /\ \/ /\ \E v \in Again(truth[c]) :
             /\ truth' = [truth EXCEPT ![c] = v]
             /\ rec' = [rec EXCEPT ![c] = MakeExact(@, w, v)]
             /\ pc' = IF v.claim THEN "cover" ELSE "ask"
        /\ UNCHANGED <<repairs, vetoes, outcome>>
     \/ \* the kernel gives no result for the retained proofs
        t.purpose = "horizon-research" /\ Unrepair(c) /\ UNCHANGED truth
  /\ UNCHANGED <<white, queue, next, rejections>>

\* Mutant: a winner the probe cannot be paid for is published without it.
AskIfFunded ==
  LET credit == Least(SafetyCredit, Greatest(0, Remaining)) IN
  /\ pc = "ask"
  /\ \/ /\ credit = 0 /\ pc' = "finish"
        /\ UNCHANGED <<white, truth, rec, active, queue, next, ledger, counters, outcome>>
     \/ /\ credit > 0
        /\ probe' = credit /\ reserved' = reserved + credit
        /\ pc' = "probe"
        /\ UNCHANGED <<white, truth, rec, active, queue, next, committed, safetyCommitted,
                       counters, outcome>>

\* The safety probe is asked, on a reservation that may use the reserve.
Ask ==
  LET credit == Least(SafetyCredit, Greatest(0, Remaining)) IN
  /\ pc = "ask"
  /\ \/ SafetyCredit > 0 /\ credit = 0 /\ Fail("work-limit")
     \/ /\ SafetyCredit = 0 \/ credit > 0
        /\ probe' = credit /\ reserved' = reserved + credit
        /\ pc' = "probe"
        /\ UNCHANGED <<white, truth, rec, active, queue, next, committed, safetyCommitted,
                       counters, outcome>>

\* A rejected line vetoes the candidate, unless it brings a new proof and the
\* candidate may still be repaired.
RejectedLine(c) ==
  /\ rejections' = rejections + 1
  /\ \/ Reject(c)
     \/ /\ rec[c].repairs < MaxRepairs
        /\ rec' = [rec EXCEPT ![c].proofs = @ + 1]
        /\ pc' = "mend" /\ UNCHANGED vetoes

\* Mutant: a candidate with a found reply mate is not told from any other.
OverriddenQuietly(r) == MakeExact(r, r.owner, Lost)

\* A found reply mate overrides the value of the candidate.
Overridden(r) == [MakeExact(r, r.owner, Lost) EXCEPT !.safety = "found"]

Probed(used) ==
  LET c == Incumbent IN
  /\ pc = "probe"
  /\ SettleProbe(used)
  /\ \/ /\ pc' = "abort" /\ error' = "safety-unknown"
        /\ UNCHANGED <<truth, rec, rejections, vetoes, selected>>
     \/ /\ rec' = [rec EXCEPT ![c].safety = "exhausted"] /\ pc' = "finish"
        /\ UNCHANGED <<truth, rejections, vetoes, outcome>>
     \/ RejectedLine(c) /\ UNCHANGED <<truth, outcome>>
     \/ /\ truth' = [truth EXCEPT ![c] = Lost]
        /\ rec' = [rec EXCEPT ![c] = Overridden(@)]
        /\ pc' = "cover" /\ UNCHANGED <<rejections, vetoes, outcome>>
  /\ UNCHANGED <<white, active, queue, next, repairs>>

\* The owner searches the candidate again with the proofs it has collected.
Mend ==
  LET c == Incumbent IN
  /\ pc = "mend"
  /\ \/ ~ Owned(c) /\ Fail("owner-unavailable")
     \/ /\ Owned(c)
        /\ Send(rec[c].owner, c, "horizon-research")
        /\ pc' = "repair"
        /\ UNCHANGED <<white, truth, queue, next, counters, outcome>>
     \/ /\ Owned(c) /\ Available = 0
        /\ Reject(c)
        /\ UNCHANGED <<white, truth, active, queue, next, ledger, rejections, repairs, outcome>>

\* A repaired candidate has a new value, and is certified again.
Mended(r, w, v) == [MakeExact(r, w, v) EXCEPT !.safety = "none", !.repairs = @ + 1]

Repaired(w, used) ==
  LET c == active[w].candidate IN
  /\ pc = "repair" /\ active[w] # None
  /\ Settle(w, used)
  /\ \/ \* no result, or the newest proof was not met
        Reject(c) /\ UNCHANGED <<truth, repairs>>
     \/ /\ \E v \in Values :
             /\ truth' = [truth EXCEPT ![c] = v]
             /\ rec' = [rec EXCEPT ![c] = Mended(@, w, v)]
        /\ repairs' = repairs + 1
        /\ pc' = "cover" /\ UNCHANGED vetoes
  /\ UNCHANGED <<white, queue, next, rejections, outcome>>

-----------------------------------------------------------------------------
(* The end. *)

Finish ==
  /\ pc = "finish"
  /\ \/ Uncovered # {} /\ Fail("coverage-incomplete")
     \/ Uncovered = {} /\ repairs + vetoes # rejections /\ Fail("accounting")
     \/ /\ Uncovered = {} /\ repairs + vetoes = rejections
        /\ selected' = Incumbent /\ pc' = "done"
        /\ UNCHANGED <<white, truth, rec, active, queue, next, ledger, counters, error>>

\* The deadline passes, or the caller aborts.
Cancel == pc \notin {"abort", "done"} /\ Fail("cancelled")

\* A worker, or the safety probe, fails or answers what is not valid.
LoseWorker == pc \in {"search", "certify", "repair"} /\ Busy # {} /\ Fail("worker-lost")
LoseProbe  == pc = "probe" /\ Fail("safety-unknown")

\* Mutant: what the probe had reserved is forgotten.
AbortSearches ==
  /\ pc = "abort"
  /\ \/ /\ \E w \in Busy :
             /\ active' = [active EXCEPT ![w] = None]
             /\ reserved' = reserved - active[w].credit
             /\ committed' = committed + active[w].credit
        /\ UNCHANGED <<white, truth, rec, queue, next, probe, safetyCommitted, counters,
                       pc, outcome>>
     \/ /\ Busy = {} /\ pc' = "done" /\ probe' = None
        /\ UNCHANGED <<white, truth, rec, active, queue, next, reserved, committed,
                       safetyCommitted, counters, outcome>>

\* invalidate: every outstanding reservation is charged in full.
Abort ==
  /\ pc = "abort"
  /\ \/ /\ \E w \in Busy :
             /\ active' = [active EXCEPT ![w] = None]
             /\ reserved' = reserved - active[w].credit
             /\ committed' = committed + active[w].credit
        /\ UNCHANGED <<white, truth, rec, queue, next, probe, safetyCommitted, counters,
                       pc, outcome>>
     \/ /\ Busy = {} /\ probe # None
        /\ SettleProbe(probe)
        /\ UNCHANGED <<white, truth, rec, active, queue, next, counters, pc, outcome>>
     \/ /\ Busy = {} /\ probe = None
        /\ pc' = "done"
        /\ UNCHANGED <<white, truth, rec, active, queue, next, ledger, counters, outcome>>

Next ==
  \/ Start \/ Seed \/ Fill \/ Dispatch \/ Cover \/ Decide \/ Ask \/ Mend \/ Finish
  \/ \E w \in Workers, used \in CallWork : Reply(w, used) \/ Certify(w, used) \/ Repaired(w, used)
  \/ \E used \in CallWork : Probed(used)
  \/ Cancel \/ LoseWorker \/ LoseProbe \/ Abort

Spec     == Init /\ [][Next]_vars
FairSpec == Spec /\ WF_vars(Next)

-----------------------------------------------------------------------------
(* Properties. *)

\* The candidate that is published is the best: whatever the order of the
\* replies, the bounds scouts left behind, the vetoes and the repairs, no
\* candidate that may be selected has a full-window value that precedes the
\* selected one.  Between two immediate mates the first in order is taken.
SelectedIsBest ==
  selected \in Candidates =>
    \A c \in Candidates \ {selected} :
      \/ ~ Eligible(rec[c])
      \/ ~ Precedes(truth[c], Key[c], truth[selected], Key[selected])
      \/ rec[c].terminal /\ rec[c].score = MoverMate(1) /\ selected < c

\* What is published carries a verdict of its own, not one that was passed on
\* an earlier winner: it ends the game, or the probe exhausted its replies; and
\* it is neither vetoed nor a mate score without its proof.
SelectedIsCertified ==
  selected \in Candidates =>
    /\ rec[selected].safety \in {"exhausted", "terminal"}
    /\ ~ rec[selected].rejected
    /\ ~ truth[selected].claim

\* Search never spends what is held for the safety probe, and nothing ever
\* exceeds the work of the request.
SearchSparesSafety == Remaining >= Held

\* The units of work the outstanding search calls hold.
Outstanding ==
  {x \in Workers \X (1 .. SearchCredit) : x[1] \in Busy /\ x[2] <= active[x[1]].credit}

\* The ledger has reserved what the outstanding calls hold, to the unit, and
\* an iteration that is over, however it ended, holds nothing.
LedgerBalanced ==
  /\ reserved = Cardinality(Outstanding) + SafetyReserved
  /\ pc = "done" => reserved = 0

\* The checks the coordinator makes of itself never fail: there is an incumbent
\* when one is needed, its owner is alive and idle, the final coverage is
\* complete, and every rejected line is one repair or one veto.
NoInternalFault == error \notin Faults

\* Every iteration ends.
Termination == <>(pc = "done")
=============================================================================
