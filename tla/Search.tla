------------------------------- MODULE Search --------------------------------
(***************************************************************************)
(* search.py: one call of ProgressiveSearcher.run.  Iterative deepening    *)
(* over complete series, each depth a loop of root passes: a pass scores   *)
(* the root candidates, then its winner must survive the safety lanes,     *)
(* which may override, repair or veto it and start another pass.           *)
(*                                                                         *)
(* What a child's search answers (_minimax), the frontiers, the mates and  *)
(* the adjudications are parameters here: SearchValues computes them.  A   *)
(* child's search is one step: nothing of a search that was stopped in the *)
(* middle is used again.  A deadline or a work limit may stop the call at  *)
(* any of its polls.  The native solvers (outside src/'s Python, with      *)
(* their lines replayed) answer truly or not at all.                       *)
(***************************************************************************)
EXTENDS Series

CONSTANTS
  Frontiers(_, _, _), \* a boundary's series with a required prefix and a cap, in order,
                  \* and whether they are all of them
  MatingSeries,   \* boundary -> a series of the mover that mates, or None
  Ladders,        \* boundaries from which the mover has a single-reply mate ladder
  Quiet,          \* boundary -> quiet_adjudication_status
  Seed(_, _),     \* the series reserved before the root frontier is generated
  Minimax(_, _, _, _, _, _, _),
  Probed(_, _, _, _, _, _, _, _),
  MateBand,
  MateNowSeries,  \* ROOT_CURRENT_SERIES_MATE_MIN_SERIES
  LadderSeries,   \* SELECTED_ROOT_SINGLE_REPLY_LADDER_MIN_CHILD_SERIES
  WidenSeries     \* ROOT_ALL_MATING_WIDEN_MAX_SERIES

\* The frontiers that the root of a call is searched with, and their series.
Asked(c) ==
  {Frontiers(c.root, c.prefix, c.cap), Frontiers(c.root, c.prefix, WideCap),
   Frontiers(c.root, <<>>, RescueCap)}
Lines(c) == UNION {Range(f.series) : f \in Asked(c)}
FrontiersOf(c) == [series : Seq(Lines(c)), complete : BOOLEAN]

\* Generation merges what is the same and numbers nothing twice, and the same moves lead
\* to the same boundary (_merged_series_generation, play_series).
ASSUME SearchAssumption ==
  \A c \in Calls :
    /\ Asked(c) \subseteq FrontiersOf(c)
    /\ None \notin FrontiersOf(c)
    /\ \A f \in Asked(c) : \A i, j \in DOMAIN f.series : f.series[i] = f.series[j] => i = j
    /\ \A r, t \in Lines(c) : r.moves = t.moves => r = t

-----------------------------------------------------------------------------
(* The root's candidates, their order and the claims that may be published. *)

Scored(r, score, pv, bounds) == [series |-> r, score |-> score, pv |-> pv, bounds |-> bounds]
Adverse(side, c) == c.bounds = <<-Wins(side), -Wins(side)>>

\* The better score, or the earlier moves.
Outranks(side, x, y) ==
  \/ Better2(side, x.score, y.score)
  \/ x.score = y.score /\ Before(x.series.moves, y.series.moves)
RootOrder(side, scored) ==
  Sorted(scored, {p \in scored \X scored : Outranks(side, p[1], p[2])})

\* _proof_safe_root_order: a proven loss is last, unless all are.
Losses(side, scored) ==
  LET lost == {c \in scored : Adverse(side, c)} IN IF lost = scored THEN {} ELSE lost
ProofSafe(side, lost, x, y) ==
  \/ x \notin lost /\ y \in lost
  \/ (x \in lost <=> y \in lost) /\ Outranks(side, x, y)
ProofSafeOrder(side, scored) ==
  LET lost == Losses(side, scored)
  IN Sorted(scored, {p \in scored \X scored : ProofSafe(side, lost, p[1], p[2])})

\* f with v at s.
Put(f, s, v) == [x \in {s} \cup DOMAIN f |-> IF x = s THEN v ELSE f[x]]

\* A series and the line that follows it.
Led(r, line) ==
  [i \in {1} \cup {j + 1 : j \in DOMAIN line} |-> IF i = 1 THEN r ELSE line[i - 1]]

\* _root_candidate_has_publishable_mate_claim: a mate score needs its own proof.
MateScored(score) == score >= MateScore - MateBand \/ score <= MateBand - MateScore
Publishable(side, c) ==
  \/ ~MateScored(c.score)
  \/ c.series.outcome = "checkmate" /\ c.score = TerminalScore(c.series, side, 1)
  \/ /\ c.series.outcome = None
     /\ c.bounds = (IF c.score > 0 THEN <<1, 1>> ELSE <<-1, -1>>)

ProofFrom(bounds) ==
  IF bounds[1] # bounds[2] THEN None
  ELSE CASE bounds[1] = 1 -> "white" [] bounds[1] = 0 -> "draw" [] OTHER -> "black"

-----------------------------------------------------------------------------
VARIABLES
  call,        \* the arguments of run
  pc,          \* where the call is
  depth,       \* the iterative depth
  mem,         \* _tt, _selective, the tables of repairs, and the children known to be
               \* mated (_root_child_proven_mate_keys) or on a ladder
  screened,    \* boundary -> its mate, or None if exactly none: the root child caches
  pass,        \* the root pass under way
  evidence,    \* the local state of _search_root
  vetoed,      \* _selected_pv_root_vetoes
  quarantined, \* _root_mate_claim_quarantines
  emergency,   \* _root_mate_claim_emergency_fallback
  winner,      \* what a pass or the widening returned
  lane,        \* the widening of an all-mating root, or the rescue of a mated selection
  stop,        \* the exception _search_root raised
  report,      \* run's local results, published when pc is "done"
  spared,      \* _selected_root_ladder_emergency_fallback
  mateNow      \* _root_widened_terminal_series
vars == <<call, pc, depth, mem, screened, pass, evidence, vetoed, quarantined, emergency,
          winner, lane, stop, report, spared, mateNow>>

root == call.root
side0 == Side(root.number)
Ctx(proven) == [cap |-> call.cap, requested |-> call.depth, proven |-> proven]
Nowhere == [x \in {} |-> None]
Excluded == evidence.vetoes \cup vetoed \cup quarantined

NoWinner == [score |-> Static[root.at], pv |-> <<>>, alternatives |-> <<>>, proof |-> None]
OnlyMove(r) == [NoWinner EXCEPT !.pv = <<r>>]

FreshEvidence ==
  [overrides |-> Nowhere, repaired |-> Nowhere, repairs |-> {}, vetoes |-> {},
   ladders |-> Nowhere, widened |-> None, exhausted |-> None, unknown |-> None, spare |-> None]

Init ==
  /\ call \in Calls
  /\ pc = "adjudicate" /\ depth = 0
  /\ mem = [tt |-> Nowhere, spaces |-> Nowhere, met |-> {}, selective |-> FALSE,
            mated |-> {}, laddered |-> {}]
  /\ screened = Nowhere /\ pass = None /\ lane = None /\ stop = None
  /\ evidence = FreshEvidence /\ vetoed = {} /\ quarantined = {} /\ emergency = None
  /\ winner = NoWinner
  /\ report = [best |-> NoWinner, completed |-> 0, complete |-> TRUE, kept |-> FALSE,
               timedOut |-> FALSE, workLimit |-> FALSE, adjudication |-> None]
  /\ spared = None /\ mateNow = None

-----------------------------------------------------------------------------
(* run, before the first depth. *)

PublishNothing(adjudication, proof) ==
  /\ pc' = "done"
  /\ report' = [report EXCEPT !.best = [NoWinner EXCEPT !.proof = proof, !.score = 0],
                  !.adjudication = adjudication, !.complete = (proof = "draw")]

Adjudicate ==
  /\ pc = "adjudicate"
  /\ \/ /\ root.quiet >= 10 /\ pc' = "done"
        /\ report' = [report EXCEPT !.timedOut = TRUE, !.complete = FALSE]
        /\ UNCHANGED <<depth, mem, mateNow>>
     \/ /\ Quiet[root] = "proven_draw" /\ PublishNothing("proven_draw", "draw")
        /\ UNCHANGED <<depth, mem, mateNow>>
     \/ /\ Quiet[root] = "manual_proof_required" /\ PublishNothing("manual_proof_required", None)
        /\ UNCHANGED <<depth, mem, mateNow>>
     \/ /\ Quiet[root] \notin {"proven_draw", "manual_proof_required"}
        /\ pc' = "depth" /\ depth' = 1 /\ UNCHANGED report
        \* _root_current_series_mate
        /\ \/ UNCHANGED <<mateNow, mem>>
           \/ /\ ~call.all /\ call.prefix = <<>> /\ root.number >= MateNowSeries
              /\ MatingSeries[root] # None
              /\ mateNow' = MatingSeries[root] /\ mem' = [mem EXCEPT !.selective = TRUE]
  /\ UNCHANGED <<call, screened, pass, evidence, vetoed, quarantined, emergency, winner,
                 lane, stop, spared>>

-----------------------------------------------------------------------------
(* _search_root: the loop of passes of one depth. *)

EnterDepth ==
  /\ pc = "depth"
  /\ vetoed' = {} /\ quarantined' = {} /\ emergency' = None /\ evidence' = FreshEvidence
  /\ IF mateNow = None
     THEN pc' = "pass" /\ UNCHANGED <<winner, report>>
     ELSE LET c == Scored(mateNow, TerminalScore(mateNow, side0, 1), <<>>,
                          TerminalBounds(mateNow, side0)) IN
          /\ winner' = [score |-> c.score, pv |-> <<mateNow>>, alternatives |-> <<c>>,
                        proof |-> ProofFrom(c.bounds)]
          /\ report' = [report EXCEPT !.complete = FALSE]
          /\ pc' = "accept"
  /\ UNCHANGED <<call, depth, mem, screened, pass, lane, stop, spared, mateNow>>

\* Raising an exception of _search_root.
Raised(kind, scored, cause, fallback) ==
  /\ pc' = "stopped"
  /\ stop' = [kind |-> kind, scored |-> scored, cause |-> cause, fallback |-> fallback]

\* _root_safety_fallback: the first safe child, or the first that is not known to lose.
SafetyFallback(candidates, excluded) ==
  LET fit == Among(candidates, {r \in Range(candidates) :
                 /\ r # None /\ r.outcome = None
                 /\ r.moves \notin excluded /\ r.final \notin mem.mated})
      safe == Among(fit, {r \in Range(fit) : r.final \in DOMAIN screened})
  IN IF safe # <<>> THEN safe[1] ELSE IF fit # <<>> THEN fit[1] ELSE None
FirstAllowed(side, scored) ==
  LET open == {c \in scored : c.series.moves \notin Excluded}
      order == Among(ProofSafeOrder(side, scored), open)
  IN IF order = <<>> THEN None ELSE order[1].series

\* A cap that a wider reply screen would exceed needs that screen.
ScreenRequired == call.cap # None /\ call.cap < WideCap
Plain == evidence.repairs = {} /\ evidence.vetoes = {} /\ quarantined = {}

\* The handlers of a pass that was stopped: nothing it scored is kept once a candidate
\* was rejected.
Failed(cause) ==
  IF evidence.vetoes = {} /\ emergency # None THEN Raised("claims", {}, cause, emergency)
  ELSE Raised("raw", {}, cause, None)
PassInterrupted(scored, cause, fallback) ==
  LET first == FirstAllowed(side0, scored)
      rejected == evidence.vetoes # {} \/ quarantined # {}
      kept == SafetyFallback(
                IF rejected
                THEN <<first, fallback, evidence.spare, evidence.exhausted, evidence.unknown>>
                ELSE <<first, evidence.exhausted, evidence.unknown, evidence.spare, fallback>>,
                Excluded) IN
  CASE Plain /\ ~ScreenRequired -> Raised("interrupted", scored, cause, fallback)
    [] ~(Plain /\ ~ScreenRequired) /\ kept # None -> Raised("interrupted", {}, cause, kept)
    [] ~(Plain /\ ~ScreenRequired) /\ kept = None ->
         IF rejected THEN Failed(cause) ELSE Raised("raw", {}, cause, None)
PassFailed(cause) ==
  LET kept == SafetyFallback(<<evidence.exhausted, evidence.unknown, evidence.spare>>, Excluded)
  IN IF (evidence.vetoes # {} /\ quarantined = {}) \/ (Plain /\ ~ScreenRequired)
     THEN Raised("raw", {}, cause, None)
     ELSE IF kept # None THEN Raised("interrupted", {}, cause, kept) ELSE Failed(cause)

-----------------------------------------------------------------------------
(* _search_root_pass: the candidates one by one. *)

full == [low |-> Worst("white"), high |-> Worst("black")]
\* The root frontier, the best series of the depth before first.
LeadingBest(known) ==
  IF report.completed = 0 \/ report.best.pv = <<>> THEN known
  ELSE [known EXCEPT !.series = Prefer(@, report.best.pv[1].moves)]
Frontier0 ==
  IF evidence.widened # None THEN evidence.widened
  ELSE LeadingBest(Frontiers(root, call.prefix, call.cap))

\* Mutant: rejected candidates are searched again.
EveryCandidate(series) == series

Unexcluded(series) == Among(series, {r \in Range(series) : r.moves \notin Excluded})

Enter(frontier, series) ==
  /\ mem' = [mem EXCEPT !.selective = \/ @ \/ Excluded # {}
                                      \/ evidence.widened = None /\ ~frontier.complete]
  /\ IF series = <<>> THEN /\ pc' = "empty" /\ winner' = NoWinner
                           /\ report' = [report EXCEPT !.complete = FALSE]
                           /\ UNCHANGED pass
     ELSE /\ pc' = "scan" /\ UNCHANGED <<winner, report>>
          /\ pass' = [series |-> series, rest |-> series, complete |-> frontier.complete,
                      scored |-> {}, window |-> full, prior |-> FALSE]
EnterWith(frontier) == Enter(frontier, Unexcluded(frontier.series))
StartPass ==
  /\ pc = "pass" /\ EnterWith(Frontier0)
  /\ UNCHANGED <<call, depth, screened, evidence, vetoed, quarantined, emergency, lane, stop,
                 spared, mateNow>>

\* A work limit during generation leaves the reserved seed.
InterruptFrontier ==
  /\ pc = "pass" /\ evidence.widened = None
  /\ \/ \E cause \in {"time", "work"} : PassFailed(cause)
     \/ PassInterrupted({}, "work", Seed(root, call.prefix))
  /\ UNCHANGED <<call, depth, mem, screened, pass, evidence, vetoed, quarantined, emergency,
                 winner, lane, report, spared, mateNow>>

\* A repaired candidate, a reply known to mate, a terminal, or a search.
Overridden(r) == r.outcome = None /\ r.final \in DOMAIN evidence.overrides
Settled(r) == r.moves \in DOMAIN evidence.repaired \/ Overridden(r)
\* _search_root_child_with_pvs
RootChild(s, d, window, prior) ==
  IF prior /\ d >= 2 /\ window.high - window.low > 1
  THEN Probed(Ctx(Nowhere), s, d, window.low, window.high, 1, side0, mem)
  ELSE Minimax(Ctx(Nowhere), s, d, window.low, window.high, 1, mem)
ValueOf(r) ==
  LET window == IF call.all THEN full ELSE pass.window
      mate == evidence.overrides[r.final]
      known == evidence.repaired[r.moves]
      prior == ~call.all /\ depth = call.depth /\ pass.prior
  IN CASE r.moves \in DOMAIN evidence.repaired ->
            Answer(known.score, known.pv, known.bounds, mem)
       [] r.moves \notin DOMAIN evidence.repaired /\ r.outcome # None ->
            Terminal(r, side0, 1, mem)
       [] r.moves \notin DOMAIN evidence.repaired /\ Overridden(r) ->
            [Terminal(mate, Side(r.final.number), 2, mem) EXCEPT !.pv = <<mate>>]
       [] ~Settled(r) /\ r.outcome = None ->
            RootChild(r.final, depth - 1, window, prior)
Exact(r, child) ==
  \/ Settled(r) \/ r.outcome # None \/ call.all
  \/ pass.window.low < child.score /\ child.score < pass.window.high
\* Mutant: a bound equal to the best score is left at that.
NeverTies(r, child) == FALSE

\* A bound equal to the best score may hide an equal move that is earlier.
MayTie(r, child) ==
  /\ ~child.pending /\ ~Exact(r, child) /\ pass.scored # {}
  /\ LET best == ProofSafeOrder(side0, pass.scored)[1] IN
     child.score = best.score /\ Before(r.moves, best.series.moves)

\* move_only_fallback
MoveOnlyFallback ==
  LET scored == FirstAllowed(side0, pass.scored)
      open == Unexcluded(pass.series) IN
  IF scored # None THEN scored ELSE IF open # <<>> THEN open[1] ELSE pass.series[1]

\* _quarantine_root_mate_claim
Quarantine(r) ==
  /\ quarantined' = quarantined \cup {r.moves}
  /\ emergency' = IF emergency = None THEN r ELSE emergency
  /\ report' = [report EXCEPT !.complete = FALSE]

DecisiveWin(child) ==
  /\ child.score = Wins(side0) * (MateScore - 1)
  /\ child.bounds = <<Wins(side0), Wins(side0)>>
Take(r, child, exact, c) ==
  LET counts == exact /\ ~Adverse(side0, c)
      ends == ~Settled(r) /\ ~call.on /\ DecisiveWin(child)
  IN IF child.pending
     THEN /\ Raised("rootpending", {}, None, MoveOnlyFallback)
          /\ report' = [report EXCEPT !.complete = FALSE]
          /\ mem' = child.mem /\ UNCHANGED <<pass, quarantined, emergency>>
     ELSE IF exact /\ ~Publishable(side0, c)
     THEN /\ Quarantine(r) /\ mem' = [child.mem EXCEPT !.selective = TRUE]
          /\ pass' = [pass EXCEPT !.rest = Tail(@)] /\ UNCHANGED <<pc, stop>>
     ELSE /\ mem' = child.mem
          /\ pass' = [pass EXCEPT !.rest = IF ends THEN <<>> ELSE Tail(@),
                        !.scored = IF exact THEN @ \cup {c} ELSE @,
                        !.prior = @ \/ counts,
                        !.window = IF counts
                                   THEN [low |-> Raise(side0, @.low, c.score),
                                         high |-> Lower(side0, @.high, c.score)] ELSE @]
          /\ UNCHANGED <<pc, stop, quarantined, emergency, report>>
TakeValue(r, child, exact) == Take(r, child, exact, Scored(r, child.score, child.pv, child.bounds))
\* A tie is searched again with an open window.
Tied(r, first, again) ==
  TakeValue(r, IF again
               THEN Minimax(Ctx(Nowhere), r.final, depth - 1, full.low, full.high, 1, first.mem)
               ELSE first,
            again \/ Exact(r, first))
Valued(r, first) == Tied(r, first, MayTie(r, first))
ScoreCandidate ==
  /\ pc = "scan" /\ pass.rest # <<>>
  /\ Valued(Head(pass.rest), ValueOf(Head(pass.rest)))
  /\ UNCHANGED <<call, depth, screened, evidence, vetoed, winner, lane, spared, mateNow>>

InterruptPass ==
  /\ pc = "scan" /\ pass.rest # <<>>
  /\ \E cause \in {"time", "work"} : PassInterrupted(pass.scored, cause, MoveOnlyFallback)
  /\ UNCHANGED <<call, depth, mem, screened, pass, evidence, vetoed, quarantined, emergency,
                 winner, lane, report, spared, mateNow>>

WinnerOf(order, proof) ==
  [score |-> order[1].score, pv |-> Led(order[1].series, order[1].pv),
   alternatives |-> order, proof |-> proof]
EndPass ==
  /\ pc = "scan" /\ pass.rest = <<>>
  /\ LET all == evidence.vetoes = {} /\ quarantined = {}
                  /\ Cardinality(pass.scored) = Len(pass.series)
         bounds == CombineProofBounds(side0, {c.bounds : c \in pass.scored}, all /\ pass.complete)
     IN /\ report' = [report EXCEPT !.complete = all]
        /\ IF pass.scored = {} THEN winner' = NoWinner /\ pc' = "empty"
           ELSE /\ winner' = WinnerOf(ProofSafeOrder(side0, pass.scored), ProofFrom(bounds))
                /\ pc' = "winner"
  /\ UNCHANGED <<call, depth, mem, screened, pass, evidence, vetoed, quarantined, emergency,
                 lane, stop, spared, mateNow>>

-----------------------------------------------------------------------------
(* _search_root, after a pass that selected nothing. *)

LadderOnly ==
  evidence.vetoes = DOMAIN evidence.ladders /\ quarantined = {} /\ call.prefix = <<>>
WideFrontier == Frontiers(root, call.prefix, WideCap)
Without2(wide, excluded) ==
  [series |-> Among(wide.series, {r \in Range(wide.series) : r.moves \notin excluded}),
   complete |-> wide.complete /\ excluded = {}]
Widened(wide, open) ==
  /\ evidence' = [evidence EXCEPT !.widened = open]
  /\ pc' = IF open.series # <<>> THEN "pass" ELSE "empty"
  /\ mem' = [mem EXCEPT !.selective = @ \/ ~wide.complete]
  /\ UNCHANGED stop
WidenTo(wide) == Widened(wide, Without2(wide, IF LadderOnly THEN {} ELSE Excluded))

WidenFrontier ==
  /\ pc = "empty" /\ evidence.vetoes # {} /\ evidence.widened = None
  /\ \/ WidenTo(WideFrontier)
     \/ \E cause \in {"time", "work"} : Raised("raw", {}, cause, None) /\ UNCHANGED <<evidence, mem>>
  /\ UNCHANGED <<call, depth, screened, pass, vetoed, quarantined, emergency, winner, lane,
                 report, spared, mateNow>>

NothingLeft ==
  /\ pc = "empty" /\ (evidence.vetoes = {} \/ evidence.widened # None)
  /\ CASE evidence.vetoes # {} ->
            IF LadderOnly /\ evidence.widened.complete
            THEN Raised("ladder", {}, None, ProofSafeOrder(side0, Range(evidence.ladders))[1].series)
            ELSE Raised("exhausted", {}, None, None)
       [] evidence.vetoes = {} /\ quarantined # {} -> Raised("claims", {}, None, emergency)
       [] evidence.vetoes = {} /\ quarantined = {} -> pc' = "accept" /\ UNCHANGED stop
  /\ report' = IF Excluded # {} THEN [report EXCEPT !.complete = FALSE] ELSE report
  /\ UNCHANGED <<call, depth, mem, screened, pass, evidence, vetoed, quarantined, emergency,
                 winner, lane, spared, mateNow>>

-----------------------------------------------------------------------------
(* _search_root: the winner of a pass goes through the safety lanes. *)

selected == winner.pv[1]
child == selected.final
notation == selected.moves
\* _selected_root_has_publishable_mate_claim
ClaimOk(w) ==
  LET own == {c \in Range(w.alternatives) : c.series = w.pv[1] /\ c.score = w.score} IN
  Publishable(side0, Scored(w.pv[1], w.score, <<>>,
                            IF own = {} THEN Unknown ELSE (CHOOSE c \in own : TRUE).bounds))
Candidate ==
  LET own == {c \in Range(winner.alternatives) : c.series = selected} IN
  IF own = {} THEN Scored(selected, winner.score, Tail(winner.pv), Unknown)
  ELSE CHOOSE c \in own : TRUE
\* What remains of the fallbacks when a candidate is rejected.
Forget(e, r) == [e EXCEPT !.exhausted = IF @ # None /\ @.moves = r THEN None ELSE @,
                          !.unknown = IF @ # None /\ @.moves = r THEN None ELSE @]

\* What a mate probe may answer: what is known, the truth, or that it was stopped.
Truth(s) == IF MatingSeries[s] = None THEN "exhausted" ELSE "found"
Answers(s) ==
  IF s \in DOMAIN screened THEN {IF screened[s] = None THEN "exhausted" ELSE "found"}
  ELSE {Truth(s), "time", "work"}
Learned(known, s, answer) ==
  IF s \in DOMAIN known \/ answer \in {"time", "work"} THEN known
  ELSE Put(known, s, IF answer = "found" THEN MatingSeries[s] ELSE None)
MarkMated(m, s, answer) == IF answer = "found" THEN [m EXCEPT !.mated = @ \cup {s}] ELSE m

AllMated ==
  \A c \in Range(winner.alternatives) :
    c.series.outcome = None /\ (c.series.final \in mem.mated \/ Adverse(side0, c))
\* quarantine_unproved_mate_claim, when the claim of w is not its own proof.
RejectClaim(w) ==
  LET spares == Among(w.alternatives,
                      {c \in Range(w.alternatives) : c.series.moves \notin quarantined'}) IN
  /\ Quarantine(w.pv[1])
  /\ evidence' = [evidence EXCEPT !.spare = IF spares = <<>> THEN @ ELSE spares[1].series]
  /\ pc' = "pass" /\ winner' = w

\* The last boundary that was screened, and the last that is not known.
Noted ==
  IF child \in DOMAIN screened /\ screened[child] = None
  THEN [evidence EXCEPT !.exhausted = selected]
  ELSE IF child \notin mem.mated THEN [evidence EXCEPT !.unknown = selected] ELSE evidence

Judge ==
  /\ pc = "winner"
  /\ IF ~ClaimOk(winner)
     THEN RejectClaim(winner) /\ mem' = [mem EXCEPT !.selective = TRUE] /\ UNCHANGED vetoed
     ELSE IF selected.outcome # None
     THEN /\ pc' = "accept" /\ vetoed' = vetoed \ {notation}
          /\ UNCHANGED <<evidence, winner, mem, quarantined, emergency, report>>
     ELSE IF ~ScreenRequired
     THEN /\ pc' = "ladder"
          /\ UNCHANGED <<evidence, winner, mem, vetoed, quarantined, emergency, report>>
     ELSE LET overridden == child \in DOMAIN evidence.overrides
              stands == overridden /\ AllMated /\ root.number > WidenSeries IN
          /\ evidence' = Noted
          /\ pc' = IF ~overridden THEN "screen"
                   ELSE IF AllMated /\ ~stands THEN "widen" ELSE "accept"
          /\ winner' = IF stands THEN [winner EXCEPT !.proof = None] ELSE winner
          /\ mem' = IF stands THEN [mem EXCEPT !.selective = TRUE] ELSE mem
          /\ UNCHANGED <<vetoed, quarantined, emergency, report>>
  /\ UNCHANGED <<call, depth, screened, pass, lane, stop, spared, mateNow>>

\* _root_child_immediate_mate.  A reply that mates is already in the line, or is looked for.
Screen ==
  /\ pc = "screen"
  /\ LET shown == Len(winner.pv) > 1 /\ Mating(winner.pv[2]) IN
     \E answer \in IF shown THEN {"found"} ELSE Answers(child) :
       LET known == IF shown THEN screened ELSE Learned(screened, child, answer)
           mate == IF shown THEN winner.pv[2] ELSE known[child]
           kept == SafetyFallback(<<evidence.exhausted, selected, evidence.unknown>>, Excluded)
       IN /\ screened' = known
          /\ mem' = MarkMated(mem, child, answer)
          /\ \/ /\ answer = "found"
                /\ evidence' = [evidence EXCEPT !.overrides = Put(@, child, mate),
                     !.unknown = IF @ # None /\ @.final = child THEN None ELSE @]
                /\ pc' = "pass" /\ UNCHANGED stop
             \/ /\ answer = "exhausted"
                /\ evidence' = [evidence EXCEPT !.exhausted = selected]
                /\ pc' = "ladder" /\ UNCHANGED stop
             \/ /\ answer \in {"time", "work"}
                /\ IF kept = None THEN Raised("raw", {}, answer, None)
                   ELSE Raised("interrupted", {}, answer, kept)
                /\ UNCHANGED evidence
  /\ UNCHANGED <<call, depth, pass, vetoed, quarantined, emergency, winner, lane, report, spared,
                 mateNow>>

\* _selected_root_single_reply_ladder_required and _probe: only after an exact miss.
LadderRequired(s) ==
  s.number >= LadderSeries /\ s \in DOMAIN screened /\ screened[s] = None
LadderAnswers(s) ==
  IF ~LadderRequired(s) THEN {FALSE}
  ELSE IF s \in mem.laddered THEN {TRUE} ELSE {FALSE, (s \in Ladders)}

Ladder ==
  /\ pc = "ladder"
  /\ \E losing \in LadderAnswers(child) :
       IF losing
       THEN /\ evidence' = [Forget(evidence, notation) EXCEPT !.vetoes = @ \cup {notation},
                              !.ladders = Put(@, notation, Candidate)]
            /\ vetoed' = vetoed \cup {notation}
            /\ mem' = [mem EXCEPT !.selective = TRUE, !.laddered = @ \cup {child}]
            /\ pc' = "pass"
       ELSE /\ IF ScreenRequired /\ Len(winner.pv) = 1
               THEN pc' = "accept" /\ vetoed' = vetoed \ {notation}
               ELSE pc' = "certify" /\ UNCHANGED vetoed
            /\ UNCHANGED <<evidence, mem>>
  /\ UNCHANGED <<call, depth, screened, pass, quarantined, emergency, winner, lane, stop, report,
                 spared, mateNow>>

-----------------------------------------------------------------------------
(* selected_pv_horizon.py: every boundary of the line with the opponent to move. *)

Boundaries ==
  {i \in DOMAIN winner.pv : /\ winner.pv[i].outcome = None
                            /\ Side(winner.pv[i].final.number) # side0}
At(i) == winner.pv[i].final
Remembered == {i \in Boundaries : At(i) \in DOMAIN screened /\ screened[At(i)] # None}
Open == {i \in Boundaries : At(i) \notin DOMAIN screened}
\* Probes run from the leaf; those beyond i found nothing.
Missed(i) == {j \in Open : j > i}
NoneBeyond(i) == \A j \in Missed(i) : MatingSeries[At(j)] = None
AfterMisses(i) ==
  LET missed == {At(j) : j \in Missed(i)}
  IN [s \in missed \cup DOMAIN screened |-> IF s \in missed THEN None ELSE screened[s]]

Certified ==
  /\ Remembered = {} /\ NoneBeyond(0)
  /\ screened' = AfterMisses(0) /\ vetoed' = vetoed \ {notation}
  /\ pc' = "accept" /\ UNCHANGED <<evidence, mem, lane, stop>>

\* observe_horizon_proof: a first proof is repaired around, a second one is a veto.
Refuted(i, mate) ==
  IF notation \in evidence.repairs
  THEN /\ evidence' = [Forget(evidence, notation) EXCEPT !.vetoes = @ \cup {notation},
            !.repaired = [m \in DOMAIN @ \ {notation} |-> @[m]]]
       /\ pc' = "pass" /\ UNCHANGED lane
  ELSE /\ pc' = "repair" /\ lane' = [path |-> SubSeq(winner.pv, 1, i), mate |-> mate]
       /\ UNCHANGED evidence
Refutes(i) ==
  \/ i \in Remembered /\ \A j \in Remembered : j <= i
  \/ Remembered = {} /\ i \in Open /\ MatingSeries[At(i)] # None /\ NoneBeyond(i)
MateAt(i) ==
  LET known == IF Remembered # {} THEN screened ELSE Learned(AfterMisses(i), At(i), "found") IN
  /\ screened' = known
  /\ mem' = [MarkMated(mem, At(i), "found") EXCEPT !.selective = @ \/ notation \in evidence.repairs]
  /\ Refuted(i, known[At(i)])
  /\ vetoed' = vetoed \cup {notation} /\ UNCHANGED stop
FoundMate == \E i \in Boundaries : Refutes(i) /\ MateAt(i)
ProbeStopped ==
  \E i \in Open, cause \in {"time", "work"} :
    /\ Remembered = {} /\ NoneBeyond(i)
    /\ screened' = AfterMisses(i)
    /\ IF evidence.vetoes # {} THEN Raised("interrupted", {}, cause, selected)
       ELSE Raised("raw", {}, cause, None)
    /\ UNCHANGED <<evidence, mem, lane, vetoed>>
Certify ==
  /\ pc = "certify"
  /\ Certified \/ FoundMate \/ ProbeStopped
  /\ UNCHANGED <<call, depth, pass, quarantined, emergency, winner, report, spared, mateNow>>

\* _repair_selected_root: the candidate again, its refuted leaf worth the mate; the table
\* of these proofs is kept apart.
RepairStopped(kind, cause) ==
  LET others == Among(winner.alternatives,
                      {c \in Range(winner.alternatives) : c.series.moves # notation})
      kept == SafetyFallback([i \in DOMAIN others |-> others[i].series]
                               \o <<evidence.exhausted, evidence.unknown>>,
                             Excluded \cup {notation})
  IN IF kind = "rootpending" \/ kept # None THEN Raised(kind, {}, cause, kept)
     ELSE Raised("raw", {}, cause, None)
Repaired(leaf, space, again) ==
  \/ /\ ~again.pending /\ leaf \in again.mem.met
     /\ mem' = [again.mem EXCEPT !.tt = mem.tt, !.met = {},
                                 !.spaces = Put(@, space, again.mem.tt)]
     /\ evidence' = [evidence EXCEPT !.repairs = @ \cup {notation},
          !.repaired = Put(@, notation, Scored(selected, again.score, again.pv, again.bounds))]
     /\ vetoed' = vetoed \ {notation}
     /\ pc' = "pass" /\ UNCHANGED stop
  \/ /\ IF again.pending THEN RepairStopped("rootpending", None)
        ELSE \E cause \in {"time", "work"} : RepairStopped("interrupted", cause)
     /\ mem' = [again.mem EXCEPT !.tt = mem.tt, !.met = {}]
     /\ UNCHANGED <<evidence, vetoed>>
Repair ==
  /\ pc = "repair" /\ lane' = None
  /\ LET leaf == Last(lane.path).final
         space == <<notation, lane>>
         table == IF space \in DOMAIN mem.spaces THEN mem.spaces[space] ELSE Nowhere IN
     Repaired(leaf, space,
              Minimax(Ctx(Put(Nowhere, leaf, lane.mate)), child, depth - 1, full.low, full.high,
                      1, [mem EXCEPT !.tt = table, !.met = {}]))
  /\ UNCHANGED <<call, depth, screened, pass, quarantined, emergency, winner, report, spared,
                 mateNow>>

-----------------------------------------------------------------------------
(* _root_all_mating_widening: every retained child is mated; is there any other? *)

Decides(r) ==
  r.outcome # None /\ TerminalScore(r, side0, 1) = Wins(side0) * (MateScore - 1)
WidenWithMate(c) ==
  /\ winner' = WinnerOf(<<c>>, ProofFrom(c.bounds))
  /\ mateNow' = c.series /\ report' = [report EXCEPT !.complete = FALSE]
  /\ pc' = "accept" /\ UNCHANGED <<lane, stop>>
WidenOver(wide, mates) ==
  LET kept == {c \in Range(winner.alternatives) : c.series.moves \notin Excluded} IN
  \/ /\ mates # <<>>
     /\ WidenWithMate(Scored(mates[1], TerminalScore(mates[1], side0, 1), <<>>,
                             TerminalBounds(mates[1], side0)))
  \/ /\ mates = <<>> /\ pc' = "widening"
     /\ lane' = [rest |-> wide, all |-> wide, retained |-> {c.series.final : c \in kept},
                 safe |-> {}, adverse |-> {c \in kept : Adverse(side0, c)},
                 unknown |-> None, unscored |-> None, cause |-> None]
     /\ UNCHANGED <<winner, mateNow, report, stop>>
  \/ /\ \E cause \in {"time", "work"} : Raised("raw", {}, cause, None)
     /\ UNCHANGED <<winner, mateNow, report, lane>>
WidenAmong(wide) == WidenOver(wide, Among(wide, {r \in Range(wide) : Decides(r)}))
StartWidening ==
  /\ pc = "widen" /\ WidenAmong(Unexcluded(WideFrontier.series))
  /\ mem' = [mem EXCEPT !.selective = TRUE]
  /\ UNCHANGED <<call, depth, screened, pass, evidence, vetoed, quarantined, emergency, spared>>

\* One candidate; a stop ends the screening, a work limit perhaps only this screen.
Broken(l, cause) == [l EXCEPT !.rest = <<>>, !.cause = cause]
FirstOf(old, new) == IF old = None THEN new ELSE old
WidenTerminal(r) ==
  /\ r.outcome # None
  /\ lane' = [lane EXCEPT !.rest = Tail(@),
                !.safe = IF r.outcome = "checkmate" THEN @
                         ELSE @ \cup {Scored(r, 0, <<>>, Unknown)}]
  /\ UNCHANGED <<pc, stop, mem, screened, quarantined, emergency, report>>
WidenKnown(r) ==
  /\ r.outcome = None /\ r.final \in lane.retained
  /\ lane' = [lane EXCEPT !.rest = Tail(@)]
  /\ UNCHANGED <<pc, stop, mem, screened, quarantined, emergency, report>>
WidenMated(r) ==
  /\ r.outcome = None /\ r.final \notin lane.retained /\ "found" \in Answers(r.final)
  /\ screened' = Learned(screened, r.final, "found")
  /\ mem' = MarkMated(mem, r.final, "found")
  /\ LET reply == screened'[r.final]  mover == Side(r.final.number) IN
     lane' = [lane EXCEPT !.rest = Tail(@), !.adverse = @ \cup
                {Scored(r, TerminalScore(reply, mover, 2), <<reply>>, TerminalBounds(reply, mover))}]
  /\ UNCHANGED <<pc, stop, quarantined, emergency, report>>
WidenValue(r, value, c) ==
  /\ mem' = value.mem
  /\ IF value.pending
     THEN Raised("pending", {}, None, None) /\ UNCHANGED <<lane, quarantined, emergency, report>>
     ELSE /\ IF Publishable(side0, c) THEN UNCHANGED <<quarantined, emergency, report>>
             ELSE Quarantine(r)
          /\ lane' = [lane EXCEPT !.rest = Tail(@),
                        !.safe = IF Publishable(side0, c) THEN @ \cup {c} ELSE @]
          /\ UNCHANGED <<pc, stop>>
WidenChild(r, value) ==
  WidenValue(r, value, Scored(r, value.score, value.pv, value.bounds))
WidenScored(r) ==
  /\ r.outcome = None /\ r.final \notin lane.retained /\ "exhausted" \in Answers(r.final)
  /\ screened' = Learned(screened, r.final, "exhausted")
  /\ WidenChild(r, Minimax(Ctx(Nowhere), r.final, depth - 1, full.low, full.high, 1, mem))
\* Stopped at the deadline check, while screening, or while scoring an exact child.
WidenStopped(r) ==
  /\ \/ lane' = Broken(lane, "time") /\ UNCHANGED screened
     \/ /\ r.outcome = None /\ r.final \notin lane.retained /\ r.final \notin DOMAIN screened
        /\ \E l \in {Broken(lane, "time"), Broken(lane, FirstOf(lane.cause, "work")),
                     [lane EXCEPT !.rest = Tail(@), !.cause = FirstOf(@, "work")],
                     [lane EXCEPT !.rest = Tail(@)]} :
             lane' = [l EXCEPT !.unknown = FirstOf(@, r)]
        /\ UNCHANGED screened
     \/ /\ r.outcome = None /\ r.final \notin lane.retained /\ "exhausted" \in Answers(r.final)
        /\ \E cause \in {"time", "work"} :
             lane' = [Broken(lane, FirstOf(lane.cause, cause)) EXCEPT !.unscored = r]
        /\ screened' = Learned(screened, r.final, "exhausted")
  /\ UNCHANGED <<pc, stop, mem, quarantined, emergency, report>>
Widen ==
  /\ pc = "widening" /\ lane.rest # <<>>
  /\ LET r == Head(lane.rest) IN
     WidenStopped(r) \/ WidenTerminal(r) \/ WidenKnown(r) \/ WidenMated(r) \/ WidenScored(r)
  /\ UNCHANGED <<call, depth, pass, evidence, vetoed, winner, spared, mateNow>>

\* The best safe child; or, if all are known to be mated, the least bad of them.
Selects(w) ==
  IF w.pv[1].outcome # None
  THEN winner' = w /\ pc' = "accept" /\ UNCHANGED <<evidence, quarantined, emergency>>
  ELSE IF ~ClaimOk(w) THEN RejectClaim(w)
  ELSE /\ winner' = w
       /\ pc' = IF w.pv[1].final \in mem.mated THEN "accept" ELSE "ladder"
       /\ UNCHANGED <<evidence, quarantined, emergency>>
EndWidening ==
  /\ pc = "widening" /\ lane.rest = <<>>
  /\ LET open == {i \in DOMAIN lane.all : lane.all[i].outcome = None}
         mated == {c.series.final : c \in lane.adverse}
         hopeless == /\ lane.cause = None /\ lane.unscored = None /\ lane.unknown = None
                     /\ open # {} /\ \A i \in open : lane.all[i].final \in mated
         cause == FirstOf(lane.cause, "work")
         fallback == FirstOf(lane.unscored, lane.unknown)
         complete == WideFrontier.complete
         bounds == CombineProofBounds(side0, {c.bounds : c \in lane.adverse}, complete)
     IN IF lane.safe # {}
        THEN IF lane.cause = None /\ lane.unknown = None
             THEN /\ Selects(WinnerOf(RootOrder(side0, lane.safe), None))
                  /\ report' = [report EXCEPT !.complete = FALSE] /\ UNCHANGED stop
             ELSE /\ Raised("interrupted", {}, cause, RootOrder(side0, lane.safe)[1].series)
                  /\ report' = [report EXCEPT !.complete = FALSE]
                  /\ UNCHANGED <<winner, evidence, quarantined, emergency>>
        ELSE IF hopeless
        THEN IF call.prefix # <<>>
             THEN /\ winner' = NoWinner /\ pc' = "accept"
                  /\ report' = [report EXCEPT !.complete = FALSE]
                  /\ UNCHANGED <<stop, evidence, quarantined, emergency>>
             ELSE /\ winner' = WinnerOf(ProofSafeOrder(side0, lane.adverse), ProofFrom(bounds))
                  /\ report' = [report EXCEPT !.complete = TRUE]
                  /\ pc' = IF winner'.pv[1].final \in mem.mated THEN "accept" ELSE "ladder"
                  /\ UNCHANGED <<stop, evidence, quarantined, emergency>>
        ELSE /\ IF fallback = None THEN Raised("raw", {}, cause, None)
                ELSE Raised("interrupted", {}, cause, fallback)
             /\ UNCHANGED <<winner, report, evidence, quarantined, emergency>>
  /\ lane' = None
  /\ UNCHANGED <<call, depth, mem, screened, pass, vetoed, spared, mateNow>>

-----------------------------------------------------------------------------
(* run: what remains of a depth that was stopped, and of one that completed. *)

Rejected(moves) == moves \in vetoed' \cup quarantined'
BestRejected ==
  report.completed > 0 /\ report.best.pv # <<>> /\ Rejected(report.best.pv[1].moves)
MoveOnly(r) == IF r = None \/ Rejected(r.moves) THEN NoWinner ELSE OnlyMove(r)
\* The depths completed before count no more.
Reset(best) == [report EXCEPT !.best = best, !.completed = 0, !.complete = FALSE, !.kept = FALSE]
Retain(r) == [r EXCEPT !.complete = IF r.completed = 0 THEN FALSE ELSE r.kept]
Flags(r) == [r EXCEPT !.timedOut = @ \/ stop.cause = "time", !.workLimit = @ \/ stop.cause = "work"]

SettleLadder ==
  /\ stop.kind = "ladder"
  /\ vetoed' = vetoed \ {stop.fallback.moves} /\ spared' = stop.fallback.moves
  /\ report' = Reset(OnlyMove(stop.fallback)) /\ UNCHANGED quarantined
SettleClaims ==
  /\ stop.kind = "claims"
  /\ quarantined' = quarantined \ {stop.fallback.moves}
  /\ report' = Flags(Reset(OnlyMove(stop.fallback))) /\ UNCHANGED <<vetoed, spared>>
SettleInterrupted ==
  /\ stop.kind = "interrupted"
  /\ quarantined' = quarantined \cup {c.series.moves : c \in {x \in stop.scored : ~Publishable(side0, x)}}
  /\ UNCHANGED <<vetoed, spared>>
  /\ LET partial == ProofSafeOrder(side0, {c \in stop.scored : ~Rejected(c.series.moves)})
         best == IF stop.scored = {} \/ BestRejected THEN MoveOnly(stop.fallback)
                 ELSE IF partial = <<>> THEN NoWinner ELSE WinnerOf(partial, None)
     IN report' = Flags(IF BestRejected THEN Reset(best)
                        ELSE IF report.completed = 0
                        THEN [report EXCEPT !.best = best, !.complete = FALSE]
                        ELSE Retain(report))
SettleRaw ==
  /\ stop.kind \in {"raw", "exhausted"}
  /\ report' = Flags(Retain(report)) /\ UNCHANGED <<vetoed, quarantined, spared>>
SettlePending ==
  /\ stop.kind \in {"rootpending", "pending"}
  /\ UNCHANGED <<vetoed, quarantined, spared>>
  /\ LET best == IF stop.kind = "rootpending" THEN MoveOnly(stop.fallback) ELSE NoWinner
         hidden == ~call.all /\ report.best.pv # <<>> /\ report.best.pv[1].outcome = None
         settled == IF BestRejected \/ (stop.kind = "rootpending" /\ report.completed = 0)
                    THEN Reset(best)
                    ELSE IF report.completed > 0
                    THEN [Retain(report) EXCEPT !.best.alternatives = IF hidden THEN <<>> ELSE @]
                    ELSE [report EXCEPT !.best = [NoWinner EXCEPT !.score = 0], !.complete = TRUE]
     IN report' = [settled EXCEPT !.adjudication = "manual_proof_required"]
Settle ==
  /\ pc = "stopped"
  /\ SettleLadder \/ SettleClaims \/ SettleInterrupted \/ SettleRaw \/ SettlePending
  /\ pc' = IF stop.kind = "pending" /\ report.completed = 0 THEN "done" ELSE "final"
  /\ mem' = [mem EXCEPT !.selective = TRUE]
  /\ UNCHANGED <<call, depth, screened, pass, evidence, emergency, winner, lane, stop, mateNow>>

Accept ==
  /\ pc = "accept"
  /\ report' = [report EXCEPT !.best = winner, !.completed = depth, !.kept = report.complete]
  /\ IF depth < call.depth THEN pc' = "depth" /\ depth' = depth + 1
                           ELSE pc' = "final" /\ UNCHANGED depth
  /\ UNCHANGED <<call, mem, screened, pass, evidence, vetoed, quarantined, emergency, winner, lane,
                 stop, spared, mateNow>>

\* No claim, no rejected root and no mate score without its proof gets past here.
Finalize ==
  /\ pc = "final" /\ pc' = "gate" /\ UNCHANGED vetoed
  /\ LET best == report.best
         Selects0(c) == best.pv # <<>> /\ c.series = best.pv[1] /\ c.score = best.score
         wrong == {c \in Range(best.alternatives) : ~Publishable(side0, c)}
         clean == IF wrong = {} THEN best
                  ELSE [best EXCEPT !.alternatives = Among(@, Range(@) \ wrong),
                                    !.proof = None]
         rejected == best.pv # <<>> /\ Rejected(best.pv[1].moves)
         claims == ~rejected /\ MateScored(clean.score) /\ (clean.pv = <<>> \/ ~ClaimOk(clean))
         named == IF clean.pv = <<>> THEN NoWinner ELSE OnlyMove(clean.pv[1])
     IN /\ quarantined' = quarantined \cup {c.series.moves : c \in {x \in wrong : ~Selects0(x)}}
        /\ mem' = [mem EXCEPT !.selective = @ \/ claims \/ \E c \in wrong : ~Selects0(c)]
        /\ report' = IF rejected THEN Reset(NoWinner)
                     ELSE IF claims THEN Reset(named)
                     ELSE [report EXCEPT !.best = clean, !.kept = @ /\ wrong = {},
                            !.complete = @ /\ \A c \in wrong : Selects0(c)]
  /\ UNCHANGED <<call, depth, screened, pass, evidence, emergency, winner, lane, stop,
                 spared, mateNow>>

-----------------------------------------------------------------------------
(* run: the last gates a move that does not end the game has to pass. *)

published == report.best.pv[1]
Undecided == report.best.pv # <<>> /\ published.outcome = None

\* Mutant: a boundary that was screened is taken for a safe one.
ScreenedIsSafe(s) == IF s \in DOMAIN screened THEN {"exhausted"} ELSE Answers(s)

\* _certify_final_fallback_reply_mate
FinalAnswers(s) ==
  IF s \notin DOMAIN screened /\ s \in mem.mated THEN {"found"} ELSE Answers(s)
Withheld(answer) ==
  [Reset(NoWinner) EXCEPT !.timedOut = @ \/ answer = "time", !.workLimit = @ \/ answer = "work"]

Gate ==
  /\ pc = "gate"
  /\ \/ /\ ~Undecided /\ pc' = "close" /\ UNCHANGED <<screened, mem, lane, report>>
     \/ /\ Undecided
        /\ \E answer \in FinalAnswers(published.final) :
             /\ screened' = IF published.final \in mem.mated THEN screened
                            ELSE Learned(screened, published.final, answer)
             /\ IF answer = "exhausted"
                THEN pc' = "ladder-gate" /\ UNCHANGED <<mem, lane, report>>
                ELSE /\ mem' = [MarkMated(mem, published.final, answer) EXCEPT !.selective = TRUE]
                     /\ IF answer = "found" /\ ~call.all /\ call.prefix = <<>>
                        THEN pc' = "reselect" /\ UNCHANGED <<lane, report>>
                        ELSE pc' = "close" /\ report' = Withheld(answer) /\ UNCHANGED lane
  /\ UNCHANGED <<call, depth, pass, evidence, vetoed, quarantined, emergency, winner, stop, spared,
                 mateNow>>

\* _final_safe_reselection: a retained mate, else (if the cap allows no wider frontier)
\* what is retained and known to be safe, else the wider frontier with its mates first.
MayWiden == call.cap # None /\ call.cap < RescueCap
Ending(list) == {r \in Range(list) : r.outcome = "checkmate"}
RescueOrder(retained, wide) ==
  IF Ending(retained) # {} THEN Among(retained, Ending(retained))
  ELSE IF MayWiden THEN Among(wide, Ending(wide)) \o Among(wide, Range(wide) \ Ending(wide))
  ELSE Among(retained, {r \in Range(retained) :
               r.outcome # None \/ (r.final \in DOMAIN screened /\ screened[r.final] = None)})
Reselection(retained, wide) ==
  \/ /\ pc' = "rescue" /\ UNCHANGED report
     /\ lane' = [rest |-> RescueOrder(retained, wide), limited |-> FALSE, gated |-> FALSE]
  \/ /\ MayWiden /\ Ending(retained) = {}
     /\ \E cause \in {"time", "work"} : report' = Withheld(cause)
     /\ pc' = "close" /\ UNCHANGED lane
Reselect ==
  LET Fit(list) == {r \in Range(list) :
                      r.moves \notin vetoed \cup quarantined /\ r.final # published.final}
      wide == Frontiers(root, <<>>, RescueCap).series
      candidates == [i \in DOMAIN report.best.alternatives |->
                       report.best.alternatives[i].series] IN
  /\ pc = "reselect"
  /\ Reselection(Among(candidates, Fit(candidates)), Among(wide, Fit(wide)))
  /\ UNCHANGED <<call, depth, mem, screened, pass, evidence, vetoed, quarantined, emergency, winner,
                 stop, spared, mateNow>>

Rescued(r, score) == [Reset([OnlyMove(r) EXCEPT !.score = score]) EXCEPT
                        !.workLimit = @ \/ lane.limited]
RescueOne ==
  /\ pc = "rescue" /\ lane.rest # <<>>
  /\ LET r == Head(lane.rest)
         next == [lane EXCEPT !.rest = Tail(@)] IN
     \/ /\ pc' = "close" /\ report' = Withheld("time")
        /\ UNCHANGED <<screened, lane, mem, vetoed>>
     \/ /\ r.outcome # None
        /\ pc' = "close" /\ report' = Rescued(r, TerminalScore(r, side0, 1))
        /\ UNCHANGED <<screened, lane, mem, vetoed>>
     \/ /\ r.outcome = None
        /\ \E answer \in Answers(r.final) :
             /\ answer # "time"
             /\ screened' = Learned(screened, r.final, answer)
             /\ IF answer # "exhausted"
                THEN /\ \E limit \in {FALSE, answer = "work"} :
                          lane' = [next EXCEPT !.limited = @ \/ limit]
                     /\ UNCHANGED <<pc, report, mem, vetoed>>
                ELSE \E losing \in IF r.final.number >= LadderSeries
                                   THEN {FALSE, (r.final \in Ladders)} ELSE {FALSE} :
                     IF losing
                     THEN /\ lane' = next /\ vetoed' = vetoed \cup {r.moves}
                          /\ mem' = [mem EXCEPT !.laddered = @ \cup {r.final}]
                          /\ UNCHANGED <<pc, report>>
                     ELSE /\ pc' = "ladder-gate"
                          /\ lane' = [lane EXCEPT !.gated = r.final.number >= LadderSeries]
                          /\ \E score \in {Static[r.final.at], Static[root.at]} :
                               report' = Rescued(r, score)
                          /\ UNCHANGED <<mem, vetoed>>
  /\ UNCHANGED <<call, depth, pass, evidence, quarantined, emergency, winner, stop, spared, mateNow>>

RescueNone ==
  /\ pc = "rescue" /\ lane.rest = <<>> /\ pc' = "close"
  /\ report' = Withheld(IF lane.limited THEN "work" ELSE None)
  /\ UNCHANGED <<call, depth, mem, screened, pass, evidence, vetoed, quarantined, emergency, winner,
                 lane, stop, spared, mateNow>>

LadderGate ==
  /\ pc = "ladder-gate" /\ pc' = "close"
  /\ \E losing \in IF lane # None /\ lane.gated THEN {FALSE} ELSE LadderAnswers(published.final) :
       IF losing /\ (call.prefix # <<>> \/ published.moves # spared)
       THEN /\ vetoed' = vetoed \cup {published.moves}
            /\ mem' = [mem EXCEPT !.selective = TRUE]
            /\ report' = Reset(NoWinner)
       ELSE UNCHANGED <<vetoed, mem, report>>
  /\ UNCHANGED <<call, depth, screened, pass, evidence, quarantined, emergency, winner, lane, stop,
                 spared, mateNow>>

\* The alternatives of a search for the best move only are not a scored root.
Close ==
  /\ pc = "close" /\ pc' = "done"
  /\ report' = IF ~call.all /\ report.completed = call.depth /\ Undecided
               THEN [report EXCEPT !.best.alternatives = <<>>] ELSE report
  /\ UNCHANGED <<call, depth, mem, screened, pass, evidence, vetoed, quarantined, emergency, winner,
                 lane, stop, spared, mateNow>>

\* SearchResult.forced
Forced ==
  LET b == report.best
      heuristic == IF \/ mem.selective \/ report.timedOut \/ report.completed # call.depth
                      \/ ~MateScored(b.score)
                   THEN None ELSE IF b.score > 0 THEN "white" ELSE "black"
  IN CASE report.adjudication = "proven_draw" -> "draw"
       [] report.adjudication = "manual_proof_required" -> None
       [] report.adjudication \notin {"proven_draw", "manual_proof_required"} ->
            IF b.proof # None THEN b.proof ELSE heuristic

Done == pc = "done" /\ UNCHANGED vars

Step ==
  \/ Adjudicate \/ EnterDepth \/ StartPass \/ InterruptFrontier \/ InterruptPass
  \/ ScoreCandidate \/ EndPass \/ WidenFrontier \/ NothingLeft \/ Judge \/ Screen \/ Ladder
  \/ Certify \/ Repair \/ StartWidening \/ Widen \/ EndWidening \/ Settle \/ Accept
  \/ Finalize \/ Gate \/ Reselect \/ RescueOne \/ RescueNone \/ LadderGate \/ Close
Next == Step \/ Done
Spec == Init /\ [][Next]_vars

-----------------------------------------------------------------------------
(* Properties. *)

\* Whatever stopped the search, a move that leaves the game open allows no mating reply,
\* and no rejected root comes back from an older depth or as a fallback, save the one the
\* exhausted ladder frontier spares (run's final gates).
PublishedMoveStands ==
  pc = "done" /\ Undecided =>
    /\ MatingSeries[published.final] = None
    /\ published.moves \notin vetoed \cup quarantined

\* Every pass of a depth after the first one was made by an override, a repair, a veto, a
\* quarantine or a wider frontier that the depth did not have yet, and none of them is lost
\* before the depth ends: the loop of passes ends (_search_root's while True).
Learnt ==
  <<DOMAIN evidence.overrides, evidence.repairs, evidence.vetoes, quarantined,
    {evidence.widened} \ {None}>>
EveryPassIsNew ==
  [][pc \notin {"depth", "stopped"} =>
       /\ \A i \in DOMAIN Learnt : Learnt[i] \subseteq Learnt'[i]
       /\ pc' = "pass" => Learnt' # Learnt]_vars
=============================================================================
