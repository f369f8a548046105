---------------------------- MODULE SearchValues -----------------------------
(***************************************************************************)
(* search.py: what a search of one boundary answers, _minimax with its     *)
(* alpha-beta window, transposition table and principal-variation probes.  *)
(***************************************************************************)
EXTENDS SearchFrontiers

CONSTANTS
  Unstable,       \* placements the evaluation calls tactically unstable
  PrevisitDepth   \* the requested depth from which a known best series is tried first

-----------------------------------------------------------------------------
(* Minimax over series.  mem is what a search leaves behind, among it the table tt,  *)
(* whether a frontier was incomplete and which proven leaves were met.  ctx is what  *)
(* it may not change: the cap, the requested depth, the proven leaves' mates.        *)

Pending(mem) == [Answer(0, <<>>, Unknown, mem) EXCEPT !.pending = TRUE]
Min2(x, y) == IF x < y THEN x ELSE y
Max2(x, y) == IF x > y THEN x ELSE y
Best2(side, x, y) == IF Better2(side, y, x) THEN y ELSE x
\* _tactical_leaf_extension: the replies to an unstable leaf, by their static scores.
\* A cut-off or a pending draw ends the loop.
LeafValue(r, side, ply) ==
  IF r.outcome # None THEN TerminalScore(r, side, ply + 1)
  ELSE IF QuietTable[r.final] = "proven_draw" THEN 0 ELSE Static[r.final.at]
RECURSIVE Replied(_, _, _, _, _, _, _)
Replied(series, side, best, alpha, beta, ply, mem) ==
  IF series = <<>> \/ Raise(side, alpha, best) >= Lower(side, beta, best)
  THEN Answer(best, <<>>, Unknown, mem)
  ELSE IF Head(series).outcome = None /\ QuietTable[Head(series).final] = "manual_proof_required"
  THEN Pending(mem)
  ELSE Replied(Tail(series), side, Best2(side, best, LeafValue(Head(series), side, ply)),
               alpha, beta, ply, mem)
Extension(frontier, side, alpha, beta, ply, mem) ==
  Replied(frontier.series, side, Worst(side), alpha, beta, ply,
          [mem EXCEPT !.selective = @ \/ ~frontier.complete])

\* A table entry replaces a shallower one, or an equally deep one that is a bound.
Stores(tt, s, entry) ==
  IF \/ s \notin DOMAIN tt
     \/ entry.depth > tt[s].depth
     \/ entry.depth = tt[s].depth /\ entry.bound = "exact" /\ tt[s].bound # "exact"
  THEN (s :> entry) @@ tt ELSE tt
BoundOf(score, alpha, beta) ==
  IF score <= alpha THEN "upper" ELSE IF score >= beta THEN "lower" ELSE "exact"

RECURSIVE MinimaxOf(_, _, _, _, _, _, _)

\* _search_child_with_pvs: a later child is probed with a window of one point, whose
\* writes to the table are undone, and searched again if it may be better.
Again(probe, ctx, s, depth, alpha, beta, ply) ==
  IF ~probe.pending /\ alpha < probe.score /\ probe.score < beta
  THEN MinimaxOf(ctx, s, depth, alpha, beta, ply, probe.mem) ELSE probe
Undone(answer, mem) == [answer EXCEPT !.mem.tt = mem.tt]
ProbedOf(ctx, s, depth, alpha, beta, ply, side, mem) ==
  LET low  == IF side = "white" THEN alpha ELSE beta - 1
      high == IF side = "white" THEN alpha + 1 ELSE beta
  IN Again(Undone(MinimaxOf(ctx, s, depth, low, high, ply, mem), mem),
           ctx, s, depth, alpha, beta, ply)
Child(ctx, s, depth, alpha, beta, ply, side, prior, mem) ==
  IF prior /\ depth >= 2 /\ beta - alpha > 1
  THEN ProbedOf(ctx, s, depth, alpha, beta, ply, side, mem)
  ELSE MinimaxOf(ctx, s, depth, alpha, beta, ply, mem)

\* The loop over a node's children, until one is enough or pending.
Enough(side, best, w, ply) ==
  \/ best.score = Wins(side) * (MateScore - (ply + 1))
  \/ Raise(side, w.low, best.score) >= Lower(side, w.high, best.score)
Visited(acc, r, child, side, w, ply) ==
  LET best == IF Better2(side, child.score, acc.best.score)
              THEN [score |-> child.score, pv |-> <<r>> \o child.pv] ELSE acc.best IN
  IF child.pending THEN [acc EXCEPT !.pending = TRUE, !.done = TRUE, !.mem = child.mem]
  ELSE [acc EXCEPT !.best = best, !.mem = child.mem, !.visited = @ + 1,
          !.bounds = @ \cup {child.bounds}, !.done = Enough(side, best, w, ply)]
VisitOne(acc, r, ctx, depth, side, w, ply) ==
  Visited(acc, r,
          IF r.outcome # None THEN Terminal(r, side, ply + 1, acc.mem)
          ELSE Child(ctx, r.final, depth - 1, Raise(side, w.low, acc.best.score),
                     Lower(side, w.high, acc.best.score), ply + 1, side,
                     acc.best.pv # <<>>, acc.mem),
          side, w, ply)
RECURSIVE Visit(_, _, _, _, _, _, _)
Visit(series, acc, ctx, depth, side, w, ply) ==
  IF series = <<>> \/ acc.done THEN acc
  ELSE Visit(Tail(series), VisitOne(acc, Head(series), ctx, depth, side, w, ply),
             ctx, depth, side, w, ply)
FirstVisit(side, mem) ==
  [best |-> [score |-> Worst(side), pv |-> <<>>], bounds |-> {}, visited |-> 0, mem |-> mem,
   done |-> FALSE, pending |-> FALSE]

\* What the node answers and stores.  A first child, tried before the frontier was
\* generated, that is enough leaves it ungenerated.
Node(end, ungenerated, bounds, s, depth, w, frontier) ==
  LET after == [end.mem EXCEPT !.selective = @ \/ (~ungenerated /\ ~frontier.complete)]
      entry == [depth |-> depth, score |-> end.best.score, pv |-> end.best.pv, bounds |-> bounds,
                bound |-> BoundOf(end.best.score, w.alpha, w.beta)]
  IN IF end.pending THEN Pending(after)
     ELSE Answer(end.best.score, end.best.pv, bounds,
                 [after EXCEPT !.tt = Stores(@, s, entry)])
Closed(end, previsit, s, depth, side, w, frontier) ==
  LET ungenerated == previsit /\ end.done /\ end.visited = 1
      all == ~ungenerated /\ frontier.complete /\ end.visited = Len(frontier.series)
  IN Node(end, ungenerated, CombineProofBounds(side, end.bounds, all), s, depth, w, frontier)
\* The best series of an earlier depth comes first.
Expanded(ctx, s, depth, side, w, before, previsit, frontier, ply, mem) ==
  Closed(Visit(IF before = <<>> THEN frontier.series ELSE Prefer(frontier.series, before[1].moves),
               FirstVisit(side, mem), ctx, depth, side, w, ply),
         previsit, s, depth, side, w, frontier)

\* _minimax past its adjudications: the table, then the children.
Looked(ctx, s, depth, alpha, beta, side, entry, ply, frontier, mem) ==
  LET hit  == entry # None /\ entry.depth >= depth
      low  == IF hit /\ entry.bound = "lower" THEN Max2(alpha, entry.score) ELSE alpha
      high == IF hit /\ entry.bound = "upper" THEN Min2(beta, entry.score) ELSE beta
      before == IF entry = None THEN <<>> ELSE entry.pv
  IN IF hit /\ (entry.bound = "exact" \/ low >= high)
     THEN Answer(entry.score, entry.pv, entry.bounds, mem)
     ELSE Expanded(ctx, s, depth, side,
                   [alpha |-> alpha, beta |-> beta, low |-> low, high |-> high], before,
                   before # <<>> /\ ctx.requested >= PrevisitDepth /\ entry.depth < depth,
                   frontier, ply, mem)
Leaf(ctx, s, side, alpha, beta, ply, frontier, mem) ==
  IF s.at \in Unstable THEN Extension(frontier, side, alpha, beta, ply, mem)
  ELSE Answer(Static[s.at], <<>>, Unknown, mem)
Inner(ctx, s, depth, alpha, beta, ply, side, frontier, mem) ==
  IF s \in DOMAIN ctx.proven
  THEN [Terminal(ctx.proven[s], side, ply + 1, [mem EXCEPT !.met = @ \cup {s}])
          EXCEPT !.pv = <<ctx.proven[s]>>]
  ELSE IF depth = 0 THEN Leaf(ctx, s, side, alpha, beta, ply, frontier, mem)
  ELSE Looked(ctx, s, depth, alpha, beta, side,
              IF s \in DOMAIN mem.tt THEN mem.tt[s] ELSE None, ply, frontier, mem)
Adjudicated(quiet, ctx, s, depth, alpha, beta, ply, mem) ==
  CASE quiet = "proven_draw" -> Answer(0, <<>>, <<0, 0>>, mem)
    [] quiet = "manual_proof_required" -> Pending(mem)
    [] quiet \notin {"proven_draw", "manual_proof_required"} ->
       Inner(ctx, s, depth, alpha, beta, ply, Side(s.number), FrontierAt(s, <<>>, ctx.cap), mem)
MinimaxOf(ctx, s, depth, alpha, beta, ply, mem) ==
  Adjudicated(QuietTable[s], ctx, s, depth, alpha, beta, ply, mem)
=============================================================================
