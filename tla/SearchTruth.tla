----------------------------- MODULE SearchTruth -----------------------------
(***************************************************************************)
(* A search, its generation and its proofs against their definitions: the  *)
(* unmerged walk of the rules, a plain minimax, and the outcome of best    *)
(* play in the whole game tree.                                            *)
(***************************************************************************)
EXTENDS SearchValues, Search

\* The boundaries of some results; the results that reach the boundary of r.
Reached(results) == {ResultKey(r) : r \in results}
Reaching(results, r) == {x \in results : ResultKey(x) = ResultKey(r)}
MadeExactly(s, made, all) ==
  /\ Reached(made.series) \subseteq Reached(all)
  /\ ~made.pruned =>
       /\ Reached(made.series) = Reached(all)
       /\ \A r \in made.series : r.count = Cardinality(Reaching(all, r))
  /\ \A r \in made.series : ResultKey(PlaySeries(s, r.moves)) = ResultKey(r)
ExactSeries(s, prefix) ==
  MadeExactly(s, GenerateSeries(s, prefix, Beam(call.cap)),
         {r \in Walk(s, Start(s)) : IsPrefix(prefix, r.moves)})

\* Merging transpositions loses nothing and makes nothing up: a generation that pruned
\* nothing has the boundaries of the unmerged walk, reached in as many ways; a pruned one
\* has some of them; and every line generated plays back to its boundary (generate_series,
\* play_series).  At the root, and at every boundary the call opens there.
SeriesAreExact ==
  pc = "adjudicate" =>
    /\ ExactSeries(root, call.prefix)
    /\ \A r \in Walk(root, Start(root)) : r.outcome = None => ExactSeries(r.final, <<>>)

\* A plain minimax over the same frontiers: no window, no table, no probes.  What is
\* pending is worth pend, so the two extremes enclose every value.
RECURSIVE Reference(_, _, _, _, _)
ReferenceOf(r, cap, side, d, ply, pend) ==
  IF r.outcome # None THEN TerminalScore(r, side, ply + 1)
  ELSE IF d > 0 THEN Reference(cap, r.final, d - 1, ply + 1, pend)
  ELSE CASE Quiet[r.final] = "proven_draw" -> 0
         [] Quiet[r.final] = "manual_proof_required" -> pend
         [] OTHER -> Static[r.final.at]
Extreme(side, values) == IF side = "white" THEN Max(values) ELSE Min(values)
Reference(cap, s, d, ply, pend) ==
  CASE Quiet[s] = "proven_draw" -> 0
    [] Quiet[s] = "manual_proof_required" -> pend
    [] OTHER ->
         IF d = 0 /\ s.at \notin Unstable THEN Static[s.at]
         ELSE Extreme(Side(s.number), {ReferenceOf(r, cap, Side(s.number), d, ply, pend)
                                       : r \in Range(Frontiers(s, <<>>, cap).series)})
RootValue(r, pend) ==
  IF r.outcome # None THEN TerminalScore(r, side0, 1)
  ELSE Reference(call.cap, r.final, depth - 1, 1, pend)

\* The window, the table with its undone probes and the tie search never change what a
\* pass selects: every exact score is the plain minimax value, and no candidate left with
\* a bound is better than the winner, or as good and earlier (_search_root_pass).
Between(low, score, high) == low <= score /\ score <= high
LeftBehind(r, best, value) ==
  \/ Better2(side0, best.score, value)
  \/ value = best.score /\ Before(best.series.moves, r.moves)
WinnerIsMinimax ==
  pc = "winner" =>
    /\ \A c \in pass.scored :
         Settled(c.series) \/ Between(RootValue(c.series, Worst("white")), c.score,
                                      RootValue(c.series, Worst("black")))
    /\ \A r \in Range(pass.series) :
         \/ r.moves \in quarantined \/ Settled(r) \/ \E c \in pass.scored : c.series = r
         \/ LeftBehind(r, ProofSafeOrder(side0, pass.scored)[1], RootValue(r, Worst(side0)))

\* The outcome of best play, as far as it is decided within d series of every legal line:
\* tables for d = 0, 1, ...
Deepest == Max({c.depth : c \in Calls}) + 2
DecidedBy(table, r, side) ==
  IF r.outcome # None THEN TerminalBounds(r, side)
  ELSE IF r.final \in DOMAIN table THEN table[r.final] ELSE Unknown
TruthBelow(table, s) ==
  CASE Quiet[s] = "proven_draw" -> <<0, 0>>
    [] Quiet[s] = "manual_proof_required" -> Unknown
    [] Quiet[s] \notin {"proven_draw", "manual_proof_required"} ->
         CombineProofBounds(Side(s.number),
           {DecidedBy(table, r, Side(s.number)) : r \in Walk(s, Start(s))}, TRUE)
RECURSIVE TruthTables(_, _)
TruthTables(tables, d) ==
  IF d = 0 THEN tables
  ELSE TruthTables(Append(tables, [s \in Positions |-> TruthBelow(Last(tables), s)] @@ <<>>), d - 1)
Truths == TruthTables(<<[s \in Positions |-> Unknown]>>, Deepest)
Decided(s, d) == Truths[d + 1][s]
Encloses(bounds, truth) == bounds[1] <= truth[1] /\ truth[2] <= bounds[2]
RootTruth ==
  CombineProofBounds(side0,
    {IF r.outcome # None THEN TerminalBounds(r, side0) ELSE Decided(r.final, call.depth + 1)
     : r \in {x \in Walk(root, Start(root)) : IsPrefix(call.prefix, x.moves)}}, TRUE)

\* Capped frontiers, vetoes, cut-offs and repairs never make a proof out of what was not
\* looked at: every candidate's interval holds the truth of the whole game tree, and a
\* result that calls itself forced is (SearchResult.forced, _combine_proof_bounds).
ProofsAreSound ==
  /\ pc = "winner" => \A c \in pass.scored :
       c.series.outcome # None \/ Encloses(c.bounds, Decided(c.series.final, call.depth + 1))
  /\ pc = "done" => CASE Forced = "white" -> RootTruth = <<1, 1>>
                      [] Forced = "black" -> RootTruth = <<-1, -1>>
                      [] Forced = "draw" -> Quiet[root] = "proven_draw" \/ RootTruth = <<0, 0>>
                      [] Forced = None -> TRUE
=============================================================================
