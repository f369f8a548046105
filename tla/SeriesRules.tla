----------------------------- MODULE SeriesRules -----------------------------
(***************************************************************************)
(* rules.py: a Scottish series.  The side to move of series n plays n      *)
(* moves in a row; a check ends its series, having no move ends the game.  *)
(* generate_series is modelled with its layers, merges, frontier cap,      *)
(* tactical reserve and work count, next to its unmerged walk, play_series *)
(* and has_mating_series.                                                  *)
(*                                                                         *)
(* Boards are abstract (python-chess is outside src/): a placement, the    *)
(* legal moves of either side on it, and who is in check.  A UCI string is *)
(* its rank in the order the code sorts by.                                *)
(***************************************************************************)
EXTENDS Series

CONSTANTS
  Moves,      \* placement -> side -> records uci, from, to, pawn, capture,
              \* promotes, next (placement), makes and takes (e.p. target or None)
  Checked,    \* <<placement, side>> where that side is in check
  Occupied,   \* placement -> e.p. targets that are occupied there
  Dead,       \* placements with insufficient material
  Ordering,   \* placement -> side to move -> score of the bounded frontier, for White
  ReserveMax  \* TACTICAL_FRONTIER_RESERVE_MAX

Without(f, k) == {e \in f : e[1] # k}

-----------------------------------------------------------------------------
\* _legal_move_variants: orthodox moves, and the e.p. captures of every target.
Variants(p, side, targets) == {m \in Moves[p][side] : m.takes \in targets \cup {None}}

\* ProgressiveState at a boundary keeps the targets that can be captured on.
State(p, n, quiet, targets) ==
  [at |-> p, number |-> n, quiet |-> quiet,
   targets |-> {t \in targets : \E m \in Moves[p][Side(n)] : m.takes = t}]
Replies(s) == Variants(s.at, Side(s.number), s.targets)

\* _series_outcome
Outcome(s, check) ==
  CASE Replies(s) = {} -> IF check THEN "checkmate" ELSE "stalemate"
    [] Replies(s) # {} /\ s.quiet >= 10 /\ s.at \in Dead -> "ten_series_draw"
    [] OTHER -> None

\* _FrontierState: a series under way.
Start(s) == [at |-> s.at, moves |-> <<>>, ep |-> {}, progress |-> FALSE, paths |-> 1,
             tactics |-> {}]
Playable(s, item) ==
  Variants(item.at, Side(s.number), IF item.moves = <<>> THEN s.targets ELSE {})

\* Kinds of tactical opportunities, in order of priority.
Mate == 0  Check == 1  Promotion == 2  Capture == 3
Tactics(m, n) ==
  {<<k, n, m.uci>> : k \in {x \in {Promotion, Capture} :
                             IF x = Promotion THEN m.promotes ELSE m.capture}}

\* One move: a pawn that moves on loses its e.p. candidate.
Played(item, m) ==
  [item EXCEPT !.at = m.next, !.moves = Append(@, m.uci),
     !.ep = Without(@, m.from) \cup {<<m.to, t>> : t \in {m.makes} \ {None}},
     !.progress = @ \/ m.pawn \/ m.capture,
     !.tactics = @ \cup Tactics(m, Len(item.moves) + 1)]

GivesCheck(s, item) == <<item.at, Side(s.number + 1)>> \in Checked
Complete(s, item) == GivesCheck(s, item) \/ Len(item.moves) = s.number

\* _finish_series: the move passes with the targets that are still free.
FinishSeries(s, item) ==
  LET final == State(item.at, s.number + 1, IF item.progress THEN 0 ELSE s.quiet + 1,
                     {e[2] : e \in item.ep} \ Occupied[item.at]) IN
  [moves |-> item.moves, final |-> final, check |-> GivesCheck(s, item),
   outcome |-> Outcome(final, GivesCheck(s, item)), count |-> item.paths,
   tactics |-> item.tactics]

\* _stuck_result: no move in the middle of a series, or at its start.
StuckResult(s, item) ==
  [moves |-> item.moves, final |-> State(item.at, s.number, s.quiet, {}), check |-> FALSE,
   outcome |-> IF <<item.at, Side(s.number)>> \in Checked THEN "checkmate" ELSE "stalemate",
   count |-> item.paths, tactics |-> item.tactics]

-----------------------------------------------------------------------------
\* _replay_required_prefix and play_series share the way a given line is played: the
\* item it leads to, the result if it is complete, or neither if it is illegal.
Illegal == [item |-> None, result |-> None]
Replay(s, line) ==
  LET Next(acc, uci) ==
        IF acc.item = None \/ acc.result # None
             \/ ~ \E m \in Playable(s, acc.item) : m.uci = uci
        THEN Illegal
        ELSE LET item == Played(acc.item, CHOOSE m \in Playable(s, acc.item) : m.uci = uci) IN
             [item |-> item,
              result |-> IF Complete(s, item) THEN FinishSeries(s, item)
                         ELSE IF Playable(s, item) = {} THEN StuckResult(s, item) ELSE None]
  IN FoldLeft(Next, [item |-> Start(s), result |-> None], line)

PlaySeries(s, line) ==
  IF line = <<>> THEN IF Replies(s) = {} THEN StuckResult(s, Start(s)) ELSE None
  ELSE Replay(s, line).result

-----------------------------------------------------------------------------
\* generate_series(merge_transpositions=False): every legal series.
RECURSIVE Walk(_, _)
Walk(s, item) ==
  IF Playable(s, item) = {} THEN {StuckResult(s, item)}
  ELSE UNION {LET next == Played(item, m) IN
              IF Complete(s, next) THEN {FinishSeries(s, next)} ELSE Walk(s, next)
              : m \in Playable(s, item)}

-----------------------------------------------------------------------------
(* The merged generator. *)

PathsOf(items) == FoldSet(LAMBDA x, sum : x.paths + sum, 0, items)
First(items) == CHOOSE x \in items : \A y \in items \ {x} : Before(x.moves, y.moves)

\* Mutant: states merge that differ only in whether a pawn moved or was taken.
ClocklessKey(item) == <<item.at, item.ep>>

\* _merge_frontier_states: equal boards, candidates and progress are one state.
FrontierKey(item) == <<item.at, item.ep, item.progress>>
Merged(items) ==
  {LET same == {x \in items : FrontierKey(x) = key} IN
   [First(same) EXCEPT !.paths = PathsOf(same), !.tactics = UNION {x.tactics : x \in same}]
   : key \in {FrontierKey(x) : x \in items}}

\* NativeFrontierScoreConfig.inspect: the forcing moves a state shows.
Visible(s, item) ==
  LET n == Len(item.moves) + 1  side == Side(s.number)  other == Side(s.number + 1)
      mates(m) == Variants(m.next, other, {}) = {} IN
  UNION {Tactics(m, n) \cup (IF <<m.next, other>> \in Checked
                              THEN {<<IF mates(m) THEN Mate ELSE Check, n, m.uci>>} ELSE {})
         : m \in Variants(item.at, side, {})}

\* A beam bounds a layer: its width, whether states are scored (or only ranked by
\* their moves), and whether forcing moves are protected.
\* _frontier_order_key
Better(s, beam, x, y) ==
  LET sign == IF Side(s.number) = "white" THEN -1 ELSE 1
      Score(i) == IF beam.scored THEN sign * Ordering[i.at][Side(s.number)] ELSE 0 IN
  Score(x) < Score(y) \/ (Score(x) = Score(y) /\ Before(x.moves, y.moves))
Foremost(Precedes(_, _), items, k) ==
  {x \in items : Cardinality({y \in items : Precedes(y, x)}) < k}

\* The ordinary places: a quota for each choice of the first free move, the rest by rank.
Ordinary(s, items, after, beam) ==
  LET cap == beam.width
      Ahead(x, y) == Better(s, beam, x, y)
      choice(x) == x.moves[IF after < Len(x.moves) THEN after + 1 ELSE Len(x.moves)]
      quota == Max({1, cap \div Cardinality({choice(x) : x \in items})})
      quotas == {x \in items :
                  Cardinality({y \in items : choice(y) = choice(x) /\ Ahead(y, x)}) < quota}
      first == Foremost(Ahead, quotas, cap)
  IN first \cup Foremost(Ahead, items \ first, cap - Cardinality(first))

\* The reserve: the best state of every opportunity, mates first, up to a bound.
Standing(s, items, shown, beam) ==
  [x \in items |-> {o \in shown[x] :
                     ~ \E y \in items : Better(s, beam, y, x) /\ o \in shown[y]}]
ReservePlaces(s, waiting, standing, beam) ==
  LET kind == [x \in waiting |-> Min({o[1] : o \in standing[x]})]
      Ahead(x, y) == kind[x] < kind[y] \/ (kind[x] = kind[y] /\ Better(s, beam, x, y))
  IN Foremost(Ahead, waiting, Min({2 * beam.width, ReserveMax}))
Waiting(s, items, taken, standing, beam) ==
  ReservePlaces(s, {x \in items \ taken : standing[x] # {}}, standing, beam)
Reserve(s, items, taken, beam) ==
  Waiting(s, items, taken,
          Standing(s, items, [x \in items |-> x.tactics \cup Visible(s, x)], beam), beam)

\* _bound_frontier
Exceeds(items, beam) == beam # None /\ Cardinality(items) > beam.width
Bounded(s, items, after, beam) ==
  LET taken == Ordinary(s, items, after, beam) IN
  IF ~Exceeds(items, beam) THEN items
  ELSE taken \cup IF beam.protect THEN Reserve(s, items, taken, beam) ELSE {}

\* Results that reach one boundary the same way are one series, the longest first.
ResultKey(r) == <<r.final, r.outcome, r.check>>
Unique(results) ==
  {LET same == {r \in results : ResultKey(r) = key}
       longest == {r \in same : \A q \in same : Len(q.moves) <= Len(r.moves)} IN
   [First(longest) EXCEPT !.count = FoldSet(LAMBDA r, sum : r.count + sum, 0, same),
                          !.tactics = UNION {r.tactics : r \in same}]
   : key \in {ResultKey(r) : r \in results}}

\* A complete series that gives check shows that too.
Recorded(r) ==
  IF r.check THEN [r EXCEPT !.tactics = @ \cup
       {<<IF r.outcome = "checkmate" THEN Mate ELSE Check, Len(r.moves), Last(r.moves)>>}]
  ELSE r

\* _merged_series_generation, layer by layer.  (The work it is charged is not counted
\* here: a caller may be stopped at any of its polls.)
Layer(s, going, ended, last, after, beam) ==
  [open |-> Bounded(s, going, after, beam),
   done |-> last.done \cup {StuckResult(s, x) : x \in {y \in last.open : Playable(s, y) = {}}}
              \cup {FinishSeries(s, x) : x \in ended},
   pruned |-> last.pruned \/ Exceeds(going, beam)]
Split(s, next, last, after, beam) ==
  Layer(s, Merged({x \in next : ~Complete(s, x)}), {x \in next : Complete(s, x)},
        last, after, beam)
RECURSIVE Layers(_, _, _, _)
Layers(s, last, after, beam) ==
  IF last.open = {} THEN last
  ELSE Layers(s, Split(s, UNION {{Played(x, m) : m \in Playable(s, x)} : x \in last.open},
                       last, after, beam), after, beam)
Generated(last) ==
  [series |-> Unique({Recorded(r) : r \in last.done}), pruned |-> last.pruned]
FirstLayer(begin) ==
  [open |-> IF begin.result = None THEN {begin.item} ELSE {},
   done |-> {begin.result} \ {None}, pruned |-> FALSE]
GenerateSeries(s, prefix, beam) ==
  Generated(Layers(s, FirstLayer(Replay(s, prefix)), Len(prefix), beam))

-----------------------------------------------------------------------------
\* has_mating_series: depth first, checks before tactical moves; None is "not finished".
RECURSIVE MateWalk(_, _, _, _)
MateWalk(s, item, limit, found) ==
  LET checks(m) == <<m.next, Side(s.number + 1)>> \in Checked
      rank(m) == <<IF checks(m) THEN 0 ELSE 1, IF m.capture \/ m.promotes THEN 0 ELSE 1, m.uci>>
      Try(acc, m) ==
        LET next == Played(item, m)
            key == <<next.at, Len(next.moves), next.ep>>
            more == [acc EXCEPT !.nodes = @ + 1] IN
        IF acc.mate # FALSE THEN acc
        ELSE IF acc.nodes = limit THEN [acc EXCEPT !.mate = None]
        ELSE IF checks(m)
        THEN [more EXCEPT !.mate =
                Variants(m.next, Side(s.number + 1), {e[2] : e \in next.ep}) = {}]
        ELSE IF \/ Len(next.moves) >= s.number
                \/ Playable(s, next) = {}
                \/ key \in acc.visited
        THEN more
        ELSE MateWalk(s, next, limit, [more EXCEPT !.visited = @ \cup {key}])
  IN FoldLeft(Try, found,
              SetToSortSeq(Playable(s, item), LAMBDA m, o : Before(rank(m), rank(o))))

HasMatingSeries(s, limit) ==
  MateWalk(s, Start(s), limit, [nodes |-> 0, visited |-> {}, mate |-> FALSE]).mate

\* quiet_adjudication_status: a draw is never made up.
QuietAdjudicationStatus(s, limit) ==
  CASE s.quiet < 10 \/ Replies(s) = {} -> None
    [] OTHER -> IF s.at \in Dead THEN "proven_draw"
                ELSE IF HasMatingSeries(s, limit) = TRUE THEN "mate_exception"
                ELSE "manual_proof_required"
=============================================================================
