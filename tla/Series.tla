------------------------------- MODULE Series --------------------------------
(***************************************************************************)
(* What the rules, the values of a search and its control share: the side  *)
(* of a series, the order of moves, and the scores and proof intervals of  *)
(* a finished series.                                                      *)
(***************************************************************************)
EXTENDS Integers, FiniteSetsExt, Lists

CONSTANTS
  Calls,          \* calls: root, depth, cap, prefix, all (collect_all_root_scores), on
                  \* (continue_after_root_mate)
  Static,         \* placement -> evaluate().total
  MateScore,
  WideCap,        \* ROOT_CHILD_MATE_SCREEN_FRONTIER, ROOT_ALL_MATING_WIDEN_FRONTIER
  RescueCap,      \* FINAL_FALLBACK_SAFE_RESELECTION_FRONTIER
  None

-----------------------------------------------------------------------------
(* Sides and moves. *)

Side(n) == IF n % 2 = 1 THEN "white" ELSE "black"

\* The order of tuples of moves.
Before(s, t) ==
  \/ IsStrictPrefix(s, t)
  \/ \E i \in DOMAIN s \cap DOMAIN t :
       s[i] < t[i] /\ \A j \in 1..i - 1 : s[j] = t[j]

Mating(r) == r.outcome = "checkmate" /\ r.check

\* _prefer_series
Prefer(series, moves) ==
  LET same == {r \in Range(series) : r.moves = moves}
  IN Among(series, same) \o Among(series, Range(series) \ same)

-----------------------------------------------------------------------------
(* Scores and proofs. *)

Wins(side) == IF side = "white" THEN 1 ELSE -1
Unknown == <<-1, 1>>
Better2(side, x, y) == IF side = "white" THEN x > y ELSE x < y
Worst(side) == -2 * Wins(side) * MateScore

\* _terminal_score and _terminal_proof_bounds
TerminalValue(r, side) ==
  IF r.outcome = "checkmate" THEN IF r.check THEN Wins(side) ELSE -Wins(side) ELSE 0
TerminalScore(r, side, ply) == TerminalValue(r, side) * (MateScore - ply)
TerminalBounds(r, side) == <<TerminalValue(r, side), TerminalValue(r, side)>>

\* Mutant: the branches that were looked at decide alone.
VisitedProofBounds(side, bounds, all) ==
  LET Extreme(values) == IF side = "white" THEN Max(values) ELSE Min(values) IN
  IF bounds = {} THEN Unknown ELSE <<Extreme({b[1] : b \in bounds}), Extreme({b[2] : b \in bounds})>>

\* _combine_proof_bounds: one unknown stands for every branch that was not visited.
CombineProofBounds(side, bounds, all) ==
  LET known == bounds \cup (IF all THEN {} ELSE {Unknown})
      Extreme(values) == IF side = "white" THEN Max(values) ELSE Min(values) IN
  IF bounds = {} THEN Unknown ELSE <<Extreme({b[1] : b \in known}), Extreme({b[2] : b \in known})>>

\* What a node answers: its score, its line, its proof interval and what it leaves behind.
Answer(score, pv, bounds, mem) ==
  [score |-> score, pv |-> pv, bounds |-> bounds, mem |-> mem, pending |-> FALSE]
Terminal(r, side, ply, mem) ==
  Answer(TerminalScore(r, side, ply), <<>>, TerminalBounds(r, side), mem)

Raise(side, alpha, score) == IF side = "white" /\ alpha < score THEN score ELSE alpha
Lower(side, beta, score) == IF side = "black" /\ score < beta THEN score ELSE beta

=============================================================================
