------------------------------ MODULE MCSearch ------------------------------
(***************************************************************************)
(* A small game: placements a to w are quiet but for i and j, where black  *)
(* is in check, as white is in s and t.  j mates black and t mates white;  *)
(* h is a stalemate of white, c is a ladder for white (i, s, then a mate), *)
(* so every series from g falls for one; k must choose between a mated     *)
(* child and the stalemate, the two series from n are worth the same, and  *)
(* from q the mate is not where the narrow frontier looks.                 *)
(***************************************************************************)
EXTENDS SearchTruth

\* Moves: rank, kind, target.  A double step may be captured by the next series only.
Kinds == [plain   |-> [pawn |-> FALSE, capture |-> FALSE, promotes |-> FALSE, makes |-> None, takes |-> None],
          push    |-> [pawn |-> TRUE, capture |-> FALSE, promotes |-> FALSE, makes |-> None, takes |-> None],
          take    |-> [pawn |-> FALSE, capture |-> TRUE, promotes |-> FALSE, makes |-> None, takes |-> None],
          promote |-> [pawn |-> TRUE, capture |-> FALSE, promotes |-> TRUE, makes |-> None, takes |-> None],
          double  |-> [pawn |-> TRUE, capture |-> FALSE, promotes |-> FALSE, makes |-> "e3", takes |-> None],
          passing |-> [pawn |-> TRUE, capture |-> TRUE, promotes |-> FALSE, makes |-> None, takes |-> "e3"]]
move(x) == [uci |-> x[1], from |-> 2 * x[1], to |-> 2 * x[1] + 1, next |-> x[3]] @@ Kinds[x[2]]
White == [
  a |-> {<<7, "plain", "d">>, <<9, "promote", "e">>},  b |-> {<<1, "plain", "e">>, <<3, "double", "c">>},
  c |-> {<<2, "plain", "i">>, <<6, "plain", "i">>},    d |-> {<<1, "plain", "e">>, <<6, "plain", "b">>},
  e |-> {<<5, "take", "j">>, <<6, "plain", "i">>},     f |-> {<<2, "plain", "b">>, <<9, "plain", "e">>},
  g |-> {}, h |-> {}, i |-> {}, j |-> {}, k |-> {}, m |-> {},
  n |-> {<<1, "plain", "o">>, <<2, "plain", "p">>},  o |-> {}, p |-> {},
  q |-> {<<1, "plain", "u">>, <<2, "plain", "v">>},  s |-> {<<8, "push", "b">>}, t |-> {},
  u |-> {<<1, "plain", "w">>},  v |-> {<<1, "plain", "e">>},  w |-> {<<1, "plain", "c">>}]
Black == [
  a |-> {<<1, "plain", "f">>, <<4, "take", "e">>, <<7, "plain", "e">>},    b |-> {<<6, "plain", "s">>, <<9, "plain", "d">>},
  c |-> {<<3, "promote", "d">>, <<5, "plain", "t">>, <<8, "passing", "a">>},
  d |-> {<<6, "promote", "s">>, <<9, "plain", "e">>},  e |-> {<<9, "plain", "d">>},
  f |-> {<<6, "plain", "e">>, <<8, "plain", "c">>},    g |-> {<<1, "plain", "h">>},
  h |-> {<<2, "plain", "c">>},  i |-> {<<8, "plain", "s">>},  j |-> {},  k |-> {<<1, "plain", "m">>},
  m |-> {<<4, "plain", "b">>, <<6, "plain", "h">>},  n |-> {},
  o |-> {<<1, "plain", "e">>},  p |-> {<<2, "plain", "e">>},  q |-> {},  s |-> {},  t |-> {},
  u |-> {}, v |-> {}, w |-> {}]
MCMoves == [p \in DOMAIN White |-> [white |-> {move(x) : x \in White[p]},
                                    black |-> {move(x) : x \in Black[p]}]]
MCChecked == {<<"i", "black">>, <<"j", "black">>, <<"s", "white">>, <<"t", "white">>}
MCOccupied == [p \in DOMAIN MCMoves |-> IF p = "d" THEN {"e3"} ELSE {}]
MCDead == {"b"}
MCUnstable == {"a", "e", "f"}
MCStatic == [a |-> -2, b |-> -1, c |-> 2, d |-> 2, e |-> -2, f |-> -3, g |-> 0, h |-> 1,
             i |-> -3, j |-> -2, k |-> 0, m |-> 0, n |-> 0, o |-> 0, p |-> 3, q |-> 0, s |-> 2, t |-> 0,
             u |-> 0, v |-> 0, w |-> 0]
\* White's score of a placement while a series is under way; black's is the mirrored one.
MCOrder == [a |-> 4, b |-> 0, c |-> 4, d |-> -1, e |-> 4, f |-> 2, g |-> 0, h |-> 0,
            i |-> 0, j |-> -4, k |-> 0, m |-> 0, n |-> 0, o |-> 0, p |-> 0, q |-> 0, s |-> 1, t |-> 2,
            u |-> 2, v |-> 0, w |-> 0]
MCOrdering == [p \in DOMAIN MCMoves |-> [white |-> MCOrder[p], black |-> 3 - MCOrder[p]]]

Root(p, n, quiet) == [at |-> p, number |-> n, quiet |-> quiet, targets |-> {}]
Run(p, n, quiet, d, cap) ==
  [root |-> Root(p, n, quiet), depth |-> d, cap |-> cap, prefix |-> <<>>, all |-> FALSE,
   on |-> FALSE]
MCCalls ==
       {Run(p, n, 0, d, cap) : p \in {"a", "b", "c", "d", "e", "f"}, n \in {1, 2}, d \in {1, 2},
                             cap \in {None, 1, 2}}
  \cup {Run(p, 1, 0, 3, cap) : p \in {"a", "b", "d"}, cap \in {None, 2}}
  \cup {Run("n", 1, 0, 2, None), Run("q", 3, 0, 1, 1)}
  \cup {Run(p, 2, 0, 2, cap) : p \in {"c", "g", "k"}, cap \in {None, 1}}
  \cup {Run(p, n, 9, 2, 1) : p \in {"a", "b", "c", "d", "f"}, n \in {1, 2}}
  \cup {Run(p, 2, 10, 1, 1) : p \in {"a", "b", "c"}}
  \cup {[Run(p, 2, 0, 2, 2) EXCEPT !.all = TRUE] : p \in {"a", "b"}}
  \cup {[Run("a", 2, 0, 2, 1) EXCEPT !.prefix = <<u>>, !.on = TRUE] : u \in {1, 7}}

\* Every boundary that a call may meet.
RECURSIVE Reach(_, _)
Reach(S, n) ==
  IF n = 0 THEN S
  ELSE S \cup Reach({r.final : r \in {x \in UNION {Walk(s, Start(s)) : s \in S} :
                                        x.outcome = None}}, n - 1)
MCPositions == UNION {Reach({c.root}, c.depth + 1) : c \in MCCalls}

\* What the modules of values compute for it.
MCMatingSeries == MateTable
MCLadders == LadderPositions
MCQuiet == QuietTable

\* A child's answer: the recursion is entered by its own name, so that a coverage report
\* unfolds it once.
MCMinimax(ctx, s, d, alpha, beta, ply, left) == MinimaxOf(ctx, s, d, alpha, beta, ply, left)
MCProbed(ctx, s, d, alpha, beta, ply, side, left) == ProbedOf(ctx, s, d, alpha, beta, ply, side, left)
=============================================================================
