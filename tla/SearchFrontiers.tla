--------------------------- MODULE SearchFrontiers ---------------------------
(***************************************************************************)
(* search.py: what a node of the search is made of.  The ordered and       *)
(* capped frontier of a boundary, what the mate solvers find there, and    *)
(* the tables of these over the boundaries of an instance.                 *)
(***************************************************************************)
EXTENDS SeriesRules, TLC

CONSTANTS
  Protect,        \* is the tactical reserve on?
  Positions,      \* the boundaries a call can meet
  MateLimit       \* has_mating_series' node limit

-----------------------------------------------------------------------------
(* Frontiers: what a node's generation retains, in order. *)

Line(r) == [moves |-> r.moves, final |-> r.final, check |-> r.check, outcome |-> r.outcome]

\* _ordered: static order, best for the mover first.
StaticScore(r, side) ==
  IF r.outcome = None THEN Static[r.final.at] ELSE TerminalScore(r, side, 1)
Ordered(results, side) ==
  SetToSortSeq(results, LAMBDA x, y :
    LET a == StaticScore(x, side)  b == StaticScore(y, side) IN
    Better2(side, a, b) \/ (a = b /\ Before(x.moves, y.moves)))

\* Past the cap: mates, half of the places by rank, one series of every kind of tactic,
\* then by rank again; always in static order.
RECURSIVE Fill(_, _, _)
Fill(taken, seq, cap) ==
  IF seq = <<>> \/ Cardinality(taken) = cap THEN taken
  ELSE Fill(taken \cup {Head(seq)}, Tail(seq), cap)
NewTactics(ordered, i) ==
  {o \in ordered[i].tactics : \A j \in 1..i - 1 : o \notin ordered[j].tactics}
Representatives(ordered) ==
  LET kind(i) == Min({o[1] : o \in NewTactics(ordered, i)})
      order == SetToSortSeq({i \in DOMAIN ordered : NewTactics(ordered, i) # {}},
                 LAMBDA i, j : kind(i) < kind(j) \/ (kind(i) = kind(j) /\ i < j))
  IN [n \in DOMAIN order |-> ordered[order[n]]]
Kept(ordered, cap) ==
  LET quota == Min({Max({1, (cap + 1) \div 2}), Len(ordered)})
      mates == Fill({}, SelectSeq(ordered, Mating), cap)
      half  == Fill(mates, SubSeq(ordered, 1, quota), cap)
  IN Fill(Fill(half, Representatives(ordered), cap), ordered, cap)
Chosen(ordered, kept) == SelectSeq(ordered, LAMBDA r : r \in kept)
Retained(ordered, cap) ==
  CASE cap = None -> ordered
    [] OTHER -> IF Len(ordered) <= cap THEN ordered
                ELSE IF Protect THEN Chosen(ordered, Kept(ordered, cap))
                ELSE SubSeq(ordered, 1, cap)

\* _generate and _ordered_generated
Beam(cap) == IF cap = None THEN None ELSE [width |-> cap, scored |-> TRUE, protect |-> Protect]
Frontier(made, kept) ==
  [series |-> [i \in DOMAIN kept |-> Line(kept[i])],
   complete |-> ~made.pruned /\ Len(kept) = Cardinality(made.series)]
OrderedGenerated(made, s, cap) ==
  Frontier(made, Retained(Ordered(made.series, Side(s.number)), cap))
GenerateFrontier(s, prefix, cap) ==
  OrderedGenerated(GenerateSeries(s, prefix, Beam(cap)), s, cap)

\* _generate_root_seed
RootSeed(s, prefix) ==
  First(GenerateSeries(s, prefix, [width |-> 1, scored |-> FALSE, protect |-> FALSE]).series)

-----------------------------------------------------------------------------
(* What find_native_series_mate and the ladder solver find: a mate in one series; and a *)
(* check with a single legal reply, itself a check, that is mated.                      *)

MatesOf(s) == {Line(r) : r \in {x \in Walk(s, Start(s)) : Mating(x)}}
HasLadder(s) ==
  \E a \in Walk(s, Start(s)) :
    /\ a.check /\ a.outcome = None /\ Cardinality(Replies(a.final)) = 1
    /\ \E b \in Walk(a.final, Start(a.final)) :
         Len(b.moves) = 1 /\ b.check /\ b.outcome = None /\ MatesOf(b.final) # {}

-----------------------------------------------------------------------------
(* The tables: generation at every node for the cap of the call, at the root also for *)
(* the wider caps.                                                                    *)

Generations(calls) ==
  {<<s, <<>>, c.cap>> : s \in Positions, c \in calls} \cup
  UNION {{<<c.root, c.prefix, c.cap>>, <<c.root, c.prefix, WideCap>>,
          <<c.root, <<>>, RescueCap>>} : c \in calls}
FrontierTable == [x \in Generations(Calls) |-> GenerateFrontier(x[1], x[2], x[3])] @@ <<>>
FrontierAt(s, prefix, cap) == FrontierTable[<<s, prefix, cap>>]
MateTable ==
  [s \in Positions |-> LET mates == MatesOf(s) IN IF mates = {} THEN None ELSE First(mates)] @@ <<>>
LadderPositions == {s \in Positions : HasLadder(s)}
QuietTable == [s \in Positions |-> QuietAdjudicationStatus(s, MateLimit)] @@ <<>>
=============================================================================
