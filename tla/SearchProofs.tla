---------------------------- MODULE SearchProofs ----------------------------
(***************************************************************************)
(* A call of the search keeps what it learnt about the candidates of a     *)
(* root, and publishes no move that it knows to lose: for any frontiers,   *)
(* mates, ladders, values and limits.                                      *)
(***************************************************************************)
EXTENDS Search, ListProofs

\* Candidates that no two moves name twice, and a list of such.
Solo(scored) == \A c, d \in scored : c.series.moves = d.series.moves => c = d
Alternatives(list) == list \in Seq(Range(list)) /\ Distinct(list) /\ Solo(Range(list))

\* What is scored, of which nothing is left to score and nothing is excluded.
Apart(scored, rest, excluded) ==
  /\ IsFiniteSet(scored) /\ Solo(scored)
  /\ \A c \in scored : /\ c.series \in Lines(call) /\ c.series \notin Range(rest)
                       /\ c.series.moves \notin excluded
Left(rest, excluded) ==
  /\ rest \in Seq(Lines(call)) /\ Distinct(rest)
  /\ \A r \in Range(rest) : r.moves \notin excluded

Shaped ==
  /\ call \in Calls
  /\ DOMAIN evidence = {"overrides", "repaired", "repairs", "vetoes", "ladders", "widened",
                        "exhausted", "unknown", "spare"}
  /\ DOMAIN winner = {"score", "pv", "alternatives", "proof"}
  /\ DOMAIN report = {"best", "completed", "complete", "kept", "timedOut", "workLimit",
                      "adjudication"}
  /\ DOMAIN report.best = {"score", "pv", "alternatives", "proof"}

\* The caches of mates are true, whoever filled them.
Known == \A s \in DOMAIN screened : screened[s] = MatingSeries[s]

WideKept ==
  \/ evidence.widened = None
  \/ evidence.widened \in FrontiersOf(call) /\ Distinct(evidence.widened.series)

Listed == Alternatives(winner.alternatives) /\ Alternatives(report.best.alternatives)

Scanning ==
  pc = "scan" =>
    /\ DOMAIN pass = {"series", "rest", "complete", "scored", "window", "prior"}
    /\ Left(pass.rest, Excluded) /\ Apart(pass.scored, pass.rest, Excluded)

\* The lanes are entered with a winner that they have not judged yet.
Won ==
  /\ pc \in {"winner", "widen"} => \A c \in Range(winner.alternatives) : c.series \in Lines(call)
  /\ pc = "winner" => notation \notin quarantined
  /\ pc \in {"winner", "screen", "ladder", "certify"} => notation \notin evidence.vetoes
  /\ pc = "screen" => child \notin DOMAIN evidence.overrides
  /\ pc = "repair" => notation \notin evidence.repairs

Barred == evidence.vetoes \cup quarantined
Widening ==
  pc = "widening" =>
    /\ DOMAIN lane = {"rest", "all", "retained", "safe", "adverse", "unknown", "unscored", "cause"}
    /\ Left(lane.rest, Barred) /\ Apart(lane.safe, lane.rest, Barred)
    /\ IsFiniteSet(lane.adverse) /\ Solo(lane.adverse)
    /\ \A c \in lane.adverse :
         /\ c.series \in Lines(call) /\ c.series.moves \notin evidence.vetoes
         /\ c.series.final \in lane.retained \/ c.series \notin Range(lane.rest)

Stopped == pc = "stopped" => IsFiniteSet(stop.scored) /\ Solo(stop.scored)

Rescuing ==
  pc = "rescue" =>
    /\ DOMAIN lane = {"rest", "limited", "gated"}
    /\ lane.rest \in Seq(Range(lane.rest)) /\ Distinct(lane.rest)
    /\ \A r, t \in Range(lane.rest) : r.moves = t.moves => r = t
    /\ \A r \in Range(lane.rest) : r.moves \notin vetoed \cup quarantined

\* What is published is not rejected, and then it is known to be safe.
Stands ==
  Undecided => MatingSeries[published.final] = None /\ published.moves \notin vetoed \cup quarantined
Gated ==
  /\ pc = "adjudicate" => report.best.pv = <<>>
  /\ pc = "gate" => (report.best.pv # <<>> => published.moves \notin vetoed \cup quarantined)
  /\ pc \in {"ladder-gate", "close", "done"} => Stands

Inv ==
  /\ Shaped /\ Known /\ WideKept /\ Listed
  /\ Scanning /\ Won /\ Widening /\ Stopped /\ Rescuing /\ Gated

-----------------------------------------------------------------------------
(* Lists of candidates. *)

LEMMA OwnSeq ==
  ASSUME NEW T, NEW s \in Seq(T)
  PROVE  s \in Seq(Range(s)) /\ Range(s) \subseteq T
<1>1. DOMAIN s = 1 .. Len(s) /\ Len(s) \in Nat /\ \A i \in DOMAIN s : s[i] \in T
  BY LenProperties, ElementOfSeq
<1>2. s \in [1 .. Len(s) -> Range(s)]
  BY <1>1 DEF Range
<1>3. QED
  BY <1>1, <1>2 DEF Range

LEMMA EmptyList ==
  Alternatives(<<>>) /\ Range(<<>>) = {} /\ Distinct(<<>>) /\ \A T : <<>> \in Seq(T)
BY DEF Alternatives, Range, Distinct, Solo

LEMMA OneList ==
  ASSUME NEW c
  PROVE  Alternatives(<<c>>)
<1>1. Range(<<c>>) = {c} /\ Distinct(<<c>>)
  BY DEF Range, Distinct
<1>2. <<c>> \in Seq({c})
  OBVIOUS
<1>3. QED
  BY <1>1, <1>2 DEF Alternatives, Solo

LEMMA AmongAlternatives ==
  ASSUME NEW list, Alternatives(list), NEW S
  PROVE  Alternatives(Among(list, S)) /\ Range(Among(list, S)) = Range(list) \cap S
<1>1. /\ Among(list, S) \in Seq(Range(list)) /\ Range(Among(list, S)) = Range(list) \cap S
      /\ Distinct(Among(list, S))
  BY AmongLists DEF Alternatives
<1>2. Among(list, S) \in Seq(Range(Among(list, S)))
  BY <1>1, OwnSeq
<1>3. QED
  BY <1>1, <1>2 DEF Alternatives, Solo

\* The first of a list that is not empty is in it.
LEMMA FirstIn ==
  ASSUME NEW T, NEW s \in Seq(T), s # <<>>
  PROVE  1 \in DOMAIN s /\ s[1] \in Range(s)
<1>1. DOMAIN s = 1 .. Len(s) /\ Len(s) \in Nat /\ Len(s) # 0
  BY LenProperties, EmptySeq
<1>2. QED
  BY <1>1 DEF Range

\* A sorted set of candidates is a list of alternatives, led by one of them.
LEMMA SortedAlternatives ==
  ASSUME NEW S, IsFiniteSet(S), Solo(S), NEW before
  PROVE  LET list == Sorted(S, before) IN
         Alternatives(list) /\ Range(list) = S /\ (S # {} => list[1] \in S)
<1> DEFINE list == Sorted(S, before)
<1>1. list \in Seq(S) /\ Distinct(list) /\ Range(list) = S
  BY SortedLists
<1> HIDE DEF list
<1>2. S # {} => list # <<>>
  BY <1>1, EmptyList
<1>3. QED
  BY <1>1, <1>2, FirstIn DEF Alternatives, list

LEMMA OrdersAre ==
  ASSUME NEW S, IsFiniteSet(S), Solo(S), NEW side
  PROVE  /\ LET list == RootOrder(side, S) IN
            Alternatives(list) /\ Range(list) = S /\ (S # {} => list[1] \in S)
         /\ LET list == ProofSafeOrder(side, S) IN
            Alternatives(list) /\ Range(list) = S /\ (S # {} => list[1] \in S)
<1>1. PICK b : RootOrder(side, S) = Sorted(S, b)
  BY DEF RootOrder
<1>2. PICK d : ProofSafeOrder(side, S) = Sorted(S, d)
  BY DEF ProofSafeOrder
<1>3. QED
  BY <1>1, <1>2, SortedAlternatives

LEMMA WinnerIs ==
  ASSUME NEW order, NEW proof
  PROVE  LET w == WinnerOf(order, proof) IN
         /\ DOMAIN w = {"score", "pv", "alternatives", "proof"}
         /\ w.pv[1] = order[1].series /\ w.alternatives = order
BY DEF WinnerOf, Led

LEMMA NoWinnerIs ==
  /\ DOMAIN NoWinner = {"score", "pv", "alternatives", "proof"}
  /\ NoWinner.pv = <<>> /\ NoWinner.alternatives = <<>>
BY DEF NoWinner

LEMMA OnlyMoveIs ==
  ASSUME NEW r
  PROVE  /\ DOMAIN OnlyMove(r) = {"score", "pv", "alternatives", "proof"}
         /\ OnlyMove(r).pv # <<>> /\ OnlyMove(r).pv[1] = r /\ OnlyMove(r).alternatives = <<>>
BY NoWinnerIs DEF OnlyMove

-----------------------------------------------------------------------------
(* Frontiers. *)

LEMMA AskedAre ==
  ASSUME call \in Calls
  PROVE  /\ \A f \in Asked(call) : f \in FrontiersOf(call) /\ Distinct(f.series)
         /\ None \notin FrontiersOf(call)
         /\ \A r, t \in Lines(call) : r.moves = t.moves => r = t
BY SearchAssumption DEF Distinct

LEMMA PreferIs ==
  ASSUME NEW T, NEW series \in Seq(T), Distinct(series), NEW moves
  PROVE  Prefer(series, moves) \in Seq(T) /\ Distinct(Prefer(series, moves))
<1> DEFINE same == {r \in Range(series) : r.moves = moves}
           a == Among(series, same)
           b == Among(series, Range(series) \ same)
<1>1. a \in Seq(T) /\ Distinct(a) /\ Range(a) = Range(series) \cap same
  <2> HIDE DEF same
  <2>1. QED
    BY AmongLists
<1>2. b \in Seq(T) /\ Distinct(b) /\ Range(b) = Range(series) \cap (Range(series) \ same)
  <2> HIDE DEF same
  <2>1. QED
    BY AmongLists
<1>3. Prefer(series, moves) = a \o b
  BY DEF Prefer
<1> HIDE DEF a, b
<1>4. Range(a) \cap Range(b) = {}
  BY <1>1, <1>2
<1>5. QED
  BY <1>1, <1>2, <1>3, <1>4, Joined

LEMMA Frontier0Is ==
  ASSUME Shaped, WideKept
  PROVE  Frontier0.series \in Seq(Lines(call)) /\ Distinct(Frontier0.series)
<1> DEFINE known == Frontiers(root, call.prefix, call.cap)
<1>1. CASE evidence.widened # None
  BY <1>1 DEF WideKept, Frontier0, FrontiersOf
<1>2. CASE evidence.widened = None
  <2>1. known \in FrontiersOf(call) /\ Distinct(known.series)
    BY AskedAre DEF Shaped, Asked, root
  <2>2. known \in [series : Seq(Lines(call)), complete : BOOLEAN]
    BY <2>1 DEF FrontiersOf
  <2> HIDE DEF known
  <2>3. PICK moves : Frontier0 = known \/ Frontier0 = [known EXCEPT !.series = Prefer(@, moves)]
    BY <1>2 DEF Frontier0, LeadingBest, known
  <2>4. QED
    BY <2>1, <2>2, <2>3, PreferIs
<1>3. QED
  BY <1>1, <1>2

\* What is not excluded of a list of distinct series.
LEMMA UnexcludedIs ==
  ASSUME NEW T, NEW series \in Seq(T), Distinct(series)
  PROVE  LET list == Unexcluded(series) IN
         /\ list \in Seq(T) /\ Distinct(list)
         /\ \A r \in Range(list) : r \in Range(series) /\ r.moves \notin Excluded
<1> DEFINE S == {r \in Range(series) : r.moves \notin Excluded}
<1>1. Unexcluded(series) = Among(series, S)
  BY DEF Unexcluded
<1>2. \A r \in S : r \in Range(series) /\ r.moves \notin Excluded
  OBVIOUS
<1> HIDE DEF S
<1>3. QED
  BY <1>1, <1>2, AmongLists

-----------------------------------------------------------------------------
(* Every step keeps the invariant. *)

LEMMA InitHolds == ASSUME Init PROVE Inv
<1> USE DEF Init
<1>1. Shaped /\ Known /\ WideKept
  BY NoWinnerIs DEF Shaped, Known, WideKept, FreshEvidence, Nowhere
<1>2. Listed
  BY NoWinnerIs, EmptyList DEF Listed
<1>3. Scanning /\ Won /\ Widening /\ Stopped /\ Rescuing
  BY DEF Scanning, Won, Widening, Stopped, Rescuing
<1>4. Gated
  BY NoWinnerIs DEF Gated
<1>5. QED
  BY <1>1, <1>2, <1>3, <1>4 DEF Inv

LEMMA AdjudicateKeeps == ASSUME Inv, Adjudicate PROVE Inv'
<1> USE DEF Inv, Adjudicate
<1>1. /\ DOMAIN report' = DOMAIN report /\ DOMAIN report'.best = DOMAIN report.best
      /\ report'.best.pv = <<>> /\ Alternatives(report'.best.alternatives)
  <2>1. CASE report'.best = report.best /\ DOMAIN report' = DOMAIN report
    BY <2>1 DEF Shaped, Gated, Listed
  <2>2. ASSUME NEW a, NEW p, PublishNothing(a, p)
        PROVE  /\ DOMAIN report' = DOMAIN report /\ DOMAIN report'.best = DOMAIN report.best
               /\ report'.best.pv = <<>> /\ Alternatives(report'.best.alternatives)
    <3> DEFINE b == [NoWinner EXCEPT !.proof = p, !.score = 0]
    <3>1. /\ DOMAIN b = {"score", "pv", "alternatives", "proof"} /\ b.pv = <<>>
          /\ b.alternatives = <<>>
      BY NoWinnerIs
    <3> HIDE DEF b
    <3>2. report'.best = b /\ DOMAIN report' = DOMAIN report
      BY <2>2 DEF PublishNothing, b, Shaped
    <3>3. QED
      BY <3>1, <3>2, EmptyList DEF Shaped
  <2>3. QED
    BY <2>1, <2>2 DEF Shaped
<1>2. Shaped' /\ Listed' /\ Known' /\ WideKept'
  <2>1. Shaped' /\ Listed'
    BY <1>1 DEF Shaped, Listed
  <2>2. Known' /\ WideKept'
    BY DEF Known, WideKept, Lines, Asked, FrontiersOf, root
  <2>3. QED
    BY <2>1, <2>2
<1>3. Scanning' /\ Won' /\ Widening' /\ Stopped' /\ Rescuing'
  BY DEF Scanning, Won, Widening, Stopped, Rescuing, PublishNothing
<1>4. Gated'
  BY <1>1 DEF Gated, Stands, Undecided, PublishNothing
<1>5. QED
  BY <1>2, <1>3, <1>4

LEMMA EnterDepthKeeps == ASSUME Inv, EnterDepth PROVE Inv'
<1> USE DEF Inv, EnterDepth
<1>1. Shaped' /\ Listed' /\ Known' /\ WideKept'
  <2>1. Shaped' /\ Listed'
    BY OneList DEF Shaped, Listed, FreshEvidence
  <2>2. Known' /\ WideKept'
    BY DEF Known, WideKept, FreshEvidence
  <2>3. QED
    BY <2>1, <2>2
<1>2. Scanning' /\ Won' /\ Widening' /\ Stopped' /\ Rescuing' /\ Gated'
  BY DEF Scanning, Won, Widening, Stopped, Rescuing, Gated
<1>3. QED
  BY <1>1, <1>2

\* A step that stops the depth, of a call whose lists stay as they are.
StopsHere ==
  /\ pc' = "stopped" /\ IsFiniteSet(stop'.scored) /\ Solo(stop'.scored)
  /\ UNCHANGED <<call, evidence, winner>>
  /\ DOMAIN report' = DOMAIN report /\ report'.best = report.best
  /\ Known'

LEMMA StopsHereKeeps == ASSUME Inv, StopsHere PROVE Inv'
<1> USE DEF Inv, StopsHere
<1>1. Shaped' /\ Listed' /\ Known' /\ WideKept'
  BY DEF Shaped, Listed, WideKept, Lines, Asked, FrontiersOf, root
<1>2. Scanning' /\ Won' /\ Widening' /\ Stopped' /\ Rescuing' /\ Gated'
  BY DEF Scanning, Won, Widening, Stopped, Rescuing, Gated
<1>3. QED
  BY <1>1, <1>2

LEMMA NothingScored == IsFiniteSet({}) /\ Solo({})
BY FS_EmptySet DEF Solo

LEMMA InterruptedStops ==
  ASSUME NEW scored, NEW cause, NEW fallback, PassInterrupted(scored, cause, fallback)
  PROVE  pc' = "stopped" /\ (stop'.scored = scored \/ stop'.scored = {})
<1> DEFINE simple == Plain /\ ~ScreenRequired
<1>1. CASE simple
  <2>1. Raised("interrupted", scored, cause, fallback)
    BY <1>1, Zenon DEF PassInterrupted
  <2>2. QED
    BY <2>1 DEF Raised
<1>2. CASE ~ simple
  <2>1. \E kept : \/ Raised("interrupted", {}, cause, kept)
                  \/ Failed(cause)
                  \/ Raised("raw", {}, cause, None)
    BY <1>2, Zenon DEF PassInterrupted
  <2>2. QED
    BY <2>1 DEF Raised, Failed
<1>3. QED
  BY <1>1, <1>2

LEMMA FailedStops ==
  ASSUME NEW cause, PassFailed(cause)
  PROVE  pc' = "stopped" /\ stop'.scored = {}
BY DEF PassFailed, Raised, Failed

LEMMA StartPassKeeps == ASSUME Inv, StartPass PROVE Inv'
<1> USE DEF Inv, StartPass, EnterWith, Enter
<1> DEFINE open == Unexcluded(Frontier0.series)
<1>1. /\ open \in Seq(Lines(call)) /\ Distinct(open)
      /\ \A r \in Range(open) : r.moves \notin Excluded
  BY Frontier0Is, UnexcludedIs
<1> HIDE DEF open
<1>2. Shaped' /\ Known' /\ WideKept'
  BY NoWinnerIs DEF Shaped, Known, WideKept, Lines, Asked, FrontiersOf, root, open
<1>3. Listed'
  BY NoWinnerIs, EmptyList DEF Shaped, Listed, open
<1>4. Scanning'
  <2> SUFFICES ASSUME pc' = "scan"
               PROVE  Scanning'
    BY DEF Scanning
  <2>1. /\ pass' = [series |-> open, rest |-> open, complete |-> Frontier0.complete,
                    scored |-> {}, window |-> full, prior |-> FALSE]
        /\ UNCHANGED <<call, evidence, vetoed, quarantined>>
    BY DEF open
  <2>2. Excluded' = Excluded /\ Lines(call)' = Lines(call)
    BY <2>1 DEF Excluded, Lines, Asked, root
  <2>3. Left(open, Excluded) /\ Apart({}, open, Excluded)
    BY <1>1, NothingScored DEF Left, Apart
  <2>4. QED
    BY <2>1, <2>2, <2>3 DEF Scanning, Left, Apart
<1>5. Won' /\ Widening' /\ Stopped' /\ Rescuing' /\ Gated'
  BY DEF Won, Widening, Stopped, Rescuing, Gated
<1>6. QED
  BY <1>2, <1>3, <1>4, <1>5

LEMMA InterruptFrontierKeeps == ASSUME Inv, InterruptFrontier PROVE Inv'
<1>1. pc' = "stopped" /\ stop'.scored = {}
  BY InterruptedStops, FailedStops DEF InterruptFrontier
<1>2. StopsHere
  BY <1>1, NothingScored DEF StopsHere, InterruptFrontier, Inv, Known
<1>3. QED
  BY <1>2, StopsHereKeeps

LEMMA InterruptPassKeeps == ASSUME Inv, InterruptPass PROVE Inv'
<1>1. pc' = "stopped" /\ (stop'.scored = pass.scored \/ stop'.scored = {})
  BY InterruptedStops DEF InterruptPass
<1>2. IsFiniteSet(pass.scored) /\ Solo(pass.scored)
  BY DEF InterruptPass, Inv, Scanning, Apart
<1>3. StopsHere
  BY <1>1, <1>2, NothingScored DEF StopsHere, InterruptPass, Inv, Known
<1>4. QED
  BY <1>3, StopsHereKeeps

LEMMA ScoredSeries ==
  ASSUME NEW r, NEW score, NEW pv, NEW bounds
  PROVE  Scored(r, score, pv, bounds).series = r
BY DEF Scored

\* The head of what is left leaves it: it may be scored, or excluded.
LEMMA HeadLeaves ==
  ASSUME call \in Calls, NEW rest, NEW excluded, Left(rest, excluded), rest # <<>>
  PROVE  /\ Head(rest) \in Lines(call) /\ Head(rest) \in Range(rest)
         /\ Head(rest).moves \notin excluded
         /\ Left(Tail(rest), excluded \cup {Head(rest).moves})
         /\ Head(rest) \notin Range(Tail(rest)) /\ Range(Tail(rest)) \subseteq Range(rest)
<1>1. /\ Head(rest) \in Lines(call) /\ Head(rest) \in Range(rest)
      /\ Tail(rest) \in Seq(Lines(call)) /\ Range(Tail(rest)) \subseteq Range(rest)
      /\ Distinct(Tail(rest)) /\ Head(rest) \notin Range(Tail(rest))
  BY TailLists DEF Left
<1>2. \A r \in Range(Tail(rest)) : r \in Lines(call)
  BY <1>1, OwnSeq
<1>3. \A r \in Range(Tail(rest)) : r.moves # Head(rest).moves
  BY <1>1, <1>2, AskedAre
<1>4. QED
  BY <1>1, <1>3 DEF Left

\* What is apart from the list stays so when its head is excluded, or is scored.
LEMMA ApartStays ==
  ASSUME call \in Calls, NEW rest, NEW excluded, NEW scored,
         Left(rest, excluded), rest # <<>>, Apart(scored, rest, excluded)
  PROVE  /\ Apart(scored, Tail(rest), excluded \cup {Head(rest).moves})
         /\ \A c : c.series = Head(rest) => Apart(scored \cup {c}, Tail(rest), excluded)
<1>1. /\ Head(rest) \in Lines(call) /\ Head(rest) \in Range(rest)
      /\ Head(rest).moves \notin excluded
      /\ Head(rest) \notin Range(Tail(rest)) /\ Range(Tail(rest)) \subseteq Range(rest)
  BY HeadLeaves
<1>2. \A c \in scored : c.series.moves # Head(rest).moves
  BY <1>1, AskedAre DEF Apart
<1>3. Apart(scored, Tail(rest), excluded \cup {Head(rest).moves})
  BY <1>1, <1>2 DEF Apart
<1>4. ASSUME NEW c, c.series = Head(rest)
      PROVE  Apart(scored \cup {c}, Tail(rest), excluded)
  <2>1. IsFiniteSet(scored \cup {c})
    BY FS_AddElement DEF Apart
  <2>2. Solo(scored \cup {c})
    BY <1>2, <1>4 DEF Apart, Solo
  <2>3. QED
    BY <1>1, <1>4, <2>1, <2>2 DEF Apart
<1>5. QED
  BY <1>3, <1>4

LEMMA ScoreCandidateKeeps == ASSUME Inv, ScoreCandidate PROVE Inv'
<1> DEFINE r == Head(pass.rest)
<1>1. PICK value, exact, c : Take(r, value, exact, c) /\ c.series = r
  BY ScoredSeries DEF ScoreCandidate, Valued, Tied, TakeValue
<1>2. /\ call \in Calls /\ Left(pass.rest, Excluded) /\ Apart(pass.scored, pass.rest, Excluded)
      /\ pass.rest # <<>>
  BY DEF ScoreCandidate, Inv, Shaped, Scanning
<1>3. /\ UNCHANGED <<call, depth, screened, evidence, vetoed, winner, lane, spared, mateNow>>
      /\ pc = "scan" /\ DOMAIN pass = {"series", "rest", "complete", "scored", "window", "prior"}
  BY DEF ScoreCandidate, Inv, Scanning
<1>4. CASE value.pending
  <2>1. /\ pc' = "stopped" /\ stop'.scored = {} /\ report' = [report EXCEPT !.complete = FALSE]
    BY <1>1, <1>4 DEF Take, Raised
  <2>2. StopsHere
    BY <1>3, <2>1, NothingScored DEF StopsHere, Inv, Known, Shaped
  <2>3. QED
    BY <2>2, StopsHereKeeps
<1>5. CASE ~ value.pending
  <2>1. /\ pc' = "scan" /\ DOMAIN pass' = DOMAIN pass
        /\ report' = report \/ report' = [report EXCEPT !.complete = FALSE]
    BY <1>1, <1>3, <1>5 DEF Take, Quarantine
  <2>2. Left(pass'.rest, Excluded') /\ Apart(pass'.scored, pass'.rest, Excluded')
    <3>1. /\ Left(Tail(pass.rest), Excluded \cup {r.moves})
          /\ Apart(pass.scored, Tail(pass.rest), Excluded \cup {r.moves})
          /\ Apart(pass.scored \cup {c}, Tail(pass.rest), Excluded)
      BY <1>1, <1>2, HeadLeaves, ApartStays
    <3>2. CASE exact /\ ~ Publishable(side0, c)
      <4>1. /\ pass'.rest = Tail(pass.rest) /\ pass'.scored = pass.scored
            /\ Excluded' = Excluded \cup {r.moves}
        BY <1>1, <1>3, <1>5, <3>2 DEF Take, Quarantine, Excluded
      <4>2. QED
        BY <3>1, <4>1
    <3>3. CASE ~ (exact /\ ~ Publishable(side0, c))
      <4>1. /\ pass'.rest = Tail(pass.rest) \/ pass'.rest = <<>>
            /\ pass'.scored = pass.scored \/ pass'.scored = pass.scored \cup {c}
            /\ Excluded' = Excluded
        BY <1>1, <1>3, <1>5, <3>3 DEF Take, Excluded
      <4>2. QED
        BY <3>1, <4>1, EmptyList DEF Left, Apart
    <3>4. QED
      BY <3>2, <3>3
  <2>3. Shaped' /\ Known' /\ WideKept' /\ Listed'
    BY <1>3, <2>1 DEF Inv, Shaped, Known, WideKept, Listed, Lines, Asked, FrontiersOf, root
  <2>4. Lines(call)' = Lines(call)
    BY <1>3
  <2>5. Scanning'
    BY <1>3, <2>1, <2>2, <2>4 DEF Scanning, Left, Apart
  <2>6. Won' /\ Widening' /\ Stopped' /\ Rescuing' /\ Gated'
    BY <2>1 DEF Won, Widening, Stopped, Rescuing, Gated
  <2>7. QED
    BY <2>3, <2>5, <2>6 DEF Inv
<1>6. QED
  BY <1>4, <1>5

LEMMA EndPassKeeps == ASSUME Inv, EndPass PROVE Inv'
<1> DEFINE order == ProofSafeOrder(side0, pass.scored)
<1>1. /\ UNCHANGED <<call, screened, evidence, vetoed, quarantined>>
      /\ pass.rest = <<>> /\ pc = "scan" /\ \E b : report' = [report EXCEPT !.complete = b]
      /\ Apart(pass.scored, pass.rest, Excluded)
  BY DEF EndPass, Inv, Scanning
<1>2. Alternatives(order) /\ Range(order) = pass.scored
  BY <1>1, OrdersAre DEF Apart
<1> HIDE DEF order
<1>3. CASE pass.scored = {}
  <2>1. winner' = NoWinner /\ pc' = "empty"
    BY <1>3 DEF EndPass
  <2>2. Shaped' /\ Known' /\ WideKept' /\ Listed'
    BY <1>1, <2>1, NoWinnerIs, EmptyList
       DEF Inv, Shaped, Known, WideKept, Listed, Lines, Asked, FrontiersOf, root
  <2>3. Scanning' /\ Won' /\ Widening' /\ Stopped' /\ Rescuing' /\ Gated'
    BY <2>1 DEF Scanning, Won, Widening, Stopped, Rescuing, Gated
  <2>4. QED
    BY <2>2, <2>3 DEF Inv
<1>4. CASE pass.scored # {}
  <2>1. pc' = "winner" /\ \E proof : winner' = WinnerOf(order, proof)
    BY <1>4 DEF EndPass, order
  <2>2. /\ DOMAIN winner' = {"score", "pv", "alternatives", "proof"}
        /\ winner'.pv[1] = order[1].series /\ winner'.alternatives = order
    BY <2>1, WinnerIs
  <2>3. order[1] \in pass.scored
    BY <1>1, <1>4, OrdersAre DEF order, Apart
  <2>4. Shaped' /\ Known' /\ WideKept' /\ Listed'
    BY <1>1, <1>2, <2>2
       DEF Inv, Shaped, Known, WideKept, Listed, Lines, Asked, FrontiersOf, root
  <2>5. Won'
    <3>1. \A c \in Range(order) : c.series \in Lines(call)'
      BY <1>1, <1>2 DEF Apart
    <3>2. notation' \notin quarantined' /\ notation' \notin evidence.vetoes'
      BY <1>1, <2>2, <2>3 DEF Apart, Excluded, notation, selected
    <3>3. QED
      BY <2>1, <2>2, <3>1, <3>2 DEF Won
  <2>6. Scanning' /\ Widening' /\ Stopped' /\ Rescuing' /\ Gated'
    BY <2>1 DEF Scanning, Widening, Stopped, Rescuing, Gated
  <2>7. QED
    BY <2>4, <2>5, <2>6 DEF Inv
<1>5. QED
  BY <1>3, <1>4

\* A step that keeps the shapes: to a place that asks nothing of the lanes, or into one.
Shapely ==
  /\ UNCHANGED call /\ DOMAIN evidence' = DOMAIN evidence
  /\ DOMAIN winner' = {"score", "pv", "alternatives", "proof"} /\ Alternatives(winner'.alternatives)
  /\ DOMAIN report' = DOMAIN report
  /\ DOMAIN report'.best = {"score", "pv", "alternatives", "proof"}
  /\ Alternatives(report'.best.alternatives)
  /\ Known' /\ WideKept'
GoesOn == Shapely /\ pc' \in {"pass", "empty", "accept", "depth", "final", "reselect"}
InLane == Shapely /\ pc' \in {"screen", "ladder", "certify", "repair", "widen"} /\ Won'

LEMMA GoesOnKeeps == ASSUME Inv, GoesOn \/ InLane PROVE Inv'
<1> USE DEF GoesOn, InLane, Shapely
<1>1. Shaped' /\ Listed' /\ Known' /\ WideKept'
  BY DEF Inv, Shaped, Listed
<1>2. Scanning' /\ Won' /\ Widening' /\ Stopped' /\ Rescuing' /\ Gated'
  BY DEF Scanning, Won, Widening, Stopped, Rescuing, Gated
<1>3. QED
  BY <1>1, <1>2 DEF Inv

LEMMA WidenedIs ==
  ASSUME Inv, NEW excluded
  PROVE  /\ Without2(WideFrontier, excluded) \in FrontiersOf(call)
         /\ Distinct(Without2(WideFrontier, excluded).series)
         /\ Without2(WideFrontier, excluded) # None
<1> DEFINE wide == WideFrontier
           S == {r \in Range(wide.series) : r.moves \notin excluded}
<1>1. /\ wide \in [series : Seq(Lines(call)), complete : BOOLEAN] /\ Distinct(wide.series)
      /\ None \notin FrontiersOf(call)
  BY AskedAre DEF Inv, Shaped, Asked, WideFrontier, root, FrontiersOf
<1> HIDE DEF wide
<1>2. Without2(wide, excluded) = [series |-> Among(wide.series, S),
                                  complete |-> wide.complete /\ excluded = {}]
  BY DEF Without2
<1> HIDE DEF S
<1>3. Among(wide.series, S) \in Seq(Lines(call)) /\ Distinct(Among(wide.series, S))
  BY <1>1, AmongLists
<1>4. (wide.complete /\ excluded = {}) \in BOOLEAN
  OBVIOUS
<1>5. Without2(wide, excluded) \in FrontiersOf(call)
  BY <1>2, <1>3, <1>4 DEF FrontiersOf
<1>6. QED
  BY <1>1, <1>2, <1>3, <1>5 DEF wide

LEMMA WidenFrontierKeeps ==
  ASSUME Inv, WidenFrontier
  PROVE  Inv' /\ (pc' = "pass" => evidence'.widened # None)
<1>1. CASE WidenTo(WideFrontier)
  <2>1. PICK excluded : Widened(WideFrontier, Without2(WideFrontier, excluded))
    BY <1>1 DEF WidenTo
  <2> DEFINE open == Without2(WideFrontier, excluded)
  <2>2. open \in FrontiersOf(call) /\ Distinct(open.series) /\ open # None
    BY WidenedIs
  <2>3. evidence' = [evidence EXCEPT !.widened = open] /\ pc' \in {"pass", "empty"}
    BY <2>1 DEF Widened
  <2> HIDE DEF open
  <2>4. evidence'.widened = open /\ DOMAIN evidence' = DOMAIN evidence
    BY <2>3 DEF Inv, Shaped
  <2>5. /\ UNCHANGED <<call, depth, screened, pass, vetoed, quarantined, emergency, winner,
                       lane, report, spared, mateNow>>
    BY DEF WidenFrontier
  <2>6. FrontiersOf(call)' = FrontiersOf(call)
    BY <2>5
  <2>7. GoesOn
    BY <2>2, <2>3, <2>4, <2>5, <2>6 DEF GoesOn, Shapely, Inv, Shaped, Listed, Known, WideKept
  <2>8. QED
    BY <2>2, <2>4, <2>7, GoesOnKeeps
<1>2. CASE ~ WidenTo(WideFrontier)
  <2>1. pc' = "stopped" /\ stop'.scored = {} /\ UNCHANGED evidence
    BY <1>2 DEF WidenFrontier, Raised
  <2>2. StopsHere
    BY <2>1, NothingScored DEF StopsHere, WidenFrontier, Inv, Known
  <2>3. QED
    BY <2>1, <2>2, StopsHereKeeps
<1>3. QED
  BY <1>1, <1>2

LEMMA NothingLeftKeeps == ASSUME Inv, NothingLeft PROVE Inv' /\ pc' # "pass"
<1>1. \/ \E kind, fallback : Raised(kind, {}, None, fallback)
      \/ pc' = "accept"
  <2>1. CASE evidence.vetoes # {}
    <3>1. \/ Raised("ladder", {}, None, ProofSafeOrder(side0, Range(evidence.ladders))[1].series)
          \/ Raised("exhausted", {}, None, None)
      BY <2>1, Zenon DEF NothingLeft
    <3>2. QED
      BY <3>1, Zenon
  <2>2. CASE evidence.vetoes = {} /\ quarantined # {}
    BY <2>2, Zenon DEF NothingLeft
  <2>3. CASE evidence.vetoes = {} /\ quarantined = {}
    BY <2>3, Zenon DEF NothingLeft
  <2>4. QED
    BY <2>1, <2>2, <2>3
<1>2. /\ UNCHANGED <<call, screened, evidence, winner>>
      /\ DOMAIN report' = DOMAIN report /\ report'.best = report.best
  BY DEF NothingLeft, Inv, Shaped
<1>3. Known'
  BY <1>2 DEF Inv, Known
<1>4. CASE \E kind, fallback : Raised(kind, {}, None, fallback)
  <2>1. pc' = "stopped" /\ stop'.scored = {}
    BY <1>4 DEF Raised
  <2>2. StopsHere
    BY <1>2, <1>3, <2>1, NothingScored DEF StopsHere
  <2>3. QED
    BY <2>1, <2>2, StopsHereKeeps
<1>5. CASE pc' = "accept"
  <2>1. WideKept'
    BY <1>2 DEF Inv, WideKept
  <2>2. GoesOn
    BY <1>2, <1>3, <1>5, <2>1 DEF GoesOn, Shapely, Inv, Shaped, Listed
  <2>3. QED
    BY <1>5, <2>2, GoesOnKeeps
<1>6. QED
  BY <1>1, <1>4, <1>5

\* Rejecting a claim remembers the candidate, and starts another pass.
LEMMA RejectClaimIs ==
  ASSUME Inv, NEW w, RejectClaim(w)
  PROVE  /\ pc' = "pass" /\ winner' = w /\ quarantined' = quarantined \cup {w.pv[1].moves}
         /\ DOMAIN evidence' = DOMAIN evidence
         /\ evidence'.overrides = evidence.overrides /\ evidence'.repairs = evidence.repairs
         /\ evidence'.vetoes = evidence.vetoes /\ evidence'.widened = evidence.widened
         /\ DOMAIN report' = DOMAIN report /\ report'.best = report.best
<1>1. \E spare : evidence' = [evidence EXCEPT !.spare = spare]
  BY DEF RejectClaim
<1>2. QED
  BY <1>1 DEF RejectClaim, Quarantine, Inv, Shaped

\* What the four ends of the first lane leave.
LEMMA JudgeIs ==
  ASSUME Inv, Judge
  PROVE  /\ pc = "winner" /\ UNCHANGED <<call, screened>>
         /\ DOMAIN evidence' = DOMAIN evidence
         /\ evidence'.overrides = evidence.overrides /\ evidence'.repairs = evidence.repairs
         /\ evidence'.vetoes = evidence.vetoes /\ evidence'.widened = evidence.widened
         /\ DOMAIN winner' = DOMAIN winner /\ winner'.pv = winner.pv
         /\ winner'.alternatives = winner.alternatives
         /\ DOMAIN report' = DOMAIN report /\ report'.best = report.best
         /\ \/ pc' = "pass" /\ quarantined' = quarantined \cup {notation}
            \/ /\ pc' \in {"accept", "ladder", "screen", "widen"} /\ UNCHANGED quarantined
               /\ pc' = "screen" => child \notin DOMAIN evidence.overrides
<1>1. CASE ~ClaimOk(winner)
  <2>1. RejectClaim(winner) /\ pc = "winner" /\ UNCHANGED <<call, screened>>
    BY <1>1 DEF Judge
  <2>2. QED
    BY <2>1, RejectClaimIs DEF notation, selected
<1>2. CASE ClaimOk(winner) /\ (selected.outcome # None \/ ~ScreenRequired)
  BY <1>2 DEF Judge
<1>3. CASE ClaimOk(winner) /\ ~ (selected.outcome # None \/ ~ScreenRequired)
  <2>1. /\ evidence' = Noted /\ UNCHANGED <<call, screened, quarantined, report>>
        /\ (pc' = "screen" /\ child \notin DOMAIN evidence.overrides) \/ pc' \in {"widen", "accept"}
        /\ winner' = winner \/ winner' = [winner EXCEPT !.proof = None]
    BY <1>3 DEF Judge
  <2>2. \/ evidence' = evidence
        \/ evidence' = [evidence EXCEPT !.exhausted = selected]
        \/ evidence' = [evidence EXCEPT !.unknown = selected]
    BY <2>1 DEF Noted
  <2>3. QED
    BY <2>1, <2>2 DEF Inv, Shaped, Judge
<1>4. QED
  BY <1>1, <1>2, <1>3

LEMMA JudgeKeeps == ASSUME Inv, Judge PROVE Inv'
<1>1. Shapely
  BY JudgeIs DEF Shapely, Inv, Shaped, Listed, Known, WideKept, FrontiersOf, Lines, Asked, root
<1>2. CASE pc' \in {"pass", "accept"}
  BY <1>1, <1>2, GoesOnKeeps DEF GoesOn
<1>3. CASE pc' \in {"ladder", "screen", "widen"}
  <2>1. Won'
    <3>1. pc = "winner" /\ Won
      BY JudgeIs DEF Inv
    <3>2. \A c \in Range(winner.alternatives) : c.series \in Lines(call)'
      BY <3>1, JudgeIs DEF Won
    <3>3. notation' = notation /\ child' = child
      BY JudgeIs DEF notation, child, selected
    <3>4. QED
      BY <1>3, <3>1, <3>2, <3>3, JudgeIs DEF Won
  <2>2. QED
    BY <1>1, <1>3, <2>1, GoesOnKeeps DEF InLane
<1>4. QED
  BY <1>2, <1>3, JudgeIs

\* What is learnt of a mate is true.
LEMMA LearnedTrue ==
  ASSUME NEW known, \A s \in DOMAIN known : known[s] = MatingSeries[s],
         NEW s, NEW answer, answer \notin {"found", "time", "work"} => MatingSeries[s] = None
  PROVE  \A t \in DOMAIN Learned(known, s, answer) : Learned(known, s, answer)[t] = MatingSeries[t]
<1>1. CASE s \in DOMAIN known \/ answer \in {"time", "work"}
  BY <1>1 DEF Learned
<1>2. CASE ~ (s \in DOMAIN known \/ answer \in {"time", "work"})
  <2> DEFINE v == IF answer = "found" THEN MatingSeries[s] ELSE None
  <2>1. v = MatingSeries[s]
    BY <1>2
  <2>2. Learned(known, s, answer) = Put(known, s, v)
    BY <1>2 DEF Learned
  <2> HIDE DEF v
  <2>3. QED
    BY <2>1, <2>2 DEF Put
<1>3. QED
  BY <1>1, <1>2

LEMMA AnswersTrue ==
  ASSUME Known, NEW s, NEW answer \in Answers(s)
  PROVE  /\ answer \in {"found", "exhausted", "time", "work"}
         /\ answer = "exhausted" => MatingSeries[s] = None
         /\ \A t \in DOMAIN Learned(screened, s, answer) :
              Learned(screened, s, answer)[t] = MatingSeries[t]
<1>1. /\ answer \in {"found", "exhausted", "time", "work"}
      /\ answer = "exhausted" => MatingSeries[s] = None
  BY DEF Answers, Truth, Known
<1>2. QED
  BY <1>1, LearnedTrue DEF Known

LEMMA ScreenIs ==
  ASSUME Inv, Screen
  PROVE  /\ pc = "screen" /\ UNCHANGED <<call, quarantined, winner, report>> /\ Known'
         /\ DOMAIN evidence' = DOMAIN evidence
         /\ evidence'.repairs = evidence.repairs /\ evidence'.vetoes = evidence.vetoes
         /\ evidence'.widened = evidence.widened
         /\ \/ pc' = "pass" /\ DOMAIN evidence'.overrides = DOMAIN evidence.overrides \cup {child}
            \/ pc' = "ladder" /\ evidence'.overrides = evidence.overrides
            \/ pc' = "stopped" /\ stop'.scored = {} /\ UNCHANGED evidence
<1> DEFINE shown == Len(winner.pv) > 1 /\ Mating(winner.pv[2])
<1>1. PICK answer \in IF shown THEN {"found"} ELSE Answers(child) :
         /\ screened' = IF shown THEN screened ELSE Learned(screened, child, answer)
         /\ \/ /\ pc' = "pass"
               /\ \E m, u : evidence' = [evidence EXCEPT !.overrides = Put(@, child, m), !.unknown = u]
            \/ pc' = "ladder" /\ evidence' = [evidence EXCEPT !.exhausted = selected]
            \/ pc' = "stopped" /\ stop'.scored = {} /\ UNCHANGED evidence
  <2> DEFINE known(a) == IF shown THEN screened ELSE Learned(screened, child, a)
             mate(a) == IF shown THEN winner.pv[2] ELSE known(a)[child]
  <2>1. PICK answer \in IF shown THEN {"found"} ELSE Answers(child) :
          /\ screened' = known(answer)
          /\ \/ /\ pc' = "pass"
                /\ \E u : evidence' = [evidence EXCEPT !.overrides = Put(@, child, mate(answer)),
                                                       !.unknown = u]
             \/ pc' = "ladder" /\ evidence' = [evidence EXCEPT !.exhausted = selected]
             \/ /\ \/ Raised("raw", {}, answer, None)
                   \/ \E kept : Raised("interrupted", {}, answer, kept)
                /\ UNCHANGED evidence
    BY Zenon DEF Screen
  <2> HIDE DEF mate, shown
  <2>2. Raised("raw", {}, answer, None) \/ (\E kept : Raised("interrupted", {}, answer, kept))
          => pc' = "stopped" /\ stop'.scored = {}
    BY DEF Raised
  <2> HIDE DEF known
  <2>3. QED
    BY <2>1, <2>2, Zenon DEF known
<1>2. pc = "screen" /\ UNCHANGED <<call, quarantined, winner, report>>
  BY DEF Screen
<1>3. Known'
  <2>1. CASE shown
    BY <1>1, <2>1 DEF Inv, Known
  <2>2. CASE ~ shown
    BY <1>1, <2>2, AnswersTrue DEF Inv, Known
  <2>3. QED
    BY <2>1, <2>2
<1>4. CASE \E m, u : evidence' = [evidence EXCEPT !.overrides = Put(@, child, m), !.unknown = u]
  <2>1. PICK m, u : evidence' = [evidence EXCEPT !.overrides = Put(@, child, m), !.unknown = u]
    BY <1>4
  <2>2. /\ DOMAIN evidence' = DOMAIN evidence /\ evidence'.repairs = evidence.repairs
        /\ evidence'.vetoes = evidence.vetoes /\ evidence'.widened = evidence.widened
        /\ evidence'.overrides = Put(evidence.overrides, child, m)
    BY <2>1 DEF Inv, Shaped
  <2>3. DOMAIN evidence'.overrides = DOMAIN evidence.overrides \cup {child}
    BY <2>2 DEF Put
  <2>4. QED
    BY <1>1, <1>2, <1>3, <2>2, <2>3 DEF Inv, Shaped
<1>5. QED
  BY <1>1, <1>2, <1>3, <1>4 DEF Inv, Shaped

LEMMA ScreenKeeps == ASSUME Inv, Screen PROVE Inv'
<1>1. CASE pc' = "stopped"
  <2>1. StopsHere
    BY <1>1, ScreenIs, NothingScored DEF StopsHere
  <2>2. QED
    BY <2>1, StopsHereKeeps
<1>2. Shapely
  BY ScreenIs DEF Shapely, Inv, Shaped, Listed, WideKept, FrontiersOf, Lines, Asked, root
<1>3. CASE pc' = "pass"
  BY <1>2, <1>3, GoesOnKeeps DEF GoesOn
<1>4. CASE pc' = "ladder"
  <2>1. Won'
    <3>1. notation' = notation
      BY ScreenIs DEF notation, selected
    <3>2. QED
      BY <1>4, <3>1, ScreenIs DEF Inv, Won
  <2>2. QED
    BY <1>2, <1>4, <2>1, GoesOnKeeps DEF InLane
<1>5. QED
  BY <1>1, <1>3, <1>4, ScreenIs

LEMMA ForgetIs ==
  ASSUME NEW e, NEW r, DOMAIN e = DOMAIN evidence, Shaped
  PROVE  LET f == Forget(e, r) IN
         /\ DOMAIN f = DOMAIN evidence /\ f.overrides = e.overrides /\ f.repairs = e.repairs
         /\ f.vetoes = e.vetoes /\ f.widened = e.widened
<1>1. \E a, b : Forget(e, r) = [e EXCEPT !.exhausted = a, !.unknown = b]
  BY DEF Forget
<1>2. QED
  BY <1>1 DEF Shaped

LEMMA LadderIs ==
  ASSUME Inv, Ladder
  PROVE  /\ pc = "ladder" /\ UNCHANGED <<call, screened, quarantined, winner, report>>
         /\ DOMAIN evidence' = DOMAIN evidence
         /\ evidence'.overrides = evidence.overrides /\ evidence'.repairs = evidence.repairs
         /\ evidence'.widened = evidence.widened
         /\ \/ pc' = "pass" /\ evidence'.vetoes = evidence.vetoes \cup {notation}
            \/ pc' \in {"accept", "certify"} /\ UNCHANGED evidence
<1> DEFINE e == Forget(evidence, notation)
<1>1. /\ pc = "ladder" /\ UNCHANGED <<call, screened, quarantined, winner, report>>
      /\ \/ /\ pc' = "pass"
            /\ \E l : evidence' = [e EXCEPT !.vetoes = @ \cup {notation}, !.ladders = l]
         \/ pc' \in {"accept", "certify"} /\ UNCHANGED evidence
  BY DEF Ladder
<1>2. /\ DOMAIN e = DOMAIN evidence /\ e.overrides = evidence.overrides
      /\ e.repairs = evidence.repairs /\ e.vetoes = evidence.vetoes
      /\ e.widened = evidence.widened
  BY ForgetIs DEF Inv
<1> HIDE DEF e
<1>3. QED
  BY <1>1, <1>2 DEF Inv, Shaped

LEMMA LadderKeeps == ASSUME Inv, Ladder PROVE Inv'
<1>1. Shapely
  BY LadderIs DEF Shapely, Inv, Shaped, Listed, Known, WideKept, FrontiersOf, Lines, Asked, root
<1>2. CASE pc' \in {"pass", "accept"}
  BY <1>1, <1>2, GoesOnKeeps DEF GoesOn
<1>3. CASE pc' = "certify"
  <2>1. Won'
    <3>1. notation' = notation
      BY LadderIs DEF notation, selected
    <3>2. QED
      BY <1>3, <3>1, LadderIs DEF Inv, Won
  <2>2. QED
    BY <1>1, <1>3, <2>1, GoesOnKeeps DEF InLane
<1>4. QED
  BY <1>2, <1>3, LadderIs

\* The boundaries beyond one that is probed are known to have no mate.
LEMMA AfterMissesTrue ==
  ASSUME Known, NEW i, NoneBeyond(i)
  PROVE  \A s \in DOMAIN AfterMisses(i) : AfterMisses(i)[s] = MatingSeries[s]
<1> DEFINE missed == {At(j) : j \in Missed(i)}
<1>1. \A s \in missed : MatingSeries[s] = None
  BY DEF NoneBeyond
<1>2. AfterMisses(i) =
        [s \in missed \cup DOMAIN screened |-> IF s \in missed THEN None ELSE screened[s]]
  BY DEF AfterMisses
<1> HIDE DEF missed
<1>3. QED
  BY <1>1, <1>2 DEF Known

LEMMA FoundMateKnown ==
  ASSUME Known, NEW i \in Boundaries, Refutes(i), MateAt(i)
  PROVE  Known'
<1>1. CASE Remembered # {}
  BY <1>1 DEF MateAt, Known
<1>2. CASE Remembered = {}
  <2>1. NoneBeyond(i) /\ screened' = Learned(AfterMisses(i), At(i), "found")
    BY <1>2 DEF Refutes, MateAt
  <2> DEFINE known == AfterMisses(i)
             s == At(i)
  <2>2. \A t \in DOMAIN known : known[t] = MatingSeries[t]
    BY <2>1, AfterMissesTrue
  <2> HIDE DEF known, s
  <2>3. screened' = Learned(known, s, "found")
    BY <2>1 DEF known, s
  <2>4. QED
    BY <2>2, <2>3, LearnedTrue DEF Known
<1>3. QED
  BY <1>1, <1>2

LEMMA CertifyIs ==
  ASSUME Inv, Certify
  PROVE  /\ pc = "certify" /\ UNCHANGED <<call, quarantined, winner, report>> /\ Known'
         /\ DOMAIN evidence' = DOMAIN evidence
         /\ evidence'.overrides = evidence.overrides /\ evidence'.repairs = evidence.repairs
         /\ evidence'.widened = evidence.widened
         /\ \/ pc' = "pass" /\ evidence'.vetoes = evidence.vetoes \cup {notation}
            \/ pc' = "accept" /\ UNCHANGED evidence
            \/ pc' = "repair" /\ UNCHANGED evidence /\ notation \notin evidence.repairs
            \/ pc' = "stopped" /\ stop'.scored = {} /\ UNCHANGED evidence
<1>1. pc = "certify" /\ UNCHANGED <<call, quarantined, winner, report>>
  BY DEF Certify
<1>2. CASE Certified
  <2>1. NoneBeyond(0) /\ screened' = AfterMisses(0) /\ pc' = "accept" /\ UNCHANGED evidence
    BY <1>2 DEF Certified
  <2>2. Known'
    BY <2>1, AfterMissesTrue DEF Inv, Known
  <2>3. QED
    BY <1>1, <2>1, <2>2
<1>3. CASE FoundMate
  <2>1. PICK i \in Boundaries : Refutes(i) /\ MateAt(i)
    BY <1>3 DEF FoundMate
  <2>2. Known'
    BY <2>1, FoundMateKnown DEF Inv
  <2>3. PICK mate : Refuted(i, mate)
    BY <2>1 DEF MateAt
  <2> DEFINE e == Forget(evidence, notation)
  <2>4. /\ DOMAIN e = DOMAIN evidence /\ e.overrides = evidence.overrides
        /\ e.repairs = evidence.repairs /\ e.vetoes = evidence.vetoes
        /\ e.widened = evidence.widened
    BY ForgetIs DEF Inv
  <2> HIDE DEF e
  <2>5. \/ /\ pc' = "pass"
           /\ \E f : evidence' = [e EXCEPT !.vetoes = @ \cup {notation}, !.repaired = f]
        \/ pc' = "repair" /\ UNCHANGED evidence /\ notation \notin evidence.repairs
    BY <2>3, Zenon DEF Refuted, e
  <2>6. QED
    BY <1>1, <2>2, <2>4, <2>5 DEF Inv, Shaped
<1>4. CASE ProbeStopped
  <2>1. PICK i \in Open, cause \in {"time", "work"} :
          /\ NoneBeyond(i) /\ screened' = AfterMisses(i) /\ UNCHANGED evidence
          /\ pc' = "stopped" /\ stop'.scored = {}
    BY <1>4 DEF ProbeStopped, Raised
  <2>2. Known'
    BY <2>1, AfterMissesTrue DEF Inv, Known
  <2>3. QED
    BY <1>1, <2>1, <2>2
<1>5. QED
  BY <1>2, <1>3, <1>4 DEF Certify

LEMMA CertifyKeeps == ASSUME Inv, Certify PROVE Inv'
<1>1. CASE pc' = "stopped"
  <2>1. StopsHere
    BY <1>1, CertifyIs, NothingScored DEF StopsHere
  <2>2. QED
    BY <2>1, StopsHereKeeps
<1>2. Shapely
  BY CertifyIs DEF Shapely, Inv, Shaped, Listed, WideKept, FrontiersOf, Lines, Asked, root
<1>3. CASE pc' \in {"pass", "accept"}
  BY <1>2, <1>3, GoesOnKeeps DEF GoesOn
<1>4. CASE pc' = "repair"
  <2>1. Won'
    <3>1. notation' = notation
      BY CertifyIs DEF notation, selected
    <3>2. QED
      BY <1>4, <3>1, CertifyIs DEF Won
  <2>2. QED
    BY <1>2, <1>4, <2>1, GoesOnKeeps DEF InLane
<1>5. QED
  BY <1>1, <1>3, <1>4, CertifyIs

LEMMA RepairIs ==
  ASSUME Inv, Repair
  PROVE  /\ pc = "repair" /\ UNCHANGED <<call, screened, quarantined, winner, report>>
         /\ DOMAIN evidence' = DOMAIN evidence
         /\ evidence'.overrides = evidence.overrides /\ evidence'.vetoes = evidence.vetoes
         /\ evidence'.widened = evidence.widened
         /\ \/ pc' = "pass" /\ evidence'.repairs = evidence.repairs \cup {notation}
            \/ pc' = "stopped" /\ stop'.scored = {} /\ UNCHANGED evidence
<1>1. pc = "repair" /\ UNCHANGED <<call, screened, quarantined, winner, report>>
  BY DEF Repair
<1>2. PICK leaf, space, again : Repaired(leaf, space, again)
  BY Zenon DEF Repair
<1>3. \/ /\ pc' = "pass"
         /\ \E f : evidence' = [evidence EXCEPT !.repairs = @ \cup {notation}, !.repaired = f]
      \/ UNCHANGED evidence /\ \E kind, cause : RepairStopped(kind, cause)
  BY <1>2, Zenon DEF Repaired
<1>4. ASSUME NEW kind, NEW cause, RepairStopped(kind, cause)
      PROVE  pc' = "stopped" /\ stop'.scored = {}
  BY <1>4 DEF RepairStopped, Raised
<1>5. QED
  BY <1>1, <1>3, <1>4 DEF Inv, Shaped

LEMMA RepairKeeps == ASSUME Inv, Repair PROVE Inv'
<1>1. CASE pc' = "stopped"
  <2>1. StopsHere
    BY <1>1, RepairIs, NothingScored DEF StopsHere, Inv, Known
  <2>2. QED
    BY <2>1, StopsHereKeeps
<1>2. CASE pc' = "pass"
  <2>1. Shapely
    BY RepairIs
       DEF Shapely, Inv, Shaped, Listed, Known, WideKept, FrontiersOf, Lines, Asked, root
  <2>2. QED
    BY <1>2, <2>1, GoesOnKeeps DEF GoesOn
<1>3. QED
  BY <1>1, <1>2, RepairIs

LEMMA FiniteRange ==
  ASSUME NEW T, NEW s \in Seq(T)
  PROVE  IsFiniteSet(Range(s))
<1> DEFINE D == 1 .. Len(s)
           R == Range(s)
<1>1. Len(s) \in Nat /\ DOMAIN s = D
  BY LenProperties
<1>2. IsFiniteSet(D)
  BY <1>1, FS_Interval
<1>3. s \in Surjection(D, R)
  <2>1. s \in [D -> R] /\ \A x \in R : \E i \in D : s[i] = x
    BY <1>1, LenProperties, OwnSeq DEF Range
  <2> HIDE DEF D, R
  <2>2. QED
    BY <2>1, Fun_IsSurj
<1> HIDE DEF D, R
<1>4. QED
  BY <1>2, <1>3, FS_Surjection DEF R

LEMMA StartWideningKeeps == ASSUME Inv, StartWidening PROVE Inv' /\ pc' # "pass"
<1> DEFINE wide == Unexcluded(WideFrontier.series)
           kept == {c \in Range(winner.alternatives) : c.series.moves \notin Excluded}
           adverse == {c \in kept : Adverse(side0, c)}
<1>1. /\ pc = "widen" /\ UNCHANGED <<call, screened, evidence, vetoed, quarantined>>
      /\ \E mates : WidenOver(wide, mates)
  BY Zenon DEF StartWidening, WidenAmong
<1>2. /\ wide \in Seq(Lines(call)) /\ Distinct(wide)
      /\ \A r \in Range(wide) : r.moves \notin Excluded
  <2> DEFINE f == WideFrontier
  <2>1. f \in [series : Seq(Lines(call)), complete : BOOLEAN] /\ Distinct(f.series)
    BY AskedAre DEF Inv, Shaped, Asked, WideFrontier, root, FrontiersOf
  <2> HIDE DEF f
  <2>2. f.series \in Seq(Lines(call))
    BY <2>1
  <2>3. QED
    BY <2>1, <2>2, UnexcludedIs DEF f
<1>3. /\ IsFiniteSet(kept) /\ Solo(kept)
      /\ \A c \in kept : c.series \in Lines(call) /\ c.series.moves \notin Excluded
  <2>1. IsFiniteSet(Range(winner.alternatives)) /\ Solo(Range(winner.alternatives))
    BY FiniteRange DEF Inv, Listed, Alternatives
  <2>2. IsFiniteSet(kept)
    BY <2>1, FS_Subset
  <2>3. QED
    BY <1>1, <2>1, <2>2 DEF Inv, Won, Solo
<1>4. \/ \E c, proof : /\ winner' = WinnerOf(<<c>>, proof) /\ pc' = "accept"
                       /\ report' = [report EXCEPT !.complete = FALSE]
      \/ /\ pc' = "widening" /\ UNCHANGED <<winner, report>>
         /\ lane' = [rest |-> wide, all |-> wide, retained |-> {c.series.final : c \in kept},
                     safe |-> {}, adverse |-> adverse,
                     unknown |-> None, unscored |-> None, cause |-> None]
      \/ pc' = "stopped" /\ stop'.scored = {} /\ UNCHANGED <<winner, report>>
  <2> HIDE DEF wide
  <2>1. ASSUME NEW c, WidenWithMate(c)
        PROVE  \E proof : /\ winner' = WinnerOf(<<c>>, proof) /\ pc' = "accept"
                          /\ report' = [report EXCEPT !.complete = FALSE]
    BY <2>1, Zenon DEF WidenWithMate
  <2>2. ASSUME NEW cause, Raised("raw", {}, cause, None)
        PROVE  pc' = "stopped" /\ stop'.scored = {}
    BY <2>2 DEF Raised
  <2>3. PICK mates : WidenOver(wide, mates)
    BY <1>1
  <2>4. \/ \E c : WidenWithMate(c)
        \/ /\ pc' = "widening" /\ UNCHANGED <<winner, report>>
           /\ lane' = [rest |-> wide, all |-> wide, retained |-> {c.series.final : c \in kept},
                       safe |-> {}, adverse |-> adverse,
                       unknown |-> None, unscored |-> None, cause |-> None]
        \/ (\E cause : Raised("raw", {}, cause, None)) /\ UNCHANGED <<winner, report>>
    BY <2>3, Zenon DEF WidenOver
  <2>5. QED
    BY <2>1, <2>2, <2>4, Zenon
<1> HIDE DEF wide, kept, adverse
<1>5. Known' /\ WideKept' /\ Lines(call)' = Lines(call)
  BY <1>1 DEF Inv, Known, WideKept, FrontiersOf, Lines, Asked, root
<1>6. CASE \E c, proof : /\ winner' = WinnerOf(<<c>>, proof) /\ pc' = "accept"
                         /\ report' = [report EXCEPT !.complete = FALSE]
  <2>1. GoesOn
    BY <1>1, <1>5, <1>6, WinnerIs, OneList DEF GoesOn, Shapely, Inv, Shaped, Listed
  <2>2. QED
    BY <1>6, <2>1, GoesOnKeeps
<1>7. CASE pc' = "stopped" /\ stop'.scored = {} /\ UNCHANGED <<winner, report>>
  <2>1. StopsHere
    BY <1>1, <1>5, <1>7, NothingScored DEF StopsHere
  <2>2. QED
    BY <1>7, <2>1, StopsHereKeeps
<1>8. CASE /\ pc' = "widening" /\ UNCHANGED <<winner, report>>
           /\ lane' = [rest |-> wide, all |-> wide, retained |-> {c.series.final : c \in kept},
                       safe |-> {}, adverse |-> adverse,
                       unknown |-> None, unscored |-> None, cause |-> None]
  <2>1. Shaped' /\ Listed'
    BY <1>1, <1>8 DEF Inv, Shaped, Listed
  <2>2. IsFiniteSet(adverse) /\ Solo(adverse) /\ adverse \subseteq kept
    <3>1. adverse \subseteq kept
      BY DEF adverse
    <3>2. QED
      BY <1>3, <3>1, FS_Subset DEF Solo
  <2>3. Barred' = Barred /\ Barred \subseteq Excluded /\ evidence.vetoes \subseteq Excluded
    BY <1>1 DEF Barred, Excluded
  <2>4. Left(wide, Barred) /\ Apart({}, wide, Barred)
    BY <1>2, <2>3, NothingScored DEF Left, Apart
  <2>5. /\ lane'.rest = wide /\ lane'.safe = {} /\ lane'.adverse = adverse
        /\ lane'.retained = {c.series.final : c \in kept}
        /\ DOMAIN lane' = {"rest", "all", "retained", "safe", "adverse", "unknown", "unscored", "cause"}
    BY <1>8
  <2>6. Widening'
    BY <1>1, <1>3, <1>5, <2>2, <2>3, <2>4, <2>5 DEF Widening, Left, Apart
  <2>7. Scanning' /\ Won' /\ Stopped' /\ Rescuing' /\ Gated'
    BY <1>8 DEF Scanning, Won, Stopped, Rescuing, Gated
  <2>8. QED
    BY <1>5, <1>8, <2>1, <2>6, <2>7 DEF Inv
<1>9. QED
  BY <1>4, <1>6, <1>7, <1>8

\* One candidate of the widening ends it, or it is left out, taken for safe, found to be
\* mated, or barred.
LaneOf == {"rest", "all", "retained", "safe", "adverse", "unknown", "unscored", "cause"}
Skips(l) ==
  /\ DOMAIN l = LaneOf /\ l.retained = lane.retained
  /\ l.rest = Tail(lane.rest) \/ l.rest = <<>>
  /\ l.safe = lane.safe /\ l.adverse = lane.adverse
TakesSafe(l, r) ==
  /\ DOMAIN l = LaneOf /\ l.retained = lane.retained /\ l.rest = Tail(lane.rest)
  /\ l.adverse = lane.adverse /\ \E c : c.series = r /\ l.safe = lane.safe \cup {c}
FindsMated(l, r) ==
  /\ DOMAIN l = LaneOf /\ l.retained = lane.retained /\ l.rest = Tail(lane.rest)
  /\ l.safe = lane.safe /\ r.final \notin lane.retained
  /\ \E c : c.series = r /\ l.adverse = lane.adverse \cup {c}
Bars(l, r) ==
  /\ DOMAIN l = LaneOf /\ l.retained = lane.retained /\ l.rest = Tail(lane.rest)
  /\ l.safe = lane.safe /\ l.adverse = lane.adverse
  /\ quarantined' = quarantined \cup {r.moves}
WidenedBy(r) ==
  \/ pc' = "stopped" /\ stop'.scored = {} /\ UNCHANGED quarantined
  \/ /\ UNCHANGED pc
     /\ \/ Skips(lane') /\ UNCHANGED quarantined
        \/ TakesSafe(lane', r) /\ UNCHANGED quarantined
        \/ FindsMated(lane', r) /\ UNCHANGED quarantined
        \/ Bars(lane', r)
Reported == DOMAIN report' = DOMAIN report /\ report'.best = report.best

LEMMA WidenStoppedIs ==
  ASSUME Inv, DOMAIN lane = LaneOf, NEW r, WidenStopped(r)
  PROVE  Known' /\ WidenedBy(r) /\ Reported
<1>1. /\ UNCHANGED <<pc, quarantined, report>>
      /\ \/ UNCHANGED screened
         \/ "exhausted" \in Answers(r.final) /\ screened' = Learned(screened, r.final, "exhausted")
  BY DEF WidenStopped
<1>2. Known'
  <2>1. CASE UNCHANGED screened
    BY <2>1 DEF Inv, Known
  <2>2. CASE ~ UNCHANGED screened
    BY <1>1, <2>2, AnswersTrue DEF Inv, Known
  <2>3. QED
    BY <2>1, <2>2
<1>3. ASSUME NEW c
      PROVE  Skips(Broken(lane, c)) /\ Skips([lane EXCEPT !.rest = Tail(@), !.cause = c])
  BY DEF Skips, Broken, LaneOf
<1>4. Skips([lane EXCEPT !.rest = Tail(@)])
  BY DEF Skips, LaneOf
<1>5. ASSUME NEW l, Skips(l), NEW u
      PROVE  Skips([l EXCEPT !.unknown = u]) /\ Skips([l EXCEPT !.unscored = u])
  BY <1>5 DEF Skips, LaneOf
<1>6. Skips(lane')
  <2>1. CASE lane' = Broken(lane, "time")
    BY <1>3, <2>1
  <2>2. ASSUME NEW l \in {Broken(lane, "time"), Broken(lane, FirstOf(lane.cause, "work")),
                     [lane EXCEPT !.rest = Tail(@), !.cause = FirstOf(@, "work")],
                     [lane EXCEPT !.rest = Tail(@)]},
               lane' = [l EXCEPT !.unknown = FirstOf(@, r)]
        PROVE  Skips(lane')
    <3>1. Skips(l)
      BY <1>3, <1>4
    <3>2. QED
      BY <1>5, <2>2, <3>1
  <2>3. ASSUME NEW cause, lane' = [Broken(lane, FirstOf(lane.cause, cause)) EXCEPT !.unscored = r]
        PROVE  Skips(lane')
    BY <1>3, <1>5, <2>3
  <2>4. QED
    BY <2>1, <2>2, <2>3, Zenon DEF WidenStopped
<1>7. QED
  BY <1>1, <1>2, <1>6 DEF WidenedBy, Reported

LEMMA WidenTerminalIs ==
  ASSUME Inv, DOMAIN lane = LaneOf, NEW r, WidenTerminal(r) \/ WidenKnown(r)
  PROVE  Known' /\ WidenedBy(r) /\ Reported
<1>1. UNCHANGED <<pc, screened, quarantined, report>>
  BY DEF WidenTerminal, WidenKnown
<1>2. Skips(lane') \/ TakesSafe(lane', r)
  <2>1. CASE lane' = [lane EXCEPT !.rest = Tail(@)]
    BY <2>1 DEF Skips, LaneOf
  <2>2. CASE WidenTerminal(r)
    <3>1. CASE r.outcome = "checkmate"
      BY <2>2, <3>1 DEF WidenTerminal, Skips, LaneOf
    <3>2. CASE r.outcome # "checkmate"
      <4> DEFINE c == Scored(r, 0, <<>>, Unknown)
      <4>1. lane' = [lane EXCEPT !.rest = Tail(@), !.safe = @ \cup {c}] /\ c.series = r
        BY <2>2, <3>2, ScoredSeries DEF WidenTerminal
      <4> HIDE DEF c
      <4>2. QED
        BY <4>1 DEF TakesSafe, LaneOf
    <3>3. QED
      BY <3>1, <3>2
  <2>3. QED
    BY <2>1, <2>2 DEF WidenKnown
<1>3. QED
  BY <1>1, <1>2 DEF WidenedBy, Reported, Inv, Known

LEMMA WidenMatedIs ==
  ASSUME Inv, DOMAIN lane = LaneOf, NEW r, WidenMated(r)
  PROVE  Known' /\ WidenedBy(r) /\ Reported
<1>1. /\ UNCHANGED <<pc, quarantined, report>> /\ r.final \notin lane.retained
      /\ "found" \in Answers(r.final) /\ screened' = Learned(screened, r.final, "found")
  BY DEF WidenMated
<1>2. \E c : c.series = r /\ lane' = [lane EXCEPT !.rest = Tail(@), !.adverse = @ \cup {c}]
  <2> DEFINE reply == screened'[r.final]
             mover == Side(r.final.number)
             c == Scored(r, TerminalScore(reply, mover, 2), <<reply>>, TerminalBounds(reply, mover))
  <2>1. c.series = r
    BY ScoredSeries
  <2>2. lane' = [lane EXCEPT !.rest = Tail(@), !.adverse = @ \cup {c}]
    BY Zenon DEF WidenMated
  <2> HIDE DEF c
  <2>3. QED
    BY <2>1, <2>2
<1>3. FindsMated(lane', r)
  BY <1>1, <1>2 DEF FindsMated, LaneOf
<1>4. Known'
  BY <1>1, AnswersTrue DEF Inv, Known
<1>5. QED
  BY <1>1, <1>3, <1>4 DEF WidenedBy, Reported

LEMMA WidenScoredIs ==
  ASSUME Inv, DOMAIN lane = LaneOf, NEW r, WidenScored(r), pc = "widening"
  PROVE  Known' /\ WidenedBy(r) /\ Reported
<1>1. PICK value, c : WidenValue(r, value, c) /\ c.series = r
  BY ScoredSeries DEF WidenScored, WidenChild
<1>2. "exhausted" \in Answers(r.final) /\ screened' = Learned(screened, r.final, "exhausted")
  BY DEF WidenScored
<1>3. Known'
  BY <1>2, AnswersTrue DEF Inv, Known
<1>4. CASE value.pending
  BY <1>1, <1>3, <1>4 DEF WidenValue, Raised, WidenedBy, Reported
<1>5. CASE ~ value.pending
  <2>1. CASE Publishable(side0, c)
    <3>1. /\ UNCHANGED <<pc, quarantined, report>>
          /\ lane' = [lane EXCEPT !.rest = Tail(@), !.safe = @ \cup {c}]
      BY <1>1, <1>5, <2>1 DEF WidenValue
    <3>2. TakesSafe(lane', r)
      BY <1>1, <3>1 DEF TakesSafe, LaneOf
    <3>3. QED
      BY <1>3, <3>1, <3>2 DEF WidenedBy, Reported
  <2>2. CASE ~ Publishable(side0, c)
    <3>1. /\ UNCHANGED pc /\ quarantined' = quarantined \cup {r.moves}
          /\ report' = [report EXCEPT !.complete = FALSE]
          /\ lane' = [lane EXCEPT !.rest = Tail(@), !.safe = @]
      BY <1>1, <1>5, <2>2 DEF WidenValue, Quarantine
    <3>2. Bars(lane', r)
      BY <3>1 DEF Bars, LaneOf
    <3>3. QED
      BY <1>3, <3>1, <3>2 DEF WidenedBy, Reported, Inv, Shaped
  <2>3. QED
    BY <2>1, <2>2
<1>6. QED
  BY <1>4, <1>5

LEMMA WidenIs ==
  ASSUME Inv, Widen
  PROVE  /\ pc = "widening" /\ UNCHANGED <<call, evidence, vetoed, winner>> /\ lane.rest # <<>>
         /\ Known' /\ WidenedBy(Head(lane.rest)) /\ Reported
<1> DEFINE r == Head(lane.rest)
<1>1. /\ pc = "widening" /\ UNCHANGED <<call, evidence, vetoed, winner>> /\ lane.rest # <<>>
      /\ \/ WidenStopped(r) \/ WidenTerminal(r) \/ WidenKnown(r) \/ WidenMated(r)
         \/ WidenScored(r)
  BY DEF Widen
<1>2. DOMAIN lane = LaneOf
  BY <1>1 DEF Inv, Widening, LaneOf
<1> HIDE DEF r
<1>3. Known' /\ WidenedBy(r) /\ Reported
  BY <1>1, <1>2, WidenStoppedIs, WidenTerminalIs, WidenMatedIs, WidenScoredIs
<1>4. QED
  BY <1>1, <1>3 DEF r

\* Those that are known to be mated: they were retained, or have left the list.
Lost(adverse, rest, retained) ==
  /\ IsFiniteSet(adverse) /\ Solo(adverse)
  /\ \A c \in adverse : /\ c.series \in Lines(call) /\ c.series.moves \notin evidence.vetoes
                        /\ c.series.final \in retained \/ c.series \notin Range(rest)

LEMMA LostStays ==
  ASSUME call \in Calls, NEW rest, Left(rest, Barred), rest # <<>>,
         NEW adverse, NEW retained, Lost(adverse, rest, retained)
  PROVE  /\ Lost(adverse, Tail(rest), retained) /\ Lost(adverse, <<>>, retained)
         /\ \A c : c.series = Head(rest) /\ Head(rest).final \notin retained
                     => Lost(adverse \cup {c}, Tail(rest), retained)
<1>1. /\ Head(rest) \in Lines(call) /\ Head(rest) \in Range(rest)
      /\ Head(rest).moves \notin evidence.vetoes
      /\ Head(rest) \notin Range(Tail(rest)) /\ Range(Tail(rest)) \subseteq Range(rest)
  <2>1. Head(rest).moves \notin Barred
    BY HeadLeaves
  <2>2. Head(rest).moves \notin evidence.vetoes
    BY <2>1 DEF Barred
  <2>3. QED
    BY <2>2, HeadLeaves
<1>2. Lost(adverse, Tail(rest), retained) /\ Lost(adverse, <<>>, retained)
  BY <1>1, EmptyList DEF Lost
<1>3. ASSUME NEW c, c.series = Head(rest), Head(rest).final \notin retained
      PROVE  Lost(adverse \cup {c}, Tail(rest), retained)
  <2>1. IsFiniteSet(adverse \cup {c})
    BY FS_AddElement DEF Lost
  <2>2. \A d \in adverse : d.series.moves # Head(rest).moves
    BY <1>1, <1>3, AskedAre DEF Lost
  <2>3. Solo(adverse \cup {c})
    BY <1>3, <2>2 DEF Lost, Solo
  <2>4. QED
    BY <1>1, <1>2, <1>3, <2>1, <2>3 DEF Lost
<1>4. QED
  BY <1>2, <1>3

LEMMA WidenKeeps == ASSUME Inv, Widen PROVE Inv' /\ pc' # "pass"
<1> DEFINE r == Head(lane.rest)
<1>1. /\ pc = "widening" /\ UNCHANGED <<call, evidence, vetoed, winner>> /\ lane.rest # <<>>
      /\ Known' /\ WidenedBy(r) /\ Reported
  BY WidenIs
<1>2. /\ call \in Calls /\ Left(lane.rest, Barred) /\ Apart(lane.safe, lane.rest, Barred)
      /\ Lost(lane.adverse, lane.rest, lane.retained)
  BY <1>1 DEF Inv, Shaped, Widening, Lost
<1>3. CASE pc' = "stopped" /\ stop'.scored = {} /\ UNCHANGED quarantined
  <2>1. StopsHere
    BY <1>1, <1>3, NothingScored DEF StopsHere, Reported
  <2>2. QED
    BY <1>3, <2>1, StopsHereKeeps
<1>4. CASE UNCHANGED pc
  <2> DEFINE rest == lane.rest
             t == Tail(lane.rest)
  <2>1. /\ Left(t, Barred) /\ Left(t, Barred \cup {r.moves}) /\ Left(<<>>, Barred)
        /\ Apart(lane.safe, t, Barred) /\ Apart(lane.safe, t, Barred \cup {r.moves})
        /\ Apart(lane.safe, <<>>, Barred)
        /\ \A c : c.series = r => Apart(lane.safe \cup {c}, t, Barred)
    <3>1. /\ Left(t, Barred \cup {r.moves}) /\ Apart(lane.safe, t, Barred \cup {r.moves})
          /\ \A c : c.series = r => Apart(lane.safe \cup {c}, t, Barred)
      BY <1>1, <1>2, HeadLeaves, ApartStays
    <3> HIDE DEF t, r
    <3>2. Left(t, Barred) /\ Apart(lane.safe, t, Barred)
      BY <3>1 DEF Left, Apart
    <3>3. Left(<<>>, Barred) /\ Apart(lane.safe, <<>>, Barred)
      BY <1>2, EmptyList DEF Left, Apart
    <3>4. QED
      BY <3>1, <3>2, <3>3
  <2>2. /\ Lost(lane.adverse, t, lane.retained) /\ Lost(lane.adverse, <<>>, lane.retained)
        /\ \A c : c.series = r /\ r.final \notin lane.retained
                    => Lost(lane.adverse \cup {c}, t, lane.retained)
    BY <1>1, <1>2, LostStays
  <2>3. /\ DOMAIN lane' = LaneOf /\ Left(lane'.rest, Barred')
        /\ Apart(lane'.safe, lane'.rest, Barred') /\ Lost(lane'.adverse, lane'.rest, lane'.retained)
    <3> HIDE DEF t, r
    <3>1. pc' # "stopped"
      BY <1>1, <1>4
    <3>2. CASE UNCHANGED quarantined
      <4>1. Barred' = Barred
        BY <1>1, <3>2 DEF Barred
      <4>2. CASE Skips(lane')
        BY <2>1, <2>2, <4>1, <4>2 DEF Skips, t
      <4>3. CASE TakesSafe(lane', r)
        BY <2>1, <2>2, <4>1, <4>3 DEF TakesSafe, t
      <4>4. CASE FindsMated(lane', r)
        BY <2>1, <2>2, <4>1, <4>4 DEF FindsMated, t
      <4>5. CASE Bars(lane', r)
        <5>1. Barred' = Barred \cup {r.moves}
          BY <1>1, <4>5 DEF Barred, Bars
        <5>2. QED
          BY <2>1, <2>2, <4>5, <5>1 DEF Bars, t
      <4>6. QED
        BY <1>1, <3>1, <4>2, <4>3, <4>4, <4>5 DEF WidenedBy
    <3>3. CASE Bars(lane', r)
      <4>1. Barred' = Barred \cup {r.moves}
        BY <1>1, <3>3 DEF Barred, Bars
      <4>2. QED
        BY <2>1, <2>2, <3>3, <4>1 DEF Bars, t
    <3>4. QED
      BY <1>1, <3>1, <3>2, <3>3 DEF WidenedBy
  <2>4. Lines(call)' = Lines(call)
    BY <1>1
  <2>5. Widening'
    BY <1>1, <2>3, <2>4 DEF Widening, LaneOf, Left, Apart, Lost
  <2>6. Shaped' /\ Listed' /\ WideKept'
    BY <1>1 DEF Inv, Shaped, Listed, WideKept, Reported, FrontiersOf, Lines, Asked, root
  <2>7. Scanning' /\ Won' /\ Stopped' /\ Rescuing' /\ Gated'
    BY <1>1, <1>4 DEF Scanning, Won, Stopped, Rescuing, Gated
  <2>8. QED
    BY <1>1, <1>4, <2>5, <2>6, <2>7 DEF Inv
<1>5. QED
  BY <1>1, <1>3, <1>4 DEF WidenedBy

\* The four ends of the widening.
LEMMA EndWideningIs ==
  ASSUME Inv, EndWidening
  PROVE  /\ pc = "widening" /\ UNCHANGED <<call, screened, vetoed>>
         /\ \/ /\ lane.safe # {} /\ Selects(WinnerOf(RootOrder(side0, lane.safe), None))
               /\ report' = [report EXCEPT !.complete = FALSE]
            \/ /\ pc' = "stopped" /\ stop'.scored = {} /\ UNCHANGED <<winner, evidence, quarantined>>
               /\ UNCHANGED report \/ report' = [report EXCEPT !.complete = FALSE]
            \/ /\ pc' = "accept" /\ winner' = NoWinner /\ UNCHANGED <<evidence, quarantined>>
               /\ report' = [report EXCEPT !.complete = FALSE]
            \/ /\ pc' \in {"accept", "ladder"} /\ UNCHANGED <<evidence, quarantined>>
               /\ lane.adverse # {} /\ report' = [report EXCEPT !.complete = TRUE]
               /\ \E proof : winner' = WinnerOf(ProofSafeOrder(side0, lane.adverse), proof)
<1> DEFINE open == {i \in DOMAIN lane.all : lane.all[i].outcome = None}
           mated == {c.series.final : c \in lane.adverse}
           hopeless == /\ lane.cause = None /\ lane.unscored = None /\ lane.unknown = None
                       /\ open # {} /\ \A i \in open : lane.all[i].final \in mated
           Ended(kind, cause, fallback) == Raised(kind, {}, cause, fallback)
<1>1. pc = "widening" /\ UNCHANGED <<call, screened, vetoed>>
  BY DEF EndWidening
<1>2. hopeless => lane.adverse # {}
  OBVIOUS
<1>3. ASSUME NEW kind, NEW cause, NEW fallback, Ended(kind, cause, fallback)
      PROVE  pc' = "stopped" /\ stop'.scored = {}
  BY <1>3 DEF Raised
<1>4. CASE lane.safe # {}
  <2>1. \/ /\ Selects(WinnerOf(RootOrder(side0, lane.safe), None))
           /\ report' = [report EXCEPT !.complete = FALSE]
        \/ /\ \E cause, fallback : Ended("interrupted", cause, fallback)
           /\ report' = [report EXCEPT !.complete = FALSE]
           /\ UNCHANGED <<winner, evidence, quarantined>>
    BY <1>4, Zenon DEF EndWidening
  <2> HIDE DEF Ended
  <2>2. QED
    BY <1>1, <1>3, <1>4, <2>1, Zenon
<1>5. CASE lane.safe = {} /\ hopeless
  <2>1. \/ /\ winner' = NoWinner /\ pc' = "accept"
           /\ report' = [report EXCEPT !.complete = FALSE] /\ UNCHANGED <<evidence, quarantined>>
        \/ /\ \E proof : winner' = WinnerOf(ProofSafeOrder(side0, lane.adverse), proof)
           /\ report' = [report EXCEPT !.complete = TRUE] /\ UNCHANGED <<evidence, quarantined>>
           /\ pc' = IF winner'.pv[1].final \in mem.mated THEN "accept" ELSE "ladder"
    BY <1>5, Zenon DEF EndWidening
  <2>2. QED
    BY <1>1, <1>2, <1>5, <2>1
<1>6. CASE lane.safe = {} /\ ~ hopeless
  <2>1. /\ \E kind, cause, fallback : Ended(kind, cause, fallback)
        /\ UNCHANGED <<winner, report, evidence, quarantined>>
    BY <1>6, Zenon DEF EndWidening
  <2> HIDE DEF Ended
  <2>2. QED
    BY <1>1, <1>3, <2>1, Zenon
<1>7. QED
  BY <1>4, <1>5, <1>6

\* A safe child that is selected was not barred, nor vetoed.
LEMMA SelectsIs ==
  ASSUME Inv, NEW w, Selects(w), UNCHANGED report \/ report' = [report EXCEPT !.complete = FALSE]
  PROVE  /\ winner' = w /\ DOMAIN evidence' = DOMAIN evidence
         /\ evidence'.overrides = evidence.overrides /\ evidence'.repairs = evidence.repairs
         /\ evidence'.vetoes = evidence.vetoes /\ evidence'.widened = evidence.widened
         /\ DOMAIN report' = DOMAIN report /\ report'.best = report.best
         /\ \/ pc' = "pass" /\ quarantined' = quarantined \cup {w.pv[1].moves}
            \/ pc' \in {"accept", "ladder"} /\ UNCHANGED quarantined
<1>1. CASE RejectClaim(w)
  BY <1>1, RejectClaimIs
<1>2. CASE ~ RejectClaim(w)
  <2>1. /\ winner' = w /\ UNCHANGED <<evidence, quarantined>> /\ pc' \in {"accept", "ladder"}
    BY <1>2 DEF Selects
  <2>2. QED
    BY <2>1 DEF Inv, Shaped
<1>3. QED
  BY <1>1, <1>2

LEMMA EndWideningKeeps ==
  ASSUME Inv, EndWidening
  PROVE  /\ Inv'
         /\ pc' = "stopped" \/
            (/\ evidence'.overrides = evidence.overrides /\ evidence'.repairs = evidence.repairs
             /\ evidence'.vetoes = evidence.vetoes /\ evidence'.widened = evidence.widened
             /\ quarantined \subseteq quarantined' /\ (pc' = "pass" => quarantined' # quarantined))
<1> DEFINE safe == RootOrder(side0, lane.safe)
           lost == ProofSafeOrder(side0, lane.adverse)
<1>1. pc = "widening" /\ UNCHANGED <<call, screened, vetoed>>
  BY EndWideningIs
<1>2. /\ Alternatives(safe) /\ (lane.safe # {} => safe[1] \in lane.safe)
      /\ Alternatives(lost) /\ (lane.adverse # {} => lost[1] \in lane.adverse)
  BY <1>1, OrdersAre DEF Inv, Widening, Apart
<1>3. /\ \A c \in lane.safe : c.series.moves \notin Barred
      /\ \A c \in lane.adverse : c.series.moves \notin evidence.vetoes
  BY <1>1 DEF Inv, Widening, Apart
<1> HIDE DEF safe, lost
<1>4. Known'
  BY <1>1 DEF Inv, Known
<1>5. CASE pc' = "stopped"
  <2>1. /\ stop'.scored = {} /\ UNCHANGED <<winner, evidence>>
        /\ UNCHANGED report \/ report' = [report EXCEPT !.complete = FALSE]
    <3>1. ASSUME NEW w, Selects(w)
          PROVE  pc' # "stopped"
      BY <3>1 DEF Selects, RejectClaim
    <3>2. QED
      BY <1>5, <3>1, EndWideningIs
  <2>2. StopsHere
    BY <1>1, <1>4, <1>5, <2>1, NothingScored DEF StopsHere, Inv, Shaped
  <2>3. QED
    BY <1>5, <2>2, StopsHereKeeps
<1>6. CASE lane.safe # {} /\ Selects(WinnerOf(safe, None)) /\ report' = [report EXCEPT !.complete = FALSE]
  <2> DEFINE w == WinnerOf(safe, None)
  <2>1. /\ DOMAIN w = {"score", "pv", "alternatives", "proof"}
        /\ w.pv[1] = safe[1].series /\ w.alternatives = safe
    BY WinnerIs
  <2>2. w.pv[1].moves \notin quarantined /\ w.pv[1].moves \notin evidence.vetoes
    <3> HIDE DEF w
    <3>1. QED
      BY <1>2, <1>3, <1>6, <2>1 DEF Barred
  <2>3. Selects(w)
    BY <1>6
  <2> HIDE DEF w
  <2>4. /\ winner' = w /\ DOMAIN evidence' = DOMAIN evidence
        /\ evidence'.overrides = evidence.overrides /\ evidence'.repairs = evidence.repairs
        /\ evidence'.vetoes = evidence.vetoes /\ evidence'.widened = evidence.widened
        /\ DOMAIN report' = DOMAIN report /\ report'.best = report.best
        /\ \/ pc' = "pass" /\ quarantined' = quarantined \cup {w.pv[1].moves}
           \/ pc' \in {"accept", "ladder"} /\ UNCHANGED quarantined
    BY <1>6, <2>3, SelectsIs
  <2>5. Shapely
    BY <1>1, <1>2, <1>4, <2>1, <2>4
       DEF Shapely, Inv, Shaped, Listed, WideKept, FrontiersOf, Lines, Asked, root
  <2>6. GoesOn \/ InLane
    <3>1. CASE pc' \in {"pass", "accept"}
      BY <2>5, <3>1 DEF GoesOn
    <3>2. CASE pc' = "ladder"
      <4>1. notation' \notin evidence.vetoes'
        BY <2>2, <2>4 DEF notation, selected
      <4>2. QED
        BY <2>5, <3>2, <4>1 DEF InLane, Won
    <3>3. QED
      BY <2>4, <3>1, <3>2
  <2>7. QED
    BY <2>2, <2>4, <2>6, GoesOnKeeps
<1>7. CASE /\ pc' = "accept" /\ winner' = NoWinner /\ UNCHANGED <<evidence, quarantined>>
           /\ report' = [report EXCEPT !.complete = FALSE]
  <2>1. Shapely
    BY <1>1, <1>4, <1>7, NoWinnerIs, EmptyList
       DEF Shapely, Inv, Shaped, Listed, WideKept, FrontiersOf, Lines, Asked, root
  <2>2. QED
    BY <1>7, <2>1, GoesOnKeeps DEF GoesOn
<1>8. CASE /\ pc' \in {"accept", "ladder"} /\ UNCHANGED <<evidence, quarantined>>
           /\ lane.adverse # {} /\ report' = [report EXCEPT !.complete = TRUE]
           /\ \E proof : winner' = WinnerOf(lost, proof)
  <2>1. /\ DOMAIN winner' = {"score", "pv", "alternatives", "proof"}
        /\ winner'.pv[1] = lost[1].series /\ winner'.alternatives = lost
    BY <1>8, WinnerIs
  <2>2. Shapely
    BY <1>1, <1>2, <1>4, <1>8, <2>1
       DEF Shapely, Inv, Shaped, Listed, WideKept, FrontiersOf, Lines, Asked, root
  <2>3. notation' \notin evidence.vetoes'
    BY <1>2, <1>3, <1>8, <2>1 DEF notation, selected
  <2>4. GoesOn \/ InLane
    BY <1>8, <2>2, <2>3 DEF GoesOn, InLane, Won
  <2>5. QED
    BY <1>8, <2>4, GoesOnKeeps
<1>9. QED
  BY <1>5, <1>6, <1>7, <1>8, EndWideningIs DEF safe, lost

-----------------------------------------------------------------------------
(* The report. *)

Fine(b) == DOMAIN b = {"score", "pv", "alternatives", "proof"} /\ Alternatives(b.alternatives)

LEMMA FineAre ==
  /\ Fine(NoWinner) /\ \A r : Fine(OnlyMove(r)) /\ Fine(MoveOnly(r))
  /\ \A order, proof : Alternatives(order) => Fine(WinnerOf(order, proof))
<1>1. Fine(NoWinner)
  BY NoWinnerIs, EmptyList DEF Fine
<1>2. \A r : Fine(OnlyMove(r))
  BY OnlyMoveIs, EmptyList DEF Fine
<1>3. \A r : Fine(MoveOnly(r))
  BY <1>1, <1>2 DEF MoveOnly
<1>4. \A order, proof : Alternatives(order) => Fine(WinnerOf(order, proof))
  BY WinnerIs DEF Fine
<1>5. QED
  BY <1>1, <1>2, <1>3, <1>4

LEMMA ReportsAre ==
  ASSUME Shaped
  PROVE  /\ \A b : DOMAIN Reset(b) = DOMAIN report /\ Reset(b).best = b
         /\ \A r : DOMAIN r = DOMAIN report
                     => /\ DOMAIN Retain(r) = DOMAIN report /\ Retain(r).best = r.best
                        /\ DOMAIN Flags(r) = DOMAIN report /\ Flags(r).best = r.best
BY DEF Reset, Retain, Flags, Shaped

LEMMA SettleLadderIs ==
  ASSUME Inv, SettleLadder \/ SettleClaims \/ SettleRaw
  PROVE  DOMAIN report' = DOMAIN report /\ Fine(report'.best) /\ stop.kind # "pending"
<1>1. CASE SettleRaw
  BY <1>1, ReportsAre DEF Inv, SettleRaw, Listed, Fine, Shaped
<1>2. CASE SettleLadder
  BY <1>2, ReportsAre, FineAre DEF Inv, SettleLadder
<1>3. CASE SettleClaims
  BY <1>3, ReportsAre, FineAre DEF Inv, SettleClaims
<1>4. QED
  BY <1>1, <1>2, <1>3

LEMMA SettleInterruptedIs ==
  ASSUME Inv, SettleInterrupted, pc = "stopped"
  PROVE  DOMAIN report' = DOMAIN report /\ Fine(report'.best) /\ stop.kind # "pending"
<1> DEFINE S == {c \in stop.scored : ~Rejected(c.series.moves)}
           partial == ProofSafeOrder(side0, S)
           best == IF stop.scored = {} \/ BestRejected THEN MoveOnly(stop.fallback)
                   ELSE IF partial = <<>> THEN NoWinner ELSE WinnerOf(partial, None)
           r == [report EXCEPT !.best = best, !.complete = FALSE]
<1>1. IsFiniteSet(S) /\ Solo(S)
  <2>1. S \subseteq stop.scored
    OBVIOUS
  <2> HIDE DEF S
  <2>2. IsFiniteSet(stop.scored) /\ Solo(stop.scored)
    BY DEF Inv, Stopped
  <2>3. QED
    BY <2>1, <2>2, FS_Subset DEF Solo
<1>2. Alternatives(partial)
  <2> HIDE DEF S
  <2>1. QED
    BY <1>1, OrdersAre
<1>3. Fine(best)
  <2> HIDE DEF partial
  <2>1. QED
    BY <1>2, FineAre
<1>4. /\ stop.kind = "interrupted"
      /\ report' = Flags(IF BestRejected THEN Reset(best)
                         ELSE IF report.completed = 0 THEN r ELSE Retain(report))
  BY DEF SettleInterrupted
<1> HIDE DEF best
<1>5. DOMAIN r = DOMAIN report /\ r.best = best
  BY DEF Inv, Shaped
<1> HIDE DEF r
<1>6. Fine(report.best)
  BY DEF Inv, Shaped, Listed, Fine
<1>7. QED
  BY <1>3, <1>4, <1>5, <1>6, ReportsAre DEF Inv

LEMMA SettlePendingIs ==
  ASSUME Inv, SettlePending
  PROVE  /\ DOMAIN report' = DOMAIN report /\ Fine(report'.best)
         /\ stop.kind = "pending" /\ report.completed = 0 => report'.best.pv = <<>>
<1> DEFINE best == IF stop.kind = "rootpending" THEN MoveOnly(stop.fallback) ELSE NoWinner
           kept == Retain(report)
           hidden == ~call.all /\ report.best.pv # <<>> /\ report.best.pv[1].outcome = None
           left == [kept EXCEPT !.best.alternatives = IF hidden THEN <<>> ELSE @]
           none == [NoWinner EXCEPT !.score = 0]
           empty == [report EXCEPT !.best = none, !.complete = TRUE]
           settled == IF BestRejected \/ (stop.kind = "rootpending" /\ report.completed = 0)
                      THEN Reset(best)
                      ELSE IF report.completed > 0 THEN left ELSE empty
<1>1. /\ report' = [settled EXCEPT !.adjudication = "manual_proof_required"]
      /\ stop.kind \in {"rootpending", "pending"}
  BY DEF SettlePending
<1>2. Fine(best)
  BY FineAre
<1>3. Fine(none) /\ none.pv = <<>>
  BY NoWinnerIs, EmptyList DEF Fine
<1>4. Fine(report.best) /\ DOMAIN kept = DOMAIN report /\ kept.best = report.best
  BY ReportsAre DEF Inv, Shaped, Listed, Fine
<1> HIDE DEF best, kept, none, hidden
<1>5. DOMAIN left = DOMAIN report /\ Fine(left.best)
  <2>1. /\ DOMAIN left = DOMAIN kept
        /\ left.best = [kept.best EXCEPT !.alternatives = IF hidden THEN <<>> ELSE @]
    BY <1>4 DEF Inv, Shaped
  <2>2. Fine([report.best EXCEPT !.alternatives = IF hidden THEN <<>> ELSE @])
    BY <1>4, EmptyList DEF Fine
  <2>3. QED
    BY <1>4, <2>1, <2>2
<1>6. DOMAIN empty = DOMAIN report /\ empty.best = none
  BY DEF Inv, Shaped
<1>7. DOMAIN Reset(best) = DOMAIN report /\ Reset(best).best = best
  BY ReportsAre DEF Inv
<1> HIDE DEF left, empty
<1>8. DOMAIN settled = DOMAIN report /\ Fine(settled.best)
  BY <1>2, <1>3, <1>5, <1>6, <1>7
<1>9. stop.kind = "pending" /\ report.completed = 0 => settled = empty
  BY DEF BestRejected
<1> HIDE DEF settled
<1>10. DOMAIN report' = DOMAIN settled /\ report'.best = settled.best
  BY <1>1, <1>8 DEF Inv, Shaped
<1>11. QED
  BY <1>3, <1>6, <1>8, <1>9, <1>10

LEMMA SettleKeeps == ASSUME Inv, Settle PROVE Inv' /\ pc' # "pass"
<1>1. /\ pc = "stopped" /\ UNCHANGED <<call, screened, evidence, winner>>
      /\ pc' = IF stop.kind = "pending" /\ report.completed = 0 THEN "done" ELSE "final"
      /\ SettleLadder \/ SettleClaims \/ SettleInterrupted \/ SettleRaw \/ SettlePending
  BY DEF Settle
<1>2. /\ DOMAIN report' = DOMAIN report /\ Fine(report'.best)
      /\ stop.kind = "pending" /\ report.completed = 0 => report'.best.pv = <<>>
  BY <1>1, SettleLadderIs, SettleInterruptedIs, SettlePendingIs
<1>3. Shaped' /\ Listed' /\ Known' /\ WideKept'
  BY <1>1, <1>2
     DEF Inv, Shaped, Listed, Fine, Known, WideKept, FrontiersOf, Lines, Asked, root
<1>4. Scanning' /\ Won' /\ Widening' /\ Stopped' /\ Rescuing'
  BY <1>1 DEF Scanning, Won, Widening, Stopped, Rescuing
<1>5. Gated'
  BY <1>1, <1>2 DEF Gated, Stands, Undecided
<1>6. QED
  BY <1>1, <1>3, <1>4, <1>5 DEF Inv

LEMMA AcceptKeeps == ASSUME Inv, Accept PROVE Inv' /\ pc' # "pass"
<1>1. /\ UNCHANGED <<call, screened, evidence, winner>> /\ pc' \in {"depth", "final"}
      /\ DOMAIN report' = DOMAIN report /\ report'.best = winner
  BY DEF Accept, Inv, Shaped
<1>2. GoesOn
  BY <1>1 DEF GoesOn, Shapely, Inv, Shaped, Listed, Known, WideKept, FrontiersOf, Lines, Asked, root
<1>3. QED
  BY <1>1, <1>2, GoesOnKeeps

\* A step in the gates: the caches stay true, and what a depth learnt is not touched.
Gating ==
  /\ UNCHANGED <<call, evidence, winner>> /\ Known'
  /\ DOMAIN report' = DOMAIN report /\ Fine(report'.best)
  /\ pc' \in {"gate", "reselect", "rescue", "ladder-gate", "close", "done"}

LEMMA GatingKeeps == ASSUME Inv, Gating, Rescuing', Gated' PROVE Inv' /\ pc' # "pass"
<1>1. Shaped' /\ Listed' /\ Known' /\ WideKept'
  BY DEF Gating, Inv, Shaped, Listed, Fine, WideKept, FrontiersOf, Lines, Asked, root
<1>2. Scanning' /\ Won' /\ Widening' /\ Stopped'
  BY DEF Gating, Scanning, Won, Widening, Stopped
<1>3. QED
  BY <1>1, <1>2 DEF Inv, Gating

\* No rejected root is left to the gates.
LEMMA FinalizeIs ==
  ASSUME Inv, Finalize
  PROVE  /\ pc' = "gate" /\ UNCHANGED <<call, screened, evidence, winner, vetoed>>
         /\ quarantined \subseteq quarantined'
         /\ DOMAIN report' = DOMAIN report /\ Fine(report'.best)
         /\ report'.best.pv # <<>> => ~Rejected(report'.best.pv[1].moves)
<1> DEFINE best == report.best
           wrong == {c \in Range(best.alternatives) : ~Publishable(side0, c)}
           few == [best EXCEPT !.alternatives = Among(@, Range(@) \ wrong), !.proof = None]
           clean == IF wrong = {} THEN best ELSE few
           rejected == best.pv # <<>> /\ Rejected(best.pv[1].moves)
           named == IF clean.pv = <<>> THEN NoWinner ELSE OnlyMove(clean.pv[1])
           Kept(kept, complete) ==
             [report EXCEPT !.best = clean, !.kept = kept, !.complete = complete]
<1>1. /\ pc' = "gate" /\ UNCHANGED <<call, screened, evidence, winner, vetoed>>
      /\ quarantined \subseteq quarantined'
  BY DEF Finalize
<1>2. \/ report' = Reset(NoWinner)
      \/ ~rejected /\ report' = Reset(named)
      \/ ~rejected /\ \E kept, complete : report' = Kept(kept, complete)
  BY Zenon DEF Finalize
<1>3. Fine(best)
  BY DEF Inv, Shaped, Listed, Fine
<1>4. Fine(clean) /\ clean.pv = best.pv
  <2> HIDE DEF wrong, best
  <2>1. Alternatives(Among(best.alternatives, Range(best.alternatives) \ wrong))
    BY <1>3, AmongAlternatives DEF Fine
  <2>2. Fine(few) /\ few.pv = best.pv
    BY <1>3, <2>1 DEF Fine
  <2>3. QED
    BY <1>3, <2>2
<1>5. Fine(named) /\ (~rejected /\ named.pv # <<>> => ~Rejected(named.pv[1].moves))
  <2> HIDE DEF clean, best
  <2>1. CASE clean.pv = <<>>
    BY <2>1, FineAre, NoWinnerIs
  <2>2. CASE clean.pv # <<>>
    BY <1>4, <2>2, FineAre, OnlyMoveIs
  <2>3. QED
    BY <2>1, <2>2
<1> HIDE DEF named, clean, best
<1>6. ASSUME NEW kept, NEW complete
      PROVE  DOMAIN Kept(kept, complete) = DOMAIN report /\ Kept(kept, complete).best = clean
  BY DEF Inv, Shaped
<1> HIDE DEF Kept
<1>7. CASE report' = Reset(NoWinner)
  BY <1>1, <1>7, ReportsAre, FineAre, NoWinnerIs DEF Inv
<1>8. CASE ~rejected /\ report' = Reset(named)
  BY <1>1, <1>5, <1>8, ReportsAre DEF Inv
<1>9. CASE ~rejected /\ \E kept, complete : report' = Kept(kept, complete)
  BY <1>1, <1>4, <1>6, <1>9
<1>10. QED
  BY <1>2, <1>7, <1>8, <1>9

LEMMA FinalizeKeeps == ASSUME Inv, Finalize PROVE Inv' /\ pc' # "pass"
<1>1. Gating
  BY FinalizeIs DEF Gating, Inv, Known
<1>2. Rescuing' /\ Gated'
  BY FinalizeIs DEF Rescuing, Gated, published, Rejected
<1>3. QED
  BY <1>1, <1>2, GatingKeeps

\* What is withheld is nothing.
LEMMA WithheldIs ==
  ASSUME Shaped, NEW answer
  PROVE  /\ DOMAIN Withheld(answer) = DOMAIN report
         /\ Withheld(answer).best = NoWinner
<1>1. DOMAIN Reset(NoWinner) = DOMAIN report /\ Reset(NoWinner).best = NoWinner
  BY ReportsAre
<1>2. QED
  BY <1>1 DEF Withheld, Shaped

\* An answer to the last probe of a child that is known to be mated is that it is.
LEMMA FinalAnswersTrue ==
  ASSUME Known, NEW s, NEW answer \in FinalAnswers(s)
  PROVE  /\ answer \in {"found", "exhausted", "time", "work"}
         /\ answer = "exhausted" => MatingSeries[s] = None
         /\ \A t \in DOMAIN Learned(screened, s, answer) :
              Learned(screened, s, answer)[t] = MatingSeries[t]
<1>1. answer = "found" \/ answer \in Answers(s)
  BY DEF FinalAnswers
<1>2. CASE answer \in Answers(s)
  BY <1>2, AnswersTrue
<1>3. CASE answer = "found"
  BY <1>3, LearnedTrue DEF Known
<1>4. QED
  BY <1>1, <1>2, <1>3

LEMMA GateKeeps == ASSUME Inv, Gate PROVE Inv' /\ pc' # "pass"
<1>1. /\ pc = "gate" /\ UNCHANGED <<call, evidence, winner, vetoed, quarantined>>
      /\ pc' \in {"reselect", "ladder-gate", "close"}
  BY DEF Gate
<1>2. Fine(report.best)
  BY DEF Inv, Shaped, Listed, Fine
<1>3. CASE ~Undecided /\ pc' = "close" /\ UNCHANGED <<screened, report>>
  <2>1. Gating /\ Rescuing' /\ Gated'
    BY <1>1, <1>2, <1>3
       DEF Gating, Rescuing, Gated, Inv, Known, Stands, Undecided, published
  <2>2. QED
    BY <2>1, GatingKeeps
<1>4. CASE Undecided /\ ~ (pc' = "close" /\ UNCHANGED <<screened, report>> /\ ~Undecided)
  <2>1. PICK answer \in FinalAnswers(published.final) :
          /\ screened' = IF published.final \in mem.mated THEN screened
                         ELSE Learned(screened, published.final, answer)
          /\ \/ answer = "exhausted" /\ pc' = "ladder-gate" /\ UNCHANGED report
             \/ pc' = "reselect" /\ UNCHANGED report
             \/ pc' = "close" /\ report' = Withheld(answer)
    BY <1>4, Zenon DEF Gate
  <2>2. Known'
    BY <2>1, FinalAnswersTrue DEF Inv, Known
  <2>3. answer = "exhausted" => MatingSeries[published.final] = None
    BY <2>1, FinalAnswersTrue DEF Inv
  <2>4. published.moves \notin vetoed \cup quarantined
    BY <1>1, <1>4 DEF Inv, Gated, Undecided
  <2>5. DOMAIN report' = DOMAIN report /\ Fine(report'.best)
    BY <1>2, <2>1, WithheldIs, FineAre DEF Inv
  <2>6. Gating
    BY <1>1, <2>2, <2>5 DEF Gating
  <2>7. Stands' \/ pc' = "reselect"
    <3>1. CASE pc' = "close"
      BY <2>1, <3>1, WithheldIs, NoWinnerIs DEF Inv, Stands, Undecided
    <3>2. CASE pc' # "close"
      BY <1>1, <2>1, <2>3, <2>4, <3>2 DEF Stands, Undecided, published
    <3>3. QED
      BY <3>1, <3>2
  <2>8. Rescuing' /\ Gated'
    BY <1>1, <2>7 DEF Rescuing, Gated
  <2>9. QED
    BY <2>6, <2>8, GatingKeeps
<1>5. QED
  BY <1>3, <1>4, Zenon DEF Gate

\* A list in which no two series are of the same moves.
Once(list) ==
  /\ list \in Seq(Range(list)) /\ Distinct(list)
  /\ \A r, t \in Range(list) : r.moves = t.moves => r = t

LEMMA AmongOnce ==
  ASSUME NEW list, Once(list), NEW S
  PROVE  Once(Among(list, S)) /\ Range(Among(list, S)) = Range(list) \cap S
<1>1. /\ Among(list, S) \in Seq(Range(list)) /\ Range(Among(list, S)) = Range(list) \cap S
      /\ Distinct(Among(list, S))
  BY AmongLists DEF Once
<1>2. Among(list, S) \in Seq(Range(Among(list, S)))
  BY <1>1, OwnSeq
<1>3. QED
  BY <1>1, <1>2 DEF Once

\* Mates first, then the others: each once.
LEMMA MatesFirst ==
  ASSUME NEW list, Once(list), NEW S, S \subseteq Range(list)
  PROVE  LET l == Among(list, S) \o Among(list, Range(list) \ S) IN
         Once(l) /\ Range(l) = Range(list)
<1> DEFINE a == Among(list, S)
           b == Among(list, Range(list) \ S)
<1>1. /\ a \in Seq(Range(list)) /\ Range(a) = Range(list) \cap S /\ Distinct(a)
      /\ b \in Seq(Range(list)) /\ Range(b) = Range(list) \cap (Range(list) \ S) /\ Distinct(b)
  BY AmongLists DEF Once
<1> HIDE DEF a, b
<1>2. Range(a) \cap Range(b) = {}
  BY <1>1
<1>3. a \o b \in Seq(Range(list)) /\ Range(a \o b) = Range(a) \cup Range(b) /\ Distinct(a \o b)
  BY <1>1, <1>2, Joined
<1>4. Range(a \o b) = Range(list)
  BY <1>1, <1>3
<1>5. QED
  BY <1>3, <1>4 DEF Once, a, b

LEMMA RescueOrderIs ==
  ASSUME NEW retained, Once(retained), NEW wide, Once(wide)
  PROVE  LET l == RescueOrder(retained, wide) IN
         Once(l) /\ Range(l) \subseteq Range(retained) \cup Range(wide)
<1>1. CASE Ending(retained) # {}
  BY <1>1, AmongOnce DEF RescueOrder
<1>2. CASE Ending(retained) = {} /\ MayWiden
  <2>1. Ending(wide) \subseteq Range(wide)
    BY DEF Ending
  <2>2. RescueOrder(retained, wide) =
          Among(wide, Ending(wide)) \o Among(wide, Range(wide) \ Ending(wide))
    BY <1>2 DEF RescueOrder
  <2>3. QED
    BY <2>1, <2>2, MatesFirst
<1>3. CASE Ending(retained) = {} /\ ~MayWiden
  <2>1. \E S : RescueOrder(retained, wide) = Among(retained, S)
    BY <1>3, Zenon DEF RescueOrder
  <2>2. QED
    BY <2>1, AmongOnce
<1>4. QED
  BY <1>1, <1>2, <1>3

\* The series of a list of alternatives.
LEMMA SeriesOnce ==
  ASSUME NEW list, Alternatives(list)
  PROVE  Once([i \in DOMAIN list |-> list[i].series])
<1> DEFINE all == [i \in DOMAIN list |-> list[i].series]
<1>1. Len(list) \in Nat /\ DOMAIN list = 1 .. Len(list) /\ \A i \in DOMAIN list : list[i] \in Range(list)
  BY LenProperties DEF Alternatives, Range
<1>2. all \in Seq(Range(all))
  <2>1. all \in [1 .. Len(list) -> Range(all)]
    BY <1>1 DEF Range
  <2>2. QED
    BY <1>1, <2>1
<1>3. \A i, j \in DOMAIN list : all[i].moves = all[j].moves => i = j
  BY <1>1 DEF Alternatives, Solo, Distinct
<1>4. Distinct(all)
  BY <1>3 DEF Distinct
<1>5. \A r, t \in Range(all) : r.moves = t.moves => r = t
  BY <1>3 DEF Range
<1>6. QED
  BY <1>2, <1>4, <1>5 DEF Once

LEMMA ReselectKeeps == ASSUME Inv, Reselect PROVE Inv' /\ pc' # "pass"
<1> DEFINE Fit(list) == {r \in Range(list) :
                           r.moves \notin vetoed \cup quarantined /\ r.final # published.final}
           wide == Frontiers(root, <<>>, RescueCap).series
           candidates == [i \in DOMAIN report.best.alternatives |->
                            report.best.alternatives[i].series]
           retained == Among(candidates, Fit(candidates))
           widened == Among(wide, Fit(wide))
<1>1. /\ UNCHANGED <<call, screened, evidence, winner, vetoed, quarantined>>
      /\ Reselection(retained, widened)
  BY DEF Reselect
<1>2. Once(wide)
  <2>1. Frontiers(root, <<>>, RescueCap) \in Asked(call)
    BY DEF Asked, root
  <2>2. wide \in Seq(Lines(call)) /\ Distinct(wide)
    BY <2>1, AskedAre DEF Inv, Shaped, FrontiersOf
  <2>3. Range(wide) \subseteq Lines(call)
    BY <2>1 DEF Lines
  <2> HIDE DEF wide
  <2>4. QED
    BY <2>2, <2>3, OwnSeq, AskedAre DEF Once, Inv, Shaped
<1>3. Once(candidates)
  BY SeriesOnce DEF Inv, Listed
<1>4. /\ \A r \in Fit(candidates) : r.moves \notin vetoed \cup quarantined
      /\ \A r \in Fit(wide) : r.moves \notin vetoed \cup quarantined
  OBVIOUS
<1> HIDE DEF wide, candidates, Fit
<1>5. /\ Once(retained) /\ Once(widened)
      /\ \A r \in Range(retained) \cup Range(widened) : r.moves \notin vetoed \cup quarantined
  BY <1>2, <1>3, <1>4, AmongOnce
<1> HIDE DEF retained, widened
<1> DEFINE l == RescueOrder(retained, widened)
<1>6. Once(l) /\ \A r \in Range(l) : r.moves \notin vetoed \cup quarantined
  BY <1>5, RescueOrderIs
<1>7. \/ /\ pc' = "rescue" /\ UNCHANGED report
         /\ lane' = [rest |-> l, limited |-> FALSE, gated |-> FALSE]
      \/ pc' = "close" /\ \E answer : report' = Withheld(answer)
  BY <1>1 DEF Reselection
<1> HIDE DEF l
<1>8. Gating
  BY <1>1, <1>7, WithheldIs, FineAre DEF Gating, Inv, Known, Shaped, Listed, Fine
<1>9. Rescuing' /\ Gated'
  <2>1. CASE pc' = "rescue"
    BY <1>1, <1>6, <1>7, <2>1 DEF Rescuing, Gated, Once
  <2>2. CASE pc' = "close"
    BY <1>7, <2>2, WithheldIs, NoWinnerIs DEF Inv, Rescuing, Gated, Stands, Undecided
  <2>3. QED
    BY <1>7, <2>1, <2>2
<1>10. QED
  BY <1>8, <1>9, GatingKeeps

LEMMA RescuedIs ==
  ASSUME Shaped, NEW r, NEW score
  PROVE  /\ DOMAIN Rescued(r, score) = DOMAIN report /\ Fine(Rescued(r, score).best)
         /\ Rescued(r, score).best.pv # <<>> /\ Rescued(r, score).best.pv[1] = r
<1> DEFINE b == [OnlyMove(r) EXCEPT !.score = score]
<1>1. Fine(b) /\ b.pv # <<>> /\ b.pv[1] = r
  BY OnlyMoveIs, EmptyList DEF Fine
<1> HIDE DEF b
<1>2. DOMAIN Reset(b) = DOMAIN report /\ Reset(b).best = b
  BY ReportsAre
<1>3. Rescued(r, score) = [Reset(b) EXCEPT !.workLimit = @ \/ lane.limited]
  BY DEF Rescued, b
<1>4. QED
  BY <1>1, <1>2, <1>3 DEF Shaped

\* The five ends of the rescue's look at one candidate.
LEMMA RescueOneIs ==
  ASSUME Inv, RescueOne
  PROVE  LET r == Head(lane.rest) IN
         /\ pc = "rescue" /\ lane.rest # <<>>
         /\ UNCHANGED <<call, evidence, winner, quarantined>> /\ Known'
         /\ \/ pc' = "close" /\ report' = Withheld("time") /\ UNCHANGED vetoed
            \/ /\ pc' = "close" /\ r.outcome # None /\ UNCHANGED vetoed
               /\ \E score : report' = Rescued(r, score)
            \/ /\ pc' = "rescue" /\ UNCHANGED report
               /\ vetoed' \in {vetoed, vetoed \cup {r.moves}}
               /\ DOMAIN lane' = DOMAIN lane /\ lane'.rest = Tail(lane.rest)
            \/ /\ pc' = "ladder-gate" /\ MatingSeries[r.final] = None /\ UNCHANGED vetoed
               /\ \E score : report' = Rescued(r, score)
<1> DEFINE r == Head(lane.rest)
           next == [lane EXCEPT !.rest = Tail(@)]
           After(answer) ==
             \/ \E l : lane' = [next EXCEPT !.limited = l] /\ UNCHANGED <<pc, report, vetoed>>
             \/ lane' = next /\ vetoed' = vetoed \cup {r.moves} /\ UNCHANGED <<pc, report>>
             \/ /\ answer = "exhausted" /\ pc' = "ladder-gate" /\ UNCHANGED vetoed
                /\ \E score : report' = Rescued(r, score)
<1>1. /\ pc = "rescue" /\ lane.rest # <<>>
      /\ UNCHANGED <<call, evidence, winner, quarantined>>
  BY DEF RescueOne
<1>2. \/ pc' = "close" /\ report' = Withheld("time") /\ UNCHANGED <<screened, vetoed>>
      \/ /\ pc' = "close" /\ r.outcome # None /\ UNCHANGED <<screened, vetoed>>
         /\ \E score : report' = Rescued(r, score)
      \/ \E answer \in Answers(r.final) :
           screened' = Learned(screened, r.final, answer) /\ After(answer)
  BY Zenon DEF RescueOne
<1>3. DOMAIN next = DOMAIN lane /\ next.rest = Tail(lane.rest)
      /\ "rest" \in DOMAIN lane
  BY <1>1 DEF Inv, Rescuing
<1>4. CASE UNCHANGED <<screened, vetoed>> /\ pc' = "close"
  BY <1>1, <1>2, <1>4 DEF Inv, Known
<1>5. ASSUME NEW answer \in Answers(r.final),
             screened' = Learned(screened, r.final, answer), After(answer)
      PROVE  /\ Known'
             /\ \/ /\ pc' = "rescue" /\ UNCHANGED report
                   /\ vetoed' \in {vetoed, vetoed \cup {r.moves}}
                   /\ DOMAIN lane' = DOMAIN lane /\ lane'.rest = Tail(lane.rest)
                \/ /\ pc' = "ladder-gate" /\ MatingSeries[r.final] = None /\ UNCHANGED vetoed
                   /\ \E score : report' = Rescued(r, score)
  <2> HIDE DEF r, next
  <2>1. Known' /\ (answer = "exhausted" => MatingSeries[r.final] = None)
    BY <1>5, AnswersTrue DEF Inv, Known
  <2>2. \A l : DOMAIN [next EXCEPT !.limited = l] = DOMAIN lane
               /\ [next EXCEPT !.limited = l].rest = Tail(lane.rest)
    BY <1>3
  <2>3. QED
    BY <1>1, <1>3, <1>5, <2>1, <2>2
<1> HIDE DEF r, next, After
<1>6. QED
  BY <1>1, <1>2, <1>4, <1>5 DEF r

LEMMA RescueOneKeeps == ASSUME Inv, RescueOne PROVE Inv' /\ pc' # "pass"
<1> DEFINE r == Head(lane.rest)
<1>1. /\ pc = "rescue" /\ lane.rest # <<>>
      /\ UNCHANGED <<call, evidence, winner, quarantined>> /\ Known'
      /\ \/ pc' = "close" /\ report' = Withheld("time") /\ UNCHANGED vetoed
         \/ /\ pc' = "close" /\ r.outcome # None /\ UNCHANGED vetoed
            /\ \E score : report' = Rescued(r, score)
         \/ /\ pc' = "rescue" /\ UNCHANGED report
            /\ vetoed' \in {vetoed, vetoed \cup {r.moves}}
            /\ DOMAIN lane' = DOMAIN lane /\ lane'.rest = Tail(lane.rest)
         \/ /\ pc' = "ladder-gate" /\ MatingSeries[r.final] = None /\ UNCHANGED vetoed
            /\ \E score : report' = Rescued(r, score)
  BY RescueOneIs
<1>2. /\ lane.rest \in Seq(Range(lane.rest)) /\ Distinct(lane.rest)
      /\ \A s, t \in Range(lane.rest) : s.moves = t.moves => s = t
      /\ \A s \in Range(lane.rest) : s.moves \notin vetoed \cup quarantined
      /\ DOMAIN lane = {"rest", "limited", "gated"}
  BY <1>1 DEF Inv, Rescuing
<1>3. /\ r \in Range(lane.rest) /\ Tail(lane.rest) \in Seq(Range(lane.rest))
      /\ Range(Tail(lane.rest)) \subseteq Range(lane.rest)
      /\ Distinct(Tail(lane.rest)) /\ r \notin Range(Tail(lane.rest))
  BY <1>1, <1>2, TailLists
<1>4. Tail(lane.rest) \in Seq(Range(Tail(lane.rest)))
  BY <1>3, OwnSeq
<1> HIDE DEF r
<1>5. DOMAIN report' = DOMAIN report /\ Fine(report'.best)
  BY <1>1, WithheldIs, RescuedIs, FineAre DEF Inv, Shaped, Listed, Fine
<1>6. Gating
  BY <1>1, <1>5 DEF Gating
<1>7. Rescuing' /\ Gated'
  <2>1. CASE pc' = "close"
    <3>1. report'.best.pv # <<>> => report'.best.pv[1].outcome # None
      BY <1>1, <2>1, WithheldIs, NoWinnerIs, RescuedIs DEF Inv
    <3>2. QED
      BY <2>1, <3>1 DEF Rescuing, Gated, Stands, Undecided, published
  <2>2. CASE pc' = "ladder-gate"
    <3>1. report'.best.pv[1] = r
      BY <1>1, <2>2, RescuedIs DEF Inv
    <3>2. QED
      BY <1>1, <1>2, <1>3, <2>2, <3>1 DEF Rescuing, Gated, Stands, Undecided, published
  <2>3. CASE pc' = "rescue"
    <3>1. \A s \in Range(Tail(lane.rest)) : s \in Range(lane.rest) /\ s.moves # r.moves
      BY <1>2, <1>3
    <3>2. QED
      BY <1>1, <1>2, <1>3, <1>4, <2>3, <3>1 DEF Rescuing, Gated
  <2>4. QED
    BY <1>1, <2>1, <2>2, <2>3
<1>8. QED
  BY <1>6, <1>7, GatingKeeps

LEMMA RescueNoneKeeps == ASSUME Inv, RescueNone PROVE Inv' /\ pc' # "pass"
<1>1. /\ UNCHANGED <<call, screened, evidence, winner>> /\ pc' = "close"
      /\ \E answer : report' = Withheld(answer)
  BY DEF RescueNone
<1>2. DOMAIN report' = DOMAIN report /\ Fine(report'.best) /\ report'.best.pv = <<>>
  BY <1>1, WithheldIs, FineAre, NoWinnerIs DEF Inv
<1>3. Gating /\ Rescuing' /\ Gated'
  BY <1>1, <1>2 DEF Gating, Rescuing, Gated, Stands, Undecided, Inv, Known
<1>4. QED
  BY <1>3, GatingKeeps

LEMMA LadderGateKeeps == ASSUME Inv, LadderGate PROVE Inv' /\ pc' # "pass"
<1>1. /\ UNCHANGED <<call, screened, evidence, winner, quarantined>> /\ pc' = "close"
      /\ pc = "ladder-gate"
      /\ report' = Reset(NoWinner) \/ UNCHANGED <<vetoed, report>>
  BY DEF LadderGate
<1>2. CASE report' = Reset(NoWinner)
  <2>1. DOMAIN report' = DOMAIN report /\ Fine(report'.best) /\ report'.best.pv = <<>>
    BY <1>2, ReportsAre, FineAre, NoWinnerIs DEF Inv
  <2>2. Gating /\ Rescuing' /\ Gated'
    BY <1>1, <2>1 DEF Gating, Rescuing, Gated, Stands, Undecided, Inv, Known
  <2>3. QED
    BY <2>2, GatingKeeps
<1>3. CASE UNCHANGED <<vetoed, report>>
  <2>1. Gating
    BY <1>1, <1>3 DEF Gating, Inv, Known, Shaped, Listed, Fine
  <2>2. Rescuing' /\ Gated'
    BY <1>1, <1>3 DEF Rescuing, Gated, Stands, Undecided, published, Inv
  <2>3. QED
    BY <2>1, <2>2, GatingKeeps
<1>4. QED
  BY <1>1, <1>2, <1>3

LEMMA CloseKeeps == ASSUME Inv, Close PROVE Inv' /\ pc' # "pass"
<1> DEFINE bare == [report EXCEPT !.best.alternatives = <<>>]
<1>1. /\ UNCHANGED <<call, screened, evidence, winner, vetoed, quarantined>>
      /\ pc = "close" /\ pc' = "done" /\ report' \in {bare, report}
  BY DEF Close
<1>2. DOMAIN bare = DOMAIN report /\ Fine(bare.best) /\ bare.best.pv = report.best.pv
  <2>1. /\ DOMAIN bare = DOMAIN report
        /\ bare.best = [report.best EXCEPT !.alternatives = <<>>]
    BY DEF Inv, Shaped
  <2>2. QED
    BY <2>1, EmptyList DEF Fine, Inv, Shaped
<1> HIDE DEF bare
<1>3. DOMAIN report' = DOMAIN report /\ Fine(report'.best) /\ report'.best.pv = report.best.pv
  BY <1>1, <1>2 DEF Inv, Shaped, Listed, Fine
<1>4. Gating
  BY <1>1, <1>3 DEF Gating, Inv, Known
<1>5. Rescuing' /\ Gated'
  BY <1>1, <1>3 DEF Rescuing, Gated, Stands, Undecided, published, Inv
<1>6. QED
  BY <1>4, <1>5, GatingKeeps

-----------------------------------------------------------------------------
(* What a call publishes. *)

LEMMA InvStep == ASSUME Inv, [Next]_vars PROVE Inv'
<1>1. CASE UNCHANGED vars
  <2>1. UNCHANGED <<call, pc, screened, pass, evidence, vetoed, quarantined, winner, lane, stop,
                    report>>
    BY <1>1 DEF vars
  <2>2. Shaped' /\ Known' /\ WideKept' /\ Listed'
    BY <2>1 DEF Inv, Shaped, Known, WideKept, Listed, FrontiersOf, Lines, Asked, root
  <2>3. Scanning' /\ Widening'
    BY <2>1 DEF Inv, Scanning, Widening, Left, Apart, Excluded, Barred, Lines, Asked, root
  <2>4. Won' /\ Stopped' /\ Rescuing' /\ Gated'
    BY <2>1 DEF Inv, Won, Stopped, Rescuing, Gated, Stands, Undecided, published, notation,
                child, selected, Lines, Asked, root
  <2>5. QED
    BY <2>2, <2>3, <2>4 DEF Inv
<1>2. CASE Adjudicate \/ EnterDepth \/ StartPass \/ InterruptFrontier \/ InterruptPass
           \/ ScoreCandidate \/ EndPass
  BY <1>2, AdjudicateKeeps, EnterDepthKeeps, StartPassKeeps, InterruptFrontierKeeps,
     InterruptPassKeeps, ScoreCandidateKeeps, EndPassKeeps
<1>3. CASE WidenFrontier \/ NothingLeft \/ Judge \/ Screen \/ Ladder \/ Certify \/ Repair
  BY <1>3, WidenFrontierKeeps, NothingLeftKeeps, JudgeKeeps, ScreenKeeps, LadderKeeps,
     CertifyKeeps, RepairKeeps
<1>4. CASE StartWidening \/ Widen \/ EndWidening \/ Settle \/ Accept
  BY <1>4, StartWideningKeeps, WidenKeeps, EndWideningKeeps, SettleKeeps, AcceptKeeps
<1>5. CASE Finalize \/ Gate \/ Reselect \/ RescueOne \/ RescueNone \/ LadderGate \/ Close
  BY <1>5, FinalizeKeeps, GateKeeps, ReselectKeeps, RescueOneKeeps, RescueNoneKeeps,
     LadderGateKeeps, CloseKeeps
<1>6. QED
  BY <1>1, <1>2, <1>3, <1>4, <1>5 DEF Next, Step, Done

LEMMA InvHolds == Spec => []Inv
<1>1. Init => Inv
  BY InitHolds
<1>2. Inv /\ [Next]_vars => Inv'
  BY InvStep
<1>3. QED
  BY <1>1, <1>2, PTL DEF Spec

\* A published move that leaves the game open allows no mating reply and is no rejected root:
\* every way into the end of a call passes the gates with such a move, or with none, and what
\* the gates read of a boundary is true (run's final gates, _final_safe_reselection).
THEOREM SearchPublishedMoveStands == Spec => []PublishedMoveStands
<1>1. Inv => PublishedMoveStands
  BY DEF Inv, Gated, Stands, PublishedMoveStands
<1>2. QED
  BY <1>1, InvHolds, PTL

-----------------------------------------------------------------------------
(* What a depth learns. *)

Wide(e) == {e.widened} \ {None}
Grows ==
  /\ DOMAIN evidence.overrides \subseteq DOMAIN evidence'.overrides
  /\ evidence.repairs \subseteq evidence'.repairs /\ evidence.vetoes \subseteq evidence'.vetoes
  /\ quarantined \subseteq quarantined' /\ Wide(evidence) \subseteq Wide(evidence')
Gains ==
  \/ DOMAIN evidence'.overrides # DOMAIN evidence.overrides
  \/ evidence'.repairs # evidence.repairs \/ evidence'.vetoes # evidence.vetoes
  \/ quarantined' # quarantined \/ Wide(evidence') # Wide(evidence)
Progress ==
  /\ \A i \in DOMAIN Learnt : Learnt[i] \subseteq Learnt'[i]
  /\ pc' = "pass" => Learnt' # Learnt

LEMMA LearntGrows == ASSUME Grows, pc' = "pass" => Gains PROVE Progress
<1>1. /\ DOMAIN Learnt = 1 .. 5
      /\ Learnt[1] = DOMAIN evidence.overrides /\ Learnt[2] = evidence.repairs
      /\ Learnt[3] = evidence.vetoes /\ Learnt[4] = quarantined /\ Learnt[5] = Wide(evidence)
  BY DEF Learnt, Wide
<1>2. /\ Learnt'[1] = DOMAIN evidence'.overrides /\ Learnt'[2] = evidence'.repairs
      /\ Learnt'[3] = evidence'.vetoes /\ Learnt'[4] = quarantined'
      /\ Learnt'[5] = Wide(evidence')
  BY DEF Learnt, Wide
<1>3. \A i \in DOMAIN Learnt : i = 1 \/ i = 2 \/ i = 3 \/ i = 4 \/ i = 5
  BY <1>1
<1>4. \A i \in DOMAIN Learnt : Learnt[i] \subseteq Learnt'[i]
  BY <1>1, <1>2, <1>3 DEF Grows
<1>5. Gains => Learnt' # Learnt
  BY <1>1, <1>2 DEF Gains
<1>6. QED
  BY <1>4, <1>5 DEF Progress

\* Most steps learn nothing of a candidate, or only that one is quarantined, and start no pass.
LEMMA NothingLearnt ==
  ASSUME UNCHANGED evidence, quarantined \subseteq quarantined', pc' # "pass"
  PROVE  Progress
BY LearntGrows DEF Grows

LEMMA ScanLearns == ASSUME Inv, ScoreCandidate PROVE Progress
<1>1. PICK value, exact, c : Take(Head(pass.rest), value, exact, c)
  BY DEF ScoreCandidate, Valued, Tied, TakeValue
<1>2. UNCHANGED evidence /\ pc = "scan"
  BY DEF ScoreCandidate
<1>3. pc' \in {pc, "stopped"} /\ quarantined \subseteq quarantined'
  BY <1>1 DEF Take, Raised, Quarantine
<1>4. QED
  BY <1>2, <1>3, NothingLearnt

LEMMA PassesLearn ==
  ASSUME Inv, Adjudicate \/ StartPass \/ InterruptFrontier \/ InterruptPass \/ EndPass
  PROVE  Progress
<1>1. UNCHANGED <<evidence, quarantined>>
  BY DEF Adjudicate, StartPass, InterruptFrontier, InterruptPass, EndPass
<1>2. pc' # "pass"
  <2>1. CASE InterruptFrontier \/ InterruptPass
    BY <2>1, InterruptedStops, FailedStops DEF InterruptFrontier, InterruptPass
  <2>2. CASE Adjudicate
    BY <2>2 DEF Adjudicate, PublishNothing
  <2>3. CASE StartPass
    BY <2>3 DEF StartPass, EnterWith, Enter
  <2>4. CASE EndPass
    BY <2>4 DEF EndPass
  <2>5. QED
    BY <2>1, <2>2, <2>3, <2>4
<1>3. QED
  BY <1>1, <1>2, NothingLearnt

\* A frontier is widened once: only while none was.
LEMMA WidenFrontierLearns == ASSUME Inv, WidenFrontier PROVE Progress
<1>1. evidence.widened = None /\ UNCHANGED quarantined
  BY DEF WidenFrontier
<1>2. CASE pc' = "pass" \/ evidence' # evidence
  <2>1. \E open : evidence' = [evidence EXCEPT !.widened = open]
    BY <1>2 DEF WidenFrontier, WidenTo, Widened, Raised
  <2>2. /\ evidence'.overrides = evidence.overrides /\ evidence'.repairs = evidence.repairs
        /\ evidence'.vetoes = evidence.vetoes
    BY <2>1 DEF Inv, Shaped
  <2>3. pc' = "pass" => evidence'.widened # None
    BY WidenFrontierKeeps
  <2>4. QED
    BY <1>1, <2>2, <2>3, LearntGrows DEF Grows, Gains, Wide
<1>3. CASE pc' # "pass" /\ evidence' = evidence
  BY <1>1, <1>3, NothingLearnt
<1>4. QED
  BY <1>2, <1>3

\* A lane that starts another pass rejects, repairs or overrides a candidate that it had not.
LEMMA LanesLearn ==
  ASSUME Inv, Judge \/ Screen \/ Ladder \/ Certify \/ Repair
  PROVE  Progress
<1>1. CASE Judge
  <2>1. notation \notin quarantined
    BY <1>1, JudgeIs DEF Inv, Won
  <2>2. QED
    BY <1>1, <2>1, JudgeIs, LearntGrows DEF Grows, Gains, Wide
<1>2. CASE Screen
  <2>1. child \notin DOMAIN evidence.overrides
    BY <1>2, ScreenIs DEF Inv, Won
  <2>2. QED
    BY <1>2, <2>1, ScreenIs, LearntGrows DEF Grows, Gains, Wide
<1>3. CASE Ladder
  <2>1. notation \notin evidence.vetoes
    BY <1>3, LadderIs DEF Inv, Won
  <2>2. QED
    BY <1>3, <2>1, LadderIs, LearntGrows DEF Grows, Gains, Wide
<1>4. CASE Certify
  <2>1. notation \notin evidence.vetoes
    BY <1>4, CertifyIs DEF Inv, Won
  <2>2. QED
    BY <1>4, <2>1, CertifyIs, LearntGrows DEF Grows, Gains, Wide
<1>5. CASE Repair
  <2>1. notation \notin evidence.repairs
    BY <1>5, RepairIs DEF Inv, Won
  <2>2. QED
    BY <1>5, <2>1, RepairIs, LearntGrows DEF Grows, Gains, Wide
<1>6. QED
  BY <1>1, <1>2, <1>3, <1>4, <1>5

LEMMA WideningLearns ==
  ASSUME Inv, StartWidening \/ Widen \/ (EndWidening /\ pc' # "stopped")
  PROVE  Progress
<1>1. CASE StartWidening
  BY <1>1, StartWideningKeeps, NothingLearnt DEF StartWidening
<1>2. CASE Widen
  <2>1. UNCHANGED evidence /\ quarantined \subseteq quarantined'
    BY <1>2, WidenIs DEF WidenedBy, Bars
  <2>2. QED
    BY <1>2, <2>1, WidenKeeps, NothingLearnt
<1>3. CASE EndWidening /\ pc' # "stopped"
  BY <1>3, EndWideningKeeps, LearntGrows DEF Grows, Gains, Wide
<1>4. QED
  BY <1>1, <1>2, <1>3

\* A widening that is stopped leaves what was learnt as it is.
LEMMA WideningStops == ASSUME Inv, EndWidening, pc' = "stopped" PROVE Progress
<1>1. UNCHANGED <<evidence, quarantined>>
  <2>1. \A w : Selects(w) => pc' # "stopped"
    BY DEF Selects, RejectClaim
  <2>2. QED
    BY <2>1, EndWideningIs
<1>2. QED
  BY <1>1, NothingLearnt

LEMMA EndingLearns ==
  ASSUME Inv, NothingLeft \/ Accept \/ Finalize \/ Gate \/ Reselect \/ RescueOne \/ RescueNone
              \/ LadderGate \/ Close
  PROVE  Progress
<1>1. pc' # "pass"
  BY NothingLeftKeeps, AcceptKeeps, FinalizeKeeps, GateKeeps, ReselectKeeps, RescueOneKeeps,
     RescueNoneKeeps, LadderGateKeeps, CloseKeeps
<1>2. UNCHANGED evidence /\ quarantined \subseteq quarantined'
  <2>1. CASE Finalize
    BY <2>1, FinalizeIs
  <2>2. CASE ~ Finalize
    BY <2>2 DEF NothingLeft, Accept, Gate, Reselect, RescueOne, RescueNone, LadderGate, Close
  <2>3. QED
    BY <2>1, <2>2
<1>3. QED
  BY <1>1, <1>2, NothingLearnt

\* No pass of a depth repeats an earlier one: each after the first has an override, a repair, a
\* veto, a quarantine or a frontier more than any before it, and none is taken back
\* (_search_root's while True, whose ends the candidates of a depth therefore bound).
THEOREM SearchEveryPassIsNew == Spec => EveryPassIsNew
<1>1. ASSUME Inv, Next, pc \notin {"depth", "stopped"}
      PROVE  Progress \/ UNCHANGED vars
  <2>1. Step \/ UNCHANGED vars
    BY <1>1 DEF Next, Done
  <2>2. ~ EnterDepth /\ ~ Settle
    BY <1>1 DEF EnterDepth, Settle
  <2>3. CASE Step
    BY <1>1, <2>2, <2>3, ScanLearns, PassesLearn, WidenFrontierLearns, LanesLearn,
       WideningLearns, WideningStops, EndingLearns DEF Step
  <2>4. QED
    BY <2>1, <2>3
<1>2. Inv /\ [Next]_vars
        => [pc \notin {"depth", "stopped"} =>
              /\ \A i \in DOMAIN Learnt : Learnt[i] \subseteq Learnt'[i]
              /\ pc' = "pass" => Learnt' # Learnt]_vars
  BY <1>1 DEF Progress
<1>3. QED
  BY <1>2, InvHolds, PTL DEF Spec, EveryPassIsNew
=============================================================================
