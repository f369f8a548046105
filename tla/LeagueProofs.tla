---------------------------- MODULE LeagueProofs ----------------------------
(***************************************************************************)
(* What League promises for any number of profiles, runs, generations and  *)
(* pairs: however often the process is killed and resumed, a generation is *)
(* decided once, a promotion is earned in the rows of its games, and the   *)
(* run's row, its populations and the lineage tell one story.  The last part*)
(* is what it promises when runs are started only by train-engine.cmd, which*)
(* continues the latest run while it can (AnyRun = FALSE) and passes no    *)
(* champion of its own (Handpicked = {}).                                  *)
(***************************************************************************)
EXTENDS League, FiniteSetTheorems, WellFoundedInduction, TLAPS

\* The runs of the database are numbered without gaps.
Contiguous == \E n \in 0 .. MaxRuns : Opened = 1 .. n

\* Where the process is, told from the row of its run and from its population.
InRun == {"publish", "generation", "play", "crown", "lineage", "breed", "advance"}
InMatch == {"play", "crown", "lineage", "breed", "advance"}
Decider == {"crown", "lineage", "breed", "advance"}

Paired(p) ==
  p = [champion |-> me.opponent, challenger |-> me.candidate] /\ me.candidate \in Profiles

Position ==
  /\ pc \notin {"idle", "create"} => me.run \in Opened /\ me.champion \in Profiles
  /\ pc = "create" => /\ me.champion \in Profiles /\ me.generation = 1
                      /\ Cardinality(Opened) < MaxRuns
  /\ pc \in InRun => runs[me.run].generation = me.generation /\ Unfinished(me.run)
  /\ pc \in {"publish", "generation", "play", "crown"} =>
       me.champion = runs[me.run].champion
  /\ pc \in InMatch => Paired(population[me.run][me.generation])
                       /\ me.opponent = runs[me.run].champion
  /\ pc \in Decider => matches[me.run][me.generation] # None
  /\ pc \in {"crown", "lineage"} => matches[me.run][me.generation].promoted
  /\ pc = "lineage" => me.champion = me.candidate
  /\ pc \in {"breed", "advance"} =>
       IF matches[me.run][me.generation].promoted
       THEN /\ me.champion = me.candidate
            /\ \E x \in lineage : x.run = me.run /\ x.generation = me.generation
       ELSE me.champion = me.opponent
  /\ pc = "advance" => /\ me.generation < Generations
                       /\ population[me.run][me.generation + 1] # None
                       /\ population[me.run][me.generation + 1].champion = me.champion

\* A pair whose games need not be played again; a generation with nothing left to play.
Done(r, g) == {k \in Pairs : games[r][g][k] \notin {"missing", "half", "failed"}}
Settled(r, g) ==
  /\ WorkerFailures(r, g) = {} /\ 1 .. BasePairs \subseteq Done(r, g)
  /\ Cardinality(Counted(r, g)) < TargetPairs => Pairs \subseteq Done(r, g)

\* What is still to be played of the base pairs and the replacements so far.
Playing ==
  pc = "play" =>
    /\ me.todo \subseteq 1 .. BasePairs + me.index
    /\ \A k \in me.todo : games[me.run][me.generation][k] \in {"missing", "half", "failed"}
    /\ \A k \in 1 .. BasePairs + me.index :
         k \in me.todo \/ games[me.run][me.generation][k] \notin {"missing", "half"}
    /\ matches[me.run][me.generation] # None => me.todo = {}

\* A match is what the population and the settled games of its generation make it.
Agrees(r, g) ==
  \E c \in Profiles :
    /\ population[r][g] # None /\ population[r][g].challenger = c
    /\ Settled(r, g)
    /\ matches[r][g] = [candidate |-> c, opponent |-> population[r][g].champion,
                        promoted |-> Verdict(r, g, c)]
Decisions == \A r \in Runs, g \in Gens : matches[r][g] # None => Agrees(r, g)

\* Nothing is stored of a run that is not open or of a generation to come.
Ahead ==
  /\ \A r \in Runs \ Opened, g \in Gens : population[r][g] = None /\ matches[r][g] = None
  /\ \A r \in Opened, g \in Gens : g > runs[r].generation => matches[r][g] = None
  /\ \A x \in lineage : x.run \in Opened /\ x.generation <= runs[x.run].generation

\* A row of the lineage is a promoted match.
Lineages ==
  \A x \in lineage :
    matches[x.run][x.generation] =
      [candidate |-> x.champion, opponent |-> x.previous, promoted |-> TRUE]

\* The population of a run's generation is bred around the champion of its row, and
\* those before it around what was crowned.
Bred ==
  \A r \in Opened :
    /\ Unfinished(r) /\ population[r][runs[r].generation] # None =>
         population[r][runs[r].generation].champion = runs[r].champion
    /\ \A g \in Gens :
         runs[r].generation > 1 /\ g <= runs[r].generation => population[r][g] # None

Following(r, g) ==
  /\ \A x \in lineage : x.run = r /\ x.generation = g =>
       population[r][g + 1].champion = x.champion
  /\ (\A x \in lineage : ~ (x.run = r /\ x.generation = g)) =>
       population[r][g + 1].champion = population[r][g].champion
Followed == \A r \in Opened, g \in Gens : g < runs[r].generation => Following(r, g)

Tables == Contiguous /\ Decisions /\ Ahead /\ Lineages /\ Bred /\ Followed
IInv == TypeOK /\ Tables /\ Position /\ Playing

-----------------------------------------------------------------------------
(* Types. *)
LEMMA RowShape ==
  ASSUME TypeOK, NEW r \in Opened
  PROVE  r \in Runs /\ runs[r] \in Run
  BY DEF TypeOK, Opened

LEMMA MeShape ==
  ASSUME TypeOK
  PROVE  /\ me.run \in Runs \cup {None} /\ me.generation \in Gens
         /\ me.champion \in Profiles \cup {None} /\ me.candidate \in Profiles \cup {None}
         /\ me.opponent \in Profiles \cup {None} /\ me.index \in 0 .. ReplacementPairs
         /\ me.todo \in SUBSET Pairs
  BY DEF TypeOK, Local

LEMMA Bounds ==
  /\ Generations \in Nat /\ 1 \in Gens /\ 1 \in 1 .. Versions /\ Baseline \in Profiles
  /\ MaxRuns \in Nat /\ BasePairs \in Nat /\ ReplacementPairs \in Nat /\ BasePairs > 0
  /\ 1 .. BasePairs \subseteq Pairs /\ \A i \in 0 .. ReplacementPairs : 1 .. BasePairs + i \subseteq Pairs
  /\ \A i \in 0 .. ReplacementPairs : i < ReplacementPairs => BasePairs + i + 1 \in Pairs
  BY LeagueAssumption DEF Gens, Pairs

LEMMA NobodyIsLocal == Nobody \in Local
  BY Bounds DEF Nobody, Local

LEMMA PublishedType ==
  ASSUME NEW c \in Profiles
  PROVE  Published(c) \in [profile : Profiles, evidence : BOOLEAN]
  BY DEF Published

LEMMA SetType ==
  ASSUME TypeOK, NEW r \in Opened, NEW g \in Gens, NEW c \in Profiles, NEW s \in Statuses,
         Set(r, s, g, c)
  PROVE  /\ runs' \in [Runs -> Run \cup {None}] /\ Opened' = Opened
         /\ runs'[r] # None /\ runs'[r].status = s /\ runs'[r].generation = g
         /\ runs'[r].champion = c
         /\ \A q \in Runs \ {r} : runs'[q] = runs[q]
<1>1. [status |-> s, generation |-> g, champion |-> c, version |-> runs[r].version] \in Run
  BY RowShape DEF Run
<1>2. /\ runs'[r] = [status |-> s, generation |-> g, champion |-> c,
                       version |-> runs[r].version]
      /\ runs' \in [Runs -> Run \cup {None}] /\ Opened' = Opened
      /\ \A q \in Runs \ {r} : runs'[q] = runs[q]
  BY <1>1, RowShape, MarkAssumption DEF Set, TypeOK, Opened
<1>3. QED
  BY <1>1, <1>2, MarkAssumption

LEMMA PopulateType ==
  ASSUME TypeOK, NEW r \in Runs, NEW g \in Gens, NEW c \in Profiles, Populate(r, g, c)
  PROVE  /\ population' \in [Runs -> [Gens -> Population \cup {None}]]
         /\ population'[r][g] \in Population /\ population'[r][g] # None
         /\ population'[r][g].champion = c
         /\ \A q \in Runs, h \in Gens : q # r \/ h # g => population'[q][h] = population[q][h]
<1>1. PICK x \in Challengers(c) :
        population' = [population EXCEPT ![r][g] = [champion |-> c, challenger |-> x]]
  BY DEF Populate
<1>2. [champion |-> c, challenger |-> x] \in Population
  BY <1>1 DEF Challengers, Population
<1>3. QED
  BY <1>1, <1>2, MarkAssumption DEF TypeOK

LEMMA FreshRun ==
  ASSUME TypeOK, Contiguous, Cardinality(Opened) < MaxRuns
  PROVE  /\ Cardinality(Opened) + 1 \in Runs /\ Cardinality(Opened) + 1 \notin Opened
         /\ Opened = 1 .. Cardinality(Opened) /\ Cardinality(Opened) \in Nat
<1>1. PICK n \in 0 .. MaxRuns : Opened = 1 .. n
  BY DEF Contiguous
<1>2. Cardinality(Opened) = n
  BY <1>1, FS_Interval, Bounds
<1>3. QED
  BY <1>1, <1>2, Bounds DEF Runs

LEMMA NewRow ==
  ASSUME TypeOK, Contiguous, Position, CreateRun
  PROVE  \E r \in Runs \ Opened :
           /\ r = Cardinality(Opened) + 1
           /\ runs' = [runs EXCEPT ![r] = [status |-> "running", champion |-> me.champion,
                                           generation |-> 1, version |-> version]]
           /\ runs' \in [Runs -> Run \cup {None}] /\ Opened' = Opened \cup {r}
           /\ me' = [me EXCEPT !.run = r] /\ me' \in Local /\ me.champion \in Profiles
           /\ Contiguous'
<1> DEFINE r == Cardinality(Opened) + 1
<1>1. /\ me.champion \in Profiles /\ Cardinality(Opened) < MaxRuns
      /\ runs' = [runs EXCEPT ![r] = [status |-> "running", champion |-> me.champion,
                                      generation |-> 1, version |-> version]]
      /\ me' = [me EXCEPT !.run = r]
  BY DEF CreateRun, Position
<1>2. /\ r \in Runs /\ r \notin Opened /\ Opened = 1 .. Cardinality(Opened)
      /\ Cardinality(Opened) \in Nat
  BY <1>1, FreshRun
<1>3. [status |-> "running", champion |-> me.champion, generation |-> 1, version |-> version]
        \in Run
  BY <1>1, Bounds DEF Run, TypeOK, Statuses
<1>4. Opened' = Opened \cup {r} /\ runs' \in [Runs -> Run \cup {None}]
  BY <1>1, <1>2, <1>3, MarkAssumption DEF TypeOK, Opened
<1>5. Opened' = 1 .. r /\ r \in 0 .. MaxRuns
  BY <1>1, <1>2, <1>4, Bounds
<1>6. me' \in Local
  BY <1>1, <1>2 DEF TypeOK, Local
<1>7. QED
  BY <1>1, <1>2, <1>4, <1>5, <1>6 DEF Contiguous

LEMMA SavedRows ==
  ASSUME TypeOK, Position, NEW k \in Pairs, SaveGame(k)
  PROVE  \E x \in Results \cup {"half", "failed"} :
           /\ x = "half" => games[me.run][me.generation][k] # "half"
           /\ games' = [games EXCEPT ![me.run][me.generation][k] = x]
           /\ x \in Rows /\ games' \in [Runs -> [Gens -> [Pairs -> Rows]]]
           /\ me' = [me EXCEPT !.todo = IF x = "half" THEN @ ELSE @ \ {k}]
           /\ me' \in Local /\ faults' \in 0 .. MaxFaults
<1>1. PICK x \in Results \cup {"half", "failed"} :
       /\ x = "half" => games[me.run][me.generation][k] # "half"
       /\ x = "failed" => faults < MaxFaults
       /\ games' = [games EXCEPT ![me.run][me.generation][k] = x]
       /\ faults' = IF x = "failed" THEN faults + 1 ELSE faults
       /\ me' = [me EXCEPT !.todo = IF x = "half" THEN @ ELSE @ \ {k}]
  BY DEF SaveGame, Saved
<1>2. x \in Rows
  BY LeagueAssumption DEF Rows, Decided
<1>3. me.run \in Runs /\ me.generation \in Gens
  BY MeShape, RowShape DEF SaveGame, Saved, Position
<1>4. games' \in [Runs -> [Gens -> [Pairs -> Rows]]]
  BY <1>1, <1>2, <1>3 DEF TypeOK
<1>5. me' \in Local
  BY <1>1 DEF TypeOK, Local
<1>6. faults' \in 0 .. MaxFaults
  BY <1>1, LeagueAssumption DEF TypeOK
<1>7. QED
  BY <1>1, <1>2, <1>4, <1>5, <1>6

LEMMA TypeStep ==
  ASSUME TypeOK, Contiguous, Position, [Next]_vars
  PROVE  TypeOK'
<1>1. CASE StartRun
  <2>1. PICK c \in FirstChampion : active' = c /\ me' = [Nobody EXCEPT !.champion = c]
    BY <1>1 DEF StartRun
  <2>2. c \in Profiles
    BY <2>1, LeagueAssumption DEF FirstChampion, TypeOK
  <2>3. me' \in Local
    BY <2>1, <2>2, NobodyIsLocal DEF Local
  <2>4. QED
    BY <1>1, <2>1, <2>2, <2>3 DEF StartRun, TypeOK
<1>2. CASE CreateRun
  BY <1>2, NewRow DEF CreateRun, TypeOK
<1>3. ASSUME NEW r \in Runs, Resume(r)
      PROVE  TypeOK'
  <2>1. r \in Opened /\ runs[r] \in Run
    BY <1>3, RowShape DEF Resume
  <2>2. CASE ResumeAt(r)
    <3>1. me' = [Nobody EXCEPT !.run = r, !.generation = runs[r].generation,
                               !.champion = runs[r].champion]
      BY <2>2 DEF ResumeAt
    <3>2. runs[r].generation \in Gens /\ runs[r].champion \in Profiles
      BY <2>1 DEF Run
    <3>3. me' \in Local
      BY <3>1, <3>2, NobodyIsLocal DEF Local
    <3>4. QED
      BY <1>3, <2>2, <3>3 DEF Resume, ResumeAt, TypeOK
  <2>3. CASE Refresh(r)
    <3>1. runs[r].champion \in Profiles
      BY <2>1 DEF Run
    <3>2. published' \in [profile : Profiles, evidence : BOOLEAN]
      BY <2>3, <3>1, PublishedType DEF Refresh
    <3>3. QED
      BY <1>3, <2>3, <3>2 DEF Resume, Refresh, TypeOK
  <2>4. QED
    BY <1>3, <2>2, <2>3 DEF Resume
<1>4. CASE Publish
  <2>1. published' \in [profile : Profiles, evidence : BOOLEAN]
    BY <1>4, PublishedType DEF Publish, Position
  <2>2. QED
    BY <1>4, <2>1 DEF Publish, TypeOK
<1>5. CASE CreatePopulation
  <2>1. me.run \in Runs /\ me.generation \in Gens /\ me.champion \in Profiles
    BY <1>5, RowShape, MeShape DEF CreatePopulation, Position
  <2>2. population' \in [Runs -> [Gens -> Population \cup {None}]]
    BY <1>5, <2>1, PopulateType DEF CreatePopulation
  <2>3. QED
    BY <1>5, <2>2 DEF CreatePopulation, TypeOK
<1>6. CASE NoFinalist \/ NeedsResume \/ Complete
  <2>1. me.run \in Opened /\ me.generation \in Gens /\ me.champion \in Profiles
    BY <1>6, MeShape DEF NoFinalist, Loaded, NeedsResume, Played, Complete, Position
  <2>2. runs' \in [Runs -> Run \cup {None}]
    BY <1>6, <2>1, SetType DEF NoFinalist, NeedsResume, Complete, Statuses
  <2>3. QED
    BY <1>6, <2>2 DEF NoFinalist, NeedsResume, Complete, TypeOK
<1>7. CASE Schedule
  <2>1. me.run \in Runs /\ me.generation \in Gens /\ me.champion \in Profiles
    BY <1>7, RowShape, MeShape DEF Schedule, Loaded, Position
  <2>2. population[me.run][me.generation] \in Population
    BY <1>7, <2>1 DEF Schedule, Loaded, TypeOK
  <2>3. Unplayed(me.run, me.generation, 1 .. BasePairs) \subseteq Pairs
    BY Bounds DEF Unplayed
  <2>4. me' \in Local
    <3> DEFINE x == population[me.run][me.generation].challenger
               S == Unplayed(me.run, me.generation, 1 .. BasePairs)
    <3>1. x \in Profiles \cup {None} /\ S \in SUBSET Pairs /\ 0 \in 0 .. ReplacementPairs
      BY <2>2, <2>3, Bounds DEF Population
    <3>2. me' = [me EXCEPT !.candidate = x, !.opponent = me.champion, !.index = 0, !.todo = S]
      BY <1>7 DEF Schedule
    <3> HIDE DEF x, S
    <3>3. QED
      BY <2>1, <3>1, <3>2 DEF TypeOK, Local
  <2>5. QED
    BY <1>7, <2>4 DEF Schedule, TypeOK, tables
<1>8. ASSUME NEW k \in Pairs, SaveGame(k)
      PROVE  TypeOK'
  BY <1>8, SavedRows DEF SaveGame, Saved, TypeOK
<1>9. CASE Replace
  <2>1. me.index \in 0 .. ReplacementPairs /\ me.index < ReplacementPairs
    BY <1>9, MeShape DEF Replace, Wants
  <2>2. Unplayed(me.run, me.generation, {BasePairs + me.index + 1}) \subseteq Pairs
    BY <2>1, Bounds DEF Unplayed
  <2>3. me.index + 1 \in 0 .. ReplacementPairs
    BY <2>1, Bounds
  <2>4. me' \in Local
    BY <1>9, <2>2, <2>3 DEF Replace, TypeOK, Local
  <2>5. QED
    BY <1>9, <2>4 DEF Replace, TypeOK, tables
<1>10. CASE SaveMatch
  <2>1. me.run \in Runs /\ me.generation \in Gens /\ me.candidate \in Profiles
        /\ me.opponent \in Profiles
    BY <1>10, RowShape, MeShape DEF SaveMatch, Played, Position, InMatch, Paired, Run
  <2>2. Verdict(me.run, me.generation, me.candidate) \in BOOLEAN
    BY DEF Verdict, Promotes
  <2>3. [candidate |-> me.candidate, opponent |-> me.opponent,
         promoted |-> Verdict(me.run, me.generation, me.candidate)] \in Match
    BY <2>1, <2>2 DEF Match
  <2>4. matches' = [matches EXCEPT ![me.run][me.generation] =
          [candidate |-> me.candidate, opponent |-> me.opponent,
           promoted |-> Verdict(me.run, me.generation, me.candidate)]]
    BY <1>10 DEF SaveMatch
  <2>5. matches' \in [Runs -> [Gens -> Match \cup {None}]]
    BY <2>1, <2>3, <2>4 DEF TypeOK
  <2>6. QED
    BY <1>10, <2>5 DEF SaveMatch, TypeOK
<1>11. CASE Crown
  <2>1. me.candidate \in Profiles
    BY <1>11 DEF Crown, Position, InMatch, Paired
  <2>2. me' \in Local
    BY <1>11, <2>1 DEF Crown, TypeOK, Local
  <2>3. QED
    BY <1>11, <2>1, <2>2 DEF Crown, TypeOK
<1>12. CASE RecordLineage
  <2>1. me.run \in Runs /\ me.generation \in Gens /\ me.champion \in Profiles
        /\ me.opponent \in Profiles
    BY <1>12, RowShape, MeShape DEF RecordLineage, Position, InMatch, Run
  <2>2. [run |-> me.run, generation |-> me.generation, previous |-> me.opponent,
         champion |-> me.champion] \in Lineage
    BY <2>1 DEF Lineage
  <2>3. QED
    BY <1>12, <2>2 DEF RecordLineage, TypeOK
<1>13. CASE Breed
  <2>1. me.run \in Runs /\ me.generation + 1 \in Gens /\ me.champion \in Profiles
    BY <1>13, RowShape, MeShape, Bounds DEF Breed, Position, Gens
  <2>2. population' \in [Runs -> [Gens -> Population \cup {None}]]
    BY <1>13, <2>1, PopulateType DEF Breed
  <2>3. QED
    BY <1>13, <2>2 DEF Breed, TypeOK
<1>14. CASE Advance
  <2>1. me.run \in Opened /\ me.run \in Runs /\ me.generation + 1 \in Gens
        /\ me.champion \in Profiles
    BY <1>14, RowShape, MeShape, Bounds DEF Advance, Position, Gens
  <2>2. runs' \in [Runs -> Run \cup {None}]
    BY <1>14, <2>1, SetType DEF Advance, Statuses
  <2>3. me' \in Local
    BY <1>14, <2>1, NobodyIsLocal DEF Advance, Local
  <2>4. QED
    BY <1>14, <2>2, <2>3 DEF Advance, TypeOK
<1>15. CASE Finish
  <2>1. published' \in [profile : Profiles, evidence : BOOLEAN]
    BY <1>15, PublishedType DEF Finish, Position
  <2>2. QED
    BY <1>15, <2>1, NobodyIsLocal DEF Finish, TypeOK
<1>16. CASE Crash
  BY <1>16, NobodyIsLocal, LeagueAssumption DEF Crash, TypeOK, tables
<1>17. CASE Upgrade
  BY <1>17, LeagueAssumption DEF Upgrade, TypeOK, tables
<1>18. CASE UNCHANGED vars
  BY <1>18 DEF vars, TypeOK
<1>19. QED
  BY <1>1, <1>2, <1>3, <1>4, <1>5, <1>6, <1>7, <1>8, <1>9, <1>10, <1>11, <1>12, <1>13,
     <1>14, <1>15, <1>16, <1>17, <1>18 DEF Next, Launch, Work

-----------------------------------------------------------------------------
(* What depends on the games of one generation changes only with them. *)
LEMMA SameGames ==
  ASSUME NEW r, NEW g, games'[r][g] = games[r][g]
  PROVE  /\ Settled(r, g)' <=> Settled(r, g)
         /\ \A c : Verdict(r, g, c)' = Verdict(r, g, c)
<1>1. CompletedPairs(r, g)' = CompletedPairs(r, g)
  BY DEF CompletedPairs
<1>2. Counted(r, g)' = Counted(r, g)
  BY <1>1 DEF Counted
<1>3. WorkerFailures(r, g)' = WorkerFailures(r, g) /\ Done(r, g)' = Done(r, g)
      /\ CandidateFailures(r, g)' = CandidateFailures(r, g)
  BY DEF WorkerFailures, Done, CandidateFailures
<1>4. \A x : Tally(r, g, x)' = Tally(r, g, x)
  BY <1>2 DEF Tally
<1>5. Settled(r, g)' <=> Settled(r, g)
  BY <1>2, <1>3 DEF Settled
<1>6. \A c : Verdict(r, g, c)' = Verdict(r, g, c)
  BY <1>3, <1>4 DEF Verdict
<1>7. QED
  BY <1>5, <1>6

LEMMA AgreesFields ==
  ASSUME TypeOK, Decisions, NEW r \in Runs, NEW g \in Gens, matches[r][g] # None
  PROVE  /\ matches[r][g] \in Match /\ population[r][g] \in Population
         /\ population[r][g] # None /\ Settled(r, g)
         /\ matches[r][g].candidate = population[r][g].challenger
         /\ matches[r][g].opponent = population[r][g].champion
         /\ matches[r][g].promoted = Verdict(r, g, population[r][g].challenger)
<1>1. PICK c \in Profiles :
        /\ population[r][g] # None /\ population[r][g].challenger = c
        /\ Settled(r, g)
        /\ matches[r][g] = [candidate |-> c, opponent |-> population[r][g].champion,
                            promoted |-> Verdict(r, g, c)]
  BY DEF Decisions, Agrees
<1>2. matches[r][g] \in Match /\ population[r][g] \in Population
  BY <1>1 DEF TypeOK
<1>3. QED
  BY <1>1, <1>2

LEMMA LineageFields ==
  ASSUME TypeOK, Lineages, NEW x \in lineage
  PROVE  /\ x.run \in Runs /\ x.generation \in Gens
         /\ matches[x.run][x.generation] # None
         /\ matches[x.run][x.generation].candidate = x.champion
         /\ matches[x.run][x.generation].opponent = x.previous
         /\ matches[x.run][x.generation].promoted = TRUE
<1>1. x.run \in Runs /\ x.generation \in Gens /\ x.champion \in Profiles
      /\ x.previous \in Profiles
  BY DEF TypeOK, Lineage
<1>2. [candidate |-> x.champion, opponent |-> x.previous, promoted |-> TRUE] \in Match
  BY <1>1 DEF Match
<1>3. QED
  BY <1>1, <1>2, MarkAssumption DEF Lineages

LEMMA DecisionsStay ==
  ASSUME TypeOK, Decisions,
         \A r \in Runs, g \in Gens : matches[r][g] # None =>
            population'[r][g] = population[r][g] /\ games'[r][g] = games[r][g],
         \A r \in Runs, g \in Gens : matches'[r][g] = matches[r][g]
  PROVE  Decisions'
<1> SUFFICES ASSUME NEW r \in Runs, NEW g \in Gens, matches'[r][g] # None
             PROVE  Agrees(r, g)'
  BY DEF Decisions
<1>1. matches[r][g] # None /\ population'[r][g] = population[r][g]
      /\ games'[r][g] = games[r][g] /\ matches'[r][g] = matches[r][g]
  OBVIOUS
<1>2. Agrees(r, g)
  BY <1>1 DEF Decisions
<1>3. Settled(r, g)' <=> Settled(r, g)
  BY <1>1, SameGames
<1>4. \A c : Verdict(r, g, c)' = Verdict(r, g, c)
  BY <1>1, SameGames
<1>5. QED
  BY <1>1, <1>2, <1>3, <1>4 DEF Agrees

LEMMA TablesStay ==
  ASSUME TypeOK, Tables, UNCHANGED <<runs, population, games, matches, lineage>>
  PROVE  Tables'
<1>1. Decisions'
  BY DecisionsStay DEF Tables
<1>2. Contiguous' /\ Ahead' /\ Lineages' /\ Bred' /\ Followed'
  BY DEF Tables, Contiguous, Opened, Ahead, Lineages, Bred, Unfinished, Followed, Following
<1>3. QED
  BY <1>1, <1>2 DEF Tables

\* Between runs, the tables and nothing else matter.
LEMMA Waiting ==
  ASSUME IInv, TypeOK', UNCHANGED <<runs, population, games, matches, lineage>>,
         pc' = "idle"
  PROVE  IInv'
  BY TablesStay DEF IInv, Position, Playing, InRun, InMatch, Decider

LEMMA OnStart ==
  ASSUME IInv, TypeOK', StartRun
  PROVE  IInv'
<1>1. PICK c \in FirstChampion : me' = [Nobody EXCEPT !.champion = c]
  BY DEF StartRun
<1>2. c \in Profiles
  BY <1>1, LeagueAssumption DEF FirstChampion, IInv, TypeOK
<1>3. me'.champion = c /\ me'.generation = 1
  BY <1>1, NobodyIsLocal DEF Nobody
<1>4. /\ UNCHANGED <<runs, population, games, matches, lineage>> /\ pc' = "create"
      /\ Cardinality(Opened) < MaxRuns /\ Opened' = Opened
  BY DEF StartRun, Opened
<1>5. Position' /\ Playing'
  BY <1>2, <1>3, <1>4 DEF Position, Playing, InRun, InMatch, Decider
<1>6. QED
  BY <1>4, <1>5, TablesStay DEF IInv

LEMMA OnCreateRun ==
  ASSUME IInv, TypeOK', CreateRun
  PROVE  IInv'
<1> USE DEF IInv, Tables
<1>1. PICK r \in Runs \ Opened :
         /\ runs' = [runs EXCEPT ![r] = [status |-> "running", champion |-> me.champion,
                                         generation |-> 1, version |-> version]]
         /\ Opened' = Opened \cup {r} /\ me' = [me EXCEPT !.run = r]
         /\ me.champion \in Profiles /\ Contiguous'
  BY NewRow
<1>2. /\ UNCHANGED <<population, games, matches, lineage>> /\ pc = "create" /\ pc' = "publish"
      /\ me.generation = 1
  BY DEF CreateRun, Position
<1>3. /\ runs'[r].generation = 1 /\ runs'[r].champion = me.champion /\ runs'[r].status = "running"
      /\ runs'[r] # None /\ \A q \in Opened : runs'[q] = runs[q]
  BY <1>1 DEF TypeOK, Opened
<1>4. me'.run = r /\ me'.generation = 1 /\ me'.champion = me.champion
  BY <1>1, <1>2 DEF TypeOK, Local
<1>5. Position' /\ Playing'
  BY <1>1, <1>2, <1>3, <1>4 DEF Position, Playing, InRun, InMatch, Decider, Unfinished
<1>6. Decisions'
  BY <1>2, DecisionsStay
<1>7. Ahead'
  BY <1>1, <1>2, <1>3 DEF Ahead
<1>8. Lineages'
  BY <1>2 DEF Lineages
<1>9. Bred'
  BY <1>1, <1>2, <1>3, Bounds DEF Bred, Unfinished, Ahead, Opened
<1>10. Followed'
  BY <1>1, <1>2, <1>3 DEF Followed, Following, Gens
<1>11. QED
  BY <1>1, <1>5, <1>6, <1>7, <1>8, <1>9, <1>10

LEMMA OnResume ==
  ASSUME IInv, TypeOK', NEW r \in Runs, Resume(r)
  PROVE  IInv'
<1>1. /\ UNCHANGED <<runs, population, games, matches, lineage>> /\ Tables'
      /\ pc = "idle" /\ r \in Opened /\ Opened' = Opened
  BY TablesStay DEF Resume, IInv, Opened
<1>2. CASE ResumeAt(r)
  <2>1. me'.run = r /\ me'.generation = runs[r].generation /\ me'.champion = runs[r].champion
    BY <1>2, NobodyIsLocal DEF ResumeAt, Local
  <2>2. runs[r].champion \in Profiles /\ Unfinished(r) /\ pc' = "publish"
    BY <1>1, <1>2, RowShape DEF ResumeAt, IInv, Run
  <2>3. Position' /\ Playing'
    BY <1>1, <2>1, <2>2 DEF Position, Playing, InRun, InMatch, Decider, Unfinished
  <2>4. QED
    BY <1>1, <2>3 DEF IInv
<1>3. CASE Refresh(r)
  BY <1>1, <1>3, Waiting DEF Refresh
<1>4. QED
  BY <1>2, <1>3 DEF Resume

LEMMA OnPublish ==
  ASSUME IInv, TypeOK', Publish
  PROVE  IInv'
<1>1. /\ UNCHANGED <<runs, population, games, matches, lineage, me>> /\ Tables'
      /\ pc = "publish" /\ pc' = "generation"
  BY TablesStay DEF Publish, IInv
<1>2. Position' /\ Playing'
  BY <1>1 DEF IInv, Position, Playing, InRun, InMatch, Decider, Unfinished, Opened
<1>3. QED
  BY <1>1, <1>2 DEF IInv

\* Where a process that is in a generation stands.
LEMMA Standing ==
  ASSUME IInv, pc \in InRun
  PROVE  /\ me.run \in Opened /\ me.run \in Runs /\ me.generation \in Gens
         /\ me.champion \in Profiles /\ runs[me.run] \in Run
         /\ runs[me.run].generation = me.generation /\ Unfinished(me.run)
  BY MeShape, RowShape DEF IInv, Position, InRun

LEMMA OnCreatePopulation ==
  ASSUME IInv, TypeOK', CreatePopulation
  PROVE  IInv'
<1> USE DEF IInv, Tables
<1>1. /\ UNCHANGED <<runs, games, matches, lineage, me, pc>> /\ pc = "generation"
      /\ population[me.run][me.generation] = None /\ me.champion = runs[me.run].champion
  BY DEF CreatePopulation, Position
<1>2. /\ me.run \in Opened /\ me.run \in Runs /\ me.generation \in Gens
      /\ me.champion \in Profiles /\ runs[me.run].generation = me.generation
  BY <1>1, Standing DEF InRun
<1>3. /\ population'[me.run][me.generation].champion = me.champion
      /\ population'[me.run][me.generation] # None
      /\ \A q \in Runs, h \in Gens : q # me.run \/ h # me.generation =>
           population'[q][h] = population[q][h]
  BY <1>2, PopulateType DEF CreatePopulation
<1>4. Decisions'
  <2>1. \A r \in Runs, g \in Gens : matches[r][g] # None => population[r][g] # None
    BY DEF Decisions, Agrees
  <2>2. QED
    BY <1>1, <1>2, <1>3, <2>1, DecisionsStay
<1>5. Position' /\ Playing'
  BY <1>1, <1>2 DEF Position, Playing, InRun, InMatch, Decider, Unfinished, Opened
<1>6. Contiguous' /\ Opened' = Opened
  BY <1>1 DEF Contiguous, Opened
<1>7. Ahead'
  BY <1>1, <1>2, <1>3, <1>6 DEF Ahead
<1>8. Lineages'
  BY <1>1 DEF Lineages
<1>9. Bred'
  <2> SUFFICES ASSUME NEW r \in Opened
               PROVE  /\ Unfinished(r) /\ population'[r][runs[r].generation] # None =>
                           population'[r][runs[r].generation].champion = runs[r].champion
                      /\ \A g \in Gens :
                           runs[r].generation > 1 /\ g <= runs[r].generation =>
                             population'[r][g] # None
    BY <1>1, <1>6 DEF Bred, Unfinished
  <2>1. r \in Runs /\ runs[r].generation \in Gens
    BY RowShape DEF Run
  <2>2. QED
    BY <1>1, <1>2, <1>3, <2>1 DEF Bred
<1>10. Followed'
  <2> SUFFICES ASSUME NEW r \in Opened, NEW g \in Gens, g < runs[r].generation
               PROVE  Following(r, g)'
    BY <1>1, <1>6 DEF Followed
  <2>1. r \in Runs /\ runs[r].generation \in Gens /\ g + 1 \in Gens /\ g + 1 <= runs[r].generation
    BY RowShape, Bounds DEF Run, Gens
  <2>2. runs[r].generation > 1
    BY <2>1 DEF Gens
  <2>3. population[r][g] # None /\ population[r][g + 1] # None
    BY <2>1, <2>2 DEF Bred, Gens
  <2>4. population'[r][g] = population[r][g] /\ population'[r][g + 1] = population[r][g + 1]
    BY <1>1, <1>3, <2>1, <2>3
  <2>5. QED
    BY <1>1, <2>4 DEF Followed, Following
<1>11. QED
  BY <1>4, <1>5, <1>6, <1>7, <1>8, <1>9, <1>10

LEMMA OnStop ==
  ASSUME IInv, TypeOK', NoFinalist \/ NeedsResume \/ Complete
  PROVE  IInv'
<1> USE DEF IInv, Tables
<1>0. TypeOK /\ "complete" \in Statuses /\ "needs-resume" \in Statuses
  BY DEF Statuses
<1>1. /\ UNCHANGED <<population, games, matches, lineage, me>>
      /\ pc \in {"generation", "play", "breed"} /\ pc' = "finish"
      /\ \/ Set(me.run, "complete", me.generation, me.champion)
         \/ /\ Set(me.run, "needs-resume", me.generation, me.champion)
            /\ me.champion = runs[me.run].champion
  BY DEF NoFinalist, Loaded, NeedsResume, Played, Complete, Position
<1>2. /\ me.run \in Opened /\ me.run \in Runs /\ me.generation \in Gens
      /\ me.champion \in Profiles /\ runs[me.run].generation = me.generation
      /\ Unfinished(me.run)
  BY <1>1, Standing DEF InRun
<1>3. /\ Opened' = Opened /\ runs'[me.run].generation = me.generation
      /\ \A q \in Runs \ {me.run} : runs'[q] = runs[q]
      /\ \/ runs'[me.run].status = "complete"
         \/ runs'[me.run].champion = runs[me.run].champion
  <2>1. CASE Set(me.run, "complete", me.generation, me.champion)
    BY <1>2, <2>1, <1>0, SetType
  <2>2. CASE /\ Set(me.run, "needs-resume", me.generation, me.champion)
             /\ me.champion = runs[me.run].champion
    BY <1>2, <2>2, <1>0, SetType
  <2>3. QED
    BY <1>1, <2>1, <2>2
<1>4. \A q \in Opened : q \in Runs /\ runs'[q].generation = runs[q].generation
  BY <1>2, <1>3 DEF Opened
<1>5. Decisions'
  BY <1>1, DecisionsStay
<1>6. Position' /\ Playing'
  BY <1>1, <1>2, <1>3 DEF Position, Playing, InRun, InMatch, Decider
<1>7. Contiguous' /\ Ahead' /\ Lineages' /\ Followed'
  BY <1>1, <1>3, <1>4 DEF Contiguous, Ahead, Lineages, Followed, Following
<1>8. Bred'
  BY <1>1, <1>2, <1>3, <1>4 DEF Bred, Unfinished
<1>9. QED
  BY <1>5, <1>6, <1>7, <1>8

LEMMA OnSchedule ==
  ASSUME IInv, TypeOK', Schedule
  PROVE  IInv'
<1>1. /\ UNCHANGED <<runs, population, games, matches, lineage>>
      /\ pc = "generation" /\ pc' = "play" /\ population[me.run][me.generation] # None
      /\ population[me.run][me.generation].champion = me.champion
      /\ population[me.run][me.generation].challenger # None
      /\ me.champion = runs[me.run].champion
  BY DEF Schedule, Loaded, tables, IInv, Position
<1>2. /\ me.run \in Opened /\ me.run \in Runs /\ me.generation \in Gens
      /\ me.champion \in Profiles /\ runs[me.run].generation = me.generation
      /\ Unfinished(me.run)
  BY <1>1, Standing DEF InRun
<1> DEFINE x == population[me.run][me.generation].challenger
           S == Unplayed(me.run, me.generation, 1 .. BasePairs)
<1>3. me' = [me EXCEPT !.candidate = x, !.opponent = me.champion, !.index = 0, !.todo = S]
  BY DEF Schedule
<1>4. population[me.run][me.generation] \in Population /\ x \in Profiles
  BY <1>1, <1>2 DEF IInv, TypeOK, Population
<1>5. population[me.run][me.generation] = [champion |-> me.champion, challenger |-> x]
  BY <1>1, <1>4 DEF Population
<1>6. /\ S \subseteq 1 .. BasePairs
      /\ \A k \in S : games[me.run][me.generation][k] \in {"missing", "half", "failed"}
      /\ \A k \in 1 .. BasePairs :
           k \in S \/ games[me.run][me.generation][k] \notin {"missing", "half"}
  BY DEF Unplayed
<1>7. matches[me.run][me.generation] # None => S = {}
  <2>1. ASSUME matches[me.run][me.generation] # None
        PROVE  1 .. BasePairs \subseteq Done(me.run, me.generation)
    BY <1>2, <2>1 DEF IInv, Tables, Decisions, Agrees, Settled
  <2>2. QED
    BY <1>6, <2>1 DEF Done
<1> HIDE DEF x, S
<1>8. /\ me'.run = me.run /\ me'.generation = me.generation /\ me'.champion = me.champion
      /\ me'.candidate = x /\ me'.opponent = me.champion /\ me'.index = 0 /\ me'.todo = S
  BY <1>3 DEF IInv, TypeOK, Local
<1>9. Position'
  BY <1>1, <1>2, <1>4, <1>5, <1>8
     DEF Position, InRun, InMatch, Decider, Paired, Unfinished, Opened
<1>10. Playing'
  <2>1. 1 .. BasePairs + me'.index = 1 .. BasePairs /\ me'.todo = S
    BY <1>8, Bounds
  <2>2. me'.todo \subseteq 1 .. BasePairs + me'.index
    BY <1>6, <2>1
  <2>3. \A k \in 1 .. BasePairs + me'.index :
          k \in me'.todo \/ games[me.run][me.generation][k] \notin {"missing", "half"}
    BY <1>6, <2>1
  <2>4. QED
    BY <1>1, <1>6, <1>7, <1>8, <2>2, <2>3 DEF Playing
<1>11. QED
  BY <1>1, <1>9, <1>10, TablesStay DEF IInv

LEMMA OnSaveGame ==
  ASSUME IInv, TypeOK', NEW k \in Pairs, SaveGame(k)
  PROVE  IInv'
<1> USE DEF IInv, Tables
<1>1. /\ UNCHANGED <<runs, population, matches, lineage, pc>> /\ pc = "play" /\ k \in me.todo
  BY DEF SaveGame, Saved
<1>2. /\ me.run \in Opened /\ me.run \in Runs /\ me.generation \in Gens
  BY <1>1, Standing DEF InRun
<1>3. PICK x \in Results \cup {"half", "failed"} :
         /\ games' = [games EXCEPT ![me.run][me.generation][k] = x]
         /\ x \in Rows
         /\ me' = [me EXCEPT !.todo = IF x = "half" THEN @ ELSE @ \ {k}]
  BY SavedRows
<1>4. /\ me'.run = me.run /\ me'.generation = me.generation /\ me'.champion = me.champion
      /\ me'.candidate = me.candidate /\ me'.opponent = me.opponent /\ me'.index = me.index
      /\ me'.todo = IF x = "half" THEN me.todo ELSE me.todo \ {k}
  BY <1>3 DEF TypeOK, Local
<1>5. /\ games'[me.run][me.generation][k] = x
      /\ \A j \in Pairs \ {k} :
           games'[me.run][me.generation][j] = games[me.run][me.generation][j]
      /\ \A r \in Runs, g \in Gens : r # me.run \/ g # me.generation =>
           games'[r][g] = games[r][g]
  BY <1>2, <1>3 DEF TypeOK
<1>6. matches[me.run][me.generation] = None
  BY <1>1 DEF Playing
<1>7. Decisions'
  BY <1>1, <1>5, <1>6, DecisionsStay
<1>8. Position'
  BY <1>1, <1>4 DEF Position, InRun, InMatch, Decider, Paired, Unfinished, Opened
<1>9. Playing'
  <2>1. x # "missing" /\ (x = "half" \/ k \notin me'.todo) /\ me'.todo \subseteq me.todo
    BY <1>3, <1>4, LeagueAssumption
  <2>2. me.todo \subseteq Pairs /\ 1 .. BasePairs + me.index \subseteq Pairs
    BY MeShape, Bounds
  <2>3. \A j \in me'.todo : games'[me.run][me.generation][j] \in {"missing", "half", "failed"}
    BY <1>1, <1>5, <2>1, <2>2 DEF Playing
  <2>4. \A j \in 1 .. BasePairs + me.index :
          j \in me'.todo \/ games'[me.run][me.generation][j] \notin {"missing", "half"}
    <3> SUFFICES ASSUME NEW j \in 1 .. BasePairs + me.index, j \notin me'.todo
                 PROVE  games'[me.run][me.generation][j] \notin {"missing", "half"}
      OBVIOUS
    <3>1. CASE j = k
      BY <1>1, <1>4, <1>5, <2>1, <3>1
    <3>2. CASE j # k
      BY <1>1, <1>4, <1>5, <2>2, <3>2 DEF Playing
    <3>3. QED
      BY <3>1, <3>2
  <2>5. me'.todo \subseteq 1 .. BasePairs + me.index
    BY <1>1, <2>1 DEF Playing
  <2>6. QED
    BY <1>1, <1>4, <1>6, <2>3, <2>4, <2>5 DEF Playing
<1>10. Contiguous' /\ Ahead' /\ Lineages' /\ Bred' /\ Followed'
  BY <1>1 DEF Contiguous, Opened, Ahead, Lineages, Bred, Unfinished, Followed, Following
<1>11. QED
  BY <1>7, <1>8, <1>9, <1>10

LEMMA OnReplace ==
  ASSUME IInv, TypeOK', Replace
  PROVE  IInv'
<1> USE DEF IInv
<1>1. /\ UNCHANGED <<runs, population, games, matches, lineage, pc>> /\ pc = "play"
      /\ me.todo = {} /\ me.index < ReplacementPairs
      /\ Cardinality(Counted(me.run, me.generation)) < TargetPairs
  BY DEF Replace, Wants, tables
<1>2. /\ me.run \in Opened /\ me.run \in Runs /\ me.generation \in Gens
      /\ me.index \in 0 .. ReplacementPairs
  BY <1>1, Standing, MeShape DEF InRun
<1> DEFINE S == Unplayed(me.run, me.generation, {BasePairs + me.index + 1})
<1>3. me' = [me EXCEPT !.index = @ + 1, !.todo = S]
  BY DEF Replace
<1>4. /\ S \subseteq {BasePairs + me.index + 1}
      /\ \A k \in S : games[me.run][me.generation][k] \in {"missing", "half", "failed"}
      /\ BasePairs + me.index + 1 \in S
           \/ games[me.run][me.generation][BasePairs + me.index + 1] \notin {"missing", "half"}
  BY DEF Unplayed
<1>5. matches[me.run][me.generation] # None => S = {}
  <2>1. ASSUME matches[me.run][me.generation] # None
        PROVE  Pairs \subseteq Done(me.run, me.generation)
    BY <1>1, <1>2, <2>1 DEF Tables, Decisions, Agrees, Settled
  <2>2. BasePairs + me.index + 1 \in Pairs
    BY <1>1, <1>2, Bounds
  <2>3. QED
    BY <1>4, <2>1, <2>2 DEF Done
<1> HIDE DEF S
<1>6. /\ me'.run = me.run /\ me'.generation = me.generation /\ me'.champion = me.champion
      /\ me'.candidate = me.candidate /\ me'.opponent = me.opponent
      /\ me'.index = me.index + 1 /\ me'.todo = S
  BY <1>3 DEF TypeOK, Local
<1>7. Position'
  BY <1>1, <1>6 DEF Position, InRun, InMatch, Decider, Paired, Unfinished, Opened
<1>8. Playing'
  <2>1. \A k \in 1 .. BasePairs + me.index :
          games[me.run][me.generation][k] \notin {"missing", "half"}
    BY <1>1 DEF Playing
  <2>2. \A k \in 1 .. BasePairs + (me.index + 1) :
          k \in 1 .. BasePairs + me.index \/ k = BasePairs + me.index + 1
    BY <1>2, Bounds
  <2>3. \A k \in 1 .. BasePairs + (me.index + 1) :
          k \in S \/ games[me.run][me.generation][k] \notin {"missing", "half"}
    BY <1>4, <2>1, <2>2
  <2>4. S \subseteq 1 .. BasePairs + (me.index + 1)
    BY <1>2, <1>4, Bounds
  <2>5. QED
    BY <1>1, <1>4, <1>5, <1>6, <2>3, <2>4 DEF Playing
<1>9. QED
  BY <1>1, <1>7, <1>8, TablesStay

LEMMA OnSaveMatch ==
  ASSUME IInv, TypeOK', SaveMatch
  PROVE  IInv' /\ \A r \in Runs, g \in Gens :
                    matches[r][g] # None => matches'[r][g] = matches[r][g]
<1> USE DEF IInv, Tables
<1> DEFINE verdict == Verdict(me.run, me.generation, me.candidate)
           match == [candidate |-> me.candidate, opponent |-> me.opponent, promoted |-> verdict]
<1>1. /\ UNCHANGED <<runs, population, games, lineage, me>> /\ pc = "play"
      /\ me.todo = {} /\ ~ Wants(me.run, me.generation)
      /\ WorkerFailures(me.run, me.generation) = {}
      /\ matches' = [matches EXCEPT ![me.run][me.generation] = match]
      /\ pc' = IF verdict THEN "crown" ELSE "breed"
  BY DEF SaveMatch, Played
<1>2. /\ me.run \in Opened /\ me.run \in Runs /\ me.generation \in Gens
      /\ me.champion \in Profiles /\ runs[me.run].generation = me.generation
      /\ me.index \in 0 .. ReplacementPairs
  BY <1>1, Standing, MeShape DEF InRun
<1>3. /\ population[me.run][me.generation] =
           [champion |-> me.opponent, challenger |-> me.candidate]
      /\ me.candidate \in Profiles /\ me.opponent = runs[me.run].champion
      /\ me.champion = runs[me.run].champion /\ me.opponent \in Profiles
  BY <1>1, <1>2 DEF Position, InMatch, Paired
<1>4. match \in Match /\ match # None /\ match.promoted = verdict
  <2>1. verdict \in BOOLEAN
    BY DEF Verdict, Promotes
  <2> HIDE DEF verdict
  <2>2. QED
    BY <1>3, <2>1, MarkAssumption DEF Match
<1>5. Settled(me.run, me.generation)
  <2>1. \A k \in 1 .. BasePairs + me.index :
          games[me.run][me.generation][k] \notin {"missing", "half"}
    BY <1>1 DEF Playing
  <2>2. \A k \in Pairs : games[me.run][me.generation][k] # "failed"
    BY <1>1 DEF WorkerFailures
  <2>3. 1 .. BasePairs + me.index \subseteq Done(me.run, me.generation)
    BY <1>2, <2>1, <2>2, Bounds DEF Done
  <2>4. 1 .. BasePairs \subseteq Done(me.run, me.generation)
    BY <1>2, <2>3, Bounds
  <2>5. ASSUME Cardinality(Counted(me.run, me.generation)) < TargetPairs
        PROVE  Pairs \subseteq Done(me.run, me.generation)
    BY <1>1, <1>2, <2>3, <2>5, Bounds DEF Wants, Pairs
  <2>6. QED
    BY <1>1, <2>4, <2>5 DEF Settled
<1>6. matches[me.run][me.generation] # None => matches[me.run][me.generation] = match
  <2>1. ASSUME matches[me.run][me.generation] # None
        PROVE  /\ matches[me.run][me.generation] \in Match
               /\ matches[me.run][me.generation].candidate = me.candidate
               /\ matches[me.run][me.generation].opponent = me.opponent
               /\ matches[me.run][me.generation].promoted = verdict
    BY <1>2, <1>3, <2>1, AgreesFields
  <2> HIDE DEF verdict
  <2>2. QED
    BY <2>1 DEF Match
<1> HIDE DEF match
<1>7. /\ matches'[me.run][me.generation] = match
      /\ \A r \in Runs, g \in Gens : r # me.run \/ g # me.generation =>
           matches'[r][g] = matches[r][g]
  BY <1>1, <1>2 DEF TypeOK
<1>8. \A r \in Runs, g \in Gens : matches[r][g] # None => matches'[r][g] = matches[r][g]
  BY <1>6, <1>7
<1>9. Decisions'
  <2> SUFFICES ASSUME NEW r \in Runs, NEW g \in Gens, matches'[r][g] # None
               PROVE  Agrees(r, g)'
    BY DEF Decisions
  <2>1. /\ Settled(r, g)' <=> Settled(r, g)
        /\ \A c : Verdict(r, g, c)' = Verdict(r, g, c)
    BY <1>1, SameGames
  <2>2. CASE r = me.run /\ g = me.generation
    <3>1. population'[r][g].challenger = me.candidate /\ population'[r][g].champion = me.opponent
          /\ population'[r][g] # None
      BY <1>1, <1>2, <1>3, <2>2, MarkAssumption DEF TypeOK, Population
    <3>2. matches'[r][g] = [candidate |-> me.candidate, opponent |-> me.opponent,
                            promoted |-> Verdict(r, g, me.candidate)]
      BY <1>7, <2>2 DEF match
    <3>3. QED
      BY <1>3, <1>5, <2>1, <2>2, <3>1, <3>2 DEF Agrees
  <2>3. CASE r # me.run \/ g # me.generation
    <3>1. Agrees(r, g) /\ matches'[r][g] = matches[r][g] /\ population'[r][g] = population[r][g]
      BY <1>1, <1>7, <2>3 DEF Decisions
    <3>2. QED
      BY <2>1, <3>1 DEF Agrees
  <2>4. QED
    BY <2>2, <2>3
<1>10. Position'
  BY <1>1, <1>2, <1>3, <1>4, <1>7
     DEF Position, InRun, InMatch, Decider, Paired, Unfinished, Opened
<1>11. Playing'
  BY <1>1 DEF Playing
<1>12. Ahead'
  <2>1. \A g \in Gens : g > me.generation => g # me.generation
    BY <1>2 DEF Gens
  <2>2. QED
    BY <1>1, <1>2, <1>7, <2>1 DEF Ahead, Opened
<1>13. Lineages'
  <2>1. \A x \in lineage : /\ x.run \in Runs /\ x.generation \in Gens
                           /\ matches[x.run][x.generation] # None
    BY LineageFields
  <2>2. QED
    BY <1>1, <1>8, <2>1 DEF Lineages
<1>14. Contiguous' /\ Bred' /\ Followed'
  BY <1>1 DEF Contiguous, Opened, Bred, Unfinished, Followed, Following
<1>15. QED
  BY <1>8, <1>9, <1>10, <1>11, <1>12, <1>13, <1>14

LEMMA OnCrown ==
  ASSUME IInv, TypeOK', Crown
  PROVE  IInv'
<1>1. /\ UNCHANGED <<runs, population, games, matches, lineage>> /\ Tables'
      /\ pc = "crown" /\ pc' = "lineage" /\ me' = [me EXCEPT !.champion = me.candidate]
  BY TablesStay DEF Crown, IInv
<1>2. /\ me'.run = me.run /\ me'.generation = me.generation /\ me'.champion = me.candidate
      /\ me'.candidate = me.candidate /\ me'.opponent = me.opponent
  BY <1>1 DEF IInv, TypeOK, Local
<1>3. Position' /\ Playing'
  BY <1>1, <1>2
     DEF IInv, Position, Playing, InRun, InMatch, Decider, Paired, Unfinished, Opened
<1>4. QED
  BY <1>1, <1>3 DEF IInv

LEMMA OnRecordLineage ==
  ASSUME IInv, TypeOK', RecordLineage
  PROVE  IInv'
<1> USE DEF IInv, Tables
<1> DEFINE row == [run |-> me.run, generation |-> me.generation, previous |-> me.opponent,
                   champion |-> me.champion]
<1>1. /\ UNCHANGED <<runs, population, games, matches, me>> /\ pc = "lineage" /\ pc' = "breed"
      /\ lineage' = IF \E x \in lineage : x.run = me.run /\ x.generation = me.generation
                    THEN lineage ELSE lineage \cup {row}
  BY DEF RecordLineage
<1>2. /\ me.run \in Opened /\ me.run \in Runs /\ me.generation \in Gens
      /\ runs[me.run].generation = me.generation
  BY <1>1, Standing DEF InRun
<1>3. matches[me.run][me.generation] # None /\ matches[me.run][me.generation].promoted
      /\ me.champion = me.candidate
      /\ population[me.run][me.generation] =
           [champion |-> me.opponent, challenger |-> me.candidate]
  BY <1>1 DEF Position, InMatch, Decider, Paired
<1>4. matches[me.run][me.generation] =
        [candidate |-> me.champion, opponent |-> me.opponent, promoted |-> TRUE]
  <2>1. matches[me.run][me.generation] \in Match
    BY <1>2, <1>3 DEF TypeOK
  <2>2. /\ matches[me.run][me.generation].candidate = me.candidate
        /\ matches[me.run][me.generation].opponent = me.opponent
    BY <1>2, <1>3, AgreesFields
  <2>3. matches[me.run][me.generation].promoted = TRUE
    BY <1>3, <2>1 DEF Match
  <2>4. QED
    BY <1>3, <2>1, <2>2, <2>3 DEF Match
<1>5. /\ row.run = me.run /\ row.generation = me.generation /\ row.previous = me.opponent
      /\ row.champion = me.champion
  OBVIOUS
<1> HIDE DEF row
<1>6. /\ \A x \in lineage' : x \in lineage \/ x = row
      /\ \A x \in lineage : x \in lineage'
      /\ \E x \in lineage' : x.run = me.run /\ x.generation = me.generation
  <2>1. CASE \E x \in lineage : x.run = me.run /\ x.generation = me.generation
    BY <1>1, <2>1
  <2>2. CASE ~ \E x \in lineage : x.run = me.run /\ x.generation = me.generation
    BY <1>1, <1>5, <2>2
  <2>3. QED
    BY <2>1, <2>2
<1>7. Lineages'
  BY <1>1, <1>4, <1>5, <1>6 DEF Lineages
<1>8. Ahead'
  BY <1>1, <1>2, <1>5, <1>6 DEF Ahead, Opened, Gens
<1>9. Followed'
  BY <1>1, <1>2, <1>5, <1>6 DEF Followed, Following, Opened, Gens
<1>10. Decisions' /\ Contiguous' /\ Bred'
  BY <1>1, DecisionsStay DEF Contiguous, Opened, Bred, Unfinished
<1>11. Position' /\ Playing'
  BY <1>1, <1>3, <1>6
     DEF Position, Playing, InRun, InMatch, Decider, Paired, Unfinished, Opened
<1>12. QED
  BY <1>7, <1>8, <1>9, <1>10, <1>11

LEMMA OnBreed ==
  ASSUME IInv, TypeOK', Breed
  PROVE  IInv'
<1> USE DEF IInv, Tables
<1>1. /\ UNCHANGED <<runs, games, matches, lineage, me>> /\ pc = "breed" /\ pc' = "advance"
      /\ me.generation < Generations
      /\ Populate(me.run, me.generation + 1, me.champion)
  BY DEF Breed
<1>2. /\ me.run \in Opened /\ me.run \in Runs /\ me.generation \in Gens
      /\ me.champion \in Profiles /\ runs[me.run].generation = me.generation
  BY <1>1, Standing DEF InRun
<1>3. me.generation + 1 \in Gens
  BY <1>1, <1>2, Bounds DEF Gens
<1>4. /\ population'[me.run][me.generation + 1] # None
      /\ population'[me.run][me.generation + 1].champion = me.champion
      /\ \A q \in Runs, h \in Gens : q # me.run \/ h # me.generation + 1 =>
           population'[q][h] = population[q][h]
  BY <1>1, <1>2, <1>3, PopulateType
<1>5. me.generation # me.generation + 1 /\ me.generation + 1 > me.generation
  BY <1>2 DEF Gens
<1>6. matches[me.run][me.generation + 1] = None
  BY <1>2, <1>3, <1>5 DEF Ahead
<1>7. Decisions'
  BY <1>1, <1>4, <1>6, DecisionsStay
<1>8. Contiguous' /\ Lineages' /\ Opened' = Opened
  BY <1>1 DEF Contiguous, Opened, Lineages
<1>9. Ahead'
  BY <1>1, <1>2, <1>4, <1>8 DEF Ahead
<1>10. Bred'
  <2> SUFFICES ASSUME NEW r \in Opened
               PROVE  /\ Unfinished(r) /\ population'[r][runs[r].generation] # None =>
                           population'[r][runs[r].generation].champion = runs[r].champion
                      /\ \A g \in Gens :
                           runs[r].generation > 1 /\ g <= runs[r].generation =>
                             population'[r][g] # None
    BY <1>1, <1>8 DEF Bred, Unfinished
  <2>1. r \in Runs /\ runs[r].generation \in Gens
    BY RowShape DEF Run
  <2>2. population'[r][runs[r].generation] = population[r][runs[r].generation]
    BY <1>2, <1>4, <1>5, <2>1
  <2>3. \A g \in Gens : population[r][g] # None => population'[r][g] # None
    BY <1>4, <2>1
  <2>4. QED
    BY <2>2, <2>3 DEF Bred
<1>11. Followed'
  <2> SUFFICES ASSUME NEW r \in Opened, NEW g \in Gens, g < runs[r].generation
               PROVE  Following(r, g)'
    BY <1>1, <1>8 DEF Followed
  <2>1. r \in Runs /\ runs[r].generation \in Gens /\ g + 1 \in Gens /\ g + 1 <= runs[r].generation
    BY RowShape, Bounds DEF Run, Gens
  <2>2. r = me.run => g # me.generation + 1 /\ g + 1 # me.generation + 1
    BY <1>2, <2>1 DEF Gens
  <2>3. population'[r][g] = population[r][g] /\ population'[r][g + 1] = population[r][g + 1]
    BY <1>4, <2>1, <2>2
  <2>4. QED
    BY <1>1, <2>3 DEF Followed, Following
<1>12. Position' /\ Playing'
  <2>1. population'[me.run][me.generation] = population[me.run][me.generation]
    BY <1>2, <1>4, <1>5
  <2>2. QED
    BY <1>1, <1>2, <1>4, <1>8, <2>1
       DEF Position, Playing, InRun, InMatch, Decider, Paired, Unfinished
<1>13. QED
  BY <1>7, <1>8, <1>9, <1>10, <1>11, <1>12

LEMMA OnAdvance ==
  ASSUME IInv, TypeOK', Advance
  PROVE  IInv'
<1> USE DEF IInv, Tables
<1>0. TypeOK /\ "running" \in Statuses
  BY DEF Statuses
<1>1. /\ UNCHANGED <<population, games, matches, lineage>> /\ pc = "advance" /\ pc' = "publish"
      /\ Set(me.run, "running", me.generation + 1, me.champion)
      /\ me' = [Nobody EXCEPT !.run = me.run, !.champion = me.champion,
                              !.generation = me.generation + 1]
  BY DEF Advance
<1>2. /\ me.run \in Opened /\ me.run \in Runs /\ me.generation \in Gens
      /\ me.champion \in Profiles /\ runs[me.run].generation = me.generation
  BY <1>1, Standing DEF InRun
<1>3. /\ me.generation < Generations /\ population[me.run][me.generation + 1] # None
      /\ population[me.run][me.generation + 1].champion = me.champion
      /\ population[me.run][me.generation] =
           [champion |-> me.opponent, challenger |-> me.candidate]
      /\ matches[me.run][me.generation] # None
      /\ IF matches[me.run][me.generation].promoted
         THEN /\ me.champion = me.candidate
              /\ \E x \in lineage : x.run = me.run /\ x.generation = me.generation
         ELSE me.champion = me.opponent
  BY <1>1 DEF Position, InMatch, Decider, Paired
<1>4. me.generation + 1 \in Gens /\ me.generation + 1 > me.generation
  BY <1>2, <1>3, Bounds DEF Gens
<1>5. /\ Opened' = Opened /\ runs'[me.run] # None /\ runs'[me.run].generation = me.generation + 1
      /\ runs'[me.run].champion = me.champion /\ runs'[me.run].status = "running"
      /\ \A q \in Runs \ {me.run} : runs'[q] = runs[q]
  BY <1>0, <1>1, <1>2, <1>4, SetType
<1>6. /\ me'.run = me.run /\ me'.generation = me.generation + 1 /\ me'.champion = me.champion
  BY <1>1, NobodyIsLocal DEF Local
<1>7. Decisions'
  BY <1>1, DecisionsStay
<1>8. Position' /\ Playing'
  <2>1. Unfinished(me.run)'
    BY <1>5, <1>6 DEF Unfinished
  <2>2. QED
    BY <1>1, <1>2, <1>5, <1>6, <2>1 DEF Position, Playing, InRun, InMatch, Decider, Unfinished
<1>9. Contiguous' /\ Lineages'
  BY <1>1, <1>5 DEF Contiguous, Lineages
<1>10. Ahead'
  <2>1. \A g \in Gens : g > me.generation + 1 => g > me.generation
    BY <1>2 DEF Gens
  <2>2. \A x \in lineage : x.generation \in Gens
    BY DEF TypeOK, Lineage
  <2>3. \A x \in lineage : x.generation <= me.generation => x.generation <= me.generation + 1
    BY <1>2, <2>2 DEF Gens
  <2>4. QED
    BY <1>1, <1>2, <1>5, <2>1, <2>3 DEF Ahead, Opened
<1>11. Bred'
  <2> SUFFICES ASSUME NEW r \in Opened
               PROVE  /\ Unfinished(r)' /\ population[r][runs'[r].generation] # None =>
                           population[r][runs'[r].generation].champion = runs'[r].champion
                      /\ \A g \in Gens :
                           runs'[r].generation > 1 /\ g <= runs'[r].generation =>
                             population[r][g] # None
    BY <1>1, <1>5 DEF Bred
  <2>1. CASE r # me.run
    BY <1>5, <2>1, RowShape DEF Bred, Unfinished
  <2>2. CASE r = me.run
    <3>1. ASSUME NEW g \in Gens, g <= me.generation + 1
          PROVE  population[r][g] # None
      <4>1. g = me.generation + 1 \/ g = me.generation \/ (g <= me.generation /\ me.generation > 1)
        BY <1>2, <3>1 DEF Gens
      <4>2. population[me.run][me.generation] # None
        BY <1>2, <1>3 DEF Decisions, Agrees
      <4>3. QED
        BY <1>2, <1>3, <2>2, <4>1, <4>2 DEF Bred
    <3>2. QED
      BY <1>3, <1>5, <2>2, <3>1
  <2>3. QED
    BY <2>1, <2>2
<1>12. Followed'
  <2> SUFFICES ASSUME NEW r \in Opened, NEW g \in Gens, g < runs'[r].generation
               PROVE  Following(r, g)
    BY <1>1, <1>5 DEF Followed, Following
  <2>1. CASE r # me.run \/ g < me.generation
    BY <1>2, <1>5, <2>1, RowShape DEF Followed
  <2>2. CASE r = me.run /\ ~ (g < me.generation)
    <3>1. g = me.generation
      BY <1>2, <1>5, <2>2 DEF Gens
    <3>2. \A x \in lineage : x.run = r /\ x.generation = g =>
            matches[r][g].promoted = TRUE /\ x.champion = me.candidate
      <4>1. matches[r][g].candidate = me.candidate
        BY <1>2, <1>3, <2>2, <3>1, AgreesFields
      <4>2. QED
        BY <4>1, LineageFields
    <3>3. CASE matches[r][g].promoted
      BY <1>3, <2>2, <3>1, <3>2, <3>3 DEF Following
    <3>4. CASE ~ matches[r][g].promoted
      <4>1. \A x \in lineage : ~ (x.run = r /\ x.generation = g)
        BY <3>2, <3>4
      <4>2. population[r][g].champion = me.opponent
        BY <1>3, <2>2, <3>1
      <4>3. QED
        BY <1>3, <2>2, <3>1, <3>4, <4>1, <4>2 DEF Following
    <3>5. QED
      BY <3>3, <3>4
  <2>3. QED
    BY <2>1, <2>2
<1>13. QED
  BY <1>7, <1>8, <1>9, <1>10, <1>11, <1>12

-----------------------------------------------------------------------------
(* The verdict of promotion_decision, read off the rows. *)
LEMMA Least ==
  ASSUME NEW T \in SUBSET Nat, T # {}
  PROVE  \E m \in T : \A k \in T : m <= k
<1>1. PICK m \in T : \A k \in T : ~ (<<k, m>> \in OpToRel(<, Nat))
  BY NatLessThanWellFounded, WFMin
<1>2. \A k \in T : (k < m) => <<k, m>> \in OpToRel(<, Nat)
  BY DEF OpToRel
<1>3. \A k \in T : m <= k
  <2> SUFFICES ASSUME NEW k \in T
               PROVE  m <= k
    OBVIOUS
  <2>1. ~ (k < m)
    BY <1>1, <1>2
  <2>2. k \in Nat /\ m \in Nat
    OBVIOUS
  <2>3. QED
    BY <2>1, <2>2
<1>4. QED
  BY <1>3

LEMMA DisjointUnion ==
  ASSUME NEW A, NEW B, IsFiniteSet(A), IsFiniteSet(B), A \cap B = {}
  PROVE  /\ IsFiniteSet(A \cup B)
         /\ Cardinality(A \cup B) = Cardinality(A) + Cardinality(B)
<1>1. Cardinality(A \cap B) = 0
  BY FS_EmptySet
<1>2. Cardinality(A) \in Nat /\ Cardinality(B) \in Nat
  BY FS_CardinalityType
<1>3. /\ IsFiniteSet(A \cup B)
      /\ Cardinality(A \cup B) = Cardinality(A) + Cardinality(B) - Cardinality(A \cap B)
  BY FS_Union
<1>4. QED
  BY <1>1, <1>2, <1>3

\* Three results partition the counted pairs.
LEMMA TallySum ==
  ASSUME NEW r, NEW g
  PROVE  /\ IsFiniteSet(Counted(r, g)) /\ Counted(r, g) \subseteq Pairs
         /\ \A x : IsFiniteSet({k \in Counted(r, g) : games[r][g][k] = x})
         /\ \A x : Tally(r, g, x) \in Nat
         /\ Cardinality(Counted(r, g)) =
              Tally(r, g, "win") + Tally(r, g, "draw") + Tally(r, g, "loss")
<1> DEFINE C == Counted(r, g)
           Of(x) == {k \in C : games[r][g][k] = x}
<1>1. IsFiniteSet(Pairs)
  BY Bounds, FS_Interval DEF Pairs
<1>2. C \subseteq Pairs /\ C \subseteq CompletedPairs(r, g)
  BY DEF Counted, CompletedPairs
<1>3. IsFiniteSet(C)
  BY <1>1, <1>2, FS_Subset
<1>4. \A x : IsFiniteSet(Of(x)) /\ Cardinality(Of(x)) \in Nat
  BY <1>3, FS_Subset, FS_CardinalityType
<1>5. C = (Of("win") \cup Of("draw")) \cup Of("loss")
  BY <1>2 DEF CompletedPairs, Decided
<1>6. Of("win") \cap Of("draw") = {} /\ (Of("win") \cup Of("draw")) \cap Of("loss") = {}
  OBVIOUS
<1>7. \A x : Tally(r, g, x) = Cardinality(Of(x))
  BY DEF Tally
<1> HIDE DEF C, Of
<1>8. /\ IsFiniteSet(Of("win") \cup Of("draw"))
      /\ Cardinality(Of("win") \cup Of("draw")) = Cardinality(Of("win")) + Cardinality(Of("draw"))
  BY <1>4, <1>6, DisjointUnion
<1>9. Cardinality(C) = Cardinality(Of("win") \cup Of("draw")) + Cardinality(Of("loss"))
  BY <1>4, <1>5, <1>6, <1>8, DisjointUnion
<1>10. QED
  BY <1>2, <1>3, <1>4, <1>7, <1>8, <1>9 DEF C, Of

\* The counted pairs are the decided pairs up to some pair of the suite.
LEMMA CountedIsPrefix ==
  ASSUME NEW r, NEW g, Counted(r, g) # {}
  PROVE  \E n \in Pairs : Counted(r, g) = {k \in 1 .. n : games[r][g][k] \in Decided}
<1> DEFINE C == Counted(r, g)
           D == CompletedPairs(r, g)
           T == {m \in Pairs : C \subseteq 1 .. m}
<1>1. C \subseteq Pairs /\ C \subseteq D /\ D \subseteq Pairs
  BY DEF Counted, CompletedPairs
<1>2. BasePairs + ReplacementPairs \in T
  BY <1>1, Bounds DEF Pairs
<1>3. T \in SUBSET Nat
  BY Bounds DEF Pairs
<1>4. PICK n \in T : \A m \in T : n <= m
  BY <1>2, <1>3, Least
<1>5. n \in C
  <2> SUFFICES ASSUME n \notin C
               PROVE  FALSE
    OBVIOUS
  <2>1. C \subseteq 1 .. n - 1 /\ n \in Pairs
    BY <1>1, <1>3, <1>4, Bounds DEF Pairs
  <2>2. n - 1 \in Pairs
    BY <2>1, Bounds DEF Pairs
  <2>3. n - 1 \in T
    BY <2>1, <2>2
  <2>4. QED
    BY <1>3, <1>4, <2>3
<1>6. \A k \in D : k <= n => k \in C
  <2> SUFFICES ASSUME NEW k \in D, k <= n
               PROVE  k \in C
    OBVIOUS
  <2> DEFINE Before(i) == {j \in D : j < i}
  <2>1. k \in Nat /\ n \in Nat /\ \A j \in D : j \in Nat
    BY <1>1, <1>3, <1>4, Bounds DEF Pairs
  <2>2. Before(k) \subseteq Before(n)
    <3> SUFFICES ASSUME NEW j \in D, j < k
                 PROVE  j < n
      OBVIOUS
    <3>1. j \in Nat /\ k \in Nat /\ n \in Nat /\ j < k /\ k <= n
      BY <2>1
    <3> HIDE DEF D
    <3>2. QED
      BY <3>1
  <2>3. IsFiniteSet(Before(n))
    BY <1>1, FS_Interval, FS_Subset, Bounds DEF Pairs
  <2>4. /\ Cardinality(Before(k)) <= Cardinality(Before(n))
        /\ Cardinality(Before(k)) \in Nat /\ Cardinality(Before(n)) \in Nat
    BY <2>2, <2>3, FS_Subset, FS_CardinalityType
  <2>5. Cardinality(Before(n)) < TargetPairs
    BY <1>5 DEF Counted
  <2>6. TargetPairs \in Nat
    BY LeagueAssumption DEF TargetPairs
  <2>7. Cardinality(Before(k)) < TargetPairs
    BY <2>4, <2>5, <2>6
  <2>8. QED
    BY <2>7 DEF Counted
<1>7. C = {k \in 1 .. n : games[r][g][k] \in Decided}
  <2>1. n \in Pairs /\ 1 .. n \subseteq Pairs
    BY <1>4, Bounds DEF Pairs
  <2>2. C \subseteq 1 .. n
    BY <1>4
  <2>3. \A k \in 1 .. n : games[r][g][k] \in Decided => k \in C
    BY <1>6, <2>1 DEF CompletedPairs
  <2>4. \A k \in C : games[r][g][k] \in Decided
    BY <1>1 DEF CompletedPairs
  <2>5. QED
    BY <2>2, <2>3, <2>4
<1>8. QED
  BY <1>4, <1>7

LEMMA VerdictIsEarned ==
  ASSUME NEW r, NEW g, NEW c, WorkerFailures(r, g) = {}, Verdict(r, g, c)
  PROVE  Earned(r, g) /\ c \in Sound
<1> DEFINE C == Counted(r, g)
<1>1. /\ c \in Sound /\ Cardinality(CandidateFailures(r, g)) = 0
      /\ Cardinality(C) >= MinimumPairs /\ Tally(r, g, "win") >= RequiredWins
      /\ Tally(r, g, "loss") = 0
  BY TallySum DEF Verdict, Promotes
<1>2. CandidateFailures(r, g) = {}
  <2>1. IsFiniteSet(CandidateFailures(r, g))
    BY FS_Interval, FS_Subset, Bounds, SMTT(40) DEF CandidateFailures, Pairs
  <2>2. QED
    BY <1>1, <2>1, FS_EmptySet
<1>3. \A k \in Pairs : games[r][g][k] \notin {"fault", "failed"}
  BY <1>2 DEF CandidateFailures, WorkerFailures
<1>4. C # {}
  BY <1>1, FS_EmptySet, LeagueAssumption
<1>5. PICK n \in Pairs : C = {k \in 1 .. n : games[r][g][k] \in Decided}
  BY <1>4, CountedIsPrefix
<1> DEFINE Among(S) == {k \in 1 .. n : games[r][g][k] \in S}
<1>6. Among({"win"}) = {k \in C : games[r][g][k] = "win"}
      /\ Among({"loss"}) = {k \in C : games[r][g][k] = "loss"}
  BY <1>5 DEF Decided
<1>7. Cardinality(Among({"win"})) >= RequiredWins
  BY <1>1, <1>6 DEF Tally
<1>8. Among({"loss"}) = {}
  <2>1. IsFiniteSet(Among({"loss"}))
    <3>1. Among({"loss"}) \subseteq Counted(r, g)
      BY <1>6
    <3>2. IsFiniteSet(Counted(r, g))
      BY TallySum
    <3> HIDE DEF Among
    <3>3. QED
      BY <3>1, <3>2, FS_Subset
  <2>2. Cardinality(Among({"loss"})) = 0
    BY <1>1, <1>6 DEF Tally
  <2>3. QED
    BY <2>1, <2>2, FS_EmptySet
<1>9. Cardinality(Among(Decided)) >= MinimumPairs
  BY <1>1, <1>5
<1>10. QED
  BY <1>1, <1>3, <1>5, <1>7, <1>8, <1>9 DEF Earned


-----------------------------------------------------------------------------
(* The invariant and the theorems. *)
LEMMA InitHolds == Init => IInv
<1> SUFFICES ASSUME Init
             PROVE  IInv
  OBVIOUS
<1>1. TypeOK
  <2>1. /\ runs \in [Runs -> Run \cup {None}]
        /\ population \in [Runs -> [Gens -> Population \cup {None}]]
        /\ matches \in [Runs -> [Gens -> Match \cup {None}]]
    BY DEF Init
  <2>2. games \in [Runs -> [Gens -> [Pairs -> Rows]]]
    BY DEF Init, Rows
  <2>3. /\ active \in Profiles \cup {None} /\ lineage \subseteq Lineage
        /\ published \in [profile : Profiles, evidence : BOOLEAN] \cup {None}
        /\ version \in 1 .. Versions /\ me \in Local /\ pc = "idle"
    BY Bounds, NobodyIsLocal DEF Init
  <2>4. faults \in 0 .. MaxFaults
    BY LeagueAssumption DEF Init
  <2>5. QED
    BY <2>1, <2>2, <2>3, <2>4 DEF TypeOK
<1>2. Opened = {}
  BY DEF Init, Opened
<1>3. Contiguous
  <2>1. Opened = 1 .. 0 /\ 0 \in 0 .. MaxRuns
    BY <1>2, Bounds
  <2>2. QED
    BY <2>1 DEF Contiguous
<1>4. \A r \in Runs, g \in Gens : matches[r][g] = None /\ population[r][g] = None
  BY DEF Init
<1>5. Decisions /\ Ahead /\ Lineages /\ Bred /\ Followed
  BY <1>2, <1>4 DEF Init, Decisions, Ahead, Lineages, Bred, Followed
<1>6. Position /\ Playing
  BY DEF Init, Position, Playing, InRun, InMatch, Decider
<1>7. QED
  BY <1>1, <1>3, <1>5, <1>6 DEF IInv, Tables

LEMMA InvariantStep == IInv /\ [Next]_vars => IInv'
<1> SUFFICES ASSUME IInv, [Next]_vars
             PROVE  IInv'
  OBVIOUS
<1>1. TypeOK'
  BY TypeStep DEF IInv, Tables
<1>2. CASE StartRun
  BY <1>1, <1>2, OnStart
<1>3. CASE \E r \in Runs : Resume(r)
  BY <1>1, <1>3, OnResume
<1>4. CASE CreateRun
  BY <1>1, <1>4, OnCreateRun
<1>5. CASE Publish
  BY <1>1, <1>5, OnPublish
<1>6. CASE CreatePopulation
  BY <1>1, <1>6, OnCreatePopulation
<1>7. CASE NoFinalist \/ NeedsResume \/ Complete
  BY <1>1, <1>7, OnStop
<1>8. CASE Schedule
  BY <1>1, <1>8, OnSchedule
<1>9. CASE \E k \in Pairs : SaveGame(k)
  BY <1>1, <1>9, OnSaveGame
<1>10. CASE Replace
  BY <1>1, <1>10, OnReplace
<1>11. CASE SaveMatch
  BY <1>1, <1>11, OnSaveMatch
<1>12. CASE Crown
  BY <1>1, <1>12, OnCrown
<1>13. CASE RecordLineage
  BY <1>1, <1>13, OnRecordLineage
<1>14. CASE Breed
  BY <1>1, <1>14, OnBreed
<1>15. CASE Advance
  BY <1>1, <1>15, OnAdvance
<1>16. CASE Finish \/ Crash \/ Upgrade
  <2>1. UNCHANGED <<runs, population, games, matches, lineage>> /\ pc' = "idle"
    BY <1>16 DEF Finish, Crash, Upgrade, tables
  <2>2. QED
    BY <1>1, <2>1, Waiting
<1>17. CASE UNCHANGED vars
  <2>1. UNCHANGED <<runs, population, games, matches, lineage, pc, me>>
    BY <1>17 DEF vars
  <2>2. Tables'
    BY <2>1, TablesStay DEF IInv
  <2>3. Position' /\ Playing'
    BY <2>1 DEF IInv, Position, Playing, InRun, InMatch, Decider, Paired, Unfinished, Opened
  <2>4. QED
    BY <1>1, <2>2, <2>3 DEF IInv
<1>18. QED
  BY <1>2, <1>3, <1>4, <1>5, <1>6, <1>7, <1>8, <1>9, <1>10, <1>11, <1>12, <1>13, <1>14,
     <1>15, <1>16, <1>17 DEF Next, Launch, Work

\* In every reachable state the tables and the process fit together: what the
\* other theorems rest on.
THEOREM TablesFit == Spec => []IInv
<1>1. Init => IInv
  BY InitHolds
<1>2. IInv /\ [Next]_vars => IInv'
  BY InvariantStep
<1>3. QED
  BY <1>1, <1>2, PTL DEF Spec

\* Type correctness: every row stored and every local of run_league keeps its type.
THEOREM TypeCorrect == Spec => []TypeOK
<1>1. IInv => TypeOK
  BY DEF IInv
<1>2. QED
  BY <1>1, TablesFit, PTL

\* A run that is resumed is never refused by population(): whatever commit the
\* last attempt stopped after, its population is the one of its champion.
THEOREM NeverRefused == Spec => []ResumeNeverRefused
<1>1. ASSUME IInv
      PROVE  ResumeNeverRefused
  <2>1. \A r \in Opened :
          population[r][runs[r].generation] # None /\ Unfinished(r)
            => population[r][runs[r].generation].champion = runs[r].champion
    BY <1>1 DEF IInv, Tables, Bred
  <2>2. pc = "generation" => me.run \in Opened /\ Unfinished(me.run)
                             /\ runs[me.run].generation = me.generation
                             /\ runs[me.run].champion = me.champion
    BY <1>1 DEF IInv, Position, InRun
  <2>3. QED
    BY <2>1, <2>2 DEF ResumeNeverRefused
<1>2. QED
  BY <1>1, TablesFit, PTL

\* A promotion, and every champion of the lineage, is backed by decided games of
\* its generation, however often the generation was interrupted or replayed.
THEOREM EveryPromotionEarned == Spec => []PromotionsEarned
<1>1. ASSUME IInv
      PROVE  PromotionsEarned
  <2>1. ASSUME NEW r \in Runs, NEW g \in Gens, matches[r][g] # None, matches[r][g].promoted
        PROVE  Earned(r, g) /\ matches[r][g].candidate \in Sound
    <3>1. /\ Settled(r, g) /\ matches[r][g].candidate = population[r][g].challenger
          /\ Verdict(r, g, population[r][g].challenger)
      BY <1>1, <2>1, AgreesFields DEF IInv, Tables
    <3>2. WorkerFailures(r, g) = {}
      BY <3>1 DEF Settled
    <3>3. QED
      BY <3>1, <3>2, VerdictIsEarned
  <2>2. Lineages
    BY <1>1 DEF IInv, Tables
  <2>3. QED
    BY <2>1, <2>2 DEF PromotionsEarned, Lineages
<1>2. QED
  BY <1>1, TablesFit, PTL

\* The champions the lineage crowned in a generation, of which there is at most one.
LEMMA CrownedOnce ==
  ASSUME IInv, NEW r \in Opened, NEW g \in Gens, g < runs[r].generation,
         NEW y \in lineage, y.run = r, y.generation = g
  PROVE  {x.champion : x \in {z \in lineage : z.run = r /\ z.generation = g}}
           = {population[r][g + 1].champion}
<1>1. \A x \in lineage : x.run = r /\ x.generation = g =>
        population[r][g + 1].champion = x.champion
  BY DEF IInv, Tables, Followed, Following
<1>2. QED
  BY <1>1

\* The row of a run and the lineage tell one story: the champion a generation
\* starts with is the one the lineage crowned in the one before it, if any.
THEOREM LineageIsTheStory == Spec => []RunFollowsLineage
<1>1. ASSUME IInv
      PROVE  RunFollowsLineage
  <2>1. ASSUME NEW r \in Opened, NEW g \in Gens, g < runs[r].generation
        PROVE  LET crowned == {x.champion : x \in {y \in lineage : y.run = r
                                                        /\ y.generation = g}} IN
                 IF crowned = {}
                 THEN population[r][g + 1].champion = population[r][g].champion
                 ELSE crowned = {population[r][g + 1].champion}
    <3>1. CASE \A x \in lineage : ~ (x.run = r /\ x.generation = g)
      <4>1. {x.champion : x \in {y \in lineage : y.run = r /\ y.generation = g}} = {}
        BY <3>1
      <4>2. population[r][g + 1].champion = population[r][g].champion
        BY <1>1, <2>1, <3>1 DEF IInv, Tables, Followed, Following
      <4>3. QED
        BY <4>1, <4>2
    <3>2. CASE \E x \in lineage : x.run = r /\ x.generation = g
      BY <1>1, <2>1, <3>2, CrownedOnce
    <3>3. QED
      BY <3>1, <3>2
  <2>2. QED
    BY <2>1 DEF RunFollowsLineage
<1>2. QED
  BY <1>1, TablesFit, PTL

\* A generation is decided once: a resumed run that replays it, with other
\* worker exceptions and other crashes, comes to the match it had.
THEOREM DecidedOnce == Spec => DecisionStable
<1> DEFINE Kept == \A r \in Runs, g \in Gens :
                     matches[r][g] # None => matches'[r][g] = matches[r][g]
<1>1. IInv /\ IInv' /\ [Next]_vars => [Kept]_vars
  <2> SUFFICES ASSUME IInv, IInv', [Next]_vars
               PROVE  Kept
    OBVIOUS
  <2>1. CASE SaveMatch
    BY <2>1, OnSaveMatch DEF IInv
  <2>2. CASE ~ SaveMatch
    <3>1. matches' = matches
      BY <2>2 DEF Next, Launch, Work, vars, tables, StartRun, Resume, CreateRun, Publish,
         CreatePopulation, NoFinalist, Schedule, SaveGame, Saved, Replace, NeedsResume, Crown,
         RecordLineage, Breed, Advance, Complete, Finish, Crash, Upgrade
    <3>2. QED
      BY <3>1
  <2>3. QED
    BY <2>1, <2>2
<1>2. QED
  BY <1>1, TablesFit, PTL DEF Spec, DecisionStable

\* A decided game is never played again, nor is one the engine or the candidate
\* ended without a result.
THEOREM ResultsStay == Spec => ResultsKept
<1> DEFINE Kept == \A r \in Runs, g \in Gens, k \in Pairs :
                     games[r][g][k] \in Decided \cup {"open", "fault"}
                       => games'[r][g][k] = games[r][g][k]
<1>1. IInv /\ IInv' /\ [Next]_vars => [Kept]_vars
  <2> SUFFICES ASSUME IInv, IInv', [Next]_vars
               PROVE  Kept
    OBVIOUS
  <2>1. ASSUME NEW k \in Pairs, SaveGame(k)
        PROVE  Kept
    <3>1. /\ k \in me.todo /\ pc = "play"
          /\ \E x : games' = [games EXCEPT ![me.run][me.generation][k] = x]
      BY <2>1 DEF SaveGame, Saved
    <3>2. games[me.run][me.generation][k] \in {"missing", "half", "failed"}
      BY <3>1 DEF IInv, Playing
    <3>3. \A r \in Runs, g \in Gens, j \in Pairs :
            ~ (r = me.run /\ g = me.generation /\ j = k) => games'[r][g][j] = games[r][g][j]
      BY <3>1 DEF IInv, TypeOK
    <3>4. QED
      BY <3>2, <3>3 DEF Decided
  <2>2. CASE \A k \in Pairs : ~ SaveGame(k)
    <3>1. games' = games
      BY <2>2 DEF Next, Launch, Work, vars, tables, StartRun, Resume, CreateRun, Publish,
         CreatePopulation, NoFinalist, Schedule, Replace, NeedsResume, SaveMatch, Crown,
         RecordLineage, Breed, Advance, Complete, Finish, Crash, Upgrade
    <3>2. QED
      BY <3>1
  <2>3. QED
    BY <2>1, <2>2
<1>2. QED
  BY <1>1, TablesFit, PTL DEF Spec, ResultsKept

-----------------------------------------------------------------------------
(* Runs started by the launcher. *)

\* The champion of the latest run is the active one, but between set_active_champion
\* and update_run: there the active one is what the run's match promoted.
Recent(r) ==
  \/ active = runs[r].champion
  \/ /\ matches[r][runs[r].generation] # None
     /\ matches[r][runs[r].generation].promoted
     /\ active = matches[r][runs[r].generation].candidate

Latest ==
  /\ pc \notin {"idle", "create"} => IsLatest(me.run)
  /\ pc \in {"create", "lineage", "breed", "advance"} => active = me.champion
  /\ \A r \in Opened : IsLatest(r) => Recent(r)

\* The baseline, what the lineage has a row for, and what a run promoted that was
\* stopped before the row and passed over for another engine.
Backed ==
  {c \in Profiles : \/ c = Baseline
                    \/ \E x \in lineage : x.champion = c
                    \/ \E r \in Opened : Stranded(r, c)}

\* What the latest run promoted without a row so far.
Pending == {c \in Profiles : \E r \in Opened : IsLatest(r) /\ Unrecorded(r, c)}

Trail ==
  /\ \A r \in Opened : runs[r].champion \in Backed
  /\ \A r \in Opened :
       IsLatest(r) /\ runs[r].status = "complete" => active = runs[r].champion
  /\ Opened = {} => active \in {None, Baseline}
  /\ pc \notin {"idle", "create", "lineage"} => me.champion \in Backed
  /\ pc = "create" => me.champion \in Backed \cup Pending

-----------------------------------------------------------------------------
(* The latest run and the active champion. *)

\* The runs are numbered in the order they were opened: one of them is the latest.
LEMMA LatestRun ==
  ASSUME TypeOK, Contiguous, Opened # {}
  PROVE  IsLatest(Cardinality(Opened))
<1>1. PICK n \in 0 .. MaxRuns : Opened = 1 .. n
  BY DEF Contiguous
<1>2. Cardinality(Opened) = n
  BY <1>1, FS_Interval, Bounds
<1>3. n \in 1 .. n
  BY <1>1, Bounds
<1>4. QED
  BY <1>1, <1>2, <1>3 DEF IsLatest

\* The champion of a row and the candidate of a match are profiles.
LEMMA RecentIsProfile ==
  ASSUME TypeOK, NEW r \in Opened, Recent(r)
  PROVE  active \in Profiles
<1>1. runs[r].champion \in Profiles /\ runs[r].generation \in Gens /\ r \in Runs
  BY RowShape DEF Run
<1>2. matches[r][runs[r].generation] \in Match \cup {None}
  BY <1>1 DEF TypeOK
<1>3. QED
  BY <1>1, <1>2 DEF Recent, Match

\* The match of the generation at hand, told from the process.
LEMMA MatchOfMe ==
  ASSUME IInv, pc \in Decider
  PROVE  /\ me.run \in Opened /\ me.run \in Runs /\ me.generation \in Gens
         /\ runs[me.run].generation = me.generation /\ Unfinished(me.run)
         /\ matches[me.run][me.generation] \in Match
         /\ matches[me.run][me.generation] # None
         /\ matches[me.run][me.generation].candidate = me.candidate
         /\ matches[me.run][me.generation].opponent = me.opponent
         /\ me.opponent = runs[me.run].champion
<1>1. /\ me.run \in Opened /\ me.run \in Runs /\ me.generation \in Gens
      /\ runs[me.run].generation = me.generation /\ Unfinished(me.run)
  BY Standing DEF Decider, InRun
<1>2. /\ matches[me.run][me.generation] # None
      /\ population[me.run][me.generation] =
           [champion |-> me.opponent, challenger |-> me.candidate]
      /\ me.opponent = runs[me.run].champion
  BY DEF IInv, Position, Decider, InMatch, Paired
<1>3. /\ matches[me.run][me.generation] \in Match
      /\ matches[me.run][me.generation].candidate = population[me.run][me.generation].challenger
      /\ matches[me.run][me.generation].opponent = population[me.run][me.generation].champion
  BY <1>1, <1>2, AgreesFields DEF IInv, Tables
<1>4. QED
  BY <1>1, <1>2, <1>3

LEMMA LatestStep ==
  ASSUME AnyRun = FALSE, Handpicked = {}, IInv, IInv', Latest, [Next]_vars
  PROVE  Latest'
<1>0. TypeOK /\ Contiguous
  BY DEF IInv, Tables
<1>1. CASE StartRun
  <2>1. PICK c \in FirstChampion : active' = c /\ me' = [Nobody EXCEPT !.champion = c]
    BY <1>1 DEF StartRun
  <2>2. c = IF active = None THEN Baseline ELSE active
    BY <2>1 DEF FirstChampion
  <2>3. /\ pc' = "create" /\ me'.champion = c /\ Opened' = Opened
        /\ runs' = runs /\ matches' = matches
    BY <1>1, <2>1 DEF StartRun, Nobody, Opened
  <2>4. ASSUME NEW r \in Opened, IsLatest(r)
        PROVE  Recent(r)'
    <3>1. Recent(r) /\ active \in Profiles
      BY <1>0, <2>4, RecentIsProfile DEF Latest
    <3>2. active' = active
      BY <2>1, <2>2, <3>1, LeagueAssumption
    <3>3. QED
      BY <2>3, <3>1, <3>2 DEF Recent
  <2>5. QED
    BY <2>1, <2>3, <2>4 DEF Latest, IsLatest
<1>2. CASE CreateRun
  <2>1. PICK r \in Runs \ Opened :
           /\ r = Cardinality(Opened) + 1
           /\ runs' = [runs EXCEPT ![r] = [status |-> "running", champion |-> me.champion,
                                           generation |-> 1, version |-> version]]
           /\ Opened' = Opened \cup {r} /\ me' = [me EXCEPT !.run = r]
    BY <1>0, <1>2, NewRow DEF IInv
  <2>2. Opened = 1 .. Cardinality(Opened) /\ Cardinality(Opened) \in Nat
    BY <1>0, <1>2, FreshRun DEF CreateRun, IInv, Position
  <2>3. Cardinality(Opened') = r
    <3>1. Opened' = 1 .. r /\ r \in Nat
      BY <2>1, <2>2
    <3>2. QED
      BY <3>1, FS_Interval
  <2>4. /\ me'.run = r /\ runs'[r].champion = me.champion
        /\ pc = "create" /\ pc' = "publish" /\ active' = active
    BY <1>0, <1>2, <2>1 DEF CreateRun, TypeOK, Local
  <2>5. Recent(r)'
    BY <2>4 DEF Latest, Recent
  <2>6. QED
    BY <2>1, <2>3, <2>4, <2>5 DEF Latest, IsLatest
<1>3. ASSUME NEW r \in Runs, Resume(r)
      PROVE  Latest'
  <2>1. /\ IsLatest(r) /\ r \in Opened /\ Opened' = Opened
        /\ active' = active /\ runs' = runs /\ matches' = matches
    BY <1>3 DEF Resume, Continuable, Opened
  <2>2. Continuable(r) /\ ResumeAt(r)
    BY <1>3 DEF Resume, Continuable, Refresh
  <2>3. me'.run = r /\ pc' = "publish"
    BY <2>2, NobodyIsLocal DEF ResumeAt, Local
  <2>4. QED
    BY <2>1, <2>3 DEF Latest, IsLatest, Recent
<1>4. CASE Publish \/ CreatePopulation \/ Schedule \/ Replace \/ \E k \in Pairs : SaveGame(k)
  <2>1. /\ active' = active /\ runs' = runs /\ matches' = matches
        /\ pc \in {"publish", "generation", "play"} /\ pc' \in {"generation", "play"}
    BY <1>4 DEF Publish, CreatePopulation, Schedule, Loaded, Replace, SaveGame, Saved, tables
  <2>2. me'.run = me.run
    BY <1>0, <1>4 DEF Publish, CreatePopulation, Schedule, Replace, SaveGame, Saved, TypeOK, Local
  <2>3. QED
    BY <2>1, <2>2 DEF Latest, IsLatest, Recent, Opened
<1>5. CASE NoFinalist \/ NeedsResume \/ Complete
  <2>1. /\ active' = active /\ matches' = matches /\ me' = me /\ pc' = "finish"
        /\ pc \in {"generation", "play", "breed"}
    BY <1>5 DEF NoFinalist, Loaded, NeedsResume, Played, Complete
  <2>2. \E s \in Statuses : Set(me.run, s, me.generation, me.champion)
    BY <1>5 DEF NoFinalist, NeedsResume, Complete, Statuses
  <2>3. /\ me.run \in Opened /\ me.generation \in Gens /\ me.champion \in Profiles
        /\ runs[me.run].generation = me.generation
    BY <2>1, Standing DEF InRun
  <2>4. /\ Opened' = Opened /\ runs'[me.run].generation = me.generation
        /\ runs'[me.run].champion = me.champion
    BY <1>0, <2>2, <2>3, SetType
  <2>5. Recent(me.run)'
    <3>1. CASE pc = "breed"
      BY <2>1, <2>4, <3>1 DEF Latest, Recent
    <3>2. CASE pc \in {"generation", "play"}
      <4>1. IsLatest(me.run) /\ me.champion = runs[me.run].champion
        BY <3>2 DEF IInv, Position, Latest
      <4>2. Recent(me.run)
        BY <2>3, <4>1 DEF Latest
      <4>3. QED
        BY <2>1, <2>3, <2>4, <4>1, <4>2 DEF Recent
    <3>3. QED
      BY <2>1, <3>1, <3>2
  <2>6. IsLatest(me.run)
    BY <2>1 DEF Latest
  <2>7. QED
    BY <2>1, <2>4, <2>5, <2>6 DEF Latest, IsLatest
<1>6. CASE SaveMatch
  <2>1. /\ active' = active /\ runs' = runs /\ me' = me /\ pc = "play" /\ pc' \in {"crown", "breed"}
        /\ Opened' = Opened
    BY <1>6 DEF SaveMatch, Played, Opened
  <2>2. /\ me.run \in Opened /\ me.run \in Runs /\ me.generation \in Gens
        /\ runs[me.run].generation = me.generation /\ IsLatest(me.run)
    BY <2>1, Standing DEF InRun, Latest
  <2>3. matches[me.run][me.generation] # None =>
          matches'[me.run][me.generation] = matches[me.run][me.generation]
    BY <1>6, <2>2, OnSaveMatch DEF IInv
  <2>4. Recent(me.run)
    BY <2>2 DEF Latest
  <2>5. Recent(me.run)'
    BY <2>1, <2>2, <2>3, <2>4 DEF Recent
  <2>6. pc' = "breed" => active' = me'.champion
    <3> SUFFICES ASSUME pc' = "breed"
                 PROVE  active' = me'.champion
      OBVIOUS
    <3>1. me.champion = runs[me.run].champion
      BY <2>1 DEF IInv, Position
    <3>2. ~ matches'[me.run][me.generation].promoted
      <4> DEFINE verdict == Verdict(me.run, me.generation, me.candidate)
                 match == [candidate |-> me.candidate, opponent |-> me.opponent,
                           promoted |-> verdict]
      <4>1. /\ matches' = [matches EXCEPT ![me.run][me.generation] = match]
            /\ pc' = IF verdict THEN "crown" ELSE "breed"
        BY <1>6 DEF SaveMatch
      <4>2. ~ verdict
        BY <4>1
      <4>3. matches'[me.run][me.generation] = match
        BY <1>0, <2>2, <4>1 DEF TypeOK
      <4>4. match.promoted = verdict
        OBVIOUS
      <4> HIDE DEF verdict, match
      <4>5. QED
        BY <4>2, <4>3, <4>4
    <3>3. active' = runs[me.run].champion
      BY <2>1, <2>2, <2>5, <3>2 DEF Recent
    <3>4. QED
      BY <2>1, <3>1, <3>3
  <2>7. QED
    BY <2>1, <2>2, <2>5, <2>6 DEF Latest, IsLatest
<1>7. CASE Crown
  <2>1. /\ pc = "crown" /\ pc' = "lineage" /\ active' = me.candidate /\ runs' = runs
        /\ matches' = matches /\ Opened' = Opened
    BY <1>7 DEF Crown, Opened
  <2>2. me'.run = me.run /\ me'.champion = me.candidate
    BY <1>0, <1>7 DEF Crown, TypeOK, Local
  <2>3. /\ matches[me.run][me.generation].candidate = me.candidate
        /\ matches[me.run][me.generation] # None
        /\ runs[me.run].generation = me.generation /\ IsLatest(me.run)
    BY <2>1, MatchOfMe DEF Decider, Latest
  <2>4. matches[me.run][me.generation].promoted
    BY <2>1 DEF IInv, Position
  <2>5. Recent(me.run)'
    BY <2>1, <2>2, <2>3, <2>4 DEF Recent
  <2>6. QED
    BY <2>1, <2>2, <2>3, <2>5 DEF Latest, IsLatest
<1>8. CASE RecordLineage \/ Breed
  <2>1. /\ active' = active /\ runs' = runs /\ matches' = matches /\ me' = me
        /\ pc \in {"lineage", "breed"} /\ pc' \in {"breed", "advance"}
    BY <1>8 DEF RecordLineage, Breed
  <2>2. QED
    BY <2>1 DEF Latest, IsLatest, Recent, Opened
<1>9. CASE Advance
  <2>1. /\ active' = active /\ pc = "advance" /\ pc' = "publish"
        /\ Set(me.run, "running", me.generation + 1, me.champion)
        /\ me' = [Nobody EXCEPT !.run = me.run, !.champion = me.champion,
                                !.generation = me.generation + 1]
    BY <1>9 DEF Advance
  <2>2. me'.run = me.run
    BY <2>1, NobodyIsLocal DEF Local
  <2>3. /\ me.run \in Opened /\ me.champion \in Profiles /\ me.generation \in Gens
        /\ IsLatest(me.run) /\ active = me.champion
    BY <2>1, Standing DEF InRun, Latest
  <2>4. me.generation + 1 \in Gens
    BY <2>1, <2>3, Bounds DEF IInv, Position, Gens
  <2>5. Opened' = Opened /\ runs'[me.run].champion = me.champion
    BY <1>0, <2>1, <2>3, <2>4, SetType DEF Statuses
  <2>6. Recent(me.run)'
    BY <2>1, <2>3, <2>5 DEF Recent
  <2>7. QED
    BY <2>1, <2>2, <2>3, <2>5, <2>6 DEF Latest, IsLatest
<1>10. CASE Finish \/ Crash \/ Upgrade
  <2>1. UNCHANGED <<active, runs, matches>> /\ pc' = "idle"
    BY <1>10 DEF Finish, Crash, Upgrade, tables
  <2>2. QED
    BY <2>1 DEF Latest, IsLatest, Recent, Opened
<1>11. CASE UNCHANGED vars
  BY <1>11 DEF vars, Latest, IsLatest, Recent, Opened
<1>12. QED
  BY <1>1, <1>2, <1>3, <1>4, <1>5, <1>6, <1>7, <1>8, <1>9, <1>10, <1>11 DEF Next, Launch, Work

\* The next champion of the league, when only train-engine.cmd starts runs: in every
\* reachable state the active champion is the one of the latest run's row or what
\* its match promoted.
LEMMA LatestHolds ==
  ASSUME AnyRun = FALSE, Handpicked = {}
  PROVE  Spec => []Latest
<1>1. Init => Latest
  BY DEF Init, Latest, Opened
<1>2. IInv /\ IInv' /\ Latest /\ [Next]_vars => Latest'
  BY LatestStep
<1>3. QED
  BY <1>1, <1>2, TablesFit, PTL DEF Spec

\* A profile that replaces the active champion beat that very champion in a
\* promoted match, whatever commits the process was killed between.
THEOREM ChampionsAreBeaten ==
  ASSUME AnyRun = FALSE, Handpicked = {}
  PROVE  Spec => ChampionBeaten
<1> DEFINE Beaten == active' # active /\ active # None =>
                       \E r \in Runs, g \in Gens :
                         matches[r][g] = [candidate |-> active', opponent |-> active,
                                          promoted |-> TRUE]
<1>1. IInv /\ Latest /\ [Next]_vars => [Beaten]_vars
  <2> SUFFICES ASSUME IInv, Latest, [Next]_vars, active' # active, active # None
               PROVE  \E r \in Runs, g \in Gens :
                        matches[r][g] = [candidate |-> active', opponent |-> active,
                                         promoted |-> TRUE]
    OBVIOUS
  <2>1. CASE StartRun
    BY <2>1 DEF StartRun, FirstChampion
  <2>2. CASE Crown
    <3>1. pc = "crown" /\ active' = me.candidate
      BY <2>2 DEF Crown
    <3>2. /\ me.run \in Runs /\ me.run \in Opened /\ me.generation \in Gens
          /\ matches[me.run][me.generation] \in Match
          /\ matches[me.run][me.generation].candidate = me.candidate
          /\ matches[me.run][me.generation].opponent = me.opponent
          /\ me.opponent = runs[me.run].champion
          /\ runs[me.run].generation = me.generation /\ IsLatest(me.run)
      BY <3>1, MatchOfMe DEF Decider, Latest
    <3>3. matches[me.run][me.generation].promoted = TRUE
      BY <3>1, <3>2 DEF IInv, Position, Match
    <3>4. active = me.opponent
      BY <3>1, <3>2 DEF Latest, Recent
    <3>5. matches[me.run][me.generation] =
            [candidate |-> active', opponent |-> active, promoted |-> TRUE]
      BY <3>1, <3>2, <3>3, <3>4 DEF Match
    <3>6. QED
      BY <3>2, <3>5
  <2>3. CASE ~ StartRun /\ ~ Crown
    <3>1. active' = active
      BY <2>3 DEF Next, Launch, Work, vars, tables, Resume, CreateRun, Publish,
         CreatePopulation, NoFinalist, Schedule, SaveGame, Saved, Replace, NeedsResume, SaveMatch,
         RecordLineage, Breed, Advance, Complete, Finish, Crash, Upgrade
    <3>2. QED
      BY <3>1
  <2>4. QED
    BY <2>1, <2>2, <2>3
<1>2. QED
  BY <1>1, TablesFit, LatestHolds, PTL DEF Spec, ChampionBeaten

-----------------------------------------------------------------------------
(* The champion file. *)

\* Rows of the lineage stay, and another one is of the process's generation.
LEMMA LineageGrows ==
  ASSUME [Next]_vars
  PROVE  /\ lineage \subseteq lineage'
         /\ \A x \in lineage' \ lineage : pc = "lineage" /\ x.run = me.run
<1>1. CASE RecordLineage
  <2> DEFINE row == [run |-> me.run, generation |-> me.generation,
                     previous |-> me.opponent, champion |-> me.champion]
  <2>1. pc = "lineage" /\ (lineage' = lineage \/ lineage' = lineage \cup {row})
    BY <1>1 DEF RecordLineage
  <2>2. row.run = me.run
    OBVIOUS
  <2> HIDE DEF row
  <2>3. QED
    BY <2>1, <2>2
<1>2. CASE ~ RecordLineage
  <2>1. lineage' = lineage
    BY <1>2 DEF Next, Launch, Work, vars, tables, StartRun, Resume, CreateRun, Publish,
       CreatePopulation, NoFinalist, Schedule, SaveGame, Saved, Replace, NeedsResume, SaveMatch,
       Crown, Breed, Advance, Complete, Finish, Crash, Upgrade
  <2>2. QED
    BY <2>1
<1>3. QED
  BY <1>1, <1>2

\* A step changes the row and the matches of no run but the process's.
LEMMA OthersStay ==
  ASSUME IInv, [Next]_vars, NEW r \in Opened, pc \notin {"idle", "create"} => r # me.run
  PROVE  r \in Opened' /\ runs'[r] = runs[r] /\ matches'[r] = matches[r]
<1>0. TypeOK /\ Contiguous /\ r \in Runs /\ runs[r] # None
  BY DEF IInv, Tables, Opened
<1>1. CASE CreateRun
  <2>1. PICK q \in Runs \ Opened :
          runs' = [runs EXCEPT ![q] = [status |-> "running", champion |-> me.champion,
                                       generation |-> 1, version |-> version]]
    BY <1>0, <1>1, NewRow DEF IInv
  <2>2. runs'[r] = runs[r] /\ matches' = matches
    BY <1>0, <1>1, <2>1 DEF TypeOK, CreateRun
  <2>3. QED
    BY <1>0, <2>2 DEF Opened
<1>2. CASE NoFinalist \/ NeedsResume \/ Complete \/ Advance
  <2>1. /\ matches' = matches /\ pc \in InRun /\ r # me.run
        /\ \E s, g, c : Set(me.run, s, g, c)
    BY <1>2 DEF NoFinalist, Loaded, NeedsResume, Played, Complete, Advance, InRun
  <2>2. runs'[r] = runs[r]
    BY <1>0, <2>1 DEF Set, TypeOK
  <2>3. QED
    BY <1>0, <2>1, <2>2 DEF Opened
<1>3. CASE SaveMatch
  <2>1. /\ runs' = runs /\ r # me.run
        /\ \E m : matches' = [matches EXCEPT ![me.run][me.generation] = m]
    BY <1>3 DEF SaveMatch, Played
  <2>2. matches'[r] = matches[r]
    BY <1>0, <2>1 DEF TypeOK
  <2>3. QED
    BY <1>0, <2>1, <2>2 DEF Opened
<1>4. CASE ~ (CreateRun \/ NoFinalist \/ NeedsResume \/ Complete \/ Advance \/ SaveMatch)
  <2>1. runs' = runs /\ matches' = matches
    BY <1>4 DEF Next, Launch, Work, vars, tables, StartRun, Resume, Publish,
       CreatePopulation, Schedule, SaveGame, Saved, Replace,
       Crown, RecordLineage, Breed, Finish, Crash, Upgrade
  <2>2. QED
    BY <1>0, <2>1 DEF Opened
<1>5. QED
  BY <1>1, <1>2, <1>3, <1>4

\* Runs are opened after the latest one, so a run that is not the latest stays so.
LEMMA LatestMoves ==
  ASSUME IInv, [Next]_vars, NEW r \in Opened
  PROVE  /\ ~ IsLatest(r) => ~ IsLatest(r)'
         /\ CreateRun => ~ IsLatest(r)'
<1>0. TypeOK /\ Contiguous /\ Position
  BY DEF IInv, Tables
<1>1. CASE CreateRun
  <2>1. PICK q \in Runs \ Opened : q = Cardinality(Opened) + 1 /\ Opened' = Opened \cup {q}
    BY <1>0, <1>1, NewRow
  <2>2. Opened = 1 .. Cardinality(Opened) /\ Cardinality(Opened) \in Nat
    BY <1>0, <1>1, FreshRun DEF CreateRun, Position
  <2>3. Opened' = 1 .. q /\ q \in Nat
    BY <2>1, <2>2
  <2>4. Cardinality(Opened') = q
    BY <2>3, FS_Interval
  <2>5. QED
    BY <2>1, <2>4 DEF IsLatest
<1>2. CASE ~ CreateRun
  <2>1. CASE NoFinalist \/ NeedsResume \/ Complete \/ Advance
    <3>1. pc \in InRun
      BY <2>1 DEF NoFinalist, Loaded, NeedsResume, Played, Complete, Advance, InRun
    <3>2. me.run \in Opened
      BY <3>1, Standing
    <3>3. me.generation \in Gens /\ me.champion \in Profiles
      BY <3>1, Standing
    <3>4. Opened' = Opened
      <4>1. PICK s \in Statuses, g \in Gens, c \in Profiles : Set(me.run, s, g, c)
        <5>1. Advance => me.generation + 1 \in Gens
          BY <3>3, Bounds DEF Advance, IInv, Position, Gens
        <5>2. QED
          BY <2>1, <3>3, <5>1 DEF NoFinalist, NeedsResume, Complete, Advance, Statuses
      <4>2. QED
        BY <1>0, <3>2, <4>1, SetType
    <3>5. QED
      BY <1>2, <3>4 DEF IsLatest
  <2>2. CASE ~ (NoFinalist \/ NeedsResume \/ Complete \/ Advance)
    <3>1. runs' = runs
      BY <1>2, <2>2 DEF Next, Launch, Work, vars, tables, StartRun, Resume, Publish,
         CreatePopulation, Schedule, SaveGame, Saved, Replace, SaveMatch,
         Crown, RecordLineage, Breed, Finish, Crash, Upgrade
    <3>2. QED
      BY <1>2, <3>1 DEF IsLatest, Opened
  <2>3. QED
    BY <2>1, <2>2
<1>3. QED
  BY <1>1, <1>2

\* A run that was passed over is out of reach of train-engine.cmd.
LEMMA StrandedStays ==
  ASSUME IInv, Latest, [Next]_vars, NEW r \in Opened, NEW c, Stranded(r, c)
  PROVE  r \in Opened' /\ Stranded(r, c)'
<1>1. pc \notin {"idle", "create"} => r # me.run
  BY DEF Latest, Stranded
<1>2. r \in Opened' /\ runs'[r] = runs[r] /\ matches'[r] = matches[r]
  BY <1>1, OthersStay
<1>3. \A x \in lineage' : ~ (x.run = r /\ x.generation = runs[r].generation)
  BY <1>1, LineageGrows DEF Stranded, Unrecorded
<1>4. ~ IsLatest(r)'
  BY LatestMoves DEF Stranded
<1>5. QED
  BY <1>2, <1>3, <1>4 DEF Stranded, Unrecorded, Unfinished

LEMMA BackedStays ==
  ASSUME IInv, Latest, [Next]_vars
  PROVE  Backed \subseteq Backed'
<1> SUFFICES ASSUME NEW c \in Profiles, c \in Backed
             PROVE  c \in Backed'
  BY DEF Backed
<1>1. CASE \E r \in Opened : Stranded(r, c)
  BY <1>1, StrandedStays DEF Backed
<1>2. CASE ~ \E r \in Opened : Stranded(r, c)
  BY <1>2, LineageGrows DEF Backed
<1>3. QED
  BY <1>1, <1>2

\* The run a new one is opened after is passed over.
LEMMA PendingIsPassed ==
  ASSUME IInv, CreateRun
  PROVE  Pending \subseteq Backed'
<1> SUFFICES ASSUME NEW c \in Profiles, NEW r \in Opened, Unrecorded(r, c)
             PROVE  c \in Backed'
  BY DEF Pending
<1>0. TypeOK /\ Contiguous /\ Position
  BY DEF IInv, Tables
<1>1. [Next]_vars
  BY DEF Next, Work
<1>2. r \in Opened' /\ runs'[r] = runs[r] /\ matches'[r] = matches[r] /\ lineage' = lineage
  <2>1. pc \notin {"idle", "create"} => r # me.run
    BY DEF CreateRun
  <2>2. QED
    BY <1>1, <2>1, OthersStay DEF CreateRun
<1>3. ~ IsLatest(r)'
  BY <1>1, LatestMoves
<1>4. Stranded(r, c)'
  BY <1>2, <1>3 DEF Stranded, Unrecorded, Unfinished
<1>5. QED
  BY <1>2, <1>4 DEF Backed

\* The evidence of a champion file written for a backed champion.
LEMMA PublishedIsBacked ==
  ASSUME IInv, Latest, [Next]_vars, NEW c \in Backed, published' = Published(c)
  PROVE  PublishedEvidence'
<1>1. published'.profile = c /\ published'.evidence = \E x \in lineage : x.champion = c
  BY DEF Published
<1>2. CASE c = Baseline
  BY <1>1, <1>2 DEF PublishedEvidence
<1>3. CASE \E x \in lineage : x.champion = c
  BY <1>1, <1>3 DEF PublishedEvidence
<1>4. CASE \E r \in Opened : Stranded(r, c)
  <2>1. \E r \in Opened' : Stranded(r, c)'
    BY <1>4, StrandedStays
  <2>2. QED
    BY <1>1, <2>1 DEF PublishedEvidence
<1>5. QED
  BY <1>2, <1>3, <1>4 DEF Backed

\* The active champion is the one of the latest run's row or what its match promoted:
\* either way it is accounted for.
LEMMA ActiveIsBacked ==
  ASSUME IInv, Latest, Trail, NEW r \in Opened, IsLatest(r)
  PROVE  active \in Profiles /\ active \in Backed \cup Pending
<1> DEFINE g == runs[r].generation
<1>0. TypeOK /\ Lineages /\ runs[r] # None
  BY DEF IInv, Tables, Opened
<1>1. Recent(r) /\ active \in Profiles
  BY <1>0, RecentIsProfile DEF Latest
<1>2. CASE active = runs[r].champion
  BY <1>1, <1>2 DEF Trail
<1>3. CASE active # runs[r].champion
  <2>1. /\ matches[r][g] # None /\ matches[r][g].promoted
        /\ matches[r][g].candidate = active
    BY <1>1, <1>3 DEF Recent
  <2>2. Unfinished(r)
    BY <1>0, <1>3 DEF Trail, Unfinished
  <2>3. CASE \E x \in lineage : x.run = r /\ x.generation = g
    <3>1. PICK x \in lineage : x.run = r /\ x.generation = g
      BY <2>3
    <3>2. x.champion = active
      BY <1>0, <2>1, <3>1, LineageFields
    <3>3. QED
      BY <1>1, <3>2 DEF Backed
  <2>4. CASE \A x \in lineage : ~ (x.run = r /\ x.generation = g)
    <3>1. Unrecorded(r, active)
      BY <2>1, <2>2, <2>4 DEF Unrecorded
    <3>2. QED
      BY <1>1, <3>1 DEF Pending
  <2>5. QED
    BY <2>3, <2>4
<1>4. QED
  BY <1>1, <1>2, <1>3

LEMMA TrailStep ==
  ASSUME AnyRun = FALSE, Handpicked = {}, IInv, Latest, Trail, [Next]_vars
  PROVE  Trail'
<1>0. TypeOK /\ Contiguous /\ Backed \subseteq Backed'
  BY BackedStays DEF IInv, Tables
<1>1. CASE StartRun
  <2>1. PICK c \in FirstChampion : active' = c /\ me' = [Nobody EXCEPT !.champion = c]
    BY <1>1 DEF StartRun
  <2>2. c = IF active = None THEN Baseline ELSE active
    BY <2>1 DEF FirstChampion
  <2>3. /\ pc' = "create" /\ me'.champion = c /\ Opened' = Opened
        /\ runs' = runs /\ lineage' = lineage /\ matches' = matches
    BY <1>1, <2>1 DEF StartRun, Nobody, Opened
  <2>4. CASE Opened = {}
    <3>1. c = Baseline
      BY <2>2, <2>4 DEF Trail
    <3>2. c \in Backed'
      BY <3>1, Bounds DEF Backed
    <3>3. QED
      BY <2>1, <2>3, <2>4, <3>1, <3>2 DEF Trail
  <2>5. CASE Opened # {}
    <3> DEFINE r == Cardinality(Opened)
    <3>1. IsLatest(r) /\ r \in Opened
      BY <1>0, <2>5, LatestRun DEF IsLatest, Opened
    <3>2. active \in Profiles /\ active \in Backed \cup Pending
      BY <3>1, ActiveIsBacked
    <3>3. c = active /\ active' = active
      BY <2>1, <2>2, <3>2, LeagueAssumption
    <3>4. Pending' = Pending
      BY <2>3 DEF Pending, IsLatest, Unrecorded, Unfinished
    <3>5. me'.champion \in Backed' \cup Pending'
      BY <1>0, <2>3, <3>2, <3>3, <3>4
    <3>6. QED
      BY <1>0, <2>3, <2>5, <3>3, <3>5 DEF Trail, IsLatest
  <2>6. QED
    BY <2>4, <2>5
<1>2. CASE CreateRun
  <2>1. PICK r \in Runs \ Opened :
           /\ runs' = [runs EXCEPT ![r] = [status |-> "running", champion |-> me.champion,
                                           generation |-> 1, version |-> version]]
           /\ r = Cardinality(Opened) + 1
           /\ Opened' = Opened \cup {r} /\ me' = [me EXCEPT !.run = r]
    BY <1>0, <1>2, NewRow DEF IInv
  <2>2. Opened = 1 .. Cardinality(Opened) /\ Cardinality(Opened) \in Nat
    BY <1>0, <1>2, FreshRun DEF CreateRun, IInv, Position
  <2>3. Cardinality(Opened') = r
    <3>1. Opened' = 1 .. r /\ r \in Nat
      BY <2>1, <2>2
    <3>2. QED
      BY <3>1, FS_Interval
  <2>4. /\ runs'[r].champion = me.champion /\ runs'[r].status = "running"
        /\ \A q \in Opened : runs'[q] = runs[q]
        /\ pc = "create" /\ me'.champion = me.champion /\ lineage' = lineage
        /\ active' = active
    <3>1. runs'[r] = [status |-> "running", champion |-> me.champion,
                      generation |-> 1, version |-> version]
      BY <1>0, <2>1 DEF TypeOK
    <3>2. \A q \in Opened : runs'[q] = runs[q]
      BY <1>0, <2>1 DEF TypeOK, Opened
    <3>3. me'.champion = me.champion
      BY <1>0, <2>1 DEF TypeOK, Local
    <3>4. QED
      BY <1>2, <3>1, <3>2, <3>3 DEF CreateRun
  <2>5. me.champion \in Backed'
    BY <1>0, <1>2, <2>4, PendingIsPassed DEF Trail
  <2>6. \A q \in Opened' : runs'[q].champion \in Backed'
    BY <1>0, <2>1, <2>4, <2>5 DEF Trail
  <2>7. pc' = "publish"
    BY <1>2 DEF CreateRun
  <2>8. QED
    BY <2>1, <2>3, <2>4, <2>5, <2>6, <2>7 DEF Trail, IsLatest
<1>3. ASSUME NEW r \in Runs, Resume(r)
      PROVE  Trail'
  <2>1. /\ Opened' = Opened /\ active' = active /\ runs' = runs /\ lineage' = lineage
        /\ r \in Opened
    BY <1>3 DEF Resume, Opened
  <2>2. ResumeAt(r)
    BY <1>3 DEF Resume, Continuable, Refresh
  <2>3. me'.champion = runs[r].champion
    BY <2>2, NobodyIsLocal DEF ResumeAt, Local
  <2>4. pc' = "publish"
    BY <2>2 DEF ResumeAt
  <2>5. QED
    BY <1>0, <2>1, <2>3, <2>4 DEF Trail, IsLatest
<1>4. CASE Publish \/ CreatePopulation \/ Schedule \/ Replace \/ (\E k \in Pairs : SaveGame(k))
           \/ SaveMatch \/ Breed
  <2>1. /\ active' = active /\ runs' = runs /\ lineage' = lineage
        /\ pc \notin {"idle", "create", "lineage"} /\ pc' # "create"
    BY <1>4 DEF Publish, CreatePopulation, Schedule, Loaded, Replace, SaveGame, Saved, SaveMatch,
       Played, Breed, tables
  <2>2. me'.champion = me.champion
    BY <1>0, <1>4 DEF Publish, CreatePopulation, Schedule, Replace, SaveGame, Saved, SaveMatch,
       Breed, TypeOK, Local
  <2>3. QED
    BY <1>0, <2>1, <2>2 DEF Trail, IsLatest, Opened
<1>5. CASE NoFinalist \/ NeedsResume \/ Complete
  <2>1. /\ active' = active /\ matches' = matches /\ me' = me /\ pc' = "finish"
        /\ pc \in {"generation", "play", "breed"} /\ lineage' = lineage
    BY <1>5 DEF NoFinalist, Loaded, NeedsResume, Played, Complete
  <2>2. /\ me.run \in Opened /\ me.run \in Runs /\ me.generation \in Gens
        /\ me.champion \in Profiles /\ runs[me.run].generation = me.generation
        /\ IsLatest(me.run) /\ Recent(me.run) /\ me.champion \in Backed
    BY <2>1, Standing DEF InRun, Latest, Trail
  <2>3. PICK s \in Statuses :
          /\ Set(me.run, s, me.generation, me.champion)
          /\ s = "complete" => pc \in {"generation", "breed"} /\ ~ NeedsResume
    BY <1>5 DEF NoFinalist, Loaded, NeedsResume, Played, Complete, Statuses
  <2>4. /\ Opened' = Opened /\ runs'[me.run].champion = me.champion
        /\ runs'[me.run].status = s /\ \A q \in Runs \ {me.run} : runs'[q] = runs[q]
    BY <1>0, <2>2, <2>3, SetType
  <2>5. s = "complete" => active = me.champion
    <3> SUFFICES ASSUME s = "complete"
                 PROVE  active = me.champion
      OBVIOUS
    <3>1. CASE pc = "breed"
      BY <3>1 DEF Latest
    <3>2. CASE pc = "generation"
      <4>1. /\ population[me.run][me.generation].challenger = None
            /\ me.champion = runs[me.run].champion
        BY <1>5, <2>3, <3>2 DEF NoFinalist, NeedsResume, Complete, IInv, Position
      <4>2. matches[me.run][me.generation] = None
        <5>1. matches[me.run][me.generation] # None =>
                matches[me.run][me.generation] \in Match
                /\ matches[me.run][me.generation].candidate = None
          BY <2>2, <4>1, AgreesFields DEF IInv, Tables
        <5>2. QED
          BY <5>1, LeagueAssumption DEF Match
      <4>3. QED
        BY <2>2, <4>1, <4>2 DEF Recent
    <3>3. QED
      BY <2>3, <3>1, <3>2
  <2>6. QED
    BY <1>0, <2>1, <2>2, <2>4, <2>5 DEF Trail, IsLatest, Opened
<1>6. CASE Crown
  <2>1. /\ pc = "crown" /\ pc' = "lineage" /\ runs' = runs /\ lineage' = lineage
        /\ Opened' = Opened
    BY <1>6 DEF Crown, Opened
  <2>2. me.run \in Opened /\ Unfinished(me.run) /\ IsLatest(me.run)
    BY <2>1, MatchOfMe DEF Decider, Latest
  <2>3. \A r \in Opened : IsLatest(r) => runs[r].status # "complete"
    BY <2>2 DEF IsLatest, Unfinished
  <2>4. QED
    BY <1>0, <2>1, <2>2, <2>3 DEF Trail, IsLatest
<1>7. CASE RecordLineage
  <2>1. /\ active' = active /\ runs' = runs /\ me' = me /\ pc = "lineage" /\ Opened' = Opened
    BY <1>7 DEF RecordLineage, Opened
  <2>2. matches[me.run][me.generation].candidate = me.candidate /\ me.champion = me.candidate
    BY <2>1, MatchOfMe DEF Decider, IInv, Position
  <2>3. \E x \in lineage' : x.champion = me.champion
    <3>1. CASE \E x \in lineage : x.run = me.run /\ x.generation = me.generation
      <4>1. PICK x \in lineage : x.run = me.run /\ x.generation = me.generation
        BY <3>1
      <4>2. matches[x.run][x.generation].candidate = x.champion
        BY <1>0, LineageFields DEF IInv, Tables
      <4>3. lineage' = lineage
        BY <1>7, <3>1 DEF RecordLineage
      <4>4. QED
        BY <2>2, <4>1, <4>2, <4>3
    <3>2. CASE \A x \in lineage : ~ (x.run = me.run /\ x.generation = me.generation)
      <4> DEFINE row == [run |-> me.run, generation |-> me.generation,
                         previous |-> me.opponent, champion |-> me.champion]
      <4>1. row \in lineage' /\ row.champion = me.champion
        BY <1>7, <3>2 DEF RecordLineage
      <4>2. QED
        BY <4>1
    <3>3. QED
      BY <3>1, <3>2
  <2>4. me.champion \in Profiles /\ pc' = "breed"
    BY <1>7, <2>1 DEF RecordLineage, IInv, Position
  <2>5. me.champion \in Backed'
    BY <2>3, <2>4 DEF Backed
  <2>6. QED
    BY <1>0, <2>1, <2>4, <2>5 DEF Trail, IsLatest
<1>8. CASE Advance
  <2>1. /\ active' = active /\ pc = "advance" /\ pc' = "publish" /\ lineage' = lineage
        /\ Set(me.run, "running", me.generation + 1, me.champion)
        /\ me' = [Nobody EXCEPT !.run = me.run, !.champion = me.champion,
                                !.generation = me.generation + 1]
    BY <1>8 DEF Advance
  <2>2. me'.champion = me.champion
    BY <2>1, NobodyIsLocal DEF Local
  <2>3. /\ me.run \in Opened /\ me.run \in Runs /\ me.champion \in Profiles
        /\ me.generation \in Gens /\ IsLatest(me.run) /\ me.champion \in Backed
    BY <2>1, Standing DEF InRun, Latest, Trail
  <2>4. me.generation + 1 \in Gens
    BY <2>1, <2>3, Bounds DEF IInv, Position, Gens
  <2>5. /\ Opened' = Opened /\ runs'[me.run].champion = me.champion
        /\ runs'[me.run].status = "running"
        /\ \A q \in Runs \ {me.run} : runs'[q] = runs[q]
    BY <1>0, <2>1, <2>3, <2>4, SetType DEF Statuses
  <2>6. QED
    BY <1>0, <2>1, <2>2, <2>3, <2>5 DEF Trail, IsLatest, Opened
<1>9. CASE Finish \/ Crash \/ Upgrade
  <2>1. UNCHANGED <<active, runs, lineage>> /\ pc' = "idle"
    BY <1>9 DEF Finish, Crash, Upgrade, tables
  <2>2. QED
    BY <1>0, <2>1 DEF Trail, IsLatest, Opened
<1>10. CASE UNCHANGED vars
  <2>1. Pending' = Pending /\ UNCHANGED <<active, runs, pc, me>>
    BY <1>10 DEF vars, Pending, IsLatest, Unrecorded, Unfinished, Opened
  <2>2. QED
    BY <1>0, <2>1 DEF Trail, IsLatest, Opened
<1>11. QED
  BY <1>1, <1>2, <1>3, <1>4, <1>5, <1>6, <1>7, <1>8, <1>9, <1>10 DEF Next, Launch, Work

\* The champion file carries the match that promoted its profile, although the active
\* champion is set one commit before its lineage row, or names what a run promoted that
\* was stopped between the two and passed over after a change of the engine.
THEOREM EvidencePublished ==
  ASSUME AnyRun = FALSE, Handpicked = {}
  PROVE  Spec => []PublishedEvidence
<1>1. Init => Trail /\ PublishedEvidence
  BY DEF Init, Trail, Opened, PublishedEvidence
<1>2. IInv /\ Latest /\ Trail /\ [Next]_vars => Trail'
  BY TrailStep
<1>3. IInv /\ Latest /\ Trail /\ PublishedEvidence /\ [Next]_vars => PublishedEvidence'
  <2> SUFFICES ASSUME IInv, Latest, Trail, PublishedEvidence, [Next]_vars
               PROVE  PublishedEvidence'
    OBVIOUS
  <2>1. ASSUME published' = published
        PROVE  PublishedEvidence'
    <3>1. \A r \in Opened : Stranded(r, published.profile)
            => r \in Opened' /\ Stranded(r, published.profile)'
      <4> SUFFICES ASSUME NEW r \in Opened, NEW c, c = published.profile, Stranded(r, c)
                   PROVE  r \in Opened' /\ Stranded(r, published.profile)'
        OBVIOUS
      <4>1. r \in Opened' /\ Stranded(r, c)'
        BY StrandedStays
      <4>2. QED
        BY <2>1, <4>1 DEF Stranded, Unrecorded
    <3>2. QED
      BY <2>1, <3>1 DEF PublishedEvidence
  <2>2. ASSUME NEW c \in Backed, published' = Published(c)
        PROVE  PublishedEvidence'
    BY <2>2, PublishedIsBacked
  <2>3. CASE Publish \/ Finish
    <3>1. published' = Published(me.champion) /\ pc \notin {"idle", "create", "lineage"}
      BY <2>3 DEF Publish, Finish
    <3>2. QED
      BY <2>2, <3>1 DEF Trail
  <2>4. ASSUME NEW r \in Runs, Resume(r)
        PROVE  PublishedEvidence'
    <3>1. r \in Opened /\ (published' = published \/ published' = Published(runs[r].champion))
      BY <2>4 DEF Resume, ResumeAt, Refresh
    <3>2. QED
      BY <2>1, <2>2, <3>1 DEF Trail
  <2>5. CASE ~ Publish /\ ~ Finish /\ \A r \in Runs : ~ Resume(r)
    <3>1. published' = published
      BY <2>5 DEF Next, Launch, Work, vars, tables, StartRun, CreateRun,
         CreatePopulation, NoFinalist, Schedule, SaveGame, Saved, Replace, NeedsResume, SaveMatch,
         Crown, RecordLineage, Breed, Advance, Complete, Crash, Upgrade
    <3>2. QED
      BY <2>1, <3>1
  <2>6. QED
    BY <2>3, <2>4, <2>5
<1>4. QED
  BY <1>1, <1>2, <1>3, TablesFit, LatestHolds, PTL DEF Spec
=============================================================================
