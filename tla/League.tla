------------------------------- MODULE League -------------------------------
(***************************************************************************)
(* league.run_league and league.LeagueStore: evolution of the engine       *)
(* profile in runs of generations.  A generation plays one promotion match *)
(* between the challenger its preselection names and the run's champion;   *)
(* the winner is crowned, the next population is bred from it and the      *)
(* champion file is published.  Everything but the champion file is in one *)
(* SQLite database and each method of LeagueStore commits on its own, so a *)
(* step here is one commit (or one replacement of the file), and the       *)
(* process can be killed between any two of them.  One process runs at a   *)
(* time, as train-engine.cmd has it; nothing in the code enforces that.    *)
(*                                                                         *)
(* A pair is an opening boundary played twice with colours swapped; its    *)
(* row stands for the two games.  Profiles, seeds, openings, traces and    *)
(* the resource budget are abstracted.  The challenger of a population is  *)
(* drawn when the population is saved: preselection is a function of it.   *)
(***************************************************************************)
EXTENDS Naturals, FiniteSets

CONSTANTS Profiles,         \* engine profiles
          Baseline,         \* baseline_profile()
          Sound,            \* profiles that pass the rules/tactical gate
          Handpicked,       \* profiles an operator passes as --champion-profile
          MaxRuns,          \* bound on the runs of the database
          Generations,      \* config.generations
          BasePairs,        \* config.promotion_games \div 2
          ReplacementPairs, \* config.max_replacement_games \div 2
          MinimumPairs,     \* config.minimum_promotion_games \div 2
          RequiredWins,     \* required_pair_wins
          Results,          \* results a pair of games may have
          Versions,         \* number of engine source fingerprints
          MaxFaults,        \* bound on crashes and worker exceptions
          AnyRun,           \* whether the operator may use --resume and may
                            \* start a run before the latest one is complete
          None

ASSUME LeagueAssumption ==
  /\ Baseline \in Profiles
  /\ Sound \subseteq Profiles
  /\ Handpicked \subseteq Profiles
  /\ None \notin Profiles
  /\ MaxRuns \in Nat \ {0}
  /\ Generations \in Nat \ {0}
  /\ BasePairs \in Nat \ {0}
  /\ ReplacementPairs \in Nat
  /\ MinimumPairs \in Nat \ {0}
  /\ RequiredWins \in 1 .. MinimumPairs
  /\ Results \subseteq {"win", "draw", "loss", "open", "fault"}
  /\ Versions \in Nat \ {0}
  /\ MaxFaults \in Nat
  /\ AnyRun \in BOOLEAN

Runs == 1 .. MaxRuns
Gens == 1 .. Generations
Pairs == 1 .. BasePairs + ReplacementPairs

TargetPairs == IF BasePairs > MinimumPairs THEN BasePairs ELSE MinimumPairs

VARIABLES active,      \* league_metadata.active_champion_profile_id
          published,   \* the champion file: the profile and whether its
                       \* provenance holds the promotion of that profile
          runs,        \* table runs
          population,  \* table run_population, and the finalist it leads to
          games,       \* table games, promotion stages only
          matches,     \* table matches
          lineage,     \* table champion_lineage
          version,     \* ENGINE_SOURCE_FINGERPRINT of the installed engine
          faults,      \* crashes and worker exceptions so far
          pc,          \* where the process is
          me           \* its local variables

tables == <<active, runs, population, games, matches, lineage>>
vars   == <<active, published, runs, population, games, matches, lineage,
            version, faults, pc, me>>

-----------------------------------------------------------------------------
(* Data. *)

Statuses == {"running", "needs-resume", "complete"}

Run == [status : Statuses, champion : Profiles, generation : Gens,
        version : 1 .. Versions]

Population == [champion : Profiles, challenger : Profiles \cup {None}]

\* A pair is decided when both its games have a result; it is open when one
\* ended "*", a fault when that is the candidate's failure, failed when a
\* worker raised.
Decided == {"win", "draw", "loss"}
Rows    == Decided \cup {"missing", "half", "open", "fault", "failed"}

Match   == [candidate : Profiles, opponent : Profiles, promoted : BOOLEAN]
Lineage == [run : Runs, generation : Gens, previous : Profiles, champion : Profiles]

ASSUME MarkAssumption == None \notin Run \cup Population \cup Match

Local == [run : Runs \cup {None}, generation : Gens,
          champion : Profiles \cup {None}, candidate : Profiles \cup {None},
          opponent : Profiles \cup {None}, index : 0 .. ReplacementPairs,
          todo : SUBSET Pairs]

Nobody == [run |-> None, generation |-> 1, champion |-> None, candidate |-> None,
           opponent |-> None, index |-> 0, todo |-> {}]

TypeOK ==
  /\ active \in Profiles \cup {None}
  /\ published \in [profile : Profiles, evidence : BOOLEAN] \cup {None}
  /\ runs \in [Runs -> Run \cup {None}]
  /\ population \in [Runs -> [Gens -> Population \cup {None}]]
  /\ games \in [Runs -> [Gens -> [Pairs -> Rows]]]
  /\ matches \in [Runs -> [Gens -> Match \cup {None}]]
  /\ lineage \subseteq Lineage
  /\ version \in 1 .. Versions
  /\ faults \in 0 .. MaxFaults
  /\ pc \in {"idle", "create", "publish", "generation", "play", "crown",
             "lineage", "breed", "advance", "finish"}
  /\ me \in Local

-----------------------------------------------------------------------------
(* Pure parts: the jobs still to run and the evidence of a match. *)

\* Mutants: resuming replays every job, or takes a failed one for done.
UnplayedAll(r, g, S) == S
UnplayedMissing(r, g, S) == {k \in S : games[r][g][k] \in {"missing", "half"}}

\* Pairs of S with a job that is not in completed_job_keys.
Unplayed(r, g, S) == {k \in S : games[r][g][k] \in {"missing", "half", "failed"}}

CompletedPairs(r, g) == {k \in Pairs : games[r][g][k] \in Decided}

\* _pair_evidence keeps the first TargetPairs completed pairs, in suite order.
Counted(r, g) ==
  {k \in CompletedPairs(r, g) :
     Cardinality({j \in CompletedPairs(r, g) : j < k}) < TargetPairs}

Tally(r, g, x) == Cardinality({k \in Counted(r, g) : games[r][g][k] = x})

CandidateFailures(r, g) == {k \in Pairs : games[r][g][k] = "fault"}
WorkerFailures(r, g)    == {k \in Pairs : games[r][g][k] = "failed"}

\* promotion_decision(...).promoted: no reason against it.
Promotes(w, d, l, failures, gate) ==
  /\ gate
  /\ failures = 0
  /\ w + d + l >= MinimumPairs
  /\ 2 * w + d > w + d + l
  /\ w >= RequiredWins
  /\ l = 0

Verdict(r, g, candidate) ==
  Promotes(Tally(r, g, "win"), Tally(r, g, "draw"), Tally(r, g, "loss"),
           Cardinality(CandidateFailures(r, g)), candidate \in Sound)

-----------------------------------------------------------------------------
(* Starting. *)

Opened == {r \in Runs : runs[r] # None}
Unfinished(r) == runs[r] # None /\ runs[r].status # "complete"

\* latest_run_id is the run opened last; --continue-latest resumes it.
IsLatest(r) == r \in Opened /\ r = Cardinality(Opened)
Continuable(r) == IsLatest(r) /\ Unfinished(r) /\ runs[r].version = version

\* Mutant: a new run starts from the baseline.
FirstChampionBaseline == {Baseline} \cup Handpicked

FirstChampion == {IF active = None THEN Baseline ELSE active} \cup Handpicked

\* A new run: the champion is made active before the run exists.
StartRun ==
  /\ pc = "idle"
  /\ Cardinality(Opened) < MaxRuns
  /\ AnyRun \/ \A r \in Runs : ~ Continuable(r)
  /\ \E c \in FirstChampion :
       /\ active' = c
       /\ me' = [Nobody EXCEPT !.champion = c]
  /\ pc' = "create"
  /\ UNCHANGED <<published, runs, population, games, matches, lineage, version, faults>>

CreateRun ==
  /\ pc = "create"
  /\ LET r == Cardinality(Opened) + 1 IN
       /\ runs' = [runs EXCEPT ![r] = [status |-> "running", champion |-> me.champion,
                                       generation |-> 1, version |-> version]]
       /\ me' = [me EXCEPT !.run = r]
  /\ pc' = "publish"
  /\ UNCHANGED <<active, published, population, games, matches, lineage, version, faults>>

\* The champion file and its provenance.
Published(c) ==
  [profile |-> c, evidence |-> \E x \in lineage : x.champion = c]

\* Mutant: the champion of a resumed run is the active one.
ResumeAtActive(r) ==
  /\ Unfinished(r)
  /\ me' = [Nobody EXCEPT !.run = r, !.generation = runs[r].generation,
                          !.champion = active]
  /\ pc' = "publish"
  /\ published' = published

\* Resuming an unfinished run.
ResumeAt(r) ==
  /\ Unfinished(r)
  /\ me' = [Nobody EXCEPT !.run = r, !.generation = runs[r].generation,
                          !.champion = runs[r].champion]
  /\ pc' = "publish"
  /\ published' = published

\* Resuming a complete run only refreshes the champion file.
Refresh(r) ==
  /\ ~ Unfinished(r)
  /\ published' = Published(runs[r].champion)
  /\ UNCHANGED <<pc, me>>

Resume(r) ==
  /\ pc = "idle"
  /\ r \in Opened
  /\ runs[r].version = version
  /\ AnyRun \/ Continuable(r)
  /\ ResumeAt(r) \/ Refresh(r)
  /\ UNCHANGED <<active, runs, population, games, matches, lineage, version, faults>>

Publish ==
  /\ pc = "publish"
  /\ published' = Published(me.champion)
  /\ pc' = "generation"
  /\ UNCHANGED <<active, runs, population, games, matches, lineage, version, faults, me>>

-----------------------------------------------------------------------------
(* A generation. *)

\* UPDATE runs ... by update_run.
Set(r, status, g, champion) ==
  runs' = [runs EXCEPT ![r] = [status |-> status, generation |-> g,
                               champion |-> champion, version |-> runs[r].version]]

\* Challengers a population around champion may lead to; None when nobody
\* passes preselection.
Challengers(champion) == (Profiles \ {champion}) \cup {None}

Populate(r, g, champion) ==
  \E x \in Challengers(champion) :
    population' = [population EXCEPT ![r][g] = [champion |-> champion, challenger |-> x]]

CreatePopulation ==
  /\ pc = "generation"
  /\ population[me.run][me.generation] = None
  /\ Populate(me.run, me.generation, me.champion)
  /\ UNCHANGED <<active, published, runs, games, matches, lineage, version, faults, pc, me>>

\* The persisted population is the one of this champion; population() raises
\* otherwise.
Loaded ==
  /\ pc = "generation"
  /\ population[me.run][me.generation] # None
  /\ population[me.run][me.generation].champion = me.champion

NoFinalist ==
  /\ Loaded
  /\ population[me.run][me.generation].challenger = None
  /\ Set(me.run, "complete", me.generation, me.champion)
  /\ pc' = "finish"
  /\ UNCHANGED <<active, published, population, games, matches, lineage, version, faults, me>>

Schedule ==
  /\ Loaded
  /\ population[me.run][me.generation].challenger # None
  /\ me' = [me EXCEPT !.candidate = population[me.run][me.generation].challenger,
                      !.opponent = me.champion,
                      !.index = 0,
                      !.todo = Unplayed(me.run, me.generation, 1 .. BasePairs)]
  /\ pc' = "play"
  /\ UNCHANGED <<published, version, faults>>
  /\ UNCHANGED tables

\* save_game: the row of a job is inserted, or overwritten.
Saved(r, g, k, x) == games' = [games EXCEPT ![r][g][k] = x]

\* The games of a pair are saved one by one, in the order workers finish; the
\* first leaves the pair half played.  A worker exception is saved as a row.
SaveGame(k) ==
  /\ pc = "play"
  /\ k \in me.todo
  /\ \E x \in Results \cup {"half", "failed"} :
       /\ x = "half" => games[me.run][me.generation][k] # "half"
       /\ x = "failed" => faults < MaxFaults
       /\ Saved(me.run, me.generation, k, x)
       /\ faults' = IF x = "failed" THEN faults + 1 ELSE faults
       /\ me' = [me EXCEPT !.todo = IF x = "half" THEN @ ELSE @ \ {k}]
  /\ UNCHANGED <<active, published, runs, population, matches, lineage, version, pc>>

Wants(r, g) ==
  /\ WorkerFailures(r, g) = {}
  /\ Cardinality(Counted(r, g)) < TargetPairs
  /\ me.index < ReplacementPairs

\* The next replacement pair, while pairs are lacking.
Replace ==
  /\ pc = "play"
  /\ me.todo = {}
  /\ Wants(me.run, me.generation)
  /\ me' = [me EXCEPT !.index = @ + 1,
                      !.todo = Unplayed(me.run, me.generation, {BasePairs + me.index + 1})]
  /\ UNCHANGED <<published, version, faults, pc>>
  /\ UNCHANGED tables

Played ==
  /\ pc = "play"
  /\ me.todo = {}
  /\ ~ Wants(me.run, me.generation)

NeedsResume ==
  /\ Played
  /\ WorkerFailures(me.run, me.generation) # {}
  /\ Set(me.run, "needs-resume", me.generation, me.champion)
  /\ pc' = "finish"
  /\ UNCHANGED <<active, published, population, games, matches, lineage, version, faults, me>>

\* Mutant: rows of failed workers do not hold the decision back.
SaveMatchAnyway ==
  /\ Played
  /\ LET promoted == Verdict(me.run, me.generation, me.candidate) IN
       /\ matches' = [matches EXCEPT ![me.run][me.generation] =
                        [candidate |-> me.candidate, opponent |-> me.opponent,
                         promoted |-> promoted]]
       /\ pc' = IF promoted THEN "crown" ELSE "breed"
  /\ UNCHANGED <<active, published, runs, population, games, lineage, version, faults, me>>

SaveMatch ==
  /\ Played
  /\ WorkerFailures(me.run, me.generation) = {}
  /\ LET promoted == Verdict(me.run, me.generation, me.candidate) IN
       /\ matches' = [matches EXCEPT ![me.run][me.generation] =
                        [candidate |-> me.candidate, opponent |-> me.opponent,
                         promoted |-> promoted]]
       /\ pc' = IF promoted THEN "crown" ELSE "breed"
  /\ UNCHANGED <<active, published, runs, population, games, lineage, version, faults, me>>

\* set_active_champion, then record_lineage.
Crown ==
  /\ pc = "crown"
  /\ active' = me.candidate
  /\ me' = [me EXCEPT !.champion = me.candidate]
  /\ pc' = "lineage"
  /\ UNCHANGED <<published, runs, population, games, matches, lineage, version, faults>>

\* INSERT OR IGNORE: the first row of a generation stays.
RecordLineage ==
  /\ pc = "lineage"
  /\ lineage' =
       IF \E x \in lineage : x.run = me.run /\ x.generation = me.generation
       THEN lineage
       ELSE lineage \cup {[run |-> me.run, generation |-> me.generation,
                           previous |-> me.opponent, champion |-> me.champion]}
  /\ pc' = "breed"
  /\ UNCHANGED <<active, published, runs, population, games, matches, version, faults, me>>

\* Mutant: the next population is bred around the champion that was just beaten.
BreedStale ==
  /\ pc = "breed"
  /\ me.generation < Generations
  /\ Populate(me.run, me.generation + 1, me.opponent)
  /\ pc' = "advance"
  /\ UNCHANGED <<active, published, runs, games, matches, lineage, version, faults, me>>

\* The next population replaces the one an interrupted attempt left.
Breed ==
  /\ pc = "breed"
  /\ me.generation < Generations
  /\ Populate(me.run, me.generation + 1, me.champion)
  /\ pc' = "advance"
  /\ UNCHANGED <<active, published, runs, games, matches, lineage, version, faults, me>>

Complete ==
  /\ pc = "breed"
  /\ me.generation = Generations
  /\ Set(me.run, "complete", me.generation, me.champion)
  /\ pc' = "finish"
  /\ UNCHANGED <<active, published, population, games, matches, lineage, version, faults, me>>

\* Mutant: the generation advances but the row keeps the old champion.
AdvanceStale ==
  /\ pc = "advance"
  /\ Set(me.run, "running", me.generation + 1, me.opponent)
  /\ me' = [Nobody EXCEPT !.run = me.run, !.champion = me.champion,
                          !.generation = me.generation + 1]
  /\ pc' = "publish"
  /\ UNCHANGED <<active, published, population, games, matches, lineage, version, faults>>

Advance ==
  /\ pc = "advance"
  /\ Set(me.run, "running", me.generation + 1, me.champion)
  /\ me' = [Nobody EXCEPT !.run = me.run, !.champion = me.champion,
                          !.generation = me.generation + 1]
  /\ pc' = "publish"
  /\ UNCHANGED <<active, published, population, games, matches, lineage, version, faults>>

\* The last publish of run_league.
Finish ==
  /\ pc = "finish"
  /\ published' = Published(me.champion)
  /\ pc' = "idle"
  /\ me' = Nobody
  /\ UNCHANGED <<active, runs, population, games, matches, lineage, version, faults>>

-----------------------------------------------------------------------------
(* Failures and the specification. *)

\* The window is closed, or a step raises: what is committed stays.
Crash ==
  /\ pc # "idle"
  /\ faults < MaxFaults
  /\ faults' = faults + 1
  /\ pc' = "idle"
  /\ me' = Nobody
  /\ UNCHANGED <<published, version>>
  /\ UNCHANGED tables

\* The engine's source changes, perhaps back to what it was: the fingerprint is of
\* its content.  Runs of another one cannot be resumed.
Upgrade ==
  /\ pc = "idle"
  /\ \E v \in (1 .. Versions) \ {version} : version' = v
  /\ UNCHANGED <<published, faults, pc, me>>
  /\ UNCHANGED tables

Init ==
  /\ active = None
  /\ published = None
  /\ runs = [r \in Runs |-> None]
  /\ population = [r \in Runs |-> [g \in Gens |-> None]]
  /\ games = [r \in Runs |-> [g \in Gens |-> [k \in Pairs |-> "missing"]]]
  /\ matches = [r \in Runs |-> [g \in Gens |-> None]]
  /\ lineage = {}
  /\ version = 1
  /\ faults = 0
  /\ pc = "idle"
  /\ me = Nobody

Launch == StartRun \/ \E r \in Runs : Resume(r)

Work ==
  \/ CreateRun \/ Publish \/ CreatePopulation \/ NoFinalist \/ Schedule
  \/ \E k \in Pairs : SaveGame(k)
  \/ Replace \/ NeedsResume \/ SaveMatch \/ Crown \/ RecordLineage
  \/ Breed \/ Advance \/ Complete \/ Finish

Next == Launch \/ Work \/ Crash \/ Upgrade

Spec == Init /\ [][Next]_vars

\* The process goes on, and after a crash train-engine.cmd is started again.
FairSpec == Spec /\ WF_vars(Work) /\ WF_vars(Launch)

-----------------------------------------------------------------------------
(* Properties. *)

\* A resumed run is never refused by population(): whatever commit the last
\* attempt stopped after, the population saved for the generation in the
\* run's row, if any, is the one of the champion in the same row.
ResumeNeverRefused ==
  /\ \A r \in Opened :
       population[r][runs[r].generation] # None /\ Unfinished(r)
         => population[r][runs[r].generation].champion = runs[r].champion
  /\ pc = "generation" /\ population[me.run][me.generation] # None
       => population[me.run][me.generation].champion = me.champion

\* The games behind a decision, told from the rows alone: up to some pair of
\* the suite enough pairs are decided, enough are won and none is lost.
Earned(r, g) ==
  /\ \A k \in Pairs : games[r][g][k] \notin {"fault", "failed"}
  /\ \E n \in Pairs :
       LET Among(S) == {k \in 1 .. n : games[r][g][k] \in S} IN
         /\ Cardinality(Among(Decided)) >= MinimumPairs
         /\ Cardinality(Among({"win"})) >= RequiredWins
         /\ Among({"loss"}) = {}

\* A promoted match, and every champion of the lineage, is backed by rows of
\* the games table that meet the contract, however often the generation was
\* interrupted, retried or replayed.
PromotionsEarned ==
  /\ \A r \in Runs, g \in Gens :
       matches[r][g] # None /\ matches[r][g].promoted
         => Earned(r, g) /\ matches[r][g].candidate \in Sound
  /\ \A x \in lineage :
       matches[x.run][x.generation] =
         [candidate |-> x.champion, opponent |-> x.previous, promoted |-> TRUE]

\* A run's row and the lineage tell one story: the champion in the row is the
\* one the lineage crowned in the run's last settled generation, or the one
\* that generation started with when it crowned nobody.
RunFollowsLineage ==
  \A r \in Opened, g \in Gens :
    g < runs[r].generation =>
      LET crowned == {x.champion : x \in {y \in lineage : y.run = r /\ y.generation = g}} IN
        IF crowned = {}
        THEN population[r][g + 1].champion = population[r][g].champion
        ELSE crowned = {population[r][g + 1].champion}

\* A generation is decided once: a resumed run that replays it comes to the
\* same match, although worker exceptions and crashes may differ.
DecisionStable ==
  [][\A r \in Runs, g \in Gens :
       matches[r][g] # None => matches'[r][g] = matches[r][g]]_vars

\* A decided game is never played again.
ResultsKept ==
  [][\A r \in Runs, g \in Gens, k \in Pairs :
       games[r][g][k] \in Decided \cup {"open", "fault"}
         => games'[r][g][k] = games[r][g][k]]_vars

\* A profile that replaces the active champion beat it in a match (README: "a
\* challenger becomes the one board champion only after ...").
ChampionBeaten ==
  [][active' # active /\ active # None =>
       \E r \in Runs, g \in Gens :
         matches[r][g] = [candidate |-> active', opponent |-> active,
                          promoted |-> TRUE]]_vars

\* A run whose match promoted c and that has no lineage row of it yet.
Unrecorded(r, c) ==
  /\ Unfinished(r)
  /\ matches[r][runs[r].generation] # None
  /\ matches[r][runs[r].generation].promoted
  /\ matches[r][runs[r].generation].candidate = c
  /\ \A x \in lineage : ~ (x.run = r /\ x.generation = runs[r].generation)

\* Such a run that --continue-latest passed over because the engine had changed.
Stranded(r, c) == Unrecorded(r, c) /\ ~ IsLatest(r)

\* The champion file carries the match that promoted its profile, though the
\* active champion is set one commit before the lineage row, with one exception:
\* a run stopped between the two commits and passed over after an engine change.
\* Its match is stored, but nobody ever writes the row.
PublishedEvidence ==
  published # None /\ published.profile # Baseline /\ ~ published.evidence
    => \E r \in Opened : Stranded(r, published.profile)

\* A replacement pair that ended in a worker exception.
LostReplacement ==
  \E r \in Runs, g \in Gens, k \in Pairs : k > BasePairs /\ games[r][g][k] = "failed"

\* The run that --continue-latest goes on with completes, however often the window
\* is closed, unless a worker fails in a replacement pair or the engine changes.
RunsComplete ==
  \A r \in Runs :
    Continuable(r) ~>
      LostReplacement \/ (r \in Opened /\ (runs[r].status = "complete" \/ runs[r].version # version))

\* "resume will retry the affected job" (the reason stored with needs-resume).
FailedJobRetried ==
  \A r \in Runs, g \in Gens, k \in Pairs :
    games[r][g][k] = "failed" ~> games[r][g][k] # "failed"
=============================================================================
