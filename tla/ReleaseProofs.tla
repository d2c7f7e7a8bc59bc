---------------------------- MODULE ReleaseProofs ----------------------------
(***************************************************************************)
(* Proofs about Release, for any packages and any number of commits.  The  *)
(* invariant carries what the repairs and the re-runs rely on: a job past  *)
(* its publish step has its version on npm, a run is of a commit on main,  *)
(* and what a backfill holds in its hands is on npm, however old the look. *)
(***************************************************************************)
EXTENDS Release, WellFoundedInduction, TLAPS

\* No version number outruns the commits.
Numbered == \A c \in 1..Len(main), p \in Packages : main[c][p] <= c

OnMain(r) == r = NoRun \/ (r.mode # "none" /\ r.commit \in 1..Len(main))

JobsOnMain ==
    \A c \in Commits, p \in Packages :
        /\ jobs[c][p] # "undetected" => c \in 1..Len(main)
        /\ jobs[c][p] \in {"tag", "release"} => published[p][VersionAt(c, p)] # 0

HygieneOnMain ==
    hygiene.step # "idle" =>
        /\ hygiene.head \in 1..Len(main)
        /\ hygiene.step = "backfill" =>
              \A p \in Packages : hygiene.found[p] \subseteq On(published, p)

RelInv ==
    /\ TypeOK
    /\ Numbered /\ OnMain(run) /\ OnMain(pending) /\ JobsOnMain /\ HygieneOnMain
    /\ NoOrphans /\ TagsCarryVersion

-----------------------------------------------------------------------------
(* Lemmas on the state.                                                    *)

LEMMA NoRunType == NoRun \in Runs
BY MaxCommitsAssumption DEF NoRun, RunOf, Runs

\* A commit on main has a version, and so has a commit that runs.
LEMMA VersionType ==
    ASSUME TypeOK, NEW c \in 1..Len(main), NEW p \in Packages
    PROVE  c \in Commits /\ VersionAt(c, p) \in Versions
<1>1. c \in Commits
  BY MaxCommitsAssumption DEF TypeOK, Commits
<1>2. main[c] \in [Packages -> Versions]
  BY DEF TypeOK
<1> QED BY <1>1, <1>2 DEF VersionAt

LEMMA RunType ==
    ASSUME TypeOK, OnMain(run), run.mode # "none"
    PROVE  run.commit \in 1..Len(main) /\ run.commit \in Commits
BY VersionType, MaxCommitsAssumption DEF OnMain, NoRun, RunOf, TypeOK, Commits

\* findCommitForVersion() answers with a commit of the checkout that has
\* the version.
LEMMA FoundCommit ==
    ASSUME TypeOK, hygiene \in HygieneRuns, NEW p, NEW v, CommitsOf(p, v) # {}
    PROVE  CommitForVersion(p, v) \in CommitsOf(p, v)
<1>1. CommitsOf(p, v) \subseteq Nat
  BY MaxCommitsAssumption DEF CommitsOf, HygieneRuns, Commits
<1> DEFINE Less == {ss \in Nat \X Nat : ss[1] < ss[2]}
<1>2. IsWellFoundedOn(Less, Nat)
  <2>1. OpToRel(<, Nat) = Less
    BY Zenon DEF OpToRel
  <2> QED BY <2>1, NatLessThanWellFounded, Zenon
<1>3. PICK c \in CommitsOf(p, v) : \A d \in CommitsOf(p, v) : <<d, c>> \notin Less
  <2> HIDE DEF Less
  <2> QED BY <1>1, <1>2, WFMin
<1>4. \A d \in CommitsOf(p, v) : c <= d
  <2>1. \A x, y \in Nat : <<x, y>> \notin Less => y <= x
    OBVIOUS
  <2> HIDE DEF Less
  <2> QED BY <1>1, <1>3, <2>1
<1> QED BY <1>3, <1>4 DEF CommitForVersion

\* Marking a hygiene run as no longer alone changes nothing else of it.
LEMMA Disturbed ==
    ASSUME TypeOK, Disturb
    PROVE  /\ hygiene' \in HygieneRuns \cup {[step |-> "idle"]}
           /\ hygiene'.step = hygiene.step
           /\ hygiene.step # "idle" =>
                 hygiene'.head = hygiene.head /\ hygiene'.found = hygiene.found
<1>1. CASE hygiene.step = "idle"
  BY <1>1 DEF TypeOK, Disturb
<1>2. CASE hygiene.step # "idle"
  <2>1. hygiene \in HygieneRuns
    BY <1>2 DEF TypeOK
  <2>2. hygiene' = [hygiene EXCEPT !.well = FALSE]
    BY <1>2 DEF Disturb
  <2> QED BY <2>1, <2>2 DEF HygieneRuns
<1> QED BY <1>1, <1>2

-----------------------------------------------------------------------------
(* The initial state, and what starts a run.                               *)

LEMMA InitRel == Init => RelInv
<1> SUFFICES ASSUME Init PROVE RelInv
  OBVIOUS
<1>1. 1 \in Commits /\ 1 \in Versions /\ 0 \in 0..MaxCommits
  BY MaxCommitsAssumption DEF Commits, Versions
<1>2. main \in Seq([Packages -> Versions]) /\ Len(main) = 1 /\ \A p \in Packages : main[1][p] = 1
  BY <1>1 DEF Init
<1>3. run = NoRun /\ NoRun \in Runs /\ pending \in Runs /\ pending.mode # "none" /\ pending.commit = 1
  BY <1>1, NoRunType, MaxCommitsAssumption DEF Init, RunOf, Runs
<1>4. TypeOK
  BY <1>1, <1>2, <1>3 DEF Init, TypeOK, Outcomes
<1>5. Numbered /\ OnMain(run) /\ OnMain(pending)
  BY <1>2, <1>3 DEF Numbered, OnMain
<1>6. JobsOnMain /\ HygieneOnMain
  BY DEF Init, JobsOnMain, HygieneOnMain
<1>7. NoOrphans /\ TagsCarryVersion
  BY DEF Init, NoOrphans, TagsCarryVersion, On
<1> QED BY <1>4, <1>5, <1>6, <1>7 DEF RelInv

\* A push adds a commit, and leaves the commits before it as they are.
LEMMA MainGrows ==
    ASSUME RelInv, Push
    PROVE  /\ main' \in Seq([Packages -> Versions]) /\ Len(main') = Len(main) + 1
           /\ Len(main') \in Commits /\ Numbered'
           /\ \A c \in 1..Len(main) : main'[c] = main[c]
<1>1. /\ main \in Seq([Packages -> Versions]) /\ Len(main) \in Nat \ {0}
      /\ Len(main) < MaxCommits
  BY MaxCommitsAssumption DEF RelInv, TypeOK, Push, Commits
<1>2. PICK bumped \in SUBSET Packages :
         main' = Append(main, [p \in Packages |->
                    VersionAt(Len(main), p) + IF p \in bumped THEN 1 ELSE 0])
  BY DEF Push
<1> DEFINE versions == [p \in Packages |->
                          VersionAt(Len(main), p) + IF p \in bumped THEN 1 ELSE 0]
<1>3. \A p \in Packages : versions[p] \in Versions /\ versions[p] <= Len(main) + 1
  <2> TAKE p \in Packages
  <2>1. VersionAt(Len(main), p) \in 1..Len(main)
    BY <1>1, VersionType DEF RelInv, Numbered, VersionAt, Versions
  <2> QED BY <1>1, <2>1, MaxCommitsAssumption DEF Versions
<1>4. versions \in [Packages -> Versions]
  BY <1>3
<1> HIDE DEF versions
<1>5. /\ main' \in Seq([Packages -> Versions]) /\ Len(main') = Len(main) + 1
      /\ main'[Len(main) + 1] = versions
      /\ \A c \in 1..Len(main) : main'[c] = main[c]
  BY <1>1, <1>2, <1>4 DEF versions
<1>6. Len(main') \in Commits
  BY <1>1, <1>5, MaxCommitsAssumption DEF Commits
<1>7. Numbered'
  <2> SUFFICES ASSUME NEW c \in 1..Len(main'), NEW p \in Packages
               PROVE  main'[c][p] <= c
    BY DEF Numbered
  <2>1. CASE c = Len(main) + 1
    BY <1>3, <1>5, <2>1
  <2>2. CASE c \in 1..Len(main)
    BY <1>5, <2>2 DEF RelInv, Numbered
  <2> QED BY <1>1, <1>5, <2>1, <2>2
<1> QED BY <1>5, <1>6, <1>7

LEMMA RequestRel ==
    ASSUME RelInv, Push \/ \E c \in Commits : RunAgain(c) \/ RerunFailed(c)
    PROVE  RelInv'
<1> USE DEF RelInv
<1>1. CASE Push
  <2> DEFINE n == Len(main) + 1
  <2>1. Request(n, "detect")
    BY <1>1 DEF Push
  <2>2. pending' = RunOf(n, "detect") /\ UNCHANGED <<registries, jobs, run, hygiene, issue>>
    BY <2>1 DEF Request
  <2>3. /\ main' \in Seq([Packages -> Versions]) /\ Len(main') = n
        /\ Len(main') \in Commits /\ Numbered'
        /\ \A c \in 1..Len(main) : main'[c] = main[c]
    BY <1>1, MainGrows
  <2>4. 1..Len(main) \subseteq 1..Len(main') /\ n \in 1..Len(main')
    BY <2>3 DEF TypeOK, Commits
  <2>5. TypeOK'
    <3>1. pending' \in Runs
      BY <2>2, <2>3, MaxCommitsAssumption DEF RunOf, Runs, Commits
    <3> QED BY <2>2, <2>3, <3>1 DEF TypeOK, registries
  <2>6. OnMain(run)' /\ OnMain(pending)'
    BY <2>2, <2>3, <2>4 DEF OnMain, RunOf
  <2>7. JobsOnMain'
    BY <2>2, <2>3, <2>4 DEF JobsOnMain, VersionAt, registries
  <2>8. HygieneOnMain'
    BY <2>2, <2>4 DEF HygieneOnMain, On, registries
  <2>9. NoOrphans' /\ TagsCarryVersion'
    BY <2>2, <2>3, <2>4 DEF NoOrphans, TagsCarryVersion, VersionAt, On, registries
  <2> QED BY <2>3, <2>5, <2>6, <2>7, <2>8, <2>9
<1>2. ASSUME NEW c \in Commits, RunAgain(c) \/ RerunFailed(c) PROVE RelInv'
  <2>1. c \in 1..Len(main)
    BY <1>2 DEF RunAgain, RerunFailed, JobsOnMain
  <2>2. \/ pending' = RunOf(c, "detect")
        \/ pending' = RunOf(c, "failed")
    BY <1>2 DEF RunAgain, RerunFailed, Request
  <2>3. pending' \in Runs /\ OnMain(pending)'
    BY <1>2, <2>1, <2>2, MaxCommitsAssumption
    DEF RunOf, Runs, OnMain, Commits, RunAgain, RerunFailed
  <2>4. UNCHANGED <<main, registries, jobs, run, hygiene, issue>>
    BY <1>2 DEF RunAgain, RerunFailed, Request
  <2> QED
    BY <2>3, <2>4 DEF TypeOK, Numbered, OnMain, JobsOnMain, HygieneOnMain, NoOrphans,
                      TagsCarryVersion, VersionAt, On, registries
<1> QED BY <1>1, <1>2

-----------------------------------------------------------------------------
(* The stages of a release run.  Those that touch no registry only have to *)
(* keep the jobs on main, and a job that is past "publish" where it was.   *)

LEMMA StageRel ==
    ASSUME RelInv,
           UNCHANGED <<main, registries, hygiene, issue>>,
           jobs' \in [Commits -> [Packages -> Steps \cup Outcomes]],
           run' \in Runs, pending' \in Runs, OnMain(run)', OnMain(pending)',
           \A c \in Commits, p \in Packages :
               jobs'[c][p] # jobs[c][p] =>
                   jobs'[c][p] \notin {"tag", "release"} /\ c \in 1..Len(main)
    PROVE  RelInv'
<1> USE DEF RelInv
<1>1. TypeOK'
  BY DEF TypeOK, registries
<1>2. JobsOnMain'
  BY DEF JobsOnMain, VersionAt, registries
<1> QED
  BY <1>1, <1>2 DEF Numbered, OnMain, HygieneOnMain, NoOrphans, TagsCarryVersion, VersionAt,
                    On, registries

LEMMA StartRunRel ==
    ASSUME RelInv, StartRun
    PROVE  RelInv'
<1> USE DEF RelInv
<1>1. /\ run' = pending /\ pending' = NoRun
      /\ UNCHANGED <<main, registries, hygiene, issue>>
  BY DEF StartRun
<1>2. run' \in Runs /\ pending' \in Runs /\ OnMain(run)' /\ OnMain(pending)'
  BY <1>1, NoRunType DEF TypeOK, OnMain
<1>3. CASE pending.mode # "failed"
  <2>1. jobs' = jobs
    BY <1>3 DEF StartRun
  <2> QED BY <1>1, <1>2, <2>1, StageRel DEF TypeOK
<1>4. CASE pending.mode = "failed"
  <2> DEFINE c == pending.commit
             again == [p \in Packages |-> IF jobs[c][p] = "failed" THEN "publish" ELSE jobs[c][p]]
  <2>1. c \in 1..Len(main) /\ c \in Commits
    BY <1>4, VersionType, MaxCommitsAssumption DEF OnMain, NoRun, RunOf, TypeOK, Commits
  <2>2. jobs' = [jobs EXCEPT ![c] = again]
    BY <1>4 DEF StartRun
  <2>3. again \in [Packages -> Steps \cup Outcomes]
    BY <2>1 DEF TypeOK, Steps
  <2>4. jobs' \in [Commits -> [Packages -> Steps \cup Outcomes]]
    BY <2>2, <2>3 DEF TypeOK
  <2>5. \A d \in Commits, p \in Packages :
           jobs'[d][p] # jobs[d][p] => jobs'[d][p] = "publish" /\ d = c
    BY <2>1, <2>2, <2>3 DEF TypeOK
  <2> QED BY <1>1, <1>2, <2>1, <2>4, <2>5, StageRel
<1> QED BY <1>3, <1>4

LEMMA DetectRel ==
    ASSUME RelInv, Detect
    PROVE  RelInv'
<1> USE DEF RelInv
<1> DEFINE c == run.commit
<1>1. PICK seen \in [Packages -> 0..MaxCommits], decided \in [Packages -> Outcomes \cup Steps] :
         /\ \A p \in Packages : decided[p] \in Decisions(seen[p], VersionAt(c, p))
         /\ jobs' = [jobs EXCEPT ![c] = [p \in Packages |->
                        IF @[p] = "failed" /\ decided[p] # "publish" THEN "failed"
                        ELSE decided[p]]]
         /\ run' = [run EXCEPT !.mode = "first",
                               !.blind = {p \in Packages : seen[p] # latest[p]}]
  BY DEF Detect
<1> DEFINE outcome == [p \in Packages |->
                         IF jobs[c][p] = "failed" /\ decided[p] # "publish" THEN "failed"
                         ELSE decided[p]]
<1>2. c \in 1..Len(main) /\ c \in Commits
  BY RunType DEF Detect
<1>3. jobs' = [jobs EXCEPT ![c] = outcome]
  BY <1>1
<1>4. outcome \in [Packages -> {"publish", "failed", "skipped", "uncompared"}]
  BY <1>1 DEF Decisions, NotCompared
<1> HIDE DEF outcome
<1>5. jobs' \in [Commits -> [Packages -> Steps \cup Outcomes]]
  BY <1>3, <1>4 DEF TypeOK, Steps, Outcomes
<1>6. \A d \in Commits, p \in Packages :
         jobs'[d][p] # jobs[d][p] =>
            jobs'[d][p] \in {"publish", "failed", "skipped", "uncompared"} /\ d = c
  BY <1>2, <1>3, <1>4 DEF TypeOK
<1>7. run' \in Runs /\ run'.mode = "first" /\ run'.commit = c
  BY <1>1 DEF TypeOK, Runs
<1>8. OnMain(run)' /\ UNCHANGED <<main, registries, pending, hygiene, issue>>
  BY <1>2, <1>7 DEF Detect, OnMain
<1>9. pending' \in Runs /\ OnMain(pending)'
  BY <1>8 DEF TypeOK, OnMain
<1> QED BY <1>2, <1>5, <1>6, <1>7, <1>8, <1>9, StageRel

LEMMA EndRunRel ==
    ASSUME RelInv, DetectFails \/ FinishRun
    PROVE  RelInv'
<1>1. /\ run' = NoRun
      /\ UNCHANGED <<main, registries, jobs, pending, hygiene, issue>>
  BY DEF DetectFails, FinishRun
<1>2. /\ run' \in Runs /\ pending' \in Runs /\ OnMain(run)' /\ OnMain(pending)'
      /\ jobs' \in [Commits -> [Packages -> Steps \cup Outcomes]]
  BY <1>1, NoRunType DEF RelInv, TypeOK, OnMain
<1> QED BY <1>1, <1>2, StageRel

\* A step of a publish job moves that job and no other.
LEMMA GoToType ==
    ASSUME TypeOK, run.commit \in Commits, NEW p \in Packages,
           NEW s \in Steps \cup Outcomes, GoTo(p, s)
    PROVE  /\ jobs' \in [Commits -> [Packages -> Steps \cup Outcomes]]
           /\ jobs'[run.commit][p] = s
           /\ \A d \in Commits, q \in Packages :
                 jobs'[d][q] # jobs[d][q] => d = run.commit /\ q = p
BY DEF TypeOK, GoTo

LEMMA AtOnMain ==
    ASSUME RelInv, NEW p \in Packages, NEW s, At(p, s)
    PROVE  /\ run.commit \in 1..Len(main) /\ run.commit \in Commits
           /\ VersionAt(run.commit, p) \in Versions
BY RunType, VersionType DEF RelInv, At

LEMMA JobFailsRel ==
    ASSUME RelInv, NEW p \in Packages, JobFails(p)
    PROVE  RelInv'
<1> USE DEF RelInv
<1>1. run.commit \in 1..Len(main) /\ run.commit \in Commits
  BY AtOnMain DEF JobFails
<1>2. GoTo(p, "failed") /\ "failed" \in Steps \cup Outcomes
  BY DEF JobFails, Outcomes
<1>3. /\ jobs' \in [Commits -> [Packages -> Steps \cup Outcomes]]
      /\ \A d \in Commits, q \in Packages :
            jobs'[d][q] # jobs[d][q] => jobs'[d][q] = "failed" /\ d = run.commit
  BY <1>1, <1>2, GoToType
<1>4. UNCHANGED <<main, registries, run, pending, hygiene, issue>>
  BY DEF JobFails
<1>5. run' \in Runs /\ pending' \in Runs /\ OnMain(run)' /\ OnMain(pending)'
  BY <1>4 DEF TypeOK, OnMain
<1> QED BY <1>1, <1>3, <1>4, <1>5, StageRel

(***************************************************************************)
(* The steps that write to a registry: what is on npm stays, and has the   *)
(* version of the job that goes on.                                        *)
(***************************************************************************)
LEMMA RegistryRel ==
    ASSUME RelInv, NEW p \in Packages, NEW s \in {"tag", "release", "done", "failed"},
           GoTo(p, s), run.commit \in 1..Len(main), run.commit \in Commits,
           Disturb, UNCHANGED <<main, run, pending, issue>>,
           published' \in [Packages -> [Versions -> 0..MaxCommits]],
           latest' \in [Packages -> 0..MaxCommits],
           tags' \in [Packages -> [Versions -> 0..MaxCommits]],
           releases' \in [Packages -> SUBSET Versions],
           \A q \in Packages, v \in Versions : published[q][v] # 0 => published'[q][v] # 0,
           s \in {"tag", "release"} => published'[p][VersionAt(run.commit, p)] # 0,
           NoOrphans', TagsCarryVersion'
    PROVE  RelInv'
<1> USE DEF RelInv
<1>1. s \in Steps \cup Outcomes
  BY DEF Steps, Outcomes
<1>2. /\ jobs' \in [Commits -> [Packages -> Steps \cup Outcomes]]
      /\ jobs'[run.commit][p] = s
      /\ \A d \in Commits, q \in Packages :
            jobs'[d][q] # jobs[d][q] => d = run.commit /\ q = p
  BY <1>1, GoToType
<1>3. /\ hygiene' \in HygieneRuns \cup {[step |-> "idle"]}
      /\ hygiene'.step = hygiene.step
      /\ hygiene.step # "idle" =>
            hygiene'.head = hygiene.head /\ hygiene'.found = hygiene.found
  BY Disturbed
<1>4. TypeOK'
  BY <1>2, <1>3 DEF TypeOK
<1>5. JobsOnMain'
  <2> SUFFICES ASSUME NEW c \in Commits, NEW q \in Packages
               PROVE  /\ jobs'[c][q] # "undetected" => c \in 1..Len(main)
                      /\ jobs'[c][q] \in {"tag", "release"} => published'[q][VersionAt(c, q)] # 0
    BY DEF JobsOnMain, VersionAt
  <2>1. CASE jobs'[c][q] = jobs[c][q]
    <3>1. jobs[c][q] # "undetected" => VersionAt(c, q) \in Versions
      BY VersionType DEF JobsOnMain
    <3> QED BY <2>1, <3>1 DEF JobsOnMain
  <2>2. CASE jobs'[c][q] # jobs[c][q]
    BY <1>2, <2>2
  <2> QED BY <2>1, <2>2
<1>6. HygieneOnMain'
  <2> SUFFICES ASSUME hygiene'.step # "idle"
               PROVE  /\ hygiene'.head \in 1..Len(main)
                      /\ hygiene'.step = "backfill" =>
                            \A q \in Packages : hygiene'.found[q] \subseteq On(published', q)
    BY DEF HygieneOnMain, On
  <2> QED BY <1>3 DEF HygieneOnMain, On
<1> QED BY <1>4, <1>5, <1>6 DEF Numbered, OnMain

LEMMA PublishRel ==
    ASSUME RelInv, NEW p \in Packages, Publish(p)
    PROVE  RelInv'
<1> USE DEF RelInv
<1> DEFINE v == VersionAt(run.commit, p)
<1>1. run.commit \in 1..Len(main) /\ run.commit \in Commits /\ v \in Versions
  BY AtOnMain DEF Publish
<1>2. PICK s \in {"tag", "failed"} : GoTo(p, s)
  BY DEF Publish
<1>3. Disturb /\ UNCHANGED <<main, tags, releases, run, pending, issue>>
  BY DEF Publish
<1>4. run.commit # 0 /\ run.commit \in 0..MaxCommits /\ v \in 0..MaxCommits
  BY <1>1, MaxCommitsAssumption DEF Commits, Versions
<1>5. /\ published' \in [Packages -> [Versions -> 0..MaxCommits]]
      /\ latest' \in [Packages -> 0..MaxCommits]
      /\ published'[p][v] # 0
      /\ \A q \in Packages, w \in Versions : published[q][w] # 0 => published'[q][w] # 0
  <2>1. CASE published[p][v] # 0 /\ UNCHANGED <<published, latest>>
    BY <2>1 DEF TypeOK
  <2>2. CASE Reaching(p, v)
    <3>1. /\ published' = [published EXCEPT ![p][v] = run.commit]
          /\ latest' = [latest EXCEPT ![p] = v]
      BY <2>2 DEF Reaching
    <3> HIDE DEF v
    <3> QED BY <1>1, <1>4, <3>1 DEF TypeOK
  <2> QED BY <2>1, <2>2 DEF Publish
<1>6. NoOrphans' /\ TagsCarryVersion'
  BY <1>3, <1>5 DEF NoOrphans, TagsCarryVersion, VersionAt, On, TypeOK
<1> HIDE DEF v
<1> QED BY <1>1, <1>2, <1>3, <1>5, <1>6, RegistryRel DEF TypeOK, v

LEMMA TagRel ==
    ASSUME RelInv, NEW p \in Packages, Tag(p)
    PROVE  RelInv'
<1> USE DEF RelInv
<1> DEFINE v == VersionAt(run.commit, p)
<1>1. run.commit \in 1..Len(main) /\ run.commit \in Commits /\ v \in Versions
  BY AtOnMain DEF Tag
<1>2. published[p][v] # 0
  BY <1>1 DEF Tag, At, JobsOnMain
<1>3. /\ GoTo(p, "release") /\ Disturb
      /\ UNCHANGED <<main, published, latest, releases, run, pending, issue>>
  BY DEF Tag
<1>4. UNCHANGED tags \/ (tags[p][v] = 0 /\ tags' = [tags EXCEPT ![p][v] = run.commit])
  BY DEF Tag
<1>5. run.commit # 0 /\ run.commit \in 0..MaxCommits /\ VersionAt(run.commit, p) = v
  BY <1>1, MaxCommitsAssumption DEF Commits
<1> HIDE DEF v
<1>6. /\ tags' \in [Packages -> [Versions -> 0..MaxCommits]]
      /\ \A q \in Packages, w \in Versions :
            \/ tags'[q][w] = tags[q][w]
            \/ q = p /\ w = v /\ tags[p][v] = 0 /\ tags'[p][v] = run.commit
  <2>1. CASE UNCHANGED tags
    BY <2>1 DEF TypeOK
  <2>2. CASE tags[p][v] = 0 /\ tags' = [tags EXCEPT ![p][v] = run.commit]
    <3>1. tags \in [Packages -> [Versions -> 0..MaxCommits]]
      BY DEF TypeOK
    <3>2. \A q \in Packages, w \in Versions :
             tags'[q][w] = IF q = p /\ w = v THEN run.commit ELSE tags[q][w]
      BY <1>1, <2>2, <3>1
    <3>3. tags' \in [Packages -> [Versions -> 0..MaxCommits]]
      BY <1>1, <1>5, <2>2, <3>1
    <3> QED BY <2>2, <3>2, <3>3
  <2> QED BY <1>4, <2>1, <2>2
<1>7. NoOrphans'
  <2>1. ASSUME NEW q \in Packages PROVE On(tags', q) \subseteq On(published', q)
    BY <1>2, <1>3, <1>6 DEF NoOrphans, On
  <2>2. ASSUME NEW q \in Packages PROVE releases'[q] \subseteq On(tags', q)
    BY <1>3, <1>5, <1>6 DEF NoOrphans, On
  <2> QED BY <2>1, <2>2 DEF NoOrphans, On
<1>8. TagsCarryVersion'
  BY <1>1, <1>3, <1>5, <1>6 DEF TagsCarryVersion, VersionAt, On
<1> QED BY <1>1, <1>2, <1>3, <1>5, <1>6, <1>7, <1>8, RegistryRel DEF TypeOK

LEMMA GitHubReleaseRel ==
    ASSUME RelInv, NEW p \in Packages, GitHubRelease(p)
    PROVE  RelInv'
<1> USE DEF RelInv
<1> DEFINE v == VersionAt(run.commit, p)
<1>1. run.commit \in 1..Len(main) /\ run.commit \in Commits /\ v \in Versions
  BY AtOnMain DEF GitHubRelease
<1>2. PICK s \in {"done", "failed"} : GoTo(p, s)
  BY DEF GitHubRelease
<1>3. Disturb /\ UNCHANGED <<main, published, latest, tags, run, pending, issue>>
  BY DEF GitHubRelease
<1>4. UNCHANGED releases \/ (tags[p][v] # 0 /\ releases' = [releases EXCEPT ![p] = @ \cup {v}])
  BY DEF GitHubRelease
<1> HIDE DEF v
<1>5. /\ releases' \in [Packages -> SUBSET Versions]
      /\ \A q \in Packages : releases'[q] \subseteq On(tags, q)
  <2>1. CASE UNCHANGED releases
    BY <2>1 DEF TypeOK, NoOrphans
  <2>2. CASE tags[p][v] # 0 /\ releases' = [releases EXCEPT ![p] = @ \cup {v}]
    <3> DEFINE more == releases[p] \cup {v}
    <3>1. releases' = [releases EXCEPT ![p] = more]
      BY <2>2
    <3>2. more \in SUBSET Versions /\ more \subseteq On(tags, p)
      BY <1>1, <2>2 DEF TypeOK, NoOrphans, On
    <3> HIDE DEF more
    <3> QED BY <3>1, <3>2 DEF TypeOK, NoOrphans
  <2> QED BY <1>4, <2>1, <2>2
<1>6. NoOrphans' /\ TagsCarryVersion'
  BY <1>3, <1>5 DEF NoOrphans, TagsCarryVersion, VersionAt, On
<1> QED BY <1>1, <1>2, <1>3, <1>5, <1>6, RegistryRel DEF TypeOK

-----------------------------------------------------------------------------
(* The hygiene run.                                                        *)

LEMMA HygieneFrame ==
    ASSUME RelInv, UNCHANGED <<main, registries, pipeline>>, issue' \in BOOLEAN,
           hygiene' \in HygieneRuns \cup {[step |-> "idle"]},
           hygiene'.step # "idle" =>
               /\ hygiene'.head \in 1..Len(main)
               /\ hygiene'.step = "backfill" =>
                     \A p \in Packages : hygiene'.found[p] \subseteq On(published, p)
    PROVE  RelInv'
<1> USE DEF RelInv
<1>1. TypeOK'
  BY DEF TypeOK, registries, pipeline
<1> QED
  BY <1>1 DEF Numbered, OnMain, JobsOnMain, HygieneOnMain, NoOrphans, TagsCarryVersion,
              VersionAt, On, registries, pipeline

LEMMA IdleRel ==
    ASSUME RelInv, TrackIssue \/ HygieneKilled
    PROVE  RelInv'
<1>1. /\ UNCHANGED <<main, registries, pipeline>> /\ hygiene' = [step |-> "idle"]
      /\ issue' \in BOOLEAN
  BY DEF TrackIssue, HygieneKilled, IssueAfter, RelInv, TypeOK
<1>2. hygiene'.step = "idle"
  BY <1>1
<1> QED BY <1>1, <1>2, HygieneFrame

LEMMA NothingType == Nothing \in [Packages -> SUBSET Versions] /\ \A p \in Packages : Nothing[p] = {}
BY DEF Nothing

LEMMA StartHygieneRel ==
    ASSUME RelInv, NEW action \in Actions, StartHygiene(action)
    PROVE  RelInv'
<1> DEFINE local == [p \in Packages |-> On(tags, p)]
<1>1. local \in [Packages -> SUBSET Versions]
  BY DEF On
<1> HIDE DEF local
<1>2. hygiene' = [step |-> "report", action |-> action, head |-> Len(main), local |-> local,
                  todo |-> Packages, found |-> Nothing, report |-> "clean", well |-> TRUE]
  BY DEF StartHygiene, local
<1>3. Len(main) \in Commits /\ Len(main) \in 1..Len(main)
  BY MaxCommitsAssumption DEF RelInv, TypeOK, Commits
<1>4. hygiene' \in HygieneRuns
  BY <1>1, <1>2, <1>3, NothingType DEF HygieneRuns
<1> QED
  BY <1>2, <1>3, <1>4, HygieneFrame DEF StartHygiene, RelInv, TypeOK

\* A new pass has found nothing yet.
LEMMA EnterType ==
    ASSUME hygiene \in HygieneRuns, NEW step \in {"backfill", "releases", "issue"}
    PROVE  /\ Enter(step) \in HygieneRuns
           /\ Enter(step).head = hygiene.head /\ Enter(step).found = Nothing
BY NothingType DEF Enter, HygieneRuns

LEMMA PassRel ==
    ASSUME RelInv, NextPass \/ PassFails
    PROVE  RelInv'
<1>1. hygiene \in HygieneRuns /\ hygiene.head \in 1..Len(main)
  BY DEF NextPass, PassFails, RelInv, TypeOK, HygieneOnMain
<1>2. /\ UNCHANGED <<main, registries, pipeline>> /\ issue' \in BOOLEAN
  BY DEF NextPass, PassFails, RelInv, TypeOK
<1>3. ASSUME NEW s, NEW a PROVE StepAfter(s, a) \in {"backfill", "releases", "issue"}
  BY DEF StepAfter
<1>4. PICK step \in {"backfill", "releases", "issue"} :
         \/ hygiene' = Enter(step)
         \/ hygiene' = [Enter(step) EXCEPT !.report = "lost", !.well = FALSE]
         \/ hygiene' = [Enter(step) EXCEPT !.well = FALSE]
  BY <1>3 DEF NextPass, PassFails
<1> DEFINE e == Enter(step)
<1>5. e \in HygieneRuns /\ e.head = hygiene.head /\ e.found = Nothing
  BY <1>1, EnterType
<1>6. hygiene' = e \/ hygiene' = [e EXCEPT !.report = "lost", !.well = FALSE]
                  \/ hygiene' = [e EXCEPT !.well = FALSE]
  BY <1>4
<1> HIDE DEF e
<1>7. hygiene' \in HygieneRuns /\ hygiene'.head = hygiene.head /\ hygiene'.found = Nothing
  <2>1. CASE hygiene' = e
    BY <1>5, <2>1
  <2>2. CASE hygiene' = [e EXCEPT !.report = "lost", !.well = FALSE]
    BY <1>5, <2>2 DEF HygieneRuns
  <2>3. CASE hygiene' = [e EXCEPT !.well = FALSE]
    BY <1>5, <2>3 DEF HygieneRuns
  <2> QED BY <1>6, <2>1, <2>2, <2>3
<1> QED BY <1>1, <1>2, <1>7, NothingType, HygieneFrame

\* What a look at npm or GitHub finds is there, or nothing.
LEMMA LookRel ==
    ASSUME RelInv, NEW p \in Packages, NEW seen \in SUBSET Versions,
           LookForReport(p, seen) \/ LookForMissing(p, seen) \/ LookForReleases(p, seen)
    PROVE  RelInv'
<1>1. hygiene \in HygieneRuns /\ hygiene.head \in 1..Len(main)
  BY DEF LookForReport, LookForMissing, LookForReleases, RelInv, TypeOK, HygieneOnMain
<1>2. UNCHANGED <<main, registries, pipeline>> /\ issue' \in BOOLEAN
  BY DEF LookForReport, LookForMissing, LookForReleases, RelInv, TypeOK
<1>3. CASE LookForReport(p, seen)
  <2>1. hygiene' \in HygieneRuns /\ hygiene'.head = hygiene.head /\ hygiene'.step = "report"
    BY <1>1, <1>3 DEF LookForReport, HygieneRuns
  <2> QED BY <1>1, <1>2, <2>1, HygieneFrame
<1>4. CASE LookForMissing(p, seen)
  <2> DEFINE missing == seen \ hygiene.local[p]
  <2>1. missing \in SUBSET Versions /\ missing \subseteq On(published, p)
    BY <1>4 DEF LookForMissing, NpmVersions, On
  <2> HIDE DEF missing
  <2>2. /\ hygiene' \in HygieneRuns /\ hygiene'.head = hygiene.head
        /\ hygiene'.found = [hygiene.found EXCEPT ![p] = missing]
    BY <1>1, <1>4, <2>1 DEF LookForMissing, HygieneRuns, missing
  <2>3. \A q \in Packages : hygiene.found[q] \subseteq On(published, q)
    BY <1>4 DEF LookForMissing, RelInv, HygieneOnMain
  <2>4. \A q \in Packages : hygiene'.found[q] \subseteq On(published, q)
    BY <1>1, <2>1, <2>2, <2>3 DEF HygieneRuns
  <2> QED BY <1>1, <1>2, <2>2, <2>4, HygieneFrame
<1>5. CASE LookForReleases(p, seen)
  <2> DEFINE missing == (hygiene.local[p] \ releases[p]) \cup seen
  <2>1. missing \in SUBSET Versions
    BY <1>1 DEF HygieneRuns
  <2>2. /\ hygiene' = [hygiene EXCEPT !.todo = @ \ {p}, !.found[p] = missing]
        /\ hygiene.step = "releases"
    BY <1>5 DEF LookForReleases
  <2> HIDE DEF missing
  <2>3. hygiene' \in HygieneRuns /\ hygiene'.head = hygiene.head /\ hygiene'.step = "releases"
    BY <1>1, <2>1, <2>2 DEF HygieneRuns
  <2> QED BY <1>1, <1>2, <2>3, HygieneFrame
<1> QED BY <1>3, <1>4, <1>5

LEMMA SkipMissingRel ==
    ASSUME RelInv, NEW p \in Packages, NEW v \in Versions, SkipMissing(p, v)
    PROVE  RelInv'
<1>1. /\ hygiene \in HygieneRuns /\ hygiene.head \in 1..Len(main) /\ issue' \in BOOLEAN
      /\ \A q \in Packages : hygiene.found[q] \subseteq On(published, q)
  BY DEF SkipMissing, RelInv, TypeOK, HygieneOnMain
<1>2. /\ hygiene' \in HygieneRuns /\ hygiene'.head = hygiene.head
      /\ \A q \in Packages : hygiene'.found[q] \subseteq hygiene.found[q]
  BY <1>1 DEF SkipMissing, HygieneRuns
<1> QED BY <1>1, <1>2, HygieneFrame DEF SkipMissing

(***************************************************************************)
(* The repairs write to one registry each, and only add to it.             *)
(***************************************************************************)
LEMMA RepairRel ==
    ASSUME RelInv, hygiene \in HygieneRuns,
           UNCHANGED <<main, published, latest, pipeline, issue>>,
           tags' \in [Packages -> [Versions -> 0..MaxCommits]],
           releases' \in [Packages -> SUBSET Versions],
           hygiene' \in HygieneRuns, hygiene'.head = hygiene.head,
           hygiene'.step = hygiene.step,
           \A q \in Packages : hygiene'.found[q] \subseteq hygiene.found[q],
           NoOrphans', TagsCarryVersion'
    PROVE  RelInv'
<1> USE DEF RelInv
<1>1. TypeOK'
  BY DEF TypeOK, pipeline
<1>2. HygieneOnMain'
  BY DEF HygieneOnMain, On, HygieneRuns
<1> QED BY <1>1, <1>2 DEF Numbered, OnMain, JobsOnMain, VersionAt, pipeline

LEMMA BackfillRel ==
    ASSUME RelInv, NEW p \in Packages, NEW v \in Versions, NEW pushed \in BOOLEAN,
           Backfill(p, v, pushed)
    PROVE  RelInv'
<1> USE DEF RelInv
<1> DEFINE c == CommitForVersion(p, v)
<1>1. /\ hygiene \in HygieneRuns /\ hygiene.head \in 1..Len(main)
      /\ hygiene.found[p] \subseteq On(published, p)
      /\ v \in hygiene.found[p]
  BY DEF Backfill, TypeOK, HygieneOnMain
<1>2. c \in 1..Len(main) /\ VersionAt(c, p) = v /\ c \in 0..MaxCommits /\ c # 0
  <2>1. c \in CommitsOf(p, v)
    BY <1>1, FoundCommit DEF Backfill
  <2>2. c \in 1..hygiene.head /\ VersionAt(c, p) = v
    BY <2>1 DEF CommitsOf
  <2> HIDE DEF c
  <2> QED BY <1>1, <2>2, MaxCommitsAssumption DEF TypeOK, Commits
<1>3. \/ tags' = tags
      \/ tags[p][v] = 0 /\ tags' = [tags EXCEPT ![p][v] = c]
  BY DEF Backfill
<1>4. /\ UNCHANGED <<main, published, latest, releases, pipeline, issue>>
      /\ hygiene' = [hygiene EXCEPT !.found[p] = @ \ {v}, !.local[p] = @ \cup {v},
                                    !.well = @ /\ pushed]
  BY DEF Backfill
<1> HIDE DEF c
<1>5. /\ hygiene' \in HygieneRuns /\ hygiene'.head = hygiene.head
      /\ hygiene'.step = hygiene.step
      /\ \A q \in Packages : hygiene'.found[q] \subseteq hygiene.found[q]
  BY <1>1, <1>4 DEF HygieneRuns
<1>6. /\ tags' \in [Packages -> [Versions -> 0..MaxCommits]]
      /\ \A q \in Packages, w \in Versions :
            \/ tags'[q][w] = tags[q][w]
            \/ q = p /\ w = v /\ tags'[p][v] = c
  <2>1. CASE tags' = tags
    BY <2>1 DEF TypeOK
  <2>2. CASE tags' = [tags EXCEPT ![p][v] = c]
    BY <1>2, <2>2 DEF TypeOK
  <2> QED BY <1>3, <2>1, <2>2
<1>7. NoOrphans'
  <2>1. ASSUME NEW q \in Packages PROVE On(tags', q) \subseteq On(published', q)
    BY <1>1, <1>4, <1>6 DEF NoOrphans, On
  <2>2. ASSUME NEW q \in Packages PROVE releases'[q] \subseteq On(tags', q)
    BY <1>2, <1>4, <1>6 DEF NoOrphans, On
  <2> QED BY <2>1, <2>2 DEF NoOrphans, On
<1>8. TagsCarryVersion'
  <2>1. main' = main /\ main[c][p] = v
    BY <1>2, <1>4 DEF VersionAt
  <2> SUFFICES ASSUME NEW q \in Packages, NEW w \in Versions, tags'[q][w] # 0
               PROVE  tags'[q][w] \in 1..Len(main) /\ main[tags'[q][w]][q] = w
    BY <2>1 DEF TagsCarryVersion, VersionAt, On
  <2>2. CASE tags'[q][w] = tags[q][w]
    BY <2>2 DEF TagsCarryVersion, VersionAt, On
  <2>3. CASE q = p /\ w = v /\ tags'[p][v] = c
    BY <1>2, <2>1, <2>3
  <2> QED BY <1>6, <2>2, <2>3
<1> QED BY <1>1, <1>4, <1>5, <1>6, <1>7, <1>8, RepairRel DEF TypeOK

LEMMA CreateReleaseRel ==
    ASSUME RelInv, NEW p \in Packages, NEW v \in Versions, NEW created \in BOOLEAN,
           CreateRelease(p, v, created)
    PROVE  RelInv'
<1> USE DEF RelInv
<1>1. hygiene \in HygieneRuns
  BY DEF CreateRelease, TypeOK
<1>2. \/ releases' = releases
      \/ tags[p][v] # 0 /\ releases' = [releases EXCEPT ![p] = @ \cup {v}]
  BY DEF CreateRelease
<1>3. /\ UNCHANGED <<main, published, latest, tags, pipeline, issue>>
      /\ hygiene' = [hygiene EXCEPT !.found[p] = @ \ {v}, !.well = @ /\ created]
  BY DEF CreateRelease
<1>4. /\ hygiene' \in HygieneRuns /\ hygiene'.head = hygiene.head
      /\ hygiene'.step = hygiene.step
      /\ \A q \in Packages : hygiene'.found[q] \subseteq hygiene.found[q]
  BY <1>1, <1>3 DEF HygieneRuns
<1>5. /\ releases' \in [Packages -> SUBSET Versions]
      /\ \A q \in Packages : releases'[q] \subseteq On(tags, q)
  <2>1. CASE releases' = releases
    BY <2>1 DEF TypeOK, NoOrphans
  <2>2. CASE tags[p][v] # 0 /\ releases' = [releases EXCEPT ![p] = @ \cup {v}]
    <3> DEFINE more == releases[p] \cup {v}
    <3>1. releases' = [releases EXCEPT ![p] = more]
      BY <2>2
    <3>2. more \in SUBSET Versions /\ more \subseteq On(tags, p)
      BY <2>2 DEF TypeOK, NoOrphans, On
    <3> HIDE DEF more
    <3> QED BY <3>1, <3>2 DEF TypeOK, NoOrphans
  <2> QED BY <1>2, <2>1, <2>2
<1>6. main' = main /\ tags' = tags /\ published' = published
  BY <1>3
<1>7. NoOrphans'
  BY <1>5, <1>6 DEF NoOrphans, On
<1>8. TagsCarryVersion'
  BY <1>6 DEF TagsCarryVersion, VersionAt, On
<1> QED BY <1>1, <1>3, <1>4, <1>5, <1>7, <1>8, RepairRel DEF TypeOK

-----------------------------------------------------------------------------
(***************************************************************************)
(* What is released, and in which order.  A job that has decided to        *)
(* publish, in a run that has compared, is of a version newer than         *)
(* "latest", and a job that has decided not to is of one that is on npm or *)
(* of a commit that is no longer the newest.                               *)
(***************************************************************************)
VersionsGrow ==
    \A c, d \in 1..Len(main), p \in Packages : c <= d => VersionAt(c, p) <= VersionAt(d, p)

BuiltOnMain ==
    \A p \in Packages, v \in Versions :
        published[p][v] # 0 =>
            published[p][v] \in 1..Len(main) /\ VersionAt(published[p][v], p) = v

LatestOnNpm == \A p \in Packages : latest[p] # 0 => published[p][latest[p]] # 0

UnderWay ==
    \A c \in Commits, p \in Packages :
        jobs[c][p] \in Steps => run.commit = c /\ run.mode \in {"first", "failed"}

ComparedAhead ==
    \A p \in Packages :
        run.mode = "first" /\ jobs[run.commit][p] = "publish" /\ p \notin run.blind =>
            latest[p] < VersionAt(run.commit, p)

SettledOnNpm ==
    \A c \in Commits, p \in Packages :
        jobs[c][p] = "done" \/ (jobs[c][p] = "skipped" /\ c = Len(main)) =>
            published[p][VersionAt(c, p)] # 0

OrderInv ==
    /\ pending.mode # "first"
    /\ VersionsGrow /\ BuiltOnMain /\ LatestOnNpm
    /\ UnderWay /\ ComparedAhead /\ SettledOnNpm

LEMMA InitOrder == Init => OrderInv
<1> SUFFICES ASSUME Init PROVE OrderInv
  OBVIOUS
<1>1. Len(main) = 1 /\ pending.mode = "detect" /\ run.mode = "none" /\ 1 \in Versions
  BY MaxCommitsAssumption DEF Init, RunOf, NoRun, Versions
<1>2. VersionsGrow
  BY <1>1 DEF Init, VersionsGrow, VersionAt
<1>3. \A c \in Commits, p \in Packages : jobs[c][p] = "undetected"
  BY DEF Init
<1>4. UnderWay /\ ComparedAhead /\ SettledOnNpm
  BY <1>1, <1>3 DEF UnderWay, ComparedAhead, SettledOnNpm, Steps
<1>5. BuiltOnMain /\ LatestOnNpm
  BY DEF Init, BuiltOnMain, LatestOnNpm
<1> QED BY <1>1, <1>2, <1>4, <1>5 DEF OrderInv

\* The hygiene run, and a request, are out of the way of the release run.
LEMMA OrderFrame ==
    ASSUME OrderInv, UNCHANGED <<main, published, latest, jobs, run>>, pending'.mode # "first"
    PROVE  OrderInv'
BY DEF OrderInv, VersionsGrow, BuiltOnMain, LatestOnNpm, UnderWay, ComparedAhead, SettledOnNpm,
       VersionAt

LEMMA PushOrder ==
    ASSUME RelInv, OrderInv, Push
    PROVE  OrderInv'
<1> USE DEF RelInv, OrderInv
<1>1. /\ main \in Seq([Packages -> Versions]) /\ Len(main) \in Nat \ {0}
      /\ Len(main) < MaxCommits
  BY MaxCommitsAssumption DEF TypeOK, Push, Commits
<1>2. PICK bumped \in SUBSET Packages :
         main' = Append(main, [p \in Packages |->
                    VersionAt(Len(main), p) + IF p \in bumped THEN 1 ELSE 0])
  BY DEF Push
<1>3. /\ Len(main') = Len(main) + 1 /\ main' \in Seq([Packages -> Versions])
      /\ \A c \in 1..Len(main) : main'[c] = main[c]
  BY MainGrows
<1>4. \A p \in Packages : VersionAt(Len(main), p) \in Nat
                          /\ VersionAt(Len(main), p) <= main'[Len(main')][p]
  <2> TAKE p \in Packages
  <2>1. VersionAt(Len(main), p) \in Nat
    BY <1>1, VersionType DEF Versions
  <2>2. main'[Len(main')] = [q \in Packages |->
                                VersionAt(Len(main), q) + IF q \in bumped THEN 1 ELSE 0]
    BY <1>1, <1>2
  <2>3. main'[Len(main')][p] = VersionAt(Len(main), p) + IF p \in bumped THEN 1 ELSE 0
    BY <2>2
  <2> QED BY <2>1, <2>3
<1>5. /\ pending' = RunOf(Len(main) + 1, "detect")
      /\ UNCHANGED <<registries, jobs, run>>
  BY DEF Push, Request
<1>6. pending'.mode # "first"
  BY <1>5 DEF RunOf
<1>7. VersionsGrow'
  <2> SUFFICES ASSUME NEW c \in 1..Len(main'), NEW d \in 1..Len(main'), NEW p \in Packages, c <= d
               PROVE  main'[c][p] <= main'[d][p]
    BY DEF VersionsGrow, VersionAt
  <2>1. CASE d \in 1..Len(main)
    BY <1>1, <1>3, <2>1 DEF VersionsGrow, VersionAt
  <2>2. CASE d = Len(main') /\ c \in 1..Len(main)
    <3>1. main[c][p] <= main[Len(main)][p]
      BY <1>1, <2>2 DEF VersionsGrow, VersionAt
    <3>2. main[c][p] \in Nat /\ main'[c] = main[c]
      BY <1>3, <2>2, VersionType DEF VersionAt, Versions
    <3>3. main'[d][p] \in Nat
      BY <1>3 DEF Versions
    <3> QED BY <1>4, <2>2, <3>1, <3>2, <3>3 DEF VersionAt
  <2>3. CASE d = Len(main') /\ c = d
    <3>1. main'[d][p] \in Nat
      BY <1>3 DEF Versions
    <3> QED BY <2>3, <3>1
  <2> QED BY <1>1, <1>3, <2>1, <2>2, <2>3
<1>8. BuiltOnMain' /\ LatestOnNpm'
  BY <1>1, <1>3, <1>5 DEF BuiltOnMain, LatestOnNpm, VersionAt, registries
<1>9. UnderWay'
  BY <1>5 DEF UnderWay
<1>10. ComparedAhead'
  <2> SUFFICES ASSUME NEW p \in Packages, run.mode = "first",
                      jobs[run.commit][p] = "publish", p \notin run.blind
               PROVE  latest[p] < main'[run.commit][p]
    BY <1>5 DEF ComparedAhead, VersionAt, registries
  <2>1. run.commit \in 1..Len(main)
    BY RunType
  <2> QED BY <1>3, <2>1 DEF ComparedAhead, VersionAt
<1>11. SettledOnNpm'
  <2> SUFFICES ASSUME NEW c \in Commits, NEW p \in Packages,
                      jobs[c][p] = "done" \/ (jobs[c][p] = "skipped" /\ c = Len(main'))
               PROVE  published[p][main'[c][p]] # 0
    BY <1>5 DEF SettledOnNpm, VersionAt, registries
  <2>1. c \in 1..Len(main)
    BY DEF JobsOnMain
  <2> QED BY <1>1, <1>3, <2>1 DEF SettledOnNpm, VersionAt
<1> QED BY <1>6, <1>7, <1>8, <1>9, <1>10, <1>11

LEMMA StartRunOrder ==
    ASSUME RelInv, OrderInv, StartRun
    PROVE  OrderInv'
<1> USE DEF RelInv, OrderInv
<1>1. /\ run' = pending /\ pending' = NoRun /\ UNCHANGED <<main, published, latest>>
  BY DEF StartRun, registries
<1>2. \A c \in Commits, p \in Packages : jobs[c][p] \notin Steps
  BY DEF StartRun, UnderWay, NoRun, RunOf
<1>3. \A c \in Commits, p \in Packages :
         \/ jobs'[c][p] = jobs[c][p]
         \/ /\ jobs'[c][p] = "publish" /\ c = run'.commit /\ run'.mode = "failed"
  BY <1>1 DEF StartRun, TypeOK
<1>4. UnderWay' /\ ComparedAhead' /\ pending'.mode # "first"
  BY <1>1, <1>2, <1>3 DEF UnderWay, ComparedAhead, NoRun, RunOf
<1>5. SettledOnNpm'
  BY <1>1, <1>3 DEF SettledOnNpm, VersionAt
<1>6. VersionsGrow' /\ BuiltOnMain' /\ LatestOnNpm'
  BY <1>1 DEF VersionsGrow, BuiltOnMain, LatestOnNpm, VersionAt
<1> QED BY <1>4, <1>5, <1>6

\* A version that is not ahead of "latest" is on npm if it is the newest.
LEMMA NotAhead ==
    ASSUME RelInv, OrderInv, NEW p \in Packages, latest[p] >= VersionAt(Len(main), p)
    PROVE  published[p][VersionAt(Len(main), p)] # 0
<1> USE DEF RelInv, OrderInv
<1> DEFINE v == VersionAt(Len(main), p)
<1>1. Len(main) \in 1..Len(main) /\ v \in Versions
  <2>1. Len(main) \in 1..Len(main)
    BY MaxCommitsAssumption DEF TypeOK, Commits
  <2> QED BY <2>1, VersionType
<1>2. latest[p] \in Versions
  BY <1>1, MaxCommitsAssumption DEF TypeOK, Versions
<1>3. published[p][latest[p]] # 0
  BY <1>2 DEF LatestOnNpm, Versions
<1>4. /\ published[p][latest[p]] \in 1..Len(main)
      /\ VersionAt(published[p][latest[p]], p) = latest[p]
  BY <1>2, <1>3 DEF BuiltOnMain
<1>5. latest[p] <= v
  BY <1>1, <1>4 DEF VersionsGrow
<1> HIDE DEF v
<1>6. latest[p] = v
  BY <1>1, <1>2, <1>5, MaxCommitsAssumption DEF v, Versions
<1> QED BY <1>3, <1>6 DEF v

LEMMA DetectOrder ==
    ASSUME RelInv, OrderInv, Detect
    PROVE  OrderInv'
<1> USE DEF RelInv, OrderInv
<1> DEFINE c == run.commit
<1>1. c \in 1..Len(main) /\ c \in Commits
  BY RunType DEF Detect
<1>2. PICK seen \in [Packages -> 0..MaxCommits], decided \in [Packages -> Outcomes \cup Steps] :
         /\ \A p \in Packages : /\ seen[p] \in {0, latest[p]}
                                 /\ decided[p] \in Decisions(seen[p], VersionAt(c, p))
         /\ jobs' = [jobs EXCEPT ![c] = [p \in Packages |->
                        IF @[p] = "failed" /\ decided[p] # "publish" THEN "failed"
                        ELSE decided[p]]]
         /\ run' = [run EXCEPT !.mode = "first",
                               !.blind = {p \in Packages : seen[p] # latest[p]}]
  BY DEF Detect
<1>3. UNCHANGED <<main, published, latest, pending>>
  BY DEF Detect, registries
<1>4. \A d \in Commits, p \in Packages : jobs[d][p] \notin Steps
  BY DEF Detect, UnderWay
<1>5. \A p \in Packages :
         \/ jobs'[c][p] = "publish" /\ seen[p] < VersionAt(c, p)
         \/ jobs'[c][p] \in {"failed", "uncompared"}
         \/ jobs'[c][p] = "skipped" /\ ~(seen[p] < VersionAt(c, p))
  <2>1. \A p \in Packages : jobs'[c][p] = IF jobs[c][p] = "failed" /\ decided[p] # "publish"
                                          THEN "failed" ELSE decided[p]
    BY <1>1, <1>2 DEF TypeOK
  <2> QED BY <1>2, <2>1 DEF Decisions, NotCompared
<1>6. \A d \in Commits, p \in Packages : d # c => jobs'[d][p] = jobs[d][p]
  BY <1>1, <1>2 DEF TypeOK
<1>7. /\ run'.commit = c /\ run'.mode = "first"
      /\ run'.blind = {p \in Packages : seen[p] # latest[p]}
  BY <1>2 DEF TypeOK, Runs
<1>8. UnderWay'
  BY <1>4, <1>6, <1>7 DEF UnderWay
<1>9. ComparedAhead'
  BY <1>3, <1>5, <1>7 DEF ComparedAhead, VersionAt
<1>10. SettledOnNpm'
  <2> SUFFICES ASSUME NEW d \in Commits, NEW p \in Packages,
                      jobs'[d][p] = "done" \/ (jobs'[d][p] = "skipped" /\ d = Len(main))
               PROVE  published[p][VersionAt(d, p)] # 0
    BY <1>3 DEF SettledOnNpm, VersionAt
  <2>1. CASE d # c
    BY <1>6, <2>1 DEF SettledOnNpm
  <2>2. CASE d = c
    <3>1. jobs'[c][p] = "skipped" /\ ~(seen[p] < VersionAt(c, p)) /\ c = Len(main)
      BY <1>5, <2>2
    <3>2. VersionAt(c, p) \in Versions /\ seen[p] \in 0..MaxCommits
      BY <1>1, VersionType
    <3>3. seen[p] >= VersionAt(c, p) /\ seen[p] # 0
      BY <3>1, <3>2, MaxCommitsAssumption DEF Versions
    <3>4. latest[p] >= VersionAt(Len(main), p)
      BY <1>2, <3>1, <3>3
    <3> QED BY <2>2, <3>1, <3>4, NotAhead
  <2> QED BY <2>1, <2>2
<1>11. VersionsGrow' /\ BuiltOnMain' /\ LatestOnNpm' /\ pending'.mode # "first"
  BY <1>3 DEF VersionsGrow, BuiltOnMain, LatestOnNpm, VersionAt
<1> QED BY <1>8, <1>9, <1>10, <1>11

LEMMA EndRunOrder ==
    ASSUME RelInv, OrderInv, DetectFails \/ FinishRun
    PROVE  OrderInv'
<1> USE DEF RelInv, OrderInv
<1>1. run' = NoRun /\ UNCHANGED <<main, published, latest, jobs, pending>>
  BY DEF DetectFails, FinishRun, registries
<1>2. \A c \in Commits, p \in Packages : jobs[c][p] \notin Steps
  BY DEF DetectFails, FinishRun, UnderWay, Steps, Outcomes
<1>3. UnderWay' /\ ComparedAhead'
  BY <1>1, <1>2 DEF UnderWay, ComparedAhead, NoRun, RunOf
<1>4. VersionsGrow' /\ BuiltOnMain' /\ LatestOnNpm' /\ SettledOnNpm' /\ pending'.mode # "first"
  BY <1>1 DEF VersionsGrow, BuiltOnMain, LatestOnNpm, SettledOnNpm, VersionAt
<1> QED BY <1>3, <1>4

\* A step of a publish job other than the publication itself.
LEMMA LaterStepOrder ==
    ASSUME RelInv, OrderInv, NEW p \in Packages, NEW s \in {"release", "done", "failed"},
           At(p, "publish") \/ At(p, "tag") \/ At(p, "release"), GoTo(p, s),
           s = "done" => At(p, "release"),
           UNCHANGED <<main, published, latest, run, pending>>
    PROVE  OrderInv'
<1> USE DEF RelInv, OrderInv
<1>1. run.commit \in 1..Len(main) /\ run.commit \in Commits
  BY AtOnMain
<1>2. s \in Steps \cup Outcomes
  BY DEF Steps, Outcomes
<1>3. /\ jobs'[run.commit][p] = s
      /\ \A d \in Commits, q \in Packages :
            jobs'[d][q] # jobs[d][q] => d = run.commit /\ q = p
  BY <1>1, <1>2, GoToType
<1>4. run.mode \in {"first", "failed"}
  BY DEF At
<1>5. UnderWay' /\ ComparedAhead'
  BY <1>1, <1>3, <1>4 DEF UnderWay, ComparedAhead, VersionAt
<1>6. SettledOnNpm'
  BY <1>1, <1>3 DEF SettledOnNpm, VersionAt, At, JobsOnMain
<1>7. VersionsGrow' /\ BuiltOnMain' /\ LatestOnNpm' /\ pending'.mode # "first"
  BY DEF VersionsGrow, BuiltOnMain, LatestOnNpm, VersionAt
<1> QED BY <1>5, <1>6, <1>7

LEMMA PublishOrder ==
    ASSUME RelInv, OrderInv, NEW p \in Packages, Publish(p)
    PROVE  OrderInv'
<1> USE DEF RelInv, OrderInv
<1> DEFINE v == VersionAt(run.commit, p)
<1>1. run.commit \in 1..Len(main) /\ run.commit \in Commits /\ v \in Versions
  BY AtOnMain DEF Publish
<1>2. PICK s \in {"tag", "failed"} : GoTo(p, s)
  BY DEF Publish
<1>3. s \in Steps \cup Outcomes
  BY DEF Steps, Outcomes
<1>4. /\ jobs'[run.commit][p] = s
      /\ \A d \in Commits, q \in Packages :
            jobs'[d][q] # jobs[d][q] => d = run.commit /\ q = p
  BY <1>1, <1>2, <1>3, GoToType
<1>5. UNCHANGED <<main, run, pending>> /\ run.mode \in {"first", "failed"}
  BY DEF Publish, At
<1>6. run.commit # 0
  BY <1>1
<1>7. \/ UNCHANGED <<published, latest>>
      \/ /\ published' = [published EXCEPT ![p][v] = run.commit]
         /\ latest' = [latest EXCEPT ![p] = v]
  BY DEF Publish, Reaching
<1>8. VersionAt(run.commit, p) = v
  OBVIOUS
<1> HIDE DEF v
<1>9. \A q \in Packages, w \in Versions :
         \/ published'[q][w] = published[q][w]
         \/ q = p /\ w = v /\ published'[q][w] = run.commit
  <2>1. published \in [Packages -> [Versions -> 0..MaxCommits]]
    BY DEF TypeOK
  <2>2. CASE published' = [published EXCEPT ![p][v] = run.commit]
    BY <1>1, <2>1, <2>2
  <2> QED BY <1>7, <2>2
<1>10. \A q \in Packages :
          \/ latest'[q] = latest[q]
          \/ q = p /\ latest'[q] = v /\ published'[p][v] = run.commit
  BY <1>1, <1>7 DEF TypeOK
<1>11. BuiltOnMain'
  <2> SUFFICES ASSUME NEW q \in Packages, NEW w \in Versions, published'[q][w] # 0
               PROVE  published'[q][w] \in 1..Len(main) /\ VersionAt(published'[q][w], q) = w
    BY <1>5 DEF BuiltOnMain, VersionAt
  <2>1. CASE published'[q][w] = published[q][w]
    BY <2>1 DEF BuiltOnMain
  <2>2. CASE q = p /\ w = v /\ published'[q][w] = run.commit
    BY <1>1, <1>8, <2>2
  <2> QED BY <1>9, <2>1, <2>2
<1>12. LatestOnNpm'
  <2> SUFFICES ASSUME NEW q \in Packages, latest'[q] # 0
               PROVE  published'[q][latest'[q]] # 0
    BY DEF LatestOnNpm
  <2>1. CASE latest'[q] = latest[q]
    <3>1. latest[q] \in Versions
      BY <2>1, MaxCommitsAssumption DEF TypeOK, Versions
    <3>2. published[q][latest[q]] # 0
      BY <2>1 DEF LatestOnNpm
    <3> QED BY <1>6, <1>9, <2>1, <3>1, <3>2
  <2>2. CASE q = p /\ latest'[q] = v /\ published'[p][v] = run.commit
    BY <1>6, <2>2
  <2> QED BY <1>10, <2>1, <2>2
<1>13. UnderWay'
  BY <1>1, <1>4, <1>5 DEF UnderWay
<1>14. ComparedAhead'
  <2> SUFFICES ASSUME NEW q \in Packages, run.mode = "first",
                      jobs'[run.commit][q] = "publish", q \notin run.blind
               PROVE  latest'[q] < VersionAt(run.commit, q)
    BY <1>5 DEF ComparedAhead, VersionAt
  <2>1. q # p
    BY <1>4
  <2> QED BY <1>1, <1>4, <1>10, <2>1 DEF ComparedAhead
<1>15. SettledOnNpm'
  <2> SUFFICES ASSUME NEW d \in Commits, NEW q \in Packages,
                      jobs'[d][q] = "done" \/ (jobs'[d][q] = "skipped" /\ d = Len(main))
               PROVE  published'[q][VersionAt(d, q)] # 0
    BY <1>5 DEF SettledOnNpm, VersionAt
  <2>1. jobs'[d][q] = jobs[d][q]
    BY <1>4
  <2>2. published[q][VersionAt(d, q)] # 0
    BY <2>1 DEF SettledOnNpm
  <2>3. VersionAt(d, q) \in Versions
    BY <2>1, VersionType DEF JobsOnMain
  <2> QED BY <1>6, <1>9, <2>2, <2>3
<1>16. VersionsGrow' /\ pending'.mode # "first"
  BY <1>5 DEF VersionsGrow, VersionAt
<1> QED BY <1>11, <1>12, <1>13, <1>14, <1>15, <1>16

-----------------------------------------------------------------------------
(* The theorems.                                                           *)

\* What the repairs and the re-runs rely on holds in every reachable state.
THEOREM ReleaseInvariant == Spec => []RelInv
<1>1. RelInv /\ [Next]_vars => RelInv'
  <2> SUFFICES ASSUME RelInv, [Next]_vars PROVE RelInv'
    OBVIOUS
  <2>1. CASE Push \/ \E c \in Commits : RunAgain(c) \/ RerunFailed(c)
    BY <2>1, RequestRel
  <2>2. CASE ReleaseRun
    <3>1. CASE StartRun
      BY <3>1, StartRunRel
    <3>2. CASE Detect
      BY <3>2, DetectRel
    <3>3. CASE DetectFails \/ FinishRun
      BY <3>3, EndRunRel
    <3>4. ASSUME NEW p \in Packages,
                 Publish(p) \/ Tag(p) \/ GitHubRelease(p) \/ JobFails(p)
          PROVE  RelInv'
      BY <3>4, PublishRel, TagRel, GitHubReleaseRel, JobFailsRel
    <3> QED BY <2>2, <3>1, <3>2, <3>3, <3>4 DEF ReleaseRun
  <2>3. CASE HygieneRun
    <3>1. ASSUME NEW action \in Actions, StartHygiene(action) PROVE RelInv'
      BY <3>1, StartHygieneRel
    <3>2. ASSUME NEW p \in Packages, NEW seen \in SUBSET Versions,
                 LookForReport(p, seen) \/ LookForMissing(p, seen) \/ LookForReleases(p, seen)
          PROVE  RelInv'
      BY <3>2, LookRel
    <3>3. ASSUME NEW p \in Packages, NEW v \in Versions,
                 \/ SkipMissing(p, v)
                 \/ \E ok \in BOOLEAN : Backfill(p, v, ok) \/ CreateRelease(p, v, ok)
          PROVE  RelInv'
      BY <3>3, SkipMissingRel, BackfillRel, CreateReleaseRel
    <3>4. CASE NextPass \/ PassFails
      BY <3>4, PassRel
    <3>5. CASE TrackIssue \/ HygieneKilled
      BY <3>5, IdleRel
    <3> QED BY <2>3, <3>1, <3>2, <3>3, <3>4, <3>5 DEF HygieneRun
  <2>4. CASE UNCHANGED vars
    BY <2>4 DEF vars, registries, pipeline, RelInv, TypeOK, Numbered, OnMain, JobsOnMain,
                HygieneOnMain, NoOrphans, TagsCarryVersion, VersionAt, On
  <2> QED BY <2>1, <2>2, <2>3, <2>4 DEF Next
<1> QED BY <1>1, InitRel, PTL DEF Spec

\* Every variable keeps its type; in particular no run is of a commit that
\* is not on main.
THEOREM ReleaseTypes == Spec => []TypeOK
BY ReleaseInvariant, PTL DEF RelInv

\* No tag without a version on npm and no GitHub release without a tag, for
\* any number of packages, wherever the jobs of release.yml are killed or
\* re-run and whatever release-hygiene.yml repairs beside them.
THEOREM RegistriesInOrder == Spec => []NoOrphans
BY ReleaseInvariant, PTL DEF RelInv

\* Every tag points at a commit on main whose package.json has its version,
\* whether release.yml has made it or backfillMissing() of reconcile-tags.ts.
THEOREM TagsTrue == Spec => []TagsCarryVersion
BY ReleaseInvariant, PTL DEF RelInv

\* The same for what decides which version is released.
THEOREM OrderInvariant == Spec => []OrderInv
<1>1. RelInv /\ OrderInv /\ [Next]_vars => OrderInv'
  <2> SUFFICES ASSUME RelInv, OrderInv, [Next]_vars PROVE OrderInv'
    OBVIOUS
  <2>1. CASE Push
    BY <2>1, PushOrder
  <2>2. CASE \E c \in Commits : RunAgain(c) \/ RerunFailed(c)
    <3>1. /\ UNCHANGED <<main, published, latest, jobs, run>>
          /\ pending'.mode # "first"
      BY <2>2 DEF RunAgain, RerunFailed, Request, RunOf, registries
    <3> QED BY <3>1, OrderFrame
  <2>3. CASE ReleaseRun
    <3>1. CASE StartRun
      BY <3>1, StartRunOrder
    <3>2. CASE Detect
      BY <3>2, DetectOrder
    <3>3. CASE DetectFails \/ FinishRun
      BY <3>3, EndRunOrder
    <3>4. ASSUME NEW p \in Packages, Publish(p) PROVE OrderInv'
      BY <3>4, PublishOrder
    <3>5. ASSUME NEW p \in Packages, Tag(p) \/ GitHubRelease(p) \/ JobFails(p) PROVE OrderInv'
      <4>1. CASE Tag(p)
        BY <4>1, LaterStepOrder DEF Tag
      <4>2. CASE GitHubRelease(p)
        BY <4>2, LaterStepOrder DEF GitHubRelease
      <4>3. CASE JobFails(p)
        BY <4>3, LaterStepOrder DEF JobFails, Steps, registries
      <4> QED BY <3>5, <4>1, <4>2, <4>3
    <3> QED BY <2>3, <3>1, <3>2, <3>3, <3>4, <3>5 DEF ReleaseRun
  <2>4. CASE HygieneRun \/ UNCHANGED vars
    <3>1. UNCHANGED <<main, published, latest, jobs, run, pending>>
      BY <2>4 DEF HygieneRun, StartHygiene, LookForReport, LookForMissing, LookForReleases,
                  SkipMissing, Backfill, CreateRelease, NextPass, PassFails, TrackIssue,
                  HygieneKilled, registries, pipeline, vars
    <3> QED BY <3>1, OrderFrame DEF OrderInv
  <2> QED BY <2>1, <2>2, <2>3, <2>4 DEF Next
<1> QED BY <1>1, InitOrder, ReleaseInvariant, PTL DEF Spec

\* A version is left out for a known reason only, whatever npm answers to
\* detect: with the pipeline idle and the newest version not on npm, its job
\* has failed, its run was cancelled, or detect has gone on after a comparison
\* error, the branch of release.yml that leaves the package out of the matrix.
THEOREM NoVersionSkipped == Spec => []NoSilentSkip
<1>1. RelInv /\ OrderInv => NoSilentSkip
  <2> SUFFICES ASSUME RelInv, OrderInv, run = NoRun, NEW p \in Packages,
                      published[p][VersionAt(Len(main), p)] = 0
               PROVE  jobs[Len(main)][p] \in {"undetected", "failed", "uncompared"}
    BY DEF NoSilentSkip
  <2>1. jobs[Len(main)][p] \in Steps \cup Outcomes /\ Len(main) \in Commits
    BY DEF RelInv, TypeOK
  <2>2. jobs[Len(main)][p] \notin Steps
    BY <2>1 DEF OrderInv, UnderWay, NoRun, RunOf
  <2>3. jobs[Len(main)][p] \notin {"skipped", "done"}
    BY <2>1 DEF OrderInv, SettledOnNpm
  <2> QED BY <2>1, <2>2, <2>3 DEF Outcomes
<1> QED BY <1>1, ReleaseInvariant, OrderInvariant, PTL

(***************************************************************************)
(* What a finished job leaves: a release, and so, the registries being in  *)
(* order, a tag and a version on npm.                                      *)
(***************************************************************************)
DoneReleased ==
    \A c \in Commits, p \in Packages : jobs[c][p] = "done" => VersionAt(c, p) \in releases[p]

\* Releases stay and commits stay, so only a job that ends has to be looked at.
LEMMA DoneFrame ==
    ASSUME RelInv, DoneReleased,
           \A c \in 1..Len(main) : main'[c] = main[c],
           \A p \in Packages : releases[p] \subseteq releases'[p],
           \A c \in Commits, p \in Packages :
              jobs'[c][p] = "done" => jobs[c][p] = "done" \/ VersionAt(c, p)' \in releases'[p]
    PROVE  DoneReleased'
<1> SUFFICES ASSUME NEW c \in Commits, NEW p \in Packages, jobs[c][p] = "done"
             PROVE  VersionAt(c, p)' \in releases'[p]
  BY DEF DoneReleased
<1>1. c \in 1..Len(main)
  BY DEF RelInv, JobsOnMain
<1> QED BY <1>1 DEF DoneReleased, VersionAt

\* The last step of a job is the only one that ends it well.
LEMMA GitHubReleaseDone ==
    ASSUME RelInv, DoneReleased, NEW p \in Packages, GitHubRelease(p)
    PROVE  DoneReleased'
<1>1. At(p, "release") /\ UNCHANGED <<main, run>>
  BY DEF GitHubRelease
<1>2. run.commit \in Commits /\ VersionAt(run.commit, p)' = VersionAt(run.commit, p)
  BY <1>1, AtOnMain DEF VersionAt
<1>3. /\ \A q \in Packages : releases[q] \subseteq releases'[q]
      /\ \/ GoTo(p, "failed")
         \/ GoTo(p, "done") /\ VersionAt(run.commit, p) \in releases'[p]
  BY DEF GitHubRelease, RelInv, TypeOK
<1>4. \A c \in Commits, q \in Packages :
         jobs'[c][q] = "done" => jobs[c][q] = "done" \/ VersionAt(c, q)' \in releases'[q]
  <2>1. CASE GoTo(p, "failed")
    BY <1>2, <2>1 DEF GoTo, RelInv, TypeOK
  <2>2. CASE GoTo(p, "done") /\ VersionAt(run.commit, p) \in releases'[p]
    <3>1. \A c \in Commits, q \in Packages :
             jobs'[c][q] # jobs[c][q] => c = run.commit /\ q = p
      BY <1>2, <2>2, GoToType DEF RelInv, Outcomes
    <3>2. \A c \in Commits, q \in Packages : VersionAt(c, q)' = VersionAt(c, q)
      BY <1>1 DEF VersionAt
    <3> QED BY <1>2, <2>2, <3>1, <3>2
  <2> QED BY <1>3, <2>1, <2>2
<1> QED BY <1>1, <1>3, <1>4, DoneFrame

\* A publish job of release.yml that ends well, on its first run or a re-run,
\* leaves its version on npm, tagged and released on GitHub.
THEOREM DoneJobsAreWhole == Spec => []DoneIsWhole
<1>1. Init => DoneReleased
  BY DEF Init, DoneReleased
<1>2. RelInv /\ DoneReleased /\ [Next]_vars => DoneReleased'
  <2> SUFFICES ASSUME RelInv, DoneReleased, [Next]_vars PROVE DoneReleased'
    OBVIOUS
  <2>1. CASE Push
    <3>1. UNCHANGED <<releases, jobs>>
      BY <2>1 DEF Push, Request, registries
    <3> QED BY <2>1, <3>1, MainGrows, DoneFrame
  <2>2. CASE StartRun
    <3>1. UNCHANGED <<main, releases>>
      BY <2>2 DEF StartRun, registries
    <3>2. \A c \in Commits, p \in Packages : jobs'[c][p] = "done" => jobs[c][p] = "done"
      BY <2>2 DEF StartRun, RelInv, TypeOK
    <3> QED BY <3>1, <3>2, DoneFrame
  <2>3. CASE Detect
    <3>1. UNCHANGED <<main, releases>>
      BY <2>3 DEF Detect, registries
    <3>2. \A c \in Commits, p \in Packages : jobs'[c][p] = "done" => jobs[c][p] = "done"
      <4>1. PICK decided \in [Packages -> Outcomes \cup Steps] :
               /\ \A p \in Packages : decided[p] \in {"publish", "skipped", "uncompared"}
               /\ jobs' = [jobs EXCEPT ![run.commit] = [p \in Packages |->
                             IF @[p] = "failed" /\ decided[p] # "publish" THEN "failed"
                             ELSE decided[p]]]
        BY <2>3 DEF Detect, Decisions, NotCompared
      <4> QED BY <4>1 DEF RelInv, TypeOK
    <3> QED BY <3>1, <3>2, DoneFrame
  <2>4. ASSUME NEW p \in Packages, Publish(p) \/ Tag(p) \/ JobFails(p) PROVE DoneReleased'
    <3>1. UNCHANGED <<main, releases>>
      BY <2>4 DEF Publish, Tag, JobFails, registries
    <3>2. GoTo(p, "tag") \/ GoTo(p, "release") \/ GoTo(p, "failed")
      BY <2>4 DEF Publish, Tag, JobFails
    <3>3. \A c \in Commits, q \in Packages : jobs'[c][q] = "done" => jobs[c][q] = "done"
      <4>1. PICK s \in {"tag", "release", "failed"} : GoTo(p, s)
        BY <3>2
      <4> QED BY <4>1 DEF GoTo, RelInv, TypeOK
    <3> QED BY <3>1, <3>3, DoneFrame
  <2>5. ASSUME NEW p \in Packages, GitHubRelease(p) PROVE DoneReleased'
    BY <2>5, GitHubReleaseDone
  <2>6. CASE \/ \E c \in Commits : RunAgain(c) \/ RerunFailed(c)
             \/ DetectFails \/ FinishRun \/ HygieneRun \/ UNCHANGED vars
    <3>1. UNCHANGED <<main, jobs>>
      BY <2>6 DEF RunAgain, RerunFailed, Request, DetectFails, FinishRun, HygieneRun,
                  StartHygiene, LookForReport, LookForMissing, LookForReleases, SkipMissing,
                  Backfill, CreateRelease, NextPass, PassFails, TrackIssue, HygieneKilled,
                  pipeline, vars
    <3>2. \A p \in Packages : releases[p] \subseteq releases'[p]
      <4>1. CASE \E p \in Packages, v \in Versions, ok \in BOOLEAN : CreateRelease(p, v, ok)
        BY <4>1 DEF CreateRelease, RelInv, TypeOK
      <4>2. CASE UNCHANGED releases
        BY <4>2
      <4> QED
        BY <2>6, <4>1, <4>2 DEF RunAgain, RerunFailed, Request, DetectFails, FinishRun,
                  HygieneRun, StartHygiene, LookForReport, LookForMissing, LookForReleases,
                  SkipMissing, Backfill, NextPass, PassFails, TrackIssue, HygieneKilled,
                  registries, vars
    <3> QED BY <3>1, <3>2, DoneFrame
  <2> QED BY <2>1, <2>2, <2>3, <2>4, <2>5, <2>6 DEF Next, ReleaseRun
<1>3. RelInv /\ DoneReleased => DoneIsWhole
  <2> SUFFICES ASSUME RelInv, DoneReleased, NEW c \in 1..Len(main), NEW p \in Packages,
                      jobs[c][p] = "done"
               PROVE  /\ VersionAt(c, p) \in On(published, p) /\ VersionAt(c, p) \in On(tags, p)
                      /\ VersionAt(c, p) \in releases[p]
    BY DEF DoneIsWhole
  <2>1. c \in Commits
    BY MaxCommitsAssumption DEF RelInv, TypeOK, Commits
  <2> QED BY <2>1 DEF DoneReleased, RelInv, NoOrphans
<1> QED BY <1>1, <1>2, <1>3, ReleaseInvariant, PTL DEF Spec

\* "latest" is moved back only by the re-run of failed jobs, or by a run whose
\* detect stage has got no answer from npm about the package.
THEOREM LatestNotMovedBack == Spec => LatestKeeps
<1>1. RelInv /\ OrderInv /\ [Next]_vars =>
         [\A p \in Packages :
             latest'[p] < latest[p] => run.mode = "failed" \/ p \in run.blind]_vars
  <2> SUFFICES ASSUME RelInv, OrderInv, Next, NEW p \in Packages, latest'[p] < latest[p]
               PROVE  run.mode = "failed" \/ p \in run.blind
    BY DEF vars
  <2>1. latest[p] \in Nat
    BY MaxCommitsAssumption DEF RelInv, TypeOK
  <2>2. latest' # latest
    BY <2>1
  <2>3. PICK q \in Packages : Publish(q)
    BY <2>2 DEF Next, Push, RunAgain, RerunFailed, Request, ReleaseRun, StartRun, Detect,
                DetectFails, FinishRun, Tag, GitHubRelease, JobFails,
                HygieneRun, StartHygiene, LookForReport, LookForMissing, LookForReleases,
                SkipMissing, Backfill, CreateRelease, NextPass, PassFails, TrackIssue,
                HygieneKilled, registries
  <2>4. latest' = [latest EXCEPT ![q] = VersionAt(run.commit, q)]
    BY <2>2, <2>3 DEF Publish, Reaching
  <2>5. q = p /\ latest'[p] = VersionAt(run.commit, p)
    BY <2>1, <2>4 DEF RelInv, TypeOK
  <2>6. VersionAt(run.commit, p) \in Nat
    BY <2>3, <2>5, AtOnMain DEF Publish, Versions
  <2>7. ~(latest[p] < VersionAt(run.commit, p))
    BY <2>1, <2>5, <2>6
  <2> QED BY <2>3, <2>5, <2>7 DEF Publish, At, OrderInv, ComparedAhead
<1> QED BY <1>1, ReleaseInvariant, OrderInvariant, PTL DEF Spec, LatestKeeps

-----------------------------------------------------------------------------
(***************************************************************************)
(* The hygiene run: as long as nothing fails and nothing is released       *)
(* beside it, what it holds in its hands agrees with the registries, so    *)
(* its report is true and its repair complete.                             *)
(***************************************************************************)

Untagged(p) == On(published, p) \ On(tags, p)
Unreleased(p) == On(tags, p) \ releases[p]

\* The tags of the checkout are those of origin, and every version on npm was
\* built from a commit of the checkout.
Current ==
    /\ hygiene.step # "issue" => \A p \in Packages : hygiene.local[p] = On(tags, p)
    /\ \A p \in Packages, v \in Versions :
          published[p][v] # 0 => published[p][v] \in 1..hygiene.head
    /\ hygiene.action = "report" => hygiene.step \in {"report", "issue"}

Reported ==
    /\ hygiene.report # "lost"
    /\ hygiene.step = "report" =>
          (hygiene.report = "drift" <=> \E p \in Packages \ hygiene.todo : Untagged(p) # {})
    /\ hygiene.step = "issue" /\ hygiene.action = "report" =>
          (hygiene.report = "drift" <=> MissingTags)

Repaired ==
    hygiene.action = "full" =>
        /\ hygiene.step = "backfill" =>
              \A p \in Packages \ hygiene.todo : Untagged(p) \subseteq hygiene.found[p]
        /\ hygiene.step \in {"releases", "issue"} => \A p \in Packages : Untagged(p) = {}
        /\ hygiene.step = "releases" =>
              /\ \A p \in Packages : hygiene.found[p] \subseteq On(tags, p)
              /\ \A p \in Packages \ hygiene.todo : Unreleased(p) \subseteq hygiene.found[p]
        /\ hygiene.step = "issue" => \A p \in Packages : Unreleased(p) = {}

WellInv ==
    hygiene.step # "idle" /\ hygiene.well => Current /\ Reported /\ Repaired

-----------------------------------------------------------------------------
LEMMA InitWell == Init => WellInv
BY DEF Init, WellInv

\* Steps that leave the registries and the hygiene run alone, and steps after
\* which it is not running or no longer alone.
LEMMA WellFrame ==
    ASSUME WellInv, UNCHANGED <<registries, hygiene>>
    PROVE  WellInv'
BY DEF WellInv, Current, Reported, Repaired, Untagged, Unreleased, MissingTags, On, registries

LEMMA WellDisturbed ==
    ASSUME RelInv, Disturb
    PROVE  WellInv'
<1>1. CASE hygiene.step = "idle"
  BY <1>1 DEF Disturb, WellInv
<1>2. CASE hygiene.step # "idle"
  <2>1. hygiene \in HygieneRuns
    BY <1>2 DEF RelInv, TypeOK
  <2>2. hygiene'.well = FALSE
    BY <1>2, <2>1 DEF Disturb, HygieneRuns
  <2> QED BY <2>2 DEF WellInv
<1> QED BY <1>1, <1>2

LEMMA StartHygieneWell ==
    ASSUME RelInv, OrderInv, NEW action \in Actions, StartHygiene(action)
    PROVE  WellInv'
<1> DEFINE local == [p \in Packages |-> On(tags, p)]
<1>1. hygiene' = [step |-> "report", action |-> action, head |-> Len(main), local |-> local,
                  todo |-> Packages, found |-> Nothing, report |-> "clean", well |-> TRUE]
  BY DEF StartHygiene, local
<1>2. \A p \in Packages : local[p] = On(tags, p)
  OBVIOUS
<1> HIDE DEF local
<1>3. UNCHANGED <<main, published, tags, releases>>
  BY DEF StartHygiene, registries
<1>4. Current'
  BY <1>1, <1>2, <1>3 DEF Current, OrderInv, BuiltOnMain, On
<1>5. Reported' /\ Repaired'
  BY <1>1 DEF Reported, Repaired
<1> QED BY <1>4, <1>5 DEF WellInv

LEMMA NextPassWell ==
    ASSUME RelInv, WellInv, NextPass
    PROVE  WellInv'
<1> DEFINE step == StepAfter(hygiene.step, hygiene.action)
<1>1. hygiene \in HygieneRuns /\ hygiene.todo = {} /\ hygiene.found = Nothing
      /\ hygiene.step \in {"report", "backfill", "releases"}
  BY DEF NextPass, RelInv, TypeOK
<1>2. step \in {"backfill", "releases", "issue"}
  BY DEF StepAfter
<1>3. /\ hygiene.action = "report" => (hygiene.step = "report" => step = "issue")
      /\ hygiene.action = "full" => /\ hygiene.step = "report" => step = "backfill"
                                    /\ hygiene.step = "backfill" => step = "releases"
                                    /\ hygiene.step = "releases" => step = "issue"
  BY DEF StepAfter
<1>4. hygiene' = Enter(step) /\ UNCHANGED registries
  BY DEF NextPass
<1> HIDE DEF step
<1>5. /\ hygiene'.step = step /\ hygiene'.todo = Packages /\ hygiene'.found = Nothing
      /\ hygiene'.action = hygiene.action /\ hygiene'.head = hygiene.head
      /\ hygiene'.report = hygiene.report /\ hygiene'.well = hygiene.well
      /\ step # "issue" => hygiene'.local = hygiene.local
  BY <1>1, <1>4 DEF Enter, HygieneRuns
<1> SUFFICES ASSUME hygiene'.well PROVE (Current /\ Reported /\ Repaired)'
  BY DEF WellInv
<1>6. Current /\ Reported /\ Repaired
  BY <1>1, <1>5 DEF WellInv
<1>7. UNCHANGED <<published, tags, releases>>
  BY <1>4 DEF registries
<1>8. Current'
  BY <1>1, <1>2, <1>3, <1>5, <1>6, <1>7 DEF Current, On
<1>9. Reported'
  <2>1. step = "issue" /\ hygiene.action = "report" => (hygiene.report = "drift" <=> MissingTags)
    <3> SUFFICES ASSUME hygiene.action = "report" PROVE hygiene.report = "drift" <=> MissingTags
      OBVIOUS
    <3>1. hygiene.step = "report"
      BY <1>1, <1>6 DEF Current
    <3> QED BY <1>1, <1>6, <3>1 DEF Reported, MissingTags, Untagged
  <2>2. MissingTags' <=> MissingTags
    BY <1>7 DEF MissingTags, On
  <2> QED BY <1>2, <1>5, <1>6, <2>1, <2>2 DEF Reported
<1>10. Repaired'
  <2> SUFFICES ASSUME hygiene.action = "full"
               PROVE  /\ step \in {"releases", "issue"} => \A p \in Packages : Untagged(p) = {}
                      /\ step = "issue" => \A p \in Packages : Unreleased(p) = {}
    BY <1>5, <1>7, NothingType DEF Repaired, Untagged, Unreleased, On
  <2> QED BY <1>1, <1>3, <1>6, NothingType DEF Repaired
<1> QED BY <1>8, <1>9, <1>10

LEMMA PassFailsWell ==
    ASSUME RelInv, PassFails
    PROVE  WellInv'
<1>1. hygiene \in HygieneRuns
  BY DEF PassFails, RelInv, TypeOK
<1>2. PICK step \in {"backfill", "releases", "issue"} :
         \/ hygiene' = [Enter(step) EXCEPT !.report = "lost", !.well = FALSE]
         \/ hygiene' = [Enter(step) EXCEPT !.well = FALSE]
  BY DEF PassFails, StepAfter
<1> DEFINE e == Enter(step)
<1>3. e \in HygieneRuns
  BY <1>1, EnterType
<1>4. \/ hygiene' = [e EXCEPT !.report = "lost", !.well = FALSE]
      \/ hygiene' = [e EXCEPT !.well = FALSE]
  BY <1>2
<1> HIDE DEF e
<1>5. hygiene'.well = FALSE
  BY <1>3, <1>4 DEF HygieneRuns
<1> QED BY <1>5 DEF WellInv

LEMMA LookForReportWell ==
    ASSUME RelInv, WellInv, NEW p \in Packages, NEW seen \in SUBSET Versions,
           LookForReport(p, seen)
    PROVE  WellInv'
<1>1. hygiene \in HygieneRuns /\ hygiene.step = "report" /\ p \in hygiene.todo
  BY DEF LookForReport, RelInv, TypeOK
<1>2. /\ hygiene'.step = "report" /\ hygiene'.todo = hygiene.todo \ {p}
      /\ hygiene'.action = hygiene.action /\ hygiene'.head = hygiene.head
      /\ hygiene'.local = hygiene.local
      /\ hygiene'.report = IF seen \subseteq hygiene.local[p] THEN hygiene.report ELSE "drift"
      /\ hygiene'.well = (hygiene.well /\ seen = On(published, p))
  BY <1>1 DEF LookForReport, HygieneRuns
<1> SUFFICES ASSUME hygiene'.well PROVE (Current /\ Reported /\ Repaired)'
  BY DEF WellInv
<1>3. hygiene.well /\ seen = On(published, p)
  BY <1>2
<1>4. Current /\ Reported
  BY <1>1, <1>3 DEF WellInv
<1>5. UNCHANGED <<published, tags, releases>>
  BY DEF LookForReport, registries
<1>6. Current'
  BY <1>1, <1>2, <1>4, <1>5 DEF Current, On
<1>7. hygiene'.report # "lost"
  BY <1>2, <1>4 DEF Reported
<1>8. hygiene'.report = "drift" <=> \E q \in Packages \ hygiene'.todo : Untagged(q) # {}
  <2>1. seen \subseteq hygiene.local[p] <=> Untagged(p) = {}
    BY <1>1, <1>3, <1>4 DEF Current, Untagged
  <2>2. Packages \ hygiene'.todo = (Packages \ hygiene.todo) \cup {p}
    BY <1>2
  <2>3. hygiene.report = "drift" <=> \E q \in Packages \ hygiene.todo : Untagged(q) # {}
    BY <1>1, <1>4 DEF Reported
  <2> QED BY <1>2, <2>1, <2>2, <2>3
<1>9. Reported'
  BY <1>2, <1>5, <1>7, <1>8 DEF Reported, Untagged, On
<1>10. Repaired'
  BY <1>2 DEF Repaired
<1> QED BY <1>6, <1>9, <1>10

LEMMA LookForMissingWell ==
    ASSUME RelInv, WellInv, NEW p \in Packages, NEW seen \in SUBSET Versions,
           LookForMissing(p, seen)
    PROVE  WellInv'
<1>1. hygiene \in HygieneRuns /\ hygiene.step = "backfill" /\ p \in hygiene.todo
  BY DEF LookForMissing, RelInv, TypeOK
<1> DEFINE missing == seen \ hygiene.local[p]
<1>2. hygiene' = [hygiene EXCEPT !.todo = @ \ {p}, !.found[p] = missing,
                                 !.well = @ /\ seen = On(published, p)]
  BY DEF LookForMissing
<1> HIDE DEF missing
<1>3. /\ hygiene'.step = "backfill" /\ hygiene'.todo = hygiene.todo \ {p}
      /\ hygiene'.action = hygiene.action /\ hygiene'.head = hygiene.head
      /\ hygiene'.local = hygiene.local /\ hygiene'.report = hygiene.report
      /\ hygiene'.found = [hygiene.found EXCEPT ![p] = missing]
      /\ hygiene'.well = (hygiene.well /\ seen = On(published, p))
  BY <1>1, <1>2 DEF HygieneRuns
<1> SUFFICES ASSUME hygiene'.well PROVE (Current /\ Reported /\ Repaired)'
  BY DEF WellInv
<1>4. hygiene.well /\ seen = On(published, p)
  BY <1>3
<1>5. Current /\ Reported /\ Repaired
  BY <1>1, <1>4 DEF WellInv
<1>6. UNCHANGED <<published, tags, releases>>
  BY DEF LookForMissing, registries
<1>7. Current'
  BY <1>1, <1>3, <1>5, <1>6 DEF Current, On
<1>8. Reported'
  BY <1>3, <1>5 DEF Reported
<1>9. Repaired'
  <2> SUFFICES ASSUME hygiene.action = "full", NEW q \in Packages \ hygiene'.todo
               PROVE  Untagged(q) \subseteq hygiene'.found[q]
    BY <1>3, <1>6 DEF Repaired, Untagged, On
  <2>1. CASE q = p
    <3>1. Untagged(p) = missing
      BY <1>1, <1>4, <1>5 DEF Current, Untagged, missing
    <3>2. hygiene'.found[p] = missing
      BY <1>1, <1>3 DEF HygieneRuns
    <3> QED BY <2>1, <3>1, <3>2
  <2>2. CASE q # p
    <3>1. hygiene'.found[q] = hygiene.found[q] /\ q \in Packages \ hygiene.todo
      BY <1>1, <1>3, <2>2 DEF HygieneRuns
    <3> QED BY <1>1, <1>5, <3>1 DEF Repaired
  <2> QED BY <2>1, <2>2
<1> QED BY <1>7, <1>8, <1>9

LEMMA LookForReleasesWell ==
    ASSUME RelInv, WellInv, NEW p \in Packages, NEW seen \in SUBSET Versions,
           LookForReleases(p, seen)
    PROVE  WellInv'
<1>1. hygiene \in HygieneRuns /\ hygiene.step = "releases" /\ p \in hygiene.todo
  BY DEF LookForReleases, RelInv, TypeOK
<1> DEFINE missing == (hygiene.local[p] \ releases[p]) \cup seen
<1>2. hygiene' = [hygiene EXCEPT !.todo = @ \ {p}, !.found[p] = missing]
  BY DEF LookForReleases
<1>3. missing \subseteq hygiene.local[p] /\ hygiene.local[p] \ releases[p] \subseteq missing
  BY DEF LookForReleases
<1> HIDE DEF missing
<1>4. /\ hygiene'.step = "releases" /\ hygiene'.todo = hygiene.todo \ {p}
      /\ hygiene'.action = hygiene.action /\ hygiene'.head = hygiene.head
      /\ hygiene'.local = hygiene.local /\ hygiene'.report = hygiene.report
      /\ hygiene'.found = [hygiene.found EXCEPT ![p] = missing]
      /\ hygiene'.well = hygiene.well
  BY <1>1, <1>2 DEF HygieneRuns
<1> SUFFICES ASSUME hygiene'.well PROVE (Current /\ Reported /\ Repaired)'
  BY DEF WellInv
<1>5. Current /\ Reported /\ Repaired
  BY <1>1, <1>4 DEF WellInv
<1>6. UNCHANGED <<published, tags, releases>>
  BY DEF LookForReleases, registries
<1>7. Current'
  BY <1>1, <1>4, <1>5, <1>6 DEF Current, On
<1>8. Reported'
  BY <1>4, <1>5 DEF Reported
<1>9. Repaired'
  <2>1. missing \subseteq On(tags, p) /\ Unreleased(p) \subseteq missing
    BY <1>1, <1>3, <1>5 DEF Current, Unreleased
  <2>2. /\ hygiene'.found[p] = missing
        /\ \A q \in Packages : q # p => hygiene'.found[q] = hygiene.found[q]
    BY <1>1, <1>4 DEF HygieneRuns
  <2> SUFFICES ASSUME hygiene.action = "full"
               PROVE  /\ \A q \in Packages : Untagged(q) = {}
                      /\ \A q \in Packages : hygiene'.found[q] \subseteq On(tags, q)
                      /\ \A q \in Packages \ hygiene'.todo : Unreleased(q) \subseteq hygiene'.found[q]
    BY <1>4, <1>6 DEF Repaired, Untagged, Unreleased, On
  <2>3. /\ \A q \in Packages : Untagged(q) = {}
        /\ \A q \in Packages : hygiene.found[q] \subseteq On(tags, q)
        /\ \A q \in Packages \ hygiene.todo : Unreleased(q) \subseteq hygiene.found[q]
    BY <1>1, <1>5 DEF Repaired
  <2> QED BY <1>4, <2>1, <2>2, <2>3
<1> QED BY <1>7, <1>8, <1>9

\* A run that is alone has the commit of every version it has found.
LEMMA SkipMissingWell ==
    ASSUME RelInv, OrderInv, WellInv, NEW p \in Packages, NEW v \in Versions, SkipMissing(p, v)
    PROVE  WellInv'
<1>1. hygiene \in HygieneRuns /\ hygiene.step = "backfill"
  BY DEF SkipMissing, RelInv, TypeOK
<1>2. hygiene'.well = hygiene.well
  BY <1>1 DEF SkipMissing, HygieneRuns
<1> SUFFICES ASSUME hygiene.well PROVE FALSE
  BY <1>2 DEF WellInv
<1>3. published[p][v] # 0
  BY <1>1 DEF SkipMissing, RelInv, HygieneOnMain, On
<1>4. published[p][v] \in 1..hygiene.head
  BY <1>1, <1>3 DEF WellInv, Current
<1>5. VersionAt(published[p][v], p) = v
  BY <1>3 DEF OrderInv, BuiltOnMain
<1>6. published[p][v] \in CommitsOf(p, v)
  BY <1>4, <1>5 DEF CommitsOf
<1> QED BY <1>6 DEF SkipMissing

LEMMA BackfillWell ==
    ASSUME RelInv, WellInv, NEW p \in Packages, NEW v \in Versions, NEW pushed \in BOOLEAN,
           Backfill(p, v, pushed)
    PROVE  WellInv'
<1> DEFINE c == CommitForVersion(p, v)
<1>1. hygiene \in HygieneRuns /\ hygiene.step = "backfill" /\ hygiene.todo = {}
  BY DEF Backfill, RelInv, TypeOK
<1>2. c # 0
  <2>1. c \in CommitsOf(p, v)
    BY <1>1, FoundCommit DEF Backfill, RelInv
  <2>2. c \in 1..hygiene.head
    BY <2>1 DEF CommitsOf
  <2> HIDE DEF c
  <2> QED BY <2>2
<1>3. tags' = IF pushed /\ tags[p][v] = 0 THEN [tags EXCEPT ![p][v] = c] ELSE tags
  BY DEF Backfill
<1> HIDE DEF c
<1> DEFINE rest == hygiene.found[p] \ {v}
           more == hygiene.local[p] \cup {v}
<1>4. hygiene' = [hygiene EXCEPT !.found[p] = rest, !.local[p] = more, !.well = @ /\ pushed]
  BY DEF Backfill
<1>5. UNCHANGED <<published, releases>>
  BY DEF Backfill
<1> HIDE DEF rest, more
<1>6. /\ hygiene'.step = "backfill" /\ hygiene'.todo = {}
      /\ hygiene'.action = hygiene.action /\ hygiene'.head = hygiene.head
      /\ hygiene'.report = hygiene.report /\ hygiene'.well = (hygiene.well /\ pushed)
      /\ hygiene'.found = [hygiene.found EXCEPT ![p] = rest]
      /\ hygiene'.local = [hygiene.local EXCEPT ![p] = more]
  BY <1>1, <1>4 DEF HygieneRuns
<1> SUFFICES ASSUME hygiene'.well PROVE (Current /\ Reported /\ Repaired)'
  BY DEF WellInv
<1>7. hygiene.well /\ pushed
  BY <1>6
<1>8. Current /\ Reported /\ Repaired
  BY <1>1, <1>7 DEF WellInv
<1>9. \A q \in Packages, w \in Versions :
         tags'[q][w] # 0 <=> tags[q][w] # 0 \/ (q = p /\ w = v)
  <2>1. tags \in [Packages -> [Versions -> 0..MaxCommits]]
    BY DEF RelInv, TypeOK
  <2>2. CASE tags[p][v] = 0
    <3>1. tags' = [tags EXCEPT ![p][v] = c]
      BY <1>3, <1>7, <2>2
    <3> QED BY <1>2, <2>1, <2>2, <3>1
  <2>3. CASE tags[p][v] # 0
    BY <1>3, <2>3
  <2> QED BY <2>2, <2>3
<1>10. /\ On(tags', p) = On(tags, p) \cup {v}
       /\ \A q \in Packages : q # p => On(tags', q) = On(tags, q)
  BY <1>9 DEF On
<1>11. /\ hygiene'.local[p] = more
       /\ \A q \in Packages : q # p => hygiene'.local[q] = hygiene.local[q]
       /\ hygiene'.found[p] = rest
       /\ \A q \in Packages : q # p => hygiene'.found[q] = hygiene.found[q]
  BY <1>1, <1>6 DEF HygieneRuns
<1>12. Current'
  <2>1. ASSUME NEW q \in Packages PROVE hygiene'.local[q] = On(tags', q)
    <3>1. hygiene.local[q] = On(tags, q)
      BY <1>1, <1>8 DEF Current
    <3> QED BY <1>10, <1>11, <3>1 DEF more
  <2> QED BY <1>1, <1>5, <1>6, <1>8, <2>1 DEF Current, On
<1>13. Reported'
  BY <1>6, <1>8 DEF Reported
<1>14. Repaired'
  <2> SUFFICES ASSUME hygiene.action = "full", NEW q \in Packages
               PROVE  On(published, q) \ On(tags', q) \subseteq hygiene'.found[q]
    BY <1>5, <1>6 DEF Repaired, Untagged, On
  <2>1. Untagged(q) \subseteq hygiene.found[q]
    BY <1>1, <1>8 DEF Repaired
  <2> QED BY <1>10, <1>11, <2>1 DEF Untagged, rest
<1> QED BY <1>12, <1>13, <1>14

LEMMA CreateReleaseWell ==
    ASSUME RelInv, WellInv, NEW p \in Packages, NEW v \in Versions, NEW created \in BOOLEAN,
           CreateRelease(p, v, created)
    PROVE  WellInv'
<1>1. hygiene \in HygieneRuns /\ hygiene.step = "releases" /\ hygiene.todo = {}
      /\ v \in hygiene.found[p]
  BY DEF CreateRelease, RelInv, TypeOK
<1> DEFINE rest == hygiene.found[p] \ {v}
<1>2. hygiene' = [hygiene EXCEPT !.found[p] = rest, !.well = @ /\ created]
  BY DEF CreateRelease
<1>3. UNCHANGED <<published, tags>>
  BY DEF CreateRelease
<1> HIDE DEF rest
<1>4. /\ hygiene'.step = "releases" /\ hygiene'.todo = {}
      /\ hygiene'.action = hygiene.action /\ hygiene'.head = hygiene.head
      /\ hygiene'.local = hygiene.local
      /\ hygiene'.report = hygiene.report /\ hygiene'.well = (hygiene.well /\ created)
      /\ hygiene'.found = [hygiene.found EXCEPT ![p] = rest]
  BY <1>1, <1>2 DEF HygieneRuns
<1> SUFFICES ASSUME hygiene'.well PROVE (Current /\ Reported /\ Repaired)'
  BY DEF WellInv
<1>5. hygiene.well /\ created
  BY <1>4
<1>6. Current /\ Reported /\ Repaired
  BY <1>1, <1>5 DEF WellInv
<1>7. Current'
  BY <1>1, <1>3, <1>4, <1>6 DEF Current, On
<1>8. Reported'
  BY <1>4, <1>6 DEF Reported
<1>9. Repaired'
  <2> SUFFICES ASSUME hygiene.action = "full"
               PROVE  /\ \A q \in Packages : Untagged(q) = {}
                      /\ \A q \in Packages : hygiene'.found[q] \subseteq On(tags, q)
                      /\ \A q \in Packages : On(tags, q) \ releases'[q] \subseteq hygiene'.found[q]
    BY <1>3, <1>4 DEF Repaired, Untagged, Unreleased, On
  <2>1. /\ \A q \in Packages : Untagged(q) = {}
        /\ \A q \in Packages : hygiene.found[q] \subseteq On(tags, q)
        /\ \A q \in Packages : On(tags, q) \ releases[q] \subseteq hygiene.found[q]
    BY <1>1, <1>6 DEF Repaired, Unreleased
  <2>2. tags[p][v] # 0
    BY <1>1, <2>1 DEF On
  <2>3. releases' = [releases EXCEPT ![p] = releases[p] \cup {v}]
    BY <1>5, <2>2 DEF CreateRelease
  <2>4. /\ releases'[p] = releases[p] \cup {v} /\ hygiene'.found[p] = rest
        /\ \A q \in Packages : q # p => /\ releases'[q] = releases[q]
                                        /\ hygiene'.found[q] = hygiene.found[q]
    BY <1>1, <1>4, <2>3 DEF HygieneRuns, RelInv, TypeOK
  <2> QED BY <2>1, <2>4 DEF rest
<1> QED BY <1>7, <1>8, <1>9

-----------------------------------------------------------------------------
(* The theorems.                                                           *)

\* What a hygiene run that is alone knows is true, in every reachable state.
THEOREM WellInvariant == Spec => []WellInv
<1>1. RelInv /\ OrderInv /\ WellInv /\ [Next]_vars => WellInv'
  <2> SUFFICES ASSUME RelInv, OrderInv, WellInv, [Next]_vars PROVE WellInv'
    OBVIOUS
  <2>1. CASE Push \/ (\E c \in Commits : RunAgain(c) \/ RerunFailed(c)) \/ UNCHANGED vars
    <3>1. UNCHANGED <<registries, hygiene>>
      BY <2>1 DEF Push, RunAgain, RerunFailed, Request, vars
    <3> QED BY <3>1, WellFrame
  <2>2. CASE ReleaseRun
    <3>1. CASE StartRun \/ Detect \/ DetectFails \/ FinishRun
               \/ \E p \in Packages : JobFails(p)
      <4>1. UNCHANGED <<registries, hygiene>>
        BY <3>1 DEF StartRun, Detect, DetectFails, FinishRun, JobFails
      <4> QED BY <4>1, WellFrame
    <3>2. ASSUME NEW p \in Packages, Publish(p) \/ Tag(p) \/ GitHubRelease(p) PROVE WellInv'
      <4>1. Disturb
        BY <3>2 DEF Publish, Tag, GitHubRelease
      <4> QED BY <4>1, WellDisturbed
    <3> QED BY <2>2, <3>1, <3>2 DEF ReleaseRun
  <2>3. CASE HygieneRun
    <3>1. ASSUME NEW action \in Actions, StartHygiene(action) PROVE WellInv'
      BY <3>1, StartHygieneWell
    <3>2. ASSUME NEW p \in Packages, NEW seen \in SUBSET Versions,
                 LookForReport(p, seen) \/ LookForMissing(p, seen) \/ LookForReleases(p, seen)
          PROVE  WellInv'
      BY <3>2, LookForReportWell, LookForMissingWell, LookForReleasesWell
    <3>3. ASSUME NEW p \in Packages, NEW v \in Versions,
                 \/ SkipMissing(p, v)
                 \/ \E ok \in BOOLEAN : Backfill(p, v, ok) \/ CreateRelease(p, v, ok)
          PROVE  WellInv'
      BY <3>3, SkipMissingWell, BackfillWell, CreateReleaseWell
    <3>4. CASE NextPass
      BY <3>4, NextPassWell
    <3>5. CASE PassFails
      BY <3>5, PassFailsWell
    <3>6. CASE TrackIssue \/ HygieneKilled
      BY <3>6 DEF TrackIssue, HygieneKilled, WellInv
    <3> QED BY <2>3, <3>1, <3>2, <3>3, <3>4, <3>5, <3>6 DEF HygieneRun
  <2> QED BY <2>1, <2>2, <2>3 DEF Next
<1> QED BY <1>1, InitWell, ReleaseInvariant, OrderInvariant, PTL DEF Spec

\* A hygiene run with action=full that nothing disturbs leaves every version
\* on npm with a tag and a GitHub release, and no release without a version.
THEOREM FullRunsRepair == Spec => FullRunRepairs
<1>1. RelInv /\ WellInv /\ [Next]_vars =>
         [/\ hygiene.step = "issue" /\ hygiene'.step = "idle"
          /\ hygiene.action = "full" /\ hygiene.well
          => \A p \in Packages : releases[p] = On(published, p)]_vars
  <2> SUFFICES ASSUME RelInv, WellInv, hygiene.step = "issue", hygiene.action = "full",
                      hygiene.well, NEW p \in Packages
               PROVE  releases[p] = On(published, p)
    BY DEF vars
  <2>1. Untagged(p) = {} /\ Unreleased(p) = {}
    BY DEF WellInv, Repaired
  <2>2. On(tags, p) \subseteq On(published, p) /\ releases[p] \subseteq On(tags, p)
    BY DEF RelInv, NoOrphans
  <2> QED BY <2>1, <2>2 DEF Untagged, Unreleased
<1> QED BY <1>1, ReleaseInvariant, WellInvariant, PTL DEF Spec, FullRunRepairs

\* A report that nothing disturbs leaves the tracking issue open exactly when
\* a version on npm has no tag.
THEOREM IssuesTellMissing == Spec => IssueTellsMissing
<1>1. WellInv /\ [Next]_vars =>
         [TrackIssue /\ hygiene.action = "report" /\ hygiene.well => (issue' <=> MissingTags)]_vars
  <2> SUFFICES ASSUME WellInv, TrackIssue, hygiene.action = "report", hygiene.well
               PROVE  issue' <=> MissingTags
    BY DEF vars
  <2>1. hygiene.report # "lost" /\ (hygiene.report = "drift" <=> MissingTags)
    BY DEF WellInv, Reported, TrackIssue
  <2> QED BY <2>1 DEF TrackIssue, IssueAfter
<1> QED BY <1>1, WellInvariant, PTL DEF Spec, IssueTellsMissing
=============================================================================
