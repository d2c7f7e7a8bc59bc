------------------------------- MODULE Release -------------------------------
(***************************************************************************)
(* The release pipeline of .github/workflows/release.yml, and the repair   *)
(* of what it leaves behind by release-hygiene.yml and reconcile-tags.ts.  *)
(*                                                                         *)
(* A release of a package is three effects on three systems: a version on  *)
(* npm, a tag on origin, a GitHub release.  No transaction spans them: a   *)
(* job may be killed between any two, every lookup may fail, and a command *)
(* may take effect and still report a failure.  The runs of one workflow   *)
(* are serialised by its concurrency group; the two workflows interleave.  *)
(*                                                                         *)
(* Versions are numbers, 0 is none.  Dry runs, dist-tags other than        *)
(* "latest" and the destructive action cleanup-orphans are left out.       *)
(***************************************************************************)
EXTENDS Naturals, Sequences, FiniteSets

CONSTANTS Packages,    \* the public packages
          MaxCommits   \* bound on the number of commits on main

ASSUME MaxCommitsAssumption == MaxCommits \in Nat \ {0}

Commits == 1..MaxCommits
Versions == 1..MaxCommits

VARIABLES
    main,       \* commits on main: the version of every package
    published,  \* npm: the commit every version was built from, or 0
    latest,     \* npm: the version with the dist-tag "latest", or 0
    tags,       \* origin: the commit every tag points at, or 0
    releases,   \* GitHub: the versions with a release
    jobs,       \* the publish job of every commit and package
    run,        \* the release run under way
    pending,    \* the one that waits for it
    hygiene,    \* the hygiene run
    issue       \* is the tracking issue open?

registries == <<published, latest, tags, releases>>
pipeline == <<jobs, run, pending>>
vars == <<main, registries, pipeline, hygiene, issue>>

\* blind, which no action depends on: packages whose lookup in detect failed.
RunOf(c, mode) == [commit |-> c, mode |-> mode, blind |-> {}]
NoRun == RunOf(0, "none")

Steps == {"publish", "tag", "release"}

\* "undetected": no detect stage has yet decided for the package;
\* "skipped": it decided that there is nothing to publish; "uncompared": it
\* could not compare the versions, and went on without the package.
Outcomes == {"undetected", "skipped", "uncompared", "done", "failed"}

VersionAt(c, p) == main[c][p]

On(registry, p) == {v \in Versions : registry[p][v] # 0}

Init ==
    /\ main = <<[p \in Packages |-> 1]>>
    /\ published = [p \in Packages |-> [v \in Versions |-> 0]]
    /\ latest = [p \in Packages |-> 0]
    /\ tags = [p \in Packages |-> [v \in Versions |-> 0]]
    /\ releases = [p \in Packages |-> {}]
    /\ jobs = [c \in Commits |-> [p \in Packages |-> "undetected"]]
    /\ run = NoRun
    /\ pending = RunOf(1, "detect")
    /\ hygiene = [step |-> "idle"]
    /\ issue = FALSE

-----------------------------------------------------------------------------
(* What starts a release run.  The concurrency group lets one run wait; a  *)
(* newer one takes its place and the older is cancelled.                   *)

Request(c, mode) ==
    /\ pending' = RunOf(c, mode)
    /\ UNCHANGED <<registries, jobs, run, hygiene, issue>>

\* A push to main: a package keeps its version or gets the next one.
Push ==
    /\ Len(main) < MaxCommits
    /\ \E bumped \in SUBSET Packages :
          main' = Append(main, [p \in Packages |->
                      VersionAt(Len(main), p) + IF p \in bumped THEN 1 ELSE 0])
    /\ Request(Len(main) + 1, "detect")

\* workflow_dispatch on main, or "Re-run all jobs" of an older run.
RunAgain(c) ==
    /\ c \in 1..Len(main) /\ run.commit # c
    /\ Request(c, "detect")
    /\ UNCHANGED main

\* "Re-run failed jobs", which keeps the matrix of the first attempt.
RerunFailed(c) ==
    /\ run.commit # c
    /\ \E p \in Packages : jobs[c][p] = "failed"
    /\ Request(c, "failed")
    /\ UNCHANGED main

StartRun ==
    /\ run = NoRun /\ pending # NoRun
    /\ run' = pending
    /\ pending' = NoRun
    /\ jobs' = IF pending.mode = "failed"
               THEN [jobs EXCEPT ![pending.commit] =
                        [p \in Packages |-> IF @[p] = "failed" THEN "publish" ELSE @[p]]]
               ELSE jobs
    /\ UNCHANGED <<main, registries, hygiene, issue>>

-----------------------------------------------------------------------------
(* The stages of a release run                                             *)

\* The command that compares may fail whenever npm has answered: a
\* "comparison error", which leaves the package out.
NotCompared(seen) == IF seen = 0 THEN {} ELSE {"uncompared"}

\* Mutant of Decisions: a lookup that fails means there is nothing to do.
AnsweredAndAhead(seen, v) ==
    {IF 0 < seen /\ seen < v THEN "publish" ELSE "skipped"}
        \cup NotCompared(seen)

\* Mutant of Decisions: any difference is a release.
Different(seen, v) ==
    {IF seen # v THEN "publish" ELSE "skipped"} \cup NotCompared(seen)

\* What detect may decide for version v of a package: to publish when npm
\* knows no version, or an older one, and the comparison does not fail.
Decisions(seen, v) ==
    {IF seen < v THEN "publish" ELSE "skipped"} \cup NotCompared(seen)

\* Detect asks npm for the latest version of every package; no answer looks
\* like a package that was never published.  A job that failed earlier can
\* still be re-run when this run has nothing to do for it.
Detect ==
    LET c == run.commit
    IN  /\ run.mode = "detect"
        /\ \E seen \in [Packages -> 0..MaxCommits], decided \in [Packages -> Outcomes \cup Steps] :
              /\ \A p \in Packages : /\ seen[p] \in {0, latest[p]}
                                     /\ decided[p] \in Decisions(seen[p], VersionAt(c, p))
              /\ jobs' = [jobs EXCEPT ![c] = [p \in Packages |->
                             IF @[p] = "failed" /\ decided[p] # "publish" THEN "failed"
                             ELSE decided[p]]]
              /\ run' = [run EXCEPT !.mode = "first",
                                    !.blind = {p \in Packages : seen[p] # latest[p]}]
        /\ UNCHANGED <<main, registries, pending, hygiene, issue>>

DetectFails ==
    /\ run.mode = "detect"
    /\ run' = NoRun
    /\ UNCHANGED <<main, registries, jobs, pending, hygiene, issue>>

\* The publish job of package p is at step s, and goes on to the next.
At(p, s) == run.mode \in {"first", "failed"} /\ jobs[run.commit][p] = s
GoTo(p, s) == jobs' = [jobs EXCEPT ![run.commit][p] = s]

\* A hygiene run under way is no longer alone.
Disturb == hygiene' = IF hygiene.step = "idle" THEN hygiene ELSE [hygiene EXCEPT !.well = FALSE]

Reaching(p, v) ==
    /\ published' = [published EXCEPT ![p][v] = run.commit]
    /\ latest' = [latest EXCEPT ![p] = v]

\* Mutant of Publish: the tag is pushed before the version is published.
PublishTagged(p) ==
    LET v == VersionAt(run.commit, p)
    IN  /\ At(p, "publish")
        /\ \/ UNCHANGED <<published, latest>> /\ GoTo(p, "failed")
           \/ Reaching(p, v) /\ GoTo(p, "tag")
        /\ tags' = [tags EXCEPT ![p][v] = IF @ = 0 THEN run.commit ELSE @]
        /\ Disturb
        /\ UNCHANGED <<main, releases, run, pending, issue>>

\* Mutant of Publish: a job that finds the version on npm has nothing to do.
PublishOrStop(p) ==
    LET v == VersionAt(run.commit, p)
    IN  /\ At(p, "publish")
        /\ \/ /\ published[p][v] # 0
              /\ GoTo(p, "done") \/ GoTo(p, "failed")
              /\ UNCHANGED <<published, latest>>
           \/ /\ published[p][v] = 0
              /\ Reaching(p, v)
              /\ GoTo(p, "tag") \/ GoTo(p, "failed")
        /\ Disturb
        /\ UNCHANGED <<main, tags, releases, run, pending, issue>>

\* npm view name@version, and npm publish when it does not find it.  The
\* registry refuses a version it has.
Publish(p) ==
    LET v == VersionAt(run.commit, p)
    IN  /\ At(p, "publish")
        /\ \/ /\ published[p][v] # 0
              /\ GoTo(p, "tag") \/ GoTo(p, "failed")
              /\ UNCHANGED <<published, latest>>
           \/ /\ published[p][v] = 0
              /\ Reaching(p, v)
              /\ GoTo(p, "tag") \/ GoTo(p, "failed")
        /\ Disturb
        /\ UNCHANGED <<main, tags, releases, run, pending, issue>>

\* git tag and git push, whose failure is ignored: a tag that is there stays.
Tag(p) ==
    LET v == VersionAt(run.commit, p)
    IN  /\ At(p, "tag")
        /\ \/ UNCHANGED tags
           \/ tags[p][v] = 0 /\ tags' = [tags EXCEPT ![p][v] = run.commit]
        /\ GoTo(p, "release")
        /\ Disturb
        /\ UNCHANGED <<main, published, latest, releases, run, pending, issue>>

\* gh release view, then edit or create.  Create fails for a tag that is not
\* on origin but in the checkout, and for a release that exists.
GitHubRelease(p) ==
    LET v == VersionAt(run.commit, p)
    IN  /\ At(p, "release")
        /\ \/ /\ v \in releases[p]
              /\ GoTo(p, "done") \/ GoTo(p, "failed")
              /\ UNCHANGED releases
           \/ /\ v \notin releases[p] /\ tags[p][v] # 0
              /\ releases' = [releases EXCEPT ![p] = @ \cup {v}]
              /\ GoTo(p, "done") \/ GoTo(p, "failed")
           \/ /\ v \notin releases[p] /\ tags[p][v] = 0
              /\ GoTo(p, "failed")
              /\ UNCHANGED releases
        /\ Disturb
        /\ UNCHANGED <<main, published, latest, tags, run, pending, issue>>

\* The job is killed, runs out of time, or a command fails without effect;
\* so it is when the build or the integrity gate fails.
JobFails(p) ==
    /\ \E s \in Steps : At(p, s)
    /\ GoTo(p, "failed")
    /\ UNCHANGED <<main, registries, run, pending, hygiene, issue>>

FinishRun ==
    /\ run.mode \in {"first", "failed"}
    /\ \A p \in Packages : jobs[run.commit][p] \in Outcomes
    /\ run' = NoRun
    /\ UNCHANGED <<main, registries, jobs, pending, hygiene, issue>>

ReleaseRun ==
    \/ StartRun \/ Detect \/ DetectFails \/ FinishRun
    \/ \E p \in Packages : Publish(p) \/ Tag(p) \/ GitHubRelease(p) \/ JobFails(p)

-----------------------------------------------------------------------------
(* The hygiene run.  Its record:                                           *)
(*   step     what it does next                                            *)
(*   action   the input of the workflow                                    *)
(*   head     the commit it checked out                                    *)
(*   local    the tags in the checkout, per package                        *)
(*   todo     the packages this pass has not looked at                     *)
(*   found    what the pass found, per package                             *)
(*   report   what the first pass reports: "clean", "drift" or, when it    *)
(*            failed, "lost"                                               *)
(*   well     nothing has failed, and no release went on beside it         *)
(* well is history: no action depends on it.                               *)

Actions == {"report", "backfill-missing", "create-releases", "full"}

Nothing == [p \in Packages |-> {}]

StartHygiene(action) ==
    /\ hygiene.step = "idle"
    /\ hygiene' = [step |-> "report", action |-> action, head |-> Len(main),
                   local |-> [p \in Packages |-> On(tags, p)],
                   todo |-> Packages, found |-> Nothing,
                   report |-> "clean", well |-> TRUE]
    /\ UNCHANGED <<main, registries, pipeline, issue>>

\* Mutant of StepAfter: releases are created before tags are backfilled.
ReleasesFirst(step, action) ==
    CASE step = "report" /\ action = "full" -> "releases"
      [] step = "releases" /\ action = "full" -> "backfill"
      [] step = "report" /\ action = "backfill-missing" -> "backfill"
      [] step = "report" /\ action = "create-releases" -> "releases"
      [] OTHER -> "issue"

\* Mutant of StepAfter: a report ends without a look at the issue.
EndOfReport(step, action) ==
    CASE action = "report" -> "idle"
      [] step = "report" /\ action \in {"backfill-missing", "full"} -> "backfill"
      [] step = "report" /\ action = "create-releases" -> "releases"
      [] step = "backfill" /\ action = "full" -> "releases"
      [] OTHER -> "issue"

StepAfter(step, action) ==
    CASE step = "report" /\ action \in {"backfill-missing", "full"} -> "backfill"
      [] step = "report" /\ action = "create-releases" -> "releases"
      [] step = "backfill" /\ action = "full" -> "releases"
      [] OTHER -> "issue"

Enter(step) ==
    [hygiene EXCEPT !.step = step, !.todo = Packages, !.found = Nothing,
                    !.local = IF step = "issue" THEN Nothing ELSE @]

\* The next pass is a new process: it looks at every package again.
NextPass ==
    /\ hygiene.step \in {"report", "backfill", "releases"}
    /\ hygiene.todo = {} /\ hygiene.found = Nothing
    /\ hygiene' = Enter(StepAfter(hygiene.step, hygiene.action))
    /\ UNCHANGED <<main, registries, pipeline, issue>>

\* A pass that fails fails the step, unless it is the first; the issue is
\* looked after always().
PassFails ==
    /\ \/ /\ hygiene.step = "report"
          /\ hygiene' = [Enter(StepAfter("report", hygiene.action))
                            EXCEPT !.report = "lost", !.well = FALSE]
       \/ /\ hygiene.step \in {"backfill", "releases"}
          /\ hygiene' = [Enter("issue") EXCEPT !.well = FALSE]
    /\ UNCHANGED <<main, registries, pipeline, issue>>

\* npm view name versions; no answer looks like no version.
NpmVersions(p) == {On(published, p), {}}

LookForReport(p, seen) ==
    /\ hygiene.step = "report" /\ p \in hygiene.todo
    /\ seen \in NpmVersions(p)
    /\ hygiene' = [hygiene EXCEPT !.todo = @ \ {p},
                                  !.report = IF seen \subseteq hygiene.local[p] THEN @ ELSE "drift",
                                  !.well = @ /\ seen = On(published, p)]
    /\ UNCHANGED <<main, registries, pipeline, issue>>

LookForMissing(p, seen) ==
    /\ hygiene.step = "backfill" /\ p \in hygiene.todo
    /\ seen \in NpmVersions(p)
    /\ hygiene' = [hygiene EXCEPT !.todo = @ \ {p},
                                  !.found[p] = seen \ hygiene.local[p],
                                  !.well = @ /\ seen = On(published, p)]
    /\ UNCHANGED <<main, registries, pipeline, issue>>

CommitsOf(p, v) == {c \in 1..hygiene.head : VersionAt(c, p) = v}

\* Mutant of CommitForVersion: the commit that was checked out.
CommitOfHead(p, v) == hygiene.head

\* findCommitForVersion(): the first commit with the version.
CommitForVersion(p, v) ==
    CHOOSE c \in CommitsOf(p, v) : \A d \in CommitsOf(p, v) : c <= d

\* The version is newer than the checkout.
SkipMissing(p, v) ==
    /\ hygiene.step = "backfill" /\ hygiene.todo = {} /\ v \in hygiene.found[p]
    /\ CommitsOf(p, v) = {}
    /\ hygiene' = [hygiene EXCEPT !.found[p] = @ \ {v}]
    /\ UNCHANGED <<main, registries, pipeline, issue>>

\* The tag is made in the checkout; whether the push succeeds is ignored.
Backfill(p, v, pushed) ==
    /\ hygiene.step = "backfill" /\ hygiene.todo = {} /\ v \in hygiene.found[p]
    /\ CommitsOf(p, v) # {}
    /\ tags' = IF pushed /\ tags[p][v] = 0
               THEN [tags EXCEPT ![p][v] = CommitForVersion(p, v)]
               ELSE tags
    /\ hygiene' = [hygiene EXCEPT !.found[p] = @ \ {v}, !.local[p] = @ \cup {v},
                                  !.well = @ /\ pushed]
    /\ UNCHANGED <<main, published, latest, releases, pipeline, issue>>

\* gh release view for every tag in the checkout; a failure looks like none.
LookForReleases(p, unseen) ==
    /\ hygiene.step = "releases" /\ p \in hygiene.todo
    /\ unseen \subseteq hygiene.local[p] \cap releases[p]
    /\ hygiene' = [hygiene EXCEPT !.todo = @ \ {p},
                                  !.found[p] = (hygiene.local[p] \ releases[p]) \cup unseen]
    /\ UNCHANGED <<main, registries, pipeline, issue>>

CreateRelease(p, v, created) ==
    /\ hygiene.step = "releases" /\ hygiene.todo = {} /\ v \in hygiene.found[p]
    /\ releases' = IF created /\ tags[p][v] # 0
                   THEN [releases EXCEPT ![p] = @ \cup {v}]
                   ELSE releases
    /\ hygiene' = [hygiene EXCEPT !.found[p] = @ \ {v}, !.well = @ /\ created]
    /\ UNCHANGED <<main, published, latest, tags, pipeline, issue>>

\* Mutant of IssueAfter: the issue is never closed.
IssueKeptOpen(report) == issue \/ report = "drift"

\* The issue is opened or closed by the report of the first pass.
IssueAfter(report) == IF report = "lost" THEN issue ELSE report = "drift"

TrackIssue ==
    /\ hygiene.step = "issue"
    /\ issue' = IssueAfter(hygiene.report)
    /\ hygiene' = [step |-> "idle"]
    /\ UNCHANGED <<main, registries, pipeline>>

HygieneKilled ==
    /\ hygiene.step # "idle"
    /\ hygiene' = [step |-> "idle"]
    /\ UNCHANGED <<main, registries, pipeline, issue>>

HygieneRun ==
    \/ \E action \in Actions : StartHygiene(action)
    \/ \E p \in Packages, seen \in SUBSET Versions :
          LookForReport(p, seen) \/ LookForMissing(p, seen) \/ LookForReleases(p, seen)
    \/ \E p \in Packages, v \in Versions :
          \/ SkipMissing(p, v)
          \/ \E ok \in BOOLEAN : Backfill(p, v, ok) \/ CreateRelease(p, v, ok)
    \/ NextPass \/ PassFails \/ TrackIssue \/ HygieneKilled

Next ==
    \/ Push
    \/ \E c \in Commits : RunAgain(c) \/ RerunFailed(c)
    \/ ReleaseRun
    \/ HygieneRun

Spec == Init /\ [][Next]_vars

-----------------------------------------------------------------------------
(* Properties                                                              *)

Runs == [commit : 0..MaxCommits, mode : {"none", "detect", "first", "failed"},
         blind : SUBSET Packages]

HygieneRuns ==
    [step : {"report", "backfill", "releases", "issue"}, action : Actions,
     head : Commits, local : [Packages -> SUBSET Versions], todo : SUBSET Packages,
     found : [Packages -> SUBSET Versions],
     report : {"clean", "drift", "lost"}, well : BOOLEAN]

TypeOK ==
    /\ main \in Seq([Packages -> Versions]) /\ Len(main) \in Commits
    /\ published \in [Packages -> [Versions -> 0..MaxCommits]]
    /\ latest \in [Packages -> 0..MaxCommits]
    /\ tags \in [Packages -> [Versions -> 0..MaxCommits]]
    /\ releases \in [Packages -> SUBSET Versions]
    /\ jobs \in [Commits -> [Packages -> Steps \cup Outcomes]]
    /\ run \in Runs /\ pending \in Runs
    /\ hygiene \in HygieneRuns \cup {[step |-> "idle"]}
    /\ issue \in BOOLEAN

(***************************************************************************)
(* The three registries are filled in order: no tag without a version on   *)
(* npm, no release without a tag, wherever a job was killed, re-run, or    *)
(* overtaken by a repair that saw half of it.                              *)
(***************************************************************************)
NoOrphans ==
    \A p \in Packages :
        /\ On(tags, p) \subseteq On(published, p)
        /\ releases[p] \subseteq On(tags, p)

(***************************************************************************)
(* A tag points at a commit whose package.json has its version, whether a  *)
(* first run, a re-run, a later run or a backfill has made it.             *)
(***************************************************************************)
TagsCarryVersion ==
    \A p \in Packages : \A v \in On(tags, p) :
        tags[p][v] \in 1..Len(main) /\ VersionAt(tags[p][v], p) = v

(***************************************************************************)
(* A job that ends well leaves nothing half done: its version is on npm,   *)
(* has a tag and has a release.  It may be the re-run of one that was      *)
(* killed anywhere, a failed tag push is ignored on the way, and a         *)
(* backfill may have been faster.                                          *)
(***************************************************************************)
DoneIsWhole ==
    \A c \in 1..Len(main), p \in Packages :
        LET v == VersionAt(c, p)
        IN  jobs[c][p] = "done" =>
                v \in On(published, p) /\ v \in On(tags, p) /\ v \in releases[p]

(***************************************************************************)
(* A version is left out for a known reason only: when the pipeline is     *)
(* idle and the version on main is not on npm, the run of the newest       *)
(* commit was cancelled or has failed, or it went on after a "comparison   *)
(* error (skip)" for this package, the one way to leave out a version with *)
(* every job green.  A failed npm view must not look like "same".          *)
(***************************************************************************)
NoSilentSkip ==
    run = NoRun /\ pending = NoRun =>
        \A p \in Packages :
            published[p][VersionAt(Len(main), p)] = 0 =>
                jobs[Len(main)][p] \in {"undetected", "failed", "uncompared"}

(***************************************************************************)
(* "latest" goes back only when somebody re-runs the failed jobs of an     *)
(* older run, or when detect got no answer from npm and took the package   *)
(* for a new one: a run that has compared, of an old commit or a new one,  *)
(* queued or dispatched, never moves it back.                              *)
(***************************************************************************)
LatestKeeps ==
    [][\A p \in Packages :
          latest'[p] < latest[p] => run.mode = "failed" \/ p \in run.blind]_vars

(***************************************************************************)
(* A hygiene run with action=full in which nothing fails, and beside which *)
(* nothing is released, leaves no drift: every version on npm has a tag    *)
(* and every tag a release.                                                *)
(***************************************************************************)
FullRunRepairs ==
    [][/\ hygiene.step = "issue" /\ hygiene'.step = "idle"
       /\ hygiene.action = "full" /\ hygiene.well
       => \A p \in Packages : releases[p] = On(published, p)]_vars

(***************************************************************************)
(* A report in which nothing fails, and beside which nothing is released,  *)
(* leaves the tracking issue open if and only if a version on npm has no   *)
(* tag: whatever the runs before it, answered or not, have left there.     *)
(* release-hygiene.yml:250 has the issue say that this is why it is open.  *)
(***************************************************************************)
MissingTags == \E p \in Packages : On(published, p) \ On(tags, p) # {}

IssueTellsMissing ==
    [][TrackIssue /\ hygiene.action = "report" /\ hygiene.well => (issue' <=> MissingTags)]_vars

(***************************************************************************)
(* release.yml:496 says "If tags / npm / GH Releases drift, the weekly     *)
(* release-hygiene.yml workflow opens a tracking issue".  A release that   *)
(* is missing is drift to release-hygiene.yml:11-14 as well, and so an     *)
(* undisturbed report with no release under way leaves the issue open.     *)
(***************************************************************************)
Drift == MissingTags \/ \E p \in Packages : On(tags, p) \ releases[p] # {}

IssueTellsDrift ==
    [][TrackIssue /\ hygiene.action = "report" /\ hygiene.well /\ run = NoRun
         => (issue' <=> Drift)]_vars
=============================================================================
