------------------------------- MODULE Builds -------------------------------
(***************************************************************************)
(* The CI build queue of gitbayd: the builds table (internal/store/        *)
(* builds.go), the ci/<job> commit statuses (internal/store/statuses.go),  *)
(* the commands that queue, cancel, claim and report builds (internal/     *)
(* control/build.go), the scheduler that queues scheduled jobs and code    *)
(* scans and reaps abandoned builds (internal/ci/sched.go), and the runner *)
(* program that polls, executes and reports (cmd/gitbay-runner).           *)
(*                                                                         *)
(* Every SQL statement or transaction is one atomic step; what a handler   *)
(* still has to do after a statement is kept in "inflight", "queueing",    *)
(* "runner" and "reap", where another actor's step may come first and a    *)
(* restart of the server loses it.                                         *)
(***************************************************************************)
EXTENDS Integers, FiniteSets

CONSTANTS
    Repos,        \* repository ids; a deleted one never comes back
    Shas,         \* commits
    Jobs,         \* job names
    Scheduled,    \* the jobs with a cron schedule, which a push does not queue
    SecurityJob,  \* ci.SecurityJob, the code scan's name; a job only if the
                  \* server has a scan image configured
    TagJobs,      \* the jobs with a tag pattern, which only a tag push queues
    Refs,         \* what a build is made for: branches, tags and merge
                  \* request heads
    Branches,     \* the refs that are branches
    Tags,         \* the refs that are tags
    DefaultBranch,
    Trees,        \* the trees of the commits
    TreeOf,       \* commit -> tree
    Runners,      \* runner processes, each with its own key
    MayClaim,     \* runner -> the <<repo, job>> pairs its key is attached to
    Isolating,    \* the runners that poll with --untrusted
    MaxBuilds,    \* bound: build ids ever handed out
    MaxQueueing,  \* bound: jobs pushes have decided on and not yet queued
    MaxCrashes,   \* bound: restarts of the server
    MaxDeaths     \* bound: runner processes killed

ASSUME ConstantsAssumption ==
    /\ TagJobs \subseteq Jobs \ {SecurityJob}
    /\ Scheduled \subseteq Jobs \ (TagJobs \cup {SecurityJob})
    /\ Branches \subseteq Refs
    /\ Tags \subseteq Refs \ Branches
    /\ DefaultBranch \in Branches
    /\ TreeOf \in [Shas -> Trees]
    /\ MayClaim \in [Runners -> SUBSET (Repos \X Jobs)]
    /\ Isolating \subseteq Runners

ASSUME BoundsAssumption ==
    /\ MaxBuilds \in Nat
    /\ MaxQueueing \in Nat
    /\ MaxCrashes \in Nat
    /\ MaxDeaths \in Nat

VARIABLES
    repos,     \* rows of the repos table
    builds,    \* the builds table: a function from the ids that have a row
    idSeq,     \* settings.build_id_seq, the high-water mark of build ids
    statuses,  \* commit_statuses: the ci/<job> state of a commit
    queueing,  \* jobs a queueJobs call has decided to build or reuse
    inflight,  \* commit-status writes that handlers have still to do
    runner,    \* what each runner process is doing
    logs,      \* ids whose runner log session is open on the server
    reap,      \* the scheduler's reapStale call
    crashes, deaths,  \* counters for the bounds
    claims     \* history: how often each id was handed out by ClaimBuildFor

vars == <<repos, builds, idSeq, statuses, queueing, inflight,
          runner, logs, reap, crashes, deaths, claims>>

-----------------------------------------------------------------------------
(* The shape of the state *)

Ids == 1..MaxBuilds
BuildStatus == {"pending", "running", "success", "failure", "cancelled"}
Terminal == {"success", "failure", "cancelled"}
CheckState == {"none", "pending", "success", "failure", "error", "skipped"}

Build == [repo: Repos, sha: Shas, job: Jobs, ref: Refs, status: BuildStatus,
          tree: Trees \cup {""}, logClosed: BOOLEAN, stale: BOOLEAN,
          reaped: BOOLEAN]

\* A commit status is kept per repository, commit and context.
Checks == Repos \X Shas \X Jobs
CheckOf(b) == <<b.repo, b.sha, b.job>>

\* A build for a branch or a tag is the repository's own; one for a merge
\* request head is a stranger's code (#258).
Trusted(b) == b.ref \in Branches \cup Tags

\* What a handler has still to do for the build it changed: "set" is a
\* SetCommitStatus to come, "resolve" is resolveCancelledCommitStatus
\* before its read of SuccessBuildFor.
Continuation == [id: Ids, op: {"set", "resolve"}, state: CheckState]

QueueTask == [repo: Repos, sha: Shas, ref: Refs, job: Jobs, elsewhere: BOOLEAN]

RunnerState == [pc: {"idle", "claimed", "executing", "reporting"},
                id: Ids \cup {0}, check: Checks \cup {<<>>},
                outcome: {"", "success", "failure"}]
IdleRunner == [pc |-> "idle", id |-> 0, check |-> <<>>, outcome |-> ""]

ReapState == [pc: {"idle", "failing", "resolving"},
              todo: SUBSET Ids, stale: SUBSET Ids]
IdleReap == [pc |-> "idle", todo |-> {}, stale |-> {}]

TypeOK ==
    /\ repos \subseteq Repos
    /\ DOMAIN builds \subseteq Ids
    /\ builds \in [DOMAIN builds -> Build]
    /\ idSeq \in 0..MaxBuilds
    /\ statuses \in [Checks -> CheckState]
    /\ queueing \subseteq QueueTask
    /\ inflight \subseteq Continuation
    /\ runner \in [Runners -> RunnerState]
    /\ logs \subseteq Ids
    /\ reap \in ReapState
    /\ crashes \in 0..MaxCrashes
    /\ deaths \in 0..MaxDeaths
    /\ claims \in [Ids -> Nat]

Init ==
    /\ repos = Repos
    /\ builds = [i \in {} |-> i]
    /\ idSeq = 0
    /\ statuses = [k \in Checks |-> "none"]
    /\ queueing = {}
    /\ inflight = {}
    /\ runner = [w \in Runners |-> IdleRunner]
    /\ logs = {}
    /\ reap = IdleReap
    /\ crashes = 0
    /\ deaths = 0
    /\ claims = [i \in Ids |-> 0]

-----------------------------------------------------------------------------
(* The store: reads and writes of the builds table *)

Highest(S) == CHOOSE n \in S : \A m \in S : m <= n

\* Every build of a commit for a job, on any ref (BuildsForCommit).
BuildsForCommit(r, s, j) ==
    {i \in DOMAIN builds : CheckOf(builds[i]) = <<r, s, j>>}

\* ... on one ref (BuildsForCommitOnRef).
BuildsForCommitOnRef(r, s, j, ref) ==
    {i \in BuildsForCommit(r, s, j) : builds[i].ref = ref}

\* Trusted successes of a job on a tree and ref; an empty tree never
\* matches.
SuccessBuildForTree(r, s, j, ref) ==
    {i \in DOMAIN builds :
        /\ builds[i].repo = r /\ builds[i].job = j /\ builds[i].ref = ref
        /\ builds[i].tree = TreeOf[s]
        /\ Trusted(builds[i]) /\ builds[i].status = "success"}

\* A trusted success of the commit for the job, on any ref.
SuccessBuildFor(k) ==
    {i \in DOMAIN builds : /\ CheckOf(builds[i]) = k
                           /\ Trusted(builds[i])
                           /\ builds[i].status = "success"}

Active(i) == builds[i].status \in {"pending", "running"}
Running(i) == i \in DOMAIN builds /\ builds[i].status = "running"

\* A plausible mistake: the high-water mark is forgotten.
NextBuildIdByRows == Highest(DOMAIN builds \cup {0}) + 1

\* The id the next row gets: above every row and above the high-water mark,
\* which outlives the rows of a deleted repository (#306).
NextBuildId == Highest(DOMAIN builds \cup {idSeq}) + 1

\* One transaction: the row is pending and the high-water mark is its id.
CreateBuild(r, j, s, ref, tree) ==
    /\ NextBuildId \in Ids
    /\ builds' = [i \in DOMAIN builds \cup {NextBuildId} |->
                    IF i = NextBuildId
                    THEN [repo |-> r, sha |-> s, job |-> j, ref |-> ref,
                          status |-> "pending", tree |-> tree,
                          logClosed |-> FALSE, stale |-> FALSE,
                          reaped |-> FALSE]
                    ELSE builds[i]]
    /\ idSeq' = NextBuildId

\* A plausible mistake: any existing row takes the outcome.
FinishAnyBuild(i, outcome) ==
    /\ i \in DOMAIN builds
    /\ builds' = [builds EXCEPT ![i].status = outcome]

\* UPDATE ... WHERE id = ? AND status = 'running'.
FinishBuild(i, outcome) ==
    /\ Running(i)
    /\ builds' = [builds EXCEPT ![i].status = outcome]

\* A plausible mistake: the row takes the commit status of a cancelled build.
CancelAsError(i) ==
    /\ i \in DOMAIN builds
    /\ Active(i)
    /\ builds' = [builds EXCEPT ![i].status = "error"]

\* UPDATE ... WHERE id = ? AND status IN ('pending', 'running').
CancelBuild(i) ==
    /\ i \in DOMAIN builds
    /\ Active(i)
    /\ builds' = [builds EXCEPT ![i].status = "cancelled"]

\* UPDATE ... WHERE status = 'running' AND log_closed_at = ''; otherwise no
\* row matches and nothing changes.
MarkBuildLogClosed(i) ==
    builds' = IF Running(i) THEN [builds EXCEPT ![i].logClosed = TRUE]
                            ELSE builds

SetCommitStatus(k, state) == statuses' = [statuses EXCEPT ![k] = state]

Then(i, op, state) ==
    inflight' = inflight \cup {[id |-> i, op |-> op, state |-> state]}

-----------------------------------------------------------------------------
(* Queueing: pushes, triggers, the scheduler *)

\* A build that passed, or is queued or running, stands for the commit
\* unless this queue is trusted and that build was not.
Stands(S, trusted) ==
    /\ S # {}
    /\ LET b == builds[Highest(S)]
       IN  /\ Trusted(b) \/ ~trusted
           /\ b.status \in {"success", "pending", "running"}

\* A push of s to a branch (QueueBranchBuilds) or to a fork's merge request
\* head (QueueMRBuilds): queueJobs reads which builds stand and decides the
\* jobs to go on with.
QueueJobs(r, s, ref) ==
    /\ r \in repos
    /\ ref \notin Tags
    /\ idSeq < MaxBuilds /\ Cardinality(queueing) < MaxQueueing
    /\ LET trusted == ref \in Branches
       IN  queueing' = queueing \cup
             {[repo |-> r, sha |-> s, ref |-> ref, job |-> j,
               elsewhere |-> Stands(BuildsForCommit(r, s, j), trusted)] :
                j \in {j \in Jobs \ (TagJobs \cup {SecurityJob}) :
                        ~Stands(BuildsForCommitOnRef(r, s, j, ref), trusted)}}
    /\ UNCHANGED <<repos, builds, idSeq, statuses, inflight, runner, logs,
                   reap, crashes, deaths, claims>>

\* The same tree already passed this job on this ref as another commit.
SameTree(t) ==
    LET S == SuccessBuildForTree(t.repo, t.sha, t.job, t.ref)
    IN  S # {} /\ builds[Highest(S)].sha # t.sha

\* queueJobs goes on with one job: the commit takes over the success of the
\* same tree, a scheduled job waits for its cron, a path filter (branches
\* only, its verdict is data) skips it, or a build is created and its
\* pending status is left to be written.
QueueJob(t) ==
    /\ t \in queueing
    /\ queueing' = queueing \ {t}
    /\ \/ /\ SameTree(t)
          /\ SetCommitStatus(<<t.repo, t.sha, t.job>>, "success")
          /\ UNCHANGED <<builds, idSeq, inflight>>
       \/ /\ ~SameTree(t)
          /\ t.job \in Scheduled
          /\ UNCHANGED <<builds, idSeq, statuses, inflight>>
       \/ /\ ~SameTree(t)
          /\ t.job \notin Scheduled
          /\ t.ref \in Branches
          /\ IF t.elsewhere THEN UNCHANGED statuses
             ELSE SetCommitStatus(<<t.repo, t.sha, t.job>>, "skipped")
          /\ UNCHANGED <<builds, idSeq, inflight>>
       \/ /\ ~SameTree(t)
          /\ t.job \notin Scheduled
          /\ CreateBuild(t.repo, t.job, t.sha, t.ref, TreeOf[t.sha])
          /\ Then(NextBuildId, "set", "pending")
          /\ UNCHANGED statuses
    /\ UNCHANGED <<repos, runner, logs, reap, crashes, deaths,
                   claims>>

\* build trigger: a writer runs one job of the default branch's tip.
BuildTrigger(r, s, j) ==
    /\ r \in repos
    /\ j # SecurityJob
    /\ CreateBuild(r, j, s, DefaultBranch, TreeOf[s])
    /\ Then(NextBuildId, "set", "pending")
    /\ UNCHANGED <<repos, statuses, queueing, runner, logs, reap,
                   crashes, deaths, claims>>

\* A tag is pushed: its jobs run on the commit, whatever stands for it.
QueueTagBuilds(r, s, j, tag) ==
    /\ r \in repos
    /\ j \in TagJobs
    /\ tag \in Tags
    /\ CreateBuild(r, j, s, tag, "")
    /\ Then(NextBuildId, "set", "pending")
    /\ UNCHANGED <<repos, statuses, queueing, runner, logs, reap,
                   crashes, deaths, claims>>

NoneActive(S) == S # {} => ~Active(Highest(S))

\* The scheduler's tick queues a due job unless its newest build of the
\* commit is still pending or running (#206). reapStale runs first, in the
\* same goroutine.
RunDue(r, s, j) ==
    /\ r \in repos
    /\ j \in Scheduled
    /\ reap.pc = "idle"
    /\ NoneActive(BuildsForCommit(r, s, j))
    /\ CreateBuild(r, j, s, DefaultBranch, "")
    /\ Then(NextBuildId, "set", "pending")
    /\ UNCHANGED <<repos, statuses, queueing, runner, logs, reap,
                   crashes, deaths, claims>>

\* The code scan: same rule, and no commit status.
QueueSecurityScan(r, s) ==
    /\ SecurityJob \in Jobs
    /\ r \in repos
    /\ NoneActive(BuildsForCommit(r, s, SecurityJob))
    /\ CreateBuild(r, SecurityJob, s, DefaultBranch, "")
    /\ UNCHANGED <<repos, statuses, queueing, inflight, runner,
                   logs, reap, crashes, deaths, claims>>

-----------------------------------------------------------------------------
(* What handlers do after their first write *)

\* SetCommitStatus at the end of queueJobs, runBuildTrigger, RunDue,
\* runRunnerDone and resolveCancelledCommitStatus.
WriteStatus(c) ==
    /\ c \in inflight
    /\ c.op = "set"
    /\ SetCommitStatus(CheckOf(builds[c.id]), c.state)
    /\ inflight' = inflight \ {c}
    /\ UNCHANGED <<repos, builds, idSeq, queueing, runner, logs,
                   reap, crashes, deaths, claims>>

\* resolveCancelledCommitStatus reads whether the commit passed the job
\* elsewhere: that result stands again, otherwise the context is an error.
ResolveCancelled(c) ==
    /\ c \in inflight
    /\ c.op = "resolve"
    /\ inflight' = (inflight \ {c}) \cup
         {[id |-> c.id, op |-> "set",
           state |-> IF SuccessBuildFor(CheckOf(builds[c.id])) # {}
                     THEN "success" ELSE "error"]}
    /\ UNCHANGED <<repos, builds, idSeq, statuses, queueing, runner,
                   logs, reap, crashes, deaths, claims>>

\* build cancel by a person with write access.
BuildCancel(i) ==
    /\ CancelBuild(i)
    /\ Then(i, "resolve", "none")
    /\ UNCHANGED <<repos, idSeq, statuses, queueing, runner, logs,
                   reap, crashes, deaths, claims>>

-----------------------------------------------------------------------------
(* Runners *)

\* A plausible mistake: a build whose log stream ended is handed out again.
ClaimableOrLost(w) ==
    {i \in DOMAIN builds :
        /\ \/ builds[i].status = "pending"
           \/ builds[i].status = "running" /\ builds[i].logClosed
        /\ <<builds[i].repo, builds[i].job>> \in MayClaim[w]
        /\ Trusted(builds[i]) \/ w \in Isolating}

\* What the key behind runner w may be handed (RunnerRepoIDs and
\* RunnerJobFilters, and --untrusted).
Claimable(w) ==
    {i \in DOMAIN builds :
        /\ builds[i].status = "pending"
        /\ <<builds[i].repo, builds[i].job>> \in MayClaim[w]
        /\ Trusted(builds[i]) \/ w \in Isolating}

\* runner next: one transaction claims the oldest claimable build.
ClaimBuildFor(w) ==
    /\ runner[w].pc = "idle"
    /\ \E i \in Claimable(w) :
         /\ \A k \in Claimable(w) : i <= k
         /\ builds' = [builds EXCEPT ![i].status = "running"]
         /\ claims' = [claims EXCEPT ![i] = @ + 1]
         /\ runner' = [runner EXCEPT ![w] =
                         [pc |-> "claimed", id |-> i,
                          check |-> CheckOf(builds[i]), outcome |-> ""]]
    /\ UNCHANGED <<repos, idSeq, statuses, queueing, inflight, logs,
                   reap, crashes, deaths>>

\* runner next, the commit is reachable or the check itself failed: the
\* build is handed out, the runner opens its one log session, which may
\* never connect.
HandOut(w) ==
    /\ runner[w].pc = "claimed"
    /\ runner' = [runner EXCEPT ![w].pc = "executing"]
    /\ \/ logs' = logs \cup ({runner[w].id} \cap DOMAIN builds)
       \/ UNCHANGED logs
    /\ UNCHANGED <<repos, builds, idSeq, statuses, queueing,
                   inflight, reap, crashes, deaths, claims>>

\* runner next, a force-push has left the commit unreachable (git's answer,
\* so either may be taken): cancelOrphanedBuild withdraws the build and the
\* poll goes on; a build somebody else ended meanwhile ends it with an error.
CancelOrphaned(w) ==
    LET i == runner[w].id
    IN  /\ runner[w].pc = "claimed"
        /\ \/ CancelBuild(i) /\ Then(i, "resolve", "none")
           \/ /\ ~Running(i)
              /\ UNCHANGED <<builds, inflight>>
        /\ runner' = [runner EXCEPT ![w] = IdleRunner]
        /\ UNCHANGED <<repos, idSeq, statuses, queueing, logs, reap,
                       crashes, deaths, claims>>

\* runner next fails after the claim (a store error, or the reply is lost):
\* the build stays running with nobody executing it.
NextFails(w) ==
    /\ runner[w].pc = "claimed"
    /\ runner' = [runner EXCEPT ![w] = IdleRunner]
    /\ UNCHANGED <<repos, builds, idSeq, statuses, queueing,
                   inflight, logs, reap, crashes, deaths, claims>>

\* The log stream is lost: the server sees it end and marks the build; the
\* runner's sink swallows the error and the build goes on.
LogLost(i) ==
    /\ i \in logs
    /\ logs' = logs \ {i}
    /\ MarkBuildLogClosed(i)
    /\ UNCHANGED <<repos, idSeq, statuses, queueing, inflight,
                   runner, reap, crashes, deaths, claims>>

\* The server's watch on the log session: the row no longer says running,
\* the session ends with exit 3 and the runner stops the build.
LogWatch(i) ==
    /\ i \in logs \cap DOMAIN builds
    /\ ~Running(i)
    /\ logs' = logs \ {i}
    /\ runner' = [w \in Runners |->
                    IF runner[w].pc = "executing" /\ runner[w].id = i
                    THEN [runner[w] EXCEPT !.pc = "reporting",
                                           !.outcome = "failure"]
                    ELSE runner[w]]
    /\ UNCHANGED <<repos, builds, idSeq, statuses, queueing,
                   inflight, reap, crashes, deaths, claims>>

\* The steps end, or the runner's own timeout ends them: the runner closes
\* the log stream, which the server marks, and then reports.
RunEnds(w) ==
    /\ runner[w].pc = "executing"
    /\ \E outcome \in {"success", "failure"} :
         runner' = [runner EXCEPT ![w].pc = "reporting",
                                  ![w].outcome = outcome]
    /\ LET i == runner[w].id
       IN  /\ logs' = logs \ {i}
           /\ IF i \in logs THEN MarkBuildLogClosed(i) ELSE UNCHANGED builds
    /\ UNCHANGED <<repos, idSeq, statuses, queueing, inflight, reap,
                   crashes, deaths, claims>>

\* A plausible mistake: the status is written whether or not FinishBuild took the
\* outcome.
RunnerDoneUnchecked(w) ==
    LET i == runner[w].id
        outcome == runner[w].outcome
    IN  /\ runner[w].pc = "reporting"
        /\ FinishBuild(i, outcome) \/ (~Running(i) /\ UNCHANGED builds)
        /\ IF i \in DOMAIN builds THEN Then(i, "set", outcome)
           ELSE UNCHANGED inflight
        /\ runner' = [runner EXCEPT ![w] = IdleRunner]
        /\ UNCHANGED <<repos, idSeq, statuses, queueing, logs, reap,
                       crashes, deaths, claims>>

\* runner done: a running build takes the outcome and its commit status is
\* left to be written, except for the code scan; a report on a build that is
\* gone, cancelled or already ended changes nothing.
RunnerDone(w) ==
    LET i == runner[w].id
        outcome == runner[w].outcome
    IN  /\ runner[w].pc = "reporting"
        /\ \/ /\ FinishBuild(i, outcome)
              /\ IF builds[i].job = SecurityJob THEN UNCHANGED inflight
                 ELSE Then(i, "set", outcome)
           \/ /\ ~Running(i)
              /\ UNCHANGED <<builds, inflight>>
        /\ runner' = [runner EXCEPT ![w] = IdleRunner]
        /\ UNCHANGED <<repos, idSeq, statuses, queueing, logs, reap,
                       crashes, deaths, claims>>

\* reportWithRetry gives up: the server stayed unreachable for every retry.
ReportGivesUp(w) ==
    /\ runner[w].pc = "reporting"
    /\ runner' = [runner EXCEPT ![w] = IdleRunner]
    /\ UNCHANGED <<repos, builds, idSeq, statuses, queueing,
                   inflight, logs, reap, crashes, deaths, claims>>

\* The runner is killed mid-build. Its log session ends later, as LogLost.
\* (Killed earlier or later, it is NextFails or ReportGivesUp.)
RunnerDies(w) ==
    /\ runner[w].pc = "executing"
    /\ deaths < MaxDeaths
    /\ deaths' = deaths + 1
    /\ runner' = [runner EXCEPT ![w] = IdleRunner]
    /\ UNCHANGED <<repos, builds, idSeq, statuses, queueing,
                   inflight, logs, reap, crashes, claims>>

-----------------------------------------------------------------------------
(* The reaper *)

\* Two minutes (StaleLogGrace) have passed since the stream ended. No
\* handler stalls that long between two statements, and the runner's retries
\* last about thirty seconds.
GraceExpires(i) ==
    /\ Running(i)
    /\ builds[i].logClosed
    /\ ~builds[i].stale
    /\ \A c \in inflight : c.id # i
    /\ \A w \in Runners :
         runner[w].id = i => runner[w].pc = "executing"
    /\ builds' = [builds EXCEPT ![i].stale = TRUE]
    /\ UNCHANGED <<repos, idSeq, statuses, queueing, inflight,
                   runner, logs, reap, crashes, deaths, claims>>

\* A plausible mistake: the deadline counts only for a build whose log was opened.
DeadlineNeedsLog(i) ==
    /\ Running(i)
    /\ builds[i].logClosed
    /\ ~builds[i].stale
    /\ \A c \in inflight : c.id # i
    /\ \A w \in Runners : runner[w].id # i
    /\ builds' = [builds EXCEPT ![i].stale = TRUE]
    /\ UNCHANGED <<repos, idSeq, statuses, queueing, inflight,
                   runner, logs, reap, crashes, deaths, claims>>

\* Ninety minutes (StaleBuildDeadline) have passed since the claim, longer
\* than the runner's own timeout: no runner is at work on the build.
DeadlineExpires(i) ==
    /\ Running(i)
    /\ ~builds[i].stale
    /\ \A c \in inflight : c.id # i
    /\ \A w \in Runners : runner[w].id # i
    /\ builds' = [builds EXCEPT ![i].stale = TRUE]
    /\ UNCHANGED <<repos, idSeq, statuses, queueing, inflight,
                   runner, logs, reap, crashes, deaths, claims>>

\* ReapStaleBuilds lists the stale builds.
ReapList ==
    LET S == {i \in DOMAIN builds : Running(i) /\ builds[i].stale}
    IN  /\ reap.pc = "idle"
        /\ S # {}
        /\ reap' = [pc |-> "failing", todo |-> S, stale |-> S]
        /\ UNCHANGED <<repos, builds, idSeq, statuses, queueing,
                       inflight, runner, logs, crashes, deaths, claims>>

\* ReapStaleBuilds fails the next one. FinishBuild refuses a build that
\* ended since the list was read, and the whole call returns that error:
\* reapStale logs it and resolves nothing.
ReapFail(i) ==
    /\ reap.pc = "failing"
    /\ i \in reap.todo
    /\ \/ /\ Running(i)
          /\ builds' = [builds EXCEPT ![i].status = "failure",
                                      ![i].reaped = TRUE]
          /\ reap' = [reap EXCEPT
                        !.todo = @ \ {i},
                        !.pc = IF reap.todo = {i} THEN "resolving" ELSE @]
       \/ /\ ~Running(i)
          /\ reap' = IdleReap
          /\ UNCHANGED builds
    /\ UNCHANGED <<repos, idSeq, statuses, queueing, inflight,
                   runner, logs, crashes, deaths, claims>>

\* reapStale resolves the commit status of each build it failed.
ReapResolve(i) ==
    /\ reap.pc = "resolving"
    /\ i \in reap.stale
    /\ IF i \in DOMAIN builds
       THEN SetCommitStatus(CheckOf(builds[i]), "failure")
       ELSE UNCHANGED statuses
    /\ reap' = IF reap.stale = {i} THEN IdleReap
               ELSE [reap EXCEPT !.stale = @ \ {i}]
    /\ UNCHANGED <<repos, builds, idSeq, queueing, inflight, runner,
                   logs, crashes, deaths, claims>>

-----------------------------------------------------------------------------
(* The rest of the world *)

\* A repository is deleted: its builds and statuses cascade, and a handler
\* that holds one of its builds finds no row to write.
DeleteRepo(r) ==
    LET kept == {i \in DOMAIN builds : builds[i].repo # r}
    IN  /\ r \in repos
        /\ repos' = repos \ {r}
        /\ builds' = [i \in kept |-> builds[i]]
        /\ statuses' = [k \in Checks |-> IF k[1] = r THEN "none"
                                         ELSE statuses[k]]
        /\ queueing' = {t \in queueing : t.repo # r}
        /\ inflight' = {c \in inflight : c.id \in kept}
        /\ UNCHANGED <<idSeq, runner, logs, reap, crashes, deaths,
                       claims>>

\* The server restarts: every handler in progress is lost, and open log
\* sessions end without being marked.
ServerRestart ==
    /\ crashes < MaxCrashes
    /\ crashes' = crashes + 1
    /\ queueing' = {}
    /\ inflight' = {}
    /\ logs' = {}
    /\ reap' = IdleReap
    /\ runner' = [w \in Runners |-> IF runner[w].pc = "claimed"
                                    THEN IdleRunner ELSE runner[w]]
    /\ UNCHANGED <<repos, builds, idSeq, statuses, deaths, claims>>

Requests ==
    \/ \E r \in Repos, s \in Shas :
         \/ \E ref \in Refs : \/ QueueJobs(r, s, ref)
                            \/ \E j \in Jobs : QueueTagBuilds(r, s, j, ref)
         \/ \E j \in Jobs : BuildTrigger(r, s, j) \/ RunDue(r, s, j)
         \/ QueueSecurityScan(r, s)
    \/ \E r \in Repos : DeleteRepo(r)
    \/ \E i \in Ids : BuildCancel(i)

Handlers ==
    \/ \E t \in queueing : QueueJob(t)
    \/ \E c \in inflight : WriteStatus(c) \/ ResolveCancelled(c)

RunnerSteps(w) ==
    \/ ClaimBuildFor(w) \/ HandOut(w) \/ CancelOrphaned(w) \/ NextFails(w)
    \/ RunEnds(w) \/ RunnerDone(w) \/ ReportGivesUp(w) \/ RunnerDies(w)

LogSessions == \E i \in Ids : LogLost(i) \/ LogWatch(i)

Reaper ==
    \/ \E i \in Ids : GraceExpires(i) \/ DeadlineExpires(i)
    \/ ReapList
    \/ \E i \in Ids : ReapFail(i) \/ ReapResolve(i)

Next ==
    \/ Requests
    \/ Handlers
    \/ \E w \in Runners : RunnerSteps(w)
    \/ LogSessions
    \/ Reaper
    \/ ServerRestart

Spec == Init /\ [][Next]_vars

\* What keeps going without anybody asking: a handler runs on, a runner's
\* steps and its report end (its own timeout and retries bound them), time
\* passes, and the scheduler ticks. Polling, requests, lost streams, deaths
\* and restarts are not forced.
Fairness ==
    /\ \A w \in Runners :
         WF_vars(HandOut(w) \/ CancelOrphaned(w) \/ NextFails(w))
         /\ WF_vars(RunEnds(w))
         /\ WF_vars(RunnerDone(w) \/ ReportGivesUp(w))
    /\ \A i \in Ids :
         /\ WF_vars(GraceExpires(i) \/ DeadlineExpires(i))
         /\ WF_vars(ReapFail(i))
         /\ WF_vars(ReapResolve(i))
         /\ WF_vars(\E c \in inflight : c.id = i
                       /\ (WriteStatus(c) \/ ResolveCancelled(c)))
    /\ WF_vars(ReapList)

FairSpec == Spec /\ Fairness

-----------------------------------------------------------------------------
(* Properties that hold *)

\* Whichever of the runner's report, a cancel and the reaper ends a build
\* first decides its status for good; the late ones change nothing
\* (FinishBuild and CancelBuild update only a row still running or active).
TerminalIsFinal ==
    [][\A i \in DOMAIN builds \cap DOMAIN builds' :
         builds[i].status \in Terminal => builds'[i].status = builds[i].status]_vars

\* ClaimBuildFor hands a build to one runner and never again: not after a
\* lost reply, a runner's death, a reap or a restart.
ClaimedOnce == \A i \in Ids : claims[i] <= 1

\* The id a runner holds never comes to name another build, even after the
\* deletion of a repository took the newest builds with it (#306), so runner
\* log and runner done land on the build the runner was given.
ReportsOwnBuild ==
    \A w \in Runners :
        /\ runner[w].pc # "idle"
        /\ runner[w].id \in DOMAIN builds
        => CheckOf(builds[runner[w].id]) = runner[w].check

\* A ci/<job> status is green only if a build of the repository passed that
\* job on that commit, or a trusted one did on the same tree: no late report,
\* cancel or reuse marks a commit passed that was not.
NoFalseGreen ==
    \A k \in Checks : statuses[k] = "success" =>
        \E i \in DOMAIN builds :
            /\ builds[i].status = "success"
            /\ builds[i].repo = k[1] /\ builds[i].job = k[3]
            /\ \/ builds[i].sha = k[2]
               \/ builds[i].tree = TreeOf[k[2]] /\ Trusted(builds[i])

\* A claimed build does not stay running: its runner's report, a cancel or
\* the reaper ends it, whatever dies or restarts on the way (#179).
EveryClaimResolves ==
    \A i \in Ids : Running(i) ~> ~Running(i)

-----------------------------------------------------------------------------
(* What comments in the source say and the code does not do *)

\* ReapStaleBuilds "fails every running build whose runner is gone": a build
\* it fails has no runner executing it.
ReapsOnlyGone ==
    \A i \in DOMAIN builds : builds[i].reaped =>
        \A w \in Runners : ~(runner[w].pc = "executing" /\ runner[w].id = i)

\* reapStale leaves no "commit pending forever": when the call is over, the
\* commit status of every build it failed is resolved.
AbandonedResolved ==
    [][reap.pc # "idle" /\ reap'.pc = "idle" /\ crashes' = crashes =>
         \A i \in reap.stale \cap DOMAIN builds' :
            builds'[i].reaped => statuses'[CheckOf(builds'[i])] # "pending"]_vars

\* QueueSecurityScan "sets no commit status": the code scan never has one.
ScanSetsNoStatus ==
    \A k \in Checks : k[3] = SecurityJob => statuses[k] = "none"

=============================================================================
