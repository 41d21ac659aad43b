---------------------------- MODULE BuildsProofs ----------------------------
(***************************************************************************)
(* Proofs about Builds, for any repositories, commits, jobs, runners and   *)
(* bounds: its types, and from one inductive invariant that ids are never  *)
(* reused, a build is claimed at most once, a runner's report lands on the *)
(* build it was given, an outcome is final, and no commit status is        *)
(* falsely green.                                                          *)
(***************************************************************************)
EXTENDS Builds, TLAPS

USE DEF Ids

-----------------------------------------------------------------------------
(* Type correctness *)

\* A handler only writes the status of a build that has a row: DeleteRepo
\* drops what is in flight for the rows it takes away.
InflightHasRow == \A c \in inflight : c.id \in DOMAIN builds

\* A runner that reports has an outcome to report.
ReportHasOutcome ==
    \A w \in Runners : runner[w].pc = "reporting" =>
        runner[w].outcome \in {"success", "failure"}

TypeInv == TypeOK /\ InflightHasRow

LEMMA InitType == Init => TypeInv
<1> SUFFICES ASSUME Init PROVE TypeInv
  OBVIOUS
<1>1. DOMAIN builds = {} /\ builds \in [DOMAIN builds -> Build]
  BY DEF Init
<1>2. IdleRunner \in RunnerState
  BY BoundsAssumption DEF IdleRunner, RunnerState
<1>3. IdleReap \in ReapState
  BY DEF IdleReap, ReapState
<1>4. statuses \in [Checks -> CheckState]
  BY DEF Init, CheckState
<1> QED
  BY <1>1, <1>2, <1>3, <1>4, BoundsAssumption DEF Init, TypeInv, TypeOK, InflightHasRow

LEMMA IdsFromZero == Ids \subseteq 0..MaxBuilds
BY BoundsAssumption

\* Changing one row of the table keeps its shape.
LEMMA RowUpdate ==
    ASSUME TypeOK, NEW i \in DOMAIN builds, NEW b \in Build
    PROVE  LET t == [builds EXCEPT ![i] = b]
           IN  DOMAIN t = DOMAIN builds /\ t \in [DOMAIN t -> Build]
BY DEF TypeOK

LEMMA RowStatus ==
    ASSUME NEW b \in Build, NEW st \in BuildStatus
    PROVE  /\ [b EXCEPT !.status = st] \in Build
           /\ [b EXCEPT !.status = st, !.reaped = TRUE] \in Build
BY DEF Build

LEMMA RowStale ==
    ASSUME NEW b \in Build
    PROVE  [b EXCEPT !.stale = TRUE] \in Build
BY DEF Build

\* CreateBuild adds one row of the right shape, under a new id.
LEMMA CreateType ==
    ASSUME TypeOK, NEW r \in Repos, NEW j \in Jobs, NEW s \in Shas,
           NEW ref \in Refs, NEW tree \in Trees \cup {""},
           CreateBuild(r, j, s, ref, tree)
    PROVE  /\ DOMAIN builds' = DOMAIN builds \cup {NextBuildId}
           /\ DOMAIN builds' \subseteq Ids
           /\ builds' \in [DOMAIN builds' -> Build]
           /\ idSeq' \in 0..MaxBuilds
           /\ NextBuildId \in Ids
<1> DEFINE row == [repo |-> r, sha |-> s, job |-> j, ref |-> ref,
                   status |-> "pending", tree |-> tree, logClosed |-> FALSE,
                   stale |-> FALSE, reaped |-> FALSE]
<1>1. row \in Build
  BY DEF Build, BuildStatus
<1>2. builds' = [i \in DOMAIN builds \cup {NextBuildId} |->
                   IF i = NextBuildId THEN row ELSE builds[i]]
  BY DEF CreateBuild
<1> HIDE DEF row
<1>3. NextBuildId \in Ids /\ idSeq' = NextBuildId
  BY DEF CreateBuild
<1>4. DOMAIN builds' = DOMAIN builds \cup {NextBuildId}
  BY <1>2
<1>5. builds' \in [DOMAIN builds' -> Build]
  BY <1>1, <1>2 DEF TypeOK
<1> QED
  <2>1. DOMAIN builds' \subseteq Ids
    BY <1>3, <1>4 DEF TypeOK
  <2>2. idSeq' \in 0..MaxBuilds
    BY <1>3, IdsFromZero
  <2> QED
    BY <1>3, <1>4, <1>5, <2>1, <2>2

\* What Then adds to inflight is a continuation of an existing row.
LEMMA ThenType ==
    ASSUME TypeInv, NEW i \in Ids, NEW op \in {"set", "resolve"},
           NEW state \in CheckState, Then(i, op, state),
           i \in DOMAIN builds', DOMAIN builds \subseteq DOMAIN builds'
    PROVE  inflight' \subseteq Continuation /\ InflightHasRow'
BY DEF TypeInv, TypeOK, InflightHasRow, Then, Continuation

\* Every action keeps the shape of the state.
LEMMA NextType == TypeInv /\ ReportHasOutcome /\ [Next]_vars => TypeInv'
<1> SUFFICES ASSUME TypeInv, ReportHasOutcome, [Next]_vars PROVE TypeInv'
  OBVIOUS
<1> USE DEF TypeInv
<1>1. ASSUME NEW r \in Repos, NEW s \in Shas, NEW ref \in Refs, QueueJobs(r, s, ref)
      PROVE  TypeInv'
  <2>1. queueing' \subseteq QueueTask
    <3>1. \A S, t : Stands(S, t) \in BOOLEAN
      BY DEF Stands
    <3> QED
      BY <1>1, <3>1 DEF QueueJobs, TypeOK, QueueTask
  <2> QED
    BY <1>1, <2>1 DEF QueueJobs, TypeOK, InflightHasRow
<1>2. ASSUME NEW t \in queueing, QueueJob(t)
      PROVE  TypeInv'
  <2>1. t \in QueueTask /\ TreeOf[t.sha] \in Trees \cup {""}
    BY ConstantsAssumption DEF TypeOK, QueueTask
  <2>2. <<t.repo, t.sha, t.job>> \in Checks
    BY <2>1 DEF QueueTask, Checks
  <2>3. CASE UNCHANGED <<builds, idSeq, inflight>>
    <3>1. statuses' \in [Checks -> CheckState]
      BY <1>2, <2>2, <2>3 DEF QueueJob, SetCommitStatus, TypeOK, CheckState
    <3> QED
      BY <1>2, <2>3, <3>1 DEF QueueJob, TypeOK, InflightHasRow
  <2>4. CASE /\ CreateBuild(t.repo, t.job, t.sha, t.ref, TreeOf[t.sha])
             /\ Then(NextBuildId, "set", "pending")
             /\ UNCHANGED statuses
    <3>1. /\ DOMAIN builds' = DOMAIN builds \cup {NextBuildId}
          /\ DOMAIN builds' \subseteq Ids
          /\ builds' \in [DOMAIN builds' -> Build]
          /\ idSeq' \in 0..MaxBuilds
          /\ NextBuildId \in Ids
      BY <2>1, <2>4, CreateType DEF QueueTask
    <3>2. inflight' \subseteq Continuation /\ InflightHasRow'
      BY <2>4, <3>1, ThenType DEF CheckState
    <3> QED
      BY <1>2, <2>4, <3>1, <3>2 DEF QueueJob, TypeOK
  <2> QED
    BY <1>2, <2>3, <2>4 DEF QueueJob
<1>3. ASSUME NEW r \in Repos, NEW s \in Shas, NEW j \in Jobs, NEW ref \in Refs,
             NEW tree \in Trees \cup {""}, CreateBuild(r, j, s, ref, tree),
             Then(NextBuildId, "set", "pending"),
             UNCHANGED <<repos, statuses, queueing, runner, logs, reap,
                         crashes, deaths, claims>>
      PROVE  TypeInv'
  <2>1. /\ DOMAIN builds' = DOMAIN builds \cup {NextBuildId}
        /\ DOMAIN builds' \subseteq Ids
        /\ builds' \in [DOMAIN builds' -> Build]
        /\ idSeq' \in 0..MaxBuilds
        /\ NextBuildId \in Ids
    BY <1>3, CreateType
  <2>2. inflight' \subseteq Continuation /\ InflightHasRow'
    BY <1>3, <2>1, ThenType DEF CheckState
  <2> QED
    BY <1>3, <2>1, <2>2 DEF TypeOK
<1>4. ASSUME NEW r \in Repos, NEW s \in Shas, NEW j \in Jobs,
             BuildTrigger(r, s, j) \/ RunDue(r, s, j)
      PROVE  TypeInv'
  BY <1>3, <1>4, ConstantsAssumption DEF BuildTrigger, RunDue
<1>5. ASSUME NEW r \in Repos, NEW s \in Shas, NEW j \in Jobs, NEW tag \in Refs,
             QueueTagBuilds(r, s, j, tag)
      PROVE  TypeInv'
  BY <1>3, <1>5 DEF QueueTagBuilds
<1>6. ASSUME NEW r \in Repos, NEW s \in Shas, QueueSecurityScan(r, s)
      PROVE  TypeInv'
  <2>1. /\ DOMAIN builds' = DOMAIN builds \cup {NextBuildId}
        /\ DOMAIN builds' \subseteq Ids
        /\ builds' \in [DOMAIN builds' -> Build]
        /\ idSeq' \in 0..MaxBuilds
    BY <1>6, CreateType, ConstantsAssumption DEF QueueSecurityScan
  <2> QED
    BY <1>6, <2>1 DEF QueueSecurityScan, TypeOK, InflightHasRow
<1>7. ASSUME NEW c \in inflight, WriteStatus(c)
      PROVE  TypeInv'
  <2>1. CheckOf(builds[c.id]) \in Checks /\ c.state \in CheckState
    BY DEF TypeOK, InflightHasRow, Continuation, CheckOf, Checks, Build
  <2>2. statuses' \in [Checks -> CheckState]
    BY <1>7, <2>1 DEF WriteStatus, SetCommitStatus, TypeOK
  <2> QED
    BY <1>7, <2>2 DEF WriteStatus, TypeOK, InflightHasRow
<1>8. ASSUME NEW c \in inflight, ResolveCancelled(c)
      PROVE  TypeInv'
  <2>1. inflight' \subseteq Continuation /\ InflightHasRow'
    BY <1>8 DEF ResolveCancelled, TypeOK, InflightHasRow, Continuation, CheckState
  <2> QED
    BY <1>8, <2>1 DEF ResolveCancelled, TypeOK
<1>9. ASSUME NEW i \in Ids, CancelBuild(i), Then(i, "resolve", "none")
      PROVE  /\ DOMAIN builds' = DOMAIN builds
             /\ builds' \in [DOMAIN builds' -> Build]
             /\ inflight' \subseteq Continuation /\ InflightHasRow'
  <2>1. [builds[i] EXCEPT !.status = "cancelled"] \in Build
    <3>1. builds[i] \in Build /\ "cancelled" \in BuildStatus
      BY <1>9 DEF CancelBuild, TypeOK, BuildStatus
    <3> QED
      BY <3>1, RowStatus
  <2>2. DOMAIN builds' = DOMAIN builds /\ builds' \in [DOMAIN builds' -> Build]
    BY <1>9, <2>1, RowUpdate DEF CancelBuild
  <2> QED
    BY <1>9, <2>2, ThenType DEF CheckState, CancelBuild
<1>10. ASSUME NEW i \in Ids, BuildCancel(i)
       PROVE  TypeInv'
  BY <1>9, <1>10 DEF BuildCancel, TypeOK
<1>11. ASSUME NEW w \in Runners
       PROVE  /\ runner[w] \in RunnerState
              /\ [runner EXCEPT ![w] = IdleRunner] \in [Runners -> RunnerState]
  BY DEF TypeOK, RunnerState, IdleRunner
<1>12. ASSUME NEW w \in Runners, ClaimBuildFor(w)
       PROVE  TypeInv'
  <2>1. PICK i \in Claimable(w) :
          /\ builds' = [builds EXCEPT ![i].status = "running"]
          /\ claims' = [claims EXCEPT ![i] = @ + 1]
          /\ runner' = [runner EXCEPT ![w] =
                          [pc |-> "claimed", id |-> i,
                           check |-> CheckOf(builds[i]), outcome |-> ""]]
    BY <1>12 DEF ClaimBuildFor
  <2>2. i \in DOMAIN builds /\ i \in Ids /\ CheckOf(builds[i]) \in Checks
    BY DEF Claimable, TypeOK, CheckOf, Checks, Build
  <2>3. [builds[i] EXCEPT !.status = "running"] \in Build
    BY <2>2 DEF TypeOK, Build, BuildStatus
  <2>4. DOMAIN builds' = DOMAIN builds /\ builds' \in [DOMAIN builds' -> Build]
    BY <2>1, <2>2, <2>3, RowUpdate
  <2>5. runner' \in [Runners -> RunnerState]
    <3>1. [pc |-> "claimed", id |-> i, check |-> CheckOf(builds[i]),
           outcome |-> ""] \in RunnerState
      BY <2>2 DEF RunnerState
    <3> QED
      BY <2>1, <3>1 DEF TypeOK
  <2>6. claims' \in [Ids -> Nat]
    <3>1. claims[i] + 1 \in Nat
      BY <2>2 DEF TypeOK
    <3> QED
      BY <2>1, <2>2, <3>1 DEF TypeOK
  <2> QED
    BY <1>12, <2>4, <2>5, <2>6 DEF ClaimBuildFor, TypeOK, InflightHasRow
<1>13. ASSUME NEW w \in Runners, HandOut(w)
       PROVE  TypeInv'
  <2>1. runner' \in [Runners -> RunnerState]
    BY <1>13 DEF HandOut, TypeOK, RunnerState
  <2>2. logs' \subseteq Ids
    BY <1>13 DEF HandOut, TypeOK
  <2> QED
    BY <1>13, <2>1, <2>2 DEF HandOut, TypeOK, InflightHasRow
<1>14. ASSUME NEW w \in Runners, CancelOrphaned(w)
       PROVE  TypeInv'
  <2>1. CASE CancelBuild(runner[w].id) /\ Then(runner[w].id, "resolve", "none")
    <3>1. runner[w].id \in Ids
      BY <2>1 DEF CancelBuild, TypeOK
    <3> QED
      BY <1>9, <1>11, <1>14, <2>1, <3>1 DEF CancelOrphaned, TypeOK
  <2>2. CASE UNCHANGED <<builds, inflight>>
    BY <1>11, <1>14, <2>2 DEF CancelOrphaned, TypeOK, InflightHasRow
  <2> QED
    BY <1>14, <2>1, <2>2 DEF CancelOrphaned
<1>15. ASSUME NEW w \in Runners, NextFails(w) \/ ReportGivesUp(w) \/ RunnerDies(w)
       PROVE  TypeInv'
  BY <1>11, <1>15, BoundsAssumption
     DEF NextFails, ReportGivesUp, RunnerDies, TypeOK, InflightHasRow
<1>16. ASSUME NEW i \in Ids, MarkBuildLogClosed(i)
       PROVE  DOMAIN builds' = DOMAIN builds /\ builds' \in [DOMAIN builds' -> Build]
  <2>1. CASE Running(i)
    <3>1. [builds[i] EXCEPT !.logClosed = TRUE] \in Build
      BY <2>1 DEF Running, TypeOK, Build
    <3> QED
      BY <1>16, <2>1, <3>1, RowUpdate DEF Running, MarkBuildLogClosed
  <2> QED
    BY <1>16, <2>1 DEF MarkBuildLogClosed, TypeOK
<1>17. ASSUME NEW i \in Ids, LogLost(i)
       PROVE  TypeInv'
  BY <1>16, <1>17 DEF LogLost, TypeOK, InflightHasRow
<1>18. ASSUME NEW i \in Ids, LogWatch(i)
       PROVE  TypeInv'
  <2>1. runner' \in [Runners -> RunnerState]
    <3>1. \A w \in Runners : [runner[w] EXCEPT !.pc = "reporting",
                                              !.outcome = "failure"] \in RunnerState
      BY <1>11 DEF RunnerState
    <3>2. \A w \in Runners : runner[w] \in RunnerState
      BY <1>11
    <3> QED
      BY <1>18, <3>1, <3>2 DEF LogWatch
  <2> QED
    BY <1>18, <2>1 DEF LogWatch, TypeOK, InflightHasRow
<1>19. ASSUME NEW w \in Runners, RunEnds(w)
       PROVE  TypeInv'
  <2>1. runner' \in [Runners -> RunnerState]
    <3>1. PICK outcome \in {"success", "failure"} :
            runner' = [runner EXCEPT ![w] = [runner[w] EXCEPT !.pc = "reporting",
                                                              !.outcome = outcome]]
      BY <1>19 DEF RunEnds, TypeOK
    <3>2. [runner[w] EXCEPT !.pc = "reporting", !.outcome = outcome] \in RunnerState
      BY <1>11 DEF RunnerState
    <3> QED
      BY <3>1, <3>2 DEF TypeOK
  <2>2. DOMAIN builds' = DOMAIN builds /\ builds' \in [DOMAIN builds' -> Build]
    <3>1. CASE runner[w].id \in logs
      <4>1. runner[w].id \in Ids /\ MarkBuildLogClosed(runner[w].id)
        BY <1>19, <3>1 DEF RunEnds, TypeOK
      <4> QED
        BY <1>16, <4>1
    <3> QED
      BY <1>19, <3>1 DEF RunEnds, TypeOK
  <2>3. logs' \subseteq Ids
    BY <1>19 DEF RunEnds, TypeOK
  <2> QED
    BY <1>19, <2>1, <2>2, <2>3 DEF RunEnds, TypeOK, InflightHasRow
<1>20. ASSUME NEW w \in Runners, RunnerDone(w)
       PROVE  TypeInv'
  <2>1. CASE FinishBuild(runner[w].id, runner[w].outcome)
    <3>1. /\ runner[w].id \in DOMAIN builds
          /\ runner[w].id \in Ids
      BY <2>1 DEF FinishBuild, Running, TypeOK
    <3>2. runner[w].outcome \in {"success", "failure"}
      BY <1>20 DEF RunnerDone, ReportHasOutcome
    <3>3. [builds[runner[w].id] EXCEPT !.status = runner[w].outcome] \in Build
      <4>1. builds[runner[w].id] \in Build /\ runner[w].outcome \in BuildStatus
        BY <3>1, <3>2 DEF TypeOK, BuildStatus
      <4> QED
        BY <4>1, RowStatus
    <3>4. DOMAIN builds' = DOMAIN builds /\ builds' \in [DOMAIN builds' -> Build]
      BY <2>1, <3>1, <3>3, RowUpdate DEF FinishBuild
    <3>5. inflight' \subseteq Continuation /\ InflightHasRow'
      BY <1>20, <2>1, <3>1, <3>2, <3>4, ThenType DEF RunnerDone, TypeOK, InflightHasRow, CheckState
    <3> QED
      BY <1>11, <1>20, <3>4, <3>5 DEF RunnerDone, TypeOK
  <2>2. CASE UNCHANGED <<builds, inflight>>
    BY <1>11, <1>20, <2>2 DEF RunnerDone, TypeOK, InflightHasRow
  <2> QED
    BY <1>20, <2>1, <2>2 DEF RunnerDone
<1>21. ASSUME NEW i \in Ids, GraceExpires(i) \/ DeadlineExpires(i)
       PROVE  TypeInv'
  <2>1. i \in DOMAIN builds /\ builds' = [builds EXCEPT ![i].stale = TRUE]
    BY <1>21 DEF GraceExpires, DeadlineExpires, Running
  <2>2. builds[i] \in Build
    BY <2>1 DEF TypeInv, TypeOK
  <2>3. [builds[i] EXCEPT !.stale = TRUE] \in Build
    BY <2>2, RowStale
  <2>4. DOMAIN builds' = DOMAIN builds /\ builds' \in [DOMAIN builds' -> Build]
    BY <2>1, <2>3, RowUpdate
  <2> QED
    BY <1>21, <2>4 DEF GraceExpires, DeadlineExpires, TypeOK, InflightHasRow
<1>22. ASSUME ReapList
       PROVE  TypeInv'
  <2>1. reap' \in ReapState
    BY <1>22 DEF ReapList, ReapState, TypeOK
  <2> QED
    BY <1>22, <2>1 DEF ReapList, TypeOK, InflightHasRow
<1>23. IdleReap \in ReapState
  BY DEF IdleReap, ReapState
<1>24. ASSUME NEW i \in Ids, ReapFail(i)
       PROVE  TypeInv'
  <2>1. CASE Running(i)
    <3>1. /\ builds' = [builds EXCEPT ![i] = [builds[i] EXCEPT !.status = "failure",
                                                             !.reaped = TRUE]]
          /\ reap' = [reap EXCEPT
                        !.todo = @ \ {i},
                        !.pc = IF reap.todo = {i} THEN "resolving" ELSE @]
      BY <1>24, <2>1 DEF ReapFail, Running, TypeOK
    <3>2. [builds[i] EXCEPT !.status = "failure", !.reaped = TRUE] \in Build
      <4>1. builds[i] \in Build /\ "failure" \in BuildStatus
        BY <2>1 DEF Running, TypeOK, BuildStatus
      <4> QED
        BY <4>1, RowStatus
    <3>3. DOMAIN builds' = DOMAIN builds /\ builds' \in [DOMAIN builds' -> Build]
      BY <2>1, <3>1, <3>2, RowUpdate DEF Running
    <3>4. reap' \in ReapState
      BY <3>1 DEF TypeOK, ReapState
    <3> QED
      BY <1>24, <3>3, <3>4 DEF ReapFail, TypeOK, InflightHasRow
  <2>2. CASE ~Running(i)
    BY <1>23, <1>24, <2>2 DEF ReapFail, TypeOK, InflightHasRow
  <2> QED
    BY <2>1, <2>2
<1>25. ASSUME NEW i \in Ids, ReapResolve(i)
       PROVE  TypeInv'
  <2>1. statuses' \in [Checks -> CheckState]
    <3>1. CASE i \in DOMAIN builds
      <4>1. CheckOf(builds[i]) \in Checks
        BY <3>1 DEF TypeOK, CheckOf, Checks, Build
      <4> QED
        BY <1>25, <3>1, <4>1 DEF ReapResolve, SetCommitStatus, TypeOK, CheckState
    <3> QED
      BY <1>25, <3>1 DEF ReapResolve, TypeOK
  <2>2. reap' \in ReapState
    BY <1>23, <1>25 DEF ReapResolve, TypeOK, ReapState
  <2> QED
    BY <1>25, <2>1, <2>2 DEF ReapResolve, TypeOK, InflightHasRow
<1>26. ASSUME NEW r \in Repos, DeleteRepo(r)
       PROVE  TypeInv'
  <2>1. /\ DOMAIN builds' = {i \in DOMAIN builds : builds[i].repo # r}
        /\ builds' \in [DOMAIN builds' -> Build]
    BY <1>26 DEF DeleteRepo, TypeOK
  <2>2. statuses' \in [Checks -> CheckState]
    BY <1>26 DEF DeleteRepo, TypeOK, CheckState
  <2>3. inflight' \subseteq Continuation /\ InflightHasRow'
    BY <1>26, <2>1 DEF DeleteRepo, TypeOK, InflightHasRow
  <2> QED
    BY <1>26, <2>1, <2>2, <2>3 DEF DeleteRepo, TypeOK
<1>27. ASSUME ServerRestart
       PROVE  TypeInv'
  <2>1. runner' \in [Runners -> RunnerState]
    BY <1>27 DEF ServerRestart, TypeOK, RunnerState, IdleRunner
  <2> QED
    BY <1>23, <1>27, <2>1, BoundsAssumption DEF ServerRestart, TypeOK, InflightHasRow
<1>28. CASE UNCHANGED vars
  BY <1>28 DEF vars, TypeOK, InflightHasRow
<1> QED
  <2>1. CASE Requests
    BY <1>1, <1>4, <1>5, <1>6, <1>10, <1>26, <2>1 DEF Requests
  <2>2. CASE Handlers
    BY <1>2, <1>7, <1>8, <2>2 DEF Handlers
  <2>3. CASE \E w \in Runners : RunnerSteps(w)
    BY <1>12, <1>13, <1>14, <1>15, <1>19, <1>20, <2>3 DEF RunnerSteps
  <2>4. CASE LogSessions
    BY <1>17, <1>18, <2>4 DEF LogSessions
  <2>5. CASE Reaper
    BY <1>21, <1>22, <1>24, <1>25, <2>5 DEF Reaper
  <2> QED
    BY <1>27, <1>28, <2>1, <2>2, <2>3, <2>4, <2>5 DEF Next

-----------------------------------------------------------------------------
(* What a step does to the runners *)

\* A runner keeps the build it holds, goes idle, or claims a build.
RunnerKeeps(w) ==
    /\ runner[w].pc # "idle"
    /\ runner'[w].id = runner[w].id
    /\ runner'[w].check = runner[w].check
    /\ runner'[w].pc = "reporting" => runner'[w].outcome \in {"success", "failure"}

RunnerClaims(w) ==
    /\ runner'[w].pc = "claimed"
    /\ runner'[w].id \in Claimable(w)
    /\ runner'[w].check = CheckOf(builds[runner'[w].id])

RunnerStep ==
    \A w \in Runners : \/ runner'[w] = runner[w]
                       \/ runner'[w] = IdleRunner
                       \/ RunnerKeeps(w)
                       \/ RunnerClaims(w)

LEMMA StepRunner == TypeOK /\ [Next]_vars => RunnerStep
<1> SUFFICES ASSUME TypeOK, [Next]_vars PROVE RunnerStep
  OBVIOUS
<1>1. CASE UNCHANGED runner
  BY <1>1 DEF RunnerStep
<1>2. ASSUME NEW w \in Runners, runner' = [runner EXCEPT ![w] = IdleRunner]
      PROVE  RunnerStep
  BY <1>2 DEF RunnerStep, TypeOK
<1>3. ASSUME NEW w \in Runners, HandOut(w)
      PROVE  RunnerStep
  BY <1>3 DEF HandOut, RunnerStep, RunnerKeeps, TypeOK, RunnerState
<1>4. ASSUME NEW w \in Runners, RunEnds(w)
      PROVE  RunnerStep
  <2>1. PICK outcome \in {"success", "failure"} :
          runner' = [runner EXCEPT ![w].pc = "reporting", ![w].outcome = outcome]
    BY <1>4 DEF RunEnds
  <2>2. /\ runner'[w].id = runner[w].id
        /\ runner'[w].check = runner[w].check
        /\ runner'[w].outcome = outcome
    BY <2>1 DEF TypeOK, RunnerState
  <2>3. RunnerKeeps(w)
    BY <1>4, <2>2 DEF RunEnds, RunnerKeeps
  <2>4. \A v \in Runners \ {w} : runner'[v] = runner[v]
    BY <2>1 DEF TypeOK
  <2> QED
    BY <2>3, <2>4 DEF RunnerStep
<1>5. ASSUME NEW i \in Ids, LogWatch(i)
      PROVE  RunnerStep
  BY <1>5 DEF LogWatch, RunnerStep, RunnerKeeps, TypeOK, RunnerState
<1>6. ASSUME NEW w \in Runners, ClaimBuildFor(w)
      PROVE  RunnerStep
  <2>1. PICK i \in Claimable(w) :
          runner' = [runner EXCEPT ![w] = [pc |-> "claimed", id |-> i,
                                           check |-> CheckOf(builds[i]), outcome |-> ""]]
    BY <1>6 DEF ClaimBuildFor
  <2>2. /\ runner'[w].pc = "claimed"
        /\ runner'[w].id = i
        /\ runner'[w].check = CheckOf(builds[i])
    BY <2>1 DEF TypeOK
  <2>3. RunnerClaims(w)
    BY <2>2 DEF RunnerClaims
  <2>4. \A v \in Runners \ {w} : runner'[v] = runner[v]
    BY <2>1 DEF TypeOK
  <2> QED
    BY <2>3, <2>4 DEF RunnerStep
<1>7. CASE ServerRestart
  BY <1>7 DEF ServerRestart, RunnerStep, TypeOK
<1>8. CASE Requests
  BY <1>1, <1>8 DEF Requests, QueueJobs, QueueTagBuilds, BuildTrigger, RunDue,
                    QueueSecurityScan, DeleteRepo, BuildCancel
<1>9. CASE Handlers
  BY <1>1, <1>9 DEF Handlers, QueueJob, WriteStatus, ResolveCancelled
<1>10. CASE \E w \in Runners : RunnerSteps(w)
  BY <1>2, <1>3, <1>4, <1>6, <1>10
     DEF RunnerSteps, CancelOrphaned, NextFails, RunnerDone, ReportGivesUp, RunnerDies
<1>11. CASE LogSessions
  BY <1>1, <1>5, <1>11 DEF LogSessions, LogLost
<1>12. CASE Reaper
  BY <1>1, <1>12 DEF Reaper, GraceExpires, DeadlineExpires, ReapList, ReapFail, ReapResolve
<1> QED
  BY <1>1, <1>7, <1>8, <1>9, <1>10, <1>11, <1>12 DEF Next, vars

LEMMA IdlePc == IdleRunner.pc = "idle"
BY DEF IdleRunner

LEMMA NextReport == ReportHasOutcome /\ RunnerStep => ReportHasOutcome'
<1> SUFFICES ASSUME ReportHasOutcome, RunnerStep, NEW w \in Runners,
                    runner'[w].pc = "reporting"
             PROVE  runner'[w].outcome \in {"success", "failure"}
  BY DEF ReportHasOutcome
<1>1. CASE runner'[w] = runner[w]
  BY <1>1 DEF ReportHasOutcome
<1>2. CASE runner'[w] = IdleRunner
  BY <1>2, IdlePc
<1>3. CASE RunnerKeeps(w)
  BY <1>3 DEF RunnerKeeps
<1>4. CASE RunnerClaims(w)
  BY <1>4 DEF RunnerClaims
<1> QED
  BY <1>1, <1>2, <1>3, <1>4 DEF RunnerStep

\* The state keeps its shape: Spec => []TypeOK, for every value of the
\* constants.
THEOREM TypeCorrect == Spec => []TypeOK
<1>1. Init => TypeInv /\ ReportHasOutcome
  <2> SUFFICES ASSUME Init PROVE ReportHasOutcome
    BY InitType
  <2>1. \A w \in Runners : runner[w] = IdleRunner
    BY DEF Init
  <2> QED
    BY <2>1, IdlePc DEF ReportHasOutcome
<1>2. TypeInv /\ ReportHasOutcome /\ [Next]_vars => (TypeInv /\ ReportHasOutcome)'
  BY NextType, NextReport, StepRunner DEF TypeInv
<1> QED
  BY <1>1, <1>2, PTL DEF Spec, TypeInv

-----------------------------------------------------------------------------
(* What a step does to the builds table *)

\* Every row is at or below the high-water mark.
IdsBelowSeq == \A i \in DOMAIN builds : i <= idSeq

\* The id CreateBuild hands out was never a row's before.
LEMMA NextIdIsNew ==
    ASSUME TypeOK, IdsBelowSeq
    PROVE  NextBuildId = idSeq + 1 /\ NextBuildId \notin DOMAIN builds
<1> DEFINE S == DOMAIN builds \cup {idSeq}
<1>1. idSeq \in S /\ (\A m \in S : m \in Int /\ m <= idSeq)
  BY BoundsAssumption DEF TypeOK, IdsBelowSeq
<1>2. Highest(S) \in S /\ (\A m \in S : m <= Highest(S))
  BY <1>1 DEF Highest
<1> HIDE DEF S
<1>3. Highest(S) = idSeq
  BY <1>1, <1>2
<1>4. NextBuildId = idSeq + 1
  BY <1>3 DEF NextBuildId, S
<1> QED
  BY <1>1, <1>4 DEF TypeOK, IdsBelowSeq, S

\* How an update may change a row: what it was built for stays, only a build
\* that has not ended is changed, and nothing becomes pending again.
Advances(a, b) ==
    /\ b \in Build
    /\ CheckOf(b) = CheckOf(a) /\ b.ref = a.ref /\ b.tree = a.tree
    /\ a.status \notin Terminal
    /\ b.status # "pending"

RowAdvances ==
    \E i \in DOMAIN builds, b \in Build :
        Advances(builds[i], b) /\ builds' = [builds EXCEPT ![i] = b]

RowCreated ==
    \E r \in Repos, j \in Jobs, s \in Shas, ref \in Refs, tree \in Trees \cup {""} :
        CreateBuild(r, j, s, ref, tree)

\* A step leaves the table alone, changes one row, adds one or deletes a
\* repository's.
TableStep ==
    \/ UNCHANGED <<builds, idSeq>>
    \/ RowAdvances /\ UNCHANGED idSeq
    \/ RowCreated
    \/ \E r \in Repos : DeleteRepo(r)

LEMMA StepTable == TypeOK /\ InflightHasRow /\ ReportHasOutcome /\ [Next]_vars => TableStep
<1> SUFFICES ASSUME TypeOK, InflightHasRow, ReportHasOutcome, [Next]_vars PROVE TableStep
  OBVIOUS
<1>1. ASSUME NEW i \in DOMAIN builds, builds[i].status \notin Terminal,
             NEW st \in {"running", "success", "failure", "cancelled"},
             builds' = [builds EXCEPT ![i].status = st]
      PROVE  RowAdvances
  <2> DEFINE b == [builds[i] EXCEPT !.status = st]
  <2>1. builds[i] \in Build
    BY DEF TypeOK
  <2>2. b \in Build /\ Advances(builds[i], b)
    BY <1>1, <2>1 DEF Build, BuildStatus, Advances, CheckOf
  <2>3. builds' = [builds EXCEPT ![i] = b]
    BY <1>1
  <2> HIDE DEF b
  <2> QED
    BY <2>2, <2>3 DEF RowAdvances
<1>2. ASSUME NEW i \in DOMAIN builds, builds[i].status = "running",
             NEW b \in Build, b.status \in {"running", "failure"},
             CheckOf(b) = CheckOf(builds[i]), b.ref = builds[i].ref,
             b.tree = builds[i].tree, builds' = [builds EXCEPT ![i] = b]
      PROVE  RowAdvances
  BY <1>2 DEF RowAdvances, Advances, Terminal
<1>3. ASSUME NEW i \in Ids, CancelBuild(i)
      PROVE  RowAdvances
  BY <1>1, <1>3 DEF CancelBuild, Active, Terminal
<1>4. ASSUME NEW i \in Ids, NEW outcome \in {"success", "failure"}, FinishBuild(i, outcome)
      PROVE  RowAdvances
  BY <1>1, <1>4 DEF FinishBuild, Running, Terminal
<1>5. ASSUME NEW i, MarkBuildLogClosed(i)
      PROVE  builds' = builds \/ RowAdvances
  <2>1. CASE Running(i)
    <3> DEFINE b == [builds[i] EXCEPT !.logClosed = TRUE]
    <3>1. i \in DOMAIN builds /\ builds[i] \in Build /\ builds[i].status = "running"
      BY <2>1 DEF Running, TypeOK
    <3>2. b \in Build /\ b.status = "running" /\ CheckOf(b) = CheckOf(builds[i])
          /\ b.ref = builds[i].ref /\ b.tree = builds[i].tree
      BY <3>1 DEF Build, CheckOf
    <3>3. builds' = [builds EXCEPT ![i] = b]
      BY <1>5, <2>1 DEF MarkBuildLogClosed
    <3> HIDE DEF b
    <3> QED
      BY <1>2, <3>1, <3>2, <3>3
  <2> QED
    BY <1>5, <2>1 DEF MarkBuildLogClosed
<1>6. ASSUME NEW i \in Ids, GraceExpires(i) \/ DeadlineExpires(i)
      PROVE  RowAdvances
  <2> DEFINE b == [builds[i] EXCEPT !.stale = TRUE]
  <2>1. i \in DOMAIN builds /\ builds[i] \in Build /\ builds[i].status = "running"
    BY <1>6 DEF GraceExpires, DeadlineExpires, Running, TypeOK
  <2>2. b \in Build /\ b.status = "running" /\ CheckOf(b) = CheckOf(builds[i])
        /\ b.ref = builds[i].ref /\ b.tree = builds[i].tree
    BY <2>1 DEF Build, CheckOf
  <2>3. builds' = [builds EXCEPT ![i] = b]
    BY <1>6 DEF GraceExpires, DeadlineExpires
  <2> HIDE DEF b
  <2> QED
    BY <1>2, <2>1, <2>2, <2>3
<1>7. ASSUME NEW i \in Ids, ReapFail(i)
      PROVE  builds' = builds \/ RowAdvances
  <2>1. CASE Running(i)
    <3> DEFINE b == [builds[i] EXCEPT !.status = "failure", !.reaped = TRUE]
    <3>1. i \in DOMAIN builds /\ builds[i] \in Build /\ builds[i].status = "running"
      BY <2>1 DEF Running, TypeOK
    <3>2. b \in Build
      BY <3>1, RowStatus DEF BuildStatus
    <3>3. b.status = "failure" /\ CheckOf(b) = CheckOf(builds[i])
          /\ b.ref = builds[i].ref /\ b.tree = builds[i].tree
      BY <3>1 DEF Build, CheckOf
    <3>4. builds' = [builds EXCEPT ![i] = b]
      BY <1>7, <2>1, <3>1 DEF ReapFail, TypeOK
    <3> HIDE DEF b
    <3> QED
      BY <1>2, <3>1, <3>2, <3>3, <3>4
  <2> QED
    BY <1>7, <2>1 DEF ReapFail
<1>8. CASE Requests
  <2>1. ASSUME NEW r \in Repos, NEW s \in Shas, NEW j \in Jobs,
               BuildTrigger(r, s, j) \/ RunDue(r, s, j) \/ QueueSecurityScan(r, s)
        PROVE  RowCreated
    BY <2>1, ConstantsAssumption DEF RowCreated, BuildTrigger, RunDue, QueueSecurityScan
  <2>2. ASSUME NEW r \in Repos, NEW s \in Shas, QueueSecurityScan(r, s)
        PROVE  RowCreated
    BY <2>1, <2>2 DEF QueueSecurityScan
  <2>3. ASSUME NEW r \in Repos, NEW s \in Shas, NEW j \in Jobs, NEW ref \in Refs,
               QueueTagBuilds(r, s, j, ref)
        PROVE  RowCreated
    BY <2>3 DEF RowCreated, QueueTagBuilds
  <2>4. ASSUME NEW r \in Repos, NEW s \in Shas, NEW ref \in Refs, QueueJobs(r, s, ref)
        PROVE  UNCHANGED <<builds, idSeq>>
    BY <2>4 DEF QueueJobs
  <2>5. ASSUME NEW i \in Ids, BuildCancel(i)
        PROVE  RowAdvances /\ UNCHANGED idSeq
    BY <1>3, <2>5 DEF BuildCancel
  <2> QED
    BY <1>8, <2>1, <2>2, <2>3, <2>4, <2>5 DEF Requests, TableStep
<1>9. CASE Handlers
  <2>1. ASSUME NEW t \in queueing, QueueJob(t)
        PROVE  TableStep
    <3>1. t \in QueueTask /\ TreeOf[t.sha] \in Trees \cup {""}
      BY ConstantsAssumption DEF TypeOK, QueueTask
    <3>2. CASE CreateBuild(t.repo, t.job, t.sha, t.ref, TreeOf[t.sha])
      BY <3>1, <3>2 DEF TableStep, RowCreated, QueueTask
    <3> QED
      BY <2>1, <3>2 DEF QueueJob, TableStep
  <2> QED
    BY <1>9, <2>1 DEF Handlers, WriteStatus, ResolveCancelled, TableStep
<1>10. CASE \E w \in Runners : RunnerSteps(w)
  <2> SUFFICES ASSUME NEW w \in Runners, RunnerSteps(w) PROVE TableStep
    BY <1>10
  <2>1. CASE ClaimBuildFor(w)
    <3>1. PICK i \in Claimable(w) : builds' = [builds EXCEPT ![i].status = "running"]
      BY <2>1 DEF ClaimBuildFor
    <3>2. RowAdvances
      BY <1>1, <3>1 DEF Claimable, Terminal
    <3> QED
      BY <2>1, <3>2 DEF ClaimBuildFor, TableStep
  <2>2. CASE CancelOrphaned(w)
    <3>1. CASE CancelBuild(runner[w].id)
      <4>1. runner[w].id \in Ids
        BY <3>1 DEF CancelBuild, TypeOK
      <4> QED
        BY <1>3, <2>2, <3>1, <4>1 DEF CancelOrphaned, TableStep
    <3> QED
      BY <2>2, <3>1 DEF CancelOrphaned, TableStep
  <2>3. CASE RunEnds(w)
    BY <1>5, <2>3 DEF RunEnds, TableStep
  <2>4. CASE RunnerDone(w)
    <3>1. CASE FinishBuild(runner[w].id, runner[w].outcome)
      <4>1. runner[w].id \in Ids
        BY <3>1 DEF FinishBuild, Running, TypeOK
      <4>2. runner[w].outcome \in {"success", "failure"}
        BY <2>4 DEF RunnerDone, ReportHasOutcome
      <4> QED
        BY <1>4, <2>4, <3>1, <4>1, <4>2 DEF RunnerDone, TableStep
    <3> QED
      BY <2>4, <3>1 DEF RunnerDone, TableStep
  <2> QED
    BY <2>1, <2>2, <2>3, <2>4
       DEF RunnerSteps, HandOut, NextFails, ReportGivesUp, RunnerDies, TableStep
<1>11. CASE LogSessions
  BY <1>5, <1>11 DEF LogSessions, LogLost, LogWatch, TableStep
<1>12. CASE Reaper
  <2>1. ASSUME NEW i \in Ids, ReapFail(i) PROVE UNCHANGED idSeq
    BY <2>1 DEF ReapFail
  <2>2. ASSUME NEW i \in Ids, GraceExpires(i) \/ DeadlineExpires(i) PROVE UNCHANGED idSeq
    BY <2>2 DEF GraceExpires, DeadlineExpires
  <2>3. ASSUME ReapList \/ \E i \in Ids : ReapResolve(i) PROVE UNCHANGED <<builds, idSeq>>
    BY <2>3 DEF ReapList, ReapResolve
  <2> QED
    BY <1>6, <1>7, <1>12, <2>1, <2>2, <2>3 DEF Reaper, TableStep
<1> QED
  BY <1>8, <1>9, <1>10, <1>11, <1>12 DEF Next, vars, ServerRestart, TableStep

-----------------------------------------------------------------------------
(* The inductive invariant *)

\* A runner holds an id that was handed out, and the row that has it, if the
\* repository still exists, is the build the runner was given.
HoldsOwnBuild ==
    \A w \in Runners : runner[w].pc # "idle" =>
        /\ runner[w].id \in Ids /\ runner[w].id <= idSeq
        /\ runner[w].id \in DOMAIN builds =>
             CheckOf(builds[runner[w].id]) = runner[w].check

\* An id not yet handed out, and a build still pending, was never claimed.
ClaimsCount ==
    \A i \in Ids :
        /\ claims[i] <= 1
        /\ i > idSeq => claims[i] = 0
        /\ i \in DOMAIN builds /\ builds[i].status = "pending" => claims[i] = 0

\* A build that passed vouches for the check k.
Green(k) ==
    \E i \in DOMAIN builds :
        /\ builds[i].status = "success"
        /\ builds[i].repo = k[1] /\ builds[i].job = k[3]
        /\ \/ builds[i].sha = k[2]
           \/ builds[i].tree = TreeOf[k[2]] /\ Trusted(builds[i])

\* A green status that a handler has still to write is already earned.
InflightGreen ==
    \A c \in inflight : c.op = "set" /\ c.state = "success" =>
        Green(CheckOf(builds[c.id]))

BaseInv == TypeInv /\ ReportHasOutcome /\ IdsBelowSeq

-----------------------------------------------------------------------------
(* How rows evolve *)

RowsEvolve ==
    \A i \in DOMAIN builds \cap DOMAIN builds' :
        /\ CheckOf(builds'[i]) = CheckOf(builds[i])
        /\ builds'[i].ref = builds[i].ref
        /\ builds'[i].tree = builds[i].tree
        /\ builds[i].status \in Terminal => builds'[i].status = builds[i].status
        /\ builds'[i].status = "pending" => builds[i].status = "pending"

\* A new row has an id above the old high-water mark.
NewIdsOnTop ==
    /\ idSeq <= idSeq'
    /\ \A i \in DOMAIN builds' \ DOMAIN builds : idSeq < i

LEMMA TableEvolves ==
    ASSUME TypeOK, IdsBelowSeq, TableStep
    PROVE  RowsEvolve /\ NewIdsOnTop /\ IdsBelowSeq'
<1>1. idSeq \in Int /\ (\A i \in DOMAIN builds : i \in Int)
  BY BoundsAssumption DEF TypeOK, Ids
<1>2. CASE UNCHANGED <<builds, idSeq>>
  BY <1>1, <1>2 DEF RowsEvolve, NewIdsOnTop, IdsBelowSeq
<1>3. CASE RowAdvances /\ UNCHANGED idSeq
  <2>1. PICK i \in DOMAIN builds, b \in Build :
          Advances(builds[i], b) /\ builds' = [builds EXCEPT ![i] = b]
    BY <1>3 DEF RowAdvances
  <2>2. DOMAIN builds' = DOMAIN builds /\ builds'[i] = b
        /\ (\A k \in DOMAIN builds \ {i} : builds'[k] = builds[k])
    BY <2>1 DEF TypeOK
  <2>3. RowsEvolve
    BY <2>1, <2>2 DEF RowsEvolve, Advances
  <2> QED
    BY <1>1, <1>3, <2>2, <2>3 DEF NewIdsOnTop, IdsBelowSeq
<1>4. CASE RowCreated
  <2>1. NextBuildId = idSeq + 1 /\ NextBuildId \notin DOMAIN builds
    BY NextIdIsNew
  <2>2. /\ DOMAIN builds' = DOMAIN builds \cup {NextBuildId}
        /\ \A k \in DOMAIN builds : builds'[k] = builds[k]
        /\ idSeq' = NextBuildId
    BY <1>4, <2>1 DEF RowCreated, CreateBuild
  <2>3. RowsEvolve
    BY <2>2 DEF RowsEvolve
  <2> QED
    BY <1>1, <2>1, <2>2, <2>3 DEF NewIdsOnTop, IdsBelowSeq
<1>5. CASE \E r \in Repos : DeleteRepo(r)
  <2>1. /\ DOMAIN builds' \subseteq DOMAIN builds
        /\ \A k \in DOMAIN builds' : builds'[k] = builds[k]
        /\ idSeq' = idSeq
    BY <1>5 DEF DeleteRepo
  <2> QED
    BY <1>1, <2>1 DEF RowsEvolve, NewIdsOnTop, IdsBelowSeq
<1> QED
  BY <1>2, <1>3, <1>4, <1>5 DEF TableStep

LEMMA BaseInit == Init => BaseInv
<1>1. Init => IdsBelowSeq
  BY DEF Init, IdsBelowSeq
<1>2. Init => ReportHasOutcome
  <2> SUFFICES ASSUME Init PROVE ReportHasOutcome
    OBVIOUS
  <2>1. \A w \in Runners : runner[w] = IdleRunner
    BY DEF Init
  <2> QED
    BY <2>1, IdlePc DEF ReportHasOutcome
<1> QED
  BY <1>1, <1>2, InitType DEF BaseInv

LEMMA BaseStep ==
    ASSUME BaseInv, [Next]_vars
    PROVE  BaseInv' /\ TableStep /\ RunnerStep /\ RowsEvolve /\ NewIdsOnTop
BY StepRunner, StepTable, NextType, NextReport, TableEvolves DEF BaseInv, TypeInv

\* Whichever of the runner's report, a cancel and the reaper ends a build
\* first decides its status for good (FinishBuild, CancelBuild and
\* ReapStaleBuilds all update only a row that has not ended).
THEOREM OutcomeIsFinal == Spec => TerminalIsFinal
<1>1. BaseInv /\ [Next]_vars => BaseInv'
  BY BaseStep
<1>2. BaseInv /\ [Next]_vars =>
        [\A i \in DOMAIN builds \cap DOMAIN builds' :
           builds[i].status \in Terminal => builds'[i].status = builds[i].status]_vars
  BY BaseStep DEF RowsEvolve
<1> QED
  BY <1>1, <1>2, BaseInit, PTL DEF Spec, TerminalIsFinal

-----------------------------------------------------------------------------
(* A runner's report lands on the build it was given *)

LEMMA HoldsStep ==
    ASSUME BaseInv, HoldsOwnBuild, [Next]_vars
    PROVE  HoldsOwnBuild'
<1> SUFFICES ASSUME NEW w \in Runners, runner'[w].pc # "idle"
             PROVE  /\ runner'[w].id \in Ids /\ runner'[w].id <= idSeq'
                    /\ runner'[w].id \in DOMAIN builds' =>
                         CheckOf(builds'[runner'[w].id]) = runner'[w].check
  BY DEF HoldsOwnBuild, Ids
<1>1. RunnerStep /\ RowsEvolve /\ NewIdsOnTop /\ IdsBelowSeq
  BY BaseStep DEF BaseInv
<1>2. idSeq \in Int /\ idSeq' \in Int /\ Ids \subseteq Int /\ DOMAIN builds \subseteq Ids
  BY BaseStep, BoundsAssumption DEF BaseInv, TypeInv, TypeOK, Ids
<1>3. \A n \in Ids : n <= idSeq => n <= idSeq' /\ (n \in DOMAIN builds' => n \in DOMAIN builds)
  BY <1>1, <1>2 DEF NewIdsOnTop
<1>4. CASE \/ runner'[w] = runner[w]
           \/ RunnerKeeps(w)
  <2>1. /\ runner[w].pc # "idle" /\ runner'[w].id = runner[w].id
        /\ runner'[w].check = runner[w].check
    BY <1>4 DEF RunnerKeeps
  <2>2. /\ runner[w].id \in Ids /\ runner[w].id <= idSeq
        /\ runner[w].id \in DOMAIN builds =>
             CheckOf(builds[runner[w].id]) = runner[w].check
    BY <2>1 DEF HoldsOwnBuild
  <2>3. runner[w].id \in DOMAIN builds' => runner[w].id \in DOMAIN builds
    BY <1>3, <2>2, Zenon
  <2>4. runner[w].id <= idSeq'
    BY <1>3, <2>2, Zenon
  <2> QED
    BY <1>1, <2>1, <2>2, <2>3, <2>4 DEF RowsEvolve
<1>5. CASE RunnerClaims(w)
  <2>1. /\ runner'[w].id \in DOMAIN builds
        /\ runner'[w].check = CheckOf(builds[runner'[w].id])
    BY <1>5 DEF RunnerClaims, Claimable
  <2>2. runner'[w].id <= idSeq'
    BY <1>3, <1>1, <1>2, <2>1, Zenon DEF IdsBelowSeq
  <2> QED
    BY <1>1, <1>2, <2>1, <2>2 DEF RowsEvolve
<1> QED
  BY <1>1, <1>4, <1>5, IdlePc DEF RunnerStep

\* The id a runner holds never comes to name another build, even after
\* DeleteRepo removed the newest rows (#306): runner log and runner done land
\* on the build the runner was given.
THEOREM ReportLands == Spec => []ReportsOwnBuild
<1>1. Init => BaseInv /\ HoldsOwnBuild
  <2> SUFFICES ASSUME Init PROVE HoldsOwnBuild
    BY BaseInit
  <2>1. \A w \in Runners : runner[w] = IdleRunner
    BY DEF Init
  <2> QED
    BY <2>1, IdlePc DEF HoldsOwnBuild
<1>2. BaseInv /\ HoldsOwnBuild /\ [Next]_vars => (BaseInv /\ HoldsOwnBuild)'
  BY BaseStep, HoldsStep
<1>3. HoldsOwnBuild => ReportsOwnBuild
  BY DEF HoldsOwnBuild, ReportsOwnBuild
<1> QED
  BY <1>1, <1>2, <1>3, PTL DEF Spec

-----------------------------------------------------------------------------
(* A build is claimed at most once *)

\* claims changes only when ClaimBuildFor takes a pending row.
ClaimsStep ==
    \/ UNCHANGED claims
    \/ \E i \in DOMAIN builds :
         /\ builds[i].status = "pending"
         /\ claims' = [claims EXCEPT ![i] = @ + 1]
         /\ builds' = [builds EXCEPT ![i].status = "running"]
         /\ idSeq' = idSeq

LEMMA StepClaims == [Next]_vars => ClaimsStep
<1> SUFFICES ASSUME [Next]_vars PROVE ClaimsStep
  OBVIOUS
<1>1. ASSUME NEW w \in Runners, ClaimBuildFor(w)
      PROVE  ClaimsStep
  BY <1>1 DEF ClaimBuildFor, Claimable, ClaimsStep
<1>2. CASE Requests
  BY <1>2 DEF Requests, QueueJobs, QueueTagBuilds, BuildTrigger, RunDue,
              QueueSecurityScan, DeleteRepo, BuildCancel, ClaimsStep
<1>3. CASE Handlers
  BY <1>3 DEF Handlers, QueueJob, WriteStatus, ResolveCancelled, ClaimsStep
<1>4. CASE \E w \in Runners : RunnerSteps(w)
  BY <1>1, <1>4 DEF RunnerSteps, HandOut, CancelOrphaned, NextFails, RunEnds,
                    RunnerDone, ReportGivesUp, RunnerDies, ClaimsStep
<1>5. CASE LogSessions
  BY <1>5 DEF LogSessions, LogLost, LogWatch, ClaimsStep
<1>6. CASE Reaper
  BY <1>6 DEF Reaper, GraceExpires, DeadlineExpires, ReapList, ReapFail,
              ReapResolve, ClaimsStep
<1> QED
  BY <1>2, <1>3, <1>4, <1>5, <1>6 DEF Next, vars, ServerRestart, ClaimsStep

LEMMA ClaimsCountStep ==
    ASSUME BaseInv, ClaimsCount, [Next]_vars
    PROVE  ClaimsCount'
<1>1. RowsEvolve /\ NewIdsOnTop /\ IdsBelowSeq
  BY BaseStep DEF BaseInv
<1>2. /\ idSeq \in Int /\ idSeq' \in Int /\ Ids \subseteq Int
      /\ DOMAIN builds \subseteq Ids /\ DOMAIN builds' \subseteq Ids
      /\ claims \in [Ids -> Nat]
  BY BaseStep, BoundsAssumption DEF BaseInv, TypeInv, TypeOK, Ids
<1>3. CASE UNCHANGED claims
  <2> SUFFICES ASSUME NEW i \in Ids
               PROVE  /\ claims[i] <= 1
                      /\ i > idSeq' => claims[i] = 0
                      /\ i \in DOMAIN builds' /\ builds'[i].status = "pending"
                           => claims[i] = 0
    BY <1>3 DEF ClaimsCount, Ids
  <2>1. i > idSeq' => claims[i] = 0
    BY <1>1, <1>2 DEF ClaimsCount, NewIdsOnTop
  <2>2. ASSUME i \in DOMAIN builds', builds'[i].status = "pending"
        PROVE  claims[i] = 0
    <3>1. CASE i \in DOMAIN builds
      BY <1>1, <2>2, <3>1 DEF ClaimsCount, RowsEvolve
    <3>2. CASE i \notin DOMAIN builds
      BY <1>1, <1>2, <2>2, <3>2 DEF ClaimsCount, NewIdsOnTop
    <3> QED
      BY <3>1, <3>2
  <2> QED
    BY <2>1, <2>2 DEF ClaimsCount
<1>4. ASSUME NEW i \in DOMAIN builds, builds[i].status = "pending",
             claims' = [claims EXCEPT ![i] = @ + 1],
             builds' = [builds EXCEPT ![i].status = "running"], idSeq' = idSeq
      PROVE  ClaimsCount'
  <2>1. builds \in [DOMAIN builds -> Build]
    BY DEF BaseInv, TypeInv, TypeOK
  <2>2. DOMAIN builds' = DOMAIN builds /\ builds'[i].status = "running"
        /\ (\A k \in DOMAIN builds \ {i} : builds'[k] = builds[k])
    BY <1>4, <2>1 DEF Build
  <2>3. i \in Ids /\ claims[i] = 0 /\ i <= idSeq
    BY <1>1, <1>2, <1>4 DEF ClaimsCount, IdsBelowSeq
  <2>4. claims'[i] = 1 /\ (\A k \in Ids \ {i} : claims'[k] = claims[k])
    BY <1>2, <1>4, <2>3
  <2> SUFFICES ASSUME NEW k \in Ids
               PROVE  /\ claims'[k] <= 1
                      /\ k > idSeq => claims'[k] = 0
                      /\ k \in DOMAIN builds' /\ builds'[k].status = "pending"
                           => claims'[k] = 0
    BY <1>4 DEF ClaimsCount, Ids
  <2>5. CASE k = i
    BY <1>2, <2>2, <2>3, <2>4, <2>5
  <2>6. CASE k # i
    BY <2>2, <2>4, <2>6 DEF ClaimsCount
  <2> QED
    BY <2>5, <2>6
<1> QED
  BY <1>3, <1>4, StepClaims DEF ClaimsStep

\* ClaimBuildFor hands a build to one runner and never again: not after a
\* lost reply, a runner's death, a reap, a deletion or a restart.
THEOREM ClaimIsUnique == Spec => []ClaimedOnce
<1>1. Init => BaseInv /\ ClaimsCount
  BY BaseInit DEF Init, ClaimsCount
<1>2. BaseInv /\ ClaimsCount /\ [Next]_vars => (BaseInv /\ ClaimsCount)'
  BY BaseStep, ClaimsCountStep
<1>3. ClaimsCount => ClaimedOnce
  BY DEF ClaimsCount, ClaimedOnce
<1> QED
  BY <1>1, <1>2, <1>3, PTL DEF Spec

-----------------------------------------------------------------------------
(* No commit status is falsely green *)

\* The row that vouches for a check keeps doing so, unless its repository is
\* deleted.
LEMMA GreenKept ==
    ASSUME BaseInv, [Next]_vars, NEW k \in Checks, Green(k),
           \A r \in Repos : DeleteRepo(r) => k[1] # r
    PROVE  Green(k)'
<1>1. PICK i \in DOMAIN builds :
        /\ builds[i].status = "success"
        /\ builds[i].repo = k[1] /\ builds[i].job = k[3]
        /\ \/ builds[i].sha = k[2]
           \/ builds[i].tree = TreeOf[k[2]] /\ Trusted(builds[i])
  BY DEF Green
<1>2. TableStep /\ RowsEvolve
  BY BaseStep
<1>3. i \in DOMAIN builds'
  <2>1. CASE RowCreated
    BY <2>1 DEF RowCreated, CreateBuild
  <2>2. CASE RowAdvances
    BY <2>2 DEF RowAdvances, BaseInv, TypeInv, TypeOK
  <2>3. CASE \E r \in Repos : DeleteRepo(r)
    BY <1>1, <2>3 DEF DeleteRepo
  <2> QED
    BY <1>2, <2>1, <2>2, <2>3 DEF TableStep
<1>4. /\ CheckOf(builds'[i]) = CheckOf(builds[i])
      /\ builds'[i].ref = builds[i].ref /\ builds'[i].tree = builds[i].tree
      /\ builds'[i].status = "success"
  BY <1>1, <1>2, <1>3 DEF RowsEvolve, Terminal
<1>5. builds'[i].repo = builds[i].repo /\ builds'[i].sha = builds[i].sha
      /\ builds'[i].job = builds[i].job
  BY <1>4 DEF CheckOf
<1> QED
  BY <1>1, <1>3, <1>4, <1>5 DEF Green, Trusted

\* A status turns green, and a handler comes to owe a green status, only for
\* a check that a build vouches for.
StatusStep ==
    \A k \in Checks : statuses'[k] = "success" => statuses[k] = "success" \/ Green(k)

OwedStep ==
    \A c \in inflight' : c.op = "set" /\ c.state = "success" =>
        \/ c \in inflight
        \/ /\ c.id \in DOMAIN builds'
           /\ builds'[c.id].status = "success"
        \/ c.id \in DOMAIN builds /\ Green(CheckOf(builds[c.id]))

LEMMA StepStatus ==
    ASSUME BaseInv, InflightGreen, [Next]_vars
    PROVE  StatusStep
<1> USE DEF BaseInv, TypeInv
<1>1. CASE UNCHANGED statuses
  BY <1>1 DEF StatusStep
<1>2. ASSUME NEW k \in Checks, NEW state \in CheckState, SetCommitStatus(k, state),
             state = "success" => Green(k)
      PROVE  StatusStep
  BY <1>2 DEF SetCommitStatus, StatusStep, TypeOK
<1>3. ASSUME NEW t \in queueing, QueueJob(t)
      PROVE  StatusStep
  <2>1. <<t.repo, t.sha, t.job>> \in Checks
    BY DEF TypeOK, QueueTask, Checks
  <2>2. CASE SameTree(t) /\ SetCommitStatus(<<t.repo, t.sha, t.job>>, "success")
    <3>1. PICK i : i \in SuccessBuildForTree(t.repo, t.sha, t.job, t.ref)
      BY <2>2 DEF SameTree
    <3>2. Green(<<t.repo, t.sha, t.job>>)
      BY <3>1 DEF SuccessBuildForTree, Green
    <3> QED
      BY <1>2, <2>1, <2>2, <3>2 DEF CheckState
  <2>3. CASE SetCommitStatus(<<t.repo, t.sha, t.job>>, "skipped")
    BY <1>2, <2>1, <2>3 DEF CheckState
  <2> QED
    BY <1>1, <1>3, <2>2, <2>3 DEF QueueJob
<1>4. ASSUME NEW c \in inflight, WriteStatus(c)
      PROVE  StatusStep
  <2>1. CheckOf(builds[c.id]) \in Checks /\ c.state \in CheckState
    BY DEF TypeOK, InflightHasRow, Continuation, CheckOf, Checks, Build
  <2>2. c.state = "success" => Green(CheckOf(builds[c.id]))
    BY <1>4 DEF WriteStatus, InflightGreen
  <2> QED
    BY <1>2, <1>4, <2>1, <2>2 DEF WriteStatus
<1>5. ASSUME NEW i \in Ids, ReapResolve(i)
      PROVE  StatusStep
  <2>1. CASE i \in DOMAIN builds
    <3>1. CheckOf(builds[i]) \in Checks
      BY <2>1 DEF TypeOK, CheckOf, Checks, Build
    <3> QED
      BY <1>2, <1>5, <2>1, <3>1 DEF ReapResolve, CheckState
  <2> QED
    BY <1>1, <1>5, <2>1 DEF ReapResolve
<1>6. ASSUME NEW r \in Repos, DeleteRepo(r)
      PROVE  StatusStep
  BY <1>6 DEF DeleteRepo, StatusStep
<1>7. CASE Requests
  BY <1>1, <1>6, <1>7 DEF Requests, QueueJobs, QueueTagBuilds, BuildTrigger, RunDue,
                          QueueSecurityScan, BuildCancel
<1>8. CASE Handlers
  BY <1>1, <1>3, <1>4, <1>8 DEF Handlers, ResolveCancelled
<1>9. CASE \E w \in Runners : RunnerSteps(w)
  BY <1>1, <1>9 DEF RunnerSteps, ClaimBuildFor, HandOut, CancelOrphaned, NextFails,
                    RunEnds, RunnerDone, ReportGivesUp, RunnerDies
<1>10. CASE LogSessions
  BY <1>1, <1>10 DEF LogSessions, LogLost, LogWatch
<1>11. CASE Reaper
  BY <1>1, <1>5, <1>11 DEF Reaper, GraceExpires, DeadlineExpires, ReapList, ReapFail
<1> QED
  BY <1>1, <1>7, <1>8, <1>9, <1>10, <1>11 DEF Next, vars, ServerRestart

LEMMA StepOwed ==
    ASSUME BaseInv, [Next]_vars
    PROVE  OwedStep
<1> USE DEF BaseInv, TypeInv
<1>1. CASE inflight' \subseteq inflight
  BY <1>1 DEF OwedStep
<1>2. ASSUME NEW i, NEW op, NEW state, Then(i, op, state),
             op = "set" /\ state = "success" =>
               i \in DOMAIN builds' /\ builds'[i].status = "success"
      PROVE  OwedStep
  BY <1>2 DEF Then, OwedStep
<1>3. ASSUME NEW i, Then(i, "set", "pending") \/ Then(i, "resolve", "none")
      PROVE  OwedStep
  BY <1>2, <1>3
<1>4. ASSUME NEW t \in queueing, QueueJob(t)
      PROVE  OwedStep
  BY <1>1, <1>3, <1>4 DEF QueueJob
<1>5. ASSUME NEW c \in inflight, ResolveCancelled(c)
      PROVE  OwedStep
  <2>1. c.id \in DOMAIN builds
    BY DEF InflightHasRow
  <2>2. SuccessBuildFor(CheckOf(builds[c.id])) # {} => Green(CheckOf(builds[c.id]))
    BY DEF SuccessBuildFor, Green, CheckOf
  <2> QED
    BY <1>5, <2>1, <2>2 DEF ResolveCancelled, OwedStep
<1>6. ASSUME NEW w \in Runners, RunnerDone(w)
      PROVE  OwedStep
  <2>1. CASE /\ FinishBuild(runner[w].id, runner[w].outcome)
             /\ Then(runner[w].id, "set", runner[w].outcome)
    <3>1. runner[w].id \in DOMAIN builds' /\ builds'[runner[w].id].status = runner[w].outcome
      BY <2>1 DEF FinishBuild, Running, TypeOK, Build
    <3> QED
      BY <1>2, <2>1, <3>1
  <2> QED
    BY <1>1, <1>6, <2>1 DEF RunnerDone
<1>7. CASE Requests
  BY <1>1, <1>3, <1>7 DEF Requests, QueueJobs, QueueTagBuilds, BuildTrigger, RunDue,
                          QueueSecurityScan, DeleteRepo, BuildCancel
<1>8. CASE Handlers
  BY <1>1, <1>4, <1>5, <1>8 DEF Handlers, WriteStatus
<1>9. CASE \E w \in Runners : RunnerSteps(w)
  BY <1>1, <1>3, <1>6, <1>9 DEF RunnerSteps, ClaimBuildFor, HandOut, CancelOrphaned,
                                NextFails, RunEnds, ReportGivesUp, RunnerDies
<1>10. CASE LogSessions
  BY <1>1, <1>10 DEF LogSessions, LogLost, LogWatch
<1>11. CASE Reaper
  BY <1>1, <1>11 DEF Reaper, GraceExpires, DeadlineExpires, ReapList, ReapFail, ReapResolve
<1> QED
  BY <1>1, <1>7, <1>8, <1>9, <1>10, <1>11 DEF Next, vars, ServerRestart

LEMMA NoFalseGreenStep ==
    ASSUME BaseInv, NoFalseGreen, InflightGreen, [Next]_vars
    PROVE  NoFalseGreen'
<1> SUFFICES ASSUME NEW k \in Checks, statuses'[k] = "success"
             PROVE  Green(k)'
  BY DEF NoFalseGreen, Green, Checks
<1>1. Green(k)
  BY StepStatus DEF StatusStep, NoFalseGreen, Green
<1>2. ASSUME NEW r \in Repos, DeleteRepo(r) PROVE k[1] # r
  BY <1>2 DEF DeleteRepo
<1> QED
  BY <1>1, <1>2, GreenKept

LEMMA InflightGreenStep ==
    ASSUME BaseInv, InflightGreen, [Next]_vars
    PROVE  InflightGreen'
<1> SUFFICES ASSUME NEW c \in inflight', c.op = "set", c.state = "success"
             PROVE  Green(CheckOf(builds[c.id]))'
  BY DEF InflightGreen
<1>1. c.id \in DOMAIN builds'
  BY BaseStep DEF BaseInv, TypeInv, InflightHasRow
<1>2. CASE builds'[c.id].status = "success"
  BY <1>1, <1>2 DEF Green, CheckOf
<1>3. CASE c.id \in DOMAIN builds /\ Green(CheckOf(builds[c.id]))
  <2>1. CheckOf(builds'[c.id]) = CheckOf(builds[c.id])
    BY <1>1, <1>3, BaseStep DEF RowsEvolve
  <2>2. CheckOf(builds[c.id]) \in Checks
    BY <1>3 DEF BaseInv, TypeInv, TypeOK, CheckOf, Checks, Build
  <2>3. ASSUME NEW r \in Repos, DeleteRepo(r) PROVE CheckOf(builds[c.id])[1] # r
    BY <1>1, <2>3 DEF DeleteRepo, CheckOf
  <2>4. ASSUME NEW k \in Checks, Green(k), \A r \in Repos : DeleteRepo(r) => k[1] # r
        PROVE  Green(k)'
    BY <2>4, GreenKept
  <2>5. PICK k \in Checks : k = CheckOf(builds[c.id])
    BY <2>2
  <2>6. Green(k)'
    BY <1>3, <2>3, <2>4, <2>5
  <2> QED
    BY <2>1, <2>5, <2>6 DEF Green
<1> QED
  <2>1. c \in inflight => c.id \in DOMAIN builds
    BY DEF BaseInv, TypeInv, InflightHasRow
  <2> QED
    BY <1>1, <1>2, <1>3, <2>1, StepOwed DEF OwedStep, InflightGreen

\* A ci/<job> status is green only if a build of the repository passed that
\* job on that commit, or a trusted one did on the same tree: no late report
\* (runRunnerDone), cancel (resolveCancelledCommitStatus) or reuse (queueJobs)
\* marks a commit passed that was not.
THEOREM GreenIsEarned == Spec => []NoFalseGreen
<1>1. Init => BaseInv /\ NoFalseGreen /\ InflightGreen
  BY BaseInit DEF Init, NoFalseGreen, InflightGreen
<1>2. BaseInv /\ NoFalseGreen /\ InflightGreen /\ [Next]_vars
        => (BaseInv /\ NoFalseGreen /\ InflightGreen)'
  BY BaseStep, NoFalseGreenStep, InflightGreenStep
<1> QED
  BY <1>1, <1>2, PTL DEF Spec

=============================================================================
