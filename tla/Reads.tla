------------------------------- MODULE Reads --------------------------------
(***************************************************************************)
(* What the read commands show and to whom (control/read.go, repo.go,      *)
(* sig.go, build.go, buildfollow.go, issue.go, mr.go, dashboard.go,        *)
(* search.go, query.go, profile.go, release.go, snippet.go and the         *)
(* list queries of store/), and the per-repository configuration rows      *)
(* that only an administrator writes and sees.                             *)
(*                                                                         *)
(* A handler that resolves one repository is the check it passes to        *)
(* resolveRepo and the part of the repository it prints: its paging,       *)
(* filters and layout are left out. A handler that lists across            *)
(* repositories is the set of repositories its query returns. Rows that    *)
(* name a repository (pins, bookmarks, authorship, assignments) outlive    *)
(* the access they were made with, so each list decides again.             *)
(***************************************************************************)
EXTENDS Access

CONSTANTS
    ForkOf,        \* repository -> the repository it was forked from, or Unset
    SnippetIds,
    MaxFollows,    \* control.maxFollows, per account
    MaxReadOps     \* bound on this module's writes

ASSUME ReadsAssumption ==
    /\ ForkOf \in [RepoIds -> RepoIds \cup {Unset}]
    /\ MaxFollows \in Nat \ {0}
    /\ MaxReadOps \in Nat

VARIABLES
    mark,       \* repo_pins and bookmarks
    tie,        \* rows that involve a user: author, assignee, review request, notice
    config,     \* what is configured on each repository
    setting,    \* a configuring command between its check and its write
    snippet,    \* rows of snippets
    follow,     \* open `build log --follow` streams
    sent,       \* history: the last line a follow wrote
    readOps

readVars == <<mark, tie, config, setting, snippet, follow, sent, readOps>>

-----------------------------------------------------------------------------
(* Handlers over one repository *)

Public == {"about", "code", "items", "builds", "releases", "scan", "wiki", "domains"}
Guarded == {"access", "settings", "secrets", "keys", "hooks", "mirrors", "runners", "leaks"}
Parts == Public \cup Guarded

Opens(gate, part) == [gate |-> gate, part |-> part]

Passes(u, r, gate) ==
    IF gate = "site" THEN u \in SiteAdmins ELSE Permits(u, r, gate)

runTopicsList == Opens("read", "about")
runRepoRefs == Opens("read", "code")
runRepoBlame == Opens("read", "code")
runRepoTree == Opens("read", "code")
runRepoReadme == Opens("read", "code")
runRepoCat == Opens("read", "code")
runRepoLog == Opens("read", "code")
runRepoCommit == Opens("read", "code")
runRepoGrep == Opens("read", "code")
runRepoDiff == Opens("read", "code")
runRepoDownload == Opens("read", "code")
runRepoSymbols == Opens("read", "code")
runRepoDefinitions == Opens("read", "code")
runIssueTemplates == Opens("read", "code")
runReleaseList == Opens("read", "releases")
runReleaseShow == Opens("read", "releases")
runReleaseNotes == Opens("read", "releases")
runAssetGet == Opens("read", "releases")
runSecurityStatus == Opens("read", "scan")
runDepsStatus == Opens("read", "scan")
runBuildList == Opens("read", "builds")
runBuildShow == Opens("read", "builds")
runBuildLog == Opens("read", "builds")
runBuildJobs == Opens("read", "builds")
runStatusList == Opens("read", "builds")
runIssueList == Opens("read", "items")
runIssueShow == Opens("read", "items")
runMRList == Opens("read", "items")
runMRShow == Opens("read", "items")
runMRDiff == Opens("read", "items")
runMRRevisions == Opens("read", "items")
runMRRangeDiff == Opens("read", "items")
runWikiList == Opens("read", "wiki")
runWikiShow == Opens("read", "wiki")
runDomainList == Opens("read", "domains")
runAccessList == Opens("admin", "access")
runSettingsShow == Opens("admin", "settings")
\* A plausible mistake: whoever reads the repository lists its secrets.
runSecretListRead == Opens("read", "secrets")
runSecretList == Opens("admin", "secrets")
runDeployKeyList == Opens("admin", "keys")
runWebhookList == Opens("admin", "hooks")
runWebhookDeliveries == Opens("admin", "hooks")
runMirrorList == Opens("admin", "mirrors")
runRepoRunnerList == Opens("admin", "runners")
runSecretScanHistory == Opens("admin", "leaks")
runAdminRepoList == Opens("site", "about")
runAdminRunners == Opens("site", "runners")

ReadHandlers ==
    {runTopicsList, runRepoRefs, runRepoBlame, runRepoTree, runRepoReadme,
     runRepoCat, runRepoLog, runRepoCommit, runRepoGrep, runRepoDiff,
     runRepoDownload, runRepoSymbols, runRepoDefinitions, runIssueTemplates,
     runReleaseList, runReleaseShow, runReleaseNotes, runAssetGet,
     runSecurityStatus, runDepsStatus, runBuildList, runBuildShow, runBuildLog,
     runBuildJobs, runStatusList, runIssueList, runIssueShow, runMRList,
     runMRShow, runMRDiff, runMRRevisions, runMRRangeDiff, runWikiList,
     runWikiShow, runDomainList, runAccessList, runSettingsShow, runSecretList,
     runDeployKeyList, runWebhookList, runWebhookDeliveries, runMirrorList,
     runRepoRunnerList, runSecretScanHistory, runAdminRepoList, runAdminRunners}

\* What a gate opens: the parts that the handlers behind it print.
ReadParts ==
    [gate \in {"read", "write", "admin", "site"} |->
       {h.part : h \in {h \in ReadHandlers : h.gate = gate}}]

Told(r, parts) == {[repo |-> r, part |-> p] : p \in parts}

\* `repo show`: the repository, the fork's parent to whoever reads that too,
\* and the mirrors to its administrators.
runRepoShow(u, r) ==
    IF ~ resolveRepo(u, r, "read") THEN {}
    ELSE Told(r, {"about", "domains"})
         \cup (IF ForkOf[r] # Unset /\ resolveRepo(u, ForkOf[r], "read")
               THEN Told(ForkOf[r], {"about"}) ELSE {})
         \cup (IF CanAdmin(u, r) THEN Told(r, {"mirrors"}) ELSE {})

\* Labels and milestones are counted over the owner's readable repositories.
runLabelList(u, r) ==
    IF resolveRepo(u, r, "read")
    THEN UNION {Told(x, {"items"}) : x \in ReadableScope(u, r)} ELSE {}
runMilestoneList(u, r) ==
    IF resolveRepo(u, r, "read")
    THEN UNION {Told(x, {"items"}) : x \in ReadableScope(u, r)} ELSE {}

\* orgReader: members, and whoever reads a repository of the organization.
orgReader(u, o) == OrgHere(o) /\ (OrgRole(o, u) # "none" \/ ReadableOrgRepoIDs(u, o) # {})
runOrgLabelList(u, o) ==
    IF orgReader(u, o)
    THEN UNION {Told(x, {"items"}) : x \in ReadableOrgRepoIDs(u, o)} ELSE {}
runOrgMilestoneList(u, o) ==
    IF orgReader(u, o)
    THEN UNION {Told(x, {"items"}) : x \in ReadableOrgRepoIDs(u, o)} ELSE {}

ShownOf(u, r) ==
    LET open == {gate \in {"read", "write", "admin", "site"} : Found(r) /\ Passes(u, r, gate)}
    IN  Told(r, UNION {ReadParts[gate] : gate \in open})
    \cup runRepoShow(u, r) \cup runLabelList(u, r) \cup runMilestoneList(u, r)

-----------------------------------------------------------------------------
(* Handlers that list across repositories *)

ReposHere == {r \in RepoIds : Found(r)}

\* A plausible mistake: direct grants are left out.
ListReposForUserUngranted(u) ==
    {r \in ReposHere :
       \/ isOwner(u, r)
       \/ /\ OrgRole(repo[r].owner, u) # "none"
          /\ OrgRole(repo[r].owner, u) = "admin" \/ org[repo[r].owner].role # "none"
       \/ \E t \in TeamIds : u \in team[t].users /\ team[t].roles[r] # "none"}

ListReposForUser(u) ==
    {r \in ReposHere :
       \/ isOwner(u, r)
       \/ grant[r][u] # "none"
       \/ /\ OrgRole(repo[r].owner, u) # "none"
          /\ OrgRole(repo[r].owner, u) = "admin" \/ org[repo[r].owner].role # "none"
       \/ \E t \in TeamIds : u \in team[t].users /\ team[t].roles[r] # "none"}
ListPublicRepos == {r \in ReposHere : repo[r].public}
VisibleRepos(u) == {r \in ReposHere : visibleCond(r, u)}

runRepoList(u) == ListReposForUser(u)
runRepoSearch(u) == ListPublicRepos \cup ListReposForUser(u)
runExplore == ListPublicRepos
runSearch(u) == VisibleRepos(u)
itemRepos(u) == {r \in ReposHere : visibleCond(r, u)}
runItemQuery(u) == itemRepos(u)
PinnedQueries(u) == itemRepos(u)
searchQuery(u) == {r \in ReposHere : visibleCond(r, u)}
RecentEvents(u) == {r \in ReposHere : reachableCond(r, u)}
RecentBuilds(u) == {r \in ReposHere : reachableCond(r, u)}
runFeed(u) == RecentEvents(u)
OwnerPublicEvents == ListPublicRepos

\* The profile of an owner: the repositories the caller may read.
runProfileShow(u) == {r \in ReposHere : CanRead(u, r)}

MarkedBy(u, kind) == {r \in ReposHere : <<kind, r>> \in mark[u]}
\* A plausible mistake: a pin is shown because it was allowed when made.
pinnedOutputsAll(u) == MarkedBy(u, "pin")
pinnedOutputs(u) == {r \in MarkedBy(u, "pin") : CanRead(u, r)}
runRepoBookmarks(u) == {r \in MarkedBy(u, "bookmark") : CanRead(u, r)}

\* Rows by involvement: what the user wrote stays theirs to see, and an
\* assignment, a review request or a notice is shown without a check.
Tied(u, as) == {r \in ReposHere : <<as, r>> \in tie[u]}
involvedCond(u) == Tied(u, "author") \cup {r \in ReposHere : reachableCond(r, u)}
DashboardMRs(u) == involvedCond(u)
DashboardIssues(u) == involvedCond(u)
AssignedIssues(u) == Tied(u, "assigned")
ReviewQueue(u) == {r \in ReposHere : reachableCond(r, u)} \cup Tied(u, "requested")
Inbox(u) == Tied(u, "noticed")

dashboardData(u) ==
    pinnedOutputs(u) \cup DashboardMRs(u) \cup DashboardIssues(u)
    \cup ReviewQueue(u) \cup AssignedIssues(u) \cup RecentEvents(u)
    \cup RecentBuilds(u) \cup PinnedQueries(u)

Listed(u) ==
    runRepoList(u) \cup runRepoSearch(u) \cup runExplore \cup runSearch(u)
    \cup runItemQuery(u) \cup searchQuery(u) \cup runFeed(u) \cup OwnerPublicEvents
    \cup runProfileShow(u) \cup runRepoBookmarks(u) \cup Inbox(u) \cup dashboardData(u)

-----------------------------------------------------------------------------
(* Writes: marks, involvement, configuration *)

May == readOps < MaxReadOps
Counted == readOps' = readOps + 1

\* setRepoMark: pin, unpin, bookmark and unbookmark all need read access.
setRepoMark(u, r, kind, on) ==
    /\ May /\ resolveRepo(u, r, "read")
    /\ on \/ <<kind, r>> \in mark[u]
    /\ mark' = [mark EXCEPT ![u] = IF on THEN @ \cup {<<kind, r>>} ELSE @ \ {<<kind, r>>}]
    /\ Counted
    /\ UNCHANGED <<tie, config, setting, snippet, follow, sent>>

\* An issue or merge request is opened by a reader; assignees, reviewers
\* and watchers are named by rows that no check of theirs guards.
Involve(u, r, as) ==
    /\ May /\ <<as, r>> \notin tie[u]
    /\ Found(r)
    /\ as = "author" => CanRead(u, r)
    /\ tie' = [tie EXCEPT ![u] = @ \cup {<<as, r>>}]
    /\ Counted
    /\ UNCHANGED <<mark, config, setting, snippet, follow, sent>>

Writes(gate, part, on) == [gate |-> gate, part |-> part, on |-> on]

runSetDescription == Writes("admin", "about", TRUE)
runSetDefaultBranch == Writes("admin", "about", TRUE)
runSetWebsite == Writes("admin", "about", TRUE)
editTopics == Writes("admin", "about", TRUE)
runSecretSet == Writes("admin", "secrets", TRUE)
runSecretRemove == Writes("admin", "secrets", FALSE)
runDeployKeyAdd == Writes("admin", "keys", TRUE)
runDeployKeyRemove == Writes("admin", "keys", FALSE)
runWebhookAdd == Writes("admin", "hooks", TRUE)
runRepoItemAction == Writes("admin", "hooks", FALSE)
runRepoRunnerAdd == Writes("admin", "runners", TRUE)
runRepoRunnerRemove == Writes("admin", "runners", FALSE)
runSecurityEnable == Writes("admin", "scan", TRUE)
runSecurityDisable == Writes("admin", "scan", FALSE)
runSecurityRun == Writes("admin", "scan", TRUE)
runSecurityFrequency == Writes("admin", "scan", TRUE)
setSecurityList == Writes("admin", "scan", TRUE)
runDepsEnable == Writes("admin", "scan", TRUE)
runDepsDisable == Writes("admin", "scan", FALSE)
runSecretScanMode == Writes("admin", "leaks", TRUE)
runSecretScanAllow == Writes("admin", "leaks", TRUE)
runRequireApprovals == Writes("admin", "settings", TRUE)

WriteHandlers ==
    {runSetDescription, runSetDefaultBranch, runSetWebsite, editTopics,
     runSecretSet, runSecretRemove, runDeployKeyAdd, runDeployKeyRemove,
     runWebhookAdd, runRepoItemAction, runRepoRunnerAdd, runRepoRunnerRemove,
     runSecurityEnable, runSecurityDisable, runSecurityRun, runSecurityFrequency,
     setSecurityList, runDepsEnable, runDepsDisable, runSecretScanMode,
     runSecretScanAllow, runRequireApprovals}

\* The check, then the write: an administrator demoted in between still
\* lands the one command.
Configure(u, r, h) ==
    /\ May /\ setting = Unset
    /\ Found(r) /\ Passes(u, r, h.gate)
    /\ setting' = [repo |-> r, part |-> h.part, on |-> h.on]
    /\ Counted
    /\ UNCHANGED <<mark, tie, config, snippet, follow, sent>>

Configured ==
    /\ setting # Unset
    /\ config' = [config EXCEPT ![setting.repo] =
                    IF setting.on THEN @ \cup {setting.part} ELSE @ \ {setting.part}]
    /\ setting' = Unset
    /\ UNCHANGED <<mark, tie, snippet, follow, sent, readOps>>

-----------------------------------------------------------------------------
(* Snippets *)

NoSnippet == [owner |-> Unset, visibility |-> "private"]
CanReadSnippet(u, s) ==
    \/ snippet[s].visibility # "private"
    \/ u # Unset /\ (u = snippet[s].owner \/ u \in SiteAdmins)
CanWriteSnippet(u, s) == u # Unset /\ (u = snippet[s].owner \/ u \in SiteAdmins)

\* snippetRef: unreadable is not found, readable but not one's own is refused.
snippetRef(u, s, write) ==
    /\ snippet[s].owner # Unset /\ CanReadSnippet(u, s)
    /\ write => CanWriteSnippet(u, s)

runSnippetShow(u) == {s \in SnippetIds : snippetRef(u, s, FALSE)}
runSnippetFileGet(u) == {s \in SnippetIds : snippetRef(u, s, FALSE)}

\* A plausible mistake: the list shows whatever is not private.
ListSnippetsOpen(u, owner, all) ==
    {s \in SnippetIds : /\ snippet[s].owner = owner
                        /\ all \/ snippet[s].visibility # "private"}
ListSnippets(u, owner, all) ==
    {s \in SnippetIds : /\ snippet[s].owner = owner
                        /\ all \/ snippet[s].visibility = "public"}
runSnippetList(u, owner) == ListSnippets(u, owner, u = owner \/ u \in SiteAdmins)

runSnippetCreate(u, s, v) ==
    /\ May /\ snippet[s].owner = Unset
    /\ snippet' = [snippet EXCEPT ![s] = [owner |-> u, visibility |-> v]]
    /\ Counted
    /\ UNCHANGED <<mark, tie, config, setting, follow, sent>>

runSnippetEdit(u, s, v) ==
    /\ May /\ snippetRef(u, s, TRUE)
    /\ snippet' = [snippet EXCEPT ![s].visibility = v]
    /\ Counted
    /\ UNCHANGED <<mark, tie, config, setting, follow, sent>>

runSnippetDelete(u, s) ==
    /\ May /\ snippetRef(u, s, TRUE)
    /\ snippet' = [snippet EXCEPT ![s] = NoSnippet]
    /\ Counted
    /\ UNCHANGED <<mark, tie, config, setting, follow, sent>>

-----------------------------------------------------------------------------
(* Following a build's log *)

\* old: followPoll has passed since the last check.
NoFollow == [repo |-> Unset, old |-> FALSE]
Open(u) == {n \in 1..MaxFollows : follow[u][n].repo # Unset}

\* takeFollow, after the command's own resolveRepo.
takeFollow(u, r) ==
    /\ May /\ resolveRepo(u, r, "read")
    /\ \E n \in 1..MaxFollows \ Open(u) :
         follow' = [follow EXCEPT ![u][n] = [repo |-> r, old |-> FALSE]]
    /\ Counted
    /\ UNCHANGED <<mark, tie, config, setting, snippet, sent>>

\* mayStillRead looks the repository up by its id.
mayStillRead(u, r) == repo[r].is = "here" /\ CanRead(u, r)

FollowEnds(u, n) == follow' = [follow EXCEPT ![u][n] = NoFollow]

\* What went out: on a check of what age, and whether it would pass now.
Sends(u, r, old) == sent' = [repo |-> r, old |-> old, readable |-> mayStillRead(u, r)]

\* A plausible mistake: access is checked when the follow opens, only.
followBuildLogOnce(u, n) == Sends(u, follow[u][n].repo, follow[u][n].old) /\ UNCHANGED follow

\* One turn of the loop: the check when it is due, then the new bytes.
followBuildLog(u, n) ==
    LET f == follow[u][n]
    IN  \/ ~ f.old /\ Sends(u, f.repo, FALSE) /\ UNCHANGED follow
        \/ /\ f.old /\ mayStillRead(u, f.repo)
           /\ follow' = [follow EXCEPT ![u][n].old = FALSE]
           /\ Sends(u, f.repo, FALSE)
        \/ f.old /\ ~ mayStillRead(u, f.repo) /\ FollowEnds(u, n) /\ UNCHANGED sent

Turn(u, n) ==
    /\ follow[u][n].repo # Unset
    /\ followBuildLog(u, n)
    /\ UNCHANGED <<mark, tie, config, setting, snippet, readOps>>

PollPasses(u, n) ==
    /\ follow[u][n].repo # Unset /\ ~ follow[u][n].old
    /\ follow' = [follow EXCEPT ![u][n].old = TRUE]
    /\ UNCHANGED <<mark, tie, config, setting, snippet, sent, readOps>>

\* The build ends, the reader leaves, the server stops: dropFollow.
dropFollow(u, n) ==
    /\ follow[u][n].repo # Unset
    /\ FollowEnds(u, n)
    /\ UNCHANGED <<mark, tie, config, setting, snippet, sent, readOps>>

-----------------------------------------------------------------------------
(* The specification *)

MarkKinds == {"pin", "bookmark"}
Ties == {"author", "assigned", "requested", "noticed"}
Visibilities == {"public", "unlisted", "private"}

\* Nothing is marked, configured or followed yet; one snippet is there.
ReadsFresh ==
    /\ mark = [u \in Users |-> {}]
    /\ tie = [u \in Users |-> {}]
    /\ config = [r \in RepoIds |-> {}]
    /\ setting = Unset
    /\ snippet = [s \in SnippetIds |->
         IF s = CHOOSE x \in SnippetIds : TRUE
         THEN [NoSnippet EXCEPT !.owner = CHOOSE u \in Users : TRUE] ELSE NoSnippet]
    /\ follow = [u \in Users |-> [n \in 1..MaxFollows |-> NoFollow]]
    /\ sent = Unset
    /\ readOps = 0

\* An organization whose repository one user forked; everyone else is a
\* plain member and in every team.
ReadsInit ==
    /\ LET u == CHOOSE v \in Users : TRUE
       IN  /\ org = [o \in OrgIds |-> [is |-> "here", role |-> "read"]]
           /\ member = [o \in OrgIds |-> [v \in Users |-> IF v = u THEN "admin" ELSE "member"]]
           /\ team = [t \in TeamIds |-> [NoTeam EXCEPT !.is = "here", !.users = Users \ {u}]]
           /\ \E public \in BOOLEAN, o \in OrgIds :
                repo = [r \in RepoIds |->
                  [NoRow EXCEPT !.is = "here", !.public = public,
                     !.owner = IF ForkOf[r] = Unset THEN o ELSE u]]
    /\ grant = [r \in RepoIds |-> [u \in Users |-> "none"]]
    /\ asked = [w \in Workers |-> Unset]
    /\ slipped = {}
    /\ accessOps = 0
    /\ ReadsFresh

ReadsStep ==
    \/ \E u \in Users, r \in RepoIds :
         \/ \E kind \in MarkKinds, on \in BOOLEAN : setRepoMark(u, r, kind, on)
         \/ \E as \in Ties : Involve(u, r, as)
         \/ \E h \in WriteHandlers : Configure(u, r, h)
         \/ takeFollow(u, r)
    \/ Configured
    \/ \E u \in Users, s \in SnippetIds :
         \/ \E v \in Visibilities : runSnippetCreate(u, s, v) \/ runSnippetEdit(u, s, v)
         \/ runSnippetDelete(u, s)
    \/ \E u \in Users, n \in 1..MaxFollows :
         Turn(u, n) \/ PollPasses(u, n) \/ dropFollow(u, n)

ReadsNext ==
    \/ AccessNext /\ UNCHANGED readVars
    \/ ReadsStep /\ UNCHANGED accessVars

ReadsSpec == ReadsInit /\ [][ReadsNext]_<<accessVars, readVars>>

ReadsTypeOK ==
    /\ mark \in [Users -> SUBSET (MarkKinds \X RepoIds)]
    /\ tie \in [Users -> SUBSET (Ties \X RepoIds)]
    /\ config \in [RepoIds -> SUBSET Parts]
    /\ \A s \in SnippetIds : snippet[s] \in [owner: Users \cup {Unset}, visibility: Visibilities]
    /\ \A u \in Users : Cardinality(Open(u)) <= MaxFollows
    /\ readOps \in 0..MaxReadOps

-----------------------------------------------------------------------------
(* Properties *)

\* A list shows a repository only to someone who may read it now, save what
\* the caller wrote, was asked to do or was told of (dashboard.go:
\* involvedCond, AssignedIssues, ReviewQueue, the inbox).
ShowsReadable ==
    \A u \in Users :
      /\ \A r \in Listed(u) : (\E as \in Ties : <<as, r>> \in tie[u]) \/ CanRead(u, r)
      /\ \A o \in OrgIds : \A x \in runOrgLabelList(u, o) \cup runOrgMilestoneList(u, o) :
           CanRead(u, x.repo)

\* What the handlers over one repository print goes to its readers; access
\* rows, settings, secrets, deploy keys, webhooks, mirrors, runners and leaks
\* to its administrators, whatever roles, teams and owners have become. The
\* instance's administrators see all of it.
ConfigShownToAdmins ==
    \A u \in Users \ SiteAdmins, r \in RepoIds : \A x \in ShownOf(u, r) :
      /\ CanRead(u, x.repo)
      /\ x.part \in Guarded => CanAdmin(u, x.repo)

\* The three ways of finding a repository agree: `repo search`, `search`, the
\* item queries list what the caller can read, no less.
SearchesAgree ==
    \A u \in Users :
      LET readable == {r \in ReposHere : CanRead(u, r)}
      IN  /\ runRepoSearch(u) = readable
          /\ runSearch(u) = readable
          /\ runItemQuery(u) = readable

\* A line of a log goes to someone who lost access only within followPoll of
\* the last check that passed.
FollowStops == sent # Unset => sent.readable \/ ~ sent.old

\* A snippet that is not public is listed only for its owner and the site's
\* admins, and a private one is opened by nobody else.
SnippetsStayTheirs ==
    \A s \in SnippetIds, u \in Users :
      snippet[s].owner \notin {Unset, u} /\ u \notin SiteAdmins =>
        /\ s \in runSnippetList(u, snippet[s].owner) => snippet[s].visibility = "public"
        /\ s \in runSnippetShow(u) => snippet[s].visibility # "private"

\* Commands show a repository to its readers, its configuration to its
\* administrators, and the list queries agree with policy (control, store).
CommandsAgree ==
    /\ ShowsReadable /\ ConfigShownToAdmins /\ SearchesAgree
    /\ FollowStops /\ SnippetsStayTheirs
=============================================================================
