------------------------------ MODULE Tracker ------------------------------
(***************************************************************************)
(* Issues and the tracker side of merge requests: labels, milestones,      *)
(* assignees, comments, watching and the inbox, and what a commit message  *)
(* does to an issue (control/issue.go, label.go, milestone.go, orglabel.go,*)
(* thread.go, react.go, notifications.go, commitrefs.go and the tracker    *)
(* commands of mr.go; store/issues.go, labels.go, milestones.go, inbox.go, *)
(* notify.go).                                                             *)
(*                                                                         *)
(* A label or milestone row belongs to a repository or to an organization, *)
(* whose repositories all see it. A command reads the repository row and   *)
(* checks it; its write uses the row as read, so a transfer in between     *)
(* leaves it with the owner of before. Composed with the commands of       *)
(* Access that matter here: transfer, archive, visibility and revoke.      *)
(***************************************************************************)
EXTENDS Access

CONSTANTS
    ItemIds,       \* issues and merge requests
    TrackNames,    \* names of labels and milestones
    Shas,          \* commits whose messages name issues
    Preferring,    \* accounts with the watch preference on
    TrackWorkers,  \* numbers of the tracker commands under way
    MaxTrackOps    \* bound on tracker commands

ASSUME TrackerAssumption ==
    /\ RepoIds \cap (Users \cup OrgIds) = {}
    /\ Preferring \subseteq Users
    /\ TrackNames # {} /\ Workers # {}
    /\ TrackWorkers \subseteq Nat
    /\ MaxTrackOps \in Nat /\ MaxAccessOps > 0

VARIABLES
    rows,       \* labels and milestones: <<table, scope, name>>
    shut,       \* the closed milestones
    item,       \* issues and merge_requests with their join tables
    watch,      \* repo_watchers
    inbox,      \* the inbox: who was told of what; read_at is left out
    refs,       \* commit_refs
    acted,      \* history: what each reference did, as a count
    job,        \* tracker commands under way
    stale,      \* history: repositories written under a former owner
    strayed,    \* history: repositories that left an organization
    trackOps

trackVars == <<rows, shut, item, watch, inbox, refs, acted, job, stale,
               strayed, trackOps>>

-----------------------------------------------------------------------------
(* The shape of the state *)

Scopes == RepoIds \cup OrgIds
TrackRow == {"label", "milestone"} \X Scopes \X TrackNames

Item == [is: {"none", "here"}, kind: {"issue", "mr"}, repo: RepoIds,
         author: Users, open: BOOLEAN, labels: SUBSET TrackRow,
         milestone: TrackRow \cup {Unset}, asked: SUBSET Users,
         said: SUBSET Users, mentioned: SUBSET Users, edited: SUBSET Users,
         reacted: SUBSET Users]

TrackOps == {"create", "state", "edit", "label", "unlabel", "assign",
             "unassign", "milestone", "comment", "react", "labelset",
             "labelremove", "milestonecreate", "milestonestate",
             "orglabelset", "orglabelremove", "orgmilestonecreate",
             "orgmilestonestate", "watch", "ref", "mrref"}

\* saw: the repository row as the command read it. row: the milestone it
\* resolved. also: what a creation does after the row is in.
Job == [op: TrackOps, by: Users, scope: Scopes, saw: RepoRow,
        item: ItemIds \cup {Unset}, name: TrackNames \cup {Unset},
        row: TrackRow \cup {Unset}, who: Users \cup {Unset},
        arg: {"issue", "mr", "on", "off", "default", "watching", "muted",
              Unset} \cup Shas,
        at: {"write", "label", "milestone", "assign", "act"}]

\* A worker with no command is none of them.
ASSUME JobAssumption == Unset \notin Job

TrackNotice == [to: Users, item: ItemIds,
           why: {"opened", "thread", "mention", "asked"}, may: BOOLEAN]

TrackTypeOK ==
    /\ rows \subseteq TrackRow
    /\ shut \subseteq rows
    /\ item \in [ItemIds -> Item]
    /\ watch \in [RepoIds -> [Users -> {"default", "watching", "muted"}]]
    /\ inbox \subseteq TrackNotice
    /\ refs \subseteq ItemIds \X (Shas \cup {"mr"})
    /\ acted \in [ItemIds \X (Shas \cup {"mr"}) -> 0..2]
    /\ \A w \in TrackWorkers : job[w] = Unset \/ job[w] \in Job
    /\ stale \subseteq RepoIds /\ strayed \subseteq RepoIds
    /\ trackOps \in 0..MaxTrackOps
    /\ \A i \in ItemIds : /\ item[i].labels \subseteq rows
                          /\ item[i].milestone # Unset => item[i].milestone \in rows

-----------------------------------------------------------------------------
(* Finding a thread, and the checks all handlers share *)

refuseArchived(r) == ~ repo[r].archived

issueRef(u, i, need) ==
    /\ item[i].is = "here" /\ item[i].kind = "issue"
    /\ resolveRepo(u, item[i].repo, need)

mrRef(u, i, need) ==
    /\ item[i].is = "here" /\ item[i].kind = "mr"
    /\ resolveRepo(u, item[i].repo, need)

authorOrWrite(u, i) == item[i].author = u \/ CanWrite(u, item[i].repo)

\* A thread whose repository is not archived.
Live(i) == refuseArchived(item[i].repo)

\* The row a name resolves to: the organization's before the repository's.
MilestoneByTitle(r, n) ==
    LET first == <<"milestone", repo[r].owner, n>>
        own == <<"milestone", r, n>>
    IN  IF first \in rows THEN first ELSE IF own \in rows THEN own ELSE Unset

OnRepo(op, u, r, n, arg) ==
    [op |-> op, by |-> u, scope |-> r, saw |-> repo[r], item |-> Unset,
     name |-> n, row |-> Unset, who |-> Unset, arg |-> arg, at |-> "write"]
OnItem(op, u, i, n, who, arg) ==
    [OnRepo(op, u, item[i].repo, n, arg) EXCEPT !.item = i, !.who = who]
OnOrg(op, u, o, n, arg) ==
    [op |-> op, by |-> u, scope |-> o, saw |-> NoRow, item |-> Unset,
     name |-> n, row |-> Unset, who |-> Unset, arg |-> arg, at |-> "write"]

-----------------------------------------------------------------------------
(* The handlers: what each lets through *)

Waiting(w) ==
    /\ trackOps < MaxTrackOps
    /\ job[w] = Unset
    /\ \A v \in TrackWorkers : v < w => job[v] # Unset

Taken(w, q) ==
    /\ trackOps' = trackOps + 1
    /\ job' = [job EXCEPT ![w] = q]
    /\ UNCHANGED <<rows, shut, item, watch, inbox, refs, acted, stale, strayed>>
    /\ UNCHANGED accessVars

\* A label, milestone or assignee at creation needs write access.
runIssueCreate(w) ==
    \E u \in Users, i \in ItemIds, r \in RepoIds, who \in Users \cup {Unset},
       n, title \in TrackNames \cup {Unset} :
        /\ item[i].is = "none"
        /\ resolveRepo(u, r, "read") /\ refuseArchived(r)
        /\ title # Unset => MilestoneByTitle(r, title) # Unset
        /\ n # Unset \/ title # Unset \/ who # Unset => CanWrite(u, r)
        /\ Taken(w, [OnRepo("create", u, r, n, "issue") EXCEPT
                       !.item = i, !.who = who, !.row = MilestoneByTitle(r, title)])

runMRCreate(w) ==
    \E u \in Users, i \in ItemIds, r \in RepoIds :
        /\ item[i].is = "none"
        /\ resolveRepo(u, r, "read") /\ refuseArchived(r)
        /\ Taken(w, [OnRepo("create", u, r, Unset, "mr") EXCEPT !.item = i])

\* A plausible mistake: an archived repository's issues can be reopened.
setIssueStateArchived(w) ==
    \E u \in Users, i \in ItemIds, v \in {"on", "off"} :
        /\ issueRef(u, i, "read") /\ authorOrWrite(u, i)
        /\ item[i].open # (v = "on")
        /\ Taken(w, OnItem("state", u, i, Unset, Unset, v))

setIssueState(w) ==
    \E u \in Users, i \in ItemIds, v \in {"on", "off"} :
        /\ issueRef(u, i, "read") /\ Live(i) /\ authorOrWrite(u, i)
        /\ item[i].open # (v = "on")
        /\ Taken(w, OnItem("state", u, i, Unset, Unset, v))

runIssueEdit(w) ==
    \E u \in Users, i \in ItemIds :
        /\ issueRef(u, i, "read") /\ Live(i) /\ authorOrWrite(u, i)
        /\ Taken(w, OnItem("edit", u, i, Unset, Unset, Unset))

runMREdit(w) ==
    \E u \in Users, i \in ItemIds :
        /\ mrRef(u, i, "read") /\ Live(i) /\ authorOrWrite(u, i)
        /\ Taken(w, OnItem("edit", u, i, Unset, Unset, Unset))

runIssueLabel(w) ==
    \E u \in Users, i \in ItemIds, n \in TrackNames, op \in {"label", "unlabel"} :
        /\ issueRef(u, i, "write") /\ Live(i)
        /\ Taken(w, OnItem(op, u, i, n, Unset, Unset))

runMRLabel(w) ==
    \E u \in Users, i \in ItemIds, n \in TrackNames, op \in {"label", "unlabel"} :
        /\ mrRef(u, i, "write") /\ Live(i)
        /\ Taken(w, OnItem(op, u, i, n, Unset, Unset))

runIssueAssign(w) ==
    \E u, v \in Users, i \in ItemIds, op \in {"assign", "unassign"} :
        /\ issueRef(u, i, "write") /\ Live(i)
        /\ Taken(w, OnItem(op, u, i, Unset, v, Unset))

runMRReviewRequest(w) ==
    \E u, v \in Users, i \in ItemIds, op \in {"assign", "unassign"} :
        /\ mrRef(u, i, "write") /\ Live(i)
        /\ Taken(w, OnItem(op, u, i, Unset, v, Unset))

\* "none" clears it: no row.
setItemMilestone(w) ==
    \E u \in Users, i \in ItemIds, title \in TrackNames \cup {Unset} :
        LET row == IF title = Unset THEN Unset ELSE MilestoneByTitle(item[i].repo, title)
        IN  /\ issueRef(u, i, "write") \/ mrRef(u, i, "write")
            /\ Live(i)
            /\ title # Unset => row # Unset
            /\ Taken(w, [OnItem("milestone", u, i, title, Unset, Unset) EXCEPT !.row = row])

runComment(w) ==
    \E u \in Users, i \in ItemIds, v \in Users \cup {Unset} :
        /\ issueRef(u, i, "read") \/ mrRef(u, i, "read")
        /\ Live(i)
        /\ Taken(w, OnItem("comment", u, i, Unset, v, Unset))

runReact(w) ==
    \E u \in Users, i \in ItemIds, v \in {"on", "off"} :
        /\ issueRef(u, i, "read") \/ mrRef(u, i, "read")
        /\ Live(i)
        /\ Taken(w, OnItem("react", u, i, Unset, Unset, v))

runLabelSet(w) ==
    \E u \in Users, r \in RepoIds, n \in TrackNames :
        /\ resolveRepo(u, r, "write") /\ refuseArchived(r)
        /\ Taken(w, OnRepo("labelset", u, r, n, Unset))

runLabelRemove(w) ==
    \E u \in Users, r \in RepoIds, n \in TrackNames :
        /\ resolveRepo(u, r, "write") /\ refuseArchived(r)
        /\ Taken(w, OnRepo("labelremove", u, r, n, Unset))

runMilestoneCreate(w) ==
    \E u \in Users, r \in RepoIds, n \in TrackNames :
        /\ resolveRepo(u, r, "write") /\ refuseArchived(r)
        /\ Taken(w, OnRepo("milestonecreate", u, r, n, Unset))

\* An organization's milestone is closed through the organization.
setMilestoneState(w) ==
    \E u \in Users, r \in RepoIds, n \in TrackNames, v \in {"on", "off"} :
        /\ resolveRepo(u, r, "write") /\ refuseArchived(r)
        /\ MilestoneByTitle(r, n) = <<"milestone", r, n>>
        /\ Taken(w, [OnRepo("milestonestate", u, r, n, v) EXCEPT
                       !.row = <<"milestone", r, n>>])

runOrgLabelSet(w) ==
    \E u \in Users, o \in OrgIds, n \in TrackNames :
        orgAdmin(u, o) /\ Taken(w, OnOrg("orglabelset", u, o, n, Unset))

runOrgLabelRemove(w) ==
    \E u \in Users, o \in OrgIds, n \in TrackNames :
        orgAdmin(u, o) /\ Taken(w, OnOrg("orglabelremove", u, o, n, Unset))

runOrgMilestoneCreate(w) ==
    \E u \in Users, o \in OrgIds, n \in TrackNames :
        orgAdmin(u, o) /\ Taken(w, OnOrg("orgmilestonecreate", u, o, n, Unset))

setOrgMilestoneState(w) ==
    \E u \in Users, o \in OrgIds, n \in TrackNames, v \in {"on", "off"} :
        /\ orgAdmin(u, o)
        /\ <<"milestone", o, n>> \in rows
        /\ Taken(w, [OnOrg("orgmilestonestate", u, o, n, v) EXCEPT
                       !.row = <<"milestone", o, n>>])

setWatch(w) ==
    \E u \in Users, r \in RepoIds, v \in {"default", "watching", "muted"} :
        /\ resolveRepo(u, r, "read")
        /\ Taken(w, OnRepo("watch", u, r, Unset, v))

\* A push to the default branch was let through, and a commit in it names
\* the issue; who closes it is resolved when the message is processed.
ProcessCommitMessages(w) ==
    \E u \in Users, r \in RepoIds, i \in ItemIds, sha \in Shas :
        /\ resolveRepo(u, r, "write") /\ refuseArchived(r)
        /\ item[i].is = "here" /\ item[i].kind = "issue"
        /\ Taken(w, [OnRepo("ref", u, r, Unset, sha) EXCEPT !.item = i])

\* A merge request was merged and its text closes an issue.
ProcessMRDescription(w) ==
    \E u \in Users, r \in RepoIds, i, m \in ItemIds :
        /\ resolveRepo(u, r, "write") /\ refuseArchived(r)
        /\ item[i].is = "here" /\ item[i].kind = "issue"
        /\ item[m].is = "here" /\ item[m].kind = "mr" /\ item[m].repo = r
        /\ Taken(w, [OnRepo("mrref", u, r, Unset, Unset) EXCEPT !.item = i])

-----------------------------------------------------------------------------
(* Telling people *)

IssueParticipants(x) == {x.author} \cup x.said \cup x.mentioned

RepoNotifyTargets(saw) ==
    IF saw.owner \in OrgIds
    THEN {u \in Users : member[saw.owner][u] = "admin"} ELSE {saw.owner}

defaultWatchers(r) == {u \in Preferring : EffectiveAccess(r)[u] \in {"write", "admin"}}

NotifyRecipients(r, actor, targets, widen) ==
    (targets \cup IF widen THEN {u \in Users : watch[r][u] = "watching"}
                                 \cup defaultWatchers(r)
                  ELSE {})
    \ ({actor} \cup {u \in Users : watch[r][u] = "muted"})

\* may: whether the recipient could open what the notice points to.
notify(r, actor, targets, widen, i, why) ==
    {[to |-> u, item |-> i, why |-> why, may |-> CanRead(u, r)] :
       u \in NotifyRecipients(r, actor, targets, widen)}

\* A plausible mistake: whoever is named is told.
ReadersOfAnyone(q, named) == named \ {q.by}

\* Those named who can read the repository as it was read.
ReadersOf(q, named) ==
    {u \in named \ {q.by} :
       q.saw.owner = u \/ q.saw.public \/ AccessRole(q.scope, u) \in Given}

-----------------------------------------------------------------------------
(* The writes *)

\* The command of w goes on to a later write, or returns.
Finishes(w) == job' = [job EXCEPT ![w] = Unset]
Onward(w, at) == job' = [job EXCEPT ![w].at = at]

Working(w, op) == job[w] # Unset /\ job[w].op = op

OldOwner(q) == q.saw.owner # repo[q.scope].owner

\* The row is in and people are told; the rest of a creation follows in
\* writes of its own.
CreateItem(w) ==
    LET q == job[w]
        row == [is |-> "here", kind |-> q.arg, repo |-> q.scope,
                author |-> q.by, open |-> TRUE, labels |-> {},
                milestone |-> Unset, asked |-> {}, said |-> {},
                mentioned |-> {}, edited |-> {}, reacted |-> {}]
    IN  /\ Working(w, "create") /\ q.at = "write"
        /\ IF item[q.item].is = "none"
           THEN /\ item' = [item EXCEPT ![q.item] = row]
                /\ inbox' = inbox \cup notify(q.scope, q.by, RepoNotifyTargets(q.saw),
                                              TRUE, q.item, "opened")
                /\ Onward(w, "label")
           ELSE UNCHANGED <<item, inbox>> /\ Finishes(w)
        /\ UNCHANGED <<rows, shut, watch, refs, acted, stale, strayed, trackOps>>

\* A plausible mistake: the name is looked up without its scope.
ResolvesAny(q, R) ==
    CHOOSE x \in R : x[1] = "label" /\ x[3] = q.name

\* Attaching takes the organization's row before the repository's.
Resolves(q, R) ==
    CHOOSE x \in R : /\ x[1] = "label" /\ x[3] = q.name
                     /\ x[2] = IF <<"label", q.saw.owner, q.name>> \in R
                               THEN q.saw.owner ELSE q.scope

orgHoldsLabel(q) == <<"label", q.saw.owner, q.name>> \in rows

setItemLabel(w) ==
    LET q == job[w]
        after == rows \cup (IF orgHoldsLabel(q) THEN {}
                            ELSE {<<"label", q.scope, q.name>>})
    IN  /\ job[w] # Unset /\ q.name # Unset
        /\ q.op = "label" \/ (q.op = "create" /\ q.at = "label")
        /\ rows' = after
        /\ item' = [item EXCEPT ![q.item].labels = @ \cup {Resolves(q, after)}]
        /\ stale' = IF OldOwner(q) THEN stale \cup {q.scope} ELSE stale
        /\ IF q.op = "create" THEN Onward(w, "milestone") ELSE Finishes(w)
        /\ UNCHANGED <<shut, watch, inbox, refs, acted, strayed, trackOps>>

\* Only rows the repository sees are taken off.
removeItemLabel(w) ==
    LET q == job[w]
        seen == {x \in rows : /\ x[1] = "label" /\ x[3] = q.name
                              /\ x[2] \in {q.scope, q.saw.owner}}
    IN  /\ Working(w, "unlabel")
        /\ item' = [item EXCEPT ![q.item].labels = @ \ seen]
        /\ Finishes(w)
        /\ UNCHANGED <<rows, shut, watch, inbox, refs, acted, stale, strayed,
                       trackOps>>

\* A creation without a label, a milestone or an assignee skips that write.
SkipStep(w) ==
    LET q == job[w]
    IN  /\ Working(w, "create")
        /\ \/ q.at = "label" /\ q.name = Unset /\ Onward(w, "milestone")
           \/ q.at = "milestone" /\ q.row = Unset /\ Onward(w, "assign")
           \/ q.at = "assign" /\ q.who = Unset /\ Finishes(w)
        /\ UNCHANGED <<rows, shut, item, watch, inbox, refs, acted, stale,
                       strayed, trackOps>>

\* A milestone deleted since it was resolved is refused by its foreign key.
recordItemMilestone(w) ==
    LET q == job[w]
        stands == q.row = Unset \/ q.row \in rows
    IN  /\ job[w] # Unset
        /\ \/ q.op = "milestone"
           \/ q.op = "create" /\ q.at = "milestone" /\ q.row # Unset
        /\ item' = IF stands THEN [item EXCEPT ![q.item].milestone = q.row] ELSE item
        /\ stale' = IF OldOwner(q) THEN stale \cup {q.scope} ELSE stale
        /\ IF q.op = "create" /\ stands THEN Onward(w, "assign") ELSE Finishes(w)
        /\ UNCHANGED <<rows, shut, watch, inbox, refs, acted, strayed, trackOps>>

\* Assignees are told when they are new; a review is asked only of readers.
setItemUser(w) ==
    LET q == job[w]
        mr == item[q.item].kind = "mr"
        ok == mr => q.who \in ReadersOf(q, {q.who}) \/ q.who = q.by
        fresh == mr \/ q.who \notin item[q.item].asked
    IN  /\ job[w] # Unset
        /\ \/ q.op = "assign"
           \/ q.op = "create" /\ q.at = "assign" /\ q.who # Unset
        /\ IF ok
           THEN /\ item' = [item EXCEPT ![q.item].asked = @ \cup {q.who}]
                /\ inbox' = IF fresh
                            THEN inbox \cup notify(q.scope, q.by, {q.who}, mr, q.item,
                                                   "asked")
                            ELSE inbox
           ELSE UNCHANGED <<item, inbox>>
        /\ Finishes(w)
        /\ UNCHANGED <<rows, shut, watch, refs, acted, stale, strayed, trackOps>>

removeItemUser(w) ==
    LET q == job[w]
    IN  /\ Working(w, "unassign")
        /\ item' = [item EXCEPT ![q.item].asked = @ \ {q.who}]
        /\ Finishes(w)
        /\ UNCHANGED <<rows, shut, watch, inbox, refs, acted, stale, strayed,
                       trackOps>>

SetIssueState(w) ==
    LET q == job[w]
    IN  /\ Working(w, "state")
        /\ item' = [item EXCEPT ![q.item].open = (q.arg = "on")]
        /\ inbox' = inbox \cup notify(q.scope, q.by, IssueParticipants(item[q.item]),
                                      TRUE, q.item, "thread")
        /\ Finishes(w)
        /\ UNCHANGED <<rows, shut, watch, refs, acted, stale, strayed, trackOps>>

\* Editing an issue tells its participants, editing a merge request nobody.
updateText(w) ==
    LET q == job[w]
    IN  /\ Working(w, "edit")
        /\ item' = [item EXCEPT ![q.item].edited = @ \cup {q.by}]
        /\ inbox' = IF item[q.item].kind = "mr" THEN inbox
                    ELSE inbox \cup notify(q.scope, q.by,
                           IssueParticipants(item[q.item]), TRUE, q.item, "thread")
        /\ Finishes(w)
        /\ UNCHANGED <<rows, shut, watch, refs, acted, stale, strayed, trackOps>>

\* The participants hear of it, then those it mentions.
AddComment(w) ==
    LET q == job[w]
        said == [item[q.item] EXCEPT !.said = @ \cup {q.by}]
        named == ReadersOf(q, {q.who} \ {Unset})
    IN  /\ Working(w, "comment")
        /\ item' = [item EXCEPT ![q.item] = [said EXCEPT !.mentioned = @ \cup named]]
        /\ inbox' = inbox \cup notify(q.scope, q.by, IssueParticipants(said), TRUE,
                                      q.item, "thread")
                          \cup notify(q.scope, q.by, named, FALSE, q.item, "mention")
        /\ Finishes(w)
        /\ UNCHANGED <<rows, shut, watch, refs, acted, stale, strayed, trackOps>>

SetReaction(w) ==
    LET q == job[w]
    IN  /\ Working(w, "react")
        /\ item' = [item EXCEPT ![q.item].reacted =
                      IF q.arg = "on" THEN @ \cup {q.by} ELSE @ \ {q.by}]
        /\ Finishes(w)
        /\ UNCHANGED <<rows, shut, watch, inbox, refs, acted, stale, strayed,
                       trackOps>>

SetLabel(w) ==
    LET q == job[w]
        held == orgHoldsLabel(q)
    IN  /\ Working(w, "labelset")
        /\ rows' = IF held THEN rows ELSE rows \cup {<<"label", q.scope, q.name>>}
        /\ stale' = IF ~ held /\ OldOwner(q) THEN stale \cup {q.scope} ELSE stale
        /\ Finishes(w)
        /\ UNCHANGED <<shut, item, watch, inbox, refs, acted, strayed, trackOps>>

CreateMilestone(w) ==
    LET q == job[w]
        held == <<"milestone", q.saw.owner, q.name>> \in rows
    IN  /\ Working(w, "milestonecreate")
        /\ rows' = IF held THEN rows ELSE rows \cup {<<"milestone", q.scope, q.name>>}
        /\ stale' = IF ~ held /\ OldOwner(q) THEN stale \cup {q.scope} ELSE stale
        /\ Finishes(w)
        /\ UNCHANGED <<shut, item, watch, inbox, refs, acted, strayed, trackOps>>

\* Deleting a row takes it off everything that carries it.
Without(x) ==
    [i \in ItemIds |-> [item[i] EXCEPT !.labels = @ \ {x}]]

DeleteLabel(w) ==
    LET q == job[w]
        x == <<"label", q.scope, q.name>>
    IN  /\ Working(w, "labelremove") \/ Working(w, "orglabelremove")
        /\ rows' = rows \ {x}
        /\ item' = Without(x)
        /\ Finishes(w)
        /\ UNCHANGED <<shut, watch, inbox, refs, acted, stale, strayed, trackOps>>

\* By id: a milestone folded since it was resolved is not found.
SetMilestoneState(w) ==
    LET q == job[w]
    IN  /\ Working(w, "milestonestate") \/ Working(w, "orgmilestonestate")
        /\ shut' = IF q.arg = "off" THEN shut \cup ({q.row} \cap rows)
                   ELSE shut \ {q.row}
        /\ Finishes(w)
        /\ UNCHANGED <<rows, item, watch, inbox, refs, acted, stale, strayed,
                       trackOps>>

\* Repository rows F go, and what carries them gets o's row of that name.
Onto(F, o, x) == IF x \in F THEN <<x[1], o, x[3]>> ELSE x

FoldedItem(y, F, o) ==
    [y EXCEPT !.labels = {Onto(F, o, x) : x \in @},
              !.milestone = IF @ = Unset THEN @ ELSE Onto(F, o, @)]

Folded(F, o) == [i \in ItemIds |-> FoldedItem(item[i], F, o)]

UnderOrg(o, table, n) ==
    {x \in rows : /\ x[1] = table /\ x[3] = n /\ x[2] \in RepoIds
                  /\ repo[x[2]].owner = o}

SetOrgLabel(w) ==
    LET q == job[w]
        F == UnderOrg(q.scope, "label", q.name)
    IN  /\ Working(w, "orglabelset")
        /\ IF OrgHere(q.scope)
           THEN /\ rows' = (rows \cup {<<"label", q.scope, q.name>>}) \ F
                /\ item' = Folded(F, q.scope)
           ELSE UNCHANGED <<rows, item>>
        /\ Finishes(w)
        /\ UNCHANGED <<shut, watch, inbox, refs, acted, stale, strayed, trackOps>>

CreateOrgMilestone(w) ==
    LET q == job[w]
        F == UnderOrg(q.scope, "milestone", q.name)
        x == <<"milestone", q.scope, q.name>>
    IN  /\ Working(w, "orgmilestonecreate")
        /\ IF OrgHere(q.scope) /\ x \notin rows
           THEN /\ rows' = (rows \cup {x}) \ F
                /\ shut' = shut \ F
                /\ item' = Folded(F, q.scope)
           ELSE UNCHANGED <<rows, shut, item>>
        /\ Finishes(w)
        /\ UNCHANGED <<watch, inbox, refs, acted, stale, strayed, trackOps>>

SetRepoWatch(w) ==
    LET q == job[w]
    IN  /\ Working(w, "watch")
        /\ watch' = [watch EXCEPT ![q.scope][q.by] = q.arg]
        /\ Finishes(w)
        /\ UNCHANGED <<rows, shut, item, inbox, refs, acted, stale, strayed,
                       trackOps>>

\* A bare #n acts in the source repository, whatever became of it since; a
\* named repository needs write access there and may not be archived.
closeTarget(q) ==
    \/ item[q.item].repo = q.scope
    \/ /\ resolveRepo(q.by, item[q.item].repo, "write")
       /\ refuseArchived(item[q.item].repo)

\* A plausible mistake: every run of the message acts.
FreshRefAlways(i, key) == TRUE

FreshRef(i, key) == <<i, key>> \notin refs

RefKey(q) == IF q.op = "mrref" THEN "mr" ELSE q.arg

TryRecordCommitRef(w) ==
    LET q == job[w]
        key == RefKey(q)
    IN  /\ Working(w, "ref") \/ Working(w, "mrref")
        /\ q.at = "write"
        /\ IF /\ closeTarget(q) /\ FreshRef(q.item, key)
              /\ q.op = "mrref" => item[q.item].open
           THEN refs' = refs \cup {<<q.item, key>>} /\ Onward(w, "act")
           ELSE UNCHANGED refs /\ Finishes(w)
        /\ UNCHANGED <<rows, shut, item, watch, inbox, acted, stale, strayed,
                       trackOps>>

\* A closing keyword closes the issue, a bare #n only leaves a comment.
actOnIssue(w) ==
    LET q == job[w]
        bare == q.op = "ref" /\ item[q.item].repo = q.scope
    IN  /\ Working(w, "ref") \/ Working(w, "mrref")
        /\ q.at = "act"
        /\ \/ item' = [item EXCEPT ![q.item].open = FALSE]
           \/ bare /\ UNCHANGED item
        /\ acted' = [acted EXCEPT ![<<q.item, RefKey(q)>>] = @ + 1]
        /\ Finishes(w)
        /\ UNCHANGED <<rows, shut, watch, inbox, refs, stale, strayed, trackOps>>

\* The daemon stops in the middle of the command.
Interrupted(w) ==
    /\ job[w] # Unset
    /\ job[w].at # "write"
    /\ Finishes(w)
    /\ UNCHANGED <<rows, shut, item, watch, inbox, refs, acted, stale, strayed,
                   trackOps>>
    /\ UNCHANGED accessVars

-----------------------------------------------------------------------------
(* The access commands that matter here *)

\* A plausible mistake: moving into an organization folds nothing.
SharedNone(r, o) == {}

\* The repository's rows whose names the organization holds.
Shared(r, o) ==
    {x \in rows : x[2] = r /\ <<x[1], o, x[3]>> \in rows}

\* TransferRepo folds in the same transaction when the target is an
\* organization, and does nothing to the rows otherwise.
TransferFolds(w) ==
    LET q == asked[w]
        F == IF q.who \in OrgIds THEN Shared(q.repo, q.who) ELSE {}
    IN  /\ TransferRepo(w)
        /\ rows' = rows \ F
        /\ shut' = shut \ F
        /\ item' = Folded(F, q.who)
        /\ strayed' = IF repo[q.repo].owner \in OrgIds
                      THEN strayed \cup {q.repo} ELSE strayed
        /\ UNCHANGED <<watch, inbox, refs, acted, job, stale, trackOps>>

AccessMeanwhile(w) ==
    /\ \/ /\ MayAsk(w)
          /\ \E u \in Users : \/ runRepoTransfer(w, u) \/ setArchived(w, u)
                             \/ runSetVisibility(w, u) \/ runAccessRevoke(w, u)
       \/ SetRepoVisibility(w) \/ archiveRepo(w) \/ RevokeAccess(w)
    /\ UNCHANGED trackVars

-----------------------------------------------------------------------------
(* The specification *)

NewItem(i) ==
    [is |-> "none", kind |-> "issue", repo |-> CHOOSE r \in RepoIds : TRUE,
     author |-> CHOOSE u \in Users : TRUE, open |-> FALSE, labels |-> {},
     milestone |-> Unset, asked |-> {}, said |-> {}, mentioned |-> {},
     edited |-> {}, reacted |-> {}]

\* The first of the users administers the organizations; author may read.
FirstUser == CHOOSE u \in Users : TRUE

AccessStart(owner, author) ==
    /\ repo = [r \in RepoIds |-> [NoRow EXCEPT !.is = "here", !.owner = owner,
                                    !.public = (owner \notin OrgIds)]]
    /\ grant = [r \in RepoIds |-> [u \in Users |->
         IF u = author /\ u # FirstUser THEN "read" ELSE "none"]]
    /\ org = [o \in OrgIds |-> [is |-> "here", role |-> "write"]]
    /\ member = [o \in OrgIds |-> [u \in Users |->
         IF u = FirstUser THEN "admin" ELSE "none"]]
    /\ team = [t \in TeamIds |-> NoTeam]
    /\ asked = [w \in Workers |-> Unset]
    /\ slipped = {}
    /\ accessOps = MaxAccessOps - 1

\* A label and a milestone of one name, in each of these scopes.
RowsOf(scopes) == {<<t, o, CHOOSE n \in TrackNames : TRUE>> :
                     t \in {"label", "milestone"}, o \in scopes}

\* An item in r that carries the labels r sees.
Carrying(i, kind, r, author) ==
    [NewItem(i) EXCEPT !.is = "here", !.kind = kind, !.repo = r, !.author = author,
       !.open = TRUE,
       !.labels = {x \in rows : x[1] = "label" /\ x[2] \in {r, repo[r].owner}}]

\* An organization with an admin, a repository of either, rows of a name,
\* and perhaps an issue or merge request.
TrackerStart(r, owner, author, held, own, kind) ==
    /\ owner \in {FirstUser} \cup OrgIds
    /\ ~ (held /\ own /\ owner \in OrgIds)
    /\ held \/ own
    /\ kind = "none" => author = FirstUser /\ ~ own
    /\ kind = "mr" => author # FirstUser /\ owner \in OrgIds
    /\ author # FirstUser => ~ own
    /\ kind = "issue" /\ owner = FirstUser => own
    /\ AccessStart(owner, author)
    /\ rows = RowsOf((IF held THEN OrgIds ELSE {}) \cup (IF own THEN {r} ELSE {}))
    /\ shut = {}
    /\ item = [i \in ItemIds |->
         IF kind # "none" /\ i = (CHOOSE j \in ItemIds : TRUE)
         THEN Carrying(i, kind, r, author) ELSE NewItem(i)]
    /\ watch = [x \in RepoIds |-> [u \in Users |->
         IF u = FirstUser THEN "watching" ELSE "default"]]
    /\ inbox = {} /\ refs = {}
    /\ acted = [x \in ItemIds \X (Shas \cup {"mr"}) |-> 0]
    /\ job = [w \in TrackWorkers |-> Unset]
    /\ stale = {} /\ strayed = {} /\ trackOps = 0

TrackerInit ==
    \E r \in RepoIds, owner \in Users \cup OrgIds, author \in Users,
       held, own \in BOOLEAN, kind \in {"issue", "mr", "none"} :
      TrackerStart(r, owner, author, held, own, kind)

AskIssue(w) ==
    \/ runIssueCreate(w) \/ setIssueState(w) \/ runIssueEdit(w) \/ runIssueLabel(w)
    \/ runIssueAssign(w) \/ setItemMilestone(w) \/ runComment(w) \/ runReact(w)
    \/ ProcessCommitMessages(w) \/ ProcessMRDescription(w)

AskMR(w) ==
    runMRCreate(w) \/ runMREdit(w) \/ runMRLabel(w) \/ runMRReviewRequest(w)

AskRows(w) ==
    \/ runLabelSet(w) \/ runLabelRemove(w) \/ runMilestoneCreate(w)
    \/ setMilestoneState(w) \/ runOrgLabelSet(w) \/ runOrgLabelRemove(w)
    \/ runOrgMilestoneCreate(w) \/ setOrgMilestoneState(w) \/ setWatch(w)

Writes(w) ==
    /\ \/ CreateItem(w) \/ setItemLabel(w) \/ removeItemLabel(w) \/ SkipStep(w)
       \/ recordItemMilestone(w) \/ setItemUser(w) \/ removeItemUser(w)
       \/ SetIssueState(w) \/ updateText(w) \/ AddComment(w) \/ SetReaction(w)
       \/ SetLabel(w) \/ CreateMilestone(w) \/ DeleteLabel(w)
       \/ SetMilestoneState(w) \/ SetOrgLabel(w) \/ CreateOrgMilestone(w)
       \/ SetRepoWatch(w) \/ TryRecordCommitRef(w) \/ actOnIssue(w)
    /\ UNCHANGED accessVars

\* The initial states leave room for one command on the access rows, so one
\* worker is enough for it.
OtherWorker == CHOOSE w \in Workers : TRUE

TrackerNext ==
    \/ \E w \in TrackWorkers :
         \/ Waiting(w) /\ (AskIssue(w) \/ AskMR(w) \/ AskRows(w))
         \/ job[w] # Unset /\ (Writes(w) \/ Interrupted(w))
    \/ AccessMeanwhile(OtherWorker) \/ TransferFolds(OtherWorker)

TrackerSpec == TrackerInit /\ [][TrackerNext]_<<accessVars, trackVars>>

-----------------------------------------------------------------------------
(* Properties *)

\* "so the repository does not come out seeing two of each": no name is held
\* by a repository and by its organization at once. SetLabel and
\* CreateMilestone refuse it, SetOrgLabel, CreateOrgMilestone and
\* TransferRepo fold. A write that used the owner of before a transfer is
\* the exception.
NoTwoOfEach ==
    \A r \in RepoIds, t \in {"label", "milestone"}, n \in TrackNames :
      {<<t, r, n>>, <<t, repo[r].owner, n>>} \subseteq rows => r \in stale

\* What an item carries, its repository sees: its own rows and those of its
\* organization. A repository that left an organization, or was written
\* under its former owner, is the exception.
RowsInScope ==
    \A i \in ItemIds :
      \/ item[i].repo \in stale \cup strayed
      \/ \A x \in item[i].labels \cup ({item[i].milestone} \ {Unset}) :
           x[2] \in {item[i].repo, repo[item[i].repo].owner}

\* A mention reaches only accounts that can open the thread, unless the
\* access to it changed while the command ran.
MentionsReachReaders ==
    \A n \in inbox : n.why = "mention" => n.may \/ accessOps = MaxAccessOps

\* Each commit acts on an issue at most once, however many pushes carry it.
RefActsOnce == \A x \in DOMAIN acted : acted[x] <= 1

\* Labels, milestones, notices and commit references stay in order while
\* repositories move (store/labels.go, milestones.go, control/commitrefs.go).
ItemsInOrder ==
    NoTwoOfEach /\ RowsInScope /\ MentionsReachReaders /\ RefActsOnce

\* An archived repository's threads stay as they are, except for commands
\* checked before it was archived, and for rows, which organizations and
\* transfers move and delete.
ArchivedStays ==
    [][\A i \in ItemIds :
         LET bare(x) == [x EXCEPT !.labels = {}, !.milestone = Unset]
         IN  /\ repo[item[i].repo].archived
             /\ bare(item[i]) # bare(item'[i])
             => \E w \in TrackWorkers :
                  /\ job[w] # Unset /\ job'[w] # job[w]
                  /\ ~ job[w].saw.archived]_<<accessVars, trackVars>>
=============================================================================
