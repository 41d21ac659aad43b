------------------------------- MODULE Access -------------------------------
(***************************************************************************)
(* Who may do what on a repository: owners, direct grants, organizations,  *)
(* teams, visibility, the git:// switch and archiving (policy/access.go;   *)
(* store/repos.go, orgs.go, teams.go and dashboard.go; control/repo.go,    *)
(* org.go, teams.go, scope.go and admin.go).                               *)
(*                                                                         *)
(* A command is checked when it is asked for and writes in a later step,   *)
(* because nothing holds the rows it checked. Every write is one SQLite    *)
(* transaction; setRepoVisibility and DeleteOrg are two statements each.   *)
(***************************************************************************)
EXTENDS Integers, FiniteSets

CONSTANTS
    Users, OrgIds, TeamIds, RepoIds,
    TeamOrg,       \* team -> the organization it is created in
    SiteAdmins,    \* users.is_admin
    Workers,       \* numbers of the commands that may be under way at once
    Unset,
    MaxAccessOps   \* bound on commands

ASSUME AccessAssumption ==
    /\ TeamOrg \in [TeamIds -> OrgIds]
    /\ SiteAdmins \subseteq Users
    /\ Users # {} /\ Users \cap OrgIds = {}
    /\ Unset \notin Users \cup OrgIds \cup RepoIds
    /\ Workers \subseteq Nat
    /\ MaxAccessOps \in Nat

VARIABLES
    repo,        \* rows of repos
    grant,       \* repo_access: repository -> user -> role
    org,         \* orgs, with members_role
    member,      \* org_members: organization -> user -> role
    team,        \* teams, with team_members and team_repos
    asked,       \* commands checked and not yet done
    slipped,     \* history: rows written on a check that no longer held
    accessOps

accessVars == <<repo, grant, org, member, team, asked, slipped, accessOps>>

-----------------------------------------------------------------------------
(* The shape of the state *)

Roles == {"none", "read", "write", "admin"}
Given == Roles \ {"none"}
Rank == [none |-> 0, read |-> 1, write |-> 2, admin |-> 3]

RepoRow == [is: {"none", "here"}, owner: Users \cup OrgIds \cup {Unset},
            public: BOOLEAN, daemon: BOOLEAN, archived: BOOLEAN]
NoRow == [is |-> "none", owner |-> Unset, public |-> FALSE, daemon |-> FALSE,
          archived |-> FALSE]

TeamRow == [is: {"none", "here", "gone"}, users: SUBSET Users, roles: [RepoIds -> Roles]]
NoTeam == [is |-> "none", users |-> {}, roles |-> [r \in RepoIds |-> "none"]]
GoneTeam == [NoTeam EXCEPT !.is = "gone"]

OrgHere(o) == org[o].is = "here"
TeamHere(t) == team[t].is = "here"

Ops == {"grant", "revoke", "orgadd", "orgremove", "membersrole", "teamcreate",
        "teamdelete", "teamadd", "teamremove", "teamgrant", "teamrevoke",
        "visibility", "gitdaemon", "archive", "transfer", "create",
        "orgcreate", "orgdelete"}

\* by: the caller, where the write uses it; saw: the git:// switch as the
\* handler read it; clear: what its caller administered when it was
\* checked (history).
Request == [op: Ops, by: Users \cup {Unset}, repo: RepoIds \cup {Unset},
            org: OrgIds \cup {Unset}, team: TeamIds \cup {Unset},
            who: Users \cup OrgIds \cup {Unset},
            role: Roles \cup {"member", "on", "off", Unset},
            at: {"write", "second"}, saw: BOOLEAN,
            clear: SUBSET (RepoIds \cup OrgIds)]

\* A worker with no command is none of them.
ASSUME RequestAssumption == Unset \notin Request

Slips == {"teamadd", "daemon", "owner"}

AccessTypeOK ==
    /\ repo \in [RepoIds -> RepoRow]
    /\ grant \in [RepoIds -> [Users -> Roles]]
    /\ org \in [OrgIds -> [is: {"none", "here", "gone"}, role: {"write", "read", "none"}]]
    /\ member \in [OrgIds -> [Users -> {"none", "member", "admin"}]]
    /\ team \in [TeamIds -> TeamRow]
    /\ \A w \in Workers : asked[w] = Unset \/ asked[w] \in Request
    /\ slipped \subseteq Slips \X (TeamIds \cup RepoIds)
    /\ accessOps \in 0..MaxAccessOps
    /\ \A t \in TeamIds : TeamHere(t) => OrgHere(TeamOrg[t])

-----------------------------------------------------------------------------
(* The policy: policy/access.go and store.AccessRole *)

Strongest(S) == IF "admin" \in S THEN "admin"
                ELSE IF "write" \in S THEN "write"
                ELSE IF "read" \in S THEN "read" ELSE "none"

isOwner(u, r) == repo[r].owner = u

OrgRole(o, u) == IF o \in OrgIds /\ OrgHere(o) THEN member[o][u] ELSE "none"

FromOrg(r, u) ==
    CASE OrgRole(repo[r].owner, u) = "admin"  -> "admin"
      [] OrgRole(repo[r].owner, u) = "member" -> org[repo[r].owner].role
      [] OTHER                                -> "none"

FromTeams(r, u) ==
    Strongest({team[t].roles[r] : t \in {t \in TeamIds : u \in team[t].users}})

AccessRole(r, u) == Strongest({grant[r][u], FromOrg(r, u), FromTeams(r, u)})

CanRead(u, r) ==
    isOwner(u, r) \/ repo[r].public \/ AccessRole(r, u) \in Given
CanWrite(u, r) == isOwner(u, r) \/ AccessRole(r, u) \in {"write", "admin"}
CanAdmin(u, r) == isOwner(u, r) \/ AccessRole(r, u) = "admin"

Permits(u, r, need) ==
    CASE need = "read"  -> CanRead(u, r)
      [] need = "write" -> CanWrite(u, r)
      [] need = "admin" -> CanAdmin(u, r)

\* resolveRepo: the path is looked up through the owner's name, so a
\* repository whose organization is gone is not found.
Found(r) == /\ repo[r].is = "here"
            /\ repo[r].owner \in OrgIds => OrgHere(repo[r].owner)

resolveRepo(u, r, need) == Found(r) /\ Permits(u, r, need)

\* The list `repo access list` prints folds the five sources by itself.
EffectiveAccess(r) ==
    [u \in Users |->
       Strongest(
         (IF isOwner(u, r) THEN {"admin"} ELSE {})
         \cup (IF OrgRole(repo[r].owner, u) = "admin" THEN {"admin"} ELSE {})
         \cup {grant[r][u]}
         \cup {team[t].roles[r] : t \in {t \in TeamIds : u \in team[t].users}}
         \cup (IF OrgRole(repo[r].owner, u) = "member"
               THEN {org[repo[r].owner].role} ELSE {}))]

\* A plausible mistake: plain members reach every repository of their
\* organization, whatever members_role says.
reachableAnyMember(r, u) ==
    \/ isOwner(u, r)
    \/ grant[r][u] # "none"
    \/ OrgRole(repo[r].owner, u) \in {"member", "admin"}
    \/ \E t \in TeamIds : u \in team[t].users /\ team[t].roles[r] # "none"

\* The condition of the dashboard's, the feed's and the search's queries.
reachableCond(r, u) ==
    \/ isOwner(u, r)
    \/ grant[r][u] # "none"
    \/ /\ OrgRole(repo[r].owner, u) # "none"
       /\ \/ OrgRole(repo[r].owner, u) = "admin"
          \/ org[repo[r].owner].role # "none"
    \/ \E t \in TeamIds : u \in team[t].users /\ team[t].roles[r] # "none"

visibleCond(r, u) == repo[r].public \/ reachableCond(r, u)

\* The org repositories over which label and milestone counts are taken.
ReadableOrgRepoIDs(u, o) ==
    {r \in RepoIds : repo[r].is = "here" /\ repo[r].owner = o /\ CanRead(u, r)}
ReadableScope(u, r) == IF repo[r].owner \in OrgIds
                       THEN ReadableOrgRepoIDs(u, repo[r].owner) ELSE {r}

-----------------------------------------------------------------------------
(* Asking: the checks of every handler, for its caller u *)

Administers(u) ==
    {r \in RepoIds : repo[r].is = "here" /\ CanAdmin(u, r)}
    \cup {o \in OrgIds : OrgRole(o, u) = "admin"}

Ask(op, u, r, o, t, who, role) ==
    [op |-> op, by |-> IF op = "orgcreate" THEN u ELSE Unset, repo |-> r,
     org |-> o, team |-> t, who |-> who, role |-> role, at |-> "write",
     saw |-> op = "visibility" /\ repo[r].daemon, clear |-> Administers(u)]

orgAdmin(u, o) == OrgRole(o, u) = "admin"
orgAdminRef(u, t) == orgAdmin(u, TeamOrg[t]) /\ TeamHere(t)

MayAsk(w) ==
    /\ accessOps < MaxAccessOps
    /\ asked[w] = Unset
    /\ \A v \in Workers : v < w => asked[v] # Unset

Checked(w, q) ==
    /\ accessOps' = accessOps + 1
    /\ asked' = [asked EXCEPT ![w] = q]
    /\ UNCHANGED <<repo, grant, org, member, team, slipped>>

runAccessGrant(w, u) ==
    \E v \in Users, r \in RepoIds, role \in Given :
        /\ resolveRepo(u, r, "admin")
        /\ Checked(w, Ask("grant", u, r, Unset, Unset, v, role))

runAccessRevoke(w, u) ==
    \E v \in Users, r \in RepoIds :
        /\ resolveRepo(u, r, "admin")
        /\ Checked(w, Ask("revoke", u, r, Unset, Unset, v, Unset))

runOrgMembersAdd(w, u) ==
    \E v \in Users, o \in OrgIds, role \in {"member", "admin"} :
        /\ orgAdmin(u, o)
        /\ Checked(w, Ask("orgadd", u, Unset, o, Unset, v, role))

runOrgMembersRemove(w, u) ==
    \E v \in Users, o \in OrgIds :
        /\ orgAdmin(u, o)
        /\ Checked(w, Ask("orgremove", u, Unset, o, Unset, v, Unset))

runOrgMembersRole(w, u) ==
    \E o \in OrgIds, role \in {"write", "read", "none"} :
        /\ orgAdmin(u, o)
        /\ Checked(w, Ask("membersrole", u, Unset, o, Unset, Unset, role))

runTeamCreate(w, u) ==
    \E t \in TeamIds :
        /\ orgAdmin(u, TeamOrg[t])
        /\ Checked(w, Ask("teamcreate", u, Unset, Unset, t, Unset, Unset))

runTeamDelete(w, u) ==
    \E t \in TeamIds :
        /\ orgAdminRef(u, t)
        /\ Checked(w, Ask("teamdelete", u, Unset, Unset, t, Unset, Unset))

\* Teams organize members: add refuses anyone else.
editTeamMembers(w, u) ==
    \E v \in Users, t \in TeamIds :
        /\ orgAdminRef(u, t)
        /\ \/ /\ OrgRole(TeamOrg[t], v) # "none"
              /\ Checked(w, Ask("teamadd", u, Unset, Unset, t, v, Unset))
           \/ Checked(w, Ask("teamremove", u, Unset, Unset, t, v, Unset))

\* A plausible mistake: a team is granted any repository.
runTeamGrantAny(w, u) ==
    \E r \in RepoIds, t \in TeamIds, role \in Given :
        /\ orgAdminRef(u, t) /\ Found(r)
        /\ Checked(w, Ask("teamgrant", u, r, Unset, t, Unset, role))

runTeamGrant(w, u) ==
    \E r \in RepoIds, t \in TeamIds, role \in Given :
        /\ orgAdminRef(u, t) /\ Found(r)
        /\ repo[r].owner = TeamOrg[t]
        /\ Checked(w, Ask("teamgrant", u, r, Unset, t, Unset, role))

runTeamRevoke(w, u) ==
    \E r \in RepoIds, t \in TeamIds :
        /\ orgAdminRef(u, t) /\ Found(r)
        /\ Checked(w, Ask("teamrevoke", u, r, Unset, t, Unset, Unset))

\* runSetVisibility, and runAdminRepoVisibility for a site admin. One that
\* changes nothing returns at once.
runSetVisibility(w, u) ==
    \E r \in RepoIds, v \in {"on", "off"} :
        /\ Found(r)
        /\ CanAdmin(u, r) \/ u \in SiteAdmins
        /\ repo[r].public # (v = "on")
        /\ Checked(w, Ask("visibility", u, r, Unset, Unset, Unset, v))

runGitDaemon(w, u) ==
    \E r \in RepoIds, v \in {"on", "off"} :
        /\ resolveRepo(u, r, "admin")
        /\ v = "on" => repo[r].public
        /\ Checked(w, Ask("gitdaemon", u, r, Unset, Unset, Unset, v))

\* setArchived, and adminArchive for a site admin.
setArchived(w, u) ==
    \E r \in RepoIds, v \in {"on", "off"} :
        /\ Found(r)
        /\ CanAdmin(u, r) \/ u \in SiteAdmins
        /\ repo[r].archived # (v = "on")
        /\ Checked(w, Ask("archive", u, r, Unset, Unset, Unset, v))

\* To the caller, or to an organization the caller administers.
runRepoTransfer(w, u) ==
    \E r \in RepoIds, to \in Users \cup OrgIds :
        /\ resolveRepo(u, r, "admin")
        /\ to # repo[r].owner
        /\ to = u \/ orgAdmin(u, to)
        /\ Checked(w, Ask("transfer", u, r, Unset, Unset, to, Unset))

resolveNewRepoOwner(w, u) ==
    \E r \in RepoIds, to \in Users \cup OrgIds, v \in {"on", "off"} :
        /\ repo[r].is = "none"
        /\ to = u \/ orgAdmin(u, to)
        /\ Checked(w, Ask("create", u, r, Unset, Unset, to, v))

runOrgCreate(w, u) ==
    \E o \in OrgIds :
        /\ org[o].is = "none"
        /\ Checked(w, Ask("orgcreate", u, Unset, o, Unset, Unset, Unset))

runOrgDelete(w, u) ==
    \E o \in OrgIds :
        /\ orgAdmin(u, o)
        /\ Checked(w, Ask("orgdelete", u, Unset, o, Unset, Unset, Unset))

-----------------------------------------------------------------------------
(* Writing *)

\* The handler of w returns.
Returns(w) == asked' = [asked EXCEPT ![w] = Unset]

GrantAccess(w) ==
    LET q == asked[w]
    IN  /\ q # Unset /\ q.op = "grant"
        /\ grant' = [grant EXCEPT ![q.repo][q.who] = q.role]
        /\ Returns(w)
        /\ UNCHANGED <<repo, org, member, team, slipped, accessOps>>

RevokeAccess(w) ==
    LET q == asked[w]
    IN  /\ q # Unset /\ q.op = "revoke"
        /\ grant' = [grant EXCEPT ![q.repo][q.who] = "none"]
        /\ Returns(w)
        /\ UNCHANGED <<repo, org, member, team, slipped, accessOps>>

\* A plausible mistake: an admin who is not the one leaving is not asked for.
wouldKeepAdminAny(o, u) == \E v \in Users : member[o][v] = "admin"

wouldKeepAdmin(o, u) == \E v \in Users \ {u} : member[o][v] = "admin"

SetOrgMember(w) ==
    LET q == asked[w]
    IN  /\ q # Unset /\ q.op = "orgadd"
        /\ IF OrgHere(q.org)
              /\ (q.role = "member" => wouldKeepAdmin(q.org, q.who))
           THEN member' = [member EXCEPT ![q.org][q.who] = q.role]
           ELSE UNCHANGED member
        /\ Returns(w)
        /\ UNCHANGED <<repo, grant, org, team, slipped, accessOps>>

\* A plausible mistake: the account's teams are left as they are.
WithoutMemberNot(o, u) == team

WithoutMember(o, u) ==
    [t \in TeamIds |-> IF TeamOrg[t] = o
                       THEN [team[t] EXCEPT !.users = @ \ {u}] ELSE team[t]]

RemoveOrgMember(w) ==
    LET q == asked[w]
    IN  /\ q # Unset /\ q.op = "orgremove"
        /\ IF member[q.org][q.who] # "none" /\ wouldKeepAdmin(q.org, q.who)
           THEN /\ member' = [member EXCEPT ![q.org][q.who] = "none"]
                /\ team' = WithoutMember(q.org, q.who)
           ELSE UNCHANGED <<member, team>>
        /\ Returns(w)
        /\ UNCHANGED <<repo, grant, org, slipped, accessOps>>

SetOrgMembersRole(w) ==
    LET q == asked[w]
    IN  /\ q # Unset /\ q.op = "membersrole"
        /\ org' = IF OrgHere(q.org) THEN [org EXCEPT ![q.org].role = q.role]
                                     ELSE org
        /\ Returns(w)
        /\ UNCHANGED <<repo, grant, member, team, slipped, accessOps>>

CreateTeam(w) ==
    LET q == asked[w]
    IN  /\ q # Unset /\ q.op = "teamcreate"
        /\ team' = IF OrgHere(TeamOrg[q.team]) /\ team[q.team].is = "none"
                   THEN [team EXCEPT ![q.team].is = "here"] ELSE team
        /\ Returns(w)
        /\ UNCHANGED <<repo, grant, org, member, slipped, accessOps>>

DeleteTeam(w) ==
    LET q == asked[w]
    IN  /\ q # Unset /\ q.op = "teamdelete"
        /\ team' = [team EXCEPT ![q.team] = GoneTeam]
        /\ Returns(w)
        /\ UNCHANGED <<repo, grant, org, member, slipped, accessOps>>

\* The foreign keys refuse a row for a team that is gone; membership of the
\* organization is no foreign key.
AddTeamMember(w) ==
    LET q == asked[w]
    IN  /\ q # Unset /\ q.op = "teamadd"
        /\ IF TeamHere(q.team)
           THEN /\ team' = [team EXCEPT ![q.team].users = @ \cup {q.who}]
                /\ slipped' = IF OrgRole(TeamOrg[q.team], q.who) # "none"
                              THEN slipped
                              ELSE slipped \cup {<<"teamadd", q.team>>}
           ELSE UNCHANGED <<team, slipped>>
        /\ Returns(w)
        /\ UNCHANGED <<repo, grant, org, member, accessOps>>

RemoveTeamMember(w) ==
    LET q == asked[w]
    IN  /\ q # Unset /\ q.op = "teamremove"
        /\ team' = [team EXCEPT ![q.team].users = @ \ {q.who}]
        /\ Returns(w)
        /\ UNCHANGED <<repo, grant, org, member, slipped, accessOps>>

GrantTeamRepo(w) ==
    LET q == asked[w]
    IN  /\ q # Unset /\ q.op = "teamgrant"
        /\ team' = IF TeamHere(q.team)
                   THEN [team EXCEPT ![q.team].roles[q.repo] = q.role] ELSE team
        /\ Returns(w)
        /\ UNCHANGED <<repo, grant, org, member, slipped, accessOps>>

RevokeTeamRepo(w) ==
    LET q == asked[w]
    IN  /\ q # Unset /\ q.op = "teamrevoke"
        /\ team' = [team EXCEPT ![q.team].roles[q.repo] = "none"]
        /\ Returns(w)
        /\ UNCHANGED <<repo, grant, org, member, slipped, accessOps>>

\* A plausible mistake: going private leaves the git:// switch on.
ClearsDaemonNot(q) == FALSE

\* Going private clears the switch, if the repository as read had it.
ClearsDaemon(q) == q.role = "off" /\ q.saw

SetRepoVisibility(w) ==
    LET q == asked[w]
    IN  /\ q # Unset /\ q.op = "visibility" /\ q.at = "write"
        /\ repo' = [repo EXCEPT ![q.repo].public = (q.role = "on")]
        /\ slipped' = IF q.role = "off" /\ repo[q.repo].daemon /\ ~ q.saw
                      THEN slipped \cup {<<"daemon", q.repo>>} ELSE slipped
        /\ IF ClearsDaemon(q)
           THEN asked' = [asked EXCEPT ![w].at = "second"]
           ELSE Returns(w)
        /\ UNCHANGED <<grant, org, member, team, accessOps>>

setRepoVisibility(w) ==
    LET q == asked[w]
    IN  /\ q # Unset /\ q.op = "visibility" /\ q.at = "second"
        /\ repo' = [repo EXCEPT ![q.repo].daemon = FALSE]
        /\ Returns(w)
        /\ UNCHANGED <<grant, org, member, team, slipped, accessOps>>

SetGitDaemon(w) ==
    LET q == asked[w]
    IN  /\ q # Unset /\ q.op = "gitdaemon"
        /\ repo' = [repo EXCEPT ![q.repo].daemon = (q.role = "on")]
        /\ slipped' = IF q.role = "on" /\ ~ repo[q.repo].public
                      THEN slipped \cup {<<"daemon", q.repo>>} ELSE slipped
        /\ Returns(w)
        /\ UNCHANGED <<grant, org, member, team, accessOps>>

archiveRepo(w) ==
    LET q == asked[w]
    IN  /\ q # Unset /\ q.op = "archive"
        /\ repo' = [repo EXCEPT ![q.repo].archived = (q.role = "on")]
        /\ Returns(w)
        /\ UNCHANGED <<grant, org, member, team, slipped, accessOps>>

\* Neither the check nor the row is a foreign key on the organization.
Settles(owner, r) ==
    slipped' = IF owner \in OrgIds /\ ~ OrgHere(owner)
               THEN slipped \cup {<<"owner", r>>} ELSE slipped

TransferRepo(w) ==
    LET q == asked[w]
    IN  /\ q # Unset /\ q.op = "transfer"
        /\ repo' = [repo EXCEPT ![q.repo].owner = q.who]
        /\ Settles(q.who, q.repo)
        /\ Returns(w)
        /\ UNCHANGED <<grant, org, member, team, accessOps>>

CreateRepoRow(w) ==
    LET q == asked[w]
    IN  /\ q # Unset /\ q.op = "create"
        /\ IF repo[q.repo].is = "none"
           THEN /\ repo' = [repo EXCEPT ![q.repo] =
                              [NoRow EXCEPT !.is = "here", !.owner = q.who,
                                            !.public = (q.role = "on")]]
                /\ Settles(q.who, q.repo)
           ELSE UNCHANGED <<repo, slipped>>
        /\ Returns(w)
        /\ UNCHANGED <<grant, org, member, team, accessOps>>

CreateOrg(w) ==
    LET q == asked[w]
    IN  /\ q # Unset /\ q.op = "orgcreate"
        /\ IF org[q.org].is # "none"
           THEN UNCHANGED <<org, member>>
           ELSE /\ org' = [org EXCEPT ![q.org] = [is |-> "here", role |-> "write"]]
                /\ member' = [member EXCEPT ![q.org] =
                                [u \in Users |-> IF u = q.by THEN "admin"
                                                 ELSE "none"]]
        /\ Returns(w)
        /\ UNCHANGED <<repo, grant, team, slipped, accessOps>>

\* A plausible mistake: an organization is deleted under its repositories.
CountsNone(o) == TRUE

\* DeleteOrg counts first, outside its transaction.
Counts(o) == \A r \in RepoIds : repo[r].is = "here" => repo[r].owner # o

CountOrgRepos(w) ==
    LET q == asked[w]
    IN  /\ q # Unset /\ q.op = "orgdelete" /\ q.at = "write"
        /\ IF Counts(q.org)
           THEN asked' = [asked EXCEPT ![w].at = "second", ![w].clear =
                            {r \in RepoIds : repo[r].owner = q.org}]
           ELSE Returns(w)
        /\ UNCHANGED <<repo, grant, org, member, team, slipped, accessOps>>

DeleteOrg(w) ==
    LET q == asked[w]
        late == {r \in RepoIds : repo[r].owner = q.org} \ q.clear
    IN  /\ q # Unset /\ q.op = "orgdelete" /\ q.at = "second"
        /\ org' = [org EXCEPT ![q.org].is = "gone"]
        /\ member' = [member EXCEPT ![q.org] = [u \in Users |-> "none"]]
        /\ team' = [t \in TeamIds |-> IF TeamOrg[t] = q.org /\ TeamHere(t)
                                      THEN GoneTeam ELSE team[t]]
        /\ slipped' = slipped \cup {<<"owner", r>> : r \in late}
        /\ Returns(w)
        /\ UNCHANGED <<repo, grant, accessOps>>

-----------------------------------------------------------------------------
(* The specification *)

Founder == CHOOSE u \in Users : TRUE

OrgsStart(made, joined, inTeam) ==
    /\ org = [o \in OrgIds |->
         [is |-> IF o \in made THEN "here" ELSE "none", role |-> "write"]]
    /\ member = [o \in OrgIds |-> [u \in Users |->
         CASE o \in made /\ u = Founder  -> "admin"
           [] o \in made /\ u \in joined -> "member"
           [] OTHER                      -> "none"]]
    /\ team = [t \in TeamIds |->
         IF TeamOrg[t] \in made /\ inTeam
         THEN [NoTeam EXCEPT !.is = "here", !.users = joined \cup {Founder}]
         ELSE NoTeam]

RepoStarts(first, owner, public, daemon) ==
    repo = [r \in RepoIds |->
              IF r = first /\ owner # Unset
              THEN [NoRow EXCEPT !.is = "here", !.owner = owner,
                            !.public = public, !.daemon = daemon]
              ELSE NoRow]

\* Perhaps an organization with an admin, a member and a team, and perhaps a
\* repository; the rest is made by commands.
AccessInit ==
    /\ \E made \in SUBSET OrgIds, joined \in SUBSET (Users \ {Founder}),
          inTeam \in BOOLEAN :
         /\ made = {} => joined = {} /\ ~ inTeam
         /\ OrgsStart(made, joined, inTeam)
         /\ \E first \in RepoIds, owner \in (Users \ {Founder}) \cup made \cup {Unset},
               public \in BOOLEAN, daemon \in BOOLEAN :
              /\ daemon => public
              /\ owner = Unset => ~ public
              /\ RepoStarts(first, owner, public, daemon)
    /\ grant = [r \in RepoIds |-> [u \in Users |-> "none"]]
    /\ asked = [w \in Workers |-> Unset]
    /\ slipped = {}
    /\ accessOps = 0

AskRepo(w, u) ==
    \/ runAccessGrant(w, u) \/ runAccessRevoke(w, u) \/ runSetVisibility(w, u)
    \/ runGitDaemon(w, u) \/ setArchived(w, u) \/ runRepoTransfer(w, u)
    \/ resolveNewRepoOwner(w, u)

AskOrg(w, u) ==
    \/ runOrgMembersAdd(w, u) \/ runOrgMembersRemove(w, u)
    \/ runOrgMembersRole(w, u) \/ runTeamCreate(w, u) \/ runTeamDelete(w, u)
    \/ editTeamMembers(w, u) \/ runTeamGrant(w, u) \/ runTeamRevoke(w, u)
    \/ runOrgCreate(w, u) \/ runOrgDelete(w, u)

Written(w) ==
    \/ GrantAccess(w) \/ RevokeAccess(w)
    \/ SetOrgMember(w) \/ RemoveOrgMember(w) \/ SetOrgMembersRole(w)
    \/ CreateTeam(w) \/ DeleteTeam(w)
    \/ AddTeamMember(w) \/ RemoveTeamMember(w)
    \/ GrantTeamRepo(w) \/ RevokeTeamRepo(w)
    \/ SetRepoVisibility(w) \/ setRepoVisibility(w) \/ SetGitDaemon(w)
    \/ archiveRepo(w) \/ TransferRepo(w) \/ CreateRepoRow(w)
    \/ CreateOrg(w) \/ CountOrgRepos(w) \/ DeleteOrg(w)

AccessStep(w) ==
    \/ MayAsk(w) /\ \E u \in Users : AskRepo(w, u) \/ AskOrg(w, u)
    \/ Written(w)

AccessNext == \E w \in Workers : AccessStep(w)

AccessSpec == AccessInit /\ [][AccessNext]_accessVars

-----------------------------------------------------------------------------
(* Properties *)

\* The three places that decide who reaches a repository agree: AccessRole
\* with the policy (every command), EffectiveAccess (the access list and
\* the watchers by preference) and reachableCond (dashboard, feed, search).
FormsAgree ==
    \A r \in RepoIds, u \in Users :
      Found(r) =>
        /\ EffectiveAccess(r)[u] = IF isOwner(u, r) THEN "admin"
                                  ELSE AccessRole(r, u)
        /\ reachableCond(r, u) <=> EffectiveAccess(r)[u] \in Given
        /\ visibleCond(r, u) <=> CanRead(u, r)

\* A team holds only members of its organization: RemoveOrgMember takes the
\* team rows with it. A `team add` checked before the removal and written
\* after it leaves a row behind.
TeamMembersAreMembers ==
    \A t \in TeamIds : \A u \in team[t].users :
      member[TeamOrg[t]][u] # "none" \/ <<"teamadd", t>> \in slipped

\* An organization always has an admin: SetOrgMember and RemoveOrgMember
\* refuse to take the last one, whatever commands cross.
OrgKeepsAdmin ==
    \A o \in OrgIds : OrgHere(o) => \E u \in Users : member[o][u] = "admin"

\* A private repository is not exported over git://: setRepoVisibility
\* clears the switch in its second statement, while it is still under way
\* the switch may be on. Crossing commands may leave it on.
DaemonServesPublic ==
    \A r \in RepoIds :
      repo[r].daemon /\ ~ repo[r].public =>
        \/ <<"daemon", r>> \in slipped
        \/ \E w \in Workers : /\ asked[w] # Unset /\ asked[w].repo = r
                               /\ asked[w].at = "second"

\* A repository's organization exists: DeleteOrg refuses one that owns
\* repositories. A creation or transfer written between its count and its
\* delete leaves a repository nobody can name.
OwnerExists ==
    \A r \in RepoIds :
      repo[r].is = "here" => Found(r) \/ <<"owner", r>> \in slipped

\* The forms in which access is computed agree, and commands that cross leave
\* teams, organizations and owners in order (control/orgs.go, teams.go).
AccessInOrder ==
    /\ FormsAgree /\ TeamMembersAreMembers /\ OrgKeepsAdmin
    /\ DaemonServesPublic /\ OwnerExists

\* A role on a repository rises only by the command of someone who, when it
\* was checked, administered the repository or the organization that owns
\* it, save where a team kept a grant on a repository that left its
\* organization, and for the owner that a creation or transfer installs.
RoleRisesByAdmin ==
    [][<<repo, grant, org, member, team>> # <<repo, grant, org, member, team>>' =>
       \A r \in RepoIds, u \in Users :
         Rank[EffectiveAccess(r)[u]]' > Rank[EffectiveAccess(r)[u]] =>
           \E w \in Workers :
             /\ asked[w] # asked'[w]
             /\ asked[w] # Unset
             /\ \/ {r, repo[r].owner} \cap asked[w].clear # {}
                \/ asked[w].op = "create" /\ asked[w].repo = r
                \/ \E t \in TeamIds : /\ asked[w].team = t
                                       /\ asked[w].op = "teamadd"
                                       /\ repo[r].owner # TeamOrg[t]]_accessVars
=============================================================================
