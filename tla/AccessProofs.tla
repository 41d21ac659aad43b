---------------------------- MODULE AccessProofs ----------------------------
(***************************************************************************)
(* Proofs about Access, for any accounts, organizations, teams,            *)
(* repositories and commands under way: the forms in which access is       *)
(* computed agree, crossing commands leave rows in order but where they    *)
(* are recorded to slip, and a role rises only by an administrator.        *)
(***************************************************************************)
EXTENDS Access, TLAPS

-----------------------------------------------------------------------------
(* Access: the inductive invariant *)

\* A command asked for has what its write uses.
RequestFits(q) ==
    /\ q \in Request
    /\ q.op \in {"grant", "revoke", "visibility", "gitdaemon", "archive", "transfer",
                 "create", "teamgrant", "teamrevoke"} => q.repo \in RepoIds
    /\ q.op \in {"orgadd", "orgremove", "membersrole", "orgcreate", "orgdelete"}
         => q.org \in OrgIds /\ q.repo = Unset
    /\ q.op \in {"teamcreate", "teamdelete", "teamadd", "teamremove", "teamgrant",
                 "teamrevoke"} => q.team \in TeamIds
    /\ q.op \in {"grant", "revoke", "orgadd", "orgremove", "teamadd", "teamremove"}
         => q.who \in Users
    /\ q.op \in {"transfer", "create"} => q.who \in Users \cup OrgIds
    /\ q.op \in {"grant", "teamgrant"} => q.role \in Given
    /\ q.op = "orgadd" => q.role \in {"member", "admin"}
    /\ q.op = "membersrole" => q.role \in {"write", "read", "none"}
    /\ q.op \in {"visibility", "gitdaemon"} => q.role \in {"on", "off"}
    /\ q.op = "orgcreate" => q.by \in Users
    /\ q.at = "second" => q.op \in {"visibility", "orgdelete"}

\* Its caller administered what it gives a role on.
RequestCleared(q) ==
    /\ q.op \in {"grant", "teamgrant", "transfer"} => q.repo \in q.clear
    /\ q.op \in {"orgadd", "membersrole"} => q.org \in q.clear
    /\ q.op = "teamadd" => TeamOrg[q.team] \in q.clear

\* What it was checked against and cannot be undone; and an organization that
\* counted none of its repositories had no row at all.
RequestStands(q, rows, orgs) ==
    /\ q.op = "transfer" => rows[q.repo].is = "here"
    /\ q.op \in {"transfer", "create"} /\ q.who \in OrgIds => orgs[q.who].is # "none"
    /\ q.op = "orgdelete" /\ q.at = "second" => q.clear = {}

RequestsKnown ==
    \A w \in Workers : asked[w] # Unset =>
        /\ RequestFits(asked[w]) /\ RequestCleared(asked[w])
        /\ RequestStands(asked[w], repo, org)

\* A repository belongs to an organization only once there is one, and only a
\* team that is there has members.
RowsFit ==
    /\ \A r \in RepoIds : repo[r].is = "none" => repo[r].owner = Unset
    /\ \A r \in RepoIds : repo[r].owner \in OrgIds => org[repo[r].owner].is # "none"
    /\ \A t \in TeamIds : ~TeamHere(t) => team[t].users = {}

AccessShape == AccessTypeOK /\ asked \in [Workers -> Request \cup {Unset}]

AccessInv ==
    /\ AccessShape /\ RequestsKnown /\ RowsFit
    /\ TeamMembersAreMembers /\ OrgKeepsAdmin /\ DaemonServesPublic /\ OwnerExists

-----------------------------------------------------------------------------
(* Asking *)

\* A command that is checked leaves the rows, and takes a free worker.
LEMMA CheckedKeeps ==
    ASSUME AccessInv, NEW w \in Workers, MayAsk(w), NEW q, Checked(w, q),
           RequestFits(q), RequestCleared(q), RequestStands(q, repo, org)
    PROVE  AccessInv'
<1>1. /\ asked[w] = Unset /\ accessOps < MaxAccessOps /\ accessOps' = accessOps + 1
      /\ asked' = [asked EXCEPT ![w] = q]
      /\ UNCHANGED <<repo, grant, org, member, team, slipped>>
  BY DEF MayAsk, Checked
<1>2. asked \in [Workers -> Request \cup {Unset}] /\ q \in Request
  BY DEF AccessInv, AccessShape, RequestFits
<1>3. /\ asked' \in [Workers -> Request \cup {Unset}] /\ asked'[w] = q
      /\ \A v \in Workers : v # w => asked'[v] = asked[v]
  BY <1>1, <1>2
<1>4. accessOps' \in 0..MaxAccessOps
  BY <1>1, AccessAssumption DEF AccessInv, AccessShape, AccessTypeOK
<1>5. AccessShape'
  BY <1>1, <1>3, <1>4 DEF AccessInv, AccessShape, AccessTypeOK, TeamHere, OrgHere
<1>6. RequestsKnown'
  <2> SUFFICES ASSUME NEW v \in Workers, asked'[v] # Unset
               PROVE  /\ RequestFits(asked'[v]) /\ RequestCleared(asked'[v])
                      /\ RequestStands(asked'[v], repo, org)
    BY <1>1 DEF RequestsKnown
  <2> QED
    BY <1>3 DEF AccessInv, RequestsKnown
<1>7. DaemonServesPublic'
  <2> SUFFICES ASSUME NEW r \in RepoIds, repo[r].daemon, ~ repo[r].public,
                      <<"daemon", r>> \notin slipped
               PROVE  \E v \in Workers : /\ asked'[v] # Unset /\ asked'[v].repo = r
                                         /\ asked'[v].at = "second"
    BY <1>1 DEF DaemonServesPublic
  <2>1. PICK v \in Workers : /\ asked[v] # Unset /\ asked[v].repo = r
                             /\ asked[v].at = "second"
    BY DEF AccessInv, DaemonServesPublic
  <2> QED
    BY <1>1, <1>3, <2>1
<1>8. RowsFit' /\ TeamMembersAreMembers' /\ OrgKeepsAdmin' /\ OwnerExists'
  BY <1>1 DEF AccessInv, RowsFit, TeamMembersAreMembers, OrgKeepsAdmin, OwnerExists,
     TeamHere, OrgHere, Found
<1> QED
  BY <1>5, <1>6, <1>7, <1>8 DEF AccessInv

\* Who administers what a command names, when the command is checked.
LEMMA AdministersWhatIsChecked ==
    ASSUME NEW u \in Users
    PROVE  /\ \A r \in RepoIds : resolveRepo(u, r, "admin") =>
                 r \in Administers(u) /\ repo[r].is = "here"
           /\ \A o \in OrgIds : orgAdmin(u, o) => o \in Administers(u) /\ org[o].is = "here"
           /\ \A r \in RepoIds : \A o \in OrgIds :
                 Found(r) /\ orgAdmin(u, o) /\ repo[r].owner = o => r \in Administers(u)
<1>1. ASSUME NEW r \in RepoIds, resolveRepo(u, r, "admin")
      PROVE  r \in Administers(u) /\ repo[r].is = "here"
  BY <1>1 DEF resolveRepo, Permits, Found, Administers
<1>2. ASSUME NEW o \in OrgIds, orgAdmin(u, o)
      PROVE  o \in Administers(u) /\ org[o].is = "here"
  BY <1>2 DEF orgAdmin, OrgRole, OrgHere, Administers
<1>3. ASSUME NEW r \in RepoIds, NEW o \in OrgIds, Found(r), orgAdmin(u, o), repo[r].owner = o
      PROVE  r \in Administers(u)
  <2>1. FromOrg(r, u) = "admin"
    BY <1>3 DEF FromOrg, orgAdmin
  <2>2. AccessRole(r, u) = "admin"
    BY <2>1 DEF AccessRole, Strongest
  <2> QED
    BY <1>3, <2>2 DEF Administers, CanAdmin, Found
<1> QED
  BY <1>1, <1>2, <1>3

\* What a handler has made sure of when it asks.
Askable(op, u, r, o, t, who, role) ==
    /\ op \in Ops /\ u \in Users
    /\ r \in RepoIds \cup {Unset} /\ o \in OrgIds \cup {Unset}
    /\ t \in TeamIds \cup {Unset} /\ who \in Users \cup OrgIds \cup {Unset}
    /\ role \in Roles \cup {"member", "on", "off", Unset}
    /\ op \in {"grant", "revoke", "visibility", "gitdaemon", "archive", "transfer",
               "create", "teamgrant", "teamrevoke"} => r \in RepoIds
    /\ op \in {"orgadd", "orgremove", "membersrole", "orgcreate", "orgdelete"}
         => o \in OrgIds /\ r = Unset
    /\ op \in {"teamcreate", "teamdelete", "teamadd", "teamremove", "teamgrant",
               "teamrevoke"} => t \in TeamIds
    /\ op \in {"grant", "revoke", "orgadd", "orgremove", "teamadd", "teamremove"}
         => who \in Users
    /\ op \in {"transfer", "create"} => who \in Users \cup OrgIds
    /\ op \in {"grant", "teamgrant"} => role \in Given
    /\ op = "orgadd" => role \in {"member", "admin"}
    /\ op = "membersrole" => role \in {"write", "read", "none"}
    /\ op \in {"visibility", "gitdaemon"} => role \in {"on", "off"}
    /\ op \in {"grant", "teamgrant", "transfer"} => r \in Administers(u)
    /\ op \in {"orgadd", "membersrole"} => o \in Administers(u)
    /\ op = "teamadd" => TeamOrg[t] \in Administers(u)
    /\ op = "transfer" => repo[r].is = "here"
    /\ op \in {"transfer", "create"} /\ who \in OrgIds => org[who].is # "none"

\* A command asked for so is one the invariant knows.
LEMMA AskKeeps ==
    ASSUME AccessInv, NEW w \in Workers, MayAsk(w),
           NEW op, NEW u, NEW r, NEW o, NEW t, NEW who, NEW role,
           Askable(op, u, r, o, t, who, role),
           Checked(w, Ask(op, u, r, o, t, who, role))
    PROVE  AccessInv'
<1> DEFINE by == IF op = "orgcreate" THEN u ELSE Unset
           saw == op = "visibility" /\ repo[r].daemon
           clear == Administers(u)
           q == Ask(op, u, r, o, t, who, role)
<1>0. Checked(w, q)
  OBVIOUS
<1>a. q = [op |-> op, by |-> by, repo |-> r, org |-> o, team |-> t, who |-> who,
           role |-> role, at |-> "write", saw |-> saw, clear |-> clear]
  BY DEF Ask
<1>b. u \in Users
  BY DEF Askable
<1>c. by \in Users \cup {Unset} /\ saw \in BOOLEAN /\ (op = "orgcreate" => by = u)
  BY <1>b
<1>d. clear \in SUBSET (RepoIds \cup OrgIds)
  BY DEF Administers
<1>e. clear = Administers(u)
  OBVIOUS
<1> HIDE DEF by, saw, clear, q
<1>f. /\ op \in Ops /\ u \in Users
      /\ r \in RepoIds \cup {Unset} /\ o \in OrgIds \cup {Unset}
      /\ t \in TeamIds \cup {Unset} /\ who \in Users \cup OrgIds \cup {Unset}
      /\ role \in Roles \cup {"member", "on", "off", Unset}
  BY DEF Askable
<1>1. /\ q \in Request /\ q.op = op /\ q.repo = r /\ q.org = o /\ q.team = t
      /\ q.who = who /\ q.role = role /\ q.at = "write"
      /\ q.clear = Administers(u) /\ (op = "orgcreate" => q.by = u)
  BY <1>a, <1>c, <1>d, <1>e, <1>f DEF Request
<1>2. RequestFits(q)
  BY <1>1 DEF Askable, RequestFits
<1>3. RequestCleared(q)
  BY <1>1 DEF Askable, RequestCleared
<1>4. RequestStands(q, repo, org)
  BY <1>1 DEF Askable, RequestStands
<1> QED
  BY <1>0, <1>2, <1>3, <1>4, CheckedKeeps

\* Every handler of a repository asks for what fits.
LEMMA AskedRepo ==
    ASSUME AccessInv, NEW w \in Workers, NEW u \in Users, MayAsk(w), AskRepo(w, u)
    PROVE  AccessInv'
<1>1. CASE runAccessGrant(w, u)
  <2>1. PICK v \in Users, r \in RepoIds, role \in Given :
          /\ resolveRepo(u, r, "admin")
          /\ Checked(w, Ask("grant", u, r, Unset, Unset, v, role))
    BY <1>1 DEF runAccessGrant
  <2>2. Askable("grant", u, r, Unset, Unset, v, role)
    BY <2>1, AdministersWhatIsChecked, AccessAssumption DEF Askable, Ops, Roles, Given
  <2> QED
    BY <2>1, <2>2, AskKeeps
<1>2. CASE runAccessRevoke(w, u)
  <2>1. PICK v \in Users, r \in RepoIds :
          /\ Checked(w, Ask("revoke", u, r, Unset, Unset, v, Unset))
    BY <1>2 DEF runAccessRevoke
  <2>2. Askable("revoke", u, r, Unset, Unset, v, Unset)
    BY AccessAssumption DEF Askable, Ops
  <2> QED
    BY <2>1, <2>2, AskKeeps
<1>3. CASE runSetVisibility(w, u)
  <2>1. PICK r \in RepoIds, v \in {"on", "off"} :
          /\ Checked(w, Ask("visibility", u, r, Unset, Unset, Unset, v))
    BY <1>3 DEF runSetVisibility
  <2>2. Askable("visibility", u, r, Unset, Unset, Unset, v)
    BY AccessAssumption DEF Askable, Ops
  <2> QED
    BY <2>1, <2>2, AskKeeps
<1>4. CASE runGitDaemon(w, u)
  <2>1. PICK r \in RepoIds, v \in {"on", "off"} :
          /\ Checked(w, Ask("gitdaemon", u, r, Unset, Unset, Unset, v))
    BY <1>4 DEF runGitDaemon
  <2>2. Askable("gitdaemon", u, r, Unset, Unset, Unset, v)
    BY AccessAssumption DEF Askable, Ops
  <2> QED
    BY <2>1, <2>2, AskKeeps
<1>5. CASE setArchived(w, u)
  <2>1. PICK r \in RepoIds, v \in {"on", "off"} :
          /\ Checked(w, Ask("archive", u, r, Unset, Unset, Unset, v))
    BY <1>5 DEF setArchived
  <2>2. Askable("archive", u, r, Unset, Unset, Unset, v)
    BY AccessAssumption DEF Askable, Ops
  <2> QED
    BY <2>1, <2>2, AskKeeps
<1>6. CASE runRepoTransfer(w, u)
  <2>1. PICK r \in RepoIds, to \in Users \cup OrgIds :
          /\ resolveRepo(u, r, "admin")
          /\ to = u \/ orgAdmin(u, to)
          /\ Checked(w, Ask("transfer", u, r, Unset, Unset, to, Unset))
    BY <1>6 DEF runRepoTransfer
  <2>2. Askable("transfer", u, r, Unset, Unset, to, Unset)
    BY <2>1, AdministersWhatIsChecked, AccessAssumption DEF Askable, Ops
  <2> QED
    BY <2>1, <2>2, AskKeeps
<1>7. CASE resolveNewRepoOwner(w, u)
  <2>1. PICK r \in RepoIds, to \in Users \cup OrgIds, v \in {"on", "off"} :
          /\ to = u \/ orgAdmin(u, to)
          /\ Checked(w, Ask("create", u, r, Unset, Unset, to, v))
    BY <1>7 DEF resolveNewRepoOwner
  <2>2. Askable("create", u, r, Unset, Unset, to, v)
    BY <2>1, AdministersWhatIsChecked, AccessAssumption DEF Askable, Ops
  <2> QED
    BY <2>1, <2>2, AskKeeps
<1> QED
  BY <1>1, <1>2, <1>3, <1>4, <1>5, <1>6, <1>7 DEF AskRepo

\* So does every handler of an organization or a team.
LEMMA AskedOrg ==
    ASSUME AccessInv, NEW w \in Workers, NEW u \in Users, MayAsk(w), AskOrg(w, u)
    PROVE  AccessInv'
<1>1. CASE runOrgMembersAdd(w, u)
  <2>1. PICK v \in Users, o \in OrgIds, role \in {"member", "admin"} :
          /\ orgAdmin(u, o)
          /\ Checked(w, Ask("orgadd", u, Unset, o, Unset, v, role))
    BY <1>1 DEF runOrgMembersAdd
  <2>2. Askable("orgadd", u, Unset, o, Unset, v, role)
    BY <2>1, AdministersWhatIsChecked, AccessAssumption DEF Askable, Ops, Roles, Given
  <2> QED
    BY <2>1, <2>2, AskKeeps
<1>2. CASE runOrgMembersRemove(w, u)
  <2>1. PICK v \in Users, o \in OrgIds :
          /\ Checked(w, Ask("orgremove", u, Unset, o, Unset, v, Unset))
    BY <1>2 DEF runOrgMembersRemove
  <2>2. Askable("orgremove", u, Unset, o, Unset, v, Unset)
    BY AccessAssumption DEF Askable, Ops
  <2> QED
    BY <2>1, <2>2, AskKeeps
<1>3. CASE runOrgMembersRole(w, u)
  <2>1. PICK o \in OrgIds, role \in {"write", "read", "none"} :
          /\ orgAdmin(u, o)
          /\ Checked(w, Ask("membersrole", u, Unset, o, Unset, Unset, role))
    BY <1>3 DEF runOrgMembersRole
  <2>2. Askable("membersrole", u, Unset, o, Unset, Unset, role)
    BY <2>1, AdministersWhatIsChecked, AccessAssumption DEF Askable, Ops, Roles, Given
  <2> QED
    BY <2>1, <2>2, AskKeeps
<1>4. CASE runTeamCreate(w, u)
  <2>1. PICK t \in TeamIds :
          /\ Checked(w, Ask("teamcreate", u, Unset, Unset, t, Unset, Unset))
    BY <1>4 DEF runTeamCreate
  <2>2. Askable("teamcreate", u, Unset, Unset, t, Unset, Unset)
    BY AccessAssumption DEF Askable, Ops
  <2> QED
    BY <2>1, <2>2, AskKeeps
<1>5. CASE runTeamDelete(w, u)
  <2>1. PICK t \in TeamIds :
          /\ Checked(w, Ask("teamdelete", u, Unset, Unset, t, Unset, Unset))
    BY <1>5 DEF runTeamDelete, orgAdminRef
  <2>2. Askable("teamdelete", u, Unset, Unset, t, Unset, Unset)
    BY AccessAssumption DEF Askable, Ops
  <2> QED
    BY <2>1, <2>2, AskKeeps
<1>6. CASE editTeamMembers(w, u)
  <2>1. PICK v \in Users, t \in TeamIds :
          /\ orgAdmin(u, TeamOrg[t])
          /\ \/ Checked(w, Ask("teamadd", u, Unset, Unset, t, v, Unset))
             \/ Checked(w, Ask("teamremove", u, Unset, Unset, t, v, Unset))
    BY <1>6 DEF editTeamMembers, orgAdminRef
  <2>2. TeamOrg[t] \in Administers(u)
    BY <2>1, AdministersWhatIsChecked, AccessAssumption
  <2>3. /\ Askable("teamadd", u, Unset, Unset, t, v, Unset)
        /\ Askable("teamremove", u, Unset, Unset, t, v, Unset)
    BY <2>2 DEF Askable, Ops
  <2> QED
    BY <2>1, <2>3, AskKeeps
<1>7. CASE runTeamGrant(w, u)
  <2>1. PICK r \in RepoIds, t \in TeamIds, role \in Given :
          /\ orgAdmin(u, TeamOrg[t])
          /\ Found(r)
          /\ repo[r].owner = TeamOrg[t]
          /\ Checked(w, Ask("teamgrant", u, r, Unset, t, Unset, role))
    BY <1>7 DEF runTeamGrant, orgAdminRef
  <2>2. Askable("teamgrant", u, r, Unset, t, Unset, role)
    BY <2>1, AdministersWhatIsChecked, AccessAssumption DEF Askable, Ops, Roles, Given
  <2> QED
    BY <2>1, <2>2, AskKeeps
<1>8. CASE runTeamRevoke(w, u)
  <2>1. PICK r \in RepoIds, t \in TeamIds :
          /\ Checked(w, Ask("teamrevoke", u, r, Unset, t, Unset, Unset))
    BY <1>8 DEF runTeamRevoke, orgAdminRef
  <2>2. Askable("teamrevoke", u, r, Unset, t, Unset, Unset)
    BY AccessAssumption DEF Askable, Ops
  <2> QED
    BY <2>1, <2>2, AskKeeps
<1>9. CASE runOrgCreate(w, u)
  <2>1. PICK o \in OrgIds :
          /\ Checked(w, Ask("orgcreate", u, Unset, o, Unset, Unset, Unset))
    BY <1>9 DEF runOrgCreate
  <2>2. Askable("orgcreate", u, Unset, o, Unset, Unset, Unset)
    BY AccessAssumption DEF Askable, Ops
  <2> QED
    BY <2>1, <2>2, AskKeeps
<1>10. CASE runOrgDelete(w, u)
  <2>1. PICK o \in OrgIds :
          /\ Checked(w, Ask("orgdelete", u, Unset, o, Unset, Unset, Unset))
    BY <1>10 DEF runOrgDelete
  <2>2. Askable("orgdelete", u, Unset, o, Unset, Unset, Unset)
    BY AccessAssumption DEF Askable, Ops
  <2> QED
    BY <2>1, <2>2, AskKeeps
<1> QED
  BY <1>1, <1>2, <1>3, <1>4, <1>5, <1>6, <1>7, <1>8, <1>9, <1>10 DEF AskOrg

-----------------------------------------------------------------------------
(* Writing: what stays *)

\* The other commands under way still fit, while no repository and no
\* organization is unmade.
LEMMA CommandsGoOn ==
    ASSUME AccessInv, NEW w \in Workers, NEW q, asked' = [asked EXCEPT ![w] = q],
           q # Unset => /\ RequestFits(q) /\ RequestCleared(q)
                        /\ RequestStands(q, repo', org'),
           \A r \in RepoIds : repo[r].is = "here" => repo'[r].is = "here",
           \A o \in OrgIds : org[o].is # "none" => org'[o].is # "none"
    PROVE  /\ RequestsKnown'
           /\ asked' \in [Workers -> Request \cup {Unset}] /\ asked'[w] = q
           /\ \A v \in Workers : v # w => asked'[v] = asked[v]
<1>1. asked \in [Workers -> Request \cup {Unset}] /\ q \in Request \cup {Unset}
  BY DEF AccessInv, AccessShape, RequestFits
<1>2. /\ asked' \in [Workers -> Request \cup {Unset}] /\ asked'[w] = q
      /\ \A v \in Workers : v # w => asked'[v] = asked[v]
  BY <1>1
<1>3. ASSUME NEW v \in Workers, asked'[v] # Unset, v # w
      PROVE  /\ RequestFits(asked'[v]) /\ RequestCleared(asked'[v])
             /\ RequestStands(asked'[v], repo', org')
  <2>1. asked'[v] = asked[v]
    BY <1>2, <1>3
  <2>2. RequestFits(asked[v]) /\ RequestCleared(asked[v]) /\ RequestStands(asked[v], repo, org)
    BY <1>3, <2>1 DEF AccessInv, RequestsKnown
  <2>3. RequestStands(asked[v], repo', org')
    BY <2>2 DEF RequestStands, RequestFits
  <2> QED
    BY <2>1, <2>2, <2>3
<1>4. RequestsKnown'
  BY <1>2, <1>3 DEF RequestsKnown
<1> QED
  BY <1>2, <1>4

\* A switch that was on for a private repository is still accounted for, when
\* the command that ends is not the one that has yet to clear it.
LEMMA SwitchAccountedFor ==
    ASSUME AccessInv, NEW w \in Workers, NEW r \in RepoIds,
           \A v \in Workers : v # w => asked'[v] = asked[v],
           asked[w].at = "second" => asked[w].repo # r,
           slipped \subseteq slipped', repo[r].daemon, ~ repo[r].public
    PROVE  \/ <<"daemon", r>> \in slipped'
           \/ \E v \in Workers : /\ asked'[v] # Unset /\ asked'[v].repo = r
                                 /\ asked'[v].at = "second"
<1> SUFFICES ASSUME <<"daemon", r>> \notin slipped'
             PROVE  \E v \in Workers : /\ asked'[v] # Unset /\ asked'[v].repo = r
                                       /\ asked'[v].at = "second"
  OBVIOUS
<1>1. PICK v \in Workers : asked[v] # Unset /\ asked[v].repo = r /\ asked[v].at = "second"
  BY DEF AccessInv, DaemonServesPublic
<1>2. v # w
  BY <1>1
<1> QED
  BY <1>1, <1>2

\* A command on grants, members or teams leaves repositories, and whether an
\* organization is there.
LEMMA RowsStay ==
    ASSUME AccessInv, NEW w \in Workers, asked[w] # Unset,
           asked[w].op \notin {"visibility", "orgdelete"},
           Returns(w), UNCHANGED repo, slipped \subseteq slipped',
           \A o \in OrgIds : org'[o].is = org[o].is
    PROVE  /\ RequestsKnown' /\ asked' \in [Workers -> Request \cup {Unset}]
           /\ DaemonServesPublic' /\ OwnerExists'
           /\ \A r \in RepoIds : repo'[r].is = "none" => repo'[r].owner = Unset
           /\ \A r \in RepoIds : repo'[r].owner \in OrgIds => org'[repo'[r].owner].is # "none"
<1>1. asked' = [asked EXCEPT ![w] = Unset]
  BY DEF Returns
<1>2. /\ RequestsKnown' /\ asked' \in [Workers -> Request \cup {Unset}]
      /\ \A v \in Workers : v # w => asked'[v] = asked[v]
  BY <1>1, CommandsGoOn
<1>3. asked[w].at # "second"
  BY DEF AccessInv, RequestsKnown, RequestFits
<1>4. DaemonServesPublic'
  <2> SUFFICES ASSUME NEW r \in RepoIds, repo[r].daemon, ~ repo[r].public
               PROVE  \/ <<"daemon", r>> \in slipped'
                      \/ \E v \in Workers : /\ asked'[v] # Unset /\ asked'[v].repo = r
                                            /\ asked'[v].at = "second"
    BY DEF DaemonServesPublic
  <2> QED
    BY <1>2, <1>3, SwitchAccountedFor
<1>5. OwnerExists'
  BY DEF AccessInv, OwnerExists, Found, OrgHere
<1>6. /\ \A r \in RepoIds : repo'[r].is = "none" => repo'[r].owner = Unset
      /\ \A r \in RepoIds : repo'[r].owner \in OrgIds => org'[repo'[r].owner].is # "none"
  BY DEF AccessInv, RowsFit
<1> QED
  BY <1>2, <1>4, <1>5, <1>6

-----------------------------------------------------------------------------
(* Writing: grants, members and teams *)

\* Direct grants: `repo access grant` and `revoke`.
LEMMA GrantsKeep ==
    ASSUME AccessInv, NEW w \in Workers, GrantAccess(w) \/ RevokeAccess(w)
    PROVE  AccessInv'
<1> DEFINE q == asked[w]
<1>1. /\ q # Unset /\ q.op \in {"grant", "revoke"} /\ Returns(w)
      /\ UNCHANGED <<repo, org, member, team, slipped, accessOps>>
  BY DEF GrantAccess, RevokeAccess
<1>2. RequestFits(q)
  BY <1>1 DEF AccessInv, RequestsKnown
<1>3. grant' \in [RepoIds -> [Users -> Roles]]
  <2>1. q.repo \in RepoIds /\ q.who \in Users /\ (q.op = "grant" => q.role \in Given)
    BY <1>1, <1>2 DEF RequestFits
  <2>2. /\ q.op = "grant" => grant' = [grant EXCEPT ![q.repo][q.who] = q.role]
        /\ q.op = "revoke" => grant' = [grant EXCEPT ![q.repo][q.who] = "none"]
    BY <1>1 DEF GrantAccess, RevokeAccess
  <2>3. grant \in [RepoIds -> [Users -> Roles]]
    BY DEF AccessInv, AccessShape, AccessTypeOK
  <2> QED
    BY <1>1, <2>1, <2>2, <2>3 DEF Roles, Given
<1>4. /\ RequestsKnown' /\ asked' \in [Workers -> Request \cup {Unset}]
      /\ DaemonServesPublic' /\ OwnerExists'
  BY <1>1, RowsStay
<1>5. AccessShape'
  BY <1>1, <1>3, <1>4 DEF AccessInv, AccessShape, AccessTypeOK, TeamHere, OrgHere
<1>6. RowsFit' /\ TeamMembersAreMembers' /\ OrgKeepsAdmin'
  BY <1>1 DEF AccessInv, RowsFit, TeamMembersAreMembers, OrgKeepsAdmin, TeamHere, OrgHere
<1> QED
  BY <1>4, <1>5, <1>6 DEF AccessInv

\* Nobody who was a member ceases to be one, and an admin is kept.
LEMMA SetOrgMemberKeeps ==
    ASSUME AccessInv, NEW w \in Workers, SetOrgMember(w)
    PROVE  AccessInv'
<1> DEFINE q == asked[w]
<1>1. /\ q # Unset /\ q.op = "orgadd" /\ Returns(w)
      /\ UNCHANGED <<repo, grant, org, team, slipped, accessOps>>
      /\ member' = member
         \/ /\ q.role = "member" => wouldKeepAdmin(q.org, q.who)
            /\ member' = [member EXCEPT ![q.org][q.who] = q.role]
  BY DEF SetOrgMember
<1>2. q.org \in OrgIds /\ q.who \in Users /\ q.role \in {"member", "admin"}
  BY <1>1 DEF AccessInv, RequestsKnown, RequestFits
<1>3. member \in [OrgIds -> [Users -> {"none", "member", "admin"}]]
  BY DEF AccessInv, AccessShape, AccessTypeOK
<1>4. member' \in [OrgIds -> [Users -> {"none", "member", "admin"}]]
  BY <1>1, <1>2, <1>3
<1>5. /\ RequestsKnown' /\ asked' \in [Workers -> Request \cup {Unset}]
      /\ DaemonServesPublic' /\ OwnerExists'
  BY <1>1, RowsStay
<1>6. AccessShape'
  BY <1>1, <1>4, <1>5 DEF AccessInv, AccessShape, AccessTypeOK, TeamHere, OrgHere
<1>7. ASSUME NEW o \in OrgIds, NEW u \in Users
      PROVE  member[o][u] # "none" => member'[o][u] # "none"
  BY <1>1, <1>2, <1>3
<1>8. TeamMembersAreMembers'
  <2>1. \A t \in TeamIds : TeamOrg[t] \in OrgIds /\ team[t].users \subseteq Users
    BY AccessAssumption DEF AccessInv, AccessShape, AccessTypeOK, TeamRow
  <2> QED
    BY <1>1, <1>7, <2>1 DEF AccessInv, TeamMembersAreMembers
<1>9. OrgKeepsAdmin'
  <2> SUFFICES ASSUME NEW o \in OrgIds, org[o].is = "here"
               PROVE  \E u \in Users : member'[o][u] = "admin"
    BY <1>1 DEF OrgKeepsAdmin, OrgHere
  <2>1. PICK u \in Users : member[o][u] = "admin"
    BY DEF AccessInv, OrgKeepsAdmin, OrgHere
  <2>2. CASE member' = member
    BY <2>1, <2>2
  <2>3. CASE q.role = "admin" /\ member' = [member EXCEPT ![q.org][q.who] = q.role]
    <3>1. member'[o][u] = "admin"
      BY <1>2, <1>3, <2>1, <2>3
    <3> QED
      BY <3>1
  <2>4. CASE wouldKeepAdmin(q.org, q.who) /\ member' = [member EXCEPT ![q.org][q.who] = q.role]
    <3>1. PICK v \in Users \ {q.who} : member[q.org][v] = "admin"
      BY <2>4 DEF wouldKeepAdmin
    <3>2. member'[q.org][v] = "admin" /\ (o # q.org => member'[o][u] = "admin")
      BY <1>2, <1>3, <2>1, <2>4, <3>1
    <3> QED
      BY <3>2
  <2> QED
    BY <1>1, <1>2, <2>2, <2>3, <2>4
<1>10. RowsFit'
  BY <1>1 DEF AccessInv, RowsFit, TeamHere
<1> QED
  BY <1>5, <1>6, <1>8, <1>9, <1>10 DEF AccessInv

\* What plain members may do changes nothing that is ordered here.
LEMMA SetOrgMembersRoleKeeps ==
    ASSUME AccessInv, NEW w \in Workers, SetOrgMembersRole(w)
    PROVE  AccessInv'
<1> DEFINE q == asked[w]
<1>1. /\ q # Unset /\ q.op = "membersrole" /\ Returns(w)
      /\ UNCHANGED <<repo, grant, member, team, slipped, accessOps>>
      /\ org' = org \/ org' = [org EXCEPT ![q.org].role = q.role]
  BY DEF SetOrgMembersRole
<1>2. q.org \in OrgIds /\ q.role \in {"write", "read", "none"}
  BY <1>1 DEF AccessInv, RequestsKnown, RequestFits
<1>3. org \in [OrgIds -> [is: {"none", "here", "gone"}, role: {"write", "read", "none"}]]
  BY DEF AccessInv, AccessShape, AccessTypeOK
<1>4. /\ org' \in [OrgIds -> [is: {"none", "here", "gone"}, role: {"write", "read", "none"}]]
      /\ \A o \in OrgIds : org'[o].is = org[o].is
  BY <1>1, <1>2, <1>3
<1>5. /\ RequestsKnown' /\ asked' \in [Workers -> Request \cup {Unset}]
      /\ DaemonServesPublic' /\ OwnerExists'
      /\ \A r \in RepoIds : repo'[r].is = "none" => repo'[r].owner = Unset
      /\ \A r \in RepoIds : repo'[r].owner \in OrgIds => org'[repo'[r].owner].is # "none"
  BY <1>1, <1>4, RowsStay
<1>6. AccessShape'
  BY <1>1, <1>4, <1>5, AccessAssumption DEF AccessInv, AccessShape, AccessTypeOK, TeamHere, OrgHere
<1>7. RowsFit' /\ TeamMembersAreMembers' /\ OrgKeepsAdmin'
  BY <1>1, <1>4, <1>5 DEF AccessInv, RowsFit, TeamMembersAreMembers, OrgKeepsAdmin,
     TeamHere, OrgHere
<1> QED
  BY <1>5, <1>6, <1>7 DEF AccessInv

\* What a command on teams has to show.
LEMMA TeamRowsKeep ==
    ASSUME AccessInv, NEW w \in Workers, asked[w] # Unset,
           asked[w].op \in {"teamcreate", "teamdelete", "teamadd", "teamremove",
                            "teamgrant", "teamrevoke"},
           Returns(w), UNCHANGED <<repo, grant, org, member, accessOps>>,
           slipped \subseteq slipped',
           slipped' \subseteq Slips \X (TeamIds \cup RepoIds),
           team' \in [TeamIds -> TeamRow],
           \A t \in TeamIds : team'[t].is = "here" => TeamHere(t) \/ OrgHere(TeamOrg[t]),
           \A t \in TeamIds : team'[t].is # "here" => team'[t].users = {},
           \A t \in TeamIds : \A u \in team'[t].users :
              u \in team[t].users \/ OrgRole(TeamOrg[t], u) # "none"
              \/ <<"teamadd", t>> \in slipped'
    PROVE  AccessInv'
<1>1. /\ RequestsKnown' /\ asked' \in [Workers -> Request \cup {Unset}]
      /\ DaemonServesPublic' /\ OwnerExists'
      /\ \A r \in RepoIds : repo'[r].is = "none" => repo'[r].owner = Unset
      /\ \A r \in RepoIds : repo'[r].owner \in OrgIds => org'[repo'[r].owner].is # "none"
  BY RowsStay
<1>2. AccessShape'
  BY <1>1 DEF AccessInv, AccessShape, AccessTypeOK, TeamHere, OrgHere
<1>3. RowsFit' /\ OrgKeepsAdmin'
  BY <1>1 DEF AccessInv, RowsFit, OrgKeepsAdmin, TeamHere, OrgHere
<1>4. TeamMembersAreMembers'
  <2> SUFFICES ASSUME NEW t \in TeamIds, NEW u \in team'[t].users
               PROVE  member[TeamOrg[t]][u] # "none" \/ <<"teamadd", t>> \in slipped'
    BY DEF TeamMembersAreMembers
  <2>1. CASE u \in team[t].users
    BY <2>1 DEF AccessInv, TeamMembersAreMembers
  <2>2. CASE OrgRole(TeamOrg[t], u) # "none"
    BY <2>2 DEF OrgRole
  <2> QED
    BY <2>1, <2>2
<1> QED
  BY <1>1, <1>2, <1>3, <1>4 DEF AccessInv

\* The commands on a team write its row alone.
LEMMA TeamsKeep ==
    ASSUME AccessInv, NEW w \in Workers,
           \/ CreateTeam(w) \/ DeleteTeam(w) \/ AddTeamMember(w)
           \/ RemoveTeamMember(w) \/ GrantTeamRepo(w) \/ RevokeTeamRepo(w)
    PROVE  AccessInv'
<1> DEFINE q == asked[w]
<1>1. /\ q # Unset /\ Returns(w) /\ UNCHANGED <<repo, grant, org, member, accessOps>>
      /\ q.op \in {"teamcreate", "teamdelete", "teamadd", "teamremove", "teamgrant",
                   "teamrevoke"}
      /\ q.op # "teamadd" => slipped' = slipped
  BY DEF CreateTeam, DeleteTeam, AddTeamMember, RemoveTeamMember, GrantTeamRepo,
     RevokeTeamRepo
<1>2. RequestFits(q)
  BY <1>1 DEF AccessInv, RequestsKnown
<1>3. q.team \in TeamIds
  BY <1>1, <1>2 DEF RequestFits
<1>4. /\ team \in [TeamIds -> TeamRow] /\ slipped \subseteq Slips \X (TeamIds \cup RepoIds)
      /\ \A t \in TeamIds : team[t].is # "here" => team[t].users = {}
  BY DEF AccessInv, AccessShape, AccessTypeOK, RowsFit, TeamHere
<1>5. /\ team[q.team].is \in {"none", "here", "gone"} /\ team[q.team].users \subseteq Users
      /\ team[q.team].roles \in [RepoIds -> Roles]
      /\ team[q.team] = [is |-> team[q.team].is, users |-> team[q.team].users,
                         roles |-> team[q.team].roles]
  BY <1>3, <1>4 DEF TeamRow
<1>6. CASE CreateTeam(w)
  <2>1. /\ slipped' = slipped
        /\ team' = team
           \/ /\ team[q.team].is = "none" /\ OrgHere(TeamOrg[q.team])
              /\ team' = [team EXCEPT ![q.team].is = "here"]
    BY <1>6 DEF CreateTeam
  <2>2. CASE team' = team
    BY <1>1, <1>4, <2>1, <2>2, TeamRowsKeep DEF TeamHere
  <2>3. CASE team[q.team].is = "none" /\ OrgHere(TeamOrg[q.team])
             /\ team' = [team EXCEPT ![q.team].is = "here"]
    <3>0. [team[q.team] EXCEPT !.is = "here"]
             = [is |-> "here", users |-> team[q.team].users, roles |-> team[q.team].roles]
      BY <1>5
    <3>1. team' \in [TeamIds -> TeamRow]
      <4>1. [team[q.team] EXCEPT !.is = "here"] \in TeamRow
        BY <1>5, <3>0 DEF TeamRow
      <4> QED
        BY <1>3, <1>4, <2>3, <4>1
    <3>2. /\ \A t \in TeamIds : team'[t].users = team[t].users
          /\ \A t \in TeamIds : t # q.team => team'[t] = team[t]
          /\ team'[q.team].is = "here"
      BY <1>3, <1>4, <2>3
    <3>3. /\ \A t \in TeamIds : team'[t].is = "here" => TeamHere(t) \/ OrgHere(TeamOrg[t])
          /\ \A t \in TeamIds : team'[t].is # "here" => team'[t].users = {}
          /\ \A t \in TeamIds : \A u \in team'[t].users : u \in team[t].users
      BY <1>4, <2>3, <3>2 DEF TeamHere
    <3> QED
      BY <1>1, <1>4, <2>1, <3>1, <3>3, TeamRowsKeep
  <2> QED
    BY <2>1, <2>2, <2>3
<1>7. CASE DeleteTeam(w)
  <2>1. team' = [team EXCEPT ![q.team] = GoneTeam] /\ slipped' = slipped
    BY <1>7 DEF DeleteTeam
  <2>2. GoneTeam = [is |-> "gone", users |-> {}, roles |-> [r \in RepoIds |-> "none"]]
    BY DEF GoneTeam, NoTeam
  <2>3. GoneTeam \in TeamRow /\ GoneTeam.is = "gone" /\ GoneTeam.users = {}
    BY <2>2 DEF TeamRow, Roles
  <2>4. /\ team' \in [TeamIds -> TeamRow] /\ team'[q.team] = GoneTeam
        /\ \A t \in TeamIds : t # q.team => team'[t] = team[t]
    BY <1>3, <1>4, <2>1, <2>3
  <2> QED
    BY <1>1, <1>4, <2>1, <2>3, <2>4, TeamRowsKeep DEF TeamHere
<1>8. CASE AddTeamMember(w)
  <2>1. q.op = "teamadd"
    BY <1>8 DEF AddTeamMember
  <2>2. q.who \in Users
    BY <1>2, <2>1 DEF RequestFits
  <2>3. CASE TeamHere(q.team)
    <3>1. /\ team' = [team EXCEPT ![q.team].users = @ \cup {q.who}]
          /\ \/ OrgRole(TeamOrg[q.team], q.who) # "none" /\ slipped' = slipped
             \/ slipped' = slipped \cup {<<"teamadd", q.team>>}
      BY <1>8, <2>3 DEF AddTeamMember
    <3>2. team' \in [TeamIds -> TeamRow]
      BY <1>3, <1>4, <2>2, <3>1 DEF TeamRow
    <3>3. /\ \A t \in TeamIds : t # q.team => team'[t] = team[t]
          /\ team'[q.team].is = "here" /\ team'[q.team].users = team[q.team].users \cup {q.who}
      BY <1>3, <1>4, <2>3, <3>1 DEF TeamHere
    <3>4. /\ slipped \subseteq slipped' /\ slipped' \subseteq Slips \X (TeamIds \cup RepoIds)
      BY <1>3, <1>4, <3>1 DEF Slips
    <3>5. \A t \in TeamIds : \A u \in team'[t].users :
              u \in team[t].users \/ OrgRole(TeamOrg[t], u) # "none"
              \/ <<"teamadd", t>> \in slipped'
      BY <3>1, <3>3
    <3>6. /\ \A t \in TeamIds : team'[t].is = "here" => TeamHere(t)
          /\ \A t \in TeamIds : team'[t].is # "here" => team'[t].users = {}
      BY <1>4, <2>3, <3>3 DEF TeamHere
    <3> QED
      BY <1>1, <3>2, <3>4, <3>5, <3>6, TeamRowsKeep
  <2>4. CASE ~TeamHere(q.team)
    <3>1. UNCHANGED <<team, slipped>>
      BY <1>8, <2>4 DEF AddTeamMember
    <3> QED
      BY <1>1, <1>4, <3>1, TeamRowsKeep DEF TeamHere
  <2> QED
    BY <2>3, <2>4
<1>9. CASE RemoveTeamMember(w)
  <2>1. team' = [team EXCEPT ![q.team].users = @ \ {q.who}] /\ slipped' = slipped
    BY <1>9 DEF RemoveTeamMember
  <2>2. team' \in [TeamIds -> TeamRow]
    BY <1>3, <1>4, <2>1 DEF TeamRow
  <2>3. \A t \in TeamIds : team'[t].is = team[t].is /\ team'[t].users \subseteq team[t].users
    BY <1>3, <1>4, <2>1
  <2> QED
    BY <1>1, <1>4, <2>1, <2>2, <2>3, TeamRowsKeep DEF TeamHere
<1>10. CASE GrantTeamRepo(w) \/ RevokeTeamRepo(w)
  <2>1. /\ slipped' = slipped
        /\ q.repo \in RepoIds /\ (q.op = "teamgrant" => q.role \in Given)
    BY <1>2, <1>10 DEF GrantTeamRepo, RevokeTeamRepo, RequestFits
  <2>2. PICK role \in Roles : \/ team' = team
                              \/ team' = [team EXCEPT ![q.team].roles[q.repo] = role]
    BY <1>10, <2>1 DEF GrantTeamRepo, RevokeTeamRepo, Roles, Given
  <2>3. CASE team' = team
    BY <1>1, <1>4, <2>1, <2>3, TeamRowsKeep DEF TeamHere
  <2>4. CASE team' = [team EXCEPT ![q.team].roles[q.repo] = role]
    <3>1. [team[q.team].roles EXCEPT ![q.repo] = role] \in [RepoIds -> Roles]
      BY <1>5, <2>1, <2>2
    <3>2. team' \in [TeamIds -> TeamRow]
      <4> DEFINE row == [team[q.team] EXCEPT !.roles[q.repo] = role]
      <4>1. row = [is |-> team[q.team].is, users |-> team[q.team].users,
                   roles |-> [team[q.team].roles EXCEPT ![q.repo] = role]]
        BY <1>5
      <4>2. row \in TeamRow
        BY <1>5, <3>1, <4>1 DEF TeamRow
      <4>3. team' = [team EXCEPT ![q.team] = row]
        BY <2>4
      <4> HIDE DEF row
      <4> QED
        BY <1>3, <1>4, <4>2, <4>3
    <3>3. \A t \in TeamIds : team'[t].is = team[t].is /\ team'[t].users = team[t].users
      BY <1>3, <1>4, <2>4
    <3>4. /\ \A t \in TeamIds : team'[t].is = "here" => TeamHere(t)
          /\ \A t \in TeamIds : team'[t].is # "here" => team'[t].users = {}
          /\ \A t \in TeamIds : \A u \in team'[t].users : u \in team[t].users
      BY <1>4, <3>3 DEF TeamHere
    <3> QED
      BY <1>1, <1>4, <2>1, <3>2, <3>4, TeamRowsKeep
  <2> QED
    BY <2>2, <2>3, <2>4
<1> QED
  BY <1>6, <1>7, <1>8, <1>9, <1>10

\* The member who leaves is taken from the teams in the same transaction.
LEMMA RemoveOrgMemberKeeps ==
    ASSUME AccessInv, NEW w \in Workers, RemoveOrgMember(w)
    PROVE  AccessInv'
<1> DEFINE q == asked[w]
<1>1. /\ q # Unset /\ q.op = "orgremove" /\ Returns(w)
      /\ UNCHANGED <<repo, grant, org, slipped, accessOps>>
      /\ \/ member' = member /\ team' = team
         \/ /\ wouldKeepAdmin(q.org, q.who)
            /\ member' = [member EXCEPT ![q.org][q.who] = "none"]
            /\ team' = WithoutMember(q.org, q.who)
  BY DEF RemoveOrgMember
<1>2. q.org \in OrgIds /\ q.who \in Users
  BY <1>1 DEF AccessInv, RequestsKnown, RequestFits
<1>3. /\ member \in [OrgIds -> [Users -> {"none", "member", "admin"}]]
      /\ team \in [TeamIds -> TeamRow]
      /\ \A t \in TeamIds : TeamOrg[t] \in OrgIds /\ team[t].users \subseteq Users
  BY AccessAssumption DEF AccessInv, AccessShape, AccessTypeOK, TeamRow
<1>4. /\ RequestsKnown' /\ asked' \in [Workers -> Request \cup {Unset}]
      /\ DaemonServesPublic' /\ OwnerExists'
      /\ \A r \in RepoIds : repo'[r].is = "none" => repo'[r].owner = Unset
      /\ \A r \in RepoIds : repo'[r].owner \in OrgIds => org'[repo'[r].owner].is # "none"
  BY <1>1, RowsStay
<1>5. CASE member' = member /\ team' = team
  <2>1. AccessShape'
    BY <1>1, <1>4, <1>5 DEF AccessInv, AccessShape, AccessTypeOK, TeamHere, OrgHere
  <2>2. RowsFit' /\ TeamMembersAreMembers' /\ OrgKeepsAdmin'
    BY <1>1, <1>4, <1>5 DEF AccessInv, RowsFit, TeamMembersAreMembers, OrgKeepsAdmin,
       TeamHere, OrgHere
  <2> QED
    BY <1>4, <2>1, <2>2 DEF AccessInv
<1>6. CASE /\ wouldKeepAdmin(q.org, q.who)
           /\ member' = [member EXCEPT ![q.org][q.who] = "none"]
           /\ team' = WithoutMember(q.org, q.who)
  <2>1. member' \in [OrgIds -> [Users -> {"none", "member", "admin"}]]
    BY <1>2, <1>3, <1>6
  <2>2. ASSUME NEW t \in TeamIds
        PROVE  /\ team'[t] \in TeamRow /\ team'[t].is = team[t].is
               /\ team'[t].users
                    = IF TeamOrg[t] = q.org THEN team[t].users \ {q.who} ELSE team[t].users
    BY <1>3, <1>6 DEF WithoutMember, TeamRow
  <2>3. team' \in [TeamIds -> TeamRow]
    BY <1>6, <2>2 DEF WithoutMember
  <2>4. AccessShape'
    <3>1. \A t \in TeamIds : TeamHere(t)' => OrgHere(TeamOrg[t])'
      BY <1>1, <2>2 DEF AccessInv, AccessShape, AccessTypeOK, TeamHere, OrgHere
    <3> QED
      BY <1>1, <1>4, <2>1, <2>3, <3>1 DEF AccessInv, AccessShape, AccessTypeOK
  <2>5. RowsFit'
    BY <1>4, <2>2 DEF AccessInv, RowsFit, TeamHere
  <2>6. TeamMembersAreMembers'
    <3> SUFFICES ASSUME NEW t \in TeamIds, NEW u \in team'[t].users,
                        <<"teamadd", t>> \notin slipped'
                 PROVE  member'[TeamOrg[t]][u] # "none"
      BY DEF TeamMembersAreMembers
    <3>1. u \in team[t].users /\ (TeamOrg[t] = q.org => u # q.who)
      BY <2>2
    <3>2. member[TeamOrg[t]][u] # "none"
      BY <1>1, <3>1 DEF AccessInv, TeamMembersAreMembers
    <3>3. TeamOrg[t] \in OrgIds /\ u \in Users /\ member[TeamOrg[t]] \in [Users -> {"none", "member", "admin"}]
      BY <1>3, <3>1
    <3>4. CASE TeamOrg[t] = q.org
      <4>1. member'[q.org] = [member[q.org] EXCEPT ![q.who] = "none"]
        BY <1>2, <1>3, <1>6
      <4> QED
        BY <3>1, <3>2, <3>3, <3>4, <4>1
    <3>5. CASE TeamOrg[t] # q.org
      <4>1. member'[TeamOrg[t]] = member[TeamOrg[t]]
        BY <1>3, <1>6, <3>3, <3>5
      <4> QED
        BY <3>2, <4>1
    <3> QED
      BY <3>4, <3>5
  <2>7. OrgKeepsAdmin'
    <3> SUFFICES ASSUME NEW o \in OrgIds, org[o].is = "here"
                 PROVE  \E u \in Users : member'[o][u] = "admin"
      BY <1>1 DEF OrgKeepsAdmin, OrgHere
    <3>1. PICK u \in Users : member[o][u] = "admin"
      BY DEF AccessInv, OrgKeepsAdmin, OrgHere
    <3>2. PICK v \in Users \ {q.who} : member[q.org][v] = "admin"
      BY <1>6 DEF wouldKeepAdmin
    <3>3. member'[q.org][v] = "admin" /\ (o # q.org => member'[o][u] = "admin")
      BY <1>2, <1>3, <1>6, <3>1, <3>2
    <3> QED
      BY <3>3
  <2> QED
    BY <1>4, <2>4, <2>5, <2>6, <2>7 DEF AccessInv
<1> QED
  BY <1>1, <1>5, <1>6

-----------------------------------------------------------------------------
(* Writing: repositories *)

\* One row of repos rewritten, a field of it at a time.
LEMMA RepoRowWritten ==
    ASSUME repo \in [RepoIds -> RepoRow], NEW r \in RepoIds, NEW row \in RepoRow,
           repo' = [repo EXCEPT ![r] = row]
    PROVE  /\ repo' \in [RepoIds -> RepoRow] /\ repo'[r] = row
           /\ \A s \in RepoIds : s # r => repo'[s] = repo[s]
OBVIOUS

\* The visibility rewritten,
LEMMA PublicSet ==
    ASSUME NEW old \in RepoRow, NEW b \in BOOLEAN, NEW row, row = [old EXCEPT !.public = b]
    PROVE  /\ row \in RepoRow /\ row.is = old.is /\ row.owner = old.owner
           /\ row.public = b /\ row.daemon = old.daemon
BY DEF RepoRow

\* the git:// switch,
LEMMA DaemonSet ==
    ASSUME NEW old \in RepoRow, NEW b \in BOOLEAN, NEW row, row = [old EXCEPT !.daemon = b]
    PROVE  /\ row \in RepoRow /\ row.is = old.is /\ row.owner = old.owner
           /\ row.public = old.public /\ row.daemon = b
BY DEF RepoRow

\* the archive mark,
LEMMA ArchivedSet ==
    ASSUME NEW old \in RepoRow, NEW b \in BOOLEAN, NEW row, row = [old EXCEPT !.archived = b]
    PROVE  /\ row \in RepoRow /\ row.is = old.is /\ row.owner = old.owner
           /\ row.public = old.public /\ row.daemon = old.daemon
BY DEF RepoRow

\* and the owner.
LEMMA OwnerSet ==
    ASSUME NEW old \in RepoRow, NEW who \in Users \cup OrgIds, NEW row,
           row = [old EXCEPT !.owner = who]
    PROVE  /\ row \in RepoRow /\ row.is = old.is /\ row.owner = who
           /\ row.public = old.public /\ row.daemon = old.daemon
BY DEF RepoRow

\* What a command on a repository has to show.
LEMMA RepoRowKeeps ==
    ASSUME AccessInv, NEW w \in Workers, asked[w] # Unset,
           NEW q, asked' = [asked EXCEPT ![w] = q],
           q # Unset => RequestFits(q) /\ RequestCleared(q) /\ RequestStands(q, repo', org'),
           UNCHANGED <<grant, org, member, team, accessOps>>,
           slipped \subseteq slipped',
           slipped' \subseteq Slips \X (TeamIds \cup RepoIds),
           NEW m \in RepoIds, m = asked[w].repo,
           NEW row \in RepoRow, repo' = [repo EXCEPT ![m] = row],
           repo[m].is = "here" => row.is = "here",
           row.is = "none" => row.owner = Unset,
           row.owner \in OrgIds => org[row.owner].is # "none",
           row.is = "here" /\ row.owner \in OrgIds /\ ~ OrgHere(row.owner)
             => <<"owner", m>> \in slipped',
           row.daemon /\ ~ row.public =>
             \/ <<"daemon", m>> \in slipped'
             \/ repo[m].daemon /\ ~ repo[m].public /\ asked[w].at # "second"
             \/ q # Unset /\ q.repo = m /\ q.at = "second"
    PROVE  AccessInv'
<1>a. /\ repo' \in [RepoIds -> RepoRow] /\ repo'[m] = row
      /\ \A s \in RepoIds : s # m => repo'[s] = repo[s]
  BY RepoRowWritten DEF AccessInv, AccessShape, AccessTypeOK
<1>0. \A r \in RepoIds : repo[r].is = "here" => repo'[r].is = "here"
  BY <1>a
<1>1. /\ RequestsKnown' /\ asked' \in [Workers -> Request \cup {Unset}] /\ asked'[w] = q
      /\ \A v \in Workers : v # w => asked'[v] = asked[v]
  BY <1>0, CommandsGoOn
<1>2. AccessShape'
  BY <1>a, <1>1 DEF AccessInv, AccessShape, AccessTypeOK, TeamHere, OrgHere
<1>3. RowsFit'
  BY <1>a DEF AccessInv, RowsFit, TeamHere
<1>4. TeamMembersAreMembers' /\ OrgKeepsAdmin'
  BY DEF AccessInv, TeamMembersAreMembers, OrgKeepsAdmin, OrgHere
<1>5. DaemonServesPublic'
  <2> SUFFICES ASSUME NEW r \in RepoIds, repo'[r].daemon, ~ repo'[r].public
               PROVE  \/ <<"daemon", r>> \in slipped'
                      \/ \E v \in Workers : /\ asked'[v] # Unset /\ asked'[v].repo = r
                                            /\ asked'[v].at = "second"
    BY DEF DaemonServesPublic
  <2>1. CASE r # m
    BY <1>a, <1>1, <2>1, SwitchAccountedFor
  <2>2. CASE r = m /\ repo[m].daemon /\ ~ repo[m].public /\ asked[w].at # "second"
    BY <1>1, <2>2, SwitchAccountedFor
  <2>3. CASE r = m /\ q # Unset /\ q.repo = m /\ q.at = "second"
    BY <1>1, <2>3
  <2> QED
    BY <1>a, <2>1, <2>2, <2>3
<1>6. OwnerExists'
  <2> SUFFICES ASSUME NEW r \in RepoIds, repo'[r].is = "here",
                      repo'[r].owner \in OrgIds, ~ OrgHere(repo'[r].owner)
               PROVE  <<"owner", r>> \in slipped'
    BY DEF OwnerExists, Found, OrgHere
  <2>1. CASE r # m
    BY <1>a, <2>1 DEF AccessInv, OwnerExists, Found, OrgHere
  <2> QED
    BY <1>a, <2>1
<1> QED
  BY <1>1, <1>2, <1>3, <1>4, <1>5, <1>6 DEF AccessInv

\* The commands on a repository write its row alone.
LEMMA ReposKeep ==
    ASSUME AccessInv, NEW w \in Workers,
           \/ SetRepoVisibility(w) \/ setRepoVisibility(w) \/ SetGitDaemon(w)
           \/ archiveRepo(w) \/ TransferRepo(w) \/ CreateRepoRow(w)
    PROVE  AccessInv'
<1> DEFINE q == asked[w]
           m == q.repo
           old == repo[m]
<1>1. /\ q # Unset /\ UNCHANGED <<grant, org, member, team, accessOps>>
      /\ q.op \in {"visibility", "gitdaemon", "archive", "transfer", "create"}
  BY DEF SetRepoVisibility, setRepoVisibility, SetGitDaemon, archiveRepo, TransferRepo,
     CreateRepoRow
<1>2. RequestFits(q) /\ RequestCleared(q) /\ RequestStands(q, repo, org)
  BY <1>1 DEF AccessInv, RequestsKnown
<1>3. m \in RepoIds /\ q \in Request
  BY <1>1, <1>2 DEF RequestFits
<1>4. /\ repo \in [RepoIds -> RepoRow] /\ slipped \subseteq Slips \X (TeamIds \cup RepoIds)
      /\ old \in RepoRow /\ old.is \in {"none", "here"}
  BY <1>3 DEF AccessInv, AccessShape, AccessTypeOK, RepoRow
<1>5. /\ <<"daemon", m>> \in Slips \X (TeamIds \cup RepoIds)
      /\ <<"owner", m>> \in Slips \X (TeamIds \cup RepoIds)
  BY <1>3 DEF Slips
<1>6. ASSUME NEW row \in RepoRow, row.is = old.is, row.owner = old.owner,
             slipped \subseteq slipped'
      PROVE  /\ old.is = "here" => row.is = "here"
             /\ row.is = "none" => row.owner = Unset
             /\ row.owner \in OrgIds => org[row.owner].is # "none"
             /\ row.is = "here" /\ row.owner \in OrgIds /\ ~ OrgHere(row.owner)
                  => <<"owner", m>> \in slipped'
  BY <1>3, <1>6 DEF AccessInv, RowsFit, OwnerExists, Found
<1>7. CASE SetRepoVisibility(w)
  <2>1. PICK on \in BOOLEAN :
          /\ on <=> q.role = "on"
          /\ repo' = [repo EXCEPT ![m] = [old EXCEPT !.public = on]]
    BY <1>7 DEF SetRepoVisibility
  <2> DEFINE row == [old EXCEPT !.public = on]
  <2>2. /\ row \in RepoRow /\ row.is = old.is /\ row.owner = old.owner
        /\ row.public = on /\ row.daemon = old.daemon
    BY <1>4, PublicSet
  <2>3. repo' = [repo EXCEPT ![m] = row]
    BY <2>1
  <2> HIDE DEF row
  <2>4. /\ q.op = "visibility" /\ q.at = "write"
        /\ \/ slipped' = slipped \cup {<<"daemon", m>>}
           \/ slipped' = slipped /\ (q.role # "off" \/ ~ old.daemon \/ q.saw)
        /\ \/ q.role = "off" /\ q.saw /\ asked' = [asked EXCEPT ![w].at = "second"]
           \/ ~ (q.role = "off" /\ q.saw) /\ asked' = [asked EXCEPT ![w] = Unset]
    BY <1>7 DEF SetRepoVisibility, ClearsDaemon, Returns
  <2>5. slipped \subseteq slipped' /\ slipped' \subseteq Slips \X (TeamIds \cup RepoIds)
    BY <1>4, <1>5, <2>4
  <2>6. /\ old.is = "here" => row.is = "here"
        /\ row.is = "none" => row.owner = Unset
        /\ row.owner \in OrgIds => org[row.owner].is # "none"
        /\ row.is = "here" /\ row.owner \in OrgIds /\ ~ OrgHere(row.owner)
             => <<"owner", m>> \in slipped'
    BY <1>6, <2>2, <2>5
  <2>7. CASE q.role = "off" /\ q.saw /\ asked' = [asked EXCEPT ![w].at = "second"]
    <3> DEFINE p == [q EXCEPT !.at = "second"]
    <3>1. p \in Request /\ p.repo = q.repo /\ p.at = "second"
      BY <1>3 DEF Request
    <3>2. /\ p.op = q.op /\ p.by = q.by /\ p.org = q.org /\ p.team = q.team
          /\ p.who = q.who /\ p.role = q.role /\ p.clear = q.clear
      BY <1>3 DEF Request
    <3>3. asked' = [asked EXCEPT ![w] = p]
      BY <2>7
    <3> HIDE DEF p
    <3>4. RequestFits(p) /\ RequestCleared(p) /\ RequestStands(p, repo', org')
      BY <1>3, <1>2, <2>4, <3>1, <3>2 DEF RequestFits, RequestCleared, RequestStands
    <3>5. p # Unset /\ p.repo = m
      BY <3>1, RequestAssumption
    <3> QED
      BY <1>1, <1>3, <2>2, <2>3, <2>5, <2>6, <3>1, <3>3, <3>4, <3>5, RepoRowKeeps
  <2>8. CASE ~ (q.role = "off" /\ q.saw) /\ asked' = [asked EXCEPT ![w] = Unset]
    <3>1. q.role \in {"on", "off"}
      BY <1>2, <2>4 DEF RequestFits
    <3>2. row.daemon /\ ~ row.public => <<"daemon", m>> \in slipped'
      BY <2>1, <2>2, <2>4, <2>8, <3>1
    <3> QED
      BY <1>1, <1>3, <2>2, <2>3, <2>5, <2>6, <2>8, <3>2, RepoRowKeeps
  <2> QED
    BY <2>4, <2>7, <2>8
<1>8. CASE setRepoVisibility(w)
  <2>0. PICK off \in BOOLEAN : off = FALSE
    OBVIOUS
  <2> DEFINE row == [old EXCEPT !.daemon = off]
  <2>1. /\ repo' = [repo EXCEPT ![m] = row] /\ slipped' = slipped
        /\ asked' = [asked EXCEPT ![w] = Unset]
    BY <1>8, <2>0 DEF setRepoVisibility, Returns
  <2>2. /\ row \in RepoRow /\ row.is = old.is /\ row.owner = old.owner /\ row.daemon = off
    BY <1>4, DaemonSet
  <2> HIDE DEF row
  <2>3. /\ old.is = "here" => row.is = "here"
        /\ row.is = "none" => row.owner = Unset
        /\ row.owner \in OrgIds => org[row.owner].is # "none"
        /\ row.is = "here" /\ row.owner \in OrgIds /\ ~ OrgHere(row.owner)
             => <<"owner", m>> \in slipped'
    BY <1>6, <2>1, <2>2
  <2> QED
    BY <1>1, <1>3, <1>4, <2>0, <2>1, <2>2, <2>3, RepoRowKeeps
<1>9. CASE SetGitDaemon(w)
  <2>1. PICK on \in BOOLEAN :
          /\ on <=> q.role = "on"
          /\ repo' = [repo EXCEPT ![m] = [old EXCEPT !.daemon = on]]
    BY <1>9 DEF SetGitDaemon
  <2> DEFINE row == [old EXCEPT !.daemon = on]
  <2>2. /\ row \in RepoRow /\ row.is = old.is /\ row.owner = old.owner
        /\ row.public = old.public /\ row.daemon = on
    BY <1>4, DaemonSet
  <2>3. repo' = [repo EXCEPT ![m] = row]
    BY <2>1
  <2> HIDE DEF row
  <2>4. /\ asked' = [asked EXCEPT ![w] = Unset]
        /\ \/ slipped' = slipped \cup {<<"daemon", m>>}
           \/ slipped' = slipped /\ (q.role # "on" \/ old.public)
    BY <1>9 DEF SetGitDaemon, Returns
  <2>5. slipped \subseteq slipped' /\ slipped' \subseteq Slips \X (TeamIds \cup RepoIds)
    BY <1>4, <1>5, <2>4
  <2>6. /\ old.is = "here" => row.is = "here"
        /\ row.is = "none" => row.owner = Unset
        /\ row.owner \in OrgIds => org[row.owner].is # "none"
        /\ row.is = "here" /\ row.owner \in OrgIds /\ ~ OrgHere(row.owner)
             => <<"owner", m>> \in slipped'
    BY <1>6, <2>2, <2>5
  <2>7. row.daemon /\ ~ row.public => <<"daemon", m>> \in slipped'
    BY <2>1, <2>2, <2>4
  <2> QED
    BY <1>1, <1>3, <2>2, <2>3, <2>4, <2>5, <2>6, <2>7, RepoRowKeeps
<1>10. CASE archiveRepo(w)
  <2>1. PICK on \in BOOLEAN : repo' = [repo EXCEPT ![m] = [old EXCEPT !.archived = on]]
    BY <1>10 DEF archiveRepo
  <2> DEFINE row == [old EXCEPT !.archived = on]
  <2>2. /\ row \in RepoRow /\ row.is = old.is /\ row.owner = old.owner
        /\ row.public = old.public /\ row.daemon = old.daemon
    BY <1>4, ArchivedSet
  <2>3. repo' = [repo EXCEPT ![m] = row]
    BY <2>1
  <2> HIDE DEF row
  <2>4. q.op = "archive" /\ asked' = [asked EXCEPT ![w] = Unset] /\ slipped' = slipped
    BY <1>10 DEF archiveRepo, Returns
  <2>5. q.at # "second"
    BY <1>2, <2>4 DEF RequestFits
  <2>6. /\ old.is = "here" => row.is = "here"
        /\ row.is = "none" => row.owner = Unset
        /\ row.owner \in OrgIds => org[row.owner].is # "none"
        /\ row.is = "here" /\ row.owner \in OrgIds /\ ~ OrgHere(row.owner)
             => <<"owner", m>> \in slipped'
    BY <1>6, <2>2, <2>4
  <2> QED
    BY <1>1, <1>3, <1>4, <2>2, <2>3, <2>4, <2>5, <2>6, RepoRowKeeps
<1>11. CASE TransferRepo(w)
  <2> DEFINE row == [old EXCEPT !.owner = q.who]
  <2>1. /\ q.op = "transfer" /\ repo' = [repo EXCEPT ![m] = row]
        /\ asked' = [asked EXCEPT ![w] = Unset]
        /\ slipped' = IF q.who \in OrgIds /\ ~ OrgHere(q.who)
                      THEN slipped \cup {<<"owner", m>>} ELSE slipped
    BY <1>11 DEF TransferRepo, Settles, Returns
  <2>2. q.who \in Users \cup OrgIds /\ q.at # "second"
    BY <1>2, <2>1 DEF RequestFits
  <2>3. /\ row \in RepoRow /\ row.is = old.is /\ row.owner = q.who
        /\ row.public = old.public /\ row.daemon = old.daemon
    BY <1>4, <2>2, OwnerSet
  <2>4. old.is = "here" /\ (q.who \in OrgIds => org[q.who].is # "none")
    BY <1>2, <2>1 DEF RequestStands
  <2> HIDE DEF row
  <2>5. slipped \subseteq slipped' /\ slipped' \subseteq Slips \X (TeamIds \cup RepoIds)
    BY <1>4, <1>5, <2>1
  <2>6. /\ old.is = "here" => row.is = "here"
        /\ row.is = "none" => row.owner = Unset
        /\ row.owner \in OrgIds => org[row.owner].is # "none"
        /\ row.is = "here" /\ row.owner \in OrgIds /\ ~ OrgHere(row.owner)
             => <<"owner", m>> \in slipped'
    BY <2>1, <2>3, <2>4
  <2> QED
    BY <1>1, <1>3, <2>1, <2>2, <2>3, <2>5, <2>6, RepoRowKeeps
<1>12. CASE CreateRepoRow(w)
  <2>1. q.op = "create" /\ asked' = [asked EXCEPT ![w] = Unset]
    BY <1>12 DEF CreateRepoRow, Returns
  <2>2. q.who \in Users \cup OrgIds /\ q.at # "second"
    BY <1>2, <2>1 DEF RequestFits
  <2>3. q.who \in OrgIds => org[q.who].is # "none"
    BY <1>2, <2>1 DEF RequestStands
  <2>4. CASE old.is = "none"
    <3>1. PICK on \in BOOLEAN :
            repo' = [repo EXCEPT ![m] = [NoRow EXCEPT !.is = "here", !.owner = q.who,
                                                      !.public = on]]
      BY <1>12, <2>4 DEF CreateRepoRow
    <3> DEFINE row == [NoRow EXCEPT !.is = "here", !.owner = q.who, !.public = on]
    <3>2. /\ row \in RepoRow /\ row.is = "here" /\ row.owner = q.who /\ row.daemon = FALSE
      <4>1. \A who \in Users \cup OrgIds : \A b \in BOOLEAN :
              LET made == [NoRow EXCEPT !.is = "here", !.owner = who, !.public = b]
              IN  /\ made \in RepoRow /\ made.is = "here" /\ made.owner = who
                  /\ made.daemon = FALSE
        BY DEF RepoRow, NoRow
      <4> QED
        BY <2>2, <4>1
    <3>3. repo' = [repo EXCEPT ![m] = row]
      BY <3>1
    <3> HIDE DEF row
    <3>4. slipped' = IF q.who \in OrgIds /\ ~ OrgHere(q.who)
                     THEN slipped \cup {<<"owner", m>>} ELSE slipped
      BY <1>12, <2>4 DEF CreateRepoRow, Settles
    <3>5. slipped \subseteq slipped' /\ slipped' \subseteq Slips \X (TeamIds \cup RepoIds)
      BY <1>4, <1>5, <3>4
    <3>6. /\ row.owner \in OrgIds => org[row.owner].is # "none"
          /\ row.owner \in OrgIds /\ ~ OrgHere(row.owner) => <<"owner", m>> \in slipped'
      BY <2>3, <3>2, <3>4
    <3> QED
      BY <1>1, <1>3, <2>1, <3>2, <3>3, <3>5, <3>6, RepoRowKeeps
  <2>5. CASE old.is # "none"
    <3>1. repo' = [repo EXCEPT ![m] = old] /\ slipped' = slipped
      BY <1>3, <1>4, <1>12, <2>5 DEF CreateRepoRow
    <3>2. /\ old.is = "none" => old.owner = Unset
          /\ old.owner \in OrgIds => org[old.owner].is # "none"
          /\ old.is = "here" /\ old.owner \in OrgIds /\ ~ OrgHere(old.owner)
               => <<"owner", m>> \in slipped'
      BY <1>4, <1>6, <3>1
    <3> QED
      BY <1>1, <1>3, <1>4, <2>1, <2>2, <3>1, <3>2, RepoRowKeeps
  <2> QED
    BY <2>4, <2>5
<1> QED
  BY <1>7, <1>8, <1>9, <1>10, <1>11, <1>12

-----------------------------------------------------------------------------
(* Writing: organizations *)

\* An organization that is made has its creator as admin, and no repository
\* or team of it is there before it.
LEMMA CreateOrgKeeps ==
    ASSUME AccessInv, NEW w \in Workers, CreateOrg(w)
    PROVE  AccessInv'
<1> DEFINE q == asked[w]
           o == q.org
<1>1. /\ q # Unset /\ q.op = "orgcreate" /\ asked' = [asked EXCEPT ![w] = Unset]
      /\ UNCHANGED <<repo, grant, team, slipped, accessOps>>
      /\ \/ UNCHANGED <<org, member>>
         \/ /\ org[o].is = "none"
            /\ org' = [org EXCEPT ![o] = [is |-> "here", role |-> "write"]]
            /\ member' = [member EXCEPT ![o] =
                            [u \in Users |-> IF u = q.by THEN "admin" ELSE "none"]]
  BY DEF CreateOrg, Returns
<1>2. RequestFits(q)
  BY <1>1 DEF AccessInv, RequestsKnown
<1>3. o \in OrgIds /\ q.by \in Users /\ q.at # "second"
  BY <1>1, <1>2 DEF RequestFits
<1>4. /\ org \in [OrgIds -> [is: {"none", "here", "gone"}, role: {"write", "read", "none"}]]
      /\ member \in [OrgIds -> [Users -> {"none", "member", "admin"}]]
  BY DEF AccessInv, AccessShape, AccessTypeOK
<1>5. CASE UNCHANGED <<org, member>>
  <2>1. /\ RequestsKnown' /\ asked' \in [Workers -> Request \cup {Unset}]
        /\ DaemonServesPublic' /\ OwnerExists'
    BY <1>1, <1>5, RowsStay DEF Returns
  <2>2. AccessShape'
    BY <1>1, <1>5, <2>1 DEF AccessInv, AccessShape, AccessTypeOK, TeamHere, OrgHere
  <2>3. RowsFit' /\ TeamMembersAreMembers' /\ OrgKeepsAdmin'
    BY <1>1, <1>5 DEF AccessInv, RowsFit, TeamMembersAreMembers, OrgKeepsAdmin, TeamHere, OrgHere
  <2> QED
    BY <2>1, <2>2, <2>3 DEF AccessInv
<1>6. CASE /\ org[o].is = "none"
           /\ org' = [org EXCEPT ![o] = [is |-> "here", role |-> "write"]]
           /\ member' = [member EXCEPT ![o] =
                           [u \in Users |-> IF u = q.by THEN "admin" ELSE "none"]]
  <2>1. /\ org' \in [OrgIds -> [is: {"none", "here", "gone"}, role: {"write", "read", "none"}]]
        /\ org'[o].is = "here" /\ \A p \in OrgIds : p # o => org'[p] = org[p]
    BY <1>3, <1>4, <1>6
  <2>2. /\ member' \in [OrgIds -> [Users -> {"none", "member", "admin"}]]
        /\ member'[o][q.by] = "admin" /\ \A p \in OrgIds : p # o => member'[p] = member[p]
    BY <1>3, <1>4, <1>6
  <2>3. /\ RequestsKnown' /\ asked' \in [Workers -> Request \cup {Unset}]
        /\ \A v \in Workers : v # w => asked'[v] = asked[v]
    BY <1>1, <2>1, CommandsGoOn
  <2>4. AccessShape'
    <3>1. \A t \in TeamIds : TeamHere(t)' => OrgHere(TeamOrg[t])'
      BY <1>1, <2>1, AccessAssumption DEF AccessInv, AccessShape, AccessTypeOK, TeamHere, OrgHere
    <3> QED
      BY <1>1, <2>1, <2>2, <2>3, <3>1 DEF AccessInv, AccessShape, AccessTypeOK
  <2>5. RowsFit'
    BY <1>1, <2>1 DEF AccessInv, RowsFit, TeamHere
  <2>6. TeamMembersAreMembers'
    <3> SUFFICES ASSUME NEW t \in TeamIds, NEW u \in team[t].users
                 PROVE  member'[TeamOrg[t]][u] # "none" \/ <<"teamadd", t>> \in slipped
      BY <1>1 DEF TeamMembersAreMembers
    <3>1. TeamHere(t)
      BY DEF AccessInv, RowsFit
    <3>2. TeamOrg[t] \in OrgIds /\ TeamOrg[t] # o
      BY <1>6, <3>1, AccessAssumption DEF AccessInv, AccessShape, AccessTypeOK, OrgHere
    <3> QED
      BY <2>2, <3>2 DEF AccessInv, TeamMembersAreMembers
  <2>7. OrgKeepsAdmin'
    BY <1>3, <2>1, <2>2 DEF AccessInv, OrgKeepsAdmin, OrgHere
  <2>8. DaemonServesPublic'
    <3> SUFFICES ASSUME NEW r \in RepoIds, repo[r].daemon, ~ repo[r].public
                 PROVE  \/ <<"daemon", r>> \in slipped'
                        \/ \E v \in Workers : /\ asked'[v] # Unset /\ asked'[v].repo = r
                                              /\ asked'[v].at = "second"
      BY <1>1 DEF DaemonServesPublic
    <3> QED
      BY <1>1, <1>3, <2>3, SwitchAccountedFor
  <2>9. OwnerExists'
    BY <1>1, <2>1 DEF AccessInv, OwnerExists, Found, OrgHere
  <2> QED
    BY <2>3, <2>4, <2>5, <2>6, <2>7, <2>8, <2>9 DEF AccessInv
<1> QED
  BY <1>1, <1>5, <1>6

\* A count that finds a repository ends the command; one that finds none has
\* no row to remember.
LEMMA CountOrgReposKeeps ==
    ASSUME AccessInv, NEW w \in Workers, CountOrgRepos(w)
    PROVE  AccessInv'
<1> DEFINE q == asked[w]
           owned == {r \in RepoIds : repo[r].owner = q.org}
           p == [q EXCEPT !.at = "second", !.clear = owned]
<1>1. /\ q # Unset /\ q.op = "orgdelete" /\ q.at = "write"
      /\ UNCHANGED <<repo, grant, org, member, team, slipped, accessOps>>
      /\ \/ Counts(q.org) /\ asked' = [asked EXCEPT ![w] = p]
         \/ asked' = [asked EXCEPT ![w] = Unset]
  BY DEF CountOrgRepos, Returns
<1>2. RequestFits(q)
  BY <1>1 DEF AccessInv, RequestsKnown
<1>3. q \in Request /\ q.org \in OrgIds
  BY <1>1, <1>2 DEF RequestFits
<1>4. owned \in SUBSET (RepoIds \cup OrgIds)
  OBVIOUS
<1>5. Counts(q.org) => owned = {}
  <2>1. ASSUME NEW r \in RepoIds, repo[r].owner = q.org
        PROVE  repo[r].is = "here"
    <3>1. repo[r].is \in {"none", "here"}
      BY DEF AccessInv, AccessShape, AccessTypeOK, RepoRow
    <3>2. repo[r].is # "none"
      BY <1>3, <2>1, AccessAssumption DEF AccessInv, RowsFit
    <3> QED
      BY <3>1, <3>2
  <2> QED
    BY <2>1 DEF Counts
<1> HIDE DEF owned
<1>6. /\ p \in Request /\ p.op = q.op /\ p.by = q.by /\ p.repo = q.repo /\ p.org = q.org
      /\ p.team = q.team /\ p.who = q.who /\ p.role = q.role /\ p.at = "second"
      /\ p.clear = owned
  BY <1>3, <1>4 DEF Request
<1> HIDE DEF p
<1>7. RequestFits(p) /\ RequestCleared(p)
  BY <1>1, <1>2, <1>6 DEF RequestFits, RequestCleared
<1>8. Counts(q.org) => RequestStands(p, repo, org)
  BY <1>1, <1>5, <1>6 DEF RequestStands
<1>9. PICK next : /\ asked' = [asked EXCEPT ![w] = next]
                  /\ next # Unset => /\ RequestFits(next) /\ RequestCleared(next)
                                     /\ RequestStands(next, repo', org')
  BY <1>1, <1>7, <1>8
<1>10. /\ RequestsKnown' /\ asked' \in [Workers -> Request \cup {Unset}]
       /\ \A v \in Workers : v # w => asked'[v] = asked[v]
  BY <1>1, <1>9, CommandsGoOn
<1>11. AccessShape'
  BY <1>1, <1>10 DEF AccessInv, AccessShape, AccessTypeOK, TeamHere, OrgHere
<1>12. RowsFit' /\ TeamMembersAreMembers' /\ OrgKeepsAdmin' /\ OwnerExists'
  BY <1>1 DEF AccessInv, RowsFit, TeamMembersAreMembers, OrgKeepsAdmin, OwnerExists,
     TeamHere, OrgHere, Found
<1>13. DaemonServesPublic'
  <2> SUFFICES ASSUME NEW r \in RepoIds, repo[r].daemon, ~ repo[r].public
               PROVE  \/ <<"daemon", r>> \in slipped'
                      \/ \E v \in Workers : /\ asked'[v] # Unset /\ asked'[v].repo = r
                                            /\ asked'[v].at = "second"
    BY <1>1 DEF DaemonServesPublic
  <2> QED
    BY <1>1, <1>10, SwitchAccountedFor
<1> QED
  BY <1>10, <1>11, <1>12, <1>13 DEF AccessInv

\* Whatever was settled between the count and the delete has slipped.
LEMMA DeleteOrgKeeps ==
    ASSUME AccessInv, NEW w \in Workers, DeleteOrg(w)
    PROVE  AccessInv'
<1> DEFINE q == asked[w]
           o == q.org
           owned == {r \in RepoIds : repo[r].owner = o}
           late == owned \ q.clear
<1>1. /\ q # Unset /\ q.op = "orgdelete" /\ q.at = "second"
      /\ asked' = [asked EXCEPT ![w] = Unset] /\ UNCHANGED <<repo, grant, accessOps>>
      /\ org' = [org EXCEPT ![o].is = "gone"]
      /\ member' = [member EXCEPT ![o] = [u \in Users |-> "none"]]
      /\ team' = [t \in TeamIds |-> IF TeamOrg[t] = o /\ TeamHere(t)
                                    THEN GoneTeam ELSE team[t]]
      /\ slipped' = slipped \cup {<<"owner", r>> : r \in late}
  BY DEF DeleteOrg, Returns
<1>2. RequestFits(q) /\ RequestStands(q, repo, org)
  BY <1>1 DEF AccessInv, RequestsKnown
<1>3. o \in OrgIds /\ q.repo = Unset /\ q.clear = {}
  BY <1>1, <1>2 DEF RequestFits, RequestStands
<1>4. /\ org \in [OrgIds -> [is: {"none", "here", "gone"}, role: {"write", "read", "none"}]]
      /\ member \in [OrgIds -> [Users -> {"none", "member", "admin"}]]
      /\ team \in [TeamIds -> TeamRow]
      /\ slipped \subseteq Slips \X (TeamIds \cup RepoIds)
      /\ \A t \in TeamIds : TeamOrg[t] \in OrgIds
      /\ \A t \in TeamIds : ~ TeamHere(t) => team[t].users = {}
      /\ \A t \in TeamIds : TeamHere(t) => OrgHere(TeamOrg[t])
  BY AccessAssumption DEF AccessInv, AccessShape, AccessTypeOK, RowsFit
<1>5. /\ org' \in [OrgIds -> [is: {"none", "here", "gone"}, role: {"write", "read", "none"}]]
      /\ org'[o].is = "gone" /\ \A p \in OrgIds : p # o => org'[p] = org[p]
  BY <1>1, <1>3, <1>4
<1>6. /\ member' \in [OrgIds -> [Users -> {"none", "member", "admin"}]]
      /\ \A p \in OrgIds : p # o => member'[p] = member[p]
  BY <1>1, <1>3, <1>4
<1>7. GoneTeam \in TeamRow /\ GoneTeam.is = "gone" /\ GoneTeam.users = {}
  BY DEF GoneTeam, NoTeam, TeamRow, Roles
<1>8. /\ team' \in [TeamIds -> TeamRow]
      /\ \A t \in TeamIds : team'[t] = IF TeamOrg[t] = o /\ TeamHere(t)
                                       THEN GoneTeam ELSE team[t]
  BY <1>1, <1>4, <1>7
<1>9. \A t \in TeamIds :
        /\ TeamOrg[t] = o => ~ TeamHere(t)' /\ team'[t].users = {}
        /\ TeamOrg[t] # o => team'[t] = team[t]
  BY <1>4, <1>7, <1>8 DEF TeamHere
<1>10. /\ slipped \subseteq slipped' /\ slipped' \subseteq Slips \X (TeamIds \cup RepoIds)
       /\ \A r \in RepoIds : repo[r].owner = o => <<"owner", r>> \in slipped'
  <2>1. \A r \in late : <<"owner", r>> \in Slips \X (TeamIds \cup RepoIds)
    BY DEF Slips
  <2>2. \A r \in RepoIds : repo[r].owner = o => r \in late
    BY <1>3
  <2> HIDE DEF late
  <2> QED
    BY <1>1, <1>4, <2>1, <2>2
<1> HIDE DEF late, owned
<1>11. /\ RequestsKnown' /\ asked' \in [Workers -> Request \cup {Unset}]
       /\ \A v \in Workers : v # w => asked'[v] = asked[v]
  BY <1>1, <1>5, CommandsGoOn
<1>12. AccessShape'
  <2>1. \A t \in TeamIds : TeamHere(t)' => OrgHere(TeamOrg[t])'
    BY <1>4, <1>5, <1>9 DEF TeamHere, OrgHere
  <2> QED
    BY <1>1, <1>5, <1>6, <1>8, <1>10, <1>11, <2>1 DEF AccessInv, AccessShape, AccessTypeOK
<1>13. RowsFit'
  <2>1. \A t \in TeamIds : ~ TeamHere(t)' => team'[t].users = {}
    BY <1>4, <1>9 DEF TeamHere
  <2>2. \A r \in RepoIds : repo[r].owner \in OrgIds => org'[repo[r].owner].is # "none"
    BY <1>5 DEF AccessInv, RowsFit
  <2> QED
    BY <1>1, <2>1, <2>2 DEF AccessInv, RowsFit
<1>14. TeamMembersAreMembers'
  <2> SUFFICES ASSUME NEW t \in TeamIds, NEW u \in team'[t].users
               PROVE  member'[TeamOrg[t]][u] # "none" \/ <<"teamadd", t>> \in slipped'
    BY DEF TeamMembersAreMembers
  <2>1. TeamOrg[t] # o /\ u \in team[t].users
    BY <1>9
  <2> QED
    BY <1>4, <1>6, <1>10, <2>1 DEF AccessInv, TeamMembersAreMembers
<1>15. OrgKeepsAdmin'
  BY <1>5, <1>6 DEF AccessInv, OrgKeepsAdmin, OrgHere
<1>16. DaemonServesPublic'
  <2> SUFFICES ASSUME NEW r \in RepoIds, repo[r].daemon, ~ repo[r].public
               PROVE  \/ <<"daemon", r>> \in slipped'
                      \/ \E v \in Workers : /\ asked'[v] # Unset /\ asked'[v].repo = r
                                            /\ asked'[v].at = "second"
    BY <1>1 DEF DaemonServesPublic
  <2>1. asked[w].repo # r
    BY <1>3, AccessAssumption
  <2> QED
    BY <1>10, <1>11, <2>1, SwitchAccountedFor
<1>17. OwnerExists'
  <2> SUFFICES ASSUME NEW r \in RepoIds, repo[r].is = "here", repo[r].owner \in OrgIds,
                      org'[repo[r].owner].is # "here"
               PROVE  <<"owner", r>> \in slipped'
    BY <1>1 DEF OwnerExists, Found, OrgHere
  <2>1. CASE repo[r].owner = o
    BY <1>10, <2>1
  <2>2. CASE repo[r].owner # o
    BY <1>5, <1>10, <2>2 DEF AccessInv, OwnerExists, Found, OrgHere
  <2> QED
    BY <2>1, <2>2
<1> QED
  BY <1>11, <1>12, <1>13, <1>14, <1>15, <1>16, <1>17 DEF AccessInv

-----------------------------------------------------------------------------
(* The specification *)

\* The invariant holds at the start,
LEMMA AccessInvStarts == AccessInit => AccessInv
<1> SUFFICES ASSUME AccessInit
             PROVE  AccessInv
  OBVIOUS
<1>1. Founder \in Users
  BY AccessAssumption DEF Founder
<1>2. PICK made \in SUBSET OrgIds, joined \in SUBSET (Users \ {Founder}), inTeam \in BOOLEAN :
        /\ OrgsStart(made, joined, inTeam)
        /\ \E first \in RepoIds, owner \in (Users \ {Founder}) \cup made \cup {Unset},
              public \in BOOLEAN, daemon \in BOOLEAN :
             /\ daemon => public
             /\ RepoStarts(first, owner, public, daemon)
  BY DEF AccessInit
<1>3. PICK first \in RepoIds, owner \in (Users \ {Founder}) \cup made \cup {Unset},
           public \in BOOLEAN, daemon \in BOOLEAN :
        (daemon => public) /\ RepoStarts(first, owner, public, daemon)
  BY <1>2
<1>4. /\ org = [o \in OrgIds |->
           [is |-> IF o \in made THEN "here" ELSE "none", role |-> "write"]]
      /\ member = [o \in OrgIds |-> [u \in Users |->
           CASE o \in made /\ u = Founder  -> "admin"
             [] o \in made /\ u \in joined -> "member"
             [] OTHER                      -> "none"]]
      /\ team = [t \in TeamIds |->
           IF TeamOrg[t] \in made /\ inTeam
           THEN [NoTeam EXCEPT !.is = "here", !.users = joined \cup {Founder}]
           ELSE NoTeam]
  BY <1>2 DEF OrgsStart
<1>5. /\ grant = [r \in RepoIds |-> [u \in Users |-> "none"]]
      /\ asked = [w \in Workers |-> Unset] /\ slipped = {} /\ accessOps = 0
  BY DEF AccessInit
<1>6. \A r \in RepoIds :
        /\ repo[r] \in RepoRow
        /\ \/ repo[r].is = "none" /\ repo[r].owner = Unset /\ repo[r].daemon = FALSE
           \/ /\ repo[r].is = "here" /\ repo[r].owner \in Users \cup made
              /\ repo[r].daemon => repo[r].public
  BY <1>1, <1>3 DEF RepoStarts, NoRow, RepoRow
<1>7. \A o \in OrgIds :
        /\ org[o].is = IF o \in made THEN "here" ELSE "none"
        /\ o \in made => member[o][Founder] = "admin"
        /\ o \in made => \A u \in joined : member[o][u] # "none"
  BY <1>1, <1>4
<1>8. \A t \in TeamIds :
        /\ TeamOrg[t] \in OrgIds
        /\ \/ team[t].is = "none" /\ team[t].users = {}
           \/ /\ team[t].is = "here" /\ TeamOrg[t] \in made
              /\ team[t].users = joined \cup {Founder}
  BY <1>4, AccessAssumption DEF NoTeam
<1>9. AccessShape
  <2>1. repo \in [RepoIds -> RepoRow] /\ grant \in [RepoIds -> [Users -> Roles]]
    BY <1>3, <1>5, <1>6 DEF RepoStarts, Roles
  <2>2. org \in [OrgIds -> [is: {"none", "here", "gone"}, role: {"write", "read", "none"}]]
    BY <1>4
  <2>3. member \in [OrgIds -> [Users -> {"none", "member", "admin"}]]
    BY <1>4
  <2>4. team \in [TeamIds -> TeamRow]
    BY <1>1, <1>4 DEF NoTeam, TeamRow, Roles
  <2>5. \A t \in TeamIds : TeamHere(t) => OrgHere(TeamOrg[t])
    BY <1>7, <1>8 DEF TeamHere, OrgHere
  <2>6. asked \in [Workers -> Request \cup {Unset}] /\ accessOps \in 0..MaxAccessOps
    BY <1>5, AccessAssumption
  <2> QED
    BY <1>5, <2>1, <2>2, <2>3, <2>4, <2>5, <2>6 DEF AccessShape, AccessTypeOK
<1>10. RequestsKnown
  BY <1>5 DEF RequestsKnown
<1>11. RowsFit
  BY <1>6, <1>7, <1>8, AccessAssumption DEF RowsFit, TeamHere
<1>12. TeamMembersAreMembers
  BY <1>7, <1>8 DEF TeamMembersAreMembers
<1>13. OrgKeepsAdmin
  BY <1>1, <1>7 DEF OrgKeepsAdmin, OrgHere
<1>14. DaemonServesPublic
  BY <1>6 DEF DaemonServesPublic
<1>15. OwnerExists
  BY <1>6, <1>7, AccessAssumption DEF OwnerExists, Found, OrgHere
<1> QED
  BY <1>9, <1>10, <1>11, <1>12, <1>13, <1>14, <1>15 DEF AccessInv

\* and every step keeps it.
LEMMA AccessInvStays == AccessInv /\ [AccessNext]_accessVars => AccessInv'
<1> SUFFICES ASSUME AccessInv, [AccessNext]_accessVars
             PROVE  AccessInv'
  OBVIOUS
<1>1. CASE UNCHANGED accessVars
  <2>1. UNCHANGED <<repo, grant, org, member, team, asked, slipped, accessOps>>
    BY <1>1 DEF accessVars
  <2>2. AccessShape' /\ RequestsKnown' /\ RowsFit'
    BY <2>1 DEF AccessInv, AccessShape, AccessTypeOK, RequestsKnown, RowsFit, TeamHere, OrgHere
  <2>3. /\ TeamMembersAreMembers' /\ OrgKeepsAdmin' /\ DaemonServesPublic' /\ OwnerExists'
    BY <2>1 DEF AccessInv, TeamMembersAreMembers, OrgKeepsAdmin, DaemonServesPublic,
       OwnerExists, OrgHere, Found
  <2> QED
    BY <2>2, <2>3 DEF AccessInv
<1>2. ASSUME NEW w \in Workers, AccessStep(w)
      PROVE  AccessInv'
  <2>1. ASSUME NEW u \in Users, MayAsk(w), AskRepo(w, u) \/ AskOrg(w, u)
        PROVE  AccessInv'
    BY <2>1, AskedRepo, AskedOrg
  <2>2. CASE Written(w)
    BY <2>2, GrantsKeep, SetOrgMemberKeeps, RemoveOrgMemberKeeps, SetOrgMembersRoleKeeps,
       TeamsKeep, ReposKeep, CreateOrgKeeps, CountOrgReposKeeps, DeleteOrgKeeps DEF Written
  <2> QED
    BY <1>2, <2>1, <2>2 DEF AccessStep
<1> QED
  BY <1>1, <1>2 DEF AccessNext

\* The rows of owners, grants, organizations and teams keep their types, and a
\* team is there only with its organization (store/teams.go, orgs.go).
THEOREM AccessTypeCorrect == AccessSpec => []AccessTypeOK
<1>1. AccessInv => AccessTypeOK
  BY DEF AccessInv, AccessShape
<1> QED
  BY <1>1, AccessInvStarts, AccessInvStays, PTL DEF AccessSpec

-----------------------------------------------------------------------------
(* The forms of access *)

\* A strongest role may be folded in two steps,
LEMMA StrongestNested ==
    ASSUME NEW A, NEW T
    PROVE  Strongest(A \cup {Strongest(T)}) = Strongest(A \cup T)
BY DEF Strongest

\* and is some role when one of those folded is.
LEMMA StrongestGiven ==
    ASSUME NEW S
    PROVE  Strongest(S) \in Given <=> \E x \in Given : x \in S
BY DEF Strongest, Given, Roles

\* The five sources of a role, as the access list folds them.
Sources(r, u) ==
    (IF isOwner(u, r) THEN {"admin"} ELSE {})
    \cup (IF OrgRole(repo[r].owner, u) = "admin" THEN {"admin"} ELSE {})
    \cup {grant[r][u]}
    \cup {team[t].roles[r] : t \in {t \in TeamIds : u \in team[t].users}}
    \cup (IF OrgRole(repo[r].owner, u) = "member" THEN {org[repo[r].owner].role} ELSE {})

\* The access list folds the five sources.
LEMMA EffectiveIs ==
    ASSUME NEW r \in RepoIds, NEW u \in Users
    PROVE  EffectiveAccess(r)[u] = Strongest(Sources(r, u))
BY DEF EffectiveAccess, Sources

\* AccessRole, EffectiveAccess and reachableCond name the same accounts, since
\* each counts the same sources.
LEMMA FormsAgreeWhenTyped == AccessTypeOK => FormsAgree
<1> SUFFICES ASSUME AccessTypeOK, NEW r \in RepoIds, NEW u \in Users
             PROVE  /\ EffectiveAccess(r)[u] = IF isOwner(u, r) THEN "admin"
                                              ELSE AccessRole(r, u)
                    /\ reachableCond(r, u) <=> EffectiveAccess(r)[u] \in Given
                    /\ visibleCond(r, u) <=> CanRead(u, r)
  BY DEF FormsAgree
<1> DEFINE byTeams == {team[t].roles[r] : t \in {t \in TeamIds : u \in team[t].users}}
           o == repo[r].owner
<1>1. OrgRole(o, u) \in {"none", "member", "admin"}
  BY DEF OrgRole, AccessTypeOK
<1>2. /\ grant[r][u] \in Roles
      /\ \A x \in byTeams : x \in Roles
      /\ OrgRole(o, u) # "none" => org[o].role \in {"write", "read", "none"}
  BY DEF AccessTypeOK, TeamRow, OrgRole
<1>3. AccessRole(r, u) = Strongest({grant[r][u], FromOrg(r, u)} \cup byTeams)
  <2>1. AccessRole(r, u) = Strongest({grant[r][u], FromOrg(r, u)} \cup {Strongest(byTeams)})
    <3>1. {grant[r][u], FromOrg(r, u), FromTeams(r, u)}
            = {grant[r][u], FromOrg(r, u)} \cup {Strongest(byTeams)}
      BY DEF FromTeams
    <3> QED
      BY <3>1 DEF AccessRole
  <2> QED
    BY <2>1, StrongestNested
<1>4. /\ OrgRole(o, u) = "admin" => FromOrg(r, u) = "admin"
      /\ OrgRole(o, u) = "member" => FromOrg(r, u) = org[o].role
      /\ OrgRole(o, u) = "none" => FromOrg(r, u) = "none"
  BY DEF FromOrg
<1>5. Sources(r, u) =
        (IF isOwner(u, r) THEN {"admin"} ELSE {})
        \cup (IF OrgRole(o, u) = "admin" THEN {"admin"} ELSE {}) \cup {grant[r][u]}
        \cup byTeams \cup (IF OrgRole(o, u) = "member" THEN {org[o].role} ELSE {})
  BY DEF Sources
<1> HIDE DEF byTeams
<1>6. EffectiveAccess(r)[u] = IF isOwner(u, r) THEN "admin" ELSE AccessRole(r, u)
  <2>1. CASE isOwner(u, r)
    <3>1. "admin" \in Sources(r, u)
      BY <1>5, <2>1
    <3> QED
      BY <2>1, <3>1, EffectiveIs DEF Strongest
  <2>2. CASE ~ isOwner(u, r)
    <3>1. \A x \in Given : x \in Sources(r, u)
                             <=> x \in {grant[r][u], FromOrg(r, u)} \cup byTeams
      BY <1>1, <1>4, <1>5, <2>2 DEF Given
    <3> QED
      BY <1>3, <2>2, <3>1, EffectiveIs DEF Strongest, Given, Roles
  <2> QED
    BY <2>1, <2>2
<1>7. reachableCond(r, u) <=> EffectiveAccess(r)[u] \in Given
  <2>1. (\E x \in Given : x \in Sources(r, u))
          <=> \/ isOwner(u, r) \/ grant[r][u] # "none"
              \/ OrgRole(o, u) = "admin" \/ (OrgRole(o, u) = "member" /\ org[o].role # "none")
              \/ \E x \in byTeams : x # "none"
    BY <1>1, <1>2, <1>5 DEF Given, Roles
  <2>2. (\E x \in byTeams : x # "none")
          <=> \E t \in TeamIds : u \in team[t].users /\ team[t].roles[r] # "none"
    BY DEF byTeams
  <2>3. reachableCond(r, u)
          <=> \/ isOwner(u, r) \/ grant[r][u] # "none"
              \/ OrgRole(o, u) = "admin" \/ (OrgRole(o, u) = "member" /\ org[o].role # "none")
              \/ \E t \in TeamIds : u \in team[t].users /\ team[t].roles[r] # "none"
    BY <1>1 DEF reachableCond
  <2> QED
    BY <2>1, <2>2, <2>3, EffectiveIs, StrongestGiven
<1>8. visibleCond(r, u) <=> CanRead(u, r)
  BY <1>6, <1>7 DEF visibleCond, CanRead, Given, Roles
<1> QED
  BY <1>6, <1>7, <1>8

\* The commands, the access list and the dashboard agree on who reaches a
\* repository; and a team holds members of its organization, an organization
\* keeps an admin, the git:// switch is off for private repositories and an
\* owner exists, but where crossing commands are recorded to have slipped
\* (policy/access.go, store/repos.go, dashboard.go, orgs.go and teams.go).
THEOREM AccessStaysInOrder == AccessSpec => []AccessInOrder
<1>1. AccessInv => AccessInOrder
  BY FormsAgreeWhenTyped DEF AccessInv, AccessShape, AccessInOrder
<1> QED
  BY <1>1, AccessInvStarts, AccessInvStays, PTL DEF AccessSpec

-----------------------------------------------------------------------------
(* Whose command raises a role *)

\* A stronger role needs a source that was not there.
LEMMA RiseHasSource ==
    ASSUME NEW S, NEW T, Rank[Strongest(T)] > Rank[Strongest(S)]
    PROVE  \E x \in Given : x \in T /\ x \notin S
BY DEF Rank, Strongest, Given, Roles

\* A source of a role, one disjunct for each row it may come from.
LEMMA NewSource ==
    ASSUME NEW r \in RepoIds, NEW u \in Users, NEW x \in Given,
           x \in Sources(r, u)', x \notin Sources(r, u)
    PROVE  /\ \/ repo'[r].owner = u /\ x = "admin"
              \/ /\ repo'[r].owner \in OrgIds /\ org'[repo'[r].owner].is = "here"
                 /\ \/ member'[repo'[r].owner][u] = "admin" /\ x = "admin"
                    \/ /\ member'[repo'[r].owner][u] = "member"
                       /\ x = org'[repo'[r].owner].role
              \/ x = grant'[r][u]
              \/ \E t \in TeamIds : u \in team'[t].users /\ x = team'[t].roles[r]
           /\ ~ (repo[r].owner = u /\ x = "admin")
           /\ ~ (/\ repo[r].owner \in OrgIds /\ org[repo[r].owner].is = "here"
                 /\ \/ member[repo[r].owner][u] = "admin" /\ x = "admin"
                    \/ /\ member[repo[r].owner][u] = "member"
                       /\ x = org[repo[r].owner].role)
           /\ x # grant[r][u]
           /\ \A t \in TeamIds : ~ (u \in team[t].users /\ x = team[t].roles[r])
BY DEF Sources, isOwner, OrgRole, OrgHere

\* The command of w raised a role on r for a reason.
Raises(w, r) ==
    /\ asked[w] # Unset
    /\ \/ {r, repo[r].owner} \cap asked[w].clear # {}
       \/ asked[w].op = "create" /\ asked[w].repo = r
       \/ \E t \in TeamIds : /\ asked[w].team = t /\ asked[w].op = "teamadd"
                             /\ repo[r].owner # TeamOrg[t]

\* Every source of a role that a command makes is one its caller could give.
LEMMA NewSourceRaised ==
    ASSUME AccessInv, NEW w \in Workers, Written(w),
           NEW r \in RepoIds, NEW u \in Users, NEW x \in Given,
           x \in Sources(r, u)', x \notin Sources(r, u)
    PROVE  Raises(w, r)
<1> DEFINE q == asked[w]
           o == repo[r].owner
<1>1. /\ \/ repo'[r].owner = u /\ x = "admin"
         \/ /\ repo'[r].owner \in OrgIds /\ org'[repo'[r].owner].is = "here"
            /\ \/ member'[repo'[r].owner][u] = "admin" /\ x = "admin"
               \/ /\ member'[repo'[r].owner][u] = "member"
                  /\ x = org'[repo'[r].owner].role
         \/ x = grant'[r][u]
         \/ \E t \in TeamIds : u \in team'[t].users /\ x = team'[t].roles[r]
      /\ ~ (o = u /\ x = "admin")
      /\ ~ (/\ o \in OrgIds /\ org[o].is = "here"
            /\ \/ member[o][u] = "admin" /\ x = "admin"
               \/ member[o][u] = "member" /\ x = org[o].role)
      /\ x # grant[r][u]
      /\ \A t \in TeamIds : ~ (u \in team[t].users /\ x = team[t].roles[r])
  BY NewSource
<1>2. q # Unset
  BY DEF Written, GrantAccess, RevokeAccess, SetOrgMember, RemoveOrgMember,
     SetOrgMembersRole, CreateTeam, DeleteTeam, AddTeamMember, RemoveTeamMember,
     GrantTeamRepo, RevokeTeamRepo, SetRepoVisibility, setRepoVisibility, SetGitDaemon,
     archiveRepo, TransferRepo, CreateRepoRow, CreateOrg, CountOrgRepos, DeleteOrg
<1>3. RequestFits(q) /\ RequestCleared(q)
  BY <1>2 DEF AccessInv, RequestsKnown
<1>4. /\ repo \in [RepoIds -> RepoRow] /\ grant \in [RepoIds -> [Users -> Roles]]
      /\ org \in [OrgIds -> [is: {"none", "here", "gone"}, role: {"write", "read", "none"}]]
      /\ member \in [OrgIds -> [Users -> {"none", "member", "admin"}]]
      /\ team \in [TeamIds -> TeamRow]
  BY DEF AccessInv, AccessShape, AccessTypeOK
<1>5. x # "none"
  BY DEF Given
<1>6. CASE GrantAccess(w)
  <2>1. /\ q.op = "grant" /\ grant' = [grant EXCEPT ![q.repo][q.who] = q.role]
        /\ UNCHANGED <<repo, org, member, team>>
    BY <1>6 DEF GrantAccess
  <2>2. grant'[r][u] # grant[r][u]
    BY <1>1, <2>1
  <2>3. q.repo = r
    BY <1>4, <2>1, <2>2
  <2> QED
    BY <1>2, <1>3, <2>1, <2>3 DEF Raises, RequestCleared
<1>7. CASE RevokeAccess(w)
  <2>1. /\ grant' = [grant EXCEPT ![q.repo][q.who] = "none"]
        /\ UNCHANGED <<repo, org, member, team>>
    BY <1>7 DEF RevokeAccess
  <2>2. grant'[r][u] \in {grant[r][u], "none"}
    BY <1>4, <2>1
  <2> QED
    BY <1>1, <1>5, <2>1, <2>2
<1>8. CASE SetOrgMember(w)
  <2>1. /\ q.op = "orgadd" /\ UNCHANGED <<repo, grant, org, team>>
        /\ member' = member \/ member' = [member EXCEPT ![q.org][q.who] = q.role]
    BY <1>8 DEF SetOrgMember
  <2>2. o \in OrgIds /\ member'[o][u] # member[o][u]
    BY <1>1, <2>1
  <2>3. q.org = o
    BY <1>4, <2>1, <2>2
  <2> QED
    BY <1>2, <1>3, <2>1, <2>3 DEF Raises, RequestCleared
<1>9. CASE RemoveOrgMember(w)
  <2>1. /\ UNCHANGED <<repo, grant, org>>
        /\ \/ UNCHANGED <<member, team>>
           \/ /\ member' = [member EXCEPT ![q.org][q.who] = "none"]
              /\ team' = WithoutMember(q.org, q.who)
    BY <1>9 DEF RemoveOrgMember
  <2>2. o \in OrgIds => member'[o][u] \in {member[o][u], "none"}
    BY <1>4, <2>1
  <2>3. \A t \in TeamIds : /\ team'[t].users \subseteq team[t].users
                           /\ team'[t].roles = team[t].roles
    BY <1>4, <2>1 DEF WithoutMember, TeamRow
  <2> QED
    BY <1>1, <2>1, <2>2, <2>3
<1>10. CASE SetOrgMembersRole(w)
  <2>1. /\ q.op = "membersrole" /\ UNCHANGED <<repo, grant, member, team>>
        /\ org' = org \/ org' = [org EXCEPT ![q.org].role = q.role]
    BY <1>10 DEF SetOrgMembersRole
  <2>2. o \in OrgIds /\ org'[o] # org[o]
    BY <1>1, <2>1
  <2>3. q.org = o
    BY <1>4, <2>1, <2>2
  <2> QED
    BY <1>2, <1>3, <2>1, <2>3 DEF Raises, RequestCleared
<1>11. CASE CreateTeam(w) \/ DeleteTeam(w) \/ RemoveTeamMember(w)
  <2>1. /\ UNCHANGED <<repo, grant, org, member>>
        /\ \/ team' = team \/ team' = [team EXCEPT ![q.team].is = "here"]
           \/ team' = [team EXCEPT ![q.team] = GoneTeam]
           \/ team' = [team EXCEPT ![q.team].users = @ \ {q.who}]
    BY <1>11 DEF CreateTeam, DeleteTeam, RemoveTeamMember
  <2>2. GoneTeam.users = {}
    BY DEF GoneTeam, NoTeam
  <2>3. \A t \in TeamIds : \/ team'[t].users = {}
                           \/ /\ team'[t].users \subseteq team[t].users
                              /\ team'[t].roles = team[t].roles
    <3>1. CASE team' = team
      BY <3>1
    <3>2. CASE team' = [team EXCEPT ![q.team].is = "here"]
      BY <1>4, <3>2 DEF TeamRow
    <3>3. CASE team' = [team EXCEPT ![q.team] = GoneTeam]
      BY <1>4, <2>2, <3>3
    <3>4. CASE team' = [team EXCEPT ![q.team].users = @ \ {q.who}]
      BY <1>4, <3>4 DEF TeamRow
    <3> QED
      BY <2>1, <3>1, <3>2, <3>3, <3>4
  <2> QED
    BY <1>1, <2>1, <2>3
<1>12. CASE AddTeamMember(w)
  <2>1. /\ q.op = "teamadd" /\ UNCHANGED <<repo, grant, org, member>>
        /\ team' = team \/ team' = [team EXCEPT ![q.team].users = @ \cup {q.who}]
    BY <1>12 DEF AddTeamMember
  <2>2. PICK t \in TeamIds : /\ u \in team'[t].users /\ x = team'[t].roles[r]
                             /\ ~ (u \in team[t].users /\ x = team[t].roles[r])
    BY <1>1, <2>1
  <2>3. q.team = t
    BY <1>4, <2>1, <2>2
  <2>4. TeamOrg[t] \in q.clear
    BY <1>3, <2>1, <2>3 DEF RequestCleared
  <2> QED
    BY <1>2, <2>1, <2>3, <2>4 DEF Raises
<1>13. CASE GrantTeamRepo(w)
  <2>1. /\ q.op = "teamgrant" /\ UNCHANGED <<repo, grant, org, member>>
        /\ team' = team \/ team' = [team EXCEPT ![q.team].roles[q.repo] = q.role]
    BY <1>13 DEF GrantTeamRepo
  <2>2. PICK t \in TeamIds : /\ u \in team'[t].users /\ x = team'[t].roles[r]
                             /\ ~ (u \in team[t].users /\ x = team[t].roles[r])
    BY <1>1, <2>1
  <2>3. \A s \in TeamIds : /\ team'[s].users = team[s].users
                           /\ r # q.repo => team'[s].roles[r] = team[s].roles[r]
    BY <1>4, <2>1 DEF TeamRow
  <2>4. q.repo = r
    BY <2>2, <2>3
  <2> QED
    BY <1>2, <1>3, <2>1, <2>4 DEF Raises, RequestCleared
<1>14. CASE RevokeTeamRepo(w)
  <2>1. /\ UNCHANGED <<repo, grant, org, member>>
        /\ team' = [team EXCEPT ![q.team].roles[q.repo] = "none"]
    BY <1>14 DEF RevokeTeamRepo
  <2>2. \A s \in TeamIds : /\ team'[s].users = team[s].users
                           /\ team'[s].roles[r] \in {team[s].roles[r], "none"}
    BY <1>4, <2>1 DEF TeamRow
  <2> QED
    BY <1>1, <1>5, <2>1, <2>2
<1>15. CASE \/ SetRepoVisibility(w) \/ setRepoVisibility(w) \/ SetGitDaemon(w)
            \/ archiveRepo(w)
  <2>1. /\ UNCHANGED <<grant, org, member, team>>
        /\ \E on \in BOOLEAN : \/ repo' = [repo EXCEPT ![q.repo].public = on]
                               \/ repo' = [repo EXCEPT ![q.repo].daemon = on]
                               \/ repo' = [repo EXCEPT ![q.repo].archived = on]
    BY <1>15 DEF SetRepoVisibility, setRepoVisibility, SetGitDaemon, archiveRepo
  <2>2. repo'[r].owner = o
    BY <1>4, <2>1 DEF RepoRow
  <2> QED
    BY <1>1, <2>1, <2>2
<1>16. CASE TransferRepo(w) \/ CreateRepoRow(w)
  <2>1. UNCHANGED <<grant, org, member, team>> /\ q.op \in {"transfer", "create"}
    BY <1>16 DEF TransferRepo, CreateRepoRow
  <2>2. repo'[r] # repo[r]
    BY <1>1, <2>1
  <2>3. q.repo = r
    BY <1>4, <1>16, <2>2 DEF TransferRepo, CreateRepoRow
  <2> QED
    BY <1>2, <1>3, <2>1, <2>3 DEF Raises, RequestCleared
<1>17. CASE CreateOrg(w)
  <2>1. /\ UNCHANGED <<repo, grant, team>>
        /\ \/ UNCHANGED <<org, member>>
           \/ /\ org[q.org].is = "none"
              /\ org' = [org EXCEPT ![q.org] = [is |-> "here", role |-> "write"]]
              /\ member' = [member EXCEPT ![q.org] =
                              [v \in Users |-> IF v = q.by THEN "admin" ELSE "none"]]
    BY <1>17 DEF CreateOrg
  <2>2. o \in OrgIds => org[o].is # "none"
    BY DEF AccessInv, RowsFit
  <2>3. o \in OrgIds => org'[o] = org[o] /\ member'[o] = member[o]
    BY <1>4, <2>1, <2>2
  <2> QED
    BY <1>1, <2>1, <2>3
<1>18. CASE CountOrgRepos(w)
  BY <1>1, <1>18 DEF CountOrgRepos
<1>19. CASE DeleteOrg(w)
  <2>1. /\ UNCHANGED <<repo, grant>>
        /\ org' = [org EXCEPT ![q.org].is = "gone"]
        /\ member' = [member EXCEPT ![q.org] = [v \in Users |-> "none"]]
        /\ team' = [t \in TeamIds |-> IF TeamOrg[t] = q.org /\ TeamHere(t)
                                      THEN GoneTeam ELSE team[t]]
    BY <1>19 DEF DeleteOrg
  <2>2. GoneTeam.users = {}
    BY DEF GoneTeam, NoTeam
  <2>3. \A t \in TeamIds : team'[t].users = {} \/ team'[t] = team[t]
    BY <2>1, <2>2
  <2>4. o \in OrgIds => \/ org'[o].is = "gone"
                        \/ org'[o] = org[o] /\ member'[o] = member[o]
    BY <1>4, <2>1
  <2> QED
    BY <1>1, <2>1, <2>3, <2>4
<1> QED
  BY <1>6, <1>7, <1>8, <1>9, <1>10, <1>11, <1>12, <1>13, <1>14, <1>15, <1>16, <1>17,
     <1>18, <1>19 DEF Written

\* A step that raises a role is the write of such a command.
LEMMA RolesRiseByAdminStep ==
    ASSUME AccessInv, AccessNext,
           NEW r \in RepoIds, NEW u \in Users,
           Rank[EffectiveAccess(r)[u]]' > Rank[EffectiveAccess(r)[u]]
    PROVE  \E w \in Workers : asked[w] # asked'[w] /\ Raises(w, r)
<1>1. PICK w \in Workers : AccessStep(w)
  BY DEF AccessNext
<1>2. PICK x \in Given : x \in Sources(r, u)' /\ x \notin Sources(r, u)
  <2>1. EffectiveAccess(r)[u] = Strongest(Sources(r, u))
    BY EffectiveIs
  <2>2. (EffectiveAccess(r)[u])' = Strongest(Sources(r, u)')
    BY DEF EffectiveAccess, Sources, isOwner, OrgRole, OrgHere
  <2>3. Rank' = Rank
    BY DEF Rank
  <2>4. Rank[Strongest(Sources(r, u)')] > Rank[Strongest(Sources(r, u))]
    BY <2>1, <2>2, <2>3
  <2> QED
    BY <2>4, RiseHasSource
<1>3. Written(w)
  <2> SUFFICES ASSUME ~ Written(w)
               PROVE  FALSE
    OBVIOUS
  <2>1. PICK v \in Users : AskRepo(w, v) \/ AskOrg(w, v)
    BY <1>1 DEF AccessStep
  <2>2. \E q : Checked(w, q)
    BY <2>1 DEF AskRepo, AskOrg, runAccessGrant, runAccessRevoke, runSetVisibility,
       runGitDaemon, setArchived, runRepoTransfer, resolveNewRepoOwner, runOrgMembersAdd,
       runOrgMembersRemove, runOrgMembersRole, runTeamCreate, runTeamDelete,
       editTeamMembers, runTeamGrant, runTeamRevoke, runOrgCreate, runOrgDelete
  <2>3. UNCHANGED <<repo, grant, org, member, team>>
    BY <2>2 DEF Checked
  <2> QED
    BY <1>2, <2>3 DEF Sources, isOwner, OrgRole, OrgHere
<1>4. Raises(w, r)
  BY <1>2, <1>3, NewSourceRaised
<1>5. asked'[w] # asked[w]
  <2>1. asked[w] # Unset /\ asked \in [Workers -> Request \cup {Unset}]
    BY <1>4 DEF Raises, AccessInv, AccessShape
  <2>2. CASE Returns(w)
    BY <2>1, <2>2 DEF Returns
  <2>3. CASE ~ Returns(w)
    <3>1. UNCHANGED <<grant, org, member, team>> /\ \A s \in RepoIds : repo'[s].owner = repo[s].owner
      <4>1. CASE CountOrgRepos(w)
        BY <4>1 DEF CountOrgRepos
      <4>2. CASE SetRepoVisibility(w)
        <5>1. repo \in [RepoIds -> RepoRow]
          BY DEF AccessInv, AccessShape, AccessTypeOK
        <5>2. \E on \in BOOLEAN : repo' = [repo EXCEPT ![asked[w].repo].public = on]
          BY <4>2 DEF SetRepoVisibility
        <5> QED
          BY <4>2, <5>1, <5>2 DEF SetRepoVisibility, RepoRow
      <4> QED
        BY <1>3, <2>3, <4>1, <4>2 DEF Written, GrantAccess, RevokeAccess, SetOrgMember,
           RemoveOrgMember, SetOrgMembersRole, CreateTeam, DeleteTeam, AddTeamMember,
           RemoveTeamMember, GrantTeamRepo, RevokeTeamRepo, setRepoVisibility, SetGitDaemon,
           archiveRepo, TransferRepo, CreateRepoRow, CreateOrg, DeleteOrg
    <3> QED
      BY <1>2, <3>1 DEF Sources, isOwner, OrgRole, OrgHere
  <2> QED
    BY <2>2, <2>3
<1> QED
  BY <1>4, <1>5

\* A role on a repository rises only by the write of a command whose caller
\* administered, when it was checked, the repository or the organization that
\* owns it, but for the exceptions RoleRisesByAdmin names (the checks of
\* control/repo.go, org.go and teams.go, the writes of store/repos.go,
\* orgs.go and teams.go).
THEOREM RolesRiseByAdmin == AccessSpec => RoleRisesByAdmin
<1>1. ASSUME AccessInv, [AccessNext]_accessVars
      PROVE  [<<repo, grant, org, member, team>> # <<repo, grant, org, member, team>>' =>
              \A r \in RepoIds, u \in Users :
                Rank[EffectiveAccess(r)[u]]' > Rank[EffectiveAccess(r)[u]] =>
                  \E w \in Workers :
                    /\ asked[w] # asked'[w]
                    /\ asked[w] # Unset
                    /\ \/ {r, repo[r].owner} \cap asked[w].clear # {}
                       \/ asked[w].op = "create" /\ asked[w].repo = r
                       \/ \E t \in TeamIds : /\ asked[w].team = t
                                              /\ asked[w].op = "teamadd"
                                              /\ repo[r].owner # TeamOrg[t]]_accessVars
  BY <1>1, RolesRiseByAdminStep DEF Raises
<1> QED
  BY <1>1, AccessInvStarts, AccessInvStays, PTL DEF AccessSpec, RoleRisesByAdmin
=============================================================================
