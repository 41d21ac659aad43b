------------------------------ MODULE Accounts ------------------------------
(***************************************************************************)
(* Accounts from registration to deletion: invitations and self-service    *)
(* registration, mail addresses and their verification codes, instance     *)
(* admins, suspension by an admin, deletion by the owner with its grace    *)
(* period, the hourly reaper of unverified accounts and the hourly purge   *)
(* (store/users.go, registration.go, accountdelete.go, adminusers.go and   *)
(* quotas.go; control/register.go, accountdelete.go, admin.go and          *)
(* adminhost.go; cmd/gitbayd/main.go).                                     *)
(*                                                                         *)
(* A handler that makes several database statements takes a step for each. *)
(* An account id is never used again. What an account owns is whether it   *)
(* has repositories; what it wrote is whether it has written anything on   *)
(* another owner's. One organization stands for all.                       *)
(***************************************************************************)
EXTENDS Integers, FiniteSets

CONSTANTS
    People,      \* account ids
    Addresses,   \* mail addresses
    Nobody,      \* the owner of a free address
    MaxAcctOps,  \* bound: commands
    MaxAcctFaults \* bound: restarts and steps of a purge that fail

ASSUME AccountAssumption ==
    /\ Nobody \notin People
    /\ MaxAcctOps \in Nat /\ MaxAcctFaults \in Nat

VARIABLES
    acct,       \* rows of users
    mail,       \* rows of emails: address -> row
    codes,      \* email_tokens not used and not expired: <<account, address>>
    invites,    \* addresses with an unused invitation
    deletions,  \* accounts with a row in account_deletions
    owns,       \* accounts that own a repository
    wrote,      \* accounts that wrote on somebody else's
    orgAdmins,  \* admins of the organization
    handler,    \* account -> the command of its owner under way
    adminCmd,   \* an admin's enable, disable or delete under way
    reaper,     \* the reaper's list
    purger,     \* the purge
    proven,     \* history: addresses proved to belong to an account
    suspended,  \* history: accounts an admin suspended and did not restore
    reopened,   \* history: accounts an admin enabled while a purge had them
    acctOps, acctFaults  \* counters for the bounds

accountVars == <<acct, mail, codes, invites, deletions, owns, wrote, orgAdmins,
                 handler, adminCmd, reaper, purger, proven, suspended,
                 reopened, acctOps, acctFaults>>

-----------------------------------------------------------------------------
(* The shape of the state *)

\* after: users.delete_after, NULL, in the grace period, past it, or Purging;
\* own: the account registered itself; old: older than the reaper's limit.
Account == [is: {"none", "here", "gone"}, pending: BOOLEAN, disabled: BOOLEAN,
            admin: BOOLEAN, after: {"", "later", "due", "purging"},
            own: BOOLEAN, old: BOOLEAN]
NoAccount == [is |-> "none", pending |-> FALSE, disabled |-> FALSE,
              admin |-> FALSE, after |-> "", own |-> FALSE, old |-> FALSE]
Address == [owner: People \cup {Nobody}, verified: BOOLEAN, primary: BOOLEAN]
Free == [owner |-> Nobody, verified |-> FALSE, primary |-> FALSE]

\* The owner's command: a verification that holds a used code, a deletion
\* link that found its account enabled, or the two statements of a cancel.
Handler == [at: {"idle", "verify", "clear", "confirm", "drop", "enable"},
            addr: Addresses \cup {Nobody}]
IdleHandler == [at |-> "idle", addr |-> Nobody]

AdminCmd == [at: {"idle", "drop", "update", "delete"},
             who: People \cup {Nobody}, disable: BOOLEAN]
IdleAdmin == [at |-> "idle", who |-> Nobody, disable |-> FALSE]

Reaper == [list: SUBSET People, checked: BOOLEAN]
IdleReaper == [list |-> {}, checked |-> FALSE]

\* resumed: the accounts of the list that were read as Purging.
Purger == [list: SUBSET People, resumed: SUBSET People,
           at: {"idle", "check", "claim", "repos", "ghost", "blockers",
                "delete"}]
IdlePurger == [list |-> {}, resumed |-> {}, at |-> "idle"]

AccountTypeOK ==
    /\ acct \in [People -> Account]
    /\ mail \in [Addresses -> Address]
    /\ codes \subseteq People \X Addresses
    /\ \A c \in codes : mail[c[2]].owner = c[1]
    /\ invites \subseteq Addresses
    /\ deletions \subseteq People /\ owns \subseteq People
    /\ wrote \subseteq People /\ orgAdmins \subseteq People
    /\ handler \in [People -> Handler]
    /\ adminCmd \in AdminCmd
    /\ adminCmd.at # "idle" => adminCmd.who \in People
    /\ reaper \in Reaper
    /\ reaper.checked => reaper.list # {}
    /\ purger \in Purger
    /\ proven \subseteq People \X Addresses
    /\ suspended \subseteq People /\ reopened \subseteq People
    /\ acctOps \in 0..MaxAcctOps
    /\ acctFaults \in 0..MaxAcctFaults

\* An instance with its first admin and the accounts that one has made.
AccountInit ==
    /\ \E made \in SUBSET People, root \in People :
         acct = [u \in People |->
                   IF u \in made \cup {root}
                   THEN [NoAccount EXCEPT !.is = "here", !.admin = (u = root)]
                   ELSE NoAccount]
    /\ mail = [a \in Addresses |-> Free]
    /\ codes = {} /\ invites = {} /\ deletions = {} /\ owns = {} /\ wrote = {}
    /\ orgAdmins = {}
    /\ handler = [u \in People |-> IdleHandler]
    /\ adminCmd = IdleAdmin
    /\ reaper = IdleReaper
    /\ purger = IdlePurger
    /\ proven = {} /\ suspended = {} /\ reopened = {}
    /\ acctOps = 0 /\ acctFaults = 0

Here(u) == acct[u].is = "here"

\* What runChecked lets through.
MayRun(u) == Here(u) /\ ~acct[u].disabled
Active(u) == MayRun(u) /\ ~acct[u].pending

VerifiedOf(u) == {a \in Addresses : mail[a].owner = u /\ mail[a].verified}
Op == acctOps < MaxAcctOps /\ acctOps' = acctOps + 1

workers == <<adminCmd, reaper, purger, acctFaults>>
rest == <<deletions, owns, wrote, orgAdmins, handler, suspended, reopened,
          workers>>

-----------------------------------------------------------------------------
(* Registration *)

\* RegisterOpen, one transaction, then the code, whose mail may fail.
RegisterOpen(u, a) ==
    /\ Op
    /\ acct[u].is = "none" /\ mail[a] = Free
    /\ acct' = [acct EXCEPT ![u] = [NoAccount EXCEPT !.is = "here",
                                      !.pending = TRUE, !.own = TRUE]]
    /\ mail' = [mail EXCEPT ![a] = [Free EXCEPT !.owner = u, !.primary = TRUE]]
    /\ codes' \in {codes, codes \cup {<<u, a>>}}
    /\ UNCHANGED <<invites, proven, rest>>

\* admin invite.
Invite(a) ==
    /\ Op
    /\ mail[a] = Free
    /\ invites' = invites \cup {a}
    /\ UNCHANGED <<acct, mail, codes, proven, rest>>

\* The invitation, the account, its address and its key, or nothing.
RedeemInvite(u, a) ==
    /\ Op
    /\ a \in invites /\ acct[u].is = "none" /\ mail[a] = Free
    /\ invites' = invites \ {a}
    /\ acct' = [acct EXCEPT ![u] = [NoAccount EXCEPT !.is = "here",
                                                     !.own = TRUE]]
    /\ mail' = [mail EXCEPT ![a] = [owner |-> u, verified |-> TRUE,
                                    primary |-> TRUE]]
    /\ proven' = proven \cup {<<u, a>>}
    /\ UNCHANGED <<codes, rest>>

\* admin user create; an address in use leaves the account without one.
AdminUserCreate(u, a, verified) ==
    /\ Op
    /\ acct[u].is = "none"
    /\ acct' = [acct EXCEPT ![u] = [NoAccount EXCEPT !.is = "here"]]
    /\ IF mail[a] = Free
       THEN /\ mail' = [mail EXCEPT ![a] = [owner |-> u, verified |-> verified,
                                            primary |-> TRUE]]
            /\ proven' = IF verified THEN proven \cup {<<u, a>>} ELSE proven
       ELSE UNCHANGED <<mail, proven>>
    /\ UNCHANGED <<codes, invites, rest>>

-----------------------------------------------------------------------------
(* Addresses *)

EmailAdd(u, a) ==
    /\ Op
    /\ MayRun(u) /\ mail[a] = Free
    /\ mail' = [mail EXCEPT ![a] = [Free EXCEPT !.owner = u]]
    /\ codes' \in {codes, codes \cup {<<u, a>>}}
    /\ UNCHANGED <<acct, invites, proven, rest>>

\* ConsumeEmailToken: the code is the account's and it is used up.
ConsumeCode(u, a) ==
    /\ MayRun(u) /\ handler[u] = IdleHandler
    /\ <<u, a>> \in codes
    /\ codes' = codes \ {<<u, a>>}
    /\ handler' = [handler EXCEPT ![u] = [at |-> "verify", addr |-> a]]
    /\ proven' = proven \cup {<<u, a>>}
    /\ UNCHANGED <<acct, mail, invites, deletions, owns, wrote, orgAdmins,
                   suspended, reopened, workers, acctOps>>

\* A plausible mistake: the row of the address is verified, whoever has it by now.
AddressOfAny(u, a) == mail[a].owner # Nobody

\* The row the UPDATE of VerifyEmail finds.
AddressOf(u, a) == mail[a].owner = u

VerifyEmail(u) ==
    LET a == handler[u].addr
    IN  /\ handler[u].at = "verify"
        /\ IF AddressOf(u, a)
           THEN /\ mail' = [mail EXCEPT ![a].verified = TRUE]
                /\ handler' = [handler EXCEPT ![u].at = "clear"]
           ELSE /\ handler' = [handler EXCEPT ![u] = IdleHandler]
                /\ mail' = mail
        /\ UNCHANGED <<acct, codes, invites, deletions, owns, wrote, orgAdmins,
                       proven, suspended, reopened, workers, acctOps>>

ClearPending(u) ==
    /\ handler[u].at = "clear"
    /\ handler' = [handler EXCEPT ![u] = IdleHandler]
    /\ acct' = [acct EXCEPT ![u].pending = FALSE]
    /\ UNCHANGED <<mail, codes, invites, deletions, owns, wrote, orgAdmins,
                   proven, suspended, reopened, workers, acctOps>>

\* admin email verify leaves a pending account pending.
AdminEmailVerify(u, a) ==
    /\ Op
    /\ Here(u) /\ AddressOf(u, a)
    /\ mail' = [mail EXCEPT ![a].verified = TRUE]
    /\ proven' = proven \cup {<<u, a>>}
    /\ UNCHANGED <<acct, codes, invites, rest>>

\* A plausible mistake: the last verified address may go.
RemovableAny(u, a) == mail[a].owner = u /\ ~mail[a].primary

Removable(u, a) ==
    /\ mail[a].owner = u
    /\ ~mail[a].primary
    /\ mail[a].verified => VerifiedOf(u) # {a}

\* A plausible mistake: the code for the address stays.
EmailRemoveOnly(u, a) ==
    /\ Op
    /\ Active(u) /\ Removable(u, a)
    /\ mail' = [mail EXCEPT ![a] = Free]
    /\ UNCHANGED <<acct, codes, invites, proven, rest>>

\* The address and the code waiting for it go together.
EmailRemove(u, a) ==
    /\ Op
    /\ Active(u) /\ Removable(u, a)
    /\ mail' = [mail EXCEPT ![a] = Free]
    /\ codes' = codes \ {<<u, a>>}
    /\ UNCHANGED <<acct, invites, proven, rest>>

EmailPrimary(u, a) ==
    /\ Op
    /\ Active(u) /\ a \in VerifiedOf(u) /\ ~mail[a].primary
    /\ mail' = [b \in Addresses |->
                  IF mail[b].owner = u THEN [mail[b] EXCEPT !.primary = (b = a)]
                  ELSE mail[b]]
    /\ UNCHANGED <<acct, codes, invites, proven, rest>>

CodeExpires(u, a) ==
    /\ <<u, a>> \in codes
    /\ codes' = codes \ {<<u, a>>}
    /\ UNCHANGED <<acct, mail, invites, proven, rest, acctOps>>

-----------------------------------------------------------------------------
(* What an account does: enough of it to stand in the way of a deletion *)

CreateRepo(u) ==
    /\ Op
    /\ Active(u) /\ u \notin owns
    /\ owns' = owns \cup {u}
    /\ UNCHANGED <<acct, mail, codes, invites, deletions, wrote, orgAdmins,
                   handler, proven, suspended, reopened, workers>>

Write(u) ==
    /\ Op
    /\ Active(u) /\ u \notin wrote
    /\ wrote' = wrote \cup {u}
    /\ UNCHANGED <<acct, mail, codes, invites, deletions, owns, orgAdmins,
                   handler, proven, suspended, reopened, workers>>

\* Creating an organization, or an admin of it naming another.
JoinOrg(u) ==
    /\ Op
    /\ Here(u) /\ u \notin orgAdmins
    /\ orgAdmins = {} => Active(u)
    /\ orgAdmins' = orgAdmins \cup {u}
    /\ UNCHANGED <<acct, mail, codes, invites, deletions, owns, wrote, handler,
                   proven, suspended, reopened, workers>>

\* RemoveOrgMember and SetOrgMember keep the last admin.
LeaveOrg(u) ==
    /\ Op
    /\ u \in orgAdmins /\ orgAdmins # {u}
    /\ orgAdmins' = orgAdmins \ {u}
    /\ UNCHANGED <<acct, mail, codes, invites, deletions, owns, wrote, handler,
                   proven, suspended, reopened, workers>>

\* Promotion is of active accounts; the last admin is not demoted, disabled
\* admins counted.
SetAdmin(u, admin) ==
    /\ Op
    /\ Here(u) /\ acct[u].admin # admin
    /\ admin => Active(u)
    /\ ~admin => \E v \in People \ {u} : Here(v) /\ acct[v].admin
    /\ acct' = [acct EXCEPT ![u].admin = admin]
    /\ UNCHANGED <<mail, codes, invites, proven, rest>>

-----------------------------------------------------------------------------
(* Suspension *)

\* admin user disable and enable: SetUserDisabled drops a request, then
\* writes the row. (What becomes of the credentials is in Credentials.)
AdminSet(u, disable) ==
    /\ Op
    /\ adminCmd = IdleAdmin /\ Here(u)
    /\ adminCmd' = [at |-> "drop", who |-> u, disable |-> disable]
    /\ UNCHANGED <<acct, mail, codes, invites, deletions, owns, wrote,
                   orgAdmins, handler, reaper, purger, proven, suspended,
                   reopened, acctFaults>>

AdminDrop ==
    /\ adminCmd.at = "drop"
    /\ deletions' = deletions \ {adminCmd.who}
    /\ adminCmd' = [adminCmd EXCEPT !.at = "update"]
    /\ UNCHANGED <<acct, mail, codes, invites, owns, wrote, orgAdmins, handler,
                   reaper, purger, proven, suspended, reopened, acctOps,
                   acctFaults>>

\* A scheduled deletion goes either way; a purge under way stays marked.
AdminUpdate ==
    LET u == adminCmd.who
    IN  /\ adminCmd.at = "update"
        /\ adminCmd' = IdleAdmin
        /\ IF Here(u)
           THEN /\ acct' = [acct EXCEPT ![u].disabled = adminCmd.disable,
                              ![u].after = IF @ = "purging" THEN @ ELSE ""]
                /\ suspended' = IF adminCmd.disable THEN suspended \cup {u}
                                ELSE suspended \ {u}
                /\ reopened' = IF ~adminCmd.disable /\ acct[u].after = "purging"
                               THEN reopened \cup {u} ELSE reopened
           ELSE UNCHANGED <<acct, suspended, reopened>>
        /\ UNCHANGED <<mail, codes, invites, deletions, owns, wrote, orgAdmins,
                       handler, reaper, purger, proven, acctOps, acctFaults>>

-----------------------------------------------------------------------------
(* Deletion by the owner *)

SoleOrgAdmin(u) == orgAdmins = {u}

\* account delete --confirm: checked, and a link is mailed.
RequestDeletion(u) ==
    /\ Op
    /\ Active(u) /\ handler[u] = IdleHandler
    /\ acct[u].admin => \E v \in People \ {u} : Active(v) /\ acct[v].admin
    /\ ~SoleOrgAdmin(u)
    /\ VerifiedOf(u) # {}
    /\ deletions' = deletions \cup {u}
    /\ UNCHANGED <<acct, mail, codes, invites, owns, wrote, orgAdmins, handler,
                   proven, suspended, reopened, workers>>

LinkExpires(u) ==
    /\ u \in deletions
    /\ deletions' = deletions \ {u}
    /\ UNCHANGED <<acct, mail, codes, invites, owns, wrote, orgAdmins, handler,
                   proven, suspended, reopened, workers, acctOps>>

\* ConfirmAccountDeletion reads the account and refuses a suspended one.
ConfirmRead(u) ==
    /\ u \in deletions /\ MayRun(u) /\ handler[u] = IdleHandler
    /\ handler' = [handler EXCEPT ![u].at = "confirm"]
    /\ UNCHANGED <<acct, mail, codes, invites, deletions, owns, wrote,
                   orgAdmins, proven, suspended, reopened, workers, acctOps>>

\* A plausible mistake: the row is written without asking again.
SchedulableAny(u) == Here(u)

\* The UPDATE's own condition: the account may have been suspended since.
Schedulable(u) == Here(u) /\ ~acct[u].disabled

ConfirmSchedule(u) ==
    /\ handler[u].at = "confirm"
    /\ handler' = [handler EXCEPT ![u] = IdleHandler]
    /\ deletions' = deletions \ {u}
    /\ acct' = IF Schedulable(u)
               THEN [acct EXCEPT ![u].disabled = TRUE, ![u].after = "later"]
               ELSE acct
    /\ UNCHANGED <<mail, codes, invites, owns, wrote, orgAdmins, proven,
                   suspended, reopened, workers, acctOps>>

\* The owner signs in on the web or with a full-scope key, or runs account
\* delete --cancel: CancelAccountDeletion, two statements.
SignIn(u) ==
    /\ Here(u) /\ handler[u] = IdleHandler
    /\ acct[u].after # "" \/ (u \in deletions /\ MayRun(u))
    /\ handler' = [handler EXCEPT ![u].at = "drop"]
    /\ UNCHANGED <<acct, mail, codes, invites, deletions, owns, wrote,
                   orgAdmins, proven, suspended, reopened, workers, acctOps>>

CancelDrop(u) ==
    /\ handler[u].at = "drop"
    /\ deletions' = deletions \ {u}
    /\ handler' = [handler EXCEPT ![u].at = "enable"]
    /\ UNCHANGED <<acct, mail, codes, invites, owns, wrote, orgAdmins, proven,
                   suspended, reopened, workers, acctOps>>

Cancellable(u) == Here(u) /\ acct[u].after \in {"later", "due"}

CancelEnable(u) ==
    /\ handler[u].at = "enable"
    /\ handler' = [handler EXCEPT ![u] = IdleHandler]
    /\ acct' = IF Cancellable(u)
               THEN [acct EXCEPT ![u].disabled = FALSE, ![u].after = ""]
               ELSE acct
    /\ UNCHANGED <<mail, codes, invites, deletions, owns, wrote, orgAdmins,
                   proven, suspended, reopened, workers, acctOps>>

GraceEnds(u) ==
    /\ Here(u) /\ acct[u].after = "later"
    /\ acct' = [acct EXCEPT ![u].after = "due"]
    /\ UNCHANGED <<mail, codes, invites, proven, rest, acctOps>>

-----------------------------------------------------------------------------
(* Deleting the row *)

\* What DeleteUser counts before its transaction.
Blocked(u) == u \in owns \/ u \in wrote \/ SoleOrgAdmin(u)

\* The account's addresses, codes, requests and memberships cascade.
Erase(u) ==
    /\ acct' = [acct EXCEPT ![u] = [NoAccount EXCEPT !.is = "gone"]]
    /\ mail' = [a \in Addresses |-> IF mail[a].owner = u THEN Free ELSE mail[a]]
    /\ codes' = {c \in codes : c[1] # u}
    /\ deletions' = deletions \ {u}
    /\ orgAdmins' = orgAdmins \ {u}
    /\ proven' = {p \in proven : p[1] # u}
    /\ suspended' = suspended \ {u}
    /\ reopened' = reopened \ {u}
    /\ handler' = [handler EXCEPT ![u] = IdleHandler]

\* admin user delete: the counts, then the transaction.
AdminDelete(u) ==
    /\ Op
    /\ adminCmd = IdleAdmin /\ Here(u) /\ ~Blocked(u)
    /\ adminCmd' = [at |-> "delete", who |-> u, disable |-> FALSE]
    /\ UNCHANGED <<acct, mail, codes, invites, deletions, owns, wrote,
                   orgAdmins, handler, reaper, purger, proven, suspended,
                   reopened, acctFaults>>

AdminErase ==
    /\ adminCmd.at = "delete"
    /\ adminCmd' = IdleAdmin
    /\ IF Here(adminCmd.who) THEN Erase(adminCmd.who)
       ELSE UNCHANGED <<acct, mail, codes, deletions, orgAdmins, proven,
                        suspended, reopened, handler>>
    /\ UNCHANGED <<invites, owns, wrote, reaper, purger, acctOps, acctFaults>>

-----------------------------------------------------------------------------
(* The reaper *)

GrowsOld(u) ==
    /\ Here(u) /\ acct[u].pending /\ ~acct[u].old
    /\ acct' = [acct EXCEPT ![u].old = TRUE]
    /\ UNCHANGED <<mail, codes, invites, proven, rest, acctOps>>

\* ReapPendingUsers: the list is read, then its accounts are deleted one by
\* one, each after DeleteUser's counts. Nothing asks whether they are still
\* pending.
Stale == {u \in People : Here(u) /\ acct[u].pending /\ acct[u].old}

ReapList ==
    /\ reaper = IdleReaper /\ Stale # {}
    /\ reaper' = [reaper EXCEPT !.list = Stale]
    /\ UNCHANGED <<acct, mail, codes, invites, deletions, owns, wrote,
                   orgAdmins, handler, adminCmd, purger, proven, suspended,
                   reopened, acctOps, acctFaults>>

Reaped == CHOOSE u \in reaper.list : TRUE

ReapCheck ==
    /\ reaper.list # {} /\ ~reaper.checked
    /\ reaper' = IF Here(Reaped) /\ ~Blocked(Reaped)
                 THEN [reaper EXCEPT !.checked = TRUE]
                 ELSE [reaper EXCEPT !.list = @ \ {Reaped}]
    /\ UNCHANGED <<acct, mail, codes, invites, deletions, owns, wrote,
                   orgAdmins, handler, adminCmd, purger, proven, suspended,
                   reopened, acctOps, acctFaults>>

ReapErase ==
    /\ reaper.checked
    /\ reaper' = [list |-> reaper.list \ {Reaped}, checked |-> FALSE]
    /\ IF Here(Reaped) THEN Erase(Reaped)
       ELSE UNCHANGED <<acct, mail, codes, deletions, orgAdmins, proven,
                        suspended, reopened, handler>>
    /\ UNCHANGED <<invites, owns, wrote, adminCmd, purger, acctOps, acctFaults>>

-----------------------------------------------------------------------------
(* The purge *)

DueDeletions == {u \in People : Here(u) /\ acct[u].after \in {"due", "purging"}}

Purged == CHOOSE u \in purger.list : TRUE

PurgeTo(step) == purger' = [purger EXCEPT !.at = step]

\* On to the next account of the list.
PurgeNext ==
    purger' = IF purger.list = {Purged} THEN IdlePurger
              ELSE [purger EXCEPT !.list = @ \ {Purged}, !.at = "check"]

PurgeList ==
    /\ purger = IdlePurger /\ DueDeletions # {}
    /\ purger' = [list |-> DueDeletions, at |-> "check",
                  resumed |-> {u \in DueDeletions : acct[u].after = "purging"}]
    /\ UNCHANGED <<acct, mail, codes, invites, deletions, owns, wrote,
                   orgAdmins, handler, adminCmd, reaper, proven, suspended,
                   reopened, acctOps, acctFaults>>

\* An account that has become an organization's only admin is skipped.
PurgeCheck ==
    /\ purger.at = "check"
    /\ IF Purged \notin purger.resumed /\ SoleOrgAdmin(Purged) THEN PurgeNext
       ELSE PurgeTo("claim")
    /\ UNCHANGED <<acct, mail, codes, invites, deletions, owns, wrote,
                   orgAdmins, handler, adminCmd, reaper, proven, suspended,
                   reopened, acctOps, acctFaults>>

\* A plausible mistake: the list is believed.
ClaimableListed(u) == Here(u)

\* A plausible mistake: a purge that was cut short is not taken up.
ClaimableOnce(u) == Here(u) /\ acct[u].disabled /\ acct[u].after = "due"

\* ClaimDeletion's condition, in one statement with the mark.
Claimable(u) ==
    /\ Here(u) /\ acct[u].disabled
    /\ acct[u].after \in {"due", "purging"}

PurgeClaim ==
    /\ purger.at = "claim"
    /\ IF Claimable(Purged)
       THEN /\ acct' = [acct EXCEPT ![Purged].after = "purging"]
            /\ PurgeTo("repos")
       ELSE PurgeNext /\ UNCHANGED acct
    /\ UNCHANGED <<mail, codes, invites, deletions, owns, wrote, orgAdmins,
                   handler, adminCmd, reaper, proven, suspended, reopened,
                   acctOps, acctFaults>>

\* removeRepo for every repository.
PurgeRepos ==
    /\ purger.at = "repos"
    /\ owns' = owns \ {Purged}
    /\ PurgeTo("ghost")
    /\ UNCHANGED <<acct, mail, codes, invites, deletions, wrote, orgAdmins,
                   handler, adminCmd, reaper, proven, suspended, reopened,
                   acctOps, acctFaults>>

\* ReassignToGhost: what it wrote is the ghost's.
PurgeGhost ==
    /\ purger.at = "ghost"
    /\ wrote' = wrote \ {Purged}
    /\ PurgeTo("blockers")
    /\ UNCHANGED <<acct, mail, codes, invites, deletions, owns, orgAdmins,
                   handler, adminCmd, reaper, proven, suspended, reopened,
                   acctOps, acctFaults>>

PurgeBlockers ==
    /\ purger.at = "blockers"
    /\ IF Blocked(Purged) THEN PurgeNext ELSE PurgeTo("delete")
    /\ UNCHANGED <<acct, mail, codes, invites, deletions, owns, wrote,
                   orgAdmins, handler, adminCmd, reaper, proven, suspended,
                   reopened, acctOps, acctFaults>>

PurgeErase ==
    /\ purger.at = "delete"
    /\ PurgeNext
    /\ IF Here(Purged) THEN Erase(Purged)
       ELSE UNCHANGED <<acct, mail, codes, deletions, orgAdmins, proven,
                        suspended, reopened, handler>>
    /\ UNCHANGED <<invites, owns, wrote, adminCmd, reaper, acctOps, acctFaults>>

\* A step fails (a disk, a backup that holds the lock): the next account.
PurgeFails ==
    /\ acctFaults < MaxAcctFaults
    /\ purger.at \in {"repos", "ghost"}
    /\ acctFaults' = acctFaults + 1
    /\ PurgeNext
    /\ UNCHANGED <<acct, mail, codes, invites, deletions, owns, wrote,
                   orgAdmins, handler, adminCmd, reaper, proven, suspended,
                   reopened, acctOps>>

\* A restart: nothing under way survives, every row does.
AccountRestart ==
    /\ acctFaults < MaxAcctFaults
    /\ acctFaults' = acctFaults + 1
    /\ handler' = [u \in People |-> IdleHandler]
    /\ adminCmd' = IdleAdmin
    /\ reaper' = IdleReaper
    /\ purger' = IdlePurger
    /\ UNCHANGED <<acct, mail, codes, invites, deletions, owns, wrote,
                   orgAdmins, proven, suspended, reopened, acctOps>>

-----------------------------------------------------------------------------

ReapStep == ReapList \/ ReapCheck \/ ReapErase
PurgeStep == PurgeList \/ PurgeCheck \/ PurgeClaim \/ PurgeRepos
             \/ PurgeGhost \/ PurgeBlockers \/ PurgeErase

AccountNext ==
    \/ \E u \in People, a \in Addresses :
         \/ RegisterOpen(u, a) \/ RedeemInvite(u, a)
         \/ AdminUserCreate(u, a, TRUE) \/ AdminUserCreate(u, a, FALSE)
         \/ EmailAdd(u, a) \/ ConsumeCode(u, a) \/ CodeExpires(u, a)
         \/ AdminEmailVerify(u, a) \/ EmailRemove(u, a) \/ EmailPrimary(u, a)
    \/ \E a \in Addresses : Invite(a)
    \/ \E u \in People :
         \/ VerifyEmail(u) \/ ClearPending(u)
         \/ CreateRepo(u) \/ Write(u) \/ JoinOrg(u) \/ LeaveOrg(u)
         \/ SetAdmin(u, TRUE) \/ SetAdmin(u, FALSE)
         \/ AdminSet(u, TRUE) \/ AdminSet(u, FALSE) \/ AdminDelete(u)
         \/ RequestDeletion(u) \/ LinkExpires(u) \/ ConfirmRead(u)
         \/ ConfirmSchedule(u) \/ SignIn(u) \/ CancelDrop(u) \/ CancelEnable(u)
         \/ GraceEnds(u) \/ GrowsOld(u)
    \/ AdminDrop \/ AdminUpdate \/ AdminErase
    \/ ReapStep \/ PurgeStep \/ PurgeFails \/ AccountRestart

AccountSpec == AccountInit /\ [][AccountNext]_accountVars

\* The purge runs every hour and each of its steps ends.
AccountFairness == WF_accountVars(PurgeStep)

-----------------------------------------------------------------------------
(* Properties *)

\* An address counts as verified for an account only if that account proved
\* it, was invited at it, or an admin vouched: the code that was used up is
\* for the account that has the address when the row is written, although
\* the address may be removed and taken by another in between.
VerifiedWasProven ==
    \A a \in Addresses : mail[a].verified => <<mail[a].owner, a>> \in proven

\* Activation, login links and deletion resolve through a verified address:
\* an account that registered itself and is active always has one, and no
\* account ever has two primary addresses.
AddressesStay ==
    \A u \in People : Here(u) =>
        /\ acct[u].own /\ ~acct[u].pending => VerifiedOf(u) # {}
        /\ Cardinality({a \in Addresses : mail[a].owner = u
                                          /\ mail[a].primary}) <= 1

\* An admin's suspension holds until an admin lifts it: no deletion link
\* read before it, no sign-in and no cancellation turns it into a schedule
\* or lifts it.
SuspensionHolds ==
    \A u \in suspended : acct[u].disabled /\ acct[u].after \in {"", "purging"}

\* The purge takes nothing from an account that is not marked as claimed: an
\* owner who signed in, or an admin who acted, before the claim wins, and
\* after it no link, sign-in or admin takes the mark off. The exception is an
\* account that an admin enabled while it was marked: its owner can have the
\* deletion confirmed anew, which writes a date over the mark.
PurgeIsClaimed ==
    purger.at \in {"repos", "ghost", "blockers", "delete"} =>
        \/ ~Here(Purged)
        \/ acct[Purged].after = "purging"
        \/ Purged \in reopened

\* Addresses, suspensions and purges of an account stay as its owner and the
\* admins left them (store/users.go, accountdelete.go, registration.go).
AccountsInOrder ==
    VerifiedWasProven /\ AddressesStay /\ SuspensionHolds /\ PurgeIsClaimed

\* A claimed purge completes through failures and restarts, unless an admin
\* enables the account meanwhile or it has become the only admin of an
\* organization.
ClaimedIsPurged ==
    AccountFairness =>
        []<>(\A u \in People :
               Here(u) /\ acct[u].after = "purging"
                 => ~acct[u].disabled \/ SoleOrgAdmin(u))
=============================================================================
