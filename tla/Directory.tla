----------------------------- MODULE Directory -----------------------------
(***************************************************************************)
(* Repositories as rows and as directories: creation, fork, import and     *)
(* account bundles, transfer, rename, deletion, the renaming of an         *)
(* organization, the repository quota, and the full backup that must find  *)
(* on disk what its database snapshot names (control/repo.go, mr.go,       *)
(* import.go, migrate.go, org.go and quota.go; store/repos.go and orgs.go; *)
(* cmd/gitbayd/backup.go and internal/backuplock).                         *)
(*                                                                         *)
(* A handler takes a step for every database statement and every operation *)
(* on the disk. Nothing locks a repository or a path, so commands on the   *)
(* same one may cross; those are recorded in crossed.                      *)
(***************************************************************************)
EXTENDS Integers, FiniteSets

CONSTANTS
    DirIds,        \* repository ids, never used again (AUTOINCREMENT)
    Owners,     \* accounts and organizations
    Orgs,       \* the organizations among them
    OwnerNames, \* names an owner may have
    FirstName,  \* owner -> the name it begins with
    Names,      \* repository names
    Cmds,       \* numbers of the commands that may be under way at once
    Nil,
    MaxRepos,   \* limits.max_repos_per_user, max_repos_per_org
    MaxDirOps, MaxDirFaults, MaxBackups  \* bounds

Kinds == {"create", "fork", "import", "bundle", "transfer", "rename",
          "delete", "orgrename"}

ASSUME DirectoryAssumption ==
    /\ Orgs \subseteq Owners /\ Cmds \subseteq Nat /\ DirIds \subseteq Nat
    /\ DirIds # {} /\ Names # {}
    /\ Nil \notin DirIds \cup Owners \cup Names \cup Cmds
    /\ Nil \notin Kinds
    /\ Nil \notin OwnerNames \X (Names \cup {Nil})
    /\ FirstName \in [Owners -> OwnerNames]
    /\ \A o, p \in Owners : o # p => FirstName[o] # FirstName[p]
    /\ MaxRepos \in Nat \ {0}
    /\ {MaxDirOps, MaxDirFaults, MaxBackups} \subseteq Nat

VARIABLES
    repos,     \* rows of repos
    ownerName, \* owner -> its name
    disk,      \* path -> the repository whose files are there, or Nil
    cmd,       \* the commands under way
    createMu,  \* who holds repoCreateMu
    backup,    \* the backup's process
    bundled,   \* history: rows an account bundle made
    crossed,   \* history: repositories whose commands crossed
    dirOps, dirFaults, backups  \* counters for the bounds

directoryVars == <<repos, ownerName, disk, cmd, createMu, backup, bundled,
                   crossed, dirOps, dirFaults, backups>>

-----------------------------------------------------------------------------
(* The shape of the state *)

Paths == OwnerNames \X Names

Repo == [is: {"none", "here", "gone"}, owner: Owners \cup {Nil},
         name: Names \cup {Nil}]
NoRepo == [is |-> "none", owner |-> Nil, name |-> Nil]

\* from, to: the paths the handler computed when it read the rows; lock: it
\* holds the backup lock shared; over: it crossed another.
Cmd == [at: {"idle", "mutex", "insert", "init", "fetch", "unmake", "clean",
             "check", "move", "record", "back", "revert", "remove"},
        kind: Kinds \cup {Nil}, id: DirIds \cup {Nil}, owner: Owners \cup {Nil},
        from: (OwnerNames \X (Names \cup {Nil})) \cup {Nil},
        to: (OwnerNames \X (Names \cup {Nil})) \cup {Nil}, lock: BOOLEAN,
        over: BOOLEAN]
NoCmd == [at |-> "idle", kind |-> Nil, id |-> Nil, owner |-> Nil,
          from |-> Nil, to |-> Nil, lock |-> FALSE, over |-> FALSE]

Backup == [at: {"idle", "held", "walk", "done"}, named: SUBSET DirIds,
           todo: SUBSET Paths, archived: SUBSET DirIds]
NoBackup == [at |-> "idle", named |-> {}, todo |-> {}, archived |-> {}]

DirectoryTypeOK ==
    /\ repos \in [DirIds -> Repo]
    /\ ownerName \in [Owners -> OwnerNames]
    /\ disk \in [Paths -> DirIds \cup {Nil}]
    /\ cmd \in [Cmds -> Cmd]
    /\ createMu \in Cmds \cup {Nil}
    /\ backup \in Backup
    /\ bundled \subseteq DirIds /\ crossed \subseteq DirIds
    /\ dirOps \in 0..MaxDirOps /\ dirFaults \in 0..MaxDirFaults
    /\ backups \in 0..MaxBackups
    /\ \A r, s \in DirIds : r # s /\ repos[r].is = "here" /\ repos[s].is = "here"
                         => <<repos[r].owner, repos[r].name>>
                              # <<repos[s].owner, repos[s].name>>

\* Nothing yet, or one repository made before.
DirectoryInit ==
    /\ ownerName = FirstName
    /\ \/ /\ repos = [r \in DirIds |-> NoRepo]
          /\ disk = [p \in Paths |-> Nil]
       \/ \E old \in DirIds, o \in Owners, n \in Names :
            /\ \A s \in DirIds : old <= s
            /\ repos = [r \in DirIds |->
                          IF r = old
                          THEN [is |-> "here", owner |-> o, name |-> n]
                          ELSE NoRepo]
            /\ disk = [p \in Paths |->
                         IF p = <<FirstName[o], n>> THEN old ELSE Nil]
    /\ cmd = [c \in Cmds |-> NoCmd]
    /\ createMu = Nil
    /\ backup = NoBackup
    /\ bundled = {} /\ crossed = {}
    /\ dirOps = 0 /\ dirFaults = 0 /\ backups = 0

Exists(r) == repos[r].is = "here"
PathOf(r) == <<ownerName[repos[r].owner], repos[r].name>>
OwnedBy(o) == {r \in DirIds : Exists(r) /\ repos[r].owner = o}
Named(o, n) == {r \in OwnedBy(o) : repos[r].name = n}

\* What two commands must share for their order to matter: a path, a
\* repository, or an organization that one of them renames.
PathsOf(k) ==
    {p \in Paths : \E q \in {k.from, k.to} \ {Nil} :
                     p[1] = q[1] /\ q[2] \in {p[2], Nil}}
RenamedBy(k) == IF k.kind = "orgrename" THEN OwnedBy(k.owner) ELSE {}
IdsOf(k) == ({k.id} \cup {disk[p] : p \in PathsOf(k)} \cup RenamedBy(k)) \ {Nil}

Overlaps(k, l) ==
    /\ l.at # "idle"
    /\ \/ PathsOf(k) \cap PathsOf(l) # {}
       \/ IdsOf(k) \cap IdsOf(l) # {}
       \/ k.owner = l.owner /\ "orgrename" \in {k.kind, l.kind}

\* A command begins, in the first free slot: it has read what it needs of
\* the rows.
Begin(c, k) ==
    LET met == {d \in Cmds : Overlaps(k, cmd[d])}
    IN  /\ dirOps < MaxDirOps /\ dirOps' = dirOps + 1
        /\ cmd[c].at = "idle" /\ \A d \in Cmds : d < c => cmd[d].at # "idle"
        /\ cmd' = [d \in Cmds |->
                     IF d = c THEN [k EXCEPT !.over = met # {}]
                     ELSE [cmd[d] EXCEPT !.over = @ \/ d \in met]]
        /\ crossed' = crossed \cup UNION {IdsOf(k) \cup IdsOf(cmd[d]) :
                                            d \in met}
        /\ UNCHANGED <<repos, ownerName, disk, createMu, backup, bundled,
                       dirFaults, backups>>

Step(c, at) == cmd' = [cmd EXCEPT ![c].at = at]
CmdEnds(c) == cmd' = [cmd EXCEPT ![c] = NoCmd]

Fault == dirFaults < MaxDirFaults /\ dirFaults' = dirFaults + 1
NoFault == dirFaults' = dirFaults

-----------------------------------------------------------------------------
(* The locks *)

\* A plausible mistake: nothing serialises the count with the insert.
MutexFreeAlways == TRUE

MutexFree == createMu = Nil

\* A plausible mistake: a move does not ask whether a backup runs.
LockFreeAlways == TRUE

\* backuplock.TryShared: refused while a backup holds the lock.
LockFree == backup.at \in {"idle", "done"}

-----------------------------------------------------------------------------
(* Making a repository *)

\* runRepoCreate, runRepoFork and runRepoImport; fork copies the refs of
\* another repository, import those of a remote.
BeginCreate(c, kind, o, n) ==
    Begin(c, [NoCmd EXCEPT !.at = "mutex", !.kind = kind, !.owner = o,
                           !.to = <<ownerName[o], n>>])

\* runAccountImportBundle makes what the account lacks, and asks for no
\* quota.
BeginBundle(c, o, n) ==
    /\ o \notin Orgs /\ Named(o, n) = {}
    /\ Begin(c, [NoCmd EXCEPT !.at = "insert", !.kind = "bundle", !.owner = o,
                              !.to = <<ownerName[o], n>>])

\* repoCreateMu.Lock.
TakeMutex(c) ==
    /\ cmd[c].at = "mutex" /\ MutexFree
    /\ createMu' = c
    /\ Step(c, IF cmd[c].kind = "transfer" THEN "check" ELSE "insert")
    /\ UNCHANGED <<repos, ownerName, disk, backup, bundled, crossed, dirOps,
                   dirFaults, backups>>

\* checkRepoQuota.
InQuota(o) == Cardinality(OwnedBy(o)) < MaxRepos

\* The quota was counted under the mutex; the INSERT is refused when the
\* owner has the name. The count and the insert are a step each: from is
\* set once the count is done.
CountQuota(c) ==
    /\ cmd[c].at = "insert" /\ cmd[c].kind # "bundle" /\ cmd[c].from = Nil
    /\ IF InQuota(cmd[c].owner)
       THEN /\ cmd' = [cmd EXCEPT ![c].from = cmd[c].to]
            /\ UNCHANGED createMu
       ELSE CmdEnds(c) /\ createMu' = Nil
    /\ UNCHANGED <<repos, ownerName, disk, backup, bundled, crossed, dirOps,
                   dirFaults, backups>>

CreateRow(c) ==
    LET k == cmd[c]
        name == k.to[2]
    IN  /\ k.at = "insert" /\ (k.kind = "bundle" \/ k.from # Nil)
        /\ IF Named(k.owner, name) # {}
           THEN CmdEnds(c) /\ UNCHANGED <<repos, bundled, crossed>>
           ELSE \E r \in DirIds :
                  /\ repos[r].is = "none"
                  /\ \A s \in DirIds : repos[s].is = "none" => r <= s
                  /\ repos' = [repos EXCEPT ![r] =
                                 [is |-> "here", owner |-> k.owner,
                                  name |-> name]]
                  /\ cmd' = [cmd EXCEPT ![c].at = "init", ![c].id = r]
                  /\ bundled' = IF k.kind = "bundle" THEN bundled \cup {r}
                                ELSE bundled
                  /\ crossed' = IF k.over THEN crossed \cup {r} ELSE crossed
        /\ createMu' = IF createMu = c THEN Nil ELSE createMu
        /\ UNCHANGED <<ownerName, disk, backup, dirOps, dirFaults, backups>>

\* InitBare. A directory that is there already is taken over as it is.
InitBare(c) ==
    LET k == cmd[c]
    IN  /\ k.at = "init"
        /\ \/ /\ NoFault
              /\ disk' = IF disk[k.to] = Nil
                         THEN [disk EXCEPT ![k.to] = k.id] ELSE disk
              /\ crossed' = IF disk[k.to] = Nil THEN crossed
                            ELSE crossed \cup {k.id, disk[k.to]}
              /\ IF k.kind \in {"fork", "import"} THEN Step(c, "fetch")
                 ELSE CmdEnds(c)
           \/ Fault /\ Step(c, "unmake") /\ UNCHANGED <<disk, crossed>>
        /\ UNCHANGED <<repos, ownerName, createMu, backup, bundled, dirOps,
                       backups>>

\* FetchInto and FetchMirror.
FetchRefs(c) ==
    /\ cmd[c].at = "fetch"
    /\ \/ NoFault /\ CmdEnds(c)
       \/ Fault /\ Step(c, "unmake")
    /\ UNCHANGED <<repos, ownerName, disk, createMu, backup, bundled, crossed,
                   dirOps, backups>>

\* A creation that failed takes its row back; only an import takes the
\* directory too, and holds no lock for it.
Unmake(c) ==
    /\ cmd[c].at = "unmake"
    /\ repos' = [repos EXCEPT ![cmd[c].id] = [NoRepo EXCEPT !.is = "gone"]]
    /\ IF cmd[c].kind = "import" THEN Step(c, "clean") ELSE CmdEnds(c)
    /\ UNCHANGED <<ownerName, disk, createMu, backup, bundled, crossed, dirOps,
                   dirFaults, backups>>

\* os.RemoveAll, whosever files are there by now.
RemoveDir(c, p) ==
    /\ disk' = [disk EXCEPT ![p] = Nil]
    /\ crossed' = crossed \cup ({disk[p]} \ {Nil, cmd[c].id})

CleanImport(c) ==
    /\ cmd[c].at = "clean"
    /\ RemoveDir(c, cmd[c].to)
    /\ CmdEnds(c)
    /\ UNCHANGED <<repos, ownerName, createMu, backup, bundled, dirOps,
                   dirFaults, backups>>

-----------------------------------------------------------------------------
(* Moving one *)

\* os.Rename: the source must be there and the target must not.
CanMove(from, to) == disk[from] # Nil /\ disk[to] = Nil
Moved(from, to) == [disk EXCEPT ![to] = disk[from], ![from] = Nil]

BeginTransfer(c, r, o) ==
    /\ Exists(r) /\ repos[r].owner # o
    /\ Begin(c, [NoCmd EXCEPT !.at = "mutex", !.kind = "transfer", !.id = r,
                   !.owner = o, !.from = PathOf(r),
                   !.to = <<ownerName[o], repos[r].name>>])

BeginRename(c, r, n) ==
    /\ Exists(r) /\ repos[r].name # n
    /\ Begin(c, [NoCmd EXCEPT !.at = "check", !.kind = "rename", !.id = r,
                   !.owner = repos[r].owner, !.from = PathOf(r),
                   !.to = <<PathOf(r)[1], n>>])

\* The checks before anything moves, and the backup lock.
CheckMove(c) ==
    LET k == cmd[c]
        refused == \/ k.kind = "transfer" /\ ~InQuota(k.owner)
                   \/ disk[k.to] # Nil
                   \/ ~LockFree
    IN  /\ k.at = "check" /\ k.kind \in {"transfer", "rename"}
        /\ IF refused
           THEN /\ CmdEnds(c)
                /\ createMu' = IF createMu = c THEN Nil ELSE createMu
           ELSE /\ cmd' = [cmd EXCEPT ![c].lock = TRUE, ![c].at =
                             IF k.kind = "transfer" THEN "move" ELSE "record"]
                /\ UNCHANGED createMu
        /\ UNCHANGED <<repos, ownerName, disk, backup, bundled, crossed,
                       dirOps, dirFaults, backups>>

\* runRepoTransfer moves the directory first.
TransferDir(c) ==
    LET k == cmd[c]
    IN  /\ k.at = "move" /\ k.kind = "transfer"
        /\ \/ /\ CanMove(k.from, k.to) /\ NoFault
              /\ disk' = Moved(k.from, k.to)
              /\ Step(c, "record") /\ UNCHANGED createMu
           \/ /\ CanMove(k.from, k.to) /\ Fault
              /\ CmdEnds(c) /\ createMu' = Nil /\ UNCHANGED disk
           \/ /\ ~CanMove(k.from, k.to) /\ NoFault
              /\ CmdEnds(c) /\ createMu' = Nil /\ UNCHANGED disk
        /\ UNCHANGED <<repos, ownerName, backup, bundled, crossed, dirOps,
                       backups>>

\* TransferRepo: the UPDATE finds no row when it is gone, and that is no
\* error; the unique index may refuse it.
TransferRow(c) ==
    LET k == cmd[c]
        taken == Exists(k.id) /\ Named(k.owner, repos[k.id].name) \ {k.id} # {}
    IN  /\ k.at = "record" /\ k.kind = "transfer"
        /\ \/ /\ ~taken /\ NoFault
              /\ repos' = IF Exists(k.id)
                          THEN [repos EXCEPT ![k.id].owner = k.owner]
                          ELSE repos
              /\ CmdEnds(c) /\ createMu' = Nil
           \/ /\ (taken /\ NoFault) \/ (~taken /\ Fault)
              /\ Step(c, "back") /\ UNCHANGED <<repos, createMu>>
        /\ UNCHANGED <<ownerName, disk, backup, bundled, crossed, dirOps,
                       backups>>

\* A plausible mistake: a record that fails leaves the directory where it went.
MovedBackNot(k) == disk

\* The directory is moved back, when it can be.
MovedBack(k) == IF CanMove(k.to, k.from) THEN Moved(k.to, k.from) ELSE disk

TransferBack(c) ==
    /\ cmd[c].at = "back"
    /\ disk' = MovedBack(cmd[c])
    /\ CmdEnds(c) /\ createMu' = Nil
    /\ UNCHANGED <<repos, ownerName, backup, bundled, crossed, dirOps,
                   dirFaults, backups>>

\* RenameRepo under the unique index.
Renamed(r, n) ==
    IF Exists(r) /\ Named(repos[r].owner, n) \ {r} = {}
    THEN [repos EXCEPT ![r].name = n] ELSE repos

\* runRepoRename changes the row first.
RenameRow(c) ==
    LET k == cmd[c]
        taken == Exists(k.id) /\ Named(repos[k.id].owner, k.to[2]) \ {k.id} # {}
    IN  /\ k.at = "record" /\ k.kind = "rename"
        /\ repos' = Renamed(k.id, k.to[2])
        /\ IF taken THEN CmdEnds(c) ELSE Step(c, "move")
        /\ UNCHANGED <<ownerName, disk, createMu, backup, bundled, crossed,
                       dirOps, dirFaults, backups>>

RenameDir(c) ==
    LET k == cmd[c]
    IN  /\ k.at = "move" /\ k.kind = "rename"
        /\ \/ /\ CanMove(k.from, k.to) /\ NoFault
              /\ disk' = Moved(k.from, k.to)
              /\ CmdEnds(c)
           \/ /\ \/ ~CanMove(k.from, k.to) /\ NoFault
                 \/ CanMove(k.from, k.to) /\ Fault
              /\ Step(c, "revert") /\ UNCHANGED disk
        /\ UNCHANGED <<repos, ownerName, createMu, backup, bundled, crossed,
                       dirOps, backups>>

\* The row takes its old name again, unless another command gave that away.
RenameRevert(c) ==
    LET k == cmd[c]
        taken == Exists(k.id)
                 /\ Named(repos[k.id].owner, k.from[2]) \ {k.id} # {}
    IN  /\ k.at = "revert" /\ k.kind = "rename"
        /\ repos' = Renamed(k.id, k.from[2])
        /\ crossed' = IF taken THEN crossed \cup {k.id} ELSE crossed
        /\ CmdEnds(c)
        /\ UNCHANGED <<ownerName, disk, createMu, backup, bundled, dirOps,
                       dirFaults, backups>>

-----------------------------------------------------------------------------
(* Renaming an organization moves its tree *)

TreeOf(n) == {p \in Paths : p[1] = n /\ disk[p] # Nil}

BeginOrgRename(c, o, n) ==
    /\ o \in Orgs /\ n # ownerName[o]
    /\ Begin(c, [NoCmd EXCEPT !.at = "check", !.kind = "orgrename",
                   !.owner = o, !.from = <<ownerName[o], Nil>>,
                   !.to = <<n, Nil>>])

CheckOrgRename(c) ==
    /\ cmd[c].at = "check" /\ cmd[c].kind = "orgrename"
    /\ IF TreeOf(cmd[c].to[1]) # {} \/ ~LockFree THEN CmdEnds(c)
       ELSE cmd' = [cmd EXCEPT ![c].lock = TRUE, ![c].at = "record"]
    /\ UNCHANGED <<repos, ownerName, disk, createMu, backup, bundled, crossed,
                   dirOps, dirFaults, backups>>

\* RenameOrg refuses a name some owner has.
NameTaken(o, n) == \E p \in Owners \ {o} : ownerName[p] = n

OrgRenameRow(c) ==
    LET k == cmd[c]
    IN  /\ k.at = "record" /\ k.kind = "orgrename"
        /\ IF NameTaken(k.owner, k.to[1])
           THEN CmdEnds(c) /\ UNCHANGED ownerName
           ELSE /\ ownerName' = [ownerName EXCEPT ![k.owner] = k.to[1]]
                /\ Step(c, "move")
        /\ UNCHANGED <<repos, disk, createMu, backup, bundled, crossed, dirOps,
                       dirFaults, backups>>

OrgRenameTree(c) ==
    LET k == cmd[c]
        can == TreeOf(k.to[1]) = {}
    IN  /\ k.at = "move" /\ k.kind = "orgrename"
        /\ \/ /\ TreeOf(k.from[1]) = {} /\ NoFault
              /\ CmdEnds(c) /\ UNCHANGED disk
           \/ /\ TreeOf(k.from[1]) # {} /\ can /\ NoFault
              /\ disk' = [p \in Paths |->
                            IF p[1] = k.to[1] THEN disk[<<k.from[1], p[2]>>]
                            ELSE IF p[1] = k.from[1] THEN Nil ELSE disk[p]]
              /\ CmdEnds(c)
           \/ /\ TreeOf(k.from[1]) # {}
              /\ (can /\ Fault) \/ (~can /\ NoFault)
              /\ Step(c, "revert") /\ UNCHANGED disk
        /\ UNCHANGED <<repos, ownerName, createMu, backup, bundled, crossed,
                       dirOps, backups>>

OrgRenameRevert(c) ==
    LET k == cmd[c]
    IN  /\ k.at = "revert" /\ k.kind = "orgrename"
        /\ ownerName' = IF NameTaken(k.owner, k.from[1]) THEN ownerName
                        ELSE [ownerName EXCEPT ![k.owner] = k.from[1]]
        /\ CmdEnds(c)
        /\ UNCHANGED <<repos, disk, createMu, backup, bundled, crossed, dirOps,
                       dirFaults, backups>>

-----------------------------------------------------------------------------
(* Deleting one *)

BeginDelete(c, r) ==
    /\ Exists(r)
    /\ Begin(c, [NoCmd EXCEPT !.at = "check", !.kind = "delete", !.id = r,
                              !.from = PathOf(r)])

\* deleteRepo takes the lock.
CheckDelete(c) ==
    /\ cmd[c].at = "check" /\ cmd[c].kind = "delete"
    /\ IF LockFree THEN cmd' = [cmd EXCEPT ![c].lock = TRUE, ![c].at = "record"]
       ELSE CmdEnds(c)
    /\ UNCHANGED <<repos, ownerName, disk, createMu, backup, bundled, crossed,
                   dirOps, dirFaults, backups>>

DeleteRow(c) ==
    LET r == cmd[c].id
    IN  /\ cmd[c].at = "record" /\ cmd[c].kind = "delete"
        /\ IF Exists(r)
           THEN /\ repos' = [repos EXCEPT ![r] = [NoRepo EXCEPT !.is = "gone"]]
                /\ Step(c, "remove")
           ELSE CmdEnds(c) /\ UNCHANGED repos
        /\ UNCHANGED <<ownerName, disk, createMu, backup, bundled, crossed,
                       dirOps, dirFaults, backups>>

DeleteDir(c) ==
    /\ cmd[c].at = "remove"
    /\ \/ NoFault /\ RemoveDir(c, cmd[c].from)
       \/ Fault /\ UNCHANGED <<disk, crossed>>
    /\ CmdEnds(c)
    /\ UNCHANGED <<repos, ownerName, createMu, backup, bundled, dirOps,
                   backups>>

-----------------------------------------------------------------------------
(* The backup *)

\* backuplock.Hold waits for the commands that hold the lock.
BackupHold ==
    /\ backups < MaxBackups /\ backups' = backups + 1
    /\ backup.at \in {"idle", "done"}
    /\ \A c \in Cmds : ~cmd[c].lock
    /\ backup' = [NoBackup EXCEPT !.at = "held"]
    /\ UNCHANGED <<repos, ownerName, disk, cmd, createMu, bundled, crossed,
                   dirOps, dirFaults>>

\* The rows whose creation has not come to its directory are not yet
\* repositories.
Making == {cmd[c].id : c \in {c \in Cmds :
                                cmd[c].at \in {"init", "fetch", "unmake"}}}

\* snapshotDB, and the walk lists what is there.
Snapshot ==
    /\ backup.at = "held"
    /\ backup' = [at |-> "walk", archived |-> {},
                  named |-> {r \in DirIds : Exists(r)} \ Making,
                  todo |-> {p \in Paths : disk[p] # Nil}]
    /\ UNCHANGED <<repos, ownerName, disk, cmd, createMu, bundled, crossed,
                   dirOps, dirFaults, backups>>

\* The walk comes to a directory.
ArchiveDir(p) ==
    /\ backup.at = "walk" /\ p \in backup.todo
    /\ backup' = [backup EXCEPT !.todo = @ \ {p},
                                !.archived = @ \cup ({disk[p]} \ {Nil})]
    /\ UNCHANGED <<repos, ownerName, disk, cmd, createMu, bundled, crossed,
                   dirOps, dirFaults, backups>>

BackupDone ==
    /\ backup.at = "walk" /\ backup.todo = {}
    /\ backup' = [backup EXCEPT !.at = "done"]
    /\ UNCHANGED <<repos, ownerName, disk, cmd, createMu, bundled, crossed,
                   dirOps, dirFaults, backups>>

-----------------------------------------------------------------------------

DirectoryNext ==
    \/ \E c \in Cmds, o \in Owners, n \in Names :
         \/ \E kind \in {"create", "fork", "import"} :
              BeginCreate(c, kind, o, n)
         \/ BeginBundle(c, o, n)
    \/ \E c \in Cmds, r \in DirIds :
         \/ \E o \in Owners : BeginTransfer(c, r, o)
         \/ \E n \in Names : BeginRename(c, r, n)
         \/ BeginDelete(c, r)
    \/ \E c \in Cmds, o \in Owners, n \in OwnerNames : BeginOrgRename(c, o, n)
    \/ \E c \in Cmds :
         \/ TakeMutex(c) \/ CountQuota(c) \/ CreateRow(c) \/ InitBare(c)
         \/ FetchRefs(c) \/ Unmake(c) \/ CleanImport(c)
         \/ CheckMove(c) \/ TransferDir(c) \/ TransferRow(c) \/ TransferBack(c)
         \/ RenameRow(c) \/ RenameDir(c) \/ RenameRevert(c)
         \/ CheckOrgRename(c) \/ OrgRenameRow(c) \/ OrgRenameTree(c)
         \/ OrgRenameRevert(c)
         \/ CheckDelete(c) \/ DeleteRow(c) \/ DeleteDir(c)
    \/ BackupHold \/ Snapshot \/ BackupDone
    \/ \E p \in Paths : ArchiveDir(p)

DirectorySpec == DirectoryInit /\ [][DirectoryNext]_directoryVars

-----------------------------------------------------------------------------
(* Properties *)

\* No owner gets more repositories than the limit through creations, forks,
\* imports and transfers in any order and overlap; only an account bundle,
\* which asks for no quota, goes past it.
QuotaHolds ==
    \A o \in Owners : Cardinality(OwnedBy(o) \ bundled) <= MaxRepos

\* A repository no command is about, and whose commands never crossed with
\* another's on its path, has its own files at its path, whatever step of a
\* transfer, a rename or a creation failed.
RowHasItsDirectory ==
    \A r \in DirIds :
        (/\ Exists(r) /\ r \notin crossed
         /\ \A c \in Cmds :
              /\ cmd[c].id # r
              /\ cmd[c].kind = "orgrename" => cmd[c].owner # repos[r].owner)
            => disk[PathOf(r)] = r

\* What the snapshot of a backup names is in its archive: a repository that
\* had its directory when the snapshot was taken is not deleted, renamed or
\* transferred away under the walk.
BackupHasWhatItNames ==
    backup.at = "done" => backup.named \ crossed \subseteq backup.archived

\* What the rows say of the disk and of the archive is so.
DirectoryAgrees == QuotaHolds /\ RowHasItsDirectory /\ BackupHasWhatItNames
=============================================================================
