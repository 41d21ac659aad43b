------------------------------ MODULE Mirrors ------------------------------
(***************************************************************************)
(* Push and pull mirrors of one repository (internal/mirror/mirror.go,     *)
(* store/mirrors.go, control/mirrorcmd.go). Ref updates mark the push      *)
(* mirrors; the worker reads the mirrors due and syncs them one by one; a  *)
(* pull that succeeded asks for a symbol index.                            *)
(*                                                                         *)
(* The refs are counted: version n is what the nth change left. A sync is  *)
(* one git process; it reads the refs at one moment while it runs, and its *)
(* result is recorded afterwards.                                          *)
(***************************************************************************)
EXTENDS Integers, FiniteSets

CONSTANTS
    MirrorIds,         \* mirrors that may be added
    Direction,         \* mirror -> "push" or "pull"
    MaxUpdates,        \* bound: changes of the refs
    MaxMirrorCmds,     \* bound: mirrors added, removed and syncs asked for
    MaxMirrorRestarts  \* bound: server restarts

ASSUME MirrorAssumption ==
    /\ MirrorIds \subseteq Nat
    /\ Direction \in [MirrorIds -> {"push", "pull"}]
    /\ MaxUpdates \in Nat /\ MaxMirrorCmds \in Nat /\ MaxMirrorRestarts \in Nat

VARIABLES
    mirrors,     \* rows of mirrors: id -> [dirty, failed, stale]
    local,       \* the version of the local refs
    unmarked,    \* versions whose mark on the push mirrors is still to come
    upstream,    \* the upstream has refs no pull has fetched yet
    fetched,     \* history: the newest version a pull brought, or 0
    indexAsked,  \* history: the version the last index request saw
    remote,      \* mirror -> the version its remote holds
    syncer,      \* the worker
    mirrorCmds, mirrorRestarts  \* counters for the bounds

mirrorVars == <<mirrors, local, unmarked, upstream, fetched, indexAsked,
                remote, syncer, mirrorCmds, mirrorRestarts>>

-----------------------------------------------------------------------------
(* The shape of the state *)

RefVersions == 1..MaxUpdates

\* stale: a pull mirror never synced, or synced longer ago than the interval.
MirrorRow == [dirty: BOOLEAN, failed: BOOLEAN, stale: BOOLEAN]

\* list: the mirrors still to sync, as they were read; result: how the sync
\* of the first of them ended.
Syncer == [list: SUBSET MirrorIds, result: {"none", "ok", "error", "recorded"}]
IdleSyncer == [list |-> {}, result |-> "none"]

MirrorTypeOK ==
    /\ DOMAIN mirrors \subseteq MirrorIds
    /\ \A m \in DOMAIN mirrors : mirrors[m] \in MirrorRow
    /\ local \in 0..MaxUpdates
    /\ unmarked \subseteq RefVersions
    /\ upstream \in BOOLEAN
    /\ fetched \in 0..MaxUpdates
    /\ indexAsked \in 0..MaxUpdates
    /\ remote \in [MirrorIds -> 0..MaxUpdates]
    /\ syncer \in Syncer
    /\ mirrorCmds \in 0..MaxMirrorCmds
    /\ mirrorRestarts \in 0..MaxMirrorRestarts

MirrorInit ==
    /\ mirrors = [m \in {} |-> {}]
    /\ local = 0
    /\ unmarked = {}
    /\ upstream = TRUE
    /\ fetched = 0
    /\ indexAsked = 0
    /\ remote = [m \in MirrorIds |-> 0]
    /\ syncer = IdleSyncer
    /\ mirrorCmds = 0
    /\ mirrorRestarts = 0

PullMirrored == \E m \in DOMAIN mirrors : Direction[m] = "pull"

-----------------------------------------------------------------------------
(* Commands *)

MirrorCommand == mirrorCmds < MaxMirrorCmds /\ mirrorCmds' = mirrorCmds + 1

\* A new row is dirty from the start.
AddMirror(m) ==
    /\ MirrorCommand
    /\ m \notin DOMAIN mirrors
    /\ mirrors' = [k \in DOMAIN mirrors \cup {m} |->
                     IF k = m THEN [dirty |-> TRUE, failed |-> FALSE,
                                    stale |-> Direction[m] = "pull"]
                     ELSE mirrors[k]]
    /\ UNCHANGED <<local, unmarked, upstream, fetched, indexAsked, remote,
                   syncer, mirrorRestarts>>

RemoveMirror(m) ==
    /\ MirrorCommand
    /\ m \in DOMAIN mirrors
    /\ mirrors' = [k \in DOMAIN mirrors \ {m} |-> mirrors[k]]
    /\ UNCHANGED <<local, unmarked, upstream, fetched, indexAsked, remote,
                   syncer, mirrorRestarts>>

\* MarkMirrorsDirty.
Marked(ms, which) ==
    [m \in DOMAIN ms |-> IF m \in which THEN [ms[m] EXCEPT !.dirty = TRUE]
                         ELSE ms[m]]

\* repo mirror sync marks both directions.
SyncCommand ==
    /\ MirrorCommand
    /\ mirrors' = Marked(mirrors, MirrorIds)
    /\ UNCHANGED <<local, unmarked, upstream, fetched, indexAsked, remote,
                   syncer, mirrorRestarts>>

-----------------------------------------------------------------------------
(* Ref updates *)

\* A push over SSH is refused while there is a pull mirror; a merge and a
\* file committed through the server are not.
RefUpdate(overSSH) ==
    /\ local < MaxUpdates
    /\ overSSH => ~PullMirrored
    /\ local' = local + 1
    /\ unmarked' = unmarked \cup {local + 1}
    /\ UNCHANGED <<mirrors, upstream, fetched, indexAsked, remote, syncer,
                   mirrorCmds, mirrorRestarts>>

\* The push mirrors are marked after the refs have moved.
MarkDirty(v) ==
    /\ v \in unmarked
    /\ unmarked' = unmarked \ {v}
    /\ mirrors' = Marked(mirrors, {m \in MirrorIds : Direction[m] = "push"})
    /\ UNCHANGED <<local, upstream, fetched, indexAsked, remote, syncer,
                   mirrorCmds, mirrorRestarts>>

UpstreamMoves ==
    /\ ~upstream
    /\ local < MaxUpdates
    /\ upstream' = TRUE
    /\ UNCHANGED <<mirrors, local, unmarked, fetched, indexAsked, remote,
                   syncer, mirrorCmds, mirrorRestarts>>

IntervalPasses(m) ==
    /\ m \in DOMAIN mirrors
    /\ Direction[m] = "pull"
    /\ ~mirrors[m].stale
    /\ mirrors' = [mirrors EXCEPT ![m].stale = TRUE]
    /\ UNCHANGED <<local, unmarked, upstream, fetched, indexAsked, remote,
                   syncer, mirrorCmds, mirrorRestarts>>

-----------------------------------------------------------------------------
(* The worker *)

\* A plausible mistake: only a mark makes a mirror due.
DueMirrorsMarked == {m \in DOMAIN mirrors : mirrors[m].dirty}

\* Dirty mirrors, and pull mirrors whose interval is over.
DueMirrors == {m \in DOMAIN mirrors : mirrors[m].dirty \/ mirrors[m].stale}

First == CHOOSE m \in syncer.list : \A k \in syncer.list : m <= k

SweepMirrors ==
    /\ syncer = IdleSyncer
    /\ DueMirrors # {}
    /\ syncer' = [syncer EXCEPT !.list = DueMirrors]
    /\ UNCHANGED <<mirrors, local, unmarked, upstream, fetched, indexAsked,
                   remote, mirrorCmds, mirrorRestarts>>

\* The git process of a sync. A push sends the refs as they are; a fetch
\* takes the upstream's, outside of every push path: it marks no mirror.
\* Either may fail (network, DNS, credentials, a git too old).
Sync ==
    /\ syncer.list # {}
    /\ syncer.result = "none"
    /\ \/ /\ syncer' = [syncer EXCEPT !.result = "error"]
          /\ UNCHANGED <<local, upstream, fetched, remote>>
       \/ /\ Direction[First] = "push"
          /\ syncer' = [syncer EXCEPT !.result = "ok"]
          /\ remote' = [remote EXCEPT ![First] = local]
          /\ UNCHANGED <<local, upstream, fetched>>
       \/ /\ Direction[First] = "pull"
          /\ syncer' = [syncer EXCEPT !.result = "ok"]
          /\ IF upstream /\ local < MaxUpdates
             THEN /\ local' = local + 1
                  /\ fetched' = local + 1
                  /\ upstream' = FALSE
             ELSE UNCHANGED <<local, upstream, fetched>>
          /\ UNCHANGED remote
    /\ UNCHANGED <<mirrors, unmarked, indexAsked, mirrorCmds, mirrorRestarts>>

\* A plausible mistake: the statement takes every mirror of the repository.
SetResultAll(ms, m, failed) ==
    [k \in DOMAIN ms |->
        [dirty |-> FALSE, failed |-> failed, stale |-> FALSE]]

\* What SetMirrorResult writes, in the row of the mirror that was synced: the
\* mark goes, whenever it was set and however the sync ended.
SetResult(ms, m, failed) ==
    [k \in DOMAIN ms |->
        IF k = m THEN [dirty |-> FALSE, failed |-> failed, stale |-> FALSE]
        ELSE ms[k]]

SetMirrorResult ==
    /\ syncer.result \in {"ok", "error"}
    /\ mirrors' = SetResult(mirrors, First, syncer.result = "error")
    /\ syncer' = IF syncer.result = "ok" /\ Direction[First] = "pull"
                 THEN [syncer EXCEPT !.result = "recorded"]
                 ELSE [list |-> syncer.list \ {First}, result |-> "none"]
    /\ UNCHANGED <<local, unmarked, upstream, fetched, indexAsked, remote,
                   mirrorCmds, mirrorRestarts>>

\* A pull that succeeded asks for an index, changed or not.
RequestIndex ==
    /\ syncer.result = "recorded"
    /\ indexAsked' = local
    /\ syncer' = [list |-> syncer.list \ {First}, result |-> "none"]
    /\ UNCHANGED <<mirrors, local, unmarked, upstream, fetched, remote,
                   mirrorCmds, mirrorRestarts>>

\* The worker's list and the marks not yet set are lost, the rows are not.
MirrorRestart ==
    /\ mirrorRestarts < MaxMirrorRestarts
    /\ mirrorRestarts' = mirrorRestarts + 1
    /\ syncer' = IdleSyncer
    /\ unmarked' = {}
    /\ UNCHANGED <<mirrors, local, upstream, fetched, indexAsked, remote,
                   mirrorCmds>>

MirrorNext ==
    \/ \E m \in MirrorIds : AddMirror(m) \/ RemoveMirror(m) \/ IntervalPasses(m)
    \/ SyncCommand
    \/ RefUpdate(TRUE) \/ RefUpdate(FALSE)
    \/ \E v \in RefVersions : MarkDirty(v)
    \/ UpstreamMoves
    \/ SweepMirrors \/ Sync \/ SetMirrorResult \/ RequestIndex
    \/ MirrorRestart

MirrorSpec == MirrorInit /\ [][MirrorNext]_mirrorVars

\* The worker ticks, a sync ends (it has a timeout), the interval passes, and
\* a handler that moved the refs goes on to mark the mirrors.
MirrorFairness ==
    /\ WF_mirrorVars(SweepMirrors)
    /\ WF_mirrorVars(Sync)
    /\ WF_mirrorVars(SetMirrorResult)
    /\ WF_mirrorVars(RequestIndex)
    /\ \A m \in MirrorIds : WF_mirrorVars(IntervalPasses(m))
    /\ \A v \in RefVersions : WF_mirrorVars(MarkDirty(v))

-----------------------------------------------------------------------------
(* Properties *)

\* The worker has run git for this mirror and not yet recorded the result.
Syncing(m) ==
    m \in syncer.list /\ m = First /\ syncer.result \in {"ok", "error"}

PushMirrors == {m \in MirrorIds : Direction[m] = "push"}

\* A mark reaches its mirror: what the refs held when a push mirror was
\* marked, or anything newer, is sent to it or the error is shown, through
\* restarts, other mirrors' failures and a mark set while the worker is busy
\* elsewhere (but not while it records a sync of that very mirror).
MarkIsSynced ==
    MirrorFairness => \A m \in PushMirrors, v \in RefVersions :
        (/\ m \in DOMAIN mirrors
         /\ mirrors[m].dirty /\ local = v /\ ~Syncing(m))
            ~> (m \notin DOMAIN mirrors \/ remote[m] >= v \/ mirrors[m].failed)

\* What a pull brought is indexed: although a restart may come between the
\* fetch, its result and the request, the next sync asks again.
FetchedIsIndexed ==
    MirrorFairness =>
        []<>(\/ indexAsked >= fetched
             \/ ~PullMirrored
             \/ \E m \in DOMAIN mirrors : mirrors[m].failed)

\* "Push mirrors sync shortly after each local ref update": what the
\* administrator's guide says of a ref update, for one whose handler came to
\* mark the mirrors.
EveryPushIsMirrored ==
    \A m \in PushMirrors, v \in RefVersions :
        (/\ m \in DOMAIN mirrors
         /\ mirrors[m].dirty /\ local = v)
            ~> (m \notin DOMAIN mirrors \/ remote[m] >= v \/ mirrors[m].failed)
=============================================================================
