------------------------------- MODULE Pushes -------------------------------
(***************************************************************************)
(* Pushes to one repository, the ref policy the pre-receive hook applies,  *)
(* the settings that policy reads, and the releases anchored to tags.      *)
(* Source: runGit of internal/sshd/sshd.go, internal/hookd/hookd.go,       *)
(* cmd/gitbayd/hook.go, internal/policy/access.go, the settings commands   *)
(* of internal/control (repo.go, mr.go, secretscan.go, security.go),       *)
(* control/release.go, store/pushtokens.go and store/releases.go.          *)
(*                                                                         *)
(* A push is four steps of three processes: sshd admits it, the hook asks  *)
(* hookd, git moves the ref (external), the hook reports; admins change    *)
(* settings and writers change releases between any two of them.           *)
(***************************************************************************)
EXTENDS Naturals, FiniteSets

CONSTANTS Branches, Tags,   \* short names of refs/heads/* and refs/tags/*
          Commits,          \* positive numbers
          Before,           \* <<a, b>> : a is an ancestor of b
          Signed,           \* commits with a verified signature
          Leaking,          \* commits in which the secret scan finds a credential
          PushIds,          \* receive-packs
          Admins,           \* admins, each with at most one settings command running
          Writers,          \* writers, each with at most one release command running
          MaxPushOps        \* bound: pushes, settings commands and release commands begun

ASSUME PushesAssumption ==
    /\ Commits \subseteq Nat \ {0} /\ 1 \in Commits
    /\ Before \subseteq Commits \X Commits
    /\ Signed \subseteq Commits /\ Leaking \subseteq Commits
    /\ Branches \cap Tags = {}

VARIABLES gitRefs,      \* what each ref points at, 0 when there is none
          settings,  \* repos.settings_json
          push,      \* the receive-packs
          pushTokens,    \* push_tokens: the receive-packs hookd answers
          changing,  \* an admin's settings command between read and write
          release,   \* releases: the row id of each tag's release, 0 when none
          asset,     \* release_assets: ids of releases that have the asset's row
          file,      \* asset files in the repository directory, by release id
          releasing, \* a writer's release command between its steps
          anchored,  \* what a release's tag pointed at when it was made (ghost)
          raced,     \* tags whose release was made while a push moved them (ghost)
          crossedAssets,   \* releases whose asset's file a crossing removal took (ghost)
          pushOps    \* bound: operations begun so far

pushVars == <<gitRefs, settings, push, pushTokens, changing, release, asset, file,
              releasing, anchored, raced, crossedAssets, pushOps>>

Refs == Branches \cup Tags

Fields == {"branches", "tags", "requireMR", "signed", "scan", "archived", "contexts", "checks"}

AtRest == [step |-> "idle"]

PushesInit ==
    /\ gitRefs = [r \in Refs |-> 1]
    /\ settings = [branches |-> {}, tags |-> {}, requireMR |-> FALSE, signed |-> FALSE,
                   scan |-> "off", archived |-> FALSE, contexts |-> FALSE, checks |-> FALSE]
    /\ push = [p \in PushIds |-> AtRest]
    /\ pushTokens = {}
    /\ changing = [a \in Admins |-> AtRest]
    /\ release = [t \in Tags |-> 0]
    /\ asset = {} /\ file = {}
    /\ releasing = [w \in Writers |-> AtRest]
    /\ anchored = [t \in Tags |-> 0]
    /\ raced = {} /\ crossedAssets = {}
    /\ pushOps = 0

Begun == pushOps < MaxPushOps /\ pushOps' = pushOps + 1

----------------------------------------------------------------------------
(* Settings: each command is a function on the blob.                       *)

setProtect(s, b, on) ==
    [s EXCEPT !.branches = IF on THEN @ \cup {b} ELSE @ \ {b}]

\* The glob of a protected tag, taken as the tags it matches.
setProtectTag(s, t, on) ==
    [s EXCEPT !.tags = IF on THEN @ \cup {t} ELSE @ \ {t}]

\* require-mr, require-signed, require-checks and the toggles that work alike.
setRepoToggle(s, f, on) == [s EXCEPT ![f] = on]

\* Naming contexts turns the gate on; clearing them leaves it as it was.
runRequireContexts(s, named) ==
    [s EXCEPT !.contexts = named, !.checks = @ \/ named]

runSecretScanMode(s, mode) == [s EXCEPT !.scan = mode]

archivePushRepo(s, on) == [s EXCEPT !.archived = on]

\* The commands an admin can give: the fields they name, and what they make
\* of the blob s.
Commands(s) ==
    { [field |-> {"branches"}, next |-> setProtect(s, b, on)] : b \in Branches, on \in BOOLEAN }
    \cup { [field |-> {"tags"}, next |-> setProtectTag(s, t, on)] : t \in Tags, on \in BOOLEAN }
    \cup { [field |-> {f}, next |-> setRepoToggle(s, f, on)]
             : f \in {"requireMR", "signed"}, on \in BOOLEAN }
    \cup { [field |-> {"contexts", "checks"}, next |-> runRequireContexts(s, on)] : on \in BOOLEAN }
    \cup { [field |-> {"scan"}, next |-> runSecretScanMode(s, m)] : m \in {"off", "warn", "block"} }
    \cup { [field |-> {"archived"}, next |-> archivePushRepo(s, on)] : on \in BOOLEAN }

\* resolveRepo reads the row, its settings included, and checks the admin.
AskSettings(a) ==
    /\ changing[a].step = "idle"
    /\ Begun
    /\ \E c \in Commands(settings) :
          /\ c.next # settings
          /\ changing' = [changing EXCEPT ![a] =
                [step |-> "asked", field |-> c.field, wants |-> [f \in c.field |-> c.next[f]],
                 saw |-> settings]]
    /\ UNCHANGED <<gitRefs, settings, push, pushTokens, release, asset, file, releasing, anchored, raced, crossedAssets>>

\* A plausible mistake: the command writes back the blob it read when it started.
UpdateRepoSettingsStale(a) ==
    [f \in Fields |-> IF f \in changing[a].field THEN changing[a].wants[f] ELSE changing[a].saw[f]]

\* BEGIN IMMEDIATE, read, mutate, write: only the command's own fields move.
UpdateRepoSettings(a) ==
    [f \in Fields |-> IF f \in changing[a].field THEN changing[a].wants[f] ELSE settings[f]]

WriteSettings(a) ==
    /\ changing[a].step = "asked"
    /\ settings' = UpdateRepoSettings(a)
    /\ push' = [p \in PushIds |->
                  IF push[p].step = "checked" THEN [push[p] EXCEPT !.late = TRUE] ELSE push[p]]
    /\ changing' = [changing EXCEPT ![a] = AtRest]
    /\ UNCHANGED <<gitRefs, pushTokens, release, asset, file, releasing, anchored, raced, crossedAssets, pushOps>>

----------------------------------------------------------------------------
(* Pushes.                                                                 *)

Descends(old, new) == <<old, new>> \in Before \/ old = new

IsDelete(u) == u.new = 0

\* hookCmd computes it from the ref's old value in the request.
IsForce(u) == u.old # 0 /\ u.new # 0 /\ ~Descends(u.old, u.new)

TagProtected(t) == t \in settings.tags

\* A plausible mistake: a protected branch may not be forced, but may be deleted.
CheckPushForceOnly(u) ==
    /\ (u.ref \in Tags /\ TagProtected(u.ref)) => ~IsDelete(u) /\ u.old = 0
    /\ u.ref \in settings.branches => ~IsForce(u)

\* What a push may do to the refs; refs/merge-requests/* and names that start
\* with a dash are refused before and are not in Refs.
CheckPush(u) ==
    /\ (u.ref \in Tags /\ TagProtected(u.ref)) => ~IsDelete(u) /\ u.old = 0
    /\ u.ref \in settings.branches =>
          /\ ~IsDelete(u) /\ ~IsForce(u)
          /\ settings.requireMR => u.old = 0

\* A plausible mistake: only deleting the tag of a release is refused.
releaseAnchorsDelete(u) ==
    ~(u.ref \in Tags /\ u.old # 0 /\ IsDelete(u) /\ release[u.ref] # 0)

\* A tag that a release is anchored to is neither moved nor deleted.
releaseAnchors(u) ==
    ~(u.ref \in Tags /\ u.old # 0 /\ release[u.ref] # 0)

\* Commits of the push that no ref has yet (rev-list --not --all).
incomingSHAs(u) ==
    {c \in Commits : /\ u.new # 0 /\ Descends(c, u.new)
                     /\ \A r \in Refs : gitRefs[r] # 0 => ~Descends(c, gitRefs[r])}

verifyIncoming(u) == settings.signed => incomingSHAs(u) \subseteq Signed

\* Only "block" refuses; "warn" is answered with a message.
judgeSecrets(u) == settings.scan = "block" => incomingSHAs(u) \cap Leaking = {}

\* sshd admits the push: a writer, no archived repository; a token for hookd.
\* receive-pack advertises the refs; the update names the value it saw.
runGit(p) ==
    /\ push[p].step = "idle"
    /\ Begun
    /\ ~settings.archived
    /\ \E r \in Refs, new \in Commits \cup {0} :
          /\ new # gitRefs[r]
          /\ push' = [push EXCEPT ![p] = [step |-> "begun", ref |-> r, old |-> gitRefs[r],
                                          new |-> new, late |-> FALSE]]
    /\ pushTokens' = pushTokens \cup {p}
    /\ UNCHANGED <<gitRefs, settings, changing, release, asset, file, releasing, anchored, raced, crossedAssets>>

authorize(p) == p \in pushTokens

\* A plausible mistake: the token of a push that is over still answers.
PushEndsKept(p) ==
    /\ push' = [push EXCEPT ![p] = AtRest]
    /\ UNCHANGED <<gitRefs, settings, pushTokens, changing, release, asset, file, releasing,
                   anchored, raced, crossedAssets, pushOps>>

PushEnds(p) ==
    /\ push' = [push EXCEPT ![p] = AtRest]
    /\ pushTokens' = pushTokens \ {p}
    /\ UNCHANGED <<gitRefs, settings, changing, release, asset, file, releasing, anchored, raced, crossedAssets, pushOps>>

Allowed(p) ==
    /\ authorize(p)
    /\ CheckPush(push[p])
    /\ releaseAnchors(push[p])
    /\ verifyIncoming(push[p])
    /\ judgeSecrets(push[p])

preReceive(p) ==
    /\ push[p].step = "begun"
    /\ Allowed(p)
    /\ push' = [push EXCEPT ![p].step = "checked"]
    /\ UNCHANGED <<gitRefs, settings, pushTokens, changing, release, asset, file, releasing, anchored,
                   raced, crossedAssets, pushOps>>

refusePush(p) == push[p].step = "begun" /\ ~Allowed(p) /\ PushEnds(p)

\* git, once pre-receive allowed it: the ref moves if it still has the old
\* value, else git reports the failure.
RefTransaction(p) ==
    /\ push[p].step = "checked"
    /\ gitRefs[push[p].ref] = push[p].old
    /\ gitRefs' = [gitRefs EXCEPT ![push[p].ref] = push[p].new]
    /\ push' = [push EXCEPT ![p].step = "moved"]
    /\ UNCHANGED <<settings, pushTokens, changing, release, asset, file, releasing, anchored, raced, crossedAssets, pushOps>>

RefMoved(p) == push[p].step = "checked" /\ gitRefs[push[p].ref] # push[p].old /\ PushEnds(p)

\* RefsUpdated runs for the update; then receive-pack exits.
postReceive(p) == push[p].step = "moved" /\ authorize(p) /\ PushEnds(p)

\* A revoked key, a silent client or a hang-up kills the process group at
\* whatever step it is.
cutStalledPush(p) == push[p].step \in {"begun", "checked", "moved"} /\ PushEnds(p)

----------------------------------------------------------------------------
(* Releases and their assets.                                              *)

PushRowIds == {release[t] : t \in Tags} \ {0}

\* SQLite numbers a row one past the largest id in use, so ids come again.
NextRelease == IF PushRowIds = {} THEN 1 ELSE 1 + CHOOSE i \in PushRowIds : \A j \in PushRowIds : j <= i

Steps(w, next) == releasing' = [releasing EXCEPT ![w] = next]

\* runReleaseCreate up to the check that the tag exists.
AskRelease(w, t) ==
    /\ releasing[w].step = "idle"
    /\ ~settings.archived
    /\ gitRefs[t] # 0
    /\ Begun
    /\ Steps(w, [step |-> "create", tag |-> t])
    /\ UNCHANGED <<gitRefs, settings, push, pushTokens, changing, release, asset, file, anchored, raced, crossedAssets>>

\* A push that is past its check, or a tag that went since this one's.
InRace(t) == gitRefs[t] = 0 \/ \E p \in PushIds : push[p].step = "checked" /\ push[p].ref = t

\* The row, unless the tag has one.
CreateRelease(w) ==
    /\ releasing[w].step = "create"
    /\ LET t == releasing[w].tag IN
          IF release[t] = 0
          THEN /\ release' = [release EXCEPT ![t] = NextRelease]
               /\ anchored' = [anchored EXCEPT ![t] = gitRefs[t]]
               /\ raced' = IF InRace(t) THEN raced \cup {t} ELSE raced \ {t}
          ELSE UNCHANGED <<release, anchored, raced>>
    /\ Steps(w, AtRest)
    /\ UNCHANGED <<gitRefs, settings, push, pushTokens, changing, asset, file, crossedAssets, pushOps>>

\* release delete: the row, and by cascade its assets' rows ...
DeleteRelease(w, t) ==
    /\ releasing[w].step = "idle"
    /\ Begun
    /\ release[t] # 0
    /\ release' = [release EXCEPT ![t] = 0]
    /\ asset' = asset \ {release[t]}
    /\ Steps(w, [step |-> "remove", id |-> release[t]])
    /\ UNCHANGED <<gitRefs, settings, push, pushTokens, changing, file, anchored, raced, crossedAssets>>

\* ... then the asset directory.  asset remove ends with the same step.
RemoveFiles(w) ==
    /\ releasing[w].step = "remove"
    /\ file' = file \ {releasing[w].id}
    /\ crossedAssets' = IF releasing[w].id \in asset THEN crossedAssets \cup {releasing[w].id} ELSE crossedAssets
    /\ Steps(w, AtRest)
    /\ UNCHANGED <<gitRefs, settings, push, pushTokens, changing, release, asset, anchored, raced, pushOps>>

\* asset add: the upload is complete; the row is inserted for the release
\* named when the command began.
runAssetAdd(w, t) ==
    /\ releasing[w].step = "idle"
    /\ Begun
    /\ ~settings.archived
    /\ release[t] # 0 /\ release[t] \notin asset
    /\ asset' = asset \cup {release[t]}
    /\ Steps(w, [step |-> "rename", id |-> release[t]])
    /\ UNCHANGED <<gitRefs, settings, push, pushTokens, changing, release, file, anchored, raced, crossedAssets>>

\* A plausible mistake: a rename that fails leaves the row.
RenameFailedKept(id) == asset

RenameFailed(id) == asset \ {id}

\* The file takes its name; when that fails the row is taken back.
RenameAsset(w) ==
    /\ releasing[w].step = "rename"
    /\ LET id == releasing[w].id IN
          \/ file' = file \cup {id} /\ UNCHANGED asset
          \/ asset' = RenameFailed(id) /\ UNCHANGED file
    /\ Steps(w, AtRest)
    /\ UNCHANGED <<gitRefs, settings, push, pushTokens, changing, release, anchored, raced, crossedAssets, pushOps>>

\* asset remove: the row, then the file.
runAssetRemove(w, t) ==
    /\ releasing[w].step = "idle"
    /\ Begun
    /\ ~settings.archived
    /\ release[t] \in asset
    /\ asset' = asset \ {release[t]}
    /\ Steps(w, [step |-> "remove", id |-> release[t]])
    /\ UNCHANGED <<gitRefs, settings, push, pushTokens, changing, release, file, anchored, raced, crossedAssets>>

PushStep(p) ==
    \/ runGit(p) \/ preReceive(p) \/ refusePush(p) \/ RefTransaction(p)
    \/ RefMoved(p) \/ postReceive(p) \/ cutStalledPush(p)

ReleaseStep(w) ==
    \/ CreateRelease(w) \/ RemoveFiles(w) \/ RenameAsset(w)
    \/ \E t \in Tags : AskRelease(w, t) \/ DeleteRelease(w, t)
                       \/ runAssetAdd(w, t) \/ runAssetRemove(w, t)

PushesNext ==
    \/ \E p \in PushIds : PushStep(p)
    \/ \E a \in Admins : AskSettings(a) \/ WriteSettings(a)
    \/ \E w \in Writers : ReleaseStep(w)

PushesSpec == PushesInit /\ [][PushesNext]_pushVars

----------------------------------------------------------------------------
(* Properties.                                                             *)

\* Type invariant; a receive-pack that runs has a token and no other has one.
PushesTypeOK ==
    /\ gitRefs \in [Refs -> Commits \cup {0}]
    /\ settings.branches \subseteq Branches /\ settings.tags \subseteq Tags
    /\ settings.scan \in {"off", "warn", "block"}
    /\ pushTokens = {p \in PushIds : push[p].step # "idle"}
    /\ \A t \in Tags, u \in Tags : release[t] = release[u] => t = u \/ release[t] = 0

\* The policy in force holds when a ref moves, not only when pre-receive read
\* it: a protected branch only ever moves forward and stays, and not at all by
\* a push under require-mr; a protected tag stays where it is.  A push checked
\* before the last change of the settings is excepted: hookd does not ask again.
PolicyHoldsAtLanding ==
    [][\A p \in PushIds :
          push[p].step = "checked" /\ push'[p].step = "moved" /\ ~push[p].late =>
             LET r == push[p].ref IN
             /\ r \in settings.branches /\ gitRefs[r] # 0 =>
                   gitRefs'[r] # 0 /\ Descends(gitRefs[r], gitRefs'[r]) /\ ~settings.requireMR
             /\ r \in settings.tags => gitRefs[r] = 0]_pushVars

\* "A release outliving its tag served assets for a commit nobody could reach":
\* the tag of a release stays, and stays where it was.  A release created while
\* a push of its tag was past its check is excepted.
ReleaseKeepsItsTag ==
    \A t \in Tags : release[t] # 0 /\ t \notin raced => gitRefs[t] = anchored[t] /\ gitRefs[t] # 0

\* "The list is read and rewritten inside the update, so two admins protecting
\* different branches at once both land": a settings command changes only the
\* settings it names, whatever was changed since it read the repository.
SettingsKeepTheRest ==
    [][\A a \in Admins :
          changing[a].step = "asked" /\ changing'[a].step = "idle" =>
             \A f \in Fields \ changing[a].field : settings'[f] = settings[f]]_pushVars

\* An asset that is listed can be downloaded, except while its upload is
\* between row and file, or when a removal of the same name crossed it.
AssetsAreServed ==
    \A i \in asset \ crossedAssets :
        i \in file \/ \E w \in Writers : releasing[w].step = "rename" /\ releasing[w].id = i

\* A release keeps its tag and its files (control/release.go).
ReleasesAreWhole == ReleaseKeepsItsTag /\ AssetsAreServed

\* The branch policy holds when a push lands, and a settings command keeps
\* the fields it does not set (hookd.go, store/repos.go).
SettingsHold == PolicyHoldsAtLanding /\ SettingsKeepTheRest
============================================================================
