-------------------------------- MODULE LFS ---------------------------------
(***************************************************************************)
(* Git LFS (internal/lfs, httpd/lfs.go, sshd/lfs.go, gcLFS): the tokens    *)
(* that carry an SSH key's access to the HTTP endpoints, the store of      *)
(* objects, and the collection of objects no pointer names.                *)
(*                                                                         *)
(* One repository; an object is its id. A client uploads what its push     *)
(* will name, as git lfs does: batch, upload what the batch asks for,      *)
(* push. The MAC of a token is left out: a token is what it says.          *)
(***************************************************************************)
EXTENDS Naturals, FiniteSets

CONSTANTS
    Oids,            \* object ids
    LfsKeyIds,       \* ids of ssh_keys rows; a freed id may be taken again
    MaxPins,         \* bound on keys registered, each its own fingerprint
    MaxLfsOps        \* bound on what administrators, owners and clients start

ASSUME LfsAssumption == MaxPins \in Nat \ {0} /\ MaxLfsOps \in Nat /\ 0 \notin LfsKeyIds

VARIABLES
    lfsKey,      \* rows of ssh_keys with the access of their account
    pinsUsed,    \* fingerprints registered so far
    lfsPublic,
    lfsArchived,
    lfsToken,    \* tokens minted and within TokenTTL
    blob,        \* object -> "none", "new", or "old": past lfsOrphanAge
    uploading,   \* clients between batch and push
    pointers,    \* objects the repository's pointers name
    gc,          \* a run of `gitbayd gc --lfs`
    outlived,    \* history: objects a batch reported and a gc then removed
    lfsOps

lfsVars == <<lfsKey, pinsUsed, lfsPublic, lfsArchived, lfsToken, blob, uploading, pointers,
             gc, outlived, lfsOps>>

NoKey == [pin |-> 0, scope |-> "full", role |-> "none", live |-> FALSE]
Scopes == {"full", "git", "runner", "deploy-ro", "deploy-rw"}
LfsOpKinds == {"download", "upload"}
IdleGC == [at |-> "idle", named |-> {}, orphans |-> {}]

-----------------------------------------------------------------------------
(* Tokens *)

DeployScopeAllows(scope, write) == scope = "deploy-rw" \/ (scope = "deploy-ro" /\ ~ write)
IsDeployScope(scope) == scope \in {"deploy-ro", "deploy-rw"}
ScopeAllowsGit(scope, write) == scope \in {"full", "git"} \/ (scope = "runner" /\ ~ write)

\* The access check of git-lfs-authenticate, made again for every transfer.
KeyMay(key, write) ==
    /\ write => ~ lfsArchived
    /\ IF IsDeployScope(key.scope) THEN DeployScopeAllows(key.scope, write)
       ELSE /\ lfsPublic \/ key.role # "none"
            /\ ScopeAllowsGit(key.scope, write)
            /\ write => key.role = "write"

\* A plausible mistake: whatever key has the id now may use the token.
lfsKeyAllowsId(k, pin, write) == KeyMay(lfsKey[k], write)
\* The key must be the one the token was minted for.
lfsKeyAllows(k, pin, write) == lfsKey[k].pin = pin /\ KeyMay(lfsKey[k], write)

\* lfsAuth: what a token is worth now; "" is nothing.
lfsAuth(t) ==
    IF t.key = 0 THEN IF t.op = "download" /\ lfsPublic THEN "download" ELSE ""
    ELSE IF lfsKey[t.key].live /\ lfsKeyAllows(t.key, t.pin, t.op = "upload") THEN t.op ELSE ""

Sign(k, op) == [key |-> k, pin |-> IF k = 0 THEN 0 ELSE lfsKey[k].pin, op |-> op]

LfsTurn == lfsOps < MaxLfsOps /\ lfsOps' = lfsOps + 1

\* git-lfs-authenticate over SSH, by a session whose key is live.
runLFSAuthenticate(k, op) ==
    /\ lfsKey[k].live /\ KeyMay(lfsKey[k], op = "upload")
    /\ Sign(k, op) \notin lfsToken
    /\ LfsTurn
    /\ lfsToken' = lfsToken \cup {Sign(k, op)}
    /\ UNCHANGED <<lfsKey, pinsUsed, lfsPublic, lfsArchived, blob, uploading, pointers, gc, outlived>>

-----------------------------------------------------------------------------
(* Batch and transfers *)

\* The batch for an upload: an object that exists gets no action and the
\* client skips it. The transfer gets a token of its own for the same key.
lfsBatch(t, o) ==
    /\ lfsAuth(t) = "upload" /\ o \notin DOMAIN uploading
    /\ LfsTurn
    /\ uploading' = [x \in DOMAIN uploading \cup {o} |->
                       IF x = o THEN [with |-> t, has |-> blob[o] # "none",
                                      skipped |-> blob[o] # "none"]
                       ELSE uploading[x]]
    /\ lfsToken' = lfsToken \cup {Sign(t.key, "upload")}
    /\ UNCHANGED <<lfsKey, pinsUsed, lfsPublic, lfsArchived, blob, pointers, gc, outlived>>

\* An anonymous batch mints a download token for key 0.
lfsBatchAnonymous ==
    /\ lfsPublic /\ Sign(0, "download") \notin lfsToken
    /\ LfsTurn
    /\ lfsToken' = lfsToken \cup {Sign(0, "download")}
    /\ UNCHANGED <<lfsKey, pinsUsed, lfsPublic, lfsArchived, blob, uploading, pointers, gc, outlived>>

\* Put renames the object into place once size and digest agree; a mismatch
\* stores nothing. An object that exists is left as it is.
Put(o) == blob' = [blob EXCEPT ![o] = IF @ = "none" THEN "new" ELSE @]

lfsUpload(o) ==
    /\ o \in DOMAIN uploading /\ ~ uploading[o].has
    /\ IF lfsAuth(uploading[o].with) = "upload"
       THEN /\ Put(o)
            /\ uploading' = [uploading EXCEPT ![o].has = TRUE,
                                              ![o].skipped = blob[o] # "none"]
       ELSE /\ uploading' = [x \in DOMAIN uploading \ {o} |-> uploading[x]]
            /\ UNCHANGED blob
    /\ UNCHANGED <<lfsKey, pinsUsed, lfsPublic, lfsArchived, lfsToken, pointers, gc, outlived, lfsOps>>

\* External: the client pushes the commits whose pointers name the object.
PushPointers(o) ==
    /\ o \in DOMAIN uploading /\ uploading[o].has
    /\ pointers' = pointers \cup {o}
    /\ uploading' = [x \in DOMAIN uploading \ {o} |-> uploading[x]]
    /\ UNCHANGED <<lfsKey, pinsUsed, lfsPublic, lfsArchived, lfsToken, blob, gc, outlived, lfsOps>>

-----------------------------------------------------------------------------
(* Collection *)

\* A plausible mistake: whatever no pointer names is an orphan.
OrphansAny(named) == {o \in Oids : blob[o] # "none" /\ o \notin named}
\* An object uploaded ahead of its push is not an orphan yet.
Orphans(named) == {o \in Oids : blob[o] = "old" /\ o \notin named}

gcScan ==
    /\ gc.at = "idle" /\ LfsTurn
    /\ gc' = [IdleGC EXCEPT !.at = "scanned", !.named = pointers]
    /\ UNCHANGED <<lfsKey, pinsUsed, lfsPublic, lfsArchived, lfsToken, blob, uploading, pointers, outlived>>

gcOrphans ==
    /\ gc.at = "scanned"
    /\ gc' = [gc EXCEPT !.at = "listed", !.orphans = Orphans(gc.named)]
    /\ UNCHANGED <<lfsKey, pinsUsed, lfsPublic, lfsArchived, lfsToken, blob, uploading, pointers, outlived, lfsOps>>

\* One Delete after the other, whatever happened since the list was made.
gcLFS ==
    /\ gc.at = "listed"
    /\ IF gc.orphans = {}
       THEN gc' = IdleGC /\ UNCHANGED <<blob, outlived>>
       ELSE \E o \in gc.orphans :
              /\ blob' = [blob EXCEPT ![o] = "none"]
              /\ gc' = [gc EXCEPT !.orphans = @ \ {o}]
              /\ outlived' = IF o \in pointers \/ (o \in DOMAIN uploading /\ uploading[o].skipped)
                             THEN outlived \cup {o} ELSE outlived
    /\ UNCHANGED <<lfsKey, pinsUsed, lfsPublic, lfsArchived, lfsToken, uploading, pointers, lfsOps>>

-----------------------------------------------------------------------------
(* What changes around it *)

\* A push takes minutes, lfsOrphanAge is a day: an upload under way keeps
\* its object young.
Ages(o) ==
    /\ blob[o] = "new"
    /\ o \in DOMAIN uploading => ~ uploading[o].has
    /\ blob' = [blob EXCEPT ![o] = "old"]
    /\ UNCHANGED <<lfsKey, pinsUsed, lfsPublic, lfsArchived, lfsToken, uploading, pointers, gc, outlived, lfsOps>>

RegisterKey(k, scope, role) ==
    /\ lfsKey[k].pin = 0 /\ pinsUsed < MaxPins /\ LfsTurn
    /\ pinsUsed' = pinsUsed + 1
    /\ lfsKey' = [lfsKey EXCEPT ![k] = [pin |-> pinsUsed + 1, scope |-> scope, role |-> role, live |-> TRUE]]
    /\ UNCHANGED <<lfsPublic, lfsArchived, lfsToken, blob, uploading, pointers, gc, outlived>>

\* The key is removed, or it expires or its account is disabled.
DropKey(k, gone) ==
    /\ lfsKey[k].live /\ LfsTurn
    /\ lfsKey' = [lfsKey EXCEPT ![k] = IF gone THEN NoKey ELSE [@ EXCEPT !.live = FALSE]]
    /\ UNCHANGED <<pinsUsed, lfsPublic, lfsArchived, lfsToken, blob, uploading, pointers, gc, outlived>>

SetRole(k, role) ==
    /\ lfsKey[k].pin # 0 /\ lfsKey[k].role # role /\ LfsTurn
    /\ lfsKey' = [lfsKey EXCEPT ![k].role = role]
    /\ UNCHANGED <<pinsUsed, lfsPublic, lfsArchived, lfsToken, blob, uploading, pointers, gc, outlived>>

SetFlags(p, a) ==
    /\ <<p, a>> # <<lfsPublic, lfsArchived>> /\ LfsTurn
    /\ lfsPublic' = p
    /\ lfsArchived' = a
    /\ UNCHANGED <<lfsKey, pinsUsed, lfsToken, blob, uploading, pointers, gc, outlived>>

\* TokenTTL passes.
Expires(t) ==
    /\ \A o \in DOMAIN uploading : uploading[o].with # t
    /\ lfsToken' = lfsToken \ {t}
    /\ UNCHANGED <<lfsKey, pinsUsed, lfsPublic, lfsArchived, blob, uploading, pointers, gc, outlived, lfsOps>>

-----------------------------------------------------------------------------
(* The specification *)

\* One key that writes; an object of an old push whose pointer is gone.
LfsInit ==
    /\ LET k1 == CHOOSE k \in LfsKeyIds : TRUE
       IN  lfsKey = [k \in LfsKeyIds |->
             IF k = k1 THEN [pin |-> 1, scope |-> "full", role |-> "write", live |-> TRUE] ELSE NoKey]
    /\ pinsUsed = 1
    /\ lfsPublic \in BOOLEAN
    /\ lfsArchived = FALSE
    /\ lfsToken = {}
    /\ blob = [o \in Oids |-> IF o = CHOOSE x \in Oids : TRUE THEN "old" ELSE "none"]
    /\ uploading = [o \in {} |-> {}]
    /\ pointers = {}
    /\ gc = IdleGC
    /\ outlived = {}
    /\ lfsOps = 0

LfsNext ==
    \/ \E k \in LfsKeyIds :
         \/ \E op \in LfsOpKinds : runLFSAuthenticate(k, op)
         \/ \E scope \in Scopes, role \in {"none", "read", "write"} : RegisterKey(k, scope, role)
         \/ \E gone \in BOOLEAN : DropKey(k, gone)
         \/ \E role \in {"none", "read", "write"} : SetRole(k, role)
    \/ \E t \in lfsToken : Expires(t) \/ \E o \in Oids : lfsBatch(t, o)
    \/ lfsBatchAnonymous
    \/ \E o \in Oids : lfsUpload(o) \/ PushPointers(o) \/ Ages(o)
    \/ gcScan \/ gcOrphans \/ gcLFS
    \/ \E p \in BOOLEAN, a \in BOOLEAN : SetFlags(p, a)

LfsSpec == LfsInit /\ [][LfsNext]_lfsVars

LfsTypeOK ==
    /\ \A k \in LfsKeyIds : lfsKey[k].pin \in 0..MaxPins /\ lfsKey[k].scope \in Scopes
    /\ blob \in [Oids -> {"none", "new", "old"}]
    /\ DOMAIN uploading \subseteq Oids /\ pointers \subseteq Oids /\ outlived \subseteq Oids
    /\ \A t \in lfsToken : t.key \in LfsKeyIds \cup {0} /\ t.op \in LfsOpKinds

-----------------------------------------------------------------------------
(* Properties *)

\* A token opens to LFS what its own key would open to git at this moment, no
\* more: not after the key was removed, expired or took a narrower role, not
\* for another key that was given its id, not to an archived repository, and
\* not to a private one for a token minted while it was public.
TokensAreWorthTheirKey ==
    \A t \in lfsToken :
      lfsAuth(t) # "" =>
        \/ t.key = 0 /\ t.op = "download" /\ lfsPublic
        \/ \E k \in LfsKeyIds :
             /\ lfsKey[k].pin = t.pin /\ lfsKey[k].live
             /\ t.op = "upload" =>
                  ~ lfsArchived /\ (lfsKey[k].role = "write" \/ lfsKey[k].scope = "deploy-rw")
             /\ lfsPublic \/ lfsKey[k].role # "none" \/ IsDeployScope(lfsKey[k].scope)

\* A collection removes no object that a pushed pointer names, unless the
\* pusher's batch found an old object in the store and skipped the upload.
PushedIsStored == \A o \in pointers : blob[o] # "none" \/ o \in outlived

\* A token never outlives its key, a pushed object never goes (lfs.go).
ObjectsAreKept == TokensAreWorthTheirKey /\ PushedIsStored
=============================================================================
