------------------------------ MODULE KeyFile -------------------------------
(***************************************************************************)
(* The key file that seals the secret columns (seal/seal.go,               *)
(* store/secrets.go, cmd/gitbayd/secrets.go): its creation and rotation    *)
(* while the daemon writes secrets, restarts, and any process is stopped   *)
(* between two steps.                                                      *)
(*                                                                         *)
(* The file is a sequence of key ids: the last seals, every one opens. A   *)
(* stored value is the id of the key that sealed it; encryption itself is  *)
(* left out. The database's write transactions are begun IMMEDIATE, so one *)
(* runs at a time, and an unfinished one leaves nothing.                   *)
(***************************************************************************)
EXTENDS Naturals, Sequences, FiniteSets

CONSTANTS
    SecretRows,       \* rows of the secret columns
    Rotators,         \* runs of `gitbayd admin secrets init` and `rotate`
    MaxKeys,          \* bound on keys made
    MaxSecretSets,    \* bound on secrets set through the daemon
    MaxKeyFaults      \* bound on processes stopped

ASSUME KeyFileAssumption ==
    /\ MaxKeys \in Nat \ {0} /\ MaxSecretSets \in Nat /\ MaxKeyFaults \in Nat
    /\ 0 \notin Rotators

VARIABLES
    keyFile,     \* the key ids in server.secret_key_file; << >> is no file
    lockedBy,    \* who holds <path>.lock
    rotator,     \* where each run of the command is
    stored,      \* row -> 0 for a value in clear, or the id of its key
    tx,          \* the write transaction under way
    daemon,      \* "down", "starting" or "up"
    made,        \* keys made so far
    setOps,
    keyFaults

keyVars == <<keyFile, lockedBy, rotator, stored, tx, daemon, made, setOps, keyFaults>>

Clear == 0
NoRotator == 0
IdleRun == [at |-> "idle", old |-> <<>>, next |-> 0]
\* left: the rows a reseal has still to look at; cur: the key it compares with.
NoTx == [by |-> "none", rows |-> [r \in SecretRows |-> Clear], left |-> {}, cur |-> 0, sealed |-> 0]

\* A transaction sees the rows as they are when it begins.
NewTx(by, left, cur) == [by |-> by, rows |-> stored, left |-> left, cur |-> cur, sealed |-> 0]

KeysIn(keys) == {keys[i] : i \in 1..Len(keys)}

\* refresh: the file is read again whenever it changed, so what the keyring
\* knows when it seals or opens is the file of that moment.
\* A plausible mistake: the oldest key goes on sealing.
CurrentIDOldest == keyFile[1]
CurrentID == keyFile[Len(keyFile)]
Opened(v) == v = Clear \/ v \in KeysIn(keyFile)

-----------------------------------------------------------------------------
(* Transactions *)

BeginTx(by) ==
    /\ tx.by = "none"
    /\ tx' = NewTx(by, {}, 0)

\* SetBuildSecret, and the webhook, mirror and device token writes alike:
\* begin, seal under the current key, write, commit.
SealedInside(row) ==
    \/ BeginTx("writer") /\ UNCHANGED <<stored, setOps>>
    \/ /\ tx.by = "writer" /\ tx.sealed = 0
       /\ tx' = [tx EXCEPT !.sealed = CurrentID]
       /\ UNCHANGED <<stored, setOps>>
    \/ /\ tx.by = "writer" /\ tx.sealed # 0
       /\ stored' = [stored EXCEPT ![row] = tx.sealed]
       /\ setOps' = setOps + 1
       /\ tx' = NoTx

SetBuildSecret(row) ==
    /\ daemon = "up" /\ setOps < MaxSecretSets
    /\ SealedInside(row)
    /\ UNCHANGED <<keyFile, lockedBy, rotator, daemon, made, keyFaults>>

\* One row of ResealSecrets. CurrentID was read after the transaction began;
\* each Seal reads the file again.
Reseal(by) ==
    \E row \in tx.left :
      /\ tx.by = by
      /\ tx.rows[row] = tx.cur \/ Opened(tx.rows[row])
      /\ tx' = [tx EXCEPT !.left = @ \ {row},
                  !.rows[row] = IF @ = tx.cur THEN @ ELSE CurrentID]

ResealBegin(by) ==
    /\ tx.by = "none" /\ keyFile # <<>>
    /\ tx' = NewTx(by, SecretRows, CurrentID)

Commit(by) ==
    /\ tx.by = by /\ tx.left = {}
    /\ stored' = tx.rows
    /\ tx' = NoTx

-----------------------------------------------------------------------------
(* The daemon *)

\* openStore refuses to run without a key file.
openStore ==
    /\ daemon = "down" /\ keyFile # <<>>
    /\ daemon' = "starting"
    /\ UNCHANGED <<keyFile, lockedBy, rotator, stored, tx, made, setOps, keyFaults>>

\* Serving starts once every value is under the current key.
StartReseal ==
    /\ daemon = "starting"
    /\ \/ ResealBegin("start") /\ UNCHANGED <<stored, daemon>>
       \/ Reseal("start") /\ UNCHANGED <<stored, daemon>>
       \/ Commit("start") /\ daemon' = "up"
    /\ UNCHANGED <<keyFile, lockedBy, rotator, made, setOps, keyFaults>>

-----------------------------------------------------------------------------
(* init and rotate *)

RotatorAt(p, at) == [rotator EXCEPT ![p].at = at]

\* A plausible mistake: nothing keeps two rotations apart.
lockFree(p) == TRUE
\* flock: the next run waits for the one that holds the lock.
lockKeyFile(p) == lockedBy = NoRotator

RotateLock(p) ==
    /\ rotator[p].at = "idle" /\ made < MaxKeys
    /\ lockKeyFile(p)
    /\ lockedBy' = p
    /\ rotator' = RotatorAt(p, "locked")
    /\ UNCHANGED <<keyFile, stored, tx, daemon, made, setOps, keyFaults>>

Unlock(p) == lockedBy' = IF lockedBy = p THEN NoRotator ELSE lockedBy

\* The file is made only where there is none; a chown that fails removes it
\* before the daemon's user could read it.
initSecrets(p) ==
    /\ rotator[p].at = "locked" /\ keyFile = <<>> /\ made < MaxKeys
    /\ keyFile' = <<made + 1>>
    /\ made' = made + 1
    /\ Unlock(p)
    /\ rotator' = [rotator EXCEPT ![p] = IdleRun]
    /\ UNCHANGED <<stored, tx, daemon, setOps, keyFaults>>

\* ReadKeys and NewKey.
RotateRead(p) ==
    /\ rotator[p].at = "locked" /\ keyFile # <<>> /\ made < MaxKeys
    /\ rotator' = [rotator EXCEPT ![p] = [at |-> "read", old |-> keyFile, next |-> made + 1]]
    /\ made' = made + 1
    /\ UNCHANGED <<keyFile, lockedBy, stored, tx, daemon, setOps, keyFaults>>

\* WriteKeys renames a new file into place: old and new keys together.
RotateAppend(p) ==
    /\ rotator[p].at = "read"
    /\ keyFile' = Append(rotator[p].old, rotator[p].next)
    /\ rotator' = RotatorAt(p, "appended")
    /\ UNCHANGED <<lockedBy, stored, tx, daemon, made, setOps, keyFaults>>

RotateReseal(p) ==
    /\ \/ /\ rotator[p].at = "appended" /\ ResealBegin("rotate")
          /\ rotator' = RotatorAt(p, "resealing") /\ UNCHANGED stored
       \/ /\ rotator[p].at = "resealing" /\ Reseal("rotate") /\ UNCHANGED <<stored, rotator>>
       \/ /\ rotator[p].at = "resealing" /\ Commit("rotate") /\ rotator' = RotatorAt(p, "resealed")
    /\ UNCHANGED <<keyFile, lockedBy, daemon, made, setOps, keyFaults>>

\* Every value opens and is under the new key, or rotate ends with the file
\* as it is.
SecretKeyUse(p) ==
    /\ rotator[p].at = "resealed"
    /\ IF \A row \in SecretRows : stored[row] = rotator[p].next
       THEN rotator' = RotatorAt(p, "checked") /\ UNCHANGED lockedBy
       ELSE rotator' = [rotator EXCEPT ![p] = IdleRun] /\ Unlock(p)
    /\ UNCHANGED <<keyFile, stored, tx, daemon, made, setOps, keyFaults>>

\* The old keys are dropped last.
rotateSecrets(p) ==
    /\ rotator[p].at = "checked"
    /\ keyFile' = <<rotator[p].next>>
    /\ Unlock(p)
    /\ rotator' = [rotator EXCEPT ![p] = IdleRun]
    /\ UNCHANGED <<stored, tx, daemon, made, setOps, keyFaults>>

-----------------------------------------------------------------------------
(* Faults *)

\* A run of the command ends early: an error, or the process is stopped. Its
\* lock is gone with it and its transaction rolled back.
Stopped(p) ==
    /\ keyFaults < MaxKeyFaults /\ rotator[p].at # "idle"
    /\ keyFaults' = keyFaults + 1
    /\ tx' = IF tx.by = "rotate" /\ rotator[p].at = "resealing" THEN NoTx ELSE tx
    /\ Unlock(p)
    /\ rotator' = [rotator EXCEPT ![p] = IdleRun]
    /\ UNCHANGED <<keyFile, stored, daemon, made, setOps>>

DaemonStops ==
    /\ keyFaults < MaxKeyFaults /\ daemon # "down"
    /\ keyFaults' = keyFaults + 1
    /\ daemon' = "down"
    /\ tx' = IF tx.by \in {"writer", "start"} THEN NoTx ELSE tx
    /\ UNCHANGED <<keyFile, lockedBy, rotator, stored, made, setOps>>

-----------------------------------------------------------------------------
(* The specification *)

\* A database from before sealing, and no key file yet.
KeyInit ==
    /\ keyFile = <<>>
    /\ lockedBy = NoRotator
    /\ rotator = [p \in Rotators |-> IdleRun]
    /\ stored = [r \in SecretRows |-> Clear]
    /\ tx = NoTx
    /\ daemon = "down"
    /\ made = 0
    /\ setOps = 0
    /\ keyFaults = 0

KeyNext ==
    \/ \E r \in SecretRows : SetBuildSecret(r)
    \/ openStore \/ StartReseal \/ DaemonStops
    \/ \E p \in Rotators :
         \/ RotateLock(p) \/ initSecrets(p) \/ RotateRead(p) \/ RotateAppend(p)
         \/ RotateReseal(p) \/ SecretKeyUse(p) \/ rotateSecrets(p) \/ Stopped(p)

KeySpec == KeyInit /\ [][KeyNext]_keyVars

\* Rotation finishes unless its process is stopped, and the transaction a
\* process holds is finished or rolled back.
KeyFairness ==
    /\ WF_keyVars(\E p \in Rotators :
         RotateAppend(p) \/ RotateReseal(p) \/ SecretKeyUse(p) \/ rotateSecrets(p))
    /\ WF_keyVars(tx.by = "writer" /\ \E r \in SecretRows : SetBuildSecret(r))
    /\ WF_keyVars(tx.by = "start" /\ StartReseal)

Run == [at: {"idle", "locked", "read", "appended", "resealing", "resealed", "checked"},
        old: Seq(1..MaxKeys), next: 0..MaxKeys]

Transaction == [by: {"none", "writer", "start", "rotate"}, rows: [SecretRows -> 0..MaxKeys],
                left: SUBSET SecretRows, cur: 0..MaxKeys, sealed: 0..MaxKeys]

KeyTypeOK ==
    /\ made \in 0..MaxKeys
    /\ keyFile \in Seq(1..MaxKeys) /\ KeysIn(keyFile) \subseteq 1..made
    /\ \A i, j \in 1..Len(keyFile) : keyFile[i] = keyFile[j] => i = j
    /\ lockedBy \in Rotators \cup {NoRotator}
    /\ rotator \in [Rotators -> Run]
    /\ stored \in [SecretRows -> 0..MaxKeys]
    /\ tx \in Transaction
    /\ daemon \in {"down", "starting", "up"}

-----------------------------------------------------------------------------
(* Properties *)

\* rotateSecrets: "each step leaves a file that opens every stored value",
\* whatever the daemon writes meanwhile, wherever a run is stopped, and
\* though two runs are started at once.
EveryValueOpens == \A row \in SecretRows : Opened(stored[row])

\* A rotation that wrote its new key drops the old ones in the end, unless a
\* process is stopped: no write of the daemon's makes its check fail, the case
\* rotateSecrets guards against and says no test reaches.
RotationEnds == KeyFairness => []<>(Len(keyFile) <= 1 \/ keyFaults > 0)
=============================================================================
