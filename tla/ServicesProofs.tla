--------------------------- MODULE ServicesProofs ---------------------------
(***************************************************************************)
(* Proofs about six services of the server, for any sizes and bounds: the  *)
(* symbol index that is served is whole, a reply by mail is posted once,   *)
(* an LFS token or object is worth what its key or pointer is, the issue   *)
(* the bot keeps lists what was found, the limiter of packs counts what    *)
(* holds a slot or a place and loses no wake-up, and the key file opens    *)
(* every value that is stored, whatever is stopped and wherever.           *)
(***************************************************************************)
EXTENDS SymbolIndex, MailReplies, LFS, BotIssues, PackSlots, KeyFile,
        FiniteSetTheorems, WellFoundedInduction, TLAPS

-----------------------------------------------------------------------------
(* Symbol index: the inductive invariant *)

\* Two current indexes are one, said without cardinalities.
OneCurrent == \A i, j \in CurrentIndexes : i = j

\* A current index whose run was not cut short has every chunk.
OkIsWhole ==
    \A i \in DOMAIN indexes : indexes[i].state = "ok" => indexes[i].chunks = Chunks

\* Between resolve and publication the worker has a tree, what it collected
\* decides the outcome, and the row it fills is there, still building.
IndexerInStep ==
    /\ indexer.at \in {"collect", "begin"} => indexer.tree # 0
    /\ indexer.at \in {"begin", "add", "publish"} =>
         /\ indexer.outcome \in {"ok", "partial"}
         /\ indexer.outcome = "ok" => indexer.have = Chunks
    /\ indexer.at \in {"add", "publish"} =>
         /\ indexer.id \in DOMAIN indexes
         /\ indexes[indexer.id].state = "building"
         /\ indexes[indexer.id].chunks <= indexer.have
    /\ indexer.at = "publish" => indexes[indexer.id].chunks = indexer.have

SymbolInv == SymbolTypeOK /\ OneCurrent /\ OkIsWhole /\ IndexerInStep

-----------------------------------------------------------------------------
(* Symbol index: the steps *)

\* A request stays a request when it is bumped.
LEMMA RequestedIsRequest ==
    ASSUME NEW r \in IndexRequest, NEW force \in BOOLEAN
    PROVE  Requested(r, force) \in IndexRequest
BY DEF Requested, IndexRequest, NoRequest

\* Steps that change no index and leave the worker where it is.
LEMMA IndexerRests ==
    ASSUME SymbolInv, UNCHANGED <<indexes, indexer>>
    PROVE  OneCurrent' /\ OkIsWhole' /\ IndexerInStep'
BY DEF SymbolInv, OneCurrent, CurrentIndexes, OkIsWhole, IndexerInStep

\* What a failed run, a purge or a publication does to the rows.
LEMMA PurgeKeeps ==
    ASSUME SymbolInv, indexes' = Purged(indexes)
    PROVE  /\ DOMAIN indexes' \subseteq IndexIds
           /\ \A i \in DOMAIN indexes' : indexes'[i] \in IndexRow
           /\ OneCurrent' /\ OkIsWhole'
<1>1. /\ DOMAIN indexes' \subseteq DOMAIN indexes
      /\ \A i \in DOMAIN indexes' : indexes'[i] = indexes[i]
  BY DEF Purged
<1> QED
  BY <1>1 DEF SymbolInv, SymbolTypeOK, OneCurrent, CurrentIndexes, OkIsWhole

LEMMA PublishKeeps ==
    ASSUME SymbolInv, Publish
    PROVE  /\ DOMAIN indexes' \subseteq IndexIds
           /\ \A i \in DOMAIN indexes' : indexes'[i] \in IndexRow
           /\ OneCurrent' /\ OkIsWhole'
<1> DEFINE new == indexer.id
<1>1. /\ new \in DOMAIN indexes
      /\ indexer.outcome \in {"ok", "partial"}
      /\ indexer.outcome = "ok" => indexes[new].chunks = Chunks
  BY DEF SymbolInv, IndexerInStep, Publish
<1>2. /\ DOMAIN indexes' = DOMAIN indexes
      /\ indexes'[new] = [indexes[new] EXCEPT !.state = indexer.outcome]
      /\ \A i \in DOMAIN indexes \ {new} :
           \/ /\ indexes[i].state \in {"ok", "partial"}
              /\ indexes'[i] = [indexes[i] EXCEPT !.state = "retired"]
           \/ /\ indexes[i].state \notin {"ok", "partial"}
              /\ indexes'[i] = indexes[i]
  BY <1>1 DEF Publish, Published
<1>3. \A i \in DOMAIN indexes : indexes[i] \in IndexRow
  BY DEF SymbolInv, SymbolTypeOK
<1>4. \A i \in DOMAIN indexes' : indexes'[i] \in IndexRow
  BY <1>1, <1>2, <1>3 DEF IndexRow
<1>5. \A i \in DOMAIN indexes \ {new} : indexes'[i].state \notin {"ok", "partial"}
  BY <1>2, <1>3 DEF IndexRow
<1>6. /\ indexes'[new].state = indexer.outcome
      /\ indexes'[new].chunks = indexes[new].chunks
  BY <1>1, <1>2, <1>3 DEF IndexRow
<1>7. OneCurrent'
  BY <1>2, <1>5 DEF OneCurrent, CurrentIndexes
<1>8. OkIsWhole'
  BY <1>1, <1>2, <1>5, <1>6 DEF OkIsWhole
<1> QED
  BY <1>2, <1>4, <1>7, <1>8 DEF SymbolInv, SymbolTypeOK

\* The worker begins a row, which no other row is.
LEMMA BeginKeeps ==
    ASSUME SymbolInv, Begin
    PROVE  SymbolInv'
<1>1. PICK i \in IndexIds \ DOMAIN indexes :
        /\ indexes' = [k \in DOMAIN indexes \cup {i} |->
                         IF k = i THEN [tree |-> indexer.tree, chunks |-> 0,
                                        state |-> "building"]
                         ELSE indexes[k]]
        /\ indexer' = [indexer EXCEPT !.at = "add", !.id = i]
  BY DEF Begin
<1>2. /\ DOMAIN indexes' = DOMAIN indexes \cup {i}
      /\ indexes'[i] = [tree |-> indexer.tree, chunks |-> 0, state |-> "building"]
      /\ \A k \in DOMAIN indexes : indexes'[k] = indexes[k]
  BY <1>1
<1>3. indexer \in Indexer /\ indexer.at = "begin" /\ i \in 1..3
  BY <1>1 DEF SymbolInv, SymbolTypeOK, Begin, IndexIds
<1>4. /\ indexer.tree \in Versions
      /\ indexer.have \in 0..Chunks /\ indexer.outcome \in {"ok", "partial"}
      /\ indexer.outcome = "ok" => indexer.have = Chunks
  <2>1. indexer.tree \in 0..MaxRefs /\ indexer.have \in 0..Chunks
    BY <1>3 DEF Indexer
  <2>2. /\ indexer.tree # 0 /\ indexer.outcome \in {"ok", "partial"}
        /\ indexer.outcome = "ok" => indexer.have = Chunks
    BY <1>3 DEF SymbolInv, IndexerInStep
  <2> QED
    BY <2>1, <2>2, SymbolAssumption DEF Versions
<1>5. indexes'[i] \in IndexRow
  BY <1>2, <1>4, SymbolAssumption DEF IndexRow
<1>6. indexer' \in Indexer
  <2>1. i \in 0..3
    BY <1>3
  <2> QED
    BY <1>1, <1>3, <2>1 DEF Indexer
<1>7. SymbolTypeOK'
  BY <1>2, <1>3, <1>5, <1>6 DEF SymbolInv, SymbolTypeOK, Begin, IndexIds
<1>8. OneCurrent' /\ OkIsWhole'
  BY <1>1, <1>2 DEF SymbolInv, OneCurrent, CurrentIndexes, OkIsWhole
<1>9. IndexerInStep'
  <2>1. /\ indexer'.at = "add" /\ indexer'.id = i
        /\ indexer'.outcome = indexer.outcome /\ indexer'.have = indexer.have
    BY <1>1, <1>3 DEF Indexer
  <2> QED
    BY <2>1, <1>2, <1>4 DEF IndexerInStep
<1> QED
  BY <1>7, <1>8, <1>9 DEF SymbolInv

\* The worker writes a chunk, or has written them all.
LEMMA AddKeeps ==
    ASSUME SymbolInv, AddSymbols
    PROVE  SymbolInv'
<1> DEFINE id == indexer.id
<1>1. /\ indexer \in Indexer /\ indexer.at = "add"
      /\ id \in DOMAIN indexes /\ indexes[id] \in IndexRow
      /\ indexes[id].state = "building" /\ indexes[id].chunks <= indexer.have
  BY DEF SymbolInv, SymbolTypeOK, IndexerInStep, AddSymbols
<1>2. CASE indexes[id].chunks < indexer.have
  <2>1. /\ indexer' = indexer /\ DOMAIN indexes' = DOMAIN indexes
        /\ indexes'[id] = [indexes[id] EXCEPT !.chunks = @ + 1]
        /\ \A k \in DOMAIN indexes \ {id} : indexes'[k] = indexes[k]
    BY <1>1, <1>2 DEF AddSymbols
  <2>2. /\ indexes'[id] \in IndexRow /\ indexes'[id].state = "building"
        /\ indexes'[id].chunks <= indexer.have
    <3>1. indexer.have \in 0..Chunks
      BY <1>1 DEF Indexer
    <3>2. indexes[id].chunks \in 0..Chunks /\ indexes[id].chunks + 1 \in 0..Chunks
      BY <1>1, <1>2, <3>1, SymbolAssumption DEF IndexRow
    <3>3. indexes[id].chunks + 1 <= indexer.have
      BY <1>2, <3>1, <3>2, SymbolAssumption
    <3>4. /\ indexes'[id] \in IndexRow /\ indexes'[id].state = "building"
          /\ indexes'[id].chunks = indexes[id].chunks + 1
      BY <1>1, <2>1, <3>2 DEF IndexRow
    <3> QED
      BY <3>3, <3>4
  <2>3. SymbolTypeOK'
    BY <2>1, <2>2 DEF SymbolInv, SymbolTypeOK, AddSymbols
  <2>4. OneCurrent' /\ OkIsWhole'
    BY <1>1, <2>1, <2>2 DEF SymbolInv, OneCurrent, CurrentIndexes, OkIsWhole
  <2>5. IndexerInStep'
    BY <1>1, <2>1, <2>2 DEF SymbolInv, IndexerInStep
  <2> QED
    BY <2>3, <2>4, <2>5 DEF SymbolInv
<1>3. CASE ~(indexes[id].chunks < indexer.have)
  <2>1. indexes' = indexes /\ indexer' = [indexer EXCEPT !.at = "publish"]
    BY <1>3 DEF AddSymbols
  <2>2. /\ indexer' \in Indexer /\ indexer'.at = "publish" /\ indexer'.id = id
        /\ indexer'.outcome = indexer.outcome /\ indexer'.have = indexer.have
        /\ indexes[id].chunks = indexer.have
    <3>1. indexer.have \in 0..Chunks /\ indexes[id].chunks \in 0..Chunks
      BY <1>1 DEF Indexer, IndexRow
    <3>2. indexes[id].chunks = indexer.have
      BY <1>1, <1>3, <3>1, SymbolAssumption
    <3> QED
      BY <1>1, <2>1, <3>2 DEF Indexer
  <2>3. SymbolTypeOK'
    BY <2>1, <2>2 DEF SymbolInv, SymbolTypeOK, AddSymbols
  <2>4. OneCurrent' /\ OkIsWhole'
    BY <2>1 DEF SymbolInv, OneCurrent, CurrentIndexes, OkIsWhole
  <2>5. IndexerInStep'
    BY <1>1, <2>1, <2>2 DEF SymbolInv, IndexerInStep
  <2> QED
    BY <2>3, <2>4, <2>5 DEF SymbolInv
<1> QED
  BY <1>2, <1>3

\* The worker moves on without touching a row.
LEMMA IndexerMoves ==
    ASSUME SymbolInv, UNCHANGED indexes,
           SweepRequests \/ Resolve \/ Collect \/ FinishRequest \/ SymbolRestart
    PROVE  SymbolInv'
<1> USE SymbolAssumption
<1>1. indexer \in Indexer /\ request \in IndexRequest /\ refs \in 0..MaxRefs
  BY DEF SymbolInv, SymbolTypeOK
<1>2. IdleIndexer \in Indexer
  BY DEF IdleIndexer, Indexer, IndexRequest, NoRequest
<1>3. CASE SweepRequests
  <2>1. indexer' \in Indexer /\ indexer'.at = "purge"
    BY <1>1, <1>2, <1>3 DEF SweepRequests, IdleIndexer, Indexer
  <2> QED
    BY <1>3, <2>1 DEF SymbolInv, SymbolTypeOK, OneCurrent, CurrentIndexes,
       OkIsWhole, IndexerInStep, SweepRequests
<1>4. CASE Resolve
  <2>1. /\ indexer' \in Indexer /\ indexer'.at \in {"done", "collect"}
        /\ indexer'.at = "collect" => indexer'.tree # 0
    BY <1>1, <1>4 DEF Resolve, Indexer
  <2> QED
    BY <1>4, <2>1 DEF SymbolInv, SymbolTypeOK, OneCurrent, CurrentIndexes,
       OkIsWhole, IndexerInStep, Resolve
<1>5. CASE Collect
  <2> DEFINE Collected ==
        /\ indexer' \in Indexer /\ indexer'.tree # 0
        /\ indexer'.at \in {"begin", "failed"}
        /\ indexer'.at = "begin" => /\ indexer'.outcome \in {"ok", "partial"}
                                    /\ indexer'.outcome = "ok" => indexer'.have = Chunks
        /\ failure' \in 0..MaxRefs /\ recent' \in BOOLEAN
  <2>1. Collected
    <3>1. indexer.at = "collect" /\ indexer.tree # 0 /\ indexer.tree \in 0..MaxRefs
      BY <1>1, <1>5 DEF Collect, SymbolInv, IndexerInStep, Indexer
    <3>2. failure \in 0..MaxRefs /\ recent \in BOOLEAN
      BY DEF SymbolInv, SymbolTypeOK
    <3>3. CASE /\ indexer' = [indexer EXCEPT !.at = "failed"]
               /\ failure' = indexer.tree /\ recent' = TRUE
      BY <1>1, <3>1, <3>3 DEF Indexer
    <3>4. CASE /\ indexer' = [indexer EXCEPT !.at = "begin", !.have = Chunks,
                                             !.outcome = "ok"]
               /\ UNCHANGED <<failure, recent>>
      <4>1. Chunks \in 0..Chunks
        OBVIOUS
      <4> QED
        BY <1>1, <3>1, <3>2, <3>4, <4>1 DEF Indexer
    <3>5. CASE \E n \in 0..(Chunks - 1) :
                 /\ indexer' = [indexer EXCEPT !.at = "begin", !.have = n,
                                               !.outcome = "partial"]
                 /\ UNCHANGED <<failure, recent>>
      <4>1. \A n \in 0..(Chunks - 1) : n \in 0..Chunks
        OBVIOUS
      <4> QED
        BY <1>1, <3>1, <3>2, <3>5, <4>1 DEF Indexer
    <3> QED
      BY <1>5, <3>3, <3>4, <3>5 DEF Collect
  <2> QED
    BY <1>5, <2>1 DEF SymbolInv, SymbolTypeOK, OneCurrent, CurrentIndexes,
       OkIsWhole, IndexerInStep, Collect
<1>6. CASE FinishRequest
  <2>1. request' \in IndexRequest
    <3>1. NoRequest \in IndexRequest
      BY DEF NoRequest, IndexRequest
    <3>2. [request EXCEPT !.force = FALSE, !.attempts = @ + 1, !.waiting = TRUE]
             \in IndexRequest
      <4>1. request.attempts + 1 \in Nat
        BY <1>1 DEF IndexRequest
      <4> QED
        BY <1>1, <4>1 DEF IndexRequest
    <3> QED
      BY <1>1, <1>6, <3>1, <3>2 DEF FinishRequest
  <2>2. indexer' \in Indexer /\ indexer'.at = "idle"
    BY <1>2, <1>6 DEF FinishRequest, IdleIndexer
  <2> QED
    BY <1>6, <2>1, <2>2 DEF SymbolInv, SymbolTypeOK, OneCurrent, CurrentIndexes,
       OkIsWhole, IndexerInStep, FinishRequest
<1>7. CASE SymbolRestart
  <2>1. indexer' \in Indexer /\ indexer'.at = "idle"
    BY <1>2, <1>7 DEF SymbolRestart, IdleIndexer
  <2> QED
    BY <1>7, <2>1 DEF SymbolInv, SymbolTypeOK, OneCurrent, CurrentIndexes,
       OkIsWhole, IndexerInStep, SymbolRestart
<1> QED
  BY <1>3, <1>4, <1>5, <1>6, <1>7

\* SymbolInv is inductive.
LEMMA SymbolInitially ==
    ASSUME SymbolInit
    PROVE  SymbolInv
<1>1. NoRequest \in IndexRequest
  BY DEF NoRequest, IndexRequest
<1>2. IdleIndexer \in Indexer /\ IdleIndexer.at = "idle"
  BY <1>1, SymbolAssumption DEF IdleIndexer, Indexer
<1>3. DOMAIN indexes = {}
  BY DEF SymbolInit
<1>4. SymbolTypeOK
  <2>1. 0 \in 0..MaxRefs /\ 0 \in 0..MaxReindexes /\ 0 \in 0..MaxRestarts
    BY SymbolAssumption
  <2>2. indexer \in Indexer /\ request \in IndexRequest
    BY <1>1, <1>2 DEF SymbolInit
  <2> QED
    BY <1>3, <2>1, <2>2 DEF SymbolInit, SymbolTypeOK
<1>5. OneCurrent /\ OkIsWhole
  BY <1>3 DEF OneCurrent, CurrentIndexes, OkIsWhole
<1>6. IndexerInStep
  BY <1>2 DEF SymbolInit, IndexerInStep
<1> QED
  BY <1>4, <1>5, <1>6 DEF SymbolInv

LEMMA SymbolStep ==
    ASSUME SymbolInv, [SymbolNext]_symbolVars
    PROVE  SymbolInv'
<1> USE SymbolAssumption
<1>1. CASE MoveRefs \/ CommitFile
  <2>1. refs \in 0..MaxRefs /\ refs < MaxRefs
    BY <1>1 DEF SymbolInv, SymbolTypeOK, MoveRefs, CommitFile
  <2>2. refs + 1 \in 0..MaxRefs /\ refs + 1 \in Versions
    BY <2>1 DEF Versions
  <2>3. SymbolTypeOK'
    BY <1>1, <2>2 DEF SymbolInv, SymbolTypeOK, MoveRefs, CommitFile
  <2> QED
    BY <1>1, <2>3, IndexerRests DEF SymbolInv, MoveRefs, CommitFile
<1>2. ASSUME NEW v \in Versions, AskForIndex(v)
      PROVE  SymbolInv'
  <2>1. request' \in IndexRequest
    BY <1>2, RequestedIsRequest DEF AskForIndex, SymbolInv, SymbolTypeOK
  <2>2. SymbolTypeOK'
    BY <1>2, <2>1 DEF SymbolInv, SymbolTypeOK, AskForIndex
  <2> QED
    BY <1>2, <2>2, IndexerRests DEF SymbolInv, AskForIndex
<1>3. CASE Reindex
  <2>1. request' \in IndexRequest
    BY <1>3, RequestedIsRequest DEF Reindex, SymbolInv, SymbolTypeOK
  <2>2. reindexes' \in 0..MaxReindexes
    BY <1>3 DEF Reindex, SymbolInv, SymbolTypeOK
  <2>3. SymbolTypeOK'
    BY <1>3, <2>1, <2>2 DEF SymbolInv, SymbolTypeOK, Reindex
  <2> QED
    BY <1>3, <2>3, IndexerRests DEF SymbolInv, Reindex
<1>4. CASE SweepRequests \/ Resolve \/ Collect \/ FinishRequest \/ SymbolRestart
  BY <1>4, IndexerMoves DEF SweepRequests, Resolve, Collect, FinishRequest, SymbolRestart
<1>5. CASE Purge
  <2>1. /\ DOMAIN indexes' \subseteq IndexIds
        /\ \A i \in DOMAIN indexes' : indexes'[i] \in IndexRow
        /\ OneCurrent' /\ OkIsWhole'
    BY <1>5, PurgeKeeps DEF Purge
  <2>2. indexer' \in Indexer /\ indexer'.at \in {"resolve", "done"}
    BY <1>5 DEF Purge, Indexer, SymbolInv, SymbolTypeOK
  <2> QED
    <3>1. SymbolTypeOK'
      BY <1>5, <2>1, <2>2 DEF SymbolInv, SymbolTypeOK, Purge
    <3> QED
      BY <2>1, <2>2, <3>1 DEF SymbolInv, IndexerInStep
<1>6. CASE Publish
  <2>1. indexer' \in Indexer /\ indexer'.at = "purgeRetired"
    BY <1>6 DEF Publish, Indexer, SymbolInv, SymbolTypeOK
  <2>2. failure' \in 0..MaxRefs /\ recent' \in BOOLEAN
    <3>1. 0 \in 0..MaxRefs
      OBVIOUS
    <3> QED
      BY <1>6, <3>1, Zenon DEF Publish
  <2>3. /\ DOMAIN indexes' \subseteq IndexIds
        /\ \A i \in DOMAIN indexes' : indexes'[i] \in IndexRow
        /\ OneCurrent' /\ OkIsWhole'
    BY <1>6, PublishKeeps
  <2>4. UNCHANGED <<refs, unasked, request, silent, reindexes, restarts>>
    BY <1>6 DEF Publish
  <2>5. SymbolTypeOK'
    BY <2>1, <2>2, <2>3, <2>4 DEF SymbolInv, SymbolTypeOK
  <2> QED
    BY <2>1, <2>3, <2>5 DEF SymbolInv, IndexerInStep
<1>7. CASE BackoffPasses
  <2>1. request' \in IndexRequest
    BY <1>7 DEF BackoffPasses, IndexRequest, SymbolInv, SymbolTypeOK
  <2>2. SymbolTypeOK'
    BY <1>7, <2>1 DEF SymbolInv, SymbolTypeOK, BackoffPasses
  <2> QED
    BY <1>7, <2>2, IndexerRests DEF SymbolInv, BackoffPasses
<1>8. CASE UNCHANGED symbolVars
  <2>1. SymbolTypeOK'
    BY <1>8 DEF SymbolInv, SymbolTypeOK, symbolVars
  <2> QED
    BY <1>8, <2>1, IndexerRests DEF SymbolInv, symbolVars
<1> QED
  BY <1>1, <1>2, <1>3, <1>4, <1>5, <1>6, <1>7, <1>8, BeginKeeps, AddKeeps
     DEF SymbolNext, IndexerStep

\* Requests, rows, failures and the worker keep their shape.
THEOREM SymbolTypeCorrect == SymbolSpec => []SymbolTypeOK
<1>1. SymbolInv => SymbolTypeOK
  BY DEF SymbolInv
<1> QED
  BY <1>1, SymbolInitially, SymbolStep, PTL DEF SymbolSpec

\* At most one index is served, and all of what its run collected, for any
\* number of chunks, ref updates and restarts: a publication retires the index
\* it replaces in the transaction that shows the new one, and a run that was
\* cut leaves rows that no search reads.
THEOREM IndexServedIsWhole == SymbolSpec => []ServedIndexIsWhole
<1>1. ASSUME SymbolInv PROVE ServedIndexIsWhole
  <2>1. CASE CurrentIndexes = {}
    BY <1>1, <2>1, FS_EmptySet DEF ServedIndexIsWhole
  <2>2. CASE CurrentIndexes # {}
    <3>1. PICK i \in CurrentIndexes : TRUE
      BY <2>2
    <3>2. CurrentIndexes = {i}
      BY <1>1, <3>1 DEF SymbolInv, OneCurrent
    <3>3. Cardinality(CurrentIndexes) = 1
      BY <3>2, FS_Singleton
    <3> QED
      BY <1>1, <3>3 DEF ServedIndexIsWhole, CurrentIndexes, SymbolInv, OkIsWhole
  <2> QED
    BY <2>1, <2>2
<1> QED
  BY <1>1, SymbolInitially, SymbolStep, PTL DEF SymbolSpec

-----------------------------------------------------------------------------
(* LFS: the inductive invariant *)

LfsRoles == {"none", "read", "write"}
LfsKeyRow == [pin: 0..MaxPins, scope: Scopes, role: LfsRoles, live: BOOLEAN]
Token == [key: LfsKeyIds \cup {0}, pin: 0..MaxPins, op: LfsOpKinds]
Upload == [with: Token, has: BOOLEAN, skipped: BOOLEAN]
Collection == [at: {"idle", "scanned", "listed"},
               named: SUBSET Oids, orphans: SUBSET Oids]

LfsShape ==
    /\ lfsKey \in [LfsKeyIds -> LfsKeyRow] /\ pinsUsed \in 0..MaxPins
    /\ lfsPublic \in BOOLEAN /\ lfsArchived \in BOOLEAN
    /\ lfsToken \subseteq Token
    /\ blob \in [Oids -> {"none", "new", "old"}]
    /\ DOMAIN uploading \subseteq Oids /\ uploading \in [DOMAIN uploading -> Upload]
    /\ pointers \subseteq Oids /\ outlived \subseteq Oids
    /\ gc \in Collection

\* What a collection listed is still as old as it was.
OrphansAreOld == \A o \in gc.orphans : blob[o] = "old"

\* What a client is about to push is in the store: young if it put it there
\* itself, and otherwise there unless a collection came between.
UploadsAreStored ==
    \A o \in DOMAIN uploading : uploading[o].has =>
        IF uploading[o].skipped THEN blob[o] # "none" \/ o \in outlived
        ELSE blob[o] = "new"

LfsInv == LfsShape /\ OrphansAreOld /\ UploadsAreStored /\ PushedIsStored

-----------------------------------------------------------------------------
(* LFS: the steps *)

\* A token is minted for a key as it is, or for nobody.
LEMMA SignMakesToken ==
    ASSUME LfsShape, NEW k \in LfsKeyIds \cup {0}, NEW op \in LfsOpKinds
    PROVE  Sign(k, op) \in Token
<1>1. (IF k = 0 THEN 0 ELSE lfsKey[k].pin) \in 0..MaxPins
  <2>1. CASE k = 0
    BY <2>1, LfsAssumption
  <2>2. CASE k # 0
    BY <2>2 DEF LfsShape, LfsKeyRow
  <2> QED
    BY <2>1, <2>2
<1> QED
  BY <1>1 DEF Sign, Token

\* Steps that touch neither the store nor what names its objects.
LEMMA StoreRests ==
    ASSUME LfsInv, UNCHANGED <<blob, uploading, pointers, gc, outlived>>
    PROVE  OrphansAreOld' /\ UploadsAreStored' /\ PushedIsStored'
BY DEF LfsInv, OrphansAreOld, UploadsAreStored, PushedIsStored

\* Keys, their roles and the flags of the repository.
LEMMA KeysMove ==
    ASSUME LfsInv, NEW k \in LfsKeyIds, NEW scope \in Scopes, NEW role \in LfsRoles,
           NEW gone \in BOOLEAN,
           RegisterKey(k, scope, role) \/ DropKey(k, gone) \/ SetRole(k, role)
    PROVE  LfsInv'
<1>1. /\ lfsKey \in [LfsKeyIds -> LfsKeyRow] /\ pinsUsed \in 0..MaxPins
      /\ lfsKey[k] \in LfsKeyRow
  BY DEF LfsInv, LfsShape
<1>2. UNCHANGED <<lfsPublic, lfsArchived, lfsToken, blob, uploading, pointers, gc, outlived>>
  BY DEF RegisterKey, DropKey, SetRole
<1>3. lfsKey' \in [LfsKeyIds -> LfsKeyRow] /\ pinsUsed' \in 0..MaxPins
  <2>1. CASE RegisterKey(k, scope, role)
    <3>1. pinsUsed + 1 \in 0..MaxPins
      BY <1>1, <2>1, LfsAssumption DEF RegisterKey
    <3>2. [pin |-> pinsUsed + 1, scope |-> scope, role |-> role, live |-> TRUE] \in LfsKeyRow
      BY <3>1 DEF LfsKeyRow
    <3> QED
      BY <1>1, <2>1, <3>1, <3>2 DEF RegisterKey
  <2>2. CASE DropKey(k, gone)
    <3>1. NoKey \in LfsKeyRow
      BY LfsAssumption DEF NoKey, LfsKeyRow, Scopes, LfsRoles
    <3>2. [lfsKey[k] EXCEPT !.live = FALSE] \in LfsKeyRow
      BY <1>1 DEF LfsKeyRow
    <3> QED
      BY <1>1, <2>2, <3>1, <3>2 DEF DropKey
  <2>3. CASE SetRole(k, role)
    <3>1. [lfsKey[k] EXCEPT !.role = role] \in LfsKeyRow
      BY <1>1 DEF LfsKeyRow
    <3>2. lfsKey' = [lfsKey EXCEPT ![k] = [lfsKey[k] EXCEPT !.role = role]]
      BY <1>1, <2>3 DEF SetRole
    <3> QED
      BY <1>1, <2>3, <3>1, <3>2 DEF SetRole
  <2> QED
    BY <2>1, <2>2, <2>3
<1>4. LfsShape'
  BY <1>2, <1>3 DEF LfsInv, LfsShape
<1> QED
  BY <1>2, <1>4, StoreRests DEF LfsInv

\* Tokens minted or expired.
LEMMA TokensMove ==
    ASSUME LfsInv, lfsToken' \subseteq Token,
           UNCHANGED <<lfsKey, pinsUsed, lfsPublic, lfsArchived, blob, uploading,
                       pointers, gc, outlived>>
    PROVE  LfsInv'
<1>1. LfsShape'
  BY DEF LfsInv, LfsShape
<1> QED
  BY <1>1, StoreRests DEF LfsInv

\* A batch answers a client: what the store has is skipped.
LEMMA BatchKeeps ==
    ASSUME LfsInv, NEW t \in lfsToken, NEW o \in Oids, lfsBatch(t, o)
    PROVE  LfsInv'
<1> DEFINE up == [with |-> t, has |-> blob[o] # "none", skipped |-> blob[o] # "none"]
<1>1. /\ DOMAIN uploading' = DOMAIN uploading \cup {o}
      /\ uploading' = [x \in DOMAIN uploading \cup {o} |->
                         IF x = o THEN up ELSE uploading[x]]
      /\ lfsToken' = lfsToken \cup {Sign(t.key, "upload")}
      /\ UNCHANGED <<lfsKey, pinsUsed, lfsPublic, lfsArchived, blob, pointers, gc, outlived>>
  BY DEF lfsBatch
<1>2. /\ LfsShape /\ t \in Token /\ t.key \in LfsKeyIds \cup {0}
      /\ DOMAIN uploading \subseteq Oids /\ uploading \in [DOMAIN uploading -> Upload]
  BY DEF LfsInv, LfsShape, Token
<1>3. lfsToken' \subseteq Token
  <2>1. Sign(t.key, "upload") \in Token
    BY <1>2, SignMakesToken DEF LfsOpKinds
  <2> QED
    BY <1>1, <1>2, <2>1 DEF LfsShape
<1>4. up \in Upload
  BY <1>2 DEF Upload
<1>5. DOMAIN uploading' \subseteq Oids /\ uploading' \in [DOMAIN uploading' -> Upload]
  BY <1>1, <1>2, <1>4
<1>6. LfsShape'
  BY <1>1, <1>2, <1>3, <1>5 DEF LfsShape
<1>7. UploadsAreStored'
  <2> SUFFICES ASSUME NEW x \in DOMAIN uploading', uploading'[x].has
               PROVE  IF uploading'[x].skipped THEN blob[x] # "none" \/ x \in outlived
                      ELSE blob[x] = "new"
    BY <1>1 DEF UploadsAreStored
  <2>1. CASE x = o
    <3>1. uploading'[x] = up
      BY <1>1, <2>1
    <3>2. up.has <=> blob[o] # "none"
      OBVIOUS
    <3>3. up.skipped <=> blob[o] # "none"
      OBVIOUS
    <3> HIDE DEF up
    <3>4. blob[o] # "none" /\ uploading'[x].skipped
      BY <3>1, <3>2, <3>3
    <3> QED
      BY <2>1, <3>4
  <2>2. CASE x # o
    BY <1>1, <2>2 DEF LfsInv, UploadsAreStored
  <2> QED
    BY <2>1, <2>2
<1>8. OrphansAreOld' /\ PushedIsStored'
  BY <1>1 DEF LfsInv, OrphansAreOld, PushedIsStored
<1> QED
  BY <1>6, <1>7, <1>8 DEF LfsInv

\* A client whose upload is over, pushed or refused.
LEMMA UploadEnds ==
    ASSUME LfsShape, NEW o,
           uploading' = [x \in DOMAIN uploading \ {o} |-> uploading[x]]
    PROVE  /\ DOMAIN uploading' \subseteq Oids
           /\ uploading' \in [DOMAIN uploading' -> Upload]
           /\ \A x \in DOMAIN uploading' : x \in DOMAIN uploading /\ x # o
                                           /\ uploading'[x] = uploading[x]
BY DEF LfsShape

\* An upload stores the object, or the token is worth nothing any more.
LEMMA UploadKeeps ==
    ASSUME LfsInv, NEW o \in Oids, lfsUpload(o)
    PROVE  LfsInv'
<1>1. /\ o \in DOMAIN uploading /\ LfsShape
      /\ uploading \in [DOMAIN uploading -> Upload] /\ uploading[o] \in Upload
      /\ DOMAIN uploading \subseteq Oids /\ blob \in [Oids -> {"none", "new", "old"}]
  BY DEF lfsUpload, LfsInv, LfsShape
<1>2. UNCHANGED <<lfsKey, pinsUsed, lfsPublic, lfsArchived, lfsToken, pointers, gc, outlived>>
  BY DEF lfsUpload
<1>3. CASE lfsAuth(uploading[o].with) = "upload"
  <2>1. /\ blob' = [blob EXCEPT ![o] = IF @ = "none" THEN "new" ELSE @]
        /\ uploading' = [uploading EXCEPT ![o].has = TRUE,
                                          ![o].skipped = blob[o] # "none"]
    BY <1>3 DEF lfsUpload, Put
  <2>2. /\ blob' \in [Oids -> {"none", "new", "old"}]
        /\ blob'[o] # "none" /\ (blob[o] = "none" => blob'[o] = "new")
        /\ \A x \in Oids : blob[x] # "none" => blob'[x] = blob[x]
        /\ \A x \in Oids \ {o} : blob'[x] = blob[x]
    BY <1>1, <2>1
  <2>3. /\ DOMAIN uploading' = DOMAIN uploading
        /\ uploading'[o] \in Upload
        /\ uploading'[o].skipped <=> blob[o] # "none"
        /\ \A x \in DOMAIN uploading \ {o} : uploading'[x] = uploading[x]
        /\ uploading' \in [DOMAIN uploading' -> Upload]
    BY <1>1, <2>1 DEF Upload
  <2>4. LfsShape'
    BY <1>1, <1>2, <2>2, <2>3 DEF LfsShape
  <2>5. UploadsAreStored'
    BY <1>1, <1>2, <2>2, <2>3 DEF LfsInv, UploadsAreStored
  <2>6. gc.orphans \subseteq Oids
    BY <1>1 DEF LfsShape, Collection
  <2>7. OrphansAreOld' /\ PushedIsStored'
    BY <1>1, <1>2, <2>2, <2>6 DEF LfsInv, LfsShape, OrphansAreOld, PushedIsStored
  <2> QED
    BY <2>4, <2>5, <2>7 DEF LfsInv
<1>4. CASE lfsAuth(uploading[o].with) # "upload"
  <2>1. /\ uploading' = [x \in DOMAIN uploading \ {o} |-> uploading[x]]
        /\ blob' = blob
    BY <1>4 DEF lfsUpload
  <2>2. LfsShape'
    BY <1>1, <1>2, <2>1, UploadEnds DEF LfsShape
  <2> QED
    BY <1>1, <1>2, <2>1, <2>2, UploadEnds
       DEF LfsInv, UploadsAreStored, OrphansAreOld, PushedIsStored
<1> QED
  BY <1>3, <1>4

\* A push names what its client knows to be in the store.
LEMMA PushKeeps ==
    ASSUME LfsInv, NEW o \in Oids, PushPointers(o)
    PROVE  LfsInv'
<1>1. /\ o \in DOMAIN uploading /\ uploading[o].has /\ LfsShape
      /\ pointers' = pointers \cup {o}
      /\ uploading' = [x \in DOMAIN uploading \ {o} |-> uploading[x]]
      /\ UNCHANGED <<lfsKey, pinsUsed, lfsPublic, lfsArchived, lfsToken, blob, gc, outlived>>
  BY DEF PushPointers, LfsInv
<1>2. /\ DOMAIN uploading' \subseteq Oids /\ uploading' \in [DOMAIN uploading' -> Upload]
      /\ \A x \in DOMAIN uploading' : x \in DOMAIN uploading /\ x # o
                                      /\ uploading'[x] = uploading[x]
  BY <1>1, UploadEnds
<1>3. LfsShape'
  BY <1>1, <1>2 DEF LfsShape
<1>4. blob[o] # "none" \/ o \in outlived
  BY <1>1 DEF LfsInv, UploadsAreStored
<1> QED
  BY <1>1, <1>2, <1>3, <1>4
     DEF LfsInv, UploadsAreStored, OrphansAreOld, PushedIsStored

\* A collection removes what it listed, which is old: no upload under way
\* counts on it unless the client skipped it.
LEMMA CollectionKeeps ==
    ASSUME LfsInv, gcScan \/ gcOrphans \/ gcLFS
    PROVE  LfsInv'
<1>1. /\ LfsShape /\ gc \in Collection /\ blob \in [Oids -> {"none", "new", "old"}]
      /\ pointers \subseteq Oids /\ gc.orphans \subseteq Oids
      /\ DOMAIN uploading \subseteq Oids /\ outlived \subseteq Oids
  BY DEF LfsInv, LfsShape, Collection
<1>2. UNCHANGED <<lfsKey, pinsUsed, lfsPublic, lfsArchived, lfsToken, uploading, pointers>>
  BY DEF gcScan, gcOrphans, gcLFS
<1>3. IdleGC \in Collection /\ IdleGC.orphans = {}
  BY DEF IdleGC, Collection
<1>4. CASE gcScan
  <2>1. gc' \in Collection /\ gc'.orphans = {} /\ UNCHANGED <<blob, outlived>>
    BY <1>1, <1>4 DEF gcScan, IdleGC, Collection
  <2>2. LfsShape'
    BY <1>1, <1>2, <2>1 DEF LfsShape
  <2> QED
    BY <1>2, <2>1, <2>2 DEF LfsInv, UploadsAreStored, OrphansAreOld, PushedIsStored
<1>5. CASE gcOrphans
  <2>1. UNCHANGED <<blob, outlived>> /\ gc' = [gc EXCEPT !.at = "listed", !.orphans = Orphans(gc.named)]
    BY <1>5 DEF gcOrphans
  <2>2. Orphans(gc.named) \subseteq Oids /\ \A o \in Orphans(gc.named) : blob[o] = "old"
    BY DEF Orphans
  <2>3. gc' \in Collection /\ gc'.orphans = Orphans(gc.named)
    BY <1>1, <2>1, <2>2 DEF Collection
  <2>4. LfsShape'
    BY <1>1, <1>2, <2>1, <2>3 DEF LfsShape
  <2> QED
    BY <1>2, <2>1, <2>2, <2>3, <2>4 DEF LfsInv, UploadsAreStored, OrphansAreOld, PushedIsStored
<1>6. CASE gcLFS /\ gc.orphans = {}
  <2>1. gc' = IdleGC /\ UNCHANGED <<blob, outlived>>
    BY <1>6 DEF gcLFS
  <2>2. LfsShape'
    BY <1>1, <1>2, <1>3, <2>1 DEF LfsShape
  <2> QED
    BY <1>2, <1>3, <2>1, <2>2 DEF LfsInv, UploadsAreStored, OrphansAreOld, PushedIsStored
<1>7. CASE gcLFS /\ gc.orphans # {}
  <2>1. PICK o \in gc.orphans :
          /\ blob' = [blob EXCEPT ![o] = "none"]
          /\ gc' = [gc EXCEPT !.orphans = @ \ {o}]
          /\ outlived' = IF o \in pointers \/ (o \in DOMAIN uploading /\ uploading[o].skipped)
                         THEN outlived \cup {o} ELSE outlived
    BY <1>7 DEF gcLFS
  <2>2. o \in Oids /\ blob[o] = "old"
    BY <1>1 DEF LfsInv, OrphansAreOld
  <2>3. /\ blob' \in [Oids -> {"none", "new", "old"}]
        /\ \A x \in Oids \ {o} : blob'[x] = blob[x]
    BY <1>1, <2>1
  <2>4. gc' \in Collection /\ gc'.orphans = gc.orphans \ {o}
    BY <1>1, <2>1 DEF Collection
  <2>5. outlived \subseteq outlived' /\ outlived' \subseteq Oids
    BY <1>1, <2>1, <2>2
  <2>6. LfsShape'
    BY <1>1, <1>2, <2>3, <2>4, <2>5 DEF LfsShape
  <2>7. OrphansAreOld'
    BY <1>1, <2>3, <2>4 DEF LfsInv, OrphansAreOld
  <2>8. PushedIsStored'
    BY <1>1, <1>2, <2>1, <2>3, <2>5 DEF LfsInv, PushedIsStored
  <2>9. UploadsAreStored'
    BY <1>1, <1>2, <2>1, <2>2, <2>3, <2>5 DEF LfsInv, UploadsAreStored
  <2> QED
    BY <2>6, <2>7, <2>8, <2>9 DEF LfsInv
<1> QED
  BY <1>4, <1>5, <1>6, <1>7

\* An object ages, but not while its client is on its way to push it.
LEMMA AgeKeeps ==
    ASSUME LfsInv, NEW o \in Oids, Ages(o)
    PROVE  LfsInv'
<1>1. /\ LfsShape /\ blob \in [Oids -> {"none", "new", "old"}] /\ blob[o] = "new"
      /\ gc.orphans \subseteq Oids /\ DOMAIN uploading \subseteq Oids
      /\ pointers \subseteq Oids
  BY DEF LfsInv, LfsShape, Collection, Ages
<1>2. /\ blob' = [blob EXCEPT ![o] = "old"]
      /\ o \in DOMAIN uploading => ~ uploading[o].has
      /\ UNCHANGED <<lfsKey, pinsUsed, lfsPublic, lfsArchived, lfsToken, uploading,
                     pointers, gc, outlived>>
  BY DEF Ages
<1>3. /\ blob' \in [Oids -> {"none", "new", "old"}] /\ blob'[o] = "old"
      /\ \A x \in Oids \ {o} : blob'[x] = blob[x]
  BY <1>1, <1>2
<1>4. LfsShape'
  BY <1>1, <1>2, <1>3 DEF LfsShape
<1>5. OrphansAreOld' /\ UploadsAreStored' /\ PushedIsStored'
  BY <1>1, <1>2, <1>3 DEF LfsInv, OrphansAreOld, UploadsAreStored, PushedIsStored
<1> QED
  BY <1>4, <1>5 DEF LfsInv

\* LfsInv is inductive.
LEMMA LfsInitially ==
    ASSUME LfsInit
    PROVE  LfsInv
<1>1. NoKey \in LfsKeyRow
  BY LfsAssumption DEF NoKey, LfsKeyRow, Scopes, LfsRoles
<1>2. [pin |-> 1, scope |-> "full", role |-> "write", live |-> TRUE] \in LfsKeyRow
  BY LfsAssumption DEF LfsKeyRow, Scopes, LfsRoles
<1>3. lfsKey \in [LfsKeyIds -> LfsKeyRow]
  BY <1>1, <1>2 DEF LfsInit
<1>4. pinsUsed \in 0..MaxPins
  BY LfsAssumption DEF LfsInit
<1>5. blob \in [Oids -> {"none", "new", "old"}]
  BY DEF LfsInit
<1>6. DOMAIN uploading = {} /\ uploading \in [DOMAIN uploading -> Upload]
  BY DEF LfsInit
<1>7. gc \in Collection /\ gc.orphans = {}
  BY DEF LfsInit, IdleGC, Collection
<1>8. LfsShape
  <2>1. lfsPublic \in BOOLEAN /\ lfsArchived \in BOOLEAN
    BY Zenon DEF LfsInit
  <2> QED
    BY <1>3, <1>4, <1>5, <1>6, <1>7, <2>1 DEF LfsInit, LfsShape
<1> QED
  BY <1>6, <1>7, <1>8 DEF LfsInit, LfsInv, OrphansAreOld, UploadsAreStored, PushedIsStored

LEMMA LfsStep ==
    ASSUME LfsInv, [LfsNext]_lfsVars
    PROVE  LfsInv'
<1>1. LfsShape /\ lfsToken \subseteq Token
  BY DEF LfsInv, LfsShape
<1>2. ASSUME NEW k \in LfsKeyIds, NEW op \in LfsOpKinds, runLFSAuthenticate(k, op)
      PROVE  LfsInv'
  <2>1. lfsToken' = lfsToken \cup {Sign(k, op)}
    BY <1>2 DEF runLFSAuthenticate
  <2>2. Sign(k, op) \in Token
    BY <1>1, SignMakesToken
  <2> QED
    BY <1>1, <1>2, <2>1, <2>2, TokensMove DEF runLFSAuthenticate
<1>3. CASE lfsBatchAnonymous
  <2>1. lfsToken' = lfsToken \cup {Sign(0, "download")}
    BY <1>3 DEF lfsBatchAnonymous
  <2>2. Sign(0, "download") \in Token
    BY <1>1, SignMakesToken DEF LfsOpKinds
  <2> QED
    BY <1>1, <1>3, <2>1, <2>2, TokensMove DEF lfsBatchAnonymous
<1>4. ASSUME NEW t \in lfsToken, Expires(t)
      PROVE  LfsInv'
  BY <1>1, <1>4, TokensMove DEF Expires
<1>5. ASSUME NEW k \in LfsKeyIds, NEW scope \in Scopes, NEW role \in LfsRoles,
             NEW gone \in BOOLEAN,
             RegisterKey(k, scope, role) \/ DropKey(k, gone) \/ SetRole(k, role)
      PROVE  LfsInv'
  BY <1>5, KeysMove
<1>6. ASSUME NEW p \in BOOLEAN, NEW a \in BOOLEAN, SetFlags(p, a)
      PROVE  LfsInv'
  <2>1. lfsPublic' \in BOOLEAN /\ lfsArchived' \in BOOLEAN
    BY <1>6, Zenon DEF SetFlags
  <2>2. UNCHANGED <<lfsKey, pinsUsed, lfsToken, blob, uploading, pointers, gc, outlived>>
    BY <1>6 DEF SetFlags
  <2>3. LfsShape'
    BY <1>1, <2>1, <2>2 DEF LfsShape
  <2> QED
    BY <2>2, <2>3, StoreRests DEF LfsInv
<1>7. CASE UNCHANGED lfsVars
  <2>1. LfsShape'
    BY <1>1, <1>7 DEF LfsShape, lfsVars
  <2> QED
    BY <1>7, <2>1, StoreRests DEF LfsInv, lfsVars
<1>8. CASE \E k \in LfsKeyIds : \E scope \in Scopes, role \in LfsRoles : RegisterKey(k, scope, role)
  BY <1>5, <1>8
<1>9. CASE \E k \in LfsKeyIds : \E gone \in BOOLEAN : DropKey(k, gone)
  <2>1. "full" \in Scopes /\ "none" \in LfsRoles
    BY DEF Scopes, LfsRoles
  <2> QED
    BY <1>5, <1>9, <2>1
<1>10. CASE \E k \in LfsKeyIds : \E role \in LfsRoles : SetRole(k, role)
  <2>1. "full" \in Scopes /\ TRUE \in BOOLEAN
    BY DEF Scopes
  <2> QED
    BY <1>5, <1>10, <2>1
<1> QED
  BY <1>2, <1>3, <1>4, <1>6, <1>7, <1>8, <1>9, <1>10,
     BatchKeeps, UploadKeeps, PushKeeps, CollectionKeeps, AgeKeeps
     DEF LfsNext, LfsRoles

\* Keys, tokens, objects, uploads and the collection keep their shape.
THEOREM LfsTypeCorrect == LfsSpec => []LfsTypeOK
<1>1. LfsInv => LfsTypeOK
  BY DEF LfsInv, LfsShape, LfsKeyRow, Token, LfsTypeOK
<1> QED
  BY <1>1, LfsInitially, LfsStep, PTL DEF LfsSpec

\* A token opens what its key opens at this moment, whatever was registered
\* under the key's id, dropped, narrowed, made private or archived since it
\* was minted; and no collection, at whatever point of an upload and a push it
\* scans, lists and deletes, removes an object that a pushed pointer names,
\* save one that the pusher's batch found in the store.
THEOREM LfsObjectsAreKept == LfsSpec => []ObjectsAreKept
<1>1. ASSUME LfsInv PROVE TokensAreWorthTheirKey
  <2> SUFFICES ASSUME NEW t \in lfsToken, lfsAuth(t) # "",
                      ~ (t.key = 0 /\ t.op = "download" /\ lfsPublic)
               PROVE  /\ t.key \in LfsKeyIds
                      /\ lfsKey[t.key].pin = t.pin /\ lfsKey[t.key].live
                      /\ t.op = "upload" =>
                           ~ lfsArchived /\ (lfsKey[t.key].role = "write"
                                             \/ lfsKey[t.key].scope = "deploy-rw")
                      /\ lfsPublic \/ lfsKey[t.key].role # "none"
                         \/ IsDeployScope(lfsKey[t.key].scope)
    BY DEF TokensAreWorthTheirKey
  <2>1. t.key \in LfsKeyIds \cup {0} /\ t.key # 0
    BY <1>1 DEF LfsInv, LfsShape, Token, lfsAuth
  <2>2. lfsKey[t.key].live /\ lfsKeyAllows(t.key, t.pin, t.op = "upload")
    BY <2>1 DEF lfsAuth
  <2>3. lfsKey[t.key].pin = t.pin /\ KeyMay(lfsKey[t.key], t.op = "upload")
    BY <2>2 DEF lfsKeyAllows
  <2>4. t.op = "upload" =>
           ~ lfsArchived /\ (lfsKey[t.key].role = "write"
                             \/ lfsKey[t.key].scope = "deploy-rw")
    BY <2>3 DEF KeyMay, DeployScopeAllows
  <2>5. lfsPublic \/ lfsKey[t.key].role # "none" \/ IsDeployScope(lfsKey[t.key].scope)
    BY <2>3 DEF KeyMay
  <2> QED
    BY <2>1, <2>2, <2>3, <2>4, <2>5
<1>2. LfsInv => ObjectsAreKept
  BY <1>1 DEF LfsInv, ObjectsAreKept
<1> QED
  BY <1>2, LfsInitially, LfsStep, PTL DEF LfsSpec

-----------------------------------------------------------------------------
(* Mail replies: the inductive invariant *)

KeysOf(u) == {ClaimKeys[u][i] : i \in DOMAIN ClaimKeys[u]}

\* The keys that the poller has claimed for the message in hand.
HeldKeys == {Key(i) : i \in 1..poller.n}

\* A message that may be marked seen.
Dealt(u) ==
    \/ u \in excused \/ CarriesTwice(u)
    \/ \E i \in DOMAIN ClaimKeys[u] : posts[ClaimKeys[u][i]] > 0

\* How many keys are claimed at each step of the poll.
PollerInStep ==
    /\ poller.at = "idle" => poller.list = {} /\ poller.n = 0
    /\ poller.at # "idle" => poller.list # {} /\ poller.n <= Len(ClaimKeys[Uid])
    /\ poller.at \in {"next", "refused", "failed"} => poller.n = 0
    /\ poller.at = "claim" => poller.n < Len(ClaimKeys[Uid]) /\ Uid \notin expired
    /\ poller.at \in {"post", "posted"} => poller.n = Len(ClaimKeys[Uid])

\* A claim the poller holds is its own, and nothing is posted under it before
\* the poller posts.
HeldAreItsOwn ==
    /\ \A i, j \in 1..poller.n : Key(i) = Key(j) => i = j
    /\ \A i \in 1..poller.n :
         /\ Key(i) \in claims
         /\ poller.at = "posted" => posts[Key(i)] > 0
         /\ poller.at # "posted" => posts[Key(i)] = 0

\* A message is taken for a copy, or refused, with a reason.
RefusedIsDealtWith == poller.at \in {"unclaim", "refused"} => Dealt(Uid)

\* A claim that no one holds is that of a comment, or of a message cut short.
ClaimsMeanDealt ==
    \A k \in claims :
        \/ \E i \in 1..poller.n : k = Key(i)
        \/ posts[k] > 0
        \/ \A u \in Uids : k \in KeysOf(u) => u \in excused

\* What was posted stays claimed for as long as a copy could be taken.
PostedStayClaimed ==
    \A k \in Keys :
        posts[k] > 0 => k \in claims \/ \A u \in Uids : k \in KeysOf(u) => u \in expired

ReplyInv ==
    /\ ReplyTypeOK /\ PollerInStep /\ HeldAreItsOwn /\ RefusedIsDealtWith
    /\ ClaimsMeanDealt /\ PostedStayClaimed /\ PostedOnce /\ NoReplyLost

-----------------------------------------------------------------------------
(* Mail replies: the steps *)

\* A set of numbers that is not empty has a least element.
LEMMA LeastUid ==
    ASSUME NEW T \in SUBSET Nat, T # {}
    PROVE  \E x \in T : \A y \in T : x <= y
<1> DEFINE R == OpToRel(<, Nat)
<1>1. IsWellFoundedOn(R, Nat)
  BY NatLessThanWellFounded
<1>2. ASSUME NEW x \in Nat, NEW y \in Nat, y < x
      PROVE  <<y, x>> \in R
  BY <1>2 DEF OpToRel
<1> HIDE DEF R
<1>3. PICK x \in T : \A y \in T : ~(<<y, x>> \in R)
  BY <1>1, WFMin
<1>4. ASSUME NEW y \in T PROVE x <= y
  <2>1. x \in Nat /\ y \in Nat /\ ~(<<y, x>> \in R)
    BY <1>3
  <2>2. ~(y < x)
    BY <1>2, <2>1
  <2> QED
    BY <2>1, <2>2
<1> QED
  BY <1>4

\* The message in hand is one of the list.
LEMMA UidInList ==
    ASSUME ReplyTypeOK, poller.list # {}
    PROVE  Uid \in poller.list /\ Uid \in Uids
<1>1. poller.list \subseteq Uids /\ poller.list \in SUBSET Nat
  BY ReplyAssumption DEF ReplyTypeOK, Poller
<1>2. \E u \in poller.list : \A v \in poller.list : u <= v
  BY <1>1, LeastUid
<1>3. Uid \in poller.list
  BY <1>2 DEF Uid
<1> QED
  BY <1>1, <1>3

\* Its keys are a sequence of keys, and there is one.
LEMMA UidKeys ==
    ASSUME NEW u \in Uids
    PROVE  /\ ClaimKeys[u] \in Seq(Keys) /\ ClaimKeys[u] # <<>>
           /\ Len(ClaimKeys[u]) \in Nat \ {0}
           /\ DOMAIN ClaimKeys[u] = 1..Len(ClaimKeys[u])
           /\ \A i \in 1..Len(ClaimKeys[u]) : ClaimKeys[u][i] \in Keys
<1>1. ClaimKeys[u] \in Seq(Keys) /\ ClaimKeys[u] # <<>>
  BY ReplyAssumption
<1> QED
  BY <1>1

\* Steps after which the poller has the same list deal with the same message.
LEMMA SameMessage ==
    ASSUME poller'.list = poller.list
    PROVE  Uid' = Uid /\ \A i : Key(i)' = Key(i)
BY DEF Uid, Key

\* A message that was dealt with stays so.
LEMMA DealtStays ==
    ASSUME excused \subseteq excused', posts \in [Keys -> Nat],
           \A k \in Keys : posts[k] > 0 => posts'[k] > 0
    PROVE  \A u \in Uids : Dealt(u) => Dealt(u)'
BY UidKeys DEF Dealt, CarriesTwice

\* The poll is over with one message: the next one, or none.
LEMMA OnToNext ==
    ASSUME ReplyTypeOK, poller.list # {}, NextMessage
    PROVE  /\ poller' \in Poller /\ poller'.n = 0
           /\ \/ poller'.at = "idle" /\ poller'.list = {}
              \/ poller'.at = "next" /\ poller'.list # {}
<1>1. Uid \in poller.list /\ poller.list \subseteq Uids
  BY UidInList DEF ReplyTypeOK, Poller
<1>2. CASE poller.list = {Uid}
  BY <1>2 DEF NextMessage, IdlePoller, Poller
<1>3. CASE poller.list # {Uid}
  <2>1. poller.list \ {Uid} # {}
    BY <1>1, <1>3
  <2> QED
    BY <1>1, <1>3, <2>1 DEF NextMessage, Poller
<1> QED
  BY <1>2, <1>3

\* A step of the poll that claims nothing and keeps the list.
LEMMA AtStep ==
    ASSUME ReplyTypeOK, NEW step,
           step \in {"idle", "next", "claim", "post", "posted", "unclaim",
                     "release", "refused", "failed"},
           At(step)
    PROVE  /\ poller' \in Poller /\ poller'.at = step
           /\ poller'.list = poller.list /\ poller'.n = poller.n
           /\ Uid' = Uid /\ \A i : Key(i)' = Key(i)
<1>1. /\ poller' \in Poller /\ poller'.at = step
      /\ poller'.list = poller.list /\ poller'.n = poller.n
  BY DEF At, ReplyTypeOK, Poller
<1> QED
  BY <1>1, SameMessage

\* Messages arrive, tokens expire, old claims are pruned: the poller rests.
LEMMA MailboxMoves ==
    ASSUME ReplyInv, UNCHANGED <<poller, posts, excused, tries, pollFaults>>,
           \/ \E u \in Uids : Arrives(u)
           \/ \E k \in Keys : TokenExpires(k)
           \/ PruneClaims
           \/ UNCHANGED replyVars
    PROVE  ReplyInv'
<1>1. Uid' = Uid /\ \A i : Key(i)' = Key(i)
  BY SameMessage
<1>2. \A u : Dealt(u)' <=> Dealt(u)
  BY DEF Dealt, CarriesTwice
<1>3. CASE (\E u \in Uids : Arrives(u)) \/ UNCHANGED replyVars
  <2>1. /\ UNCHANGED <<expired, claims>>
        /\ arrived' \subseteq Uids /\ unseen' \subseteq arrived'
        /\ arrived' \ unseen' \subseteq arrived \ unseen
    BY <1>3 DEF Arrives, replyVars, ReplyInv, ReplyTypeOK
  <2>2. ReplyTypeOK'
    BY <2>1 DEF ReplyInv, ReplyTypeOK
  <2>3. NoReplyLost'
    BY <2>1 DEF ReplyInv, NoReplyLost, CarriesTwice
  <2> QED
    BY <1>1, <1>2, <2>1, <2>2, <2>3
       DEF ReplyInv, PollerInStep, HeldAreItsOwn, RefusedIsDealtWith, ClaimsMeanDealt,
           PostedStayClaimed, PostedOnce, KeysOf
<1>4. CASE \E k \in Keys : TokenExpires(k)
  <2>1. /\ UNCHANGED <<unseen, arrived, claims>> /\ poller.at = "idle"
        /\ expired \subseteq expired' /\ expired' \subseteq Uids
    BY <1>4 DEF TokenExpires, ReplyInv, ReplyTypeOK
  <2>2. ReplyTypeOK'
    BY <2>1 DEF ReplyInv, ReplyTypeOK
  <2>3. NoReplyLost'
    BY <2>1 DEF ReplyInv, NoReplyLost, CarriesTwice
  <2> QED
    BY <1>1, <1>2, <2>1, <2>2, <2>3
       DEF ReplyInv, PollerInStep, HeldAreItsOwn, RefusedIsDealtWith, ClaimsMeanDealt,
           PostedStayClaimed, PostedOnce, KeysOf
<1>5. CASE PruneClaims
  <2>1. /\ UNCHANGED <<unseen, arrived, expired>> /\ poller.at = "idle"
        /\ claims' \subseteq claims
        /\ \A k \in claims \ claims' : \A u \in Uids : k \in KeysOf(u) => u \in expired
    BY <1>5 DEF PruneClaims, KeysOf
  <2>2. ReplyTypeOK'
    BY <2>1 DEF ReplyInv, ReplyTypeOK
  <2>3. NoReplyLost'
    BY <2>1 DEF ReplyInv, NoReplyLost, CarriesTwice
  <2>4. poller.n = 0
    BY <2>1 DEF ReplyInv, PollerInStep
  <2>5. HeldAreItsOwn'
    BY <2>4 DEF HeldAreItsOwn
  <2>6. PostedStayClaimed'
    BY <2>1 DEF ReplyInv, PostedStayClaimed, KeysOf
  <2> QED
    BY <1>1, <1>2, <2>1, <2>2, <2>3, <2>5, <2>6
       DEF ReplyInv, PollerInStep, RefusedIsDealtWith, ClaimsMeanDealt,
           PostedOnce, KeysOf
<1> QED
  BY <1>3, <1>4, <1>5

\* The poller lists the mailbox, or the poll is over with the message.
LEMMA FreshMessage ==
    ASSUME ReplyInv, ReplyTypeOK', poller'.n = 0,
           \/ poller'.at = "idle" /\ poller'.list = {}
           \/ poller'.at = "next" /\ poller'.list # {},
           UNCHANGED <<expired, claims, posts>>, excused \subseteq excused',
           \A i \in 1..poller.n :
               \/ posts[Key(i)] > 0
               \/ \A u \in Uids : Key(i) \in KeysOf(u) => u \in excused',
           \A u \in arrived' \ unseen' : u \in arrived \ unseen \/ Dealt(u)
    PROVE  ReplyInv'
<1>1. PollerInStep'
  <2>1. CASE poller'.list = {}
    BY <2>1 DEF PollerInStep
  <2>2. CASE poller'.list # {}
    <3>1. Uid' \in Uids
      <4>1. poller'.list \in SUBSET Nat /\ poller'.list \subseteq Uids
        BY ReplyAssumption DEF ReplyTypeOK, Poller
      <4>2. \E u \in poller'.list : \A v \in poller'.list : u <= v
        BY <2>2, <4>1, LeastUid
      <4> QED
        BY <4>1, <4>2 DEF Uid
    <3>2. Len(ClaimKeys[Uid'])  >= 0
      BY <3>1, UidKeys
    <3> QED
      BY <2>2, <3>2 DEF PollerInStep
  <2> QED
    BY <2>1, <2>2
<1>2. HeldAreItsOwn' /\ RefusedIsDealtWith'
  BY DEF HeldAreItsOwn, RefusedIsDealtWith
<1>3. ClaimsMeanDealt'
  BY DEF ReplyInv, ClaimsMeanDealt, KeysOf
<1>4. PostedStayClaimed' /\ PostedOnce'
  BY DEF ReplyInv, PostedStayClaimed, PostedOnce, KeysOf
<1>5. \A u : Dealt(u) => Dealt(u)'
  BY DEF Dealt, CarriesTwice
<1>6. NoReplyLost'
  <2>1. \A u \in arrived \ unseen : Dealt(u)
    BY DEF ReplyInv, NoReplyLost, Dealt
  <2>2. \A u \in arrived' \ unseen' : Dealt(u)'
    BY <1>5, <2>1
  <2> QED
    BY <2>2 DEF NoReplyLost, Dealt
<1> QED
  BY <1>1, <1>2, <1>3, <1>4, <1>6 DEF ReplyInv

\* A poll starts.
LEMMA ListKeeps ==
    ASSUME ReplyInv, ListUnseen
    PROVE  ReplyInv'
<1>1. /\ poller.at = "idle" /\ poller.n = 0 /\ unseen # {}
      /\ poller' = [IdlePoller EXCEPT !.list = unseen, !.at = "next"]
      /\ UNCHANGED <<unseen, arrived, expired, tries, claims, posts, excused, pollFaults>>
  BY DEF ListUnseen, ReplyInv, PollerInStep
<1>2. /\ poller' \in Poller /\ poller'.n = 0 /\ poller'.at = "next"
      /\ poller'.list # {}
  BY <1>1 DEF IdlePoller, Poller, ReplyInv, ReplyTypeOK
<1>3. ReplyTypeOK'
  BY <1>1, <1>2 DEF ReplyInv, ReplyTypeOK
<1> QED
  BY <1>1, <1>2, <1>3, FreshMessage

\* A message is marked seen: it was posted, or was dealt with otherwise.
LEMMA MarkKeeps ==
    ASSUME ReplyInv, MarkSeen
    PROVE  ReplyInv'
<1>1. /\ poller.at \in {"posted", "refused"} /\ NextMessage
      /\ unseen' = unseen \ {Uid} /\ tries' = [tries EXCEPT ![Uid] = 0]
      /\ UNCHANGED <<arrived, expired, claims, posts, excused, pollFaults>>
  BY DEF MarkSeen
<1>2. poller.list # {} /\ ReplyTypeOK /\ Uid \in Uids
  BY <1>1, UidInList DEF ReplyInv, PollerInStep
<1>3. /\ poller' \in Poller /\ poller'.n = 0
      /\ \/ poller'.at = "idle" /\ poller'.list = {}
         \/ poller'.at = "next" /\ poller'.list # {}
  BY <1>1, <1>2, OnToNext
<1>4. ReplyTypeOK'
  <2>1. tries' \in [Uids -> 0..MaxTries]
    <3>1. 0 \in 0..MaxTries
      BY ReplyAssumption
    <3> QED
      BY <1>1, <1>2, <3>1 DEF ReplyTypeOK
  <2> QED
    BY <1>1, <1>2, <1>3, <2>1 DEF ReplyTypeOK
<1>5. Dealt(Uid)
  <2>1. CASE poller.at = "refused"
    BY <2>1 DEF ReplyInv, RefusedIsDealtWith
  <2>2. CASE poller.at = "posted"
    <3>1. 1 \in DOMAIN ClaimKeys[Uid] /\ 1 \in 1..poller.n
      BY <1>2, <2>2, UidKeys DEF ReplyInv, PollerInStep
    <3>2. posts[Key(1)] > 0
      BY <2>2, <3>1 DEF ReplyInv, HeldAreItsOwn
    <3> QED
      BY <3>1, <3>2 DEF Dealt, Key
  <2> QED
    BY <1>1, <2>1, <2>2
<1>6. \A i \in 1..poller.n : posts[Key(i)] > 0
  BY <1>1 DEF ReplyInv, PollerInStep, HeldAreItsOwn
<1>7. \A u \in arrived' \ unseen' : u \in arrived \ unseen \/ Dealt(u)
  BY <1>1, <1>5
<1> QED
  BY <1>1, <1>3, <1>4, <1>6, <1>7, FreshMessage

\* A failure: the next try is a later poll's, or the message is given up.
LEMMA FailureKeeps ==
    ASSUME ReplyInv, Failed
    PROVE  ReplyInv'
<1>1. /\ poller.at = "failed" /\ poller.n = 0 /\ poller.list # {}
      /\ ReplyTypeOK /\ Uid \in Uids
      /\ UNCHANGED <<unseen, arrived, expired, claims, posts, pollFaults>>
  BY UidInList DEF Failed, ReplyInv, PollerInStep
<1>2. CASE tries[Uid] + 1 < MaxTries
  <2>1. tries' = [tries EXCEPT ![Uid] = @ + 1] /\ NextMessage /\ excused' = excused
    BY <1>2 DEF Failed
  <2>2. /\ poller' \in Poller /\ poller'.n = 0
        /\ \/ poller'.at = "idle" /\ poller'.list = {}
           \/ poller'.at = "next" /\ poller'.list # {}
    BY <1>1, <2>1, OnToNext
  <2>3. tries' \in [Uids -> 0..MaxTries]
    <3>1. tries[Uid] + 1 \in 0..MaxTries
      BY <1>1, <1>2, ReplyAssumption DEF ReplyTypeOK
    <3> QED
      BY <1>1, <2>1, <3>1 DEF ReplyTypeOK
  <2>4. ReplyTypeOK'
    BY <1>1, <2>1, <2>2, <2>3 DEF ReplyTypeOK
  <2> QED
    BY <1>1, <2>1, <2>2, <2>4, FreshMessage
<1>3. CASE ~(tries[Uid] + 1 < MaxTries)
  <2>1. At("refused") /\ excused' = excused \cup {Uid} /\ tries' = tries
    BY <1>3 DEF Failed
  <2>2. /\ poller' \in Poller /\ poller'.at = "refused"
        /\ poller'.list = poller.list /\ poller'.n = poller.n
        /\ Uid' = Uid /\ \A i : Key(i)' = Key(i)
    BY <1>1, <2>1, AtStep
  <2>3. ReplyTypeOK'
    BY <1>1, <2>1, <2>2 DEF ReplyTypeOK
  <2>4. PollerInStep' /\ HeldAreItsOwn'
    BY <1>1, <2>2 DEF ReplyInv, PollerInStep, HeldAreItsOwn
  <2>5. RefusedIsDealtWith'
    BY <2>1, <2>2 DEF RefusedIsDealtWith, Dealt
  <2>6. ClaimsMeanDealt' /\ PostedStayClaimed' /\ PostedOnce'
    BY <1>1, <2>1, <2>2
       DEF ReplyInv, ClaimsMeanDealt, PostedStayClaimed, PostedOnce, KeysOf
  <2>7. NoReplyLost'
    BY <1>1, <2>1 DEF ReplyInv, NoReplyLost, CarriesTwice
  <2> QED
    BY <2>3, <2>4, <2>5, <2>6, <2>7 DEF ReplyInv
<1> QED
  BY <1>2, <1>3

\* A poll is cut, by its connection or by a restart.
LEMMA CutKeeps ==
    ASSUME ReplyInv, PollFails \/ ReplyRestart
    PROVE  ReplyInv'
<1>1. /\ poller' = IdlePoller /\ pollFaults' = pollFaults + 1
      /\ pollFaults < MaxPollFaults
      /\ UNCHANGED <<unseen, arrived, expired, claims, posts>>
  BY DEF PollFails, ReplyRestart
<1>2. poller' \in Poller /\ poller'.n = 0 /\ poller'.at = "idle" /\ poller'.list = {}
  BY <1>1 DEF IdlePoller, Poller
<1>3. pollFaults' \in 0..MaxPollFaults
  BY <1>1, ReplyAssumption DEF ReplyInv, ReplyTypeOK
<1>4. tries' \in [Uids -> 0..MaxTries]
  <2>1. 0 \in 0..MaxTries
    BY ReplyAssumption
  <2> QED
    BY <2>1 DEF PollFails, ReplyRestart, ReplyInv, ReplyTypeOK
<1>5. excused \subseteq excused' /\ excused' \subseteq Uids
  BY DEF PollFails, ReplyRestart, ReplyInv, ReplyTypeOK
<1>6. ReplyTypeOK'
  BY <1>1, <1>2, <1>3, <1>4, <1>5 DEF ReplyInv, ReplyTypeOK
<1>7. ASSUME NEW i \in 1..poller.n
      PROVE  \/ posts[Key(i)] > 0
             \/ \A u \in Uids : Key(i) \in KeysOf(u) => u \in excused'
  <2>1. poller.n \in Nat /\ poller.n > 0 /\ poller.list # {}
    BY <1>7 DEF ReplyInv, ReplyTypeOK, Poller, PollerInStep
  <2>2. CASE poller.at = "posted"
    BY <1>7, <2>2 DEF ReplyInv, HeldAreItsOwn
  <2>3. CASE poller.at # "posted"
    <3>1. ~PollFails
      BY <2>1, <2>3 DEF PollFails, ReplyInv, PollerInStep
    <3>2. excused' = excused \cup {u \in Uids :
                       \E k \in DOMAIN ClaimKeys[u], j \in DOMAIN ClaimKeys[Uid] :
                           ClaimKeys[u][k] = Key(j)}
      BY <2>1, <2>3, <3>1 DEF ReplyRestart
    <3>3. i \in DOMAIN ClaimKeys[Uid]
      BY <2>1, UidInList, UidKeys DEF ReplyInv, PollerInStep
    <3> QED
      BY <3>2, <3>3 DEF KeysOf
  <2> QED
    BY <2>2, <2>3
<1> QED
  BY <1>1, <1>2, <1>5, <1>6, <1>7, FreshMessage

\* A message is checked: taken up, left for a later try, or refused.
LEMMA CheckKeeps ==
    ASSUME ReplyInv, CheckMessage
    PROVE  ReplyInv'
<1>1. /\ poller.at = "next" /\ poller.n = 0 /\ poller.list # {}
      /\ ReplyTypeOK /\ Uid \in Uids
      /\ UNCHANGED <<unseen, arrived, expired, tries, claims, posts, pollFaults>>
  BY UidInList DEF CheckMessage, ReplyInv, PollerInStep
<1>2. PICK step \in {"claim", "failed", "refused"} :
        /\ At(step)
        /\ step = "claim" => Uid \notin expired
        /\ IF step = "refused" THEN excused' = excused \cup {Uid} ELSE excused' = excused
  BY DEF CheckMessage
<1>3. /\ poller' \in Poller /\ poller'.at = step
      /\ poller'.list = poller.list /\ poller'.n = poller.n
      /\ Uid' = Uid /\ \A i : Key(i)' = Key(i)
  BY <1>1, <1>2, AtStep
<1>4. excused \subseteq excused' /\ excused' \subseteq Uids
  BY <1>1, <1>2 DEF ReplyTypeOK
<1>5. ReplyTypeOK'
  BY <1>1, <1>3, <1>4 DEF ReplyTypeOK
<1>6. Len(ClaimKeys[Uid]) \in Nat \ {0}
  BY <1>1, UidKeys
<1>7. PollerInStep' /\ HeldAreItsOwn'
  BY <1>1, <1>2, <1>3, <1>6 DEF PollerInStep, HeldAreItsOwn
<1>8. RefusedIsDealtWith'
  BY <1>2, <1>3 DEF RefusedIsDealtWith, Dealt
<1>9. ClaimsMeanDealt' /\ PostedStayClaimed' /\ PostedOnce'
  BY <1>1, <1>3, <1>4 DEF ReplyInv, ClaimsMeanDealt, PostedStayClaimed, PostedOnce, KeysOf
<1>10. NoReplyLost'
  BY <1>1, <1>4 DEF ReplyInv, NoReplyLost, CarriesTwice
<1> QED
  BY <1>5, <1>7, <1>8, <1>9, <1>10 DEF ReplyInv

\* A key is claimed, or is in the way: then it is the message's own, or the
\* claim of a copy that was dealt with.
LEMMA ClaimKeeps ==
    ASSUME ReplyInv, Claim
    PROVE  ReplyInv'
<1> DEFINE m == poller.n + 1
           k == Key(m)
<1>1. /\ poller.at = "claim" /\ poller.list # {} /\ ReplyTypeOK
      /\ Uid \in Uids /\ Uid \notin expired
      /\ poller \in Poller /\ poller.n \in Nat /\ poller.n < Len(ClaimKeys[Uid])
      /\ UNCHANGED <<unseen, arrived, expired, tries, posts, excused, pollFaults>>
  BY UidInList DEF Claim, ReplyInv, PollerInStep, ReplyTypeOK, Poller
<1>2. /\ m \in DOMAIN ClaimKeys[Uid] /\ k \in Keys /\ k \in KeysOf(Uid)
      /\ DOMAIN ClaimKeys[Uid] = 1..Len(ClaimKeys[Uid])
      /\ Len(ClaimKeys[Uid]) \in Nat
  BY <1>1, UidKeys DEF Key, KeysOf
<1>3. NoReplyLost' /\ PostedOnce'
  BY <1>1 DEF ReplyInv, NoReplyLost, CarriesTwice, PostedOnce
<1>4. \A u : Dealt(u) => Dealt(u)'
  BY <1>1 DEF Dealt, CarriesTwice
<1>5. CASE /\ k \notin claims /\ claims' = claims \cup {k}
           /\ poller' = [poller EXCEPT !.n = m,
                           !.at = IF m = Len(ClaimKeys[Uid]) THEN "post" ELSE "claim"]
  <2>1. /\ poller' \in Poller /\ poller'.n = m /\ poller'.list = poller.list
        /\ poller'.at = IF m = Len(ClaimKeys[Uid]) THEN "post" ELSE "claim"
    <3>1. m \in Nat
      BY <1>1
    <3> HIDE DEF m
    <3>2. CASE m = Len(ClaimKeys[Uid])
      BY <1>1, <1>5, <3>1, <3>2 DEF Poller
    <3>3. CASE m # Len(ClaimKeys[Uid])
      BY <1>1, <1>5, <3>1, <3>3 DEF Poller
    <3> QED
      BY <3>2, <3>3
  <2>2. Uid' = Uid /\ \A i : Key(i)' = Key(i)
    BY <2>1, SameMessage
  <2>3. ReplyTypeOK'
    BY <1>1, <1>2, <1>5, <2>1 DEF ReplyTypeOK
  <2>4. PollerInStep'
    BY <1>1, <1>2, <2>1, <2>2 DEF PollerInStep
  <2>5. posts[k] = 0
    <3>1. posts[k] \in Nat
      BY <1>1, <1>2 DEF ReplyTypeOK
    <3>2. ~(posts[k] > 0)
      BY <1>1, <1>2, <1>5 DEF ReplyInv, PostedStayClaimed
    <3> QED
      BY <3>1, <3>2
  <2>6. HeldAreItsOwn'
    <3>1. \A i \in 1..poller.n : Key(i) \in claims /\ posts[Key(i)] = 0
      BY <1>1 DEF ReplyInv, HeldAreItsOwn
    <3>2. \A i \in 1..m : i = m \/ i \in 1..poller.n
      BY <1>1
    <3>3. \A i \in 1..m : Key(i) \in claims' /\ posts[Key(i)] = 0
      BY <1>5, <2>5, <3>1, <3>2
    <3>4. \A i, j \in 1..m : Key(i) = Key(j) => i = j
      BY <1>5, <3>1, <3>2 DEF ReplyInv, HeldAreItsOwn
    <3> HIDE DEF m
    <3> QED
      BY <1>1, <2>1, <2>2, <3>3, <3>4 DEF HeldAreItsOwn
  <2>7. RefusedIsDealtWith'
    BY <2>1 DEF RefusedIsDealtWith
  <2>8. ClaimsMeanDealt'
    <3>1. m \in 1..m /\ \A i \in 1..poller.n : i \in 1..m
      BY <1>1
    <3> HIDE DEF m
    <3> QED
      BY <1>1, <1>5, <2>1, <2>2, <3>1 DEF ReplyInv, ClaimsMeanDealt, KeysOf
  <2>9. PostedStayClaimed'
    BY <1>1, <1>5 DEF ReplyInv, PostedStayClaimed, KeysOf
  <2> QED
    BY <1>3, <2>3, <2>4, <2>6, <2>7, <2>8, <2>9 DEF ReplyInv
<1>6. CASE \/ k \in claims /\ At("unclaim") /\ UNCHANGED claims
           \/ At("release") /\ UNCHANGED claims
  <2>1. PICK step \in {"unclaim", "release"} :
          At(step) /\ UNCHANGED claims /\ (step = "unclaim" => k \in claims)
    BY <1>6
  <2>2. /\ poller' \in Poller /\ poller'.at = step
        /\ poller'.list = poller.list /\ poller'.n = poller.n
        /\ Uid' = Uid /\ \A i : Key(i)' = Key(i)
    BY <1>1, <2>1, AtStep
  <2>3. ReplyTypeOK'
    BY <1>1, <2>1, <2>2 DEF ReplyTypeOK
  <2>4. PollerInStep' /\ HeldAreItsOwn'
    BY <1>1, <2>1, <2>2 DEF ReplyInv, PollerInStep, HeldAreItsOwn
  <2>5. ASSUME step = "unclaim" PROVE Dealt(Uid)
    <3>1. k \in claims
      BY <2>1, <2>5
    <3>2. CASE \E i \in 1..poller.n : k = Key(i)
      <4>1. PICK i \in 1..poller.n : ClaimKeys[Uid][m] = ClaimKeys[Uid][i]
        BY <3>2 DEF Key
      <4>2. i # m /\ i \in DOMAIN ClaimKeys[Uid]
        BY <1>1, <1>2
      <4> QED
        BY <1>2, <4>1, <4>2 DEF Dealt, CarriesTwice
    <3>3. CASE posts[k] > 0
      BY <1>2, <3>3 DEF Dealt, Key
    <3>4. CASE \A u \in Uids : k \in KeysOf(u) => u \in excused
      BY <1>1, <1>2, <3>4 DEF Dealt
    <3> QED
      BY <3>1, <3>2, <3>3, <3>4 DEF ReplyInv, ClaimsMeanDealt
  <2>6. RefusedIsDealtWith'
    <3> SUFFICES ASSUME step = "unclaim" PROVE Dealt(Uid)'
      BY <2>1, <2>2 DEF RefusedIsDealtWith
    <3>1. Dealt(Uid)
      BY <2>5
    <3> QED
      BY <1>1, <2>2, <3>1 DEF Dealt, CarriesTwice
  <2>7. ClaimsMeanDealt' /\ PostedStayClaimed'
    BY <1>1, <2>1, <2>2 DEF ReplyInv, ClaimsMeanDealt, PostedStayClaimed, KeysOf
  <2> QED
    BY <1>3, <2>3, <2>4, <2>6, <2>7 DEF ReplyInv
<1> QED
  BY <1>5, <1>6 DEF Claim

\* The comment is posted under every key of the message, or it is not.
LEMMA PostKeeps ==
    ASSUME ReplyInv, PostComment
    PROVE  ReplyInv'
<1>1. /\ poller.at = "post" /\ poller.list # {} /\ ReplyTypeOK
      /\ Uid \in Uids /\ poller.n = Len(ClaimKeys[Uid])
      /\ UNCHANGED <<unseen, arrived, expired, tries, claims, pollFaults>>
  BY UidInList DEF PostComment, ReplyInv, PollerInStep
<1>2. /\ DOMAIN ClaimKeys[Uid] = 1..poller.n /\ Len(ClaimKeys[Uid]) \in Nat \ {0}
      /\ \A i \in 1..poller.n : Key(i) \in Keys
  BY <1>1, UidKeys DEF Key
<1>3. CASE /\ At("posted") /\ excused' = excused
           /\ posts' = [k \in Keys |->
                          IF \E i \in DOMAIN ClaimKeys[Uid] : Key(i) = k
                          THEN posts[k] + 1 ELSE posts[k]]
  <2>1. /\ poller' \in Poller /\ poller'.at = "posted"
        /\ poller'.list = poller.list /\ poller'.n = poller.n
        /\ Uid' = Uid /\ \A i : Key(i)' = Key(i)
    BY <1>1, <1>3, AtStep
  <2>2. \A i \in 1..poller.n : posts[Key(i)] = 0 /\ Key(i) \in claims
    BY <1>1 DEF ReplyInv, HeldAreItsOwn
  <2>3. /\ posts' \in [Keys -> Nat]
        /\ \A i \in 1..poller.n : posts'[Key(i)] = 1
        /\ \A k \in Keys : posts'[k] = posts[k]
                           \/ \E i \in 1..poller.n : k = Key(i) /\ posts'[k] = 1
    <3>1. posts \in [Keys -> Nat]
      BY <1>1 DEF ReplyTypeOK
    <3>2. \A k \in Keys : posts'[k] = IF \E i \in 1..poller.n : Key(i) = k
                                      THEN posts[k] + 1 ELSE posts[k]
      BY <1>2, <1>3
    <3>3. posts' \in [Keys -> Nat]
      BY <1>3, <3>1
    <3>4. \A i \in 1..poller.n : posts'[Key(i)] = 1
      BY <1>2, <2>2, <3>2
    <3>5. \A k \in Keys : posts'[k] = posts[k]
                           \/ \E i \in 1..poller.n : k = Key(i)
      BY <3>2
    <3> QED
      BY <3>3, <3>4, <3>5
  <2>4. \A k \in Keys : posts[k] > 0 => posts'[k] > 0
    BY <2>3
  <2>5. ReplyTypeOK'
    BY <1>1, <1>3, <2>1, <2>3 DEF ReplyTypeOK
  <2>6. PollerInStep'
    BY <1>1, <1>2, <2>1 DEF PollerInStep
  <2>7. HeldAreItsOwn'
    BY <1>1, <2>1, <2>2, <2>3 DEF ReplyInv, HeldAreItsOwn
  <2>8. RefusedIsDealtWith'
    BY <2>1 DEF RefusedIsDealtWith
  <2>9. claims \subseteq Keys
    BY <1>1 DEF ReplyTypeOK
  <2>10. ClaimsMeanDealt'
    BY <1>1, <1>3, <2>1, <2>4, <2>9 DEF ReplyInv, ClaimsMeanDealt, KeysOf
  <2>11. PostedStayClaimed'
    BY <1>1, <2>2, <2>3 DEF ReplyInv, PostedStayClaimed, KeysOf
  <2>12. PostedOnce'
    BY <2>3 DEF ReplyInv, PostedOnce
  <2>13. NoReplyLost'
    <3>1. \A u \in Uids : Dealt(u) => Dealt(u)'
      BY <1>1, <1>3, <2>4, DealtStays DEF ReplyTypeOK
    <3>2. \A u \in arrived \ unseen : u \in Uids /\ Dealt(u)
      BY <1>1 DEF ReplyInv, NoReplyLost, Dealt, ReplyTypeOK
    <3>3. \A u \in arrived' \ unseen' : Dealt(u)'
      BY <1>1, <3>1, <3>2
    <3> QED
      BY <3>3 DEF NoReplyLost, Dealt
  <2> QED
    BY <2>5, <2>6, <2>7, <2>8, <2>10, <2>11, <2>12, <2>13 DEF ReplyInv
<1>4. CASE \/ At("unclaim") /\ excused' = excused \cup {Uid} /\ UNCHANGED posts
           \/ At("release") /\ UNCHANGED <<posts, excused>>
  <2>1. PICK step \in {"unclaim", "release"} :
          /\ At(step) /\ UNCHANGED posts
          /\ excused \subseteq excused' /\ excused' \subseteq excused \cup {Uid}
          /\ step = "unclaim" => Uid \in excused'
    BY <1>4
  <2>2. /\ poller' \in Poller /\ poller'.at = step
        /\ poller'.list = poller.list /\ poller'.n = poller.n
        /\ Uid' = Uid /\ \A i : Key(i)' = Key(i)
    BY <1>1, <2>1, AtStep
  <2>3. ReplyTypeOK'
    BY <1>1, <2>1, <2>2 DEF ReplyTypeOK
  <2>4. PollerInStep' /\ HeldAreItsOwn'
    BY <1>1, <1>2, <2>1, <2>2 DEF ReplyInv, PollerInStep, HeldAreItsOwn
  <2>5. RefusedIsDealtWith'
    BY <2>1, <2>2 DEF RefusedIsDealtWith, Dealt
  <2>6. ClaimsMeanDealt' /\ PostedStayClaimed' /\ PostedOnce'
    BY <1>1, <2>1, <2>2
       DEF ReplyInv, ClaimsMeanDealt, PostedStayClaimed, PostedOnce, KeysOf
  <2>7. NoReplyLost'
    BY <1>1, <2>1 DEF ReplyInv, NoReplyLost, CarriesTwice
  <2> QED
    BY <2>3, <2>4, <2>5, <2>6, <2>7 DEF ReplyInv
<1> QED
  BY <1>3, <1>4 DEF PostComment

\* Claims are given back one by one, the poller's own and no other.
LEMMA ReleaseKeeps ==
    ASSUME ReplyInv, ReleaseClaims
    PROVE  ReplyInv'
<1>1. /\ poller.at \in {"unclaim", "release"} /\ poller.list # {} /\ ReplyTypeOK
      /\ Uid \in Uids /\ poller \in Poller /\ poller.n \in Nat
      /\ poller.n <= Len(ClaimKeys[Uid]) /\ Len(ClaimKeys[Uid]) \in Nat
      /\ UNCHANGED <<unseen, arrived, expired, tries, posts, excused, pollFaults>>
  BY UidInList, UidKeys DEF ReleaseClaims, ReplyInv, PollerInStep, ReplyTypeOK, Poller
<1>2. NoReplyLost' /\ PostedOnce'
  BY <1>1 DEF ReplyInv, NoReplyLost, CarriesTwice, PostedOnce
<1>3. poller.at = "unclaim" => Dealt(Uid)
  BY DEF ReplyInv, RefusedIsDealtWith
<1>4. CASE poller.n > 0
  <2> DEFINE m == poller.n - 1
  <2>1. /\ claims' = claims \ {Key(poller.n)}
        /\ poller' = [poller EXCEPT !.n = m]
        /\ m \in Nat
    BY <1>1, <1>4 DEF ReleaseClaims
  <2>2. /\ poller' \in Poller /\ poller'.n = m
        /\ poller'.list = poller.list /\ poller'.at = poller.at
    BY <1>1, <2>1 DEF Poller
  <2>3. Uid' = Uid /\ \A i : Key(i)' = Key(i)
    BY <2>2, SameMessage
  <2>4. ReplyTypeOK'
    BY <1>1, <2>1, <2>2 DEF ReplyTypeOK
  <2>5. PollerInStep'
    BY <1>1, <2>1, <2>2, <2>3 DEF ReplyInv, PollerInStep
  <2>6. \A i \in 1..m : i \in 1..poller.n /\ i # poller.n
    BY <1>1, <1>4
  <2>7. \A i \in 1..poller.n : i = poller.n \/ i \in 1..m
    BY <1>1, <1>4
  <2>8. poller.n \in 1..poller.n
    BY <1>1, <1>4
  <2> HIDE DEF m
  <2>9. HeldAreItsOwn'
    BY <1>1, <2>1, <2>2, <2>3, <2>6, <2>8 DEF ReplyInv, HeldAreItsOwn
  <2>10. RefusedIsDealtWith'
    BY <1>1, <1>3, <2>2, <2>3 DEF RefusedIsDealtWith, Dealt, CarriesTwice
  <2>11. ClaimsMeanDealt'
    BY <1>1, <2>1, <2>2, <2>3, <2>7 DEF ReplyInv, ClaimsMeanDealt, KeysOf
  <2>12. posts[Key(poller.n)] = 0
    BY <1>1, <2>8 DEF ReplyInv, HeldAreItsOwn
  <2>13. PostedStayClaimed'
    BY <1>1, <2>1, <2>12 DEF ReplyInv, PostedStayClaimed, KeysOf
  <2> QED
    BY <1>2, <2>4, <2>5, <2>9, <2>10, <2>11, <2>13 DEF ReplyInv
<1>5. CASE ~(poller.n > 0)
  <2>1. PICK step \in {"refused", "failed"} :
          At(step) /\ UNCHANGED claims /\ (step = "refused" => poller.at = "unclaim")
    BY <1>5 DEF ReleaseClaims
  <2>2. /\ poller' \in Poller /\ poller'.at = step
        /\ poller'.list = poller.list /\ poller'.n = poller.n
        /\ Uid' = Uid /\ \A i : Key(i)' = Key(i)
    BY <1>1, <2>1, AtStep
  <2>3. ReplyTypeOK'
    BY <1>1, <2>1, <2>2 DEF ReplyTypeOK
  <2>4. poller.n = 0
    BY <1>1, <1>5
  <2>5. PollerInStep' /\ HeldAreItsOwn'
    BY <1>1, <2>1, <2>2, <2>4 DEF ReplyInv, PollerInStep, HeldAreItsOwn
  <2>6. RefusedIsDealtWith'
    BY <1>1, <1>3, <2>1, <2>2 DEF RefusedIsDealtWith, Dealt, CarriesTwice
  <2>7. ClaimsMeanDealt' /\ PostedStayClaimed'
    BY <1>1, <2>1, <2>2 DEF ReplyInv, ClaimsMeanDealt, PostedStayClaimed, KeysOf
  <2> QED
    BY <1>2, <2>3, <2>5, <2>6, <2>7 DEF ReplyInv
<1> QED
  BY <1>4, <1>5

\* ReplyInv is inductive.
LEMMA ReplyInitially ==
    ASSUME ReplyInit
    PROVE  ReplyInv
<1>1. 0 \in 0..MaxTries /\ 0 \in 0..MaxPollFaults
  BY ReplyAssumption
<1>2. /\ poller \in Poller /\ poller.at = "idle" /\ poller.n = 0 /\ poller.list = {}
  BY DEF ReplyInit, IdlePoller, Poller
<1>3. ReplyTypeOK
  BY <1>1, <1>2 DEF ReplyInit, ReplyTypeOK
<1>4. PollerInStep /\ HeldAreItsOwn /\ RefusedIsDealtWith
  BY <1>2 DEF PollerInStep, HeldAreItsOwn, RefusedIsDealtWith
<1> QED
  BY <1>3, <1>4
     DEF ReplyInit, ReplyInv, ClaimsMeanDealt, PostedStayClaimed, PostedOnce, NoReplyLost

LEMMA ReplyStep ==
    ASSUME ReplyInv, [ReplyNext]_replyVars
    PROVE  ReplyInv'
<1>1. CASE \/ \E u \in Uids : Arrives(u)
           \/ \E k \in Keys : TokenExpires(k)
           \/ PruneClaims
           \/ UNCHANGED replyVars
  BY <1>1, MailboxMoves DEF Arrives, TokenExpires, PruneClaims, replyVars
<1> QED
  BY <1>1, ListKeeps, CheckKeeps, ClaimKeeps, PostKeeps, ReleaseKeeps, FailureKeeps,
     MarkKeeps, CutKeeps DEF ReplyNext, PollStep

\* Mailbox, claims, tries and the poller keep their shape.
THEOREM ReplyTypeCorrect == ReplySpec => []ReplyTypeOK
<1>1. ReplyInv => ReplyTypeOK
  BY DEF ReplyInv
<1> QED
  BY <1>1, ReplyInitially, ReplyStep, PTL DEF ReplySpec

\* However many copies of a reply arrive, under whatever keys they share, and
\* whenever polls fail, restarts come and claims are pruned: no key is posted
\* twice, and no message is marked seen that was not dealt with.
THEOREM RepliesArePostedOnce == ReplySpec => []RepliesPostOnce
<1>1. ReplyInv => RepliesPostOnce
  BY DEF ReplyInv, RepliesPostOnce
<1> QED
  BY <1>1, ReplyInitially, ReplyStep, PTL DEF ReplySpec

-----------------------------------------------------------------------------
(* The bot's issue: the inductive invariant *)

\* What the issue lists is what was found and is not dismissed.
InLine ==
    LET rest == reported \ dismissed
    IN  /\ number # 0 /\ issues[number].open =>
             rest # {} /\ issues[number].lists = rest
        /\ rest # {} => number # 0

\* The saved set is still the one before the report; a dismissal reports it.
Unsaved(c) == IF c.dismissing THEN c.found = reported ELSE c.was = reported

\* What an undisturbed process has read is so, and if it may yet find that
\* nothing changed, a steady issue is in line.
KnowsRead(c) ==
    /\ c.at = "maintain" => c.reads = {}
    /\ "number" \notin c.reads => c.num = number
    /\ "dismissed" \notin c.reads => c.out = dismissed
    /\ c.dismissing \/ "reported" \notin c.reads => Unsaved(c)
    /\ steady /\ ~ c.dismissing => InLine

\* After Maintain decided: each step has left or will find what it needs.
KnowsDecided(c) ==
    /\ c.out = dismissed
    /\ c.at \in {"close", "forget", "saveEmpty", "save"} => Unsaved(c)
    /\ c.at \in {"update", "create", "record"} => reported = c.found
    /\ c.at \in {"close", "forget", "saveEmpty"} <=> ToList(c) = {}
    /\ c.at \in {"close", "update"} => c.num = number
    /\ c.at = "saveEmpty" => number = 0 \/ ~ issues[number].open
    /\ c.at = "save" /\ c.num # 0 => c.num = number
    /\ c.at = "record" => issues[c.num].lists = ToList(c)

Knows(c) ==
    /\ c.at # "idle"
    /\ c.at \in {"read", "maintain"} => KnowsRead(c)
    /\ c.at \notin {"read", "maintain"} => KnowsDecided(c)

NumberStands(c) ==
    /\ c.num <= Len(issues)
    /\ c.at \in {"close", "update", "record"} => c.num # 0

NumbersStand == \A p \in Checkers : NumberStands(checker[p])
AloneKnows == \A p \in Checkers : checker[p].alone => enabled /\ Knows(checker[p])
AloneIsAlone ==
    \A p, q \in Checkers : checker[p].alone /\ checker[q].at # "idle" => p = q
CrowdUnsettles ==
    \A p \in Checkers : checker[p].at # "idle" /\ ~ checker[p].alone => ~ steady
SteadyInLine == steady /\ (\A p \in Checkers : checker[p].at = "idle") => InLine

BotOrder == NumbersStand /\ AloneKnows /\ AloneIsAlone /\ CrowdUnsettles
            /\ SteadyInLine
BotInv == BotTypeOK /\ BotOrder

-----------------------------------------------------------------------------
(* The bot's issue: the steps *)

\* A process that is alone and takes a step that it knows enough for: there
\* is no other to be disturbed.
LEMMA ProcessGoesOn ==
    ASSUME BotInv, NEW p \in Checkers, NEW c \in Checker,
           checker' = [checker EXCEPT ![p] = c],
           checker[p].at # "idle", c.at # "idle", c.alone = checker[p].alone,
           UNCHANGED <<enabled, steady>>, issues' \in Seq(Issue),
           Len(issues) <= Len(issues'),
           NumberStands(c)', c.alone => Knows(c)'
    PROVE  BotOrder' /\ checker' \in [Checkers -> Checker]
<1>0. /\ checker \in [Checkers -> Checker] /\ issues \in Seq(Issue)
  BY DEF BotInv, BotTypeOK
<1>1. /\ checker' \in [Checkers -> Checker] /\ checker'[p] = c
      /\ \A q \in Checkers : q # p => checker'[q] = checker[q]
  BY <1>0
<1>2. NumbersStand'
  <2>1. \A q \in Checkers : q # p => NumberStands(checker[q])'
    <3> SUFFICES ASSUME NEW q \in Checkers, q # p PROVE NumberStands(checker[q])'
      OBVIOUS
    <3>1. NumberStands(checker[q]) /\ checker[q].num \in Nat
      BY <1>0 DEF BotInv, BotOrder, NumbersStand, Checker
    <3> QED
      BY <3>1, <1>1, <1>0 DEF NumberStands
  <2> QED
    BY <2>1, <1>1 DEF NumbersStand, NumberStands
<1>3. AloneKnows' /\ AloneIsAlone' /\ CrowdUnsettles'
  <2>1. \A q \in Checkers : q # p => ~ checker[q].alone
    BY DEF BotInv, BotOrder, AloneIsAlone
  <2>2. checker'[p].alone => Knows(checker[p])'
    BY <1>1 DEF Knows, KnowsRead, KnowsDecided, InLine, Unsaved
  <2>3. AloneKnows'
    BY <2>1, <2>2, <1>1 DEF BotInv, BotOrder, AloneKnows
  <2>4. AloneIsAlone' /\ CrowdUnsettles'
    BY <2>1, <1>1 DEF BotInv, BotOrder, AloneIsAlone, CrowdUnsettles
  <2> QED
    BY <2>3, <2>4
<1>4. SteadyInLine'
  BY <1>1 DEF SteadyInLine
<1> QED
  BY <1>1, <1>2, <1>3, <1>4 DEF BotOrder

\* A process that ends leaves the issue in line, if it was alone.
LEMMA ProcessEnds ==
    ASSUME BotInv, NEW p \in Checkers, NEW written \in BOOLEAN,
           Ends(p, written), checker[p].at # "idle", enabled' = enabled,
           issues' \in Seq(Issue), Len(issues) <= Len(issues'),
           checker[p].alone /\ (steady \/ written) => InLine'
    PROVE  BotOrder' /\ checker' \in [Checkers -> Checker] /\ steady' \in BOOLEAN
<1>0. /\ checker \in [Checkers -> Checker] /\ issues \in Seq(Issue)
      /\ steady \in BOOLEAN
  BY DEF BotInv, BotTypeOK
<1>1. /\ IdleChecker \in Checker /\ IdleChecker.at = "idle" /\ IdleChecker.num = 0
      /\ ~ IdleChecker.alone
  BY DEF IdleChecker, Checker, Reads
<1>2. /\ checker' \in [Checkers -> Checker] /\ checker'[p] = IdleChecker
      /\ \A q \in Checkers : q # p => checker'[q] = checker[q]
  BY <1>0, <1>1 DEF Ends
<1>3. NumbersStand'
  <2>1. \A q \in Checkers : q # p => NumberStands(checker[q])'
    <3> SUFFICES ASSUME NEW q \in Checkers, q # p PROVE NumberStands(checker[q])'
      OBVIOUS
    <3>1. NumberStands(checker[q]) /\ checker[q].num \in Nat
      BY <1>0 DEF BotInv, BotOrder, NumbersStand, Checker
    <3> QED
      BY <3>1, <1>2, <1>0 DEF NumberStands
  <2>2. NumberStands(checker[p])'
    BY <1>1, <1>2 DEF NumberStands
  <2> QED
    BY <2>1, <2>2 DEF NumbersStand
<1>4. \A q \in Checkers : q # p => ~ checker[q].alone
  BY DEF BotInv, BotOrder, AloneIsAlone
<1>5. AloneKnows' /\ AloneIsAlone'
  BY <1>1, <1>2, <1>4 DEF AloneKnows, AloneIsAlone
<1>6. steady' => checker[p].alone /\ InLine'
  BY DEF Ends
<1>7. CrowdUnsettles'
  BY <1>1, <1>2, <1>6 DEF CrowdUnsettles, BotInv, BotOrder, AloneIsAlone
<1>8. SteadyInLine'
  BY <1>6 DEF SteadyInLine, InLine
<1>9. steady' \in BOOLEAN
  BY <1>0 DEF Ends
<1> QED
  BY <1>2, <1>3, <1>5, <1>7, <1>8, <1>9 DEF BotOrder

\* The type of what a process step leaves alone.
LEMMA BotTypeKept ==
    ASSUME BotInv, checker' \in [Checkers -> Checker], steady' \in BOOLEAN,
           enabled' \in BOOLEAN, number' \in 0..Len(issues'),
           reported' \subseteq Findings, issues' \in Seq(Issue),
           UNCHANGED <<dismissed, botRuns, byHand>>
    PROVE  BotTypeOK'
BY DEF BotInv, BotTypeOK

LEMMA ReadBeforeKeeps ==
    ASSUME BotInv, NEW p \in Checkers, ReadBefore(p)
    PROVE  BotInv'
<1>0. BotTypeOK /\ checker[p] \in Checker /\ NumberStands(checker[p])
  BY DEF BotInv, BotTypeOK, BotOrder, NumbersStand
<1>1. PICK b \in Checker : b = checker[p]
  BY <1>0
<1>2. PICK r \in checker[p].reads :
        checker' = [checker EXCEPT ![p] =
          LET c == checker[p]
              after == IF c.reads = {r} THEN "maintain" ELSE "read"
              d == [c EXCEPT !.reads = @ \ {r}, !.at = after]
          IN  CASE r = "number" -> IF enabled THEN [d EXCEPT !.num = number]
                                   ELSE IdleChecker
                [] r = "reported" -> [d EXCEPT !.was = reported]
                [] r = "dismissed" -> [d EXCEPT !.out = dismissed]]
  BY DEF ReadBefore
<1>3. b.at = "read" /\ r \in {"number", "reported", "dismissed"}
  BY <1>1 DEF ReadBefore, Checker, Reads
<1>u. UNCHANGED <<enabled, number, reported, dismissed, issues, steady, botRuns,
                  byHand>>
  BY DEF ReadBefore
<1>4. CASE r = "number" /\ ~ enabled
  <2>1. checker' = [checker EXCEPT ![p] = IdleChecker]
    BY <1>2, <1>4, Zenon
  <2>2. ~ b.alone /\ ~ steady
    BY <1>1, <1>3, <1>4 DEF BotInv, BotOrder, AloneKnows, CrowdUnsettles
  <2>3. Ends(p, FALSE)
    <3>1. steady = FALSE /\ steady' = FALSE
      BY <2>2, <1>0, <1>u DEF BotTypeOK
    <3>2. ~ checker[p].alone
      BY <2>2, <1>1
    <3> QED
      BY <2>1, <3>1, <3>2 DEF Ends
  <2>5. ~ checker[p].alone /\ checker[p].at # "idle"
    BY <2>2, <1>1, <1>3
  <2>6. issues' \in Seq(Issue) /\ Len(issues) <= Len(issues') /\ FALSE \in BOOLEAN
    BY <1>0, <1>u DEF BotTypeOK
  <2>4. BotOrder' /\ checker' \in [Checkers -> Checker] /\ steady' \in BOOLEAN
    BY <2>3, <2>5, <2>6, <1>u, ProcessEnds
  <2> QED
    BY <2>4, <1>0, <1>u, BotTypeKept DEF BotTypeOK, BotInv
<1>5. CASE ~ (r = "number" /\ ~ enabled)
  <2>1. PICK c : /\ checker' = [checker EXCEPT ![p] = c]
                 /\ c = [at |-> IF b.reads = {r} THEN "maintain" ELSE "read",
                         reads |-> b.reads \ {r}, found |-> b.found,
                         num |-> IF r = "number" THEN number ELSE b.num,
                         was |-> IF r = "reported" THEN reported ELSE b.was,
                         out |-> IF r = "dismissed" THEN dismissed ELSE b.out,
                         dismissing |-> b.dismissing, alone |-> b.alone]
    <3>1. CASE r = "number" /\ enabled
      BY <1>1, <1>2, <3>1 DEF Checker
    <3>2. CASE r = "reported"
      BY <1>1, <1>2, <3>2 DEF Checker
    <3>3. CASE r = "dismissed"
      BY <1>1, <1>2, <3>3 DEF Checker
    <3> QED
      BY <1>3, <1>5, <3>1, <3>2, <3>3
  <2>2. c \in Checker
    BY <2>1, <1>0, <1>1 DEF BotTypeOK, Checker, Reads
  <2>3. NumberStands(c)'
    BY <2>1, <1>0, <1>1, <1>3, <1>u DEF NumberStands, BotTypeOK, Checker
  <2>4. ASSUME c.alone PROVE Knows(c)'
    <3>1. KnowsRead(b)
      BY <2>1, <2>4, <1>1, <1>3 DEF BotInv, BotOrder, AloneKnows, Knows
    <3>2. c.at = "maintain" => c.reads = {}
      BY <2>1, <1>3
    <3>3. c.at \in {"read", "maintain"} /\ c.dismissing = b.dismissing
          /\ c.found = b.found
      BY <2>1
    <3>4. /\ "number" \notin c.reads => c.num = number
          /\ "dismissed" \notin c.reads => c.out = dismissed
          /\ "reported" \notin c.reads /\ ~ c.dismissing => c.was = reported
      BY <3>1, <2>1, <1>3 DEF KnowsRead, Unsaved
    <3>5. c.dismissing => c.found = reported
      BY <3>1, <3>3, <2>1, <1>3 DEF KnowsRead, Unsaved
    <3> QED
      BY <3>1, <3>2, <3>3, <3>4, <3>5, <1>u DEF Knows, KnowsRead, Unsaved, InLine
  <2>5. /\ checker[p].at # "idle" /\ c.at # "idle" /\ c.alone = checker[p].alone
        /\ issues' \in Seq(Issue) /\ Len(issues) <= Len(issues')
    BY <2>1, <1>0, <1>1, <1>3, <1>u DEF BotTypeOK
  <2>6. BotOrder' /\ checker' \in [Checkers -> Checker]
    BY <2>1, <2>2, <2>3, <2>4, <2>5, <1>u, ProcessGoesOn
  <2> QED
    BY <2>6, <1>0, <1>u, BotTypeKept DEF BotTypeOK, BotInv
<1> QED
  BY <1>4, <1>5

LEMMA CheckerParts ==
    ASSUME BotInv, NEW p \in Checkers
    PROVE  /\ checker[p] \in Checker /\ NumberStands(checker[p])
           /\ issues \in Seq(Issue) /\ steady \in BOOLEAN /\ enabled \in BOOLEAN
           /\ number \in 0..Len(issues) /\ reported \subseteq Findings
           /\ dismissed \subseteq Findings
           /\ checker[p].alone => enabled /\ Knows(checker[p])
BY DEF BotInv, BotTypeOK, BotOrder, NumbersStand, AloneKnows

\* The issue a process finds open is one of the bot's.
LEMMA MaintainKeeps ==
    ASSUME BotInv, NEW p \in Checkers, Maintain(p)
    PROVE  BotInv'
<1> DEFINE b == checker[p]
           num == IF HasIssue(b) THEN b.num ELSE 0
<1>0. /\ b \in Checker /\ NumberStands(b) /\ issues \in Seq(Issue)
      /\ steady \in BOOLEAN /\ enabled \in BOOLEAN
      /\ number \in 0..Len(issues) /\ reported \subseteq Findings
      /\ dismissed \subseteq Findings
      /\ b.alone => enabled /\ Knows(b)
  BY CheckerParts
<1>1. /\ b.at = "maintain"
      /\ UNCHANGED <<enabled, number, reported, dismissed, issues, botRuns, byHand>>
  BY DEF Maintain
<1>2. b.alone => /\ b.num = number /\ b.out = dismissed /\ Unsaved(b)
                 /\ steady /\ ~ b.dismissing => InLine
  BY <1>0, <1>1 DEF Knows, KnowsRead
<1>3. ASSUME NEW step \in {"close", "save", "saveEmpty"},
             checker' = [checker EXCEPT ![p].at = step, ![p].num = num],
             steady' = steady,
             step \in {"close", "saveEmpty"} <=> ToList(b) = {},
             step = "close" => HasIssue(b),
             step = "saveEmpty" => ~ HasIssue(b)
      PROVE  BotInv'
  <2>1. PICK c : /\ checker' = [checker EXCEPT ![p] = c]
                 /\ c = [b EXCEPT !.at = step, !.num = num]
    BY <1>3
  <2>2. /\ c = [at |-> step, reads |-> b.reads, found |-> b.found, num |-> num,
                was |-> b.was, out |-> b.out, dismissing |-> b.dismissing,
                alone |-> b.alone]
        /\ num \in Nat
    BY <2>1, <1>0 DEF Checker
  <2>3. c \in Checker
    BY <2>2, <1>0 DEF Checker
  <2>4. NumberStands(c)'
    BY <2>2, <1>0, <1>1, <1>3 DEF NumberStands, HasIssue, Checker
  <2>5. ASSUME c.alone PROVE Knows(c)'
    <3>1. b.num = number /\ b.out = dismissed /\ Unsaved(b)
      BY <1>2, <2>2, <2>5
    <3>2. ToList(c) = ToList(b) /\ Unsaved(c)'
      BY <2>2, <3>1, <1>1 DEF ToList, Unsaved
    <3>3. /\ step = "close" => num = number
          /\ step = "saveEmpty" => number = 0 \/ ~ issues[number].open
          /\ step = "save" /\ num # 0 => num = number
      BY <3>1, <1>3 DEF HasIssue
    <3>4. c.at = step /\ c.num = num /\ c.out = dismissed
      BY <2>2, <3>1
    <3> QED
      BY <3>2, <3>3, <3>4, <1>1, <1>3 DEF Knows, KnowsDecided, ToList
  <2>6. /\ checker[p].at # "idle" /\ c.at # "idle" /\ c.alone = checker[p].alone
        /\ issues' \in Seq(Issue) /\ Len(issues) <= Len(issues')
    BY <2>2, <1>0, <1>1, <1>3
  <2>7. BotOrder' /\ checker' \in [Checkers -> Checker]
    BY <2>1, <2>3, <2>4, <2>5, <2>6, <1>1, <1>3, ProcessGoesOn
  <2> QED
    BY <2>7, <1>0, <1>1, <1>3, BotTypeKept DEF BotInv
<1>4. ASSUME ~ Changed(b), Ends(p, FALSE)
      PROVE  BotInv'
  <2>1. checker[p].alone /\ (steady \/ FALSE) => InLine'
    BY <1>2, <1>4, <1>1 DEF Changed, InLine
  <2>2. /\ checker[p].at # "idle" /\ issues' \in Seq(Issue)
        /\ Len(issues) <= Len(issues') /\ FALSE \in BOOLEAN
    BY <1>0, <1>1
  <2>3. BotOrder' /\ checker' \in [Checkers -> Checker] /\ steady' \in BOOLEAN
    BY <2>1, <2>2, <1>1, <1>4, ProcessEnds
  <2> QED
    BY <2>3, <1>0, <1>1, BotTypeKept DEF BotInv
<1> QED
  BY <1>3, <1>4 DEF Maintain

LEMMA IssueRewritten ==
    ASSUME issues \in Seq(Issue), NEW n \in 1..Len(issues), NEW r \in Issue,
           issues' = [issues EXCEPT ![n] = r]
    PROVE  /\ issues' \in Seq(Issue) /\ Len(issues') = Len(issues)
           /\ issues'[n] = r
OBVIOUS

LEMMA CloseIssueKeeps ==
    ASSUME BotInv, NEW p \in Checkers, CloseIssue(p)
    PROVE  BotInv'
<1> DEFINE b == checker[p]
<1>0. /\ b \in Checker /\ NumberStands(b) /\ issues \in Seq(Issue)
      /\ steady \in BOOLEAN /\ enabled \in BOOLEAN
      /\ number \in 0..Len(issues) /\ reported \subseteq Findings
      /\ dismissed \subseteq Findings
      /\ b.alone => enabled /\ Knows(b)
  BY CheckerParts
<1>1. /\ b.at = "close"
      /\ issues' = [issues EXCEPT ![b.num].open = FALSE]
      /\ UNCHANGED <<enabled, number, reported, dismissed, steady, botRuns, byHand>>
  BY DEF CloseIssue
<1>2. PICK c : /\ checker' = [checker EXCEPT ![p] = c]
               /\ c = [b EXCEPT !.at = "forget"]
  BY DEF CloseIssue
<1>3. c = [at |-> "forget", reads |-> b.reads, found |-> b.found, num |-> b.num,
           was |-> b.was, out |-> b.out, dismissing |-> b.dismissing,
           alone |-> b.alone]
  BY <1>2, <1>0 DEF Checker
<1>4. /\ issues' \in Seq(Issue) /\ Len(issues') = Len(issues)
  <2>1. b.num \in 1..Len(issues)
    BY <1>0, <1>1 DEF NumberStands, Checker
  <2>2. PICK r : r = [issues[b.num] EXCEPT !.open = FALSE]
    OBVIOUS
  <2>3. issues' = [issues EXCEPT ![b.num] = r]
    BY <1>1, <2>2
  <2>4. issues[b.num] \in Issue
    BY <1>0, <2>1
  <2>5. r \in Issue
    BY <2>2, <2>4 DEF Issue
  <2> QED
    BY <1>0, <2>1, <2>3, <2>5, IssueRewritten
<1>5. c \in Checker /\ NumberStands(c)'
  BY <1>0, <1>3, <1>4 DEF Checker, NumberStands
<1>6. ASSUME c.alone PROVE Knows(c)'
  <2>1. KnowsDecided(b)
    BY <1>0, <1>1, <1>3, <1>6 DEF Knows
  <2> QED
    BY <2>1, <1>1, <1>3 DEF Knows, KnowsDecided, ToList, Unsaved
<1>7. checker[p].at # "idle" /\ c.at # "idle" /\ c.alone = checker[p].alone
      /\ Len(issues) <= Len(issues')
  BY <1>0, <1>1, <1>3, <1>4
<1>8. BotOrder' /\ checker' \in [Checkers -> Checker]
  BY <1>1, <1>2, <1>4, <1>5, <1>6, <1>7, ProcessGoesOn
<1> QED
  BY <1>8, <1>0, <1>1, <1>4, BotTypeKept DEF BotInv

LEMMA ForgetIssueKeeps ==
    ASSUME BotInv, NEW p \in Checkers, ForgetIssue(p)
    PROVE  BotInv'
<1> DEFINE b == checker[p]
<1>0. /\ b \in Checker /\ NumberStands(b) /\ issues \in Seq(Issue)
      /\ steady \in BOOLEAN /\ enabled \in BOOLEAN
      /\ number \in 0..Len(issues) /\ reported \subseteq Findings
      /\ dismissed \subseteq Findings
      /\ b.alone => enabled /\ Knows(b)
  BY CheckerParts
<1>1. /\ b.at = "forget" /\ number' = 0
      /\ UNCHANGED <<enabled, reported, dismissed, issues, botRuns, byHand>>
  BY DEF ForgetIssue
<1>2. b.alone => KnowsDecided(b)
  BY <1>0, <1>1 DEF Knows
<1>3. number' \in 0..Len(issues')
  BY <1>0, <1>1
<1>4. CASE Changed(b)
  <2>1. steady' = steady
    BY <1>4 DEF ForgetIssue
  <2>2. PICK c : /\ checker' = [checker EXCEPT ![p] = c]
                 /\ c = [b EXCEPT !.at = "saveEmpty"]
    BY <1>4 DEF ForgetIssue
  <2>3. c = [at |-> "saveEmpty", reads |-> b.reads, found |-> b.found,
             num |-> b.num, was |-> b.was, out |-> b.out,
             dismissing |-> b.dismissing, alone |-> b.alone]
    BY <2>2, <1>0 DEF Checker
  <2>4. c \in Checker /\ NumberStands(c)'
    BY <1>0, <1>1, <2>3 DEF Checker, NumberStands
  <2>5. ASSUME c.alone PROVE Knows(c)'
    BY <1>1, <1>2, <2>3, <2>5 DEF Knows, KnowsDecided, ToList, Unsaved
  <2>6. /\ checker[p].at # "idle" /\ c.at # "idle" /\ c.alone = checker[p].alone
        /\ issues' \in Seq(Issue) /\ Len(issues) <= Len(issues')
    BY <1>0, <1>1, <2>3
  <2>7. BotOrder' /\ checker' \in [Checkers -> Checker]
    BY <1>1, <2>1, <2>2, <2>4, <2>5, <2>6, ProcessGoesOn
  <2> QED
    BY <2>1, <2>7, <1>0, <1>1, <1>3, BotTypeKept DEF BotInv
<1>5. CASE ~ Changed(b)
  <2>1. Ends(p, FALSE)
    BY <1>5 DEF ForgetIssue
  <2>2. checker[p].alone /\ (steady \/ FALSE) => InLine'
    BY <1>1, <1>2, <1>5 DEF Changed, InLine, KnowsDecided, Unsaved, ToList
  <2>3. /\ checker[p].at # "idle" /\ issues' \in Seq(Issue)
        /\ Len(issues) <= Len(issues') /\ FALSE \in BOOLEAN
    BY <1>0, <1>1
  <2>4. BotOrder' /\ checker' \in [Checkers -> Checker] /\ steady' \in BOOLEAN
    BY <2>1, <2>2, <2>3, <1>1, ProcessEnds
  <2> QED
    BY <2>4, <1>0, <1>1, <1>3, BotTypeKept DEF BotInv
<1> QED
  BY <1>4, <1>5

LEMMA SaveKeeps ==
    ASSUME BotInv, NEW p \in Checkers, Save(p)
    PROVE  BotInv'
<1> DEFINE b == checker[p]
           step == IF b.num # 0 THEN "update" ELSE "create"
<1>0. /\ b \in Checker /\ NumberStands(b) /\ issues \in Seq(Issue)
      /\ steady \in BOOLEAN /\ enabled \in BOOLEAN
      /\ number \in 0..Len(issues) /\ reported \subseteq Findings
      /\ dismissed \subseteq Findings
      /\ b.alone => enabled /\ Knows(b)
  BY CheckerParts
<1>1. /\ b.at \in {"save", "saveEmpty"} /\ reported' = Saved(b)
      /\ UNCHANGED <<enabled, number, dismissed, issues, botRuns, byHand>>
  BY DEF Save
<1>2. b.alone => KnowsDecided(b)
  BY <1>0, <1>1 DEF Knows
<1>3. reported' \subseteq Findings /\ (b.alone => reported' = b.found)
  BY <1>0, <1>1, <1>2 DEF Saved, Checker, KnowsDecided, Unsaved
<1>4. CASE b.at = "save"
  <2>1. steady' = steady
    BY <1>4 DEF Save
  <2>2. PICK c : /\ checker' = [checker EXCEPT ![p] = c]
                 /\ c = [b EXCEPT !.at = step]
    BY <1>4 DEF Save
  <2>3. c = [at |-> step, reads |-> b.reads, found |-> b.found,
             num |-> b.num, was |-> b.was, out |-> b.out,
             dismissing |-> b.dismissing, alone |-> b.alone]
    BY <2>2, <1>0 DEF Checker
  <2>4. c \in Checker /\ NumberStands(c)'
    BY <1>0, <1>1, <2>3 DEF Checker, NumberStands
  <2>5. ASSUME c.alone PROVE Knows(c)'
    BY <1>1, <1>2, <1>3, <1>4, <2>3, <2>5 DEF Knows, KnowsDecided, ToList, Unsaved
  <2>6. /\ checker[p].at # "idle" /\ c.at # "idle" /\ c.alone = checker[p].alone
        /\ issues' \in Seq(Issue) /\ Len(issues) <= Len(issues')
    BY <1>0, <1>1, <2>3
  <2>7. BotOrder' /\ checker' \in [Checkers -> Checker]
    BY <1>1, <2>1, <2>2, <2>4, <2>5, <2>6, ProcessGoesOn
  <2> QED
    BY <2>1, <2>7, <1>0, <1>1, <1>3, BotTypeKept DEF BotInv
<1>5. CASE b.at = "saveEmpty"
  <2>1. Ends(p, TRUE)
    BY <1>5 DEF Save
  <2>2. checker[p].alone /\ (steady \/ TRUE) => InLine'
    BY <1>1, <1>2, <1>3, <1>5 DEF InLine, KnowsDecided, ToList
  <2>3. /\ checker[p].at # "idle" /\ issues' \in Seq(Issue)
        /\ Len(issues) <= Len(issues') /\ TRUE \in BOOLEAN
    BY <1>0, <1>1
  <2>4. BotOrder' /\ checker' \in [Checkers -> Checker] /\ steady' \in BOOLEAN
    BY <2>1, <2>2, <2>3, <1>1, ProcessEnds
  <2> QED
    BY <2>4, <1>0, <1>1, <1>3, BotTypeKept DEF BotInv
<1> QED
  BY <1>1, <1>4, <1>5

LEMMA UpdateTextKeeps ==
    ASSUME BotInv, NEW p \in Checkers, UpdateText(p)
    PROVE  BotInv'
<1> DEFINE b == checker[p]
<1>0. /\ b \in Checker /\ NumberStands(b) /\ issues \in Seq(Issue)
      /\ steady \in BOOLEAN /\ enabled \in BOOLEAN
      /\ number \in 0..Len(issues) /\ reported \subseteq Findings
      /\ dismissed \subseteq Findings
      /\ b.alone => enabled /\ Knows(b)
  BY CheckerParts
<1>1. /\ b.at = "update" /\ Ends(p, TRUE)
      /\ issues' = [issues EXCEPT ![b.num].lists = ToList(b)]
      /\ UNCHANGED <<enabled, number, reported, dismissed, botRuns, byHand>>
  BY DEF UpdateText
<1>2. b.num \in 1..Len(issues)
  BY <1>0, <1>1 DEF NumberStands, Checker
<1>3. ToList(b) \subseteq Findings
  BY <1>0 DEF ToList, Checker
<1>4. /\ issues' \in Seq(Issue) /\ Len(issues') = Len(issues)
      /\ issues'[b.num].lists = ToList(b)
  <2>1. PICK r : r = [issues[b.num] EXCEPT !.lists = ToList(b)]
    OBVIOUS
  <2>2. issues' = [issues EXCEPT ![b.num] = r]
    BY <1>1, <2>1
  <2>3. issues[b.num] \in Issue
    BY <1>0, <1>2
  <2>4. r \in Issue /\ r.lists = ToList(b)
    BY <2>1, <2>3, <1>3 DEF Issue
  <2> QED
    BY <1>0, <1>2, <2>2, <2>4, IssueRewritten
<1>5. checker[p].alone /\ (steady \/ TRUE) => InLine'
  <2> SUFFICES ASSUME checker[p].alone PROVE InLine'
    OBVIOUS
  <2>1. KnowsDecided(b)
    BY <1>0, <1>1 DEF Knows
  <2>2. ToList(b) = reported' \ dismissed' /\ ToList(b) # {} /\ b.num = number'
    BY <2>1, <1>1 DEF KnowsDecided, ToList
  <2> QED
    BY <2>2, <1>2, <1>4 DEF InLine
<1>6. /\ checker[p].at # "idle" /\ Len(issues) <= Len(issues') /\ TRUE \in BOOLEAN
  BY <1>0, <1>1, <1>4
<1>7. BotOrder' /\ checker' \in [Checkers -> Checker] /\ steady' \in BOOLEAN
  BY <1>1, <1>4, <1>5, <1>6, ProcessEnds
<1> QED
  BY <1>7, <1>0, <1>1, <1>4, BotTypeKept DEF BotInv

LEMMA CreateIssueKeeps ==
    ASSUME BotInv, NEW p \in Checkers, CreateIssue(p)
    PROVE  BotInv'
<1> DEFINE b == checker[p]
           row == [open |-> TRUE, lists |-> ToList(b)]
<1>0. /\ b \in Checker /\ NumberStands(b) /\ issues \in Seq(Issue)
      /\ steady \in BOOLEAN /\ enabled \in BOOLEAN
      /\ number \in 0..Len(issues) /\ reported \subseteq Findings
      /\ dismissed \subseteq Findings
      /\ b.alone => enabled /\ Knows(b)
  BY CheckerParts
<1>1. /\ b.at = "create" /\ issues' = Append(issues, row)
      /\ UNCHANGED <<enabled, number, reported, dismissed, steady, botRuns, byHand>>
  BY DEF CreateIssue
<1>2. PICK c : /\ checker' = [checker EXCEPT ![p] = c]
               /\ c = [b EXCEPT !.at = "record", !.num = Len(issues) + 1]
  BY DEF CreateIssue
<1>3. c = [at |-> "record", reads |-> b.reads, found |-> b.found,
           num |-> Len(issues) + 1, was |-> b.was, out |-> b.out,
           dismissing |-> b.dismissing, alone |-> b.alone]
  BY <1>2, <1>0 DEF Checker
<1>4. row \in Issue
  BY <1>0 DEF ToList, Checker, Issue
<1>5. /\ issues' \in Seq(Issue) /\ Len(issues') = Len(issues) + 1
      /\ issues'[Len(issues) + 1].lists = ToList(b)
  BY <1>0, <1>1, <1>4
<1>6. c \in Checker /\ NumberStands(c)'
  BY <1>0, <1>3, <1>5 DEF Checker, NumberStands
<1>7. ASSUME c.alone PROVE Knows(c)'
  <2>1. KnowsDecided(b)
    BY <1>0, <1>1, <1>3, <1>7 DEF Knows
  <2>2. ToList(c) = ToList(b) /\ ToList(c) # {} /\ issues'[c.num].lists = ToList(c)
    BY <2>1, <1>1, <1>3, <1>5 DEF KnowsDecided, ToList
  <2>3. c.at = "record" /\ c.out = dismissed' /\ reported' = c.found
    BY <2>1, <1>1, <1>3 DEF KnowsDecided
  <2> QED
    BY <2>2, <2>3 DEF Knows, KnowsDecided, ToList
<1>8. /\ checker[p].at # "idle" /\ c.at # "idle" /\ c.alone = checker[p].alone
      /\ Len(issues) <= Len(issues')
  BY <1>0, <1>1, <1>3, <1>5
<1>9. BotOrder' /\ checker' \in [Checkers -> Checker]
  BY <1>1, <1>2, <1>5, <1>6, <1>7, <1>8, ProcessGoesOn
<1>10. number' \in 0..Len(issues')
  BY <1>0, <1>1, <1>5
<1> QED
  BY <1>9, <1>10, <1>0, <1>1, <1>5, BotTypeKept DEF BotInv

LEMMA RecordNumberKeeps ==
    ASSUME BotInv, NEW p \in Checkers, RecordNumber(p)
    PROVE  BotInv'
<1> DEFINE b == checker[p]
<1>0. /\ b \in Checker /\ NumberStands(b) /\ issues \in Seq(Issue)
      /\ steady \in BOOLEAN /\ enabled \in BOOLEAN
      /\ number \in 0..Len(issues) /\ reported \subseteq Findings
      /\ dismissed \subseteq Findings
      /\ b.alone => enabled /\ Knows(b)
  BY CheckerParts
<1>1. /\ b.at = "record" /\ Ends(p, TRUE)
      /\ number' = IF enabled THEN b.num ELSE number
      /\ UNCHANGED <<enabled, reported, dismissed, issues, botRuns, byHand>>
  BY DEF RecordNumber
<1>2. number' \in 0..Len(issues') /\ b.num # 0
  BY <1>0, <1>1 DEF NumberStands, Checker
<1>3. checker[p].alone /\ (steady \/ TRUE) => InLine'
  <2> SUFFICES ASSUME checker[p].alone PROVE InLine'
    OBVIOUS
  <2>1. KnowsDecided(b) /\ number' = b.num
    BY <1>0, <1>1 DEF Knows
  <2>2. /\ ToList(b) = reported' \ dismissed' /\ ToList(b) # {}
        /\ issues'[number'].lists = ToList(b)
    BY <2>1, <1>1 DEF KnowsDecided, ToList
  <2> QED
    BY <2>1, <2>2, <1>2 DEF InLine
<1>4. /\ checker[p].at # "idle" /\ issues' \in Seq(Issue)
      /\ Len(issues) <= Len(issues') /\ TRUE \in BOOLEAN
  BY <1>0, <1>1
<1>5. BotOrder' /\ checker' \in [Checkers -> Checker] /\ steady' \in BOOLEAN
  BY <1>1, <1>3, <1>4, ProcessEnds
<1> QED
  BY <1>5, <1>0, <1>1, <1>2, BotTypeKept DEF BotInv

\* A new process takes its chances with those under way: none of them is
\* alone any more, and the new one is if there were none.
LEMMA ProcessBegins ==
    ASSUME BotInv, NEW p \in Checkers, NEW c \in Checker, Begins(p, c),
           c.at = "read", c.num = 0, c.alone = (Busy = {}),
           UNCHANGED <<enabled, number, reported, issues, byHand>>,
           dismissed' \subseteq Findings,
           IF c.dismissing
           THEN c.found = reported /\ c.reads = Reads \ {"reported"}
           ELSE c.reads = Reads /\ dismissed' = dismissed
    PROVE  BotInv'
<1>0. /\ checker \in [Checkers -> Checker] /\ issues \in Seq(Issue)
      /\ steady \in BOOLEAN /\ botRuns \in 0..MaxBotRuns /\ MaxBotRuns \in Nat
  BY BotAssumption DEF BotInv, BotTypeOK
<1>1. /\ checker[p].at = "idle" /\ enabled /\ botRuns < MaxBotRuns
      /\ botRuns' = botRuns + 1
      /\ checker' = [Interfere(checker) EXCEPT ![p] = c]
      /\ steady' = (steady /\ Busy = {})
  BY DEF Begins
<1>2. /\ checker' \in [Checkers -> Checker] /\ checker'[p] = c
      /\ \A q \in Checkers : q # p =>
           /\ checker'[q] = [checker[q] EXCEPT !.alone = FALSE]
           /\ ~ checker'[q].alone /\ checker'[q].at = checker[q].at
           /\ checker'[q].num = checker[q].num
  <2>1. \A q \in Checkers : [checker[q] EXCEPT !.alone = FALSE] \in Checker
    BY <1>0 DEF Checker
  <2>2. \A q \in Checkers : /\ ~ [checker[q] EXCEPT !.alone = FALSE].alone
                            /\ [checker[q] EXCEPT !.alone = FALSE].at = checker[q].at
                            /\ [checker[q] EXCEPT !.alone = FALSE].num = checker[q].num
    BY <1>0 DEF Checker
  <2>3. Interfere(checker) \in [Checkers -> Checker]
    BY <2>1 DEF Interfere
  <2>4. \A q \in Checkers : Interfere(checker)[q] = [checker[q] EXCEPT !.alone = FALSE]
    BY DEF Interfere
  <2> QED
    BY <1>1, <2>2, <2>3, <2>4
<1>3. BotTypeOK'
  BY <1>0, <1>1, <1>2 DEF BotInv, BotTypeOK
<1>4. NumbersStand'
  <2>1. NumberStands(checker[p])'
    BY <1>0, <1>2 DEF NumberStands
  <2>2. ASSUME NEW q \in Checkers, q # p PROVE NumberStands(checker[q])'
    <3>1. NumberStands(checker[q])
      BY DEF BotInv, BotOrder, NumbersStand
    <3> QED
      BY <3>1, <1>2, <2>2 DEF NumberStands
  <2> QED
    BY <2>1, <2>2 DEF NumbersStand
<1>5. steady' => steady /\ Busy = {}
  BY <1>1
<1>6. steady' /\ ~ c.dismissing => InLine'
  <2>1. steady /\ Busy = {} => InLine
    BY DEF BotInv, BotOrder, SteadyInLine, Busy
  <2> QED
    BY <1>5, <2>1 DEF InLine
<1>7. c.alone => Knows(checker[p])'
  <2> SUFFICES ASSUME c.alone PROVE Knows(c)'
    BY <1>2 DEF Knows, KnowsRead, KnowsDecided, Unsaved, InLine
  <2>1. "number" \in c.reads /\ "dismissed" \in c.reads
    BY DEF Reads
  <2>2. c.dismissing \/ "reported" \notin c.reads => c.found = reported' /\ c.dismissing
    BY DEF Reads
  <2> QED
    BY <2>1, <2>2, <1>6 DEF Knows, KnowsRead, Unsaved
<1>8. AloneKnows'
  BY <1>1, <1>2, <1>7 DEF AloneKnows
<1>9. AloneIsAlone'
  BY <1>2 DEF AloneIsAlone, Busy
<1>10. CrowdUnsettles'
  <2>1. ~ c.alone => ~ steady'
    BY <1>5
  <2>2. ASSUME NEW q \in Checkers, q # p, checker'[q].at # "idle" PROVE ~ steady'
    BY <1>2, <1>5, <2>2 DEF Busy
  <2> QED
    BY <2>1, <2>2, <1>2 DEF CrowdUnsettles
<1>11. SteadyInLine'
  BY <1>2 DEF SteadyInLine
<1> QED
  BY <1>3, <1>4, <1>8, <1>9, <1>10, <1>11 DEF BotInv, BotOrder

LEMMA BeginCheckKeeps ==
    ASSUME BotInv, NEW p \in Checkers, NEW S \in SUBSET Findings, BeginCheck(p, S)
    PROVE  BotInv'
<1>1. PICK c : c = [IdleChecker EXCEPT !.at = "read", !.reads = Reads,
                                       !.found = S, !.alone = Busy = {}]
  OBVIOUS
<1>2. c = [at |-> "read", reads |-> Reads, found |-> S, num |-> 0, was |-> {},
           out |-> {}, dismissing |-> FALSE, alone |-> Busy = {}]
  BY <1>1 DEF IdleChecker
<1>3. c \in Checker
  BY <1>2 DEF Checker
<1>4. /\ Begins(p, c)
      /\ UNCHANGED <<enabled, number, reported, dismissed, issues, byHand>>
  BY <1>1 DEF BeginCheck
<1>5. dismissed' \subseteq Findings
  BY <1>4 DEF BotInv, BotTypeOK
<1>6. /\ c.at = "read" /\ c.num = 0 /\ c.alone = (Busy = {}) /\ c.reads = Reads
      /\ ~ c.dismissing
  BY <1>2
<1> QED
  BY <1>3, <1>4, <1>5, <1>6, ProcessBegins

LEMMA ChangeDismissalsKeeps ==
    ASSUME BotInv, NEW p \in Checkers, NEW S \in SUBSET Findings,
           NEW dismiss \in BOOLEAN, ChangeDismissals(p, S, dismiss)
    PROVE  BotInv'
<1>1. PICK c : c = [IdleChecker EXCEPT !.at = "read",
                      !.reads = Reads \ {"reported"}, !.found = reported,
                      !.dismissing = TRUE, !.alone = Busy = {}]
  OBVIOUS
<1>2. c = [at |-> "read", reads |-> Reads \ {"reported"}, found |-> reported,
           num |-> 0, was |-> {}, out |-> {}, dismissing |-> TRUE,
           alone |-> Busy = {}]
  BY <1>1 DEF IdleChecker
<1>3. c \in Checker
  BY <1>2 DEF Checker, BotInv, BotTypeOK
<1>4. /\ Begins(p, c)
      /\ UNCHANGED <<enabled, number, reported, issues, byHand>>
  BY <1>1 DEF ChangeDismissals
<1>5. dismissed' \subseteq Findings
  BY DEF BotInv, BotTypeOK, ChangeDismissals
<1>6. /\ c.at = "read" /\ c.num = 0 /\ c.alone = (Busy = {})
      /\ c.dismissing /\ c.found = reported /\ c.reads = Reads \ {"reported"}
  BY <1>2
<1> QED
  BY <1>3, <1>4, <1>5, <1>6, ProcessBegins

\* Someone else changes the rows while processes run: none of them may rely
\* on what it has read.
LEMMA InterferenceKeeps ==
    ASSUME BotInv, checker' = Interfere(checker), enabled' \in BOOLEAN,
           byHand' \in 0..MaxByHand, UNCHANGED <<dismissed, botRuns>>,
           number' \in 0..Len(issues'), reported' \subseteq Findings,
           issues' \in Seq(Issue), Len(issues') = Len(issues),
           steady' \in BOOLEAN, steady' => Busy = {} /\ InLine'
    PROVE  BotInv'
<1>0. checker \in [Checkers -> Checker] /\ issues \in Seq(Issue)
  BY DEF BotInv, BotTypeOK
<1>1. \A q \in Checkers : /\ [checker[q] EXCEPT !.alone = FALSE] \in Checker
                          /\ ~ [checker[q] EXCEPT !.alone = FALSE].alone
                          /\ [checker[q] EXCEPT !.alone = FALSE].at = checker[q].at
                          /\ [checker[q] EXCEPT !.alone = FALSE].num = checker[q].num
  BY <1>0 DEF Checker
<1>2. \A q \in Checkers : checker'[q] = [checker[q] EXCEPT !.alone = FALSE]
  BY DEF Interfere
<1>3. checker' \in [Checkers -> Checker]
  BY <1>1 DEF Interfere
<1>4. BotTypeOK'
  BY <1>3 DEF BotInv, BotTypeOK
<1>5. NumbersStand'
  <2> SUFFICES ASSUME NEW q \in Checkers PROVE NumberStands(checker[q])'
    BY DEF NumbersStand
  <2>1. NumberStands(checker[q])
    BY DEF BotInv, BotOrder, NumbersStand
  <2> QED
    BY <2>1, <1>1, <1>2 DEF NumberStands
<1>6. AloneKnows' /\ AloneIsAlone'
  BY <1>1, <1>2 DEF AloneKnows, AloneIsAlone
<1>7. CrowdUnsettles' /\ SteadyInLine'
  BY <1>1, <1>2 DEF CrowdUnsettles, SteadyInLine, Busy
<1> QED
  BY <1>4, <1>5, <1>6, <1>7 DEF BotInv, BotOrder

LEMMA DisableCheckKeeps ==
    ASSUME BotInv, DisableCheck
    PROVE  BotInv'
<1>1. /\ number' = 0 /\ reported' = {} /\ enabled' = FALSE
      /\ checker' = Interfere(checker) /\ steady' = (Busy = {})
      /\ UNCHANGED <<dismissed, issues, botRuns>>
  BY DEF DisableCheck
<1>2. byHand' \in 0..MaxByHand
  BY BotAssumption DEF DisableCheck, ByHand, BotInv, BotTypeOK
<1>3. InLine' /\ number' \in 0..Len(issues') /\ issues' \in Seq(Issue)
  BY <1>1 DEF InLine, BotInv, BotTypeOK
<1> QED
  BY <1>1, <1>2, <1>3, InterferenceKeeps

LEMMA CloseByHandKeeps ==
    ASSUME BotInv, NEW i, CloseByHand(i)
    PROVE  BotInv'
<1>0. /\ issues \in Seq(Issue) /\ enabled \in BOOLEAN /\ number \in 0..Len(issues)
      /\ reported \subseteq Findings
  BY DEF BotInv, BotTypeOK
<1>1. /\ i \in 1..Len(issues) /\ issues' = [issues EXCEPT ![i].open = ~ @]
      /\ checker' = Interfere(checker)
      /\ steady' = (steady /\ Busy = {} /\ issues[i].open)
      /\ UNCHANGED <<enabled, number, reported, dismissed, botRuns>>
  BY <1>0 DEF CloseByHand
<1>2. byHand' \in 0..MaxByHand
  BY BotAssumption DEF CloseByHand, ByHand, BotInv, BotTypeOK
<1>3. PICK r : /\ r = [issues[i] EXCEPT !.open = ~ @]
               /\ issues' = [issues EXCEPT ![i] = r]
  BY <1>1
<1>4. issues[i] \in Issue
  BY <1>0, <1>1
<1>5. r \in Issue /\ r.open = ~ issues[i].open
  BY <1>3, <1>4 DEF Issue
<1>6. /\ issues' \in Seq(Issue) /\ Len(issues') = Len(issues) /\ issues'[i] = r
      /\ \A n \in 1..Len(issues) : n # i => issues'[n] = issues[n]
  <2>1. \A n \in 1..Len(issues) : n # i => issues'[n] = issues[n]
    BY <1>0, <1>3
  <2> QED
    BY <1>0, <1>1, <1>3, <1>5, <2>1, IssueRewritten
<1>7. ASSUME steady' PROVE Busy = {} /\ InLine'
  <2>1. Busy = {} /\ steady /\ issues[i].open
    BY <1>1, <1>7
  <2>2. InLine
    BY <2>1 DEF BotInv, BotOrder, SteadyInLine, Busy
  <2>3. CASE number = i
    BY <2>1, <2>2, <2>3, <1>1, <1>5, <1>6 DEF InLine
  <2>4. CASE number # i
    BY <2>1, <2>2, <2>4, <1>0, <1>1, <1>6 DEF InLine
  <2> QED
    BY <2>1, <2>3, <2>4
<1> QED
  BY <1>0, <1>1, <1>2, <1>6, <1>7, InterferenceKeeps

LEMMA BotRestartKeeps ==
    ASSUME BotInv, BotRestart
    PROVE  BotInv'
<1>1. /\ checker' = [p \in Checkers |-> IdleChecker] /\ steady' = FALSE
      /\ UNCHANGED <<enabled, number, reported, dismissed, issues, botRuns>>
  BY DEF BotRestart
<1>2. byHand' \in 0..MaxByHand
  BY BotAssumption DEF BotRestart, ByHand, BotInv, BotTypeOK
<1>3. /\ IdleChecker \in Checker /\ IdleChecker.at = "idle"
      /\ ~ IdleChecker.alone /\ IdleChecker.num = 0
  BY DEF IdleChecker, Checker, Reads
<1>4. BotTypeOK'
  BY <1>1, <1>2, <1>3 DEF BotInv, BotTypeOK
<1>5. issues' \in Seq(Issue)
  BY <1>4 DEF BotTypeOK
<1> QED
  BY <1>1, <1>3, <1>4, <1>5
  DEF BotInv, BotOrder, NumbersStand, NumberStands, AloneKnows, AloneIsAlone,
      CrowdUnsettles, SteadyInLine

LEMMA EnableCheckKeeps ==
    ASSUME BotInv, EnableCheck
    PROVE  BotInv'
<1>1. /\ enabled' = TRUE
      /\ UNCHANGED <<number, reported, dismissed, issues, checker, steady,
                     botRuns, byHand>>
  BY DEF EnableCheck
<1> QED
  BY <1>1 DEF BotInv, BotTypeOK, BotOrder, NumbersStand, NumberStands, AloneKnows,
     AloneIsAlone, CrowdUnsettles, SteadyInLine, InLine, Knows, KnowsRead,
     KnowsDecided, Unsaved

LEMMA BotStutters ==
    ASSUME BotInv, UNCHANGED botVars
    PROVE  BotInv'
BY DEF BotInv, BotTypeOK, BotOrder, NumbersStand, NumberStands, AloneKnows,
   AloneIsAlone, CrowdUnsettles, SteadyInLine, InLine, Knows, KnowsRead,
   KnowsDecided, Unsaved, botVars

LEMMA BotInitially == BotInit => BotInv
<1> SUFFICES ASSUME BotInit PROVE BotInv
  OBVIOUS
<1>1. /\ IdleChecker \in Checker /\ IdleChecker.at = "idle"
      /\ ~ IdleChecker.alone /\ IdleChecker.num = 0
  BY DEF IdleChecker, Checker, Reads
<1>2. BotTypeOK
  <2>1. issues \in Seq(Issue) /\ number \in 0..Len(issues)
    BY DEF BotInit
  <2>2. checker \in [Checkers -> Checker]
    BY <1>1 DEF BotInit
  <2>3. botRuns \in 0..MaxBotRuns /\ byHand \in 0..MaxByHand
    BY BotAssumption DEF BotInit
  <2>4. enabled \in BOOLEAN /\ steady \in BOOLEAN
        /\ reported \subseteq Findings /\ dismissed \subseteq Findings
    BY DEF BotInit
  <2> QED
    BY <2>1, <2>2, <2>3, <2>4 DEF BotTypeOK
<1> QED
  BY <1>1, <1>2
  DEF BotInit, BotInv, BotOrder, NumbersStand, NumberStands, AloneKnows,
      AloneIsAlone, CrowdUnsettles, SteadyInLine, InLine

LEMMA BotStep == BotInv /\ [BotNext]_botVars => BotInv'
<1> SUFFICES ASSUME BotInv, [BotNext]_botVars PROVE BotInv'
  OBVIOUS
<1>1. ASSUME NEW p \in Checkers, NEW S \in SUBSET Findings,
             BeginCheck(p, S) \/ ChangeDismissals(p, S, TRUE)
             \/ ChangeDismissals(p, S, FALSE)
      PROVE  BotInv'
  BY <1>1, BeginCheckKeeps, ChangeDismissalsKeeps
<1>2. ASSUME NEW p \in Checkers,
             ReadBefore(p) \/ Maintain(p) \/ CloseIssue(p) \/ ForgetIssue(p)
             \/ Save(p) \/ UpdateText(p) \/ CreateIssue(p) \/ RecordNumber(p)
      PROVE  BotInv'
  BY <1>2, ReadBeforeKeeps, MaintainKeeps, CloseIssueKeeps, ForgetIssueKeeps,
     SaveKeeps, UpdateTextKeeps, CreateIssueKeeps, RecordNumberKeeps
<1>3. ASSUME EnableCheck \/ DisableCheck \/ BotRestart
             \/ \E i \in 1..MaxBotRuns : CloseByHand(i)
      PROVE  BotInv'
  BY <1>3, EnableCheckKeeps, DisableCheckKeeps, BotRestartKeeps, CloseByHandKeeps
<1> QED
  BY <1>1, <1>2, <1>3, BotStutters DEF BotNext

\* The rows, the issues and the processes keep their shape.
THEOREM BotTypeCorrect == BotSpec => []BotTypeOK
<1>1. BotInv => BotTypeOK
  BY DEF BotInv
<1> QED
  BY <1>1, BotInitially, BotStep, PTL DEF BotSpec

\* Whatever order checks, dismissals, closings by hand, restarts and the
\* switching off and on come in: after a run that nothing interfered with and
\* that wrote its report, the open issue lists what is saved and not
\* dismissed, and there is one if there is anything to list.
THEOREM IssueTellsWhatIsFound == BotSpec => []IssueMatchesReport
<1>1. BotInv => IssueMatchesReport
  BY DEF BotInv, BotOrder, SteadyInLine, Busy, InLine, IssueMatchesReport
<1> QED
  BY <1>1, BotInitially, BotStep, PTL DEF BotSpec

-----------------------------------------------------------------------------
(* Counting *)

One(b) == IF b THEN 1 ELSE 0

\* Two sets that differ in one element at most differ by it in their size.
LEMMA Recount ==
    ASSUME NEW S, NEW T, NEW r, IsFiniteSet(S), S \ {r} = T \ {r}
    PROVE  /\ Cardinality(S) \in Nat /\ Cardinality(T) \in Nat /\ IsFiniteSet(T)
           /\ Cardinality(T) = Cardinality(S) - One(r \in S) + One(r \in T)
<1>1. IsFiniteSet(S \ {r}) /\ IsFiniteSet((S \ {r}) \cup {r})
  BY FS_RemoveElement, FS_AddElement
<1>2. T \in SUBSET ((S \ {r}) \cup {r})
  OBVIOUS
<1>3. IsFiniteSet(T)
  BY <1>1, <1>2, FS_Subset
<1>4. Cardinality(S \ {r}) = Cardinality(S) - One(r \in S)
  BY FS_RemoveElement, FS_CardinalityType DEF One
<1>5. Cardinality(T \ {r}) = Cardinality(T) - One(r \in T)
  BY <1>3, FS_RemoveElement, FS_CardinalityType DEF One
<1>6. Cardinality(S) \in Nat /\ Cardinality(T) \in Nat
  BY <1>3, FS_CardinalityType
<1>7. Cardinality(S \ {r}) = Cardinality(T \ {r})
  OBVIOUS
<1> QED
  BY <1>3, <1>4, <1>5, <1>6, <1>7 DEF One

-----------------------------------------------------------------------------
(* The inductive invariant *)

\* Whoever holds a slot or a place came as a principal the limiter knows.
WhoIsKnown ==
    \A r \in Requests : HasSlot(r) \/ HasPlace(r) => req[r].who \in Principals

\* At any moment a finite number of requests is with the limiter, however
\* many there are to come.
Active == {r \in Requests : HasSlot(r) \/ HasPlace(r)}

PackInv ==
    PackTypeOK /\ WhoIsKnown /\ IsFiniteSet(Active) /\ SlotsAreCounted /\ NoLostWakeup

\* A step of r leaves where the others stand.
OnlyMoves(r) ==
    /\ req' \in [Requests -> PackRequest]
    /\ \A q \in Requests \ {r} :
         req'[q].at = req[q].at /\ req'[q].who = req[q].who

\* The counters move with r.
CountersMove(r) ==
    /\ running' = running - One(HasSlot(r)) + One(HasSlot(r)')
    /\ queued' = queued - One(HasPlace(r)) + One(HasPlace(r)')
    /\ classHeld' = classHeld - One(HasSlot(r) /\ InClass(req[r].who))
                              + One(HasSlot(r)' /\ InClass(req'[r].who))
    /\ \A p \in Principals :
         /\ held'[p] = held[p] - One(HasSlot(r) /\ req[r].who = p)
                               + One(HasSlot(r)' /\ req'[r].who = p)
         /\ waiting'[p] = waiting[p] - One(HasPlace(r) /\ req[r].who = p)
                                     + One(HasPlace(r)' /\ req'[r].who = p)

\* Counters that move with the one request that moves go on counting, and
\* never fall below zero.
LEMMA CountersFollow ==
    ASSUME IsFiniteSet(Active), SlotsAreCounted, NEW r \in Requests,
           OnlyMoves(r), CountersMove(r)
    PROVE  /\ IsFiniteSet(Active)' /\ SlotsAreCounted'
           /\ running' \in Nat /\ queued' \in Nat /\ classHeld' \in Nat
           /\ \A p \in Principals : held'[p] \in Nat /\ waiting'[p] \in Nat
<1>1. ASSUME NEW S \in SUBSET Active
      PROVE  IsFiniteSet(S)
  BY FS_Subset
<1> DEFINE Holds == {q \in Requests : HasSlot(q)}
           Waits == {q \in Requests : HasPlace(q)}
           HoldsInClass == {q \in Requests : HasSlot(q) /\ InClass(req[q].who)}
           HoldsFor(p) == {q \in Requests : HasSlot(q) /\ req[q].who = p}
           WaitsFor(p) == {q \in Requests : HasPlace(q) /\ req[q].who = p}
<1>2. running' \in Nat /\ running' = Cardinality(Holds')
  <2>1. Holds \ {r} = Holds' \ {r} /\ IsFiniteSet(Holds)
    BY <1>1 DEF OnlyMoves, Active, HasSlot
  <2>2. Cardinality(Holds') = Cardinality(Holds) - One(r \in Holds) + One(r \in Holds')
        /\ Cardinality(Holds') \in Nat
    BY <2>1, Recount
  <2>3. running = Cardinality(Holds)
    BY DEF SlotsAreCounted
  <2>4. running' = running - One(HasSlot(r)) + One(HasSlot(r)')
    BY DEF CountersMove
  <2>5. /\ r \in Holds <=> HasSlot(r)
        /\ r \in Holds' <=> HasSlot(r)'
    BY DEF InClass
  <2> QED
    BY <2>2, <2>3, <2>4, <2>5 DEF One
<1>3. queued' \in Nat /\ queued' = Cardinality(Waits')
  <2>1. Waits \ {r} = Waits' \ {r} /\ IsFiniteSet(Waits)
    BY <1>1 DEF OnlyMoves, Active, HasPlace
  <2>2. Cardinality(Waits') = Cardinality(Waits) - One(r \in Waits) + One(r \in Waits')
        /\ Cardinality(Waits') \in Nat
    BY <2>1, Recount
  <2>3. queued = Cardinality(Waits)
    BY DEF SlotsAreCounted
  <2>4. queued' = queued - One(HasPlace(r)) + One(HasPlace(r)')
    BY DEF CountersMove
  <2>5. /\ r \in Waits <=> HasPlace(r)
        /\ r \in Waits' <=> HasPlace(r)'
    BY DEF InClass
  <2> QED
    BY <2>2, <2>3, <2>4, <2>5 DEF One
<1>4. classHeld' \in Nat /\ classHeld' = Cardinality(HoldsInClass')
  <2>1. HoldsInClass \ {r} = HoldsInClass' \ {r} /\ IsFiniteSet(HoldsInClass)
    BY <1>1 DEF OnlyMoves, Active, HasSlot, InClass
  <2>2. Cardinality(HoldsInClass') = Cardinality(HoldsInClass) - One(r \in HoldsInClass) + One(r \in HoldsInClass')
        /\ Cardinality(HoldsInClass') \in Nat
    BY <2>1, Recount
  <2>3. classHeld = Cardinality(HoldsInClass)
    BY DEF SlotsAreCounted
  <2>4. classHeld' = classHeld - One(HasSlot(r) /\ InClass(req[r].who)) + One(HasSlot(r)' /\ InClass(req'[r].who))
    BY DEF CountersMove
  <2>5. /\ r \in HoldsInClass <=> HasSlot(r) /\ InClass(req[r].who)
        /\ r \in HoldsInClass' <=> HasSlot(r)' /\ InClass(req'[r].who)
    BY DEF InClass
  <2> QED
    BY <2>2, <2>3, <2>4, <2>5 DEF One
<1>5. ASSUME NEW p \in Principals
      PROVE  held'[p] \in Nat /\ held'[p] = Cardinality(HoldsFor(p)')
  <2>1. HoldsFor(p) \ {r} = HoldsFor(p)' \ {r} /\ IsFiniteSet(HoldsFor(p))
    BY <1>1 DEF OnlyMoves, Active, HasSlot
  <2>2. /\ Cardinality(HoldsFor(p)') = Cardinality(HoldsFor(p))
                                       - One(r \in HoldsFor(p)) + One(r \in HoldsFor(p)')
        /\ Cardinality(HoldsFor(p)') \in Nat
    BY <2>1, Recount
  <2>3. held[p] = Cardinality(HoldsFor(p))
    BY DEF SlotsAreCounted
  <2>4. held'[p] = held[p] - One(HasSlot(r) /\ req[r].who = p) + One(HasSlot(r)' /\ req'[r].who = p)
    BY DEF CountersMove
  <2>5. /\ r \in HoldsFor(p) <=> HasSlot(r) /\ req[r].who = p
        /\ r \in HoldsFor(p)' <=> HasSlot(r)' /\ req'[r].who = p
    OBVIOUS
  <2> QED
    BY <2>2, <2>3, <2>4, <2>5 DEF One
<1>6. ASSUME NEW p \in Principals
      PROVE  waiting'[p] \in Nat /\ waiting'[p] = Cardinality(WaitsFor(p)')
  <2>1. WaitsFor(p) \ {r} = WaitsFor(p)' \ {r} /\ IsFiniteSet(WaitsFor(p))
    BY <1>1 DEF OnlyMoves, Active, HasPlace
  <2>2. /\ Cardinality(WaitsFor(p)') = Cardinality(WaitsFor(p))
                                       - One(r \in WaitsFor(p)) + One(r \in WaitsFor(p)')
        /\ Cardinality(WaitsFor(p)') \in Nat
    BY <2>1, Recount
  <2>3. waiting[p] = Cardinality(WaitsFor(p))
    BY DEF SlotsAreCounted
  <2>4. waiting'[p] = waiting[p] - One(HasPlace(r) /\ req[r].who = p) + One(HasPlace(r)' /\ req'[r].who = p)
    BY DEF CountersMove
  <2>5. /\ r \in WaitsFor(p) <=> HasPlace(r) /\ req[r].who = p
        /\ r \in WaitsFor(p)' <=> HasPlace(r)' /\ req'[r].who = p
    OBVIOUS
  <2> QED
    BY <2>2, <2>3, <2>4, <2>5 DEF One
<1>7. IsFiniteSet(Active)'
  <2>1. Active \ {r} = Active' \ {r}
    BY DEF OnlyMoves, Active, HasSlot, HasPlace
  <2> QED
    BY <2>1, Recount
<1> QED
  BY <1>2, <1>3, <1>4, <1>5, <1>6, <1>7 DEF SlotsAreCounted

-----------------------------------------------------------------------------
(* The steps *)

\* No step but Release makes room: a request that slept and was right to
\* sleep goes on sleeping rightly.
LEMMA SleepersStay ==
    ASSUME WhoIsKnown, NoLostWakeup, NEW r \in Requests,
           \A q \in Requests \ {r} : req'[q] = req[q],
           \A p \in Principals : Fits(p)' => Fits(p),
           req'[r].at = "blocked" /\ ~req'[r].woken => ~Fits(req[r].who)'
    PROVE  NoLostWakeup'
<1> SUFFICES ASSUME NEW q \in Requests, req'[q].at = "blocked", ~req'[q].woken
             PROVE  ~Fits(req[q].who)'
  BY DEF NoLostWakeup
<1>1. CASE q = r
  BY <1>1
<1>2. CASE q # r
  <2>1. req'[q] = req[q] /\ ~Fits(req[q].who) /\ req[q].who \in Principals
    BY <1>2 DEF NoLostWakeup, WhoIsKnown, HasPlace
  <2> QED
    BY <2>1 DEF Fits, InClass
<1> QED
  BY <1>1, <1>2

\* What a step has to show: r moves, the counters move with it, and they
\* stay within their limits.
LEMMA StepKeepsInv ==
    ASSUME PackInv, NEW r \in Requests, UNCHANGED pushes,
           req' \in [Requests -> PackRequest],
           \A q \in Requests \ {r} : req'[q] = req[q],
           HasSlot(r)' \/ HasPlace(r)' => req'[r].who \in Principals,
           CountersMove(r),
           held' \in [Principals -> Int], waiting' \in [Principals -> Int],
           running' <= MaxSlots, classHeld' <= MaxSlots - 1, queued' <= QueueLen,
           \A p \in Principals : held'[p] <= PerPrincipal /\ waiting'[p] <= PerQueue,
           NoLostWakeup'
    PROVE  PackInv'
<1>1. OnlyMoves(r)
  BY DEF OnlyMoves
<1>2. /\ IsFiniteSet(Active)' /\ SlotsAreCounted'
      /\ running' \in Nat /\ queued' \in Nat /\ classHeld' \in Nat
      /\ \A p \in Principals : held'[p] \in Nat /\ waiting'[p] \in Nat
  BY <1>1, CountersFollow DEF PackInv
<1>3. held' \in [Principals -> 0..PerPrincipal] /\ waiting' \in [Principals -> 0..PerQueue]
  BY <1>2, PackSlotsAssumption
<1>4. WhoIsKnown'
  BY DEF PackInv, WhoIsKnown, HasSlot, HasPlace
<1> QED
  BY <1>2, <1>3, <1>4, PackSlotsAssumption DEF PackInv, PackTypeOK

\* A request that keeps its slot or its place, and does not fall asleep.
LEMMA StaysPut ==
    ASSUME PackInv, NEW r \in Requests,
           req' \in [Requests -> PackRequest],
           \A q \in Requests \ {r} : req'[q] = req[q],
           req'[r].who = req[r].who,
           HasSlot(r)' <=> HasSlot(r), HasPlace(r)' <=> HasPlace(r),
           req'[r].at = "blocked" => req[r].at = "blocked" /\ req'[r].woken = req[r].woken,
           UNCHANGED <<pushes, running, classHeld, queued, held, waiting>>
    PROVE  PackInv'
<1>1. CountersMove(r)
  BY PackSlotsAssumption DEF PackInv, PackTypeOK, CountersMove, One
<1>2. HasSlot(r)' \/ HasPlace(r)' => req'[r].who \in Principals
  BY DEF PackInv, WhoIsKnown
<1>3. \A p \in Principals : Fits(p)' => Fits(p)
  BY DEF Fits, InClass
<1>4. req'[r].at = "blocked" /\ ~req'[r].woken => ~Fits(req[r].who)'
  BY DEF PackInv, NoLostWakeup, Fits, InClass
<1>5. NoLostWakeup'
  BY <1>3, <1>4, SleepersStay DEF PackInv
<1>6. /\ held' \in [Principals -> Int] /\ waiting' \in [Principals -> Int]
      /\ running' <= MaxSlots /\ classHeld' <= MaxSlots - 1 /\ queued' <= QueueLen
      /\ \A p \in Principals : held'[p] <= PerPrincipal /\ waiting'[p] <= PerQueue
  BY PackSlotsAssumption DEF PackInv, PackTypeOK
<1> QED
  BY <1>1, <1>2, <1>5, <1>6, StepKeepsInv

\* A slot that is taken leaves less room for everyone.
LEMMA TakeRoom ==
    ASSUME PackTypeOK, NEW p \in Principals, Fits(p), Take(p)
    PROVE  /\ \A q \in Principals : Fits(q)' => Fits(q)
           /\ held' \in [Principals -> Int] /\ running' <= MaxSlots
           /\ classHeld' <= MaxSlots - 1
           /\ \A q \in Principals : held'[q] <= PerPrincipal
           /\ running' = running + 1
           /\ classHeld' = classHeld + One(InClass(p))
           /\ \A q \in Principals : held'[q] = held[q] + One(q = p)
<1>1. held' \in [Principals -> Int] /\ \A q \in Principals : held'[q] = held[q] + One(q = p)
  BY PackSlotsAssumption DEF Take, PackTypeOK, One
<1>2. running' = running + 1 /\ classHeld' = classHeld + One(InClass(p))
  BY PackSlotsAssumption DEF Take, PackTypeOK, One
<1>3. running' <= MaxSlots /\ classHeld' <= MaxSlots - 1
  BY <1>2, PackSlotsAssumption DEF Fits, PackTypeOK, One
<1>4. \A q \in Principals : held'[q] <= PerPrincipal
  BY <1>1, PackSlotsAssumption DEF Fits, PackTypeOK, One
<1>5. \A q \in Principals : Fits(q)' => Fits(q)
  BY <1>1, <1>2, PackSlotsAssumption DEF Fits, PackTypeOK, One, InClass
<1> QED
  BY <1>1, <1>2, <1>3, <1>4, <1>5

LEMMA InitInv == PackInit => PackInv
<1> SUFFICES ASSUME PackInit PROVE PackInv
  OBVIOUS
<1>1. NewRequest \in PackRequest
  BY DEF NewRequest, PackRequest
<1>2. PackTypeOK
  BY <1>1, PackSlotsAssumption DEF PackInit, PackTypeOK
<1>3. \A r \in Requests : ~HasSlot(r) /\ ~HasPlace(r) /\ req[r].at # "blocked"
  BY DEF PackInit, NewRequest, HasSlot, HasPlace
<1>4. SlotsAreCounted
  <2>1. /\ {r \in Requests : HasSlot(r)} = {} /\ {r \in Requests : HasPlace(r)} = {}
        /\ {r \in Requests : HasSlot(r) /\ InClass(req[r].who)} = {}
        /\ \A p \in Principals :
             /\ {r \in Requests : HasSlot(r) /\ req[r].who = p} = {}
             /\ {r \in Requests : HasPlace(r) /\ req[r].who = p} = {}
    BY <1>3
  <2>2. Cardinality({}) = 0
    BY FS_EmptySet
  <2>3. ASSUME NEW p \in Principals PROVE held[p] = 0 /\ waiting[p] = 0
    BY DEF PackInit
  <2>4. running = 0 /\ classHeld = 0 /\ queued = 0
    BY DEF PackInit
  <2> QED
    BY <2>1, <2>2, <2>3, <2>4 DEF SlotsAreCounted
<1>5. IsFiniteSet(Active)
  <2>1. Active = {}
    BY <1>3 DEF Active
  <2> QED
    BY <2>1, FS_EmptySet
<1> QED
  BY <1>2, <1>3, <1>4, <1>5 DEF PackInv, WhoIsKnown, NoLostWakeup

LEMMA AcquireInv ==
    ASSUME PackInv, NEW r \in Requests, NEW p \in Principals,
           NEW via \in {"fetch", "git", "push"}, Acquire(r, p, via)
    PROVE  PackInv'
<1>1. /\ PackTypeOK /\ req[r] \in PackRequest /\ req[r].at = "new" /\ UNCHANGED pushes
      /\ ~HasSlot(r) /\ ~HasPlace(r)
  BY DEF PackInv, PackTypeOK, Acquire, HasSlot, HasPlace
<1>2. OverRequest \in PackRequest /\ OverRequest.at = "over"
  BY DEF OverRequest, NewRequest, PackRequest
<1>3. ASSUME NEW at \in {"running", "queued"},
             req' = [req EXCEPT ![r].at = at, ![r].who = p, ![r].via = via]
      PROVE  /\ req' \in [Requests -> PackRequest]
             /\ \A q \in Requests \ {r} : req'[q] = req[q]
             /\ req'[r].at = at /\ req'[r].who = p
  BY <1>1, <1>3 DEF PackTypeOK, PackRequest
<1>4. CASE Fits(p) /\ Take(p) /\ UNCHANGED <<queued, waiting>>
           /\ req' = [req EXCEPT ![r].at = "running", ![r].who = p, ![r].via = via]
  <2>1. /\ req' \in [Requests -> PackRequest]
        /\ \A q \in Requests \ {r} : req'[q] = req[q]
        /\ req'[r].at = "running" /\ req'[r].who = p
    BY <1>3, <1>4
  <2>2. HasSlot(r)' /\ ~HasPlace(r)'
    BY <2>1 DEF HasSlot, HasPlace
  <2>3. CountersMove(r)
    BY <1>1, <1>4, <2>1, <2>2, TakeRoom, PackSlotsAssumption
       DEF CountersMove, One, PackTypeOK
  <2>4. NoLostWakeup'
    BY <1>1, <1>4, <2>1, TakeRoom, SleepersStay DEF PackInv
  <2> QED
    BY <1>1, <1>4, <2>1, <2>3, <2>4, TakeRoom, StepKeepsInv, PackSlotsAssumption
       DEF PackTypeOK
<1>5. CASE /\ req' = [req EXCEPT ![r] = OverRequest]
           /\ UNCHANGED <<running, classHeld, queued, held, waiting>>
  <2>1. /\ req' \in [Requests -> PackRequest]
        /\ \A q \in Requests \ {r} : req'[q] = req[q]
        /\ req'[r].at = "over"
    BY <1>2, <1>5 DEF PackInv, PackTypeOK
  <2>2. ~HasSlot(r)' /\ ~HasPlace(r)'
    BY <2>1 DEF HasSlot, HasPlace
  <2>3. CountersMove(r)
    BY <1>1, <1>5, <2>2, PackSlotsAssumption DEF CountersMove, One, PackTypeOK
  <2>4. NoLostWakeup'
    <3>1. \A q \in Principals : Fits(q)' => Fits(q)
      BY <1>5 DEF Fits, InClass
    <3> QED
      BY <2>1, <3>1, SleepersStay DEF PackInv
  <2> QED
    BY <1>1, <1>5, <2>1, <2>2, <2>3, <2>4, StepKeepsInv, PackSlotsAssumption
       DEF PackTypeOK
<1>6. CASE /\ queued < QueueLen /\ waiting[p] < PerQueue
           /\ req' = [req EXCEPT ![r].at = "queued", ![r].who = p, ![r].via = via]
           /\ queued' = queued + 1
           /\ waiting' = [waiting EXCEPT ![p] = @ + 1]
           /\ UNCHANGED <<running, classHeld, held>>
  <2>1. /\ req' \in [Requests -> PackRequest]
        /\ \A q \in Requests \ {r} : req'[q] = req[q]
        /\ req'[r].at = "queued" /\ req'[r].who = p
    BY <1>3, <1>6
  <2>2. ~HasSlot(r)' /\ HasPlace(r)'
    BY <2>1 DEF HasSlot, HasPlace
  <2>3. /\ waiting' \in [Principals -> Int] /\ queued' <= QueueLen
        /\ \A q \in Principals : waiting'[q] = waiting[q] + One(q = p)
        /\ \A q \in Principals : waiting'[q] <= PerQueue
    BY <1>1, <1>6, PackSlotsAssumption DEF PackTypeOK, One
  <2>4. CountersMove(r)
    BY <1>1, <1>6, <2>1, <2>2, <2>3, PackSlotsAssumption
       DEF CountersMove, One, PackTypeOK
  <2>5. NoLostWakeup'
    <3>1. \A q \in Principals : Fits(q)' => Fits(q)
      BY <1>6 DEF Fits, InClass
    <3> QED
      BY <2>1, <3>1, SleepersStay DEF PackInv
  <2> QED
    BY <1>1, <1>6, <2>1, <2>3, <2>4, <2>5, StepKeepsInv, PackSlotsAssumption
       DEF PackTypeOK
<1>7. waiting[p] \in Int /\ queued \in Int /\ PerQueue \in Int /\ QueueLen \in Int
  BY <1>1, PackSlotsAssumption DEF PackTypeOK
<1> QED
  BY <1>4, <1>5, <1>6, <1>7 DEF Acquire

LEMMA LookAgainInv ==
    ASSUME PackInv, NEW r \in Requests, LookAgain(r)
    PROVE  PackInv'
<1> DEFINE p == req[r].who
<1>1. /\ PackTypeOK /\ req[r] \in PackRequest /\ req[r].at = "queued"
      /\ UNCHANGED <<pushes, queued, waiting>>
      /\ ~HasSlot(r) /\ HasPlace(r) /\ p \in Principals
  BY DEF PackInv, PackTypeOK, WhoIsKnown, LookAgain, HasSlot, HasPlace
<1>2. ASSUME NEW at \in {"refused", "taken"}, req' = [req EXCEPT ![r].at = at]
      PROVE  /\ req' \in [Requests -> PackRequest]
             /\ \A q \in Requests \ {r} : req'[q] = req[q]
             /\ req'[r].at = at /\ req'[r].who = p
  BY <1>1, <1>2 DEF PackTypeOK, PackRequest
<1>3. CASE /\ req' = [req EXCEPT ![r].at = "refused"]
           /\ UNCHANGED <<running, classHeld, held>>
  <2>1. /\ req' \in [Requests -> PackRequest]
        /\ \A q \in Requests \ {r} : req'[q] = req[q]
        /\ req'[r].at = "refused" /\ req'[r].who = p
    BY <1>2, <1>3
  <2>2. (HasSlot(r)' <=> HasSlot(r)) /\ (HasPlace(r)' <=> HasPlace(r))
    BY <1>1, <2>1 DEF HasSlot, HasPlace
  <2> QED
    BY <1>1, <1>3, <2>1, <2>2, StaysPut
<1>4. CASE Fits(p) /\ Take(p) /\ req' = [req EXCEPT ![r].at = "taken"]
  <2>1. /\ req' \in [Requests -> PackRequest]
        /\ \A q \in Requests \ {r} : req'[q] = req[q]
        /\ req'[r].at = "taken" /\ req'[r].who = p
    BY <1>2, <1>4
  <2>2. HasSlot(r)' /\ HasPlace(r)'
    BY <2>1 DEF HasSlot, HasPlace
  <2>3. CountersMove(r)
    BY <1>1, <1>4, <2>1, <2>2, TakeRoom, PackSlotsAssumption
       DEF CountersMove, One, PackTypeOK
  <2>4. NoLostWakeup'
    BY <1>1, <1>4, <2>1, TakeRoom, SleepersStay DEF PackInv
  <2> QED
    BY <1>1, <1>4, <2>1, <2>3, <2>4, TakeRoom, StepKeepsInv, PackSlotsAssumption
       DEF PackTypeOK
\* It falls asleep only when there is no slot for it.
<1>5. CASE /\ ~Fits(p)
           /\ req' = [req EXCEPT ![r].at = "blocked", ![r].woken = FALSE]
           /\ UNCHANGED <<running, classHeld, held>>
  <2>1. /\ req' \in [Requests -> PackRequest]
        /\ \A q \in Requests \ {r} : req'[q] = req[q]
        /\ req'[r].at = "blocked" /\ req'[r].who = p
    BY <1>1, <1>5 DEF PackTypeOK, PackRequest
  <2>2. ~HasSlot(r)' /\ HasPlace(r)'
    BY <2>1 DEF HasSlot, HasPlace
  <2>3. CountersMove(r)
    BY <1>1, <1>5, <2>1, <2>2, PackSlotsAssumption DEF CountersMove, One, PackTypeOK
  <2>4. NoLostWakeup'
    <3>1. \A q \in Principals : Fits(q)' => Fits(q)
      BY <1>5 DEF Fits, InClass
    <3>2. ~Fits(req[r].who)'
      BY <1>5, <2>1 DEF Fits, InClass
    <3> QED
      BY <2>1, <3>1, <3>2, SleepersStay DEF PackInv
  <2> QED
    BY <1>1, <1>5, <2>1, <2>3, <2>4, StepKeepsInv, PackSlotsAssumption DEF PackTypeOK
<1> QED
  BY <1>3, <1>4, <1>5 DEF LookAgain

LEMMA LeaveQueueInv ==
    ASSUME PackInv, NEW r \in Requests, LeaveQueue(r)
    PROVE  PackInv'
<1> DEFINE p == req[r].who
<1>1. /\ PackTypeOK /\ req[r] \in PackRequest /\ req[r].at \in {"taken", "refused"}
      /\ UNCHANGED <<pushes, running, classHeld, held>>
      /\ HasPlace(r) /\ p \in Principals /\ (HasSlot(r) <=> req[r].at = "taken")
  BY DEF PackInv, PackTypeOK, WhoIsKnown, LeaveQueue, HasSlot, HasPlace
<1>2. /\ queued' = queued - 1
      /\ waiting' \in [Principals -> Int]
      /\ \A q \in Principals : waiting'[q] = waiting[q] - One(q = p)
  BY <1>1, PackSlotsAssumption DEF LeaveQueue, PackTypeOK, One
<1>3. /\ req' \in [Requests -> PackRequest]
      /\ \A q \in Requests \ {r} : req'[q] = req[q]
      /\ \/ req[r].at = "taken" /\ req'[r].at = "running" /\ req'[r].who = p
         \/ req[r].at = "refused" /\ req'[r].at = "over"
  <2>1. OverRequest \in PackRequest /\ OverRequest.at = "over"
    BY DEF OverRequest, NewRequest, PackRequest
  <2>2. /\ [req[r] EXCEPT !.at = "running"] \in PackRequest
        /\ [req[r] EXCEPT !.at = "running"].at = "running"
        /\ [req[r] EXCEPT !.at = "running"].who = p
    BY <1>1 DEF PackRequest
  <2> QED
    BY <1>1, <2>1, <2>2 DEF LeaveQueue, PackTypeOK
<1>4. ~HasPlace(r)' /\ (HasSlot(r)' <=> HasSlot(r)) /\ (HasSlot(r) => req'[r].who = p)
  BY <1>1, <1>3 DEF HasSlot, HasPlace
<1>5. CountersMove(r)
  BY <1>1, <1>2, <1>4, PackSlotsAssumption DEF CountersMove, One, PackTypeOK
<1>6. NoLostWakeup'
  <2>1. \A q \in Principals : Fits(q)' => Fits(q)
    BY <1>1 DEF Fits, InClass
  <2> QED
    BY <1>3, <2>1, SleepersStay DEF PackInv
<1>7. queued' <= QueueLen /\ \A q \in Principals : waiting'[q] <= PerQueue
  BY <1>1, <1>2, PackSlotsAssumption DEF PackTypeOK, One
<1> QED
  BY <1>1, <1>2, <1>3, <1>4, <1>5, <1>6, <1>7, StepKeepsInv, PackSlotsAssumption
     DEF PackTypeOK

\* The wake-up closes the channel of everyone who sleeps, so that the room a
\* slot leaves is seen by all.
LEMMA ReleaseInv ==
    ASSUME PackInv, NEW r \in Requests, Release(r)
    PROVE  PackInv'
<1> DEFINE p == req[r].who
<1>1. /\ PackTypeOK /\ req[r] \in PackRequest /\ HasSlot(r) /\ ~HasPlace(r)
      /\ p \in Principals /\ UNCHANGED <<pushes, queued, waiting>>
      /\ req[r].at # "blocked"
  BY DEF PackInv, PackTypeOK, WhoIsKnown, Release, HasSlot, HasPlace
<1>2. /\ running' = running - 1 /\ classHeld' = classHeld - One(InClass(p))
      /\ held' \in [Principals -> Int]
      /\ \A q \in Principals : held'[q] = held[q] - One(q = p)
  BY <1>1, PackSlotsAssumption DEF Release, ClassHeldLess, PackTypeOK, One
<1>3. OverRequest \in PackRequest /\ OverRequest.at = "over"
  BY DEF OverRequest, NewRequest, PackRequest
<1>4. ASSUME NEW q \in Requests
      PROVE  /\ req'[q] \in PackRequest
             /\ q # r => req'[q].at = req[q].at /\ req'[q].who = req[q].who
             /\ q # r /\ req[q].at = "blocked" => req'[q].woken
             /\ q = r => req'[q].at = "over"
  <2>1. req'[q] = IF q = r THEN OverRequest
                  ELSE IF q \in Woken(r) THEN [req[q] EXCEPT !.woken = TRUE]
                  ELSE req[q]
    BY DEF Release
  <2>2. /\ req[q] \in PackRequest
        /\ [req[q] EXCEPT !.woken = TRUE] \in PackRequest
        /\ [req[q] EXCEPT !.woken = TRUE].at = req[q].at
        /\ [req[q] EXCEPT !.woken = TRUE].who = req[q].who
        /\ [req[q] EXCEPT !.woken = TRUE].woken
    BY <1>1 DEF PackTypeOK, PackRequest
  <2> QED
    BY <1>3, <2>1, <2>2 DEF Woken
<1>5. req' \in [Requests -> PackRequest]
  <2>1. /\ DOMAIN req' = Requests
        /\ req' = [q \in Requests |-> req'[q]]
    BY DEF Release
  <2> QED
    BY <1>4, <2>1
<1>6. OnlyMoves(r)
  BY <1>4, <1>5 DEF OnlyMoves
<1>7. ~HasSlot(r)' /\ ~HasPlace(r)'
  BY <1>4 DEF HasSlot, HasPlace
<1>8. CountersMove(r)
  BY <1>1, <1>2, <1>7, PackSlotsAssumption DEF CountersMove, One, PackTypeOK
<1>9. /\ IsFiniteSet(Active)' /\ SlotsAreCounted'
      /\ running' \in Nat /\ queued' \in Nat /\ classHeld' \in Nat
      /\ \A q \in Principals : held'[q] \in Nat /\ waiting'[q] \in Nat
  BY <1>6, <1>8, CountersFollow DEF PackInv
<1>10. PackTypeOK'
  <2>1. \A q \in Principals : held'[q] <= held[q] /\ held[q] <= PerPrincipal
    BY <1>1, <1>2, PackSlotsAssumption DEF PackTypeOK, One
  <2>2. held' \in [Principals -> 0..PerPrincipal]
    BY <1>1, <1>2, <1>9, <2>1, PackSlotsAssumption DEF PackTypeOK
  <2>3. running' \in 0..MaxSlots /\ classHeld' \in 0..(MaxSlots - 1)
    BY <1>1, <1>2, <1>9, PackSlotsAssumption DEF PackTypeOK, One
  <2> QED
    BY <1>1, <1>5, <2>2, <2>3 DEF PackTypeOK
<1>11. WhoIsKnown'
  BY <1>4, <1>7 DEF PackInv, WhoIsKnown, HasSlot, HasPlace
<1>12. NoLostWakeup'
  BY <1>4 DEF NoLostWakeup
<1> QED
  BY <1>9, <1>10, <1>11, <1>12 DEF PackInv

\* The steps that move neither a slot nor a place.
LEMMA TransportInv ==
    ASSUME PackInv, NEW r \in Requests,
           \/ Wake(r) \/ GiveUp(r) \/ ClientLeaves(r) \/ FallsSilent(r)
           \/ PushBegins(r) \/ KillStalled(r)
    PROVE  PackInv'
<1>1. req \in [Requests -> PackRequest] /\ req[r] \in PackRequest
  BY DEF PackInv, PackTypeOK
<1>2. UNCHANGED <<pushes, running, classHeld, queued, held, waiting>>
  BY DEF Wake, GiveUp, ClientLeaves, FallsSilent, PushBegins, KillStalled
<1>3. \A q \in Requests \ {r} : req'[q] = req[q]
  BY <1>1 DEF Wake, GiveUp, ClientLeaves, FallsSilent, PushBegins, KillStalled
<1>4. CASE Wake(r)
  <2>1. /\ req' \in [Requests -> PackRequest] /\ req[r].at = "blocked"
        /\ req'[r].at = "queued" /\ req'[r].who = req[r].who
    BY <1>1, <1>4 DEF Wake, PackRequest
  <2> QED
    BY <1>2, <1>3, <2>1, StaysPut DEF HasSlot, HasPlace
<1>5. CASE GiveUp(r)
  <2>1. /\ req' \in [Requests -> PackRequest] /\ req[r].at = "blocked"
        /\ req'[r].at = "refused" /\ req'[r].who = req[r].who
    BY <1>1, <1>5 DEF GiveUp, PackRequest
  <2> QED
    BY <1>2, <1>3, <2>1, StaysPut DEF HasSlot, HasPlace
<1>6. CASE ClientLeaves(r)
  <2>1. /\ req' \in [Requests -> PackRequest]
        /\ req'[r].at = (IF req[r].at = "running" THEN "killed" ELSE req[r].at)
        /\ req'[r].who = req[r].who /\ req'[r].woken = req[r].woken
    BY <1>1, <1>6 DEF ClientLeaves, PackRequest
  <2> QED
    BY <1>2, <1>3, <2>1, StaysPut DEF HasSlot, HasPlace
<1>7. CASE FallsSilent(r) \/ PushBegins(r)
  <2>1. /\ req' \in [Requests -> PackRequest] /\ req'[r].at = req[r].at
        /\ req'[r].who = req[r].who /\ req'[r].woken = req[r].woken
    <3>1. CASE req' = [req EXCEPT ![r].silent = TRUE]
      BY <1>1, <3>1 DEF PackRequest
    <3>2. CASE req' = [req EXCEPT ![r].armed = TRUE]
      BY <1>1, <3>2 DEF PackRequest
    <3>3. CASE req' = [req EXCEPT ![r].armed = TRUE, ![r].started = TRUE]
      BY <1>1, <3>3 DEF PackRequest
    <3> QED
      BY <1>7, <3>1, <3>2, <3>3 DEF FallsSilent, PushBegins
  <2>2. (HasSlot(r)' <=> HasSlot(r)) /\ (HasPlace(r)' <=> HasPlace(r))
    BY <2>1 DEF HasSlot, HasPlace
  <2> QED
    BY <1>2, <1>3, <2>1, <2>2, StaysPut
<1>8. CASE KillStalled(r)
  <2>1. /\ req' \in [Requests -> PackRequest] /\ req[r].at = "running"
        /\ req'[r].at = "killed" /\ req'[r].who = req[r].who
    BY <1>1, <1>8 DEF KillStalled, PackRequest
  <2> QED
    BY <1>2, <1>3, <2>1, StaysPut DEF HasSlot, HasPlace
<1> QED
  BY <1>4, <1>5, <1>6, <1>7, <1>8

LEMMA StutterInv ==
    ASSUME PackInv, UNCHANGED packVars
    PROVE  PackInv'
BY DEF packVars, PackInv, PackTypeOK, WhoIsKnown, Active, SlotsAreCounted,
       NoLostWakeup, HasSlot, HasPlace, Fits, InClass

LEMMA PackInvariance == PackSpec => []PackInv
<1>1. ASSUME PackInv, [PackNext]_packVars
      PROVE  PackInv'
  <2>1. CASE UNCHANGED packVars
    BY <1>1, <2>1, StutterInv
  <2>2. ASSUME NEW r \in Requests, NEW p \in Principals,
               NEW via \in {"fetch", "git", "push"}, Acquire(r, p, via)
        PROVE  PackInv'
    BY <1>1, <2>2, AcquireInv
  <2>3. ASSUME NEW r \in Requests, LookAgain(r)
        PROVE  PackInv'
    BY <1>1, <2>3, LookAgainInv
  <2>4. ASSUME NEW r \in Requests, LeaveQueue(r)
        PROVE  PackInv'
    BY <1>1, <2>4, LeaveQueueInv
  <2>5. ASSUME NEW r \in Requests, Release(r)
        PROVE  PackInv'
    BY <1>1, <2>5, ReleaseInv
  <2>6. ASSUME NEW r \in Requests,
               \/ Wake(r) \/ GiveUp(r) \/ ClientLeaves(r) \/ FallsSilent(r)
               \/ PushBegins(r) \/ KillStalled(r)
        PROVE  PackInv'
    BY <1>1, <2>6, TransportInv
  <2> QED
    BY <1>1, <2>1, <2>2, <2>3, <2>4, <2>5, <2>6 DEF PackNext
<1> QED
  BY <1>1, InitInv, PTL DEF PackSpec

\* The counters stay within the limits of the configuration and every request
\* is in a state the code knows (packlimit.go).
THEOREM LimitsHold == PackSpec => []PackTypeOK
BY PackInvariance, PTL DEF PackInv

\* The limiter's counters are the requests that hold a slot or a place, and a
\* request that sleeps on a channel nobody has closed has no slot to take:
\* for any number of requests, principals and slots (packlimit.go).
THEOREM SlotsCountedAndSeen == PackSpec => []SlotsAreShared
BY PackInvariance, PTL DEF PackInv, SlotsAreShared

-----------------------------------------------------------------------------
(* Key files as sequences *)

LEMMA KeysOfEmpty == KeysIn(<<>>) = {}
BY DEF KeysIn

LEMMA KeysOfOne ==
    ASSUME NEW k
    PROVE  KeysIn(<<k>>) = {k}
BY DEF KeysIn

LEMMA KeysOfAppend ==
    ASSUME NEW S, NEW s \in Seq(S), NEW k \in S
    PROVE  /\ KeysIn(Append(s, k)) = KeysIn(s) \cup {k}
           /\ Append(s, k) \in Seq(S) /\ Append(s, k) # <<>>
           /\ Append(s, k)[Len(Append(s, k))] = k
<1>1. /\ Append(s, k) \in Seq(S) /\ Len(Append(s, k)) = Len(s) + 1 /\ Len(s) \in Nat
      /\ Append(s, k)[Len(s) + 1] = k
      /\ \A i \in 1..Len(s) : Append(s, k)[i] = s[i]
  OBVIOUS
<1>2. 1..(Len(s) + 1) = 1..Len(s) \cup {Len(s) + 1}
  BY <1>1
<1>3. KeysIn(Append(s, k)) = KeysIn(s) \cup {k}
  BY <1>1, <1>2 DEF KeysIn
<1> QED
  BY <1>1, <1>3

LEMMA LastIsKey ==
    ASSUME NEW S, NEW s \in Seq(S), s # <<>>
    PROVE  s[Len(s)] \in KeysIn(s) /\ s[Len(s)] \in S
<1>1. Len(s) \in 1..Len(s)
  OBVIOUS
<1> QED
  BY <1>1 DEF KeysIn

-----------------------------------------------------------------------------
(* The inductive invariant *)

\* Only the run that holds the lock is anywhere, and it knows the file: no one
\* else writes it.
RunHoldsLock == \A p \in Rotators : rotator[p].at # "idle" => lockedBy = p

RunKnowsFile ==
    \A p \in Rotators :
        /\ rotator[p].at = "read" =>
             /\ keyFile # <<>> /\ rotator[p].old = keyFile
             /\ rotator[p].next \in 1..made /\ rotator[p].next \notin KeysIn(keyFile)
        /\ rotator[p].at \in {"appended", "resealing", "resealed", "checked"} =>
             keyFile # <<>> /\ rotator[p].next = CurrentID

\* Whoever has a transaction is at work, and there is a key file.
TxHasOwner ==
    /\ daemon # "down" => keyFile # <<>>
    /\ tx.by = "writer" => daemon = "up"
    /\ tx.by = "start" => daemon = "starting"
    /\ tx.by = "rotate" <=> \E p \in Rotators : rotator[p].at = "resealing"

\* What a transaction will store opens.
TxOpens ==
    /\ tx.by = "writer" => Opened(tx.sealed)
    /\ tx.by \in {"start", "rotate"} => \A row \in SecretRows : Opened(tx.rows[row])

\* Once a rotation has resealed the rows, every transaction that may commit
\* began after its key was written: it stores that key or what it found.
TxIsFresh ==
    \A p \in Rotators :
        rotator[p].at \in {"resealed", "checked"} =>
            /\ tx.by = "writer" => tx.sealed \in {0, rotator[p].next}
            /\ tx.by = "start" =>
                 \A row \in SecretRows : tx.rows[row] \in {stored[row], rotator[p].next}

\* The check stays true until the old keys are dropped.
CheckStands ==
    \A p \in Rotators :
        rotator[p].at = "checked" => \A row \in SecretRows : stored[row] = rotator[p].next

KeyInv ==
    /\ KeyTypeOK /\ RunHoldsLock /\ RunKnowsFile /\ TxHasOwner
    /\ TxOpens /\ TxIsFresh /\ CheckStands /\ EveryValueOpens

-----------------------------------------------------------------------------
(* Transactions *)

LEMMA InitKeys == KeyInit => KeyInv
<1> SUFFICES ASSUME KeyInit PROVE KeyInv
  OBVIOUS
<1>1. /\ keyFile = <<>> /\ lockedBy = 0 /\ made = 0 /\ daemon = "down"
      /\ rotator = [p \in Rotators |-> IdleRun] /\ stored = [r \in SecretRows |-> Clear]
      /\ tx = NoTx
  BY DEF KeyInit, NoRotator
<1>2. /\ IdleRun \in Run /\ IdleRun.at = "idle"
      /\ NoTx \in Transaction /\ NoTx.by = "none"
  BY KeyFileAssumption DEF IdleRun, Run, NoTx, Transaction, Clear
<1>3. /\ rotator \in [Rotators -> Run] /\ \A p \in Rotators : rotator[p].at = "idle"
  BY <1>1, <1>2
<1>4. stored \in [SecretRows -> 0..MaxKeys] /\ \A r \in SecretRows : stored[r] = Clear
  BY <1>1, KeyFileAssumption DEF Clear
<1>5. KeyTypeOK
  BY <1>1, <1>2, <1>3, <1>4, KeysOfEmpty, KeyFileAssumption DEF KeyTypeOK, NoRotator
<1> QED
  BY <1>1, <1>2, <1>3, <1>4, <1>5 DEF KeyInv, RunHoldsLock, RunKnowsFile, TxHasOwner,
     TxOpens, TxIsFresh, CheckStands, EveryValueOpens, Opened

\* One run at a time.
LEMMA OneRun ==
    ASSUME KeyInv, NEW p \in Rotators, rotator[p].at # "idle", NEW q \in Rotators, q # p
    PROVE  rotator[q].at = "idle"
BY DEF KeyInv, RunHoldsLock

\* The key that seals is one of the file's.
LEMMA CurrentOpens ==
    ASSUME KeyInv, keyFile # <<>>
    PROVE  CurrentID \in 1..MaxKeys /\ CurrentID \in KeysIn(keyFile)
BY LastIsKey DEF KeyInv, KeyTypeOK, CurrentID

LEMMA BeginFacts ==
    ASSUME KeyInv, NEW by \in {"start", "rotate"}, ResealBegin(by)
    PROVE  /\ tx' \in Transaction /\ tx'.by = by /\ tx'.rows = stored
           /\ tx.by = "none" /\ keyFile # <<>>
<1>1. tx' = NewTx(by, SecretRows, CurrentID) /\ tx.by = "none" /\ keyFile # <<>>
  BY DEF ResealBegin
<1>2. CurrentID \in 0..MaxKeys /\ stored \in [SecretRows -> 0..MaxKeys] /\ 0 \in 0..MaxKeys
  BY <1>1, CurrentOpens, KeyFileAssumption DEF KeyInv, KeyTypeOK
<1> QED
  BY <1>1, <1>2 DEF NewTx, Transaction

LEMMA ResealFacts ==
    ASSUME KeyInv, NEW by \in {"start", "rotate"}, Reseal(by)
    PROVE  /\ tx' \in Transaction /\ tx.by = by /\ tx'.by = by
           /\ \A r \in SecretRows : tx'.rows[r] \in {tx.rows[r], CurrentID}
           /\ keyFile # <<>>
<1>1. PICK row \in tx.left :
        /\ tx.by = by
        /\ tx' = [tx EXCEPT !.left = @ \ {row},
                            !.rows[row] = IF @ = tx.cur THEN @ ELSE CurrentID]
  BY DEF Reseal
<1>2. tx \in Transaction /\ row \in SecretRows
  BY DEF KeyInv, KeyTypeOK, Transaction
<1>3. keyFile # <<>>
  BY <1>1 DEF KeyInv, TxHasOwner, RunKnowsFile
<1>4. CurrentID \in 0..MaxKeys
  BY <1>3, CurrentOpens, KeyFileAssumption
<1> DEFINE a == [tx EXCEPT !.left = @ \ {row}]
           new == IF tx.rows[row] = tx.cur THEN tx.rows[row] ELSE CurrentID
<1>5. a \in Transaction /\ a.by = tx.by /\ a.rows = tx.rows
  BY <1>2 DEF Transaction
<1>6. tx' = [a EXCEPT !.rows = [tx.rows EXCEPT ![row] = new]]
  BY <1>1, <1>2 DEF Transaction
<1>7. /\ [tx.rows EXCEPT ![row] = new] \in [SecretRows -> 0..MaxKeys]
      /\ \A r \in SecretRows : [tx.rows EXCEPT ![row] = new][r] \in {tx.rows[r], CurrentID}
  BY <1>2, <1>4 DEF Transaction
<1> HIDE DEF a, new
<1>8. tx' \in Transaction /\ tx'.by = a.by /\ tx'.rows = [tx.rows EXCEPT ![row] = new]
  BY <1>5, <1>6, <1>7 DEF Transaction
<1> QED
  BY <1>1, <1>3, <1>5, <1>7, <1>8

\* What has to be shown of a step that leaves the file and the runs alone.
LEMMA FileStays ==
    ASSUME KeyInv, UNCHANGED <<keyFile, lockedBy, rotator, made>>,
           tx' \in Transaction, stored' \in [SecretRows -> 0..MaxKeys],
           daemon' \in {"down", "starting", "up"},
           TxHasOwner', TxOpens', TxIsFresh', CheckStands', EveryValueOpens'
    PROVE  KeyInv'
<1>1. RunHoldsLock' /\ RunKnowsFile'
  BY DEF KeyInv, RunHoldsLock, RunKnowsFile, CurrentID
<1>2. KeyTypeOK'
  BY DEF KeyInv, KeyTypeOK
<1> QED
  BY <1>1, <1>2 DEF KeyInv

\* The daemon writes a secret.
LEMMA WriterInv ==
    ASSUME KeyInv, NEW row \in SecretRows, SetBuildSecret(row)
    PROVE  KeyInv'
<1>1. UNCHANGED <<keyFile, lockedBy, rotator, made, daemon>> /\ daemon = "up"
  BY DEF SetBuildSecret
<1>2. keyFile # <<>> /\ CurrentID \in 1..MaxKeys /\ CurrentID \in KeysIn(keyFile)
  BY <1>1, CurrentOpens DEF KeyInv, TxHasOwner
<1>3. /\ stored \in [SecretRows -> 0..MaxKeys] /\ tx \in Transaction
      /\ daemon \in {"down", "starting", "up"}
  BY DEF KeyInv, KeyTypeOK
<1>4. CASE BeginTx("writer") /\ UNCHANGED <<stored, setOps>>
  <2>1. tx.by = "none" /\ tx' = NewTx("writer", {}, 0)
    BY <1>4 DEF BeginTx
  <2>2. tx' \in Transaction /\ tx'.by = "writer" /\ tx'.sealed = 0
    BY <1>3, <2>1, KeyFileAssumption DEF NewTx, Transaction
  <2>3. TxHasOwner'
    BY <1>1, <2>1, <2>2 DEF KeyInv, TxHasOwner
  <2>4. TxOpens' /\ TxIsFresh'
    BY <2>2 DEF TxOpens, TxIsFresh, Opened, Clear
  <2>5. CheckStands' /\ EveryValueOpens'
    BY <1>1, <1>4 DEF KeyInv, CheckStands, EveryValueOpens, Opened
  <2> QED
    BY <1>1, <1>3, <1>4, <2>2, <2>3, <2>4, <2>5, FileStays
<1>5. CASE /\ tx.by = "writer" /\ tx.sealed = 0
           /\ tx' = [tx EXCEPT !.sealed = CurrentID] /\ UNCHANGED <<stored, setOps>>
  <2>0. CurrentID \in 0..MaxKeys
    BY <1>2, KeyFileAssumption
  <2>1. tx' \in Transaction /\ tx'.by = "writer" /\ tx'.sealed = CurrentID
    BY <1>3, <1>5, <2>0 DEF Transaction
  <2>2. TxHasOwner'
    BY <1>1, <1>5, <2>1 DEF KeyInv, TxHasOwner
  <2>3. TxOpens'
    BY <1>1, <1>2, <2>1 DEF TxOpens, Opened
  <2>4. TxIsFresh'
    BY <1>1, <2>1 DEF KeyInv, TxIsFresh, RunKnowsFile
  <2>5. CheckStands' /\ EveryValueOpens'
    BY <1>1, <1>5 DEF KeyInv, CheckStands, EveryValueOpens, Opened
  <2> QED
    BY <1>1, <1>3, <1>5, <2>1, <2>2, <2>3, <2>4, <2>5, FileStays
<1>6. CASE /\ tx.by = "writer" /\ tx.sealed # 0
           /\ stored' = [stored EXCEPT ![row] = tx.sealed] /\ tx' = NoTx
  <2>1. /\ tx.sealed \in 0..MaxKeys /\ Opened(tx.sealed)
        /\ \A p \in Rotators : rotator[p].at \in {"resealed", "checked"} =>
             tx.sealed = rotator[p].next
    BY <1>3, <1>6 DEF KeyInv, TxOpens, TxIsFresh, Transaction
  <2>2. tx' \in Transaction /\ tx'.by = "none"
    BY <1>6, KeyFileAssumption DEF NoTx, Transaction, Clear
  <2>3. /\ stored' \in [SecretRows -> 0..MaxKeys]
        /\ \A r \in SecretRows : stored'[r] \in {stored[r], tx.sealed}
    BY <1>3, <1>6, <2>1
  <2>4. TxHasOwner' /\ TxOpens' /\ TxIsFresh'
    BY <1>1, <1>6, <2>2 DEF KeyInv, TxHasOwner, TxOpens, TxIsFresh
  <2>5. CheckStands' /\ EveryValueOpens'
    BY <1>1, <2>1, <2>3 DEF KeyInv, CheckStands, EveryValueOpens, Opened
  <2> QED
    BY <1>1, <1>3, <2>2, <2>3, <2>4, <2>5, FileStays
<1> QED
  BY <1>4, <1>5, <1>6 DEF SetBuildSecret, SealedInside

LEMMA CommitFacts ==
    ASSUME KeyInv, NEW by \in {"start", "rotate"}, Commit(by)
    PROVE  /\ tx' \in Transaction /\ tx'.by = "none" /\ tx.by = by
           /\ stored' = tx.rows /\ stored' \in [SecretRows -> 0..MaxKeys]
           /\ \A r \in SecretRows : Opened(stored'[r])
BY KeyFileAssumption DEF Commit, NoTx, Transaction, Clear, KeyInv, KeyTypeOK, TxOpens

\* The daemon reseals every row before it serves.
LEMMA StartInv ==
    ASSUME KeyInv, StartReseal
    PROVE  KeyInv'
<1>1. UNCHANGED <<keyFile, lockedBy, rotator, made>> /\ daemon = "starting"
  BY DEF StartReseal
<1>2. /\ stored \in [SecretRows -> 0..MaxKeys] /\ keyFile # <<>>
      /\ daemon' \in {"down", "starting", "up"} /\ daemon' # "down"
  BY <1>1 DEF KeyInv, KeyTypeOK, TxHasOwner, StartReseal
<1>3. CASE ResealBegin("start") /\ UNCHANGED <<stored, daemon>>
  <2>1. tx' \in Transaction /\ tx'.by = "start" /\ tx'.rows = stored /\ tx.by = "none"
    BY <1>3, BeginFacts
  <2>2. TxHasOwner'
    BY <1>1, <1>3, <2>1 DEF KeyInv, TxHasOwner
  <2>3. TxOpens' /\ TxIsFresh' /\ CheckStands' /\ EveryValueOpens'
    BY <1>1, <1>3, <2>1
       DEF KeyInv, TxOpens, TxIsFresh, CheckStands, EveryValueOpens, Opened
  <2> QED
    BY <1>1, <1>2, <1>3, <2>1, <2>2, <2>3, FileStays
<1>4. CASE Reseal("start") /\ UNCHANGED <<stored, daemon>>
  <2>1. /\ tx' \in Transaction /\ tx.by = "start" /\ tx'.by = "start"
        /\ \A r \in SecretRows : tx'.rows[r] \in {tx.rows[r], CurrentID}
    BY <1>4, ResealFacts
  <2>2. TxHasOwner'
    BY <1>1, <1>4, <2>1 DEF KeyInv, TxHasOwner
  <2>3. TxOpens'
    BY <1>1, <1>2, <2>1, CurrentOpens DEF KeyInv, TxOpens, Opened
  <2>4. TxIsFresh'
    BY <1>1, <1>4, <2>1 DEF KeyInv, TxIsFresh, RunKnowsFile
  <2>5. CheckStands' /\ EveryValueOpens'
    BY <1>1, <1>4 DEF KeyInv, CheckStands, EveryValueOpens, Opened
  <2> QED
    BY <1>1, <1>2, <1>4, <2>1, <2>2, <2>3, <2>4, <2>5, FileStays
<1>5. CASE Commit("start") /\ daemon' = "up"
  <2>1. /\ tx' \in Transaction /\ tx'.by = "none" /\ tx.by = "start"
        /\ stored' = tx.rows /\ stored' \in [SecretRows -> 0..MaxKeys]
        /\ \A r \in SecretRows : Opened(stored'[r])
    BY <1>5, CommitFacts
  <2>2. TxHasOwner' /\ TxOpens' /\ TxIsFresh'
    BY <1>1, <1>2, <2>1 DEF KeyInv, TxHasOwner, TxOpens, TxIsFresh
  <2>3. CheckStands'
    BY <1>1, <2>1 DEF KeyInv, CheckStands, TxIsFresh
  <2>4. EveryValueOpens'
    BY <1>1, <2>1 DEF EveryValueOpens, Opened
  <2> QED
    BY <1>1, <1>2, <2>1, <2>2, <2>3, <2>4, FileStays
<1> QED
  BY <1>3, <1>4, <1>5 DEF StartReseal

-----------------------------------------------------------------------------
(* init and rotate *)

LEMMA RunMoves ==
    ASSUME KeyInv, NEW p \in Rotators,
           NEW at \in {"locked", "appended", "resealing", "resealed", "checked"},
           rotator' = RotatorAt(p, at)
    PROVE  /\ rotator' \in [Rotators -> Run]
           /\ rotator'[p].at = at /\ rotator'[p].next = rotator[p].next
           /\ \A q \in Rotators : q # p => rotator'[q] = rotator[q]
<1>1. rotator \in [Rotators -> Run]
  BY DEF KeyInv, KeyTypeOK
<1> DEFINE a == [rotator[p] EXCEPT !.at = at]
<1>2. a \in Run /\ a.at = at /\ a.next = rotator[p].next
  BY <1>1 DEF Run
<1>3. rotator' = [rotator EXCEPT ![p] = a]
  BY DEF RotatorAt
<1> HIDE DEF a
<1> QED
  BY <1>1, <1>2, <1>3

\* A run that ends was the only one.
LEMMA RunEnds ==
    ASSUME KeyInv, NEW p \in Rotators, rotator[p].at # "idle",
           rotator' = [rotator EXCEPT ![p] = IdleRun], Unlock(p)
    PROVE  /\ rotator' \in [Rotators -> Run] /\ lockedBy' \in Rotators \cup {NoRotator}
           /\ \A q \in Rotators : rotator'[q].at = "idle"
           /\ RunHoldsLock' /\ RunKnowsFile' /\ TxIsFresh' /\ CheckStands'
<1>1. rotator \in [Rotators -> Run] /\ lockedBy \in Rotators \cup {NoRotator}
  BY DEF KeyInv, KeyTypeOK
<1>2. IdleRun \in Run /\ IdleRun.at = "idle"
  BY KeyFileAssumption DEF IdleRun, Run
<1>3. rotator' \in [Rotators -> Run] /\ \A q \in Rotators : rotator'[q].at = "idle"
  BY <1>1, <1>2, OneRun
<1> QED
  BY <1>1, <1>3 DEF Unlock, RunHoldsLock, RunKnowsFile, TxIsFresh, CheckStands

LEMMA LockInv ==
    ASSUME KeyInv, NEW p \in Rotators, RotateLock(p)
    PROVE  KeyInv'
<1>1. /\ UNCHANGED <<keyFile, stored, tx, daemon, made>>
      /\ lockedBy = NoRotator /\ lockedBy' = p /\ rotator' = RotatorAt(p, "locked")
  BY DEF RotateLock, lockKeyFile
<1>2. \A q \in Rotators : rotator[q].at = "idle"
  BY <1>1, KeyFileAssumption DEF KeyInv, RunHoldsLock, NoRotator
<1>3. /\ rotator' \in [Rotators -> Run] /\ rotator'[p].at = "locked"
      /\ \A q \in Rotators : q # p => rotator'[q].at = "idle"
  BY <1>1, <1>2, RunMoves
<1>4. KeyTypeOK'
  BY <1>1, <1>3 DEF KeyInv, KeyTypeOK
<1>5. /\ RunHoldsLock' /\ RunKnowsFile' /\ TxIsFresh' /\ CheckStands'
  BY <1>1, <1>3 DEF RunHoldsLock, RunKnowsFile, TxIsFresh, CheckStands
<1>6. TxHasOwner'
  BY <1>1, <1>2, <1>3 DEF KeyInv, TxHasOwner
<1>7. TxOpens' /\ EveryValueOpens'
  BY <1>1 DEF KeyInv, TxOpens, EveryValueOpens, Opened
<1> QED
  BY <1>4, <1>5, <1>6, <1>7 DEF KeyInv

\* The first key: nothing was sealed before there was a file.
LEMMA InitSecretsInv ==
    ASSUME KeyInv, NEW p \in Rotators, initSecrets(p)
    PROVE  KeyInv'
<1>1. /\ UNCHANGED <<stored, tx, daemon>> /\ rotator[p].at = "locked" /\ keyFile = <<>>
      /\ made < MaxKeys /\ keyFile' = <<made + 1>> /\ made' = made + 1
      /\ rotator' = [rotator EXCEPT ![p] = IdleRun] /\ Unlock(p)
  BY DEF initSecrets
<1>2. /\ rotator' \in [Rotators -> Run] /\ lockedBy' \in Rotators \cup {NoRotator}
      /\ \A q \in Rotators : rotator'[q].at = "idle"
      /\ RunHoldsLock' /\ RunKnowsFile' /\ TxIsFresh' /\ CheckStands'
  BY <1>1, RunEnds
<1>3. made + 1 \in 1..MaxKeys /\ made' \in 0..MaxKeys /\ made + 1 \in 1..made'
  BY <1>1, KeyFileAssumption DEF KeyInv, KeyTypeOK
<1>4. /\ keyFile' \in Seq(1..MaxKeys) /\ KeysIn(keyFile') = {made + 1}
      /\ Len(keyFile') = 1 /\ keyFile' # <<>>
  BY <1>1, <1>3, KeysOfOne
<1>5. KeyTypeOK'
  <2>1. KeysIn(keyFile)' \subseteq (1..made)'
    BY <1>3, <1>4 DEF KeysIn
  <2>2. \A i, j \in 1..Len(keyFile') : keyFile'[i] = keyFile'[j] => i = j
    BY <1>4
  <2> QED
    BY <1>1, <1>2, <1>3, <1>4, <2>1, <2>2 DEF KeyInv, KeyTypeOK
<1>6. TxHasOwner'
  <2>1. \A q \in Rotators : rotator[q].at # "resealing"
    BY <1>1, OneRun
  <2> QED
    BY <1>1, <1>2, <1>4, <2>1 DEF KeyInv, TxHasOwner
<1>7. \A v \in Nat : Opened(v) => Opened(v)'
  BY <1>1, KeysOfEmpty DEF Opened
<1>8. TxOpens' /\ EveryValueOpens'
  <2>1. tx \in Transaction /\ stored \in [SecretRows -> 0..MaxKeys] /\ 0..MaxKeys \subseteq Nat
    BY DEF KeyInv, KeyTypeOK
  <2>2. tx.sealed \in Nat /\ \A row \in SecretRows : tx.rows[row] \in Nat /\ stored[row] \in Nat
    BY <2>1 DEF Transaction
  <2> QED
    BY <1>1, <1>7, <2>2 DEF KeyInv, TxOpens, EveryValueOpens
<1> QED
  BY <1>2, <1>5, <1>6, <1>8 DEF KeyInv

\* A new key: no value is under it yet.
LEMMA ReadInv ==
    ASSUME KeyInv, NEW p \in Rotators, RotateRead(p)
    PROVE  KeyInv'
<1> DEFINE run == [at |-> "read", old |-> keyFile, next |-> made + 1]
<1>1. /\ UNCHANGED <<keyFile, lockedBy, stored, tx, daemon>> /\ rotator[p].at = "locked"
      /\ keyFile # <<>> /\ made < MaxKeys /\ made' = made + 1
      /\ rotator' = [rotator EXCEPT ![p] = run]
  BY DEF RotateRead
<1>2. /\ made \in 0..MaxKeys /\ keyFile \in Seq(1..MaxKeys) /\ KeysIn(keyFile) \subseteq 1..made
      /\ rotator \in [Rotators -> Run]
  BY DEF KeyInv, KeyTypeOK
<1>3. /\ made + 1 \in 0..MaxKeys /\ made + 1 \notin KeysIn(keyFile)
      /\ made' \in 0..MaxKeys /\ 1..made \subseteq 1..made' /\ made + 1 \in 1..made'
  BY <1>1, <1>2, KeyFileAssumption
<1>4. run \in Run /\ run.at = "read" /\ run.old = keyFile /\ run.next = made + 1
  BY <1>2, <1>3 DEF Run
<1> HIDE DEF run
<1>5. \A q \in Rotators : q # p => rotator[q].at = "idle"
  BY <1>1, OneRun
<1>6. /\ rotator' \in [Rotators -> Run] /\ rotator'[p] = run
      /\ \A q \in Rotators : q # p => rotator'[q].at = "idle"
  BY <1>1, <1>2, <1>4, <1>5
<1>7. KeyTypeOK'
  BY <1>1, <1>2, <1>3, <1>6 DEF KeyInv, KeyTypeOK, KeysIn
<1>8. RunHoldsLock'
  BY <1>1, <1>6 DEF KeyInv, RunHoldsLock
<1>9. RunKnowsFile'
  BY <1>1, <1>3, <1>4, <1>6 DEF RunKnowsFile
<1>10. TxHasOwner'
  BY <1>1, <1>4, <1>5, <1>6 DEF KeyInv, TxHasOwner
<1>11. TxIsFresh' /\ CheckStands'
  BY <1>4, <1>6 DEF TxIsFresh, CheckStands
<1>12. TxOpens' /\ EveryValueOpens'
  BY <1>1 DEF KeyInv, TxOpens, EveryValueOpens, Opened
<1> QED
  BY <1>7, <1>8, <1>9, <1>10, <1>11, <1>12 DEF KeyInv

\* Old and new keys together: nothing that opened stops opening.
LEMMA AppendInv ==
    ASSUME KeyInv, NEW p \in Rotators, RotateAppend(p)
    PROVE  KeyInv'
<1>1. /\ UNCHANGED <<lockedBy, stored, tx, daemon, made>> /\ rotator[p].at = "read"
      /\ keyFile' = Append(rotator[p].old, rotator[p].next)
      /\ rotator' = RotatorAt(p, "appended")
  BY DEF RotateAppend
<1> DEFINE k == rotator[p].next
<1>2. /\ keyFile # <<>> /\ rotator[p].old = keyFile /\ k \in 1..made /\ k \notin KeysIn(keyFile)
  BY <1>1 DEF KeyInv, RunKnowsFile
<1>3. /\ made \in 0..MaxKeys /\ keyFile \in Seq(1..MaxKeys) /\ KeysIn(keyFile) \subseteq 1..made
      /\ \A i, j \in 1..Len(keyFile) : keyFile[i] = keyFile[j] => i = j
  BY DEF KeyInv, KeyTypeOK
<1>4. /\ rotator' \in [Rotators -> Run] /\ rotator'[p].at = "appended" /\ rotator'[p].next = k
      /\ \A q \in Rotators : q # p => rotator'[q] = rotator[q]
  BY <1>1, RunMoves
<1>5. \A q \in Rotators : q # p => rotator[q].at = "idle"
  BY <1>1, OneRun
<1> HIDE DEF k
<1>6. k \in 1..MaxKeys
  BY <1>2, <1>3, KeyFileAssumption
<1>7. keyFile' = Append(keyFile, k)
  BY <1>1, <1>2 DEF k
<1>8. /\ KeysIn(keyFile') = KeysIn(keyFile) \cup {k} /\ keyFile' \in Seq(1..MaxKeys)
      /\ keyFile' # <<>> /\ keyFile'[Len(keyFile')] = k
  <2> DEFINE S == 1..MaxKeys
  <2>1. keyFile \in Seq(S) /\ k \in S
    BY <1>3, <1>6
  <2> HIDE DEF S
  <2>2. /\ KeysIn(Append(keyFile, k)) = KeysIn(keyFile) \cup {k}
        /\ Append(keyFile, k) \in Seq(S) /\ Append(keyFile, k) # <<>>
        /\ Append(keyFile, k)[Len(Append(keyFile, k))] = k
    BY <2>1, KeysOfAppend
  <2> QED
    BY <1>7, <2>2 DEF S
<1>9. \A i, j \in 1..Len(keyFile') : keyFile'[i] = keyFile'[j] => i = j
  <2>1. /\ Len(keyFile') = Len(keyFile) + 1 /\ Len(keyFile) \in Nat
        /\ \A i \in 1..Len(keyFile) : keyFile'[i] = keyFile[i] /\ keyFile[i] # k
    BY <1>2, <1>3, <1>6, <1>7 DEF KeysIn
  <2>2. SUFFICES ASSUME NEW i \in 1..Len(keyFile'), NEW j \in 1..Len(keyFile'),
                        keyFile'[i] = keyFile'[j]
                 PROVE  i = j
    OBVIOUS
  <2>3. CASE i \in 1..Len(keyFile) /\ j \in 1..Len(keyFile)
    BY <1>3, <2>1, <2>2, <2>3
  <2>4. CASE i = Len(keyFile) + 1 \/ j = Len(keyFile) + 1
    BY <1>8, <2>1, <2>2, <2>4
  <2> QED
    BY <2>1, <2>3, <2>4
<1>10. KeyTypeOK'
  BY <1>1, <1>2, <1>3, <1>4, <1>8, <1>9 DEF KeyInv, KeyTypeOK, KeysIn
<1>11. RunHoldsLock'
  BY <1>1, <1>4, <1>5 DEF KeyInv, RunHoldsLock
<1>12. RunKnowsFile'
  <2>1. \A q \in Rotators : rotator'[q].at # "read" /\ (rotator'[q].at # "idle" => q = p)
    BY <1>4, <1>5
  <2> QED
    BY <1>4, <1>8, <2>1 DEF RunKnowsFile, CurrentID
<1>13. TxHasOwner'
  BY <1>1, <1>4, <1>5, <1>8 DEF KeyInv, TxHasOwner
<1>14. TxIsFresh' /\ CheckStands'
  BY <1>4, <1>5 DEF TxIsFresh, CheckStands
<1>15. TxOpens' /\ EveryValueOpens'
  <2>1. \A v \in KeysIn(keyFile) : v \in KeysIn(keyFile)'
    BY <1>8 DEF KeysIn
  <2> QED
    BY <1>1, <2>1 DEF KeyInv, TxOpens, EveryValueOpens, Opened
<1> QED
  BY <1>10, <1>11, <1>12, <1>13, <1>14, <1>15 DEF KeyInv

\* A run's reseal steps leave the file as it is.
LEMMA RunWorks ==
    ASSUME KeyInv, NEW p \in Rotators, UNCHANGED <<keyFile, lockedBy, daemon, made>>,
           rotator[p].at \in {"appended", "resealing", "resealed"},
           NEW at \in {"resealing", "resealed", "checked"}, rotator' = RotatorAt(p, at)
    PROVE  /\ rotator' \in [Rotators -> Run] /\ RunHoldsLock' /\ RunKnowsFile'
           /\ rotator'[p].at = at /\ rotator'[p].next = CurrentID
           /\ \A q \in Rotators : q # p => rotator'[q].at = "idle" /\ rotator[q].at = "idle"
<1>1. /\ rotator' \in [Rotators -> Run] /\ rotator'[p].at = at
      /\ rotator'[p].next = rotator[p].next
      /\ \A q \in Rotators : q # p => rotator'[q] = rotator[q]
  BY RunMoves
<1>2. \A q \in Rotators : q # p => rotator'[q].at = "idle" /\ rotator[q].at = "idle"
  BY <1>1, OneRun
<1>3. keyFile # <<>> /\ rotator[p].next = CurrentID /\ lockedBy = p
  BY DEF KeyInv, RunKnowsFile, RunHoldsLock
<1>4. RunHoldsLock'
  BY <1>2, <1>3 DEF RunHoldsLock
<1>5. RunKnowsFile'
  <2>1. \A q \in Rotators : rotator'[q].at # "read" /\ (rotator'[q].at # "idle" => q = p)
    BY <1>1, <1>2
  <2> QED
    BY <1>1, <1>3, <2>1 DEF RunKnowsFile, CurrentID
<1> QED
  BY <1>1, <1>2, <1>3, <1>4, <1>5

LEMMA RotateResealInv ==
    ASSUME KeyInv, NEW p \in Rotators, RotateReseal(p)
    PROVE  KeyInv'
<1>1. UNCHANGED <<keyFile, lockedBy, daemon, made>>
  BY DEF RotateReseal
<1>2. stored \in [SecretRows -> 0..MaxKeys] /\ daemon \in {"down", "starting", "up"}
  BY DEF KeyInv, KeyTypeOK
<1>3. CASE /\ rotator[p].at = "appended" /\ ResealBegin("rotate")
           /\ rotator' = RotatorAt(p, "resealing") /\ UNCHANGED stored
  <2>1. /\ tx' \in Transaction /\ tx'.by = "rotate" /\ tx'.rows = stored /\ tx.by = "none"
    BY <1>3, BeginFacts
  <2>2. /\ rotator' \in [Rotators -> Run] /\ RunHoldsLock' /\ RunKnowsFile'
        /\ rotator'[p].at = "resealing"
        /\ \A q \in Rotators : q # p => rotator'[q].at = "idle" /\ rotator[q].at = "idle"
    BY <1>1, <1>3, RunWorks
  <2>3. KeyTypeOK'
    BY <1>1, <1>3, <2>1, <2>2 DEF KeyInv, KeyTypeOK
  <2>4. TxHasOwner'
    BY <1>1, <2>1, <2>2 DEF KeyInv, TxHasOwner
  <2>5. TxIsFresh' /\ CheckStands'
    BY <2>2 DEF TxIsFresh, CheckStands
  <2>6. TxOpens' /\ EveryValueOpens'
    BY <1>1, <1>3, <2>1 DEF KeyInv, TxOpens, EveryValueOpens, Opened
  <2> QED
    BY <2>2, <2>3, <2>4, <2>5, <2>6 DEF KeyInv
<1>4. CASE rotator[p].at = "resealing" /\ Reseal("rotate") /\ UNCHANGED <<stored, rotator>>
  <2>1. /\ tx' \in Transaction /\ tx.by = "rotate" /\ tx'.by = "rotate" /\ keyFile # <<>>
        /\ \A r \in SecretRows : tx'.rows[r] \in {tx.rows[r], CurrentID}
    BY <1>4, ResealFacts
  <2>2. TxHasOwner'
    BY <1>1, <1>4, <2>1 DEF KeyInv, TxHasOwner
  <2>3. TxOpens'
    BY <1>1, <2>1, CurrentOpens DEF KeyInv, TxOpens, Opened
  <2>4. TxIsFresh' /\ CheckStands' /\ EveryValueOpens'
    BY <1>1, <1>4, <2>1 DEF KeyInv, TxIsFresh, CheckStands, EveryValueOpens, Opened
  <2> QED
    BY <1>1, <1>2, <1>4, <2>1, <2>2, <2>3, <2>4, FileStays
<1>5. CASE /\ rotator[p].at = "resealing" /\ Commit("rotate")
           /\ rotator' = RotatorAt(p, "resealed")
  <2>1. /\ tx' \in Transaction /\ tx'.by = "none"
        /\ stored' \in [SecretRows -> 0..MaxKeys] /\ \A r \in SecretRows : Opened(stored'[r])
    BY <1>5, CommitFacts
  <2>2. /\ rotator' \in [Rotators -> Run] /\ RunHoldsLock' /\ RunKnowsFile'
        /\ rotator'[p].at = "resealed"
        /\ \A q \in Rotators : q # p => rotator'[q].at = "idle" /\ rotator[q].at = "idle"
    BY <1>1, <1>5, RunWorks
  <2>3. KeyTypeOK'
    BY <1>1, <2>1, <2>2 DEF KeyInv, KeyTypeOK
  <2>4. TxHasOwner'
    BY <1>1, <2>1, <2>2 DEF KeyInv, TxHasOwner
  <2>5. TxOpens' /\ TxIsFresh'
    BY <2>1 DEF TxOpens, TxIsFresh
  <2>6. CheckStands'
    BY <2>2 DEF CheckStands
  <2>7. EveryValueOpens'
    BY <1>1, <2>1 DEF EveryValueOpens, Opened
  <2> QED
    BY <2>2, <2>3, <2>4, <2>5, <2>6, <2>7 DEF KeyInv
<1> QED
  BY <1>3, <1>4, <1>5 DEF RotateReseal

LEMMA SecretKeyUseInv ==
    ASSUME KeyInv, NEW p \in Rotators, SecretKeyUse(p)
    PROVE  KeyInv'
<1>1. /\ UNCHANGED <<keyFile, stored, tx, daemon, made>> /\ rotator[p].at = "resealed"
  BY DEF SecretKeyUse
<1>2. \A q \in Rotators : rotator[q].at # "resealing"
  BY <1>1, OneRun
<1>3. TxOpens' /\ EveryValueOpens'
  BY <1>1 DEF KeyInv, TxOpens, EveryValueOpens, Opened
<1>4. CASE /\ \A row \in SecretRows : stored[row] = rotator[p].next
           /\ rotator' = RotatorAt(p, "checked") /\ UNCHANGED lockedBy
  <2>1. /\ rotator' \in [Rotators -> Run] /\ RunHoldsLock' /\ RunKnowsFile'
        /\ rotator'[p].at = "checked" /\ rotator'[p].next = CurrentID
        /\ \A q \in Rotators : q # p => rotator'[q].at = "idle" /\ rotator[q].at = "idle"
    BY <1>1, <1>4, RunWorks
  <2>2. rotator[p].next = CurrentID
    BY <1>1 DEF KeyInv, RunKnowsFile
  <2>3. KeyTypeOK'
    BY <1>1, <1>4, <2>1 DEF KeyInv, KeyTypeOK
  <2>4. TxHasOwner'
    BY <1>1, <1>2, <2>1 DEF KeyInv, TxHasOwner
  <2>5. TxIsFresh'
    BY <1>1, <2>1, <2>2 DEF KeyInv, TxIsFresh
  <2>6. CheckStands'
    BY <1>1, <1>4, <2>1, <2>2 DEF CheckStands
  <2> QED
    BY <1>3, <2>1, <2>3, <2>4, <2>5, <2>6 DEF KeyInv
<1>5. CASE rotator' = [rotator EXCEPT ![p] = IdleRun] /\ Unlock(p)
  <2>1. /\ rotator' \in [Rotators -> Run] /\ lockedBy' \in Rotators \cup {NoRotator}
        /\ \A q \in Rotators : rotator'[q].at = "idle"
        /\ RunHoldsLock' /\ RunKnowsFile' /\ TxIsFresh' /\ CheckStands'
    BY <1>1, <1>5, RunEnds
  <2>2. KeyTypeOK'
    BY <1>1, <2>1 DEF KeyInv, KeyTypeOK
  <2>3. TxHasOwner'
    BY <1>1, <1>2, <2>1 DEF KeyInv, TxHasOwner
  <2> QED
    BY <1>3, <2>1, <2>2, <2>3 DEF KeyInv
<1> QED
  BY <1>4, <1>5 DEF SecretKeyUse

\* The old keys go: every row is under the new one, and so is what any
\* transaction under way will store.
LEMMA DropInv ==
    ASSUME KeyInv, NEW p \in Rotators, rotateSecrets(p)
    PROVE  KeyInv'
<1> DEFINE k == rotator[p].next
<1>1. /\ UNCHANGED <<stored, tx, daemon, made>> /\ rotator[p].at = "checked"
      /\ keyFile' = <<k>> /\ rotator' = [rotator EXCEPT ![p] = IdleRun] /\ Unlock(p)
  BY DEF rotateSecrets
<1>2. /\ rotator' \in [Rotators -> Run] /\ lockedBy' \in Rotators \cup {NoRotator}
      /\ \A q \in Rotators : rotator'[q].at = "idle"
      /\ RunHoldsLock' /\ RunKnowsFile' /\ TxIsFresh' /\ CheckStands'
  BY <1>1, RunEnds
<1>3. \A q \in Rotators : rotator[q].at # "resealing"
  BY <1>1, OneRun
<1>4. k \in 1..MaxKeys /\ k \in 1..made
  <2>1. keyFile # <<>> /\ k = CurrentID
    BY <1>1 DEF KeyInv, RunKnowsFile
  <2> QED
    BY <2>1, CurrentOpens DEF KeyInv, KeyTypeOK
<1>5. /\ \A row \in SecretRows : stored[row] = k
      /\ tx.by = "writer" => tx.sealed \in {0, k}
      /\ tx.by = "start" => \A row \in SecretRows : tx.rows[row] = k
      /\ tx.by # "rotate"
  BY <1>1, <1>3 DEF KeyInv, CheckStands, TxIsFresh, TxHasOwner
<1> HIDE DEF k
<1>6. /\ keyFile' \in Seq(1..MaxKeys) /\ KeysIn(keyFile') = {k}
      /\ Len(keyFile') = 1 /\ keyFile' # <<>>
  BY <1>1, <1>4, KeysOfOne
<1>7. KeyTypeOK'
  <2>1. KeysIn(keyFile)' \subseteq (1..made)'
    BY <1>1, <1>4, <1>6 DEF KeysIn
  <2>2. \A i, j \in 1..Len(keyFile') : keyFile'[i] = keyFile'[j] => i = j
    BY <1>6
  <2> QED
    BY <1>1, <1>2, <1>6, <2>1, <2>2 DEF KeyInv, KeyTypeOK
<1>8. TxHasOwner'
  BY <1>1, <1>2, <1>5, <1>6 DEF KeyInv, TxHasOwner
<1>9. k \in KeysIn(keyFile)'
  BY <1>6 DEF KeysIn
<1>10. TxOpens' /\ EveryValueOpens'
  BY <1>1, <1>5, <1>9 DEF TxOpens, EveryValueOpens, Opened, Clear
<1> QED
  BY <1>2, <1>7, <1>8, <1>10 DEF KeyInv

-----------------------------------------------------------------------------
(* The daemon comes and goes; any process may be stopped *)

LEMMA OpenStoreInv ==
    ASSUME KeyInv, openStore
    PROVE  KeyInv'
<1>1. /\ UNCHANGED <<keyFile, lockedBy, rotator, stored, tx, made>>
      /\ daemon = "down" /\ daemon' = "starting" /\ keyFile # <<>>
  BY DEF openStore
<1>2. /\ tx \in Transaction /\ stored \in [SecretRows -> 0..MaxKeys]
  BY DEF KeyInv, KeyTypeOK
<1>3. TxHasOwner'
  BY <1>1 DEF KeyInv, TxHasOwner
<1>4. TxOpens' /\ TxIsFresh' /\ CheckStands' /\ EveryValueOpens'
  BY <1>1 DEF KeyInv, TxOpens, TxIsFresh, CheckStands, EveryValueOpens, Opened
<1> QED
  BY <1>1, <1>2, <1>3, <1>4, FileStays

LEMMA NoTxFacts == NoTx \in Transaction /\ NoTx.by = "none"
BY KeyFileAssumption DEF NoTx, Transaction, Clear

LEMMA DaemonStopsInv ==
    ASSUME KeyInv, DaemonStops
    PROVE  KeyInv'
<1>1. /\ UNCHANGED <<keyFile, lockedBy, rotator, stored, made>> /\ daemon' = "down"
      /\ tx' = IF tx.by \in {"writer", "start"} THEN NoTx ELSE tx
  BY DEF DaemonStops
<1>2. tx \in Transaction /\ stored \in [SecretRows -> 0..MaxKeys]
  BY DEF KeyInv, KeyTypeOK
<1>3. /\ tx' \in Transaction /\ tx'.by \in {"none", "rotate"}
      /\ tx'.by = "rotate" <=> tx.by = "rotate"
      /\ tx'.by = "rotate" => tx' = tx
  BY <1>1, <1>2, NoTxFacts DEF Transaction
<1>4. TxHasOwner'
  BY <1>1, <1>3 DEF KeyInv, TxHasOwner
<1>5. TxOpens' /\ TxIsFresh'
  BY <1>1, <1>3 DEF KeyInv, TxOpens, TxIsFresh, Opened
<1>6. CheckStands' /\ EveryValueOpens'
  BY <1>1 DEF KeyInv, CheckStands, EveryValueOpens, Opened
<1> QED
  BY <1>1, <1>2, <1>3, <1>4, <1>5, <1>6, FileStays

LEMMA StoppedInv ==
    ASSUME KeyInv, NEW p \in Rotators, Stopped(p)
    PROVE  KeyInv'
<1>1. /\ UNCHANGED <<keyFile, stored, daemon, made>> /\ rotator[p].at # "idle"
      /\ tx' = IF tx.by = "rotate" /\ rotator[p].at = "resealing" THEN NoTx ELSE tx
      /\ rotator' = [rotator EXCEPT ![p] = IdleRun] /\ Unlock(p)
  BY DEF Stopped
<1>2. /\ rotator' \in [Rotators -> Run] /\ lockedBy' \in Rotators \cup {NoRotator}
      /\ \A q \in Rotators : rotator'[q].at = "idle"
      /\ RunHoldsLock' /\ RunKnowsFile' /\ TxIsFresh' /\ CheckStands'
  BY <1>1, RunEnds
<1>3. tx.by = "rotate" => rotator[p].at = "resealing"
  BY <1>1, OneRun DEF KeyInv, TxHasOwner
<1>4. tx \in Transaction
  BY DEF KeyInv, KeyTypeOK
<1>5. /\ tx' \in Transaction /\ tx'.by # "rotate"
      /\ tx'.by \in {"writer", "start"} => tx' = tx
  BY <1>1, <1>3, <1>4, NoTxFacts DEF Transaction
<1>6. KeyTypeOK'
  BY <1>1, <1>2, <1>5 DEF KeyInv, KeyTypeOK
<1>7. TxHasOwner'
  BY <1>1, <1>2, <1>5 DEF KeyInv, TxHasOwner
<1>8. TxOpens' /\ EveryValueOpens'
  BY <1>1, <1>5 DEF KeyInv, TxOpens, EveryValueOpens, Opened
<1> QED
  BY <1>2, <1>6, <1>7, <1>8 DEF KeyInv

-----------------------------------------------------------------------------
(* The theorems *)

LEMMA KeyStep == KeyInv /\ [KeyNext]_keyVars => KeyInv'
<1> SUFFICES ASSUME KeyInv, [KeyNext]_keyVars PROVE KeyInv'
  OBVIOUS
<1>1. ASSUME NEW r \in SecretRows, SetBuildSecret(r) PROVE KeyInv'
  BY <1>1, WriterInv
<1>2. CASE openStore
  BY <1>2, OpenStoreInv
<1>3. CASE StartReseal
  BY <1>3, StartInv
<1>4. CASE DaemonStops
  BY <1>4, DaemonStopsInv
<1>5. ASSUME NEW p \in Rotators,
             \/ RotateLock(p) \/ initSecrets(p) \/ RotateRead(p) \/ RotateAppend(p)
             \/ RotateReseal(p) \/ SecretKeyUse(p) \/ rotateSecrets(p) \/ Stopped(p)
      PROVE  KeyInv'
  BY <1>5, LockInv, InitSecretsInv, ReadInv, AppendInv, RotateResealInv,
     SecretKeyUseInv, DropInv, StoppedInv
<1>6. CASE UNCHANGED keyVars
  <2>1. UNCHANGED <<keyFile, lockedBy, rotator, stored, tx, daemon, made>>
    BY <1>6 DEF keyVars
  <2>2. tx \in Transaction /\ stored \in [SecretRows -> 0..MaxKeys]
        /\ daemon \in {"down", "starting", "up"}
    BY DEF KeyInv, KeyTypeOK
  <2>3. /\ TxHasOwner' /\ TxOpens' /\ TxIsFresh' /\ CheckStands' /\ EveryValueOpens'
    BY <2>1 DEF KeyInv, TxHasOwner, TxOpens, TxIsFresh, CheckStands, EveryValueOpens, Opened
  <2> QED
    BY <2>1, <2>2, <2>3, FileStays
<1> QED
  BY <1>1, <1>2, <1>3, <1>4, <1>5, <1>6 DEF KeyNext

LEMMA KeyInvariance == KeySpec => []KeyInv
<1> QED
  BY InitKeys, KeyStep, PTL DEF KeySpec

\* Key ids, the runs of the command, the stored values and the transaction
\* under way are what seal.go and secrets.go say they are, and no key is in
\* the file twice.
THEOREM KeyTypeCorrect == KeySpec => []KeyTypeOK
<1>1. KeyInv => KeyTypeOK
  BY DEF KeyInv
<1> QED
  BY <1>1, KeyInvariance, PTL

\* rotateSecrets, initSecrets, the daemon's writes and its reseal at start, in
\* any order and stopped anywhere, leave a file that opens every stored value.
THEOREM SecretsAlwaysOpen == KeySpec => []EveryValueOpens
<1>1. KeyInv => EveryValueOpens
  BY DEF KeyInv
<1> QED
  BY <1>1, KeyInvariance, PTL
=============================================================================
