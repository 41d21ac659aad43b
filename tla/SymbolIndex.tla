---------------------------- MODULE SymbolIndex ----------------------------
(***************************************************************************)
(* The symbol index of one repository: the request row, the worker that    *)
(* builds an index of the default branch's tree in chunks, and its         *)
(* publication (internal/symbols/worker.go, store/symbols.go).             *)
(*                                                                         *)
(* Version n of the refs stands for the tree that the nth ref update left  *)
(* on the default branch; version 0 has no default branch. An index row    *)
(* has the chunks written so far. The time a failure counts as recent and  *)
(* the time a request is deferred are the same Backoff: both are over when *)
(* BackoffPasses.                                                          *)
(***************************************************************************)
EXTENDS Integers, Sequences, FiniteSets

CONSTANTS
    Chunks,        \* chunks of symbols in a tree
    MaxRefs,       \* bound: ref updates
    MaxReindexes,  \* bound: rebuilds an administrator asks for
    MaxRestarts    \* bound: server restarts

ASSUME SymbolAssumption ==
    /\ Chunks \in Nat \ {0} /\ MaxRefs \in Nat
    /\ MaxReindexes \in Nat /\ MaxRestarts \in Nat

VARIABLES
    refs,       \* the version of the refs
    unasked,    \* versions whose request for an index is still to come
    request,    \* the row of symbol_requests, or NoRequest
    indexes,    \* rows of symbol_indexes: id -> row
    failure,    \* symbol_failures: the tree that failed, or 0
    recent,     \* that failure is within Backoff
    indexer,    \* the worker
    silent,     \* history: versions nobody asks an index for
    reindexes, restarts   \* counters for the bounds

symbolVars == <<refs, unasked, request, indexes, failure, recent, indexer,
                silent, reindexes, restarts>>

-----------------------------------------------------------------------------
(* The shape of the state *)

Versions == 1..MaxRefs
IndexIds == 1..3
IndexRequest == [seq: Nat, force: BOOLEAN, attempts: Nat, waiting: BOOLEAN]
NoRequest == [seq |-> 0, force |-> FALSE, attempts |-> 0, waiting |-> FALSE]
IndexRow == [tree: Versions, chunks: 0..Chunks,
             state: {"building", "ok", "partial", "retired"}]

\* at: the step of Index; req: the request as it was read; tree: the tree it
\* resolved; have: the chunks collect returned; outcome: how collect ended.
Indexer == [at: {"idle", "purge", "resolve", "collect", "begin", "add",
                 "publish", "purgeRetired", "done", "failed"},
            req: IndexRequest, tree: 0..MaxRefs, id: 0..3, have: 0..Chunks,
            outcome: {"", "ok", "partial"}]
IdleIndexer == [at |-> "idle", req |-> NoRequest, tree |-> 0, id |-> 0,
                have |-> 0, outcome |-> ""]

SymbolTypeOK ==
    /\ refs \in 0..MaxRefs
    /\ unasked \subseteq Versions
    /\ request \in IndexRequest
    /\ DOMAIN indexes \subseteq IndexIds
    /\ \A i \in DOMAIN indexes : indexes[i] \in IndexRow
    /\ failure \in 0..MaxRefs
    /\ recent \in BOOLEAN
    /\ indexer \in Indexer
    /\ silent \subseteq Versions
    /\ reindexes \in 0..MaxReindexes
    /\ restarts \in 0..MaxRestarts

SymbolInit ==
    /\ refs = 0
    /\ unasked = {}
    /\ request = NoRequest
    /\ indexes = [i \in {} |-> {}]
    /\ failure = 0
    /\ recent = FALSE
    /\ indexer = IdleIndexer
    /\ silent = {}
    /\ reindexes = 0
    /\ restarts = 0

-----------------------------------------------------------------------------
(* Requests *)

\* A plausible mistake: the row already waiting is left as it is.
RequestedIgnore(r, force) ==
    IF r = NoRequest
    THEN [seq |-> 1, force |-> force, attempts |-> 0, waiting |-> FALSE]
    ELSE r

\* RequestSymbolIndex: an upsert. A waiting row is bumped and due at once.
Requested(r, force) ==
    IF r = NoRequest
    THEN [seq |-> 1, force |-> force, attempts |-> 0, waiting |-> FALSE]
    ELSE [seq |-> r.seq + 1, force |-> r.force \/ force,
          attempts |-> 0, waiting |-> FALSE]

\* A push or a merge moves the refs; it has yet to ask for the index.
MoveRefs ==
    /\ refs < MaxRefs
    /\ refs' = refs + 1
    /\ unasked' = unasked \cup {refs + 1}
    /\ UNCHANGED <<request, indexes, failure, recent, indexer, silent,
                   reindexes, restarts>>

\* repo commit-file moves the default branch and asks for no index.
CommitFile ==
    /\ refs < MaxRefs
    /\ refs' = refs + 1
    /\ silent' = silent \cup {refs + 1}
    /\ UNCHANGED <<unasked, request, indexes, failure, recent, indexer,
                   reindexes, restarts>>

AskForIndex(v) ==
    /\ v \in unasked
    /\ unasked' = unasked \ {v}
    /\ request' = Requested(request, FALSE)
    /\ UNCHANGED <<refs, indexes, failure, recent, indexer, silent,
                   reindexes, restarts>>

\* admin symbols reindex.
Reindex ==
    /\ reindexes < MaxReindexes
    /\ reindexes' = reindexes + 1
    /\ request' = Requested(request, TRUE)
    /\ UNCHANGED <<refs, unasked, indexes, failure, recent, indexer, silent,
                   restarts>>

-----------------------------------------------------------------------------
(* The worker *)

CurrentIndexes == {i \in DOMAIN indexes : indexes[i].state \in {"ok", "partial"}}
IndexedTree(t) == \E i \in CurrentIndexes : indexes[i].tree = t

\* SymbolRequests: the request, if it is due.
SweepRequests ==
    /\ indexer.at = "idle"
    /\ request # NoRequest
    /\ ~request.waiting
    /\ indexer' = [IdleIndexer EXCEPT !.at = "purge", !.req = request]
    /\ UNCHANGED <<refs, unasked, request, indexes, failure, recent, silent,
                   reindexes, restarts>>

\* PurgeSymbolIndexes deletes every index that is not current.
Purged(ix) ==
    [i \in {k \in DOMAIN ix : ix[k].state \in {"ok", "partial"}} |-> ix[i]]

Purge ==
    /\ indexer.at \in {"purge", "purgeRetired"}
    /\ indexes' = Purged(indexes)
    /\ indexer' = [indexer EXCEPT !.at =
                     IF @ = "purge" THEN "resolve" ELSE "done"]
    /\ UNCHANGED <<refs, unasked, request, failure, recent, silent,
                   reindexes, restarts>>

\* The tree at the head now; it is left alone if it is indexed or failed
\* lately, unless the rebuild is forced.
Resolve ==
    /\ indexer.at = "resolve"
    /\ LET skip == \/ refs = 0
                   \/ /\ ~indexer.req.force
                      /\ IndexedTree(refs) \/ (failure = refs /\ recent)
       IN  indexer' = [indexer EXCEPT !.tree = refs,
                         !.at = IF skip THEN "done" ELSE "collect"]
    /\ UNCHANGED <<refs, unasked, request, indexes, failure, recent, silent,
                   reindexes, restarts>>

\* collect: everything, what fits the bounds, or an error, which is recorded
\* and leaves the current index in place.
Collect ==
    /\ indexer.at = "collect"
    /\ \/ /\ \/ indexer' = [indexer EXCEPT !.at = "begin", !.have = Chunks,
                                           !.outcome = "ok"]
             \/ \E n \in 0..(Chunks - 1) :
                  indexer' = [indexer EXCEPT !.at = "begin", !.have = n,
                                             !.outcome = "partial"]
          /\ UNCHANGED <<failure, recent>>
       \/ /\ indexer' = [indexer EXCEPT !.at = "failed"]
          /\ failure' = indexer.tree
          /\ recent' = TRUE
    /\ UNCHANGED <<refs, unasked, request, indexes, silent, reindexes,
                   restarts>>

Begin ==
    /\ indexer.at = "begin"
    /\ \E i \in IndexIds \ DOMAIN indexes :
         /\ indexes' = [k \in DOMAIN indexes \cup {i} |->
                          IF k = i THEN [tree |-> indexer.tree, chunks |-> 0,
                                         state |-> "building"]
                          ELSE indexes[k]]
         /\ indexer' = [indexer EXCEPT !.at = "add", !.id = i]
    /\ UNCHANGED <<refs, unasked, request, failure, recent, silent,
                   reindexes, restarts>>

\* A chunk in each transaction.
AddSymbols ==
    /\ indexer.at = "add"
    /\ IF indexes[indexer.id].chunks < indexer.have
       THEN /\ indexes' = [indexes EXCEPT ![indexer.id].chunks = @ + 1]
            /\ indexer' = indexer
       ELSE /\ indexer' = [indexer EXCEPT !.at = "publish"]
            /\ indexes' = indexes
    /\ UNCHANGED <<refs, unasked, request, failure, recent, silent,
                   reindexes, restarts>>

\* A plausible mistake: the index that is replaced stays current.
PublishedBeside(ix, new, outcome) ==
    [ix EXCEPT ![new].state = outcome]

\* The current index is retired and the new one takes its place.
Published(ix, new, outcome) ==
    [i \in DOMAIN ix |->
        IF i = new THEN [ix[i] EXCEPT !.state = outcome]
        ELSE IF ix[i].state \in {"ok", "partial"}
             THEN [ix[i] EXCEPT !.state = "retired"]
             ELSE ix[i]]

Publish ==
    /\ indexer.at = "publish"
    /\ indexes' = Published(indexes, indexer.id, indexer.outcome)
    /\ failure' = 0
    /\ recent' = FALSE
    /\ indexer' = [indexer EXCEPT !.at = "purgeRetired"]
    /\ UNCHANGED <<refs, unasked, request, silent, reindexes, restarts>>

\* DoneSymbolRequest and DeferSymbolRequest act on the request that was read
\* only; a first failure is kept for one retry.
FinishRequest ==
    /\ indexer.at \in {"done", "failed"}
    /\ request' = IF request.seq # indexer.req.seq THEN request
                  ELSE IF indexer.at = "failed" /\ indexer.req.attempts = 0
                  THEN [request EXCEPT !.force = FALSE,
                                       !.attempts = @ + 1, !.waiting = TRUE]
                  ELSE NoRequest
    /\ indexer' = IdleIndexer
    /\ UNCHANGED <<refs, unasked, indexes, failure, recent, silent,
                   reindexes, restarts>>

\* Backoff is over: a failure is not recent, a deferred request is due.
BackoffPasses ==
    /\ recent \/ request.waiting
    /\ recent' = FALSE
    /\ request' = [request EXCEPT !.waiting = FALSE]
    /\ UNCHANGED <<refs, unasked, indexes, failure, indexer, silent,
                   reindexes, restarts>>

\* A restart: the run in hand is lost, its request stays; requests not yet
\* made are lost.
SymbolRestart ==
    /\ restarts < MaxRestarts
    /\ restarts' = restarts + 1
    /\ indexer' = IdleIndexer
    /\ unasked' = {}
    /\ silent' = silent \cup unasked
    /\ UNCHANGED <<refs, request, indexes, failure, recent, reindexes>>

IndexerStep == SweepRequests \/ Purge \/ Resolve \/ Collect \/ Begin
               \/ AddSymbols \/ Publish \/ FinishRequest

SymbolNext ==
    \/ MoveRefs
    \/ CommitFile
    \/ \E v \in Versions : AskForIndex(v)
    \/ Reindex
    \/ IndexerStep
    \/ BackoffPasses
    \/ SymbolRestart

SymbolSpec == SymbolInit /\ [][SymbolNext]_symbolVars

\* The worker sweeps and its runs are bounded in time; whoever moved the refs
\* goes on to ask; time passes.
SymbolFairness ==
    /\ WF_symbolVars(IndexerStep)
    /\ WF_symbolVars(BackoffPasses)
    /\ \A v \in Versions : WF_symbolVars(AskForIndex(v))

-----------------------------------------------------------------------------
(* Properties *)

\* What a search reads is at most one index, and all of what its run
\* collected: no interleaving of chunks, publication, purge and restart shows
\* half an index or two.
ServedIndexIsWhole ==
    /\ Cardinality(CurrentIndexes) <= 1
    /\ \A i \in CurrentIndexes :
         indexes[i].state = "ok" => indexes[i].chunks = Chunks

\* A push that arrives while the worker runs is not forgotten with the run's
\* request: in the end the served index is of the head, or the last failure
\* recorded is, unless the last ref update never asked (a file committed
\* through the server, a restart before the asking).
IndexFollowsHead ==
    SymbolFairness => <>[](
        \/ refs = 0 \/ refs \in silent
        \/ IndexedTree(refs) \/ failure = refs)
=============================================================================
