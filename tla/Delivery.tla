------------------------------ MODULE Delivery ------------------------------
(***************************************************************************)
(* What gitbayd sends out: webhook deliveries (internal/webhook, store/    *)
(* webhooks.go), mail (internal/notify, store/notify.go) and Apple pushes  *)
(* (internal/push, store/push.go). Each has a table, a worker that reads a *)
(* batch of due rows, sends them one by one and records each result, and   *)
(* the retention sweep (store/retention.go) that deletes settled rows.     *)
(*                                                                         *)
(* The rows of the three tables are kept in one function; an id is never   *)
(* used twice. Time is abstract: a row that was tried waits, and its       *)
(* backoff may expire at any moment.                                       *)
(***************************************************************************)
EXTENDS Integers, Sequences, FiniteSets

CONSTANTS
    Hooks,         \* webhook ids of a repository
    Filter,        \* hook -> the event kinds it subscribes to
    Kinds,         \* event kinds
    Accounts,      \* accounts
    Devices,       \* device tokens
    NoOne,         \* the owner of a token that is not registered
    Nowhere,       \* see AtLeastOnce
    MaxAttempts,   \* attempts before a row is given up (5 in the code)
    BatchLimit,    \* rows read at a time (20 in the code)
    MaxRows,       \* bound: rows ever queued
    MaxRedeliver,  \* bound: redeliveries asked for
    MaxFaults      \* bound: restarts, and results that could not be recorded

ASSUME DeliveryAssumption ==
    /\ Filter \in [Hooks -> SUBSET Kinds]
    /\ IsFiniteSet(Hooks) /\ IsFiniteSet(Devices)
    /\ NoOne \notin Accounts
    /\ Nowhere \notin Hooks \cup Accounts \cup Devices
    /\ MaxAttempts \in Nat \ {0} /\ BatchLimit \in Nat \ {0}
    /\ MaxRows \in Nat /\ MaxRedeliver \in Nat /\ MaxFaults \in Nat

VARIABLES
    hooks,      \* rows of webhooks
    owner,      \* push_devices: the account each token is registered to
    rows,       \* webhook_deliveries, notifications and push_queue
    lastRow,    \* the newest row id
    worker,     \* the batch each worker has read and how far it got
    faults, redelivered,  \* counters for the bounds
    taken       \* history: the rows their destination has taken

deliveryVars == <<hooks, owner, rows, lastRow, worker, faults,
                  redelivered, taken>>

-----------------------------------------------------------------------------
(* The shape of the state *)

Queues == {"webhook", "mail", "push"}
RowIds == 1..MaxRows
Dests == Hooks \cup Accounts \cup Devices

\* "for" is the account a mail or a push was written for; "event" groups the
\* deliveries of one event; "waiting" is a next_attempt_at in the future.
Row == [queue: Queues, to: Dests, for: Accounts \cup {NoOne},
        event: 0..MaxRows, state: {"pending", "delivered", "failed"},
        attempts: Nat, waiting: BOOLEAN]

\* A row as the worker read it: where it goes and its attempts by then.
Picked == [id: RowIds, to: Dests, attempts: Nat]
Results == {"sent", "retry", "dead", "reap"}

Worker == [batch: SUBSET Picked, result: Results \cup {""}]
IdleWorker == [batch |-> {}, result |-> ""]

\* The tables the sweep goes through, in its order.
SweepOrder == <<"webhook", "events", "mail", "push">>

DeliveryTypeOK ==
    /\ hooks \subseteq Hooks
    /\ owner \in [Devices -> Accounts \cup {NoOne}]
    /\ lastRow \in 0..MaxRows
    /\ DOMAIN rows \subseteq 1..lastRow
    /\ rows \in [DOMAIN rows -> Row]
    /\ worker \in [Queues -> Worker]
    /\ faults \in 0..MaxFaults
    /\ redelivered \in 0..MaxRedeliver
    /\ taken \subseteq RowIds

DeliveryInit ==
    /\ hooks = {}
    /\ owner = [d \in Devices |-> NoOne]
    /\ rows = [i \in {} |-> {}]
    /\ lastRow = 0
    /\ worker = [q \in Queues |-> IdleWorker]
    /\ faults = 0
    /\ redelivered = 0
    /\ taken = {}

Without(S) == [i \in DOMAIN rows \ S |-> rows[i]]

-----------------------------------------------------------------------------
(* Destinations *)

AddWebhook(h) ==
    /\ h \notin hooks
    /\ hooks' = hooks \cup {h}
    /\ UNCHANGED <<owner, rows, lastRow, worker, faults,
                   redelivered, taken>>

\* The deliveries of a webhook cascade with it.
RemoveWebhook(h) ==
    /\ h \in hooks
    /\ hooks' = hooks \ {h}
    /\ rows' = Without({i \in DOMAIN rows : rows[i].to = h})
    /\ UNCHANGED <<owner, lastRow, worker, faults,
                   redelivered, taken>>

\* A plausible mistake: the queue of the previous owner stays.
AddPushDeviceOnly(u, d) ==
    /\ owner[d] # u
    /\ owner' = [owner EXCEPT ![d] = u]
    /\ rows' = rows
    /\ UNCHANGED <<hooks, lastRow, worker, faults,
                   redelivered, taken>>

\* A token already registered changes hands, and what is still queued for
\* its previous owner goes in the same transaction.
AddPushDevice(u, d) ==
    /\ owner[d] # u
    /\ owner' = [owner EXCEPT ![d] = u]
    /\ rows' = Without({i \in DOMAIN rows :
                          rows[i].to = d /\ rows[i].state = "pending"})
    /\ UNCHANGED <<hooks, lastRow, worker, faults,
                   redelivered, taken>>

RemovePushDevice(u, d) ==
    /\ owner[d] = u
    /\ owner' = [owner EXCEPT ![d] = NoOne]
    /\ rows' = Without({i \in DOMAIN rows : rows[i].to = d})
    /\ UNCHANGED <<hooks, lastRow, worker, faults,
                   redelivered, taken>>

-----------------------------------------------------------------------------
(* Queueing *)

\* One statement inserts a row for each destination in S.
Enqueue(q, S, for) ==
    LET n == Cardinality(S)
        new == (lastRow + 1)..(lastRow + n)
    IN  /\ S # {} /\ lastRow + n <= MaxRows
        /\ \E to \in [new -> S] :
             /\ \A i, j \in new : i # j => to[i] # to[j]
             /\ rows' = [i \in DOMAIN rows \cup new |->
                           IF i \in DOMAIN rows THEN rows[i]
                           ELSE [queue |-> q, to |-> to[i], for |-> for,
                                 event |-> IF q = "webhook" THEN lastRow + 1
                                           ELSE 0,
                                 state |-> "pending", attempts |-> 0,
                                 waiting |-> FALSE]]
        /\ lastRow' = lastRow + n
        /\ UNCHANGED <<hooks, owner, worker, faults,
                       redelivered, taken>>

\* The event and a delivery for each webhook whose filter matches, in one
\* transaction. (Events nobody subscribes to are not kept.)
RecordEvent(k) == Enqueue("webhook", {h \in hooks : k \in Filter[h]}, NoOne)

\* Mail for an account that has an address and wants it.
EnqueueMail(u) == Enqueue("mail", {u}, u)

\* A row for each device of an account (one that has pushes on: the
\* preference is the account's, and either answer may be taken).
EnqueuePush(u) == Enqueue("push", {d \in Devices : owner[d] = u}, u)

\* An operator asks for a delivery again: attempts are not reset.
Redeliver(i) ==
    /\ i \in DOMAIN rows
    /\ rows[i].queue = "webhook"
    /\ redelivered < MaxRedeliver
    /\ redelivered' = redelivered + 1
    /\ rows' = [rows EXCEPT ![i].state = "pending", ![i].waiting = FALSE]
    /\ UNCHANGED <<hooks, owner, lastRow, worker, faults,
                   taken>>

-----------------------------------------------------------------------------
(* The workers *)

\* A plausible mistake: a row is tried once.
DueRowsFresh(q) ==
    {i \in DOMAIN rows : /\ rows[i].queue = q
                         /\ rows[i].state = "pending"
                         /\ rows[i].attempts = 0}

DueRows(q) ==
    {i \in DOMAIN rows : /\ rows[i].queue = q
                         /\ rows[i].state = "pending"
                         /\ ~rows[i].waiting}

\* DueDeliveries, DueMail and DuePush: the oldest due rows.
Due(q) ==
    /\ worker[q] = IdleWorker
    /\ DueRows(q) # {}
    /\ LET first == {i \in DueRows(q) :
                       Cardinality({k \in DueRows(q) : k < i}) < BatchLimit}
       IN  worker' = [worker EXCEPT ![q] =
                        [batch |-> {[id |-> i, to |-> rows[i].to,
                                     attempts |-> rows[i].attempts] : i \in first},
                         result |-> ""]]
    /\ UNCHANGED <<hooks, owner, rows, lastRow, faults,
                   redelivered, taken>>

\* The row of the batch whose turn it is.
Current(q) ==
    CHOOSE p \in worker[q].batch :
        \A o \in worker[q].batch : p.id <= o.id

\* deliver: a 2xx answer is a delivery; anything else, or no answer, is a
\* failed attempt.
WebhookOutcomes == {"sent", "retry"}

\* SendReplyTo: the relay takes the message or some step of the dialogue
\* fails.
MailOutcomes == {"sent", "retry"}

\* Apple takes the push, asks for a retry (429, 5xx, no answer), refuses the
\* payload, or says the device is gone.
PushOutcomes == {"sent", "retry", "dead", "reap"}

Outcomes == [webhook |-> WebhookOutcomes, mail |-> MailOutcomes,
             push |-> PushOutcomes]

\* The request goes out. What is sent is what was read, whatever has become
\* of the row.
Attempt(q) ==
    /\ worker[q].batch # {}
    /\ worker[q].result = ""
    /\ \E r \in Outcomes[q] :
         /\ worker' = [worker EXCEPT ![q].result = r]
         /\ taken' = IF r = "sent" THEN taken \cup {Current(q).id}
                     ELSE taken
    /\ UNCHANGED <<hooks, owner, rows, lastRow, faults,
                   redelivered>>

\* On to the next row of the batch.
NextInBatch(q) ==
    worker' = [worker EXCEPT ![q] = [batch |-> @.batch \ {Current(q)}, result |-> ""]]

\* MarkDelivered, MarkMailSent, MarkPushSent.
MarkSent(i) ==
    IF i \in DOMAIN rows
    THEN rows' = [rows EXCEPT ![i].state = "delivered",
                              ![i].attempts = @ + 1]
    ELSE UNCHANGED rows

\* MarkAttemptFailed, MarkMailFailed, MarkPushFailed: given up, or due again
\* after a backoff.
MarkFailed(i, final) ==
    IF i \in DOMAIN rows
    THEN rows' = [rows EXCEPT ![i].state = IF final THEN "failed" ELSE @,
                              ![i].attempts = @ + 1,
                              ![i].waiting = ~final]
    ELSE UNCHANGED rows

\* A plausible mistake: one attempt too many.
LastAttemptLate(p) == p.attempts + 1 > MaxAttempts

\* Counted from the attempts the row had when it was read.
LastAttempt(p) == p.attempts + 1 >= MaxAttempts

\* The result is recorded. A device Apple says is gone is deleted, whoever
\* has registered the token since, and its rows cascade.
Record(q) ==
    LET p == Current(q)
    IN  /\ worker[q].result # ""
        /\ CASE worker[q].result = "sent" ->
                  MarkSent(p.id) /\ UNCHANGED owner
             [] worker[q].result = "retry" ->
                  MarkFailed(p.id, LastAttempt(p)) /\ UNCHANGED owner
             [] worker[q].result = "dead" ->
                  MarkFailed(p.id, TRUE) /\ UNCHANGED owner
             [] worker[q].result = "reap" ->
                  /\ owner' = [owner EXCEPT ![p.to] = NoOne]
                  /\ rows' = Without({i \in DOMAIN rows : rows[i].to = p.to})
        /\ NextInBatch(q)
        /\ UNCHANGED <<hooks, lastRow, faults, redelivered,
                       taken>>

\* The store refuses the write: the error is logged or ignored and the row
\* stays due.
RecordFails(q) ==
    /\ worker[q].result # ""
    /\ faults < MaxFaults
    /\ faults' = faults + 1
    /\ NextInBatch(q)
    /\ UNCHANGED <<hooks, owner, rows, lastRow, redelivered,
                   taken>>

\* The backoff is over.
BackoffExpires(i) ==
    /\ i \in DOMAIN rows
    /\ rows[i].waiting
    /\ rows' = [rows EXCEPT ![i].waiting = FALSE]
    /\ UNCHANGED <<hooks, owner, lastRow, worker, faults,
                   redelivered, taken>>

-----------------------------------------------------------------------------
(* Retention and restarts *)

\* A plausible mistake: an event goes whatever becomes of its deliveries.
SweptRowsCascade(table, cutoff) ==
    {i \in DOMAIN rows :
        IF table = "events"
        THEN rows[i].queue = "webhook" /\ rows[i].event <= cutoff
        ELSE rows[i].queue = table /\ i <= cutoff /\ rows[i].state # "pending"}

\* The rows one statement of the sweep deletes: old settled rows of a queue,
\* or old events without an unfinished delivery, whose deliveries cascade.
SweptRows(table, cutoff) ==
    {i \in DOMAIN rows :
        IF table = "events"
        THEN /\ rows[i].queue = "webhook"
             /\ rows[i].event <= cutoff
             /\ \A k \in DOMAIN rows :
                  rows[k].event = rows[i].event => rows[k].state # "pending"
        ELSE rows[i].queue = table /\ i <= cutoff /\ rows[i].state # "pending"}

\* The sweep: a statement per table, in this order, until one fails. Each
\* decides on the rows as it finds them, so another actor's step between
\* two of them adds nothing. The last statement that ran found something.
Sweep(cutoff) ==
    /\ \E n \in {k \in 1..Len(SweepOrder) : SweptRows(SweepOrder[k], cutoff) # {}} :
         rows' = Without(UNION {SweptRows(SweepOrder[k], cutoff) : k \in 1..n})
    /\ UNCHANGED <<hooks, owner, lastRow, worker, faults, redelivered, taken>>

\* The server restarts: the batches are forgotten, the rows are not.
WorkersRestart ==
    /\ faults < MaxFaults
    /\ \E q \in Queues : worker[q] # IdleWorker
    /\ faults' = faults + 1
    /\ worker' = [q \in Queues |-> IdleWorker]
    /\ UNCHANGED <<hooks, owner, rows, lastRow, redelivered, taken>>

DeliveryNext ==
    \/ \E h \in Hooks : AddWebhook(h) \/ RemoveWebhook(h)
    \/ \E u \in Accounts, d \in Devices :
         AddPushDevice(u, d) \/ RemovePushDevice(u, d)
    \/ \E u \in Accounts : EnqueueMail(u) \/ EnqueuePush(u)
    \/ \E k \in Kinds : RecordEvent(k)
    \/ \E i \in RowIds : Redeliver(i) \/ BackoffExpires(i) \/ Sweep(i)
    \/ \E q \in Queues : Due(q) \/ Attempt(q) \/ Record(q) \/ RecordFails(q)
    \/ WorkersRestart

DeliverySpec == DeliveryInit /\ [][DeliveryNext]_deliveryVars

\* A worker ticks and its requests end (every client has a timeout), one at
\* a time, and time passes. Requests, faults and the sweep are not forced.
DeliveryFairness ==
    /\ \A q \in Queues : WF_deliveryVars(Due(q) \/ Attempt(q) \/ Record(q))
    /\ \A i \in RowIds : WF_deliveryVars(BackoffExpires(i))

-----------------------------------------------------------------------------
(* Properties *)

InQueue(i) == i \in DOMAIN rows

\* What AtLeastOnce sees of the tables.
ItemStates == [i \in RowIds |-> IF i > lastRow THEN "new"
                                ELSE IF InQueue(i) THEN rows[i].state
                                ELSE "dropped"]
ItemDests == [i \in RowIds |-> IF InQueue(i) THEN rows[i].to ELSE Nowhere]

\* The three queues keep the promise of AtLeastOnce: no retention sweep,
\* restart, lost result or redelivery loses a pending row, and nothing is
\* called delivered that was not sent.
Promise == INSTANCE AtLeastOnce WITH
    Items <- RowIds, state <- ItemStates, dest <- ItemDests, sent <- taken

KeepsPromise == Promise!Spec

\* A push waiting in the queue is for the account its device is registered
\* to: no alert naming one account's repositories waits for another's
\* device, however tokens change hands.
PushesForOwner ==
    \A i \in DOMAIN rows :
        rows[i].queue = "push" /\ rows[i].state = "pending"
            => owner[rows[i].to] = rows[i].for

\* A row is recorded as tried at most MaxAttempts times, and once more for
\* each redelivery: the batch's stale count never lets one be retried for
\* ever.
AttemptsBounded ==
    \A i \in DOMAIN rows : rows[i].attempts <= MaxAttempts + redelivered

\* Every queued row is settled or leaves the queue with its destination:
\* through failed attempts, results that are not recorded and restarts, the
\* queues are drained.
EveryRowSettles ==
    DeliveryFairness =>
        []<>(\A i \in RowIds : InQueue(i) => rows[i].state # "pending")

\* No queued push reaches another account's device, and no row is tried for
\* ever (webhook.go, push.go).
RowsStayBound == PushesForOwner /\ AttemptsBounded
=============================================================================
