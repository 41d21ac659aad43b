--------------------------- MODULE DeliveryProofs ---------------------------
(***************************************************************************)
(* Proofs about Delivery and Mirrors, for any destinations, limits and     *)
(* bounds: a queued push stays with the account of its device, the         *)
(* attempts of a row are bounded, the queues implement AtLeastOnce, and a  *)
(* remote holds nothing newer than the repository it mirrors.              *)
(***************************************************************************)
EXTENDS Delivery, Mirrors, FiniteSetTheorems, WellFoundedInduction, TLAPS

-----------------------------------------------------------------------------
(* The inductive invariant *)

\* A batch holds rows that its worker read and no one else settles: as long
\* as such a row is there it is pending, with the attempts it had then.
PickMatchesRow(q, p) ==
    /\ p.id <= lastRow
    /\ p.id \in DOMAIN rows =>
         /\ rows[p.id].queue = q /\ rows[p.id].state = "pending"
         /\ rows[p.id].attempts = p.attempts

BatchesMatchRows ==
    \A q \in Queues :
        /\ \A p \in worker[q].batch : PickMatchesRow(q, p)
        /\ \A p, o \in worker[q].batch : p.id = o.id => p = o

\* A result is about a row of the batch, and "sent" about one that was taken.
ResultsAreReal ==
    \A q \in Queues :
        /\ worker[q].result # "" => worker[q].batch # {}
        /\ worker[q].result = "sent" => Current(q).id \in taken

\* Pushes are for accounts, on devices.
PushRowsOfDevices ==
    \A i \in DOMAIN rows :
        rows[i].queue = "push" => rows[i].to \in Devices /\ rows[i].for \in Accounts

\* An attempt of a pending row is still to come.
PendingHasAttemptLeft ==
    \A i \in DOMAIN rows :
        rows[i].state = "pending" => rows[i].attempts < MaxAttempts + redelivered

DeliveryInv ==
    /\ DeliveryTypeOK /\ BatchesMatchRows /\ ResultsAreReal
    /\ PushRowsOfDevices /\ PushesForOwner
    /\ PendingHasAttemptLeft /\ AttemptsBounded

-----------------------------------------------------------------------------
(* Operators *)

\* A set of numbers that is not empty has a least element.
LEMMA LeastOf ==
    ASSUME NEW T \in SUBSET Nat, T # {}
    PROVE  \E x \in T : \A y \in T : x <= y
<1> DEFINE R == OpToRel(<, Nat)
<1>1. IsWellFoundedOn(R, Nat)
  BY NatLessThanWellFounded
<1>2. ASSUME NEW x \in Nat, NEW y \in Nat, y < x
      PROVE  <<y, x>> \in R
  BY <1>2 DEF OpToRel
<1> HIDE DEF R
<1>3. PICK x \in T : \A y \in T : ~(<<y, x>> \in R)
  BY <1>1, WFMin
<1>4. ASSUME NEW y \in T PROVE x <= y
  <2>1. x \in Nat /\ y \in Nat /\ ~(<<y, x>> \in R)
    BY <1>3
  <2>2. ~(y < x)
    BY <1>2, <2>1
  <2> QED
    BY <2>1, <2>2
<1> QED
  BY <1>4

\* The row of the batch whose turn it is belongs to the batch.
LEMMA CurrentInBatch ==
    ASSUME DeliveryTypeOK, NEW q \in Queues, worker[q].batch # {}
    PROVE  Current(q) \in worker[q].batch /\ Current(q) \in Picked
<1> DEFINE Turns(p) == \A o \in worker[q].batch : p.id <= o.id
           T == {p.id : p \in worker[q].batch}
<1>1. worker[q].batch \subseteq Picked
  BY DEF DeliveryTypeOK, Worker
<1>2. T \in SUBSET Nat /\ T # {}
  BY <1>1, DeliveryAssumption DEF Picked, RowIds
<1>3. PICK n \in T : \A m \in T : n <= m
  BY <1>2, LeastOf
<1>4. \E p \in worker[q].batch : Turns(p)
  BY <1>3
<1>5. (CHOOSE p \in worker[q].batch : Turns(p)) \in worker[q].batch
  BY <1>4
<1> QED
  BY <1>1, <1>5 DEF Current

\* Taking rows away leaves the others as they are.
LEMMA WithoutRows ==
    ASSUME DeliveryTypeOK, NEW S
    PROVE  /\ DOMAIN Without(S) = DOMAIN rows \ S
           /\ Without(S) \in [DOMAIN Without(S) -> Row]
           /\ \A i \in DOMAIN Without(S) : Without(S)[i] = rows[i]
BY DEF DeliveryTypeOK, Without

\* Every conjunct about rows survives the loss of rows.
LEMMA LosingRows ==
    ASSUME DeliveryInv, NEW S, rows' = Without(S),
           UNCHANGED <<lastRow, redelivered>>
    PROVE  /\ DOMAIN rows' \subseteq 1..lastRow' /\ rows' \in [DOMAIN rows' -> Row]
           /\ \A i \in DOMAIN rows' : i \in DOMAIN rows \ S /\ rows'[i] = rows[i]
           /\ \A q \in Queues : \A p \in worker[q].batch : PickMatchesRow(q, p)'
           /\ PushRowsOfDevices' /\ PendingHasAttemptLeft' /\ AttemptsBounded'
<1>1. /\ DOMAIN rows' = DOMAIN rows \ S /\ rows' \in [DOMAIN rows' -> Row]
      /\ \A i \in DOMAIN rows' : rows'[i] = rows[i]
  BY WithoutRows DEF DeliveryInv
<1>2. \A q \in Queues : \A p \in worker[q].batch : PickMatchesRow(q, p)'
  BY <1>1 DEF DeliveryInv, BatchesMatchRows, PickMatchesRow
<1>3. PushRowsOfDevices' /\ PendingHasAttemptLeft' /\ AttemptsBounded'
  BY <1>1 DEF DeliveryInv, PushRowsOfDevices, PendingHasAttemptLeft, AttemptsBounded
<1> QED
  BY <1>1, <1>2, <1>3 DEF DeliveryInv, DeliveryTypeOK

\* The conjuncts about the workers, when no worker moves.
LEMMA WorkersRest ==
    ASSUME DeliveryInv, UNCHANGED worker, taken \subseteq taken',
           \A q \in Queues : \A p \in worker[q].batch : PickMatchesRow(q, p)'
    PROVE  BatchesMatchRows' /\ ResultsAreReal'
<1>1. \A q \in Queues : Current(q)' = Current(q)
  BY DEF Current
<1> QED
  BY <1>1 DEF DeliveryInv, BatchesMatchRows, ResultsAreReal

-----------------------------------------------------------------------------
(* The steps *)

LEMMA InitDelivery == DeliveryInit => DeliveryInv
<1> SUFFICES ASSUME DeliveryInit PROVE DeliveryInv
  OBVIOUS
<1>1. DOMAIN rows = {} /\ rows \in [DOMAIN rows -> Row]
  BY DEF DeliveryInit
<1>2. IdleWorker \in Worker /\ IdleWorker.batch = {} /\ IdleWorker.result = ""
  BY DEF IdleWorker, Worker
<1>3. DeliveryTypeOK
  <2>1. /\ hooks = {} /\ lastRow = 0 /\ faults = 0 /\ redelivered = 0 /\ taken = {}
        /\ owner = [d \in Devices |-> NoOne]
        /\ worker = [q \in Queues |-> IdleWorker]
    BY DEF DeliveryInit
  <2>2. owner \in [Devices -> Accounts \cup {NoOne}] /\ worker \in [Queues -> Worker]
    BY <1>2, <2>1
  <2>3. /\ lastRow \in 0..MaxRows /\ faults \in 0..MaxFaults
        /\ redelivered \in 0..MaxRedeliver
    BY <2>1, DeliveryAssumption
  <2> QED
    BY <1>1, <2>1, <2>2, <2>3 DEF DeliveryTypeOK
<1>4. \A q \in Queues : worker[q].batch = {} /\ worker[q].result = ""
  BY <1>2 DEF DeliveryInit
<1>5. BatchesMatchRows /\ ResultsAreReal
  BY <1>4 DEF BatchesMatchRows, ResultsAreReal
<1>6. PushRowsOfDevices /\ PushesForOwner /\ PendingHasAttemptLeft /\ AttemptsBounded
  BY <1>1 DEF PushRowsOfDevices, PushesForOwner, PendingHasAttemptLeft, AttemptsBounded
<1> QED
  BY <1>3, <1>5, <1>6 DEF DeliveryInv

\* Webhooks come and go, and their rows go with them.
LEMMA WebhooksInv ==
    ASSUME DeliveryInv, NEW h \in Hooks, AddWebhook(h) \/ RemoveWebhook(h)
    PROVE  DeliveryInv'
<1>1. /\ UNCHANGED <<owner, lastRow, worker, faults, redelivered, taken>>
      /\ hooks' \subseteq Hooks
  BY DEF AddWebhook, RemoveWebhook, DeliveryInv, DeliveryTypeOK
<1>2. PICK S : rows' = Without(S)
  <2>1. CASE AddWebhook(h)
    <3>1. rows' = Without({})
      BY <2>1 DEF AddWebhook, Without, DeliveryInv, DeliveryTypeOK
    <3> QED
      BY <3>1
  <2> QED
    BY <2>1 DEF RemoveWebhook
<1>3. /\ DOMAIN rows' \subseteq 1..lastRow' /\ rows' \in [DOMAIN rows' -> Row]
      /\ \A i \in DOMAIN rows' : i \in DOMAIN rows \ S /\ rows'[i] = rows[i]
      /\ \A q \in Queues : \A p \in worker[q].batch : PickMatchesRow(q, p)'
      /\ PushRowsOfDevices' /\ PendingHasAttemptLeft' /\ AttemptsBounded'
  BY <1>1, <1>2, LosingRows
<1>4. PushesForOwner'
  BY <1>1, <1>3 DEF DeliveryInv, PushesForOwner
<1>5. BatchesMatchRows' /\ ResultsAreReal'
  BY <1>1, <1>3, WorkersRest
<1> QED
  BY <1>1, <1>3, <1>4, <1>5 DEF DeliveryInv, DeliveryTypeOK

\* A token that changes hands leaves no pending push behind.
LEMMA TokensInv ==
    ASSUME DeliveryInv, NEW u \in Accounts, NEW d \in Devices,
           AddPushDevice(u, d) \/ RemovePushDevice(u, d)
    PROVE  DeliveryInv'
<1>1. /\ UNCHANGED <<hooks, lastRow, worker, faults, redelivered, taken>>
      /\ owner' \in [Devices -> Accounts \cup {NoOne}]
      /\ \A e \in Devices : e # d => owner'[e] = owner[e]
  BY DEF AddPushDevice, RemovePushDevice, DeliveryInv, DeliveryTypeOK
<1>2. PICK S : /\ rows' = Without(S)
               /\ \A i \in DOMAIN rows :
                    rows[i].to = d /\ rows[i].state = "pending" => i \in S
  <2>1. CASE AddPushDevice(u, d)
    BY <2>1 DEF AddPushDevice
  <2>2. CASE RemovePushDevice(u, d)
    BY <2>2 DEF RemovePushDevice
  <2> QED
    BY <2>1, <2>2
<1>3. /\ DOMAIN rows' \subseteq 1..lastRow' /\ rows' \in [DOMAIN rows' -> Row]
      /\ \A i \in DOMAIN rows' : i \in DOMAIN rows \ S /\ rows'[i] = rows[i]
      /\ \A q \in Queues : \A p \in worker[q].batch : PickMatchesRow(q, p)'
      /\ PushRowsOfDevices' /\ PendingHasAttemptLeft' /\ AttemptsBounded'
  BY <1>1, <1>2, LosingRows
<1>4. PushesForOwner'
  <2> SUFFICES ASSUME NEW i \in DOMAIN rows', rows'[i].queue = "push",
                      rows'[i].state = "pending"
               PROVE  owner'[rows'[i].to] = rows'[i].for
    BY DEF PushesForOwner
  <2>1. i \in DOMAIN rows /\ rows'[i] = rows[i] /\ rows[i].to # d
    BY <1>2, <1>3
  <2>2. rows[i].to \in Devices /\ owner[rows[i].to] = rows[i].for
    BY <2>1 DEF DeliveryInv, PushRowsOfDevices, PushesForOwner
  <2> QED
    BY <1>1, <2>1, <2>2
<1>5. BatchesMatchRows' /\ ResultsAreReal'
  BY <1>1, <1>3, WorkersRest
<1> QED
  BY <1>1, <1>3, <1>4, <1>5 DEF DeliveryInv, DeliveryTypeOK

\* The ids a statement gives to the rows it inserts.
NewRows == (lastRow + 1)..lastRow'

\* The new rows join the others, for the destinations they were written for.
Inserted(q, to, for) ==
    /\ DOMAIN rows' = DOMAIN rows \cup NewRows
    /\ rows' \in [DOMAIN rows' -> Row]
    /\ DOMAIN rows' \subseteq 1..lastRow'
    /\ \A i \in DOMAIN rows : rows'[i] = rows[i] /\ i \notin NewRows
    /\ \A i \in NewRows :
         /\ rows'[i].queue = q /\ rows'[i].to = to[i]
         /\ rows'[i].for = for /\ rows'[i].state = "pending"
         /\ rows'[i].attempts = 0

\* The new rows are pending, were never tried and are on top of all others.
LEMMA EnqueueRows ==
    ASSUME DeliveryTypeOK, NEW q \in Queues, NEW for \in Accounts \cup {NoOne},
           NEW S \in SUBSET Dests, IsFiniteSet(S), Enqueue(q, S, for)
    PROVE  /\ lastRow' \in lastRow..MaxRows
           /\ \E to \in [NewRows -> S] : Inserted(q, to, for)
<1> DEFINE n == Cardinality(S)
           new == (lastRow + 1)..(lastRow + n)
<1>1. n \in Nat /\ lastRow \in Nat /\ MaxRows \in Nat
  BY FS_CardinalityType, DeliveryAssumption DEF DeliveryTypeOK
<1>2. lastRow' = lastRow + n /\ lastRow + n <= MaxRows
  BY DEF Enqueue
<1>3. PICK to \in [new -> S] :
        rows' = [i \in DOMAIN rows \cup new |->
                   IF i \in DOMAIN rows THEN rows[i]
                   ELSE [queue |-> q, to |-> to[i], for |-> for,
                         event |-> IF q = "webhook" THEN lastRow + 1 ELSE 0,
                         state |-> "pending", attempts |-> 0, waiting |-> FALSE]]
  BY DEF Enqueue
<1>4. \A i \in DOMAIN rows : i \in 1..lastRow
  BY DEF DeliveryTypeOK
<1>5. \A i \in new : i \notin DOMAIN rows
  BY <1>1, <1>4
<1>6. ASSUME NEW i \in new
      PROVE  [queue |-> q, to |-> to[i], for |-> for,
              event |-> IF q = "webhook" THEN lastRow + 1 ELSE 0,
              state |-> "pending", attempts |-> 0, waiting |-> FALSE] \in Row
  <2>1. to[i] \in Dests
    BY <1>6
  <2>2. (IF q = "webhook" THEN lastRow + 1 ELSE 0) \in 0..MaxRows
    BY <1>1, <1>2, <1>6
  <2> QED
    BY <2>1, <2>2 DEF Row
<1>7. DOMAIN rows' = DOMAIN rows \cup new /\ rows' \in [DOMAIN rows' -> Row]
  BY <1>3, <1>5, <1>6 DEF DeliveryTypeOK
<1>8. DOMAIN rows' \subseteq 1..lastRow'
  BY <1>1, <1>2, <1>4, <1>7
<1>9. new = NewRows /\ lastRow' \in lastRow..MaxRows
  BY <1>1, <1>2 DEF NewRows
<1>10. ASSUME NEW i \in new
       PROVE  /\ rows'[i].queue = q /\ rows'[i].to = to[i]
              /\ rows'[i].for = for /\ rows'[i].state = "pending"
              /\ rows'[i].attempts = 0
  BY <1>3, <1>5, <1>10
<1>11. \A i \in DOMAIN rows : rows'[i] = rows[i] /\ i \notin new
  BY <1>3, <1>5
<1> HIDE DEF new
<1> QED
  BY <1>7, <1>8, <1>9, <1>10, <1>11 DEF Inserted

LEMMA EnqueueInv ==
    ASSUME DeliveryInv, NEW q \in Queues, NEW for \in Accounts \cup {NoOne},
           NEW S \in SUBSET Dests, IsFiniteSet(S), Enqueue(q, S, for),
           q = "push" => /\ for \in Accounts
                         /\ \A d \in S : d \in Devices /\ owner[d] = for
    PROVE  DeliveryInv'
<1>1. UNCHANGED <<hooks, owner, worker, faults, redelivered, taken>>
  BY DEF Enqueue
<1>2. /\ DeliveryTypeOK /\ lastRow' \in lastRow..MaxRows
      /\ lastRow \in Nat /\ redelivered \in Nat /\ MaxAttempts \in Nat \ {0}
  BY EnqueueRows, DeliveryAssumption DEF DeliveryInv, DeliveryTypeOK
<1>3. PICK to \in [NewRows -> S] : Inserted(q, to, for)
  BY <1>2, EnqueueRows
<1>4. DeliveryTypeOK'
  BY <1>1, <1>2, <1>3, DeliveryAssumption DEF DeliveryTypeOK, Inserted
<1>5. ASSUME NEW w \in Queues, NEW p \in worker[w].batch
      PROVE  PickMatchesRow(w, p)'
  <2>1. worker[w] \in Worker
    BY <1>2 DEF DeliveryTypeOK
  <2>2. p \in Picked /\ PickMatchesRow(w, p)
    BY <2>1 DEF DeliveryInv, BatchesMatchRows, Worker
  <2>3. p.id \in Int /\ p.id <= lastRow /\ p.id \notin NewRows
    BY <1>2, <2>2 DEF PickMatchesRow, NewRows, Picked, RowIds
  <2> QED
    BY <1>2, <1>3, <2>2, <2>3 DEF PickMatchesRow, Inserted
<1>6. BatchesMatchRows' /\ ResultsAreReal'
  BY <1>1, <1>5, WorkersRest
<1>7. PushRowsOfDevices'
  BY <1>3 DEF DeliveryInv, PushRowsOfDevices, Inserted
<1>8. PushesForOwner'
  BY <1>1, <1>3 DEF DeliveryInv, PushesForOwner, Inserted
<1>9. PendingHasAttemptLeft' /\ AttemptsBounded'
  BY <1>1, <1>2, <1>3 DEF DeliveryInv, PendingHasAttemptLeft, AttemptsBounded, Inserted
<1> QED
  BY <1>4, <1>6, <1>7, <1>8, <1>9 DEF DeliveryInv

LEMMA EventsInv ==
    ASSUME DeliveryInv, NEW k \in Kinds, RecordEvent(k)
    PROVE  DeliveryInv'
<1> DEFINE S == {h \in hooks : k \in Filter[h]}
<1>1. S \subseteq Hooks /\ IsFiniteSet(S) /\ S \in SUBSET Dests
  BY DeliveryAssumption, FS_Subset DEF DeliveryInv, DeliveryTypeOK, Dests
<1>2. Enqueue("webhook", S, NoOne)
  BY DEF RecordEvent
<1> HIDE DEF S
<1> QED
  BY <1>1, <1>2, EnqueueInv DEF Queues

LEMMA AlertsInv ==
    ASSUME DeliveryInv, NEW u \in Accounts, EnqueueMail(u) \/ EnqueuePush(u)
    PROVE  DeliveryInv'
<1>1. CASE EnqueueMail(u)
  <2>1. IsFiniteSet({u}) /\ {u} \in SUBSET Dests
    BY FS_Singleton DEF Dests
  <2> QED
    BY <1>1, <2>1, EnqueueInv DEF EnqueueMail, Queues
<1>2. CASE EnqueuePush(u)
  <2> DEFINE S == {d \in Devices : owner[d] = u}
  <2>1. IsFiniteSet(S) /\ S \in SUBSET Dests
    BY DeliveryAssumption, FS_Subset DEF Dests
  <2>2. Enqueue("push", S, u)
    BY <1>2 DEF EnqueuePush
  <2>3. \A d \in S : d \in Devices /\ owner[d] = u
    OBVIOUS
  <2> HIDE DEF S
  <2> QED
    BY <2>1, <2>2, <2>3, EnqueueInv DEF Queues
<1> QED
  BY <1>1, <1>2

\* One row changes, and stays where it was for its destination.
LEMMA OneRowMoves ==
    ASSUME DeliveryInv, NEW i \in DOMAIN rows, NEW r \in Row,
           rows' = [rows EXCEPT ![i] = r],
           UNCHANGED <<hooks, owner, lastRow>>,
           redelivered' \in redelivered..MaxRedeliver,
           r.queue = rows[i].queue /\ r.to = rows[i].to /\ r.for = rows[i].for,
           r.attempts <= MaxAttempts + redelivered',
           r.state = "pending" => /\ r.attempts < MaxAttempts + redelivered'
                                  /\ rows[i].queue = "push" => rows[i].state = "pending"
    PROVE  /\ DOMAIN rows' = DOMAIN rows /\ rows' \in [DOMAIN rows' -> Row]
           /\ PushRowsOfDevices' /\ PushesForOwner'
           /\ PendingHasAttemptLeft' /\ AttemptsBounded'
<1>1. /\ DeliveryTypeOK /\ DOMAIN rows' = DOMAIN rows /\ rows' \in [DOMAIN rows' -> Row]
      /\ rows'[i] = r /\ \A k \in DOMAIN rows : k # i => rows'[k] = rows[k]
  BY DEF DeliveryInv, DeliveryTypeOK
<1>2. PushRowsOfDevices' /\ PushesForOwner'
  BY <1>1 DEF DeliveryInv, PushRowsOfDevices, PushesForOwner
<1>3. /\ redelivered \in Nat /\ redelivered' \in Nat /\ MaxAttempts \in Nat
      /\ redelivered <= redelivered'
      /\ \A k \in DOMAIN rows : rows[k].attempts \in Nat
  BY <1>1, DeliveryAssumption DEF DeliveryTypeOK, Row
<1>4. ASSUME NEW k \in DOMAIN rows
      PROVE  /\ rows'[k].attempts <= MaxAttempts + redelivered'
             /\ rows'[k].state = "pending" => rows'[k].attempts < MaxAttempts + redelivered'
  <2>1. CASE k = i
    BY <1>1, <2>1
  <2>2. CASE k # i
    BY <1>1, <1>3, <2>2 DEF DeliveryInv, PendingHasAttemptLeft, AttemptsBounded
  <2> QED
    BY <2>1, <2>2
<1> QED
  BY <1>1, <1>2, <1>4 DEF PendingHasAttemptLeft, AttemptsBounded

\* A pick goes on matching its row when another row changes.
LEMMA OtherPicksMatch ==
    ASSUME DeliveryInv, NEW i, NEW q \in Queues, NEW p \in worker[q].batch,
           p.id # i, UNCHANGED lastRow, DOMAIN rows' = DOMAIN rows,
           \A k \in DOMAIN rows : k # i => rows'[k] = rows[k]
    PROVE  PickMatchesRow(q, p)'
BY DEF DeliveryInv, BatchesMatchRows, PickMatchesRow

\* Attempts are kept when a delivery is asked for again, and one more is
\* allowed for.
LEMMA RedeliverInv ==
    ASSUME DeliveryInv, NEW i \in RowIds, Redeliver(i)
    PROVE  DeliveryInv'
<1> DEFINE r == [rows[i] EXCEPT !.state = "pending", !.waiting = FALSE]
<1>1. /\ i \in DOMAIN rows /\ rows[i] \in Row /\ rows[i].queue = "webhook"
      /\ redelivered' = redelivered + 1 /\ redelivered < MaxRedeliver
      /\ UNCHANGED <<hooks, owner, lastRow, worker, faults, taken>>
  BY DEF Redeliver, DeliveryInv, DeliveryTypeOK
<1>2. /\ r \in Row /\ r.queue = rows[i].queue /\ r.to = rows[i].to
      /\ r.for = rows[i].for /\ r.attempts = rows[i].attempts /\ r.state = "pending"
  BY <1>1 DEF Row
<1>3. rows' = [rows EXCEPT ![i] = r]
  BY DEF Redeliver
<1> HIDE DEF r
<1>4. /\ redelivered \in Nat /\ MaxAttempts \in Nat /\ MaxRedeliver \in Nat
      /\ rows[i].attempts \in Nat /\ rows[i].attempts <= MaxAttempts + redelivered
  BY <1>1, DeliveryAssumption DEF DeliveryInv, DeliveryTypeOK, AttemptsBounded, Row
<1>5. redelivered' \in redelivered..MaxRedeliver /\ redelivered' \in 0..MaxRedeliver
  BY <1>1, <1>4
<1>6. r.attempts < MaxAttempts + redelivered'
  BY <1>1, <1>2, <1>4
<1>7. /\ DOMAIN rows' = DOMAIN rows /\ rows' \in [DOMAIN rows' -> Row]
      /\ PushRowsOfDevices' /\ PushesForOwner'
      /\ PendingHasAttemptLeft' /\ AttemptsBounded'
  <2>1. r.attempts <= MaxAttempts + redelivered'
    BY <1>1, <1>2, <1>4
  <2> QED
    BY <1>1, <1>2, <1>3, <1>5, <1>6, <2>1, OneRowMoves
<1>8. ASSUME NEW q \in Queues, NEW p \in worker[q].batch
      PROVE  PickMatchesRow(q, p)'
  <2>1. CASE p.id # i
    BY <1>1, <1>3, <1>7, <2>1, OtherPicksMatch DEF DeliveryInv, DeliveryTypeOK
  <2>2. CASE p.id = i
    <3>1. PickMatchesRow(q, p) /\ rows'[i] = r
      BY <1>1, <1>3 DEF DeliveryInv, BatchesMatchRows, DeliveryTypeOK
    <3> QED
      BY <1>1, <1>2, <2>2, <3>1 DEF PickMatchesRow
  <2> QED
    BY <2>1, <2>2
<1>9. BatchesMatchRows' /\ ResultsAreReal'
  BY <1>1, <1>8, WorkersRest
<1> QED
  BY <1>1, <1>5, <1>7, <1>9 DEF DeliveryInv, DeliveryTypeOK

LEMMA BackoffInv ==
    ASSUME DeliveryInv, NEW i \in RowIds, BackoffExpires(i)
    PROVE  DeliveryInv'
<1> DEFINE r == [rows[i] EXCEPT !.waiting = FALSE]
<1>1. /\ i \in DOMAIN rows /\ rows[i] \in Row
      /\ UNCHANGED <<hooks, owner, lastRow, worker, faults, redelivered, taken>>
  BY DEF BackoffExpires, DeliveryInv, DeliveryTypeOK
<1>2. /\ r \in Row /\ r.queue = rows[i].queue /\ r.to = rows[i].to
      /\ r.for = rows[i].for /\ r.attempts = rows[i].attempts /\ r.state = rows[i].state
  BY <1>1 DEF Row
<1>3. rows' = [rows EXCEPT ![i] = r]
  BY DEF BackoffExpires
<1> HIDE DEF r
<1>4. /\ redelivered' \in redelivered..MaxRedeliver
      /\ r.attempts <= MaxAttempts + redelivered'
      /\ r.state = "pending" => r.attempts < MaxAttempts + redelivered'
  BY <1>1, <1>2, DeliveryAssumption
     DEF DeliveryInv, DeliveryTypeOK, AttemptsBounded, PendingHasAttemptLeft
<1>5. /\ DOMAIN rows' = DOMAIN rows /\ rows' \in [DOMAIN rows' -> Row]
      /\ PushRowsOfDevices' /\ PushesForOwner'
      /\ PendingHasAttemptLeft' /\ AttemptsBounded'
  BY <1>1, <1>2, <1>3, <1>4, OneRowMoves
<1>6. ASSUME NEW q \in Queues, NEW p \in worker[q].batch
      PROVE  PickMatchesRow(q, p)'
  <2>1. CASE p.id # i
    BY <1>1, <1>3, <1>5, <2>1, OtherPicksMatch DEF DeliveryInv, DeliveryTypeOK
  <2>2. CASE p.id = i
    <3>1. PickMatchesRow(q, p) /\ rows'[i] = r
      BY <1>1, <1>3 DEF DeliveryInv, BatchesMatchRows, DeliveryTypeOK
    <3> QED
      BY <1>1, <1>2, <2>2, <3>1 DEF PickMatchesRow
  <2> QED
    BY <2>1, <2>2
<1>7. BatchesMatchRows' /\ ResultsAreReal'
  BY <1>1, <1>6, WorkersRest
<1> QED
  BY <1>1, <1>5, <1>7 DEF DeliveryInv, DeliveryTypeOK

LEMMA SweepInv ==
    ASSUME DeliveryInv, NEW cutoff \in RowIds, Sweep(cutoff)
    PROVE  DeliveryInv'
<1>1. UNCHANGED <<hooks, owner, lastRow, worker, faults, redelivered, taken>>
  BY DEF Sweep
<1>2. PICK S : rows' = Without(S)
  BY DEF Sweep
<1>3. /\ DOMAIN rows' \subseteq 1..lastRow' /\ rows' \in [DOMAIN rows' -> Row]
      /\ \A i \in DOMAIN rows' : i \in DOMAIN rows \ S /\ rows'[i] = rows[i]
      /\ \A q \in Queues : \A p \in worker[q].batch : PickMatchesRow(q, p)'
      /\ PushRowsOfDevices' /\ PendingHasAttemptLeft' /\ AttemptsBounded'
  BY <1>1, <1>2, LosingRows
<1>4. PushesForOwner'
  BY <1>1, <1>3 DEF DeliveryInv, PushesForOwner
<1>5. BatchesMatchRows' /\ ResultsAreReal'
  BY <1>1, <1>3, WorkersRest
<1> QED
  BY <1>1, <1>3, <1>4, <1>5 DEF DeliveryInv, DeliveryTypeOK

LEMMA RestartInv ==
    ASSUME DeliveryInv, WorkersRestart
    PROVE  DeliveryInv'
<1>1. /\ UNCHANGED <<hooks, owner, rows, lastRow, redelivered, taken>>
      /\ faults' = faults + 1 /\ faults < MaxFaults
      /\ worker' = [q \in Queues |-> IdleWorker]
  BY DEF WorkersRestart
<1>2. IdleWorker \in Worker /\ IdleWorker.batch = {} /\ IdleWorker.result = ""
  BY DEF IdleWorker, Worker
<1>3. /\ worker' \in [Queues -> Worker]
      /\ \A q \in Queues : worker'[q].batch = {} /\ worker'[q].result = ""
  BY <1>1, <1>2
<1>4. BatchesMatchRows' /\ ResultsAreReal'
  BY <1>3 DEF BatchesMatchRows, ResultsAreReal
<1>5. faults' \in 0..MaxFaults
  BY <1>1, DeliveryAssumption DEF DeliveryInv, DeliveryTypeOK
<1>6. DeliveryTypeOK'
  BY <1>1, <1>3, <1>5 DEF DeliveryInv, DeliveryTypeOK
<1>7. PushRowsOfDevices' /\ PushesForOwner' /\ PendingHasAttemptLeft' /\ AttemptsBounded'
  BY <1>1 DEF DeliveryInv, PushRowsOfDevices, PushesForOwner,
              PendingHasAttemptLeft, AttemptsBounded
<1> QED
  BY <1>4, <1>6, <1>7 DEF DeliveryInv

-----------------------------------------------------------------------------
(* The workers *)

LEMMA DueInv ==
    ASSUME DeliveryInv, NEW q \in Queues, Due(q)
    PROVE  DeliveryInv'
<1> DEFINE Pick(i) == [id |-> i, to |-> rows[i].to, attempts |-> rows[i].attempts]
           first == {i \in DueRows(q) :
                       Cardinality({k \in DueRows(q) : k < i}) < BatchLimit}
           batch == {Pick(i) : i \in first}
<1>1. /\ UNCHANGED <<hooks, owner, rows, lastRow, faults, redelivered, taken>>
      /\ worker[q] = IdleWorker
      /\ worker' = [worker EXCEPT ![q] = [batch |-> batch, result |-> ""]]
  BY DEF Due
<1>2. \A i \in first : /\ i \in DOMAIN rows /\ rows[i] \in Row
                       /\ rows[i].queue = q /\ rows[i].state = "pending"
  BY DEF DueRows, DeliveryInv, DeliveryTypeOK
<1>3. ASSUME NEW i \in first
      PROVE  Pick(i) \in Picked /\ PickMatchesRow(q, Pick(i))
  <2>1. i \in RowIds /\ i <= lastRow
    BY <1>2, DeliveryAssumption DEF DeliveryInv, DeliveryTypeOK, RowIds
  <2> QED
    BY <1>2, <2>1 DEF Picked, PickMatchesRow, Row
<1>4. \A i, k \in first : Pick(i).id = Pick(k).id => Pick(i) = Pick(k)
  OBVIOUS
<1> HIDE DEF first
<1>5. batch \subseteq Picked
  BY <1>3
<1>6. \A p \in batch : PickMatchesRow(q, p)
  BY <1>3
<1>7. \A p, o \in batch : p.id = o.id => p = o
  BY <1>4
<1> HIDE DEF batch
<1>8. /\ worker' \in [Queues -> Worker]
      /\ worker'[q].batch = batch /\ worker'[q].result = ""
      /\ \A w \in Queues : w # q => worker'[w] = worker[w]
  <2> DEFINE next == [batch |-> batch, result |-> ""]
  <2>1. next \in Worker /\ next.batch = batch /\ next.result = ""
    BY <1>5 DEF Worker
  <2>2. worker' = [worker EXCEPT ![q] = next] /\ worker \in [Queues -> Worker]
    BY <1>1 DEF DeliveryInv, DeliveryTypeOK
  <2> HIDE DEF next
  <2> QED
    BY <2>1, <2>2
<1>9. BatchesMatchRows'
  <2>1. \A w \in Queues : \A p \in worker'[w].batch : PickMatchesRow(w, p)
    BY <1>6, <1>8 DEF DeliveryInv, BatchesMatchRows
  <2>2. \A w \in Queues : \A p \in worker'[w].batch : PickMatchesRow(w, p)'
    BY <1>1, <2>1 DEF PickMatchesRow
  <2>3. \A w \in Queues : \A p, o \in worker'[w].batch : p.id = o.id => p = o
    BY <1>7, <1>8 DEF DeliveryInv, BatchesMatchRows
  <2> QED
    BY <2>2, <2>3 DEF BatchesMatchRows
<1>10. ResultsAreReal'
  <2>1. \A w \in Queues : w # q => Current(w)' = Current(w)
    BY <1>8 DEF Current
  <2> QED
    BY <1>1, <1>8, <2>1 DEF DeliveryInv, ResultsAreReal
<1>11. PushRowsOfDevices' /\ PushesForOwner' /\ PendingHasAttemptLeft' /\ AttemptsBounded'
  BY <1>1 DEF DeliveryInv, PushRowsOfDevices, PushesForOwner,
              PendingHasAttemptLeft, AttemptsBounded
<1> QED
  BY <1>1, <1>8, <1>9, <1>10, <1>11 DEF DeliveryInv, DeliveryTypeOK

LEMMA AttemptInv ==
    ASSUME DeliveryInv, NEW q \in Queues, Attempt(q)
    PROVE  DeliveryInv'
<1>1. /\ UNCHANGED <<hooks, owner, rows, lastRow, faults, redelivered>>
      /\ worker[q].batch # {}
  BY DEF Attempt
<1>2. PICK r \in Outcomes[q] :
        /\ worker' = [worker EXCEPT ![q].result = r]
        /\ taken' = IF r = "sent" THEN taken \cup {Current(q).id} ELSE taken
  BY DEF Attempt
<1>3. r \in Results
  BY DEF Outcomes, Queues, Results, WebhookOutcomes, MailOutcomes, PushOutcomes
<1>4. /\ worker' \in [Queues -> Worker]
      /\ worker'[q].batch = worker[q].batch /\ worker'[q].result = r
      /\ \A w \in Queues : w # q => worker'[w] = worker[w]
  BY <1>2, <1>3 DEF DeliveryInv, DeliveryTypeOK, Worker
<1>5. \A w \in Queues : worker'[w].batch = worker[w].batch /\ Current(w)' = Current(w)
  BY <1>4 DEF Current
<1>6. taken' \subseteq RowIds /\ taken \subseteq taken'
  BY <1>1, <1>2, CurrentInBatch DEF DeliveryInv, DeliveryTypeOK, Picked
<1>7. BatchesMatchRows'
  BY <1>1, <1>5 DEF DeliveryInv, BatchesMatchRows, PickMatchesRow
<1>8. ResultsAreReal'
  BY <1>1, <1>2, <1>4, <1>5, <1>6 DEF DeliveryInv, ResultsAreReal
<1>9. PushRowsOfDevices' /\ PushesForOwner' /\ PendingHasAttemptLeft' /\ AttemptsBounded'
  BY <1>1 DEF DeliveryInv, PushRowsOfDevices, PushesForOwner,
              PendingHasAttemptLeft, AttemptsBounded
<1> QED
  BY <1>1, <1>4, <1>6, <1>7, <1>8, <1>9 DEF DeliveryInv, DeliveryTypeOK

\* What NextInBatch does to the workers.
LEMMA BatchMovesOn ==
    ASSUME DeliveryTypeOK, NEW q \in Queues, NextInBatch(q)
    PROVE  /\ worker' \in [Queues -> Worker]
           /\ worker'[q].batch = worker[q].batch \ {Current(q)}
           /\ worker'[q].result = ""
           /\ \A w \in Queues : w # q => worker'[w] = worker[w]
           /\ \A w \in Queues : w # q => Current(w)' = Current(w)
           /\ \A w \in Queues : worker'[w].batch \subseteq worker[w].batch
<1>1. /\ worker' \in [Queues -> Worker]
      /\ worker'[q].batch = worker[q].batch \ {Current(q)}
      /\ worker'[q].result = ""
      /\ \A w \in Queues : w # q => worker'[w] = worker[w]
  <2> DEFINE next == [batch |-> worker[q].batch \ {Current(q)}, result |-> ""]
  <2>1. worker \in [Queues -> Worker] /\ worker[q] \in Worker
    BY DEF DeliveryTypeOK
  <2>2. /\ next \in Worker /\ next.result = ""
        /\ next.batch = worker[q].batch \ {Current(q)}
    BY <2>1 DEF Worker
  <2>3. worker' = [worker EXCEPT ![q] = next]
    BY DEF NextInBatch
  <2> HIDE DEF next
  <2> QED
    BY <2>1, <2>2, <2>3
<1> QED
  BY <1>1 DEF Current

\* Once the worker has moved on, its results and what is left of the batches
\* are right if the picks that are left match.
LEMMA RestMatches ==
    ASSUME DeliveryInv, NEW q \in Queues, NextInBatch(q), UNCHANGED taken,
           \A w \in Queues : \A p \in worker'[w].batch : PickMatchesRow(w, p)'
    PROVE  worker' \in [Queues -> Worker] /\ BatchesMatchRows' /\ ResultsAreReal'
<1>1. /\ worker' \in [Queues -> Worker] /\ worker'[q].result = ""
      /\ \A w \in Queues : w # q => worker'[w] = worker[w]
      /\ \A w \in Queues : w # q => Current(w)' = Current(w)
      /\ \A w \in Queues : worker'[w].batch \subseteq worker[w].batch
  BY BatchMovesOn DEF DeliveryInv
<1>2. BatchesMatchRows'
  BY <1>1 DEF DeliveryInv, BatchesMatchRows
<1>3. ResultsAreReal'
  BY <1>1 DEF DeliveryInv, ResultsAreReal
<1> QED
  BY <1>1, <1>2, <1>3

LEMMA RecordFailsInv ==
    ASSUME DeliveryInv, NEW q \in Queues, RecordFails(q)
    PROVE  DeliveryInv'
<1>1. /\ UNCHANGED <<hooks, owner, rows, lastRow, redelivered, taken>>
      /\ faults' = faults + 1 /\ faults < MaxFaults /\ NextInBatch(q)
  BY DEF RecordFails
<1>2. \A w \in Queues : \A p \in worker'[w].batch : PickMatchesRow(w, p)'
  <2>1. \A w \in Queues : worker'[w].batch \subseteq worker[w].batch
    BY <1>1, BatchMovesOn DEF DeliveryInv
  <2>2. \A w \in Queues : \A p \in worker'[w].batch : PickMatchesRow(w, p)
    BY <2>1 DEF DeliveryInv, BatchesMatchRows
  <2> QED
    BY <1>1, <2>2 DEF PickMatchesRow
<1>3. worker' \in [Queues -> Worker] /\ BatchesMatchRows' /\ ResultsAreReal'
  BY <1>1, <1>2, RestMatches
<1>4. faults' \in 0..MaxFaults
  BY <1>1, DeliveryAssumption DEF DeliveryInv, DeliveryTypeOK
<1>5. PushRowsOfDevices' /\ PushesForOwner' /\ PendingHasAttemptLeft' /\ AttemptsBounded'
  BY <1>1 DEF DeliveryInv, PushRowsOfDevices, PushesForOwner,
              PendingHasAttemptLeft, AttemptsBounded
<1> QED
  BY <1>1, <1>3, <1>4, <1>5 DEF DeliveryInv, DeliveryTypeOK

\* No other pick is of the row whose turn it was.
LEMMA TurnIsOver ==
    ASSUME DeliveryInv, NEW q \in Queues, worker[q].batch # {}, NextInBatch(q),
           Current(q).id \in DOMAIN rows
    PROVE  \A w \in Queues : \A o \in worker'[w].batch : o.id # Current(q).id
<1> DEFINE p == Current(q)
<1>1. p \in worker[q].batch /\ PickMatchesRow(q, p)
  BY CurrentInBatch DEF DeliveryInv, BatchesMatchRows
<1>2. /\ worker'[q].batch = worker[q].batch \ {p}
      /\ \A w \in Queues : worker'[w].batch \subseteq worker[w].batch
  BY BatchMovesOn DEF DeliveryInv
<1> HIDE DEF p
<1>3. ASSUME NEW w \in Queues, NEW o \in worker'[w].batch
      PROVE  o.id # p.id
  <2>1. CASE w = q
    BY <1>1, <1>2, <2>1 DEF DeliveryInv, BatchesMatchRows
  <2>2. CASE w # q
    <3>1. PickMatchesRow(w, o)
      BY <1>2 DEF DeliveryInv, BatchesMatchRows
    <3> QED
      BY <1>1, <2>2, <3>1 DEF PickMatchesRow, p
  <2> QED
    BY <2>1, <2>2
<1> QED
  BY <1>3 DEF p

\* The row whose turn it is takes one more attempt, and stays pending only
\* below the limit.
LEMMA TurnRecorded ==
    ASSUME DeliveryInv, NEW q \in Queues, worker[q].batch # {}, NextInBatch(q),
           NEW i \in DOMAIN rows, i = Current(q).id, NEW r \in Row,
           rows' = [rows EXCEPT ![i] = r],
           UNCHANGED <<hooks, owner, lastRow, faults, redelivered, taken>>,
           r.queue = rows[i].queue, r.to = rows[i].to, r.for = rows[i].for,
           r.attempts = rows[i].attempts + 1,
           r.state = "pending" => rows[i].attempts + 1 < MaxAttempts
    PROVE  DeliveryInv'
<1>1. rows[i].state = "pending"
  BY CurrentInBatch DEF DeliveryInv, BatchesMatchRows, PickMatchesRow
<1>2. /\ MaxAttempts \in Nat /\ redelivered \in Nat /\ rows[i].attempts \in Nat
      /\ redelivered' \in redelivered..MaxRedeliver
      /\ rows[i].attempts < MaxAttempts + redelivered
  BY <1>1, DeliveryAssumption
     DEF DeliveryInv, DeliveryTypeOK, PendingHasAttemptLeft, Row
<1>3. /\ r.attempts <= MaxAttempts + redelivered'
      /\ r.state = "pending" => r.attempts < MaxAttempts + redelivered'
  BY <1>2
<1>4. /\ DOMAIN rows' = DOMAIN rows /\ rows' \in [DOMAIN rows' -> Row]
      /\ PushRowsOfDevices' /\ PushesForOwner'
      /\ PendingHasAttemptLeft' /\ AttemptsBounded'
  BY <1>1, <1>2, <1>3, OneRowMoves
<1>5. \A k \in DOMAIN rows : k # i => rows'[k] = rows[k]
  BY DEF DeliveryInv, DeliveryTypeOK
<1>6. ASSUME NEW w \in Queues, NEW o \in worker'[w].batch
      PROVE  PickMatchesRow(w, o)'
  <2>1. o \in worker[w].batch /\ o.id # i
    BY BatchMovesOn, TurnIsOver DEF DeliveryInv
  <2> QED
    BY <1>4, <1>5, <2>1, OtherPicksMatch
<1>7. worker' \in [Queues -> Worker] /\ BatchesMatchRows' /\ ResultsAreReal'
  BY <1>6, RestMatches
<1> QED
  BY <1>4, <1>7 DEF DeliveryInv, DeliveryTypeOK

\* Nothing is recorded for a row that is gone.
LEMMA TurnWithoutRow ==
    ASSUME DeliveryInv, NEW q \in Queues, NextInBatch(q),
           UNCHANGED <<hooks, owner, rows, lastRow, faults, redelivered, taken>>
    PROVE  DeliveryInv'
<1>1. ASSUME NEW w \in Queues, NEW o \in worker'[w].batch
      PROVE  PickMatchesRow(w, o)'
  <2>1. o \in worker[w].batch
    BY BatchMovesOn DEF DeliveryInv
  <2> QED
    BY <2>1 DEF DeliveryInv, BatchesMatchRows, PickMatchesRow
<1>2. worker' \in [Queues -> Worker] /\ BatchesMatchRows' /\ ResultsAreReal'
  BY <1>1, RestMatches
<1> QED
  BY <1>2 DEF DeliveryInv, DeliveryTypeOK, PushRowsOfDevices, PushesForOwner,
              PendingHasAttemptLeft, AttemptsBounded

\* A device that is gone takes its rows with it.
LEMMA DeviceReaped ==
    ASSUME DeliveryInv, NEW q \in Queues, NextInBatch(q), NEW d,
           owner' = [owner EXCEPT ![d] = NoOne],
           rows' = Without({i \in DOMAIN rows : rows[i].to = d}),
           UNCHANGED <<hooks, lastRow, faults, redelivered, taken>>
    PROVE  DeliveryInv'
<1> DEFINE S == {i \in DOMAIN rows : rows[i].to = d}
<1>1. /\ DOMAIN rows' \subseteq 1..lastRow' /\ rows' \in [DOMAIN rows' -> Row]
      /\ \A i \in DOMAIN rows' : i \in DOMAIN rows \ S /\ rows'[i] = rows[i]
      /\ \A w \in Queues : \A p \in worker[w].batch : PickMatchesRow(w, p)'
      /\ PushRowsOfDevices' /\ PendingHasAttemptLeft' /\ AttemptsBounded'
  <2> HIDE DEF S
  <2> QED
    BY LosingRows DEF S
<1>2. \A w \in Queues : \A p \in worker'[w].batch : PickMatchesRow(w, p)'
  BY <1>1, BatchMovesOn DEF DeliveryInv
<1>3. worker' \in [Queues -> Worker] /\ BatchesMatchRows' /\ ResultsAreReal'
  BY <1>2, RestMatches
<1>4. /\ owner' \in [Devices -> Accounts \cup {NoOne}]
      /\ \A e \in Devices : e # d => owner'[e] = owner[e]
  BY DEF DeliveryInv, DeliveryTypeOK
<1>5. PushesForOwner'
  <2> SUFFICES ASSUME NEW i \in DOMAIN rows', rows'[i].queue = "push",
                      rows'[i].state = "pending"
               PROVE  owner'[rows'[i].to] = rows'[i].for
    BY DEF PushesForOwner
  <2>1. i \in DOMAIN rows /\ rows'[i] = rows[i] /\ rows[i].to # d
    BY <1>1
  <2>2. rows[i].to \in Devices /\ owner[rows[i].to] = rows[i].for
    BY <2>1 DEF DeliveryInv, PushRowsOfDevices, PushesForOwner
  <2> QED
    BY <1>4, <2>1, <2>2
<1> QED
  BY <1>1, <1>3, <1>4, <1>5 DEF DeliveryInv, DeliveryTypeOK

LEMMA RecordInv ==
    ASSUME DeliveryInv, NEW q \in Queues, Record(q)
    PROVE  DeliveryInv'
<1> DEFINE p == Current(q)
<1>1. /\ worker[q].result # "" /\ worker[q].batch # {} /\ NextInBatch(q)
      /\ UNCHANGED <<hooks, lastRow, faults, redelivered, taken>>
  BY DEF Record, DeliveryInv, ResultsAreReal
<1>2. /\ p \in worker[q].batch /\ p \in Picked /\ PickMatchesRow(q, p)
      /\ p.id \in DOMAIN rows => rows[p.id] \in Row
  BY <1>1, CurrentInBatch DEF DeliveryInv, BatchesMatchRows, DeliveryTypeOK
<1>3. worker[q].result \in Results
  BY <1>1 DEF DeliveryInv, DeliveryTypeOK, Worker
<1> HIDE DEF p
<1>4. CASE p.id \notin DOMAIN rows /\ UNCHANGED <<rows, owner>>
  BY <1>1, <1>4, TurnWithoutRow
<1>5. CASE p.id \in DOMAIN rows /\ MarkSent(p.id) /\ UNCHANGED owner
  <2> DEFINE r == [rows[p.id] EXCEPT !.state = "delivered", !.attempts = @ + 1]
  <2>1. /\ r \in Row /\ r.queue = rows[p.id].queue /\ r.to = rows[p.id].to
        /\ r.for = rows[p.id].for /\ r.attempts = rows[p.id].attempts + 1
        /\ r.state = "delivered"
    <3> DEFINE a == [rows[p.id] EXCEPT !.state = "delivered"]
    <3>1. /\ a \in Row /\ a.queue = rows[p.id].queue /\ a.to = rows[p.id].to
          /\ a.for = rows[p.id].for /\ a.attempts = rows[p.id].attempts
          /\ a.state = "delivered"
      BY <1>2, <1>5 DEF Row
    <3>2. r = [a EXCEPT !.attempts = @ + 1]
      OBVIOUS
    <3> HIDE DEF a, r
    <3> QED
      BY <3>1, <3>2 DEF Row
  <2>2. rows' = [rows EXCEPT ![p.id] = r]
    BY <1>5 DEF MarkSent
  <2> HIDE DEF r
  <2> QED
    BY <1>1, <1>5, <2>1, <2>2, TurnRecorded DEF p
<1>6. ASSUME NEW final \in BOOLEAN, p.id \in DOMAIN rows, MarkFailed(p.id, final),
             UNCHANGED owner, ~final => p.attempts + 1 < MaxAttempts
      PROVE  DeliveryInv'
  <2> DEFINE r == [rows[p.id] EXCEPT !.state = IF final THEN "failed" ELSE @,
                                     !.attempts = @ + 1, !.waiting = ~final]
  <2>1. /\ r \in Row /\ r.queue = rows[p.id].queue /\ r.to = rows[p.id].to
        /\ r.for = rows[p.id].for /\ r.attempts = rows[p.id].attempts + 1
        /\ r.state = "pending" => ~final
    <3> DEFINE a == [rows[p.id] EXCEPT !.state = IF final THEN "failed" ELSE @]
               b == [a EXCEPT !.attempts = @ + 1]
    <3>1. /\ a \in Row /\ a.queue = rows[p.id].queue /\ a.to = rows[p.id].to
          /\ a.for = rows[p.id].for /\ a.attempts = rows[p.id].attempts
          /\ a.state = "pending" => ~final
      BY <1>2, <1>6 DEF Row
    <3>2. r = [b EXCEPT !.waiting = ~final]
      OBVIOUS
    <3> HIDE DEF a, r
    <3>3. /\ b \in Row /\ b.queue = a.queue /\ b.to = a.to /\ b.for = a.for
          /\ b.attempts = a.attempts + 1 /\ b.state = a.state
      BY <3>1 DEF Row
    <3> HIDE DEF b
    <3>4. /\ r \in Row /\ r.queue = b.queue /\ r.to = b.to /\ r.for = b.for
          /\ r.attempts = b.attempts /\ r.state = b.state
      BY <3>2, <3>3 DEF Row
    <3> QED
      BY <3>1, <3>3, <3>4
  <2>2. rows' = [rows EXCEPT ![p.id] = r]
    BY <1>6 DEF MarkFailed
  <2>3. r.state = "pending" => rows[p.id].attempts + 1 < MaxAttempts
    BY <1>2, <1>6, <2>1 DEF PickMatchesRow
  <2> HIDE DEF r
  <2> QED
    BY <1>1, <1>6, <2>1, <2>2, <2>3, TurnRecorded DEF p
<1>7. CASE worker[q].result = "sent"
  BY <1>4, <1>5, <1>7 DEF Record, MarkSent, p
<1>8. CASE worker[q].result = "retry"
  <2>1. MarkFailed(p.id, LastAttempt(p)) /\ UNCHANGED owner
    BY <1>8 DEF Record, p
  <2>2. LastAttempt(p) \in BOOLEAN /\ (~LastAttempt(p) => p.attempts + 1 < MaxAttempts)
    BY <1>2, DeliveryAssumption DEF LastAttempt, Picked
  <2> QED
    BY <1>4, <1>6, <2>1, <2>2 DEF MarkFailed
<1>9. CASE worker[q].result = "dead"
  <2>1. MarkFailed(p.id, TRUE) /\ UNCHANGED owner
    BY <1>9 DEF Record, p
  <2> QED
    BY <1>4, <1>6, <2>1 DEF MarkFailed
<1>10. CASE worker[q].result = "reap"
  <2>1. /\ owner' = [owner EXCEPT ![p.to] = NoOne]
        /\ rows' = Without({i \in DOMAIN rows : rows[i].to = p.to})
    BY <1>10 DEF Record, p
  <2> QED
    BY <1>1, <2>1, DeviceReaped
<1> QED
  BY <1>3, <1>7, <1>8, <1>9, <1>10 DEF Results

LEMMA DeliveryInvariance == DeliverySpec => []DeliveryInv
<1>1. ASSUME DeliveryInv, [DeliveryNext]_deliveryVars
      PROVE  DeliveryInv'
  <2>1. CASE UNCHANGED deliveryVars
    <3>1. UNCHANGED <<hooks, owner, rows, lastRow, worker, faults, redelivered, taken>>
      BY <2>1 DEF deliveryVars
    <3>2. \A q \in Queues : Current(q)' = Current(q)
      BY <3>1 DEF Current
    <3>3. BatchesMatchRows' /\ ResultsAreReal'
      BY <1>1, <3>1, <3>2
         DEF DeliveryInv, BatchesMatchRows, PickMatchesRow, ResultsAreReal
    <3> QED
      BY <1>1, <3>1, <3>3 DEF DeliveryInv, DeliveryTypeOK, PushRowsOfDevices,
         PushesForOwner, PendingHasAttemptLeft, AttemptsBounded
  <2>2. ASSUME NEW h \in Hooks, AddWebhook(h) \/ RemoveWebhook(h)
        PROVE  DeliveryInv'
    BY <1>1, <2>2, WebhooksInv
  <2>3. ASSUME NEW u \in Accounts, NEW d \in Devices,
               AddPushDevice(u, d) \/ RemovePushDevice(u, d)
        PROVE  DeliveryInv'
    BY <1>1, <2>3, TokensInv
  <2>4. ASSUME NEW u \in Accounts, EnqueueMail(u) \/ EnqueuePush(u)
        PROVE  DeliveryInv'
    BY <1>1, <2>4, AlertsInv
  <2>5. ASSUME NEW k \in Kinds, RecordEvent(k)
        PROVE  DeliveryInv'
    BY <1>1, <2>5, EventsInv
  <2>6. ASSUME NEW i \in RowIds, Redeliver(i) \/ BackoffExpires(i) \/ Sweep(i)
        PROVE  DeliveryInv'
    BY <1>1, <2>6, RedeliverInv, BackoffInv, SweepInv
  <2>7. ASSUME NEW q \in Queues, Due(q) \/ Attempt(q) \/ Record(q) \/ RecordFails(q)
        PROVE  DeliveryInv'
    BY <1>1, <2>7, DueInv, AttemptInv, RecordInv, RecordFailsInv
  <2>8. CASE WorkersRestart
    BY <1>1, <2>8, RestartInv
  <2> QED
    BY <1>1, <2>1, <2>2, <2>3, <2>4, <2>5, <2>6, <2>7, <2>8 DEF DeliveryNext
<1> QED
  BY <1>1, InitDelivery, PTL DEF DeliverySpec

\* The tables, the workers and the counters keep their shape (webhook.go,
\* notify.go, push.go).
THEOREM DeliveryTypeCorrect == DeliverySpec => []DeliveryTypeOK
BY DeliveryInvariance, PTL DEF DeliveryInv

\* A push that waits is for the account its device is registered to, and no
\* row is tried more than MaxAttempts times and once for each redelivery, for
\* any number of rows, workers' batches and restarts (webhook.go, push.go).
THEOREM RowsAreBound == DeliverySpec => []RowsStayBound
BY DeliveryInvariance, PTL DEF DeliveryInv, RowsStayBound

-----------------------------------------------------------------------------
(* The queues implement AtLeastOnce *)

LEMMA PromiseInit == DeliveryInit => Promise!Init
<1> SUFFICES ASSUME DeliveryInit PROVE Promise!Init
  OBVIOUS
<1>1. lastRow = 0 /\ taken = {} /\ DOMAIN rows = {}
  BY DEF DeliveryInit
<1>2. \A i \in RowIds : i > lastRow /\ ~InQueue(i)
  BY <1>1, DeliveryAssumption DEF RowIds, InQueue
<1> QED
  BY <1>1, <1>2 DEF Promise!Init, ItemStates, ItemDests

\* Nothing is seen of a step that leaves the states and the destinations.
LEMMA NothingSeen ==
    ASSUME DeliveryInv, UNCHANGED <<lastRow, taken>>, DOMAIN rows' = DOMAIN rows,
           \A i \in DOMAIN rows : rows'[i].state = rows[i].state /\ rows'[i].to = rows[i].to
    PROVE  UNCHANGED Promise!vars
<1>1. ItemStates' = ItemStates
  BY DEF ItemStates, InQueue
<1>2. ItemDests' = ItemDests
  BY DEF ItemDests, InQueue
<1> QED
  BY <1>1, <1>2 DEF Promise!vars

\* Rows that go are items that are dropped.
LEMMA RowsGone ==
    ASSUME DeliveryInv, NEW S \in SUBSET DOMAIN rows, rows' = Without(S),
           UNCHANGED <<lastRow, taken>>
    PROVE  Promise!Drop(S) /\ S \in SUBSET RowIds
<1>1. /\ DOMAIN rows \subseteq 1..lastRow /\ lastRow \in 0..MaxRows
      /\ DOMAIN rows' = DOMAIN rows \ S
      /\ \A i \in DOMAIN rows' : rows'[i] = rows[i]
  BY WithoutRows DEF DeliveryInv, DeliveryTypeOK
<1>2. \A i \in S : i \in RowIds /\ ~(i > lastRow)
  BY <1>1, DeliveryAssumption DEF RowIds
<1>3. ItemStates' = [i \in RowIds |-> IF i \in S THEN "dropped" ELSE ItemStates[i]]
  BY <1>1, <1>2 DEF ItemStates, InQueue
<1>4. ItemDests' = [i \in RowIds |-> IF i \in S THEN Nowhere ELSE ItemDests[i]]
  BY <1>1, <1>2 DEF ItemDests, InQueue
<1> QED
  BY <1>2, <1>3, <1>4 DEF Promise!Drop, Promise!Move

\* A row that is settled, or queued again, is an item that moves.
LEMMA RowMoves ==
    ASSUME DeliveryInv, NEW i \in DOMAIN rows, NEW r \in Row, r.to = rows[i].to,
           rows' = [rows EXCEPT ![i] = r], UNCHANGED <<lastRow, taken>>
    PROVE  /\ i \in RowIds /\ ItemStates[i] = rows[i].state
           /\ ItemStates' = [k \in RowIds |-> IF k \in {i} THEN r.state ELSE ItemStates[k]]
           /\ ItemDests' = ItemDests
<1>1. /\ DOMAIN rows \subseteq 1..lastRow /\ lastRow \in 0..MaxRows
      /\ DOMAIN rows' = DOMAIN rows /\ rows'[i] = r
      /\ \A k \in DOMAIN rows : k # i => rows'[k] = rows[k]
  BY DEF DeliveryInv, DeliveryTypeOK
<1>2. i \in RowIds /\ ~(i > lastRow)
  BY <1>1, DeliveryAssumption DEF RowIds
<1>3. ItemStates[i] = rows[i].state
  BY <1>2 DEF ItemStates, InQueue
<1>4. ItemStates' = [k \in RowIds |-> IF k \in {i} THEN r.state ELSE ItemStates[k]]
  BY <1>1, <1>2 DEF ItemStates, InQueue
<1>5. ItemDests' = ItemDests
  BY <1>1, <1>2 DEF ItemDests, InQueue
<1> QED
  BY <1>2, <1>3, <1>4, <1>5

LEMMA GoneSeen ==
    ASSUME DeliveryInv, NEW d \in Dests, NEW S \in SUBSET DOMAIN rows,
           \A i \in S : rows[i].to = d,
           rows' = Without(S), UNCHANGED <<lastRow, taken>>
    PROVE  Promise!Next
<1>1. Promise!Drop(S) /\ S \in SUBSET RowIds
  BY RowsGone
<1>2. \A i \in S : ItemDests[i] = d
  BY <1>1 DEF ItemDests, InQueue
<1>3. Promise!DestinationGone(d, S)
  BY <1>1, <1>2 DEF Promise!DestinationGone
<1> QED
  BY <1>1, <1>3 DEF Promise!Next

LEMMA EnqueueSeen ==
    ASSUME DeliveryInv, NEW q \in Queues, NEW for \in Accounts \cup {NoOne},
           NEW S \in SUBSET Dests, IsFiniteSet(S), Enqueue(q, S, for)
    PROVE  Promise!Next
<1>1. /\ DOMAIN rows \subseteq 1..lastRow /\ lastRow \in 0..MaxRows
      /\ lastRow' \in lastRow..MaxRows /\ UNCHANGED taken
  BY EnqueueRows DEF DeliveryInv, DeliveryTypeOK, Enqueue
<1>2. PICK to \in [NewRows -> S] : Inserted(q, to, for)
  BY EnqueueRows DEF DeliveryInv
<1>3. /\ NewRows \in SUBSET RowIds /\ to \in [NewRows -> Dests]
      /\ \A i \in RowIds : i \in NewRows <=> i > lastRow /\ i <= lastRow'
  BY <1>1, <1>2, DeliveryAssumption DEF NewRows, RowIds
<1>4. \A i \in NewRows : ItemStates[i] = "new"
  BY <1>3 DEF ItemStates
<1>5. ItemStates' = [i \in RowIds |-> IF i \in NewRows THEN "pending" ELSE ItemStates[i]]
  <2> SUFFICES ASSUME NEW i \in RowIds
               PROVE  ItemStates'[i] = IF i \in NewRows THEN "pending" ELSE ItemStates[i]
    BY DEF ItemStates
  <2>1. CASE i \in NewRows
    BY <1>1, <1>2, <1>3, <2>1, DeliveryAssumption DEF ItemStates, InQueue, Inserted, RowIds
  <2>2. CASE i \notin NewRows /\ i > lastRow
    BY <1>1, <1>3, <2>2, DeliveryAssumption DEF ItemStates, RowIds
  <2>3. CASE ~(i > lastRow)
    <3>1. i \notin NewRows /\ ~(i > lastRow')
      BY <1>1, <1>3, <2>3, DeliveryAssumption DEF RowIds
    <3> QED
      BY <1>2, <2>3, <3>1 DEF ItemStates, InQueue, Inserted
  <2> QED
    BY <2>1, <2>2, <2>3
<1>6. ItemDests' = [i \in RowIds |-> IF i \in NewRows THEN to[i] ELSE ItemDests[i]]
  BY <1>2 DEF ItemDests, InQueue, Inserted
<1>7. Promise!Accept(NewRows, to)
  BY <1>1, <1>4, <1>5, <1>6 DEF Promise!Accept, Promise!Move
<1> QED
  BY <1>3, <1>7 DEF Promise!Next

\* A destination that goes away, or changes hands, takes its rows with it.
LEMMA WebhooksSeen ==
    ASSUME DeliveryInv, NEW h \in Hooks, AddWebhook(h) \/ RemoveWebhook(h)
    PROVE  [Promise!Next]_Promise!vars
<1>1. CASE AddWebhook(h)
  BY <1>1, NothingSeen DEF AddWebhook
<1>2. CASE RemoveWebhook(h)
  <2> DEFINE S == {i \in DOMAIN rows : rows[i].to = h}
  <2>1. /\ S \in SUBSET DOMAIN rows /\ \A i \in S : rows[i].to = h
        /\ rows' = Without(S) /\ UNCHANGED <<lastRow, taken>> /\ h \in Dests
    BY <1>2 DEF RemoveWebhook, Dests
  <2> HIDE DEF S
  <2> QED
    BY <2>1, GoneSeen
<1> QED
  BY <1>1, <1>2

LEMMA TokensSeen ==
    ASSUME DeliveryInv, NEW u \in Accounts, NEW d \in Devices,
           AddPushDevice(u, d) \/ RemovePushDevice(u, d)
    PROVE  [Promise!Next]_Promise!vars
<1>1. PICK S \in SUBSET DOMAIN rows : rows' = Without(S) /\ \A i \in S : rows[i].to = d
  <2>1. CASE AddPushDevice(u, d)
    BY <2>1 DEF AddPushDevice
  <2>2. CASE RemovePushDevice(u, d)
    BY <2>2 DEF RemovePushDevice
  <2> QED
    BY <2>1, <2>2
<1>2. UNCHANGED <<lastRow, taken>> /\ d \in Dests
  BY DEF AddPushDevice, RemovePushDevice, Dests
<1> QED
  BY <1>1, <1>2, GoneSeen

LEMMA QueueingSeen ==
    ASSUME DeliveryInv,
           \/ \E u \in Accounts : EnqueueMail(u) \/ EnqueuePush(u)
           \/ \E k \in Kinds : RecordEvent(k)
    PROVE  Promise!Next
<1>1. \A h \in SUBSET Hooks : IsFiniteSet(h) /\ h \in SUBSET Dests
  BY DeliveryAssumption, FS_Subset DEF Dests
<1>2. \A d \in SUBSET Devices : IsFiniteSet(d) /\ d \in SUBSET Dests
  BY DeliveryAssumption, FS_Subset DEF Dests
<1>3. ASSUME NEW u \in Accounts, EnqueueMail(u)
      PROVE  Promise!Next
  <2>1. IsFiniteSet({u}) /\ {u} \in SUBSET Dests
    BY FS_Singleton DEF Dests
  <2> QED
    BY <1>3, <2>1, EnqueueSeen DEF EnqueueMail, Queues
<1>4. ASSUME NEW u \in Accounts, EnqueuePush(u)
      PROVE  Promise!Next
  <2> DEFINE S == {d \in Devices : owner[d] = u}
  <2>1. S \in SUBSET Devices /\ Enqueue("push", S, u)
    BY <1>4 DEF EnqueuePush
  <2> HIDE DEF S
  <2> QED
    BY <1>2, <2>1, EnqueueSeen DEF Queues
<1>5. ASSUME NEW k \in Kinds, RecordEvent(k)
      PROVE  Promise!Next
  <2> DEFINE S == {h \in hooks : k \in Filter[h]}
  <2>1. S \in SUBSET Hooks /\ Enqueue("webhook", S, NoOne)
    BY <1>5 DEF RecordEvent, DeliveryInv, DeliveryTypeOK
  <2> HIDE DEF S
  <2> QED
    BY <1>1, <2>1, EnqueueSeen DEF Queues
<1> QED
  BY <1>3, <1>4, <1>5

\* A settled row is queued again; a pending one stays where it is.
LEMMA RedeliverSeen ==
    ASSUME DeliveryInv, NEW i \in RowIds, Redeliver(i)
    PROVE  [Promise!Next]_Promise!vars
<1> DEFINE r == [rows[i] EXCEPT !.state = "pending", !.waiting = FALSE]
<1>1. /\ i \in DOMAIN rows /\ rows[i] \in Row /\ UNCHANGED <<lastRow, taken>>
      /\ rows' = [rows EXCEPT ![i] = r]
  BY DEF Redeliver, DeliveryInv, DeliveryTypeOK
<1>2. r \in Row /\ r.to = rows[i].to /\ r.state = "pending"
  BY <1>1 DEF Row
<1> HIDE DEF r
<1>3. /\ ItemStates[i] = rows[i].state /\ ItemDests' = ItemDests
      /\ ItemStates' = [k \in RowIds |-> IF k \in {i} THEN "pending" ELSE ItemStates[k]]
  BY <1>1, <1>2, RowMoves
<1>4. CASE rows[i].state = "pending"
  <2>1. \A k \in DOMAIN rows : rows'[k].state = rows[k].state /\ rows'[k].to = rows[k].to
    BY <1>1, <1>2, <1>4 DEF DeliveryInv, DeliveryTypeOK
  <2>2. DOMAIN rows' = DOMAIN rows
    BY <1>1 DEF DeliveryInv, DeliveryTypeOK
  <2> QED
    BY <1>1, <2>1, <2>2, NothingSeen
<1>5. CASE rows[i].state \in {"delivered", "failed"}
  BY <1>1, <1>3, <1>5 DEF Promise!Requeue, Promise!Move, Promise!Next
<1> QED
  BY <1>1, <1>4, <1>5 DEF Row

LEMMA BackoffSeen ==
    ASSUME DeliveryInv, NEW i \in RowIds, BackoffExpires(i)
    PROVE  [Promise!Next]_Promise!vars
<1>1. /\ i \in DOMAIN rows /\ rows[i] \in Row /\ UNCHANGED <<lastRow, taken>>
      /\ rows' = [rows EXCEPT ![i] = [rows[i] EXCEPT !.waiting = FALSE]]
      /\ rows \in [DOMAIN rows -> Row]
  BY DEF BackoffExpires, DeliveryInv, DeliveryTypeOK
<1>2. \A k \in DOMAIN rows : rows'[k].state = rows[k].state /\ rows'[k].to = rows[k].to
  BY <1>1 DEF Row
<1> QED
  BY <1>1, <1>2, NothingSeen

\* Whatever the sweep deletes was settled.
LEMMA SweepSeen ==
    ASSUME DeliveryInv, NEW cutoff \in RowIds, Sweep(cutoff)
    PROVE  Promise!Next
<1> DEFINE Swept(n) == UNION {SweptRows(SweepOrder[k], cutoff) : k \in 1..n}
<1>1. UNCHANGED <<lastRow, taken>>
  BY DEF Sweep
<1>2. PICK n \in 1..Len(SweepOrder) : rows' = Without(Swept(n))
  BY DEF Sweep
<1>3. \A k \in 1..n : \A i \in SweptRows(SweepOrder[k], cutoff) :
         i \in DOMAIN rows /\ rows[i].state # "pending"
  BY DEF SweptRows
<1> DEFINE S == Swept(n)
<1>4. \A i \in S : i \in DOMAIN rows /\ rows[i].state \in {"delivered", "failed"}
  BY <1>3 DEF DeliveryInv, DeliveryTypeOK, Row
<1> HIDE DEF Swept, S
<1>5. rows' = Without(S)
  BY <1>2 DEF S
<1>6. S \in SUBSET DOMAIN rows
  BY <1>4
<1>7. Promise!Drop(S) /\ S \in SUBSET RowIds
  BY <1>1, <1>5, <1>6, RowsGone
<1>8. \A i \in S : ItemStates[i] \in {"delivered", "failed"}
  <2> SUFFICES ASSUME NEW i \in S PROVE ItemStates[i] = rows[i].state
    BY <1>4
  <2>1. i \in 1..lastRow /\ i \in RowIds /\ lastRow \in Nat
    BY <1>6, <1>7 DEF DeliveryInv, DeliveryTypeOK
  <2> QED
    BY <1>4, <2>1 DEF ItemStates, InQueue
<1> QED
  BY <1>7, <1>8 DEF Promise!Forget, Promise!Next

\* The worker sends what it read, whatever has become of the row.
LEMMA AttemptSeen ==
    ASSUME DeliveryInv, NEW q \in Queues, Attempt(q)
    PROVE  [Promise!Next]_Promise!vars
<1>1. UNCHANGED <<rows, lastRow>> /\ worker[q].batch # {}
  BY DEF Attempt
<1>2. ItemStates' = ItemStates /\ ItemDests' = ItemDests
  BY <1>1 DEF ItemStates, ItemDests, InQueue
<1>3. CASE taken' = taken
  BY <1>2, <1>3 DEF Promise!vars
<1>4. CASE taken' = taken \cup {Current(q).id}
  <2> DEFINE i == Current(q).id
  <2>1. i \in RowIds /\ i <= lastRow
    BY <1>1, CurrentInBatch
       DEF DeliveryInv, BatchesMatchRows, PickMatchesRow, Picked
  <2>2. lastRow \in Nat /\ i \in Nat
    BY <2>1, DeliveryAssumption DEF DeliveryInv, DeliveryTypeOK, RowIds
  <2> HIDE DEF i
  <2>3. ItemStates[i] # "new"
    <3>1. \A k \in DOMAIN rows : rows[k].state # "new"
      BY DEF DeliveryInv, DeliveryTypeOK, Row
    <3> QED
      BY <2>1, <2>2, <3>1 DEF ItemStates, InQueue
  <2>4. Promise!Send(i)
    BY <1>2, <1>4, <2>3 DEF Promise!Send, i
  <2> QED
    BY <2>1, <2>4 DEF Promise!Next
<1> QED
  BY <1>3, <1>4 DEF Attempt

\* A result is recorded of a row that is still pending: delivered only when it
\* was sent. A row that will be tried again has not moved.
LEMMA RecordSeen ==
    ASSUME DeliveryInv, NEW q \in Queues, Record(q)
    PROVE  [Promise!Next]_Promise!vars
<1> DEFINE p == Current(q)
           i == Current(q).id
<1>1. /\ worker[q].result # "" /\ worker[q].batch # {} /\ UNCHANGED <<lastRow, taken>>
      /\ worker[q].result \in Results
  BY DEF Record, DeliveryInv, DeliveryTypeOK, Worker, ResultsAreReal
<1>2. /\ p \in Picked /\ i = p.id
      /\ i \in DOMAIN rows => rows[i] \in Row /\ rows[i].state = "pending"
      /\ rows \in [DOMAIN rows -> Row]
  <2>1. p \in worker[q].batch /\ p \in Picked /\ i = p.id
    BY <1>1, CurrentInBatch DEF DeliveryInv
  <2>2. PickMatchesRow(q, p)
    BY <2>1 DEF DeliveryInv, BatchesMatchRows
  <2>3. rows \in [DOMAIN rows -> Row]
    BY DEF DeliveryInv, DeliveryTypeOK
  <2> HIDE DEF p, i
  <2> QED
    BY <2>1, <2>2, <2>3 DEF PickMatchesRow
<1> HIDE DEF p, i
<1>3. CASE UNCHANGED rows
  BY <1>1, <1>3, NothingSeen
<1>4. CASE i \in DOMAIN rows /\ MarkSent(i) /\ worker[q].result = "sent"
  <2> DEFINE a == [rows[i] EXCEPT !.state = "delivered"]
             r == [a EXCEPT !.attempts = @ + 1]
  <2>1. a \in Row /\ a.to = rows[i].to /\ a.state = "delivered"
    BY <1>2, <1>4 DEF Row
  <2>2. rows' = [rows EXCEPT ![i] = r]
    BY <1>4 DEF MarkSent
  <2> HIDE DEF a
  <2>3. r \in Row /\ r.to = rows[i].to /\ r.state = "delivered"
    BY <2>1 DEF Row
  <2> HIDE DEF r
  <2>4. /\ i \in RowIds /\ ItemStates[i] = "pending" /\ ItemDests' = ItemDests
        /\ ItemStates' = [k \in RowIds |-> IF k \in {i} THEN "delivered" ELSE ItemStates[k]]
    BY <1>1, <1>2, <1>4, <2>2, <2>3, RowMoves
  <2>5. i \in taken
    BY <1>4 DEF DeliveryInv, ResultsAreReal, i
  <2>6. Promise!Settle(i)
    BY <1>1, <2>4, <2>5 DEF Promise!Settle, Promise!Move
  <2> QED
    BY <2>4, <2>6 DEF Promise!Next
<1>5. ASSUME NEW final \in BOOLEAN, i \in DOMAIN rows, MarkFailed(i, final)
      PROVE  [Promise!Next]_Promise!vars
  <2> DEFINE a == [rows[i] EXCEPT !.state = IF final THEN "failed" ELSE @]
             b == [a EXCEPT !.attempts = @ + 1]
             r == [b EXCEPT !.waiting = ~final]
  <2>1. /\ a \in Row /\ a.to = rows[i].to
        /\ a.state = IF final THEN "failed" ELSE "pending"
    BY <1>2, <1>5 DEF Row
  <2>2. rows' = [rows EXCEPT ![i] = r]
    BY <1>5 DEF MarkFailed
  <2> HIDE DEF a
  <2>3. b \in Row /\ b.to = a.to /\ b.state = a.state
    BY <2>1 DEF Row
  <2> HIDE DEF b
  <2>4. r \in Row /\ r.to = b.to /\ r.state = b.state
    BY <2>3 DEF Row
  <2> HIDE DEF r
  <2>5. r.to = rows[i].to /\ r.state = IF final THEN "failed" ELSE "pending"
    BY <2>1, <2>3, <2>4
  <2>6. CASE final
    <3>1. /\ i \in RowIds /\ ItemStates[i] = "pending" /\ ItemDests' = ItemDests
          /\ ItemStates' = [k \in RowIds |-> IF k \in {i} THEN "failed" ELSE ItemStates[k]]
      BY <1>1, <1>2, <1>5, <2>2, <2>4, <2>5, <2>6, RowMoves
    <3>2. Promise!Settle(i)
      BY <1>1, <3>1 DEF Promise!Settle, Promise!Move
    <3> QED
      BY <3>1, <3>2 DEF Promise!Next
  <2>7. CASE ~final
    <3>1. DOMAIN rows' = DOMAIN rows
      BY <1>2, <2>2
    <3>2. \A k \in DOMAIN rows : rows'[k].state = rows[k].state /\ rows'[k].to = rows[k].to
      BY <1>2, <1>5, <2>2, <2>5, <2>7
    <3> QED
      BY <1>1, <3>1, <3>2, NothingSeen
  <2> QED
    BY <2>6, <2>7
<1>6. CASE worker[q].result = "sent"
  <2>1. MarkSent(i)
    BY <1>6 DEF Record, i
  <2> QED
    BY <1>3, <1>4, <1>6, <2>1 DEF MarkSent
<1>7. CASE worker[q].result = "retry"
  <2>1. MarkFailed(i, LastAttempt(p))
    BY <1>7 DEF Record, i, p
  <2>2. LastAttempt(p) \in BOOLEAN
    BY <1>2, DeliveryAssumption DEF LastAttempt, Picked
  <2> QED
    BY <1>3, <1>5, <2>1, <2>2 DEF MarkFailed
<1>8. CASE worker[q].result = "dead"
  <2>1. MarkFailed(i, TRUE)
    BY <1>8 DEF Record, i
  <2> QED
    BY <1>3, <1>5, <2>1 DEF MarkFailed
<1>9. CASE worker[q].result = "reap"
  <2> DEFINE S == {k \in DOMAIN rows : rows[k].to = p.to}
  <2>1. rows' = Without(S)
    BY <1>9 DEF Record, p
  <2>2. p.to \in Dests /\ S \in SUBSET DOMAIN rows /\ \A k \in S : rows[k].to = p.to
    BY <1>2 DEF Picked
  <2> HIDE DEF S
  <2> QED
    BY <1>1, <2>1, <2>2, GoneSeen
<1> QED
  BY <1>1, <1>6, <1>7, <1>8, <1>9 DEF Results

\* The queues keep the promise of AtLeastOnce, step by step: what was accepted
\* is sent until it is settled, is called delivered only after it was sent,
\* and leaves while it is pending only with its destination (webhook.go,
\* notify.go, push.go, retention.go).
THEOREM QueuesKeepPromise == DeliverySpec => KeepsPromise
<1>1. ASSUME DeliveryInv, [DeliveryNext]_deliveryVars
      PROVE  [Promise!Next]_Promise!vars
  <2>1. ASSUME UNCHANGED <<rows, lastRow, taken>>
        PROVE  [Promise!Next]_Promise!vars
    BY <1>1, <2>1, NothingSeen
  <2>2. CASE UNCHANGED deliveryVars
    BY <2>1, <2>2 DEF deliveryVars
  <2>3. ASSUME NEW h \in Hooks, AddWebhook(h) \/ RemoveWebhook(h)
        PROVE  [Promise!Next]_Promise!vars
    BY <1>1, <2>3, WebhooksSeen
  <2>4. ASSUME NEW u \in Accounts, NEW d \in Devices,
               AddPushDevice(u, d) \/ RemovePushDevice(u, d)
        PROVE  [Promise!Next]_Promise!vars
    BY <1>1, <2>4, TokensSeen
  <2>5. CASE \/ \E u \in Accounts : EnqueueMail(u) \/ EnqueuePush(u)
             \/ \E k \in Kinds : RecordEvent(k)
    BY <1>1, <2>5, QueueingSeen
  <2>6. ASSUME NEW i \in RowIds, Redeliver(i) \/ BackoffExpires(i) \/ Sweep(i)
        PROVE  [Promise!Next]_Promise!vars
    BY <1>1, <2>6, RedeliverSeen, BackoffSeen, SweepSeen
  <2>7. ASSUME NEW q \in Queues, Attempt(q) \/ Record(q)
        PROVE  [Promise!Next]_Promise!vars
    BY <1>1, <2>7, AttemptSeen, RecordSeen
  <2>8. ASSUME NEW q \in Queues, Due(q) \/ RecordFails(q)
        PROVE  [Promise!Next]_Promise!vars
    BY <2>1, <2>8 DEF Due, RecordFails
  <2>9. CASE WorkersRestart
    BY <2>1, <2>9 DEF WorkersRestart
  <2> QED
    BY <1>1, <2>2, <2>3, <2>4, <2>5, <2>6, <2>7, <2>8, <2>9 DEF DeliveryNext
<1> QED
  BY <1>1, PromiseInit, DeliveryInvariance, PTL DEF DeliverySpec, KeepsPromise, Promise!Spec

-----------------------------------------------------------------------------
(* Mirrors *)

\* A result is that of a mirror of the worker's list, and only a pull goes on
\* to ask for an index.
SyncerInStep ==
    /\ syncer.result # "none" => syncer.list # {}
    /\ syncer.result = "recorded" => Direction[First] = "pull"

\* Nothing is sent, fetched, marked or indexed that the repository never
\* held, and only the interval of a pull mirror passes.
MirrorsFollow ==
    /\ unmarked \subseteq 1..local
    /\ fetched <= local
    /\ indexAsked <= local
    /\ \A m \in MirrorIds : remote[m] <= local
    /\ \A m \in DOMAIN mirrors : mirrors[m].stale => Direction[m] = "pull"

MirrorInv == MirrorTypeOK /\ SyncerInStep /\ MirrorsFollow

\* The first mirror of a list is one of it: the list is not empty and mirrors
\* are told apart by number.
LEMMA FirstOfList ==
  ASSUME MirrorTypeOK, syncer.list # {}
  PROVE  First \in syncer.list /\ First \in MirrorIds
<1>1. syncer.list \subseteq Nat /\ syncer.list \subseteq MirrorIds
  BY MirrorAssumption DEF MirrorTypeOK, Syncer
<1>2. PICK m \in syncer.list : \A k \in syncer.list : m <= k
  BY <1>1, LeastOf
<1> QED
  BY <1>1, <1>2 DEF First

LEMMA InitMirror == MirrorInit => MirrorInv
BY MirrorAssumption
DEF MirrorInit, MirrorInv, MirrorTypeOK, SyncerInStep, MirrorsFollow, IdleSyncer,
    Syncer, MirrorRow, RefVersions

\* Marking changes no row but for its mark.
LEMMA MarkedShape ==
  ASSUME NEW ms, \A m \in DOMAIN ms : ms[m] \in MirrorRow, NEW which
  PROVE  /\ DOMAIN Marked(ms, which) = DOMAIN ms
         /\ \A m \in DOMAIN ms : /\ Marked(ms, which)[m] \in MirrorRow
                                 /\ Marked(ms, which)[m].stale = ms[m].stale
BY DEF Marked, MirrorRow

\* The commands that write rows: a new one is stale only as a pull.
LEMMA MirrorCommandsKeep ==
  ASSUME MirrorInv,
         (\E m \in MirrorIds : AddMirror(m) \/ RemoveMirror(m)) \/ SyncCommand
  PROVE  MirrorInv'
<1> USE MirrorAssumption
<1>1. mirrorCmds' \in 0..MaxMirrorCmds
  <2>1. MirrorCommand
    BY DEF AddMirror, RemoveMirror, SyncCommand
  <2> QED
    BY <2>1 DEF MirrorCommand, MirrorInv, MirrorTypeOK
<1>2. UNCHANGED <<local, unmarked, upstream, fetched, indexAsked, remote, syncer,
                  mirrorRestarts>>
  BY DEF AddMirror, RemoveMirror, SyncCommand
<1> DEFINE RowsFit == /\ DOMAIN mirrors \subseteq MirrorIds
                      /\ \A m \in DOMAIN mirrors :
                           /\ mirrors[m] \in MirrorRow
                           /\ mirrors[m].stale => Direction[m] = "pull"
<1>3. RowsFit'
  <2>1. ASSUME NEW m \in MirrorIds, AddMirror(m) PROVE RowsFit'
    <3>1. DOMAIN mirrors' = DOMAIN mirrors \cup {m}
      BY <2>1 DEF AddMirror
    <3>2. \A k \in DOMAIN mirrors : k # m /\ mirrors'[k] = mirrors[k]
      BY <2>1 DEF AddMirror
    <3>3. mirrors'[m] = [dirty |-> TRUE, failed |-> FALSE,
                         stale |-> Direction[m] = "pull"]
      BY <2>1 DEF AddMirror
    <3>4. mirrors'[m] \in MirrorRow /\ (mirrors'[m].stale => Direction[m] = "pull")
      <4>1. CASE Direction[m] = "pull"
        <5>1. mirrors'[m] = [dirty |-> TRUE, failed |-> FALSE, stale |-> TRUE]
          BY <4>1, <3>3
        <5> QED
          BY <4>1, <5>1 DEF MirrorRow
      <4>2. CASE Direction[m] # "pull"
        <5>1. mirrors'[m] = [dirty |-> TRUE, failed |-> FALSE, stale |-> FALSE]
          BY <4>2, <3>3
        <5> QED
          BY <5>1 DEF MirrorRow
      <4> QED
        BY <4>1, <4>2
    <3>5. RowsFit
      BY DEF MirrorInv, MirrorTypeOK, MirrorsFollow
    <3>6. DOMAIN mirrors' \subseteq MirrorIds
      BY <3>1, <3>5
    <3>7. ASSUME NEW k \in DOMAIN mirrors'
          PROVE  mirrors'[k] \in MirrorRow /\ (mirrors'[k].stale => Direction[k] = "pull")
      <4>1. CASE k = m
        BY <4>1, <3>4
      <4>2. CASE k # m
        <5>1. k \in DOMAIN mirrors
          BY <4>2, <3>1
        <5> QED
          BY <5>1, <3>2, <3>5
      <4> QED
        BY <4>1, <4>2
    <3> QED
      BY <3>6, <3>7
  <2>2. CASE \E m \in MirrorIds : RemoveMirror(m)
    BY <2>2 DEF RemoveMirror, MirrorInv, MirrorTypeOK, MirrorsFollow
  <2>3. CASE SyncCommand
    BY <2>3, MarkedShape DEF SyncCommand, MirrorInv, MirrorTypeOK, MirrorsFollow
  <2> QED
    BY <2>1, <2>2, <2>3
<1> QED
  BY <1>1, <1>2, <1>3
  DEF MirrorInv, MirrorTypeOK, SyncerInStep, MirrorsFollow, First

\* The refs move, and what they hold is marked afterwards or not at all.
LEMMA RefsKeep ==
  ASSUME MirrorInv,
         \/ RefUpdate(TRUE) \/ RefUpdate(FALSE) \/ UpstreamMoves
         \/ \E v \in RefVersions : MarkDirty(v)
         \/ \E m \in MirrorIds : IntervalPasses(m)
  PROVE  MirrorInv'
<1> USE MirrorAssumption
<1>1. CASE RefUpdate(TRUE) \/ RefUpdate(FALSE)
  <2>1. /\ local \in Nat /\ local' = local + 1 /\ local' \in 0..MaxUpdates
        /\ unmarked' = unmarked \cup {local + 1}
        /\ UNCHANGED <<mirrors, upstream, fetched, indexAsked, remote, syncer,
                       mirrorCmds, mirrorRestarts>>
    BY <1>1 DEF RefUpdate, MirrorInv, MirrorTypeOK
  <2>2. unmarked' \subseteq 1..local' /\ unmarked' \subseteq 1..MaxUpdates
    BY <2>1 DEF MirrorInv, MirrorsFollow
  <2>3. fetched <= local' /\ indexAsked <= local' /\ \A m \in MirrorIds : remote[m] <= local'
    BY <2>1 DEF MirrorInv, MirrorTypeOK, MirrorsFollow
  <2> QED
    BY <2>1, <2>2, <2>3
    DEF MirrorInv, MirrorTypeOK, SyncerInStep, MirrorsFollow, First, RefVersions
<1>2. CASE UpstreamMoves
  BY <1>2 DEF UpstreamMoves, MirrorInv, MirrorTypeOK, SyncerInStep, MirrorsFollow, First
<1>3. ASSUME NEW v \in RefVersions, MarkDirty(v) PROVE MirrorInv'
  BY <1>3, MarkedShape
  DEF MarkDirty, MirrorInv, MirrorTypeOK, SyncerInStep, MirrorsFollow, First
<1>4. ASSUME NEW m \in MirrorIds, IntervalPasses(m) PROVE MirrorInv'
  BY <1>4
  DEF IntervalPasses, MirrorInv, MirrorTypeOK, SyncerInStep, MirrorsFollow, First, MirrorRow
<1> QED
  BY <1>1, <1>2, <1>3, <1>4

\* A sync works on the first mirror of a list that is not empty; its result
\* waits there until it is recorded.
LEMMA SyncKeeps ==
  ASSUME MirrorInv, SweepMirrors \/ Sync
  PROVE  MirrorInv'
<1> USE MirrorAssumption
<1>1. CASE SweepMirrors
  BY <1>1
  DEF SweepMirrors, DueMirrors, IdleSyncer, Syncer, MirrorInv, MirrorTypeOK,
      SyncerInStep, MirrorsFollow
<1>2. CASE Sync
  <2>1. First \in MirrorIds
    BY <1>2, FirstOfList DEF Sync, MirrorInv
  <2>2. /\ syncer'.list = syncer.list /\ syncer' \in Syncer
        /\ syncer'.result \in {"ok", "error"}
    BY <1>2 DEF Sync, MirrorInv, MirrorTypeOK, Syncer
  <2>3. /\ local' \in 0..MaxUpdates /\ local <= local'
        /\ fetched' \in 0..MaxUpdates /\ fetched' <= local'
    <3>1. local \in 0..MaxUpdates /\ fetched \in 0..MaxUpdates /\ fetched <= local
      BY DEF MirrorInv, MirrorTypeOK, MirrorsFollow
    <3>2. \/ UNCHANGED <<local, fetched>>
          \/ local < MaxUpdates /\ local' = local + 1 /\ fetched' = local + 1
      BY <1>2 DEF Sync
    <3> QED
      BY <3>1, <3>2
  <2>4. /\ remote' \in [MirrorIds -> 0..MaxUpdates]
        /\ \A m \in MirrorIds : remote'[m] <= local'
    BY <1>2, <2>1, <2>3 DEF Sync, MirrorInv, MirrorTypeOK, MirrorsFollow
  <2>5. upstream' \in BOOLEAN
    BY <1>2 DEF Sync, MirrorInv, MirrorTypeOK
  <2>6. UNCHANGED <<mirrors, unmarked, indexAsked, mirrorCmds, mirrorRestarts>>
    BY <1>2 DEF Sync
  <2>7. MirrorTypeOK'
    BY <2>2, <2>3, <2>4, <2>5, <2>6 DEF MirrorInv, MirrorTypeOK, RefVersions
  <2>8. SyncerInStep'
    <3>1. syncer.list # {}
      BY <1>2 DEF Sync
    <3> QED
      BY <3>1, <2>2 DEF SyncerInStep
  <2>9. MirrorsFollow'
    <3>1. local \in Nat /\ unmarked \subseteq 1..local /\ indexAsked \in Nat
      BY DEF MirrorInv, MirrorTypeOK, MirrorsFollow
    <3>2. unmarked' \subseteq 1..local' /\ indexAsked' <= local'
      BY <3>1, <2>3, <2>6 DEF MirrorInv, MirrorsFollow
    <3>3. \A m \in DOMAIN mirrors' : mirrors'[m].stale => Direction[m] = "pull"
      BY <2>6 DEF MirrorInv, MirrorsFollow
    <3> QED
      BY <3>2, <3>3, <2>3, <2>4 DEF MirrorsFollow
  <2> QED
    BY <2>7, <2>8, <2>9 DEF MirrorInv
<1> QED
  BY <1>1, <1>2

\* The result is written in the row that was synced, if it is still there,
\* and what is left of the list is the worker's next.
LEMMA ResultKeeps ==
  ASSUME MirrorInv, SetMirrorResult \/ RequestIndex
  PROVE  MirrorInv'
<1> USE MirrorAssumption
<1>1. CASE SetMirrorResult
  <2>1. /\ DOMAIN mirrors' = DOMAIN mirrors
        /\ \A m \in DOMAIN mirrors :
             mirrors'[m] \in MirrorRow /\ (mirrors'[m].stale => mirrors[m].stale)
    <3>1. mirrors' = SetResult(mirrors, First, syncer.result = "error")
      BY <1>1 DEF SetMirrorResult
    <3>2. \A m \in DOMAIN mirrors : mirrors[m] \in MirrorRow
      BY DEF MirrorInv, MirrorTypeOK
    <3>3. DOMAIN mirrors' = DOMAIN mirrors
      BY <3>1 DEF SetResult
    <3>4. ASSUME NEW m \in DOMAIN mirrors
          PROVE  mirrors'[m] \in MirrorRow /\ (mirrors'[m].stale => mirrors[m].stale)
      <4>1. CASE m # First
        BY <4>1, <3>1, <3>2 DEF SetResult
      <4>2. CASE m = First /\ syncer.result = "error"
        <5>1. mirrors'[m] = [dirty |-> FALSE, failed |-> TRUE, stale |-> FALSE]
          BY <4>2, <3>1 DEF SetResult
        <5> QED
          BY <5>1 DEF MirrorRow
      <4>3. CASE m = First /\ syncer.result # "error"
        <5>1. mirrors'[m] = [dirty |-> FALSE, failed |-> FALSE, stale |-> FALSE]
          BY <4>3, <3>1 DEF SetResult
        <5> QED
          BY <5>1 DEF MirrorRow
      <4> QED
        BY <4>1, <4>2, <4>3
    <3> QED
      BY <3>3, <3>4
  <2>2. syncer' \in Syncer /\ SyncerInStep'
    BY <1>1 DEF SetMirrorResult, MirrorInv, MirrorTypeOK, Syncer, SyncerInStep, First
  <2> QED
    BY <1>1, <2>1, <2>2 DEF SetMirrorResult, MirrorInv, MirrorTypeOK, MirrorsFollow
<1>2. CASE RequestIndex
  BY <1>2
  DEF RequestIndex, Syncer, MirrorInv, MirrorTypeOK, SyncerInStep, MirrorsFollow
<1> QED
  BY <1>1, <1>2

LEMMA MirrorRestartKeeps == MirrorInv /\ MirrorRestart => MirrorInv'
BY MirrorAssumption
DEF MirrorRestart, IdleSyncer, Syncer, MirrorInv, MirrorTypeOK, SyncerInStep, MirrorsFollow

LEMMA MirrorInvariance == MirrorSpec => []MirrorInv
<1>1. MirrorInv /\ [MirrorNext]_mirrorVars => MirrorInv'
  <2> SUFFICES ASSUME MirrorInv, [MirrorNext]_mirrorVars PROVE MirrorInv'
    OBVIOUS
  <2>1. CASE UNCHANGED mirrorVars
    BY <2>1
    DEF mirrorVars, MirrorInv, MirrorTypeOK, SyncerInStep, MirrorsFollow, First
  <2>2. CASE MirrorNext
    BY <2>2, MirrorCommandsKeep, RefsKeep, SyncKeeps, ResultKeeps, MirrorRestartKeeps
    DEF MirrorNext
  <2> QED
    BY <2>1, <2>2
<1> QED
  BY <1>1, InitMirror, PTL DEF MirrorSpec

\* The mirror rows, the worker's list and the counters keep their shape
\* (mirror.go, store/mirrors.go).
THEOREM MirrorTypeCorrect == MirrorSpec => []MirrorTypeOK
BY MirrorInvariance, PTL DEF MirrorInv

\* A remote holds, and an index is asked for, nothing newer than the
\* repository, whatever the order of pushes, pulls, marks and restarts, and
\* the interval makes only a pull mirror due (mirror.go, Sync).
THEOREM RemotesStayBehind == MirrorSpec => []MirrorsFollow
BY MirrorInvariance, PTL DEF MirrorInv
=============================================================================
