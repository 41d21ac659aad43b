----------------------------- MODULE PackSlots -----------------------------
(***************************************************************************)
(* The limit on concurrent git processes (internal/packlimit) and the      *)
(* transports that take a slot from it: upload-pack and receive-pack over  *)
(* SSH (sshd.go), smart HTTP (httpd/smart.go) and git:// (gitd.go). The    *)
(* server has two limiters, one for fetches and one for pushes; the module *)
(* is one of them, either.                                                 *)
(*                                                                         *)
(* A request holds its slot from Acquire until git has exited. Every pass  *)
(* of Acquire's loop is one step, because it holds the mutex; so is the    *)
(* deferred end of the wait, which takes the mutex a second time.          *)
(***************************************************************************)
EXTENDS Integers, FiniteSets

CONSTANTS
    Requests,     \* git requests, numbered as they arrive
    Principals,   \* accounts, deploy keys and client addresses
    Class,        \* client addresses, the capped class
    MaxSlots, PerPrincipal, QueueLen, PerQueue

ASSUME PackSlotsAssumption ==
    /\ Requests \subseteq Nat
    /\ Class \subseteq Principals
    /\ {PerPrincipal, QueueLen, PerQueue} \subseteq Nat \ {0}
    /\ MaxSlots \in Nat \ {0, 1}

VARIABLES
    pushes,                     \* whether this is the limiter of the pushes
    req,                        \* the requests
    running, classHeld, queued, \* the limiter's counters
    held, waiting               \* its counters by principal

packVars == <<pushes, req, running, classHeld, queued, held, waiting>>

-----------------------------------------------------------------------------
(* The shape of the state *)

\* queued: about to look for a slot again; blocked: waiting on the channel it
\* read, woken once that is closed; taken and refused: the wait is over and
\* not yet taken off the counters; running; killed: git has been told to stop.
\* left: the client has gone (done). silent: the client neither reads nor
\* sends. A push: armed once its pack begins, started once pre-receive runs.
PackRequest == [at: {"new", "queued", "blocked", "taken", "refused", "running",
                 "killed", "over"},
            who: Principals \cup {""}, via: {"", "fetch", "git", "push"},
            woken: BOOLEAN, left: BOOLEAN, silent: BOOLEAN,
            armed: BOOLEAN, started: BOOLEAN]
NewRequest == [at |-> "new", who |-> "", via |-> "", woken |-> FALSE,
               left |-> FALSE, silent |-> FALSE, armed |-> FALSE,
               started |-> FALSE]
OverRequest == [NewRequest EXCEPT !.at = "over"]

PackTypeOK ==
    /\ pushes \in BOOLEAN
    /\ req \in [Requests -> PackRequest]
    /\ running \in 0..MaxSlots /\ classHeld \in 0..(MaxSlots - 1)
    /\ queued \in 0..QueueLen
    /\ held \in [Principals -> 0..PerPrincipal]
    /\ waiting \in [Principals -> 0..PerQueue]

PackInit ==
    /\ pushes \in BOOLEAN
    /\ req = [r \in Requests |-> NewRequest]
    /\ running = 0 /\ classHeld = 0 /\ queued = 0
    /\ held = [p \in Principals |-> 0]
    /\ waiting = [p \in Principals |-> 0]

\* Client addresses share all but one slot.
InClass(p) == p \in Class

\* A plausible mistake: nothing caps one principal.
FitsAnyPrincipal(p) ==
    (InClass(p) => classHeld < MaxSlots - 1) /\ running < MaxSlots

Fits(p) ==
    /\ InClass(p) => classHeld < MaxSlots - 1
    /\ running < MaxSlots /\ held[p] < PerPrincipal

-----------------------------------------------------------------------------
(* Acquire *)

Take(p) ==
    /\ running' = running + 1
    /\ held' = [held EXCEPT ![p] = @ + 1]
    /\ classHeld' = IF InClass(p) THEN classHeld + 1 ELSE classHeld

\* git:// knows its clients by address only; an address cannot push.
Asks(p, via) ==
    IF pushes THEN via = "push" /\ ~InClass(p)
    ELSE via = "fetch" \/ (via = "git" /\ InClass(p))

\* A free slot, a refusal, or a place in the queue.
Acquire(r, p, via) ==
    LET Became(at) == [req EXCEPT ![r].at = at, ![r].who = p, ![r].via = via]
        full == queued >= QueueLen \/ waiting[p] >= PerQueue
    IN  /\ req[r].at = "new" /\ Asks(p, via)
        /\ \A q \in Requests : q < r => req[q].at # "new"
        /\ \/ /\ Fits(p) /\ Take(p)
              /\ req' = Became("running")
              /\ UNCHANGED <<queued, waiting>>
           \/ /\ ~Fits(p) /\ full
              /\ req' = [req EXCEPT ![r] = OverRequest]
              /\ UNCHANGED <<running, classHeld, queued, held, waiting>>
           \/ /\ ~Fits(p) /\ ~full
              /\ req' = Became("queued")
              /\ queued' = queued + 1
              /\ waiting' = [waiting EXCEPT ![p] = @ + 1]
              /\ UNCHANGED <<running, classHeld, held>>
        /\ UNCHANGED pushes

\* A pass of the loop: gone, served, or blocked on the channel as it is now.
LookAgain(r) ==
    /\ req[r].at = "queued"
    /\ \/ /\ req[r].left
          /\ req' = [req EXCEPT ![r].at = "refused"]
          /\ UNCHANGED <<running, classHeld, held>>
       \/ /\ ~req[r].left /\ Fits(req[r].who) /\ Take(req[r].who)
          /\ req' = [req EXCEPT ![r].at = "taken"]
       \/ /\ ~req[r].left /\ ~Fits(req[r].who)
          /\ req' = [req EXCEPT ![r].at = "blocked", ![r].woken = FALSE]
          /\ UNCHANGED <<running, classHeld, held>>
    /\ UNCHANGED <<pushes, queued, waiting>>

Wake(r) ==
    /\ req[r].at = "blocked" /\ req[r].woken
    /\ req' = [req EXCEPT ![r].at = "queued", ![r].woken = FALSE]
    /\ UNCHANGED <<pushes, running, classHeld, queued, held, waiting>>

\* The timer or the client's end, whichever the select takes.
GiveUp(r) ==
    /\ req[r].at = "blocked"
    /\ req' = [req EXCEPT ![r].at = "refused", ![r].woken = FALSE]
    /\ UNCHANGED <<pushes, running, classHeld, queued, held, waiting>>

\* The deferred end of a wait.
LeaveQueue(r) ==
    /\ req[r].at \in {"taken", "refused"}
    /\ queued' = queued - 1
    /\ waiting' = [waiting EXCEPT ![req[r].who] = @ - 1]
    /\ req' = [req EXCEPT ![r] = IF @.at = "taken" THEN [@ EXCEPT !.at = "running"]
                                 ELSE OverRequest]
    /\ UNCHANGED <<pushes, running, classHeld, held>>

-----------------------------------------------------------------------------
(* The transports *)

\* The client leaves. git:// hands Acquire no channel and watches for stalls
\* only; elsewhere a queued wait ends, and a fetch that runs is killed. A
\* push's hang-up ends its input and receive-pack with it.
ClientLeaves(r) ==
    /\ req[r].at \notin {"new", "over"} /\ ~req[r].left
    /\ req[r].via # "git"
    /\ req' = [req EXCEPT ![r].left = TRUE,
                          ![r].at = IF @ = "running" THEN "killed" ELSE @]
    /\ UNCHANGED <<pushes, running, classHeld, queued, held, waiting>>

\* The client stops moving bytes, for ever.
FallsSilent(r) ==
    /\ req[r].at = "running" /\ ~req[r].silent
    /\ req' = [req EXCEPT ![r].silent = TRUE]
    /\ UNCHANGED <<pushes, running, classHeld, queued, held, waiting>>

\* packStart.seen and AwaitPreReceive: what a push has come to.
PushBegins(r) ==
    /\ req[r].at = "running" /\ req[r].via = "push" /\ ~req[r].silent
    /\ \/ ~req[r].armed /\ req' = [req EXCEPT ![r].armed = TRUE]
       \/ ~req[r].started
          /\ req' = [req EXCEPT ![r].armed = TRUE, ![r].started = TRUE]
    /\ UNCHANGED <<pushes, running, classHeld, queued, held, waiting>>

\* A plausible mistake: nothing limits the time before the pack begins.
OverdueIdle(r) == req[r].silent /\ (req[r].via = "push" => req[r].armed)

\* What the watches end: a transport whose client moves no byte (Watch, and
\* Idle once it is armed), and a push whose pre-receive has not started by
\* the receive deadline (cutStalledPush).
Overdue(r) ==
    \/ req[r].silent /\ (req[r].via = "push" => req[r].armed)
    \/ req[r].via = "push" /\ ~req[r].started

KillStalled(r) ==
    /\ req[r].at = "running" /\ Overdue(r)
    /\ req' = [req EXCEPT ![r].at = "killed"]
    /\ UNCHANGED <<pushes, running, classHeld, queued, held, waiting>>

\* A plausible mistake: one waiter is told of a free slot.
WokenOne(r) ==
    IF \E q \in Requests : req[q].at = "blocked"
    THEN {CHOOSE q \in Requests : req[q].at = "blocked"} ELSE {}

\* Closing the channel wakes everyone that waits on it.
Woken(r) == {q \in Requests : req[q].at = "blocked"}

\* A plausible mistake: the class is not given its slot back.
ClassHeldAfter(p) == classHeld

\* The counter of the class once p has given a slot back.
ClassHeldLess(p) == IF InClass(p) THEN classHeld - 1 ELSE classHeld

\* git exits and is waited for, then the slot is given back: finished, or
\* killed. A client that has fallen silent keeps git from finishing.
Release(r) ==
    LET p == req[r].who
    IN  /\ req[r].at = "killed" \/ (req[r].at = "running" /\ ~req[r].silent)
        /\ running' = running - 1
        /\ held' = [held EXCEPT ![p] = @ - 1]
        /\ classHeld' = ClassHeldLess(p)
        /\ req' = [q \in Requests |->
                     IF q = r THEN OverRequest
                     ELSE IF q \in Woken(r) THEN [req[q] EXCEPT !.woken = TRUE]
                     ELSE req[q]]
        /\ UNCHANGED <<pushes, queued, waiting>>

-----------------------------------------------------------------------------

PackNext ==
    \E r \in Requests :
        \/ \E p \in Principals, via \in {"fetch", "git", "push"} :
             Acquire(r, p, via)
        \/ LookAgain(r) \/ Wake(r) \/ GiveUp(r) \/ LeaveQueue(r)
        \/ ClientLeaves(r) \/ FallsSilent(r) \/ PushBegins(r)
        \/ KillStalled(r) \/ Release(r)

PackSpec == PackInit /\ [][PackNext]_packVars

\* Acquire's goroutine runs, its timer fires, the watches' tickers fire, and
\* git exits once it is killed or its client has what it asked for.
PackFairness ==
    \A r \in Requests :
        /\ WF_packVars(LookAgain(r) \/ Wake(r) \/ GiveUp(r) \/ LeaveQueue(r))
        /\ WF_packVars(KillStalled(r))
        /\ WF_packVars(Release(r))

-----------------------------------------------------------------------------
(* Properties *)

\* Who holds a slot, from the step that takes it to the exit of its git
\* process, and who has a place in the queue, until its deferred end.
HasSlot(r) == req[r].at \in {"taken", "running", "killed"}
HasPlace(r) == req[r].at \in {"queued", "blocked", "taken", "refused"}

\* The limiter's counters are the requests: the slots, those of the class and
\* of each principal, and the places in the queue.
SlotsAreCounted ==
    /\ running = Cardinality({r \in Requests : HasSlot(r)})
    /\ queued = Cardinality({r \in Requests : HasPlace(r)})
    /\ classHeld = Cardinality({r \in Requests : HasSlot(r) /\ InClass(req[r].who)})
    /\ \A p \in Principals :
         /\ held[p] = Cardinality({r \in Requests : HasSlot(r) /\ req[r].who = p})
         /\ waiting[p] = Cardinality({r \in Requests : HasPlace(r) /\ req[r].who = p})

\* No wake-up is lost: a request that sleeps on a channel nobody has closed
\* is one for which there is no slot.
NoLostWakeup ==
    \A r \in Requests :
        req[r].at = "blocked" /\ ~req[r].woken => ~Fits(req[r].who)

\* Every request ends and gives back what it holds, also one whose client
\* falls silent, a push that never sends its pack included.
EverySlotIsGivenBack ==
    PackFairness => []<>(\A r \in Requests : req[r].at \in {"new", "over"})

\* Slots are counted right and whoever fits is awake (packlimit.go).
SlotsAreShared == SlotsAreCounted /\ NoLostWakeup
=============================================================================
