---------------------------- MODULE AtLeastOnce ----------------------------
(***************************************************************************)
(* What an outgoing queue promises: an item that was accepted is sent, and *)
(* perhaps sent again, until it is settled as delivered or given up; it is *)
(* called delivered only after it was sent; while it is pending it leaves  *)
(* the queue only if its destination goes away or changes hands.           *)
(***************************************************************************)
EXTENDS Naturals

CONSTANTS
    Items,  \* the items ever accepted
    Dests,  \* where they are sent to
    Nowhere \* the destination of an item that is not in the queue

VARIABLES
    state,  \* where each item stands
    dest,   \* where each item in the queue is bound for
    sent    \* the items sent at least once

vars == <<state, dest, sent>>

ItemState == {"new", "pending", "delivered", "failed", "dropped"}

Init ==
    /\ state = [i \in Items |-> "new"]
    /\ dest = [i \in Items |-> Nowhere]
    /\ sent = {}

Move(S, to) == state' = [i \in Items |-> IF i \in S THEN to ELSE state[i]]

\* Items are accepted together: one event, several subscribers.
Accept(S, d) ==
    /\ \A i \in S : state[i] = "new"
    /\ Move(S, "pending")
    /\ dest' = [i \in Items |-> IF i \in S THEN d[i] ELSE dest[i]]
    /\ UNCHANGED sent

\* The outside world takes an item that was pending when the sender picked
\* it, whatever has become of it since.
Send(i) ==
    /\ state[i] # "new"
    /\ sent' = sent \cup {i}
    /\ UNCHANGED <<state, dest>>

\* An item is settled once: delivered only if it was sent.
Settle(i) ==
    /\ state[i] = "pending"
    /\ \/ i \in sent /\ Move({i}, "delivered")
       \/ Move({i}, "failed")
    /\ UNCHANGED <<dest, sent>>

\* Somebody asks for another delivery.
Requeue(i) ==
    /\ state[i] \in {"delivered", "failed"}
    /\ Move({i}, "pending")
    /\ UNCHANGED <<dest, sent>>

Drop(S) ==
    /\ Move(S, "dropped")
    /\ dest' = [i \in Items |-> IF i \in S THEN Nowhere ELSE dest[i]]
    /\ UNCHANGED sent

\* Settled items are forgotten after a while.
Forget(S) ==
    /\ \A i \in S : state[i] \in {"delivered", "failed"}
    /\ Drop(S)

\* A destination that goes away or changes hands takes its items with it.
DestinationGone(d, S) ==
    /\ S \subseteq {i \in Items : dest[i] = d}
    /\ Drop(S)

Next ==
    \/ \E S \in SUBSET Items :
         \/ \E d \in [S -> Dests] : Accept(S, d)
         \/ Forget(S)
         \/ \E d \in Dests : DestinationGone(d, S)
    \/ \E i \in Items : Send(i) \/ Settle(i) \/ Requeue(i)

Spec == Init /\ [][Next]_vars
=============================================================================
