----------------------------- MODULE OpenOrders -----------------------------
(***************************************************************************)
(* What SDKTrader's order calls and cancel_all_orders promise, with the   *)
(* trader's open orders seen as a set of (book, order id) pairs rather    *)
(* than as linked lists of nodes.  Orders are posted (at most Capacity    *)
(* open at once, ids fresh per book) and closed (filled or cancelled); a  *)
(* replace closes one order and posts another in one step.  cancel_all    *)
(* takes the open set as its snapshot, then closes the snapshot's orders *)
(* one at a time, each only if still open, and finishes when it has gone *)
(* through all of them.  It never raises.                                 *)
(***************************************************************************)
EXTENDS Naturals, FiniteSets

CONSTANTS
    Books,       \* the order books (product slots)
    Capacity,    \* how many orders the trader may have open
    MaxOrderId   \* bound on the order ids each book hands out

VARIABLES
    open,      \* the open orders, [n, id] records
    nextId,    \* the next order id of each book
    phase,     \* cancel_all: "idle", "running", "done"
    pending    \* the snapshot orders cancel_all has still to go through
vars == <<open, nextId, phase, pending>>

Orders == [n : Books, id : 1 .. MaxOrderId]
Fresh(n) == [n |-> n, id |-> nextId[n]]

TypeOK ==
    /\ open \subseteq Orders
    /\ nextId \in [Books -> 1 .. MaxOrderId + 1]
    /\ phase \in {"idle", "running", "done"}
    /\ pending \subseteq Orders

Init ==
    /\ open = {}
    /\ nextId = [n \in Books |-> 1]
    /\ phase = "idle"
    /\ pending = {}

Post(n) ==
    /\ Cardinality(open) < Capacity
    /\ nextId[n] <= MaxOrderId
    /\ open' = open \cup {Fresh(n)}
    /\ nextId' = [nextId EXCEPT ![n] = @ + 1]
    /\ UNCHANGED <<phase, pending>>

Close(o) ==
    /\ o \in open
    /\ open' = open \ {o}
    /\ UNCHANGED <<nextId, phase, pending>>

Swap(o) ==
    /\ phase # "running"
    /\ o \in open
    /\ nextId[o.n] <= MaxOrderId
    /\ open' = (open \ {o}) \cup {Fresh(o.n)}
    /\ nextId' = [nextId EXCEPT ![o.n] = @ + 1]
    /\ UNCHANGED <<phase, pending>>

Begin ==
    /\ phase # "running"
    /\ pending' = open
    /\ phase' = IF open = {} THEN "done" ELSE "running"
    /\ UNCHANGED <<open, nextId>>

CancelOne(o) ==
    /\ phase = "running"
    /\ o \in pending
    /\ open' = open \ {o}
    /\ pending' = pending \ {o}
    /\ phase' = IF pending' = {} THEN "done" ELSE "running"
    /\ UNCHANGED nextId

Next ==
    \/ \E n \in Books : Post(n)
    \/ \E o \in open : Close(o) \/ Swap(o)
    \/ Begin
    \/ \E o \in pending : CancelOne(o)

Spec == Init /\ [][Next]_vars /\ WF_vars(\E o \in pending : CancelOne(o))
=============================================================================
