------------------------------ MODULE EventLog ------------------------------
(***************************************************************************)
(* What the agnostic-orderbook event queue promises its readers: a bounded *)
(* FIFO of stamped events.  The producer appends one event per fill or     *)
(* out, stamping it with the next sequence number; a crank removes up to n *)
(* events from the front.  Nothing is reordered, lost or duplicated.       *)
(***************************************************************************)
EXTENDS Naturals, Sequences

CONSTANTS
    Payloads,   \* the event bodies (fill or out records)
    Capacity,   \* how many events the queue holds
    MaxSeq,     \* bound on the sequence number (model bound)
    MaxPop      \* bound on the n of one pop (model bound)

VARIABLES queue, seqNum
vars == <<queue, seqNum>>

Stamp(s, p) == [seq |-> s, body |-> p]

TypeOK ==
    /\ queue \in Seq([seq : 1..MaxSeq, body : Payloads])
    /\ seqNum \in 0..MaxSeq

Init ==
    /\ queue = <<>>
    /\ seqNum = 0

Append1(p) ==
    /\ Len(queue) < Capacity
    /\ seqNum < MaxSeq
    /\ queue' = Append(queue, Stamp(seqNum + 1, p))
    /\ seqNum' = seqNum + 1

PopN(n) ==
    /\ queue' = SubSeq(queue, IF n < Len(queue) THEN n + 1 ELSE Len(queue) + 1, Len(queue))
    /\ UNCHANGED seqNum

Next ==
    \/ \E p \in Payloads : Append1(p)
    \/ \E n \in 1..MaxPop : PopN(n)

Spec == Init /\ [][Next]_vars
=============================================================================
