----------------------------- MODULE EventQueue -----------------------------
(***************************************************************************)
(* The event queue account of the agnostic orderbook and the client-side   *)
(* decoder of src/client/dexterity/utils/aob/state/event_queue.py.         *)
(*                                                                         *)
(* The account is a header (head, count, event_size, seq_num) and a ring   *)
(* buffer.  The ring is modelled as RingLen cells; an event occupies       *)
(* EventSize consecutive cells (mod RingLen), cell k of an event holding   *)
(* [ev |-> the event, part |-> k].  Bytes never written are Blank.  The    *)
(* remote program (not in this repository) appends and pops events; its   *)
(* actions follow the spec.  The client decodes event i by slicing         *)
(* EventSize cells from (head + i * event_size) % len(buffer), exactly as  *)
(* EventQueue.__getitem__ does: a Python slice is clamped at the end of    *)
(* the buffer, it never wraps.                                             *)
(***************************************************************************)
EXTENDS Naturals, Sequences, FiniteSets

CONSTANTS
    RingLen,       \* len(remaining_buffer), in cells
    EventSize,     \* header.event_size, in cells
    Participants,  \* callback infos (the user_account keys)
    MaxSeq,        \* bound on header.seq_num
    MaxPop,        \* bound on the n of one pop
    Blank,         \* a never-written cell
    Garbled        \* what the decoder returns for bytes that are not one event

ASSUME /\ EventSize \in Nat \ {0}
       /\ RingLen \in Nat /\ RingLen >= EventSize
       /\ MaxSeq \in Nat /\ MaxPop \in Nat \ {0}

VARIABLES ring, head, count, seqNum
eqVars == <<ring, head, count, seqNum>>

Idx == 0 .. RingLen - 1
Capacity == RingLen \div EventSize

(* FillEventData and OutEventData, less the fields no property reads.      *)
FillEvents == [kind : {"Fill"}, maker : Participants, taker : Participants]
OutEvents  == [kind : {"Out"}, owner : Participants]
Payloads   == FillEvents \cup OutEvents
Events     == [seq : 1..MaxSeq, body : Payloads]
Cells      == [ev : Events, part : 0 .. EventSize - 1] \cup {Blank}

(* Mutant: a fill reports only its maker's account.                       *)
UserAccountsMakerOnly(e) ==
    IF e.body.kind = "Fill" THEN {e.body.maker} ELSE {e.body.owner}

(* Event.get_user_accounts: maker and taker of a fill, the owner of an out.*)
UserAccounts(e) ==
    IF e.body.kind = "Fill" THEN {e.body.maker, e.body.taker} ELSE {e.body.owner}

(* Event.from_bytes_partial on a chunk: it yields the event iff the chunk  *)
(* is exactly the EventSize cells of one event, in order.                  *)
DecodeEvent(chunk) ==
    IF /\ Len(chunk) = EventSize
       /\ chunk[1] # Blank
       /\ \A k \in 1..EventSize : chunk[k] = [ev |-> chunk[1].ev, part |-> k - 1]
    THEN chunk[1].ev
    ELSE Garbled

(* Mutant: the start offset is not reduced modulo the buffer length.      *)
EventAtNoModulo(r, h, i) ==
    LET start == h + i * EventSize
        stop  == IF start + EventSize < RingLen THEN start + EventSize ELSE RingLen
    IN  DecodeEvent([k \in 1 .. stop - start |-> r[start + k - 1]])

(* EventQueue.__getitem__(idx), for idx < header.count (the callers never  *)
(* index further): start = (head + idx * size) % buf_len, chunk =          *)
(* remaining_buffer[start:start + size], which Python clamps at buf_len.   *)
EventAt(r, h, i) ==
    LET start == (h + i * EventSize) % RingLen
        stop  == IF start + EventSize < RingLen THEN start + EventSize ELSE RingLen
    IN  DecodeEvent([k \in 1 .. stop - start |-> r[start + k - 1]])

(* The queue as the client decodes it from an account snapshot.            *)
DecodedQueue(r, h, c) == [i \in 1..c |-> EventAt(r, h, i - 1)]

(* The program's own read of slot i, reassembled across the wrap point.    *)
StoredEventAt(r, h, i) ==
    LET start == (h + i * EventSize) % RingLen
    IN  DecodeEvent([k \in 1..EventSize |-> r[(start + k - 1) % RingLen]])

(* The ring with event e written from cell start on, wrapping at RingLen.  *)
WriteEvent(r, start, e) ==
    [c \in Idx |-> IF (c - start) % RingLen < EventSize
                   THEN [ev |-> e, part |-> (c - start) % RingLen]
                   ELSE r[c]]

TypeOK ==
    /\ ring \in [Idx -> Cells]
    /\ head \in Idx
    /\ count \in 0..Capacity
    /\ seqNum \in 0..MaxSeq

EQInit ==
    /\ ring = [c \in Idx |-> Blank]
    /\ head = 0
    /\ count = 0
    /\ seqNum = 0

(* The producer appends one event (a fill or an out of a matched order).   *)
PushEvent(p) ==
    /\ count < Capacity
    /\ seqNum < MaxSeq
    /\ ring' = WriteEvent(ring, (head + count * EventSize) % RingLen,
                          [seq |-> seqNum + 1, body |-> p])
    /\ count' = count + 1
    /\ seqNum' = seqNum + 1
    /\ UNCHANGED head

(* Mutant: head is not wrapped around the end of the ring.               *)
PopEventsNoWrap(n) ==
    LET capped == IF n < count THEN n ELSE count
    IN  /\ count' = count - capped
        /\ head' = head + capped * EventSize
        /\ UNCHANGED <<ring, seqNum>>

(* A crank pops up to n events: head advances by event_size per event.    *)
PopEvents(n) ==
    LET capped == IF n < count THEN n ELSE count
    IN  /\ count' = count - capped
        /\ head' = (head + capped * EventSize) % RingLen
        /\ UNCHANGED <<ring, seqNum>>

EQNext ==
    \/ \E p \in Payloads : PushEvent(p)
    \/ \E n \in 1..MaxPop : PopEvents(n)

EQSpec == EQInit /\ [][EQNext]_eqVars

(* Refinement: the queue the client decodes from the account is the FIFO  *)
(* the program promises (EventLog).  Wrong slicing at the wrap point, a    *)
(* wrong head or stride in EventQueue.__getitem__ breaks it.               *)
Log == INSTANCE EventLog WITH queue <- DecodedQueue(ring, head, count)
DecodedQueueIsLog == Log!Spec
=============================================================================
