-------------------------------- MODULE Crank --------------------------------
(***************************************************************************)
(* Cranking the event queue of a product: the two client paths that build *)
(* a ConsumeOrderbookEvents transaction, racing the program that fills the *)
(* queue and each other.                                                   *)
(*                                                                         *)
(* consume_orderbook_events (dex/actions.py), given no user_accounts,      *)
(* fetches the queue, decodes the first min(max_iterations, count) events  *)
(* and collects their user accounts, but passes them to the builder as    *)
(* bare PublicKeys: send_transaction raises AttributeError before sending. *)
(*                                                                         *)
(* SDKProduct.crank_raw (dex/sdk_context.py) sends: the caller passes the *)
(* user accounts (here: those of every event of the queue it fetched, in  *)
(* queue order, repeats included); crank_raw sorts them, removes repeats  *)
(* with _dedup, and sends them with max_iterations 20.  Between the fetch *)
(* and the execution the producer may append events and other crankers    *)
(* may pop them.  The transaction executes atomically: the program        *)
(* settles min(max_iterations, count) events and needs the user account   *)
(* of every one of them among the accounts passed (spec, sections 2 and   *)
(* 4.3); otherwise it fails and changes nothing.  Public keys are ordered *)
(* by Rank, standing for their byte order.                                 *)
(***************************************************************************)
EXTENDS EventQueue, SequencesExt

CONSTANTS
    Crankers,       \* concurrent callers of consume_orderbook_events
    MaxIterations,  \* the max_iterations argument
    RawIterations   \* crank_raw's ConsumeOrderbookEventsParams(20)

ASSUME MaxIterations \in Nat \ {0} /\ RawIterations \in Nat \ {0}

VARIABLES
    pc,        \* "idle" or "sent" (transaction in flight)
    snap,      \* the header <<head, count, seq_num>> the cranker fetched
    accts,     \* the remaining_accounts of its transaction
    outcome,   \* result of its last call
    rawIn,     \* the list the last crank_raw was given
    rawOut,    \* the remaining accounts that crank_raw sent
    rawLeft    \* the caller's list after the call (sorted and
               \* overwritten in place)
vars == <<eqVars, pc, snap, accts, outcome, rawIn, rawOut, rawLeft>>
rawVars == <<rawIn, rawOut, rawLeft>>

Header == <<head, count, seqNum>>
Results == {"None", "NoEvents", "DecodeError", "AttributeError", "Settled", "Rejected"}

CrankTypeOK ==
    /\ TypeOK
    /\ pc \in [Crankers -> {"idle", "sent"}]
    /\ accts \in [Crankers -> SUBSET Participants]
    /\ outcome \in [Crankers -> [res : Results, stale : BOOLEAN]]
    /\ rawIn \in Seq(Participants) /\ rawOut \in Seq(Participants)
    /\ rawLeft \in Seq(Participants)

Init ==
    /\ EQInit
    /\ pc = [c \in Crankers |-> "idle"]
    /\ snap = [c \in Crankers |-> <<0, 0, 0>>]
    /\ accts = [c \in Crankers |-> {}]
    /\ outcome = [c \in Crankers |-> [res |-> "None", stale |-> FALSE]]
    /\ rawIn = <<>>
    /\ rawOut = <<>>
    /\ rawLeft = <<>>

Report(c, r) == outcome' = [outcome EXCEPT ![c] = [res |-> r, stale |-> FALSE]]

(* consume_orderbook_events with user_accounts None: fetch the queue,     *)
(* raise RuntimeError if it is empty, decode min(max_iterations, count)   *)
(* events and collect their user accounts (a chunk that does not decode   *)
(* makes get_user_accounts fail).  The accounts go to the builder as bare *)
(* PublicKeys, which to_instruction appends unwrapped; send_transaction's *)
(* signer scan reads meta.is_signer of each and raises AttributeError, so *)
(* nothing is sent.                                                       *)
BuildCrank(c) ==
    /\ pc[c] = "idle"
    /\ \/ /\ count = 0
          /\ Report(c, "NoEvents")
       \/ /\ count > 0
          /\ LET n   == IF MaxIterations < count THEN MaxIterations ELSE count
                 evs == {EventAt(ring, head, i) : i \in 0 .. n - 1}
             IN  Report(c, IF Garbled \in evs THEN "DecodeError" ELSE "AttributeError")
    /\ UNCHANGED <<eqVars, pc, snap, accts, rawVars>>

(* The accounts the program needs to settle an event: both participants   *)
(* of a fill, the participant of an out (spec, section 4.3).             *)
SettlementAccounts(e) ==
    IF e.body.kind = "Fill" THEN {e.body.maker, e.body.taker} ELSE {e.body.owner}

(* The program executes crank_raw's transaction, max_iterations 20.       *)
ExecuteCrank(c) ==
    LET n     == IF RawIterations < count THEN RawIterations ELSE count
        need  == UNION {SettlementAccounts(StoredEventAt(ring, head, i)) : i \in 0 .. n - 1}
        stale == snap[c] # Header
    IN  /\ pc[c] = "sent"
        /\ pc' = [pc EXCEPT ![c] = "idle"]
        /\ \/ /\ need \subseteq accts[c]
              /\ PopEvents(n)
              /\ outcome' = [outcome EXCEPT ![c] = [res |-> "Settled", stale |-> stale]]
           \/ /\ ~(need \subseteq accts[c])
              /\ outcome' = [outcome EXCEPT ![c] = [res |-> "Rejected", stale |-> stale]]
              /\ UNCHANGED eqVars
        /\ UNCHANGED <<snap, accts, rawVars>>

(* The order of public keys: Rank[k] is k's place in byte order.           *)
Rank == CHOOSE f \in [Participants -> 1 .. Cardinality(Participants)] : IsInjective(f)
KeyLess(a, b) == Rank[a] < Rank[b]

(* Mutant: a fill contributes only its maker.                            *)
UserAccountListMakerOnly(e) ==
    IF e.body.kind = "Fill" THEN <<e.body.maker>> ELSE <<e.body.owner>>

(* Event.get_user_accounts as a list: [maker, taker] or [owner].           *)
UserAccountList(e) ==
    IF e.body.kind = "Fill" THEN <<e.body.maker, e.body.taker>> ELSE <<e.body.owner>>

(* Mutant: the result drops the last distinct key (xs[:i]).                *)
DedupShort(xs) ==
    IF Len(xs) < 2 THEN xs
    ELSE LET st == FoldLeft(LAMBDA s, a : IF s.xs[s.i] # a
                                          THEN [i |-> s.i + 1, xs |-> [s.xs EXCEPT ![s.i + 1] = a]]
                                          ELSE s,
                            [i |-> 1, xs |-> xs], Tail(xs))
         IN  SubSeq(st.xs, 1, st.i - 1)

(* Mutant: a new key overwrites the last key kept instead of the slot     *)
(* after it.                                                               *)
DedupPassOverwrite(xs) ==
    FoldLeft(LAMBDA s, a : IF s.xs[s.i] # a
                           THEN [i |-> s.i + 1, xs |-> [s.xs EXCEPT ![s.i] = a]]
                           ELSE s,
             [i |-> 1, xs |-> xs], Tail(xs))

(* _dedup's loop over xs[1:] (a copy): each key that differs from xs[i]   *)
(* is written to xs[i + 1], in the caller's list itself.  The result holds *)
(* the last index i and the list as the loop leaves it.  Positions are    *)
(* 1-based here.                                                           *)
DedupPass(xs) ==
    FoldLeft(LAMBDA s, a : IF s.xs[s.i] # a
                           THEN [i |-> s.i + 1, xs |-> [s.xs EXCEPT ![s.i + 1] = a]]
                           ELSE s,
             [i |-> 1, xs |-> xs], Tail(xs))

(* _dedup(xs): return xs[:i + 1] after the loop.                           *)
Dedup(xs) ==
    IF Len(xs) < 2 THEN xs
    ELSE SubSeq(DedupPass(xs).xs, 1, DedupPass(xs).i)

(* The caller's list after _dedup: changed in place by the loop.          *)
DedupLeaves(xs) == IF Len(xs) < 2 THEN xs ELSE DedupPass(xs).xs

(* crank_raw(accounts): sort the caller's list in place, _dedup it (which *)
(* overwrites its prefix), send ConsumeOrderbookEvents with               *)
(* max_iterations 20 and the keys as remaining accounts.  The caller       *)
(* passes the accounts of every event of the queue it fetched.             *)
CrankRaw(c) ==
    LET xs == FlattenSeq([i \in 1 .. count |-> UserAccountList(EventAt(ring, head, i - 1))])
        ys == Dedup(SortSeq(xs, KeyLess))
    IN  /\ pc[c] = "idle"
        /\ \A i \in 0 .. count - 1 : EventAt(ring, head, i) # Garbled
        /\ rawIn' = xs
        /\ rawOut' = ys
        /\ rawLeft' = DedupLeaves(SortSeq(xs, KeyLess))
        /\ accts' = [accts EXCEPT ![c] = ToSet(ys)]
        /\ snap' = [snap EXCEPT ![c] = Header]
        /\ pc' = [pc EXCEPT ![c] = "sent"]
        /\ UNCHANGED <<eqVars, outcome>>

Next ==
    \/ \E p \in Payloads : PushEvent(p) /\ UNCHANGED <<pc, snap, accts, outcome, rawVars>>
    \/ \E c \in Crankers : BuildCrank(c) \/ ExecuteCrank(c) \/ CrankRaw(c)

Spec == Init /\ [][Next]_vars

(* A crank_raw transaction is rejected only if the queue changed between *)
(* the caller's fetch and the execution: the accounts of the fetched      *)
(* events, sorted and deduplicated, with max_iterations 20, cover every   *)
(* event the program settles when no push or other crank raced it.       *)
RejectedOnlyIfStale ==
    \A c \in Crankers : outcome[c].res = "Rejected" => outcome[c].stale

(* crank_raw passes every account it was given, once each, in key order:  *)
(* sort then _dedup yields exactly the distinct keys, strictly ascending.  *)
DedupSortedSet ==
    IsSorted(rawOut, KeyLess) /\ ToSet(rawOut) = ToSet(rawIn)

(* crank_raw changes the caller's list (sort, then _dedup's writes into   *)
(* it), but harmlessly: the list keeps its length and every account it    *)
(* held, so a caller that passes the same list to crank_raw again sends   *)
(* the same accounts.                                                      *)
CallerListReusable ==
    /\ Len(rawLeft) = Len(rawIn)
    /\ ToSet(rawLeft) = ToSet(rawIn)
    /\ Dedup(SortSeq(rawLeft, KeyLess)) = rawOut

(* The spec (section 4.3): the events' participant accounts are the ones  *)
(* that must be passed back to the program, so a crank built from the     *)
(* queue it read is never rejected for a missing user account.            *)
CrankNeverRejected ==
    \A c \in Crankers : outcome[c].res # "Rejected"
=============================================================================
