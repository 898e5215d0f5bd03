------------------------------ MODULE CancelAll ------------------------------
(***************************************************************************)
(* SDKTrader.cancel_all_orders (src/client/dexterity/dex/sdk_context.py)   *)
(* against the program that keeps the trader's open orders.               *)
(*                                                                         *)
(* The trader risk group keeps, per product slot of the market product     *)
(* group, a doubly linked list of open-order nodes (head_index, and prev/  *)
(* next slot indices; slot SENTINEL = 0 ends a list and is never used).    *)
(* cancel_all_orders fetches the trader risk group once, walks the list   *)
(* of each requested product slot n, then sends one cancel per order id   *)
(* to the order book of sdk.products[n], in order.  Between its sends the *)
(* program fills orders (a fill removes the maker's node) and the trader  *)
(* may post more.  sdk.products is load_products' list of the ACTIVE      *)
(* products, in slot order: a removed product's slot is skipped.          *)
(* The program side (post, fill, cancel) follows the spec.                 *)
(***************************************************************************)
EXTENDS Naturals, Sequences, FiniteSets, SequencesExt

CONSTANTS
    ProductSlots,  \* product slots 0 .. N-1 of the market product group
    Removed,       \* slots whose product was removed (key = SENTINAL_KEY)
    NodeCount,     \* open-order nodes besides the sentinel
    MaxOrderId,    \* bound on the order ids each book hands out
    RaiseOnError   \* Context.raise_on_error

SENTINEL == 0
NodeIdx  == 0 .. NodeCount
Active   == ProductSlots \ Removed
CancelReqs == [n : ProductSlots, id : 1 .. MaxOrderId]

VARIABLES
    head,       \* open_orders.products[n].head_index
    node,       \* open_orders.orders: [id, prev, next]; id 0 = free
    nextId,     \* next order id of each book
    cpc,        \* cancel_all_orders: "idle", "running", "done", "raised"
    todo,       \* the (product slot, order id) cancels still to send
    fetched,    \* ghost: the open orders of the fetched snapshot
    cancelled,  \* ghost: (book, id) of the orders its cancels removed
    reply       \* the last place_order, cancel or replace: how it ended
                \* and the order id it returned (0 for None)
vars == <<head, node, nextId, cpc, todo, fetched, cancelled, reply>>
progVars == <<head, node, nextId>>

Free(s) == node[s].id = 0

(* Mutant: the products are listed in reverse slot order.                *)
SdkProductsReversed == SelectSeq(SetToSortSeq(ProductSlots, >), LAMBDA s : s \notin Removed)

(* SDKContext.load_products over MarketProductGroup.active_products():    *)
(* sdk.products[i] is the i-th active slot.                               *)
SdkProducts == SelectSeq(SetToSortSeq(ProductSlots, <), LAMBDA s : s \notin Removed)

(* The nodes of a list from ptr, following next until SENTINEL.          *)
RECURSIVE ListNodes(_, _, _)
ListNodes(nd, ptr, fuel) ==
    IF ptr = SENTINEL \/ fuel = 0 THEN <<>>
    ELSE <<ptr>> \o ListNodes(nd, nd[ptr].next, fuel - 1)

InList(n) == ToSet(ListNodes(node, head[n], NodeCount))
OpenIds(nd, hd, n) == {nd[s].id : s \in ToSet(ListNodes(nd, hd[n], NodeCount))}

(* Mutant: the loop reads one node past the end (the sentinel).          *)
OrderIdsPastEnd(nd, hd, n) ==
    LET w == ListNodes(nd, hd[n], NodeCount)
        f == IF w = <<>> THEN w ELSE w \o <<SENTINEL>>
    IN  [i \in DOMAIN f |-> nd[f[i]].id]

(* Mutant: the walk stops before the last node of a list.                  *)
OrderIdsShort(nd, hd, n) ==
    LET w == ListNodes(nd, hd[n], NodeCount)
        f == IF w = <<>> THEN w ELSE Front(w)
    IN  [i \in DOMAIN f |-> nd[f[i]].id]

(* cancel_all_orders' while loop over the list of slot n: the order ids,  *)
(* head first (assert order.id != 0 holds: listed nodes are never free).  *)
OrderIds(nd, hd, n) ==
    LET w == ListNodes(nd, hd[n], NodeCount)
    IN  [i \in DOMAIN w |-> nd[w[i]].id]

(* The node of order id in the list of n.                                  *)
NodeOf(n, id) == CHOOSE s \in InList(n) : node[s].id = id

(* The program unlinks node s from the list of n and frees it.             *)
Unlinked(nd, hd, n, s) ==
    LET p == nd[s].prev
        q == nd[s].next
    IN  [node |-> [k \in NodeIdx |->
                      CASE k = s                  -> [id |-> 0, prev |-> 0, next |-> 0]
                        [] k = p /\ p # SENTINEL -> [nd[k] EXCEPT !.next = q]
                        [] k = q /\ q # SENTINEL -> [nd[k] EXCEPT !.prev = p]
                        [] OTHER                 -> nd[k]],
         head |-> IF p = SENTINEL THEN [hd EXCEPT ![n] = q] ELSE hd]

(* The program links a new order id at the head of the list of n, in the *)
(* free node s.                                                            *)
Placed(nd, hd, n, s, id) ==
    [node |-> [nd EXCEPT ![s] = [id |-> id, prev |-> SENTINEL, next |-> hd[n]],
                         ![hd[n]] = IF hd[n] = SENTINEL THEN @ ELSE [@ EXCEPT !.prev = s]],
     head |-> [hd EXCEPT ![n] = s]]

Unlink(n, s) ==
    LET r == Unlinked(node, head, n, s)
    IN  node' = r.node /\ head' = r.head

TypeOK ==
    /\ head \in [ProductSlots -> NodeIdx]
    /\ node \in [NodeIdx -> [id : 0 .. MaxOrderId, prev : NodeIdx, next : NodeIdx]]
    /\ nextId \in [ProductSlots -> 1 .. MaxOrderId + 1]
    /\ cpc \in {"idle", "running", "done", "raised"}
    /\ todo \in Seq(CancelReqs)
    /\ fetched \subseteq CancelReqs
    /\ cancelled \subseteq [book : ProductSlots, id : 1 .. MaxOrderId]
    /\ reply \in [call : {"none", "place_order", "cancel", "replace"},
                  res : {"none", "returned", "raised", "TypeError"}, id : 0 .. MaxOrderId]

Init ==
    /\ head = [n \in ProductSlots |-> SENTINEL]
    /\ node = [k \in NodeIdx |-> [id |-> 0, prev |-> 0, next |-> 0]]
    /\ nextId = [n \in ProductSlots |-> 1]
    /\ cpc = "idle"
    /\ todo = <<>>
    /\ fetched = {}
    /\ cancelled = {}
    /\ reply = [call |-> "none", res |-> "none", id |-> 0]

(* The trader's new order rests in book n: a free node becomes the head.  *)
PostOrder(n, s) ==
    /\ n \in Active
    /\ s \in 1 .. NodeCount /\ Free(s)
    /\ nextId[n] <= MaxOrderId
    /\ node' = Placed(node, head, n, s, nextId[n]).node
    /\ head' = Placed(node, head, n, s, nextId[n]).head
    /\ nextId' = [nextId EXCEPT ![n] = @ + 1]
    /\ UNCHANGED <<cpc, todo, fetched, cancelled, reply>>

(* A counterparty fills the order of node s completely.                    *)
FillOrder(n, s) ==
    /\ s \in InList(n)
    /\ Unlink(n, s)
    /\ UNCHANGED <<nextId, cpc, todo, fetched, cancelled, reply>>

(* cancel_all_orders up to its first cancel: fetch the trader risk group,  *)
(* and for each requested slot n assert that the head node has no prev    *)
(* and collect the ids of its list.                                        *)
StartCancelAll ==
    LET slots == SetToSortSeq(ProductSlots, <)
        cs    == FoldLeft(LAMBDA acc, n : acc \o [i \in DOMAIN OrderIds(node, head, n) |->
                                                    [n |-> n, id |-> OrderIds(node, head, n)[i]]],
                          <<>>, slots)
        heads == \A n \in ProductSlots : node[head[n]].prev = SENTINEL
    IN  /\ cpc \in {"idle", "done", "raised"}
        /\ cpc' = IF ~heads THEN "raised" ELSE IF cs = <<>> THEN "done" ELSE "running"
        /\ todo' = IF heads THEN cs ELSE <<>>
        /\ fetched' = UNION {{[n |-> n, id |-> id] : id \in OpenIds(node, head, n)} : n \in ProductSlots}
        /\ cancelled' = {}
        /\ UNCHANGED <<progVars, reply>>

(* Mutant: a cancel that fails is sent again instead of skipped.           *)
CancelStepRetry ==
    LET c == Head(todo)
        book == SdkProducts[c.n + 1]
    IN  /\ cpc = "running"
        /\ IF c.n + 1 > Len(SdkProducts)
           THEN cpc' = "raised" /\ UNCHANGED <<progVars, todo, cancelled>>
           ELSE IF c.id \in OpenIds(node, head, book)
           THEN /\ Unlink(book, NodeOf(book, c.id))
                /\ cancelled' = cancelled \cup {[book |-> book, id |-> c.id]}
                /\ todo' = Tail(todo)
                /\ cpc' = IF Tail(todo) = <<>> THEN "done" ELSE "running"
                /\ UNCHANGED nextId
           ELSE IF RaiseOnError
           THEN cpc' = "raised" /\ UNCHANGED <<progVars, todo, cancelled>>
           ELSE UNCHANGED <<progVars, cpc, todo, cancelled>>
        /\ UNCHANGED <<fetched, reply>>

(* self.cancel(sdk, sdk.products[n], order_id): an index past the active   *)
(* products raises IndexError; the program cancels the order if it rests  *)
(* in that book, else the transaction fails, which send_transaction       *)
(* raises only under raise_on_error; the loop goes on with the next id.   *)
CancelStep ==
    LET c == Head(todo)
        book == SdkProducts[c.n + 1]
        rest == IF Tail(todo) = <<>> THEN "done" ELSE "running"
    IN  /\ cpc = "running"
        /\ IF c.n + 1 > Len(SdkProducts)
           THEN cpc' = "raised" /\ UNCHANGED <<progVars, todo, cancelled>>
           ELSE IF c.id \in OpenIds(node, head, book)
           THEN /\ Unlink(book, NodeOf(book, c.id))
                /\ cancelled' = cancelled \cup {[book |-> book, id |-> c.id]}
                /\ todo' = Tail(todo)
                /\ cpc' = rest
                /\ UNCHANGED nextId
           ELSE IF RaiseOnError
           THEN cpc' = "raised" /\ UNCHANGED <<progVars, todo, cancelled>>
           ELSE /\ todo' = Tail(todo)
                /\ cpc' = rest
                /\ UNCHANGED <<progVars, cancelled>>
        /\ UNCHANGED <<fetched, reply>>

OpenCount == Cardinality({s \in 1 .. NodeCount : ~Free(s)})

(* A transaction of this trader that fails: send_transaction raises under *)
(* raise_on_error, else the call returns None (no order summary logged).  *)
Failed(call) ==
    /\ reply' = [call |-> call, res |-> IF RaiseOnError THEN "raised" ELSE "returned", id |-> 0]
    /\ UNCHANGED progVars

(* The calls below run in the caller's thread, as cancel_all_orders does: *)
(* never while it is running.  risk_accounts = None, the default, makes   *)
(* _place_order_ix iterate None: TypeError before anything is sent.        *)

(* place_order(sdk, sdk.products[n], ...): new_order; the order rests and *)
(* its id is parsed from the "posted_order_id: Some(id)" log line.  With  *)
(* the trader's open-orders nodes all in use the program fails the        *)
(* transaction.                                                            *)
PlaceOrder(n, withRisk) ==
    /\ cpc # "running"
    /\ n \in Active
    /\ nextId[n] <= MaxOrderId
    /\ IF ~withRisk
       THEN reply' = [call |-> "place_order", res |-> "TypeError", id |-> 0] /\ UNCHANGED progVars
       ELSE IF \A s \in 1 .. NodeCount : ~Free(s)
       THEN Failed("place_order")
       ELSE \E s \in 1 .. NodeCount :
              /\ Free(s)
              /\ node' = Placed(node, head, n, s, nextId[n]).node
              /\ head' = Placed(node, head, n, s, nextId[n]).head
              /\ nextId' = [nextId EXCEPT ![n] = @ + 1]
              /\ reply' = [call |-> "place_order", res |-> "returned", id |-> nextId[n]]
    /\ UNCHANGED <<cpc, todo, fetched, cancelled>>

(* cancel(sdk, sdk.products[n], order_id): cancel_underwater with the     *)
(* trader's own risk group, one cancel_order instruction.                  *)
Cancel(n, id) ==
    /\ cpc # "running"
    /\ n \in Active
    /\ IF id \in OpenIds(node, head, n)
       THEN /\ Unlink(n, NodeOf(n, id))
            /\ reply' = [call |-> "cancel", res |-> "returned", id |-> 0]
            /\ UNCHANGED nextId
       ELSE Failed("cancel")
    /\ UNCHANGED <<cpc, todo, fetched, cancelled>>

(* Mutant: the cancel and the new order are sent as two transactions.     *)
ReplaceTwoSends(n, id, withRisk) ==
    LET c == Unlinked(node, head, n, NodeOf(n, id))
        open == id \in OpenIds(node, head, n)
        nd == IF open THEN c.node ELSE node
        hd == IF open THEN c.head ELSE head
    IN  /\ cpc # "running"
        /\ n \in Active
        /\ nextId[n] <= MaxOrderId
        /\ IF ~withRisk
           THEN reply' = [call |-> "replace", res |-> "TypeError", id |-> 0] /\ UNCHANGED progVars
           ELSE IF ~open /\ RaiseOnError
           THEN Failed("replace")
           ELSE \E s \in 1 .. NodeCount :
                  /\ nd[s].id = 0
                  /\ node' = Placed(nd, hd, n, s, nextId[n]).node
                  /\ head' = Placed(nd, hd, n, s, nextId[n]).head
                  /\ nextId' = [nextId EXCEPT ![n] = @ + 1]
                  /\ reply' = [call |-> "replace", res |-> "returned", id |-> nextId[n]]
        /\ UNCHANGED <<cpc, todo, fetched, cancelled>>

(* replace(sdk, sdk.products[n], order_id, ...): _cancel_ix and           *)
(* _place_order_ix sent in one transaction.  If order_id no longer rests  *)
(* in the book the cancel fails and the new order is not placed either;   *)
(* else the order is cancelled and the new one rests in a free node.      *)
Replace(n, id, withRisk) ==
    LET c == Unlinked(node, head, n, NodeOf(n, id))
    IN  /\ cpc # "running"
        /\ n \in Active
        /\ nextId[n] <= MaxOrderId
        /\ IF ~withRisk
           THEN reply' = [call |-> "replace", res |-> "TypeError", id |-> 0] /\ UNCHANGED progVars
           ELSE IF id \notin OpenIds(node, head, n)
           THEN Failed("replace")
           ELSE \E s \in 1 .. NodeCount :
                  /\ c.node[s].id = 0
                  /\ node' = Placed(c.node, c.head, n, s, nextId[n]).node
                  /\ head' = Placed(c.node, c.head, n, s, nextId[n]).head
                  /\ nextId' = [nextId EXCEPT ![n] = @ + 1]
                  /\ reply' = [call |-> "replace", res |-> "returned", id |-> nextId[n]]
        /\ UNCHANGED <<cpc, todo, fetched, cancelled>>

Next ==
    \/ \E n \in ProductSlots, s \in 1 .. NodeCount : PostOrder(n, s) \/ FillOrder(n, s)
    \/ \E n \in ProductSlots, w \in BOOLEAN : PlaceOrder(n, w)
    \/ \E n \in ProductSlots, id \in 1 .. MaxOrderId : Cancel(n, id)
    \/ \E n \in ProductSlots, id \in 1 .. MaxOrderId, w \in BOOLEAN : Replace(n, id, w)
    \/ StartCancelAll
    \/ CancelStep

(* cancel_all_orders runs in the caller's thread and each send_transaction *)
(* waits for confirmation, so a started loop keeps taking steps.           *)
Spec == Init /\ [][Next]_vars /\ WF_vars(CancelStep)

(* When cancel_all_orders has returned or raised, none of the orders it    *)
(* fetched is still open: each was cancelled or filled meanwhile.          *)
EveryFetchedOrderClosed ==
    cpc \in {"done", "raised"} => \A c \in fetched : c.id \notin OpenIds(node, head, c.n)

(* cancel_all_orders only cancels orders it fetched, in the book it       *)
(* fetched them from.                                                     *)
CancelsOnlyFetched ==
    \A c \in cancelled : [n |-> c.book, id |-> c.id] \in fetched

(* replace puts its cancel and its new order in one transaction: a       *)
(* replace never leaves the trader with more open orders than before,    *)
(* even when the order it replaces was filled just before.               *)
ReplaceNeverAddsOrder ==
    [][\A n \in ProductSlots, id \in 1 .. MaxOrderId, w \in BOOLEAN :
           Replace(n, id, w) => OpenCount' <= OpenCount]_vars

(* A started cancel_all_orders eventually returns or raises.              *)
CancelAllTerminates ==
    cpc = "running" ~> cpc \in {"done", "raised"}

(* The trader's open orders as the program's lists show them.              *)
OpenOrderSet == UNION {{[n |-> n, id |-> id] : id \in OpenIds(node, head, n)} : n \in ProductSlots}

(* The lists, the node pool and the id counters together, with            *)
(* cancel_all_orders' queue of cancels, implement OpenOrders: posts and    *)
(* replaces take a free node and a fresh id, fills and cancels close       *)
(* exactly the order they name, cancel_all_orders snapshots every open     *)
(* order of every requested product and goes through each once, and under *)
(* the loop's progress it finishes; a raise counts as finishing with      *)
(* cancels left, which OpenOrders does not allow.                          *)
Abstract == INSTANCE OpenOrders WITH
    Books <- ProductSlots, Capacity <- NodeCount,
    open <- OpenOrderSet,
    phase <- IF cpc = "raised" THEN "done" ELSE cpc,
    pending <- ToSet(todo)

ImplementsOpenOrders == Abstract!Spec
=============================================================================
