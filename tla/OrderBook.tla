------------------------------ MODULE OrderBook ------------------------------
(***************************************************************************)
(* The two slabs of a market as the program changes them, read through the *)
(* client decoder of Slab.  The program posts orders (fresh, strictly      *)
(* increasing sequence numbers), cancels them and fills them partly or     *)
(* fully; each step leaves a well-formed critbit tree.  Matching itself is *)
(* the program's business and is not modelled: only what the client reads *)
(* back matters here.                                                      *)
(***************************************************************************)
EXTENDS Slab

CONSTANTS
    Quantities,   \* base quantities an order may rest with
    MaxOrders     \* bound on resting orders per side

VARIABLES book, nextSeq
vars == <<book, nextSeq>>

PricesFP == 0 .. 2^(FracBits + IntBits) - 1

TypeOK ==
    /\ DOMAIN book = Sides
    /\ \A side \in Sides : /\ DOMAIN book[side] \subseteq Keys
                           /\ \A k \in DOMAIN book[side] : book[side][k] \in Quantities
    /\ nextSeq \in 0 .. 2^SeqBits

Init ==
    /\ book = [s \in Sides |-> <<>>]
    /\ nextSeq = 0

(* A limit order rests at fixed-point price pfp.                          *)
PostOrder(side, pfp, q) ==
    LET key == pfp * 2^SeqBits + nextSeq
    IN  /\ nextSeq < 2^SeqBits
        /\ Cardinality(DOMAIN book[side]) < MaxOrders
        /\ book' = [book EXCEPT ![side] = @ @@ (key :> q)]
        /\ nextSeq' = nextSeq + 1

CancelOrder(side, key) ==
    /\ key \in DOMAIN book[side]
    /\ book' = [book EXCEPT ![side] = [k \in DOMAIN @ \ {key} |-> @[k]]]
    /\ UNCHANGED nextSeq

(* Mutant: a fully filled order stays in the book with quantity 0.       *)
FillOrderKeepEmpty(side, key, q) ==
    /\ key \in DOMAIN book[side]
    /\ q <= book[side][key]
    /\ book' = [book EXCEPT ![side] = [@ EXCEPT ![key] = @ - q]]
    /\ UNCHANGED nextSeq

(* A maker order is filled by q: its quantity drops, or it leaves the book.*)
FillOrder(side, key, q) ==
    /\ key \in DOMAIN book[side]
    /\ q <= book[side][key]
    /\ book' = [book EXCEPT ![side] =
                   IF q = @[key] THEN [k \in DOMAIN @ \ {key} |-> @[k]]
                   ELSE [@ EXCEPT ![key] = @ - q]]
    /\ UNCHANGED nextSeq

Next ==
    \/ \E side \in Sides, pfp \in PricesFP, q \in Quantities : PostOrder(side, pfp, q)
    \/ \E side \in Sides, key \in Keys : CancelOrder(side, key)
    \/ \E side \in Sides, key \in Keys, q \in Quantities : FillOrder(side, key, q)

Spec == Init /\ [][Next]_vars

Traversal(side) ==
    LET slab == SlabOf(book[side])
    IN  IF Root(slab) = None THEN <<>> ELSE InorderTraversal(slab, Root(slab), side)

Oids(side) == [i \in 1 .. Len(Traversal(side)) |-> Traversal(side)[i].oid]

(* inorder_traversal lists every resting order of a side exactly once,    *)
(* with its price and remaining quantity and nothing else (no Free or     *)
(* Uninitialized slot), each side in strict key order and the two sides  *)
(* in opposite orders, whatever posts, cancels and fills built the tree. *)
TraversalListsBook ==
    /\ \A side \in Sides :
          /\ Len(Traversal(side)) = Cardinality(DOMAIN book[side])
          /\ ToSet(Traversal(side)) =
                {[price |-> LeafPrice(k), oid |-> k, qty |-> book[side][k]] : k \in DOMAIN book[side]}
    /\ \/ IsSorted(Oids("BID"), <) /\ IsSorted(Oids("ASK"), >)
       \/ IsSorted(Oids("BID"), >) /\ IsSorted(Oids("ASK"), <)

(* Spec, section 8: the bid traversal yields prices in non-increasing     *)
(* order (best bid first).                                                *)
BidTraversalBestFirst ==
    LET t == Traversal("BID")
    IN  \A i \in 1 .. Len(t) - 1 : t[i].price >= t[i + 1].price

(* Spec, section 8: find_min_max returns None iff the slab is empty, and  *)
(* otherwise the leaf that ends the traversal.                            *)
FindMaxIsLastLeaf ==
    \A side \in Sides :
        LET slab  == SlabOf(book[side])
            found == FindMinMax(slab, TRUE)
        IN  Root(slab) # None =>
                "key" \in DOMAIN found /\ found.key = Last(Oids(side))

(* Spec, section 4.2: order_bookify groups the orders by price: orders at *)
(* distinct limit prices are distinct levels of the grouped book.         *)
DistinctPricesDistinctLevels ==
    \A side \in Sides :
        Cardinality(DOMAIN OrderBookifyGrouped(SlabOf(book[side]), side))
            = Cardinality({k \div 2^SeqBits : k \in DOMAIN book[side]})
=============================================================================
