-------------------------------- MODULE Slab --------------------------------
(***************************************************************************)
(* The bids/asks slab of the agnostic orderbook and the client decoder of  *)
(* src/client/dexterity/utils/aob/state/slab.py.                           *)
(*                                                                         *)
(* A resting order is a leaf whose key packs the fixed-point limit price   *)
(* above a sequence number: key = price_fp * 2^SeqBits + seq, price_fp =   *)
(* int_part * 2^FracBits + frac.  SeqBits stands for the 64 low bits and   *)
(* FracBits for BINARY_ORDER_SCALE (32 fractional bits of the price).      *)
(*                                                                         *)
(* The program keeps the leaves in a critbit tree over slot indices.  The  *)
(* shape of a critbit tree is fixed by its key set; the model lays it out  *)
(* canonically (children of slot s at 2s+1 and 2s+2, unused slots          *)
(* Uninitialized).  The client reads slots by index only, so the layout    *)
(* does not change what it decodes.                                        *)
(***************************************************************************)
EXTENDS Naturals, Sequences, FiniteSets, SequencesExt

CONSTANTS
    SeqBits,    \* low key bits: the order sequence number
    FracBits,   \* BINARY_ORDER_SCALE: fractional bits of the price
    IntBits,    \* integer bits of the price
    SlotCount,  \* slots of the slab buffer
    None        \* Python's None

KeyBits == SeqBits + FracBits + IntBits
Keys == 0 .. 2^KeyBits - 1
Slots == 0 .. SlotCount - 1
Sides == {"BID", "ASK"}

Bit(k, b) == (k \div 2^b) % 2

(* The highest bit at which two keys of K differ.                         *)
CritBit(K) ==
    CHOOSE b \in 0 .. KeyBits - 1 :
        /\ \E x, y \in K : Bit(x, b) # Bit(y, b)
        /\ \A c \in b + 1 .. KeyBits - 1 : \A x, y \in K : Bit(x, c) = Bit(y, c)

Uninit == [tag |-> "Uninitialized"]

(* The subtree of the orders book (key -> base_quantity) over keys K,     *)
(* rooted at slot s: children[0] holds the keys with a 0 at the crit bit.*)
RECURSIVE Place(_, _, _)
Place(book, K, s) ==
    IF Cardinality(K) = 1
    THEN LET k == CHOOSE k \in K : TRUE
         IN  s :> [tag |-> "Leaf", key |-> k, base_quantity |-> book[k]]
    ELSE LET b  == CritBit(K)
             K0 == {k \in K : Bit(k, b) = 0}
         IN  (s :> [tag |-> "Inner", children |-> <<2 * s + 1, 2 * s + 2>>])
             @@ Place(book, K0, 2 * s + 1) @@ Place(book, K \ K0, 2 * s + 2)

(* The slab account of a side: header fields root_node and leaf_count and *)
(* the slot array.                                                        *)
SlabOf(book) ==
    LET placed == IF DOMAIN book = {} THEN <<>> ELSE Place(book, DOMAIN book, 0)
    IN  [root_node  |-> 0,
         leaf_count |-> Cardinality(DOMAIN book),
         slots      |-> [s \in Slots |-> IF s \in DOMAIN placed THEN placed[s] ELSE Uninit]]

(* LeafNode.price: key >> (64 + BINARY_ORDER_SCALE).                      *)
LeafPrice(key) == key \div 2^(SeqBits + FracBits)

(* Slab.root: None for an empty slab, else header.root_node.              *)
Root(slab) == IF slab.leaf_count = 0 THEN None ELSE slab.root_node

(* Slab.get_node: dispatch on the slot tag; an Uninitialized slot (tag 0) *)
(* falls through every test and yields None.                              *)
GetNode(slab, s) ==
    IF slab.slots[s].tag \in {"Inner", "Leaf", "Free", "LastFree"}
    THEN slab.slots[s] ELSE None

(* Mutant: the second child visited is the first one again.               *)
RECURSIVE TraversalSameChild(_, _, _)
TraversalSameChild(slab, s, side) ==
    LET node == GetNode(slab, s)
    IN  IF node # None /\ node.tag = "Inner"
        THEN LET first == IF side = "BID" THEN 1 ELSE 2
             IN  TraversalSameChild(slab, node.children[first], side)
                 \o TraversalSameChild(slab, node.children[first], side)
        ELSE IF node # None /\ node.tag = "Leaf"
        THEN << [price |-> LeafPrice(node.key), oid |-> node.key, qty |-> node.base_quantity] >>
        ELSE << [price |-> None, oid |-> None, qty |-> None] >>

(* Slab.inorder_traversal: an inner node visits children[0] first for a  *)
(* BID and children[1] first for an ASK; a leaf yields (price, order_id,  *)
(* base_quantity); any other node yields (None, None, None).              *)
RECURSIVE InorderTraversal(_, _, _)
InorderTraversal(slab, s, side) ==
    LET node == GetNode(slab, s)
    IN  IF node # None /\ node.tag = "Inner"
        THEN LET first == IF side = "BID" THEN 1 ELSE 2
             IN  InorderTraversal(slab, node.children[first], side)
                 \o InorderTraversal(slab, node.children[3 - first], side)
        ELSE IF node # None /\ node.tag = "Leaf"
        THEN << [price |-> LeafPrice(node.key), oid |-> node.key, qty |-> node.base_quantity] >>
        ELSE << [price |-> None, oid |-> None, qty |-> None] >>

(* Slab.find_min_max: get_node already returns a decoded node, and the    *)
(* loop hands it to BytesIO, which raises TypeError for anything but an   *)
(* empty slab.                                                            *)
FindMinMax(slab, findMax) ==
    IF Root(slab) = None THEN None ELSE [raises |-> "TypeError"]

(* Slab.order_bookify(side, group=True): the traversal keyed by (price,   *)
(* oid), then grouped by price into [Qty sum, Qty count] per level.       *)
OrderBookifyGrouped(slab, side) ==
    IF Root(slab) = None THEN <<>>
    ELSE LET rows   == ToSet(InorderTraversal(slab, Root(slab), side))
             prices == {r.price : r \in rows}
         IN  [p \in prices |->
                 LET at == {r \in rows : r.price = p}
                 IN  [sum |-> MapThenSumSet(LAMBDA r : r.qty, at), count |-> Cardinality(at)]]
=============================================================================
