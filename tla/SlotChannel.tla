---------------------------- MODULE SlotChannel ----------------------------
(***************************************************************************)
(* What a pair of DM sessions promises its application: each party puts    *)
(* its plaintexts into slots (epoch, index) that only ever move forward,   *)
(* and the peer reads from a slot nothing but what was put there.          *)
(***************************************************************************)
EXTENDS Integers

CONSTANTS Alice, Bob, Plaintexts

VARIABLES
    sealed,   \* sealed[p]: what p put, each item with its slot and its nonce
    read      \* read[p]: what p has read of its peer's items

chvars == <<sealed, read>>

PeerOf(p) == IF p = Alice THEN Bob ELSE Alice

Items == [epoch : Nat, index : Nat, nonce : Nat, msg : Plaintexts]

\* Slots are ordered by epoch, then by index.
Later(a, b) == a.epoch > b.epoch \/ (a.epoch = b.epoch /\ a.index > b.index)

ChInit ==
    /\ sealed = [p \in {Alice, Bob} |-> {}]
    /\ read = [p \in {Alice, Bob} |-> {}]

Put(p, item) ==
    /\ item \in Items
    /\ \A old \in sealed[p] : Later(item, old)
    /\ sealed' = [sealed EXCEPT ![p] = @ \cup {item}]
    /\ UNCHANGED read

Read(q, item) ==
    /\ item \in sealed[PeerOf(q)]
    /\ read' = [read EXCEPT ![q] = @ \cup {item}]
    /\ UNCHANGED sealed

ChNext ==
    \/ \E p \in {Alice, Bob} : \E item \in sealed'[p] : Put(p, item)
    \/ \E q \in {Alice, Bob} : \E item \in sealed[PeerOf(q)] : Read(q, item)

ChSpec == ChInit /\ [][ChNext]_chvars
=============================================================================
