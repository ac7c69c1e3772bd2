------------------------------ MODULE LeaseHeap ------------------------------
(***************************************************************************)
(* The deadlines of LeaseManager (server/server.go): the map of leases and *)
(* the binary heap beside it, from which the cleanup loop takes the lease  *)
(* that ends next.  Every method holds LeaseManager.mu: one action each.   *)
(*                                                                         *)
(* heap[i] of the code is heap[i + 1] here: the children of position i are *)
(* 2i and 2i + 1.  The keys of leases are the subject of Store.            *)
(***************************************************************************)
EXTENDS Integers, Sequences, SequencesExt

CONSTANTS
    MaxLeases,  \* bound: leases ever granted
    MaxSaved,   \* bound: leases in a snapshot that is read back
    Deadline    \* deadlines of leases

ASSUME LeaseHeapConstants ==
    MaxLeases \in Nat /\ MaxSaved \in Nat /\ Deadline \subseteq Nat \ {0}

VARIABLES
    leaseID,   \* LeaseManager.leaseID
    expireAt,  \* LeaseManager.leases: [ids -> Lease.expireAt]
    heap       \* LeaseManager.heap

vars == <<leaseID, expireAt, heap>>

Init == leaseID = 0 /\ expireAt = << >> /\ heap = << >>

-----------------------------------------------------------------------------
(* The heap.                                                               *)

Swap(h, i, j) == [h EXCEPT ![i] = h[j], ![j] = h[i]]

RECURSIVE bubbleUp(_, _)
bubbleUp(h, i) ==
    LET parent == i \div 2
    IN  IF i = 1 \/ h[i].expireAt >= h[parent].expireAt THEN h
        ELSE bubbleUp(Swap(h, i, parent), parent)

\* The position of the smallest among the item at i and its children.
smallest(h, i) ==
    LET less(j, k) == j <= Len(h) /\ h[j].expireAt < h[k].expireAt
        first == IF less(2 * i, i) THEN 2 * i ELSE i
    IN  IF less(2 * i + 1, first) THEN 2 * i + 1 ELSE first

RECURSIVE bubbleDown(_, _)
bubbleDown(h, i) ==
    IF smallest(h, i) = i THEN h ELSE bubbleDown(Swap(h, i, smallest(h, i)), smallest(h, i))

\* What follows a change of the item at i.
Moved(h, i) == bubbleUp(bubbleDown(h, i), i)

\* Restore's loop over the positions that have children, the last one first.
RECURSIVE Heapified(_, _)
Heapified(h, i) == IF i = 0 THEN h ELSE Heapified(bubbleDown(h, i), i - 1)

Item(l, d) == [ID |-> l, expireAt |-> d]

PositionOf(l) == CHOOSE i \in 1..Len(heap) : heap[i].ID = l

-----------------------------------------------------------------------------
(* The methods.                                                            *)

GrantUntil(d) ==
    /\ leaseID < MaxLeases
    /\ leaseID' = leaseID + 1
    /\ expireAt' = [l \in DOMAIN expireAt \cup {leaseID + 1} |->
                      IF l = leaseID + 1 THEN d ELSE expireAt[l]]
    /\ heap' = bubbleUp(Append(heap, Item(leaseID + 1, d)), Len(heap) + 1)

\* An unknown lease is refused.
KeepAliveUntil(l, d) ==
    /\ l \in DOMAIN expireAt
    /\ expireAt' = [expireAt EXCEPT ![l] = d]
    /\ heap' = Moved([heap EXCEPT ![PositionOf(l)].expireAt = d], PositionOf(l))
    /\ UNCHANGED leaseID

\* Mutant: the item that takes the free place is only moved towards the leaves.
WithoutUp(h, i) ==
    LET cut == Front([h EXCEPT ![i] = h[Len(h)]])
    IN  IF i <= Len(cut) THEN bubbleDown(cut, i) ELSE cut

\* The heap without the item at i, whose place the last one takes.
Without(h, i) ==
    LET cut == Front([h EXCEPT ![i] = h[Len(h)]])
    IN  IF i <= Len(cut) THEN Moved(cut, i) ELSE cut

Removed(l) == expireAt' = [m \in DOMAIN expireAt \ {l} |-> expireAt[m]]

revokeLeaseLocked(l) ==
    /\ l \in DOMAIN expireAt
    /\ Removed(l)
    /\ heap' = Without(heap, PositionOf(l))
    /\ UNCHANGED leaseID

\* RemoveExpiredLease, at a time when the first lease is over.
RemoveExpiredLease ==
    /\ heap # << >> /\ heap[1].ID \in DOMAIN expireAt
    /\ Removed(heap[1].ID)
    /\ LET cut == Front([heap EXCEPT ![1] = heap[Len(heap)]])
       IN  heap' = IF cut = << >> THEN cut ELSE bubbleDown(cut, 1)
    /\ UNCHANGED leaseID

\* Mutant: the counter of ids restarts from the highest id in use.
SnapshotRestoreRecounted(ids) ==
    /\ heap' = Heapified([i \in 1..Len(ids) |-> Item(ids[i], expireAt[ids[i]])], Len(ids) \div 2)
    /\ leaseID' = Max(DOMAIN expireAt \cup {0})
    /\ UNCHANGED expireAt

\* Snapshot lists the leases in the order in which the map yields them, and
\* Restore makes a heap of that list.
SnapshotRestore(ids) ==
    /\ heap' = Heapified([i \in 1..Len(ids) |-> Item(ids[i], expireAt[ids[i]])], Len(ids) \div 2)
    /\ UNCHANGED <<leaseID, expireAt>>

Orders == IF Len(heap) <= MaxSaved THEN SetToSeqs(DOMAIN expireAt) ELSE {}

\* What GetExpiringLease returns: nothing, or a copy of the first item.
GetExpiringLease == IF heap = << >> THEN {} ELSE {heap[1]}

Next ==
    \/ \E d \in Deadline : GrantUntil(d)
    \/ \E l \in DOMAIN expireAt, d \in Deadline : KeepAliveUntil(l, d)
    \/ \E l \in DOMAIN expireAt : revokeLeaseLocked(l)
    \/ RemoveExpiredLease
    \/ \E ids \in Orders : SnapshotRestore(ids)

Spec == Init /\ [][Next]_vars

-----------------------------------------------------------------------------
(* Properties.                                                             *)

\* The heap and the map, which the code keeps side by side, hold the same
\* leases with the same deadlines, and the heap is ordered: what bubbleUp and
\* bubbleDown rely on after deadlines moved both ways, removals from the
\* middle and a reload in any order.
HeapSound ==
    /\ Len(heap) = Cardinality(DOMAIN expireAt)
    /\ \A l \in DOMAIN expireAt : Contains(heap, Item(l, expireAt[l]))
    /\ \A i \in 2..Len(heap) : heap[i \div 2].expireAt <= heap[i].expireAt

Table == INSTANCE LeaseTable WITH expiring <- GetExpiringLease

\* LeaseManager implements the table of leases: at any time GetExpiringLease
\* returns a lease that is there, with the deadline it has now, and no other
\* lease ends before it.
ImplementsLeaseTable == Table!Spec

=============================================================================
