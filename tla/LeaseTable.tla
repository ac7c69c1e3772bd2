----------------------------- MODULE LeaseTable -----------------------------
(***************************************************************************)
(* What the cleanup loop needs of LeaseManager: a table of leases with     *)
(* their deadlines, and at any time one that ends no later than the        *)
(* others.  LeaseHeap shows how the code keeps that one at hand.           *)
(***************************************************************************)
EXTENDS Integers

CONSTANTS
    MaxLeases,  \* bound: leases ever granted
    Deadline    \* deadlines of leases

VARIABLES
    leaseID,   \* the id granted last
    expireAt,  \* [the ids of the leases -> their deadlines]
    expiring   \* the lease that ends next, as a set of at most one lease

vars == <<leaseID, expireAt, expiring>>

\* The leases, as the pairs of id and deadline that the cleanup loop submits.
Entries(table) == {[ID |-> l, expireAt |-> table[l]] : l \in DOMAIN table}

Earliest(table) ==
    {{e} : e \in {x \in Entries(table) : \A y \in Entries(table) : x.expireAt <= y.expireAt}}
    \cup (IF DOMAIN table = {} THEN {{}} ELSE {})

Becomes(table) == expireAt' = table /\ expiring' \in Earliest(table)

Init ==
    /\ leaseID = 0
    /\ expireAt = << >>
    /\ expiring = {}

Grant(d) ==
    /\ leaseID' = leaseID + 1
    /\ Becomes([l \in DOMAIN expireAt \cup {leaseID'} |->
                  IF l = leaseID' THEN d ELSE expireAt[l]])

KeepAlive(l, d) == Becomes([expireAt EXCEPT ![l] = d]) /\ UNCHANGED leaseID

Remove(l) ==
    Becomes([m \in DOMAIN expireAt \ {l} |-> expireAt[m]]) /\ UNCHANGED leaseID

\* A restart with the same leases may choose another one of those that end first.
Reload == Becomes(expireAt) /\ UNCHANGED leaseID

Next ==
    \/ \E d \in Deadline : Grant(d)
    \/ \E l \in DOMAIN expireAt, d \in Deadline : KeepAlive(l, d)
    \/ \E l \in DOMAIN expireAt : Remove(l)
    \/ Reload

Spec == Init /\ [][Next]_vars

=============================================================================
