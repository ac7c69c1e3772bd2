------------------------------- MODULE Locks -------------------------------
(***************************************************************************)
(* LockManager (server/lock.go) over the leases of its server.  A lock is  *)
(* an entry in a map of one server that names a lease, granted by that     *)
(* server alone; the lock is free when the lease is gone.  The lease goes  *)
(* when it is released, or when the cleanup loop of a leader has submitted *)
(* a revocation and the apply loop finds the deadline unchanged.           *)
(*                                                                         *)
(* A table of leases is a record of LeaseManager.leaseID, the deadlines (0 *)
(* for no lease) and the leases to which a key is attached.  Only leases   *)
(* of LeaseGrant commands are in the WAL, all of them in a snapshot.       *)
(*                                                                         *)
(* Deadlines are UnixNano values: those of two servers never coincide, so  *)
(* that a revocation for a local lease changes nothing on other servers.   *)
(***************************************************************************)
EXTENDS Integers, FiniteSets

CONSTANTS
    Node,       \* servers
    Leader,     \* the one whose Submit succeeds
    Owner,      \* clients, each with its own owner_id
    LockKey,    \* names of locks
    None,
    TTL,        \* time to live of a lock's lease
    MaxLeases,  \* bound: leases granted by a server
    MaxNow,     \* bound: time
    Restarts    \* servers may stop and start again

LeaseId == 1..MaxLeases

LockInfo == [LeaseID : LeaseId, OwnerID : Owner]
LockHandle == [node : Node, Key : LockKey, LeaseID : LeaseId, until : Nat, orphan : BOOLEAN]

ASSUME LockConstants ==
    /\ Leader \in Node /\ None \notin Owner
    /\ None \notin LockInfo /\ None \notin LockHandle
    /\ TTL \in Nat \ {0} /\ MaxLeases \in Nat /\ MaxNow \in Nat
    /\ Restarts \in BOOLEAN

VARIABLES
    now,
    locks,     \* LockManager.locks: [LeaseID, OwnerID] or None
    table,     \* [server -> its LeaseManager]
    logged,    \* [server -> the table that its snapshot and WAL replay to]
    expiries,  \* revocations the cleanup loop has submitted, not yet applied
    handle,    \* what a client got from Acquire, until when it counts on it, and
               \* whether the process that gave it is gone
    keeping    \* KeepAlive calls between lm.mu and leaseMgr.mu

vars == <<now, locks, table, logged, expiries, handle, keeping>>

NoLeases == [leaseID |-> 0, expireAt |-> [l \in LeaseId |-> 0], keyed |-> {}]

Init ==
    /\ now = 0
    /\ locks = [n \in Node |-> [k \in LockKey |-> None]]
    /\ table = [n \in Node |-> NoLeases]
    /\ logged = [n \in Node |-> NoLeases]
    /\ expiries = {}
    /\ handle = [o \in Owner |-> None]
    /\ keeping = {}

-----------------------------------------------------------------------------
(* LeaseManager.                                                           *)

Exists(t, l) == t.expireAt[l] # 0

Granted(t, d) == [t EXCEPT !.leaseID = @ + 1, !.expireAt[t.leaseID + 1] = d]

Renewed(t, l, d) == IF Exists(t, l) THEN [t EXCEPT !.expireAt[l] = d] ELSE t

Revoked(t, l) == [t EXCEPT !.expireAt[l] = 0, !.keyed = @ \ {l}]

RevokedIfMatches(t, l, d) == IF t.expireAt[l] = d THEN Revoked(t, l) ELSE t

Attached(t, l) == IF Exists(t, l) THEN [t EXCEPT !.keyed = @ \cup {l}] ELSE t

-----------------------------------------------------------------------------
(* LockManager.                                                            *)

Taken(n, k) == locks[n][k] # None /\ Exists(table[n], locks[n][k].LeaseID)

\* Mutant: a lock counts as free as soon as its deadline has passed.
AcquireOverdue(o, n, k) ==
    /\ handle[o] = None
    /\ Taken(n, k) => table[n].expireAt[locks[n][k].LeaseID] <= now
    /\ table[n].leaseID < MaxLeases
    /\ table' = [table EXCEPT ![n] = Granted(@, now + TTL)]
    /\ locks' = [locks EXCEPT ![n][k] = [LeaseID |-> table[n].leaseID + 1, OwnerID |-> o]]
    /\ handle' = [handle EXCEPT ![o] = [node |-> n, Key |-> k, LeaseID |-> table[n].leaseID + 1,
                                        until |-> now + TTL, orphan |-> FALSE]]
    /\ UNCHANGED <<now, logged, expiries, keeping>>

\* Mutant: without the question whether the lock is taken.
AcquireUnchecked(o, n, k) ==
    /\ handle[o] = None
    /\ table[n].leaseID < MaxLeases
    /\ table' = [table EXCEPT ![n] = Granted(@, now + TTL)]
    /\ locks' = [locks EXCEPT ![n][k] = [LeaseID |-> table[n].leaseID + 1, OwnerID |-> o]]
    /\ handle' = [handle EXCEPT ![o] = [node |-> n, Key |-> k, LeaseID |-> table[n].leaseID + 1,
                                        until |-> now + TTL, orphan |-> FALSE]]
    /\ UNCHANGED <<now, logged, expiries, keeping>>

\* A refused Acquire changes nothing.
Acquire(o, n, k) ==
    /\ handle[o] = None /\ ~Taken(n, k)
    /\ table[n].leaseID < MaxLeases
    /\ table' = [table EXCEPT ![n] = Granted(@, now + TTL)]
    /\ locks' = [locks EXCEPT ![n][k] = [LeaseID |-> table[n].leaseID + 1, OwnerID |-> o]]
    /\ handle' = [handle EXCEPT ![o] = [node |-> n, Key |-> k, LeaseID |-> table[n].leaseID + 1,
                                        until |-> now + TTL, orphan |-> FALSE]]
    /\ UNCHANGED <<now, logged, expiries, keeping>>

\* The client puts a key under the lease of its lock; the put is in the WAL.
PutKey(o) ==
    LET h == handle[o]
    IN  /\ h # None
        /\ table' = [table EXCEPT ![h.node] = Attached(@, h.LeaseID)]
        /\ logged' = [logged EXCEPT ![h.node] = Attached(@, h.LeaseID)]
        /\ UNCHANGED <<now, locks, expiries, handle, keeping>>

\* The entry of the lock that a handle is for, if the handle is still good.
Holds(o) ==
    LET h == handle[o]
    IN  h # None /\ locks[h.node][h.Key] = [LeaseID |-> h.LeaseID, OwnerID |-> o]

\* Mutant: an empty answer is taken for a lease that was gone before.
ReleaseUnrevoked(o) ==
    LET h == handle[o]
    IN  /\ Holds(o)
        /\ table' = [table EXCEPT ![h.node] =
                        IF h.LeaseID \in @.keyed THEN Revoked(@, h.LeaseID) ELSE @]
        /\ handle' = [handle EXCEPT ![o] = None]
        /\ UNCHANGED <<now, locks, logged, expiries, keeping>>

\* RevokeLease returns the keys of the lease; when it returns none, and the
\* lease is gone (it is), the answer is ErrLockExpired and the entry stays.
Release(o) ==
    LET h == handle[o]
    IN  /\ Holds(o)
        /\ locks' = IF h.LeaseID \in table[h.node].keyed
                    THEN [locks EXCEPT ![h.node][h.Key] = None]
                    ELSE locks
        /\ table' = [table EXCEPT ![h.node] = Revoked(@, h.LeaseID)]
        /\ handle' = [handle EXCEPT ![o] = None]
        /\ UNCHANGED <<now, logged, expiries, keeping>>

\* Release or KeepAlive with a handle that is not good: ErrLockNotHeld.
NotHeld(o) ==
    /\ handle[o] # None /\ ~Holds(o)
    /\ handle' = [handle EXCEPT ![o] = None]
    /\ UNCHANGED <<now, locks, table, logged, expiries, keeping>>

KeepAliveCheck(o) ==
    /\ Holds(o)
    /\ keeping' = keeping \cup {[owner |-> o, node |-> handle[o].node,
                                 LeaseID |-> handle[o].LeaseID]}
    /\ UNCHANGED <<now, locks, table, logged, expiries, handle>>

\* The handle that a KeepAlive call was made for is still the client's.
IsFor(c) ==
    LET h == handle[c.owner]
    IN  h # None /\ ~h.orphan /\ h.node = c.node /\ h.LeaseID = c.LeaseID

\* lm.mu is not held any more: lock and lease may have changed.
KeepAliveRenew(c) ==
    /\ keeping' = keeping \ {c}
    /\ table' = [table EXCEPT ![c.node] = Renewed(@, c.LeaseID, now + TTL)]
    /\ handle' = IF ~IsFor(c) THEN handle
                 ELSE [handle EXCEPT ![c.owner] = IF Exists(table[c.node], c.LeaseID)
                                                  THEN [@ EXCEPT !.until = now + TTL]
                                                  ELSE None]
    /\ UNCHANGED <<now, locks, logged, expiries>>

GetLockStatus(n, k) ==
    /\ locks[n][k] # None /\ ~Taken(n, k)
    /\ locks' = [locks EXCEPT ![n][k] = None]
    /\ UNCHANGED <<now, table, logged, expiries, handle, keeping>>

-----------------------------------------------------------------------------
(* The other users of the leases.                                          *)

\* Another client's LeaseGrant command, which takes the next id.
LeaseGrant(n) ==
    /\ table[n].leaseID < MaxLeases /\ logged[n].leaseID < MaxLeases
    /\ table' = [table EXCEPT ![n] = Granted(@, now + TTL)]
    /\ logged' = [logged EXCEPT ![n] = Granted(@, now + TTL)]
    /\ UNCHANGED <<now, locks, expiries, handle, keeping>>

\* cleanupExpiredLeases takes the lease with the earliest deadline; its Submit
\* fails on a server that does not lead.
Cleanup(l) ==
    LET t == table[Leader]
    IN  /\ Exists(t, l) /\ t.expireAt[l] <= now
        /\ \A m \in LeaseId : Exists(t, m) => t.expireAt[l] <= t.expireAt[m]
        /\ expiries' = expiries \cup {[LeaseID |-> l, ExpireAt |-> t.expireAt[l]]}
        /\ UNCHANGED <<now, locks, table, logged, handle, keeping>>

\* Mutant: a lease is revoked whatever its deadline is by now.
ExpireAnyway(e) ==
    /\ expiries' = expiries \ {e}
    /\ table' = [table EXCEPT ![Leader] = Revoked(@, e.LeaseID)]
    /\ logged' = [logged EXCEPT ![Leader] = Revoked(@, e.LeaseID)]
    /\ UNCHANGED <<now, locks, handle, keeping>>

\* Mutant: the revocation is dropped when it is applied.
ExpireNothing(e) ==
    /\ expiries' = expiries \ {e}
    /\ UNCHANGED <<now, locks, table, logged, handle, keeping>>

\* The revocation is journalled and applied: RevokeLeaseIfMatches.
Expire(e) ==
    /\ expiries' = expiries \ {e}
    /\ table' = [table EXCEPT ![Leader] = RevokedIfMatches(@, e.LeaseID, e.ExpireAt)]
    /\ logged' = [logged EXCEPT ![Leader] = RevokedIfMatches(@, e.LeaseID, e.ExpireAt)]
    /\ UNCHANGED <<now, locks, handle, keeping>>

Tick ==
    /\ now < MaxNow
    /\ now' = now + 1
    /\ UNCHANGED <<locks, table, logged, expiries, handle, keeping>>

\* NewServer: the locks are gone, the leases are those of the given table.
StartAgain(n, t) ==
    /\ Restarts
    /\ locks' = [locks EXCEPT ![n] = [k \in LockKey |-> None]]
    /\ table' = [table EXCEPT ![n] = t]
    /\ logged' = [logged EXCEPT ![n] = t]
    /\ keeping' = {c \in keeping : c.node # n}
    /\ handle' = [o \in Owner |-> IF handle[o] # None /\ handle[o].node = n
                                  THEN [handle[o] EXCEPT !.orphan = TRUE]
                                  ELSE handle[o]]
    /\ UNCHANGED <<now, expiries>>

\* After a crash the table is what the disk replays to.
Crash(n) == StartAgain(n, logged[n])

\* Shutdown saves a snapshot with all leases first.
Shutdown(n) == StartAgain(n, table[n])

Next ==
    \/ \E o \in Owner, n \in Node, k \in LockKey : Acquire(o, n, k)
    \/ \E o \in Owner : PutKey(o) \/ Release(o) \/ NotHeld(o) \/ KeepAliveCheck(o)
    \/ \E c \in keeping : KeepAliveRenew(c)
    \/ \E n \in Node, k \in LockKey : GetLockStatus(n, k)
    \/ \E n \in Node : LeaseGrant(n) \/ Crash(n) \/ Shutdown(n)
    \/ \E l \in LeaseId : Cleanup(l)
    \/ \E e \in expiries : Expire(e)
    \/ Tick

\* The cleanup loop ticks, and the leader's commands are committed and applied.
Fairness ==
    /\ \A l \in LeaseId : WF_vars(Cleanup(l))
    /\ WF_vars(\E e \in expiries : Expire(e))

Spec == Init /\ [][Next]_vars
FairSpec == Spec /\ Fairness

-----------------------------------------------------------------------------
(* Properties.                                                             *)

\* The clients that count on lock k: the time they acquired or renewed it for
\* is not over.
CountsOn(o, k) == handle[o] # None /\ handle[o].Key = k /\ handle[o].until > now

\* Of the clients that one process has given a lock, and that count on it, there
\* is at most one, while leases expire, are renewed in two steps and are
\* released, and whatever handles from before a crash are used for.
OneHolder ==
    \A o, p \in Owner, k \in LockKey :
        /\ CountsOn(o, k) /\ CountsOn(p, k)
        /\ handle[o].node = handle[p].node /\ ~handle[o].orphan /\ ~handle[p].orphan
        => o = p

\* No lock is held on behalf of nobody: whenever Acquire would refuse a lock,
\* the owner in its entry has a handle for just this entry.  So a lock that was
\* released is free, although Release answers ErrLockExpired and leaves the
\* entry when no key is attached, and a lease id that is given again after a
\* restart brings no old lock back.
TakenIsKnown ==
    \A n \in Node, k \in LockKey, o \in Owner : Taken(n, k) /\ locks[n][k].OwnerID = o =>
        Holds(o) /\ handle[o].node = n /\ handle[o].Key = k /\ ~handle[o].orphan

\* While a server runs, nobody but its holder ends a lock before its time:
\* neither the cleanup loop, whose command may be older than the last renewal,
\* nor a client with a handle from before a crash, whose lease id has been
\* given to another lock since.
HeldUntilDeadline ==
    [][\A o \in Owner :
          /\ Holds(o) /\ Holds(o)' /\ handle[o].until > now
          /\ Exists(table[handle[o].node], handle[o].LeaseID)
          => Exists(table[handle[o].node], handle[o].LeaseID)']_vars

\* What Acquire sees of a lock: the entry, as long as its lease is there.
HolderOf(n, k) == IF Taken(n, k) THEN locks[n][k] ELSE None

Service == INSTANCE LockService
             WITH holder <- [n \in Node |-> [k \in LockKey |-> HolderOf(n, k)]],
                  token <- [n \in Node |-> table[n].leaseID]

\* LockManager implements a lock service with fencing tokens: a lock passes from
\* one holder to the next only through being free, a hold that has ended never
\* comes back, and the lease id of a hold is above all that the process has
\* given before.
ImplementsLockService == Service!Spec

\* A lock whose holder has gone is free in the end: the lease of a lock whose
\* time is over is renewed or revoked.
AbandonedLockFreed ==
    \A l \in LeaseId :
        Exists(table[Leader], l) /\ table[Leader].expireAt[l] <= now
            ~> ~Exists(table[Leader], l) \/ table[Leader].expireAt[l] > now

-----------------------------------------------------------------------------
(* What the code does not keep; see README.                                *)

\* README: "分布式锁: 基于 Lease 实现分布式锁机制，支持续期和竞争检测".  A lock
\* of the cluster has one holder, whichever servers were asked.
MutualExclusion ==
    \A o, p \in Owner, k \in LockKey : CountsOn(o, k) /\ CountsOn(p, k) => o = p

\* A lock that is released in time is out of the table, and not reported as
\* expired.
ReleasedInTime ==
    [][\A o \in Owner :
          Release(o) /\ Exists(table[handle[o].node], handle[o].LeaseID)
          => locks'[handle[o].node][handle[o].Key] = None]_vars

=============================================================================
