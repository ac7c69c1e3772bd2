---------------------------- MODULE LocksProofs -----------------------------
(***************************************************************************)
(* The inductive invariant of Locks, that every step keeps it, and what    *)
(* LockManager promises, for all servers, clients, locks and times.        *)
(*                                                                         *)
(* The heart of the inductive invariant is that a handle of the running    *)
(* process still names the entry of its lock while its lease exists, and   *)
(* that the lease lasts as long as the client counts on it (InTime).  This *)
(* needs revocations to carry a deadline that has passed (Overdue), lease  *)
(* ids that are not in use above the counter (IdsFresh), and no lease to   *)
(* be that of two locks (LeasesApart).                                     *)
(***************************************************************************)
EXTENDS Locks, TLAPS

Table == [leaseID : 0..MaxLeases, expireAt : [LeaseId -> Nat], keyed : SUBSET LeaseId]

TypeOK ==
    /\ now \in Nat
    /\ locks \in [Node -> [LockKey -> LockInfo \cup {None}]]
    /\ table \in [Node -> Table]
    /\ logged \in [Node -> Table]
    /\ expiries \subseteq [LeaseID : LeaseId, ExpireAt : Nat]
    /\ handle \in [Owner -> LockHandle \cup {None}]
    /\ keeping \subseteq [owner : Owner, node : Node, LeaseID : LeaseId]

Fresh(t) == \A l \in LeaseId : l > t.leaseID => ~Exists(t, l)

IdsFresh ==
    /\ \A n \in Node : Fresh(table[n]) /\ Fresh(logged[n])
    /\ \A n \in Node, k \in LockKey : locks[n][k] # None => locks[n][k].LeaseID <= table[n].leaseID
    /\ \A o \in Owner : handle[o] # None /\ ~handle[o].orphan =>
          handle[o].LeaseID <= table[handle[o].node].leaseID

LeasesApart ==
    \A n \in Node, j, k \in LockKey :
        locks[n][j] # None /\ locks[n][k] # None /\ locks[n][j].LeaseID = locks[n][k].LeaseID => j = k

Overdue == \A e \in expiries : e.ExpireAt <= now

\* The lease of a handle that this process gave.
Live(o) ==
    handle[o] # None /\ ~handle[o].orphan /\ Exists(table[handle[o].node], handle[o].LeaseID)

\* A handle of this process that a client may count on.
Good(o) == handle[o] # None /\ ~handle[o].orphan /\ handle[o].until > now

InTime ==
    \A o \in Owner :
        /\ handle[o] # None => handle[o].until <= now + TTL
        /\ Live(o) => Holds(o)
        /\ Good(o) => table[handle[o].node].expireAt[handle[o].LeaseID] >= handle[o].until

LockInv == TypeOK /\ IdsFresh /\ LeasesApart /\ Overdue /\ InTime /\ TakenIsKnown

-----------------------------------------------------------------------------
(* What the operations of a table do.                                      *)

\* A grant uses the id after the counter, which was free.
LEMMA GrantedTable ==
    ASSUME NEW t \in Table, Fresh(t), t.leaseID < MaxLeases, NEW d \in Nat
    PROVE  /\ Granted(t, d) \in Table /\ Fresh(Granted(t, d))
           /\ t.leaseID + 1 \in LeaseId /\ ~Exists(t, t.leaseID + 1)
           /\ Granted(t, d).leaseID = t.leaseID + 1
           /\ \A l \in LeaseId : Granted(t, d).expireAt[l] =
                 IF l = t.leaseID + 1 THEN d ELSE t.expireAt[l]
<1> DEFINE id == t.leaseID + 1
<1>1. /\ t.leaseID \in Nat /\ t.expireAt \in [LeaseId -> Nat]
      /\ id \in LeaseId /\ id \in 0..MaxLeases
  BY LockConstants DEF LockConstants, Table, LeaseId
<1>2. Granted(t, d) = [t EXCEPT !.leaseID = id, !.expireAt = [t.expireAt EXCEPT ![id] = d]]
  BY Zenon DEF Granted, Table
<1>3. Granted(t, d) \in Table
  BY ZenonT(30), <1>1, <1>2 DEF Table
<1>4. /\ Granted(t, d).leaseID = id
      /\ \A l \in LeaseId : Granted(t, d).expireAt[l] = IF l = id THEN d ELSE t.expireAt[l]
  BY Zenon, <1>1, <1>2 DEF Table
<1>5. ~Exists(t, id) /\ Fresh(Granted(t, d))
  BY <1>1, <1>4 DEF Fresh, Exists, LeaseId
<1> QED  BY Zenon, <1>1, <1>3, <1>4, <1>5

\* A renewal moves the deadline of a lease that exists.
LEMMA RenewedTable ==
    ASSUME NEW t \in Table, Fresh(t), NEW l \in LeaseId, NEW d \in Nat
    PROVE  /\ Renewed(t, l, d) \in Table /\ Fresh(Renewed(t, l, d))
           /\ Renewed(t, l, d).leaseID = t.leaseID
           /\ \A m \in LeaseId : Renewed(t, l, d).expireAt[m] =
                 IF m = l /\ Exists(t, l) THEN d ELSE t.expireAt[m]
BY Zenon, LockConstants DEF LockConstants, Table, LeaseId, Fresh, Exists, Renewed

\* A revocation takes one lease away.
LEMMA RevokedTable ==
    ASSUME NEW t \in Table, Fresh(t), NEW l \in LeaseId
    PROVE  /\ Revoked(t, l) \in Table /\ Fresh(Revoked(t, l))
           /\ Revoked(t, l).leaseID = t.leaseID
           /\ \A m \in LeaseId : Revoked(t, l).expireAt[m] = IF m = l THEN 0 ELSE t.expireAt[m]
BY Zenon, LockConstants DEF LockConstants, Table, LeaseId, Fresh, Exists, Revoked

\* A revocation with a deadline takes one lease away or none.
LEMMA RevokedIfMatchesTable ==
    ASSUME NEW t \in Table, Fresh(t), NEW l \in LeaseId, NEW d \in Nat
    PROVE  /\ RevokedIfMatches(t, l, d) \in Table /\ Fresh(RevokedIfMatches(t, l, d))
           /\ RevokedIfMatches(t, l, d).leaseID = t.leaseID
           /\ \A m \in LeaseId : RevokedIfMatches(t, l, d).expireAt[m] =
                 IF m = l /\ t.expireAt[l] = d THEN 0 ELSE t.expireAt[m]
BY Zenon, RevokedTable DEF RevokedIfMatches

\* Attaching a key leaves the leases alone.
LEMMA AttachedTable ==
    ASSUME NEW t \in Table, Fresh(t), NEW l \in LeaseId
    PROVE  /\ Attached(t, l) \in Table /\ Fresh(Attached(t, l))
           /\ Attached(t, l).leaseID = t.leaseID
           /\ Attached(t, l).expireAt = t.expireAt
BY Zenon, LockConstants DEF LockConstants, Table, LeaseId, Fresh, Exists, Attached

-----------------------------------------------------------------------------
(* Every step keeps the invariant.                                         *)

\* What the invariant says of single values.
LEMMA Parts ==
    ASSUME LockInv
    PROVE  /\ now \in Nat /\ TTL \in Nat \ {0} /\ now + TTL \in Nat \ {0}
           /\ \A n \in Node : /\ table[n] \in Table /\ Fresh(table[n])
                              /\ logged[n] \in Table /\ Fresh(logged[n])
           /\ \A n \in Node : table[n].leaseID \in Nat /\ table[n].expireAt \in [LeaseId -> Nat]
           /\ \A n \in Node, k \in LockKey : locks[n][k] # None => locks[n][k] \in LockInfo
           /\ \A o \in Owner : handle[o] # None => handle[o] \in LockHandle
BY LockConstants DEF LockConstants, LockInv, TypeOK, IdsFresh, Table

\* Acquire: nobody who counts on the lock is overwritten, as it would be taken.
LEMMA AcquireKeeps ==
    ASSUME LockInv, NEW o \in Owner, NEW n \in Node, NEW k \in LockKey, Acquire(o, n, k)
    PROVE  LockInv'
<1> DEFINE id == table[n].leaseID + 1
           info == [LeaseID |-> id, OwnerID |-> o]
           h == [node |-> n, Key |-> k, LeaseID |-> id, until |-> now + TTL, orphan |-> FALSE]
<1>1. /\ Granted(table[n], now + TTL) \in Table /\ Fresh(Granted(table[n], now + TTL))
      /\ id \in LeaseId /\ ~Exists(table[n], id)
      /\ Granted(table[n], now + TTL).leaseID = id
      /\ \A l \in LeaseId : Granted(table[n], now + TTL).expireAt[l] =
            IF l = id THEN now + TTL ELSE table[n].expireAt[l]
  BY Zenon, Parts, GrantedTable DEF Acquire
<1>2. info \in LockInfo /\ info # None /\ h \in LockHandle /\ h # None
  <2>1. info \in LockInfo
    BY Zenon, <1>1 DEF LockInfo
  <2>2. h \in LockHandle
    BY Zenon, <1>1, Parts DEF LockHandle
  <2> QED  BY Zenon, <2>1, <2>2, LockConstants DEF LockConstants
<1>3. /\ table' = [table EXCEPT ![n] = Granted(table[n], now + TTL)]
      /\ locks' = [locks EXCEPT ![n][k] = info]
      /\ handle' = [handle EXCEPT ![o] = h]
      /\ UNCHANGED <<now, logged, expiries, keeping>>
  BY Zenon DEF Acquire
<1>4. TypeOK'
  BY Zenon, <1>1, <1>2, <1>3 DEF LockInv, TypeOK
<1>5. /\ \A m \in Node, j \in LockKey : locks'[m][j] = IF m = n /\ j = k THEN info ELSE locks[m][j]
      /\ \A p \in Owner : handle'[p] = IF p = o THEN h ELSE handle[p]
      /\ \A m \in Node : /\ m # n => table'[m] = table[m]
                         /\ m = n => table'[m] = Granted(table[n], now + TTL)
      /\ now' = now /\ logged' = logged /\ expiries' = expiries
  BY Zenon, <1>3 DEF LockInv, TypeOK
<1>6. IdsFresh'
  <2>1. \A m \in Node : Fresh(table'[m]) /\ Fresh(logged'[m])
    BY Zenon, <1>1, <1>5, Parts
  <2>2. \A m \in Node, j \in LockKey : locks'[m][j] # None => locks'[m][j].LeaseID <= table'[m].leaseID
    <3> SUFFICES ASSUME NEW m \in Node, NEW j \in LockKey, locks'[m][j] # None
                 PROVE  locks'[m][j].LeaseID <= table'[m].leaseID
      BY Zenon
    <3>1. CASE m = n /\ j = k
      BY <3>1, <1>1, <1>5 DEF LeaseId
    <3>2. CASE ~(m = n /\ j = k)
      <4>1. locks'[m][j] = locks[m][j] /\ locks[m][j].LeaseID <= table[m].leaseID
        BY Zenon, <3>2, <1>5 DEF LockInv, IdsFresh
      <4>2. locks[m][j].LeaseID \in Nat /\ table[m].leaseID \in Nat
        BY <4>1, Parts DEF LockInfo, LeaseId
      <4> QED  BY <4>1, <4>2, <1>1, <1>5
    <3> QED  BY Zenon, <3>1, <3>2
  <2>3. \A p \in Owner : handle'[p] # None /\ ~handle'[p].orphan =>
           handle'[p].LeaseID <= table'[handle'[p].node].leaseID
    <3> SUFFICES ASSUME NEW p \in Owner, handle'[p] # None, ~handle'[p].orphan
                 PROVE  handle'[p].LeaseID <= table'[handle'[p].node].leaseID
      BY Zenon
    <3>1. CASE p = o
      BY <3>1, <1>1, <1>5 DEF LeaseId
    <3>2. CASE p # o
      <4>1. /\ handle'[p] = handle[p] /\ handle[p].LeaseID <= table[handle[p].node].leaseID
            /\ handle[p].node \in Node /\ handle[p].LeaseID \in Nat
        BY <3>2, <1>5, Parts DEF LockInv, IdsFresh, LockHandle, LeaseId
      <4> QED  BY <4>1, <1>1, <1>5, Parts
    <3> QED  BY Zenon, <3>1, <3>2
  <2> QED  BY Zenon, <2>1, <2>2, <2>3 DEF IdsFresh
<1>7. LeasesApart'
  <2>1. \A j \in LockKey : locks[n][j] # None => locks[n][j].LeaseID # id
    BY Parts DEF LockInv, IdsFresh, LockInfo, LeaseId
  <2>2. info.LeaseID = id
    BY Zenon
  <2> QED  BY <2>1, <2>2, <1>5 DEF LockInv, LeasesApart
<1>8. Overdue'
  BY Zenon, <1>5 DEF LockInv, Overdue
<1>9. \A m \in Node, j \in LockKey : locks'[m][j] # None /\ ~(m = n /\ j = k) =>
         /\ locks'[m][j] = locks[m][j]
         /\ table'[m].expireAt[locks[m][j].LeaseID] = table[m].expireAt[locks[m][j].LeaseID]
  <2> SUFFICES ASSUME NEW m \in Node, NEW j \in LockKey, locks'[m][j] # None, ~(m = n /\ j = k)
               PROVE  /\ locks'[m][j] = locks[m][j]
                      /\ table'[m].expireAt[locks[m][j].LeaseID] = table[m].expireAt[locks[m][j].LeaseID]
    BY Zenon
  <2>1. locks'[m][j] = locks[m][j] /\ locks[m][j] # None
    BY Zenon, <1>5
  <2>2. locks[m][j].LeaseID \in LeaseId /\ locks[m][j].LeaseID <= table[m].leaseID
    BY Zenon, <2>1, Parts DEF LockInv, IdsFresh, LockInfo
  <2>3. CASE m = n
    <3>1. locks[m][j].LeaseID # id
      BY <2>2, <2>3, Parts DEF LeaseId
    <3> QED  BY Zenon, <2>1, <2>2, <2>3, <3>1, <1>1, <1>5
  <2> QED  BY Zenon, <2>1, <2>3, <1>5
<1>10. InTime'
  <2> SUFFICES ASSUME NEW p \in Owner, handle'[p] # None
               PROVE  /\ handle'[p].until <= now' + TTL
                      /\ Live(p)' => Holds(p)'
                      /\ Good(p)' => table'[handle'[p].node].expireAt[handle'[p].LeaseID] >= handle'[p].until
    BY Zenon DEF InTime, Live, Good
  <2>1. CASE p = o
    <3>1. /\ handle'[p] = h /\ h.node = n /\ h.Key = k /\ h.LeaseID = id /\ h.until = now + TTL
          /\ locks'[n][k] = info
      BY Zenon, <2>1, <1>5
    <3>2. Holds(p)'
      BY Zenon, <2>1, <3>1 DEF Holds
    <3>3. table'[n].expireAt[id] = now + TTL
      BY <1>1, <1>5
    <3>4. now' = now /\ now + TTL \in Nat
      BY Zenon, <1>5, Parts
    <3> HIDE DEF h
    <3> QED  BY <3>1, <3>2, <3>3, <3>4
  <2>2. CASE p # o
    <3> DEFINE m == handle[p].node
               j == handle[p].Key
               l == handle[p].LeaseID
    <3>1. /\ handle'[p] = handle[p] /\ handle[p] \in LockHandle /\ handle[p].until <= now + TTL
          /\ m \in Node /\ j \in LockKey /\ l \in LeaseId
      BY Zenon, <2>2, <1>5, Parts DEF LockInv, InTime, LockHandle
    <3>2. ~handle[p].orphan => table'[m].expireAt[l] = table[m].expireAt[l]
      <4>1. ~handle[p].orphan => ~(m = n /\ l = id)
        BY <3>1, Parts DEF LockInv, IdsFresh, LeaseId
      <4> QED  BY Zenon, <4>1, <3>1, <1>1, <1>5
    <3>3. ASSUME Live(p)' PROVE Holds(p)'
      <4>1. Live(p) /\ Holds(p)
        BY Zenon, <3>1, <3>2, <3>3 DEF Live, Exists, LockInv, InTime
      <4>2. locks[m][j] # None /\ locks[m][j].LeaseID = l
        BY <4>1, <3>1, LockConstants DEF Holds, LockConstants, LockInfo
      <4>3. ~(m = n /\ j = k)
        BY Zenon, <4>1, <4>2 DEF Live, Taken, Acquire
      <4> QED  BY <4>1, <4>3, <3>1, <1>5 DEF Holds
    <3>4. ASSUME Good(p)' PROVE table'[m].expireAt[l] >= handle[p].until
      BY Zenon, <3>1, <3>2, <3>4, <1>5 DEF Good, LockInv, InTime
    <3> QED  BY Zenon, <3>1, <3>3, <3>4, <1>5
  <2> QED  BY Zenon, <2>1, <2>2
<1>11. TakenIsKnown'
  <2> SUFFICES ASSUME NEW m \in Node, NEW j \in LockKey, NEW q \in Owner,
                      Taken(m, j)', locks'[m][j].OwnerID = q
               PROVE  Holds(q)' /\ handle'[q].node = m /\ handle'[q].Key = j /\ ~handle'[q].orphan
    BY Zenon DEF TakenIsKnown
  <2>1. CASE m = n /\ j = k
    BY <2>1, <1>2, <1>5 DEF Holds
  <2>2. CASE ~(m = n /\ j = k)
    <3>1. locks'[m][j] = locks[m][j] /\ Taken(m, j)
      <4>1. locks'[m][j] # None /\ table'[m].expireAt[locks'[m][j].LeaseID] # 0
        BY Zenon DEF Taken, Exists
      <4>2. /\ locks'[m][j] = locks[m][j]
            /\ table'[m].expireAt[locks[m][j].LeaseID] = table[m].expireAt[locks[m][j].LeaseID]
        BY Zenon, <2>2, <4>1, <1>9
      <4> QED  BY ONLY <4>1, <4>2 DEF Taken, Exists
    <3>2. Holds(q) /\ handle[q].node = m /\ handle[q].Key = j /\ ~handle[q].orphan
      BY <3>1 DEF LockInv, TakenIsKnown
    <3>3. q # o
      BY Zenon, <3>2 DEF Holds, Acquire
    <3> QED  BY Zenon, <3>1, <3>2, <3>3, <1>5 DEF Holds
  <2> QED  BY Zenon, <2>1, <2>2
<1> QED  BY Zenon, <1>4, <1>6, <1>7, <1>8, <1>10, <1>11 DEF LockInv

\* Steps that give no id, no handle and no entry keep what is said of ids.
LEMMA NoNewIds ==
    ASSUME LockInv, TypeOK',
           \A m \in Node : /\ Fresh(table'[m]) /\ Fresh(logged'[m])
                           /\ table'[m].leaseID = table[m].leaseID,
           \A m \in Node, j \in LockKey : locks'[m][j] \in {locks[m][j], None},
           \A o \in Owner : handle'[o] \in {handle[o], None}
    PROVE  IdsFresh' /\ LeasesApart'
<1>1. \A o \in Owner : handle[o] # None => handle[o].node \in Node
  BY Zenon, Parts DEF LockHandle
<1> QED  BY <1>1 DEF LockInv, IdsFresh, LeasesApart

\* Steps that change no lock and no lease keep the invariant, if they only take
\* handles away that are not good, and revocations are for leases that are over.
LEMMA OtherStepKeeps ==
    ASSUME LockInv, TypeOK', Overdue', now' >= now,
           UNCHANGED locks,
           \A m \in Node : /\ Fresh(table'[m]) /\ Fresh(logged'[m])
                           /\ table'[m].leaseID = table[m].leaseID
                           /\ table'[m].expireAt = table[m].expireAt,
           \A o \in Owner : handle'[o] = handle[o] \/ (handle'[o] = None /\ ~Holds(o))
    PROVE  LockInv'
<1>1. IdsFresh' /\ LeasesApart'
  BY Zenon, NoNewIds
<1>2. InTime'
  <2> SUFFICES ASSUME NEW o \in Owner, handle'[o] # None
               PROVE  /\ handle'[o].until <= now' + TTL
                      /\ Live(o)' => Holds(o)'
                      /\ Good(o)' => table'[handle'[o].node].expireAt[handle'[o].LeaseID] >= handle'[o].until
    BY Zenon DEF InTime, Live, Good
  <2>1. /\ handle'[o] = handle[o] /\ handle[o] # None /\ now' \in Nat
        /\ handle[o].until \in Nat /\ handle[o].node \in Node
    BY Zenon, Parts DEF TypeOK, LockHandle
  <2>2. handle[o].until <= now' + TTL
    BY <2>1, Parts DEF LockInv, InTime
  <2>3. Live(o)' => Holds(o)'
    <3> SUFFICES ASSUME Live(o)'  PROVE Holds(o)'
      BY Zenon
    <3>1. ~handle[o].orphan /\ table'[handle[o].node].expireAt[handle[o].LeaseID] # 0
      BY Zenon, <2>1 DEF Live, Exists
    <3>2. table'[handle[o].node].expireAt = table[handle[o].node].expireAt
      BY Zenon, <2>1
    <3>3. Live(o)
      BY Zenon, <2>1, <3>1, <3>2 DEF Live, Exists
    <3>4. Holds(o)
      BY Zenon, <3>3 DEF LockInv, InTime
    <3> QED  BY Zenon, <2>1, <3>4 DEF Holds
  <2>4. Good(o)' => Good(o)
    BY <2>1, Parts DEF Good
  <2> QED  BY Zenon, <2>1, <2>2, <2>3, <2>4 DEF LockInv, InTime
<1>3. TakenIsKnown'
  <2> SUFFICES ASSUME NEW m \in Node, NEW j \in LockKey, NEW q \in Owner,
                      Taken(m, j)', locks'[m][j].OwnerID = q
               PROVE  Holds(q)' /\ handle'[q].node = m /\ handle'[q].Key = j /\ ~handle'[q].orphan
    BY Zenon DEF TakenIsKnown
  <2>1. Taken(m, j) /\ locks[m][j].OwnerID = q
    BY Zenon DEF Taken, Exists
  <2>2. Holds(q) /\ handle[q].node = m /\ handle[q].Key = j /\ ~handle[q].orphan
    BY Zenon, <2>1 DEF LockInv, TakenIsKnown
  <2>3. handle'[q] = handle[q]
    BY Zenon, <2>2
  <2> QED  BY Zenon, <2>2, <2>3 DEF Holds
<1> QED  BY Zenon, <1>1, <1>2, <1>3 DEF LockInv

\* Attaching a key to the lease of a lock touches no deadline.
LEMMA PutKeyKeeps ==
    ASSUME LockInv, NEW o \in Owner, PutKey(o)
    PROVE  LockInv'
<1> DEFINE n == handle[o].node
           l == handle[o].LeaseID
<1>1. n \in Node /\ l \in LeaseId
  BY Zenon, Parts DEF PutKey, LockHandle
<1>2. /\ Attached(table[n], l) \in Table /\ Fresh(Attached(table[n], l))
      /\ Attached(table[n], l).leaseID = table[n].leaseID
      /\ Attached(table[n], l).expireAt = table[n].expireAt
      /\ Attached(logged[n], l) \in Table /\ Fresh(Attached(logged[n], l))
  BY Zenon, <1>1, Parts, AttachedTable
<1>3. /\ table' = [table EXCEPT ![n] = Attached(table[n], l)]
      /\ logged' = [logged EXCEPT ![n] = Attached(logged[n], l)]
      /\ UNCHANGED <<now, locks, expiries, handle, keeping>>
  BY Zenon DEF PutKey
<1>4. TypeOK'
  BY Zenon, <1>1, <1>2, <1>3 DEF LockInv, TypeOK
<1>5. \A m \in Node : /\ Fresh(table'[m]) /\ Fresh(logged'[m])
                      /\ table'[m].leaseID = table[m].leaseID
                      /\ table'[m].expireAt = table[m].expireAt
  BY Zenon, <1>1, <1>2, <1>3, Parts DEF LockInv, TypeOK
<1>6. Overdue' /\ now' >= now
  BY <1>3, Parts DEF LockInv, Overdue
<1> QED  BY Zenon, <1>3, <1>4, <1>5, <1>6, OtherStepKeeps

\* A client that is told ErrLockNotHeld drops a handle that was not good.
LEMMA NotHeldKeeps ==
    ASSUME LockInv, NEW o \in Owner, NotHeld(o)
    PROVE  LockInv'
<1>1. TypeOK' /\ Overdue' /\ now' >= now
  BY Parts DEF LockInv, TypeOK, Overdue, NotHeld
<1>2. \A m \in Node : Fresh(table'[m]) /\ Fresh(logged'[m])
  BY Zenon, Parts DEF NotHeld
<1>3. \A p \in Owner : handle'[p] = handle[p] \/ (handle'[p] = None /\ ~Holds(p))
  BY Zenon DEF NotHeld, LockInv, TypeOK
<1> QED  BY Zenon, <1>1, <1>2, <1>3, OtherStepKeeps DEF NotHeld

\* The first half of KeepAlive notes the lease that the second will renew.
LEMMA KeepAliveCheckKeeps ==
    ASSUME LockInv, NEW o \in Owner, KeepAliveCheck(o)
    PROVE  LockInv'
<1>1. handle[o] \in LockHandle
  BY Zenon, Parts DEF KeepAliveCheck, Holds
<1>2. TypeOK' /\ Overdue' /\ now' >= now
  BY <1>1, Parts DEF LockInv, TypeOK, Overdue, KeepAliveCheck, LockHandle
<1>3. \A m \in Node : Fresh(table'[m]) /\ Fresh(logged'[m])
  BY Zenon, Parts DEF KeepAliveCheck
<1> QED  BY Zenon, <1>2, <1>3, OtherStepKeeps DEF KeepAliveCheck

\* The cleanup loop submits only deadlines that have passed (Overdue).
LEMMA CleanupKeeps ==
    ASSUME LockInv, NEW l \in LeaseId, Cleanup(l)
    PROVE  LockInv'
<1>1. table[Leader].expireAt[l] \in Nat
  BY Zenon, Parts, LockConstants DEF LockConstants
<1>2. TypeOK' /\ Overdue' /\ now' >= now
  <2> DEFINE e == [LeaseID |-> l, ExpireAt |-> table[Leader].expireAt[l]]
  <2>1. /\ expiries' = expiries \cup {e} /\ table[Leader].expireAt[l] <= now
        /\ UNCHANGED <<now, locks, table, logged, handle, keeping>>
    BY Zenon DEF Cleanup
  <2>2. e \in [LeaseID : LeaseId, ExpireAt : Nat] /\ e.ExpireAt = table[Leader].expireAt[l]
    BY Zenon, <1>1
  <2> HIDE DEF e
  <2>3. TypeOK'
    BY Zenon, <2>1, <2>2 DEF LockInv, TypeOK
  <2>4. Overdue'
    BY Zenon, <2>1, <2>2 DEF LockInv, Overdue
  <2>5. now' >= now
    BY <2>1, Parts
  <2> QED  BY Zenon, <2>3, <2>4, <2>5
<1>3. \A m \in Node : Fresh(table'[m]) /\ Fresh(logged'[m])
  BY Zenon, Parts DEF Cleanup
<1> QED  BY Zenon, <1>2, <1>3, OtherStepKeeps DEF Cleanup

\* As time passes fewer handles are counted on.
LEMMA TickKeeps ==
    ASSUME LockInv, Tick
    PROVE  LockInv'
<1>1. TypeOK' /\ now' >= now
  BY Parts DEF LockInv, TypeOK, Tick
<1>2. Overdue'
  BY Parts DEF LockInv, TypeOK, Overdue, Tick
<1>3. \A m \in Node : Fresh(table'[m]) /\ Fresh(logged'[m])
  BY Zenon, Parts DEF Tick
<1> QED  BY Zenon, <1>1, <1>2, <1>3, OtherStepKeeps DEF Tick

-----------------------------------------------------------------------------
(* Steps that end locks.                                                   *)

\* The lock of a handle is taken as long as its lease is there, which is so
\* while the handle is good.
LEMMA LiveIsTaken ==
    ASSUME LockInv, NEW o \in Owner, Live(o) \/ Good(o)
    PROVE  LET h == handle[o]
           IN  /\ h \in LockHandle
               /\ locks[h.node][h.Key] = [LeaseID |-> h.LeaseID, OwnerID |-> o]
               /\ locks[h.node][h.Key] # None
               /\ Taken(h.node, h.Key)
               /\ Good(o) => table[h.node].expireAt[h.LeaseID] > now
<1> DEFINE h == handle[o]
<1>1. h # None /\ h \in LockHandle
  BY Zenon, Parts DEF Live, Good
<1>2. Good(o) => table[h.node].expireAt[h.LeaseID] > now /\ table[h.node].expireAt[h.LeaseID] # 0
  <2> SUFFICES ASSUME Good(o)
               PROVE  table[h.node].expireAt[h.LeaseID] > now /\ table[h.node].expireAt[h.LeaseID] # 0
    BY Zenon
  <2>1. h.until > now /\ table[h.node].expireAt[h.LeaseID] >= h.until
    BY Zenon DEF Good, LockInv, InTime
  <2>2. h.node \in Node /\ h.LeaseID \in LeaseId /\ h.until \in Nat
    BY Zenon, <1>1 DEF LockHandle
  <2>3. table[h.node].expireAt[h.LeaseID] \in Nat /\ now \in Nat
    BY Zenon, <2>2, Parts
  <2> HIDE DEF h
  <2> QED  BY <2>1, <2>2, <2>3
<1>3. Live(o)
  BY Zenon, <1>1, <1>2 DEF Good, Live, Exists
<1>4. locks[h.node][h.Key] = [LeaseID |-> h.LeaseID, OwnerID |-> o]
  BY Zenon, <1>3 DEF LockInv, InTime, Holds
<1>5. locks[h.node][h.Key] # None /\ locks[h.node][h.Key].LeaseID = h.LeaseID
  BY <1>1, <1>4, LockConstants DEF LockConstants, LockInfo, LockHandle
<1> QED  BY Zenon, <1>1, <1>2, <1>3, <1>4, <1>5 DEF Taken, Live

\* Steps that take entries, leases and handles away keep the invariant, if they
\* spare the entries of live handles, the leases of good ones and the handles of
\* taken locks.
LEMMA EndingStepKeeps ==
    ASSUME LockInv, TypeOK', Overdue', UNCHANGED now,
           \A m \in Node : /\ Fresh(table'[m]) /\ Fresh(logged'[m])
                           /\ table'[m].leaseID = table[m].leaseID,
           \A m \in Node, j \in LockKey : locks'[m][j] \in {locks[m][j], None},
           \A o \in Owner : handle'[o] \in {handle[o], None},
           \A o \in Owner : Live(o)' =>
               Live(o) /\ locks'[handle[o].node][handle[o].Key] = locks[handle[o].node][handle[o].Key],
           \A o \in Owner : Good(o)' =>
               table'[handle[o].node].expireAt[handle[o].LeaseID]
                 = table[handle[o].node].expireAt[handle[o].LeaseID],
           \A m \in Node, j \in LockKey : Taken(m, j)' =>
               Taken(m, j) /\ handle'[locks[m][j].OwnerID] = handle[locks[m][j].OwnerID]
    PROVE  LockInv'
<1>1. IdsFresh' /\ LeasesApart'
  BY Zenon, NoNewIds
<1>2. InTime'
  <2> SUFFICES ASSUME NEW o \in Owner, handle'[o] # None
               PROVE  /\ handle'[o].until <= now' + TTL
                      /\ Live(o)' => Holds(o)'
                      /\ Good(o)' => table'[handle'[o].node].expireAt[handle'[o].LeaseID] >= handle'[o].until
    BY Zenon DEF InTime, Live, Good
  <2>1. handle'[o] = handle[o] /\ handle[o] # None
    BY Zenon
  <2>2. handle[o].until <= now + TTL
    BY Zenon, <2>1 DEF LockInv, InTime
  <2>3. Live(o)' => Holds(o)'
    <3> SUFFICES ASSUME Live(o)'  PROVE Holds(o)'
      BY Zenon
    <3>1. Live(o) /\ locks'[handle[o].node][handle[o].Key] = locks[handle[o].node][handle[o].Key]
      BY Zenon
    <3>2. Holds(o)
      BY Zenon, <3>1 DEF LockInv, InTime
    <3> QED  BY Zenon, <2>1, <3>1, <3>2 DEF Holds
  <2>4. Good(o)' => Good(o)
    BY Zenon, <2>1 DEF Good
  <2> QED  BY Zenon, <2>1, <2>2, <2>3, <2>4 DEF LockInv, InTime
<1>3. TakenIsKnown'
  <2> SUFFICES ASSUME NEW m \in Node, NEW j \in LockKey, NEW q \in Owner,
                      Taken(m, j)', locks'[m][j].OwnerID = q
               PROVE  Holds(q)' /\ handle'[q].node = m /\ handle'[q].Key = j /\ ~handle'[q].orphan
    BY Zenon DEF TakenIsKnown
  <2>1. Taken(m, j) /\ locks'[m][j] = locks[m][j]
    BY Zenon DEF Taken
  <2>2. Holds(q) /\ handle[q].node = m /\ handle[q].Key = j /\ ~handle[q].orphan
    BY <2>1 DEF LockInv, TakenIsKnown
  <2>3. handle'[q] = handle[q]
    BY Zenon, <2>1
  <2> QED  BY Zenon, <2>1, <2>2, <2>3 DEF Holds
<1> QED  BY Zenon, <1>1, <1>2, <1>3 DEF LockInv

\* GetLockStatus removes an entry whose lease is gone.
LEMMA GetLockStatusKeeps ==
    ASSUME LockInv, NEW n \in Node, NEW k \in LockKey, GetLockStatus(n, k)
    PROVE  LockInv'
<1>1. \A m \in Node, j \in LockKey : locks'[m][j] = IF m = n /\ j = k THEN None ELSE locks[m][j]
  BY Zenon DEF GetLockStatus, LockInv, TypeOK
<1>2. TypeOK' /\ Overdue' /\ UNCHANGED <<now, table, logged, handle>>
  BY Zenon DEF GetLockStatus, LockInv, TypeOK, Overdue
<1>3. ASSUME NEW o \in Owner, Live(o)'
      PROVE  Live(o) /\ locks'[handle[o].node][handle[o].Key] = locks[handle[o].node][handle[o].Key]
  <2>1. Live(o)
    BY Zenon, <1>2, <1>3 DEF Live
  <2>2. /\ handle[o].node \in Node /\ handle[o].Key \in LockKey
        /\ Taken(handle[o].node, handle[o].Key)
    BY Zenon, <2>1, LiveIsTaken DEF LockHandle
  <2> QED  BY <2>1, <2>2, <1>1 DEF GetLockStatus
<1>4. \A m \in Node, j \in LockKey : Taken(m, j)' => Taken(m, j)
  BY Zenon, <1>1, <1>2 DEF Taken
<1> QED  BY Zenon, <1>1, <1>2, <1>3, <1>4, Parts, EndingStepKeeps

\* u is t without the lease l if its deadline is d.
Ends(t, l, d, u) ==
    /\ u.leaseID = t.leaseID
    /\ \A m \in LeaseId :
        u.expireAt[m] = IF m = l /\ t.expireAt[l] = d THEN 0 ELSE t.expireAt[m]

\* RevokeLeaseIfMatches ends a lease that still has the deadline.
LEMMA RevokedEnds ==
    ASSUME NEW t \in Table, Fresh(t), NEW l \in LeaseId, NEW d \in Nat
    PROVE  Ends(t, l, d, RevokedIfMatches(t, l, d))
BY RevokedIfMatchesTable DEF Ends

\* A revocation that matches ends a lease whose deadline has passed, so that nobody
\* counts on it.
LEMMA ExpireKeeps ==
    ASSUME LockInv, NEW e \in expiries, Expire(e)
    PROVE  LockInv'
<1> DEFINE t == table[Leader]
           l == e.LeaseID
<1>1. l \in LeaseId /\ e.ExpireAt \in Nat /\ e.ExpireAt <= now /\ Leader \in Node
  BY Zenon, LockConstants DEF LockConstants, LockInv, TypeOK, Overdue
<1>2. /\ RevokedIfMatches(t, l, e.ExpireAt) \in Table /\ Fresh(RevokedIfMatches(t, l, e.ExpireAt))
      /\ RevokedIfMatches(t, l, e.ExpireAt).leaseID = t.leaseID
      /\ \A m \in LeaseId : RevokedIfMatches(t, l, e.ExpireAt).expireAt[m] =
            IF m = l /\ t.expireAt[l] = e.ExpireAt THEN 0 ELSE t.expireAt[m]
      /\ RevokedIfMatches(logged[Leader], l, e.ExpireAt) \in Table
      /\ Fresh(RevokedIfMatches(logged[Leader], l, e.ExpireAt))
  <2>1. t \in Table /\ Fresh(t) /\ logged[Leader] \in Table /\ Fresh(logged[Leader])
    BY Zenon, <1>1, Parts
  <2>2. /\ RevokedIfMatches(logged[Leader], l, e.ExpireAt) \in Table
        /\ Fresh(RevokedIfMatches(logged[Leader], l, e.ExpireAt))
    BY Zenon, <1>1, <2>1, RevokedIfMatchesTable
  <2> HIDE DEF t, l
  <2>a. Ends(t, l, e.ExpireAt, RevokedIfMatches(t, l, e.ExpireAt))
    BY Zenon, <1>1, <2>1, RevokedEnds
  <2>3. RevokedIfMatches(t, l, e.ExpireAt) \in Table /\ Fresh(RevokedIfMatches(t, l, e.ExpireAt))
    BY Zenon, <1>1, <2>1, RevokedIfMatchesTable
  <2>4. RevokedIfMatches(t, l, e.ExpireAt).leaseID = t.leaseID
    BY Zenon, <2>a DEF Ends
  <2>5. \A m \in LeaseId : RevokedIfMatches(t, l, e.ExpireAt).expireAt[m] =
          IF m = l /\ t.expireAt[l] = e.ExpireAt THEN 0 ELSE t.expireAt[m]
    BY Zenon, <2>a DEF Ends
  <2> QED  BY Zenon, <2>2, <2>3, <2>4, <2>5
<1>3. /\ table' = [table EXCEPT ![Leader] = RevokedIfMatches(t, l, e.ExpireAt)]
      /\ logged' = [logged EXCEPT ![Leader] = RevokedIfMatches(logged[Leader], l, e.ExpireAt)]
      /\ expiries' = expiries \ {e} /\ UNCHANGED <<now, locks, handle, keeping>>
  BY Zenon DEF Expire
<1>4. TypeOK' /\ Overdue'
  BY Zenon, <1>1, <1>2, <1>3 DEF LockInv, TypeOK, Overdue
<1>5. \A m \in Node :
        /\ Fresh(table'[m]) /\ Fresh(logged'[m]) /\ table'[m].leaseID = table[m].leaseID
        /\ \A i \in LeaseId : table'[m].expireAt[i] =
              IF m = Leader /\ i = l /\ t.expireAt[l] = e.ExpireAt THEN 0 ELSE table[m].expireAt[i]
  BY Zenon, <1>1, <1>2, <1>3, Parts DEF LockInv, TypeOK
<1>6. ASSUME NEW o \in Owner, Good(o)'
      PROVE  table'[handle[o].node].expireAt[handle[o].LeaseID]
               = table[handle[o].node].expireAt[handle[o].LeaseID]
  <2>1. Good(o)
    BY Zenon, <1>3, <1>6 DEF Good
  <2>2. /\ handle[o].node \in Node /\ handle[o].LeaseID \in LeaseId
        /\ table[handle[o].node].expireAt[handle[o].LeaseID] > now
    BY Zenon, <2>1, LiveIsTaken DEF LockHandle
  <2>3. ~(handle[o].node = Leader /\ handle[o].LeaseID = l /\ t.expireAt[l] = e.ExpireAt)
    BY <2>2, <1>1, Parts
  <2> QED  BY Zenon, <2>2, <2>3, <1>5
<1>7. \A o \in Owner : Live(o)' => Live(o)
  <2> SUFFICES ASSUME NEW o \in Owner, Live(o)'  PROVE Live(o)
    BY Zenon
  <2>1. handle[o] # None /\ ~handle[o].orphan /\ table'[handle[o].node].expireAt[handle[o].LeaseID] # 0
    BY Zenon, <1>3 DEF Live, Exists
  <2>2. handle[o].node \in Node /\ handle[o].LeaseID \in LeaseId
    BY Zenon, <2>1, Parts DEF LockHandle
  <2>3. table[handle[o].node].expireAt[handle[o].LeaseID] # 0
    BY Zenon, <2>1, <2>2, <1>5
  <2> QED  BY Zenon, <2>1, <2>3 DEF Live, Exists
<1>8. \A m \in Node, j \in LockKey : Taken(m, j)' => Taken(m, j)
  <2> SUFFICES ASSUME NEW m \in Node, NEW j \in LockKey, Taken(m, j)'  PROVE Taken(m, j)
    BY Zenon
  <2>1. locks[m][j] # None /\ table'[m].expireAt[locks[m][j].LeaseID] # 0
    BY Zenon, <1>3 DEF Taken, Exists
  <2>2. locks[m][j].LeaseID \in LeaseId
    BY Zenon, <2>1, Parts DEF LockInfo
  <2>3. table[m].expireAt[locks[m][j].LeaseID] # 0
    BY Zenon, <2>1, <2>2, <1>5
  <2> QED  BY Zenon, <2>1, <2>3 DEF Taken, Exists
<1> QED  BY Zenon, <1>3, <1>4, <1>5, <1>6, <1>7, <1>8, EndingStepKeeps

\* Release: its lease is that of no other lock, and its lock is known to no one
\* else.
LEMMA ReleaseKeeps ==
    ASSUME LockInv, NEW o \in Owner, Release(o)
    PROVE  LockInv'
<1> DEFINE n == handle[o].node
           k == handle[o].Key
           l == handle[o].LeaseID
<1>1. /\ handle[o] \in LockHandle /\ n \in Node /\ k \in LockKey /\ l \in LeaseId
      /\ locks[n][k] = [LeaseID |-> l, OwnerID |-> o]
  BY Zenon, Parts DEF Release, Holds, LockHandle
<1>2. locks[n][k] # None /\ locks[n][k].LeaseID = l /\ locks[n][k].OwnerID = o
  BY <1>1, LockConstants DEF LockConstants, LockInfo
<1>3. /\ Revoked(table[n], l) \in Table /\ Fresh(Revoked(table[n], l))
      /\ Revoked(table[n], l).leaseID = table[n].leaseID
      /\ \A m \in LeaseId : Revoked(table[n], l).expireAt[m] = IF m = l THEN 0 ELSE table[n].expireAt[m]
  BY Zenon, <1>1, Parts, RevokedTable
<1>4. /\ table' = [table EXCEPT ![n] = Revoked(table[n], l)]
      /\ locks' = [locks EXCEPT ![n][k] = None] \/ locks' = locks
      /\ handle' = [handle EXCEPT ![o] = None]
      /\ UNCHANGED <<now, logged, expiries, keeping>>
  BY Zenon DEF Release
<1>5. TypeOK' /\ Overdue'
  <2>1. locks' \in [Node -> [LockKey -> LockInfo \cup {None}]]
    <3>1. locks \in [Node -> [LockKey -> LockInfo \cup {None}]]
      BY Zenon DEF LockInv, TypeOK
    <3>2. [locks EXCEPT ![n][k] = None] \in [Node -> [LockKey -> LockInfo \cup {None}]]
      BY Zenon, <3>1, <1>1
    <3> QED  BY Zenon, <3>1, <3>2, <1>4
  <2>2. table' \in [Node -> Table] /\ handle' \in [Owner -> LockHandle \cup {None}]
    BY Zenon, <1>1, <1>3, <1>4 DEF LockInv, TypeOK
  <2> QED  BY Zenon, <2>1, <2>2, <1>4 DEF LockInv, TypeOK, Overdue
<1>6. /\ \A m \in Node : /\ Fresh(table'[m]) /\ Fresh(logged'[m])
                         /\ table'[m].leaseID = table[m].leaseID
      /\ \A m \in Node : \A i \in LeaseId : table'[m].expireAt[i] =
            IF m = n /\ i = l THEN 0 ELSE table[m].expireAt[i]
  BY Zenon, <1>1, <1>3, <1>4, Parts DEF LockInv, TypeOK
<1>7. /\ \A m \in Node, j \in LockKey : /\ locks'[m][j] \in {locks[m][j], None}
                                        /\ ~(m = n /\ j = k) => locks'[m][j] = locks[m][j]
      /\ \A p \in Owner : handle'[p] = IF p = o THEN None ELSE handle[p]
  BY <1>1, <1>4 DEF LockInv, TypeOK
<1>8. ASSUME NEW p \in Owner, Live(p)' \/ Good(p)'
      PROVE  /\ Live(p)
             /\ locks'[handle[p].node][handle[p].Key] = locks[handle[p].node][handle[p].Key]
             /\ table'[handle[p].node].expireAt[handle[p].LeaseID]
                  = table[handle[p].node].expireAt[handle[p].LeaseID]
  <2> DEFINE m == handle[p].node
             j == handle[p].Key
  <2>1. p # o /\ handle'[p] = handle[p] /\ handle[p] \in LockHandle
    BY Zenon, <1>7, <1>8, Parts DEF Live, Good
  <2>2. Live(p) \/ Good(p)
    <3>1. m \in Node /\ handle[p].LeaseID \in LeaseId
      BY Zenon, <2>1 DEF LockHandle
    <3>2. Live(p)' => Live(p)
      BY <2>1, <3>1, <1>6 DEF Live, Exists
    <3>3. Good(p)' => Good(p)
      BY Zenon, <2>1, <1>4 DEF Good
    <3> QED  BY Zenon, <3>2, <3>3, <1>8
  <2>3. /\ m \in Node /\ j \in LockKey /\ handle[p].LeaseID \in LeaseId
        /\ locks[m][j] = [LeaseID |-> handle[p].LeaseID, OwnerID |-> p] /\ locks[m][j] # None
        /\ Taken(m, j) /\ ~handle[p].orphan
    BY Zenon, <2>2, LiveIsTaken DEF LockHandle, Live, Good
  <2>4. ~(m = n /\ j = k)
    <3>1. locks[m][j].OwnerID = p
      BY <2>3
    <3> QED  BY Zenon, <2>1, <3>1, <1>2
  <2>5. ~(m = n /\ handle[p].LeaseID = l)
    BY <2>3, <2>4, <1>1, <1>2 DEF LockInv, LeasesApart
  <2>6. Live(p)
    BY <2>2, <2>3 DEF Live, Taken, Good
  <2> QED  BY Zenon, <2>3, <2>4, <2>5, <2>6, <1>6, <1>7
<1>9. ASSUME NEW m \in Node, NEW j \in LockKey, Taken(m, j)'
      PROVE  Taken(m, j) /\ handle'[locks[m][j].OwnerID] = handle[locks[m][j].OwnerID]
  <2>1. locks'[m][j] = locks[m][j] /\ locks[m][j] # None
    BY Zenon, <1>7, <1>9 DEF Taken
  <2>2. locks[m][j].LeaseID \in LeaseId /\ locks[m][j].OwnerID \in Owner
    BY Zenon, <2>1, Parts DEF LockInfo
  <2>3. Taken(m, j) /\ ~(m = n /\ locks[m][j].LeaseID = l)
    BY <2>1, <2>2, <1>6, <1>9 DEF Taken, Exists
  <2>4. locks[m][j].OwnerID # o
    BY <2>2, <2>3, <1>2 DEF LockInv, TakenIsKnown
  <2> QED  BY Zenon, <2>2, <2>3, <2>4, <1>7
<1>10. \A p \in Owner : handle'[p] \in {handle[p], None}
  BY Zenon, <1>7
<1> QED  BY Zenon, <1>4, <1>5, <1>6, <1>7, <1>8, <1>9, <1>10, EndingStepKeeps

-----------------------------------------------------------------------------
(* Renewals, other leases and restarts.                                    *)

\* The deadline moves, if at all, to one that no client's time is beyond, and a
\* handle is given more time only while its lease is there.
LEMMA KeepAliveRenewKeeps ==
    ASSUME LockInv, NEW c \in keeping, KeepAliveRenew(c)
    PROVE  LockInv'
<1> DEFINE n == c.node
           l == c.LeaseID
           o == c.owner
           d == now + TTL
<1>1. n \in Node /\ l \in LeaseId /\ o \in Owner /\ d \in Nat \ {0}
  BY Zenon, Parts DEF LockInv, TypeOK
<1>2. /\ Renewed(table[n], l, d) \in Table /\ Fresh(Renewed(table[n], l, d))
      /\ Renewed(table[n], l, d).leaseID = table[n].leaseID
      /\ \A m \in LeaseId : Renewed(table[n], l, d).expireAt[m] =
            IF m = l /\ Exists(table[n], l) THEN d ELSE table[n].expireAt[m]
  <2>1. table[n] \in Table /\ Fresh(table[n])
    BY Zenon, <1>1, Parts
  <2> HIDE DEF d, l, n
  <2> QED  BY Zenon, <1>1, <2>1, RenewedTable
<1>3. /\ table' = [table EXCEPT ![n] = Renewed(table[n], l, d)]
      /\ UNCHANGED <<now, locks, logged, expiries>> /\ keeping' = keeping \ {c}
  BY Zenon DEF KeepAliveRenew
<1>4. ASSUME NEW p \in Owner
      PROVE  \/ handle'[p] = handle[p]
             \/ handle'[p] = None /\ ~Live(p)
             \/ /\ p = o /\ IsFor(c) /\ Live(p)
                /\ handle'[p] = [handle[p] EXCEPT !.until = d]
  BY Zenon, <1>1 DEF KeepAliveRenew, IsFor, Live, LockInv, TypeOK
<1>5. ASSUME NEW p \in Owner, handle'[p] # None
      PROVE  /\ handle[p] # None /\ handle[p] \in LockHandle /\ handle'[p] \in LockHandle
             /\ handle'[p].until \in {handle[p].until, d}
             /\ handle'[p].node = handle[p].node /\ handle'[p].Key = handle[p].Key
             /\ handle'[p].LeaseID = handle[p].LeaseID /\ handle'[p].orphan = handle[p].orphan
  <2>1. handle[p] # None /\ handle[p] \in LockHandle
    BY Zenon, <1>4, <1>5, Parts DEF Live
  <2> QED  BY Zenon, <2>1, <1>1, <1>4, <1>5 DEF LockHandle
<1>6. TypeOK'
  <2>1. handle' \in [Owner -> LockHandle \cup {None}]
    <3>1. handle' = [p \in Owner |-> handle'[p]]
      BY Zenon DEF KeepAliveRenew, LockInv, TypeOK
    <3> QED  BY Zenon, <3>1, <1>5
  <2> QED  BY Zenon, <2>1, <1>1, <1>2, <1>3 DEF LockInv, TypeOK
<1>7. \A m \in Node :
        /\ Fresh(table'[m]) /\ Fresh(logged'[m]) /\ table'[m].leaseID = table[m].leaseID
        /\ \A i \in LeaseId : table'[m].expireAt[i] =
              IF m = n /\ i = l /\ Exists(table[n], l) THEN d ELSE table[m].expireAt[i]
  BY Zenon, <1>1, <1>2, <1>3, Parts DEF LockInv, TypeOK
<1>8. \A m \in Node, i \in LeaseId : /\ Exists(table'[m], i) <=> Exists(table[m], i)
                                     /\ table'[m].expireAt[i] \in {table[m].expireAt[i], d}
  BY <1>1, <1>7 DEF Exists
<1>9. IdsFresh' /\ LeasesApart' /\ Overdue'
  <2>1. \A p \in Owner : handle'[p] # None /\ ~handle'[p].orphan =>
           handle'[p].LeaseID <= table'[handle'[p].node].leaseID
    <3> SUFFICES ASSUME NEW p \in Owner, handle'[p] # None, ~handle'[p].orphan
                 PROVE  handle'[p].LeaseID <= table'[handle'[p].node].leaseID
      BY Zenon
    <3>1. /\ handle[p].LeaseID <= table[handle[p].node].leaseID /\ handle[p].node \in Node
          /\ handle'[p].node = handle[p].node /\ handle'[p].LeaseID = handle[p].LeaseID
      BY Zenon, <1>5 DEF LockInv, IdsFresh, LockHandle
    <3> QED  BY Zenon, <3>1, <1>7
  <2> QED  BY Zenon, <2>1, <1>3, <1>7 DEF LockInv, IdsFresh, LeasesApart, Overdue
<1>10. InTime'
  <2> SUFFICES ASSUME NEW p \in Owner, handle'[p] # None
               PROVE  /\ handle'[p].until <= now' + TTL
                      /\ Live(p)' => Holds(p)'
                      /\ Good(p)' => table'[handle'[p].node].expireAt[handle'[p].LeaseID] >= handle'[p].until
    BY Zenon DEF InTime, Live, Good
  <2>1. /\ handle[p] # None /\ handle[p].node \in Node /\ handle[p].LeaseID \in LeaseId
        /\ handle[p].until \in Nat /\ handle[p].until <= d
    BY Zenon, <1>5 DEF LockInv, InTime, LockHandle
  <2>2. handle'[p].until <= now' + TTL
    <3>1. handle'[p].until \in {handle[p].until, d} /\ now' = now
      BY Zenon, <1>3, <1>5
    <3> QED  BY <3>1, <2>1, <1>1
  <2>3. Live(p)' => Holds(p)'
    BY Zenon, <2>1, <1>3, <1>5, <1>8 DEF Live, Holds, LockInv, InTime
  <2>4. ASSUME Good(p)'
        PROVE  table'[handle'[p].node].expireAt[handle'[p].LeaseID] >= handle'[p].until
    <3>1. CASE handle'[p] = handle[p]
      <4>1. table[handle[p].node].expireAt[handle[p].LeaseID] >= handle[p].until
        BY Zenon, <2>4, <3>1, <1>3 DEF Good, LockInv, InTime
      <4> QED  BY Zenon, <4>1, <3>1, <2>1, <1>8
    <3>2. CASE handle'[p] # handle[p]
      <4>1. IsFor(c) /\ p = o /\ Live(p) /\ handle'[p] = [handle[p] EXCEPT !.until = d]
        BY Zenon, <3>2, <1>4
      <4>2. handle[p].node = n /\ handle[p].LeaseID = l /\ Exists(table[n], l)
        BY Zenon, <4>1 DEF IsFor, Live
      <4>3. handle'[p].until = d
        BY Zenon, <4>1, <1>5 DEF LockHandle
      <4>4. table'[n].expireAt[l] = d
        BY Zenon, <4>2, <1>1, <1>7
      <4>5. handle'[p].node = n /\ handle'[p].LeaseID = l
        BY Zenon, <4>2, <1>5
      <4> QED  BY <4>3, <4>4, <4>5, <1>1
    <3> QED  BY Zenon, <3>1, <3>2
  <2> QED  BY Zenon, <2>2, <2>3, <2>4
<1>11. TakenIsKnown'
  <2> SUFFICES ASSUME NEW m \in Node, NEW j \in LockKey, NEW q \in Owner,
                      Taken(m, j)', locks'[m][j].OwnerID = q
               PROVE  Holds(q)' /\ handle'[q].node = m /\ handle'[q].Key = j /\ ~handle'[q].orphan
    BY Zenon DEF TakenIsKnown
  <2>1. Taken(m, j) /\ locks[m][j].OwnerID = q
    BY Zenon, <1>3, <1>8, Parts DEF Taken, LockInfo
  <2>2. Holds(q) /\ handle[q].node = m /\ handle[q].Key = j /\ ~handle[q].orphan
    BY Zenon, <2>1 DEF LockInv, TakenIsKnown
  <2>3. Live(q)
    <3>1. handle[q].LeaseID = locks[m][j].LeaseID
      BY <2>2 DEF Holds
    <3> QED  BY Zenon, <2>1, <2>2, <3>1 DEF Live, Taken, Holds
  <2>4. handle'[q] # None
    <3>1. handle[q] # None /\ handle[q] \in LockHandle
      BY Zenon, <2>3, Parts DEF Live
    <3>2. [handle[q] EXCEPT !.until = d] \in LockHandle
      BY Zenon, <3>1, <1>1 DEF LockHandle
    <3> QED  BY Zenon, <3>1, <3>2, <2>3, <1>4, LockConstants DEF LockConstants
  <2> QED  BY Zenon, <2>2, <2>4, <1>3, <1>5 DEF Holds
<1> QED  BY Zenon, <1>6, <1>9, <1>10, <1>11 DEF LockInv

\* The lease of another client takes an id that no lock has.
LEMMA LeaseGrantKeeps ==
    ASSUME LockInv, NEW n \in Node, LeaseGrant(n)
    PROVE  LockInv'
<1> DEFINE id == table[n].leaseID + 1
           t == Granted(table[n], now + TTL)
           u == Granted(logged[n], now + TTL)
<1>1. /\ t \in Table /\ Fresh(t) /\ t.leaseID = id /\ id \in LeaseId /\ ~Exists(table[n], id)
      /\ \A l \in LeaseId : l # id => t.expireAt[l] = table[n].expireAt[l]
      /\ u \in Table /\ Fresh(u)
  BY Parts, GrantedTable DEF LeaseGrant
<1>2. /\ table' = [table EXCEPT ![n] = t] /\ logged' = [logged EXCEPT ![n] = u]
      /\ UNCHANGED <<now, locks, expiries, handle, keeping>>
  BY Zenon DEF LeaseGrant
<1> HIDE DEF t, u
<1>3. TypeOK' /\ Overdue'
  BY Zenon, <1>1, <1>2 DEF LockInv, TypeOK, Overdue
<1>4. \A m \in Node :
        /\ Fresh(table'[m]) /\ Fresh(logged'[m])
        /\ table[m].leaseID \in Nat /\ table'[m].leaseID \in Nat
        /\ table[m].leaseID <= table'[m].leaseID
        /\ \A i \in LeaseId : i <= table[m].leaseID => table'[m].expireAt[i] = table[m].expireAt[i]
  <2> SUFFICES ASSUME NEW m \in Node
               PROVE  /\ Fresh(table'[m]) /\ Fresh(logged'[m])
                      /\ table[m].leaseID \in Nat /\ table'[m].leaseID \in Nat
                      /\ table[m].leaseID <= table'[m].leaseID
                      /\ \A i \in LeaseId : i <= table[m].leaseID =>
                            table'[m].expireAt[i] = table[m].expireAt[i]
    BY Zenon
  <2>1. CASE m = n
    <3>1. table'[m] = t /\ logged'[m] = u
      BY Zenon, <2>1, <1>2 DEF LockInv, TypeOK
    <3>2. table[n].leaseID \in Nat /\ \A i \in LeaseId : i <= table[n].leaseID => i # id
      BY Parts DEF LeaseId
    <3> QED  BY <2>1, <3>1, <3>2, <1>1
  <2>2. CASE m # n
    <3>1. table'[m] = table[m] /\ logged'[m] = logged[m]
      BY Zenon, <2>2, <1>2 DEF LockInv, TypeOK
    <3> QED  BY <3>1, Parts
  <2> QED  BY Zenon, <2>1, <2>2
<1>5. IdsFresh' /\ LeasesApart'
  <2>1. \A m \in Node, j \in LockKey : locks[m][j] # None =>
           locks[m][j].LeaseID <= table'[m].leaseID
    BY SMTT(30), <1>4, Parts DEF LockInv, IdsFresh, LockInfo, LeaseId
  <2>2. \A o \in Owner : handle[o] # None /\ ~handle[o].orphan =>
           handle[o].LeaseID <= table'[handle[o].node].leaseID
    <3> SUFFICES ASSUME NEW o \in Owner, handle[o] # None, ~handle[o].orphan
                 PROVE  handle[o].LeaseID <= table'[handle[o].node].leaseID
      BY Zenon
    <3>1. handle[o].node \in Node /\ handle[o].LeaseID \in Nat
      BY Parts DEF LockHandle, LeaseId
    <3>2. handle[o].LeaseID <= table[handle[o].node].leaseID
      BY Zenon DEF LockInv, IdsFresh
    <3>3. /\ table[handle[o].node].leaseID \in Nat /\ table'[handle[o].node].leaseID \in Nat
          /\ table[handle[o].node].leaseID <= table'[handle[o].node].leaseID
      BY Zenon, <3>1, <1>4
    <3> QED  BY <3>1, <3>2, <3>3
  <2> QED  BY Zenon, <2>1, <2>2, <1>2, <1>4 DEF LockInv, IdsFresh, LeasesApart
<1>6. InTime'
  <2>1. \A o \in Owner : handle[o] # None /\ ~handle[o].orphan =>
           table'[handle[o].node].expireAt[handle[o].LeaseID]
             = table[handle[o].node].expireAt[handle[o].LeaseID]
    BY Zenon, <1>4, Parts DEF LockInv, IdsFresh, LockHandle
  <2>2. \A o \in Owner : Live(o)' => Holds(o)'
    BY Zenon, <2>1, <1>2 DEF LockInv, InTime, Live, Exists, Holds
  <2>3. \A o \in Owner : Good(o)' =>
           table'[handle'[o].node].expireAt[handle'[o].LeaseID] >= handle'[o].until
    BY Zenon, <2>1, <1>2 DEF LockInv, InTime, Good
  <2> QED  BY Zenon, <2>2, <2>3, <1>2 DEF LockInv, InTime
<1>7. TakenIsKnown'
  <2>1. \A m \in Node, j \in LockKey : Taken(m, j)' => Taken(m, j)
    <3> SUFFICES ASSUME NEW m \in Node, NEW j \in LockKey, locks[m][j] # None
                 PROVE  Exists(table'[m], locks[m][j].LeaseID) => Exists(table[m], locks[m][j].LeaseID)
      BY Zenon, <1>2 DEF Taken
    <3>1. locks[m][j].LeaseID \in LeaseId
      BY Zenon, Parts DEF LockInfo
    <3>2. locks[m][j].LeaseID <= table[m].leaseID
      BY Zenon DEF LockInv, IdsFresh
    <3>3. table'[m].expireAt[locks[m][j].LeaseID] = table[m].expireAt[locks[m][j].LeaseID]
      BY Zenon, <3>1, <3>2, <1>4
    <3> QED  BY Zenon, <3>3 DEF Exists
  <2> SUFFICES ASSUME NEW m \in Node, NEW j \in LockKey, NEW q \in Owner,
                      Taken(m, j)', locks'[m][j].OwnerID = q
               PROVE  Holds(q)' /\ handle'[q].node = m /\ handle'[q].Key = j /\ ~handle'[q].orphan
    BY Zenon DEF TakenIsKnown
  <2>2. Holds(q) /\ handle[q].node = m /\ handle[q].Key = j /\ ~handle[q].orphan
    BY <2>1, <1>2 DEF LockInv, TakenIsKnown
  <2> QED  BY Zenon, <2>2, <1>2 DEF Holds
<1> QED  BY Zenon, <1>3, <1>5, <1>6, <1>7 DEF LockInv

\* A new process gives no lock and owns no handle; other servers do not notice.
LEMMA StartAgainKeeps ==
    ASSUME LockInv, NEW n \in Node, NEW t \in Table, Fresh(t), StartAgain(n, t)
    PROVE  LockInv'
<1>1. /\ \A m \in Node, j \in LockKey : locks'[m][j] = IF m = n THEN None ELSE locks[m][j]
      /\ \A m \in Node : m # n => table'[m] = table[m] /\ logged'[m] = logged[m]
      /\ table'[n] = t /\ logged'[n] = t
      /\ UNCHANGED <<now, expiries>>
  BY Zenon DEF StartAgain, LockInv, TypeOK
<1>2. ASSUME NEW o \in Owner, handle'[o] # None
      PROVE  /\ handle[o] # None /\ handle[o] \in LockHandle /\ handle'[o] \in LockHandle
             /\ handle'[o].until = handle[o].until
             /\ ~handle'[o].orphan => handle'[o] = handle[o] /\ handle[o].node # n
  <2>1. handle'[o] = IF handle[o] # None /\ handle[o].node = n
                     THEN [handle[o] EXCEPT !.orphan = TRUE] ELSE handle[o]
    BY Zenon DEF StartAgain
  <2>2. handle[o] # None /\ handle[o] \in LockHandle
    BY Zenon, <2>1, <1>2, Parts
  <2> QED  BY Zenon, <2>1, <2>2 DEF LockHandle
<1>3. TypeOK' /\ Overdue'
  <2>1. handle' \in [Owner -> LockHandle \cup {None}]
    <3>1. handle' = [o \in Owner |-> handle'[o]]
      BY Zenon DEF StartAgain
    <3> QED  BY Zenon, <3>1, <1>2
  <2>2. /\ locks' \in [Node -> [LockKey -> LockInfo \cup {None}]]
        /\ table' \in [Node -> Table] /\ logged' \in [Node -> Table]
        /\ keeping' \subseteq keeping
    BY Zenon DEF StartAgain, LockInv, TypeOK
  <2> QED  BY Zenon, <2>1, <2>2, <1>1 DEF LockInv, TypeOK, Overdue
<1>4. IdsFresh' /\ LeasesApart'
  <2>1. \A o \in Owner : handle'[o] # None /\ ~handle'[o].orphan =>
           handle'[o].LeaseID <= table'[handle'[o].node].leaseID
    <3> SUFFICES ASSUME NEW o \in Owner, handle'[o] # None, ~handle'[o].orphan
                 PROVE  handle'[o].LeaseID <= table'[handle'[o].node].leaseID
      BY Zenon
    <3>1. /\ handle'[o] = handle[o] /\ handle[o] # None
          /\ handle[o].node \in Node /\ handle[o].node # n
      BY Zenon, <1>2 DEF LockHandle
    <3>2. handle[o].LeaseID <= table[handle[o].node].leaseID
      BY Zenon, <3>1 DEF LockInv, IdsFresh
    <3> QED  BY Zenon, <3>1, <3>2, <1>1
  <2>2. /\ \A m \in Node : Fresh(table[m]) /\ Fresh(logged[m])
        /\ \A m \in Node, k \in LockKey : locks[m][k] # None => locks[m][k].LeaseID <= table[m].leaseID
        /\ \A m \in Node, j, k \in LockKey :
              locks[m][j] # None /\ locks[m][k] # None /\ locks[m][j].LeaseID = locks[m][k].LeaseID
                => j = k
    BY Zenon DEF LockInv, IdsFresh, LeasesApart
  <2>3. \A m \in Node : Fresh(table'[m]) /\ Fresh(logged'[m])
    BY Zenon, <1>1, <2>2
  <2>4. ASSUME NEW m \in Node, NEW k \in LockKey, locks'[m][k] # None
        PROVE  locks[m][k] # None /\ locks'[m][k] = locks[m][k] /\ table'[m] = table[m]
    BY Zenon, <1>1, <2>4
  <2>5. \A m \in Node, k \in LockKey : locks'[m][k] # None => locks'[m][k].LeaseID <= table'[m].leaseID
    BY Zenon, <2>2, <2>4
  <2>6. IdsFresh'
    BY Zenon, <2>1, <2>3, <2>5 DEF IdsFresh
  <2>7. LeasesApart'
    <3> SUFFICES ASSUME NEW m \in Node, NEW j \in LockKey, NEW k \in LockKey,
                        locks'[m][j] # None, locks'[m][k] # None,
                        locks'[m][j].LeaseID = locks'[m][k].LeaseID
                 PROVE  j = k
      BY Zenon DEF LeasesApart
    <3>1. /\ locks[m][j] # None /\ locks'[m][j] = locks[m][j]
          /\ locks[m][k] # None /\ locks'[m][k] = locks[m][k]
      BY Zenon, <2>4
    <3> QED  BY Zenon, <2>2, <3>1
  <2> QED  BY Zenon, <2>6, <2>7
<1>5. InTime'
  <2>1. \A o \in Owner : handle'[o] # None => handle'[o].until <= now' + TTL
    BY Zenon, <1>1, <1>2 DEF LockInv, InTime
  <2>2. ASSUME NEW o \in Owner, handle'[o] # None, ~handle'[o].orphan
        PROVE  /\ handle'[o] = handle[o] /\ handle[o].node \in Node /\ handle[o].Key \in LockKey
               /\ table'[handle[o].node] = table[handle[o].node]
               /\ locks'[handle[o].node][handle[o].Key] = locks[handle[o].node][handle[o].Key]
    BY Zenon, <1>1, <1>2, <2>2 DEF LockHandle
  <2>3. ASSUME NEW o \in Owner, Live(o)'  PROVE Holds(o)'
    <3>1. handle'[o] # None /\ ~handle'[o].orphan
      BY Zenon, <2>3 DEF Live
    <3>2. Live(o)
      BY Zenon, <2>2, <2>3, <3>1 DEF Live
    <3>3. Holds(o)
      BY Zenon, <3>2 DEF LockInv, InTime
    <3>4. /\ handle'[o] = handle[o]
          /\ locks'[handle[o].node][handle[o].Key] = locks[handle[o].node][handle[o].Key]
      BY Zenon, <2>2, <3>1
    <3> QED  BY Zenon, <3>3, <3>4 DEF Holds
  <2>4. ASSUME NEW o \in Owner, Good(o)'
        PROVE  table'[handle'[o].node].expireAt[handle'[o].LeaseID] >= handle'[o].until
    <3>1. handle'[o] # None /\ ~handle'[o].orphan
      BY Zenon, <2>4 DEF Good
    <3>2. handle'[o] = handle[o] /\ table'[handle[o].node] = table[handle[o].node]
      BY Zenon, <2>2, <3>1
    <3>3. Good(o)
      BY Zenon, <2>4, <3>2, <1>1 DEF Good
    <3>4. table[handle[o].node].expireAt[handle[o].LeaseID] >= handle[o].until
      BY Zenon, <3>3 DEF LockInv, InTime
    <3> QED  BY Zenon, <3>2, <3>4
  <2> QED  BY Zenon, <2>1, <2>3, <2>4 DEF InTime
<1>6. TakenIsKnown'
  <2> SUFFICES ASSUME NEW m \in Node, NEW j \in LockKey, NEW q \in Owner,
                      Taken(m, j)', locks'[m][j].OwnerID = q
               PROVE  Holds(q)' /\ handle'[q].node = m /\ handle'[q].Key = j /\ ~handle'[q].orphan
    BY Zenon DEF TakenIsKnown
  <2>1. m # n /\ locks'[m][j] = locks[m][j] /\ Taken(m, j)
    BY Zenon, <1>1 DEF Taken
  <2>2. Holds(q) /\ handle[q].node = m /\ handle[q].Key = j /\ ~handle[q].orphan
    BY <2>1 DEF LockInv, TakenIsKnown
  <2>3. handle'[q] = handle[q]
    BY Zenon, <2>1, <2>2 DEF StartAgain
  <2> QED  BY Zenon, <2>1, <2>2, <2>3 DEF Holds
<1> QED  BY Zenon, <1>3, <1>4, <1>5, <1>6 DEF LockInv

-----------------------------------------------------------------------------
(* What LockManager promises.                                              *)

\* The states that are reached satisfy the invariant.
THEOREM LockInvariant == Spec => []LockInv
<1>1. Init => LockInv
  <2> SUFFICES ASSUME Init PROVE LockInv
    BY Zenon
  <2>1. NoLeases \in Table /\ \A l \in LeaseId : ~Exists(NoLeases, l)
    BY LockConstants DEF LockConstants, NoLeases, Table, Exists
  <2>2. TypeOK
    BY Zenon, <2>1 DEF Init, TypeOK
  <2>3. IdsFresh /\ LeasesApart /\ Overdue /\ InTime /\ TakenIsKnown
    BY Zenon, <2>1 DEF Init, IdsFresh, Fresh, LeasesApart, Overdue, InTime, Live, Good, TakenIsKnown, Taken
  <2> QED  BY Zenon, <2>2, <2>3 DEF LockInv
<1>2. LockInv /\ [Next]_vars => LockInv'
  <2> SUFFICES ASSUME LockInv, [Next]_vars PROVE LockInv'
    BY Zenon
  <2>1. ASSUME NEW o \in Owner, NEW n \in Node, NEW k \in LockKey, Acquire(o, n, k)  PROVE LockInv'
    BY Zenon, <2>1, AcquireKeeps
  <2>2. ASSUME NEW o \in Owner, PutKey(o) \/ Release(o) \/ NotHeld(o) \/ KeepAliveCheck(o)
        PROVE  LockInv'
    BY Zenon, <2>2, PutKeyKeeps, ReleaseKeeps, NotHeldKeeps, KeepAliveCheckKeeps
  <2>3. ASSUME NEW c \in keeping, KeepAliveRenew(c)  PROVE LockInv'
    BY Zenon, <2>3, KeepAliveRenewKeeps
  <2>4. ASSUME NEW n \in Node, NEW k \in LockKey, GetLockStatus(n, k)  PROVE LockInv'
    BY Zenon, <2>4, GetLockStatusKeeps
  <2>5. ASSUME NEW n \in Node, LeaseGrant(n)  PROVE LockInv'
    BY Zenon, <2>5, LeaseGrantKeeps
  <2>6. ASSUME NEW n \in Node, Crash(n) \/ Shutdown(n)  PROVE LockInv'
    BY Zenon, <2>6, Parts, StartAgainKeeps DEF Crash, Shutdown
  <2>7. ASSUME NEW l \in LeaseId, Cleanup(l)  PROVE LockInv'
    BY Zenon, <2>7, CleanupKeeps
  <2>8. ASSUME NEW e \in expiries, Expire(e)  PROVE LockInv'
    BY Zenon, <2>8, ExpireKeeps
  <2>9. CASE Tick
    BY Zenon, <2>9, TickKeeps
  <2>10. CASE UNCHANGED vars
    <3>1. UNCHANGED <<now, locks, table, logged, expiries, handle, keeping>>
      BY Zenon, <2>10 DEF vars
    <3>2. TypeOK' /\ Overdue'
      BY Zenon, <3>1 DEF LockInv, TypeOK, Overdue
    <3>3. now' >= now
      BY <3>1, Parts
    <3> QED  BY Zenon, <3>1, <3>2, <3>3, Parts, OtherStepKeeps
  <2> QED  BY Zenon, <2>1, <2>2, <2>3, <2>4, <2>5, <2>6, <2>7, <2>8, <2>9, <2>10 DEF Next
<1> QED  BY <1>1, <1>2, PTL DEF Spec

\* Clients that one process has given a lock, and that count on it, are one.
THEOREM LocksOneHolder == Spec => []OneHolder
<1>1. LockInv => OneHolder
  <2> SUFFICES ASSUME LockInv, NEW o \in Owner, NEW p \in Owner, NEW k \in LockKey,
                      CountsOn(o, k), CountsOn(p, k), handle[o].node = handle[p].node,
                      ~handle[o].orphan, ~handle[p].orphan
               PROVE  o = p
    BY Zenon DEF OneHolder
  <2>1. Good(o) /\ Good(p) /\ handle[o].Key = handle[p].Key
    BY Zenon DEF CountsOn, Good
  <2>2. /\ locks[handle[o].node][handle[o].Key] = [LeaseID |-> handle[o].LeaseID, OwnerID |-> o]
        /\ locks[handle[p].node][handle[p].Key] = [LeaseID |-> handle[p].LeaseID, OwnerID |-> p]
    BY Zenon, <2>1, LiveIsTaken
  <2> QED  BY <2>1, <2>2
<1> QED  BY <1>1, LockInvariant, PTL

\* A lock that is taken is known to the client in its entry.
THEOREM LocksTakenIsKnown == Spec => []TakenIsKnown
<1>1. LockInv => TakenIsKnown
  BY Zenon DEF LockInv
<1> QED  BY <1>1, LockInvariant, PTL

-----------------------------------------------------------------------------
(* A lock lasts as long as its holder may count on it.                     *)

\* A step that leaves a client its lock leaves it its lease: the invariant says
\* so of the next state, if the handle is still good there.
LEMMA StepSparesHolder ==
    ASSUME LockInv, LockInv', Next, NEW o \in Owner, Holds(o), Holds(o)', handle[o].until > now,
           Exists(table[handle[o].node], handle[o].LeaseID)
    PROVE  Exists(table[handle[o].node], handle[o].LeaseID)'
<1> DEFINE h == handle[o]
<1>1. /\ h # None /\ h \in LockHandle /\ h.node \in Node /\ h.Key \in LockKey /\ h.until \in Nat
      /\ handle'[o] # None
  BY Zenon, Parts DEF Holds, LockHandle
<1>2. ~h.orphan
  <2>1. locks[h.node][h.Key] # None /\ locks[h.node][h.Key].OwnerID = o /\ Taken(h.node, h.Key)
    <3> DEFINE e == [LeaseID |-> h.LeaseID, OwnerID |-> o]
    <3>1. locks[h.node][h.Key] = e /\ h.LeaseID \in LeaseId
      BY Zenon, <1>1 DEF Holds, LockHandle
    <3>2. e \in LockInfo /\ e.LeaseID = h.LeaseID /\ e.OwnerID = o
      BY Zenon, <3>1 DEF LockInfo
    <3>3. e # None
      BY Zenon, <3>2, LockConstants DEF LockConstants
    <3> HIDE DEF e
    <3> QED  BY Zenon, <3>1, <3>2, <3>3 DEF Taken
  <2> QED  BY Zenon, <1>1, <2>1 DEF LockInv, TakenIsKnown
<1>3. Good(o)' => Exists(table[handle[o].node], handle[o].LeaseID)'
  <2>1. Good(o)' => table'[handle'[o].node].expireAt[handle'[o].LeaseID] >= handle'[o].until
    BY Zenon DEF LockInv, InTime
  <2>2. now' \in Nat /\ handle'[o].until \in Nat
        /\ table'[handle'[o].node].expireAt[handle'[o].LeaseID] \in Nat
    BY <1>1 DEF LockInv, TypeOK, LockHandle, Table
  <2> QED  BY <2>1, <2>2 DEF Good, Exists
<1>4. handle'[o] = h /\ now' = now => Exists(table[handle[o].node], handle[o].LeaseID)'
  BY Zenon, <1>1, <1>2, <1>3 DEF Good
<1>5. ASSUME NEW p \in Owner, NEW n \in Node, NEW k \in LockKey, Acquire(p, n, k)
      PROVE  handle'[o] = h /\ now' = now
  BY Zenon, <1>1, <1>5 DEF Acquire, LockInv, TypeOK
<1>6. ASSUME NEW p \in Owner, PutKey(p) \/ Release(p) \/ NotHeld(p) \/ KeepAliveCheck(p)
      PROVE  handle'[o] = h /\ now' = now
  BY Zenon, <1>1, <1>6 DEF PutKey, Release, NotHeld, KeepAliveCheck, LockInv, TypeOK
<1>7. ASSUME NEW c \in keeping, KeepAliveRenew(c)
      PROVE  Exists(table[handle[o].node], handle[o].LeaseID)'
  <2>1. now' = now /\ (handle'[o] = h \/ handle'[o] = [h EXCEPT !.until = now + TTL])
    BY Zenon, <1>1, <1>7 DEF KeepAliveRenew, LockInv, TypeOK
  <2>2. CASE handle'[o] = [h EXCEPT !.until = now + TTL]
    BY <2>1, <2>2, <1>1, <1>2, <1>3, Parts DEF Good, LockHandle
  <2> QED  BY Zenon, <2>1, <2>2, <1>4
<1>8. ASSUME NEW n \in Node, NEW k \in LockKey, GetLockStatus(n, k)  PROVE handle'[o] = h /\ now' = now
  BY Zenon, <1>8 DEF GetLockStatus
<1>9. ASSUME NEW n \in Node, LeaseGrant(n)  PROVE handle'[o] = h /\ now' = now
  BY Zenon, <1>9 DEF LeaseGrant
<1>10. ASSUME NEW n \in Node, NEW t, StartAgain(n, t)  PROVE handle'[o] = h /\ now' = now
  <2>1. h.node # n
    <3> SUFFICES ASSUME h.node = n PROVE FALSE
      BY Zenon
    <3>1. handle'[o] = [h EXCEPT !.orphan = TRUE]
      BY Zenon, <1>1, <1>10 DEF StartAgain
    <3>2. handle'[o].node = n /\ handle'[o].Key = h.Key /\ handle'[o].LeaseID = h.LeaseID
      BY Zenon, <1>1, <3>1 DEF LockHandle
    <3>3. locks'[n][h.Key] = None
      BY Zenon, <1>1, <1>10 DEF StartAgain, LockInv, TypeOK
    <3>4. [LeaseID |-> h.LeaseID, OwnerID |-> o] = None
      BY Zenon, <3>2, <3>3 DEF Holds
    <3> QED  BY Zenon, <1>1, <3>4, LockConstants DEF LockConstants, LockInfo, LockHandle
  <2> QED  BY Zenon, <2>1, <1>10 DEF StartAgain
<1>11. ASSUME NEW l \in LeaseId, Cleanup(l)  PROVE handle'[o] = h /\ now' = now
  BY Zenon, <1>11 DEF Cleanup
<1>12. ASSUME NEW e \in expiries, Expire(e)  PROVE handle'[o] = h /\ now' = now
  BY Zenon, <1>12 DEF Expire
<1>13. CASE Tick
  BY Zenon, <1>13 DEF Tick
<1> QED
  BY Zenon, <1>4, <1>5, <1>6, <1>7, <1>8, <1>9, <1>10, <1>11, <1>12, <1>13 DEF Next, Crash, Shutdown

\* Nobody but its holder ends a lock before its time while the server runs.
THEOREM LocksHeldUntilDeadline == Spec => HeldUntilDeadline
<1>1. LockInv /\ LockInv' /\ [Next]_vars =>
        [\A o \in Owner :
            /\ Holds(o) /\ Holds(o)' /\ handle[o].until > now
            /\ Exists(table[handle[o].node], handle[o].LeaseID)
            => Exists(table[handle[o].node], handle[o].LeaseID)']_vars
  BY Zenon, StepSparesHolder
<1> QED  BY <1>1, LockInvariant, PTL DEF Spec, HeldUntilDeadline

-----------------------------------------------------------------------------
(* LockManager implements LockService.                                     *)

\* Steps that neither give an id nor take or end a lock are not seen.
LEMMA Unseen ==
    ASSUME \A m \in Node : table'[m].leaseID = table[m].leaseID,
           \A m \in Node, j \in LockKey : HolderOf(m, j)' = HolderOf(m, j)
    PROVE  UNCHANGED Service!vars
BY Zenon DEF Service!vars

\* The end of one lock is a step of the service.
LEMMA SeenAsEnd ==
    ASSUME NEW n \in Node, NEW k \in LockKey,
           \A m \in Node : table'[m].leaseID = table[m].leaseID,
           \A m \in Node, j \in LockKey :
               HolderOf(m, j)' = IF m = n /\ j = k THEN None ELSE HolderOf(m, j)
    PROVE  Service!Next
<1>1. Service!End(n, k)
  BY ZenonT(30) DEF Service!End
<1> QED  BY Zenon, <1>1 DEF Service!Next

\* A step that fills a free lock and moves the counter on is a Take of the service.
LEMMA SeenAsTake ==
    ASSUME NEW n \in Node, NEW k \in LockKey, NEW o \in Owner, HolderOf(n, k) = None,
           \A m \in Node : table'[m].leaseID =
               IF m = n THEN table[m].leaseID + 1 ELSE table[m].leaseID,
           \A m \in Node, j \in LockKey :
               HolderOf(m, j)' = IF m = n /\ j = k
                                 THEN [LeaseID |-> table[n].leaseID + 1, OwnerID |-> o]
                                 ELSE HolderOf(m, j)
    PROVE  Service!Next
<1>1. Service!Take(n, k, o)
  BY ZenonT(30) DEF Service!Take
<1> QED  BY Zenon, <1>1 DEF Service!Next

\* A step that moves the counter on and leaves the locks alone is a Skip.
LEMMA SeenAsSkip ==
    ASSUME NEW n \in Node,
           \A m \in Node : table'[m].leaseID =
               IF m = n THEN table[m].leaseID + 1 ELSE table[m].leaseID,
           \A m \in Node, j \in LockKey : HolderOf(m, j)' = HolderOf(m, j)
    PROVE  Service!Next
<1>1. Service!Skip(n)
  BY Zenon DEF Service!Skip
<1> QED  BY Zenon, <1>1 DEF Service!Next

\* A step that frees the locks of a server and sets its counter is a Restart.
LEMMA SeenAsRestart ==
    ASSUME NEW n \in Node, table'[n].leaseID \in Nat,
           \A m \in Node : m # n => table'[m].leaseID = table[m].leaseID,
           \A m \in Node, j \in LockKey :
               HolderOf(m, j)' = IF m = n THEN None ELSE HolderOf(m, j)
    PROVE  Service!Next
<1>1. Service!Restart(n)
  BY Zenon DEF Service!Restart
<1> QED  BY Zenon, <1>1 DEF Service!Next

\* A lock is seen alike while its entry is the same and its lease is there or not.
LEMMA SameHolder ==
    ASSUME NEW m \in Node, NEW j \in LockKey, locks'[m][j] = locks[m][j],
           locks[m][j] # None => (Exists(table'[m], locks[m][j].LeaseID) <=>
                                  Exists(table[m], locks[m][j].LeaseID))
    PROVE  HolderOf(m, j)' = HolderOf(m, j)
BY Zenon DEF HolderOf, Taken

\* Acquire takes the lock, with the next id as its token.
LEMMA AcquireSeen ==
    ASSUME LockInv, NEW o \in Owner, NEW n \in Node, NEW k \in LockKey, Acquire(o, n, k)
    PROVE  Service!Next
<1> DEFINE id == table[n].leaseID + 1
           t == Granted(table[n], now + TTL)
           info == [LeaseID |-> id, OwnerID |-> o]
<1>1. /\ id \in LeaseId /\ t.leaseID = id
      /\ \A l \in LeaseId : t.expireAt[l] = IF l = id THEN now + TTL ELSE table[n].expireAt[l]
      /\ now + TTL # 0
  BY Zenon, Parts, GrantedTable DEF Acquire
<1>2. /\ \A m \in Node : table'[m] = IF m = n THEN t ELSE table[m]
      /\ \A m \in Node, j \in LockKey : locks'[m][j] = IF m = n /\ j = k THEN info ELSE locks[m][j]
  BY Zenon DEF Acquire, LockInv, TypeOK
<1>3. HolderOf(n, k) = None
  BY Zenon DEF Acquire, HolderOf
<1>4. HolderOf(n, k)' = info
  <2>1. info # None /\ info.LeaseID = id
    BY <1>1, LockConstants DEF LockConstants, LockInfo
  <2>2. locks'[n][k] = info /\ table'[n].expireAt[id] = now + TTL
    BY Zenon, <1>1, <1>2
  <2> QED  BY Zenon, <2>1, <2>2, <1>1 DEF HolderOf, Taken, Exists
<1>5. ASSUME NEW m \in Node, NEW j \in LockKey, ~(m = n /\ j = k)
      PROVE  HolderOf(m, j)' = HolderOf(m, j)
  <2>1. locks'[m][j] = locks[m][j]
    BY Zenon, <1>2, <1>5
  <2>2. ASSUME locks[m][j] # None
        PROVE  table'[m].expireAt[locks[m][j].LeaseID] = table[m].expireAt[locks[m][j].LeaseID]
    <3>a. locks[m][j] \in LockInfo /\ table[m].leaseID \in Nat
      BY Zenon, <2>2, Parts
    <3>b. locks[m][j].LeaseID <= table[m].leaseID
      BY Zenon, <2>2 DEF LockInv, IdsFresh
    <3>c. locks[m][j].LeaseID \in LeaseId
      BY Zenon, <3>a DEF LockInfo
    <3>1. locks[m][j].LeaseID \in LeaseId /\ (m = n => locks[m][j].LeaseID # id)
      BY <3>a, <3>b, <3>c DEF LeaseId
    <3> QED  BY Zenon, <3>1, <1>1, <1>2
  <2> QED  BY Zenon, <2>1, <2>2, SameHolder DEF Exists
<1>6. \A m \in Node : table'[m].leaseID = IF m = n THEN table[m].leaseID + 1 ELSE table[m].leaseID
  BY Zenon, <1>1, <1>2
<1> QED  BY <1>3, <1>4, <1>5, <1>6, SeenAsTake

\* A LeaseGrant command uses up a token.
LEMMA LeaseGrantSeen ==
    ASSUME LockInv, NEW n \in Node, LeaseGrant(n)
    PROVE  Service!Next
<1> DEFINE id == table[n].leaseID + 1
           t == Granted(table[n], now + TTL)
<1>1. /\ t.leaseID = id /\ \A l \in LeaseId : l # id => t.expireAt[l] = table[n].expireAt[l]
  BY Parts, GrantedTable DEF LeaseGrant
<1>2. locks' = locks /\ \A m \in Node : table'[m] = IF m = n THEN t ELSE table[m]
  BY Zenon DEF LeaseGrant, LockInv, TypeOK
<1>3. ASSUME NEW m \in Node, NEW j \in LockKey
      PROVE  HolderOf(m, j)' = HolderOf(m, j)
  <2>1. ASSUME locks[m][j] # None
        PROVE  table'[m].expireAt[locks[m][j].LeaseID] = table[m].expireAt[locks[m][j].LeaseID]
    <3>a. locks[m][j] \in LockInfo /\ table[m].leaseID \in Nat
      BY Zenon, <2>1, Parts
    <3>b. locks[m][j].LeaseID <= table[m].leaseID
      BY Zenon, <2>1 DEF LockInv, IdsFresh
    <3>c. locks[m][j].LeaseID \in LeaseId
      BY Zenon, <3>a DEF LockInfo
    <3>1. locks[m][j].LeaseID \in LeaseId /\ (m = n => locks[m][j].LeaseID # id)
      BY <3>a, <3>b, <3>c DEF LeaseId
    <3> QED  BY Zenon, <3>1, <1>1, <1>2
  <2> QED  BY Zenon, <2>1, <1>2, SameHolder DEF Exists
<1>4. \A m \in Node : table'[m].leaseID = IF m = n THEN table[m].leaseID + 1 ELSE table[m].leaseID
  BY Zenon, <1>1, <1>2
<1> QED  BY Zenon, <1>3, <1>4, SeenAsSkip

\* A server that starts again has no lock taken.
LEMMA StartAgainSeen ==
    ASSUME LockInv, NEW n \in Node, NEW t \in Table, StartAgain(n, t)
    PROVE  Service!Next
<1>1. /\ \A m \in Node, j \in LockKey : locks'[m][j] = IF m = n THEN None ELSE locks[m][j]
      /\ \A m \in Node : table'[m] = IF m = n THEN t ELSE table[m]
  BY Zenon DEF StartAgain, LockInv, TypeOK
<1>2. \A m \in Node, j \in LockKey : HolderOf(m, j)' = IF m = n THEN None ELSE HolderOf(m, j)
  <2> SUFFICES ASSUME NEW m \in Node, NEW j \in LockKey
               PROVE  HolderOf(m, j)' = IF m = n THEN None ELSE HolderOf(m, j)
    BY Zenon
  <2> QED  BY Zenon, <1>1 DEF HolderOf, Taken
<1>3. t.leaseID \in Nat
  BY LockConstants DEF LockConstants, Table
<1> QED  BY Zenon, <1>1, <1>2, <1>3, SeenAsRestart

\* A lease goes, and with it the lock whose lease it is; it is that of one lock.
LEMMA RevocationSeen ==
    ASSUME LockInv, NEW n \in Node, NEW l \in LeaseId,
           \A m \in Node : /\ table'[m].leaseID = table[m].leaseID
                           /\ \A i \in LeaseId : table'[m].expireAt[i] =
                                 IF m = n /\ i = l THEN 0 ELSE table[m].expireAt[i],
           \A m \in Node, j \in LockKey :
               \/ locks'[m][j] = locks[m][j]
               \/ locks'[m][j] = None /\ m = n /\ locks[m][j] # None /\ locks[m][j].LeaseID = l
    PROVE  Service!Next \/ UNCHANGED Service!vars
<1>1. ASSUME NEW m \in Node, NEW j \in LockKey, ~(m = n /\ locks[m][j] # None /\ locks[m][j].LeaseID = l)
      PROVE  HolderOf(m, j)' = HolderOf(m, j)
  <2>1. locks'[m][j] = locks[m][j]
    BY Zenon, <1>1
  <2>2. locks[m][j] # None =>
          table'[m].expireAt[locks[m][j].LeaseID] = table[m].expireAt[locks[m][j].LeaseID]
    BY <1>1, Parts DEF LockInfo
  <2>3. locks[m][j] # None => (Exists(table'[m], locks[m][j].LeaseID) <=>
                               Exists(table[m], locks[m][j].LeaseID))
    BY ONLY <2>2 DEF Exists
  <2> QED  BY Zenon, <2>1, <2>3, SameHolder
<1>2. CASE \E k \in LockKey : locks[n][k] # None /\ locks[n][k].LeaseID = l
  <2>1. PICK k \in LockKey : locks[n][k] # None /\ locks[n][k].LeaseID = l
    BY Zenon, <1>2
  <2>2. HolderOf(n, k)' = None
    <3>1. table'[n].expireAt[l] = 0
      BY Zenon
    <3>2. locks'[n][k] = None \/ locks'[n][k].LeaseID = l
      BY Zenon, <2>1
    <3> QED  BY Zenon, <3>1, <3>2 DEF HolderOf, Taken, Exists
  <2>3. \A m \in Node, j \in LockKey : ~(m = n /\ j = k) =>
           ~(m = n /\ locks[m][j] # None /\ locks[m][j].LeaseID = l)
    BY <2>1 DEF LockInv, LeasesApart
  <2>4. \A m \in Node, j \in LockKey :
           HolderOf(m, j)' = IF m = n /\ j = k THEN None ELSE HolderOf(m, j)
    BY ZenonT(30), <2>2, <2>3, <1>1
  <2> QED  BY Zenon, <2>4, SeenAsEnd
<1>3. CASE ~\E k \in LockKey : locks[n][k] # None /\ locks[n][k].LeaseID = l
  BY <1>1, <1>3, Unseen
<1> QED  BY Zenon, <1>2, <1>3

\* Release ends the hold, whether or not it removes the entry.
LEMMA ReleaseSeen ==
    ASSUME LockInv, NEW o \in Owner, Release(o)
    PROVE  Service!Next \/ UNCHANGED Service!vars
<1> DEFINE n == handle[o].node
           k == handle[o].Key
           l == handle[o].LeaseID
<1>1. /\ n \in Node /\ k \in LockKey /\ l \in LeaseId
      /\ locks[n][k] # None /\ locks[n][k].LeaseID = l
  BY Parts, LockConstants DEF LockConstants, Release, Holds, LockHandle, LockInfo
<1>2. \A m \in Node : /\ table'[m].leaseID = table[m].leaseID
                      /\ \A i \in LeaseId : table'[m].expireAt[i] =
                            IF m = n /\ i = l THEN 0 ELSE table[m].expireAt[i]
  <2>1. \A m \in Node : table'[m] = IF m = n THEN Revoked(table[n], l) ELSE table[m]
    BY Zenon, <1>1 DEF Release, LockInv, TypeOK
  <2>2. /\ Revoked(table[n], l).leaseID = table[n].leaseID
        /\ \A i \in LeaseId : Revoked(table[n], l).expireAt[i] =
              IF i = l THEN 0 ELSE table[n].expireAt[i]
    BY Zenon, <1>1, Parts, RevokedTable
  <2> HIDE DEF n, l
  <2> QED  BY Zenon, <2>1, <2>2
<1>3. \A m \in Node, j \in LockKey :
        locks'[m][j] = locks[m][j] \/ (locks'[m][j] = None /\ m = n /\ j = k)
  BY Zenon, <1>1 DEF Release, LockInv, TypeOK
<1> HIDE DEF n, k, l
<1> QED  BY <1>1, <1>2, <1>3, RevocationSeen

\* A revocation ends one hold or changes nothing that Acquire sees.
LEMMA ExpireSeen ==
    ASSUME LockInv, NEW e \in expiries, Expire(e)
    PROVE  Service!Next \/ UNCHANGED Service!vars
<1> DEFINE t == table[Leader]
           l == e.LeaseID
<1>1. l \in LeaseId /\ e.ExpireAt \in Nat /\ Leader \in Node /\ t \in Table /\ Fresh(t)
  BY Zenon, Parts, LockConstants DEF LockConstants, LockInv, TypeOK
<1>2. /\ locks' = locks
      /\ \A m \in Node : table'[m] = IF m = Leader THEN RevokedIfMatches(t, l, e.ExpireAt) ELSE table[m]
  BY Zenon, <1>1 DEF Expire, LockInv, TypeOK
<1> HIDE DEF t, l
<1>3. CASE t.expireAt[l] = e.ExpireAt
  <2>1. \A m \in Node : /\ table'[m].leaseID = table[m].leaseID
                        /\ \A i \in LeaseId : table'[m].expireAt[i] =
                              IF m = Leader /\ i = l THEN 0 ELSE table[m].expireAt[i]
    <3>1. RevokedIfMatches(t, l, e.ExpireAt) = Revoked(t, l)
      BY Zenon, <1>3 DEF RevokedIfMatches
    <3>2. /\ Revoked(t, l).leaseID = t.leaseID
          /\ \A i \in LeaseId : Revoked(t, l).expireAt[i] = IF i = l THEN 0 ELSE t.expireAt[i]
      BY Zenon, <1>1, RevokedTable
    <3>3. \A m \in Node : table'[m] = IF m = Leader THEN Revoked(t, l) ELSE table[m]
      BY Zenon, <1>2, <3>1
    <3>4. t = table[Leader]
      BY Zenon DEF t
    <3> QED  BY Zenon, <3>2, <3>3, <3>4
  <2> QED  BY Zenon, <2>1, <1>1, <1>2, RevocationSeen
<1>4. CASE t.expireAt[l] # e.ExpireAt
  <2>1. \A m \in Node : table'[m] = table[m]
    BY Zenon, <1>2, <1>4 DEF RevokedIfMatches, t
  <2> QED  BY Zenon, <2>1, <1>2, SameHolder, Unseen
<1> QED  BY Zenon, <1>3, <1>4

\* Steps that are about other things than who holds a lock.
LEMMA OthersUnseen ==
    ASSUME LockInv
    PROVE  /\ \A o \in Owner : PutKey(o) \/ NotHeld(o) \/ KeepAliveCheck(o) => UNCHANGED Service!vars
           /\ \A c \in keeping : KeepAliveRenew(c) => UNCHANGED Service!vars
           /\ \A n \in Node, k \in LockKey : GetLockStatus(n, k) => UNCHANGED Service!vars
           /\ \A l \in LeaseId : Cleanup(l) => UNCHANGED Service!vars
           /\ Tick \/ UNCHANGED vars => UNCHANGED Service!vars
<1>1. locks' = locks /\ table' = table => UNCHANGED Service!vars
  BY Zenon, SameHolder, Unseen
<1>2. ASSUME NEW o \in Owner, PutKey(o)  PROVE UNCHANGED Service!vars
  <2> DEFINE n == handle[o].node
             l == handle[o].LeaseID
  <2>1. n \in Node /\ l \in LeaseId
    BY Zenon, <1>2, Parts DEF PutKey, LockHandle
  <2>2. locks' = locks /\ \A m \in Node : table'[m] = IF m = n THEN Attached(table[n], l) ELSE table[m]
    BY Zenon, <1>2, <2>1 DEF PutKey, LockInv, TypeOK
  <2>3. \A m \in Node : table'[m].leaseID = table[m].leaseID /\ table'[m].expireAt = table[m].expireAt
    BY <2>1, <2>2, Parts, AttachedTable
  <2> QED  BY Zenon, <2>2, <2>3, SameHolder, Unseen DEF Exists
<1>3. ASSUME NEW c \in keeping, KeepAliveRenew(c)  PROVE UNCHANGED Service!vars
  <2> DEFINE n == c.node
             l == c.LeaseID
             d == now + TTL
  <2>1. n \in Node /\ l \in LeaseId /\ d \in Nat \ {0} /\ table[n] \in Table /\ Fresh(table[n])
    BY Zenon, Parts DEF LockInv, TypeOK
  <2>2. locks' = locks /\ \A m \in Node : table'[m] = IF m = n THEN Renewed(table[n], l, d) ELSE table[m]
    BY Zenon, <1>3, <2>1 DEF KeepAliveRenew, LockInv, TypeOK
  <2> HIDE DEF n, l, d
  <2>3. \A m \in Node : /\ table'[m].leaseID = table[m].leaseID
                        /\ \A i \in LeaseId : Exists(table'[m], i) <=> Exists(table[m], i)
    <3>1. /\ Renewed(table[n], l, d).leaseID = table[n].leaseID
          /\ \A i \in LeaseId : Renewed(table[n], l, d).expireAt[i] =
                IF i = l /\ Exists(table[n], l) THEN d ELSE table[n].expireAt[i]
      BY Zenon, <2>1, RenewedTable
    <3>2. \A i \in LeaseId : Exists(Renewed(table[n], l, d), i) <=> Exists(table[n], i)
      BY Zenon, <2>1, <3>1 DEF Exists
    <3> QED  BY Zenon, <2>2, <3>1, <3>2
  <2>4. \A m \in Node, j \in LockKey : HolderOf(m, j)' = HolderOf(m, j)
    BY Zenon, <2>2, <2>3, Parts, SameHolder DEF LockInfo
  <2> QED  BY Zenon, <2>3, <2>4, Unseen
<1>4. ASSUME NEW n \in Node, NEW k \in LockKey, GetLockStatus(n, k)  PROVE UNCHANGED Service!vars
  <2>1. /\ table' = table /\ ~Taken(n, k)
        /\ \A m \in Node, j \in LockKey : locks'[m][j] = IF m = n /\ j = k THEN None ELSE locks[m][j]
    BY Zenon, <1>4 DEF GetLockStatus, LockInv, TypeOK
  <2>2. HolderOf(n, k)' = HolderOf(n, k)
    BY Zenon, <2>1 DEF HolderOf, Taken
  <2> QED  BY Zenon, <2>1, <2>2, SameHolder, Unseen
<1>5. ASSUME NEW o \in Owner, NotHeld(o) \/ KeepAliveCheck(o)  PROVE UNCHANGED Service!vars
  BY Zenon, <1>1, <1>5 DEF NotHeld, KeepAliveCheck
<1>6. ASSUME NEW l \in LeaseId, Cleanup(l)  PROVE UNCHANGED Service!vars
  BY Zenon, <1>1, <1>6 DEF Cleanup
<1>7. Tick \/ UNCHANGED vars => UNCHANGED Service!vars
  BY Zenon, <1>1 DEF Tick, vars
<1> QED  BY Zenon, <1>2, <1>3, <1>4, <1>5, <1>6, <1>7

\* LockManager implements a lock service with fencing tokens: a lock passes on
\* only through being free, and with a token above all that the process has given.
THEOREM LocksImplementService == Spec => ImplementsLockService
<1>1. Init => Service!Init
  BY DEF Init, Service!Init, HolderOf, Taken, NoLeases
<1>2. LockInv /\ [Next]_vars => [Service!Next]_Service!vars
  <2> SUFFICES ASSUME LockInv, [Next]_vars
               PROVE  Service!Next \/ UNCHANGED Service!vars
    BY Zenon
  <2>1. ASSUME NEW n \in Node, Crash(n) \/ Shutdown(n)  PROVE Service!Next
    BY Zenon, <2>1, Parts, StartAgainSeen DEF Crash, Shutdown
  <2> QED
    BY Zenon, <2>1, AcquireSeen, LeaseGrantSeen, ReleaseSeen, ExpireSeen, OthersUnseen DEF Next
<1> QED  BY <1>1, <1>2, LockInvariant, PTL DEF Spec, ImplementsLockService, Service!Spec

=============================================================================
