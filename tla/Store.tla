------------------------------- MODULE Store -------------------------------
(***************************************************************************)
(* The replicated state of a server as a value, and what a command makes of *)
(* it: the MVCC store (kv/store.go), the lease table (LeaseManager in      *)
(* server/server.go), the effects of applyLoop on both, and those of the   *)
(* replay that rebuilds them from the WAL (applyRecoveredCommand).         *)
(*                                                                         *)
(* A state is a record                                                     *)
(*   data       [Key -> versions]        KVStore.data                      *)
(*   key2Lease  [Key -> lease id or 0]   KVStore.key2Lease                 *)
(*   storeRev                            KVStore.currentRev                *)
(*   rev                                 Server.currentRev                 *)
(*   leaseID                             LeaseManager.leaseID              *)
(*   expireAt   [LeaseId -> deadline]    Lease.expireAt, 0 for no lease    *)
(*   Keys       [LeaseId -> keys]        Lease.Keys                        *)
(*                                                                         *)
(* Keys are numbered in the order sort.Strings gives them, and a prefix is *)
(* the set of keys that start with it.  A lease's TTL is only ever stored. *)
(***************************************************************************)
EXTENDS Integers, Sequences, FiniteSets

CONSTANTS
    K,          \* number of keys
    Prefix,     \* prefixes of DeletePrefix and GetPrefix, each a set of keys
    Value,      \* values of keys
    NoValue,    \* the value of a tombstone
    MaxLeases,  \* bound: leases granted
    Grain       \* distance of neighbouring float64 values at today's UnixNano

Key == 1..K
LeaseId == 1..MaxLeases

ASSUME StoreConstants ==
    /\ K \in Nat /\ MaxLeases \in Nat
    /\ Grain \in Nat \ {0}
    /\ Prefix \subseteq SUBSET Key
    /\ NoValue \notin Value

Version == [Revision : Nat, Value : Value \cup {NoValue}, Tombstone : BOOLEAN]

Larger(a, b) == IF a > b THEN a ELSE b

NewState ==
    [data |-> [k \in Key |-> << >>], key2Lease |-> [k \in Key |-> 0], storeRev |-> 0,
     rev |-> 0, leaseID |-> 0, expireAt |-> [l \in LeaseId |-> 0],
     Keys |-> [l \in LeaseId |-> {}]]

-----------------------------------------------------------------------------
(* KVStore.                                                                *)

Latest(st, k) == st.data[k][Len(st.data[k])]

\* The key has a value: its newest version is no tombstone.
Live(st, k) == st.data[k] # << >> /\ ~Latest(st, k).Tombstone

\* A version, and the store's revision with it; revision 0 asks for the next.
AddVersion(st, k, rev, v, tombstone) ==
    LET r == IF rev = 0 THEN st.storeRev + 1 ELSE rev
    IN  [st EXCEPT !.data[k] = Append(@, [Revision |-> r, Value |-> v, Tombstone |-> tombstone]),
                   !.storeRev = Larger(@, r)]

\* Mutant: a put without a lease writes -1 instead of forgetting the old one.
StorePutMarked(st, k, rev, v, lease) ==
    [AddVersion(st, k, rev, v, FALSE) EXCEPT !.key2Lease[k] = IF lease = 0 THEN -1 ELSE lease]

StorePut(st, k, rev, v, lease) ==
    [AddVersion(st, k, rev, v, FALSE) EXCEPT !.key2Lease[k] = lease]

\* Mutant: the newest version is overwritten by the tombstone.
StoreDeleteInPlace(st, k, rev) ==
    LET n == Len(st.data[k])
        tombstone == [Revision |-> rev, Value |-> NoValue, Tombstone |-> TRUE]
    IN  [st EXCEPT !.data[k] = Append(SubSeq(@, 1, n - 1), tombstone),
                   !.storeRev = Larger(@, rev), !.key2Lease[k] = 0]

StoreDelete(st, k, rev) ==
    [AddVersion(st, k, rev, NoValue, TRUE) EXCEPT !.key2Lease[k] = 0]

CASHolds(st, k, expected) == Live(st, k) /\ Latest(st, k).Revision = expected

StoreCAS(st, k, rev, v, expected) ==
    IF CASHolds(st, k, expected) THEN AddVersion(st, k, rev, v, FALSE) ELSE st

\* The newest version at a revision; none is the version of revision 0.
GetAtRevision(st, k, rev) ==
    LET seen == {i \in 1..Len(st.data[k]) : st.data[k][i].Revision <= rev}
    IN  IF seen = {} THEN [Revision |-> 0, Value |-> NoValue, Tombstone |-> TRUE]
        ELSE st.data[k][CHOOSE i \in seen : \A j \in seen : j <= i]

\* Position of k among the keys D in sort.Strings order.
Rank(D, k) == Cardinality({j \in D : j <= k})

\* Mutant: all the tombstones get one revision.
TombstonesAtOnce(st, D, base) ==
    [st EXCEPT
        !.data = [k \in Key |->
            IF k \in D
            THEN Append(st.data[k], [Revision |-> base + 1, Value |-> NoValue, Tombstone |-> TRUE])
            ELSE st.data[k]],
        !.key2Lease = [k \in Key |-> IF k \in D THEN 0 ELSE st.key2Lease[k]],
        !.storeRev = IF D = {} THEN @ ELSE Larger(@, base + 1)]

\* Tombstones for the keys D, one revision after the other from base on.
Tombstones(st, D, base) ==
    [st EXCEPT
        !.data = [k \in Key |->
            IF k \in D
            THEN Append(st.data[k], [Revision |-> base + Rank(D, k), Value |-> NoValue,
                                     Tombstone |-> TRUE])
            ELSE st.data[k]],
        !.key2Lease = [k \in Key |-> IF k \in D THEN 0 ELSE st.key2Lease[k]],
        !.storeRev = IF D = {} THEN @ ELSE Larger(@, base + Cardinality(D))]

\* Every key of the prefix that ever had a version, deleted or not.
PrefixKeys(st, p) == {k \in p : st.data[k] # << >>}

StoreDeletePrefix(st, p) == Tombstones(st, PrefixKeys(st, p), st.storeRev)

-----------------------------------------------------------------------------
(* LeaseManager.                                                           *)

Exists(st, l) == l \in LeaseId /\ st.expireAt[l] # 0

\* Mutant: the counter moves on only when the id of a lease is taken.
GrantUntilReusing(st, deadline) ==
    LET id == CHOOSE i \in LeaseId :
                  ~Exists(st, i) /\ \A j \in LeaseId : ~Exists(st, j) => i <= j
    IN  [st EXCEPT !.leaseID = Larger(@, id - 1), !.expireAt[id] = deadline, !.Keys[id] = {}]

GrantUntil(st, deadline) ==
    LET id == st.leaseID + 1
    IN  [st EXCEPT !.leaseID = id, !.expireAt[id] = deadline, !.Keys[id] = {}]

Attach(st, l, k) == IF Exists(st, l) THEN [st EXCEPT !.Keys[l] = @ \cup {k}] ELSE st

\* Takes the key out of one lease that holds it, whichever the map yields
\* first; LeaseIndexSound says that there is at most one.
RevokeKey(st, k) ==
    IF \E l \in LeaseId : k \in st.Keys[l]
    THEN [st EXCEPT !.Keys[CHOOSE l \in LeaseId : k \in st.Keys[l]] = @ \ {k}]
    ELSE st

\* RevokeKey for all the keys D.
RevokeKeys(st, D) == [st EXCEPT !.Keys = [l \in LeaseId |-> st.Keys[l] \ D]]

KeepAliveUntil(st, l, deadline) ==
    IF Exists(st, l) THEN [st EXCEPT !.expireAt[l] = deadline] ELSE st

\* RevokeLease, or RevokeLeaseIfMatches when a deadline is given.
Revokes(st, l, deadline) == Exists(st, l) /\ (deadline = 0 \/ st.expireAt[l] = deadline)

\* Mutant: an expired lease is dropped and its keys stay.
RevokedKeysOnRequest(st, l, deadline) ==
    IF Revokes(st, l, deadline) /\ deadline = 0 THEN st.Keys[l] ELSE {}

RevokedKeys(st, l, deadline) == IF Revokes(st, l, deadline) THEN st.Keys[l] ELSE {}

RevokeLease(st, l, deadline) ==
    IF Revokes(st, l, deadline) THEN [st EXCEPT !.expireAt[l] = 0, !.Keys[l] = {}] ELSE st

-----------------------------------------------------------------------------
(* Commands: applyLoop and applyRecoveredCommand.                          *)

\* The commands that use up a revision.
Revisioned == {"Put", "Delete", "CAS", "LeaseAttach", "DeletePrefix"}

\* A number read back from JSON as a float64 (round half to even).  Only
\* deadlines are large enough for it to matter.
Round(d) ==
    LET q == d \div Grain
        r == d % Grain
    IN  IF 2 * r < Grain \/ (2 * r = Grain /\ q % 2 = 0) THEN q * Grain ELSE (q + 1) * Grain

\* Mutant: the deadline of a revocation is lost, which makes it unconditional.
DecodedUntimed(cmd) ==
    IF cmd.Type = "LeaseRevoke" THEN [cmd EXCEPT !.ExpireAt = 0]
    ELSE IF cmd.Type \in {"LeaseGrant", "LeaseKeepAlive"} THEN [cmd EXCEPT !.ExpireAt = Round(@)]
    ELSE cmd

\* A command as another node, or a later run of this one, decodes it.
Decoded(cmd) ==
    IF cmd.Type \in {"LeaseGrant", "LeaseRevoke", "LeaseKeepAlive"}
    THEN [cmd EXCEPT !.ExpireAt = Round(@)]
    ELSE cmd

\* applyLoop before the WAL write: the revision is taken, whatever follows.
Bumped(st, cmd) == IF cmd.Type \in Revisioned THEN [st EXCEPT !.rev = @ + 1] ELSE st

Numbered(st, cmd) ==
    IF cmd.Type \in Revisioned THEN [cmd EXCEPT !.Revision = st.rev + 1] ELSE cmd

\* applyLoop after the WAL write; st and cmd are Bumped and Numbered.
ApplyRevoke(st, l, deadline) ==
    LET D == RevokedKeys(st, l, deadline)
    IN  IF l > 0
        THEN [Tombstones(RevokeLease(st, l, deadline), D, st.rev) EXCEPT !.rev = @ + Cardinality(D)]
        ELSE st

ApplyAttach(st, l, k, v, rev) ==
    IF l > 0 THEN StorePut(Attach(RevokeKey(st, k), l, k), k, rev, v, l) ELSE st

ApplyCAS(st, k, v, expected, rev) ==
    LET lease == st.key2Lease[k]
        swapped == StoreCAS(st, k, rev, v, expected)
    IN  IF CASHolds(st, k, expected) /\ lease > 0 THEN Attach(swapped, lease, k) ELSE swapped

ApplyDeletePrefix(st, p) ==
    LET deleted == RevokeKeys(StoreDeletePrefix(st, p), PrefixKeys(st, p))
    IN  [deleted EXCEPT !.rev = Larger(@, deleted.storeRev)]

\* Mutant: the key stays in the lease it was bound to before.
ApplyPutRebinding(st, k, v, l, rev) ==
    LET put == StorePut(st, k, rev, v, l)
    IN  IF l > 0 THEN Attach(put, l, k) ELSE put

ApplyPut(st, k, v, l, rev) ==
    LET put == StorePut(RevokeKey(st, k), k, rev, v, l)
    IN  IF l > 0 THEN Attach(put, l, k) ELSE put

Apply(st, cmd) ==
    CASE cmd.Type = "LeaseGrant"     -> GrantUntil(st, cmd.ExpireAt)
      [] cmd.Type = "LeaseRevoke"    -> ApplyRevoke(st, cmd.LeaseID, cmd.ExpireAt)
      [] cmd.Type = "LeaseKeepAlive" -> KeepAliveUntil(st, cmd.LeaseID, cmd.ExpireAt)
      [] cmd.Type = "LeaseAttach"    -> ApplyAttach(st, cmd.LeaseID, cmd.Key, cmd.Value, cmd.Revision)
      [] cmd.Type = "CAS"            -> ApplyCAS(st, cmd.Key, cmd.Value, cmd.ExpectedRev, cmd.Revision)
      [] cmd.Type = "DeletePrefix"   -> ApplyDeletePrefix(st, cmd.Prefix)
      [] cmd.Type = "Put"            -> ApplyPut(st, cmd.Key, cmd.Value, cmd.LeaseID, cmd.Revision)
      [] cmd.Type = "Delete"         -> StoreDelete(RevokeKey(st, cmd.Key), cmd.Key, cmd.Revision)
      [] OTHER                       -> st

\* Mutant: recovery takes its revision from the store alone.
RedoneByStore(st, cmd) == st

\* applyRecoveredCommand.  A revision of 0 is replaced by the next one.
Redone(st, cmd) ==
    IF cmd.Type \in Revisioned
    THEN [st EXCEPT !.rev = IF cmd.Revision = 0 THEN @ + 1 ELSE Larger(@, cmd.Revision)]
    ELSE st

Renumbered(st, cmd) ==
    IF cmd.Type \in Revisioned /\ cmd.Revision = 0
    THEN [cmd EXCEPT !.Revision = st.rev + 1]
    ELSE cmd

ReplayRevoke(st, l, deadline) ==
    LET D == RevokedKeys(st, l, deadline)
    IN  [Tombstones(RevokeLease(st, l, deadline), D, st.rev) EXCEPT !.rev = @ + Cardinality(D)]

ReplayAttach(st, l, k, v, rev) ==
    IF l > 0 THEN StorePut(Attach(RevokeKey(st, k), l, k), k, rev, v, l) ELSE st

ReplayDeletePrefix(st, p) == RevokeKeys(StoreDeletePrefix(st, p), PrefixKeys(st, p))

ReplayCAS(st, k, v, expected, rev) ==
    LET lease == st.key2Lease[k]
        swapped == StoreCAS(st, k, rev, v, expected)
    IN  IF CASHolds(st, k, expected) /\ lease > 0 THEN Attach(swapped, lease, k) ELSE swapped

ReplayPut(st, k, v, l, rev) ==
    LET put == StorePut(RevokeKey(st, k), k, rev, v, l)
    IN  IF l > 0 THEN Attach(put, l, k) ELSE put

ReplayEffects(st, cmd) ==
    CASE cmd.Type = "LeaseGrant"     -> GrantUntil(st, cmd.ExpireAt)
      [] cmd.Type = "LeaseRevoke"    -> ReplayRevoke(st, cmd.LeaseID, cmd.ExpireAt)
      [] cmd.Type = "LeaseKeepAlive" -> KeepAliveUntil(st, cmd.LeaseID, cmd.ExpireAt)
      [] cmd.Type = "LeaseAttach"    -> ReplayAttach(st, cmd.LeaseID, cmd.Key, cmd.Value, cmd.Revision)
      [] cmd.Type = "DeletePrefix"   -> ReplayDeletePrefix(st, cmd.Prefix)
      [] cmd.Type = "CAS"            -> ReplayCAS(st, cmd.Key, cmd.Value, cmd.ExpectedRev, cmd.Revision)
      [] cmd.Type = "Put"            -> ReplayPut(st, cmd.Key, cmd.Value, cmd.LeaseID, cmd.Revision)
      [] cmd.Type = "Delete"         -> StoreDelete(RevokeKey(st, cmd.Key), cmd.Key, cmd.Revision)
      [] OTHER                       -> st

Replay(st, cmd) ==
    LET done == ReplayEffects(Redone(st, cmd), Renumbered(st, cmd))
    IN  [done EXCEPT !.rev = Larger(@, done.storeRev)]

=============================================================================
