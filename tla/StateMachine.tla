---------------------------- MODULE StateMachine ----------------------------
(***************************************************************************)
(* One server's state machine: the apply loop, the WAL it writes before it *)
(* applies a command, and what a restart rebuilds from the disk.           *)
(*                                                                         *)
(* The disk is represented by the state that recovery would rebuild from   *)
(* it: each WAL record replays its command on that state.  Torn writes and *)
(* crashes inside a checkpoint are the subject of Journal.                 *)
(***************************************************************************)
EXTENDS Store

CONSTANTS
    Commands,     \* the command types clients submit
    Deadline,     \* deadlines Submit computes for leases
    HasSnapshot,  \* the server was started with a snapshot file
    MaxRev        \* bound: revisions used up

ASSUME StateMachineConstants ==
    /\ Deadline \subseteq Nat \ {0}
    /\ HasSnapshot \in BOOLEAN
    /\ MaxRev \in Nat

\* Submit reads the clock and starts the agreement in one critical section,
\* which takes far longer than the grain of float64: the deadlines a node
\* computes are distinct, and stay so when they are rounded.
ASSUME DeadlinesApart ==
    \A d \in Deadline : Round(d) > 0 /\ \A e \in Deadline : Round(d) = Round(e) => d = e

VARIABLES
    st,     \* the live state
    disk,   \* the state the snapshot and the WAL replay to
    loop,   \* the apply loop runs, has stopped applying (persistenceErr), waits
            \* for s.mu while it holds s.mu, or is shut down with a snapshot
            \* that the next start accepts or refuses
    hangs,  \* the replay runs into a record that never returns
    expiries, \* revocations the cleanup loop has submitted, not yet applied
    unused  \* deadlines that no Submit has computed yet

vars == <<st, disk, loop, hangs, expiries, unused>>

Init ==
    /\ st = NewState
    /\ disk = NewState
    /\ loop = "running"
    /\ hangs = FALSE
    /\ expiries = {}
    /\ unused = Deadline

\* These three call notifyReply, which locks s.mu, before they unlock it.
SelfLocking == {"DeletePrefix", "GetPrefix", "Get"}

\* One command of the apply loop: journalled, then applied.  The replay of a
\* Get takes the store's lock twice.
Commit(cmd) ==
    /\ cmd.Type \in Commands /\ loop = "running"
    /\ st.rev < MaxRev
    /\ st' = Apply(Bumped(st, cmd), Numbered(st, cmd))
    /\ disk' = Replay(disk, Decoded(Numbered(st, cmd)))
    /\ loop' = IF cmd.Type \in SelfLocking THEN "stuck" ELSE "running"
    /\ hangs' = (hangs \/ cmd.Type = "Get")

\* A command that a client submitted.
Request(cmd) == Commit(cmd) /\ UNCHANGED <<expiries, unused>>

\* One for which Submit read the clock.
TimedRequest(cmd) == Commit(cmd) /\ unused' = unused \ {cmd.ExpireAt} /\ UNCHANGED expiries

Put(k, v, l) ==
    Request([Type |-> "Put", Key |-> k, Value |-> v, LeaseID |-> l, Revision |-> 0])

Delete(k) == Request([Type |-> "Delete", Key |-> k, Revision |-> 0])

CAS(k, v, expected) ==
    Request([Type |-> "CAS", Key |-> k, Value |-> v, ExpectedRev |-> expected, Revision |-> 0])

DeletePrefix(p) == Request([Type |-> "DeletePrefix", Prefix |-> p, Revision |-> 0])

Get(k) == Request([Type |-> "Get", Key |-> k])

GetPrefix(p) == Request([Type |-> "GetPrefix", Prefix |-> p])

LeaseGrant(d) ==
    /\ st.leaseID < MaxLeases /\ disk.leaseID < MaxLeases
    /\ TimedRequest([Type |-> "LeaseGrant", ExpireAt |-> d])

LeaseRevoke(l) == Request([Type |-> "LeaseRevoke", LeaseID |-> l, ExpireAt |-> 0])

LeaseKeepAlive(l, d) == TimedRequest([Type |-> "LeaseKeepAlive", LeaseID |-> l, ExpireAt |-> d])

LeaseAttach(k, v, l) ==
    Request([Type |-> "LeaseAttach", Key |-> k, Value |-> v, LeaseID |-> l, Revision |-> 0])

\* cleanupExpiredLeases submits a revocation with the deadline it has seen;
\* other commands may be applied before it.
Cleanup(l) ==
    /\ loop = "running" /\ "LeaseRevoke" \in Commands /\ Exists(st, l)
    /\ expiries' = expiries \cup {[Type |-> "LeaseRevoke", LeaseID |-> l,
                                  ExpireAt |-> st.expireAt[l]]}
    /\ UNCHANGED <<st, disk, loop, hangs, unused>>

Expire(cmd) == Commit(cmd) /\ expiries' = expiries \ {cmd} /\ UNCHANGED unused

\* WriteEntry fails: the revision is gone, the command is not applied, and the
\* record may or may not have reached the disk.
WriteFails(k, v) ==
    LET cmd == [Type |-> "Put", Key |-> k, Value |-> v, LeaseID |-> 0, Revision |-> 0]
    IN  /\ loop = "running" /\ st.rev < MaxRev
        /\ st' = Bumped(st, cmd)
        /\ disk' \in {disk, Replay(disk, Decoded(Numbered(st, cmd)))}
        /\ loop' = "failed"
        /\ UNCHANGED <<hangs, expiries, unused>>

\* With persistenceErr set a command still takes its revision.
Refuse ==
    /\ loop = "failed" /\ st.rev < MaxRev
    /\ st' = [st EXCEPT !.rev = @ + 1]
    /\ UNCHANGED <<disk, loop, hangs, expiries, unused>>

\* What the node submitted before it stopped reaches it again, if at all, from
\* its peers.
Returned == {Decoded(cmd) : cmd \in expiries}

\* savePersistentState: the store, the leases, and the larger revision.
StoreSnapshot(s) == [Data |-> s.data, Key2Lease |-> s.key2Lease, CurrentRev |-> s.storeRev]

LeaseSnapshot(s) ==
    [LeaseID |-> s.leaseID,
     Leases |-> [l \in {i \in LeaseId : Exists(s, i)} |->
                    [ExpireAt |-> s.expireAt[l], Keys |-> s.Keys[l]]]]

Saved(s) ==
    [Store |-> StoreSnapshot(s), Leases |-> LeaseSnapshot(s),
     CurrentRev |-> Larger(s.rev, s.storeRev)]

\* What KVStore.Restore and LeaseManager.Restore insist on.
StoreAccepts(snap) ==
    \A k \in Key : \A i \in 1..Len(snap.Data[k]) :
        snap.Data[k][i].Revision \in 1..snap.CurrentRev

LeasesAccept(snap) ==
    \A l \in DOMAIN snap.Leases : snap.Leases[l].ExpireAt > 0 /\ l <= snap.LeaseID

\* restorePersistentState of a snapshot; its deadlines are read as int64.
Restored(snap) ==
    LET leases == snap.Leases.Leases
    IN  [data |-> snap.Store.Data, key2Lease |-> snap.Store.Key2Lease,
         storeRev |-> snap.Store.CurrentRev,
         rev |-> Larger(snap.CurrentRev, snap.Store.CurrentRev),
         leaseID |-> snap.Leases.LeaseID,
         expireAt |-> [l \in LeaseId |-> IF l \in DOMAIN leases THEN leases[l].ExpireAt ELSE 0],
         Keys |-> [l \in LeaseId |-> IF l \in DOMAIN leases THEN leases[l].Keys ELSE {}]]

\* Shutdown saves a snapshot and clears the WAL.  A snapshot that is not
\* accepted keeps the server from starting.
Shutdown ==
    /\ HasSnapshot /\ loop = "running"
    /\ disk' = Restored(Saved(st))
    /\ loop' = IF StoreAccepts(Saved(st).Store) /\ LeasesAccept(Saved(st).Leases)
               THEN "down" ELSE "refused"
    /\ hangs' = FALSE
    /\ UNCHANGED <<st, expiries, unused>>

\* The process dies, or is shut down, and starts again.
Restart ==
    /\ ~hangs /\ loop # "refused"
    /\ st' = disk
    /\ loop' = "running"
    /\ expiries' = Returned
    /\ UNCHANGED <<disk, hangs, unused>>

Next ==
    \/ \E k \in Key, v \in Value, l \in {0} \cup LeaseId : Put(k, v, l) \/ LeaseAttach(k, v, l)
    \/ \E k \in Key, v \in Value, rev \in 0..MaxRev : CAS(k, v, rev)
    \/ \E k \in Key : Delete(k) \/ Get(k)
    \/ \E p \in Prefix : DeletePrefix(p) \/ GetPrefix(p)
    \/ \E d \in unused : LeaseGrant(d)
    \/ \E l \in {0} \cup LeaseId, d \in unused : LeaseKeepAlive(l, d)
    \/ \E l \in {0} \cup LeaseId : LeaseRevoke(l)
    \/ \E l \in LeaseId : Cleanup(l)
    \/ \E cmd \in expiries : Expire(cmd)
    \/ \E k \in Key, v \in Value : WriteFails(k, v)
    \/ Refuse \/ Restart \/ Shutdown

Spec == Init /\ [][Next]_vars

-----------------------------------------------------------------------------
(* Properties.                                                             *)

State == [data : [Key -> Seq(Version)], key2Lease : [Key -> {0} \cup LeaseId],
          storeRev : Nat, rev : Nat, leaseID : 0..MaxLeases, expireAt : [LeaseId -> Nat],
          Keys : [LeaseId -> SUBSET Key]]

\* The store, the lease table and what the disk replays to are well formed.
TypeOK ==
    /\ st \in State /\ disk \in State
    /\ loop \in {"running", "failed", "stuck", "down", "refused"}
    /\ hangs \in BOOLEAN
    /\ expiries \subseteq [Type : {"LeaseRevoke"}, LeaseID : LeaseId, ExpireAt : Nat]
    /\ unused \subseteq Deadline

\* Revisions are the identity of versions, which CAS and reads at a revision
\* rely on: the versions of a key have rising revisions, no two keys share
\* one, and none is beyond the store's, which is not beyond the server's,
\* although the server counts failed CAS commands and empty prefix deletions
\* and the store numbers the tombstones of a prefix by itself.
RevisionsOrdered ==
    /\ st.storeRev <= st.rev
    /\ \A k \in Key : \A i \in 1..Len(st.data[k]) :
        /\ st.data[k][i].Revision \in 1..st.storeRev
        /\ \A j \in 1..(i - 1) : st.data[k][j].Revision < st.data[k][i].Revision
        /\ \A q \in Key : \A j \in 1..Len(st.data[q]) :
              st.data[k][i].Revision = st.data[q][j].Revision => k = q

\* The two indexes between keys and leases (Lease.Keys and KVStore.key2Lease,
\* kept by different code under different locks) agree: a key that a lease
\* would delete has a value, and belongs to that lease and to no other.
LeaseIndexSound ==
    \A l \in LeaseId : \A k \in st.Keys[l] :
        Exists(st, l) /\ st.key2Lease[k] = l /\ Live(st, k)

\* What a state is up to the rounding of its deadlines.
Rounded(s) == [s EXCEPT !.expireAt = [l \in LeaseId |-> Round(s.expireAt[l])]]

\* The comment on applyRecoveredCommand: "It intentionally mirrors the
\* state-machine effects in applyLoop".  As long as the WAL can be written, a
\* crash at any point gives back the live state, revisions included.
RecoveryMirrors == loop # "failed" => Rounded(disk) = Rounded(st)

\* Restore checks what Snapshot never looks at: that no version is newer than
\* the store and that the lease counter is not behind a lease.  Whatever was
\* applied, replayed or revoked before a shutdown, the next start accepts the
\* snapshot that it saved.
SnapshotAccepted == loop # "refused"

\* A read at a revision the store has reached gives the same version for
\* ever, whatever is written, deleted, expired or recovered later.
ReadsStable ==
    [][\A k \in Key : \A rev \in 1..st.storeRev :
          GetAtRevision(st', k, rev) = GetAtRevision(st, k, rev)]_vars

\* A lease that ends, by a client or by its deadline, takes every key it
\* holds along, and no other key loses its value with it.
LeaseEndsItsKeys ==
    [][\A l \in LeaseId : Exists(st, l) /\ ~Exists(st', l) =>
          \A k \in Key : Live(st, k) => (Live(st', k) <=> k \notin st.Keys[l])]_vars

-----------------------------------------------------------------------------
(* What the code does not keep; see README.                                *)

\* "Read-only commands are journaled with the applied command stream but do
\* not alter state during recovery" (applyRecoveredCommand): replaying them
\* returns.
RecoveryReturns == ~hangs

\* README: "Lease 租约机制: 支持基于 TTL 的租约，实现键值对的自动过期".  A key
\* that was bound to a lease is among the keys that the lease takes along.
LeasedKeysExpire ==
    \A k \in Key : st.key2Lease[k] # 0 => k \in st.Keys[st.key2Lease[k]]

=============================================================================
