------------------------------ MODULE Replicas ------------------------------
(***************************************************************************)
(* The state machines of all servers over the log that Raft agrees on.     *)
(* Every server journals and applies the entries of the log in order, each *)
(* at its own pace (applyLoop); the leader appends what clients and its    *)
(* cleanup loop submit.                                                    *)
(*                                                                         *)
(* The log of Raft keeps a command as the kv.Command that Submit made on   *)
(* the server that proposed it; every other server, and the same one after *)
(* a restart, has it from a JSON message.  The log itself is agreed upon   *)
(* here: what it takes is the subject of Raft.                             *)
(***************************************************************************)
EXTENDS Store, Functions

CONSTANTS
    Node,         \* servers
    Command,      \* the commands without a deadline that clients submit
    Deadline,     \* deadlines Submit and LockManager compute for leases
    Faults,       \* what may happen to a server: "disk", "lock", "term", "restart"
    MaxLog,       \* bound: entries of the log
    MaxFaults     \* bound: times it happens; once for each kind and server

ASSUME ReplicasConstants ==
    /\ Deadline \subseteq Nat \ {0}
    /\ Faults \subseteq {"disk", "lock", "term", "restart"}
    /\ MaxLog \in Nat /\ MaxFaults \in Nat
    /\ 2 * Cardinality(Deadline) <= MaxLeases

VARIABLES
    log,       \* the commands agreed on
    leader,    \* the server whose Submit succeeds
    own,       \* [server -> positions of the log it has proposed itself]
    pos,       \* [server -> entries its apply loop has taken since it started]
    st,        \* [server -> its live state]
    disk,      \* [server -> the state its WAL replays to]
    unused,    \* deadlines that were not computed yet
    hit        \* [kind of fault -> the servers it has happened to]; "disk" stands
               \* for persistenceErr being set, "lock" for leases granted by
               \* LockManager, "term" for having led and lost the leadership

vars == <<log, leader, own, pos, st, disk, unused, hit>>

Init ==
    /\ log = << >>
    /\ leader \in Node
    /\ own = [n \in Node |-> {}]
    /\ pos = [n \in Node |-> 0]
    /\ st = [n \in Node |-> NewState]
    /\ disk = [n \in Node |-> NewState]
    /\ unused = Deadline
    /\ hit = [f \in Faults |-> {}]

Hit(f, n) == f \in Faults /\ n \in hit[f]

Happens(f, n) ==
    /\ f \in Faults /\ n \notin hit[f]
    /\ FoldFunction(LAMBDA S, total : total + Cardinality(S), 0, hit) < MaxFaults
    /\ hit' = [hit EXCEPT ![f] = @ \cup {n}]

\* A command that Raft accepts from the leader's Submit and agrees on; a leader
\* that cannot write its WAL refuses, and goes on leading.
Submit(cmd) ==
    /\ ~Hit("disk", leader)
    /\ Len(log) < MaxLog
    /\ log' = Append(log, cmd)
    /\ own' = [own EXCEPT ![leader] = @ \cup {Len(log) + 1}]
    /\ UNCHANGED <<leader, pos, st, disk, hit>>

\* A client's command.
Request(cmd) == Submit(cmd) /\ UNCHANGED unused

\* One for which Submit reads the clock.
TimedRequest(cmd) == Submit(cmd) /\ unused' = unused \ {cmd.ExpireAt}

LeaseGrant(d) == TimedRequest([Type |-> "LeaseGrant", ExpireAt |-> d])

\* Clients renew leases whose ids a leader has answered.
LeaseKeepAlive(l, d) ==
    /\ l <= st[leader].leaseID
    /\ TimedRequest([Type |-> "LeaseKeepAlive", LeaseID |-> l, ExpireAt |-> d])

\* The leader's cleanup loop submits the revocation of a lease that is over (any
\* may be, time is left out), with the deadline it has in the leader's table;
\* the leader itself may not have applied all of the log.
Cleanup(l) ==
    /\ Exists(st[leader], l)
    /\ Submit([Type |-> "LeaseRevoke", LeaseID |-> l, ExpireAt |-> st[leader].expireAt[l]])
    /\ UNCHANGED unused

\* The entry as the apply loop of a server gets it from its Raft node.
Entry(n, i) == IF i \in own[n] THEN log[i] ELSE Decoded(log[i])

Took(n) == pos[n] < Len(log) /\ pos' = [pos EXCEPT ![n] = @ + 1]

ApplyNext(n) ==
    LET cmd == Entry(n, pos[n] + 1)
    IN  /\ ~Hit("disk", n) /\ Took(n)
        /\ st' = [st EXCEPT ![n] = Apply(Bumped(@, cmd), Numbered(@, cmd))]
        /\ disk' = [disk EXCEPT ![n] = Replay(@, Decoded(Numbered(st[n], cmd)))]
        /\ UNCHANGED <<log, leader, own, unused, hit>>

\* WriteEntry fails: persistenceErr is set, and the record may be on the disk.
WriteFails(n) ==
    LET cmd == Entry(n, pos[n] + 1)
    IN  /\ Happens("disk", n) /\ Took(n)
        /\ st' = [st EXCEPT ![n] = Bumped(@, cmd)]
        /\ \/ UNCHANGED disk
           \/ disk' = [disk EXCEPT ![n] = Replay(@, Decoded(Numbered(st[n], cmd)))]
        /\ UNCHANGED <<log, leader, own, unused>>

\* Mutant: from then on entries are applied but not journalled.
RefuseButApply(n) ==
    LET cmd == Entry(n, pos[n] + 1)
    IN  /\ Hit("disk", n) /\ Took(n)
        /\ st' = [st EXCEPT ![n] = Apply(Bumped(@, cmd), Numbered(@, cmd))]
        /\ UNCHANGED <<log, leader, own, disk, unused, hit>>

\* From then on entries only use up revisions.
Refuse(n) ==
    /\ Hit("disk", n) /\ Took(n)
    /\ st' = [st EXCEPT ![n] = Bumped(@, Entry(n, pos[n] + 1))]
    /\ UNCHANGED <<log, leader, own, disk, unused, hit>>

\* LockManager.Acquire grants the lease of a lock on one server, past the log.
LockGrant(n, d) ==
    /\ Happens("lock", n)
    /\ st' = [st EXCEPT ![n] = GrantUntil(@, d)]
    /\ unused' = unused \ {d}
    /\ UNCHANGED <<log, leader, own, pos, disk>>

ChangeLeader(n) ==
    /\ n # leader /\ Happens("term", leader)
    /\ leader' = n
    /\ UNCHANGED <<log, own, pos, st, disk, unused>>

\* A follower starts again: restorePersistentState replays its WAL, its Raft
\* node starts with an empty log (MakePersister) and gets all of it again.
Restart(n) ==
    /\ n # leader /\ ~Hit("disk", n) /\ Happens("restart", n)
    /\ st' = [st EXCEPT ![n] = disk[n]]
    /\ pos' = [pos EXCEPT ![n] = 0]
    /\ own' = [own EXCEPT ![n] = {}]
    /\ UNCHANGED <<log, leader, disk, unused>>

Next ==
    \/ \E cmd \in Command : Request(cmd)
    \/ \E d \in unused : LeaseGrant(d)
    \/ \E l \in LeaseId, d \in unused : LeaseKeepAlive(l, d)
    \/ \E l \in LeaseId : Cleanup(l)
    \/ \E n \in Node : ApplyNext(n) \/ WriteFails(n) \/ Refuse(n) \/ ChangeLeader(n) \/ Restart(n)
    \/ \E n \in Node, d \in unused : LockGrant(n, d)

Spec == Init /\ [][Next]_vars

-----------------------------------------------------------------------------
(* Properties.                                                             *)

\* What a state is up to the rounding of its deadlines.
Rounded(s) == [s EXCEPT !.expireAt = [l \in LeaseId |-> Round(s.expireAt[l])]]

\* The servers whose state is a function of the log alone: they have run since
\* the cluster started, granted no lock, and did not lead in an earlier term.
Regular(n) == ~Hit("restart", n) /\ ~Hit("lock", n) /\ ~Hit("term", n)

\* Regular servers that have taken the same entries are in the same state,
\* revisions and lease ids included, whatever happens to other servers: although
\* the leader has the exact deadlines of the leases it granted and the others
\* rounded ones, a revocation by the leader's cleanup loop, which may be older
\* than the last renewal, matches on all of them or on none.
ReplicasAgree ==
    \A m, n \in Node :
        /\ Regular(m) /\ Regular(n) /\ ~Hit("disk", m) /\ ~Hit("disk", n)
        /\ pos[m] = pos[n]
        => Rounded(st[m]) = Rounded(st[n])

\* A read at a revision gives the same version on every regular server that has
\* reached the revision, however far apart their apply loops are, and also on
\* one that has stopped applying because its WAL cannot be written.
ReadsAgree ==
    \A m, n \in {r \in Node : Regular(r)}, k \in Key : \A rev \in 1..MaxLog :
        rev <= st[m].storeRev /\ rev <= st[n].storeRev
            => GetAtRevision(st[m], k, rev) = GetAtRevision(st[n], k, rev)

-----------------------------------------------------------------------------
(* What the code does not keep; see README.                                *)

\* The comment in cleanupExpiredLeases: "Expiration is a state-machine command
\* so every replica writes the same revoke to its WAL and assigns the same
\* deletion revisions".  Servers that have taken all the entries hold the
\* same versions of every key.
SameRevisions ==
    \A m, n \in {r \in Node : ~Hit("disk", r)} :
        pos[m] = Len(log) /\ pos[n] = Len(log) => st[m].data = st[n].data

=============================================================================
