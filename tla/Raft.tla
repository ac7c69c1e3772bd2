-------------------------------- MODULE Raft --------------------------------
(***************************************************************************)
(* The Raft layer of the store (raft/*.go): leader election, log           *)
(* replication, commitment and the hand-over of committed entries to the   *)
(* server's applyLoop, for a fixed cluster of N nodes.                     *)
(*                                                                         *)
(* Numbering follows the deployment (makefile, cmd/server): node ids `me`  *)
(* are 1..N while the peers slice is indexed from 0, so peers[i] is node   *)
(* i+1.  A log index i of the code is position i+1 of the sequence log[s]; *)
(* FirstLogIndex stays 0 because the server never calls Raft.Snapshot.     *)
(*                                                                         *)
(* Each critical section of Raft.Mu is one action.  An RPC is three        *)
(* actions: the caller's section that builds the arguments, the callee's   *)
(* handler, and the caller's section that consumes the reply.  Messages    *)
(* are delayed, reordered or lost.                                         *)
(***************************************************************************)
EXTENDS Integers, Sequences, FiniteSets

CONSTANTS
    N,            \* len(rf.peers)
    Electable,    \* the nodes whose election timer may expire
    Mortal,       \* the nodes whose process may be shut down or restarted
    MaxTerm,      \* bound: no election is started from this term
    MaxCommands,  \* bound: commands the clients submit
    MaxInFlight,  \* bound: append RPCs on the wire when another is sent
    MaxRestarts   \* bound: times each of those processes is restarted

Server == 1..N

ASSUME RaftConstants ==
    /\ N \in Nat \ {0}
    /\ Electable \subseteq Server /\ Mortal \subseteq Server
    /\ {MaxTerm, MaxCommands, MaxInFlight, MaxRestarts} \subseteq Nat

None == -1

VARIABLES
    State, CurrentTerm, votedFor, log, CommitIndex,   \* Raft struct
    nextIndex, matchIndex,            \* peerTrackers, [node -> [peer -> index]]
    electionVotes, electionDone,      \* progress of the running election
    armed,       \* ticker has seen a non-leader past its timeout and is about
                 \* to call StartElection
    applier,     \* sendMsgToTester: waiting on applyCond, woken, or exited (the
                 \* goroutine waits well before the first election can end)
    applied,     \* entries given to ApplyHelper; LastApplied = Len - 1
    life,        \* up, killing (the flag is set) or killed (Kill returned)
    incarnation, \* how often the process was restarted
    submitted,   \* commands accepted so far; each is its own number
    voteReqs, voteReps, appendReqs, appendReps        \* RPCs on the wire

electionVars == <<electionVotes, electionDone, armed>>
trackerVars  == <<nextIndex, matchIndex>>
applyVars    == <<applier, applied>>
processVars  == <<life, incarnation>>
voteMsgs     == <<voteReqs, voteReps>>
appendMsgs   == <<appendReqs, appendReps>>
vars == <<State, CurrentTerm, votedFor, log, CommitIndex, trackerVars,
          electionVars, applyVars, processVars, submitted, voteMsgs, appendMsgs>>

-----------------------------------------------------------------------------
(* Log helpers.  Indexes are the code's, starting at 0.                    *)

Entry == [Term : Nat, Command : Nat]

LastLogIndex(s) == Len(log[s]) - 1

\* getEntryTerm; index -1 is FirstLogIndex-1, whose term is
\* snapshotLastIncludeTerm = 0, and an index past the end has term -1.
getEntryTerm(s, i) == CASE i = -1               -> 0
                        [] i \in 0..LastLogIndex(s) -> log[s][i + 1].Term
                        [] OTHER                -> -1

getLastEntryTerm(s) == getEntryTerm(s, LastLogIndex(s))

\* The entries of log[s] from index start on.
getAppendEntries(s, start) == SubSeq(log[s], start + 1, Len(log[s]))

killed(s) == life[s] # "up"

\* applyCond.Broadcast()
Broadcast(s) ==
    applier' = [applier EXCEPT ![s] = IF @ = "waiting" THEN "woken" ELSE @]

Lesser(a, b) == IF a < b THEN a ELSE b
Greater(a, b) == IF a > b THEN a ELSE b

-----------------------------------------------------------------------------
Init ==
    /\ State = [s \in Server |-> "Follower"]
    /\ CurrentTerm = [s \in Server |-> 0]
    /\ votedFor = [s \in Server |-> None]
    /\ log = [s \in Server |-> << >>]
    /\ CommitIndex = [s \in Server |-> 0]
    /\ nextIndex = [s \in Server |-> [t \in Server |-> 0]]
    /\ matchIndex = [s \in Server |-> [t \in Server |-> 0]]
    /\ electionVotes = [s \in Server |-> 0]
    /\ electionDone = [s \in Server |-> FALSE]
    /\ armed = [s \in Server |-> FALSE]
    /\ applier = [s \in Server |-> "waiting"]
    /\ applied = [s \in Server |-> << >>]
    /\ life = [s \in Server |-> "up"]
    /\ incarnation = [s \in Server |-> 0]
    /\ submitted = 0
    /\ voteReqs = {} /\ voteReps = {} /\ appendReqs = {} /\ appendReps = {}

-----------------------------------------------------------------------------
(* Leader election.                                                        *)

\* ticker reads State under the lock and releases it before StartElection
\* takes it again: the decision may be stale when it is carried out.
ElectionTimeout(s) ==
    /\ s \in Electable /\ ~killed(s) /\ ~armed[s]
    /\ State[s] # "Leader"
    /\ armed' = [armed EXCEPT ![s] = TRUE]
    /\ UNCHANGED <<State, CurrentTerm, votedFor, log, CommitIndex, trackerVars,
                   electionVotes, electionDone, applyVars, processVars, submitted,
                   voteMsgs, appendMsgs>>

\* StartElection asks every peer i with i # me.  i counts from 0 and me from
\* 1, so node s asks itself and leaves out node s+1.
VoteTargets(s) == {t \in Server : t - 1 # s}

StartElection(s) ==
    /\ armed[s]
    /\ CurrentTerm[s] < MaxTerm
    /\ armed' = [armed EXCEPT ![s] = FALSE]
    /\ State' = [State EXCEPT ![s] = "Candidate"]
    /\ CurrentTerm' = [CurrentTerm EXCEPT ![s] = @ + 1]
    /\ votedFor' = [votedFor EXCEPT ![s] = s]
    /\ electionVotes' = [electionVotes EXCEPT ![s] = 1]
    /\ electionDone' = [electionDone EXCEPT ![s] = FALSE]
    /\ voteReqs' = voteReqs \cup
         {[src |-> s, inc |-> incarnation[s], dst |-> t, Term |-> CurrentTerm[s] + 1,
           LastLogIndex |-> LastLogIndex(s), LastLogTerm |-> getLastEntryTerm(s)]
            : t \in VoteTargets(s)}
    /\ UNCHANGED <<log, CommitIndex, trackerVars, applyVars, processVars, submitted,
                   voteReps, appendMsgs>>

\* The candidate's log is at least as recent as the voter's; an empty voter
\* accepts any log.
UpToDate(s, m) ==
    \/ log[s] = << >>
    \/ m.LastLogTerm > getLastEntryTerm(s)
    \/ m.LastLogTerm = getLastEntryTerm(s) /\ m.LastLogIndex >= LastLogIndex(s)

VoteReply(m, term, granted) ==
    [src |-> m.src, inc |-> m.inc, dst |-> m.dst, reqTerm |-> m.Term,
     Term |-> term, VoteGranted |-> granted]

\* The vote of s in the term it is in after seeing the given one.
VoteIn(s, term) == IF term > CurrentTerm[s] THEN None ELSE votedFor[s]

\* Mutant: the vote already given in this term is not looked at.
GrantsAgain(s, m) == m.Term >= CurrentTerm[s] /\ UpToDate(s, m)

Grants(s, m) ==
    /\ m.Term >= CurrentTerm[s]
    /\ VoteIn(s, m.Term) \in {None, m.src}
    /\ UpToDate(s, m)

\* A higher term is adopted without leaving the Candidate or Leader state.
RequestVote(m) ==
    LET s       == m.dst
        term    == Greater(m.Term, CurrentTerm[s])
        granted == Grants(s, m)
    IN  /\ voteReqs' = voteReqs \ {m}
        /\ IF ~killed(s)
           THEN /\ CurrentTerm' = [CurrentTerm EXCEPT ![s] = term]
                /\ votedFor' = [votedFor EXCEPT ![s] =
                                  IF granted THEN m.src ELSE VoteIn(s, m.Term)]
                /\ voteReps' = voteReps \cup {VoteReply(m, term, granted)}
           ELSE /\ voteReps' = voteReps \cup {VoteReply(m, CurrentTerm[s], FALSE)}
                /\ UNCHANGED <<CurrentTerm, votedFor>>
        /\ UNCHANGED <<State, log, CommitIndex, trackerVars, electionVars,
                       applyVars, processVars, submitted, appendMsgs>>

\* Mutant: nextIndex starts at the last entry instead of behind it.
resetTrackedIndexAtLast(s) ==
    /\ nextIndex' = [nextIndex EXCEPT ![s] = [t \in Server |-> LastLogIndex(s)]]
    /\ matchIndex' = [matchIndex EXCEPT ![s] = [t \in Server |-> 0]]

resetTrackedIndex(s) ==
    /\ nextIndex' = [nextIndex EXCEPT ![s] = [t \in Server |-> LastLogIndex(s) + 1]]
    /\ matchIndex' = [matchIndex EXCEPT ![s] = [t \in Server |-> 0]]

becomeLeader(s) ==
    /\ State' = [State EXCEPT ![s] = "Leader"]
    /\ resetTrackedIndex(s)
    /\ electionDone' = [electionDone EXCEPT ![s] = TRUE]

StepDown(s, term) ==
    /\ State' = [State EXCEPT ![s] = "Follower"]
    /\ CurrentTerm' = [CurrentTerm EXCEPT ![s] = term]
    /\ votedFor' = [votedFor EXCEPT ![s] = None]

ElectionIsOpen(m) ==
    LET s == m.src
    IN  /\ m.inc = incarnation[s]
        /\ CurrentTerm[s] = m.reqTerm
        /\ State[s] = "Candidate"
        /\ ~electionDone[s]

\* One reply goroutine of StartElection.  A reply that finds the election
\* closed, a lower term or a refusal changes nothing.
VoteReplied(m) ==
    LET s == m.src
    IN  /\ ElectionIsOpen(m)
        /\ voteReps' = voteReps \ {m}
        /\ \/ /\ m.Term > CurrentTerm[s]
              /\ StepDown(s, m.Term)
              /\ electionDone' = [electionDone EXCEPT ![s] = TRUE]
              /\ UNCHANGED <<electionVotes, trackerVars>>
           \/ /\ m.Term = CurrentTerm[s] /\ m.VoteGranted
              /\ electionVotes' = [electionVotes EXCEPT ![s] = @ + 1]
              /\ IF electionVotes[s] + 1 > N \div 2
                 THEN becomeLeader(s)
                 ELSE UNCHANGED <<State, trackerVars, electionDone>>
              /\ UNCHANGED <<CurrentTerm, votedFor>>
        /\ UNCHANGED <<log, CommitIndex, armed, applyVars, processVars, submitted, voteReqs,
                       appendMsgs>>

-----------------------------------------------------------------------------
(* Log replication and commitment.                                         *)

\* A client command accepted by the leader; any other node refuses it.
Start(s) ==
    /\ State[s] = "Leader"
    /\ submitted < MaxCommands
    /\ submitted' = submitted + 1
    /\ log' = [log EXCEPT ![s] = Append(@, [Term |-> CurrentTerm[s], Command |-> submitted'])]
    /\ UNCHANGED <<State, CurrentTerm, votedFor, CommitIndex, trackerVars,
                   electionVars, applyVars, processVars, voteMsgs, appendMsgs>>

\* A heartbeat carries the term only: the other arguments keep Go's zero
\* values, which the handler reads like those of any append.
Heartbeat(s, t) ==
    [src |-> s, inc |-> incarnation[s], dst |-> t, heart |-> TRUE,
     LeaderTerm |-> CurrentTerm[s], PrevLogIndex |-> 0, PrevLogTerm |-> 0,
     Entries |-> << >>, LeaderCommit |-> 0]

Replication(s, t) ==
    LET prev == Lesser(LastLogIndex(s), nextIndex[s][t] - 1)
    IN  [src |-> s, inc |-> incarnation[s], dst |-> t, heart |-> FALSE,
         LeaderTerm |-> CurrentTerm[s], PrevLogIndex |-> prev,
         PrevLogTerm |-> getEntryTerm(s, prev),
         Entries |-> getAppendEntries(s, prev + 1), LeaderCommit |-> CommitIndex[s]]

\* AppendEntries, up to the RPC.  The ticker, Start and becomeLeader all
\* spawn it, so a leader may run it at any time.  Equal calls sent one after
\* the other are one record that stays on the wire until it is dropped.
AppendEntries(s, t, heart) ==
    /\ State[s] = "Leader" /\ t # s
    /\ Cardinality(appendReqs) + Cardinality(appendReps) < MaxInFlight
    /\ appendReqs' = appendReqs \cup
         {IF heart THEN Heartbeat(s, t) ELSE Replication(s, t)}
    /\ UNCHANGED <<State, CurrentTerm, votedFor, log, CommitIndex, trackerVars,
                   electionVars, applyVars, processVars, submitted, voteMsgs, appendReps>>

\* The log check is skipped when PrevLogIndex is 0 (or -1).
LogMatches(s, m) ==
    \/ m.PrevLogIndex <= 0
    \/ /\ LastLogIndex(s) >= m.PrevLogIndex
       /\ getEntryTerm(s, m.PrevLogIndex) = m.PrevLogTerm

\* The append loop: entries whose slot holds the same term are skipped, the
\* first one with another term cuts the log, the rest are appended at the end
\* of the log wherever that end is.
Conflicts(lg, prev, es) ==
    {j \in 1..Len(es) : prev + 1 + j <= Len(lg) /\ lg[prev + 1 + j].Term # es[j].Term}

\* Mutant: entries the log already holds are appended again.
AppendAll(lg, prev, es) == lg \o es

AppendOrOverwrite(lg, prev, es) ==
    IF Conflicts(lg, prev, es) = {}
    THEN lg \o SubSeq(es, Greater(Len(lg) - prev - 1, 0) + 1, Len(es))
    ELSE LET j == CHOOSE j \in Conflicts(lg, prev, es) :
                      \A k \in Conflicts(lg, prev, es) : j <= k
         IN  SubSeq(lg, 1, prev + j) \o SubSeq(es, j, Len(es))

AppendReply(m, term, success) ==
    [src |-> m.src, inc |-> m.inc, dst |-> m.dst, heart |-> m.heart,
     PrevLogIndex |-> m.PrevLogIndex, EntriesLen |-> Len(m.Entries),
     FollowerTerm |-> term, Success |-> success]

\* Mutant: the leader's term is not adopted.
FollowInOwnTerm(s, term) ==
    /\ State' = [State EXCEPT ![s] = "Follower"]
    /\ UNCHANGED <<CurrentTerm, votedFor>>

Follow(s, term) ==
    /\ State' = [State EXCEPT ![s] = "Follower"]
    /\ CurrentTerm' = [CurrentTerm EXCEPT ![s] = term]
    /\ votedFor' = [votedFor EXCEPT ![s] = VoteIn(s, term)]

\* Mutant: the new CommitIndex is stored and nobody is told.
LearnCommitSilently(s, leaderCommit, last) ==
    /\ CommitIndex' = IF leaderCommit > CommitIndex[s]
                      THEN [CommitIndex EXCEPT ![s] = Lesser(leaderCommit, last)]
                      ELSE CommitIndex
    /\ UNCHANGED applier

\* The leader's commit index, cut at the last entry held.
LearnCommit(s, leaderCommit, last) ==
    IF leaderCommit > CommitIndex[s]
    THEN /\ CommitIndex' = [CommitIndex EXCEPT ![s] = Lesser(leaderCommit, last)]
         /\ Broadcast(s)
    ELSE UNCHANGED <<CommitIndex, applier>>

\* handleAppendEntriesRPC on a live node whose term is not above the leader's.
AcceptAppend(m) ==
    LET s  == m.dst
        lg == AppendOrOverwrite(log[s], m.PrevLogIndex, m.Entries)
    IN  /\ Follow(s, m.LeaderTerm)
        /\ appendReps' = appendReps \cup {AppendReply(m, m.LeaderTerm, LogMatches(s, m))}
        /\ \/ ~LogMatches(s, m) /\ UNCHANGED <<log, CommitIndex, applier>>
           \/ /\ LogMatches(s, m)
              /\ log' = [log EXCEPT ![s] = lg]
              /\ LearnCommit(s, m.LeaderCommit, Len(lg) - 1)

RefuseAppend(m) ==
    /\ appendReps' = appendReps \cup {AppendReply(m, CurrentTerm[m.dst], FALSE)}
    /\ UNCHANGED <<State, CurrentTerm, votedFor, log, CommitIndex, applier>>

handleAppendEntriesRPC(m) ==
    /\ IF ~killed(m.dst) /\ m.LeaderTerm >= CurrentTerm[m.dst]
       THEN AcceptAppend(m)
       ELSE RefuseAppend(m)
    /\ UNCHANGED <<trackerVars, electionVars, applied, processVars, submitted, voteMsgs,
                   appendReqs>>

\* The call fails, or nobody waits for its answer any more.
DropAppend(m) ==
    /\ appendReqs' = appendReqs \ {m}
    /\ appendReps' = appendReps \ {m}
    /\ UNCHANGED <<State, CurrentTerm, votedFor, log, CommitIndex, trackerVars,
                   electionVars, applyVars, processVars, submitted, voteMsgs>>

\* Nodes counted for index i: the leader itself and every peer whose
\* matchIndex, given as match, has reached it.
Replicas(s, i, match) == {s} \cup {t \in Server : match[t] >= i}

\* Mutant: an index below the one already committed is committed again.
CanCommitBack(s, i, match) ==
    /\ i \in 0..LastLogIndex(s)
    /\ getEntryTerm(s, i) = CurrentTerm[s]
    /\ Cardinality(Replicas(s, i, match)) > N \div 2

\* tryCommitL(i), run with the trackers already updated to match.
CanCommit(s, i, match) ==
    /\ i >= CommitIndex[s]
    /\ i \in 0..LastLogIndex(s)
    /\ getEntryTerm(s, i) = CurrentTerm[s]
    /\ Cardinality(Replicas(s, i, match)) > N \div 2

\* Mutant: all that the leader's log holds is committed.
tryCommitToEnd(s, i, match) ==
    IF CanCommit(s, i, match)
    THEN /\ CommitIndex' = [CommitIndex EXCEPT ![s] = LastLogIndex(s)]
         /\ Broadcast(s)
    ELSE UNCHANGED <<CommitIndex, applier>>

tryCommitL(s, i, match) ==
    IF CanCommit(s, i, match)
    THEN /\ CommitIndex' = [CommitIndex EXCEPT ![s] = i]
         /\ Broadcast(s)
    ELSE UNCHANGED <<CommitIndex, applier>>

\* Mutant: the peer is taken to hold all that the leader's log holds now.
EntriesAckedToEnd(s, m) ==
    LET i == LastLogIndex(s)
    IN  /\ m.Success /\ m.EntriesLen > 0
        /\ matchIndex' = [matchIndex EXCEPT ![s][m.dst] = i]
        /\ nextIndex' = [nextIndex EXCEPT ![s][m.dst] = i + 1]
        /\ tryCommitL(s, i, [matchIndex[s] EXCEPT ![m.dst] = i])

\* A successful answer to a call that carried entries.
EntriesAcked(s, m) ==
    LET i == m.PrevLogIndex + m.EntriesLen
    IN  /\ m.Success /\ m.EntriesLen > 0
        /\ matchIndex' = [matchIndex EXCEPT ![s][m.dst] = i]
        /\ nextIndex' = [nextIndex EXCEPT ![s][m.dst] = i + 1]
        /\ tryCommitL(s, i, [matchIndex[s] EXCEPT ![m.dst] = i])

\* A successful answer to an empty call.
ProbeAcked(s, m) ==
    /\ m.Success /\ m.EntriesLen = 0
    /\ nextIndex' = [nextIndex EXCEPT ![s][m.dst] = Greater(@, m.PrevLogIndex + 1)]
    /\ UNCHANGED <<matchIndex, CommitIndex, applier>>

\* The handler never fills the reply's PrevLogIndex and PrevLogTerm, so the
\* back-up search always starts from index 0 with term 0 and ends at 0.  With
\* an empty log a snapshot is sent instead, and that call is a stub.
BackUp(s, m) ==
    /\ ~m.Success
    /\ nextIndex' = [nextIndex EXCEPT ![s][m.dst] = IF log[s] = << >> THEN @ ELSE 0]
    /\ UNCHANGED <<matchIndex, CommitIndex, applier>>

\* AppendEntries, from the RPC's answer on.  An answer to an earlier
\* incarnation, to a node that is no longer leader or with a lower term is
\* ignored, and a heartbeat's answer is only read for its term.
AppendReplied(m) ==
    LET s == m.src
    IN  /\ m.inc = incarnation[s] /\ State[s] = "Leader"
        /\ \/ /\ m.FollowerTerm > CurrentTerm[s]
              /\ StepDown(s, m.FollowerTerm)
              /\ UNCHANGED <<trackerVars, CommitIndex, applier>>
           \/ /\ m.FollowerTerm = CurrentTerm[s] /\ ~m.heart
              /\ EntriesAcked(s, m) \/ ProbeAcked(s, m) \/ BackUp(s, m)
              /\ UNCHANGED <<State, CurrentTerm, votedFor>>
        /\ UNCHANGED <<log, electionVars, applied, processVars, submitted, voteMsgs,
                       appendMsgs>>

-----------------------------------------------------------------------------
(* Hand-over to the state machine, shutdown and restart.                   *)

\* Mutant: only the newest committed entry is handed over.
newlyCommittedLast(s) ==
    SubSeq(log[s], Greater(Len(applied[s]), CommitIndex[s]) + 1, Lesser(CommitIndex[s] + 1, Len(log[s])))

newlyCommitted(s) ==
    SubSeq(log[s], Len(applied[s]) + 1, Lesser(CommitIndex[s] + 1, Len(log[s])))

\* One pass of sendMsgToTester: every entry up to CommitIndex that is in the
\* log goes to ApplyHelper, whose lastItemIndex moves along with LastApplied.
\* The goroutine leaves its loop after the pass when the node is killed.
sendMsgToTester(s) ==
    /\ applier[s] = "woken"
    /\ applier' = [applier EXCEPT ![s] = IF killed(s) THEN "exited" ELSE "waiting"]
    /\ applied' = [applied EXCEPT ![s] = @ \o newlyCommitted(s)]
    /\ UNCHANGED <<State, CurrentTerm, votedFor, log, CommitIndex, trackerVars,
                   electionVars, processVars, submitted, voteMsgs, appendMsgs>>

\* Kill stores the flag before it takes the lock.
Kill(s) ==
    /\ s \in Mortal /\ life[s] = "up"
    /\ life' = [life EXCEPT ![s] = "killing"]
    /\ UNCHANGED <<State, CurrentTerm, votedFor, log, CommitIndex, trackerVars,
                   electionVars, applyVars, incarnation, submitted, voteMsgs, appendMsgs>>

KillLocked(s) ==
    /\ life[s] = "killing"
    /\ life' = [life EXCEPT ![s] = "killed"]
    /\ State' = [State EXCEPT ![s] = "Follower"]
    /\ Broadcast(s)
    /\ UNCHANGED <<CurrentTerm, votedFor, log, CommitIndex, trackerVars,
                   electionVars, applied, incarnation, submitted, voteMsgs, appendMsgs>>

\* Mutant: the log comes back without the term it was written in.
readPersistLogOnly(s) ==
    /\ CurrentTerm' = [CurrentTerm EXCEPT ![s] = 0]
    /\ votedFor' = [votedFor EXCEPT ![s] = None]
    /\ UNCHANGED log

\* NewServer hands Make an empty in-memory persister: nothing survives.
readPersist(s) ==
    /\ CurrentTerm' = [CurrentTerm EXCEPT ![s] = 0]
    /\ votedFor' = [votedFor EXCEPT ![s] = None]
    /\ log' = [log EXCEPT ![s] = << >>]

\* The process stops, at any point, and starts again (Make).
Restart(s) ==
    /\ s \in Mortal /\ incarnation[s] < MaxRestarts
    /\ incarnation' = [incarnation EXCEPT ![s] = @ + 1]
    /\ State' = [State EXCEPT ![s] = "Follower"]
    /\ readPersist(s)
    /\ CommitIndex' = [CommitIndex EXCEPT ![s] = 0]
    /\ nextIndex' = [nextIndex EXCEPT ![s] = [t \in Server |-> 0]]
    /\ matchIndex' = [matchIndex EXCEPT ![s] = [t \in Server |-> 0]]
    /\ electionVotes' = [electionVotes EXCEPT ![s] = 0]
    /\ electionDone' = [electionDone EXCEPT ![s] = FALSE]
    /\ armed' = [armed EXCEPT ![s] = FALSE]
    /\ applier' = [applier EXCEPT ![s] = "waiting"]
    /\ applied' = [applied EXCEPT ![s] = << >>]
    /\ life' = [life EXCEPT ![s] = "up"]
    /\ UNCHANGED <<submitted, voteMsgs, appendMsgs>>

-----------------------------------------------------------------------------
Deliver ==
    \/ \E m \in voteReqs : RequestVote(m)
    \/ \E m \in voteReps : VoteReplied(m)
    \/ \E m \in appendReqs : handleAppendEntriesRPC(m)
    \/ \E m \in appendReps : AppendReplied(m)
    \/ \E m \in appendReqs \cup appendReps : DropAppend(m)

Operate(s) ==
    \/ Start(s)
    \/ \E t \in Server, heart \in BOOLEAN : AppendEntries(s, t, heart)
    \/ sendMsgToTester(s)
    \/ Kill(s)
    \/ KillLocked(s)

Next ==
    \/ Deliver
    \/ \E s \in Server : ElectionTimeout(s) \/ StartElection(s) \/ Operate(s) \/ Restart(s)

Spec == Init /\ [][Next]_vars

\* The regime the timers are meant to keep the cluster in: no process
\* restarts and, once a command has been accepted, heartbeats arrive in time
\* and no election starts.
NoCommandYet == \A s \in Server : log[s] = << >>

SteadyNext ==
    \/ Deliver
    \/ \E s \in Server : ElectionTimeout(s) \/ Operate(s)
                          \/ (NoCommandYet /\ StartElection(s))

SteadySpec == Init /\ [][SteadyNext]_vars

\* The ticker of a live leader keeps calling AppendEntries for every peer, a
\* call repeated for ever gets through for ever, so does its answer, no call
\* stays on the wire for ever (HTTP calls end), and goroutines that can run do.
Fairness ==
    /\ \A s \in Server : WF_vars(sendMsgToTester(s))
    /\ \A s, t \in Server : SF_vars(AppendEntries(s, t, FALSE))
    /\ \A t \in Server :
         /\ SF_vars(\E m \in appendReqs : m.dst = t /\ ~m.heart /\ handleAppendEntriesRPC(m))
         /\ SF_vars(\E m \in appendReps : m.dst = t /\ ~m.heart /\ AppendReplied(m))
    /\ WF_vars(\E m \in appendReqs : DropAppend(m))
    /\ WF_vars(\E m \in appendReps : DropAppend(m))

FairSteadySpec == SteadySpec /\ Fairness

-----------------------------------------------------------------------------
(* Types.                                                                  *)

\* Log indexes; -1 is the index before the first entry.
Index == {i \in Int : i >= -1}

VoteReq == [src : Server, inc : Nat, dst : Server, Term : Nat,
            LastLogIndex : Index, LastLogTerm : Nat]
VoteRep == [src : Server, inc : Nat, dst : Server, reqTerm : Nat, Term : Nat,
            VoteGranted : BOOLEAN]
AppendReq == [src : Server, inc : Nat, dst : Server, heart : BOOLEAN, LeaderTerm : Nat,
              PrevLogIndex : Index, PrevLogTerm : Int, Entries : Seq(Entry), LeaderCommit : Index]
AppendRep == [src : Server, inc : Nat, dst : Server, heart : BOOLEAN, PrevLogIndex : Index,
              EntriesLen : Nat, FollowerTerm : Nat, Success : BOOLEAN]

\* Every variable of the Raft struct and every RPC record is well formed.
TypeOK ==
    /\ State \in [Server -> {"Follower", "Candidate", "Leader"}]
    /\ CurrentTerm \in [Server -> Nat]
    /\ votedFor \in [Server -> Server \cup {None}]
    /\ log \in [Server -> Seq(Entry)]
    /\ CommitIndex \in [Server -> Index]
    /\ nextIndex \in [Server -> [Server -> Nat]]
    /\ matchIndex \in [Server -> [Server -> Nat]]
    /\ electionVotes \in [Server -> Nat]
    /\ electionDone \in [Server -> BOOLEAN]
    /\ armed \in [Server -> BOOLEAN]
    /\ applier \in [Server -> {"waiting", "woken", "exited"}]
    /\ applied \in [Server -> Seq(Entry)]
    /\ life \in [Server -> {"up", "killing", "killed"}]
    /\ incarnation \in [Server -> Nat]
    /\ submitted \in Nat
    /\ voteReqs \subseteq VoteReq /\ voteReps \subseteq VoteRep
    /\ appendReqs \subseteq AppendReq /\ appendReps \subseteq AppendRep

-----------------------------------------------------------------------------
(* Properties of every behaviour.                                          *)

SameIncarnation(s) == incarnation'[s] = incarnation[s]

\* What a node has promised it keeps for as long as its process runs: its
\* term never decreases, and within a term a vote once given is never taken
\* back or given to another candidate, whatever the order in which vote
\* requests, appends, stale replies and its own elections reach it.
PromiseStep(s) ==
    SameIncarnation(s) =>
        /\ CurrentTerm'[s] >= CurrentTerm[s]
        /\ (CurrentTerm'[s] = CurrentTerm[s] /\ votedFor[s] # None)
             => votedFor'[s] = votedFor[s]

PromisesKept == [][\A s \in Server : PromiseStep(s)]_vars

\* A log never holds an entry of a term its node has not reached, although
\* terms and entries travel in different messages and a leader that has
\* granted a vote moves to a new term without giving up its log.
NoFutureEntries ==
    \A s \in Server : \A i \in 1..Len(log[s]) : log[s][i].Term <= CurrentTerm[s]

\* The test harness asserts this (raft/config.go, checkLogs): two nodes never
\* hand different commands for the same index to their state machines.
StateMachineSafety ==
    \A s, t \in Server : \A i \in 1..Len(applied[s]) :
        i <= Len(applied[t]) => applied[s][i].Command = applied[t][i].Command

-----------------------------------------------------------------------------
(* Properties of the steady regime with a single electable node.           *)

\* Any two logs agree on the indexes they share.
LogsAgree ==
    \A s, t \in Server : \A i \in 1..Len(log[s]) :
        i <= Len(log[t]) => log[s][i] = log[t][i]

\* What tryCommitL's comment says of the trackers (raft/log_replication.go): a
\* peer whose matchIndex is i holds the leader's entries up to i.  The reset
\* value 0 stands for "nothing known".
MatchIndexSound ==
    \A s, t \in Server : (State[s] = "Leader" /\ t # s) =>
        \A i \in 1..matchIndex[s][t] :
            i < Len(log[t]) /\ i < Len(log[s]) /\ log[t][i + 1] = log[s][i + 1]

\* An index from 1 on that a node takes for committed is in the logs of a
\* majority, whichever acknowledgements were lost, late or reordered.  (0 is
\* the value CommitIndex starts from.)
CommittedIsReplicated ==
    \A s \in Server : CommitIndex[s] >= 1 =>
        Cardinality({t \in Server : Len(log[t]) > CommitIndex[s]}) > N \div 2

\* No append, however late, takes back what a node knows to be committed.
CommitMonotone ==
    [][\A s \in Server : SameIncarnation(s) => CommitIndex'[s] >= CommitIndex[s]]_vars

\* The test harness asserts of every agreed command (raft/config.go, wait:
\* "only %d decided for index %d; wanted %d") that all nodes apply it.  The part
\* of it the code keeps: a node that has applied an entry beyond the first is
\* followed by all the others, through lost calls and answers.
LaterEntriesAppliedEverywhere ==
    \A s, t \in Server : \A i \in 2..MaxCommands :
        (Len(applied[s]) >= i) ~> (Len(applied[t]) >= i)

-----------------------------------------------------------------------------
(* What the code does not keep; see README.                                *)

\* The test harness asserts this (raft/config.go, checkOneLeader and
\* "term %d has %d (>1) leaders"): one term has at most one leader.
ElectionSafety ==
    \A s, t \in Server : (/\ State[s] = "Leader" /\ State[t] = "Leader"
                           /\ CurrentTerm[s] = CurrentTerm[t]) => s = t

\* With every node up and connected, what one node has applied all nodes apply
\* in the end, the first entry included.
AppliedEverywhere ==
    \A s, t \in Server : \A i \in 1..MaxCommands :
        (Len(applied[s]) >= i) ~> (Len(applied[t]) >= i)

=============================================================================
