----------------------------- MODULE RaftProofs -----------------------------
(***************************************************************************)
(* Theorems about Raft, for every number of nodes and every bound.         *)
(***************************************************************************)
EXTENDS Raft, TLAPS, FiniteSetTheorems, WellFoundedInduction

-----------------------------------------------------------------------------
(* Sequences and the append loop.                                          *)

\* A slice of a sequence that ends inside it has the type of the sequence and
\* holds its elements.
LEMMA SliceFacts ==
    ASSUME NEW S, NEW q \in Seq(S), NEW a \in Nat \ {0}, NEW b \in Int, b <= Len(q)
    PROVE  /\ SubSeq(q, a, b) \in Seq(S)
           /\ Len(SubSeq(q, a, b)) = IF a <= b THEN b - a + 1 ELSE 0
           /\ \A i \in 1..(b - a + 1) : SubSeq(q, a, b)[i] = q[a + i - 1]
  OBVIOUS

\* Concatenation: type, length and elements.
LEMMA ConcatFacts ==
    ASSUME NEW S, NEW p \in Seq(S), NEW q \in Seq(S)
    PROVE  /\ p \o q \in Seq(S)
           /\ Len(p \o q) = Len(p) + Len(q)
           /\ \A i \in 1..Len(p) : (p \o q)[i] = p[i]
           /\ \A i \in 1..Len(q) : (p \o q)[Len(p) + i] = q[i]
  OBVIOUS

\* A non-empty set of naturals has a least element.
LEMMA SmallestExists ==
    ASSUME NEW T \in SUBSET Nat, T # {}
    PROVE  \E x \in T : \A k \in T : x <= k
  <1> DEFINE R == {ss \in Nat \X Nat : ss[1] < ss[2]}
  <1>1. IsWellFoundedOn(R, Nat)
    BY Zenon, NatLessThanWellFounded DEF OpToRel
  <1> HIDE DEF R
  <1>2. PICK x \in T : \A y \in T : ~(<<y, x>> \in R)
    BY ZenonT(30), <1>1, WFMin
  <1>3. \A y \in T : ~(y < x)
    BY ZenonT(30), <1>2 DEF R
  <1> QED  BY <1>3

\* The append loop of handleAppendEntriesRPC yields a log all of whose entries
\* were in the log or in the call.
LEMMA AppendOrOverwriteType ==
    ASSUME NEW A, NEW lg \in Seq(A), NEW es \in Seq(A), NEW prev \in Index
    PROVE  AppendOrOverwrite(lg, prev, es) \in Seq(A)
  <1> DEFINE C == Conflicts(lg, prev, es)
  <1>1. CASE C = {}
    <2> DEFINE a == Greater(Len(lg) - prev - 1, 0) + 1
    <2>1. a \in Nat \ {0}
      BY DEF Greater, Index
    <2>2. SubSeq(es, a, Len(es)) \in Seq(A)
      BY <2>1, SliceFacts
    <2>3. AppendOrOverwrite(lg, prev, es) = lg \o SubSeq(es, a, Len(es))
      BY Zenon, <1>1 DEF AppendOrOverwrite
    <2> HIDE DEF a
    <2> QED  BY Zenon, <2>2, <2>3, ConcatFacts
  <1>2. CASE C # {}
    <2> DEFINE j == CHOOSE j \in C : \A k \in C : j <= k
    <2>1. j \in C
      <3>1. C \in SUBSET Nat /\ C # {}
        BY <1>2 DEF Conflicts
      <3>2. \E x \in C : \A k \in C : x <= k
        BY SMTT(30), <3>1, SmallestExists
      <3> QED  BY Zenon, <3>2
    <2>2. j \in 1..Len(es) /\ prev + 1 + j <= Len(lg)
      BY Zenon, <2>1 DEF Conflicts
    <2>3. AppendOrOverwrite(lg, prev, es)
            = SubSeq(lg, 1, prev + j) \o SubSeq(es, j, Len(es))
      BY ZenonT(30), <1>2 DEF AppendOrOverwrite
    <2> HIDE DEF j
    <2>4. SubSeq(lg, 1, prev + j) \in Seq(A)
      BY <2>2, SliceFacts DEF Index
    <2>5. SubSeq(es, j, Len(es)) \in Seq(A)
      BY <2>2, SliceFacts
    <2> QED  BY Zenon, <2>3, <2>4, <2>5, ConcatFacts
  <1> QED  BY Zenon, <1>1, <1>2

-----------------------------------------------------------------------------
(* Type correctness.                                                       *)

\* The term of an entry, of the snapshot before the log, or -1.
LEMMA EntryTermType ==
    ASSUME TypeOK, NEW s \in Server, NEW i \in Int
    PROVE  /\ getEntryTerm(s, i) \in Int
           /\ i \in -1..LastLogIndex(s) => getEntryTerm(s, i) \in Nat
  <1>1. log[s] \in Seq(Entry)
    BY Zenon DEF TypeOK
  <1>2. ASSUME i \in 0..LastLogIndex(s)
        PROVE  log[s][i + 1].Term \in Nat
    <2>1. i + 1 \in 1..Len(log[s])
      BY <1>1, <1>2 DEF LastLogIndex
    <2>2. log[s][i + 1] \in Entry
      BY <1>1, <2>1
    <2> QED  BY Zenon, <2>2 DEF Entry
  <1>3. LastLogIndex(s) \in Int
    BY <1>1 DEF LastLogIndex
  <1> QED  BY <1>2, <1>3 DEF getEntryTerm

\* Server is never expanded below; these are the facts about its definitions
\* that are needed.
LEMMA LastLogIndexType ==
    ASSUME TypeOK, NEW s \in Server
    PROVE  /\ LastLogIndex(s) \in Index
           /\ LastLogIndex(s) + 1 \in Nat
           /\ getLastEntryTerm(s) \in Nat
  <1>1. log[s] \in Seq(Entry)
    BY Zenon DEF TypeOK
  <1>2. LastLogIndex(s) \in Int /\ LastLogIndex(s) \in -1..LastLogIndex(s)
    BY <1>1 DEF LastLogIndex
  <1> QED  BY <1>2, EntryTermType DEF Index, getLastEntryTerm

\* applyCond.Broadcast keeps the applier's state well formed.
LEMMA BroadcastType ==
    ASSUME TypeOK, NEW s \in Server, Broadcast(s)
    PROVE  applier' \in [Server -> {"waiting", "woken", "exited"}]
  BY Zenon DEF TypeOK, Broadcast

\* Types hold at first and are preserved by every step.
LEMMA TypeInit == Init => TypeOK
  BY DEF Init, TypeOK, Index, None, Entry

\* Every step preserves types.
LEMMA TypeStep == TypeOK /\ [Next]_vars => TypeOK'
  <1> SUFFICES ASSUME TypeOK, [Next]_vars
               PROVE  TypeOK'
    BY Zenon
  <1> USE DEF vars, electionVars, trackerVars, applyVars, processVars, voteMsgs, appendMsgs
  <1>1. ASSUME NEW s \in Server, ElectionTimeout(s)
        PROVE  TypeOK'
    BY Zenon, <1>1 DEF TypeOK, ElectionTimeout
  <1>2. ASSUME NEW s \in Server, StartElection(s)
        PROVE  TypeOK'
    <2>1. voteReqs' \subseteq VoteReq
      <3>1. CurrentTerm[s] + 1 \in Nat /\ incarnation[s] \in Nat /\ voteReqs \subseteq VoteReq
        BY DEF TypeOK
      <3>2. LastLogIndex(s) \in Index /\ getLastEntryTerm(s) \in Nat
        BY Zenon, LastLogIndexType
      <3> QED  BY <1>2, <3>1, <3>2 DEF StartElection, VoteTargets, VoteReq
    <2> QED  BY SMTT(30), <1>2, <2>1 DEF TypeOK, StartElection
  <1>3. ASSUME NEW m \in voteReqs, RequestVote(m)
        PROVE  TypeOK'
    <2>1. /\ m.src \in Server /\ m.dst \in Server /\ m.inc \in Nat /\ m.Term \in Nat
          /\ CurrentTerm[m.dst] \in Nat /\ voteReps \subseteq VoteRep
      BY ZenonT(30) DEF TypeOK, VoteReq
    <2>2. ASSUME NEW term \in Nat, NEW granted \in BOOLEAN
          PROVE  VoteReply(m, term, granted) \in VoteRep
      BY Zenon, <2>1 DEF VoteReply, VoteRep
    <2>3. Greater(m.Term, CurrentTerm[m.dst]) \in Nat
      BY Zenon, <2>1 DEF Greater
    <2>4. PICK term \in Nat, granted \in BOOLEAN :
            /\ voteReps' = voteReps \cup {VoteReply(m, term, granted)}
            /\ CurrentTerm' = [CurrentTerm EXCEPT ![m.dst] = term] \/ UNCHANGED CurrentTerm
      BY ZenonT(30), <1>3, <2>1, <2>3 DEF RequestVote, Grants, VoteIn
    <2>5. PICK vote \in Server \cup {None} :
            votedFor' = [votedFor EXCEPT ![m.dst] = vote] \/ UNCHANGED votedFor
      BY ZenonT(30), <1>3, <2>1 DEF RequestVote, Grants, VoteIn, TypeOK
    <2>6. voteReps' \subseteq VoteRep /\ CurrentTerm' \in [Server -> Nat]
      BY ZenonT(30), <2>1, <2>2, <2>4 DEF TypeOK
    <2>7. votedFor' \in [Server -> Server \cup {None}]
      BY ZenonT(30), <2>5 DEF TypeOK
    <2> QED  BY ZenonT(30), <1>3, <2>6, <2>7 DEF TypeOK, RequestVote, Grants, VoteIn
  <1>4. ASSUME NEW m \in voteReps, VoteReplied(m)
        PROVE  TypeOK'
    <2>1. m.src \in Server /\ m.Term \in Nat /\ LastLogIndex(m.src) + 1 \in Nat
      BY ZenonT(30), LastLogIndexType DEF TypeOK, VoteRep
    <2>2. CASE /\ StepDown(m.src, m.Term)
               /\ electionDone' = [electionDone EXCEPT ![m.src] = TRUE]
               /\ UNCHANGED <<electionVotes, trackerVars>>
      BY SMTT(30), <1>4, <2>1, <2>2 DEF TypeOK, VoteReplied, StepDown
    <2>3. CASE /\ electionVotes' = [electionVotes EXCEPT ![m.src] = @ + 1]
               /\ becomeLeader(m.src) \/ UNCHANGED <<State, trackerVars, electionDone>>
               /\ UNCHANGED <<CurrentTerm, votedFor>>
      <3>1. /\ State' \in [Server -> {"Follower", "Candidate", "Leader"}]
            /\ electionDone' \in [Server -> BOOLEAN]
        BY ZenonT(30), <2>1, <2>3 DEF TypeOK, becomeLeader, resetTrackedIndex
      <3>2. nextIndex' \in [Server -> [Server -> Nat]] /\ matchIndex' \in [Server -> [Server -> Nat]]
        <4>1. CASE becomeLeader(m.src)
          <5> DEFINE f == [t \in Server |-> LastLogIndex(m.src) + 1]
                     g == [t \in Server |-> 0]
          <5>1. f \in [Server -> Nat] /\ g \in [Server -> Nat]
            BY Zenon, <2>1
          <5>2. /\ nextIndex' = [nextIndex EXCEPT ![m.src] = f]
                /\ matchIndex' = [matchIndex EXCEPT ![m.src] = g]
            BY Zenon, <4>1 DEF becomeLeader, resetTrackedIndex
          <5> HIDE DEF f, g
          <5> QED  BY SMTT(30), <2>1, <5>1, <5>2 DEF TypeOK
        <4>2. CASE UNCHANGED trackerVars
          BY Zenon, <4>2 DEF TypeOK
        <4> QED  BY Zenon, <2>3, <4>1, <4>2
      <3>3. electionVotes' \in [Server -> Nat]
        BY <2>1, <2>3 DEF TypeOK
      <3> QED  BY ZenonT(30), <1>4, <2>3, <3>1, <3>2, <3>3 DEF TypeOK, VoteReplied
    <2> QED  BY Zenon, <1>4, <2>2, <2>3 DEF VoteReplied
  <1>5. ASSUME NEW m \in appendReqs, handleAppendEntriesRPC(m)
        PROVE  TypeOK'
    <2>1. /\ m.src \in Server /\ m.dst \in Server /\ m.inc \in Nat /\ m.heart \in BOOLEAN
          /\ m.LeaderTerm \in Nat /\ m.PrevLogIndex \in Index /\ m.LeaderCommit \in Index
          /\ m.Entries \in Seq(Entry)
      BY ZenonT(30) DEF TypeOK, AppendReq
    <2>0. ASSUME NEW term \in Nat, NEW success \in BOOLEAN
          PROVE  AppendReply(m, term, success) \in AppendRep
      BY <2>1 DEF AppendReply, AppendRep
    <2>2. CASE AcceptAppend(m)
      <3> DEFINE lg == AppendOrOverwrite(log[m.dst], m.PrevLogIndex, m.Entries)
      <3>1. lg \in Seq(Entry)
        BY ZenonT(30), <2>1, AppendOrOverwriteType DEF TypeOK
      <3>2. log' \in [Server -> Seq(Entry)]
        BY ZenonT(30), <2>1, <2>2, <3>1 DEF TypeOK, AcceptAppend, Follow, VoteIn, LearnCommit
      <3>3. Lesser(m.LeaderCommit, Len(lg) - 1) \in Index
        <4>1. Len(lg) - 1 \in Index
          BY <3>1 DEF Index
        <4> HIDE DEF lg
        <4> QED  BY Zenon, <2>1, <4>1 DEF Lesser
      <3>4. CommitIndex' \in [Server -> Index]
        BY ZenonT(30), <2>1, <2>2, <3>3 DEF TypeOK, AcceptAppend, Follow, VoteIn, LearnCommit
      <3>5. applier' \in [Server -> {"waiting", "woken", "exited"}]
        BY ZenonT(30), <2>1, <2>2, BroadcastType DEF TypeOK, AcceptAppend, Follow, VoteIn, LearnCommit
      <3>6. appendReps' \subseteq AppendRep
        BY ZenonT(30), <2>0, <2>1, <2>2 DEF TypeOK, AcceptAppend, Follow, VoteIn, LearnCommit, LogMatches
      <3> QED  BY ZenonT(30), <1>5, <2>1, <2>2, <3>2, <3>4, <3>5, <3>6
               DEF TypeOK, AcceptAppend, Follow, VoteIn, LearnCommit, handleAppendEntriesRPC
    <2>3. CASE RefuseAppend(m)
      <3>1. appendReps' \subseteq AppendRep
        BY ZenonT(30), <2>0, <2>1, <2>3 DEF TypeOK, RefuseAppend
      <3> QED  BY ZenonT(30), <1>5, <2>3, <3>1 DEF TypeOK, RefuseAppend, handleAppendEntriesRPC
    <2> QED  BY Zenon, <1>5, <2>2, <2>3 DEF handleAppendEntriesRPC
  <1>6. ASSUME NEW m \in appendReps, AppendReplied(m)
        PROVE  TypeOK'
    <2>1. /\ m.src \in Server /\ m.dst \in Server /\ m.FollowerTerm \in Nat
          /\ m.PrevLogIndex \in Index /\ m.EntriesLen \in Nat
      BY ZenonT(30) DEF TypeOK, AppendRep
    <2>2. m.EntriesLen > 0 => m.PrevLogIndex + m.EntriesLen \in Nat
      BY <2>1 DEF Index
    <2>3. m.PrevLogIndex + 1 \in Nat
      BY <2>1 DEF Index
    <2>4. CASE StepDown(m.src, m.FollowerTerm) /\ UNCHANGED <<trackerVars, CommitIndex, applier>>
      BY ZenonT(30), <1>6, <2>1, <2>4 DEF TypeOK, AppendReplied, StepDown
    <2>5. CASE EntriesAcked(m.src, m) /\ UNCHANGED <<State, CurrentTerm, votedFor>>
      <3> DEFINE i == m.PrevLogIndex + m.EntriesLen
      <3>1. i \in Nat /\ i + 1 \in Nat /\ i \in Index
        BY <2>2, <2>5 DEF EntriesAcked, Index
      <3>2. /\ matchIndex' = [matchIndex EXCEPT ![m.src][m.dst] = i]
            /\ nextIndex' = [nextIndex EXCEPT ![m.src][m.dst] = i + 1]
            /\ \/ CommitIndex' = [CommitIndex EXCEPT ![m.src] = i] /\ Broadcast(m.src)
               \/ UNCHANGED <<CommitIndex, applier>>
        BY SMTT(30), <2>5 DEF EntriesAcked, tryCommitL
      <3> HIDE DEF i
      <3>3. matchIndex' \in [Server -> [Server -> Nat]] /\ nextIndex' \in [Server -> [Server -> Nat]]
        BY ZenonT(30), <2>1, <3>1, <3>2 DEF TypeOK
      <3>4. CommitIndex' \in [Server -> Index]
        BY ZenonT(30), <2>1, <3>1, <3>2 DEF TypeOK
      <3>5. applier' \in [Server -> {"waiting", "woken", "exited"}]
        BY ZenonT(30), <2>1, <3>2, BroadcastType DEF TypeOK
      <3> QED  BY SMTT(30), <1>6, <2>5, <3>3, <3>4, <3>5 DEF TypeOK, AppendReplied
    <2>6. CASE ProbeAcked(m.src, m) /\ UNCHANGED <<State, CurrentTerm, votedFor>>
      <3>1. Greater(nextIndex[m.src][m.dst], m.PrevLogIndex + 1) \in Nat
        BY SMTT(30), <2>1, <2>3 DEF TypeOK, Greater
      <3> QED  BY ZenonT(30), <1>6, <2>1, <2>6, <3>1 DEF TypeOK, AppendReplied, ProbeAcked
    <2>7. CASE BackUp(m.src, m) /\ UNCHANGED <<State, CurrentTerm, votedFor>>
      <3>1. nextIndex' \in [Server -> [Server -> Nat]]
        <4>1. CASE log[m.src] = << >>
          <5>1. /\ nextIndex' = [nextIndex EXCEPT ![m.src][m.dst] = nextIndex[m.src][m.dst]]
                /\ nextIndex[m.src][m.dst] \in Nat
            BY <2>1, <2>7, <4>1 DEF BackUp, TypeOK
          <5> QED  BY ZenonT(30), <2>1, <5>1 DEF TypeOK
        <4>2. CASE log[m.src] # << >>
          <5>1. nextIndex' = [nextIndex EXCEPT ![m.src][m.dst] = 0]
            BY Zenon, <2>7, <4>2 DEF BackUp
          <5> QED  BY ZenonT(30), <2>1, <5>1 DEF TypeOK
        <4> QED  BY Zenon, <4>1, <4>2
      <3> QED  BY ZenonT(30), <1>6, <2>1, <2>7, <3>1 DEF TypeOK, AppendReplied, BackUp
    <2> QED  BY Zenon, <1>6, <2>4, <2>5, <2>6, <2>7 DEF AppendReplied
  <1>7. ASSUME NEW m \in appendReqs \cup appendReps, DropAppend(m)
        PROVE  TypeOK'
    BY Zenon, <1>7 DEF TypeOK, DropAppend
  <1>8. ASSUME NEW s \in Server, Start(s)
        PROVE  TypeOK'
    BY SMTT(30), <1>8 DEF TypeOK, Start, Entry
  <1>9. ASSUME NEW s \in Server, NEW t \in Server, NEW heart \in BOOLEAN,
               AppendEntries(s, t, heart)
        PROVE  TypeOK'
    <2>1. Heartbeat(s, t) \in AppendReq
      BY DEF TypeOK, Heartbeat, AppendReq, Index
    <2>2. Replication(s, t) \in AppendReq
      <3> DEFINE prev == Lesser(LastLogIndex(s), nextIndex[s][t] - 1)
      <3>1. prev \in Index
        <4>0. nextIndex[s][t] \in Nat
          BY DEF TypeOK
        <4>1. nextIndex[s][t] - 1 \in Index
          BY <4>0 DEF Index
        <4> QED  BY Zenon, <4>1, LastLogIndexType DEF Lesser
      <3> HIDE DEF prev
      <3>2. getEntryTerm(s, prev) \in Int
        BY Zenon, <3>1, EntryTermType DEF Index
      <3>3. getAppendEntries(s, prev + 1) \in Seq(Entry)
        <4>1. log[s] \in Seq(Entry) /\ Len(log[s]) \in Int /\ prev + 1 + 1 \in Nat \ {0}
          BY <3>1 DEF TypeOK, Index
        <4> QED  BY <4>1, SliceFacts DEF getAppendEntries
      <3> QED  BY Zenon, <3>1, <3>2, <3>3 DEF TypeOK, Replication, AppendReq, prev
    <2> QED  BY ZenonT(30), <1>9, <2>1, <2>2 DEF TypeOK, AppendEntries
  <1>10. ASSUME NEW s \in Server, sendMsgToTester(s)
         PROVE  TypeOK'
    <2> DEFINE b == Lesser(CommitIndex[s] + 1, Len(log[s]))
               q == SubSeq(log[s], Len(applied[s]) + 1, b)
    <2>1. b \in Int /\ b <= Len(log[s])
      <3>1. CommitIndex[s] + 1 \in Int /\ Len(log[s]) \in Int
        BY DEF TypeOK, Index
      <3> QED  BY <3>1 DEF Lesser
    <2> HIDE DEF b
    <2>2. q \in Seq(Entry)
      BY <2>1, SliceFacts DEF TypeOK
    <2>3. applied' = [applied EXCEPT ![s] = @ \o q]
      BY Zenon, <1>10 DEF sendMsgToTester, newlyCommitted, TypeOK, b
    <2> HIDE DEF q
    <2>4. applied' \in [Server -> Seq(Entry)]
      BY Zenon, <2>2, <2>3, ConcatFacts DEF TypeOK
    <2> QED  BY ZenonT(30), <1>10, <2>4 DEF TypeOK, sendMsgToTester
  <1>11. ASSUME NEW s \in Server, Kill(s)
         PROVE  TypeOK'
    BY Zenon, <1>11 DEF TypeOK, Kill
  <1>12. ASSUME NEW s \in Server, KillLocked(s)
         PROVE  TypeOK'
    BY Zenon, <1>12 DEF TypeOK, KillLocked, Broadcast
  <1>13. ASSUME NEW s \in Server, Restart(s)
         PROVE  TypeOK'
    BY SMTT(30), <1>13 DEF TypeOK, Restart, readPersist, Index
  <1>14. CASE UNCHANGED vars
    BY Zenon, <1>14 DEF TypeOK
  <1> QED  BY Zenon, <1>1, <1>2, <1>3, <1>4, <1>5, <1>6, <1>7, <1>8, <1>9, <1>10, <1>11, <1>12,
              <1>13, <1>14 DEF Next, Deliver, Operate

\* Type correctness of every behaviour.
THEOREM TypeCorrect == Spec => []TypeOK
  BY TypeInit, TypeStep, PTL DEF Spec

-----------------------------------------------------------------------------
(* Promises: terms and votes.                                              *)

\* Every step keeps the promises of every node that stays up.
LEMMA PromiseNext == TypeOK /\ Next => \A s \in Server : PromiseStep(s)
  <1> SUFFICES ASSUME TypeOK, Next, NEW s \in Server
               PROVE  PromiseStep(s)
    BY Zenon
  <1> USE DEF electionVars, trackerVars, applyVars, processVars, voteMsgs, appendMsgs
  <1>0. CurrentTerm[s] \in Nat /\ CurrentTerm \in [Server -> Nat]
        /\ votedFor \in [Server -> Server \cup {None}]
    BY Zenon DEF TypeOK
  <1>1. CASE UNCHANGED <<CurrentTerm, votedFor>>
    BY SMTT(30), <1>0, <1>1 DEF PromiseStep
  <1>2. ASSUME NEW t \in Server, StartElection(t)
        PROVE  PromiseStep(s)
    BY <1>0, <1>2 DEF StartElection, PromiseStep
  <1>3. ASSUME NEW m \in voteReqs, RequestVote(m)
        PROVE  PromiseStep(s)
    <2>1. m.dst \in Server /\ m.Term \in Nat /\ CurrentTerm[m.dst] \in Nat
      BY ZenonT(30) DEF TypeOK, VoteReq
    <2>2. CASE m.dst # s \/ killed(m.dst)
      <3>1. CurrentTerm'[s] = CurrentTerm[s] /\ votedFor'[s] = votedFor[s]
        BY ZenonT(30), <1>0, <1>3, <2>1, <2>2 DEF RequestVote, Grants, VoteIn
      <3> QED  BY <1>0, <3>1 DEF PromiseStep
    <2>3. CASE m.dst = s /\ ~killed(m.dst)
      <3>1. CurrentTerm'[s] = Greater(m.Term, CurrentTerm[s])
        BY ZenonT(30), <1>0, <1>3, <2>3 DEF RequestVote, Grants, VoteIn
      <3>2. CurrentTerm'[s] = CurrentTerm[s] /\ votedFor[s] # None => votedFor'[s] = votedFor[s]
        BY SMTT(30), <1>0, <1>3, <2>1, <2>3, <3>1 DEF RequestVote, Grants, VoteIn, Greater
      <3> QED  BY <1>0, <2>1, <2>3, <3>1, <3>2 DEF PromiseStep, Greater
    <2> QED  BY Zenon, <2>2, <2>3
  <1>4. ASSUME NEW t \in Server, NEW term \in Nat, term > CurrentTerm[t], StepDown(t, term)
        PROVE  PromiseStep(s)
    BY SMTT(30), <1>0, <1>4 DEF StepDown, PromiseStep
  <1>5. ASSUME NEW m \in voteReps, VoteReplied(m)
        PROVE  PromiseStep(s)
    <2>1. m.src \in Server /\ m.Term \in Nat
      BY ZenonT(30) DEF TypeOK, VoteRep
    <2> QED  BY Zenon, <1>1, <1>4, <1>5, <2>1 DEF VoteReplied
  <1>6. ASSUME NEW m \in appendReqs, handleAppendEntriesRPC(m)
        PROVE  PromiseStep(s)
    <2>1. m.dst \in Server /\ m.LeaderTerm \in Nat /\ CurrentTerm[m.dst] \in Nat
      BY ZenonT(30) DEF TypeOK, AppendReq
    <2>2. CASE AcceptAppend(m) /\ m.LeaderTerm >= CurrentTerm[m.dst]
      <3>1. /\ CurrentTerm'[s] = IF s = m.dst THEN m.LeaderTerm ELSE CurrentTerm[s]
            /\ votedFor'[s] = IF s = m.dst /\ m.LeaderTerm > CurrentTerm[s]
                              THEN None ELSE votedFor[s]
        BY Zenon, <1>0, <2>1, <2>2 DEF AcceptAppend, Follow, VoteIn, LearnCommit
      <3> QED  BY <1>0, <2>1, <2>2, <3>1 DEF PromiseStep
    <2>3. CASE RefuseAppend(m)
      <3>1. UNCHANGED <<CurrentTerm, votedFor>>
        BY Zenon, <2>3 DEF RefuseAppend
      <3> QED  BY Zenon, <1>1, <3>1
    <2> QED  BY Zenon, <1>6, <2>2, <2>3 DEF handleAppendEntriesRPC
  <1>7. ASSUME NEW m \in appendReps, AppendReplied(m)
        PROVE  PromiseStep(s)
    <2>1. m.src \in Server /\ m.FollowerTerm \in Nat
      BY ZenonT(30) DEF TypeOK, AppendRep
    <2> QED  BY ZenonT(30), <1>1, <1>4, <1>7, <2>1 DEF AppendReplied
  <1>8. ASSUME NEW t \in Server, Restart(t)
        PROVE  PromiseStep(s)
    <2>1. incarnation \in [Server -> Nat]
      BY Zenon DEF TypeOK
    <2> QED  BY <1>0, <1>8, <2>1 DEF Restart, readPersist, PromiseStep, SameIncarnation
  <1>9. ASSUME NEW t \in Server, ElectionTimeout(t) \/ Operate(t)
        PROVE  PromiseStep(s)
    BY Zenon, <1>1, <1>9 DEF ElectionTimeout, Operate, Start, AppendEntries, sendMsgToTester, newlyCommitted,
                      Kill, KillLocked
  <1>10. ASSUME NEW m \in appendReqs \cup appendReps, DropAppend(m)
         PROVE  PromiseStep(s)
    BY Zenon, <1>1, <1>10 DEF DropAppend
  <1> QED  BY Zenon, <1>2, <1>3, <1>5, <1>6, <1>7, <1>8, <1>9, <1>10 DEF Next, Deliver

\* A node never goes back to an earlier term and never changes its vote within
\* one while its process runs.
THEOREM Promises == Spec => PromisesKept
  <1>1. TypeOK /\ [Next]_vars => [\A s \in Server : PromiseStep(s)]_vars
    BY Zenon, PromiseNext
  <1> QED  BY <1>1, TypeCorrect, PTL DEF Spec, PromisesKept

-----------------------------------------------------------------------------
(* Terms of log entries, and the leader's own log.                         *)

\* Entries of a term up to t.
EntryUpTo(t) == {e \in Entry : e.Term <= t}

\* The inductive form: also the entries of a call have no term above the
\* call's, which a receiver adopts before it stores them.
TermsBounded ==
    /\ TypeOK
    /\ \A s \in Server : log[s] \in Seq(EntryUpTo(CurrentTerm[s]))
    /\ \A m \in appendReqs : m.Entries \in Seq(EntryUpTo(m.LeaderTerm))

\* A bound on the terms may be raised.
LEMMA UpToMonotone ==
    ASSUME NEW a \in Nat, NEW b \in Nat, a <= b, NEW q \in Seq(EntryUpTo(a))
    PROVE  q \in Seq(EntryUpTo(b))
  <1>1. EntryUpTo(a) \subseteq EntryUpTo(b)
    BY DEF EntryUpTo, Entry
  <1> HIDE DEF EntryUpTo
  <1> QED  BY <1>1

\* No log holds an entry of a later term than its node's: at first, and by every step.
LEMMA TermsInit == Init => TermsBounded
  <1> SUFFICES ASSUME Init PROVE TermsBounded
    BY Zenon
  <1>1. \A A : << >> \in Seq(A)
    OBVIOUS
  <1> QED  BY Zenon, TypeInit, <1>1 DEF Init, TermsBounded

\* Every step preserves the order of terms.
LEMMA TermsStep == TermsBounded /\ [Next]_vars => TermsBounded'
  <1> SUFFICES ASSUME TermsBounded, [Next]_vars
               PROVE  TermsBounded'
    BY Zenon
  <1>0. TypeOK /\ TypeOK'
    BY Zenon, TypeStep DEF TermsBounded
  <1> USE DEF electionVars, trackerVars, applyVars, processVars, voteMsgs, appendMsgs
  <1>1. \A s \in Server : CurrentTerm[s] \in Nat /\ CurrentTerm'[s] \in Nat
    BY Zenon, <1>0 DEF TypeOK
  <1>2. \A m \in appendReqs : m.src \in Server /\ m.dst \in Server /\ m.LeaderTerm \in Nat
                                /\ m.PrevLogIndex \in Index
    <2>1. appendReqs \subseteq AppendReq
      BY Zenon, <1>0 DEF TypeOK
    <2> QED  BY Zenon, <2>1 DEF AppendReq
  <1>3. ASSUME UNCHANGED log,
               appendReqs' \subseteq appendReqs,
               \A s \in Server : CurrentTerm[s] <= CurrentTerm'[s]
        PROVE  TermsBounded'
    BY Zenon, <1>0, <1>1, <1>3, UpToMonotone DEF TermsBounded
  <1>4. ASSUME NEW t \in Server,
               ElectionTimeout(t) \/ StartElection(t) \/ sendMsgToTester(t) \/ Kill(t) \/ KillLocked(t)
        PROVE  TermsBounded'
    <2>1. CASE StartElection(t)
      <3>1. \A s \in Server : CurrentTerm'[s] \in {CurrentTerm[s], CurrentTerm[s] + 1}
        BY ZenonT(30), <1>0, <2>1 DEF TypeOK, StartElection
      <3>2. \A s \in Server : CurrentTerm[s] <= CurrentTerm'[s]
        BY <1>1, <3>1
      <3> QED  BY Zenon, <1>3, <2>1, <3>2 DEF StartElection
    <2>2. CASE UNCHANGED <<CurrentTerm, log, appendReqs>>
      <3>1. \A s \in Server : CurrentTerm[s] <= CurrentTerm'[s]
        BY <1>1, <2>2
      <3> QED  BY Zenon, <1>3, <2>2, <3>1
    <2> QED  BY Zenon, <1>4, <2>1, <2>2
             DEF ElectionTimeout, sendMsgToTester, newlyCommitted, Kill, KillLocked
  <1>5. ASSUME Next, UNCHANGED log, appendReqs' \subseteq appendReqs, UNCHANGED incarnation
        PROVE  TermsBounded'
    BY SMTT(30), <1>0, <1>3, <1>5, PromiseNext DEF PromiseStep, SameIncarnation
  <1>6. ASSUME NEW m \in voteReqs, RequestVote(m)
        PROVE  TermsBounded'
    BY ZenonT(30), <1>5, <1>6 DEF RequestVote, Grants, VoteIn, Next, Deliver
  <1>7. ASSUME NEW m \in voteReps, VoteReplied(m)
        PROVE  TermsBounded'
    BY ZenonT(30), <1>5, <1>7 DEF VoteReplied, Next, Deliver
  <1>8. ASSUME NEW m \in appendReps, AppendReplied(m)
        PROVE  TermsBounded'
    BY ZenonT(30), <1>5, <1>8 DEF AppendReplied, Next, Deliver
  <1>9. ASSUME NEW m \in appendReqs \cup appendReps, DropAppend(m)
        PROVE  TermsBounded'
    BY SMTT(30), <1>5, <1>9 DEF DropAppend, Next, Deliver
  <1>10. ASSUME NEW m \in appendReqs, handleAppendEntriesRPC(m)
         PROVE  TermsBounded'
    <2>1. CASE RefuseAppend(m)
      BY ZenonT(30), <1>5, <1>10, <2>1 DEF RefuseAppend, handleAppendEntriesRPC, Next, Deliver
    <2>2. CASE AcceptAppend(m) /\ m.LeaderTerm >= CurrentTerm[m.dst]
      <3> DEFINE lg == AppendOrOverwrite(log[m.dst], m.PrevLogIndex, m.Entries)
      <3>1. log[m.dst] \in Seq(EntryUpTo(m.LeaderTerm))
        BY <1>1, <1>2, <2>2, UpToMonotone DEF TermsBounded
      <3>2. lg \in Seq(EntryUpTo(m.LeaderTerm))
        BY SMTT(30), <1>2, <3>1, AppendOrOverwriteType DEF TermsBounded
      <3>a. /\ CurrentTerm' = [CurrentTerm EXCEPT ![m.dst] = m.LeaderTerm]
            /\ log' = log \/ log' = [log EXCEPT ![m.dst] = lg]
        BY Zenon, <2>2 DEF AcceptAppend, Follow, VoteIn, LearnCommit
      <3> HIDE DEF lg
      <3>3. /\ CurrentTerm'[m.dst] = m.LeaderTerm
            /\ log'[m.dst] \in {lg, log[m.dst]}
            /\ \A s \in Server \ {m.dst} : CurrentTerm'[s] = CurrentTerm[s] /\ log'[s] = log[s]
        <4>1. DOMAIN CurrentTerm = Server /\ DOMAIN log = Server /\ m.dst \in Server
          BY ZenonT(30), <1>0, <1>2 DEF TypeOK
        <4>2. CASE log' = log
          BY Zenon, <3>a, <4>1, <4>2
        <4>3. CASE log' = [log EXCEPT ![m.dst] = lg]
          BY SMTT(30), <3>a, <4>1, <4>3
        <4> QED  BY SMTT(30), <3>a, <4>2, <4>3
      <3>4. \A s \in Server : log'[s] \in Seq(EntryUpTo(CurrentTerm'[s]))
        BY SMTT(30), <3>1, <3>2, <3>3 DEF TermsBounded
      <3> QED  BY ZenonT(30), <1>0, <1>10, <3>4 DEF TermsBounded, handleAppendEntriesRPC
    <2> QED  BY ZenonT(30), <1>10, <2>1, <2>2 DEF handleAppendEntriesRPC
  <1>11. ASSUME NEW t \in Server, Start(t)
         PROVE  TermsBounded'
    <2> DEFINE e == [Term |-> CurrentTerm[t], Command |-> submitted']
    <2>1. e \in EntryUpTo(CurrentTerm[t])
      BY <1>0, <1>1 DEF EntryUpTo, Entry, TypeOK
    <2>2. Append(log[t], e) \in Seq(EntryUpTo(CurrentTerm[t]))
      BY SMTT(30), <2>1 DEF TermsBounded
    <2>3. /\ log'[t] = Append(log[t], e) /\ UNCHANGED CurrentTerm
          /\ \A s \in Server \ {t} : log'[s] = log[s]
      BY Zenon, <1>0, <1>11 DEF Start, TypeOK
    <2> HIDE DEF e
    <2>4. \A s \in Server : log'[s] \in Seq(EntryUpTo(CurrentTerm'[s]))
      BY SMTT(30), <2>2, <2>3 DEF TermsBounded
    <2> QED  BY SMTT(30), <1>0, <1>11, <2>4 DEF TermsBounded, Start
  <1>12. ASSUME NEW s \in Server, NEW t \in Server, NEW heart \in BOOLEAN,
                AppendEntries(s, t, heart)
         PROVE  TermsBounded'
    <2> DEFINE prev == Lesser(LastLogIndex(s), nextIndex[s][t] - 1)
    <2>1. prev + 1 + 1 \in Nat \ {0} /\ Len(log[s]) \in Int
      <3>1. nextIndex[s][t] \in Nat /\ log[s] \in Seq(Entry)
        BY Zenon, <1>0 DEF TypeOK
      <3> QED  BY SMTT(30), <3>1 DEF Lesser, LastLogIndex
    <2>2. SubSeq(log[s], prev + 1 + 1, Len(log[s])) \in Seq(EntryUpTo(CurrentTerm[s]))
      BY SMTT(30), <2>1, SliceFacts DEF TermsBounded
    <2>3. Replication(s, t).Entries = SubSeq(log[s], prev + 1 + 1, Len(log[s]))
          /\ Replication(s, t).LeaderTerm = CurrentTerm[s]
      BY ZenonT(30) DEF Replication, getAppendEntries
    <2>4. Heartbeat(s, t).Entries = << >>
      BY Zenon DEF Heartbeat
    <2>5. \A A : << >> \in Seq(A)
      OBVIOUS
    <2>6. PICK m \in {Heartbeat(s, t), Replication(s, t)} : appendReqs' = appendReqs \cup {m}
      BY Zenon, <1>12 DEF AppendEntries
    <2>7. m.Entries \in Seq(EntryUpTo(m.LeaderTerm))
      BY ZenonT(30), <2>2, <2>3, <2>4, <2>5, <2>6
    <2> QED  BY ZenonT(30), <1>0, <1>12, <2>6, <2>7 DEF TermsBounded, AppendEntries
  <1>13. ASSUME NEW t \in Server, Restart(t)
         PROVE  TermsBounded'
    <2>1. log'[t] = << >> /\ \A s \in Server \ {t} : log'[s] = log[s] /\ CurrentTerm'[s] = CurrentTerm[s]
      <3>1. log \in [Server -> Seq(Entry)] /\ CurrentTerm \in [Server -> Nat]
        BY Zenon, <1>0 DEF TypeOK
      <3>2. log' = [log EXCEPT ![t] = << >>] /\ CurrentTerm' = [CurrentTerm EXCEPT ![t] = 0]
        BY Zenon, <1>13 DEF Restart, readPersist
      <3> QED  BY Zenon, <3>1, <3>2
    <2>2. \A A : << >> \in Seq(A)
      OBVIOUS
    <2>3. \A s \in Server : log'[s] \in Seq(EntryUpTo(CurrentTerm'[s]))
      BY ZenonT(30), <2>1, <2>2 DEF TermsBounded
    <2> QED  BY SMTT(30), <1>0, <1>13, <2>3 DEF TermsBounded, Restart, readPersist
  <1>14. CASE UNCHANGED vars
    BY <1>0, <1>1, <1>3, <1>14 DEF vars
  <1> QED  BY Zenon, <1>4, <1>6, <1>7, <1>8, <1>9, <1>10, <1>11, <1>12, <1>13, <1>14
           DEF Next, Deliver, Operate

\* No node stores an entry of a term it has not reached.
THEOREM NoFuture == Spec => []NoFutureEntries
  <1>1. TermsBounded => NoFutureEntries
    <2> SUFFICES ASSUME TermsBounded, NEW s \in Server, NEW i \in 1..Len(log[s])
                 PROVE  log[s][i].Term <= CurrentTerm[s]
      BY Zenon DEF NoFutureEntries
    <2>1. log[s][i] \in EntryUpTo(CurrentTerm[s])
      BY DEF TermsBounded
    <2> QED  BY Zenon, <2>1 DEF EntryUpTo
  <1> QED  BY <1>1, TermsInit, TermsStep, PTL DEF Spec
=============================================================================
