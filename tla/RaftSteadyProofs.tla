-------------------------- MODULE RaftSteadyProofs --------------------------
(***************************************************************************)
(* Agreement in the steady regime of Raft.tla: no process restarts, one    *)
(* node is electable and no election starts once a command was accepted.   *)
(* Its inductive invariant, the steps that keep it, and what follows.  For *)
(* every cluster size and every bound, logs agree, acknowledgements are    *)
(* truthful, what is committed is on a majority, and no two nodes apply    *)
(* different commands at an index.                                         *)
(***************************************************************************)
EXTENDS RaftProofs

\* Sequence a is an initial part of b.
Within(a, b) == Len(a) <= Len(b) /\ \A i \in 1..Len(a) : a[i] = b[i]

-----------------------------------------------------------------------------
(* The inductive invariant, for the electable node L.                      *)

\* Only L runs for election or leads, and it has no log until it has won.
Leadership(L) ==
    /\ \A s \in Server : (State[s] # "Follower" \/ armed[s]) => s = L
    /\ State[L] = "Candidate" => log[L] = << >>

\* A call carries a segment of L's log that starts inside the receiver's log,
\* and commits nothing behind its own end.
CallSound(L, m) ==
    /\ m.dst # L
    /\ m.heart => m.Entries = << >> /\ m.PrevLogIndex = 0 /\ m.LeaderCommit = 0
    /\ ~m.heart =>
         /\ m.PrevLogIndex < Len(log[m.dst])
         /\ m.PrevLogIndex + 1 + Len(m.Entries) <= Len(log[L])
         /\ \A j \in 1..Len(m.Entries) : m.Entries[j] = log[L][m.PrevLogIndex + 1 + j]
         /\ m.LeaderCommit <= CommitIndex[L]
         /\ m.LeaderCommit >= 1 => m.LeaderCommit < m.PrevLogIndex + 1 + Len(m.Entries)

\* A peer that reports success holds the call's last entry.
AnswerSound(m) ==
    (m.Success /\ ~m.heart) => m.PrevLogIndex + 1 + m.EntriesLen <= Len(log[m.dst])

TrackerSound(L, t) ==
    /\ nextIndex[L][t] <= Len(log[t])
    /\ matchIndex[L][t] >= 1 => matchIndex[L][t] < Len(log[t])

Holders(i) == {t \in Server : Len(log[t]) > i}

CommitSound(L, s) ==
    /\ CommitIndex[s] >= 0 /\ CommitIndex[s] <= CommitIndex[L]
    /\ CommitIndex[s] >= 1 => CommitIndex[s] < Len(log[s])

MajorityHolds(L) ==
    CommitIndex[L] >= 1 => Cardinality(Holders(CommitIndex[L])) > N \div 2

SteadyInv(L) ==
    /\ TypeOK
    /\ Leadership(L)
    /\ \A s \in Server : Within(log[s], log[L])
    /\ \A s \in Server : Within(applied[s], log[s])
    /\ \A m \in appendReqs : CallSound(L, m)
    /\ \A m \in appendReps : AnswerSound(m)
    /\ \A t \in Server : TrackerSound(L, t)
    /\ \A s \in Server : CommitSound(L, s)
    /\ MajorityHolds(L)

-----------------------------------------------------------------------------
(* Sequences.                                                              *)

\* Initial parts: reflexive, transitive, kept by appending to the longer one.
LEMMA WithinReflexive == ASSUME NEW a PROVE Within(a, a)
  BY DEF Within

\* Transitivity of initial parts.
LEMMA WithinTransitive ==
    ASSUME NEW A, NEW a \in Seq(A), NEW b \in Seq(A), NEW c \in Seq(A),
           Within(a, b), Within(b, c)
    PROVE  Within(a, c)
  BY DEF Within

\* Appending to the longer sequence keeps the shorter one an initial part.
LEMMA WithinAppend ==
    ASSUME NEW A, NEW a \in Seq(A), NEW e \in A
    PROVE  Within(a, Append(a, e))
  BY DEF Within

\* An append without entries leaves the log as it is.
LEMMA EmptyCall ==
    ASSUME NEW A, NEW lg \in Seq(A), NEW prev \in Index
    PROVE  AppendOrOverwrite(lg, prev, << >>) = lg
  <1>1. Conflicts(lg, prev, << >>) = {}
    BY DEF Conflicts
  <1>2. SubSeq(<< >>, Greater(Len(lg) - prev - 1, 0) + 1, Len(<< >>)) = << >>
    BY DEF Greater, Index
  <1>3. lg \o << >> = lg
    OBVIOUS
  <1> QED  BY ZenonT(30), <1>1, <1>2, <1>3 DEF AppendOrOverwrite

\* What follows an initial part of big in big extends it along big.
LEMMA ExtendWithin ==
    ASSUME NEW A, NEW p \in Seq(A), NEW q \in Seq(A), NEW big \in Seq(A),
           Within(p, big), Len(p) + Len(q) <= Len(big),
           \A i \in 1..Len(q) : q[i] = big[Len(p) + i]
    PROVE  Within(p, p \o q) /\ Within(p \o q, big)
  <1>1. /\ Len(p \o q) = Len(p) + Len(q) /\ Len(p) \in Nat /\ Len(q) \in Nat
        /\ \A i \in 1..Len(p) : (p \o q)[i] = p[i]
        /\ \A i \in 1..Len(q) : (p \o q)[Len(p) + i] = q[i]
    BY ConcatFacts
  <1>2. Within(p, p \o q)
    BY <1>1 DEF Within
  <1>3. ASSUME NEW i \in 1..Len(p \o q) PROVE (p \o q)[i] = big[i]
    <2>1. CASE i <= Len(p)
      BY <1>1, <2>1 DEF Within
    <2>2. CASE i > Len(p)
      <3>1. PICK j \in 1..Len(q) : i = Len(p) + j
        <4>1. i - Len(p) \in 1..Len(q) /\ i = Len(p) + (i - Len(p))
          BY <1>1, <2>2
        <4> QED  BY ZenonT(30), <4>1
      <3> QED  BY Zenon, <1>1, <3>1
    <2> QED  BY <1>1, <2>1, <2>2
  <1> QED  BY Zenon, <1>1, <1>2, <1>3 DEF Within

\* The end of a segment stays inside a log that grows.
LEMMA EndKept ==
    ASSUME NEW p \in Int, NEW n \in Nat, NEW a \in Nat, NEW b \in Nat, p + 1 + n <= a, a <= b
    PROVE  p + 1 + n <= b
  OBVIOUS

\* What is below the length of a log stays below it while the log grows.
LEMMA BelowKept ==
    ASSUME NEW p \in Int, NEW a \in Nat, NEW b \in Nat, p < a, a <= b
    PROVE  p < b
  OBVIOUS

\* The entries of a segment are inside the log.
LEMMA InsideSegment ==
    ASSUME NEW p \in Int, p >= -1, NEW n \in Nat, NEW a \in Nat, p + 1 + n <= a, NEW j \in 1..n
    PROVE  p + 1 + j \in 1..a
  OBVIOUS

\* A segment of big that starts inside lg, itself an initial part of big,
\* extends lg along big as far as the segment goes.
LEMMA SegmentCall ==
    ASSUME NEW A, NEW lg \in Seq(A), NEW big \in Seq(A), NEW es \in Seq(A),
           NEW prev \in Index, Within(lg, big), prev < Len(lg),
           prev + 1 + Len(es) <= Len(big),
           \A j \in 1..Len(es) : es[j] = big[prev + 1 + j]
    PROVE  /\ Within(lg, AppendOrOverwrite(lg, prev, es))
           /\ Within(AppendOrOverwrite(lg, prev, es), big)
           /\ prev + 1 + Len(es) <= Len(AppendOrOverwrite(lg, prev, es))
  <1> DEFINE k == Len(lg) - prev - 1
             rest == SubSeq(es, k + 1, Len(es))
  <1>1. k \in Nat /\ Len(es) \in Nat /\ Len(lg) \in Nat /\ Len(big) \in Nat
    BY DEF Index
  <1>2. Conflicts(lg, prev, es) = {}
    <2> SUFFICES ASSUME NEW j \in 1..Len(es), prev + 1 + j <= Len(lg)
                 PROVE  lg[prev + 1 + j] = es[j]
      BY DEF Conflicts
    <2>1. prev + 1 + j \in 1..Len(lg)
      BY <1>1 DEF Index
    <2>2. lg[prev + 1 + j] = big[prev + 1 + j]
      BY Zenon, <2>1 DEF Within
    <2> QED  BY Zenon, <2>2
  <1>3. Greater(k, 0) = k
    BY <1>1 DEF Greater
  <1>4. AppendOrOverwrite(lg, prev, es) = lg \o rest
    BY ZenonT(30), <1>2, <1>3 DEF AppendOrOverwrite
  <1>5. /\ rest \in Seq(A)
        /\ Len(rest) = IF k < Len(es) THEN Len(es) - k ELSE 0
        /\ \A i \in 1..Len(rest) : rest[i] = es[k + i]
    <2> HIDE DEF k
    <2>1. k + 1 \in Nat \ {0} /\ Len(es) \in Int /\ Len(es) <= Len(es)
      BY <1>1
    <2>2. /\ rest \in Seq(A) /\ Len(rest) = IF k + 1 <= Len(es) THEN Len(es) - (k + 1) + 1 ELSE 0
          /\ \A i \in 1..(Len(es) - (k + 1) + 1) : rest[i] = es[k + 1 + i - 1]
      BY <2>1, SliceFacts
    <2>3. Len(rest) = IF k < Len(es) THEN Len(es) - k ELSE 0
      BY <1>1, <2>2
    <2> HIDE DEF rest
    <2>4. \A i \in 1..Len(rest) : i \in 1..(Len(es) - (k + 1) + 1) /\ k + 1 + i - 1 = k + i
      BY <1>1, <2>3
    <2> QED  BY Zenon, <2>2, <2>3, <2>4
  <1> HIDE DEF rest
  <1>6. Len(lg) + Len(rest) <= Len(big)
    BY <1>1, <1>5 DEF Within, Index
  <1>7. \A i \in 1..Len(rest) : rest[i] = big[Len(lg) + i]
    BY <1>1, <1>5 DEF Index
  <1>8. Within(lg, lg \o rest) /\ Within(lg \o rest, big)
    BY Zenon, <1>5, <1>6, <1>7, ExtendWithin
  <1>9. Len(lg \o rest) = Len(lg) + Len(rest)
    BY ZenonT(30), <1>5, ConcatFacts
  <1>10. prev + 1 + Len(es) <= Len(lg \o rest)
    BY <1>1, <1>5, <1>9 DEF Index
  <1> QED  BY Zenon, <1>4, <1>8, <1>10

-----------------------------------------------------------------------------
(* What survives when logs only grow.                                      *)

\* Every log keeps its entries.
LogsGrow == \A s \in Server : Within(log[s], log'[s])

\* The types of the per-node state, one by one.
LEMMA FieldTypes ==
    ASSUME TypeOK
    PROVE  /\ State \in [Server -> {"Follower", "Candidate", "Leader"}]
           /\ CurrentTerm \in [Server -> Nat]
           /\ log \in [Server -> Seq(Entry)] /\ applied \in [Server -> Seq(Entry)]
           /\ CommitIndex \in [Server -> Index] /\ armed \in [Server -> BOOLEAN]
           /\ nextIndex \in [Server -> [Server -> Nat]]
           /\ matchIndex \in [Server -> [Server -> Nat]]
  BY Zenon DEF TypeOK

\* The fields of a call in flight.
LEMMA CallType ==
    ASSUME TypeOK, NEW m \in appendReqs
    PROVE  /\ m.src \in Server /\ m.dst \in Server /\ m.heart \in BOOLEAN
           /\ m.PrevLogIndex \in Index /\ m.LeaderCommit \in Index
           /\ m.Entries \in Seq(Entry) /\ Len(m.Entries) \in Nat
  <1>1. m \in AppendReq
    BY Zenon DEF TypeOK
  <1>2. m.src \in Server /\ m.dst \in Server /\ m.heart \in BOOLEAN
    BY Zenon, <1>1 DEF AppendReq
  <1>3. m.PrevLogIndex \in Index /\ m.LeaderCommit \in Index /\ m.Entries \in Seq(Entry)
    BY Zenon, <1>1 DEF AppendReq
  <1> QED  BY <1>2, <1>3

\* The fields of an answer in flight.
LEMMA AnswerType ==
    ASSUME TypeOK, NEW m \in appendReps
    PROVE  /\ m.src \in Server /\ m.dst \in Server /\ m.PrevLogIndex \in Index
           /\ m.EntriesLen \in Nat
  <1>1. m \in AppendRep
    BY Zenon DEF TypeOK
  <1> QED  BY Zenon, <1>1 DEF AppendRep

\* The log of a node, in this and in the next state.
LEMMA LogType ==
    ASSUME TypeOK, NEW s \in Server
    PROVE  log[s] \in Seq(Entry) /\ Len(log[s]) \in Nat
  <1>1. log[s] \in Seq(Entry)
    BY Zenon DEF TypeOK
  <1> QED  BY <1>1

\* The same in the next state.
LEMMA NextLogType ==
    ASSUME TypeOK', NEW s \in Server
    PROVE  log'[s] \in Seq(Entry) /\ Len(log'[s]) \in Nat
  <1>1. log'[s] \in Seq(Entry)
    BY Zenon DEF TypeOK
  <1> QED  BY <1>1

\* What is known of calls, answers and trackers is kept while logs grow.
LEMMA CallKept ==
    ASSUME NEW L \in Server, TypeOK, TypeOK', LogsGrow, CommitIndex'[L] >= CommitIndex[L],
           NEW m \in appendReqs, CallSound(L, m)
    PROVE  CallSound(L, m)'
  <1>1. /\ m.dst \in Server /\ m.PrevLogIndex \in Index /\ m.LeaderCommit \in Index
        /\ m.Entries \in Seq(Entry)
    BY Zenon, CallType
  <1>a. Len(m.Entries) \in Nat
    BY Zenon, CallType
  <1>2. /\ CommitIndex[L] \in Index /\ CommitIndex'[L] \in Index
        /\ \A s \in Server : Len(log[s]) \in Nat /\ Len(log'[s]) \in Nat
    <2>1. CommitIndex[L] \in Index /\ CommitIndex'[L] \in Index
      BY Zenon DEF TypeOK
    <2> QED  BY Zenon, <2>1, LogType, NextLogType
  <1>3. Within(log[L], log'[L]) /\ Within(log[m.dst], log'[m.dst])
    BY Zenon, <1>1 DEF LogsGrow
  <1>4. CASE m.heart
    BY Zenon, <1>4 DEF CallSound
  <1>5. CASE ~m.heart
    <2>1. /\ m.PrevLogIndex < Len(log'[m.dst])
          /\ m.PrevLogIndex + 1 + Len(m.Entries) <= Len(log'[L])
          /\ m.LeaderCommit <= CommitIndex'[L]
      <3>1. Len(log[L]) <= Len(log'[L]) /\ Len(log[m.dst]) <= Len(log'[m.dst])
        BY Zenon, <1>3 DEF Within
      <3>2. /\ m.PrevLogIndex < Len(log[m.dst])
            /\ m.PrevLogIndex + 1 + Len(m.Entries) <= Len(log[L])
            /\ m.LeaderCommit <= CommitIndex[L]
        BY Zenon, <1>5 DEF CallSound
      <3>3. m.PrevLogIndex < Len(log'[m.dst])
        <4>1. m.PrevLogIndex \in Int
          BY Zenon, <1>1 DEF Index
        <4> QED  BY Zenon, <1>1, <1>2, <3>1, <3>2, <4>1, BelowKept
      <3>4. m.PrevLogIndex + 1 + Len(m.Entries) <= Len(log'[L])
        <4>1. m.PrevLogIndex \in Int
          BY Zenon, <1>1 DEF Index
        <4> QED  BY Zenon, <1>a, <1>2, <3>1, <3>2, <4>1, EndKept
      <3>5. m.LeaderCommit <= CommitIndex'[L]
        BY <1>1, <1>2, <3>2 DEF Index
      <3> QED  BY Zenon, <3>3, <3>4, <3>5
    <2>2. \A j \in 1..Len(m.Entries) : m.Entries[j] = log'[L][m.PrevLogIndex + 1 + j]
      <3> TAKE j \in 1..Len(m.Entries)
      <3>1. m.PrevLogIndex + 1 + j \in 1..Len(log[L])
        <4>1. m.PrevLogIndex \in Int /\ m.PrevLogIndex >= -1
          BY Zenon, <1>1 DEF Index
        <4>2. m.PrevLogIndex + 1 + Len(m.Entries) <= Len(log[L])
          BY Zenon, <1>5 DEF CallSound
        <4> QED  BY Zenon, <1>a, <1>2, <4>1, <4>2, InsideSegment
      <3>2. log'[L][m.PrevLogIndex + 1 + j] = log[L][m.PrevLogIndex + 1 + j]
        BY Zenon, <1>3, <3>1 DEF Within
      <3> QED  BY Zenon, <1>5, <3>2 DEF CallSound
    <2> QED  BY Zenon, <1>5, <2>1, <2>2 DEF CallSound
  <1> QED  BY Zenon, <1>4, <1>5

\* What an answer reports stays true while logs grow.
LEMMA AnswerKept ==
    ASSUME TypeOK, TypeOK', LogsGrow, NEW m \in appendReps, AnswerSound(m)
    PROVE  AnswerSound(m)'
  <1>1. m.dst \in Server /\ m.PrevLogIndex \in Index /\ m.EntriesLen \in Nat
    BY Zenon, AnswerType
  <1>2. Len(log[m.dst]) <= Len(log'[m.dst])
    BY Zenon, <1>1 DEF LogsGrow, Within
  <1>3. Len(log[m.dst]) \in Nat /\ Len(log'[m.dst]) \in Nat
    BY Zenon, <1>1, LogType, NextLogType
  <1>4. m.PrevLogIndex \in Int
    BY Zenon, <1>1 DEF Index
  <1> QED  BY Zenon, <1>1, <1>2, <1>3, <1>4, EndKept DEF AnswerSound

\* Trackers stay truthful while logs grow.
LEMMA TrackerKept ==
    ASSUME NEW L \in Server, TypeOK, TypeOK', LogsGrow, NEW t \in Server, TrackerSound(L, t),
           nextIndex'[L][t] = nextIndex[L][t], matchIndex'[L][t] = matchIndex[L][t]
    PROVE  TrackerSound(L, t)'
  <1>1. nextIndex[L][t] \in Nat /\ matchIndex[L][t] \in Nat
    BY DEF TypeOK
  <1>2. Len(log[t]) \in Nat /\ Len(log'[t]) \in Nat
    BY Zenon, LogType, NextLogType
  <1>3. Len(log[t]) <= Len(log'[t])
    BY Zenon DEF LogsGrow, Within
  <1> QED  BY <1>1, <1>2, <1>3 DEF TrackerSound

\* Growing logs do not take an index away from its majority.
LEMMA MajorityKept ==
    ASSUME TypeOK, TypeOK', LogsGrow, NEW i \in Nat, NEW j \in Nat, j <= i,
           Cardinality(Holders(i)) > N \div 2
    PROVE  Cardinality(Holders(j)') > N \div 2
  <1>1. Holders(i) \subseteq Holders(j)'
    BY DEF LogsGrow, Within, Holders, TypeOK
  <1>2. IsFiniteSet(Holders(i)) /\ IsFiniteSet(Holders(j)')
    <2>1. IsFiniteSet(Server)
      BY RaftConstants, FS_Interval DEF Server
    <2>2. Holders(i) \subseteq Server /\ Holders(j)' \subseteq Server
      BY Zenon DEF Holders
    <2> QED  BY Zenon, <2>1, <2>2, FS_Subset
  <1>3. Cardinality(Holders(i)) <= Cardinality(Holders(j)')
    BY Zenon, <1>1, <1>2, FS_Subset
  <1>4. Cardinality(Holders(i)) \in Nat /\ Cardinality(Holders(j)') \in Nat
    BY Zenon, <1>2, FS_CardinalityType
  <1>5. N \div 2 \in Nat
    BY RaftConstants
  <1> QED  BY <1>3, <1>4, <1>5

-----------------------------------------------------------------------------
(* The invariant is inductive.                                             *)

\* The invariant holds at first.
LEMMA SteadyInit ==
    ASSUME NEW L \in Server
    PROVE  Init => SteadyInv(L)
  <1> SUFFICES ASSUME Init PROVE SteadyInv(L)
    BY Zenon
  <1>1. TypeOK
    BY Zenon, TypeInit
  <1>2. Leadership(L)
    BY Zenon DEF Init, Leadership
  <1>3. /\ \A s \in Server : Within(log[s], log[L])
        /\ \A s \in Server : Within(applied[s], log[s])
    BY DEF Init, Within
  <1>4. \A t \in Server : TrackerSound(L, t) /\ CommitSound(L, t)
    BY DEF Init, TrackerSound, CommitSound
  <1> QED  BY <1>1, <1>2, <1>3, <1>4 DEF Init, SteadyInv, MajorityHolds

\* Steps that touch neither logs, trackers nor commit indexes, and send no
\* append and no acknowledgement.
LEMMA SteadyFrame ==
    ASSUME NEW L \in Server, SteadyInv(L), TypeOK', Leadership(L)',
           UNCHANGED <<log, applied, CommitIndex, nextIndex, matchIndex>>,
           appendReqs' \subseteq appendReqs,
           \A m \in appendReps' : m \in appendReps \/ ~m.Success
    PROVE  SteadyInv(L)'
  <1>1. TypeOK /\ LogsGrow
    BY Zenon, WithinReflexive DEF SteadyInv, LogsGrow
  <1>2. CommitIndex'[L] >= CommitIndex[L]
    BY <1>1 DEF TypeOK, Index
  <1>3. \A m \in appendReqs' : CallSound(L, m)'
    BY Zenon, <1>1, <1>2, CallKept DEF SteadyInv
  <1>4. \A m \in appendReps' : AnswerSound(m)'
    BY Zenon, <1>1, AnswerKept DEF SteadyInv, AnswerSound
  <1>5. \A t \in Server : TrackerSound(L, t)' /\ CommitSound(L, t)'
    BY Zenon DEF SteadyInv, TrackerSound, CommitSound
  <1>6. MajorityHolds(L)'
    BY Zenon DEF SteadyInv, MajorityHolds, Holders
  <1> QED  BY Zenon, <1>3, <1>4, <1>5, <1>6 DEF SteadyInv

-----------------------------------------------------------------------------
(* Calls, answers, commitment and the hand-over.                           *)

\* A commit index that stays, or is raised, is no smaller afterwards.
LEMMA NoSmaller ==
    ASSUME NEW f \in [Server -> Index]
    PROVE  /\ \A s \in Server : f[s] >= f[s]
           /\ \A g, d : g[d] >= f[d] /\ (\A s \in Server \ {d} : g[s] = f[s])
                         => \A s \in Server : g[s] >= f[s]
  BY DEF Index

\* The entries behind index p that reach to the end of a log of length k.
LEMMA RestOfLog ==
    ASSUME NEW p \in Int, NEW k \in Int
    PROVE  p + 1 + (k - p - 1) = k
  OBVIOUS

\* A call that the leader makes is sound.
LEMMA SteadySend ==
    ASSUME NEW L \in Server, SteadyInv(L), TypeOK', NEW s \in Server, NEW t \in Server,
           NEW heart \in BOOLEAN, AppendEntries(s, t, heart)
    PROVE  SteadyInv(L)'
  <1> USE DEF electionVars, trackerVars, applyVars, processVars, voteMsgs, appendMsgs
  <1>0. TypeOK /\ Leadership(L)
    BY Zenon DEF SteadyInv
  <1>1. s = L /\ t # L
    BY Zenon, <1>0 DEF Leadership, AppendEntries
  <1>2. PICK m \in {Heartbeat(L, t), Replication(L, t)} : appendReqs' = appendReqs \cup {m}
    BY Zenon, <1>1 DEF AppendEntries
  <1>3. CallSound(L, m)
    <2>1. CASE m = Heartbeat(L, t)
      BY Zenon, <1>1, <2>1 DEF Heartbeat, CallSound
    <2>2. CASE m = Replication(L, t)
      <3> DEFINE prev == Lesser(LastLogIndex(L), nextIndex[L][t] - 1)
      <3>1. /\ m.dst = t /\ m.heart = FALSE /\ m.PrevLogIndex = prev
            /\ m.Entries = SubSeq(log[L], prev + 1 + 1, Len(log[L]))
            /\ m.LeaderCommit = CommitIndex[L]
        BY ZenonT(30), <2>2 DEF Replication, getAppendEntries
      <3>2. nextIndex[L][t] \in Nat /\ nextIndex[L][t] <= Len(log[t])
        BY Zenon, <1>0, FieldTypes DEF SteadyInv, TrackerSound
      <3>3. log[L] \in Seq(Entry) /\ Len(log[L]) \in Nat /\ Len(log[t]) \in Nat
        BY Zenon, <1>0, LogType
      <3>4. /\ prev \in Int /\ prev >= -1 /\ prev < Len(log[t])
            /\ prev <= Len(log[L]) - 1
        BY <3>2, <3>3 DEF Lesser, LastLogIndex
      <3> HIDE DEF prev
      <3>5. /\ Len(m.Entries) = Len(log[L]) - prev - 1
            /\ \A j \in 1..Len(m.Entries) : m.Entries[j] = log[L][prev + 1 + j]
        BY <3>1, <3>3, <3>4
      <3>6. /\ CommitIndex[L] \in Index
            /\ CommitIndex[L] >= 1 => CommitIndex[L] < Len(log[L])
        BY Zenon, <1>0, FieldTypes DEF SteadyInv, CommitSound
      <3>a. prev + 1 + Len(m.Entries) = Len(log[L])
        <4>1. prev \in Int /\ Len(log[L]) \in Int /\ Len(m.Entries) = Len(log[L]) - prev - 1
          BY <3>3, <3>4, <3>5
        <4>2. prev + 1 + (Len(log[L]) - prev - 1) = Len(log[L])
          BY Zenon, <4>1, RestOfLog
        <4> QED  BY Zenon, <4>1, <4>2
      <3>b. CommitIndex[L] <= CommitIndex[L]
        BY <3>6 DEF Index
      <3>7. /\ prev + 1 + Len(m.Entries) <= Len(log[L])
            /\ CommitIndex[L] <= CommitIndex[L]
            /\ CommitIndex[L] >= 1 => CommitIndex[L] < prev + 1 + Len(m.Entries)
        BY <3>3, <3>6, <3>a, <3>b
      <3> QED  BY ZenonT(30), <1>1, <3>1, <3>4, <3>5, <3>7 DEF CallSound
    <2> QED  BY Zenon, <1>2, <2>1, <2>2
  <1>4. UNCHANGED <<State, armed, log, applied, CommitIndex, nextIndex, matchIndex, appendReps>>
    BY Zenon DEF AppendEntries
  <1>5. \A q \in appendReqs' : CallSound(L, q)'
    BY Zenon, <1>2, <1>3, <1>4 DEF SteadyInv, CallSound
  <1>6. /\ \A q \in appendReps' : AnswerSound(q)'
        /\ \A q \in Server : TrackerSound(L, q)' /\ CommitSound(L, q)'
    BY Zenon, <1>4 DEF SteadyInv, AnswerSound, TrackerSound, CommitSound
  <1>7. MajorityHolds(L)' /\ Leadership(L)'
    BY Zenon, <1>4 DEF SteadyInv, MajorityHolds, Leadership, Holders
  <1> QED  BY Zenon, <1>4, <1>5, <1>6, <1>7 DEF SteadyInv

\* p is the part of the log q from a to b.
Slice(q, a, b, p) ==
    /\ p \in Seq(Entry)
    /\ Len(p) = IF a <= b THEN b - a + 1 ELSE 0
    /\ \A i \in 1..(b - a + 1) : p[i] = q[a + i - 1]

\* SubSeq, of a log.
LEMMA LogSlice ==
    ASSUME NEW q \in Seq(Entry), NEW a \in Nat \ {0}, NEW b \in Int, b <= Len(q)
    PROVE  Slice(q, a, b, SubSeq(q, a, b))
  <1>1. SubSeq(q, a, b) \in Seq(Entry)
    BY Zenon, SliceFacts
  <1>2. Len(SubSeq(q, a, b)) = IF a <= b THEN b - a + 1 ELSE 0
    BY SliceFacts
  <1>3. \A i \in 1..(b - a + 1) : SubSeq(q, a, b)[i] = q[a + i - 1]
    BY Zenon, SliceFacts
  <1> QED  BY Zenon, <1>1, <1>2, <1>3 DEF Slice

\* The applier hands over entries of the node's own log.
LEMMA SteadyApply ==
    ASSUME NEW L \in Server, SteadyInv(L), TypeOK', NEW s \in Server, sendMsgToTester(s)
    PROVE  SteadyInv(L)'
  <1> USE DEF electionVars, trackerVars, applyVars, processVars, voteMsgs, appendMsgs
  <1>0. TypeOK
    BY Zenon DEF SteadyInv
  <1> DEFINE q == newlyCommitted(s)
             n == Len(applied[s])
             b == Lesser(CommitIndex[s] + 1, Len(log[s]))
  <1>1. applied[s] \in Seq(Entry) /\ log[s] \in Seq(Entry) /\ CommitIndex[s] \in Index
    BY Zenon, <1>0, FieldTypes
  <1>2. b \in Int /\ b <= Len(log[s]) /\ n \in Nat /\ n + 1 \in Nat \ {0} /\ Len(log[s]) \in Nat
    BY <1>1 DEF Lesser, Index
  <1>3. q = SubSeq(log[s], n + 1, b)
    BY Zenon DEF newlyCommitted
  <1>5. Within(applied[s], log[s]) /\ n <= Len(log[s])
    BY Zenon DEF SteadyInv, Within
  <1> HIDE DEF q, b, n
  <1>4. /\ q \in Seq(Entry)
        /\ Len(q) = IF n + 1 <= b THEN b - (n + 1) + 1 ELSE 0
        /\ \A i \in 1..(b - (n + 1) + 1) : q[i] = log[s][(n + 1) + i - 1]
    <2>1. PICK a \in Nat \ {0} : a = n + 1
      BY Zenon, <1>2
    <2>2. Slice(log[s], a, b, SubSeq(log[s], a, b))
      BY Zenon, <1>1, <1>2, LogSlice
    <2> QED  BY Zenon, <1>3, <2>1, <2>2 DEF Slice
  <1>6. n + Len(q) <= Len(log[s])
    BY <1>2, <1>4, <1>5
  <1>7. \A i \in 1..Len(q) : q[i] = log[s][n + i]
    <2> TAKE i \in 1..Len(q)
    <2>1. i \in 1..(b - (n + 1) + 1)
      BY <1>2, <1>4
    <2>2. (n + 1) + i - 1 = n + i
      BY <1>2, <2>1
    <2> QED  BY Zenon, <1>4, <2>1, <2>2
  <1>8. Within(applied[s] \o q, log[s])
    BY ZenonT(30), <1>1, <1>4, <1>5, <1>6, <1>7, ExtendWithin DEF n
  <1>9. applied' = [applied EXCEPT ![s] = @ \o q]
    BY Zenon DEF sendMsgToTester, q
  <1>10. UNCHANGED <<State, armed, log, CommitIndex, nextIndex, matchIndex, appendReqs, appendReps>>
    BY Zenon DEF sendMsgToTester
  <1>11. \A t \in Server : Within(applied'[t], log'[t])
    BY ZenonT(30), <1>0, <1>8, <1>9, <1>10, FieldTypes DEF SteadyInv
  <1>12. /\ \A m \in appendReqs' : CallSound(L, m)'
         /\ \A m \in appendReps' : AnswerSound(m)'
         /\ \A t \in Server : TrackerSound(L, t)' /\ CommitSound(L, t)'
    BY Zenon, <1>10 DEF SteadyInv, CallSound, AnswerSound, TrackerSound, CommitSound
  <1>13. MajorityHolds(L)' /\ Leadership(L)'
    BY Zenon, <1>10 DEF SteadyInv, MajorityHolds, Leadership, Holders
  <1> QED  BY Zenon, <1>10, <1>11, <1>12, <1>13 DEF SteadyInv

\* A successful acknowledgement moves the trackers to what the peer holds, and
\* what tryCommitL counts are holders.
LEMMA SteadyCommit ==
    ASSUME NEW L \in Server, SteadyInv(L), TypeOK', NEW i \in Index, NEW match \in [Server -> Nat],
           \A t \in Server : match[t] >= 1 => match[t] < Len(log[t]),
           UNCHANGED log, tryCommitL(L, i, match)
    PROVE  /\ \A t \in Server : CommitSound(L, t)'
           /\ MajorityHolds(L)' /\ CommitIndex'[L] >= CommitIndex[L]
  <1>0. TypeOK
    BY Zenon DEF SteadyInv
  <1>1. \A t \in Server : CommitIndex[t] \in Index /\ CommitSound(L, t)
    BY Zenon, <1>0, FieldTypes DEF SteadyInv
  <1>2. CASE CanCommit(L, i, match)
    <2>1. /\ i >= CommitIndex[L] /\ i \in 0..(Len(log[L]) - 1)
          /\ Cardinality(Replicas(L, i, match)) > N \div 2
      BY Zenon, <1>2 DEF CanCommit, LastLogIndex
    <2>2. CommitIndex'[L] = i /\ \A t \in Server \ {L} : CommitIndex'[t] = CommitIndex[t]
      BY <1>0, <1>2 DEF tryCommitL, TypeOK
    <2>3. \A t \in Server : Len(log[t]) \in Nat
      BY Zenon, <1>0, LogType
    <2>4. \A t \in Server : CommitSound(L, t)'
      BY <1>1, <2>1, <2>2, <2>3 DEF CommitSound, Index
    <2>5. i >= 1 => Cardinality(Holders(i)) > N \div 2
      <3> SUFFICES ASSUME i >= 1 PROVE Cardinality(Holders(i)) > N \div 2
        BY Zenon
      <3>1. Replicas(L, i, match) \subseteq Holders(i)
        BY <2>1, <2>3 DEF Replicas, Holders, Index
      <3>2. IsFiniteSet(Server)
        BY RaftConstants, FS_Interval DEF Server
      <3>3. Replicas(L, i, match) \subseteq Server /\ Holders(i) \subseteq Server
        BY Zenon DEF Replicas, Holders
      <3>4. IsFiniteSet(Replicas(L, i, match)) /\ IsFiniteSet(Holders(i))
        BY Zenon, <3>2, <3>3, FS_Subset
      <3>5. Cardinality(Replicas(L, i, match)) <= Cardinality(Holders(i))
        BY Zenon, <3>1, <3>4, FS_Subset
      <3>6. Cardinality(Replicas(L, i, match)) \in Nat /\ Cardinality(Holders(i)) \in Nat
        BY Zenon, <3>4, FS_CardinalityType
      <3>7. N \div 2 \in Nat
        BY RaftConstants
      <3> QED  BY <2>1, <3>5, <3>6, <3>7
    <2>6. MajorityHolds(L)'
      BY Zenon, <2>2, <2>5 DEF MajorityHolds, Holders
    <2> QED  BY Zenon, <1>1, <2>1, <2>2, <2>4, <2>6 DEF Index
  <1>3. CASE ~CanCommit(L, i, match)
    <2>1. UNCHANGED <<CommitIndex, log>>
      BY Zenon, <1>3 DEF tryCommitL
    <2>2. CommitIndex'[L] >= CommitIndex[L]
      BY <1>1, <2>1 DEF Index
    <2> QED  BY Zenon, <2>1, <2>2 DEF SteadyInv, CommitSound, MajorityHolds, Holders
  <1> QED  BY Zenon, <1>2, <1>3

\* An answer moves the tracker and the commit index to where the logs allow.
LEMMA SteadyAnswered ==
    ASSUME NEW L \in Server, SteadyInv(L), TypeOK', NEW m \in appendReps, AppendReplied(m)
    PROVE  SteadyInv(L)'
  <1> USE DEF electionVars, trackerVars, applyVars, processVars, voteMsgs, appendMsgs
  <1>0. TypeOK /\ Leadership(L)
    BY Zenon DEF SteadyInv
  <1>1. /\ m.src \in Server /\ m.dst \in Server /\ m.PrevLogIndex \in Index
        /\ m.EntriesLen \in Nat
    BY Zenon, <1>0, AnswerType
  <1>2. m.src = L /\ State[L] = "Leader"
    BY Zenon, <1>0, <1>1 DEF AppendReplied, Leadership
  <1>3. UNCHANGED <<log, applied, armed, appendReqs, appendReps>>
    BY Zenon DEF AppendReplied
  <1>4. State' = State \/ State' = [State EXCEPT ![L] = "Follower"]
    BY Zenon, <1>2 DEF AppendReplied, StepDown
  <1>5. Leadership(L)'
    BY Zenon, <1>0, <1>2, <1>3, <1>4, FieldTypes DEF Leadership
  <1>6. LogsGrow /\ \A t \in Server : log'[t] = log[t] /\ Len(log[t]) \in Nat
    BY Zenon, <1>0, <1>3, LogType, WithinReflexive DEF LogsGrow
  <1>7. \A t \in Server : nextIndex[L][t] \in Nat /\ matchIndex[L][t] \in Nat /\ TrackerSound(L, t)
    BY Zenon, <1>0, FieldTypes DEF SteadyInv
  <1>8. CASE UNCHANGED <<trackerVars, CommitIndex>>
    BY Zenon, <1>3, <1>5, <1>8, SteadyFrame
  <1>9. CASE m.FollowerTerm = CurrentTerm[L] /\ ~m.heart
              /\ (EntriesAcked(L, m) \/ ProbeAcked(L, m) \/ BackUp(L, m))
    <2>1. /\ \A t \in Server : TrackerSound(L, t)' /\ CommitSound(L, t)'
          /\ MajorityHolds(L)' /\ CommitIndex'[L] >= CommitIndex[L]
      <3>1. CASE EntriesAcked(L, m)
        <4> DEFINE i == m.PrevLogIndex + m.EntriesLen
                   match == [matchIndex[L] EXCEPT ![m.dst] = i]
        <4>1. m.Success /\ m.EntriesLen > 0
          BY Zenon, <3>1 DEF EntriesAcked
        <4>2. i + 1 <= Len(log[m.dst])
          BY SMTT(30), <1>1, <1>6, <1>9, <4>1 DEF SteadyInv, AnswerSound, Index
        <4>3. i \in Nat
          BY <1>1, <4>1 DEF Index
        <4>4. /\ matchIndex' = [matchIndex EXCEPT ![L] = match]
              /\ nextIndex' = [nextIndex EXCEPT ![L] = [nextIndex[L] EXCEPT ![m.dst] = i + 1]]
              /\ tryCommitL(L, i, match)
          BY Zenon, <1>0, <3>1, FieldTypes DEF EntriesAcked
        <4> HIDE DEF i
        <4>5. /\ match \in [Server -> Nat]
              /\ \A t \in Server : match[t] = IF t = m.dst THEN i ELSE matchIndex[L][t]
          BY ZenonT(30), <1>0, <1>1, <4>3, FieldTypes
        <4>6. \A t \in Server : match[t] >= 1 => match[t] < Len(log[t])
          BY <1>6, <1>7, <4>2, <4>3, <4>5 DEF TrackerSound
        <4> HIDE DEF match
        <4>7. /\ matchIndex'[L] = match
              /\ \A t \in Server : nextIndex'[L][t] = IF t = m.dst THEN i + 1 ELSE nextIndex[L][t]
          BY ZenonT(30), <1>0, <1>1, <4>4, FieldTypes
        <4>8. \A t \in Server : TrackerSound(L, t)'
          BY Zenon, <1>6, <1>7, <4>2, <4>3, <4>6, <4>7 DEF TrackerSound
        <4>9. i \in Index
          BY <4>3 DEF Index
        <4> QED  BY Zenon, <1>3, <4>4, <4>5, <4>6, <4>8, <4>9, SteadyCommit
      <3>2. CASE ProbeAcked(L, m) \/ BackUp(L, m)
        <4>1. UNCHANGED <<CommitIndex, matchIndex, log>>
          BY Zenon, <1>3, <3>2 DEF ProbeAcked, BackUp
        <4>2. CommitIndex'[L] >= CommitIndex[L]
          <5>1. CommitIndex[L] \in Index
            BY Zenon, <1>0, FieldTypes
          <5> QED  BY <4>1, <5>1 DEF Index
        <4>3. \A t \in Server : nextIndex'[L][t] <= Len(log[t])
          <5>1. \A t \in Server : nextIndex[L][t] \in Nat /\ nextIndex[L][t] <= Len(log[t])
            BY Zenon, <1>7 DEF TrackerSound
          <5>2. CASE ProbeAcked(L, m)
            <6> DEFINE v == Greater(nextIndex[L][m.dst], m.PrevLogIndex + 1)
            <6>1. m.PrevLogIndex + 1 <= Len(log[m.dst])
              <7>1. m.Success /\ m.EntriesLen = 0
                BY Zenon, <5>2 DEF ProbeAcked
              <7>2. m.PrevLogIndex + 1 + m.EntriesLen <= Len(log[m.dst])
                BY Zenon, <1>9, <7>1 DEF SteadyInv, AnswerSound
              <7> QED  BY <1>1, <7>1, <7>2 DEF Index
            <6>2. v <= Len(log[m.dst])
              BY Zenon, <1>1, <5>1, <6>1 DEF Greater
            <6>3. nextIndex' = [nextIndex EXCEPT ![L] = [nextIndex[L] EXCEPT ![m.dst] = v]]
              BY Zenon, <1>0, <5>2, FieldTypes DEF ProbeAcked
            <6> HIDE DEF v
            <6>4. \A t \in Server : nextIndex'[L][t] = IF t = m.dst THEN v ELSE nextIndex[L][t]
              BY ZenonT(30), <1>0, <1>1, <6>3, FieldTypes
            <6> QED  BY Zenon, <5>1, <6>2, <6>4
          <5>3. CASE BackUp(L, m)
            <6>1. PICK v \in {0, nextIndex[L][m.dst]} :
                     nextIndex' = [nextIndex EXCEPT ![L] = [nextIndex[L] EXCEPT ![m.dst] = v]]
              BY ZenonT(30), <1>0, <5>3, FieldTypes DEF BackUp
            <6>2. v <= Len(log[m.dst])
              BY <1>1, <1>6, <5>1, <6>1
            <6>3. \A t \in Server : nextIndex'[L][t] = IF t = m.dst THEN v ELSE nextIndex[L][t]
              BY ZenonT(30), <1>0, <1>1, <6>1, FieldTypes
            <6> QED  BY Zenon, <5>1, <6>2, <6>3
          <5> QED  BY Zenon, <3>2, <5>2, <5>3
        <4>4. \A t \in Server : TrackerSound(L, t)'
          BY Zenon, <1>6, <1>7, <4>1, <4>3 DEF TrackerSound
        <4> QED  BY Zenon, <4>1, <4>2, <4>4 DEF SteadyInv, CommitSound, MajorityHolds, Holders
      <3> QED  BY Zenon, <1>9, <3>1, <3>2
    <2>2. \A q \in appendReqs' : CallSound(L, q)'
      <3>1. appendReqs' = appendReqs /\ \A q \in appendReqs : CallSound(L, q)
        BY Zenon, <1>3 DEF SteadyInv
      <3>2. CommitIndex'[L] >= CommitIndex[L]
        BY Zenon, <2>1
      <3> QED  BY Zenon, <1>0, <1>6, <3>1, <3>2, CallKept
    <2>3. \A q \in appendReps' : AnswerSound(q)'
      BY Zenon, <1>0, <1>3, <1>6, AnswerKept DEF SteadyInv
    <2> QED  BY Zenon, <1>3, <1>5, <2>1, <2>2, <2>3 DEF SteadyInv
  <1> QED  BY Zenon, <1>2, <1>8, <1>9 DEF AppendReplied

-----------------------------------------------------------------------------
(* Elections, shutdowns, commands, and the peer that takes an append call. *)

\* Elections and shutdowns leave logs, calls and trackers alone.
LEMMA SteadyElections ==
    ASSUME NEW L \in Server, Electable = {L}, SteadyInv(L), TypeOK', NEW s \in Server,
           \/ ElectionTimeout(s) \/ (NoCommandYet /\ StartElection(s))
           \/ Kill(s) \/ KillLocked(s)
    PROVE  SteadyInv(L)'
  <1> USE DEF electionVars, trackerVars, applyVars, processVars, voteMsgs, appendMsgs
  <1>0. TypeOK /\ Leadership(L)
    BY Zenon DEF SteadyInv
  <1>1. CASE ElectionTimeout(s)
    <2>1. Leadership(L)'
      BY Zenon, <1>0, <1>1 DEF ElectionTimeout, Leadership, TypeOK
    <2> QED  BY Zenon, <1>1, <2>1, SteadyFrame DEF ElectionTimeout
  <1>2. CASE NoCommandYet /\ StartElection(s)
    <2>1. s = L
      BY Zenon, <1>0, <1>2 DEF Leadership, StartElection
    <2>2. Leadership(L)'
      <3>1. /\ armed' = [armed EXCEPT ![s] = FALSE] /\ State' = [State EXCEPT ![s] = "Candidate"]
            /\ UNCHANGED log
        BY Zenon, <1>2 DEF StartElection
      <3>2. \A t \in Server : t # L => armed'[t] = armed[t] /\ State'[t] = State[t]
        BY <1>0, <2>1, <3>1 DEF TypeOK
      <3>3. log'[L] = << >>
        BY Zenon, <1>2, <3>1 DEF NoCommandYet
      <3> QED  BY Zenon, <1>0, <3>2, <3>3 DEF Leadership
    <2> QED  BY Zenon, <1>2, <2>2, SteadyFrame DEF StartElection
  <1>3. CASE Kill(s)
    <2>1. Leadership(L)'
      BY Zenon, <1>0, <1>3 DEF Kill, Leadership
    <2> QED  BY Zenon, <1>3, <2>1, SteadyFrame DEF Kill
  <1>4. CASE KillLocked(s)
    <2>1. Leadership(L)'
      BY Zenon, <1>0, <1>4, FieldTypes DEF KillLocked, Leadership
    <2> QED  BY Zenon, <1>4, <2>1, SteadyFrame DEF KillLocked
  <1> QED  BY Zenon, <1>1, <1>2, <1>3, <1>4

\* Votes make no other node than L a leader, and only while its log is empty.
LEMMA SteadyVotes ==
    ASSUME NEW L \in Server, SteadyInv(L), TypeOK',
           \/ \E m \in voteReqs : RequestVote(m)
           \/ \E m \in voteReps : VoteReplied(m)
    PROVE  SteadyInv(L)'
  <1> USE DEF electionVars, trackerVars, applyVars, processVars, voteMsgs, appendMsgs
  <1>0. TypeOK /\ Leadership(L)
    BY Zenon DEF SteadyInv
  <1>1. ASSUME NEW m \in voteReqs, RequestVote(m) PROVE SteadyInv(L)'
    <2>1. Leadership(L)'
      BY Zenon, <1>0, <1>1 DEF RequestVote, Leadership
    <2> QED  BY Zenon, <1>1, <2>1, SteadyFrame DEF RequestVote
  <1>2. ASSUME NEW m \in voteReps, VoteReplied(m) PROVE SteadyInv(L)'
    <2>1. m.src \in Server
      BY Zenon, <1>0 DEF TypeOK, VoteRep
    <2>2. m.src = L /\ log[L] = << >>
      BY Zenon, <1>0, <1>2, <2>1 DEF VoteReplied, ElectionIsOpen, Leadership
    <2>3. /\ UNCHANGED <<log, CommitIndex, applied, armed, appendReqs, appendReps>>
          /\ \/ State' = [State EXCEPT ![L] = "Follower"] /\ UNCHANGED trackerVars
             \/ becomeLeader(L)
             \/ UNCHANGED <<State, trackerVars>>
      BY Zenon, <1>2, <2>2 DEF VoteReplied, StepDown
    <2>4. Leadership(L)'
      BY Zenon, <1>0, <2>2, <2>3, FieldTypes DEF Leadership, becomeLeader
    <2>5. CASE UNCHANGED trackerVars
      BY Zenon, <2>3, <2>4, <2>5, SteadyFrame
    <2>6. CASE becomeLeader(L)
      <3>1. \A t \in Server : nextIndex'[L][t] = 0 /\ matchIndex'[L][t] = 0
        BY <1>0, <2>2, <2>6 DEF becomeLeader, resetTrackedIndex, LastLogIndex, TypeOK
      <3>2. \A t \in Server : TrackerSound(L, t)'
        BY <3>1, NextLogType DEF TrackerSound
      <3>3. /\ \A q \in appendReqs' : CallSound(L, q)'
            /\ \A q \in appendReps' : AnswerSound(q)'
            /\ \A t \in Server : CommitSound(L, t)'
        BY Zenon, <2>3 DEF SteadyInv, CallSound, AnswerSound, CommitSound
      <3>4. MajorityHolds(L)'
        BY Zenon, <2>3 DEF SteadyInv, MajorityHolds, Holders
      <3> QED  BY Zenon, <2>3, <2>4, <3>2, <3>3, <3>4 DEF SteadyInv
    <2> QED  BY Zenon, <2>3, <2>5, <2>6
  <1> QED  BY Zenon, <1>1, <1>2

\* Start appends to the leader's log, of which all others stay initial parts.
LEMMA SteadyStart ==
    ASSUME NEW L \in Server, SteadyInv(L), TypeOK', NEW s \in Server, Start(s)
    PROVE  SteadyInv(L)'
  <1> USE DEF electionVars, trackerVars, applyVars, processVars, voteMsgs, appendMsgs
  <1>0. TypeOK /\ Leadership(L)
    BY Zenon DEF SteadyInv
  <1>1. s = L
    BY Zenon, <1>0 DEF Leadership, Start
  <1> DEFINE e == [Term |-> CurrentTerm[L], Command |-> submitted']
  <1>2. e \in Entry
    BY Zenon, <1>0 DEF Entry, TypeOK, Start
  <1>3. log'[L] = Append(log[L], e) /\ \A t \in Server \ {L} : log'[t] = log[t]
    BY Zenon, <1>0, <1>1 DEF Start, TypeOK
  <1> HIDE DEF e
  <1>4. Within(log[L], log'[L])
    BY Zenon, <1>0, <1>2, <1>3, WithinAppend, LogType
  <1>5. LogsGrow
    BY ZenonT(30), <1>3, <1>4, WithinReflexive DEF LogsGrow
  <1>6. \A t \in Server : Within(log'[t], log'[L])
    <2> TAKE t \in Server
    <2>1. CASE t = L
      BY Zenon, <2>1, WithinReflexive
    <2>2. CASE t # L
      <3>1. Within(log[t], log[L]) /\ log'[t] = log[t]
        BY Zenon, <1>3, <2>2 DEF SteadyInv
      <3>2. log[t] \in Seq(Entry) /\ log[L] \in Seq(Entry) /\ log'[L] \in Seq(Entry)
        BY Zenon, <1>0, LogType, NextLogType
      <3> QED  BY Zenon, <1>4, <3>1, <3>2, WithinTransitive
    <2> QED  BY Zenon, <2>1, <2>2
  <1>7. \A t \in Server : Within(applied'[t], log'[t])
    <2> TAKE t \in Server
    <2>1. Within(applied[t], log[t]) /\ Within(log[t], log'[t]) /\ applied' = applied
      BY Zenon, <1>5 DEF SteadyInv, LogsGrow, Start
    <2>2. applied[t] \in Seq(Entry) /\ log[t] \in Seq(Entry) /\ log'[t] \in Seq(Entry)
      BY Zenon, <1>0, LogType, NextLogType DEF TypeOK
    <2> QED  BY Zenon, <2>1, <2>2, WithinTransitive
  <1>8. UNCHANGED <<CommitIndex, nextIndex, matchIndex, appendReqs, appendReps, State, armed>>
    BY Zenon DEF Start
  <1>9. CommitIndex'[L] >= CommitIndex[L]
    BY Zenon, <1>0, <1>8, FieldTypes, NoSmaller
  <1>10. \A m \in appendReqs' : CallSound(L, m)'
    BY Zenon, <1>0, <1>5, <1>8, <1>9, CallKept DEF SteadyInv
  <1>11. \A m \in appendReps' : AnswerSound(m)'
    BY Zenon, <1>0, <1>5, <1>8, AnswerKept DEF SteadyInv
  <1>12. \A t \in Server : TrackerSound(L, t)'
    BY Zenon, <1>0, <1>5, <1>8, TrackerKept DEF SteadyInv
  <1>13. \A t \in Server : CommitSound(L, t)'
    <2> TAKE t \in Server
    <2>1. /\ CommitSound(L, t) /\ CommitIndex[t] \in Index /\ Len(log[t]) <= Len(log'[t])
          /\ Len(log[t]) \in Nat /\ Len(log'[t]) \in Nat
      BY ZenonT(30), <1>0, <1>5, LogType, NextLogType, FieldTypes DEF SteadyInv, LogsGrow, Within
    <2> QED  BY <1>8, <2>1 DEF CommitSound, Index
  <1>14. MajorityHolds(L)'
    <2> SUFFICES ASSUME CommitIndex[L] >= 1
                 PROVE  Cardinality(Holders(CommitIndex[L])') > N \div 2
      BY Zenon, <1>8 DEF MajorityHolds, Holders
    <2>0. CommitIndex[L] \in Index
      BY Zenon, <1>0 DEF TypeOK
    <2>1. CommitIndex[L] \in Nat
      BY <2>0 DEF Index
    <2>2. Cardinality(Holders(CommitIndex[L])) > N \div 2
      BY Zenon DEF SteadyInv, MajorityHolds
    <2>3. PICK i \in Nat : i = CommitIndex[L]
      BY Zenon, <2>1
    <2>4. Cardinality(Holders(i)') > N \div 2
      BY <1>0, <1>5, <2>2, <2>3, MajorityKept
    <2> QED  BY Zenon, <1>8, <2>3, <2>4 DEF Holders
  <1>15. Leadership(L)'
    BY Zenon, <1>0, <1>1, <1>8 DEF Leadership, Start
  <1> QED  BY Zenon, <1>6, <1>7, <1>10, <1>11, <1>12, <1>13, <1>14, <1>15 DEF SteadyInv

\* A peer that takes or refuses a call keeps the invariant and its commit index.
LEMMA SteadyReceive ==
    ASSUME NEW L \in Server, SteadyInv(L), TypeOK', NEW m \in appendReqs,
           handleAppendEntriesRPC(m)
    PROVE  SteadyInv(L)' /\ CommitIndex'[m.dst] >= CommitIndex[m.dst]
  <1> USE DEF electionVars, trackerVars, applyVars, processVars, voteMsgs, appendMsgs
  <1> DEFINE d == m.dst
             lg == AppendOrOverwrite(log[d], m.PrevLogIndex, m.Entries)
  <1>0. TypeOK /\ Leadership(L) /\ CallSound(L, m)
    BY Zenon DEF SteadyInv
  <1>1. /\ d \in Server /\ m.PrevLogIndex \in Index /\ m.LeaderCommit \in Index
        /\ m.Entries \in Seq(Entry) /\ m.heart \in BOOLEAN
    BY Zenon, <1>0, CallType
  <1>2. d # L /\ UNCHANGED <<armed, applied, nextIndex, matchIndex, appendReqs>>
    BY Zenon, <1>0 DEF CallSound, handleAppendEntriesRPC
  <1>3. \A t \in Server : /\ log[t] \in Seq(Entry) /\ Len(log[t]) \in Nat
                           /\ applied[t] \in Seq(Entry) /\ CommitIndex[t] \in Index
    BY Zenon, <1>0, LogType, FieldTypes
  <1>4. CASE RefuseAppend(m)
    <2>1. Leadership(L)'
      BY Zenon, <1>0, <1>2, <1>4 DEF RefuseAppend, Leadership
    <2>2. \A q \in appendReps' : q \in appendReps \/ ~q.Success
      BY <1>4 DEF RefuseAppend, AppendReply
    <2>3. SteadyInv(L)'
      BY ZenonT(30), <1>2, <1>4, <2>1, <2>2, SteadyFrame DEF RefuseAppend
    <2>4. CommitIndex' = CommitIndex
      BY Zenon, <1>4 DEF RefuseAppend
    <2> QED  BY SMTT(30), <1>1, <1>3, <2>3, <2>4 DEF Index
  <1>5. CASE AcceptAppend(m)
    <2>1. /\ Within(log[d], lg) /\ Within(lg, log[L])
          /\ ~m.heart => m.PrevLogIndex + 1 + Len(m.Entries) <= Len(lg)
      <3>1. Within(log[d], log[L])
        BY Zenon, <1>1 DEF SteadyInv
      <3>2. CASE m.heart
        <4>1. lg = log[d]
          BY <1>0, <1>1, <1>3, <3>2, EmptyCall DEF CallSound
        <4> QED  BY Zenon, <3>1, <3>2, <4>1, WithinReflexive
      <3>3. CASE ~m.heart
        <4>1. /\ m.PrevLogIndex < Len(log[d])
              /\ m.PrevLogIndex + 1 + Len(m.Entries) <= Len(log[L])
              /\ \A j \in 1..Len(m.Entries) : m.Entries[j] = log[L][m.PrevLogIndex + 1 + j]
          BY Zenon, <1>0, <3>3 DEF CallSound
        <4> QED  BY ZenonT(30), <1>1, <1>3, <3>1, <4>1, SegmentCall
      <3> QED  BY Zenon, <3>2, <3>3
    <2>2. lg \in Seq(Entry)
      BY ZenonT(30), <1>1, <1>3, AppendOrOverwriteType
    <2>3. /\ State' = [State EXCEPT ![d] = "Follower"]
          /\ appendReps' = appendReps \cup {AppendReply(m, m.LeaderTerm, LogMatches(d, m))}
          /\ \/ ~LogMatches(d, m) /\ UNCHANGED <<log, CommitIndex>>
             \/ log' = [log EXCEPT ![d] = lg] /\ LearnCommit(d, m.LeaderCommit, Len(lg) - 1)
      BY Zenon, <1>5 DEF AcceptAppend, Follow
    <2> HIDE DEF lg
    <2>4. /\ Len(lg) \in Nat /\ Len(log[d]) <= Len(lg) /\ Len(m.Entries) \in Nat
      BY SMTT(30), <1>1, <2>1, <2>2 DEF Within
    <2>5. /\ log'[d] \in {log[d], lg}
          /\ \A t \in Server \ {d} : log'[t] = log[t]
      <3>1. CASE log' = log
        BY Zenon, <3>1
      <3>2. CASE log' = [log EXCEPT ![d] = lg]
        BY Zenon, <1>0, <1>1, <3>2, FieldTypes
      <3> QED  BY Zenon, <2>3, <3>1, <3>2
    <2>6. LogsGrow /\ log'[L] = log[L]
      BY Zenon, <1>1, <1>2, <2>1, <2>5, WithinReflexive DEF LogsGrow
    <2>7. \A t \in Server : Within(log'[t], log'[L])
      <3> TAKE t \in Server
      <3>1. CASE t = d
        BY Zenon, <1>1, <2>1, <2>5, <2>6, <3>1 DEF SteadyInv
      <3>2. CASE t # d
        BY Zenon, <2>5, <2>6, <3>2 DEF SteadyInv
      <3> QED  BY Zenon, <3>1, <3>2
    <2>8. \A t \in Server : Within(applied'[t], log'[t])
      <3> TAKE t \in Server
      <3>1. Within(applied[t], log[t]) /\ Within(log[t], log'[t]) /\ applied' = applied
        BY Zenon, <1>2, <2>6 DEF SteadyInv, LogsGrow
      <3>2. log'[t] \in Seq(Entry)
        BY Zenon, NextLogType
      <3> QED  BY Zenon, <1>3, <3>1, <3>2, WithinTransitive
    <2>9. /\ CommitIndex'[L] = CommitIndex[L] /\ \A t \in Server \ {d} : CommitIndex'[t] = CommitIndex[t]
          /\ CommitIndex'[d] >= CommitIndex[d]
          /\ CommitSound(L, d)'
      <3>0. /\ CommitIndex[d] >= 0 /\ CommitIndex[d] <= CommitIndex[L]
            /\ CommitIndex[d] >= 1 => CommitIndex[d] < Len(log[d])
            /\ Len(log[d]) <= Len(log'[d]) /\ Len(log'[d]) \in Nat
            /\ CommitIndex[d] \in Index /\ CommitIndex[L] \in Index /\ Len(log[d]) \in Nat
        BY Zenon, <1>1, <1>3, <2>6, NextLogType DEF SteadyInv, CommitSound, LogsGrow, Within
      <3>1. CASE UNCHANGED CommitIndex
        BY SMTT(30), <3>0, <3>1 DEF CommitSound, Index
      <3>2. CASE /\ m.LeaderCommit > CommitIndex[d] /\ log' = [log EXCEPT ![d] = lg]
                 /\ CommitIndex' = [CommitIndex EXCEPT ![d] = Lesser(m.LeaderCommit, Len(lg) - 1)]
        <4>1. ~m.heart
          BY SMTT(30), <1>0, <3>0, <3>2 DEF CallSound, Index
        <4>2. /\ m.LeaderCommit >= 1 /\ m.LeaderCommit <= CommitIndex[L]
              /\ m.LeaderCommit < m.PrevLogIndex + 1 + Len(m.Entries)
          BY SMTT(30), <1>0, <1>1, <3>0, <3>2, <4>1 DEF CallSound, Index
        <4>3. m.LeaderCommit < Len(lg)
          BY <1>1, <2>1, <2>4, <4>1, <4>2 DEF Index
        <4>4. Lesser(m.LeaderCommit, Len(lg) - 1) = m.LeaderCommit
          BY <1>1, <2>4, <4>3 DEF Lesser, Index
        <4>5. /\ CommitIndex'[d] = m.LeaderCommit
              /\ \A t \in Server \ {d} : CommitIndex'[t] = CommitIndex[t]
          BY Zenon, <1>0, <1>1, <3>2, <4>4, FieldTypes
        <4>6. log'[d] = lg /\ CommitIndex'[L] = CommitIndex[L]
          BY Zenon, <1>0, <1>1, <1>2, <3>2, <4>5, FieldTypes
        <4> QED  BY SMTT(30), <1>1, <3>0, <3>2, <4>2, <4>3, <4>5, <4>6 DEF CommitSound, Index
      <3> QED  BY Zenon, <2>3, <3>1, <3>2 DEF LearnCommit
    <2>10. \A q \in appendReqs' : CallSound(L, q)'
      <3>1. CommitIndex'[L] >= CommitIndex[L]
        BY <1>3, <2>9 DEF Index
      <3> QED  BY Zenon, <1>0, <1>2, <2>6, <3>1, CallKept DEF SteadyInv
    <2>11. \A q \in appendReps' : AnswerSound(q)'
      <3> TAKE q \in appendReps'
      <3>1. CASE q \in appendReps
        BY Zenon, <1>0, <2>6, <3>1, AnswerKept DEF SteadyInv
      <3>2. CASE q = AppendReply(m, m.LeaderTerm, LogMatches(d, m))
        <4>1. /\ q.dst = d /\ q.heart = m.heart /\ q.PrevLogIndex = m.PrevLogIndex
              /\ q.EntriesLen = Len(m.Entries) /\ q.Success = LogMatches(d, m)
          BY Zenon, <3>2 DEF AppendReply
        <4>2. LogMatches(d, m) => log'[d] = lg
          <5>1. log' = [log EXCEPT ![d] = lg] => log'[d] = lg
            BY Zenon, <1>0, <1>1, FieldTypes
          <5> QED  BY Zenon, <2>3, <5>1
        <4> QED  BY Zenon, <2>1, <4>1, <4>2 DEF AnswerSound
      <3> QED  BY Zenon, <2>3, <3>1, <3>2
    <2>12. \A t \in Server : TrackerSound(L, t)'
      BY Zenon, <1>0, <1>2, <2>6, TrackerKept DEF SteadyInv
    <2>13. \A t \in Server : CommitSound(L, t)'
      BY Zenon, <2>5, <2>9 DEF SteadyInv, CommitSound
    <2>14. MajorityHolds(L)'
      <3> SUFFICES ASSUME CommitIndex[L] >= 1
                   PROVE  Cardinality({t \in Server : Len(log'[t]) > CommitIndex[L]}) > N \div 2
        BY Zenon, <2>9 DEF MajorityHolds, Holders
      <3>1. CommitIndex[L] \in Nat
        BY <1>3 DEF Index
      <3>2. PICK i \in Nat : i = CommitIndex[L]
        BY Zenon, <3>1
      <3>3. Cardinality(Holders(i)) > N \div 2
        BY Zenon, <3>2 DEF SteadyInv, MajorityHolds
      <3>a. i \in Nat /\ i <= i
        BY <3>2
      <3>4. Cardinality(Holders(i)') > N \div 2
        BY ZenonT(30), <1>0, <2>6, <3>3, <3>a, MajorityKept
      <3> QED  BY Zenon, <3>2, <3>4 DEF Holders
    <2>15. Leadership(L)'
      BY Zenon, <1>0, <1>1, <1>2, <2>3, <2>6, FieldTypes DEF Leadership
    <2> QED  BY Zenon, <2>7, <2>8, <2>9, <2>10, <2>11, <2>12, <2>13, <2>14, <2>15 DEF SteadyInv
  <1> QED  BY Zenon, <1>4, <1>5 DEF handleAppendEntriesRPC

-----------------------------------------------------------------------------
(* The regime as a whole.                                                  *)

\* A step of the steady regime preserves the invariant and takes back no
\* commit index.
LEMMA SteadyStep ==
    ASSUME NEW L \in Server, Electable = {L}, SteadyInv(L), [SteadyNext]_vars
    PROVE  SteadyInv(L)' /\ \A s \in Server : CommitIndex'[s] >= CommitIndex[s]
  <1> USE DEF electionVars, trackerVars, applyVars, processVars, voteMsgs, appendMsgs
  <1>1. TypeOK /\ TypeOK'
    <2>1. [Next]_vars
      BY Zenon DEF SteadyNext, Next
    <2> QED  BY ZenonT(30), <2>1, TypeStep DEF SteadyInv
  <1>2. \A s \in Server : CommitIndex[s] \in Index
    BY Zenon, <1>1 DEF TypeOK
  <1>3. ASSUME UNCHANGED CommitIndex
        PROVE  \A s \in Server : CommitIndex'[s] >= CommitIndex[s]
    BY ZenonT(30), <1>1, <1>3, FieldTypes, NoSmaller
  <1>4. ASSUME NEW s \in Server,
               \/ ElectionTimeout(s) \/ (NoCommandYet /\ StartElection(s))
               \/ Kill(s) \/ KillLocked(s)
        PROVE  SteadyInv(L)' /\ UNCHANGED CommitIndex
    BY ZenonT(30), <1>1, <1>4, SteadyElections DEF ElectionTimeout, StartElection, Kill, KillLocked
  <1>5. ASSUME NEW s \in Server, Start(s)
        PROVE  SteadyInv(L)' /\ UNCHANGED CommitIndex
    BY ZenonT(30), <1>1, <1>5, SteadyStart DEF Start
  <1>6. ASSUME NEW s \in Server, NEW t \in Server, NEW heart \in BOOLEAN,
               AppendEntries(s, t, heart)
        PROVE  SteadyInv(L)' /\ UNCHANGED CommitIndex
    BY Zenon, <1>1, <1>6, SteadySend DEF AppendEntries
  <1>7. ASSUME NEW s \in Server, sendMsgToTester(s)
        PROVE  SteadyInv(L)' /\ UNCHANGED CommitIndex
    BY ZenonT(30), <1>1, <1>7, SteadyApply DEF sendMsgToTester
  <1>8. ASSUME NEW m \in voteReqs, RequestVote(m)
        PROVE  SteadyInv(L)' /\ UNCHANGED CommitIndex
    BY ZenonT(30), <1>1, <1>8, SteadyVotes DEF RequestVote
  <1>9. ASSUME NEW m \in voteReps, VoteReplied(m)
        PROVE  SteadyInv(L)' /\ UNCHANGED CommitIndex
    BY Zenon, <1>1, <1>9, SteadyVotes DEF VoteReplied
  <1>10. ASSUME NEW m \in appendReqs, handleAppendEntriesRPC(m)
         PROVE  SteadyInv(L)' /\ \A s \in Server : CommitIndex'[s] >= CommitIndex[s]
    <2>1. SteadyInv(L)' /\ CommitIndex'[m.dst] >= CommitIndex[m.dst]
      BY ZenonT(30), <1>1, <1>10, SteadyReceive
    <2>2. \A s \in Server \ {m.dst} : CommitIndex'[s] = CommitIndex[s]
      <3>1. \/ UNCHANGED CommitIndex
            \/ \E v : CommitIndex' = [CommitIndex EXCEPT ![m.dst] = v]
        BY ZenonT(30), <1>10 DEF handleAppendEntriesRPC, AcceptAppend, RefuseAppend, LearnCommit
      <3> QED  BY ZenonT(30), <1>1, <3>1, FieldTypes
    <2> QED  BY Zenon, <1>1, <2>1, <2>2, FieldTypes, NoSmaller
  <1>11. ASSUME NEW m \in appendReps, AppendReplied(m)
         PROVE  SteadyInv(L)' /\ \A s \in Server : CommitIndex'[s] >= CommitIndex[s]
    <2>1. SteadyInv(L)'
      BY Zenon, <1>1, <1>11, SteadyAnswered
    <2>2. \/ UNCHANGED CommitIndex
          \/ \E i : i >= CommitIndex[m.src] /\ CommitIndex' = [CommitIndex EXCEPT ![m.src] = i]
      BY Zenon, <1>11 DEF AppendReplied, EntriesAcked, ProbeAcked, BackUp, tryCommitL, CanCommit
    <2>3. CASE UNCHANGED CommitIndex
      BY Zenon, <1>3, <2>1, <2>3
    <2>4. ASSUME NEW i, i >= CommitIndex[m.src], CommitIndex' = [CommitIndex EXCEPT ![m.src] = i]
          PROVE  \A s \in Server : CommitIndex'[s] >= CommitIndex[s]
      <3>1. \A s \in Server : CommitIndex'[s] = IF s = m.src THEN i ELSE CommitIndex[s]
        BY Zenon, <1>1, <2>4 DEF TypeOK
      <3>2. \A s \in Server : CommitIndex[s] >= CommitIndex[s]
        BY Zenon, <1>1, FieldTypes, NoSmaller
      <3> QED  BY Zenon, <2>4, <3>1, <3>2
    <2> QED  BY Zenon, <2>1, <2>2, <2>3, <2>4
  <1>12. ASSUME NEW m \in appendReqs \cup appendReps, DropAppend(m)
         PROVE  SteadyInv(L)' /\ UNCHANGED CommitIndex
    <2>1. Leadership(L)'
      BY ZenonT(30), <1>12 DEF SteadyInv, DropAppend, Leadership
    <2> QED  BY ZenonT(30), <1>1, <1>12, <2>1, SteadyFrame DEF DropAppend
  <1>13. CASE UNCHANGED vars
    <2>1. Leadership(L)'
      BY ZenonT(30), <1>13 DEF SteadyInv, vars, Leadership
    <2>2. SteadyInv(L)'
      BY Zenon, <1>1, <1>13, <2>1, SteadyFrame DEF vars
    <2> QED  BY Zenon, <1>3, <1>13, <2>2 DEF vars
  <1> QED  BY ZenonT(30), <1>3, <1>4, <1>5, <1>6, <1>7, <1>8, <1>9, <1>10, <1>11, <1>12, <1>13
           DEF SteadyNext, Deliver, Operate

\* The invariant implies the safety properties.
LEMMA SteadyImplies ==
    ASSUME NEW L \in Server, SteadyInv(L)
    PROVE  LogsAgree /\ StateMachineSafety /\ MatchIndexSound /\ CommittedIsReplicated
  <1>0. TypeOK /\ Leadership(L)
    BY Zenon DEF SteadyInv
  <1>1. \A s \in Server : Within(log[s], log[L]) /\ log[s] \in Seq(Entry) /\ Len(log[s]) \in Nat
    BY Zenon, <1>0, LogType DEF SteadyInv
  <1>2. LogsAgree
    BY <1>1 DEF LogsAgree, Within
  <1>3. \A s \in Server : Within(applied[s], log[L])
    <2> TAKE s \in Server
    <2>1. applied[s] \in Seq(Entry) /\ Within(applied[s], log[s])
      BY Zenon, <1>0 DEF TypeOK, SteadyInv
    <2> QED  BY Zenon, <1>1, <2>1, WithinTransitive
  <1>4. StateMachineSafety
    <2> SUFFICES ASSUME NEW s \in Server, NEW t \in Server, NEW i \in 1..Len(applied[s]),
                        i <= Len(applied[t])
                 PROVE  applied[s][i].Command = applied[t][i].Command
      BY Zenon DEF StateMachineSafety
    <2>1. applied[t] \in Seq(Entry) /\ applied[s] \in Seq(Entry)
      BY Zenon, <1>0 DEF TypeOK
    <2>2. i \in 1..Len(applied[t])
      BY <2>1
    <2> QED  BY Zenon, <1>3, <2>2 DEF Within
  <1>5. MatchIndexSound
    <2> SUFFICES ASSUME NEW s \in Server, NEW t \in Server, State[s] = "Leader",
                        NEW i \in 1..matchIndex[s][t]
                 PROVE  i < Len(log[t]) /\ i < Len(log[s]) /\ log[t][i + 1] = log[s][i + 1]
      BY Zenon DEF MatchIndexSound
    <2>1. s = L
      BY Zenon, <1>0 DEF Leadership
    <2>2. matchIndex[L][t] \in Nat
      BY Zenon, <1>0 DEF TypeOK
    <2>3. matchIndex[L][t] >= 1 => matchIndex[L][t] < Len(log[t])
      BY Zenon DEF SteadyInv, TrackerSound
    <2>4. i \in Nat /\ i >= 1 /\ i <= matchIndex[L][t]
      BY <2>1, <2>2
    <2>5. i + 1 \in 1..Len(log[t])
      BY <1>1, <2>2, <2>3, <2>4
    <2> QED  BY <1>1, <2>1, <2>4, <2>5 DEF Within
  <1>6. CommittedIsReplicated
    <2> SUFFICES ASSUME NEW s \in Server, CommitIndex[s] >= 1
                 PROVE  Cardinality(Holders(CommitIndex[s])) > N \div 2
      BY Zenon DEF CommittedIsReplicated, Holders
    <2>1. CommitIndex[s] \in Index /\ CommitIndex[L] \in Index /\ CommitIndex[s] <= CommitIndex[L]
      BY ZenonT(30), <1>0 DEF TypeOK, SteadyInv, CommitSound
    <2>2. CommitIndex[L] >= 1
      BY <2>1 DEF Index
    <2>3. Cardinality(Holders(CommitIndex[L])) > N \div 2
      BY ZenonT(30), <2>2 DEF SteadyInv, MajorityHolds
    <2>4. Holders(CommitIndex[L]) \subseteq Holders(CommitIndex[s])
      BY <1>1, <2>1 DEF Holders, Index
    <2>a. IsFiniteSet(Server)
      BY RaftConstants, FS_Interval DEF Server
    <2>5. IsFiniteSet(Server) /\ \A i : Holders(i) \subseteq Server
      BY Zenon, <2>a DEF Holders
    <2>6. IsFiniteSet(Holders(CommitIndex[L])) /\ IsFiniteSet(Holders(CommitIndex[s]))
      BY Zenon, <2>5, FS_Subset
    <2>7. Cardinality(Holders(CommitIndex[L])) <= Cardinality(Holders(CommitIndex[s]))
      BY Zenon, <2>4, <2>6, FS_Subset
    <2>8. /\ Cardinality(Holders(CommitIndex[L])) \in Nat
          /\ Cardinality(Holders(CommitIndex[s])) \in Nat /\ N \div 2 \in Nat
      BY <2>6, FS_CardinalityType, RaftConstants
    <2> QED  BY <2>3, <2>7, <2>8
  <1> QED  BY Zenon, <1>2, <1>4, <1>5, <1>6

-----------------------------------------------------------------------------
(* The theorems.                                                           *)

\* The invariant holds throughout the steady regime.
LEMMA SteadyInvariance ==
    ASSUME NEW L \in Server, Electable = {L}
    PROVE  SteadySpec => []SteadyInv(L)
  <1>1. Init => SteadyInv(L)
    BY Zenon, SteadyInit
  <1>2. SteadyInv(L) /\ [SteadyNext]_vars => SteadyInv(L)'
    BY Zenon, SteadyStep
  <1> QED  BY <1>1, <1>2, PTL DEF SteadySpec

\* Logs of different nodes never disagree at an index they share.
THEOREM SteadyLogs ==
    ASSUME NEW L \in Server, Electable = {L}
    PROVE  SteadySpec => []LogsAgree
  <1>1. SteadyInv(L) => LogsAgree
    BY Zenon, SteadyImplies
  <1> QED  BY <1>1, SteadyInvariance, PTL

\* No two nodes hand different commands for an index to their state machines.
THEOREM SteadyStateMachines ==
    ASSUME NEW L \in Server, Electable = {L}
    PROVE  SteadySpec => []StateMachineSafety
  <1>1. SteadyInv(L) => StateMachineSafety
    BY Zenon, SteadyImplies
  <1> QED  BY <1>1, SteadyInvariance, PTL

\* What the leader believes of a peer's log is true.
THEOREM SteadyTrackers ==
    ASSUME NEW L \in Server, Electable = {L}
    PROVE  SteadySpec => []MatchIndexSound
  <1>1. SteadyInv(L) => MatchIndexSound
    BY Zenon, SteadyImplies
  <1> QED  BY <1>1, SteadyInvariance, PTL

\* A committed index from 1 on is in the logs of a majority.
THEOREM SteadyCommitted ==
    ASSUME NEW L \in Server, Electable = {L}
    PROVE  SteadySpec => []CommittedIsReplicated
  <1>1. SteadyInv(L) => CommittedIsReplicated
    BY Zenon, SteadyImplies
  <1> QED  BY <1>1, SteadyInvariance, PTL

\* No late append or acknowledgement takes back a commit index.
THEOREM SteadyCommitMonotone ==
    ASSUME NEW L \in Server, Electable = {L}
    PROVE  SteadySpec => CommitMonotone
  <1>1. SteadyInv(L) /\ [SteadyNext]_vars
          => [\A s \in Server : SameIncarnation(s) => CommitIndex'[s] >= CommitIndex[s]]_vars
    BY Zenon, SteadyStep
  <1> QED  BY <1>1, SteadyInvariance, PTL DEF SteadySpec, CommitMonotone

=============================================================================
