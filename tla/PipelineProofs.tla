--------------------------- MODULE PipelineProofs ---------------------------
(***************************************************************************)
(* What a server promises of the commands that travel through it, for all  *)
(* callers, channel capacities and numbers of other leaders' entries.      *)
(***************************************************************************)
EXTENDS Pipeline, TLAPS

Commander == Client \cup {Foreign}

Phases == {"new", "failed", "started", "waiting", "answered", "timed out"}

\* The variables are well formed; the counters of Raft are in order.
Types ==
    /\ log \in Seq(Commander) /\ applied \in Seq(Commander)
    /\ commit \in Nat /\ handed \in Nat /\ foreigns \in 0..MaxForeign /\ msg \in Nat
    /\ handed <= commit /\ commit <= Len(log) /\ Len(log) <= MaxLog
    /\ q \in Seq(Nat) /\ inHand \in Seq(Nat) /\ applyCh \in Seq(Nat)
    /\ loop \in {"idle", "apply", "notify", "stuck", "exited"}
    /\ replyCh \in [1..MaxLog -> Client \cup {Nobody}]
    /\ phase \in [Client -> Phases] /\ idx \in [Client -> 0..MaxLog]
    /\ channel \in [Client -> Commander \cup {Empty}]

\* Entries that the apply loop has taken out of applyCh.
Received == Len(applied) + (IF loop = "apply" THEN 1 ELSE 0)

\* The loop, the channel, the applier's hand and its queue hold the entries that
\* follow the applied ones, in this order and without a gap, up to the last one
\* handed over.  Only the barrier may come after them.
InOrder ==
    /\ AppliedInOrder
    /\ loop = "apply" => msg = Len(applied) + 1 /\ msg <= handed
    /\ loop \in {"notify", "stuck"} => msg = Len(applied) /\ msg # 0
    /\ \A i \in 1..Len(applyCh) :
        IF applyCh[i] = 0 THEN i = Len(applyCh) /\ stop = "barrier" /\ ~barrier
        ELSE applyCh[i] = Received + i /\ applyCh[i] <= handed
    /\ applier # "exited" =>
        /\ handed = Received + Len(applyCh) + Len(inHand) + Len(q)
        /\ \A i \in 1..Len(inHand) : inHand[i] = Received + Len(applyCh) + i
        /\ \A i \in 1..Len(q) : q[i] = Received + Len(applyCh) + Len(inHand) + i

\* The stages stop one after the other.
Stopping ==
    /\ applier = "exited" => inHand = << >>
    /\ stop \in {"barrier", "stopped", "saved"} => applier = "exited"
    /\ barrier => /\ stop \in {"barrier", "stopped", "saved"}
                  /\ applyCh = << >> /\ loop \in {"idle", "exited"}
    /\ stop \in {"stopped", "saved"} => barrier

\* Who holds s.mu, and whose channel is in the table of waiters.
Callers ==
    \A c \in Client :
        /\ mu = c <=> phase[c] = "started"
        /\ phase[c] = "started" => idx[c] > Len(applied)
        /\ phase[c] \in {"waiting", "timed out"} => idx[c] # 0
        /\ phase[c] \in {"new", "started"} => channel[c] = Empty

Waiters ==
    \A i \in 1..MaxLog : replyCh[i] # Nobody =>
        /\ replyCh[i] \in Client
        /\ phase[replyCh[i]] \in {"waiting", "timed out"}
        /\ idx[replyCh[i]] = i
        /\ channel[replyCh[i]] = Empty

Calls == Callers /\ Waiters

\* While nobody replaces entries, a command stays where Start has put it.
Settled ==
    foreigns = 0 => \A c \in Client :
        /\ idx[c] # 0 => idx[c] <= Len(log) /\ log[idx[c]] = c
        /\ channel[c] \in {c, Empty}
        /\ phase[c] = "waiting" /\ channel[c] = Empty => replyCh[idx[c]] = c

PipeInv == Types /\ InOrder /\ Stopping /\ Calls /\ Settled /\ NoAnswerLost

-----------------------------------------------------------------------------
(* Types.                                                                  *)

\* The new log of a server that another leader has overwritten.
LEMMA OverwrittenLog ==
    ASSUME Types, NEW n \in commit..Len(log)
    PROVE  /\ Append(SubSeq(log, 1, n), Foreign) \in Seq(Commander)
           /\ Len(Append(SubSeq(log, 1, n), Foreign)) = n + 1
           /\ \A i \in 1..n : Append(SubSeq(log, 1, n), Foreign)[i] = log[i]
<1>1. n \in Nat /\ n <= Len(log) /\ log \in Seq(Commander) /\ Foreign \in Commander
  BY DEF Types, Commander
<1>2. /\ SubSeq(log, 1, n) \in Seq(Commander) /\ Len(SubSeq(log, 1, n)) = n
      /\ \A i \in 1..n : SubSeq(log, 1, n)[i] = log[i]
  BY <1>1
<1> QED  BY <1>1, <1>2

\* Concatenation: type, length and elements.
LEMMA Concatenated ==
    ASSUME NEW S, NEW s \in Seq(S), NEW t \in Seq(S)
    PROVE  /\ s \o t \in Seq(S) /\ Len(s \o t) = Len(s) + Len(t)
           /\ \A i \in 1..Len(s) : (s \o t)[i] = s[i]
           /\ \A i \in 1..Len(t) : (s \o t)[Len(s) + i] = t[i]
OBVIOUS

\* The entries sendMsgToTester hands over.
LEMMA HandedEntries ==
    ASSUME Types
    PROVE  LET new == [n \in 1..(commit - handed) |-> handed + n]
           IN  /\ new \in Seq(Nat) /\ Len(new) = commit - handed
               /\ q \o new \in Seq(Nat) /\ Len(q \o new) = Len(q) + Len(new)
               /\ \A i \in 1..Len(q) : (q \o new)[i] = q[i]
               /\ \A i \in (Len(q) + 1)..(Len(q) + Len(new)) : (q \o new)[i] = handed + i - Len(q)
<1> DEFINE new == [n \in 1..(commit - handed) |-> handed + n]
<1>1. commit - handed \in Nat /\ handed \in Nat /\ q \in Seq(Nat)
  BY DEF Types
<1>2. new \in Seq(Nat) /\ Len(new) = commit - handed
  BY <1>1
<1>3. \A i \in 1..(commit - handed) : new[i] = handed + i
  BY Zenon, <1>1
<1> HIDE DEF new
<1>4. /\ q \o new \in Seq(Nat) /\ Len(q \o new) = Len(q) + Len(new)
      /\ \A i \in 1..Len(q) : (q \o new)[i] = q[i]
      /\ \A i \in 1..Len(new) : (q \o new)[Len(q) + i] = new[i]
  BY <1>1, <1>2, Concatenated
<1>5. ASSUME NEW i \in (Len(q) + 1)..(Len(q) + Len(new))
      PROVE  (q \o new)[i] = handed + i - Len(q)
  <2>1. i - Len(q) \in 1..Len(new) /\ i = Len(q) + (i - Len(q)) /\ i \in Nat /\ Len(q) \in Nat
    BY <1>1, <1>2
  <2>2. (q \o new)[i] = new[i - Len(q)]
    BY Zenon, <1>4, <2>1
  <2> QED  BY Zenon, <1>1, <1>2, <1>3, <2>1, <2>2
<1> QED  BY Zenon, <1>2, <1>4, <1>5 DEF new

\* Every step keeps the types.
LEMMA TypesStep == PipeInv /\ [Next]_vars => Types'
<1> SUFFICES ASSUME PipeInv, [Next]_vars  PROVE Types'
  BY Zenon
<1> USE DEF raftVars, stageVars, loopVars, callVars, stopVars
<1>0. Types
  BY Zenon DEF PipeInv
<1>1. CASE Commit
  BY <1>0, <1>1 DEF Commit, Types
<1>2. CASE LoseLeadership \/ WinLeadership \/ LoopExits \/ Kill \/ KillHelper \/ StopLoop \/ Save
           \/ ApplierExits
  BY Zenon, <1>0, <1>2 DEF LoseLeadership, WinLeadership, LoopExits, Kill, KillHelper, StopLoop, Save,
                    ApplierExits, Types
<1>3. CASE Overwrite
  <2>1. PICK n \in commit..Len(log) : n < MaxLog /\ log' = Append(SubSeq(log, 1, n), Foreign)
    BY Zenon, <1>3 DEF Overwrite
  <2>2. log' \in Seq(Commander) /\ Len(log') = n + 1
    BY Zenon, <1>0, <2>1, OverwrittenLog
  <2>a. Len(log') <= MaxLog
    BY <1>0, <2>1, <2>2, PipelineConstants DEF Types, PipelineConstants
  <2>3. commit <= Len(log') /\ foreigns' \in 0..MaxForeign
    BY <1>0, <1>3, <2>2, PipelineConstants DEF Overwrite, Types, PipelineConstants
  <2> QED  BY Zenon, <1>0, <1>3, <2>2, <2>a, <2>3 DEF Overwrite, Types
<1>4. CASE SendMsgToTester
  <2>1. q' \in Seq(Nat)
    BY Zenon, <1>0, <1>4, HandedEntries DEF SendMsgToTester
  <2> QED  BY <1>0, <1>4, <2>1 DEF SendMsgToTester, Types
<1>5. CASE ApplierTakes
  BY <1>0, <1>5 DEF ApplierTakes, Types
<1>6. CASE ApplierSends
  BY <1>0, <1>6 DEF ApplierSends, Types
<1>7. CASE Receive
  <2>1. applyCh \in Seq(Nat) /\ applyCh # << >>
    BY Zenon, <1>0, <1>7 DEF Receive, Types
  <2>2. Tail(applyCh) \in Seq(Nat) /\ Head(applyCh) \in Nat
    BY <2>1
  <2>3. applyCh' \in Seq(Nat) /\ msg' \in Nat
    BY Zenon, <1>0, <1>7, <2>2 DEF Receive, Types
  <2>4. loop' \in {"idle", "apply", "notify", "stuck", "exited"}
    BY Zenon, <1>0, <1>7 DEF Receive, Types
  <2> QED  BY Zenon, <1>0, <1>7, <2>3, <2>4 DEF Receive, Types
<1>8. CASE ApplyMsg
  <2>1. msg \in 1..Len(log)
    BY <1>0, <1>8 DEF ApplyMsg, PipeInv, InOrder, Types
  <2>2. applied' \in Seq(Commander)
    BY <1>0, <1>8, <2>1 DEF ApplyMsg, Types
  <2> QED  BY Zenon, <1>0, <1>8, <2>2 DEF ApplyMsg, Types
<1>9. CASE NotifyReply
  <2>1. msg \in 1..Len(log) /\ log[msg] \in Commander
    <3>1. msg = Len(applied) /\ Len(applied) <= commit
      BY <1>0, <1>9 DEF NotifyReply, PipeInv, InOrder, AppliedInOrder, Types
    <3>2. msg # 0
      BY Zenon, <1>9 DEF NotifyReply, PipeInv, InOrder
    <3> QED  BY <1>0, <3>1, <3>2 DEF Types
  <2>2. channel' \in [Client -> Commander \cup {Empty}]
    BY Zenon, <1>0, <1>9, <2>1 DEF NotifyReply, Types
  <2>3. replyCh' \in [1..MaxLog -> Client \cup {Nobody}]
    BY Zenon, <1>0, <1>9 DEF NotifyReply, Types
  <2> QED  BY Zenon, <1>0, <1>9, <2>2, <2>3 DEF NotifyReply, Types
<1>10. ASSUME NEW c \in Client, Refused(c) \/ Answered(c) \/ Timeout(c) \/ Register(c) \/ Forget(c)
       PROVE  Types'
  <2>1. CASE Refused(c)
    BY Zenon, <1>0, <2>1 DEF Refused, Types, Phases
  <2>2. CASE Answered(c)
    BY Zenon, <1>0, <2>2 DEF Answered, Types, Phases
  <2>3. CASE Timeout(c)
    BY Zenon, <1>0, <2>3 DEF Timeout, Types, Phases
  <2>4. CASE Register(c)
    BY Zenon, <1>0, <2>4 DEF Register, Types, Phases
  <2>5. CASE Forget(c)
    BY Zenon, <1>0, <2>5 DEF Forget, Types, Phases
  <2> QED  BY Zenon, <1>10, <2>1, <2>2, <2>3, <2>4, <2>5
<1>11. ASSUME NEW c \in Client, Start(c)  PROVE Types'
  <2>1. Len(log) + 1 \in 0..MaxLog
    BY <1>0, <1>11, PipelineConstants DEF Start, Types, PipelineConstants
  <2>2. /\ log' \in Seq(Commander) /\ Len(log') = Len(log) + 1
    BY <1>0, <1>11 DEF Start, Types, Commander
  <2>3. phase' \in [Client -> Phases] /\ idx' \in [Client -> 0..MaxLog]
    BY Zenon, <1>0, <1>11, <2>1 DEF Start, Types, Phases
  <2>4. commit <= Len(log') /\ Len(log') <= MaxLog
    BY <1>0, <2>1, <2>2 DEF Types
  <2> QED  BY Zenon, <1>0, <1>11, <2>2, <2>3, <2>4 DEF Start, Types
<1>12. CASE SendBarrier
  BY <1>0, <1>12 DEF SendBarrier, Types
<1>13. CASE UNCHANGED vars
  BY Zenon, <1>0, <1>13 DEF vars, Types
<1> QED  BY Zenon, <1>1, <1>2, <1>3, <1>4, <1>5, <1>6, <1>7, <1>8, <1>9, <1>10, <1>11, <1>12, <1>13 DEF Next

-----------------------------------------------------------------------------
(* The way of a command.                                                   *)

\* Steps that touch neither the stages nor what is committed.
LEMMA OrderKept ==
    ASSUME PipeInv, UNCHANGED <<commit, handed, q, inHand, applyCh, msg, applied>>,
           applier' = applier \/ applier' = "exited",
           loop' = loop \/ (loop # "apply" /\ loop' \in {"idle", "exited"}),
           \A i \in 1..commit : log'[i] = log[i],
           stop = "barrier" => stop' = "barrier" \/ barrier, barrier' = barrier
    PROVE  InOrder'
<1>1. Received' = Received
  BY Zenon DEF Received
<1>2. AppliedInOrder'
  <2> SUFFICES ASSUME NEW i \in 1..Len(applied)
               PROVE  i <= commit /\ applied[i] = log'[i]
    BY Zenon DEF AppliedInOrder
  <2>1. i <= commit /\ applied[i] = log[i]
    BY Zenon DEF PipeInv, InOrder, AppliedInOrder
  <2>2. i \in 1..commit
    BY <2>1 DEF PipeInv, Types
  <2> QED  BY Zenon, <2>1, <2>2
<1>3. stop # "barrier" \/ stop' = "barrier" \/ barrier
  BY Zenon
<1>4. \A i \in 1..Len(applyCh') :
        IF applyCh'[i] = 0 THEN i = Len(applyCh') /\ stop' = "barrier" /\ ~barrier'
        ELSE applyCh'[i] = Received' + i /\ applyCh'[i] <= handed'
  BY Zenon, <1>1, <1>3 DEF PipeInv, InOrder
<1> QED  BY Zenon, <1>1, <1>2, <1>4 DEF PipeInv, InOrder

\* What is applied is committed.
LEMMA AppliedCommitted ==
    ASSUME Types, InOrder
    PROVE  Len(applied) \in Nat /\ Len(applied) <= commit
<1>1. Len(applied) \in Nat
  BY DEF Types
<1>2. Len(applied) # 0 => Len(applied) \in 1..Len(applied)
  BY <1>1
<1>3. commit \in Nat
  BY Zenon DEF Types
<1>4. \A i \in 1..Len(applied) : i <= commit
  BY Zenon DEF InOrder, AppliedInOrder
<1> QED  BY <1>1, <1>2, <1>3, <1>4

\* Every step keeps the order of what is under way.
LEMMA OrderStep == PipeInv /\ [Next]_vars => InOrder'
<1> SUFFICES ASSUME PipeInv, [Next]_vars  PROVE InOrder'
  BY Zenon
<1> USE DEF raftVars, stageVars, loopVars, callVars, stopVars
<1>0. Types /\ InOrder /\ Stopping
  BY Zenon DEF PipeInv
<1>a. /\ Len(applied) \in Nat /\ Len(applyCh) \in Nat /\ Len(inHand) \in Nat /\ Len(q) \in Nat
      /\ Received \in Nat /\ commit \in Nat /\ handed \in Nat /\ handed <= commit
      /\ Len(applied) <= commit
  BY <1>0, AppliedCommitted DEF Types, Received
<1>1. CASE Commit
  <2>1. commit' \in Nat /\ commit <= commit'
    BY <1>0, <1>1 DEF Commit, Types
  <2>2. Received' = Received
    BY Zenon, <1>1 DEF Commit, Received
  <2>3. AppliedInOrder'
    BY <1>0, <1>1, <1>a, <2>1 DEF Commit, InOrder, AppliedInOrder
  <2> QED  BY Zenon, <1>0, <1>1, <2>2, <2>3 DEF Commit, InOrder
<1>2. CASE LoseLeadership \/ WinLeadership \/ LoopExits \/ Kill \/ KillHelper \/ StopLoop \/ Save
           \/ ApplierExits \/ NotifyReply
  BY Zenon, <1>2, OrderKept DEF LoseLeadership, WinLeadership, LoopExits, Kill, KillHelper, StopLoop, Save,
                         ApplierExits, NotifyReply
<1>3. CASE Overwrite
  <2>1. PICK n \in commit..Len(log) : log' = Append(SubSeq(log, 1, n), Foreign)
    BY Zenon, <1>3 DEF Overwrite
  <2>2. \A i \in 1..commit : log'[i] = log[i]
    BY <1>0, <1>a, <2>1, OverwrittenLog
  <2> QED  BY Zenon, <1>3, <2>2, OrderKept DEF Overwrite
<1>4. CASE SendMsgToTester
  <2>1. /\ Len(q') = Len(q) + commit - handed
        /\ \A i \in 1..Len(q) : q'[i] = q[i]
        /\ \A i \in (Len(q) + 1)..Len(q') : q'[i] = handed + i - Len(q)
    BY Zenon, <1>0, <1>4, <1>a, HandedEntries DEF SendMsgToTester
  <2>2. Received' = Received /\ AppliedInOrder'
    BY Zenon, <1>0, <1>4 DEF SendMsgToTester, Received, InOrder, AppliedInOrder
  <2>3. applier # "exited" =>
          /\ handed' = Received + Len(applyCh) + Len(inHand) + Len(q')
          /\ \A i \in 1..Len(q') : q'[i] = Received + Len(applyCh) + Len(inHand) + i
    <3> SUFFICES ASSUME applier # "exited"
                 PROVE  /\ handed' = Received + Len(applyCh) + Len(inHand) + Len(q')
                        /\ \A i \in 1..Len(q') : q'[i] = Received + Len(applyCh) + Len(inHand) + i
      OBVIOUS
    <3>1. /\ handed = Received + Len(applyCh) + Len(inHand) + Len(q)
          /\ \A i \in 1..Len(q) : q[i] = Received + Len(applyCh) + Len(inHand) + i
      BY Zenon, <1>0 DEF InOrder
    <3>2. handed' = commit
      BY Zenon, <1>4 DEF SendMsgToTester
    <3> DEFINE b == Received + Len(applyCh) + Len(inHand)
    <3>3. b \in Nat /\ handed = b + Len(q) /\ Len(q') = Len(q) + commit - handed
      BY <1>a, <2>1, <3>1
    <3> HIDE DEF b
    <3>4. commit = b + Len(q')
      BY <1>a, <3>3
    <3>5. ASSUME NEW i \in 1..Len(q')  PROVE q'[i] = b + i
      <4>1. i \in 1..Len(q) \/ (i \in (Len(q) + 1)..Len(q') /\ handed + i - Len(q) = b + i)
        BY <1>a, <3>3
      <4> QED  BY Zenon, <2>1, <3>1, <4>1 DEF b
    <3> QED  BY Zenon, <3>2, <3>4, <3>5 DEF b
  <2>4. ASSUME NEW i \in 1..Len(applyCh), applyCh[i] # 0
        PROVE  applyCh[i] <= handed'
    <3>1. applyCh[i] = Received + i /\ applyCh[i] <= handed
      BY Zenon, <1>0, <2>4 DEF InOrder
    <3>2. handed' = commit
      BY Zenon, <1>4 DEF SendMsgToTester
    <3> QED  BY <1>a, <3>1, <3>2
  <2>5. loop = "apply" => msg <= handed'
    BY <1>0, <1>4, <1>a DEF SendMsgToTester, InOrder, Types
  <2> QED  BY Zenon, <1>0, <1>4, <2>2, <2>3, <2>4, <2>5 DEF SendMsgToTester, InOrder
<1>5. CASE ApplierTakes
  <2>1. /\ Len(q') = Len(q) - 1 /\ \A i \in 1..Len(q') : q'[i] = q[i + 1]
        /\ Len(inHand) = 0 /\ Len(inHand') = 1 /\ inHand'[1] = q[1] /\ Len(q) # 0
    BY <1>0, <1>5 DEF ApplierTakes, Types
  <2>2. Received' = Received /\ AppliedInOrder'
    BY Zenon, <1>0, <1>5 DEF ApplierTakes, Received, InOrder, AppliedInOrder
  <2>3. applier # "exited" =>
          /\ handed = Received + Len(applyCh) + Len(inHand') + Len(q')
          /\ \A i \in 1..Len(inHand') : inHand'[i] = Received + Len(applyCh) + i
          /\ \A i \in 1..Len(q') : q'[i] = Received + Len(applyCh) + Len(inHand') + i
    BY <1>0, <1>a, <2>1 DEF InOrder
  <2> QED  BY Zenon, <1>0, <1>5, <2>2, <2>3 DEF ApplierTakes, InOrder
<1>6. CASE ApplierSends
  <2>1. applier # "exited" /\ stop # "barrier"
    BY Zenon, <1>0, <1>6 DEF ApplierSends, Stopping
  <2>2. /\ Len(applyCh') = Len(applyCh) + Len(inHand) /\ Len(inHand') = 0
        /\ \A i \in 1..Len(applyCh) : applyCh'[i] = applyCh[i]
        /\ \A i \in 1..Len(inHand) : applyCh'[Len(applyCh) + i] = inHand[i]
    <3>1. applyCh \in Seq(Nat) /\ inHand \in Seq(Nat)
      BY Zenon, <1>0 DEF Types
    <3>2. applyCh' = applyCh \o inHand /\ inHand' = << >>
      BY Zenon, <1>6 DEF ApplierSends
    <3>3. Len(<< >>) = 0
      BY Zenon
    <3>4. /\ Len(applyCh \o inHand) = Len(applyCh) + Len(inHand)
          /\ \A i \in 1..Len(applyCh) : (applyCh \o inHand)[i] = applyCh[i]
          /\ \A i \in 1..Len(inHand) : (applyCh \o inHand)[Len(applyCh) + i] = inHand[i]
      BY <3>1, Concatenated
    <3> QED  BY Zenon, <3>2, <3>3, <3>4
  <2>3. Received' = Received /\ AppliedInOrder'
    BY Zenon, <1>0, <1>6 DEF ApplierSends, Received, InOrder, AppliedInOrder
  <2>4. ASSUME NEW i \in 1..Len(applyCh')
        PROVE  applyCh'[i] = Received + i /\ applyCh'[i] <= handed /\ applyCh'[i] # 0
    <3>1. CASE i \in 1..Len(applyCh)
      BY Zenon, <1>0, <1>a, <2>1, <2>2, <3>1 DEF InOrder
    <3>2. CASE i \notin 1..Len(applyCh)
      <4>1. i - Len(applyCh) \in 1..Len(inHand) /\ i = Len(applyCh) + (i - Len(applyCh)) /\ i \in Nat
        BY <1>a, <2>2, <3>2
      <4>2. applyCh'[i] = inHand[i - Len(applyCh)]
        BY Zenon, <2>2, <4>1
      <4>3. inHand[i - Len(applyCh)] = Received + Len(applyCh) + (i - Len(applyCh))
        BY Zenon, <1>0, <2>1, <4>1 DEF InOrder
      <4>4. handed = Received + Len(applyCh) + Len(inHand) + Len(q)
        BY Zenon, <1>0, <2>1 DEF InOrder
      <4>5. applyCh'[i] = Received + i /\ applyCh'[i] <= handed
        BY <1>a, <4>1, <4>2, <4>3, <4>4
      <4>6. Received + i # 0
        BY <1>a, <4>1
      <4> QED  BY Zenon, <4>5, <4>6
    <3> QED  BY Zenon, <3>1, <3>2
  <2>5. /\ handed = Received + Len(applyCh') + Len(inHand') + Len(q)
        /\ \A i \in 1..Len(q) : q[i] = Received + Len(applyCh') + Len(inHand') + i
    BY <1>0, <1>a, <2>1, <2>2 DEF InOrder
  <2>6. \A i \in 1..Len(inHand') : inHand'[i] = Received + Len(applyCh') + i
    BY <2>2
  <2> QED  BY Zenon, <1>0, <1>6, <2>3, <2>4, <2>5, <2>6 DEF ApplierSends, InOrder
<1>7. CASE Receive
  <2>1. /\ Len(applyCh') = Len(applyCh) - 1 /\ Len(applyCh) # 0
        /\ \A i \in 1..Len(applyCh') : applyCh'[i] = applyCh[i + 1]
        /\ Head(applyCh) = applyCh[1]
    BY <1>0, <1>7 DEF Receive, Types
  <2>2. AppliedInOrder' /\ loop = "idle" /\ Received = Len(applied)
    BY <1>0, <1>7 DEF Receive, InOrder, AppliedInOrder, Received
  <2>3. CASE Head(applyCh) = 0
    <3>1. Len(applyCh) = 1 /\ stop = "barrier" /\ applier = "exited"
      BY <1>0, <1>a, <2>1, <2>3 DEF InOrder, Stopping
    <3>2. Len(applyCh') = 0 /\ loop' = "idle"
      BY <1>7, <2>1, <2>2, <2>3, <3>1 DEF Receive
    <3>3. applier' = "exited"
      BY Zenon, <1>7, <3>1 DEF Receive
    <3>4. 1..Len(applyCh') = {}
      BY <3>2
    <3> QED  BY Zenon, <2>2, <3>2, <3>3, <3>4 DEF InOrder
  <2>4. CASE Head(applyCh) # 0
    <3>1. applyCh[1] = Len(applied) + 1 /\ applyCh[1] <= handed
      BY <1>0, <1>a, <2>1, <2>2, <2>4 DEF InOrder
    <3>2. loop' = "apply" /\ msg' = Len(applied) + 1 /\ Received' = Len(applied) + 1 /\ UNCHANGED barrier
      BY Zenon, <1>7, <2>1, <2>4, <3>1 DEF Receive, Received
    <3>3. ASSUME NEW i \in 1..Len(applyCh')
          PROVE  IF applyCh'[i] = 0 THEN i = Len(applyCh') /\ stop = "barrier" /\ ~barrier
                 ELSE applyCh'[i] = Received' + i /\ applyCh'[i] <= handed
      <4>1. i + 1 \in 1..Len(applyCh) /\ applyCh'[i] = applyCh[i + 1] /\ i \in Nat
        BY <1>a, <2>1
      <4>2. IF applyCh[i + 1] = 0 THEN i + 1 = Len(applyCh) /\ stop = "barrier" /\ ~barrier
            ELSE applyCh[i + 1] = Received + (i + 1) /\ applyCh[i + 1] <= handed
        BY Zenon, <1>0, <4>1 DEF InOrder
      <4> QED  BY <1>a, <2>1, <2>2, <3>2, <4>1, <4>2
    <3>4. applier # "exited" =>
            /\ handed = Received' + Len(applyCh') + Len(inHand) + Len(q)
            /\ \A i \in 1..Len(inHand) : inHand[i] = Received' + Len(applyCh') + i
            /\ \A i \in 1..Len(q) : q[i] = Received' + Len(applyCh') + Len(inHand) + i
      BY <1>0, <1>a, <2>1, <2>2, <3>2 DEF InOrder
    <3>5. UNCHANGED <<applier, handed, inHand, q, stop, applied>>
      BY Zenon, <1>7 DEF Receive
    <3> QED  BY Zenon, <2>2, <3>1, <3>2, <3>3, <3>4, <3>5 DEF InOrder
  <2> QED  BY Zenon, <2>3, <2>4
<1>8. CASE ApplyMsg
  <2>1. /\ msg = Len(applied) + 1 /\ msg <= commit /\ loop = "apply" /\ msg \in 1..Len(log)
        /\ Received = Len(applied) + 1
    BY <1>0, <1>8, <1>a DEF ApplyMsg, InOrder, Types, Received
  <2>2. /\ Len(applied') = Len(applied) + 1 /\ applied'[Len(applied) + 1] = log[msg]
        /\ \A i \in 1..Len(applied) : applied'[i] = applied[i]
    BY <1>0, <1>8, <2>1 DEF ApplyMsg, Types
  <2>3. loop' \in {"notify", "stuck"} /\ UNCHANGED <<msg, commit, log, applyCh, handed, q, inHand, applier,
                                                    stop, barrier>>
    BY Zenon, <1>8 DEF ApplyMsg
  <2>4. Received' = Received
    BY <2>1, <2>2, <2>3 DEF Received
  <2>5. AppliedInOrder'
    BY <1>0, <1>a, <2>1, <2>2, <2>3 DEF InOrder, AppliedInOrder
  <2>6. msg' = Len(applied') /\ msg' # 0 /\ loop' # "apply"
    BY <1>a, <2>1, <2>2, <2>3
  <2> QED  BY Zenon, <1>0, <2>3, <2>4, <2>5, <2>6 DEF InOrder
<1>9. ASSUME NEW c \in Client, Refused(c) \/ Answered(c) \/ Timeout(c) \/ Register(c) \/ Forget(c)
      PROVE  InOrder'
  BY Zenon, <1>9, OrderKept DEF Refused, Answered, Timeout, Register, Forget
<1>10. ASSUME NEW c \in Client, Start(c)  PROVE InOrder'
  <2>1. \A i \in 1..commit : log'[i] = log[i]
    BY <1>0, <1>10 DEF Start, Types
  <2> QED  BY Zenon, <1>10, <2>1, OrderKept DEF Start
<1>11. CASE SendBarrier
  <2>1. /\ Len(applyCh') = Len(applyCh) + 1 /\ applyCh'[Len(applyCh) + 1] = 0
        /\ \A i \in 1..Len(applyCh) : applyCh'[i] = applyCh[i]
    BY <1>0, <1>11 DEF SendBarrier, Types
  <2>2. stop = "killed" /\ stop' = "barrier" /\ applier = "exited" /\ ~barrier
    BY Zenon, <1>0, <1>11 DEF SendBarrier, Stopping
  <2>3. UNCHANGED <<log, commit, handed, applier, loop, msg, applied, barrier>>
    BY Zenon, <1>11 DEF SendBarrier
  <2>4. Received' = Received /\ AppliedInOrder'
    BY Zenon, <1>0, <2>3 DEF Received, InOrder, AppliedInOrder
  <2>5. ASSUME NEW i \in 1..Len(applyCh')
        PROVE  IF applyCh'[i] = 0 THEN i = Len(applyCh') /\ stop' = "barrier" /\ ~barrier'
               ELSE applyCh'[i] = Received' + i /\ applyCh'[i] <= handed'
    <3>0. Len(applyCh) \in Nat
      BY <1>0 DEF Types
    <3>1. CASE i = Len(applyCh) + 1
      BY Zenon, <2>1, <2>2, <2>3, <3>1
    <3>2. CASE i # Len(applyCh) + 1
      <4>1. i \in 1..Len(applyCh) /\ applyCh'[i] = applyCh[i]
        BY <2>1, <3>0, <3>2
      <4>2. applyCh[i] # 0 /\ applyCh[i] = Received + i /\ applyCh[i] <= handed
        BY Zenon, <1>0, <2>2, <4>1 DEF InOrder
      <4> QED  BY Zenon, <2>3, <2>4, <4>1, <4>2
    <3> QED  BY Zenon, <3>1, <3>2
  <2> QED  BY Zenon, <1>0, <2>2, <2>3, <2>4, <2>5 DEF InOrder
<1>12. CASE UNCHANGED vars
  BY Zenon, <1>12, OrderKept DEF vars
<1> QED  BY Zenon, <1>1, <1>2, <1>3, <1>4, <1>5, <1>6, <1>7, <1>8, <1>9, <1>10, <1>11, <1>12 DEF Next

\* Steps that leave the stages alone.
LEMMA StoppingKept ==
    ASSUME Stopping, UNCHANGED <<applier, inHand, stop, barrier, applyCh, loop>>
    PROVE  Stopping'
BY Zenon DEF Stopping

\* Every step keeps the order in which the stages stop.
LEMMA StoppingStep == PipeInv /\ [Next]_vars => Stopping'
<1> SUFFICES ASSUME PipeInv, [Next]_vars  PROVE Stopping'
  BY Zenon
<1> USE DEF raftVars, stageVars, loopVars, callVars, stopVars
<1>0. Types /\ InOrder /\ Stopping
  BY Zenon DEF PipeInv
<1>1. CASE Commit \/ LoseLeadership \/ Overwrite \/ WinLeadership \/ SendMsgToTester
  BY Zenon, <1>0, <1>1, StoppingKept DEF Commit, LoseLeadership, Overwrite, WinLeadership, SendMsgToTester
<1>a. CASE Kill \/ KillHelper
  BY <1>0, <1>a DEF Kill, KillHelper, Stopping
<1>b. CASE StopLoop \/ Save \/ LoopExits
  BY Zenon, <1>0, <1>b DEF StopLoop, Save, LoopExits, Stopping
<1>2. CASE ApplierTakes \/ ApplierExits
  BY <1>0, <1>2 DEF ApplierTakes, ApplierExits, Stopping
<1>3. CASE ApplierSends
  BY Zenon, <1>0, <1>3 DEF ApplierSends, Stopping
<1>4. CASE Receive
  <2>1. ~barrier
    BY Zenon, <1>0, <1>4 DEF Receive, Stopping
  <2>2. CASE Head(applyCh) = 0
    <3>1. applyCh[1] = 0 /\ 1 \in 1..Len(applyCh)
      BY <1>0, <1>4, <2>2 DEF Receive, Types
    <3>2. Len(applyCh) = 1 /\ stop = "barrier"
      BY Zenon, <1>0, <3>1 DEF InOrder
    <3>3. applyCh' = << >>
      <4>1. applyCh' = Tail(applyCh) /\ applyCh \in Seq(Nat) /\ applyCh # << >>
        BY Zenon, <1>0, <1>4 DEF Receive, Types
      <4>2. applyCh' \in Seq(Nat) /\ Len(applyCh') = 0
        BY <3>2, <4>1
      <4> QED  BY <4>2
    <3> QED  BY Zenon, <1>0, <1>4, <2>2, <3>2, <3>3 DEF Receive, Stopping
  <2>3. CASE Head(applyCh) # 0
    BY Zenon, <1>0, <1>4, <2>1, <2>3 DEF Receive, Stopping
  <2> QED  BY Zenon, <2>2, <2>3
<1>5. CASE ApplyMsg \/ NotifyReply
  BY <1>0, <1>5 DEF ApplyMsg, NotifyReply, Stopping
<1>6. ASSUME NEW c \in Client,
             Refused(c) \/ Start(c) \/ Answered(c) \/ Timeout(c) \/ Register(c) \/ Forget(c)
      PROVE  Stopping'
  BY Zenon, <1>0, <1>6, StoppingKept DEF Refused, Start, Answered, Timeout, Register, Forget
<1>7. CASE SendBarrier
  BY Zenon, <1>0, <1>7 DEF SendBarrier, Stopping
<1>8. CASE UNCHANGED vars
  BY Zenon, <1>0, <1>8 DEF vars, Stopping
<1> QED  BY Zenon, <1>1, <1>a, <1>b, <1>2, <1>3, <1>4, <1>5, <1>6, <1>7, <1>8 DEF Next
-----------------------------------------------------------------------------
(* The callers of Submit.                                                  *)

\* Steps that leave callers and table alone.
LEMMA CallsKept ==
    ASSUME Calls, UNCHANGED <<mu, replyCh, phase, idx, channel, applied>>
    PROVE  Calls'
BY Zenon DEF Calls, Callers, Waiters

\* The index the loop works on is one of the table.
LEMMA MsgInTable ==
    ASSUME PipeInv, loop = "notify"
    PROVE  msg \in 1..MaxLog /\ msg \in 1..Len(log) /\ msg = Len(applied)
<1>1. Types /\ InOrder
  BY Zenon DEF PipeInv
<1>2. msg = Len(applied) /\ msg # 0 /\ msg \in Nat
  BY Zenon, <1>1 DEF InOrder, Types
<1>3. /\ commit <= Len(log) /\ commit \in Nat /\ Len(log) \in Nat
      /\ Len(log) <= MaxLog /\ MaxLog \in Nat
  BY <1>1, PipelineConstants DEF Types, PipelineConstants
<1>4. msg <= commit
  BY Zenon, <1>1, <1>2, AppliedCommitted
<1> QED  BY <1>2, <1>3, <1>4

\* Every step keeps track of who holds s.mu and of who waits.
LEMMA CallsStep == PipeInv /\ [Next]_vars => Calls'
<1> SUFFICES ASSUME PipeInv, [Next]_vars  PROVE Calls'
  BY Zenon
<1> USE DEF raftVars, stageVars, loopVars, callVars, stopVars
<1>0. Types /\ InOrder /\ Calls /\ Callers /\ Waiters
  BY Zenon DEF PipeInv, Calls
<1>a. Client \cap {Free, "loop", Nobody, Empty} = {}
  BY Zenon, PipelineConstants DEF PipelineConstants, Nobody, Empty
<1>b. Len(log) \in Nat
  BY <1>0 DEF Types
<1>t. /\ replyCh \in [1..MaxLog -> Client \cup {Nobody}]
      /\ phase \in [Client -> Phases] /\ idx \in [Client -> 0..MaxLog]
      /\ channel \in [Client -> Commander \cup {Empty}]
  BY Zenon, <1>0 DEF Types
<1>1. CASE Commit \/ LoseLeadership \/ WinLeadership \/ SendMsgToTester \/ ApplierTakes
           \/ ApplierSends \/ ApplierExits
  BY Zenon, <1>0, <1>1, CallsKept DEF Commit, LoseLeadership, WinLeadership, SendMsgToTester, ApplierTakes,
                               ApplierSends, ApplierExits
<1>2. CASE Receive \/ LoopExits \/ Kill \/ KillHelper \/ SendBarrier \/ StopLoop \/ Save
  BY Zenon, <1>0, <1>2, CallsKept DEF Receive, LoopExits, Kill, KillHelper, SendBarrier, StopLoop, Save
<1>3. CASE Overwrite
  BY Zenon, <1>0, <1>3, CallsKept DEF Overwrite
<1>4. CASE ApplyMsg
  <2>1. /\ UNCHANGED <<log, foreigns, replyCh, phase, idx, channel>>
        /\ mu = Free /\ mu' \in {Free, "loop"}
    BY Zenon, <1>4 DEF ApplyMsg
  <2>2. \A c \in Client : phase[c] # "started" /\ mu' # c
    BY Zenon, <1>0, <1>a, <2>1 DEF Callers
  <2>3. Callers'
    BY Zenon, <1>0, <2>1, <2>2 DEF Callers
  <2> QED  BY Zenon, <1>0, <2>1, <2>3 DEF Calls, Waiters
<1>5. CASE NotifyReply
  <2>1. UNCHANGED <<applied, mu, phase, idx>>
    BY Zenon, <1>5 DEF NotifyReply
  <2>2. \A i \in 1..MaxLog : replyCh'[i] = IF i = msg THEN Nobody ELSE replyCh[i]
    BY Zenon, <1>t, <1>5 DEF NotifyReply
  <2>3. \A c \in Client : c # replyCh[msg] => channel'[c] = channel[c]
    BY Zenon, <1>t, <1>5 DEF NotifyReply
  <2>4. msg \in 1..MaxLog
    BY Zenon, <1>5, MsgInTable DEF NotifyReply
  <2>5. \A c \in Client : phase[c] \in {"new", "started"} => c # replyCh[msg]
    BY Zenon, <1>0, <1>a, <2>4 DEF Waiters
  <2>6. Callers'
    BY Zenon, <1>0, <2>1, <2>3, <2>5 DEF Callers
  <2>7. \A i \in 1..MaxLog : replyCh'[i] # Nobody => replyCh'[i] = replyCh[i] /\ i # msg
    BY Zenon, <2>2
  <2>8. \A i \in 1..MaxLog : replyCh'[i] # Nobody => replyCh[i] # replyCh[msg]
    <3> SUFFICES ASSUME NEW i \in 1..MaxLog, replyCh'[i] # Nobody, replyCh[i] = replyCh[msg]
                 PROVE  FALSE
      BY Zenon
    <3>1. replyCh[i] # Nobody /\ i # msg
      BY Zenon, <2>7
    <3>2. idx[replyCh[i]] = i /\ idx[replyCh[msg]] = msg
      BY Zenon, <1>0, <2>4, <3>1 DEF Waiters
    <3> QED  BY Zenon, <3>1, <3>2
  <2>9. Waiters'
    <3> SUFFICES ASSUME NEW i \in 1..MaxLog, replyCh'[i] # Nobody
                 PROVE  /\ replyCh'[i] \in Client
                        /\ phase'[replyCh'[i]] \in {"waiting", "timed out"}
                        /\ idx'[replyCh'[i]] = i
                        /\ channel'[replyCh'[i]] = Empty
      BY Zenon DEF Waiters
    <3>1. replyCh'[i] = replyCh[i] /\ replyCh[i] # Nobody /\ replyCh[i] # replyCh[msg]
      BY Zenon, <2>7, <2>8
    <3>2. /\ replyCh[i] \in Client /\ phase[replyCh[i]] \in {"waiting", "timed out"}
          /\ idx[replyCh[i]] = i /\ channel[replyCh[i]] = Empty
      BY Zenon, <1>0, <3>1 DEF Waiters
    <3> QED  BY Zenon, <2>1, <2>3, <3>1, <3>2
  <2> QED  BY Zenon, <2>6, <2>9 DEF Calls
<1>6. ASSUME NEW c \in Client, Refused(c)  PROVE Calls'
  <2>1. phase' = [phase EXCEPT ![c] = "failed"] /\ phase[c] = "new"
        /\ UNCHANGED <<log, foreigns, applied, mu, replyCh, idx, channel>>
    BY Zenon, <1>6 DEF Refused
  <2>3. phase'[c] = "failed" /\ \A p \in Client : p # c => phase'[p] = phase[p]
    BY Zenon, <1>t, <2>1
  <2>4. \A i \in 1..MaxLog : replyCh[i] # Nobody => replyCh[i] # c
    BY Zenon, <1>0, <2>1 DEF Waiters
  <2>6. Callers'
    BY Zenon, <1>0, <2>1, <2>3 DEF Callers
  <2>7. Waiters'
    <3> SUFFICES ASSUME NEW i \in 1..MaxLog, replyCh'[i] # Nobody
                 PROVE  /\ replyCh'[i] \in Client
                        /\ phase'[replyCh'[i]] \in {"waiting", "timed out"}
                        /\ idx'[replyCh'[i]] = i
                        /\ channel'[replyCh'[i]] = Empty
      BY Zenon DEF Waiters
    <3>1. replyCh'[i] = replyCh[i] /\ replyCh[i] # Nobody /\ replyCh[i] # c
      BY Zenon, <2>1, <2>4
    <3>2. /\ replyCh[i] \in Client /\ phase[replyCh[i]] \in {"waiting", "timed out"}
          /\ idx[replyCh[i]] = i /\ channel[replyCh[i]] = Empty
      BY Zenon, <1>0, <3>1 DEF Waiters
    <3> QED  BY Zenon, <2>1, <2>3, <3>1, <3>2
  <2> QED  BY Zenon, <2>6, <2>7 DEF Calls
<1>7. ASSUME NEW c \in Client, Start(c)  PROVE Calls'
  <2>1. phase' = [phase EXCEPT ![c] = "started"] /\ phase[c] = "new" /\ mu = Free /\ mu' = c
        /\ log' = Append(log, c) /\ idx' = [idx EXCEPT ![c] = Len(log) + 1]
        /\ UNCHANGED <<foreigns, applied, replyCh, channel>>
    BY Zenon, <1>7 DEF Start
  <2>3. Len(log') = Len(log) + 1
    BY <1>0, <2>1 DEF Types
  <2>4. \A p \in Client : p # c => phase'[p] = phase[p] /\ idx'[p] = idx[p]
    BY Zenon, <1>t, <2>1
  <2>5. \A p \in Client : phase[p] # "started"
    BY Zenon, <1>0, <1>a, <2>1 DEF Callers
  <2>6. phase'[c] = "started" /\ idx'[c] = Len(log) + 1
    BY Zenon, <1>t, <2>1
  <2>7. idx'[c] > Len(applied)
    <3>1. commit <= Len(log) /\ commit \in Nat
      BY Zenon, <1>0 DEF Types
    <3> QED  BY <1>0, <1>b, <2>6, <3>1, AppliedCommitted
  <2>8. \A i \in 1..MaxLog : replyCh[i] # Nobody => replyCh[i] # c
    BY Zenon, <1>0, <2>1 DEF Waiters
  <2>10. Callers'
    <3>1. channel[c] = Empty
      BY Zenon, <1>0, <2>1 DEF Callers
    <3> QED  BY Zenon, <1>0, <2>1, <2>4, <2>5, <2>6, <2>7, <3>1 DEF Callers
  <2>11. Waiters'
    BY ZenonT(30), <1>0, <2>1, <2>4, <2>8 DEF Waiters
  <2> QED  BY Zenon, <2>10, <2>11 DEF Calls
<1>8. ASSUME NEW c \in Client, Register(c)  PROVE Calls'
  <2>1. phase' = [phase EXCEPT ![c] = "waiting"] /\ phase[c] = "started" /\ mu' = Free
        /\ replyCh' = [replyCh EXCEPT ![idx[c]] = c]
        /\ UNCHANGED <<log, foreigns, applied, idx, channel>>
    BY Zenon, <1>8 DEF Register
  <2>3. phase'[c] = "waiting" /\ \A p \in Client : p # c => phase'[p] = phase[p]
    BY Zenon, <1>t, <2>1
  <2>4. \A p \in Client : p # c => phase[p] # "started"
    BY Zenon, <1>0, <2>1 DEF Callers
  <2>5. idx[c] # 0 /\ channel[c] = Empty
    <3>1. idx[c] > Len(applied) /\ channel[c] = Empty
      BY Zenon, <1>0, <2>1 DEF Callers
    <3>2. idx[c] \in Int
      BY <1>t
    <3> QED  BY <1>0, <3>1, <3>2, AppliedCommitted
  <2>6. \A i \in 1..MaxLog : replyCh'[i] = IF i = idx[c] THEN c ELSE replyCh[i]
    BY Zenon, <1>t, <2>1
  <2>7. \A i \in 1..MaxLog : replyCh[i] # Nobody => replyCh[i] # c
    BY Zenon, <1>0, <2>1 DEF Waiters
  <2>8. Callers'
    BY Zenon, <1>0, <1>a, <2>1, <2>3, <2>4, <2>5 DEF Callers
  <2>9. Waiters'
    <3> SUFFICES ASSUME NEW i \in 1..MaxLog, replyCh'[i] # Nobody
                 PROVE  /\ replyCh'[i] \in Client
                        /\ phase'[replyCh'[i]] \in {"waiting", "timed out"}
                        /\ idx'[replyCh'[i]] = i
                        /\ channel'[replyCh'[i]] = Empty
      BY Zenon DEF Waiters
    <3>1. CASE i = idx[c]
      BY Zenon, <2>1, <2>3, <2>5, <2>6, <3>1
    <3>2. CASE i # idx[c]
      <4>1. replyCh'[i] = replyCh[i] /\ replyCh[i] # Nobody /\ replyCh[i] # c
        BY Zenon, <2>6, <2>7, <3>2
      <4>2. /\ replyCh[i] \in Client /\ phase[replyCh[i]] \in {"waiting", "timed out"}
            /\ idx[replyCh[i]] = i /\ channel[replyCh[i]] = Empty
        BY Zenon, <1>0, <4>1 DEF Waiters
      <4> QED  BY Zenon, <2>1, <2>3, <4>1, <4>2
    <3> QED  BY Zenon, <3>1, <3>2
  <2> QED  BY Zenon, <2>8, <2>9 DEF Calls
<1>9. ASSUME NEW c \in Client, Answered(c) \/ Timeout(c)  PROVE Calls'
  <2>1. /\ \/ phase' = [phase EXCEPT ![c] = "answered"] /\ channel[c] # Empty
           \/ phase' = [phase EXCEPT ![c] = "timed out"]
        /\ phase[c] = "waiting" /\ UNCHANGED <<log, foreigns, applied, mu, replyCh, idx, channel>>
    BY Zenon, <1>9 DEF Answered, Timeout
  <2>3. \A p \in Client : p # c => phase'[p] = phase[p]
    BY Zenon, <1>t, <2>1
  <2>4. phase'[c] = "timed out" \/ (phase'[c] = "answered" /\ channel[c] # Empty)
    BY Zenon, <1>t, <2>1
  <2>5. Callers'
    BY Zenon, <1>0, <2>1, <2>3, <2>4 DEF Callers
  <2>6. Waiters'
    BY Zenon, <1>0, <2>1, <2>3, <2>4 DEF Waiters
  <2> QED  BY Zenon, <2>5, <2>6 DEF Calls
<1>10. ASSUME NEW c \in Client, Forget(c)  PROVE Calls'
  <2>1. phase' = [phase EXCEPT ![c] = "failed"] /\ phase[c] = "timed out"
        /\ replyCh' = [replyCh EXCEPT ![idx[c]] = Nobody]
        /\ UNCHANGED <<log, foreigns, applied, mu, idx, channel>>
    BY Zenon, <1>10 DEF Forget
  <2>3. phase'[c] = "failed" /\ \A p \in Client : p # c => phase'[p] = phase[p]
    BY Zenon, <1>t, <2>1
  <2>4. \A i \in 1..MaxLog : replyCh'[i] # Nobody => replyCh'[i] = replyCh[i] /\ i # idx[c]
    BY Zenon, <1>t, <2>1
  <2>5. Callers'
    BY Zenon, <1>0, <2>1, <2>3 DEF Callers
  <2>6. \A i \in 1..MaxLog : replyCh'[i] # Nobody => replyCh[i] # c
    BY Zenon, <1>0, <2>4 DEF Waiters
  <2>7. Waiters'
    <3> SUFFICES ASSUME NEW i \in 1..MaxLog, replyCh'[i] # Nobody
                 PROVE  /\ replyCh'[i] \in Client
                        /\ phase'[replyCh'[i]] \in {"waiting", "timed out"}
                        /\ idx'[replyCh'[i]] = i
                        /\ channel'[replyCh'[i]] = Empty
      BY Zenon DEF Waiters
    <3>1. replyCh'[i] = replyCh[i] /\ replyCh[i] # Nobody /\ replyCh[i] # c
      BY Zenon, <2>4, <2>6
    <3>2. /\ replyCh[i] \in Client /\ phase[replyCh[i]] \in {"waiting", "timed out"}
          /\ idx[replyCh[i]] = i /\ channel[replyCh[i]] = Empty
      BY Zenon, <1>0, <3>1 DEF Waiters
    <3> QED  BY Zenon, <2>1, <2>3, <3>1, <3>2
  <2> QED  BY Zenon, <2>5, <2>7 DEF Calls
<1>11. CASE UNCHANGED vars
  BY Zenon, <1>0, <1>11, CallsKept DEF vars
<1> QED  BY Zenon, <1>1, <1>2, <1>3, <1>4, <1>5, <1>6, <1>7, <1>8, <1>9, <1>10, <1>11 DEF Next

-----------------------------------------------------------------------------
(* Answers, while nobody replaces entries.                                 *)

\* Steps of Raft, ApplyHelper and Shutdown, and of a loop that is idle.
LEMMA SettledKept ==
    ASSUME Settled, NoAnswerLost, UNCHANGED <<log, foreigns, applied, replyCh, phase, idx, channel>>,
           UNCHANGED <<loop, msg>> \/ loop = "idle"
    PROVE  Settled' /\ NoAnswerLost'
<1>1. Settled'
  BY Zenon DEF Settled
<1>2. NoAnswerLost'
  BY Zenon DEF NoAnswerLost
<1> QED  BY Zenon, <1>1, <1>2

\* The caller gets another phase, in which it does not wait.
LEMMA SettledLeft ==
    ASSUME Types, Settled, NoAnswerLost, NEW c \in Client, NEW f \in Phases \ {"waiting"},
           phase' = [phase EXCEPT ![c] = f],
           UNCHANGED <<log, foreigns, applied, replyCh, idx, channel, loop, msg>>
    PROVE  Settled' /\ NoAnswerLost'
<1>1. phase'[c] # "waiting" /\ \A p \in Client : p # c => phase'[p] = phase[p]
  BY Zenon DEF Types
<1>2. Settled'
  BY Zenon, <1>1 DEF Settled
<1>3. NoAnswerLost'
  BY Zenon, <1>1 DEF NoAnswerLost
<1> QED  BY Zenon, <1>2, <1>3

\* Index 0 stands for none.
LEMMA PositiveIndex ==
    ASSUME NEW m \in Nat, NEW a \in Nat, NEW i \in 0..m, i # 0 \/ i > a
    PROVE  i \in 1..m /\ i # 0
OBVIOUS

\* Every step keeps commands, answers and waiters together.
LEMMA SettledStep == PipeInv /\ [Next]_vars => Settled' /\ NoAnswerLost'
<1> SUFFICES ASSUME PipeInv, [Next]_vars  PROVE Settled' /\ NoAnswerLost'
  BY Zenon
<1> USE DEF raftVars, stageVars, loopVars, callVars, stopVars
<1>0. Types /\ InOrder /\ Callers /\ Waiters /\ Settled /\ NoAnswerLost
  BY Zenon DEF PipeInv, Calls
<1>a. Empty \notin Client
  BY Zenon, PipelineConstants DEF PipelineConstants, Empty
<1>t. /\ replyCh \in [1..MaxLog -> Client \cup {Nobody}]
      /\ phase \in [Client -> Phases] /\ idx \in [Client -> 0..MaxLog]
      /\ channel \in [Client -> Commander \cup {Empty}]
      /\ Len(log) \in Nat /\ Len(applied) \in Nat /\ foreigns \in Nat
  BY <1>0, PipelineConstants DEF Types, PipelineConstants
<1>b. ASSUME NEW c \in Client, phase[c] = "waiting" \/ phase[c] = "timed out" \/ phase[c] = "started"
      PROVE  idx[c] \in 1..MaxLog /\ idx[c] # 0
  <2>1. idx[c] # 0 \/ idx[c] > Len(applied)
    BY Zenon, <1>0, <1>b DEF Callers
  <2>2. idx[c] \in 0..MaxLog
    BY Zenon, <1>t
  <2>3. MaxLog \in Nat
    BY Zenon, PipelineConstants DEF PipelineConstants
  <2>4. Len(applied) \in Nat
    BY Zenon, <1>t
  <2> QED  BY Zenon, <2>1, <2>2, <2>3, <2>4, PositiveIndex
<1>c. ASSUME foreigns = 0, NEW c \in Client, idx[c] # 0, NEW p \in Client, p # c
      PROVE  idx[p] # idx[c]
  BY Zenon, <1>0, <1>c DEF Settled
<1>1. CASE Commit \/ LoseLeadership \/ WinLeadership \/ SendMsgToTester \/ ApplierTakes
           \/ ApplierSends \/ ApplierExits
  BY Zenon, <1>0, <1>1, SettledKept DEF Commit, LoseLeadership, WinLeadership, SendMsgToTester, ApplierTakes,
                                 ApplierSends, ApplierExits
<1>2. CASE Receive \/ LoopExits \/ Kill \/ KillHelper \/ SendBarrier \/ StopLoop \/ Save
  BY Zenon, <1>0, <1>2, SettledKept DEF Receive, LoopExits, Kill, KillHelper, SendBarrier, StopLoop, Save
<1>3. CASE Overwrite
  <2>1. foreigns' # 0
    BY <1>t, <1>3 DEF Overwrite
  <2> QED  BY Zenon, <2>1 DEF Settled, NoAnswerLost
<1>4. CASE ApplyMsg
  <2>1. /\ loop = "apply" /\ loop' \in {"notify", "stuck"} /\ applied' = Append(applied, log[msg])
        /\ UNCHANGED <<log, foreigns, msg, replyCh, phase, idx, channel>>
    BY Zenon, <1>4 DEF ApplyMsg
  <2>2. Settled'
    BY Zenon, <1>0, <2>1 DEF Settled
  <2>3. msg = Len(applied) + 1
    BY Zenon, <1>0, <2>1 DEF InOrder
  <2>4. Len(applied') = Len(applied) + 1
    BY <1>0, <1>4, TypesStep DEF ApplyMsg, Types
  <2>5. ASSUME NEW c \in Client, foreigns = 0, phase[c] = "waiting", idx[c] \in 1..Len(applied')
        PROVE  channel[c] = c \/ msg = idx[c]
    <3>1. CASE idx[c] \in 1..Len(applied)
      BY Zenon, <1>0, <2>1, <2>5, <3>1 DEF NoAnswerLost
    <3>2. CASE idx[c] \notin 1..Len(applied)
      BY <1>t, <2>3, <2>4, <2>5, <3>2
    <3> QED  BY Zenon, <3>1, <3>2
  <2> QED  BY Zenon, <2>1, <2>2, <2>5 DEF NoAnswerLost
<1>5. CASE NotifyReply
  <2>1. loop = "notify" /\ UNCHANGED <<log, foreigns, applied, phase, idx>>
    BY Zenon, <1>5 DEF NotifyReply
  <2>2. msg \in 1..MaxLog
    BY Zenon, <2>1, MsgInTable
  <2>3. \A i \in 1..MaxLog : replyCh'[i] = IF i = msg THEN Nobody ELSE replyCh[i]
    BY Zenon, <1>t, <1>5 DEF NotifyReply
  <2>4. \A c \in Client : c # replyCh[msg] => channel'[c] = channel[c]
    BY Zenon, <1>t, <1>5 DEF NotifyReply
  <2>5. ASSUME foreigns = 0, NEW c \in Client, c = replyCh[msg]
        PROVE  channel'[c] = c
    <3>1. c # Nobody
      BY Zenon, PipelineConstants DEF PipelineConstants, Nobody
    <3>2. channel[c] = Empty /\ idx[c] = msg
      BY Zenon, <1>0, <2>2, <2>5, <3>1 DEF Waiters
    <3>3. msg # 0
      BY <2>2
    <3>4. log[msg] = c
      BY Zenon, <1>0, <2>5, <3>2, <3>3 DEF Settled
    <3>5. channel'[c] = log[msg]
      BY Zenon, <1>t, <1>5, <2>5, <3>1, <3>2 DEF NotifyReply
    <3> QED  BY Zenon, <3>4, <3>5
  <2>6. ASSUME foreigns = 0, NEW c \in Client
        PROVE  /\ idx[c] # 0 => idx[c] <= Len(log) /\ log[idx[c]] = c
               /\ channel'[c] \in {c, Empty}
               /\ phase[c] = "waiting" /\ channel'[c] = Empty => replyCh'[idx[c]] = c
    <3>1. idx[c] # 0 => idx[c] <= Len(log) /\ log[idx[c]] = c
      BY Zenon, <1>0, <2>6 DEF Settled
    <3>2. channel'[c] \in {c, Empty}
      BY Zenon, <1>0, <2>4, <2>5, <2>6 DEF Settled
    <3>3. ASSUME phase[c] = "waiting", channel'[c] = Empty  PROVE replyCh'[idx[c]] = c
      <4>1. c # replyCh[msg]
        BY Zenon, <1>a, <2>5, <2>6, <3>3
      <4>2. channel[c] = Empty
        BY Zenon, <2>4, <3>3, <4>1
      <4>3. replyCh[idx[c]] = c
        BY Zenon, <1>0, <2>6, <3>3, <4>2 DEF Settled
      <4>4. idx[c] \in 1..MaxLog
        BY Zenon, <1>b, <3>3
      <4> QED  BY Zenon, <2>3, <4>1, <4>3, <4>4
    <3> QED  BY Zenon, <3>1, <3>2, <3>3
  <2>7. Settled'
    BY Zenon, <2>1, <2>6 DEF Settled
  <2>8. ASSUME foreigns = 0, NEW c \in Client, phase[c] = "waiting", idx[c] \in 1..Len(applied)
        PROVE  channel'[c] = c
    <3>1. CASE c = replyCh[msg]
      BY Zenon, <2>5, <2>8, <3>1
    <3>2. CASE c # replyCh[msg]
      <4>1. channel[c] = c \/ msg = idx[c]
        BY Zenon, <1>0, <2>1, <2>8 DEF NoAnswerLost
      <4>2. channel[c] \in {c, Empty}
        BY Zenon, <1>0, <2>8 DEF Settled
      <4>3. channel[c] # Empty
        <5> SUFFICES ASSUME channel[c] = Empty  PROVE FALSE
          BY Zenon
        <5>1. replyCh[idx[c]] = c
          BY Zenon, <1>0, <2>8 DEF Settled
        <5> QED  BY Zenon, <1>a, <3>2, <4>1, <5>1
      <4> QED  BY Zenon, <2>4, <3>2, <4>2, <4>3
    <3> QED  BY Zenon, <3>1, <3>2
  <2>9. NoAnswerLost'
    BY Zenon, <2>1, <2>8 DEF NoAnswerLost
  <2> QED  BY Zenon, <2>7, <2>9
<1>6. ASSUME NEW c \in Client, Refused(c) \/ Answered(c) \/ Timeout(c)
      PROVE  Settled' /\ NoAnswerLost'
  <2>1. PICK f \in Phases \ {"waiting"} : phase' = [phase EXCEPT ![c] = f]
    BY Zenon, <1>6 DEF Refused, Answered, Timeout, Phases
  <2>2. UNCHANGED <<log, foreigns, applied, replyCh, idx, channel, loop, msg>>
    BY Zenon, <1>6 DEF Refused, Answered, Timeout
  <2> QED  BY Zenon, <1>0, <2>1, <2>2, SettledLeft
<1>7. ASSUME NEW c \in Client, Start(c)  PROVE Settled' /\ NoAnswerLost'
  <2>1. phase' = [phase EXCEPT ![c] = "started"]
        /\ log' = Append(log, c) /\ idx' = [idx EXCEPT ![c] = Len(log) + 1]
        /\ UNCHANGED <<foreigns, applied, replyCh, channel, loop, msg>>
    BY Zenon, <1>7 DEF Start
  <2>2. phase'[c] = "started" /\ \A p \in Client : p # c => phase'[p] = phase[p] /\ idx'[p] = idx[p]
    BY Zenon, <1>t, <2>1
  <2>3. /\ idx'[c] = Len(log) + 1 /\ log'[Len(log) + 1] = c /\ Len(log') = Len(log) + 1
        /\ \A i \in 1..Len(log) : log'[i] = log[i]
    <3>1. log \in Seq(Commander) /\ c \in Commander
      BY Zenon, <1>0 DEF Types, Commander
    <3> QED  BY <1>t, <2>1, <3>1
  <2>4. ASSUME foreigns = 0, NEW p \in Client, idx'[p] # 0
        PROVE  idx'[p] <= Len(log') /\ log'[idx'[p]] = p
    <3>1. CASE p = c
      BY <1>t, <2>3, <3>1
    <3>2. CASE p # c
      <4>1. idx'[p] = idx[p] /\ idx[p] \in Nat /\ idx[p] # 0
        BY <1>t, <2>2, <2>4, <3>2
      <4>2. idx[p] <= Len(log) /\ log[idx[p]] = p
        BY Zenon, <1>0, <2>4, <4>1 DEF Settled
      <4>3. idx[p] \in 1..Len(log)
        BY <1>t, <4>1, <4>2
      <4> QED  BY <1>t, <2>3, <4>1, <4>2, <4>3
    <3> QED  BY Zenon, <3>1, <3>2
  <2>5. Settled'
    <3> SUFFICES ASSUME foreigns = 0, NEW p \in Client
                 PROVE  /\ channel[p] \in {p, Empty}
                        /\ phase'[p] = "waiting" /\ channel[p] = Empty => replyCh[idx'[p]] = p
      BY Zenon, <2>1, <2>4 DEF Settled
    <3> QED  BY Zenon, <1>0, <2>2 DEF Settled
  <2>6. NoAnswerLost'
    BY Zenon, <1>0, <2>1, <2>2 DEF NoAnswerLost
  <2> QED  BY Zenon, <2>5, <2>6
<1>8. ASSUME NEW c \in Client, Register(c)  PROVE Settled' /\ NoAnswerLost'
  <2>1. phase' = [phase EXCEPT ![c] = "waiting"] /\ phase[c] = "started"
        /\ replyCh' = [replyCh EXCEPT ![idx[c]] = c]
        /\ UNCHANGED <<log, foreigns, applied, idx, channel, loop, msg>>
    BY Zenon, <1>8 DEF Register
  <2>2. \A p \in Client : p # c => phase'[p] = phase[p]
    BY Zenon, <1>t, <2>1
  <2>3. idx[c] \in 1..MaxLog /\ idx[c] # 0
    BY Zenon, <1>b, <2>1
  <2>4. \A i \in 1..MaxLog : replyCh'[i] = IF i = idx[c] THEN c ELSE replyCh[i]
    BY Zenon, <1>t, <2>1
  <2>5. ASSUME foreigns = 0, NEW p \in Client, phase'[p] = "waiting", channel[p] = Empty
        PROVE  replyCh'[idx[p]] = p
    <3>1. CASE p = c
      BY Zenon, <2>3, <2>4, <3>1
    <3>2. CASE p # c
      <4>1. idx[p] # idx[c]
        BY Zenon, <1>c, <2>3, <2>5, <3>2
      <4>2. idx[p] \in 1..MaxLog /\ phase[p] = "waiting"
        BY Zenon, <1>b, <2>2, <2>5, <3>2
      <4>3. replyCh[idx[p]] = p
        BY Zenon, <1>0, <2>5, <4>2 DEF Settled
      <4> QED  BY Zenon, <2>4, <4>1, <4>2, <4>3
    <3> QED  BY Zenon, <3>1, <3>2
  <2>6. Settled'
    BY Zenon, <1>0, <2>1, <2>5 DEF Settled
  <2>7. idx[c] \notin 1..Len(applied)
    <3>1. idx[c] > Len(applied)
      BY Zenon, <1>0, <2>1 DEF Callers
    <3> QED  BY <1>t, <2>3, <3>1
  <2>8. NoAnswerLost'
    BY Zenon, <1>0, <2>1, <2>2, <2>7 DEF NoAnswerLost
  <2> QED  BY Zenon, <2>6, <2>8
<1>9. ASSUME NEW c \in Client, Forget(c)  PROVE Settled' /\ NoAnswerLost'
  <2>1. phase' = [phase EXCEPT ![c] = "failed"] /\ phase[c] = "timed out"
        /\ replyCh' = [replyCh EXCEPT ![idx[c]] = Nobody]
        /\ UNCHANGED <<log, foreigns, applied, idx, channel, loop, msg>>
    BY Zenon, <1>9 DEF Forget
  <2>2. phase'[c] = "failed" /\ \A p \in Client : p # c => phase'[p] = phase[p]
    BY Zenon, <1>t, <2>1
  <2>3. idx[c] # 0
    BY Zenon, <1>b, <2>1
  <2>4. \A i \in 1..MaxLog : i # idx[c] => replyCh'[i] = replyCh[i]
    BY Zenon, <1>t, <2>1
  <2>5. ASSUME foreigns = 0, NEW p \in Client, phase'[p] = "waiting", channel[p] = Empty
        PROVE  replyCh'[idx[p]] = p
    <3>1. p # c /\ phase[p] = "waiting"
      BY Zenon, <2>2, <2>5
    <3>2. idx[p] # idx[c] /\ idx[p] \in 1..MaxLog
      BY Zenon, <1>b, <1>c, <2>3, <2>5, <3>1
    <3>3. replyCh[idx[p]] = p
      BY Zenon, <1>0, <2>5, <3>1 DEF Settled
    <3> QED  BY Zenon, <2>4, <3>2, <3>3
  <2>6. Settled'
    BY Zenon, <1>0, <2>1, <2>5 DEF Settled
  <2>7. NoAnswerLost'
    BY Zenon, <1>0, <2>1, <2>2 DEF NoAnswerLost
  <2> QED  BY Zenon, <2>6, <2>7
<1>10. CASE UNCHANGED vars
  BY Zenon, <1>0, <1>10, SettledKept DEF vars
<1> QED  BY Zenon, <1>1, <1>2, <1>3, <1>4, <1>5, <1>6, <1>7, <1>8, <1>9, <1>10 DEF Next

-----------------------------------------------------------------------------
(* The theorems.                                                           *)

\* A server starts with nothing under way.
LEMMA PipeInit == Init => PipeInv
<1> SUFFICES ASSUME Init  PROVE PipeInv
  BY Zenon
<1>a. MaxForeign \in Nat /\ MaxLog \in Nat /\ Client \cap {Free} = {}
  BY Zenon, PipelineConstants DEF PipelineConstants
<1>1. Types
  BY <1>a DEF Init, Types, Phases
<1>2. InOrder /\ Stopping
  BY DEF Init, InOrder, Stopping, AppliedInOrder, Received
<1>3. Calls
  <2>3. Callers
    BY Zenon, <1>a DEF Init, Callers
  <2>4. Waiters
    BY Zenon DEF Init, Waiters
  <2> QED  BY Zenon, <2>3, <2>4 DEF Calls
<1>4. Settled /\ NoAnswerLost
  BY Zenon DEF Init, Settled, NoAnswerLost
<1> QED  BY Zenon, <1>1, <1>2, <1>3, <1>4 DEF PipeInv

\* The invariant that the theorems below rest on.
LEMMA PipeInvariant == Spec => []PipeInv
<1>1. PipeInv /\ [Next]_vars => PipeInv'
  BY Zenon, TypesStep, OrderStep, StoppingStep, CallsStep, SettledStep DEF PipeInv
<1> QED  BY <1>1, PipeInit, PTL DEF Spec

\* applyLoop applies the committed commands in log order, each once, with none
\* skipped, whatever the capacity of applyCh and whoever leads.
THEOREM InLogOrder == Spec => []AppliedInOrder
<1>1. PipeInv => AppliedInOrder
  BY Zenon DEF PipeInv, InOrder
<1> QED  BY <1>1, PipeInvariant, PTL

\* Shutdown's barrier is the last message through applyCh: when the loop is
\* stopped and the state is saved, no command is between Raft and the store.
THEOREM ShutdownLeavesNothing == Spec => []NothingUnderWay
<1>1. PipeInv => NothingUnderWay
  BY Zenon DEF PipeInv, Stopping, NothingUnderWay
<1> QED  BY <1>1, PipeInvariant, PTL

\* Submit takes its channel out of replyCh on every path.
THEOREM NoWaiterStays == Spec => []NoWaiterLeaks
<1>1. PipeInv => NoWaiterLeaks
  BY Zenon DEF PipeInv, Calls, Waiters, NoWaiterLeaks
<1> QED  BY <1>1, PipeInvariant, PTL

\* s.mu, held from Start to the entry in replyCh, makes notifyReply find the
\* channel of every command, for any number of callers.
THEOREM AnswersReachCallers == Spec => []NoAnswerLost
<1>1. PipeInv => NoAnswerLost
  BY Zenon DEF PipeInv
<1> QED  BY <1>1, PipeInvariant, PTL

=============================================================================
