------------------------------ MODULE Pipeline ------------------------------
(***************************************************************************)
(* How a command travels through one server, and how the server stops:     *)
(* Submit, Raft's log, sendMsgToTester, ApplyHelper's queue and goroutine, *)
(* applyCh, applyLoop, notifyReply, the five seconds' timeout, and         *)
(* Shutdown, which takes the stages down one after the other.              *)
(*                                                                         *)
(* Raft is reduced to what the server sees of it: a log that grows, whose  *)
(* uncommitted entries another leader may replace, and a commit index.     *)
(* Each client submits one command; the cleanup loop is the client Cleaner.*)
(***************************************************************************)
EXTENDS Integers, Sequences, FiniteSets

CONSTANTS
    Client,      \* callers of Submit, each with one command
    Cleaner,     \* the cleanup loop, one of them
    Locking,     \* clients whose command is a DeletePrefix, GetPrefix or Get
    Foreign,     \* a command of another leader
    Free,        \* s.mu is unlocked
    ApplyCap,    \* capacity of applyCh (100 in the code)
    MaxTerms,    \* bound: times that leadership is lost
    MaxForeign,  \* bound: entries of other leaders
    MaxLog,      \* bound: length of the log, with room for all of these
    Stops        \* Shutdown may be called

ASSUME PipelineConstants ==
    /\ IsFiniteSet(Client) /\ Cleaner \in Client /\ Locking \subseteq Client
    /\ Foreign \notin Client /\ Free \notin Client
    /\ {"loop", "nobody", "empty"} \cap (Client \cup {Foreign, Free}) = {}
    /\ ApplyCap \in Nat \ {0} /\ MaxTerms \in Nat /\ MaxForeign \in Nat
    /\ MaxLog \in Nat /\ MaxLog >= Cardinality(Client) + MaxForeign
    /\ Stops \in BOOLEAN

VARIABLES
    \* Raft
    log, commit, leader, terms, foreigns,
    dead,       \* Raft.dead
    sender,     \* sendMsgToTester: "waiting" on applyCond, "woken" or "exited"
    handed,     \* LastApplied: entries given to ApplyHelper
    \* ApplyHelper
    q, helperDead,
    applier,    \* its goroutine, "running" or "exited"
    inHand,     \* the message that is on its way into applyCh, if any
    \* Server
    applyCh,    \* indexes of the log, or 0 for the barrier
    mu,         \* s.mu
    loop,       \* applyLoop: "idle", "apply", "notify", "stuck" or "exited"
    msg,        \* the index it works on
    applied,    \* commands applied
    replyCh,    \* waiting client of an index
    \* Callers
    phase, idx, channel,
    \* Shutdown
    stop, barrier

raftVars == <<log, commit, leader, terms, foreigns>>
stageVars == <<dead, sender, handed, q, helperDead, applier, inHand>>
loopVars == <<applyCh, loop, msg, applied>>
callVars == <<mu, replyCh, phase, idx, channel>>
stopVars == <<stop, barrier>>
vars == <<raftVars, stageVars, loopVars, callVars, stopVars>>

Nobody == "nobody"
Empty == "empty"

Init ==
    /\ log = << >> /\ commit = 0 /\ leader = TRUE /\ terms = 0 /\ foreigns = 0
    /\ dead = FALSE /\ sender = "waiting" /\ handed = 0
    /\ q = << >> /\ helperDead = FALSE /\ applier = "running" /\ inHand = << >>
    /\ applyCh = << >> /\ loop = "idle" /\ msg = 0 /\ applied = << >>
    /\ mu = Free /\ replyCh = [i \in 1..MaxLog |-> Nobody]
    /\ phase = [c \in Client |-> "new"] /\ idx = [c \in Client |-> 0]
    /\ channel = [c \in Client |-> Empty]
    /\ stop = "no" /\ barrier = FALSE

-----------------------------------------------------------------------------
(* Raft, as the server sees it.                                            *)

Broadcast == sender' = IF sender = "waiting" THEN "woken" ELSE sender

\* A killed node answers no append calls and commits only while it leads.
Commit ==
    /\ commit < Len(log) /\ (leader \/ ~dead)
    /\ \E n \in (commit + 1)..Len(log) : commit' = n
    /\ Broadcast
    /\ UNCHANGED <<log, leader, terms, foreigns, dead, handed, q, helperDead, applier, inHand,
                   loopVars, callVars, stopVars>>

LoseLeadership ==
    /\ leader /\ terms < MaxTerms
    /\ leader' = FALSE /\ terms' = terms + 1
    /\ UNCHANGED <<log, commit, foreigns, stageVars, loopVars, callVars, stopVars>>

\* Another leader's entry takes the place of what is not committed.
Overwrite ==
    /\ ~leader /\ ~dead /\ foreigns < MaxForeign
    /\ \E n \in commit..Len(log) : n < MaxLog /\ log' = Append(SubSeq(log, 1, n), Foreign)
    /\ foreigns' = foreigns + 1
    /\ UNCHANGED <<commit, leader, terms, stageVars, loopVars, callVars, stopVars>>

WinLeadership ==
    /\ ~leader /\ ~dead
    /\ leader' = TRUE
    /\ UNCHANGED <<log, commit, terms, foreigns, stageVars, loopVars, callVars, stopVars>>

\* Mutant: entries that are not committed are handed over as well.
SendUncommitted ==
    /\ sender = "woken"
    /\ q' = q \o [n \in 1..(Len(log) - handed) |-> handed + n]
    /\ handed' = Len(log)
    /\ sender' = IF dead THEN "exited" ELSE "waiting"
    /\ UNCHANGED <<raftVars, dead, helperDead, applier, inHand, loopVars, callVars, stopVars>>

\* sendMsgToTester holds rf.Mu from the wake-up to the next wait.
SendMsgToTester ==
    /\ sender = "woken"
    /\ q' = q \o [n \in 1..(commit - handed) |-> handed + n]
    /\ handed' = commit
    /\ sender' = IF dead THEN "exited" ELSE "waiting"
    /\ UNCHANGED <<raftVars, dead, helperDead, applier, inHand, loopVars, callVars, stopVars>>

\* ApplyHelper.applier.
ApplierTakes ==
    /\ applier = "running" /\ inHand = << >> /\ q # << >>
    /\ inHand' = <<Head(q)>> /\ q' = Tail(q)
    /\ UNCHANGED <<raftVars, dead, sender, handed, helperDead, applier, loopVars, callVars, stopVars>>

ApplierSends ==
    /\ inHand # << >> /\ Len(applyCh) < ApplyCap
    /\ applyCh' = applyCh \o inHand /\ inHand' = << >>
    /\ UNCHANGED <<raftVars, dead, sender, handed, q, helperDead, applier, loop, msg, applied, callVars,
                   stopVars>>

ApplierExits ==
    /\ applier = "running" /\ inHand = << >> /\ q = << >> /\ helperDead
    /\ applier' = "exited"
    /\ UNCHANGED <<raftVars, dead, sender, handed, q, helperDead, inHand, loopVars, callVars, stopVars>>

-----------------------------------------------------------------------------
(* applyLoop.                                                              *)

Receive ==
    /\ loop = "idle" /\ applyCh # << >>
    /\ applyCh' = Tail(applyCh)
    /\ IF Head(applyCh) = 0
       THEN barrier' = TRUE /\ UNCHANGED <<loop, msg>>
       ELSE loop' = "apply" /\ msg' = Head(applyCh) /\ UNCHANGED barrier
    /\ UNCHANGED <<raftVars, stageVars, applied, callVars, stop>>

\* WAL write and effects, in one critical section of s.mu.  The commands in
\* Locking call notifyReply inside of it.
ApplyMsg ==
    /\ loop = "apply" /\ mu = Free
    /\ applied' = Append(applied, log[msg])
    /\ IF log[msg] \in Locking
       THEN loop' = "stuck" /\ mu' = "loop"
       ELSE loop' = "notify" /\ UNCHANGED mu
    /\ UNCHANGED <<raftVars, stageVars, applyCh, msg, replyCh, phase, idx, channel, stopVars>>

\* notifyReply, and the tail of the loop, which changes nothing more.
NotifyReply ==
    /\ loop = "notify" /\ mu = Free
    /\ IF replyCh[msg] = Nobody
       THEN UNCHANGED channel
       ELSE channel' = [channel EXCEPT ![replyCh[msg]] = IF @ = Empty THEN log[msg] ELSE @]
    /\ replyCh' = [replyCh EXCEPT ![msg] = Nobody]
    /\ loop' = "idle"
    /\ UNCHANGED <<raftVars, stageVars, applyCh, msg, applied, mu, phase, idx, stopVars>>

LoopExits ==
    /\ loop = "idle" /\ stop = "stopped"
    /\ loop' = "exited"
    /\ UNCHANGED <<raftVars, stageVars, applyCh, msg, applied, callVars, stopVars>>

-----------------------------------------------------------------------------
(* Submit.                                                                 *)

Refused(c) ==
    /\ phase[c] = "new" /\ mu = Free /\ ~leader
    /\ phase' = [phase EXCEPT ![c] = "failed"]
    /\ UNCHANGED <<raftVars, stageVars, loopVars, mu, replyCh, idx, channel, stopVars>>

\* Mutant: s.mu is not held over Start and the entry in replyCh.
StartUnlocked(c) ==
    /\ phase[c] = "new" /\ mu = Free /\ leader /\ Len(log) < MaxLog
    /\ log' = Append(log, c) /\ idx' = [idx EXCEPT ![c] = Len(log) + 1]
    /\ phase' = [phase EXCEPT ![c] = "started"]
    /\ UNCHANGED <<commit, leader, terms, foreigns, stageVars, loopVars, mu, replyCh, channel, stopVars>>

Start(c) ==
    /\ phase[c] = "new" /\ mu = Free /\ leader /\ Len(log) < MaxLog
    /\ mu' = c
    /\ log' = Append(log, c) /\ idx' = [idx EXCEPT ![c] = Len(log) + 1]
    /\ phase' = [phase EXCEPT ![c] = "started"]
    /\ UNCHANGED <<commit, leader, terms, foreigns, stageVars, loopVars, replyCh, channel, stopVars>>

\* Mutant: s.mu stays locked.
RegisterLocked(c) ==
    /\ phase[c] = "started"
    /\ replyCh' = [replyCh EXCEPT ![idx[c]] = c]
    /\ phase' = [phase EXCEPT ![c] = "waiting"]
    /\ UNCHANGED <<raftVars, stageVars, loopVars, mu, idx, channel, stopVars>>

Register(c) ==
    /\ phase[c] = "started"
    /\ replyCh' = [replyCh EXCEPT ![idx[c]] = c]
    /\ mu' = Free
    /\ phase' = [phase EXCEPT ![c] = "waiting"]
    /\ UNCHANGED <<raftVars, stageVars, loopVars, idx, channel, stopVars>>

Answered(c) ==
    /\ phase[c] = "waiting" /\ channel[c] # Empty
    /\ phase' = [phase EXCEPT ![c] = "answered"]
    /\ UNCHANGED <<raftVars, stageVars, loopVars, mu, replyCh, idx, channel, stopVars>>

Timeout(c) ==
    /\ phase[c] = "waiting"
    /\ phase' = [phase EXCEPT ![c] = "timed out"]
    /\ UNCHANGED <<raftVars, stageVars, loopVars, mu, replyCh, idx, channel, stopVars>>

\* Mutant: a waiter that gives up leaves its entry behind.
ForgetNothing(c) ==
    /\ phase[c] = "timed out" /\ mu = Free
    /\ phase' = [phase EXCEPT ![c] = "failed"]
    /\ UNCHANGED <<raftVars, stageVars, loopVars, mu, replyCh, idx, channel, stopVars>>

Forget(c) ==
    /\ phase[c] = "timed out" /\ mu = Free
    /\ replyCh' = [replyCh EXCEPT ![idx[c]] = Nobody]
    /\ phase' = [phase EXCEPT ![c] = "failed"]
    /\ UNCHANGED <<raftVars, stageVars, loopVars, mu, idx, channel, stopVars>>

-----------------------------------------------------------------------------
(* Shutdown.                                                               *)

\* rf.Kill sets dead, then locks rf.Mu.
Kill ==
    /\ stop = "no" /\ Stops
    /\ dead' = TRUE /\ stop' = "killing"
    /\ UNCHANGED <<raftVars, sender, handed, q, helperDead, applier, inHand, loopVars, callVars, barrier>>

\* Mutant: sendMsgToTester is not woken.
KillSilently ==
    /\ stop = "killing"
    /\ helperDead' = TRUE /\ leader' = FALSE
    /\ stop' = "killed"
    /\ UNCHANGED <<log, commit, terms, foreigns, dead, sender, handed, q, applier, inHand, loopVars,
                   callVars, barrier>>

KillHelper ==
    /\ stop = "killing"
    /\ helperDead' = TRUE /\ Broadcast /\ leader' = FALSE
    /\ stop' = "killed"
    /\ UNCHANGED <<log, commit, terms, foreigns, dead, handed, q, applier, inHand, loopVars, callVars,
                   barrier>>

\* Mutant: Shutdown goes on while messages are under way.
SendBarrierEarly ==
    /\ stop = "killed"
    /\ Len(applyCh) < ApplyCap
    /\ applyCh' = Append(applyCh, 0)
    /\ stop' = "barrier"
    /\ UNCHANGED <<raftVars, stageVars, loop, msg, applied, callVars, barrier>>

\* WaitForApplyExit, then the barrier.
SendBarrier ==
    /\ stop = "killed" /\ sender = "exited" /\ applier = "exited"
    /\ Len(applyCh) < ApplyCap
    /\ applyCh' = Append(applyCh, 0)
    /\ stop' = "barrier"
    /\ UNCHANGED <<raftVars, stageVars, loop, msg, applied, callVars, barrier>>

StopLoop ==
    /\ stop = "barrier" /\ barrier
    /\ stop' = "stopped"
    /\ UNCHANGED <<raftVars, stageVars, loopVars, callVars, barrier>>

\* applyDone, cleanupDone, then savePersistentState under s.mu.
Save ==
    /\ stop = "stopped" /\ loop = "exited"
    /\ phase[Cleaner] \in {"new", "answered", "failed"} /\ mu = Free
    /\ stop' = "saved"
    /\ UNCHANGED <<raftVars, stageVars, loopVars, callVars, barrier>>

Next ==
    \/ Commit \/ LoseLeadership \/ Overwrite \/ WinLeadership
    \/ SendMsgToTester \/ ApplierTakes \/ ApplierSends \/ ApplierExits
    \/ Receive \/ ApplyMsg \/ NotifyReply \/ LoopExits
    \/ \E c \in Client : \/ Refused(c) \/ Start(c) \/ Register(c)
                         \/ Answered(c) \/ Timeout(c) \/ Forget(c)
    \/ Kill \/ KillHelper \/ SendBarrier \/ StopLoop \/ Save

\* Goroutines that can go on do, and timers fire.  Nothing makes Raft commit.
Fairness ==
    /\ WF_vars(SendMsgToTester) /\ WF_vars(ApplierTakes) /\ WF_vars(ApplierSends)
    /\ WF_vars(ApplierExits)
    /\ WF_vars(Receive) /\ WF_vars(ApplyMsg) /\ WF_vars(NotifyReply) /\ WF_vars(LoopExits)
    /\ \A c \in Client :
        /\ WF_vars(Refused(c) \/ Start(c)) /\ WF_vars(Register(c))
        /\ WF_vars(Answered(c)) /\ WF_vars(Timeout(c)) /\ WF_vars(Forget(c))
    /\ WF_vars(KillHelper) /\ WF_vars(SendBarrier) /\ WF_vars(StopLoop) /\ WF_vars(Save)

Spec == Init /\ [][Next]_vars
FairSpec == Spec /\ Fairness

-----------------------------------------------------------------------------
(* Properties.                                                             *)

\* While nobody replaces log entries, a client still waits for an answer only
\* if its command is still under way, or the answer is in its channel
\* or in the apply loop's hand: however fast, the loop finds the channel that
\* Submit registers after Start.
NoAnswerLost ==
    foreigns = 0 => \A c \in Client : phase[c] = "waiting" /\ idx[c] \in 1..Len(applied) =>
        channel[c] = c \/ (loop \in {"notify", "stuck"} /\ msg = idx[c])

\* Submit leaves nothing behind: the table of waiters has an entry only for a
\* client that waits or is about to take its entry out.
NoWaiterLeaks ==
    \A i \in 1..MaxLog : replyCh[i] # Nobody => phase[replyCh[i]] \in {"waiting", "timed out"}

\* Committed commands are applied in log order, each once, and none is
\* skipped, on their way through two queues and three goroutines, while other
\* leaders replace entries and the server is shut down.
AppliedInOrder == \A i \in 1..Len(applied) : i <= commit /\ applied[i] = log[i]

\* The barrier is the last message: once it has come through, and when the
\* state is saved, no command that left ApplyHelper is under way any more.
NothingUnderWay ==
    stop \in {"stopped", "saved"} => inHand = << >> /\ applyCh = << >> /\ loop \in {"idle", "exited"}

\* Whoever calls Submit comes back with an answer or an error, also when the
\* apply channel is full, a leader is lost or the server shuts down.  (Not when
\* a client of Locking, one that deletes a prefix, is served: see README.)
EverybodyIsServed == \A c \in Client : <>(phase[c] \in {"answered", "failed"})

\* Shutdown comes to its end, whatever was under way when it began.
ShutdownReturns == stop = "killing" ~> stop = "saved"

-----------------------------------------------------------------------------
(* What the code does not keep; see README.                                *)

\* An answer is the result of the command that was submitted.
AnswersOwnCommand == \A c \in Client : phase[c] = "answered" => channel[c] = c

\* "WaitForApplyExit blocks until the service-facing committed-log applier has
\* drained its current queue and exited after Kill." (raft.go): when Shutdown
\* goes on, all that Raft has emitted has been passed on.
QueueDrained == stop \in {"barrier", "stopped", "saved"} => q = << >>

=============================================================================
