------------------------------- MODULE Watch -------------------------------
(***************************************************************************)
(* WatchManager (server/server.go): watchers of a key or of a prefix, with *)
(* a channel each, filled by the apply loop and closed by whoever takes    *)
(* the watcher out of the table: the event that a one-shot watcher waited  *)
(* for, CancelWatch, or the cleanup loop after a timeout.  The HTTP        *)
(* handler Wait registers a watcher and waits for its channel.             *)
(*                                                                         *)
(* All of them hold watchMu, except Wait's receive, which is taken to come *)
(* before or after a notification, not between two sends of one.  An event *)
(* is known by its number in the event log, which stands for its revision. *)
(* The events of a prefix deletion are left out: see StateMachine for the  *)
(* apply loop, which does not go on after one.                             *)
(***************************************************************************)
EXTENDS Integers, Sequences, FiniteSets, SequencesExt

CONSTANTS
    Key,        \* keys
    Prefix,     \* prefixes, each the set of keys that start with it
    Watcher,    \* ids, by AddWatcher
    From,       \* values of from_rev
    Cap,        \* capacity of a channel (100 in the code)
    MaxEvents   \* bound: events

ASSUME WatchConstants ==
    /\ Prefix \subseteq SUBSET Key
    /\ From \subseteq Nat
    /\ Cap \in Nat \ {0} /\ MaxEvents \in Nat

Kind == {"watch", "wait", "prefix"}

VARIABLES
    eventLog,    \* the keys of all events: event n has revision n
    forgotten,   \* WatchManager.eventLog of this process has the events after this one
    registered,  \* watchers in one of the two tables
    info,        \* [kind, keys, persistent, timed, fromRev, since] of a watcher
    sent,        \* numbers of the events put into its channel
    read,        \* how many of them were received
    closed,      \* closed channels
    overdue,     \* watchers whose timeout is over
    call         \* where the Wait call for a watcher is

vars == <<eventLog, forgotten, registered, info, sent, read, closed, overdue, call>>

Nothing == [kind |-> "none", keys |-> {}, persistent |-> FALSE, timed |-> FALSE, fromRev |-> 0,
            since |-> 0]

Init ==
    /\ eventLog = << >> /\ forgotten = 0
    /\ registered = {}
    /\ info = [w \in Watcher |-> Nothing]
    /\ sent = [w \in Watcher |-> << >>]
    /\ read = [w \in Watcher |-> 0]
    /\ closed = {} /\ overdue = {}
    /\ call = [w \in Watcher |-> "none"]

Room(w) == Cap - (Len(sent[w]) - read[w])

-----------------------------------------------------------------------------

\* Mutant: the timeout of a persistent watcher is forgotten.
AddWatcherUntimed(w, kind, keys, persistent, timed, fromRev) ==
    /\ info[w] = Nothing
    /\ IF kind = "prefix" THEN keys \in Prefix ELSE \E k \in Key : keys = {k}
    /\ kind = "wait" => timed
    /\ info' = [info EXCEPT ![w] = [kind |-> kind, keys |-> keys, persistent |-> persistent,
                                    timed |-> timed /\ ~persistent, fromRev |-> fromRev,
                                    since |-> Len(eventLog)]]
    /\ registered' = registered \cup {w}
    /\ call' = [call EXCEPT ![w] = IF kind = "wait" THEN "waiting" ELSE "none"]
    /\ UNCHANGED <<eventLog, forgotten, sent, read, closed, overdue>>

\* Watch, Wait and WatchPrefix; only Wait goes on to use the channel.
AddWatcher(w, kind, keys, persistent, timed, fromRev) ==
    /\ info[w] = Nothing
    /\ IF kind = "prefix" THEN keys \in Prefix ELSE \E k \in Key : keys = {k}
    /\ kind = "wait" => timed
    /\ info' = [info EXCEPT ![w] = [kind |-> kind, keys |-> keys, persistent |-> persistent,
                                    timed |-> timed, fromRev |-> fromRev,
                                    since |-> Len(eventLog)]]
    /\ registered' = registered \cup {w}
    /\ call' = [call EXCEPT ![w] = IF kind = "wait" THEN "waiting" ELSE "none"]
    /\ UNCHANGED <<eventLog, forgotten, sent, read, closed, overdue>>

\* Mutant: watchers without from_rev are sent the history as well.
HistoryAlways(w, n) ==
    SelectSeq([i \in 1..(n - 1) |-> i],
              LAMBDA i : i > forgotten /\ i >= info[w].fromRev /\ eventLog[i] \in info[w].keys)

\* The earlier events that are sent to a watcher along with event n.
History(w, n) ==
    IF info[w].fromRev = 0 THEN << >>
    ELSE SelectSeq([i \in 1..(n - 1) |-> i],
                   LAMBDA i : i > forgotten /\ i >= info[w].fromRev /\ eventLog[i] \in info[w].keys)

\* What a watcher gets: as much of the history as its channel has room for,
\* then the event, if there is room left.
Offered(w, n) ==
    LET all == Append(History(w, n), n)
    IN  SubSeq(all, 1, IF Len(all) <= Room(w) THEN Len(all) ELSE Room(w))

\* Watchers that have what they waited for.
Served(W, n) ==
    {w \in W : ~info[w].persistent /\ Len(History(w, n)) < Room(w)}

\* Mutant: the table keeps a one-shot watcher whose channel was closed.
NotifyWatchersKeeps(k) ==
    LET n == Len(eventLog) + 1
        W == {w \in registered : k \in info[w].keys}
    IN  /\ Len(eventLog) < MaxEvents
        /\ eventLog' = Append(eventLog, k)
        /\ sent' = [w \in Watcher |-> IF w \in W THEN sent[w] \o Offered(w, n) ELSE sent[w]]
        /\ closed' = closed \cup Served(W, n)
        /\ UNCHANGED <<forgotten, registered, info, read, overdue, call>>

\* notifyWatchers, for a change of key k.
NotifyWatchers(k) ==
    LET n == Len(eventLog) + 1
        W == {w \in registered : k \in info[w].keys}
    IN  /\ Len(eventLog) < MaxEvents
        /\ eventLog' = Append(eventLog, k)
        /\ sent' = [w \in Watcher |-> IF w \in W THEN sent[w] \o Offered(w, n) ELSE sent[w]]
        /\ closed' = closed \cup Served(W, n)
        /\ registered' = registered \ Served(W, n)
        /\ UNCHANGED <<forgotten, info, read, overdue, call>>

\* RemoveWatcher, which does not know prefix watchers.  Nobody is told the id of
\* the watcher that Wait uses.
CancelWatcher(w) ==
    /\ w \in registered /\ info[w].kind = "watch"
    /\ closed' = closed \cup {w} /\ registered' = registered \ {w}
    /\ UNCHANGED <<eventLog, forgotten, info, sent, read, overdue, call>>

TimePasses(w) ==
    /\ info[w].timed /\ w \notin overdue
    /\ overdue' = overdue \cup {w}
    /\ UNCHANGED <<eventLog, forgotten, registered, info, sent, read, closed, call>>

\* Mutant: watchers that already have an event are kept.
ExpiredIdle == {w \in registered \cap overdue : info[w].kind # "prefix" /\ sent[w] = << >>}

\* CleanupExpired looks at the watchers of keys only.
Expired == {w \in registered \cap overdue : info[w].kind # "prefix"}

CleanupExpired ==
    /\ Expired # {}
    /\ closed' = closed \cup Expired /\ registered' = registered \ Expired
    /\ UNCHANGED <<eventLog, forgotten, info, sent, read, overdue, call>>

-----------------------------------------------------------------------------
(* Wait: a select over the channel and a timer that was started after      *)
(* AddWatcher computed the deadline.                                       *)

WaitReceives(w) ==
    /\ call[w] = "waiting" /\ read[w] < Len(sent[w])
    /\ read' = [read EXCEPT ![w] = @ + 1]
    /\ call' = [call EXCEPT ![w] = "event"]
    /\ UNCHANGED <<eventLog, forgotten, registered, info, sent, closed, overdue>>

\* A closed and empty channel yields an event without key, value and type.
WaitFindsClosed(w) ==
    /\ call[w] = "waiting" /\ read[w] = Len(sent[w]) /\ w \in closed
    /\ call' = [call EXCEPT ![w] = "empty event"]
    /\ UNCHANGED <<eventLog, forgotten, registered, info, sent, read, closed, overdue>>

WaitTimesOut(w) ==
    /\ call[w] = "waiting" /\ w \in overdue
    /\ call' = [call EXCEPT ![w] = "timeout"]
    /\ UNCHANGED <<eventLog, forgotten, registered, info, sent, read, closed, overdue>>

\* NewServer: watchers, calls and the event log went with the last process.
Restart ==
    /\ forgotten' = Len(eventLog)
    /\ registered' = {} /\ closed' = {} /\ overdue' = {}
    /\ info' = [w \in Watcher |-> Nothing]
    /\ sent' = [w \in Watcher |-> << >>]
    /\ read' = [w \in Watcher |-> 0]
    /\ call' = [w \in Watcher |-> "none"]
    /\ UNCHANGED eventLog

Next ==
    \/ \E w \in Watcher, kind \in Kind, keys \in Prefix \cup {{k} : k \in Key},
          persistent \in BOOLEAN, timed \in BOOLEAN, fromRev \in From :
          AddWatcher(w, kind, keys, persistent, timed, fromRev)
    \/ \E k \in Key : NotifyWatchers(k)
    \/ \E w \in Watcher : \/ CancelWatcher(w) \/ TimePasses(w)
                          \/ WaitReceives(w) \/ WaitFindsClosed(w) \/ WaitTimesOut(w)
    \/ CleanupExpired \/ Restart

\* Time passes, the cleanup loop ticks and goroutines that can go on do.
Fairness ==
    /\ \A w \in Watcher : /\ WF_vars(TimePasses(w)) /\ WF_vars(WaitReceives(w))
                          /\ WF_vars(WaitFindsClosed(w)) /\ WF_vars(WaitTimesOut(w))
    /\ WF_vars(CleanupExpired)

Spec == Init /\ [][Next]_vars
FairSpec == Spec /\ Fairness

-----------------------------------------------------------------------------
(* Properties.                                                             *)

\* The apply loop never sends on a closed channel, and nobody closes one
\* twice: either would panic and take the server down.
ChannelsOpen == registered \cap closed = {}

\* What a watcher should have been sent: the changes since it was added and, as
\* soon as there was one, the changes from its start revision on among those
\* after event m.
DueAfter(w, m) ==
    LET matching == {n \in 1..Len(eventLog) : eventLog[n] \in info[w].keys}
        new == {n \in matching : n > info[w].since}
    IN  IF info[w].fromRev = 0 \/ new = {} THEN new
        ELSE new \cup {n \in matching : n >= info[w].fromRev /\ n > m}

\* A watcher that is still registered, and whose channel was never full, has
\* been sent all that is due since the process was started, and nothing else; a
\* watcher without start revision gets its events in order, and so none of them
\* twice, even when it misses some.
NothingMissed ==
    \A w \in Watcher :
        /\ info[w].fromRev = 0 =>
              \A i, j \in 1..Len(sent[w]) : i < j => sent[w][i] < sent[w][j]
        /\ w \in registered /\ Len(sent[w]) < Cap => ToSet(sent[w]) = DueAfter(w, forgotten)

\* A call of Wait comes back, whatever happens to its watcher meanwhile.
WaitReturns == \A w \in Watcher : call[w] = "waiting" ~> call[w] # "waiting"

\* The watcher of a key goes when its time is over.
ExpiredKeyWatchersGo ==
    \A w \in Watcher : info[w].kind # "prefix" /\ w \in overdue ~> w \notin registered

-----------------------------------------------------------------------------
(* What the code does not keep; see README.                                *)

\* "清理过期的watcher" (clean up watchers that have expired), CleanupExpired: all
\* watchers go when their time is over.
ExpiredWatchersGo == \A w \in Watcher : w \in overdue ~> w \notin registered

\* "从哪个 revision 开始监听" (the revision from which to watch), watcherInfo: a
\* watcher gets each event from there on, and gets it once.
SentOnce == \A w \in Watcher : \A i, j \in 1..Len(sent[w]) : sent[w][i] = sent[w][j] => i = j

\* ... and gets all of them, those from before a restart included.
SentFromRevision ==
    \A w \in registered : Len(sent[w]) < Cap => DueAfter(w, 0) \subseteq ToSet(sent[w])

\* "Wait handler - 等待 watch 事件" (waits for a watch event): what Wait passes
\* on is an event, or it says that there was none in time.
WaitAnswersTruly == \A w \in Watcher : call[w] # "empty event"

=============================================================================
