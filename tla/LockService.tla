---------------------------- MODULE LockService ----------------------------
(***************************************************************************)
(* What a process promises about its locks: each is free or has one        *)
(* holder, known by its owner and a token.  Tokens grow while the process  *)
(* runs, so that a resource which remembers the newest one can tell a hold *)
(* that has ended.  LockManager implements it, see Locks.                  *)
(***************************************************************************)
EXTENDS Integers

CONSTANTS Node, LockKey, Owner, None

VARIABLES
    holder,  \* [server -> [lock -> its holder or None]]
    token    \* [server -> the newest token]

vars == <<holder, token>>

Init ==
    /\ holder = [n \in Node |-> [k \in LockKey |-> None]]
    /\ token = [n \in Node |-> 0]

Take(n, k, o) ==
    /\ holder[n][k] = None
    /\ token' = [token EXCEPT ![n] = @ + 1]
    /\ holder' = [holder EXCEPT ![n][k] = [LeaseID |-> token[n] + 1, OwnerID |-> o]]

\* The hold ends: it was released, or its time is over.
End(n, k) ==
    /\ holder' = [holder EXCEPT ![n][k] = None]
    /\ UNCHANGED token

\* A token is used for something else.
Skip(n) ==
    /\ token' = [token EXCEPT ![n] = @ + 1]
    /\ UNCHANGED holder

\* All holds end with the process, and the next one counts from any token.
Restart(n) ==
    /\ holder' = [holder EXCEPT ![n] = [k \in LockKey |-> None]]
    /\ token' = [token EXCEPT ![n] = token'[n]]
    /\ token'[n] \in Nat

Next ==
    \E n \in Node :
        \/ \E k \in LockKey : End(n, k) \/ \E o \in Owner : Take(n, k, o)
        \/ Skip(n) \/ Restart(n)

Spec == Init /\ [][Next]_vars

=============================================================================
