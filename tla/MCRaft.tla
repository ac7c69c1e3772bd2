------------------------------- MODULE MCRaft -------------------------------
(* Small instances of Raft for TLC; the constants are set in the .cfg files. *)
EXTENDS Raft

InFirstTerm ==
    /\ \A s \in Server : CurrentTerm[s] <= 1
    /\ \A m \in voteReqs : m.Term <= 1
    /\ \A m \in voteReps : m.reqTerm <= 1
    /\ \A m \in appendReqs : m.LeaderTerm <= 1

\* Bound: after a restart only the first term is followed up, and what a killed
\* node still answers is left to the steady runs.
RestartsInFirstTerm ==
    /\ \A s \in Server : ~killed(s)
    /\ (\E s \in Server : incarnation[s] > 0) => InFirstTerm

\* Bound: vote calls and answers on the wire at once; three are those of a
\* candidate and a late one.
MaxVotesInFlight == 3
FewVotesInFlight == Cardinality(voteReqs) + Cardinality(voteReps) <= MaxVotesInFlight
=============================================================================
