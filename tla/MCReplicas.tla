----------------------------- MODULE MCReplicas -----------------------------
(* Small instances of Replicas for TLC. *)
EXTENDS Replicas, TLC

CONSTANT v

Put(k, l) == [Type |-> "Put", Key |-> k, Value |-> v, LeaseID |-> l, Revision |-> 0]
Mixed == {Put(1, 1), Put(2, 1),
          [Type |-> "CAS", Key |-> 1, Value |-> v, ExpectedRev |-> 1, Revision |-> 0],
          [Type |-> "LeaseRevoke", LeaseID |-> 1, ExpireAt |-> 0]}
Puts == {Put(1, 1)}
NoPrefix == {}
Symmetry == Permutations(Node)
=============================================================================
