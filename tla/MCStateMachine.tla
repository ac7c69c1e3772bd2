--------------------------- MODULE MCStateMachine ---------------------------
(* Small instances of StateMachine for TLC. *)
EXTENDS StateMachine

All == {"Put", "Delete", "CAS", "DeletePrefix", "GetPrefix", "Get", "LeaseGrant",
        "LeaseRevoke", "LeaseKeepAlive", "LeaseAttach"}
Leasing == {"Put", "LeaseGrant", "LeaseRevoke"}
WholePrefix == {{1, 2}}
=============================================================================
