--------------------------- MODULE MCLockService ----------------------------
(***************************************************************************)
(* LockService on small instances.                                         *)
(***************************************************************************)
EXTENDS LockService, TLC

CONSTANTS a1, a2, r1, r2

MCAgents == {a1, a2}
MCResources == {r1, r2}
MCOneResource == {r1}
MCNone == {}
MCFirstAgent == {a1}
MCSecondAgent == {a2}

=============================================================================
