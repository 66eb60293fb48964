----------------------------- MODULE MCHarness ------------------------------
(***************************************************************************)
(* Harness on small instances: two agents and the one file.                *)
(***************************************************************************)
EXTENDS Harness

CONSTANTS a1, a2, a3

MCTwoAgents == {a1, a2}
MCResource == {File}
MCNone == {}
MCRenameFault == {"DuringRename"}
MCPrepareFault == {"AfterTempWritten"}

=============================================================================
