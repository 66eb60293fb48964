------------------------------- MODULE MCSoak -------------------------------
(***************************************************************************)
(* Soak on small instances: two or three agents and the one file.          *)
(***************************************************************************)
EXTENDS Soak, TLC

CONSTANTS a1, a2, a3

MCTwoAgents == {a1, a2}
MCThreeAgents == {a1, a2, a3}
MCResource == {File}
MCNone == {}
MCFirstAgent == {a1}
MCSecondAgent == {a2}
MCPrepareFault == {"AfterTempWritten"}
MCReadRenameFaults == {"Read", "DuringRename"}
MCAllFaults == {"Read", "AfterTempWritten", "DuringRename"}
Agents == Permutations(Holder)
OtherAgents == Permutations({a2, a3})

=============================================================================
