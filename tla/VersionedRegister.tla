------------------------- MODULE VersionedRegister --------------------------
(***************************************************************************)
(* What agents are promised by read and write (src/src/harness.rs): one    *)
(* value with a version.  A read returns both; a write takes effect only   *)
(* if the writer's last read showed the value and the version it replaces. *)
(* A write whose rename fails has no effect but to use a version up.       *)
(* No locks, no tickets, no clock, no staging file.                        *)
(***************************************************************************)
EXTENDS Integers

CONSTANTS
    Holder,
    Nobody,
    RenameMayFail

VARIABLES
    value,      \* the current content
    version,    \* its version
    seen        \* seen[a]: what a's last read returned, or None

vars == <<value, version, seen>>

None == [none |-> TRUE]

Init ==
    /\ value = [by |-> Nobody, ver |-> 0]
    /\ version = 0
    /\ seen = [a \in Holder |-> None]

Read(a) ==
    /\ seen' = [seen EXCEPT ![a] = [content |-> value, version |-> version]]
    /\ UNCHANGED <<value, version>>

\* What a sees is what a write by a replaces.
UpToDate(a) == seen[a] = [content |-> value, version |-> version]

Write(a) ==
    /\ UpToDate(a)
    /\ value' = [by |-> a, ver |-> version + 1]
    /\ version' = version + 1
    /\ UNCHANGED seen

WriteFails(a) ==
    /\ RenameMayFail
    /\ UpToDate(a)
    /\ version' = version + 1
    /\ UNCHANGED <<value, seen>>

Next == \E a \in Holder : Read(a) \/ Write(a) \/ WriteFails(a)

Spec == Init /\ [][Next]_vars

=============================================================================
