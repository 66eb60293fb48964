----------------------------- MODULE FencedLock -----------------------------
(***************************************************************************)
(* What the LockService trait (src/src/lock/mod.rs) promises, with no      *)
(* clock, no leases and no names: every grant carries a number higher than *)
(* every number granted before; a holder may lose a resource at any time   *)
(* and never gets that number back; a revocation returns a number that     *)
(* separates the grants before it from those after it; and only the        *)
(* highest owner of a resource can commit a new version of it.             *)
(***************************************************************************)
EXTENDS Integers

CONSTANTS
    Resource,
    Shared      \* resources the service may grant to several owners at once

VARIABLES
    owners,     \* owners[r]: the tickets that own r now
    top,        \* the highest ticket granted so far, for any resource
    fence,      \* fence[r]: what the last revocation of r returned
    version,    \* version[r]: the version of the content of r
    committer   \* committer[r]: the ticket of the last commit on r

vars == <<owners, top, fence, version, committer>>

Init ==
    /\ owners = [r \in Resource |-> {}]
    /\ top = 0
    /\ fence = [r \in Resource |-> 0]
    /\ version = [r \in Resource |-> 0]
    /\ committer = [r \in Resource |-> 0]

Grant(r) ==
    /\ owners[r] = {} \/ r \in Shared
    /\ top' > top
    /\ top' >= fence[r]
    /\ owners' = [owners EXCEPT ![r] = owners[r] \cup {top'}]
    /\ UNCHANGED <<fence, version, committer>>

\* A release, an expired lease, several of them at once.
Lose ==
    /\ \A r \in Resource : owners'[r] \subseteq owners[r]
    /\ UNCHANGED <<top, fence, version, committer>>

Revoke(r) ==
    /\ owners' = [owners EXCEPT ![r] = {}]
    /\ fence'[r] > top
    /\ fence' = [fence EXCEPT ![r] = fence'[r]]
    /\ UNCHANGED <<top, version, committer>>

Commit(r) ==
    \E t \in owners[r] :
        /\ \A u \in owners[r] : u <= t
        /\ committer' = [committer EXCEPT ![r] = t]
        /\ version' = [version EXCEPT ![r] = version[r] + 1]
        /\ UNCHANGED <<owners, top, fence>>

Next ==
    \/ Lose
    \/ \E r \in Resource : Grant(r) \/ Revoke(r) \/ Commit(r)

Spec == Init /\ [][Next]_vars

=============================================================================
