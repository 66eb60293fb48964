---------------------------- MODULE LockService -----------------------------
(***************************************************************************)
(* The fake lock service under concurrent clients.  Every step is one call *)
(* to the service, or one unit of time, or the test's force_expire.  A     *)
(* client is free to use any Holding it was ever granted, in any order and *)
(* as late as it likes: that is what a paused, wedged or slow holder does, *)
(* and what the ticket comparison exists for.                              *)
(***************************************************************************)
EXTENDS FakeLock

CONSTANTS
    MaxTicket,    \* bound: no ticket above it is issued
    MaxVersion    \* bound: no version above it is committed

ASSUME BoundsAssumption == MaxTicket \in Nat /\ MaxVersion \in Nat

VARIABLES
    svc,          \* the state of the service
    holdings,     \* every Holding ever returned by acquire
    barrier,      \* barrier[r]: what the last force_release(r) returned
    lastCommit    \* lastCommit[r]: the ticket of the last commit on r

vars == <<svc, holdings, barrier, lastCommit>>

Init ==
    /\ svc = NewService
    /\ holdings = {}
    /\ barrier = [r \in Resource |-> 0]
    /\ lastCommit = [r \in Resource |-> 0]

-----------------------------------------------------------------------------
(* The calls *)

AcquireOk(r, a) ==
    /\ CanAcquire(svc, r)
    /\ svc.next <= MaxTicket
    /\ svc' = Acquired(svc, r, a)
    /\ holdings' = holdings \cup {NewHolding(svc, r, a)}
    /\ UNCHANGED <<barrier, lastCommit>>

AcquireContended(r) ==
    /\ ~CanAcquire(svc, r)
    /\ svc' = Sweep(svc)
    /\ UNCHANGED <<holdings, barrier, lastCommit>>

Release(g) ==
    /\ svc' = Released(svc, g)
    /\ UNCHANGED <<holdings, barrier, lastCommit>>

Keepalive(g) ==
    /\ svc' = Renewed(svc, g)
    /\ UNCHANGED <<holdings, barrier, lastCommit>>

CommitOk(g, v) ==
    /\ CanCommit(svc, g, v)
    /\ v < MaxVersion
    /\ svc' = Committed(svc, g)
    /\ lastCommit' = [lastCommit EXCEPT ![g.resource] = g.ticket]
    /\ UNCHANGED <<holdings, barrier>>

CommitRefused(g, v) ==
    /\ ~CanCommit(svc, g, v)
    /\ svc' = Sweep(svc)
    /\ UNCHANGED <<holdings, barrier, lastCommit>>

ForceRelease(r) ==
    /\ Barrier(svc) <= MaxTicket + 1
    /\ svc' = ForceReleased(svc, r)
    /\ barrier' = [barrier EXCEPT ![r] = Barrier(svc)]
    /\ UNCHANGED <<holdings, lastCommit>>

\* current_ticket, is_still_held and current_version only sweep.
Observe ==
    /\ svc' = Sweep(svc)
    /\ UNCHANGED <<holdings, barrier, lastCommit>>

ForceExpire(r) ==
    /\ svc' = ForceExpired(svc, r)
    /\ UNCHANGED <<holdings, barrier, lastCommit>>

Tick ==
    /\ svc' = Elapsed(svc)
    /\ UNCHANGED <<holdings, barrier, lastCommit>>

-----------------------------------------------------------------------------

Next ==
    \/ \E r \in Resource, a \in Holder : AcquireOk(r, a)
    \/ \E r \in Resource : AcquireContended(r) \/ ForceRelease(r) \/ ForceExpire(r)
    \/ \E g \in holdings : Release(g) \/ Keepalive(g)
    \/ \E g \in holdings, v \in 0..MaxVersion : CommitOk(g, v) \/ CommitRefused(g, v)
    \/ Observe
    \/ Tick

Spec == Init /\ [][Next]_vars

\* The clock does not stop.
FairSpec == Spec /\ WF_vars(Tick)

-----------------------------------------------------------------------------
(* Safety *)

\* The state the service and its clients can be in has the code's types.
TypeOK ==
    /\ svc \in Service
    /\ holdings \subseteq Holding
    /\ barrier \in [Resource -> Nat]
    /\ lastCommit \in [Resource -> Nat]

HasLive(g) == \E h \in svc.held : Same(h, g) /\ Live(h)

\* Mutual exclusion (fake.rs, acquire): unless grant_twice breaks the contract
\* for it on purpose, a resource has at most one entry, lapsed ones included.
AtMostOneHolder ==
    \A h, k \in svc.held :
        h.resource = k.resource /\ h.resource \notin GrantTwice => h = k

\* A holder that lost the lock never has it again: whatever late keepalives,
\* releases and re-grants follow, no Holding comes back to life.  It is what
\* `so a holder that lost the lock always compares stale' (types.rs) needs.
LostStaysLost ==
    [][\A g \in holdings : HasLive(g)' => HasLive(g)]_vars

\* The ticket in force never goes back: commits on a resource granted to one
\* holder at a time carry tickets that never decrease, across every
\* revocation, lapse and late call.
CommitTicketsInOrder ==
    [][\A r \in Resource \ GrantTwice : lastCommit[r] <= lastCommit'[r]]_vars

\* force_release takes the lock away: a commit after it carries a ticket that
\* is not below the barrier it returned, even from a holder that still thinks
\* it owns the lock and has committed on it before (fake.rs, commit).
NoCommitBelowBarrier ==
    [][\A r \in Resource :
          svc'.version[r] # svc.version[r] => lastCommit'[r] >= barrier[r]]_vars

\* A live hold ends by its own release, by time, or by a revocation of its
\* own resource; no client call ends the hold of another, and in particular a
\* release that comes late leaves the resource's next holder alone.
HoldEndsOnlyBy ==
    [][\A h \in svc.held :
          Live(h) /\ ~HasLive(h)' =>
              /\ \/ Tick
                 \/ ForceRelease(h.resource)
                 \/ ForceExpire(h.resource)
                 \/ \E g \in holdings : Same(h, g) /\ Release(g)
              /\ \A g \in holdings : Release(g) => Same(h, g)]_vars

\* Why WedgedHolderLapses holds: a hold whose renewals are swallowed gains no
\* time by any call, its own or another's, and loses some to the clock.
SwallowedRunsDown ==
    [][\A h \in svc.held, k \in svc'.held :
          h.holder \in SwallowKeepalive /\ Same(h, k) /\ Live(k) =>
              /\ Live(h)
              /\ k.ttl <= h.ttl
              /\ Tick => k.ttl < h.ttl]_vars

(* Refinement *)

LiveTickets(r) == {h.ticket : h \in {k \in HeldOn(svc, r) : Live(k)}}

Fenced == INSTANCE FencedLock WITH
    Shared <- GrantTwice,
    owners <- [r \in Resource |-> LiveTickets(r)],
    top <- svc.last,
    fence <- barrier,
    version <- svc.version,
    committer <- lastCommit

\* With monotonic tickets the service keeps the promise of the trait, lazy
\* sweeps, leases and injected faults included.
ImplementsFencedLock == Fenced!Spec

\* `So R2's mechanism never fires ... a liveness-based lease cannot save you
\* here' (conformance.rs:150-152; fake.rs:244, demo.rs:91): a holder that checks
\* in before every unit of time keeps the lock, its wedge undetected.  It has
\* checked in when one more renewal would change nothing.
CheckingInKeepsTheLock ==
    [][\A g \in holdings :
          Tick /\ HasLive(g) /\ Renewed(svc, g) = svc => HasLive(g)']_vars

(* Liveness *)

\* A wedged holder, whose renewals are swallowed, loses the lock by the lapse
\* of its lease alone, whatever it keeps calling.  That is what the code does;
\* its comments say the opposite of it (CheckingInKeepsTheLock).
WedgedHolderLapses ==
    \A t \in 1..MaxTicket :
        (\E h \in svc.held : h.ticket = t /\ h.holder \in SwallowKeepalive /\ Live(h))
            ~> ~(\E h \in svc.held : h.ticket = t /\ Live(h))

=============================================================================
