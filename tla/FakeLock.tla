------------------------------ MODULE FakeLock ------------------------------
(***************************************************************************)
(* The in-memory lock service (src/src/lock/fake.rs) as operators on one   *)
(* record, its mutex-protected State:                                      *)
(*                                                                         *)
(*   held     the HeldBy entries of every resource                         *)
(*   next     next_ticket, service-global                                  *)
(*   last     last_issued                                                  *)
(*   version  the content version of each resource                         *)
(*                                                                         *)
(* Every method of the service runs under the mutex from its sweep to its  *)
(* return, so each one is a single function from the state before to the   *)
(* state after, and a method that fails still leaves the swept state.      *)
(* Time is relative: an entry keeps `ttl', the time left to its deadline,  *)
(* and Elapsed lets one unit pass.  The content_hash the service stores    *)
(* beside the version is never read by it and is left out.                 *)
(***************************************************************************)
EXTENDS Integers

CONSTANTS
    Holder,              \* agents, known to the service by name only
    Resource,            \* protected resources
    Lease,               \* the liveness timeout, in units of time
    GrantTwice,          \* fault: resources granted while already held
    SwallowKeepalive,    \* fault: holders whose renewals are discarded
    DropRelease,         \* fault: holders whose releases are ignored
    NonMonotonicTickets  \* fault: the previous ticket value is issued again

ASSUME LeaseAssumption == Lease \in Nat

\* The faults are the field types of `Faults'.  No test combines the two that
\* break the contract; together they could put equal entries in one `held'.
ASSUME FaultsAssumption ==
    /\ GrantTwice \subseteq Resource
    /\ SwallowKeepalive \subseteq Holder
    /\ DropRelease \subseteq Holder
    /\ NonMonotonicTickets \in BOOLEAN
    /\ NonMonotonicTickets => GrantTwice = {}

Ticket == Nat \ {0}
Version == Nat
Holding == [resource : Resource, holder : Holder, ticket : Ticket]
HeldBy == [resource : Resource, holder : Holder, ticket : Ticket, ttl : Nat]
Service == [held : SUBSET HeldBy, next : Ticket, last : Nat,
            version : [Resource -> Version]]

NewServiceFromZero == [held |-> {}, next |-> 0, last |-> 0,
                       version |-> [r \in Resource |-> 0]]

\* FakeLockService::new: tickets start at 1, so Ticket(0) is never valid.
NewService == [held |-> {}, next |-> 1, last |-> 0,
               version |-> [r \in Resource |-> 0]]

-----------------------------------------------------------------------------
(* Leases *)

\* `deadline <= now' expires: an entry with no time left goes.
Live(h) == h.ttl > 0

\* Lapsed leases leave `held' only when an operation observes them.
Sweep(s) == [s EXCEPT !.held = {h \in s.held : Live(h)}]

Remaining(n) == IF n > 0 THEN n - 1 ELSE 0

\* One unit of time passes for every entry; nothing is swept by the clock.
Elapsed(s) ==
    [s EXCEPT !.held = {[h EXCEPT !.ttl = Remaining(h.ttl)] : h \in s.held}]

-----------------------------------------------------------------------------
(* Who holds what *)

HeldOn(s, r) == {h \in s.held : h.resource = r}

\* Holdings are matched by ticket alone, never by holder.
Same(h, g) == h.resource = g.resource /\ h.ticket = g.ticket
Holds(s, g) == \E h \in s.held : Same(h, g)

\* The ticket in force is the highest among the current holders.
IsCurrent(s, g) == \A h \in HeldOn(s, g.resource) : h.ticket <= g.ticket

-----------------------------------------------------------------------------
(* acquire *)

CanAcquireHeld(s, r) == TRUE

CanAcquire(s, r) == HeldOn(Sweep(s), r) = {} \/ r \in GrantTwice

\* `issue': the fault re-issues last_issued.max(1) and leaves `next' alone.
NewTicket(s) ==
    IF NonMonotonicTickets THEN IF s.last > 0 THEN s.last ELSE 1 ELSE s.next

NewHolding(s, r, a) == [resource |-> r, holder |-> a, ticket |-> NewTicket(s)]

Entry(g, n) == [resource |-> g.resource, holder |-> g.holder,
                ticket |-> g.ticket, ttl |-> n]

Acquired(s, r, a) ==
    [s EXCEPT !.held = Sweep(s).held \cup {Entry(NewHolding(s, r, a), Lease)},
              !.next = IF NonMonotonicTickets THEN s.next ELSE s.next + 1,
              !.last = NewTicket(s)]

-----------------------------------------------------------------------------
(* release, keepalive *)

ReleasedAll(s, g) ==
    [Sweep(s) EXCEPT !.held = {h \in Sweep(s).held : h.resource # g.resource}]

\* Idempotent: a holding already lost matches no entry.
Released(s, g) ==
    IF g.holder \in DropRelease
    THEN Sweep(s)
    ELSE [s EXCEPT !.held = {h \in Sweep(s).held : ~Same(h, g)}]

RenewedUnswept(s, g) ==
    [s EXCEPT !.held = {IF Same(h, g) THEN Entry(h, Lease) ELSE h : h \in s.held}]

RenewedAnyway(s, g) ==
    [s EXCEPT !.held = {IF Same(h, g) THEN Entry(h, Lease) ELSE h :
                            h \in Sweep(s).held}]

\* A swallowed renewal answers Ok and extends nothing; one for a holding that
\* is gone answers Expired, and the swept state is all that remains of it.
Renewed(s, g) ==
    IF g.holder \in SwallowKeepalive
    THEN Sweep(s)
    ELSE [s EXCEPT !.held = {IF Same(h, g) THEN Entry(h, Lease) ELSE h :
                                 h \in Sweep(s).held}]

-----------------------------------------------------------------------------
(* force_release, force_expire *)

ForceReleasedLate(s, r) == [Sweep(s) EXCEPT !.next = s.next + 1]

\* The holder is not told, and one ticket value is burnt.
ForceReleased(s, r) ==
    [s EXCEPT !.held = {h \in Sweep(s).held : h.resource # r},
              !.next = s.next + 1]

BarrierTooHigh(s) == s.next + 2

\* The barrier force_release returns: the next ticket to be issued, so that
\* every ticket issued before compares below it and none issued after does.
Barrier(s) == s.next + 1

\* The test-only control: the holders of r lose it now, nobody else is swept.
ForceExpired(s, r) == [s EXCEPT !.held = {h \in s.held : h.resource # r}]

-----------------------------------------------------------------------------
(* commit *)

CanCommitLost(s, g, v) == s.version[g.resource] = v
CanCommitBlind(s, g, v) == Holds(Sweep(s), g) /\ IsCurrent(Sweep(s), g)

\* Ticket and version are compared together; failing either refuses the write
\* (StaleTicket, StaleVersion).
CanCommit(s, g, v) ==
    /\ Holds(Sweep(s), g)
    /\ IsCurrent(Sweep(s), g)
    /\ s.version[g.resource] = v

Committed(s, g) == [Sweep(s) EXCEPT !.version[g.resource] = @ + 1]

=============================================================================
