-------------------------------- MODULE Soak --------------------------------
(***************************************************************************)
(* A whole test run: the harness under agents that come to an end, every   *)
(* call with the events it records in the history (harness.rs, fake.rs),   *)
(* and the check of the history when the run is over (tests/soak.rs,       *)
(* run_one).  The soak test draws the agents' calls, faults and delays     *)
(* from 300 seeds; here they are every possible order.                     *)
(*                                                                         *)
(* The history is kept as what the checker remembers of it.  progress past *)
(* the ceiling records CeilingReached, which tells the checker nothing.    *)
(***************************************************************************)
EXTENDS Harness, Checker

VARIABLES
    history,    \* the history so far, as the checker reads it
    checked     \* TRUE when the run is over and the history was checked

soakVars == <<vars, history, checked>>

SoakInit ==
    /\ Init
    /\ history = EmptyHistory(Initial)
    /\ checked = FALSE

-----------------------------------------------------------------------------
(* What the calls on the lock service record, m being the history before *)

Lapsed(s) == {h.ticket : h \in {k \in s.held : ~Live(k)}}

SweepUnrecorded(m, s) == m

\* sweep: LeaseExpired for every entry it removes.
SweepEvents(m, s) == HoldsEnded(m, Lapsed(s))

\* acquire, refused and granted.
ContendedEvents(m, s, a) == AgentSeen(SweepEvents(m, s), a)
AcquireEvents(m, s, a) ==
    TakeGranted(TicketIssued(ContendedEvents(m, s, a), NewTicket(s)), a, NewTicket(s))

\* release says GiveBack even if the hold had gone, but not if it was dropped.
ReleaseEvents(m, s, a, t) ==
    IF a \in DropRelease THEN SweepEvents(m, s) ELSE HoldsEnded(SweepEvents(m, s), {t})

-----------------------------------------------------------------------------
(* The calls on the harness *)

Working(a) == ~checked /\ a \notin history.wedged \cup history.finished

\* Under Full, read acquires and then asks for the version, which sweeps again.
ReadTakes(a) == SweepEvents(AcquireEvents(history, svc, a), Acquired(svc, File, a))

SoakRead(a) ==
    \/ ReadWriteOnly(a) /\ history' = AgentSeen(SweepEvents(history, svc), a)
    \/ ReadFull(a) /\ history' = ReadTakes(a)
    \/ ReadContended(a) /\ history' = ContendedEvents(history, svc, a)
    \/ /\ ReadFails(a)
       /\ history' = IF Span = "Full" THEN ReadTakes(a) ELSE SweepEvents(history, svc)

\* The attempt is recorded once the lock is held, before anything is staged.
AttemptEvents(a) ==
    WriteAttempted(IF Span = "Full" THEN history ELSE AcquireEvents(history, svc, a),
                   a, snap[a].version)

\* commit sweeps; under WriteOnly a refusal goes on to release.
RefusalEvents(a, k) ==
    LET m == WriteRefused(SweepEvents(AttemptEvents(a), k.svc), a)
    IN  IF Span = "WriteOnly" THEN ReleaseEvents(m, k.svc, a, k.ticket) ELSE m

SoakAuthorize(a) ==
    \/ AuthorizeContended(a) /\ history' = ContendedEvents(history, svc, a)
    \/ /\ AuthorizeOk(a)
       /\ \E k \in Locked(a) : history' = SweepEvents(AttemptEvents(a), k.svc)
    \/ /\ AuthorizeRefused(a)
       /\ \E k \in Locked(a) : history' = RefusalEvents(a, k)
    \/ PrepareFails(a) /\ history' = AttemptEvents(a)

FinishEvents(m, a) == ReleaseEvents(m, svc, a, pend[a].ticket)

AcceptedEvent(m, a) ==
    WriteAccepted(m, a, pend[a].ticket, pend[a].newVersion, pend[a].content)

SoakApply(a) ==
    \/ /\ ApplyOk(a)
       /\ history' = FinishEvents(AcceptedEvent(SweepEvents(history, svc), a), a)
    \/ /\ ApplySuperseded(a)
       /\ history' = FinishEvents(WriteRefused(SweepEvents(history, svc), a), a)
    \/ ApplyFails(a) /\ history' = SweepEvents(history, svc)

SoakAbandon(a) ==
    Abandon(a) /\ history' = ReleaseEvents(history, svc, a, open[a].ticket)

SoakForceRelease ==
    ForceRelease /\ history' = Revoked(SweepEvents(history, svc), Barrier(svc))

SoakForceExpire ==
    ForceExpire /\ history' = HoldsEnded(history, {h.ticket : h \in svc.held})

-----------------------------------------------------------------------------
(* The agents' ends, and the check *)

\* Alive, and it will never make another call.
Wedge(a) ==
    /\ Idle(a)
    /\ snap[a] # None
    /\ history' = AgentWedged(history, a)
    /\ UNCHANGED vars

\* Whoever is not wedged abandons what it holds and is recorded as finished.
Retire(a) ==
    \/ /\ Abandon(a)
       /\ history' = AgentFinished(ReleaseEvents(history, svc, a, open[a].ticket), a)
    \/ /\ Idle(a)
       /\ open[a] = None
       /\ history' = AgentFinished(history, a)
       /\ UNCHANGED vars

AfterNoTime(s, n) == s

\* n units of time pass at once.
After(s, n) ==
    [s EXCEPT !.held = {[h EXCEPT !.ttl = IF n < h.ttl THEN h.ttl - n ELSE 0] : h \in s.held}]

\* Two leases later, current_ticket sweeps and the history is checked.
CheckRun ==
    /\ ~checked
    /\ \A a \in Holder : ~Working(a)
    /\ svc' = Sweep(After(svc, 2 * Lease))
    /\ history' = SweepEvents(history, After(svc, 2 * Lease))
    /\ checked' = TRUE
    /\ UNCHANGED <<file, tmp, open, snap, pend, accepted, barrier>>

-----------------------------------------------------------------------------

AgentStep(a) ==
    /\ Working(a)
    /\ UNCHANGED checked
    /\ \/ SoakRead(a) \/ SoakAuthorize(a) \/ SoakApply(a) \/ SoakAbandon(a)
       \/ Progress(a) /\ history' = SweepEvents(history, svc)
       \/ DropAuthorized(a) /\ UNCHANGED history
       \/ Wedge(a) \/ Retire(a)

SoakTick == Tick /\ UNCHANGED history

WorldStep ==
    /\ ~checked
    /\ UNCHANGED checked
    /\ SoakForceRelease \/ SoakForceExpire \/ SoakTick

SoakNext == (\E a \in Holder : AgentStep(a)) \/ WorldStep \/ CheckRun

SoakSpec == SoakInit /\ [][SoakNext]_soakVars

\* The clock does not stop while the run lasts.
FairSoakSpec == SoakSpec /\ WF_soakVars(WorldStep /\ SoakTick)

-----------------------------------------------------------------------------
(* Properties *)

\* `The history could not be replayed into a lock state' was the soak's first
\* find (doc/test-design.md, 7b; history.rs, GiveBack): replayed as the checker
\* does it, the history gives exactly the holds of the service.
HistoryReplays ==
    history.held = {[holder |-> h.holder, ticket |-> h.ticket] : h \in svc.held}

\* soak_all_properties_hold_across_seeds: whatever the agents, the preemptor,
\* the clock and the faults did, the check finds all eight properties to hold.
SoakPasses == checked => Report(history, file, Initial) = {}

\* The oracles that the way the harness is driven leaves open: phases that are
\* driven apart, renames that fail after the version was committed, and, with
\* both phases apart and prepares that fail, another write's bytes.
Exposed ==
    (IF Split THEN {"P2", "P6", "P8"} ELSE {})
        \cup (IF "DuringRename" \in IoFaults THEN {"P6"} ELSE {})
        \cup (IF Split /\ "AfterTempWritten" \in IoFaults THEN {"P3", "P4"} ELSE {})

\* However the run went, no other oracle reports: in particular P1, P5 and P7
\* never do, and P2 and P8 only for callers who drive the phases apart.
OnlyExposedReport == checked => Report(history, file, Initial) \subseteq Exposed

\* P1 for callers who drive the phases apart: two accepted writes never overlap,
\* even when both were authorized on locks lost since.
AcceptedNeverOverlap == "P1" \notin history.violated

\* `Every accepted write held the ticket in force at its authorization point'
\* (checker.rs, P2): commit has just checked that when a write is authorized,
\* so with tickets that do not repeat P2 has nothing to report.
TicketsValidWhenAuthorized == "P2" \notin history.violated

=============================================================================
