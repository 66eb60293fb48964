------------------------------ MODULE Checker -------------------------------
(***************************************************************************)
(* The oracle (src/src/checker.rs): eight properties judged over the       *)
(* history, whose entries (src/src/history.rs) it reads in order, once per *)
(* property.  Here the eight passes are one: a record m holds what they    *)
(* remember of the entries so far, and there is one operator per event.    *)
(*                                                                         *)
(*   held      p2, p5   the holds the history has granted and not ended    *)
(*   highest   p2       the highest ticket issued                          *)
(*   barrier   p8       the last revocation's, 0 before the first          *)
(*   attempts  p1, p6   the open WriteAttempted of each holder             *)
(*   version   p6       the version of the last accepted write             *)
(*   last      p3       the content of the last accepted write             *)
(*   accepted  p4       every content ever accepted                        *)
(*   seen, wedged, finished   p7                                           *)
(*   violated  what p1, p2, p6 and p8 have reported                        *)
(*                                                                         *)
(* There is one resource, as in every history the program records.         *)
(***************************************************************************)
EXTENDS Integers

\* Before the first entry, when the file holds the initial content.
EmptyHistory(initial) ==
    [held |-> {}, highest |-> 0, barrier |-> 0, attempts |-> {}, version |-> 0,
     last |-> initial, accepted |-> {}, seen |-> {}, wedged |-> {}, finished |-> {},
     violated |-> {}]

-----------------------------------------------------------------------------
(* The lock's events *)

Reports(p, bad) == IF bad THEN {p} ELSE {}

\* TakeRequested and Read say only that the agent takes part.
AgentSeen(m, a) == [m EXCEPT !.seen = @ \cup {a}]

TicketIssued(m, t) ==
    [m EXCEPT !.highest = IF t > @ THEN t ELSE @,
              !.violated = @ \cup Reports("P2", t <= m.highest)]

\* Keyed by ticket: a second grant of a ticket replaces the first.
TakeGranted(m, a, t) ==
    [m EXCEPT !.held = {h \in @ : h.ticket # t} \cup {[holder |-> a, ticket |-> t]}]

HoldsEndedKept(m, T) == m

\* GiveBack or LeaseExpired of each ticket of T, held or not.
HoldsEnded(m, T) == [m EXCEPT !.held = {h \in @ : h.ticket \notin T}]

\* The barrier must exceed the ticket in force, the highest held.
Revoked(m, b) ==
    [m EXCEPT !.held = {},
              !.barrier = b,
              !.violated = @ \cup Reports("P2", \E h \in m.held : b <= h.ticket)]

-----------------------------------------------------------------------------
(* The write's events *)

Others(m, a) == {w \in m.attempts : w.holder # a}

\* An earlier attempt of the same holder is forgotten.
WriteAttempted(m, a, v) ==
    [m EXCEPT !.attempts =
        Others(m, a) \cup {[holder |-> a, basedOn |-> v, overlapped |-> FALSE]}]

\* p6 keeps the version of a refused attempt, but only to overwrite it: every
\* accepted write has an attempt of its own.
WriteRefused(m, a) == [m EXCEPT !.attempts = Others(m, a)]

\* p1 compares every two windows at the end; two of different holders overlap
\* when one closes while the other, to be accepted later, is open.
Overlapped(m, a) == \E w \in m.attempts : w.holder = a /\ w.overlapped

\* p2: the ticket in force is the highest of the current holds.
InForce(m, t) ==
    /\ \E h \in m.held : h.ticket = t
    /\ \A h \in m.held : h.ticket <= t

\* p6: the version the attempt was based on is the last one accepted.
Fresh(m, a) == \E w \in m.attempts : w.holder = a /\ w.basedOn = m.version

\* p8: the ticket is older than the last revocation.
BelowBarrier(m, t) == t < m.barrier

\* The write's window closes.
WriteAccepted(m, a, t, v, c) ==
    [m EXCEPT
        !.attempts = {[w EXCEPT !.overlapped = TRUE] : w \in Others(m, a)},
        !.version = v,
        !.last = c,
        !.accepted = @ \cup {c},
        !.violated = @ \cup Reports("P1", Overlapped(m, a))
                       \cup Reports("P2", ~InForce(m, t))
                       \cup Reports("P6", ~Fresh(m, a))
                       \cup Reports("P8", BelowBarrier(m, t))]

-----------------------------------------------------------------------------
(* The agents' events, and the end *)

AgentWedged(m, a) == [m EXCEPT !.seen = @ \cup {a}, !.wedged = @ \cup {a}]
AgentFinished(m, a) == [m EXCEPT !.seen = @ \cup {a}, !.finished = @ \cup {a}]

\* p3: the final content is not that of the last accepted write.
NotLast(m, final) == final # m.last

\* p4: the final content was never accepted.  p4 also looks for it among the
\* refused ones, which adds nothing unless a refused write repeats the initial.
Phantom(m, final, initial) == final # initial /\ final \notin m.accepted

\* p5: a grant is not matched by a release, a lapse or a revocation.
Leaks(m) == m.held # {}

\* p7: an agent neither finished nor was marked wedged.
Unfinished(m) == ~(m.seen \subseteq m.wedged \cup m.finished)

\* check with ALL: the properties violated by the history that ends here.
Report(m, final, initial) ==
    m.violated
        \cup Reports("P3", NotLast(m, final))
        \cup Reports("P4", Phantom(m, final, initial))
        \cup Reports("P5", Leaks(m))
        \cup Reports("P7", Unfinished(m))

=============================================================================
