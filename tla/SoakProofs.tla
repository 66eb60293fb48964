----------------------------- MODULE SoakProofs ------------------------------
(***************************************************************************)
(* What the check of a whole run finds: Soak, for any number of agents, any *)
(* lease and ceiling, and the faults each theorem allows, but never a       *)
(* ticket source that repeats itself.                                       *)
(***************************************************************************)
EXTENDS Soak, SpanProofs, PublishProofs

Attempt == [holder : Holder, basedOn : Nat, overlapped : BOOLEAN]

\* What the checker remembers, by type.
History == [held : SUBSET [holder : Holder, ticket : Nat],
            highest : Nat, barrier : Nat, attempts : SUBSET Attempt,
            version : Nat, last : Content, accepted : SUBSET Content,
            seen : SUBSET Holder, wedged : SUBSET Holder, finished : SUBSET Holder,
            violated : SUBSET {"P1", "P2", "P6", "P8"}]

\* An entry of the service, as the history knows it.
Hold(h) == [holder |-> h.holder, ticket |-> h.ticket]
Holdings(s) == {Hold(h) : h \in s.held}

\* Entries on the one file are told apart by their tickets, all issued, and
\* none has more than a lease left.
Sound(s) ==
    /\ s \in Service
    /\ \A h \in s.held : h.resource = File /\ h.ticket < s.next /\ h.ttl <= Lease
    /\ \A h, k \in s.held : h.ticket = k.ticket => h = k

Replays(m, s) == m \in History /\ Sound(s) /\ m.held = Holdings(s)

\* The events leave what the history knows of writes and violations.
SameWrites(m, n) ==
    /\ n.attempts = m.attempts /\ n.version = m.version
    /\ n.last = m.last /\ n.accepted = m.accepted

Steady(m, n) ==
    /\ SameWrites(m, n)
    /\ n.highest = m.highest /\ n.barrier = m.barrier /\ n.violated = m.violated

-----------------------------------------------------------------------------
(* Sound services *)

LEMMA SoundNumbers ==
  ASSUME NEW s, Sound(s)
  PROVE  /\ s \in Service /\ s.next \in Nat /\ s.next \in Ticket
         /\ \A h \in s.held : /\ h \in HeldBy /\ h.ticket \in Nat /\ h.ttl \in Nat
                              /\ h.holder \in Holder
  BY DEF Sound, Service, HeldBy, Ticket

LEMMA InheritsSound ==
  ASSUME NEW s, Sound(s), NEW t \in Service, Inherits(s, t), t.next >= s.next,
         \A h \in t.held : h.ttl <= Lease
  PROVE  Sound(t)
<1>1. s.next \in Nat /\ t.next \in Nat /\ \A h \in s.held : h.ticket \in Nat
  BY SoundNumbers DEF Service, Ticket
<1>2. \A h \in t.held : h.resource = File /\ h.ticket < t.next
  BY <1>1 DEF Sound, Inherits, From
<1>3. \A h, k \in t.held : h.ticket = k.ticket => h = k
  BY DEF Sound, Inherits, From
<1>4. QED
  BY <1>2, <1>3 DEF Sound

LEMMA AcquiredSound ==
  ASSUME ~NonMonotonicTickets, NEW s, Sound(s), NEW a \in Holder
  PROVE  /\ Sound(Acquired(s, File, a))
         /\ Acquired(s, File, a).held
              = Sweep(s).held \cup {Entry(NewHolding(s, File, a), Lease)}
         /\ NewTicket(s) = s.next /\ Acquired(s, File, a).next = s.next + 1
<1>0. s \in Service /\ s.next \in Nat /\ File \in Resource
      /\ \A h \in s.held : h.ticket \in Nat
  BY SoundNumbers, HarnessAssumption
<1>1. /\ Acquired(s, File, a).held
           = Sweep(s).held \cup {Entry(NewHolding(s, File, a), Lease)}
      /\ Sweep(s).held \subseteq s.held
  BY <1>0, AcquiredHeld
<1>2. NewTicket(s) = s.next /\ Acquired(s, File, a).next = s.next + 1
  BY <1>0 DEF NewTicket, Acquired, Service
<1>3. /\ Entry(NewHolding(s, File, a), Lease).resource = File
      /\ Entry(NewHolding(s, File, a), Lease).ticket = s.next
      /\ Entry(NewHolding(s, File, a), Lease).ttl <= Lease
  BY <1>2, LeaseAssumption DEF Entry, NewHolding
<1>4. Acquired(s, File, a) \in Service
  BY <1>0, AcquiredType
<1>5. \A h \in Acquired(s, File, a).held :
        h.resource = File /\ h.ticket < s.next + 1 /\ h.ttl <= Lease
  BY <1>0, <1>1, <1>3 DEF Sound
<1>6. \A h, k \in Acquired(s, File, a).held : h.ticket = k.ticket => h = k
  BY <1>0, <1>1, <1>3 DEF Sound
<1>7. QED
  BY <1>1, <1>2, <1>4, <1>5, <1>6 DEF Sound

-----------------------------------------------------------------------------
(* The events, one operation of the service at a time *)

LEMMA HoldsEndedType ==
  ASSUME NEW m \in History, NEW T
  PROVE  /\ HoldsEnded(m, T) \in History
         /\ HoldsEnded(m, T).held = {h \in m.held : h.ticket \notin T}
         /\ Steady(m, HoldsEnded(m, T))
  BY DEF History, HoldsEnded, Steady, SameWrites

LEMMA SweepReplays ==
  ASSUME NEW m, NEW s, Replays(m, s)
  PROVE  Replays(SweepEvents(m, s), Sweep(s)) /\ Steady(m, SweepEvents(m, s))
<1>0. m \in History /\ Sound(s) /\ s \in Service
  BY SoundNumbers DEF Replays
<1>1. Sound(Sweep(s))
  <2>1. Sweep(s) \in Service /\ Sweep(s).next = s.next /\ s.next \in Nat
    BY <1>0, SweepType, SweepFewer, SoundNumbers
  <2>2. \A h \in Sweep(s).held : h.ttl <= Lease
    BY <1>0, SweepFewer DEF Sound
  <2>3. QED
    BY <1>0, <2>1, <2>2, SweepInherits, InheritsSound
<1>2. Sweep(s).held = {h \in s.held : Live(h)}
  BY <1>0 DEF Sweep, Service
<1>3. \A h \in s.held : Live(h) <=> h.ticket \notin Lapsed(s)
  BY <1>0 DEF Lapsed, Sound
<1>4. {h \in Holdings(s) : h.ticket \notin Lapsed(s)} = Holdings(Sweep(s))
  BY <1>2, <1>3 DEF Holdings, Hold
<1> DEFINE n == SweepEvents(m, s)
<1>5. n \in History /\ n.held = {h \in m.held : h.ticket \notin Lapsed(s)} /\ Steady(m, n)
  BY <1>0, HoldsEndedType DEF SweepEvents
<1>6. m.held = Holdings(s)
  BY DEF Replays
<1> HIDE DEF n
<1>7. Replays(n, Sweep(s))
  BY <1>1, <1>4, <1>5, <1>6 DEF Replays
<1>8. QED
  BY <1>5, <1>7 DEF n

\* What one call has swept, it may sweep again.
LEMMA SweptReplays ==
  ASSUME NEW m, NEW s, Sound(s), Replays(m, s) \/ Replays(m, Sweep(s))
  PROVE  Replays(SweepEvents(m, s), Sweep(s)) /\ Steady(m, SweepEvents(m, s))
<1>1. CASE Replays(m, s)
  BY <1>1, SweepReplays
<1>2. CASE Replays(m, Sweep(s))
  <2>1. Sweep(s).held = {h \in s.held : Live(h)}
    BY DEF Sweep, Sound, Service
  <2>2. \A h \in Sweep(s).held : h.ticket \notin Lapsed(s)
    BY <2>1 DEF Lapsed, Sound
  <2>3. {h \in m.held : h.ticket \notin Lapsed(s)} = m.held
    BY <1>2, <2>2 DEF Replays, Holdings, Hold
  <2>4. QED
    BY <1>2, <2>3, HoldsEndedType DEF Replays, SweepEvents
<1>3. QED
  BY <1>1, <1>2

LEMMA SeenReplays ==
  ASSUME NEW m, NEW s, Replays(m, s), NEW a \in Holder
  PROVE  Replays(AgentSeen(m, a), s) /\ Steady(m, AgentSeen(m, a))
<1>1. AgentSeen(m, a) \in History /\ AgentSeen(m, a).held = m.held
      /\ Steady(m, AgentSeen(m, a))
  BY DEF Replays, History, AgentSeen, Steady, SameWrites
<1>2. QED
  BY <1>1 DEF Replays

LEMMA ContendedReplays ==
  ASSUME NEW m, NEW s, Replays(m, s), NEW a \in Holder
  PROVE  /\ Replays(ContendedEvents(m, s, a), Sweep(s))
         /\ Steady(m, ContendedEvents(m, s, a))
  BY SweepReplays, SeenReplays DEF ContendedEvents, Steady, SameWrites

LEMMA IssuedType ==
  ASSUME NEW m \in History, NEW t \in Nat
  PROVE  /\ TicketIssued(m, t) \in History /\ TicketIssued(m, t).held = m.held
         /\ SameWrites(m, TicketIssued(m, t))
         /\ TicketIssued(m, t).barrier = m.barrier
         /\ m.highest < t => /\ TicketIssued(m, t).violated = m.violated
                             /\ TicketIssued(m, t).highest = t
<1> DEFINE bad == Reports("P2", t <= m.highest)
<1>0. m.highest \in Nat
  BY DEF History
<1>1. bad \in SUBSET {"P1", "P2", "P6", "P8"}
  BY DEF Reports
<1>2. m.highest < t => bad = {}
  BY <1>0 DEF Reports
<1> HIDE DEF bad
<1>3. TicketIssued(m, t) = [m EXCEPT !.highest = IF t > m.highest THEN t ELSE m.highest,
                                     !.violated = m.violated \cup bad]
  BY DEF TicketIssued, bad, History
<1> DEFINE top == IF t > m.highest THEN t ELSE m.highest
           seen == m.violated \cup bad
<1>4. top \in Nat /\ (m.highest < t => top = t)
  BY <1>0
<1>5. seen \in SUBSET {"P1", "P2", "P6", "P8"} /\ (m.highest < t => seen = m.violated)
  BY <1>1, <1>2 DEF History
<1> HIDE DEF top, seen
<1>6. TicketIssued(m, t) = [m EXCEPT !.highest = top, !.violated = seen]
  BY <1>3 DEF top, seen
<1>7. QED
  BY <1>4, <1>5, <1>6 DEF History, SameWrites

LEMMA GrantedType ==
  ASSUME NEW m \in History, NEW a \in Holder, NEW t \in Nat
  PROVE  /\ TakeGranted(m, a, t) \in History
         /\ TakeGranted(m, a, t).held
              = {h \in m.held : h.ticket # t} \cup {[holder |-> a, ticket |-> t]}
         /\ Steady(m, TakeGranted(m, a, t))
  BY DEF History, TakeGranted, Steady, SameWrites

LEMMA AcquireReplays ==
  ASSUME ~NonMonotonicTickets, NEW m, NEW s, Replays(m, s), NEW a \in Holder
  PROVE  /\ Replays(AcquireEvents(m, s, a), Acquired(s, File, a))
         /\ SameWrites(m, AcquireEvents(m, s, a))
         /\ AcquireEvents(m, s, a).barrier = m.barrier
         /\ m.highest < s.next => /\ AcquireEvents(m, s, a).violated = m.violated
                                  /\ AcquireEvents(m, s, a).highest = s.next
<1> DEFINE c == ContendedEvents(m, s, a)
           i == TicketIssued(c, s.next)
           g == TakeGranted(i, a, s.next)
<1>0. Sound(s) /\ s.next \in Nat
  BY SoundNumbers DEF Replays
<1>1. /\ Sound(Acquired(s, File, a)) /\ NewTicket(s) = s.next
      /\ Acquired(s, File, a).held
           = Sweep(s).held \cup {Entry(NewHolding(s, File, a), Lease)}
  BY <1>0, AcquiredSound
<1>2. Replays(c, Sweep(s)) /\ Steady(m, c)
  BY ContendedReplays
<1>3. /\ i \in History /\ i.held = c.held /\ SameWrites(c, i) /\ i.barrier = c.barrier
      /\ c.highest < s.next => i.violated = c.violated /\ i.highest = s.next
  BY <1>0, <1>2, IssuedType DEF Replays
<1>4. /\ g \in History /\ Steady(i, g)
      /\ g.held = {h \in i.held : h.ticket # s.next} \cup {[holder |-> a, ticket |-> s.next]}
  BY <1>0, <1>3, GrantedType
<1>5. \A h \in Sweep(s).held : h.ticket # s.next
  BY <1>0, SoundNumbers, SweepFewer DEF Sound
<1>6. g.held = Holdings(Acquired(s, File, a))
  <2>1. {h \in i.held : h.ticket # s.next} = Holdings(Sweep(s))
    BY <1>2, <1>3, <1>5 DEF Replays, Holdings, Hold
  <2>2. Hold(Entry(NewHolding(s, File, a), Lease)) = [holder |-> a, ticket |-> s.next]
    BY <1>1 DEF Hold, Entry, NewHolding
  <2>3. QED
    BY <1>1, <1>4, <2>1, <2>2 DEF Holdings
<1>7. AcquireEvents(m, s, a) = g
  BY <1>1 DEF AcquireEvents
<1>8. QED
  BY <1>1, <1>2, <1>3, <1>4, <1>6, <1>7 DEF Replays, Steady, SameWrites

\* What an operation leaves is replayed if it only inherits entries, and the
\* history knows them all.
LEMMA ReplaysInherits ==
  ASSUME NEW m, NEW n \in History, NEW s, Replays(m, s), NEW t \in Service,
         Inherits(s, t), t.next >= s.next, \A h \in t.held : h.ttl <= Lease,
         n.held = Holdings(t)
  PROVE  Replays(n, t)
  BY InheritsSound DEF Replays

LEMMA ReleaseReplays ==
  ASSUME NEW m, NEW s, Sound(s), Replays(m, s) \/ Replays(m, Sweep(s)),
         NEW a \in Holder, NEW t \in Ticket
  PROVE  /\ Replays(ReleaseEvents(m, s, a, t), Released(s, HoldingOf(a, t)))
         /\ Steady(m, ReleaseEvents(m, s, a, t))
<1> DEFINE g == HoldingOf(a, t)
           n == HoldsEnded(SweepEvents(m, s), {t})
<1>0. Sound(s) /\ s \in Service /\ s.next \in Nat /\ g \in Holding
  BY SoundNumbers, HoldingOfType
<1>1. Replays(SweepEvents(m, s), Sweep(s)) /\ Steady(m, SweepEvents(m, s))
  BY SweptReplays
<1>2. CASE a \in DropRelease
  BY <1>1, <1>2 DEF ReleaseEvents, Released, HoldingOf
<1>3. CASE a \notin DropRelease
  <2>1. /\ n \in History /\ Steady(m, n)
        /\ n.held = {h \in Holdings(Sweep(s)) : h.ticket # t}
    BY <1>1, HoldsEndedType DEF Replays, Steady, SameWrites
  <2>2. Released(s, g).held = {h \in Sweep(s).held : ~Same(h, g)}
    BY <1>0, <1>3 DEF Released, HoldingOf, Service
  <2>3. \A h \in Sweep(s).held : Same(h, g) <=> h.ticket = t
    BY <1>0, SweepFewer DEF Sound, Same, HoldingOf
  <2>4. {h \in Holdings(Sweep(s)) : h.ticket # t} = Holdings(Released(s, g))
    BY <2>2, <2>3 DEF Holdings, Hold
  <2>5. /\ Released(s, g) \in Service /\ Inherits(s, Released(s, g))
        /\ Released(s, g).next = s.next /\ \A h \in Released(s, g).held : h.ttl <= Lease
    BY <1>0, ReleasedType, ReleasedInherits, ReleasedFewer DEF Sound
  <2>6. Replays(n, Released(s, g))
    <3>1. n \in History /\ n.held = Holdings(Released(s, g))
      BY <2>1, <2>4
    <3> HIDE DEF n, g
    <3>2. QED
      BY <1>0, <2>5, <3>1, InheritsSound DEF Replays
  <2>7. ReleaseEvents(m, s, a, t) = n
    BY <1>3 DEF ReleaseEvents
  <2>8. QED
    BY <2>1, <2>6, <2>7
<1>4. QED
  BY <1>2, <1>3

\* A renewal changes only how long an entry lives.
LEMMA RenewReplays ==
  ASSUME NEW m, NEW s, Replays(m, s), NEW g \in Holding
  PROVE  Replays(SweepEvents(m, s), Renewed(s, g))
<1>0. s \in Service /\ s.next \in Nat
  BY SoundNumbers DEF Replays
<1>1. Replays(SweepEvents(m, s), Sweep(s))
  BY SweepReplays
<1>2. CASE g.holder \in SwallowKeepalive
  BY <1>1, <1>2 DEF Renewed
<1>3. CASE g.holder \notin SwallowKeepalive
  <2>1. Renewed(s, g).held = {IF Same(h, g) THEN Entry(h, Lease) ELSE h : h \in Sweep(s).held}
    BY <1>0, <1>3 DEF Renewed, Service
  <2>2. \A h : Hold(IF Same(h, g) THEN Entry(h, Lease) ELSE h) = Hold(h)
    BY DEF Hold, Entry
  <2>3. Holdings(Renewed(s, g)) = Holdings(Sweep(s))
    BY <2>1, <2>2 DEF Holdings
  <2>4. Renewed(s, g) \in Service /\ Inherits(s, Renewed(s, g)) /\ Renewed(s, g).next = s.next
    BY <1>0, HarnessAssumption, RenewedType, RenewedInherits, SameCounters
  <2>5. \A h \in Renewed(s, g).held : h.ttl <= Lease
    BY <1>0, <2>1, SweepFewer, LeaseAssumption DEF Replays, Sound, Entry
  <2>6. QED
    BY <1>0, <1>1, <2>3, <2>4, <2>5, ReplaysInherits DEF Replays
<1>4. QED
  BY <1>2, <1>3

LEMMA CommitReplays ==
  ASSUME NEW m, NEW s, Replays(m, s), NEW g \in Holding
  PROVE  Replays(SweepEvents(m, s), Committed(s, g))
<1>0. s \in Service /\ s.next \in Nat
  BY SoundNumbers DEF Replays
<1>1. Replays(SweepEvents(m, s), Sweep(s))
  BY SweepReplays
<1>2. Committed(s, g).held = Sweep(s).held
  BY <1>0 DEF Committed, Sweep, Service
<1>3. Committed(s, g) \in Service /\ Inherits(s, Committed(s, g)) /\ Committed(s, g).next = s.next
  BY <1>0, CommittedType, CommittedInherits, CommittedFewer
<1>4. Holdings(Committed(s, g)) = Holdings(Sweep(s))
      /\ \A h \in Committed(s, g).held : h.ttl <= Lease
  BY <1>1, <1>2 DEF Replays, Sound, Holdings
<1>5. QED
  BY <1>0, <1>1, <1>3, <1>4, ReplaysInherits DEF Replays

\* Everything held is on the one file, and a revocation ends it all.
LEMMA RevokeReplays ==
  ASSUME NEW m, NEW s, Replays(m, s)
  PROVE  LET n == Revoked(SweepEvents(m, s), Barrier(s))
         IN  /\ Replays(n, ForceReleased(s, File))
             /\ SameWrites(m, n) /\ n.highest = m.highest
             /\ n.barrier = s.next + 1 /\ n.violated = m.violated
<1> DEFINE e == SweepEvents(m, s)
           bad == Reports("P2", \E h \in e.held : Barrier(s) <= h.ticket)
           n == Revoked(e, Barrier(s))
<1>0. s \in Service /\ s.next \in Nat /\ Sound(s) /\ File \in Resource
      /\ \A h \in s.held : h.ticket \in Nat
  BY SoundNumbers, HarnessAssumption DEF Replays
<1>1. Replays(e, Sweep(s)) /\ Steady(m, e)
  BY SweepReplays
<1>2. bad = {}
  <2>1. \A h \in e.held : h.ticket \in Nat /\ h.ticket < s.next
    BY <1>0, <1>1, SweepFewer DEF Replays, Sound, Holdings, Hold
  <2>2. ~ \E h \in e.held : Barrier(s) <= h.ticket
    BY <1>0, <2>1 DEF Barrier
  <2>3. QED
    BY <2>2 DEF Reports
<1>3. /\ n \in History /\ n.held = {} /\ SameWrites(e, n) /\ n.highest = e.highest
      /\ n.barrier = s.next + 1 /\ n.violated = e.violated
  <2>1. n = [e EXCEPT !.held = {}, !.barrier = Barrier(s), !.violated = e.violated \cup bad]
    BY <1>1 DEF Revoked, Replays, History
  <2>2. e \in History /\ Barrier(s) \in Nat /\ Barrier(s) = s.next + 1
    BY <1>0, <1>1 DEF Barrier, Replays
  <2> HIDE DEF bad, n, e
  <2>3. n = [e EXCEPT !.held = {}, !.barrier = s.next + 1]
    BY <1>2, <2>1, <2>2 DEF History
  <2>4. QED
    BY <1>0, <2>2, <2>3 DEF History, SameWrites
<1>4. ForceReleased(s, File).held = {}
  <2>1. ForceReleased(s, File).held = {h \in Sweep(s).held : h.resource # File}
    BY <1>0 DEF ForceReleased, Service
  <2>2. QED
    BY <1>0, <2>1, SweepFewer DEF Sound
<1>5. /\ ForceReleased(s, File) \in Service /\ Inherits(s, ForceReleased(s, File))
      /\ ForceReleased(s, File).next = s.next + 1
  BY <1>0, ForceReleasedType, ForceReleasedInherits DEF ForceReleased, Service
<1>6. n.held = Holdings(ForceReleased(s, File))
  BY <1>3, <1>4 DEF Holdings
<1> HIDE DEF n
<1>7. Replays(n, ForceReleased(s, File))
  BY <1>0, <1>3, <1>4, <1>5, <1>6, ReplaysInherits
<1>8. QED
  BY <1>1, <1>3, <1>7 DEF Steady, SameWrites, n

LEMMA ExpireReplays ==
  ASSUME NEW m, NEW s, Replays(m, s)
  PROVE  LET n == HoldsEnded(m, {h.ticket : h \in s.held})
         IN  Replays(n, ForceExpired(s, File)) /\ Steady(m, n)
<1> DEFINE n == HoldsEnded(m, {h.ticket : h \in s.held})
<1>0. s \in Service /\ s.next \in Nat /\ Sound(s) /\ File \in Resource
  BY SoundNumbers, HarnessAssumption DEF Replays
<1>1. n \in History /\ Steady(m, n) /\ n.held = {}
  BY HoldsEndedType DEF Replays, Holdings, Hold
<1>2. ForceExpired(s, File).held = {}
  BY <1>0 DEF ForceExpired, Service, Sound
<1>3. /\ ForceExpired(s, File) \in Service /\ Inherits(s, ForceExpired(s, File))
      /\ ForceExpired(s, File).next = s.next
  BY <1>0, ForceExpiredType, ForceExpiredInherits DEF ForceExpired, Service
<1>4. n.held = Holdings(ForceExpired(s, File))
  BY <1>1, <1>2 DEF Holdings
<1> HIDE DEF n
<1>5. Replays(n, ForceExpired(s, File))
  BY <1>0, <1>1, <1>2, <1>3, <1>4, ReplaysInherits
<1>6. QED
  BY <1>1, <1>5 DEF n

\* Time ends no hold of the history: the next sweep does.
LEMMA ElapsedReplays ==
  ASSUME NEW m, NEW s, Replays(m, s) PROVE Replays(m, Elapsed(s))
<1> DEFINE Aged(h) == [h EXCEPT !.ttl = Remaining(h.ttl)]
<1>0. s \in Service /\ s.next \in Nat /\ s.held \subseteq HeldBy
  BY SoundNumbers DEF Replays, Service
<1>1. Elapsed(s).held = {Aged(h) : h \in s.held}
  BY <1>0 DEF Elapsed, Service
<1>2. \A h \in HeldBy : Hold(Aged(h)) = Hold(h) /\ Aged(h).ttl = Remaining(h.ttl)
  BY DEF Hold, HeldBy
<1>3. Elapsed(s) \in Service /\ Inherits(s, Elapsed(s)) /\ Elapsed(s).next = s.next
  BY <1>0, ElapsedType, ElapsedInherits DEF Elapsed, Service
<1> HIDE DEF Aged
<1>4. Holdings(Elapsed(s)) = Holdings(s)
  BY <1>0, <1>1, <1>2 DEF Holdings
<1>5. \A h \in s.held : h.ttl \in Nat /\ h.ttl <= Lease
  BY <1>0 DEF Replays, Sound, HeldBy
<1>6. \A h \in s.held : Aged(h).ttl <= Lease
  BY <1>0, <1>2, <1>5, LeaseAssumption DEF Remaining
<1>7. QED
  BY <1>0, <1>1, <1>3, <1>4, <1>6, ReplaysInherits DEF Replays

LEMMA AfterReplays ==
  ASSUME NEW m, NEW s, Replays(m, s), NEW n \in Nat 
  PROVE  /\ Replays(m, After(s, n))
         /\ Lease <= n => \A h \in After(s, n).held : ~Live(h)
<1> DEFINE Aged(h) == [h EXCEPT !.ttl = IF n < h.ttl THEN h.ttl - n ELSE 0]
<1>0. s \in Service /\ Sound(s) /\ s.held \subseteq HeldBy
  BY SoundNumbers DEF Replays, Service
<1>1. After(s, n) = [s EXCEPT !.held = {Aged(h) : h \in s.held}]
  BY DEF After
<1>2. \A h \in HeldBy : /\ Aged(h) \in HeldBy
                        /\ Hold(Aged(h)) = Hold(h)
                        /\ Aged(h).resource = h.resource
                        /\ Aged(h).ticket = h.ticket
                        /\ Aged(h).ttl <= h.ttl
                        /\ h.ttl <= n => Aged(h).ttl = 0
  BY DEF Hold, HeldBy
<1> HIDE DEF Aged
<1>3. /\ After(s, n).held = {Aged(h) : h \in s.held}
      /\ After(s, n).next = s.next /\ After(s, n).last = s.last
      /\ After(s, n).version = s.version
  BY <1>0, <1>1 DEF Service
<1>4. After(s, n) \in Service
  BY <1>0, <1>1, <1>2 DEF Service
<1>5. Holdings(After(s, n)) = Holdings(s)
  BY <1>0, <1>2, <1>3 DEF Holdings
<1>6. Sound(After(s, n))
  <2>1. \A h \in s.held : h.ttl <= Lease /\ h.ttl \in Nat /\ Aged(h).ttl \in Nat
    BY <1>0, <1>2 DEF Sound, HeldBy
  <2>2. \A h \in s.held : Aged(h).ttl <= Lease
    BY <1>0, <1>2, <2>1, LeaseAssumption
  <2>3. QED
    BY <1>0, <1>2, <1>3, <1>4, <2>2 DEF Sound
<1>7. Lease <= n => \A h \in s.held : ~Live(Aged(h))
  BY <1>0, <1>2, LeaseAssumption DEF Sound, HeldBy, Live
<1>8. QED
  BY <1>3, <1>5, <1>6, <1>7 DEF Replays

-----------------------------------------------------------------------------
(* The calls *)

\* The write and the violations the history knows are the same, as long as it
\* has seen no ticket that is still to be issued.
Peaceful(m, s, n, t) ==
    /\ n.version = m.version /\ n.last = m.last /\ n.accepted = m.accepted
    /\ n.barrier = m.barrier
    /\ m.highest < s.next => n.violated = m.violated /\ n.highest < t.next

LEMMA SteadyPeaceful ==
  ASSUME NEW m \in History, NEW n, NEW s \in Service, NEW t \in Service,
         Steady(m, n), t.next >= s.next
  PROVE  Peaceful(m, s, n, t)
  BY DEF Peaceful, Steady, SameWrites, History, Service, Ticket

LEMMA AcquirePeaceful ==
  ASSUME ~NonMonotonicTickets, NEW m, NEW s, Replays(m, s), NEW a \in Holder
  PROVE  /\ Replays(AcquireEvents(m, s, a), Acquired(s, File, a))
         /\ Peaceful(m, s, AcquireEvents(m, s, a), Acquired(s, File, a))
<1>1. s.next \in Nat /\ Acquired(s, File, a).next = s.next + 1
  BY SoundNumbers, AcquiredSound DEF Replays
<1>2. QED
  BY <1>1, AcquireReplays DEF Peaceful, SameWrites

LEMMA SteadyAfter ==
  ASSUME NEW m \in History, NEW n, NEW o, NEW s \in Service, NEW t \in Service,
         NEW u \in Service, n \in History,
         Peaceful(m, s, n, t), Steady(n, o), u.next >= t.next
  PROVE  Peaceful(m, s, o, u)
  BY DEF Peaceful, Steady, SameWrites, History, Service, Ticket

LEMMA ReadTakesReplays ==
  ASSUME ~NonMonotonicTickets, Replays(history, svc), NEW a \in Holder
  PROVE  /\ Replays(ReadTakes(a), Sweep(Acquired(svc, File, a)))
         /\ Peaceful(history, svc, ReadTakes(a), Sweep(Acquired(svc, File, a)))
<1> DEFINE q == Acquired(svc, File, a)
           e == AcquireEvents(history, svc, a)
<1>1. Replays(e, q) /\ Peaceful(history, svc, e, q)
  BY AcquirePeaceful
<1>2. Replays(SweepEvents(e, q), Sweep(q)) /\ Steady(e, SweepEvents(e, q))
  BY <1>1, SweepReplays
<1>3. /\ svc \in Service /\ q \in Service /\ Sweep(q) \in Service
      /\ Sweep(q).next = q.next /\ q.next \in Nat
      /\ history \in History /\ e \in History
  BY <1>1, <1>2, SoundNumbers, SweepFewer DEF Replays
<1>4. Peaceful(history, svc, SweepEvents(e, q), Sweep(q))
  BY <1>1, <1>2, <1>3, SteadyAfter
<1>5. QED
  BY <1>2, <1>4 DEF ReadTakes

LEMMA SweepPeaceful ==
  ASSUME Replays(history, svc), NEW a \in Holder
  PROVE  /\ Replays(SweepEvents(history, svc), Sweep(svc))
         /\ Peaceful(history, svc, SweepEvents(history, svc), Sweep(svc))
         /\ Replays(ContendedEvents(history, svc, a), Sweep(svc))
         /\ Peaceful(history, svc, ContendedEvents(history, svc, a), Sweep(svc))
<1>1. /\ svc \in Service /\ Sweep(svc) \in Service /\ history \in History
      /\ Sweep(svc).next = svc.next /\ svc.next \in Nat
  BY SoundNumbers, SweepType, SweepFewer DEF Replays
<1>2. QED
  BY <1>1, SweepReplays, ContendedReplays, SteadyPeaceful

LEMMA ReadStep ==
  ASSUME ~NonMonotonicTickets, Replays(history, svc), NEW a \in Holder, SoakRead(a)
  PROVE  Replays(history', svc') /\ Peaceful(history, svc, history', svc')
<1>1. CASE ReadWriteOnly(a) /\ history' = AgentSeen(SweepEvents(history, svc), a)
  BY <1>1, SweepPeaceful DEF ReadWriteOnly, ContendedEvents
<1>2. CASE ReadFull(a) /\ history' = ReadTakes(a)
  BY <1>2, ReadTakesReplays DEF ReadFull
<1>3. CASE ReadContended(a) /\ history' = ContendedEvents(history, svc, a)
  BY <1>3, SweepPeaceful DEF ReadContended
<1>4. CASE /\ ReadFails(a)
           /\ history' = IF Span = "Full" THEN ReadTakes(a) ELSE SweepEvents(history, svc)
  BY <1>4, SweepPeaceful, ReadTakesReplays DEF ReadFails
<1>5. QED
  BY <1>1, <1>2, <1>3, <1>4 DEF SoakRead

\* The attempt is on record once the lock is held.
LEMMA AttemptReplays ==
  ASSUME ~NonMonotonicTickets, TypeOK, Replays(history, svc),
         NEW a \in Holder, snap[a] # None, NEW k \in Locked(a)
  PROVE  /\ Replays(AttemptEvents(a), k.svc)
         /\ Peaceful(history, svc, AttemptEvents(a), k.svc)
         /\ AttemptEvents(a).attempts
              = Others(history, a) \cup
                  {[holder |-> a, basedOn |-> snap[a].version, overlapped |-> FALSE]}
<1> DEFINE e == IF Span = "Full" THEN history ELSE AcquireEvents(history, svc, a)
           w == [holder |-> a, basedOn |-> snap[a].version, overlapped |-> FALSE]
<1>1. Replays(e, k.svc) /\ Peaceful(history, svc, e, k.svc) /\ e.attempts = history.attempts
  <2>1. CASE Span = "Full"
    <3>1. e = history /\ k.svc = svc
      BY <2>1 DEF Locked
    <3>2. QED
      BY <3>1 DEF Peaceful
  <2>2. CASE Span # "Full"
    <3>1. e = AcquireEvents(history, svc, a) /\ k.svc = Acquired(svc, File, a)
      BY <2>2 DEF Locked
    <3>2. QED
      BY <3>1, AcquirePeaceful, AcquireReplays DEF SameWrites
  <2>3. QED
    BY <2>1, <2>2
<1>2. w \in Attempt
  BY Fields DEF Attempt
<1>3. AttemptEvents(a) = [e EXCEPT !.attempts = Others(e, a) \cup {w}]
  BY DEF AttemptEvents, WriteAttempted
<1> HIDE DEF e, w
<1>4. /\ AttemptEvents(a) \in History /\ AttemptEvents(a).held = e.held
      /\ AttemptEvents(a).attempts = Others(e, a) \cup {w}
      /\ AttemptEvents(a).version = e.version /\ AttemptEvents(a).last = e.last
      /\ AttemptEvents(a).accepted = e.accepted /\ AttemptEvents(a).barrier = e.barrier
      /\ AttemptEvents(a).highest = e.highest /\ AttemptEvents(a).violated = e.violated
  BY <1>1, <1>2, <1>3 DEF Replays, History, Others
<1>5. QED
  BY <1>1, <1>4 DEF Replays, Peaceful, Others, w

LEMMA RefusedType ==
  ASSUME NEW m, NEW s, Replays(m, s), NEW a
  PROVE  /\ Replays(WriteRefused(m, a), s) /\ WriteRefused(m, a).version = m.version
         /\ WriteRefused(m, a).last = m.last /\ WriteRefused(m, a).accepted = m.accepted
         /\ WriteRefused(m, a).barrier = m.barrier
         /\ WriteRefused(m, a).highest = m.highest
         /\ WriteRefused(m, a).violated = m.violated
         /\ WriteRefused(m, a).attempts = Others(m, a)
<1>1. m \in History
  BY DEF Replays
<1>2. Others(m, a) \in SUBSET Attempt
  BY <1>1 DEF Others, History
<1>3. QED
  BY <1>1, <1>2 DEF Replays, History, WriteRefused

\* Peaceful does not look at attempts, so what follows a step may change them.
LEMMA PeacefulAfter ==
  ASSUME NEW m \in History, NEW n \in History, NEW o, NEW s \in Service,
         NEW t \in Service, NEW u \in Service,
         Peaceful(m, s, n, t), u.next >= t.next,
         o.version = n.version, o.last = n.last, o.accepted = n.accepted,
         o.barrier = n.barrier, o.highest = n.highest, o.violated = n.violated
  PROVE  Peaceful(m, s, o, u)
  BY DEF Peaceful, History, Service, Ticket

LEMMA RefusalReplays ==
  ASSUME ~NonMonotonicTickets, TypeOK, Replays(history, svc),
         NEW a \in Holder, snap[a] # None, NEW k \in Locked(a)
  PROVE  /\ Replays(RefusalEvents(a, k), AfterRefusal(k.svc, a, k.ticket))
         /\ Peaceful(history, svc, RefusalEvents(a, k), AfterRefusal(k.svc, a, k.ticket))
<1> DEFINE e == AttemptEvents(a)
           f == SweepEvents(e, k.svc)
           m == WriteRefused(f, a)
           n == ReleaseEvents(m, k.svc, a, k.ticket)
           t == AfterRefusal(k.svc, a, k.ticket)
<1>0. /\ svc \in Service /\ k.svc \in Service /\ k.ticket \in Ticket /\ history \in History
      /\ k.svc.next \in Nat /\ HoldingOf(a, k.ticket) \in Holding
  BY LockedType, SoundNumbers, AttemptReplays DEF Replays
<1>1. Replays(e, k.svc) /\ Peaceful(history, svc, e, k.svc) /\ Sound(k.svc)
  BY AttemptReplays DEF Replays
<1>2. Replays(f, Sweep(k.svc)) /\ Steady(e, f)
  BY <1>1, SweepReplays
<1>3. /\ Replays(m, Sweep(k.svc)) /\ m.version = f.version
      /\ m.last = f.last /\ m.accepted = f.accepted
      /\ m.barrier = f.barrier /\ m.highest = f.highest /\ m.violated = f.violated
  BY <1>2, RefusedType
<1>4. CASE Span = "WriteOnly"
  <2>1. t = Released(k.svc, HoldingOf(a, k.ticket)) /\ t \in Service /\ t.next = k.svc.next
    BY <1>0, <1>4, ReleasedType, ReleasedFewer DEF AfterRefusal
  <2>2. Replays(n, t) /\ Steady(m, n)
    BY <1>0, <1>1, <1>3, <2>1, ReleaseReplays
  <2>3. RefusalEvents(a, k) = n
    BY <1>4 DEF RefusalEvents
  <2> HIDE DEF e, f, m, n, t
  <2>4. Peaceful(history, svc, n, t)
    BY <1>0, <1>1, <1>2, <1>3, <2>1, <2>2, PeacefulAfter DEF Steady, SameWrites, Replays
  <2>5. QED
    BY <2>2, <2>3, <2>4 DEF t
<1>5. CASE Span # "WriteOnly"
  <2>1. t = Sweep(k.svc) /\ t \in Service /\ t.next = k.svc.next
    BY <1>0, <1>5, SweepType, SweepFewer DEF AfterRefusal
  <2>2. RefusalEvents(a, k) = m
    BY <1>5 DEF RefusalEvents
  <2> HIDE DEF e, f, m, t
  <2>3. Peaceful(history, svc, m, t)
    BY <1>0, <1>1, <1>2, <1>3, <2>1, PeacefulAfter DEF Steady, SameWrites, Replays
  <2>4. QED
    BY <1>3, <2>1, <2>2, <2>3 DEF t
<1>6. QED
  BY <1>4, <1>5

\* An authorized write has recorded an attempt, by its author on what it read.
LEMMA AuthorizeOkStep ==
  ASSUME ~NonMonotonicTickets, TypeOK, Replays(history, svc), NEW a \in Holder,
         AuthorizeOk(a), \E k \in Locked(a) : history' = SweepEvents(AttemptEvents(a), k.svc)
  PROVE  /\ Replays(history', svc') /\ Peaceful(history, svc, history', svc')
         /\ history'.attempts
              = Others(history, a) \cup
                  {[holder |-> a, basedOn |-> snap[a].version, overlapped |-> FALSE]}
<1> DEFINE e == AttemptEvents(a)
<1>1. PICK k \in Locked(a) :
        svc' = Committed(k.svc, HoldingOf(a, k.ticket)) /\ svc'.next = k.svc.next
  BY AuthorizeOkService
<1>2. history' = SweepEvents(e, k.svc)
  BY DEF Locked
<1>3. /\ svc \in Service /\ k.svc \in Service /\ HoldingOf(a, k.ticket) \in Holding
      /\ snap[a] # None
  BY LockedType, SoundNumbers DEF Replays, AuthorizeOk, CanWrite
<1>4. /\ Replays(e, k.svc) /\ Peaceful(history, svc, e, k.svc)
      /\ e.attempts = Others(history, a) \cup
                        {[holder |-> a, basedOn |-> snap[a].version, overlapped |-> FALSE]}
  BY <1>3, AttemptReplays
<1>5. Replays(history', svc') /\ Steady(e, history')
  BY <1>1, <1>2, <1>3, <1>4, SweepReplays, CommitReplays
<1> HIDE DEF e
<1>6. Peaceful(history, svc, history', svc')
  <2>1. svc' \in Service /\ k.svc.next \in Nat
    BY <1>1, <1>4, <1>5, SoundNumbers DEF Replays
  <2>2. QED
    BY <1>1, <1>3, <1>4, <1>5, <2>1, SteadyAfter DEF Replays
<1>7. QED
  BY <1>4, <1>5, <1>6 DEF Steady, SameWrites

LEMMA AuthorizeStep ==
  ASSUME ~NonMonotonicTickets, TypeOK, Replays(history, svc), NEW a \in Holder,
         SoakAuthorize(a)
  PROVE  Replays(history', svc') /\ Peaceful(history, svc, history', svc')
<1>1. CASE AuthorizeContended(a) /\ history' = ContendedEvents(history, svc, a)
  BY <1>1, SweepPeaceful DEF AuthorizeContended
<1>2. CASE AuthorizeOk(a) /\ \E k \in Locked(a) : history' = SweepEvents(AttemptEvents(a), k.svc)
  BY <1>2, AuthorizeOkStep
<1>3. CASE AuthorizeRefused(a) /\ \E k \in Locked(a) : history' = RefusalEvents(a, k)
  <2>1. PICK k \in Locked(a) : svc' = AfterRefusal(k.svc, a, k.ticket)
    BY <1>3 DEF AuthorizeRefused
  <2>2. history' = RefusalEvents(a, k) /\ snap[a] # None
    BY <1>3 DEF Locked, AuthorizeRefused, CanWrite
  <2>3. QED
    BY <2>1, <2>2, RefusalReplays
<1>4. CASE PrepareFails(a) /\ history' = AttemptEvents(a)
  <2>1. PICK k \in Locked(a) : svc' = k.svc
    BY <1>4 DEF PrepareFails
  <2>2. snap[a] # None
    BY <1>4 DEF PrepareFails, CanWrite
  <2>3. QED
    BY <1>4, <2>1, <2>2, AttemptReplays
<1>5. QED
  BY <1>1, <1>2, <1>3, <1>4 DEF SoakAuthorize

LEMMA EndedType ==
  ASSUME NEW m \in History, NEW a \in Holder
  PROVE  /\ AgentWedged(m, a) \in History /\ AgentWedged(m, a).held = m.held
         /\ Steady(m, AgentWedged(m, a))
         /\ AgentFinished(m, a) \in History /\ AgentFinished(m, a).held = m.held
         /\ Steady(m, AgentFinished(m, a))
<1> DEFINE w == AgentWedged(m, a)
           f == AgentFinished(m, a)
<1>1. /\ w = [m EXCEPT !.seen = m.seen \cup {a}, !.wedged = m.wedged \cup {a}]
      /\ f = [m EXCEPT !.seen = m.seen \cup {a}, !.finished = m.finished \cup {a}]
  BY DEF AgentWedged, AgentFinished, History
<1> HIDE DEF w, f
<1>2. w \in History /\ w.held = m.held /\ Steady(m, w)
  BY <1>1 DEF History, Steady, SameWrites
<1>3. f \in History /\ f.held = m.held /\ Steady(m, f)
  BY <1>1 DEF History, Steady, SameWrites
<1>4. QED
  BY <1>2, <1>3 DEF w, f

LEMMA LapseStep ==
  ASSUME Replays(history, svc), SoakForceExpire \/ SoakTick
  PROVE  Replays(history', svc') /\ Peaceful(history, svc, history', svc')
<1>0. history \in History /\ svc \in Service /\ svc.next \in Nat
  BY SoundNumbers DEF Replays
<1>1. Replays(history', svc') /\ Steady(history, history') /\ svc'.next = svc.next
  <2>1. CASE SoakForceExpire
    <3>1. svc' = ForceExpired(svc, File) /\ svc'.next = svc.next
      BY <1>0, <2>1 DEF SoakForceExpire, ForceExpire, ForceExpired, Service
    <3>2. QED
      BY <2>1, <3>1, ExpireReplays DEF SoakForceExpire
  <2>2. CASE SoakTick
    <3>1. svc' = Elapsed(svc) /\ svc'.next = svc.next /\ history' = history
      BY <1>0, <2>2 DEF SoakTick, Tick, Elapsed, Service
    <3>2. QED
      BY <3>1, ElapsedReplays DEF Steady, SameWrites
  <2>3. QED
    BY <2>1, <2>2
<1>2. QED
  BY <1>0, <1>1, SoundNumbers, SteadyPeaceful DEF Replays

\* Calls that only give back, renew or end.
LEMMA OtherStep ==
  ASSUME TypeOK, Replays(history, svc), NEW a \in Holder,
         \/ SoakAbandon(a) \/ Wedge(a) \/ Retire(a)
         \/ Progress(a) /\ history' = SweepEvents(history, svc)
         \/ DropAuthorized(a) /\ UNCHANGED history
  PROVE  Replays(history', svc') /\ Peaceful(history, svc, history', svc')
<1>0. history \in History /\ Sound(svc) /\ svc \in Service /\ svc.next \in Nat
  BY SoundNumbers DEF Replays
<1>1. ASSUME Replays(history', svc'), Steady(history, history'), svc'.next = svc.next
      PROVE  Replays(history', svc') /\ Peaceful(history, svc, history', svc')
  BY <1>0, <1>1, SoundNumbers, SteadyPeaceful DEF Replays
<1>2. CASE SoakAbandon(a) \/
           (/\ Abandon(a)
            /\ history' = AgentFinished(ReleaseEvents(history, svc, a, open[a].ticket), a))
  <2> DEFINE t == open[a].ticket
             n == ReleaseEvents(history, svc, a, t)
  <2>1. t \in Ticket /\ svc' = Released(svc, HoldingOf(a, t))
    BY <1>2, Fields DEF Abandon, SoakAbandon
  <2>2. Replays(n, svc') /\ Steady(history, n) /\ svc'.next = svc.next
    BY <1>0, <2>1, ReleaseReplays, ReleasedFewer
  <2>3. CASE history' = n
    BY <1>1, <2>2, <2>3
  <2>4. CASE history' = AgentFinished(n, a)
    <3> HIDE DEF n
    <3>1. history' \in History /\ history'.held = n.held /\ Steady(n, history')
      BY <2>2, <2>4, EndedType DEF Replays
    <3>2. QED
      BY <1>1, <2>2, <3>1 DEF Replays, Steady, SameWrites
  <2>5. QED
    BY <1>2, <2>3, <2>4 DEF SoakAbandon
<1>3. CASE UNCHANGED vars /\ (history' = AgentWedged(history, a) \/ history' = AgentFinished(history, a))
  <2>1. history' \in History /\ history'.held = history.held /\ Steady(history, history')
    BY <1>0, <1>3, EndedType
  <2>2. QED
    BY <1>0, <1>1, <1>3, <2>1 DEF Replays, vars
<1>4. CASE Progress(a) /\ history' = SweepEvents(history, svc)
  <2> DEFINE g == HoldingOf(a, open[a].ticket)
  <2>1. g \in Holding /\ svc' = Renewed(svc, g)
    BY <1>4, Fields, HoldingOfType DEF Progress
  <2>2. svc'.next = svc.next
    BY <1>0, <2>1, HarnessAssumption, SameCounters
  <2>3. QED
    BY <1>1, <1>4, <2>1, <2>2, RenewReplays, SweepReplays
<1>5. CASE DropAuthorized(a) /\ UNCHANGED history
  BY <1>1, <1>5 DEF DropAuthorized, Steady, SameWrites
<1>6. QED
  BY <1>2, <1>3, <1>4, <1>5 DEF SoakAbandon, Wedge, Retire

LEMMA AcceptedType ==
  ASSUME NEW m \in History, NEW a \in Holder, NEW t \in Nat, NEW v \in Nat, NEW c \in Content,
         NEW n, n = WriteAccepted(m, a, t, v, c)
  PROVE  /\ n \in History /\ n.held = m.held
         /\ n.version = v /\ n.last = c /\ n.accepted = m.accepted \cup {c}
         /\ n.highest = m.highest /\ n.barrier = m.barrier
         /\ n.violated = m.violated \cup
              (Reports("P1", Overlapped(m, a)) \cup Reports("P2", ~InForce(m, t))
                 \cup Reports("P6", ~Fresh(m, a)) \cup Reports("P8", BelowBarrier(m, t)))
<1> DEFINE bad == Reports("P1", Overlapped(m, a)) \cup Reports("P2", ~InForce(m, t))
                    \cup Reports("P6", ~Fresh(m, a)) \cup Reports("P8", BelowBarrier(m, t))
           left == {[w EXCEPT !.overlapped = TRUE] : w \in Others(m, a)}
<1>1. n = [m EXCEPT !.attempts = left, !.version = v, !.last = c,
                    !.accepted = m.accepted \cup {c}, !.violated = m.violated \cup bad]
  BY DEF WriteAccepted, History
<1>2. bad \in SUBSET {"P1", "P2", "P6", "P8"}
  BY DEF Reports
<1>3. left \in SUBSET Attempt
  <2>1. \A w \in Attempt : [w EXCEPT !.overlapped = TRUE] \in Attempt
    BY DEF Attempt
  <2>2. Others(m, a) \subseteq Attempt
    BY DEF Others, History
  <2>3. QED
    BY <2>1, <2>2
<1> HIDE DEF bad, left
<1>4. /\ n \in History /\ n.held = m.held
      /\ n.version = v /\ n.last = c /\ n.accepted = m.accepted \cup {c}
      /\ n.highest = m.highest /\ n.barrier = m.barrier
      /\ n.violated = m.violated \cup bad
  <2>1. m.accepted \cup {c} \in SUBSET Content
        /\ m.violated \cup bad \in SUBSET {"P1", "P2", "P6", "P8"}
    BY <1>2 DEF History
  <2>2. n \in History
    BY <1>1, <1>3, <2>1 DEF History
  <2>3. QED
    BY <1>1, <2>2 DEF History
<1>5. QED
  BY <1>4 DEF bad

LEMMA ApplyReplays ==
  ASSUME TypeOK, Replays(history, svc), NEW a \in Holder, SoakApply(a)
  PROVE  Replays(history', svc')
<1> DEFINE f == SweepEvents(history, svc)
           t == pend[a].ticket
<1>0. /\ pend[a] # None /\ t \in Ticket /\ t \in Nat /\ pend[a].newVersion \in Nat
      /\ pend[a].content \in Content /\ Sound(svc)
  BY Fields DEF SoakApply, ApplyOk, ApplySuperseded, ApplyFails, Replays, Ticket
<1>1. Replays(f, Sweep(svc))
  BY SweepReplays
<1>2. ASSUME NEW m, Replays(m, Sweep(svc)), Finish(a), history' = FinishEvents(m, a)
      PROVE  Replays(history', svc')
  BY <1>0, <1>2, ReleaseReplays DEF Finish, FinishEvents
<1>3. CASE ApplyOk(a) /\ history' = FinishEvents(AcceptedEvent(f, a), a)
  <2>1. Replays(AcceptedEvent(f, a), Sweep(svc))
    <3> DEFINE v == pend[a].newVersion
               c == pend[a].content
               n == WriteAccepted(f, a, t, v, c)
    <3>1. f \in History /\ f.held = Holdings(Sweep(svc)) /\ Sound(Sweep(svc))
      BY <1>1 DEF Replays
    <3>2. /\ t \in Nat /\ v \in Nat /\ c \in Content
          /\ AcceptedEvent(f, a) = n /\ n = WriteAccepted(f, a, t, v, c)
      BY <1>0 DEF AcceptedEvent
    <3> HIDE DEF f, t, v, c, n
    <3>3. n \in History /\ n.held = f.held
      BY <3>1, <3>2, AcceptedType
    <3>4. QED
      BY <3>1, <3>2, <3>3 DEF Replays
  <2>2. QED
    BY <1>2, <1>3, <2>1 DEF ApplyOk
<1>4. CASE ApplySuperseded(a) /\ history' = FinishEvents(WriteRefused(f, a), a)
  BY <1>1, <1>2, <1>4, RefusedType DEF ApplySuperseded
<1>5. CASE ApplyFails(a) /\ history' = f
  BY <1>1, <1>5 DEF ApplyFails
<1>6. QED
  BY <1>3, <1>4, <1>5 DEF SoakApply

\* Two leases after the last call nothing is held any more.
LEMMA CheckReplays ==
  ASSUME Replays(history, svc), CheckRun
  PROVE  /\ Replays(history', svc') /\ Steady(history, history')
         /\ svc'.held = {} /\ history'.held = {}
<1> DEFINE s == After(svc, 2 * Lease)
<1>0. 2 * Lease \in Nat /\ Lease <= 2 * Lease
  BY LeaseAssumption
<1>1. Replays(history, s) /\ \A h \in s.held : ~Live(h)
  BY <1>0, AfterReplays
<1>2. /\ Replays(SweepEvents(history, s), Sweep(s)) /\ Steady(history, SweepEvents(history, s))
  BY <1>1, SweepReplays
<1> HIDE DEF s
<1>3. Sweep(s).held = {}
  BY <1>1 DEF Replays, Sound, Sweep, Service
<1>4. svc' = Sweep(s) /\ history' = SweepEvents(history, s)
  BY DEF CheckRun, s
<1>5. QED
  BY <1>2, <1>3, <1>4 DEF Replays, Holdings

-----------------------------------------------------------------------------
(* The history tells the holds *)

\* A call of an agent or a step of the world is one of Harness.
LEMMA SoakSteps ==
  ASSUME [SoakNext]_soakVars
  PROVE  CheckRun \/ ([Next]_vars /\ UNCHANGED checked)
<1>1. ASSUME NEW a \in Holder, AgentStep(a) PROVE [Next]_vars /\ UNCHANGED checked
  BY <1>1 DEF AgentStep, SoakRead, SoakAuthorize, SoakApply, SoakAbandon, Wedge, Retire,
     Next, Read, Authorize, Apply
<1>2. CASE WorldStep
  BY <1>2 DEF WorldStep, SoakForceRelease, SoakForceExpire, SoakTick, Next
<1>3. CASE UNCHANGED soakVars
  BY <1>3 DEF soakVars
<1>4. QED
  BY <1>1, <1>2, <1>3 DEF SoakNext

FInv == TypeOK /\ Replays(history, svc)

LEMMA InitFInv == SoakInit => FInv
<1> SUFFICES ASSUME SoakInit PROVE FInv
  OBVIOUS
<1>1. history \in History /\ history.held = {}
  <2>1. Initial \in Content
    BY DEF Initial, Content
  <2>2. QED
    BY <2>1 DEF SoakInit, EmptyHistory, History
<1>2. Sound(svc) /\ svc.held = {}
  BY NewServiceType DEF SoakInit, Init, Sound, NewService
<1>3. QED
  BY <1>1, <1>2, InitTypeOK DEF SoakInit, FInv, Replays, Holdings

LEMMA NextFInv ==
  ASSUME ~NonMonotonicTickets PROVE FInv /\ [SoakNext]_soakVars => FInv'
<1> SUFFICES ASSUME FInv, [SoakNext]_soakVars PROVE FInv'
  OBVIOUS
<1>0. TypeOK /\ Replays(history, svc)
  BY DEF FInv
<1>1. Replays(history', svc')
  <2>1. ASSUME NEW a \in Holder, AgentStep(a) PROVE Replays(history', svc')
    BY <1>0, <2>1, ReadStep, AuthorizeStep, ApplyReplays, OtherStep DEF AgentStep
  <2>2. CASE WorldStep
    <3>1. CASE SoakForceRelease
      BY <1>0, <3>1, RevokeReplays DEF SoakForceRelease, ForceRelease
    <3>2. QED
      BY <1>0, <2>2, <3>1, LapseStep DEF WorldStep
  <2>3. CASE CheckRun
    BY <1>0, <2>3, CheckReplays
  <2>4. CASE UNCHANGED soakVars
    BY <1>0, <2>4 DEF soakVars, vars
  <2>5. QED
    BY <2>1, <2>2, <2>3, <2>4 DEF SoakNext
<1>2. TypeOK'
  <2>1. CASE CheckRun
    BY <1>0, <1>1, <2>1 DEF CheckRun, TypeOK, Replays, Sound
  <2>2. CASE [Next]_vars
    BY <1>0, <2>2, NextTypeOK
  <2>3. QED
    BY <2>1, <2>2, SoakSteps
<1>3. QED
  BY <1>1, <1>2 DEF FInv

\* The soak's first find (history.rs, GiveBack; fake.rs): replayed in order, the
\* history gives the holds of the service after every step, whatever fails and
\* however the calls interleave, if tickets do not repeat.
THEOREM HistoryIsFaithful ==
  ASSUME ~NonMonotonicTickets PROVE SoakSpec => []HistoryReplays
<1>1. FInv /\ [SoakNext]_soakVars => FInv'
  BY NextFInv
<1>2. FInv => HistoryReplays
  BY DEF FInv, Replays, Holdings, Hold, HistoryReplays
<1>3. QED
  BY <1>1, <1>2, InitFInv, PTL DEF SoakSpec

-----------------------------------------------------------------------------
(* A run is a run of the harness *)

\* The events tell who has ended only when an agent ends.
EndsKnown(m) == {"wedged", "finished"} \subseteq DOMAIN m

SameEnds(m, n) ==
    DOMAIN n = DOMAIN m /\ n.wedged = m.wedged /\ n.finished = m.finished

LEMMA EventEnds ==
  ASSUME NEW m, EndsKnown(m), NEW s, NEW a, NEW t, NEW v, NEW c
  PROVE  /\ SameEnds(m, SweepEvents(m, s)) /\ SameEnds(m, HoldsEnded(m, t))
         /\ SameEnds(m, AgentSeen(m, a)) /\ SameEnds(m, TicketIssued(m, t))
         /\ SameEnds(m, TakeGranted(m, a, t)) /\ SameEnds(m, Revoked(m, t))
         /\ SameEnds(m, WriteAttempted(m, a, v)) /\ SameEnds(m, WriteRefused(m, a))
         /\ SameEnds(m, WriteAccepted(m, a, t, v, c))
  BY DEF EndsKnown, SameEnds, SweepEvents, HoldsEnded, AgentSeen, TicketIssued, TakeGranted,
         Revoked, WriteAttempted, WriteRefused, WriteAccepted

LEMMA SameEndsKnown ==
  ASSUME NEW m, NEW n, EndsKnown(m), SameEnds(m, n)
  PROVE  EndsKnown(n) /\ \A o : SameEnds(n, o) => SameEnds(m, o)
  BY DEF EndsKnown, SameEnds

LEMMA CallEnds ==
  ASSUME NEW m, EndsKnown(m), NEW s, NEW a, NEW t
  PROVE  /\ SameEnds(m, ContendedEvents(m, s, a)) /\ SameEnds(m, AcquireEvents(m, s, a))
         /\ SameEnds(m, ReleaseEvents(m, s, a, t))
<1> DEFINE c == ContendedEvents(m, s, a)
           i == TicketIssued(c, NewTicket(s))
           e == SweepEvents(m, s)
<1>1. SameEnds(m, e) /\ EndsKnown(e)
  BY EventEnds, SameEndsKnown
<1>2. SameEnds(m, c) /\ EndsKnown(c)
  BY <1>1, EventEnds, SameEndsKnown DEF ContendedEvents
<1>3. SameEnds(m, i) /\ EndsKnown(i)
  BY <1>2, EventEnds, SameEndsKnown
<1>4. SameEnds(m, TakeGranted(i, a, NewTicket(s)))
  BY <1>3, EventEnds, SameEndsKnown
<1>5. SameEnds(m, HoldsEnded(e, {t}))
  BY <1>1, EventEnds, SameEndsKnown
<1>6. QED
  BY <1>1, <1>2, <1>4, <1>5 DEF AcquireEvents, ReleaseEvents

LEMMA ReadEnds ==
  ASSUME EndsKnown(history), NEW a, SoakRead(a) PROVE SameEnds(history, history')
<1> DEFINE e == SweepEvents(history, svc)
           q == AcquireEvents(history, svc, a)
<1>1. SameEnds(history, e) /\ EndsKnown(e) /\ SameEnds(history, q) /\ EndsKnown(q)
  BY EventEnds, CallEnds, SameEndsKnown
<1>2. SameEnds(history, AgentSeen(e, a)) /\ SameEnds(history, ReadTakes(a))
  BY <1>1, EventEnds, SameEndsKnown DEF ReadTakes
<1>3. QED
  BY <1>1, <1>2, CallEnds DEF SoakRead

LEMMA AuthorizeEnds ==
  ASSUME EndsKnown(history), NEW a, SoakAuthorize(a) PROVE SameEnds(history, history')
<1> DEFINE e == AttemptEvents(a)
<1>1. SameEnds(history, e) /\ EndsKnown(e)
  <2> DEFINE b == IF Span = "Full" THEN history ELSE AcquireEvents(history, svc, a)
  <2>1. SameEnds(history, b) /\ EndsKnown(b)
    BY CallEnds, SameEndsKnown DEF SameEnds
  <2>2. QED
    BY <2>1, EventEnds, SameEndsKnown DEF AttemptEvents
<1> HIDE DEF e
<1>2. ASSUME NEW s PROVE SameEnds(history, SweepEvents(e, s)) /\ EndsKnown(SweepEvents(e, s))
  BY <1>1, EventEnds, SameEndsKnown
<1>3. ASSUME NEW k PROVE SameEnds(history, RefusalEvents(a, k))
  <2> DEFINE m == WriteRefused(SweepEvents(e, k.svc), a)
  <2>1. SameEnds(history, m) /\ EndsKnown(m)
    BY <1>2, EventEnds, SameEndsKnown
  <2>2. SameEnds(history, ReleaseEvents(m, k.svc, a, k.ticket))
    BY <2>1, CallEnds, SameEndsKnown
  <2>3. QED
    BY <2>1, <2>2 DEF RefusalEvents, e
<1>4. QED
  BY <1>1, <1>2, <1>3, CallEnds DEF SoakAuthorize, e

LEMMA ApplyEnds ==
  ASSUME EndsKnown(history), NEW a, SoakApply(a) PROVE SameEnds(history, history')
<1> DEFINE e == SweepEvents(history, svc)
<1>1. SameEnds(history, e) /\ EndsKnown(e)
  BY EventEnds, SameEndsKnown
<1>2. ASSUME NEW m, SameEnds(e, m) PROVE SameEnds(history, FinishEvents(m, a))
  BY <1>1, <1>2, CallEnds, SameEndsKnown DEF FinishEvents
<1>3. SameEnds(e, AcceptedEvent(e, a)) /\ SameEnds(e, WriteRefused(e, a))
  BY <1>1, EventEnds DEF AcceptedEvent
<1>4. QED
  BY <1>1, <1>2, <1>3 DEF SoakApply

\* Who has ended has nothing left to apply.
EndedQuiet ==
    /\ EndsKnown(history)
    /\ \A a \in Holder : a \in history.wedged \cup history.finished => pend[a] = None

LEMMA InitEndedQuiet == SoakInit => EndedQuiet
  BY DEF SoakInit, Init, EmptyHistory, EndedQuiet, EndsKnown

LEMMA AgentEndedQuiet ==
  ASSUME TypeOK, EndedQuiet, NEW a \in Holder, AgentStep(a) PROVE EndedQuiet'
<1>0. /\ EndsKnown(history) /\ pend \in [Holder -> Authorized \cup {None}]
      /\ a \notin history.wedged \cup history.finished
  BY DEF EndedQuiet, TypeOK, AgentStep, Working
<1>1. CASE Wedge(a) \/ Retire(a)
  <2>1. pend[a] = None /\ UNCHANGED pend
    BY <1>1 DEF Wedge, Retire, Abandon, Idle, vars
  <2>2. ASSUME NEW m, SameEnds(history, m),
               history' = AgentWedged(m, a) \/ history' = AgentFinished(m, a)
        PROVE  /\ EndsKnown(history')
               /\ history'.wedged \cup history'.finished
                    \subseteq {a} \cup history.wedged \cup history.finished
    BY <1>0, <2>2 DEF EndsKnown, SameEnds, AgentWedged, AgentFinished
  <2>3. SameEnds(history, history)
        /\ SameEnds(history, ReleaseEvents(history, svc, a, open[a].ticket))
    BY <1>0, CallEnds DEF SameEnds
  <2>4. QED
    BY <1>1, <2>1, <2>2, <2>3 DEF EndedQuiet, Wedge, Retire
<1>2. CASE ~(Wedge(a) \/ Retire(a))
  <2>1. SameEnds(history, history')
    BY <1>0, <1>2, ReadEnds, AuthorizeEnds, ApplyEnds, CallEnds, EventEnds
       DEF AgentStep, SoakAbandon, SameEnds
  <2>2. \A b \in Holder \ {a} : pend'[b] = pend[b]
    BY <1>0, <1>2
       DEF AgentStep, SoakRead, ReadWriteOnly, ReadFull, ReadContended, ReadFails,
           SoakAuthorize, AuthorizeContended, AuthorizeOk, AuthorizeRefused, PrepareFails,
           SoakApply, ApplyOk, ApplySuperseded, ApplyFails, Finish, SoakAbandon, Abandon,
           Progress, DropAuthorized
  <2>3. QED
    BY <1>0, <2>1, <2>2, SameEndsKnown DEF EndedQuiet, SameEnds
<1>3. QED
  BY <1>1, <1>2

LEMMA NextEndedQuiet ==
  ASSUME TypeOK, EndedQuiet, [SoakNext]_soakVars PROVE EndedQuiet'
<1>1. CASE WorldStep \/ CheckRun \/ UNCHANGED soakVars
  <2>0. EndsKnown(history)
    BY DEF EndedQuiet
  <2>1. SameEnds(history, history')
    <3>1. CASE SoakForceRelease
      BY <2>0, <3>1, EventEnds, SameEndsKnown DEF SoakForceRelease
    <3>2. QED
      BY <1>1, <2>0, <3>1, EventEnds
         DEF WorldStep, CheckRun, SoakForceExpire, SoakTick, SameEnds, soakVars
  <2>2. UNCHANGED pend
    BY <1>1 DEF WorldStep, CheckRun, SoakForceRelease, ForceRelease, SoakForceExpire,
                ForceExpire, SoakTick, Tick, soakVars, vars
  <2>3. QED
    BY <2>0, <2>1, <2>2, SameEndsKnown DEF EndedQuiet, SameEnds
<1>2. QED
  BY <1>1, AgentEndedQuiet DEF SoakNext

\* By the time of the check every hold has lapsed and no write is outstanding, so
\* that it leaves the harness as force_expire would.
LEMMA CheckRunExpires ==
  ASSUME FInv, EndedQuiet, CheckRun PROVE ForceExpire
<1>0. Replays(history, svc) /\ svc \in Service
  BY SoundNumbers DEF FInv, Replays
<1>1. Quiet
  BY DEF CheckRun, Working, EndedQuiet, Quiet
<1>2. svc' = [svc EXCEPT !.held = {}]
  <2>1. svc'.held = {}
    BY <1>0, CheckReplays
  <2>2. svc' = [svc EXCEPT !.held = svc'.held]
    BY <1>0 DEF CheckRun, After, Sweep, Service
  <2>3. QED
    BY <2>1, <2>2
<1>3. {h \in svc.held : h.resource # File} = {}
  BY <1>0 DEF Replays, Sound
<1>4. QED
  BY <1>1, <1>2, <1>3 DEF ForceExpire, ForceExpired, CheckRun

\* Every run (tests/soak.rs, run_one), its end included, is to the harness a
\* behaviour of its own: what is proved of Harness holds of every run.
THEOREM RunsAreTheHarness ==
  ASSUME ~NonMonotonicTickets PROVE SoakSpec => Spec
<1> DEFINE I == FInv /\ EndedQuiet
<1>1. SoakInit => I /\ Init
  BY InitFInv, InitEndedQuiet DEF SoakInit
<1>2. I /\ [SoakNext]_soakVars => I' /\ [Next]_vars
  <2> SUFFICES ASSUME FInv, EndedQuiet, [SoakNext]_soakVars
               PROVE  FInv' /\ EndedQuiet' /\ [Next]_vars
    OBVIOUS
  <2>1. FInv' /\ EndedQuiet'
    BY NextFInv, NextEndedQuiet DEF FInv
  <2>2. CASE CheckRun
    <3>1. ForceExpire
      BY <2>2, CheckRunExpires
    <3>2. QED
      BY <2>1, <3>1 DEF Next
  <2>3. QED
    BY <2>1, <2>2, SoakSteps
<1> HIDE DEF I
<1>3. QED
  BY <1>1, <1>2, PTL DEF SoakSpec, Spec

-----------------------------------------------------------------------------
(* What the check finds after callers of write *)

RenameMayFail == "DuringRename" \in IoFaults

\* The history knows the file, and its version unless one was used up by a
\* rename that failed, and has nothing to report but what that exposes.
WritesKnown ==
    /\ ~RenameMayFail => history.version = RegVersion
    /\ history.last = file
    /\ file = Initial \/ file \in history.accepted
    /\ history.barrier = barrier
    /\ history.highest < svc.next
    /\ history.violated \subseteq Exposed

\* Accepted now, an authorized write would be found in order.
WriteReady ==
    \A a \in Holder : pend[a] # None =>
        /\ ~RenameMayFail => Fresh(history, a)
        /\ ~Overlapped(history, a)
        /\ \E h \in svc.held : h.ticket = pend[a].ticket
        /\ \A h \in svc.held : Live(h) /\ h.ticket <= pend[a].ticket

RunInv == BInv /\ RInv /\ WritesKnown /\ WriteReady

SInv == FInv /\ (IF checked THEN Report(history, file, Initial) \subseteq Exposed ELSE RunInv)

LEMMA InitRunInv == SoakInit => RunInv
<1> SUFFICES ASSUME SoakInit PROVE RunInv
  OBVIOUS
<1>1. Init /\ \A a \in Holder : pend[a] = None
  BY DEF SoakInit, Init
<1>2. FileVersion = 0
  BY <1>1, HarnessAssumption DEF Init, FileVersion, NewService
<1>3. RegVersion = 0
  BY <1>1, <1>2, QuietRegVersion
<1>4. WritesKnown
  BY <1>1, <1>3 DEF WritesKnown, SoakInit, EmptyHistory, Init, NewService
<1>5. WriteReady
  BY <1>1 DEF WriteReady
<1>6. QED
  BY <1>1, <1>4, <1>5, InitBInv, InitRInv DEF RunInv

\* Steps that leave the file and its version alone, no write being outstanding.
LEMMA QuietRun ==
  ASSUME RunInv, Quiescent, BInv', RInv',
         Peaceful(history, svc, history', svc'), barrier' = barrier
  PROVE  RunInv'
<1>1. RegVersion' = RegVersion /\ file' = file /\ \A b \in Holder : pend'[b] = None
  BY QuiescentRegVersion DEF Quiescent
<1>2. WritesKnown'
  BY <1>1 DEF RunInv, WritesKnown, Peaceful
<1>3. WriteReady'
  BY <1>1 DEF WriteReady
<1>4. QED
  BY <1>2, <1>3 DEF RunInv

LEMMA RevokeRun ==
  ASSUME ~Split, FInv, RunInv, BInv', RInv', SoakForceRelease PROVE RunInv'
<1>0. TypeOK /\ svc \in Service /\ svc.next \in Nat /\ history \in History
      /\ Replays(history, svc)
  BY Numbers DEF FInv, Replays
<1>1. /\ Quiescent /\ barrier' = svc.next + 1 /\ svc'.next = svc.next + 1
      /\ history' = Revoked(SweepEvents(history, svc), Barrier(svc))
  BY <1>0, OtherQuiescent
     DEF SoakForceRelease, ForceRelease, Barrier, ForceReleased, Service
<1>2. /\ SameWrites(history, history') /\ history'.highest = history.highest
      /\ history'.barrier = svc.next + 1 /\ history'.violated = history.violated
  BY <1>0, <1>1, RevokeReplays
<1>3. RegVersion' = RegVersion /\ file' = file /\ \A b \in Holder : pend'[b] = None
  BY <1>1, QuiescentRegVersion DEF Quiescent
<1>4. WritesKnown'
  BY <1>0, <1>1, <1>2, <1>3 DEF RunInv, WritesKnown, SameWrites, History
<1>5. WriteReady'
  BY <1>3 DEF WriteReady
<1>6. QED
  BY <1>4, <1>5 DEF RunInv

\* The write is authorized on what the file holds, with the highest ticket.
LEMMA AuthorizeOkRun ==
  ASSUME ~Split, ~NonMonotonicTickets, FInv, FInv', RunInv, BInv', RInv',
         NEW a \in Holder, AuthorizeOk(a),
         \E k \in Locked(a) : history' = SweepEvents(AttemptEvents(a), k.svc)
  PROVE  RunInv'
<1> DEFINE w == [holder |-> a, basedOn |-> snap[a].version, overlapped |-> FALSE]
           t == pend'[a].ticket
<1>0. TypeOK /\ Replays(history, svc) /\ RInv /\ BInv
  BY DEF FInv, RunInv
<1>1. /\ Peaceful(history, svc, history', svc')
      /\ history'.attempts = Others(history, a) \cup {w}
  BY <1>0, AuthorizeOkStep
<1>2. /\ RegVersion' = RegVersion /\ file' = file /\ barrier' = barrier
      /\ snap[a].version = RegVersion
      /\ \A b \in Holder \ {a} : pend'[b] = None
  BY <1>0, AuthorizeOkRInv, AuthorizeOkFacts, QuietRegVersion DEF AuthorizeOk
<1>3. WritesKnown'
  BY <1>1, <1>2 DEF RunInv, WritesKnown, Peaceful
<1>4. (~RenameMayFail => Fresh(history, a)') /\ ~Overlapped(history, a)'
  <2>1. /\ w.holder = a /\ w.overlapped = FALSE /\ w \in history'.attempts
        /\ ~RenameMayFail => w.basedOn = history'.version
    BY <1>1, <1>2, <1>3 DEF WritesKnown
  <2>2. \A u \in history'.attempts : u.holder = a => u = w
    BY <1>1 DEF Others
  <2> HIDE DEF w
  <2>3. QED
    BY <2>1, <2>2 DEF Fresh, Overlapped
<1>5. /\ \E h \in svc'.held : h.ticket = t
      /\ \A h \in svc'.held : Live(h) /\ h.ticket <= t
  <2>1. PICK k \in Locked(a) :
          /\ CanCommit(k.svc, HoldingOf(a, k.ticket), snap[a].version)
          /\ svc' = Committed(k.svc, HoldingOf(a, k.ticket))
          /\ pend' = [pend EXCEPT ![a] = [ticket |-> k.ticket,
                                          content |-> Edit(a),
                                          newVersion |-> FileVersion + 1]]
    BY <1>0, AuthorizeOkService
  <2>2. k.svc \in Service /\ t = k.ticket
    BY <1>0, <2>1, LockedType DEF TypeOK
  <2>3. svc'.held = Sweep(k.svc).held /\ \A h \in svc'.held : Live(h)
    BY <2>1, <2>2 DEF Committed, Sweep, Service
  <2>4. \A h \in svc'.held : h.resource = File
    BY DEF BInv, HeldInv, HeldOnFile
  <2>5. QED
    BY <2>1, <2>2, <2>3, <2>4 DEF CanCommit, Holds, IsCurrent, HeldOn, Same, HoldingOf
<1>6. WriteReady'
  BY <1>2, <1>4, <1>5 DEF WriteReady
<1>7. QED
  BY <1>3, <1>6 DEF RunInv

\* The write replaces what the history takes for the file, in order.
LEMMA ApplyOkRun ==
  ASSUME ~Split, ~NonMonotonicTickets, FInv, RunInv, BInv', RInv',
         NEW a \in Holder, ApplyOk(a),
         history' = FinishEvents(AcceptedEvent(SweepEvents(history, svc), a), a)
  PROVE  RunInv'
<1> DEFINE f == SweepEvents(history, svc)
           t == pend[a].ticket
           v == pend[a].newVersion
           c == pend[a].content
           n == WriteAccepted(f, a, t, v, c)
           r == ReleaseEvents(n, svc, a, t)
<1>0. /\ TypeOK /\ Replays(history, svc) /\ RInv /\ BInv /\ WInv /\ Apply(a)
      /\ Sound(svc) /\ svc.next \in Nat /\ barrier \in Nat
  BY HeldNumbers DEF FInv, BInv, RunInv, RInv, Apply, Replays
<1>1. /\ pend[a] # None /\ v = FileVersion /\ tmp = c
      /\ \A b \in Holder : pend'[b] = None
      /\ FileVersion' = FileVersion
  BY <1>0, ApplyFacts
<1>2. t \in Ticket /\ t \in Nat /\ v \in Nat /\ c \in Content
  BY <1>0, <1>1, Fields DEF Ticket
<1>3. file' = c /\ history' = r
  BY <1>1 DEF ApplyOk, FinishEvents, AcceptedEvent
<1>4. /\ barrier' = barrier /\ svc' = Released(svc, HoldingOf(a, t))
      /\ svc'.next = svc.next
  BY <1>0, ReleasedFewer DEF ApplyOk, Finish, Sound
<1>5. Replays(f, Sweep(svc)) /\ Steady(history, f)
  BY <1>0, SweepReplays
<1>6. /\ ~RenameMayFail => Fresh(f, a)
      /\ ~Overlapped(f, a) /\ ~BelowBarrier(f, t)
  <2>1. barrier <= t /\ f.barrier = barrier
    BY <1>1, <1>5 DEF RunInv, BInv, WritesKnown, Steady
  <2>2. ~BelowBarrier(f, t)
    BY <1>0, <1>2, <2>1 DEF BelowBarrier
  <2>3. QED
    BY <1>1, <1>5, <2>2
       DEF RunInv, WriteReady, Fresh, Overlapped, Steady, SameWrites
<1>7. InForce(f, t)
  <2>1. /\ \E h \in Sweep(svc).held : h.ticket = t
        /\ \A h \in Sweep(svc).held : h.ticket <= t
    BY <1>0, <1>1 DEF RunInv, WriteReady, Sweep, Sound, Service
  <2>2. f.held = {Hold(h) : h \in Sweep(svc).held}
    BY <1>5 DEF Replays, Holdings
  <2>3. \A h \in Sweep(svc).held : Hold(h).ticket = h.ticket
    BY DEF Hold
  <2> HIDE DEF f, t
  <2>4. QED
    BY <2>1, <2>2, <2>3 DEF InForce
<1>8. f \in History /\ n = WriteAccepted(f, a, t, v, c)
  BY <1>5 DEF Replays
<1> HIDE DEF f, t, v, c, n
<1>9. /\ n \in History /\ n.held = f.held
      /\ n.version = v /\ n.last = c /\ n.accepted = f.accepted \cup {c}
      /\ n.highest = f.highest /\ n.barrier = f.barrier
      /\ n.violated \subseteq f.violated \cup (IF RenameMayFail THEN {"P6"} ELSE {})
  <2>1. /\ n \in History /\ n.held = f.held
        /\ n.version = v /\ n.last = c /\ n.accepted = f.accepted \cup {c}
        /\ n.highest = f.highest /\ n.barrier = f.barrier
        /\ n.violated = f.violated \cup
             (Reports("P1", Overlapped(f, a)) \cup Reports("P2", ~InForce(f, t))
                \cup Reports("P6", ~Fresh(f, a)) \cup Reports("P8", BelowBarrier(f, t)))
    BY <1>2, <1>8, AcceptedType
  <2>2. QED
    BY <1>6, <1>7, <2>1 DEF Reports
<1>10. Steady(n, r)
  BY <1>0, <1>2, <1>5, <1>9, ReleaseReplays DEF Replays
<1> HIDE DEF r
<1>11. RegVersion' = v
  BY <1>1 DEF RegVersion, Unapplied
<1>12. history'.violated \subseteq Exposed
  BY <1>3, <1>5, <1>9, <1>10 DEF RunInv, WritesKnown, Steady, Exposed, RenameMayFail
<1>13. WritesKnown'
  BY <1>1, <1>3, <1>4, <1>5, <1>9, <1>10, <1>11, <1>12
     DEF RunInv, WritesKnown, Steady, SameWrites
<1>14. WriteReady'
  BY <1>1 DEF WriteReady
<1>15. QED
  BY <1>13, <1>14 DEF RunInv

\* A rename that fails changes neither the file nor what the history knows of it.
LEMMA ApplyFailsRun ==
  ASSUME ~Split, FInv, RunInv, BInv', RInv', NEW a \in Holder,
         ApplyFails(a), history' = SweepEvents(history, svc)
  PROVE  RunInv'
<1>0. TypeOK /\ Replays(history, svc) /\ RInv /\ WInv /\ Apply(a) /\ svc \in Service
  BY Numbers DEF FInv, RunInv, RInv, Apply
<1>1. pend[a] # None /\ tmp = pend[a].content /\ \A b \in Holder : pend'[b] = None
  BY <1>0, ApplyFacts
<1>2. RenameMayFail
  BY <1>0, <1>1, Fields, NoneDiffers DEF ApplyFails, RenameMayFail
<1>3. Steady(history, history')
  BY <1>0, SweepReplays
<1>4. UNCHANGED <<file, barrier>> /\ svc'.next = svc.next
  BY <1>0, SweepFewer DEF ApplyFails
<1>5. WritesKnown'
  BY <1>2, <1>3, <1>4 DEF RunInv, WritesKnown, Steady, SameWrites
<1>6. WriteReady'
  BY <1>1 DEF WriteReady
<1>7. QED
  BY <1>5, <1>6 DEF RunInv

LEMMA ApplyRun ==
  ASSUME ~Split, ~NonMonotonicTickets, FInv, RunInv, BInv', RInv',
         NEW a \in Holder, SoakApply(a)
  PROVE  RunInv'
<1>1. CASE /\ ApplyOk(a)
           /\ history' = FinishEvents(AcceptedEvent(SweepEvents(history, svc), a), a)
  BY <1>1, ApplyOkRun
<1>2. CASE ApplyFails(a) /\ history' = SweepEvents(history, svc)
  BY <1>2, ApplyFailsRun
<1>3. ~ApplySuperseded(a)
  BY DEF ApplySuperseded, StillCurrent, RunInv, RInv, WInv, OneWrite
<1>4. QED
  BY <1>1, <1>2, <1>3 DEF SoakApply

LEMMA StutterRun ==
  ASSUME RunInv, BInv', RInv', UNCHANGED soakVars PROVE RunInv'
<1>1. RegVersion' = RegVersion
  BY StutterRInv DEF RunInv, soakVars, vars
<1>2. WritesKnown'
  BY <1>1 DEF RunInv, WritesKnown, soakVars, vars
<1>3. WriteReady'
  BY DEF RunInv, WriteReady, soakVars, vars, Fresh, Overlapped
<1>4. QED
  BY <1>2, <1>3 DEF RunInv

\* Every call of a run that goes on, and the world around it.
LEMMA StepRun ==
  ASSUME ~Split, ~NonMonotonicTickets, FInv, FInv', RunInv, [Next]_vars,
         \/ \E a \in Holder : AgentStep(a)
         \/ WorldStep
         \/ UNCHANGED soakVars
  PROVE  RunInv'
<1>0. TypeOK /\ Replays(history, svc) /\ BInv /\ RInv /\ BInv' /\ RInv'
  BY NextBInv, NextRInv DEF FInv, RunInv
<1>1. ASSUME NEW a \in Holder, SoakRead(a) PROVE RunInv'
  <2>1. Read(a) /\ barrier' = barrier
    BY <1>1 DEF SoakRead, Read, ReadWriteOnly, ReadFull, ReadContended, ReadFails
  <2>2. QED
    BY <1>0, <1>1, <2>1, ReadQuiescent, ReadStep, QuietRun
<1>2. ASSUME NEW a \in Holder, SoakAuthorize(a) PROVE RunInv'
  <2>1. CASE AuthorizeContended(a) \/ AuthorizeRefused(a) \/ PrepareFails(a)
    <3>1. barrier' = barrier
      BY <2>1 DEF AuthorizeContended, AuthorizeRefused, PrepareFails
    <3>2. QED
      BY <1>0, <1>2, <2>1, <3>1, AuthorizeQuiescent, AuthorizeStep, QuietRun
  <2>2. CASE AuthorizeOk(a) /\ \E k \in Locked(a) : history' = SweepEvents(AttemptEvents(a), k.svc)
    BY <1>0, <2>2, AuthorizeOkRun
  <2>3. QED
    BY <1>2, <2>1, <2>2 DEF SoakAuthorize
<1>3. ASSUME NEW a \in Holder, SoakApply(a) PROVE RunInv'
  BY <1>0, <1>3, ApplyRun
<1>4. ASSUME NEW a \in Holder,
             \/ SoakAbandon(a) \/ Wedge(a) \/ Retire(a)
             \/ Progress(a) /\ history' = SweepEvents(history, svc)
             \/ DropAuthorized(a) /\ UNCHANGED history
      PROVE  RunInv'
  <2>1. Quiescent /\ barrier' = barrier
    <3>1. CASE Progress(a) \/ Abandon(a)
      BY <1>0, <3>1, OtherQuiescent DEF Progress, Abandon
    <3>2. CASE Idle(a) /\ UNCHANGED vars
      BY <3>2, IdleQuiet DEF Quiescent, vars, FileVersion
    <3>3. QED
      BY <1>4, <3>1, <3>2 DEF SoakAbandon, Wedge, Retire, DropAuthorized
  <2>2. QED
    BY <1>0, <1>4, <2>1, OtherStep, QuietRun
<1>5. CASE WorldStep
  <2>1. CASE SoakForceRelease
    BY <1>0, <2>1, RevokeRun
  <2>2. CASE SoakForceExpire \/ SoakTick
    <3>1. Quiescent /\ barrier' = barrier
      BY <1>0, <2>2, OtherQuiescent DEF SoakForceExpire, ForceExpire, SoakTick, Tick
    <3>2. QED
      BY <1>0, <2>2, <3>1, LapseStep, QuietRun
  <2>3. QED
    BY <1>5, <2>1, <2>2 DEF WorldStep
<1>6. QED
  BY <1>0, <1>1, <1>2, <1>3, <1>4, <1>5, StutterRun DEF AgentStep

\* The run is over when every agent has ended, and by then no lease lasts.
LEMMA CheckRunEnds ==
  ASSUME Replays(history, svc), CheckRun
  PROVE  ~Leaks(history') /\ ~Unfinished(history')
<1>1. history' = HoldsEnded(history, Lapsed(After(svc, 2 * Lease)))
  BY DEF CheckRun, SweepEvents
<1>2. history'.seen = history.seen /\ history'.wedged = history.wedged
      /\ history'.finished = history.finished
  BY <1>1 DEF Replays, HoldsEnded, History
<1>3. history.seen \subseteq Holder /\ \A a \in Holder : ~Working(a)
  BY DEF Replays, CheckRun, History
<1>4. QED
  BY <1>2, <1>3, CheckReplays DEF Leaks, Unfinished, Working, CheckRun

LEMMA CheckRunFinds ==
  ASSUME FInv, ~checked, RunInv, CheckRun
  PROVE  Report(history', file', Initial) \subseteq Exposed
<1>0. Replays(history, svc) /\ history \in History
  BY DEF FInv, Replays
<1>1. Steady(history, history') /\ history'.held = {} /\ file' = file
  BY <1>0, CheckReplays DEF CheckRun
<1>2. ~NotLast(history', file') /\ ~Phantom(history', file', Initial)
      /\ ~Leaks(history') /\ history'.violated \subseteq Exposed
  BY <1>1 DEF RunInv, WritesKnown, Steady, SameWrites, NotLast, Phantom, Leaks
<1>3. ~Unfinished(history')
  BY <1>0, CheckRunEnds
<1>4. QED
  BY <1>2, <1>3 DEF Report, Reports

LEMMA NextSInv ==
  ASSUME ~Split, ~NonMonotonicTickets PROVE SInv /\ [SoakNext]_soakVars => SInv'
<1> SUFFICES ASSUME SInv, [SoakNext]_soakVars PROVE SInv'
  OBVIOUS
<1>0. FInv /\ FInv'
  BY NextFInv DEF SInv
<1>1. CASE checked
  <2>1. UNCHANGED soakVars
    BY <1>1 DEF SoakNext, AgentStep, Working, WorldStep, CheckRun
  <2>2. QED
    BY <1>0, <1>1, <2>1 DEF SInv, soakVars, vars
<1>2. CASE ~checked /\ CheckRun
  BY <1>0, <1>2, CheckRunFinds DEF SInv, CheckRun
<1>3. CASE ~checked /\ ~CheckRun
  <2>1. RunInv /\ [Next]_vars /\ ~checked'
    BY <1>3, SoakSteps DEF SInv
  <2>2. RunInv'
    BY <1>0, <1>3, <2>1, StepRun DEF SoakNext
  <2>3. QED
    BY <1>0, <2>1, <2>2 DEF SInv
<1>4. QED
  BY <1>1, <1>2, <1>3

\* The soak's verdict (tests/soak.rs, run_one; checker.rs, check) for every run
\* of callers of write, of any length and with any number of agents: whatever
\* is revoked, expired, granted twice, swallowed, dropped or fails before the
\* rename, none of the eight properties is reported.
THEOREM SoakFindsNothing ==
  ASSUME ~Split, ~NonMonotonicTickets, "DuringRename" \notin IoFaults
  PROVE  SoakSpec => []SoakPasses
<1>1. SInv /\ [SoakNext]_soakVars => SInv'
  BY NextSInv
<1>2. SoakInit => SInv
  BY InitFInv, InitRunInv DEF SInv, SoakInit
<1>3. SInv => SoakPasses
  BY DEF SInv, SoakPasses, Exposed
<1>4. QED
  BY <1>1, <1>2, <1>3, PTL DEF SoakSpec

-----------------------------------------------------------------------------
(* Accepted writes never overlap *)

\* A write that can still be applied has had its window to itself.
AloneInWindow ==
    \A a \in Holder :
        pend[a] # None /\ StillCurrent(pend[a]) => ~Overlapped(history, a)

LInv ==
    /\ FInv
    /\ OutstandingDistinct
    /\ history.highest < svc.next
    /\ AcceptedNeverOverlap
    /\ AloneInWindow

LEMMA InitLInv == SoakInit => LInv
<1> SUFFICES ASSUME SoakInit PROVE LInv
  OBVIOUS
<1>1. Init /\ \A a \in Holder : pend[a] = None
  BY DEF SoakInit, Init
<1>2. QED
  BY <1>1, InitFInv DEF SoakInit, Init, EmptyHistory, NewService, LInv,
     OutstandingDistinct, AcceptedNeverOverlap, AloneInWindow

\* A call that accepts nothing leaves the attempts of the others alone.
LEMMA OthersKept ==
  ASSUME ~NonMonotonicTickets, TypeOK, Replays(history, svc), NEW a \in Holder,
         \/ SoakRead(a) \/ SoakAuthorize(a) \/ SoakAbandon(a) \/ Wedge(a) \/ Retire(a)
         \/ Progress(a) /\ history' = SweepEvents(history, svc)
         \/ DropAuthorized(a) /\ UNCHANGED history
  PROVE  Others(history', a) = Others(history, a)
<1>0. Sound(svc)
  BY DEF Replays
<1>1. \A n : Steady(history, n) => n.attempts = history.attempts
  BY DEF Steady, SameWrites
<1>2. CASE history'.attempts = history.attempts
  BY <1>2 DEF Others
<1>3. CASE SoakRead(a)
  <2>1. ReadTakes(a).attempts = history.attempts
    BY AcquireReplays, SweepReplays DEF ReadTakes, Steady, SameWrites
  <2>2. /\ SweepEvents(history, svc).attempts = history.attempts
        /\ ContendedEvents(history, svc, a).attempts = history.attempts
    BY SweepReplays, ContendedReplays DEF Steady, SameWrites
  <2>3. QED
    BY <1>2, <1>3, <2>1, <2>2 DEF SoakRead, ContendedEvents
<1>4. CASE SoakAuthorize(a)
  <2>1. CASE AuthorizeContended(a) /\ history' = ContendedEvents(history, svc, a)
    BY <1>1, <1>2, <2>1, ContendedReplays
  <2>2. CASE AuthorizeOk(a) /\ \E k \in Locked(a) : history' = SweepEvents(AttemptEvents(a), k.svc)
    BY <2>2, AuthorizeOkStep DEF Others
  <2>3. CASE AuthorizeRefused(a) /\ \E k \in Locked(a) : history' = RefusalEvents(a, k)
    <3>1. PICK k \in Locked(a) : history' = RefusalEvents(a, k)
      BY <2>3
    <3>2. snap[a] # None
      BY <2>3 DEF AuthorizeRefused, CanWrite
    <3> DEFINE e == AttemptEvents(a)
               f == SweepEvents(e, k.svc)
               m == WriteRefused(f, a)
    <3>3. Replays(e, k.svc) /\ Others(e, a) = Others(history, a)
      BY <3>2, AttemptReplays DEF Others
    <3>4. Replays(f, Sweep(k.svc)) /\ f.attempts = e.attempts /\ Sound(k.svc)
      BY <3>3, SweepReplays DEF Steady, SameWrites, Replays
    <3>5. Replays(m, Sweep(k.svc)) /\ m.attempts = Others(f, a)
      BY <3>4, RefusedType
    <3>6. history'.attempts = m.attempts
      <4>1. history' = m \/ history' = ReleaseEvents(m, k.svc, a, k.ticket)
        BY <3>1 DEF RefusalEvents
      <4>2. k.ticket \in Ticket
        BY LockedType
      <4> HIDE DEF m
      <4>3. Steady(m, ReleaseEvents(m, k.svc, a, k.ticket))
        BY <3>4, <3>5, <4>2, ReleaseReplays
      <4>4. QED
        BY <4>1, <4>3 DEF Steady, SameWrites
    <3> HIDE DEF e, f, m
    <3>7. QED
      BY <3>3, <3>4, <3>5, <3>6 DEF Others
  <2>4. CASE PrepareFails(a) /\ history' = AttemptEvents(a)
    <3>1. snap[a] # None /\ \E k \in Locked(a) : TRUE
      BY <2>4 DEF PrepareFails, CanWrite
    <3>2. QED
      BY <2>4, <3>1, AttemptReplays DEF Others
  <2>5. QED
    BY <1>4, <2>1, <2>2, <2>3, <2>4 DEF SoakAuthorize
<1>5. CASE SoakAbandon(a) \/ Wedge(a) \/ Retire(a)
  <2> DEFINE n == ReleaseEvents(history, svc, a, open[a].ticket)
  <2>1. Abandon(a) => Replays(n, svc') /\ Steady(history, n)
    BY <1>0, Fields, ReleaseReplays DEF Abandon
  <2>2. ASSUME NEW m \in History
        PROVE  /\ AgentWedged(m, a).attempts = m.attempts
               /\ AgentFinished(m, a).attempts = m.attempts
    BY <2>2, EndedType DEF Steady, SameWrites
  <2> HIDE DEF n
  <2>3. QED
    BY <1>1, <1>2, <1>5, <2>1, <2>2 DEF SoakAbandon, Wedge, Retire, Replays, n
<1>6. CASE Progress(a) /\ history' = SweepEvents(history, svc)
  BY <1>1, <1>2, <1>6, SweepReplays
<1>7. QED
  BY <1>2, <1>3, <1>4, <1>5, <1>6

\* A call that accepts nothing.
LEMMA CallLInv ==
  ASSUME ~NonMonotonicTickets, LInv, FInv', NEW a \in Holder,
         \/ SoakRead(a) \/ SoakAuthorize(a) \/ SoakAbandon(a) \/ Wedge(a) \/ Retire(a)
         \/ Progress(a) /\ history' = SweepEvents(history, svc)
         \/ DropAuthorized(a) /\ UNCHANGED history
  PROVE  LInv'
<1>0. TypeOK /\ Replays(history, svc) /\ OutstandingDistinct
  BY DEF LInv, FInv
<1>1. Others(history', a) = Others(history, a)
  BY <1>0, OthersKept
<1>2. history'.violated = history.violated /\ history'.highest < svc'.next
  BY <1>0, ReadStep, AuthorizeStep, OtherStep DEF LInv, Peaceful
<1>3. \A b \in Holder \ {a} : ~Overlapped(history, b) => ~Overlapped(history', b)
  BY <1>1 DEF Overlapped, Others
<1>4. CASE AuthorizeOk(a) /\ \E k \in Locked(a) : history' = SweepEvents(AttemptEvents(a), k.svc)
  <2>1. ~Overlapped(history', a)
    BY <1>0, <1>4, AuthorizeOkStep DEF Overlapped, Others
  <2>2. \A b \in Holder \ {a} : pend'[b] # None => pend'[b].newVersion # FileVersion'
    BY <1>0, <1>4, AuthorizeOkVersion, PendNumbers DEF OutstandingDistinct
  <2>3. OutstandingDistinct'
    BY <1>0, <1>4, AuthorizeOkDistinct
  <2>4. AloneInWindow'
    BY <2>1, <2>2 DEF AloneInWindow, StillCurrent
  <2>5. QED
    BY <1>2, <2>3, <2>4 DEF LInv, AcceptedNeverOverlap
<1>5. CASE /\ FileVersion' = FileVersion /\ pend'[a] = None
           /\ \A b \in Holder : pend'[b] \in {pend[b], None}
  <2>1. OutstandingDistinct'
    BY <1>0, <1>5 DEF OutstandingDistinct
  <2>2. AloneInWindow'
    BY <1>3, <1>5 DEF LInv, AloneInWindow, StillCurrent
  <2>3. QED
    BY <1>2, <2>1, <2>2 DEF LInv, AcceptedNeverOverlap
<1>6. ASSUME \/ Read(a) \/ Progress(a) \/ Abandon(a) \/ AuthorizeContended(a)
             \/ AuthorizeRefused(a) \/ PrepareFails(a) \/ DropAuthorized(a)
      PROVE  /\ FileVersion' = FileVersion /\ pend'[a] = None
             /\ \A b \in Holder : pend'[b] \in {pend[b], None}
  <2>1. FileVersion' = FileVersion /\ \A b \in Holder : pend'[b] \in {pend[b], None}
    BY <1>0, <1>6, OtherVersion
  <2>2. pend[a] = None \/ DropAuthorized(a)
    BY <1>6 DEF Read, ReadWriteOnly, ReadFull, ReadContended, ReadFails, Progress, Abandon,
       AuthorizeContended, AuthorizeRefused, PrepareFails, CanWrite, Idle
  <2>3. pend'[a] = None
    BY <1>0, <2>1, <2>2, PendNumbers DEF DropAuthorized
  <2>4. QED
    BY <2>1, <2>3
<1>7. CASE Idle(a) /\ UNCHANGED vars
  BY <1>5, <1>7 DEF vars, FileVersion, Idle
<1>8. SoakRead(a) => Read(a)
  BY DEF SoakRead, Read
<1>9. QED
  BY <1>4, <1>5, <1>6, <1>7, <1>8 DEF SoakAuthorize, SoakAbandon, Wedge, Retire

\* The write accepted had the current version, so no other still to be applied
\* has: what overlaps it will be superseded.
LEMMA ApplyLInv ==
  ASSUME ~NonMonotonicTickets, LInv, FInv', NEW a \in Holder, SoakApply(a)
  PROVE  LInv'
<1> DEFINE f == SweepEvents(history, svc)
           t == pend[a].ticket
           v == pend[a].newVersion
           c == pend[a].content
           n == WriteAccepted(f, a, t, v, c)
<1>0. /\ TypeOK /\ Replays(history, svc) /\ OutstandingDistinct /\ Apply(a)
      /\ Sound(svc) /\ svc.next \in Nat
  BY SoundNumbers DEF LInv, FInv, SoakApply, Apply, Replays
<1>1. /\ FileVersion' = FileVersion /\ pend[a] # None
      /\ pend' = [pend EXCEPT ![a] = None]
  BY <1>0, ApplyVersion
<1>2. /\ pend'[a] = None /\ \A b \in Holder \ {a} : pend'[b] = pend[b]
      /\ \A b \in Holder : pend'[b] \in {pend[b], None}
  BY <1>0, <1>1, PendNumbers
<1>3. OutstandingDistinct'
  BY <1>0, <1>1, <1>2 DEF OutstandingDistinct
<1>4. Replays(f, Sweep(svc)) /\ Steady(history, f) /\ f \in History
  BY <1>0, SweepReplays DEF Replays
<1>5. t \in Ticket /\ t \in Nat /\ v \in Nat /\ c \in Content
  BY <1>0, <1>1, Fields DEF Ticket
<1>6. svc'.next = svc.next
  BY <1>0, SweepFewer, ReleasedFewer
     DEF Sound, SoakApply, ApplyOk, ApplySuperseded, ApplyFails, Finish
<1>7. ASSUME NEW m, Replays(m, Sweep(svc)), history' = FinishEvents(m, a)
      PROVE  Steady(m, history')
  BY <1>0, <1>5, <1>7, ReleaseReplays DEF FinishEvents
<1>8. CASE ApplyOk(a) /\ history' = FinishEvents(AcceptedEvent(f, a), a)
  <2>1. FileVersion = v /\ ~Overlapped(f, a)
    BY <1>1, <1>4, <1>8
       DEF ApplyOk, StillCurrent, LInv, AloneInWindow, Steady, SameWrites, Overlapped
  <2>2. AcceptedEvent(f, a) = n /\ n = WriteAccepted(f, a, t, v, c) /\ f \in History
    BY <1>4 DEF AcceptedEvent
  <2>3. \A b \in Holder : pend'[b] # None => pend'[b].newVersion # FileVersion'
    BY <1>0, <1>1, <1>2, <2>1 DEF OutstandingDistinct
  <2> HIDE DEF f, t, v, c, n
  <2>4. /\ n \in History /\ n.held = f.held /\ n.highest = f.highest
        /\ "P1" \in n.violated => "P1" \in f.violated
    <3>1. /\ n \in History /\ n.held = f.held /\ n.highest = f.highest
          /\ n.violated = f.violated \cup
               (Reports("P1", Overlapped(f, a)) \cup Reports("P2", ~InForce(f, t))
                  \cup Reports("P6", ~Fresh(f, a)) \cup Reports("P8", BelowBarrier(f, t)))
      BY <1>5, <2>2, AcceptedType
    <3>2. QED
      BY <2>1, <3>1 DEF Reports
  <2>5. Steady(n, history')
    BY <1>4, <1>7, <1>8, <2>2, <2>4 DEF Replays
  <2>6. history'.highest < svc'.next /\ AcceptedNeverOverlap'
    BY <1>4, <1>6, <2>4, <2>5 DEF Steady, LInv, AcceptedNeverOverlap
  <2>7. AloneInWindow'
    BY <2>3 DEF AloneInWindow, StillCurrent
  <2>8. QED
    BY <1>3, <2>6, <2>7 DEF LInv
<1>9. CASE \/ ApplySuperseded(a) /\ history' = FinishEvents(WriteRefused(f, a), a)
           \/ ApplyFails(a) /\ history' = f
  <2>1. /\ history'.violated = history.violated /\ history'.highest = history.highest
        /\ history'.attempts \subseteq history.attempts
    <3>1. CASE history' = f
      BY <1>4, <3>1 DEF Steady, SameWrites
    <3>2. CASE history' = FinishEvents(WriteRefused(f, a), a)
      <4> DEFINE m == WriteRefused(f, a)
      <4>1. /\ Replays(m, Sweep(svc)) /\ m.violated = f.violated
            /\ m.highest = f.highest /\ m.attempts \subseteq f.attempts
        BY <1>4, RefusedType DEF Others
      <4> HIDE DEF m
      <4>2. Steady(m, history')
        BY <1>7, <3>2, <4>1 DEF m
      <4>3. QED
        BY <1>4, <4>1, <4>2 DEF Steady, SameWrites
    <3>3. QED
      BY <1>9, <3>1, <3>2
  <2>2. \A b \in Holder : ~Overlapped(history, b) => ~Overlapped(history', b)
    BY <2>1 DEF Overlapped
  <2>3. AloneInWindow'
    BY <1>1, <1>2, <2>2 DEF LInv, AloneInWindow, StillCurrent
  <2>4. QED
    BY <1>3, <1>6, <2>1, <2>3 DEF LInv, AcceptedNeverOverlap
<1>10. QED
  BY <1>8, <1>9 DEF SoakApply

LEMMA WorldLInv ==
  ASSUME ~NonMonotonicTickets, LInv, FInv', WorldStep \/ CheckRun
  PROVE  LInv'
<1>0. /\ TypeOK /\ Replays(history, svc) /\ svc \in Service /\ svc.next \in Nat
      /\ history \in History
  BY SoundNumbers DEF LInv, FInv, Replays
<1>1. pend' = pend /\ FileVersion' = FileVersion
  <2>1. CASE WorldStep
    <3>1. pend' = pend
      BY <2>1 DEF WorldStep, SoakForceRelease, ForceRelease, SoakForceExpire, ForceExpire,
         SoakTick, Tick
    <3>2. QED
      BY <1>0, <2>1, <3>1, OtherVersion
         DEF WorldStep, SoakForceRelease, SoakForceExpire, SoakTick
  <2>2. CASE CheckRun
    BY <1>0, <2>2 DEF CheckRun, After, Sweep, FileVersion, Service
  <2>3. QED
    BY <2>1, <2>2
<1>2. /\ history'.violated = history.violated /\ history'.highest < svc'.next
      /\ history'.attempts = history.attempts
  <2>1. CASE SoakForceRelease
    <3>1. svc'.next = svc.next + 1
      BY <1>0, <2>1 DEF SoakForceRelease, ForceRelease, ForceReleased, Service
    <3>2. QED
      BY <1>0, <2>1, <3>1, RevokeReplays DEF LInv, SoakForceRelease, SameWrites, History
  <2>2. CASE SoakForceExpire \/ SoakTick
    <3>1. history'.violated = history.violated /\ history'.highest < svc'.next
      BY <1>0, <2>2, LapseStep DEF LInv, Peaceful
    <3>2. history'.attempts = history.attempts
      BY <1>0, <2>2, HoldsEndedType DEF SoakForceExpire, SoakTick, Steady, SameWrites
    <3>3. QED
      BY <3>1, <3>2
  <2>3. CASE CheckRun
    <3>1. svc'.next = svc.next
      BY <1>0, <2>3 DEF CheckRun, After, Sweep, Service
    <3>2. QED
      BY <1>0, <2>3, <3>1, CheckReplays DEF LInv, Steady, SameWrites
  <2>4. QED
    BY <2>1, <2>2, <2>3 DEF WorldStep
<1>3. OutstandingDistinct' /\ AloneInWindow'
  BY <1>1, <1>2 DEF LInv, OutstandingDistinct, AloneInWindow, StillCurrent, Overlapped
<1>4. QED
  BY <1>2, <1>3 DEF LInv, AcceptedNeverOverlap

LEMMA NextLInv ==
  ASSUME ~NonMonotonicTickets PROVE LInv /\ [SoakNext]_soakVars => LInv'
<1> SUFFICES ASSUME LInv, [SoakNext]_soakVars PROVE LInv'
  OBVIOUS
<1>0. FInv'
  BY NextFInv DEF LInv
<1>1. ASSUME NEW a \in Holder, AgentStep(a) PROVE LInv'
  BY <1>0, <1>1, CallLInv, ApplyLInv DEF AgentStep
<1>2. CASE UNCHANGED soakVars
  BY <1>0, <1>2 DEF soakVars, vars, LInv, OutstandingDistinct, AcceptedNeverOverlap,
     AloneInWindow, StillCurrent, Overlapped, FileVersion
<1>3. QED
  BY <1>0, <1>1, <1>2, WorldLInv DEF SoakNext

\* P1 (checker.rs, p1; the version guard in apply): two accepted writes never
\* overlap, also for callers who drive the phases apart, whatever is revoked,
\* expired, granted twice or fails meanwhile, if tickets do not repeat.
THEOREM AcceptedWritesNeverOverlap ==
  ASSUME ~NonMonotonicTickets PROVE SoakSpec => []AcceptedNeverOverlap
<1>1. LInv /\ [SoakNext]_soakVars => LInv'
  BY NextLInv
<1>2. LInv => AcceptedNeverOverlap
  BY DEF LInv
<1>3. QED
  BY <1>1, <1>2, InitLInv, PTL DEF SoakSpec

-----------------------------------------------------------------------------
(* What the check finds, however the harness is driven *)

\* The history knows the last write accepted, whether or not the file holds it.
Recorded ==
    /\ history.last = accepted.content
    /\ accepted.content = Initial \/ accepted.content \in history.accepted

\* Every oracle but P2, P6 and P8, and P3 and P4 while no prepare fails.
XInv ==
    /\ LInv
    /\ Recorded
    /\ "AfterTempWritten" \notin IoFaults => PInv
    /\ checked => ~Leaks(history) /\ ~Unfinished(history)

LEMMA InitXInv == SoakInit => XInv
  BY InitLInv, InitPInv DEF SoakInit, Init, EmptyHistory, Recorded, XInv

LEMMA ApplyRecorded ==
  ASSUME FInv, Recorded, NEW a \in Holder, SoakApply(a) PROVE Recorded'
<1> DEFINE f == SweepEvents(history, svc)
           t == pend[a].ticket
           v == pend[a].newVersion
           c == pend[a].content
<1>0. TypeOK /\ Replays(history, svc) /\ Sound(svc) /\ pend[a] # None
  BY DEF FInv, Replays, SoakApply, ApplyOk, ApplySuperseded, ApplyFails
<1>1. Replays(f, Sweep(svc)) /\ Steady(history, f) /\ f \in History
  BY <1>0, SweepReplays DEF Replays
<1>2. t \in Ticket /\ t \in Nat /\ v \in Nat /\ c \in Content
  BY <1>0, Fields DEF Ticket
<1>3. ASSUME NEW m, Replays(m, Sweep(svc)), history' = FinishEvents(m, a)
      PROVE  Steady(m, history')
  BY <1>0, <1>2, <1>3, ReleaseReplays DEF FinishEvents
<1>4. CASE ApplyOk(a) /\ history' = FinishEvents(AcceptedEvent(f, a), a)
  <2> DEFINE n == WriteAccepted(f, a, t, v, c)
  <2>1. AcceptedEvent(f, a) = n /\ n = WriteAccepted(f, a, t, v, c)
    BY DEF AcceptedEvent
  <2>2. accepted'.content = c
    BY <1>4 DEF ApplyOk
  <2> HIDE DEF f, t, v, c, n
  <2>3. /\ n \in History /\ n.held = f.held
        /\ n.version = v /\ n.last = c /\ n.accepted = f.accepted \cup {c}
        /\ n.highest = f.highest /\ n.barrier = f.barrier
    BY <1>1, <1>2, <2>1, AcceptedType
  <2>4. Steady(n, history')
    BY <1>1, <1>3, <1>4, <2>1, <2>3 DEF Replays
  <2>5. QED
    BY <2>2, <2>3, <2>4 DEF Recorded, Steady, SameWrites
<1>5. CASE ApplySuperseded(a) /\ history' = FinishEvents(WriteRefused(f, a), a)
  <2> DEFINE m == WriteRefused(f, a)
  <2>1. Replays(m, Sweep(svc)) /\ m.last = f.last /\ m.accepted = f.accepted
    BY <1>1, RefusedType
  <2> HIDE DEF f, m
  <2>2. Steady(m, history')
    BY <1>3, <1>5, <2>1 DEF m
  <2>3. QED
    BY <1>1, <1>5, <2>1, <2>2 DEF Recorded, Steady, SameWrites, ApplySuperseded
<1>6. CASE ApplyFails(a) /\ history' = f
  BY <1>1, <1>6 DEF Recorded, Steady, SameWrites, ApplyFails
<1>7. QED
  BY <1>4, <1>5, <1>6 DEF SoakApply

LEMMA NextRecorded ==
  ASSUME ~NonMonotonicTickets, FInv, Recorded, [SoakNext]_soakVars PROVE Recorded'
<1>0. TypeOK /\ Replays(history, svc)
  BY DEF FInv
<1>1. ASSUME accepted' = accepted, history'.last = history.last,
             history'.accepted = history.accepted
      PROVE  Recorded'
  BY <1>1 DEF Recorded
<1>2. ASSUME NEW a \in Holder, AgentStep(a) PROVE Recorded'
  <2>1. CASE SoakApply(a)
    BY <2>1, ApplyRecorded
  <2>2. CASE ~SoakApply(a)
    <3>1. accepted' = accepted
      BY <1>2, <2>2
         DEF AgentStep, SoakRead, ReadWriteOnly, ReadFull, ReadContended, ReadFails,
             SoakAuthorize, AuthorizeContended, AuthorizeOk, AuthorizeRefused, PrepareFails,
             SoakAbandon, Abandon, Progress, DropAuthorized, Wedge, Retire, vars
    <3>2. Peaceful(history, svc, history', svc')
      BY <1>0, <1>2, <2>2, ReadStep, AuthorizeStep, OtherStep DEF AgentStep
    <3>3. QED
      BY <1>1, <3>1, <3>2 DEF Peaceful
  <2>3. QED
    BY <2>1, <2>2
<1>3. CASE SoakForceRelease
  BY <1>0, <1>1, <1>3, RevokeReplays DEF SoakForceRelease, ForceRelease, SameWrites
<1>4. CASE SoakForceExpire \/ SoakTick
  BY <1>0, <1>1, <1>4, LapseStep
     DEF Peaceful, SoakForceExpire, ForceExpire, SoakTick, Tick
<1>5. CASE CheckRun
  BY <1>0, <1>1, <1>5, CheckReplays DEF Steady, SameWrites, CheckRun
<1>6. CASE UNCHANGED soakVars
  BY <1>6 DEF soakVars, vars, Recorded
<1>7. QED
  BY <1>2, <1>3, <1>4, <1>5, <1>6 DEF SoakNext, WorldStep

LEMMA NextXInv ==
  ASSUME ~NonMonotonicTickets PROVE XInv /\ [SoakNext]_soakVars => XInv'
<1> SUFFICES ASSUME XInv, [SoakNext]_soakVars PROVE XInv'
  OBVIOUS
<1>0. LInv' /\ FInv /\ FInv' /\ Recorded'
  BY NextLInv, NextRecorded DEF XInv, LInv
<1>1. "AfterTempWritten" \notin IoFaults => PInv'
  <2> SUFFICES ASSUME "AfterTempWritten" \notin IoFaults PROVE PInv'
    OBVIOUS
  <2>1. CASE CheckRun
    <3>1. FileVersion' = FileVersion /\ UNCHANGED <<file, tmp, pend, accepted>>
      BY <1>0, <2>1 DEF FInv, TypeOK, CheckRun, After, Sweep, FileVersion, Service
    <3>2. QED
      BY <1>0, <3>1, QuietPInv DEF XInv, FInv
  <2>2. QED
    BY <2>1, SoakSteps, NextPInv DEF XInv
<1>2. checked' => ~Leaks(history') /\ ~Unfinished(history')
  <2>1. CASE CheckRun
    BY <1>0, <2>1, CheckRunEnds DEF FInv
  <2>2. CASE ~CheckRun /\ checked'
    <3>1. UNCHANGED soakVars
      BY <2>2, SoakSteps DEF SoakNext, AgentStep, Working, WorldStep
    <3>2. QED
      BY <2>2, <3>1 DEF XInv, soakVars
  <2>3. QED
    BY <2>1, <2>2
<1>3. QED
  BY <1>0, <1>1, <1>2 DEF XInv

\* What XInv leaves is what callers who drive the phases apart expose.
LEMMA XInvReports ==
  ASSUME Split, XInv, checked PROVE Report(history, file, Initial) \subseteq Exposed
<1>1. history.violated \subseteq {"P2", "P6", "P8"}
  BY DEF XInv, LInv, FInv, Replays, History, AcceptedNeverOverlap
<1>2. "AfterTempWritten" \notin IoFaults =>
        ~NotLast(history, file) /\ ~Phantom(history, file, Initial)
  BY DEF XInv, PInv, FileIsLastAccepted, Recorded, NotLast, Phantom
<1>3. QED
  BY <1>1, <1>2 DEF XInv, Report, Reports, Exposed

\* The verdict on any run (checker.rs, check), whatever fails and however the
\* phases of writes interleave: only the oracles that the way the harness is
\* driven leaves open ever report, and never P1, P5 or P7.
THEOREM OnlyExposedOraclesReport ==
  ASSUME ~NonMonotonicTickets PROVE SoakSpec => []OnlyExposedReport
<1> DEFINE I == IF Split THEN XInv ELSE SInv
<1>1. SoakInit => I
  BY InitXInv, InitFInv, InitRunInv DEF SInv, SoakInit
<1>2. I /\ [SoakNext]_soakVars => I'
  BY NextXInv, NextSInv
<1>3. I => OnlyExposedReport
  BY XInvReports DEF SInv, OnlyExposedReport
<1> HIDE DEF I
<1>4. QED
  BY <1>1, <1>2, <1>3, PTL DEF SoakSpec

=============================================================================
