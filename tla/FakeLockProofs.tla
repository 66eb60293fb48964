--------------------------- MODULE FakeLockProofs ---------------------------
(***************************************************************************)
(* Lemmas about the operations of FakeLock: that they keep the type of the *)
(* service, and what they may do to its entries.  They hold for every      *)
(* fault set; both state machines built on FakeLock cite them.             *)
(***************************************************************************)
EXTENDS FakeLock, TLAPS

-----------------------------------------------------------------------------
(* The operations keep the service's type *)

LEMMA NewServiceType == NewService \in Service
  BY DEF NewService, Service, Ticket, Version

LEMMA SweepType == ASSUME NEW s \in Service PROVE Sweep(s) \in Service
  BY DEF Sweep, Service

LEMMA ElapsedType == ASSUME NEW s \in Service PROVE Elapsed(s) \in Service
<1>1. \A h \in HeldBy : [h EXCEPT !.ttl = Remaining(h.ttl)] \in HeldBy
  BY DEF HeldBy, Remaining
<1>2. QED
  BY <1>1 DEF Elapsed, Service

LEMMA NewTicketType == ASSUME NEW s \in Service PROVE NewTicket(s) \in Ticket
  BY DEF NewTicket, Service, Ticket

LEMMA AcquiredType ==
  ASSUME NEW s \in Service, NEW r \in Resource, NEW a \in Holder
  PROVE  Acquired(s, r, a) \in Service
<1>1. NewTicket(s) \in Ticket
  BY NewTicketType
<1>2. Entry(NewHolding(s, r, a), Lease) \in HeldBy
  BY <1>1, LeaseAssumption DEF Entry, NewHolding, HeldBy
<1>3. Sweep(s).held \subseteq HeldBy
  BY SweepType DEF Service
<1>4. NewTicket(s) \in Nat /\ s.next + 1 \in Ticket
  BY <1>1 DEF Service, Ticket
<1>5. QED
  BY <1>2, <1>3, <1>4 DEF Acquired, Service

LEMMA ReleasedType ==
  ASSUME NEW s \in Service, NEW g \in Holding PROVE Released(s, g) \in Service
  BY SweepType DEF Released, Service

LEMMA RenewedType ==
  ASSUME NEW s \in Service, NEW g \in Holding PROVE Renewed(s, g) \in Service
<1>1. \A h \in HeldBy : Entry(h, Lease) \in HeldBy
  BY LeaseAssumption DEF Entry, HeldBy
<1>2. Sweep(s).held \subseteq HeldBy
  BY SweepType DEF Service
<1>3. QED
  BY <1>1, <1>2, SweepType DEF Renewed, Service

LEMMA ForceReleasedType ==
  ASSUME NEW s \in Service, NEW r \in Resource
  PROVE  ForceReleased(s, r) \in Service /\ Barrier(s) \in Ticket
<1>1. Sweep(s).held \subseteq HeldBy
  BY SweepType DEF Service
<1>2. s.next + 1 \in Ticket
  BY DEF Service, Ticket
<1>3. QED
  BY <1>1, <1>2 DEF ForceReleased, Barrier, Service

LEMMA ForceExpiredType ==
  ASSUME NEW s \in Service, NEW r \in Resource
  PROVE  ForceExpired(s, r) \in Service
  BY DEF ForceExpired, Service

LEMMA CommittedType ==
  ASSUME NEW s \in Service, NEW g \in Holding PROVE Committed(s, g) \in Service
<1>1. g.resource \in Resource
  BY DEF Holding
<1>2. Sweep(s) \in Service
  BY SweepType
<1>3. QED
  BY <1>1, <1>2 DEF Committed, Service, Version

-----------------------------------------------------------------------------
(* What an operation may do to the entries *)

\* h continues k: it is the same hold, and it lives only if k does.
From(h, k) ==
    /\ h.resource = k.resource
    /\ h.holder = k.holder
    /\ h.ticket = k.ticket
    /\ Live(h) => Live(k)

\* Every entry of t continues an entry of s, and no two continue the same one.
Inherits(s, t) ==
    \A h1, h2 \in t.held : \E k1, k2 \in s.held :
        /\ From(h1, k1)
        /\ From(h2, k2)
        /\ k1 = k2 => h1 = h2

LEMMA SubsetInherits ==
  ASSUME NEW s \in Service, NEW t, t.held \subseteq s.held PROVE Inherits(s, t)
  BY DEF Inherits, From

LEMMA SweepInherits == ASSUME NEW s \in Service PROVE Inherits(s, Sweep(s))
<1>1. Sweep(s).held \subseteq s.held
  BY DEF Sweep, Service
<1>2. QED
  BY <1>1, SubsetInherits

LEMMA ReleasedInherits ==
  ASSUME NEW s \in Service, NEW g \in Holding PROVE Inherits(s, Released(s, g))
<1>1. Released(s, g).held \subseteq s.held
  BY DEF Released, Sweep, Service
<1>2. QED
  BY <1>1, SubsetInherits

LEMMA ForceReleasedInherits ==
  ASSUME NEW s \in Service, NEW r \in Resource PROVE Inherits(s, ForceReleased(s, r))
<1>1. ForceReleased(s, r).held \subseteq s.held
  BY DEF ForceReleased, Sweep, Service
<1>2. QED
  BY <1>1, SubsetInherits

LEMMA ForceExpiredInherits ==
  ASSUME NEW s \in Service, NEW r \in Resource PROVE Inherits(s, ForceExpired(s, r))
<1>1. ForceExpired(s, r).held \subseteq s.held
  BY DEF ForceExpired, Service
<1>2. QED
  BY <1>1, SubsetInherits

LEMMA CommittedInherits ==
  ASSUME NEW s \in Service, NEW g \in Holding PROVE Inherits(s, Committed(s, g))
<1>1. Committed(s, g).held \subseteq s.held
  BY DEF Committed, Sweep, Service
<1>2. QED
  BY <1>1, SubsetInherits

LEMMA ElapsedInherits == ASSUME NEW s \in Service PROVE Inherits(s, Elapsed(s))
<1> DEFINE Later(k) == [k EXCEPT !.ttl = Remaining(k.ttl)]
<1>1. \A k \in HeldBy : From(Later(k), k)
  BY DEF From, Live, Remaining, HeldBy
<1>2. Elapsed(s).held = {Later(k) : k \in s.held}
  BY DEF Elapsed, Service
<1>3. s.held \subseteq HeldBy
  BY DEF Service
<1> HIDE DEF Later
<1>4. QED
  BY <1>1, <1>2, <1>3 DEF Inherits

LEMMA RenewedInherits ==
  ASSUME NEW s \in Service, NEW g \in Holding PROVE Inherits(s, Renewed(s, g))
<1>1. CASE g.holder \in SwallowKeepalive
  BY <1>1, SweepInherits DEF Renewed
<1>2. CASE g.holder \notin SwallowKeepalive
  <2> DEFINE Longer(k) == IF Same(k, g) THEN Entry(k, Lease) ELSE k
  <2>1. \A k \in HeldBy : Live(k) => From(Longer(k), k)
    BY DEF From, Live, Entry, HeldBy
  <2>2. Renewed(s, g).held = {Longer(k) : k \in Sweep(s).held}
    BY <1>2 DEF Renewed, Service
  <2>3. Sweep(s).held \subseteq s.held /\ \A k \in Sweep(s).held : k \in HeldBy /\ Live(k)
    BY DEF Sweep, Service
  <2> HIDE DEF Longer
  <2>4. QED
    BY <2>1, <2>2, <2>3 DEF Inherits
<1>3. QED
  BY <1>1, <1>2

\* acquire adds one entry, for a resource nobody holds or that may be granted
\* twice; the others continue.
LEMMA AcquiredHeld ==
  ASSUME NEW s \in Service, NEW r \in Resource, NEW a \in Holder
  PROVE  /\ Acquired(s, r, a).held
              = Sweep(s).held \cup {Entry(NewHolding(s, r, a), Lease)}
         /\ Sweep(s).held \subseteq s.held
         /\ \A h \in Sweep(s).held : Live(h)
  BY DEF Acquired, Sweep, Service

-----------------------------------------------------------------------------
(* What an operation leaves alone *)

LEMMA SameCounters ==
  ASSUME NEW s \in Service, NEW g \in Holding, NEW r \in Resource
  PROVE  /\ Sweep(s).next = s.next /\ Sweep(s).last = s.last
         /\ Released(s, g).next = s.next /\ Released(s, g).last = s.last
         /\ Renewed(s, g).next = s.next /\ Renewed(s, g).last = s.last
         /\ ForceExpired(s, r).next = s.next /\ ForceExpired(s, r).last = s.last
         /\ Committed(s, g).next = s.next /\ Committed(s, g).last = s.last
         /\ Elapsed(s).next = s.next /\ Elapsed(s).last = s.last
  BY DEF Sweep, Released, Renewed, ForceExpired, Committed, Elapsed, Service

\* Only a commit changes a version, and only its own resource's.
LEMMA SameVersions ==
  ASSUME NEW s \in Service, NEW g \in Holding, NEW r \in Resource, NEW a \in Holder
  PROVE  /\ Sweep(s).version = s.version
         /\ Acquired(s, r, a).version = s.version
         /\ Released(s, g).version = s.version
         /\ Renewed(s, g).version = s.version
         /\ ForceReleased(s, r).version = s.version
         /\ ForceExpired(s, r).version = s.version
         /\ Elapsed(s).version = s.version
         /\ Committed(s, g).version
              = [s.version EXCEPT ![g.resource] = s.version[g.resource] + 1]
  BY DEF Sweep, Acquired, Released, Renewed, ForceReleased, ForceExpired, Elapsed,
         Committed, Service

=============================================================================
