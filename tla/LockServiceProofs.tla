------------------------- MODULE LockServiceProofs --------------------------
(***************************************************************************)
(* Proofs about LockService, for any number of holders and resources, any  *)
(* lease and any fault set.                                                *)
(***************************************************************************)
EXTENDS LockService, FakeLockProofs

-----------------------------------------------------------------------------
(* Type correctness *)

LEMMA InitTypeOK == Init => TypeOK
  BY NewServiceType DEF Init, TypeOK

LEMMA NextTypeOK == TypeOK /\ [Next]_vars => TypeOK'
<1> SUFFICES ASSUME TypeOK, [Next]_vars PROVE TypeOK'
  OBVIOUS
<1>0. svc \in Service /\ holdings \subseteq Holding
  BY DEF TypeOK
<1>1. ASSUME NEW r \in Resource, NEW a \in Holder, AcquireOk(r, a) PROVE TypeOK'
  <2>1. NewHolding(svc, r, a) \in Holding
    BY <1>0, NewTicketType DEF NewHolding, Holding
  <2>2. QED
    BY <1>0, <1>1, <2>1, AcquiredType DEF AcquireOk, TypeOK
<1>2. ASSUME NEW r \in Resource, AcquireContended(r) PROVE TypeOK'
  BY <1>0, <1>2, SweepType DEF AcquireContended, TypeOK
<1>3. ASSUME NEW r \in Resource, ForceRelease(r) PROVE TypeOK'
  <2>1. Barrier(svc) \in Nat
    BY <1>0, ForceReleasedType DEF Ticket
  <2>2. QED
    BY <1>0, <1>3, <2>1, ForceReleasedType DEF ForceRelease, TypeOK
<1>4. ASSUME NEW r \in Resource, ForceExpire(r) PROVE TypeOK'
  BY <1>0, <1>4, ForceExpiredType DEF ForceExpire, TypeOK
<1>5. ASSUME NEW g \in holdings, Release(g) PROVE TypeOK'
  BY <1>0, <1>5, ReleasedType DEF Release, TypeOK
<1>6. ASSUME NEW g \in holdings, Keepalive(g) PROVE TypeOK'
  BY <1>0, <1>6, RenewedType DEF Keepalive, TypeOK
<1>7. ASSUME NEW g \in holdings, NEW v \in 0..MaxVersion, CommitOk(g, v) PROVE TypeOK'
  <2>1. g \in Holding /\ g.ticket \in Nat
    BY <1>0 DEF Holding, Ticket
  <2>2. QED
    BY <1>0, <1>7, <2>1, CommittedType DEF CommitOk, TypeOK
<1>8. ASSUME NEW g \in holdings, NEW v \in 0..MaxVersion, CommitRefused(g, v)
      PROVE  TypeOK'
  BY <1>0, <1>8, SweepType DEF CommitRefused, TypeOK
<1>9. CASE Observe
  BY <1>0, <1>9, SweepType DEF Observe, TypeOK
<1>10. CASE Tick
  BY <1>0, <1>10, ElapsedType DEF Tick, TypeOK
<1>11. CASE UNCHANGED vars
  BY <1>11 DEF vars, TypeOK
<1>12. QED
  BY <1>1, <1>2, <1>3, <1>4, <1>5, <1>6, <1>7, <1>8, <1>9, <1>10, <1>11 DEF Next

\* Every reachable state of the service and its clients is well typed: no
\* operation of the service, in any order and on any Holding ever granted,
\* produces a ticket 0, a negative lease or an unknown resource.
THEOREM TypeCorrect == Spec => []TypeOK
  BY InitTypeOK, NextTypeOK, PTL DEF Spec

-----------------------------------------------------------------------------
(* Mutual exclusion *)

LEMMA InheritsAtMostOne ==
  ASSUME AtMostOneHolder, Inherits(svc, svc') PROVE AtMostOneHolder'
  BY DEF AtMostOneHolder, Inherits, From

LEMMA NextAtMostOne == TypeOK /\ AtMostOneHolder /\ [Next]_vars => AtMostOneHolder'
<1> SUFFICES ASSUME TypeOK, AtMostOneHolder, [Next]_vars PROVE AtMostOneHolder'
  OBVIOUS
<1>0. svc \in Service /\ holdings \subseteq Holding
  BY DEF TypeOK
<1>1. ASSUME NEW r \in Resource, NEW a \in Holder, AcquireOk(r, a)
      PROVE  AtMostOneHolder'
  <2> DEFINE e == Entry(NewHolding(svc, r, a), Lease)
  <2>1. svc'.held = Sweep(svc).held \cup {e} /\ Sweep(svc).held \subseteq svc.held
    BY <1>0, <1>1, AcquiredHeld DEF AcquireOk
  <2>2. e.resource = r
    BY DEF Entry, NewHolding
  <2>3. r \notin GrantTwice => \A h \in Sweep(svc).held : h.resource # r
    BY <1>1 DEF AcquireOk, CanAcquire, HeldOn
  <2> HIDE DEF e
  <2>4. QED
    BY <2>1, <2>2, <2>3 DEF AtMostOneHolder
<1>2. ASSUME NEW r \in Resource, AcquireContended(r) PROVE AtMostOneHolder'
  BY <1>0, <1>2, SweepInherits, InheritsAtMostOne DEF AcquireContended
<1>3. ASSUME NEW r \in Resource, ForceRelease(r) PROVE AtMostOneHolder'
  BY <1>0, <1>3, ForceReleasedInherits, InheritsAtMostOne DEF ForceRelease
<1>4. ASSUME NEW r \in Resource, ForceExpire(r) PROVE AtMostOneHolder'
  BY <1>0, <1>4, ForceExpiredInherits, InheritsAtMostOne DEF ForceExpire
<1>5. ASSUME NEW g \in holdings, Release(g) PROVE AtMostOneHolder'
  BY <1>0, <1>5, ReleasedInherits, InheritsAtMostOne DEF Release
<1>6. ASSUME NEW g \in holdings, Keepalive(g) PROVE AtMostOneHolder'
  BY <1>0, <1>6, RenewedInherits, InheritsAtMostOne DEF Keepalive
<1>7. ASSUME NEW g \in holdings, NEW v \in 0..MaxVersion, CommitOk(g, v)
      PROVE  AtMostOneHolder'
  BY <1>0, <1>7, CommittedInherits, InheritsAtMostOne DEF CommitOk
<1>8. ASSUME NEW g \in holdings, NEW v \in 0..MaxVersion, CommitRefused(g, v)
      PROVE  AtMostOneHolder'
  BY <1>0, <1>8, SweepInherits, InheritsAtMostOne DEF CommitRefused
<1>9. CASE Observe
  BY <1>0, <1>9, SweepInherits, InheritsAtMostOne DEF Observe
<1>10. CASE Tick
  BY <1>0, <1>10, ElapsedInherits, InheritsAtMostOne DEF Tick
<1>11. CASE UNCHANGED vars
  BY <1>11 DEF vars, AtMostOneHolder
<1>12. QED
  BY <1>1, <1>2, <1>3, <1>4, <1>5, <1>6, <1>7, <1>8, <1>9, <1>10, <1>11 DEF Next

\* Mutual exclusion (fake.rs, acquire), for every lease, every fault set and
\* even a ticket source that repeats itself: outside grant_twice a resource
\* never has two entries.
THEOREM MutualExclusion == Spec => []AtMostOneHolder
<1>1. Init => AtMostOneHolder
  BY DEF Init, NewService, AtMostOneHolder
<1>2. QED
  BY <1>1, NextAtMostOne, TypeCorrect, PTL DEF Spec

-----------------------------------------------------------------------------
(* Fencing, with a ticket source that does not repeat itself *)

\* Nothing in the system names a ticket that is still to be issued.
TicketsBelowNext ==
    /\ svc.last < svc.next
    /\ \A h \in svc.held : h.ticket < svc.next
    /\ \A g \in holdings : g.ticket < svc.next
    /\ \A r \in Resource : lastCommit[r] < svc.next

\* The last barrier of a resource is at most the next ticket, and no entry is
\* below it: a revocation removes them and every later grant is above.
HeldAboveBarrier ==
    /\ \A r \in Resource : barrier[r] <= svc.next
    /\ \A h \in svc.held : barrier[h.resource] <= h.ticket

\* Whoever holds an exclusive resource is not behind its last committer.
HeldAboveCommit ==
    \A h \in svc.held :
        h.resource \notin GrantTwice => lastCommit[h.resource] <= h.ticket

IInv ==
    /\ TypeOK
    /\ AtMostOneHolder
    /\ TicketsBelowNext
    /\ HeldAboveBarrier
    /\ HeldAboveCommit

LEMMA InitIInv == Init => IInv
<1> SUFFICES ASSUME Init PROVE IInv
  OBVIOUS
<1>1. TypeOK
  BY InitTypeOK
<1>2. svc.held = {} /\ holdings = {} /\ svc.last = 0 /\ svc.next = 1
  BY DEF Init, NewService
<1>3. QED
  BY <1>1, <1>2 DEF Init, IInv, AtMostOneHolder, TicketsBelowNext, HeldAboveBarrier,
                    HeldAboveCommit

\* What is left to show of IInv for a step that only continues entries.
LEMMA InheritsIInv ==
  ASSUME IInv, TypeOK', AtMostOneHolder', Inherits(svc, svc'),
         svc'.next = svc.next, svc'.last = svc.last,
         holdings' = holdings, barrier' = barrier, lastCommit' = lastCommit
  PROVE  IInv'
<1>1. \A h \in svc'.held : \E k \in svc.held :
          h.resource = k.resource /\ h.ticket = k.ticket
  BY DEF Inherits, From
<1>2. TicketsBelowNext'
  BY <1>1 DEF IInv, TicketsBelowNext
<1>3. HeldAboveBarrier'
  BY <1>1 DEF IInv, HeldAboveBarrier
<1>4. HeldAboveCommit'
  BY <1>1 DEF IInv, HeldAboveCommit
<1>5. QED
  BY <1>2, <1>3, <1>4 DEF IInv

LEMMA AcquireIInv ==
  ASSUME ~NonMonotonicTickets, IInv, TypeOK', AtMostOneHolder',
         NEW r \in Resource, NEW a \in Holder, AcquireOk(r, a)
  PROVE  IInv'
<1> DEFINE e == Entry(NewHolding(svc, r, a), Lease)
<1>0. svc \in Service /\ svc.next \in Nat /\ svc.last \in Nat
  BY DEF IInv, TypeOK, Service, Ticket
<1>1. svc'.held = Sweep(svc).held \cup {e} /\ Sweep(svc).held \subseteq svc.held
  BY <1>0, AcquiredHeld DEF AcquireOk
<1>2. svc'.next = svc.next + 1 /\ svc'.last = svc.next
  BY <1>0 DEF AcquireOk, Acquired, NewTicket, Service
<1>3. e.resource = r /\ e.ticket = svc.next
  BY DEF Entry, NewHolding, NewTicket
<1>4. holdings' = holdings \cup {NewHolding(svc, r, a)} /\ UNCHANGED <<barrier, lastCommit>>
  BY DEF AcquireOk
<1>5. NewHolding(svc, r, a).ticket = svc.next
  BY DEF NewHolding, NewTicket
<1>6. /\ svc.held \subseteq HeldBy /\ holdings \subseteq Holding
      /\ barrier \in [Resource -> Nat] /\ lastCommit \in [Resource -> Nat]
  BY DEF IInv, TypeOK, Service
<1>7. /\ \A h \in svc.held : h.ticket \in Nat /\ h.resource \in Resource
      /\ \A g \in holdings : g.ticket \in Nat
  BY <1>6 DEF HeldBy, Holding, Ticket
<1> HIDE DEF e
<1>8. TicketsBelowNext'
  BY <1>0, <1>1, <1>2, <1>3, <1>4, <1>5, <1>6, <1>7 DEF IInv, TicketsBelowNext
<1>9. HeldAboveBarrier'
  BY <1>0, <1>1, <1>2, <1>3, <1>4, <1>6, <1>7 DEF IInv, HeldAboveBarrier
<1>10. HeldAboveCommit'
  BY <1>0, <1>1, <1>3, <1>4, <1>6, <1>7 DEF IInv, HeldAboveCommit, TicketsBelowNext
<1>11. QED
  BY <1>8, <1>9, <1>10 DEF IInv

LEMMA ForceReleaseIInv ==
  ASSUME IInv, TypeOK', AtMostOneHolder', NEW r \in Resource, ForceRelease(r)
  PROVE  IInv'
<1>0. svc \in Service /\ svc.next \in Nat /\ svc.last \in Nat
  BY DEF IInv, TypeOK, Service, Ticket
<1>1. /\ svc'.held \subseteq svc.held
      /\ \A h \in svc'.held : h.resource # r
      /\ svc'.next = svc.next + 1 /\ svc'.last = svc.last
  BY <1>0 DEF ForceRelease, ForceReleased, Sweep, Service
<1>2. barrier' = [barrier EXCEPT ![r] = svc.next + 1] /\ UNCHANGED <<holdings, lastCommit>>
  BY DEF ForceRelease, Barrier
<1>3. /\ svc.held \subseteq HeldBy /\ holdings \subseteq Holding
      /\ barrier \in [Resource -> Nat] /\ lastCommit \in [Resource -> Nat]
  BY DEF IInv, TypeOK, Service
<1>4. /\ \A h \in svc.held : h.ticket \in Nat /\ h.resource \in Resource
      /\ \A g \in holdings : g.ticket \in Nat
  BY <1>3 DEF HeldBy, Holding, Ticket
<1>5. TicketsBelowNext'
  BY <1>0, <1>1, <1>2, <1>3, <1>4 DEF IInv, TicketsBelowNext
<1>6. HeldAboveBarrier'
  BY <1>0, <1>1, <1>2, <1>3, <1>4 DEF IInv, HeldAboveBarrier
<1>7. HeldAboveCommit'
  BY <1>1, <1>2 DEF IInv, HeldAboveCommit
<1>8. QED
  BY <1>5, <1>6, <1>7 DEF IInv

\* The committer holds the resource it commits on, with a ticket that no other
\* holder of it exceeds.
LEMMA CommitByHolder ==
  ASSUME TypeOK, NEW g \in Holding, NEW v, CanCommit(svc, g, v)
  PROVE  /\ \E h \in svc.held : Live(h) /\ Same(h, g)
         /\ \A h \in svc.held : Live(h) /\ h.resource = g.resource => h.ticket <= g.ticket
         /\ svc.version[g.resource] = v
<1>1. Sweep(svc).held = {h \in svc.held : Live(h)}
  BY DEF Sweep, TypeOK, Service
<1>2. QED
  BY <1>1 DEF CanCommit, Holds, IsCurrent, HeldOn

LEMMA CommitIInv ==
  ASSUME IInv, TypeOK', AtMostOneHolder',
         NEW g \in holdings, NEW v \in 0..MaxVersion, CommitOk(g, v)
  PROVE  IInv'
<1>0. svc \in Service /\ g \in Holding /\ TypeOK
  BY DEF IInv, TypeOK
<1>1. svc'.held \subseteq svc.held /\ svc'.next = svc.next /\ svc'.last = svc.last
  BY <1>0, SameCounters DEF CommitOk, Committed, Sweep, Service, Holding
<1>2. /\ lastCommit' = [lastCommit EXCEPT ![g.resource] = g.ticket]
      /\ UNCHANGED <<holdings, barrier>>
  BY DEF CommitOk
<1>3. PICK k \in svc.held : Same(k, g)
  BY <1>0, CommitByHolder DEF CommitOk
<1>4. /\ lastCommit \in [Resource -> Nat] /\ svc.held \subseteq HeldBy
      /\ svc.next \in Nat /\ svc.last \in Nat
  BY DEF IInv, TypeOK, Service, Ticket
<1>5. /\ \A h \in svc.held : h.ticket \in Nat /\ h.resource \in Resource
      /\ g.ticket \in Nat /\ g.resource \in Resource
  BY <1>0, <1>4 DEF HeldBy, Holding, Ticket
<1>6. TicketsBelowNext'
  BY <1>1, <1>2, <1>4, <1>5 DEF IInv, TicketsBelowNext
<1>7. HeldAboveBarrier'
  BY <1>1, <1>2 DEF IInv, HeldAboveBarrier
<1>8. ASSUME NEW h \in svc'.held, h.resource \notin GrantTwice
      PROVE  lastCommit'[h.resource] <= h.ticket
  <2>1. CASE h.resource = g.resource
    <3>1. h = k
      BY <1>1, <1>3, <1>8, <2>1 DEF IInv, AtMostOneHolder, Same
    <3>2. QED
      BY <1>2, <1>3, <1>4, <1>5, <3>1 DEF Same
  <2>2. CASE h.resource # g.resource
    BY <1>1, <1>2, <1>4, <1>5, <1>8, <2>2 DEF IInv, HeldAboveCommit
  <2>3. QED
    BY <2>1, <2>2
<1>9. QED
  BY <1>6, <1>7, <1>8 DEF IInv, HeldAboveCommit

LEMMA NextIInv ==
  ASSUME ~NonMonotonicTickets PROVE IInv /\ [Next]_vars => IInv'
<1> SUFFICES ASSUME IInv, [Next]_vars PROVE IInv'
  OBVIOUS
<1>0. /\ svc \in Service /\ holdings \subseteq Holding
      /\ TypeOK' /\ AtMostOneHolder'
  BY NextTypeOK, NextAtMostOne DEF IInv, TypeOK
<1>1. ASSUME NEW r \in Resource, NEW a \in Holder, AcquireOk(r, a) PROVE IInv'
  BY <1>0, <1>1, AcquireIInv
<1>2. ASSUME NEW r \in Resource, AcquireContended(r) PROVE IInv'
  <2>1. svc'.next = svc.next /\ svc'.last = svc.last
    BY <1>0, <1>2 DEF AcquireContended, Sweep, Service
  <2>2. QED
    BY <1>0, <1>2, <2>1, SweepInherits, InheritsIInv DEF AcquireContended
<1>3. ASSUME NEW r \in Resource, ForceRelease(r) PROVE IInv'
  BY <1>0, <1>3, ForceReleaseIInv
<1>4. ASSUME NEW r \in Resource, ForceExpire(r) PROVE IInv'
  <2>1. svc'.next = svc.next /\ svc'.last = svc.last
    BY <1>0, <1>4 DEF ForceExpire, ForceExpired, Service
  <2>2. QED
    BY <1>0, <1>4, <2>1, ForceExpiredInherits, InheritsIInv DEF ForceExpire
<1>5. ASSUME NEW g \in holdings, Release(g) PROVE IInv'
  <2>1. svc'.next = svc.next /\ svc'.last = svc.last
    BY <1>0, <1>5 DEF Release, Released, Sweep, Service
  <2>2. QED
    BY <1>0, <1>5, <2>1, ReleasedInherits, InheritsIInv DEF Release
<1>6. ASSUME NEW g \in holdings, Keepalive(g) PROVE IInv'
  <2>1. svc'.next = svc.next /\ svc'.last = svc.last
    BY <1>0, <1>6 DEF Keepalive, Renewed, Sweep, Service
  <2>2. QED
    BY <1>0, <1>6, <2>1, RenewedInherits, InheritsIInv DEF Keepalive
<1>7. ASSUME NEW g \in holdings, NEW v \in 0..MaxVersion, CommitOk(g, v) PROVE IInv'
  BY <1>0, <1>7, CommitIInv
<1>8. ASSUME NEW g \in holdings, NEW v \in 0..MaxVersion, CommitRefused(g, v)
      PROVE  IInv'
  <2>1. svc'.next = svc.next /\ svc'.last = svc.last
    BY <1>0, <1>8 DEF CommitRefused, Sweep, Service
  <2>2. QED
    BY <1>0, <1>8, <2>1, SweepInherits, InheritsIInv DEF CommitRefused
<1>9. CASE Observe
  <2>1. svc'.next = svc.next /\ svc'.last = svc.last
    BY <1>0, <1>9 DEF Observe, Sweep, Service
  <2>2. QED
    BY <1>0, <1>9, <2>1, SweepInherits, InheritsIInv DEF Observe
<1>10. CASE Tick
  <2>1. svc'.next = svc.next /\ svc'.last = svc.last
    BY <1>0, <1>10 DEF Tick, Elapsed, Service
  <2>2. QED
    BY <1>0, <1>10, <2>1, ElapsedInherits, InheritsIInv DEF Tick
<1>11. CASE UNCHANGED vars
  BY <1>11 DEF vars, IInv, TypeOK, AtMostOneHolder, TicketsBelowNext,
               HeldAboveBarrier, HeldAboveCommit
<1>12. QED
  BY <1>1, <1>2, <1>3, <1>4, <1>5, <1>6, <1>7, <1>8, <1>9, <1>10, <1>11 DEF Next

\* The inductive invariant of the service: every ticket in use is below the
\* next one, no entry is below the barrier or the last commit of its resource.
THEOREM FencingInvariant == ASSUME ~NonMonotonicTickets PROVE Spec => []IInv
<1>1. IInv /\ [Next]_vars => IInv'
  BY NextIInv
<1>2. QED
  BY <1>1, InitIInv, PTL DEF Spec

-----------------------------------------------------------------------------
(* The action properties *)

LEMMA InheritsHasLive ==
  ASSUME Inherits(svc, svc'), NEW g, HasLive(g)' PROVE HasLive(g)
  BY DEF Inherits, From, HasLive, Same, Live

\* Every step but a grant only continues entries.
LEMMA StepInherits ==
  ASSUME TypeOK, Next
  PROVE  \/ Inherits(svc, svc')
         \/ \E r \in Resource, a \in Holder : AcquireOk(r, a)
<1>0. svc \in Service /\ holdings \subseteq Holding
  BY DEF TypeOK
<1>1. ASSUME NEW r \in Resource,
             AcquireContended(r) \/ ForceRelease(r) \/ ForceExpire(r)
      PROVE  Inherits(svc, svc')
  BY <1>0, <1>1, SweepInherits, ForceReleasedInherits, ForceExpiredInherits
     DEF AcquireContended, ForceRelease, ForceExpire
<1>2. ASSUME NEW g \in holdings, Release(g) \/ Keepalive(g)
      PROVE  Inherits(svc, svc')
  BY <1>0, <1>2, ReleasedInherits, RenewedInherits DEF Release, Keepalive
<1>3. ASSUME NEW g \in holdings, NEW v \in 0..MaxVersion,
             CommitOk(g, v) \/ CommitRefused(g, v)
      PROVE  Inherits(svc, svc')
  BY <1>0, <1>3, CommittedInherits, SweepInherits DEF CommitOk, CommitRefused
<1>4. ASSUME Observe \/ Tick PROVE Inherits(svc, svc')
  BY <1>0, <1>4, SweepInherits, ElapsedInherits DEF Observe, Tick
<1>5. QED
  BY <1>1, <1>2, <1>3, <1>4 DEF Next

LEMMA LostStaysLostStep ==
  ASSUME ~NonMonotonicTickets, IInv, Next, NEW g \in holdings, HasLive(g)'
  PROVE  HasLive(g)
<1>0. svc \in Service /\ TypeOK /\ svc.next \in Nat /\ g.ticket < svc.next
  BY DEF IInv, TypeOK, Service, Ticket, TicketsBelowNext
<1>1. CASE Inherits(svc, svc')
  BY <1>1, InheritsHasLive
<1>2. ASSUME NEW r \in Resource, NEW a \in Holder, AcquireOk(r, a) PROVE HasLive(g)
  <2> DEFINE e == Entry(NewHolding(svc, r, a), Lease)
  <2>1. svc'.held = Sweep(svc).held \cup {e} /\ Sweep(svc).held \subseteq svc.held
    BY <1>0, <1>2, AcquiredHeld DEF AcquireOk
  <2>2. e.ticket = svc.next
    BY DEF Entry, NewHolding, NewTicket
  <2>3. g.ticket \in Nat
    BY DEF IInv, TypeOK, Holding, Ticket
  <2>4. g.ticket # e.ticket
    BY <1>0, <2>2, <2>3
  <2> HIDE DEF e
  <2>5. QED
    BY <2>1, <2>4 DEF HasLive, Same, Live
<1>3. QED
  BY <1>0, <1>1, <1>2, StepInherits

\* `A holder that lost the lock always compares stale' (types.rs): no call, in
\* any order, brings a lost Holding back to life.
THEOREM Fencing == ASSUME ~NonMonotonicTickets PROVE Spec => LostStaysLost
<1>1. IInv /\ [Next]_vars => [\A g \in holdings : HasLive(g)' => HasLive(g)]_vars
  BY LostStaysLostStep
<1>2. QED
  BY <1>1, FencingInvariant, PTL DEF Spec, LostStaysLost

LEMMA CommitStep ==
  ASSUME IInv, Next, NEW r \in Resource,
         lastCommit'[r] # lastCommit[r] \/ svc'.version[r] # svc.version[r]
  PROVE  /\ lastCommit'[r] >= barrier[r]
         /\ r \notin GrantTwice => lastCommit[r] <= lastCommit'[r]
<1>0. svc \in Service /\ holdings \subseteq Holding
  BY DEF IInv, TypeOK
<1>1. PICK g \in holdings, v \in 0..MaxVersion : CommitOk(g, v)
  <2>1. ASSUME ~\E g \in holdings, v \in 0..MaxVersion : CommitOk(g, v)
        PROVE  lastCommit' = lastCommit
    BY <2>1 DEF Next, AcquireOk, AcquireContended, ForceRelease, ForceExpire,
                Release, Keepalive, CommitRefused, Observe, Tick
  <2>2. ASSUME ~\E g \in holdings, v \in 0..MaxVersion : CommitOk(g, v)
        PROVE  svc'.version = svc.version
    <3>1. Sweep(svc).version = svc.version /\ Elapsed(svc).version = svc.version
      BY <1>0 DEF Sweep, Elapsed, Service
    <3>2. ASSUME NEW q \in Resource
          PROVE  /\ ForceReleased(svc, q).version = svc.version
                 /\ ForceExpired(svc, q).version = svc.version
                 /\ \A a \in Holder : Acquired(svc, q, a).version = svc.version
      BY <1>0 DEF Sweep, ForceReleased, ForceExpired, Acquired, Service
    <3>3. ASSUME NEW g \in holdings
          PROVE  /\ Released(svc, g).version = svc.version
                 /\ Renewed(svc, g).version = svc.version
      BY <1>0 DEF Sweep, Released, Renewed, Service
    <3>4. QED
      BY <2>2, <3>1, <3>2, <3>3
         DEF Next, AcquireOk, AcquireContended, ForceRelease, ForceExpire,
             Release, Keepalive, CommitRefused, Observe, Tick
  <2>3. QED
    BY <2>1, <2>2
<1>2. g \in Holding /\ TypeOK /\ lastCommit \in [Resource -> Nat]
  BY DEF IInv, TypeOK
<1>3. r = g.resource /\ lastCommit'[r] = g.ticket
  <2>1. svc'.version = [svc.version EXCEPT ![g.resource] = svc.version[g.resource] + 1]
    BY <1>0, <1>1, <1>2 DEF CommitOk, Committed, Sweep, Service
  <2>2. QED
    BY <1>0, <1>1, <1>2, <2>1 DEF CommitOk, Holding, Service
<1>4. PICK k \in svc.held : Same(k, g)
  BY <1>1, <1>2, CommitByHolder DEF CommitOk
<1>5. k.resource = r /\ k.ticket = g.ticket
  BY <1>3, <1>4 DEF Same
<1>6. barrier[r] \in Nat /\ g.ticket \in Nat
  BY <1>2 DEF TypeOK, Holding, Ticket
<1>7. barrier[r] <= g.ticket
  BY <1>5 DEF IInv, HeldAboveBarrier
<1>8. r \notin GrantTwice => lastCommit[r] <= g.ticket
  BY <1>5 DEF IInv, HeldAboveCommit
<1>9. QED
  BY <1>3, <1>6, <1>7, <1>8

\* force_release takes the lock away: no commit after it is below its barrier,
\* whatever the revoked holder still believes and does.
THEOREM Revocation == ASSUME ~NonMonotonicTickets PROVE Spec => NoCommitBelowBarrier
<1>1. IInv /\ [Next]_vars =>
        [\A r \in Resource :
            svc'.version[r] # svc.version[r] => lastCommit'[r] >= barrier[r]]_vars
  BY CommitStep DEF vars
<1>2. QED
  BY <1>1, FencingInvariant, PTL DEF Spec, NoCommitBelowBarrier

\* Commits on an exclusively granted resource carry tickets in order.
THEOREM CommitOrder == ASSUME ~NonMonotonicTickets PROVE Spec => CommitTicketsInOrder
<1>1. IInv /\ [Next]_vars =>
        [\A r \in Resource \ GrantTwice : lastCommit[r] <= lastCommit'[r]]_vars
  <2> SUFFICES ASSUME IInv, Next, NEW r \in Resource \ GrantTwice
               PROVE  lastCommit[r] <= lastCommit'[r]
    OBVIOUS
  <2>1. lastCommit[r] \in Nat
    BY DEF IInv, TypeOK
  <2>2. CASE lastCommit'[r] = lastCommit[r]
    BY <2>1, <2>2
  <2>3. CASE lastCommit'[r] # lastCommit[r]
    BY <2>3, CommitStep
  <2>4. QED
    BY <2>2, <2>3
<1>2. QED
  BY <1>1, FencingInvariant, PTL DEF Spec, CommitTicketsInOrder

\* A call on one Holding leaves the live entries of the others alone.
LEMMA OthersStay ==
  ASSUME TypeOK, Lease > 0, NEW h \in svc.held, Live(h),
         Next, ~HasLive(h)'
  PROVE  /\ \/ Tick
            \/ ForceRelease(h.resource)
            \/ ForceExpire(h.resource)
            \/ \E g \in holdings : Same(h, g) /\ Release(g)
         /\ \A g \in holdings : Release(g) => Same(h, g)
<1>0. /\ svc \in Service /\ holdings \subseteq Holding
      /\ h \in Sweep(svc).held /\ Same(h, h)
  BY DEF TypeOK, Sweep, Service, Same
<1>1. h \notin svc'.held
  BY <1>0 DEF HasLive
<1>2. ASSUME NEW r \in Resource, NEW a \in Holder, AcquireOk(r, a) PROVE FALSE
  BY <1>0, <1>1, <1>2, AcquiredHeld DEF AcquireOk
<1>3. svc' # Sweep(svc)
  BY <1>0, <1>1
<1>4. ASSUME NEW r \in Resource, ForceRelease(r) PROVE r = h.resource
  BY <1>0, <1>1, <1>4 DEF ForceRelease, ForceReleased, Service
<1>5. ASSUME NEW r \in Resource, ForceExpire(r) PROVE r = h.resource
  BY <1>0, <1>1, <1>5 DEF ForceExpire, ForceExpired, Service
<1>6. ASSUME NEW g \in holdings, Release(g) PROVE Same(h, g)
  BY <1>0, <1>1, <1>3, <1>6 DEF Release, Released, Service
<1>7. ASSUME NEW g \in holdings, Keepalive(g) PROVE FALSE
  <2> DEFINE Longer(k) == IF Same(k, g) THEN Entry(k, Lease) ELSE k
  <2>1. svc'.held = {Longer(k) : k \in Sweep(svc).held}
    BY <1>0, <1>3, <1>7 DEF Keepalive, Renewed, Service
  <2>2. Longer(h) \in svc'.held
    BY <1>0, <2>1
  <2>3. Same(Longer(h), h) /\ Live(Longer(h))
    BY DEF Same, Entry, Live
  <2>4. QED
    BY <2>2, <2>3 DEF HasLive
<1>8. ASSUME NEW g \in holdings, NEW v \in 0..MaxVersion, CommitOk(g, v) PROVE FALSE
  <2>1. svc'.held = Sweep(svc).held
    BY <1>0, <1>8 DEF CommitOk, Committed, Sweep, Service
  <2>2. QED
    BY <1>0, <1>1, <2>1
<1>9. QED
  BY <1>2, <1>3, <1>4, <1>5, <1>6, <1>7, <1>8
     DEF Next, AcquireContended, CommitRefused, Observe

\* No client call ends the hold of another: holds end by their own release, by
\* time, or by a revocation of their resource.
THEOREM HoldsAreIndependent == ASSUME Lease > 0 PROVE Spec => HoldEndsOnlyBy
<1>1. TypeOK /\ [Next]_vars =>
        [\A h \in svc.held :
            Live(h) /\ ~HasLive(h)' =>
                /\ \/ Tick
                   \/ ForceRelease(h.resource)
                   \/ ForceExpire(h.resource)
                   \/ \E g \in holdings : Same(h, g) /\ Release(g)
                /\ \A g \in holdings : Release(g) => Same(h, g)]_vars
  BY OthersStay
<1>2. QED
  BY <1>1, TypeCorrect, PTL DEF Spec, HoldEndsOnlyBy

-----------------------------------------------------------------------------
(* A renewal that is swallowed buys no time *)

\* The ticket that renews an entry is its alone: two entries that match are
\* one, and a Holding that matches an entry is in the entry's own name.
TicketsAreOwn ==
    /\ \A h, k \in svc.held : Same(h, k) => h = k
    /\ \A g \in holdings, h \in svc.held : Same(h, g) => h.holder = g.holder

LEMMA InitOwn == Init => TicketsAreOwn
  BY DEF Init, NewService, TicketsAreOwn

\* What is granted matches nothing there was: its ticket is the next one.
LEMMA AcquireOwn ==
  ASSUME ~NonMonotonicTickets, IInv, TicketsAreOwn,
         NEW r \in Resource, NEW a \in Holder, AcquireOk(r, a)
  PROVE  /\ TicketsAreOwn'
         /\ \A h \in svc.held, k \in svc'.held : Same(h, k) => k \in svc.held
<1> DEFINE e == Entry(NewHolding(svc, r, a), Lease)
           f == NewHolding(svc, r, a)
<1>0. svc \in Service /\ svc.next \in Nat /\ holdings \subseteq Holding
  BY DEF IInv, TypeOK, Service, Ticket
<1>1. svc'.held = Sweep(svc).held \cup {e} /\ Sweep(svc).held \subseteq svc.held
  BY <1>0, AcquiredHeld DEF AcquireOk
<1>2. holdings' = holdings \cup {f}
  BY DEF AcquireOk
<1>3. e.ticket = svc.next /\ f.ticket = svc.next /\ e.holder = f.holder
  BY DEF Entry, NewHolding, NewTicket
<1>4. /\ \A h \in svc.held : h.ticket < svc.next /\ h.ticket \in Nat
      /\ \A g \in holdings : g.ticket < svc.next /\ g.ticket \in Nat
  BY <1>0 DEF IInv, TicketsBelowNext, Service, HeldBy, Holding, Ticket
<1> HIDE DEF e, f
<1>5. /\ \A h \in svc.held : ~Same(h, e) /\ ~Same(e, h) /\ ~Same(h, f)
      /\ \A g \in holdings : ~Same(e, g)
  BY <1>0, <1>3, <1>4 DEF Same
<1>6. QED
  BY <1>1, <1>2, <1>3, <1>5 DEF TicketsAreOwn

LEMMA NextOwn ==
  ASSUME ~NonMonotonicTickets, IInv, TicketsAreOwn, [Next]_vars PROVE TicketsAreOwn'
<1>1. CASE Inherits(svc, svc') /\ holdings' = holdings
  <2>1. \A h, k \in svc'.held : Same(h, k) => h = k
    <3> SUFFICES ASSUME NEW h \in svc'.held, NEW k \in svc'.held, Same(h, k) PROVE h = k
      OBVIOUS
    <3>1. PICK h1 \in svc.held, k1 \in svc.held :
              From(h, h1) /\ From(k, k1) /\ (h1 = k1 => h = k)
      BY <1>1 DEF Inherits
    <3>2. QED
      BY <3>1 DEF From, Same, TicketsAreOwn
  <2>2. \A h \in svc'.held : \E k \in svc.held : From(h, k)
    BY <1>1 DEF Inherits
  <2>3. QED
    BY <1>1, <2>1, <2>2 DEF TicketsAreOwn, From, Same
<1>2. CASE UNCHANGED vars
  BY <1>2 DEF vars, TicketsAreOwn
<1>3. ASSUME NEW r \in Resource, NEW a \in Holder, AcquireOk(r, a) PROVE TicketsAreOwn'
  BY <1>3, AcquireOwn
<1>4. ASSUME Next, ~\E r \in Resource, a \in Holder : AcquireOk(r, a)
      PROVE  Inherits(svc, svc') /\ holdings' = holdings
  BY <1>4, StepInherits
     DEF IInv, Next, AcquireContended, Release, Keepalive, CommitOk, CommitRefused,
         ForceRelease, Observe, ForceExpire, Tick
<1>5. QED
  BY <1>1, <1>2, <1>3, <1>4

\* SwallowedRunsDown of one step, the clock aside.
GainsNothing ==
    \A h \in svc.held, k \in svc'.held :
        h.holder \in SwallowKeepalive /\ Same(h, k) /\ Live(k) =>
            Live(h) /\ k.ttl <= h.ttl

LEMMA StaysGainsNothing ==
  ASSUME IInv, TicketsAreOwn,
         \A h \in svc.held, k \in svc'.held : Same(h, k) => k \in svc.held
  PROVE  GainsNothing
<1>1. \A h \in svc.held : h.ttl \in Nat
  BY DEF IInv, TypeOK, Service, HeldBy
<1>2. QED
  BY <1>1 DEF TicketsAreOwn, GainsNothing

LEMMA KeepaliveGainsNothing ==
  ASSUME IInv, TicketsAreOwn, NEW g \in holdings, Keepalive(g) PROVE GainsNothing
<1>0. svc \in Service /\ svc.held \subseteq HeldBy /\ Sweep(svc).held \subseteq svc.held
      /\ \A k \in Sweep(svc).held : Live(k)
  BY DEF IInv, TypeOK, Sweep, Service
<1>1. CASE g.holder \in SwallowKeepalive
  BY <1>0, <1>1, StaysGainsNothing DEF Keepalive, Renewed
<1>2. CASE g.holder \notin SwallowKeepalive
  <2> SUFFICES ASSUME NEW h \in svc.held, NEW k \in svc'.held,
                      h.holder \in SwallowKeepalive, Same(h, k)
               PROVE  Live(h) /\ k.ttl <= h.ttl
    BY DEF GainsNothing
  <2>1. PICK j \in Sweep(svc).held : k = IF Same(j, g) THEN Entry(j, Lease) ELSE j
    BY <1>0, <1>2 DEF Keepalive, Renewed, Service
  <2>2. Same(h, j)
    BY <2>1 DEF Entry, Same
  <2>3. h = j
    BY <1>0, <2>2 DEF TicketsAreOwn
  <2>4. ~Same(j, g)
    BY <1>2, <2>3 DEF TicketsAreOwn
  <2>5. k = h /\ h.ttl \in Nat
    BY <1>0, <2>1, <2>3, <2>4 DEF HeldBy
  <2>6. QED
    BY <1>0, <2>3, <2>5
<1>3. QED
  BY <1>1, <1>2

LEMMA TickRunsDown ==
  ASSUME IInv, TicketsAreOwn, Tick
  PROVE  \A h \in svc.held, k \in svc'.held :
            Same(h, k) /\ Live(k) => Live(h) /\ k.ttl < h.ttl
<1> SUFFICES ASSUME NEW h \in svc.held, NEW k \in svc'.held, Same(h, k), Live(k)
             PROVE  Live(h) /\ k.ttl < h.ttl
  OBVIOUS
<1>0. svc \in Service /\ svc.held \subseteq HeldBy
  BY DEF IInv, TypeOK, Service
<1>1. PICK j \in svc.held : k = [j EXCEPT !.ttl = Remaining(j.ttl)]
  BY <1>0 DEF Tick, Elapsed, Service
<1>2. Same(h, j) /\ k.ttl = Remaining(j.ttl) /\ j.ttl \in Nat
  BY <1>0, <1>1 DEF Same, HeldBy
<1>3. h = j
  BY <1>2 DEF TicketsAreOwn
<1>4. QED
  BY <1>2, <1>3 DEF Remaining, Live

LEMMA NextGainsNothing ==
  ASSUME ~NonMonotonicTickets, IInv, TicketsAreOwn, Next PROVE GainsNothing
<1>0. svc \in Service /\ holdings \subseteq Holding
  BY DEF IInv, TypeOK
<1>1. ASSUME svc'.held \subseteq svc.held PROVE GainsNothing
  BY <1>1, StaysGainsNothing
<1>2. ASSUME NEW r \in Resource, NEW a \in Holder, AcquireOk(r, a) PROVE GainsNothing
  BY <1>2, AcquireOwn, StaysGainsNothing
<1>3. ASSUME NEW r \in Resource, AcquireContended(r) \/ ForceRelease(r) \/ ForceExpire(r)
      PROVE  svc'.held \subseteq svc.held
  BY <1>0, <1>3 DEF AcquireContended, ForceRelease, ForceExpire, Sweep, ForceReleased,
                    ForceExpired, Service
<1>4. ASSUME NEW g \in holdings, Release(g) PROVE svc'.held \subseteq svc.held
  BY <1>0, <1>4 DEF Release, Released, Sweep, Service
<1>5. ASSUME NEW g \in holdings, NEW v \in 0..MaxVersion,
             CommitOk(g, v) \/ CommitRefused(g, v)
      PROVE  svc'.held \subseteq svc.held
  BY <1>0, <1>5 DEF CommitOk, CommitRefused, Committed, Sweep, Service
<1>6. CASE Observe
  BY <1>0, <1>1, <1>6 DEF Observe, Sweep, Service
<1>7. CASE Tick
  <2>1. \A h \in svc.held, k \in svc'.held : h.ttl \in Nat /\ k.ttl \in Nat
    BY <1>0, <1>7, ElapsedType DEF Tick, Service, HeldBy
  <2>2. QED
    BY <1>7, <2>1, TickRunsDown DEF GainsNothing
<1>8. QED
  BY <1>1, <1>2, <1>3, <1>4, <1>5, <1>6, <1>7, KeepaliveGainsNothing DEF Next

\* A wedged holder (fake.rs, the swallow_keepalive fault): no call of its own
\* or another's, on any Holding and however late, gives a hold whose renewals
\* are swallowed more time, and every unit of time takes some.
THEOREM WedgedHoldsRunDown == ASSUME ~NonMonotonicTickets PROVE Spec => SwallowedRunsDown
<1>1. IInv /\ TicketsAreOwn /\ [Next]_vars => IInv' /\ TicketsAreOwn'
  BY NextIInv, NextOwn
<1>2. ASSUME IInv, TicketsAreOwn, Next
      PROVE  \A h \in svc.held, k \in svc'.held :
                h.holder \in SwallowKeepalive /\ Same(h, k) /\ Live(k) =>
                    /\ Live(h)
                    /\ k.ttl <= h.ttl
                    /\ Tick => k.ttl < h.ttl
  BY <1>2, NextGainsNothing, TickRunsDown DEF GainsNothing
<1>3. IInv /\ TicketsAreOwn /\ [Next]_vars =>
        [\A h \in svc.held, k \in svc'.held :
            h.holder \in SwallowKeepalive /\ Same(h, k) /\ Live(k) =>
                /\ Live(h)
                /\ k.ttl <= h.ttl
                /\ Tick => k.ttl < h.ttl]_vars
  BY <1>2
<1>4. QED
  BY <1>1, <1>3, InitIInv, InitOwn, PTL DEF Spec, SwallowedRunsDown

\* Swallowed renewals are all that makes a lease lapse under a holder that checks
\* in before every unit of time: on a service that swallows none it never does,
\* if a lease is longer than that unit.
THEOREM HealthyHoldersKeepTheLock ==
  ASSUME SwallowKeepalive = {}, Lease > 1 PROVE Spec => CheckingInKeepsTheLock
<1>1. ASSUME TypeOK, NEW g \in holdings, Tick, HasLive(g), Renewed(svc, g) = svc
      PROVE  HasLive(g)'
  <2>1. PICK h \in svc.held : Same(h, g) /\ Live(h)
    BY <1>1 DEF HasLive
  <2>2. svc \in Service /\ h \in Sweep(svc).held
    BY <1>1, <2>1 DEF TypeOK, Service, Sweep
  <2> DEFINE k == Entry(h, Lease)
             e == [k EXCEPT !.ttl = Remaining(k.ttl)]
  <2>3. k \in svc.held
    BY <1>1, <2>1, <2>2 DEF Renewed, Service
  <2>4. e \in svc'.held
    BY <1>1, <2>2, <2>3 DEF Tick, Elapsed, Service
  <2>5. Same(e, g) /\ Live(e)
    BY <2>1, LeaseAssumption DEF Entry, Same, Live, Remaining
  <2>6. QED
    BY <2>4, <2>5 DEF HasLive
<1>2. TypeOK /\ [Next]_vars =>
        [\A g \in holdings :
            Tick /\ HasLive(g) /\ Renewed(svc, g) = svc => HasLive(g)']_vars
  BY <1>1
<1>3. QED
  BY <1>2, TypeCorrect, PTL DEF Spec, CheckingInKeepsTheLock

-----------------------------------------------------------------------------
(* The service implements the fenced lock *)

LEMMA InheritsLose ==
  ASSUME Inherits(svc, svc')
  PROVE  \A r \in Resource : LiveTickets(r)' \subseteq LiveTickets(r)
  BY DEF Inherits, From, LiveTickets, HeldOn, Live

LEMMA LoseStep ==
  ASSUME Inherits(svc, svc'), svc'.last = svc.last, svc'.version = svc.version,
         barrier' = barrier, lastCommit' = lastCommit
  PROVE  Fenced!Lose
<1>1. \A r \in Resource : LiveTickets(r)' \subseteq LiveTickets(r)
  BY InheritsLose
<1>2. QED
  BY <1>1 DEF Fenced!Lose

LEMMA GrantStep ==
  ASSUME ~NonMonotonicTickets, Lease > 0, IInv,
         NEW r \in Resource, NEW a \in Holder, AcquireOk(r, a)
  PROVE  Fenced!Next
<1> DEFINE e == Entry(NewHolding(svc, r, a), Lease)
<1>0. /\ svc \in Service /\ svc.next \in Nat /\ svc.last \in Nat /\ svc.last < svc.next
      /\ barrier \in [Resource -> Nat] /\ barrier[r] <= svc.next
  BY DEF IInv, TypeOK, Service, Ticket, TicketsBelowNext, HeldAboveBarrier
<1>1. svc'.held = {h \in svc.held : Live(h)} \cup {e}
  BY <1>0 DEF AcquireOk, Acquired, Sweep, Service
<1>2. svc'.last = svc.next /\ svc'.version = svc.version
  BY <1>0 DEF AcquireOk, Acquired, NewTicket, Service
<1>3. e.resource = r /\ e.ticket = svc.next /\ e.ttl = Lease
  BY DEF Entry, NewHolding, NewTicket
<1>4. LiveTickets(r) = {} \/ r \in GrantTwice
  BY <1>0 DEF AcquireOk, CanAcquire, HeldOn, LiveTickets, Sweep, Service
<1>5. UNCHANGED <<barrier, lastCommit>>
  BY DEF AcquireOk
<1>6. Live(e)
  BY <1>3 DEF Live
<1> HIDE DEF e
<1>7. /\ LiveTickets(r)' = LiveTickets(r) \cup {svc'.last}
      /\ \A q \in Resource \ {r} : LiveTickets(q)' = LiveTickets(q)
  BY <1>1, <1>2, <1>3, <1>6 DEF LiveTickets, HeldOn
<1>8. Fenced!Grant(r)
  BY <1>0, <1>2, <1>4, <1>5, <1>7 DEF Fenced!Grant
<1>9. QED
  BY <1>8 DEF Fenced!Next

LEMMA RevokeStep ==
  ASSUME IInv, NEW r \in Resource, ForceRelease(r) PROVE Fenced!Next
<1>0. /\ svc \in Service /\ svc.next \in Nat /\ svc.last \in Nat /\ svc.last < svc.next
      /\ barrier \in [Resource -> Nat]
  BY DEF IInv, TypeOK, Service, Ticket, TicketsBelowNext
<1>1. svc'.held = {h \in svc.held : Live(h) /\ h.resource # r}
  BY <1>0 DEF ForceRelease, ForceReleased, Sweep, Service
<1>2. svc'.last = svc.last /\ svc'.version = svc.version /\ lastCommit' = lastCommit
  BY <1>0 DEF ForceRelease, ForceReleased, Service
<1>3. barrier' = [barrier EXCEPT ![r] = svc.next + 1]
  BY DEF ForceRelease, Barrier
<1>4. /\ LiveTickets(r)' = {}
      /\ \A q \in Resource \ {r} : LiveTickets(q)' = LiveTickets(q)
  BY <1>1 DEF LiveTickets, HeldOn
<1>5. barrier'[r] = svc.next + 1 /\ barrier'[r] > svc.last
  BY <1>0, <1>3
<1>6. barrier' = [barrier EXCEPT ![r] = barrier'[r]]
  BY <1>3, <1>5
<1>7. [q \in Resource |-> LiveTickets(q)]'
        = [[q \in Resource |-> LiveTickets(q)] EXCEPT ![r] = {}]
  BY <1>4
<1>8. Fenced!Revoke(r)
  BY <1>2, <1>5, <1>6, <1>7 DEF Fenced!Revoke
<1>9. QED
  BY <1>8 DEF Fenced!Next

LEMMA CommitFenced ==
  ASSUME IInv, NEW g \in holdings, NEW v \in 0..MaxVersion, CommitOk(g, v)
  PROVE  Fenced!Next
<1>0. svc \in Service /\ g \in Holding /\ TypeOK /\ g.resource \in Resource
  BY DEF IInv, TypeOK, Holding
<1>1. /\ svc'.held = {h \in svc.held : Live(h)} /\ svc'.last = svc.last
      /\ svc'.version = [svc.version EXCEPT ![g.resource] = svc.version[g.resource] + 1]
  BY <1>0 DEF CommitOk, Committed, Sweep, Service
<1>2. lastCommit' = [lastCommit EXCEPT ![g.resource] = g.ticket] /\ barrier' = barrier
  BY DEF CommitOk
<1>3. \A q \in Resource : LiveTickets(q)' = LiveTickets(q)
  BY <1>1 DEF LiveTickets, HeldOn
<1>4. /\ g.ticket \in LiveTickets(g.resource)
      /\ \A u \in LiveTickets(g.resource) : u <= g.ticket
  BY <1>0, CommitByHolder DEF CommitOk, LiveTickets, HeldOn, Same
<1>5. Fenced!Commit(g.resource)
  BY <1>0, <1>1, <1>2, <1>3, <1>4 DEF Fenced!Commit
<1>6. QED
  BY <1>0, <1>5 DEF Fenced!Next

LEMMA InitFenced == Init => Fenced!Init
  BY DEF Init, NewService, Fenced!Init, LiveTickets, HeldOn

LEMMA NextFenced ==
  ASSUME ~NonMonotonicTickets, Lease > 0
  PROVE  IInv /\ [Next]_vars => [Fenced!Next]_(Fenced!vars)
<1> SUFFICES ASSUME IInv, [Next]_vars PROVE [Fenced!Next]_(Fenced!vars)
  OBVIOUS
<1>0. svc \in Service /\ holdings \subseteq Holding
  BY DEF IInv, TypeOK
<1>1. ASSUME NEW r \in Resource, NEW a \in Holder, AcquireOk(r, a) PROVE Fenced!Next
  BY <1>1, GrantStep
<1>2. ASSUME NEW r \in Resource, AcquireContended(r) PROVE Fenced!Next
  <2>1. svc'.last = svc.last /\ svc'.version = svc.version
    BY <1>0, <1>2 DEF AcquireContended, Sweep, Service
  <2>2. QED
    BY <1>0, <1>2, <2>1, SweepInherits, LoseStep DEF AcquireContended, Fenced!Next
<1>3. ASSUME NEW r \in Resource, ForceRelease(r) PROVE Fenced!Next
  BY <1>3, RevokeStep
<1>4. ASSUME NEW r \in Resource, ForceExpire(r) PROVE Fenced!Next
  <2>1. svc'.last = svc.last /\ svc'.version = svc.version
    BY <1>0, <1>4 DEF ForceExpire, ForceExpired, Service
  <2>2. QED
    BY <1>0, <1>4, <2>1, ForceExpiredInherits, LoseStep DEF ForceExpire, Fenced!Next
<1>5. ASSUME NEW g \in holdings, Release(g) PROVE Fenced!Next
  <2>1. svc'.last = svc.last /\ svc'.version = svc.version
    BY <1>0, <1>5 DEF Release, Released, Sweep, Service
  <2>2. QED
    BY <1>0, <1>5, <2>1, ReleasedInherits, LoseStep DEF Release, Fenced!Next
<1>6. ASSUME NEW g \in holdings, Keepalive(g) PROVE Fenced!Next
  <2>1. svc'.last = svc.last /\ svc'.version = svc.version
    BY <1>0, <1>6 DEF Keepalive, Renewed, Sweep, Service
  <2>2. QED
    BY <1>0, <1>6, <2>1, RenewedInherits, LoseStep DEF Keepalive, Fenced!Next
<1>7. ASSUME NEW g \in holdings, NEW v \in 0..MaxVersion, CommitOk(g, v)
      PROVE  Fenced!Next
  BY <1>7, CommitFenced
<1>8. ASSUME NEW g \in holdings, NEW v \in 0..MaxVersion, CommitRefused(g, v)
      PROVE  Fenced!Next
  <2>1. svc'.last = svc.last /\ svc'.version = svc.version
    BY <1>0, <1>8 DEF CommitRefused, Sweep, Service
  <2>2. QED
    BY <1>0, <1>8, <2>1, SweepInherits, LoseStep DEF CommitRefused, Fenced!Next
<1>9. CASE Observe
  <2>1. svc'.last = svc.last /\ svc'.version = svc.version
    BY <1>0, <1>9 DEF Observe, Sweep, Service
  <2>2. QED
    BY <1>0, <1>9, <2>1, SweepInherits, LoseStep DEF Observe, Fenced!Next
<1>10. CASE Tick
  <2>1. svc'.last = svc.last /\ svc'.version = svc.version
    BY <1>0, <1>10 DEF Tick, Elapsed, Service
  <2>2. QED
    BY <1>0, <1>10, <2>1, ElapsedInherits, LoseStep DEF Tick, Fenced!Next
<1>11. CASE UNCHANGED vars
  BY <1>11 DEF vars, Fenced!vars, LiveTickets, HeldOn
<1>12. QED
  BY <1>1, <1>2, <1>3, <1>4, <1>5, <1>6, <1>7, <1>8, <1>9, <1>10, <1>11 DEF Next

\* With tickets that do not repeat and a lease that is not zero (a grant under
\* a zero lease is over before anybody can use it), the service implements the
\* fenced lock: leases, lazy sweeps and the other faults show only as losses.
THEOREM ServiceImplementsFencedLock ==
  ASSUME ~NonMonotonicTickets, Lease > 0 PROVE Spec => ImplementsFencedLock
<1>1. IInv /\ [Next]_vars => [Fenced!Next]_(Fenced!vars)
  BY NextFenced
<1>2. QED
  BY <1>1, InitFenced, FencingInvariant, PTL DEF Spec, ImplementsFencedLock, Fenced!Spec

=============================================================================
