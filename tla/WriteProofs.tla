----------------------------- MODULE WriteProofs -----------------------------
(***************************************************************************)
(* What callers of write get from the lock, for any number of agents, any  *)
(* lease and ceiling, and the faults each theorem allows. The lemmas about *)
(* what is held are for both ways to drive the phases; the theorems for    *)
(* callers of write (Split FALSE).                                         *)
(***************************************************************************)
EXTENDS HoldBoundProofs

-----------------------------------------------------------------------------
(* What a step may do to the service's entries *)

\* No entry is granted: every one continues an entry, and tickets may be burnt.
Continues ==
    /\ Inherits(svc, svc')
    /\ svc'.next >= svc.next

\* The lock is granted to a, and every entry continues one of the service that
\* leaves.
Grants(a) ==
    /\ CanAcquire(svc, File)
    /\ Acquired(svc, File, a) \in Service
    /\ Inherits(Acquired(svc, File, a), svc')
    /\ svc'.next = Acquired(svc, File, a).next

LEMMA SweepContinues ==
  ASSUME TypeOK, svc' = Sweep(svc) PROVE Continues
<1>1. svc \in Service /\ svc.next \in Nat
  BY Numbers
<1>2. QED
  BY <1>1, SweepInherits DEF Continues, Sweep, Service

LEMMA ReadService ==
  ASSUME TypeOK, NEW a \in Holder, Read(a)
  PROVE  \/ Continues /\ open' = open
         \/ Grants(a) /\ open' = Opened(a)
<1>1. CASE svc' = Sweep(svc) /\ open' = open
  BY <1>1, SweepContinues
<1>2. CASE CanAcquire(svc, File) /\ svc' = Sweep(Acquired(svc, File, a)) /\ open' = Opened(a)
  <2>1. Acquired(svc, File, a) \in Service
    BY Numbers, AcquiredType
  <2>2. QED
    BY <1>2, <2>1, SweepInherits DEF Grants, Sweep, Service
<1>3. QED
  BY <1>1, <1>2 DEF Read, ReadWriteOnly, ReadFull, ReadContended, ReadFails

\* The service that a write holds the lock in.
LEMMA LockedService ==
  ASSUME TypeOK, NEW a \in Holder, NEW k \in Locked(a),
         Inherits(k.svc, svc'), svc'.next = k.svc.next
  PROVE  \/ /\ Span = "Full" /\ Continues
            /\ open[a] # None /\ k.ticket = open[a].ticket /\ k.svc = svc
         \/ /\ Span # "Full" /\ Grants(a)
            /\ k.ticket = NewTicket(svc) /\ k.svc = Acquired(svc, File, a)
<1>0. svc \in Service /\ svc.next \in Nat /\ k.svc \in Service
  BY Numbers, LockedType
<1>1. CASE Span = "Full"
  BY <1>0, <1>1 DEF Locked, Continues
<1>2. CASE Span # "Full"
  BY <1>0, <1>2 DEF Locked, Grants
<1>3. QED
  BY <1>1, <1>2

LEMMA OtherService ==
  ASSUME TypeOK,
         \/ \E a \in Holder : \/ Progress(a) \/ Abandon(a) \/ AuthorizeContended(a)
                              \/ Apply(a) \/ DropAuthorized(a)
         \/ ForceRelease \/ ForceExpire \/ Tick
  PROVE  Continues
<1>0. svc \in Service /\ svc.next \in Nat /\ File \in Resource
  BY Numbers
<1>1. ASSUME NEW a \in Holder, Progress(a) PROVE Continues
  <2>1. HoldingOf(a, open[a].ticket) \in Holding
    BY <1>1, Fields, HoldingOfType DEF Progress
  <2>2. QED
    BY <1>0, <1>1, <2>1, RenewedInherits, SameCounters DEF Progress, Continues
<1>2. ASSUME NEW a \in Holder, Abandon(a) PROVE Continues
  <2>1. HoldingOf(a, open[a].ticket) \in Holding
    BY <1>2, Fields, HoldingOfType DEF Abandon
  <2>2. QED
    BY <1>0, <1>2, <2>1, ReleasedInherits, SameCounters DEF Abandon, Continues
<1>3. ASSUME NEW a \in Holder, AuthorizeContended(a) PROVE Continues
  BY <1>3, SweepContinues DEF AuthorizeContended
<1>4. ASSUME NEW a \in Holder, Apply(a) PROVE Continues
  <2>1. pend[a] # None
    BY <1>4 DEF Apply, ApplyOk, ApplySuperseded, ApplyFails
  <2>2. HoldingOf(a, pend[a].ticket) \in Holding
    BY <2>1, Fields, HoldingOfType
  <2>3. CASE svc' = Released(svc, HoldingOf(a, pend[a].ticket))
    BY <1>0, <2>2, <2>3, ReleasedInherits, SameCounters DEF Continues
  <2>4. CASE svc' = Sweep(svc)
    BY <2>4, SweepContinues
  <2>5. QED
    BY <1>4, <2>3, <2>4 DEF Apply, ApplyOk, ApplySuperseded, ApplyFails, Finish
<1>5. ASSUME NEW a \in Holder, DropAuthorized(a) PROVE Continues
  BY <1>0, <1>5, SubsetInherits DEF DropAuthorized, Continues
<1>6. CASE ForceRelease
  <2>1. svc'.next = svc.next + 1
    BY <1>0, <1>6 DEF ForceRelease, ForceReleased, Service
  <2>2. Inherits(svc, svc')
    BY <1>0, <1>6, ForceReleasedInherits DEF ForceRelease
  <2>3. QED
    BY <1>0, <2>1, <2>2 DEF Continues
<1>7. CASE ForceExpire
  <2>1. svc'.next = svc.next
    BY <1>0, <1>7 DEF ForceExpire, ForceExpired, Service
  <2>2. Inherits(svc, svc')
    BY <1>0, <1>7, ForceExpiredInherits DEF ForceExpire
  <2>3. QED
    BY <1>0, <2>1, <2>2 DEF Continues
<1>8. CASE Tick
  <2>1. svc' = Elapsed(svc) /\ svc'.next = svc.next
    BY <1>0, <1>8 DEF Tick, Elapsed, Service
  <2>2. QED
    BY <1>0, <2>1, ElapsedInherits DEF Continues
<1>9. QED
  BY <1>1, <1>2, <1>3, <1>4, <1>5, <1>6, <1>7, <1>8

LEMMA AuthorizeOkService ==
  ASSUME TypeOK, NEW a \in Holder, AuthorizeOk(a)
  PROVE  \E k \in Locked(a) :
           /\ CanCommit(k.svc, HoldingOf(a, k.ticket), snap[a].version)
           /\ svc' = Committed(k.svc, HoldingOf(a, k.ticket))
           /\ pend' = [pend EXCEPT ![a] = [ticket |-> k.ticket,
                                           content |-> Edit(a),
                                           newVersion |-> FileVersion + 1]]
           /\ Inherits(k.svc, svc') /\ svc'.next = k.svc.next
<1>1. PICK k \in Locked(a) :
        /\ CanCommit(k.svc, HoldingOf(a, k.ticket), snap[a].version)
        /\ svc' = Committed(k.svc, HoldingOf(a, k.ticket))
        /\ pend' = [pend EXCEPT ![a] = [ticket |-> k.ticket,
                                        content |-> Edit(a),
                                        newVersion |-> FileVersion + 1]]
  BY DEF AuthorizeOk
<1>2. Inherits(k.svc, svc') /\ svc'.next = k.svc.next
  BY <1>1, LockedType, CommittedInherits, CommittedFewer
<1>3. QED
  BY <1>1, <1>2

LEMMA AuthorizeRefusedService ==
  ASSUME TypeOK, NEW a \in Holder, AuthorizeRefused(a)
  PROVE  \E k \in Locked(a) :
           /\ svc' = AfterRefusal(k.svc, a, k.ticket)
           /\ Inherits(k.svc, svc') /\ svc'.next = k.svc.next
<1>1. PICK k \in Locked(a) : svc' = AfterRefusal(k.svc, a, k.ticket)
  BY DEF AuthorizeRefused
<1>2. Inherits(k.svc, svc') /\ svc'.next = k.svc.next
  BY <1>1, LockedType, SweepInherits, ReleasedInherits, SweepFewer, ReleasedFewer
     DEF AfterRefusal
<1>3. QED
  BY <1>1, <1>2

LEMMA PrepareFailsService ==
  ASSUME TypeOK, NEW a \in Holder, PrepareFails(a)
  PROVE  \E k \in Locked(a) :
           svc' = k.svc /\ Inherits(k.svc, svc') /\ svc'.next = k.svc.next
  BY LockedType, SubsetInherits DEF PrepareFails

-----------------------------------------------------------------------------
(* Revocation *)

\* Whatever is held was granted after the last revocation.
HeldAboveBarrier == barrier <= svc.next /\ \A h \in svc.held : h.ticket >= barrier

HeldInv == TypeOK /\ HeldOnFile /\ HeldAboveBarrier

\* A step authorizes writes on such tickets only; others go, or stay.
AuthorizedAbove ==
    \A a \in Holder : pend'[a] \in {pend[a], None} \/ pend'[a].ticket >= barrier'

LEMMA InitHeldInv == Init => HeldInv
  BY InitTypeOK DEF Init, HeldInv, HeldOnFile, HeldAboveBarrier, NewService

LEMMA HeldNumbers ==
  ASSUME HeldInv
  PROVE  /\ TypeOK /\ svc \in Service /\ svc.next \in Nat /\ barrier \in Nat
         /\ \A h \in svc.held : h.ticket \in Nat
         /\ pend \in [Holder -> Authorized \cup {None}]
         /\ \A a \in Holder : pend[a] # None => pend[a].ticket \in Nat
  BY Numbers, Fields DEF HeldInv, TypeOK, Ticket

LEMMA ContinuesHeldInv ==
  ASSUME HeldInv, TypeOK', Continues, barrier' = barrier PROVE HeldInv'
<1>1. HeldOnFile' /\ \A h \in svc'.held : h.ticket >= barrier
  BY DEF HeldInv, HeldOnFile, HeldAboveBarrier, Continues, Inherits, From
<1>2. barrier' <= svc'.next
  BY HeldNumbers DEF HeldInv, HeldAboveBarrier, Continues, TypeOK, Service, Ticket
<1>3. QED
  BY <1>1, <1>2 DEF HeldInv, HeldAboveBarrier

\* What acquire adds is on the file, with the next ticket.
LEMMA GrantHeld ==
  ASSUME ~NonMonotonicTickets, TypeOK, NEW a \in Holder
  PROVE  /\ \A h \in Acquired(svc, File, a).held :
               \/ h \in svc.held /\ Live(h)
               \/ h.ticket = svc.next /\ h.resource = File /\ h.holder = a
         /\ Acquired(svc, File, a).next = svc.next + 1
         /\ NewTicket(svc) = svc.next
<1>0. svc \in Service
  BY Numbers
<1>1. QED
  BY <1>0, Numbers, AcquiredHeld
     DEF Acquired, Entry, NewHolding, NewTicket, Service

LEMMA GrantsHeldInv ==
  ASSUME ~NonMonotonicTickets, HeldInv, TypeOK', NEW a \in Holder, Grants(a), barrier' = barrier
  PROVE  HeldInv'
<1>1. \A h \in Acquired(svc, File, a).held : h.resource = File /\ h.ticket >= barrier
  BY GrantHeld, HeldNumbers DEF HeldInv, HeldOnFile, HeldAboveBarrier
<1>2. HeldOnFile' /\ \A h \in svc'.held : h.ticket >= barrier
  BY <1>1 DEF HeldOnFile, Grants, Inherits, From
<1>3. barrier' <= svc'.next
  BY GrantHeld, HeldNumbers DEF HeldInv, HeldAboveBarrier, Grants
<1>4. QED
  BY <1>2, <1>3 DEF HeldInv, HeldAboveBarrier

LEMMA LockedHeldInv ==
  ASSUME ~NonMonotonicTickets, HeldInv, TypeOK', NEW a \in Holder, NEW k \in Locked(a),
         Inherits(k.svc, svc'), svc'.next = k.svc.next, barrier' = barrier
  PROVE  HeldInv'
  BY LockedService, ContinuesHeldInv, GrantsHeldInv DEF HeldInv

LEMMA ReadHeldInv ==
  ASSUME ~NonMonotonicTickets, HeldInv, TypeOK', NEW a \in Holder, Read(a)
  PROVE  HeldInv' /\ UNCHANGED <<pend, accepted, barrier>>
<1>1. UNCHANGED <<pend, accepted, barrier>>
  BY DEF Read, ReadWriteOnly, ReadFull, ReadContended, ReadFails
<1>2. QED
  BY <1>1, ReadService, ContinuesHeldInv, GrantsHeldInv DEF HeldInv

\* An authorized write carries a ticket that was held when it was authorized.
LEMMA AuthorizeOkHeldInv ==
  ASSUME ~NonMonotonicTickets, HeldInv, TypeOK', NEW a \in Holder, AuthorizeOk(a)
  PROVE  HeldInv' /\ AuthorizedAbove /\ UNCHANGED <<accepted, barrier>>
<1>0. TypeOK /\ UNCHANGED <<accepted, barrier>>
  BY DEF HeldInv, AuthorizeOk
<1>1. PICK k \in Locked(a) :
        /\ CanCommit(k.svc, HoldingOf(a, k.ticket), snap[a].version)
        /\ svc' = Committed(k.svc, HoldingOf(a, k.ticket))
        /\ pend' = [pend EXCEPT ![a] = [ticket |-> k.ticket,
                                        content |-> Edit(a),
                                        newVersion |-> FileVersion + 1]]
        /\ Inherits(k.svc, svc') /\ svc'.next = k.svc.next
  BY <1>0, AuthorizeOkService
<1>2. HeldInv'
  BY <1>0, <1>1, LockedHeldInv
<1>3. k.ticket >= barrier
  <2>1. \A h \in k.svc.held : h.ticket >= barrier
    BY <1>0, <1>1, LockedService, GrantHeld, HeldNumbers DEF HeldInv, HeldAboveBarrier
  <2>2. \E h \in k.svc.held : h.ticket = k.ticket
    BY <1>0, <1>1, LockedType DEF CanCommit, Holds, Same, HoldingOf, Sweep, Service
  <2>3. QED
    BY <2>1, <2>2
<1>4. AuthorizedAbove
  BY <1>0, <1>1, <1>3, HeldNumbers DEF AuthorizedAbove
<1>5. QED
  BY <1>0, <1>2, <1>4

LEMMA AuthorizeHeldInv ==
  ASSUME ~NonMonotonicTickets, HeldInv, TypeOK', NEW a \in Holder, Authorize(a)
  PROVE  HeldInv' /\ AuthorizedAbove /\ UNCHANGED <<accepted, barrier>>
<1>0. TypeOK
  BY DEF HeldInv
<1>1. CASE AuthorizeContended(a)
  BY <1>0, <1>1, OtherService, ContinuesHeldInv DEF AuthorizeContended, AuthorizedAbove
<1>2. CASE AuthorizeOk(a)
  BY <1>2, AuthorizeOkHeldInv
<1>3. CASE AuthorizeRefused(a)
  BY <1>0, <1>3, AuthorizeRefusedService, LockedHeldInv DEF AuthorizeRefused, AuthorizedAbove
<1>4. CASE PrepareFails(a)
  BY <1>0, <1>4, PrepareFailsService, LockedHeldInv DEF PrepareFails, AuthorizedAbove
<1>5. QED
  BY <1>1, <1>2, <1>3, <1>4 DEF Authorize

\* The revocation leaves nothing held, and a higher barrier.
LEMMA ForceReleaseHeldInv ==
  ASSUME HeldInv, TypeOK', ForceRelease
  PROVE  HeldInv' /\ barrier' > barrier /\ UNCHANGED <<pend, accepted>>
<1>0. svc \in Service /\ svc.next \in Nat
  BY HeldNumbers
<1>1. svc'.held = {} /\ svc'.next = svc.next + 1
  <2>1. \A h \in Sweep(svc).held : h.resource = File
    BY <1>0, SweepFewer DEF HeldInv, HeldOnFile
  <2>2. QED
    BY <1>0, <2>1 DEF ForceRelease, ForceReleased, Service
<1>2. barrier' = svc.next + 1 /\ UNCHANGED <<pend, accepted>>
  BY DEF ForceRelease, Barrier
<1>3. QED
  BY <1>0, <1>1, <1>2, HeldNumbers DEF HeldInv, HeldOnFile, HeldAboveBarrier

LEMMA NextHeldInv ==
  ASSUME ~NonMonotonicTickets, HeldInv, [Next]_vars
  PROVE  /\ HeldInv' /\ AuthorizedAbove
         /\ barrier' = barrier \/ (ForceRelease /\ barrier' > barrier)
         /\ accepted' = accepted \/ \E a \in Holder : ApplyOk(a)
<1>0. TypeOK /\ TypeOK'
  BY NextTypeOK DEF HeldInv
<1>1. ASSUME NEW a \in Holder, Progress(a) \/ Abandon(a) \/ DropAuthorized(a) \/ Apply(a)
      PROVE  HeldInv' /\ AuthorizedAbove /\ barrier' = barrier
             /\ (accepted' = accepted \/ ApplyOk(a))
  <2>1. /\ barrier' = barrier /\ (accepted' = accepted \/ ApplyOk(a))
        /\ pend' = pend \/ pend' = [pend EXCEPT ![a] = None]
    BY <1>1
       DEF Progress, Abandon, DropAuthorized, Apply, ApplyOk, ApplySuperseded, ApplyFails, Finish
  <2>2. AuthorizedAbove
    BY <2>1, HeldNumbers DEF AuthorizedAbove
  <2>3. QED
    BY <1>0, <1>1, <2>1, <2>2, OtherService, ContinuesHeldInv
<1>2. CASE ForceExpire \/ Tick
  BY <1>0, <1>2, OtherService, ContinuesHeldInv DEF ForceExpire, Tick, AuthorizedAbove
<1>3. CASE UNCHANGED vars
  BY <1>0, <1>3 DEF vars, HeldInv, HeldOnFile, HeldAboveBarrier, AuthorizedAbove
<1>4. QED
  BY <1>0, <1>1, <1>2, <1>3, ReadHeldInv, AuthorizeHeldInv, ForceReleaseHeldInv
     DEF Next, AuthorizedAbove

\* Through write, whatever waits to be applied was granted after it, too.
BInv == HeldInv /\ \A a \in Holder : pend[a] # None => pend[a].ticket >= barrier

LEMMA InitBInv == Init => BInv
  BY InitHeldInv DEF Init, BInv

LEMMA NextBInv ==
  ASSUME ~Split, ~NonMonotonicTickets
  PROVE  BInv /\ [Next]_vars => BInv' /\ (accepted' # accepted => accepted'.ticket >= barrier)
<1> SUFFICES ASSUME BInv, [Next]_vars
             PROVE  BInv' /\ (accepted' # accepted => accepted'.ticket >= barrier)
  OBVIOUS
<1>1. /\ HeldInv' /\ AuthorizedAbove
      /\ barrier' = barrier \/ (ForceRelease /\ barrier' > barrier)
      /\ accepted' = accepted \/ \E a \in Holder : ApplyOk(a)
  BY NextHeldInv DEF BInv
<1>2. CASE barrier' = barrier
  BY <1>1, <1>2 DEF BInv, AuthorizedAbove, ApplyOk
<1>3. CASE ForceRelease
  <2>1. pend' = pend /\ accepted' = accepted /\ \A a \in Holder : pend[a] = None
    BY <1>3, IdleQuiet DEF ForceRelease
  <2>2. QED
    BY <1>1, <2>1 DEF BInv
<1>4. QED
  BY <1>1, <1>2, <1>3

\* P8 (checker.rs, p8; fake.rs, force_release) for callers of write: no write is
\* accepted after a revocation on a ticket issued before it, under every fault
\* but a ticket source that repeats itself.
THEOREM RevokedWritesNeverLand ==
  ASSUME ~Split, ~NonMonotonicTickets PROVE Spec => RevokedNeverLands
<1>1. BInv /\ [Next]_vars
        => BInv' /\ [accepted' # accepted => accepted'.ticket >= barrier]_vars
  BY NextBInv
<1>2. QED
  BY <1>1, InitBInv, PTL DEF Spec, RevokedNeverLands

-----------------------------------------------------------------------------
(* The sequence of versions *)

\* The file is at the version readers see.
FileInStep == file.ver = RegVersion

LEMMA NextInStep ==
  ASSUME ~Split, "DuringRename" \notin IoFaults
  PROVE  RInv /\ FileInStep /\ [Next]_vars
           => RInv' /\ FileInStep' /\ (file' # file => file'.ver = file.ver + 1)
<1> SUFFICES ASSUME RInv, FileInStep, [Next]_vars
             PROVE  FileInStep' /\ (file' # file => file'.ver = file.ver + 1)
  BY NextRInv
<1>0. TypeOK
  BY DEF RInv, WInv
<1>1. CASE Quiescent
  BY <1>1, QuiescentRegVersion DEF Quiescent, FileInStep
<1>2. ASSUME NEW a \in Holder, AuthorizeOk(a) PROVE FileInStep' /\ file' = file
  BY <1>2, AuthorizeOkRInv DEF AuthorizeOk, FileInStep
<1>3. ASSUME NEW a \in Holder, Apply(a) PROVE FileInStep' /\ file'.ver = file.ver + 1
  BY <1>3, ApplyRInv DEF FileInStep
<1>4. CASE UNCHANGED vars
  BY <1>4, StutterRInv DEF vars, FileInStep
<1>5. QED
  BY <1>0, <1>1, <1>2, <1>3, <1>4, ReadQuiescent, AuthorizeQuiescent, OtherQuiescent
     DEF Next, Authorize, DropAuthorized

\* R6 (harness.rs, write): no version is skipped and none is written twice, as
\* long as renames do not fail, whatever the lock service does.
THEOREM NoVersionSkipped ==
  ASSUME ~Split, "DuringRename" \notin IoFaults PROVE Spec => PublishedInSequence
<1>1. RInv /\ FileInStep /\ [Next]_vars
        => RInv' /\ FileInStep' /\ [file' # file => file'.ver = file.ver + 1]_vars
  BY NextInStep
<1>2. Init => FileInStep
  <2> SUFFICES ASSUME Init PROVE FileInStep
    OBVIOUS
  <2>1. FileVersion = 0 /\ \A a \in Holder : pend[a] = None
    BY HarnessAssumption DEF Init, FileVersion, NewService
  <2>2. QED
    BY <2>1, QuietRegVersion DEF Init, Initial, FileInStep
<1>3. QED
  BY <1>1, <1>2, InitRInv, PTL DEF Spec, PublishedInSequence

=============================================================================
