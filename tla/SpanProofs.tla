----------------------------- MODULE SpanProofs ------------------------------
(***************************************************************************)
(* What becomes of the lock around a write, on a file that is not granted  *)
(* twice, for any number of agents, any lease and ceiling, and the ways of *)
(* driving the harness and the I/O faults each theorem allows.             *)
(***************************************************************************)
EXTENDS WriteProofs

Exclusive == File \notin GrantTwice

\* Under Full the hold a write uses is the one read kept; under WriteOnly read
\* keeps none.
KeptIsUsed ==
    \A a \in Holder :
        /\ Span # "Full" => open[a] = None
        /\ Span = "Full" /\ pend[a] # None =>
              open[a] # None /\ open[a].ticket = pend[a].ticket

\* The same holds are kept, for longer or shorter.
SameKept ==
    \A a \in Holder :
        /\ open'[a] # None <=> open[a] # None
        /\ open[a] # None => open'[a].ticket = open[a].ticket

LEMMA ContinuesHeldOnFile ==
  ASSUME HeldOnFile, Continues PROVE HeldOnFile'
  BY DEF HeldOnFile, Continues, Inherits, From

\* On an exclusive file the lock is granted when nothing is held, and what is
\* held then is that grant.
LEMMA GrantIsAlone ==
  ASSUME Exclusive, TypeOK, HeldOnFile, NEW a \in Holder, CanAcquire(svc, File)
  PROVE  \A h \in Acquired(svc, File, a).held :
            h.resource = File /\ h.holder = a /\ h.ticket = NewTicket(svc)
<1>0. svc \in Service /\ File \in Resource
  BY Numbers
<1>1. Sweep(svc).held = {}
  BY <1>0, SweepFewer DEF Exclusive, CanAcquire, HeldOn, HeldOnFile
<1>2. Acquired(svc, File, a).held = {Entry(NewHolding(svc, File, a), Lease)}
  BY <1>0, <1>1, AcquiredHeld
<1>3. QED
  BY <1>2 DEF Entry, NewHolding

LEMMA GrantsAlone ==
  ASSUME Exclusive, TypeOK, HeldOnFile, NEW a \in Holder, Grants(a)
  PROVE  \A h \in svc'.held : h.resource = File /\ h.holder = a /\ h.ticket = NewTicket(svc)
  BY GrantIsAlone DEF Grants, Inherits, From

-----------------------------------------------------------------------------
(* No exit path leaks the lock *)

\* Staged bytes matter here only because apply fails without them.
Whole == TypeOK /\ (Split \/ WInv)

NInv == Whole /\ HeldOnFile /\ KeptIsUsed /\ NoOrphanHold

LEMMA InitNInv == Init => NInv
  BY InitWInv DEF Init, NInv, Whole, WInv, HeldOnFile, KeptIsUsed, NoOrphanHold, NewService

LEMMA ContinuesNInv ==
  ASSUME NInv, Whole', Continues, SameKept, UNCHANGED pend PROVE NInv'
<1>1. HeldOnFile'
  BY ContinuesHeldOnFile DEF NInv
<1>2. KeptIsUsed'
  BY DEF NInv, KeptIsUsed, SameKept
<1>3. NoOrphanHold'
  <2> SUFFICES ASSUME NEW h \in svc'.held, Live(h), h.holder \notin DropRelease
               PROVE  \/ open'[h.holder] # None /\ open'[h.holder].ticket = h.ticket
                      \/ pend'[h.holder] # None /\ pend'[h.holder].ticket = h.ticket
    BY DEF NoOrphanHold
  <2>1. PICK k \in svc.held : From(h, k)
    BY DEF Continues, Inherits
  <2>2. Live(k) /\ k.holder = h.holder /\ k.ticket = h.ticket
    BY <2>1 DEF From
  <2>3. h.holder \in Holder
    BY <2>1, <2>2, Numbers DEF NInv, Whole, HeldBy
  <2>4. QED
    BY <2>2, <2>3 DEF NInv, NoOrphanHold, SameKept
<1>4. QED
  BY <1>1, <1>2, <1>3 DEF NInv

\* The agent's own entries are released, and it forgets them.
LEMMA ReleaseNInv ==
  ASSUME NInv, Whole', NEW a \in Holder, NEW t \in Ticket,
         svc' = Released(svc, HoldingOf(a, t)),
         open' = [open EXCEPT ![a] = None],
         pend' = [pend EXCEPT ![a] = None],
         open[a] # None => open[a].ticket = t,
         pend[a] # None => pend[a].ticket = t
  PROVE  NInv'
<1>0. /\ TypeOK /\ svc \in Service
      /\ open \in [Holder -> Open \cup {None}] /\ pend \in [Holder -> Authorized \cup {None}]
  BY Numbers DEF NInv, Whole, TypeOK
<1>1. svc'.held \subseteq svc.held
  BY <1>0, ReleasedFewer
<1>2. a \notin DropRelease => \A h \in svc'.held : ~Same(h, HoldingOf(a, t))
  BY <1>0 DEF Released, HoldingOf, Service
<1>3. KeptIsUsed'
  BY <1>0 DEF NInv, KeptIsUsed
<1>4. NoOrphanHold'
  <2> SUFFICES ASSUME NEW h \in svc'.held, Live(h), h.holder \notin DropRelease
               PROVE  \/ open'[h.holder] # None /\ open'[h.holder].ticket = h.ticket
                      \/ pend'[h.holder] # None /\ pend'[h.holder].ticket = h.ticket
    BY DEF NoOrphanHold
  <2>1. h \in svc.held /\ h.holder \in Holder /\ h.resource = File
    BY <1>0, <1>1, Numbers DEF NInv, HeldOnFile, HeldBy
  <2>2. \/ open[h.holder] # None /\ open[h.holder].ticket = h.ticket
        \/ pend[h.holder] # None /\ pend[h.holder].ticket = h.ticket
    BY <2>1 DEF NInv, NoOrphanHold
  <2>3. CASE h.holder = a
    BY <1>2, <2>1, <2>2, <2>3 DEF Same, HoldingOf
  <2>4. CASE h.holder # a
    BY <1>0, <2>1, <2>2, <2>4
  <2>5. QED
    BY <2>3, <2>4
<1>5. QED
  BY <1>1, <1>3, <1>4 DEF NInv, HeldOnFile

LEMMA ReadNInv ==
  ASSUME Exclusive, NInv, Whole', NEW a \in Holder, Read(a) PROVE NInv'
<1>0. /\ TypeOK /\ TypeOK' /\ open \in [Holder -> Open \cup {None}]
      /\ UNCHANGED pend /\ pend[a] = None
  BY DEF NInv, Whole, TypeOK, Read, ReadWriteOnly, ReadFull, ReadContended, ReadFails, Idle
<1>1. CASE Continues /\ open' = open
  BY <1>0, <1>1, ContinuesNInv DEF SameKept
<1>2. CASE Grants(a) /\ open' = Opened(a)
  <2>1. \A h \in svc'.held : h.resource = File /\ h.holder = a /\ h.ticket = NewTicket(svc)
    BY <1>0, <1>2, GrantsAlone DEF NInv
  <2>2. open'[a] # None /\ open'[a].ticket = NewTicket(svc)
    BY <1>0, <1>2 DEF Opened, None
  <2>3. CASE Span = "Full"
    <3>1. \A b \in Holder \ {a} : open'[b] = open[b]
      BY <1>0, <1>2 DEF Opened
    <3>2. KeptIsUsed'
      BY <1>0, <2>2, <2>3, <3>1 DEF NInv, KeptIsUsed
    <3>3. QED
      BY <2>1, <2>2, <3>2 DEF NInv, HeldOnFile, NoOrphanHold
  <2>4. CASE Span # "Full"
    <3>1. UNCHANGED open
      BY <2>4 DEF Read, ReadWriteOnly, ReadFull, ReadContended, ReadFails
    <3>2. QED
      BY <2>2, <2>4, <3>1 DEF NInv, KeptIsUsed
  <2>5. QED
    BY <2>3, <2>4
<1>3. QED
  BY <1>0, <1>1, <1>2, ReadService

LEMMA AuthorizeOkNInv ==
  ASSUME Exclusive, NInv, Whole', NEW a \in Holder, AuthorizeOk(a) PROVE NInv'
<1>0. /\ TypeOK /\ pend \in [Holder -> Authorized \cup {None}] /\ UNCHANGED open
      /\ pend[a] = None
  BY DEF NInv, Whole, TypeOK, AuthorizeOk, CanWrite, Idle
<1>1. PICK k \in Locked(a) :
        /\ pend' = [pend EXCEPT ![a] = [ticket |-> k.ticket,
                                        content |-> Edit(a),
                                        newVersion |-> FileVersion + 1]]
        /\ Inherits(k.svc, svc') /\ svc'.next = k.svc.next
  BY <1>0, AuthorizeOkService
<1>2. pend'[a].ticket = k.ticket /\ pend'[a] # None /\ \A b \in Holder \ {a} : pend'[b] = pend[b]
  BY <1>0, <1>1 DEF None
<1>3. CASE Span = "Full"
  <2>1. Continues /\ open[a] # None /\ k.ticket = open[a].ticket
    BY <1>0, <1>1, <1>3, LockedService
  <2>2. KeptIsUsed'
    BY <1>0, <1>2, <1>3, <2>1 DEF NInv, KeptIsUsed
  <2>3. NoOrphanHold'
    <3> SUFFICES ASSUME NEW h \in svc'.held, Live(h), h.holder \notin DropRelease
                 PROVE  open'[h.holder] # None /\ open'[h.holder].ticket = h.ticket
      BY DEF NoOrphanHold
    <3>0. \A b \in Holder : pend[b] # None => open[b] # None /\ open[b].ticket = pend[b].ticket
      BY <1>3 DEF NInv, KeptIsUsed
    <3>1. PICK g \in svc.held : From(h, g)
      BY <2>1 DEF Continues, Inherits
    <3>2. Live(g) /\ g.holder = h.holder /\ g.ticket = h.ticket /\ h.holder \in Holder
      BY <1>0, <3>1, Numbers DEF From, HeldBy
    <3>3. QED
      BY <1>0, <3>0, <3>2 DEF NInv, NoOrphanHold
  <2>4. QED
    BY <2>1, <2>2, <2>3, ContinuesHeldOnFile DEF NInv
<1>4. CASE Span # "Full"
  <2>1. Grants(a) /\ k.ticket = NewTicket(svc)
    BY <1>0, <1>1, <1>4, LockedService
  <2>2. \A h \in svc'.held : h.resource = File /\ h.holder = a /\ h.ticket = k.ticket
    BY <1>0, <2>1, GrantsAlone DEF NInv
  <2>3. QED
    BY <1>0, <1>2, <1>4, <2>2 DEF NInv, HeldOnFile, KeptIsUsed, NoOrphanHold
<1>5. QED
  BY <1>3, <1>4

\* A refused write keeps the hold of read, and gives back one of its own.
LEMMA AuthorizeRefusedNInv ==
  ASSUME Exclusive, NInv, Whole', NEW a \in Holder, AuthorizeRefused(a) PROVE NInv'
<1>0. TypeOK /\ UNCHANGED <<open, pend>>
  BY DEF NInv, Whole, AuthorizeRefused
<1>1. PICK k \in Locked(a) :
        /\ svc' = AfterRefusal(k.svc, a, k.ticket)
        /\ Inherits(k.svc, svc') /\ svc'.next = k.svc.next
  BY <1>0, AuthorizeRefusedService
<1>2. CASE Span = "Full"
  BY <1>0, <1>1, <1>2, LockedService, ContinuesNInv DEF SameKept
<1>3. CASE Span # "Full"
  <2>1. /\ Grants(a) /\ k.ticket = NewTicket(svc)
        /\ k.svc = Acquired(svc, File, a) /\ k.svc \in Service
    BY <1>0, <1>1, <1>3, LockedService, LockedType
  <2>2. \A h \in svc'.held : h.resource = File /\ h.holder = a /\ h.ticket = k.ticket
    BY <1>0, <2>1, GrantsAlone DEF NInv
  <2>3. svc' = Released(k.svc, HoldingOf(a, k.ticket))
    BY <1>1, <1>3, HarnessAssumption DEF AfterRefusal
  <2>4. a \notin DropRelease => \A h \in svc'.held : ~Same(h, HoldingOf(a, k.ticket))
    BY <2>1, <2>3 DEF Released, HoldingOf, Service
  <2>5. \A h \in svc'.held : h.holder \in DropRelease
    BY <2>2, <2>4 DEF Same, HoldingOf
  <2>6. QED
    BY <1>0, <2>2, <2>5 DEF NInv, HeldOnFile, KeptIsUsed, NoOrphanHold
<1>4. QED
  BY <1>2, <1>3

LEMMA ApplyNInv ==
  ASSUME Span = "Full" \/ (~Split /\ "DuringRename" \notin IoFaults),
         NInv, Whole', NEW a \in Holder, Apply(a)
  PROVE  NInv'
<1>0. TypeOK /\ pend[a] # None /\ pend[a].ticket \in Ticket
      /\ pend \in [Holder -> Authorized \cup {None}]
  BY Fields DEF NInv, Whole, TypeOK, Apply, ApplyOk, ApplySuperseded, ApplyFails
<1>1. CASE Finish(a)
  <2>1. open[a] # None => open[a].ticket = pend[a].ticket
    BY <1>0 DEF NInv, KeptIsUsed
  <2>2. QED
    BY <1>0, <1>1, <2>1, ReleaseNInv DEF Finish
<1>2. CASE ApplyFails(a)
  <2>0. ~Split => tmp # None
    <3>1. ~Split => tmp = pend[a].content
      BY <1>2, ApplyFacts DEF NInv, Whole, Apply
    <3>2. QED
      BY <1>0, <3>1, Fields, NoneDiffers
  <2>1. Span = "Full" /\ UNCHANGED open /\ pend' = [pend EXCEPT ![a] = None]
    BY <1>2, <2>0 DEF ApplyFails
  <2>2. svc' = Sweep(svc) /\ svc'.held \subseteq svc.held /\ svc \in Service
    BY <1>0, <1>2, Numbers, SweepFewer DEF ApplyFails
  <2>3. \A h \in svc'.held : h \in svc.held /\ h.holder \in Holder
    BY <1>0, <2>2, Numbers DEF HeldBy
  <2>4. KeptIsUsed'
    BY <1>0, <2>1 DEF NInv, KeptIsUsed
  <2>5. NoOrphanHold'
    BY <1>0, <2>1, <2>3 DEF NInv, KeptIsUsed, NoOrphanHold
  <2>6. QED
    BY <2>3, <2>4, <2>5 DEF NInv, HeldOnFile
<1>3. QED
  BY <1>1, <1>2 DEF Apply, ApplyOk, ApplySuperseded

\* Nothing given back, but under Full the hold is still noted as kept.
LEMMA DropNInv ==
  ASSUME Span = "Full", NInv, Whole', NEW a \in Holder, DropAuthorized(a) PROVE NInv'
<1>0. /\ TypeOK /\ UNCHANGED <<svc, open>> /\ pend \in [Holder -> Authorized \cup {None}]
      /\ pend' = [pend EXCEPT ![a] = None]
  BY DEF NInv, Whole, TypeOK, DropAuthorized
<1>1. KeptIsUsed'
  BY <1>0 DEF NInv, KeptIsUsed
<1>2. \A h \in svc.held : h.holder \in Holder
  BY <1>0, Numbers DEF HeldBy
<1>3. NoOrphanHold'
  BY <1>0, <1>2 DEF NInv, KeptIsUsed, NoOrphanHold
<1>4. QED
  BY <1>0, <1>1, <1>3 DEF NInv, HeldOnFile

LEMMA NextNInv ==
  ASSUME Exclusive, Span = "Full" \/ (~Split /\ IoFaults \subseteq {"Read"})
  PROVE  NInv /\ [Next]_vars => NInv'
<1> SUFFICES ASSUME NInv, [Next]_vars PROVE NInv'
  OBVIOUS
<1>0. TypeOK /\ Whole'
  BY NextTypeOK, NextWInv DEF NInv, Whole
<1>1. ASSUME NEW a \in Holder, Authorize(a) PROVE NInv'
  <2>1. CASE AuthorizeContended(a)
    BY <1>0, <2>1, OtherService, ContinuesNInv DEF AuthorizeContended, SameKept
  <2>2. CASE AuthorizeOk(a)
    BY <1>0, <2>2, AuthorizeOkNInv
  <2>3. CASE AuthorizeRefused(a)
    BY <1>0, <2>3, AuthorizeRefusedNInv
  <2>4. CASE PrepareFails(a)
    <3>1. Span = "Full" /\ UNCHANGED <<open, pend>>
      BY <2>4 DEF PrepareFails
    <3>2. Continues
      BY <1>0, <2>4, <3>1, PrepareFailsService, LockedService
    <3>3. QED
      BY <1>0, <3>1, <3>2, ContinuesNInv DEF SameKept
  <2>5. QED
    BY <1>1, <2>1, <2>2, <2>3, <2>4 DEF Authorize
<1>2. ASSUME NEW a \in Holder, Abandon(a) PROVE NInv'
  <2>1. /\ pend[a] = None /\ open[a] # None /\ open[a].ticket \in Ticket
        /\ pend' = [pend EXCEPT ![a] = None] /\ open' = [open EXCEPT ![a] = None]
        /\ svc' = Released(svc, HoldingOf(a, open[a].ticket))
    BY <1>0, <1>2, Fields DEF Abandon, Idle, TypeOK
  <2>2. QED
    BY <1>0, <2>1, ReleaseNInv
<1>3. ASSUME NEW a \in Holder, Progress(a) PROVE NInv'
  BY <1>0, <1>3, OtherService, ContinuesNInv DEF Progress, SameKept
<1>4. CASE ForceRelease \/ ForceExpire
  BY <1>0, <1>4, OtherService, ContinuesNInv DEF ForceRelease, ForceExpire, SameKept
<1>5. CASE Tick
  <2>1. \A o \in Open : Older(o).ticket = o.ticket /\ Older(o) # None
    BY NoneDiffers, OlderType DEF Older, Open
  <2>2. SameKept
    BY <1>0, <1>5, <2>1, Fields, NoneDiffers DEF Tick, SameKept
  <2>3. QED
    BY <1>0, <1>5, <2>2, OtherService, ContinuesNInv DEF Tick
<1>6. CASE UNCHANGED vars
  BY <1>0, <1>6 DEF vars, NInv, HeldOnFile, KeptIsUsed, NoOrphanHold
<1>7. ASSUME NEW a \in Holder, DropAuthorized(a) PROVE NInv'
  BY <1>0, <1>7, DropNInv DEF DropAuthorized
<1>8. QED
  BY <1>0, <1>1, <1>2, <1>3, <1>4, <1>5, <1>6, <1>7, ReadNInv, ApplyNInv DEF Next

\* R8, P5 (harness.rs, authorize, finish, abandon): no path forgets a lock it
\* took.  Under Full that is so however the phases are driven and whatever
\* fails; under WriteOnly through write, while no prepare and no rename fails.
THEOREM NoLockIsLeaked ==
  ASSUME Exclusive, Span = "Full" \/ (~Split /\ IoFaults \subseteq {"Read"})
  PROVE  Spec => []NoOrphanHold
<1>1. NInv /\ [Next]_vars => NInv'
  BY NextNInv
<1>2. NInv => NoOrphanHold
  BY DEF NInv
<1>3. QED
  BY <1>1, <1>2, InitNInv, PTL DEF Spec

-----------------------------------------------------------------------------
(* What a reader may rely on under the full span *)

\* Two live entries are one hold, and a write's hold lives until it is applied.
OneLive == \A h, k \in svc.held : Live(h) /\ Live(k) => h.ticket = k.ticket
PendLive == \A a \in Holder : pend[a] # None => HasLive(a, pend[a].ticket)

UInv == HInv /\ NInv /\ OneLive /\ PendLive /\ ReaderUndisturbed

LEMMA InitUInv == Init => UInv
<1> SUFFICES ASSUME Init PROVE UInv
  OBVIOUS
<1>1. \A a \in Holder : open[a] = None /\ pend[a] = None
  BY DEF Init
<1>2. QED
  BY <1>1, InitHInv, InitNInv
     DEF UInv, OneLive, PendLive, ReaderUndisturbed, Init, NewService

LEMMA ContinuesHasLive ==
  ASSUME Continues
  PROVE  /\ \A a \in Holder : \A t \in Ticket : HasLive(a, t)' => HasLive(a, t)
         /\ OneLive => OneLive'
  BY DEF Continues, Inherits, From, HasLive, Same, OneLive

\* Two agents that keep a hold never both have it live.
LEMMA LiveIsAlone ==
  ASSUME UInv, NEW a \in Holder, NEW b \in Holder,
         open[a] # None, open[b] # None,
         HasLive(a, open[a].ticket), HasLive(b, open[b].ticket)
  PROVE  a = b
  BY DEF UInv, OneLive, HasLive, Same, HoldingOf, HInv, OpenDistinct

\* While no write is outstanding, a step that changes neither the file, nor a
\* version, nor what was read disturbs nobody.
LEMMA QuiescentUInv ==
  ASSUME UInv, HInv', NInv', Continues, Quiescent, UNCHANGED snap,
         \A a \in Holder :
            open'[a] = None \/ (open[a] # None /\ open'[a].ticket = open[a].ticket)
  PROVE  UInv'
<1>1. OneLive' /\ PendLive'
  BY ContinuesHasLive DEF UInv, Quiescent, PendLive
<1>2. ReaderUndisturbed'
  <2> SUFFICES ASSUME NEW a \in Holder, open'[a] # None, HasLive(a, open[a].ticket)'
               PROVE  snap'[a] = [content |-> file', version |-> FileVersion']
    BY DEF ReaderUndisturbed
  <2>1. open[a] # None /\ open'[a].ticket = open[a].ticket /\ open[a].ticket \in Ticket
    BY Fields DEF UInv, HInv
  <2>2. HasLive(a, open[a].ticket)
    BY <2>1, ContinuesHasLive DEF HasLive
  <2>3. QED
    BY <2>1, <2>2 DEF UInv, ReaderUndisturbed, Quiescent
<1>3. QED
  BY <1>1, <1>2 DEF UInv

\* The reader that took the lock has just read, and nobody else holds it.
LEMMA ReadUInv ==
  ASSUME ~Split, Exclusive, ~NonMonotonicTickets, Span = "Full", "Read" \notin IoFaults,
         UInv, HInv', NInv', NEW a \in Holder, Read(a)
  PROVE  UInv'
<1>0. TypeOK /\ HeldOnFile /\ Quiescent
  BY ReadQuiescent DEF UInv, HInv, NInv
<1>1. CASE ReadContended(a)
  <2>1. svc' = Sweep(svc) /\ UNCHANGED <<open, snap>>
    BY <1>1 DEF ReadContended
  <2>2. QED
    BY <1>0, <2>1, SweepContinues, QuiescentUInv
<1>2. CASE ReadFull(a)
  <2>1. /\ open' = Opened(a)
        /\ snap' = [snap EXCEPT ![a] = [content |-> file, version |-> FileVersion]]
        /\ CanAcquire(svc, File) /\ svc' = Sweep(Acquired(svc, File, a))
    BY <1>2 DEF ReadFull
  <2>2. \A h \in svc'.held : h.holder = a /\ h.ticket = svc.next
    <3>1. Acquired(svc, File, a) \in Service
      BY <1>0, Numbers, AcquiredType
    <3>2. svc'.held \subseteq Acquired(svc, File, a).held
      BY <2>1, <3>1, SweepFewer
    <3>3. QED
      BY <1>0, <2>1, <3>2, GrantIsAlone, GrantHeld
  <2>3. OneLive' /\ PendLive'
    BY <1>0, <2>2 DEF OneLive, PendLive, Quiescent
  <2>4. ASSUME NEW b \in Holder, open'[b] # None, HasLive(b, open[b].ticket)'
        PROVE  b = a
    <3>1. open'[b].ticket = svc.next
      BY <2>2, <2>4 DEF HasLive, Same, HoldingOf
    <3>2. b # a => open'[b] = open[b] /\ open[b].ticket < svc.next
      BY <1>0, <2>1, <2>4 DEF Opened, TypeOK, UInv, HInv, OpenDistinct
    <3>3. QED
      BY <1>0, <3>1, <3>2, Numbers
  <2>5. snap'[a] = [content |-> file', version |-> FileVersion']
    BY <1>0, <2>1 DEF TypeOK, Quiescent
  <2>6. QED
    BY <2>3, <2>4, <2>5 DEF UInv, ReaderUndisturbed
<1>3. QED
  BY <1>1, <1>2 DEF Read, ReadWriteOnly, ReadFails

\* Whoever commits holds the lock, so that no other agent has it live.
LEMMA AuthorizeOkUInv ==
  ASSUME ~Split, Span = "Full", UInv, HInv', NInv', NEW a \in Holder, AuthorizeOk(a)
  PROVE  UInv'
<1>0. TypeOK /\ pend \in [Holder -> Authorized \cup {None}] /\ UNCHANGED <<open, snap, file>>
  BY DEF UInv, HInv, TypeOK, AuthorizeOk
<1>1. PICK k \in Locked(a) :
        /\ CanCommit(k.svc, HoldingOf(a, k.ticket), snap[a].version)
        /\ svc' = Committed(k.svc, HoldingOf(a, k.ticket))
        /\ pend' = [pend EXCEPT ![a] = [ticket |-> k.ticket,
                                        content |-> Edit(a),
                                        newVersion |-> FileVersion + 1]]
        /\ Inherits(k.svc, svc') /\ svc'.next = k.svc.next
  BY <1>0, AuthorizeOkService
<1>2. Continues /\ k.svc = svc /\ open[a] # None /\ k.ticket = open[a].ticket
  BY <1>0, <1>1, LockedService
<1>3. HasLive(a, open[a].ticket) /\ HasLive(a, open[a].ticket)'
  <2>1. svc'.held = Sweep(svc).held /\ \A h \in Sweep(svc).held : h \in svc.held /\ Live(h)
    BY <1>0, <1>1, <1>2, Numbers DEF Committed, Sweep, Service
  <2>2. Holds(Sweep(svc), HoldingOf(a, open[a].ticket))
    BY <1>1, <1>2 DEF CanCommit
  <2>3. QED
    BY <1>0, <2>1, <2>2 DEF Holds, HasLive
<1>4. OneLive'
  BY <1>2, ContinuesHasLive DEF UInv
<1>5. pend'[a] # None /\ pend'[a].ticket = open[a].ticket
      /\ \A b \in Holder \ {a} : pend'[b] = None
  BY <1>0, <1>1, <1>2, AuthorizeOkFacts
<1>6. PendLive'
  BY <1>0, <1>3, <1>5 DEF PendLive, HasLive
<1>7. ASSUME NEW b \in Holder, open[b] # None, HasLive(b, open[b].ticket)' PROVE b = a
  <2>1. HasLive(b, open[b].ticket)
    BY <1>0, <1>2, <1>7, Fields, ContinuesHasLive DEF HasLive
  <2>2. QED
    BY <1>2, <1>3, <1>7, <2>1, LiveIsAlone
<1>8. QED
  BY <1>0, <1>4, <1>5, <1>6, <1>7 DEF UInv, ReaderUndisturbed

\* The agent whose write is applied is the one that holds the lock.
LEMMA ApplyUInv ==
  ASSUME ~Split, Span = "Full", "DuringRename" \notin IoFaults,
         UInv, HInv', NInv', NEW a \in Holder, Apply(a)
  PROVE  UInv'
<1>0. TypeOK /\ WInv /\ open \in [Holder -> Open \cup {None}]
  BY DEF UInv, HInv, NInv, Whole, TypeOK
<1>1. pend[a] # None /\ \A b \in Holder : pend'[b] = None
  BY <1>0, ApplyFacts
<1>2. open[a] # None /\ HasLive(a, open[a].ticket)
  BY <1>1, <1>0 DEF UInv, NInv, KeptIsUsed, PendLive, HasLive
<1>3. open' = [open EXCEPT ![a] = None]
  BY <1>0, ApplyFacts DEF ApplyOk, Finish
<1>4. Continues
  BY <1>0, OtherService
<1>5. OneLive' /\ PendLive'
  BY <1>1, <1>4, ContinuesHasLive DEF UInv, PendLive
<1>6. ASSUME NEW b \in Holder, open'[b] # None, HasLive(b, open[b].ticket)' PROVE FALSE
  <2>1. b # a /\ open'[b] = open[b]
    BY <1>0, <1>3, <1>6
  <2>2. HasLive(b, open[b].ticket)
    BY <1>0, <1>4, <1>6, <2>1, Fields, ContinuesHasLive DEF HasLive
  <2>3. QED
    BY <1>2, <1>6, <2>1, <2>2, LiveIsAlone
<1>7. QED
  BY <1>5, <1>6 DEF UInv, ReaderUndisturbed

LEMMA NextUInv ==
  ASSUME ~Split, Exclusive, ~NonMonotonicTickets, Span = "Full",
         "Read" \notin IoFaults, "DuringRename" \notin IoFaults
  PROVE  UInv /\ [Next]_vars => UInv'
<1> SUFFICES ASSUME UInv, [Next]_vars PROVE UInv'
  OBVIOUS
<1>0. TypeOK /\ HInv' /\ NInv'
  BY NextHInv, NextNInv DEF UInv, HInv
<1>1. ASSUME NEW a \in Holder, Authorize(a) PROVE UInv'
  <2>1. CASE AuthorizeContended(a)
    BY <2>1 DEF AuthorizeContended
  <2>2. CASE AuthorizeOk(a)
    BY <1>0, <2>2, AuthorizeOkUInv
  <2>3. CASE AuthorizeRefused(a) \/ PrepareFails(a)
    <3>1. Quiescent /\ UNCHANGED <<open, snap>>
      BY <1>0, <2>3, AuthorizeQuiescent DEF AuthorizeRefused, PrepareFails
    <3>2. Continues
      BY <1>0, <2>3, AuthorizeRefusedService, PrepareFailsService, LockedService
    <3>3. QED
      BY <1>0, <3>1, <3>2, QuiescentUInv
  <2>4. QED
    BY <1>1, <2>1, <2>2, <2>3 DEF Authorize
<1>2. ASSUME NEW a \in Holder, Progress(a) \/ Abandon(a) PROVE UInv'
  <2>1. \A b \in Holder : open'[b] \in {open[b], None}
    BY <1>0, <1>2 DEF Progress, Abandon, TypeOK
  <2>2. Continues /\ Quiescent /\ UNCHANGED snap
    BY <1>0, <1>2, OtherService, OtherQuiescent
  <2>3. QED
    BY <1>0, <2>1, <2>2, QuiescentUInv
<1>3. CASE ForceRelease \/ ForceExpire \/ Tick
  <2>1. \A o \in Open : Older(o).ticket = o.ticket
    BY OlderType DEF Older, Open
  <2>2. \A b \in Holder :
           open'[b] = None \/ (open[b] # None /\ open'[b].ticket = open[b].ticket)
    BY <1>0, <1>3, <2>1, Fields DEF ForceRelease, ForceExpire, Tick
  <2>3. Continues /\ Quiescent /\ UNCHANGED snap
    BY <1>0, <1>3, OtherService, OtherQuiescent
  <2>4. QED
    BY <1>0, <2>2, <2>3, QuiescentUInv
<1>4. CASE UNCHANGED vars
  BY <1>0, <1>4
     DEF vars, UInv, OneLive, PendLive, ReaderUndisturbed, HasLive, FileVersion
<1>5. QED
  BY <1>0, <1>1, <1>2, <1>3, <1>4, ReadUInv, ApplyUInv DEF Next, DropAuthorized

\* The full span (harness.rs, read): what an agent read stays true while its
\* hold is live, however many others read, write and revoke meanwhile, on a file
\* granted exclusively, unless its own read or a rename fails.
THEOREM ReadersAreUndisturbed ==
  ASSUME ~Split, Exclusive, ~NonMonotonicTickets, Span = "Full",
         "Read" \notin IoFaults, "DuringRename" \notin IoFaults
  PROVE  Spec => []ReaderUndisturbed
<1>1. UInv /\ [Next]_vars => UInv'
  BY NextUInv
<1>2. UInv => ReaderUndisturbed
  BY DEF UInv
<1>3. QED
  BY <1>1, <1>2, InitUInv, PTL DEF Spec

=============================================================================
