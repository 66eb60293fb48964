-------------------------- MODULE HoldBoundProofs ---------------------------
(***************************************************************************)
(* The bound on how long a hold kept across an agent's thinking can last:  *)
(* Harness, for any number of agents, any lease, ceiling, span and faults  *)
(* but a ticket source that repeats itself.                                *)
(***************************************************************************)
EXTENDS HarnessProofs

\* A kept hold is one that was issued, and nobody else keeps the same.
OpenDistinct ==
    /\ \A a \in Holder : open[a] # None => open[a].ticket < svc.next
    /\ \A a, b \in Holder :
          open[a] # None /\ open[b] # None /\ open[a].ticket = open[b].ticket => a = b

HeldIssued == \A h \in svc.held : h.ticket < svc.next

\* What is left of a kept hold and what it has used never exceed ceiling and
\* lease together: renewal adds a lease only below the ceiling.
AgeBound ==
    \A a \in Holder, h \in svc.held :
        open[a] # None /\ Same(h, HoldingOf(a, open[a].ticket)) =>
            h.ttl + open[a].age <= MaxAge

HInv == TypeOK /\ OpenDistinct /\ HeldIssued /\ AgeBound

LEMMA InitHInv == Init => HInv
  BY InitTypeOK DEF Init, HInv, OpenDistinct, HeldIssued, AgeBound, NewService

LEMMA Numbers ==
  ASSUME TypeOK
  PROVE  /\ svc \in Service /\ File \in Resource
         /\ svc.next \in Nat
         /\ \A h \in svc.held : h \in HeldBy /\ h.ticket \in Nat /\ h.ttl \in Nat
         /\ \A a \in Holder : open[a] # None =>
               open[a] \in Open /\ open[a].ticket \in Nat /\ open[a].age \in Nat
         /\ MaxAge \in Nat
  BY HarnessAssumption, LeaseAssumption
     DEF TypeOK, Service, HeldBy, Open, Ticket, MaxAge

-----------------------------------------------------------------------------
(* The kinds of step *)

\* Steps that neither grant nor renew: entries go, kept holds are forgotten.
LEMMA FewerHInv ==
  ASSUME HInv, TypeOK', svc'.held \subseteq svc.held, svc'.next >= svc.next,
         \A a \in Holder : open'[a] \in {open[a], None}
  PROVE  HInv'
<1>0. TypeOK /\ svc'.next \in Nat
  BY Numbers DEF HInv, TypeOK, Service, Ticket
<1>1. OpenDistinct'
  BY <1>0, Numbers DEF HInv, OpenDistinct
<1>2. HeldIssued'
  BY <1>0, Numbers DEF HInv, HeldIssued
<1>3. AgeBound'
  BY DEF HInv, AgeBound, Same, HoldingOf, MaxAge
<1>4. QED
  BY <1>1, <1>2, <1>3 DEF HInv

\* Steps that grant the lock, and may note the hold.
LEMMA GrantHInv ==
  ASSUME ~NonMonotonicTickets, HInv, TypeOK', NEW a \in Holder,
         svc'.held \subseteq Acquired(svc, File, a).held, svc'.next = svc.next + 1,
         open' = open \/ open' = Opened(a)
  PROVE  HInv'
<1> DEFINE e == Entry(NewHolding(svc, File, a), Lease)
<1>0. /\ TypeOK /\ svc \in Service /\ File \in Resource /\ svc.next \in Nat
      /\ open \in [Holder -> Open \cup {None}]
  BY Numbers DEF HInv, TypeOK
<1>1. svc'.held \subseteq svc.held \cup {e}
  BY <1>0, AcquiredHeld
<1>2. e.ticket = svc.next /\ e.ttl = Lease
  BY DEF Entry, NewHolding, NewTicket
<1>3. \A b \in Holder : open'[b] # None =>
        \/ open'[b] = open[b]
        \/ b = a /\ open'[b].ticket = svc.next /\ open'[b].age = 0
  BY <1>0 DEF Opened, NewTicket
<1>4. Lease \in Nat /\ Lease <= MaxAge
  BY LeaseAssumption, HarnessAssumption DEF MaxAge
<1> HIDE DEF e
<1>5. OpenDistinct'
  BY <1>0, <1>3, Numbers DEF HInv, OpenDistinct
<1>6. HeldIssued'
  BY <1>0, <1>1, <1>2, Numbers DEF HInv, HeldIssued
<1>7. AgeBound'
  <2> SUFFICES ASSUME NEW b \in Holder, NEW h \in svc'.held,
                      open'[b] # None, h.resource = File, h.ticket = open'[b].ticket
               PROVE  h.ttl + open'[b].age <= MaxAge
    BY DEF AgeBound, Same, HoldingOf, MaxAge
  <2>1. CASE h \in svc.held /\ open'[b] = open[b]
    BY <2>1 DEF HInv, AgeBound, Same, HoldingOf
  <2>2. CASE h = e /\ open'[b] = open[b]
    BY <1>0, <1>2, <2>2, Numbers DEF HInv, OpenDistinct
  <2>3. CASE open'[b].ticket = svc.next /\ open'[b].age = 0
    <3>1. h = e
      BY <1>0, <1>1, <2>3, Numbers DEF HInv, HeldIssued
    <3>2. QED
      BY <1>2, <1>4, <2>3, <3>1
  <2>4. QED
    BY <1>1, <1>3, <2>1, <2>2, <2>3
<1>8. QED
  BY <1>5, <1>6, <1>7 DEF HInv

\* What a call may make of the service it locked: entries go, nothing more.
LEMMA LockedHInv ==
  ASSUME ~NonMonotonicTickets, HInv, TypeOK', NEW a \in Holder, NEW k \in Locked(a),
         svc'.held \subseteq k.svc.held, svc'.next = k.svc.next, open' = open
  PROVE  HInv'
<1>0. TypeOK /\ svc \in Service /\ svc.next \in Nat
  BY Numbers DEF HInv
<1>1. CASE Span = "Full"
  <2>1. k.svc = svc
    BY <1>1 DEF Locked
  <2>2. QED
    BY <1>0, <2>1, FewerHInv
<1>2. CASE Span # "Full"
  <2>1. k.svc = Acquired(svc, File, a)
    BY <1>2 DEF Locked
  <2>2. k.svc.next = svc.next + 1
    BY <1>0, <2>1 DEF Acquired, Service
  <2>3. QED
    BY <2>1, <2>2, GrantHInv
<1>3. QED
  BY <1>1, <1>2

LEMMA SweepFewer ==
  ASSUME NEW s \in Service
  PROVE  Sweep(s).held \subseteq s.held /\ Sweep(s).next = s.next
  BY DEF Sweep, Service

LEMMA ReleasedFewer ==
  ASSUME NEW s \in Service, NEW g
  PROVE  Released(s, g).held \subseteq s.held /\ Released(s, g).next = s.next
  BY DEF Released, Sweep, Service

LEMMA CommittedFewer ==
  ASSUME NEW s \in Service, NEW g
  PROVE  Committed(s, g).held \subseteq s.held /\ Committed(s, g).next = s.next
  BY DEF Committed, Sweep, Service

-----------------------------------------------------------------------------
(* The operations *)

LEMMA ReadHInv ==
  ASSUME ~NonMonotonicTickets, HInv, TypeOK', NEW a \in Holder, Read(a) PROVE HInv'
<1>0. svc \in Service /\ svc.next \in Nat
  BY Numbers DEF HInv
<1>1. Sweep(svc).held \subseteq svc.held /\ Sweep(svc).next = svc.next
  BY <1>0, SweepFewer
<1>2. CASE svc' = Sweep(svc) /\ open' = open
  BY <1>0, <1>1, <1>2, FewerHInv
<1>3. CASE svc' = Sweep(Acquired(svc, File, a)) /\ open' = Opened(a)
  <2>1. Acquired(svc, File, a) \in Service
    BY <1>0, AcquiredType, HarnessAssumption
  <2>2. Acquired(svc, File, a).next = svc.next + 1
    BY <1>0 DEF Acquired, Service
  <2>3. QED
    BY <1>3, <2>1, <2>2, SweepFewer, GrantHInv
<1>4. QED
  BY <1>2, <1>3 DEF Read, ReadWriteOnly, ReadFull, ReadContended, ReadFails

LEMMA AuthorizeHInv ==
  ASSUME ~NonMonotonicTickets, HInv, TypeOK', NEW a \in Holder, Authorize(a) PROVE HInv'
<1>0. TypeOK /\ svc \in Service /\ svc.next \in Nat
  BY Numbers DEF HInv
<1>1. CASE AuthorizeContended(a)
  BY <1>0, <1>1, SweepFewer, FewerHInv DEF AuthorizeContended
<1>2. CASE AuthorizeOk(a)
  <2>1. PICK k \in Locked(a) : svc' = Committed(k.svc, HoldingOf(a, k.ticket))
    BY <1>2 DEF AuthorizeOk
  <2>2. QED
    BY <1>0, <1>2, <2>1, LockedType, CommittedFewer, LockedHInv DEF AuthorizeOk
<1>3. CASE AuthorizeRefused(a)
  <2>1. PICK k \in Locked(a) : svc' = AfterRefusal(k.svc, a, k.ticket)
    BY <1>3 DEF AuthorizeRefused
  <2>2. svc'.held \subseteq k.svc.held /\ svc'.next = k.svc.next
    BY <1>0, <2>1, LockedType, SweepFewer, ReleasedFewer DEF AfterRefusal
  <2>3. QED
    BY <1>3, <2>2, LockedHInv DEF AuthorizeRefused
<1>4. CASE PrepareFails(a)
  <2>1. PICK k \in Locked(a) : svc' = k.svc
    BY <1>4 DEF PrepareFails
  <2>2. QED
    BY <1>4, <2>1, LockedHInv DEF PrepareFails
<1>5. QED
  BY <1>1, <1>2, <1>3, <1>4 DEF Authorize

LEMMA ApplyHInv ==
  ASSUME HInv, TypeOK', NEW a \in Holder, Apply(a) \/ Abandon(a) PROVE HInv'
<1>0. svc \in Service /\ svc.next \in Nat /\ open \in [Holder -> Open \cup {None}]
  BY Numbers DEF HInv, TypeOK
<1>1. svc'.held \subseteq svc.held /\ svc'.next = svc.next
  BY <1>0, ReleasedFewer, SweepFewer
     DEF Apply, ApplyOk, ApplySuperseded, ApplyFails, Finish, Abandon
<1>2. \A b \in Holder : open'[b] \in {open[b], None}
  BY <1>0 DEF Apply, ApplyOk, ApplySuperseded, ApplyFails, Finish, Abandon
<1>3. QED
  BY <1>0, <1>1, <1>2, FewerHInv

\* A renewal is asked for below the ceiling only, and by the hold's own agent.
LEMMA ProgressHInv ==
  ASSUME HInv, TypeOK', NEW a \in Holder, Progress(a) PROVE HInv'
<1> DEFINE g == HoldingOf(a, open[a].ticket)
<1>0. /\ TypeOK /\ svc \in Service /\ svc.next \in Nat
      /\ open[a] # None /\ ~AtCeiling(open[a])
      /\ svc' = Renewed(svc, g) /\ open' = open
  BY Numbers DEF HInv, Progress
<1>1. svc'.next = svc.next
  BY <1>0 DEF Renewed, Sweep, Service
<1>2. \A h \in svc'.held : \/ h \in svc.held
                           \/ \E k \in svc.held : Same(k, g) /\ h = Entry(k, Lease)
  BY <1>0 DEF Renewed, Sweep, Service
<1>3. OpenDistinct'
  BY <1>0, <1>1 DEF HInv, OpenDistinct
<1>4. HeldIssued'
  BY <1>1, <1>2 DEF HInv, HeldIssued, Entry
<1>5. AgeBound'
  <2> SUFFICES ASSUME NEW b \in Holder, NEW h \in svc'.held,
                      open[b] # None, h.resource = File, h.ticket = open[b].ticket
               PROVE  h.ttl + open[b].age <= MaxAge
    BY <1>0 DEF AgeBound, Same, HoldingOf, MaxAge
  <2>1. CASE h \in svc.held
    BY <2>1 DEF HInv, AgeBound, Same, HoldingOf
  <2>2. ASSUME NEW k \in svc.held, Same(k, g), h = Entry(k, Lease)
        PROVE  h.ttl + open[b].age <= MaxAge
    <3>1. h.ticket = open[a].ticket /\ h.ttl = Lease
      BY <2>2 DEF Same, HoldingOf, Entry
    <3>2. b = a
      BY <1>0, <3>1 DEF HInv, OpenDistinct
    <3>3. open[a].age < Ceiling /\ open[a].age \in Nat
      BY <1>0, Numbers, HarnessAssumption DEF AtCeiling
    <3>4. QED
      BY <3>1, <3>2, <3>3, LeaseAssumption, HarnessAssumption DEF MaxAge
  <2>3. QED
    BY <1>2, <2>1, <2>2
<1>6. QED
  BY <1>3, <1>4, <1>5 DEF HInv

\* The clock adds to the age of every hold that is younger than the bound.
LEMMA TickAges ==
  ASSUME TypeOK, Tick
  PROVE  \A a \in Holder :
           /\ open'[a] # None <=> open[a] # None
           /\ open[a] # None =>
                /\ open'[a].ticket = open[a].ticket
                /\ open'[a].age = IF open[a].age < MaxAge THEN open[a].age + 1
                                                          ELSE open[a].age
<1>1. \A a \in Holder : open'[a] = IF open[a] = None THEN None ELSE Older(open[a])
  BY DEF Tick
<1>2. \A o \in Open :
        /\ Older(o).ticket = o.ticket /\ Older(o) # None
        /\ Older(o).age = IF o.age < MaxAge THEN o.age + 1 ELSE o.age
  BY NoneDiffers, OlderType DEF Older, Open
<1>3. QED
  BY <1>1, <1>2, Numbers

\* A unit of time takes from what is left what it adds to what is used.
LEMMA TickHInv ==
  ASSUME HInv, TypeOK', Tick PROVE HInv'
<1>0. TypeOK /\ svc \in Service /\ svc.next \in Nat /\ MaxAge \in Nat
  BY Numbers DEF HInv
<1>1. svc'.next = svc.next
  BY <1>0 DEF Tick, Elapsed, Service
<1>2. \A h \in svc'.held : \E k \in svc.held :
        h.resource = k.resource /\ h.ticket = k.ticket /\ h.ttl = Remaining(k.ttl)
  BY <1>0 DEF Tick, Elapsed, Service, HeldBy
<1>3. \A a \in Holder : open'[a] # None =>
        /\ open[a] # None /\ open'[a].ticket = open[a].ticket
        /\ open'[a].age = IF open[a].age < MaxAge THEN open[a].age + 1 ELSE open[a].age
  BY <1>0, TickAges
<1>4. OpenDistinct'
  BY <1>1, <1>3 DEF HInv, OpenDistinct
<1>5. HeldIssued'
  BY <1>1, <1>2 DEF HInv, HeldIssued
<1>6. AgeBound'
  <2> SUFFICES ASSUME NEW a \in Holder, NEW h \in svc'.held,
                      open'[a] # None, h.resource = File, h.ticket = open'[a].ticket
               PROVE  h.ttl + open'[a].age <= MaxAge
    BY DEF AgeBound, Same, HoldingOf, MaxAge
  <2>1. PICK k \in svc.held :
          h.resource = k.resource /\ h.ticket = k.ticket /\ h.ttl = Remaining(k.ttl)
    BY <1>2
  <2>2. k.ttl + open[a].age <= MaxAge
    BY <1>3, <2>1 DEF HInv, AgeBound, Same, HoldingOf
  <2>3. k.ttl \in Nat /\ open[a].age \in Nat
    BY <1>0, <1>3, Numbers
  <2>4. QED
    BY <1>0, <1>3, <2>1, <2>2, <2>3 DEF Remaining
<1>7. QED
  BY <1>4, <1>5, <1>6 DEF HInv

LEMMA NextHInv == ASSUME ~NonMonotonicTickets PROVE HInv /\ [Next]_vars => HInv'
<1> SUFFICES ASSUME HInv, [Next]_vars PROVE HInv'
  OBVIOUS
<1>0. TypeOK' /\ svc \in Service /\ svc.next \in Nat
  BY NextTypeOK, Numbers DEF HInv
<1>1. ASSUME ForceRelease \/ ForceExpire PROVE HInv'
  <2>1. CASE ForceRelease
    <3>1. svc'.held \subseteq svc.held /\ svc'.next = svc.next + 1
      BY <1>0, <2>1 DEF ForceRelease, ForceReleased, Sweep, Service
    <3>2. QED
      BY <1>0, <2>1, <3>1, FewerHInv DEF ForceRelease
  <2>2. CASE ForceExpire
    <3>1. svc'.held \subseteq svc.held /\ svc'.next = svc.next
      BY <1>0, <2>2 DEF ForceExpire, ForceExpired, Service
    <3>2. QED
      BY <1>0, <2>2, <3>1, FewerHInv DEF ForceExpire
  <2>3. QED
    BY <1>1, <2>1, <2>2
<1>2. ASSUME NEW a \in Holder, DropAuthorized(a) PROVE HInv'
  BY <1>0, <1>2, FewerHInv DEF DropAuthorized
<1>3. CASE UNCHANGED vars
  BY <1>0, <1>3, FewerHInv DEF vars
<1>4. QED
  BY <1>0, <1>1, <1>2, <1>3, ReadHInv, AuthorizeHInv, ApplyHInv, ProgressHInv, TickHInv DEF Next

\* R4 (harness.rs, progress): however often an agent reports progress, its hold
\* is no longer live once it is as old as ceiling and lease together.
THEOREM HoldsAreBounded == ASSUME ~NonMonotonicTickets PROVE Spec => []HoldBound
<1>1. HInv => HoldBound
  <2> SUFFICES ASSUME HInv, NEW a \in Holder, open[a] # None,
                      NEW h \in svc.held, Same(h, HoldingOf(a, open[a].ticket)), Live(h)
               PROVE  open[a].age < MaxAge
    BY DEF HoldBound, HasLive
  <2>1. h.ttl + open[a].age <= MaxAge
    BY DEF HInv, AgeBound
  <2>2. h.ttl \in Nat /\ open[a].age \in Nat /\ MaxAge \in Nat
    BY Numbers DEF HInv
  <2>3. QED
    BY <2>1, <2>2 DEF Live
<1>2. HInv /\ [Next]_vars => HInv'
  BY NextHInv
<1>3. QED
  BY <1>1, <1>2, InitHInv, PTL DEF Spec

-----------------------------------------------------------------------------
(* What is left of a hold *)

HeldOnFile == \A h \in svc.held : h.resource = File

\* Holdings are matched by ticket, and no two entries have the same.
HeldDistinct == \A h, k \in svc.held : Same(h, k) => h = k

\* A kept hold's entry is in the name of the agent that keeps it.
KeptIsOwn ==
    \A a \in Holder, h \in svc.held :
        open[a] # None /\ Same(h, HoldingOf(a, open[a].ticket)) => h.holder = a

KInv == HInv /\ HeldOnFile /\ HeldDistinct /\ KeptIsOwn

LEMMA InitKInv == Init => KInv
  BY InitHInv DEF Init, KInv, HeldOnFile, HeldDistinct, KeptIsOwn, NewService

\* Entries go, and at most one comes, with the next ticket.
LeavesOrGrants ==
    /\ \A k \in svc'.held \ svc.held : k.resource = File /\ k.ticket = svc.next
    /\ \A j, k \in svc'.held \ svc.held : j = k

\* Kept holds are forgotten, and the one that comes may be kept.
ForgetsOrOpens ==
    \A a \in Holder :
        \/ open'[a] \in {open[a], None}
        \/ /\ open'[a].ticket = svc.next
           /\ \A k \in svc'.held \ svc.held : k.holder = a

\* HoldsRunDown of one step, the clock aside.
RunsDown ==
    \A h \in svc.held, k \in svc'.held : Same(h, k) /\ Live(k) =>
        Live(h) /\ TimeLeft(k)' <= TimeLeft(h)

LEMMA GrantLeaves ==
  ASSUME ~NonMonotonicTickets, TypeOK, NEW a \in Holder,
         svc'.held \subseteq Acquired(svc, File, a).held
  PROVE  LeavesOrGrants /\ \A k \in svc'.held \ svc.held : k.holder = a
<1> DEFINE e == Entry(NewHolding(svc, File, a), Lease)
<1>1. svc'.held \subseteq svc.held \cup {e}
  BY Numbers, AcquiredHeld
<1>2. e.ticket = svc.next /\ e.resource = File /\ e.holder = a
  BY DEF Entry, NewHolding, NewTicket
<1> HIDE DEF e
<1>3. QED
  BY <1>1, <1>2 DEF LeavesOrGrants

LEMMA LockedLeaves ==
  ASSUME ~NonMonotonicTickets, TypeOK, NEW a \in Holder, NEW k \in Locked(a),
         svc'.held \subseteq k.svc.held
  PROVE  LeavesOrGrants
<1>1. CASE Span = "Full"
  BY <1>1 DEF Locked, LeavesOrGrants
<1>2. CASE Span # "Full"
  BY <1>2, GrantLeaves DEF Locked
<1>3. QED
  BY <1>1, <1>2

LEMMA ReadLeaves ==
  ASSUME ~NonMonotonicTickets, TypeOK, NEW a \in Holder, Read(a)
  PROVE  LeavesOrGrants /\ ForgetsOrOpens
<1>0. svc \in Service /\ open \in [Holder -> Open \cup {None}]
  BY Numbers DEF TypeOK
<1>1. CASE svc' = Sweep(svc) /\ open' = open
  BY <1>0, <1>1, SweepFewer DEF LeavesOrGrants, ForgetsOrOpens
<1>2. CASE svc' = Sweep(Acquired(svc, File, a)) /\ open' = Opened(a)
  <2>1. Acquired(svc, File, a) \in Service
    BY <1>0, AcquiredType, HarnessAssumption
  <2>2. LeavesOrGrants /\ \A k \in svc'.held \ svc.held : k.holder = a
    BY <1>2, <2>1, SweepFewer, GrantLeaves
  <2>3. ForgetsOrOpens
    BY <1>0, <1>2, <2>2 DEF ForgetsOrOpens, Opened, NewTicket
  <2>4. QED
    BY <2>2, <2>3
<1>3. QED
  BY <1>1, <1>2 DEF Read, ReadWriteOnly, ReadFull, ReadContended, ReadFails

LEMMA AuthorizeLeaves ==
  ASSUME ~NonMonotonicTickets, TypeOK, NEW a \in Holder, Authorize(a)
  PROVE  LeavesOrGrants /\ ForgetsOrOpens
<1>0. svc \in Service
  BY Numbers
<1>1. ForgetsOrOpens
  BY DEF Authorize, AuthorizeContended, AuthorizeOk, AuthorizeRefused, PrepareFails,
         ForgetsOrOpens
<1>2. CASE AuthorizeContended(a)
  BY <1>0, <1>1, <1>2, SweepFewer DEF AuthorizeContended, LeavesOrGrants
<1>3. CASE AuthorizeOk(a)
  BY <1>1, <1>3, LockedType, CommittedFewer, LockedLeaves DEF AuthorizeOk
<1>4. CASE AuthorizeRefused(a)
  BY <1>1, <1>4, LockedType, SweepFewer, ReleasedFewer, LockedLeaves
     DEF AuthorizeRefused, AfterRefusal
<1>5. CASE PrepareFails(a)
  BY <1>1, <1>5, LockedLeaves DEF PrepareFails
<1>6. QED
  BY <1>1, <1>2, <1>3, <1>4, <1>5 DEF Authorize

LEMMA OtherLeaves ==
  ASSUME TypeOK,
         \/ \E a \in Holder : Apply(a) \/ Abandon(a) \/ DropAuthorized(a)
         \/ ForceRelease \/ ForceExpire \/ UNCHANGED vars
  PROVE  LeavesOrGrants /\ ForgetsOrOpens
<1>0. svc \in Service /\ open \in [Holder -> Open \cup {None}]
  BY Numbers DEF TypeOK
<1>1. svc'.held \subseteq svc.held
  <2>1. ASSUME NEW a \in Holder, Apply(a) \/ Abandon(a) \/ DropAuthorized(a)
        PROVE  svc'.held \subseteq svc.held
    BY <1>0, <2>1, ReleasedFewer, SweepFewer
       DEF Apply, ApplyOk, ApplySuperseded, ApplyFails, Finish, Abandon, DropAuthorized
  <2>2. CASE ForceRelease \/ ForceExpire
    BY <1>0, <2>2
       DEF ForceRelease, ForceReleased, ForceExpire, ForceExpired, Sweep, Service
  <2>3. QED
    BY <2>1, <2>2 DEF vars
<1>2. \A b \in Holder : open'[b] \in {open[b], None}
  BY <1>0 DEF Apply, ApplyOk, ApplySuperseded, ApplyFails, Finish, Abandon,
              DropAuthorized, ForceRelease, ForceExpire, vars
<1>3. QED
  BY <1>1, <1>2 DEF LeavesOrGrants, ForgetsOrOpens

\* An entry that stays is the same entry; if it is forgotten, what is left of its
\* lease is no more than what was left of the bound.
LEMMA LeavesKInv ==
  ASSUME KInv, HInv', LeavesOrGrants, ForgetsOrOpens
  PROVE  KInv' /\ RunsDown
<1>0. TypeOK /\ svc.next \in Nat /\ MaxAge \in Nat
  BY Numbers DEF KInv, HInv
<1>1. HeldOnFile'
  BY DEF KInv, HeldOnFile, LeavesOrGrants
<1>2. HeldDistinct'
  <2> SUFFICES ASSUME NEW h \in svc'.held, NEW k \in svc'.held, Same(h, k) PROVE h = k
    BY DEF HeldDistinct
  <2>1. \A j \in svc.held : j.ticket < svc.next
    BY DEF KInv, HInv, HeldIssued
  <2>2. CASE h \in svc.held /\ k \in svc.held
    BY <2>2 DEF KInv, HeldDistinct
  <2>3. CASE h \notin svc.held /\ k \notin svc.held
    BY <2>3 DEF LeavesOrGrants
  <2>4. h \in svc.held <=> k \in svc.held
    BY <1>0, <2>1, Numbers DEF LeavesOrGrants, Same
  <2>5. QED
    BY <2>2, <2>3, <2>4
<1>3. KeptIsOwn'
  <2> SUFFICES ASSUME NEW b \in Holder, NEW h \in svc'.held, open'[b] # None,
                      h.resource = File, h.ticket = open'[b].ticket
               PROVE  h.holder = b
    BY DEF KeptIsOwn, Same, HoldingOf
  <2>1. CASE h \in svc.held
    <3>1. open'[b] = open[b]
      BY <1>0, <2>1, Numbers DEF ForgetsOrOpens, KInv, HInv, HeldIssued
    <3>2. QED
      BY <2>1, <3>1 DEF KInv, KeptIsOwn, Same, HoldingOf
  <2>2. CASE h \notin svc.held
    <3>1. h.ticket = svc.next
      BY <2>2 DEF LeavesOrGrants
    <3>2. open[b] # None => open[b].ticket < svc.next
      BY DEF KInv, HInv, OpenDistinct
    <3>3. QED
      <4>1. open'[b] # open[b]
        <5> SUFFICES ASSUME open'[b] = open[b] PROVE FALSE
          OBVIOUS
        <5>1. open[b] # None /\ open[b].ticket = svc.next
          BY <3>1
        <5>2. QED
          BY <1>0, <3>2, <5>1
      <4>2. \A k \in svc'.held \ svc.held : k.holder = b
        BY <4>1 DEF ForgetsOrOpens
      <4>3. QED
        BY <2>2, <4>2
  <2>3. QED
    BY <2>1, <2>2
<1>4. RunsDown
  <2> SUFFICES ASSUME NEW h \in svc.held, NEW k \in svc'.held, Same(h, k), Live(k)
               PROVE  Live(h) /\ TimeLeft(k)' <= TimeLeft(h)
    BY DEF RunsDown
  <2>1. h.ticket \in Nat /\ h.ttl \in Nat /\ h.holder \in Holder /\ h.ticket < svc.next
    BY <1>0, Numbers DEF KInv, HInv, HeldIssued, HeldBy
  <2>2. k = h
    <3>1. k \in svc.held
      BY <1>0, <2>1 DEF LeavesOrGrants, Same
    <3>2. QED
      BY <3>1 DEF KInv, HeldDistinct
  <2>3. Kept(k)' => Kept(h) /\ open'[h.holder] = open[h.holder]
    BY <1>0, <2>1, <2>2 DEF Kept, ForgetsOrOpens
  <2>4. Kept(h) => /\ open[h.holder].age \in Nat
                   /\ h.ttl <= MaxAge - open[h.holder].age
    <3> HAVE Kept(h)
    <3>1. Same(h, HoldingOf(h.holder, open[h.holder].ticket)) /\ open[h.holder] # None
      BY DEF KInv, HeldOnFile, Same, HoldingOf, Kept
    <3>2. h.ttl + open[h.holder].age <= MaxAge
      BY <2>1, <3>1 DEF KInv, HInv, AgeBound
    <3>3. QED
      BY <1>0, <2>1, <3>1, <3>2, Numbers
  <2>5. CASE Kept(k)'
    BY <1>0, <2>2, <2>3, <2>4, <2>5 DEF TimeLeft, MaxAge
  <2>6. CASE ~Kept(k)'
    BY <1>0, <2>1, <2>2, <2>4, <2>6 DEF TimeLeft
  <2>7. QED
    BY <2>2, <2>5, <2>6
<1>5. QED
  BY <1>1, <1>2, <1>3, <1>4 DEF KInv

\* Entries that continue others, and kept holds that keep their tickets.
LEMMA InheritsKInv ==
  ASSUME KInv, Inherits(svc, svc'),
         \A a \in Holder :
            open'[a] # None => open[a] # None /\ open'[a].ticket = open[a].ticket
  PROVE  HeldOnFile' /\ HeldDistinct' /\ KeptIsOwn'
<1>1. \A h \in svc'.held : \E k \in svc.held : From(h, k)
  BY DEF Inherits
<1>2. HeldOnFile' /\ KeptIsOwn'
  BY <1>1 DEF KInv, HeldOnFile, KeptIsOwn, From, Same, HoldingOf
<1>3. HeldDistinct'
  BY DEF KInv, HeldDistinct, Inherits, From, Same
<1>4. QED
  BY <1>2, <1>3

\* A renewal lengthens the lease of the agent's own kept hold and not its bound.
LEMMA ProgressKInv ==
  ASSUME KInv, HInv', NEW a \in Holder, Progress(a) PROVE KInv' /\ RunsDown
<1> DEFINE g == HoldingOf(a, open[a].ticket)
<1>0. /\ TypeOK /\ svc \in Service /\ svc' = Renewed(svc, g) /\ open' = open
      /\ open[a] # None /\ g \in Holding
  BY Numbers, Fields, HoldingOfType DEF KInv, HInv, Progress
<1>1. Inherits(svc, svc')
  BY <1>0, RenewedInherits
<1>2. HeldOnFile' /\ HeldDistinct' /\ KeptIsOwn'
  BY <1>0, <1>1, InheritsKInv
<1>3. RunsDown
  <2> SUFFICES ASSUME NEW h \in svc.held, NEW k \in svc'.held, Same(h, k), Live(k)
               PROVE  Live(h) /\ TimeLeft(k)' <= TimeLeft(h)
    BY DEF RunsDown
  <2>1. k = h \/ (Same(h, g) /\ k = Entry(h, Lease))
    <3>1. PICK j \in svc.held : k = j \/ (Same(j, g) /\ k = Entry(j, Lease))
      BY <1>0 DEF Renewed, Sweep, Service
    <3>2. Same(h, j)
      BY <3>1 DEF Same, Entry
    <3>3. QED
      BY <3>1, <3>2 DEF KInv, HeldDistinct
  <2>2. Live(h) /\ k.holder = h.holder /\ k.ticket = h.ticket
    <3>1. PICK j \in svc.held : From(k, j)
      BY <1>1 DEF Inherits
    <3>2. j = h
      BY <3>1 DEF From, Same, KInv, HeldDistinct
    <3>3. QED
      BY <3>1, <3>2 DEF From
  <2>3. CASE Kept(h)
    <3>1. Kept(k)'
      BY <1>0, <2>2, <2>3 DEF Kept
    <3>2. MaxAge \in Nat /\ open[h.holder].age \in Nat
      BY <1>0, <2>3, Numbers DEF Kept, HeldBy
    <3>3. QED
      BY <1>0, <2>2, <2>3, <3>1, <3>2 DEF TimeLeft, MaxAge
  <2>4. CASE ~Kept(h)
    <3>1. k = h
      BY <1>0, <2>1, <2>4 DEF Same, HoldingOf, Kept, KInv, KeptIsOwn
    <3>2. QED
      BY <1>0, <2>2, <2>4, <3>1, Numbers DEF TimeLeft, Kept
  <2>5. QED
    BY <2>3, <2>4
<1>4. QED
  BY <1>2, <1>3 DEF KInv

\* A live hold is younger than the bound: the clock takes from its lease, and
\* adds to its age.
LEMMA TickKInv ==
  ASSUME KInv, HInv', Tick
  PROVE  /\ KInv' /\ RunsDown
         /\ \A h \in svc.held, k \in svc'.held :
               Same(h, k) /\ Live(k) => TimeLeft(k)' < TimeLeft(h)
<1>0. TypeOK /\ svc \in Service /\ svc' = Elapsed(svc) /\ MaxAge \in Nat
  BY Numbers DEF KInv, HInv, Tick
<1>1. \A b \in Holder : open'[b] # None =>
        /\ open[b] # None /\ open'[b].ticket = open[b].ticket
        /\ open'[b].age = IF open[b].age < MaxAge THEN open[b].age + 1 ELSE open[b].age
  BY <1>0, TickAges
<1>2. HeldOnFile' /\ HeldDistinct' /\ KeptIsOwn'
  BY <1>0, <1>1, ElapsedInherits, InheritsKInv
<1>3. ASSUME NEW h \in svc.held, NEW k \in svc'.held, Same(h, k), Live(k)
      PROVE  Live(h) /\ TimeLeft(k)' < TimeLeft(h) /\ TimeLeft(h) \in Int /\ TimeLeft(k)' \in Int
  <2>1. k = [h EXCEPT !.ttl = Remaining(h.ttl)] /\ h \in HeldBy
    <3>1. PICK j \in svc.held : k = [j EXCEPT !.ttl = Remaining(j.ttl)] /\ j \in HeldBy
      BY <1>0, Numbers DEF Elapsed, Service
    <3>2. j = h
      BY <1>3, <3>1, Numbers DEF HeldBy, Same, KInv, HeldDistinct
    <3>3. QED
      BY <3>1, <3>2
  <2>2. /\ k.holder = h.holder /\ k.ticket = h.ticket /\ h.holder \in Holder
        /\ h.ttl \in Nat /\ h.ttl > 0 /\ k.ttl = h.ttl - 1
    BY <1>3, <2>1 DEF HeldBy, Remaining, Live
  <2>3. Kept(k)' <=> Kept(h)
    BY <1>0, <2>2, TickAges DEF Kept
  <2>4. CASE Kept(h)
    <3>1. Same(h, HoldingOf(h.holder, open[h.holder].ticket)) /\ open[h.holder] # None
      BY <2>4 DEF KInv, HeldOnFile, Same, HoldingOf, Kept
    <3>2. h.ttl + open[h.holder].age <= MaxAge /\ open[h.holder].age \in Nat
      BY <1>0, <2>2, <3>1, Numbers DEF KInv, HInv, AgeBound
    <3>3. open'[h.holder].age = open[h.holder].age + 1
      BY <1>0, <1>1, <2>2, <2>3, <2>4, <3>2 DEF Kept
    <3>4. QED
      BY <1>0, <2>2, <2>3, <2>4, <3>2, <3>3 DEF TimeLeft, Live, MaxAge
  <2>5. CASE ~Kept(h)
    BY <2>2, <2>3, <2>5 DEF TimeLeft, Live
  <2>6. QED
    BY <2>4, <2>5
<1>4. QED
  BY <1>2, <1>3 DEF KInv, RunsDown

LEMMA NextKInv ==
  ASSUME ~NonMonotonicTickets
  PROVE  KInv /\ [Next]_vars =>
           /\ KInv'
           /\ \A h \in svc.held, k \in svc'.held : Same(h, k) /\ Live(k) =>
                 /\ Live(h)
                 /\ TimeLeft(k)' <= TimeLeft(h)
                 /\ Tick => TimeLeft(k)' < TimeLeft(h)
<1> SUFFICES ASSUME KInv, [Next]_vars
             PROVE  /\ KInv' /\ RunsDown
                    /\ Tick => \A h \in svc.held, k \in svc'.held :
                                  Same(h, k) /\ Live(k) => TimeLeft(k)' < TimeLeft(h)
  BY DEF RunsDown
<1>0. TypeOK /\ HInv'
  BY NextHInv DEF KInv, HInv
<1>1. CASE Tick
  BY <1>0, <1>1, TickKInv
<1>2. CASE ~Tick
  <2>1. CASE LeavesOrGrants /\ ForgetsOrOpens
    BY <1>0, <1>2, <2>1, LeavesKInv
  <2>2. CASE \E a \in Holder : Progress(a)
    BY <1>0, <1>2, <2>2, ProgressKInv
  <2>3. QED
    BY <1>0, <1>2, <2>1, <2>2, ReadLeaves, AuthorizeLeaves, OtherLeaves DEF Next
<1>3. QED
  BY <1>1, <1>2

\* The safety core of R2 and R4 (harness.rs, progress; fake.rs, sweep), whoever
\* renews, forgets, leaks or drops a hold and whatever fails: what is left of a
\* live hold, its lease or, while its agent may renew it, what ceiling and lease
\* leave of its age, never grows and falls with every unit of time.  HoldEnds
\* follows as soon as the clock goes on.
THEOREM EveryHoldRunsDown ==
  ASSUME ~NonMonotonicTickets PROVE Spec => HoldsRunDown
<1>1. KInv /\ [Next]_vars
        => KInv' /\ [\A h \in svc.held, k \in svc'.held : Same(h, k) /\ Live(k) =>
                       /\ Live(h)
                       /\ TimeLeft(k)' <= TimeLeft(h)
                       /\ Tick => TimeLeft(k)' < TimeLeft(h)]_vars
  BY NextKInv
<1>2. QED
  BY <1>1, InitKInv, PTL DEF Spec, HoldsRunDown

=============================================================================
