---------------------------- MODULE HarnessProofs ---------------------------
(***************************************************************************)
(* Proofs about Harness, for any number of agents, any lease and ceiling,  *)
(* and any fault set unless a theorem says otherwise.                      *)
(***************************************************************************)
EXTENDS Harness, FakeLockProofs

-----------------------------------------------------------------------------
(* Type correctness *)

LEMMA HoldingOfType ==
  ASSUME NEW a \in Holder, NEW t \in Ticket PROVE HoldingOf(a, t) \in Holding
  BY HarnessAssumption DEF HoldingOf, Holding

LEMMA FileVersionType == ASSUME TypeOK PROVE FileVersion \in Nat
  BY HarnessAssumption DEF TypeOK, FileVersion, Service, Version

\* None is none of the records the state holds.
LEMMA NoneDiffers ==
  None \notin Open /\ None \notin Snapshot /\ None \notin Authorized /\ None \notin Content
  BY DEF None, Open, Snapshot, Authorized, Content

LEMMA Fields ==
  ASSUME TypeOK, NEW a \in Holder
  PROVE  /\ open[a] # None => open[a] \in Open /\ open[a].ticket \in Ticket
         /\ snap[a] # None => snap[a] \in Snapshot /\ snap[a].version \in Nat
         /\ pend[a] # None => /\ pend[a] \in Authorized
                              /\ pend[a].ticket \in Ticket
                              /\ pend[a].content \in Content
                              /\ pend[a].newVersion \in Nat
  BY DEF TypeOK, Open, Snapshot, Authorized, Version

LEMMA InitTypeOK == Init => TypeOK
  BY NewServiceType DEF Init, TypeOK, Content, Initial

LEMMA EditType ==
  ASSUME TypeOK, NEW a \in Holder, snap[a] # None PROVE Edit(a) \in Content
  BY Fields DEF Edit, Content

LEMMA LockedType ==
  ASSUME TypeOK, NEW a \in Holder, NEW k \in Locked(a)
  PROVE  /\ k.ticket \in Ticket /\ k.svc \in Service
         /\ k.svc.version = svc.version
         /\ HoldingOf(a, k.ticket) \in Holding
<1>0. svc \in Service /\ File \in Resource
  BY HarnessAssumption DEF TypeOK
<1>1. CASE Span = "Full"
  <2>1. open[a] # None /\ k = [ticket |-> open[a].ticket, svc |-> svc]
    BY <1>1 DEF Locked
  <2>2. QED
    BY <1>0, <2>1, Fields, HoldingOfType
<1>2. CASE Span # "Full"
  <2>1. k = [ticket |-> NewTicket(svc), svc |-> Acquired(svc, File, a)]
    BY <1>2 DEF Locked
  <2>2. Acquired(svc, File, a).version = svc.version
    BY <1>0 DEF Acquired, Service
  <2>3. QED
    BY <1>0, <2>1, <2>2, NewTicketType, AcquiredType, HoldingOfType
<1>3. QED
  BY <1>1, <1>2

LEMMA OpenedType ==
  ASSUME TypeOK, NEW a \in Holder PROVE Opened(a) \in [Holder -> Open \cup {None}]
<1>1. NewTicket(svc) \in Ticket
  BY NewTicketType DEF TypeOK
<1>2. QED
  BY <1>1 DEF Opened, TypeOK, Open

LEMMA ReadTypeOK ==
  ASSUME TypeOK, NEW a \in Holder, Read(a) PROVE TypeOK'
<1>0. svc \in Service /\ File \in Resource /\ FileVersion \in Nat /\ file \in Content
  BY HarnessAssumption, FileVersionType DEF TypeOK
<1>1. Sweep(svc) \in Service /\ Sweep(Acquired(svc, File, a)) \in Service
  BY <1>0, SweepType, AcquiredType
<1>2. [content |-> file, version |-> FileVersion] \in Snapshot
  BY <1>0 DEF Snapshot, Version
<1>3. CASE ReadWriteOnly(a)
  BY <1>1, <1>2, <1>3 DEF ReadWriteOnly, TypeOK
<1>4. CASE ReadFull(a)
  BY <1>1, <1>2, <1>4, OpenedType DEF ReadFull, TypeOK
<1>5. CASE ReadContended(a)
  BY <1>1, <1>5 DEF ReadContended, TypeOK
<1>6. CASE ReadFails(a)
  BY <1>1, <1>6, OpenedType DEF ReadFails, TypeOK
<1>7. QED
  BY <1>3, <1>4, <1>5, <1>6 DEF Read

LEMMA AuthorizeTypeOK ==
  ASSUME TypeOK, NEW a \in Holder, Authorize(a) PROVE TypeOK'
<1>0. svc \in Service /\ FileVersion \in Nat
  BY FileVersionType DEF TypeOK
<1>1. CASE AuthorizeContended(a)
  BY <1>0, <1>1, SweepType DEF AuthorizeContended, TypeOK
<1>2. CASE AuthorizeOk(a)
  <2>1. PICK k \in Locked(a) :
          /\ svc' = Committed(k.svc, HoldingOf(a, k.ticket))
          /\ pend' = [pend EXCEPT ![a] = [ticket |-> k.ticket,
                                          content |-> Edit(a),
                                          newVersion |-> FileVersion + 1]]
    BY <1>2 DEF AuthorizeOk
  <2>2. Edit(a) \in Content
    BY <1>2, EditType DEF AuthorizeOk, CanWrite
  <2>3. svc' \in Service
    BY <2>1, LockedType, CommittedType
  <2>4. [ticket |-> k.ticket, content |-> Edit(a), newVersion |-> FileVersion + 1]
          \in Authorized
    BY <1>0, <2>2, LockedType DEF Authorized, Version
  <2>5. QED
    BY <1>2, <2>1, <2>2, <2>3, <2>4 DEF AuthorizeOk, TypeOK
<1>3. CASE AuthorizeRefused(a)
  <2>1. PICK k \in Locked(a) : svc' = AfterRefusal(k.svc, a, k.ticket)
    BY <1>3 DEF AuthorizeRefused
  <2>2. svc' \in Service
    BY <2>1, LockedType, SweepType, ReleasedType DEF AfterRefusal
  <2>3. QED
    BY <1>3, <2>2 DEF AuthorizeRefused, TypeOK
<1>4. CASE PrepareFails(a)
  <2>1. PICK k \in Locked(a) : svc' = k.svc
    BY <1>4 DEF PrepareFails
  <2>2. svc' \in Service
    BY <2>1, LockedType
  <2>3. Edit(a) \in Content
    BY <1>4, EditType DEF PrepareFails, CanWrite
  <2>4. QED
    BY <1>4, <2>2, <2>3 DEF PrepareFails, TypeOK
<1>5. QED
  BY <1>1, <1>2, <1>3, <1>4 DEF Authorize

LEMMA ApplyTypeOK ==
  ASSUME TypeOK, NEW a \in Holder, Apply(a) PROVE TypeOK'
<1>0. svc \in Service /\ Sweep(svc) \in Service /\ pend[a] # None
  BY SweepType DEF TypeOK, Apply, ApplyOk, ApplySuperseded, ApplyFails
<1>1. Released(svc, HoldingOf(a, pend[a].ticket)) \in Service
  BY <1>0, Fields, HoldingOfType, ReleasedType
<1>2. CASE ApplyOk(a)
  <2>1. [content |-> pend[a].content, ticket |-> pend[a].ticket]
          \in [content : Content, ticket : Nat]
    BY <1>0, Fields DEF Ticket
  <2>2. QED
    BY <1>1, <1>2, <2>1 DEF ApplyOk, Finish, TypeOK
<1>3. CASE ApplySuperseded(a)
  BY <1>1, <1>3 DEF ApplySuperseded, Finish, TypeOK
<1>4. CASE ApplyFails(a)
  BY <1>0, <1>4 DEF ApplyFails, TypeOK
<1>5. QED
  BY <1>2, <1>3, <1>4 DEF Apply

LEMMA OlderType == ASSUME NEW o \in Open PROVE Older(o) \in Open
<1>1. MaxAge \in Nat
  BY LeaseAssumption, HarnessAssumption DEF MaxAge
<1>2. QED
  BY <1>1 DEF Older, Open

LEMMA NextTypeOK == TypeOK /\ [Next]_vars => TypeOK'
<1> SUFFICES ASSUME TypeOK, [Next]_vars PROVE TypeOK'
  OBVIOUS
<1>0. svc \in Service /\ File \in Resource
  BY HarnessAssumption DEF TypeOK
<1>1. ASSUME NEW a \in Holder, Read(a) PROVE TypeOK'
  BY <1>1, ReadTypeOK
<1>2. ASSUME NEW a \in Holder, Progress(a) PROVE TypeOK'
  <2>1. Renewed(svc, HoldingOf(a, open[a].ticket)) \in Service
    BY <1>0, <1>2, Fields, HoldingOfType, RenewedType DEF Progress
  <2>2. QED
    BY <1>2, <2>1 DEF Progress, TypeOK
<1>3. ASSUME NEW a \in Holder, Authorize(a) PROVE TypeOK'
  BY <1>3, AuthorizeTypeOK
<1>4. ASSUME NEW a \in Holder, Apply(a) PROVE TypeOK'
  BY <1>4, ApplyTypeOK
<1>5. ASSUME NEW a \in Holder, Abandon(a) PROVE TypeOK'
  <2>1. Released(svc, HoldingOf(a, open[a].ticket)) \in Service
    BY <1>0, <1>5, Fields, HoldingOfType, ReleasedType DEF Abandon
  <2>2. QED
    BY <1>5, <2>1 DEF Abandon, TypeOK
<1>6. CASE ForceRelease
  <2>1. ForceReleased(svc, File) \in Service /\ Barrier(svc) \in Nat
    BY <1>0, ForceReleasedType DEF Ticket
  <2>2. QED
    BY <1>6, <2>1 DEF ForceRelease, TypeOK
<1>7. CASE ForceExpire
  BY <1>0, <1>7, ForceExpiredType DEF ForceExpire, TypeOK
<1>8. CASE Tick
  <2>1. \A a \in Holder :
          (IF open[a] = None THEN None ELSE Older(open[a])) \in Open \cup {None}
    BY Fields, OlderType
  <2>2. QED
    BY <1>0, <1>8, <2>1, ElapsedType DEF Tick, TypeOK
<1>9. ASSUME NEW a \in Holder, DropAuthorized(a) PROVE TypeOK'
  BY <1>9 DEF DropAuthorized, TypeOK
<1>10. CASE UNCHANGED vars
  BY <1>10 DEF vars, TypeOK
<1>11. QED
  BY <1>1, <1>2, <1>3, <1>4, <1>5, <1>6, <1>7, <1>8, <1>9, <1>10 DEF Next

\* Every reachable state of the harness is well typed, whichever operations
\* fail and however the phases of writes interleave.
THEOREM TypeCorrect == Spec => []TypeOK
  BY InitTypeOK, NextTypeOK, PTL DEF Spec

-----------------------------------------------------------------------------
(* write as one call *)

\* When callers use write, at most one authorized write is outstanding, it is
\* the latest the service knows, and its bytes are the ones staged.
OneWrite ==
    /\ \A a, b \in Holder : pend[a] # None /\ pend[b] # None => a = b
    /\ \A a \in Holder : pend[a] # None =>
          /\ pend[a].newVersion = FileVersion
          /\ tmp = pend[a].content

WInv == TypeOK /\ OneWrite /\ FileIsLastAccepted

LEMMA InitWInv == Init => WInv
  BY InitTypeOK DEF Init, WInv, OneWrite, FileIsLastAccepted

\* An idle agent's calls run while no write is outstanding.
LEMMA IdleQuiet ==
  ASSUME ~Split PROVE /\ \A a \in Holder : Idle(a) => \A b \in Holder : pend[b] = None
                      /\ Quiet => \A b \in Holder : pend[b] = None
  BY DEF Idle, Quiet

LEMMA QuietWInv ==
  ASSUME WInv, TypeOK', \A b \in Holder : pend[b] = None,
         UNCHANGED <<file, pend, accepted>>
  PROVE  WInv'
  BY DEF WInv, OneWrite, FileIsLastAccepted

\* The steps that neither authorize nor apply leave versions, bytes and
\* outstanding writes alone, and happen while no write is outstanding.
Quiescent ==
    /\ \A b \in Holder : pend[b] = None
    /\ UNCHANGED <<file, pend, accepted>>
    /\ FileVersion' = FileVersion

LEMMA ReadQuiescent ==
  ASSUME ~Split, TypeOK, NEW a \in Holder, Read(a) PROVE Quiescent
<1>0. svc \in Service /\ File \in Resource
  BY HarnessAssumption DEF TypeOK
<1>1. /\ Sweep(svc).version = svc.version
      /\ Sweep(Acquired(svc, File, a)).version = svc.version
  BY <1>0 DEF Sweep, Acquired, Service
<1>2. QED
  BY <1>1, IdleQuiet
     DEF Read, ReadWriteOnly, ReadFull, ReadContended, ReadFails, Quiescent, FileVersion

LEMMA AuthorizeQuiescent ==
  ASSUME ~Split, TypeOK, NEW a \in Holder,
         AuthorizeContended(a) \/ AuthorizeRefused(a) \/ PrepareFails(a)
  PROVE  Quiescent /\ UNCHANGED snap
<1>0. svc \in Service /\ File \in Resource
  BY HarnessAssumption DEF TypeOK
<1>1. CASE AuthorizeContended(a)
  <2>1. svc'.version = svc.version
    BY <1>0, <1>1 DEF AuthorizeContended, Sweep, Service
  <2>2. QED
    BY <1>1, <2>1, IdleQuiet DEF AuthorizeContended, CanWrite, Quiescent, FileVersion
<1>2. CASE AuthorizeRefused(a)
  <2>1. PICK k \in Locked(a) : svc' = AfterRefusal(k.svc, a, k.ticket)
    BY <1>2 DEF AuthorizeRefused
  <2>2. k.svc \in Service /\ k.svc.version = svc.version
    BY LockedType
  <2>3. svc'.version = svc.version
    BY <2>1, <2>2 DEF AfterRefusal, Released, Sweep, Service
  <2>4. QED
    BY <1>2, <2>3, IdleQuiet DEF AuthorizeRefused, CanWrite, Quiescent, FileVersion
<1>3. CASE PrepareFails(a)
  <2>1. svc'.version = svc.version
    BY <1>3, LockedType DEF PrepareFails
  <2>2. QED
    BY <1>3, <2>1, IdleQuiet DEF PrepareFails, CanWrite, Quiescent, FileVersion
<1>4. QED
  BY <1>1, <1>2, <1>3

LEMMA OtherQuiescent ==
  ASSUME ~Split, TypeOK,
         \/ \E a \in Holder : Progress(a) \/ Abandon(a)
         \/ ForceRelease \/ ForceExpire \/ Tick
  PROVE  Quiescent /\ UNCHANGED snap
<1>0. svc \in Service /\ File \in Resource
  BY HarnessAssumption DEF TypeOK
<1>1. ASSUME NEW a \in Holder, Progress(a) PROVE Quiescent /\ UNCHANGED snap
  <2>1. svc'.version = svc.version
    BY <1>0, <1>1 DEF Progress, Renewed, Sweep, Service
  <2>2. QED
    BY <1>1, <2>1, IdleQuiet DEF Progress, Quiescent, FileVersion
<1>2. ASSUME NEW a \in Holder, Abandon(a) PROVE Quiescent /\ UNCHANGED snap
  <2>1. svc'.version = svc.version
    BY <1>0, <1>2 DEF Abandon, Released, Sweep, Service
  <2>2. QED
    BY <1>2, <2>1, IdleQuiet DEF Abandon, Quiescent, FileVersion
<1>3. ASSUME ForceRelease \/ ForceExpire \/ Tick PROVE Quiescent /\ UNCHANGED snap
  <2>1. svc'.version = svc.version
    BY <1>0, <1>3 DEF ForceRelease, ForceReleased, ForceExpire, ForceExpired, Tick,
                      Elapsed, Service
  <2>2. QED
    BY <1>3, <2>1, IdleQuiet DEF ForceRelease, ForceExpire, Tick, Quiescent, FileVersion
<1>4. QED
  BY <1>1, <1>2, <1>3

\* What authorize does when it succeeds.
LEMMA AuthorizeOkFacts ==
  ASSUME ~Split, TypeOK, NEW a \in Holder, AuthorizeOk(a)
  PROVE  /\ \A b \in Holder : pend[b] = None
         /\ snap[a] # None /\ snap[a].version = FileVersion
         /\ FileVersion' = FileVersion + 1
         /\ \A b \in Holder \ {a} : pend'[b] = None
         /\ pend'[a].newVersion = FileVersion + 1
         /\ pend'[a].content = [by |-> a, ver |-> FileVersion + 1]
         /\ tmp' = pend'[a].content
         /\ pend'[a] # None
         /\ UNCHANGED <<file, snap, accepted>>
<1>0. svc \in Service /\ File \in Resource
  BY HarnessAssumption DEF TypeOK
<1>1. PICK k \in Locked(a) :
        /\ CanCommit(k.svc, HoldingOf(a, k.ticket), snap[a].version)
        /\ svc' = Committed(k.svc, HoldingOf(a, k.ticket))
        /\ pend' = [pend EXCEPT ![a] = [ticket |-> k.ticket,
                                        content |-> Edit(a),
                                        newVersion |-> FileVersion + 1]]
  BY DEF AuthorizeOk
<1>2. k.svc \in Service /\ k.svc.version = svc.version
  BY LockedType
<1>3. snap[a].version = FileVersion
  BY <1>1, <1>2 DEF CanCommit, HoldingOf, FileVersion
<1>4. FileVersion' = FileVersion + 1
  BY <1>0, <1>1, <1>2 DEF Committed, HoldingOf, FileVersion, Sweep, Service
<1>5. (\A b \in Holder : pend[b] = None) /\ snap[a] # None
  BY IdleQuiet DEF AuthorizeOk, CanWrite
<1>6. pend \in [Holder -> Authorized \cup {None}]
  BY DEF TypeOK
<1>7. pend'[a] # None /\ \A b \in Holder \ {a} : pend'[b] = None
  BY <1>1, <1>5, <1>6 DEF None
<1>8. Edit(a) = [by |-> a, ver |-> FileVersion + 1]
  BY <1>3 DEF Edit
<1>9. QED
  BY <1>1, <1>3, <1>4, <1>5, <1>6, <1>7, <1>8 DEF AuthorizeOk

LEMMA ApplyFacts ==
  ASSUME ~Split, WInv, NEW a \in Holder, Apply(a)
  PROVE  /\ pend[a] # None /\ pend[a].newVersion = FileVersion /\ tmp = pend[a].content
         /\ \A b \in Holder : pend'[b] = None
         /\ FileVersion' = FileVersion
         /\ \/ ApplyOk(a) /\ file' = pend[a].content /\ accepted'.content = file'
            \/ /\ "DuringRename" \in IoFaults
               /\ UNCHANGED <<file, accepted>>
         /\ UNCHANGED snap
<1>0. /\ svc \in Service /\ File \in Resource /\ pend \in [Holder -> Authorized \cup {None}]
      /\ pend[a] # None
  BY HarnessAssumption
     DEF WInv, TypeOK, Apply, ApplyOk, ApplySuperseded, ApplyFails
<1>1. /\ pend[a].newVersion = FileVersion /\ tmp = pend[a].content
      /\ \A b \in Holder \ {a} : pend[b] = None
  BY <1>0 DEF WInv, OneWrite
<1>2. tmp # None
  BY <1>0, <1>1, Fields, NoneDiffers DEF WInv
<1>3. StillCurrent(pend[a])
  BY <1>1 DEF StillCurrent
<1>4. svc'.version = svc.version
  BY <1>0 DEF Apply, ApplyOk, ApplySuperseded, ApplyFails, Finish, Released, Sweep, Service
<1>5. pend' = [pend EXCEPT ![a] = None]
  BY DEF Apply, ApplyOk, ApplySuperseded, ApplyFails, Finish
<1>6. \A b \in Holder : pend'[b] = None
  BY <1>0, <1>1, <1>5
<1>7. CASE ApplyOk(a)
  BY <1>0, <1>1, <1>4, <1>6, <1>7 DEF ApplyOk, FileVersion
<1>8. CASE ApplyFails(a)
  BY <1>0, <1>1, <1>2, <1>4, <1>6, <1>8 DEF ApplyFails, FileVersion
<1>9. QED
  BY <1>3, <1>7, <1>8 DEF Apply, ApplySuperseded

LEMMA NextWInv == ASSUME ~Split PROVE WInv /\ [Next]_vars => WInv'
<1> SUFFICES ASSUME WInv, [Next]_vars PROVE WInv'
  OBVIOUS
<1>0. TypeOK /\ TypeOK'
  BY NextTypeOK DEF WInv
<1>1. CASE Quiescent
  BY <1>0, <1>1, QuietWInv DEF Quiescent
<1>2. ASSUME NEW a \in Holder, AuthorizeOk(a) PROVE WInv'
  BY <1>0, <1>2, AuthorizeOkFacts DEF WInv, OneWrite, FileIsLastAccepted
<1>3. ASSUME NEW a \in Holder, Apply(a) PROVE WInv'
  BY <1>0, <1>3, ApplyFacts DEF WInv, OneWrite, FileIsLastAccepted
<1>4. CASE UNCHANGED vars
  BY <1>0, <1>4 DEF vars, WInv, OneWrite, FileIsLastAccepted, FileVersion
<1>5. QED
  BY <1>0, <1>1, <1>2, <1>3, <1>4, ReadQuiescent, AuthorizeQuiescent, OtherQuiescent
     DEF Next, Authorize, DropAuthorized

\* P3 and P4 for write: whatever the lock service and the file system do, the
\* file is at every moment the last write reported accepted.
THEOREM NoPhantomWrite == ASSUME ~Split PROVE Spec => []FileIsLastAccepted
<1>1. WInv /\ [Next]_vars => WInv'
  BY NextWInv
<1>2. WInv => FileIsLastAccepted
  BY DEF WInv
<1>3. QED
  BY <1>1, <1>2, InitWInv, PTL DEF Spec

-----------------------------------------------------------------------------
(* A register with compare-and-swap *)

RegVersion == IF Unapplied THEN FileVersion - 1 ELSE FileVersion

\* No snapshot is ahead of the file, and one of the current version has the
\* current bytes; the author of an outstanding write has such a one.
SnapshotsTrue ==
    /\ \A a \in Holder : snap[a] # None =>
          /\ snap[a].version <= RegVersion
          /\ snap[a].version = RegVersion => snap[a].content = file
    /\ \A a \in Holder : pend[a] # None =>
          /\ snap[a] = [content |-> file, version |-> RegVersion]
          /\ pend[a].content = [by |-> a, ver |-> RegVersion + 1]

RInv == WInv /\ SnapshotsTrue

LEMMA InitRInv == Init => RInv
  BY InitWInv DEF Init, RInv, SnapshotsTrue

LEMMA QuietRegVersion ==
  ASSUME \A b \in Holder : pend[b] = None PROVE RegVersion = FileVersion
  BY DEF RegVersion, Unapplied

LEMMA QuiescentRegVersion ==
  ASSUME Quiescent
  PROVE  RegVersion = FileVersion /\ RegVersion' = RegVersion
  BY DEF Quiescent, RegVersion, Unapplied

\* A read returns the register, or leaves the agent what it had.
LEMMA ReadSnap ==
  ASSUME ~Split, TypeOK, NEW a \in Holder, Read(a)
  PROVE  \/ UNCHANGED snap
         \/ snap' = [snap EXCEPT ![a] = [content |-> file, version |-> FileVersion]]
  BY DEF Read, ReadWriteOnly, ReadFull, ReadContended, ReadFails

LEMMA ReadRInv ==
  ASSUME ~Split, RInv, NEW a \in Holder, Read(a) PROVE SnapshotsTrue'
<1>0. Quiescent /\ FileVersion \in Nat
  BY ReadQuiescent, FileVersionType DEF RInv, WInv
<1>1. RegVersion = FileVersion /\ RegVersion' = RegVersion /\ file' = file
  BY <1>0, QuiescentRegVersion DEF Quiescent
<1>2. \A b \in Holder : pend'[b] = None
  BY <1>0 DEF Quiescent
<1>3. snap \in [Holder -> Snapshot \cup {None}]
  BY DEF RInv, WInv, TypeOK
<1>4. \A b \in Holder : snap'[b] # None =>
        \/ snap'[b] = snap[b]
        \/ snap'[b] = [content |-> file, version |-> FileVersion]
  BY <1>3, ReadSnap DEF RInv, WInv
<1>5. QED
  BY <1>0, <1>1, <1>2, <1>4 DEF RInv, SnapshotsTrue

LEMMA AuthorizeOkRInv ==
  ASSUME ~Split, RInv, NEW a \in Holder, AuthorizeOk(a)
  PROVE  SnapshotsTrue' /\ RegVersion' = RegVersion
<1>0. TypeOK /\ FileVersion \in Nat
  BY FileVersionType DEF RInv, WInv
<1>1. /\ \A b \in Holder : pend[b] = None
      /\ snap[a] # None /\ snap[a].version = FileVersion
      /\ FileVersion' = FileVersion + 1
      /\ \A b \in Holder \ {a} : pend'[b] = None
      /\ pend'[a].content = [by |-> a, ver |-> FileVersion + 1]
      /\ pend'[a] # None
      /\ UNCHANGED <<file, snap>>
  BY <1>0, AuthorizeOkFacts
<1>2. RegVersion = FileVersion
  BY <1>1, QuietRegVersion
<1>3. RegVersion' = FileVersion
  BY <1>0, <1>1 DEF RegVersion, Unapplied
<1>4. snap[a] = [content |-> file, version |-> FileVersion]
  <2>1. snap[a].content = file
    BY <1>1, <1>2 DEF RInv, SnapshotsTrue
  <2>2. snap[a] \in Snapshot
    BY <1>0, <1>1, Fields
  <2>3. QED
    BY <1>1, <2>1, <2>2 DEF Snapshot
<1>5. QED
  BY <1>1, <1>2, <1>3, <1>4 DEF RInv, SnapshotsTrue

\* An apply that reaches the file is the register's write, and one that does not
\* is the write that fails: either way no snapshot is of the version it leaves.
LEMMA ApplyRInv ==
  ASSUME ~Split, RInv, NEW a \in Holder, Apply(a)
  PROVE  /\ SnapshotsTrue'
         /\ snap[a] = [content |-> file, version |-> RegVersion]
         /\ \/ file' = [by |-> a, ver |-> RegVersion + 1]
            \/ "DuringRename" \in IoFaults /\ file' = file
         /\ RegVersion' = RegVersion + 1
         /\ UNCHANGED snap
<1>0. TypeOK /\ FileVersion \in Nat
  BY FileVersionType DEF RInv, WInv
<1>1. /\ pend[a] # None
      /\ \A b \in Holder : pend'[b] = None
      /\ FileVersion' = FileVersion
      /\ file' = pend[a].content \/ ("DuringRename" \in IoFaults /\ file' = file)
      /\ UNCHANGED snap
  BY ApplyFacts DEF RInv
<1>2. RegVersion = FileVersion - 1
  BY <1>1 DEF RegVersion, Unapplied
<1>3. RegVersion' = FileVersion
  BY <1>1 DEF RegVersion, Unapplied
<1>4. /\ snap[a] = [content |-> file, version |-> RegVersion]
      /\ pend[a].content = [by |-> a, ver |-> RegVersion + 1]
  BY <1>1 DEF RInv, SnapshotsTrue
<1>5. \A b \in Holder : snap'[b] # None =>
        snap'[b].version \in Nat /\ snap'[b].version < RegVersion'
  BY <1>0, <1>1, <1>2, <1>3, Fields DEF RInv, SnapshotsTrue
<1>6. SnapshotsTrue'
  BY <1>1, <1>3, <1>5, <1>0 DEF SnapshotsTrue
<1>7. QED
  BY <1>0, <1>1, <1>2, <1>3, <1>4, <1>6

LEMMA QuietRInv ==
  ASSUME RInv, Quiescent, UNCHANGED snap PROVE SnapshotsTrue'
<1>1. RegVersion' = RegVersion
  BY QuiescentRegVersion
<1>2. QED
  BY <1>1 DEF RInv, SnapshotsTrue, Quiescent

LEMMA StutterRInv ==
  ASSUME RInv, UNCHANGED vars PROVE SnapshotsTrue' /\ RegVersion' = RegVersion
<1>1. RegVersion' = RegVersion
  BY DEF vars, RegVersion, Unapplied, FileVersion
<1>2. QED
  BY <1>1 DEF RInv, SnapshotsTrue, vars

LEMMA NextRInv ==
  ASSUME ~Split PROVE RInv /\ [Next]_vars => RInv'
<1> SUFFICES ASSUME RInv, [Next]_vars PROVE RInv'
  OBVIOUS
<1>0. TypeOK /\ WInv'
  BY NextWInv DEF RInv, WInv
<1>1. SnapshotsTrue'
  BY <1>0, ReadRInv, AuthorizeOkRInv, ApplyRInv, QuietRInv, StutterRInv,
     AuthorizeQuiescent, OtherQuiescent DEF Next, Authorize, DropAuthorized
<1>2. QED
  BY <1>0, <1>1 DEF RInv

LEMMA RegisterInit == Init => Register!Init
<1> SUFFICES ASSUME Init PROVE Register!Init
  OBVIOUS
<1>1. \A a \in Holder : pend[a] = None
  BY DEF Init
<1>2. FileVersion = 0
  BY HarnessAssumption DEF Init, FileVersion, NewService
<1>3. RegVersion = 0
  BY <1>1, <1>2, QuietRegVersion
<1>4. QED
  BY <1>3 DEF Init, Register!Init, Register!None, None, Initial, RegVersion

LEMMA RegisterStep ==
  ASSUME ~Split, RInv, [Next]_vars
  PROVE  [Register!Next]_Register!vars
<1>0. TypeOK
  BY DEF RInv, WInv
<1>1. ASSUME file' = file, RegVersion' = RegVersion, snap' = snap
      PROVE  [Register!Next]_Register!vars
  BY <1>1 DEF Register!vars, RegVersion
<1>2. CASE Quiescent /\ snap' = snap
  BY <1>1, <1>2, QuiescentRegVersion DEF Quiescent
<1>3. ASSUME NEW a \in Holder, Read(a) PROVE [Register!Next]_Register!vars
  <2>1. Quiescent
    BY <1>0, <1>3, ReadQuiescent
  <2>2. RegVersion = FileVersion /\ RegVersion' = RegVersion /\ file' = file
    BY <2>1, QuiescentRegVersion DEF Quiescent
  <2>3. CASE snap' = [snap EXCEPT ![a] = [content |-> file, version |-> FileVersion]]
    <3>1. Register!Read(a)
      BY <2>2, <2>3 DEF Register!Read, RegVersion
    <3>2. QED
      BY <3>1 DEF Register!Next
  <2>4. QED
    BY <1>0, <1>1, <1>3, <2>2, <2>3, ReadSnap
<1>4. ASSUME NEW a \in Holder, AuthorizeOk(a) PROVE [Register!Next]_Register!vars
  BY <1>1, <1>4, AuthorizeOkRInv DEF AuthorizeOk
<1>5. ASSUME NEW a \in Holder, Apply(a) PROVE [Register!Next]_Register!vars
  <2>1. CASE file' = [by |-> a, ver |-> RegVersion + 1]
    <3>1. Register!Write(a)
      BY <1>5, <2>1, ApplyRInv DEF Register!Write, Register!UpToDate, RegVersion
    <3>2. QED
      BY <3>1 DEF Register!Next
  <2>2. CASE "DuringRename" \in IoFaults /\ file' = file
    <3>1. Register!WriteFails(a)
      BY <1>5, <2>2, ApplyRInv DEF Register!WriteFails, Register!UpToDate, RegVersion
    <3>2. QED
      BY <3>1 DEF Register!Next
  <2>3. QED
    BY <1>5, <2>1, <2>2, ApplyRInv
<1>6. CASE UNCHANGED vars
  BY <1>1, <1>6, StutterRInv DEF vars
<1>7. QED
  BY <1>0, <1>2, <1>3, <1>4, <1>5, <1>6, AuthorizeQuiescent, OtherQuiescent
     DEF Next, Authorize, DropAuthorized

\* Callers of write see a register with compare-and-swap, whatever faults are
\* injected into the lock (two holders at once and repeated tickets included) and
\* the file system, under either span.
THEOREM HarnessImplementsRegister == ASSUME ~Split PROVE Spec => ImplementsRegister
<1>1. RInv /\ [Next]_vars => RInv'
  BY NextRInv
<1>2. RInv /\ [Next]_vars => [Register!Next]_Register!vars
  BY RegisterStep
<1>3. QED
  BY <1>1, <1>2, InitRInv, RegisterInit, PTL DEF Spec, ImplementsRegister, Register!Spec

\* No lost update through write (R6, P6): the bytes a write replaces are the
\* ones its author last read, whatever fails, also when a failed rename has left
\* the service a version ahead of the file.
THEOREM NoUpdateIsLost == ASSUME ~Split PROVE Spec => NoLostUpdate
<1>1. RInv /\ [Next]_vars => RInv'
  BY NextRInv
<1>2. ASSUME RInv, [Next]_vars
      PROVE  [file' # file => snap[file'.by].content = file]_vars
  <2>0. TypeOK
    BY <1>2 DEF RInv, WInv
  <2>1. ASSUME NEW a \in Holder, Apply(a), file' # file
        PROVE  snap[file'.by].content = file
    BY <1>2, <2>1, ApplyRInv
  <2>2. ASSUME NEW a \in Holder, AuthorizeOk(a) PROVE file' = file
    BY <2>2 DEF AuthorizeOk
  <2>3. CASE Quiescent
    BY <2>3 DEF Quiescent
  <2>4. QED
    BY <1>2, <2>0, <2>1, <2>2, <2>3, ReadQuiescent, AuthorizeQuiescent, OtherQuiescent
       DEF Next, Authorize, DropAuthorized
<1>3. QED
  BY <1>1, <1>2, InitRInv, PTL DEF Spec, NoLostUpdate

=============================================================================
