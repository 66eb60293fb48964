--------------------------- MODULE PublishProofs ----------------------------
(***************************************************************************)
(* What callers who drive authorize and apply apart still get, over the    *)
(* one staging file they share and after a revocation: Harness with Split  *)
(* TRUE or FALSE, for any number of agents and the faults each theorem     *)
(* allows.                                                                 *)
(***************************************************************************)
EXTENDS WriteProofs

\* Outstanding writes have distinct versions, none above the service's, and
\* each carries the content that names its version.
OutstandingDistinct ==
    /\ \A a \in Holder : pend[a] # None =>
          /\ pend[a].newVersion <= FileVersion
          /\ pend[a].content.ver = pend[a].newVersion
    /\ \A a, b \in Holder :
          pend[a] # None /\ pend[b] # None /\ pend[a].newVersion = pend[b].newVersion
              => a = b

\* The file has reached the service's version only if nobody is to apply it.
FileBehindCurrent ==
    /\ file.ver <= FileVersion
    /\ \A a \in Holder : pend[a] # None /\ StillCurrent(pend[a]) => file.ver < FileVersion

PInv ==
    /\ TypeOK
    /\ OutstandingDistinct
    /\ FileBehindCurrent
    /\ StagedIntactOrGone
    /\ FileIsLastAccepted

LEMMA InitPInv == Init => PInv
<1> SUFFICES ASSUME Init PROVE PInv
  OBVIOUS
<1>1. FileVersion = 0 /\ \A a \in Holder : pend[a] = None
  BY HarnessAssumption DEF Init, FileVersion, NewService
<1>2. QED
  BY <1>1, InitTypeOK DEF Init, Initial, PInv, OutstandingDistinct, FileBehindCurrent,
                          StagedIntactOrGone, FileIsLastAccepted

LEMMA PendNumbers ==
  ASSUME TypeOK
  PROVE  /\ FileVersion \in Nat /\ file.ver \in Nat
         /\ \A a \in Holder : pend[a] # None =>
               pend[a].newVersion \in Nat /\ pend[a].content \in Content
         /\ pend \in [Holder -> Authorized \cup {None}]
  BY FileVersionType, Fields DEF TypeOK, Content

\* Steps that authorize nothing and publish nothing: outstanding writes go,
\* the staging file stays or goes.
LEMMA QuietPInv ==
  ASSUME PInv, TypeOK', FileVersion' = FileVersion, UNCHANGED <<file, accepted>>,
         tmp' \in {tmp, None}, \A a \in Holder : pend'[a] \in {pend[a], None}
  PROVE  PInv'
<1>1. OutstandingDistinct'
  BY DEF PInv, OutstandingDistinct
<1>2. FileBehindCurrent' /\ StagedIntactOrGone'
  BY DEF PInv, FileBehindCurrent, StagedIntactOrGone, StillCurrent
<1>3. QED
  BY <1>1, <1>2 DEF PInv, FileIsLastAccepted

\* The new write is one version ahead of every other and of the file.
LEMMA AuthorizeOkVersion ==
  ASSUME TypeOK, NEW a \in Holder, AuthorizeOk(a)
  PROVE  /\ FileVersion' = FileVersion + 1
         /\ pend'[a] # None /\ pend'[a].newVersion = FileVersion + 1
         /\ pend'[a].content = Edit(a) /\ Edit(a).ver = FileVersion + 1
         /\ \A b \in Holder \ {a} : pend'[b] = pend[b]
<1>0. svc \in Service /\ File \in Resource
  BY HarnessAssumption DEF TypeOK
<1>1. PICK k \in Locked(a) :
        /\ CanCommit(k.svc, HoldingOf(a, k.ticket), snap[a].version)
        /\ svc' = Committed(k.svc, HoldingOf(a, k.ticket))
        /\ pend' = [pend EXCEPT ![a] = [ticket |-> k.ticket,
                                        content |-> Edit(a),
                                        newVersion |-> FileVersion + 1]]
  BY DEF AuthorizeOk
<1>2. k.svc \in Service /\ k.svc.version = svc.version
  BY LockedType
<1>3. snap[a].version = FileVersion
  BY <1>1, <1>2 DEF CanCommit, HoldingOf, FileVersion
<1>4. FileVersion' = FileVersion + 1
  BY <1>0, <1>1, <1>2 DEF Committed, HoldingOf, FileVersion, Sweep, Service
<1>5. pend'[a] # None
  BY <1>1, PendNumbers DEF None
<1>6. QED
  BY <1>1, <1>3, <1>4, <1>5, PendNumbers DEF Edit

LEMMA AuthorizeOkDistinct ==
  ASSUME TypeOK, OutstandingDistinct, NEW a \in Holder, AuthorizeOk(a)
  PROVE  OutstandingDistinct'
  BY AuthorizeOkVersion, PendNumbers DEF OutstandingDistinct

LEMMA AuthorizeOkPInv ==
  ASSUME PInv, TypeOK', NEW a \in Holder, AuthorizeOk(a) PROVE PInv'
<1>0. TypeOK
  BY DEF PInv
<1>1. tmp' = Edit(a) /\ UNCHANGED <<file, accepted>>
  BY DEF AuthorizeOk
<1>2. OutstandingDistinct'
  BY <1>0, AuthorizeOkDistinct DEF PInv
<1>3. FileBehindCurrent'
  BY <1>0, <1>1, AuthorizeOkVersion, PendNumbers DEF PInv, FileBehindCurrent
<1>4. StagedIntactOrGone'
  BY <1>0, <1>1, AuthorizeOkVersion, PendNumbers
     DEF PInv, OutstandingDistinct, StagedIntactOrGone, StillCurrent
<1>5. QED
  BY <1>1, <1>2, <1>3, <1>4 DEF PInv, FileIsLastAccepted

LEMMA ApplyVersion ==
  ASSUME TypeOK, NEW a \in Holder, Apply(a)
  PROVE  /\ FileVersion' = FileVersion /\ pend[a] # None
         /\ pend' = [pend EXCEPT ![a] = None]
<1>0. svc \in Service
  BY DEF TypeOK
<1>1. svc'.version = svc.version
  BY <1>0 DEF Apply, ApplyOk, ApplySuperseded, ApplyFails, Finish, Released, Sweep, Service
<1>2. QED
  BY <1>1 DEF Apply, ApplyOk, ApplySuperseded, ApplyFails, Finish, FileVersion

\* What is published is the write's own bytes, of a later version.
LEMMA ApplyOkPInv ==
  ASSUME PInv, TypeOK', NEW a \in Holder, ApplyOk(a)
  PROVE  PInv' /\ file'.ver > file.ver
<1>0. TypeOK /\ FileVersion' = FileVersion /\ pend[a] # None
      /\ pend' = [pend EXCEPT ![a] = None]
  BY ApplyVersion DEF PInv, Apply
<1>1. StillCurrent(pend[a]) /\ pend[a].newVersion = FileVersion
  BY DEF ApplyOk, StillCurrent
<1>2. file' = pend[a].content /\ accepted'.content = pend[a].content /\ tmp' = None
  BY <1>0, <1>1 DEF ApplyOk, PInv, StagedIntactOrGone
<1>3. file'.ver = FileVersion /\ file.ver < FileVersion
  BY <1>0, <1>1, <1>2 DEF PInv, OutstandingDistinct, FileBehindCurrent
<1>4. /\ pend'[a] = None
      /\ \A b \in Holder \ {a} :
           pend'[b] = pend[b] /\ ~(pend[b] # None /\ StillCurrent(pend[b]))
  BY <1>0, <1>1, PendNumbers DEF PInv, OutstandingDistinct, StillCurrent
<1>5. OutstandingDistinct'
  BY <1>0, <1>4 DEF PInv, OutstandingDistinct
<1>6. FileBehindCurrent' /\ StagedIntactOrGone'
  BY <1>0, <1>3, <1>4, PendNumbers DEF FileBehindCurrent, StagedIntactOrGone, StillCurrent
<1>7. QED
  BY <1>0, <1>2, <1>3, <1>5, <1>6, PendNumbers DEF PInv, FileIsLastAccepted

\* Every step that is no successful authorize keeps the service's version.
LEMMA OtherVersion ==
  ASSUME TypeOK,
         \/ \E a \in Holder : \/ Read(a) \/ Progress(a) \/ Abandon(a)
                              \/ AuthorizeContended(a) \/ AuthorizeRefused(a)
                              \/ PrepareFails(a) \/ Apply(a) \/ DropAuthorized(a)
         \/ ForceRelease \/ ForceExpire \/ Tick
  PROVE  FileVersion' = FileVersion /\ \A b \in Holder : pend'[b] \in {pend[b], None}
<1>0. svc \in Service /\ File \in Resource /\ pend \in [Holder -> Authorized \cup {None}]
  BY HarnessAssumption DEF TypeOK
<1>1. ASSUME svc'.version = svc.version, pend' = pend
      PROVE  FileVersion' = FileVersion /\ \A b \in Holder : pend'[b] \in {pend[b], None}
  BY <1>1 DEF FileVersion
<1>2. ASSUME NEW a \in Holder, Read(a) PROVE svc'.version = svc.version /\ pend' = pend
  <2>1. /\ Sweep(svc).version = svc.version
        /\ Sweep(Acquired(svc, File, a)).version = svc.version
    BY <1>0 DEF Sweep, Acquired, Service
  <2>2. QED
    BY <1>2, <2>1 DEF Read, ReadWriteOnly, ReadFull, ReadContended, ReadFails
<1>3. ASSUME NEW a \in Holder, Progress(a) \/ Abandon(a) \/ AuthorizeContended(a)
      PROVE  svc'.version = svc.version /\ pend' = pend
  BY <1>0, <1>3
     DEF Progress, Renewed, Abandon, Released, AuthorizeContended, Sweep, Service
<1>4. ASSUME NEW a \in Holder, AuthorizeRefused(a) \/ PrepareFails(a)
      PROVE  svc'.version = svc.version /\ pend' = pend
  <2>1. PICK k \in Locked(a) : svc' = AfterRefusal(k.svc, a, k.ticket) \/ svc' = k.svc
    BY <1>4 DEF AuthorizeRefused, PrepareFails
  <2>2. k.svc \in Service /\ k.svc.version = svc.version
    BY LockedType
  <2>3. svc'.version = svc.version
    BY <2>1, <2>2 DEF AfterRefusal, Released, Sweep, Service
  <2>4. QED
    BY <1>4, <2>3 DEF AuthorizeRefused, PrepareFails
<1>5. ASSUME ForceRelease \/ ForceExpire \/ Tick
      PROVE  svc'.version = svc.version /\ pend' = pend
  BY <1>0, <1>5 DEF ForceRelease, ForceReleased, ForceExpire, ForceExpired, Tick,
                    Elapsed, Service
<1>6. ASSUME NEW a \in Holder, Apply(a) \/ DropAuthorized(a)
      PROVE  FileVersion' = FileVersion /\ \A b \in Holder : pend'[b] \in {pend[b], None}
  <2>1. FileVersion' = FileVersion /\ pend' = [pend EXCEPT ![a] = None]
    BY <1>6, ApplyVersion DEF DropAuthorized, FileVersion
  <2>2. QED
    BY <1>0, <2>1
<1>7. QED
  BY <1>1, <1>2, <1>3, <1>4, <1>5, <1>6

LEMMA OtherPInv ==
  ASSUME PInv, TypeOK',
         \/ \E a \in Holder : \/ Read(a) \/ Progress(a) \/ Abandon(a)
                              \/ AuthorizeContended(a) \/ AuthorizeRefused(a)
                              \/ ApplySuperseded(a) \/ ApplyFails(a) \/ DropAuthorized(a)
         \/ ForceRelease \/ ForceExpire \/ Tick
  PROVE  PInv' /\ file' = file
<1>1. FileVersion' = FileVersion /\ \A b \in Holder : pend'[b] \in {pend[b], None}
  BY OtherVersion DEF PInv, Apply
<1>2. UNCHANGED <<file, accepted>> /\ tmp' \in {tmp, None}
  BY DEF Read, ReadWriteOnly, ReadFull, ReadContended, ReadFails, Progress, Abandon,
         AuthorizeContended, AuthorizeRefused, ApplySuperseded, ApplyFails, DropAuthorized,
         ForceRelease, ForceExpire, Tick
<1>3. QED
  BY <1>1, <1>2, QuietPInv

LEMMA NextPInv ==
  ASSUME "AfterTempWritten" \notin IoFaults
  PROVE  PInv /\ [Next]_vars => PInv' /\ (file' # file => file'.ver > file.ver)
<1> SUFFICES ASSUME PInv, [Next]_vars
             PROVE  PInv' /\ (file' # file => file'.ver > file.ver)
  OBVIOUS
<1>0. TypeOK'
  BY NextTypeOK DEF PInv
<1>1. ASSUME NEW a \in Holder, AuthorizeOk(a) PROVE PInv' /\ file' = file
  BY <1>0, <1>1, AuthorizeOkPInv DEF AuthorizeOk
<1>2. ASSUME NEW a \in Holder, ApplyOk(a) PROVE PInv' /\ file'.ver > file.ver
  BY <1>0, <1>2, ApplyOkPInv
<1>3. \A a \in Holder : ~PrepareFails(a)
  BY DEF PrepareFails
<1>4. CASE UNCHANGED vars
  BY <1>0, <1>4, QuietPInv DEF vars, FileVersion
<1>5. QED
  BY <1>0, <1>1, <1>2, <1>3, <1>4, OtherPInv DEF Next, Authorize, Apply

\* The guard in apply (R14): whichever writes are authorized, overtaken, revoked
\* or refused while others wait to be applied, the file only moves to later
\* versions.
THEOREM FileNeverGoesBack ==
  ASSUME "AfterTempWritten" \notin IoFaults PROVE Spec => PublishedInOrder
<1>1. PInv /\ [Next]_vars => PInv' /\ [file' # file => file'.ver > file.ver]_vars
  BY NextPInv
<1>2. QED
  BY <1>1, InitPInv, PTL DEF Spec, PublishedInOrder

\* P3 and P4 for callers that interleave the phases: the file is still the last
\* write reported accepted, though they share one staging file.
THEOREM NoPhantomWriteSplit ==
  ASSUME "AfterTempWritten" \notin IoFaults PROVE Spec => []FileIsLastAccepted
<1>1. PInv /\ [Next]_vars => PInv'
  BY NextPInv
<1>2. PInv => FileIsLastAccepted
  BY DEF PInv
<1>3. QED
  BY <1>1, <1>2, InitPInv, PTL DEF Spec

\* A write that nothing has overtaken finds its own bytes staged, or none: never
\* those of another.
THEOREM StagedBytesAreItsOwn ==
  ASSUME "AfterTempWritten" \notin IoFaults PROVE Spec => []StagedIntactOrGone
<1>1. PInv /\ [Next]_vars => PInv'
  BY NextPInv
<1>2. PInv => StagedIntactOrGone
  BY DEF PInv
<1>3. QED
  BY <1>1, <1>2, InitPInv, PTL DEF Spec

-----------------------------------------------------------------------------
(* What a revocation cannot stop *)

DInv == HeldInv /\ OutstandingDistinct

LEMMA InitDInv == Init => DInv
  BY InitHeldInv DEF Init, DInv, OutstandingDistinct

\* A step moves the version past every write that waits, or leaves it alone.
LEMMA StepVersion ==
  ASSUME TypeOK, OutstandingDistinct, [Next]_vars
  PROVE  /\ OutstandingDistinct'
         /\ \A a \in Holder :
               pend'[a] # None /\ pend'[a] = pend[a] /\ StillCurrent(pend[a])'
                  => StillCurrent(pend[a])
<1>1. ASSUME NEW a \in Holder, AuthorizeOk(a)
      PROVE  \A b \in Holder : pend'[b] # None /\ pend'[b] = pend[b]
                => pend[b].newVersion # FileVersion'
  BY <1>1, AuthorizeOkVersion, PendNumbers DEF OutstandingDistinct
<1>2. CASE \E a \in Holder : AuthorizeOk(a)
  BY <1>1, <1>2, AuthorizeOkDistinct DEF StillCurrent
<1>3. CASE FileVersion' = FileVersion /\ \A b \in Holder : pend'[b] \in {pend[b], None}
  BY <1>3 DEF OutstandingDistinct, StillCurrent
<1>4. CASE UNCHANGED vars
  BY <1>3, <1>4 DEF vars, FileVersion
<1>5. QED
  BY <1>2, <1>3, <1>4, OtherVersion DEF Next, Authorize

LEMMA NextDInv ==
  ASSUME ~NonMonotonicTickets
  PROVE  DInv /\ [Next]_vars =>
           /\ DInv'
           /\ \A a \in Holder : Late(a)' => Late(a) \/ barrier' > barrier
           /\ accepted' # accepted /\ accepted'.ticket < barrier =>
                 \A a \in Holder : ~Late(a)'
<1> SUFFICES ASSUME DInv, [Next]_vars
             PROVE  /\ DInv'
                    /\ \A a \in Holder : Late(a)' => Late(a) \/ barrier' > barrier
                    /\ accepted' # accepted => \A a \in Holder : ~Late(a)'
  OBVIOUS
<1>0. TypeOK
  BY DEF DInv, HeldInv
<1>1. /\ HeldInv' /\ AuthorizedAbove
      /\ barrier' = barrier \/ barrier' > barrier
      /\ accepted' = accepted \/ \E a \in Holder : ApplyOk(a)
  BY NextHeldInv DEF DInv
<1>2. /\ OutstandingDistinct'
      /\ \A a \in Holder :
            pend'[a] # None /\ pend'[a] = pend[a] /\ StillCurrent(pend[a])'
               => StillCurrent(pend[a])
  BY <1>0, StepVersion DEF DInv
<1>3. ASSUME NEW a \in Holder, Late(a)', barrier' = barrier PROVE Late(a)
  <2>1. pend'[a] # None /\ StillCurrent(pend[a])' /\ pend'[a].ticket < barrier
    BY <1>3 DEF Late
  <2>2. pend'[a] = pend[a]
    <3>1. pend'[a].ticket \in Nat /\ barrier \in Nat
      BY <1>1, <2>1 DEF HeldInv, DInv, TypeOK, Authorized, Ticket
    <3>2. QED
      BY <1>1, <1>3, <2>1, <3>1 DEF AuthorizedAbove
  <2>3. QED
    BY <1>2, <2>1, <2>2 DEF Late
<1>4. ASSUME NEW b \in Holder, ApplyOk(b), NEW a \in Holder PROVE ~Late(a)'
  <2>1. /\ FileVersion' = FileVersion /\ pend[b] # None
        /\ pend' = [pend EXCEPT ![b] = None]
    BY <1>0, <1>4, ApplyVersion DEF Apply
  <2>2. pend[b].newVersion = FileVersion
    BY <1>4 DEF ApplyOk, StillCurrent
  <2>3. QED
    BY <1>0, <2>1, <2>2, PendNumbers DEF DInv, OutstandingDistinct, Late, StillCurrent
<1>5. QED
  BY <1>1, <1>2, <1>3, <1>4 DEF DInv

\* What is left of P8 when authorize and apply are driven apart (harness.rs,
\* apply; doc/test-design.md), whatever fails but a ticket source that repeats
\* itself: a write is late only through a revocation, and once one write has
\* landed none that waits can land late, so that each revocation lets at most one.
THEOREM AtMostOneLateWrite ==
  ASSUME ~NonMonotonicTickets PROVE Spec => OneLateWrite
<1>1. DInv /\ [Next]_vars
        => DInv' /\ [ /\ \A a \in Holder : Late(a)' => Late(a) \/ barrier' > barrier
                      /\ accepted' # accepted /\ accepted'.ticket < barrier =>
                            \A a \in Holder : ~Late(a)' ]_vars
  BY NextDInv
<1>2. QED
  BY <1>1, InitDInv, PTL DEF Spec, OneLateWrite

=============================================================================
