------------------------------ MODULE Harness -------------------------------
(***************************************************************************)
(* The harness (src/src/harness.rs): the sole gatekeeper to one protected  *)
(* file, composed of the lock service (FakeLock) and the file store        *)
(* (src/src/store.rs).  Agents call read, write, progress and abandon; a   *)
(* preemptor calls force_release.  write is authorize, then apply; both    *)
(* are public, and each runs without suspending on the in-memory service.  *)
(*                                                                         *)
(* A content is [by, ver]: who wrote it, and the version it was written to *)
(* be.  It names the bytes; the program never looks inside them.           *)
(***************************************************************************)
EXTENDS FakeLock

CONSTANTS
    File,       \* the harness's resource: the path of its file
    Span,       \* cfg.span: "WriteOnly" or "Full"
    Ceiling,    \* cfg.hold_ceiling
    Split,      \* TRUE: callers drive authorize and apply apart;
                \* FALSE: they call write, which nothing interrupts
    IoFaults,   \* the store operations that may fail
    Nobody,     \* wrote the initial content
    MaxTicket,  \* bound: no ticket above it is issued
    MaxVersion  \* bound: no version above it is authorized

ASSUME HarnessAssumption ==
    /\ File \in Resource
    /\ Span \in {"WriteOnly", "Full"}
    /\ Ceiling \in Nat
    /\ Split \in BOOLEAN
    /\ IoFaults \subseteq {"Read", "AfterTempWritten", "DuringRename"}
    /\ Nobody \notin Holder
    /\ MaxTicket \in Nat
    /\ MaxVersion \in Nat

VARIABLES
    svc,        \* the lock service
    file,       \* the bytes of the file
    tmp,        \* the bytes of the one staging file beside it, or None
    open,       \* open[a]: the hold kept across a's thinking, or None
    snap,       \* snap[a]: what a's last read returned, or None
    pend,       \* pend[a]: a's Authorized write not yet applied, or None
    accepted,   \* the last WriteAccepted recorded: content and ticket
    barrier     \* what the last force_release returned

vars == <<svc, file, tmp, open, snap, pend, accepted, barrier>>

Content == [by : Holder \cup {Nobody}, ver : Nat]
Snapshot == [content : Content, version : Version]
Open == [ticket : Ticket, age : Nat]
Authorized == [ticket : Ticket, content : Content, newVersion : Version]

None == [none |-> TRUE]
Initial == [by |-> Nobody, ver |-> 0]

Init ==
    /\ svc = NewService
    /\ file = Initial
    /\ tmp = None
    /\ open = [a \in Holder |-> None]
    /\ snap = [a \in Holder |-> None]
    /\ pend = [a \in Holder |-> None]
    /\ accepted = [content |-> Initial, ticket |-> 0]
    /\ barrier = 0

-----------------------------------------------------------------------------
(* Helpers *)

HoldingOf(a, t) == [resource |-> File, holder |-> a, ticket |-> t]
FileVersion == svc.version[File]

\* One call at a time per agent; write keeps the thread until it returns.
Idle(a) == pend[a] = None /\ (Split \/ \A b \in Holder : pend[b] = None)

\* What the agent writes is an edit of what it read.
Edit(a) == [by |-> a, ver |-> snap[a].version + 1]

\* The age of a hold stops counting once no decision can depend on it.
MaxAge == Ceiling + Lease
Older(o) == [o EXCEPT !.age = IF o.age < MaxAge THEN o.age + 1 ELSE o.age]

AtCeilingNever(o) == FALSE
AtCeiling(o) == o.age >= Ceiling

-----------------------------------------------------------------------------
(* read *)

ReadWriteOnly(a) ==
    /\ Span = "WriteOnly"
    /\ Idle(a)
    /\ svc' = Sweep(svc)
    /\ snap' = [snap EXCEPT ![a] = [content |-> file, version |-> FileVersion]]
    /\ UNCHANGED <<file, tmp, open, pend, accepted, barrier>>

Opened(a) == [open EXCEPT ![a] = [ticket |-> NewTicket(svc), age |-> 0]]

ReadFull(a) ==
    /\ Span = "Full"
    /\ Idle(a)
    /\ CanAcquire(svc, File)
    /\ svc.next <= MaxTicket
    /\ svc' = Sweep(Acquired(svc, File, a))
    /\ open' = Opened(a)
    /\ snap' = [snap EXCEPT ![a] = [content |-> file, version |-> FileVersion]]
    /\ UNCHANGED <<file, tmp, pend, accepted, barrier>>

ReadContended(a) ==
    /\ Span = "Full"
    /\ Idle(a)
    /\ ~CanAcquire(svc, File)
    /\ svc' = Sweep(svc)
    /\ UNCHANGED <<file, tmp, open, snap, pend, accepted, barrier>>

\* The lock is taken and noted before the file is read, and the error leaves
\* both as they are; the agent keeps the snapshot it had.
ReadFails(a) ==
    /\ "Read" \in IoFaults
    /\ Idle(a)
    /\ IF Span = "Full"
       THEN /\ CanAcquire(svc, File)
            /\ svc.next <= MaxTicket
            /\ svc' = Sweep(Acquired(svc, File, a))
            /\ open' = Opened(a)
       ELSE svc' = Sweep(svc) /\ UNCHANGED open
    /\ UNCHANGED <<file, tmp, snap, pend, accepted, barrier>>

-----------------------------------------------------------------------------
(* progress *)

Progress(a) ==
    /\ Idle(a)
    /\ open[a] # None
    /\ ~AtCeiling(open[a])
    /\ svc' = Renewed(svc, HoldingOf(a, open[a].ticket))
    /\ UNCHANGED <<file, tmp, open, snap, pend, accepted, barrier>>

-----------------------------------------------------------------------------
(* authorize *)

\* Holding the lock for a write by a: [ticket, svc], the ticket the write will
\* carry and the service it leaves.  Under Full it is the hold opened by read,
\* unless the ceiling has passed; otherwise it is acquired here.
Locked(a) ==
    IF Span = "Full"
    THEN IF open[a] # None /\ ~AtCeiling(open[a])
         THEN {[ticket |-> open[a].ticket, svc |-> svc]}
         ELSE {}
    ELSE IF CanAcquire(svc, File) /\ svc.next <= MaxTicket
         THEN {[ticket |-> NewTicket(svc), svc |-> Acquired(svc, File, a)]}
         ELSE {}

CanWrite(a) == Idle(a) /\ snap[a] # None /\ FileVersion < MaxVersion

AuthorizeContended(a) ==
    /\ Span = "WriteOnly"
    /\ CanWrite(a)
    /\ ~CanAcquire(svc, File)
    /\ svc' = Sweep(svc)
    /\ UNCHANGED <<file, tmp, open, snap, pend, accepted, barrier>>

AuthorizeOk(a) ==
    /\ CanWrite(a)
    /\ \E k \in Locked(a) :
         /\ CanCommit(k.svc, HoldingOf(a, k.ticket), snap[a].version)
         /\ svc' = Committed(k.svc, HoldingOf(a, k.ticket))
         /\ pend' = [pend EXCEPT ![a] = [ticket |-> k.ticket,
                                         content |-> Edit(a),
                                         newVersion |-> FileVersion + 1]]
    /\ tmp' = Edit(a)
    /\ UNCHANGED <<file, open, snap, accepted, barrier>>

\* What a refused attempt leaves of the lock: only WriteOnly gives it back.
AfterRefusalKept(s, a, t) == Sweep(s)
AfterRefusal(s, a, t) ==
    IF Span = "WriteOnly" THEN Released(s, HoldingOf(a, t)) ELSE Sweep(s)

AuthorizeRefusedKeepsTmp(a) ==
    /\ CanWrite(a)
    /\ \E k \in Locked(a) :
         /\ ~CanCommit(k.svc, HoldingOf(a, k.ticket), snap[a].version)
         /\ svc' = AfterRefusal(k.svc, a, k.ticket)
    /\ tmp' = Edit(a)
    /\ UNCHANGED <<file, open, snap, pend, accepted, barrier>>

AuthorizeRefused(a) ==
    /\ CanWrite(a)
    /\ \E k \in Locked(a) :
         /\ ~CanCommit(k.svc, HoldingOf(a, k.ticket), snap[a].version)
         /\ svc' = AfterRefusal(k.svc, a, k.ticket)
    /\ tmp' = None
    /\ UNCHANGED <<file, open, snap, pend, accepted, barrier>>

\* prepare has written the staging file and then fails: the call returns with
\* the lock held and the bytes left behind.
PrepareFails(a) ==
    /\ "AfterTempWritten" \in IoFaults
    /\ CanWrite(a)
    /\ \E k \in Locked(a) : svc' = k.svc
    /\ tmp' = Edit(a)
    /\ UNCHANGED <<file, open, snap, pend, accepted, barrier>>

-----------------------------------------------------------------------------
(* apply, with finish *)

StillCurrentNever(p) == TRUE
StillCurrent(p) == FileVersion = p.newVersion

FinishNoRelease(a) ==
    /\ svc' = Sweep(svc)
    /\ open' = [open EXCEPT ![a] = None]
    /\ pend' = [pend EXCEPT ![a] = None]

\* The hold is forgotten and released on every path that reaches finish.
Finish(a) ==
    /\ svc' = Released(svc, HoldingOf(a, pend[a].ticket))
    /\ open' = [open EXCEPT ![a] = None]
    /\ pend' = [pend EXCEPT ![a] = None]

ApplyOk(a) ==
    /\ pend[a] # None
    /\ StillCurrent(pend[a])
    /\ tmp # None
    /\ file' = tmp
    /\ tmp' = None
    /\ accepted' = [content |-> pend[a].content, ticket |-> pend[a].ticket]
    /\ Finish(a)
    /\ UNCHANGED <<snap, barrier>>

ApplySuperseded(a) ==
    /\ pend[a] # None
    /\ ~StillCurrent(pend[a])
    /\ tmp' = None
    /\ Finish(a)
    /\ UNCHANGED <<file, snap, accepted, barrier>>

ApplyFailsRecorded(a) ==
    /\ pend[a] # None
    /\ StillCurrent(pend[a])
    /\ tmp = None \/ "DuringRename" \in IoFaults
    /\ svc' = Sweep(svc)
    /\ pend' = [pend EXCEPT ![a] = None]
    /\ accepted' = [content |-> pend[a].content, ticket |-> pend[a].ticket]
    /\ UNCHANGED <<file, tmp, open, snap, barrier>>

\* The rename fails, for want of the staging file or by itself: the call
\* returns before finish.
ApplyFails(a) ==
    /\ pend[a] # None
    /\ StillCurrent(pend[a])
    /\ tmp = None \/ "DuringRename" \in IoFaults
    /\ svc' = Sweep(svc)
    /\ pend' = [pend EXCEPT ![a] = None]
    /\ UNCHANGED <<file, tmp, open, snap, accepted, barrier>>

\* A caller that drives the phases apart may drop its Authorized, a plain value
\* that nothing gives back: lock, staged bytes and committed version all stay.
DropAuthorized(a) ==
    /\ Split
    /\ pend[a] # None
    /\ pend' = [pend EXCEPT ![a] = None]
    /\ UNCHANGED <<svc, file, tmp, open, snap, accepted, barrier>>

-----------------------------------------------------------------------------
(* abandon, force_release, and what the world does *)

Abandon(a) ==
    /\ Idle(a)
    /\ open[a] # None
    /\ svc' = Released(svc, HoldingOf(a, open[a].ticket))
    /\ open' = [open EXCEPT ![a] = None]
    /\ UNCHANGED <<file, tmp, snap, pend, accepted, barrier>>

Quiet == Split \/ \A a \in Holder : pend[a] = None

ForceRelease ==
    /\ Quiet
    /\ Barrier(svc) <= MaxTicket + 1
    /\ svc' = ForceReleased(svc, File)
    /\ barrier' = Barrier(svc)
    /\ UNCHANGED <<file, tmp, open, snap, pend, accepted>>

ForceExpire ==
    /\ Quiet
    /\ svc' = ForceExpired(svc, File)
    /\ UNCHANGED <<file, tmp, open, snap, pend, accepted, barrier>>

Tick ==
    /\ Quiet
    /\ svc' = Elapsed(svc)
    /\ open' = [a \in Holder |-> IF open[a] = None THEN None ELSE Older(open[a])]
    /\ UNCHANGED <<file, tmp, snap, pend, accepted, barrier>>

-----------------------------------------------------------------------------

Read(a) == ReadWriteOnly(a) \/ ReadFull(a) \/ ReadContended(a) \/ ReadFails(a)
Authorize(a) ==
    AuthorizeContended(a) \/ AuthorizeOk(a) \/ AuthorizeRefused(a) \/ PrepareFails(a)
Apply(a) == ApplyOk(a) \/ ApplySuperseded(a) \/ ApplyFails(a)

Next ==
    \/ \E a \in Holder :
          \/ Read(a) \/ Progress(a) \/ Abandon(a)
          \/ Authorize(a) \/ Apply(a) \/ DropAuthorized(a)
    \/ ForceRelease
    \/ ForceExpire
    \/ Tick

Spec == Init /\ [][Next]_vars

-----------------------------------------------------------------------------
(* Safety *)

HasLive(a, t) == \E h \in svc.held : Same(h, HoldingOf(a, t)) /\ Live(h)

\* Every variable keeps its type; an Authorized carries the version it was
\* authorized as, and the bytes written for it.
TypeOK ==
    /\ svc \in Service
    /\ file \in Content
    /\ tmp \in Content \cup {None}
    /\ open \in [Holder -> Open \cup {None}]
    /\ snap \in [Holder -> Snapshot \cup {None}]
    /\ pend \in [Holder -> Authorized \cup {None}]
    /\ accepted \in [content : Content, ticket : Nat]
    /\ barrier \in Nat

\* P3 and P4 of the checker, at every moment instead of at the end: the file
\* holds the bytes of the last write reported accepted, never those of a
\* refused, superseded or failed one (harness.rs, apply; store.rs).
FileIsLastAccepted == file = accepted.content

\* No lost update (R6, P6): the bytes a write replaces are the bytes its author
\* last read, not only the version it quotes.
NoLostUpdate == [][file' # file => snap[file'.by].content = file]_vars

\* The file only moves to later versions: an authorization that was overtaken
\* never lands on top of the one that overtook it (R14, the guard in apply).
PublishedInOrder == [][file' # file => file'.ver > file.ver]_vars

\* The file goes through every version the service counts: no write lands
\* while the service is ahead of the file.
PublishedInSequence == [][file' # file => file'.ver = file.ver + 1]_vars

\* The bytes of an authorized write that nothing has overtaken are the ones
\* staged, so that applying it applies the decision the service committed.
StagedIntact ==
    \A a \in Holder :
        pend[a] # None /\ StillCurrent(pend[a]) => tmp = pend[a].content

\* The weaker fact that holds when callers interleave the phases: those bytes
\* are staged or the staging file is gone, never another write's bytes.
StagedIntactOrGone ==
    \A a \in Holder :
        pend[a] # None /\ StillCurrent(pend[a]) => tmp \in {pend[a].content, None}

\* P5, R8, R9: a lock that is still live is one the harness can give back,
\* through abandon or through the apply to come; no exit path forgets one.
\* Only a release that the fault drops leaves it to its lease.
NoOrphanHold ==
    \A h \in svc.held : Live(h) /\ h.holder \notin DropRelease =>
        \/ open[h.holder] # None /\ open[h.holder].ticket = h.ticket
        \/ pend[h.holder] # None /\ pend[h.holder].ticket = h.ticket

\* P8: no write is accepted after a revocation on a ticket issued before it.
RevokedNeverLands ==
    [][accepted' # accepted => accepted'.ticket >= barrier]_vars

\* A write that was authorized before the last revocation and can still land.
Late(a) == pend[a] # None /\ StillCurrent(pend[a]) /\ pend[a].ticket < barrier

\* What is left of P8 when callers drive the phases apart: only a revocation
\* makes a write late, and once one late write has landed no other can, so that
\* each revocation lets at most one land.
OneLateWrite ==
    [][ /\ \A a \in Holder : Late(a)' => Late(a) \/ barrier' > barrier
        /\ accepted' # accepted /\ accepted'.ticket < barrier =>
              \A a \in Holder : ~Late(a)' ]_vars

\* Full span (read): while an agent's hold is live nothing changes under it,
\* so what it read is what the file and the service still say.
ReaderUndisturbed ==
    \A a \in Holder :
        open[a] # None /\ pend[a] = None /\ HasLive(a, open[a].ticket) =>
            snap[a] = [content |-> file, version |-> FileVersion]

\* R4: renewal stops at the ceiling, so a hold outlives it by less than the
\* one lease its last renewal bought, however often it reports progress.
HoldBound ==
    \A a \in Holder :
        open[a] # None /\ HasLive(a, open[a].ticket) => open[a].age < MaxAge

Kept(h) == open[h.holder] # None /\ open[h.holder].ticket = h.ticket

\* How long a hold can still last: one that its holder may renew, until it is
\* as old as ceiling and lease together; any other, until its lease is over.
TimeLeft(h) == IF Kept(h) THEN MaxAge - open[h.holder].age ELSE h.ttl

\* Why HoldEnds holds (R2, R4): a hold that has lapsed stays lapsed, no step
\* gives a live one more time than it had, and the clock takes some from it.
HoldsRunDown ==
    [][\A h \in svc.held, k \in svc'.held : Same(h, k) /\ Live(k) =>
          /\ Live(h)
          /\ TimeLeft(k)' <= TimeLeft(h)
          /\ Tick => TimeLeft(k)' < TimeLeft(h)]_vars

(* Refinement *)

Unapplied == \E a \in Holder : pend[a] # None

\* An authorized write takes effect for readers when it is applied.
Register == INSTANCE VersionedRegister WITH
    RenameMayFail <- "DuringRename" \in IoFaults,
    value <- file,
    version <- IF Unapplied THEN FileVersion - 1 ELSE FileVersion,
    seen <- snap

\* Through write, the harness is a register with compare-and-swap: whatever
\* the lock service grants, swallows, drops or revokes meanwhile, and whatever
\* the file system fails to do.
ImplementsRegister == Register!Spec

(* Liveness *)

\* R2, R4: every hold ends, by release, lapse or revocation, even of an agent
\* that only ever reports progress and of one whose call failed midway.
HoldEnds ==
    \A t \in 1..MaxTicket :
        (\E a \in Holder : HasLive(a, t)) ~> ~(\E a \in Holder : HasLive(a, t))

=============================================================================
