# mas-harness-lock: a TLA+ model of the harness, its lock and its file

The program lets several LLM agents edit one file. A *harness* is the sole
gatekeeper: an agent reads through it, thinks for minutes, and writes through it.
A *lock service* decides who may write. The agents are slow, may wedge, may come
back late, and are never told that they lost the lock. The code is about 1,400
lines of Rust; what is hard in it is the order in which things happen.

All paths below are relative to the repository (`src/` is its root, so
`src/src/harness.rs` is the crate's `src/harness.rs`).

## 1. Inventory

| component | source | state | operations | talks to |
|---|---|---|---|---|
| types | `src/src/types.rs` | none | tickets, versions, holdings, refusals, spans | everything |
| lock service interface | `src/src/lock/mod.rs` | none (a trait) | acquire, release, keepalive, force_release, is_still_held, current_version, commit | called by the harness |
| in-memory lock service | `src/src/lock/fake.rs` | per resource: entries `held` with deadlines, content version; global: `next_ticket`, `last_issued`; four injectable faults | the trait's methods, a sweep of lapsed leases at the start of each, `force_expire`, `current_ticket` for tests | records events in the history |
| file store | `src/src/store.rs` | the target file and one staging file beside it; an injected failure point | read, prepare (stage), commit (rename) | called by the harness |
| harness | `src/src/harness.rs` | `open`: one kept hold per agent with the time it was taken; span and hold ceiling | read, progress, authorize, apply, write, abandon, force_release | lock service, file store, history |
| history | `src/src/history.rs` | an append-only log of events | record, entries, render | written by lock service, harness and agents, read by the checker |
| checker | `src/src/checker.rs` | none: each oracle folds the log into a few variables and reports | eight oracles p1..p8 over a finished history and the final content | reads the history |
| soak test | `src/tests/soak.rs` | seeded agents, some of them wedged; a fault schedule | rounds of read, progress, write, abandon, wedge, force_release and waiting, then the check | harness, history, checker |
| conformance tests, demo | `src/tests/conformance.rs`, `src/examples/demo.rs` | scripts under virtual time | they drive the harness | harness, checker |
| etcd / ZooKeeper backends, restart | documents only | | | no code at this commit |

How they interact. A call on the harness is a sequence of calls on the lock
service, each atomic under one mutex, with file operations between them. There is
no callback: a holder finds out that it lost the lock when its next commit is
refused. Time enters at two places, the lease of an entry (15 s by default) and
the hold ceiling (10 minutes), and both are looked at only when somebody calls:
nothing happens *because* time passes.

What is hard:

* a holder that lost the lock goes on calling, as late as it likes, with the
  ticket it remembers: commits, keepalives and releases arrive out of order;
* a lapsed entry stays in `held` until somebody's call sweeps it;
* authorize commits the version in the service before apply moves the bytes, so
  the two disagree for a while, and for good when the rename fails;
* all writers share one staging path;
* a call may fail between its lock operations, and each early return must leave
  the lock as its span requires;
* renewals race the ceiling;
* a caller of the public phases may drop what it authorized: lock, staged bytes and
  committed version all stay;
* the oracles judge the log, and not the run: an event recorded late, twice or never
  makes them report what did not happen, or miss what did;
* faults make the service itself break its contract (two holders at once, ticket
  values that repeat, renewals and releases that do nothing).

What makes each component correct:

* *lock service*: one holder at a time; a ticket lost is lost for good; nothing
  commits on a ticket older than a revocation or than a later commit; a client's
  call never ends another's hold; a wedged holder's hold ends by itself;
* *file store and harness together*: the file is always the last write reported
  accepted; no update is lost; the file never goes back; a staged write publishes
  its own bytes or none; no path leaks a lock; a hold is bounded by ceiling plus
  lease; a revoked write does not land;
* *history and checker*: replayed in order, the log gives the holds of the service; a
  run of the program as its tests drive it is reported by no oracle; what an oracle
  reports is a violation of the property it is named for.

## 2. Modules

| module | what it is | EXTENDS / INSTANCE |
|---|---|---|
| `FakeLock` | the lock service as pure operators on one record, faults included | |
| `LockService` | state machine: the service under clients that use any Holding they were ever granted | `FakeLock`, refines `FencedLock` |
| `FencedLock` | abstract: what the trait promises, with no clock, leases or names | |
| `Harness` | state machine: harness, lock service and file store composed | `FakeLock`, refines `VersionedRegister` |
| `VersionedRegister` | abstract: a value with a version and compare-and-swap writes | |
| `Checker` | the eight oracles as one fold: an operator per event, and the verdict at the end | |
| `Soak` | state machine: `Harness` with the events each call records, agents that wedge or finish, and the check of the run | `Harness`, `Checker` |
| `MCLockService`, `MCHarness`, `MCSoak` | the finite instances TLC checks | |
| `FakeLockProofs` | lemmas about the service's operators | |
| `LockServiceProofs`, `HarnessProofs`, `HoldBoundProofs`, `PublishProofs`, `WriteProofs`, `SpanProofs`, `SoakProofs` | theorems | |

### FakeLock and LockService

`svc` is the `State` behind the mutex of `FakeLockService`. Each method runs from
its `sweep` to its return under the mutex, so each is one operator from state to
state: `Acquired`, `Released`, `Renewed`, `ForceReleased`, `Committed`, and their
guards `CanAcquire` and `CanCommit`. A refused call still leaves the swept state,
and `LockService` has an action for it (`AcquireContended`, `CommitRefused`).
`is_still_held`, `current_version` and `current_ticket` only sweep: `Observe`.

Abstractions, each chosen because no decision of the code can tell the difference:

* *Time* is relative. An entry keeps `ttl`, the time left to its deadline, and
  `Tick` takes one unit from every entry. `deadline <= now` is `ttl = 0`. A tick
  sweeps nothing, as in the code.
* `held` is a set. The code's vector could hold equal entries only with
  `grant_twice` and `non_monotonic_tickets` together, which no test combines;
  `FaultsAssumption` excludes it.
* The content hash handed to commit is stored and never read; it is left out. The
  events the service records are in `Soak`.
* Whoever has a `Holding` may use it: `holdings` is every one ever returned by
  acquire, and any of them may be released, renewed or committed at any time, in
  any order, any number of times.
* Faults are constants, as `Faults` is fixed at construction (`with_faults`): the
  resources granted twice, the holders whose renewals or releases do nothing, and
  whether the ticket source repeats. `set_faults`, which nothing calls, is left out.

`barrier` and `lastCommit` are history variables: what the last `force_release`
returned, and the ticket of the last commit.

### Harness

State and code: `svc` is the lock service; `file` and `tmp` are the target and the
staging file; `open[a]` is the harness's map of kept holds, with `age` for the time
since `taken_at`; `snap[a]` is the `Snapshot` the agent's last read returned;
`pend[a]` is an `Authorized` that has not reached apply; `accepted` is the last
`WriteAccepted`; `barrier` what the last force_release returned.

One action per way a call can end:

| call | actions |
|---|---|
| read | `ReadWriteOnly`, `ReadFull`, `ReadContended`, `ReadFails` |
| progress | `Progress` |
| authorize | `AuthorizeContended`, `AuthorizeOk`, `AuthorizeRefused`, `PrepareFails` |
| apply, finish | `ApplyOk`, `ApplySuperseded`, `ApplyFails` |
| an `Authorized` that its caller drops | `DropAuthorized` (only with `Split`) |
| abandon | `Abandon` |
| force_release, force_expire | `ForceRelease`, `ForceExpire` |
| time | `Tick` |

Returns that change nothing (progress past the ceiling or with no open hold,
authorize past the ceiling or with no open hold, abandon with no open hold) have no
action: they are stuttering steps.

* `Split`. `write` is authorize, then apply. On the in-memory service neither
  suspends, and the design serialises calls on one thread
  (`src/src/harness.rs:262-265`), so nothing comes between them: `Split = FALSE`
  lets no other step happen while a write is outstanding, the clock's included. That is
  exact under the virtual time of the tests; real time passes inside write as well, and a
  lease may lapse between its commit and the sweep of apply, which `Split = TRUE` covers
  (`oracle_ticket_at_record`). Both phases are also
  public, "exposed so tests can drive the two phases separately (R14)":
  `Split = TRUE` lets anything happen in the gap. It is also the gap that a backend
  whose calls suspend would open inside write. In both modes an agent makes one
  call at a time, and applies or drops what it authorized before its next call: it does not report progress, read or abandon
  in between, as a caller of the public phases could.
* *Contents* are `[by, ver]`: who wrote the bytes and the version they were written
  to be. The program never looks inside a content; two writes are told apart by
  these two fields, and an agent's bytes are an edit of what it last read.
* `age` stops at `MaxAge = Ceiling + Lease`: no guard distinguishes larger ages.
* `IoFaults` names the store operations that *may* fail. The code's injection point
  is fixed for a store; a real file system fails now and then, which is the more
  general behaviour and includes the fixed one. `AfterTempWritten` fails after the
  bytes are staged, `DuringRename` before anything moves, `Read` after the lock
  calls of read.

### Checker and Soak

`Checker` keeps, in one record, what the oracles remember of the log so far: the holds
granted and not ended (p2 and p5 keep the same), the highest ticket, the last barrier
(p8), the open attempt of each holder with the version it was based on (p1, p6), the
version and content of the last accepted write, every content ever accepted, and the
agents seen, wedged and finished. The code makes eight passes over a finished log; each
pass is a left fold, so that folding every event when it is recorded gives the same
verdict. p1 alone looks back, at the windows of all accepted writes; in the fold an
attempt that was open while another holder's write was accepted is marked, and a marked
attempt that is accepted is an overlap. `Report` is `check` with every property.

`Soak` adds to each action of `Harness` the events the code records on that path, in
the code's order: `SweepEvents` for every lapsed entry a method's sweep removes,
`AcquireEvents`, `ReleaseEvents`, the attempt recorded once the lock is held and before
anything is staged, the acceptance recorded before finish releases. `Working` agents go
on calling; `Wedge` and `Retire` record how one ends; `CheckRun` is the end of `run_one`:
no agent works any more, two leases pass, `current_ticket` provokes the sweep, and the
history is checked. It differs from the soak test in one direction only: agents may
interleave where the test runs them in turn, may call in any order, and a run may have
any length within the bounds; every run of the test within the bounds is one of `Soak`.
The seeds draw the faults per run; here they are constants of the run.

## 3. Runs

Every passing run must terminate with no error; a violation run checks one claim of
the documents or tests that the code does not keep (section 6).

| run | instance | what it shows |
|---|---|---|
| `service` | 2 clients, an exclusive resource and one granted twice, swallowed renewals, dropped releases | mutual exclusion; a lost ticket stays lost; commits in ticket order; nothing commits below a barrier; holds end only by their own release, time or revocation; the service refines `FencedLock`; a wedged holder's hold only runs down, and it loses the lock |
| `harness_write_only` | `Soak`, 3 agents, write-only span, one agent's releases dropped | no update is lost, the file goes through every version, no path through read, write or a refusal leaks a lock, the check finds nothing |
| `harness_full` | `Soak`, 2 agents, full span, prepares that fail | a reader with a live hold is undisturbed; holds are bounded; no leak; a revoked write is never accepted |
| `harness_split` | `Soak` with a clock that does not stop, 2 agents, full span, phases apart, reads and renames that fail, dropped releases | what the version guard of apply still guarantees: the file is the last accepted write and never goes back; staged bytes are the write's own, or gone; two accepted writes never overlap; of the writes that wait at a revocation at most one lands. Every hold ends; none is forgotten but one whose release was dropped; only the oracles that split phases and failed renames expose report |
| `harness_register` | `Soak`, 2 agents, full span, two holders at once, dropped releases, swallowed renewals, every I/O failure | write and read together implement a compare-and-swap register and lose no update, also past a failed rename; every hold runs down; the history replays to the holds of the service; only P6 can report |
| `service_wedged`, `harness_split_revoked`, `harness_split_lost_update`, `harness_split_staging`, `harness_prepare_leak`, `harness_rename_fault`, `oracle_ticket_at_record` | 2 clients or agents each, those of the harness with the write-only span | the divergences of section 6 |

The passing runs of the harness are runs of `Soak`: until they end every agent may take
any step of `Harness`, and they take no other (`RunsAreTheHarness`). They say `CHECK_DEADLOCK FALSE`: a run ends with its
check, and nothing follows. Deadlock is checked in the other runs; it cannot occur there,
since the clock always ticks. Every property is paired with a mutant of the code's
model (a dropped comparison, a missing sweep, a release that is forgotten, an event
not recorded, a barrier one too high, ...) that breaks it under the same run.

### Bounds

* `MaxTicket` (3 to 5): no ticket above it is issued. Three is enough for a holder
  to lose the lock twice and come back late; the larger runs use 4 and 5 so that
  several agents go through several whole read-write rounds with a revocation.
* `MaxVersion` (2 to 4): no version above it is committed. A lost update or an
  overtaken write needs two commits; the rest is room for refusals before and after.
* `Lease` = 2, `Ceiling` = 2 or 3: with a lease of 2 an entry can be renewed while it
  is partly used and can be lapsed but unswept; with a ceiling at or above the lease
  a hold can be renewed more than once, and lapse before or after the ceiling.
* Agents: two suffice for every divergence found; `harness_write_only` uses three.
  Symmetry is of the agents that no constant of the run names, and only in runs without
  liveness.
* Phases apart are run under the full span; under the write-only span only the violation
  runs drive them apart, and the theorems of section 5 that allow it are for both spans.
* No run repeats tickets; section 5 says which theorems allow it.

The theorems of section 5 remove these bounds for nearly all of the safety properties.

### Fairness

* `WF(Tick)` in `LockService` and its like in `FairSoakSpec`: the clock does not stop
  while the run lasts. It is the only fairness assumed, and the whole reason a lease is a
  liveness mechanism: `WedgedHolderLapses` and `HoldEnds` follow from it although the
  agent may call progress for ever, may drop what it authorized, or may never come back.
  Once the run is checked, two leases have passed, and nothing is held.

Agents are not fair: they may stop between any two calls.

## 4. Safety properties worth a comment

* `NoLostUpdate` compares *bytes*: what a write replaces is what its author read.
  The code compares versions only; that the two agree is a property of the order of
  operations in read, authorize and apply, and it breaks when the phases are split.
* `HoldBound` is what "renewal never continues past the ceiling" amounts to: a hold
  can outlive the ceiling by less than one lease, which its last renewal bought.
  `src/doc/lock-interface.md:286` reads "a wedged holder loses its lock at the
  ceiling"; authorize refuses it from the ceiling on, and others wait up to a lease
  longer.
* `NoOrphanHold` says that a live hold is one the harness can still give back, or one
  whose release the service dropped. It is about every early return at once.
* `ImplementsRegister` maps the register's version to the service's version less one
  while a write is outstanding: the service runs ahead of the file, and no reader sees
  it do so when callers use `write`. A rename that fails is the register's `WriteFails`:
  it uses up a version, and the value stays; that is all an I/O fault does to readers.
* Under `grant_twice` the harness stays a register. The lower of two holders is
  refused while the higher holds, and becomes current again when the higher has gone
  (`IsCurrent` takes the maximum of the current holders); the version comparison then
  decides.
* `HistoryReplays` is the property behind the soak's first find: the log and the service
  are written by different statements on different paths (a sweep inside a method, a
  release of what had gone, a release dropped by a fault), and the oracles see only the
  log. It holds after every step, where a test looks at the end.
* `SoakPasses` is not eight trivial facts. P5 needs that every path records the end of a
  hold; P2 and P6 that nothing comes between the service's decision and the event; P7 is
  by the shape of the run. The assumptions its theorem needs are exact: with phases
  apart P2 and P8 report (section 6), and after a failed rename P6 does.
* `OnlyExposedReport` is the same for runs that do not meet those assumptions. `Exposed`
  names what may report: P2, P6 and P8 when phases are driven apart, P6 when a rename
  fails, P3 and P4 when phases are apart and a prepare leaves its bytes in the shared
  path. P1, P5 and P7 never report, however the harness is driven and whatever fails.
* `OneLateWrite` is what is left of `RevokedNeverLands` when phases are apart. A write is
  `Late` when it was authorized before the last revocation and can still land. Only a
  revocation makes a write late, and the step that lands one leaves no late write behind:
  the guard of apply compares versions, and no two outstanding writes have the same. So
  however many writes wait when the lock is taken away, at most one of them lands.
* `HoldsRunDown` and `SwallowedRunsDown` are the safety behind `HoldEnds` and
  `WedgedHolderLapses`. `TimeLeft` is what ceiling and lease leave of a hold that its agent
  may still renew, and the rest of its lease for any other: one forgotten, leaked by an
  early return, overwritten by a second grant, or whose release was dropped. No step of
  anybody raises it and each tick lowers it, so that only a clock that stops keeps a lock.
* `AcceptedNeverOverlap` is what P1 keeps for callers who drive the phases apart. The
  lock does not give it, since it may be lost in the gap; the version guard of apply does.

## 5. Proofs

All for every set of agents and resources, every lease, ceiling and bound. The
assumptions are the named ones of the modules (`LeaseAssumption`, `FaultsAssumption`,
`BoundsAssumption`, `HarnessAssumption`), and those stated in the theorem.

`FakeLockProofs` holds the lemmas both state machines rest on: each operator keeps the
service's type; `Inherits(s, t)`, every entry of `t` continues an entry of `s`, no two
the same one, and lives only if that one does, holds of every operator but acquire;
which operators touch counters and versions.

`LockServiceProofs`:

* `TypeCorrect`; `MutualExclusion`, from `Inherits` and the guard of acquire, under
  every fault (outside `grant_twice` resources, which the property exempts).
* `FencingInvariant`: the inductive invariant `IInv`. `AtMostOneHolder` and the
  fencing properties are not inductive by themselves: a late call could meet a ticket
  from the future, or an entry below a barrier. `IInv` adds that every ticket in use
  is below `next`, no entry is below its resource's barrier, and no entry of an
  exclusive resource is below its last commit. It needs tickets that do not repeat.
* From it: `Fencing`, `Revocation`, `CommitOrder`, `HoldsAreIndependent`, and
  `ServiceImplementsFencedLock`, the refinement: sweeps, lapses and releases map to
  `Lose`, and a renewal to a stutter or to `Lose`.
* `WedgedHoldsRunDown`. Holdings are matched by ticket, never by holder, so another's
  renewal could buy a wedged holder time if their tickets met. `TicketsAreOwn`, added to
  `IInv`, excludes it: entries that match are one, and a `Holding` that matches an entry
  is in its holder's name.
* `HealthyHoldersKeepTheLock`: without swallowed renewals, and with a lease longer than a
  unit of time, whoever checks in before every unit keeps the lock until it is revoked or
  released.

`HarnessProofs`:

* `TypeCorrect`, for both modes and every fault.
* `NoPhantomWrite`: through write, the file is always the last accepted write. Invariant
  `WInv`: at most one write is outstanding, it is of the service's version, and its
  bytes are the staged ones. No assumption on lock or I/O faults is needed.
* `HarnessImplementsRegister` and `NoUpdateIsLost`, from `RInv`: no snapshot is ahead of
  the file, one of the current version has the current bytes, and the author of an
  outstanding write has such a one. They hold under every lock fault, two holders at
  once and repeated tickets included, and every I/O fault: the version comparison alone
  carries them. A failed rename skips a version (`harness_rename_fault`) and loses nothing.

`HoldBoundProofs`, phases interleaved or not, under every fault but repeated tickets: two
agents with one ticket could renew each other's hold.

* `HoldsAreBounded`, from `HInv`: time left and time used add up to at most ceiling plus
  lease, for the one agent that keeps a ticket.
* `EveryHoldRunsDown`, from `KInv`: in addition, no two entries have the same ticket, and
  the entry of a kept hold is in the name of the agent that keeps it. All steps but
  progress and the clock fall under one case: entries go and at most one comes, with a
  ticket never seen (`LeavesOrGrants`), and holds are forgotten or that one is kept
  (`ForgetsOrOpens`).

`WriteProofs`. Every step either continues the service's entries or grants one
(`Continues`, `Grants`), and the theorems go by these two cases. `HeldInv`, that every
entry was granted after the last revocation, is kept however the phases are driven.

* `RevokedWritesNeverLand`, for callers of write, from `BInv`: not only what is held, but
  also what waits to be applied, was granted after the last revocation.
* `NoVersionSkipped`, for callers of write: the file is always at the version readers see.

`PublishProofs`, phases interleaved or not:

* `FileNeverGoesBack`, `NoPhantomWriteSplit`, `StagedBytesAreItsOwn`, from `PInv`:
  outstanding writes have distinct versions, and the file has reached the service's version
  only if nobody is left to apply it. They assume that prepare does not fail: a prepare
  that fails after staging leaves its bytes in the shared path over those of another's
  authorized write, whose apply would then publish them.
* `AtMostOneLateWrite`, from `DInv`: `HeldInv` and the distinct versions. A write that is
  authorized now holds a ticket above the last barrier; and the one that lands had the
  service's version, which no other has. No I/O fault matters, only repeated tickets.

`SpanProofs`:

* `NoLockIsLeaked`, from `NInv`: what is live belongs to a kept hold, to a write on its
  way, or to a holder whose release was dropped. It assumes that grants are exclusive:
  a second grant to the same agent replaces the first in `open`. Under the full span that
  is all: every I/O fault, interleaved phases and dropped authorizations included, because
  the hold a write uses stays noted as kept (`KeptIsUsed`). Under the write-only span it is
  for callers of write, while neither prepares nor renames fail; `harness_prepare_leak` is
  what that excludes.
* `ReadersAreUndisturbed`, from `UInv`: under the full span on an exclusive file a live
  hold is alone, so that nobody else can authorize, and what its owner read stays true.

`SoakProofs`, over `Soak`; `Replays(m, s)` says that the history `m` holds exactly the
entries of the sound service `s`, and one lemma per operation of the service shows that
its events keep it so.

* `HistoryIsFaithful`, for both modes and every fault but repeated tickets.
* `RunsAreTheHarness`: `SoakSpec => Spec`. Every step of a run but its end is one of
  `Harness` or changes nothing in it. The end is one too, since whoever has ended has
  nothing left to apply (`EndedQuiet`) and no lease lasts two leases (`Sound`): it leaves
  the service as `ForceExpire` would. So all theorems about `Harness` hold of runs of `Soak`.
* `SoakFindsNothing`: no run of callers of write is reported by any oracle, whatever its
  length. The invariant `SInv` says that the history knows the file's bytes, its version
  and the last barrier, that it has seen no ticket still to be issued, and that a write
  on its way would be found in order if it were accepted now; once the run is checked,
  that the report is empty. It rests on `BInv` and `RInv`, and assumes that renames do
  not fail.
* `OnlyExposedOraclesReport`, for both modes and every I/O fault. With callers of write
  `SInv` serves again, without what it says of versions where renames fail. With phases
  apart it is `XInv`: the history knows the last accepted write and no overlap (`LInv`), the
  file is that write unless a prepare fails (`PInv`), and at the check nothing is held.
* `AcceptedWritesNeverOverlap`, for both modes and every fault but repeated tickets. A
  write that can still be applied has had its window to itself: an accepted write had the
  current version, no two outstanding ones have the same, so all others are superseded.

Only model-checked: the liveness properties (`WedgedHolderLapses`, `HoldEnds`). Fairness
and the induction over the time left are out of the prover's reach; what they rest on, a
measure that no step raises and every tick lowers, is proved (`WedgedHoldsRunDown`,
`EveryHoldRunsDown`). Every safety property of a passing run is also a theorem whose
assumptions the run meets, for a run of `Soak` by way of `RunsAreTheHarness`.

## 6. Where the code and its documents disagree

* `service_wedged`: the fault `swallow_keepalive` is described as "the state a
  liveness-based lease cannot detect" (`src/src/lock/fake.rs:244-245`), for which "R2's
  mechanism never fires" (`src/tests/conformance.rs:150-152`), "the lease never fires"
  (`src/examples/demo.rs:91-92`) and the holder is "renewing"
  (`src/doc/code-structure.md:129`). In the code a swallowed renewal leaves the deadline
  where it was, and the next sweep after one lease removes the entry, however often its
  holder checks in: the lease does free the lock (`WedgedHolderLapses`, section 3). The test
  and the demo revoke 10 s into a lease of 15 s and see no lapse. `CheckingInKeepsTheLock`
  states the claim, that one who checks in before every unit of time keeps the lock, and
  fails; where no renewal is swallowed it is a theorem (`HealthyHoldersKeepTheLock`).
* `harness_split_revoked`: apply compares versions only. A write authorized before a
  revocation is applied and reported accepted after it, if nobody else committed in
  between; checker P8 and the documents say that cannot happen.
* `harness_split_lost_update`: a read between another's authorize and apply gets the
  new version with the old bytes; the write based on it passes every check and
  silently replaces the one applied meanwhile.
* `harness_split_staging`: a refused write removes the staging file of another's
  authorized write, whose apply then fails although the service has committed it.
* `harness_prepare_leak`: under the write-only span a prepare that fails returns with
  the lock held; only its lease frees it. (A rename that fails returns before finish and
  leaves it the same way.)
* `harness_rename_fault`: after a failed rename the service is a version ahead; the
  next agent reads that version with the old bytes and its write is accepted, where
  `src/doc/lock-interface.md` says it would be refused.
* `oracle_ticket_at_record`: P2 is described as judging a write by the ticket in force
  "at its authorization point" (`src/src/checker.rs:18`); it judges by the ticket in
  force when the acceptance is recorded. A write authorized under its lock and applied
  after the lock lapsed is reported, although the design accepts it.

The three runs `harness_split_*` and the last need phases that interleave: today that means callers of
the public phases, later a backend whose calls suspend.

## 7. Not modelled

* `set_faults`: faults that change while the service runs. Nothing calls it.
* The conformance tests and the demo: fixed scripts, each a behaviour of `Harness` or
  `Soak`; what they assert is used as claims. The test in which a repeating ticket source
  is reported by P2 has no run of its own. The demo's baseline without a harness is plain
  file access.
* The text of reports and of the rendered history, sequence numbers and times.
* Two events of one instant in the other order: the lock service records while it holds
  its mutex and the harness after its calls return, which on one thread is one order.
* `LockError::Unreachable`: nothing returns it at this commit.
* etcd and ZooKeeper backends and the restart of a harness (R12): documents only. So is a
  harness whose calls suspend at each await; `Split` covers the one gap that is public
  today, between authorize and apply.
* Partial writes by the operating system, and the one-syscall gap between apply's check
  and its rename, which `src/src/harness.rs:262-265` argues to be unreachable.
* Fairness between agents: `src/README.md` says that starvation is unaddressed.

## 8. Plan

Done, in this order, since everything else depends on what the service promises and on
the order of authorize and apply: `FakeLock`, `LockService`, `FencedLock`; `Harness`,
`VersionedRegister`; `Checker`, `Soak`; and the proofs of each.

What could follow:

1. Faults in the service's state instead of constants, for `set_faults`, if something
   comes to use it.
2. A backend whose calls suspend: the same calls at the granularity of their awaits,
   refining `Harness` with `Split = TRUE` where it does. There is no such code yet.
3. Restart of a harness (R12), when it is written: the kept holds are lost, the leases
   and the staging file are not.
