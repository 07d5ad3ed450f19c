# A TLA+ verification of jed's storage and commit core

jed is an embedded SQL database: one file (or one in-memory image) per database,
a single writer, snapshot-isolated readers, and a copy-on-write page store whose
commits are validated at open rather than logged. This directory holds the TLA+
modules that model its core (`src/impl/rust/src`), the TLC configurations that
check them, and the TLAPS proofs about them.

## 1. Inventory

| Component (source) | State | Operations | Hard behaviour | What makes it correct |
|---|---|---|---|---|
| Pager (`pager.rs`) | floor slot, pending set, stabilize and poison flags, allocated pages, deferred cut | begin/finish commit, reserve, write, sync, flush, settle truncation | power loss between unsynced writes, failed barriers, the cut racing the meta | recovery finds a complete generation; the floor is never damaged |
| Commit manifest (`commit_manifest.rs`) | per meta: digests of every page since the floor | encode, overflow planning, validate | manifest larger than a meta page, digests going stale inside a batch | a meta that validates is complete |
| Page allocation (`format.rs`) | free list, high-water | draw, chain layout, trailing run, compaction in the commit, selection at open | chain, overflow pages and list depend on each other | the list never names a page somebody needs |
| Storage domains (`shared.rs`) | page count, free list and its generation, floor's free list, budget | commit_durable, commit_file, commit_in_memory, stage, adopt, forced compaction | reuse while readers are pinned, rejection for size half way | snapshot isolation; all domains commit or none |
| Live registry and roots (`shared.rs`) | counts of pinned versions; published roots | pin, release, watermark, publish | watermark read before the lock, stale by the time it is used | a pinned snapshot keeps its bytes |
| Cross-domain commit (`executor/execute.rs`) | the writer's gate | precheck, attachments, persist, publish, adopt | one domain failing after another was written | nothing unpublished is visible, nothing published is damaged |
| Block store (`blockstore.rs`) | file, kernel cache | read, write, sync, set size | reordering and tearing of unsynced writes | (environment) |
| Idle flush (`idle_flush.rs`, `shared.rs`) | batch deadline, armed and started flags, flusher and cap-flush threads | after_commit, hold, run, await_flush, start_cap_flush | timers racing commits, clients and close; failing barriers and threads | a pending batch is timed and becomes durable; commits cannot tell whether the flusher ran |
| Page service, commits (`pageservice/owner.rs`, `client.rs`, `shared_handoff.rs`) | roles, connections, writer gate, commit lock, resolution window | elect, connect, begin_write, commit, commit_status, revoke, hang up, shut down | lost acknowledgements, a late commit, owner change, crash | one serial history; what an application is told is true; nobody hangs |
| Page service, reads (`shared_handoff.rs`, `client.rs`) | owner pins, adopted version, invalidation window | begin_read, adopt, end_read, read_pages | read begins, adoptions and the process's own commits overlapping | a reader reads its snapshot; the client pins what its readers read |
| Coordinator (`coordinator.rs`, `pageservice/election.rs`) | file locks, owner record | elect, hand over, attachment gates | crash of an owner, cyclic waits | one owner; every waiter is served |
| Buffer pool (`bufferpool.rs`, `paging.rs`) | frames, loads in flight | fault, join, read ahead, invalidate, evict | invalidation racing a load | no stale decode is returned or stays |
| Whole-file operations (`file.rs`, `filehost.rs`, `backup.rs`) | temporary file, rename | create, compact, backup | crash around the rename | old or new file, never neither |
| Sessions, cursors (`shared.rs`, `cursor.rs`) | block state, pins | begin, commit, rollback, refresh | errors inside blocks | a failed block publishes nothing |
| B+tree, SQL, types, encryption, spill | - | - | sequential | covered by conformance tests; not modelled |

A session pins roots in the live registry; the writer takes the gate, plans each
changed domain through the page allocator, writes it through that domain's pager,
publishes the new roots under the registry's lock and adopts staged in-memory
attachments. The registry's watermark flows back into the next plan: it decides
which dead pages a commit may list and which listed ones it may overwrite. The
idle flusher, the cap-flush thread and page clients reach the same pager between
commits, kept apart by the batch lock and the owner's writer gate. A page client
is a whole process: it pins versions at the owner for its readers, fetches pages
into its own pool, drops the ones the owner says were rewritten, and commits by
sending a delta that the owner writes. When the owner goes, the others elect one
of themselves, and a client that lost the reply to its commit asks the new owner,
or itself, what became of it.

`PROJECT.json` lists the hazards of this code at their lines, with the
properties aimed at each.

## 2. Modules

| Module | Models | Composes |
|---|---|---|
| `PageAlloc` | lowest-first allocation and the trailing run | |
| `FileGrowth` | geometric preallocation and the cut's target | |
| `ValidatedCow` | one file: pager, manifest, free-list plan, batches, faults, recovery | `PageAlloc`, `FileGrowth`; implements `CommitGuarantee` |
| `CommitGuarantee` | abstract: what is promised about durability and atomicity | |
| `SnapshotGate`, `MCSnapshotGate` | readers' pins, the watermark, main and one attachment, precheck, staging, publication | `PageAlloc` |
| `DeferredShrink` | lengths and the deferred cut with an owner and page clients | `FileGrowth` |
| `IdleFlush` | the batch of relaxed commits in time: deadline, flusher, cap flush, clients, close | |
| `PageService` | roles, connections, client commits, lost acknowledgements, revocation, failure, crash | |
| `ClientCache`, `MCClientCache` | a client's pool, loads, pins, adoption and its owner's reuse of pages | |
| `ValidatedCowProofs` | type correctness of `ValidatedCow` | `ValidatedCow` |
| `ValidatedCowSafety` | its inductive invariant, the safety theorems and the refinement of `CommitGuarantee` | `ValidatedCowProofs` |
| `DeferredShrinkProofs` | the theorems about the deferred cut | `DeferredShrink` |
| `SnapshotGateProofs` | snapshot isolation, the gates and the final precheck | `SnapshotGate` |
| `IdleFlushProofs` | the batch's deadline, the planned floor, the invisible flusher | `IdleFlush` |
| `PageServiceSteps`, `PageServiceProofs` | the invariants of roles, gates and commits, one lemma per step; the theorems | `PageService` |
| `ClientCacheProofs` | what a client's pool, loads and pins hold | `ClientCache` |

### ValidatedCow

A page's content is the *stamp* of the commit attempt that wrote it, so a digest
matches exactly when the page still has the bytes of that attempt. `disk` is what
the process reads back; `poss[b]` is the set of contents a power loss may leave in
block `b` (the last durable one, any written since, or `Torn`), and `lens` the
possible lengths. A barrier collapses both. `gen[s]` is what the meta page of
attempt `s` encodes: high-water, tree pages, free-list chain and entries, manifest
and its overflow pages.

A commit is the sequence `Begin` (plan the body, stabilize an adopted generation,
reserve), one `WritePage` per page, `PlanFreeList` (compaction in the commit,
trailing truncation, the layout loop, reserve), one `WritePage` per chain and
overflow page, `WriteMeta` (the slot that does not hold the floor), `FinishCommit`
(barrier unless relaxed, settled truncation, publication, batch cap). Between and
around these steps `Flush`, `Close`, `WriteFails`, `BarrierFails`, `ProcessCrash`,
`PowerLoss` and `Reopen` may occur. `floor` and `tail` are history: the newest
generation promised durable and the attempts whose meta was issued since.

The readers' watermark enters as two Boolean inputs (`reclaim`, `reuse`);
`SnapshotGate` is where they are computed. A write whose failure is reported may
have reached the kernel in part; a barrier whose failure is reported leaves every
unsynced write undecided, and the pager is poisoned until reopen.

### SnapshotGate

Holders are read sessions and cursors. A pin is a version and the roots of both
domains. The writer walks `Begin`, `Precheck`, `ReadGate`, `CommitAttachedFile` or
`StageAttached`, `ReadWatermark`, `PersistFile` or `PersistMemory`, `Publish`,
`ReadRegistry`, `Adopt`; holders pin and release between any two of these. The
registry reads are steps of their own because the code takes the answer under one
lock and uses it later under another; the two readings of `Begin`, with nothing of the
writer's between them, are one. `kind` chooses for each domain whether it is
a file or in memory, and TLC explores all four combinations.

### DeferredShrink

Only what decides the file's length is kept: high-waters of the newest generation
and of the floor, the open batch, and the pager's `shrink_pending` and
`shrink_pages`. Client commits (`page_service_commit_delta`) go through the same
pager without settling the truncation.

### IdleFlush

Commits are numbered and the pending set is `floor + 1 .. txid`; what a commit
writes is `ValidatedCow`'s matter. The batch lock is a variable because the owner's
commit and the flusher hold it across their steps, the gate because a client holds
it from `wait_for_gate` to the end of its commit. `OwnLock`, `OwnAwait`, `OwnPlan`
and `OwnCommit...` are the stretches of `commit_durable` between which other
threads run; `FlusherStops` to `FlusherFlushes` are the branches of the loop in
`idle_flush::run`; `CapFlush` is the thread of `start_cap_flush`. Any barrier may
fail and any thread may fail to start. `shadow` is history: the batch that an owner
without an idle flusher would have after the same commits and clock readings. It
states the design's claim (`validated-cow.md` 4.1) that the flusher is unobservable.

### PageService

The file is the sequence of commits by txid, a commit its number, so the resolution
window is a set of pairs and a digest agrees exactly when the number does. `owner`
holds per process the window, gate, commit lock and state of its owner object;
`link` both ends of every connection ever made: what its thread on the owner is
doing (`srv`), whether either end has closed (`up`, `hung`) and whether
`commit_end` is under way (`sent`). `ReadEnd`, `CommitDelta`, `Publish`, `Ack` and
`Release` are `commit_end` and `finish_client_commit` cut at every point where
another thread may see the difference: before the commit lock is taken, between the
write and the publication, and around the reply. A failed write or barrier poisons
the owner and leaves open whether the commit is in the file (`CommitDeltaFails`); so
does a maintenance commit that fails when the gate is released (`ReleaseFails`). The
connections are hung up by a later step (`StopServing`), so for a moment clients still
talk to an owner that has failed. An owner promoted by an election seeds its window
with the file's newest commit, and with the one before only if the other slot holds it
(`NewWindow`). A process may crash in any role and be started again.

Two merges are left: `ClientBegin` takes the gate, flushes and replies in one step, and
`StopServing` gives the gate back with the hang-up. Nobody but the client concerned
sees the states between.

### ClientCache

A page's bytes are the txid of the commit that wrote it and a snapshot a function
from pages to txids, so reading the wrong bytes shows as a wrong number. Threads
share one pool; `load` is each thread's flight (`LoadFlight`) or read-ahead. A read
begin is two steps, the reply under the cache lock and the registration under the
registry lock; the writer's commit is four, since the owner publishes it before the
client invalidates, publishes and adopts it. The owner rebuilds its free list only
in its own commits and when no pin exists, and reuses a listed page when no pin is
older than the list. A load that is invalidated is detached, as in the code; with
the pins as they are this is a second line of defence, because the loader's own pin
already keeps the page from being rewritten.

Two definitions allow more than the code does, and what holds of them holds of it.
`WCommit` decides on reuse with the pins at the commit, when pins that were there at the
grant may be gone. `PrefetchAdmit` admits a read-ahead's page without a flight that an
invalidation could detach.

## 3. Runs

| Run | Instance | What it shows |
|---|---|---|
| `cow_crash` | 3 commits after creation, 2 faults of any kind, trees of up to 2 pages, 7 page ids, inline manifest of 2 entries | open never fails; the published snapshot is readable at every step; the floor survives every possible power loss; the free list never names a page the newest generation is read from or validated against; `CommitGuarantee` is implemented |
| `cow_long` | 5 commits, no faults | the same safety over a longer history, in which pages are freed, listed, reused and cut inside and across batches; digests of a batch stay exact |
| `gate_main` | 2 holders, main alone, trees of 2 pages, 4 commits | pinned snapshots keep their bytes; the free list's generation gate |
| `gate_attached` | 2 holders, main and one attachment, trees of 1 page, 3 commits | the same across two domains; the precheck is final; an attachment's ungated list is dead |
| `gate_limited_attachment` | the same with a limit on the attachment | violated: see finding 2 |
| `shrink` | high-waters up to the bound in the cfg | the cut never takes a page of the newest generation or of the floor |
| `shrink_relaxed_both` | relaxed clients and owner | violated: see finding 1 |
| `idle_flush` | 4 commits, batches of 3, an interval of 2 ticks | the floor a writer planned against holds until its commit; the flusher is invisible; a pending batch has a deadline at most an interval ahead or a thread about to flush it; an idle batch becomes durable; a commit that waits for a flush returns |
| `page_service` | 2 processes, 2 attempted commits, 2 connections, 3 txids, 1 crash, a window of 2 | the file's history only grows; what applications are told is true, across owners; whoever may write holds presence; the window an owner answers from is the file's; a lost commit is settled; the gate comes back from a client that is gone |
| `page_service_relayed` | the same over a relay | violated: see finding 3 |
| `client_cache` | 2 readers and a writer, 3 pages, a pool of 2 frames, 3 versions, a window of 1 commit | every frame and every load holds the bytes of the snapshots that would read it; owner pins are exactly the readers' versions; the pool corresponds to the adopted version |
| `client_cache_overtaken` | snapshots of one page, a pool of 1 frame, 4 versions; a read begin may be overtaken | violated: see finding 4 |

Bounds. Two faults are enough for the sequences that matter (a process crash that
leaves a generation only in the kernel's cache, then a power loss during the next
commit; a failed barrier, then a power loss; two power losses). Three commits are
needed for a page to be freed, listed and reused, five for the reuse to happen
inside a batch after a compaction. Page ids stop at `PageLimit`: with two-page
trees a commit still fails for want of pages in some behaviours, which is the
code's own page-limit path in `PlanFreeList`. Capacities are small (2 to 4 entries)
so that the chain, the overflow pages and the batch cap all occur. The file is cut
only in `cow_long`; that a cut and a power loss cannot hurt the floor together rests on
the proofs, which have no such bounds. In the gate runs
two holders suffice for an old and a new pin to be live at once; the holders are
interchangeable and TLC uses that symmetry, which is sound because no liveness is
checked there. Every property has a variant of the code's definition (the
operators commented *Mutant*, which no specification uses) that breaks it, recorded
in `PROJECT.json`.

In `idle_flush` a batch of three commits is the smallest that can start, continue and
reach its cap with a commit each, and four commits leave one to start the next batch after a flush of
any kind; the clock always has room for the deadline of the pending batch. In
`page_service` two processes change roles with each other, two attempted commits
and two connections give a lost commit, a rival one that takes its txid and a
reconnection to the same or the other process; the third txid is for maintenance.
In `client_cache` three pages are two snapshots of two pages that share one, the
pool is smaller than that so that frames are evicted, and three versions let a page
be freed by the second and reused by the third, inside the window of one commit for
a cache that adopted the second and past it for one that still has the first.

Deadlock is checked in `client_cache` and its variant, whose transactions always
have a step left. Elsewhere it is not: the bounded counters of commits, attempts
and faults end every behaviour, and closing the handle is a legal end.

Fairness. `IdleFlush` assumes weak fairness of the clock, the cap-flush thread, the
flusher's thread, the steps of a commit that holds the batch lock and the cap flush
of a client's commit: threads the host schedules, and mutexes held for a bounded
stretch. Nothing makes a transaction begin, commit or end. `BatchBecomesDurable` is
therefore stated for behaviours in which writers eventually leave the gate alone,
which is what the design promises (`validated-cow.md` 4.1 rule 5: the flusher waits
for a writer that holds the gate). `PageService` assumes weak fairness of the
connections' threads taken together with the readers that notice an end, and of the
sessions that resolve a lost commit, whose re-election has a deadline in the code
(`GiveUp`). No fairness is assumed of applications, of shutdown or of a rival's
release of the gate. Liveness is not checked where symmetry is used.

### Findings

1. *`shrink_relaxed_both`.* `page_service_commit_delta` raises the high-water of a
   batch without `settle_truncation`. If the owner is relaxed too and an earlier
   commit of its lowered the high-water, the deferred cut of the next
   `flush_pending(true)` uses the old target and may shorten the file below the
   newest generation's page count, where `pager.rs:86` says `shrink_pages` "is that
   newest generation's high-water".
2. *`gate_limited_attachment`.* `can_compact_committed` compares pins with main's
   txid, which a commit of an attachment alone does not advance. A forced
   compaction of a limited in-memory attachment may then free and reuse pages that
   a reader pinned at an earlier root of that attachment still reads, where
   `shared.rs:2478` and `memory.md:717` rely on that comparison to tell earlier
   pins apart.
3. *`page_service_relayed`.* `commit_end` marks a transaction as finishing and lets
   go of the connection's lock before `finish_client_commit` takes the commit lock,
   and `commit_status` waits for the commit lock only. Over a relay the client can
   lose its end, reconnect and ask in that gap; it is told *not committed*, and the
   commit then happens. `pageservice/owner.rs:1090` says a commit past its point of
   no return "holds the commit lock until published"; `spec/pageservice/README.md:234`
   and `spec/design/page-service.md` 8.4 say the owner waits for it. On a direct
   connection the gap is not reached in `page_service`, because a client that sees
   its end close without the owner's doing has closed it itself.
4. *`client_cache_overtaken`.* `begin_service_read` keeps the owner pin of the
   reply's version and registers the reader at the version of the committed roots,
   which the process's own commit may have moved between the reply and the registry
   lock. The reader then reads a version the client has no owner pin on. Once the
   pin it took is given back, the owner may reuse a page of the version being read.
   `spec/pageservice/README.md:427` (6.3) and `shared.rs:1708` rule this out. The
   passing run assumes `Prompt`, that no publication falls into that window, and
   shows that the rest of the protocol is sound.

## 4. Proofs

`ValidatedCowProofs` proves `TypeCorrect`: `Spec => []TypeOK`, for every page
limit, capacity, growth policy and number of commits and faults, from
`SizeAssumption`, `CapacityAssumption` and `GrowthAssumption`. The invariant is
inductive as it stands because `AttemptsOK` carries the one fact its steps need of
the commit in progress, that its stamp is an attempt's. What takes work is the
arithmetic of allocation: that the pages drawn (`DrawInBody`) and the layout of
chain and overflow pages (`LayoutInBody`) are body pages whenever the high-water
they end at is within the limit. One lemma per action follows.

`ValidatedCowSafety` proves the safety properties of the runs `cow_crash` and
`cow_long` from the same assumptions, for every instance: `RecoverySafe` (open never
fails), `FloorSafe` (the floor survives every possible power loss), `PublishedSafe`
(the published snapshot is readable at every step), `FreeListSafe` and `PendingSafe`.
They rest on one inductive invariant, `SafetyInv`, and none of them is inductive
alone, since what a later step may overwrite was decided by an earlier one:

- `JobInv`, with `BodyInv` and `SealedInv`, says what a commit in progress may still
  write: no page the floor or the published generation is read from or validated
  against. `Begin` and `PlanFreeList` establish it (the pool is free in both
  generations, the rest comes from above both high-waters, and the truncated
  trailing run holds nothing that is kept); every `WritePage` uses it.
- `FloorInv` follows: the floor's pages and one slot have a single possible content.
- `TailInv`: an attempt since the floor is sound, newer, and *completes* the floor:
  what it is read from and does not vouch for itself, the floor is read from too. So
  a meta that validates is complete.
- `SlotInv`: what a power loss may leave in a slot is torn, the floor, an attempt
  since, an older meta, or a newer one some page of which is gone for good (an
  attempt a power loss voided before the present floor was adopted). It is what makes
  the newest valid candidate the right one (`OpenSelects`).
- `StabInv` and `BatchInv`: what the pager's slot, pending set, deferred cut and
  floor's free list mean, before the first commit after open and inside a batch.
- `DeviceInv` and `CurInv`: the kernel's view against the possible one, and the
  published snapshot.

There is one lemma per action (`BeginSafe` to `ReopenSafe`). Writes, completed or
failed, share `BodyWrite` and `MetaWrite`; the three barriers that advance the floor
share `Hardens`. `TwinSlots` shows that the tie-break at open by `txid % 2` only
ever decides between the two equal metas of a new file.

`DeferredShrinkProofs` proves `NewestCovered` and `FloorCovered`: if relaxed
clients do not run under a relaxed owner, the file is never shorter than the
newest generation's or the floor's high-water. Neither is inductive alone: a cut
due later uses a target recorded earlier. `ShrinkInv` adds `ShrinkTargetCurrent`:
a deferred cut is only ever a relaxed owner's, and while that owner's batch is open
its target is the newest high-water. The hypothesis is exactly what
`shrink_relaxed_both` violates. That `reserve` makes room is taken from
`ReserveTo`, which says where its loop ends; the loop itself, a recursive function,
is unfolded by TLC only.

`ValidatedCowSafety` also proves the refinement, `GuaranteeKept`: `Spec => KeepsGuarantee`.
`Begin` of a stabilizing commit and `Flush` are `Harden`, `WriteMeta` is `Attempt`,
`FinishCommit` is `Acknowledge`, failed writes and barriers are `Fail`, the rest of a
commit is a stutter. The step with content is `Reopen`: after a loss of power or a
failure `OpenSelects` already says that the floor or an attempt since is found, but a
process that merely died must leave the published commit, or the one it had not
acknowledged. `SafetyInv` does not say so. `OtherInv` adds that the slot the next
commit overwrites holds nothing open would select before the published generation,
which lasts because the pages written since carry later stamps than any an old meta
vouches for; `UpSelects` derives what a reopen would find at any moment, and
`FoundInv` carries it to the next open.

`SnapshotGateProofs` proves the invariants of both gate runs, for every number of
holders, page limit and tree size. `GateInv` gives `SnapshotGateTypes`,
`RootsStayReadable`, `GenerationStaysSafe` and `PrecheckStaysFinal`: `Stages` and
`Watermark` say what the writer has read from the registry and that it stays a valid
answer although holders pin and release afterwards, because a later pin is of the
published version; `Gens` and `Lists` say from which version on a listed page is dead;
`Final` is why the plan that the precheck accepted still fits after the attachment was
committed. `PinsStayStable` and `UngatedListStaysDead` need `PinInv` as well and
assume that the attachment has no size limit (`"att" \notin Limited`); the violating
run `gate_limited_attachment` shows that the hypothesis cannot be dropped.

`IdleFlushProofs` proves `IdleFlushTypes`, `PlannedFloorStays`, `PendingStaysTimed` and
`FlusherStaysInvisible` from `IdleInv`. `Holders` says who has the batch lock and the
gate at each point of a commit, so that no flush falls between an owner's plan and its
commit; `Timed` relates the deadline to the batch, the clock and the armed flag;
`Mirror` relates the batch to the one of the owner without a flusher, whose deadline
is the same or already past.

`PageServiceProofs` proves `PageServiceTypes`, `WriterKeepsPresence`, `WindowStaysTrue`,
the action property `HistoryOnlyGrows` (no commit in the file is ever replaced), and
`OutcomesStayTrue`. `PageInv` collects who owns what: one owner per file (`Files`,
`OneOwner`), which thread of it a connection's state belongs to (`Threads`, `Ends`), who
holds the gate and the commit lock (`Gates`, `Requests`), and that an owner's window and
a transaction's base are the file's (`Versions`, `Landed`). `TruthInv` adds what decides
a lost commit: an end the owner did not close is one its client closed (`HungCloses`),
a commit of unknown outcome is named by exactly one connection (`Named`, `Pending`), and
once the client may be told *not committed*, nothing can still commit it (`Doubt`):
another connection that carries it is cut off, or belongs to an owner that has failed and
only has its hang-up left (`Cut`, `Stuck`).
`OutcomesStayTrue` assumes a direct connection (`Relayed = FALSE`); `page_service_relayed`
violates exactly that.

`ClientCacheProofs` proves `ReadsStayInSnapshot`, `PinsStayDisciplined`,
`CacheStaysAdopted` and `ClientCacheTypes` from `CacheInv`, for every finite set of
readers and every pool capacity, window and number of commits. On the owner's side
`Lineage` says that a page no commit wrote between two versions is the same in both,
`Dead` that the free list is dead from its generation on, and `Kept` that no page of a
pinned version was written since: reuse needs every pin at or past the list's
generation. On the client's side `Reply` says that the reply being applied names
everything written since the adopted version, `WriterInv` that the process's own commit
is the version after the adopted one and its pages have left the pool, `PinsInv` counts
the pins, and `LoadsInv` ties a load in flight to its transaction's version, which is
pinned; the bytes read for it are therefore those of every snapshot that reaches the
page, whichever pin the request named. All four assume `Prompt`, which
`client_cache_overtaken` shows to be necessary.

Every hypothesis on constants other than their types (`Relayed`, `Prompt`, `Limited`,
relaxed clients under a relaxed owner) is one that a violating run refutes when it is
dropped, and each instance of a passing run satisfies it.

Model-checked only: liveness (`BatchBecomesDurable`, `CommitReturns`,
`LostCommitSettles`, `GateComesBack`), which the prover cannot treat under fairness, and
what the loops of `reserve` and `plan_free_list` compute, which needs induction over
data; the proofs take from `ReserveTo`, `ChainLength` and `Settled` only where the loops
end.

## 5. Not modelled

Within the modelled parts: CRC-64 collisions; byte formats; a kernel that drops
dirty pages after a failed barrier and reports success later (the pager never
retries a failed barrier, so nothing rests on it); budgets of file domains; a
session's temp domain; more than one attachment; rekeying; the checks an owner makes
of a delta (a delta of this engine passes them), the notices and parking of a drain,
requests for ownership and backup through the service; what a client's catalog cache
holds; reconnection in `ClientCache`, which installs a new pool and registry.

Attachment gates across processes: `acquire_gates` takes them in real-path order
with a timeout on every wait, so a model would show only the order.

The B+tree (`pmap.rs`) is sequential and its rules are arithmetic over byte sizes. One
of them deserves a model first: interiors without a separator, which separators near
the record cap produce, can keep a leaf that has drained, and the root may end as an
empty leaf, where `format.md:1433` says committed leaves are not empty. It is recorded
as a hazard.

SQL is most of the repository's lines (parser, planner, executor, functions, types and
their encodings, the byte format of catalogs and rows). It is deterministic and
sequential, its domains are text, numbers and bytes, and the conformance suite shared
by the language cores compares it with expected results. A TLA+ version would be a
second implementation with no interleaving for a model checker to explore. The share
of the source these modules map is small for that reason: they cover the protocols in
which several processes, threads or failures meet.

## 6. Plan

1. Done: allocation, one file's commit protocol with faults and recovery, its
   abstract guarantee, the snapshot gate, the deferred cut, the batch in time, the
   page service's commits and roles, a client's cache and pins; the proofs of every
   safety property the runs check, and of the refinement.
2. Proofs: an abstract specification of snapshot-isolated reads that `SnapshotGate`
   and `ClientCache` both implement; that each plan the free-list loop settles on is
   the least one.
3. `PMap`: the B+tree's insertion, removal, split, merge and collapse as operators
   against a reference map.
4. `WholeFile`: temporary file, rename, directory sync under power loss.
5. `Session`: the transaction block's state machine.
