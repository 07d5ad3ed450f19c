---------------------------- MODULE ValidatedCow ----------------------------
(***************************************************************************)
(* The validated copy-on-write storage engine of one database file: the    *)
(* pager, the commit recipe (body pages, free-list plan, cumulative        *)
(* manifest, alternating meta slots, one barrier), batched durability      *)
(* (synchronous = off: floor, pending set, flushes), trailing truncation,  *)
(* failed writes and barriers, a crash of the process, a loss of power,    *)
(* and recovery at open.                                                   *)
(*                                                                         *)
(* Abstractions.                                                           *)
(*  - A page's bytes are the STAMP of the commit attempt that wrote them;  *)
(*    each attempt has its own stamp, so two digests agree exactly when    *)
(*    the stamps do (CRC-64 collisions are not modelled). A meta page is   *)
(*    the stamp too, and gen[s] is what the meta of attempt s encodes.     *)
(*  - disk is what a read returns (the kernel's cache); poss[b] is the set *)
(*    of contents block b may have after a loss of power: the last durable *)
(*    one, every one written since, and a torn mix. A barrier collapses    *)
(*    poss to disk.                                                        *)
(*  - The B+tree and catalog are the set of <<page, stamp>> pairs the      *)
(*    snapshot reaches. A commit replaces at least one of them (the        *)
(*    catalog chain is always rewritten) and adds its dirty nodes.         *)
(*  - Whether the reader watermark lets a commit reclaim and reuse pages   *)
(*    is an input here: readers are another module's subject.              *)
(***************************************************************************)
EXTENDS PageAlloc, FileGrowth

CONSTANTS
    PageLimit,      \* page ids are below this (u32 in the code)
    MaxStamp,       \* bound: commit attempts, the file's creation included
    MaxTree,        \* bound: pages of one snapshot's trees and catalog
    MaxFault,       \* bound: failed writes and barriers, crashes, power losses
    InlineCap,      \* manifest entries a meta page holds (I); the batch cap
    OverflowCap,    \* manifest entries an overflow page holds (O)
    ListCap,        \* free-list entries a free-list page holds
    CompactMin,     \* COMPACT_MIN_PAGES
    CompactGrowth   \* COMPACT_GROWTH

ASSUME SizeAssumption ==
    /\ PageLimit \in Nat /\ PageLimit > 3
    /\ MaxStamp \in Nat \ {0}
    /\ MaxTree \in Nat \ {0} /\ MaxFault \in Nat

ASSUME CapacityAssumption ==
    /\ InlineCap \in Nat \ {0}
    /\ OverflowCap \in Nat \ {0}
    /\ ListCap \in Nat \ {0}
    /\ CompactMin \in Nat /\ CompactGrowth \in Nat

Slots  == {0, 1}                     \* the two meta pages
Body   == 2 .. PageLimit - 1         \* tree, catalog, free-list, manifest pages
Blocks == Slots \cup Body
Torn   == -1                         \* bytes no checksum accepts
Zero   == 0                          \* a preallocated page never written
Stamps == 1 .. MaxStamp
Contents == Stamps \cup {Torn, Zero}
Lengths == 0 .. 2 * PageLimit + GrowCap

Entries == Body \X Stamps            \* a page and the content expected there

\* What a meta page and the chains it heads encode.
Generations ==
    [txid : Nat, pc : 2 .. PageLimit, tree : SUBSET Entries, chain : SUBSET Body,
     list : SUBSET Body, over : SUBSET Body, manifest : SUBSET Entries]

VARIABLES
    disk,        \* block contents as read through the kernel
    poss,        \* block contents a power loss may leave
    len,         \* the file's length in pages (Pager::allocated_pages)
    lens,        \* the lengths a power loss may leave
    gen,         \* gen[s]: the meta that attempt s wrote, or will
    stamp,       \* attempts started so far
    mode,        \* "up", "down" (no process), "corrupt" (open failed, XX001)
    lost,        \* what ended the last process: "close", "process", "power"
    relaxed,     \* synchronous = off for this handle
    cur,         \* the published snapshot (its stamp)
    floorSlot,   \* Pager::floor_slot
    pending,     \* Pager::pending, as <<page, stamp>> entries
    stab,        \* Pager::needs_stabilize
    poisoned,    \* Pager::poisoned
    shrinkPending, shrinkPages,   \* Pager's deferred truncation
    free,        \* Storage::free_pages
    floorFree,   \* Storage::floor_free ({} for None)
    liveAt,      \* Storage::live_at_compaction
    flushing,    \* a background cap flush is in flight
    job,         \* the commit in progress
    faults,      \* faults so far, against MaxFault
    floor,       \* history: the newest generation promised durable
    tail         \* history: attempts whose meta was issued since the floor

storage == <<disk, poss, len, lens>>
pagerVars == <<floorSlot, pending, stab, poisoned, shrinkPending, shrinkPages>>
domain  == <<cur, free, floorFree, liveAt, flushing>>
handle  == <<mode, lost, relaxed>>
history == <<floor, tail>>
vars == <<storage, gen, stamp, handle, pagerVars, domain, job, faults, history>>

NoGen == [txid |-> 0, pc |-> 2, tree |-> {}, chain |-> {}, list |-> {},
          over |-> {}, manifest |-> {}]

\* The meta of a new file: one catalog page.
Created == [txid |-> 1, pc |-> 3, tree |-> {<<2, 1>>}, chain |-> {}, list |-> {},
            over |-> {}, manifest |-> {}]

\* The commit in progress: its stamp, the pages still to write, and the
\* results of planning the body (IncrementalWrite).
Idle == [phase |-> "idle", w |-> 0, todo |-> {}, written |-> {}, tree |-> {},
         rest |-> {}, safe |-> {}, pc |-> 0, reclaim |-> FALSE, left |-> {},
         live |-> 0]

-----------------------------------------------------------------------------
(* What a generation depends on, and when a meta is a candidate.           *)

\* Every page the snapshot of s is read from: its trees, and the free list.
Deps(s) == gen[s].tree \cup {<<p, s>> : p \in gen[s].chain}

\* Every page recovery reads to validate the meta of s.
Vouched(s) == gen[s].manifest \cup {<<p, s>> : p \in gen[s].over}

Protected(s) == PagesOf(Deps(s) \cup Vouched(s))

Holds(E) == \A e \in E : disk[e[1]] = e[2]

\* The slot's meta passes its checksum.
Parses(b) == disk[b] \in Stamps

\* Mutant: the digests are not checked.
ValidatesChecksum(b) == Parses(b) /\ gen[disk[b]].pc <= len

\* commit_manifest::validate: the length bound, then every listed digest.
Validates(b) ==
    /\ Parses(b)
    /\ gen[disk[b]].pc <= len
    /\ Holds(Vouched(disk[b]))

\* Mutant: the oldest valid candidate first.
SelectedOldest ==
    IF Validates(0) /\ (Validates(1) => gen[disk[0]].txid <= gen[disk[1]].txid)
    THEN 0 ELSE 1

\* Newest valid candidate first; slot 0 wins a tie (the sort is stable).
Selected ==
    IF Validates(0) /\ (Validates(1) => gen[disk[0]].txid >= gen[disk[1]].txid)
    THEN 0 ELSE 1

\* Mutant: the next slot without the alternation.
OtherSlotPast == floorSlot + 1

\* commit_slot: the slot that does not hold the floor.
OtherSlot == 1 - floorSlot

SameTxid == Parses(0) /\ Parses(1) /\ gen[disk[0]].txid = gen[disk[1]].txid

-----------------------------------------------------------------------------
(* The device.                                                             *)

Durable == [b \in Blocks |-> {disk[b]}]

\* A completed barrier.
Barrier == poss' = Durable /\ lens' = {len}

\* A write of content v to block b that has not been synced.
Issue(b, v) ==
    /\ disk' = [disk EXCEPT ![b] = v]
    /\ poss' = [poss EXCEPT ![b] = @ \cup {v, Torn}]

\* A write the host reports as failed: nothing or part of it is readable.
IssueFailing(b, v) ==
    /\ \E c \in {disk[b], Torn} : disk' = [disk EXCEPT ![b] = c]
    /\ poss' = [poss EXCEPT ![b] = @ \cup {v, Torn}]

\* Mutant: an adopted generation is not stabilized.
ReserveOnly(need, first) ==
    \E t \in Lengths :
        /\ ReserveTo(len, need, t)
        /\ len' = t
        /\ IF t > len THEN poss' = Durable /\ lens' = {t}
                      ELSE UNCHANGED <<poss, lens>>
        /\ UNCHANGED disk

\* reserve (preceded by a barrier when `first`): growing is itself durable.
Reserve(need, first) ==
    \E t \in Lengths :
        /\ ReserveTo(len, need, t)
        /\ len' = t
        /\ IF first \/ t > len THEN poss' = Durable /\ lens' = {t}
                               ELSE UNCHANGED <<poss, lens>>
        /\ UNCHANGED disk

\* Pager::trim_slack after a barrier: the file is cut to one growth step past
\* the high-water `pc`. The cut needs no barrier, and one that fails is ignored.
TrimSlack(pc) ==
    \E t \in IF len > TrimTarget(pc) THEN {TrimTarget(pc), len} ELSE {len} :
        /\ len' = t
        /\ lens' = {len, t}
        /\ disk' = [b \in Blocks |-> IF b \in t .. len - 1 THEN Zero ELSE disk[b]]
        /\ poss' = [b \in Blocks |-> {disk[b], disk'[b]}]

\* A barrier, then the deferred shrink if one is due.
BarrierAndShrink(due, pc) ==
    IF due THEN TrimSlack(pc)
           ELSE Barrier /\ UNCHANGED <<disk, len>>

-----------------------------------------------------------------------------
(* The free list and the manifest's pages (plan_free_list).                *)

Ceiling(a, b) == (a + b - 1) \div b

\* reclaim_due.
ReclaimDue(pc, listed, live) ==
    /\ pc - listed > CompactMin
    /\ pc - listed > CompactGrowth * live

\* serialize_free_list: the number of chain pages drawn until they hold the
\* `listed` entries, when each one drawn from the `safe` pool is an entry less.
ChainLength(listed, safe) ==
    IF listed < 2 THEN 0
    ELSE Cardinality({c \in 0 .. listed :
                        listed - (IF c < safe THEN c ELSE safe) > c * ListCap})

\* Mutant: the pages of the chain stay on the list.
LayoutListsChain(list, safe, base, n) ==
    LET over  == Draw(safe, n, base)
        next  == base + FromHigh(safe, n)
        avail == safe \ over
        count == ChainLength(Cardinality(list \ over), Cardinality(avail))
    IN  [over  |-> over, chain |-> Draw(avail, count, next), left |-> list \ over,
         pc |-> next + FromHigh(avail, count)]

\* The layout with n manifest-overflow pages reserved: the overflow and chain
\* pages, the entries left on the list, and the high-water.
Layout(list, safe, base, n) ==
    LET over  == Draw(safe, n, base)
        next  == base + FromHigh(safe, n)
        avail == safe \ over
        count == ChainLength(Cardinality(list \ over), Cardinality(avail))
        chain == Draw(avail, count, next)
    IN  [over  |-> over, chain |-> chain, left |-> (list \ over) \ chain,
         pc |-> next + FromHigh(avail, count)]

\* The overflow pages that layout's manifest needs.
OverflowNeeded(entries) ==
    IF entries <= InlineCap THEN 0 ELSE Ceiling(entries - InlineCap, OverflowCap)

\* plan_free_list's loop ends with n overflow pages reserved: none at first,
\* then what the layout's manifest needed. `others` counts the manifest
\* entries besides the chain's.
Settled(list, safe, base, others, n) ==
    LET Needed(k) == OverflowNeeded(
                        others + Cardinality(Layout(list, safe, base, k).chain))
        round[k \in Nat] == IF Needed(k) > k THEN round[Needed(k)] ELSE k
    IN  n = round[0]

-----------------------------------------------------------------------------
(* A commit (Storage::commit_durable, Storage::commit_file).               *)

Ready == mode = "up" /\ job.phase = "idle" /\ ~poisoned /\ ~flushing

\* Mutant: a batch reuses pages the floor still needs.
ReusableAny(reuse) == IF ~reuse THEN {} ELSE free

\* The pages this commit may overwrite: none while the reader watermark
\* defers reuse; inside a batch only those the floor had free.
Reusable(reuse) ==
    IF ~reuse THEN {}
    ELSE IF pending = {} THEN free ELSE free \cap floorFree

\* Plan the body and start the storage commit: stabilize an adopted
\* generation, reserve the file. `dropped` are the old pages the new tree no
\* longer reaches and n the dirty nodes and catalog pages it adds.
BeginCommit(dropped, n, reclaim, reuse) ==
    LET w     == stamp + 1
        pool  == Reusable(reuse)
        taken == Lowest(pool, n)
        pc    == gen[cur].pc + FromHigh(pool, n)
        pages == Draw(pool, n, gen[cur].pc)
    IN
    /\ Ready
    /\ stamp < MaxStamp
    /\ pc <= PageLimit
    /\ stamp' = w
    /\ floorFree' = IF pending = {} /\ relaxed THEN free ELSE floorFree
    /\ Reserve(pc, stab)
    /\ stab' = FALSE
    /\ floor' = IF stab THEN cur ELSE floor
    /\ tail' = IF stab THEN {} ELSE tail
    /\ job' = [phase |-> "body", w |-> w, todo |-> pages, written |-> pages,
               tree |-> {e \in gen[cur].tree : e[1] \notin dropped}
                        \cup {<<p, w>> : p \in pages},
               rest |-> free \ taken, safe |-> pool \ taken, pc |-> pc,
               reclaim |-> reclaim, left |-> {}, live |-> 0]
    /\ UNCHANGED <<gen, handle, cur, free, liveAt, flushing, floorSlot, pending,
                   faults, poisoned, shrinkPending, shrinkPages>>

\* The catalog chain is rewritten by every commit, so some old page is
\* always dropped and some new page always written.
Begin ==
    LET old == PagesOf(gen[cur].tree) IN
    \E dropped \in SUBSET old \ {{}}, reclaim, reuse \in BOOLEAN :
        \E n \in 1 .. MaxTree - Cardinality(old \ dropped) :
            (reclaim => reuse) /\ BeginCommit(dropped, n, reclaim, reuse)

\* write_block of one body, free-list or manifest-overflow page.
WritePage ==
    /\ mode = "up"
    /\ job.phase \in {"body", "aux"}
    /\ \E p \in job.todo :
        /\ \A q \in job.todo : p <= q
        /\ Issue(p, job.w)
        /\ job' = [job EXCEPT !.todo = @ \ {p}]
    /\ UNCHANGED <<len, lens, gen, stamp, handle, pagerVars, domain, faults, history>>

\* Compaction in the commit: the watermark allows it, and it is due.
Compacts ==
    job.reclaim /\ (liveAt = 0 \/ ReclaimDue(job.pc, Cardinality(job.rest), liveAt))

Reached == PagesOf(job.tree) \cup job.written

\* Mutants: the rebuilt list has the batch's pages, or the tree's old ones.
ListedPending ==
    IF Compacts THEN (2 .. job.pc - 1) \ Reached ELSE job.rest
ListedOldPages ==
    IF Compacts
    THEN (2 .. job.pc - 1) \ (job.written \cup PagesOf(pending)) ELSE job.rest

\* The free list before the chain: rebuilt from reachability, without the
\* pending pages, or what the body left of the old one.
Listed == IF Compacts
          THEN (2 .. job.pc - 1) \ (Reached \cup PagesOf(pending)) ELSE job.rest

\* The meta of the attempt, given its layout.
Sealed(plan) ==
    [txid |-> gen[cur].txid + 1, pc |-> plan.pc, tree |-> job.tree,
     chain |-> plan.chain, list |-> IF plan.chain = {} THEN {} ELSE plan.left,
     over |-> plan.over,
     manifest |-> pending \cup {<<p, job.w>> : p \in job.written \cup plan.chain}]

\* The body is written: plan the free list and the manifest, truncating the
\* trailing run unless a batch is pending, and reserve the file. A plan past
\* the page limit fails the commit in progress.
PlanFreeList ==
    \E base \in 2 .. job.pc, n \in Lengths :
    LET safe == {p \in job.safe : p < base}
        list == {p \in Listed : p < base}
        plan == Layout(list, safe, base, n)
    IN
    /\ mode = "up"
    /\ job.phase = "body" /\ job.todo = {}
    /\ IF pending = {} THEN TrailingRun(job.safe, job.pc, base) ELSE base = job.pc
    /\ Settled(list, safe, base, Cardinality(pending) + Cardinality(job.written), n)
    /\ IF plan.pc > PageLimit
       THEN /\ job' = [job EXCEPT !.phase = "failed"]
            /\ UNCHANGED <<storage, gen>>
       ELSE /\ gen' = [gen EXCEPT ![job.w] = Sealed(plan)]
            /\ job' = [job EXCEPT !.phase = "aux",
                                  !.todo = plan.chain \cup plan.over,
                                  !.left = plan.left,
                                  !.live = IF Compacts THEN Cardinality(Reached)
                                                       ELSE liveAt]
            /\ Reserve(plan.pc, FALSE)
    /\ UNCHANGED <<stamp, handle, pagerVars, domain, faults, history>>

\* write_block of the meta page, to the slot that does not hold the floor.
WriteMeta ==
    /\ mode = "up"
    /\ job.phase = "aux" /\ job.todo = {}
    /\ Issue(OtherSlot, job.w)
    /\ job' = [job EXCEPT !.phase = "meta"]
    /\ tail' = tail \cup {job.w}
    /\ UNCHANGED <<len, lens, gen, stamp, handle, pagerVars, domain, faults, floor>>

\* The end of commit_file: the barrier unless relaxed, finish_commit,
\* settle_truncation, the published state, and the batch cap.
FinishCommit ==
    LET w == job.w
        lowered == gen[w].pc < gen[cur].pc
        dirty == {<<p, w>> : p \in job.written \cup gen[w].chain}
    IN
    /\ mode = "up"
    /\ job.phase = "meta"
    /\ cur' = w
    /\ free' = job.left
    /\ liveAt' = job.live
    /\ shrinkPages' = gen[w].pc
    /\ job' = Idle
    /\ IF relaxed
       THEN /\ pending' = pending \cup dirty
            /\ shrinkPending' = (shrinkPending \/ lowered)
            /\ flushing' = (Cardinality(pending') >= InlineCap)
            /\ UNCHANGED <<storage, floorSlot, floor, tail>>
       ELSE /\ pending' = {}
            /\ floorSlot' = OtherSlot
            /\ BarrierAndShrink(shrinkPending \/ lowered, gen[w].pc)
            /\ shrinkPending' = FALSE
            /\ floor' = w /\ tail' = {}
            /\ UNCHANGED flushing
    /\ UNCHANGED <<gen, stamp, handle, floorFree, stab, poisoned, faults>>

-----------------------------------------------------------------------------
(* Flushes, failures, crashes and recovery.                                *)

\* Pager::flush_pending(true): one barrier makes the whole batch durable, and
\* a due shrink follows it.
FlushBarrier ==
    /\ BarrierAndShrink(shrinkPending, shrinkPages)
    /\ floor' = cur /\ tail' = {}

\* The cap flush, the idle flusher, and the flush of a commit past the batch
\* deadline. None of them runs inside a commit.
Flush ==
    /\ mode = "up"
    /\ job.phase \in {"idle", "failed"}
    /\ pending # {} /\ ~poisoned
    /\ FlushBarrier
    /\ floorSlot' = OtherSlot
    /\ pending' = {}
    /\ shrinkPending' = FALSE
    /\ flushing' = FALSE
    /\ UNCHANGED <<gen, stamp, handle, cur, free, floorFree, liveAt, job, stab,
                   poisoned, shrinkPages, faults>>

\* The handle is gone and with it the pager's and the domain's memory. cur,
\* poisoned and job keep what the ended process last had, for the properties.
Forget ==
    /\ mode' = "down"
    /\ floorSlot' = 0 /\ pending' = {} /\ stab' = FALSE
    /\ shrinkPending' = FALSE /\ shrinkPages' = 0
    /\ free' = {} /\ floorFree' = {} /\ liveAt' = 0 /\ flushing' = FALSE
    /\ job' = [Idle EXCEPT !.phase = job.phase, !.w = job.w]
    /\ UNCHANGED <<gen, stamp, relaxed, cur, poisoned>>

\* close: wait for the cap flush, flush what is pending, release the file.
\* A handle whose storage failed reports the error and releases it as it is.
Close ==
    /\ mode = "up"
    /\ job.phase \in {"idle", "failed"}
    /\ ~flushing
    /\ IF pending = {} \/ poisoned
       THEN UNCHANGED <<storage, history>>
       ELSE FlushBarrier
    /\ Forget
    /\ lost' = "close"
    /\ UNCHANGED faults

Fault == faults < MaxFault /\ faults' = faults + 1

\* A failed write: the pager refuses everything until reopen.
WriteFails ==
    /\ mode = "up"
    /\ Fault
    /\ \/ /\ job.phase \in {"body", "aux"} /\ job.todo # {}
          /\ \E p \in job.todo :
                (\A q \in job.todo : p <= q) /\ IssueFailing(p, job.w)
          /\ UNCHANGED tail
       \/ /\ job.phase = "aux" /\ job.todo = {}
          /\ IssueFailing(OtherSlot, job.w)
          /\ tail' = tail \cup {job.w}
    /\ poisoned' = TRUE
    /\ job' = [job EXCEPT !.phase = "failed"]
    /\ UNCHANGED <<len, lens, gen, stamp, handle, domain, floor, floorSlot, pending,
                   stab, shrinkPending, shrinkPages>>

\* A failed barrier: of a synchronous commit, of a flush, of the
\* stabilization that begins a commit, or of a growth of the file.
BarrierFails ==
    /\ mode = "up"
    /\ Fault
    /\ ~poisoned
    /\ \/ /\ job.phase = "meta" /\ ~relaxed
          /\ job' = [job EXCEPT !.phase = "failed"]
       \/ /\ job.phase \in {"idle", "failed"} /\ pending # {}
          /\ UNCHANGED job
       \/ /\ Ready /\ (stab \/ gen[cur].pc + MaxTree > len)
          /\ job' = [Idle EXCEPT !.phase = "failed"]
       \/ /\ job.phase = "body" /\ job.todo = {} /\ job.pc + 1 > len
          /\ job' = [job EXCEPT !.phase = "failed"]
    /\ poisoned' = TRUE
    /\ flushing' = FALSE
    /\ UNCHANGED <<storage, gen, stamp, handle, cur, free, floorFree, liveAt, history,
                   floorSlot, pending, stab, shrinkPending, shrinkPages>>

\* The process dies; the kernel keeps every write it was given.
ProcessCrash ==
    /\ mode = "up"
    /\ Fault
    /\ Forget
    /\ lost' = "process"
    /\ UNCHANGED <<storage, history>>

\* Power is lost: each block not covered by a barrier keeps its last durable
\* content, any content written since, or a torn mix.
PowerLoss ==
    LET open == {b \in Blocks : poss[b] # {disk[b]}} IN
    /\ mode \in {"up", "down"}
    /\ Fault
    /\ \E l \in lens, f \in [open -> UNION {poss[b] : b \in open}] :
        /\ \A b \in open : f[b] \in poss[b]
        /\ len' = l
        /\ disk' = [b \in Blocks |-> IF b >= l THEN Zero
                                     ELSE IF b \in open THEN f[b] ELSE disk[b]]
        /\ poss' = [b \in Blocks |-> {disk'[b]}]
        /\ lens' = {l}
    /\ Forget
    /\ lost' = "power"
    /\ UNCHANGED history

\* Open: select a candidate, adopt its generation, load its free list.
Reopen ==
    /\ mode = "down"
    /\ relaxed' \in BOOLEAN
    /\ IF ~Validates(0) /\ ~Validates(1)
       THEN /\ mode' = "corrupt"
            /\ UNCHANGED <<pagerVars, domain, job, history>>
       ELSE LET s == disk[Selected] IN
            /\ mode' = "up"
            /\ cur' = s
            /\ floorSlot' = IF SameTxid THEN gen[s].txid % 2 ELSE Selected
            /\ stab' = (gen[s].manifest # {})
            /\ pending' = {}
            /\ poisoned' = FALSE
            /\ shrinkPending' = FALSE /\ shrinkPages' = 0
            /\ free' = gen[s].list
            /\ floorFree' = {}
            /\ liveAt' = IF gen[s].pc > Cardinality(gen[s].list)
                         THEN gen[s].pc - Cardinality(gen[s].list) ELSE 0
            /\ flushing' = FALSE
            /\ job' = Idle
            /\ IF lost = "power" THEN floor' = s /\ tail' = {}
                                 ELSE UNCHANGED history
    /\ UNCHANGED <<storage, gen, stamp, lost, faults>>

-----------------------------------------------------------------------------

\* create: a one-page catalog, the same meta in both slots, everything synced.
Init ==
    /\ disk = [b \in Blocks |-> IF b <= 2 THEN 1 ELSE Zero]
    /\ poss = [b \in Blocks |-> {disk[b]}]
    /\ len = 3 /\ lens = {3}
    /\ gen = [s \in Stamps |-> IF s = 1 THEN Created ELSE NoGen]
    /\ stamp = 1
    /\ mode = "up" /\ lost = "close" /\ relaxed \in BOOLEAN
    /\ cur = 1 /\ floorSlot = 1
    /\ pending = {} /\ stab = FALSE /\ poisoned = FALSE
    /\ shrinkPending = FALSE /\ shrinkPages = 0
    /\ free = {} /\ floorFree = {} /\ liveAt = 0 /\ flushing = FALSE
    /\ job = Idle /\ faults = 0
    /\ floor = 1 /\ tail = {}

Next ==
    \/ Begin \/ WritePage \/ PlanFreeList \/ WriteMeta \/ FinishCommit
    \/ Flush \/ Close
    \/ WriteFails \/ BarrierFails
    \/ ProcessCrash \/ PowerLoss \/ Reopen

Spec == Init /\ [][Next]_vars

-----------------------------------------------------------------------------
(* Properties.                                                             *)

Jobs ==
    [phase : {"idle", "body", "aux", "meta", "failed"}, w : 0 .. MaxStamp,
     todo : SUBSET Body, written : SUBSET Body, tree : SUBSET Entries,
     rest : SUBSET Body, safe : SUBSET Body, pc : 0 .. PageLimit,
     reclaim : BOOLEAN, left : SUBSET Body, live : Nat]

StorageOK ==
    /\ disk \in [Blocks -> Contents]
    /\ poss \in [Blocks -> SUBSET Contents]
    /\ len \in Lengths /\ lens \subseteq Lengths

AttemptsOK ==
    /\ gen \in [Stamps -> Generations]
    /\ stamp \in Stamps
    /\ job \in Jobs
    /\ mode = "up" /\ job.phase \in {"body", "aux", "meta"} => job.w \in Stamps

HandleOK ==
    /\ mode \in {"up", "down", "corrupt"}
    /\ lost \in {"close", "process", "power"}
    /\ relaxed \in BOOLEAN
    /\ faults \in 0 .. MaxFault

PagerOK ==
    /\ floorSlot \in Slots
    /\ pending \subseteq Entries
    /\ stab \in BOOLEAN /\ poisoned \in BOOLEAN
    /\ shrinkPending \in BOOLEAN /\ shrinkPages \in Nat

DomainOK ==
    /\ cur \in Stamps
    /\ free \subseteq Body /\ floorFree \subseteq Body
    /\ liveAt \in Nat /\ flushing \in BOOLEAN

HistoryOK == floor \in Stamps /\ tail \subseteq Stamps

\* The types of the whole state. In particular no page id, high-water or file
\* length leaves its range, and a recorded meta is always one that fits a file.
TypeOK ==
    /\ StorageOK /\ AttemptsOK /\ HandleOK
    /\ PagerOK /\ DomainOK /\ HistoryOK

\* Recovery always finds a complete candidate: whatever a crash, a power loss
\* or a failed write left, open never ends in XX001 ("no complete valid meta
\* page").
RecoveryNeverFails == mode # "corrupt"

\* Every page the published snapshot is read from still has that snapshot's
\* content, at every step of every later commit and after every recovery.
PublishedReadable ==
    mode = "up" => Holds(Deps(cur)) /\ gen[cur].pc <= len

\* Whatever a power loss now would leave, the floor's meta and every page it
\* is validated against or read from are intact, and the file is long enough.
FloorIntact ==
    /\ \E b \in Slots : poss[b] = {floor}
    /\ \A e \in Deps(floor) \cup Vouched(floor) : poss[e[1]] = {e[2]}
    /\ \A l \in lens : gen[floor].pc <= l

\* No page on the free list is one the published generation is read from or
\* validated against, so no reuse of it can void the newest meta's manifest.
FreeListDisjoint ==
    mode = "up" => free \cap Protected(cur) = {}

\* The digests of the pending set stay exact while the batch lasts: no page
\* a pending commit wrote is written again, so the cumulative manifest of the
\* next commit vouches for content that is really there.
PendingExact == mode = "up" => Holds(pending)

\* The engine keeps the promise of CommitGuarantee. In particular a loss of
\* power costs nothing at or below the floor, a process that dies or closes
\* loses no acknowledged commit, relaxed or not, and open never fails.
Guarantee == INSTANCE CommitGuarantee WITH
    Commits <- Stamps, failed <- poisoned,
    doing <- IF job.phase = "meta" THEN job.w ELSE 0

KeepsGuarantee == Guarantee!Spec

=============================================================================
