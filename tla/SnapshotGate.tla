---------------------------- MODULE SnapshotGate ----------------------------
(***************************************************************************)
(* Snapshot isolation over a page store that reuses dead pages: readers    *)
(* pin the published roots of the main database and of one attachment in   *)
(* the live registry, the single writer commits either or both, and the    *)
(* reader watermark decides which dead pages a commit may list and reuse.  *)
(*                                                                         *)
(* Abstractions.                                                           *)
(*  - A page's bytes are the stamp of the commit that wrote them (0: none  *)
(*    or torn). A snapshot is the set of <<page, stamp>> pairs it reads.   *)
(*  - A read session, an autocommit read and a cursor are all HOLDERS of   *)
(*    one registered pin; the registry's counts are the holders' versions. *)
(*  - reclaim_due's arithmetic is an input (due): compaction may run at    *)
(*    any commit the watermark allows.                                     *)
(*  - Durability is ValidatedCow's subject; here a file and an in-memory   *)
(*    domain differ in when they reclaim and in the storage limit.         *)
(***************************************************************************)
EXTENDS PageAlloc

CONSTANTS
    Holders,     \* read sessions and cursors
    PageLimit,   \* bound: page ids are below this
    MaxStamp,    \* bound: commits and compactions attempted
    MaxTree,     \* bound: pages of one domain's snapshot
    Writable,    \* the domains not attached read-only
    Limited,     \* the in-memory domains under max_storage_bytes
    Limit        \* that limit, in pages

Domains == {"main", "att"}
Kinds   == {"memory", "file"}
Body    == 2 .. PageLimit - 1
Stamps  == 1 .. MaxStamp
Entries == Body \X Stamps
Snapshots == [Domains -> SUBSET Entries]

ASSUME GateAssumption ==
    /\ PageLimit \in Nat /\ PageLimit > 3
    /\ MaxStamp \in Nat \ {0} /\ MaxTree \in Nat \ {0}
    /\ Writable \subseteq Domains /\ Limited \subseteq Domains /\ Limit \in Nat

VARIABLES
    kind,      \* each domain's storage: in memory, or a file
    disk,      \* page contents, by domain
    roots,     \* Roots: the published snapshot of each domain
    version,   \* the txid of the published main root
    pins,      \* the holders' registered snapshots (LiveRegistry)
    pc,        \* Storage::page_count
    free,      \* Storage::free_pages
    freeGen,   \* main's Storage::free_gen_txid
    last,      \* StorageBudget: the pages the last recorded commit wrote
    poisoned,  \* domains whose storage failed
    stamp,     \* commits started so far
    w          \* the writer, who holds the gate unless idle

vars == <<kind, disk, roots, version, pins, pc, free, freeGen, last, poisoned,
          stamp, w>>
store == <<disk, pc, free, freeGen, last>>

NoPin == [ver |-> 0, snap |-> [d \in Domains |-> {}]]
Idle  == [phase |-> "idle", dirty |-> {}, n |-> [d \in Domains |-> 0],
          repair |-> {}, reclaim |-> FALSE, compact |-> FALSE, oldest |-> 0,
          new |-> [d \in Domains |-> {}], high |-> 0, rest |-> {}, wrote |-> {}]

-----------------------------------------------------------------------------
(* The live registry and the watermark.                                    *)

Live == {pins[h].ver : h \in {g \in Holders : pins[g] # NoPin}}

\* Mutant: only readers older than the main version count.
HasOlderReaders == \E v \in Live : v < version

HasLiveReaders == Live # {}

\* oldest_live_version: the oldest pin, or the version about to be published.
OldestLive(new) == CHOOSE v \in Live \cup {new} : \A u \in Live \cup {new} : v <= u

\* can_compact_committed: no pin is older than the committed main version.
CanCompactCommitted == \A v \in Live : v >= version

\* pin_latest: load the roots and register their version under one lock.
\* A read session that refreshes replaces its pin this way.
PinLatest(h) ==
    /\ pins' = [pins EXCEPT ![h] = [ver |-> version, snap |-> roots]]
    /\ UNCHANGED <<kind, disk, roots, version, pc, free, freeGen, last, poisoned,
                   stamp, w>>

\* reader_pin: a cursor registers the version its session already pins.
CursorPin(h, session) ==
    /\ pins[h] = NoPin /\ pins[session] # NoPin
    /\ pins' = [pins EXCEPT ![h] = pins[session]]
    /\ UNCHANGED <<kind, disk, roots, version, pc, free, freeGen, last, poisoned,
                   stamp, w>>

\* A pin is dropped (finish_block, a cursor's ReaderPin).
Release(h) ==
    /\ pins[h] # NoPin
    /\ pins' = [pins EXCEPT ![h] = NoPin]
    /\ UNCHANGED <<kind, disk, roots, version, pc, free, freeGen, last, poisoned,
                   stamp, w>>

-----------------------------------------------------------------------------
(* One domain's commit.                                                    *)

Write(d, pages, content) ==
    disk' = [disk EXCEPT ![d] =
                [p \in Body |-> IF p \in pages THEN content ELSE disk[d][p]]]

\* Mutant: the high-water page is the last one in use.
PlanOfLow(d, list, reuse) ==
    LET n == w.n[d]
        pool == IF reuse THEN list ELSE {}
        top == IF pc[d] > 2 THEN pc[d] - 1 ELSE 2
    IN
    [pages |-> Draw(pool, n, top), rest |-> list \ Lowest(pool, n),
     safe |-> pool \ Lowest(pool, n), high |-> pc[d] + FromHigh(pool, n)]

\* The plan of the commit of w.n[d] pages: what it writes, the list left
\* over, the part of it that may still be overwritten, the high-water.
PlanOf(d, list, reuse) ==
    LET n == w.n[d]
        pool == IF reuse THEN list ELSE {}
    IN
    [pages |-> Draw(pool, n, pc[d]), rest |-> list \ Lowest(pool, n),
     safe |-> pool \ Lowest(pool, n), high |-> pc[d] + FromHigh(pool, n)]

\* Mutants: the high-water counted in, the pages the tree kept left out.
UnreachedPast(high, tree, wrote) == (2 .. high) \ (PagesOf(tree) \cup wrote)
UnreachedKept(high, tree, wrote) == (2 .. high - 1) \ wrote

\* The pages a domain's store holds that `tree` and `wrote` do not.
Unreached(high, tree, wrote) == (2 .. high - 1) \ (PagesOf(tree) \cup wrote)

\* The new snapshot: some old page is always rewritten (the catalog's).
NewTree(d, kept, pages) == kept \cup {<<p, stamp>> : p \in pages}

\* The attachment commits first; main, if it changed, follows.
After(d) == IF d = "att" /\ "main" \in w.dirty THEN "watermark" ELSE "publish"

\* Mutant: a rebuilt list gets the committed generation, not the new one.
FreeGenOld(d, compact, new) == IF d = "main" /\ compact THEN new - 1 ELSE freeGen

\* The generation of main's free list after a commit that publishes `new`.
FreeGen(d, compact, new) == IF d = "main" /\ compact THEN new ELSE freeGen

\* commit_durable of a file: the body, then plan_free_list with compaction in
\* the commit, the trailing truncation and k free-list and manifest pages. The
\* content of the pages cut off is gone.
CommitFile(d, kept, k, reclaim, reuse, due, new) ==
    LET plan == PlanOf(d, free[d], reuse)
        tree == NewTree(d, kept, plan.pages)
        compact == reclaim /\ due
        listed == IF compact THEN Unreached(plan.high, tree, plan.pages) ELSE plan.rest
    IN  \E base \in 2 .. plan.high :
        LET aux == Draw({p \in plan.safe : p < base}, k, base)
            end == base + FromHigh({p \in plan.safe : p < base}, k)
            cut == base .. plan.high - 1
        IN
        /\ TrailingRun(plan.safe, plan.high, base)
        /\ plan.high <= PageLimit /\ end <= PageLimit
        /\ disk' = [disk EXCEPT ![d] = [p \in Body |->
                        IF p \in plan.pages \cup aux THEN stamp
                        ELSE IF p \in cut THEN 0 ELSE disk[d][p]]]
        /\ pc' = [pc EXCEPT ![d] = end]
        /\ free' = [free EXCEPT ![d] = {p \in listed : p < base} \ aux]
        /\ freeGen' = FreeGen(d, compact, new)
        /\ w' = [w EXCEPT !.new[d] = tree, !.phase = After(d)]
        /\ UNCHANGED last

Fits(d, high) == d \notin Limited \/ high <= pc[d] \/ high <= Limit

\* force_compact: the free list rebuilt from the committed snapshot, if that
\* frees anything, in a domain that has committed before.
Rebuilt(d) == Unreached(pc[d], roots[d], last[d])
Forces(d, reuse) ==
    /\ ~Fits(d, PlanOf(d, free[d], reuse).high)
    /\ w.compact /\ last[d] # {}
    /\ Cardinality(Rebuilt(d)) > Cardinality(free[d])

\* plan_in_memory: the plan, or after a forced compaction the second one. A
\* plan that still does not fit is admitted if it repairs (it stages no row).
MemoryPlan(d, reuse) ==
    IF Forces(d, reuse) THEN PlanOf(d, Rebuilt(d), TRUE)
                        ELSE PlanOf(d, free[d], reuse)
Admits(d, reuse) == Fits(d, MemoryPlan(d, reuse).high) \/ d \in w.repair

\* The free list and its generation after plan_in_memory.
ListAfter(d, reuse) == IF Forces(d, reuse) THEN Rebuilt(d) ELSE free[d]
GenAfter(d, reuse) == IF d = "main" /\ Forces(d, reuse) THEN version ELSE freeGen

-----------------------------------------------------------------------------
(* The writer: Engine::commit_tx, then Session::publish.                   *)

Commits(d, kept) ==
    /\ kept \subseteq roots[d] /\ kept # roots[d]
    /\ Cardinality(kept) + w.n[d] <= MaxTree

\* Mutant: the list is reused whoever is reading.
CanReuseAlways == TRUE

CanReclaim == w.oldest = version + 1
CanReuse == w.oldest >= freeGen

\* COMMIT of a block that writes n[d] pages of each domain it changed, at most
\* one of them a file. commit_tx reads the watermark for the precheck.
Begin(n, repair) ==
    LET D == {d \in Domains : n[d] > 0} IN
    /\ w.phase = "idle" /\ stamp < MaxStamp
    /\ D # {} /\ D \subseteq Writable \ poisoned /\ repair \subseteq D \cap Limited
    /\ Cardinality({d \in D : kind[d] = "file"}) <= 1
    /\ stamp' = stamp + 1
    /\ w' = [Idle EXCEPT !.phase = IF "att" \in D THEN "check" ELSE "watermark",
                         !.dirty = D, !.n = n, !.repair = repair,
                         !.oldest = OldestLive(version + 1),
                         !.compact = CanCompactCommitted]
    /\ UNCHANGED <<kind, roots, version, pins, poisoned, store>>

\* Mutant: the main domain is left to its own commit.
PrecheckedAttached == {d \in w.dirty \cap Limited : kind[d] = "memory" /\ d # "main"}

\* The limited in-memory domains that the transaction changed.
Prechecked == {d \in w.dirty \cap Limited : kind[d] = "memory"}

\* precheck_budgets: before any domain writes a page, every limited in-memory
\* one is planned, the attachment first; a forced compaction stays even when
\* the commit is then rejected (54P06).
Precheck ==
    LET reuse == [d \in Domains |-> d = "att" \/ CanReuse]
        planned == IF "att" \in Prechecked /\ ~Admits("att", TRUE)
                   THEN {"att"} ELSE Prechecked
    IN
    /\ w.phase = "check"
    /\ free' = [d \in Domains |-> IF d \in planned THEN ListAfter(d, reuse[d])
                                                   ELSE free[d]]
    /\ freeGen' = IF "main" \in planned THEN GenAfter("main", CanReuse) ELSE freeGen
    /\ w' = IF \E d \in planned : ~Admits(d, reuse[d]) THEN Idle
            ELSE [w EXCEPT !.phase = "gate"]
    /\ UNCHANGED <<kind, roots, version, pins, poisoned, stamp, disk, pc, last>>

\* commit_tx reads the registry for the attachment's commit.
ReadGate ==
    /\ w.phase = "gate"
    /\ w' = [w EXCEPT !.phase = "att", !.reclaim = ~HasLiveReaders,
                      !.compact = CanCompactCommitted]
    /\ UNCHANGED <<kind, roots, version, pins, poisoned, stamp, store>>

\* commit_attachment of a file: reclaim and reuse share one gate.
CommitAttachedFile ==
    /\ w.phase = "att" /\ kind["att"] = "file"
    /\ \E k \in 0 .. 1, due \in BOOLEAN, kept \in SUBSET roots["att"] :
        /\ Commits("att", kept)
        /\ CommitFile("att", kept, k, w.reclaim, w.reclaim, due, 0)
    /\ UNCHANGED <<kind, roots, version, pins, poisoned, stamp>>

\* commit_attachment in memory (stage_in_memory): the list is reused whoever
\* is reading; the accounting waits for adopt_attachments.
StageAttached ==
    /\ w.phase = "att" /\ kind["att"] = "memory"
    /\ Admits("att", TRUE)
    /\ \E kept \in SUBSET roots["att"] :
        LET plan == MemoryPlan("att", TRUE) IN
        /\ Commits("att", kept)
        /\ plan.high <= PageLimit
        /\ Write("att", plan.pages, stamp)
        /\ free' = [free EXCEPT !["att"] = ListAfter("att", TRUE)]
        /\ w' = [w EXCEPT !.new["att"] = NewTree("att", kept, plan.pages),
                          !.high = plan.high, !.rest = plan.rest,
                          !.wrote = plan.pages, !.phase = After("att")]
    /\ UNCHANGED <<kind, roots, version, pins, poisoned, stamp, pc, freeGen, last>>

\* persist reads the watermark before it takes the storage lock.
ReadWatermark ==
    /\ w.phase = "watermark"
    /\ w' = [w EXCEPT !.phase = "persist", !.oldest = OldestLive(version + 1),
                      !.compact = CanCompactCommitted]
    /\ UNCHANGED <<kind, roots, version, pins, poisoned, stamp, store>>

PersistFile ==
    /\ w.phase = "persist" /\ kind["main"] = "file"
    /\ \E k \in 0 .. 1, due \in BOOLEAN, kept \in SUBSET roots["main"] :
        /\ Commits("main", kept)
        /\ CommitFile("main", kept, k, CanReclaim, CanReuse, due, version + 1)
    /\ UNCHANGED <<kind, roots, version, pins, poisoned, stamp>>

\* commit_in_memory: the same gates, with compaction right after the write.
PersistMemory ==
    /\ w.phase = "persist" /\ kind["main"] = "memory"
    /\ Admits("main", CanReuse)
    /\ \E due \in BOOLEAN, kept \in SUBSET roots["main"] :
        LET plan == MemoryPlan("main", CanReuse)
            tree == NewTree("main", kept, plan.pages)
            compact == CanReclaim /\ due
        IN
        /\ Commits("main", kept)
        /\ plan.high <= PageLimit
        /\ Write("main", plan.pages, stamp)
        /\ pc' = [pc EXCEPT !["main"] = plan.high]
        /\ free' = [free EXCEPT !["main"] =
                IF compact THEN Unreached(plan.high, tree, plan.pages) ELSE plan.rest]
        /\ freeGen' = IF compact THEN version + 1 ELSE GenAfter("main", CanReuse)
        /\ last' = [last EXCEPT !["main"] = plan.pages]
        /\ w' = [w EXCEPT !.new["main"] = tree, !.phase = "publish"]
    /\ UNCHANGED <<kind, roots, version, pins, poisoned, stamp>>

\* Domain d is the one being written.
Committing(d) == w.phase = IF d = "att" THEN "att" ELSE "persist"

\* A commit over the limit that was not prechecked, or whose plan changed
\* since, is rejected where it is planned.
Reject(d) ==
    LET reuse == d = "att" \/ CanReuse IN
    /\ Committing(d)
    /\ kind[d] = "memory" /\ ~Admits(d, reuse)
    /\ free' = [free EXCEPT ![d] = ListAfter(d, reuse)]
    /\ freeGen' = GenAfter(d, reuse)
    /\ w' = Idle
    /\ UNCHANGED <<kind, roots, version, pins, poisoned, stamp, disk, pc, last>>

\* A write or a barrier of a file commit fails: nothing is published, the
\* pages it was overwriting are torn, staged attachments are dropped.
CommitFails(d) ==
    /\ Committing(d)
    /\ kind[d] = "file"
    /\ \E torn \in SUBSET free[d] :
        /\ torn = {} \/ (IF d = "att" THEN w.reclaim ELSE CanReuse)
        /\ Write(d, torn, 0)
    /\ poisoned' = poisoned \cup {d}
    /\ w' = Idle
    /\ UNCHANGED <<kind, roots, version, pins, stamp, pc, free, freeGen, last>>

\* publish, publish_attached: the changed roots are swapped under the live
\* and roots locks. A staged attachment is adopted afterwards.
Publish ==
    /\ w.phase = "publish"
    /\ roots' = [d \in Domains |-> IF d \in w.dirty THEN w.new[d] ELSE roots[d]]
    /\ version' = IF "main" \in w.dirty THEN version + 1 ELSE version
    /\ w' = IF "att" \in w.dirty /\ kind["att"] = "memory"
            THEN [w EXCEPT !.phase = "adopt"] ELSE Idle
    /\ UNCHANGED <<kind, pins, poisoned, stamp, store>>

\* Mutant: the answer the commit began with is used again.
ReadRegistryStale ==
    /\ w.phase = "adopt"
    /\ w' = [w EXCEPT !.phase = "adopting"]
    /\ UNCHANGED <<kind, roots, version, pins, poisoned, stamp, store>>

\* adopt_attachments reads the registry again, after the publish, ...
ReadRegistry ==
    /\ w.phase = "adopt"
    /\ w' = [w EXCEPT !.phase = "adopting", !.reclaim = ~HasLiveReaders]
    /\ UNCHANGED <<kind, roots, version, pins, poisoned, stamp, store>>

\* ... and adopt_staged, maybe_compact follow with that answer.
Adopt ==
    /\ w.phase = "adopting"
    /\ pc' = [pc EXCEPT !["att"] = w.high]
    /\ \E due \in BOOLEAN :
        free' = [free EXCEPT !["att"] =
            IF w.reclaim /\ due THEN Unreached(w.high, w.new["att"], w.wrote)
                                ELSE w.rest]
    /\ last' = [last EXCEPT !["att"] = w.wrote]
    /\ w' = Idle
    /\ UNCHANGED <<kind, disk, roots, version, pins, poisoned, stamp, freeGen>>

\* compact_locked: only with the registry empty, under its lock; the storage
\* is replaced by a fresh image of the snapshot.
Compact(d) ==
    LET fresh == 2 .. Cardinality(roots[d]) + 1 IN
    /\ w.phase = "idle" /\ stamp < MaxStamp
    /\ ~HasLiveReaders /\ d \in Writable \ poisoned
    /\ stamp' = stamp + 1
    /\ disk' = [disk EXCEPT ![d] = [p \in Body |-> IF p \in fresh THEN stamp' ELSE 0]]
    /\ roots' = [roots EXCEPT ![d] = {<<p, stamp'>> : p \in fresh}]
    /\ version' = IF d = "main" THEN version + 1 ELSE version
    /\ pc' = [pc EXCEPT ![d] = Cardinality(roots[d]) + 2]
    /\ free' = [free EXCEPT ![d] = {}]
    /\ freeGen' = IF d = "main" THEN version + 1 ELSE freeGen
    /\ last' = [last EXCEPT ![d] = {}]
    /\ UNCHANGED <<kind, pins, poisoned, w>>

-----------------------------------------------------------------------------

Init ==
    /\ kind \in [Domains -> Kinds]
    /\ disk = [d \in Domains |-> [p \in Body |-> IF p = 2 THEN 1 ELSE 0]]
    /\ roots = [d \in Domains |-> {<<2, 1>>}]
    /\ version = 1
    /\ pins = [h \in Holders |-> NoPin]
    /\ pc = [d \in Domains |-> 3]
    /\ free = [d \in Domains |-> {}] /\ freeGen = 1
    /\ last = [d \in Domains |-> {}]
    /\ poisoned = {} /\ stamp = 1 /\ w = Idle

Next ==
    \/ \E h \in Holders : PinLatest(h) \/ Release(h)
    \/ \E h, g \in Holders : CursorPin(h, g)
    \/ \E n \in [Domains -> 0 .. MaxTree], repair \in SUBSET Domains : Begin(n, repair)
    \/ Precheck \/ ReadGate \/ CommitAttachedFile \/ StageAttached
    \/ ReadWatermark \/ PersistFile \/ PersistMemory
    \/ \E d \in Domains : Reject(d) \/ CommitFails(d) \/ Compact(d)
    \/ Publish \/ ReadRegistry \/ Adopt

Spec == Init /\ [][Next]_vars

-----------------------------------------------------------------------------
(* Properties.                                                             *)

Phases == {"idle", "check", "gate", "att", "watermark", "persist", "publish",
           "adopt", "adopting"}

\* The types of the whole state: in particular every plan a commit carries out
\* stays below the page limit and names body pages only.
TypeOK ==
    /\ kind \in [Domains -> Kinds]
    /\ disk \in [Domains -> [Body -> 0 .. MaxStamp]]
    /\ roots \in Snapshots /\ version \in Nat
    /\ pins \in [Holders -> [ver : Nat, snap : Snapshots]]
    /\ pc \in [Domains -> 2 .. PageLimit]
    /\ free \in [Domains -> SUBSET Body] /\ freeGen \in Nat
    /\ last \in [Domains -> SUBSET Body]
    /\ poisoned \subseteq Domains /\ stamp \in Stamps
    /\ w.phase \in Phases /\ w.dirty \subseteq Domains /\ w.new \in Snapshots

Reads(d, snap) == \A e \in snap : disk[d][e[1]] = e[2]

\* Snapshot isolation: every page of every pinned snapshot keeps, for as long
\* as the pin is held, the bytes that snapshot was published with.
PinnedSnapshotsStable ==
    \A h \in Holders : \A d \in Domains : Reads(d, pins[h].snap[d])

\* The published roots are readable at every step of a commit in progress,
\* after one that failed, and after a compaction.
PublishedRootsReadable == \A d \in Domains : Reads(d, roots[d])

\* The precheck is final: once a transaction passed it and its attachment is
\* packed or durable, main's own plan is never rejected for its size, so the
\* transaction commits every domain or none.
PrecheckIsFinal ==
    "att" \in w.dirty /\ w.phase = "persist" /\ kind["main"] = "memory" =>
        Admits("main", CanReuse)

\* The generation gate: a pin no older than the free list's generation reads
\* none of its pages, so a commit the watermark lets reuse them is safe.
GenerationGate ==
    \A h \in Holders : pins[h].ver >= freeGen =>
        free["main"] \cap PagesOf(pins[h].snap["main"]) = {}

\* An in-memory attachment reuses its free list without asking the watermark:
\* once a published commit is adopted, no page of the list is one a pinned
\* snapshot reads.
UngatedListDead ==
    kind["att"] = "memory" /\ w.phase \notin {"adopt", "adopting"} =>
        \A h \in Holders : free["att"] \cap PagesOf(pins[h].snap["att"]) = {}

=============================================================================
