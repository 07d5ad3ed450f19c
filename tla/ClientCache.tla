----------------------------- MODULE ClientCache -----------------------------
(***************************************************************************)
(* A page client's page cache: the buffer pool its readers and its writer  *)
(* share, the pins it holds at the owner for them, the invalidation lists  *)
(* it asks for, and the owner that reuses dead pages no pin reaches.       *)
(*                                                                         *)
(* A page's bytes are the txid of the commit that wrote it; a snapshot is  *)
(* a function from its pages to those txids. The owner serves a request as *)
(* it is sent. Left out: reconnection, which installs a new pool and an    *)
(* empty registry (PageService has the roles); the CLOCK hand, whose       *)
(* victim may be any frame; the durable floor (ValidatedCow).              *)
(***************************************************************************)
EXTENDS Integers, FiniteSets, Sequences, FiniteSetsExt, Functions

CONSTANTS
    Pages,       \* page indices
    First,       \* the page of the initial snapshot
    Readers,     \* the client's reading threads
    Writer,      \* the client's writing thread
    Window,      \* INVALIDATION_WINDOW_COMMITS
    Capacity,    \* frames of the pool
    Prompt,      \* a read begin is not overtaken by a later commit's publication
    MaxTree,     \* bound: pages of a snapshot
    MaxTxid      \* bound: commits

Threads == Readers \cup {Writer}

ASSUME ClientCacheAssumption ==
    /\ First \in Pages /\ Writer \notin Readers /\ IsFiniteSet(Readers)
    /\ Window \in Nat \ {0} /\ Capacity \in Nat \ {0} /\ Prompt \in BOOLEAN
    /\ MaxTree \in Nat \ {0} /\ MaxTxid \in Nat \ {0}

VARIABLES
    disk,     \* the owner's file: the content of each page
    snaps,    \* the snapshot of each version; the last is published
    free,     \* the committed free list
    freeGen,  \* free_gen_txid: the list's pages are dead from here on
    wrote,    \* ServiceWindow: the pages each commit wrote
    pins,     \* the owner's pins of this connection, counted
    granted,  \* the client holds the owner's writer gate
    pool,     \* BufferPool: the resident frames
    load,     \* what each thread is loading
    cache,    \* the cache lock's holder and CacheId::adopted
    roots,    \* the version of the client's committed roots
    held,     \* ClientPins
    ver,      \* the version each thread's transaction reads, 0 for none
    begun,    \* each thread's unapplied read_begun or write_begun
    wpc       \* the writing thread's progress

vars == <<disk, snaps, free, freeGen, wrote, pins, granted, pool, load, cache, roots, held,
          ver, begun, wpc>>
owned == <<disk, snaps, free, freeGen, wrote>>

Txid == Len(snaps)
Reach(v) == DOMAIN snaps[v]
NoLoad == [page |-> First, val |-> -1, registered |-> FALSE, dead |-> FALSE, joined |-> {}]
NotBegun == [txid |-> 0, all |-> FALSE, pages |-> {}]
Unlocked == Writer   \* nobody holds the cache lock across a step

Init ==
    /\ disk = [p \in Pages |-> IF p = First THEN 1 ELSE 0]
    /\ snaps = <<[p \in {First} |-> 1]>>
    /\ free \in SUBSET (Pages \ {First}) /\ freeGen = 1 /\ wrote = <<{}>>
    /\ pins = [v \in 1 .. MaxTxid |-> 0] /\ granted = FALSE
    /\ pool = <<>>
    /\ load = [t \in Threads |-> NoLoad]
    /\ cache = [lock |-> Unlocked, adopted |-> 1]
    /\ roots = 1 /\ held = {}
    /\ ver = [t \in Threads |-> 0]
    /\ begun = [t \in Threads |-> NotBegun]
    /\ wpc = "idle"

-----------------------------------------------------------------------------
(* The owner. *)

\* Mutant: the commit of last_txid + 1 is left out of the list.
InvalidationLate(last) ==
    IF last < Txid - Window THEN [txid |-> Txid, all |-> TRUE, pages |-> {}]
    ELSE [txid |-> Txid, all |-> FALSE, pages |-> UNION {wrote[v] : v \in last + 2 .. Txid}]

\* ServiceWindow::invalidation for a cache that adopted version last.
Invalidation(last) ==
    IF last < Txid - Window THEN [txid |-> Txid, all |-> TRUE, pages |-> {}]
    ELSE [txid |-> Txid, all |-> FALSE, pages |-> UNION {wrote[v] : v \in last + 1 .. Txid}]

Pinned == {v \in DOMAIN pins : pins[v] > 0}

\* The reuse grant: no pin is older than the free list's generation.
CanReuse == \A v \in Pinned : v >= freeGen

\* The pages past the file's end, one of which a commit may grow it by.
Growth == {p \in Pages \ free : disk[p] = 0}

\* A commit: copy-on-write into a free page or growth, then publication. The
\* owner's own commits rebuild the free list when there is no pin.
Commit(reclaims) ==
    \E p \in (IF CanReuse THEN free ELSE {}) \cup Growth : \E keep \in SUBSET Reach(Txid) :
        LET snap == [q \in keep \cup {p} |-> IF q = p THEN Txid + 1 ELSE snaps[Txid][q]]
        IN  /\ Txid < MaxTxid /\ Cardinality(keep) < MaxTree
            /\ disk' = [disk EXCEPT ![p] = Txid + 1]
            /\ snaps' = Append(snaps, snap)
            /\ wrote' = Append(wrote, {p})
            /\ IF reclaims THEN free' = Pages \ (DOMAIN snap \cup Growth) /\ freeGen' = Txid + 1
               ELSE free' = free \ {p} /\ freeGen' = freeGen

\* The owner or another client commits.
OtherCommit ==
    /\ ~granted
    /\ Commit(Pinned = {}) \/ Commit(FALSE)
    /\ UNCHANGED <<pins, granted, pool, load, cache, roots, held, ver, begun, wpc>>

-----------------------------------------------------------------------------
(* The buffer pool. *)

\* BufferPool::invalidate of each page: the frame is dropped, a flight in
\* progress detached.
Invalidated(pages) ==
    /\ pool' = Restrict(pool, DOMAIN pool \ pages)
    /\ load' = [t \in Threads |->
                   [load[t] EXCEPT !.dead = @ \/ (load[t].registered /\ load[t].page \in pages)]]

\* Mutant: the frame count is compared after the frame is added.
InsertFull(p, val) ==
    IF Cardinality(DOMAIN pool) <= Capacity
    THEN pool' = [q \in DOMAIN pool \cup {p} |-> IF q = p THEN val ELSE pool[q]]
    ELSE \E victim \in DOMAIN pool :
            pool' = [q \in (DOMAIN pool \ {victim}) \cup {p} |-> IF q = p THEN val ELSE pool[q]]

\* PoolState::insert: at the capacity a frame is evicted.
Insert(p, val) ==
    IF Cardinality(DOMAIN pool) < Capacity
    THEN pool' = [q \in DOMAIN pool \cup {p} |-> IF q = p THEN val ELSE pool[q]]
    ELSE \E victim \in DOMAIN pool :
            pool' = [q \in (DOMAIN pool \ {victim}) \cup {p} |-> IF q = p THEN val ELSE pool[q]]

Flight(t, p) == load[t].registered /\ ~load[t].dead /\ load[t].page = p
InFlight(p) == \E t \in Threads : Flight(t, p)

\* Thread t loads a page or waits for another's load.
Loading(t) == load[t] # NoLoad \/ \E s \in Threads : t \in load[s].joined

\* Thread t's transaction wants page p, which is not resident.
Misses(t, p) == ver[t] # 0 /\ p \in Reach(ver[t]) \ DOMAIN pool /\ ~Loading(t)

\* read_pages names the newest held pin or the write pin; with neither it fails.
Named == Max(held \cup {0, CASE wpc = "granted" -> begun[Writer].txid
                             [] wpc = "writing" -> ver[Writer]
                             [] OTHER -> 0})

\* get_or_load misses and becomes the leader of a flight.
Fault(t, p) ==
    /\ Misses(t, p) /\ ~InFlight(p)
    /\ load' = [load EXCEPT ![t] = [NoLoad EXCEPT !.page = p, !.registered = TRUE]]
    /\ UNCHANGED <<owned, pins, granted, pool, cache, roots, held, ver, begun, wpc>>

\* get_or_load misses and waits for the leader's result.
Join(t, s, p) ==
    /\ Misses(t, p) /\ Flight(s, p)
    /\ load' = [load EXCEPT ![s].joined = @ \cup {t}]
    /\ UNCHANGED <<owned, pins, granted, pool, cache, roots, held, ver, begun, wpc>>

\* The leader's read_pages, answered; or its error, with no version to name.
ReadBlock(t) ==
    /\ load[t].registered /\ load[t].val = -1
    /\ load' = [load EXCEPT ![t] = IF Named = 0 THEN NoLoad ELSE [@ EXCEPT !.val = disk[load[t].page]]]
    /\ UNCHANGED <<owned, pins, granted, pool, cache, roots, held, ver, begun, wpc>>

\* The decoded value is returned to the leader and those that wait, and admitted
\* unless it was invalidated meanwhile.
Complete(t) ==
    /\ load[t].registered /\ load[t].val # -1
    /\ load' = [load EXCEPT ![t] = NoLoad]
    /\ IF load[t].dead THEN pool' = pool ELSE Insert(load[t].page, load[t].val)
    /\ UNCHANGED <<owned, pins, granted, cache, roots, held, ver, begun, wpc>>

\* prefetch_leaves reads blocks before any flight is registered.
Prefetch(t, p) ==
    /\ Misses(t, p) /\ Named # 0 /\ ~InFlight(p)
    /\ load' = [load EXCEPT ![t] = [NoLoad EXCEPT !.page = p, !.val = disk[p]]]
    /\ UNCHANGED <<owned, pins, granted, pool, cache, roots, held, ver, begun, wpc>>

\* The block is admitted as a fault's would be, unless the page is there.
PrefetchAdmit(t) ==
    LET p == load[t].page
    IN  /\ load[t] # NoLoad /\ ~load[t].registered /\ ~InFlight(p)
        /\ load' = [load EXCEPT ![t] = NoLoad]
        /\ IF p \in DOMAIN pool THEN pool' = pool ELSE Insert(p, load[t].val)
        /\ UNCHANGED <<owned, pins, granted, cache, roots, held, ver, begun, wpc>>

-----------------------------------------------------------------------------
(* Read transactions. *)

\* client_adopt of reply b: invalidate, then move to a newer version.
Adopt(b) ==
    /\ Invalidated(IF b.all THEN Pages ELSE b.pages)
    /\ roots' = IF b.all \/ b.txid > cache.adopted THEN b.txid ELSE roots

AdoptedBy(b) == IF b.all \/ b.txid > cache.adopted THEN b.txid ELSE cache.adopted

\* client_refresh sends begin_read under the cache lock; the owner pins.
BeginRead(r) ==
    /\ ver[r] = 0 /\ begun[r] = NotBegun /\ cache.lock = Unlocked
    /\ cache' = [cache EXCEPT !.lock = r]
    /\ pins' = [pins EXCEPT ![Txid] = @ + 1]
    /\ begun' = [begun EXCEPT ![r] = Invalidation(cache.adopted)]
    /\ UNCHANGED <<owned, granted, pool, load, roots, held, ver, wpc>>

\* Under the registry lock: keep the pin, or release it as a duplicate, adopt,
\* and register the reader at the committed roots' version.
Register(r) ==
    LET b == begun[r]
    IN  /\ b # NotBegun
        /\ held' = held \cup {b.txid}
        /\ pins' = IF b.txid \in held THEN [pins EXCEPT ![b.txid] = @ - 1] ELSE pins
        /\ Adopt(b)
        /\ cache' = [lock |-> Unlocked, adopted |-> AdoptedBy(b)]
        /\ ver' = [ver EXCEPT ![r] = roots']
        /\ begun' = [begun EXCEPT ![r] = NotBegun]
        /\ UNCHANGED <<owned, granted, wpc>>

\* Mutant: every reader's end releases the version's pin.
EndReadEach(r) ==
    LET v == ver[r]
    IN  /\ v # 0 /\ ~Loading(r)
        /\ ver' = [ver EXCEPT ![r] = 0]
        /\ IF v \in held
           THEN held' = held \ {v} /\ pins' = [pins EXCEPT ![v] = @ - 1]
           ELSE UNCHANGED <<held, pins>>
        /\ UNCHANGED <<owned, granted, pool, load, cache, roots, begun, wpc>>

\* LiveRegistry::deregister: the last reader of a version releases its pin.
EndRead(r) ==
    LET v == ver[r]
    IN  /\ v # 0 /\ ~Loading(r)
        /\ ver' = [ver EXCEPT ![r] = 0]
        /\ IF v \in held /\ \A s \in Readers \ {r} : ver[s] # v
           THEN held' = held \ {v} /\ pins' = [pins EXCEPT ![v] = @ - 1]
           ELSE UNCHANGED <<held, pins>>
        /\ UNCHANGED <<owned, granted, pool, load, cache, roots, begun, wpc>>

-----------------------------------------------------------------------------
(* The write transaction. *)

\* client_begin_write reads the adopted version; begin_write waits for the gate.
WAsk ==
    /\ wpc = "idle" /\ cache.lock = Unlocked
    /\ wpc' = "asked" /\ begun' = [begun EXCEPT ![Writer].txid = cache.adopted]
    /\ UNCHANGED <<owned, pins, granted, pool, load, cache, roots, held, ver>>

\* The gate is granted, with the write pin and the answer to that version.
WGrant ==
    /\ wpc = "asked"
    /\ wpc' = "granted" /\ granted' = TRUE
    /\ pins' = [pins EXCEPT ![Txid] = @ + 1]
    /\ begun' = [begun EXCEPT ![Writer] = Invalidation(begun[Writer].txid)]
    /\ UNCHANGED <<owned, pool, load, cache, roots, held, ver>>

\* client_adopt, and the transaction starts from the pinned version.
WAdopt ==
    /\ wpc = "granted" /\ cache.lock = Unlocked
    /\ wpc' = "writing"
    /\ Adopt(begun[Writer])
    /\ cache' = [cache EXCEPT !.adopted = AdoptedBy(begun[Writer])]
    /\ ver' = [ver EXCEPT ![Writer] = roots']
    /\ begun' = [begun EXCEPT ![Writer] = NotBegun]
    /\ UNCHANGED <<owned, pins, granted, held>>

\* A rollback: abort releases the write pin and the gate. A commit the owner
\* refuses does too, and the whole cache is dropped.
WAbort ==
    /\ wpc = "writing" /\ ~Loading(Writer)
    /\ wpc' = "idle" /\ granted' = FALSE
    /\ pins' = [pins EXCEPT ![ver[Writer]] = @ - 1]
    /\ ver' = [ver EXCEPT ![Writer] = 0]
    /\ \/ UNCHANGED <<pool, load>>
       \/ Invalidated(Pages)
    /\ UNCHANGED <<owned, cache, roots, held, begun>>

\* The commit, sent and published: the owner released the write pin and the gate.
WCommit ==
    /\ wpc = "writing" /\ ~Loading(Writer)
    /\ Commit(FALSE)
    /\ wpc' = "committed" /\ granted' = FALSE
    /\ pins' = [pins EXCEPT ![ver[Writer]] = @ - 1]
    /\ ver' = [ver EXCEPT ![Writer] = 0]
    /\ begun' = [begun EXCEPT ![Writer].txid = Txid + 1]
    /\ UNCHANGED <<pool, load, cache, roots, held>>

\* Mutant: the rewritten pages are not invalidated.
WInvalidateSkipped ==
    /\ wpc = "committed"
    /\ wpc' = "written"
    /\ UNCHANGED <<owned, pins, granted, pool, load, cache, roots, held, ver, begun>>

\* commit_file invalidates the rewritten pages.
WInvalidate ==
    /\ wpc = "committed"
    /\ wpc' = "written"
    /\ Invalidated(wrote[begun[Writer].txid])
    /\ UNCHANGED <<owned, pins, granted, cache, roots, held, ver, begun>>

\* Shared::publish, under the registry lock: never back.
WPublish ==
    /\ wpc = "written"
    /\ Prompt => \A r \in Readers : begun[r] = NotBegun
    /\ wpc' = "published"
    /\ roots' = Max({roots, begun[Writer].txid})
    /\ UNCHANGED <<owned, pins, granted, pool, load, cache, held, ver, begun>>

\* client_adopt_own_commit.
WAdoptOwn ==
    /\ wpc = "published" /\ cache.lock = Unlocked
    /\ wpc' = "idle"
    /\ cache' = [cache EXCEPT !.adopted = Max({@, begun[Writer].txid})]
    /\ begun' = [begun EXCEPT ![Writer] = NotBegun]
    /\ UNCHANGED <<owned, pins, granted, pool, load, roots, held, ver>>

-----------------------------------------------------------------------------

Next ==
    \/ OtherCommit
    \/ \E t \in Threads : \/ \E p \in Pages : Fault(t, p) \/ Prefetch(t, p)
                          \/ \E s \in Threads, p \in Pages : Join(t, s, p)
                          \/ ReadBlock(t) \/ Complete(t) \/ PrefetchAdmit(t)
    \/ \E r \in Readers : BeginRead(r) \/ Register(r) \/ EndRead(r)
    \/ WAsk \/ WGrant \/ WAdopt \/ WAbort \/ WCommit
    \/ WInvalidate \/ WPublish \/ WAdoptOwn

Spec == Init /\ [][Next]_vars

-----------------------------------------------------------------------------

\* Every variable keeps its type.
TypeOK ==
    /\ disk \in [Pages -> 0 .. Txid] /\ Txid <= MaxTxid
    /\ free \subseteq Pages \ Reach(Txid) /\ freeGen \in 1 .. Txid
    /\ Len(wrote) = Txid
    /\ pins \in [1 .. MaxTxid -> 0 .. Cardinality(Threads)] /\ granted \in BOOLEAN
    /\ Cardinality(DOMAIN pool) <= Capacity
    /\ cache.lock \in Threads /\ cache.adopted \in 1 .. Txid /\ roots \in 1 .. Txid
    /\ held \subseteq 1 .. Txid /\ ver \in [Threads -> 0 .. Txid]

\* A page read for a transaction is its snapshot's page: a frame the pool would
\* return, and a load or read-ahead a thread is about to return or admit, hold
\* what the snapshot of every transaction that reaches the page has there, though
\* the owner rewrites pages, adoptions invalidate them and loads overlap both.
ReadsItsSnapshot ==
    \A t \in Threads : ver[t] # 0 => \A p \in Reach(ver[t]) :
        /\ p \in DOMAIN pool => pool[p] = snaps[ver[t]][p]
        /\ \A s \in Threads :
            /\ load[s].page = p /\ load[s].val # -1
            /\ s = t \/ t \in load[s].joined \/ ~load[s].dead
            => load[s].val = snaps[ver[t]][p]

\* The client holds exactly one owner pin on each version a local reader reads,
\* and no other, besides its write pin and those of unapplied replies: none of
\* its readers is unprotected, and an idle client holds nothing back.
PinDiscipline ==
    /\ held = {ver[r] : r \in Readers} \ {0}
    /\ \A v \in 1 .. MaxTxid :
        pins[v] = Cardinality({r \in Readers : begun[r].txid = v})
                  + (IF v \in held THEN 1 ELSE 0)
                  + (IF granted /\ v = Txid THEN 1 ELSE 0)

\* The cache corresponds to the adopted version: a frame of a page of that
\* version holds its content, so a reader that adopts nothing new may use it.
CacheIsAdopted ==
    \A p \in DOMAIN pool \cap Reach(cache.adopted) : pool[p] = snaps[cache.adopted][p]
=============================================================================
