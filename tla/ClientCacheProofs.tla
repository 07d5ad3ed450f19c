-------------------------- MODULE ClientCacheProofs --------------------------
(***************************************************************************)
(* A page client reads what its snapshots hold, proved for every number of *)
(* readers, pages and commits, pool capacity and invalidation window,      *)
(* where no publication overtakes a read begin (Prompt): the client's      *)
(* cache corresponds to the version it adopted and its pins at the owner   *)
(* protect exactly the versions its transactions read.                     *)
(***************************************************************************)
EXTENDS ClientCache, FiniteSetTheorems, TLAPS

-----------------------------------------------------------------------------
(* The inductive invariant.                                                *)

Loads == [page : Pages, val : Int, registered : BOOLEAN, dead : BOOLEAN, joined : SUBSET Threads]
Replies == [txid : Nat, all : BOOLEAN, pages : SUBSET Pages]
Stages == {"idle", "asked", "granted", "writing", "committed", "written", "published"}
Trees == UNION {[S -> Nat] : S \in SUBSET Pages}

Types ==
    /\ snaps \in Seq(Trees) /\ Txid \in 1 .. MaxTxid
    /\ disk \in [Pages -> 0 .. Txid] /\ free \subseteq Pages /\ freeGen \in 1 .. Txid
    /\ wrote \in Seq(SUBSET Pages) /\ Len(wrote) = Txid
    /\ pins \in [1 .. MaxTxid -> Nat] /\ granted \in BOOLEAN
    /\ IsFiniteSet(DOMAIN pool) /\ Cardinality(DOMAIN pool) <= Capacity
    /\ load \in [Threads -> Loads]
    /\ cache \in [lock : Threads, adopted : 1 .. Txid] /\ roots \in 1 .. Txid
    /\ held \subseteq 1 .. Txid /\ ver \in [Threads -> 0 .. Txid]
    /\ begun \in [Threads -> Replies] /\ wpc \in Stages

\* A page of a version that no commit wrote since an earlier one is that
\* version's page too.
Lineage ==
    \A v \in 1 .. Txid : \A u \in 1 .. v : \A p \in Reach(v) :
        (\A y \in u + 1 .. v : p \notin wrote[y]) => p \in Reach(u) /\ snaps[u][p] = snaps[v][p]

\* A page that some version reaches is in the file; the published version is.
Stored ==
    /\ \A v \in 1 .. Txid : \A p \in Reach(v) : disk[p] # 0
    /\ \A p \in Reach(Txid) : disk[p] = snaps[Txid][p]

\* The free list is dead from its generation on.
Dead == \A v \in freeGen .. Txid : free \cap Reach(v) = {}

\* No page of a pinned version was written since.
Kept ==
    \A v \in Pinned : /\ v <= Txid
                      /\ \A p \in Reach(v) : disk[p] = snaps[v][p]
                      /\ \A y \in v + 1 .. Txid : wrote[y] \cap Reach(v) = {}

OwnerInv == Lineage /\ Stored /\ Dead /\ Kept

\* One reader at a time has a reply to apply: the holder of the cache lock. It
\* is not older than what the client has.
Covers(b) == b.all \/ \A y \in cache.adopted + 1 .. b.txid : wrote[y] \subseteq b.pages
Reply ==
    \A r \in Readers :
        /\ (begun[r] # NotBegun) <=> (cache.lock = r)
        /\ begun[r] # NotBegun =>
            /\ begun[r].txid \in 1 .. Txid /\ ver[r] = 0
            /\ begun[r].txid >= cache.adopted /\ begun[r].txid >= roots
            /\ Covers(begun[r])
            /\ begun[r].all => begun[r].txid > cache.adopted

\* The writer's progress. Its own commit is the first it has not adopted.
Own == begun[Writer].txid
WriterInv ==
    /\ granted <=> wpc \in {"granted", "writing"}
    /\ ver[Writer] = IF wpc = "writing" THEN Txid ELSE 0
    /\ wpc = "asked" => Own \in 1 .. cache.adopted
    /\ wpc = "granted" => Own = Txid /\ Covers(begun[Writer])
    /\ wpc = "writing" => cache.adopted = Txid
    /\ wpc \in {"committed", "written", "published"} =>
        Own \in 1 .. Txid /\ cache.adopted + 1 >= Own
    /\ wpc \in {"written", "published"} /\ cache.adopted < Own => wrote[Own] \cap DOMAIN pool = {}

\* The committed roots are the adopted version, or the writer's own commit.
RootsInv ==
    /\ wpc # "published" => roots = cache.adopted
    /\ wpc = "published" => /\ roots >= Own
                            /\ roots = cache.adopted \/ (roots = Own /\ cache.adopted < Own)

\* A transaction reads no version past the adopted one.
Bounded == \A t \in Threads : ver[t] <= cache.adopted

\* A load is its own transaction's, of a page the file holds as it was read.
LoadsInv ==
    \A t \in Threads : load[t] # NoLoad =>
        /\ ver[t] # 0 /\ load[t].page \in Reach(ver[t])
        /\ load[t].val = disk[load[t].page] \/ (load[t].val = -1 /\ load[t].registered)

\* Frames hold what every transaction that reaches them has there.
Frames ==
    \A t \in Threads : ver[t] # 0 =>
        \A p \in Reach(ver[t]) \cap DOMAIN pool : pool[p] = snaps[ver[t]][p]

\* The owner's pins: the reply not applied, the versions held, the writer's.
Count(b, lock, v) == IF lock # Writer /\ b[lock].txid = v THEN 1 ELSE 0
HeldPin(v) == IF v \in held THEN 1 ELSE 0
WritePin(v) == IF granted /\ v = Txid THEN 1 ELSE 0
PinsInv ==
    /\ held = {ver[r] : r \in Readers} \ {0}
    /\ \A v \in 1 .. MaxTxid : pins[v] = Count(begun, cache.lock, v) + HeldPin(v) + WritePin(v)

ClientInv ==
    /\ Reply /\ WriterInv /\ RootsInv /\ Bounded /\ PinsInv /\ LoadsInv /\ Frames
    /\ CacheIsAdopted

CacheInv == Types /\ OwnerInv /\ ClientInv

-----------------------------------------------------------------------------
(* The owner.                                                              *)

\* The larger of two versions.
LEMMA MaxTwo ==
    ASSUME NEW a \in Nat, NEW b \in Nat
    PROVE  Max({a, b}) \in {a, b} /\ Max({a, b}) >= a /\ Max({a, b}) >= b
<1>1. \E x \in {a, b} : \A y \in {a, b} : x >= y
  OBVIOUS
<1> QED BY <1>1 DEF Max

\* A commit of page p: no pinned version, nor the published one, reaches it, and
\* the version it publishes has the other pages in common with the last.
Committed(p) ==
    /\ Txid' = Txid + 1 /\ Txid' <= MaxTxid
    /\ snaps' \in Seq(Trees) /\ wrote' \in Seq(SUBSET Pages) /\ Len(wrote') = Txid + 1
    /\ \A v \in 1 .. Txid : snaps'[v] = snaps[v] /\ wrote'[v] = wrote[v]
    /\ wrote'[Txid + 1] = {p} /\ disk' = [disk EXCEPT ![p] = Txid + 1]
    /\ \A q \in DOMAIN snaps'[Txid + 1] :
        IF q = p THEN snaps'[Txid + 1][q] = Txid + 1
        ELSE q \in Reach(Txid) /\ snaps'[Txid + 1][q] = snaps[Txid][q]
    /\ free' \subseteq Pages /\ freeGen' \in 1 .. Txid + 1
    /\ \/ free' \subseteq free \ {p} /\ freeGen' = freeGen
       \/ freeGen' = Txid + 1 /\ free' \cap DOMAIN snaps'[Txid + 1] = {}
    /\ \A v \in Pinned \cup {Txid} : p \notin Reach(v)

\* What the owner's copy-on-write commit does, whether it reuses a page, grows
\* the file, or rebuilds the list.
LEMMA CommitEffect ==
    ASSUME Types, OwnerInv, NEW reclaims \in BOOLEAN, Commit(reclaims)
    PROVE  \E p \in Pages : Committed(p)
<1>1. PICK p \in (IF CanReuse THEN free ELSE {}) \cup Growth, keep \in SUBSET Reach(Txid) :
        LET snap == [q \in keep \cup {p} |-> IF q = p THEN Txid + 1 ELSE snaps[Txid][q]]
        IN  /\ Txid < MaxTxid
            /\ disk' = [disk EXCEPT ![p] = Txid + 1]
            /\ snaps' = Append(snaps, snap)
            /\ wrote' = Append(wrote, {p})
            /\ IF reclaims THEN free' = Pages \ (DOMAIN snap \cup Growth) /\ freeGen' = Txid + 1
               ELSE free' = free \ {p} /\ freeGen' = freeGen
  BY DEF Commit
<1> DEFINE snap == [q \in keep \cup {p} |-> IF q = p THEN Txid + 1 ELSE snaps[Txid][q]]
<1>2. /\ Txid \in Nat /\ Txid >= 1 /\ snaps \in Seq(Trees) /\ wrote \in Seq(SUBSET Pages)
      /\ Len(snaps) = Txid /\ Len(wrote) = Txid /\ free \subseteq Pages /\ freeGen \in 1 .. Txid
      /\ disk \in [Pages -> 0 .. Txid] /\ MaxTxid \in Nat
  BY ClientCacheAssumption DEF Types, Txid
<1>3. p \in Pages
  BY <1>1, <1>2 DEF Growth
<1>4. snaps[Txid] \in Trees
  BY <1>2
<1>5. /\ DOMAIN snaps[Txid] \subseteq Pages
      /\ \A q \in DOMAIN snaps[Txid] : snaps[Txid][q] \in Nat
  BY <1>4 DEF Trees
<1>6. snap \in Trees
  <2>1. keep \cup {p} \in SUBSET Pages
    BY <1>3, <1>5 DEF Reach
  <2>2. snap \in [keep \cup {p} -> Nat]
    BY <1>2, <1>5 DEF Reach
  <2> HIDE DEF snap
  <2> QED BY <2>1, <2>2 DEF Trees
<1>7. /\ DOMAIN snap = keep \cup {p}
      /\ \A q \in DOMAIN snap : IF q = p THEN snap[q] = Txid + 1
                                ELSE q \in Reach(Txid) /\ snap[q] = snaps[Txid][q]
  OBVIOUS
<1>8. \A v \in Pinned \cup {Txid} : p \notin Reach(v)
  <2> SUFFICES ASSUME NEW v \in Pinned \cup {Txid} PROVE p \notin Reach(v)
    OBVIOUS
  <2>1. v \in 1 .. Txid
    BY <1>2 DEF OwnerInv, Kept, Pinned, Types
  <2>2. CASE p \in Growth
    BY <2>1, <2>2 DEF Growth, OwnerInv, Stored
  <2>3. CASE CanReuse /\ p \in free
    <3>1. v \in freeGen .. Txid
      BY <1>2, <2>1, <2>3 DEF CanReuse
    <3> QED BY <2>3, <3>1 DEF OwnerInv, Dead
  <2> QED BY <1>1, <2>2, <2>3
<1>9. snaps' = Append(snaps, snap) /\ wrote' = Append(wrote, {p}) /\ Txid < MaxTxid
      /\ disk' = [disk EXCEPT ![p] = Txid + 1]
  BY <1>1
<1>10. \/ free' = free \ {p} /\ freeGen' = freeGen
       \/ free' = Pages \ (DOMAIN snap \cup Growth) /\ freeGen' = Txid + 1
  BY <1>1
<1> HIDE DEF snap
<1>11. /\ snaps' \in Seq(Trees) /\ Len(snaps') = Txid + 1 /\ snaps'[Txid + 1] = snap
       /\ \A v \in 1 .. Txid : snaps'[v] = snaps[v]
  BY <1>2, <1>6, <1>9
<1>12. /\ wrote' \in Seq(SUBSET Pages) /\ Len(wrote') = Txid + 1 /\ wrote'[Txid + 1] = {p}
       /\ \A v \in 1 .. Txid : wrote'[v] = wrote[v]
  BY <1>2, <1>3, <1>9
<1>13. Txid' = Txid + 1 /\ Txid' <= MaxTxid
  BY <1>2, <1>9, <1>11 DEF Txid
<1>14. free' \subseteq Pages /\ freeGen' \in 1 .. Txid + 1
  BY <1>2, <1>10
<1>15. Committed(p)
  BY <1>7, <1>8, <1>9, <1>10, <1>11, <1>12, <1>13, <1>14 DEF Committed
<1> QED BY <1>3, <1>15

\* A commit keeps what the owner knows, as long as no version is pinned by it.
LEMMA OwnerCommits ==
    ASSUME Types, OwnerInv, NEW p \in Pages, Committed(p), Pinned' \subseteq Pinned
    PROVE  OwnerInv'
<1> DEFINE T == Txid + 1
<1>1. /\ Txid \in Nat /\ Txid >= 1 /\ Txid' = T /\ freeGen \in 1 .. Txid
      /\ disk \in [Pages -> 0 .. Txid] /\ disk' = [disk EXCEPT ![p] = T]
      /\ \A v \in 1 .. Txid : snaps'[v] = snaps[v] /\ wrote'[v] = wrote[v]
      /\ wrote'[T] = {p} /\ \A v \in Pinned \cup {Txid} : p \notin Reach(v)
  BY DEF Types, Committed
<1>2. \A v \in 1 .. Txid : Reach(v)' = Reach(v) /\ \A q \in Reach(v) : q \in Pages
  <2>1. \A v \in 1 .. Txid : snaps[v] \in Trees
    BY DEF Types, Txid
  <2> QED BY <1>1, <2>1 DEF Reach, Trees
<1>3. \A q \in DOMAIN snaps'[T] :
        IF q = p THEN snaps'[T][q] = T ELSE q \in Reach(Txid) /\ snaps'[T][q] = snaps[Txid][q]
  BY DEF Committed
<1>4. disk'[p] = T /\ \A q \in Pages : q # p => disk'[q] = disk[q]
  BY <1>1
<1>5. Lineage'
  <2> SUFFICES ASSUME NEW v \in 1 .. T, NEW u \in 1 .. v, NEW q \in DOMAIN snaps'[v],
                      \A y \in u + 1 .. v : q \notin wrote'[y]
               PROVE  q \in DOMAIN snaps'[u] /\ snaps'[u][q] = snaps'[v][q]
    BY <1>1 DEF Lineage, Reach
  <2>1. CASE v \in 1 .. Txid
    <3>1. u \in 1 .. Txid /\ q \in Reach(v) /\ \A y \in u + 1 .. v : q \notin wrote[y]
      BY <1>1, <1>2, <2>1 DEF Reach
    <3> QED BY <1>1, <2>1, <3>1 DEF OwnerInv, Lineage, Reach
  <2>2. CASE v = T /\ u = T
    BY <2>2
  <2>3. CASE v = T /\ u # T
    <3>1. u \in 1 .. Txid /\ Txid \in 1 .. Txid /\ T \in u + 1 .. v
      BY <1>1, <2>3
    <3>2. q # p
      BY <1>1, <3>1
    <3>3. q \in Reach(Txid) /\ snaps'[v][q] = snaps[Txid][q]
      BY <1>3, <2>3, <3>2
    <3>4. \A y \in u + 1 .. Txid : q \notin wrote[y]
      BY <1>1, <2>3
    <3>5. q \in Reach(u) /\ snaps[u][q] = snaps[Txid][q]
      BY <3>1, <3>3, <3>4 DEF OwnerInv, Lineage
    <3> QED BY <1>1, <3>1, <3>3, <3>5 DEF Reach
  <2> QED BY <1>1, <2>1, <2>2, <2>3
<1>6. Stored'
  <2>1. ASSUME NEW q \in DOMAIN snaps'[T] PROVE disk'[q] = snaps'[T][q] /\ disk'[q] # 0
    <3>1. CASE q = p
      BY <1>1, <1>3, <1>4, <3>1
    <3>2. CASE q # p
      <4>1. q \in Reach(Txid) /\ snaps'[T][q] = snaps[Txid][q] /\ Txid \in 1 .. Txid
        BY <1>1, <1>3, <3>2
      <4> QED BY <1>2, <1>4, <3>2, <4>1 DEF OwnerInv, Stored
    <3> QED BY <3>1, <3>2
  <2>2. ASSUME NEW v \in 1 .. Txid, NEW q \in Reach(v) PROVE disk'[q] # 0
    <3>1. q \in Pages /\ disk[q] # 0
      BY <1>2 DEF OwnerInv, Stored
    <3> QED BY <1>1, <1>4, <3>1
  <2>3. \A v \in 1 .. T : v \in 1 .. Txid \/ v = T
    BY <1>1
  <2>4. \A v \in 1 .. T : \A q \in Reach(v)' : disk'[q] # 0
    BY <1>2, <2>1, <2>2, <2>3 DEF Reach
  <2> QED BY <1>1, <2>1, <2>4 DEF Stored, Reach
<1>7. Dead'
  <2> SUFFICES ASSUME NEW v \in freeGen' .. T, NEW q \in free', q \in DOMAIN snaps'[v] PROVE FALSE
    BY <1>1 DEF Dead, Reach
  <2>1. CASE freeGen' = T /\ free' \cap DOMAIN snaps'[T] = {}
    BY <1>1, <2>1
  <2>2. CASE free' \subseteq free \ {p} /\ freeGen' = freeGen
    <3>1. q \in free /\ q # p /\ freeGen <= v
      BY <1>1, <2>2
    <3>2. CASE v = T
      <4>1. q \in Reach(Txid) /\ Txid \in freeGen .. Txid
        BY <1>1, <1>3, <3>1, <3>2
      <4> QED BY <3>1, <4>1 DEF OwnerInv, Dead
    <3>3. CASE v # T
      <4>1. v \in freeGen .. Txid /\ q \in Reach(v)
        BY <1>1, <3>1, <3>3 DEF Reach
      <4> QED BY <3>1, <4>1 DEF OwnerInv, Dead
    <3> QED BY <3>2, <3>3
  <2> QED BY <2>1, <2>2 DEF Committed
<1>8. Kept'
  <2> SUFFICES ASSUME NEW v \in Pinned
               PROVE  /\ v <= T
                      /\ \A q \in Reach(v)' : disk'[q] = snaps'[v][q]
                      /\ \A y \in v + 1 .. T : wrote'[y] \cap Reach(v)' = {}
    BY <1>1 DEF Kept
  <2>1. v \in 1 .. Txid /\ p \notin Reach(v)
    BY <1>1 DEF OwnerInv, Kept, Pinned, Types
  <2>2. \A q \in Reach(v) : disk[q] = snaps[v][q]
    BY DEF OwnerInv, Kept
  <2>3. \A y \in v + 1 .. Txid : wrote[y] \cap Reach(v) = {}
    BY DEF OwnerInv, Kept
  <2>4. \A y \in v + 1 .. T : wrote'[y] \cap Reach(v) = {}
    <3> SUFFICES ASSUME NEW y \in v + 1 .. T PROVE wrote'[y] \cap Reach(v) = {}
      OBVIOUS
    <3>1. CASE y = T
      BY <1>1, <2>1, <3>1
    <3>2. CASE y # T
      BY <1>1, <2>1, <2>3, <3>2
    <3> QED BY <3>1, <3>2
  <2> QED BY <1>1, <1>2, <1>4, <2>1, <2>2, <2>4
<1> QED BY <1>5, <1>6, <1>7, <1>8 DEF OwnerInv

\* A step that commits nothing and pins at most the published version.
LEMMA OwnerStays ==
    ASSUME Types, OwnerInv, UNCHANGED owned, Pinned' \subseteq Pinned \cup {Txid}
    PROVE  OwnerInv'
<1>1. /\ UNCHANGED <<disk, snaps, free, freeGen, wrote>> /\ Txid' = Txid /\ Txid \in Nat
      /\ \A v : Reach(v)' = Reach(v)
  BY DEF owned, Txid, Reach, Types
<1>2. Lineage' /\ Stored' /\ Dead'
  BY <1>1 DEF OwnerInv, Lineage, Stored, Dead
<1>3. Kept'
  <2> SUFFICES ASSUME NEW v \in Pinned \cup {Txid}
               PROVE  /\ v <= Txid /\ (\A p \in Reach(v) : disk[p] = snaps[v][p])
                      /\ \A y \in v + 1 .. Txid : wrote[y] \cap Reach(v) = {}
    BY <1>1 DEF Kept
  <2>1. CASE v = Txid
    BY <1>1, <2>1 DEF OwnerInv, Stored
  <2>2. CASE v \in Pinned
    BY <2>2 DEF OwnerInv, Kept
  <2> QED BY <2>1, <2>2
<1> QED BY <1>2, <1>3 DEF OwnerInv

-----------------------------------------------------------------------------
(* The pool and the loads.                                                 *)

\* The types that later steps need of a snapshot.
LEMMA TreeTypes ==
    ASSUME Types, NEW v \in 1 .. Txid
    PROVE  Reach(v) \subseteq Pages
<1>1. snaps[v] \in Trees
  BY DEF Types, Txid
<1> QED BY <1>1 DEF Trees, Reach

\* A version that a transaction reads is pinned, so the file still holds it.
LEMMA ActivePinned ==
    ASSUME CacheInv, NEW t \in Threads, ver[t] # 0
    PROVE  /\ ver[t] \in 1 .. Txid /\ ver[t] \in Pinned /\ ver[t] <= cache.adopted
           /\ \A p \in Reach(ver[t]) : disk[p] = snaps[ver[t]][p]
           /\ \A y \in ver[t] + 1 .. Txid : wrote[y] \cap Reach(ver[t]) = {}
<1>1. /\ ver[t] \in 1 .. Txid /\ Txid \in 1 .. MaxTxid /\ DOMAIN pins = 1 .. MaxTxid
      /\ \A v \in 1 .. MaxTxid : pins[v] \in Nat
  BY DEF CacheInv, Types
<1>2. ver[t] \in 1 .. MaxTxid
  BY <1>1, ClientCacheAssumption
<1>3. pins[ver[t]] = Count(begun, cache.lock, ver[t]) + HeldPin(ver[t]) + WritePin(ver[t])
  BY <1>2 DEF CacheInv, ClientInv, PinsInv
<1>4. Count(begun, cache.lock, ver[t]) \in 0 .. 1 /\ HeldPin(ver[t]) \in 0 .. 1 /\ WritePin(ver[t]) \in 0 .. 1
  BY DEF Count, HeldPin, WritePin
<1>5. HeldPin(ver[t]) = 1 \/ WritePin(ver[t]) = 1
  <2>1. CASE t \in Readers
    <3>1. ver[t] \in held
      BY <2>1 DEF CacheInv, ClientInv, PinsInv
    <3> QED BY <3>1 DEF HeldPin
  <2>2. CASE t = Writer
    <3>1. wpc = "writing" /\ ver[t] = Txid /\ granted
      BY <2>2 DEF CacheInv, ClientInv, WriterInv
    <3> QED BY <3>1 DEF WritePin
  <2> QED BY <2>1, <2>2 DEF Threads
<1>6. pins[ver[t]] > 0
  BY <1>3, <1>4, <1>5
<1>7. ver[t] \in Pinned
  BY <1>1, <1>2, <1>6 DEF Pinned
<1>8. ver[t] <= cache.adopted
  BY DEF CacheInv, ClientInv, Bounded
<1> QED BY <1>1, <1>7, <1>8 DEF CacheInv, OwnerInv, Kept

\* A frame is added, in place of another where the pool is full.
LEMMA InsertEffect ==
    ASSUME Types, NEW p, NEW val, Insert(p, val)
    PROVE  /\ IsFiniteSet(DOMAIN pool') /\ Cardinality(DOMAIN pool') <= Capacity
           /\ \A q \in DOMAIN pool' : \/ q = p /\ pool'[q] = val
                                      \/ q \in DOMAIN pool /\ pool'[q] = pool[q]
<1>1. IsFiniteSet(DOMAIN pool) /\ Cardinality(DOMAIN pool) <= Capacity /\ Capacity \in Nat
  BY ClientCacheAssumption DEF Types
<1>2. ASSUME NEW S \in SUBSET DOMAIN pool, Cardinality(S) < Capacity, IsFiniteSet(S),
             pool' = [q \in S \cup {p} |-> IF q = p THEN val ELSE pool[q]]
      PROVE  /\ IsFiniteSet(DOMAIN pool') /\ Cardinality(DOMAIN pool') <= Capacity
             /\ \A q \in DOMAIN pool' : \/ q = p /\ pool'[q] = val
                                        \/ q \in DOMAIN pool /\ pool'[q] = pool[q]
  <2>1. DOMAIN pool' = S \cup {p}
    BY <1>2
  <2>2. /\ IsFiniteSet(S \cup {p}) /\ Cardinality(S) \in Nat
        /\ Cardinality(S \cup {p}) = Cardinality(S) \/ Cardinality(S \cup {p}) = Cardinality(S) + 1
    BY <1>2, FS_AddElement, FS_CardinalityType
  <2> QED BY <1>1, <1>2, <2>1, <2>2
<1>3. CASE Cardinality(DOMAIN pool) < Capacity
  BY <1>1, <1>2, <1>3 DEF Insert
<1>4. CASE ~(Cardinality(DOMAIN pool) < Capacity)
  <2>1. PICK victim \in DOMAIN pool :
          pool' = [q \in (DOMAIN pool \ {victim}) \cup {p} |-> IF q = p THEN val ELSE pool[q]]
    BY <1>4 DEF Insert
  <2>2. /\ IsFiniteSet(DOMAIN pool \ {victim}) /\ Cardinality(DOMAIN pool) \in Nat
        /\ Cardinality(DOMAIN pool \ {victim}) = Cardinality(DOMAIN pool) - 1
    BY <1>1, FS_RemoveElement, FS_CardinalityType
  <2> QED BY <1>1, <1>2, <2>1, <2>2
<1> QED BY <1>3, <1>4

\* Frames go, loads in flight are detached; nothing else is lost.
LEMMA InvalidatedEffect ==
    ASSUME Types, NEW pages, Invalidated(pages)
    PROVE  /\ DOMAIN pool' = DOMAIN pool \ pages /\ \A q \in DOMAIN pool' : pool'[q] = pool[q]
           /\ IsFiniteSet(DOMAIN pool') /\ Cardinality(DOMAIN pool') <= Capacity
           /\ load' \in [Threads -> Loads]
           /\ \A t \in Threads : /\ load'[t].page = load[t].page /\ load'[t].val = load[t].val
                                 /\ load'[t].registered <=> load[t].registered
                                 /\ load[t] = NoLoad => load'[t] = NoLoad
<1>1. pool' = Restrict(pool, DOMAIN pool \ pages) /\ load \in [Threads -> Loads]
      /\ IsFiniteSet(DOMAIN pool) /\ Cardinality(DOMAIN pool) <= Capacity /\ Capacity \in Nat
  BY ClientCacheAssumption DEF Invalidated, Types
<1>2. load' = [t \in Threads |-> [load[t] EXCEPT !.dead = load[t].dead \/ (load[t].registered /\ load[t].page \in pages)]]
  BY DEF Invalidated
<1>3. DOMAIN pool' = DOMAIN pool \ pages /\ \A q \in DOMAIN pool' : pool'[q] = pool[q]
  BY <1>1 DEF Restrict
<1>4. IsFiniteSet(DOMAIN pool') /\ Cardinality(DOMAIN pool') <= Capacity
  <2>1. DOMAIN pool' \in SUBSET DOMAIN pool
    BY <1>3
  <2>2. /\ IsFiniteSet(DOMAIN pool') /\ Cardinality(DOMAIN pool') <= Cardinality(DOMAIN pool)
        /\ Cardinality(DOMAIN pool') \in Nat /\ Cardinality(DOMAIN pool) \in Nat
    BY <1>1, <2>1, FS_Subset, FS_CardinalityType
  <2> QED BY <1>1, <2>2
<1>5. ASSUME NEW t \in Threads
      PROVE  /\ load'[t] \in Loads
             /\ load'[t].page = load[t].page /\ load'[t].val = load[t].val
             /\ load'[t].registered <=> load[t].registered
             /\ load[t] = NoLoad => load'[t] = NoLoad
  <2> DEFINE gone == load[t].dead \/ (load[t].registered /\ load[t].page \in pages)
  <2>1. load[t] \in Loads /\ load'[t] = [load[t] EXCEPT !.dead = gone]
    BY <1>1, <1>2
  <2>2. gone \in BOOLEAN /\ (load[t] = NoLoad => ~gone)
    BY <2>1 DEF Loads, NoLoad
  <2> HIDE DEF gone
  <2>3. load'[t] \in Loads /\ load'[t].page = load[t].page /\ load'[t].val = load[t].val
        /\ (load'[t].registered <=> load[t].registered)
    BY <2>1, <2>2 DEF Loads
  <2>4. load[t] = NoLoad => load'[t] = NoLoad
    <3> SUFFICES ASSUME load[t] = NoLoad PROVE load'[t] = NoLoad
      OBVIOUS
    <3>1. load'[t].joined = load[t].joined /\ ~load'[t].dead /\ ~load'[t].registered
      BY <2>1, <2>2, <2>3 DEF Loads, NoLoad
    <3>2. load'[t].page = NoLoad.page /\ load'[t].val = NoLoad.val /\ load'[t].joined = NoLoad.joined
      BY <2>3, <3>1
    <3>3. PICK x \in Loads : x = load'[t]
      BY <2>3
    <3>4. x.page = NoLoad.page /\ x.val = NoLoad.val /\ x.joined = NoLoad.joined /\ ~x.dead /\ ~x.registered
      BY <3>1, <3>2, <3>3
    <3>5. x = NoLoad
      BY <3>4 DEF Loads, NoLoad
    <3> QED BY <3>3, <3>5
  <2> QED BY <2>3, <2>4
<1>6. load' \in [Threads -> Loads]
  BY <1>2, <1>5
<1> QED BY <1>3, <1>4, <1>5, <1>6

\* A step of the loads and the pool: what it adds to the pool was read for a
\* transaction, which keeps its page from being rewritten.
LEMMA PoolStep ==
    ASSUME CacheInv, UNCHANGED <<owned, pins, granted, cache, roots, held, ver, begun, wpc>>,
           load' \in [Threads -> Loads], IsFiniteSet(DOMAIN pool'), Cardinality(DOMAIN pool') <= Capacity,
           \A t \in Threads : load'[t] # NoLoad =>
                /\ ver[t] # 0 /\ load'[t].page \in Reach(ver[t])
                /\ load'[t].val = disk[load'[t].page] \/ (load'[t].val = -1 /\ load'[t].registered),
           \A q \in DOMAIN pool' :
                \/ q \in DOMAIN pool /\ pool'[q] = pool[q]
                \/ \E t \in Threads : ver[t] # 0 /\ q \in Reach(ver[t]) /\ pool'[q] = disk[q]
    PROVE  CacheInv'
<1>1. UNCHANGED <<disk, snaps, free, freeGen, wrote, pins, granted, cache, roots, held, ver, begun, wpc>>
  BY DEF owned
<1>2. /\ Txid' = Txid /\ Pinned' = Pinned /\ Own' = Own /\ \A v : Reach(v)' = Reach(v)
      /\ \A v : HeldPin(v)' = HeldPin(v) /\ WritePin(v)' = WritePin(v)
      /\ \A b : Covers(b)' <=> Covers(b)
  BY <1>1 DEF Txid, Pinned, Own, Reach, HeldPin, WritePin, Covers
<1>3. Types'
  BY <1>1, <1>2 DEF CacheInv, Types
<1>4. OwnerInv'
  BY <1>2, OwnerStays DEF CacheInv
<1>5. Reply' /\ RootsInv' /\ Bounded' /\ PinsInv'
  BY <1>1, <1>2 DEF CacheInv, ClientInv, Reply, RootsInv, Bounded, PinsInv, Count
<1>6. LoadsInv'
  BY <1>1, <1>2 DEF LoadsInv
<1>7. ASSUME NEW t \in Threads, ver[t] # 0, NEW q \in Reach(ver[t]), q \in DOMAIN pool'
      PROVE  pool'[q] = snaps[ver[t]][q]
  <2>1. CASE q \in DOMAIN pool /\ pool'[q] = pool[q]
    BY <1>7, <2>1 DEF CacheInv, ClientInv, Frames
  <2>2. CASE pool'[q] = disk[q]
    BY <1>7, <2>2, ActivePinned
  <2> QED BY <1>7, <2>1, <2>2
<1>8. Frames'
  BY <1>1, <1>2, <1>7 DEF Frames
<1>9. cache.adopted \in 1 .. Txid /\ Txid \in Nat
  BY DEF CacheInv, Types
<1>10. ASSUME NEW q \in DOMAIN pool', q \in Reach(cache.adopted)
       PROVE  pool'[q] = snaps[cache.adopted][q]
  <2>1. CASE q \in DOMAIN pool /\ pool'[q] = pool[q]
    BY <1>10, <2>1 DEF CacheInv, ClientInv, CacheIsAdopted
  <2>2. ASSUME NEW t \in Threads, ver[t] # 0, q \in Reach(ver[t]), pool'[q] = disk[q]
        PROVE  pool'[q] = snaps[cache.adopted][q]
    <3>1. /\ ver[t] \in 1 .. cache.adopted /\ disk[q] = snaps[ver[t]][q]
          /\ \A y \in ver[t] + 1 .. cache.adopted : q \notin wrote[y]
      BY <1>9, <2>2, ActivePinned
    <3> QED BY <1>9, <1>10, <2>2, <3>1 DEF CacheInv, OwnerInv, Lineage
  <2> QED BY <2>1, <2>2
<1>11. CacheIsAdopted'
  BY <1>1, <1>2, <1>10 DEF CacheIsAdopted
<1>12. WriterInv'
  <2>1. ASSUME wpc \in {"written", "published"}, cache.adopted < Own, NEW q \in DOMAIN pool',
               q \in wrote[Own]
        PROVE  FALSE
    <3>1. Own \in 1 .. Txid
      BY <2>1 DEF CacheInv, ClientInv, WriterInv
    <3>2. q \notin DOMAIN pool
      BY <2>1 DEF CacheInv, ClientInv, WriterInv
    <3>3. PICK t \in Threads : ver[t] # 0 /\ q \in Reach(ver[t])
      BY <3>2
    <3>4. ver[t] \in 1 .. Txid /\ Own \in ver[t] + 1 .. Txid
      BY <1>9, <2>1, <3>1, <3>3, ActivePinned
    <3> QED BY <2>1, <3>3, <3>4, ActivePinned
  <2>2. (wpc \in {"written", "published"} /\ cache.adopted < Own => wrote[Own] \cap DOMAIN pool = {})'
    BY <1>1, <1>2, <2>1
  <2> QED BY <1>1, <1>2, <2>2 DEF CacheInv, ClientInv, WriterInv
<1> QED BY <1>3, <1>4, <1>5, <1>6, <1>8, <1>11, <1>12 DEF CacheInv, ClientInv

\* A miss: the page is the transaction's and may be loaded.
LEMMA MissEffect ==
    ASSUME CacheInv, NEW t \in Threads, NEW p, Misses(t, p)
    PROVE  ver[t] # 0 /\ p \in Reach(ver[t]) /\ p \in Pages /\ load[t] = NoLoad
<1>1. ver[t] # 0 /\ p \in Reach(ver[t]) /\ load[t] = NoLoad
  BY DEF Misses, Loading
<1>2. ver[t] \in 1 .. Txid
  BY <1>1, ActivePinned
<1> QED BY <1>1, <1>2, TreeTypes DEF CacheInv

\* One thread's load changes: to none, or to one of its transaction's page.
LEMMA LoadStep ==
    ASSUME CacheInv, UNCHANGED <<owned, pins, granted, cache, roots, held, ver, begun, wpc>>,
           NEW t \in Threads, NEW x \in Loads, load' = [load EXCEPT ![t] = x],
           x # NoLoad => /\ ver[t] # 0 /\ x.page \in Reach(ver[t])
                         /\ x.val = disk[x.page] \/ (x.val = -1 /\ x.registered),
           IsFiniteSet(DOMAIN pool'), Cardinality(DOMAIN pool') <= Capacity,
           \A q \in DOMAIN pool' :
                \/ q \in DOMAIN pool /\ pool'[q] = pool[q]
                \/ \E s \in Threads : ver[s] # 0 /\ q \in Reach(ver[s]) /\ pool'[q] = disk[q]
    PROVE  CacheInv'
<1>1. load \in [Threads -> Loads]
  BY DEF CacheInv, Types
<1>2. load' \in [Threads -> Loads] /\ load'[t] = x /\ \A s \in Threads : s # t => load'[s] = load[s]
  BY <1>1
<1>3. ASSUME NEW s \in Threads, load'[s] # NoLoad
      PROVE  /\ ver[s] # 0 /\ load'[s].page \in Reach(ver[s])
             /\ load'[s].val = disk[load'[s].page] \/ (load'[s].val = -1 /\ load'[s].registered)
  <2>1. CASE s = t
    BY <1>2, <1>3, <2>1
  <2>2. CASE s # t
    BY <1>2, <1>3, <2>2 DEF CacheInv, ClientInv, LoadsInv
  <2> QED BY <2>1, <2>2
<1> QED BY <1>2, <1>3, PoolStep

\* The pool as it was.
LEMMA SamePool ==
    ASSUME CacheInv, pool' = pool
    PROVE  /\ IsFiniteSet(DOMAIN pool') /\ Cardinality(DOMAIN pool') <= Capacity
           /\ \A q \in DOMAIN pool' : q \in DOMAIN pool /\ pool'[q] = pool[q]
BY DEF CacheInv, Types

\* get_or_load, as the leader.
LEMMA FaultSafe ==
    ASSUME CacheInv, NEW t \in Threads, NEW p \in Pages, Fault(t, p)
    PROVE  CacheInv'
<1> DEFINE x == [NoLoad EXCEPT !.page = p, !.registered = TRUE]
<1>1. ver[t] # 0 /\ p \in Reach(ver[t])
  BY MissEffect DEF Fault
<1>2. x \in Loads /\ x.page = p /\ x.val = -1 /\ x.registered
  <2>1. NoLoad \in Loads /\ NoLoad.val = -1
    BY ClientCacheAssumption DEF NoLoad, Loads
  <2> QED BY <2>1 DEF Loads
<1>3. /\ load' = [load EXCEPT ![t] = x] /\ pool' = pool
      /\ UNCHANGED <<owned, pins, granted, cache, roots, held, ver, begun, wpc>>
  BY DEF Fault
<1> HIDE DEF x
<1> QED BY <1>1, <1>2, <1>3, SamePool, LoadStep

\* get_or_load, waiting for the leader.
LEMMA JoinSafe ==
    ASSUME CacheInv, NEW t \in Threads, NEW s \in Threads, NEW p \in Pages, Join(t, s, p)
    PROVE  CacheInv'
<1>1. load \in [Threads -> Loads] /\ load[s].registered
  BY DEF Join, Flight, CacheInv, Types
<1> DEFINE x == [load[s] EXCEPT !.joined = load[s].joined \cup {t}]
<1>2. load[s] \in Loads /\ load[s] # NoLoad
  BY <1>1 DEF NoLoad
<1>3. x \in Loads /\ x.page = load[s].page /\ x.val = load[s].val /\ (x.registered <=> load[s].registered)
  BY <1>2 DEF Loads
<1>4. /\ load' = [load EXCEPT ![s] = x] /\ pool' = pool
      /\ UNCHANGED <<owned, pins, granted, cache, roots, held, ver, begun, wpc>>
  BY DEF Join
<1>5. /\ ver[s] # 0 /\ load[s].page \in Reach(ver[s])
      /\ load[s].val = disk[load[s].page] \/ (load[s].val = -1 /\ load[s].registered)
  BY <1>2 DEF CacheInv, ClientInv, LoadsInv
<1> HIDE DEF x
<1> QED BY <1>3, <1>4, <1>5, SamePool, LoadStep

\* The leader's read.
LEMMA ReadBlockSafe ==
    ASSUME CacheInv, NEW t \in Threads, ReadBlock(t)
    PROVE  CacheInv'
<1> DEFINE x == [load[t] EXCEPT !.val = disk[load[t].page]]
<1>1. load \in [Threads -> Loads] /\ load[t].registered /\ disk \in [Pages -> 0 .. Txid] /\ Txid \in Nat
  BY DEF ReadBlock, CacheInv, Types
<1>2. load[t] \in Loads /\ load[t] # NoLoad /\ NoLoad \in Loads
  BY <1>1, ClientCacheAssumption DEF NoLoad, Loads
<1>3. disk[load[t].page] \in Int
  BY <1>1, <1>2 DEF Loads
<1>4. x \in Loads /\ x.page = load[t].page /\ x.val = disk[x.page]
  BY <1>2, <1>3 DEF Loads
<1>5. /\ load' = [load EXCEPT ![t] = IF Named = 0 THEN NoLoad ELSE x] /\ pool' = pool
      /\ UNCHANGED <<owned, pins, granted, cache, roots, held, ver, begun, wpc>>
  BY DEF ReadBlock
<1>6. ver[t] # 0 /\ load[t].page \in Reach(ver[t])
  BY <1>2 DEF CacheInv, ClientInv, LoadsInv
<1> HIDE DEF x
<1>7. CASE Named = 0
  <2>1. load' = [load EXCEPT ![t] = NoLoad]
    BY <1>5, <1>7
  <2> QED BY <1>2, <1>5, <2>1, SamePool, LoadStep
<1>8. CASE Named # 0
  <2>1. load' = [load EXCEPT ![t] = x]
    BY <1>5, <1>8
  <2> QED BY <1>4, <1>5, <1>6, <2>1, SamePool, LoadStep
<1> QED BY <1>7, <1>8

\* The leader's value is admitted, unless it was invalidated.
LEMMA CompleteSafe ==
    ASSUME CacheInv, NEW t \in Threads, Complete(t)
    PROVE  CacheInv'
<1>1. /\ load' = [load EXCEPT ![t] = NoLoad] /\ load[t].registered /\ load[t].val # -1
      /\ UNCHANGED <<owned, pins, granted, cache, roots, held, ver, begun, wpc>>
      /\ pool' = pool \/ Insert(load[t].page, load[t].val)
  BY DEF Complete
<1>2. NoLoad \in Loads /\ load[t] # NoLoad
  BY <1>1, ClientCacheAssumption DEF NoLoad, Loads
<1>3. ver[t] # 0 /\ load[t].page \in Reach(ver[t]) /\ load[t].val = disk[load[t].page]
  BY <1>1, <1>2 DEF CacheInv, ClientInv, LoadsInv
<1>4. CASE pool' = pool
  BY <1>1, <1>2, <1>4, SamePool, LoadStep
<1>5. CASE Insert(load[t].page, load[t].val)
  <2>1. /\ IsFiniteSet(DOMAIN pool') /\ Cardinality(DOMAIN pool') <= Capacity
        /\ \A q \in DOMAIN pool' : \/ q = load[t].page /\ pool'[q] = load[t].val
                                   \/ q \in DOMAIN pool /\ pool'[q] = pool[q]
    BY <1>5, InsertEffect DEF CacheInv
  <2>2. \A q \in DOMAIN pool' :
            \/ q \in DOMAIN pool /\ pool'[q] = pool[q]
            \/ \E s \in Threads : ver[s] # 0 /\ q \in Reach(ver[s]) /\ pool'[q] = disk[q]
    BY <1>3, <2>1
  <2> QED BY <1>1, <1>2, <2>1, <2>2, LoadStep
<1> QED BY <1>1, <1>4, <1>5

\* Read-ahead reads before it registers.
LEMMA PrefetchSafe ==
    ASSUME CacheInv, NEW t \in Threads, NEW p \in Pages, Prefetch(t, p)
    PROVE  CacheInv'
<1> DEFINE x == [NoLoad EXCEPT !.page = p, !.val = disk[p]]
<1>1. ver[t] # 0 /\ p \in Reach(ver[t])
  BY MissEffect DEF Prefetch
<1>2. disk[p] \in Int
  BY DEF CacheInv, Types
<1>3. x \in Loads /\ x.page = p /\ x.val = disk[x.page]
  BY <1>2 DEF NoLoad, Loads
<1>4. /\ load' = [load EXCEPT ![t] = x] /\ pool' = pool
      /\ UNCHANGED <<owned, pins, granted, cache, roots, held, ver, begun, wpc>>
  BY DEF Prefetch
<1> HIDE DEF x
<1> QED BY <1>1, <1>3, <1>4, SamePool, LoadStep

\* What was read ahead is admitted, though it could not be invalidated.
LEMMA PrefetchAdmitSafe ==
    ASSUME CacheInv, NEW t \in Threads, PrefetchAdmit(t)
    PROVE  CacheInv'
<1>1. /\ load' = [load EXCEPT ![t] = NoLoad] /\ ~load[t].registered /\ load[t] # NoLoad
      /\ UNCHANGED <<owned, pins, granted, cache, roots, held, ver, begun, wpc>>
      /\ pool' = pool \/ Insert(load[t].page, load[t].val)
  BY DEF PrefetchAdmit
<1>2. NoLoad \in Loads
  BY ClientCacheAssumption DEF NoLoad, Loads
<1>3. ver[t] # 0 /\ load[t].page \in Reach(ver[t]) /\ load[t].val = disk[load[t].page]
  BY <1>1, <1>2 DEF CacheInv, ClientInv, LoadsInv
<1>4. CASE pool' = pool
  BY <1>1, <1>2, <1>4, SamePool, LoadStep
<1>5. CASE Insert(load[t].page, load[t].val)
  <2>1. /\ IsFiniteSet(DOMAIN pool') /\ Cardinality(DOMAIN pool') <= Capacity
        /\ \A q \in DOMAIN pool' : \/ q = load[t].page /\ pool'[q] = load[t].val
                                   \/ q \in DOMAIN pool /\ pool'[q] = pool[q]
    BY <1>5, InsertEffect DEF CacheInv
  <2>2. \A q \in DOMAIN pool' :
            \/ q \in DOMAIN pool /\ pool'[q] = pool[q]
            \/ \E s \in Threads : ver[s] # 0 /\ q \in Reach(ver[s]) /\ pool'[q] = disk[q]
    BY <1>3, <2>1
  <2> QED BY <1>1, <1>2, <2>1, <2>2, LoadStep
<1> QED BY <1>1, <1>4, <1>5

-----------------------------------------------------------------------------
(* Commits, and the readers.                                               *)

\* What a commit leaves of the owner's state, as a client sees it: every version
\* it knows is unchanged, and so are the pages its transactions read.
LEMMA CommitFrame ==
    ASSUME CacheInv, NEW p \in Pages, Committed(p)
    PROVE  /\ Txid' = Txid + 1 /\ Txid \in Nat /\ Txid \in 1 .. MaxTxid /\ Txid' \in 1 .. MaxTxid
           /\ \A v \in 1 .. Txid : /\ v \in 1 .. Txid' /\ Reach(v)' = Reach(v)
                                   /\ snaps'[v] = snaps[v] /\ wrote'[v] = wrote[v]
           /\ \A t \in Threads : ver[t] # 0 => \A q \in Reach(ver[t]) : disk'[q] = disk[q]
           /\ snaps' \in Seq(Trees) /\ wrote' \in Seq(SUBSET Pages) /\ Len(wrote') = Txid'
           /\ disk' \in [Pages -> 0 .. Txid'] /\ free' \subseteq Pages /\ freeGen' \in 1 .. Txid'
<1>1. /\ Txid' = Txid + 1 /\ Txid' <= MaxTxid /\ Txid \in 1 .. MaxTxid /\ MaxTxid \in Nat
      /\ disk \in [Pages -> 0 .. Txid] /\ disk' = [disk EXCEPT ![p] = Txid + 1]
      /\ snaps' \in Seq(Trees) /\ wrote' \in Seq(SUBSET Pages) /\ Len(wrote') = Txid + 1
      /\ free' \subseteq Pages /\ freeGen' \in 1 .. Txid + 1
      /\ \A v \in 1 .. Txid : snaps'[v] = snaps[v] /\ wrote'[v] = wrote[v]
      /\ \A v \in Pinned : p \notin Reach(v)
  BY ClientCacheAssumption DEF CacheInv, Types, Committed
<1>2. \A v \in 1 .. Txid : v \in 1 .. Txid' /\ Reach(v)' = Reach(v)
  BY <1>1 DEF Reach
<1>3. ASSUME NEW t \in Threads, ver[t] # 0, NEW q \in Reach(ver[t]) PROVE disk'[q] = disk[q]
  <2>1. q # p
    BY <1>1, <1>3, ActivePinned
  <2>2. q \in Pages
    BY <1>3, ActivePinned, TreeTypes DEF CacheInv
  <2> QED BY <1>1, <2>1, <2>2
<1>4. disk' \in [Pages -> 0 .. Txid']
  BY <1>1
<1> QED BY <1>1, <1>2, <1>3, <1>4

\* A commit disturbs no client state that it leaves alone; a transaction may end
\* with it.
LEMMA CommitClients ==
    ASSUME CacheInv, NEW p \in Pages, Committed(p), UNCHANGED <<pool, load, cache, roots, held>>,
           \A r \in Readers : begun'[r] = begun[r],
           \A t \in Threads : ver'[t] = ver[t] \/ (ver'[t] = 0 /\ load[t] = NoLoad)
    PROVE  Reply' /\ Bounded' /\ LoadsInv' /\ Frames' /\ CacheIsAdopted'
<1>1. /\ Txid' = Txid + 1 /\ Txid \in Nat
      /\ \A v \in 1 .. Txid : /\ v \in 1 .. Txid' /\ Reach(v)' = Reach(v)
                              /\ snaps'[v] = snaps[v] /\ wrote'[v] = wrote[v]
      /\ \A t \in Threads : ver[t] # 0 => \A q \in Reach(ver[t]) : disk'[q] = disk[q]
  BY CommitFrame
<1>2. cache.adopted \in 1 .. Txid /\ ver \in [Threads -> 0 .. Txid]
  BY DEF CacheInv, Types
<1>3. Reply'
  <2> SUFFICES ASSUME NEW r \in Readers, begun[r] # NotBegun
               PROVE  begun[r].txid \in 1 .. Txid' /\ ver'[r] = 0 /\ Covers(begun[r])'
    BY DEF CacheInv, ClientInv, Reply
  <2>1. begun[r].txid \in 1 .. Txid /\ Covers(begun[r]) /\ ver[r] = 0
    BY DEF CacheInv, ClientInv, Reply
  <2>2. \A y \in cache.adopted + 1 .. begun[r].txid : y \in 1 .. Txid
    BY <1>1, <1>2, <2>1
  <2>3. ver'[r] = 0
    BY <2>1 DEF Threads
  <2> QED BY <1>1, <2>1, <2>2, <2>3 DEF Covers
<1>4. Bounded'
  <2>1. 0 <= cache.adopted
    BY <1>2
  <2> QED BY <2>1 DEF CacheInv, ClientInv, Bounded
<1>5. \A t \in Threads : ver'[t] # 0 => ver'[t] = ver[t] /\ ver[t] \in 1 .. Txid
  BY <1>2
<1>6. LoadsInv'
  <2>1. \A t \in Threads : load[t] # NoLoad => ver'[t] = ver[t] /\ ver[t] # 0
    BY DEF CacheInv, ClientInv, LoadsInv
  <2> QED BY <1>1, <1>5, <2>1 DEF CacheInv, ClientInv, LoadsInv
<1>7. Frames'
  BY <1>1, <1>5 DEF CacheInv, ClientInv, Frames
<1>8. CacheIsAdopted'
  BY <1>1, <1>2 DEF CacheInv, ClientInv, CacheIsAdopted
<1> QED BY <1>3, <1>4, <1>6, <1>7, <1>8

\* The owner or another client commits.
LEMMA OtherCommitSafe ==
    ASSUME CacheInv, OtherCommit
    PROVE  CacheInv'
<1>1. /\ ~granted /\ UNCHANGED <<pins, granted, pool, load, cache, roots, held, ver, begun, wpc>>
      /\ \E reclaims \in BOOLEAN : Commit(reclaims)
  <2>1. (Pinned = {}) \in BOOLEAN
    OBVIOUS
  <2> QED BY <2>1 DEF OtherCommit
<1>2. PICK p \in Pages : Committed(p)
  BY <1>1, CommitEffect DEF CacheInv
<1>3. /\ Txid' = Txid + 1 /\ Txid \in Nat /\ Txid \in 1 .. MaxTxid /\ Txid' \in 1 .. MaxTxid
      /\ \A v \in 1 .. Txid : /\ v \in 1 .. Txid' /\ Reach(v)' = Reach(v)
                              /\ snaps'[v] = snaps[v] /\ wrote'[v] = wrote[v]
      /\ \A t \in Threads : ver[t] # 0 => \A q \in Reach(ver[t]) : disk'[q] = disk[q]
      /\ snaps' \in Seq(Trees) /\ wrote' \in Seq(SUBSET Pages) /\ Len(wrote') = Txid'
      /\ disk' \in [Pages -> 0 .. Txid'] /\ free' \subseteq Pages /\ freeGen' \in 1 .. Txid'
  BY <1>2, CommitFrame
<1>4. Types'
  <2>1. /\ cache \in [lock : Threads, adopted : 1 .. Txid] /\ roots \in 1 .. Txid
        /\ held \subseteq 1 .. Txid /\ ver \in [Threads -> 0 .. Txid]
    BY DEF CacheInv, Types
  <2>2. /\ cache' \in [lock : Threads, adopted : 1 .. Txid'] /\ roots' \in 1 .. Txid'
        /\ held' \subseteq 1 .. Txid' /\ ver' \in [Threads -> 0 .. Txid']
    BY <1>1, <1>3, <2>1
  <2> QED BY <1>1, <1>3, <2>2 DEF CacheInv, Types
<1>5. OwnerInv'
  <2>1. Pinned' = Pinned
    BY <1>1 DEF Pinned
  <2> QED BY <1>2, <2>1, OwnerCommits DEF CacheInv
<1>6. cache.adopted \in 1 .. Txid /\ ver \in [Threads -> 0 .. Txid] /\ wpc \notin {"granted", "writing"}
  BY <1>1 DEF CacheInv, Types, ClientInv, WriterInv
<1>7. Reply' /\ Bounded' /\ LoadsInv' /\ Frames' /\ CacheIsAdopted'
  BY <1>1, <1>2, CommitClients
<1>8. WriterInv'
  <2>1. Own' = Own
    BY <1>1 DEF Own
  <2>2. /\ ver[Writer] = 0 /\ (wpc = "asked" => Own \in 1 .. cache.adopted)
        /\ wpc \in {"committed", "written", "published"} =>
                Own \in 1 .. Txid /\ cache.adopted + 1 >= Own
        /\ wpc \in {"written", "published"} /\ cache.adopted < Own => wrote[Own] \cap DOMAIN pool = {}
    BY <1>6 DEF CacheInv, ClientInv, WriterInv
  <2> QED BY <1>1, <1>3, <1>6, <2>1, <2>2 DEF WriterInv
<1>9. RootsInv'
  BY <1>1 DEF CacheInv, ClientInv, RootsInv, Own
<1>10. PinsInv'
  <2>1. \A v \in 1 .. MaxTxid : HeldPin(v)' = HeldPin(v) /\ WritePin(v)' = WritePin(v)
    BY <1>1 DEF HeldPin, WritePin
  <2> QED BY <1>1, <2>1 DEF CacheInv, ClientInv, PinsInv, Count
<1> QED BY <1>4, <1>5, <1>7, <1>8, <1>9, <1>10 DEF CacheInv, ClientInv

\* A reply lists, or drops with everything, what was written since `last`.
LEMMA InvalidationEffect ==
    ASSUME Types, NEW last \in 1 .. Txid
    PROVE  LET b == Invalidation(last) IN
           /\ b \in Replies /\ b.txid = Txid /\ (b.all => last < Txid)
           /\ b.all \/ \A y \in last + 1 .. Txid : wrote[y] \subseteq b.pages
<1>1. Txid \in Nat /\ Window \in Nat /\ Window >= 1 /\ Txid >= 1
  BY ClientCacheAssumption DEF Types
<1>2. \A v \in last + 1 .. Txid : wrote[v] \in SUBSET Pages
  BY <1>1 DEF Types
<1>3. CASE last < Txid - Window
  <2>1. Invalidation(last) = [txid |-> Txid, all |-> TRUE, pages |-> {}]
    BY <1>3 DEF Invalidation
  <2> QED BY <1>1, <1>3, <2>1 DEF Replies
<1>4. CASE ~(last < Txid - Window)
  <2> DEFINE P == UNION {wrote[v] : v \in last + 1 .. Txid}
  <2>1. Invalidation(last) = [txid |-> Txid, all |-> FALSE, pages |-> P]
    BY <1>4 DEF Invalidation
  <2>2. P \in SUBSET Pages /\ \A y \in last + 1 .. Txid : wrote[y] \subseteq P
    BY <1>2
  <2> HIDE DEF P
  <2> QED BY <1>1, <2>1, <2>2 DEF Replies
<1> QED BY <1>3, <1>4

\* begin_read: the owner pins the published version and answers for the adopted
\* one, while the client holds the cache lock.
LEMMA BeginReadSafe ==
    ASSUME CacheInv, NEW r \in Readers, BeginRead(r)
    PROVE  CacheInv'
<1> DEFINE b == Invalidation(cache.adopted)
<1>1. /\ ver[r] = 0 /\ begun[r] = NotBegun /\ cache.lock = Writer
      /\ cache' = [cache EXCEPT !.lock = r] /\ pins' = [pins EXCEPT ![Txid] = pins[Txid] + 1]
      /\ begun' = [begun EXCEPT ![r] = b]
      /\ UNCHANGED <<owned, granted, pool, load, roots, held, ver, wpc>>
  BY DEF BeginRead, Unlocked
<1>2. UNCHANGED <<disk, snaps, free, freeGen, wrote>> /\ Txid' = Txid /\ \A v : Reach(v)' = Reach(v)
  BY <1>1 DEF owned, Txid, Reach
<1>3. /\ Types /\ Txid \in Nat /\ Txid \in 1 .. MaxTxid /\ pins \in [1 .. MaxTxid -> Nat]
      /\ cache \in [lock : Threads, adopted : 1 .. Txid] /\ begun \in [Threads -> Replies]
      /\ roots \in 1 .. Txid /\ r \in Threads /\ Writer \in Threads /\ r # Writer
  <2>1. r \in Threads /\ Writer \in Threads /\ r # Writer
    BY ClientCacheAssumption DEF Threads
  <2>2. Txid \in Nat /\ Txid \in 1 .. MaxTxid
    BY DEF CacheInv, Types
  <2> QED BY <2>1, <2>2 DEF CacheInv, Types
<1>4. /\ b \in Replies /\ b.txid = Txid /\ (b.all => cache.adopted < Txid)
      /\ b.all \/ \A y \in cache.adopted + 1 .. Txid : wrote[y] \subseteq b.pages
  BY <1>3, InvalidationEffect
<1> HIDE DEF b
<1>5. /\ cache'.lock = r /\ cache'.adopted = cache.adopted
      /\ cache' \in [lock : Threads, adopted : 1 .. Txid]
  BY <1>1, <1>3
<1>6. /\ begun' \in [Threads -> Replies] /\ begun'[r] = b
      /\ \A t \in Threads : t # r => begun'[t] = begun[t]
  BY <1>1, <1>3, <1>4
<1>7. /\ pins' \in [1 .. MaxTxid -> Nat] /\ pins'[Txid] = pins[Txid] + 1
      /\ \A v \in 1 .. MaxTxid : v # Txid => pins'[v] = pins[v]
  BY <1>1, <1>3
<1>8. Types'
  BY <1>1, <1>2, <1>5, <1>6, <1>7 DEF CacheInv, Types
<1>9. OwnerInv'
  <2>1. Pinned' \subseteq Pinned \cup {Txid}
    BY <1>3, <1>7 DEF Pinned
  <2> QED BY <1>1, <2>1, OwnerStays DEF CacheInv
<1>10. \A x : Covers(x)' <=> Covers(x)
  BY <1>2, <1>5 DEF Covers
<1>11. Reply'
  <2> SUFFICES ASSUME NEW s \in Readers
               PROVE  /\ (begun'[s] # NotBegun) <=> (cache'.lock = s)
                      /\ begun'[s] # NotBegun =>
                            /\ begun'[s].txid \in 1 .. Txid /\ ver[s] = 0
                            /\ begun'[s].txid >= cache.adopted /\ begun'[s].txid >= roots
                            /\ Covers(begun'[s])
                            /\ begun'[s].all => begun'[s].txid > cache.adopted
    BY <1>1, <1>2, <1>5, <1>10 DEF Reply
  <2>1. CASE s = r
    <3>1. b # NotBegun
      BY <1>3, <1>4 DEF NotBegun
    <3>2. Covers(b)
      BY <1>4 DEF Covers
    <3> QED BY <1>1, <1>3, <1>4, <1>5, <1>6, <2>1, <3>1, <3>2
  <2>2. CASE s # r
    <3>1. s \in Threads /\ s # Writer /\ begun[s] = NotBegun
      BY <1>1, ClientCacheAssumption DEF Threads, CacheInv, ClientInv, Reply
    <3> QED BY <1>5, <1>6, <2>2, <3>1
  <2> QED BY <2>1, <2>2
<1>12. Own' = Own /\ begun'[Writer] = begun[Writer]
  BY <1>3, <1>6 DEF Own
<1>13. WriterInv'
  BY <1>1, <1>2, <1>5, <1>10, <1>12 DEF CacheInv, ClientInv, WriterInv
<1>14. RootsInv' /\ Bounded'
  BY <1>1, <1>5, <1>12 DEF CacheInv, ClientInv, RootsInv, Bounded
<1>15. PinsInv'
  <2>1. \A v \in 1 .. MaxTxid : HeldPin(v)' = HeldPin(v) /\ WritePin(v)' = WritePin(v)
    BY <1>1, <1>2 DEF HeldPin, WritePin
  <2> SUFFICES ASSUME NEW v \in 1 .. MaxTxid
               PROVE  pins'[v] = Count(begun', cache'.lock, v) + HeldPin(v) + WritePin(v)
    BY <1>1, <2>1 DEF CacheInv, ClientInv, PinsInv
  <2>2. pins[v] = Count(begun, cache.lock, v) + HeldPin(v) + WritePin(v)
    BY DEF CacheInv, ClientInv, PinsInv
  <2>3. Count(begun, cache.lock, v) = 0
    BY <1>1 DEF Count
  <2>4. HeldPin(v) \in Nat /\ WritePin(v) \in Nat
    BY DEF HeldPin, WritePin
  <2>5. Count(begun', cache'.lock, v) = IF v = Txid THEN 1 ELSE 0
    BY <1>3, <1>4, <1>5, <1>6 DEF Count
  <2> QED BY <1>7, <2>2, <2>3, <2>4, <2>5
<1>16. LoadsInv' /\ Frames'
  BY <1>1, <1>2 DEF CacheInv, ClientInv, LoadsInv, Frames
<1>17. CacheIsAdopted'
  BY <1>1, <1>2, <1>5 DEF CacheInv, ClientInv, CacheIsAdopted
<1> QED BY <1>8, <1>9, <1>11, <1>13, <1>14, <1>15, <1>16, <1>17 DEF CacheInv, ClientInv

\* client_adopt: what the reply does not name, the cache held as the adopted
\* version has it, is as the new version has it.
LEMMA Adoption ==
    ASSUME CacheInv, NEW b \in Replies, b.txid \in 1 .. Txid, b.txid >= cache.adopted, Covers(b),
           Invalidated(IF b.all THEN Pages ELSE b.pages)
    PROVE  /\ \A q \in DOMAIN pool' : q \in DOMAIN pool /\ pool'[q] = pool[q]
           /\ \A q \in DOMAIN pool' \cap Reach(b.txid) : pool'[q] = snaps[b.txid][q]
           /\ IsFiniteSet(DOMAIN pool') /\ Cardinality(DOMAIN pool') <= Capacity
           /\ load' \in [Threads -> Loads]
           /\ \A t \in Threads : /\ load'[t].page = load[t].page /\ load'[t].val = load[t].val
                                 /\ load'[t].registered <=> load[t].registered
                                 /\ load[t] = NoLoad => load'[t] = NoLoad
<1> DEFINE P == IF b.all THEN Pages ELSE b.pages
<1>1. /\ DOMAIN pool' = DOMAIN pool \ P /\ \A q \in DOMAIN pool' : pool'[q] = pool[q]
      /\ IsFiniteSet(DOMAIN pool') /\ Cardinality(DOMAIN pool') <= Capacity
      /\ load' \in [Threads -> Loads]
      /\ \A t \in Threads : /\ load'[t].page = load[t].page /\ load'[t].val = load[t].val
                            /\ load'[t].registered <=> load[t].registered
                            /\ load[t] = NoLoad => load'[t] = NoLoad
  <2>1. Invalidated(P)
    OBVIOUS
  <2> HIDE DEF P
  <2> QED BY <2>1, InvalidatedEffect DEF CacheInv
<1>2. cache.adopted \in 1 .. b.txid
  BY DEF CacheInv, Types
<1>3. ASSUME NEW q \in DOMAIN pool', q \in Reach(b.txid) PROVE pool'[q] = snaps[b.txid][q]
  <2>1. q \in Pages
    BY <1>3, TreeTypes DEF CacheInv
  <2>2. ~b.all /\ q \notin b.pages /\ q \in DOMAIN pool
    BY <1>1, <1>3, <2>1
  <2>3. \A y \in cache.adopted + 1 .. b.txid : q \notin wrote[y]
    BY <2>2 DEF Covers
  <2>4. q \in Reach(cache.adopted) /\ snaps[cache.adopted][q] = snaps[b.txid][q]
    BY <1>2, <1>3, <2>3 DEF CacheInv, OwnerInv, Lineage
  <2> QED BY <1>1, <2>2, <2>4 DEF CacheInv, ClientInv, CacheIsAdopted
<1> HIDE DEF P
<1> QED BY <1>1, <1>3

\* The loads after an invalidation are the loads before it.
LEMMA LoadsStay ==
    ASSUME LoadsInv, UNCHANGED <<disk, snaps>>,
           \A t \in Threads : /\ load'[t].page = load[t].page /\ load'[t].val = load[t].val
                              /\ load'[t].registered <=> load[t].registered
                              /\ load[t] = NoLoad => load'[t] = NoLoad,
           \A t \in Threads : ver'[t] = ver[t] \/ load[t] = NoLoad
    PROVE  LoadsInv'
<1> SUFFICES ASSUME NEW t \in Threads, load'[t] # NoLoad
             PROVE  /\ ver'[t] # 0 /\ load'[t].page \in Reach(ver'[t])
                    /\ load'[t].val = disk[load'[t].page] \/ (load'[t].val = -1 /\ load'[t].registered)
  BY DEF LoadsInv, Reach
<1>1. load[t] # NoLoad /\ ver'[t] = ver[t]
  OBVIOUS
<1> QED BY <1>1 DEF LoadsInv

\* The reply is applied: the reader reads the version that was pinned for it.
LEMMA RegisterSafe ==
    ASSUME CacheInv, NEW r \in Readers, Register(r)
    PROVE  CacheInv'
<1> DEFINE b == begun[r]
           T == begun[r].txid
<1>1. /\ b # NotBegun /\ held' = held \cup {T}
      /\ pins' = IF T \in held THEN [pins EXCEPT ![T] = pins[T] - 1] ELSE pins
      /\ Invalidated(IF b.all THEN Pages ELSE b.pages)
      /\ roots' = (IF b.all \/ T > cache.adopted THEN T ELSE roots)
      /\ cache' = [lock |-> Writer, adopted |-> AdoptedBy(b)]
      /\ ver' = [ver EXCEPT ![r] = roots'] /\ begun' = [begun EXCEPT ![r] = NotBegun]
      /\ UNCHANGED <<owned, granted, wpc>>
  BY DEF Register, Adopt, Unlocked
<1>2. UNCHANGED <<disk, snaps, free, freeGen, wrote>> /\ Txid' = Txid /\ \A v : Reach(v)' = Reach(v)
  BY <1>1 DEF owned, Txid, Reach
<1>3. /\ r \in Threads /\ Writer \in Threads /\ r # Writer
  BY ClientCacheAssumption DEF Threads
<1>4. /\ Types /\ Txid \in Nat /\ Txid \in 1 .. MaxTxid /\ pins \in [1 .. MaxTxid -> Nat]
      /\ cache \in [lock : Threads, adopted : 1 .. Txid] /\ begun \in [Threads -> Replies]
      /\ roots \in 1 .. Txid /\ ver \in [Threads -> 0 .. Txid] /\ held \subseteq 1 .. Txid
      /\ MaxTxid \in Nat /\ b \in Replies
  <2>1. begun \in [Threads -> Replies]
    BY DEF CacheInv, Types
  <2>2. b \in Replies
    BY <1>3, <2>1
  <2> HIDE DEF b
  <2> QED BY <2>1, <2>2, ClientCacheAssumption DEF CacheInv, Types
<1>5. /\ cache.lock = r /\ T \in 1 .. Txid /\ ver[r] = 0 /\ T >= cache.adopted /\ T >= roots
      /\ Covers(b) /\ (b.all => T > cache.adopted)
  BY <1>1 DEF CacheInv, ClientInv, Reply
<1>6. T \in 1 .. MaxTxid /\ T \in Nat
  BY <1>4, <1>5
<1>7. roots' = T /\ AdoptedBy(b) = T
  <2>1. CASE T > cache.adopted
    BY <1>1, <2>1 DEF AdoptedBy
  <2>2. CASE ~(T > cache.adopted)
    <3>1. T = cache.adopted /\ ~b.all
      BY <1>4, <1>5, <2>2
    <3>2. roots = cache.adopted
      BY <1>4, <1>5, <3>1 DEF CacheInv, ClientInv, RootsInv
    <3> QED BY <1>1, <3>1, <3>2 DEF AdoptedBy
  <2> QED BY <2>1, <2>2
<1>8. cache'.lock = Writer /\ cache'.adopted = T /\ cache' \in [lock : Threads, adopted : 1 .. Txid]
  BY <1>1, <1>3, <1>5, <1>7
<1>9. /\ ver' \in [Threads -> 0 .. Txid] /\ ver'[r] = T /\ \A t \in Threads : t # r => ver'[t] = ver[t]
  BY <1>1, <1>3, <1>4, <1>5, <1>7
<1>10. /\ begun' \in [Threads -> Replies] /\ begun'[r] = NotBegun
       /\ \A t \in Threads : t # r => begun'[t] = begun[t]
  <2>1. NotBegun \in Replies
    BY DEF NotBegun, Replies
  <2> QED BY <1>1, <1>3, <1>4, <2>1
<1>11. /\ \A q \in DOMAIN pool' : q \in DOMAIN pool /\ pool'[q] = pool[q]
       /\ \A q \in DOMAIN pool' \cap Reach(T) : pool'[q] = snaps[T][q]
       /\ IsFiniteSet(DOMAIN pool') /\ Cardinality(DOMAIN pool') <= Capacity
       /\ load' \in [Threads -> Loads]
       /\ \A t \in Threads : /\ load'[t].page = load[t].page /\ load'[t].val = load[t].val
                             /\ load'[t].registered <=> load[t].registered
                             /\ load[t] = NoLoad => load'[t] = NoLoad
  <2>1. PICK x \in Replies : x = b
    BY <1>4
  <2>2. /\ x.txid \in 1 .. Txid /\ x.txid >= cache.adopted /\ Covers(x)
        /\ Invalidated(IF x.all THEN Pages ELSE x.pages) /\ x.txid = T
    BY <1>1, <1>5, <2>1
  <2> HIDE DEF T
  <2> QED BY <2>2, Adoption
<1> HIDE DEF b, T
<1>12. PinsInv' /\ pins' \in [1 .. MaxTxid -> Nat] /\ Pinned' \subseteq Pinned
  <2>1. \A v \in 1 .. MaxTxid : pins[v] = Count(begun, cache.lock, v) + HeldPin(v) + WritePin(v)
    BY DEF CacheInv, ClientInv, PinsInv
  <2>2. \A v \in 1 .. MaxTxid : /\ HeldPin(v) \in Nat /\ WritePin(v) \in Nat /\ WritePin(v)' = WritePin(v)
                                /\ HeldPin(v)' = IF v = T THEN 1 ELSE HeldPin(v)
    BY <1>1, <1>2 DEF HeldPin, WritePin
  <2>3. \A v \in 1 .. MaxTxid : /\ Count(begun, cache.lock, v) = IF v = T THEN 1 ELSE 0
                                /\ Count(begun', cache'.lock, v) = 0
    BY <1>3, <1>5, <1>8 DEF Count, T
  <2>4. HeldPin(T) = IF T \in held THEN 1 ELSE 0
    BY DEF HeldPin
  <2>5. pins' \in [1 .. MaxTxid -> Nat] /\ \A v \in 1 .. MaxTxid : v # T => pins'[v] = pins[v]
    <3>1. pins[T] - 1 \in Nat
      BY <1>6, <2>1, <2>2, <2>3
    <3> QED BY <1>1, <1>4, <1>6, <3>1
  <2>6. pins'[T] = 1 + WritePin(T) /\ pins[T] >= 1
    <3>1. CASE T \in held
      <4>1. pins[T] = 1 + 1 + WritePin(T) /\ pins'[T] = pins[T] - 1
        BY <1>1, <1>4, <1>6, <2>1, <2>3, <2>4, <3>1
      <4> QED BY <1>6, <2>2, <4>1
    <3>2. CASE T \notin held
      <4>1. pins[T] = 1 + 0 + WritePin(T) /\ pins'[T] = pins[T]
        BY <1>1, <1>6, <2>1, <2>3, <2>4, <3>2
      <4> QED BY <1>6, <2>2, <4>1
    <3> QED BY <3>1, <3>2
  <2>7. \A v \in 1 .. MaxTxid : pins'[v] = Count(begun', cache'.lock, v) + HeldPin(v)' + WritePin(v)'
    <3> SUFFICES ASSUME NEW v \in 1 .. MaxTxid
                 PROVE  pins'[v] = Count(begun', cache'.lock, v) + HeldPin(v)' + WritePin(v)'
      OBVIOUS
    <3>1. CASE v = T
      BY <2>2, <2>3, <2>6, <3>1
    <3>2. CASE v # T
      BY <2>1, <2>2, <2>3, <2>5, <3>2
    <3> QED BY <3>1, <3>2
  <2>8. held' = {ver'[s] : s \in Readers} \ {0}
    <3>1. held = {ver[s] : s \in Readers} \ {0}
      BY DEF CacheInv, ClientInv, PinsInv
    <3>2. \A s \in Readers : s \in Threads
      BY DEF Threads
    <3> QED BY <1>1, <1>5, <1>6, <1>9, <3>1, <3>2
  <2>9. Pinned' \subseteq Pinned
    BY <1>4, <1>6, <2>5, <2>6 DEF Pinned
  <2> QED BY <2>5, <2>7, <2>8, <2>9 DEF PinsInv
<1>13. Types'
  <2>1. roots' \in 1 .. Txid /\ held' \subseteq 1 .. Txid
    BY <1>1, <1>4, <1>5, <1>7 DEF T
  <2> QED BY <1>1, <1>2, <1>8, <1>9, <1>10, <1>11, <1>12, <2>1 DEF CacheInv, Types
<1>14. OwnerInv'
  BY <1>1, <1>12, OwnerStays DEF CacheInv
<1>15. Reply'
  <2> SUFFICES ASSUME NEW s \in Readers PROVE begun'[s] = NotBegun /\ cache'.lock # s
    BY DEF Reply
  <2>1. s \in Threads /\ s # Writer
    BY ClientCacheAssumption DEF Threads
  <2>2. s # r => begun[s] = NotBegun
    BY <1>5 DEF CacheInv, ClientInv, Reply
  <2> QED BY <1>8, <1>10, <2>1, <2>2
<1>16. Own' = Own /\ begun'[Writer] = begun[Writer] /\ ver'[Writer] = ver[Writer]
  BY <1>3, <1>9, <1>10 DEF Own
<1>17. WriterInv'
  <2>1. ASSUME NEW x, x.txid \in Nat, Covers(x) PROVE Covers(x)'
    <3>1. cache.adopted \in Nat /\ T \in Nat /\ T >= cache.adopted /\ cache'.adopted = T
      BY <1>4, <1>5, <1>6, <1>8 DEF T
    <3>2. \A y \in T + 1 .. x.txid : y \in cache.adopted + 1 .. x.txid
      BY <2>1, <3>1
    <3>3. x.all \/ \A y \in T + 1 .. x.txid : wrote[y] \subseteq x.pages
      BY <2>1, <3>2 DEF Covers
    <3>4. x.all \/ \A y \in cache'.adopted + 1 .. x.txid : wrote'[y] \subseteq x.pages
      BY <1>2, <3>1, <3>3
    <3> QED BY <3>4 DEF Covers
  <2>2. begun[Writer] \in Replies /\ Own \in Nat
    BY <1>3, <1>4 DEF Own, Replies
  <2>3. wpc = "granted" => Covers(begun[Writer])'
    <3>1. PICK x : x = begun[Writer]
      OBVIOUS
    <3>2. wpc = "granted" => Covers(x)'
      BY <2>1, <2>2, <3>1 DEF CacheInv, ClientInv, WriterInv, Own
    <3> QED BY <1>16, <3>1, <3>2 DEF Covers
  <2>4. wpc = "writing" => T = Txid
    BY <1>4, <1>5 DEF CacheInv, ClientInv, WriterInv, T
  <2>5. wpc = "asked" => Own \in 1 .. T
    BY <1>4, <1>5, <1>6 DEF CacheInv, ClientInv, WriterInv, T
  <2>6. wpc \in {"committed", "written", "published"} => Own \in 1 .. Txid /\ T + 1 >= Own
    BY <1>4, <1>5, <1>6 DEF CacheInv, ClientInv, WriterInv, T
  <2>7. wpc \in {"written", "published"} /\ T < Own => wrote[Own] \cap DOMAIN pool' = {}
    <3>1. T < Own => cache.adopted < Own
      BY <1>4, <1>5, <1>6, <2>2 DEF T
    <3> QED BY <1>11, <3>1 DEF CacheInv, ClientInv, WriterInv
  <2>8. (granted <=> wpc \in {"granted", "writing"}) /\ ver[Writer] = (IF wpc = "writing" THEN Txid ELSE 0)
        /\ (wpc = "granted" => Own = Txid)
    BY DEF CacheInv, ClientInv, WriterInv
  <2> QED BY <1>1, <1>2, <1>8, <1>16, <2>3, <2>4, <2>5, <2>6, <2>7, <2>8 DEF WriterInv
<1>18. RootsInv'
  <2>1. wpc = "published" => T >= Own
    <3>1. Own \in Nat /\ roots \in Nat /\ T \in Nat /\ T >= roots
      BY <1>3, <1>4, <1>5 DEF Own, Replies, T
    <3>2. wpc = "published" => roots >= Own
      BY DEF CacheInv, ClientInv, RootsInv
    <3> QED BY <3>1, <3>2
  <2> QED BY <1>1, <1>7, <1>8, <1>16, <2>1 DEF RootsInv, T
<1>19. Bounded'
  <2> SUFFICES ASSUME NEW t \in Threads PROVE ver'[t] <= T
    BY <1>8 DEF Bounded
  <2>1. CASE t = r
    BY <1>6, <1>9, <2>1
  <2>2. CASE t # r
    <3>1. ver[t] <= cache.adopted /\ ver[t] \in Nat /\ cache.adopted \in Nat /\ T >= cache.adopted
      BY <1>4, <1>5 DEF CacheInv, ClientInv, Bounded, T
    <3> QED BY <1>6, <1>9, <2>2, <3>1
  <2> QED BY <2>1, <2>2
<1>20. LoadsInv'
  <2>1. load[r] = NoLoad
    BY <1>3, <1>5 DEF CacheInv, ClientInv, LoadsInv
  <2>2. \A t \in Threads : ver'[t] = ver[t] \/ load[t] = NoLoad
    BY <1>9, <2>1
  <2> QED BY <1>2, <1>11, <2>2, LoadsStay DEF CacheInv, ClientInv
<1>21. Frames'
  <2> SUFFICES ASSUME NEW t \in Threads, ver'[t] # 0, NEW q \in Reach(ver'[t]), q \in DOMAIN pool'
               PROVE  pool'[q] = snaps[ver'[t]][q]
    BY <1>2 DEF Frames, Reach
  <2>1. CASE t = r
    BY <1>9, <1>11, <2>1
  <2>2. CASE t # r
    BY <1>9, <1>11, <2>2 DEF CacheInv, ClientInv, Frames
  <2> QED BY <2>1, <2>2
<1>22. CacheIsAdopted'
  BY <1>2, <1>8, <1>11 DEF CacheIsAdopted
<1> QED BY <1>12, <1>13, <1>14, <1>15, <1>17, <1>18, <1>19, <1>20, <1>21, <1>22 DEF CacheInv, ClientInv

\* A reader ends: the last one of its version gives the pin back.
LEMMA EndReadSafe ==
    ASSUME CacheInv, NEW r \in Readers, EndRead(r)
    PROVE  CacheInv'
<1> DEFINE v == ver[r]
           final == \A s \in Readers \ {r} : ver[s] # ver[r]
<1>1. /\ v # 0 /\ ~Loading(r) /\ ver' = [ver EXCEPT ![r] = 0]
      /\ UNCHANGED <<owned, granted, pool, load, cache, roots, begun, wpc>>
      /\ IF v \in held /\ final
         THEN held' = held \ {v} /\ pins' = [pins EXCEPT ![v] = pins[v] - 1]
         ELSE held' = held /\ pins' = pins
  BY DEF EndRead
<1>2. UNCHANGED <<disk, snaps, free, freeGen, wrote>> /\ Txid' = Txid /\ \A u : Reach(u)' = Reach(u)
  BY <1>1 DEF owned, Txid, Reach
<1>3. /\ r \in Threads /\ Writer \in Threads /\ r # Writer
  BY ClientCacheAssumption DEF Threads
<1>4. /\ Txid \in Nat /\ Txid \in 1 .. MaxTxid /\ pins \in [1 .. MaxTxid -> Nat]
      /\ ver \in [Threads -> 0 .. Txid] /\ held \subseteq 1 .. Txid /\ MaxTxid \in Nat
  BY ClientCacheAssumption DEF CacheInv, Types
<1>5. held = {ver[s] : s \in Readers} \ {0}
  BY DEF CacheInv, ClientInv, PinsInv
<1>6. v \in held /\ v \in 1 .. MaxTxid
  BY <1>1, <1>3, <1>4, <1>5
<1>7. /\ ver' \in [Threads -> 0 .. Txid] /\ ver'[r] = 0 /\ \A t \in Threads : t # r => ver'[t] = ver[t]
  BY <1>1, <1>3, <1>4
<1>8. \A s \in Readers : s \in Threads
  BY DEF Threads
<1>9. PinsInv' /\ pins' \in [1 .. MaxTxid -> Nat] /\ Pinned' \subseteq Pinned /\ held' \subseteq held
  <2>1. \A u \in 1 .. MaxTxid : pins[u] = Count(begun, cache.lock, u) + HeldPin(u) + WritePin(u)
    BY DEF CacheInv, ClientInv, PinsInv
  <2>2. \A u \in 1 .. MaxTxid : /\ HeldPin(u) \in Nat /\ WritePin(u) \in Nat /\ WritePin(u)' = WritePin(u)
                                /\ Count(begun, cache.lock, u) \in Nat
                                /\ Count(begun', cache'.lock, u) = Count(begun, cache.lock, u)
    BY <1>1, <1>2 DEF HeldPin, WritePin, Count
  <2>3. CASE final
    <3>1. held' = held \ {v} /\ pins' = [pins EXCEPT ![v] = pins[v] - 1]
      BY <1>1, <1>6, <2>3
    <3> HIDE DEF v
    <3>2. held' = {ver'[s] : s \in Readers} \ {0}
      BY <1>5, <1>7, <1>8, <2>3, <3>1 DEF v
    <3>3. \A u \in 1 .. MaxTxid : HeldPin(u)' = IF u = v THEN 0 ELSE HeldPin(u)
      BY <3>1 DEF HeldPin
    <3>4. HeldPin(v) = 1
      BY <1>6 DEF HeldPin
    <3>5. pins[v] - 1 \in Nat /\ pins[v] - 1 = Count(begun, cache.lock, v) + 0 + WritePin(v)
      BY <1>6, <2>1, <2>2, <3>4
    <3>6. /\ pins' \in [1 .. MaxTxid -> Nat] /\ pins'[v] = pins[v] - 1
          /\ \A u \in 1 .. MaxTxid : u # v => pins'[u] = pins[u]
      BY <1>4, <1>6, <3>1, <3>5
    <3>7. \A u \in 1 .. MaxTxid : pins'[u] = Count(begun', cache'.lock, u) + HeldPin(u)' + WritePin(u)'
      <4> SUFFICES ASSUME NEW u \in 1 .. MaxTxid
                   PROVE  pins'[u] = Count(begun', cache'.lock, u) + HeldPin(u)' + WritePin(u)'
        OBVIOUS
      <4>1. CASE u = v
        BY <2>2, <3>3, <3>5, <3>6, <4>1
      <4>2. CASE u # v
        BY <2>1, <2>2, <3>3, <3>6, <4>2
      <4> QED BY <4>1, <4>2
    <3>8. Pinned' \subseteq Pinned
      BY <1>4, <1>6, <3>5, <3>6 DEF Pinned
    <3> QED BY <3>1, <3>2, <3>6, <3>7, <3>8 DEF PinsInv
  <2>4. CASE ~final
    <3>1. held' = held /\ pins' = pins
      BY <1>1, <2>4
    <3>2. held' = {ver'[s] : s \in Readers} \ {0}
      BY <1>5, <1>7, <1>8, <2>4, <3>1
    <3>3. \A u \in 1 .. MaxTxid : HeldPin(u)' = HeldPin(u)
      BY <3>1 DEF HeldPin
    <3>4. \A u \in 1 .. MaxTxid : pins'[u] = Count(begun', cache'.lock, u) + HeldPin(u)' + WritePin(u)'
      BY <2>1, <2>2, <3>1, <3>3
    <3>5. Pinned' = Pinned
      BY <3>1 DEF Pinned
    <3> QED BY <1>4, <3>1, <3>2, <3>4, <3>5 DEF PinsInv
  <2> QED BY <2>3, <2>4
<1>10. Types'
  <2>1. held' \subseteq 1 .. Txid
    BY <1>4, <1>9
  <2> QED BY <1>1, <1>2, <1>7, <1>9, <2>1 DEF CacheInv, Types
<1>11. OwnerInv'
  BY <1>1, <1>9, OwnerStays DEF CacheInv
<1>12. Own' = Own /\ ver'[Writer] = ver[Writer] /\ \A x : Covers(x)' <=> Covers(x)
  BY <1>1, <1>2, <1>3, <1>7 DEF Own, Covers
<1>13. Reply'
  <2>1. \A s \in Readers : ver[s] = 0 => ver'[s] = 0
    BY <1>7, <1>8
  <2> QED BY <1>1, <1>2, <1>12, <2>1 DEF CacheInv, ClientInv, Reply
<1>14. WriterInv'
  BY <1>1, <1>2, <1>12 DEF CacheInv, ClientInv, WriterInv
<1>15. RootsInv'
  BY <1>1, <1>12 DEF CacheInv, ClientInv, RootsInv
<1>16. Bounded'
  <2>1. 0 <= cache.adopted
    BY DEF CacheInv, Types
  <2> QED BY <1>1, <1>7, <2>1 DEF CacheInv, ClientInv, Bounded
<1>17. LoadsInv'
  <2>1. load[r] = NoLoad
    BY <1>1 DEF Loading
  <2> QED BY <1>1, <1>2, <1>7, <2>1 DEF CacheInv, ClientInv, LoadsInv
<1>18. Frames' /\ CacheIsAdopted'
  BY <1>1, <1>2, <1>7 DEF CacheInv, ClientInv, Frames, CacheIsAdopted
<1> QED BY <1>9, <1>10, <1>11, <1>13, <1>14, <1>15, <1>16, <1>17, <1>18 DEF CacheInv, ClientInv

-----------------------------------------------------------------------------
(* The writer.                                                             *)

\* Steps that leave the owner, the readers and their replies alone.
LEMMA ReadersStay ==
    ASSUME CacheInv, UNCHANGED <<owned, cache, roots>>,
           \A r \in Readers : begun'[r] = begun[r] /\ ver'[r] = ver[r]
    PROVE  Reply'
<1>1. Txid' = Txid /\ \A x : Covers(x)' <=> Covers(x)
  BY DEF owned, Txid, Covers
<1> QED BY <1>1 DEF CacheInv, ClientInv, Reply

\* client_begin_write remembers the version to ask for.
LEMMA WAskSafe ==
    ASSUME CacheInv, WAsk
    PROVE  CacheInv'
<1>1. /\ wpc = "idle" /\ cache.lock = Writer /\ wpc' = "asked"
      /\ begun' = [begun EXCEPT ![Writer] = [begun[Writer] EXCEPT !.txid = cache.adopted]]
      /\ UNCHANGED <<owned, pins, granted, pool, load, cache, roots, held, ver>>
  BY DEF WAsk, Unlocked
<1>2. UNCHANGED <<disk, snaps, free, freeGen, wrote>> /\ Txid' = Txid /\ \A u : Reach(u)' = Reach(u)
  BY <1>1 DEF owned, Txid, Reach
<1>3. Writer \in Threads /\ \A r \in Readers : r \in Threads /\ r # Writer
  BY ClientCacheAssumption DEF Threads
<1>4. begun \in [Threads -> Replies] /\ cache.adopted \in 1 .. Txid
  BY DEF CacheInv, Types
<1>5. /\ begun' \in [Threads -> Replies] /\ begun'[Writer].txid = cache.adopted
      /\ \A r \in Readers : begun'[r] = begun[r]
  <2>1. [begun[Writer] EXCEPT !.txid = cache.adopted] \in Replies
    BY <1>3, <1>4 DEF Replies
  <2>2. [begun[Writer] EXCEPT !.txid = cache.adopted].txid = cache.adopted
    BY <1>3, <1>4 DEF Replies
  <2> QED BY <1>1, <1>3, <1>4, <2>1, <2>2
<1>6. Types'
  BY <1>1, <1>2, <1>5 DEF CacheInv, Types, Stages
<1>7. OwnerInv'
  <2>1. Pinned' = Pinned
    BY <1>1 DEF Pinned
  <2> QED BY <1>1, <2>1, OwnerStays DEF CacheInv
<1>8. Reply'
  BY <1>1, <1>5, ReadersStay
<1>9. WriterInv'
  <2>1. Own' = cache.adopted /\ cache.adopted \in 1 .. cache.adopted
    BY <1>4, <1>5 DEF Own
  <2> QED BY <1>1, <1>2, <2>1 DEF CacheInv, ClientInv, WriterInv
<1>10. RootsInv' /\ Bounded'
  BY <1>1 DEF CacheInv, ClientInv, RootsInv, Bounded
<1>11. PinsInv'
  <2>1. \A u \in 1 .. MaxTxid : HeldPin(u)' = HeldPin(u) /\ WritePin(u)' = WritePin(u)
    BY <1>1, <1>2 DEF HeldPin, WritePin
  <2>2. \A u \in 1 .. MaxTxid : Count(begun', cache'.lock, u) = Count(begun, cache.lock, u)
    BY <1>1 DEF Count
  <2> QED BY <1>1, <2>1, <2>2 DEF CacheInv, ClientInv, PinsInv
<1>12. LoadsInv' /\ Frames' /\ CacheIsAdopted'
  BY <1>1, <1>2 DEF CacheInv, ClientInv, LoadsInv, Frames, CacheIsAdopted
<1> QED BY <1>6, <1>7, <1>8, <1>9, <1>10, <1>11, <1>12 DEF CacheInv, ClientInv

\* The gate and the write pin are granted.
LEMMA WGrantSafe ==
    ASSUME CacheInv, WGrant
    PROVE  CacheInv'
<1> DEFINE b == Invalidation(begun[Writer].txid)
<1>1. /\ wpc = "asked" /\ wpc' = "granted" /\ granted' = TRUE
      /\ pins' = [pins EXCEPT ![Txid] = pins[Txid] + 1] /\ begun' = [begun EXCEPT ![Writer] = b]
      /\ UNCHANGED <<owned, pool, load, cache, roots, held, ver>>
  BY DEF WGrant
<1>2. UNCHANGED <<disk, snaps, free, freeGen, wrote>> /\ Txid' = Txid /\ \A u : Reach(u)' = Reach(u)
  BY <1>1 DEF owned, Txid, Reach
<1>3. Writer \in Threads /\ \A r \in Readers : r \in Threads /\ r # Writer
  BY ClientCacheAssumption DEF Threads
<1>4. /\ Types /\ begun \in [Threads -> Replies] /\ cache.adopted \in 1 .. Txid /\ Txid \in Nat
      /\ pins \in [1 .. MaxTxid -> Nat] /\ Txid \in 1 .. MaxTxid /\ cache.lock \in Threads
  BY DEF CacheInv, Types
<1>5. ~granted /\ begun[Writer].txid \in 1 .. cache.adopted
  BY <1>1 DEF CacheInv, ClientInv, WriterInv, Own
<1>6. begun[Writer].txid \in 1 .. Txid
  BY <1>4, <1>5
<1>7. /\ b \in Replies /\ b.txid = Txid
      /\ b.all \/ \A y \in begun[Writer].txid + 1 .. Txid : wrote[y] \subseteq b.pages
  BY <1>4, <1>6, InvalidationEffect
<1> HIDE DEF b
<1>8. /\ begun' \in [Threads -> Replies] /\ begun'[Writer] = b
      /\ \A r \in Readers : begun'[r] = begun[r]
  BY <1>1, <1>3, <1>4, <1>7
<1>9. /\ pins' \in [1 .. MaxTxid -> Nat] /\ pins'[Txid] = pins[Txid] + 1
      /\ \A v \in 1 .. MaxTxid : v # Txid => pins'[v] = pins[v]
  BY <1>1, <1>4
<1>10. Types'
  BY <1>1, <1>2, <1>8, <1>9 DEF CacheInv, Types, Stages
<1>11. OwnerInv'
  <2>1. Pinned' \subseteq Pinned \cup {Txid}
    BY <1>4, <1>9 DEF Pinned
  <2> QED BY <1>1, <2>1, OwnerStays DEF CacheInv
<1>12. Reply'
  BY <1>1, <1>8, ReadersStay
<1>13. WriterInv'
  <2>1. Own' = Txid
    BY <1>7, <1>8 DEF Own
  <2>2. Covers(begun[Writer])'
    <3>1. \A y \in cache.adopted + 1 .. Txid : y \in begun[Writer].txid + 1 .. Txid
      BY <1>4, <1>5
    <3> QED BY <1>1, <1>2, <1>7, <1>8, <3>1 DEF Covers
  <2>3. ver[Writer] = 0
    BY <1>1 DEF CacheInv, ClientInv, WriterInv
  <2> QED BY <1>1, <1>2, <2>1, <2>2, <2>3 DEF WriterInv
<1>14. RootsInv' /\ Bounded'
  BY <1>1 DEF CacheInv, ClientInv, RootsInv, Bounded
<1>15. PinsInv'
  <2>1. \A u \in 1 .. MaxTxid : /\ HeldPin(u)' = HeldPin(u) /\ HeldPin(u) \in Nat
                                /\ WritePin(u) = 0 /\ WritePin(u)' = IF u = Txid THEN 1 ELSE 0
    BY <1>1, <1>2, <1>5 DEF HeldPin, WritePin
  <2>2. \A u \in 1 .. MaxTxid : /\ Count(begun', cache'.lock, u) = Count(begun, cache.lock, u)
                                /\ Count(begun, cache.lock, u) \in Nat
    BY <1>1, <1>4, <1>8 DEF Count, Threads
  <2>3. \A u \in 1 .. MaxTxid : pins[u] = Count(begun, cache.lock, u) + HeldPin(u) + WritePin(u)
    BY DEF CacheInv, ClientInv, PinsInv
  <2>4. \A u \in 1 .. MaxTxid : pins'[u] = Count(begun', cache'.lock, u) + HeldPin(u)' + WritePin(u)'
    BY <1>9, <2>1, <2>2, <2>3
  <2> QED BY <1>1, <2>4 DEF CacheInv, ClientInv, PinsInv
<1>16. LoadsInv' /\ Frames' /\ CacheIsAdopted'
  BY <1>1, <1>2 DEF CacheInv, ClientInv, LoadsInv, Frames, CacheIsAdopted
<1> QED BY <1>10, <1>11, <1>12, <1>13, <1>14, <1>15, <1>16 DEF CacheInv, ClientInv

\* client_adopt for the write: the transaction reads the published version.
LEMMA WAdoptSafe ==
    ASSUME CacheInv, WAdopt
    PROVE  CacheInv'
<1> DEFINE b == begun[Writer]
<1>1. /\ wpc = "granted" /\ cache.lock = Writer /\ wpc' = "writing"
      /\ Invalidated(IF b.all THEN Pages ELSE b.pages)
      /\ roots' = (IF b.all \/ b.txid > cache.adopted THEN b.txid ELSE roots)
      /\ cache' = [cache EXCEPT !.adopted = AdoptedBy(b)]
      /\ ver' = [ver EXCEPT ![Writer] = roots'] /\ begun' = [begun EXCEPT ![Writer] = NotBegun]
      /\ UNCHANGED <<owned, pins, granted, held>>
  BY DEF WAdopt, Adopt, Unlocked
<1>2. UNCHANGED <<disk, snaps, free, freeGen, wrote>> /\ Txid' = Txid /\ \A u : Reach(u)' = Reach(u)
  BY <1>1 DEF owned, Txid, Reach
<1>3. Writer \in Threads /\ \A r \in Readers : r \in Threads /\ r # Writer
  BY ClientCacheAssumption DEF Threads
<1>4. /\ begun \in [Threads -> Replies] /\ Txid \in Nat /\ Txid \in 1 .. Txid
      /\ cache \in [lock : Threads, adopted : 1 .. Txid] /\ roots \in 1 .. Txid
      /\ ver \in [Threads -> 0 .. Txid]
  BY DEF CacheInv, Types
<1>5. b \in Replies /\ b.txid = Txid /\ Covers(b) /\ granted /\ ver[Writer] = 0 /\ roots = cache.adopted
  BY <1>1, <1>3, <1>4 DEF CacheInv, ClientInv, WriterInv, RootsInv, Own
<1>6. roots' = Txid /\ AdoptedBy(b) = Txid
  <2>1. cache.adopted \in 1 .. Txid
    BY <1>4
  <2> QED BY <1>1, <1>4, <1>5, <2>1 DEF AdoptedBy
<1>7. cache'.lock = Writer /\ cache'.adopted = Txid /\ cache' \in [lock : Threads, adopted : 1 .. Txid]
  BY <1>1, <1>4, <1>6
<1>8. /\ ver' \in [Threads -> 0 .. Txid] /\ ver'[Writer] = Txid
      /\ \A t \in Threads : t # Writer => ver'[t] = ver[t]
  BY <1>1, <1>3, <1>4, <1>6
<1>9. begun' \in [Threads -> Replies] /\ \A r \in Readers : begun'[r] = begun[r]
  <2>1. NotBegun \in Replies
    BY DEF NotBegun, Replies
  <2> QED BY <1>1, <1>3, <1>4, <2>1
<1>10. /\ \A q \in DOMAIN pool' : q \in DOMAIN pool /\ pool'[q] = pool[q]
       /\ \A q \in DOMAIN pool' \cap Reach(Txid) : pool'[q] = snaps[Txid][q]
       /\ IsFiniteSet(DOMAIN pool') /\ Cardinality(DOMAIN pool') <= Capacity
       /\ load' \in [Threads -> Loads]
       /\ \A t \in Threads : /\ load'[t].page = load[t].page /\ load'[t].val = load[t].val
                             /\ load'[t].registered <=> load[t].registered
                             /\ load[t] = NoLoad => load'[t] = NoLoad
  <2>1. PICK x \in Replies : x = b
    BY <1>5
  <2>2. /\ x.txid \in 1 .. Txid /\ x.txid >= cache.adopted /\ Covers(x)
        /\ Invalidated(IF x.all THEN Pages ELSE x.pages) /\ x.txid = Txid
    BY <1>1, <1>4, <1>5, <2>1
  <2> QED BY <2>2, Adoption
<1> HIDE DEF b
<1>11. Types'
  BY <1>1, <1>2, <1>4, <1>6, <1>7, <1>8, <1>9, <1>10 DEF CacheInv, Types, Stages
<1>12. OwnerInv'
  <2>1. Pinned' = Pinned
    BY <1>1 DEF Pinned
  <2> QED BY <1>1, <2>1, OwnerStays DEF CacheInv
<1>13. Reply'
  <2>1. \A r \in Readers : begun[r] = NotBegun
    BY <1>1, <1>3 DEF CacheInv, ClientInv, Reply
  <2> QED BY <1>3, <1>7, <1>9, <2>1 DEF Reply
<1>14. WriterInv' /\ RootsInv'
  BY <1>1, <1>2, <1>5, <1>6, <1>7, <1>8 DEF WriterInv, RootsInv
<1>15. Bounded'
  BY <1>4, <1>7, <1>8 DEF Bounded
<1>16. PinsInv'
  <2>1. \A u \in 1 .. MaxTxid : HeldPin(u)' = HeldPin(u) /\ WritePin(u)' = WritePin(u)
    BY <1>1, <1>2 DEF HeldPin, WritePin
  <2>2. \A u \in 1 .. MaxTxid : Count(begun', cache'.lock, u) = Count(begun, cache.lock, u)
    BY <1>1, <1>7 DEF Count
  <2>3. \A r \in Readers : ver'[r] = ver[r]
    BY <1>3, <1>8
  <2> QED BY <1>1, <2>1, <2>2, <2>3 DEF CacheInv, ClientInv, PinsInv
<1>17. LoadsInv'
  <2>1. load[Writer] = NoLoad
    BY <1>3, <1>5 DEF CacheInv, ClientInv, LoadsInv
  <2>2. \A t \in Threads : ver'[t] = ver[t] \/ load[t] = NoLoad
    BY <1>8, <2>1
  <2> QED BY <1>2, <1>10, <2>2, LoadsStay DEF CacheInv, ClientInv
<1>18. Frames'
  <2> SUFFICES ASSUME NEW t \in Threads, ver'[t] # 0, NEW q \in Reach(ver'[t]), q \in DOMAIN pool'
               PROVE  pool'[q] = snaps[ver'[t]][q]
    BY <1>2 DEF Frames, Reach
  <2>1. CASE t = Writer
    BY <1>8, <1>10, <2>1
  <2>2. CASE t # Writer
    BY <1>8, <1>10, <2>2 DEF CacheInv, ClientInv, Frames
  <2> QED BY <2>1, <2>2
<1>19. CacheIsAdopted'
  BY <1>2, <1>7, <1>10 DEF CacheIsAdopted
<1> QED BY <1>11, <1>12, <1>13, <1>14, <1>15, <1>16, <1>17, <1>18, <1>19 DEF CacheInv, ClientInv


\* The write transaction ends, and with it the write pin: the readers keep theirs.
LEMMA WriteEnds ==
    ASSUME CacheInv, wpc = "writing", ~Loading(Writer), ~granted',
           pins' = [pins EXCEPT ![ver[Writer]] = @ - 1], ver' = [ver EXCEPT ![Writer] = 0],
           UNCHANGED <<cache, held>>, \A r \in Readers : begun'[r] = begun[r]
    PROVE  /\ pins' \in [1 .. MaxTxid -> Nat] /\ Pinned' \subseteq Pinned /\ PinsInv'
           /\ ver' \in [Threads -> 0 .. Txid] /\ ver'[Writer] = 0
           /\ \A t \in Threads : t # Writer => ver'[t] = ver[t]
           /\ load[Writer] = NoLoad /\ cache.adopted = Txid /\ roots = Txid
<1>1. Writer \in Threads /\ \A r \in Readers : r \in Threads /\ r # Writer
  BY ClientCacheAssumption DEF Threads
<1>2. /\ ver \in [Threads -> 0 .. Txid] /\ Txid \in 1 .. MaxTxid /\ pins \in [1 .. MaxTxid -> Nat]
      /\ cache.lock \in Threads /\ Txid \in Nat
  BY DEF CacheInv, Types
<1>3. granted /\ ver[Writer] = Txid /\ cache.adopted = Txid /\ roots = Txid
  BY DEF CacheInv, ClientInv, WriterInv, RootsInv
<1>4. load[Writer] = NoLoad
  BY <1>1 DEF Loading
<1>5. /\ ver' \in [Threads -> 0 .. Txid] /\ ver'[Writer] = 0
      /\ \A t \in Threads : t # Writer => ver'[t] = ver[t]
  BY <1>1, <1>2
<1>6. \A u \in 1 .. MaxTxid : /\ HeldPin(u)' = HeldPin(u) /\ HeldPin(u) \in Nat
                              /\ WritePin(u)' = 0 /\ WritePin(u) = IF u = Txid THEN 1 ELSE 0
  BY <1>3 DEF HeldPin, WritePin
<1>7. \A u \in 1 .. MaxTxid : /\ Count(begun', cache'.lock, u) = Count(begun, cache.lock, u)
                              /\ Count(begun, cache.lock, u) \in Nat
  BY <1>2 DEF Count, Threads
<1>8. \A u \in 1 .. MaxTxid : pins[u] = Count(begun, cache.lock, u) + HeldPin(u) + WritePin(u)
  BY DEF CacheInv, ClientInv, PinsInv
<1>9. pins[Txid] >= 1
  BY <1>2, <1>6, <1>7, <1>8
<1>10. /\ pins' \in [1 .. MaxTxid -> Nat] /\ pins'[Txid] = pins[Txid] - 1
       /\ \A u \in 1 .. MaxTxid : u # Txid => pins'[u] = pins[u]
  <2>1. pins[Txid] - 1 \in Nat
    BY <1>2, <1>9
  <2> QED BY <1>2, <1>3, <2>1
<1>11. Pinned' \subseteq Pinned
  BY <1>2, <1>9, <1>10 DEF Pinned
<1>12. PinsInv'
  <2>1. ASSUME NEW u \in 1 .. MaxTxid
        PROVE  pins'[u] = Count(begun', cache'.lock, u) + HeldPin(u)' + WritePin(u)'
    <3>1. CASE u = Txid
      BY <1>6, <1>7, <1>8, <1>10, <3>1
    <3>2. CASE u # Txid
      BY <1>6, <1>7, <1>8, <1>10, <3>2
    <3> QED BY <3>1, <3>2
  <2>2. \A r \in Readers : ver'[r] = ver[r]
    BY <1>1, <1>5
  <2> QED BY <2>1, <2>2 DEF CacheInv, ClientInv, PinsInv
<1> QED BY <1>3, <1>4, <1>5, <1>10, <1>11, <1>12

\* A rollback, or a refused commit that drops the whole cache.
LEMMA WAbortSafe ==
    ASSUME CacheInv, WAbort
    PROVE  CacheInv'
<1>1. /\ wpc = "writing" /\ ~Loading(Writer) /\ wpc' = "idle" /\ ~granted' /\ granted' \in BOOLEAN
      /\ pins' = [pins EXCEPT ![ver[Writer]] = @ - 1] /\ ver' = [ver EXCEPT ![Writer] = 0]
      /\ UNCHANGED <<owned, cache, roots, held, begun>>
      /\ UNCHANGED <<pool, load>> \/ Invalidated(Pages)
  BY DEF WAbort
<1>2. UNCHANGED <<disk, snaps, free, freeGen, wrote>> /\ Txid' = Txid /\ \A u : Reach(u)' = Reach(u)
  BY <1>1 DEF owned, Txid, Reach
<1>3. /\ pins' \in [1 .. MaxTxid -> Nat] /\ Pinned' \subseteq Pinned /\ PinsInv'
      /\ ver' \in [Threads -> 0 .. Txid] /\ ver'[Writer] = 0
      /\ \A t \in Threads : t # Writer => ver'[t] = ver[t]
      /\ load[Writer] = NoLoad
  BY <1>1, WriteEnds
<1>4. /\ \A q \in DOMAIN pool' : q \in DOMAIN pool /\ pool'[q] = pool[q]
      /\ IsFiniteSet(DOMAIN pool') /\ Cardinality(DOMAIN pool') <= Capacity
      /\ load' \in [Threads -> Loads]
      /\ \A t \in Threads : /\ load'[t].page = load[t].page /\ load'[t].val = load[t].val
                            /\ load'[t].registered <=> load[t].registered
                            /\ load[t] = NoLoad => load'[t] = NoLoad
  <2>1. CASE UNCHANGED <<pool, load>>
    BY <2>1 DEF CacheInv, Types
  <2>2. CASE Invalidated(Pages)
    <3>1. DOMAIN pool' = DOMAIN pool \ Pages
      BY <2>2, InvalidatedEffect DEF CacheInv
    <3> QED BY <2>2, <3>1, InvalidatedEffect DEF CacheInv
  <2> QED BY <1>1, <2>1, <2>2
<1>5. Types'
  BY <1>1, <1>2, <1>3, <1>4 DEF CacheInv, Types, Stages
<1>6. OwnerInv'
  BY <1>1, <1>3, OwnerStays DEF CacheInv
<1>7. \A r \in Readers : begun'[r] = begun[r] /\ ver'[r] = ver[r]
  <2>1. \A r \in Readers : r \in Threads /\ r # Writer
    BY ClientCacheAssumption DEF Threads
  <2> QED BY <1>1, <1>3, <2>1
<1>8. Reply'
  BY <1>1, <1>7, ReadersStay
<1>9. WriterInv' /\ RootsInv'
  BY <1>1, <1>3 DEF WriterInv, CacheInv, ClientInv, RootsInv
<1>10. \A t \in Threads : ver'[t] = ver[t] \/ (ver'[t] = 0 /\ load[t] = NoLoad)
  BY <1>3
<1>11. Bounded'
  <2>1. 0 <= cache.adopted
    BY DEF CacheInv, Types
  <2> QED BY <1>1, <1>10, <2>1 DEF CacheInv, ClientInv, Bounded
<1>12. LoadsInv'
  BY <1>2, <1>4, <1>10, LoadsStay DEF CacheInv, ClientInv
<1>13. Frames'
  <2> SUFFICES ASSUME NEW t \in Threads, ver'[t] # 0, NEW q \in Reach(ver'[t]), q \in DOMAIN pool'
               PROVE  pool'[q] = snaps[ver'[t]][q]
    BY <1>2 DEF Frames, Reach
  <2>1. ver'[t] = ver[t]
    BY <1>10
  <2> QED BY <1>4, <2>1 DEF CacheInv, ClientInv, Frames
<1>14. CacheIsAdopted'
  BY <1>1, <1>2, <1>4 DEF CacheInv, ClientInv, CacheIsAdopted
<1> QED BY <1>3, <1>5, <1>6, <1>8, <1>9, <1>11, <1>12, <1>13, <1>14 DEF CacheInv, ClientInv

\* The commit: the version after the one the cache corresponds to.
LEMMA WCommitSafe ==
    ASSUME CacheInv, WCommit
    PROVE  CacheInv'
<1>1. /\ wpc = "writing" /\ ~Loading(Writer) /\ wpc' = "committed" /\ ~granted' /\ granted' \in BOOLEAN
      /\ pins' = [pins EXCEPT ![ver[Writer]] = @ - 1] /\ ver' = [ver EXCEPT ![Writer] = 0]
      /\ Commit(FALSE)
      /\ begun' = [begun EXCEPT ![Writer] = [begun[Writer] EXCEPT !.txid = Txid + 1]]
      /\ UNCHANGED <<pool, load, cache, roots, held>>
  BY DEF WCommit
<1>2. PICK p \in Pages : Committed(p)
  BY <1>1, CommitEffect DEF CacheInv
<1>3. /\ Txid' = Txid + 1 /\ Txid \in Nat /\ Txid \in 1 .. MaxTxid /\ Txid' \in 1 .. MaxTxid
      /\ snaps' \in Seq(Trees) /\ wrote' \in Seq(SUBSET Pages) /\ Len(wrote') = Txid'
      /\ disk' \in [Pages -> 0 .. Txid'] /\ free' \subseteq Pages /\ freeGen' \in 1 .. Txid'
  BY <1>2, CommitFrame
<1>4. Writer \in Threads /\ \A r \in Readers : r \in Threads /\ r # Writer
  BY ClientCacheAssumption DEF Threads
<1>5. /\ begun' \in [Threads -> Replies] /\ begun'[Writer].txid = Txid + 1
      /\ \A r \in Readers : begun'[r] = begun[r]
  <2>1. begun \in [Threads -> Replies]
    BY DEF CacheInv, Types
  <2>2. PICK n \in Nat : n = Txid + 1
    BY <1>3
  <2>3. [begun[Writer] EXCEPT !.txid = n] \in Replies
    BY <1>4, <2>1 DEF Replies
  <2>4. [begun[Writer] EXCEPT !.txid = n].txid = n
    BY <1>4, <2>1 DEF Replies
  <2> QED BY <1>1, <1>4, <2>1, <2>2, <2>3, <2>4
<1>6. /\ pins' \in [1 .. MaxTxid -> Nat] /\ Pinned' \subseteq Pinned /\ PinsInv'
      /\ ver' \in [Threads -> 0 .. Txid] /\ ver'[Writer] = 0
      /\ \A t \in Threads : t # Writer => ver'[t] = ver[t]
      /\ load[Writer] = NoLoad /\ cache.adopted = Txid /\ roots = Txid
  BY <1>1, <1>5, WriteEnds
<1>7. Types'
  <2>1. /\ cache \in [lock : Threads, adopted : 1 .. Txid] /\ roots \in 1 .. Txid /\ held \subseteq 1 .. Txid
    BY DEF CacheInv, Types
  <2>2. /\ cache' \in [lock : Threads, adopted : 1 .. Txid'] /\ roots' \in 1 .. Txid'
        /\ held' \subseteq 1 .. Txid' /\ ver' \in [Threads -> 0 .. Txid']
    BY <1>1, <1>3, <1>6, <2>1
  <2> QED BY <1>1, <1>3, <1>5, <1>6, <2>2 DEF CacheInv, Types, Stages
<1>8. OwnerInv'
  BY <1>2, <1>6, OwnerCommits DEF CacheInv
<1>9. \A t \in Threads : ver'[t] = ver[t] \/ (ver'[t] = 0 /\ load[t] = NoLoad)
  BY <1>6
<1>10. Reply' /\ Bounded' /\ LoadsInv' /\ Frames' /\ CacheIsAdopted'
  BY <1>1, <1>2, <1>5, <1>9, CommitClients
<1>11. WriterInv'
  <2>1. Own' = Txid + 1 /\ cache'.adopted = Txid
    BY <1>1, <1>5, <1>6 DEF Own
  <2> QED BY <1>1, <1>3, <1>6, <2>1 DEF WriterInv
<1>12. RootsInv'
  BY <1>1, <1>6 DEF RootsInv
<1> QED BY <1>6, <1>7, <1>8, <1>10, <1>11, <1>12 DEF CacheInv, ClientInv

\* The rewritten pages leave the pool before the commit is adopted.
LEMMA WInvalidateSafe ==
    ASSUME CacheInv, WInvalidate
    PROVE  CacheInv'
<1>1. /\ wpc = "committed" /\ wpc' = "written" /\ Invalidated(wrote[Own])
      /\ UNCHANGED <<owned, pins, granted, cache, roots, held, ver, begun>>
  BY DEF WInvalidate, Own
<1>2. UNCHANGED <<disk, snaps, free, freeGen, wrote>> /\ Txid' = Txid /\ \A u : Reach(u)' = Reach(u)
      /\ Own' = Own
  BY <1>1 DEF owned, Txid, Reach, Own
<1>3. /\ DOMAIN pool' = DOMAIN pool \ wrote[Own] /\ \A q \in DOMAIN pool' : pool'[q] = pool[q]
      /\ IsFiniteSet(DOMAIN pool') /\ Cardinality(DOMAIN pool') <= Capacity
      /\ load' \in [Threads -> Loads]
      /\ \A t \in Threads : /\ load'[t].page = load[t].page /\ load'[t].val = load[t].val
                            /\ load'[t].registered <=> load[t].registered
                            /\ load[t] = NoLoad => load'[t] = NoLoad
  BY <1>1, InvalidatedEffect DEF CacheInv
<1>4. Types'
  BY <1>1, <1>2, <1>3 DEF CacheInv, Types, Stages
<1>5. OwnerInv'
  <2>1. Pinned' = Pinned
    BY <1>1 DEF Pinned
  <2> QED BY <1>1, <2>1, OwnerStays DEF CacheInv
<1>6. Reply'
  BY <1>1, ReadersStay
<1>7. WriterInv' /\ RootsInv' /\ Bounded'
  BY <1>1, <1>2, <1>3 DEF CacheInv, ClientInv, WriterInv, RootsInv, Bounded
<1>8. PinsInv'
  <2>1. \A u \in 1 .. MaxTxid : HeldPin(u)' = HeldPin(u) /\ WritePin(u)' = WritePin(u)
    BY <1>1, <1>2 DEF HeldPin, WritePin
  <2> QED BY <1>1, <2>1 DEF CacheInv, ClientInv, PinsInv, Count
<1>9. LoadsInv'
  BY <1>1, <1>2, <1>3, LoadsStay DEF CacheInv, ClientInv
<1>10. Frames' /\ CacheIsAdopted'
  BY <1>1, <1>2, <1>3 DEF CacheInv, ClientInv, Frames, CacheIsAdopted
<1> QED BY <1>4, <1>5, <1>6, <1>7, <1>8, <1>9, <1>10 DEF CacheInv, ClientInv

\* Shared::publish overtakes no read begin: no reply waits to be applied.
LEMMA WPublishSafe ==
    ASSUME CacheInv, WPublish, Prompt
    PROVE  CacheInv'
<1>1. /\ wpc = "written" /\ wpc' = "published" /\ roots' = Max({roots, Own})
      /\ \A r \in Readers : begun[r] = NotBegun
      /\ UNCHANGED <<owned, pins, granted, pool, load, cache, held, ver, begun>>
  BY DEF WPublish, Own
<1>2. UNCHANGED <<disk, snaps, free, freeGen, wrote>> /\ Txid' = Txid /\ \A u : Reach(u)' = Reach(u)
      /\ Own' = Own
  BY <1>1 DEF owned, Txid, Reach, Own
<1>3. /\ Txid \in Nat /\ roots \in 1 .. Txid /\ cache.adopted \in 1 .. Txid /\ roots = cache.adopted
      /\ Own \in 1 .. Txid
  BY <1>1 DEF CacheInv, Types, ClientInv, WriterInv, RootsInv
<1>4. roots' \in {roots, Own} /\ roots' >= roots /\ roots' >= Own
  <2>1. roots \in Nat /\ Own \in Nat
    BY <1>3
  <2> QED BY <1>1, <2>1, MaxTwo
<1>5. Types'
  <2>1. roots' \in 1 .. Txid
    BY <1>3, <1>4
  <2> QED BY <1>1, <1>2, <2>1 DEF CacheInv, Types, Stages
<1>6. OwnerInv'
  <2>1. Pinned' = Pinned
    BY <1>1 DEF Pinned
  <2> QED BY <1>1, <2>1, OwnerStays DEF CacheInv
<1>7. Reply'
  BY <1>1 DEF CacheInv, ClientInv, Reply
<1>8. WriterInv' /\ Bounded'
  BY <1>1, <1>2 DEF CacheInv, ClientInv, WriterInv, Bounded
<1>9. RootsInv'
  <2>1. roots' = cache.adopted \/ (roots' = Own /\ cache.adopted < Own)
    BY <1>3, <1>4
  <2> QED BY <1>1, <1>2, <1>4, <2>1 DEF RootsInv
<1>10. PinsInv'
  <2>1. \A u \in 1 .. MaxTxid : HeldPin(u)' = HeldPin(u) /\ WritePin(u)' = WritePin(u)
    BY <1>1, <1>2 DEF HeldPin, WritePin
  <2> QED BY <1>1, <2>1 DEF CacheInv, ClientInv, PinsInv, Count
<1>11. LoadsInv' /\ Frames' /\ CacheIsAdopted'
  BY <1>1, <1>2 DEF CacheInv, ClientInv, LoadsInv, Frames, CacheIsAdopted
<1> QED BY <1>5, <1>6, <1>7, <1>8, <1>9, <1>10, <1>11 DEF CacheInv, ClientInv

\* client_adopt_own_commit: the cache, without the rewritten pages, corresponds to
\* the commit, the version after the adopted one.
LEMMA WAdoptOwnSafe ==
    ASSUME CacheInv, WAdoptOwn
    PROVE  CacheInv'
<1>1. /\ wpc = "published" /\ cache.lock = Writer /\ wpc' = "idle"
      /\ cache' = [cache EXCEPT !.adopted = Max({cache.adopted, Own})]
      /\ begun' = [begun EXCEPT ![Writer] = NotBegun]
      /\ UNCHANGED <<owned, pins, granted, pool, load, roots, held, ver>>
  BY DEF WAdoptOwn, Own, Unlocked
<1>2. UNCHANGED <<disk, snaps, free, freeGen, wrote>> /\ Txid' = Txid /\ \A u : Reach(u)' = Reach(u)
  BY <1>1 DEF owned, Txid, Reach
<1>3. /\ Txid \in Nat /\ cache \in [lock : Threads, adopted : 1 .. Txid] /\ begun \in [Threads -> Replies]
      /\ cache.adopted \in 1 .. Txid /\ roots \in 1 .. Txid
      /\ Own \in 1 .. Txid /\ cache.adopted + 1 >= Own /\ roots >= Own
      /\ roots = cache.adopted \/ (roots = Own /\ cache.adopted < Own)
      /\ cache.adopted < Own => wrote[Own] \cap DOMAIN pool = {}
  BY <1>1 DEF CacheInv, Types, ClientInv, WriterInv, RootsInv
<1>4. Max({cache.adopted, Own}) = roots
  <2>1. cache.adopted \in Nat /\ Own \in Nat
    BY <1>3
  <2>2. /\ Max({cache.adopted, Own}) \in {cache.adopted, Own} /\ Max({cache.adopted, Own}) >= cache.adopted
        /\ Max({cache.adopted, Own}) >= Own
    BY <2>1, MaxTwo
  <2> QED BY <1>3, <2>2
<1>5. cache'.lock = Writer /\ cache'.adopted = roots /\ cache' \in [lock : Threads, adopted : 1 .. Txid]
  BY <1>1, <1>3, <1>4
<1>6. Writer \in Threads /\ \A r \in Readers : r \in Threads /\ r # Writer
  BY ClientCacheAssumption DEF Threads
<1>7. begun' \in [Threads -> Replies] /\ \A r \in Readers : begun'[r] = begun[r]
  <2>1. NotBegun \in Replies
    BY DEF NotBegun, Replies
  <2> QED BY <1>1, <1>3, <1>6, <2>1
<1>8. Types'
  BY <1>1, <1>2, <1>5, <1>7 DEF CacheInv, Types, Stages
<1>9. OwnerInv'
  <2>1. Pinned' = Pinned
    BY <1>1 DEF Pinned
  <2> QED BY <1>1, <2>1, OwnerStays DEF CacheInv
<1>10. Reply'
  <2>1. \A r \in Readers : begun[r] = NotBegun
    BY <1>1, <1>6 DEF CacheInv, ClientInv, Reply
  <2> QED BY <1>5, <1>6, <1>7, <2>1 DEF Reply
<1>11. WriterInv' /\ RootsInv'
  BY <1>1, <1>5 DEF CacheInv, ClientInv, WriterInv, RootsInv
<1>12. Bounded'
  <2> SUFFICES ASSUME NEW t \in Threads PROVE ver[t] <= roots
    BY <1>1, <1>5 DEF Bounded
  <2>1. ver[t] <= cache.adopted /\ ver[t] \in 0 .. Txid
    BY DEF CacheInv, ClientInv, Bounded, Types
  <2> QED BY <1>3, <2>1
<1>13. PinsInv'
  <2>1. \A u \in 1 .. MaxTxid : HeldPin(u)' = HeldPin(u) /\ WritePin(u)' = WritePin(u)
    BY <1>1, <1>2 DEF HeldPin, WritePin
  <2>2. \A u \in 1 .. MaxTxid : Count(begun', cache'.lock, u) = Count(begun, cache.lock, u)
    BY <1>1, <1>5 DEF Count
  <2> QED BY <1>1, <2>1, <2>2 DEF CacheInv, ClientInv, PinsInv
<1>14. LoadsInv' /\ Frames'
  BY <1>1, <1>2 DEF CacheInv, ClientInv, LoadsInv, Frames
<1>15. CacheIsAdopted'
  <2> SUFFICES ASSUME NEW q \in DOMAIN pool, q \in Reach(roots) PROVE pool[q] = snaps[roots][q]
    BY <1>1, <1>2, <1>5 DEF CacheIsAdopted
  <2>1. CASE roots = cache.adopted
    BY <2>1 DEF CacheInv, ClientInv, CacheIsAdopted
  <2>2. CASE roots = Own /\ cache.adopted < Own
    <3>1. /\ cache.adopted \in 1 .. roots
          /\ \A y \in cache.adopted + 1 .. roots : y = Own
      BY <1>3, <2>2
    <3>2. \A y \in cache.adopted + 1 .. roots : q \notin wrote[y]
      BY <1>3, <2>2, <3>1
    <3>3. q \in Reach(cache.adopted) /\ snaps[cache.adopted][q] = snaps[roots][q]
      BY <1>3, <3>1, <3>2 DEF CacheInv, OwnerInv, Lineage
    <3> QED BY <3>3 DEF CacheInv, ClientInv, CacheIsAdopted
  <2> QED BY <1>3, <2>1, <2>2
<1> QED BY <1>8, <1>9, <1>10, <1>11, <1>12, <1>13, <1>14, <1>15 DEF CacheInv, ClientInv

-----------------------------------------------------------------------------
(* The theorems.                                                           *)

\* The first snapshot, nothing cached, nothing pinned.
LEMMA CacheInit ==
    ASSUME Init
    PROVE  CacheInv
<1>1. /\ disk = [p \in Pages |-> IF p = First THEN 1 ELSE 0] /\ snaps = <<[p \in {First} |-> 1]>>
      /\ free \in SUBSET (Pages \ {First}) /\ freeGen = 1 /\ wrote = <<{}>>
      /\ pins = [v \in 1 .. MaxTxid |-> 0] /\ ~granted /\ granted \in BOOLEAN /\ pool = <<>>
      /\ load = [t \in Threads |-> NoLoad] /\ cache = [lock |-> Writer, adopted |-> 1]
      /\ roots = 1 /\ held = {} /\ ver = [t \in Threads |-> 0]
      /\ begun = [t \in Threads |-> NotBegun] /\ wpc = "idle"
  BY DEF Init, Unlocked
<1>2. First \in Pages /\ MaxTxid \in Nat /\ MaxTxid >= 1 /\ Capacity \in Nat
  BY ClientCacheAssumption
<1>3. Writer \in Threads /\ \A r \in Readers : r \in Threads /\ r # Writer
  BY ClientCacheAssumption DEF Threads
<1>4. [p \in {First} |-> 1] \in Trees
  <2>1. [p \in {First} |-> 1] \in [{First} -> Nat] /\ {First} \in SUBSET Pages
    BY <1>2
  <2> QED BY <2>1 DEF Trees
<1>5. snaps \in Seq(Trees) /\ Txid = 1 /\ snaps[1] = [p \in {First} |-> 1]
  BY <1>1, <1>4 DEF Txid
<1>6. Reach(1) = {First} /\ snaps[1][First] = 1
  BY <1>5 DEF Reach
<1>7. wrote \in Seq(SUBSET Pages) /\ Len(wrote) = 1
  BY <1>1
<1>8. DOMAIN pool = {}
  BY <1>1
<1>9. IsFiniteSet(DOMAIN pool) /\ Cardinality(DOMAIN pool) <= Capacity
  BY <1>2, <1>8, FS_EmptySet
<1>10. NoLoad \in Loads /\ NotBegun \in Replies
  BY <1>2 DEF NoLoad, Loads, NotBegun, Replies
<1>11. /\ disk \in [Pages -> 0 .. 1] /\ disk[First] = 1
       /\ load \in [Threads -> Loads] /\ begun \in [Threads -> Replies] /\ ver \in [Threads -> 0 .. 1]
       /\ cache \in [lock : Threads, adopted : 1 .. 1] /\ cache.lock = Writer /\ cache.adopted = 1
       /\ pins \in [1 .. MaxTxid -> Nat]
  BY <1>1, <1>2, <1>3, <1>10
<1>12. Types
  BY <1>1, <1>2, <1>5, <1>7, <1>9, <1>11 DEF Types, Stages
<1>13. Pinned = {}
  BY <1>1 DEF Pinned
<1>14. OwnerInv
  BY <1>1, <1>5, <1>6, <1>11, <1>13 DEF OwnerInv, Lineage, Stored, Dead, Kept
<1>15. Reply
  BY <1>1, <1>3, <1>11 DEF Reply
<1>16. WriterInv /\ RootsInv /\ Bounded
  BY <1>1, <1>3, <1>11 DEF WriterInv, RootsInv, Bounded
<1>17. PinsInv
  <2>1. held = {ver[r] : r \in Readers} \ {0}
    BY <1>1, <1>3
  <2>2. \A v \in 1 .. MaxTxid : /\ pins[v] = 0 /\ Count(begun, cache.lock, v) = 0
                                /\ HeldPin(v) = 0 /\ WritePin(v) = 0
    BY <1>1, <1>11 DEF Count, HeldPin, WritePin
  <2> QED BY <2>1, <2>2 DEF PinsInv
<1>18. LoadsInv /\ Frames /\ CacheIsAdopted
  BY <1>1, <1>8 DEF LoadsInv, Frames, CacheIsAdopted
<1> QED BY <1>12, <1>14, <1>15, <1>16, <1>17, <1>18 DEF CacheInv, ClientInv

\* Every step keeps it.
LEMMA CacheStep ==
    ASSUME CacheInv, [Next]_vars, Prompt
    PROVE  CacheInv'
<1>1. CASE UNCHANGED vars
  <2>1. UNCHANGED <<owned, pins, granted, cache, roots, held, ver, begun, wpc>> /\ UNCHANGED <<pool, load>>
    BY <1>1 DEF vars, owned
  <2>2. load' \in [Threads -> Loads] /\ IsFiniteSet(DOMAIN pool') /\ Cardinality(DOMAIN pool') <= Capacity
    BY <2>1 DEF CacheInv, Types
  <2>3. \A t \in Threads : load'[t] # NoLoad =>
            /\ ver[t] # 0 /\ load'[t].page \in Reach(ver[t])
            /\ load'[t].val = disk[load'[t].page] \/ (load'[t].val = -1 /\ load'[t].registered)
    BY <2>1 DEF CacheInv, ClientInv, LoadsInv
  <2>4. \A q \in DOMAIN pool' : q \in DOMAIN pool /\ pool'[q] = pool[q]
    BY <2>1
  <2> QED BY <2>1, <2>2, <2>3, <2>4, PoolStep
<1>2. CASE Next
  <2>1. CASE OtherCommit
    BY <2>1, OtherCommitSafe
  <2>2. ASSUME NEW t \in Threads, NEW p \in Pages, Fault(t, p) \/ Prefetch(t, p) PROVE CacheInv'
    BY <2>2, FaultSafe, PrefetchSafe
  <2>3. ASSUME NEW t \in Threads, NEW s \in Threads, NEW p \in Pages, Join(t, s, p) PROVE CacheInv'
    BY <2>3, JoinSafe
  <2>4. ASSUME NEW t \in Threads, ReadBlock(t) \/ Complete(t) \/ PrefetchAdmit(t) PROVE CacheInv'
    BY <2>4, ReadBlockSafe, CompleteSafe, PrefetchAdmitSafe
  <2>5. ASSUME NEW r \in Readers, BeginRead(r) \/ Register(r) \/ EndRead(r) PROVE CacheInv'
    BY <2>5, BeginReadSafe, RegisterSafe, EndReadSafe
  <2>6. CASE WAsk \/ WGrant \/ WAdopt \/ WAbort \/ WCommit \/ WInvalidate \/ WPublish \/ WAdoptOwn
    BY <2>6, WAskSafe, WGrantSafe, WAdoptSafe, WAbortSafe, WCommitSafe, WInvalidateSafe, WPublishSafe,
       WAdoptOwnSafe
  <2> QED BY <1>2, <2>1, <2>2, <2>3, <2>4, <2>5, <2>6 DEF Next
<1> QED BY <1>1, <1>2

\* The client's cache, its pins and the owner's versions agree at all times,
\* where no publication of its own overtakes a read begin.
THEOREM CacheInvariant ==
    ASSUME Prompt
    PROVE  Spec => []CacheInv
<1>1. Init => CacheInv
  BY CacheInit
<1>2. CacheInv /\ [Next]_vars => CacheInv'
  BY CacheStep
<1> QED BY <1>1, <1>2, PTL DEF Spec

\* The replies not applied that pin a version: the lock holder's, if at all.
LEMMA PendingCount ==
    ASSUME CacheInv, NEW v \in 1 .. MaxTxid
    PROVE  Cardinality({r \in Readers : begun[r].txid = v}) = Count(begun, cache.lock, v)
<1> DEFINE P == {r \in Readers : begun[r].txid = v}
<1>1. \A r \in Readers : begun[r].txid = v => cache.lock = r
  <2>1. v # 0 /\ NotBegun.txid = 0
    BY DEF NotBegun
  <2> QED BY <2>1 DEF CacheInv, ClientInv, Reply
<1>2. Writer \notin Readers /\ cache.lock \in Readers \cup {Writer}
  BY ClientCacheAssumption DEF CacheInv, Types, Threads
<1>3. CASE cache.lock # Writer /\ begun[cache.lock].txid = v
  <2>1. P = {cache.lock}
    BY <1>1, <1>2, <1>3
  <2>2. Count(begun, cache.lock, v) = 1
    BY <1>3 DEF Count
  <2> QED BY <2>1, <2>2, FS_Singleton
<1>4. CASE ~(cache.lock # Writer /\ begun[cache.lock].txid = v)
  <2>1. P = {}
    BY <1>1, <1>2, <1>4
  <2>2. Count(begun, cache.lock, v) = 0
    BY <1>4 DEF Count
  <2> QED BY <2>1, <2>2, FS_EmptySet
<1> QED BY <1>3, <1>4

\* A version has at most one pin for each of the client's threads: the reader
\* with the reply reads nothing yet.
LEMMA PinBound ==
    ASSUME CacheInv, NEW v \in 1 .. MaxTxid
    PROVE  pins[v] \in 0 .. Cardinality(Threads)
<1>1. IsFiniteSet(Readers) /\ Writer \notin Readers /\ Threads = Readers \cup {Writer}
  BY ClientCacheAssumption DEF Threads
<1>2. Cardinality(Readers) \in Nat /\ Cardinality(Threads) = Cardinality(Readers) + 1
  BY <1>1, FS_AddElement, FS_CardinalityType
<1>3. /\ pins[v] = Count(begun, cache.lock, v) + HeldPin(v) + WritePin(v)
      /\ held = {ver[r] : r \in Readers} \ {0}
  BY DEF CacheInv, ClientInv, PinsInv
<1>4. Count(begun, cache.lock, v) \in 0 .. 1 /\ HeldPin(v) \in 0 .. 1 /\ WritePin(v) \in 0 .. 1
  BY DEF Count, HeldPin, WritePin
<1>5. HeldPin(v) = 1 => \E r \in Readers : ver[r] = v
  BY <1>3 DEF HeldPin
<1>6. Count(begun, cache.lock, v) = 1 => cache.lock \in Readers /\ ver[cache.lock] = 0
  <2>1. cache.lock \in Threads
    BY DEF CacheInv, Types
  <2> QED BY <1>1, <2>1 DEF Count, CacheInv, ClientInv, Reply
<1>7. ASSUME NEW r \in Readers PROVE 1 <= Cardinality(Readers)
  <2>1. Cardinality({r}) = 1 /\ {r} \in SUBSET Readers
    BY FS_Singleton
  <2> QED BY <1>1, <2>1, FS_Subset
<1>8. ASSUME NEW r \in Readers, NEW s \in Readers, r # s PROVE 2 <= Cardinality(Readers)
  <2>1. IsFiniteSet({r}) /\ Cardinality({r}) = 1 /\ s \notin {r}
    BY <1>8, FS_Singleton
  <2>2. Cardinality({r} \cup {s}) = 2
    BY <2>1, FS_AddElement
  <2>3. {r} \cup {s} \in SUBSET Readers
    OBVIOUS
  <2> QED BY <1>1, <2>2, <2>3, FS_Subset
<1>9. Count(begun, cache.lock, v) + HeldPin(v) <= Cardinality(Readers)
  <2>1. CASE Count(begun, cache.lock, v) = 1 /\ HeldPin(v) = 1
    <3>1. PICK r \in Readers : ver[r] = v
      BY <1>5, <2>1
    <3>2. r # cache.lock /\ cache.lock \in Readers
      BY <1>6, <2>1, <3>1
    <3> QED BY <1>2, <1>8, <2>1, <3>2
  <2>2. CASE Count(begun, cache.lock, v) = 1 /\ HeldPin(v) = 0
    BY <1>2, <1>6, <1>7, <2>2
  <2>3. CASE Count(begun, cache.lock, v) = 0 /\ HeldPin(v) = 1
    BY <1>2, <1>5, <1>7, <2>3
  <2>4. CASE Count(begun, cache.lock, v) = 0 /\ HeldPin(v) = 0
    BY <1>2, <2>4
  <2> QED BY <1>4, <2>1, <2>2, <2>3, <2>4
<1> QED BY <1>2, <1>3, <1>4, <1>9

\* Every variable keeps its type: the free list never holds a page of the published
\* version, the pool never outgrows its capacity, and no version has more pins than
\* the client has threads.
THEOREM ClientCacheTypes ==
    ASSUME Prompt
    PROVE  Spec => []TypeOK
<1>1. CacheInv => TypeOK
  <2> SUFFICES ASSUME CacheInv PROVE TypeOK
    OBVIOUS
  <2>1. free \subseteq Pages \ Reach(Txid)
    <3>1. Txid \in freeGen .. Txid /\ free \subseteq Pages
      BY DEF CacheInv, Types
    <3> QED BY <3>1 DEF CacheInv, OwnerInv, Dead
  <2>2. pins \in [1 .. MaxTxid -> 0 .. Cardinality(Threads)]
    <3>1. pins \in [1 .. MaxTxid -> Nat]
      BY DEF CacheInv, Types
    <3> QED BY <3>1, PinBound
  <2>3. Txid <= MaxTxid
    BY ClientCacheAssumption DEF CacheInv, Types
  <2> QED BY <2>1, <2>2, <2>3 DEF CacheInv, Types, TypeOK
<1> QED BY <1>1, CacheInvariant, PTL

\* A page read for a transaction is its snapshot's page, whether the pool, a load
\* in flight or a read-ahead supplies it (get_or_load, prefetch_leaves, complete).
THEOREM ReadsStayInSnapshot ==
    ASSUME Prompt
    PROVE  Spec => []ReadsItsSnapshot
<1>1. CacheInv => ReadsItsSnapshot
  <2> SUFFICES ASSUME CacheInv, NEW t \in Threads, ver[t] # 0, NEW p \in Reach(ver[t])
               PROVE  /\ p \in DOMAIN pool => pool[p] = snaps[ver[t]][p]
                      /\ \A s \in Threads : load[s].page = p /\ load[s].val # -1 =>
                            load[s].val = snaps[ver[t]][p]
    BY DEF ReadsItsSnapshot
  <2>1. p \in DOMAIN pool => pool[p] = snaps[ver[t]][p]
    BY DEF CacheInv, ClientInv, Frames
  <2>2. ASSUME NEW s \in Threads, load[s].page = p, load[s].val # -1
        PROVE  load[s].val = snaps[ver[t]][p]
    <3>1. load[s] # NoLoad
      BY <2>2 DEF NoLoad
    <3>2. load[s].val = disk[p]
      BY <2>2, <3>1 DEF CacheInv, ClientInv, LoadsInv
    <3> QED BY <3>2, ActivePinned
  <2> QED BY <2>1, <2>2
<1> QED BY <1>1, CacheInvariant, PTL

\* The owner counts one pin for each version a reader reads, one for each reply
\* not applied and the write pin, and no other (ClientPins, deregister).
THEOREM PinsStayDisciplined ==
    ASSUME Prompt
    PROVE  Spec => []PinDiscipline
<1>1. CacheInv => PinDiscipline
  BY PendingCount DEF PinDiscipline, CacheInv, ClientInv, PinsInv, HeldPin, WritePin
<1> QED BY <1>1, CacheInvariant, PTL

\* The pool's frames are the adopted version's pages (client_adopt,
\* client_adopt_own_commit, commit_file).
THEOREM CacheStaysAdopted ==
    ASSUME Prompt
    PROVE  Spec => []CacheIsAdopted
<1>1. CacheInv => CacheIsAdopted
  BY DEF CacheInv, ClientInv
<1> QED BY <1>1, CacheInvariant, PTL

=============================================================================
