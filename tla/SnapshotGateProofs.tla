------------------------- MODULE SnapshotGateProofs -------------------------
(***************************************************************************)
(* Snapshot isolation in SnapshotGate, proved for every set of holders,    *)
(* page limit, storage limit and number of commits: the published roots    *)
(* stay readable, the free list's generation keeps main's readers safe,    *)
(* the precheck is final and, unless a storage limit makes the attachment  *)
(* rebuild its list under its readers, pinned snapshots keep their bytes.  *)
(***************************************************************************)
EXTENDS SnapshotGate, FiniteSetTheorems, WellFoundedInduction, TLAPS

-----------------------------------------------------------------------------
(* The inductive invariant.                                                *)

\* The writer's whole record, which TypeOK types in part.
Writers ==
    [phase : Phases, dirty : SUBSET Domains, n : [Domains -> 0 .. MaxTree],
     repair : SUBSET Domains, reclaim : BOOLEAN, compact : BOOLEAN, oldest : Nat,
     new : Snapshots, high : 0 .. PageLimit, rest : SUBSET Body, wrote : SUBSET Body]

Types == TypeOK /\ w \in Writers /\ version >= 1

\* Domain d is written and not published. Main is written last.
Packing == {"watermark", "persist", "publish"}
Packed(d) == d \in w.dirty /\ IF d = "main" THEN w.phase = "publish" ELSE w.phase \in Packing

\* The in-memory attachment's accounting lags: it is staged, or published and
\* not adopted.
Adopting == w.phase \in {"adopt", "adopting"}
Staged == "att" \in w.dirty /\ kind["att"] = "memory" /\ (w.phase \in Packing \/ Adopting)

\* Which domains each phase is about. Two files never commit together.
Stages ==
    /\ w.phase = "idle" => w.dirty = {}
    /\ w.phase \in {"check", "gate", "att"} => "att" \in w.dirty
    /\ w.phase \in {"watermark", "persist"} => "main" \in w.dirty
    /\ Adopting => Staged /\ w.new["att"] = roots["att"]
    /\ "main" \in w.dirty /\ "att" \in w.dirty => ~(kind["main"] = "file" /\ kind["att"] = "file")

Apart(list, snap) == \A e \in snap : e[1] \notin list
Below(snap, high) == \A e \in snap : e[1] < high

\* What the registry's answers are still worth when they are used: pins taken
\* since are of the published version.
Watermark ==
    w.phase \in {"check", "gate", "att", "watermark", "persist"} =>
        \A h \in Holders : pins[h] # NoPin =>
            /\ pins[h].ver >= w.oldest \/ pins[h].ver >= version
            /\ w.compact => pins[h].ver >= version

\* Main's free list is of the published generation or older, or of the one
\* about to be published; a pin of the published version reads the published
\* main root; and a pin no older than the list reads none of its pages.
Gens ==
    /\ freeGen <= version \/ (freeGen = version + 1 /\ Packed("main"))
    /\ \A h \in Holders :
        /\ pins[h].ver <= version
        /\ pins[h].ver = version => pins[h].snap["main"] = roots["main"]
        /\ pins[h].ver >= freeGen => Apart(free["main"], pins[h].snap["main"])

\* Why main's plan still fits after the precheck: it needs no listed page, or
\* every pin then and since is as new as the list.
FitsWith(reuse) == Fits("main", PlanOf("main", free["main"], reuse).high)
Final ==
    /\ "att" \in w.dirty /\ "main" \in w.dirty /\ kind["main"] = "memory"
    /\ w.phase \in {"gate", "att", "watermark", "persist"}
    => \/ "main" \in w.repair
       \/ FitsWith(FALSE)
       \/ /\ FitsWith(TRUE)
          /\ \A h \in Holders : pins[h] # NoPin => pins[h].ver >= freeGen
          /\ w.phase = "persist" => w.oldest >= freeGen

\* The published roots are on disk; so is a snapshot that is written and not
\* published.
Readable ==
    \A d \in Domains : Reads(d, roots[d]) /\ (Packed(d) => Reads(d, w.new[d]))

\* High-waters: of the published domain, and of the one about to be published.
Top(d) == IF d = "att" /\ Adopting THEN w.high ELSE pc[d]
NewTop(d) == IF d = "att" /\ kind["att"] = "memory" THEN w.high ELSE pc[d]
Bounds ==
    /\ \A d \in Domains : /\ \A p \in free[d] : p < pc[d]
                          /\ Below(roots[d], Top(d))
                          /\ Packed(d) => Below(w.new[d], NewTop(d))
    /\ Staged => w.high >= pc["att"] /\ \A p \in w.rest : p < pc["att"]

\* A free list names no page of the snapshot it belongs to: the published one,
\* or the one written and not published.
Lists ==
    /\ freeGen <= version => Apart(free["main"], roots["main"])
    /\ Packed("main") => Apart(free["main"], w.new["main"])
    /\ kind["att"] = "file" /\ Packed("att") => Apart(free["att"], w.new["att"])
    /\ ~(kind["att"] = "file" /\ Packed("att")) /\ ~Adopting => Apart(free["att"], roots["att"])
    /\ Staged => Apart(w.rest, roots["att"]) /\ Apart(w.rest, w.new["att"])

GateInv ==
    Types /\ Stages /\ Watermark /\ Gens /\ Final /\ Readable /\ Bounds /\ Lists

\* What the pins add, where no storage limit rebuilds the attachment's list.
\* After the writer saw the registry empty, every pin is of the published roots.
PinInv ==
    /\ PinnedSnapshotsStable
    /\ \A h \in Holders, d \in Domains : Below(pins[h].snap[d], Top(d))
    /\ kind["att"] = "memory" /\ ~Adopting =>
        \A h \in Holders : Apart(free["att"], pins[h].snap["att"])
    /\ Staged => \A h \in Holders : Apart(w.rest, pins[h].snap["att"])
    /\ w.phase \in {"att", "adopting"} /\ w.reclaim =>
        \A h \in Holders : pins[h] # NoPin => pins[h].snap["att"] = roots["att"]

-----------------------------------------------------------------------------
(* The registry.                                                           *)

\* A set of naturals that is not empty has a least member.
LEMMA LeastExists ==
    ASSUME NEW S, S \subseteq Nat, S # {}
    PROVE  \E v \in S : \A u \in S : v <= u
<1>1. IsWellFoundedOn({ss \in Nat \X Nat : ss[1] < ss[2]}, Nat)
  BY NatLessThanWellFounded DEF OpToRel
<1>2. PICK v \in S : \A u \in S : <<u, v>> \notin {ss \in Nat \X Nat : ss[1] < ss[2]}
  BY <1>1, WFMin
<1>3. ASSUME NEW u \in S PROVE v <= u
  <2>1. <<u, v>> \in Nat \X Nat /\ ~(u < v)
    BY <1>2
  <2> QED BY <2>1
<1> QED BY <1>3

\* oldest_live_version: no pin is older, and the version to be published is not.
LEMMA OldestEffect ==
    ASSUME Types
    PROVE  /\ OldestLive(version + 1) \in Nat /\ OldestLive(version + 1) <= version + 1
           /\ \A h \in Holders : pins[h] # NoPin => pins[h].ver >= OldestLive(version + 1)
           /\ \A b \in Nat : b <= version + 1 /\ (\A h \in Holders : pins[h] # NoPin => pins[h].ver >= b)
                => OldestLive(version + 1) >= b
<1> DEFINE S == Live \cup {version + 1}
<1>1. version \in Nat /\ \A h \in Holders : pins[h].ver \in Nat
  BY DEF Types, TypeOK
<1>2. \A v \in Live : \E h \in Holders : pins[h] # NoPin /\ v = pins[h].ver
  BY DEF Live
<1>3. \A h \in Holders : pins[h] # NoPin => pins[h].ver \in Live
  BY DEF Live
<1>4. S \subseteq Nat /\ S # {}
  BY <1>1, <1>2
<1>5. \E v \in S : \A u \in S : v <= u
  BY <1>4, LeastExists
<1>6. OldestLive(version + 1) \in S /\ \A u \in S : OldestLive(version + 1) <= u
  BY <1>5 DEF OldestLive
<1> QED BY <1>1, <1>2, <1>3, <1>4, <1>6

\* The registry is empty, or some holder is registered; the committed snapshot
\* may be compacted when no pin is older than it.
LEMMA RegistryEffect ==
    /\ ~HasLiveReaders <=> \A h \in Holders : pins[h] = NoPin
    /\ CanCompactCommitted <=> \A h \in Holders : pins[h] # NoPin => pins[h].ver >= version
BY DEF HasLiveReaders, CanCompactCommitted, Live

-----------------------------------------------------------------------------
(* Allocation, and what a commit overwrites.                               *)

\* Body pages are finitely many.
LEMMA BodyFinite ==
    ASSUME NEW S \in SUBSET Body
    PROVE  IsFiniteSet(S) /\ Cardinality(S) \in Nat
<1>1. IsFiniteSet(Body)
  BY GateAssumption, FS_Interval DEF Body
<1> QED BY <1>1, FS_Subset, FS_CardinalityType

\* PageAlloc takes what it draws off the list or from the high-water up.
LEMMA DrawEffect ==
    ASSUME NEW S \in SUBSET Body, NEW n \in Nat, NEW next \in Nat
    PROVE  /\ Lowest(S, n) \subseteq S
           /\ FromHigh(S, n) \in Nat /\ FromHigh(S, n) <= n
           /\ \A p \in Draw(S, n, next) :
                p \in Lowest(S, n) \/ (p \in Nat /\ p >= next /\ p < next + FromHigh(S, n))
<1>1. Cardinality(S) \in Nat
  BY BodyFinite
<1>2. FromHigh(S, n) \in Nat /\ FromHigh(S, n) <= n
  BY <1>1 DEF FromHigh
<1>3. Lowest(S, n) \subseteq S
  BY DEF Lowest
<1> QED BY <1>2, <1>3 DEF Draw

\* The pages a commit may draw from the list it plans with.
Pool(list, reuse) == IF reuse THEN list ELSE {}

\* The plan of a domain's commit (PageAlloc): new pages come off the part of
\* the list that may be reused, or from above the high-water.
LEMMA PlanEffect ==
    ASSUME Types, NEW d \in Domains, NEW list \in SUBSET Body, NEW reuse \in BOOLEAN,
           \A p \in list : p < pc[d]
    PROVE  LET plan == PlanOf(d, list, reuse) IN
           /\ plan.high \in Nat /\ plan.high >= pc[d]
           /\ \A p \in plan.pages : /\ p \in Nat /\ p >= 2 /\ p < plan.high
                                    /\ p >= pc[d] \/ p \in Pool(list, reuse)
           /\ plan.high <= PageLimit => plan.pages \subseteq Body
           /\ plan.rest \subseteq list /\ \A p \in plan.pages : p \notin plan.rest
           /\ plan.safe \subseteq Pool(list, reuse) /\ \A p \in plan.pages : p \notin plan.safe
<1> DEFINE pool == Pool(list, reuse)
           plan == PlanOf(d, list, reuse)
           n == w.n[d]
<1>1. n \in Nat /\ pc[d] \in Nat /\ pc[d] >= 2
  BY GateAssumption DEF Types, TypeOK, Writers
<1>2. pool \in SUBSET Body /\ pool \subseteq list
  BY DEF Pool
<1>3. /\ plan.pages = Draw(pool, n, pc[d]) /\ plan.high = pc[d] + FromHigh(pool, n)
      /\ plan.rest = list \ Lowest(pool, n) /\ plan.safe = pool \ Lowest(pool, n)
  BY DEF PlanOf, Pool
<1>4. /\ Lowest(pool, n) \subseteq pool /\ FromHigh(pool, n) \in Nat
      /\ \A p \in Draw(pool, n, pc[d]) :
            p \in Lowest(pool, n) \/ (p \in Nat /\ p >= pc[d] /\ p < pc[d] + FromHigh(pool, n))
  BY <1>1, <1>2, DrawEffect
<1>5. plan.high \in Nat /\ plan.high >= pc[d]
  BY <1>1, <1>3, <1>4
<1>6. \A p \in pool : p \in Nat /\ p >= 2 /\ p < pc[d]
  BY <1>2, GateAssumption DEF Body
<1>7. ASSUME NEW p \in plan.pages
      PROVE  /\ p \in Nat /\ p >= 2 /\ p < plan.high
             /\ p >= pc[d] \/ p \in pool
             /\ p \notin plan.rest /\ p \notin plan.safe
  <2>1. CASE p \in Lowest(pool, n)
    <3>1. p \in pool
      BY <1>4, <2>1
    <3> QED BY <1>1, <1>3, <1>5, <1>6, <2>1, <3>1
  <2>2. CASE p \in Nat /\ p >= pc[d] /\ p < pc[d] + FromHigh(pool, n)
    <3>1. p \notin list /\ p \notin pool
      BY <1>1, <1>2, <2>2
    <3> QED BY <1>1, <1>3, <2>2, <3>1
  <2> QED BY <1>3, <1>4, <2>1, <2>2
<1>8. plan.high <= PageLimit => plan.pages \subseteq Body
  <2> SUFFICES ASSUME plan.high <= PageLimit, NEW p \in plan.pages PROVE p \in Body
    OBVIOUS
  <2>1. p \in Nat /\ p >= 2 /\ p < plan.high
    BY <1>7
  <2> QED BY <1>5, <2>1, GateAssumption DEF Body
<1>9. plan.rest \subseteq list /\ plan.safe \subseteq pool
  BY <1>3
<1> QED BY <1>5, <1>7, <1>8, <1>9

\* A commit that may reuse the list needs no more room than one that may not.
LEMMA ReuseNeedsLess ==
    ASSUME Types, FitsWith(FALSE), NEW reuse \in BOOLEAN
    PROVE  FitsWith(reuse)
<1>1. /\ free["main"] \in SUBSET Body /\ w.n["main"] \in Nat /\ pc["main"] \in Nat
      /\ {} \in SUBSET Body
  BY GateAssumption DEF Types, TypeOK, Writers, Domains
<1>2. Cardinality({}) = 0
  BY FS_EmptySet
<1>3. FromHigh({}, w.n["main"]) = w.n["main"]
  BY <1>1, <1>2 DEF FromHigh
<1>4. FromHigh(free["main"], w.n["main"]) \in Nat
      /\ FromHigh(free["main"], w.n["main"]) <= FromHigh({}, w.n["main"])
  BY <1>1, <1>3, DrawEffect
<1>5. /\ PlanOf("main", free["main"], FALSE).high = pc["main"] + FromHigh({}, w.n["main"])
      /\ PlanOf("main", free["main"], TRUE).high = pc["main"] + FromHigh(free["main"], w.n["main"])
  BY DEF PlanOf
<1>6. CASE reuse
  <2>1. Limit \in Nat /\ FromHigh({}, w.n["main"]) \in Nat
    BY <1>1, <1>3, GateAssumption
  <2>2. ASSUME NEW a \in Nat, NEW b \in Nat, a <= b, Fits("main", b) PROVE Fits("main", a)
    BY <1>1, <2>1, <2>2 DEF Fits
  <2>3. /\ PlanOf("main", free["main"], FALSE).high \in Nat
        /\ PlanOf("main", free["main"], TRUE).high \in Nat
        /\ PlanOf("main", free["main"], TRUE).high <= PlanOf("main", free["main"], FALSE).high
    <3>1. /\ pc["main"] + FromHigh({}, w.n["main"]) \in Nat
          /\ pc["main"] + FromHigh(free["main"], w.n["main"]) \in Nat
          /\ pc["main"] + FromHigh(free["main"], w.n["main"])
                <= pc["main"] + FromHigh({}, w.n["main"])
      BY <1>1, <1>4, <2>1
    <3> QED BY <1>5, <3>1, Zenon
  <2> QED BY <1>6, <2>2, <2>3 DEF FitsWith
<1>7. CASE ~reuse
  BY <1>7 DEF FitsWith
<1> QED BY <1>6, <1>7

\* The new snapshot of a commit: what it keeps and what it wrote.
LEMMA NewTreeEffect ==
    ASSUME Types, NEW d, NEW kept \in SUBSET Entries, NEW pages \in SUBSET Body
    PROVE  /\ NewTree(d, kept, pages) \subseteq Entries
           /\ \A e \in NewTree(d, kept, pages) : e \in kept \/ (e[1] \in pages /\ e[2] = stamp)
<1>1. stamp \in Stamps
  BY DEF Types, TypeOK
<1> QED BY <1>1 DEF NewTree, Entries

\* A rebuilt list (Reachable's complement) names body pages below the
\* high-water that the snapshot does not read.
LEMMA UnreachedEffect ==
    ASSUME NEW high \in Nat, NEW tree \in SUBSET Entries, NEW wrote
    PROVE  /\ \A p \in Unreached(high, tree, wrote) : p < high
           /\ high <= PageLimit => Unreached(high, tree, wrote) \subseteq Body
           /\ Apart(Unreached(high, tree, wrote), tree)
<1>1. \A p \in Unreached(high, tree, wrote) : p \in 2 .. high - 1
  BY DEF Unreached
<1>2. \A e \in tree : e[1] \in PagesOf(tree)
  BY DEF PagesOf
<1> QED BY <1>1, <1>2, GateAssumption DEF Unreached, Apart, Body

\* The commit of d changed no page but `over` and no other domain.
Changes(d, over) ==
    /\ \A e \in Domains : e # d => disk'[e] = disk[e]
    /\ \A p \in Body : p \notin over => disk'[d][p] = disk[d][p]

\* A snapshot whose pages are not overwritten reads on as it did.
LEMMA KeepsReading ==
    ASSUME NEW d \in Domains, NEW e \in Domains, NEW over, NEW list, Changes(d, over),
           \A p \in over : p >= pc[d] \/ p \in list,
           NEW snap \in SUBSET Entries, Reads(e, snap),
           e = d => Below(snap, pc[d]) /\ Apart(list, snap), Types
    PROVE  Reads(e, snap)'
<1> SUFFICES ASSUME NEW x \in snap PROVE disk'[e][x[1]] = x[2]
  BY DEF Reads
<1>1. disk[e][x[1]] = x[2] /\ x[1] \in Body /\ x[1] \in Nat
  BY GateAssumption DEF Reads, Entries, Body
<1>2. CASE e # d
  BY <1>1, <1>2 DEF Changes
<1>3. CASE e = d
  <2>1. x[1] < pc[d] /\ x[1] \notin list /\ pc[d] \in Nat
    BY <1>3, GateAssumption DEF Below, Apart, Types, TypeOK
  <2>2. x[1] \notin over
    BY <1>1, <2>1
  <2> QED BY <1>1, <1>3, <2>2 DEF Changes
<1> QED BY <1>2, <1>3

-----------------------------------------------------------------------------
(* One domain's commit.                                                    *)

\* A write gives its pages their content and changes no other.
LEMMA WriteEffect ==
    ASSUME Types, NEW d \in Domains, NEW pages \in SUBSET Body, NEW content \in 0 .. MaxStamp,
           Write(d, pages, content)
    PROVE  /\ disk' \in [Domains -> [Body -> 0 .. MaxStamp]]
           /\ Changes(d, pages) /\ \A p \in pages : disk'[d][p] = content
<1>1. disk \in [Domains -> [Body -> 0 .. MaxStamp]]
  BY DEF Types, TypeOK
<1>2. disk' = [disk EXCEPT ![d] = [p \in Body |-> IF p \in pages THEN content ELSE disk[d][p]]]
  BY DEF Write
<1> QED BY <1>1, <1>2 DEF Changes

\* A new snapshot reads on: what it keeps is not overwritten, what it wrote is
\* there.
LEMMA TreeReads ==
    ASSUME Types, NEW d \in Domains, NEW kept \in SUBSET roots[d], NEW pages \in SUBSET Body,
           NEW over, NEW list, Changes(d, over), \A p \in over : p >= pc[d] \/ p \in list,
           Reads(d, roots[d]), Below(roots[d], pc[d]), Apart(list, roots[d]),
           \A p \in pages : disk'[d][p] = stamp
    PROVE  \A e \in NewTree(d, kept, pages) : disk'[d][e[1]] = e[2]
<1>1. roots[d] \in SUBSET Entries /\ kept \in SUBSET Entries
  BY DEF Types, TypeOK, Snapshots
<1>2. Reads(d, kept) /\ Below(kept, pc[d]) /\ Apart(list, kept)
  BY DEF Reads, Below, Apart
<1>3. Reads(d, kept)'
  BY <1>1, <1>2, KeepsReading
<1>4. \A e \in NewTree(d, kept, pages) : e \in kept \/ (e[1] \in pages /\ e[2] = stamp)
  BY <1>1, NewTreeEffect
<1>5. \A e \in kept : disk'[d][e[1]] = e[2]
  BY <1>3 DEF Reads
<1> QED BY <1>4, <1>5

\* plan_in_memory: the list a commit in memory draws from is the domain's, or
\* the one a forced compaction rebuilds from the committed snapshot; neither
\* names a page of that snapshot.
LEMMA MemoryPlanEffect ==
    ASSUME Types, NEW d \in Domains, NEW reuse \in BOOLEAN, \A p \in free[d] : p < pc[d],
           Apart(free[d], roots[d])
    PROVE  LET plan == MemoryPlan(d, reuse)
               list == ListAfter(d, reuse)
           IN
           /\ list \in SUBSET Body /\ \A p \in list : p < pc[d]
           /\ Apart(list, roots[d]) /\ (~Forces(d, reuse) => list = free[d])
           /\ plan.high \in Nat /\ plan.high >= pc[d]
           /\ \A p \in plan.pages : /\ p \in Nat /\ p >= 2 /\ p < plan.high
                                    /\ p >= pc[d] \/ p \in Pool(list, reuse \/ Forces(d, reuse))
           /\ plan.high <= PageLimit => plan.pages \subseteq Body
           /\ plan.rest \subseteq list /\ \A p \in plan.pages : p \notin plan.rest
<1>1. free[d] \in SUBSET Body /\ roots[d] \in SUBSET Entries /\ pc[d] \in Nat /\ pc[d] <= PageLimit
  BY GateAssumption DEF Types, TypeOK, Snapshots
<1>2. Rebuilt(d) \in SUBSET Body /\ (\A p \in Rebuilt(d) : p < pc[d]) /\ Apart(Rebuilt(d), roots[d])
  BY <1>1, UnreachedEffect DEF Rebuilt
<1>3. CASE Forces(d, reuse)
  <2>1. MemoryPlan(d, reuse) = PlanOf(d, Rebuilt(d), TRUE) /\ ListAfter(d, reuse) = Rebuilt(d)
    BY <1>3 DEF MemoryPlan, ListAfter
  <2>2. Pool(Rebuilt(d), reuse \/ Forces(d, reuse)) = Pool(Rebuilt(d), TRUE)
    BY <1>3 DEF Pool
  <2>3. LET plan == PlanOf(d, Rebuilt(d), TRUE) IN
        /\ plan.high \in Nat /\ plan.high >= pc[d]
        /\ \A p \in plan.pages : /\ p \in Nat /\ p >= 2 /\ p < plan.high
                                 /\ p >= pc[d] \/ p \in Pool(Rebuilt(d), TRUE)
        /\ plan.high <= PageLimit => plan.pages \subseteq Body
        /\ plan.rest \subseteq Rebuilt(d) /\ \A p \in plan.pages : p \notin plan.rest
    BY <1>2, PlanEffect
  <2> QED BY <1>2, <1>3, <2>1, <2>2, <2>3, Zenon
<1>4. CASE ~Forces(d, reuse)
  <2>1. MemoryPlan(d, reuse) = PlanOf(d, free[d], reuse) /\ ListAfter(d, reuse) = free[d]
    BY <1>4 DEF MemoryPlan, ListAfter
  <2>2. Pool(free[d], reuse \/ Forces(d, reuse)) = Pool(free[d], reuse)
    BY <1>4 DEF Pool
  <2>3. LET plan == PlanOf(d, free[d], reuse) IN
        /\ plan.high \in Nat /\ plan.high >= pc[d]
        /\ \A p \in plan.pages : /\ p \in Nat /\ p >= 2 /\ p < plan.high
                                 /\ p >= pc[d] \/ p \in Pool(free[d], reuse)
        /\ plan.high <= PageLimit => plan.pages \subseteq Body
        /\ plan.rest \subseteq free[d] /\ \A p \in plan.pages : p \notin plan.rest
    BY <1>1, PlanEffect
  <2> QED BY <1>1, <1>4, <2>1, <2>2, <2>3, Zenon
<1> QED BY <1>3, <1>4

\* What the commit of domain d finds: the published snapshot on disk below the
\* high-water, and a list of dead pages below it too.
Ready(d) ==
    /\ Types
    /\ \A p \in free[d] : p < pc[d]
    /\ Below(roots[d], pc[d]) /\ Apart(free[d], roots[d]) /\ Reads(d, roots[d])

\* The commit of file d left the snapshot `tree` and changed the pages `over`.
FileCommitted(d, tree, over, reuse, compact, new) ==
    /\ w' = [w EXCEPT !.new[d] = tree, !.phase = After(d)] /\ last' = last
    /\ Changes(d, over) /\ \A p \in over : p >= pc[d] \/ p \in Pool(free[d], reuse)
    /\ disk' \in [Domains -> [Body -> 0 .. MaxStamp]]
    /\ pc' \in [Domains -> 2 .. PageLimit] /\ free' \in [Domains -> SUBSET Body]
    /\ \A e \in Domains : e # d => pc'[e] = pc[e] /\ free'[e] = free[e]
    /\ \A e \in tree : disk'[d][e[1]] = e[2]
    /\ Below(tree, pc'[d]) /\ Apart(free'[d], tree) /\ \A p \in free'[d] : p < pc'[d]
    /\ \A p \in Body : p < pc[d] => p < pc'[d] \/ p \in Pool(free[d], reuse)
    /\ ~compact => free'[d] \subseteq free[d]
    /\ freeGen' = FreeGen(d, compact, new)

FileOutcome(d, reclaim, reuse, new) ==
    \E due \in BOOLEAN, tree \in SUBSET Entries, over \in SUBSET Body :
        FileCommitted(d, tree, over, reuse, reclaim /\ due, new)
FileCommits(d, reclaim, reuse, new) ==
    \E k \in 0 .. 1, due \in BOOLEAN, kept \in SUBSET roots[d] :
        CommitFile(d, kept, k, reclaim, reuse, due, new)

\* commit_durable of a file: what it overwrites was free to reuse or beyond the
\* high-water, the snapshot it leaves is on disk below the new high-water, and
\* the list it leaves names none of that snapshot's pages.
LEMMA CommitFileEffect ==
    ASSUME NEW d \in Domains, Ready(d), NEW reclaim \in BOOLEAN, NEW reuse \in BOOLEAN, NEW new,
           FileCommits(d, reclaim, reuse, new)
    PROVE  FileOutcome(d, reclaim, reuse, new)
<1> PICK k \in 0 .. 1, due \in BOOLEAN, kept \in SUBSET roots[d] :
        CommitFile(d, kept, k, reclaim, reuse, due, new)
  BY DEF FileCommits
<1> DEFINE plan == PlanOf(d, free[d], reuse)
           tree == NewTree(d, kept, plan.pages)
           listed == IF reclaim /\ due THEN Unreached(plan.high, tree, plan.pages) ELSE plan.rest
<1>0. /\ Types /\ (\A p \in free[d] : p < pc[d])
      /\ Below(roots[d], pc[d]) /\ Apart(free[d], roots[d]) /\ Reads(d, roots[d])
  BY DEF Ready
<1>1. PICK base \in 2 .. plan.high :
        LET low == {p \in plan.safe : p < base}
            aux == Draw(low, k, base)
            end == base + FromHigh(low, k)
            cut == base .. plan.high - 1
        IN
        /\ TrailingRun(plan.safe, plan.high, base)
        /\ plan.high <= PageLimit /\ end <= PageLimit
        /\ disk' = [disk EXCEPT ![d] = [p \in Body |->
                        IF p \in plan.pages \cup aux THEN stamp
                        ELSE IF p \in cut THEN 0 ELSE disk[d][p]]]
        /\ pc' = [pc EXCEPT ![d] = end]
        /\ free' = [free EXCEPT ![d] = {p \in listed : p < base} \ aux]
        /\ freeGen' = FreeGen(d, reclaim /\ due, new)
        /\ w' = [w EXCEPT !.new[d] = tree, !.phase = After(d)]
        /\ last' = last
  BY DEF CommitFile
<1> DEFINE low == {p \in plan.safe : p < base}
           aux == Draw(low, k, base)
           end == base + FromHigh(low, k)
           cut == base .. plan.high - 1
           over == {p \in Body : p \in plan.pages \/ p \in aux \/ p \in cut}
<1>2. /\ free[d] \in SUBSET Body /\ roots[d] \in SUBSET Entries /\ pc[d] \in Nat /\ pc[d] >= 2
      /\ disk \in [Domains -> [Body -> 0 .. MaxStamp]] /\ stamp \in 0 .. MaxStamp
      /\ pc \in [Domains -> 2 .. PageLimit] /\ free \in [Domains -> SUBSET Body] /\ PageLimit \in Nat
  BY <1>0, GateAssumption DEF Types, TypeOK, Snapshots, Stamps
<1>3. /\ plan.high \in Nat /\ plan.high >= pc[d]
      /\ \A p \in plan.pages : /\ p \in Nat /\ p >= 2 /\ p < plan.high
                               /\ p >= pc[d] \/ p \in Pool(free[d], reuse)
      /\ plan.high <= PageLimit => plan.pages \subseteq Body
      /\ plan.rest \subseteq free[d] /\ \A p \in plan.pages : p \notin plan.rest
      /\ plan.safe \subseteq Pool(free[d], reuse) /\ \A p \in plan.pages : p \notin plan.safe
  BY <1>0, <1>2, PlanEffect
<1>4. Pool(free[d], reuse) \subseteq free[d]
  BY DEF Pool
<1>5. plan.high <= PageLimit /\ plan.pages \in SUBSET Body /\ base \in Nat /\ base >= 2 /\ base <= plan.high
  BY <1>1, <1>3
<1>6. low \in SUBSET Body /\ low \subseteq plan.safe
  BY <1>2, <1>3, <1>4
<1>7. /\ Lowest(low, k) \subseteq low /\ FromHigh(low, k) \in Nat
      /\ \A p \in aux : p \in Lowest(low, k) \/ (p \in Nat /\ p >= base /\ p < base + FromHigh(low, k))
  <2>1. k \in Nat
    OBVIOUS
  <2> HIDE DEF low
  <2> QED BY <1>5, <1>6, <2>1, DrawEffect
<1>8. \A p \in base .. plan.high - 1 : p \in plan.safe
  BY <1>1 DEF TrailingRun
<1>9. end \in Nat /\ end >= base /\ end <= PageLimit /\ end >= 2
  BY <1>1, <1>5, <1>7
<1> HIDE DEF plan, tree, listed, low, aux, end, cut, over
<1>10. ASSUME NEW p \in over PROVE p >= pc[d] \/ p \in Pool(free[d], reuse)
  <2>1. p \in Body /\ (p \in plan.pages \/ p \in aux \/ p \in cut)
    BY DEF over
  <2>2. CASE p \in plan.pages
    BY <1>3, <2>2
  <2>3. \A q \in Nat : q >= base => q >= pc[d] \/ q \in plan.safe
    BY <1>2, <1>3, <1>5, <1>8
  <2>4. CASE p \in aux
    BY <1>3, <1>6, <1>7, <2>3, <2>4
  <2>5. CASE p \in cut
    BY <1>3, <1>8, <2>5 DEF cut
  <2> QED BY <2>1, <2>2, <2>4, <2>5
<1>11. disk' = [disk EXCEPT ![d] = [p \in Body |->
                    IF p \in plan.pages \cup aux THEN stamp
                    ELSE IF p \in cut THEN 0 ELSE disk[d][p]]]
  BY <1>1 DEF plan, aux, low, cut
<1>12. disk' \in [Domains -> [Body -> 0 .. MaxStamp]] /\ \A p \in plan.pages : disk'[d][p] = stamp
  <2> DEFINE f == [p \in Body |-> IF p \in plan.pages \cup aux THEN stamp
                                  ELSE IF p \in cut THEN 0 ELSE disk[d][p]]
  <2>1. 0 \in 0 .. MaxStamp /\ disk[d] \in [Body -> 0 .. MaxStamp]
    BY <1>2, GateAssumption
  <2>2. f \in [Body -> 0 .. MaxStamp] /\ \A p \in plan.pages : f[p] = stamp
    BY <1>2, <1>5, <2>1
  <2>3. disk' = [disk EXCEPT ![d] = f]
    BY <1>11
  <2> HIDE DEF f
  <2> QED BY <1>2, <2>2, <2>3
<1>13. Changes(d, over)
  BY <1>2, <1>11 DEF Changes, over
<1>14. over \in SUBSET Body
  BY DEF over
<1>15. pc' = [pc EXCEPT ![d] = end] /\ free' = [free EXCEPT ![d] = {p \in listed : p < base} \ aux]
  BY <1>1 DEF plan, tree, listed, aux, low, end
<1>16. Apart(Pool(free[d], reuse), roots[d]) /\ Apart(free[d], roots[d])
  BY <1>0, <1>4 DEF Apart
<1>17. \A e \in tree : disk'[d][e[1]] = e[2]
  BY <1>0, <1>5, <1>10, <1>12, <1>13, <1>16, TreeReads DEF tree
<1>18. kept \in SUBSET Entries
  BY <1>2
<1>19. tree \in SUBSET Entries /\ \A e \in tree : e \in kept \/ (e[1] \in plan.pages /\ e[2] = stamp)
  BY <1>0, <1>5, <1>18, NewTreeEffect DEF tree
<1>20. \A q \in Nat : q < plan.high /\ q \notin plan.safe => q < base
  BY <1>3, <1>5, <1>8
<1>21. \A q \in Body : q \in Nat /\ q >= 2
  BY GateAssumption DEF Body
<1>22. \A q \in Body : q < pc[d] => q < end \/ q \in Pool(free[d], reuse)
  BY <1>2, <1>3, <1>5, <1>9, <1>20, <1>21
<1>23. ASSUME NEW e \in tree PROVE e[1] < end
  <2>1. CASE e \in kept
    <3>1. e[1] < pc[d] /\ e[1] \notin free[d] /\ e[1] \in Body
      BY <1>0, <1>2, <2>1 DEF Below, Apart, Entries
    <3> QED BY <1>4, <1>22, <3>1
  <2>2. CASE e[1] \in plan.pages
    <3>1. e[1] \in Nat /\ e[1] < plan.high /\ e[1] \notin plan.safe
      BY <1>3, <2>2
    <3> QED BY <1>5, <1>9, <1>20, <3>1
  <2> QED BY <1>19, <2>1, <2>2
<1>24. listed \in SUBSET Body /\ Apart(listed, tree) /\ (~(reclaim /\ due) => listed \subseteq free[d])
  <2>1. CASE reclaim /\ due
    <3>1. listed = Unreached(plan.high, tree, plan.pages)
      BY <2>1 DEF listed
    <3> QED BY <1>3, <1>5, <1>19, <2>1, <3>1, UnreachedEffect
  <2>2. CASE ~(reclaim /\ due)
    <3>1. listed = plan.rest
      BY <2>2 DEF listed
    <3>2. Apart(plan.rest, tree)
      BY <1>3, <1>16, <1>19 DEF Apart
    <3> QED BY <1>2, <1>3, <3>1, <3>2
  <2> QED BY <2>1, <2>2
<1>25. free'[d] = {p \in listed : p < base} \ aux /\ pc'[d] = end
  BY <1>2, <1>15
<1>26. /\ free'[d] \in SUBSET Body /\ Apart(free'[d], tree) /\ free'[d] \subseteq listed
       /\ \A p \in free'[d] : p < pc'[d]
  <2>1. \A p \in listed : p \in Nat
    BY <1>21, <1>24
  <2> QED BY <1>5, <1>9, <1>24, <1>25, <2>1 DEF Apart
<1>27. /\ pc' \in [Domains -> 2 .. PageLimit] /\ free' \in [Domains -> SUBSET Body]
       /\ \A e \in Domains : e # d => pc'[e] = pc[e] /\ free'[e] = free[e]
  BY <1>2, <1>9, <1>15, <1>24
<1>28. /\ w' = [w EXCEPT !.new[d] = tree, !.phase = After(d)] /\ last' = last
       /\ freeGen' = FreeGen(d, reclaim /\ due, new)
  BY <1>1 DEF plan, tree
<1>29. Below(tree, pc'[d]) /\ (~(reclaim /\ due) => free'[d] \subseteq free[d])
  BY <1>23, <1>24, <1>25, <1>26 DEF Below
<1>30. \A p \in Body : p < pc[d] => p < pc'[d] \/ p \in Pool(free[d], reuse)
  BY <1>22, <1>25
<1>31. FileCommitted(d, tree, over, reuse, reclaim /\ due, new)
  BY <1>10, <1>12, <1>13, <1>17, <1>26, <1>27, <1>28, <1>29, <1>30 DEF FileCommitted
<1> QED BY <1>14, <1>19, <1>31 DEF FileOutcome

-----------------------------------------------------------------------------
(* Init, and the registry's actions.                                       *)

\* A new database reads its catalog's page, nobody is pinned, the lists are
\* empty.
LEMMA GateInit == Init => GateInv /\ PinInv
<1> SUFFICES ASSUME Init PROVE GateInv /\ PinInv
  OBVIOUS
<1>1. /\ 1 \in Stamps /\ 2 \in Body /\ 3 \in 2 .. PageLimit /\ 0 \in 0 .. MaxStamp
      /\ 1 \in 0 .. MaxStamp /\ 0 \in 0 .. MaxTree /\ 0 \in 0 .. PageLimit
  BY GateAssumption DEF Stamps, Body
<1>2. <<2, 1>> \in Entries
  BY <1>1 DEF Entries
<1>3. NoPin \in [ver : Nat, snap : Snapshots] /\ NoPin.ver = 0 /\ \A d \in Domains : NoPin.snap[d] = {}
  BY DEF NoPin, Snapshots
<1>4. Idle \in Writers /\ Idle.phase = "idle" /\ Idle.dirty = {}
  BY <1>1 DEF Idle, Writers, Phases, Snapshots
<1>5. TypeOK
  BY <1>1, <1>2, <1>3, <1>4 DEF Init, TypeOK, Snapshots, Writers, Phases
<1>6. Types
  BY <1>4, <1>5 DEF Types, Init
<1>7. w.phase = "idle" /\ w.dirty = {} /\ \A d \in Domains : ~Packed(d)
  BY <1>4 DEF Init, Packed, Packing
<1>8. ~Adopting /\ ~Staged
  BY <1>7 DEF Adopting, Staged, Packing
<1>9. Stages /\ Watermark /\ Final
  BY <1>7, <1>8 DEF Stages, Watermark, Final
<1>10. \A d \in Domains : roots[d] = {<<2, 1>>} /\ disk[d][2] = 1 /\ pc[d] = 3 /\ free[d] = {}
  BY <1>1 DEF Init
<1>11. "main" \in Domains /\ "att" \in Domains
  BY DEF Domains
<1>12. \A h \in Holders : pins[h] = NoPin
  BY DEF Init
<1>13. Gens
  BY <1>3, <1>10, <1>11, <1>12 DEF Gens, Apart, Init
<1>14. Readable
  BY <1>7, <1>10 DEF Readable, Reads
<1>15. Bounds
  BY <1>7, <1>8, <1>10 DEF Bounds, Below, Top
<1>16. Lists
  BY <1>7, <1>8, <1>10, <1>11 DEF Lists, Apart
<1>17. PinInv
  BY <1>3, <1>7, <1>8, <1>10, <1>11, <1>12
     DEF PinInv, PinnedSnapshotsStable, Reads, Below, Apart
<1> QED BY <1>6, <1>9, <1>13, <1>14, <1>15, <1>16, <1>17 DEF GateInv

Rest == <<kind, disk, roots, version, pc, free, freeGen, last, poisoned, stamp, w>>

\* A holder's pin becomes x: what x must satisfy for the invariant to hold.
LEMMA PinStep ==
    ASSUME GateInv, NEW h \in Holders, NEW x \in [ver : Nat, snap : Snapshots],
           pins' = [pins EXCEPT ![h] = x], UNCHANGED Rest,
           x.ver <= version, x.ver = version => x.snap["main"] = roots["main"],
           x.ver >= freeGen => Apart(free["main"], x.snap["main"]),
           x # NoPin => x.ver >= version \/ \E g \in Holders : pins[g] # NoPin /\ x = pins[g]
    PROVE  GateInv'
<1>1. pins \in [Holders -> [ver : Nat, snap : Snapshots]] /\ version \in Nat
  BY DEF GateInv, Types, TypeOK
<1>2. pins' \in [Holders -> [ver : Nat, snap : Snapshots]]
  BY <1>1
<1>3. \A g \in Holders : pins'[g] = pins[g] \/ pins'[g] = x
  BY <1>1
<1>4. Types'
  BY <1>2 DEF GateInv, Types, TypeOK, Rest
<1>5. Stages' /\ Readable' /\ Bounds' /\ Lists'
  BY DEF GateInv, Stages, Readable, Bounds, Lists, Reads, Below, Apart, Packed, Packing,
         Adopting, Staged, Top, NewTop, Rest
<1>6. Watermark'
  BY <1>3 DEF GateInv, Watermark, Rest
<1>7. Gens'
  BY <1>3 DEF GateInv, Gens, Apart, Packed, Packing, Rest
<1>8. Final'
  <2>1. FitsWith(TRUE)' = FitsWith(TRUE) /\ FitsWith(FALSE)' = FitsWith(FALSE)
    BY DEF FitsWith, Fits, PlanOf, Rest
  <2>2. Gens /\ Final /\ Types
    BY DEF GateInv
  <2>3. freeGen \in Nat
    BY <2>2 DEF Types, TypeOK
  <2>4. CASE /\ \A g \in Holders : pins[g] # NoPin => pins[g].ver >= freeGen
             /\ w.phase \in {"gate", "att", "watermark", "persist"}
    <3>1. freeGen <= version
      BY <2>2, <2>4 DEF Gens, Packed, Packing
    <3>2. \A g \in Holders : pins'[g] # NoPin => pins'[g].ver >= freeGen
      BY <1>1, <1>3, <2>3, <2>4, <3>1
    <3> QED BY <2>1, <2>2, <3>2 DEF Final, Rest
  <2>5. CASE ~(/\ \A g \in Holders : pins[g] # NoPin => pins[g].ver >= freeGen
               /\ w.phase \in {"gate", "att", "watermark", "persist"})
    BY <2>1, <2>2, <2>5 DEF Final, Rest
  <2> QED BY <2>4, <2>5
<1> QED BY <1>4, <1>5, <1>6, <1>7, <1>8 DEF GateInv

\* The same for what the pins add.
LEMMA PinStepPinned ==
    ASSUME GateInv, PinInv, NEW h \in Holders, NEW x \in [ver : Nat, snap : Snapshots],
           pins' = [pins EXCEPT ![h] = x], UNCHANGED Rest,
           \A d \in Domains : Reads(d, x.snap[d]) /\ Below(x.snap[d], Top(d)),
           kind["att"] = "memory" /\ ~Adopting => Apart(free["att"], x.snap["att"]),
           Staged => Apart(w.rest, x.snap["att"]),
           w.phase \in {"att", "adopting"} /\ w.reclaim /\ x # NoPin
                => x.snap["att"] = roots["att"]
    PROVE  PinInv'
<1>1. \A g \in Holders : pins'[g] = pins[g] \/ pins'[g] = x
  BY DEF GateInv, Types, TypeOK
<1>2. PinnedSnapshotsStable'
  BY <1>1 DEF PinInv, PinnedSnapshotsStable, Reads, Rest
<1>3. /\ Adopting' = Adopting /\ Staged' = Staged /\ w' = w /\ kind' = kind /\ free' = free
      /\ roots' = roots
  BY DEF Adopting, Staged, Packing, Rest
<1>4. (\A g \in Holders, d \in Domains : Below(pins[g].snap[d], Top(d)))'
  BY <1>1 DEF PinInv, Below, Top, Adopting, Rest
<1>5. kind["att"] = "memory" /\ ~Adopting => \A g \in Holders : Apart(free["att"], pins'[g].snap["att"])
  BY <1>1 DEF PinInv, Apart
<1>6. Staged => \A g \in Holders : Apart(w.rest, pins'[g].snap["att"])
  BY <1>1 DEF PinInv, Apart
<1>7. w.phase \in {"att", "adopting"} /\ w.reclaim =>
        \A g \in Holders : pins'[g] # NoPin => pins'[g].snap["att"] = roots["att"]
  BY <1>1 DEF PinInv
<1> QED BY <1>2, <1>3, <1>4, <1>5, <1>6, <1>7 DEF PinInv, Apart

\* pin_latest: the published roots and their version.
LEMMA PinLatestSafe ==
    ASSUME GateInv, NEW h \in Holders, PinLatest(h)
    PROVE  GateInv' /\ (PinInv => PinInv')
<1> DEFINE x == [ver |-> version, snap |-> roots]
<1>1. version \in Nat /\ roots \in Snapshots /\ freeGen \in Nat
  BY DEF GateInv, Types, TypeOK
<1>2. x \in [ver : Nat, snap : Snapshots] /\ x.ver = version /\ x.snap = roots
  BY <1>1
<1>3. pins' = [pins EXCEPT ![h] = x] /\ UNCHANGED Rest
  BY DEF PinLatest, Rest
<1>4. version >= freeGen => Apart(free["main"], roots["main"])
  BY <1>1 DEF GateInv, Lists
<1> HIDE DEF x
<1>5. GateInv'
  <2>1. /\ x.ver <= version /\ (x.ver = version => x.snap["main"] = roots["main"])
        /\ x.ver >= freeGen => Apart(free["main"], x.snap["main"])
        /\ x.ver >= version
    BY <1>1, <1>2, <1>4
  <2> QED BY <1>2, <1>3, <2>1, PinStep
<1>6. \A d \in Domains : Reads(d, roots[d]) /\ Below(roots[d], Top(d))
  BY DEF GateInv, Readable, Bounds
<1>7. /\ kind["att"] = "memory" /\ ~Adopting => Apart(free["att"], roots["att"])
      /\ Staged => Apart(w.rest, roots["att"])
  BY DEF GateInv, Lists
<1>8. PinInv => PinInv'
  BY <1>2, <1>3, <1>6, <1>7, PinStepPinned
<1> QED BY <1>5, <1>8

\* reader_pin: the pin of a session that is registered.
LEMMA CursorPinSafe ==
    ASSUME GateInv, NEW h \in Holders, NEW session \in Holders, CursorPin(h, session)
    PROVE  GateInv' /\ (PinInv => PinInv')
<1> DEFINE x == pins[session]
<1>1. x \in [ver : Nat, snap : Snapshots] /\ version \in Nat /\ x # NoPin
  BY DEF GateInv, Types, TypeOK, CursorPin
<1>2. pins' = [pins EXCEPT ![h] = x] /\ UNCHANGED Rest
  BY DEF CursorPin, Rest
<1>3. /\ x.ver <= version /\ (x.ver = version => x.snap["main"] = roots["main"])
      /\ x.ver >= freeGen => Apart(free["main"], x.snap["main"])
  BY DEF GateInv, Gens
<1>4. GateInv'
  BY <1>1, <1>2, <1>3, PinStep
<1>5. PinInv => PinInv'
  <2> SUFFICES ASSUME PinInv PROVE PinInv'
    OBVIOUS
  <2>1. \A d \in Domains : Reads(d, x.snap[d]) /\ Below(x.snap[d], Top(d))
    BY DEF PinInv, PinnedSnapshotsStable
  <2>2. /\ kind["att"] = "memory" /\ ~Adopting => Apart(free["att"], x.snap["att"])
        /\ Staged => Apart(w.rest, x.snap["att"])
        /\ w.phase \in {"att", "adopting"} /\ w.reclaim => x.snap["att"] = roots["att"]
    BY <1>1 DEF PinInv
  <2> QED BY <1>1, <1>2, <2>1, <2>2, PinStepPinned
<1> QED BY <1>4, <1>5

\* A pin is dropped.
LEMMA ReleaseSafe ==
    ASSUME GateInv, NEW h \in Holders, Release(h)
    PROVE  GateInv' /\ (PinInv => PinInv')
<1>1. /\ NoPin \in [ver : Nat, snap : Snapshots] /\ NoPin.ver = 0
      /\ \A d \in Domains : NoPin.snap[d] = {}
  BY DEF NoPin, Snapshots
<1>2. pins' = [pins EXCEPT ![h] = NoPin] /\ UNCHANGED Rest
  BY DEF Release, Rest
<1>3. version \in Nat /\ version >= 1 /\ "main" \in Domains /\ "att" \in Domains
  BY DEF GateInv, Types, TypeOK, Domains
<1>4. GateInv'
  <2>1. /\ NoPin.ver <= version /\ NoPin.ver # version
        /\ Apart(free["main"], NoPin.snap["main"])
    BY <1>1, <1>3 DEF Apart
  <2> QED BY <1>1, <1>2, <2>1, PinStep
<1>5. PinInv => PinInv'
  BY <1>1, <1>2, <1>3, PinStepPinned DEF Apart, Reads, Below
<1> QED BY <1>4, <1>5

-----------------------------------------------------------------------------
(* Steps of the writer that write no page.                                 *)

Store == <<kind, disk, roots, version, pins, pc, free, freeGen, last, poisoned, stamp>>

\* Where the writer is idle the invariant says only what the store is.
LEMMA IdleStep ==
    ASSUME Types', w'.phase = "idle", w'.dirty = {}, freeGen' <= version',
           \A h \in Holders : /\ pins'[h].ver <= version'
                              /\ pins'[h].ver = version' => pins'[h].snap["main"] = roots'["main"]
                              /\ pins'[h].ver >= freeGen' => Apart(free'["main"], pins'[h].snap["main"]),
           \A d \in Domains : /\ \A e \in roots'[d] : disk'[d][e[1]] = e[2]
                              /\ Below(roots'[d], pc'[d]) /\ Apart(free'[d], roots'[d])
                              /\ \A p \in free'[d] : p < pc'[d]
    PROVE  GateInv'
<1>1. w'.phase = "idle" /\ w'.dirty = {}
  OBVIOUS
<1>2. ~Adopting' /\ ~Staged' /\ \A d \in Domains : ~Packed(d)'
  BY <1>1 DEF Adopting, Staged, Packing, Packed
<1>3. Stages' /\ Watermark' /\ Final'
  BY <1>1, <1>2 DEF Stages, Watermark, Final
<1>4. Gens'
  BY DEF Gens
<1>5. Readable'
  BY <1>2 DEF Readable, Reads
<1>6. Bounds'
  BY <1>2 DEF Bounds, Top
<1>7. Lists'
  BY <1>1, <1>2 DEF Lists, Domains
<1> QED BY <1>3, <1>4, <1>5, <1>6, <1>7 DEF GateInv

\* The same for what the pins add.
LEMMA IdleStepPinned ==
    ASSUME w'.phase = "idle", w'.dirty = {},
           \A h \in Holders, d \in Domains :
                /\ \A e \in pins'[h].snap[d] : disk'[d][e[1]] = e[2]
                /\ Below(pins'[h].snap[d], pc'[d]),
           kind'["att"] = "memory" => \A h \in Holders : Apart(free'["att"], pins'[h].snap["att"])
    PROVE  PinInv'
<1>1. w'.phase = "idle" /\ w'.dirty = {}
  OBVIOUS
<1>2. ~Adopting' /\ ~Staged'
  BY <1>1 DEF Adopting, Staged
<1>3. PinnedSnapshotsStable'
  BY DEF PinnedSnapshotsStable, Reads
<1> QED BY <1>1, <1>2, <1>3 DEF PinInv, Top

\* The idle writer has its type and no domain.
LEMMA IdleRecord == Idle \in Writers /\ Idle.phase = "idle" /\ Idle.dirty = {}
BY GateAssumption DEF Idle, Writers, Phases, Snapshots

\* What a plan that fits depends on.
LEMMA FitsFrame ==
    ASSUME w'.n = w.n, pc'["main"] = pc["main"], free'["main"] = free["main"]
    PROVE  FitsWith(TRUE)' = FitsWith(TRUE) /\ FitsWith(FALSE)' = FitsWith(FALSE)
BY DEF FitsWith, Fits, PlanOf

\* COMMIT begins.
LEMMA BeginSafe ==
    ASSUME GateInv, NEW n \in [Domains -> 0 .. MaxTree], NEW repair \in SUBSET Domains,
           Begin(n, repair)
    PROVE  GateInv' /\ (PinInv => PinInv')
<1> DEFINE D == {d \in Domains : n[d] > 0}
           start == IF "att" \in D THEN "check" ELSE "watermark"
<1>1. /\ w.phase = "idle" /\ stamp < MaxStamp /\ D \subseteq Writable \ poisoned
      /\ Cardinality({d \in D : kind[d] = "file"}) <= 1 /\ stamp' = stamp + 1
      /\ w' = [Idle EXCEPT !.phase = start, !.dirty = D, !.n = n, !.repair = repair,
                           !.oldest = OldestLive(version + 1), !.compact = CanCompactCommitted]
      /\ D # {}
      /\ UNCHANGED <<kind, disk, roots, version, pins, pc, free, freeGen, last, poisoned>>
  BY DEF Begin, store
<1>2. Types
  BY DEF GateInv
<1>3. OldestLive(version + 1) \in Nat /\ CanCompactCommitted \in BOOLEAN
  BY <1>2, OldestEffect DEF CanCompactCommitted
<1>4. D \in SUBSET Domains /\ start \in Phases /\ start \in {"check", "watermark"}
  BY DEF Phases
<1> HIDE DEF D, start
<1>5. /\ w'.phase = start /\ w'.dirty = D /\ w'.oldest = OldestLive(version + 1)
      /\ w'.compact = CanCompactCommitted
  BY <1>1 DEF Idle
<1>6. Idle \in Writers
  BY GateAssumption DEF Idle, Writers, Phases, Snapshots
<1>7. w' \in Writers
  BY <1>1, <1>3, <1>4, <1>6 DEF Writers
<1>8. stamp' \in Stamps
  BY <1>1, <1>2, GateAssumption DEF Types, TypeOK, Stamps
<1>9. Types'
  BY <1>1, <1>2, <1>7, <1>8 DEF Types, TypeOK, Writers
<1>10. "main" \in D /\ "att" \in D => ~(kind["main"] = "file" /\ kind["att"] = "file")
  <2> SUFFICES ASSUME "main" \in D, "att" \in D, kind["main"] = "file", kind["att"] = "file"
               PROVE  FALSE
    OBVIOUS
  <2>1. {d \in D : kind[d] = "file"} = {"main", "att"}
    BY <1>4 DEF Domains
  <2>2. Cardinality({"main"} \cup {"att"}) = 2
    <3>1. IsFiniteSet({"main"}) /\ Cardinality({"main"}) = 1 /\ "att" \notin {"main"}
      BY FS_Singleton
    <3>2. Cardinality({"main"} \cup {"att"}) = Cardinality({"main"}) + 1
      BY <3>1, FS_AddElement, Zenon
    <3> QED BY <3>1, <3>2
  <2>3. {"main", "att"} = {"main"} \cup {"att"}
    OBVIOUS
  <2> QED BY <1>1, <2>1, <2>2, <2>3
<1>11. start = "check" => "att" \in D
  BY DEF start
<1>12. start = "watermark" => "main" \in D /\ "att" \notin D
  BY <1>1, <1>4 DEF start, Domains
<1>13. /\ ~Adopting' /\ ~Staged' /\ \A d \in Domains : ~Packed(d)'
       /\ ~Adopting /\ ~Staged /\ \A d \in Domains : ~Packed(d)
  BY <1>1, <1>4, <1>5, <1>12 DEF Adopting, Staged, Packed, Packing, Domains
<1>14. Stages'
  BY <1>1, <1>4, <1>5, <1>10, <1>11, <1>12, <1>13 DEF Stages
<1>15. Watermark'
  BY <1>1, <1>2, <1>3, <1>5, OldestEffect, RegistryEffect DEF Watermark
<1>16. Gens'
  BY <1>1, <1>13 DEF GateInv, Gens, Apart, Domains
<1>17. Final'
  BY <1>4, <1>5, <1>12 DEF Final
<1>18. Readable'
  BY <1>1, <1>13 DEF GateInv, Readable, Reads
<1>19. Bounds'
  BY <1>1, <1>13 DEF GateInv, Bounds, Top, Below
<1>20. Lists'
  BY <1>1, <1>13 DEF GateInv, Lists, Apart, Domains
<1>21. GateInv'
  BY <1>9, <1>14, <1>15, <1>16, <1>17, <1>18, <1>19, <1>20 DEF GateInv
<1>22. PinInv => PinInv'
  <2> SUFFICES ASSUME PinInv PROVE PinInv'
    OBVIOUS
  <2>1. PinnedSnapshotsStable'
    BY <1>1 DEF PinInv, PinnedSnapshotsStable, Reads
  <2> QED BY <1>1, <1>4, <1>5, <1>13, <2>1 DEF PinInv, Top, Below, Apart
<1> QED BY <1>21, <1>22

\* The writer reads the registry and goes on: nothing else changes.
LEMMA ReadStep ==
    ASSUME GateInv, UNCHANGED Store, w' \in Writers,
           \/ w.phase = "gate" /\ w'.phase = "att"
           \/ w.phase = "watermark" /\ w'.phase = "persist"
           \/ w.phase = "adopt" /\ w'.phase = "adopting",
           /\ w'.dirty = w.dirty /\ w'.n = w.n /\ w'.repair = w.repair /\ w'.new = w.new
           /\ w'.high = w.high /\ w'.rest = w.rest,
           Watermark', Final'
    PROVE  /\ GateInv'
           /\ Adopting' = Adopting /\ Staged' = Staged
           /\ \A d \in Domains : Packed(d)' = Packed(d)
<1>1. /\ Adopting' = Adopting /\ Staged' = Staged
      /\ \A d \in Domains : Packed(d)' = Packed(d)
  BY DEF Adopting, Staged, Packed, Packing, Store
<1>2. Types'
  BY DEF GateInv, Types, TypeOK, Writers, Store
<1>3. Stages'
  BY <1>1 DEF GateInv, Stages, Store
<1>4. Gens'
  BY <1>1 DEF GateInv, Gens, Apart, Domains, Store
<1>5. Readable'
  BY <1>1 DEF GateInv, Readable, Reads, Store
<1>6. Bounds'
  BY <1>1 DEF GateInv, Bounds, Top, NewTop, Below, Store
<1>7. Lists'
  BY <1>1 DEF GateInv, Lists, Apart, Domains, Store
<1> QED BY <1>1, <1>2, <1>3, <1>4, <1>5, <1>6, <1>7 DEF GateInv

\* The same for what the pins add.
LEMMA ReadStepPinned ==
    ASSUME PinInv, UNCHANGED Store, w'.high = w.high, w'.rest = w.rest,
           Adopting' = Adopting, Staged' = Staged,
           w'.phase \in {"att", "adopting"} /\ w'.reclaim =>
                \A h \in Holders : pins[h] # NoPin => pins[h].snap["att"] = roots["att"]
    PROVE  PinInv'
<1>1. PinnedSnapshotsStable'
  BY DEF PinInv, PinnedSnapshotsStable, Reads, Store
<1> QED BY <1>1 DEF PinInv, Top, Below, Apart, Store

\* The attachment's gate: whether anybody is pinned.
LEMMA ReadGateSafe ==
    ASSUME GateInv, ReadGate
    PROVE  GateInv' /\ (PinInv => PinInv')
<1>1. /\ w.phase = "gate" /\ UNCHANGED Store
      /\ w' = [w EXCEPT !.phase = "att", !.reclaim = ~HasLiveReaders, !.compact = CanCompactCommitted]
  BY DEF ReadGate, store, Store
<1>2. (~HasLiveReaders) \in BOOLEAN /\ CanCompactCommitted \in BOOLEAN /\ w \in Writers
  BY DEF GateInv, Types, CanCompactCommitted
<1>3. /\ w' \in Writers /\ w'.phase = "att" /\ (w'.reclaim <=> ~HasLiveReaders)
      /\ (w'.compact <=> CanCompactCommitted) /\ w'.oldest = w.oldest
      /\ w'.dirty = w.dirty /\ w'.n = w.n /\ w'.repair = w.repair /\ w'.new = w.new
      /\ w'.high = w.high /\ w'.rest = w.rest
  BY <1>1, <1>2 DEF Writers, Phases
<1>4. Watermark'
  BY <1>1, <1>3, RegistryEffect DEF GateInv, Watermark, Store
<1>5. FitsWith(TRUE)' = FitsWith(TRUE) /\ FitsWith(FALSE)' = FitsWith(FALSE)
  BY <1>1, <1>3, FitsFrame DEF Store
<1>6. Final'
  BY <1>1, <1>3, <1>5 DEF GateInv, Final, Store
<1>7. GateInv' /\ Adopting' = Adopting /\ Staged' = Staged
  BY <1>1, <1>3, <1>4, <1>6, ReadStep
<1>8. PinInv => PinInv'
  BY <1>1, <1>3, <1>7, ReadStepPinned, RegistryEffect
<1> QED BY <1>7, <1>8

\* persist's reading of the watermark, before the storage lock.
LEMMA ReadWatermarkSafe ==
    ASSUME GateInv, ReadWatermark
    PROVE  GateInv' /\ (PinInv => PinInv')
<1>1. /\ w.phase = "watermark" /\ UNCHANGED Store
      /\ w' = [w EXCEPT !.phase = "persist", !.oldest = OldestLive(version + 1),
                        !.compact = CanCompactCommitted]
  BY DEF ReadWatermark, store, Store
<1>2. Types /\ CanCompactCommitted \in BOOLEAN /\ w \in Writers
  BY DEF GateInv, Types, CanCompactCommitted
<1>3. /\ OldestLive(version + 1) \in Nat
      /\ \A h \in Holders : pins[h] # NoPin => pins[h].ver >= OldestLive(version + 1)
      /\ \A b \in Nat : b <= version + 1 /\ (\A h \in Holders : pins[h] # NoPin => pins[h].ver >= b)
                => OldestLive(version + 1) >= b
  BY <1>2, OldestEffect
<1>4. /\ w' \in Writers /\ w'.phase = "persist" /\ w'.oldest = OldestLive(version + 1)
      /\ (w'.compact <=> CanCompactCommitted)
      /\ w'.dirty = w.dirty /\ w'.n = w.n /\ w'.repair = w.repair /\ w'.new = w.new
      /\ w'.high = w.high /\ w'.rest = w.rest
  BY <1>1, <1>2, <1>3 DEF Writers, Phases
<1>5. Watermark'
  BY <1>1, <1>3, <1>4, RegistryEffect DEF GateInv, Watermark, Store
<1>6. FitsWith(TRUE)' = FitsWith(TRUE) /\ FitsWith(FALSE)' = FitsWith(FALSE)
  BY <1>1, <1>4, FitsFrame DEF Store
<1>7. freeGen \in Nat /\ freeGen <= version + 1
  BY DEF GateInv, Types, TypeOK, Gens
<1>8. (\A h \in Holders : pins[h] # NoPin => pins[h].ver >= freeGen) => w'.oldest >= freeGen
  BY <1>3, <1>4, <1>7
<1>9. Final'
  BY <1>1, <1>4, <1>6, <1>8 DEF GateInv, Final, Store
<1>10. GateInv' /\ Adopting' = Adopting /\ Staged' = Staged
  BY <1>1, <1>4, <1>5, <1>9, ReadStep
<1>11. PinInv => PinInv'
  BY <1>1, <1>4, <1>10, ReadStepPinned
<1> QED BY <1>10, <1>11

\* adopt_attachments' reading of the registry, after the publish.
LEMMA ReadRegistrySafe ==
    ASSUME GateInv, ReadRegistry
    PROVE  GateInv' /\ (PinInv => PinInv')
<1>1. /\ w.phase = "adopt" /\ UNCHANGED Store
      /\ w' = [w EXCEPT !.phase = "adopting", !.reclaim = ~HasLiveReaders]
  BY DEF ReadRegistry, store, Store
<1>2. (~HasLiveReaders) \in BOOLEAN /\ w \in Writers
  BY DEF GateInv, Types
<1>3. /\ w' \in Writers /\ w'.phase = "adopting" /\ (w'.reclaim <=> ~HasLiveReaders)
      /\ w'.dirty = w.dirty /\ w'.n = w.n /\ w'.repair = w.repair /\ w'.new = w.new
      /\ w'.high = w.high /\ w'.rest = w.rest
  BY <1>1, <1>2 DEF Writers, Phases
<1>4. Watermark' /\ Final'
  BY <1>3 DEF Watermark, Final
<1>5. GateInv' /\ Adopting' = Adopting /\ Staged' = Staged
  BY <1>1, <1>3, <1>4, ReadStep
<1>6. PinInv => PinInv'
  BY <1>1, <1>3, <1>5, ReadStepPinned, RegistryEffect
<1> QED BY <1>5, <1>6

-----------------------------------------------------------------------------
(* The precheck, and the ends of a commit.                                 *)

\* Before main is written its list belongs to the published generation.
LEMMA MainListed ==
    ASSUME GateInv, w.phase # "publish"
    PROVE  /\ freeGen <= version /\ freeGen \in Nat /\ version \in Nat
           /\ Apart(free["main"], roots["main"])
BY DEF GateInv, Types, TypeOK, Gens, Lists, Packed

\* A plan the watermark lets reuse main's list overwrites nothing a pin reads.
LEMMA ReuseSafe ==
    ASSUME GateInv, w.phase \in {"check", "gate", "att", "watermark", "persist"}, CanReuse,
           NEW h \in Holders
    PROVE  Apart(free["main"], pins[h].snap["main"]) /\ (pins[h] # NoPin => pins[h].ver >= freeGen)
<1>1. freeGen <= version /\ freeGen \in Nat /\ version \in Nat /\ w.oldest >= freeGen
  BY MainListed DEF CanReuse
<1>2. pins[h].ver \in Nat /\ w.oldest \in Nat
  BY DEF GateInv, Types, TypeOK, Writers
<1>3. CASE pins[h] = NoPin
  BY <1>3 DEF NoPin, Apart, Domains
<1>4. CASE pins[h] # NoPin
  <2>1. pins[h].ver >= freeGen
    BY <1>1, <1>2, <1>4 DEF GateInv, Watermark
  <2> QED BY <2>1 DEF GateInv, Gens
<1> QED BY <1>3, <1>4

\* A forced compaction of main happens only when every pin is of the published
\* version: the rebuilt list names none of its pages.
LEMMA ForcedSafe ==
    ASSUME GateInv, w.phase \in {"check", "gate", "att", "watermark", "persist"},
           NEW reuse \in BOOLEAN, Forces("main", reuse), NEW h \in Holders
    PROVE  /\ Apart(ListAfter("main", reuse), pins[h].snap["main"])
           /\ pins[h] # NoPin => pins[h].ver >= version
<1>1. w.compact
  BY DEF Forces
<1>2. CASE pins[h] = NoPin
  BY <1>2 DEF NoPin, Apart, Domains
<1>3. CASE pins[h] # NoPin
  <2>1. pins[h].ver >= version /\ pins[h].ver <= version /\ version \in Nat /\ pins[h].ver \in Nat
    BY <1>1, <1>3 DEF GateInv, Watermark, Gens, Types, TypeOK
  <2>2. pins[h].snap["main"] = roots["main"]
    BY <2>1 DEF GateInv, Gens
  <2>3. Apart(ListAfter("main", reuse), roots["main"])
    <3>1. "main" \in Domains /\ Types /\ Apart(free["main"], roots["main"])
          /\ \A p \in free["main"] : p < pc["main"]
      BY MainListed DEF GateInv, Bounds, Domains
    <3> QED BY <3>1, MemoryPlanEffect
  <2> QED BY <2>1, <2>2, <2>3
<1> QED BY <1>2, <1>3

\* Where a domain's list stands when the precheck or a rejection has planned it.
LEMMA PlannedList ==
    ASSUME GateInv, w.phase \in {"check", "att", "persist"}, NEW reuse \in BOOLEAN
    PROVE  /\ GenAfter("main", reuse) \in Nat /\ GenAfter("main", reuse) <= version
           /\ \A h \in Holders : pins[h].ver >= GenAfter("main", reuse)
                => Apart(ListAfter("main", reuse), pins[h].snap["main"])
<1>1. freeGen <= version /\ freeGen \in Nat /\ version \in Nat
  BY MainListed
<1>2. CASE Forces("main", reuse)
  <2>1. GenAfter("main", reuse) = version
    BY <1>2 DEF GenAfter
  <2> QED BY <1>1, <1>2, <2>1, ForcedSafe
<1>3. CASE ~Forces("main", reuse)
  <2>1. GenAfter("main", reuse) = freeGen /\ ListAfter("main", reuse) = free["main"]
    BY <1>3 DEF GenAfter, ListAfter
  <2> QED BY <1>1, <2>1 DEF GateInv, Gens
<1> QED BY <1>2, <1>3

\* Once the transaction passed the precheck, main's plan is admitted.
LEMMA AdmittedMain ==
    ASSUME GateInv
    PROVE  PrecheckIsFinal
<1> SUFFICES ASSUME "att" \in w.dirty, w.phase = "persist", kind["main"] = "memory"
             PROVE  Admits("main", CanReuse)
  BY DEF PrecheckIsFinal
<1>1. "main" \in w.dirty /\ Types /\ Final
  BY DEF GateInv, Stages
<1>2. CASE "main" \in w.repair
  BY <1>2 DEF Admits
<1>3. CASE FitsWith(CanReuse)
  <2>1. ~Forces("main", CanReuse)
    BY <1>3 DEF Forces, FitsWith
  <2>2. MemoryPlan("main", CanReuse) = PlanOf("main", free["main"], CanReuse)
    BY <2>1 DEF MemoryPlan
  <2> QED BY <1>3, <2>2 DEF Admits, FitsWith
<1>4. CASE FitsWith(FALSE)
  <2>1. CanReuse \in BOOLEAN
    BY DEF CanReuse
  <2> QED BY <1>1, <1>3, <1>4, <2>1, ReuseNeedsLess
<1>5. CASE FitsWith(TRUE) /\ w.oldest >= freeGen
  <2>1. CanReuse = TRUE
    BY <1>5 DEF CanReuse
  <2> QED BY <1>3, <1>5, <2>1
<1> QED BY <1>1, <1>2, <1>4, <1>5 DEF Final

\* precheck_budgets.
LEMMA PrecheckSafe ==
    ASSUME GateInv, Precheck
    PROVE  GateInv' /\ ("att" \notin Limited /\ PinInv => PinInv')
<1> DEFINE reuse == [d \in Domains |-> d = "att" \/ CanReuse]
           planned == IF "att" \in Prechecked /\ ~Admits("att", TRUE) THEN {"att"} ELSE Prechecked
<1>1. /\ w.phase = "check"
      /\ free' = [d \in Domains |-> IF d \in planned THEN ListAfter(d, reuse[d]) ELSE free[d]]
      /\ freeGen' = IF "main" \in planned THEN GenAfter("main", CanReuse) ELSE freeGen
      /\ w' = IF \E d \in planned : ~Admits(d, reuse[d]) THEN Idle ELSE [w EXCEPT !.phase = "gate"]
      /\ UNCHANGED <<kind, roots, version, pins, poisoned, stamp, disk, pc, last>>
  BY DEF Precheck
<1>2. Types /\ w \in Writers /\ "att" \in Domains /\ "main" \in Domains /\ CanReuse \in BOOLEAN
  BY DEF GateInv, Types, Domains, CanReuse
<1>3. \A d \in Domains : reuse[d] \in BOOLEAN
  BY <1>2
<1>4. reuse["main"] = CanReuse /\ reuse["att"] = TRUE
  BY <1>2
<1>5. planned \subseteq Domains /\ planned \subseteq Prechecked
  <2>1. planned \subseteq Prechecked
    OBVIOUS
  <2> HIDE DEF planned
  <2> QED BY <1>2, <2>1 DEF Prechecked, Writers
<1>6. ~Adopting /\ ~Staged /\ \A d \in Domains : ~Packed(d)
  BY <1>1 DEF Adopting, Staged, Packed, Packing
<1>7. \A d \in Domains : /\ Apart(free[d], roots[d]) /\ Below(roots[d], pc[d])
                         /\ \A p \in free[d] : p < pc[d]
  BY <1>1, <1>6, MainListed DEF GateInv, Lists, Bounds, Top, Domains
<1> HIDE DEF reuse, planned
<1>8. \A d \in Domains : /\ ListAfter(d, reuse[d]) \in SUBSET Body
                         /\ Apart(ListAfter(d, reuse[d]), roots[d])
                         /\ \A p \in ListAfter(d, reuse[d]) : p < pc[d]
  BY <1>2, <1>3, <1>7, MemoryPlanEffect
<1>9. \A d \in Domains : /\ free'[d] \in SUBSET Body /\ Apart(free'[d], roots[d])
                         /\ \A p \in free'[d] : p < pc[d]
  BY <1>1, <1>2, <1>7, <1>8 DEF Types, TypeOK
<1>10. free'["main"] = IF "main" \in planned THEN ListAfter("main", CanReuse) ELSE free["main"]
  BY <1>1, <1>2, <1>4
<1>11. /\ freeGen' \in Nat /\ freeGen' <= version
       /\ \A h \in Holders : pins[h].ver >= freeGen' => Apart(free'["main"], pins[h].snap["main"])
  <2>1. CASE "main" \in planned
    BY <1>1, <1>2, <1>10, <2>1, PlannedList
  <2>2. CASE "main" \notin planned
    <3>1. freeGen' = freeGen /\ free'["main"] = free["main"]
      BY <1>1, <1>10, <2>2
    <3> QED BY <1>1, <3>1, MainListed DEF GateInv, Gens
  <2> QED BY <2>1, <2>2
<1>12. "att" \notin Limited => free'["att"] = free["att"]
  <2>1. "att" \notin Limited => "att" \notin planned
    BY <1>5 DEF Prechecked
  <2> QED BY <1>1, <1>2, <2>1
<1>13. w' \in Writers
  BY <1>1, <1>2, IdleRecord DEF Writers, Phases
<1>14. Types'
  BY <1>1, <1>2, <1>9, <1>11, <1>13 DEF Types, TypeOK, Writers
<1>15. CASE \E d \in planned : ~Admits(d, reuse[d])
  <2>1. w'.phase = "idle" /\ w'.dirty = {}
    BY <1>1, <1>15, IdleRecord
  <2>2. \A d \in Domains : \A e \in roots'[d] : disk'[d][e[1]] = e[2]
    BY <1>1 DEF GateInv, Readable, Reads
  <2>3. GateInv'
    <3>1. \A h \in Holders : /\ pins[h].ver <= version
                             /\ pins[h].ver = version => pins[h].snap["main"] = roots["main"]
      BY DEF GateInv, Gens
    <3> QED BY <1>1, <1>7, <1>9, <1>11, <1>14, <2>1, <2>2, <3>1, IdleStep
  <2>4. ASSUME "att" \notin Limited, PinInv PROVE PinInv'
    <3>1. \A h \in Holders, d \in Domains :
                /\ \A e \in pins'[h].snap[d] : disk'[d][e[1]] = e[2]
                /\ Below(pins'[h].snap[d], pc'[d])
      BY <1>1, <1>6, <2>4 DEF PinInv, PinnedSnapshotsStable, Reads, Top
    <3>2. kind'["att"] = "memory" => \A h \in Holders : Apart(free'["att"], pins'[h].snap["att"])
      BY <1>1, <1>6, <1>12, <2>4 DEF PinInv
    <3> QED BY <2>1, <3>1, <3>2, IdleStepPinned
  <2> QED BY <2>3, <2>4
<1>16. CASE \A d \in planned : Admits(d, reuse[d])
  <2>1. w' = [w EXCEPT !.phase = "gate"]
    BY <1>1, <1>16
  <2>2. /\ w'.phase = "gate" /\ w'.dirty = w.dirty /\ w'.n = w.n /\ w'.repair = w.repair
        /\ w'.oldest = w.oldest /\ (w'.compact <=> w.compact) /\ w'.rest = w.rest
    BY <1>2, <2>1 DEF Writers
  <2>3. ~Adopting' /\ ~Staged' /\ \A d \in Domains : ~Packed(d)'
    BY <2>2 DEF Adopting, Staged, Packed, Packing
  <2>4. Stages'
    BY <1>1, <2>2, <2>3 DEF GateInv, Stages
  <2>5. Watermark'
    BY <1>1, <2>2 DEF GateInv, Watermark
  <2>6. Gens'
    BY <1>1, <1>11 DEF GateInv, Gens
  <2>7. Readable'
    BY <1>1, <2>3 DEF GateInv, Readable, Reads
  <2>8. Bounds'
    BY <1>1, <1>7, <1>9, <2>3 DEF Bounds, Top
  <2>9. Lists'
    BY <1>1, <1>2, <1>9, <2>3 DEF Lists
  <2>10. Final'
    <3> SUFFICES ASSUME "main" \in w.dirty, kind["main"] = "memory", "main" \notin w.repair
                 PROVE  \/ FitsWith(FALSE)'
                        \/ /\ FitsWith(TRUE)'
                           /\ \A h \in Holders : pins[h] # NoPin => pins[h].ver >= freeGen'
      BY <1>1, <2>2 DEF Final
    <3>1. ASSUME NEW L, L = free'["main"]
          PROVE  /\ FitsWith(TRUE)' <=> Fits("main", PlanOf("main", L, TRUE).high)
                 /\ FitsWith(FALSE)' <=> Fits("main", PlanOf("main", L, FALSE).high)
      BY <1>1, <2>2, <3>1 DEF FitsWith, Fits, PlanOf
    <3>2. CASE "main" \notin Limited
      BY <3>1, <3>2 DEF Fits
    <3>3. CASE "main" \in Limited
      <4>1. "main" \in planned
        <5>1. ~("att" \in Prechecked /\ ~Admits("att", TRUE))
          BY <1>4, <1>16 DEF planned
        <5> QED BY <3>3, <5>1 DEF planned, Prechecked
      <4>2. Fits("main", MemoryPlan("main", CanReuse).high)
        BY <1>4, <1>16, <4>1 DEF Admits
      <4>3. CASE Forces("main", CanReuse)
        <5>1. free'["main"] = Rebuilt("main") /\ freeGen' = version
          BY <1>1, <1>10, <4>1, <4>3 DEF ListAfter, GenAfter
        <5>2. MemoryPlan("main", CanReuse) = PlanOf("main", Rebuilt("main"), TRUE)
          BY <4>3 DEF MemoryPlan
        <5>3. FitsWith(TRUE)'
          BY <3>1, <4>2, <5>1, <5>2
        <5> QED BY <1>1, <1>2, <4>3, <5>1, <5>3, ForcedSafe
      <4>4. CASE ~Forces("main", CanReuse)
        <5>1. free'["main"] = free["main"] /\ freeGen' = freeGen
          BY <1>1, <1>10, <4>1, <4>4 DEF ListAfter, GenAfter
        <5>2. MemoryPlan("main", CanReuse) = PlanOf("main", free["main"], CanReuse)
          BY <4>4 DEF MemoryPlan
        <5>3. CASE CanReuse
          <6>1. PlanOf("main", free["main"], CanReuse) = PlanOf("main", free["main"], TRUE)
            BY <5>3 DEF PlanOf
          <6>2. FitsWith(TRUE)'
            BY <3>1, <4>2, <5>1, <5>2, <6>1
          <6> QED BY <1>1, <5>1, <5>3, <6>2, ReuseSafe
        <5>4. CASE ~CanReuse
          <6>1. PlanOf("main", free["main"], CanReuse) = PlanOf("main", free["main"], FALSE)
            BY <5>4 DEF PlanOf
          <6> QED BY <3>1, <4>2, <5>1, <5>2, <6>1
        <5> QED BY <5>3, <5>4
      <4> QED BY <4>3, <4>4
    <3> QED BY <3>2, <3>3
  <2>11. GateInv'
    BY <1>14, <2>4, <2>5, <2>6, <2>7, <2>8, <2>9, <2>10 DEF GateInv
  <2>12. ASSUME "att" \notin Limited, PinInv PROVE PinInv'
    <3>1. PinnedSnapshotsStable'
      BY <1>1, <2>12 DEF PinInv, PinnedSnapshotsStable, Reads
    <3> QED BY <1>1, <1>6, <1>12, <2>2, <2>3, <2>12, <3>1 DEF PinInv, Top
  <2> QED BY <2>11, <2>12
<1> QED BY <1>15, <1>16

\* A commit over the limit is rejected where it is planned: only where nothing
\* is packed, because the precheck is final.
LEMMA RejectSafe ==
    ASSUME GateInv, NEW d \in Domains, Reject(d)
    PROVE  GateInv' /\ ("att" \notin Limited /\ PinInv => PinInv')
<1> DEFINE reuse == d = "att" \/ CanReuse
<1>1. /\ Committing(d) /\ kind[d] = "memory" /\ ~Admits(d, reuse)
      /\ free' = [free EXCEPT ![d] = ListAfter(d, reuse)] /\ freeGen' = GenAfter(d, reuse)
      /\ w' = Idle
      /\ UNCHANGED <<kind, roots, version, pins, poisoned, stamp, disk, pc, last>>
  BY DEF Reject
<1>2. Types /\ reuse \in BOOLEAN /\ w.phase \in {"att", "persist"}
  BY <1>1 DEF GateInv, CanReuse, Committing
<1>3. ~Adopting /\ ~Packed("main") /\ ~Packed("att")
  <2>1. CASE w.phase = "att"
    BY <2>1 DEF Adopting, Packed, Packing
  <2>2. CASE w.phase = "persist"
    <3>1. d = "main"
      BY <1>1, <2>2 DEF Committing, Domains
    <3>2. reuse <=> CanReuse
      BY <3>1
    <3>3. reuse = CanReuse
      BY <3>2 DEF CanReuse
    <3>4. ~Admits("main", CanReuse) /\ kind["main"] = "memory"
      BY <1>1, <3>1, <3>3
    <3>5. "att" \notin w.dirty
      BY <2>2, <3>4, AdmittedMain DEF PrecheckIsFinal
    <3> QED BY <2>2, <3>5 DEF Adopting, Packed
  <2> QED BY <1>2, <2>1, <2>2
<1>4. \A e \in Domains : /\ Apart(free[e], roots[e]) /\ Below(roots[e], pc[e])
                         /\ \A p \in free[e] : p < pc[e]
  BY <1>2, <1>3, MainListed DEF GateInv, Lists, Bounds, Top, Domains
<1> HIDE DEF reuse
<1>5. /\ ListAfter(d, reuse) \in SUBSET Body /\ Apart(ListAfter(d, reuse), roots[d])
      /\ \A p \in ListAfter(d, reuse) : p < pc[d]
  BY <1>2, <1>4, MemoryPlanEffect
<1>6. free \in [Domains -> SUBSET Body]
  BY <1>2 DEF Types, TypeOK
<1>7. free' \in [Domains -> SUBSET Body]
  BY <1>1, <1>5, <1>6
<1>8. \A e \in Domains : Apart(free'[e], roots[e]) /\ \A p \in free'[e] : p < pc[e]
  <2>1. \A e \in Domains : free'[e] = IF e = d THEN ListAfter(d, reuse) ELSE free[e]
    BY <1>1, <1>6
  <2> QED BY <1>4, <1>5, <2>1
<1>9. /\ freeGen' \in Nat /\ freeGen' <= version
      /\ \A h \in Holders : pins[h].ver >= freeGen' => Apart(free'["main"], pins[h].snap["main"])
  <2>1. CASE d = "main"
    <3>1. free'["main"] = ListAfter("main", reuse) /\ freeGen' = GenAfter("main", reuse)
      BY <1>1, <1>6, <2>1
    <3> QED BY <1>2, <3>1, PlannedList
  <2>2. CASE d # "main"
    <3>1. free'["main"] = free["main"] /\ freeGen' = freeGen
      BY <1>1, <1>6, <2>2 DEF Domains, GenAfter
    <3> QED BY <1>2, <3>1, MainListed DEF GateInv, Gens
  <2> QED BY <2>1, <2>2
<1>10. Types'
  BY <1>1, <1>2, <1>7, <1>9, IdleRecord DEF Types, TypeOK, Writers
<1>11. w'.phase = "idle" /\ w'.dirty = {}
  BY <1>1, IdleRecord
<1>12. \A e \in Domains : \A x \in roots'[e] : disk'[e][x[1]] = x[2]
  BY <1>1 DEF GateInv, Readable, Reads
<1>13. \A h \in Holders : /\ pins[h].ver <= version
                          /\ pins[h].ver = version => pins[h].snap["main"] = roots["main"]
  BY DEF GateInv, Gens
<1>14. GateInv'
  BY <1>1, <1>4, <1>8, <1>9, <1>10, <1>11, <1>12, <1>13, IdleStep
<1>15. ASSUME "att" \notin Limited, PinInv PROVE PinInv'
  <2>1. free'["att"] = free["att"]
    <3>1. ~Forces("att", reuse)
      BY <1>15 DEF Forces, Fits
    <3> QED BY <1>1, <1>6, <3>1 DEF ListAfter, Domains
  <2>2. \A h \in Holders, e \in Domains :
              /\ \A x \in pins'[h].snap[e] : disk'[e][x[1]] = x[2]
              /\ Below(pins'[h].snap[e], pc'[e])
    BY <1>1, <1>3, <1>15 DEF PinInv, PinnedSnapshotsStable, Reads, Top
  <2>3. kind'["att"] = "memory" => \A h \in Holders : Apart(free'["att"], pins'[h].snap["att"])
    BY <1>1, <1>3, <1>15, <2>1 DEF PinInv
  <2> QED BY <1>11, <2>2, <2>3, IdleStepPinned
<1> QED BY <1>14, <1>15

\* A file commit fails: what it may have torn was free to reuse.
LEMMA CommitFailsSafe ==
    ASSUME GateInv, NEW d \in Domains, CommitFails(d)
    PROVE  GateInv' /\ (PinInv => PinInv')
<1>1. PICK torn \in SUBSET free[d] :
        /\ torn = {} \/ IF d = "att" THEN w.reclaim ELSE CanReuse
        /\ Write(d, torn, 0)
  BY DEF CommitFails
<1>2. /\ Committing(d) /\ kind[d] = "file" /\ w' = Idle /\ poisoned' = poisoned \cup {d}
      /\ UNCHANGED <<kind, roots, version, pins, stamp, pc, free, freeGen, last>>
  BY DEF CommitFails
<1>3. Types /\ w.phase \in {"att", "persist"}
  BY <1>2 DEF GateInv, Committing
<1>4. ~Adopting /\ ~Packed("main") /\ ~(kind["att"] = "file" /\ Packed("att"))
  <2>1. CASE w.phase = "att"
    BY <2>1 DEF Adopting, Packed, Packing
  <2>2. CASE w.phase = "persist"
    <3>1. d = "main" /\ "main" \in w.dirty
      BY <1>2, <2>2 DEF Committing, Domains, GateInv, Stages
    <3> QED BY <1>2, <2>2, <3>1 DEF Adopting, Packed, GateInv, Stages
  <2> QED BY <1>3, <2>1, <2>2
<1>5. \A e \in Domains : /\ Apart(free[e], roots[e]) /\ Below(roots[e], pc[e])
                         /\ \A p \in free[e] : p < pc[e]
  BY <1>3, <1>4, MainListed DEF GateInv, Lists, Bounds, Top, Domains
<1>6. torn \in SUBSET Body /\ 0 \in 0 .. MaxStamp
  BY <1>3, GateAssumption DEF Types, TypeOK
<1>7. disk' \in [Domains -> [Body -> 0 .. MaxStamp]] /\ Changes(d, torn)
  BY <1>1, <1>3, <1>6, WriteEffect
<1>8. Types'
  BY <1>2, <1>3, <1>7, IdleRecord DEF Types, TypeOK, Writers
<1>9. w'.phase = "idle" /\ w'.dirty = {}
  BY <1>2, IdleRecord
<1>10. roots \in Snapshots /\ pins \in [Holders -> [ver : Nat, snap : Snapshots]]
  BY <1>3 DEF Types, TypeOK
<1>11. \A e \in Domains : \A x \in roots'[e] : disk'[e][x[1]] = x[2]
  <2> SUFFICES ASSUME NEW e \in Domains PROVE \A x \in roots[e] : disk'[e][x[1]] = x[2]
    BY <1>2
  <2>1. PICK snap \in SUBSET Entries : snap = roots[e]
    BY <1>10 DEF Snapshots
  <2>2. Reads(e, snap) /\ (e = d => Below(snap, pc[d]) /\ Apart(free[d], snap))
    BY <1>5, <2>1 DEF GateInv, Readable
  <2>3. Reads(e, snap)'
    BY <1>3, <1>7, <2>2, KeepsReading
  <2> QED BY <2>1, <2>3 DEF Reads
<1>12. \A h \in Holders : /\ pins[h].ver <= version
                          /\ pins[h].ver = version => pins[h].snap["main"] = roots["main"]
                          /\ pins[h].ver >= freeGen => Apart(free["main"], pins[h].snap["main"])
  BY DEF GateInv, Gens
<1>13. freeGen <= version
  BY <1>3, MainListed
<1>14. GateInv'
  BY <1>2, <1>5, <1>8, <1>9, <1>11, <1>12, <1>13, IdleStep
<1>15. ASSUME PinInv PROVE PinInv'
  <2>1. \A h \in Holders : Apart(torn, pins[h].snap[d])
    <3> SUFFICES ASSUME NEW h \in Holders PROVE Apart(torn, pins[h].snap[d])
      OBVIOUS
    <3>1. CASE torn = {}
      BY <3>1 DEF Apart
    <3>2. CASE d = "att" /\ w.reclaim
      <4>1. pins[h].snap["att"] = roots["att"] \/ pins[h].snap["att"] = {}
        BY <1>2, <1>15, <3>2 DEF PinInv, NoPin, Committing, Domains
      <4> QED BY <1>5, <3>2, <4>1 DEF Apart
    <3>3. CASE d = "main" /\ CanReuse
      BY <1>3, <3>3, ReuseSafe DEF Apart
    <3> QED BY <1>1, <3>1, <3>2, <3>3 DEF Domains
  <2>2. \A h \in Holders, e \in Domains :
              /\ \A x \in pins'[h].snap[e] : disk'[e][x[1]] = x[2]
              /\ Below(pins'[h].snap[e], pc'[e])
    <3> SUFFICES ASSUME NEW h \in Holders, NEW e \in Domains
                 PROVE  /\ \A x \in pins[h].snap[e] : disk'[e][x[1]] = x[2]
                        /\ Below(pins[h].snap[e], pc[e])
      BY <1>2
    <3>1. PICK snap \in SUBSET Entries : snap = pins[h].snap[e]
      BY <1>10 DEF Snapshots
    <3>2. Reads(e, snap) /\ Below(snap, pc[e])
      BY <1>4, <1>15, <3>1 DEF PinInv, PinnedSnapshotsStable, Top
    <3>3. e = d => Apart(torn, snap)
      BY <2>1, <3>1
    <3>4. Reads(e, snap)'
      BY <1>3, <1>7, <3>2, <3>3, KeepsReading
    <3> QED BY <3>1, <3>2, <3>4 DEF Reads
  <2>3. kind'["att"] = "memory" => \A h \in Holders : Apart(free'["att"], pins'[h].snap["att"])
    BY <1>2, <1>4, <1>15 DEF PinInv
  <2> QED BY <1>9, <2>2, <2>3, IdleStepPinned
<1> QED BY <1>14, <1>15

\* publish, publish_attached.
LEMMA PublishSafe ==
    ASSUME GateInv, Publish
    PROVE  GateInv' /\ (PinInv => PinInv')
<1>1. /\ w.phase = "publish"
      /\ roots' = [d \in Domains |-> IF d \in w.dirty THEN w.new[d] ELSE roots[d]]
      /\ version' = IF "main" \in w.dirty THEN version + 1 ELSE version
      /\ w' = IF "att" \in w.dirty /\ kind["att"] = "memory"
              THEN [w EXCEPT !.phase = "adopt"] ELSE Idle
      /\ UNCHANGED <<kind, disk, pins, pc, free, freeGen, last, poisoned, stamp>>
  BY DEF Publish, store
<1>2. /\ Types /\ w \in Writers /\ "att" \in Domains /\ "main" \in Domains
      /\ roots \in Snapshots /\ w.new \in Snapshots /\ version \in Nat /\ freeGen \in Nat
  BY DEF GateInv, Types, TypeOK, Writers, Domains
<1>3. roots' \in Snapshots
  BY <1>1, <1>2 DEF Snapshots
<1>4. version' \in Nat /\ version' >= version
  BY <1>1, <1>2
<1>5. w' \in Writers
  BY <1>1, <1>2, IdleRecord DEF Writers, Phases
<1>6. Types'
  <2>1. w'.phase \in Phases /\ w'.dirty \subseteq Domains /\ w'.new \in Snapshots
    BY <1>5 DEF Writers
  <2>2. version' >= 1
    BY <1>2, <1>4 DEF Types
  <2>3. TypeOK'
    BY <1>1, <1>2, <1>3, <1>4, <2>1 DEF Types, TypeOK
  <2> QED BY <1>5, <2>2, <2>3 DEF Types
<1>7. ~Adopting /\ \A d \in Domains : Packed(d) <=> d \in w.dirty
  BY <1>1 DEF Adopting, Packed, Packing
<1>8. \A d \in Domains : roots'[d] = IF d \in w.dirty THEN w.new[d] ELSE roots[d]
  BY <1>1
<1>9. \A d \in Domains : \A e \in roots'[d] : disk'[d][e[1]] = e[2]
  BY <1>1, <1>7, <1>8 DEF GateInv, Readable, Reads
<1>10. freeGen' <= version' /\ freeGen' = freeGen
  BY <1>1, <1>2, <1>7 DEF GateInv, Gens
<1>11. \A h \in Holders :
        /\ pins'[h].ver <= version'
        /\ pins'[h].ver = version' => pins'[h].snap["main"] = roots'["main"]
        /\ pins'[h].ver >= freeGen' => Apart(free'["main"], pins'[h].snap["main"])
  <2>1. \A h \in Holders : pins[h].ver \in Nat
    BY <1>2 DEF Types, TypeOK
  <2> QED BY <1>1, <1>2, <1>4, <1>8, <2>1 DEF GateInv, Gens
<1>12. Apart(free["main"], roots'["main"])
  BY <1>2, <1>7, <1>8 DEF GateInv, Lists, Gens
<1>13. Below(roots'["main"], pc["main"])
  BY <1>2, <1>7, <1>8 DEF GateInv, Bounds, NewTop, Top
<1>14. \A d \in Domains : \A p \in free[d] : p < pc[d]
  BY DEF GateInv, Bounds
<1>15. CASE "att" \in w.dirty /\ kind["att"] = "memory"
  <2>1. w' = [w EXCEPT !.phase = "adopt"]
    BY <1>1, <1>15
  <2>2. /\ w'.phase = "adopt" /\ w'.dirty = w.dirty /\ w'.new = w.new /\ w'.high = w.high
        /\ w'.rest = w.rest
    BY <1>2, <2>1 DEF Writers
  <2>3. Adopting' /\ Staged' /\ Staged /\ \A d \in Domains : ~Packed(d)'
    BY <1>1, <1>15, <2>2 DEF Adopting, Staged, Packed, Packing
  <2>4. Stages'
    BY <1>1, <1>2, <1>8, <1>15, <2>2, <2>3 DEF GateInv, Stages
  <2>5. Watermark' /\ Final'
    BY <2>2 DEF Watermark, Final
  <2>6. Gens'
    BY <1>10, <1>11 DEF Gens
  <2>7. Readable'
    BY <1>9, <2>3 DEF Readable, Reads
  <2>8. Below(roots'["att"], w.high) /\ w.high >= pc["att"] /\ \A p \in w.rest : p < pc["att"]
    BY <1>2, <1>7, <1>8, <1>15, <2>3 DEF GateInv, Bounds, NewTop
  <2>9. Bounds'
    BY <1>1, <1>13, <1>14, <2>2, <2>3, <2>8 DEF Bounds, Top, Domains
  <2>10. Apart(w.rest, roots'["att"]) /\ Apart(w.rest, w.new["att"])
    BY <1>2, <1>8, <1>15, <2>3 DEF GateInv, Lists
  <2>11. Lists'
    BY <1>1, <1>2, <1>12, <2>2, <2>3, <2>10 DEF Lists
  <2>12. GateInv'
    BY <1>6, <2>4, <2>5, <2>6, <2>7, <2>9, <2>11 DEF GateInv
  <2>13. ASSUME PinInv PROVE PinInv'
    <3>1. PinnedSnapshotsStable'
      BY <1>1, <2>13 DEF PinInv, PinnedSnapshotsStable, Reads
    <3>2. \A h \in Holders, d \in Domains : Below(pins[h].snap[d], pc[d])
      BY <1>7, <2>13 DEF PinInv, Top
    <3>3. ASSUME NEW h \in Holders, NEW d \in Domains PROVE Below(pins[h].snap[d], Top(d)')
      <4>1. \A x \in pins[h].snap[d] : x[1] \in Nat
        BY <1>2, GateAssumption DEF Types, TypeOK, Snapshots, Entries, Body
      <4>2. pc[d] \in Nat /\ w.high \in Nat
        BY <1>2, GateAssumption DEF Types, TypeOK, Writers
      <4>3. Top(d)' = IF d = "att" THEN w.high ELSE pc[d]
        BY <1>1, <2>2, <2>3 DEF Top
      <4> QED BY <2>8, <3>2, <4>1, <4>2, <4>3 DEF Below
    <3>4. \A h \in Holders : Apart(w.rest, pins[h].snap["att"])
      BY <2>3, <2>13 DEF PinInv
    <3> QED BY <1>1, <2>2, <2>3, <3>1, <3>3, <3>4 DEF PinInv
  <2> QED BY <2>12, <2>13
<1>16. CASE ~("att" \in w.dirty /\ kind["att"] = "memory")
  <2>1. w'.phase = "idle" /\ w'.dirty = {}
    BY <1>1, <1>16, IdleRecord
  <2>2. Apart(free["att"], roots'["att"]) /\ Below(roots'["att"], pc["att"])
    <3>1. kind["att"] \in Kinds
      BY <1>2 DEF Types, TypeOK
    <3>2. CASE "att" \in w.dirty
      BY <1>2, <1>7, <1>8, <1>16, <3>1, <3>2 DEF GateInv, Lists, Bounds, NewTop, Kinds
    <3>3. CASE "att" \notin w.dirty
      BY <1>2, <1>7, <1>8, <3>3 DEF GateInv, Lists, Bounds, Top
    <3> QED BY <3>2, <3>3
  <2>3. GateInv'
    <3>1. \A d \in Domains : /\ \A e \in roots'[d] : disk'[d][e[1]] = e[2]
                             /\ Below(roots'[d], pc'[d]) /\ Apart(free'[d], roots'[d])
                             /\ \A p \in free'[d] : p < pc'[d]
      BY <1>1, <1>9, <1>12, <1>13, <1>14, <2>2 DEF Domains
    <3> QED BY <1>6, <1>10, <1>11, <2>1, <3>1, IdleStep
  <2>4. ASSUME PinInv PROVE PinInv'
    <3>1. \A h \in Holders, d \in Domains :
                /\ \A e \in pins'[h].snap[d] : disk'[d][e[1]] = e[2]
                /\ Below(pins'[h].snap[d], pc'[d])
      BY <1>1, <1>7, <2>4 DEF PinInv, PinnedSnapshotsStable, Reads, Top
    <3>2. kind'["att"] = "memory" => \A h \in Holders : Apart(free'["att"], pins'[h].snap["att"])
      BY <1>1, <1>7, <2>4 DEF PinInv
    <3> QED BY <2>1, <3>1, <3>2, IdleStepPinned
  <2> QED BY <2>3, <2>4
<1> QED BY <1>15, <1>16

\* adopt_staged and maybe_compact.
LEMMA AdoptSafe ==
    ASSUME GateInv, Adopt
    PROVE  GateInv' /\ (PinInv => PinInv')
<1>1. /\ w.phase = "adopting" /\ w' = Idle
      /\ pc' = [pc EXCEPT !["att"] = w.high] /\ last' = [last EXCEPT !["att"] = w.wrote]
      /\ UNCHANGED <<kind, disk, roots, version, pins, poisoned, stamp, freeGen>>
  BY DEF Adopt
<1>2. PICK due \in BOOLEAN :
        free' = [free EXCEPT !["att"] =
            IF w.reclaim /\ due THEN Unreached(w.high, w.new["att"], w.wrote) ELSE w.rest]
  BY DEF Adopt
<1> DEFINE list == IF w.reclaim /\ due THEN Unreached(w.high, w.new["att"], w.wrote) ELSE w.rest
<1>3. Types /\ w \in Writers /\ "att" \in Domains /\ "main" \in Domains
  BY DEF GateInv, Types, Domains
<1>4. Adopting /\ Staged /\ w.new["att"] = roots["att"] /\ kind["att"] = "memory"
      /\ \A d \in Domains : ~Packed(d)
  BY <1>1 DEF GateInv, Stages, Adopting, Staged, Packed, Packing
<1>5. /\ w.new["att"] \in SUBSET Entries /\ w.high \in Nat /\ w.high <= PageLimit /\ w.rest \in SUBSET Body
      /\ w.wrote \in SUBSET Body /\ pc["att"] \in 2 .. PageLimit
  BY <1>3, GateAssumption DEF Writers, Snapshots, Types, TypeOK
<1>6. w.high >= pc["att"] /\ (\A p \in w.rest : p < pc["att"]) /\ Below(roots["att"], w.high)
  BY <1>3, <1>4 DEF GateInv, Bounds, Top
<1>7. list \in SUBSET Body /\ Apart(list, roots["att"]) /\ \A p \in list : p < w.high
  <2>1. CASE w.reclaim /\ due
    BY <1>4, <1>5, <2>1, UnreachedEffect
  <2>2. CASE ~(w.reclaim /\ due)
    <3>1. list = w.rest
      BY <2>2
    <3>2. \A p \in w.rest : p \in Nat
      BY <1>5, GateAssumption DEF Body
    <3>3. \A p \in w.rest : p < w.high
      BY <1>5, <1>6, <3>2
    <3>4. Apart(w.rest, roots["att"])
      BY <1>4 DEF GateInv, Lists
    <3> QED BY <1>5, <3>1, <3>3, <3>4
  <2> QED BY <2>1, <2>2
<1>8. /\ free \in [Domains -> SUBSET Body] /\ pc \in [Domains -> 2 .. PageLimit]
      /\ last \in [Domains -> SUBSET Body]
  BY <1>3 DEF Types, TypeOK
<1>9. free' = [free EXCEPT !["att"] = list]
  BY <1>2
<1> HIDE DEF list
<1>10. /\ free' \in [Domains -> SUBSET Body] /\ pc' \in [Domains -> 2 .. PageLimit]
       /\ last' \in [Domains -> SUBSET Body]
       /\ free'["att"] = list /\ pc'["att"] = w.high
       /\ free'["main"] = free["main"] /\ pc'["main"] = pc["main"]
  <2>1. w.high \in 2 .. PageLimit
    BY <1>5, <1>6
  <2> QED BY <1>1, <1>3, <1>5, <1>7, <1>8, <1>9, <2>1
<1>11. Types'
  BY <1>1, <1>3, <1>10, IdleRecord DEF Types, TypeOK, Writers
<1>12. w'.phase = "idle" /\ w'.dirty = {}
  BY <1>1, IdleRecord
<1>13. \A d \in Domains : \A e \in roots'[d] : disk'[d][e[1]] = e[2]
  BY <1>1 DEF GateInv, Readable, Reads
<1>14. Apart(free["main"], roots["main"]) /\ freeGen <= version
  BY <1>1, MainListed
<1>15. Below(roots["main"], pc["main"]) /\ \A p \in free["main"] : p < pc["main"]
  BY <1>3 DEF GateInv, Bounds, Top
<1>16. \A h \in Holders : /\ pins[h].ver <= version
                          /\ pins[h].ver = version => pins[h].snap["main"] = roots["main"]
                          /\ pins[h].ver >= freeGen => Apart(free["main"], pins[h].snap["main"])
  BY DEF GateInv, Gens
<1>17. GateInv'
  <2>1. \A d \in Domains : /\ Below(roots'[d], pc'[d]) /\ Apart(free'[d], roots'[d])
                           /\ \A p \in free'[d] : p < pc'[d]
    BY <1>1, <1>6, <1>7, <1>10, <1>14, <1>15 DEF Domains
  <2> QED BY <1>1, <1>10, <1>11, <1>12, <1>13, <1>14, <1>16, <2>1, IdleStep
<1>18. ASSUME PinInv PROVE PinInv'
  <2>1. \A h \in Holders, d \in Domains :
              /\ \A e \in pins'[h].snap[d] : disk'[d][e[1]] = e[2]
              /\ Below(pins'[h].snap[d], pc'[d])
    BY <1>1, <1>4, <1>10, <1>18 DEF PinInv, PinnedSnapshotsStable, Reads, Top, Domains
  <2>2. \A h \in Holders : Apart(list, pins[h].snap["att"])
    <3> SUFFICES ASSUME NEW h \in Holders PROVE Apart(list, pins[h].snap["att"])
      OBVIOUS
    <3>1. CASE w.reclaim
      <4>1. pins[h].snap["att"] = roots["att"] \/ pins[h].snap["att"] = {}
        BY <1>1, <1>3, <1>18, <3>1 DEF PinInv, NoPin
      <4> QED BY <1>7, <4>1 DEF Apart
    <3>2. CASE ~w.reclaim
      BY <1>4, <1>18, <3>2 DEF PinInv, list
    <3> QED BY <3>1, <3>2
  <2> QED BY <1>1, <1>10, <1>12, <2>1, <2>2, IdleStepPinned
<1> QED BY <1>17, <1>18

\* A readable snapshot is no larger than the pages below its high-water: no two
\* of its entries are of one page.
LEMMA SnapshotSize ==
    ASSUME Types, NEW d \in Domains, Reads(d, roots[d]), Below(roots[d], pc[d])
    PROVE  Cardinality(roots[d]) \in Nat /\ Cardinality(roots[d]) <= pc[d] - 2
<1>1. roots[d] \in SUBSET Entries /\ pc[d] \in Nat /\ pc[d] >= 2
  BY GateAssumption DEF Types, TypeOK, Snapshots
<1>2. IsFiniteSet(Entries)
  <2>1. IsFiniteSet(Body) /\ IsFiniteSet(Stamps)
    BY GateAssumption, FS_Interval DEF Body, Stamps
  <2> QED BY <2>1, FS_Product DEF Entries
<1>3. IsFiniteSet(roots[d]) /\ Cardinality(roots[d]) \in Nat
  BY <1>1, <1>2, FS_Subset, FS_CardinalityType
<1>4. IsFiniteSet(2 .. pc[d] - 1) /\ Cardinality(2 .. pc[d] - 1) = pc[d] - 2
  <2>1. 2 \in Int /\ pc[d] - 1 \in Int
    BY <1>1
  <2>2. IsFiniteSet(2 .. pc[d] - 1)
        /\ Cardinality(2 .. pc[d] - 1) = IF 2 > pc[d] - 1 THEN 0 ELSE (pc[d] - 1) - 2 + 1
    BY <2>1, FS_Interval
  <2> QED BY <1>1, <2>2
<1>5. SUFFICES ASSUME Cardinality(roots[d]) > pc[d] - 2 PROVE FALSE
  BY <1>1, <1>3
<1> DEFINE f == [e \in roots[d] |-> e[1]]
<1>6. \A e \in roots[d] : e[1] \in 2 .. pc[d] - 1
  <2>1. \A e \in roots[d] : e[1] \in Body /\ e[1] < pc[d]
    BY <1>1 DEF Entries, Below
  <2> QED BY <1>1, <2>1, GateAssumption DEF Body
<1>7. f \in [roots[d] -> 2 .. pc[d] - 1]
  BY <1>6
<1>8. \E x, y \in roots[d] : x # y /\ f[x] = f[y]
  <2> HIDE DEF f
  <2>1. Cardinality(2 .. pc[d] - 1) < Cardinality(roots[d])
    BY <1>1, <1>3, <1>4, <1>5
  <2> QED BY <1>3, <1>4, <1>7, <2>1, FS_PigeonHole
<1>9. PICK x, y \in roots[d] : x # y /\ x[1] = y[1]
  BY <1>8
<1>10. x[2] = y[2]
  BY <1>9 DEF Reads
<1>11. x = <<x[1], x[2]>> /\ y = <<y[1], y[2]>>
  BY <1>1 DEF Entries
<1> QED BY <1>9, <1>10, <1>11

\* compact_locked: a fresh image, with the registry empty.
LEMMA CompactSafe ==
    ASSUME GateInv, NEW d \in Domains, Compact(d)
    PROVE  GateInv' /\ (PinInv => PinInv')
<1> DEFINE size == Cardinality(roots[d])
           fresh == 2 .. size + 1
<1>1. /\ w.phase = "idle" /\ stamp < MaxStamp /\ ~HasLiveReaders /\ stamp' = stamp + 1
      /\ disk' = [disk EXCEPT ![d] = [p \in Body |-> IF p \in fresh THEN stamp' ELSE 0]]
      /\ roots' = [roots EXCEPT ![d] = {<<p, stamp'>> : p \in fresh}]
      /\ version' = IF d = "main" THEN version + 1 ELSE version
      /\ pc' = [pc EXCEPT ![d] = size + 2] /\ free' = [free EXCEPT ![d] = {}]
      /\ freeGen' = IF d = "main" THEN version + 1 ELSE freeGen
      /\ last' = [last EXCEPT ![d] = {}]
      /\ kind' = kind /\ pins' = pins /\ poisoned' = poisoned /\ w' = w
  BY DEF Compact
<1>2. Types /\ "att" \in Domains /\ "main" \in Domains
  BY DEF GateInv, Domains
<1>3. w.dirty = {} /\ ~Adopting /\ ~Staged /\ \A e \in Domains : ~Packed(e)
  BY <1>1 DEF GateInv, Stages, Adopting, Staged, Packed, Packing
<1>4. \A e \in Domains : /\ Apart(free[e], roots[e]) /\ Below(roots[e], pc[e]) /\ Reads(e, roots[e])
                         /\ \A p \in free[e] : p < pc[e]
  BY <1>1, <1>3, MainListed DEF GateInv, Lists, Bounds, Top, Readable, Domains
<1>5. /\ disk \in [Domains -> [Body -> 0 .. MaxStamp]] /\ roots \in [Domains -> SUBSET Entries]
      /\ pc \in [Domains -> 2 .. PageLimit] /\ free \in [Domains -> SUBSET Body]
      /\ last \in [Domains -> SUBSET Body] /\ version \in Nat /\ version >= 1 /\ freeGen \in Nat
      /\ stamp \in Stamps /\ PageLimit \in Nat /\ MaxStamp \in Nat
  BY <1>2, GateAssumption DEF Types, TypeOK, Snapshots
<1>6. size \in Nat /\ size <= pc[d] - 2
  BY <1>2, <1>4, SnapshotSize
<1> HIDE DEF size
<1>7. size + 2 \in 2 .. PageLimit /\ fresh \in SUBSET Body /\ stamp' \in Stamps
      /\ stamp' \in 0 .. MaxStamp /\ 0 \in 0 .. MaxStamp
  <2>1. pc[d] \in Nat /\ pc[d] <= PageLimit
    BY <1>5
  <2> QED BY <1>1, <1>5, <1>6, <2>1 DEF Body, Stamps
<1>8. \A e \in {<<p, stamp'>> : p \in fresh} : e \in Entries /\ e[1] \in fresh /\ e[2] = stamp'
  BY <1>7 DEF Entries
<1> DEFINE image == [p \in Body |-> IF p \in fresh THEN stamp' ELSE 0]
           tree == {<<p, stamp'>> : p \in fresh}
<1>9. image \in [Body -> 0 .. MaxStamp] /\ \A p \in fresh : image[p] = stamp'
  BY <1>7
<1>10. tree \in SUBSET Entries /\ (\A e \in tree : e[1] \in fresh /\ e[2] = stamp')
  BY <1>8
<1>11. disk' = [disk EXCEPT ![d] = image] /\ roots' = [roots EXCEPT ![d] = tree]
  BY <1>1
<1>12. \A e \in tree : e[1] < size + 2 /\ image[e[1]] = e[2]
  BY <1>6, <1>9, <1>10
<1> HIDE DEF image, tree, fresh
<1>13. /\ disk' \in [Domains -> [Body -> 0 .. MaxStamp]] /\ roots' \in [Domains -> SUBSET Entries]
       /\ pc' \in [Domains -> 2 .. PageLimit] /\ free' \in [Domains -> SUBSET Body]
       /\ last' \in [Domains -> SUBSET Body] /\ version' \in Nat /\ version' >= 1 /\ freeGen' \in Nat
  <2>1. {} \in SUBSET Body
    OBVIOUS
  <2>2. disk' \in [Domains -> [Body -> 0 .. MaxStamp]]
    BY <1>5, <1>9, <1>11
  <2>3. roots' \in [Domains -> SUBSET Entries]
    BY <1>5, <1>10, <1>11
  <2> QED BY <1>1, <1>5, <1>7, <2>1, <2>2, <2>3
<1>14. Types'
  BY <1>1, <1>2, <1>7, <1>13 DEF Types, TypeOK, Writers, Snapshots
<1>15. \A h \in Holders : pins[h] = NoPin
  BY <1>1, RegistryEffect
<1>16. \A h \in Holders : pins[h].ver = 0 /\ \A e \in Domains : pins[h].snap[e] = {}
  BY <1>15 DEF NoPin
<1>17. \A h \in Holders : /\ pins'[h].ver <= version' /\ pins'[h].ver # version'
                          /\ Apart(free'["main"], pins'[h].snap["main"])
  BY <1>1, <1>2, <1>13, <1>16 DEF Apart
<1>18. freeGen' <= version'
  BY <1>1, <1>5, MainListed
<1>19. ASSUME NEW e \in Domains
       PROVE  /\ \A x \in roots'[e] : disk'[e][x[1]] = x[2]
              /\ Below(roots'[e], pc'[e]) /\ Apart(free'[e], roots'[e])
              /\ \A p \in free'[e] : p < pc'[e]
  <2>1. CASE e = d
    <3>1. roots'[e] = tree /\ disk'[e] = image /\ pc'[e] = size + 2 /\ free'[e] = {}
      BY <1>1, <1>5, <1>11, <2>1
    <3> QED BY <1>12, <3>1 DEF Below, Apart
  <2>2. CASE e # d
    <3>1. roots'[e] = roots[e] /\ disk'[e] = disk[e] /\ pc'[e] = pc[e] /\ free'[e] = free[e]
      BY <1>1, <1>5, <1>11, <2>2
    <3> QED BY <1>4, <3>1 DEF Reads
  <2> QED BY <2>1, <2>2
<1>20. w'.phase = "idle" /\ w'.dirty = {}
  BY <1>1, <1>3
<1>21. GateInv'
  BY <1>14, <1>17, <1>18, <1>19, <1>20, IdleStep
<1>22. PinInv'
  BY <1>1, <1>2, <1>16, <1>20, IdleStepPinned DEF Below, Apart
<1> QED BY <1>21, <1>22

-----------------------------------------------------------------------------
(* Commits.                                                                *)

\* Main is written: what the file and memory commits leave alike. `list` is the
\* part of the free list that may be overwritten.
LEMMA MainWritten ==
    ASSUME GateInv, w.phase = "persist", NEW tree \in SUBSET Entries, NEW over \in SUBSET Body,
           NEW list, w' = [w EXCEPT !.new["main"] = tree, !.phase = "publish"],
           UNCHANGED <<kind, roots, version, pins, poisoned, stamp>>,
           Changes("main", over), \A p \in over : p >= pc["main"] \/ p \in list,
           Apart(list, roots["main"]),
           disk' \in [Domains -> [Body -> 0 .. MaxStamp]], pc' \in [Domains -> 2 .. PageLimit],
           free' \in [Domains -> SUBSET Body], last' \in [Domains -> SUBSET Body],
           pc'["att"] = pc["att"], free'["att"] = free["att"],
           \A e \in tree : disk'["main"][e[1]] = e[2],
           Below(tree, pc'["main"]), Apart(free'["main"], tree),
           \A p \in free'["main"] : p < pc'["main"],
           \A p \in Body : p < pc["main"] => p < pc'["main"] \/ p \in list,
           \/ freeGen' = version + 1
           \/ /\ freeGen' \in Nat /\ freeGen' <= version /\ Apart(free'["main"], roots["main"])
              /\ \A h \in Holders : pins[h].ver >= freeGen' => Apart(free'["main"], pins[h].snap["main"])
    PROVE  /\ GateInv'
           /\ PinInv /\ (\A h \in Holders : Apart(list, pins[h].snap["main"])) => PinInv'
<1>1. /\ Types /\ w \in Writers /\ "att" \in Domains /\ "main" \in Domains /\ version \in Nat
      /\ roots \in Snapshots /\ w.new \in Snapshots /\ "main" \in w.dirty
      /\ pins \in [Holders -> [ver : Nat, snap : Snapshots]]
  BY DEF GateInv, Stages, Types, TypeOK, Writers, Domains
<1>2. /\ w'.phase = "publish" /\ w'.dirty = w.dirty /\ w'.high = w.high /\ w'.rest = w.rest
      /\ w'.new = [w.new EXCEPT !["main"] = tree]
  BY <1>1 DEF Writers
<1>3. w'.new["main"] = tree /\ w'.new["att"] = w.new["att"] /\ w'.new \in Snapshots
  BY <1>1, <1>2 DEF Snapshots
<1>4. w' \in Writers
  BY <1>1, <1>3 DEF Writers, Phases
<1>5. freeGen' \in Nat
  BY <1>1
<1>6. Types'
  <2>1. w'.phase \in Phases /\ w'.dirty \subseteq Domains
    BY <1>4 DEF Writers
  <2>2. TypeOK'
    BY <1>1, <1>3, <1>5, <2>1 DEF Types, TypeOK
  <2> QED BY <1>1, <1>4, <2>2 DEF Types
<1>7. /\ ~Adopting /\ ~Adopting' /\ (Staged' <=> Staged) /\ Packed("main")' /\ ~Packed("main")
      /\ (Packed("att")' <=> Packed("att"))
  BY <1>1, <1>2 DEF Adopting, Staged, Packed, Packing
<1>8. Stages'
  BY <1>1, <1>2, <1>7 DEF GateInv, Stages
<1>9. Watermark' /\ Final'
  BY <1>2 DEF Watermark, Final
<1>10. Gens'
  <2>1. \A h \in Holders : /\ pins'[h].ver <= version'
                           /\ pins'[h].ver = version' => pins'[h].snap["main"] = roots'["main"]
    BY DEF GateInv, Gens
  <2>2. \A h \in Holders : pins'[h].ver >= freeGen' => Apart(free'["main"], pins'[h].snap["main"])
    <3>1. \A h \in Holders : pins[h].ver \in Nat /\ pins[h].ver <= version
      BY <1>1 DEF GateInv, Gens
    <3> QED BY <1>1, <3>1
  <2>3. freeGen' <= version' \/ (freeGen' = version' + 1 /\ Packed("main")')
    BY <1>7
  <2> QED BY <2>1, <2>2, <2>3 DEF Gens
<1>11. Below(roots["main"], pc["main"])
  BY <1>1, <1>7 DEF GateInv, Bounds, Top
<1>12. ASSUME NEW snap \in SUBSET Entries, Below(snap, pc["main"]), Apart(list, snap)
       PROVE  Below(snap, pc'["main"])
  <2> SUFFICES ASSUME NEW e \in snap PROVE e[1] < pc'["main"]
    BY DEF Below
  <2> QED BY <1>12 DEF Below, Apart, Entries
<1>13. ASSUME NEW e \in Domains, NEW snap \in SUBSET Entries, Reads(e, snap),
              e = "main" => Below(snap, pc["main"]) /\ Apart(list, snap)
       PROVE  \A x \in snap : disk'[e][x[1]] = x[2]
  <2>1. PICK d \in Domains : d = "main"
    BY <1>1
  <2>2. /\ Changes(d, over) /\ (\A p \in over : p >= pc[d] \/ p \in list)
        /\ e = d => Below(snap, pc[d]) /\ Apart(list, snap)
    BY <1>13, <2>1
  <2>3. Reads(e, snap)'
    BY <1>1, <1>13, <2>2, KeepsReading
  <2> QED BY <2>3 DEF Reads
<1>14. Readable'
  <2>1. ASSUME NEW e \in Domains PROVE \A x \in roots[e] : disk'[e][x[1]] = x[2]
    <3>1. roots[e] \in SUBSET Entries /\ Reads(e, roots[e])
      BY <1>1 DEF GateInv, Readable, Snapshots
    <3> QED BY <1>11, <1>13, <3>1
  <2>2. Packed("att") => \A x \in w.new["att"] : disk'["att"][x[1]] = x[2]
    <3>1. w.new["att"] \in SUBSET Entries /\ (Packed("att") => Reads("att", w.new["att"]))
      BY <1>1 DEF GateInv, Readable, Snapshots
    <3> QED BY <1>1, <1>13, <3>1
  <2> QED BY <1>3, <1>7, <2>1, <2>2 DEF Readable, Reads, Domains
<1>15. Bounds'
  <2>1. Below(roots["main"], pc'["main"])
    <3>1. roots["main"] \in SUBSET Entries
      BY <1>1 DEF Snapshots
    <3> QED BY <1>11, <1>12, <3>1
  <2>2. /\ (\A p \in free["att"] : p < pc["att"]) /\ Below(roots["att"], pc["att"])
        /\ Packed("att") => Below(w.new["att"], NewTop("att"))
        /\ Staged => w.high >= pc["att"] /\ \A p \in w.rest : p < pc["att"]
    BY <1>1, <1>7 DEF GateInv, Bounds, Top
  <2>3. NewTop("att")' = NewTop("att") /\ NewTop("main")' = pc'["main"]
        /\ Top("att")' = pc["att"] /\ Top("main")' = pc'["main"]
    BY <1>1, <1>2, <1>7 DEF NewTop, Top
  <2>4. (\A p \in free["att"] : p < pc["att"])'
        /\ (Staged => w.high >= pc["att"] /\ \A p \in w.rest : p < pc["att"])'
    BY <1>2, <1>7, <2>2
  <2> QED BY <1>2, <1>3, <1>7, <2>1, <2>2, <2>3, <2>4 DEF Bounds, Domains
<1>16. Lists'
  <2>1. freeGen' <= version => Apart(free'["main"], roots["main"])
    BY <1>1
  <2>2. /\ kind["att"] = "file" /\ Packed("att") => Apart(free["att"], w.new["att"])
        /\ ~(kind["att"] = "file" /\ Packed("att")) => Apart(free["att"], roots["att"])
        /\ Staged => Apart(w.rest, roots["att"]) /\ Apart(w.rest, w.new["att"])
    BY <1>7 DEF GateInv, Lists
  <2> QED BY <1>2, <1>3, <1>7, <2>1, <2>2 DEF Lists
<1>17. GateInv'
  BY <1>6, <1>8, <1>9, <1>10, <1>14, <1>15, <1>16 DEF GateInv
<1>18. ASSUME PinInv, \A h \in Holders : Apart(list, pins[h].snap["main"]) PROVE PinInv'
  <2>1. \A h \in Holders, e \in Domains :
            /\ pins[h].snap[e] \in SUBSET Entries /\ Reads(e, pins[h].snap[e])
            /\ Below(pins[h].snap[e], pc[e])
    BY <1>1, <1>7, <1>18 DEF PinInv, PinnedSnapshotsStable, Top, Snapshots
  <2>2. PinnedSnapshotsStable'
    <3> SUFFICES ASSUME NEW h \in Holders, NEW e \in Domains
                 PROVE  \A x \in pins[h].snap[e] : disk'[e][x[1]] = x[2]
      BY DEF PinnedSnapshotsStable, Reads
    <3> QED BY <1>13, <1>18, <2>1
  <2>3. \A h \in Holders, e \in Domains : Below(pins[h].snap[e], pc'[e])
    <3> SUFFICES ASSUME NEW h \in Holders PROVE \A e \in Domains : Below(pins[h].snap[e], pc'[e])
      OBVIOUS
    <3>1. Below(pins[h].snap["main"], pc'["main"])
      BY <1>1, <1>12, <1>18, <2>1
    <3>2. Below(pins[h].snap["att"], pc'["att"])
      BY <1>1, <2>1
    <3> QED BY <3>1, <3>2 DEF Domains
  <2>4. (\A h \in Holders, e \in Domains : Below(pins[h].snap[e], Top(e)))'
    BY <1>7, <2>3 DEF Top
  <2>5. /\ kind["att"] = "memory" => \A h \in Holders : Apart(free["att"], pins[h].snap["att"])
        /\ Staged => \A h \in Holders : Apart(w.rest, pins[h].snap["att"])
    BY <1>7, <1>18 DEF PinInv
  <2> QED BY <1>2, <1>7, <2>2, <2>4, <2>5 DEF PinInv
<1> QED BY <1>17, <1>18

\* What a domain's commit finds before it: its list is apart from its roots.
LEMMA CommitStart ==
    ASSUME GateInv, NEW d \in Domains, Committing(d)
    PROVE  /\ Types /\ Apart(free[d], roots[d]) /\ Below(roots[d], pc[d]) /\ Reads(d, roots[d])
           /\ \A p \in free[d] : p < pc[d]
           /\ Ready(d) /\ roots[d] \in SUBSET Entries /\ ~Adopting /\ \A e \in Domains : Top(e) = pc[e]
<1>1. ~Adopting /\ (d = "att" => ~Packed("att")) /\ w.phase # "publish"
  BY DEF Committing, Adopting, Packed, Packing
<1>2. Apart(free[d], roots[d])
  BY <1>1, MainListed DEF GateInv, Lists, Domains
<1>3. /\ Types /\ Below(roots[d], pc[d]) /\ Reads(d, roots[d])
      /\ \A p \in free[d] : p < pc[d]
      /\ roots[d] \in SUBSET Entries /\ \A e \in Domains : Top(e) = pc[e]
  BY <1>1 DEF GateInv, Types, TypeOK, Snapshots, Bounds, Readable, Top
<1> QED BY <1>1, <1>2, <1>3 DEF Ready

\* commit_file of main.
LEMMA PersistFileSafe ==
    ASSUME GateInv, PersistFile
    PROVE  GateInv' /\ (PinInv => PinInv')
<1>1. FileCommits("main", CanReclaim, CanReuse, version + 1)
  BY DEF PersistFile, FileCommits
<1>2. w.phase = "persist" /\ UNCHANGED <<kind, roots, version, pins, poisoned, stamp>>
  BY DEF PersistFile
<1>3. /\ Types /\ Apart(free["main"], roots["main"]) /\ Below(roots["main"], pc["main"])
      /\ Reads("main", roots["main"]) /\ (\A p \in free["main"] : p < pc["main"])
      /\ "main" \in Domains /\ "att" \in Domains
  BY <1>2, CommitStart DEF Committing, Domains
<1>4. CanReclaim \in BOOLEAN /\ CanReuse \in BOOLEAN
  BY DEF CanReclaim, CanReuse
<1>5. PICK due \in BOOLEAN, tree \in SUBSET Entries, over \in SUBSET Body :
        FileCommitted("main", tree, over, CanReuse, CanReclaim /\ due, version + 1)
  <2>1. Ready("main")
    BY <1>2, <1>3, CommitStart DEF Committing
  <2>2. FileOutcome("main", CanReclaim, CanReuse, version + 1)
    BY <1>1, <1>3, <1>4, <2>1, CommitFileEffect
  <2> QED BY <2>2 DEF FileOutcome
<1> DEFINE list == Pool(free["main"], CanReuse)
<1>6. list \subseteq free["main"]
  BY DEF Pool
<1>7. Apart(list, roots["main"])
  BY <1>3, <1>6 DEF Apart
<1>8. \A h \in Holders : Apart(list, pins[h].snap["main"])
  <2>1. CASE CanReuse
    BY <1>2, <1>6, <2>1, ReuseSafe DEF Apart
  <2>2. CASE ~CanReuse
    BY <2>2 DEF Pool, Apart
  <2> QED BY <2>1, <2>2
<1>9. last' \in [Domains -> SUBSET Body]
  BY <1>3, <1>5 DEF FileCommitted, Types, TypeOK
<1>10. w' = [w EXCEPT !.new["main"] = tree, !.phase = "publish"]
  BY <1>5 DEF FileCommitted, After
<1>11. freeGen <= version /\ freeGen \in Nat
  BY <1>2, MainListed
<1>12. \/ freeGen' = version + 1
       \/ /\ freeGen' \in Nat /\ freeGen' <= version /\ Apart(free'["main"], roots["main"])
          /\ \A h \in Holders : pins[h].ver >= freeGen' => Apart(free'["main"], pins[h].snap["main"])
  <2>1. CASE CanReclaim /\ due
    BY <1>5, <2>1 DEF FileCommitted, FreeGen
  <2>2. CASE ~(CanReclaim /\ due)
    <3>1. freeGen' = freeGen /\ free'["main"] \subseteq free["main"]
      BY <1>5, <2>2 DEF FileCommitted, FreeGen
    <3>2. \A h \in Holders : pins[h].ver >= freeGen => Apart(free["main"], pins[h].snap["main"])
      BY DEF GateInv, Gens
    <3> QED BY <1>3, <1>11, <3>1, <3>2 DEF Apart
  <2> QED BY <2>1, <2>2
<1> HIDE DEF list
<1>13. pc'["att"] = pc["att"] /\ free'["att"] = free["att"]
  BY <1>3, <1>5 DEF FileCommitted
<1>14. (\A p \in over : p >= pc["main"] \/ p \in list)
       /\ \A p \in Body : p < pc["main"] => p < pc'["main"] \/ p \in list
  BY <1>5 DEF FileCommitted, list
<1>15. /\ Changes("main", over) /\ disk' \in [Domains -> [Body -> 0 .. MaxStamp]]
       /\ pc' \in [Domains -> 2 .. PageLimit] /\ free' \in [Domains -> SUBSET Body]
       /\ \A e \in tree : disk'["main"][e[1]] = e[2]
       /\ Below(tree, pc'["main"]) /\ Apart(free'["main"], tree)
       /\ \A p \in free'["main"] : p < pc'["main"]
  BY <1>5 DEF FileCommitted
<1>17. GateInv' /\ (PinInv /\ (\A h \in Holders : Apart(list, pins[h].snap["main"])) => PinInv')
  BY <1>2, <1>7, <1>9, <1>10, <1>12, <1>13, <1>14, <1>15, MainWritten, ZenonT(60)
<1> QED BY <1>8, <1>17

\* commit_in_memory of main.
LEMMA PersistMemorySafe ==
    ASSUME GateInv, PersistMemory
    PROVE  GateInv' /\ (PinInv => PinInv')
<1> DEFINE plan == MemoryPlan("main", CanReuse)
           now == ListAfter("main", CanReuse)
           list == Pool(now, CanReuse \/ Forces("main", CanReuse))
<1>1. PICK due \in BOOLEAN, kept \in SUBSET roots["main"] :
        /\ plan.high <= PageLimit /\ Write("main", plan.pages, stamp)
        /\ pc' = [pc EXCEPT !["main"] = plan.high]
        /\ free' = [free EXCEPT !["main"] =
                IF CanReclaim /\ due
                THEN Unreached(plan.high, NewTree("main", kept, plan.pages), plan.pages)
                ELSE plan.rest]
        /\ freeGen' = IF CanReclaim /\ due THEN version + 1 ELSE GenAfter("main", CanReuse)
        /\ last' = [last EXCEPT !["main"] = plan.pages]
        /\ w' = [w EXCEPT !.new["main"] = NewTree("main", kept, plan.pages), !.phase = "publish"]
  BY DEF PersistMemory
<1>2. w.phase = "persist" /\ UNCHANGED <<kind, roots, version, pins, poisoned, stamp>>
  BY DEF PersistMemory
<1>3. /\ Types /\ Apart(free["main"], roots["main"]) /\ Below(roots["main"], pc["main"])
      /\ Reads("main", roots["main"]) /\ (\A p \in free["main"] : p < pc["main"])
      /\ "main" \in Domains /\ "att" \in Domains /\ roots["main"] \in SUBSET Entries
  BY <1>2, CommitStart DEF Committing, Domains
<1>4. CanReclaim \in BOOLEAN /\ CanReuse \in BOOLEAN
  BY DEF CanReclaim, CanReuse
<1>5. /\ now \in SUBSET Body /\ \A p \in now : p < pc["main"]
      /\ Apart(now, roots["main"]) /\ (~Forces("main", CanReuse) => now = free["main"])
      /\ plan.high \in Nat /\ plan.high >= pc["main"]
      /\ \A p \in plan.pages : /\ p \in Nat /\ p >= 2 /\ p < plan.high
                               /\ p >= pc["main"] \/ p \in list
      /\ plan.high <= PageLimit => plan.pages \subseteq Body
      /\ plan.rest \subseteq now /\ \A p \in plan.pages : p \notin plan.rest
  BY <1>3, <1>4, MemoryPlanEffect
<1> DEFINE tree == NewTree("main", kept, plan.pages)
<1> HIDE DEF plan, now
<1>6. list \subseteq now
  BY DEF Pool
<1>7. \A h \in Holders : Apart(list, pins[h].snap["main"])
  <2>1. CASE Forces("main", CanReuse)
    BY <1>2, <1>4, <1>6, <2>1, ForcedSafe DEF Apart, now
  <2>2. CASE ~Forces("main", CanReuse) /\ CanReuse
    BY <1>2, <1>5, <1>6, <2>2, ReuseSafe DEF Apart
  <2>3. CASE ~Forces("main", CanReuse) /\ ~CanReuse
    BY <2>3 DEF Pool, Apart
  <2> QED BY <2>1, <2>2, <2>3
<1> HIDE DEF list
<1>8. Apart(list, roots["main"])
  BY <1>5, <1>6 DEF Apart
<1>9. plan.pages \in SUBSET Body /\ stamp \in 0 .. MaxStamp
  BY <1>1, <1>3, <1>5 DEF Types, TypeOK, Stamps
<1>10. /\ disk' \in [Domains -> [Body -> 0 .. MaxStamp]] /\ Changes("main", plan.pages)
       /\ \A p \in plan.pages : disk'["main"][p] = stamp
  <2>1. PICK d \in Domains : d = "main"
    BY <1>3
  <2>2. Write(d, plan.pages, stamp)
    BY <1>1, <2>1
  <2>3. /\ disk' \in [Domains -> [Body -> 0 .. MaxStamp]] /\ Changes(d, plan.pages)
        /\ \A p \in plan.pages : disk'[d][p] = stamp
    BY <1>3, <1>9, <2>2, WriteEffect
  <2> QED BY <2>1, <2>3
<1>11. \A p \in plan.pages : p >= pc["main"] \/ p \in list
  BY <1>5
<1>12. \A e \in tree : disk'["main"][e[1]] = e[2]
  BY <1>3, <1>8, <1>9, <1>10, <1>11, TreeReads
<1>13. kept \in SUBSET Entries
  BY <1>3
<1>14. tree \in SUBSET Entries /\ \A e \in tree : e \in kept \/ (e[1] \in plan.pages /\ e[2] = stamp)
  BY <1>3, <1>9, <1>13, NewTreeEffect
<1>15. \A p \in Body : p \in Nat
  BY GateAssumption DEF Body
<1>16. pc["main"] \in Nat /\ pc["main"] >= 2
  BY <1>3, GateAssumption DEF Types, TypeOK
<1>17. Below(tree, plan.high) /\ Apart(plan.rest, tree)
  <2> SUFFICES ASSUME NEW e \in tree PROVE e[1] < plan.high /\ e[1] \notin plan.rest
    BY DEF Below, Apart
  <2>1. CASE e \in kept
    <3>1. e[1] \in Nat /\ e[1] < pc["main"] /\ e[1] \notin now
      BY <1>3, <1>5, <1>15, <2>1 DEF Below, Apart, Entries
    <3> QED BY <1>5, <1>16, <3>1
  <2>2. CASE e[1] \in plan.pages
    BY <1>5, <2>2
  <2> QED BY <1>14, <2>1, <2>2
<1> DEFINE rest == IF CanReclaim /\ due THEN Unreached(plan.high, tree, plan.pages) ELSE plan.rest
<1> HIDE DEF tree
<1>18. rest \in SUBSET Body /\ Apart(rest, tree) /\ \A p \in rest : p < plan.high
  <2>1. CASE CanReclaim /\ due
    BY <1>1, <1>5, <1>14, <2>1, UnreachedEffect
  <2>2. CASE ~(CanReclaim /\ due)
    <3>1. rest = plan.rest /\ \A p \in plan.rest : p \in Nat /\ p < pc["main"]
      BY <1>5, <1>15, <2>2
    <3> QED BY <1>5, <1>16, <1>17, <3>1
  <2> QED BY <2>1, <2>2
<1>19. /\ pc' = [pc EXCEPT !["main"] = plan.high] /\ free' = [free EXCEPT !["main"] = rest]
       /\ last' = [last EXCEPT !["main"] = plan.pages]
       /\ w' = [w EXCEPT !.new["main"] = tree, !.phase = "publish"]
  BY <1>1 DEF tree
<1>20. /\ pc' \in [Domains -> 2 .. PageLimit] /\ free' \in [Domains -> SUBSET Body]
       /\ last' \in [Domains -> SUBSET Body]
       /\ pc'["att"] = pc["att"] /\ free'["att"] = free["att"]
       /\ pc'["main"] = plan.high /\ free'["main"] = rest
  <2>1. /\ pc \in [Domains -> 2 .. PageLimit] /\ free \in [Domains -> SUBSET Body]
        /\ last \in [Domains -> SUBSET Body]
    BY <1>3 DEF Types, TypeOK
  <2>2. plan.high \in 2 .. PageLimit
    BY <1>1, <1>5, <1>16
  <2> HIDE DEF rest
  <2> QED BY <1>3, <1>9, <1>18, <1>19, <2>1, <2>2
<1>21. \/ freeGen' = version + 1
       \/ /\ freeGen' \in Nat /\ freeGen' <= version /\ Apart(free'["main"], roots["main"])
          /\ \A h \in Holders : pins[h].ver >= freeGen' => Apart(free'["main"], pins[h].snap["main"])
  <2>1. CASE CanReclaim /\ due
    BY <1>1, <2>1
  <2>2. CASE ~(CanReclaim /\ due)
    <3>1. freeGen' = GenAfter("main", CanReuse) /\ free'["main"] \subseteq now
      BY <1>1, <1>5, <1>20, <2>2
    <3>2. /\ GenAfter("main", CanReuse) \in Nat /\ GenAfter("main", CanReuse) <= version
          /\ \A h \in Holders : pins[h].ver >= GenAfter("main", CanReuse)
                => Apart(now, pins[h].snap["main"])
      BY <1>2, <1>4, PlannedList DEF now
    <3> QED BY <1>5, <3>1, <3>2 DEF Apart
  <2> QED BY <2>1, <2>2
<1> HIDE DEF rest
<1>22. \A p \in Body : p < pc["main"] => p < pc'["main"] \/ p \in list
  BY <1>5, <1>15, <1>16, <1>20
<1>23. Below(tree, pc'["main"]) /\ Apart(free'["main"], tree) /\ \A p \in free'["main"] : p < pc'["main"]
  BY <1>17, <1>18, <1>20
<1>24. \A e \in tree : disk'["main"][e[1]] = e[2]
  BY <1>12 DEF tree
<1>25. GateInv' /\ (PinInv /\ (\A h \in Holders : Apart(list, pins[h].snap["main"])) => PinInv')
  BY <1>2, <1>8, <1>9, <1>10, <1>11, <1>14, <1>19, <1>20, <1>21, <1>22, <1>23, <1>24,
     MainWritten, ZenonT(60)
<1> QED BY <1>7, <1>25

\* The attachment is written: `tree` is its new snapshot, `over` the pages that
\* changed, `list` the part of its free list that may be overwritten.
AttachedWrote(tree, over, list) ==
    /\ w.phase = "att" /\ w' \in Writers /\ w'.phase = After("att") /\ w'.dirty = w.dirty
    /\ w'.n = w.n /\ w'.repair = w.repair /\ w'.oldest = w.oldest /\ (w'.compact <=> w.compact)
    /\ w'.new = [w.new EXCEPT !["att"] = tree]
    /\ UNCHANGED <<kind, roots, version, pins, poisoned, stamp, freeGen>>
    /\ disk' \in [Domains -> [Body -> 0 .. MaxStamp]] /\ pc' \in [Domains -> 2 .. PageLimit]
    /\ free' \in [Domains -> SUBSET Body] /\ last' \in [Domains -> SUBSET Body]
    /\ pc'["main"] = pc["main"] /\ free'["main"] = free["main"]
    /\ Changes("att", over) /\ \A p \in over : p >= pc["att"] \/ p \in list
    /\ Apart(list, roots["att"]) /\ \A e \in tree : disk'["att"][e[1]] = e[2]

\* What the file and memory commits of the attachment leave alike.
LEMMA AttachedWritten ==
    ASSUME GateInv, NEW tree \in SUBSET Entries, NEW over \in SUBSET Body, NEW list,
           AttachedWrote(tree, over, list)
    PROVE  /\ Types' /\ Stages' /\ Watermark' /\ Gens' /\ Final' /\ Readable'
           /\ w'.new["att"] = tree /\ w'.new["main"] = w.new["main"]
           /\ ~Adopting /\ ~Adopting' /\ ~Packed("main")' /\ Packed("att")' /\ ~Packed("att")
           /\ PinInv /\ (\A h \in Holders : Apart(list, pins[h].snap["att"]))
                => PinnedSnapshotsStable'
<1>1. /\ Types /\ w \in Writers /\ "att" \in Domains /\ "main" \in Domains /\ version \in Nat
      /\ roots \in Snapshots /\ w.new \in Snapshots /\ w.phase = "att" /\ "att" \in w.dirty
      /\ pins \in [Holders -> [ver : Nat, snap : Snapshots]]
  BY DEF AttachedWrote, GateInv, Stages, Types, TypeOK, Writers, Domains
<1>2. /\ w' \in Writers /\ w'.phase = After("att") /\ w'.dirty = w.dirty
      /\ w'.n = w.n /\ w'.repair = w.repair /\ w'.oldest = w.oldest /\ (w'.compact <=> w.compact)
      /\ w'.new = [w.new EXCEPT !["att"] = tree]
      /\ UNCHANGED <<kind, roots, version, pins, poisoned, stamp, freeGen>>
      /\ pc'["main"] = pc["main"] /\ free'["main"] = free["main"]
  BY DEF AttachedWrote
<1>3. w'.new["att"] = tree /\ w'.new["main"] = w.new["main"]
  BY <1>1, <1>2 DEF Snapshots
<1>4. /\ w'.phase = "watermark" \/ w'.phase = "publish"
      /\ "main" \in w.dirty => w'.phase = "watermark"
      /\ "main" \notin w.dirty => w'.phase = "publish"
  BY <1>2 DEF After
<1>5. /\ ~Adopting /\ ~Adopting' /\ ~Packed("main") /\ ~Packed("main")'
      /\ Packed("att")' /\ ~Packed("att")
  BY <1>1, <1>2, <1>4 DEF Adopting, Packed, Packing
<1>6. Types'
  <2>1. /\ disk' \in [Domains -> [Body -> 0 .. MaxStamp]] /\ pc' \in [Domains -> 2 .. PageLimit]
        /\ free' \in [Domains -> SUBSET Body] /\ last' \in [Domains -> SUBSET Body]
    BY DEF AttachedWrote
  <2>2. w'.phase \in Phases /\ w'.dirty \subseteq Domains /\ w'.new \in Snapshots
    BY <1>2 DEF Writers
  <2> QED BY <1>1, <1>2, <2>1, <2>2 DEF Types, TypeOK
<1>7. Stages'
  BY <1>1, <1>2, <1>4, <1>5 DEF GateInv, Stages
<1>8. Watermark'
  BY <1>1, <1>2 DEF GateInv, Watermark
<1>9. Gens'
  BY <1>2, <1>5 DEF GateInv, Gens
<1>10. Final'
  <2>1. FitsWith(TRUE)' = FitsWith(TRUE) /\ FitsWith(FALSE)' = FitsWith(FALSE)
    BY <1>2, FitsFrame
  <2>2. w'.phase # "persist"
    BY <1>4
  <2> QED BY <1>1, <1>2, <2>1, <2>2 DEF GateInv, Final
<1>11. Below(roots["att"], pc["att"])
  BY <1>1, <1>5 DEF GateInv, Bounds, Top
<1>12. ASSUME NEW e \in Domains, NEW snap \in SUBSET Entries, Reads(e, snap),
              e = "att" => Below(snap, pc["att"]) /\ Apart(list, snap)
       PROVE  \A x \in snap : disk'[e][x[1]] = x[2]
  <2>1. PICK d \in Domains : d = "att"
    BY <1>1
  <2>2. /\ Changes(d, over) /\ (\A p \in over : p >= pc[d] \/ p \in list)
        /\ e = d => Below(snap, pc[d]) /\ Apart(list, snap)
    BY <1>12, <2>1 DEF AttachedWrote
  <2>3. Reads(e, snap)'
    BY <1>1, <1>12, <2>2, KeepsReading
  <2> QED BY <2>3 DEF Reads
<1>13. Readable'
  <2>1. ASSUME NEW e \in Domains PROVE \A x \in roots[e] : disk'[e][x[1]] = x[2]
    <3>1. roots[e] \in SUBSET Entries /\ Reads(e, roots[e])
      BY <1>1 DEF GateInv, Readable, Snapshots
    <3>2. Apart(list, roots["att"])
      BY DEF AttachedWrote
    <3> QED BY <1>11, <1>12, <3>1, <3>2
  <2>2. \A x \in tree : disk'["att"][x[1]] = x[2]
    BY DEF AttachedWrote
  <2> QED BY <1>2, <1>3, <1>5, <2>1, <2>2 DEF Readable, Reads, Domains
<1>14. ASSUME PinInv, \A h \in Holders : Apart(list, pins[h].snap["att"])
       PROVE  PinnedSnapshotsStable'
  <2> SUFFICES ASSUME NEW h \in Holders, NEW e \in Domains
               PROVE  \A x \in pins[h].snap[e] : disk'[e][x[1]] = x[2]
    BY <1>2 DEF PinnedSnapshotsStable, Reads
  <2>1. /\ pins[h].snap[e] \in SUBSET Entries /\ Reads(e, pins[h].snap[e])
        /\ Below(pins[h].snap[e], pc[e])
    BY <1>1, <1>5, <1>14 DEF PinInv, PinnedSnapshotsStable, Top, Snapshots
  <2> QED BY <1>12, <1>14, <2>1
<1> QED BY <1>3, <1>5, <1>6, <1>7, <1>8, <1>9, <1>10, <1>13, <1>14

\* commit_attachment of a file: it reuses its list when the registry was empty,
\* so every pin since is of the published roots.
LEMMA CommitAttachedFileSafe ==
    ASSUME GateInv, CommitAttachedFile
    PROVE  GateInv' /\ (PinInv => PinInv')
<1>1. FileCommits("att", w.reclaim, w.reclaim, 0)
  BY DEF CommitAttachedFile, FileCommits
<1>2. /\ w.phase = "att" /\ kind["att"] = "file"
      /\ UNCHANGED <<kind, roots, version, pins, poisoned, stamp>>
  BY DEF CommitAttachedFile
<1>3. /\ Ready("att") /\ Types /\ Apart(free["att"], roots["att"]) /\ "main" \in Domains
      /\ "att" \in Domains /\ roots["att"] \in SUBSET Entries /\ Below(roots["att"], pc["att"])
      /\ \A e \in Domains : Top(e) = pc[e]
  BY <1>2, CommitStart DEF Committing, Domains
<1>4. w \in Writers /\ w.reclaim \in BOOLEAN
  BY <1>3 DEF Types, Writers
<1>5. PICK due \in BOOLEAN, tree \in SUBSET Entries, over \in SUBSET Body :
        FileCommitted("att", tree, over, w.reclaim, w.reclaim /\ due, 0)
  <2>1. FileOutcome("att", w.reclaim, w.reclaim, 0)
    BY <1>1, <1>3, <1>4, CommitFileEffect
  <2> QED BY <2>1 DEF FileOutcome
<1> DEFINE list == Pool(free["att"], w.reclaim)
<1>6. list \subseteq free["att"]
  BY DEF Pool
<1>7. Apart(list, roots["att"])
  BY <1>3, <1>6 DEF Apart
<1> HIDE DEF list
<1>8. /\ w' = [w EXCEPT !.new["att"] = tree, !.phase = After("att")] /\ last' = last
      /\ Changes("att", over) /\ (\A p \in over : p >= pc["att"] \/ p \in list)
      /\ disk' \in [Domains -> [Body -> 0 .. MaxStamp]]
      /\ pc' \in [Domains -> 2 .. PageLimit] /\ free' \in [Domains -> SUBSET Body]
      /\ pc'["main"] = pc["main"] /\ free'["main"] = free["main"]
      /\ \A e \in tree : disk'["att"][e[1]] = e[2]
  BY <1>3, <1>5 DEF FileCommitted, list
<1>9. /\ Below(tree, pc'["att"]) /\ Apart(free'["att"], tree) /\ \A p \in free'["att"] : p < pc'["att"]
      /\ \A p \in Body : p < pc["att"] => p < pc'["att"] \/ p \in list
  BY <1>5 DEF FileCommitted, list
<1>10. freeGen' = freeGen
  BY <1>5 DEF FileCommitted, FreeGen
<1>11. AttachedWrote(tree, over, list)
  <2>1. w.new \in Snapshots /\ After("att") \in Phases
    BY <1>4 DEF Writers, After, Phases
  <2>2. [w.new EXCEPT !["att"] = tree] \in Snapshots
    BY <2>1 DEF Snapshots
  <2>3. /\ w' \in Writers /\ w'.phase = After("att") /\ w'.dirty = w.dirty
        /\ w'.n = w.n /\ w'.repair = w.repair /\ w'.oldest = w.oldest /\ (w'.compact <=> w.compact)
        /\ w'.new = [w.new EXCEPT !["att"] = tree]
    BY <1>4, <1>8, <2>1, <2>2 DEF Writers
  <2>4. last' \in [Domains -> SUBSET Body]
    BY <1>3, <1>8 DEF Types, TypeOK
  <2> QED BY <1>2, <1>7, <1>8, <1>10, <2>3, <2>4 DEF AttachedWrote
<1>12. /\ Types' /\ Stages' /\ Watermark' /\ Gens' /\ Final' /\ Readable'
       /\ w'.new["att"] = tree /\ w'.new["main"] = w.new["main"]
       /\ ~Adopting /\ ~Adopting' /\ ~Packed("main")' /\ Packed("att")'
       /\ PinInv /\ (\A h \in Holders : Apart(list, pins[h].snap["att"]))
            => PinnedSnapshotsStable'
  BY <1>11, AttachedWritten
<1>13. ~Staged' /\ ~Staged
  BY <1>2 DEF Staged
<1>14. ASSUME NEW snap \in SUBSET Entries, Below(snap, pc["att"]), Apart(list, snap)
       PROVE  Below(snap, pc'["att"])
  <2> SUFFICES ASSUME NEW e \in snap PROVE e[1] < pc'["att"]
    BY DEF Below
  <2> QED BY <1>9, <1>14 DEF Below, Apart, Entries
<1>15. Top("att")' = pc'["att"] /\ Top("main")' = pc["main"] /\ NewTop("att")' = pc'["att"]
  BY <1>2, <1>8, <1>12 DEF Top, NewTop
<1>16. Bounds'
  <2>1. Below(roots["att"], pc'["att"])
    BY <1>3, <1>7, <1>14
  <2>2. (\A p \in free["main"] : p < pc["main"]) /\ Below(roots["main"], pc["main"])
    BY <1>3 DEF GateInv, Bounds
  <2> QED BY <1>2, <1>8, <1>9, <1>12, <1>13, <1>15, <2>1, <2>2 DEF Bounds, Domains
<1>17. Lists'
  <2>1. freeGen <= version => Apart(free["main"], roots["main"])
    BY DEF GateInv, Lists
  <2> QED BY <1>2, <1>8, <1>9, <1>10, <1>12, <1>13, <2>1 DEF Lists
<1>18. ASSUME PinInv PROVE PinInv'
  <2>1. \A h \in Holders : Apart(list, pins[h].snap["att"])
    <3> SUFFICES ASSUME NEW h \in Holders PROVE Apart(list, pins[h].snap["att"])
      OBVIOUS
    <3>1. CASE w.reclaim
      <4>1. pins[h].snap["att"] = roots["att"] \/ pins[h].snap["att"] = {}
        BY <1>2, <1>18, <3>1 DEF PinInv, NoPin, Domains
      <4> QED BY <1>7, <4>1 DEF Apart
    <3>2. CASE ~w.reclaim
      BY <3>2 DEF Pool, Apart, list
    <3> QED BY <3>1, <3>2
  <2>2. \A h \in Holders, e \in Domains :
            pins[h].snap[e] \in SUBSET Entries /\ Below(pins[h].snap[e], pc[e])
    BY <1>3, <1>18 DEF PinInv, Types, TypeOK, Snapshots
  <2>3. (\A h \in Holders, e \in Domains : Below(pins[h].snap[e], Top(e)))'
    <3> SUFFICES ASSUME NEW h \in Holders PROVE \A e \in Domains : Below(pins[h].snap[e], Top(e)')
      BY <1>2
    <3>1. Below(pins[h].snap["att"], pc'["att"])
      BY <1>3, <1>14, <2>1, <2>2
    <3> QED BY <1>3, <1>15, <2>2, <3>1 DEF Domains
  <2>4. w'.phase \notin {"att", "adopting"}
    BY <1>12 DEF Packed, Packing
  <2>5. PinnedSnapshotsStable'
    BY <1>12, <1>18, <2>1
  <2>6. kind'["att"] # "memory"
    BY <1>2
  <2> QED BY <1>13, <2>3, <2>4, <2>5, <2>6 DEF PinInv
<1> QED BY <1>12, <1>16, <1>17, <1>18 DEF GateInv

\* commit_attachment in memory: the accounting waits, the pages are written.
\* Unless a limit forces it to rebuild its list under its readers, what it
\* overwrites is dead to every pin.
LEMMA StageAttachedSafe ==
    ASSUME GateInv, StageAttached
    PROVE  GateInv' /\ ("att" \notin Limited /\ PinInv => PinInv')
<1> DEFINE plan == MemoryPlan("att", TRUE)
           list == ListAfter("att", TRUE)
<1>1. PICK kept \in SUBSET roots["att"] :
        /\ plan.high <= PageLimit /\ Write("att", plan.pages, stamp)
        /\ free' = [free EXCEPT !["att"] = list]
        /\ w' = [w EXCEPT !.new["att"] = NewTree("att", kept, plan.pages),
                          !.high = plan.high, !.rest = plan.rest,
                          !.wrote = plan.pages, !.phase = After("att")]
  BY DEF StageAttached
<1>2. /\ w.phase = "att" /\ kind["att"] = "memory"
      /\ UNCHANGED <<kind, roots, version, pins, poisoned, stamp, pc, freeGen, last>>
  BY DEF StageAttached
<1>3. /\ Types /\ Apart(free["att"], roots["att"]) /\ Below(roots["att"], pc["att"])
      /\ Reads("att", roots["att"]) /\ (\A p \in free["att"] : p < pc["att"])
      /\ "main" \in Domains /\ "att" \in Domains /\ roots["att"] \in SUBSET Entries
      /\ \A e \in Domains : Top(e) = pc[e]
  BY <1>2, CommitStart DEF Committing, Domains
<1>4. /\ list \in SUBSET Body /\ \A p \in list : p < pc["att"]
      /\ Apart(list, roots["att"]) /\ (~Forces("att", TRUE) => list = free["att"])
      /\ plan.high \in Nat /\ plan.high >= pc["att"]
      /\ \A p \in plan.pages : /\ p \in Nat /\ p >= 2 /\ p < plan.high
                               /\ p >= pc["att"] \/ p \in Pool(list, TRUE \/ Forces("att", TRUE))
      /\ plan.high <= PageLimit => plan.pages \subseteq Body
      /\ plan.rest \subseteq list /\ \A p \in plan.pages : p \notin plan.rest
  BY <1>3, MemoryPlanEffect
<1> DEFINE tree == NewTree("att", kept, plan.pages)
<1> HIDE DEF plan, list
<1>5. \A p \in plan.pages : p >= pc["att"] \/ p \in list
  BY <1>4 DEF Pool
<1>6. plan.pages \in SUBSET Body /\ stamp \in 0 .. MaxStamp
  BY <1>1, <1>3, <1>4 DEF Types, TypeOK, Stamps
<1>7. /\ disk' \in [Domains -> [Body -> 0 .. MaxStamp]] /\ Changes("att", plan.pages)
      /\ \A p \in plan.pages : disk'["att"][p] = stamp
  <2>1. PICK d \in Domains : d = "att"
    BY <1>3
  <2>2. Write(d, plan.pages, stamp)
    BY <1>1, <2>1
  <2>3. /\ disk' \in [Domains -> [Body -> 0 .. MaxStamp]] /\ Changes(d, plan.pages)
        /\ \A p \in plan.pages : disk'[d][p] = stamp
    BY <1>3, <1>6, <2>2, WriteEffect
  <2> QED BY <2>1, <2>3
<1>8. \A e \in tree : disk'["att"][e[1]] = e[2]
  BY <1>3, <1>4, <1>5, <1>6, <1>7, TreeReads
<1>9. kept \in SUBSET Entries
  BY <1>3
<1>10. tree \in SUBSET Entries /\ \A e \in tree : e \in kept \/ (e[1] \in plan.pages /\ e[2] = stamp)
  BY <1>3, <1>6, <1>9, NewTreeEffect
<1>11. \A p \in Body : p \in Nat
  BY GateAssumption DEF Body
<1>12. pc["att"] \in Nat /\ pc \in [Domains -> 2 .. PageLimit] /\ PageLimit \in Nat
  BY <1>3, GateAssumption DEF Types, TypeOK
<1>13. Below(tree, plan.high) /\ Apart(plan.rest, tree)
  <2> SUFFICES ASSUME NEW e \in tree PROVE e[1] < plan.high /\ e[1] \notin plan.rest
    BY DEF Below, Apart
  <2>1. CASE e \in kept
    <3>1. e[1] \in Nat /\ e[1] < pc["att"] /\ e[1] \notin list
      BY <1>3, <1>4, <1>11, <2>1 DEF Below, Apart, Entries
    <3> QED BY <1>4, <1>12, <3>1
  <2>2. CASE e[1] \in plan.pages
    BY <1>4, <2>2
  <2> QED BY <1>10, <2>1, <2>2
<1>14. w' = [w EXCEPT !.new["att"] = tree, !.high = plan.high, !.rest = plan.rest,
                      !.wrote = plan.pages, !.phase = After("att")]
  BY <1>1
<1> HIDE DEF tree
<1>15. /\ w' \in Writers /\ w'.phase = After("att") /\ w'.dirty = w.dirty
       /\ w'.n = w.n /\ w'.repair = w.repair /\ w'.oldest = w.oldest /\ (w'.compact <=> w.compact)
       /\ w'.new = [w.new EXCEPT !["att"] = tree] /\ w'.high = plan.high /\ w'.rest = plan.rest
  <2>1. w \in Writers /\ w.new \in Snapshots /\ After("att") \in Phases
    BY <1>3 DEF Types, Writers, After, Phases
  <2>2. [w.new EXCEPT !["att"] = tree] \in Snapshots
    BY <1>10, <2>1 DEF Snapshots
  <2>3. plan.high \in 0 .. PageLimit /\ plan.rest \in SUBSET Body
    BY <1>1, <1>4, <1>12
  <2> QED BY <1>6, <1>14, <2>1, <2>2, <2>3 DEF Writers
<1>16. /\ free' \in [Domains -> SUBSET Body] /\ free'["main"] = free["main"] /\ free'["att"] = list
  <2>1. free \in [Domains -> SUBSET Body]
    BY <1>3 DEF Types, TypeOK
  <2> QED BY <1>1, <1>3, <1>4, <2>1
<1>17. AttachedWrote(tree, plan.pages, list)
  <2>1. last \in [Domains -> SUBSET Body]
    BY <1>3 DEF Types, TypeOK
  <2> QED BY <1>2, <1>4, <1>5, <1>7, <1>8, <1>12, <1>15, <1>16, <2>1 DEF AttachedWrote, tree
<1>18. /\ Types' /\ Stages' /\ Watermark' /\ Gens' /\ Final' /\ Readable'
       /\ w'.new["att"] = tree /\ w'.new["main"] = w.new["main"]
       /\ ~Adopting /\ ~Adopting' /\ ~Packed("main")' /\ Packed("att")'
       /\ PinInv /\ (\A h \in Holders : Apart(list, pins[h].snap["att"]))
            => PinnedSnapshotsStable'
  <2>1. tree \in SUBSET Entries
    BY <1>10 DEF tree
  <2> QED BY <1>6, <1>17, <2>1, AttachedWritten
<1>19. Top("att")' = pc["att"] /\ Top("main")' = pc["main"] /\ NewTop("att")' = plan.high
  BY <1>2, <1>15, <1>18 DEF Top, NewTop
<1>20. Below(tree, plan.high) /\ Apart(plan.rest, tree) /\ Apart(plan.rest, roots["att"])
       /\ plan.high >= pc["att"] /\ \A p \in plan.rest : p < pc["att"]
  BY <1>4, <1>13 DEF tree, Apart
<1>21. Bounds'
  <2>1. (\A p \in free["main"] : p < pc["main"]) /\ Below(roots["main"], pc["main"])
    BY <1>3 DEF GateInv, Bounds
  <2>2. \A p \in list : p < pc["att"]
    BY <1>4
  <2> QED BY <1>2, <1>3, <1>15, <1>16, <1>18, <1>19, <1>20, <2>1, <2>2 DEF Bounds, Domains
<1>22. Lists'
  <2>1. freeGen <= version => Apart(free["main"], roots["main"])
    BY DEF GateInv, Lists
  <2>2. kind'["att"] # "file" /\ Apart(list, roots["att"])
    BY <1>2, <1>4
  <2> QED BY <1>2, <1>15, <1>16, <1>18, <1>20, <2>1, <2>2 DEF Lists
<1>23. ASSUME "att" \notin Limited, PinInv PROVE PinInv'
  <2>1. list = free["att"]
    <3>1. ~Forces("att", TRUE)
      BY <1>23 DEF Forces, Fits
    <3> QED BY <1>4, <3>1
  <2>2. \A h \in Holders : Apart(list, pins[h].snap["att"])
    BY <1>2, <1>18, <1>23, <2>1 DEF PinInv
  <2>3. PinnedSnapshotsStable'
    BY <1>18, <1>23, <2>2
  <2>4. (\A h \in Holders, e \in Domains : Below(pins[h].snap[e], Top(e)))'
    BY <1>2, <1>3, <1>19, <1>23 DEF PinInv, Domains
  <2>5. \A h \in Holders : Apart(plan.rest, pins[h].snap["att"])
    BY <1>4, <2>2 DEF Apart
  <2>6. w'.phase \notin {"att", "adopting"}
    BY <1>18 DEF Packed, Packing
  <2>7. (\A h \in Holders : Apart(free["att"], pins[h].snap["att"]))'
        /\ (\A h \in Holders : Apart(w.rest, pins[h].snap["att"]))'
    BY <1>2, <1>15, <1>16, <2>2, <2>5
  <2> QED BY <2>3, <2>4, <2>6, <2>7 DEF PinInv
<1> QED BY <1>18, <1>21, <1>22, <1>23 DEF GateInv

-----------------------------------------------------------------------------
(* The theorems.                                                           *)

\* Every step keeps the invariant, and what the pins add to it where no storage
\* limit binds the attachment.
LEMMA GateStep ==
    ASSUME GateInv, [Next]_vars
    PROVE  GateInv' /\ ("att" \notin Limited /\ PinInv => PinInv')
<1>1. CASE UNCHANGED vars
  <2>1. UNCHANGED <<kind, disk, roots, version, pins, pc, free, freeGen, last, poisoned, stamp, w>>
    BY <1>1 DEF vars
  <2>2. /\ (Adopting' <=> Adopting) /\ (Staged' <=> Staged) /\ (\A d \in Domains : Packed(d)' <=> Packed(d))
        /\ \A d \in Domains : Top(d)' = Top(d) /\ NewTop(d)' = NewTop(d)
    BY <2>1 DEF Adopting, Staged, Packed, Top, NewTop
  <2>3. Types' /\ Stages' /\ Watermark' /\ Gens'
    <3>1. Packed("main")' <=> Packed("main")
      BY <2>2 DEF Domains
    <3> QED BY <2>1, <2>2, <3>1 DEF GateInv, Types, TypeOK, Stages, Watermark, Gens
  <2>4. Final'
    <3>1. FitsWith(TRUE)' = FitsWith(TRUE) /\ FitsWith(FALSE)' = FitsWith(FALSE)
      BY <2>1, FitsFrame
    <3> QED BY <2>1, <3>1 DEF GateInv, Final
  <2>5. Readable' /\ Bounds' /\ Lists'
    <3>1. (Packed("main")' <=> Packed("main")) /\ (Packed("att")' <=> Packed("att"))
      BY <2>2 DEF Domains
    <3>2. Readable'
      BY <2>1, <2>2 DEF GateInv, Readable, Reads
    <3>3. Bounds'
      BY <2>1, <2>2 DEF GateInv, Bounds
    <3> QED BY <2>1, <2>2, <3>1, <3>2, <3>3 DEF GateInv, Lists
  <2>6. ASSUME PinInv PROVE PinInv'
    <3>1. PinnedSnapshotsStable'
      BY <2>1, <2>6 DEF PinInv, PinnedSnapshotsStable, Reads
    <3> QED BY <2>1, <2>2, <2>6, <3>1 DEF PinInv
  <2> QED BY <2>3, <2>4, <2>5, <2>6 DEF GateInv
<1>2. ASSUME NEW h \in Holders, PinLatest(h) \/ Release(h)
      PROVE  GateInv' /\ (PinInv => PinInv')
  BY <1>2, PinLatestSafe, ReleaseSafe
<1>3. ASSUME NEW h \in Holders, NEW g \in Holders, CursorPin(h, g)
      PROVE  GateInv' /\ (PinInv => PinInv')
  BY <1>3, CursorPinSafe
<1>4. ASSUME NEW n \in [Domains -> 0 .. MaxTree], NEW repair \in SUBSET Domains, Begin(n, repair)
      PROVE  GateInv' /\ (PinInv => PinInv')
  BY <1>4, BeginSafe
<1>5. ASSUME Precheck \/ StageAttached \/ \E d \in Domains : Reject(d)
      PROVE  GateInv' /\ ("att" \notin Limited /\ PinInv => PinInv')
  BY <1>5, PrecheckSafe, StageAttachedSafe, RejectSafe
<1>6. ASSUME ReadGate \/ ReadWatermark \/ ReadRegistry \/ Publish \/ Adopt
      PROVE  GateInv' /\ (PinInv => PinInv')
  BY <1>6, ReadGateSafe, ReadWatermarkSafe, ReadRegistrySafe, PublishSafe, AdoptSafe
<1>7. ASSUME CommitAttachedFile \/ PersistFile \/ PersistMemory
      PROVE  GateInv' /\ (PinInv => PinInv')
  BY <1>7, CommitAttachedFileSafe, PersistFileSafe, PersistMemorySafe
<1>8. ASSUME NEW d \in Domains, CommitFails(d) \/ Compact(d)
      PROVE  GateInv' /\ (PinInv => PinInv')
  BY <1>8, CommitFailsSafe, CompactSafe
<1> QED BY <1>1, <1>2, <1>3, <1>4, <1>5, <1>6, <1>7, <1>8 DEF Next

\* The invariant holds of every behaviour.
THEOREM GateInvariant == Spec => []GateInv
<1>1. Init => GateInv
  BY GateInit
<1>2. GateInv /\ [Next]_vars => GateInv'
  BY GateStep
<1> QED BY <1>1, <1>2, PTL DEF Spec

\* Every plan a commit carries out stays below the page limit and names body
\* pages, whatever the readers, the storage limits and the failures.
THEOREM SnapshotGateTypes == Spec => []TypeOK
<1>1. GateInv => TypeOK
  BY DEF GateInv, Types
<1> QED BY <1>1, GateInvariant, PTL

\* The published roots stay readable: no commit in progress, failed or rejected,
\* and no compaction overwrites a page that the next reader would pin.
THEOREM RootsStayReadable == Spec => []PublishedRootsReadable
<1>1. GateInv => PublishedRootsReadable
  BY DEF GateInv, Readable, PublishedRootsReadable
<1> QED BY <1>1, GateInvariant, PTL

\* A pin no older than the generation of main's free list reads none of its
\* pages: the comparison of the oldest pin with free_gen_txid is enough.
THEOREM GenerationStaysSafe == Spec => []GenerationGate
<1>1. GateInv => GenerationGate
  <2> SUFFICES ASSUME GateInv, NEW h \in Holders, pins[h].ver >= freeGen
               PROVE  free["main"] \cap PagesOf(pins[h].snap["main"]) = {}
    BY DEF GenerationGate
  <2>1. Apart(free["main"], pins[h].snap["main"])
    BY DEF GateInv, Gens
  <2> QED BY <2>1 DEF Apart, PagesOf
<1> QED BY <1>1, GateInvariant, PTL

\* Once a transaction passed precheck_budgets and its attachment is written,
\* main's plan is never rejected for its size, whatever pins came and went.
THEOREM PrecheckStaysFinal == Spec => []PrecheckIsFinal
<1>1. GateInv => PrecheckIsFinal
  BY AdmittedMain
<1> QED BY <1>1, GateInvariant, PTL

\* So does what the pins add, where no storage limit binds the attachment.
THEOREM PinInvariant ==
    ASSUME "att" \notin Limited
    PROVE  Spec => [](GateInv /\ PinInv)
<1>1. Init => GateInv /\ PinInv
  BY GateInit
<1>2. (GateInv /\ PinInv) /\ [Next]_vars => (GateInv /\ PinInv)'
  BY GateStep
<1> QED BY <1>1, <1>2, PTL DEF Spec

\* Snapshot isolation: where no storage limit binds the attachment, every page
\* of every pinned snapshot keeps the bytes it was published with.
THEOREM PinsStayStable ==
    ASSUME "att" \notin Limited
    PROVE  Spec => []PinnedSnapshotsStable
<1>1. GateInv /\ PinInv => PinnedSnapshotsStable
  BY DEF PinInv
<1> QED BY <1>1, PinInvariant, PTL

\* Where no storage limit binds it, an in-memory attachment may reuse its free
\* list without asking the watermark: no pin reads a page of it.
THEOREM UngatedListStaysDead ==
    ASSUME "att" \notin Limited
    PROVE  Spec => []UngatedListDead
<1>1. GateInv /\ PinInv => UngatedListDead
  <2> SUFFICES ASSUME PinInv, kind["att"] = "memory", w.phase \notin {"adopt", "adopting"},
                      NEW h \in Holders
               PROVE  free["att"] \cap PagesOf(pins[h].snap["att"]) = {}
    BY DEF UngatedListDead
  <2>1. Apart(free["att"], pins[h].snap["att"])
    BY DEF PinInv, Adopting
  <2> QED BY <2>1 DEF Apart, PagesOf
<1> QED BY <1>1, PinInvariant, PTL

=============================================================================
