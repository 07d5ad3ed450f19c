------------------------- MODULE ValidatedCowProofs -------------------------
(***************************************************************************)
(* Type correctness of the storage engine for every page limit, every      *)
(* number of commits and faults, every capacity and every growth policy.   *)
(* Most of it is page arithmetic: what the allocator draws, what the       *)
(* free-list plan lists and where a cut leaves the file stay in range.     *)
(***************************************************************************)
EXTENDS ValidatedCow, FiniteSetTheorems, TLAPS

-----------------------------------------------------------------------------
(* Sets of pages are finite, and what the allocator draws from them.       *)

\* A set of body pages has a natural number of elements.
LEMMA PagesFinite ==
    ASSUME NEW S \in SUBSET Body
    PROVE  IsFiniteSet(S) /\ Cardinality(S) \in Nat
<1>1. IsFiniteSet(Body)
  BY SizeAssumption, FS_Interval DEF Body
<1>2. IsFiniteSet(S)
  BY <1>1, FS_Subset
<1> QED BY <1>2, FS_CardinalityType

\* PageAlloc never asks the high-water for a negative number of pages.
LEMMA FromHighNat ==
    ASSUME NEW S \in SUBSET Body, NEW n \in Nat
    PROVE  FromHigh(S, n) \in Nat
BY PagesFinite DEF FromHigh

\* PageAlloc draws body pages as long as the high-water stays in the limit.
LEMMA DrawInBody ==
    ASSUME NEW S \in SUBSET Body, NEW n \in Nat, NEW next \in Nat, next >= 2,
           next + FromHigh(S, n) <= PageLimit
    PROVE  Draw(S, n, next) \subseteq Body
<1>1. Lowest(S, n) \subseteq Body
  BY DEF Lowest
<1>2. (next .. next + FromHigh(S, n) - 1) \subseteq Body
  BY FromHighNat, SizeAssumption DEF Body
<1> QED BY <1>1, <1>2 DEF Draw

\* The pages of a set of entries are body pages.
LEMMA PagesOfEntries ==
    ASSUME NEW E \in SUBSET Entries
    PROVE  PagesOf(E) \subseteq Body
BY DEF PagesOf, Entries

\* serialize_free_list draws a natural number of chain pages.
LEMMA ChainLengthNat ==
    ASSUME NEW listed \in Nat, NEW safe \in Nat
    PROVE  ChainLength(listed, safe) \in Nat
<1> DEFINE C == {c \in 0 .. listed :
                    listed - (IF c < safe THEN c ELSE safe) > c * ListCap}
<1>1. IsFiniteSet(0 .. listed)
  BY FS_Interval
<1>2. C \in SUBSET (0 .. listed)
  OBVIOUS
<1>3. IsFiniteSet(C)
  BY <1>1, <1>2, FS_Subset
<1>4. Cardinality(C) \in Nat
  BY <1>3, FS_CardinalityType
<1> QED BY <1>4 DEF ChainLength

\* A layout whose high-water fits the limit uses body pages only.
LEMMA LayoutInBody ==
    ASSUME NEW list \in SUBSET Body, NEW safe \in SUBSET Body,
           NEW base \in Nat, base >= 2, NEW n \in Nat,
           Layout(list, safe, base, n).pc <= PageLimit
    PROVE  /\ Layout(list, safe, base, n).pc \in 2 .. PageLimit
           /\ Layout(list, safe, base, n).over \subseteq Body
           /\ Layout(list, safe, base, n).chain \subseteq Body
           /\ Layout(list, safe, base, n).left \subseteq Body
<1> DEFINE over  == Draw(safe, n, base)
           next  == base + FromHigh(safe, n)
           avail == safe \ over
           count == ChainLength(Cardinality(list \ over), Cardinality(avail))
           chain == Draw(avail, count, next)
<1> USE SizeAssumption
<1>1. avail \in SUBSET Body /\ list \ over \in SUBSET Body
  OBVIOUS
<1>2. Cardinality(list \ over) \in Nat /\ Cardinality(avail) \in Nat
  BY <1>1, PagesFinite
<1>3. count \in Nat
  BY <1>2, ChainLengthNat
<1>4. FromHigh(safe, n) \in Nat /\ FromHigh(avail, count) \in Nat
  BY <1>1, <1>3, FromHighNat
<1>5. next \in Nat /\ next >= 2
  BY <1>4
<1>6. /\ Layout(list, safe, base, n).pc = next + FromHigh(avail, count)
      /\ Layout(list, safe, base, n).over = over
      /\ Layout(list, safe, base, n).chain = chain
      /\ Layout(list, safe, base, n).left = (list \ over) \ chain
  BY DEF Layout
<1> HIDE DEF count, avail
<1>7. next + FromHigh(avail, count) <= PageLimit
  BY <1>6
<1>8. chain \subseteq Body
  BY <1>1, <1>3, <1>5, <1>7, DrawInBody
<1>9. base + FromHigh(safe, n) <= PageLimit
  BY <1>4, <1>5, <1>7
<1>10. over \subseteq Body
  BY <1>9, DrawInBody
<1> QED BY <1>1, <1>4, <1>5, <1>6, <1>7, <1>8, <1>10

-----------------------------------------------------------------------------
(* The device's steps keep its type.                                       *)

\* The ranges of blocks, stamps and contents fit together.
LEMMA BlockFacts ==
    /\ Body \subseteq Blocks /\ 0 \in Blocks /\ 1 \in Blocks
    /\ Stamps \subseteq Contents /\ Torn \in Contents /\ Zero \in Contents
    /\ Body \subseteq Nat /\ Stamps \subseteq Nat
BY SizeAssumption DEF Blocks, Slots, Body, Stamps, Contents, Torn, Zero

\* A page or meta write, completed or failing (write_block), keeps the storage well typed.
LEMMA IssueOK ==
    ASSUME StorageOK, NEW b \in Blocks, NEW v \in Stamps,
           Issue(b, v) \/ IssueFailing(b, v), UNCHANGED <<len, lens>>
    PROVE  StorageOK'
<1>1. v \in Contents /\ Torn \in Contents
  BY BlockFacts
<1>2. disk' \in [Blocks -> Contents]
  BY <1>1 DEF StorageOK, Issue, IssueFailing
<1>3. poss' \in [Blocks -> SUBSET Contents]
  BY <1>1 DEF StorageOK, Issue, IssueFailing
<1> QED BY <1>2, <1>3 DEF StorageOK

\* Reserving the file (Pager::reserve) keeps the storage well typed.
LEMMA ReserveOK ==
    ASSUME StorageOK, NEW need, NEW first \in BOOLEAN, Reserve(need, first)
    PROVE  StorageOK'
BY DEF StorageOK, Reserve, Durable

\* The length trim_slack cuts to is a natural number.
LEMMA TrimTargetNat ==
    ASSUME NEW pc \in Nat
    PROVE  TrimTarget(pc) \in Nat
BY GrowthAssumption DEF TrimTarget, GrowthStep

\* A barrier with the deferred cut (sync, shrink_after_barrier) keeps the
\* storage well typed: the cut only shortens the file.
LEMMA BarrierAndShrinkOK ==
    ASSUME StorageOK, NEW due \in BOOLEAN, NEW pc \in Nat, BarrierAndShrink(due, pc)
    PROVE  StorageOK'
<1>1. CASE ~due
  BY <1>1 DEF StorageOK, BarrierAndShrink, Barrier, Durable
<1>2. CASE due
  <2>1. PICK t \in IF len > TrimTarget(pc) THEN {TrimTarget(pc), len} ELSE {len} :
          /\ len' = t
          /\ lens' = {len, t}
          /\ disk' = [b \in Blocks |-> IF b \in t .. len - 1 THEN Zero ELSE disk[b]]
          /\ poss' = [b \in Blocks |-> {disk[b], disk'[b]}]
    BY <1>2 DEF BarrierAndShrink, TrimSlack
  <2>2. t \in Lengths
    BY TrimTargetNat, SizeAssumption, GrowthAssumption DEF StorageOK, Lengths
  <2>3. disk' \in [Blocks -> Contents]
    BY <2>1, BlockFacts DEF StorageOK
  <2>4. poss' \in [Blocks -> SUBSET Contents]
    BY <2>1, <2>3 DEF StorageOK
  <2> QED BY <2>1, <2>2, <2>3, <2>4 DEF StorageOK
<1> QED BY <1>1, <1>2

-----------------------------------------------------------------------------
(* The actions.                                                            *)

\* A file just created is well typed.
LEMMA TypeInit == Init => TypeOK
<1> SUFFICES ASSUME Init PROVE TypeOK
  OBVIOUS
<1> USE SizeAssumption, GrowthAssumption
<1>1. 1 \in Stamps /\ 2 \in Body
  BY DEF Stamps, Body
<1>2. StorageOK
  <2>1. disk \in [Blocks -> Contents]
    BY <1>1, BlockFacts DEF Init
  <2>2. poss \in [Blocks -> SUBSET Contents]
    BY <2>1 DEF Init
  <2>3. len \in Lengths /\ lens \subseteq Lengths
    BY DEF Init, Lengths
  <2> QED BY <2>1, <2>2, <2>3 DEF StorageOK
<1>3. AttemptsOK
  <2>1. NoGen \in Generations
    BY DEF NoGen, Generations
  <2>2. Created \in Generations
    <3>1. {<<2, 1>>} \in SUBSET Entries
      BY <1>1 DEF Entries
    <3> QED BY <3>1 DEF Created, Generations
  <2>3. gen \in [Stamps -> Generations]
    BY <2>1, <2>2 DEF Init
  <2>4. job \in Jobs /\ job.phase = "idle"
    BY DEF Init, Idle, Jobs
  <2> QED BY <1>1, <2>3, <2>4 DEF Init, AttemptsOK
<1>4. HandleOK
  BY DEF Init, HandleOK
<1>5. PagerOK
  BY DEF Init, PagerOK, Slots
<1>6. DomainOK
  BY <1>1 DEF Init, DomainOK
<1>7. HistoryOK
  BY <1>1 DEF Init, HistoryOK
<1> QED BY <1>2, <1>3, <1>4, <1>5, <1>6, <1>7 DEF TypeOK

\* Parts of the state that a step leaves alone keep their type.
LEMMA Unchanged ==
    /\ StorageOK /\ UNCHANGED storage => StorageOK'
    /\ AttemptsOK /\ UNCHANGED <<gen, stamp, job>> /\ (mode' = mode \/ mode' # "up")
         => AttemptsOK'
    /\ HandleOK /\ UNCHANGED handle /\ UNCHANGED faults => HandleOK'
    /\ PagerOK /\ UNCHANGED pagerVars => PagerOK'
    /\ DomainOK /\ UNCHANGED domain => DomainOK'
    /\ HistoryOK /\ UNCHANGED history => HistoryOK'
BY DEF storage, handle, pagerVars, domain, history, StorageOK, AttemptsOK,
       HandleOK, PagerOK, DomainOK, HistoryOK

\* Fault: the counter stays under its bound.
LEMMA FaultOK ==
    ASSUME HandleOK, Fault
    PROVE  faults' \in 0 .. MaxFault
BY SizeAssumption DEF HandleOK, Fault

\* The published generation has a high-water in range and a tree of body pages.
LEMMA CurrentGeneration ==
    ASSUME AttemptsOK, DomainOK
    PROVE  /\ gen[cur] \in Generations
           /\ gen[cur].pc \in Nat /\ gen[cur].pc >= 2 /\ gen[cur].pc <= PageLimit
           /\ gen[cur].tree \in SUBSET Entries
           /\ gen[cur].txid \in Nat
<1>1. gen[cur] \in Generations
  BY DEF AttemptsOK, DomainOK
<1> QED BY <1>1, SizeAssumption DEF Generations

\* Forget: the pager's and the domain's memory is gone.
LEMMA ForgetOK ==
    ASSUME TypeOK, Forget
    PROVE  AttemptsOK' /\ PagerOK' /\ DomainOK'
<1>1. AttemptsOK'
  <2>1. job' \in Jobs
    <3>1. job.phase \in {"idle", "body", "aux", "meta", "failed"}
          /\ job.w \in 0 .. MaxStamp
      BY DEF TypeOK, AttemptsOK, Jobs
    <3>2. job' = [Idle EXCEPT !.phase = job.phase, !.w = job.w]
      BY DEF Forget
    <3>3. Idle \in Jobs
      BY SizeAssumption DEF Idle, Jobs
    <3> QED BY <3>1, <3>2, <3>3 DEF Jobs
  <2> QED BY <2>1 DEF TypeOK, AttemptsOK, Forget
<1>2. PagerOK'
  BY DEF TypeOK, PagerOK, Forget, Slots
<1>3. DomainOK'
  BY DEF TypeOK, DomainOK, Forget
<1> QED BY <1>1, <1>2, <1>3

\* commit_file up to the body: the pages it will write are body pages.
LEMMA BeginOK ==
    ASSUME TypeOK, Begin
    PROVE  TypeOK'
<1> USE SizeAssumption
<1>0. PICK dropped \in SUBSET PagesOf(gen[cur].tree), reclaim \in BOOLEAN,
           reuse \in BOOLEAN :
        \E n \in 1 .. MaxTree - Cardinality(PagesOf(gen[cur].tree) \ dropped) :
            BeginCommit(dropped, n, reclaim, reuse)
  BY DEF Begin
<1>1. PICK n \in 1 .. MaxTree - Cardinality(PagesOf(gen[cur].tree) \ dropped) :
        BeginCommit(dropped, n, reclaim, reuse)
  BY <1>0
<1> DEFINE w     == stamp + 1
           pool  == Reusable(reuse)
           pc    == gen[cur].pc + FromHigh(pool, n)
           pages == Draw(pool, n, gen[cur].pc)
<1>2. /\ n \in Nat /\ gen[cur].pc \in Nat /\ gen[cur].pc >= 2
      /\ gen[cur].tree \in SUBSET Entries
  <2>1. PagesOf(gen[cur].tree) \ dropped \in SUBSET Body
    BY CurrentGeneration, PagesOfEntries DEF TypeOK
  <2>2. Cardinality(PagesOf(gen[cur].tree) \ dropped) \in Nat
    BY <2>1, PagesFinite
  <2> QED BY <2>2, CurrentGeneration DEF TypeOK
<1>3. pool \in SUBSET Body /\ free \in SUBSET Body
  BY DEF Reusable, TypeOK, DomainOK
<1>4. pc <= PageLimit /\ stamp < MaxStamp
  BY <1>1 DEF BeginCommit
<1>5. w \in Stamps
  BY <1>4 DEF TypeOK, AttemptsOK, Stamps
<1>6. pages \in SUBSET Body
  BY <1>2, <1>3, <1>4, DrawInBody
<1>7. pc \in 0 .. PageLimit
  BY <1>2, <1>3, <1>4, FromHighNat
<1> HIDE DEF pool, pc, pages
<1>8. job' \in Jobs /\ job'.w = w
  <2>1. job' = [phase |-> "body", w |-> w, todo |-> pages, written |-> pages,
               tree |-> {e \in gen[cur].tree : e[1] \notin dropped}
                        \cup {<<p, w>> : p \in pages},
               rest |-> free \ Lowest(pool, n), safe |-> pool \ Lowest(pool, n),
               pc |-> pc, reclaim |-> reclaim, left |-> {}, live |-> 0]
    BY <1>1 DEF BeginCommit, pool, pc, pages
  <2>2. {e \in gen[cur].tree : e[1] \notin dropped} \cup {<<p, w>> : p \in pages}
            \in SUBSET Entries
    BY <1>2, <1>5, <1>6 DEF Entries
  <2>3. w \in 0 .. MaxStamp
    BY <1>5 DEF Stamps
  <2> QED BY <2>1, <2>2, <2>3, <1>3, <1>6, <1>7 DEF Jobs
<1>9. Reserve(pc, stab)
  BY <1>1 DEF BeginCommit, pool, pc
<1>10. StorageOK'
  BY <1>9, ReserveOK DEF TypeOK, PagerOK
<1>11. AttemptsOK'
  BY <1>1, <1>5, <1>8 DEF TypeOK, AttemptsOK, BeginCommit
<1>12. HandleOK'
  BY <1>1, Unchanged DEF TypeOK, BeginCommit
<1>13. PagerOK'
  BY <1>1 DEF TypeOK, PagerOK, BeginCommit
<1>14. DomainOK'
  BY <1>1 DEF TypeOK, DomainOK, BeginCommit
<1>15. HistoryOK'
  BY <1>1 DEF TypeOK, DomainOK, HistoryOK, BeginCommit
<1> QED BY <1>10, <1>11, <1>12, <1>13, <1>14, <1>15 DEF TypeOK

\* write_block of a body page.
LEMMA WritePageOK ==
    ASSUME TypeOK, WritePage
    PROVE  TypeOK'
<1>1. PICK p \in job.todo : Issue(p, job.w) /\ job' = [job EXCEPT !.todo = @ \ {p}]
  BY DEF WritePage
<1>2. p \in Blocks /\ job.w \in Stamps
  BY BlockFacts DEF TypeOK, AttemptsOK, Jobs, WritePage
<1>3. StorageOK'
  BY <1>1, <1>2, IssueOK DEF TypeOK, WritePage
<1>4. job' \in Jobs /\ job'.w = job.w
  BY <1>1 DEF TypeOK, AttemptsOK, Jobs
<1>5. AttemptsOK'
  BY <1>2, <1>4 DEF TypeOK, AttemptsOK, WritePage
<1> QED BY <1>3, <1>5, Unchanged DEF TypeOK, WritePage

\* plan_free_list and the reservation of the chain and manifest pages.
LEMMA PlanFreeListOK ==
    ASSUME TypeOK, PlanFreeList
    PROVE  TypeOK'
<1> USE SizeAssumption
<1>1. PICK base \in 2 .. job.pc, n \in Lengths :
        LET safe == {p \in job.safe : p < base}
            list == {p \in Listed : p < base}
            plan == Layout(list, safe, base, n)
        IN  /\ mode = "up" /\ job.phase = "body"
            /\ IF plan.pc > PageLimit
               THEN /\ job' = [job EXCEPT !.phase = "failed"]
                    /\ UNCHANGED <<storage, gen>>
               ELSE /\ gen' = [gen EXCEPT ![job.w] = Sealed(plan)]
                    /\ job' = [job EXCEPT !.phase = "aux",
                                  !.todo = plan.chain \cup plan.over,
                                  !.left = plan.left,
                                  !.live = IF Compacts THEN Cardinality(Reached)
                                                       ELSE liveAt]
                    /\ Reserve(plan.pc, FALSE)
            /\ UNCHANGED <<stamp, handle, pagerVars, domain, faults, history>>
  BY DEF PlanFreeList
<1> DEFINE safe == {p \in job.safe : p < base}
           list == {p \in Listed : p < base}
           plan == Layout(list, safe, base, n)
<1>2. job \in Jobs /\ job.pc \in 0 .. PageLimit /\ job.w \in Stamps
  BY <1>1 DEF TypeOK, AttemptsOK, Jobs
<1>3. base \in Nat /\ base >= 2 /\ n \in Nat
  BY <1>2, GrowthAssumption DEF Lengths
<1>4. Listed \in SUBSET Body /\ Reached \in SUBSET Body
  <2>1. (2 .. job.pc - 1) \subseteq Body
    BY <1>2 DEF Body
  <2>2. job.tree \in SUBSET Entries /\ job.written \in SUBSET Body
        /\ job.rest \in SUBSET Body
    BY <1>2 DEF Jobs
  <2> QED BY <2>1, <2>2, PagesOfEntries DEF Listed, Reached
<1>5. safe \in SUBSET Body /\ list \in SUBSET Body
  BY <1>2, <1>4 DEF Jobs
<1> HIDE DEF safe, list
<1>6. CASE plan.pc > PageLimit
  <2>1. job' = [job EXCEPT !.phase = "failed"] /\ UNCHANGED <<storage, gen>>
    BY <1>1, <1>6 DEF safe, list
  <2>2. job' \in Jobs /\ job'.phase = "failed"
    BY <2>1, <1>2 DEF Jobs
  <2>3. AttemptsOK'
    BY <2>1, <2>2, <1>1 DEF TypeOK, AttemptsOK
  <2> QED BY <1>1, <2>1, <2>3, Unchanged DEF TypeOK
<1>7. CASE ~(plan.pc > PageLimit)
  <2>1. plan.pc \in Int
    <3>1. FromHigh(safe, n) \in Nat
      BY <1>3, <1>5, FromHighNat
    <3>2. safe \ Draw(safe, n, base) \in SUBSET Body
          /\ list \ Draw(safe, n, base) \in SUBSET Body
      BY <1>5
    <3>3. Cardinality(safe \ Draw(safe, n, base)) \in Nat
          /\ Cardinality(list \ Draw(safe, n, base)) \in Nat
      BY <3>2, PagesFinite
    <3>4. ChainLength(Cardinality(list \ Draw(safe, n, base)),
                      Cardinality(safe \ Draw(safe, n, base))) \in Nat
      BY <3>3, ChainLengthNat
    <3>5. FromHigh(safe \ Draw(safe, n, base),
                   ChainLength(Cardinality(list \ Draw(safe, n, base)),
                               Cardinality(safe \ Draw(safe, n, base)))) \in Nat
      BY <3>2, <3>4, FromHighNat
    <3> QED BY <3>1, <3>5, <1>3 DEF Layout
  <2>2. plan.pc <= PageLimit
    BY <2>1, <1>7
  <2>3. /\ plan.pc \in 2 .. PageLimit /\ plan.over \subseteq Body
        /\ plan.chain \subseteq Body /\ plan.left \subseteq Body
    BY <2>2, <1>3, <1>5, LayoutInBody
  <2> HIDE DEF plan
  <2>4. /\ gen' = [gen EXCEPT ![job.w] = Sealed(plan)]
        /\ job' = [job EXCEPT !.phase = "aux",
                              !.todo = plan.chain \cup plan.over,
                              !.left = plan.left,
                              !.live = IF Compacts THEN Cardinality(Reached)
                                                   ELSE liveAt]
        /\ Reserve(plan.pc, FALSE)
    BY <1>1, <1>7 DEF plan, safe, list
  <2>5. Sealed(plan) \in Generations
    <3>1. pending \cup {<<p, job.w>> : p \in job.written \cup plan.chain}
              \in SUBSET Entries
      BY <1>2, <2>3 DEF TypeOK, PagerOK, Entries, Jobs
    <3>2. gen[cur].txid + 1 \in Nat
      BY CurrentGeneration DEF TypeOK
    <3>3. job.tree \in SUBSET Entries
      BY <1>2 DEF Jobs
    <3> QED BY <3>1, <3>2, <3>3, <2>3 DEF Sealed, Generations
  <2>6. gen' \in [Stamps -> Generations]
    BY <2>4, <2>5 DEF TypeOK, AttemptsOK
  <2>7. job' \in Jobs /\ job'.w = job.w
    <3>1. Cardinality(Reached) \in Nat /\ liveAt \in Nat
      BY <1>4, PagesFinite DEF TypeOK, DomainOK
    <3> QED BY <2>3, <2>4, <1>2, <3>1 DEF Jobs
  <2>8. AttemptsOK'
    BY <1>1, <1>2, <2>6, <2>7 DEF TypeOK, AttemptsOK
  <2>9. StorageOK'
    BY <2>4, ReserveOK DEF TypeOK
  <2> QED BY <1>1, <2>8, <2>9, Unchanged DEF TypeOK
<1> QED BY <1>6, <1>7

\* write_block of the meta page.
LEMMA WriteMetaOK ==
    ASSUME TypeOK, WriteMeta
    PROVE  TypeOK'
<1>1. OtherSlot \in Blocks /\ job.w \in Stamps
  BY BlockFacts DEF OtherSlot, Slots, TypeOK, PagerOK, AttemptsOK, WriteMeta
<1>2. StorageOK'
  BY <1>1, IssueOK DEF TypeOK, WriteMeta
<1>3. job' \in Jobs /\ job'.w = job.w
  BY DEF TypeOK, AttemptsOK, Jobs, WriteMeta
<1>4. AttemptsOK'
  BY <1>1, <1>3 DEF TypeOK, AttemptsOK, WriteMeta
<1>5. HistoryOK'
  BY <1>1 DEF TypeOK, HistoryOK, WriteMeta
<1> QED BY <1>2, <1>4, <1>5, Unchanged DEF TypeOK, WriteMeta

\* finish_commit and settle_truncation.
LEMMA FinishCommitOK ==
    ASSUME TypeOK, FinishCommit
    PROVE  TypeOK'
<1>1. job \in Jobs /\ job.w \in Stamps
  BY DEF TypeOK, AttemptsOK, FinishCommit
<1>2. gen[job.w] \in Generations /\ gen[job.w].pc \in Nat
      /\ gen[job.w].chain \in SUBSET Body
  <2>1. gen[job.w] \in Generations
    BY <1>1 DEF TypeOK, AttemptsOK
  <2> QED BY <2>1, SizeAssumption DEF Generations
<1>3. Idle \in Jobs /\ Idle.phase = "idle"
  BY SizeAssumption DEF Idle, Jobs
<1>4. AttemptsOK'
  BY <1>3 DEF TypeOK, AttemptsOK, FinishCommit
<1>5. DomainOK'
  <2>1. job.left \in SUBSET Body /\ job.live \in Nat
    BY <1>1 DEF Jobs
  <2>2. flushing' \in BOOLEAN
    <3>1. CASE relaxed
      <4>1. flushing' = (Cardinality(pending') >= InlineCap)
        BY <3>1 DEF FinishCommit
      <4>2. CASE Cardinality(pending') >= InlineCap
        BY <4>1, <4>2
      <4>3. CASE ~(Cardinality(pending') >= InlineCap)
        BY <4>1, <4>3
      <4> QED BY <4>2, <4>3
    <3>2. CASE ~relaxed
      BY <3>2 DEF FinishCommit, TypeOK, DomainOK
    <3> QED BY <3>1, <3>2
  <2> QED BY <1>1, <2>1, <2>2 DEF TypeOK, DomainOK, FinishCommit
<1>6. pending' \subseteq Entries
  BY <1>1, <1>2 DEF FinishCommit, TypeOK, PagerOK, Entries, Jobs
<1>7. floorSlot' \in Slots
  BY DEF FinishCommit, OtherSlot, Slots, TypeOK, PagerOK
<1>8. PagerOK'
  BY <1>2, <1>6, <1>7 DEF FinishCommit, TypeOK, PagerOK
<1>9. StorageOK' /\ HistoryOK'
  <2>1. CASE relaxed
    BY <2>1, Unchanged DEF FinishCommit, TypeOK, history
  <2>2. CASE ~relaxed
    <3>1. /\ BarrierAndShrink(shrinkPending \/ gen[job.w].pc < gen[cur].pc, gen[job.w].pc)
          /\ floor' = job.w /\ tail' = {}
      BY <2>2 DEF FinishCommit
    <3>2. StorageOK'
      BY <3>1, <1>2, BarrierAndShrinkOK DEF TypeOK, PagerOK
    <3> QED BY <3>1, <3>2, <1>1 DEF HistoryOK
  <2> QED BY <2>1, <2>2
<1> QED BY <1>4, <1>5, <1>8, <1>9, Unchanged DEF TypeOK, FinishCommit

\* flush_pending.
LEMMA FlushBarrierOK ==
    ASSUME TypeOK, FlushBarrier
    PROVE  StorageOK' /\ HistoryOK'
<1>1. StorageOK'
  BY BarrierAndShrinkOK DEF FlushBarrier, TypeOK, PagerOK
<1> QED BY <1>1 DEF FlushBarrier, TypeOK, HistoryOK, DomainOK

\* A flush (flush_pending) preserves the types.
LEMMA FlushOK ==
    ASSUME TypeOK, Flush
    PROVE  TypeOK'
<1>1. StorageOK' /\ HistoryOK'
  BY FlushBarrierOK DEF Flush
<1>2. PagerOK'
  <2>1. floorSlot' \in Slots
    BY DEF Flush, OtherSlot, Slots, TypeOK, PagerOK
  <2> QED BY <2>1 DEF Flush, TypeOK, PagerOK
<1>3. DomainOK'
  BY DEF Flush, TypeOK, DomainOK
<1>4. mode' = mode
  BY DEF Flush, handle
<1> QED BY <1>1, <1>2, <1>3, <1>4, Unchanged DEF TypeOK, Flush

\* Closing a handle preserves the types.
LEMMA CloseOK ==
    ASSUME TypeOK, Close
    PROVE  TypeOK'
<1>1. StorageOK' /\ HistoryOK'
  BY FlushBarrierOK, Unchanged DEF Close, TypeOK
<1>2. HandleOK'
  BY DEF Close, Forget, TypeOK, HandleOK
<1> QED BY <1>1, <1>2, ForgetOK DEF Close, TypeOK

\* A failed write: the device keeps its type whatever part of it arrived.
LEMMA WriteFailsOK ==
    ASSUME TypeOK, WriteFails
    PROVE  TypeOK'
<1>1. job \in Jobs /\ job.w \in Stamps
  BY DEF TypeOK, AttemptsOK, WriteFails
<1>2. OtherSlot \in Blocks /\ \A p \in job.todo : p \in Blocks
  BY <1>1, BlockFacts DEF OtherSlot, Slots, TypeOK, PagerOK, Jobs
<1>3. \E b \in Blocks : IssueFailing(b, job.w)
  BY <1>2 DEF WriteFails
<1>4. StorageOK'
  BY <1>1, <1>3, IssueOK DEF TypeOK, WriteFails
<1>5. job' \in Jobs /\ job'.phase = "failed"
  BY <1>1 DEF WriteFails, Jobs
<1>6. AttemptsOK'
  BY <1>5 DEF TypeOK, AttemptsOK, WriteFails
<1>7. HandleOK'
  BY FaultOK DEF TypeOK, HandleOK, WriteFails, handle
<1>8. PagerOK'
  BY DEF TypeOK, PagerOK, WriteFails
<1>9. HistoryOK'
  BY <1>1 DEF TypeOK, HistoryOK, WriteFails
<1> QED BY <1>4, <1>6, <1>7, <1>8, <1>9, Unchanged DEF TypeOK, WriteFails

\* A failed barrier, which poisons the pager, preserves the types.
LEMMA BarrierFailsOK ==
    ASSUME TypeOK, BarrierFails
    PROVE  TypeOK'
<1>1. Idle \in Jobs
  BY SizeAssumption DEF Idle, Jobs
<1>2. job' \in Jobs /\ (job' = job \/ job'.phase = "failed")
  BY <1>1 DEF BarrierFails, TypeOK, AttemptsOK, Jobs
<1>3. AttemptsOK'
  BY <1>2 DEF BarrierFails, TypeOK, AttemptsOK, handle
<1>4. HandleOK'
  BY FaultOK DEF TypeOK, HandleOK, BarrierFails, handle
<1>5. PagerOK'
  BY DEF TypeOK, PagerOK, BarrierFails
<1>6. DomainOK'
  BY DEF TypeOK, DomainOK, BarrierFails
<1> QED BY <1>3, <1>4, <1>5, <1>6, Unchanged DEF TypeOK, BarrierFails

\* The death of the process preserves the types.
LEMMA ProcessCrashOK ==
    ASSUME TypeOK, ProcessCrash
    PROVE  TypeOK'
<1>1. HandleOK'
  BY FaultOK DEF TypeOK, HandleOK, ProcessCrash, Forget
<1> QED BY <1>1, ForgetOK, Unchanged DEF TypeOK, ProcessCrash

\* A loss of power: every block becomes one of its possible contents.
LEMMA PowerLossOK ==
    ASSUME TypeOK, PowerLoss
    PROVE  TypeOK'
<1> DEFINE open == {b \in Blocks : poss[b] # {disk[b]}}
<1>1. PICK l \in lens, f \in [open -> UNION {poss[b] : b \in open}] :
        /\ \A b \in open : f[b] \in poss[b]
        /\ len' = l
        /\ disk' = [b \in Blocks |-> IF b >= l THEN Zero
                                     ELSE IF b \in open THEN f[b] ELSE disk[b]]
        /\ poss' = [b \in Blocks |-> {disk'[b]}]
        /\ lens' = {l}
  BY DEF PowerLoss
<1>2. \A b \in open : f[b] \in Contents
  BY <1>1 DEF TypeOK, StorageOK
<1> HIDE DEF open
<1>3. disk' \in [Blocks -> Contents]
  BY <1>1, <1>2, BlockFacts DEF TypeOK, StorageOK
<1>4. poss' \in [Blocks -> SUBSET Contents]
  BY <1>1, <1>3
<1>5. StorageOK'
  BY <1>1, <1>3, <1>4 DEF TypeOK, StorageOK
<1>6. HandleOK'
  BY FaultOK DEF TypeOK, HandleOK, PowerLoss, Forget
<1> QED BY <1>5, <1>6, ForgetOK, Unchanged DEF TypeOK, PowerLoss

\* open: the adopted generation is one a slot holds.
LEMMA ReopenOK ==
    ASSUME TypeOK, Reopen
    PROVE  TypeOK'
<1>1. CASE ~Validates(0) /\ ~Validates(1)
  <2>1. mode' = "corrupt" /\ UNCHANGED <<pagerVars, domain, job, history>>
    BY <1>1 DEF Reopen
  <2>2. HandleOK'
    BY <2>1 DEF Reopen, TypeOK, HandleOK
  <2> QED BY <2>1, <2>2, Unchanged DEF Reopen, TypeOK
<1>2. CASE ~(~Validates(0) /\ ~Validates(1))
  <2> DEFINE s == disk[Selected]
  <2>1. s \in Stamps
    BY <1>2 DEF Selected, Validates, Parses
  <2>2. gen[s] \in Generations
    BY <2>1 DEF TypeOK, AttemptsOK
  <2>3. gen[s].pc \in Nat /\ gen[s].list \in SUBSET Body /\ gen[s].txid \in Nat
    BY <2>2, SizeAssumption DEF Generations
  <2>4. Cardinality(gen[s].list) \in Nat
    BY <2>3, PagesFinite
  <2> HIDE DEF s
  <2>5. /\ mode' = "up" /\ cur' = s
        /\ floorSlot' = IF SameTxid THEN gen[s].txid % 2 ELSE Selected
        /\ stab' = (gen[s].manifest # {})
        /\ pending' = {} /\ poisoned' = FALSE
        /\ shrinkPending' = FALSE /\ shrinkPages' = 0
        /\ free' = gen[s].list /\ floorFree' = {}
        /\ liveAt' = IF gen[s].pc > Cardinality(gen[s].list)
                     THEN gen[s].pc - Cardinality(gen[s].list) ELSE 0
        /\ flushing' = FALSE /\ job' = Idle
        /\ IF lost = "power" THEN floor' = s /\ tail' = {} ELSE UNCHANGED history
    BY <1>2 DEF Reopen, s
  <2>6. floorSlot' \in Slots
    BY <2>3, <2>5 DEF Slots, Selected
  <2>7. PagerOK'
    BY <2>5, <2>6 DEF PagerOK
  <2>8. DomainOK'
    <3>1. liveAt' \in Nat
      BY <2>3, <2>4, <2>5
    <3>2. free' \subseteq Body /\ floorFree' \subseteq Body
      BY <2>3, <2>5
    <3> QED BY <2>1, <2>5, <3>1, <3>2 DEF DomainOK
  <2>9. HistoryOK'
    BY <2>1, <2>5 DEF HistoryOK, TypeOK, history
  <2>10. AttemptsOK'
    <3>1. Idle \in Jobs /\ Idle.phase = "idle"
      BY SizeAssumption DEF Idle, Jobs
    <3> QED BY <2>5, <3>1 DEF Reopen, TypeOK, AttemptsOK
  <2>11. HandleOK'
    BY <2>5 DEF Reopen, TypeOK, HandleOK
  <2> QED BY <2>7, <2>8, <2>9, <2>10, <2>11, Unchanged DEF Reopen, TypeOK
<1> QED BY <1>1, <1>2

\* The whole state keeps its type, in particular: no commit, flush, cut,
\* failure or recovery takes a page id, a high-water or the file's length out
\* of range.
THEOREM TypeCorrect == Spec => []TypeOK
<1>1. TypeOK /\ UNCHANGED vars => TypeOK'
  <2> SUFFICES ASSUME TypeOK, UNCHANGED vars PROVE TypeOK'
    OBVIOUS
  <2>1. /\ UNCHANGED storage /\ UNCHANGED <<gen, stamp, job>> /\ mode' = mode
        /\ UNCHANGED handle /\ UNCHANGED faults /\ UNCHANGED pagerVars
        /\ UNCHANGED domain /\ UNCHANGED history
    BY DEF vars, handle
  <2> QED BY <2>1, Unchanged DEF TypeOK
<1>2. TypeOK /\ [Next]_vars => TypeOK'
  BY <1>1, BeginOK, WritePageOK, PlanFreeListOK, WriteMetaOK, FinishCommitOK,
     FlushOK, CloseOK, WriteFailsOK, BarrierFailsOK, ProcessCrashOK, PowerLossOK,
     ReopenOK
     DEF Next
<1> QED BY TypeInit, <1>2, PTL DEF Spec

=============================================================================
