------------------------- MODULE ValidatedCowSafety -------------------------
(***************************************************************************)
(* The storage engine's safety, for every page limit, capacity, growth     *)
(* policy and number of commits and faults: whatever a loss of power       *)
(* leaves, the floor is intact, open finds a complete generation, the      *)
(* published snapshot is readable at every step, and CommitGuarantee is    *)
(* implemented.                                                            *)
(*                                                                         *)
(* The argument. A page the floor or the published generation needs is     *)
(* never written: a commit draws its pages from the part of the free list  *)
(* the floor had free too, or from above both high-waters (JobInv). So the *)
(* floor's blocks have one possible content (FloorInv), what a newer meta  *)
(* does not vouch for itself it shares with the floor (TailInv), and a     *)
(* meta that validates is complete. The only other metas a slot can hold   *)
(* are older ones and ones a page of which is gone for good (SlotInv), so  *)
(* the newest valid candidate is the floor or an attempt made since.       *)
(***************************************************************************)
EXTENDS ValidatedCowProofs, WellFoundedInduction

Needs(s) == Deps(s) \cup Vouched(s)

Below(pc) == 2 .. pc - 1

-----------------------------------------------------------------------------
(* The inductive invariant.                                                *)

\* What a read returns is one of the contents a loss of power may leave, and
\* no loss of power shortens the file below its present length.
DeviceInv ==
    /\ \A b \in Blocks : disk[b] \in poss[b]
    /\ len \in lens /\ \A l \in lens : len <= l
    /\ mode = "down" /\ lost = "power" => poss = Durable /\ lens = {len}

\* A meta that was sealed: its pages lie below its high-water and the file's
\* end, and none of them is on its free list.
Sound(s) ==
    /\ s <= stamp
    /\ gen[s].txid >= 1
    /\ gen[s].pc <= len
    /\ Protected(s) \subseteq Below(gen[s].pc)
    /\ gen[s].list \subseteq Below(gen[s].pc)
    /\ gen[s].list \cap Protected(s) = {}

\* What an attempt since the floor is read from, its manifest vouches for,
\* unless the floor is read from it too.
Completes(s) ==
    /\ gen[s].manifest # {}
    /\ Deps(s) \subseteq gen[s].manifest \cup Deps(floor)

TailInv ==
    /\ \A s \in tail \cup {floor} : Sound(s)
    /\ \A s \in tail : gen[s].txid > gen[floor].txid /\ Completes(s)
    /\ \A s \in Stamps : \A e \in Vouched(s) : e[2] <= s

FloorInv ==
    /\ FloorIntact
    /\ gen[floor].txid = 1 => poss[1] = {floor}
    /\ gen[floor].txid # 1 =>
        \E b \in Slots : poss[b] = {floor} /\ floor \notin poss[1 - b]

\* Some page the meta of t vouches for no longer has, and never again will
\* have, the content it had.
Gone(t) == \E e \in Vouched(t) : e[2] \notin poss[e[1]]

\* What a slot may hold after a loss of power.
SlotContent(t) ==
    \/ t = Torn
    \/ /\ t \in Stamps /\ t <= stamp
       /\ \/ t \in tail \cup {floor}
          \/ gen[t].txid < gen[floor].txid
          \/ gen[t].txid > gen[floor].txid /\ Gone(t)

SlotInv == \A b \in Slots : \A t \in poss[b] : SlotContent(t)

CurInv ==
    mode = "up" =>
        /\ cur \in tail \cup {floor}
        /\ Holds(Needs(cur))
        /\ free \subseteq Below(gen[cur].pc)
        /\ free \cap Protected(cur) = {}
        /\ pending = {} \/ pending = gen[cur].manifest

\* A generation adopted at open, before the barrier that makes it durable.
StabInv ==
    mode = "up" /\ stab /\ ~poisoned =>
        /\ job.phase = "idle" /\ pending = {} /\ ~shrinkPending
        /\ disk[floorSlot] = cur /\ (gen[cur].txid = 1 => floorSlot = 1)
        /\ LET t == disk[OtherSlot] IN
            \/ t = Torn
            \/ t = cur /\ gen[cur].txid = 1
            \/ gen[t].txid < gen[cur].txid
            \/ gen[t].txid > gen[cur].txid /\ ~Holds(Vouched(t))

\* The batch: what is pending, what the floor had free.
BatchInv ==
    mode = "up" /\ ~stab /\ ~poisoned =>
        /\ poss[floorSlot] = {floor} /\ (gen[floor].txid = 1 => floorSlot = 1)
        /\ pending = {} => floor = cur /\ ~shrinkPending
        /\ pending # {} =>
            /\ relaxed /\ cur \in tail
            /\ job.phase # "meta" => disk[OtherSlot] = cur
            /\ shrinkPending => shrinkPages = gen[cur].pc
            /\ Protected(floor) \subseteq Below(gen[cur].pc)
        /\ relaxed /\ (pending # {} \/ job.phase \in {"body", "aux", "meta"}) =>
            floorFree \cap Protected(floor) = {}

\* The commit in progress while its body is written.
BodyInv ==
    LET kept == Protected(floor) \cup Protected(cur) IN
    /\ job.written # {} /\ job.todo \subseteq job.written
    /\ kept \cup job.written \cup job.rest \subseteq Below(job.pc)
    /\ job.written \cap kept = {}
    /\ job.rest \cap (Protected(cur) \cup job.written) = {}
    /\ job.safe \subseteq job.rest /\ job.safe \cap Protected(floor) = {}
    /\ job.tree \subseteq gen[cur].tree \cup {<<p, job.w>> : p \in job.written}
    /\ \A p \in job.written \ job.todo : disk[p] = job.w

\* The commit in progress once its free list and manifest are planned.
SealedInv ==
    LET w == job.w IN
    /\ Sound(w) /\ Completes(w)
    /\ gen[w].txid = gen[cur].txid + 1
    /\ gen[w].manifest = pending \cup {<<p, w>> : p \in job.written \cup gen[w].chain}
    /\ job.left \subseteq Below(gen[w].pc) /\ job.left \cap Protected(w) = {}
    /\ Protected(floor) \subseteq Below(gen[w].pc)
    /\ \A e \in Needs(w) : IF e[1] \in job.todo THEN e[2] = w ELSE disk[e[1]] = e[2]

\* No page to be written is one the floor or the published generation needs.
JobInv ==
    mode = "up" /\ job.phase \in {"body", "aux", "meta"} =>
        /\ ~stab /\ ~poisoned /\ job.w = stamp
        /\ job.todo \cap (Protected(floor) \cup Protected(cur)) = {}
        /\ job.phase \in {"body", "aux"} =>
            /\ job.w \notin tail \cup {floor, cur}
            /\ \A b \in Slots : job.w \notin poss[b]
        /\ job.phase = "body" => BodyInv
        /\ job.phase \in {"aux", "meta"} => SealedInv
        /\ job.phase = "meta" =>
            disk[OtherSlot] = job.w /\ job.w \in tail /\ job.todo = {}

SafetyInv ==
    /\ DeviceInv /\ TailInv /\ FloorInv /\ SlotInv
    /\ CurInv /\ StabInv /\ BatchInv /\ JobInv
    /\ RecoveryNeverFails

-----------------------------------------------------------------------------
(* Facts about page sets, generations and slots.                           *)

\* Every nonempty set of naturals has a least element.
LEMMA LeastPage ==
    ASSUME NEW S \in SUBSET Nat, S # {}
    PROVE  \E p \in S : \A q \in S : ~(q < p)
<1> DEFINE R == {ss \in Nat \X Nat : ss[1] < ss[2]}
<1>1. IsWellFoundedOn(R, Nat)
  BY NatLessThanWellFounded DEF OpToRel
<1>2. PICK p \in S : \A q \in S : ~(<<q, p>> \in R)
  BY <1>1, WFMin
<1> QED BY <1>2

\* PageAlloc draws at least one page when it is asked for any.
LEMMA DrawNonempty ==
    ASSUME NEW S \in SUBSET Body, NEW n \in Nat \ {0}, NEW next \in Nat
    PROVE  Draw(S, n, next) # {}
<1>1. CASE FromHigh(S, n) = 0
  <2>1. Cardinality(S) \in Nat /\ IsFiniteSet(S) /\ Cardinality(S) >= n
    BY <1>1, PagesFinite DEF FromHigh
  <2>2. S # {} /\ S \in SUBSET Nat
    BY <2>1, FS_EmptySet, BlockFacts
  <2>3. PICK p \in S : \A q \in S : ~(q < p)
    BY <2>2, LeastPage
  <2>4. {q \in S : q < p} = {}
    BY <2>3
  <2>5. Cardinality({q \in S : q < p}) = 0
    BY <2>4, FS_EmptySet
  <2>6. p \in Lowest(S, n)
    BY <2>5 DEF Lowest
  <2> QED BY <2>6 DEF Draw
<1>2. CASE FromHigh(S, n) # 0
  <2>1. next \in next .. next + FromHigh(S, n) - 1
    BY <1>2, FromHighNat
  <2> QED BY <2>1 DEF Draw
<1> QED BY <1>1, <1>2

\* What PageAlloc draws comes from the pool or lies between the old
\* high-water and the new one.
LEMMA DrawSources ==
    ASSUME NEW S \in SUBSET Body, NEW n \in Nat, NEW next \in Nat
    PROVE  /\ FromHigh(S, n) \in Nat
           /\ Lowest(S, n) \subseteq S
           /\ \A p \in Draw(S, n, next) :
                p \in Lowest(S, n) \/ p \in next .. next + FromHigh(S, n) - 1
BY FromHighNat DEF Draw, Lowest

\* The entries a generation needs, and their pages.
LEMMA GenFacts ==
    ASSUME TypeOK, NEW s \in Stamps
    PROVE  /\ gen[s].pc \in Nat /\ gen[s].pc >= 2 /\ gen[s].txid \in Nat
           /\ Deps(s) \subseteq Needs(s) /\ Vouched(s) \subseteq Needs(s)
           /\ gen[s].manifest \subseteq Vouched(s) /\ gen[s].tree \subseteq Deps(s)
           /\ Protected(s) \subseteq Body
           /\ \A e \in Needs(s) : /\ e[1] \in Protected(s) /\ e[1] \in Body
                                  /\ e[1] \in Blocks /\ e[2] \in Stamps
           /\ \A p \in Protected(s) : \E e \in Needs(s) : e[1] = p
<1>1. gen[s] \in Generations
  BY DEF TypeOK, AttemptsOK
<1>2. gen[s].pc \in Nat /\ gen[s].pc >= 2 /\ gen[s].txid \in Nat
  BY <1>1, SizeAssumption DEF Generations
<1>3. /\ Deps(s) \subseteq Needs(s) /\ Vouched(s) \subseteq Needs(s)
      /\ gen[s].manifest \subseteq Vouched(s) /\ gen[s].tree \subseteq Deps(s)
  BY DEF Needs, Deps, Vouched
<1>4. Needs(s) \in SUBSET Entries
  BY <1>1 DEF Needs, Deps, Vouched, Generations, Entries
<1>5. Protected(s) = {e[1] : e \in Needs(s)}
  BY DEF Protected, PagesOf, Needs
<1>6. \A e \in Needs(s) : /\ e[1] \in Protected(s) /\ e[1] \in Body
                          /\ e[1] \in Blocks /\ e[2] \in Stamps
  BY <1>4, <1>5, BlockFacts DEF Entries
<1>7. \A p \in Protected(s) : \E e \in Needs(s) : e[1] = p
  BY <1>5
<1> QED BY <1>2, <1>3, <1>6, <1>7

\* A step that leaves the meta of s alone leaves everything it depends on.
LEMMA SameGen ==
    ASSUME NEW s, gen'[s] = gen[s]
    PROVE  /\ Deps(s)' = Deps(s) /\ Vouched(s)' = Vouched(s)
           /\ Needs(s)' = Needs(s) /\ Protected(s)' = Protected(s)
BY DEF Deps, Vouched, Needs, Protected, PagesOf

\* The two slots, and contents that are no stamp.
LEMMA SlotFacts ==
    ASSUME PagerOK
    PROVE  /\ Slots = {0, 1} /\ Slots \subseteq Blocks
           /\ floorSlot \in Slots /\ OtherSlot \in Slots /\ OtherSlot # floorSlot
           /\ \A b \in Slots : b = floorSlot \/ b = OtherSlot
           /\ \A b \in Slots : b \notin Body /\ 1 - b \in Slots /\ 1 - b # b
           /\ Torn \notin Stamps /\ Zero \notin Stamps
BY SizeAssumption DEF PagerOK, OtherSlot, Slots, Blocks, Body, Stamps, Torn, Zero

\* FloorIntact, in terms of what the floor needs.
LEMMA FloorEntries ==
    ASSUME FloorIntact
    PROVE  /\ \A e \in Needs(floor) : poss[e[1]] = {e[2]}
           /\ \A l \in lens : gen[floor].pc <= l
BY DEF FloorIntact, Needs

-----------------------------------------------------------------------------
(* Parts of the invariant under steps that leave the metas alone.          *)

\* A sealed meta stays sound while the file covers it.
LEMMA SoundKept ==
    ASSUME TypeOK, TypeOK', NEW s \in Stamps, gen'[s] = gen[s],
           stamp <= stamp', gen[s].pc <= len', Sound(s)
    PROVE  Sound(s)'
<1>1. stamp \in Nat /\ stamp' \in Nat /\ s \in Nat
  BY DEF TypeOK, AttemptsOK, Stamps
<1>2. Protected(s)' = Protected(s)
  BY SameGen
<1>3. s <= stamp'
  BY <1>1 DEF Sound
<1> QED BY <1>2, <1>3 DEF Sound, Below

\* The attempts since the floor keep their facts while the file only grows.
LEMMA TailKept ==
    ASSUME TypeOK, TypeOK', TailInv, floor' = floor, tail' = tail,
           stamp <= stamp', len <= len',
           \A s \in tail \cup {floor} : gen'[s] = gen[s],
           \A s \in Stamps : gen'[s] = gen[s] \/ \A e \in Vouched(s)' : e[2] <= s
    PROVE  TailInv'
<1>1. tail \cup {floor} \subseteq Stamps
  BY DEF TypeOK, HistoryOK
<1>2. ASSUME NEW s \in tail \cup {floor} PROVE Sound(s)'
  <2>1. gen[s].pc <= len'
    <3>1. gen[s].pc \in Nat /\ gen[s].pc <= len
      BY <1>1, GenFacts DEF TailInv, Sound
    <3> QED BY <3>1 DEF TypeOK, StorageOK, Lengths
  <2> QED BY <1>1, <2>1, SoundKept DEF TailInv
<1>3. ASSUME NEW s \in tail PROVE (gen[s].txid > gen[floor].txid /\ Completes(s))'
  <2>1. gen'[s] = gen[s] /\ gen'[floor] = gen[floor]
    OBVIOUS
  <2>2. Deps(s)' = Deps(s) /\ Deps(floor)' = Deps(floor)
    BY <2>1 DEF Deps
  <2> QED BY <2>1, <2>2 DEF TailInv, Completes
<1>4. ASSUME NEW s \in Stamps PROVE \A e \in Vouched(s)' : e[2] <= s
  BY SameGen DEF TailInv
<1> QED BY <1>2, <1>3, <1>4 DEF TailInv

\* A page that is gone stays gone: no step writes an old stamp again.
LEMMA GoneKept ==
    ASSUME NEW t, gen'[t] = gen[t], NEW X,
           \A e \in Vouched(t) : poss'[e[1]] \subseteq poss[e[1]] \cup X,
           \A e \in Vouched(t) : e[2] \notin X,
           Gone(t)
    PROVE  Gone(t)'
<1>1. Vouched(t)' = Vouched(t)
  BY SameGen
<1> QED BY <1>1 DEF Gone

\* What a slot may hold, under a step that keeps the floor and the attempts
\* since and writes no stamp but X.
LEMMA SlotKept ==
    ASSUME TypeOK, TypeOK', SlotInv, TailInv, floor' = floor,
           tail \subseteq tail', stamp <= stamp', NEW X,
           gen'[floor] = gen[floor],
           \A b \in Body : poss'[b] \subseteq poss[b] \cup X,
           \A s \in X \cap Stamps : s >= stamp /\ \A c \in Slots : s \notin poss[c],
           NEW b \in Slots, NEW t \in poss[b], t \in Stamps => gen'[t] = gen[t]
    PROVE  SlotContent(t)'
<1>1. CASE t = Torn
  BY <1>1 DEF SlotContent
<1>2. CASE t # Torn
  <2>1. t \in Stamps /\ t <= stamp
    BY <1>2 DEF SlotInv, SlotContent
  <2>2. t <= stamp'
    BY <2>1 DEF TypeOK, AttemptsOK, Stamps
  <2>3. Gone(t) => Gone(t)'
    <3>1. \A e \in Vouched(t) : e[1] \in Body /\ e[2] \in Stamps /\ e[2] <= t
      BY <2>1, GenFacts DEF TailInv
    <3>2. \A e \in Vouched(t) : e[2] \notin X
      BY <3>1, <2>1 DEF TypeOK, AttemptsOK, Stamps
    <3> QED BY <2>1, <3>1, <3>2, GoneKept
  <2> QED BY <1>2, <2>1, <2>2, <2>3 DEF SlotInv, SlotContent
<1> QED BY <1>1, <1>2

-----------------------------------------------------------------------------
(* write_block.                                                            *)

\* A write of a page of the commit, completed or failed, touches nothing the
\* floor or the published generation needs.
LEMMA BodyWrite ==
    ASSUME TypeOK, TypeOK', SafetyInv, mode = "up", job.phase \in {"body", "aux"},
           NEW p \in job.todo, Issue(p, job.w) \/ IssueFailing(p, job.w),
           UNCHANGED <<len, lens, gen, stamp, mode, floor, tail, cur>>
    PROVE  /\ \A b \in Blocks : b # p => disk'[b] = disk[b] /\ poss'[b] = poss[b]
           /\ \A b \in Slots : disk'[b] = disk[b] /\ poss'[b] = poss[b]
           /\ \A e \in Needs(cur) : disk'[e[1]] = e[2]
           /\ DeviceInv' /\ TailInv' /\ FloorInv' /\ SlotInv'
<1>1. /\ p \in Body /\ p \in Blocks /\ job.w \in Stamps /\ job.w = stamp
      /\ p \notin Protected(floor) /\ p \notin Protected(cur)
      /\ \A b \in Slots : job.w \notin poss[b]
  BY BlockFacts DEF TypeOK, AttemptsOK, Jobs, SafetyInv, JobInv
<1>2. \A b \in Blocks : b # p => disk'[b] = disk[b] /\ poss'[b] = poss[b]
  BY <1>1 DEF Issue, IssueFailing, TypeOK, StorageOK
<1>3. poss'[p] = poss[p] \cup {job.w, Torn} /\ disk'[p] \in {disk[p], job.w, Torn}
  BY <1>1 DEF Issue, IssueFailing, TypeOK, StorageOK
<1>4. \A b \in Slots : b \in Blocks /\ disk'[b] = disk[b] /\ poss'[b] = poss[b]
  BY <1>1, <1>2, SlotFacts DEF TypeOK
<1>5. floor \in Stamps /\ cur \in Stamps
  BY DEF TypeOK, HistoryOK, DomainOK
<1>6. \A e \in Needs(cur) : disk'[e[1]] = e[2]
  BY <1>1, <1>2, <1>5, GenFacts DEF SafetyInv, CurInv, Holds
<1>7. DeviceInv'
  BY <1>2, <1>3 DEF SafetyInv, DeviceInv
<1>8. TailInv'
  <2>1. stamp <= stamp' /\ len <= len'
    BY DEF TypeOK, AttemptsOK, Stamps, StorageOK, Lengths
  <2> QED BY <2>1, TailKept DEF SafetyInv
<1>9. FloorInv'
  <2>1. \A e \in Needs(floor) : poss'[e[1]] = {e[2]}
    <3>1. \A e \in Needs(floor) : e[1] \in Protected(floor) /\ e[1] \in Blocks
      BY <1>5, GenFacts
    <3>2. \A e \in Needs(floor) : poss[e[1]] = {e[2]}
      BY FloorEntries DEF SafetyInv, FloorInv
    <3> QED BY <1>1, <1>2, <3>1, <3>2
  <2>2. FloorIntact'
    <3>1. Deps(floor)' = Deps(floor) /\ Vouched(floor)' = Vouched(floor)
      BY DEF Deps, Vouched
    <3> QED BY <1>4, <2>1, <3>1 DEF SafetyInv, FloorInv, FloorIntact, Needs
  <2> QED BY <1>4, <2>2, SlotFacts DEF TypeOK, SafetyInv, FloorInv
<1>10. SlotInv'
  <2>1. ASSUME NEW b \in Slots, NEW t \in poss'[b] PROVE SlotContent(t)'
    <3>1. t \in poss[b]
      BY <1>4, <2>1
    <3>2. \A c \in Body : poss'[c] \subseteq poss[c] \cup {job.w, Torn}
      BY <1>2, <1>3, BlockFacts
    <3>3. stamp <= stamp'
      BY DEF TypeOK, AttemptsOK, Stamps
    <3>4. \A s \in {job.w, Torn} \cap Stamps :
            s >= stamp /\ \A c \in Slots : s \notin poss[c]
      BY <1>1, SlotFacts DEF TypeOK, Stamps
    <3> QED BY <3>1, <3>2, <3>3, <3>4, SlotKept DEF SafetyInv
  <2> QED BY <2>1 DEF SlotInv
<1> QED BY <1>2, <1>4, <1>6, <1>7, <1>8, <1>9, <1>10

\* A write of the meta page, completed or failed: the floor's slot is the
\* other one, and the new meta is one recovery may select.
LEMMA MetaWrite ==
    ASSUME TypeOK, TypeOK', SafetyInv, mode = "up", job.phase = "aux", job.todo = {},
           Issue(OtherSlot, job.w) \/ IssueFailing(OtherSlot, job.w),
           UNCHANGED <<len, lens, gen, stamp, mode, floor, cur>>,
           tail' = tail \cup {job.w}
    PROVE  /\ \A b \in Blocks : b # OtherSlot =>
                    disk'[b] = disk[b] /\ poss'[b] = poss[b]
           /\ \A b \in Body : disk'[b] = disk[b] /\ poss'[b] = poss[b]
           /\ \A e \in Needs(cur) : disk'[e[1]] = e[2]
           /\ DeviceInv' /\ TailInv' /\ FloorInv' /\ SlotInv'
<1> DEFINE w == job.w
<1>1. /\ w \in Stamps /\ w = stamp /\ w \notin tail /\ w # floor
      /\ SealedInv /\ ~stab /\ ~poisoned
  BY DEF TypeOK, AttemptsOK, SafetyInv, JobInv
<1>2. OtherSlot \in Blocks /\ OtherSlot \in Slots /\ OtherSlot \notin Body
      /\ floorSlot \in Blocks /\ floorSlot # OtherSlot
  BY SlotFacts DEF TypeOK
<1>3. \A b \in Blocks : b # OtherSlot => disk'[b] = disk[b] /\ poss'[b] = poss[b]
  BY <1>2 DEF Issue, IssueFailing, TypeOK, StorageOK
<1>4. /\ poss'[OtherSlot] = poss[OtherSlot] \cup {w, Torn}
      /\ disk'[OtherSlot] \in {disk[OtherSlot], w, Torn}
  BY <1>2 DEF Issue, IssueFailing, TypeOK, StorageOK
<1>5. \A b \in Body : b \in Blocks /\ disk'[b] = disk[b] /\ poss'[b] = poss[b]
  BY <1>2, <1>3, BlockFacts
<1>6. floor \in Stamps /\ cur \in Stamps /\ tail \subseteq Stamps
  BY DEF TypeOK, HistoryOK, DomainOK
<1>7. \A e \in Needs(cur) : disk'[e[1]] = e[2]
  BY <1>5, <1>6, GenFacts DEF SafetyInv, CurInv, Holds
<1>8. DeviceInv'
  BY <1>3, <1>4 DEF SafetyInv, DeviceInv
<1>9. TailInv'
  <2>1. stamp <= stamp' /\ len <= len'
    BY DEF TypeOK, AttemptsOK, Stamps, StorageOK, Lengths
  <2>2. \A s \in Stamps : Sound(s) => Sound(s)'
    <3> SUFFICES ASSUME NEW s \in Stamps, Sound(s) PROVE Sound(s)'
      OBVIOUS
    <3>1. gen[s].pc <= len'
      BY DEF Sound
    <3> QED BY <2>1, <3>1, SoundKept
  <2>3. \A s \in tail' \cup {floor'} : Sound(s)'
    BY <1>1, <1>6, <2>2 DEF SafetyInv, TailInv, SealedInv
  <2>4. \A s \in Stamps : Completes(s) => Completes(s)'
    BY DEF Completes, Deps
  <2>5. gen[w].txid > gen[floor].txid
    <3>1. gen[w].txid = gen[cur].txid + 1 /\ cur \in tail \cup {floor}
      BY <1>1 DEF SafetyInv, SealedInv, CurInv
    <3>2. gen[cur].txid \in Nat /\ gen[floor].txid \in Nat
      BY <1>6, GenFacts
    <3>3. gen[cur].txid >= gen[floor].txid
      BY <3>1, <3>2 DEF SafetyInv, TailInv
    <3> QED BY <3>1, <3>2, <3>3
  <2>6. \A s \in tail' : gen'[s].txid > gen'[floor'].txid /\ Completes(s)'
    BY <1>1, <1>6, <2>4, <2>5 DEF SafetyInv, TailInv, SealedInv
  <2>7. ASSUME NEW s \in Stamps PROVE \A e \in Vouched(s)' : e[2] <= s
    BY SameGen DEF SafetyInv, TailInv
  <2> QED BY <2>3, <2>6, <2>7 DEF TailInv
<1>10. FloorInv'
  <2>1. \A e \in Needs(floor) : poss'[e[1]] = {e[2]}
    <3>1. \A e \in Needs(floor) : e[1] \in Body
      BY <1>6, GenFacts
    <3>2. \A e \in Needs(floor) : poss[e[1]] = {e[2]}
      BY FloorEntries DEF SafetyInv, FloorInv
    <3> QED BY <1>5, <3>1, <3>2
  <2>2. poss'[floorSlot] = {floor} /\ (gen[floor].txid = 1 => floorSlot = 1)
    BY <1>1, <1>2, <1>3 DEF SafetyInv, BatchInv
  <2>3. FloorIntact'
    <3>1. Deps(floor)' = Deps(floor) /\ Vouched(floor)' = Vouched(floor)
      BY DEF Deps, Vouched
    <3> QED BY <2>1, <2>2, <3>1, SlotFacts
            DEF TypeOK, SafetyInv, FloorInv, FloorIntact, Needs
  <2>4. ASSUME gen[floor].txid # 1 PROVE floor \notin poss'[1 - floorSlot]
    <3>1. PICK b \in Slots : poss[b] = {floor} /\ floor \notin poss[1 - b]
      BY <2>4 DEF SafetyInv, FloorInv
    <3>2. poss[floorSlot] = {floor}
      BY <1>1 DEF SafetyInv, BatchInv
    <3>3. floor \notin poss[OtherSlot]
      BY <3>1, <3>2, SlotFacts DEF TypeOK, OtherSlot
    <3>4. floor # Torn
      BY <1>6, SlotFacts DEF TypeOK
    <3> QED BY <1>1, <1>4, <3>3, <3>4 DEF OtherSlot
  <2> QED BY <2>2, <2>3, <2>4, SlotFacts DEF TypeOK, FloorInv
<1>11. SlotInv'
  <2>1. ASSUME NEW b \in Slots, NEW t \in poss'[b] PROVE SlotContent(t)'
    <3>1. CASE t \in poss[b]
      <4>1. \A c \in Body : poss'[c] \subseteq poss[c] \cup {}
        BY <1>5
      <4>2. stamp <= stamp' /\ tail \subseteq tail'
        BY DEF TypeOK, AttemptsOK, Stamps
      <4> QED BY <3>1, <4>1, <4>2, SlotKept DEF SafetyInv
    <3>2. CASE t \notin poss[b]
      <4>1. t = w \/ t = Torn
        BY <1>3, <1>4, <3>2, SlotFacts DEF TypeOK
      <4>2. w <= stamp'
        BY <1>1 DEF Stamps
      <4> QED BY <1>1, <4>1, <4>2 DEF SlotContent
    <3> QED BY <3>1, <3>2
  <2> QED BY <2>1 DEF SlotInv
<1> QED BY <1>3, <1>5, <1>7, <1>8, <1>9, <1>10, <1>11

\* A step that does not touch the device, the metas or the floor.
LEMMA QuietDevice ==
    ASSUME SafetyInv, UNCHANGED <<storage, gen, stamp, history>>,
           mode' = "up" \/ lost' # "power"
    PROVE  DeviceInv' /\ TailInv' /\ FloorInv' /\ SlotInv'
<1>1. DeviceInv'
  BY DEF SafetyInv, DeviceInv, storage
<1>2. TailInv'
  BY DEF SafetyInv, TailInv, storage, history, Sound, Completes, Deps, Vouched,
         Protected, PagesOf, Below
<1>3. FloorInv'
  BY DEF SafetyInv, FloorInv, FloorIntact, storage, history, Deps, Vouched
<1>4. SlotInv'
  BY DEF SafetyInv, SlotInv, SlotContent, Gone, Vouched, storage, history
<1> QED BY <1>1, <1>2, <1>3, <1>4

\* A step within the life of the published snapshot.
LEMMA CurKept ==
    ASSUME SafetyInv, mode = "up", gen'[cur] = gen[cur], UNCHANGED <<cur, free, pending, floor>>,
           tail \subseteq tail', \A e \in Needs(cur) : disk'[e[1]] = e[2]
    PROVE  CurInv'
<1>1. Needs(cur)' = Needs(cur) /\ Protected(cur)' = Protected(cur)
  BY DEF Needs, Deps, Vouched, Protected, PagesOf
<1> QED BY <1>1 DEF SafetyInv, CurInv, Holds, Below

\* A step within a batch that keeps the floor's slot.
LEMMA BatchKept ==
    ASSUME SafetyInv, mode = "up", ~stab, ~poisoned,
           gen'[cur] = gen[cur], gen'[floor] = gen[floor],
           UNCHANGED <<stab, poisoned, floor, cur, pending, shrinkPending, shrinkPages,
                       relaxed, floorFree, floorSlot>>,
           tail \subseteq tail', poss'[floorSlot] = poss[floorSlot],
           job'.phase \in {"body", "aux", "meta"} => job.phase \in {"body", "aux", "meta"},
           job'.phase # "meta" =>
                job.phase # "meta" /\ disk'[OtherSlot] = disk[OtherSlot]
    PROVE  BatchInv'
<1>1. Protected(floor)' = Protected(floor) /\ OtherSlot' = OtherSlot
  BY DEF Deps, Vouched, Protected, PagesOf, OtherSlot
<1> QED BY <1>1 DEF SafetyInv, BatchInv, Below

-----------------------------------------------------------------------------
(* Every action preserves the invariant.                                   *)

\* write_block of a page.
LEMMA WritePageSafe ==
    ASSUME TypeOK, TypeOK', SafetyInv, WritePage
    PROVE  SafetyInv'
<1>1. PICK p \in job.todo : Issue(p, job.w) /\ job' = [job EXCEPT !.todo = @ \ {p}]
  BY DEF WritePage
<1>2. /\ mode = "up" /\ job.phase \in {"body", "aux"}
      /\ UNCHANGED <<len, lens, gen, stamp, mode, lost, relaxed, floorSlot, pending,
                     stab, poisoned, shrinkPending, shrinkPages, cur, free, floorFree,
                     floor, tail>>
  BY DEF WritePage, handle, pagerVars, domain, history
<1>3. /\ \A b \in Blocks : b # p => disk'[b] = disk[b] /\ poss'[b] = poss[b]
      /\ \A b \in Slots : disk'[b] = disk[b] /\ poss'[b] = poss[b]
      /\ \A e \in Needs(cur) : disk'[e[1]] = e[2]
      /\ DeviceInv' /\ TailInv' /\ FloorInv' /\ SlotInv'
  BY <1>1, <1>2, BodyWrite
<1>4. job \in Jobs /\ job.w \in Stamps /\ p \in Blocks /\ disk'[p] = job.w
  BY <1>1, <1>2, BlockFacts DEF TypeOK, AttemptsOK, Jobs, StorageOK, Issue
<1>5. /\ job'.phase = job.phase /\ job'.w = job.w /\ job'.todo = job.todo \ {p}
      /\ job'.written = job.written /\ job'.tree = job.tree /\ job'.rest = job.rest
      /\ job'.safe = job.safe /\ job'.pc = job.pc /\ job'.left = job.left
  BY <1>1, <1>4 DEF Jobs
<1>6. CurInv'
  BY <1>2, <1>3, CurKept
<1>7. ~stab /\ ~poisoned
  BY <1>2 DEF SafetyInv, JobInv
<1>8. BatchInv'
  <2>1. floorSlot \in Slots /\ OtherSlot \in Slots
    BY SlotFacts DEF TypeOK
  <2> QED BY <1>2, <1>3, <1>5, <1>7, <2>1, BatchKept
<1>9. JobInv'
  <2>1. /\ Protected(floor)' = Protected(floor) /\ Protected(cur)' = Protected(cur)
        /\ Needs(job.w)' = Needs(job.w)
    BY <1>2, <1>5 DEF Needs, Deps, Vouched, Protected, PagesOf
  <2>2. ASSUME job.phase = "body" PROVE BodyInv'
    <3>1. BodyInv
      BY <1>2, <2>2 DEF SafetyInv, JobInv
    <3>2. \A q \in job.written \ job'.todo : disk'[q] = job.w
      <4>1. \A q \in job.written : q \in Blocks
        BY <1>4, BlockFacts DEF Jobs
      <4> QED BY <1>3, <1>4, <1>5, <3>1, <4>1 DEF BodyInv
    <3> QED BY <1>2, <1>5, <2>1, <3>1, <3>2 DEF BodyInv, Below
  <2>3. ASSUME job.phase = "aux" PROVE SealedInv'
    <3>1. SealedInv
      BY <1>2, <2>3 DEF SafetyInv, JobInv
    <3>2. Sound(job.w)'
      BY <1>2, <1>5, <2>1, <3>1 DEF SealedInv, Sound, Below, Protected, Deps, Vouched, PagesOf
    <3>3. Completes(job.w)'
      BY <1>2, <1>5, <3>1 DEF SealedInv, Completes, Deps
    <3>4. \A e \in Needs(job.w) :
            IF e[1] \in job'.todo THEN e[2] = job.w ELSE disk'[e[1]] = e[2]
      <4>1. ASSUME NEW e \in Needs(job.w)
            PROVE  IF e[1] \in job'.todo THEN e[2] = job.w ELSE disk'[e[1]] = e[2]
        <5>1. e[1] \in Blocks
          BY <1>4, GenFacts
        <5>2. CASE e[1] # p
          BY <1>3, <1>5, <3>1, <5>1, <5>2 DEF SealedInv
        <5>3. CASE e[1] = p
          <6>1. e[2] = job.w
            BY <3>1, <5>3 DEF SealedInv
          <6> QED BY <1>4, <1>5, <5>3, <6>1
        <5> QED BY <5>2, <5>3
      <4> QED BY <4>1
    <3>5. Protected(job.w)' = Protected(job.w)
      BY <1>2, <1>5 DEF Protected, Deps, Vouched, PagesOf
    <3> QED BY <1>2, <1>5, <2>1, <3>1, <3>2, <3>3, <3>4, <3>5 DEF SealedInv, Below
  <2> QED BY <1>2, <1>3, <1>5, <2>1, <2>2, <2>3 DEF SafetyInv, JobInv
<1> QED BY <1>2, <1>3, <1>6, <1>7, <1>8, <1>9
        DEF SafetyInv, StabInv, RecoveryNeverFails

\* write_block of the meta page.
LEMMA WriteMetaSafe ==
    ASSUME TypeOK, TypeOK', SafetyInv, WriteMeta
    PROVE  SafetyInv'
<1>1. /\ mode = "up" /\ job.phase = "aux" /\ job.todo = {}
      /\ Issue(OtherSlot, job.w) /\ job' = [job EXCEPT !.phase = "meta"]
      /\ tail' = tail \cup {job.w}
      /\ UNCHANGED <<len, lens, gen, stamp, mode, lost, relaxed, floorSlot, pending,
                     stab, poisoned, shrinkPending, shrinkPages, cur, free, floorFree,
                     floor>>
  BY DEF WriteMeta, handle, pagerVars, domain
<1>2. /\ \A b \in Blocks : b # OtherSlot => disk'[b] = disk[b] /\ poss'[b] = poss[b]
      /\ \A b \in Body : disk'[b] = disk[b] /\ poss'[b] = poss[b]
      /\ \A e \in Needs(cur) : disk'[e[1]] = e[2]
      /\ DeviceInv' /\ TailInv' /\ FloorInv' /\ SlotInv'
  BY <1>1, MetaWrite
<1>3. job \in Jobs /\ job.w \in Stamps
  BY <1>1 DEF TypeOK, AttemptsOK
<1>4. /\ job'.phase = "meta" /\ job'.w = job.w /\ job'.todo = {}
      /\ job'.written = job.written /\ job'.left = job.left
  BY <1>1, <1>3 DEF Jobs
<1>5. CurInv'
  BY <1>1, <1>2, CurKept
<1>6. ~stab /\ ~poisoned /\ SealedInv /\ job.w = stamp
  BY <1>1 DEF SafetyInv, JobInv
<1>7. BatchInv'
  <2>1. floorSlot \in Blocks /\ floorSlot # OtherSlot
    BY SlotFacts DEF TypeOK
  <2> QED BY <1>1, <1>2, <1>4, <1>6, <2>1, BatchKept
<1>8. disk'[OtherSlot] = job.w /\ OtherSlot' = OtherSlot
  BY <1>1, SlotFacts DEF TypeOK, StorageOK, Issue, OtherSlot
<1>9. JobInv'
  <2>1. /\ Protected(floor)' = Protected(floor) /\ Needs(job.w)' = Needs(job.w)
        /\ Protected(job.w)' = Protected(job.w)
    BY <1>1, <1>4 DEF Needs, Deps, Vouched, Protected, PagesOf
  <2>2. SealedInv'
    <3>1. Sound(job.w)'
      BY <1>1, <1>4, <1>6, <2>1 DEF SealedInv, Sound, Below
    <3>2. Completes(job.w)'
      BY <1>1, <1>4, <1>6 DEF SealedInv, Completes, Deps
    <3>3. \A e \in Needs(job.w) : disk'[e[1]] = e[2]
      BY <1>1, <1>2, <1>3, <1>6, GenFacts DEF SealedInv
    <3> QED BY <1>1, <1>4, <1>6, <2>1, <3>1, <3>2, <3>3 DEF SealedInv, Below
  <2> QED BY <1>1, <1>4, <1>6, <1>8, <2>2 DEF JobInv
<1> QED BY <1>1, <1>2, <1>5, <1>6, <1>7, <1>9
        DEF SafetyInv, StabInv, RecoveryNeverFails

\* A failed write: the pager is poisoned, and what it disturbed nobody needs.
LEMMA WriteFailsSafe ==
    ASSUME TypeOK, TypeOK', SafetyInv, WriteFails
    PROVE  SafetyInv'
<1>1. /\ mode = "up" /\ poisoned' = TRUE /\ job' = [job EXCEPT !.phase = "failed"]
      /\ UNCHANGED <<len, lens, gen, stamp, mode, lost, floorSlot, pending, cur, free,
                     floor>>
      /\ job \in Jobs
  BY DEF WriteFails, handle, domain, TypeOK, AttemptsOK
<1>2. job'.phase = "failed"
  BY <1>1 DEF Jobs
<1>3. CASE /\ job.phase \in {"body", "aux"} /\ job.todo # {}
           /\ \E p \in job.todo : IssueFailing(p, job.w)
           /\ UNCHANGED tail
  <2>1. PICK p \in job.todo : IssueFailing(p, job.w)
    BY <1>3
  <2>2. /\ \A e \in Needs(cur) : disk'[e[1]] = e[2]
        /\ DeviceInv' /\ TailInv' /\ FloorInv' /\ SlotInv'
    BY <1>1, <1>3, <2>1, BodyWrite
  <2>3. CurInv'
    BY <1>1, <1>3, <2>2, CurKept
  <2> QED BY <1>1, <1>2, <2>2, <2>3
          DEF SafetyInv, StabInv, BatchInv, JobInv, RecoveryNeverFails
<1>4. CASE /\ job.phase = "aux" /\ job.todo = {}
           /\ IssueFailing(OtherSlot, job.w)
           /\ tail' = tail \cup {job.w}
  <2>1. /\ \A e \in Needs(cur) : disk'[e[1]] = e[2]
        /\ DeviceInv' /\ TailInv' /\ FloorInv' /\ SlotInv'
    BY <1>1, <1>4, MetaWrite
  <2>2. CurInv'
    BY <1>1, <1>4, <2>1, CurKept
  <2> QED BY <1>1, <1>2, <2>1, <2>2
          DEF SafetyInv, StabInv, BatchInv, JobInv, RecoveryNeverFails
<1> QED BY <1>3, <1>4 DEF WriteFails

\* A failed barrier changes nothing but the pager's flag.
LEMMA BarrierFailsSafe ==
    ASSUME TypeOK, TypeOK', SafetyInv, BarrierFails
    PROVE  SafetyInv'
<1>1. /\ mode = "up" /\ mode' = "up" /\ poisoned' = TRUE
      /\ UNCHANGED <<storage, gen, stamp, history>>
      /\ UNCHANGED <<disk, pending, cur, free, floor, tail>>
      /\ job' = job \/ job'.phase = "failed"
  BY SizeAssumption DEF BarrierFails, handle, storage, history, TypeOK, AttemptsOK, Jobs, Idle
<1>2. DeviceInv' /\ TailInv' /\ FloorInv' /\ SlotInv'
  BY <1>1, QuietDevice
<1>3. CurInv'
  BY <1>1, CurKept DEF SafetyInv, CurInv, Holds
<1>4. job'.phase \notin {"body", "aux", "meta"}
  BY SizeAssumption DEF BarrierFails, Ready, Jobs, Idle, TypeOK, AttemptsOK
<1> QED BY <1>1, <1>2, <1>3, <1>4
        DEF SafetyInv, StabInv, BatchInv, JobInv, RecoveryNeverFails

\* The process dies: what is on the device is as it was.
LEMMA ProcessCrashSafe ==
    ASSUME TypeOK, TypeOK', SafetyInv, ProcessCrash
    PROVE  SafetyInv'
<1>1. /\ mode' = "down" /\ lost' = "process"
      /\ UNCHANGED <<storage, gen, stamp, history>>
  BY DEF ProcessCrash, Forget, storage, history
<1>2. DeviceInv' /\ TailInv' /\ FloorInv' /\ SlotInv'
  BY <1>1, QuietDevice
<1> QED BY <1>1, <1>2
        DEF SafetyInv, CurInv, StabInv, BatchInv, JobInv, RecoveryNeverFails

\* reserve: nothing is written, the file does not shrink and covers what was
\* asked for, and a barrier that it runs only settles contents.
LEMMA ReserveEffect ==
    ASSUME TypeOK, DeviceInv, NEW need \in Nat, NEW first \in BOOLEAN,
           Reserve(need, first)
    PROVE  /\ disk' = disk /\ len' \in Nat /\ len <= len' /\ need <= len'
           /\ len' \in lens' /\ \A l \in lens' : len' <= l
           /\ poss' = poss \/ poss' = Durable
           /\ first => poss' = Durable
           /\ \A b \in Blocks : disk[b] \in poss'[b] /\ poss'[b] \subseteq poss[b]
<1>1. PICK t \in Lengths :
        /\ ReserveTo(len, need, t) /\ len' = t /\ disk' = disk
        /\ IF first \/ t > len THEN poss' = Durable /\ lens' = {t}
                               ELSE UNCHANGED <<poss, lens>>
  BY DEF Reserve
<1>2. t \in Nat /\ len \in Nat
  BY SizeAssumption, GrowthAssumption DEF TypeOK, StorageOK, Lengths
<1>3. len <= t /\ need <= t /\ (~(t > len) => t = len)
  BY <1>1, <1>2 DEF ReserveTo
<1>4. poss' = poss \/ poss' = Durable
  BY <1>1
<1>5. \A b \in Blocks : disk[b] \in poss'[b] /\ poss'[b] \subseteq poss[b]
  BY <1>4 DEF DeviceInv, Durable
<1>6. len' \in lens' /\ \A l \in lens' : len' <= l
  <2>1. CASE first \/ t > len
    <3>1. lens' = {t}
      BY <1>1, <2>1
    <3> QED BY <1>1, <1>2, <3>1
  <2>2. CASE ~(first \/ t > len)
    <3>1. lens' = lens /\ len' = len
      BY <1>1, <1>3, <2>2
    <3> QED BY <3>1 DEF DeviceInv
  <2> QED BY <2>1, <2>2
<1> QED BY <1>1, <1>2, <1>3, <1>4, <1>5, <1>6

\* A barrier, a reservation or a loss of power keeps the floor intact.
LEMMA FloorSettles ==
    ASSUME TypeOK, TypeOK', FloorInv, Sound(floor), gen'[floor] = gen[floor],
           floor' = floor,
           \A b \in Blocks :
                poss'[b] # {} /\ (b < gen[floor].pc => poss'[b] \subseteq poss[b]),
           \A l \in lens' : len' <= l, gen[floor].pc <= len'
    PROVE  FloorInv'
<1>1. floor \in Stamps /\ gen[floor].pc \in Nat /\ gen[floor].pc >= 2
  BY GenFacts DEF TypeOK, HistoryOK
<1>2. \A b \in Blocks, v \in Contents :
        b < gen[floor].pc /\ poss[b] = {v} => poss'[b] = {v}
  OBVIOUS
<1>3. \A e \in Needs(floor) : poss'[e[1]] = {e[2]}
  <2>1. \A e \in Needs(floor) : e[1] \in Blocks /\ e[2] \in Contents
    BY <1>1, GenFacts, BlockFacts
  <2>2. \A e \in Needs(floor) : poss[e[1]] = {e[2]}
    BY FloorEntries DEF FloorInv
  <2>3. \A e \in Needs(floor) : e[1] < gen[floor].pc
    BY <1>1, GenFacts DEF Sound, Below
  <2> QED BY <1>2, <2>1, <2>2, <2>3
<1>4. \A b \in Slots : poss[b] = {floor} => poss'[b] = {floor}
  <2>1. \A b \in Slots : b \in Blocks /\ b < gen[floor].pc
    BY <1>1, SlotFacts DEF TypeOK
  <2> QED BY <1>1, <1>2, <2>1, BlockFacts
<1>5. \A l \in lens' : gen[floor].pc <= l
  <2>1. len' \in Nat /\ lens' \subseteq Nat
    BY SizeAssumption, GrowthAssumption DEF TypeOK, StorageOK, Lengths
  <2>2. PICK n, m : n = len' /\ m = gen[floor].pc
    OBVIOUS
  <2>3. \A l \in lens' : l \in Nat /\ n <= l /\ n \in Nat /\ m \in Nat /\ m <= n
    BY <1>1, <2>1, <2>2
  <2>4. \A l \in lens' : m <= l
    BY <2>3
  <2> QED BY <2>2, <2>4
<1>6. Deps(floor)' = Deps(floor) /\ Vouched(floor)' = Vouched(floor)
  BY DEF Deps, Vouched
<1>7. FloorIntact'
  BY <1>3, <1>4, <1>5, <1>6 DEF FloorInv, FloorIntact, Needs
<1>8. gen[floor].txid = 1 => poss'[1] = {floor}
  BY <1>4 DEF FloorInv, Slots
<1>9. gen[floor].txid # 1 =>
        \E b \in Slots : poss'[b] = {floor} /\ floor \notin poss'[1 - b]
  <2> SUFFICES ASSUME gen[floor].txid # 1
               PROVE  \E b \in Slots : poss'[b] = {floor} /\ floor \notin poss'[1 - b]
    OBVIOUS
  <2>1. PICK b \in Slots : poss[b] = {floor} /\ floor \notin poss[1 - b]
    BY DEF FloorInv
  <2>2. 1 - b \in Blocks /\ 1 - b < gen[floor].pc
    BY <1>1, SlotFacts DEF TypeOK
  <2> QED BY <1>4, <2>1, <2>2
<1> QED BY <1>7, <1>8, <1>9 DEF FloorInv

\* A step that only settles what the slots hold.
LEMMA SlotSettles ==
    ASSUME TypeOK, TypeOK', SlotInv, TailInv, floor' = floor,
           tail \subseteq tail', stamp <= stamp', gen'[floor] = gen[floor],
           \A b \in Slots : \A t \in poss[b] \cap Stamps : gen'[t] = gen[t],
           \A b \in Slots : poss'[b] \subseteq poss[b],
           \A b \in Body : poss'[b] \subseteq poss[b] \cup {Zero}
    PROVE  SlotInv'
<1>1. {Zero} \cap Stamps = {}
  BY SlotFacts DEF TypeOK
<1>2. ASSUME NEW b \in Slots, NEW t \in poss'[b] PROVE SlotContent(t)'
  <2>1. t \in poss[b]
    BY <1>2
  <2> QED BY <1>1, <2>1, SlotKept
<1> QED BY <1>2 DEF SlotInv

\* A generation s becomes the floor: everything it needs has one possible
\* content, and so has its slot b.
LEMMA NewFloor ==
    ASSUME TypeOK, TypeOK', NEW s \in Stamps, floor' = s, tail' = {}, gen' = gen,
           TailInv, stamp <= stamp', Sound(s), gen[s].pc <= len',
           \A l \in lens' : len' <= l, len' \in Nat, lens' \subseteq Nat,
           \A e \in Needs(s) : poss'[e[1]] = {e[2]},
           NEW b \in Slots, poss'[b] = {s}, gen[s].txid = 1 => b = 1,
           gen[s].txid # 1 => s \notin poss'[1 - b]
    PROVE  TailInv' /\ FloorInv'
<1>1. TailInv'
  <2>1. Sound(s)'
    BY SoundKept
  <2>2. ASSUME NEW r \in Stamps PROVE \A e \in Vouched(r)' : e[2] <= r
    BY SameGen DEF TailInv
  <2> QED BY <2>1, <2>2 DEF TailInv
<1>2. gen[s].pc \in Nat
  BY GenFacts
<1>3. Deps(s)' = Deps(s) /\ Vouched(s)' = Vouched(s)
  BY SameGen
<1>4. Deps(floor)' = Deps(s) /\ Vouched(floor)' = Vouched(s)
  BY <1>3 DEF Deps, Vouched
<1>5. FloorIntact'
  BY <1>2, <1>4 DEF FloorIntact, Needs
<1> QED BY <1>1, <1>5 DEF FloorInv

\* commit_file up to its first write: every page the commit will write is
\* one neither the floor nor the published generation needs.
LEMMA BeginSafe ==
    ASSUME TypeOK, TypeOK', SafetyInv, Begin
    PROVE  SafetyInv'
<1> USE SizeAssumption
<1>0. PICK dropped \in SUBSET PagesOf(gen[cur].tree), reclaim \in BOOLEAN,
           reuse \in BOOLEAN :
        \E n \in 1 .. MaxTree - Cardinality(PagesOf(gen[cur].tree) \ dropped) :
            BeginCommit(dropped, n, reclaim, reuse)
  BY DEF Begin
<1>1. PICK n \in 1 .. MaxTree - Cardinality(PagesOf(gen[cur].tree) \ dropped) :
        BeginCommit(dropped, n, reclaim, reuse)
  BY <1>0
<1> DEFINE w     == stamp + 1
           pool  == Reusable(reuse)
           taken == Lowest(pool, n)
           pc    == gen[cur].pc + FromHigh(pool, n)
           pages == Draw(pool, n, gen[cur].pc)
<1>2. /\ cur \in Stamps /\ floor \in Stamps /\ stamp \in Stamps /\ stamp \in Nat
      /\ len \in Nat /\ stab \in BOOLEAN /\ free \in SUBSET Body
      /\ tail \subseteq Stamps /\ lens' \subseteq Nat
  BY GrowthAssumption DEF TypeOK, HistoryOK, DomainOK, AttemptsOK, Stamps, PagerOK,
                          StorageOK, Lengths
<1>3. n \in Nat \ {0}
  <2>1. PagesOf(gen[cur].tree) \ dropped \in SUBSET Body
    BY CurrentGeneration, PagesOfEntries DEF TypeOK
  <2>2. Cardinality(PagesOf(gen[cur].tree) \ dropped) \in Nat
    BY <2>1, PagesFinite
  <2> QED BY <2>2
<1>4. gen[cur].pc \in Nat /\ gen[cur].pc >= 2 /\ gen[cur].txid \in Nat
  BY <1>2, GenFacts
<1>5. /\ mode = "up" /\ job.phase = "idle" /\ ~poisoned
      /\ stamp' = w /\ stab' = FALSE /\ Reserve(pc, stab)
      /\ floorFree' = IF pending = {} /\ relaxed THEN free ELSE floorFree
      /\ floor' = IF stab THEN cur ELSE floor
      /\ tail' = IF stab THEN {} ELSE tail
      /\ job' = [phase |-> "body", w |-> w, todo |-> pages, written |-> pages,
               tree |-> {e \in gen[cur].tree : e[1] \notin dropped}
                        \cup {<<p, w>> : p \in pages},
               rest |-> free \ taken, safe |-> pool \ taken, pc |-> pc,
               reclaim |-> reclaim, left |-> {}, live |-> 0]
      /\ UNCHANGED <<gen, mode, lost, relaxed, cur, free, floorSlot, pending, poisoned,
                     shrinkPending, shrinkPages>>
  BY <1>1 DEF BeginCommit, Ready, handle
<1>6. pool \in SUBSET free
  BY DEF Reusable
<1>7. /\ FromHigh(pool, n) \in Nat /\ taken \subseteq pool /\ pages # {}
      /\ \A p \in pages : p \in taken \/ p \in gen[cur].pc .. pc - 1
  <2>1. pool \in SUBSET Body /\ n \in Nat
    BY <1>2, <1>3, <1>6
  <2>2. pages # {}
    BY <1>3, <1>4, <2>1, DrawNonempty
  <2> QED BY <1>4, <2>1, <2>2, DrawSources
<1>8. taken \subseteq pages
  BY DEF Draw
<1>9. pc \in Nat /\ gen[cur].pc <= pc
  BY <1>4, <1>7
<1> HIDE DEF pool, pc, pages, taken
<1>10. /\ disk' = disk /\ len' \in Nat /\ len <= len' /\ pc <= len'
       /\ len' \in lens' /\ \A l \in lens' : len' <= l
       /\ stab => poss' = Durable
       /\ \A b \in Blocks : disk[b] \in poss'[b] /\ poss'[b] \subseteq poss[b]
  BY <1>2, <1>5, <1>9, ReserveEffect DEF SafetyInv
\* The floor the commit starts from.
<1>11. PICK f \in Stamps : f = IF stab THEN cur ELSE floor
  BY <1>2
<1>12. floor' = f
  BY <1>5, <1>11
<1>13. /\ Protected(cur) \subseteq Below(gen[cur].pc) /\ free \cap Protected(cur) = {}
       /\ free \subseteq Below(gen[cur].pc) /\ Sound(cur)
       /\ \A e \in Needs(cur) : disk[e[1]] = e[2]
  BY <1>5 DEF SafetyInv, CurInv, TailInv, Sound, Holds
<1>14. pending = {} => f = cur
  BY <1>5, <1>11 DEF SafetyInv, BatchInv
<1>15. stab => pending = {} /\ disk[floorSlot] = cur
  BY <1>5 DEF SafetyInv, StabInv
<1>16. Protected(f) \subseteq Below(gen[cur].pc)
  BY <1>5, <1>11, <1>13, <1>14, <1>15 DEF SafetyInv, BatchInv
<1>17. pool \cap Protected(f) = {}
  <2>1. CASE pending = {}
    BY <1>6, <1>13, <1>14, <2>1
  <2>2. CASE pending # {}
    BY <1>5, <1>11, <1>15, <2>2 DEF SafetyInv, BatchInv, pool, Reusable
  <2> QED BY <2>1, <2>2
<1>18. /\ pages \cap (Protected(f) \cup Protected(cur)) = {}
       /\ pages \cup free \cup Protected(f) \cup Protected(cur) \subseteq Below(pc)
       /\ pages \cap (free \ taken) = {}
  <2>1. \A p \in gen[cur].pc .. pc - 1 : p \notin Below(gen[cur].pc) /\ p \in Below(pc)
    BY <1>4, <1>9 DEF Below
  <2>2. Below(gen[cur].pc) \subseteq Below(pc)
    BY <1>4, <1>9 DEF Below
  <2> QED BY <1>6, <1>7, <1>13, <1>16, <1>17, <2>1, <2>2
<1>19. Protected(floor)' = Protected(f) /\ Protected(cur)' = Protected(cur)
  BY <1>5, <1>12 DEF Protected, PagesOf, Deps, Vouched
<1>20. DeviceInv'
  BY <1>5, <1>10 DEF DeviceInv
<1>21. stamp <= stamp' /\ stamp' \in Nat
  BY <1>2, <1>5
<1>22. poss'[floorSlot] = {f} /\ (gen[f].txid = 1 => floorSlot = 1)
  <2>1. floorSlot \in Blocks
    BY SlotFacts DEF TypeOK
  <2>2. CASE stab
    BY <1>5, <1>10, <1>11, <1>15, <2>1, <2>2 DEF SafetyInv, StabInv, Durable
  <2>3. CASE ~stab
    BY <1>5, <1>10, <1>11, <2>1, <2>3 DEF SafetyInv, BatchInv
  <2> QED BY <2>2, <2>3
<1>23. TailInv' /\ FloorInv' /\ SlotInv'
  <2>1. CASE stab
    <3>1. f = cur /\ tail' = {} /\ poss' = Durable
      BY <1>5, <1>10, <1>11, <2>1
    <3>2. \A e \in Needs(cur) : e[1] \in Blocks /\ poss'[e[1]] = {e[2]}
      BY <1>2, <1>13, <3>1, GenFacts DEF Durable
    <3>3. gen[cur].pc <= len'
      BY <1>4, <1>9, <1>10
    <3>0. PICK t : t = disk[OtherSlot]
      OBVIOUS
    <3>4. /\ poss'[OtherSlot] = {t} /\ t \in poss[OtherSlot]
          /\ OtherSlot = 1 - floorSlot /\ OtherSlot \in Slots /\ floorSlot \in Slots
      BY <3>0, <3>1, SlotFacts DEF TypeOK, Durable, OtherSlot, SafetyInv, DeviceInv
    <3>5. \/ t = Torn
          \/ t = cur /\ gen[cur].txid = 1
          \/ gen[t].txid < gen[cur].txid
          \/ gen[t].txid > gen[cur].txid /\ ~Holds(Vouched(t))
      BY <1>5, <2>1, <3>0 DEF SafetyInv, StabInv
    <3>6. t = Torn \/ (t \in Stamps /\ t <= stamp)
      BY <3>4 DEF SafetyInv, SlotInv, SlotContent
    <3>7. gen[cur].txid # 1 => cur \notin poss'[1 - floorSlot]
      BY <1>2, <1>4, <3>4, <3>5, SlotFacts DEF TypeOK
    <3>8. TailInv' /\ FloorInv'
      BY <1>2, <1>5, <1>10, <1>12, <1>13, <1>21, <1>22, <3>1, <3>2, <3>3, <3>4, <3>7,
         NewFloor DEF SafetyInv
    <3>9. SlotContent(t)'
      <4>1. CASE t = Torn
        BY <4>1 DEF SlotContent
      <4>2. CASE t # Torn
        <5>1. t \in Stamps /\ t <= stamp'
          BY <1>2, <1>5, <3>6, <4>2 DEF Stamps
        <5>2. ~Holds(Vouched(t)) => Gone(t)'
          <6>1. Vouched(t)' = Vouched(t)
            BY <1>5, SameGen
          <6>2. \A e \in Vouched(t) : e[1] \in Blocks
            BY <5>1, GenFacts
          <6>3. \A e \in Vouched(t) : poss'[e[1]] = {disk[e[1]]}
            BY <3>1, <6>2 DEF Durable
          <6> QED BY <6>1, <6>3 DEF Holds, Gone
        <5> QED BY <1>5, <1>12, <3>1, <3>5, <4>2, <5>1, <5>2 DEF SlotContent
      <4> QED BY <4>1, <4>2
    <3>10. SlotContent(cur)'
      <4>1. cur <= stamp'
        BY <1>2, <1>13, <1>21 DEF Sound, Stamps
      <4> QED BY <1>2, <1>5, <1>12, <3>1, <4>1 DEF SlotContent
    <3>11. \A b \in Slots : \A v \in poss'[b] : v = t \/ v = cur
      BY <1>22, <3>1, <3>4, SlotFacts DEF TypeOK
    <3> QED BY <1>5, <3>8, <3>9, <3>10, <3>11 DEF SlotInv
  <2>2. CASE ~stab
    <3>1. floor' = floor /\ tail' = tail
      BY <1>5, <2>2
    <3>2. TailInv'
      BY <1>5, <1>10, <1>21, <3>1, TailKept DEF SafetyInv
    <3>3. FloorInv'
      <4>1. gen[floor].pc \in Nat /\ gen[floor].pc <= len'
        <5>1. gen[floor].pc \in Nat
          BY <1>2, GenFacts
        <5>2. gen[floor].pc <= len
          BY DEF SafetyInv, TailInv, Sound
        <5> QED BY <1>2, <1>10, <5>1, <5>2
      <4>2. FloorInv /\ Sound(floor)
        BY DEF SafetyInv, TailInv
      <4>3. \A b \in Blocks :
                poss'[b] # {} /\ (b < gen[floor].pc => poss'[b] \subseteq poss[b])
        BY <1>10
      <4> QED BY <1>5, <1>10, <3>1, <4>1, <4>2, <4>3, FloorSettles
    <3>4. SlotInv'
      <4>1. \A b \in Slots : poss'[b] \subseteq poss[b]
        BY <1>10, SlotFacts DEF TypeOK
      <4>2. \A b \in Body : poss'[b] \subseteq poss[b] \cup {Zero}
        BY <1>10, BlockFacts
      <4>3. tail \subseteq tail' /\ gen' = gen /\ floor' = floor /\ stamp <= stamp'
        BY <1>5, <1>21, <3>1
      <4>4. SlotInv /\ TailInv
        BY DEF SafetyInv
      <4> QED BY <4>1, <4>2, <4>3, <4>4, SlotSettles
    <3> QED BY <3>2, <3>3, <3>4
  <2> QED BY <2>1, <2>2
<1>24. CurInv'
  <2>1. Needs(cur)' = Needs(cur)
    BY <1>5 DEF Needs, Deps, Vouched
  <2>2. cur \in tail' \cup {floor'}
    BY <1>5 DEF SafetyInv, CurInv
  <2> QED BY <1>5, <1>10, <1>13, <1>19, <2>1, <2>2
          DEF SafetyInv, CurInv, Holds, Below
<1>25. /\ job'.phase = "body" /\ job'.w = w /\ job'.todo = pages
       /\ job'.written = pages /\ job'.rest = free \ taken
       /\ job'.safe = pool \ taken /\ job'.pc = pc
       /\ job'.tree = {e \in gen[cur].tree : e[1] \notin dropped}
                        \cup {<<p, w>> : p \in pages}
  BY <1>5
<1>26. BatchInv'
  <2>1. pending = {} => ~shrinkPending
    BY <1>5, <1>15 DEF SafetyInv, BatchInv, StabInv
  <2>2. relaxed => floorFree' \cap Protected(f) = {}
    BY <1>5, <1>11, <1>13, <1>14, <1>15 DEF SafetyInv, BatchInv
  <2>3. ASSUME pending # {}
        PROVE  /\ relaxed /\ cur \in tail' /\ disk'[OtherSlot] = cur
               /\ shrinkPending => shrinkPages = gen[cur].pc
    BY <1>5, <1>10, <1>15, <2>3 DEF SafetyInv, BatchInv
  <2>4. OtherSlot' = OtherSlot
    BY <1>5 DEF OtherSlot
  <2> QED BY <1>5, <1>12, <1>14, <1>16, <1>19, <1>22, <1>25, <2>1, <2>2, <2>3, <2>4
          DEF BatchInv, Below
<1>27. BodyInv'
  <2>1. \A p \in pages \ pages : FALSE
    OBVIOUS
  <2> QED BY <1>5, <1>6, <1>7, <1>13, <1>17, <1>18, <1>19, <1>25, <2>1
          DEF BodyInv, Below
<1>28. JobInv'
  <2>1. w \notin tail \cup {floor, cur} /\ w \notin tail' \cup {floor', cur'}
    <3>1. \A s \in tail \cup {floor, cur} : s <= stamp /\ s \in Nat
      <4>1. \A s \in tail \cup {floor} : s <= stamp
        BY DEF SafetyInv, TailInv, Sound
      <4>2. cur <= stamp
        BY <1>13 DEF Sound
      <4> QED BY <1>2, <4>1, <4>2 DEF Stamps
    <3>2. w \notin tail \cup {floor, cur}
      BY <1>2, <3>1
    <3> QED BY <1>5, <3>2
  <2>2. \A b \in Slots : w \notin poss'[b]
    <3>1. ASSUME NEW b \in Slots, w \in poss[b] PROVE FALSE
      <4>1. w # Torn
        BY <1>2 DEF Torn
      <4>2. w <= stamp
        BY <3>1, <4>1 DEF SafetyInv, SlotInv, SlotContent
      <4> QED BY <1>2, <4>2
    <3> QED BY <1>10, <3>1, SlotFacts DEF TypeOK
  <2> QED BY <1>5, <1>18, <1>19, <1>25, <1>27, <2>1, <2>2 DEF JobInv
<1> QED BY <1>5, <1>20, <1>23, <1>24, <1>26, <1>28
        DEF SafetyInv, StabInv, RecoveryNeverFails

\* What plan_free_list's layout uses: pages of the pool, or pages from the
\* base up; what it leaves on the list it does not use.
LEMMA LayoutPages ==
    ASSUME NEW list \in SUBSET Body, NEW safe \in SUBSET Body,
           NEW base \in Nat, base >= 2, NEW n \in Nat,
           \A p \in safe : p < base
    PROVE  LET plan == Layout(list, safe, base, n) IN
           /\ plan.pc \in Nat /\ base <= plan.pc
           /\ \A p \in plan.chain \cup plan.over :
                /\ p \in safe \/ p >= base
                /\ p \in Below(plan.pc)
           /\ plan.left \subseteq list
           /\ plan.left \cap (plan.chain \cup plan.over) = {}
<1> DEFINE over  == Draw(safe, n, base)
           next  == base + FromHigh(safe, n)
           avail == safe \ over
           count == ChainLength(Cardinality(list \ over), Cardinality(avail))
           chain == Draw(avail, count, next)
           pc    == next + FromHigh(avail, count)
<1>1. avail \in SUBSET Body /\ list \ over \in SUBSET Body
  OBVIOUS
<1>2. Cardinality(list \ over) \in Nat /\ Cardinality(avail) \in Nat
  BY <1>1, PagesFinite
<1>3. count \in Nat
  BY <1>2, ChainLengthNat
<1>4. /\ Layout(list, safe, base, n).pc = pc
      /\ Layout(list, safe, base, n).over = over
      /\ Layout(list, safe, base, n).chain = chain
      /\ Layout(list, safe, base, n).left = (list \ over) \ chain
  BY DEF Layout
<1>5. FromHigh(safe, n) \in Nat /\ Lowest(safe, n) \subseteq safe
      /\ \A p \in over : p \in Lowest(safe, n) \/ p \in base .. next - 1
  BY DrawSources
<1>6. next \in Nat /\ next >= base
  BY <1>5
<1> HIDE DEF over, next, count, avail
<1>7. FromHigh(avail, count) \in Nat /\ Lowest(avail, count) \subseteq avail
      /\ \A p \in chain : p \in Lowest(avail, count) \/ p \in next .. pc - 1
  BY <1>1, <1>3, <1>6, DrawSources
<1>8. pc \in Nat /\ next <= pc /\ base <= pc
  BY <1>6, <1>7
<1> HIDE DEF chain, pc
<1>9. \A p \in safe : p \in Nat /\ p >= 2 /\ p < base
  BY SizeAssumption DEF Body
<1>10. avail \subseteq safe
  BY DEF avail
<1>11. \A p \in chain \cup over : p \in safe \/ (p \in Nat /\ base <= p /\ p <= pc - 1)
  <2>1. \A p \in over : p \in safe \/ (p \in Nat /\ base <= p /\ p <= pc - 1)
    BY <1>5, <1>6, <1>8
  <2>2. \A p \in chain : p \in safe \/ (p \in Nat /\ base <= p /\ p <= pc - 1)
    BY <1>6, <1>7, <1>8, <1>10
  <2> QED BY <2>1, <2>2
<1>12. \A p \in chain \cup over : (p \in safe \/ p >= base) /\ p \in Below(pc)
  BY <1>8, <1>9, <1>11 DEF Below
<1> QED BY <1>4, <1>8, <1>12

\* The plan is made: the attempt is sealed, and the pages it has still to
\* write are again ones neither the floor nor the published generation needs.
LEMMA PlanFreeListSafe ==
    ASSUME TypeOK, TypeOK', SafetyInv, PlanFreeList
    PROVE  SafetyInv'
<1> USE SizeAssumption
<1>1. PICK base \in 2 .. job.pc, n \in Lengths :
        LET safe == {p \in job.safe : p < base}
            list == {p \in Listed : p < base}
            plan == Layout(list, safe, base, n)
        IN  /\ mode = "up" /\ job.phase = "body" /\ job.todo = {}
            /\ IF pending = {} THEN TrailingRun(job.safe, job.pc, base)
                               ELSE base = job.pc
            /\ IF plan.pc > PageLimit
               THEN /\ job' = [job EXCEPT !.phase = "failed"]
                    /\ UNCHANGED <<storage, gen>>
               ELSE /\ gen' = [gen EXCEPT ![job.w] = Sealed(plan)]
                    /\ job' = [job EXCEPT !.phase = "aux",
                                  !.todo = plan.chain \cup plan.over,
                                  !.left = plan.left,
                                  !.live = IF Compacts THEN Cardinality(Reached)
                                                       ELSE liveAt]
                    /\ Reserve(plan.pc, FALSE)
            /\ UNCHANGED <<stamp, handle, pagerVars, domain, faults, history>>
  BY DEF PlanFreeList
<1> DEFINE safe == {p \in job.safe : p < base}
           list == {p \in Listed : p < base}
           plan == Layout(list, safe, base, n)
<1>2. /\ job \in Jobs /\ job.pc \in 0 .. PageLimit /\ job.w \in Stamps /\ cur \in Stamps
      /\ floor \in Stamps /\ tail \subseteq Stamps /\ stamp \in Stamps
      /\ job.written \in SUBSET Body /\ job.rest \in SUBSET Body
      /\ job.safe \in SUBSET Body /\ job.tree \in SUBSET Entries
      /\ pending \in SUBSET Entries
  BY <1>1 DEF TypeOK, AttemptsOK, Jobs, DomainOK, HistoryOK, PagerOK
<1>3. base \in Nat /\ base >= 2 /\ base <= job.pc /\ n \in Nat
  BY <1>2, GrowthAssumption DEF Lengths
<1>4. /\ mode = "up" /\ job.phase = "body" /\ job.todo = {} /\ mode' = "up"
      /\ UNCHANGED <<stamp, handle, pagerVars, domain, faults, history>>
      /\ UNCHANGED <<lost, relaxed, floorSlot, pending, stab, poisoned, shrinkPending,
                     shrinkPages, cur, free, floorFree, floor, tail>>
  BY <1>1 DEF handle, pagerVars, domain, history
<1>5. BodyInv /\ ~stab /\ ~poisoned /\ job.w = stamp
      /\ job.w \notin tail \cup {floor, cur} /\ \A b \in Slots : job.w \notin poss[b]
  BY <1>4 DEF SafetyInv, JobInv
<1>6. CASE plan.pc > PageLimit
  <2>1. job' = [job EXCEPT !.phase = "failed"] /\ UNCHANGED <<storage, gen>>
    BY <1>1, <1>6
  <2>2. job'.phase = "failed" /\ UNCHANGED <<disk, poss>>
    BY <1>2, <2>1 DEF Jobs, storage
  <2>3. DeviceInv' /\ TailInv' /\ FloorInv' /\ SlotInv'
    BY <1>4, <2>1, QuietDevice
  <2>4. CurInv'
    BY <1>4, <2>1, <2>2, CurKept DEF SafetyInv, CurInv, Holds
  <2>5. BatchInv'
    BY <1>4, <1>5, <2>1, <2>2, BatchKept
  <2> QED BY <1>4, <1>5, <2>2, <2>3, <2>4, <2>5
          DEF SafetyInv, StabInv, JobInv, RecoveryNeverFails
<1>7. CASE ~(plan.pc > PageLimit)
  <2>1. /\ gen' = [gen EXCEPT ![job.w] = Sealed(plan)]
        /\ job' = [job EXCEPT !.phase = "aux",
                              !.todo = plan.chain \cup plan.over,
                              !.left = plan.left,
                              !.live = IF Compacts THEN Cardinality(Reached)
                                                   ELSE liveAt]
        /\ Reserve(plan.pc, FALSE)
    BY <1>1, <1>7
  \* The pages the plan uses and the pages it leaves listed.
  <2>2. list \in SUBSET Body /\ safe \in SUBSET Body /\ \A p \in safe : p < base
    <3>1. Below(job.pc) \subseteq Body
      BY <1>2 DEF Body, Below
    <3>2. Listed \in SUBSET Body
      BY <1>2, <3>1 DEF Listed, Below
    <3> QED BY <1>2, <3>2
  <2>3. /\ plan.pc \in Nat /\ base <= plan.pc
        /\ \A p \in plan.chain \cup plan.over :
                (p \in safe \/ p >= base) /\ p \in Below(plan.pc)
        /\ plan.left \subseteq list
        /\ plan.left \cap (plan.chain \cup plan.over) = {}
    <3> HIDE DEF list, safe
    <3> QED BY <1>3, <2>2, LayoutPages
  <2>4. plan.left \subseteq Listed /\ \A p \in plan.left : p < base /\ p \in Body
    BY <2>2, <2>3
  <2>5. PICK chain, over, left, pc :
            chain = plan.chain /\ over = plan.over /\ left = plan.left /\ pc = plan.pc
    OBVIOUS
  <2>6. /\ pc \in Nat /\ base <= pc
        /\ \A p \in chain \cup over :
                (p \in job.safe \/ p >= base) /\ p \in Below(pc)
        /\ left \subseteq Listed /\ left \cap (chain \cup over) = {}
        /\ \A p \in left : p < base /\ p \in Body
    BY <2>3, <2>4, <2>5
  <2>7. /\ job'.phase = "aux" /\ job'.w = job.w /\ job'.todo = chain \cup over
        /\ job'.written = job.written /\ job'.left = left
    BY <1>2, <2>1, <2>5 DEF Jobs
  <2>8. /\ gen'[job.w].txid = gen[cur].txid + 1 /\ gen'[job.w].pc = pc
        /\ gen'[job.w].tree = job.tree /\ gen'[job.w].chain = chain
        /\ gen'[job.w].list \subseteq left /\ gen'[job.w].over = over
        /\ gen'[job.w].manifest =
             pending \cup {<<p, job.w>> : p \in job.written \cup chain}
    BY <1>2, <2>1, <2>5 DEF TypeOK, AttemptsOK, Sealed
  <2>9. \A s \in Stamps : s # job.w => gen'[s] = gen[s]
    BY <2>1 DEF TypeOK, AttemptsOK
  <2>10. Reserve(pc, FALSE)
    BY <2>1, <2>5
  <2> HIDE DEF plan, list, safe
  <2>11. /\ disk' = disk /\ len' \in Nat /\ len <= len' /\ pc <= len'
         /\ len' \in lens' /\ \A l \in lens' : len' <= l
         /\ \A b \in Blocks : disk[b] \in poss'[b] /\ poss'[b] \subseteq poss[b]
    BY <2>6, <2>10, ReserveEffect DEF SafetyInv
  \* What must be kept lies below the base and outside the pool.
  <2>12. PICK kept : kept = Protected(floor) \cup Protected(cur)
    OBVIOUS
  <2>13. kept \cap job.safe = {} /\ job.written \cap job.safe = {}
    BY <1>5, <2>12 DEF BodyInv
  <2>14. \A p \in kept \cup job.written : p \in Nat /\ 2 <= p /\ p < base
    <3>1. \A p \in kept \cup job.written : p \in Nat /\ 2 <= p /\ p < job.pc
      BY <1>2, <1>5, <2>12 DEF BodyInv, Below
    <3>2. \A p \in base .. job.pc - 1 : p \in job.safe
      BY <1>1, <1>2, <1>3 DEF TrailingRun
    <3> QED BY <1>2, <1>3, <2>13, <3>1, <3>2
  <2>15. (chain \cup over) \cap kept = {}
    BY <1>3, <2>6, <2>13, <2>14
  <2>16. kept \cup job.written \subseteq Below(pc)
    BY <1>3, <2>6, <2>14 DEF Below
  \* What the attempt needs.
  <2>17. /\ Protected(floor)' = Protected(floor) /\ Protected(cur)' = Protected(cur)
         /\ Deps(floor)' = Deps(floor) /\ gen'[floor] = gen[floor] /\ gen'[cur] = gen[cur]
    BY <1>2, <1>4, <1>5, <2>9 DEF Protected, PagesOf, Deps, Vouched
  <2>18. PICK w : w = job.w
    OBVIOUS
  <2>19. Needs(w)' = job.tree \cup pending
             \cup {<<p, w>> : p \in job.written \cup chain \cup over}
    BY <2>8, <2>18 DEF Needs, Deps, Vouched
  <2>20. pending \subseteq Vouched(cur)
    BY <1>4 DEF SafetyInv, CurInv, Vouched
  <2>21. \A e \in Needs(w)' :
            \/ e \in gen[cur].tree \/ e \in pending
            \/ e[2] = w /\ e[1] \in job.written \cup chain \cup over
    BY <1>5, <2>18, <2>19 DEF BodyInv
  <2>22. \A e \in gen[cur].tree \cup pending : e[1] \in Protected(cur) /\ e \in Needs(cur)
    BY <1>2, <2>20, GenFacts
  <2>23. Protected(w)' = PagesOf(Needs(w)')
    BY DEF Protected, Needs
  <2>24. Protected(w)' \subseteq Below(pc)
    BY <2>6, <2>12, <2>16, <2>21, <2>22, <2>23 DEF PagesOf
  <2>25. left \cap Protected(w)' = {}
    <3>1. Protected(w)' \subseteq PagesOf(job.tree) \cup PagesOf(pending)
                                \cup job.written \cup chain \cup over
      BY <2>19, <2>23 DEF PagesOf
    <3>2. CASE Compacts
      <4>1. left \cap (PagesOf(job.tree) \cup PagesOf(pending) \cup job.written) = {}
        BY <2>6, <3>2 DEF Listed, Reached
      <4> QED BY <2>6, <3>1, <4>1
    <3>3. CASE ~Compacts
      <4>1. left \cap (Protected(cur) \cup job.written) = {}
        BY <1>5, <2>6, <3>3 DEF Listed, BodyInv
      <4>2. Protected(w)' \subseteq Protected(cur) \cup job.written \cup chain \cup over
        BY <2>21, <2>22, <2>23 DEF PagesOf
      <4> QED BY <2>6, <4>1, <4>2
    <3> QED BY <3>2, <3>3
  <2>26. left \subseteq Below(pc)
    BY <1>3, <2>6 DEF Below, Body
  <2>27. Sound(w)'
    <3>1. w <= stamp' /\ w \in Nat
      BY <1>2, <1>4, <1>5, <2>18 DEF Stamps
    <3>2. gen[cur].txid + 1 >= 1
      BY <1>2, GenFacts
    <3> QED BY <2>8, <2>11, <2>18, <2>24, <2>25, <2>26, <3>1, <3>2 DEF Sound, Below
  <2>28. Completes(w)'
    <3>1. gen'[w].manifest # {}
      <4>1. PICK p : p \in job.written
        BY <1>5 DEF BodyInv
      <4>2. <<p, job.w>> \in gen'[job.w].manifest
        BY <2>8, <4>1
      <4> QED BY <2>18, <4>2
    <3>2. gen[cur].tree \subseteq pending \cup Deps(floor)
      <4>1. CASE pending = {}
        BY <1>4, <1>5, <4>1 DEF SafetyInv, BatchInv, Deps
      <4>2. CASE pending # {}
        BY <1>4, <1>5, <4>2 DEF SafetyInv, BatchInv, CurInv, TailInv, Completes, Deps
      <4> QED BY <4>1, <4>2
    <3>3. Deps(w)' = job.tree \cup {<<p, w>> : p \in chain}
      BY <2>8, <2>18 DEF Deps
    <3>4. job.tree \subseteq gen[cur].tree \cup {<<p, w>> : p \in job.written}
      BY <1>5, <2>18 DEF BodyInv
    <3> QED BY <2>8, <2>17, <2>18, <3>1, <3>2, <3>3, <3>4 DEF Completes
  <2>29. \A e \in Needs(w)' : IF e[1] \in chain \cup over THEN e[2] = w
                                                        ELSE disk[e[1]] = e[2]
    <3>1. \A e \in Needs(cur) : disk[e[1]] = e[2]
      BY <1>4 DEF SafetyInv, CurInv, Holds
    <3>2. \A p \in job.written : disk[p] = w
      BY <1>4, <1>5, <2>18 DEF BodyInv
    <3> QED BY <2>12, <2>15, <2>21, <2>22, <3>1, <3>2
  <2>30. SealedInv'
    BY <1>4, <2>7, <2>8, <2>11, <2>12, <2>16, <2>17, <2>18, <2>25, <2>26, <2>27, <2>28,
       <2>29 DEF SealedInv, Below
  \* The rest of the invariant.
  <2>31. DeviceInv'
    BY <1>4, <2>11 DEF DeviceInv
  <2>32. stamp <= stamp'
    BY <1>2, <1>4 DEF Stamps
  <2>33. TailInv'
    <3>1. \A s \in tail \cup {floor} : gen'[s] = gen[s]
      BY <1>2, <1>5, <2>9
    <3>2. \A e \in Vouched(w)' : e[2] <= w
      <4>1. \A e \in pending : e[2] <= cur
        BY <1>2, <2>20 DEF SafetyInv, TailInv
      <4>2. cur <= w /\ cur \in Nat /\ w \in Nat
        BY <1>2, <1>4, <1>5, <2>18 DEF SafetyInv, CurInv, TailInv, Sound, Stamps
      <4>3. \A e \in Vouched(w)' : e \in pending \/ e[2] = w
        BY <2>8, <2>18 DEF Vouched
      <4>4. \A e \in pending : e[2] \in Nat
        BY <1>2 DEF Entries, Stamps
      <4> QED BY <4>1, <4>2, <4>3, <4>4
    <3>3. \A s \in Stamps : gen'[s] = gen[s] \/ \A e \in Vouched(s)' : e[2] <= s
      BY <2>9, <2>18, <3>2
    <3> QED BY <1>4, <2>11, <2>32, <3>1, <3>3, TailKept DEF SafetyInv
  <2>34. FloorInv'
    <3>1. Sound(floor) /\ FloorInv
      BY DEF SafetyInv, TailInv
    <3>2. gen[floor].pc <= len'
      <4>1. gen[floor].pc \in Nat /\ len \in Nat /\ gen[floor].pc <= len
        BY <1>2, <3>1, GenFacts, GrowthAssumption DEF Sound, TypeOK, StorageOK, Lengths
      <4> QED BY <2>11, <4>1
    <3>3. \A b \in Blocks :
            poss'[b] # {} /\ (b < gen[floor].pc => poss'[b] \subseteq poss[b])
      BY <2>11
    <3> QED BY <1>4, <2>11, <2>17, <3>1, <3>2, <3>3, FloorSettles
  <2>35. SlotInv'
    <3>1. \A b \in Slots : poss'[b] \subseteq poss[b]
      BY <2>11, SlotFacts DEF TypeOK
    <3>2. \A b \in Body : poss'[b] \subseteq poss[b] \cup {Zero}
      BY <2>11, BlockFacts
    <3>3. \A b \in Slots : \A t \in poss[b] \cap Stamps : gen'[t] = gen[t]
      BY <1>5, <2>9
    <3>4. SlotInv /\ TailInv
      BY DEF SafetyInv
    <3> QED BY <1>4, <2>17, <2>32, <3>1, <3>2, <3>3, <3>4, SlotSettles
  <2>36. CurInv'
    <3>1. \A e \in Needs(cur) : disk'[e[1]] = e[2]
      BY <1>4, <2>11 DEF SafetyInv, CurInv, Holds
    <3> QED BY <1>4, <2>17, <3>1, CurKept
  <2>37. BatchInv'
    <3>1. poss[floorSlot] = {floor} /\ floorSlot \in Blocks
      BY <1>4, <1>5, SlotFacts DEF SafetyInv, BatchInv, TypeOK
    <3>2. poss'[floorSlot] = poss[floorSlot]
      BY <2>11, <3>1
    <3> QED BY <1>4, <1>5, <2>7, <2>11, <2>17, <3>2, BatchKept
  <2>38. JobInv'
    <3>1. \A b \in Slots : job.w \notin poss'[b]
      BY <1>5, <2>11, SlotFacts DEF TypeOK
    <3> QED BY <1>4, <1>5, <2>7, <2>12, <2>15, <2>17, <2>30, <3>1 DEF JobInv
  <2> QED BY <1>4, <1>5, <2>31, <2>33, <2>34, <2>35, <2>36, <2>37, <2>38
          DEF SafetyInv, StabInv, RecoveryNeverFails
<1> QED BY <1>6, <1>7

-----------------------------------------------------------------------------
(* Barriers.                                                               *)

\* A barrier, and the cut that may follow it: below the high-water nothing
\* changes and every content is settled, and the file still covers it.
LEMMA BarrierEffect ==
    ASSUME TypeOK, TypeOK', NEW due \in BOOLEAN, NEW pc \in Nat, pc <= len,
           BarrierAndShrink(due, pc)
    PROVE  /\ \A b \in Blocks : b < pc => disk'[b] = disk[b] /\ poss'[b] = {disk[b]}
           /\ \A b \in Blocks : disk'[b] \in poss'[b]
           /\ len' \in lens' /\ (\A l \in lens' : len' <= l) /\ pc <= len'
<1>1. len \in Nat /\ len' \in Nat
  BY SizeAssumption, GrowthAssumption DEF TypeOK, StorageOK, Lengths
<1>2. \A b \in Blocks : b \in Nat
  BY SizeAssumption DEF Blocks, Slots, Body
<1>3. CASE ~due
  <2>1. poss' = Durable /\ lens' = {len} /\ disk' = disk /\ len' = len
    BY <1>3 DEF BarrierAndShrink, Barrier
  <2> QED BY <1>1, <2>1 DEF Durable
<1>4. CASE due
  <2>1. PICK t \in IF len > TrimTarget(pc) THEN {TrimTarget(pc), len} ELSE {len} :
          /\ len' = t
          /\ lens' = {len, t}
          /\ disk' = [b \in Blocks |-> IF b \in t .. len - 1 THEN Zero ELSE disk[b]]
          /\ poss' = [b \in Blocks |-> {disk[b], disk'[b]}]
    BY <1>4 DEF BarrierAndShrink, TrimSlack
  <2>2. TrimTarget(pc) \in Nat /\ pc <= TrimTarget(pc)
    BY GrowthAssumption DEF TrimTarget, GrowthStep
  <2>3. t \in Nat /\ pc <= t /\ t <= len
    BY <1>1, <2>1, <2>2
  <2>4. \A b \in Blocks : b < pc => disk'[b] = disk[b]
    BY <1>1, <1>2, <2>1, <2>3
  <2>5. \A b \in Blocks : poss'[b] = {disk[b], disk'[b]}
    BY <2>1
  <2>6. \A l \in lens' : len' <= l
    BY <1>1, <2>1, <2>3
  <2> QED BY <2>1, <2>3, <2>4, <2>5, <2>6
<1> QED BY <1>3, <1>4

\* The barrier of a synchronous commit or of a flush makes the generation in
\* the other slot the floor.
LEMMA Hardens ==
    ASSUME TypeOK, TypeOK', SafetyInv, NEW s \in Stamps, Sound(s),
           \A e \in Needs(s) : disk[e[1]] = e[2],
           disk[OtherSlot] = s, poss[floorSlot] = {floor},
           gen[s].txid > gen[floor].txid,
           NEW due \in BOOLEAN, NEW pc, due => pc = gen[s].pc,
           BarrierAndShrink(due, pc), floor' = s, tail' = {}, gen' = gen,
           stamp' = stamp, mode' = "up" \/ lost' # "power"
    PROVE  /\ DeviceInv' /\ TailInv' /\ FloorInv' /\ SlotInv'
           /\ poss'[OtherSlot] = {s} /\ \A e \in Needs(s) : disk'[e[1]] = e[2]
<1>1. /\ gen[s].pc \in Nat /\ gen[s].pc >= 2 /\ gen[s].txid \in Nat
      /\ gen[floor].txid \in Nat /\ gen[floor].txid >= 1 /\ floor \in Stamps
      /\ floor <= stamp
  BY GenFacts DEF TypeOK, HistoryOK, SafetyInv, TailInv, Sound
<1>2. BarrierAndShrink(due, gen[s].pc)
  BY DEF BarrierAndShrink
<1>3. gen[s].pc <= len
  BY DEF Sound
<1>4. /\ \A b \in Blocks : b < gen[s].pc => disk'[b] = disk[b] /\ poss'[b] = {disk[b]}
      /\ \A b \in Blocks : disk'[b] \in poss'[b]
      /\ len' \in lens' /\ (\A l \in lens' : len' <= l) /\ gen[s].pc <= len'
  BY <1>1, <1>2, <1>3, BarrierEffect
<1>5. /\ OtherSlot \in Blocks /\ OtherSlot < gen[s].pc /\ OtherSlot \in Slots
      /\ floorSlot \in Blocks /\ floorSlot < gen[s].pc /\ floorSlot = 1 - OtherSlot
      /\ \A b \in Slots : b = floorSlot \/ b = OtherSlot
  BY <1>1, SlotFacts DEF TypeOK, OtherSlot
<1>6. disk[floorSlot] = floor
  BY <1>5 DEF SafetyInv, DeviceInv
<1>7. poss'[OtherSlot] = {s} /\ poss'[floorSlot] = {floor}
  BY <1>4, <1>5, <1>6
<1>8. \A e \in Needs(s) : disk'[e[1]] = e[2] /\ poss'[e[1]] = {e[2]}
  <2>1. \A e \in Needs(s) : e[1] \in Blocks /\ e[1] < gen[s].pc
    BY <1>1, GenFacts DEF Sound, Below
  <2> QED BY <1>4, <2>1
<1>9. DeviceInv'
  BY <1>4 DEF DeviceInv
<1>10. len' \in Nat /\ lens' \subseteq Nat /\ stamp <= stamp'
  BY SizeAssumption, GrowthAssumption DEF TypeOK, StorageOK, Lengths, AttemptsOK, Stamps
<1>11. gen[s].txid # 1 /\ s \notin poss'[1 - OtherSlot]
  BY <1>1, <1>5, <1>7
<1>12. TailInv' /\ FloorInv'
  BY <1>4, <1>5, <1>7, <1>8, <1>10, <1>11, NewFloor DEF SafetyInv
<1>13. SlotInv'
  <2>1. s <= stamp
    BY DEF Sound
  <2>2. SlotContent(s)'
    BY <1>1, <2>1 DEF SlotContent
  <2>3. PICK g : g = floor
    OBVIOUS
  <2>4. SlotContent(g)'
    BY <1>1, <2>3 DEF SlotContent
  <2>5. \A b \in Slots : \A t \in poss'[b] : t = s \/ t = g
    BY <1>5, <1>7, <2>3
  <2> QED BY <2>2, <2>4, <2>5 DEF SlotInv
<1> QED BY <1>7, <1>8, <1>9, <1>12, <1>13

\* The end of a commit, batched or synchronous.
LEMMA FinishCommitSafe ==
    ASSUME TypeOK, TypeOK', SafetyInv, FinishCommit
    PROVE  SafetyInv'
<1>1. PICK w \in Stamps : w = job.w
  BY DEF TypeOK, AttemptsOK, FinishCommit
<1>2. /\ mode = "up" /\ job.phase = "meta" /\ mode' = "up"
      /\ cur' = w /\ free' = job.left /\ shrinkPages' = gen[w].pc /\ job' = Idle
      /\ UNCHANGED <<gen, stamp, mode, lost, relaxed, floorFree, stab, poisoned>>
  BY <1>1 DEF FinishCommit, handle
<1>3. SealedInv /\ ~stab /\ ~poisoned /\ disk[OtherSlot] = w /\ w \in tail /\ job.todo = {}
  BY <1>1, <1>2 DEF SafetyInv, JobInv
<1>4. /\ Sound(w) /\ Completes(w) /\ gen[w].txid = gen[cur].txid + 1
      /\ job.left \subseteq Below(gen[w].pc) /\ job.left \cap Protected(w) = {}
      /\ Protected(floor) \subseteq Below(gen[w].pc)
      /\ \A e \in Needs(w) : disk[e[1]] = e[2]
      /\ gen[w].manifest = pending \cup {<<p, w>> : p \in job.written \cup gen[w].chain}
  BY <1>1, <1>3 DEF SealedInv
<1>5. poss[floorSlot] = {floor}
  BY <1>2, <1>3 DEF SafetyInv, BatchInv
<1>6. CASE relaxed
  <2>1. /\ pending' = gen[w].manifest
        /\ UNCHANGED <<storage, floorSlot, floor, tail>>
        /\ UNCHANGED <<disk, poss>>
    BY <1>1, <1>4, <1>6 DEF FinishCommit, storage
  <2>2. DeviceInv' /\ TailInv' /\ FloorInv' /\ SlotInv'
    BY <1>2, <2>1, QuietDevice DEF history
  <2>3. CurInv'
    <3>1. Needs(cur)' = Needs(w) /\ Protected(cur)' = Protected(w)
      BY <1>2 DEF Needs, Protected, PagesOf, Deps, Vouched
    <3> QED BY <1>2, <1>3, <1>4, <2>1, <3>1 DEF CurInv, Below, Holds
  <2>4. BatchInv'
    <3>1. gen[w].manifest # {}
      BY <1>4 DEF Completes
    <3>2. Protected(floor)' = Protected(floor) /\ OtherSlot' = OtherSlot
      BY <1>2, <2>1 DEF Protected, PagesOf, Deps, Vouched, OtherSlot
    <3>3. floorFree \cap Protected(floor) = {} /\ (gen[floor].txid = 1 => floorSlot = 1)
      BY <1>2, <1>3, <1>6 DEF SafetyInv, BatchInv
    <3> QED BY <1>2, <1>3, <1>4, <1>5, <1>6, <2>1, <3>1, <3>2, <3>3 DEF BatchInv, Below
  <2> QED BY <1>2, <1>3, <2>2, <2>3, <2>4
          DEF SafetyInv, StabInv, JobInv, RecoveryNeverFails, Idle
<1>7. CASE ~relaxed
  <2>1. /\ pending' = {} /\ floorSlot' = OtherSlot /\ shrinkPending' = FALSE
        /\ BarrierAndShrink(shrinkPending \/ gen[w].pc < gen[cur].pc, gen[w].pc)
        /\ floor' = w /\ tail' = {}
    BY <1>1, <1>7 DEF FinishCommit
  <2>2. pending = {} /\ floor = cur
    BY <1>2, <1>3, <1>7 DEF SafetyInv, BatchInv
  <2>3. /\ gen[floor].txid \in Nat /\ gen[w].txid > gen[floor].txid /\ gen[floor].txid >= 1
        /\ gen[w].txid \in Nat
    <3>1. gen[floor].txid \in Nat /\ gen[floor].txid >= 1
      BY GenFacts DEF TypeOK, HistoryOK, SafetyInv, TailInv, Sound
    <3> QED BY <1>4, <2>2, <3>1
  <2>4. PICK due \in BOOLEAN : due = (shrinkPending \/ gen[w].pc < gen[cur].pc)
    BY DEF TypeOK, PagerOK
  <2>5. BarrierAndShrink(due, gen[w].pc)
    BY <2>1, <2>4
  <2>6. /\ DeviceInv' /\ TailInv' /\ FloorInv' /\ SlotInv'
        /\ poss'[OtherSlot] = {w} /\ \A e \in Needs(w) : disk'[e[1]] = e[2]
    BY <1>2, <1>3, <1>4, <1>5, <2>1, <2>3, <2>5, Hardens
  <2>7. CurInv'
    <3>1. Needs(cur)' = Needs(w) /\ Protected(cur)' = Protected(w)
      BY <1>2 DEF Needs, Protected, PagesOf, Deps, Vouched
    <3> QED BY <1>2, <1>4, <2>1, <2>6, <3>1 DEF CurInv, Below, Holds
  <2>8. BatchInv'
    <3>1. poss'[floorSlot'] = {floor'} /\ gen'[floor'].txid # 1
      BY <1>2, <2>1, <2>3, <2>6
    <3> QED BY <1>2, <2>1, <3>1 DEF BatchInv, Idle
  <2> QED BY <1>2, <1>3, <2>6, <2>7, <2>8
          DEF SafetyInv, StabInv, JobInv, RecoveryNeverFails, Idle
<1> QED BY <1>6, <1>7

\* A flush while a batch is pending makes the published generation the floor.
LEMMA FlushHardens ==
    ASSUME TypeOK, TypeOK', SafetyInv, mode = "up", job.phase \in {"idle", "failed"},
           pending # {}, ~poisoned, FlushBarrier, gen' = gen, stamp' = stamp,
           mode' = "up" \/ lost' # "power"
    PROVE  /\ DeviceInv' /\ TailInv' /\ FloorInv' /\ SlotInv'
           /\ poss'[OtherSlot] = {cur} /\ (\A e \in Needs(cur) : disk'[e[1]] = e[2])
           /\ gen[cur].txid # 1 /\ ~stab
<1>1. ~stab
  BY DEF SafetyInv, StabInv
<1>2. /\ cur \in tail /\ disk[OtherSlot] = cur /\ poss[floorSlot] = {floor}
      /\ shrinkPending => shrinkPages = gen[cur].pc
  BY <1>1 DEF SafetyInv, BatchInv
<1>3. /\ Sound(cur) /\ gen[cur].txid > gen[floor].txid /\ cur \in Stamps
      /\ gen[floor].txid >= 1
  BY <1>2 DEF SafetyInv, TailInv, TypeOK, DomainOK, Sound
<1>4. \A e \in Needs(cur) : disk[e[1]] = e[2]
  BY DEF SafetyInv, CurInv, Holds
<1>5. BarrierAndShrink(shrinkPending, shrinkPages) /\ floor' = cur /\ tail' = {}
      /\ shrinkPending \in BOOLEAN
  BY DEF FlushBarrier, TypeOK, PagerOK
<1>6. gen[cur].txid # 1
  <2>1. gen[cur].txid \in Nat /\ gen[floor].txid \in Nat
    BY GenFacts DEF TypeOK, DomainOK, HistoryOK
  <2> QED BY <1>3, <2>1
<1> QED BY <1>1, <1>2, <1>3, <1>4, <1>5, <1>6, Hardens

\* The cap flush, the idle flush and the deadline flush.
LEMMA FlushSafe ==
    ASSUME TypeOK, TypeOK', SafetyInv, Flush
    PROVE  SafetyInv'
<1>1. /\ mode = "up" /\ job.phase \in {"idle", "failed"} /\ pending # {} /\ ~poisoned
      /\ FlushBarrier /\ floorSlot' = OtherSlot /\ pending' = {} /\ shrinkPending' = FALSE
      /\ mode' = "up" /\ UNCHANGED <<gen, stamp, cur, free, job, stab, poisoned>>
      /\ floor' = cur /\ tail' = {}
  BY DEF Flush, handle, FlushBarrier
<1>2. /\ DeviceInv' /\ TailInv' /\ FloorInv' /\ SlotInv'
      /\ poss'[OtherSlot] = {cur} /\ (\A e \in Needs(cur) : disk'[e[1]] = e[2])
      /\ gen[cur].txid # 1 /\ ~stab
  BY <1>1, FlushHardens
<1>3. CurInv'
  <2>1. Needs(cur)' = Needs(cur) /\ Protected(cur)' = Protected(cur)
    BY <1>1 DEF Needs, Protected, PagesOf, Deps, Vouched
  <2> QED BY <1>1, <1>2, <2>1 DEF SafetyInv, CurInv, Below, Holds
<1>4. BatchInv'
  <2>1. poss'[floorSlot'] = {floor'} /\ gen'[floor'].txid # 1
    BY <1>1, <1>2
  <2> QED BY <1>1, <2>1 DEF BatchInv
<1> QED BY <1>1, <1>2, <1>3, <1>4 DEF SafetyInv, StabInv, JobInv, RecoveryNeverFails

\* close, with its flush or without.
LEMMA CloseSafe ==
    ASSUME TypeOK, TypeOK', SafetyInv, Close
    PROVE  SafetyInv'
<1>1. /\ mode = "up" /\ job.phase \in {"idle", "failed"}
      /\ mode' = "down" /\ lost' = "close" /\ UNCHANGED <<gen, stamp>>
  BY DEF Close, Forget
<1>2. DeviceInv' /\ TailInv' /\ FloorInv' /\ SlotInv'
  <2>1. CASE pending = {} \/ poisoned
    <3>1. UNCHANGED <<storage, history>>
      BY <2>1 DEF Close
    <3> QED BY <1>1, <3>1, QuietDevice DEF storage, history
  <2>2. CASE ~(pending = {} \/ poisoned)
    <3>1. FlushBarrier
      BY <2>2 DEF Close
    <3> QED BY <1>1, <2>2, <3>1, FlushHardens
  <2> QED BY <2>1, <2>2
<1> QED BY <1>1, <1>2 DEF SafetyInv, CurInv, StabInv, BatchInv, JobInv, RecoveryNeverFails

-----------------------------------------------------------------------------
(* A loss of power, and recovery.                                          *)

\* A loss of power leaves every block with one of its possible contents, and
\* the file at least as long as a read found it.
LEMMA PowerLossSafe ==
    ASSUME TypeOK, TypeOK', SafetyInv, PowerLoss
    PROVE  SafetyInv'
<1> DEFINE open == {b \in Blocks : poss[b] # {disk[b]}}
<1>1. PICK l \in lens, f \in [open -> UNION {poss[b] : b \in open}] :
        /\ \A b \in open : f[b] \in poss[b]
        /\ len' = l
        /\ disk' = [b \in Blocks |-> IF b >= l THEN Zero
                                     ELSE IF b \in open THEN f[b] ELSE disk[b]]
        /\ poss' = [b \in Blocks |-> {disk'[b]}]
        /\ lens' = {l}
  BY DEF PowerLoss
<1>2. /\ mode' = "down" /\ lost' = "power" /\ UNCHANGED <<gen, stamp, floor, tail>>
  BY DEF PowerLoss, Forget, history
<1>3. len \in Nat /\ l \in Nat /\ len <= l
  BY SizeAssumption, GrowthAssumption DEF TypeOK, StorageOK, Lengths, SafetyInv, DeviceInv
<1>4. \A b \in Blocks : poss'[b] = {disk'[b]} /\ (b < l => disk'[b] \in poss[b])
  <2>1. \A b \in Blocks : b \in Nat
    BY SizeAssumption DEF Blocks, Slots, Body
  <2>2. \A b \in Blocks : b < l => disk'[b] \in poss[b]
    BY <1>1, <1>3, <2>1 DEF SafetyInv, DeviceInv
  <2> QED BY <1>1, <2>2
<1>5. \A b \in Blocks : disk'[b] = Zero \/ b < l
  <2>1. \A b \in Blocks : b \in Nat
    BY SizeAssumption DEF Blocks, Slots, Body
  <2> QED BY <1>1, <1>3, <2>1
<1>6. DeviceInv'
  <2>1. poss' = Durable'
    BY <1>1 DEF Durable
  <2>2. lens' = {len'} /\ len' \in Nat
    BY <1>1, <1>3
  <2> QED BY <1>4, <2>1, <2>2 DEF DeviceInv
<1>7. stamp <= stamp' /\ len <= len'
  BY <1>1, <1>2, <1>3 DEF TypeOK, AttemptsOK, Stamps
<1>8. TailInv'
  BY <1>2, <1>7, TailKept DEF SafetyInv
<1>9. FloorInv'
  <2>1. FloorInv /\ Sound(floor) /\ gen[floor].pc \in Nat /\ gen[floor].pc <= len
    BY GenFacts DEF TypeOK, HistoryOK, SafetyInv, TailInv, Sound
  <2>2. gen[floor].pc <= l
    BY <1>3, <2>1
  <2>3. \A b \in Blocks :
            poss'[b] # {} /\ (b < gen[floor].pc => poss'[b] \subseteq poss[b])
    <3>1. \A b \in Blocks : b \in Nat
      BY SizeAssumption DEF Blocks, Slots, Body
    <3> QED BY <1>3, <1>4, <2>1, <2>2, <3>1
  <2>4. \A m \in lens' : len' <= m
    BY <1>1, <1>3
  <2> QED BY <1>1, <1>2, <2>1, <2>2, <2>3, <2>4, FloorSettles
<1>10. SlotInv'
  <2>1. \A b \in Slots : b \in Blocks /\ b < l
    <3>1. gen[floor].pc \in Nat /\ gen[floor].pc >= 2 /\ gen[floor].pc <= len
      BY GenFacts DEF TypeOK, HistoryOK, SafetyInv, TailInv, Sound
    <3> QED BY <1>3, <3>1, SlotFacts DEF TypeOK
  <2>2. \A b \in Slots : poss'[b] \subseteq poss[b]
    BY <1>4, <2>1
  <2>3. \A b \in Body : poss'[b] \subseteq poss[b] \cup {Zero}
    BY <1>4, <1>5, BlockFacts
  <2>4. SlotInv /\ TailInv
    BY DEF SafetyInv
  <2> QED BY <1>2, <1>7, <2>2, <2>3, <2>4, SlotSettles
<1> QED BY <1>2, <1>6, <1>8, <1>9, <1>10
        DEF SafetyInv, CurInv, StabInv, BatchInv, JobInv, RecoveryNeverFails

\* The floor's own meta is always a valid candidate.
LEMMA FloorValidates ==
    ASSUME TypeOK, SafetyInv
    PROVE  /\ \A e \in Needs(floor) : disk[e[1]] = e[2]
           /\ \E b \in Slots : disk[b] = floor /\ Validates(b)
<1>1. floor \in Stamps /\ Sound(floor)
  BY DEF TypeOK, HistoryOK, SafetyInv, TailInv
<1>2. \A b \in Blocks : disk[b] \in poss[b]
  BY DEF SafetyInv, DeviceInv
<1>3. \A e \in Needs(floor) : disk[e[1]] = e[2]
  <2>1. \A e \in Needs(floor) : e[1] \in Blocks
    BY <1>1, GenFacts
  <2>2. \A e \in Needs(floor) : poss[e[1]] = {e[2]}
    BY FloorEntries DEF SafetyInv, FloorInv
  <2> QED BY <1>2, <2>1, <2>2
<1>4. PICK b \in Slots : poss[b] = {floor}
  BY DEF SafetyInv, FloorInv, FloorIntact
<1>5. disk[b] = floor
  BY <1>2, <1>4, SlotFacts DEF TypeOK
<1>6. Holds(Vouched(floor))
  BY <1>1, <1>3, GenFacts DEF Holds
<1>7. Validates(b)
  BY <1>1, <1>5, <1>6 DEF Validates, Parses, Sound
<1> QED BY <1>3, <1>5, <1>7

\* What open adopts: a complete generation, the floor or a later attempt.
LEMMA OpenSelects ==
    ASSUME TypeOK, SafetyInv, NEW s, s = disk[Selected]
    PROVE  /\ Selected \in Slots /\ Validates(Selected)
           /\ Validates(1 - Selected) => gen[disk[1 - Selected]].txid <= gen[s].txid
           /\ s \in Stamps /\ s \in tail \cup {floor} /\ Sound(s)
           /\ gen[s].txid >= gen[floor].txid
           /\ \A e \in Needs(s) : disk[e[1]] = e[2]
           /\ gen[s].manifest = {} => s = floor
<1>1. PICK b \in Slots : disk[b] = floor /\ Validates(b)
  BY FloorValidates
<1>2. PICK x : x = Selected
  OBVIOUS
<1>3. \A c \in Slots : Validates(c) => gen[disk[c]].txid \in Nat
  BY GenFacts DEF Validates, Parses
<1>4. /\ x \in Slots /\ Validates(x)
      /\ \A c \in Slots : Validates(c) => gen[disk[c]].txid <= gen[disk[x]].txid
  BY <1>1, <1>2, <1>3, SlotFacts DEF TypeOK, Selected
<1>5. s \in Stamps /\ s = disk[x] /\ Holds(Vouched(s)) /\ s \in poss[x]
  BY <1>2, <1>4, SlotFacts DEF TypeOK, Validates, Parses, SafetyInv, DeviceInv
<1>6. gen[s].txid >= gen[floor].txid /\ gen[s].txid \in Nat /\ gen[floor].txid \in Nat
  BY <1>1, <1>3, <1>4, <1>5
<1>7. ~Gone(s)
  <2>1. \A e \in Vouched(s) : e[1] \in Blocks
    BY <1>5, GenFacts
  <2>2. \A e \in Vouched(s) : e[2] \in poss[e[1]]
    BY <1>5, <2>1 DEF Holds, SafetyInv, DeviceInv
  <2> QED BY <2>2 DEF Gone
<1>8. s \in tail \cup {floor}
  <2>1. SlotContent(s)
    BY <1>4, <1>5 DEF SafetyInv, SlotInv
  <2>2. s # Torn
    BY <1>5, SlotFacts DEF TypeOK
  <2> QED BY <1>6, <1>7, <2>1, <2>2 DEF SlotContent
<1>9. Sound(s)
  BY <1>8 DEF SafetyInv, TailInv
<1>10. \A e \in Needs(s) : disk[e[1]] = e[2]
  <2>1. CASE s = floor
    BY <2>1, FloorValidates
  <2>2. CASE s \in tail
    <3>1. Needs(s) \subseteq Vouched(s) \cup Deps(floor)
      BY <2>2 DEF SafetyInv, TailInv, Completes, Needs, Vouched
    <3>2. \A e \in Deps(floor) : disk[e[1]] = e[2]
      BY FloorValidates DEF Needs
    <3> QED BY <1>5, <3>1, <3>2 DEF Holds
  <2> QED BY <1>8, <2>1, <2>2
<1>11. gen[s].manifest = {} => s = floor
  BY <1>8 DEF SafetyInv, TailInv, Completes
<1>12. 1 - x \in Slots
  BY <1>4, SlotFacts DEF TypeOK
<1> QED BY <1>2, <1>4, <1>5, <1>6, <1>8, <1>9, <1>10, <1>11, <1>12

\* The two slots carry the same txid only when both hold the new file's meta.
LEMMA TwinSlots ==
    ASSUME TypeOK, SafetyInv, SameTxid
    PROVE  gen[floor].txid = 1 /\ disk[0] = floor /\ disk[1] = floor
<1>1. PICK b \in Slots : disk[b] = floor
  BY FloorValidates
<1>2. PICK t : t = disk[1 - b]
  OBVIOUS
<1>3. /\ 1 - b \in Slots /\ t \in Stamps /\ gen[t].txid = gen[floor].txid
      /\ t \in poss[1 - b]
  BY <1>1, <1>2, SlotFacts DEF TypeOK, SameTxid, Parses, SafetyInv, DeviceInv
<1>4. t = floor
  <2>1. SlotContent(t) /\ t # Torn
    BY <1>3, SlotFacts DEF TypeOK, SafetyInv, SlotInv
  <2>2. gen[t].txid \in Nat
    BY <1>3, GenFacts
  <2> QED BY <1>3, <2>1, <2>2 DEF SlotContent, SafetyInv, TailInv
<1>5. disk[0] = floor /\ disk[1] = floor
  BY <1>1, <1>2, <1>4, SlotFacts DEF TypeOK
<1>6. floor \in poss[0] /\ floor \in poss[1]
  BY <1>5, BlockFacts DEF SafetyInv, DeviceInv
<1>7. gen[floor].txid = 1
  BY <1>6, SlotFacts DEF TypeOK, SafetyInv, FloorInv
<1> QED BY <1>5, <1>7

\* The slot open records for the generation s it adopts, and what the other
\* slot holds then.
LEMMA OpenSlot ==
    ASSUME TypeOK, SafetyInv, NEW s, s = disk[Selected],
           NEW x, x = IF SameTxid THEN gen[s].txid % 2 ELSE Selected,
           NEW t, t = disk[1 - x]
    PROVE  /\ x \in Slots /\ disk[x] = s /\ t \in poss[1 - x]
           /\ gen[s].txid = 1 => x = 1
           /\ s = floor => poss[x] = {floor}
           /\ \/ t = Torn
              \/ /\ t \in Stamps /\ t <= stamp
                 /\ \/ t = s /\ gen[s].txid = 1
                    \/ gen[t].txid < gen[s].txid
                    \/ gen[t].txid > gen[s].txid /\ ~Holds(Vouched(t))
<1>1. /\ Selected \in Slots /\ Validates(Selected)
      /\ Validates(1 - Selected) => gen[disk[1 - Selected]].txid <= gen[s].txid
      /\ s \in Stamps /\ s \in tail \cup {floor}
      /\ gen[s].txid >= gen[floor].txid
  BY OpenSelects
<1>2. gen[s].txid \in Nat /\ gen[floor].txid \in Nat /\ gen[floor].txid >= 1
      /\ floor \in Stamps
  BY <1>1, GenFacts DEF TypeOK, HistoryOK, SafetyInv, TailInv, Sound
<1>3. gen[s].txid = 1 => s = floor
  BY <1>1, <1>2 DEF SafetyInv, TailInv
<1>4. CASE SameTxid
  <2>1. gen[floor].txid = 1 /\ disk[0] = floor /\ disk[1] = floor
    BY <1>4, TwinSlots
  <2>2. s = floor /\ x = 1
    BY <1>1, <1>4, <2>1, SlotFacts DEF TypeOK
  <2>3. 1 - x = 0 /\ t = floor
    BY <2>1, <2>2
  <2>4. poss[1] = {floor} /\ floor \in poss[0] /\ floor <= stamp
    BY <2>1, BlockFacts DEF SafetyInv, FloorInv, DeviceInv, TailInv, Sound
  <2> QED BY <1>1, <2>1, <2>2, <2>3, <2>4, SlotFacts DEF TypeOK
<1>5. CASE ~SameTxid
  <2>1. x = Selected /\ x \in Slots /\ 1 - x \in Slots /\ disk[x] = s
    BY <1>1, <1>5, SlotFacts DEF TypeOK
  <2>2. t \in poss[1 - x] /\ s \in poss[x]
    BY <2>1, SlotFacts DEF TypeOK, SafetyInv, DeviceInv
  <2>3. gen[s].txid = 1 => x = 1
    <3> SUFFICES ASSUME gen[s].txid = 1, x # 1 PROVE FALSE
      OBVIOUS
    <3>1. s = floor /\ x = 0 /\ poss[1] = {floor}
      BY <1>3, <2>1, SlotFacts DEF TypeOK, SafetyInv, FloorInv
    <3>2. disk[1] = floor /\ disk[0] = floor
      BY <2>1, <3>1, BlockFacts DEF SafetyInv, DeviceInv
    <3> QED BY <1>2, <1>5, <3>2 DEF SameTxid, Parses
  <2>4. s = floor => poss[x] = {floor}
    <3> SUFFICES ASSUME s = floor PROVE poss[x] = {floor}
      OBVIOUS
    <3>1. CASE gen[floor].txid = 1
      BY <2>3, <3>1 DEF SafetyInv, FloorInv
    <3>2. CASE gen[floor].txid # 1
      <4>1. PICK b \in Slots : poss[b] = {floor} /\ floor \notin poss[1 - b]
        BY <3>2 DEF SafetyInv, FloorInv
      <4>2. x = b
        BY <2>1, <2>2, <4>1, SlotFacts DEF TypeOK
      <4> QED BY <4>1, <4>2
    <3> QED BY <3>1, <3>2
  <2>5. ASSUME t # Torn
        PROVE  /\ t \in Stamps /\ t <= stamp
               /\ \/ gen[t].txid < gen[s].txid
                  \/ gen[t].txid > gen[s].txid /\ ~Holds(Vouched(t))
    <3>1. t \in Stamps /\ t <= stamp /\ gen[t].txid \in Nat
          /\ \/ t \in tail \cup {floor}
             \/ gen[t].txid < gen[floor].txid
             \/ gen[t].txid > gen[floor].txid /\ Gone(t)
      BY <2>1, <2>2, <2>5, GenFacts DEF SafetyInv, SlotInv, SlotContent
    <3>2. gen[t].txid # gen[s].txid
      BY <1>1, <1>5, <2>1, <3>1, SlotFacts DEF TypeOK, SameTxid, Parses
    <3>3. ASSUME gen[t].txid > gen[s].txid, Holds(Vouched(t)) PROVE FALSE
      <4>1. ~Gone(t)
        <5>1. \A e \in Vouched(t) : e[1] \in Blocks
          BY <3>1, GenFacts
        <5>2. \A e \in Vouched(t) : e[2] \in poss[e[1]]
          BY <3>3, <5>1 DEF Holds, SafetyInv, DeviceInv
        <5> QED BY <5>2 DEF Gone
      <4>2. t \in tail \cup {floor}
        <5>1. PICK i \in Nat, j \in Nat, k \in Nat :
                i = gen[t].txid /\ j = gen[s].txid /\ k = gen[floor].txid
          BY <1>2, <3>1
        <5>2. i > j /\ j >= k
          BY <1>1, <3>3, <5>1
        <5>3. ~(i < k)
          BY <5>2
        <5> QED BY <3>1, <4>1, <5>1, <5>3
      <4>3. gen[t].pc <= len
        BY <4>2 DEF SafetyInv, TailInv, Sound
      <4>4. Validates(1 - x)
        BY <3>1, <3>3, <4>3 DEF Validates, Parses
      <4>5. gen[t].txid <= gen[s].txid
        BY <1>1, <2>1, <4>4
      <4>6. PICK i \in Nat, j \in Nat : i = gen[t].txid /\ j = gen[s].txid
        BY <1>2, <3>1
      <4>7. i > j /\ i <= j
        BY <3>3, <4>5, <4>6
      <4> QED BY <4>7
    <3> QED BY <1>2, <3>1, <3>2, <3>3
  <2> QED BY <2>1, <2>2, <2>3, <2>4, <2>5
<1> QED BY <1>4, <1>5

\* Open never fails, and what it adopts satisfies the invariant again.
LEMMA ReopenSafe ==
    ASSUME TypeOK, TypeOK', SafetyInv, Reopen
    PROVE  SafetyInv'
<1>1. PICK s : s = disk[Selected]
  OBVIOUS
<1>2. PICK x : x = IF SameTxid THEN gen[s].txid % 2 ELSE Selected
  OBVIOUS
<1>3. PICK t : t = disk[1 - x]
  OBVIOUS
<1>4. /\ s \in Stamps /\ s \in tail \cup {floor} /\ Sound(s)
      /\ Selected \in Slots /\ Validates(Selected)
      /\ \A e \in Needs(s) : disk[e[1]] = e[2]
      /\ gen[s].manifest = {} => s = floor
  BY <1>1, OpenSelects
<1>5. /\ x \in Slots /\ disk[x] = s /\ t \in poss[1 - x]
      /\ gen[s].txid = 1 => x = 1
      /\ s = floor => poss[x] = {floor}
      /\ \/ t = Torn
         \/ /\ t \in Stamps /\ t <= stamp
            /\ \/ t = s /\ gen[s].txid = 1
               \/ gen[t].txid < gen[s].txid
               \/ gen[t].txid > gen[s].txid /\ ~Holds(Vouched(t))
  BY <1>1, <1>2, <1>3, OpenSlot
<1>6. Validates(0) \/ Validates(1)
  BY <1>4 DEF Slots
<1>7. /\ mode = "down" /\ mode' = "up" /\ cur' = s /\ floorSlot' = x
      /\ stab' = (gen[s].manifest # {}) /\ pending' = {} /\ poisoned' = FALSE
      /\ shrinkPending' = FALSE /\ free' = gen[s].list /\ job' = Idle
      /\ IF lost = "power" THEN floor' = s /\ tail' = {} ELSE UNCHANGED history
      /\ UNCHANGED <<storage, gen, stamp, lost>>
      /\ UNCHANGED <<disk, poss, len, lens>>
  BY <1>1, <1>2, <1>6 DEF Reopen, storage
<1>8. /\ DeviceInv' /\ TailInv' /\ FloorInv' /\ SlotInv'
      /\ s \in tail' \cup {floor'}
      /\ gen[s].manifest = {} => floor' = s /\ poss'[x] = {s}
  <2>1. CASE lost # "power"
    <3>1. UNCHANGED history /\ floor' = floor /\ tail' = tail
      BY <1>7, <2>1 DEF history
    <3>2. DeviceInv' /\ TailInv' /\ FloorInv' /\ SlotInv'
      BY <1>7, <3>1, QuietDevice
    <3> QED BY <1>4, <1>5, <1>7, <3>1, <3>2
  <2>2. CASE lost = "power"
    <3>1. poss = Durable /\ floor' = s /\ tail' = {} /\ lens = {len}
      BY <1>7, <2>2 DEF SafetyInv, DeviceInv
    <3>2. 1 - x \in Slots /\ x \in Blocks /\ 1 - x \in Blocks
      BY <1>5, SlotFacts DEF TypeOK
    <3>3. poss[x] = {s} /\ poss[1 - x] = {t}
      BY <1>3, <1>5, <3>1, <3>2 DEF Durable
    <3>4. DeviceInv'
      BY <1>7 DEF SafetyInv, DeviceInv
    <3>5. \A e \in Needs(s) : poss'[e[1]] = {e[2]}
      <4>1. \A e \in Needs(s) : e[1] \in Blocks
        BY <1>4, GenFacts
      <4> QED BY <1>4, <1>7, <3>1, <4>1 DEF Durable
    <3>6. len' \in Nat /\ lens' \subseteq Nat /\ stamp <= stamp' /\ gen[s].pc <= len'
          /\ \A l \in lens' : len' <= l
      BY <1>4, <1>7, <3>1, SizeAssumption, GrowthAssumption
         DEF TypeOK, StorageOK, Lengths, AttemptsOK, Stamps, Sound
    <3>7. gen[s].txid # 1 => s \notin poss'[1 - x]
      <4>1. gen[s].txid \in Nat /\ s # Torn
        BY <1>4, GenFacts, SlotFacts DEF TypeOK
      <4> QED BY <1>5, <1>7, <3>3, <4>1
    <3>8. TailInv' /\ FloorInv'
      BY <1>4, <1>5, <1>7, <3>1, <3>3, <3>5, <3>6, <3>7, NewFloor DEF SafetyInv
    <3>9. SlotContent(s)'
      BY <1>4, <1>7, <3>1 DEF SlotContent, Sound
    <3>10. SlotContent(t)'
      <4>1. t \in Stamps /\ ~Holds(Vouched(t)) => Gone(t)'
        <5> SUFFICES ASSUME t \in Stamps, ~Holds(Vouched(t)) PROVE Gone(t)'
          OBVIOUS
        <5>1. Vouched(t)' = Vouched(t)
          BY <1>7, SameGen
        <5>2. \A e \in Vouched(t) : e[1] \in Blocks
          BY GenFacts
        <5>3. \A e \in Vouched(t) : poss'[e[1]] = {disk[e[1]]}
          BY <1>7, <3>1, <5>2 DEF Durable
        <5> QED BY <5>1, <5>3 DEF Holds, Gone
      <4> QED BY <1>5, <1>7, <3>1, <4>1 DEF SlotContent
    <3>11. SlotInv'
      <4>1. \A b \in Slots : b = x \/ b = 1 - x
        BY <1>5 DEF Slots
      <4>2. \A b \in Slots : \A v \in poss'[b] : v = s \/ v = t
        BY <1>7, <3>3, <4>1
      <4> QED BY <3>9, <3>10, <4>2 DEF SlotInv
    <3> QED BY <1>7, <3>1, <3>3, <3>4, <3>8, <3>11
  <2> QED BY <2>1, <2>2
<1>9. CurInv'
  <2>1. Needs(cur)' = Needs(s) /\ Protected(cur)' = Protected(s)
    BY <1>7 DEF Needs, Protected, PagesOf, Deps, Vouched
  <2> QED BY <1>4, <1>7, <1>8, <2>1 DEF CurInv, Sound, Below, Holds
<1>10. StabInv'
  <2>1. disk'[floorSlot'] = s /\ disk'[OtherSlot'] = t
    BY <1>3, <1>5, <1>7 DEF OtherSlot
  <2>2. t \in Stamps => Vouched(t)' = Vouched(t)
    BY <1>7, SameGen
  <2>3. t \in Stamps /\ ~Holds(Vouched(t)) => ~Holds(Vouched(t))'
    BY <1>7, <2>2 DEF Holds
  <2> QED BY <1>5, <1>7, <2>1, <2>3 DEF StabInv, Idle
<1>11. BatchInv'
  BY <1>5, <1>7, <1>8 DEF BatchInv, Idle
<1> QED BY <1>7, <1>8, <1>9, <1>10, <1>11 DEF SafetyInv, JobInv, RecoveryNeverFails, Idle

-----------------------------------------------------------------------------
(* The theorems.                                                           *)

\* The state create leaves.
LEMMA SafetyInit == Init => SafetyInv
<1> SUFFICES ASSUME Init PROVE SafetyInv
  OBVIOUS
<1> USE SizeAssumption
<1>1. TypeOK
  BY TypeInit
<1>2. /\ floor = 1 /\ cur = 1 /\ stamp = 1 /\ tail = {} /\ len = 3 /\ lens = {3}
      /\ floorSlot = 1 /\ free = {} /\ pending = {} /\ stab = FALSE /\ mode = "up"
      /\ lost = "close" /\ shrinkPending = FALSE /\ job = Idle
  BY DEF Init
<1>3. 1 \in Stamps /\ 2 \in Body
  BY DEF Stamps, Body
<1>4. gen[1] = Created /\ \A s \in Stamps : s # 1 => gen[s] = NoGen
  BY <1>3 DEF Init
<1>5. /\ Deps(1) = {<<2, 1>>} /\ Vouched(1) = {} /\ Needs(1) = {<<2, 1>>}
      /\ Protected(1) = {2} /\ gen[1].pc = 3 /\ gen[1].txid = 1
      /\ gen[1].list = {} /\ gen[1].manifest = {}
  <2>1. /\ gen[1].pc = 3 /\ gen[1].txid = 1 /\ gen[1].tree = {<<2, 1>>}
        /\ gen[1].list = {} /\ gen[1].manifest = {} /\ gen[1].chain = {}
        /\ gen[1].over = {}
    BY <1>4 DEF Created
  <2>2. Deps(1) = {<<2, 1>>} /\ Vouched(1) = {}
    BY <2>1 DEF Deps, Vouched
  <2>3. Needs(1) = {<<2, 1>>}
    BY <2>2 DEF Needs
  <2>4. Protected(1) = PagesOf({<<2, 1>>})
    BY <2>3 DEF Protected, Needs
  <2>5. PagesOf({<<2, 1>>}) = {2}
    BY DEF PagesOf
  <2> QED BY <2>1, <2>2, <2>3, <2>4, <2>5
<1>6. \A s \in Stamps : Vouched(s) = {}
  BY <1>4, <1>5 DEF Vouched, NoGen
<1>7. /\ \A b \in Blocks : poss[b] = {disk[b]}
      /\ disk[0] = 1 /\ disk[1] = 1 /\ disk[2] = 1
  BY <1>3, BlockFacts DEF Init
<1>8. DeviceInv
  BY <1>2, <1>7 DEF DeviceInv
<1>9. Sound(1)
  BY <1>2, <1>5 DEF Sound, Below
<1>10. TailInv
  BY <1>2, <1>6, <1>9 DEF TailInv
<1>11. poss[0] = {1} /\ poss[1] = {1} /\ poss[2] = {1}
  BY <1>3, <1>7, BlockFacts
<1>12. FloorInv
  BY <1>2, <1>5, <1>11 DEF FloorInv, FloorIntact, Slots
<1>13. SlotInv
  BY <1>2, <1>3, <1>11 DEF SlotInv, SlotContent, Slots
<1>14. CurInv
  BY <1>2, <1>5, <1>7 DEF CurInv, Holds, Below
<1>15. BatchInv
  BY <1>2, <1>11 DEF BatchInv, Idle
<1> QED BY <1>2, <1>8, <1>10, <1>12, <1>13, <1>14, <1>15
        DEF SafetyInv, StabInv, JobInv, Idle, RecoveryNeverFails

\* Every step of the engine, its failures and its recovery preserves the
\* invariant.
LEMMA SafetyStep ==
    ASSUME TypeOK, TypeOK', SafetyInv, [Next]_vars
    PROVE  SafetyInv'
<1>1. CASE UNCHANGED vars
  BY <1>1 DEF vars, storage, handle, pagerVars, domain, history, SafetyInv, DeviceInv,
              TailInv, FloorInv, FloorIntact, SlotInv, SlotContent, Gone, CurInv,
              StabInv, BatchInv, JobInv, BodyInv, SealedInv, RecoveryNeverFails, Sound,
              Completes, Needs, Deps, Vouched, Protected, PagesOf, Holds, OtherSlot,
              Durable, Below
<1>2. CASE Next
  BY <1>2, BeginSafe, WritePageSafe, PlanFreeListSafe, WriteMetaSafe, FinishCommitSafe,
     FlushSafe, CloseSafe, WriteFailsSafe, BarrierFailsSafe, ProcessCrashSafe,
     PowerLossSafe, ReopenSafe DEF Next
<1> QED BY <1>1, <1>2

\* The engine's inductive invariant: no page the floor or the published
\* generation needs is ever written, and every meta a slot can hold is
\* complete, older than the floor, or void for good.
THEOREM Safe == Spec => []SafetyInv
<1>1. TypeOK /\ TypeOK' /\ SafetyInv /\ [Next]_vars => SafetyInv'
  BY SafetyStep
<1> QED BY <1>1, SafetyInit, TypeCorrect, PTL DEF Spec

\* Open (open_validated) never ends in XX001: whatever a crash, a loss of
\* power or a failed write left, some candidate is complete.
THEOREM RecoverySafe == Spec => []RecoveryNeverFails
<1>1. SafetyInv => RecoveryNeverFails
  BY DEF SafetyInv
<1> QED BY <1>1, Safe, PTL

\* Whatever a loss of power now would leave, the floor's meta and every page
\* it is validated against or read from are intact.
THEOREM FloorSafe == Spec => []FloorIntact
<1>1. SafetyInv => FloorIntact
  BY DEF SafetyInv, FloorInv
<1> QED BY <1>1, Safe, PTL

\* The published snapshot stays readable at every step of every later commit
\* (write_block, truncation) and after every recovery.
THEOREM PublishedSafe == Spec => []PublishedReadable
<1>1. SafetyInv => PublishedReadable
  BY DEF SafetyInv, CurInv, TailInv, Sound, PublishedReadable, Holds, Needs
<1> QED BY <1>1, Safe, PTL

\* No page on the free list is one the published generation is read from or
\* validated against (plan_free_list, compact).
THEOREM FreeListSafe == Spec => []FreeListDisjoint
<1>1. SafetyInv => FreeListDisjoint
  BY DEF SafetyInv, CurInv, FreeListDisjoint
<1> QED BY <1>1, Safe, PTL

\* The cumulative manifest of a batch vouches for content that is really
\* there: no page a pending commit wrote is written again.
THEOREM PendingSafe == Spec => []PendingExact
<1>1. SafetyInv => PendingExact
  BY DEF SafetyInv, CurInv, PendingExact, Holds, Needs, Vouched
<1> QED BY <1>1, Safe, PTL

-----------------------------------------------------------------------------
(* The promise of CommitGuarantee. A process that dies or closes without a *)
(* failed write leaves the published generation, or the attempt it had not *)
(* acknowledged, for the next open: while it runs, nothing in the slot the *)
(* next commit overwrites is selected before the published generation.     *)

\* Open would select the published generation before the meta t: it is older, or
\* a page it vouches for is not there.
Beaten(t) ==
    \/ t = Torn
    \/ /\ t \in Stamps /\ t <= stamp
       /\ \/ t = cur
          \/ gen[t].txid < gen[cur].txid
          \/ gen[t].txid > gen[cur].txid /\ ~Holds(Vouched(t))

\* Where nothing is pending, the slot the next commit will overwrite.
OtherInv ==
    mode = "up" /\ ~poisoned /\ pending = {} /\ job.phase # "meta" => Beaten(disk[OtherSlot])

\* The attempt whose meta is written but not acknowledged.
Doing == IF job.phase = "meta" THEN {job.w} ELSE {}

\* What a process that did not fail left for the next open.
FoundInv ==
    mode = "down" /\ lost # "power" /\ ~poisoned =>
        \/ floor = cur /\ tail = {}
        \/ disk[Selected] \in {cur} \cup Doing

GuaranteeInv == OtherInv /\ FoundInv

\* What open selects when one slot's meta is complete and the other's is not newer.
LEMMA SelectedIs ==
    ASSUME TypeOK, NEW b \in Slots, Validates(b), NEW s, s = disk[b],
           Validates(1 - b) => disk[1 - b] = s \/ gen[disk[1 - b]].txid < gen[s].txid
    PROVE  disk[Selected] = s
<1>1. \A c \in Slots : Validates(c) => gen[disk[c]].txid \in Nat
  BY GenFacts DEF Validates, Parses
<1>2. b \in {0, 1} /\ Slots = {0, 1}
  BY DEF Slots
<1>3. CASE b = 0
  <2>1. Validates(1) => disk[1] = s \/ gen[disk[1]].txid < gen[s].txid
    BY <1>3
  <2> QED BY <1>1, <1>2, <1>3, <2>1 DEF Selected
<1>4. CASE b = 1
  <2>1. Validates(0) => disk[0] = s \/ gen[disk[0]].txid < gen[s].txid
    BY <1>4
  <2> QED BY <1>1, <1>2, <1>4, <2>1 DEF Selected
<1> QED BY <1>2, <1>3, <1>4

\* While a process runs whose storage did not fail, a reopen would find the
\* published generation or the attempt in progress.
LEMMA UpSelects ==
    ASSUME TypeOK, SafetyInv, OtherInv, mode = "up", ~poisoned
    PROVE  disk[Selected] \in {cur} \cup Doing
<1>1. /\ floorSlot \in Slots /\ OtherSlot \in Slots /\ OtherSlot = 1 - floorSlot
      /\ floorSlot = 1 - OtherSlot /\ Slots \subseteq Blocks
  BY SlotFacts DEF TypeOK, PagerOK, OtherSlot, Slots
<1>2. cur \in Stamps /\ Holds(Vouched(cur)) /\ gen[cur].pc <= len
  <2>1. cur \in Stamps /\ cur \in tail \cup {floor} /\ Holds(Needs(cur))
    BY DEF TypeOK, DomainOK, SafetyInv, CurInv
  <2> QED BY <2>1, GenFacts DEF SafetyInv, TailInv, Sound, Holds
<1>3. \A b \in Slots : disk[b] = cur => Validates(b)
  BY <1>2 DEF Validates, Parses
<1>4. CASE pending = {} /\ job.phase # "meta"
  <2>1. disk[floorSlot] = cur
    <3>1. CASE stab
      BY <3>1 DEF SafetyInv, StabInv
    <3>2. CASE ~stab
      <4>1. poss[floorSlot] = {floor} /\ floor = cur
        BY <1>4, <3>2 DEF SafetyInv, BatchInv
      <4> QED BY <1>1, <4>1 DEF SafetyInv, DeviceInv
    <3> QED BY <3>1, <3>2
  <2>2. Beaten(disk[OtherSlot])
    BY <1>4 DEF OtherInv
  <2>3. Validates(OtherSlot) => disk[OtherSlot] = cur \/ gen[disk[OtherSlot]].txid < gen[cur].txid
    <3>1. disk[OtherSlot] = Torn => ~Validates(OtherSlot)
      BY SlotFacts DEF TypeOK, Validates, Parses
    <3> QED BY <2>2, <3>1 DEF Beaten, Validates
  <2>4. disk[Selected] = cur
    BY <1>1, <1>3, <2>1, <2>3, SelectedIs
  <2> QED BY <2>4
<1>5. CASE pending # {} \/ job.phase = "meta"
  <2>1. ~stab
    BY <1>5 DEF SafetyInv, StabInv
  <2>2. poss[floorSlot] = {floor} /\ disk[floorSlot] = floor
    <3>1. poss[floorSlot] = {floor}
      BY <2>1 DEF SafetyInv, BatchInv
    <3> QED BY <1>1, <3>1 DEF SafetyInv, DeviceInv
  <2>3. ASSUME NEW s \in Stamps, disk[OtherSlot] = s, s \in tail, Holds(Vouched(s)), gen[s].pc <= len
        PROVE  disk[Selected] = s
    <3>1. Validates(OtherSlot)
      BY <2>3 DEF Validates, Parses
    <3>2. gen[s].txid > gen[floor].txid /\ gen[s].txid \in Nat /\ gen[floor].txid \in Nat
      BY <2>3, GenFacts DEF SafetyInv, TailInv, TypeOK, HistoryOK
    <3>3. gen[disk[1 - OtherSlot]].txid < gen[s].txid
      BY <1>1, <2>2, <3>2
    <3> QED BY <1>1, <2>3, <3>1, <3>3, SelectedIs
  <2>4. CASE job.phase = "meta"
    <3>1. job.w \in Stamps /\ disk[OtherSlot] = job.w /\ job.w \in tail /\ job.todo = {} /\ SealedInv
      BY <2>4 DEF TypeOK, AttemptsOK, SafetyInv, JobInv
    <3>2. Holds(Vouched(job.w)) /\ gen[job.w].pc <= len
      BY <3>1, GenFacts DEF SealedInv, Sound, Holds
    <3> QED BY <2>3, <2>4, <3>1, <3>2 DEF Doing
  <2>5. CASE job.phase # "meta"
    <3>1. disk[OtherSlot] = cur /\ cur \in tail
      BY <1>5, <2>1, <2>5 DEF SafetyInv, BatchInv
    <3> QED BY <1>2, <2>3, <3>1
  <2> QED BY <2>4, <2>5
<1> QED BY <1>4, <1>5

\* A meta the published generation beats stays beaten: the pages written since
\* carry later stamps than any it vouches for.
LEMMA BeatenKept ==
    ASSUME TypeOK, TypeOK', SafetyInv, NEW t, Beaten(t), cur' = cur,
           gen'[cur] = gen[cur], t \in Stamps => gen'[t] = gen[t], stamp <= stamp',
           \A b \in Body : disk'[b] = disk[b] \/ (t \in Stamps => disk'[b] > t)
    PROVE  Beaten(t)'
<1>1. stamp \in Nat /\ stamp' \in Nat /\ Stamps \subseteq Nat
  BY BlockFacts DEF TypeOK, AttemptsOK
<1>2. ASSUME t \in Stamps, ~Holds(Vouched(t)) PROVE ~Holds(Vouched(t))'
  <2>1. Vouched(t)' = Vouched(t)
    BY <1>2, SameGen
  <2>2. PICK e \in Vouched(t) : disk[e[1]] # e[2]
    BY <1>2 DEF Holds
  <2>3. e[1] \in Body /\ e[2] \in Stamps /\ e[2] <= t
    BY <1>2, GenFacts DEF SafetyInv, TailInv
  <2>4. disk'[e[1]] = disk[e[1]] \/ disk'[e[1]] > t
    BY <1>2, <2>3
  <2>5. t \in Nat /\ e[2] \in Nat
    BY <1>1, <1>2, <2>3
  <2>6. disk'[e[1]] # e[2]
    BY <2>2, <2>3, <2>4, <2>5
  <2> QED BY <2>1, <2>6 DEF Holds
<1>3. ASSUME t \in Stamps, t <= stamp PROVE t <= stamp'
  <2>1. t \in Nat
    BY <1>1, <1>3
  <2> QED BY <1>1, <1>3, <2>1
<1> QED BY <1>2, <1>3 DEF Beaten

\* A flush writes no slot.
LEMMA FlushKeepsSlots ==
    ASSUME TypeOK, TypeOK', SafetyInv, mode = "up", job.phase \in {"idle", "failed"},
           pending # {}, ~poisoned, FlushBarrier
    PROVE  \A b \in Slots : disk'[b] = disk[b]
<1>1. BarrierAndShrink(shrinkPending, shrinkPages) /\ shrinkPending \in BOOLEAN
  BY DEF FlushBarrier, TypeOK, PagerOK
<1>2. CASE ~shrinkPending
  BY <1>1, <1>2 DEF BarrierAndShrink
<1>3. CASE shrinkPending
  <2>1. ~stab
    BY DEF SafetyInv, StabInv
  <2>2. shrinkPages = gen[cur].pc /\ cur \in tail /\ cur \in Stamps
    BY <1>3, <2>1 DEF SafetyInv, BatchInv, TypeOK, DomainOK
  <2>3. shrinkPages \in Nat /\ shrinkPages >= 2 /\ shrinkPages <= len
    BY <2>2, GenFacts DEF SafetyInv, TailInv, Sound
  <2>4. \A b \in Slots : b \in Blocks /\ b < shrinkPages
    BY <2>3 DEF Slots, Blocks
  <2> QED BY <1>1, <2>3, <2>4, BarrierEffect
<1> QED BY <1>2, <1>3

\* The body of a commit and its plan leave the other slot beaten.
LEMMA OtherKept ==
    ASSUME TypeOK, TypeOK', SafetyInv, OtherInv, Begin \/ WritePage \/ PlanFreeList
    PROVE  OtherInv'
<1>1. /\ mode = "up" /\ ~poisoned /\ job.phase \in {"idle", "body", "aux"}
      /\ UNCHANGED <<pending, cur, floorSlot>> /\ stamp <= stamp'
      /\ job.phase # "idle" =>
            /\ job.w = stamp /\ job.w \in Stamps /\ job.w # cur /\ job \in Jobs
            /\ \A b \in Slots : job.w \notin poss[b]
  <2>1. stamp \in Nat
    BY BlockFacts DEF TypeOK, AttemptsOK
  <2>2. CASE Begin
    BY <2>1, <2>2 DEF Begin, BeginCommit, Ready
  <2>3. CASE WritePage
    BY <2>1, <2>3 DEF WritePage, pagerVars, domain, SafetyInv, JobInv, TypeOK, AttemptsOK
  <2>4. CASE PlanFreeList
    <3>1. mode = "up" /\ job.phase = "body" /\ UNCHANGED <<pending, cur, floorSlot, stamp>>
      BY <2>4 DEF PlanFreeList, pagerVars, domain
    <3> QED BY <2>1, <3>1 DEF SafetyInv, JobInv, TypeOK, AttemptsOK
  <2> QED BY <2>2, <2>3, <2>4
<1>2. OtherSlot \in Slots /\ OtherSlot \in Blocks /\ OtherSlot' = OtherSlot /\ OtherSlot \notin Body
  BY <1>1, SlotFacts DEF TypeOK, OtherSlot
<1>3. PICK t : t = disk[OtherSlot]
  OBVIOUS
<1>4. pending = {} => Beaten(t)
  BY <1>1, <1>3 DEF OtherInv
<1>5. t \in poss[OtherSlot]
  BY <1>2, <1>3 DEF SafetyInv, DeviceInv
<1>6. job.phase # "idle" => t # job.w
  BY <1>1, <1>2, <1>5
<1>7. /\ gen'[cur] = gen[cur] /\ (t \in Stamps => gen'[t] = gen[t]) /\ disk'[OtherSlot] = t
      /\ \A b \in Body : disk'[b] = disk[b] \/ (t \in Stamps /\ t <= stamp => disk'[b] > t)
  <2>1. CASE Begin
    BY <1>3, <2>1 DEF Begin, BeginCommit, Reserve
  <2>2. CASE WritePage
    <3>1. PICK p \in job.todo : disk' = [disk EXCEPT ![p] = job.w]
      BY <2>2 DEF WritePage, Issue
    <3>2. gen' = gen /\ job.phase # "idle"
      BY <2>2 DEF WritePage
    <3>3. p \in Body /\ disk \in [Blocks -> Contents] /\ Body \subseteq Blocks
      BY <1>1, <3>2, BlockFacts DEF TypeOK, StorageOK, Jobs
    <3>4. disk'[OtherSlot] = t /\ \A b \in Body : disk'[b] = disk[b] \/ disk'[b] = stamp
      BY <1>1, <1>2, <1>3, <3>1, <3>2, <3>3
    <3>5. t \in Stamps /\ t <= stamp => stamp > t
      BY <1>1, <1>6, <3>2, BlockFacts DEF TypeOK, AttemptsOK
    <3> QED BY <3>2, <3>4, <3>5
  <2>3. CASE PlanFreeList
    <3>1. job.phase # "idle" /\ disk' = disk /\ (gen' = gen \/ \E g : gen' = [gen EXCEPT ![job.w] = g])
      BY <2>3 DEF PlanFreeList, Reserve, storage
    <3>2. gen \in [Stamps -> Generations] /\ cur \in Stamps
      BY DEF TypeOK, AttemptsOK, DomainOK
    <3>3. gen'[cur] = gen[cur] /\ (t \in Stamps => gen'[t] = gen[t])
      BY <1>1, <1>6, <3>1, <3>2
    <3> QED BY <1>3, <3>1, <3>3
  <2> QED BY <2>1, <2>2, <2>3
<1>8. pending = {} => Beaten(t)'
  <2>1. Beaten(t) => (t \in Stamps => t <= stamp)
    BY SlotFacts DEF Beaten, TypeOK
  <2> QED BY <1>1, <1>4, <1>7, <2>1, BeatenKept
<1> QED BY <1>1, <1>2, <1>7, <1>8 DEF OtherInv, Beaten

\* The slot of the old floor is beaten once a newer generation is the floor.
LEMMA OtherHardened ==
    ASSUME TypeOK, TypeOK', SafetyInv, OtherInv, FinishCommit \/ Flush
    PROVE  OtherInv'
<1>1. floorSlot \in Slots /\ OtherSlot \in Slots /\ 1 - OtherSlot = floorSlot /\ Slots \subseteq Blocks
  BY SlotFacts DEF TypeOK, PagerOK, OtherSlot, Slots
<1>2. mode = "up" /\ ~stab /\ (FinishCommit \/ ~poisoned) /\ gen' = gen /\ stamp' = stamp
      /\ poss[floorSlot] = {floor}
  <2>1. CASE FinishCommit
    <3>1. mode = "up" /\ ~stab /\ ~poisoned /\ gen' = gen /\ stamp' = stamp
      BY <2>1 DEF FinishCommit, SafetyInv, JobInv
    <3> QED BY <2>1, <3>1 DEF SafetyInv, BatchInv
  <2>2. CASE Flush
    <3>1. mode = "up" /\ ~stab /\ ~poisoned /\ gen' = gen /\ stamp' = stamp
      BY <2>2 DEF Flush, SafetyInv, StabInv
    <3> QED BY <3>1 DEF SafetyInv, BatchInv
  <2> QED BY <2>1, <2>2
<1>3. disk[floorSlot] = floor /\ floor \in Stamps /\ floor <= stamp
  BY <1>1, <1>2 DEF SafetyInv, DeviceInv, TailInv, Sound, TypeOK, HistoryOK
<1>4. ASSUME NEW w \in tail, cur' = w, OtherSlot' = floorSlot, disk'[floorSlot] = disk[floorSlot]
      PROVE  OtherInv'
  <2>1. gen[floor].txid < gen[w].txid
    <3>1. gen[w].txid > gen[floor].txid /\ w \in Stamps
      BY DEF SafetyInv, TailInv, TypeOK, HistoryOK
    <3> QED BY <1>3, <3>1, GenFacts
  <2> QED BY <1>2, <1>3, <1>4, <2>1 DEF OtherInv, Beaten
<1>5. CASE FinishCommit
  <2>1. PICK w \in Stamps : w = job.w
    BY <1>5 DEF TypeOK, AttemptsOK, FinishCommit
  <2>2. w \in tail /\ SealedInv /\ cur' = w
    BY <1>5, <2>1 DEF FinishCommit, SafetyInv, JobInv
  <2>3. Sound(w) /\ gen[w].manifest = pending \cup {<<p, w>> : p \in job.written \cup gen[w].chain}
        /\ gen[w].manifest # {}
    BY <2>1, <2>2 DEF SealedInv, Completes
  <2>4. CASE relaxed
    <3>1. pending' = gen[w].manifest
      BY <1>5, <2>1, <2>3, <2>4 DEF FinishCommit
    <3> QED BY <2>3, <3>1 DEF OtherInv
  <2>5. CASE ~relaxed
    <3>1. floorSlot' = OtherSlot /\ BarrierAndShrink(shrinkPending \/ gen[w].pc < gen[cur].pc, gen[w].pc)
      BY <1>5, <2>1, <2>5 DEF FinishCommit
    <3>2. PICK due \in BOOLEAN : due = (shrinkPending \/ gen[w].pc < gen[cur].pc)
      BY DEF TypeOK, PagerOK
    <3>3. BarrierAndShrink(due, gen[w].pc)
      BY <3>1, <3>2
    <3>4. gen[w].pc \in Nat /\ gen[w].pc >= 2 /\ gen[w].pc <= len
      BY <2>3, GenFacts DEF Sound
    <3>5. floorSlot \in Blocks /\ floorSlot < gen[w].pc
      BY <1>1, <3>4 DEF Slots
    <3>6. disk'[floorSlot] = disk[floorSlot]
      BY <3>3, <3>4, <3>5, BarrierEffect
    <3>7. OtherSlot' = floorSlot
      BY <1>1, <3>1 DEF OtherSlot
    <3> QED BY <1>4, <2>2, <3>6, <3>7
  <2> QED BY <2>4, <2>5
<1>6. CASE Flush
  <2>1. /\ job.phase \in {"idle", "failed"} /\ pending # {} /\ ~poisoned /\ FlushBarrier
        /\ floorSlot' = OtherSlot /\ cur' = cur
    BY <1>6 DEF Flush
  <2>2. cur \in tail
    BY <1>2, <2>1 DEF SafetyInv, BatchInv
  <2>3. disk'[floorSlot] = disk[floorSlot]
    BY <1>1, <1>2, <2>1, FlushKeepsSlots
  <2>4. OtherSlot' = floorSlot
    BY <1>1, <2>1 DEF OtherSlot
  <2> QED BY <1>4, <2>1, <2>2, <2>3, <2>4
<1> QED BY <1>5, <1>6

\* Open leaves nothing in the other slot that it would select before what it did.
LEMMA OtherReopened ==
    ASSUME TypeOK, TypeOK', SafetyInv, Reopen
    PROVE  OtherInv'
<1>1. PICK s : s = disk[Selected]
  OBVIOUS
<1>2. PICK x : x = IF SameTxid THEN gen[s].txid % 2 ELSE Selected
  OBVIOUS
<1>3. PICK t : t = disk[1 - x]
  OBVIOUS
<1>4. \/ t = Torn
      \/ /\ t \in Stamps /\ t <= stamp
         /\ \/ t = s
            \/ gen[t].txid < gen[s].txid
            \/ gen[t].txid > gen[s].txid /\ ~Holds(Vouched(t))
  BY <1>1, <1>2, <1>3, OpenSlot
<1>5. Selected \in Slots /\ Validates(Selected)
  BY <1>1, OpenSelects
<1>6. Validates(0) \/ Validates(1)
  BY <1>5 DEF Slots
<1>7. cur' = s /\ floorSlot' = x /\ UNCHANGED <<disk, gen, stamp>>
  BY <1>1, <1>2, <1>6 DEF Reopen, storage
<1>8. disk'[OtherSlot'] = t
  BY <1>3, <1>7 DEF OtherSlot
<1>9. Beaten(t)'
  <2>1. ~Holds(Vouched(t)) => ~Holds(Vouched(t))'
    BY <1>7, SameGen DEF Holds
  <2> QED BY <1>4, <1>7, <2>1 DEF Beaten
<1> QED BY <1>8, <1>9 DEF OtherInv, Beaten

\* Every step keeps it.
LEMMA GuaranteeStep ==
    ASSUME TypeOK, TypeOK', SafetyInv, GuaranteeInv, [Next]_vars
    PROVE  GuaranteeInv'
<1>1. OtherInv /\ FoundInv
  BY DEF GuaranteeInv
<1>2. CASE UNCHANGED vars
  BY <1>1, <1>2 DEF vars, storage, handle, pagerVars, domain, history, GuaranteeInv, OtherInv, FoundInv,
        Beaten, Doing, Selected, Validates, Parses, Holds, Vouched, OtherSlot
<1>3. CASE Begin \/ WritePage \/ PlanFreeList
  <2>1. Begin => mode' = "up"
    BY DEF Begin, BeginCommit, Ready, handle
  <2>2. WritePage => mode' = "up"
    BY DEF WritePage, handle
  <2>3. PlanFreeList => mode' = "up"
    BY DEF PlanFreeList, handle
  <2> QED BY <1>1, <1>3, <2>1, <2>2, <2>3, OtherKept DEF GuaranteeInv, FoundInv
<1>4. CASE WriteMeta
  <2>1. mode' = "up" /\ job' = [job EXCEPT !.phase = "meta"] /\ job \in Jobs
    BY <1>4 DEF WriteMeta, handle, TypeOK, AttemptsOK
  <2>2. job'.phase = "meta"
    BY <2>1 DEF Jobs
  <2> QED BY <2>1, <2>2 DEF GuaranteeInv, OtherInv, FoundInv
<1>5. CASE FinishCommit \/ Flush
  <2>1. mode' = "up"
    BY <1>5 DEF FinishCommit, Flush, handle
  <2> QED BY <1>1, <1>5, <2>1, OtherHardened DEF GuaranteeInv, FoundInv
<1>6. CASE WriteFails \/ BarrierFails
  <2>1. mode' = "up" /\ poisoned'
    BY <1>6 DEF WriteFails, BarrierFails, handle
  <2> QED BY <2>1 DEF GuaranteeInv, OtherInv, FoundInv
<1>7. CASE Close \/ ProcessCrash
  <2>1. /\ mode = "up" /\ mode' = "down" /\ UNCHANGED <<gen, cur, poisoned>>
        /\ job' = [Idle EXCEPT !.phase = job.phase, !.w = job.w]
    BY <1>7 DEF Close, ProcessCrash, Forget
  <2>2. Doing' = Doing
    <3>1. job'.phase = job.phase /\ job'.w = job.w
      BY <2>1 DEF Idle
    <3> QED BY <3>1 DEF Doing
  <2>3. ASSUME ~poisoned
        PROVE  (floor' = cur /\ tail' = {}) \/ UNCHANGED <<disk, len>>
    BY <1>7, <2>3 DEF Close, ProcessCrash, FlushBarrier, storage
  <2>4. ASSUME UNCHANGED <<disk, len>> PROVE (disk[Selected])' = disk[Selected]
    BY <2>1, <2>4 DEF Selected, Validates, Parses, Holds, Vouched
  <2>5. ~poisoned => disk[Selected] \in {cur} \cup Doing
    BY <1>1, <2>1, UpSelects
  <2>6. FoundInv'
    BY <2>1, <2>2, <2>3, <2>4, <2>5 DEF FoundInv
  <2> QED BY <2>1, <2>6 DEF GuaranteeInv, OtherInv
<1>8. CASE PowerLoss
  <2>1. mode' = "down" /\ lost' = "power"
    BY <1>8 DEF PowerLoss, Forget
  <2> QED BY <2>1 DEF GuaranteeInv, OtherInv, FoundInv
<1>9. CASE Reopen
  <2>1. mode' # "down"
    BY <1>9 DEF Reopen
  <2> QED BY <1>9, <2>1, OtherReopened DEF GuaranteeInv, FoundInv
<1> QED BY <1>2, <1>3, <1>4, <1>5, <1>6, <1>7, <1>8, <1>9 DEF Next

\* Each step of the engine is a step of CommitGuarantee, or changes nothing it sees:
\* WriteMeta attempts, the end of commit_file acknowledges, a barrier hardens, and
\* what open selects was recoverable.
LEMMA GuaranteeRefined ==
    ASSUME TypeOK, TypeOK', SafetyInv, SafetyInv', GuaranteeInv, Next
    PROVE  Guarantee!Next \/ UNCHANGED Guarantee!vars
<1> DEFINE doing == IF job.phase = "meta" THEN job.w ELSE 0
<1>1. /\ job \in Jobs /\ job' \in Jobs /\ floor \in Stamps /\ tail \subseteq Stamps /\ cur \in Stamps
      /\ 0 \notin Stamps
  BY DEF TypeOK, AttemptsOK, HistoryOK, DomainOK, Stamps
<1>2. CASE Begin
  <2>1. /\ mode = "up" /\ job.phase = "idle" /\ UNCHANGED <<mode, lost, poisoned, cur>>
        /\ job'.phase = "body"
        /\ floor' = (IF stab THEN cur ELSE floor) /\ tail' = (IF stab THEN {} ELSE tail)
    BY <1>2 DEF Begin, BeginCommit, Ready, handle
  <2>2. doing = 0 /\ doing' = 0
    BY <2>1
  <2>3. CASE stab
    <3>1. Guarantee!Harden
      BY <2>1, <2>2, <2>3 DEF Guarantee!Harden, Guarantee!None
    <3> QED BY <3>1 DEF Guarantee!Next
  <2>4. CASE ~stab
    BY <2>1, <2>2, <2>4 DEF Guarantee!vars
  <2> QED BY <2>3, <2>4
<1>3. CASE WritePage
  <2>1. UNCHANGED <<mode, lost, poisoned, cur, floor, tail>> /\ job.phase # "meta" /\ job'.phase = job.phase
    BY <1>1, <1>3 DEF WritePage, handle, pagerVars, domain, history, Jobs
  <2> QED BY <2>1 DEF Guarantee!vars
<1>4. CASE PlanFreeList
  <2>1. UNCHANGED <<mode, lost, poisoned, cur, floor, tail>> /\ job.phase = "body"
    BY <1>4 DEF PlanFreeList, handle, pagerVars, domain, history
  <2>2. job'.phase \in {"failed", "aux"}
    BY <1>1, <1>4 DEF PlanFreeList, Jobs
  <2> QED BY <2>1, <2>2 DEF Guarantee!vars
<1>5. CASE WriteMeta
  <2>1. /\ mode = "up" /\ job.phase = "aux" /\ job' = [job EXCEPT !.phase = "meta"]
        /\ tail' = tail \cup {job.w} /\ UNCHANGED <<mode, lost, poisoned, cur, floor>>
    BY <1>5 DEF WriteMeta, handle, pagerVars, domain
  <2>2. ~poisoned /\ job.w \notin tail \cup {floor, cur} /\ job.w \in Stamps
    BY <2>1 DEF SafetyInv, JobInv, TypeOK, AttemptsOK
  <2>3. job'.phase = "meta" /\ job'.w = job.w
    BY <1>1, <2>1 DEF Jobs
  <2>4. Guarantee!Attempt(job.w)
    BY <2>1, <2>2, <2>3 DEF Guarantee!Attempt, Guarantee!None
  <2> QED BY <2>2, <2>4 DEF Guarantee!Next
<1>6. CASE FinishCommit
  <2>1. /\ mode = "up" /\ job.phase = "meta" /\ cur' = job.w /\ job' = Idle
        /\ UNCHANGED <<mode, lost, poisoned>>
        /\ IF relaxed THEN UNCHANGED <<floor, tail>> ELSE floor' = job.w /\ tail' = {}
    BY <1>6 DEF FinishCommit, handle
  <2>2. job.w \in Stamps /\ job'.phase = "idle" /\ relaxed \in BOOLEAN
    BY <2>1 DEF TypeOK, AttemptsOK, HandleOK, Idle
  <2>3. Guarantee!Acknowledge(~relaxed)
    BY <1>1, <2>1, <2>2 DEF Guarantee!Acknowledge, Guarantee!None
  <2>4. (~relaxed) \in BOOLEAN
    OBVIOUS
  <2> QED BY <2>3, <2>4 DEF Guarantee!Next
<1>7. CASE Flush
  <2>1. /\ mode = "up" /\ job.phase \in {"idle", "failed"} /\ floor' = cur /\ tail' = {}
        /\ UNCHANGED <<mode, lost, poisoned, cur, job>>
    BY <1>7 DEF Flush, FlushBarrier, handle
  <2>2. Guarantee!Harden
    BY <2>1 DEF Guarantee!Harden, Guarantee!None
  <2> QED BY <2>2 DEF Guarantee!Next
<1>8. ASSUME Forget PROVE doing' = doing /\ mode' = "down" /\ UNCHANGED <<poisoned, cur>>
  <2>1. job'.phase = job.phase /\ job'.w = job.w
    BY <1>8 DEF Forget, Idle
  <2> QED BY <1>8, <2>1 DEF Forget
<1>9. CASE Close
  <2>1. mode = "up" /\ job.phase \in {"idle", "failed"} /\ Forget /\ lost' = "close"
    BY <1>9 DEF Close
  <2>2. UNCHANGED <<floor, tail>> \/ (~poisoned /\ floor' = cur /\ tail' = {})
    BY <1>9 DEF Close, FlushBarrier, history
  <2>3. doing = 0
    BY <2>1
  <2>4. Guarantee!Close
    BY <1>8, <2>1, <2>2, <2>3 DEF Guarantee!Close, Guarantee!None
  <2> QED BY <2>4 DEF Guarantee!Next
<1>10. CASE WriteFails
  <2>1. /\ mode = "up" /\ poisoned' = TRUE /\ job' = [job EXCEPT !.phase = "failed"]
        /\ UNCHANGED <<mode, lost, cur, floor>>
        /\ tail' = tail \/ (job.phase = "aux" /\ tail' = tail \cup {job.w})
    BY <1>10 DEF WriteFails, handle, domain
  <2>2. job'.phase = "failed" /\ (job.phase = "aux" => job.w \in Stamps)
    BY <1>1, <2>1 DEF Jobs, TypeOK, AttemptsOK
  <2>3. tail' = tail \/ \E s \in Stamps : tail' = tail \cup {s}
    BY <2>1, <2>2
  <2>4. Guarantee!Fail
    BY <2>1, <2>2, <2>3 DEF Guarantee!Fail, Guarantee!None
  <2> QED BY <2>4 DEF Guarantee!Next
<1>11. CASE BarrierFails
  <2>1. /\ mode = "up" /\ poisoned' = TRUE /\ UNCHANGED <<mode, lost, cur, floor, tail>>
        /\ \/ job' = [job EXCEPT !.phase = "failed"]
           \/ job.phase \in {"idle", "failed"} /\ job' = job
           \/ job' = [Idle EXCEPT !.phase = "failed"]
    BY <1>11 DEF BarrierFails, handle, history
  <2>2. job'.phase # "meta"
    BY <1>1, <2>1 DEF Jobs, Idle
  <2>3. Guarantee!Fail
    BY <2>1, <2>2 DEF Guarantee!Fail, Guarantee!None
  <2> QED BY <2>3 DEF Guarantee!Next
<1>12. CASE ProcessCrash \/ PowerLoss
  <2>1. /\ Forget /\ UNCHANGED <<floor, tail>>
        /\ \/ mode = "up" /\ lost' \in {"process", "power"}
           \/ mode = "down" /\ lost' = "power"
    BY <1>12 DEF ProcessCrash, PowerLoss, history
  <2>2. Guarantee!Die
    BY <1>8, <2>1 DEF Guarantee!Die
  <2> QED BY <2>2 DEF Guarantee!Next
<1>13. CASE Reopen
  <2>1. PICK s : s = disk[Selected]
    OBVIOUS
  <2>2. s \in tail \cup {floor}
    BY <2>1, OpenSelects
  <2>3. /\ mode = "down" /\ mode' = "up" /\ cur' = s /\ poisoned' = FALSE /\ job' = Idle
        /\ IF lost = "power" THEN floor' = s /\ tail' = {} ELSE UNCHANGED <<floor, tail>>
        /\ lost' = lost
    <3>1. mode' # "corrupt"
      BY DEF SafetyInv, RecoveryNeverFails
    <3> QED BY <1>13, <2>1, <3>1 DEF Reopen, history
  <2>4. job'.phase = "idle"
    BY <2>3 DEF Idle
  <2>5. s \in Guarantee!Recoverable
    <3>1. CASE lost = "power" \/ poisoned
      BY <2>2, <3>1 DEF Guarantee!Recoverable
    <3>2. CASE ~(lost = "power" \/ poisoned)
      <4>1. s \in {cur} \cup Doing
        BY <2>1, <2>2, <2>3, <3>2 DEF GuaranteeInv, FoundInv
      <4>2. s \in Stamps
        BY <1>1, <2>2
      <4>3. s = cur \/ (s = doing /\ s # 0)
        BY <1>1, <4>1, <4>2 DEF Doing
      <4> HIDE DEF doing
      <4>4. CASE s = cur
        BY <3>2, <4>4 DEF Guarantee!Recoverable
      <4>5. CASE s = doing /\ s # 0
        BY <3>2, <4>5 DEF Guarantee!Recoverable, Guarantee!None, doing
      <4> QED BY <4>3, <4>4, <4>5
    <3> QED BY <3>1, <3>2
  <2>6. Guarantee!Recover
    BY <2>3, <2>4, <2>5 DEF Guarantee!Recover, Guarantee!None
  <2> QED BY <2>6 DEF Guarantee!Next
<1> QED BY <1>2, <1>3, <1>4, <1>5, <1>6, <1>7, <1>9, <1>10, <1>11, <1>12, <1>13 DEF Next

\* The engine implements CommitGuarantee: every commit is atomic, a durable one
\* survives everything, a relaxed one every death of the process, and what a loss
\* of power or a failed write leaves is the floor or an attempt made since.
THEOREM GuaranteeKept == Spec => KeepsGuarantee
<1>1. Init => Guarantee!Init /\ GuaranteeInv
  <2> SUFFICES ASSUME Init PROVE Guarantee!Init /\ GuaranteeInv
    OBVIOUS
  <2>1. /\ mode = "up" /\ lost = "close" /\ poisoned = FALSE /\ cur = 1 /\ floor = 1 /\ tail = {}
        /\ floorSlot = 1 /\ job.phase = "idle" /\ stamp = 1 /\ 1 \in Stamps
        /\ disk = [b \in Blocks |-> IF b <= 2 THEN 1 ELSE Zero]
    BY SizeAssumption DEF Init, Idle, Stamps
  <2>2. Guarantee!Init
    BY <2>1 DEF Guarantee!Init, Guarantee!None
  <2>3. disk[OtherSlot] = cur
    BY <2>1, BlockFacts DEF OtherSlot
  <2> QED BY <2>1, <2>2, <2>3 DEF GuaranteeInv, OtherInv, FoundInv, Beaten
<1>2. TypeOK /\ TypeOK' /\ SafetyInv /\ GuaranteeInv /\ [Next]_vars => GuaranteeInv'
  BY GuaranteeStep
<1>3. TypeOK /\ TypeOK' /\ SafetyInv /\ SafetyInv' /\ GuaranteeInv /\ [Next]_vars
        => [Guarantee!Next]_Guarantee!vars
  <2>1. UNCHANGED vars => UNCHANGED Guarantee!vars
    BY DEF vars, handle, pagerVars, domain, history, Guarantee!vars
  <2> QED BY <2>1, GuaranteeRefined
<1> QED BY <1>1, <1>2, <1>3, TypeCorrect, Safe, PTL DEF Spec, KeepsGuarantee, Guarantee!Spec

=============================================================================
