------------------------ MODULE DeferredShrinkProofs ------------------------
(***************************************************************************)
(* The deferred cut never takes a page of the newest generation or of the  *)
(* floor, for every growth policy and every high-water, as long as relaxed *)
(* page clients do not run under a relaxed owner (RelaxedBoth = FALSE).    *)
(* That hypothesis is needed: see the run shrink_relaxed_both.             *)
(***************************************************************************)
EXTENDS DeferredShrink, TLAPS

\* What a step must leave for the next cut: a deferred cut is always the
\* owner's own, and while the owner's batch is open its target is the newest
\* high-water.
ShrinkTargetCurrent ==
    /\ shrinkPending => relaxed
    /\ relaxed /\ batch => shrinkPages = pageCount

\* The inductive invariant: the two length properties hold because the
\* target of a deferred cut is current whenever the cut can run.
ShrinkInv ==
    /\ TypeOK
    /\ AllocatedCoversNewest
    /\ AllocatedCoversFloor
    /\ ShrinkTargetCurrent

\* growth_step is at least the floor, so trim_slack keeps slack past the
\* high-water, and at most the cap.
LEMMA GrowthStepBounds ==
    ASSUME NEW pc \in Nat
    PROVE  GrowthStep(pc) \in Nat /\ GrowthStep(pc) >= 1 /\ GrowthStep(pc) <= GrowCap
BY GrowthAssumption DEF GrowthStep

\* shrink_after_barrier leaves at least the high-water it is given.
LEMMA ShrinkKeepsHighWater ==
    ASSUME NEW n \in Lengths, NEW due \in BOOLEAN, NEW pc \in Nat, pc <= n,
           ShrinkAfterBarrier(n, due, pc), ShrinkAssumption
    PROVE  len' \in Lengths /\ pc <= len'
BY GrowthStepBounds, GrowthAssumption
   DEF ShrinkAfterBarrier, TrimTarget, Lengths, ShrinkAssumption

\* reserve never shortens the file and makes room for what is asked.
LEMMA ReserveCovers ==
    ASSUME NEW n \in Lengths, NEW need \in HighWaters, NEW t \in Lengths,
           ReserveTo(n, need, t), ShrinkAssumption
    PROVE  t >= n /\ t >= need
BY GrowthAssumption DEF ReserveTo, Lengths, HighWaters, ShrinkAssumption

\* A fresh file satisfies the invariant.
LEMMA ShrinkInit == Init => ShrinkInv
<1> SUFFICES ASSUME Init PROVE ShrinkInv
  OBVIOUS
<1>1. 3 \in Lengths /\ 3 \in HighWaters
  BY GrowthAssumption, ShrinkAssumption DEF Lengths, HighWaters
<1>2. TypeOK
  BY <1>1 DEF Init, TypeOK
<1>3. AllocatedCoversNewest /\ AllocatedCoversFloor
  BY DEF Init, AllocatedCoversNewest, AllocatedCoversFloor
<1>4. ShrinkTargetCurrent
  BY DEF Init, ShrinkTargetCurrent
<1> QED BY <1>2, <1>3, <1>4 DEF ShrinkInv

\* Every commit and every flush keeps it, unless relaxed clients run under a
\* relaxed owner.
LEMMA ShrinkStep ==
    ASSUME ~RelaxedBoth, ShrinkInv, [Next]_vars
    PROVE  ShrinkInv'
<1> USE ShrinkAssumption, GrowthAssumption
<1>1. CASE UNCHANGED vars
  BY <1>1 DEF vars, ShrinkInv, TypeOK, AllocatedCoversNewest,
              AllocatedCoversFloor, ShrinkTargetCurrent
<1>2. ASSUME NEW pc \in HighWaters, OwnerCommit(pc) PROVE ShrinkInv'
  <2>1. PICK n \in Lengths :
          /\ ReserveTo(len, pc, n)
          /\ IF relaxed
             THEN /\ len' = n
                  /\ batch' = TRUE
                  /\ shrinkPending' = (shrinkPending \/ pc < pageCount)
                  /\ UNCHANGED floorCount
             ELSE /\ ShrinkAfterBarrier(n, shrinkPending \/ pc < pageCount, pc)
                  /\ batch' = FALSE /\ shrinkPending' = FALSE
                  /\ floorCount' = pc
    BY <1>2 DEF OwnerCommit
  <2>2. pc \in Nat /\ n \in Int /\ len \in Int
    BY DEF HighWaters, Lengths, ShrinkInv, TypeOK, ShrinkAssumption, GrowthAssumption
  <2>3. n >= len /\ n >= pc
    BY <2>1, ReserveCovers DEF ShrinkInv, TypeOK
  <2>4. pageCount' = pc /\ shrinkPages' = pc /\ relaxed' = relaxed
    BY <1>2 DEF OwnerCommit, SettledPages
  <2>5. CASE relaxed
    BY <2>1, <2>2, <2>3, <2>4, <2>5
       DEF ShrinkInv, TypeOK, AllocatedCoversNewest, AllocatedCoversFloor,
           ShrinkTargetCurrent, HighWaters
  <2>6. CASE ~relaxed
    <3>1. ShrinkAfterBarrier(n, shrinkPending \/ pc < pageCount, pc)
      BY <2>1, <2>6
    <3>2. len' \in Lengths /\ pc <= len'
      BY <3>1, <2>2, <2>3, ShrinkKeepsHighWater
    <3> QED
      BY <2>1, <2>2, <2>4, <2>6, <3>2
         DEF ShrinkInv, TypeOK, AllocatedCoversNewest, AllocatedCoversFloor,
             ShrinkTargetCurrent
  <2> QED BY <2>5, <2>6
<1>3. ASSUME NEW pc \in HighWaters, SyncClientCommit(pc) PROVE ShrinkInv'
  <2>1. PICK n \in Lengths : ReserveTo(len, pc, n) /\ len' = n
    BY <1>3 DEF SyncClientCommit
  <2>2. n >= len /\ n >= pc
    BY <2>1, ReserveCovers DEF ShrinkInv, TypeOK
  <2> QED
    BY <1>3, <2>1, <2>2
       DEF SyncClientCommit, ShrinkInv, TypeOK, AllocatedCoversNewest,
           AllocatedCoversFloor, ShrinkTargetCurrent, HighWaters, Lengths
<1>4. ASSUME NEW pc \in HighWaters, NEW cap \in BOOLEAN,
             RelaxedClientCommit(pc, cap)
      PROVE  ShrinkInv'
  <2>1. PICK n \in Lengths : ReserveTo(len, pc, n) /\ len' = n
    BY <1>4 DEF RelaxedClientCommit
  <2>2. n >= len /\ n >= pc
    BY <2>1, ReserveCovers DEF ShrinkInv, TypeOK
  <2>3. ~relaxed /\ ~shrinkPending
    BY <1>4 DEF RelaxedClientCommit, ShrinkInv, ShrinkTargetCurrent
  <2> QED
    BY <1>4, <2>1, <2>2, <2>3
       DEF RelaxedClientCommit, ShrinkInv, TypeOK, AllocatedCoversNewest,
           AllocatedCoversFloor, ShrinkTargetCurrent, HighWaters, Lengths
<1>5. ASSUME NEW shrink \in BOOLEAN, Flush(shrink) PROVE ShrinkInv'
  <2>1. len' \in Lengths /\ pageCount <= len'
    <3>1. CASE shrink /\ shrinkPending
      <4>1. shrinkPages = pageCount /\ pageCount \in Nat
        BY <1>5, <3>1 DEF Flush, ShrinkInv, ShrinkTargetCurrent, TypeOK, HighWaters
      <4>2. ShrinkAfterBarrier(len, shrinkPending, pageCount)
        BY <1>5, <3>1, <4>1 DEF Flush
      <4> QED
        BY <4>1, <4>2, ShrinkKeepsHighWater
           DEF ShrinkInv, TypeOK, AllocatedCoversNewest
    <3>2. CASE ~(shrink /\ shrinkPending)
      BY <1>5, <3>2
         DEF Flush, ShrinkAfterBarrier, ShrinkInv, TypeOK, AllocatedCoversNewest
    <3> QED BY <3>1, <3>2
  <2> QED
    BY <1>5, <2>1
       DEF Flush, ShrinkInv, TypeOK, AllocatedCoversNewest, AllocatedCoversFloor,
           ShrinkTargetCurrent
<1> QED BY <1>1, <1>2, <1>3, <1>4, <1>5 DEF Next

\* The allocated pages run ahead of the newest generation's high-water at
\* every step (Pager::allocated_pages, trim_slack).
THEOREM NewestCovered ==
    ASSUME ~RelaxedBoth
    PROVE  Spec => []AllocatedCoversNewest
<1>1. ShrinkInv /\ [Next]_vars => ShrinkInv'
  BY ShrinkStep
<1>2. ShrinkInv => AllocatedCoversNewest
  BY DEF ShrinkInv
<1> QED BY ShrinkInit, <1>1, <1>2, PTL DEF Spec

\* And of the floor's, which recovery falls back to.
THEOREM FloorCovered ==
    ASSUME ~RelaxedBoth
    PROVE  Spec => []AllocatedCoversFloor
<1>1. ShrinkInv /\ [Next]_vars => ShrinkInv'
  BY ShrinkStep
<1>2. ShrinkInv => AllocatedCoversFloor
  BY DEF ShrinkInv
<1> QED BY ShrinkInit, <1>1, <1>2, PTL DEF Spec

=============================================================================
