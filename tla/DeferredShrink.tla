--------------------------- MODULE DeferredShrink ---------------------------
(***************************************************************************)
(* The file's length at the owner of a shared file: commits of the owner   *)
(* may lower the high-water, the file is cut only after a barrier that     *)
(* covers the newest generation, and commits of page clients go through    *)
(* the same pager in between. Everything but the lengths, the batch and    *)
(* the deferred cut is left out; ValidatedCow models a single process's    *)
(* commits in full.                                                        *)
(***************************************************************************)
EXTENDS FileGrowth

CONSTANTS
    MaxPages,      \* bound: high-waters
    RelaxedBoth    \* relaxed clients also run under a relaxed owner

ASSUME ShrinkAssumption ==
    /\ MaxPages \in Nat /\ MaxPages > 2
    /\ RelaxedBoth \in BOOLEAN

VARIABLES
    relaxed,        \* the owner's handle has synchronous = off
    len,            \* Pager::allocated_pages, the file's length
    pageCount,      \* the newest generation's high-water (Storage::page_count)
    floorCount,     \* the floor's high-water
    batch,          \* the pending set is not empty
    shrinkPending,  \* Pager::shrink_pending
    shrinkPages     \* Pager::shrink_pages

vars == <<relaxed, len, pageCount, floorCount, batch, shrinkPending, shrinkPages>>

HighWaters == 3 .. MaxPages
Lengths == 0 .. MaxPages + GrowCap

\* shrink_after_barrier on a file of n pages: trim_slack, which may fail.
ShrinkAfterBarrier(n, due, pc) ==
    IF due /\ n > TrimTarget(pc) THEN len' \in {TrimTarget(pc), n} ELSE len' = n

-----------------------------------------------------------------------------

\* Mutant: the file is cut at once, the barrier of a relaxed commit pending.
OwnerCommitCuts(pc) ==
    /\ batch => pc >= pageCount
    /\ pageCount' = pc /\ shrinkPages' = pc
    /\ \E n \in Lengths :
        /\ ReserveTo(len, pc, n)
        /\ ShrinkAfterBarrier(n, shrinkPending \/ pc < pageCount, pc)
    /\ batch' = relaxed /\ shrinkPending' = FALSE
    /\ floorCount' = IF relaxed THEN floorCount ELSE pc
    /\ UNCHANGED relaxed

\* Mutant: a commit that does not lower the high-water leaves the target.
SettledIfLowered(pc) == IF pc < pageCount THEN pc ELSE shrinkPages

\* settle_truncation: the target of the next cut.
SettledPages(pc) == pc

\* commit_file by the owner: reserve, the barrier unless relaxed, finish_commit,
\* settle_truncation. Only a commit outside a batch lowers the high-water.
OwnerCommit(pc) ==
    /\ batch => pc >= pageCount
    /\ pageCount' = pc
    /\ shrinkPages' = SettledPages(pc)
    /\ \E n \in Lengths :
        /\ ReserveTo(len, pc, n)
        /\ IF relaxed
           THEN /\ len' = n
                /\ batch' = TRUE
                /\ shrinkPending' = (shrinkPending \/ pc < pageCount)
                /\ UNCHANGED floorCount
           ELSE /\ ShrinkAfterBarrier(n, shrinkPending \/ pc < pageCount, pc)
                /\ batch' = FALSE /\ shrinkPending' = FALSE
                /\ floorCount' = pc
    /\ UNCHANGED relaxed

\* A synchronous client's delta: its begin_write has flushed the batch, without
\* the cut, and the delta is written and synced. It never lowers the
\* high-water, and does not settle the truncation.
SyncClientCommit(pc) ==
    /\ ~batch /\ pc >= pageCount
    /\ \E n \in Lengths : ReserveTo(len, pc, n) /\ len' = n
    /\ pageCount' = pc /\ floorCount' = pc
    /\ UNCHANGED <<relaxed, batch, shrinkPending, shrinkPages>>

\* A relaxed client's delta joins the owner's batch; at the cap the batch is
\* flushed at once, without the cut.
RelaxedClientCommit(pc, cap) ==
    /\ relaxed => RelaxedBoth
    /\ pc >= pageCount
    /\ \E n \in Lengths : ReserveTo(len, pc, n) /\ len' = n
    /\ pageCount' = pc
    /\ batch' = ~cap
    /\ floorCount' = IF cap THEN pc ELSE floorCount
    /\ UNCHANGED <<relaxed, shrinkPending, shrinkPages>>

\* flush_pending(shrink): the owner's own flushes (cap, deadline, idle, close)
\* cut the file; the flush at a client's begin_write does not.
Flush(shrink) ==
    /\ batch
    /\ batch' = FALSE
    /\ floorCount' = pageCount
    /\ IF shrink
       THEN /\ ShrinkAfterBarrier(len, shrinkPending, shrinkPages)
            /\ shrinkPending' = FALSE
       ELSE UNCHANGED <<len, shrinkPending>>
    /\ UNCHANGED <<relaxed, pageCount, shrinkPages>>

Init ==
    /\ relaxed \in BOOLEAN
    /\ len = 3 /\ pageCount = 3 /\ floorCount = 3
    /\ batch = FALSE /\ shrinkPending = FALSE /\ shrinkPages = 0

Next ==
    \/ \E pc \in HighWaters :
        \/ OwnerCommit(pc)
        \/ SyncClientCommit(pc)
        \/ \E cap \in BOOLEAN : RelaxedClientCommit(pc, cap)
    \/ \E shrink \in BOOLEAN : Flush(shrink)

Spec == Init /\ [][Next]_vars

-----------------------------------------------------------------------------

\* The types of the whole state.
TypeOK ==
    /\ relaxed \in BOOLEAN /\ len \in Lengths
    /\ pageCount \in HighWaters /\ floorCount \in HighWaters
    /\ batch \in BOOLEAN /\ shrinkPending \in BOOLEAN /\ shrinkPages \in Nat

\* The allocated pages run ahead of the newest generation's high-water: no
\* deferred cut, run by whichever barrier comes next, takes a page of it.
AllocatedCoversNewest == pageCount <= len

\* Nor a page of the floor, which recovery falls back to.
AllocatedCoversFloor == floorCount <= len

=============================================================================
