----------------------------- MODULE FileGrowth -----------------------------
(***************************************************************************)
(* The file's preallocation policy (pager.rs growth_step, reserve,         *)
(* trim_slack): the file grows geometrically in steps clamped to a floor   *)
(* and a cap, and is cut back to one step past the high-water.             *)
(***************************************************************************)
EXTENDS Integers

CONSTANTS
    GrowFloor,   \* prealloc_floor_pages: the smallest growth step
    GrowCap      \* prealloc_chunk_pages: the largest

ASSUME GrowthAssumption ==
    GrowFloor \in Nat \ {0} /\ GrowCap \in Nat /\ GrowFloor <= GrowCap

\* growth_step: the current size, clamped to the floor and the cap.
GrowthStep(pages) ==
    IF pages < GrowFloor THEN GrowFloor
    ELSE IF pages > GrowCap THEN GrowCap ELSE pages

\* reserve's loop: n grown step by step until `need` pages fit.
GrowTo(n, need) ==
    LET size[m \in Nat] == IF m >= need THEN m ELSE size[m + GrowthStep(m)]
    IN  size[n]

\* A file of n pages is t pages long after reserve(need): the loop ends only
\* where need fits.
ReserveTo(n, need, t) ==
    \/ need <= n /\ t = n
    \/ need > n /\ t >= need /\ t = GrowTo(n, need)

\* The length trim_slack cuts a file to.
TrimTarget(pc) == pc + GrowthStep(pc)

=============================================================================
