----------------------------- MODULE PageAlloc -----------------------------
(***************************************************************************)
(* The page allocator every commit draws from (format.rs PageAlloc, the    *)
(* trailing run of plan_free_list): pages are taken off a sorted free      *)
(* list lowest first, and from the high-water up once it is exhausted.     *)
(* Page ids 0 and 1 are the meta slots, so a page set is a set of          *)
(* naturals from 2 up.                                                     *)
(***************************************************************************)
EXTENDS Integers, FiniteSets

PagesOf(E) == {e[1] : e \in E}

\* The n lowest pages of S (all of S when it has fewer).
Lowest(S, n) == {p \in S : Cardinality({q \in S : q < p}) < n}

\* How many of n pages S cannot supply, and the n pages: the lowest of S,
\* then from the high-water `next` up.
FromHigh(S, n) == IF Cardinality(S) < n THEN n - Cardinality(S) ELSE 0
Draw(S, n, next) == Lowest(S, n) \cup (next .. next + FromHigh(S, n) - 1)

\* trailing_run: the run of safe pages that ends at `high` starts at `start`.
TrailingRun(safe, high, start) ==
    /\ start \in 2 .. high
    /\ \A p \in start .. high - 1 : p \in safe
    /\ start > 2 => start - 1 \notin safe

=============================================================================
