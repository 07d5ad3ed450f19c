------------------------------ MODULE IdleFlush ------------------------------
(***************************************************************************)
(* The time-based flush of a relaxed batch in a file a page-service owner  *)
(* serves: the owner's own commits, its relaxed and synchronous page       *)
(* clients, the cap-flush thread and the idle flusher's thread, which      *)
(* share the batch lock, the owner's writer gate and the pager.            *)
(*                                                                         *)
(* Left out: what the pages of a commit are (ValidatedCow), the clients'   *)
(* protocol (PageService), maintenance commits (an own commit under the    *)
(* gate the client commit still holds). Commits are numbered; the pending  *)
(* set is floor + 1 .. txid. A mutex is a variable only where it is held   *)
(* across steps.                                                           *)
(***************************************************************************)
EXTENDS Integers

CONSTANTS
    Interval,    \* flush_interval_ms, in ticks of the handle's clock
    Cap,         \* commits that fill a batch (the pager counts pages)
    MaxTime,     \* bound: the clock, when no deadline lies ahead
    MaxCommits   \* bound: commits

ASSUME IdleFlushAssumption ==
    /\ Interval \in Nat \ {0} /\ Cap \in Nat \ {0}
    /\ MaxTime \in Nat /\ MaxCommits \in Nat

VARIABLES
    now,       \* the handle's clock
    relaxed,   \* the owner's handle has synchronous = off
    txid,      \* the newest published commit
    floor,     \* the newest durable commit
    poisoned,  \* a failed barrier: every later commit and flush fails
    batch,     \* idle_flush::Batch
    lock,      \* who holds the batch lock across a step
    gate,      \* who holds the owner's writer gate
    capFlush,  \* Storage::flushing, the cap-flush thread and its result
    own,       \* the owner's own write transaction
    client,    \* the page client's write transaction
    flusher,   \* the idle flusher's thread
    shadow     \* history: the batch of an owner that runs no idle flusher

vars == <<now, relaxed, txid, floor, poisoned, batch, lock, gate, capFlush,
          own, client, flusher, shadow>>

NoDeadline == -1
Deadlines == Nat \cup {NoDeadline}
Txids == 0 .. MaxCommits

Pending == floor # txid

Init ==
    /\ now = 0 /\ txid = 0 /\ floor = 0 /\ poisoned = FALSE
    /\ relaxed \in BOOLEAN
    /\ batch = [deadline |-> NoDeadline, armed |-> FALSE, stopped |-> FALSE,
                started |-> FALSE, paging |-> FALSE]
    /\ lock = "free" /\ gate = "free" /\ capFlush = "none"
    /\ own = [pc |-> "idle", plan |-> 0, reading |-> 0]
    /\ client = [pc |-> "idle", plan |-> 0, relaxed |-> FALSE]
    /\ flusher = "off"
    /\ shadow = [floor |-> 0, deadline |-> NoDeadline]

-----------------------------------------------------------------------------
(* The batch and its flushes. *)

\* Batch::clear.
Clear(b) == [b EXCEPT !.deadline = NoDeadline, !.paging = FALSE]

\* Batch::passed.
Passed(b, t) == b.deadline # NoDeadline /\ t >= b.deadline

\* Mutant: the barrier is taken to cover the commit about to be planned.
FlushPendingAhead(ok) ==
    IF ~Pending THEN ok /\ UNCHANGED <<floor, poisoned>>
    ELSE /\ poisoned => ~ok
         /\ floor' = IF ok THEN txid + 1 ELSE floor
         /\ poisoned' = (poisoned \/ ~ok)

\* Pager::flush_pending: the barrier makes every pending commit durable, or
\* fails and poisons the pager. (A revoked storage is a poisoned one here.)
FlushPending(ok) ==
    IF ~Pending THEN ok /\ UNCHANGED <<floor, poisoned>>
    ELSE /\ poisoned => ~ok
         /\ floor' = IF ok THEN txid ELSE floor
         /\ poisoned' = (poisoned \/ ~ok)

\* Mutant: a batch is started and the flusher is not told.
NotifySilent == UNCHANGED flusher

\* Condvar::notify_all on the batch's condition: a waiting flusher wakes.
Notify == flusher' = IF flusher \in {"parked", "timed"} THEN "loop" ELSE flusher

\* Mutant: the first commit of the next batch keeps the old deadline.
StartBatchStale(t) ==
    /\ \E spawned \in BOOLEAN :
        LET b == [batch EXCEPT !.deadline = IF batch.started THEN @ ELSE t + Interval,
                               !.armed = TRUE, !.paging = TRUE]
        IN  IF batch.started
            THEN batch' = b /\ Notify
            ELSE /\ batch' = [b EXCEPT !.started = spawned]
                 /\ flusher' = IF spawned THEN "loop" ELSE flusher
    /\ shadow' = [floor |-> shadow.floor, deadline |-> t + Interval]

\* DeadlineFlush::after_commit, for a commit that starts a batch: its deadline
\* counts from the reading t; the flusher is woken, or started, which may fail.
StartBatch(t) ==
    /\ \E spawned \in BOOLEAN :
        LET b == [batch EXCEPT !.deadline = t + Interval, !.armed = TRUE, !.paging = TRUE]
        IN  IF batch.started
            THEN batch' = b /\ Notify
            ELSE /\ batch' = [b EXCEPT !.started = spawned]
                 /\ flusher' = IF spawned THEN "loop" ELSE flusher
    /\ shadow' = [floor |-> shadow.floor, deadline |-> t + Interval]

\* DeadlineFlush::after_commit, for a commit after which no batch is pending:
\* its own barrier made it durable, or a cap flush follows.
EndBatch ==
    /\ batch' = Clear(batch)
    /\ shadow' = [floor |-> txid', deadline |-> NoDeadline]
    /\ UNCHANGED flusher

\* DeadlineFlush::after_commit, for a commit that joins the pending batch.
ContinueBatch == UNCHANGED <<batch, shadow, flusher>>

\* A flush before planning ends the batch; without the idle flusher it ends the
\* same commits.
FlushBatch(ok) ==
    /\ FlushPending(ok)
    /\ batch' = IF ok THEN Clear(batch) ELSE batch
    /\ shadow' = IF ok THEN [floor |-> txid, deadline |-> NoDeadline] ELSE shadow

\* What the owner without a flusher does where this one reads its clock and
\* finds no pending batch past its deadline.
ShadowReading ==
    /\ shadow' = IF txid # shadow.floor /\ Passed(shadow, now)
                 THEN [floor |-> txid, deadline |-> NoDeadline] ELSE shadow
    /\ UNCHANGED <<batch, floor, poisoned>>

-----------------------------------------------------------------------------
(* The owner's own write transaction (the in-process writer gate admits one). *)

\* begin_service_write on the owner.
OwnBegin ==
    /\ own.pc = "idle" /\ gate = "free" /\ ~batch.stopped
    /\ gate' = "own" /\ own' = [own EXCEPT !.pc = "begun"]
    /\ UNCHANGED <<now, relaxed, txid, floor, poisoned, batch, lock, capFlush, client, flusher, shadow>>

\* release_service_write: after the commit, its failure, or a rollback.
OwnRelease ==
    /\ own.pc \in {"begun", "ended"}
    /\ gate' = "free" /\ own' = [own EXCEPT !.pc = "idle"]
    /\ UNCHANGED <<now, relaxed, txid, floor, poisoned, batch, lock, capFlush, client, flusher, shadow>>

\* commit_durable: take the batch lock.
OwnLock ==
    /\ own.pc = "begun" /\ lock = "free" /\ txid < MaxCommits
    /\ lock' = "own" /\ own' = [own EXCEPT !.pc = "locked"]
    /\ UNCHANGED <<now, relaxed, txid, floor, poisoned, batch, gate, capFlush, client, flusher, shadow>>

\* await_flush joins the cap-flush thread; its failure, or a pager that needs
\* a reopen (check_commit), fails the commit.
OwnAwait ==
    /\ own.pc = "locked" /\ capFlush # "running"
    /\ capFlush' = "none"
    /\ IF capFlush = "failed" \/ poisoned
       THEN lock' = "free" /\ own' = [own EXCEPT !.pc = "ended"]
       ELSE lock' = lock /\ own' = [own EXCEPT !.pc = "planning"]
    /\ UNCHANGED <<now, relaxed, txid, floor, poisoned, batch, gate, client, flusher, shadow>>

\* One clock reading; a pending batch past its deadline is flushed, then the
\* commit is planned against the pending set.
OwnPlan ==
    /\ own.pc = "planning"
    /\ \/ /\ Pending /\ Passed(batch, now)
          /\ \E ok \in BOOLEAN :
                /\ FlushBatch(ok)
                /\ lock' = IF ok THEN lock ELSE "free"
                /\ own' = IF ok THEN [pc |-> "planned", plan |-> txid, reading |-> now]
                          ELSE [own EXCEPT !.pc = "ended"]
       \/ /\ ~(Pending /\ Passed(batch, now))
          /\ ShadowReading
          /\ own' = [pc |-> "planned", plan |-> floor, reading |-> now]
          /\ UNCHANGED lock
    /\ UNCHANGED <<now, relaxed, txid, gate, capFlush, client, flusher>>

\* The commit fails: refused before it writes (its plan, or the size limit), or by
\* a write or sync in commit_file, which poisons the pager.
OwnCommitFails ==
    /\ own.pc = "planned"
    /\ poisoned' \in {poisoned, TRUE} /\ lock' = "free" /\ own' = [own EXCEPT !.pc = "ended"]
    /\ UNCHANGED <<now, relaxed, txid, floor, batch, gate, capFlush, client, flusher, shadow>>

\* A synchronous commit's own barrier makes the whole batch durable.
OwnCommitDurable ==
    /\ own.pc = "planned" /\ ~relaxed
    /\ txid' = txid + 1 /\ floor' = txid + 1
    /\ EndBatch
    /\ lock' = "free" /\ own' = [own EXCEPT !.pc = "ended"]
    /\ UNCHANGED <<now, relaxed, poisoned, gate, capFlush, client>>

\* start_cap_flush runs the barrier on its own thread, or here when the thread
\* cannot be started.
OwnCommitRelaxed ==
    /\ own.pc = "planned" /\ relaxed
    /\ txid' = txid + 1
    /\ IF txid + 1 - floor >= Cap
       THEN /\ EndBatch
            /\ \/ capFlush' = "running" /\ UNCHANGED <<floor, poisoned>>
               \/ /\ capFlush' = capFlush
                  /\ \E ok \in BOOLEAN : /\ floor' = IF ok THEN txid + 1 ELSE floor
                                         /\ poisoned' = ~ok
       ELSE /\ IF Pending THEN ContinueBatch ELSE StartBatch(own.reading)
            /\ UNCHANGED <<capFlush, floor, poisoned>>
    /\ lock' = "free" /\ own' = [own EXCEPT !.pc = "ended"]
    /\ UNCHANGED <<now, relaxed, gate, client>>

\* Mutant: the thread retries a failed barrier until it succeeds.
CapFlushRetries ==
    /\ capFlush = "running"
    /\ \E ok \in BOOLEAN : FlushPending(ok) /\ capFlush' = IF ok THEN "done" ELSE "running"
    /\ UNCHANGED <<now, relaxed, txid, batch, lock, gate, own, client, flusher, shadow>>

\* The cap-flush thread: cap_flush.
CapFlush ==
    /\ capFlush = "running"
    /\ \E ok \in BOOLEAN : FlushPending(ok) /\ capFlush' = IF ok THEN "done" ELSE "failed"
    /\ UNCHANGED <<now, relaxed, txid, batch, lock, gate, own, client, flusher, shadow>>

-----------------------------------------------------------------------------
(* A page client's write transaction, on the owner. *)

\* wait_for_gate: the gate is granted.
ClientGate(r) ==
    /\ client.pc = "idle" /\ gate = "free" /\ ~batch.stopped
    /\ gate' = "client" /\ client' = [client EXCEPT !.pc = "gated", !.relaxed = r]
    /\ UNCHANGED <<now, relaxed, txid, floor, poisoned, batch, lock, capFlush, own, flusher, shadow>>

\* page_service_flush, then page_service_begin_write: flush_for_client for a
\* synchronous client, begin_client_batch for a relaxed one, which is told the
\* pending set it plans against.
ClientBegin ==
    /\ client.pc = "gated" /\ lock = "free" /\ capFlush # "running"
    /\ capFlush' = "none"
    /\ IF capFlush = "failed"
       THEN /\ client' = [client EXCEPT !.pc = "ended"]
            /\ UNCHANGED <<floor, poisoned, batch, shadow>>
       ELSE IF Pending /\ (client.relaxed => Passed(batch, now))
       THEN \E ok \in BOOLEAN :
                /\ FlushBatch(ok)
                /\ client' = IF ok THEN [client EXCEPT !.pc = "begun", !.plan = txid]
                             ELSE [client EXCEPT !.pc = "ended"]
       ELSE /\ IF client.relaxed THEN ShadowReading
               ELSE /\ batch' = Clear(batch)
                    /\ shadow' = [floor |-> txid, deadline |-> NoDeadline]
                    /\ UNCHANGED <<floor, poisoned>>
            /\ client' = [client EXCEPT !.pc = "begun", !.plan = floor]
    /\ UNCHANGED <<now, relaxed, txid, lock, gate, own, flusher>>

\* page_service_commit_delta and after_client_commit. A relaxed commit joins
\* the owner's batch, or starts one from a reading taken now; at the cap it
\* ends the batch's deadline, and page_service_cap_flush follows.
ClientCommit ==
    /\ client.pc = "begun" /\ lock = "free" /\ txid < MaxCommits
    /\ \/ /\ poisoned' = TRUE /\ client' = [client EXCEPT !.pc = "ended"]
          /\ UNCHANGED <<txid, floor, batch, flusher, shadow>>
       \/ /\ ~poisoned /\ UNCHANGED poisoned
          /\ txid' = txid + 1
          /\ IF ~client.relaxed
             THEN /\ floor' = txid + 1
                  /\ shadow' = [shadow EXCEPT !.floor = txid + 1]
                  /\ client' = [client EXCEPT !.pc = "ended"]
                  /\ UNCHANGED <<batch, flusher>>
             ELSE /\ floor' = floor
                  /\ client' = [client EXCEPT !.pc =
                                    IF txid + 1 - floor >= Cap THEN "full" ELSE "ended"]
                  /\ IF txid + 1 - floor >= Cap THEN EndBatch
                     ELSE IF Pending THEN ContinueBatch ELSE StartBatch(now)
    /\ UNCHANGED <<now, relaxed, lock, gate, capFlush, own>>

\* page_service_cap_flush, still holding the gate.
ClientCapFlush ==
    /\ client.pc = "full"
    /\ \E ok \in BOOLEAN : FlushPending(ok)
    /\ client' = [client EXCEPT !.pc = "ended"]
    /\ UNCHANGED <<now, relaxed, txid, batch, lock, gate, capFlush, own, flusher, shadow>>

\* The gate is released after the commit, a refusal, an abort, a revocation or
\* the connection's end.
ClientRelease ==
    /\ client.pc \in {"begun", "ended"}
    /\ gate' = "free" /\ client' = [client EXCEPT !.pc = "idle"]
    /\ UNCHANGED <<now, relaxed, txid, floor, poisoned, batch, lock, capFlush, own, flusher, shadow>>

-----------------------------------------------------------------------------
(* The idle flusher's thread: idle_flush::run. *)

\* Mutant: an armed batch is due without a clock reading.
DueUnread == batch.deadline # NoDeadline /\ ~batch.armed

\* The clock has passed the deadline of a batch whose interval was waited out.
Due == batch.deadline # NoDeadline /\ ~batch.armed /\ now >= batch.deadline

AtLoop == flusher = "loop" /\ lock = "free"

FlusherStops ==
    /\ AtLoop /\ batch.stopped
    /\ flusher' = "off"
    /\ UNCHANGED <<now, relaxed, txid, floor, poisoned, batch, lock, gate, capFlush, own, client, shadow>>

\* No deadline: wait to be notified.
FlusherParks ==
    /\ AtLoop /\ ~batch.stopped /\ batch.deadline = NoDeadline
    /\ flusher' = "parked"
    /\ UNCHANGED <<now, relaxed, txid, floor, poisoned, batch, lock, gate, capFlush, own, client, shadow>>

\* Not yet due, or a writer holds the gate: wait with a timeout.
FlusherWaits ==
    /\ AtLoop /\ ~batch.stopped /\ batch.deadline # NoDeadline
    /\ Due => gate # "free"
    /\ flusher' = "timed" /\ batch' = [batch EXCEPT !.armed = FALSE]
    /\ UNCHANGED <<now, relaxed, txid, floor, poisoned, lock, gate, capFlush, own, client, shadow>>

\* The timeout, whatever the handle's clock reads.
FlusherWakes ==
    /\ flusher = "timed" /\ flusher' = "loop"
    /\ UNCHANGED <<now, relaxed, txid, floor, poisoned, batch, lock, gate, capFlush, own, client, shadow>>

\* Mutant: the flusher takes no gate.
FlusherTakesNoGate ==
    /\ AtLoop /\ ~batch.stopped /\ Due
    /\ lock' = "flusher" /\ gate' = gate
    /\ batch' = [batch EXCEPT !.deadline = NoDeadline] /\ flusher' = "flushing"
    /\ UNCHANGED <<now, relaxed, txid, floor, poisoned, capFlush, own, client, shadow>>

\* Due, and the gate is free: keep the batch lock and take the gate.
FlusherTakes ==
    /\ AtLoop /\ ~batch.stopped /\ Due /\ gate = "free"
    /\ lock' = "flusher" /\ gate' = "flusher"
    /\ batch' = [batch EXCEPT !.deadline = NoDeadline] /\ flusher' = "flushing"
    /\ UNCHANGED <<now, relaxed, txid, floor, poisoned, capFlush, own, client, shadow>>

\* cap_flush of the batch's paging; its error only revokes the storage.
FlusherFlushes ==
    /\ flusher = "flushing"
    /\ IF batch.paging THEN \E ok \in BOOLEAN : FlushPending(ok)
       ELSE UNCHANGED <<floor, poisoned>>
    /\ batch' = [batch EXCEPT !.paging = FALSE]
    /\ lock' = "free" /\ gate' = (IF gate = "flusher" THEN "free" ELSE gate) /\ flusher' = "loop"
    /\ UNCHANGED <<now, relaxed, txid, capFlush, own, client, shadow>>

-----------------------------------------------------------------------------
(* The clock and the handle's close. *)

\* The bound leaves every deadline within reach.
Tick ==
    /\ now < MaxTime \/ now < batch.deadline
    /\ now' = now + 1
    /\ UNCHANGED <<relaxed, txid, floor, poisoned, batch, lock, gate, capFlush, own, client, flusher, shadow>>

\* release_ownership: no writer is left, Storage::flush, then the storage is
\* revoked and its token dropped, which stops the flusher.
Close ==
    /\ own.pc = "idle" /\ client.pc = "idle" /\ lock = "free" /\ capFlush # "running"
    /\ ~batch.stopped
    /\ \E ok \in BOOLEAN :
        /\ capFlush = "failed" => ~ok
        /\ IF capFlush = "failed" THEN UNCHANGED <<floor, poisoned>> ELSE FlushPending(ok)
        /\ batch' = [(IF ok THEN Clear(batch) ELSE batch) EXCEPT !.stopped = TRUE]
    /\ capFlush' = "none" /\ Notify
    /\ UNCHANGED <<now, relaxed, txid, lock, gate, own, client, shadow>>

OwnSteps == OwnAwait \/ OwnPlan \/ OwnCommitFails \/ OwnCommitDurable \/ OwnCommitRelaxed
FlusherSteps ==
    FlusherStops \/ FlusherParks \/ FlusherWaits \/ FlusherWakes \/ FlusherTakes \/ FlusherFlushes

Next ==
    \/ OwnBegin \/ OwnLock \/ OwnSteps \/ OwnRelease
    \/ CapFlush
    \/ \E r \in BOOLEAN : ClientGate(r)
    \/ ClientBegin \/ ClientCommit \/ ClientCapFlush \/ ClientRelease
    \/ FlusherSteps
    \/ Tick \/ Close

\* The threads the owner starts are scheduled, the clock advances, and a commit
\* that holds the batch lock runs to its end. Nothing makes a transaction begin,
\* commit or end.
Fairness ==
    /\ WF_vars(Tick) /\ WF_vars(CapFlush) /\ WF_vars(FlusherSteps)
    /\ WF_vars(OwnSteps) /\ WF_vars(ClientCapFlush)

Spec == Init /\ [][Next]_vars /\ Fairness

-----------------------------------------------------------------------------

\* Every variable keeps its type.
TypeOK ==
    /\ now \in Nat /\ relaxed \in BOOLEAN /\ poisoned \in BOOLEAN
    /\ txid \in Txids /\ floor \in 0 .. txid
    /\ batch \in [deadline : Deadlines, armed : BOOLEAN, stopped : BOOLEAN,
                  started : BOOLEAN, paging : BOOLEAN]
    /\ lock \in {"free", "own", "flusher"}
    /\ gate \in {"free", "own", "client", "flusher"}
    /\ capFlush \in {"none", "running", "done", "failed"}
    /\ own \in [pc : {"idle", "begun", "locked", "planning", "planned", "ended"},
                plan : Txids, reading : Nat]
    /\ client \in [pc : {"idle", "gated", "begun", "full", "ended"},
                   plan : Txids, relaxed : BOOLEAN]
    /\ flusher \in {"off", "loop", "parked", "timed", "flushing"}
    /\ shadow \in [floor : Txids, deadline : Deadlines]

\* A writer's plan lists the pending set and reuses only pages the floor does
\* not need: from the plan (the owner's commit) or the grant (a client's
\* begin_write) to the commit nobody else moves the floor, though the idle
\* flusher and the cap-flush thread run.
PlannedFloorHolds ==
    /\ own.pc = "planned" => own.plan = floor
    /\ client.pc = "begun" => client.plan = floor

\* The idle flusher is invisible: a commit, or a client's begin_write, plans
\* against exactly the pending set it would have met had the owner run no idle
\* flusher, so which commits a flush covers depends on the commits and their
\* clock readings alone (validated-cow.md 4.1). Of a poisoned pager's commits
\* none lands.
FlusherInvisible ==
    ~poisoned => /\ own.pc = "planned" => own.plan = shadow.floor
                 /\ client.pc = "begun" => client.plan = shadow.floor

\* No acknowledged commit waits unboundedly: while a batch is pending and no
\* thread is about to flush it, it has a deadline, at most an interval ahead.
PendingIsTimed ==
    (Pending /\ ~poisoned /\ ~batch.stopped)
        => \/ batch.deadline \in 0 .. now + Interval
           \/ capFlush = "running" \/ client.pc = "full" \/ flusher = "flushing"

\* Once writers leave the gate alone, a timed batch whose flusher's thread runs
\* becomes durable, unless a barrier fails or the handle closes.
BatchBecomesDurable ==
    <>[](gate \in {"free", "flusher"})
        => [](Pending /\ batch.started => <>(~Pending \/ poisoned \/ batch.stopped))

\* A commit that has taken the batch lock returns, whatever flush it waits for.
CommitReturns == own.pc = "locked" ~> own.pc = "ended"
=============================================================================
