--------------------------- MODULE IdleFlushProofs ---------------------------
(***************************************************************************)
(* Proofs about IdleFlush, for every interval, cap and bound: its          *)
(* invariants, with the facts about the locks, the deadline and the owner  *)
(* without a flusher that make them inductive.                             *)
(***************************************************************************)
EXTENDS IdleFlush, TLAPS

\* Who holds the batch lock and the gate, and what each holder knows: a commit
\* past await_flush runs on a pager that works, with no cap flush in flight.
Holders ==
    /\ lock = "own" <=> own.pc \in {"locked", "planning", "planned"}
    /\ lock = "flusher" <=> flusher = "flushing"
    /\ gate = "own" <=> own.pc # "idle"
    /\ gate = "client" <=> client.pc # "idle"
    /\ gate = "flusher" <=> flusher = "flushing"
    /\ own.pc \in {"planning", "planned"} => capFlush = "none" /\ ~poisoned
    /\ client.pc \in {"begun", "full"} => capFlush = "none"
    /\ own.pc \in {"locked", "planning", "planned"} => txid < MaxCommits
    /\ batch.stopped => own.pc = "idle" /\ client.pc = "idle" /\ flusher # "flushing"

\* A deadline is a pending batch's, counted from a reading the clock has
\* passed; nobody sets one while a flush of the whole batch is on its way.
Timed ==
    /\ own.reading <= now /\ batch.deadline <= now + Interval
    /\ batch.deadline # NoDeadline => Pending /\ batch.paging
    /\ flusher = "flushing" => Pending /\ batch.paging /\ capFlush # "running"
    /\ capFlush = "running" \/ flusher = "flushing" \/ client.pc = "full"
        => batch.deadline = NoDeadline
    /\ client.pc = "begun" /\ ~client.relaxed => ~Pending

\* Where the owner without a flusher stands: with this owner, unless a flush
\* that owner also does is on its way, or the idle flusher has run ahead of it,
\* which takes a batch that owner flushes at its next reading.
Mirror ==
    ~poisoned /\ ~batch.stopped =>
        \/ /\ capFlush = "running" \/ client.pc = "full"
           /\ shadow = [floor |-> txid, deadline |-> NoDeadline]
        \/ /\ flusher = "flushing"
           /\ shadow.floor = floor /\ Passed(shadow, now)
        \/ /\ flusher # "flushing" /\ capFlush # "running" /\ client.pc # "full"
           /\ \/ shadow = [floor |-> floor, deadline |-> batch.deadline]
              \/ /\ ~Pending /\ shadow.floor # floor /\ Passed(shadow, now)
                 /\ own.pc # "planned" /\ client.pc # "begun"

IdleInv ==
    TypeOK /\ Holders /\ PlannedFloorHolds /\ Timed /\ PendingIsTimed /\ Mirror

-----------------------------------------------------------------------------
(* The batch and its flushes. *)

Batches == [deadline : Deadlines, armed : BOOLEAN, stopped : BOOLEAN,
            started : BOOLEAN, paging : BOOLEAN]

\* Pager::flush_pending leaves nothing pending, or the pager poisoned, for good.
LEMMA FlushPendingEffect ==
    ASSUME TypeOK, NEW ok \in BOOLEAN, FlushPending(ok)
    PROVE  /\ floor' \in 0 .. txid /\ poisoned' \in BOOLEAN
           /\ floor' = floor \/ floor' = txid
           /\ poisoned => poisoned'
           /\ ok => floor' = txid /\ (poisoned' => poisoned)
           /\ ~ok => poisoned' /\ floor' = floor
<1>1. txid \in 0 .. MaxCommits /\ floor \in 0 .. txid /\ poisoned \in BOOLEAN
  BY DEF TypeOK, Txids
<1>2. floor' = floor \/ floor' = txid
  BY DEF FlushPending
<1>3. floor' \in 0 .. txid
  BY <1>1, <1>2, IdleFlushAssumption
<1>4. /\ (poisoned => poisoned') /\ (~ok => poisoned') /\ (ok /\ poisoned' => poisoned)
      /\ poisoned' \in BOOLEAN
  BY <1>1, Zenon DEF FlushPending
<1>5. (ok => floor' = txid) /\ (~ok => floor' = floor)
  BY DEF FlushPending, Pending
<1> QED BY <1>2, <1>3, <1>4, <1>5

\* DeadlineFlush::after_commit starting a batch: what it leaves of the batch
\* and of the flusher.
LEMMA StartBatchEffect ==
    ASSUME TypeOK, NEW t \in Nat, StartBatch(t)
    PROVE  /\ batch' \in Batches
           /\ batch'.deadline = t + Interval /\ batch'.paging
           /\ batch'.stopped = batch.stopped
           /\ flusher' \in {"off", "loop", "parked", "timed", "flushing"}
           /\ flusher # "flushing" => flusher' # "flushing"
           /\ shadow' = [floor |-> shadow.floor, deadline |-> t + Interval]
<1>1. PICK spawned \in BOOLEAN :
        LET b == [batch EXCEPT !.deadline = t + Interval, !.armed = TRUE, !.paging = TRUE]
        IN  IF batch.started
            THEN batch' = b /\ Notify
            ELSE /\ batch' = [b EXCEPT !.started = spawned]
                 /\ flusher' = IF spawned THEN "loop" ELSE flusher
  BY DEF StartBatch
<1>2. t + Interval \in Deadlines
  BY IdleFlushAssumption DEF Deadlines
<1>3. CASE batch.started
  BY <1>1, <1>2, <1>3 DEF TypeOK, Batches, StartBatch, Notify
<1>4. CASE ~batch.started
  BY <1>1, <1>2, <1>4 DEF TypeOK, Batches, StartBatch
<1> QED BY <1>3, <1>4
\* Batch::clear forgets the deadline and the paging alone.
LEMMA ClearEffect ==
    ASSUME TypeOK
    PROVE  /\ Clear(batch) \in Batches
           /\ Clear(batch).deadline = NoDeadline /\ ~Clear(batch).paging
           /\ Clear(batch).stopped = batch.stopped
BY DEF TypeOK, Batches, Clear, Deadlines, NoDeadline

\* The flush of a batch before planning: the batch is durable and over for this
\* owner and for the one without a flusher, or the pager is poisoned.
LEMMA FlushBatchEffect ==
    ASSUME TypeOK, NEW ok \in BOOLEAN, FlushBatch(ok)
    PROVE  /\ floor' \in 0 .. txid /\ poisoned' \in BOOLEAN
           /\ floor' = floor \/ floor' = txid
           /\ poisoned => poisoned'
           /\ batch' \in Batches /\ batch'.stopped = batch.stopped
           /\ shadow' \in [floor : Txids, deadline : Deadlines]
           /\ ok => /\ floor' = txid /\ (poisoned' => poisoned) /\ batch' = Clear(batch)
                    /\ shadow' = [floor |-> txid, deadline |-> NoDeadline]
           /\ ~ok => poisoned' /\ UNCHANGED <<floor, batch, shadow>>
<1>1. FlushPending(ok)
  BY DEF FlushBatch
<1>2. batch \in Batches /\ shadow \in [floor : Txids, deadline : Deadlines] /\ txid \in Txids
  BY DEF TypeOK, Batches
<1>3. CASE ok
  <2>1. batch' = Clear(batch) /\ shadow' = [floor |-> txid, deadline |-> NoDeadline]
    BY <1>3 DEF FlushBatch
  <2> QED BY <1>1, <1>2, <1>3, <2>1, FlushPendingEffect, ClearEffect DEF Deadlines
<1>4. CASE ~ok
  <2>1. UNCHANGED <<batch, shadow>>
    BY <1>4 DEF FlushBatch
  <2> QED BY <1>1, <1>2, <1>4, <2>1, FlushPendingEffect
<1> QED BY <1>3, <1>4

\* The owner without a flusher reads its clock where this one has nothing to do.
LEMMA ShadowReadingEffect ==
    ASSUME TypeOK, ShadowReading
    PROVE  /\ batch' = batch /\ floor' = floor /\ poisoned' = poisoned
           /\ shadow' \in [floor : Txids, deadline : Deadlines]
           /\ txid # shadow.floor /\ Passed(shadow, now)
                => shadow' = [floor |-> txid, deadline |-> NoDeadline]
           /\ ~(txid # shadow.floor /\ Passed(shadow, now)) => shadow' = shadow
BY DEF TypeOK, ShadowReading, Deadlines

\* What OwnPlan leaves: a commit that failed, one that flushed the batch, or one
\* that joins it.
LEMMA OwnPlanEffect ==
    ASSUME TypeOK, Holders, OwnPlan
    PROVE  /\ own.pc = "planning" /\ flusher # "flushing" /\ client.pc = "idle"
           /\ capFlush = "none" /\ ~poisoned /\ ~batch.stopped
           /\ UNCHANGED <<now, txid, capFlush, client, flusher>>
           /\ \/ /\ own'.pc = "ended" /\ own'.reading = own.reading /\ poisoned'
                 /\ UNCHANGED <<floor, batch, shadow>>
              \/ /\ own'.pc = "planned" /\ own'.reading = now /\ ~poisoned'
                 /\ floor' = txid /\ batch' = Clear(batch)
                 /\ shadow' = [floor |-> txid, deadline |-> NoDeadline]
              \/ /\ own'.pc = "planned" /\ own'.reading = now
                 /\ ~(Pending /\ Passed(batch, now)) /\ ShadowReading
<1>1. /\ own.pc = "planning" /\ flusher # "flushing" /\ client.pc = "idle"
      /\ capFlush = "none" /\ ~poisoned /\ ~batch.stopped
  BY DEF OwnPlan, Holders, TypeOK
<1>2. CASE ShadowReading /\ ~(Pending /\ Passed(batch, now))
           /\ own' = [pc |-> "planned", plan |-> floor, reading |-> now]
  BY <1>1, <1>2 DEF OwnPlan
<1>3. CASE \E ok \in BOOLEAN :
                /\ FlushBatch(ok)
                /\ own' = IF ok THEN [pc |-> "planned", plan |-> txid, reading |-> now]
                          ELSE [own EXCEPT !.pc = "ended"]
  <2>1. PICK ok \in BOOLEAN :
                /\ FlushBatch(ok)
                /\ own' = IF ok THEN [pc |-> "planned", plan |-> txid, reading |-> now]
                          ELSE [own EXCEPT !.pc = "ended"]
    BY <1>3
  <2>2. CASE ok
    BY <1>1, <2>1, <2>2, FlushBatchEffect DEF OwnPlan
  <2>3. CASE ~ok
    BY <1>1, <2>1, <2>3, FlushBatchEffect DEF OwnPlan, TypeOK
  <2> QED BY <2>2, <2>3
<1> QED BY <1>2, <1>3 DEF OwnPlan

\* What ClientBegin leaves: a refusal, a client that meets no pending commit, or
\* a relaxed one that joins the batch.
LEMMA ClientBeginEffect ==
    ASSUME TypeOK, Holders, ClientBegin
    PROVE  /\ client.pc = "gated" /\ flusher # "flushing" /\ own.pc = "idle"
           /\ capFlush # "running" /\ ~batch.stopped /\ (poisoned => poisoned')
           /\ UNCHANGED <<now, txid, own, flusher>>
           /\ capFlush' = "none"
           /\ \/ client'.pc = "ended" /\ UNCHANGED <<floor, batch, shadow>>
              \/ /\ client'.pc = "begun" /\ floor' = txid /\ batch' = Clear(batch)
                 /\ shadow' = [floor |-> txid, deadline |-> NoDeadline]
              \/ /\ client'.pc = "begun" /\ client.relaxed /\ client'.relaxed
                 /\ ~(Pending /\ Passed(batch, now)) /\ ShadowReading
<1>1. /\ client.pc = "gated" /\ flusher # "flushing" /\ own.pc = "idle"
      /\ capFlush # "running" /\ ~batch.stopped /\ capFlush' = "none"
  BY DEF ClientBegin, Holders, TypeOK
<1>2. CASE /\ client' = [client EXCEPT !.pc = "ended"]
           /\ UNCHANGED <<floor, poisoned, batch, shadow>>
  BY <1>1, <1>2 DEF ClientBegin, TypeOK
<1>3. CASE \E ok \in BOOLEAN :
                /\ FlushBatch(ok)
                /\ client' = IF ok THEN [client EXCEPT !.pc = "begun", !.plan = txid]
                             ELSE [client EXCEPT !.pc = "ended"]
  <2>1. PICK ok \in BOOLEAN :
                /\ FlushBatch(ok)
                /\ client' = IF ok THEN [client EXCEPT !.pc = "begun", !.plan = txid]
                             ELSE [client EXCEPT !.pc = "ended"]
    BY <1>3
  <2>2. CASE ok
    BY <1>1, <2>1, <2>2, FlushBatchEffect DEF ClientBegin, TypeOK
  <2>3. CASE ~ok
    BY <1>1, <2>1, <2>3, FlushBatchEffect DEF ClientBegin, TypeOK
  <2> QED BY <2>2, <2>3
<1>4. CASE /\ client' = [client EXCEPT !.pc = "begun", !.plan = floor]
           /\ ~(Pending /\ (client.relaxed => Passed(batch, now)))
           /\ IF client.relaxed THEN ShadowReading
              ELSE /\ batch' = Clear(batch)
                   /\ shadow' = [floor |-> txid, deadline |-> NoDeadline]
                   /\ UNCHANGED <<floor, poisoned>>
  BY <1>1, <1>4 DEF ClientBegin, TypeOK, Pending, ShadowReading
<1> QED BY <1>2, <1>3, <1>4 DEF ClientBegin

\* after_commit of a relaxed commit below the cap, planned at the reading t.
Joins(t) ==
    \/ Pending /\ ContinueBatch
    \/ ~Pending /\ StartBatch(t)

\* What OwnCommitRelaxed leaves: at the cap a batch that is over and about to be
\* flushed, below it a batch that goes on.
LEMMA OwnCommitRelaxedEffect ==
    ASSUME TypeOK, Holders, OwnCommitRelaxed
    PROVE  /\ own.pc = "planned" /\ flusher # "flushing" /\ client.pc = "idle"
           /\ capFlush = "none" /\ ~poisoned /\ ~batch.stopped
           /\ own'.pc = "ended" /\ own'.reading = own.reading /\ own.reading \in Nat
           /\ UNCHANGED <<now, client>> /\ txid' = txid + 1
           /\ \/ /\ EndBatch
                 /\ \/ capFlush' = "running"
                    \/ capFlush' = "none" /\ (floor' = txid' \/ poisoned')
              \/ capFlush' = "none" /\ UNCHANGED <<floor, poisoned>> /\ Joins(own.reading)
<1>1. /\ own.pc = "planned" /\ flusher # "flushing" /\ client.pc = "idle"
      /\ capFlush = "none" /\ ~poisoned /\ ~batch.stopped
      /\ own'.pc = "ended" /\ own'.reading = own.reading /\ own.reading \in Nat
  BY DEF OwnCommitRelaxed, Holders, TypeOK
<1>2. CASE txid + 1 - floor >= Cap
  BY <1>1, <1>2 DEF OwnCommitRelaxed
<1>3. CASE ~(txid + 1 - floor >= Cap)
  BY <1>1, <1>3 DEF OwnCommitRelaxed, Joins
<1> QED BY <1>2, <1>3

\* What ClientCommit leaves: a poisoned pager, a durable commit, or a relaxed one.
LEMMA ClientCommitEffect ==
    ASSUME TypeOK, Holders, ClientCommit
    PROVE  /\ client.pc = "begun" /\ flusher # "flushing" /\ own.pc = "idle"
           /\ capFlush = "none" /\ ~batch.stopped /\ now \in Nat
           /\ UNCHANGED <<now, capFlush, own>>
           /\ \/ /\ poisoned' /\ client'.pc = "ended"
                 /\ UNCHANGED <<txid, floor, batch, flusher, shadow>>
              \/ /\ ~poisoned /\ ~poisoned' /\ txid' = txid + 1 /\ ~client.relaxed
                 /\ floor' = txid + 1 /\ client'.pc = "ended" /\ UNCHANGED <<batch, flusher>>
                 /\ shadow' = [shadow EXCEPT !.floor = txid + 1]
              \/ /\ ~poisoned /\ ~poisoned' /\ txid' = txid + 1 /\ client.relaxed
                 /\ floor' = floor
                 /\ \/ client'.pc = "full" /\ EndBatch
                    \/ client'.pc = "ended" /\ Joins(now)
<1>1. /\ client.pc = "begun" /\ flusher # "flushing" /\ own.pc = "idle"
      /\ capFlush = "none" /\ ~batch.stopped /\ now \in Nat
      /\ UNCHANGED <<now, capFlush, own>>
  BY DEF ClientCommit, Holders, TypeOK
<1>2. CASE poisoned' = TRUE /\ client' = [client EXCEPT !.pc = "ended"]
           /\ UNCHANGED <<txid, floor, batch, flusher, shadow>>
  BY <1>1, <1>2 DEF TypeOK
<1>3. CASE ~poisoned /\ poisoned' = poisoned /\ ~client.relaxed
  BY <1>1, <1>3 DEF ClientCommit, TypeOK
<1>4. CASE ~poisoned /\ poisoned' = poisoned /\ client.relaxed
  <2>1. CASE txid + 1 - floor >= Cap
    BY <1>1, <1>4, <2>1 DEF ClientCommit, TypeOK
  <2>2. CASE ~(txid + 1 - floor >= Cap)
    BY <1>1, <1>4, <2>2 DEF ClientCommit, TypeOK, Joins
  <2> QED BY <2>1, <2>2
<1> QED BY <1>2, <1>3, <1>4 DEF ClientCommit

-----------------------------------------------------------------------------
(* What each step keeps. *)

\* Every step keeps the types.
LEMMA TypeStep ==
    ASSUME TypeOK, Holders, Next
    PROVE  TypeOK'
<1> USE IdleFlushAssumption DEF TypeOK, Holders, Txids
<1>1. CASE OwnBegin
  BY <1>1 DEF OwnBegin
<1>2. CASE OwnLock
  BY <1>2 DEF OwnLock
<1>3. CASE OwnAwait
  BY <1>3 DEF OwnAwait
<1>4. CASE OwnPlan
  <2>1. /\ lock \in {"free", "own", "flusher"} /\ floor \in Txids
        /\ own \in [pc : {"idle", "begun", "locked", "planning", "planned", "ended"},
                     plan : Txids, reading : Nat]
    OBVIOUS
  <2>2. /\ lock' \in {"free", "own", "flusher"}
        /\ own' \in [pc : {"idle", "begun", "locked", "planning", "planned", "ended"},
                      plan : Txids, reading : Nat]
    BY <1>4, <2>1 DEF OwnPlan
  <2>3. /\ floor' \in 0 .. txid /\ poisoned' \in BOOLEAN /\ batch' \in Batches
        /\ shadow' \in [floor : Txids, deadline : Deadlines]
    <3>1. CASE \E ok \in BOOLEAN : FlushBatch(ok)
      BY <3>1, FlushBatchEffect
    <3>2. CASE ShadowReading
      BY <2>1, <3>2, ShadowReadingEffect DEF TypeOK, Batches
    <3> QED BY <1>4, <3>1, <3>2 DEF OwnPlan
  <2> QED BY <1>4, <2>2, <2>3 DEF OwnPlan, TypeOK, Batches
<1>5. CASE OwnCommitFails
  BY <1>5 DEF OwnCommitFails
<1>6. CASE OwnCommitDurable
  <2>1. Clear(batch) \in Batches
    BY ClearEffect
  <2>2. txid < MaxCommits
    BY <1>6 DEF OwnCommitDurable, Holders
  <2> QED BY <1>6, <2>1, <2>2 DEF OwnCommitDurable, EndBatch, Batches, Deadlines
<1>7. CASE OwnCommitRelaxed
  <2>1. Clear(batch) \in Batches /\ batch \in Batches /\ own.reading \in Nat
    BY ClearEffect DEF TypeOK, Batches
  <2>2. txid < MaxCommits /\ txid' = txid + 1
    BY <1>7 DEF OwnCommitRelaxed, Holders
  <2>3. txid' \in Txids /\ floor' \in 0 .. txid' /\ poisoned' \in BOOLEAN
    <3>1. floor' = floor \/ floor' = txid + 1
      BY <1>7 DEF OwnCommitRelaxed
    <3>2. txid' \in Txids /\ floor' \in 0 .. txid'
      BY <2>2, <3>1 DEF TypeOK, Txids
    <3>3. poisoned' \in BOOLEAN
      BY <1>7, Zenon DEF OwnCommitRelaxed, TypeOK
    <3> QED BY <3>2, <3>3
  <2>4. /\ batch' \in Batches
        /\ shadow' \in [floor : Txids, deadline : Deadlines]
        /\ flusher' \in {"off", "loop", "parked", "timed", "flushing"}
    <3>1. CASE EndBatch
      BY <2>1, <2>3, <3>1 DEF EndBatch, TypeOK, Deadlines
    <3>2. CASE ContinueBatch
      BY <2>1, <3>2 DEF ContinueBatch, TypeOK
    <3>3. CASE StartBatch(own.reading)
      BY <2>1, <3>3, StartBatchEffect DEF TypeOK, Deadlines
    <3> QED BY <1>7, <3>1, <3>2, <3>3 DEF OwnCommitRelaxed
  <2> QED BY <1>7, <2>3, <2>4 DEF OwnCommitRelaxed, TypeOK, Batches
<1>8. CASE OwnRelease
  BY <1>8 DEF OwnRelease
<1>9. CASE CapFlush
  <2>1. PICK ok \in BOOLEAN : FlushPending(ok) /\ capFlush' = IF ok THEN "done" ELSE "failed"
    BY <1>9 DEF CapFlush
  <2> QED BY <1>9, <2>1, FlushPendingEffect DEF CapFlush, TypeOK
<1>10. ASSUME NEW r \in BOOLEAN, ClientGate(r) PROVE TypeOK'
  <2>1. client' = [pc |-> "gated", plan |-> client.plan, relaxed |-> r]
    BY <1>10 DEF ClientGate, TypeOK
  <2> QED BY <1>10, <2>1 DEF ClientGate, TypeOK
<1>11. CASE ClientBegin
  <2>1. Clear(batch) \in Batches /\ batch \in Batches
    BY ClearEffect DEF TypeOK, Batches
  <2>2. client' \in [pc : {"idle", "gated", "begun", "full", "ended"},
                    plan : Txids, relaxed : BOOLEAN]
    <3>1. client \in [pc : {"idle", "gated", "begun", "full", "ended"},
                      plan : Txids, relaxed : BOOLEAN]
          /\ txid \in Txids /\ floor \in Txids
      BY DEF TypeOK, Txids
    <3>2. \/ client' = [client EXCEPT !.pc = "ended"]
          \/ client' = [client EXCEPT !.pc = "begun", !.plan = txid]
          \/ client' = [client EXCEPT !.pc = "begun", !.plan = floor]
      BY <1>11 DEF ClientBegin
    <3> QED BY <3>1, <3>2
  <2>3. /\ floor' \in 0 .. txid /\ poisoned' \in BOOLEAN /\ batch' \in Batches
        /\ shadow' \in [floor : Txids, deadline : Deadlines]
    <3>1. CASE \E ok \in BOOLEAN : FlushBatch(ok)
      BY <3>1, FlushBatchEffect
    <3>2. CASE ShadowReading
      BY <2>1, <3>2, ShadowReadingEffect DEF TypeOK
    <3>3. CASE UNCHANGED <<floor, poisoned, batch, shadow>>
      BY <2>1, <3>3 DEF TypeOK
    <3>4. CASE /\ batch' = Clear(batch) /\ UNCHANGED <<floor, poisoned>>
               /\ shadow' = [floor |-> txid, deadline |-> NoDeadline]
      BY <2>1, <3>4 DEF TypeOK, Deadlines
    <3> QED BY <1>11, <3>1, <3>2, <3>3, <3>4 DEF ClientBegin
  <2> QED BY <1>11, <2>2, <2>3 DEF ClientBegin, TypeOK, Batches
<1>12. CASE ClientCommit
  <2>1. Clear(batch) \in Batches /\ batch \in Batches
    BY ClearEffect DEF TypeOK, Batches
  <2>2. client' \in [pc : {"idle", "gated", "begun", "full", "ended"},
                    plan : Txids, relaxed : BOOLEAN]
    BY <1>12 DEF ClientCommit, TypeOK
  <2>3. txid' \in Txids /\ floor' \in 0 .. txid' /\ poisoned' \in BOOLEAN
    <3>1. \/ txid' = txid /\ floor' = floor
          \/ txid < MaxCommits /\ txid' = txid + 1 /\ (floor' = floor \/ floor' = txid + 1)
      BY <1>12 DEF ClientCommit
    <3>2. txid' \in Txids /\ floor' \in 0 .. txid'
      BY <3>1 DEF TypeOK, Txids
    <3>3. poisoned' \in BOOLEAN
      BY <1>12, Zenon DEF ClientCommit, TypeOK
    <3> QED BY <3>2, <3>3
  <2>4. /\ batch' \in Batches
        /\ shadow' \in [floor : Txids, deadline : Deadlines]
        /\ flusher' \in {"off", "loop", "parked", "timed", "flushing"}
    <3>1. CASE EndBatch
      BY <2>1, <2>3, <3>1 DEF EndBatch, TypeOK, Deadlines
    <3>2. CASE ContinueBatch
      BY <2>1, <3>2 DEF ContinueBatch, TypeOK
    <3>3. CASE StartBatch(now)
      BY <2>1, <3>3, StartBatchEffect DEF TypeOK, Deadlines
    <3>4. CASE /\ UNCHANGED <<batch, flusher>> /\ txid' = txid + 1
               /\ shadow' = [shadow EXCEPT !.floor = txid + 1]
      BY <2>1, <2>3, <3>4 DEF TypeOK
    <3>5. CASE UNCHANGED <<batch, flusher, shadow>>
      BY <2>1, <3>5 DEF TypeOK
    <3> QED BY <1>12, <3>1, <3>2, <3>3, <3>4, <3>5 DEF ClientCommit
  <2> QED BY <1>12, <2>2, <2>3, <2>4 DEF ClientCommit, TypeOK, Batches
<1>13. CASE ClientCapFlush
  <2>1. PICK ok \in BOOLEAN : FlushPending(ok)
    BY <1>13 DEF ClientCapFlush
  <2> QED BY <1>13, <2>1, FlushPendingEffect DEF ClientCapFlush, TypeOK
<1>14. CASE ClientRelease
  BY <1>14 DEF ClientRelease
<1>15. CASE FlusherStops
  BY <1>15 DEF FlusherStops, AtLoop
<1>16. CASE FlusherParks
  BY <1>16 DEF FlusherParks, AtLoop
<1>17. CASE FlusherWaits
  BY <1>17 DEF FlusherWaits, AtLoop
<1>18. CASE FlusherWakes
  BY <1>18 DEF FlusherWakes
<1>19. CASE FlusherTakes
  BY <1>19 DEF FlusherTakes, TypeOK, Deadlines
<1>20. CASE FlusherFlushes
  <2>1. floor' \in 0 .. txid /\ poisoned' \in BOOLEAN
    <3>1. CASE batch.paging
      BY <1>20, <3>1, FlushPendingEffect DEF FlusherFlushes
    <3>2. CASE ~batch.paging
      BY <1>20, <3>2 DEF FlusherFlushes, TypeOK
    <3> QED BY <3>1, <3>2
  <2> QED BY <1>20, <2>1 DEF FlusherFlushes, TypeOK
<1>21. CASE Tick
  BY <1>21 DEF Tick
<1>22. CASE Close
  <2>1. PICK ok \in BOOLEAN :
            /\ IF capFlush = "failed" THEN UNCHANGED <<floor, poisoned>> ELSE FlushPending(ok)
            /\ batch' = [(IF ok THEN Clear(batch) ELSE batch) EXCEPT !.stopped = TRUE]
    BY <1>22 DEF Close
  <2>2. floor' \in 0 .. txid /\ poisoned' \in BOOLEAN
    BY <2>1, FlushPendingEffect DEF TypeOK
  <2>3. batch' \in Batches
    BY <2>1, ClearEffect DEF TypeOK, Batches
  <2> QED BY <1>22, <2>2, <2>3 DEF Close, Notify, TypeOK, Batches
<1> QED
  BY <1>1, <1>2, <1>3, <1>4, <1>5, <1>6, <1>7, <1>8, <1>9, <1>10, <1>11, <1>12, <1>13,
     <1>14, <1>15, <1>16, <1>17, <1>18, <1>19, <1>20, <1>21, <1>22
     DEF Next, OwnSteps, FlusherSteps

\* Every step keeps the holders.
LEMMA HoldersStep ==
    ASSUME TypeOK, Holders, Next
    PROVE  Holders'
<1> USE IdleFlushAssumption DEF TypeOK, Holders, Txids, Clear
<1>1. CASE OwnBegin
  BY <1>1 DEF OwnBegin
<1>2. CASE OwnLock
  BY <1>2 DEF OwnLock
<1>3. CASE OwnAwait
  BY <1>3 DEF OwnAwait
<1>4. CASE OwnPlan
  <2>1. \/ own'.pc = "ended" /\ lock' = "free"
        \/ own'.pc = "planned" /\ lock' = lock /\ (poisoned' => poisoned)
    <3>1. CASE \E ok \in BOOLEAN :
                /\ FlushBatch(ok)
                /\ lock' = IF ok THEN lock ELSE "free"
                /\ own' = IF ok THEN [pc |-> "planned", plan |-> txid, reading |-> now]
                          ELSE [own EXCEPT !.pc = "ended"]
      BY <3>1, FlushBatchEffect DEF TypeOK
    <3>2. CASE /\ ShadowReading /\ UNCHANGED lock
               /\ own' = [pc |-> "planned", plan |-> floor, reading |-> now]
      BY <3>2 DEF ShadowReading
    <3> QED BY <1>4, <3>1, <3>2 DEF OwnPlan
  <2>2. batch'.stopped = batch.stopped
    BY <1>4, FlushBatchEffect, ClearEffect DEF OwnPlan, ShadowReading, FlushBatch
  <2> QED BY <1>4, <2>1, <2>2 DEF OwnPlan, TypeOK, Holders
<1>5. CASE OwnCommitFails
  BY <1>5 DEF OwnCommitFails
<1>6. CASE OwnCommitDurable
  BY <1>6 DEF OwnCommitDurable, EndBatch
<1>7. CASE OwnCommitRelaxed
  <2>1. own'.pc = "ended" /\ lock' = "free" /\ gate' = gate /\ client' = client
    BY <1>7 DEF OwnCommitRelaxed, TypeOK
  <2>2. flusher # "flushing" /\ own.reading \in Nat /\ gate = "own" /\ ~batch.stopped
    BY <1>7 DEF OwnCommitRelaxed, Holders, TypeOK
  <2>3. flusher' # "flushing" /\ batch'.stopped = batch.stopped
    <3>1. CASE EndBatch
      BY <2>2, <3>1, ClearEffect DEF EndBatch
    <3>2. CASE ContinueBatch
      BY <2>2, <3>2 DEF ContinueBatch
    <3>3. CASE StartBatch(own.reading)
      BY <2>2, <3>3, StartBatchEffect
    <3> QED BY <1>7, <3>1, <3>2, <3>3 DEF OwnCommitRelaxed
  <2> QED BY <2>1, <2>2, <2>3 DEF Holders, TypeOK
<1>8. CASE OwnRelease
  BY <1>8 DEF OwnRelease
<1>9. CASE CapFlush
  BY <1>9 DEF CapFlush, FlushPending
<1>10. ASSUME NEW r \in BOOLEAN, ClientGate(r) PROVE Holders'
  BY <1>10 DEF ClientGate
<1>11. CASE ClientBegin
  BY <1>11 DEF ClientBegin, FlushBatch, FlushPending, ShadowReading
<1>12. CASE ClientCommit
  <2>1. /\ client.pc = "begun" /\ client'.pc \in {"full", "ended"}
        /\ UNCHANGED <<own, lock, gate, capFlush>>
    BY <1>12 DEF ClientCommit, TypeOK
  <2>2. /\ flusher # "flushing" /\ gate = "client" /\ own.pc = "idle"
        /\ ~batch.stopped /\ now \in Nat
    BY <1>12 DEF ClientCommit, Holders, TypeOK
  <2>3. flusher' # "flushing" /\ batch'.stopped = batch.stopped
    <3>1. CASE EndBatch
      BY <2>2, <3>1, ClearEffect DEF EndBatch
    <3>2. CASE UNCHANGED <<batch, flusher>>
      BY <2>2, <3>2
    <3>3. CASE StartBatch(now)
      BY <2>2, <3>3, StartBatchEffect
    <3> QED BY <1>12, <3>1, <3>2, <3>3 DEF ClientCommit, ContinueBatch
  <2> QED BY <2>1, <2>2, <2>3 DEF Holders, TypeOK
<1>13. CASE ClientCapFlush
  BY <1>13 DEF ClientCapFlush, FlushPending
<1>14. CASE ClientRelease
  BY <1>14 DEF ClientRelease
<1>15. CASE FlusherStops
  BY <1>15 DEF FlusherStops, AtLoop
<1>16. CASE FlusherParks
  BY <1>16 DEF FlusherParks, AtLoop
<1>17. CASE FlusherWaits
  BY <1>17 DEF FlusherWaits, AtLoop
<1>18. CASE FlusherWakes
  BY <1>18 DEF FlusherWakes
<1>19. CASE FlusherTakes
  BY <1>19 DEF FlusherTakes, AtLoop, Due
<1>20. CASE FlusherFlushes
  BY <1>20 DEF FlusherFlushes, FlushPending
<1>21. CASE Tick
  BY <1>21 DEF Tick
<1>22. CASE Close
  BY <1>22 DEF Close, Notify, FlushPending
<1> QED
  BY <1>1, <1>2, <1>3, <1>4, <1>5, <1>6, <1>7, <1>8, <1>9, <1>10, <1>11, <1>12, <1>13,
     <1>14, <1>15, <1>16, <1>17, <1>18, <1>19, <1>20, <1>21, <1>22
     DEF Next, OwnSteps, FlusherSteps

\* Nobody moves the floor between a plan and its commit.
LEMMA PlanStep ==
    ASSUME TypeOK, Holders, PlannedFloorHolds, Next
    PROVE  PlannedFloorHolds'
<1> USE IdleFlushAssumption DEF TypeOK, Holders, PlannedFloorHolds
<1>1. CASE OwnBegin
  BY <1>1 DEF OwnBegin
<1>2. CASE OwnLock
  BY <1>2 DEF OwnLock
<1>3. CASE OwnAwait
  BY <1>3 DEF OwnAwait
<1>4. CASE OwnPlan
  BY <1>4 DEF OwnPlan, FlushBatch, FlushPending, ShadowReading, Passed
<1>5. CASE OwnCommitFails
  BY <1>5 DEF OwnCommitFails
<1>6. CASE OwnCommitDurable
  BY <1>6 DEF OwnCommitDurable, EndBatch
<1>7. CASE OwnCommitRelaxed
  BY <1>7 DEF OwnCommitRelaxed, EndBatch, ContinueBatch
<1>8. CASE OwnRelease
  BY <1>8 DEF OwnRelease
<1>9. CASE CapFlush
  BY <1>9 DEF CapFlush, FlushPending
<1>10. ASSUME NEW r \in BOOLEAN, ClientGate(r) PROVE PlannedFloorHolds'
  BY <1>10 DEF ClientGate
<1>11. CASE ClientBegin
  BY <1>11 DEF ClientBegin, FlushBatch, FlushPending, ShadowReading
<1>12. CASE ClientCommit
  BY <1>12 DEF ClientCommit, EndBatch, ContinueBatch
<1>13. CASE ClientCapFlush
  BY <1>13 DEF ClientCapFlush, FlushPending
<1>14. CASE ClientRelease
  BY <1>14 DEF ClientRelease
<1>15. CASE FlusherStops
  BY <1>15 DEF FlusherStops, AtLoop
<1>16. CASE FlusherParks
  BY <1>16 DEF FlusherParks, AtLoop
<1>17. CASE FlusherWaits
  BY <1>17 DEF FlusherWaits, AtLoop
<1>18. CASE FlusherWakes
  BY <1>18 DEF FlusherWakes
<1>19. CASE FlusherTakes
  BY <1>19 DEF FlusherTakes, AtLoop, Due
<1>20. CASE FlusherFlushes
  BY <1>20 DEF FlusherFlushes, FlushPending
<1>21. CASE Tick
  BY <1>21 DEF Tick
<1>22. CASE Close
  BY <1>22 DEF Close, Notify, FlushPending
<1> QED
  BY <1>1, <1>2, <1>3, <1>4, <1>5, <1>6, <1>7, <1>8, <1>9, <1>10, <1>11, <1>12, <1>13,
     <1>14, <1>15, <1>16, <1>17, <1>18, <1>19, <1>20, <1>21, <1>22
     DEF Next, OwnSteps, FlusherSteps

\* Every step keeps the deadline's facts.
LEMMA TimedStep ==
    ASSUME TypeOK, TypeOK', Holders, Timed, Next
    PROVE  Timed'
<1> USE IdleFlushAssumption DEF TypeOK, Holders, Timed, Pending, Clear, Passed,
                                NoDeadline, Deadlines, Txids
<1>1. CASE OwnBegin
  BY <1>1 DEF OwnBegin
<1>2. CASE OwnLock
  BY <1>2 DEF OwnLock
<1>3. CASE OwnAwait
  BY <1>3 DEF OwnAwait
<1>4. CASE OwnPlan
  <2> USE <1>4, OwnPlanEffect, ClearEffect
  <2>1. CASE own'.pc = "ended" /\ poisoned' /\ UNCHANGED <<floor, batch, shadow>>
    BY <2>1
  <2>2. CASE /\ own'.pc = "planned" /\ floor' = txid /\ batch' = Clear(batch)
             /\ shadow' = [floor |-> txid, deadline |-> NoDeadline]
    BY <2>2
  <2>3. CASE own'.pc = "planned" /\ ShadowReading /\ ~(Pending /\ Passed(batch, now))
    BY <2>3, ShadowReadingEffect
  <2> QED BY <2>1, <2>2, <2>3
<1>5. CASE OwnCommitFails
  BY <1>5 DEF OwnCommitFails
<1>6. CASE OwnCommitDurable
  BY <1>6 DEF OwnCommitDurable, EndBatch
<1>7. CASE OwnCommitRelaxed
  <2> USE <1>7, OwnCommitRelaxedEffect, ClearEffect
  <2>1. CASE EndBatch /\ capFlush' = "running"
    BY <2>1 DEF EndBatch
  <2>2. CASE EndBatch /\ capFlush' = "none" /\ (floor' = txid' \/ poisoned')
    BY <2>2 DEF EndBatch
  <2>3. CASE capFlush' = "none" /\ UNCHANGED <<floor, poisoned>> /\ Pending /\ ContinueBatch
    BY <2>3 DEF ContinueBatch
  <2>4. CASE /\ capFlush' = "none" /\ UNCHANGED <<floor, poisoned>>
             /\ ~Pending /\ StartBatch(own.reading)
    BY <2>4, StartBatchEffect
  <2> QED BY <2>1, <2>2, <2>3, <2>4 DEF Joins
<1>8. CASE OwnRelease
  BY <1>8 DEF OwnRelease
<1>9. CASE CapFlush
  <2>1. PICK ok \in BOOLEAN : FlushPending(ok) /\ capFlush' = IF ok THEN "done" ELSE "failed"
    BY <1>9 DEF CapFlush
  <2>2. CASE ok
    BY <1>9, <2>1, <2>2, FlushPendingEffect DEF CapFlush
  <2>3. CASE ~ok
    BY <1>9, <2>1, <2>3, FlushPendingEffect DEF CapFlush
  <2> QED BY <2>2, <2>3
<1>10. ASSUME NEW r \in BOOLEAN, ClientGate(r) PROVE Timed'
  BY <1>10 DEF ClientGate
<1>11. CASE ClientBegin
  <2> USE <1>11, ClientBeginEffect, ClearEffect
  <2>1. CASE client'.pc = "ended" /\ UNCHANGED <<floor, batch, shadow>>
    BY <2>1
  <2>2. CASE /\ client'.pc = "begun" /\ floor' = txid /\ batch' = Clear(batch)
             /\ shadow' = [floor |-> txid, deadline |-> NoDeadline]
    BY <2>2
  <2>3. CASE /\ client'.pc = "begun" /\ client'.relaxed /\ ShadowReading
             /\ ~(Pending /\ Passed(batch, now))
    BY <2>3, ShadowReadingEffect
  <2> QED BY <2>1, <2>2, <2>3
<1>12. CASE ClientCommit
  <2> USE <1>12, ClientCommitEffect, ClearEffect
  <2>1. CASE /\ poisoned' /\ client'.pc = "ended"
             /\ UNCHANGED <<txid, floor, batch, flusher, shadow>>
    BY <2>1
  <2>2. CASE /\ ~poisoned /\ txid' = txid + 1 /\ ~client.relaxed
             /\ floor' = txid + 1 /\ client'.pc = "ended" /\ UNCHANGED <<batch, flusher>>
             /\ shadow' = [shadow EXCEPT !.floor = txid + 1]
    BY <2>2
  <2>3. CASE client'.pc = "full" /\ floor' = floor /\ txid' = txid + 1 /\ EndBatch
    BY <2>3 DEF EndBatch
  <2>4. CASE /\ client'.pc = "ended" /\ floor' = floor /\ txid' = txid + 1 /\ ~poisoned
             /\ client.relaxed /\ Pending /\ ContinueBatch
    BY <2>4 DEF ContinueBatch
  <2>5. CASE /\ client'.pc = "ended" /\ floor' = floor /\ txid' = txid + 1 /\ ~poisoned
             /\ client.relaxed /\ ~Pending /\ StartBatch(now)
    BY <2>5, StartBatchEffect
  <2> QED BY <2>1, <2>2, <2>3, <2>4, <2>5 DEF Joins
<1>13. CASE ClientCapFlush
  BY <1>13 DEF ClientCapFlush, FlushPending
<1>14. CASE ClientRelease
  BY <1>14 DEF ClientRelease
<1>15. CASE FlusherStops
  BY <1>15 DEF FlusherStops, AtLoop
<1>16. CASE FlusherParks
  BY <1>16 DEF FlusherParks, AtLoop
<1>17. CASE FlusherWaits
  BY <1>17 DEF FlusherWaits, AtLoop
<1>18. CASE FlusherWakes
  BY <1>18 DEF FlusherWakes
<1>19. CASE FlusherTakes
  BY <1>19 DEF FlusherTakes, AtLoop, Due
<1>20. CASE FlusherFlushes
  BY <1>20 DEF FlusherFlushes, FlushPending
<1>21. CASE Tick
  BY <1>21 DEF Tick
<1>22. CASE Close
  BY <1>22 DEF Close, Notify, FlushPending
<1> QED
  BY <1>1, <1>2, <1>3, <1>4, <1>5, <1>6, <1>7, <1>8, <1>9, <1>10, <1>11, <1>12, <1>13,
     <1>14, <1>15, <1>16, <1>17, <1>18, <1>19, <1>20, <1>21, <1>22
     DEF Next, OwnSteps, FlusherSteps

\* A batch stays timed.
LEMMA PendingStep ==
    ASSUME TypeOK, TypeOK', Holders, Timed, PendingIsTimed, Next
    PROVE  PendingIsTimed'
<1> USE IdleFlushAssumption DEF TypeOK, Holders, Timed, PendingIsTimed, Pending, Passed,
                                NoDeadline, Deadlines, Txids, Clear
<1>1. CASE OwnBegin
  BY <1>1 DEF OwnBegin
<1>2. CASE OwnLock
  BY <1>2 DEF OwnLock
<1>3. CASE OwnAwait
  BY <1>3 DEF OwnAwait
<1>4. CASE OwnPlan
  BY <1>4 DEF OwnPlan, FlushBatch, FlushPending, ShadowReading, Passed
<1>5. CASE OwnCommitFails
  BY <1>5 DEF OwnCommitFails
<1>6. CASE OwnCommitDurable
  BY <1>6 DEF OwnCommitDurable, EndBatch
<1>7. CASE OwnCommitRelaxed
  <2> USE <1>7, OwnCommitRelaxedEffect, ClearEffect
  <2>1. CASE EndBatch /\ capFlush' = "running"
    BY <2>1 DEF EndBatch
  <2>2. CASE EndBatch /\ capFlush' = "none" /\ (floor' = txid' \/ poisoned')
    BY <2>2 DEF EndBatch
  <2>3. CASE capFlush' = "none" /\ UNCHANGED <<floor, poisoned>> /\ Pending /\ ContinueBatch
    BY <2>3 DEF ContinueBatch
  <2>4. CASE /\ capFlush' = "none" /\ UNCHANGED <<floor, poisoned>>
             /\ ~Pending /\ StartBatch(own.reading)
    BY <2>4, StartBatchEffect
  <2> QED BY <2>1, <2>2, <2>3, <2>4 DEF Joins
<1>8. CASE OwnRelease
  BY <1>8 DEF OwnRelease
<1>9. CASE CapFlush
  BY <1>9 DEF CapFlush, FlushPending
<1>10. ASSUME NEW r \in BOOLEAN, ClientGate(r) PROVE PendingIsTimed'
  BY <1>10 DEF ClientGate
<1>11. CASE ClientBegin
  BY <1>11 DEF ClientBegin, FlushBatch, FlushPending, ShadowReading
<1>12. CASE ClientCommit
  <2> USE <1>12, ClientCommitEffect, ClearEffect
  <2>1. CASE /\ poisoned' /\ client'.pc = "ended"
             /\ UNCHANGED <<txid, floor, batch, flusher, shadow>>
    BY <2>1
  <2>2. CASE /\ ~poisoned /\ txid' = txid + 1 /\ ~client.relaxed
             /\ floor' = txid + 1 /\ client'.pc = "ended" /\ UNCHANGED <<batch, flusher>>
             /\ shadow' = [shadow EXCEPT !.floor = txid + 1]
    BY <2>2
  <2>3. CASE client'.pc = "full" /\ floor' = floor /\ txid' = txid + 1 /\ EndBatch
    BY <2>3 DEF EndBatch
  <2>4. CASE /\ client'.pc = "ended" /\ floor' = floor /\ txid' = txid + 1 /\ ~poisoned
             /\ client.relaxed /\ Pending /\ ContinueBatch
    BY <2>4 DEF ContinueBatch
  <2>5. CASE /\ client'.pc = "ended" /\ floor' = floor /\ txid' = txid + 1 /\ ~poisoned
             /\ client.relaxed /\ ~Pending /\ StartBatch(now)
    BY <2>5, StartBatchEffect
  <2> QED BY <2>1, <2>2, <2>3, <2>4, <2>5 DEF Joins
<1>13. CASE ClientCapFlush
  BY <1>13 DEF ClientCapFlush, FlushPending
<1>14. CASE ClientRelease
  BY <1>14 DEF ClientRelease
<1>15. CASE FlusherStops
  BY <1>15 DEF FlusherStops, AtLoop
<1>16. CASE FlusherParks
  BY <1>16 DEF FlusherParks, AtLoop
<1>17. CASE FlusherWaits
  BY <1>17 DEF FlusherWaits, AtLoop
<1>18. CASE FlusherWakes
  BY <1>18 DEF FlusherWakes
<1>19. CASE FlusherTakes
  BY <1>19 DEF FlusherTakes, AtLoop, Due
<1>20. CASE FlusherFlushes
  BY <1>20 DEF FlusherFlushes, FlushPending
<1>21. CASE Tick
  BY <1>21 DEF Tick
<1>22. CASE Close
  BY <1>22 DEF Close, Notify, FlushPending
<1> QED
  BY <1>1, <1>2, <1>3, <1>4, <1>5, <1>6, <1>7, <1>8, <1>9, <1>10, <1>11, <1>12, <1>13,
     <1>14, <1>15, <1>16, <1>17, <1>18, <1>19, <1>20, <1>21, <1>22
     DEF Next, OwnSteps, FlusherSteps

\* The owner without a flusher stays where Mirror says.
LEMMA MirrorStep ==
    ASSUME TypeOK, TypeOK', Holders, Timed, Mirror, Next
    PROVE  Mirror'
<1> USE IdleFlushAssumption DEF TypeOK, Holders, Timed, Mirror, Pending, Passed,
                                NoDeadline, Deadlines, Txids, Clear
<1>1. CASE OwnBegin
  BY <1>1 DEF OwnBegin
<1>2. CASE OwnLock
  BY <1>2 DEF OwnLock
<1>3. CASE OwnAwait
  BY <1>3 DEF OwnAwait
<1>4. CASE OwnPlan
  <2> USE <1>4, OwnPlanEffect, ClearEffect
  <2>1. CASE own'.pc = "ended" /\ poisoned' /\ UNCHANGED <<floor, batch, shadow>>
    BY <2>1
  <2>2. CASE /\ own'.pc = "planned" /\ floor' = txid /\ batch' = Clear(batch)
             /\ shadow' = [floor |-> txid, deadline |-> NoDeadline]
    BY <2>2
  <2>3. CASE own'.pc = "planned" /\ ShadowReading /\ ~(Pending /\ Passed(batch, now))
    BY <2>3, ShadowReadingEffect
  <2> QED BY <2>1, <2>2, <2>3
<1>5. CASE OwnCommitFails
  BY <1>5 DEF OwnCommitFails
<1>6. CASE OwnCommitDurable
  BY <1>6 DEF OwnCommitDurable, EndBatch
<1>7. CASE OwnCommitRelaxed
  <2> USE <1>7, OwnCommitRelaxedEffect, ClearEffect
  <2>1. CASE EndBatch /\ capFlush' = "running"
    BY <2>1 DEF EndBatch
  <2>2. CASE EndBatch /\ capFlush' = "none" /\ (floor' = txid' \/ poisoned')
    BY <2>2 DEF EndBatch
  <2>3. CASE capFlush' = "none" /\ UNCHANGED <<floor, poisoned>> /\ Pending /\ ContinueBatch
    BY <2>3 DEF ContinueBatch
  <2>4. CASE /\ capFlush' = "none" /\ UNCHANGED <<floor, poisoned>>
             /\ ~Pending /\ StartBatch(own.reading)
    BY <2>4, StartBatchEffect
  <2> QED BY <2>1, <2>2, <2>3, <2>4 DEF Joins
<1>8. CASE OwnRelease
  BY <1>8 DEF OwnRelease
<1>9. CASE CapFlush
  <2>1. PICK ok \in BOOLEAN : FlushPending(ok) /\ capFlush' = IF ok THEN "done" ELSE "failed"
    BY <1>9 DEF CapFlush
  <2>2. CASE ok
    BY <1>9, <2>1, <2>2, FlushPendingEffect DEF CapFlush
  <2>3. CASE ~ok
    BY <1>9, <2>1, <2>3, FlushPendingEffect DEF CapFlush
  <2> QED BY <2>2, <2>3
<1>10. ASSUME NEW r \in BOOLEAN, ClientGate(r) PROVE Mirror'
  BY <1>10 DEF ClientGate
<1>11. CASE ClientBegin
  <2> USE <1>11, ClientBeginEffect, ClearEffect
  <2>1. CASE client'.pc = "ended" /\ UNCHANGED <<floor, batch, shadow>>
    BY <2>1
  <2>2. CASE /\ client'.pc = "begun" /\ floor' = txid /\ batch' = Clear(batch)
             /\ shadow' = [floor |-> txid, deadline |-> NoDeadline]
    BY <2>2
  <2>3. CASE /\ client'.pc = "begun" /\ client'.relaxed /\ ShadowReading
             /\ ~(Pending /\ Passed(batch, now))
    BY <2>3, ShadowReadingEffect
  <2> QED BY <2>1, <2>2, <2>3
<1>12. CASE ClientCommit
  <2> USE <1>12, ClientCommitEffect, ClearEffect
  <2>1. CASE /\ poisoned' /\ client'.pc = "ended"
             /\ UNCHANGED <<txid, floor, batch, flusher, shadow>>
    BY <2>1
  <2>2. CASE /\ ~poisoned /\ txid' = txid + 1 /\ ~client.relaxed
             /\ floor' = txid + 1 /\ client'.pc = "ended" /\ UNCHANGED <<batch, flusher>>
             /\ shadow' = [shadow EXCEPT !.floor = txid + 1]
    BY <2>2
  <2>3. CASE client'.pc = "full" /\ floor' = floor /\ txid' = txid + 1 /\ EndBatch
    BY <2>3 DEF EndBatch
  <2>4. CASE /\ client'.pc = "ended" /\ floor' = floor /\ txid' = txid + 1 /\ ~poisoned
             /\ client.relaxed /\ Pending /\ ContinueBatch
    BY <2>4 DEF ContinueBatch
  <2>5. CASE /\ client'.pc = "ended" /\ floor' = floor /\ txid' = txid + 1 /\ ~poisoned
             /\ client.relaxed /\ ~Pending /\ StartBatch(now)
    BY <2>5, StartBatchEffect
  <2> QED BY <2>1, <2>2, <2>3, <2>4, <2>5 DEF Joins
<1>13. CASE ClientCapFlush
  BY <1>13 DEF ClientCapFlush, FlushPending
<1>14. CASE ClientRelease
  BY <1>14 DEF ClientRelease
<1>15. CASE FlusherStops
  BY <1>15 DEF FlusherStops, AtLoop
<1>16. CASE FlusherParks
  BY <1>16 DEF FlusherParks, AtLoop
<1>17. CASE FlusherWaits
  BY <1>17 DEF FlusherWaits, AtLoop
<1>18. CASE FlusherWakes
  BY <1>18 DEF FlusherWakes
<1>19. CASE FlusherTakes
  BY <1>19 DEF FlusherTakes, AtLoop, Due
<1>20. CASE FlusherFlushes
  <2>1. PICK ok \in BOOLEAN : FlushPending(ok)
    BY <1>20 DEF FlusherFlushes, Timed
  <2>2. CASE ok
    BY <1>20, <2>1, <2>2, FlushPendingEffect DEF FlusherFlushes
  <2>3. CASE ~ok
    BY <1>20, <2>1, <2>3, FlushPendingEffect DEF FlusherFlushes
  <2> QED BY <2>2, <2>3
<1>21. CASE Tick
  BY <1>21 DEF Tick
<1>22. CASE Close
  BY <1>22 DEF Close, Notify, FlushPending
<1> QED
  BY <1>1, <1>2, <1>3, <1>4, <1>5, <1>6, <1>7, <1>8, <1>9, <1>10, <1>11, <1>12, <1>13,
     <1>14, <1>15, <1>16, <1>17, <1>18, <1>19, <1>20, <1>21, <1>22
     DEF Next, OwnSteps, FlusherSteps

-----------------------------------------------------------------------------

\* IdleInv holds initially.
LEMMA IdleInit == Init => IdleInv
<1> SUFFICES ASSUME Init PROVE IdleInv
  OBVIOUS
<1>1. TypeOK
  <2>1. NoDeadline \in Deadlines /\ 0 \in Txids /\ 0 \in Nat
    BY IdleFlushAssumption DEF Deadlines, Txids
  <2>2. batch \in Batches /\ shadow \in [floor : Txids, deadline : Deadlines]
    BY <2>1 DEF Init, Batches
  <2>3. relaxed \in BOOLEAN /\ poisoned \in BOOLEAN
    BY Zenon DEF Init
  <2>4. floor \in 0 .. txid
    BY DEF Init
  <2> QED BY <2>1, <2>2, <2>3, <2>4 DEF Init, TypeOK, Batches
<1>2. Holders /\ PlannedFloorHolds
  BY DEF Init, Holders, PlannedFloorHolds
<1>3. Timed /\ PendingIsTimed
  BY IdleFlushAssumption DEF Init, Timed, PendingIsTimed, Pending, NoDeadline
<1>4. Mirror
  BY DEF Init, Mirror
<1> QED BY <1>1, <1>2, <1>3, <1>4 DEF IdleInv

\* And every step keeps it.
LEMMA IdleStep == IdleInv /\ [Next]_vars => IdleInv'
<1>1. ASSUME IdleInv, Next PROVE IdleInv'
  <2>1. TypeOK'
    BY <1>1, TypeStep DEF IdleInv
  <2>2. Holders'
    BY <1>1, HoldersStep DEF IdleInv
  <2>3. PlannedFloorHolds'
    BY <1>1, PlanStep DEF IdleInv
  <2>4. Timed'
    BY <1>1, <2>1, TimedStep DEF IdleInv
  <2>5. PendingIsTimed'
    BY <1>1, <2>1, PendingStep DEF IdleInv
  <2>6. Mirror'
    BY <1>1, <2>1, MirrorStep DEF IdleInv
  <2> QED BY <2>1, <2>2, <2>3, <2>4, <2>5, <2>6 DEF IdleInv
<1>2. ASSUME IdleInv, UNCHANGED vars PROVE IdleInv'
  BY <1>2 DEF vars, IdleInv, TypeOK, Holders, PlannedFloorHolds, Timed, PendingIsTimed,
              Mirror, Pending, Passed
<1> QED BY <1>1, <1>2

\* The invariants together hold in every reachable state.
LEMMA IdleInvariant == Spec => []IdleInv
BY IdleInit, IdleStep, PTL DEF Spec

\* The state of the handle, the batch and its threads keeps its types.
THEOREM IdleFlushTypes == Spec => []TypeOK
<1>1. IdleInv => TypeOK
  BY DEF IdleInv
<1> QED BY <1>1, IdleInvariant, PTL

\* From a plan or a client's grant to the commit, neither the idle flusher nor
\* the cap-flush thread moves the floor (commit_durable, begin_client_batch).
THEOREM PlannedFloorStays == Spec => []PlannedFloorHolds
<1>1. IdleInv => PlannedFloorHolds
  BY DEF IdleInv
<1> QED BY <1>1, IdleInvariant, PTL

\* A batch is pending with a deadline at most an interval ahead, or a thread is
\* about to flush it (DeadlineFlush::after_commit, idle_flush::run).
THEOREM PendingStaysTimed == Spec => []PendingIsTimed
<1>1. IdleInv => PendingIsTimed
  BY DEF IdleInv
<1> QED BY <1>1, IdleInvariant, PTL

\* What a commit plans against does not depend on whether an idle flusher runs
\* (idle_flush::run only flushes what the next reading would flush).
THEOREM FlusherStaysInvisible == Spec => []FlusherInvisible
<1>1. ASSUME IdleInv PROVE FlusherInvisible
  <2>1. CASE own.pc = "planned"
    BY <1>1, <2>1 DEF IdleInv, TypeOK, Holders, Mirror, PlannedFloorHolds, FlusherInvisible
  <2>2. CASE client.pc = "begun"
    BY <1>1, <2>2 DEF IdleInv, TypeOK, Holders, Mirror, PlannedFloorHolds, FlusherInvisible
  <2> QED BY <2>1, <2>2 DEF FlusherInvisible
<1> QED BY <1>1, IdleInvariant, PTL

=============================================================================
