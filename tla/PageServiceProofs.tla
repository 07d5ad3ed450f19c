------------------------- MODULE PageServiceProofs -------------------------
(***************************************************************************)
(* The safety of commits through the page service, for every set of        *)
(* processes and every bound: who may write the file, what an owner's      *)
(* window knows of it, that the file only grows, and, when no relay stands *)
(* between the ends of a connection, that what applications are told of    *)
(* their commits is true.                                                  *)
(***************************************************************************)
EXTENDS PageServiceSteps, FiniteSetTheorems

-----------------------------------------------------------------------------
(* The types. *)

\* ServiceWindow::resolve answers with an outcome.
LEMMA ResolvedIs ==
    ASSUME NEW o, NEW t, NEW i
    PROVE  Resolved(o, t, i) \in {"committed", "failed", "unknown"}
BY DEF Resolved

\* A commit that ends in the step it began is told at once.
LEMMA AppendEffect ==
    ASSUME Types, Len(outcome) < MaxIds, NEW w \in Outcomes, outcome' = Append(outcome, w)
    PROVE  outcome' \in Seq(Outcomes) /\ Len(outcome') = Len(outcome) + 1
        /\ Len(outcome') <= MaxIds
BY PageServiceAssumption DEF Types

\* Every step keeps the types.
LEMMA TypesStep ==
    ASSUME Types, Files, Next
    PROVE  Types'
<1>1. ASSUME NEW p \in Procs, Promote(p) PROVE Types'
  BY <1>1, PromoteEffect DEF LinkTo, OwnerTo, TxnTo, ConnTo, LinkIs, Types, Made
<1>2. ASSUME NEW p \in Procs, StartShutdown(p) PROVE Types'
  <2>1. \A d \in Made' : link'[d].srv \in {"txn", "finishing", "written"}
            => link'[d].base < MaxTxid
    BY <1>2, StartShutdownEffect DEF LinksHung, LinkIs, Types
  <2> QED BY <1>2, <2>1, StartShutdownEffect DEF LinksHung, OwnerTo, TxnTo, ConnTo, Types
<1>3. ASSUME NEW p \in Procs, FinishShutdown(p) PROVE Types'
  BY <1>3, FinishShutdownEffect DEF LinkTo, OwnerTo, TxnTo, ConnTo, LinkIs, Types, Made
<1>4. ASSUME NEW p \in Procs, Crash(p) PROVE Types'
  <2>1. \A d \in Made' : link'[d].srv \in {"txn", "finishing", "written"}
            => link'[d].base < MaxTxid
    BY <1>4, CrashEffect DEF LinksLost, LinkIs, Types
  <2> QED BY <1>4, <2>1, CrashEffect DEF LinksLost, OwnerTo, TxnTo, ConnTo, Types
<1>5. ASSUME NEW p \in Procs, OwnBegin(p) PROVE Types'
  BY <1>5, OwnBeginEffect DEF LinkTo, OwnerTo, TxnTo, ConnTo, LinkIs, Types, Made
<1>6. ASSUME NEW p \in Procs, OwnRollback(p) PROVE Types'
  BY <1>6, OwnRollbackEffect DEF LinkTo, OwnerTo, TxnTo, ConnTo, LinkIs, Types, Made
<1>7. ASSUME NEW p \in Procs, OwnCommit(p) PROVE Types'
  <2>1. outcome' \in Seq(Outcomes) /\ Len(outcome') <= MaxIds
    BY <1>7, AppendEffect, OwnCommitEffect DEF Outcomes
  <2> QED BY <1>7, <2>1, OwnCommitEffect DEF OwnerTo, TxnTo, Types, Made
<1>8. ASSUME NEW p \in Procs, OwnStale(p) PROVE Types'
  <2>1. "failed" \in Outcomes
    BY DEF Outcomes
  <2>2. outcome' \in Seq(Outcomes) /\ Len(outcome') <= MaxIds
    BY <1>8, <2>1, AppendEffect, OwnStaleEffect
  <2> QED BY <1>8, <2>2, OwnStaleEffect DEF TxnTo, Types, Made
<1>9. ASSUME NEW p \in Procs, GiveUp(p) PROVE Types'
  <2>1. PICK what \in Outcomes : Tell(p, what)
    BY <1>9, ResolvedIs DEF GiveUp, Outcomes
  <2> QED BY <1>9, <2>1, TellEffect DEF TxnTo, Types, Made, GiveUp
<1>10. ASSUME NEW p \in Procs, ResolveSelf(p) PROVE Types'
  <2>1. PICK what \in Outcomes : Tell(p, what)
    BY <1>10, ResolvedIs DEF ResolveSelf, Outcomes
  <2> QED BY <1>10, <2>1, TellEffect DEF TxnTo, Types, Made, ResolveSelf
<1>11. ASSUME NEW p \in Procs, Ask(p) PROVE Types'
  BY <1>11, AskEffect DEF LinkTo, OwnerTo, TxnTo, ConnTo, LinkIs, Types, Made
<1>12. ASSUME NEW p \in Procs, Answer(p) PROVE Types'
  <2>1. PICK what \in Outcomes : Tell(p, what)
    BY <1>12, ResolvedIs DEF Answer, Outcomes
  <2> QED BY <1>12, <2>1, TellEffect DEF TxnTo, Types, Made, Answer
<1>13. ASSUME NEW p \in Procs, NEW q \in Procs, Reconnect(p, q) PROVE Types'
  <2>1. \A d \in Made' : link'[d].srv \in {"txn", "finishing", "written"}
            => link'[d].base < MaxTxid
    <3> TAKE d \in Made'
    <3>1. CASE d \in Made
      BY <1>13, <3>1, ReconnectEffect DEF LinkMade, Types
    <3>2. CASE d = Len(link) + 1
      BY <1>13, <3>2, ReconnectEffect DEF LinkMade
    <3>3. d \in Made \cup {Len(link) + 1}
      BY <1>13, ReconnectEffect DEF LinkMade
    <3> QED BY <3>1, <3>2, <3>3
  <2> QED BY <1>13, <2>1, ReconnectEffect DEF LinkMade, ConnTo, Types
<1>14. ASSUME NEW c \in Made, ClientBegin(c) PROVE Types'
  <2>1. \A d \in Made' : link'[d].srv \in {"txn", "finishing", "written"}
            => link'[d].base < MaxTxid
    <3> TAKE d \in Made'
    <3>1. d \in Made
      BY <1>14, ClientBeginEffect DEF LinkTo
    <3>2. CASE d = c
      BY <1>14, <3>1, <3>2, ClientBeginEffect DEF LinkTo, LinkIs, Types
    <3>3. CASE d # c
      BY <1>14, <3>1, <3>3, ClientBeginEffect DEF LinkTo, Types
    <3> QED BY <3>2, <3>3
  <2> QED BY <1>14, <2>1, ClientBeginEffect DEF LinkTo, OwnerTo, TxnTo, Types
<1>15. ASSUME NEW c \in Made, ClientSend(c) PROVE Types'
  <2>1. "none" \in Outcomes
    BY DEF Outcomes
  <2>2. outcome' \in Seq(Outcomes) /\ Len(outcome') <= MaxIds
    BY <1>15, <2>1, AppendEffect, ClientSendEffect
  <2>3. \A d \in Made' : link'[d].srv \in {"txn", "finishing", "written"}
            => link'[d].base < MaxTxid
    <3> TAKE d \in Made'
    <3>1. d \in Made
      BY <1>15, ClientSendEffect DEF LinkTo
    <3>2. CASE d = c
      BY <1>15, <3>1, <3>2, ClientSendEffect DEF LinkTo, LinkIs, Types
    <3>3. CASE d # c
      BY <1>15, <3>1, <3>3, ClientSendEffect DEF LinkTo, Types
    <3> QED BY <3>2, <3>3
  <2> QED BY <1>15, <2>2, <2>3, ClientSendEffect DEF LinkTo, TxnTo, ConnTo, Types
<1>16. ASSUME NEW c \in Made, ClientAbort(c) PROVE Types'
  BY <1>16, ClientAbortEffect DEF LinkTo, OwnerTo, TxnTo, ConnTo, LinkIs, Types, Made
<1>17. ASSUME NEW c \in Made, ClientClose(c) PROVE Types'
  <2>1. link[c].client \in Procs /\ "unknown" \in Outcomes
    BY LinkAt DEF Outcomes
  <2>2. txn' \in [Procs -> Txns] /\ outcome' \in Seq(Outcomes) /\ Len(outcome') <= MaxIds
    BY <1>17, <2>1, TellType, ClientCloseEffect DEF TxnTo, Types
  <2>3. \A d \in Made' : link'[d].srv \in {"txn", "finishing", "written"}
            => link'[d].base < MaxTxid
    <3> TAKE d \in Made'
    <3>1. d \in Made
      BY <1>17, ClientCloseEffect DEF LinkTo
    <3>2. CASE d = c
      BY <1>17, <3>1, <3>2, ClientCloseEffect DEF LinkTo, LinkIs, Types
    <3>3. CASE d # c
      BY <1>17, <3>1, <3>3, ClientCloseEffect DEF LinkTo, Types
    <3> QED BY <3>2, <3>3
  <2> QED BY <1>17, <2>2, <2>3, ClientCloseEffect DEF LinkTo, TxnTo, ConnTo, Types
<1>18. ASSUME NEW c \in Made, Revoke(c) PROVE Types'
  BY <1>18, RevokeEffect DEF LinkTo, OwnerTo, TxnTo, ConnTo, LinkIs, Types, Made
<1>19. ASSUME NEW c \in Made, HangUpIdle(c) PROVE Types'
  BY <1>19, HangUpIdleEffect DEF LinkTo, OwnerTo, TxnTo, ConnTo, LinkIs, Types, Made
<1>20. ASSUME NEW c \in Made, ReadEnd(c) PROVE Types'
  <2>3. \A d \in Made' : link'[d].srv \in {"txn", "finishing", "written"}
            => link'[d].base < MaxTxid
    <3> TAKE d \in Made'
    <3>1. d \in Made
      BY <1>20, ReadEndEffect DEF LinkTo
    <3>2. CASE d = c
      BY <1>20, <3>1, <3>2, ReadEndEffect DEF LinkTo, LinkIs, Types
    <3>3. CASE d # c
      BY <1>20, <3>1, <3>3, ReadEndEffect DEF LinkTo, Types
    <3> QED BY <3>2, <3>3
  <2>1. CASE UNCHANGED <<txn, outcome>>
    BY <1>20, <2>1, <2>3, ReadEndEffect DEF LinkTo, Types
  <2>2. CASE Tell(link[c].client, "failed")
    <3>1. "failed" \in Outcomes /\ link[c].client \in Procs
      BY LinkAt DEF Outcomes
    <3>2. txn' \in [Procs -> Txns] /\ outcome' \in Seq(Outcomes) /\ Len(outcome') = Len(outcome)
      BY <2>2, <3>1, TellType
    <3> QED BY <1>20, <2>3, <3>2, ReadEndEffect DEF LinkTo, Types
  <2> QED BY <1>20, <2>1, <2>2, ReadEndEffect
<1>21. ASSUME NEW c \in Made, CommitDelta(c) PROVE Types'
  BY <1>21, CommitDeltaEffect DEF LinkTo, OwnerTo, TxnTo, ConnTo, LinkIs, Types, Made
<1>22. ASSUME NEW c \in Made, CommitDeltaFails(c) PROVE Types'
  BY <1>22, CommitDeltaFailsEffect DEF FailsTo, LinkTo, OwnerTo, TxnTo, ConnTo, LinkIs, Types, Made
<1>23. ASSUME NEW c \in Made, Publish(c) PROVE Types'
  BY <1>23, PublishEffect DEF LinkTo, OwnerTo, TxnTo, ConnTo, LinkIs, Types, Made
<1>24. ASSUME NEW c \in Made, Ack(c) PROVE Types'
  <2>1. CASE UNCHANGED <<txn, outcome>>
    BY <1>24, <2>1, AckEffect DEF LinkTo, LinkIs, Types
  <2>2. CASE Tell(link[c].client, "committed")
    <3>1. "committed" \in Outcomes /\ link[c].client \in Procs
      BY LinkAt DEF Outcomes
    <3>2. txn' \in [Procs -> Txns] /\ outcome' \in Seq(Outcomes) /\ Len(outcome') = Len(outcome)
      BY <2>2, <3>1, TellType
    <3> QED BY <1>24, <3>2, AckEffect DEF LinkTo, LinkIs, Types, Made
  <2> QED BY <1>24, <2>1, <2>2, AckEffect
<1>25. ASSUME NEW c \in Made, Release(c) PROVE Types'
  BY <1>25, ReleaseEffect DEF LinkTo, OwnerTo, TxnTo, ConnTo, LinkIs, Types, Made
<1>26. ASSUME NEW c \in Made, End(c) PROVE Types'
  BY <1>26, EndEffect DEF LinkTo, OwnerTo, TxnTo, ConnTo, LinkIs, Types, Made
<1>27. ASSUME NEW c \in Made, Break(c) PROVE Types'
  <2>1. link[c].client \in Procs /\ "unknown" \in Outcomes
    BY LinkAt DEF Outcomes
  <2>2. txn' \in [Procs -> Txns] /\ outcome' \in Seq(Outcomes) /\ Len(outcome') <= MaxIds
    BY <1>27, <2>1, TellType, BreakEffect DEF TxnTo, Types
  <2>3. \A d \in Made' : link'[d].srv \in {"txn", "finishing", "written"}
            => link'[d].base < MaxTxid
    <3> TAKE d \in Made'
    <3>1. d \in Made
      BY <1>27, BreakEffect DEF LinkTo
    <3>2. CASE d = c
      BY <1>27, <3>1, <3>2, BreakEffect DEF LinkTo, LinkIs, Types
    <3>3. CASE d # c
      BY <1>27, <3>1, <3>3, BreakEffect DEF LinkTo, Types
    <3> QED BY <3>2, <3>3
  <2> QED BY <1>27, <2>2, <2>3, BreakEffect DEF LinkTo, TxnTo, ConnTo, Types
<1>28. ASSUME NEW c \in Made, ReleaseFails(c) PROVE Types'
  BY <1>28, ReleaseFailsEffect DEF FailsTo, LinkTo, OwnerTo, TxnTo, ConnTo, LinkIs, Types, Made
<1>29. ASSUME NEW c \in Made, StopServing(c) PROVE Types'
  <2>1. \A d \in Made' : link'[d].srv \in {"txn", "finishing", "written"}
            => link'[d].base < MaxTxid
    BY <1>29, StopServingEffect DEF LinksHung, LinkIs, Types
  <2> QED BY <1>29, <2>1, StopServingEffect DEF LinksHung, OwnerTo, TxnTo, ConnTo, Types
<1> QED BY <1>1, <1>2, <1>3, <1>4, <1>5, <1>6, <1>7, <1>8, <1>9, <1>10, <1>11, <1>12,
           <1>13, <1>14, <1>15, <1>16, <1>17, <1>18, <1>19, <1>20, <1>21, <1>22,
           <1>23, <1>24, <1>25, <1>26, <1>27, <1>28, <1>29 DEF Next, Serving, Resolving, Chosen

-----------------------------------------------------------------------------
(* Roles: one owner, and the ends of connections. *)

\* A thread that holds the gate, until maintenance is done.
Active == {"txn", "finishing", "written", "published", "acked", "failing"}
\* An owner that has hung up on every connection.
Closed(q) == \A c \in Made : link[c].owner = q => link[c].hung

\* A process owns exactly while it holds presence; one that does not owns no
\* gate and no commit lock.
OneOwner ==
    \A p \in Procs : /\ Owns(p) <=> presence = p
                     /\ ~Owns(p) => owner[p].gate = Free /\ owner[p].lock = 0
\* Ends of connections: an owner has none, nobody connects to itself, and conn
\* is the one connection that is up.
Ends ==
    /\ \A p \in Procs : Owns(p) => conn[p] = 0
    /\ \A c \in Made : link[c].client # link[c].owner
    /\ \A c \in Made : link[c].up => conn[link[c].client] = c
    /\ \A p \in Procs : conn[p] # 0 => conn[p] \in Made /\ link[conn[p]].client = p
        /\ link[conn[p]].up
\* Threads run under their owner; shutdown and the end of a thread hang up.
Threads ==
    /\ \A c \in Made : link[c].srv # "gone" => Owns(link[c].owner)
    /\ \A c \in Made : link[c].srv = "gone" => link[c].hung
    /\ \A p \in Procs : owner[p].state = "closing" => Closed(p)

\* Every step keeps OneOwner: reelect takes presence before it owns, and
\* shutdown, which joined every thread, gives up both.
LEMMA OneOwnerStep ==
    ASSUME Types, Files, OneOwner, Threads, Next
    PROVE  OneOwner'
<1>0. \A d \in Made : link[d].owner \in Procs /\ link[d].client \in Procs
  BY LinkAt
<1>1. ASSUME NEW p \in Procs, Promote(p) PROVE OneOwner'
  <2>1. NoProc \notin Procs /\ p # NoProc
    BY PageServiceAssumption
  <2> QED BY <1>1, <2>1, PromoteEffect DEF OwnerTo, OwnerIs, OneOwner, Owns
<1>2. ASSUME NEW p \in Procs, StartShutdown(p) PROVE OneOwner'
  BY <1>0, <1>2, StartShutdownEffect DEF LinksHung, LinkIs, OwnerTo, OwnerIs, OneOwner, Owns
<1>3. ASSUME NEW p \in Procs, FinishShutdown(p) PROVE OneOwner'
  <2>1. NoProc \notin Procs /\ p # NoProc
    BY PageServiceAssumption
  <2> QED BY <1>3, <2>1, FinishShutdownEffect DEF OwnerTo, OwnerIs, OneOwner, Owns
<1>4. ASSUME NEW p \in Procs, Crash(p) PROVE OneOwner'
  <2>1. NoProc \notin Procs /\ p # NoProc
    BY PageServiceAssumption
  <2> QED BY <1>4, <2>1, CrashEffect DEF OwnerTo, OwnerIs, OneOwner, Owns
<1>5. ASSUME NEW p \in Procs, OwnBegin(p) PROVE OneOwner'
  BY <1>0, <1>5, OwnBeginEffect DEF OwnerTo, OwnerIs, Made, OneOwner, Owns
<1>6. ASSUME NEW p \in Procs, OwnRollback(p) PROVE OneOwner'
  BY <1>0, <1>6, OwnRollbackEffect DEF OwnerTo, OwnerIs, Made, OneOwner, Owns
<1>7. ASSUME NEW p \in Procs, OwnCommit(p) PROVE OneOwner'
  BY <1>0, <1>7, OwnCommitEffect DEF OwnerTo, OwnerIs, Made, OneOwner, Owns
<1>8. ASSUME NEW p \in Procs, OwnStale(p) PROVE OneOwner'
  BY <1>0, <1>8, OwnStaleEffect DEF Made, OneOwner, Owns
<1>9. ASSUME NEW p \in Procs, GiveUp(p) PROVE OneOwner'
  BY <1>9 DEF Made, OneOwner, Owns, GiveUp
<1>10. ASSUME NEW p \in Procs, ResolveSelf(p) PROVE OneOwner'
  BY <1>10 DEF Made, OneOwner, Owns, ResolveSelf
<1>11. ASSUME NEW p \in Procs, Ask(p) PROVE OneOwner'
  BY <1>0, <1>11, AskEffect DEF Made, OneOwner, Owns
<1>12. ASSUME NEW p \in Procs, Answer(p) PROVE OneOwner'
  BY <1>12 DEF Made, OneOwner, Owns, Answer
<1>13. ASSUME NEW p \in Procs, NEW q \in Procs, Reconnect(p, q) PROVE OneOwner'
  BY <1>0, <1>13, ReconnectEffect DEF LinkMade, ConnTo, OneOwner, Owns
<1>14. ASSUME NEW c \in Made, ClientBegin(c) PROVE OneOwner'
  <2>1. Owns(link[c].owner) /\ link[c].owner \in Procs
    BY <1>0, <1>14, ClientBeginEffect DEF Threads
  <2> QED BY <1>14, <2>1, ClientBeginEffect DEF OwnerTo, OwnerIs, OneOwner, Owns
<1>15. ASSUME NEW c \in Made, ClientSend(c) PROVE OneOwner'
  BY <1>0, <1>15, ClientSendEffect DEF LinkTo, LinkIs, OneOwner, Owns
<1>16. ASSUME NEW c \in Made, ClientAbort(c) PROVE OneOwner'
  <2>1. Owns(link[c].owner) /\ link[c].owner \in Procs
    BY <1>0, <1>16, ClientAbortEffect DEF Threads
  <2> QED BY <1>16, <2>1, ClientAbortEffect DEF OwnerTo, OwnerIs, OneOwner, Owns
<1>17. ASSUME NEW c \in Made, ClientClose(c) PROVE OneOwner'
  BY <1>0, <1>17, ClientCloseEffect DEF LinkTo, LinkIs, ConnTo, OneOwner, Owns
<1>18. ASSUME NEW c \in Made, Revoke(c) PROVE OneOwner'
  <2>1. Owns(link[c].owner) /\ link[c].owner \in Procs
    BY <1>0, <1>18, RevokeEffect DEF Threads
  <2> QED BY <1>18, <2>1, RevokeEffect DEF OwnerTo, OwnerIs, OneOwner, Owns
<1>19. ASSUME NEW c \in Made, HangUpIdle(c) PROVE OneOwner'
  BY <1>0, <1>19, HangUpIdleEffect DEF LinkTo, LinkIs, OneOwner, Owns
<1>20. ASSUME NEW c \in Made, ReadEnd(c) PROVE OneOwner'
  BY <1>0, <1>20, ReadEndEffect DEF LinkTo, LinkIs, OneOwner, Owns
<1>21. ASSUME NEW c \in Made, CommitDelta(c) PROVE OneOwner'
  <2>1. Owns(link[c].owner) /\ link[c].owner \in Procs
    BY <1>0, <1>21, CommitDeltaEffect DEF Threads
  <2> QED BY <1>21, <2>1, CommitDeltaEffect DEF OwnerTo, OwnerIs, OneOwner, Owns
<1>22. ASSUME NEW c \in Made, CommitDeltaFails(c) PROVE OneOwner'
  <2>1. Owns(link[c].owner) /\ link[c].owner \in Procs
    BY <1>0, <1>22, CommitDeltaFailsEffect DEF Threads
  <2> QED BY <1>22, <2>1, CommitDeltaFailsEffect DEF FailsTo, OwnerTo, OwnerIs, OneOwner, Owns
<1>23. ASSUME NEW c \in Made, Publish(c) PROVE OneOwner'
  <2>1. Owns(link[c].owner) /\ link[c].owner \in Procs
    BY <1>0, <1>23, PublishEffect DEF Threads
  <2> QED BY <1>23, <2>1, PublishEffect DEF OwnerTo, OwnerIs, OneOwner, Owns
<1>24. ASSUME NEW c \in Made, Ack(c) PROVE OneOwner'
  BY <1>0, <1>24, AckEffect DEF LinkTo, LinkIs, OneOwner, Owns
<1>25. ASSUME NEW c \in Made, Release(c) PROVE OneOwner'
  <2>1. Owns(link[c].owner) /\ link[c].owner \in Procs
    BY <1>0, <1>25, ReleaseEffect DEF Threads
  <2> QED BY <1>25, <2>1, ReleaseEffect DEF OwnerTo, OwnerIs, OneOwner, Owns
<1>26. ASSUME NEW c \in Made, End(c) PROVE OneOwner'
  <2>1. Owns(link[c].owner) /\ link[c].owner \in Procs
    BY <1>0, <1>26, EndEffect DEF Threads
  <2>2. \A y \in Procs : y # link[c].owner => owner'[y] = owner[y]
    BY <1>26, EndEffect DEF OwnerTo
  <2>3. owner'[link[c].owner].state # "none" /\ presence' = presence
    BY <1>26, <2>1, EndEffect DEF OwnerTo, OwnerIs, Owns
  <2> QED BY <2>1, <2>2, <2>3 DEF OneOwner, Owns
<1>27. ASSUME NEW c \in Made, Break(c) PROVE OneOwner'
  BY <1>0, <1>27, BreakEffect DEF LinkTo, LinkIs, ConnTo, OneOwner, Owns
<1>28. ASSUME NEW c \in Made, ReleaseFails(c) PROVE OneOwner'
  <2>1. Owns(link[c].owner) /\ link[c].owner \in Procs
    BY <1>0, <1>28, ReleaseFailsEffect DEF Threads
  <2> QED BY <1>28, <2>1, ReleaseFailsEffect DEF FailsTo, OwnerTo, OwnerIs, OneOwner, Owns
<1>29. ASSUME NEW c \in Made, StopServing(c) PROVE OneOwner'
  <2>1. Owns(link[c].owner) /\ link[c].owner \in Procs
    BY <1>0, <1>29, StopServingEffect DEF Threads
  <2>2. \A y \in Procs : y # link[c].owner => owner'[y] = owner[y]
    BY <1>29, StopServingEffect DEF OwnerTo
  <2>3. owner'[link[c].owner].state # "none" /\ presence' = presence
    BY <1>29, <2>1, StopServingEffect DEF OwnerTo, OwnerIs, Owns
  <2> QED BY <2>1, <2>2, <2>3 DEF OneOwner, Owns
<1> QED BY <1>1, <1>2, <1>3, <1>4, <1>5, <1>6, <1>7, <1>8, <1>9, <1>10, <1>11, <1>12,
           <1>13, <1>14, <1>15, <1>16, <1>17, <1>18, <1>19, <1>20, <1>21, <1>22,
           <1>23, <1>24, <1>25, <1>26, <1>27, <1>28, <1>29 DEF Next, Serving, Resolving, Chosen

\* Every step keeps Ends: a new connection is made only by a process with
\* none, and break_with and a crash take conn with the end.
LEMMA EndsStep ==
    ASSUME Types, Files, OneOwner, Threads, Ends, Next
    PROVE  Ends'
<1>0. \A d \in Made : link[d].owner \in Procs /\ link[d].client \in Procs
  BY LinkAt
<1>1. ASSUME NEW p \in Procs, Promote(p) PROVE Ends'
  BY <1>0, <1>1, PromoteEffect DEF OwnerTo, OwnerIs, Made, Ends, Owns
<1>2. ASSUME NEW p \in Procs, StartShutdown(p) PROVE Ends'
  BY <1>0, <1>2, StartShutdownEffect DEF LinksHung, LinkIs, OwnerTo, OwnerIs, Ends, Owns
<1>3. ASSUME NEW p \in Procs, FinishShutdown(p) PROVE Ends'
  BY <1>0, <1>3, FinishShutdownEffect DEF OwnerTo, OwnerIs, Made, Ends, Owns
<1>4. ASSUME NEW p \in Procs, Crash(p) PROVE Ends'
  <2>1. Made' = Made
    BY <1>4, CrashEffect DEF LinksLost
  <2>6. ASSUME NEW d \in Made
        PROVE  /\ link'[d].client = link[d].client /\ link'[d].owner = link[d].owner
               /\ link'[d].up => link[d].up
               /\ link[d].owner # p /\ link[d].client = p => ~link'[d].up
               /\ link[d].client # p => (link'[d].up <=> link[d].up)
    <3>1. CASE link[d].owner = p
      <4>1. LinkIs(link[d], link'[d], "gone", 0, 0, FALSE, link[d].up, TRUE)
        BY <1>4, <3>1, CrashEffect DEF LinksLost
      <4> QED BY <3>1, <4>1 DEF LinkIs
    <3>2. CASE link[d].owner # p
      <4>1. LinkIs(link[d], link'[d], link[d].srv, link[d].base, link[d].id, link[d].sent,
                   link[d].up /\ link[d].client # p, link[d].hung)
        BY <1>4, <3>2, CrashEffect DEF LinksLost
      <4> QED BY <3>2, <4>1 DEF LinkIs
    <3> QED BY <3>1, <3>2
  <2>2. conn'[p] = 0 /\ \A y \in Procs : y # p => conn'[y] = conn[y]
    BY <1>4, CrashEffect DEF ConnTo
  <2>3. \A y \in Procs : Owns(y)' => Owns(y)
    BY <1>4, CrashEffect DEF OwnerTo, OwnerIs, Owns
  <2>4. \A d \in Made : link'[d].up => conn'[link'[d].client] = d
    BY <1>0, <2>1, <2>2, <2>6 DEF Ends
  <2>5. \A y \in Procs : conn'[y] # 0 => conn'[y] \in Made /\ link'[conn'[y]].client = y
            /\ link'[conn'[y]].up
    BY <2>1, <2>2, <2>6 DEF Ends
  <2> QED BY <2>1, <2>2, <2>3, <2>4, <2>5, <2>6 DEF Ends
<1>5. ASSUME NEW p \in Procs, OwnBegin(p) PROVE Ends'
  BY <1>0, <1>5, OwnBeginEffect DEF OwnerTo, OwnerIs, Made, Ends, Owns
<1>6. ASSUME NEW p \in Procs, OwnRollback(p) PROVE Ends'
  BY <1>0, <1>6, OwnRollbackEffect DEF OwnerTo, OwnerIs, Made, Ends, Owns
<1>7. ASSUME NEW p \in Procs, OwnCommit(p) PROVE Ends'
  BY <1>0, <1>7, OwnCommitEffect DEF OwnerTo, OwnerIs, Made, Ends, Owns
<1>8. ASSUME NEW p \in Procs, OwnStale(p) PROVE Ends'
  BY <1>0, <1>8, OwnStaleEffect DEF Made, Ends, Owns
<1>9. ASSUME NEW p \in Procs, GiveUp(p) PROVE Ends'
  BY <1>9 DEF Made, Ends, Owns, GiveUp
<1>10. ASSUME NEW p \in Procs, ResolveSelf(p) PROVE Ends'
  BY <1>10 DEF Made, Ends, Owns, ResolveSelf
<1>11. ASSUME NEW p \in Procs, Ask(p) PROVE Ends'
  BY <1>0, <1>11, AskEffect DEF Made, Ends, Owns
<1>12. ASSUME NEW p \in Procs, Answer(p) PROVE Ends'
  BY <1>12 DEF Made, Ends, Owns, Answer
<1>13. ASSUME NEW p \in Procs, NEW q \in Procs, Reconnect(p, q) PROVE Ends'
  <2> DEFINE n == Len(link) + 1
  <2>1. /\ Made' = Made \cup {n} /\ n \notin Made /\ n # 0
        /\ \A d \in Made : link'[d] = link[d]
        /\ link'[n].client = p /\ link'[n].owner = q /\ link'[n].up
    BY <1>13, ReconnectEffect DEF LinkMade, Made, Types
  <2>2. conn'[p] = n /\ conn[p] = 0 /\ \A y \in Procs : y # p => conn'[y] = conn[y]
    BY <1>13, ReconnectEffect DEF ConnTo
  <2>3. (\A y \in Procs : Owns(y)' <=> Owns(y)) /\ ~Owns(p) /\ Owns(q)
    BY <1>13, ReconnectEffect DEF Owns
  <2> HIDE DEF n
  <2>4. \A d \in Made' : link'[d].up => conn'[link'[d].client] = d
    <3>1. \A d \in Made : link'[d].up => link[d].client # p
      BY <2>1, <2>2 DEF Ends, Made
    <3> QED BY <1>0, <2>1, <2>2, <3>1 DEF Ends
  <2>5. \A y \in Procs : conn'[y] # 0 => conn'[y] \in Made' /\ link'[conn'[y]].client = y
            /\ link'[conn'[y]].up
    BY <2>1, <2>2 DEF Ends
  <2> QED BY <2>1, <2>2, <2>3, <2>4, <2>5 DEF Ends
<1>14. ASSUME NEW c \in Made, ClientBegin(c) PROVE Ends'
  BY <1>0, <1>14, ClientBeginEffect DEF LinkTo, LinkIs, OwnerTo, OwnerIs, Ends, Owns
<1>15. ASSUME NEW c \in Made, ClientSend(c) PROVE Ends'
  BY <1>0, <1>15, ClientSendEffect DEF LinkTo, LinkIs, Ends, Owns
<1>16. ASSUME NEW c \in Made, ClientAbort(c) PROVE Ends'
  BY <1>0, <1>16, ClientAbortEffect DEF LinkTo, LinkIs, OwnerTo, OwnerIs, Ends, Owns
<1>17. ASSUME NEW c \in Made, ClientClose(c) PROVE Ends'
  <2>1. /\ Made' = Made /\ link[c].client \in Procs /\ link[c].up /\ ~link'[c].up
        /\ \A d \in Made : link'[d].client = link[d].client /\ link'[d].owner = link[d].owner
        /\ \A d \in Made : d # c => (link'[d].up <=> link[d].up)
    BY <1>17, ClientCloseEffect DEF LinkTo, LinkIs
  <2>2. conn'[link[c].client] = 0 /\ \A p \in Procs : p # link[c].client => conn'[p] = conn[p]
    BY <1>17, ClientCloseEffect DEF ConnTo
  <2>3. \A p \in Procs : Owns(p)' <=> Owns(p)
    BY <1>17, ClientCloseEffect DEF Owns
  <2>4. \A d \in Made : link'[d].up => conn'[link'[d].client] = d
    BY <1>0, <2>1, <2>2 DEF Ends
  <2>5. \A p \in Procs : conn'[p] # 0 => conn'[p] \in Made /\ link'[conn'[p]].client = p
            /\ link'[conn'[p]].up
    BY <2>1, <2>2 DEF Ends
  <2> QED BY <2>1, <2>2, <2>3, <2>4, <2>5 DEF Ends
<1>18. ASSUME NEW c \in Made, Revoke(c) PROVE Ends'
  BY <1>0, <1>18, RevokeEffect DEF LinkTo, LinkIs, OwnerTo, OwnerIs, Ends, Owns
<1>19. ASSUME NEW c \in Made, HangUpIdle(c) PROVE Ends'
  BY <1>0, <1>19, HangUpIdleEffect DEF LinkTo, LinkIs, Ends, Owns
<1>20. ASSUME NEW c \in Made, ReadEnd(c) PROVE Ends'
  BY <1>0, <1>20, ReadEndEffect DEF LinkTo, LinkIs, Ends, Owns
<1>21. ASSUME NEW c \in Made, CommitDelta(c) PROVE Ends'
  BY <1>0, <1>21, CommitDeltaEffect DEF LinkTo, LinkIs, OwnerTo, OwnerIs, Ends, Owns
<1>22. ASSUME NEW c \in Made, CommitDeltaFails(c) PROVE Ends'
  BY <1>0, <1>22, CommitDeltaFailsEffect DEF FailsTo, LinkTo, LinkIs, OwnerTo, OwnerIs, Ends, Owns
<1>23. ASSUME NEW c \in Made, Publish(c) PROVE Ends'
  BY <1>0, <1>23, PublishEffect DEF LinkTo, LinkIs, OwnerTo, OwnerIs, Ends, Owns
<1>24. ASSUME NEW c \in Made, Ack(c) PROVE Ends'
  BY <1>0, <1>24, AckEffect DEF LinkTo, LinkIs, Ends, Owns
<1>25. ASSUME NEW c \in Made, Release(c) PROVE Ends'
  BY <1>0, <1>25, ReleaseEffect DEF LinkTo, LinkIs, OwnerTo, OwnerIs, Ends, Owns
<1>26. ASSUME NEW c \in Made, End(c) PROVE Ends'
  BY <1>0, <1>26, EndEffect DEF LinkTo, LinkIs, OwnerTo, OwnerIs, Ends, Owns
<1>27. ASSUME NEW c \in Made, Break(c) PROVE Ends'
  <2>1. /\ Made' = Made /\ link[c].client \in Procs /\ link[c].up /\ ~link'[c].up
        /\ \A d \in Made : link'[d].client = link[d].client /\ link'[d].owner = link[d].owner
        /\ \A d \in Made : d # c => (link'[d].up <=> link[d].up)
    BY <1>27, BreakEffect DEF LinkTo, LinkIs
  <2>2. conn'[link[c].client] = 0 /\ \A p \in Procs : p # link[c].client => conn'[p] = conn[p]
    BY <1>27, BreakEffect DEF ConnTo
  <2>3. \A p \in Procs : Owns(p)' <=> Owns(p)
    BY <1>27, BreakEffect DEF Owns
  <2>4. \A d \in Made : link'[d].up => conn'[link'[d].client] = d
    BY <1>0, <2>1, <2>2 DEF Ends
  <2>5. \A p \in Procs : conn'[p] # 0 => conn'[p] \in Made /\ link'[conn'[p]].client = p
            /\ link'[conn'[p]].up
    BY <2>1, <2>2 DEF Ends
  <2> QED BY <2>1, <2>2, <2>3, <2>4, <2>5 DEF Ends
<1>28. ASSUME NEW c \in Made, ReleaseFails(c) PROVE Ends'
  BY <1>0, <1>28, ReleaseFailsEffect DEF FailsTo, LinkTo, LinkIs, OwnerTo, OwnerIs, Ends, Owns
<1>29. ASSUME NEW c \in Made, StopServing(c) PROVE Ends'
  BY <1>0, <1>29, StopServingEffect DEF LinksHung, LinkIs, OwnerTo, OwnerIs, Ends, Owns
<1> QED BY <1>1, <1>2, <1>3, <1>4, <1>5, <1>6, <1>7, <1>8, <1>9, <1>10, <1>11, <1>12,
           <1>13, <1>14, <1>15, <1>16, <1>17, <1>18, <1>19, <1>20, <1>21, <1>22,
           <1>23, <1>24, <1>25, <1>26, <1>27, <1>28, <1>29 DEF Next, Serving, Resolving, Chosen

\* Every step keeps Threads: an owner that joins its threads leaves none
\* behind.
LEMMA ThreadsStep ==
    ASSUME Types, Files, OneOwner, Threads, Ends, Next
    PROVE  Threads'
<1>0. \A d \in Made : link[d].owner \in Procs /\ link[d].client \in Procs
  BY LinkAt
<1>1. ASSUME NEW p \in Procs, Promote(p) PROVE Threads'
  BY <1>0, <1>1, PromoteEffect DEF OwnerTo, OwnerIs, Made, Threads, Closed, Owns
<1>2. ASSUME NEW p \in Procs, StartShutdown(p) PROVE Threads'
  BY <1>0, <1>2, StartShutdownEffect DEF LinksHung, LinkIs, OwnerTo, OwnerIs, Threads, Closed,
       Owns
<1>3. ASSUME NEW p \in Procs, FinishShutdown(p) PROVE Threads'
  BY <1>0, <1>3, FinishShutdownEffect DEF OwnerTo, OwnerIs, Made, Threads, Closed, Owns
<1>4. ASSUME NEW p \in Procs, Crash(p) PROVE Threads'
  <2>1. /\ Made' = Made
        /\ \A d \in Made : link'[d].owner = link[d].owner
        /\ \A d \in Made : link[d].owner = p => link'[d].srv = "gone" /\ link'[d].hung
    BY <1>4, CrashEffect DEF LinksLost, LinkIs
  <2>4. \A d \in Made : link[d].owner # p => link'[d].srv = link[d].srv
    BY <1>4, CrashEffect DEF LinksLost, LinkIs
  <2>5. \A d \in Made : link[d].owner # p => (link'[d].hung <=> link[d].hung)
    BY <1>4, CrashEffect DEF LinksLost, LinkIs
  <2>2. \A y \in Procs : y # p => owner'[y] = owner[y]
    BY <1>4, CrashEffect DEF OwnerTo
  <2>3. owner'[p].state = "none"
    BY <1>4, CrashEffect DEF OwnerTo, OwnerIs
  <2> QED BY <1>0, <2>1, <2>2, <2>3, <2>4, <2>5 DEF Threads, Closed, Owns
<1>5. ASSUME NEW p \in Procs, OwnBegin(p) PROVE Threads'
  BY <1>0, <1>5, OwnBeginEffect DEF OwnerTo, OwnerIs, Made, Threads, Closed, Owns
<1>6. ASSUME NEW p \in Procs, OwnRollback(p) PROVE Threads'
  BY <1>0, <1>6, OwnRollbackEffect DEF OwnerTo, OwnerIs, Made, Threads, Closed, Owns
<1>7. ASSUME NEW p \in Procs, OwnCommit(p) PROVE Threads'
  BY <1>0, <1>7, OwnCommitEffect DEF OwnerTo, OwnerIs, Made, Threads, Closed, Owns
<1>8. ASSUME NEW p \in Procs, OwnStale(p) PROVE Threads'
  BY <1>0, <1>8, OwnStaleEffect DEF Made, Threads, Closed, Owns
<1>9. ASSUME NEW p \in Procs, GiveUp(p) PROVE Threads'
  BY <1>9 DEF Made, Threads, Closed, Owns, GiveUp
<1>10. ASSUME NEW p \in Procs, ResolveSelf(p) PROVE Threads'
  BY <1>10 DEF Made, Threads, Closed, Owns, ResolveSelf
<1>11. ASSUME NEW p \in Procs, Ask(p) PROVE Threads'
  BY <1>0, <1>11, AskEffect DEF Made, Threads, Closed, Owns
<1>12. ASSUME NEW p \in Procs, Answer(p) PROVE Threads'
  BY <1>12 DEF Made, Threads, Closed, Owns, Answer
<1>13. ASSUME NEW p \in Procs, NEW q \in Procs, Reconnect(p, q) PROVE Threads'
  BY <1>0, <1>13, ReconnectEffect DEF LinkMade, ConnTo, Threads, Closed, Owns
<1>14. ASSUME NEW c \in Made, ClientBegin(c) PROVE Threads'
  BY <1>0, <1>14, ClientBeginEffect DEF LinkTo, LinkIs, OwnerTo, OwnerIs, Threads, Closed, Owns
<1>15. ASSUME NEW c \in Made, ClientSend(c) PROVE Threads'
  BY <1>0, <1>15, ClientSendEffect DEF LinkTo, LinkIs, Threads, Closed, Owns
<1>16. ASSUME NEW c \in Made, ClientAbort(c) PROVE Threads'
  BY <1>0, <1>16, ClientAbortEffect DEF LinkTo, LinkIs, OwnerTo, OwnerIs, Threads, Closed, Owns
<1>17. ASSUME NEW c \in Made, ClientClose(c) PROVE Threads'
  BY <1>0, <1>17, ClientCloseEffect DEF LinkTo, LinkIs, ConnTo, Threads, Closed, Owns
<1>18. ASSUME NEW c \in Made, Revoke(c) PROVE Threads'
  BY <1>0, <1>18, RevokeEffect DEF LinkTo, LinkIs, OwnerTo, OwnerIs, Threads, Closed, Owns
<1>19. ASSUME NEW c \in Made, HangUpIdle(c) PROVE Threads'
  BY <1>0, <1>19, HangUpIdleEffect DEF LinkTo, LinkIs, Threads, Closed, Owns
<1>20. ASSUME NEW c \in Made, ReadEnd(c) PROVE Threads'
  BY <1>0, <1>20, ReadEndEffect DEF LinkTo, LinkIs, Threads, Closed, Owns
<1>21. ASSUME NEW c \in Made, CommitDelta(c) PROVE Threads'
  BY <1>0, <1>21, CommitDeltaEffect DEF LinkTo, LinkIs, OwnerTo, OwnerIs, Threads, Closed, Owns
<1>22. ASSUME NEW c \in Made, CommitDeltaFails(c) PROVE Threads'
  BY <1>0, <1>22, CommitDeltaFailsEffect DEF FailsTo, LinkTo, LinkIs, OwnerTo, OwnerIs, Threads, Closed, Owns
<1>23. ASSUME NEW c \in Made, Publish(c) PROVE Threads'
  BY <1>0, <1>23, PublishEffect DEF LinkTo, LinkIs, OwnerTo, OwnerIs, Threads, Closed, Owns
<1>24. ASSUME NEW c \in Made, Ack(c) PROVE Threads'
  BY <1>0, <1>24, AckEffect DEF LinkTo, LinkIs, Threads, Closed, Owns
<1>25. ASSUME NEW c \in Made, Release(c) PROVE Threads'
  BY <1>0, <1>25, ReleaseEffect DEF LinkTo, LinkIs, OwnerTo, OwnerIs, Threads, Closed, Owns
<1>26. ASSUME NEW c \in Made, End(c) PROVE Threads'
  BY <1>0, <1>26, EndEffect DEF LinkTo, LinkIs, OwnerTo, OwnerIs, Threads, Closed, Owns
<1>27. ASSUME NEW c \in Made, Break(c) PROVE Threads'
  BY <1>0, <1>27, BreakEffect DEF LinkTo, LinkIs, ConnTo, Threads, Closed, Owns
<1>28. ASSUME NEW c \in Made, ReleaseFails(c) PROVE Threads'
  BY <1>0, <1>28, ReleaseFailsEffect DEF FailsTo, LinkTo, LinkIs, OwnerTo, OwnerIs, Threads, Closed, Owns
<1>29. ASSUME NEW c \in Made, StopServing(c) PROVE Threads'
  BY <1>0, <1>29, StopServingEffect DEF LinksHung, LinkIs, OwnerTo, OwnerIs, Threads,
       Closed, Owns
<1> QED BY <1>1, <1>2, <1>3, <1>4, <1>5, <1>6, <1>7, <1>8, <1>9, <1>10, <1>11, <1>12,
           <1>13, <1>14, <1>15, <1>16, <1>17, <1>18, <1>19, <1>20, <1>21, <1>22,
           <1>23, <1>24, <1>25, <1>26, <1>27, <1>28, <1>29 DEF Next, Serving, Resolving, Chosen

-----------------------------------------------------------------------------
(* The gate and the commit lock. *)

\* The gate is held by exactly the thread with an open transaction, or by the
\* owner's own writer; the commit lock by exactly the thread that has written
\* and not published.
Gates ==
    /\ \A p \in Procs : owner[p].gate \in {Free, Own} \cup Made
    /\ \A c \in Made : link[c].srv \in Active <=> owner[link[c].owner].gate = c
    /\ \A p \in Procs : owner[p].gate = Own <=> txn[p].pc = "own"
    /\ \A p \in Procs : owner[p].gate \in Made => link[owner[p].gate].owner = p
    /\ \A p \in Procs : owner[p].lock # 0 => /\ owner[p].lock \in Made
                                             /\ link[owner[p].lock].srv = "written"
                                             /\ link[owner[p].lock].owner = p
    /\ \A c \in Made : link[c].srv = "written" => owner[link[c].owner].lock = c

\* A process with a connection has no transaction of its own as the owner.
LEMMA NoOwnAtClient ==
    ASSUME Types, OneOwner, Ends, Gates, NEW c \in Made, link[c].up
    PROVE  txn[link[c].client].pc # "own"
<1>1. link[c].client \in Procs
  BY LinkAt
<1>2. c # 0 /\ Own # Free
  BY DEF Made, Own, Free
<1>3. conn[link[c].client] # 0
  BY <1>2 DEF Ends
<1>4. ~Owns(link[c].client)
  BY <1>1, <1>3 DEF Ends
<1> QED BY <1>1, <1>2, <1>4 DEF OneOwner, Gates

\* Every step keeps Gates: begin takes a free gate, and commit, abort,
\* rollback, revocation, failure and the end of a connection each give it back
\* with the transaction.
LEMMA GatesStep ==
    ASSUME Types, Files, OneOwner, Threads, Ends, Gates, Next
    PROVE  Gates'
<1>0. \A d \in Made : link[d].owner \in Procs /\ link[d].client \in Procs
  BY LinkAt
<1>00. Own \notin Made /\ Free \notin Made /\ 0 \notin Made /\ Own # Free
  BY DEF Made, Own, Free
<1>1. ASSUME NEW p \in Procs, Promote(p) PROVE Gates'
  <2>1. link' = link /\ Made' = Made /\ txn' = txn
    BY <1>1, PromoteEffect DEF Made
  <2>2. /\ owner'[p].gate = Free /\ owner'[p].lock = 0
        /\ \A y \in Procs : y # p => owner'[y] = owner[y]
    BY <1>1, PromoteEffect DEF OwnerTo, OwnerIs
  <2>3. owner[p].gate = Free /\ owner[p].lock = 0
    BY <1>1, PromoteEffect DEF OneOwner
  <2> QED BY <1>0, <1>00, <2>1, <2>2, <2>3 DEF Gates, Active
<1>2. ASSUME NEW p \in Procs, StartShutdown(p) PROVE Gates'
  <2>1. /\ Made' = Made /\ txn' = txn
        /\ \A d \in Made : link'[d].owner = link[d].owner /\ link'[d].srv = link[d].srv
    BY <1>2, StartShutdownEffect DEF LinksHung, LinkIs
  <2>2. \A y \in Procs : owner'[y].gate = owner[y].gate /\ owner'[y].lock = owner[y].lock
    BY <1>2, StartShutdownEffect DEF OwnerTo, OwnerIs
  <2> QED BY <1>0, <2>1, <2>2 DEF Gates
<1>3. ASSUME NEW p \in Procs, FinishShutdown(p) PROVE Gates'
  <2>1. link' = link /\ Made' = Made
    BY <1>3, FinishShutdownEffect DEF Made
  <2>2. /\ owner'[p].gate = Free /\ owner'[p].lock = 0
        /\ \A y \in Procs : y # p => owner'[y] = owner[y]
    BY <1>3, FinishShutdownEffect DEF OwnerTo, OwnerIs
  <2>3. /\ (txn'[p].pc = "own" <=> FALSE)
        /\ \A y \in Procs : y # p => txn'[y] = txn[y]
    BY <1>3, FinishShutdownEffect DEF TxnTo, TxnIs
  <2>4. \A d \in Made : link[d].owner = p => link[d].srv = "gone"
    BY <1>3, FinishShutdownEffect
  <2> QED BY <1>0, <1>00, <2>1, <2>2, <2>3, <2>4 DEF Gates, Active
<1>4. ASSUME NEW p \in Procs, Crash(p) PROVE Gates'
  <2>1. /\ Made' = Made
        /\ \A d \in Made : link'[d].owner = link[d].owner
        /\ \A d \in Made : link[d].owner = p => link'[d].srv = "gone"
        /\ \A d \in Made : link[d].owner # p => link'[d].srv = link[d].srv
    BY <1>4, CrashEffect DEF LinksLost, LinkIs
  <2>2. /\ owner'[p].gate = Free /\ owner'[p].lock = 0
        /\ \A y \in Procs : y # p => owner'[y] = owner[y]
    BY <1>4, CrashEffect DEF OwnerTo, OwnerIs
  <2>3. /\ txn'[p].pc = "idle"
        /\ \A y \in Procs : y # p => txn'[y] = txn[y]
    BY <1>4, CrashEffect DEF TxnTo, TxnIs
  <2> QED BY <1>0, <1>00, <2>1, <2>2, <2>3 DEF Gates, Active
<1>5. ASSUME NEW p \in Procs, OwnBegin(p) PROVE Gates'
  <2>1. link' = link /\ Made' = Made
    BY <1>5, OwnBeginEffect DEF Made
  <2>2. /\ owner'[p].gate = Own /\ owner'[p].lock = owner[p].lock
        /\ \A y \in Procs : y # p => owner'[y] = owner[y]
    BY <1>5, OwnBeginEffect DEF OwnerTo, OwnerIs
  <2>3. /\ (txn'[p].pc = "own" <=> TRUE)
        /\ \A y \in Procs : y # p => txn'[y] = txn[y]
    BY <1>5, OwnBeginEffect DEF TxnTo, TxnIs
  <2>4. owner[p].gate = Free /\ txn[p].pc = "idle"
    BY <1>5, OwnBeginEffect
  <2> QED BY <1>0, <1>00, <2>1, <2>2, <2>3, <2>4 DEF Gates, Active
<1>6. ASSUME NEW p \in Procs, OwnRollback(p) PROVE Gates'
  <2>1. link' = link /\ Made' = Made
    BY <1>6, OwnRollbackEffect DEF Made
  <2>2. /\ (txn[p].pc = "own" => owner'[p].gate = Free) /\ (txn[p].pc # "own"
            => owner'[p].gate = owner[p].gate) /\ owner'[p].lock = owner[p].lock
        /\ \A y \in Procs : y # p => owner'[y] = owner[y]
    BY <1>6, OwnRollbackEffect DEF OwnerTo, OwnerIs
  <2>3. /\ (txn'[p].pc = "own" <=> FALSE)
        /\ \A y \in Procs : y # p => txn'[y] = txn[y]
    BY <1>6, OwnRollbackEffect DEF TxnTo, TxnIs
  <2>4. txn[p].pc \in {"own", "stale"}
    BY <1>6, OwnRollbackEffect
  <2> QED BY <1>0, <1>00, <2>1, <2>2, <2>3, <2>4 DEF Gates, Active
<1>7. ASSUME NEW p \in Procs, OwnCommit(p) PROVE Gates'
  <2>1. link' = link /\ Made' = Made
    BY <1>7, OwnCommitEffect DEF Made
  <2>2. /\ owner'[p].gate = Free /\ owner'[p].lock = owner[p].lock
        /\ \A y \in Procs : y # p => owner'[y] = owner[y]
    BY <1>7, OwnCommitEffect DEF OwnerTo, OwnerIs
  <2>3. /\ (txn'[p].pc = "own" <=> FALSE)
        /\ \A y \in Procs : y # p => txn'[y] = txn[y]
    BY <1>7, OwnCommitEffect DEF TxnTo, TxnIs
  <2>4. txn[p].pc = "own"
    BY <1>7, OwnCommitEffect
  <2> QED BY <1>0, <1>00, <2>1, <2>2, <2>3, <2>4 DEF Gates, Active
<1>8. ASSUME NEW p \in Procs, OwnStale(p) PROVE Gates'
  <2>1. link' = link /\ Made' = Made /\ owner' = owner
    BY <1>8, OwnStaleEffect DEF Made
  <2>2. \A y \in Procs : txn'[y].pc = "own" <=> txn[y].pc = "own"
    BY <1>8, OwnStaleEffect DEF TxnTo, TxnIs
  <2> QED BY <2>1, <2>2 DEF Gates
<1>9. ASSUME NEW p \in Procs, GiveUp(p) PROVE Gates'
  <2>1. link' = link /\ Made' = Made /\ owner' = owner
    BY <1>9 DEF GiveUp, Made
  <2>2. txn[p].pc # "own" /\ TxnTo(p, "idle", 0, 0)
    BY <1>9, ResolvedIs, TellEffect DEF GiveUp, Outcomes
  <2> QED BY <2>1, <2>2 DEF Gates, TxnTo, TxnIs
<1>10. ASSUME NEW p \in Procs, ResolveSelf(p) PROVE Gates'
  <2>1. link' = link /\ Made' = Made /\ owner' = owner
    BY <1>10 DEF ResolveSelf, Made
  <2>2. txn[p].pc # "own" /\ TxnTo(p, "idle", 0, 0)
    BY <1>10, ResolvedIs, TellEffect DEF ResolveSelf, Outcomes
  <2> QED BY <2>1, <2>2 DEF Gates, TxnTo, TxnIs
<1>11. ASSUME NEW p \in Procs, Ask(p) PROVE Gates'
  <2>1. link' = link /\ Made' = Made /\ owner' = owner
    BY <1>11, AskEffect DEF Made
  <2>2. \A y \in Procs : txn'[y].pc = "own" <=> txn[y].pc = "own"
    BY <1>11, AskEffect DEF TxnTo, TxnIs
  <2> QED BY <2>1, <2>2 DEF Gates
<1>12. ASSUME NEW p \in Procs, Answer(p) PROVE Gates'
  <2>1. link' = link /\ Made' = Made /\ owner' = owner
    BY <1>12 DEF Answer, Made
  <2>2. txn[p].pc # "own" /\ TxnTo(p, "idle", 0, 0)
    BY <1>12, ResolvedIs, TellEffect DEF Answer, Outcomes
  <2> QED BY <2>1, <2>2 DEF Gates, TxnTo, TxnIs
<1>13. ASSUME NEW p \in Procs, NEW q \in Procs, Reconnect(p, q) PROVE Gates'
  <2> DEFINE n == Len(link) + 1
  <2>1. /\ Made' = Made \cup {n} /\ n \notin Made /\ n # 0 /\ n # Own
        /\ \A d \in Made : link'[d] = link[d]
        /\ link'[n].owner = q /\ link'[n].srv = "idle"
    BY <1>13, ReconnectEffect DEF LinkMade, Made, Types, Own
  <2>2. owner' = owner /\ txn' = txn
    BY <1>13, ReconnectEffect
  <2> HIDE DEF n
  <2>3. \A y \in Procs : owner'[y].gate # n /\ owner'[y].lock # n
    BY <1>00, <2>1, <2>2 DEF Gates, Free
  <2> QED BY <1>0, <1>00, <2>1, <2>2, <2>3 DEF Gates, Active
<1>14. ASSUME NEW c \in Made, ClientBegin(c) PROVE Gates'
  <2>1. /\ Made' = Made /\ link'[c].srv = "txn" /\ link[c].owner \in Procs
        /\ link[c].client \in Procs
        /\ \A d \in Made : link'[d].owner = link[d].owner
        /\ \A d \in Made : d # c => link'[d].srv = link[d].srv
    BY <1>14, ClientBeginEffect DEF LinkTo, LinkIs
  <2>2. /\ owner'[link[c].owner].gate = c
        /\ owner'[link[c].owner].lock = owner[link[c].owner].lock
        /\ \A y \in Procs : y # link[c].owner => owner'[y] = owner[y]
    BY <1>14, ClientBeginEffect DEF OwnerTo, OwnerIs
  <2>3. \A y \in Procs : txn'[y].pc = "own" <=> txn[y].pc = "own"
    BY <1>14, <2>1, ClientBeginEffect DEF TxnTo, TxnIs
  <2>4. link[c].srv = "idle" /\ owner[link[c].owner].gate = Free
    BY <1>14, ClientBeginEffect
  <2> QED BY <1>0, <1>00, <2>1, <2>2, <2>3, <2>4 DEF Gates, Active
<1>15. ASSUME NEW c \in Made, ClientSend(c) PROVE Gates'
  <2>1. /\ Made' = Made /\ link'[c].srv = link[c].srv /\ link[c].owner \in Procs
        /\ link[c].client \in Procs
        /\ \A d \in Made : link'[d].owner = link[d].owner
        /\ \A d \in Made : d # c => link'[d].srv = link[d].srv
    BY <1>15, ClientSendEffect DEF LinkTo, LinkIs
  <2>2. owner' = owner
    BY <1>15, ClientSendEffect
  <2>3. \A y \in Procs : txn'[y].pc = "own" <=> txn[y].pc = "own"
    BY <1>15, <2>1, ClientSendEffect DEF TxnTo, TxnIs
  <2> QED BY <1>0, <1>00, <2>1, <2>2, <2>3 DEF Gates, Active
<1>16. ASSUME NEW c \in Made, ClientAbort(c) PROVE Gates'
  <2>1. /\ Made' = Made /\ link'[c].srv = "idle" /\ link[c].owner \in Procs
        /\ link[c].client \in Procs
        /\ \A d \in Made : link'[d].owner = link[d].owner
        /\ \A d \in Made : d # c => link'[d].srv = link[d].srv
    BY <1>16, ClientAbortEffect DEF LinkTo, LinkIs
  <2>2. /\ (link[c].srv = "txn" => owner'[link[c].owner].gate = Free) /\ (link[c].srv # "txn"
            => owner'[link[c].owner].gate = owner[link[c].owner].gate)
                /\ owner'[link[c].owner].lock = owner[link[c].owner].lock
        /\ \A y \in Procs : y # link[c].owner => owner'[y] = owner[y]
    BY <1>16, ClientAbortEffect DEF OwnerTo, OwnerIs
  <2>3. \A y \in Procs : txn'[y].pc = "own" <=> txn[y].pc = "own"
    BY <1>16, <2>1, ClientAbortEffect DEF TxnTo, TxnIs
  <2>4. link[c].srv \in {"txn", "revoked"}
    BY <1>16, ClientAbortEffect
  <2>5. CASE link[c].srv = "txn"
    BY <1>0, <1>00, <2>1, <2>2, <2>3, <2>5 DEF Gates, Active
  <2>6. CASE link[c].srv # "txn"
    <3>1. \A y \in Procs : owner'[y].gate = owner[y].gate /\ owner'[y].lock = owner[y].lock
      BY <2>1, <2>2, <2>6
    <3> QED BY <1>0, <2>1, <2>3, <2>4, <2>6, <3>1 DEF Gates, Active
  <2> QED BY <2>5, <2>6
<1>17. ASSUME NEW c \in Made, ClientClose(c) PROVE Gates'
  <2>1. /\ Made' = Made /\ link'[c].srv = link[c].srv /\ link[c].owner \in Procs
        /\ link[c].client \in Procs
        /\ \A d \in Made : link'[d].owner = link[d].owner
        /\ \A d \in Made : d # c => link'[d].srv = link[d].srv
    BY <1>17, ClientCloseEffect DEF LinkTo, LinkIs
  <2>2. owner' = owner
    BY <1>17, ClientCloseEffect
  <2>3. \A y \in Procs : txn'[y].pc = "own" <=> txn[y].pc = "own"
    <3>1. CASE txn' = txn
      BY <3>1
    <3>2. CASE txn' # txn
      <4>1. link[c].up /\ \E s \in {"idle", "lost"} : \E i, b : TxnTo(link[c].client, s, i, b)
        BY <1>17, <2>1, <3>2, ClientCloseEffect, TellEffect DEF Outcomes
      <4>2. txn[link[c].client].pc # "own"
        BY <4>1, NoOwnAtClient
      <4> QED BY <4>1, <4>2 DEF TxnTo, TxnIs
    <3> QED BY <3>1, <3>2
  <2> QED BY <1>0, <1>00, <2>1, <2>2, <2>3 DEF Gates, Active
<1>18. ASSUME NEW c \in Made, Revoke(c) PROVE Gates'
  <2>1. /\ Made' = Made /\ link'[c].srv = "revoked" /\ link[c].owner \in Procs
        /\ link[c].client \in Procs
        /\ \A d \in Made : link'[d].owner = link[d].owner
        /\ \A d \in Made : d # c => link'[d].srv = link[d].srv
    BY <1>18, RevokeEffect DEF LinkTo, LinkIs
  <2>2. /\ owner'[link[c].owner].gate = Free
        /\ owner'[link[c].owner].lock = owner[link[c].owner].lock
        /\ \A y \in Procs : y # link[c].owner => owner'[y] = owner[y]
    BY <1>18, RevokeEffect DEF OwnerTo, OwnerIs
  <2>3. txn' = txn
    BY <1>18, RevokeEffect
  <2>4. link[c].srv = "txn"
    BY <1>18, RevokeEffect
  <2> QED BY <1>0, <1>00, <2>1, <2>2, <2>3, <2>4 DEF Gates, Active
<1>19. ASSUME NEW c \in Made, HangUpIdle(c) PROVE Gates'
  <2>1. /\ Made' = Made /\ link'[c].srv = link[c].srv /\ link[c].owner \in Procs
        /\ link[c].client \in Procs
        /\ \A d \in Made : link'[d].owner = link[d].owner
        /\ \A d \in Made : d # c => link'[d].srv = link[d].srv
    BY <1>19, HangUpIdleEffect DEF LinkTo, LinkIs
  <2>2. owner' = owner
    BY <1>19, HangUpIdleEffect
  <2>3. txn' = txn
    BY <1>19, HangUpIdleEffect
  <2> QED BY <1>0, <1>00, <2>1, <2>2, <2>3 DEF Gates, Active
<1>20. ASSUME NEW c \in Made, ReadEnd(c) PROVE Gates'
  <2>1. /\ Made' = Made /\ (link[c].srv = "txn" => link'[c].srv = "finishing")
            /\ (link[c].srv # "txn" => link'[c].srv = "idle") /\ link[c].owner \in Procs
                /\ link[c].client \in Procs
        /\ \A d \in Made : link'[d].owner = link[d].owner
        /\ \A d \in Made : d # c => link'[d].srv = link[d].srv
    BY <1>20, ReadEndEffect DEF LinkTo, LinkIs
  <2>2. owner' = owner
    BY <1>20, ReadEndEffect
  <2>3. \A y \in Procs : txn'[y].pc = "own" <=> txn[y].pc = "own"
    <3>1. CASE txn' = txn
      BY <3>1
    <3>2. CASE txn' # txn
      <4>1. link[c].up /\ \E s \in {"idle", "lost"} : \E i, b : TxnTo(link[c].client, s, i, b)
        BY <1>20, <2>1, <3>2, ReadEndEffect, TellEffect DEF Outcomes
      <4>2. txn[link[c].client].pc # "own"
        BY <4>1, NoOwnAtClient
      <4> QED BY <4>1, <4>2 DEF TxnTo, TxnIs
    <3> QED BY <3>1, <3>2
  <2>4. link[c].srv \in {"txn", "revoked"}
    BY <1>20, ReadEndEffect
  <2> QED BY <1>0, <1>00, <2>1, <2>2, <2>3, <2>4 DEF Gates, Active
<1>21. ASSUME NEW c \in Made, CommitDelta(c) PROVE Gates'
  <2>1. /\ Made' = Made /\ link'[c].srv = "written" /\ link[c].owner \in Procs
        /\ link[c].client \in Procs
        /\ \A d \in Made : link'[d].owner = link[d].owner
        /\ \A d \in Made : d # c => link'[d].srv = link[d].srv
    BY <1>21, CommitDeltaEffect DEF LinkTo, LinkIs
  <2>2. /\ owner'[link[c].owner].gate = owner[link[c].owner].gate
        /\ owner'[link[c].owner].lock = c
        /\ \A y \in Procs : y # link[c].owner => owner'[y] = owner[y]
    BY <1>21, CommitDeltaEffect DEF OwnerTo, OwnerIs
  <2>3. txn' = txn
    BY <1>21, CommitDeltaEffect
  <2>4. link[c].srv = "finishing" /\ owner[link[c].owner].lock = 0
    BY <1>21, CommitDeltaEffect
  <2> QED BY <1>0, <1>00, <2>1, <2>2, <2>3, <2>4 DEF Gates, Active
<1>22. ASSUME NEW c \in Made, CommitDeltaFails(c) PROVE Gates'
  <2>1. /\ Made' = Made /\ link'[c].srv = "failing" /\ link[c].owner \in Procs
        /\ link[c].client \in Procs
        /\ \A d \in Made : link'[d].owner = link[d].owner
        /\ \A d \in Made : d # c => link'[d].srv = link[d].srv
    BY <1>22, CommitDeltaFailsEffect DEF FailsTo, LinkTo, LinkIs
  <2>2. /\ owner'[link[c].owner].gate = owner[link[c].owner].gate
        /\ owner'[link[c].owner].lock = owner[link[c].owner].lock
        /\ \A y \in Procs : y # link[c].owner => owner'[y] = owner[y]
    BY <1>22, CommitDeltaFailsEffect DEF FailsTo, OwnerTo, OwnerIs
  <2>3. txn' = txn
    BY <1>22, CommitDeltaFailsEffect
  <2>4. link[c].srv = "finishing"
    BY <1>22, CommitDeltaFailsEffect
  <2> QED BY <1>0, <1>00, <2>1, <2>2, <2>3, <2>4 DEF Gates, Active
<1>23. ASSUME NEW c \in Made, Publish(c) PROVE Gates'
  <2>1. /\ Made' = Made /\ link'[c].srv = "published" /\ link[c].owner \in Procs
        /\ link[c].client \in Procs
        /\ \A d \in Made : link'[d].owner = link[d].owner
        /\ \A d \in Made : d # c => link'[d].srv = link[d].srv
    BY <1>23, PublishEffect DEF LinkTo, LinkIs
  <2>2. /\ owner'[link[c].owner].gate = owner[link[c].owner].gate
        /\ owner'[link[c].owner].lock = 0
        /\ \A y \in Procs : y # link[c].owner => owner'[y] = owner[y]
    BY <1>23, PublishEffect DEF OwnerTo, OwnerIs
  <2>3. txn' = txn
    BY <1>23, PublishEffect
  <2>4. link[c].srv = "written"
    BY <1>23, PublishEffect
  <2> QED BY <1>0, <1>00, <2>1, <2>2, <2>3, <2>4 DEF Gates, Active
<1>24. ASSUME NEW c \in Made, Ack(c) PROVE Gates'
  <2>1. /\ Made' = Made /\ link'[c].srv = "acked" /\ link[c].owner \in Procs
        /\ link[c].client \in Procs
        /\ \A d \in Made : link'[d].owner = link[d].owner
        /\ \A d \in Made : d # c => link'[d].srv = link[d].srv
    BY <1>24, AckEffect DEF LinkTo, LinkIs
  <2>2. owner' = owner
    BY <1>24, AckEffect
  <2>3. \A y \in Procs : txn'[y].pc = "own" <=> txn[y].pc = "own"
    <3>1. CASE txn' = txn
      BY <3>1
    <3>2. CASE txn' # txn
      <4>1. link[c].up /\ \E s \in {"idle", "lost"} : \E i, b : TxnTo(link[c].client, s, i, b)
        BY <1>24, <2>1, <3>2, AckEffect, TellEffect DEF Outcomes
      <4>2. txn[link[c].client].pc # "own"
        BY <4>1, NoOwnAtClient
      <4> QED BY <4>1, <4>2 DEF TxnTo, TxnIs
    <3> QED BY <3>1, <3>2
  <2>4. link[c].srv = "published"
    BY <1>24, AckEffect
  <2> QED BY <1>0, <1>00, <2>1, <2>2, <2>3, <2>4 DEF Gates, Active
<1>25. ASSUME NEW c \in Made, Release(c) PROVE Gates'
  <2>1. /\ Made' = Made /\ link'[c].srv = "idle" /\ link[c].owner \in Procs
        /\ link[c].client \in Procs
        /\ \A d \in Made : link'[d].owner = link[d].owner
        /\ \A d \in Made : d # c => link'[d].srv = link[d].srv
    BY <1>25, ReleaseEffect DEF LinkTo, LinkIs
  <2>2. /\ owner'[link[c].owner].gate = Free
        /\ owner'[link[c].owner].lock = owner[link[c].owner].lock
        /\ \A y \in Procs : y # link[c].owner => owner'[y] = owner[y]
    BY <1>25, ReleaseEffect DEF OwnerTo, OwnerIs
  <2>3. txn' = txn
    BY <1>25, ReleaseEffect
  <2>4. link[c].srv = "acked"
    BY <1>25, ReleaseEffect
  <2> QED BY <1>0, <1>00, <2>1, <2>2, <2>3, <2>4 DEF Gates, Active
<1>26. ASSUME NEW c \in Made, End(c) PROVE Gates'
  <2>1. /\ Made' = Made /\ link'[c].srv = "gone" /\ link[c].owner \in Procs
        /\ link[c].client \in Procs
        /\ \A d \in Made : link'[d].owner = link[d].owner
        /\ \A d \in Made : d # c => link'[d].srv = link[d].srv
    BY <1>26, EndEffect DEF LinkTo, LinkIs
  <2>2. /\ (link[c].srv = "txn" => owner'[link[c].owner].gate = Free) /\ (link[c].srv # "txn"
            => owner'[link[c].owner].gate = owner[link[c].owner].gate)
                /\ owner'[link[c].owner].lock = owner[link[c].owner].lock
        /\ \A y \in Procs : y # link[c].owner => owner'[y] = owner[y]
    BY <1>26, EndEffect DEF OwnerTo, OwnerIs
  <2>3. txn' = txn
    BY <1>26, EndEffect
  <2>4. link[c].srv \in {"idle", "txn", "revoked"}
    BY <1>26, EndEffect
  <2>5. CASE link[c].srv = "txn"
    BY <1>0, <1>00, <2>1, <2>2, <2>3, <2>5 DEF Gates, Active
  <2>6. CASE link[c].srv # "txn"
    <3>1. \A y \in Procs : owner'[y].gate = owner[y].gate /\ owner'[y].lock = owner[y].lock
      BY <2>1, <2>2, <2>6
    <3> QED BY <1>0, <2>1, <2>3, <2>4, <2>6, <3>1 DEF Gates, Active
  <2> QED BY <2>5, <2>6
<1>27. ASSUME NEW c \in Made, Break(c) PROVE Gates'
  <2>1. /\ Made' = Made /\ link'[c].srv = link[c].srv /\ link[c].owner \in Procs
        /\ link[c].client \in Procs
        /\ \A d \in Made : link'[d].owner = link[d].owner
        /\ \A d \in Made : d # c => link'[d].srv = link[d].srv
    BY <1>27, BreakEffect DEF LinkTo, LinkIs
  <2>2. owner' = owner
    BY <1>27, BreakEffect
  <2>3. \A y \in Procs : txn'[y].pc = "own" <=> txn[y].pc = "own"
    <3>1. CASE txn' = txn
      BY <3>1
    <3>2. CASE txn' # txn
      <4>1. link[c].up /\ \E s \in {"idle", "lost"} : \E i, b : TxnTo(link[c].client, s, i, b)
        BY <1>27, <2>1, <3>2, BreakEffect, TellEffect DEF Outcomes
      <4>2. txn[link[c].client].pc # "own"
        BY <4>1, NoOwnAtClient
      <4> QED BY <4>1, <4>2 DEF TxnTo, TxnIs
    <3> QED BY <3>1, <3>2
  <2> QED BY <1>0, <1>00, <2>1, <2>2, <2>3 DEF Gates, Active
<1>28. ASSUME NEW c \in Made, ReleaseFails(c) PROVE Gates'
  <2>1. /\ Made' = Made /\ link'[c].srv = "failing" /\ link[c].owner \in Procs
        /\ link[c].client \in Procs
        /\ \A d \in Made : link'[d].owner = link[d].owner
        /\ \A d \in Made : d # c => link'[d].srv = link[d].srv
    BY <1>28, ReleaseFailsEffect DEF FailsTo, LinkTo, LinkIs
  <2>2. /\ owner'[link[c].owner].gate = owner[link[c].owner].gate
        /\ owner'[link[c].owner].lock = owner[link[c].owner].lock
        /\ \A y \in Procs : y # link[c].owner => owner'[y] = owner[y]
    BY <1>28, ReleaseFailsEffect DEF FailsTo, OwnerTo, OwnerIs
  <2>3. txn' = txn
    BY <1>28, ReleaseFailsEffect
  <2>4. link[c].srv = "acked"
    BY <1>28, ReleaseFailsEffect
  <2> QED BY <1>0, <1>00, <2>1, <2>2, <2>3, <2>4 DEF Gates, Active
<1>29. ASSUME NEW c \in Made, StopServing(c) PROVE Gates'
  <2>1. /\ Made' = Made /\ txn' = txn /\ link'[c].srv = "idle" /\ link[c].srv = "failing"
        /\ link[c].owner \in Procs
        /\ \A d \in Made : link'[d].owner = link[d].owner
        /\ \A d \in Made : d # c => link'[d].srv = link[d].srv
    BY <1>29, StopServingEffect DEF LinksHung, LinkIs
  <2>2. /\ owner'[link[c].owner].gate = Free
        /\ owner'[link[c].owner].lock = owner[link[c].owner].lock
        /\ \A y \in Procs : y # link[c].owner => owner'[y] = owner[y]
    BY <1>29, StopServingEffect DEF OwnerTo, OwnerIs
  <2> QED BY <1>0, <1>00, <2>1, <2>2 DEF Gates, Active
<1> QED BY <1>1, <1>2, <1>3, <1>4, <1>5, <1>6, <1>7, <1>8, <1>9, <1>10, <1>11, <1>12,
           <1>13, <1>14, <1>15, <1>16, <1>17, <1>18, <1>19, <1>20, <1>21, <1>22,
           <1>23, <1>24, <1>25, <1>26, <1>27, <1>28, <1>29 DEF Next, Serving, Resolving, Chosen

-----------------------------------------------------------------------------
(* Requests on a connection. *)

\* A commit waits in a connection only while its thread may read it; an open
\* request has a connection; while a client's end is up, what its thread works
\* on is what the client waits for.
Requests ==
    /\ \A c \in Made : link[c].sent => link[c].srv \in {"txn", "revoked"}
    /\ \A p \in Procs : txn[p].pc \in {"begun", "sent", "asking"} => conn[p] # 0
    /\ \A c \in Made : link[c].up /\ txn[link[c].client].pc = "begun" =>
            /\ link[c].srv \in {"txn", "revoked", "gone"} /\ ~link[c].sent
            /\ link[c].srv # "gone" => link[c].base = txn[link[c].client].base
    /\ \A c \in Made : link[c].up /\ (link[c].sent \/ link[c].srv \in {"finishing", "written",
        "published"}) =>
            /\ txn[link[c].client].pc = "sent" /\ txn[link[c].client].id = link[c].id
            /\ txn[link[c].client].base = link[c].base

\* A client has one connection that is up.
LEMMA OneEnd ==
    ASSUME Types, Ends, NEW c \in Made, link[c].up
    PROVE  /\ conn[link[c].client] = c
           /\ \A d \in Made : link[d].up /\ link[d].client = link[c].client => d = c
BY DEF Ends

\* Whatever the client's end fails in, no request of its is open after it.
LEMMA BreakEnds ==
    ASSUME Types, NEW c \in Made, Break(c) \/ ClientClose(c)
    PROVE  \E s \in {"idle", "own", "stale", "lost"} :
              /\ txn'[link[c].client].pc = s
              /\ \A y \in Procs : y # link[c].client => txn'[y] = txn[y]
<1>1. link[c].client \in Procs /\ "unknown" \in Outcomes
  BY LinkAt DEF Outcomes
<1>2. CASE Tell(link[c].client, "unknown")
  BY <1>1, <1>2, TellEffect DEF TxnTo, TxnIs
<1>3. CASE \E s \in {"idle", "lost"} : \E i, b : TxnTo(link[c].client, s, i, b)
  BY <1>3 DEF TxnTo, TxnIs
<1>4. CASE txn[link[c].client].pc \in {"idle", "own", "stale"} /\ txn' = txn
  BY <1>4
<1> QED BY <1>2, <1>3, <1>4, BreakEffect, ClientCloseEffect

\* Every step keeps Requests.
LEMMA RequestsStep ==
    ASSUME Types, Files, OneOwner, Threads, Ends, Gates, Requests, Next
    PROVE  Requests'
<1>0. \A d \in Made : link[d].owner \in Procs /\ link[d].client \in Procs
  BY LinkAt
<1>00. Own \notin Made /\ Free \notin Made /\ 0 \notin Made /\ Own # Free
  BY DEF Made, Own, Free
<1>1. ASSUME NEW p \in Procs, Promote(p) PROVE Requests'
  BY <1>0, <1>1, PromoteEffect DEF OwnerTo, OwnerIs, Made, Requests, Ends
<1>2. ASSUME NEW p \in Procs, StartShutdown(p) PROVE Requests'
  BY <1>0, <1>2, StartShutdownEffect DEF LinksHung, LinkIs, OwnerTo, OwnerIs, Requests, Ends
<1>3. ASSUME NEW p \in Procs, FinishShutdown(p) PROVE Requests'
  BY <1>0, <1>3, FinishShutdownEffect DEF OwnerTo, OwnerIs, TxnTo, TxnIs, Made, Requests, Ends
<1>4. ASSUME NEW p \in Procs, Crash(p) PROVE Requests'
  <2>1. /\ txn'[p].pc = "idle" /\ \A y \in Procs : y # p => txn'[y] = txn[y]
    BY <1>4, CrashEffect DEF TxnTo, TxnIs
  <2>2. \A y \in Procs : y # p => conn'[y] = conn[y]
    BY <1>4, CrashEffect DEF ConnTo
  <2>3. ASSUME NEW d \in Made
        PROVE  /\ link'[d].client = link[d].client
               /\ link'[d].up => link[d].up /\ link[d].client # p
               /\ \/ link'[d].srv = "gone" /\ ~link'[d].sent
                  \/ /\ link'[d].srv = link[d].srv /\ link'[d].base = link[d].base
                     /\ link'[d].id = link[d].id /\ (link'[d].sent <=> link[d].sent)
    <3>1. CASE link[d].owner = p
      <4>1. LinkIs(link[d], link'[d], "gone", 0, 0, FALSE, link[d].up, TRUE)
        BY <1>4, <3>1, CrashEffect DEF LinksLost
      <4> QED BY <3>1, <4>1 DEF LinkIs, Ends
    <3>2. CASE link[d].owner # p
      <4>1. LinkIs(link[d], link'[d], link[d].srv, link[d].base, link[d].id, link[d].sent,
                   link[d].up /\ link[d].client # p, link[d].hung)
        BY <1>4, <3>2, CrashEffect DEF LinksLost
      <4> QED BY <3>2, <4>1 DEF LinkIs
    <3> QED BY <3>1, <3>2
  <2>4. Made' = Made
    BY <1>4, CrashEffect DEF LinksLost
  <2> QED BY <1>0, <2>1, <2>2, <2>3, <2>4 DEF Requests
<1>5. ASSUME NEW p \in Procs, OwnBegin(p) PROVE Requests'
  BY <1>0, <1>5, OwnBeginEffect DEF OwnerTo, OwnerIs, TxnTo, TxnIs, Made, Requests, Ends
<1>6. ASSUME NEW p \in Procs, OwnRollback(p) PROVE Requests'
  BY <1>0, <1>6, OwnRollbackEffect DEF OwnerTo, OwnerIs, TxnTo, TxnIs, Made, Requests, Ends
<1>7. ASSUME NEW p \in Procs, OwnCommit(p) PROVE Requests'
  <2>1. TxnTo(p, "idle", 0, 0) /\ UNCHANGED <<conn, link>>
    BY <1>7, OwnCommitEffect
  <2>2. txn[p].pc = "own"
    BY <1>7, OwnCommitEffect
  <2> QED BY <1>0, <2>1, <2>2 DEF TxnTo, TxnIs, Requests, Ends, Made
<1>8. ASSUME NEW p \in Procs, OwnStale(p) PROVE Requests'
  BY <1>0, <1>8, OwnStaleEffect DEF TxnTo, TxnIs, Made, Requests, Ends
<1>9. ASSUME NEW p \in Procs, GiveUp(p) PROVE Requests'
  <2>1. TxnTo(p, "idle", 0, 0)
    BY <1>9, ResolvedIs, TellEffect DEF GiveUp, Outcomes
  <2> QED BY <1>0, <1>00, <1>9, <2>1 DEF GiveUp, TxnTo, TxnIs, Requests, Ends, Made
<1>10. ASSUME NEW p \in Procs, ResolveSelf(p) PROVE Requests'
  <2>1. TxnTo(p, "idle", 0, 0)
    BY <1>10, ResolvedIs, TellEffect DEF ResolveSelf, Outcomes
  <2> QED BY <1>0, <1>00, <1>10, <2>1 DEF ResolveSelf, TxnTo, TxnIs, Requests, Ends, Made
<1>11. ASSUME NEW p \in Procs, Ask(p) PROVE Requests'
  BY <1>0, <1>11, AskEffect DEF TxnTo, TxnIs, Made, Requests, Ends
<1>12. ASSUME NEW p \in Procs, Answer(p) PROVE Requests'
  <2>1. TxnTo(p, "idle", 0, 0)
    BY <1>12, ResolvedIs, TellEffect DEF Answer, Outcomes
  <2> QED BY <1>0, <1>00, <1>12, <2>1 DEF Answer, TxnTo, TxnIs, Requests, Ends, Made
<1>13. ASSUME NEW p \in Procs, NEW q \in Procs, Reconnect(p, q) PROVE Requests'
  <2> DEFINE n == Len(link) + 1
  <2>1. /\ Made' = Made \cup {n} /\ n \notin Made /\ n # 0
        /\ \A d \in Made : link'[d] = link[d]
        /\ link'[n].client = p /\ link'[n].srv = "idle" /\ ~link'[n].sent
    BY <1>13, ReconnectEffect DEF LinkMade, Made, Types
  <2>2. txn' = txn /\ conn[p] = 0 /\ \A y \in Procs : y # p => conn'[y] = conn[y]
    BY <1>13, ReconnectEffect DEF ConnTo
  <2>3. conn'[p] = n
    BY <1>13, ReconnectEffect DEF ConnTo
  <2> HIDE DEF n
  <2> QED BY <1>0, <1>00, <2>1, <2>2, <2>3 DEF Requests
<1>14. ASSUME NEW c \in Made, ClientBegin(c) PROVE Requests'
  <2>1. /\ Made' = Made /\ LinkIs(link[c], link'[c], "txn", owner[link[c].owner].txid,
            link[c].id, link[c].sent, link[c].up, link[c].hung)
        /\ \A d \in Made : d # c => link'[d] = link[d]
        /\ link[c].client \in Procs
    BY <1>14, ClientBeginEffect DEF LinkTo
  <2>2. link[c].up /\ conn[link[c].client] = c /\ \A d \in Made : link[d].up
            /\ link[d].client = link[c].client => d = c
    BY <1>00, <1>14, <2>1, ClientBeginEffect DEF Ends
  <2>3. txn'[link[c].client].pc = "begun" /\ txn'[link[c].client].base = owner[link[c].owner].txid
        /\ \A y \in Procs : y # link[c].client => txn'[y] = txn[y]
    BY <1>14, ClientBeginEffect DEF TxnTo, TxnIs
  <2>4. conn' = conn /\ link[c].srv = "idle"
    BY <1>14, ClientBeginEffect
  <2> QED BY <1>0, <1>00, <2>1, <2>2, <2>3, <2>4 DEF Requests, LinkIs
<1>15. ASSUME NEW c \in Made, ClientSend(c) PROVE Requests'
  <2>1. /\ Made' = Made /\ LinkIs(link[c], link'[c], link[c].srv, link[c].base, Len(outcome) + 1,
            ~link[c].hung, link[c].up, link[c].hung)
        /\ \A d \in Made : d # c => link'[d] = link[d]
        /\ link[c].client \in Procs
    BY <1>15, ClientSendEffect DEF LinkTo
  <2>2. link[c].up /\ conn[link[c].client] = c /\ \A d \in Made : link[d].up
            /\ link[d].client = link[c].client => d = c
    BY <1>00, <1>15, <2>1, ClientSendEffect DEF Ends
  <2>3. txn'[link[c].client].pc = "sent" /\ txn'[link[c].client].id = Len(outcome) + 1
        /\ txn'[link[c].client].base = txn[link[c].client].base
        /\ \A y \in Procs : y # link[c].client => txn'[y] = txn[y]
    BY <1>15, ClientSendEffect DEF TxnTo, TxnIs
  <2>4. conn' = conn /\ txn[link[c].client].pc = "begun"
    BY <1>15, ClientSendEffect
  <2>5. link[c].srv \in {"txn", "revoked", "gone"} /\ (link[c].srv # "gone"
            => link[c].base = txn[link[c].client].base)
    BY <2>1, <2>2, <2>4 DEF Requests
  <2>6. link[c].srv = "gone" => link[c].hung
    BY DEF Threads
  <2>7. /\ link'[c].srv = link[c].srv /\ link'[c].client = link[c].client
        /\ link'[c].base = link[c].base
        /\ link'[c].id = Len(outcome) + 1 /\ (link'[c].sent <=> ~link[c].hung) /\ link'[c].up
    BY <2>1, <2>2 DEF LinkIs
  <2>8. \A d \in Made : d # c /\ link'[d].up => link'[d].client # link[c].client
    BY <2>1, <2>2
  <2> QED BY <1>0, <1>00, <2>1, <2>2, <2>3, <2>4, <2>5, <2>6, <2>7, <2>8 DEF Requests
<1>16. ASSUME NEW c \in Made, ClientAbort(c) PROVE Requests'
  BY <1>0, <1>16, ClientAbortEffect DEF LinkTo, LinkIs, OwnerTo, OwnerIs, TxnTo, TxnIs, Requests,
       Ends
<1>17. ASSUME NEW c \in Made, ClientClose(c) PROVE Requests'
  <2>1. /\ Made' = Made /\ LinkIs(link[c], link'[c], link[c].srv, link[c].base, link[c].id,
            link[c].sent, FALSE, link[c].hung)
        /\ \A d \in Made : d # c => link'[d] = link[d]
        /\ link[c].client \in Procs
    BY <1>17, ClientCloseEffect DEF LinkTo
  <2>2. link[c].up /\ conn[link[c].client] = c /\ \A d \in Made : link[d].up
            /\ link[d].client = link[c].client => d = c
    BY <1>17, ClientCloseEffect, OneEnd
  <2>3. /\ txn'[link[c].client].pc \notin {"begun", "sent", "asking"}
        /\ \A y \in Procs : y # link[c].client => txn'[y] = txn[y]
    BY <1>17, BreakEnds
  <2>4. conn'[link[c].client] = 0 /\ \A y \in Procs : y # link[c].client => conn'[y] = conn[y]
    BY <1>17, ClientCloseEffect DEF ConnTo
  <2> QED BY <1>0, <2>1, <2>2, <2>3, <2>4 DEF Requests, LinkIs
<1>18. ASSUME NEW c \in Made, Revoke(c) PROVE Requests'
  BY <1>0, <1>18, RevokeEffect DEF LinkTo, LinkIs, OwnerTo, OwnerIs, Requests, Ends
<1>19. ASSUME NEW c \in Made, HangUpIdle(c) PROVE Requests'
  BY <1>0, <1>19, HangUpIdleEffect DEF LinkTo, LinkIs, Requests, Ends
<1>20. ASSUME NEW c \in Made, ReadEnd(c) PROVE Requests'
  <2>1. /\ Made' = Made /\ LinkIs(link[c], link'[c], IF link[c].srv = "txn" THEN "finishing"
            ELSE "idle", link[c].base, link[c].id, FALSE, link[c].up, link[c].hung)
        /\ \A d \in Made : d # c => link'[d] = link[d]
        /\ link[c].client \in Procs
    BY <1>20, ReadEndEffect DEF LinkTo
  <2>2. conn' = conn /\ link[c].sent /\ link[c].srv \in {"txn", "revoked"}
    BY <1>20, ReadEndEffect
  <2>3. /\ link'[c].srv \notin {"txn", "revoked", "written", "published"} /\ ~link'[c].sent
        /\ (link'[c].srv = "finishing" => link[c].srv = "txn")
        /\ link'[c].client = link[c].client /\ link'[c].base = link[c].base
        /\ link'[c].id = link[c].id
        /\ (link'[c].up <=> link[c].up)
    BY <2>1, <2>2 DEF LinkIs, Requests
  <2>4. CASE txn' = txn
    BY <1>0, <2>1, <2>2, <2>3, <2>4 DEF Requests
  <2>5. CASE link[c].srv = "revoked" /\ link[c].up /\ Tell(link[c].client, "failed")
    <3>1. \A d \in Made : link[d].up /\ link[d].client = link[c].client => d = c
      BY <2>1, <2>5 DEF Ends
    <3>2. txn'[link[c].client].pc = "idle" /\ \A y \in Procs : y # link[c].client
              => txn'[y] = txn[y]
      BY <2>1, <2>5, TellEffect DEF TxnTo, TxnIs, Outcomes
    <3> QED BY <1>0, <2>1, <2>2, <2>3, <2>5, <3>1, <3>2 DEF Requests
  <2> QED BY <1>20, <2>4, <2>5, ReadEndEffect
<1>21. ASSUME NEW c \in Made, CommitDelta(c) PROVE Requests'
  BY <1>0, <1>21, CommitDeltaEffect DEF LinkTo, LinkIs, OwnerTo, OwnerIs, Requests, Ends
<1>22. ASSUME NEW c \in Made, CommitDeltaFails(c) PROVE Requests'
  BY <1>0, <1>22, CommitDeltaFailsEffect DEF FailsTo, LinkTo, LinkIs, OwnerTo, OwnerIs, Requests, Ends
<1>23. ASSUME NEW c \in Made, Publish(c) PROVE Requests'
  BY <1>0, <1>23, PublishEffect DEF LinkTo, LinkIs, OwnerTo, OwnerIs, Requests, Ends
<1>24. ASSUME NEW c \in Made, Ack(c) PROVE Requests'
  <2>1. /\ Made' = Made /\ LinkIs(link[c], link'[c], "acked", link[c].base, link[c].id,
            link[c].sent, link[c].up, link[c].hung)
        /\ \A d \in Made : d # c => link'[d] = link[d]
        /\ link[c].client \in Procs
    BY <1>24, AckEffect DEF LinkTo
  <2>2. conn' = conn /\ link[c].srv = "published"
    BY <1>24, AckEffect
  <2>3. /\ link'[c].srv = "acked" /\ ~link'[c].sent
        /\ link'[c].client = link[c].client /\ link'[c].base = link[c].base
        /\ link'[c].id = link[c].id
        /\ (link'[c].up <=> link[c].up)
    BY <2>1, <2>2 DEF LinkIs, Requests
  <2>4. CASE txn' = txn
    BY <1>0, <2>1, <2>2, <2>3, <2>4 DEF Requests
  <2>5. CASE link[c].up /\ Tell(link[c].client, "committed")
    <3>1. \A d \in Made : link[d].up /\ link[d].client = link[c].client => d = c
      BY <2>1, <2>5 DEF Ends
    <3>2. txn'[link[c].client].pc = "idle" /\ \A y \in Procs : y # link[c].client
              => txn'[y] = txn[y]
      BY <2>1, <2>5, TellEffect DEF TxnTo, TxnIs, Outcomes
    <3> QED BY <1>0, <2>1, <2>2, <2>3, <3>1, <3>2 DEF Requests
  <2> QED BY <1>24, <2>4, <2>5, AckEffect
<1>25. ASSUME NEW c \in Made, Release(c) PROVE Requests'
  BY <1>0, <1>25, ReleaseEffect DEF LinkTo, LinkIs, OwnerTo, OwnerIs, Requests, Ends
<1>26. ASSUME NEW c \in Made, End(c) PROVE Requests'
  BY <1>0, <1>26, EndEffect DEF LinkTo, LinkIs, OwnerTo, OwnerIs, Requests, Ends
<1>27. ASSUME NEW c \in Made, Break(c) PROVE Requests'
  <2>1. /\ Made' = Made /\ LinkIs(link[c], link'[c], link[c].srv, link[c].base, link[c].id,
            link[c].sent, FALSE, link[c].hung)
        /\ \A d \in Made : d # c => link'[d] = link[d]
        /\ link[c].client \in Procs
    BY <1>27, BreakEffect DEF LinkTo
  <2>2. link[c].up /\ conn[link[c].client] = c /\ \A d \in Made : link[d].up
            /\ link[d].client = link[c].client => d = c
    BY <1>27, BreakEffect, OneEnd
  <2>3. /\ txn'[link[c].client].pc \notin {"begun", "sent", "asking"}
        /\ \A y \in Procs : y # link[c].client => txn'[y] = txn[y]
    BY <1>27, BreakEnds
  <2>4. conn'[link[c].client] = 0 /\ \A y \in Procs : y # link[c].client => conn'[y] = conn[y]
    BY <1>27, BreakEffect DEF ConnTo
  <2> QED BY <1>0, <2>1, <2>2, <2>3, <2>4 DEF Requests, LinkIs
<1>28. ASSUME NEW c \in Made, ReleaseFails(c) PROVE Requests'
  BY <1>0, <1>28, ReleaseFailsEffect DEF FailsTo, LinkTo, LinkIs, OwnerTo, OwnerIs, Requests, Ends
<1>29. ASSUME NEW c \in Made, StopServing(c) PROVE Requests'
  BY <1>0, <1>29, StopServingEffect DEF LinksHung, LinkIs, OwnerTo, OwnerIs, Requests, Ends
<1> QED BY <1>1, <1>2, <1>3, <1>4, <1>5, <1>6, <1>7, <1>8, <1>9, <1>10, <1>11, <1>12,
           <1>13, <1>14, <1>15, <1>16, <1>17, <1>18, <1>19, <1>20, <1>21, <1>22,
           <1>23, <1>24, <1>25, <1>26, <1>27, <1>28, <1>29 DEF Next, Serving, Resolving, Chosen

-----------------------------------------------------------------------------
(* The file and what is known of it. *)

\* What the owner's window and the open transactions know of the file: the
\* base of a transaction is still the published version, and the published
\* version is the newest commit unless a commit is written and not published,
\* or failed.
Versions ==
    /\ \A p \in Procs : owner[p].txid \in 0 .. Len(file)
    /\ \A p \in Procs : Owns(p) /\ ~owner[p].poisoned /\ owner[p].lock = 0
        => owner[p].txid = Len(file)
    /\ \A p \in Procs : txn[p].pc = "own" => txn[p].base = owner[p].txid
    /\ \A c \in Made : link[c].srv \in {"txn", "finishing", "written"}
                        => link[c].base = owner[link[c].owner].txid
\* A commit written or published is in the file at its txid, and so is every
\* pair of a window, which holds no pair older than RESOLUTION_WINDOW_COMMITS.
Landed ==
    /\ \A c \in Made : link[c].srv = "written" => Len(file) = link[c].base + 1
        /\ file[link[c].base + 1] = link[c].id
    /\ \A c \in Made : link[c].srv = "published"
                        => link[c].base + 1 \in 1 .. Len(file)
                            /\ file[link[c].base + 1] = link[c].id
    /\ \A p \in Procs : \A r \in owner[p].res :
            r[1] \in 1 .. owner[p].txid /\ r[1] > owner[p].txid - ResWindow /\ file[r[1]] = r[2]

\* Whoever may write the file is alone.
LEMMA Exclusive ==
    ASSUME Types, OneOwner, Threads, Gates
    PROVE  /\ \A p, q \in Procs : Owns(p) /\ Owns(q) => p = q
           /\ \A p \in Procs : txn[p].pc = "own" => Owns(p) /\ owner[p].lock = 0
           /\ \A c \in Made : link[c].srv \in Active => Owns(link[c].owner)
           /\ \A c \in Made : link[c].srv \in Active \ {"written"}
               => owner[link[c].owner].lock = 0
           /\ \A c, d \in Made : link[c].srv \in Active /\ link[d].srv \in Active => c = d
           /\ \A c \in Made, p \in Procs : link[c].srv \in Active => txn[p].pc # "own"
<1>0. \A d \in Made : link[d].owner \in Procs
  BY LinkAt
<1>00. Own \notin Made /\ Free \notin Made /\ Own # Free
  BY DEF Made, Own, Free
<1>1. \A p, q \in Procs : Owns(p) /\ Owns(q) => p = q
  BY DEF OneOwner
<1>2. \A p \in Procs : txn[p].pc = "own" => Owns(p)
  BY <1>00 DEF OneOwner, Gates
<1>3. \A c \in Made : link[c].srv \in Active => Owns(link[c].owner)
  BY DEF Threads, Active
<1>4. \A p \in Procs : owner[p].lock # 0 => owner[p].gate = owner[p].lock
  BY DEF Gates, Active
<1>5. \A p \in Procs : txn[p].pc = "own" => owner[p].lock = 0
  BY <1>00, <1>4 DEF Gates
<1>6. \A c \in Made : link[c].srv \in Active \ {"written"} => owner[link[c].owner].lock = 0
  BY <1>0, <1>4 DEF Gates
<1>7. \A c, d \in Made : link[c].srv \in Active /\ link[d].srv \in Active => c = d
  BY <1>0, <1>1, <1>3 DEF Gates
<1>8. \A c \in Made, p \in Procs : link[c].srv \in Active => txn[p].pc # "own"
  BY <1>0, <1>00, <1>1, <1>2, <1>3 DEF Gates
<1> QED BY <1>1, <1>2, <1>3, <1>5, <1>6, <1>7, <1>8

\* What Append does.
LEMMA Appended ==
    ASSUME NEW S, NEW s \in Seq(S), NEW e \in S
    PROVE  /\ Append(s, e) \in Seq(S) /\ Len(Append(s, e)) = Len(s) + 1
           /\ Append(s, e)[Len(s) + 1] = e /\ \A u \in 1 .. Len(s) : Append(s, e)[u] = s[u]
OBVIOUS

\* The slot of the txid past the newest: the file grows by the commit.
LEMMA WriteAppends ==
    ASSUME Files, NEW t \in Nat, t = Len(file) + 1, t <= MaxTxid, NEW i \in 0 .. MaxIds,
        file' = Write(t, i)
    PROVE  /\ file' = Append(file, i) /\ Files' /\ Len(file') = Len(file) + 1 /\ file'[t] = i
           /\ \A u \in 1 .. Len(file) : file'[u] = file[u]
<1>1. file \in Seq(0 .. MaxIds) /\ Len(file) \in Nat
  BY DEF Files
<1>2. SubSeq(file, 1, t - 1) = file
  BY <1>1
<1>3. file' = Append(file, i)
  BY <1>2 DEF Write
<1>4. file' \in Seq(0 .. MaxIds) /\ Len(file') = Len(file) + 1
  <2> DEFINE S == 0 .. MaxIds
  <2>1. file \in Seq(S) /\ i \in S
    BY <1>1
  <2> HIDE DEF S
  <2>2. file' \in Seq(S) /\ Len(file') = Len(file) + 1
    BY <1>3, <2>1, Appended
  <2> QED BY <2>2 DEF S
<1>5. file'[t] = i /\ \A u \in 1 .. Len(file) : file'[u] = file[u]
  BY <1>1, <1>3, Appended
<1> QED BY <1>1, <1>3, <1>4, <1>5 DEF Files

\* A commit is written past the newest one: a base read when the gate was
\* granted is still the newest commit.
LEMMA WritersAtEnd ==
    ASSUME Types, Files, OneOwner, Threads, Gates, Versions
    PROVE  /\ \A p \in Procs : txn[p].pc = "own" /\ ~owner[p].poisoned => txn[p].base = Len(file)
           /\ \A c \in Made : link[c].srv = "finishing" /\ ~owner[link[c].owner].poisoned
                                => link[c].base = Len(file)
           /\ \A c \in Made : link[c].srv = "acked" /\ ~owner[link[c].owner].poisoned
                                => owner[link[c].owner].txid = Len(file)
<1>0. \A d \in Made : link[d].owner \in Procs
  BY LinkAt
<1>1. \A p \in Procs : txn[p].pc = "own" /\ ~owner[p].poisoned => txn[p].base = Len(file)
  BY Exclusive DEF Versions
<1>2. \A c \in Made : link[c].srv \in {"finishing", "acked"} => Owns(link[c].owner)
          /\ owner[link[c].owner].lock = 0
  BY Exclusive DEF Active
<1> QED BY <1>0, <1>1, <1>2 DEF Versions

\* The file grew by one commit.
FileAppended ==
    /\ Files' /\ Len(file') = Len(file) + 1 /\ \A u \in 1 .. Len(file) : file'[u] = file[u]
    /\ \E i \in 0 .. MaxIds : file' = Append(file, i)

\* A step leaves the file or appends one commit to it: no commit is
\* overwritten.
LEMMA FileStep ==
    ASSUME Types, Files, OneOwner, Threads, Ends, Gates, Versions, Next
    PROVE  file' = file \/ FileAppended
<1>0. \A d \in Made : link[d].owner \in Procs /\ link[d].client \in Procs
  BY LinkAt
<1>1. ASSUME NEW p \in Procs, Promote(p) PROVE file' = file \/ FileAppended
  BY <1>1, PromoteEffect
<1>2. ASSUME NEW p \in Procs, StartShutdown(p) PROVE file' = file \/ FileAppended
  BY <1>2, StartShutdownEffect
<1>3. ASSUME NEW p \in Procs, FinishShutdown(p) PROVE file' = file \/ FileAppended
  BY <1>3, FinishShutdownEffect
<1>4. ASSUME NEW p \in Procs, Crash(p) PROVE file' = file \/ FileAppended
  BY <1>4, CrashEffect
<1>5. ASSUME NEW p \in Procs, OwnBegin(p) PROVE file' = file \/ FileAppended
  BY <1>5, OwnBeginEffect
<1>6. ASSUME NEW p \in Procs, OwnRollback(p) PROVE file' = file \/ FileAppended
  BY <1>6, OwnRollbackEffect
<1>7. ASSUME NEW p \in Procs, OwnCommit(p) PROVE file' = file \/ FileAppended
  <2>1. CASE file' = file
    BY <2>1
  <2>2. CASE ~owner[p].poisoned /\ file' = Write(txn[p].base + 1, Len(outcome) + 1)
    <3>1. txn[p].pc = "own" /\ Len(outcome) < MaxIds /\ txn[p].base + 1 <= MaxTxid
      BY <1>7, OwnCommitEffect
    <3>2. txn[p].base = Len(file)
      BY <1>0, <2>2, <3>1, WritersAtEnd
    <3>3. txn[p].base + 1 \in Nat /\ txn[p].base + 1 <= MaxTxid
              /\ Len(outcome) + 1 \in 0 .. MaxIds
      BY <2>2, <3>1, <3>2, TxnAt, PageServiceAssumption DEF Types
    <3> QED BY <2>2, <3>2, <3>3, WriteAppends DEF FileAppended
  <2> QED BY <1>7, <2>1, <2>2, OwnCommitEffect
<1>8. ASSUME NEW p \in Procs, OwnStale(p) PROVE file' = file \/ FileAppended
  BY <1>8, OwnStaleEffect
<1>9. ASSUME NEW p \in Procs, GiveUp(p) PROVE file' = file \/ FileAppended
  BY <1>9 DEF GiveUp
<1>10. ASSUME NEW p \in Procs, ResolveSelf(p) PROVE file' = file \/ FileAppended
  BY <1>10 DEF ResolveSelf
<1>11. ASSUME NEW p \in Procs, Ask(p) PROVE file' = file \/ FileAppended
  BY <1>11, AskEffect
<1>12. ASSUME NEW p \in Procs, Answer(p) PROVE file' = file \/ FileAppended
  BY <1>12 DEF Answer
<1>13. ASSUME NEW p \in Procs, NEW q \in Procs, Reconnect(p, q) PROVE file' = file \/ FileAppended
  BY <1>13, ReconnectEffect
<1>14. ASSUME NEW c \in Made, ClientBegin(c) PROVE file' = file \/ FileAppended
  BY <1>14, ClientBeginEffect
<1>15. ASSUME NEW c \in Made, ClientSend(c) PROVE file' = file \/ FileAppended
  BY <1>15, ClientSendEffect
<1>16. ASSUME NEW c \in Made, ClientAbort(c) PROVE file' = file \/ FileAppended
  BY <1>16, ClientAbortEffect
<1>17. ASSUME NEW c \in Made, ClientClose(c) PROVE file' = file \/ FileAppended
  BY <1>17, ClientCloseEffect
<1>18. ASSUME NEW c \in Made, Revoke(c) PROVE file' = file \/ FileAppended
  BY <1>18, RevokeEffect
<1>19. ASSUME NEW c \in Made, HangUpIdle(c) PROVE file' = file \/ FileAppended
  BY <1>19, HangUpIdleEffect
<1>20. ASSUME NEW c \in Made, ReadEnd(c) PROVE file' = file \/ FileAppended
  BY <1>20, ReadEndEffect
<1>21. ASSUME NEW c \in Made, CommitDelta(c) PROVE file' = file \/ FileAppended
  <2>1. CASE file' = file
    BY <2>1
  <2>2. CASE ~owner[link[c].owner].poisoned /\ file' = Write(link[c].base + 1, link[c].id)
    <3>1. link[c].srv = "finishing"
      BY <1>21, CommitDeltaEffect
    <3>2. link[c].base = Len(file)
      BY <1>0, <2>2, <3>1, WritersAtEnd
    <3>3. link[c].base + 1 \in Nat /\ link[c].base + 1 <= MaxTxid /\ link[c].id \in 0 .. MaxIds
      BY <2>2, <3>1, <3>2, LinkAt, PageServiceAssumption DEF Types
    <3> QED BY <2>2, <3>2, <3>3, WriteAppends DEF FileAppended
  <2> QED BY <1>21, <2>1, <2>2, CommitDeltaEffect
<1>22. ASSUME NEW c \in Made, CommitDeltaFails(c) PROVE file' = file \/ FileAppended
  <2>1. CASE file' = file
    BY <2>1
  <2>2. CASE ~owner[link[c].owner].poisoned /\ file' = Write(link[c].base + 1, link[c].id)
    <3>1. link[c].srv = "finishing"
      BY <1>22, CommitDeltaFailsEffect
    <3>2. link[c].base = Len(file)
      BY <1>0, <2>2, <3>1, WritersAtEnd
    <3>3. link[c].base + 1 \in Nat /\ link[c].base + 1 <= MaxTxid /\ link[c].id \in 0 .. MaxIds
      BY <2>2, <3>1, <3>2, LinkAt, PageServiceAssumption DEF Types
    <3> QED BY <2>2, <3>2, <3>3, WriteAppends DEF FileAppended
  <2> QED BY <1>22, <2>1, <2>2, CommitDeltaFailsEffect
<1>23. ASSUME NEW c \in Made, Publish(c) PROVE file' = file \/ FileAppended
  BY <1>23, PublishEffect
<1>24. ASSUME NEW c \in Made, Ack(c) PROVE file' = file \/ FileAppended
  BY <1>24, AckEffect
<1>25. ASSUME NEW c \in Made, Release(c) PROVE file' = file \/ FileAppended
  <2>1. CASE file' = file
    BY <2>1
  <2>2. CASE /\ ~owner[link[c].owner].poisoned /\ owner[link[c].owner].txid + 1 <= MaxTxid
             /\ file' = Write(owner[link[c].owner].txid + 1, Maintenance)
    <3>1. link[c].srv = "acked"
      BY <1>25, ReleaseEffect
    <3>2. owner[link[c].owner].txid = Len(file)
      BY <1>0, <2>2, <3>1, WritersAtEnd
    <3>3. owner[link[c].owner].txid + 1 \in Nat /\ owner[link[c].owner].txid + 1 <= MaxTxid
              /\ Maintenance \in 0 .. MaxIds
      BY <2>2, <3>1, <3>2, <1>0, OwnerAt, PageServiceAssumption DEF Maintenance
    <3> QED BY <2>2, <3>2, <3>3, WriteAppends DEF FileAppended
  <2> QED BY <1>25, <2>1, <2>2, ReleaseEffect
<1>26. ASSUME NEW c \in Made, End(c) PROVE file' = file \/ FileAppended
  BY <1>26, EndEffect
<1>27. ASSUME NEW c \in Made, Break(c) PROVE file' = file \/ FileAppended
  BY <1>27, BreakEffect
<1>28. ASSUME NEW c \in Made, ReleaseFails(c) PROVE file' = file \/ FileAppended
  <2>1. CASE file' = file
    BY <2>1
  <2>2. CASE /\ ~owner[link[c].owner].poisoned /\ owner[link[c].owner].txid + 1 <= MaxTxid
             /\ file' = Write(owner[link[c].owner].txid + 1, Maintenance)
    <3>1. link[c].srv = "acked"
      BY <1>28, ReleaseFailsEffect
    <3>2. owner[link[c].owner].txid = Len(file)
      BY <1>0, <2>2, <3>1, WritersAtEnd
    <3>3. owner[link[c].owner].txid + 1 \in Nat /\ owner[link[c].owner].txid + 1 <= MaxTxid
              /\ Maintenance \in 0 .. MaxIds
      BY <2>2, <3>1, <3>2, <1>0, OwnerAt, PageServiceAssumption DEF Maintenance
    <3> QED BY <2>2, <3>2, <3>3, WriteAppends DEF FileAppended
  <2> QED BY <1>28, <2>1, <2>2, ReleaseFailsEffect
<1>29. ASSUME NEW c \in Made, StopServing(c) PROVE file' = file \/ FileAppended
  BY <1>29, StopServingEffect
<1> QED BY <1>1, <1>2, <1>3, <1>4, <1>5, <1>6, <1>7, <1>8, <1>9, <1>10, <1>11, <1>12,
           <1>13, <1>14, <1>15, <1>16, <1>17, <1>18, <1>19, <1>20, <1>21, <1>22,
           <1>23, <1>24, <1>25, <1>26, <1>27, <1>28, <1>29 DEF Next, Serving, Resolving, Chosen

\* A step that leaves the file, and what is known of it, alone.
FileQuiet ==
    /\ file' = file /\ Made' = Made
    /\ \A y \in Procs : \/ owner'[y].txid = owner[y].txid /\ owner'[y].res = owner[y].res
                        \/ owner'[y].txid = 0 /\ owner'[y].res = {} /\ ~Owns(y)'
    /\ \A y \in Procs : Owns(y)' /\ ~owner'[y].poisoned /\ owner'[y].lock = 0
                         => Owns(y) /\ ~owner[y].poisoned /\ owner[y].lock = 0
    /\ \A y \in Procs : txn'[y].pc = "own" => /\ txn[y].pc = "own" /\ txn'[y].base = txn[y].base
                                              /\ owner'[y].txid = owner[y].txid
    /\ \A d \in Made : link'[d].owner = link[d].owner
    /\ \A d \in Made : link'[d].srv \in {"txn", "finishing", "written"} =>
            /\ link[d].srv \in {"txn", "finishing", "written"} /\ link'[d].base = link[d].base
            /\ owner'[link[d].owner].txid = owner[link[d].owner].txid
    /\ \A d \in Made : link'[d].srv \in {"written", "published"} =>
            link'[d].srv = link[d].srv /\ link'[d].base = link[d].base /\ link'[d].id = link[d].id

\* Such a step keeps what is known of the file.
LEMMA QuietKeeps ==
    ASSUME Types, Files, Versions, Landed, FileQuiet
    PROVE  Versions' /\ Landed'
<1>0. \A d \in Made : link[d].owner \in Procs
  BY LinkAt
<1>1. \A y \in Procs : owner'[y].txid \in 0 .. Len(file')
  BY DEF FileQuiet, Versions, Files
<1>2. \A y \in Procs : Owns(y)' /\ ~owner'[y].poisoned /\ owner'[y].lock = 0
          => owner'[y].txid = Len(file')
  BY DEF FileQuiet, Versions
<1>3. \A y \in Procs : txn'[y].pc = "own" => txn'[y].base = owner'[y].txid
  BY DEF FileQuiet, Versions
<1>4. \A d \in Made : link'[d].srv \in {"txn", "finishing", "written"}
          => link'[d].base = owner'[link'[d].owner].txid
  BY <1>0 DEF FileQuiet, Versions
<1>5. Versions'
  BY <1>1, <1>2, <1>3, <1>4 DEF FileQuiet, Versions
<1>6. \A d \in Made : link'[d].srv = "written" => Len(file') = link'[d].base + 1
          /\ file'[link'[d].base + 1] = link'[d].id
  BY DEF FileQuiet, Landed
<1>7. \A d \in Made : link'[d].srv = "published"
                        => link'[d].base + 1 \in 1 .. Len(file')
                            /\ file'[link'[d].base + 1] = link'[d].id
  BY DEF FileQuiet, Landed
<1>8. \A y \in Procs : \A r \in owner'[y].res :
            r[1] \in 1 .. owner'[y].txid /\ r[1] > owner'[y].txid - ResWindow
                /\ file'[r[1]] = r[2]
  BY DEF FileQuiet, Landed
<1> QED BY <1>5, <1>6, <1>7, <1>8 DEF FileQuiet, Landed

\* The steps that are such.
LEMMA QuietSteps ==
    ASSUME Types, OneOwner, Threads, Ends, Gates, Requests,
           \/ \E p \in Procs : \/ StartShutdown(p) \/ FinishShutdown(p) \/ Crash(p)
                                   \/ OwnRollback(p) \/ OwnStale(p)
                               \/ GiveUp(p) \/ ResolveSelf(p) \/ Ask(p) \/ Answer(p)
           \/ \E c \in Made : \/ ClientSend(c) \/ ClientAbort(c) \/ ClientClose(c) \/ Revoke(c)
                              \/ HangUpIdle(c) \/ ReadEnd(c) \/ Ack(c) \/ End(c) \/ Break(c)
    PROVE  FileQuiet
<1>0. \A d \in Made : link[d].owner \in Procs /\ link[d].client \in Procs
  BY LinkAt
<1>00. Own \notin Made /\ Free \notin Made /\ 0 \notin Made /\ Own # Free
  BY DEF Made, Own, Free
<1>2. ASSUME NEW p \in Procs, StartShutdown(p) PROVE FileQuiet
  <2>1. /\ file' = file /\ txn' = txn /\ Made' = Made
        /\ \A d \in Made : /\ link'[d].owner = link[d].owner /\ link'[d].srv = link[d].srv
                           /\ link'[d].base = link[d].base /\ link'[d].id = link[d].id
    BY <1>2, StartShutdownEffect DEF LinksHung, LinkIs
  <2>2. \A y \in Procs : /\ owner'[y].txid = owner[y].txid /\ owner'[y].res = owner[y].res
                         /\ owner'[y].lock = owner[y].lock /\ (Owns(y)' => Owns(y))
                         /\ (owner'[y].poisoned <=> owner[y].poisoned)
    BY <1>2, StartShutdownEffect DEF OwnerTo, OwnerIs, Owns
  <2> QED BY <1>0, <2>1, <2>2 DEF FileQuiet
<1>3. ASSUME NEW p \in Procs, FinishShutdown(p) PROVE FileQuiet
  <2>1. /\ UNCHANGED <<file, link>> /\ Made' = Made
        /\ \A d \in Made : link[d].owner = p => link[d].srv = "gone"
    BY <1>3, FinishShutdownEffect DEF Made
  <2>2. /\ owner'[p].txid = 0 /\ owner'[p].res = {} /\ ~Owns(p)'
        /\ \A y \in Procs : y # p => owner'[y] = owner[y]
    BY <1>3, FinishShutdownEffect DEF OwnerTo, OwnerIs, Owns
  <2>3. txn'[p].pc # "own" /\ \A y \in Procs : y # p => txn'[y] = txn[y]
    BY <1>3, FinishShutdownEffect DEF TxnTo, TxnIs
  <2> QED BY <1>0, <2>1, <2>2, <2>3 DEF FileQuiet, Owns
<1>4. ASSUME NEW p \in Procs, Crash(p) PROVE FileQuiet
  <2>4. ASSUME NEW d \in Made
        PROVE  /\ link'[d].owner = link[d].owner
               /\ link[d].owner = p => link'[d].srv = "gone"
               /\ link[d].owner # p => /\ link'[d].srv = link[d].srv
                                       /\ link'[d].base = link[d].base /\ link'[d].id = link[d].id
    <3>1. CASE link[d].owner = p
      BY <1>4, <3>1, CrashEffect DEF LinksLost, LinkIs
    <3>2. CASE link[d].owner # p
      <4>1. LinkIs(link[d], link'[d], link[d].srv, link[d].base, link[d].id, link[d].sent,
                   link[d].up /\ link[d].client # p, link[d].hung)
        BY <1>4, <3>2, CrashEffect DEF LinksLost
      <4> QED BY <3>2, <4>1 DEF LinkIs
    <3> QED BY <3>1, <3>2
  <2>1. file' = file /\ Made' = Made
    BY <1>4, CrashEffect DEF LinksLost
  <2>2. /\ owner'[p].txid = 0 /\ owner'[p].res = {} /\ ~Owns(p)'
        /\ \A y \in Procs : y # p => owner'[y] = owner[y]
    BY <1>4, CrashEffect DEF OwnerTo, OwnerIs, Owns
  <2>3. txn'[p].pc # "own" /\ \A y \in Procs : y # p => txn'[y] = txn[y]
    BY <1>4, CrashEffect DEF TxnTo, TxnIs
  <2> QED BY <1>0, <2>1, <2>2, <2>3, <2>4 DEF FileQuiet, Owns
<1>6. ASSUME NEW p \in Procs, OwnRollback(p) PROVE FileQuiet
  <2>1. UNCHANGED <<file, link>> /\ Made' = Made
    BY <1>6, OwnRollbackEffect DEF Made
  <2>2. \A y \in Procs : txn'[y].pc = "own" => txn'[y] = txn[y]
    BY <1>6, OwnRollbackEffect DEF TxnTo, TxnIs
  <2>3. \A y \in Procs : /\ owner'[y].txid = owner[y].txid /\ owner'[y].res = owner[y].res
                         /\ owner'[y].lock = owner[y].lock /\ (Owns(y)' <=> Owns(y))
                         /\ (owner'[y].poisoned <=> owner[y].poisoned)
    BY <1>6, OwnRollbackEffect DEF OwnerTo, OwnerIs, Owns
  <2> QED BY <1>0, <2>1, <2>2, <2>3 DEF FileQuiet
<1>8. ASSUME NEW p \in Procs, OwnStale(p) PROVE FileQuiet
  <2>1. UNCHANGED <<file, owner, link>> /\ Made' = Made
    BY <1>8, OwnStaleEffect DEF Made
  <2>2. \A y \in Procs : txn'[y].pc = "own" => txn'[y] = txn[y]
    BY <1>8, OwnStaleEffect DEF TxnTo, TxnIs
  <2> QED BY <1>0, <2>1, <2>2 DEF FileQuiet, Owns
<1>9. ASSUME NEW p \in Procs, GiveUp(p) PROVE FileQuiet
  <2>1. UNCHANGED <<file, owner, link>> /\ Made' = Made
    BY <1>9 DEF GiveUp, Made
  <2>2. TxnTo(p, "idle", 0, 0)
    BY <1>9, ResolvedIs, TellEffect DEF GiveUp, Outcomes
  <2> QED BY <1>0, <2>1, <2>2 DEF FileQuiet, Owns, TxnTo, TxnIs
<1>10. ASSUME NEW p \in Procs, ResolveSelf(p) PROVE FileQuiet
  <2>1. UNCHANGED <<file, owner, link>> /\ Made' = Made
    BY <1>10 DEF ResolveSelf, Made
  <2>2. TxnTo(p, "idle", 0, 0)
    BY <1>10, ResolvedIs, TellEffect DEF ResolveSelf, Outcomes
  <2> QED BY <1>0, <2>1, <2>2 DEF FileQuiet, Owns, TxnTo, TxnIs
<1>11. ASSUME NEW p \in Procs, Ask(p) PROVE FileQuiet
  <2>1. UNCHANGED <<file, owner, link>> /\ Made' = Made
    BY <1>11, AskEffect DEF Made
  <2>2. \A y \in Procs : txn'[y].pc = "own" => txn'[y] = txn[y]
    BY <1>11, AskEffect DEF TxnTo, TxnIs
  <2> QED BY <1>0, <2>1, <2>2 DEF FileQuiet, Owns
<1>12. ASSUME NEW p \in Procs, Answer(p) PROVE FileQuiet
  <2>1. UNCHANGED <<file, owner, link>> /\ Made' = Made
    BY <1>12 DEF Answer, Made
  <2>2. TxnTo(p, "idle", 0, 0)
    BY <1>12, ResolvedIs, TellEffect DEF Answer, Outcomes
  <2> QED BY <1>0, <2>1, <2>2 DEF FileQuiet, Owns, TxnTo, TxnIs
<1>15. ASSUME NEW c \in Made, ClientSend(c) PROVE FileQuiet
  <2>1. /\ file' = file /\ Made' = Made /\ link[c].owner \in Procs /\ link[c].client \in Procs
        /\ link'[c].srv = link[c].srv /\ link'[c].owner = link[c].owner
        /\ \A d \in Made : d # c => link'[d] = link[d]
    BY <1>15, ClientSendEffect DEF LinkTo, LinkIs
  <2>4. link'[c].base = link[c].base /\ link[c].srv \notin {"written", "published"}
    <3>1. link[c].up /\ txn[link[c].client].pc = "begun"
      BY <1>00, <1>15, <2>1, ClientSendEffect DEF Ends
    <3> QED BY <1>15, <3>1, ClientSendEffect DEF LinkTo, LinkIs, Requests
  <2>2. owner' = owner
    BY <1>15, ClientSendEffect
  <2>3. \A y \in Procs : txn'[y].pc = "own" => txn'[y] = txn[y]
    BY <1>15, ClientSendEffect DEF TxnTo, TxnIs
  <2> QED BY <1>0, <2>1, <2>2, <2>3, <2>4 DEF FileQuiet, Owns
<1>16. ASSUME NEW c \in Made, ClientAbort(c) PROVE FileQuiet
  <2>1. /\ file' = file /\ Made' = Made /\ link[c].owner \in Procs /\ link[c].client \in Procs
        /\ link'[c].srv = "idle" /\ link'[c].owner = link[c].owner
        /\ \A d \in Made : d # c => link'[d] = link[d]
    BY <1>16, ClientAbortEffect DEF LinkTo, LinkIs
  <2>2. \A y \in Procs : /\ owner'[y].txid = owner[y].txid /\ owner'[y].res = owner[y].res
                         /\ owner'[y].lock = owner[y].lock /\ (Owns(y)' <=> Owns(y))
                         /\ (owner'[y].poisoned <=> owner[y].poisoned)
    BY <1>16, ClientAbortEffect DEF OwnerTo, OwnerIs, Owns
  <2>3. \A y \in Procs : txn'[y].pc = "own" => txn'[y] = txn[y]
    BY <1>16, ClientAbortEffect DEF TxnTo, TxnIs
  <2> QED BY <1>0, <2>1, <2>2, <2>3 DEF FileQuiet, Owns
<1>17. ASSUME NEW c \in Made, ClientClose(c) PROVE FileQuiet
  <2>1. /\ file' = file /\ Made' = Made /\ link[c].owner \in Procs /\ link[c].client \in Procs
        /\ link'[c].srv = link[c].srv /\ link'[c].owner = link[c].owner
        /\ \A d \in Made : d # c => link'[d] = link[d]
    BY <1>17, ClientCloseEffect DEF LinkTo, LinkIs
  <2>4. link'[c].base = link[c].base /\ link'[c].id = link[c].id
    BY <1>17, ClientCloseEffect DEF LinkTo, LinkIs
  <2>2. owner' = owner
    BY <1>17, ClientCloseEffect
  <2>3. \A y \in Procs : txn'[y].pc = "own" => txn'[y] = txn[y]
    <3>1. CASE txn' # txn
      <4>1. \E s \in {"idle", "lost"} : \E i, b : TxnTo(link[c].client, s, i, b)
        BY <1>17, <2>1, <3>1, ClientCloseEffect, TellEffect DEF Outcomes
      <4> QED BY <4>1 DEF TxnTo, TxnIs
    <3> QED BY <3>1
  <2> QED BY <1>0, <2>1, <2>2, <2>3, <2>4 DEF FileQuiet, Owns
<1>18. ASSUME NEW c \in Made, Revoke(c) PROVE FileQuiet
  <2>1. /\ file' = file /\ Made' = Made /\ link[c].owner \in Procs /\ link[c].client \in Procs
        /\ link'[c].srv = "revoked" /\ link'[c].owner = link[c].owner
        /\ \A d \in Made : d # c => link'[d] = link[d]
    BY <1>18, RevokeEffect DEF LinkTo, LinkIs
  <2>2. \A y \in Procs : /\ owner'[y].txid = owner[y].txid /\ owner'[y].res = owner[y].res
                         /\ owner'[y].lock = owner[y].lock /\ (Owns(y)' <=> Owns(y))
                         /\ (owner'[y].poisoned <=> owner[y].poisoned)
    BY <1>18, RevokeEffect DEF OwnerTo, OwnerIs, Owns
  <2>3. txn' = txn
    BY <1>18, RevokeEffect
  <2> QED BY <1>0, <2>1, <2>2, <2>3 DEF FileQuiet, Owns
<1>19. ASSUME NEW c \in Made, HangUpIdle(c) PROVE FileQuiet
  <2>1. /\ file' = file /\ Made' = Made /\ link[c].owner \in Procs /\ link[c].client \in Procs
        /\ link'[c].srv = link[c].srv /\ link'[c].owner = link[c].owner
        /\ \A d \in Made : d # c => link'[d] = link[d]
    BY <1>19, HangUpIdleEffect DEF LinkTo, LinkIs
  <2>4. link'[c].base = link[c].base /\ link'[c].id = link[c].id
    BY <1>19, HangUpIdleEffect DEF LinkTo, LinkIs
  <2>2. owner' = owner
    BY <1>19, HangUpIdleEffect
  <2>3. txn' = txn
    BY <1>19, HangUpIdleEffect
  <2> QED BY <1>0, <2>1, <2>2, <2>3, <2>4 DEF FileQuiet, Owns
<1>20. ASSUME NEW c \in Made, ReadEnd(c) PROVE FileQuiet
  <2>1. /\ file' = file /\ Made' = Made /\ link[c].owner \in Procs /\ link[c].client \in Procs
        /\ link'[c].srv \in {"finishing", "idle"} /\ link'[c].base = link[c].base
        /\ (link'[c].srv = "finishing" => link[c].srv = "txn") /\ link'[c].owner = link[c].owner
        /\ \A d \in Made : d # c => link'[d] = link[d]
    BY <1>20, ReadEndEffect DEF LinkTo, LinkIs
  <2>2. owner' = owner
    BY <1>20, ReadEndEffect
  <2>3. \A y \in Procs : txn'[y].pc = "own" => txn'[y] = txn[y]
    <3>1. CASE txn' # txn
      <4>1. TxnTo(link[c].client, "idle", 0, 0)
        BY <1>20, <2>1, <3>1, ReadEndEffect, TellEffect DEF Outcomes
      <4> QED BY <4>1 DEF TxnTo, TxnIs
    <3> QED BY <3>1
  <2> QED BY <1>0, <2>1, <2>2, <2>3 DEF FileQuiet, Owns
<1>24. ASSUME NEW c \in Made, Ack(c) PROVE FileQuiet
  <2>1. /\ file' = file /\ Made' = Made /\ link[c].owner \in Procs /\ link[c].client \in Procs
        /\ link'[c].srv = "acked" /\ link'[c].owner = link[c].owner
        /\ \A d \in Made : d # c => link'[d] = link[d]
    BY <1>24, AckEffect DEF LinkTo, LinkIs
  <2>2. owner' = owner
    BY <1>24, AckEffect
  <2>3. \A y \in Procs : txn'[y].pc = "own" => txn'[y] = txn[y]
    <3>1. CASE txn' # txn
      <4>1. TxnTo(link[c].client, "idle", 0, 0)
        BY <1>24, <2>1, <3>1, AckEffect, TellEffect DEF Outcomes
      <4> QED BY <4>1 DEF TxnTo, TxnIs
    <3> QED BY <3>1
  <2> QED BY <1>0, <2>1, <2>2, <2>3 DEF FileQuiet, Owns
<1>26. ASSUME NEW c \in Made, End(c) PROVE FileQuiet
  <2>1. /\ file' = file /\ Made' = Made /\ link[c].owner \in Procs /\ link[c].client \in Procs
        /\ link'[c].srv = "gone" /\ link'[c].owner = link[c].owner
        /\ \A d \in Made : d # c => link'[d] = link[d]
    BY <1>26, EndEffect DEF LinkTo, LinkIs
  <2>2. \A y \in Procs : /\ owner'[y].txid = owner[y].txid /\ owner'[y].res = owner[y].res
                         /\ owner'[y].lock = owner[y].lock /\ (Owns(y)' <=> Owns(y))
                         /\ (owner'[y].poisoned <=> owner[y].poisoned)
    BY <1>26, EndEffect DEF OwnerTo, OwnerIs, Owns
  <2>3. txn' = txn
    BY <1>26, EndEffect
  <2> QED BY <1>0, <2>1, <2>2, <2>3 DEF FileQuiet, Owns
<1>27. ASSUME NEW c \in Made, Break(c) PROVE FileQuiet
  <2>1. /\ file' = file /\ Made' = Made /\ link[c].owner \in Procs /\ link[c].client \in Procs
        /\ link'[c].srv = link[c].srv /\ link'[c].owner = link[c].owner
        /\ \A d \in Made : d # c => link'[d] = link[d]
    BY <1>27, BreakEffect DEF LinkTo, LinkIs
  <2>4. link'[c].base = link[c].base /\ link'[c].id = link[c].id
    BY <1>27, BreakEffect DEF LinkTo, LinkIs
  <2>2. owner' = owner
    BY <1>27, BreakEffect
  <2>3. \A y \in Procs : txn'[y].pc = "own" => txn'[y] = txn[y]
    <3>1. CASE txn' # txn
      <4>1. \E s \in {"idle", "lost"} : \E i, b : TxnTo(link[c].client, s, i, b)
        BY <1>27, <2>1, <3>1, BreakEffect, TellEffect DEF Outcomes
      <4> QED BY <4>1 DEF TxnTo, TxnIs
    <3> QED BY <3>1
  <2> QED BY <1>0, <2>1, <2>2, <2>3, <2>4 DEF FileQuiet, Owns
<1> QED BY <1>2, <1>3, <1>4, <1>6, <1>8, <1>9, <1>10, <1>11, <1>12, <1>15, <1>16, <1>17, <1>18,
     <1>19, <1>20, <1>24, <1>26, <1>27

\* What a window keeps: the new pair and the pairs it had, none too old.
LEMMA KeptIs ==
    ASSUME NEW v, NEW t, NEW i, NEW r \in Kept(v, t, i)
    PROVE  (r \in v \/ r = <<t, i>>) /\ r[1] > t - ResWindow
BY DEF Kept

\* A new owner's window matches the file it recovered.
LEMMA NewWindowMatches ==
    ASSUME Files, NEW first \in {Len(file) - 1, Len(file)}
    PROVE  \A r \in NewWindow(first) : r[1] \in 1 .. Len(file) /\ r[1] > Len(file) - ResWindow
        /\ file[r[1]] = r[2]
BY PageServiceAssumption DEF Files, NewWindow

\* What a commit does to the window of owner q.
OwnerChanged(q) ==
    /\ \A y \in Procs : y # q => owner'[y] = owner[y]
    /\ \/ owner'[q].txid = owner[q].txid /\ owner'[q].res = owner[q].res
       \/ /\ owner'[q].txid = owner[q].txid + 1 /\ owner'[q].txid <= Len(file')
          /\ \E i : file'[owner[q].txid + 1] = i /\ owner'[q].res = Kept(owner[q].res,
              owner[q].txid + 1, i)
    /\ owner'[q].poisoned \/ owner'[q].lock # 0 \/ owner'[q].txid = Len(file')

\* A commit by the one owner, with no transaction open after it, keeps what is
\* known of the file.
LEMMA CommitKeeps ==
    ASSUME Types, Files, Versions, Landed, file' = file \/ FileAppended, NEW q \in Procs,
        OwnerChanged(q),
           \A y \in Procs : (Owns(y)' => y = q) /\ txn'[y].pc # "own",
           \A d \in Made' : link'[d].srv \notin {"txn", "finishing"},
           \A d \in Made' : link'[d].srv = "written" =>
                /\ link'[d].base = owner'[link'[d].owner].txid
                /\ Len(file') = link'[d].base + 1 /\ file'[link'[d].base + 1] = link'[d].id,
           \A d \in Made' : link'[d].srv = "published" =>
                link'[d].base + 1 \in 1 .. Len(file') /\ file'[link'[d].base + 1] = link'[d].id
    PROVE  Versions' /\ Landed'
<1>1. Len(file) \in Nat /\ Len(file') \in Nat /\ Len(file) <= Len(file')
          /\ \A u \in 1 .. Len(file) : file'[u] = file[u]
  BY DEF FileAppended, Files
<1>2. \A y \in Procs : owner[y].txid \in Nat /\ owner[y].txid <= Len(file)
  BY <1>1 DEF Versions
<1>3. \A y \in Procs : owner'[y].txid \in 0 .. Len(file')
  BY <1>1, <1>2 DEF OwnerChanged
<1>4. \A y \in Procs : Owns(y)' /\ ~owner'[y].poisoned /\ owner'[y].lock = 0
          => owner'[y].txid = Len(file')
  BY DEF OwnerChanged
<1>5. ASSUME NEW y \in Procs, owner'[y].txid = owner[y].txid, owner'[y].res = owner[y].res
      PROVE  \A r \in owner'[y].res :
                r[1] \in 1 .. owner'[y].txid /\ r[1] > owner'[y].txid - ResWindow
                    /\ file'[r[1]] = r[2]
  BY <1>1, <1>2, <1>5 DEF Landed
<1>6. ASSUME NEW i, file'[owner[q].txid + 1] = i, owner'[q].txid = owner[q].txid + 1,
             owner'[q].res = Kept(owner[q].res, owner[q].txid + 1, i)
      PROVE  \A r \in owner'[q].res :
                r[1] \in 1 .. owner'[q].txid /\ r[1] > owner'[q].txid - ResWindow
                    /\ file'[r[1]] = r[2]
  <2>1. \A r \in owner[q].res : r[1] \in 1 .. owner[q].txid /\ r[1] > owner[q].txid - ResWindow
            /\ file[r[1]] = r[2]
    BY DEF Landed
  <2>2. \A x \in 1 .. owner[q].txid : file'[x] = file[x]
    BY <1>1, <1>2
  <2>3. owner[q].txid \in Nat /\ ResWindow \in Nat
    BY <1>2, PageServiceAssumption
  <2>4. SUFFICES ASSUME NEW r \in owner'[q].res
                 PROVE  /\ r[1] \in 1 .. owner[q].txid + 1 /\ r[1] > owner[q].txid + 1 - ResWindow
                        /\ file'[r[1]] = r[2]
    BY <1>6, <2>3
  <2>5. (r \in owner[q].res \/ r = <<owner[q].txid + 1, i>>)
            /\ r[1] > owner[q].txid + 1 - ResWindow
    <3>1. r \in Kept(owner[q].res, owner[q].txid + 1, i)
      BY <1>6
    <3> QED BY <2>3, <3>1, KeptIs
  <2>6. CASE r \in owner[q].res
    BY <2>1, <2>2, <2>3, <2>5, <2>6
  <2>7. CASE r = <<owner[q].txid + 1, i>>
    BY <1>6, <2>3, <2>5, <2>7
  <2> QED BY <2>5, <2>6, <2>7
<1>7. \A y \in Procs : y # q => owner'[y].txid = owner[y].txid /\ owner'[y].res = owner[y].res
  BY DEF OwnerChanged
<1>8. \A r \in owner'[q].res :
                r[1] \in 1 .. owner'[q].txid /\ r[1] > owner'[q].txid - ResWindow
                    /\ file'[r[1]] = r[2]
  BY <1>5, <1>6 DEF OwnerChanged
<1>9. Versions'
  BY <1>3, <1>4 DEF Versions
<1>10. Landed'
  BY <1>5, <1>7, <1>8 DEF Landed
<1> QED BY <1>9, <1>10

\* Every step keeps what is known of the file.
LEMMA HistoryStep ==
    ASSUME Types, Files, OneOwner, Threads, Ends, Gates, Requests, Versions, Landed, Next
    PROVE  Versions' /\ Landed'
<1>0. \A d \in Made : link[d].owner \in Procs /\ link[d].client \in Procs
  BY LinkAt
<1>00. Own \notin Made /\ Free \notin Made /\ 0 \notin Made /\ Own # Free
  BY DEF Made, Own, Free
<1>x. /\ \A p, q \in Procs : Owns(p) /\ Owns(q) => p = q
      /\ \A p \in Procs : txn[p].pc = "own" => Owns(p)
      /\ \A c \in Made : link[c].srv \in Active => Owns(link[c].owner)
      /\ \A c, d \in Made : link[c].srv \in Active /\ link[d].srv \in Active => c = d
      /\ \A c \in Made, p \in Procs : link[c].srv \in Active => txn[p].pc # "own"
  BY Exclusive
<1>f. file' = file \/ FileAppended
  BY FileStep
<1>1. ASSUME NEW p \in Procs, Promote(p) PROVE Versions' /\ Landed'
  <2>1. UNCHANGED <<file, txn, link>> /\ Made' = Made /\ ~Owns(p)
    BY <1>1, PromoteEffect DEF Made
  <2>0. PICK first \in {Len(file) - 1, Len(file)}, s \in {"serving", "unbound"} :
          OwnerTo(p, s, Len(file), NewWindow(first), Free, 0, FALSE)
    BY <1>1, PromoteEffect
  <2>2. /\ owner'[p].txid = Len(file) /\ owner'[p].res = NewWindow(first)
        /\ \A y \in Procs : y # p => owner'[y] = owner[y]
    BY <2>0 DEF OwnerTo, OwnerIs
  <2>3. /\ txn[p].pc # "own"
        /\ \A d \in Made : link[d].srv \in {"txn", "finishing", "written"} => link[d].owner # p
    BY <2>1, <1>x DEF Active
  <2>4. Versions'
    <3>1. Len(file) \in 0 .. Len(file)
      BY DEF Files
    <3> QED BY <1>0, <2>1, <2>2, <2>3, <3>1 DEF Versions, Owns
  <2>5. Landed'
    BY <2>1, <2>2, NewWindowMatches DEF Landed
  <2> QED BY <2>4, <2>5
<1>2. ASSUME NEW p \in Procs, StartShutdown(p) PROVE Versions' /\ Landed'
  BY <1>2, QuietKeeps, QuietSteps
<1>3. ASSUME NEW p \in Procs, FinishShutdown(p) PROVE Versions' /\ Landed'
  BY <1>3, QuietKeeps, QuietSteps
<1>4. ASSUME NEW p \in Procs, Crash(p) PROVE Versions' /\ Landed'
  BY <1>4, QuietKeeps, QuietSteps
<1>5. ASSUME NEW p \in Procs, OwnBegin(p) PROVE Versions' /\ Landed'
  <2>1. UNCHANGED <<file, link>> /\ Made' = Made
    BY <1>5, OwnBeginEffect DEF Made
  <2>2. \A y \in Procs : /\ owner'[y].txid = owner[y].txid /\ owner'[y].res = owner[y].res
                         /\ owner'[y].lock = owner[y].lock /\ (Owns(y)' <=> Owns(y))
                         /\ (owner'[y].poisoned <=> owner[y].poisoned)
    BY <1>5, OwnBeginEffect DEF OwnerTo, OwnerIs, Owns
  <2>3. txn'[p].base = owner[p].txid /\ \A y \in Procs : y # p => txn'[y] = txn[y]
    BY <1>5, OwnBeginEffect DEF TxnTo, TxnIs
  <2> QED BY <1>0, <2>1, <2>2, <2>3 DEF Versions, Landed
<1>6. ASSUME NEW p \in Procs, OwnRollback(p) PROVE Versions' /\ Landed'
  BY <1>6, QuietKeeps, QuietSteps
<1>7. ASSUME NEW p \in Procs, OwnCommit(p) PROVE Versions' /\ Landed'
  <2>1. UNCHANGED link /\ Made' = Made /\ txn[p].pc = "own" /\ TxnTo(p, "idle", 0, 0)
    BY <1>7, OwnCommitEffect DEF Made
  <2>2. \A d \in Made' : link'[d].srv \notin {"txn", "finishing", "written", "published"}
    BY <1>x, <2>1 DEF Active
  <2>3. (\A y \in Procs : Owns(y) => y = p) /\ txn[p].base = owner[p].txid
    BY <1>x, <2>1 DEF Versions
  <2>4. \A y \in Procs : txn'[y].pc # "own"
    BY <1>x, <2>1, <2>3 DEF TxnTo, TxnIs
  <2>5. OwnerChanged(p)
    <3>1. CASE /\ ~owner[p].poisoned /\ file' = Write(txn[p].base + 1, Len(outcome) + 1)
               /\ OwnerTo(p, owner[p].state, txn[p].base + 1,
                          Kept(owner[p].res, txn[p].base + 1, Len(outcome) + 1), Free,
                              owner[p].lock,
                          owner[p].poisoned)
      <4>1. txn[p].base = Len(file) /\ Len(file) \in Nat
        BY <2>1, <3>1, WritersAtEnd DEF Files
      <4>2. txn[p].base + 1 <= MaxTxid /\ Len(outcome) + 1 \in 0 .. MaxIds
        <5>1. txn[p].base + 1 <= MaxTxid /\ Len(outcome) < MaxIds
          BY <1>7, OwnCommitEffect
        <5>2. Len(outcome) \in Nat
          BY DEF Types
        <5> QED BY <5>1, <5>2, PageServiceAssumption
      <4>3. Len(file') = Len(file) + 1 /\ file'[Len(file) + 1] = Len(outcome) + 1
        BY <3>1, <4>1, <4>2, WriteAppends
      <4> QED BY <2>3, <3>1, <4>1, <4>3 DEF OwnerChanged, OwnerTo, OwnerIs
    <3>2. CASE /\ owner[p].poisoned /\ file' = file
               /\ OwnerTo(p, owner[p].state, owner[p].txid, owner[p].res, Free, owner[p].lock,
                   owner[p].poisoned)
      BY <3>2 DEF OwnerChanged, OwnerTo, OwnerIs
    <3>3. CASE OwnerTo(p, owner[p].state, owner[p].txid, owner[p].res, Free, owner[p].lock, TRUE)
      BY <3>3 DEF OwnerChanged, OwnerTo, OwnerIs
    <3> QED BY <1>7, <3>1, <3>2, <3>3, OwnCommitEffect
  <2>6. \A y \in Procs : Owns(y)' => y = p
    BY <2>3, <2>5 DEF OwnerChanged, Owns
  <2> QED BY <1>f, <2>2, <2>4, <2>5, <2>6, CommitKeeps
<1>8. ASSUME NEW p \in Procs, OwnStale(p) PROVE Versions' /\ Landed'
  BY <1>8, QuietKeeps, QuietSteps
<1>9. ASSUME NEW p \in Procs, GiveUp(p) PROVE Versions' /\ Landed'
  BY <1>9, QuietKeeps, QuietSteps
<1>10. ASSUME NEW p \in Procs, ResolveSelf(p) PROVE Versions' /\ Landed'
  BY <1>10, QuietKeeps, QuietSteps
<1>11. ASSUME NEW p \in Procs, Ask(p) PROVE Versions' /\ Landed'
  BY <1>11, QuietKeeps, QuietSteps
<1>12. ASSUME NEW p \in Procs, Answer(p) PROVE Versions' /\ Landed'
  BY <1>12, QuietKeeps, QuietSteps
<1>13. ASSUME NEW p \in Procs, NEW q \in Procs, Reconnect(p, q) PROVE Versions' /\ Landed'
  <2> DEFINE n == Len(link) + 1
  <2>1. /\ Made' = Made \cup {n} /\ UNCHANGED <<file, owner, txn>>
        /\ \A d \in Made : link'[d] = link[d]
        /\ link'[n].srv = "idle"
    BY <1>13, ReconnectEffect DEF LinkMade
  <2> HIDE DEF n
  <2> QED BY <2>1 DEF Versions, Landed, Owns
<1>14. ASSUME NEW c \in Made, ClientBegin(c) PROVE Versions' /\ Landed'
  <2>1. /\ file' = file /\ Made' = Made /\ link'[c].srv = "txn" /\ link'[c].owner = link[c].owner
        /\ link'[c].base = owner[link[c].owner].txid
        /\ \A d \in Made : d # c => link'[d] = link[d]
    BY <1>14, ClientBeginEffect DEF LinkTo, LinkIs
  <2>2. \A y \in Procs : /\ owner'[y].txid = owner[y].txid /\ owner'[y].res = owner[y].res
                         /\ owner'[y].lock = owner[y].lock /\ (Owns(y)' <=> Owns(y))
                         /\ (owner'[y].poisoned <=> owner[y].poisoned)
    BY <1>14, ClientBeginEffect DEF OwnerTo, OwnerIs, Owns
  <2>3. \A y \in Procs : txn'[y].pc = "own" => txn'[y] = txn[y]
    BY <1>14, ClientBeginEffect DEF TxnTo, TxnIs
  <2>4. Versions'
    BY <1>0, <2>1, <2>2, <2>3 DEF Versions
  <2>5. Landed'
    BY <2>1, <2>2 DEF Landed
  <2> QED BY <2>4, <2>5
<1>15. ASSUME NEW c \in Made, ClientSend(c) PROVE Versions' /\ Landed'
  BY <1>15, QuietKeeps, QuietSteps
<1>16. ASSUME NEW c \in Made, ClientAbort(c) PROVE Versions' /\ Landed'
  BY <1>16, QuietKeeps, QuietSteps
<1>17. ASSUME NEW c \in Made, ClientClose(c) PROVE Versions' /\ Landed'
  BY <1>17, QuietKeeps, QuietSteps
<1>18. ASSUME NEW c \in Made, Revoke(c) PROVE Versions' /\ Landed'
  BY <1>18, QuietKeeps, QuietSteps
<1>19. ASSUME NEW c \in Made, HangUpIdle(c) PROVE Versions' /\ Landed'
  BY <1>19, QuietKeeps, QuietSteps
<1>20. ASSUME NEW c \in Made, ReadEnd(c) PROVE Versions' /\ Landed'
  BY <1>20, QuietKeeps, QuietSteps
<1>21. ASSUME NEW c \in Made, CommitDelta(c) PROVE Versions' /\ Landed'
  <2>1. /\ link[c].srv = "finishing" /\ Made' = Made /\ txn' = txn /\ link[c].owner \in Procs
        /\ link'[c].srv = "written" /\ link'[c].owner = link[c].owner
        /\ link'[c].base = link[c].base /\ link'[c].id = link[c].id
        /\ \A d \in Made : d # c => link'[d].srv = link[d].srv
    BY <1>21, CommitDeltaEffect DEF LinkTo, LinkIs
  <2>2. \A d \in Made : d # c => link'[d].srv \notin Active
    BY <1>x, <2>1 DEF Active
  <2>3. \A y \in Procs : (Owns(y) => y = link[c].owner) /\ txn'[y].pc # "own"
    BY <1>x, <2>1 DEF Active
  <2>4. /\ link[c].base = Len(file) /\ Len(file') = Len(file) + 1
        /\ file'[link[c].base + 1] = link[c].id
    <3>1. link[c].base = Len(file) /\ file' = Write(link[c].base + 1, link[c].id)
      BY <1>21, <2>1, CommitDeltaEffect, WritersAtEnd
    <3>2. /\ link[c].base + 1 \in Nat /\ link[c].base + 1 <= MaxTxid
          /\ link[c].id \in 0 .. MaxIds
      BY <2>1, LinkAt, PageServiceAssumption DEF Types
    <3> QED BY <3>1, <3>2, WriteAppends
  <2>5. OwnerChanged(link[c].owner)
    BY <1>00, <1>21, CommitDeltaEffect DEF OwnerChanged, OwnerTo, OwnerIs
  <2>6. \A y \in Procs : Owns(y)' => y = link[c].owner
    BY <2>3, <2>5 DEF OwnerChanged, Owns
  <2>7. link'[c].base = owner'[link'[c].owner].txid
    <3>1. link[c].base = owner[link[c].owner].txid
      BY <2>1 DEF Versions
    <3> QED BY <1>21, <2>1, <3>1, CommitDeltaEffect DEF OwnerTo, OwnerIs
  <2>8. Len(file') = link'[c].base + 1 /\ file'[link'[c].base + 1] = link'[c].id
    BY <2>1, <2>4
  <2> QED BY <1>f, <2>1, <2>2, <2>3, <2>5, <2>6, <2>7, <2>8, CommitKeeps DEF Active
<1>22. ASSUME NEW c \in Made, CommitDeltaFails(c) PROVE Versions' /\ Landed'
  <2>1. /\ link[c].srv = "finishing" /\ Made' = Made /\ txn' = txn /\ link[c].owner \in Procs
        /\ link'[c].srv = "failing" /\ link'[c].owner = link[c].owner
        /\ \A d \in Made : d # c => link'[d].srv = link[d].srv
    BY <1>22, CommitDeltaFailsEffect DEF FailsTo, LinkTo, LinkIs
  <2>2. \A d \in Made : d # c => link'[d].srv \notin Active
    BY <1>x, <2>1 DEF Active
  <2>3. \A y \in Procs : (Owns(y) => y = link[c].owner) /\ txn'[y].pc # "own"
    BY <1>x, <2>1 DEF Active
  <2>5. OwnerChanged(link[c].owner)
    BY <1>22, CommitDeltaFailsEffect DEF FailsTo, OwnerChanged, OwnerTo, OwnerIs
  <2>6. \A y \in Procs : Owns(y)' => y = link[c].owner
    BY <2>3, <2>5 DEF OwnerChanged, Owns
  <2> QED BY <1>f, <2>1, <2>2, <2>3, <2>5, <2>6, CommitKeeps DEF Active
<1>23. ASSUME NEW c \in Made, Publish(c) PROVE Versions' /\ Landed'
  <2>1. /\ link[c].srv = "written" /\ Made' = Made /\ txn' = txn /\ link[c].owner \in Procs
        /\ link'[c].srv = "published" /\ link'[c].owner = link[c].owner
        /\ link'[c].base = link[c].base /\ link'[c].id = link[c].id
        /\ \A d \in Made : d # c => link'[d].srv = link[d].srv
    BY <1>23, PublishEffect DEF LinkTo, LinkIs
  <2>2. \A d \in Made : d # c => link'[d].srv \notin Active
    BY <1>x, <2>1 DEF Active
  <2>3. \A y \in Procs : (Owns(y) => y = link[c].owner) /\ txn'[y].pc # "own"
    BY <1>x, <2>1 DEF Active
  <2>4. /\ link[c].base = owner[link[c].owner].txid /\ Len(file') = link[c].base + 1
        /\ file' = file
        /\ file'[link[c].base + 1] = link[c].id /\ link[c].base \in Nat
    BY <1>23, <2>1, PublishEffect, LinkAt, PageServiceAssumption DEF Versions, Landed
  <2>5. OwnerChanged(link[c].owner)
    BY <1>23, <2>4, PublishEffect DEF OwnerChanged, OwnerTo, OwnerIs
  <2>6. \A y \in Procs : Owns(y)' => y = link[c].owner
    BY <2>3, <2>5 DEF OwnerChanged, Owns
  <2>7. link'[c].base + 1 \in 1 .. Len(file') /\ file'[link'[c].base + 1] = link'[c].id
    BY <2>1, <2>4
  <2> QED BY <1>f, <2>1, <2>2, <2>3, <2>5, <2>6, <2>7, CommitKeeps DEF Active
<1>24. ASSUME NEW c \in Made, Ack(c) PROVE Versions' /\ Landed'
  BY <1>24, QuietKeeps, QuietSteps
<1>25. ASSUME NEW c \in Made, Release(c) PROVE Versions' /\ Landed'
  <2>1. /\ link[c].srv = "acked" /\ Made' = Made /\ txn' = txn /\ link[c].owner \in Procs
        /\ link'[c].srv = "idle" /\ link'[c].owner = link[c].owner
        /\ \A d \in Made : d # c => link'[d].srv = link[d].srv
    BY <1>25, ReleaseEffect DEF LinkTo, LinkIs
  <2>2. \A d \in Made : d # c => link'[d].srv \notin Active
    BY <1>x, <2>1 DEF Active
  <2>3. \A y \in Procs : (Owns(y) => y = link[c].owner) /\ txn'[y].pc # "own"
    BY <1>x, <2>1 DEF Active
  <2>4. owner[link[c].owner].poisoned \/ owner[link[c].owner].txid = Len(file)
    BY <2>1, WritersAtEnd
  <2>5. OwnerChanged(link[c].owner)
    <3> DEFINE q == link[c].owner
    <3>1. CASE /\ file' = file
               /\ OwnerTo(q, owner[q].state, owner[q].txid, owner[q].res, Free, owner[q].lock,
                   owner[q].poisoned)
      BY <2>4, <3>1 DEF OwnerChanged, OwnerTo, OwnerIs
    <3>2. CASE /\ ~owner[q].poisoned /\ owner[q].txid + 1 <= MaxTxid
               /\ file' = Write(owner[q].txid + 1, Maintenance)
               /\ OwnerTo(q, owner[q].state, owner[q].txid + 1,
                          Kept(owner[q].res, owner[q].txid + 1, Maintenance), Free,
                              owner[q].lock, owner[q].poisoned)
      <4>1. owner[q].txid = Len(file) /\ Len(file) \in Nat /\ Maintenance \in 0 .. MaxIds
        BY <2>4, <3>2, PageServiceAssumption DEF Files, Maintenance
      <4>2. Len(file') = Len(file) + 1 /\ file'[Len(file) + 1] = Maintenance
        BY <3>2, <4>1, WriteAppends
      <4> QED BY <3>2, <4>1, <4>2 DEF OwnerChanged, OwnerTo, OwnerIs
    <3> QED BY <1>25, <3>1, <3>2, ReleaseEffect
  <2>6. \A y \in Procs : Owns(y)' => y = link[c].owner
    BY <2>3, <2>5 DEF OwnerChanged, Owns
  <2> QED BY <1>f, <2>1, <2>2, <2>3, <2>5, <2>6, CommitKeeps DEF Active
<1>26. ASSUME NEW c \in Made, End(c) PROVE Versions' /\ Landed'
  BY <1>26, QuietKeeps, QuietSteps
<1>27. ASSUME NEW c \in Made, Break(c) PROVE Versions' /\ Landed'
  BY <1>27, QuietKeeps, QuietSteps
<1>28. ASSUME NEW c \in Made, ReleaseFails(c) PROVE Versions' /\ Landed'
  <2>1. /\ link[c].srv = "acked" /\ Made' = Made /\ txn' = txn /\ link[c].owner \in Procs
        /\ link'[c].srv = "failing" /\ link'[c].owner = link[c].owner
        /\ \A d \in Made : d # c => link'[d].srv = link[d].srv
    BY <1>28, ReleaseFailsEffect DEF FailsTo, LinkTo, LinkIs
  <2>2. \A d \in Made : d # c => link'[d].srv \notin Active
    BY <1>x, <2>1 DEF Active
  <2>3. \A y \in Procs : (Owns(y) => y = link[c].owner) /\ txn'[y].pc # "own"
    BY <1>x, <2>1 DEF Active
  <2>5. OwnerChanged(link[c].owner)
    BY <1>28, ReleaseFailsEffect DEF FailsTo, OwnerChanged, OwnerTo, OwnerIs
  <2>6. \A y \in Procs : Owns(y)' => y = link[c].owner
    BY <2>3, <2>5 DEF OwnerChanged, Owns
  <2> QED BY <1>f, <2>1, <2>2, <2>3, <2>5, <2>6, CommitKeeps DEF Active
<1>29. ASSUME NEW c \in Made, StopServing(c) PROVE Versions' /\ Landed'
  <2>1. /\ link[c].srv = "failing" /\ Made' = Made /\ txn' = txn /\ link[c].owner \in Procs
        /\ link'[c].srv = "idle" /\ link'[c].owner = link[c].owner
        /\ \A d \in Made : d # c => link'[d].srv = link[d].srv
    BY <1>29, StopServingEffect DEF LinksHung, LinkIs
  <2>2. \A d \in Made : d # c => link'[d].srv \notin Active
    BY <1>x, <2>1 DEF Active
  <2>3. \A y \in Procs : (Owns(y) => y = link[c].owner) /\ txn'[y].pc # "own"
    BY <1>x, <2>1 DEF Active
  <2>4. owner[link[c].owner].poisoned \/ owner[link[c].owner].txid = Len(file)
    BY <2>1, Exclusive DEF Versions, Active
  <2>5. OwnerChanged(link[c].owner)
    BY <1>29, <2>4, StopServingEffect DEF OwnerChanged, OwnerTo, OwnerIs
  <2>6. \A y \in Procs : Owns(y)' => y = link[c].owner
    BY <2>3, <2>5 DEF OwnerChanged, Owns
  <2> QED BY <1>f, <2>1, <2>2, <2>3, <2>5, <2>6, CommitKeeps DEF Active
<1> QED BY <1>1, <1>2, <1>3, <1>4, <1>5, <1>6, <1>7, <1>8, <1>9, <1>10, <1>11, <1>12,
           <1>13, <1>14, <1>15, <1>16, <1>17, <1>18, <1>19, <1>20, <1>21, <1>22,
           <1>23, <1>24, <1>25, <1>26, <1>27, <1>28, <1>29 DEF Next, Serving, Resolving, Chosen

-----------------------------------------------------------------------------
(* The theorems. *)

\* The inductive invariant.
PageInv ==
    /\ Types /\ Files /\ OneOwner /\ Threads /\ Ends /\ Gates /\ Requests /\ Versions /\ Landed

\* A window holds at most RESOLUTION_WINDOW_COMMITS pairs: one for each txid
\* it keeps.
LEMMA WindowSize ==
    ASSUME Types, Files, Landed, NEW p \in Procs
    PROVE  Cardinality(owner[p].res) <= ResWindow
<1> DEFINE R == owner[p].res
           t == owner[p].txid
           T == t - ResWindow + 1 .. t
           f == [r \in R |-> r[1]]
<1>1. t \in Int /\ ResWindow \in Nat \ {0}
  BY OwnerAt, PageServiceAssumption
<1>2. R \in SUBSET ((1 .. MaxTxid) \X (0 .. MaxIds))
  BY OwnerAt DEF Owners
<1>3. \A r \in R : r[1] \in 1 .. t /\ r[1] > t - ResWindow /\ file[r[1]] = r[2]
  BY DEF Landed
<1>4. \A r \in R : r = <<r[1], r[2]>> /\ r[1] \in Int
  BY <1>2
<1> HIDE DEF R, t
<1>5. f \in [R -> T]
  BY <1>1, <1>3, <1>4
<1>6. \A r, s \in R : r[1] = s[1] => r = s
  <2> TAKE r, s \in R
  <2> HAVE r[1] = s[1]
  <2>1. r[2] = s[2]
    BY <1>3
  <2>2. r = <<r[1], r[2]>> /\ s = <<s[1], s[2]>>
    BY <1>4
  <2> QED BY <2>1, <2>2
<1>7. f \in Injection(R, T)
  BY <1>5, <1>6 DEF Injection, IsInjective
<1>8. IsFiniteSet(T) /\ Cardinality(T) = ResWindow
  <2>1. t - ResWindow + 1 \in Int /\ ~(t - ResWindow + 1 > t)
            /\ t - (t - ResWindow + 1) + 1 = ResWindow
    BY <1>1
  <2> QED BY <1>1, <2>1, FS_Interval
<1> HIDE DEF f, T
<1>9. Cardinality(R) <= Cardinality(T)
  BY <1>7, <1>8, FS_Injection
<1> QED BY <1>8, <1>9 DEF R

\* The inductive invariant holds in the initial state.
LEMMA PageInit == Init => PageInv
<1> SUFFICES ASSUME Init PROVE PageInv
  OBVIOUS
<1>1. Made = {} /\ Len(link) = 0 /\ link = <<>> /\ file = <<>> /\ Len(file) = 0 /\ outcome = <<>>
          /\ Len(outcome) = 0
  BY DEF Init, Made
<1>2. \A p \in Procs : owner[p] = NotOwner /\ conn[p] = 0 /\ txn[p] = NoTxn
  BY DEF Init
<1>3. Types
  <2>1. owner \in [Procs -> Owners] /\ txn \in [Procs -> Txns] /\ conn \in [Procs -> Nat]
    BY Constants DEF Init
  <2>2. link \in Seq(Links) /\ outcome \in Seq(Outcomes) /\ Len(outcome) <= MaxIds
    BY <1>1, PageServiceAssumption
  <2> QED BY <1>1, <2>1, <2>2 DEF Types, Init
<1>4. Files
  BY <1>1, PageServiceAssumption DEF Files
<1>5. OneOwner
  BY <1>2, PageServiceAssumption DEF OneOwner, Init, NotOwner, Owns
<1>6. Threads /\ Ends
  BY <1>1, <1>2 DEF Threads, Ends, NotOwner, Owns, Closed
<1>7. Gates
  BY <1>1, <1>2 DEF Gates, NotOwner, NoTxn, Free, Own
<1>8. Requests
  BY <1>1, <1>2 DEF Requests, NoTxn
<1>9. Versions /\ Landed
  BY <1>1, <1>2 DEF Versions, Landed, NotOwner, NoTxn
<1> QED BY <1>3, <1>4, <1>5, <1>6, <1>7, <1>8, <1>9 DEF PageInv

\* Every step keeps the inductive invariant.
LEMMA PageStep == PageInv /\ [Next]_vars => PageInv'
<1> SUFFICES ASSUME PageInv, [Next]_vars PROVE PageInv'
  OBVIOUS
<1> USE DEF PageInv
<1>1. CASE Next
  <2>1. Files'
    BY <1>1, FileStep DEF FileAppended, Files
  <2> QED BY <1>1, <2>1, TypesStep, OneOwnerStep, ThreadsStep, EndsStep, GatesStep, RequestsStep,
       HistoryStep
<1>2. CASE UNCHANGED vars
  <2>1. UNCHANGED <<file, presence, owner, conn, link, txn, outcome>>
    BY <1>2 DEF vars
  <2>2. Types' /\ Files'
    BY <2>1 DEF Types, Files, Made
  <2>3. OneOwner' /\ Threads' /\ Ends'
    BY <2>1 DEF OneOwner, Threads, Ends, Owns, Made, Closed
  <2>4. Gates' /\ Requests'
    BY <2>1 DEF Gates, Requests, Made
  <2>5. Versions' /\ Landed'
    BY <2>1 DEF Versions, Landed, Owns, Made
  <2> QED BY <2>2, <2>3, <2>4, <2>5
<1> QED BY <1>1, <1>2

\* The inductive invariant holds in every state.
LEMMA PageSafe == Spec => []PageInv
BY PageInit, PageStep, PTL DEF Spec

\* Every variable keeps its type, however many processes elect, serve, revoke
\* and crash: the gate, the commit lock and the clients' ends name connections
\* that were made, and a window stays within RESOLUTION_WINDOW_COMMITS.
THEOREM PageServiceTypes == Spec => []TypeOK
<1>1. ASSUME PageInv PROVE TypeOK
  <2> USE <1>1 DEF PageInv
  <2>1. file \in Seq(Ids \cup {Maintenance}) /\ Len(file) <= MaxTxid
    <3>1. Ids \cup {Maintenance} = 0 .. MaxIds
      BY PageServiceAssumption DEF Ids, Maintenance
    <3> QED BY <3>1 DEF Files
  <2>2. ASSUME NEW p \in Procs
        PROVE  /\ owner[p].state \in States /\ owner[p].txid \in 0 .. Len(file)
               /\ owner[p].gate \in {Free, Own} \cup Made /\ owner[p].lock \in Made \cup {0}
               /\ conn[p] \in Made \cup {0} /\ txn[p].pc \in Pcs
    BY OwnerAt, TxnAt DEF Versions, Gates, Ends
  <2>3. \A c \in Made : link[c].srv \in Srvs
    BY LinkAt
  <2>4. \A p \in Procs : Cardinality(owner[p].res) <= ResWindow
    BY WindowSize
  <2>5. presence \in Procs \cup {NoProc} /\ outcome \in Seq(Outcomes) /\ Len(outcome) <= MaxIds
    BY DEF Types
  <2> QED BY <2>1, <2>2, <2>3, <2>4, <2>5 DEF TypeOK, States, Pcs, Srvs
<1> QED BY <1>1, PageSafe, PTL

\* Whoever may write the file holds presence: release_ownership joins every
\* connection thread before it gives presence up, and the writer of an owner
\* that gave up its role does not persist.
THEOREM WriterKeepsPresence == Spec => []WriterHoldsPresence
<1>1. ASSUME PageInv PROVE WriterHoldsPresence
  <2> USE <1>1 DEF PageInv
  <2>1. \A c \in Made : link[c].owner \in Procs
    BY LinkAt
  <2>2. \A c \in Made : link[c].srv \in Active => presence = link[c].owner
    BY <2>1, Exclusive DEF OneOwner
  <2>3. \A p \in Procs : txn[p].pc = "own" \/ owner[p].gate # Free => presence = p
    BY Exclusive DEF OneOwner
  <2> QED BY <2>2, <2>3 DEF WriterHoldsPresence, Active
<1> QED BY <1>1, PageSafe, PTL

\* The window an owner answers commit_status from is the file's newest
\* commits, unless the holder of the commit lock is about to publish or the
\* pager is poisoned.
THEOREM WindowStaysTrue == Spec => []WindowMatchesFile
<1>1. ASSUME PageInv PROVE WindowMatchesFile
  BY <1>1 DEF PageInv, Versions, Landed, WindowMatchesFile
<1> QED BY <1>1, PageSafe, PTL

\* A file that grew by one commit has the old one as a prefix.
LEMMA FilePrefix ==
    ASSUME Files, file' = file \/ FileAppended
    PROVE  IsPrefix(file, file')
<1>1. file \in Seq(0 .. MaxIds) /\ Len(file) \in Nat /\ file' \in Seq(0 .. MaxIds)
          /\ Len(file) <= Len(file')
  BY DEF Files, FileAppended
<1>2. \A u \in 1 .. Len(file) : file'[u] = file[u]
  BY DEF FileAppended
<1>3. SubSeq(file, 1, Len(file)) = SubSeq(file', 1, Len(file))
  BY <1>1, <1>2
<1> QED BY <1>1, <1>3 DEF IsPrefix

\* No commit is lost: every commit builds on the newest one in the file,
\* though its base was read when the gate was granted and the gate may have
\* been revoked, the owner replaced or the connection lost since.
THEOREM HistoryOnlyGrows == Spec => HistoryGrows
<1>1. ASSUME PageInv, [Next]_vars PROVE [IsPrefix(file, file')]_vars
  BY <1>1, FileStep, FilePrefix DEF PageInv
<1> QED BY <1>1, PageSafe, PTL DEF Spec, HistoryGrows

-----------------------------------------------------------------------------
(* The outcomes applications are told. *)

\* A commit sent and not yet written: it may still be read, refused or
\* dropped.
Queued(c) == link[c].sent \/ link[c].srv = "finishing"

\* A commit that may still be written: its transaction is not revoked.
Due(c) == link[c].srv = "finishing" \/ (link[c].sent /\ link[c].srv = "txn")

\* A process that waits for the outcome of a commit.
Waiting(p) == txn[p].pc \in {"sent", "lost", "asking"}

\* No step but ClientSend queues a commit, or revives one that is not due.
LinkFrame ==
    /\ \A d \in Made : /\ link'[d].owner = link[d].owner /\ link'[d].client = link[d].client
                       /\ link[d].hung => link'[d].hung
    /\ \A d \in Made' : Queued(d)' =>
            /\ d \in Made /\ Queued(d)
            /\ link'[d].id = link[d].id /\ link'[d].base = link[d].base
    /\ \A d \in Made' : Due(d)' => Due(d)
    /\ \A d \in Made' \ Made : owner[link'[d].owner].state = "serving"

\* No step but ClientSend makes a process wait, and one loses its connection
\* only to an owner that hung up.
TxnFrame ==
    /\ \A y \in Procs : Waiting(y)' => /\ Waiting(y) /\ txn'[y].id = txn[y].id
                                       /\ txn'[y].base = txn[y].base
    /\ \A y \in Procs : txn'[y].pc = "sent" => txn[y].pc = "sent" /\ conn'[y] = conn[y]
    /\ \A y \in Procs : txn'[y].pc \in {"lost", "asking"} =>
            \/ txn[y].pc \in {"lost", "asking"}
            \/ conn[y] \in Made /\ link[conn[y]].hung

\* Every step but ClientSend is a LinkFrame.
LEMMA LinkFrameStep ==
    ASSUME Types, Files, Requests, Next, \A c \in Made : ~ClientSend(c)
    PROVE  LinkFrame
<1>1. ASSUME NEW p \in Procs, Promote(p) PROVE LinkFrame
  BY <1>1, PromoteEffect DEF LinkFrame, Queued, Due, Made
<1>2. ASSUME NEW p \in Procs, StartShutdown(p) PROVE LinkFrame
  <2>1. ASSUME NEW d \in Made
        PROVE  /\ link'[d].owner = link[d].owner /\ link'[d].client = link[d].client
               /\ link[d].hung => link'[d].hung
               /\ link'[d].id = link[d].id /\ link'[d].base = link[d].base
               /\ link'[d].sent <=> link[d].sent
               /\ link'[d].srv = link[d].srv \/ link'[d].srv = "idle"
    <3>1. LinkIs(link[d], link'[d], IF d \in {} THEN "idle" ELSE link[d].srv, link[d].base,
                 link[d].id, link[d].sent, link[d].up, link[d].owner = p \/ link[d].hung)
      BY <1>2, StartShutdownEffect DEF LinksHung
    <3> QED BY <3>1 DEF LinkIs
  <2>2. Made' = Made
    BY <1>2, StartShutdownEffect DEF LinksHung
  <2> QED BY <2>1, <2>2 DEF LinkFrame, Queued, Due
<1>3. ASSUME NEW p \in Procs, FinishShutdown(p) PROVE LinkFrame
  BY <1>3, FinishShutdownEffect DEF LinkFrame, Queued, Due, Made
<1>4. ASSUME NEW p \in Procs, Crash(p) PROVE LinkFrame
  <2>1. ASSUME NEW d \in Made
        PROVE  /\ link'[d].owner = link[d].owner /\ link'[d].client = link[d].client
               /\ link[d].hung => link'[d].hung
               /\ \/ link'[d].srv = "gone" /\ ~link'[d].sent
                  \/ /\ link'[d].id = link[d].id /\ link'[d].base = link[d].base
                     /\ link'[d].srv = link[d].srv /\ (link'[d].sent <=> link[d].sent)
    <3>1. CASE link[d].owner = p
      <4>1. LinkIs(link[d], link'[d], "gone", 0, 0, FALSE, link[d].up, TRUE)
        BY <1>4, <3>1, CrashEffect DEF LinksLost
      <4> QED BY <4>1 DEF LinkIs
    <3>2. CASE link[d].owner # p
      <4>1. LinkIs(link[d], link'[d], link[d].srv, link[d].base, link[d].id, link[d].sent,
                   link[d].up /\ link[d].client # p, link[d].hung)
        BY <1>4, <3>2, CrashEffect DEF LinksLost
      <4> QED BY <4>1 DEF LinkIs
    <3> QED BY <3>1, <3>2
  <2>2. Made' = Made
    BY <1>4, CrashEffect DEF LinksLost
  <2> QED BY <2>1, <2>2 DEF LinkFrame, Queued, Due
<1>5. ASSUME NEW p \in Procs, OwnBegin(p) PROVE LinkFrame
  BY <1>5, OwnBeginEffect DEF LinkFrame, Queued, Due, Made
<1>6. ASSUME NEW p \in Procs, OwnRollback(p) PROVE LinkFrame
  BY <1>6, OwnRollbackEffect DEF LinkFrame, Queued, Due, Made
<1>7. ASSUME NEW p \in Procs, OwnCommit(p) PROVE LinkFrame
  BY <1>7, OwnCommitEffect DEF LinkFrame, Queued, Due, Made
<1>8. ASSUME NEW p \in Procs, OwnStale(p) PROVE LinkFrame
  BY <1>8, OwnStaleEffect DEF LinkFrame, Queued, Due, Made
<1>9. ASSUME NEW p \in Procs, GiveUp(p) PROVE LinkFrame
  BY <1>9 DEF LinkFrame, Queued, Due, Made, GiveUp
<1>10. ASSUME NEW p \in Procs, ResolveSelf(p) PROVE LinkFrame
  BY <1>10 DEF LinkFrame, Queued, Due, Made, ResolveSelf
<1>11. ASSUME NEW p \in Procs, Ask(p) PROVE LinkFrame
  BY <1>11, AskEffect DEF LinkFrame, Queued, Due, Made
<1>12. ASSUME NEW p \in Procs, Answer(p) PROVE LinkFrame
  BY <1>12 DEF LinkFrame, Queued, Due, Made, Answer
<1>13. ASSUME NEW p \in Procs, NEW q \in Procs, Reconnect(p, q) PROVE LinkFrame
  <2> DEFINE n == Len(link) + 1
  <2>1. Made' = Made \cup {n} /\ \A d \in Made : link'[d] = link[d]
    BY <1>13, ReconnectEffect DEF LinkMade
  <2>2. link'[n].srv = "idle" /\ ~link'[n].sent /\ owner[link'[n].owner].state = "serving"
    BY <1>13, ReconnectEffect DEF LinkMade
  <2> HIDE DEF n
  <2> QED BY <2>1, <2>2 DEF LinkFrame, Queued, Due
<1>14. ASSUME NEW c \in Made, ClientBegin(c) PROVE LinkFrame
  <2>1. /\ Made' = Made /\ link'[c].owner = link[c].owner /\ link'[c].client = link[c].client
        /\ \A d \in Made : d # c => link'[d] = link[d]
    BY <1>14, ClientBeginEffect DEF LinkTo, LinkIs
  <2>2. link[c].hung => link'[c].hung
    BY <1>14, ClientBeginEffect DEF LinkTo, LinkIs
  <2>3. Queued(c)' => Queued(c) /\ link'[c].id = link[c].id /\ link'[c].base = link[c].base
    BY <1>14, ClientBeginEffect DEF LinkTo, LinkIs, Queued, Requests
  <2>4. Due(c)' => Due(c)
    BY <1>14, ClientBeginEffect DEF LinkTo, LinkIs, Due, Requests
  <2> QED BY <2>1, <2>2, <2>3, <2>4 DEF LinkFrame, Queued, Due
<1>16. ASSUME NEW c \in Made, ClientAbort(c) PROVE LinkFrame
  <2>1. /\ Made' = Made /\ link'[c].owner = link[c].owner /\ link'[c].client = link[c].client
        /\ \A d \in Made : d # c => link'[d] = link[d]
    BY <1>16, ClientAbortEffect DEF LinkTo, LinkIs
  <2>2. link[c].hung => link'[c].hung
    BY <1>16, ClientAbortEffect DEF LinkTo, LinkIs
  <2>3. Queued(c)' => Queued(c) /\ link'[c].id = link[c].id /\ link'[c].base = link[c].base
    BY <1>16, ClientAbortEffect DEF LinkTo, LinkIs, Queued
  <2>4. Due(c)' => Due(c)
    BY <1>16, ClientAbortEffect DEF LinkTo, LinkIs, Due
  <2> QED BY <2>1, <2>2, <2>3, <2>4 DEF LinkFrame, Queued, Due
<1>17. ASSUME NEW c \in Made, ClientClose(c) PROVE LinkFrame
  <2>1. /\ Made' = Made /\ link'[c].owner = link[c].owner /\ link'[c].client = link[c].client
        /\ \A d \in Made : d # c => link'[d] = link[d]
    BY <1>17, ClientCloseEffect DEF LinkTo, LinkIs
  <2>2. link[c].hung => link'[c].hung
    BY <1>17, ClientCloseEffect DEF LinkTo, LinkIs
  <2>3. Queued(c)' => Queued(c) /\ link'[c].id = link[c].id /\ link'[c].base = link[c].base
    BY <1>17, ClientCloseEffect DEF LinkTo, LinkIs, Queued
  <2>4. Due(c)' => Due(c)
    BY <1>17, ClientCloseEffect DEF LinkTo, LinkIs, Due
  <2> QED BY <2>1, <2>2, <2>3, <2>4 DEF LinkFrame, Queued, Due
<1>18. ASSUME NEW c \in Made, Revoke(c) PROVE LinkFrame
  <2>1. /\ Made' = Made /\ link'[c].owner = link[c].owner /\ link'[c].client = link[c].client
        /\ \A d \in Made : d # c => link'[d] = link[d]
    BY <1>18, RevokeEffect DEF LinkTo, LinkIs
  <2>2. link[c].hung => link'[c].hung
    BY <1>18, RevokeEffect DEF LinkTo, LinkIs
  <2>3. Queued(c)' => Queued(c) /\ link'[c].id = link[c].id /\ link'[c].base = link[c].base
    BY <1>18, RevokeEffect DEF LinkTo, LinkIs, Queued
  <2>4. Due(c)' => Due(c)
    BY <1>18, RevokeEffect DEF LinkTo, LinkIs, Due
  <2> QED BY <2>1, <2>2, <2>3, <2>4 DEF LinkFrame, Queued, Due
<1>19. ASSUME NEW c \in Made, HangUpIdle(c) PROVE LinkFrame
  <2>1. /\ Made' = Made /\ link'[c].owner = link[c].owner /\ link'[c].client = link[c].client
        /\ \A d \in Made : d # c => link'[d] = link[d]
    BY <1>19, HangUpIdleEffect DEF LinkTo, LinkIs
  <2>2. link[c].hung => link'[c].hung
    BY <1>19, HangUpIdleEffect DEF LinkTo, LinkIs
  <2>3. Queued(c)' => Queued(c) /\ link'[c].id = link[c].id /\ link'[c].base = link[c].base
    BY <1>19, HangUpIdleEffect DEF LinkTo, LinkIs, Queued
  <2>4. Due(c)' => Due(c)
    BY <1>19, HangUpIdleEffect DEF LinkTo, LinkIs, Due
  <2> QED BY <2>1, <2>2, <2>3, <2>4 DEF LinkFrame, Queued, Due
<1>20. ASSUME NEW c \in Made, ReadEnd(c) PROVE LinkFrame
  <2>1. /\ Made' = Made /\ link'[c].owner = link[c].owner /\ link'[c].client = link[c].client
        /\ \A d \in Made : d # c => link'[d] = link[d]
    BY <1>20, ReadEndEffect DEF LinkTo, LinkIs
  <2>2. link[c].hung => link'[c].hung
    BY <1>20, ReadEndEffect DEF LinkTo, LinkIs
  <2>3. Queued(c)' => Queued(c) /\ link'[c].id = link[c].id /\ link'[c].base = link[c].base
    BY <1>20, ReadEndEffect DEF LinkTo, LinkIs, Queued, Requests
  <2>4. Due(c)' => Due(c)
    BY <1>20, ReadEndEffect DEF LinkTo, LinkIs, Due, Requests
  <2> QED BY <2>1, <2>2, <2>3, <2>4 DEF LinkFrame, Queued, Due
<1>21. ASSUME NEW c \in Made, CommitDelta(c) PROVE LinkFrame
  <2>1. /\ Made' = Made /\ link'[c].owner = link[c].owner /\ link'[c].client = link[c].client
        /\ \A d \in Made : d # c => link'[d] = link[d]
    BY <1>21, CommitDeltaEffect DEF LinkTo, LinkIs
  <2>2. link[c].hung => link'[c].hung
    BY <1>21, CommitDeltaEffect DEF LinkTo, LinkIs
  <2>3. Queued(c)' => Queued(c) /\ link'[c].id = link[c].id /\ link'[c].base = link[c].base
    BY <1>21, CommitDeltaEffect DEF LinkTo, LinkIs, Queued, Requests
  <2>4. Due(c)' => Due(c)
    BY <1>21, CommitDeltaEffect DEF LinkTo, LinkIs, Due, Requests
  <2> QED BY <2>1, <2>2, <2>3, <2>4 DEF LinkFrame, Queued, Due
<1>22. ASSUME NEW c \in Made, CommitDeltaFails(c) PROVE LinkFrame
  <2>1. /\ Made' = Made /\ link'[c].owner = link[c].owner /\ link'[c].client = link[c].client
        /\ \A d \in Made : d # c => link'[d] = link[d]
    BY <1>22, CommitDeltaFailsEffect DEF FailsTo, LinkTo, LinkIs
  <2>2. link[c].hung => link'[c].hung
    BY <1>22, CommitDeltaFailsEffect DEF FailsTo, LinkTo, LinkIs
  <2>3. Queued(c)' => Queued(c) /\ link'[c].id = link[c].id /\ link'[c].base = link[c].base
    BY <1>22, CommitDeltaFailsEffect DEF FailsTo, LinkTo, LinkIs, Queued, Requests
  <2>4. Due(c)' => Due(c)
    BY <1>22, CommitDeltaFailsEffect DEF FailsTo, LinkTo, LinkIs, Due, Requests
  <2> QED BY <2>1, <2>2, <2>3, <2>4 DEF LinkFrame, Queued, Due
<1>23. ASSUME NEW c \in Made, Publish(c) PROVE LinkFrame
  <2>1. /\ Made' = Made /\ link'[c].owner = link[c].owner /\ link'[c].client = link[c].client
        /\ \A d \in Made : d # c => link'[d] = link[d]
    BY <1>23, PublishEffect DEF LinkTo, LinkIs
  <2>2. link[c].hung => link'[c].hung
    BY <1>23, PublishEffect DEF LinkTo, LinkIs
  <2>3. Queued(c)' => Queued(c) /\ link'[c].id = link[c].id /\ link'[c].base = link[c].base
    BY <1>23, PublishEffect DEF LinkTo, LinkIs, Queued, Requests
  <2>4. Due(c)' => Due(c)
    BY <1>23, PublishEffect DEF LinkTo, LinkIs, Due, Requests
  <2> QED BY <2>1, <2>2, <2>3, <2>4 DEF LinkFrame, Queued, Due
<1>24. ASSUME NEW c \in Made, Ack(c) PROVE LinkFrame
  <2>1. /\ Made' = Made /\ link'[c].owner = link[c].owner /\ link'[c].client = link[c].client
        /\ \A d \in Made : d # c => link'[d] = link[d]
    BY <1>24, AckEffect DEF LinkTo, LinkIs
  <2>2. link[c].hung => link'[c].hung
    BY <1>24, AckEffect DEF LinkTo, LinkIs
  <2>3. Queued(c)' => Queued(c) /\ link'[c].id = link[c].id /\ link'[c].base = link[c].base
    BY <1>24, AckEffect DEF LinkTo, LinkIs, Queued, Requests
  <2>4. Due(c)' => Due(c)
    BY <1>24, AckEffect DEF LinkTo, LinkIs, Due, Requests
  <2> QED BY <2>1, <2>2, <2>3, <2>4 DEF LinkFrame, Queued, Due
<1>25. ASSUME NEW c \in Made, Release(c) PROVE LinkFrame
  <2>1. /\ Made' = Made /\ link'[c].owner = link[c].owner /\ link'[c].client = link[c].client
        /\ \A d \in Made : d # c => link'[d] = link[d]
    BY <1>25, ReleaseEffect DEF LinkTo, LinkIs
  <2>2. link[c].hung => link'[c].hung
    BY <1>25, ReleaseEffect DEF LinkTo, LinkIs
  <2>3. Queued(c)' => Queued(c) /\ link'[c].id = link[c].id /\ link'[c].base = link[c].base
    BY <1>25, ReleaseEffect DEF LinkTo, LinkIs, Queued, Requests
  <2>4. Due(c)' => Due(c)
    BY <1>25, ReleaseEffect DEF LinkTo, LinkIs, Due, Requests
  <2> QED BY <2>1, <2>2, <2>3, <2>4 DEF LinkFrame, Queued, Due
<1>26. ASSUME NEW c \in Made, End(c) PROVE LinkFrame
  <2>1. /\ Made' = Made /\ link'[c].owner = link[c].owner /\ link'[c].client = link[c].client
        /\ \A d \in Made : d # c => link'[d] = link[d]
    BY <1>26, EndEffect DEF LinkTo, LinkIs
  <2>2. link[c].hung => link'[c].hung
    BY <1>26, EndEffect DEF LinkTo, LinkIs
  <2>3. Queued(c)' => Queued(c) /\ link'[c].id = link[c].id /\ link'[c].base = link[c].base
    BY <1>26, EndEffect DEF LinkTo, LinkIs, Queued, Requests
  <2>4. Due(c)' => Due(c)
    BY <1>26, EndEffect DEF LinkTo, LinkIs, Due, Requests
  <2> QED BY <2>1, <2>2, <2>3, <2>4 DEF LinkFrame, Queued, Due
<1>27. ASSUME NEW c \in Made, Break(c) PROVE LinkFrame
  <2>1. /\ Made' = Made /\ link'[c].owner = link[c].owner /\ link'[c].client = link[c].client
        /\ \A d \in Made : d # c => link'[d] = link[d]
    BY <1>27, BreakEffect DEF LinkTo, LinkIs
  <2>2. link[c].hung => link'[c].hung
    BY <1>27, BreakEffect DEF LinkTo, LinkIs
  <2>3. Queued(c)' => Queued(c) /\ link'[c].id = link[c].id /\ link'[c].base = link[c].base
    BY <1>27, BreakEffect DEF LinkTo, LinkIs, Queued
  <2>4. Due(c)' => Due(c)
    BY <1>27, BreakEffect DEF LinkTo, LinkIs, Due
  <2> QED BY <2>1, <2>2, <2>3, <2>4 DEF LinkFrame, Queued, Due
<1>28. ASSUME NEW c \in Made, ReleaseFails(c) PROVE LinkFrame
  <2>1. /\ Made' = Made /\ link'[c].owner = link[c].owner /\ link'[c].client = link[c].client
        /\ \A d \in Made : d # c => link'[d] = link[d]
    BY <1>28, ReleaseFailsEffect DEF FailsTo, LinkTo, LinkIs
  <2>2. link[c].hung => link'[c].hung
    BY <1>28, ReleaseFailsEffect DEF FailsTo, LinkTo, LinkIs
  <2>3. Queued(c)' => Queued(c) /\ link'[c].id = link[c].id /\ link'[c].base = link[c].base
    BY <1>28, ReleaseFailsEffect DEF FailsTo, LinkTo, LinkIs, Queued, Requests
  <2>4. Due(c)' => Due(c)
    BY <1>28, ReleaseFailsEffect DEF FailsTo, LinkTo, LinkIs, Due, Requests
  <2> QED BY <2>1, <2>2, <2>3, <2>4 DEF LinkFrame, Queued, Due
<1>29. ASSUME NEW c \in Made, StopServing(c) PROVE LinkFrame
  <2>1. ASSUME NEW d \in Made
        PROVE  /\ link'[d].owner = link[d].owner /\ link'[d].client = link[d].client
               /\ link[d].hung => link'[d].hung
               /\ link'[d].id = link[d].id /\ link'[d].base = link[d].base
               /\ link'[d].sent <=> link[d].sent
               /\ link'[d].srv = link[d].srv \/ link'[d].srv = "idle"
    <3>1. LinkIs(link[d], link'[d], IF d \in {c} THEN "idle" ELSE link[d].srv, link[d].base,
                 link[d].id, link[d].sent, link[d].up, link[d].owner = link[c].owner
                     \/ link[d].hung)
      BY <1>29, StopServingEffect DEF LinksHung
    <3> QED BY <3>1 DEF LinkIs
  <2>2. Made' = Made
    BY <1>29, StopServingEffect DEF LinksHung
  <2> QED BY <2>1, <2>2 DEF LinkFrame, Queued, Due
<1> QED BY <1>1, <1>2, <1>3, <1>4, <1>5, <1>6, <1>7, <1>8, <1>9, <1>10, <1>11, <1>12,
           <1>13, <1>14, <1>16, <1>17, <1>18, <1>19, <1>20, <1>21, <1>22, <1>23,
           <1>24, <1>25, <1>26, <1>27, <1>28, <1>29 DEF Next, Serving, Resolving, Chosen

\* Every step but ClientSend is a TxnFrame.
LEMMA TxnFrameStep ==
    ASSUME Relayed = FALSE, Types, Files, Ends, Requests, Next, \A c \in Made : ~ClientSend(c)
    PROVE  TxnFrame
<1>0. \A d \in Made : link[d].owner \in Procs /\ link[d].client \in Procs
  BY LinkAt
<1>1. ASSUME NEW p \in Procs, Promote(p) PROVE TxnFrame
  <2>1. txn' = txn /\ conn' = conn
    BY <1>1, PromoteEffect
  <2> QED BY <2>1 DEF TxnFrame, Waiting
<1>2. ASSUME NEW p \in Procs, StartShutdown(p) PROVE TxnFrame
  <2>1. txn' = txn /\ conn' = conn
    BY <1>2, StartShutdownEffect
  <2> QED BY <2>1 DEF TxnFrame, Waiting
<1>3. ASSUME NEW p \in Procs, FinishShutdown(p) PROVE TxnFrame
  <2>1. /\ conn' = conn /\ \A y \in Procs : y # p => txn'[y] = txn[y]
        /\ txn'[p].pc = IF txn[p].pc = "own" THEN "stale" ELSE txn[p].pc
        /\ txn'[p].id = txn[p].id /\ txn'[p].base = txn[p].base
    BY <1>3, FinishShutdownEffect DEF TxnTo, TxnIs
  <2> QED BY <2>1 DEF TxnFrame, Waiting
<1>4. ASSUME NEW p \in Procs, Crash(p) PROVE TxnFrame
  <2>1. /\ txn'[p].pc = "idle" /\ \A y \in Procs : y # p => txn'[y] = txn[y]
        /\ \A y \in Procs : y # p => conn'[y] = conn[y]
    BY <1>4, CrashEffect DEF TxnTo, TxnIs, ConnTo
  <2> QED BY <2>1 DEF TxnFrame, Waiting
<1>5. ASSUME NEW p \in Procs, OwnBegin(p) PROVE TxnFrame
  <2>1. conn' = conn /\ txn'[p].pc \in {"idle", "own"} /\ \A y \in Procs : y # p
            => txn'[y] = txn[y]
    BY <1>5, OwnBeginEffect DEF TxnTo, TxnIs
  <2> QED BY <2>1 DEF TxnFrame, Waiting
<1>6. ASSUME NEW p \in Procs, OwnRollback(p) PROVE TxnFrame
  <2>1. conn' = conn /\ txn'[p].pc \in {"idle", "own"} /\ \A y \in Procs : y # p
            => txn'[y] = txn[y]
    BY <1>6, OwnRollbackEffect DEF TxnTo, TxnIs
  <2> QED BY <2>1 DEF TxnFrame, Waiting
<1>7. ASSUME NEW p \in Procs, OwnCommit(p) PROVE TxnFrame
  <2>1. conn' = conn /\ txn'[p].pc \in {"idle", "own"} /\ \A y \in Procs : y # p
            => txn'[y] = txn[y]
    BY <1>7, OwnCommitEffect DEF TxnTo, TxnIs
  <2> QED BY <2>1 DEF TxnFrame, Waiting
<1>8. ASSUME NEW p \in Procs, OwnStale(p) PROVE TxnFrame
  <2>1. conn' = conn /\ txn'[p].pc \in {"idle", "own"} /\ \A y \in Procs : y # p
            => txn'[y] = txn[y]
    BY <1>8, OwnStaleEffect DEF TxnTo, TxnIs
  <2> QED BY <2>1 DEF TxnFrame, Waiting
<1>9. ASSUME NEW p \in Procs, GiveUp(p) PROVE TxnFrame
  <2>1. TxnTo(p, "idle", 0, 0) /\ conn' = conn
    BY <1>9, ResolvedIs, TellEffect DEF GiveUp, Outcomes
  <2> QED BY <2>1 DEF TxnFrame, Waiting, TxnTo, TxnIs
<1>10. ASSUME NEW p \in Procs, ResolveSelf(p) PROVE TxnFrame
  <2>1. TxnTo(p, "idle", 0, 0) /\ conn' = conn
    BY <1>10, ResolvedIs, TellEffect DEF ResolveSelf, Outcomes
  <2> QED BY <2>1 DEF TxnFrame, Waiting, TxnTo, TxnIs
<1>11. ASSUME NEW p \in Procs, Ask(p) PROVE TxnFrame
  <2>1. /\ conn' = conn /\ \A y \in Procs : y # p => txn'[y] = txn[y]
        /\ txn[p].pc = "lost" /\ txn'[p].pc = "asking"
        /\ txn'[p].id = txn[p].id /\ txn'[p].base = txn[p].base
    BY <1>11, AskEffect DEF TxnTo, TxnIs
  <2> QED BY <2>1 DEF TxnFrame, Waiting
<1>12. ASSUME NEW p \in Procs, Answer(p) PROVE TxnFrame
  <2>1. TxnTo(p, "idle", 0, 0) /\ conn' = conn
    BY <1>12, ResolvedIs, TellEffect DEF Answer, Outcomes
  <2> QED BY <2>1 DEF TxnFrame, Waiting, TxnTo, TxnIs
<1>13. ASSUME NEW p \in Procs, NEW q \in Procs, Reconnect(p, q) PROVE TxnFrame
  <2>1. /\ txn' = txn /\ conn[p] = 0 /\ \A y \in Procs : y # p => conn'[y] = conn[y]
    BY <1>13, ReconnectEffect DEF ConnTo
  <2>2. txn[p].pc # "sent"
    BY <2>1 DEF Requests
  <2> QED BY <2>1, <2>2 DEF TxnFrame, Waiting
<1>14. ASSUME NEW c \in Made, ClientBegin(c) PROVE TxnFrame
  <2>1. /\ conn' = conn /\ txn'[link[c].client].pc \in {"idle", "begun"}
        /\ \A y \in Procs : y # link[c].client => txn'[y] = txn[y]
    BY <1>14, ClientBeginEffect DEF TxnTo, TxnIs
  <2> QED BY <1>0, <2>1 DEF TxnFrame, Waiting
<1>16. ASSUME NEW c \in Made, ClientAbort(c) PROVE TxnFrame
  <2>1. /\ conn' = conn /\ txn'[link[c].client].pc \in {"idle", "begun"}
        /\ \A y \in Procs : y # link[c].client => txn'[y] = txn[y]
    BY <1>16, ClientAbortEffect DEF TxnTo, TxnIs
  <2> QED BY <1>0, <2>1 DEF TxnFrame, Waiting
<1>17. ASSUME NEW c \in Made, ClientClose(c) PROVE TxnFrame
  <2>1. \A y \in Procs : y # link[c].client => conn'[y] = conn[y]
    BY <1>17, ClientCloseEffect DEF ConnTo
  <2>2. TxnTo(link[c].client, "idle", 0, 0)
    BY <1>0, <1>17, ClientCloseEffect, TellEffect DEF Outcomes
  <2> QED BY <1>0, <2>1, <2>2 DEF TxnFrame, Waiting, TxnTo, TxnIs
<1>18. ASSUME NEW c \in Made, Revoke(c) PROVE TxnFrame
  <2>1. txn' = txn /\ conn' = conn
    BY <1>18, RevokeEffect
  <2> QED BY <2>1 DEF TxnFrame, Waiting
<1>19. ASSUME NEW c \in Made, HangUpIdle(c) PROVE TxnFrame
  <2>1. txn' = txn /\ conn' = conn
    BY <1>19, HangUpIdleEffect
  <2> QED BY <2>1 DEF TxnFrame, Waiting
<1>20. ASSUME NEW c \in Made, ReadEnd(c) PROVE TxnFrame
  <2>1. conn' = conn
    BY <1>20, ReadEndEffect
  <2>2. CASE txn' = txn
    BY <2>1, <2>2 DEF TxnFrame, Waiting
  <2>3. CASE txn' # txn
    <3>1. TxnTo(link[c].client, "idle", 0, 0)
      BY <1>0, <1>20, <2>3, ReadEndEffect, TellEffect DEF Outcomes
    <3> QED BY <1>0, <2>1, <3>1 DEF TxnFrame, Waiting, TxnTo, TxnIs
  <2> QED BY <2>2, <2>3
<1>21. ASSUME NEW c \in Made, CommitDelta(c) PROVE TxnFrame
  <2>1. txn' = txn /\ conn' = conn
    BY <1>21, CommitDeltaEffect
  <2> QED BY <2>1 DEF TxnFrame, Waiting
<1>22. ASSUME NEW c \in Made, CommitDeltaFails(c) PROVE TxnFrame
  <2>1. txn' = txn /\ conn' = conn
    BY <1>22, CommitDeltaFailsEffect
  <2> QED BY <2>1 DEF TxnFrame, Waiting
<1>23. ASSUME NEW c \in Made, Publish(c) PROVE TxnFrame
  <2>1. txn' = txn /\ conn' = conn
    BY <1>23, PublishEffect
  <2> QED BY <2>1 DEF TxnFrame, Waiting
<1>24. ASSUME NEW c \in Made, Ack(c) PROVE TxnFrame
  <2>1. conn' = conn
    BY <1>24, AckEffect
  <2>2. CASE txn' = txn
    BY <2>1, <2>2 DEF TxnFrame, Waiting
  <2>3. CASE txn' # txn
    <3>1. TxnTo(link[c].client, "idle", 0, 0)
      BY <1>0, <1>24, <2>3, AckEffect, TellEffect DEF Outcomes
    <3> QED BY <1>0, <2>1, <3>1 DEF TxnFrame, Waiting, TxnTo, TxnIs
  <2> QED BY <2>2, <2>3
<1>25. ASSUME NEW c \in Made, Release(c) PROVE TxnFrame
  <2>1. txn' = txn /\ conn' = conn
    BY <1>25, ReleaseEffect
  <2> QED BY <2>1 DEF TxnFrame, Waiting
<1>26. ASSUME NEW c \in Made, End(c) PROVE TxnFrame
  <2>1. txn' = txn /\ conn' = conn
    BY <1>26, EndEffect
  <2> QED BY <2>1 DEF TxnFrame, Waiting
<1>27. ASSUME NEW c \in Made, Break(c) PROVE TxnFrame
  <2> DEFINE y == link[c].client
  <2>1. y \in Procs /\ \A z \in Procs : z # y => conn'[z] = conn[z]
    BY <1>27, BreakEffect DEF ConnTo
  <2>2. conn[y] = c /\ link[c].hung
    BY <1>27, BreakEffect DEF Ends
  <2>3. \A z \in Procs : z # y => txn'[z] = txn[z]
    BY <1>27, BreakEnds
  <2>4. CASE TxnTo(y, "idle", 0, 0)
    BY <2>1, <2>3, <2>4 DEF TxnFrame, Waiting, TxnTo, TxnIs
  <2>5. CASE txn[y].pc = "sent" /\ TxnTo(y, "lost", txn[y].id, txn[y].base)
    BY <2>1, <2>2, <2>3, <2>5 DEF TxnFrame, Waiting, TxnTo, TxnIs
  <2>6. CASE txn[y].pc \in {"idle", "own", "stale"} /\ txn' = txn
    BY <2>1, <2>3, <2>6 DEF TxnFrame, Waiting
  <2> QED BY <1>27, <2>1, <2>4, <2>5, <2>6, BreakEffect, TellEffect DEF Outcomes
<1>28. ASSUME NEW c \in Made, ReleaseFails(c) PROVE TxnFrame
  <2>1. txn' = txn /\ conn' = conn
    BY <1>28, ReleaseFailsEffect
  <2> QED BY <2>1 DEF TxnFrame, Waiting
<1>29. ASSUME NEW c \in Made, StopServing(c) PROVE TxnFrame
  <2>1. txn' = txn /\ conn' = conn
    BY <1>29, StopServingEffect
  <2> QED BY <2>1 DEF TxnFrame, Waiting
<1> QED BY <1>1, <1>2, <1>3, <1>4, <1>5, <1>6, <1>7, <1>8, <1>9, <1>10, <1>11, <1>12,
           <1>13, <1>14, <1>16, <1>17, <1>18, <1>19, <1>20, <1>21, <1>22, <1>23,
           <1>24, <1>25, <1>26, <1>27, <1>28, <1>29 DEF Next, Serving, Resolving, Chosen

\* A thread with an open transaction finds its connection hung up only if its
\* owner is closing: watch_idle hangs up on threads that have none.
HungCloses ==
    \A c \in Made : link[c].srv \in {"txn", "finishing", "written"} /\ link[c].hung
                        => owner[link[c].owner].state = "closing"

\* Every step keeps HungCloses.
LEMMA HungStep ==
    ASSUME Types, Files, OneOwner, Threads, Gates, HungCloses, Next
    PROVE  HungCloses'
<1>0. \A d \in Made : link[d].owner \in Procs /\ link[d].client \in Procs
  BY LinkAt
<1>1. ASSUME NEW p \in Procs, Promote(p) PROVE HungCloses'
  <2>1. Made' = Made /\ link' = link /\ ~Owns(p) /\ \A y \in Procs : y # p => owner'[y] = owner[y]
    BY <1>1, PromoteEffect DEF Made, OwnerTo
  <2> QED BY <1>0, <2>1 DEF HungCloses, Threads
<1>2. ASSUME NEW p \in Procs, StartShutdown(p) PROVE HungCloses'
  <2>1. ASSUME NEW d \in Made
        PROVE  /\ link'[d].owner = link[d].owner /\ link'[d].srv = link[d].srv
               /\ link'[d].hung => link[d].owner = p \/ link[d].hung
    <3>1. LinkIs(link[d], link'[d], link[d].srv, link[d].base,
                 link[d].id, link[d].sent, link[d].up, link[d].owner = p \/ link[d].hung)
      BY <1>2, StartShutdownEffect DEF LinksHung
    <3> QED BY <3>1 DEF LinkIs
  <2>2. Made' = Made
    BY <1>2, StartShutdownEffect DEF LinksHung
  <2>3. owner'[p].state = "closing" /\ \A y \in Procs : y # p => owner'[y] = owner[y]
    BY <1>2, StartShutdownEffect DEF OwnerTo, OwnerIs
  <2> QED BY <1>0, <2>1, <2>2, <2>3 DEF HungCloses
<1>3. ASSUME NEW p \in Procs, FinishShutdown(p) PROVE HungCloses'
  <2>1. /\ Made' = Made /\ link' = link /\ \A y \in Procs : y # p => owner'[y] = owner[y]
        /\ \A d \in Made : link[d].owner = p => link[d].srv = "gone"
    BY <1>3, FinishShutdownEffect DEF Made, OwnerTo
  <2> QED BY <1>0, <2>1 DEF HungCloses
<1>4. ASSUME NEW p \in Procs, Crash(p) PROVE HungCloses'
  <2>1. ASSUME NEW d \in Made
        PROVE  /\ link'[d].owner = link[d].owner
               /\ \/ link'[d].srv = "gone"
                  \/ link[d].owner # p /\ link'[d].srv = link[d].srv
                      /\ (link'[d].hung <=> link[d].hung)
    <3>1. CASE link[d].owner = p
      <4>1. LinkIs(link[d], link'[d], "gone", 0, 0, FALSE, link[d].up, TRUE)
        BY <1>4, <3>1, CrashEffect DEF LinksLost
      <4> QED BY <4>1 DEF LinkIs
    <3>2. CASE link[d].owner # p
      <4>1. LinkIs(link[d], link'[d], link[d].srv, link[d].base, link[d].id, link[d].sent,
                   link[d].up /\ link[d].client # p, link[d].hung)
        BY <1>4, <3>2, CrashEffect DEF LinksLost
      <4> QED BY <3>2, <4>1 DEF LinkIs
    <3> QED BY <3>1, <3>2
  <2>2. Made' = Made /\ \A y \in Procs : y # p => owner'[y] = owner[y]
    BY <1>4, CrashEffect DEF LinksLost, OwnerTo
  <2> QED BY <1>0, <2>1, <2>2 DEF HungCloses
<1>5. ASSUME NEW p \in Procs, OwnBegin(p) PROVE HungCloses'
  <2>1. Made' = Made /\ link' = link /\ \A y \in Procs : owner'[y].state = owner[y].state
    BY <1>5, OwnBeginEffect DEF Made, OwnerTo, OwnerIs
  <2> QED BY <1>0, <2>1 DEF HungCloses
<1>6. ASSUME NEW p \in Procs, OwnRollback(p) PROVE HungCloses'
  <2>1. Made' = Made /\ link' = link /\ \A y \in Procs : owner'[y].state = owner[y].state
    BY <1>6, OwnRollbackEffect DEF Made, OwnerTo, OwnerIs
  <2> QED BY <1>0, <2>1 DEF HungCloses
<1>7. ASSUME NEW p \in Procs, OwnCommit(p) PROVE HungCloses'
  <2>1. Made' = Made /\ link' = link /\ \A y \in Procs : owner'[y].state = owner[y].state
    BY <1>7, OwnCommitEffect DEF Made, OwnerTo, OwnerIs
  <2> QED BY <1>0, <2>1 DEF HungCloses
<1>8. ASSUME NEW p \in Procs, OwnStale(p) PROVE HungCloses'
  <2>1. Made' = Made /\ link' = link /\ owner' = owner
    BY <1>8, OwnStaleEffect DEF Made
  <2> QED BY <1>0, <2>1 DEF HungCloses
<1>9. ASSUME NEW p \in Procs, GiveUp(p) PROVE HungCloses'
  BY <1>9 DEF GiveUp, Made, HungCloses
<1>10. ASSUME NEW p \in Procs, ResolveSelf(p) PROVE HungCloses'
  BY <1>10 DEF ResolveSelf, Made, HungCloses
<1>11. ASSUME NEW p \in Procs, Ask(p) PROVE HungCloses'
  <2>1. Made' = Made /\ link' = link /\ owner' = owner
    BY <1>11, AskEffect DEF Made
  <2> QED BY <1>0, <2>1 DEF HungCloses
<1>12. ASSUME NEW p \in Procs, Answer(p) PROVE HungCloses'
  BY <1>12 DEF Answer, Made, HungCloses
<1>13. ASSUME NEW p \in Procs, NEW q \in Procs, Reconnect(p, q) PROVE HungCloses'
  <2> DEFINE n == Len(link) + 1
  <2>1. Made' = Made \cup {n} /\ owner' = owner /\ \A d \in Made : link'[d] = link[d]
    BY <1>13, ReconnectEffect DEF LinkMade
  <2>2. link'[n].srv = "idle"
    BY <1>13, ReconnectEffect DEF LinkMade
  <2> HIDE DEF n
  <2> QED BY <2>1, <2>2 DEF HungCloses
<1>14. ASSUME NEW c \in Made, ClientBegin(c) PROVE HungCloses'
  <2>1. /\ Made' = Made /\ \A d \in Made : d # c => link'[d] = link[d]
        /\ link'[c].owner = link[c].owner
    BY <1>14, ClientBeginEffect DEF LinkTo, LinkIs
  <2>2. link'[c].srv \in {"txn", "finishing", "written"} /\ link'[c].hung
            => link[c].srv \in {"txn", "finishing", "written"} /\ link[c].hung
    BY <1>14, ClientBeginEffect DEF LinkTo, LinkIs
  <2>3. \A y \in Procs : owner'[y].state = owner[y].state
    BY <1>0, <1>14, ClientBeginEffect DEF OwnerTo, OwnerIs
  <2> QED BY <1>0, <2>1, <2>2, <2>3 DEF HungCloses
<1>15. ASSUME NEW c \in Made, ClientSend(c) PROVE HungCloses'
  <2>1. /\ owner' = owner /\ Made' = Made /\ \A d \in Made : d # c => link'[d] = link[d]
        /\ link'[c].owner = link[c].owner
    BY <1>15, ClientSendEffect DEF LinkTo, LinkIs
  <2>2. link'[c].srv \in {"txn", "finishing", "written"} /\ link'[c].hung
            => link[c].srv \in {"txn", "finishing", "written"} /\ link[c].hung
    BY <1>15, ClientSendEffect DEF LinkTo, LinkIs
  <2> QED BY <1>0, <2>1, <2>2 DEF HungCloses
<1>16. ASSUME NEW c \in Made, ClientAbort(c) PROVE HungCloses'
  <2>1. /\ Made' = Made /\ \A d \in Made : d # c => link'[d] = link[d]
        /\ link'[c].owner = link[c].owner
    BY <1>16, ClientAbortEffect DEF LinkTo, LinkIs
  <2>2. link'[c].srv \in {"txn", "finishing", "written"} /\ link'[c].hung
            => link[c].srv \in {"txn", "finishing", "written"} /\ link[c].hung
    BY <1>16, ClientAbortEffect DEF LinkTo, LinkIs
  <2>3. \A y \in Procs : owner'[y].state = owner[y].state
    BY <1>0, <1>16, ClientAbortEffect DEF OwnerTo, OwnerIs
  <2> QED BY <1>0, <2>1, <2>2, <2>3 DEF HungCloses
<1>17. ASSUME NEW c \in Made, ClientClose(c) PROVE HungCloses'
  <2>1. /\ owner' = owner /\ Made' = Made /\ \A d \in Made : d # c => link'[d] = link[d]
        /\ link'[c].owner = link[c].owner
    BY <1>17, ClientCloseEffect DEF LinkTo, LinkIs
  <2>2. link'[c].srv \in {"txn", "finishing", "written"} /\ link'[c].hung
            => link[c].srv \in {"txn", "finishing", "written"} /\ link[c].hung
    BY <1>17, ClientCloseEffect DEF LinkTo, LinkIs
  <2> QED BY <1>0, <2>1, <2>2 DEF HungCloses
<1>18. ASSUME NEW c \in Made, Revoke(c) PROVE HungCloses'
  <2>1. /\ Made' = Made /\ \A d \in Made : d # c => link'[d] = link[d]
        /\ link'[c].owner = link[c].owner
    BY <1>18, RevokeEffect DEF LinkTo, LinkIs
  <2>2. link'[c].srv \in {"txn", "finishing", "written"} /\ link'[c].hung
            => link[c].srv \in {"txn", "finishing", "written"} /\ link[c].hung
    BY <1>18, RevokeEffect DEF LinkTo, LinkIs
  <2>3. \A y \in Procs : owner'[y].state = owner[y].state
    BY <1>0, <1>18, RevokeEffect DEF OwnerTo, OwnerIs
  <2> QED BY <1>0, <2>1, <2>2, <2>3 DEF HungCloses
<1>19. ASSUME NEW c \in Made, HangUpIdle(c) PROVE HungCloses'
  <2>1. /\ owner' = owner /\ Made' = Made /\ \A d \in Made : d # c => link'[d] = link[d]
        /\ link'[c].owner = link[c].owner
    BY <1>19, HangUpIdleEffect DEF LinkTo, LinkIs
  <2>2. link'[c].srv \in {"txn", "finishing", "written"} /\ link'[c].hung
            => link[c].srv \in {"txn", "finishing", "written"} /\ link[c].hung
    BY <1>19, HangUpIdleEffect DEF LinkTo, LinkIs
  <2> QED BY <1>0, <2>1, <2>2 DEF HungCloses
<1>20. ASSUME NEW c \in Made, ReadEnd(c) PROVE HungCloses'
  <2>1. /\ owner' = owner /\ Made' = Made /\ \A d \in Made : d # c => link'[d] = link[d]
        /\ link'[c].owner = link[c].owner
    BY <1>20, ReadEndEffect DEF LinkTo, LinkIs
  <2>2. link'[c].srv \in {"txn", "finishing", "written"} /\ link'[c].hung
            => link[c].srv \in {"txn", "finishing", "written"} /\ link[c].hung
    BY <1>20, ReadEndEffect DEF LinkTo, LinkIs
  <2> QED BY <1>0, <2>1, <2>2 DEF HungCloses
<1>21. ASSUME NEW c \in Made, CommitDelta(c) PROVE HungCloses'
  <2>1. /\ Made' = Made /\ \A d \in Made : d # c => link'[d] = link[d]
        /\ link'[c].owner = link[c].owner
    BY <1>21, CommitDeltaEffect DEF LinkTo, LinkIs
  <2>2. link'[c].srv \in {"txn", "finishing", "written"} /\ link'[c].hung
            => link[c].srv \in {"txn", "finishing", "written"} /\ link[c].hung
    BY <1>21, CommitDeltaEffect DEF LinkTo, LinkIs
  <2>3. \A y \in Procs : owner'[y].state = owner[y].state
    BY <1>0, <1>21, CommitDeltaEffect DEF OwnerTo, OwnerIs
  <2> QED BY <1>0, <2>1, <2>2, <2>3 DEF HungCloses
<1>22. ASSUME NEW c \in Made, CommitDeltaFails(c) PROVE HungCloses'
  <2>1. /\ Made' = Made /\ \A d \in Made : d # c => link'[d] = link[d]
        /\ link'[c].owner = link[c].owner
    BY <1>22, CommitDeltaFailsEffect DEF FailsTo, LinkTo, LinkIs
  <2>2. link'[c].srv \in {"txn", "finishing", "written"} /\ link'[c].hung
            => link[c].srv \in {"txn", "finishing", "written"} /\ link[c].hung
    BY <1>22, CommitDeltaFailsEffect DEF FailsTo, LinkTo, LinkIs
  <2>3. \A y \in Procs : owner'[y].state = owner[y].state
    BY <1>0, <1>22, CommitDeltaFailsEffect DEF FailsTo, OwnerTo, OwnerIs
  <2> QED BY <1>0, <2>1, <2>2, <2>3 DEF HungCloses
<1>23. ASSUME NEW c \in Made, Publish(c) PROVE HungCloses'
  <2>1. /\ Made' = Made /\ \A d \in Made : d # c => link'[d] = link[d]
        /\ link'[c].owner = link[c].owner
    BY <1>23, PublishEffect DEF LinkTo, LinkIs
  <2>2. link'[c].srv \in {"txn", "finishing", "written"} /\ link'[c].hung
            => link[c].srv \in {"txn", "finishing", "written"} /\ link[c].hung
    BY <1>23, PublishEffect DEF LinkTo, LinkIs
  <2>3. \A y \in Procs : owner'[y].state = owner[y].state
    BY <1>0, <1>23, PublishEffect DEF OwnerTo, OwnerIs
  <2> QED BY <1>0, <2>1, <2>2, <2>3 DEF HungCloses
<1>24. ASSUME NEW c \in Made, Ack(c) PROVE HungCloses'
  <2>1. /\ owner' = owner /\ Made' = Made /\ \A d \in Made : d # c => link'[d] = link[d]
        /\ link'[c].owner = link[c].owner
    BY <1>24, AckEffect DEF LinkTo, LinkIs
  <2>2. link'[c].srv \in {"txn", "finishing", "written"} /\ link'[c].hung
            => link[c].srv \in {"txn", "finishing", "written"} /\ link[c].hung
    BY <1>24, AckEffect DEF LinkTo, LinkIs
  <2> QED BY <1>0, <2>1, <2>2 DEF HungCloses
<1>25. ASSUME NEW c \in Made, Release(c) PROVE HungCloses'
  <2>1. /\ Made' = Made /\ \A d \in Made : d # c => link'[d] = link[d]
        /\ link'[c].owner = link[c].owner
    BY <1>25, ReleaseEffect DEF LinkTo, LinkIs
  <2>2. link'[c].srv \in {"txn", "finishing", "written"} /\ link'[c].hung
            => link[c].srv \in {"txn", "finishing", "written"} /\ link[c].hung
    BY <1>25, ReleaseEffect DEF LinkTo, LinkIs
  <2>3. \A y \in Procs : owner'[y].state = owner[y].state
    BY <1>0, <1>25, ReleaseEffect DEF OwnerTo, OwnerIs
  <2> QED BY <1>0, <2>1, <2>2, <2>3 DEF HungCloses
<1>26. ASSUME NEW c \in Made, End(c) PROVE HungCloses'
  <2>1. /\ Made' = Made /\ \A d \in Made : d # c => link'[d] = link[d]
        /\ link'[c].owner = link[c].owner
    BY <1>26, EndEffect DEF LinkTo, LinkIs
  <2>2. link'[c].srv \in {"txn", "finishing", "written"} /\ link'[c].hung
            => link[c].srv \in {"txn", "finishing", "written"} /\ link[c].hung
    BY <1>26, EndEffect DEF LinkTo, LinkIs
  <2>3. \A y \in Procs : owner'[y].state = owner[y].state
    BY <1>0, <1>26, EndEffect DEF OwnerTo, OwnerIs
  <2> QED BY <1>0, <2>1, <2>2, <2>3 DEF HungCloses
<1>27. ASSUME NEW c \in Made, Break(c) PROVE HungCloses'
  <2>1. /\ owner' = owner /\ Made' = Made /\ \A d \in Made : d # c => link'[d] = link[d]
        /\ link'[c].owner = link[c].owner
    BY <1>27, BreakEffect DEF LinkTo, LinkIs
  <2>2. link'[c].srv \in {"txn", "finishing", "written"} /\ link'[c].hung
            => link[c].srv \in {"txn", "finishing", "written"} /\ link[c].hung
    BY <1>27, BreakEffect DEF LinkTo, LinkIs
  <2> QED BY <1>0, <2>1, <2>2 DEF HungCloses
<1>28. ASSUME NEW c \in Made, ReleaseFails(c) PROVE HungCloses'
  <2>1. /\ Made' = Made /\ \A d \in Made : d # c => link'[d] = link[d]
        /\ link'[c].owner = link[c].owner
    BY <1>28, ReleaseFailsEffect DEF FailsTo, LinkTo, LinkIs
  <2>2. link'[c].srv \in {"txn", "finishing", "written"} /\ link'[c].hung
            => link[c].srv \in {"txn", "finishing", "written"} /\ link[c].hung
    BY <1>28, ReleaseFailsEffect DEF FailsTo, LinkTo, LinkIs
  <2>3. \A y \in Procs : owner'[y].state = owner[y].state
    BY <1>0, <1>28, ReleaseFailsEffect DEF FailsTo, OwnerTo, OwnerIs
  <2> QED BY <1>0, <2>1, <2>2, <2>3 DEF HungCloses
<1>29. ASSUME NEW c \in Made, StopServing(c) PROVE HungCloses'
  <2>1. ASSUME NEW d \in Made
        PROVE  link'[d].owner = link[d].owner /\ link'[d].srv \in {link[d].srv, "idle"}
    <3>1. LinkIs(link[d], link'[d], IF d \in {c} THEN "idle" ELSE link[d].srv, link[d].base,
                 link[d].id, link[d].sent, link[d].up, link[d].owner = link[c].owner
                     \/ link[d].hung)
      BY <1>29, StopServingEffect DEF LinksHung
    <3> QED BY <3>1 DEF LinkIs
  <2>2. link'[c].srv = "idle"
    <3>1. LinkIs(link[c], link'[c], IF c \in {c} THEN "idle" ELSE link[c].srv, link[c].base,
                 link[c].id, link[c].sent, link[c].up, link[c].owner = link[c].owner
                     \/ link[c].hung)
      BY <1>29, StopServingEffect DEF LinksHung
    <3> QED BY <3>1 DEF LinkIs
  <2>3. Made' = Made
    BY <1>29, StopServingEffect DEF LinksHung
  <2>4. \A d \in Made : link[d].srv \in Active => d = c
    <3>1. link[c].srv \in Active
      BY <1>29, StopServingEffect DEF Active
    <3> QED BY <3>1, Exclusive
  <2> QED BY <2>1, <2>2, <2>3, <2>4 DEF HungCloses, Active
<1> QED BY <1>1, <1>2, <1>3, <1>4, <1>5, <1>6, <1>7, <1>8, <1>9, <1>10, <1>11, <1>12,
           <1>13, <1>14, <1>15, <1>16, <1>17, <1>18, <1>19, <1>20, <1>21, <1>22,
           <1>23, <1>24, <1>25, <1>26, <1>27, <1>28, <1>29 DEF Next, Serving, Resolving, Chosen

-----------------------------------------------------------------------------
(* What is waited for and what was told. *)

\* Ids are given in order: no commit in the file, in a connection or waited
\* for has one that was not given.
Named ==
    /\ \A t \in 1 .. Len(file) : file[t] <= Len(outcome)
    /\ \A c \in Made : Queued(c) => link[c].id \in 1 .. Len(outcome)
    /\ \A p \in Procs : Waiting(p) => txn[p].id \in 1 .. Len(outcome)

\* A queued commit is not in the file and nobody else's: whoever waits for it is
\* the client it came from, still on the connection or cut off by the owner. A
\* commit waited for is in the file at its txid or nowhere, and no commit is
\* there twice.
Pending ==
    /\ \A c \in Made : Queued(c) => \A t \in 1 .. Len(file) : file[t] # link[c].id
    /\ \A c, d \in Made : Queued(c) /\ Queued(d) /\ link[c].id = link[d].id => c = d
    /\ \A c \in Made, p \in Procs : Queued(c) /\ Waiting(p) /\ txn[p].id = link[c].id =>
            /\ link[c].client = p /\ link[c].base = txn[p].base
            /\ txn[p].pc = "sent" => conn[p] = c
            /\ txn[p].pc # "sent" => link[c].hung
    /\ \A p \in Procs : Waiting(p) =>
            \A t \in 1 .. Len(file) : file[t] = txn[p].id => t = txn[p].base + 1
    /\ \A t, u \in 1 .. Len(file) : file[t] = file[u] /\ file[t] # Maintenance => t = u

\* An owner that hung up on every client and takes no new one.
Cut(q) == owner[q].state # "serving" /\ Closed(q)

\* A client that waits for the reply of a thread of q about to stop the service.
Stuck(p, q) ==
    /\ txn[p].pc = "sent" /\ conn[p] \in Made
    /\ link[conn[p]].owner = q /\ link[conn[p]].srv = "failing" /\ ~link[conn[p]].hung

\* A poisoned pager whose file is past its window: the last commit may have
\* landed without being published. Whoever waits for that commit is not answered
\* by this owner: it has hung up, or its thread that failed is about to.
Doubt ==
    \A q \in Procs : Owns(q) /\ owner[q].poisoned /\ Len(file) # owner[q].txid =>
        /\ Len(file) = owner[q].txid + 1
        /\ \A p \in Procs : Waiting(p) /\ txn[p].id = file[Len(file)] =>
                p # q /\ (Cut(q) \/ Stuck(p, q))

\* What was told is true, and no commit reported failed may still be written.
Truth ==
    /\ \A i \in 1 .. Len(outcome) :
        /\ outcome[i] = "committed" => \E t \in 1 .. Len(file) : file[t] = i
        /\ outcome[i] = "failed" => \A t \in 1 .. Len(file) : file[t] # i
    /\ \A c \in Made : Due(c) => outcome[link[c].id] # "failed"

\* The file grew by commit i.
FileGrew(i) ==
    /\ Files' /\ Len(file') = Len(file) + 1 /\ file'[Len(file) + 1] = i
    /\ \A u \in 1 .. Len(file) : file'[u] = file[u]

\* An application was told w of the commit it waited for, and w is true.
Told(p, w) ==
    /\ file' = file /\ Len(outcome') = Len(outcome)
    /\ \A i \in 1 .. Len(outcome) : outcome'[i] = outcome[i] \/ (i = txn[p].id /\ outcome'[i] = w)
    /\ w = "committed" => \E t \in 1 .. Len(file) : file[t] = txn[p].id
    /\ w = "failed" => /\ \A t \in 1 .. Len(file) : file[t] # txn[p].id
                       /\ \A d \in Made' : Due(d)' => link'[d].id # txn[p].id

\* A commit ended in the step it began, and was told w.
Began(w) ==
    /\ Len(outcome') = Len(outcome) + 1 /\ outcome'[Len(outcome) + 1] = w
    /\ \A i \in 1 .. Len(outcome) : outcome'[i] = outcome[i]
    /\ file' = file \/ FileGrew(Len(outcome) + 1)
    /\ w = "committed" => FileGrew(Len(outcome) + 1)
    /\ w = "failed" => file' = file

\* The commit queued on c was written.
Wrote(c) ==
    /\ outcome' = outcome /\ Due(c) /\ ~Queued(c)'
    /\ link[c].base = Len(file) /\ FileGrew(link[c].id)

\* What a step does to the file and to what was told.
Reports ==
    \/ file' = file /\ outcome' = outcome
    \/ FileGrew(Maintenance) /\ outcome' = outcome
    \/ \E p \in Procs, w \in Outcomes : Waiting(p) /\ Told(p, w)
    \/ \E w \in Outcomes : Began(w)
    \/ \E c \in Made : Wrote(c)

\* The slot past the newest commit.
LEMMA WriteGrows ==
    ASSUME Files, NEW t \in Nat, t = Len(file) + 1, t <= MaxTxid, NEW i \in 0 .. MaxIds,
           file' = Write(t, i)
    PROVE  FileGrew(i)
BY WriteAppends DEF FileGrew

\* A new outcome.
LEMMA OutcomeGrows ==
    ASSUME Types, NEW w \in Outcomes, outcome' = Append(outcome, w)
    PROVE  /\ Len(outcome') = Len(outcome) + 1 /\ outcome'[Len(outcome) + 1] = w
           /\ \A i \in 1 .. Len(outcome) : outcome'[i] = outcome[i]
<1>1. outcome \in Seq(Outcomes)
  BY DEF Types
<1> QED BY <1>1, Appended

\* What Tell does to the outcomes.
LEMMA Tells ==
    ASSUME Types, NEW p \in Procs, NEW w \in Outcomes, Tell(p, w)
    PROVE  /\ Len(outcome') = Len(outcome)
           /\ \A i \in 1 .. Len(outcome) :
                outcome'[i] = outcome[i] \/ (i = txn[p].id /\ outcome'[i] = w)
<1>1. /\ Len(outcome') = Len(outcome)
      /\ \A i \in 1 .. Len(outcome) : outcome'[i] = IF i = txn[p].id THEN w ELSE outcome[i]
  BY TellEffect
<1>2. ASSUME NEW i \in 1 .. Len(outcome)
      PROVE  outcome'[i] = outcome[i] \/ (i = txn[p].id /\ outcome'[i] = w)
  <2>1. CASE i = txn[p].id
    BY <1>1, <2>1
  <2>2. CASE i # txn[p].id
    BY <1>1, <2>2
  <2> QED BY <2>1, <2>2
<1> QED BY <1>1, <1>2

\* commit_status is truthful: an owner that answers knows whether the commit is
\* in the file, and no thread that may still write it is left.
LEMMA ResolveTold ==
    ASSUME Types, Files, OneOwner, Threads, Ends, Gates, Versions, Landed,
           Named, Pending, HungCloses, Doubt,
           NEW p \in Procs, txn[p].pc \in {"lost", "asking"}, NEW q \in Procs, Owns(q),
           owner[q].lock = 0, p = q \/ ~Closed(q),
           Tell(p, Resolved(owner[q], txn[p].base + 1, txn[p].id)), UNCHANGED <<file, link>>
    PROVE  \E w \in Outcomes : Waiting(p) /\ Told(p, w)
<1> DEFINE b == txn[p].base + 1
           i == txn[p].id
           w == Resolved(owner[q], b, i)
<1>1. Waiting(p) /\ txn[p].pc # "sent"
  BY DEF Waiting
<1>2. w \in Outcomes
  BY ResolvedIs DEF Outcomes
<1>3. /\ Len(outcome') = Len(outcome)
      /\ \A j \in 1 .. Len(outcome) : outcome'[j] = outcome[j] \/ (j = i /\ outcome'[j] = w)
  BY <1>2, Tells
<1>4. \A t \in 1 .. Len(file) : file[t] = i => t = b
  BY <1>1 DEF Pending
<1>5. b \in Nat /\ owner[q].txid \in 0 .. Len(file) /\ Len(file) \in Nat
  BY TxnAt, PageServiceAssumption DEF Versions, Files
<1>6. ASSUME w = "committed" PROVE \E t \in 1 .. Len(file) : file[t] = i
  <2>1. <<b, i>> \in owner[q].res
    BY <1>6 DEF Resolved
  <2>2. b \in 1 .. owner[q].txid /\ file[b] = i
    BY <2>1 DEF Landed
  <2> QED BY <1>5, <2>2
<1>7. ASSUME w = "failed", NEW t \in 1 .. Len(file), file[t] = i PROVE FALSE
  <2>1. t = b
    BY <1>4, <1>7
  <2>2. CASE b > owner[q].txid
    <3>1. Len(file) # owner[q].txid
      BY <1>5, <2>1, <2>2
    <3>2. owner[q].poisoned
      BY <3>1 DEF Versions
    <3>3. Len(file) = owner[q].txid + 1
      BY <3>1, <3>2 DEF Doubt
    <3>4. t = Len(file)
      BY <1>5, <2>1, <2>2, <3>3
    <3>5. p # q /\ Closed(q)
      BY <1>1, <1>7, <3>1, <3>2, <3>4 DEF Doubt, Cut, Stuck
    <3> QED BY <3>5
  <2>3. CASE ~(b > owner[q].txid)
    <3>1. <<b, i>> \notin owner[q].res /\ \E r \in owner[q].res : r[1] = b
      BY <1>7, <2>3 DEF Resolved
    <3>2. PICK r \in owner[q].res : r[1] = b
      BY <3>1
    <3>3. file[b] = r[2]
      BY <3>2 DEF Landed
    <3>4. r = <<r[1], r[2]>>
      BY OwnerAt DEF Owners
    <3> QED BY <1>7, <2>1, <3>1, <3>2, <3>3, <3>4
  <2> QED BY <2>2, <2>3
<1>8. ASSUME NEW d \in Made, Due(d), link[d].id = i PROVE FALSE
  <2>1. Queued(d) /\ link[d].srv \in {"txn", "finishing"}
    BY <1>8 DEF Due, Queued
  <2>2. link[d].client = p /\ link[d].hung
    BY <1>1, <1>8, <2>1 DEF Pending
  <2>3. link[d].owner \in Procs /\ Owns(link[d].owner) /\ owner[link[d].owner].state = "closing"
    BY <2>1, <2>2, LinkAt DEF HungCloses, Threads
  <2>4. link[d].owner = q
    BY <2>3 DEF OneOwner
  <2>5. Closed(q)
    BY <2>3, <2>4 DEF Threads
  <2>6. p # q
    BY <2>2, <2>4 DEF Ends
  <2> QED BY <2>5, <2>6
<1>9. \A d \in Made' : Due(d)' => link'[d].id # i
  BY <1>8 DEF Made, Due
<1> HIDE DEF w
<1> QED BY <1>1, <1>2, <1>3, <1>6, <1>7, <1>9 DEF Told

\* Every step but ClientSend writes at most one commit, past the newest, and
\* tells only what is true.
LEMMA ReportStep ==
    ASSUME Types, Files, OneOwner, Threads, Ends, Gates, Requests, Versions, Landed,
           Named, Pending, HungCloses, Doubt, Next, \A c \in Made : ~ClientSend(c)
    PROVE  Reports
<1>0. \A d \in Made : link[d].owner \in Procs /\ link[d].client \in Procs
  BY LinkAt
<1>1. ASSUME NEW p \in Procs, Promote(p) PROVE Reports
  <2>1. file' = file /\ outcome' = outcome
    BY <1>1, PromoteEffect
  <2> QED BY <2>1 DEF Reports
<1>2. ASSUME NEW p \in Procs, StartShutdown(p) PROVE Reports
  <2>1. file' = file /\ outcome' = outcome
    BY <1>2, StartShutdownEffect
  <2> QED BY <2>1 DEF Reports
<1>3. ASSUME NEW p \in Procs, FinishShutdown(p) PROVE Reports
  <2>1. file' = file /\ outcome' = outcome
    BY <1>3, FinishShutdownEffect
  <2> QED BY <2>1 DEF Reports
<1>4. ASSUME NEW p \in Procs, Crash(p) PROVE Reports
  <2>1. file' = file /\ outcome' = outcome
    BY <1>4, CrashEffect
  <2> QED BY <2>1 DEF Reports
<1>5. ASSUME NEW p \in Procs, OwnBegin(p) PROVE Reports
  <2>1. file' = file /\ outcome' = outcome
    BY <1>5, OwnBeginEffect
  <2> QED BY <2>1 DEF Reports
<1>6. ASSUME NEW p \in Procs, OwnRollback(p) PROVE Reports
  <2>1. file' = file /\ outcome' = outcome
    BY <1>6, OwnRollbackEffect
  <2> QED BY <2>1 DEF Reports
<1>7. ASSUME NEW p \in Procs, OwnCommit(p) PROVE Reports
  <2>0. Len(outcome) \in Nat
    BY DEF Types
  <2>00. txn[p].pc = "own" /\ Len(outcome) < MaxIds /\ txn[p].base + 1 <= MaxTxid
    BY <1>7, OwnCommitEffect
  <2>1. txn[p].pc = "own" /\ Len(outcome) + 1 \in 0 .. MaxIds /\ txn[p].base + 1 <= MaxTxid
    BY <2>0, <2>00, PageServiceAssumption
  <2>2. ASSUME ~owner[p].poisoned, file' = Write(txn[p].base + 1, Len(outcome) + 1)
        PROVE  FileGrew(Len(outcome) + 1)
    <3>1. txn[p].base = Len(file) /\ Len(file) \in Nat
      BY <2>1, <2>2, WritersAtEnd DEF Files
    <3>2. txn[p].base + 1 \in Nat /\ txn[p].base + 1 = Len(file) + 1
      BY <3>1
    <3> QED BY <2>1, <2>2, <3>2, WriteGrows
  <2>3. CASE ~owner[p].poisoned /\ file' = Write(txn[p].base + 1, Len(outcome) + 1)
            /\ outcome' = Append(outcome, "committed")
    <3>1. Began("committed")
      BY <2>2, <2>3, OutcomeGrows DEF Began, Outcomes
    <3> QED BY <3>1 DEF Reports, Outcomes
  <2>4. CASE file' = file /\ outcome' = Append(outcome, "failed")
    <3>1. Began("failed")
      BY <2>4, OutcomeGrows DEF Began, Outcomes
    <3> QED BY <3>1 DEF Reports, Outcomes
  <2>5. CASE ~owner[p].poisoned /\ file' \in {file, Write(txn[p].base + 1, Len(outcome) + 1)}
            /\ outcome' = Append(outcome, "unknown")
    <3>1. Began("unknown")
      BY <2>2, <2>5, OutcomeGrows DEF Began, Outcomes
    <3> QED BY <3>1 DEF Reports, Outcomes
  <2> QED BY <1>7, <2>3, <2>4, <2>5, OwnCommitEffect
<1>8. ASSUME NEW p \in Procs, OwnStale(p) PROVE Reports
  <2>1. Began("failed")
    BY <1>8, OwnStaleEffect, OutcomeGrows DEF Began, Outcomes
  <2> QED BY <2>1 DEF Reports, Outcomes
<1>9. ASSUME NEW p \in Procs, GiveUp(p) PROVE Reports
  <2>1. file' = file /\ p \in Procs
    BY <1>9 DEF GiveUp
  <2>2. txn[p].pc = "lost" /\ Tell(p, "unknown")
    BY <1>9 DEF GiveUp
  <2>3. Reports
    <3>1. /\ Len(outcome') = Len(outcome)
          /\ \A i \in 1 .. Len(outcome) : outcome'[i] = outcome[i] \/ (i = txn[p].id
              /\ outcome'[i] = "unknown")
      BY <2>1, <2>2, Tells DEF Outcomes
    <3>2. Waiting(p) /\ Told(p, "unknown")
      BY <2>1, <2>2, <3>1 DEF Told, Waiting
    <3> QED BY <2>1, <3>2 DEF Reports, Outcomes
  <2> QED BY <2>3
<1>10. ASSUME NEW p \in Procs, ResolveSelf(p) PROVE Reports
  <2>1. /\ txn[p].pc = "lost" /\ Owns(p) /\ owner[p].lock = 0 /\ UNCHANGED <<file, link>>
        /\ Tell(p, Resolved(owner[p], txn[p].base + 1, txn[p].id))
    BY <1>10 DEF ResolveSelf
  <2>2. \E w \in Outcomes : Waiting(p) /\ Told(p, w)
    BY <2>1, ResolveTold
  <2> QED BY <2>2 DEF Reports
<1>11. ASSUME NEW p \in Procs, Ask(p) PROVE Reports
  <2>1. file' = file /\ outcome' = outcome
    BY <1>11, AskEffect
  <2> QED BY <2>1 DEF Reports
<1>12. ASSUME NEW p \in Procs, Answer(p) PROVE Reports
  <2> DEFINE c == conn[p]
             q == link[c].owner
  <2>1. /\ txn[p].pc = "asking" /\ c # 0 /\ Heard(c) /\ owner[q].lock = 0 /\ UNCHANGED <<file,
            link>>
        /\ Tell(p, Resolved(owner[q], txn[p].base + 1, txn[p].id))
    BY <1>12 DEF Answer
  <2>2. c \in Made /\ ~link[c].hung
    BY <2>1 DEF Ends, Heard
  <2>3. q \in Procs /\ Owns(q) /\ ~Closed(q)
    BY <1>0, <2>2 DEF Threads, Closed
  <2> HIDE DEF c, q
  <2>4. \E w \in Outcomes : Waiting(p) /\ Told(p, w)
    BY <2>1, <2>3, ResolveTold
  <2> QED BY <2>4 DEF Reports
<1>13. ASSUME NEW p \in Procs, NEW q \in Procs, Reconnect(p, q) PROVE Reports
  <2>1. file' = file /\ outcome' = outcome
    BY <1>13, ReconnectEffect
  <2> QED BY <2>1 DEF Reports
<1>14. ASSUME NEW c \in Made, ClientBegin(c) PROVE Reports
  <2>1. file' = file /\ outcome' = outcome
    BY <1>14, ClientBeginEffect
  <2> QED BY <2>1 DEF Reports
<1>16. ASSUME NEW c \in Made, ClientAbort(c) PROVE Reports
  <2>1. file' = file /\ outcome' = outcome
    BY <1>16, ClientAbortEffect
  <2> QED BY <2>1 DEF Reports
<1>17. ASSUME NEW c \in Made, ClientClose(c) PROVE Reports
  <2>1. file' = file /\ link[c].client \in Procs
    BY <1>17, ClientCloseEffect
  <2>2. CASE txn[link[c].client].pc \in {"sent", "lost", "asking"} /\ Tell(link[c].client,
            "unknown")
    <3>1. /\ Len(outcome') = Len(outcome)
          /\ \A i \in 1 .. Len(outcome) : outcome'[i] = outcome[i] \/ (i = txn[link[c].client].id
              /\ outcome'[i] = "unknown")
      BY <2>1, <2>2, Tells DEF Outcomes
    <3>2. Waiting(link[c].client) /\ Told(link[c].client, "unknown")
      BY <2>1, <2>2, <3>1 DEF Told, Waiting
    <3> QED BY <2>1, <3>2 DEF Reports, Outcomes
  <2>3. CASE outcome' = outcome
    BY <2>1, <2>3 DEF Reports
  <2> QED BY <1>17, <2>2, <2>3, ClientCloseEffect
<1>18. ASSUME NEW c \in Made, Revoke(c) PROVE Reports
  <2>1. file' = file /\ outcome' = outcome
    BY <1>18, RevokeEffect
  <2> QED BY <2>1 DEF Reports
<1>19. ASSUME NEW c \in Made, HangUpIdle(c) PROVE Reports
  <2>1. file' = file /\ outcome' = outcome
    BY <1>19, HangUpIdleEffect
  <2> QED BY <2>1 DEF Reports
<1>20. ASSUME NEW c \in Made, ReadEnd(c) PROVE Reports
  <2> DEFINE p == link[c].client
  <2>1. file' = file /\ p \in Procs /\ link[c].sent /\ Made' = Made /\ \A d \in Made : d # c
            => link'[d] = link[d]
    BY <1>20, ReadEndEffect DEF LinkTo
  <2>2. CASE outcome' = outcome
    BY <2>1, <2>2 DEF Reports
  <2>3. CASE link[c].srv = "revoked" /\ link[c].up /\ Tell(p, "failed")
    <3>1. txn[p].pc = "sent" /\ txn[p].id = link[c].id
      BY <2>1, <2>3 DEF Requests
    <3>2. Queued(c) /\ ~Due(c)
      BY <2>1, <2>3 DEF Queued, Due
    <3>3. \A d \in Made : Due(d) => link[d].id # link[c].id
      BY <3>2 DEF Pending, Due, Queued
    <3>4. ~Due(c)'
      BY <1>20, <2>3, ReadEndEffect DEF LinkTo, LinkIs, Due
    <3>5. \A d \in Made' : Due(d)' => link'[d].id # txn[p].id
      BY <2>1, <3>1, <3>3, <3>4 DEF Due
    <3>6. \A t \in 1 .. Len(file) : file[t] # txn[p].id
      BY <3>1, <3>2 DEF Pending
    <3>7. /\ Len(outcome') = Len(outcome)
          /\ \A i \in 1 .. Len(outcome) : outcome'[i] = outcome[i] \/ (i = txn[p].id
              /\ outcome'[i] = "failed")
      BY <2>1, <2>3, Tells DEF Outcomes
    <3>8. Waiting(p) /\ Told(p, "failed")
      BY <2>1, <3>1, <3>5, <3>6, <3>7 DEF Told, Waiting
    <3> QED BY <2>1, <3>8 DEF Reports, Outcomes
  <2> QED BY <1>20, <2>2, <2>3, ReadEndEffect
<1>21. ASSUME NEW c \in Made, CommitDelta(c) PROVE Reports
  <2>1. link[c].srv = "finishing" /\ outcome' = outcome
    BY <1>21, CommitDeltaEffect
  <2>2. ~Queued(c)'
    BY <1>21, <2>1, CommitDeltaEffect DEF LinkTo, LinkIs, Queued, Requests
  <2>3. CASE ~owner[link[c].owner].poisoned /\ file' = Write(link[c].base + 1, link[c].id)
    <3>1. link[c].base = Len(file) /\ Len(file) \in Nat
      BY <2>1, <2>3, WritersAtEnd DEF Files
    <3>2. link[c].base + 1 \in Nat /\ link[c].base + 1 = Len(file) + 1
      BY <3>1
    <3>3. link[c].base < MaxTxid /\ link[c].id \in 0 .. MaxIds
      BY <2>1, LinkAt DEF Types
    <3>4. link[c].base + 1 <= MaxTxid
      BY <3>1, <3>3, PageServiceAssumption
    <3>5. FileGrew(link[c].id)
      BY <2>3, <3>2, <3>3, <3>4, WriteGrows
    <3> QED BY <2>1, <2>2, <3>1, <3>5 DEF Reports, Wrote, Due
  <2> QED BY <1>21, <2>3, CommitDeltaEffect
<1>22. ASSUME NEW c \in Made, CommitDeltaFails(c) PROVE Reports
  <2>1. link[c].srv = "finishing" /\ outcome' = outcome
    BY <1>22, CommitDeltaFailsEffect
  <2>2. ~Queued(c)'
    BY <1>22, <2>1, CommitDeltaFailsEffect DEF FailsTo, LinkTo, LinkIs, Queued, Requests
  <2>3. CASE ~owner[link[c].owner].poisoned /\ file' = Write(link[c].base + 1, link[c].id)
    <3>1. link[c].base = Len(file) /\ Len(file) \in Nat
      BY <2>1, <2>3, WritersAtEnd DEF Files
    <3>2. link[c].base + 1 \in Nat /\ link[c].base + 1 = Len(file) + 1
      BY <3>1
    <3>3. link[c].base < MaxTxid /\ link[c].id \in 0 .. MaxIds
      BY <2>1, LinkAt DEF Types
    <3>4. link[c].base + 1 <= MaxTxid
      BY <3>1, <3>3, PageServiceAssumption
    <3>5. FileGrew(link[c].id)
      BY <2>3, <3>2, <3>3, <3>4, WriteGrows
    <3> QED BY <2>1, <2>2, <3>1, <3>5 DEF Reports, Wrote, Due
  <2>4. CASE file' = file
    BY <2>1, <2>4 DEF Reports
  <2> QED BY <1>22, <2>3, <2>4, CommitDeltaFailsEffect
<1>23. ASSUME NEW c \in Made, Publish(c) PROVE Reports
  <2>1. file' = file /\ outcome' = outcome
    BY <1>23, PublishEffect
  <2> QED BY <2>1 DEF Reports
<1>24. ASSUME NEW c \in Made, Ack(c) PROVE Reports
  <2> DEFINE p == link[c].client
  <2>1. file' = file /\ p \in Procs /\ link[c].srv = "published"
    BY <1>24, AckEffect
  <2>2. CASE outcome' = outcome
    BY <2>1, <2>2 DEF Reports
  <2>3. CASE link[c].up /\ Tell(p, "committed")
    <3>1. txn[p].pc = "sent" /\ txn[p].id = link[c].id
      BY <2>1, <2>3 DEF Requests
    <3>2. \E t \in 1 .. Len(file) : file[t] = txn[p].id
      BY <2>1, <3>1 DEF Landed
    <3>3. /\ Len(outcome') = Len(outcome)
          /\ \A i \in 1 .. Len(outcome) : outcome'[i] = outcome[i] \/ (i = txn[p].id
              /\ outcome'[i] = "committed")
      BY <2>1, <2>3, Tells DEF Outcomes
    <3>4. Waiting(p) /\ Told(p, "committed")
      BY <2>1, <3>1, <3>2, <3>3 DEF Told, Waiting
    <3> QED BY <2>1, <3>4 DEF Reports, Outcomes
  <2> QED BY <1>24, <2>2, <2>3, AckEffect
<1>25. ASSUME NEW c \in Made, Release(c) PROVE Reports
  <2> DEFINE q == link[c].owner
  <2>1. link[c].srv = "acked" /\ outcome' = outcome
    BY <1>25, ReleaseEffect
  <2>2. CASE file' = file
    BY <2>1, <2>2 DEF Reports
  <2>3. CASE ~owner[q].poisoned /\ owner[q].txid + 1 <= MaxTxid
            /\ file' = Write(owner[q].txid + 1, Maintenance)
    <3>1. owner[q].txid = Len(file) /\ Len(file) \in Nat /\ Maintenance \in 0 .. MaxIds
      BY <2>1, <2>3, WritersAtEnd, PageServiceAssumption DEF Files, Maintenance
    <3>2. owner[q].txid + 1 \in Nat /\ owner[q].txid + 1 = Len(file) + 1
      BY <3>1
    <3>3. FileGrew(Maintenance)
      BY <2>3, <3>1, <3>2, WriteGrows
    <3> QED BY <2>1, <3>3 DEF Reports
  <2> QED BY <1>25, <2>2, <2>3, ReleaseEffect
<1>26. ASSUME NEW c \in Made, End(c) PROVE Reports
  <2>1. file' = file /\ outcome' = outcome
    BY <1>26, EndEffect
  <2> QED BY <2>1 DEF Reports
<1>27. ASSUME NEW c \in Made, Break(c) PROVE Reports
  <2>1. file' = file /\ link[c].client \in Procs
    BY <1>27, BreakEffect
  <2>2. CASE txn[link[c].client].pc \in {"lost", "asking"} /\ Tell(link[c].client, "unknown")
    <3>1. /\ Len(outcome') = Len(outcome)
          /\ \A i \in 1 .. Len(outcome) : outcome'[i] = outcome[i] \/ (i = txn[link[c].client].id
              /\ outcome'[i] = "unknown")
      BY <2>1, <2>2, Tells DEF Outcomes
    <3>2. Waiting(link[c].client) /\ Told(link[c].client, "unknown")
      BY <2>1, <2>2, <3>1 DEF Told, Waiting
    <3> QED BY <2>1, <3>2 DEF Reports, Outcomes
  <2>3. CASE outcome' = outcome
    BY <2>1, <2>3 DEF Reports
  <2> QED BY <1>27, <2>2, <2>3, BreakEffect
<1>28. ASSUME NEW c \in Made, ReleaseFails(c) PROVE Reports
  <2> DEFINE q == link[c].owner
  <2>1. link[c].srv = "acked" /\ outcome' = outcome
    BY <1>28, ReleaseFailsEffect
  <2>2. CASE file' = file
    BY <2>1, <2>2 DEF Reports
  <2>3. CASE ~owner[q].poisoned /\ owner[q].txid + 1 <= MaxTxid
            /\ file' = Write(owner[q].txid + 1, Maintenance)
    <3>1. owner[q].txid = Len(file) /\ Len(file) \in Nat /\ Maintenance \in 0 .. MaxIds
      BY <2>1, <2>3, WritersAtEnd, PageServiceAssumption DEF Files, Maintenance
    <3>2. owner[q].txid + 1 \in Nat /\ owner[q].txid + 1 = Len(file) + 1
      BY <3>1
    <3>3. FileGrew(Maintenance)
      BY <2>3, <3>1, <3>2, WriteGrows
    <3> QED BY <2>1, <3>3 DEF Reports
  <2> QED BY <1>28, <2>2, <2>3, ReleaseFailsEffect
<1>29. ASSUME NEW c \in Made, StopServing(c) PROVE Reports
  <2>1. file' = file /\ outcome' = outcome
    BY <1>29, StopServingEffect
  <2> QED BY <2>1 DEF Reports
<1> QED BY <1>1, <1>2, <1>3, <1>4, <1>5, <1>6, <1>7, <1>8, <1>9, <1>10, <1>11, <1>12,
           <1>13, <1>14, <1>16, <1>17, <1>18, <1>19, <1>20, <1>21, <1>22, <1>23,
           <1>24, <1>25, <1>26, <1>27, <1>28, <1>29 DEF Next, Serving, Resolving, Chosen

-----------------------------------------------------------------------------
(* The steps but ClientSend. *)

\* A commit that can be new in the file: a maintenance commit, the owner's own
\* or one that was due.
Fresh(i) ==
    \/ i = Maintenance
    \/ i = Len(outcome) + 1 /\ Len(outcome') = Len(outcome) + 1
    \/ \E c \in Made : Due(c) /\ ~Queued(c)' /\ link[c].base = Len(file) /\ i = link[c].id

\* Where the commits of the file after a step come from.
LEMMA ReportFile ==
    ASSUME Types, Files, Reports
    PROVE  /\ Len(outcome) \in Nat /\ Len(outcome') \in Nat /\ Len(outcome) <= Len(outcome')
           /\ Len(file) \in Nat /\ Len(file') \in Nat /\ Len(file) <= Len(file')
           /\ \A u \in 1 .. Len(file) : file'[u] = file[u]
           /\ \A u \in 1 .. Len(file') : \/ u \in 1 .. Len(file) /\ file'[u] = file[u]
                                         \/ u = Len(file) + 1 /\ Fresh(file'[u])
<1>1. Len(outcome) \in Nat /\ Len(file) \in Nat
  BY DEF Types, Files
<1>2. Len(outcome') \in Nat /\ Len(outcome) <= Len(outcome')
  BY <1>1 DEF Reports, Told, Began, Wrote
<1>3. ASSUME NEW i, FileGrew(i), Fresh(i)
      PROVE  /\ Len(file') \in Nat /\ Len(file) <= Len(file')
             /\ \A u \in 1 .. Len(file) : file'[u] = file[u]
             /\ \A u \in 1 .. Len(file') : \/ u \in 1 .. Len(file) /\ file'[u] = file[u]
                                           \/ u = Len(file) + 1 /\ Fresh(file'[u])
  <2>1. /\ Len(file') = Len(file) + 1 /\ file'[Len(file) + 1] = i
        /\ \A u \in 1 .. Len(file) : file'[u] = file[u]
    BY <1>3 DEF FileGrew
  <2>2. \A u \in 1 .. Len(file') : u \in 1 .. Len(file) \/ u = Len(file) + 1
    BY <1>1, <2>1
  <2> QED BY <1>1, <1>3, <2>1, <2>2
<1>4. CASE file' = file
  BY <1>1, <1>2, <1>4
<1>5. CASE FileGrew(Maintenance)
  BY <1>1, <1>2, <1>3, <1>5 DEF Fresh
<1>6. CASE \E w \in Outcomes : Began(w)
  <2>1. Len(outcome') = Len(outcome) + 1 /\ (file' = file \/ FileGrew(Len(outcome) + 1))
    BY <1>6 DEF Began
  <2>2. Fresh(Len(outcome) + 1)
    BY <2>1 DEF Fresh
  <2> QED BY <1>1, <1>2, <1>3, <1>4, <2>1, <2>2
<1>7. CASE \E c \in Made : Wrote(c)
  <2>1. PICK c \in Made : Wrote(c)
    BY <1>7
  <2>2. FileGrew(link[c].id) /\ Fresh(link[c].id)
    BY <2>1 DEF Wrote, Fresh
  <2> QED BY <1>1, <1>2, <1>3, <2>2
<1> QED BY <1>4, <1>5, <1>6, <1>7 DEF Reports, Told

\* The commits of the file are numbers.
LEMMA FileAt ==
    ASSUME Files, NEW t \in 1 .. Len(file)
    PROVE  file[t] \in Int
<1>1. \A S, s : s \in Seq(S) => \A u \in 1 .. Len(s) : s[u] \in S
  OBVIOUS
<1>2. file \in Seq(0 .. MaxIds)
  BY DEF Files
<1>3. file[t] \in 0 .. MaxIds
  BY <1>1, <1>2, Zenon
<1> QED BY <1>3, PageServiceAssumption

\* A step but ClientSend keeps Named.
LEMMA NamedKept ==
    ASSUME Types, Files, Named, LinkFrame, TxnFrame, Reports
    PROVE  Named'
<1>1. /\ Len(outcome) \in Nat /\ Len(outcome') \in Nat /\ Len(outcome) <= Len(outcome')
      /\ \A u \in 1 .. Len(file') : \/ u \in 1 .. Len(file) /\ file'[u] = file[u]
                                    \/ u = Len(file) + 1 /\ Fresh(file'[u])
  BY ReportFile
<1>2. \A i \in 1 .. Len(outcome) : i \in 1 .. Len(outcome')
  BY <1>1
<1>3. \A d \in Made' : Queued(d)' => link'[d].id \in 1 .. Len(outcome')
  BY <1>2 DEF LinkFrame, Named
<1>4. \A y \in Procs : Waiting(y)' => txn'[y].id \in 1 .. Len(outcome')
  BY <1>2 DEF TxnFrame, Named
<1>5. ASSUME NEW i, Fresh(i) PROVE i <= Len(outcome')
  <2>1. CASE i = Maintenance
    BY <1>1, <2>1 DEF Maintenance
  <2>2. CASE i = Len(outcome) + 1 /\ Len(outcome') = Len(outcome) + 1
    BY <1>1, <2>2
  <2>3. CASE \E c \in Made : Due(c) /\ i = link[c].id
    <3>1. PICK c \in Made : Due(c) /\ i = link[c].id
      BY <2>3
    <3>2. Queued(c)
      BY <3>1 DEF Due, Queued
    <3>3. link[c].id \in 1 .. Len(outcome)
      BY <3>2 DEF Named
    <3> QED BY <1>1, <3>1, <3>3
  <2> QED BY <1>5, <2>1, <2>2, <2>3 DEF Fresh
<1>6. \A t \in 1 .. Len(file) : file[t] \in Int /\ file[t] <= Len(outcome)
  BY FileAt DEF Named
<1>7. ASSUME NEW u \in 1 .. Len(file') PROVE file'[u] <= Len(outcome')
  <2>1. CASE u \in 1 .. Len(file) /\ file'[u] = file[u]
    BY <1>1, <1>6, <2>1
  <2>2. CASE Fresh(file'[u])
    BY <1>5, <2>2
  <2> QED BY <1>1, <2>1, <2>2
<1> QED BY <1>3, <1>4, <1>7 DEF Named

\* A commit that is new in the file was not there, is no other queued one, and is
\* where whoever waits for it looks.
LEMMA FreshIs ==
    ASSUME Types, Files, Named, Pending, LinkFrame, NEW i, Fresh(i)
    PROVE  /\ i # Maintenance => \A t \in 1 .. Len(file) : file[t] # i
           /\ \A d \in Made' : Queued(d)' => link[d].id # i
           /\ \A y \in Procs : Waiting(y) /\ txn[y].id = i => txn[y].base = Len(file)
<1>1. Len(outcome) \in Nat
  BY DEF Types
<1>2. \A d \in Made' : Queued(d)' => d \in Made /\ Queued(d) /\ link[d].id \in 1 .. Len(outcome)
  BY DEF LinkFrame, Named
<1>3. \A y \in Procs : Waiting(y) => txn[y].id \in 1 .. Len(outcome)
  BY DEF Named
<1>4. \A t \in 1 .. Len(file) : file[t] \in Int /\ file[t] <= Len(outcome)
  BY FileAt DEF Named
<1>5. CASE i = Maintenance
  BY <1>1, <1>2, <1>3, <1>5 DEF Maintenance
<1>6. CASE i = Len(outcome) + 1
  BY <1>1, <1>2, <1>3, <1>4, <1>6
<1>7. CASE \E c \in Made : Due(c) /\ ~Queued(c)' /\ link[c].base = Len(file) /\ i = link[c].id
  <2>1. PICK c \in Made : Due(c) /\ ~Queued(c)' /\ link[c].base = Len(file) /\ i = link[c].id
    BY <1>7
  <2>2. Queued(c)
    BY <2>1 DEF Due, Queued
  <2>3. \A t \in 1 .. Len(file) : file[t] # i
    BY <2>1, <2>2 DEF Pending
  <2>4. \A d \in Made : Queued(d) /\ link[d].id = i => d = c
    BY <2>1, <2>2 DEF Pending
  <2>5. \A y \in Procs : Waiting(y) /\ txn[y].id = i => txn[y].base = Len(file)
    BY <2>1, <2>2 DEF Pending
  <2> QED BY <1>2, <2>1, <2>3, <2>4, <2>5
<1> QED BY <1>5, <1>6, <1>7 DEF Fresh

\* A step but ClientSend keeps Pending.
LEMMA PendingKept ==
    ASSUME Types, Files, Named, Pending, LinkFrame, TxnFrame, Reports
    PROVE  Pending'
<1>1. /\ Len(file) \in Nat
      /\ \A u \in 1 .. Len(file') : \/ u \in 1 .. Len(file) /\ file'[u] = file[u]
                                    \/ u = Len(file) + 1 /\ Fresh(file'[u])
  BY ReportFile
<1>2. ASSUME NEW d \in Made', Queued(d)', NEW u \in 1 .. Len(file') PROVE file'[u] # link'[d].id
  <2>1. d \in Made /\ Queued(d) /\ link'[d].id = link[d].id
    BY <1>2 DEF LinkFrame
  <2>2. CASE u \in 1 .. Len(file) /\ file'[u] = file[u]
    BY <2>1, <2>2 DEF Pending
  <2>3. CASE Fresh(file'[u])
    BY <1>2, <2>1, <2>3, FreshIs
  <2> QED BY <1>1, <2>2, <2>3
<1>3. \A c, d \in Made' : Queued(c)' /\ Queued(d)' /\ link'[c].id = link'[d].id => c = d
  BY DEF LinkFrame, Pending
<1>4. ASSUME NEW c \in Made', NEW p \in Procs, Queued(c)', Waiting(p)', txn'[p].id = link'[c].id
      PROVE  /\ link'[c].client = p /\ link'[c].base = txn'[p].base
             /\ txn'[p].pc = "sent" => conn'[p] = c
             /\ txn'[p].pc # "sent" => link'[c].hung
  <2>1. /\ c \in Made /\ Queued(c) /\ link'[c].id = link[c].id /\ link'[c].base = link[c].base
        /\ link'[c].client = link[c].client /\ (link[c].hung => link'[c].hung)
    BY <1>4 DEF LinkFrame
  <2>2. Waiting(p) /\ txn'[p].id = txn[p].id /\ txn'[p].base = txn[p].base
    BY <1>4 DEF TxnFrame
  <2>3. /\ link[c].client = p /\ link[c].base = txn[p].base
        /\ txn[p].pc = "sent" => conn[p] = c
        /\ txn[p].pc # "sent" => link[c].hung
    BY <1>4, <2>1, <2>2 DEF Pending
  <2>4. txn'[p].pc = "sent" => conn'[p] = c
    BY <2>3 DEF TxnFrame
  <2>5. ASSUME txn'[p].pc # "sent" PROVE link[c].hung
    <3>1. txn'[p].pc \in {"lost", "asking"}
      BY <1>4, <2>5 DEF Waiting
    <3>2. CASE txn[p].pc = "sent"
      BY <2>3, <3>1, <3>2 DEF TxnFrame
    <3> QED BY <2>3, <3>2
  <2> QED BY <2>1, <2>2, <2>3, <2>4, <2>5
<1>5. ASSUME NEW p \in Procs, Waiting(p)', NEW u \in 1 .. Len(file'), file'[u] = txn'[p].id
      PROVE  u = txn'[p].base + 1
  <2>1. Waiting(p) /\ txn'[p].id = txn[p].id /\ txn'[p].base = txn[p].base
    BY <1>5 DEF TxnFrame
  <2>2. CASE u \in 1 .. Len(file) /\ file'[u] = file[u]
    BY <1>5, <2>1, <2>2 DEF Pending
  <2>3. CASE u = Len(file) + 1 /\ Fresh(file'[u])
    <3>1. txn[p].base = Len(file)
      BY <1>5, <2>1, <2>3, FreshIs
    <3> QED BY <2>1, <2>3, <3>1
  <2> QED BY <1>1, <2>2, <2>3
<1>6. ASSUME NEW t \in 1 .. Len(file'), NEW u \in 1 .. Len(file'), file'[t] = file'[u],
             file'[t] # Maintenance
      PROVE  t = u
  <2>1. CASE t \in 1 .. Len(file) /\ file'[t] = file[t] /\ u \in 1 .. Len(file)
            /\ file'[u] = file[u]
    BY <1>6, <2>1 DEF Pending
  <2>2. CASE t = Len(file) + 1 /\ u = Len(file) + 1
    BY <2>2
  <2>3. CASE t \in 1 .. Len(file) /\ file'[t] = file[t] /\ Fresh(file'[u])
    BY <1>6, <2>3, FreshIs
  <2>4. CASE u \in 1 .. Len(file) /\ file'[u] = file[u] /\ Fresh(file'[t])
    BY <1>6, <2>4, FreshIs
  <2> QED BY <1>1, <2>1, <2>2, <2>3, <2>4
<1> QED BY <1>2, <1>3, <1>4, <1>5, <1>6 DEF Pending

\* A step but ClientSend keeps Truth.
LEMMA TruthKept ==
    ASSUME Types, Files, Named, Pending, Truth, LinkFrame, TxnFrame, Reports
    PROVE  Truth'
<1>1. /\ Len(outcome) \in Nat /\ Len(outcome') \in Nat /\ Len(outcome) <= Len(outcome')
      /\ Len(file) \in Nat /\ Len(file') \in Nat /\ Len(file) <= Len(file')
      /\ \A u \in 1 .. Len(file) : file'[u] = file[u]
      /\ \A u \in 1 .. Len(file') : \/ u \in 1 .. Len(file) /\ file'[u] = file[u]
                                    \/ u = Len(file) + 1 /\ Fresh(file'[u])
  BY ReportFile
<1>2. \A t \in 1 .. Len(file) : t \in 1 .. Len(file')
  BY <1>1
\* The outcomes told before.
<1>3. ASSUME NEW i \in 1 .. Len(outcome), outcome[i] = "committed"
      PROVE  \E t \in 1 .. Len(file') : file'[t] = i
  <2>1. PICK t \in 1 .. Len(file) : file[t] = i
    BY <1>3 DEF Truth
  <2> QED BY <1>1, <1>2, <2>1
<1>4. ASSUME NEW i \in 1 .. Len(outcome), outcome[i] = "failed", NEW u \in 1 .. Len(file')
      PROVE  file'[u] # i
  <2>1. CASE u \in 1 .. Len(file) /\ file'[u] = file[u]
    BY <1>4, <2>1 DEF Truth
  <2>2. CASE Fresh(file'[u])
    <3>1. ASSUME NEW c \in Made, Due(c) PROVE link[c].id # i
      BY <1>4, <3>1 DEF Truth
    <3>2. Maintenance # i /\ Len(outcome) + 1 # i
      BY <1>1 DEF Maintenance
    <3> QED BY <2>2, <3>1, <3>2 DEF Fresh
  <2> QED BY <1>1, <2>1, <2>2
\* The commits that are due.
<1>5. ASSUME NEW d \in Made', Due(d)'
      PROVE  /\ d \in Made /\ Due(d) /\ link'[d].id = link[d].id
             /\ link[d].id \in 1 .. Len(outcome)
             /\ outcome[link[d].id] # "failed"
  <2>1. Queued(d)'
    BY <1>5 DEF Due, Queued
  <2> QED BY <1>5, <2>1 DEF LinkFrame, Named, Truth
<1>6. CASE outcome' = outcome
  BY <1>3, <1>4, <1>5, <1>6 DEF Truth
<1>7. CASE \E p \in Procs, w \in Outcomes : Waiting(p) /\ Told(p, w)
  <2>1. PICK p \in Procs, w \in Outcomes : Told(p, w)
    BY <1>7
  <2>2. ASSUME NEW i \in 1 .. Len(outcome')
        PROVE  /\ outcome'[i] = "committed" => \E t \in 1 .. Len(file') : file'[t] = i
               /\ outcome'[i] = "failed" => \A t \in 1 .. Len(file') : file'[t] # i
    <3>0. i \in 1 .. Len(outcome) /\ file' = file
      BY <2>1 DEF Told
    <3>1. CASE outcome'[i] = outcome[i]
      BY <1>3, <1>4, <3>0, <3>1
    <3>2. CASE i = txn[p].id /\ outcome'[i] = w
      BY <2>1, <3>0, <3>2 DEF Told
    <3> QED BY <2>1, <3>0, <3>1, <3>2 DEF Told
  <2>3. ASSUME NEW d \in Made', Due(d)' PROVE outcome'[link'[d].id] # "failed"
    <3>1. /\ link'[d].id = link[d].id /\ link[d].id \in 1 .. Len(outcome)
          /\ outcome[link[d].id] # "failed"
      BY <1>5, <2>3
    <3>2. CASE outcome'[link[d].id] = outcome[link[d].id]
      BY <3>1, <3>2
    <3>3. CASE link[d].id = txn[p].id /\ outcome'[link[d].id] = w
      BY <2>1, <2>3, <3>1, <3>3 DEF Told
    <3> QED BY <2>1, <3>1, <3>2, <3>3 DEF Told
  <2> QED BY <2>2, <2>3 DEF Truth
<1>8. CASE \E w \in Outcomes : Began(w)
  <2>1. PICK w \in Outcomes : Began(w)
    BY <1>8
  <2>2. ASSUME NEW i \in 1 .. Len(outcome')
        PROVE  /\ outcome'[i] = "committed" => \E t \in 1 .. Len(file') : file'[t] = i
               /\ outcome'[i] = "failed" => \A t \in 1 .. Len(file') : file'[t] # i
    <3>1. CASE i \in 1 .. Len(outcome)
      <4>1. outcome'[i] = outcome[i]
        BY <2>1, <3>1 DEF Began
      <4> QED BY <1>3, <1>4, <3>1, <4>1
    <3>2. CASE i = Len(outcome) + 1
      <4>1. outcome'[i] = w
        BY <2>1, <3>2 DEF Began
      <4>2. ASSUME w = "committed" PROVE \E t \in 1 .. Len(file') : file'[t] = i
        <5>1. FileGrew(Len(outcome) + 1)
          BY <2>1, <4>2 DEF Began
        <5>2. Len(file') = Len(file) + 1 /\ file'[Len(file) + 1] = i
          BY <3>2, <5>1 DEF FileGrew
        <5>3. Len(file) + 1 \in 1 .. Len(file')
          BY <1>1, <5>2
        <5> QED BY <5>2, <5>3
      <4>3. ASSUME w = "failed", NEW t \in 1 .. Len(file') PROVE file'[t] # i
        <5>1. file' = file
          BY <2>1, <4>3 DEF Began
        <5>2. file[t] \in Int /\ file[t] <= Len(outcome)
          BY <5>1, FileAt DEF Named
        <5> QED BY <1>1, <3>2, <5>1, <5>2
      <4> QED BY <4>1, <4>2, <4>3
    <3>3. Len(outcome') = Len(outcome) + 1
      BY <2>1 DEF Began
    <3> QED BY <1>1, <3>1, <3>2, <3>3
  <2>3. ASSUME NEW d \in Made', Due(d)' PROVE outcome'[link'[d].id] # "failed"
    BY <1>5, <2>1, <2>3 DEF Began
  <2> QED BY <2>2, <2>3 DEF Truth
<1> QED BY <1>6, <1>7, <1>8 DEF Reports, Wrote

-----------------------------------------------------------------------------
(* ClientSend, and the owner in doubt. *)

\* commit_begin to commit_end: the commit has an id that was not given before,
\* and the thread that reads it has the client's base.
LEMMA SendEffect ==
    ASSUME Relayed = FALSE, Types, Files, Threads, Ends, Requests, NEW c \in Made, ClientSend(c)
    PROVE  LET p == link[c].client
               n == Len(outcome) + 1
           IN  /\ p \in Procs /\ file' = file /\ owner' = owner /\ conn' = conn /\ conn[p] = c
               /\ Made' = Made /\ \A d \in Made : d # c => link'[d] = link[d]
               /\ link'[c].client = p /\ link'[c].owner = link[c].owner /\ link'[c].id = n
               /\ link'[c].base = txn[p].base /\ (link'[c].hung <=> link[c].hung)
               /\ ~Queued(c) /\ txn'[p].pc = "sent" /\ txn'[p].id = n
               /\ txn'[p].base = txn[p].base
               /\ \A y \in Procs : y # p => txn'[y] = txn[y]
               /\ Len(outcome) \in Nat /\ Len(outcome') = n /\ outcome'[n] = "none"
               /\ \A i \in 1 .. Len(outcome) : outcome'[i] = outcome[i]
<1> DEFINE p == link[c].client
           n == Len(outcome) + 1
<1>1. /\ p \in Procs /\ file' = file /\ owner' = owner /\ conn' = conn /\ conn[p] = c
      /\ Made' = Made /\ \A d \in Made : d # c => link'[d] = link[d]
  BY ClientSendEffect DEF LinkTo
<1>2. /\ link'[c].client = p /\ link'[c].owner = link[c].owner /\ link'[c].id = n
      /\ link'[c].base = link[c].base /\ (link'[c].hung <=> link[c].hung)
  BY ClientSendEffect DEF LinkTo, LinkIs
<1>3. /\ txn'[p].pc = "sent" /\ txn'[p].id = n /\ txn'[p].base = txn[p].base
      /\ \A y \in Procs : y # p => txn'[y] = txn[y]
  BY ClientSendEffect DEF TxnTo, TxnIs
<1>4. Len(outcome) \in Nat
  BY DEF Types
<1>5. Len(outcome') = n /\ outcome'[n] = "none"
          /\ \A i \in 1 .. Len(outcome) : outcome'[i] = outcome[i]
  BY ClientSendEffect, OutcomeGrows DEF Outcomes
<1>6. txn[p].pc = "begun" /\ ~link[c].hung
  BY ClientSendEffect
<1>7. c # 0
  BY DEF Made
<1>8. link[c].up
  BY <1>1, <1>7 DEF Ends
<1>9. link[c].srv \in {"txn", "revoked"} /\ ~link[c].sent /\ link[c].base = txn[p].base
  BY <1>6, <1>8 DEF Requests, Threads
<1>10. ~Queued(c)
  BY <1>9 DEF Queued
<1> QED BY <1>1, <1>2, <1>3, <1>4, <1>5, <1>9, <1>10

\* ClientSend keeps Named, Pending and Truth.
LEMMA SendKeeps ==
    ASSUME Relayed = FALSE, Types, Files, Threads, Ends, Requests, Named, Pending, Truth,
           NEW c \in Made, ClientSend(c)
    PROVE  Named' /\ Pending' /\ Truth'
<1> DEFINE p == link[c].client
           n == Len(outcome) + 1
<1>1. /\ p \in Procs /\ file' = file /\ conn' = conn /\ conn[p] = c
      /\ Made' = Made /\ \A d \in Made : d # c => link'[d] = link[d]
      /\ link'[c].client = p /\ link'[c].id = n /\ link'[c].base = txn[p].base
  BY SendEffect
<1>2. /\ ~Queued(c) /\ txn'[p].pc = "sent" /\ txn'[p].id = n /\ txn'[p].base = txn[p].base
      /\ \A y \in Procs : y # p => txn'[y] = txn[y]
  BY SendEffect
<1>3. /\ Len(outcome) \in Nat /\ Len(outcome') = n /\ outcome'[n] = "none"
      /\ \A i \in 1 .. Len(outcome) : outcome'[i] = outcome[i]
  BY SendEffect
<1>4. \A i \in 1 .. Len(outcome) : i \in 1 .. Len(outcome') /\ i # n
  BY <1>3
<1>5. n \in 1 .. Len(outcome') /\ n \in Nat
  BY <1>3
<1>6. \A t \in 1 .. Len(file) : file[t] # n /\ file[t] <= n
  BY <1>3, FileAt DEF Named
<1>7. \A d \in Made : d # c /\ Queued(d)' => Queued(d) /\ link[d].id \in 1 .. Len(outcome)
  BY <1>1 DEF Queued, Named
<1>8. \A y \in Procs : y # p /\ Waiting(y)' => Waiting(y) /\ txn[y].id \in 1 .. Len(outcome)
  BY <1>2 DEF Waiting, Named
<1> HIDE DEF p, n
<1>9. Named'
  BY <1>1, <1>2, <1>3, <1>4, <1>5, <1>6, <1>7, <1>8 DEF Named
<1>10. Pending'
  <2>1. \A d \in Made : Queued(d)' => \A t \in 1 .. Len(file) : file[t] # link'[d].id
    BY <1>1, <1>6, <1>7 DEF Pending
  <2>2. \A d, e \in Made : Queued(d)' /\ Queued(e)' /\ link'[d].id = link'[e].id => d = e
    <3> SUFFICES ASSUME NEW d \in Made, NEW e \in Made, Queued(d)', Queued(e)',
                        link'[d].id = link'[e].id
                 PROVE  d = e
      OBVIOUS
    <3>1. CASE d # c /\ e # c
      BY <1>1, <1>7, <3>1 DEF Pending
    <3>2. CASE d # c /\ e = c
      BY <1>1, <1>4, <1>7, <3>2
    <3>3. CASE d = c /\ e # c
      BY <1>1, <1>4, <1>7, <3>3
    <3> QED BY <3>1, <3>2, <3>3
  <2>3. ASSUME NEW d \in Made, NEW y \in Procs, Queued(d)', Waiting(y)', txn'[y].id = link'[d].id
        PROVE  /\ link'[d].client = y /\ link'[d].base = txn'[y].base
               /\ txn'[y].pc = "sent" => conn'[y] = d
               /\ txn'[y].pc # "sent" => link'[d].hung
    <3>1. CASE d = c /\ y = p
      BY <1>1, <1>2, <3>1
    <3>2. CASE d # c /\ y = p
      BY <1>1, <1>2, <1>4, <1>7, <2>3, <3>2
    <3>3. CASE d = c /\ y # p
      BY <1>1, <1>2, <1>4, <1>8, <2>3, <3>3
    <3>4. CASE d # c /\ y # p
      <4>1. Queued(d) /\ Waiting(y) /\ link'[d] = link[d] /\ txn'[y] = txn[y] /\ conn' = conn
        BY <1>1, <1>2, <1>7, <1>8, <2>3, <3>4
      <4> QED BY <2>3, <4>1 DEF Pending
    <3> QED BY <3>1, <3>2, <3>3, <3>4
  <2>4. \A y \in Procs : Waiting(y)' =>
            \A t \in 1 .. Len(file) : file[t] = txn'[y].id => t = txn'[y].base + 1
    BY <1>2, <1>6, <1>8 DEF Pending
  <2>5. \A t, u \in 1 .. Len(file) : file[t] = file[u] /\ file[t] # Maintenance => t = u
    BY DEF Pending
  <2> QED BY <1>1, <2>1, <2>2, <2>3, <2>4, <2>5 DEF Pending
<1>11. Truth'
  <2>1. ASSUME NEW i \in 1 .. Len(outcome')
        PROVE  /\ outcome'[i] = "committed" => \E t \in 1 .. Len(file) : file[t] = i
               /\ outcome'[i] = "failed" => \A t \in 1 .. Len(file) : file[t] # i
    <3>1. CASE i = n
      BY <1>3, <3>1
    <3>2. CASE i # n
      <4>1. i \in 1 .. Len(outcome)
        BY <1>3, <3>2 DEF n
      <4> QED BY <1>3, <4>1 DEF Truth
    <3> QED BY <3>1, <3>2
  <2>2. ASSUME NEW d \in Made, Due(d)' PROVE outcome'[link'[d].id] # "failed"
    <3>1. CASE d = c
      BY <1>1, <1>3, <3>1
    <3>2. CASE d # c
      <4>1. link'[d] = link[d] /\ Queued(d)' /\ Due(d)
        BY <1>1, <2>2, <3>2 DEF Due, Queued
      <4> QED BY <1>3, <1>7, <3>2, <4>1 DEF Truth
    <3> QED BY <3>1, <3>2
  <2> QED BY <1>1, <2>1, <2>2 DEF Truth
<1> QED BY <1>9, <1>10, <1>11

\* A thread about to stop the service stays so, until it has hung up on every
\* client, or shutdown has, or its owner is gone.
FailFrame ==
    \A d \in Made, q \in Procs :
        link[d].srv = "failing" /\ ~link[d].hung /\ link[d].owner = q /\ Owns(q)' =>
            /\ d \in Made' /\ link'[d].owner = q
            /\ (link'[d].srv = "failing" /\ ~link'[d].hung) \/ Cut(q)'

\* Every step but ClientSend is a FailFrame.
LEMMA FailStep ==
    ASSUME Types, Files, Next, \A c \in Made : ~ClientSend(c)
    PROVE  FailFrame
<1>1. ASSUME NEW p \in Procs, Promote(p) PROVE FailFrame
  BY <1>1, PromoteEffect DEF FailFrame, Made
<1>2. ASSUME NEW p \in Procs, StartShutdown(p) PROVE FailFrame
  <2>1. ASSUME NEW d \in Made
        PROVE  /\ link'[d].owner = link[d].owner /\ link'[d].srv = link[d].srv
               /\ link'[d].hung <=> link[d].owner = p \/ link[d].hung
    <3>1. LinkIs(link[d], link'[d], link[d].srv, link[d].base,
                 link[d].id, link[d].sent, link[d].up, link[d].owner = p \/ link[d].hung)
      BY <1>2, StartShutdownEffect DEF LinksHung
    <3> QED BY <3>1 DEF LinkIs
  <2>2. Made' = Made /\ owner'[p].state = "closing"
    BY <1>2, StartShutdownEffect DEF LinksHung, OwnerTo, OwnerIs
  <2>3. Cut(p)'
    BY <2>1, <2>2 DEF Cut, Closed
  <2> QED BY <2>1, <2>2, <2>3 DEF FailFrame
<1>3. ASSUME NEW p \in Procs, FinishShutdown(p) PROVE FailFrame
  BY <1>3, FinishShutdownEffect DEF FailFrame, Made
<1>4. ASSUME NEW p \in Procs, Crash(p) PROVE FailFrame
  <2>1. ~Owns(p)' /\ Made' = Made
    BY <1>4, CrashEffect DEF LinksLost, OwnerTo, OwnerIs, Owns
  <2>2. ASSUME NEW d \in Made, link[d].owner # p
        PROVE  /\ link'[d].owner = link[d].owner /\ link'[d].srv = link[d].srv
               /\ link'[d].hung <=> link[d].hung
    <3>1. LinkIs(link[d], link'[d], link[d].srv, link[d].base, link[d].id, link[d].sent,
                 link[d].up /\ link[d].client # p, link[d].hung)
      BY <1>4, <2>2, CrashEffect DEF LinksLost
    <3> QED BY <3>1 DEF LinkIs
  <2> QED BY <2>1, <2>2 DEF FailFrame
<1>5. ASSUME NEW p \in Procs, OwnBegin(p) PROVE FailFrame
  BY <1>5, OwnBeginEffect DEF FailFrame, Made
<1>6. ASSUME NEW p \in Procs, OwnRollback(p) PROVE FailFrame
  BY <1>6, OwnRollbackEffect DEF FailFrame, Made
<1>7. ASSUME NEW p \in Procs, OwnCommit(p) PROVE FailFrame
  BY <1>7, OwnCommitEffect DEF FailFrame, Made
<1>8. ASSUME NEW p \in Procs, OwnStale(p) PROVE FailFrame
  BY <1>8, OwnStaleEffect DEF FailFrame, Made
<1>9. ASSUME NEW p \in Procs, GiveUp(p) PROVE FailFrame
  BY <1>9 DEF GiveUp, FailFrame, Made
<1>10. ASSUME NEW p \in Procs, ResolveSelf(p) PROVE FailFrame
  BY <1>10 DEF ResolveSelf, FailFrame, Made
<1>11. ASSUME NEW p \in Procs, Ask(p) PROVE FailFrame
  BY <1>11, AskEffect DEF FailFrame, Made
<1>12. ASSUME NEW p \in Procs, Answer(p) PROVE FailFrame
  BY <1>12 DEF Answer, FailFrame, Made
<1>13. ASSUME NEW p \in Procs, NEW q \in Procs, Reconnect(p, q) PROVE FailFrame
  BY <1>13, ReconnectEffect DEF LinkMade, FailFrame
<1>14. ASSUME NEW c \in Made, ClientBegin(c) PROVE FailFrame
  <2>1. /\ Made' = Made /\ \A d \in Made : d # c => link'[d] = link[d]
        /\ link'[c].owner = link[c].owner
    BY <1>14, ClientBeginEffect DEF LinkTo, LinkIs
  <2>2. link[c].srv = "failing" => link'[c].srv = "failing" /\ (link'[c].hung <=> link[c].hung)
    BY <1>14, ClientBeginEffect DEF LinkTo, LinkIs
  <2> QED BY <2>1, <2>2 DEF FailFrame
<1>16. ASSUME NEW c \in Made, ClientAbort(c) PROVE FailFrame
  <2>1. /\ Made' = Made /\ \A d \in Made : d # c => link'[d] = link[d]
        /\ link'[c].owner = link[c].owner
    BY <1>16, ClientAbortEffect DEF LinkTo, LinkIs
  <2>2. link[c].srv = "failing" => link'[c].srv = "failing" /\ (link'[c].hung <=> link[c].hung)
    BY <1>16, ClientAbortEffect DEF LinkTo, LinkIs
  <2> QED BY <2>1, <2>2 DEF FailFrame
<1>17. ASSUME NEW c \in Made, ClientClose(c) PROVE FailFrame
  <2>1. /\ Made' = Made /\ \A d \in Made : d # c => link'[d] = link[d]
        /\ link'[c].owner = link[c].owner
    BY <1>17, ClientCloseEffect DEF LinkTo, LinkIs
  <2>2. link[c].srv = "failing" => link'[c].srv = "failing" /\ (link'[c].hung <=> link[c].hung)
    BY <1>17, ClientCloseEffect DEF LinkTo, LinkIs
  <2> QED BY <2>1, <2>2 DEF FailFrame
<1>18. ASSUME NEW c \in Made, Revoke(c) PROVE FailFrame
  <2>1. /\ Made' = Made /\ \A d \in Made : d # c => link'[d] = link[d]
        /\ link'[c].owner = link[c].owner
    BY <1>18, RevokeEffect DEF LinkTo, LinkIs
  <2>2. link[c].srv = "failing" => link'[c].srv = "failing" /\ (link'[c].hung <=> link[c].hung)
    BY <1>18, RevokeEffect DEF LinkTo, LinkIs
  <2> QED BY <2>1, <2>2 DEF FailFrame
<1>19. ASSUME NEW c \in Made, HangUpIdle(c) PROVE FailFrame
  <2>1. /\ Made' = Made /\ \A d \in Made : d # c => link'[d] = link[d]
        /\ link'[c].owner = link[c].owner
    BY <1>19, HangUpIdleEffect DEF LinkTo, LinkIs
  <2>2. link[c].srv = "failing" => link'[c].srv = "failing" /\ (link'[c].hung <=> link[c].hung)
    BY <1>19, HangUpIdleEffect DEF LinkTo, LinkIs
  <2> QED BY <2>1, <2>2 DEF FailFrame
<1>20. ASSUME NEW c \in Made, ReadEnd(c) PROVE FailFrame
  <2>1. /\ Made' = Made /\ \A d \in Made : d # c => link'[d] = link[d]
        /\ link'[c].owner = link[c].owner
    BY <1>20, ReadEndEffect DEF LinkTo, LinkIs
  <2>2. link[c].srv = "failing" => link'[c].srv = "failing" /\ (link'[c].hung <=> link[c].hung)
    BY <1>20, ReadEndEffect DEF LinkTo, LinkIs
  <2> QED BY <2>1, <2>2 DEF FailFrame
<1>21. ASSUME NEW c \in Made, CommitDelta(c) PROVE FailFrame
  <2>1. /\ Made' = Made /\ \A d \in Made : d # c => link'[d] = link[d]
        /\ link'[c].owner = link[c].owner
    BY <1>21, CommitDeltaEffect DEF LinkTo, LinkIs
  <2>2. link[c].srv = "failing" => link'[c].srv = "failing" /\ (link'[c].hung <=> link[c].hung)
    BY <1>21, CommitDeltaEffect DEF LinkTo, LinkIs
  <2> QED BY <2>1, <2>2 DEF FailFrame
<1>22. ASSUME NEW c \in Made, CommitDeltaFails(c) PROVE FailFrame
  <2>1. /\ Made' = Made /\ \A d \in Made : d # c => link'[d] = link[d]
        /\ link'[c].owner = link[c].owner
    BY <1>22, CommitDeltaFailsEffect DEF FailsTo, LinkTo, LinkIs
  <2>2. link[c].srv = "failing" => link'[c].srv = "failing" /\ (link'[c].hung <=> link[c].hung)
    BY <1>22, CommitDeltaFailsEffect DEF FailsTo, LinkTo, LinkIs
  <2> QED BY <2>1, <2>2 DEF FailFrame
<1>23. ASSUME NEW c \in Made, Publish(c) PROVE FailFrame
  <2>1. /\ Made' = Made /\ \A d \in Made : d # c => link'[d] = link[d]
        /\ link'[c].owner = link[c].owner
    BY <1>23, PublishEffect DEF LinkTo, LinkIs
  <2>2. link[c].srv = "failing" => link'[c].srv = "failing" /\ (link'[c].hung <=> link[c].hung)
    BY <1>23, PublishEffect DEF LinkTo, LinkIs
  <2> QED BY <2>1, <2>2 DEF FailFrame
<1>24. ASSUME NEW c \in Made, Ack(c) PROVE FailFrame
  <2>1. /\ Made' = Made /\ \A d \in Made : d # c => link'[d] = link[d]
        /\ link'[c].owner = link[c].owner
    BY <1>24, AckEffect DEF LinkTo, LinkIs
  <2>2. link[c].srv = "failing" => link'[c].srv = "failing" /\ (link'[c].hung <=> link[c].hung)
    BY <1>24, AckEffect DEF LinkTo, LinkIs
  <2> QED BY <2>1, <2>2 DEF FailFrame
<1>25. ASSUME NEW c \in Made, Release(c) PROVE FailFrame
  <2>1. /\ Made' = Made /\ \A d \in Made : d # c => link'[d] = link[d]
        /\ link'[c].owner = link[c].owner
    BY <1>25, ReleaseEffect DEF LinkTo, LinkIs
  <2>2. link[c].srv = "failing" => link'[c].srv = "failing" /\ (link'[c].hung <=> link[c].hung)
    BY <1>25, ReleaseEffect DEF LinkTo, LinkIs
  <2> QED BY <2>1, <2>2 DEF FailFrame
<1>26. ASSUME NEW c \in Made, End(c) PROVE FailFrame
  <2>1. /\ Made' = Made /\ \A d \in Made : d # c => link'[d] = link[d]
        /\ link'[c].owner = link[c].owner
    BY <1>26, EndEffect DEF LinkTo, LinkIs
  <2>2. link[c].srv = "failing" => link'[c].srv = "failing" /\ (link'[c].hung <=> link[c].hung)
    BY <1>26, EndEffect DEF LinkTo, LinkIs
  <2> QED BY <2>1, <2>2 DEF FailFrame
<1>27. ASSUME NEW c \in Made, Break(c) PROVE FailFrame
  <2>1. /\ Made' = Made /\ \A d \in Made : d # c => link'[d] = link[d]
        /\ link'[c].owner = link[c].owner
    BY <1>27, BreakEffect DEF LinkTo, LinkIs
  <2>2. link[c].srv = "failing" => link'[c].srv = "failing" /\ (link'[c].hung <=> link[c].hung)
    BY <1>27, BreakEffect DEF LinkTo, LinkIs
  <2> QED BY <2>1, <2>2 DEF FailFrame
<1>28. ASSUME NEW c \in Made, ReleaseFails(c) PROVE FailFrame
  <2>1. /\ Made' = Made /\ \A d \in Made : d # c => link'[d] = link[d]
        /\ link'[c].owner = link[c].owner
    BY <1>28, ReleaseFailsEffect DEF FailsTo, LinkTo, LinkIs
  <2>2. link[c].srv = "failing" => link'[c].srv = "failing" /\ (link'[c].hung <=> link[c].hung)
    BY <1>28, ReleaseFailsEffect DEF FailsTo, LinkTo, LinkIs
  <2> QED BY <2>1, <2>2 DEF FailFrame
<1>29. ASSUME NEW c \in Made, StopServing(c) PROVE FailFrame
  <2>0. PICK q \in Procs : q = link[c].owner
    BY LinkAt
  <2>1. ASSUME NEW d \in Made
        PROVE  /\ link'[d].owner = link[d].owner
               /\ link'[d].srv = link[d].srv \/ d = c
               /\ link'[d].hung <=> link[d].owner = q \/ link[d].hung
    <3>1. LinkIs(link[d], link'[d], IF d \in {c} THEN "idle" ELSE link[d].srv, link[d].base,
                 link[d].id, link[d].sent, link[d].up, link[d].owner = q \/ link[d].hung)
      BY <1>29, <2>0, StopServingEffect DEF LinksHung
    <3> QED BY <3>1 DEF LinkIs
  <2>2. Made' = Made /\ owner'[q].state # "serving"
    BY <1>29, <2>0, StopServingEffect DEF LinksHung, OwnerTo, OwnerIs
  <2>3. Cut(q)'
    BY <2>1, <2>2 DEF Cut, Closed
  <2> QED BY <2>0, <2>1, <2>2, <2>3 DEF FailFrame
<1> QED BY <1>1, <1>2, <1>3, <1>4, <1>5, <1>6, <1>7, <1>8, <1>9, <1>10, <1>11, <1>12,
           <1>13, <1>14, <1>16, <1>17, <1>18, <1>19, <1>20, <1>21, <1>22, <1>23, <1>24,
           <1>25, <1>26, <1>27, <1>28, <1>29 DEF Next, Serving, Resolving, Chosen

\* A step that leaves the file alone and makes no owner doubt it.
DoubtFrame ==
    /\ file' = file
    /\ \A y \in Procs : Owns(y)' /\ owner'[y].poisoned =>
          \/ owner'[y].txid = Len(file)
          \/ /\ Owns(y) /\ owner[y].poisoned /\ owner'[y].txid = owner[y].txid
             /\ owner'[y].state = "serving" => owner[y].state = "serving"

\* Such a step, with nobody else waiting for a commit in the file, keeps Doubt.
LEMMA DoubtKept ==
    ASSUME Types, Files, Versions, Doubt, DoubtFrame,
           \A q \in Procs : owner[q].state # "serving" /\ Closed(q) => Closed(q)',
           \A y, q \in Procs : Stuck(y, q) /\ Waiting(y)' /\ Owns(q)' => Cut(q)' \/ Stuck(y, q)',
           \A y \in Procs : Waiting(y)' =>
              \/ Waiting(y) /\ txn'[y].id = txn[y].id
              \/ \A t \in 1 .. Len(file) : file[t] # txn'[y].id
    PROVE  Doubt'
<1> SUFFICES ASSUME NEW q \in Procs, Owns(q)', owner'[q].poisoned, Len(file) # owner'[q].txid
             PROVE  /\ Len(file) = owner'[q].txid + 1
                    /\ \A p \in Procs : Waiting(p)' /\ txn'[p].id = file[Len(file)] =>
                            p # q /\ (Cut(q)' \/ Stuck(p, q)')
  BY DEF Doubt, DoubtFrame
<1>1. /\ Owns(q) /\ owner[q].poisoned /\ owner'[q].txid = owner[q].txid
      /\ owner'[q].state = "serving" => owner[q].state = "serving"
  BY DEF DoubtFrame
<1>2. Len(file) \in Nat /\ owner[q].txid \in 0 .. Len(file)
  BY DEF Files, Versions
<1>3. Len(file) \in 1 .. Len(file)
  BY <1>1, <1>2
<1>4. /\ Len(file) = owner[q].txid + 1
      /\ \A p \in Procs : Waiting(p) /\ txn[p].id = file[Len(file)] =>
              p # q /\ (Cut(q) \/ Stuck(p, q))
  BY <1>1 DEF Doubt
<1>5. Cut(q) => Cut(q)'
  BY <1>1 DEF Cut
<1> QED BY <1>1, <1>3, <1>4, <1>5

\* Every step but ClientSend keeps Doubt: a commit that may have landed
\* unpublished is the owner's own, which nobody waits for, or that of a thread
\* that hangs up on every client before it answers any.
LEMMA DoubtStep ==
    ASSUME Relayed = FALSE, Types, Files, OneOwner, Threads, Ends, Gates, Requests, Versions,
        Landed,
           HungCloses, Named, Pending, Doubt, Next, \A c \in Made : ~ClientSend(c)
    PROVE  Doubt'
<1>0. \A d \in Made : link[d].owner \in Procs /\ link[d].client \in Procs
  BY LinkAt
<1>e. \A c \in Made : link[c].srv \in Active =>
          Owns(link[c].owner) /\ \A y \in Procs : Owns(y) => y = link[c].owner
  BY <1>0, Exclusive
<1>f. TxnFrame /\ (\A y \in Procs : Closed(y) /\ owner[y].state # "serving" => Closed(y)')
      /\ (DoubtFrame => Doubt')
  <2>1. LinkFrame /\ TxnFrame /\ FailFrame
    BY LinkFrameStep, TxnFrameStep, FailStep
  <2>2. \A y \in Procs : owner[y].state # "serving" /\ Closed(y) => Closed(y)'
    BY <2>1 DEF LinkFrame, Closed
  <2>3. \A y \in Procs : Waiting(y)' => Waiting(y) /\ txn'[y].id = txn[y].id
    BY <2>1 DEF TxnFrame
  <2>4. ASSUME NEW y \in Procs, NEW q \in Procs, Stuck(y, q), Waiting(y)', Owns(q)'
        PROVE  Cut(q)' \/ Stuck(y, q)'
    <3>1. txn'[y].pc = "sent" /\ conn'[y] = conn[y]
      BY <2>1, <2>4 DEF Stuck, TxnFrame, Waiting
    <3>2. conn[y] \in Made' /\ link'[conn[y]].owner = q
          /\ ((link'[conn[y]].srv = "failing" /\ ~link'[conn[y]].hung) \/ Cut(q)')
      BY <2>1, <2>4 DEF Stuck, FailFrame
    <3> QED BY <3>1, <3>2 DEF Stuck
  <2> QED BY <2>1, <2>2, <2>3, <2>4, DoubtKept
<1>1. ASSUME NEW p \in Procs, Promote(p) PROVE Doubt'
  <2>1. file' = file /\ ~owner'[p].poisoned /\ \A y \in Procs : y # p => owner'[y] = owner[y]
    BY <1>1, PromoteEffect DEF OwnerTo, OwnerIs
  <2>2. DoubtFrame
    BY <2>1 DEF DoubtFrame, Owns
  <2> QED BY <1>f, <2>2
<1>2. ASSUME NEW p \in Procs, StartShutdown(p) PROVE Doubt'
  <2>1. /\ file' = file /\ \A y \in Procs : y # p => owner'[y] = owner[y]
        /\ owner[p].state # "none" /\ owner'[p].state = "closing"
        /\ owner'[p].txid = owner[p].txid
        /\ owner'[p].poisoned <=> owner[p].poisoned
    BY <1>2, StartShutdownEffect DEF OwnerTo, OwnerIs
  <2>2. DoubtFrame
    BY <2>1 DEF DoubtFrame, Owns
  <2> QED BY <1>f, <2>2
<1>3. ASSUME NEW p \in Procs, FinishShutdown(p) PROVE Doubt'
  <2>1. file' = file /\ ~Owns(p)' /\ \A y \in Procs : y # p => owner'[y] = owner[y]
    BY <1>3, FinishShutdownEffect DEF OwnerTo, OwnerIs, Owns
  <2>2. DoubtFrame
    BY <2>1 DEF DoubtFrame, Owns
  <2> QED BY <1>f, <2>2
<1>4. ASSUME NEW p \in Procs, Crash(p) PROVE Doubt'
  <2>1. file' = file /\ ~Owns(p)' /\ \A y \in Procs : y # p => owner'[y] = owner[y]
    BY <1>4, CrashEffect DEF OwnerTo, OwnerIs, Owns
  <2>2. DoubtFrame
    BY <2>1 DEF DoubtFrame, Owns
  <2> QED BY <1>f, <2>2
<1>5. ASSUME NEW p \in Procs, OwnBegin(p) PROVE Doubt'
  <2>1. /\ file' = file
        /\ \A y \in Procs : /\ owner'[y].state = owner[y].state /\ owner'[y].txid = owner[y].txid
                            /\ owner'[y].poisoned => owner[y].poisoned
    BY <1>0, <1>5, OwnBeginEffect DEF OwnerTo, OwnerIs
  <2>2. DoubtFrame
    BY <2>1 DEF DoubtFrame, Owns
  <2> QED BY <1>f, <2>2
<1>6. ASSUME NEW p \in Procs, OwnRollback(p) PROVE Doubt'
  <2>1. /\ file' = file
        /\ \A y \in Procs : /\ owner'[y].state = owner[y].state /\ owner'[y].txid = owner[y].txid
                            /\ owner'[y].poisoned => owner[y].poisoned
    BY <1>0, <1>6, OwnRollbackEffect DEF OwnerTo, OwnerIs
  <2>2. DoubtFrame
    BY <2>1 DEF DoubtFrame, Owns
  <2> QED BY <1>f, <2>2
<1>7. ASSUME NEW p \in Procs, OwnCommit(p) PROVE Doubt'
  <2>1. txn[p].pc = "own" /\ txn[p].base + 1 <= MaxTxid /\ \A y \in Procs : y # p
            => owner'[y] = owner[y]
    BY <1>7, OwnCommitEffect DEF OwnerTo
  <2>2. Owns(p) /\ owner[p].lock = 0 /\ \A y \in Procs : Owns(y)' => y = p
    BY <2>1, Exclusive DEF Owns
  <2>3. ~owner[p].poisoned => owner[p].txid = Len(file)
    BY <2>2 DEF Versions
  <2>4. CASE ~owner'[p].poisoned
    BY <2>2, <2>4 DEF Doubt
  <2>5. CASE file' = file /\ owner'[p].txid = owner[p].txid /\ owner'[p].state = owner[p].state
    <3>1. DoubtFrame
      BY <2>1, <2>2, <2>3, <2>5 DEF DoubtFrame
    <3> QED BY <1>f, <3>1
  <2>6. CASE ~owner[p].poisoned /\ file' = Write(txn[p].base + 1, Len(outcome) + 1)
            /\ owner'[p].txid = owner[p].txid
    <3>1. txn[p].base = Len(file) /\ Len(file) \in Nat /\ Len(outcome) \in Nat
      BY <2>1, <2>6, WritersAtEnd DEF Files, Types
    <3>2. Len(outcome) < MaxIds
      BY <1>7, OwnCommitEffect
    <3>3. txn[p].base + 1 \in Nat /\ txn[p].base + 1 = Len(file) + 1
              /\ Len(outcome) + 1 \in 0 .. MaxIds
      BY <3>1, <3>2, PageServiceAssumption
    <3>4. FileGrew(Len(outcome) + 1)
      BY <2>1, <2>6, <3>3, WriteGrows
    <3>5. Len(file') = owner'[p].txid + 1 /\ file'[Len(file')] = Len(outcome) + 1
      BY <2>3, <2>6, <3>4 DEF FileGrew
    <3>6. \A y \in Procs : Waiting(y)' => txn'[y].id \in 1 .. Len(outcome)
      BY <1>f DEF TxnFrame, Named
    <3>7. \A y \in Procs : Waiting(y)' => txn'[y].id # Len(outcome) + 1
      BY <3>1, <3>6
    <3> QED BY <2>2, <3>5, <3>7 DEF Doubt
  <2>7. \/ ~owner'[p].poisoned
        \/ file' = file /\ owner'[p].txid = owner[p].txid /\ owner'[p].state = owner[p].state
        \/ ~owner[p].poisoned /\ file' = Write(txn[p].base + 1, Len(outcome) + 1)
            /\ owner'[p].txid = owner[p].txid
    BY <1>7, OwnCommitEffect DEF OwnerTo, OwnerIs
  <2> QED BY <2>4, <2>5, <2>6, <2>7
<1>8. ASSUME NEW p \in Procs, OwnStale(p) PROVE Doubt'
  <2>1. file' = file /\ owner' = owner
    BY <1>8, OwnStaleEffect
  <2>2. DoubtFrame
    BY <2>1 DEF DoubtFrame, Owns
  <2> QED BY <1>f, <2>2
<1>9. ASSUME NEW p \in Procs, GiveUp(p) PROVE Doubt'
  <2>1. DoubtFrame
    BY <1>9 DEF GiveUp, DoubtFrame, Owns
  <2> QED BY <1>f, <2>1
<1>10. ASSUME NEW p \in Procs, ResolveSelf(p) PROVE Doubt'
  <2>1. DoubtFrame
    BY <1>10 DEF ResolveSelf, DoubtFrame, Owns
  <2> QED BY <1>f, <2>1
<1>11. ASSUME NEW p \in Procs, Ask(p) PROVE Doubt'
  <2>1. file' = file /\ owner' = owner
    BY <1>11, AskEffect
  <2>2. DoubtFrame
    BY <2>1 DEF DoubtFrame, Owns
  <2> QED BY <1>f, <2>2
<1>12. ASSUME NEW p \in Procs, Answer(p) PROVE Doubt'
  <2>1. DoubtFrame
    BY <1>12 DEF Answer, DoubtFrame, Owns
  <2> QED BY <1>f, <2>1
<1>13. ASSUME NEW p \in Procs, NEW q \in Procs, Reconnect(p, q) PROVE Doubt'
  <2>1. file' = file /\ owner' = owner
    BY <1>13, ReconnectEffect
  <2>2. DoubtFrame
    BY <2>1 DEF DoubtFrame, Owns
  <2> QED BY <1>f, <2>2
<1>14. ASSUME NEW c \in Made, ClientBegin(c) PROVE Doubt'
  <2>1. /\ file' = file
        /\ \A y \in Procs : /\ owner'[y].state = owner[y].state /\ owner'[y].txid = owner[y].txid
                            /\ owner'[y].poisoned => owner[y].poisoned
    BY <1>0, <1>14, ClientBeginEffect DEF OwnerTo, OwnerIs
  <2>2. DoubtFrame
    BY <2>1 DEF DoubtFrame, Owns
  <2> QED BY <1>f, <2>2
<1>16. ASSUME NEW c \in Made, ClientAbort(c) PROVE Doubt'
  <2>1. /\ file' = file
        /\ \A y \in Procs : /\ owner'[y].state = owner[y].state /\ owner'[y].txid = owner[y].txid
                            /\ owner'[y].poisoned => owner[y].poisoned
    BY <1>0, <1>16, ClientAbortEffect DEF OwnerTo, OwnerIs
  <2>2. DoubtFrame
    BY <2>1 DEF DoubtFrame, Owns
  <2> QED BY <1>f, <2>2
<1>17. ASSUME NEW c \in Made, ClientClose(c) PROVE Doubt'
  <2>1. file' = file /\ owner' = owner
    BY <1>17, ClientCloseEffect
  <2>2. DoubtFrame
    BY <2>1 DEF DoubtFrame, Owns
  <2> QED BY <1>f, <2>2
<1>18. ASSUME NEW c \in Made, Revoke(c) PROVE Doubt'
  <2>1. /\ file' = file
        /\ \A y \in Procs : /\ owner'[y].state = owner[y].state /\ owner'[y].txid = owner[y].txid
                            /\ owner'[y].poisoned => owner[y].poisoned
    BY <1>0, <1>18, RevokeEffect DEF OwnerTo, OwnerIs
  <2>2. DoubtFrame
    BY <2>1 DEF DoubtFrame, Owns
  <2> QED BY <1>f, <2>2
<1>19. ASSUME NEW c \in Made, HangUpIdle(c) PROVE Doubt'
  <2>1. file' = file /\ owner' = owner
    BY <1>19, HangUpIdleEffect
  <2>2. DoubtFrame
    BY <2>1 DEF DoubtFrame, Owns
  <2> QED BY <1>f, <2>2
<1>20. ASSUME NEW c \in Made, ReadEnd(c) PROVE Doubt'
  <2>1. file' = file /\ owner' = owner
    BY <1>20, ReadEndEffect
  <2>2. DoubtFrame
    BY <2>1 DEF DoubtFrame, Owns
  <2> QED BY <1>f, <2>2
<1>21. ASSUME NEW c \in Made, CommitDelta(c) PROVE Doubt'
  <2>1. /\ link[c].owner \in Procs /\ ~owner[link[c].owner].poisoned /\ link[c].srv = "finishing"
        /\ ~owner'[link[c].owner].poisoned /\ \A y \in Procs : y # link[c].owner
            => owner'[y] = owner[y]
    BY <1>21, CommitDeltaEffect DEF OwnerTo, OwnerIs
  <2>2. \A y \in Procs : Owns(y)' => y = link[c].owner
    BY <1>e, <2>1 DEF Owns, Active
  <2> QED BY <2>1, <2>2 DEF Doubt
<1>22. ASSUME NEW c \in Made, CommitDeltaFails(c) PROVE Doubt'
  <2>0. PICK q \in Procs : q = link[c].owner
    BY <1>0
  <2>1. /\ q \in Procs /\ link[c].srv = "finishing" /\ owner[q].lock = 0
        /\ owner'[q].txid = owner[q].txid
        /\ owner'[q].state = owner[q].state /\ \A y \in Procs : y # q => owner'[y] = owner[y]
    BY <1>22, <2>0, CommitDeltaFailsEffect DEF FailsTo, OwnerTo, OwnerIs
  <2>2. Owns(q) /\ \A y \in Procs : Owns(y)' => y = q
    BY <1>e, <2>0, <2>1 DEF Owns, Active
  <2>3. ~owner[q].poisoned => owner[q].txid = Len(file)
    BY <2>1, <2>2 DEF Versions
  <2>4. CASE file' = file
    <3>1. DoubtFrame
      BY <2>1, <2>2, <2>3, <2>4 DEF DoubtFrame
    <3> QED BY <1>f, <3>1
  <2>5. CASE ~owner[q].poisoned /\ file' = Write(link[c].base + 1, link[c].id)
    <3>1. link[c].base = Len(file) /\ Len(file) \in Nat /\ link[c].base < MaxTxid
              /\ link[c].id \in 0 .. MaxIds
      BY <2>1, <2>0, <2>5, WritersAtEnd, LinkAt DEF Files, Types
    <3>2. link[c].base + 1 \in Nat /\ link[c].base + 1 = Len(file) + 1
              /\ link[c].base + 1 <= MaxTxid
      BY <3>1, PageServiceAssumption
    <3>3. FileGrew(link[c].id)
      BY <2>5, <3>1, <3>2, WriteGrows
    <3>4. Len(file') = owner'[q].txid + 1 /\ file'[Len(file')] = link[c].id
      BY <2>1, <2>3, <2>5, <3>3 DEF FileGrew
    <3>5. Queued(c) /\ txn' = txn /\ conn' = conn /\ link'[c].owner = q
              /\ link'[c].srv = "failing" /\ Made' = Made /\ (link'[c].hung <=> link[c].hung)
      BY <1>22, <2>0, <2>1, CommitDeltaFailsEffect DEF FailsTo, LinkTo, LinkIs, Queued
    <3>6. ASSUME NEW y \in Procs, Waiting(y)', txn'[y].id = link[c].id
          PROVE  y # q /\ (Cut(q)' \/ Stuck(y, q)')
      <4>1. /\ Waiting(y) /\ link[c].client = y /\ (txn[y].pc = "sent" => conn[y] = c)
            /\ txn[y].pc # "sent" => link[c].hung
        BY <3>5, <3>6 DEF Waiting, Pending
      <4>2. y # q
        BY <2>0, <4>1 DEF Ends
      <4>3. CASE link[c].hung
        <5>1. owner[q].state = "closing" /\ Closed(q)
          BY <2>0, <2>1, <4>3 DEF HungCloses, Threads
        <5>2. Closed(q)'
          BY <1>f, <5>1
        <5> QED BY <2>1, <4>2, <5>1, <5>2 DEF Cut
      <4>4. CASE ~link[c].hung
        BY <3>5, <4>1, <4>2, <4>4 DEF Stuck
      <4> QED BY <4>3, <4>4
    <3> QED BY <2>2, <3>4, <3>6 DEF Doubt
  <2> QED BY <1>22, <2>0, <2>4, <2>5, CommitDeltaFailsEffect
<1>23. ASSUME NEW c \in Made, Publish(c) PROVE Doubt'
  <2>1. /\ file' = file /\ \A y \in Procs : y # link[c].owner => owner'[y] = owner[y]
        /\ owner'[link[c].owner].txid = link[c].base + 1 /\ link[c].srv = "written"
    BY <1>23, PublishEffect DEF OwnerTo, OwnerIs
  <2>2. Len(file) = link[c].base + 1
    BY <2>1 DEF Landed
  <2>3. DoubtFrame
    BY <1>0, <2>1, <2>2 DEF DoubtFrame, Owns
  <2> QED BY <1>f, <2>3
<1>24. ASSUME NEW c \in Made, Ack(c) PROVE Doubt'
  <2>1. file' = file /\ owner' = owner
    BY <1>24, AckEffect
  <2>2. DoubtFrame
    BY <2>1 DEF DoubtFrame, Owns
  <2> QED BY <1>f, <2>2
<1>25. ASSUME NEW c \in Made, Release(c) PROVE Doubt'
  <2> DEFINE q == link[c].owner
  <2>1. q \in Procs /\ link[c].srv = "acked" /\ \A y \in Procs : y # q => owner'[y] = owner[y]
    BY <1>25, ReleaseEffect DEF OwnerTo
  <2>2. Owns(q) /\ \A y \in Procs : Owns(y)' => y = q
    BY <1>e, <2>1 DEF Owns, Active
  <2>3. CASE file' = file /\ OwnerTo(q, owner[q].state, owner[q].txid, owner[q].res, Free,
            owner[q].lock, owner[q].poisoned)
    <3>1. owner'[q].state = owner[q].state /\ owner'[q].txid = owner[q].txid
              /\ (owner'[q].poisoned <=> owner[q].poisoned)
      BY <2>3 DEF OwnerTo, OwnerIs
    <3>2. DoubtFrame
      BY <2>1, <2>2, <2>3, <3>1 DEF DoubtFrame
    <3> QED BY <1>f, <3>2
  <2>4. CASE ~owner'[q].poisoned
    BY <2>2, <2>4 DEF Doubt
  <2> QED BY <1>25, <2>3, <2>4, ReleaseEffect DEF OwnerTo, OwnerIs
<1>26. ASSUME NEW c \in Made, End(c) PROVE Doubt'
  <2>1. /\ file' = file
        /\ \A y \in Procs : /\ owner'[y].state = owner[y].state /\ owner'[y].txid = owner[y].txid
                            /\ owner'[y].poisoned => owner[y].poisoned
    BY <1>0, <1>26, EndEffect DEF OwnerTo, OwnerIs
  <2>2. DoubtFrame
    BY <2>1 DEF DoubtFrame, Owns
  <2> QED BY <1>f, <2>2
<1>27. ASSUME NEW c \in Made, Break(c) PROVE Doubt'
  <2>1. file' = file /\ owner' = owner
    BY <1>27, BreakEffect
  <2>2. DoubtFrame
    BY <2>1 DEF DoubtFrame, Owns
  <2> QED BY <1>f, <2>2
<1>28. ASSUME NEW c \in Made, ReleaseFails(c) PROVE Doubt'
  <2>0. PICK q \in Procs : q = link[c].owner
    BY <1>0
  <2>1. /\ link[c].srv = "acked" /\ owner'[q].txid = owner[q].txid
        /\ owner'[q].state = owner[q].state /\ \A y \in Procs : y # q => owner'[y] = owner[y]
    BY <1>28, <2>0, ReleaseFailsEffect DEF FailsTo, OwnerTo, OwnerIs
  <2>2. Owns(q) /\ \A y \in Procs : Owns(y)' => y = q
    BY <1>e, <2>0, <2>1 DEF Owns, Active
  <2>3. ~owner[q].poisoned => owner[q].txid = Len(file)
    BY <2>0, <2>1, WritersAtEnd
  <2>4. CASE file' = file
    <3>1. DoubtFrame
      BY <2>1, <2>2, <2>3, <2>4 DEF DoubtFrame
    <3> QED BY <1>f, <3>1
  <2>5. CASE ~owner[q].poisoned /\ owner[q].txid + 1 <= MaxTxid
            /\ file' = Write(owner[q].txid + 1, Maintenance)
    <3>1. owner[q].txid = Len(file) /\ Len(file) \in Nat /\ Maintenance \in 0 .. MaxIds
      BY <2>3, <2>5, PageServiceAssumption DEF Files, Maintenance
    <3>2. owner[q].txid + 1 \in Nat /\ owner[q].txid + 1 = Len(file) + 1
      BY <3>1
    <3>3. FileGrew(Maintenance)
      BY <2>5, <3>1, <3>2, WriteGrows
    <3>4. Len(file') = owner'[q].txid + 1 /\ file'[Len(file')] = Maintenance
      BY <2>1, <3>1, <3>3 DEF FileGrew
    <3>5. \A y \in Procs : Waiting(y)' => txn'[y].id \in 1 .. Len(outcome)
      BY <1>f DEF TxnFrame, Named
    <3>6. \A y \in Procs : Waiting(y)' => txn'[y].id # Maintenance
      BY <3>5 DEF Maintenance
    <3> QED BY <2>2, <3>4, <3>6 DEF Doubt
  <2> QED BY <1>28, <2>0, <2>4, <2>5, ReleaseFailsEffect
<1>29. ASSUME NEW c \in Made, StopServing(c) PROVE Doubt'
  <2>0. PICK q \in Procs : q = link[c].owner
    BY <1>0
  <2>1. /\ link[c].srv = "failing" /\ file' = file /\ owner'[q].txid = owner[q].txid
        /\ owner'[q].state # "serving" /\ (owner'[q].poisoned <=> owner[q].poisoned)
        /\ \A y \in Procs : y # q => owner'[y] = owner[y]
    BY <1>29, <2>0, StopServingEffect DEF OwnerTo, OwnerIs
  <2>2. Owns(q)
    BY <1>e, <2>0, <2>1 DEF Active
  <2>3. DoubtFrame
    BY <2>1, <2>2 DEF DoubtFrame, Owns
  <2> QED BY <1>f, <2>3
<1> QED BY <1>1, <1>2, <1>3, <1>4, <1>5, <1>6, <1>7, <1>8, <1>9, <1>10, <1>11, <1>12,
           <1>13, <1>14, <1>16, <1>17, <1>18, <1>19, <1>20, <1>21, <1>22, <1>23,
           <1>24, <1>25, <1>26, <1>27, <1>28, <1>29 DEF Next, Serving, Resolving, Chosen

\* ClientSend keeps Doubt.
LEMMA SendDoubt ==
    ASSUME Relayed = FALSE, Types, Files, Threads, Ends, Requests, Versions, Named, Doubt,
           NEW c \in Made, ClientSend(c)
    PROVE  Doubt'
<1>1. /\ link[c].client \in Procs /\ file' = file /\ owner' = owner /\ Made' = Made
      /\ \A e \in Made : e # c => link'[e] = link[e]
      /\ link'[c].owner = link[c].owner /\ (link'[c].hung <=> link[c].hung)
      /\ txn'[link[c].client].id = Len(outcome) + 1 /\ Len(outcome) \in Nat
      /\ \A y \in Procs : y # link[c].client => txn'[y] = txn[y]
  BY SendEffect
<1>2. DoubtFrame
  BY <1>1 DEF DoubtFrame, Owns
<1>3. \A y \in Procs : Closed(y) => Closed(y)'
  BY <1>1 DEF Closed
<1>6. ASSUME NEW y \in Procs, NEW q \in Procs, Stuck(y, q) PROVE Stuck(y, q)'
  <2>1. txn[link[c].client].pc = "begun" /\ conn' = conn
    BY ClientSendEffect
  <2>2. y # link[c].client
    BY <1>6, <2>1 DEF Stuck
  <2>3. conn[y] # c
    BY <2>2, <1>6 DEF Stuck, Ends, Made
  <2> QED BY <1>1, <1>6, <2>1, <2>2, <2>3 DEF Stuck
<1>4. \A t \in 1 .. Len(file) : file[t] # Len(outcome) + 1
  BY <1>1, FileAt DEF Named
<1>5. \A y \in Procs : Waiting(y)' =>
         \/ Waiting(y) /\ txn'[y].id = txn[y].id
         \/ \A t \in 1 .. Len(file) : file[t] # txn'[y].id
  BY <1>1, <1>4 DEF Waiting
<1> QED BY <1>2, <1>3, <1>5, <1>6, DoubtKept

-----------------------------------------------------------------------------
(* The theorem. *)

\* The part of the invariant that holds without a relay.
TruthInv == HungCloses /\ Named /\ Pending /\ Doubt /\ Truth

\* The whole invariant holds in the initial state.
LEMMA TruthInit == Init => TruthInv
<1> SUFFICES ASSUME Init PROVE TruthInv
  OBVIOUS
<1>1. Made = {} /\ Len(file) = 0 /\ Len(outcome) = 0
  BY DEF Init, Made
<1>2. \A p \in Procs : owner[p] = NotOwner /\ txn[p] = NoTxn
  BY DEF Init
<1>3. 1 .. Len(file) = {} /\ 1 .. Len(outcome) = {}
  BY <1>1
<1>4. \A p \in Procs : ~Waiting(p) /\ ~Owns(p)
  BY <1>2 DEF Waiting, NoTxn, Owns, NotOwner
<1> QED BY <1>1, <1>3, <1>4 DEF TruthInv, HungCloses, Named, Pending, Doubt, Truth

\* Every step keeps the whole invariant, if no relay stands between the ends of a
\* connection.
LEMMA TruthStep ==
    ASSUME Relayed = FALSE, PageInv, TruthInv, [Next]_vars
    PROVE  TruthInv'
<1> USE DEF PageInv, TruthInv
<1>1. CASE Next /\ \A c \in Made : ~ClientSend(c)
  <2>1. LinkFrame /\ TxnFrame /\ Reports /\ HungCloses' /\ Doubt'
    BY <1>1, LinkFrameStep, TxnFrameStep, ReportStep, HungStep, DoubtStep
  <2> QED BY <2>1, NamedKept, PendingKept, TruthKept
<1>2. CASE \E c \in Made : ClientSend(c)
  <2>1. PICK c \in Made : ClientSend(c)
    BY <1>2
  <2>2. Next
    BY <2>1 DEF Next, Chosen
  <2> QED BY <2>1, <2>2, SendKeeps, SendDoubt, HungStep
<1>3. CASE UNCHANGED vars
  BY <1>3 DEF vars, HungCloses, Named, Pending, Doubt, Truth, Owns, Made, Closed, Queued, Due,
       Waiting, Cut, Stuck
<1> QED BY <1>1, <1>2, <1>3

\* What an application is told is true, whatever was lost, revoked, shut down or
\* crashed on the way, when an end of a connection is not lost without the other:
\* a commit reported committed is in the file, one reported failed is not and no
\* thread that could still write it is left, and no commit is there twice.
THEOREM OutcomesStayTrue ==
    ASSUME Relayed = FALSE
    PROVE  Spec => []OutcomeTruthful
<1>1. PageInv /\ TruthInv => OutcomeTruthful
  <2> SUFFICES ASSUME PageInv, TruthInv PROVE OutcomeTruthful
    OBVIOUS
  <2>1. DOMAIN file = 1 .. Len(file) /\ DOMAIN outcome = 1 .. Len(outcome)
    BY DEF PageInv, Types, Files
  <2> QED BY <2>1 DEF TruthInv, Pending, Truth, OutcomeTruthful
<1>2. PageInv /\ TruthInv /\ [Next]_vars => TruthInv'
  BY TruthStep
<1> QED BY <1>1, <1>2, PageSafe, TruthInit, PTL DEF Spec
=============================================================================
