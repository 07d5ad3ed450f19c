----------------------------- MODULE PageService -----------------------------
(***************************************************************************)
(* Commits through the page service: the processes that open one file, the *)
(* election that makes one of them its owner, the connections of the       *)
(* others, client commits on the owner's connection threads, lost          *)
(* acknowledgements and their resolution, revocation, the owner's failure, *)
(* shutdown and crash, and the crash of a client.                          *)
(*                                                                         *)
(* A commit is a number; the file is the sequence of commits by txid. Left *)
(* out: page contents and checks A to C, which a delta of this engine      *)
(* passes (ValidatedCow); the batch of relaxed commits (IdleFlush); read   *)
(* pins and caches (ClientCache); the drain, which only delays a shutdown; *)
(* the frames of one request, which travel together.                       *)
(***************************************************************************)
EXTENDS Integers, Sequences, FiniteSets, FiniteSetsExt, SequencesExt

CONSTANTS
    Procs,       \* the processes that open the file
    NoProc,      \* no process
    ResWindow,   \* RESOLUTION_WINDOW_COMMITS
    Relayed,     \* connections pass a relay: an end can be lost without the other
    MaxIds,      \* bound: commits attempted
    MaxConns,    \* bound: connections made
    MaxTxid,     \* bound: commits in the file
    MaxCrashes   \* bound: process crashes

ASSUME PageServiceAssumption ==
    /\ NoProc \notin Procs
    /\ ResWindow \in Nat \ {0, 1}
    /\ Relayed \in BOOLEAN
    /\ MaxIds \in Nat /\ MaxConns \in Nat /\ MaxTxid \in Nat /\ MaxCrashes \in Nat

Ids == 1 .. MaxIds
Maintenance == 0   \* the owner's commit of an unchanged snapshot

\* Who holds a gate: nobody, the owner's own writer, or a connection.
Free == 0
Own == -1

VARIABLES
    file,      \* the file: the commit at each txid
    presence,  \* who holds presence EX
    owner,     \* the owner object of each process that owns
    conn,      \* a process's connection as a client, 0 for none
    link,      \* the connections made so far
    txn,       \* the write transaction of each process
    outcome,   \* what the application was told of each commit
    crashes    \* bound: crashes so far

vars == <<file, presence, owner, conn, link, txn, outcome, crashes>>

\* ServiceWindow and WriterGate of a process that owns; "none": it does not.
NotOwner == [state |-> "none", txid |-> 0, res |-> {}, gate |-> Free,
             lock |-> 0, poisoned |-> FALSE]
NoTxn == [pc |-> "idle", id |-> 0, base |-> 0]

Owns(p) == owner[p].state # "none"
Between(p) == ~Owns(p) /\ conn[p] = 0
Made == 1 .. Len(link)

Init ==
    /\ file = <<>> /\ presence = NoProc
    /\ owner = [p \in Procs |-> NotOwner]
    /\ conn = [p \in Procs |-> 0]
    /\ link = <<>>
    /\ txn = [p \in Procs |-> NoTxn]
    /\ outcome = <<>>
    /\ crashes = 0

-----------------------------------------------------------------------------
(* The owner's window and gate. *)

\* ServiceWindow::new at an open that recovered the file, and seed_previous when
\* the other meta slot holds the commit before: the pairs from txid `first` on.
NewWindow(first) == {<<t, file[t]>> : t \in {u \in first .. Len(file) : u > 0}}

\* Mutant: the oldest pairs are never dropped.
PublishedUntrimmed(o, t, id) == [o EXCEPT !.txid = t, !.res = @ \cup {<<t, id>>}]

\* ServiceWindow::published of commit id at txid t.
Published(o, t, id) ==
    [o EXCEPT !.txid = t,
              !.res = {r \in @ \cup {<<t, id>>} : r[1] > t - ResWindow}]

\* Mutant: the digest is not compared.
ResolvedAnyDigest(o, t, id) ==
    IF t > o.txid THEN "failed"
    ELSE IF \E r \in o.res : r[1] = t THEN "committed" ELSE "unknown"

\* ServiceWindow::resolve.
Resolved(o, t, id) ==
    IF t > o.txid THEN "failed"
    ELSE IF <<t, id>> \in o.res THEN "committed"
    ELSE IF \E r \in o.res : r[1] = t THEN "failed" ELSE "unknown"

\* The file after commit id is written at txid t: the slot of t is its own.
Write(t, id) == Append(SubSeq(file, 1, t - 1), id)

\* hang_up on every connection of q, whose link records are l.
HangUpAll(q, l) == [c \in DOMAIN l |-> IF l[c].owner = q THEN [l[c] EXCEPT !.hung = TRUE] ELSE l[c]]

\* The owner's end of connection record l after its thread ended.
Gone(l) == [l EXCEPT !.srv = "gone", !.sent = FALSE, !.hung = TRUE, !.base = 0, !.id = 0]

HoldsGate(c) == c \in Made /\ owner[link[c].owner].gate = c

\* The application of p is told the outcome of its commit.
Tell(p, what) ==
    /\ outcome' = [outcome EXCEPT ![txn[p].id] = what]
    /\ txn' = [txn EXCEPT ![p] = NoTxn]

-----------------------------------------------------------------------------
(* Roles: election, connection, shutdown and crash. *)

\* reelect takes presence EX; promote opens the file. The endpoint may fail to bind.
Promote(p) ==
    /\ Between(p) /\ presence = NoProc
    /\ presence' = p
    /\ \E s \in {"serving", "unbound"}, first \in {Len(file) - 1, Len(file)} :
        owner' = [owner EXCEPT ![p] = [NotOwner EXCEPT !.state = s, !.txid = Len(file),
                                                       !.res = NewWindow(first)]]
    /\ UNCHANGED <<file, conn, link, txn, outcome, crashes>>

\* reelect finds a serving owner and connects.
Reconnect(p, q) ==
    /\ Between(p) /\ owner[q].state = "serving" /\ Len(link) < MaxConns
    /\ link' = Append(link, [client |-> p, owner |-> q, srv |-> "idle", base |-> 0, id |-> 0,
                             sent |-> FALSE, up |-> TRUE, hung |-> FALSE])
    /\ conn' = [conn EXCEPT ![p] = Len(link) + 1]
    /\ UNCHANGED <<file, presence, owner, txn, outcome, crashes>>

\* release_ownership, its first part: shutdown hangs up on every client.
StartShutdown(q) ==
    /\ owner[q].state \in {"serving", "unbound", "stopped"}
    /\ owner' = [owner EXCEPT ![q].state = "closing"]
    /\ link' = HangUpAll(q, link)
    /\ UNCHANGED <<file, presence, conn, txn, outcome, crashes>>

\* Mutant: the connection threads are not joined.
FinishShutdownUnjoined(q) ==
    /\ owner[q].state = "closing"
    /\ presence' = NoProc
    /\ owner' = [owner EXCEPT ![q] = NotOwner]
    /\ txn' = [txn EXCEPT ![q].pc = IF @ = "own" THEN "stale" ELSE @]
    /\ UNCHANGED <<file, conn, link, outcome, crashes>>

\* The connection threads are joined, the role is replaced (the writer's role
\* is now stale), presence released.
FinishShutdown(q) ==
    /\ owner[q].state = "closing"
    /\ \A c \in Made : link[c].owner = q => link[c].srv = "gone"
    /\ presence' = NoProc
    /\ owner' = [owner EXCEPT ![q] = NotOwner]
    /\ txn' = [txn EXCEPT ![q].pc = IF @ = "own" THEN "stale" ELSE @]
    /\ UNCHANGED <<file, conn, link, outcome, crashes>>

\* A process dies; a new one may open the file in its place. Its locks and the
\* ends of its connections die with it.
Crash(p) ==
    /\ crashes < MaxCrashes /\ ~Between(p)
    /\ crashes' = crashes + 1
    /\ presence' = IF presence = p THEN NoProc ELSE presence
    /\ owner' = [owner EXCEPT ![p] = NotOwner]
    /\ conn' = [conn EXCEPT ![p] = 0]
    /\ txn' = [txn EXCEPT ![p] = NoTxn]
    /\ link' = [c \in Made |->
                  IF link[c].owner = p THEN Gone(link[c])
                  ELSE IF link[c].client = p THEN [link[c] EXCEPT !.up = FALSE] ELSE link[c]]
    /\ UNCHANGED <<file, outcome>>

-----------------------------------------------------------------------------
(* The owner's own write transaction. *)

\* begin_service_write under an owner role.
OwnBegin(p) ==
    /\ Owns(p) /\ txn[p].pc = "idle" /\ owner[p].gate = Free /\ Len(outcome) < MaxIds
    /\ owner' = [owner EXCEPT ![p].gate = Own]
    /\ txn' = [txn EXCEPT ![p] = [pc |-> "own", id |-> 0, base |-> owner[p].txid]]
    /\ UNCHANGED <<file, presence, conn, link, outcome, crashes>>

\* A rollback, and release_service_write.
OwnRollback(p) ==
    /\ txn[p].pc \in {"own", "stale"}
    /\ txn' = [txn EXCEPT ![p] = NoTxn]
    /\ owner' = IF txn[p].pc = "own" THEN [owner EXCEPT ![p].gate = Free] ELSE owner
    /\ UNCHANGED <<file, presence, conn, link, outcome, crashes>>

\* persist finds the writer's role current; the commit is published with it.
\* A poisoned pager refuses it. A failed write or barrier poisons the pager;
\* the application learns of the error, and a reopen whether the commit landed.
OwnCommit(p) ==
    LET t  == txn[p].base + 1
        id == Len(outcome) + 1
    IN  /\ txn[p].pc = "own" /\ Len(outcome) < MaxIds /\ t <= MaxTxid
        /\ \/ /\ ~owner[p].poisoned
              /\ file' = Write(t, id)
              /\ owner' = [owner EXCEPT ![p] = Published([@ EXCEPT !.gate = Free], t, id)]
              /\ outcome' = Append(outcome, "committed")
           \/ /\ owner[p].poisoned
              /\ file' = file
              /\ owner' = [owner EXCEPT ![p].gate = Free]
              /\ outcome' = Append(outcome, "failed")
           \/ /\ ~owner[p].poisoned
              /\ file' \in {file, Write(t, id)}
              /\ owner' = [owner EXCEPT ![p].gate = Free, ![p].poisoned = TRUE]
              /\ outcome' = Append(outcome, "unknown")
        /\ txn' = [txn EXCEPT ![p] = NoTxn]
        /\ UNCHANGED <<presence, conn, link, crashes>>

\* persist finds the role replaced.
OwnStale(p) ==
    /\ txn[p].pc = "stale" /\ Len(outcome) < MaxIds
    /\ file' = file
    /\ outcome' = Append(outcome, "failed")
    /\ txn' = [txn EXCEPT ![p] = NoTxn]
    /\ UNCHANGED <<presence, owner, conn, link, crashes>>

-----------------------------------------------------------------------------
(* A client's write transaction: the client's side. *)

\* begin_write: the gate is granted, on the published version.
ClientBegin(c) ==
    LET p == link[c].client
        q == link[c].owner
    IN  /\ conn[p] = c /\ txn[p].pc = "idle" /\ link[c].srv = "idle" /\ ~link[c].hung
        /\ owner[q].gate = Free /\ Len(outcome) < MaxIds /\ owner[q].txid < MaxTxid
        /\ owner' = [owner EXCEPT ![q].gate = c]
        /\ link' = [link EXCEPT ![c].srv = "txn", ![c].base = owner[q].txid]
        /\ txn' = [txn EXCEPT ![p] = [pc |-> "begun", id |-> 0, base |-> owner[q].txid]]
        /\ UNCHANGED <<file, presence, conn, outcome, crashes>>

\* PsConnection::commit sends commit_begin to commit_end. What a relay accepts
\* for an end that is gone is lost.
ClientSend(c) ==
    LET p == link[c].client
    IN  /\ conn[p] = c /\ txn[p].pc = "begun" /\ Len(outcome) < MaxIds
        /\ link[c].hung => Relayed
        /\ outcome' = Append(outcome, "none")
        /\ txn' = [txn EXCEPT ![p].pc = "sent", ![p].id = Len(outcome) + 1]
        /\ link' = [link EXCEPT ![c].sent = ~link[c].hung, ![c].id = Len(outcome) + 1]
        /\ UNCHANGED <<file, presence, owner, conn, crashes>>

\* abort, sent and served.
ClientAbort(c) ==
    LET p == link[c].client
    IN  /\ conn[p] = c /\ txn[p].pc = "begun" /\ ~link[c].hung
        /\ link[c].srv \in {"txn", "revoked"}
        /\ txn' = [txn EXCEPT ![p] = NoTxn]
        /\ link' = [link EXCEPT ![c].srv = "idle"]
        /\ owner' = IF link[c].srv = "txn" THEN [owner EXCEPT ![link[c].owner].gate = Free]
                    ELSE owner
        /\ UNCHANGED <<file, presence, conn, outcome, crashes>>

\* Mutant: a request waiting for its reply is not failed.
BreakSilent(c) ==
    LET p == link[c].client
    IN  /\ link[c].up
        /\ link[c].hung \/ Relayed
        /\ link' = [link EXCEPT ![c].up = FALSE]
        /\ conn' = [conn EXCEPT ![p] = 0]
        /\ txn' = [txn EXCEPT ![p].pc = IF @ = "sent" THEN "lost" ELSE @]
        /\ outcome' = outcome
        /\ UNCHANGED <<file, presence, owner, crashes>>

\* break_with: the client's end fails. A commit not sent did not commit; one
\* sent is lost; one being resolved is unknown. The handle re-elects.
Break(c) ==
    LET p == link[c].client
    IN  /\ link[c].up
        /\ link[c].hung \/ Relayed
        /\ link' = [link EXCEPT ![c].up = FALSE]
        /\ conn' = [conn EXCEPT ![p] = 0]
        /\ CASE txn[p].pc = "begun" -> txn' = [txn EXCEPT ![p] = NoTxn] /\ outcome' = outcome
             [] txn[p].pc = "sent" -> txn' = [txn EXCEPT ![p].pc = "lost"] /\ outcome' = outcome
             [] txn[p].pc \in {"lost", "asking"} -> Tell(p, "unknown")
             [] OTHER -> UNCHANGED <<txn, outcome>>
        /\ UNCHANGED <<file, presence, owner, crashes>>

\* end_service on a client, which closes its connection: a commit it waits for
\* cannot be resolved any more. The file may be opened again.
ClientClose(c) ==
    LET p == link[c].client
    IN  /\ link[c].up
        /\ link' = [link EXCEPT ![c].up = FALSE]
        /\ conn' = [conn EXCEPT ![p] = 0]
        /\ IF txn[p].pc \in {"sent", "lost", "asking"} THEN Tell(p, "unknown")
           ELSE txn' = [txn EXCEPT ![p] = NoTxn] /\ outcome' = outcome
        /\ UNCHANGED <<file, presence, owner, crashes>>

\* resolve_lost_commit: no owner in time.
GiveUp(p) ==
    /\ txn[p].pc = "lost" /\ Between(p)
    /\ Tell(p, "unknown")
    /\ UNCHANGED <<file, presence, owner, conn, link, crashes>>

\* resolve_lost_commit, promoted: answer from the own window.
ResolveSelf(p) ==
    /\ txn[p].pc = "lost" /\ Owns(p) /\ owner[p].lock = 0
    /\ Tell(p, Resolved(owner[p], txn[p].base + 1, txn[p].id))
    /\ UNCHANGED <<file, presence, owner, conn, link, crashes>>

\* resolve_lost_commit, reconnected: send commit_status.
Ask(p) ==
    /\ txn[p].pc = "lost" /\ conn[p] # 0
    /\ txn' = [txn EXCEPT ![p].pc = "asking"]
    /\ UNCHANGED <<file, presence, owner, conn, link, outcome, crashes>>

-----------------------------------------------------------------------------
(* A connection's thread on the owner. *)

\* Mutant: the gate is released and the transaction kept.
RevokeKeeps(c) ==
    /\ link[c].srv = "txn"
    /\ link' = link
    /\ owner' = [owner EXCEPT ![link[c].owner].gate = Free]
    /\ UNCHANGED <<file, presence, conn, txn, outcome, crashes>>

\* watch_idle revokes a write transaction that sent nothing for the timeout.
Revoke(c) ==
    /\ link[c].srv = "txn"
    /\ link' = [link EXCEPT ![c].srv = "revoked"]
    /\ owner' = [owner EXCEPT ![link[c].owner].gate = Free]
    /\ UNCHANGED <<file, presence, conn, txn, outcome, crashes>>

\* watch_idle hangs up on a connection with no transaction: a commit just
\* published is one whose acknowledgement may still be to send.
HangUpIdle(c) ==
    /\ link[c].srv \in {"idle", "revoked", "published", "acked"} /\ ~link[c].hung
    /\ link' = [link EXCEPT ![c].hung = TRUE]
    /\ UNCHANGED <<file, presence, owner, conn, txn, outcome, crashes>>

\* Whether a reply on c reaches its client.
Heard(c) == link[c].up /\ ~link[c].hung

\* commit_end past check C: the point of no return. Of a revoked transaction
\* it reports 25P03.
ReadEnd(c) ==
    /\ link[c].sent /\ link[c].srv \in {"txn", "revoked"}
    /\ link' = [link EXCEPT ![c].sent = FALSE,
                            ![c].srv = IF @ = "txn" THEN "finishing" ELSE "idle"]
    /\ IF link[c].srv = "revoked" /\ Heard(c) THEN Tell(link[c].client, "failed")
       ELSE UNCHANGED <<txn, outcome>>
    /\ UNCHANGED <<file, presence, owner, conn, crashes>>

\* finish_client_commit: take the commit lock and write the commit.
CommitDelta(c) ==
    LET q == link[c].owner
    IN  /\ link[c].srv = "finishing" /\ owner[q].lock = 0 /\ ~owner[q].poisoned
        /\ file' = Write(link[c].base + 1, link[c].id)
        /\ owner' = [owner EXCEPT ![q].lock = c]
        /\ link' = [link EXCEPT ![c].srv = "written"]
        /\ UNCHANGED <<presence, conn, txn, outcome, crashes>>

\* The commit fails at the meta's write or the barrier, which poisons the pager
\* and may leave the commit in the file. The commit lock is dropped at once.
CommitDeltaFails(c) ==
    LET q == link[c].owner
    IN  /\ link[c].srv = "finishing" /\ owner[q].lock = 0
        /\ \E landed \in {FALSE, ~owner[q].poisoned} :
            file' = IF landed THEN Write(link[c].base + 1, link[c].id) ELSE file
        /\ owner' = [owner EXCEPT ![q].poisoned = TRUE]
        /\ link' = [link EXCEPT ![c].srv = "failing"]
        /\ UNCHANGED <<presence, conn, txn, outcome, crashes>>

\* stop_serving: the endpoint closes and every connection is hung up on, so that
\* the client of the failed commit sees a lost connection; the gate is released.
StopServing(c) ==
    LET q == link[c].owner
    IN  /\ link[c].srv = "failing"
        /\ owner' = [owner EXCEPT ![q].gate = Free,
                                  ![q].state = IF @ = "serving" THEN "stopped" ELSE @]
        /\ link' = HangUpAll(q, [link EXCEPT ![c].srv = "idle"])
        /\ UNCHANGED <<file, presence, conn, txn, outcome, crashes>>

\* Mutant: the window keeps the version it published before.
PublishLate(c) ==
    LET q == link[c].owner
    IN  /\ link[c].srv = "written"
        /\ owner' = [owner EXCEPT ![q].lock = 0]
        /\ link' = [link EXCEPT ![c].srv = "published"]
        /\ UNCHANGED <<file, presence, conn, txn, outcome, crashes>>

\* page_service_publish_commit, then the commit lock is released.
Publish(c) ==
    LET q == link[c].owner
    IN  /\ link[c].srv = "written"
        /\ owner' = [owner EXCEPT ![q] = Published([@ EXCEPT !.lock = 0], link[c].base + 1, link[c].id)]
        /\ link' = [link EXCEPT ![c].srv = "published"]
        /\ UNCHANGED <<file, presence, conn, txn, outcome, crashes>>

\* committed is sent.
Ack(c) ==
    /\ link[c].srv = "published"
    /\ link' = [link EXCEPT ![c].srv = "acked"]
    /\ IF Heard(c) THEN Tell(link[c].client, "committed") ELSE UNCHANGED <<txn, outcome>>
    /\ UNCHANGED <<file, presence, owner, conn, crashes>>

\* maintenance_commit if one is due, then the gate is released.
Release(c) ==
    LET q == link[c].owner
        t == owner[q].txid + 1
    IN  /\ link[c].srv = "acked"
        /\ \/ /\ file' = file
              /\ owner' = [owner EXCEPT ![q].gate = Free]
           \/ /\ ~owner[q].poisoned /\ t <= MaxTxid
              /\ file' = Write(t, Maintenance)
              /\ owner' = [owner EXCEPT ![q] = Published([@ EXCEPT !.gate = Free], t, Maintenance)]
        /\ link' = [link EXCEPT ![c].srv = "idle", ![c].base = 0, ![c].id = 0]
        /\ UNCHANGED <<presence, conn, txn, outcome, crashes>>

\* The cap flush or the maintenance commit fails, which poisons the pager; the
\* latter may have landed.
ReleaseFails(c) ==
    LET q == link[c].owner
        t == owner[q].txid + 1
    IN  /\ link[c].srv = "acked"
        /\ \E landed \in {FALSE, ~owner[q].poisoned /\ t <= MaxTxid} :
            file' = IF landed THEN Write(t, Maintenance) ELSE file
        /\ owner' = [owner EXCEPT ![q].poisoned = TRUE]
        /\ link' = [link EXCEPT ![c].srv = "failing"]
        /\ UNCHANGED <<presence, conn, txn, outcome, crashes>>

\* commit_status, after any holder of the commit lock.
Answer(p) ==
    LET c == conn[p]
        o == owner[link[c].owner]
    IN  /\ txn[p].pc = "asking" /\ c # 0 /\ Heard(c) /\ o.lock = 0
        /\ Tell(p, Resolved(o, txn[p].base + 1, txn[p].id))
        /\ UNCHANGED <<file, presence, owner, conn, link, crashes>>

\* Mutant: the end of a connection leaves its transaction open.
EndKeeps(c) ==
    /\ link[c].srv \in {"idle", "txn", "revoked"} /\ (link[c].hung \/ ~link[c].up)
    /\ link[c].sent => link[c].hung \/ Relayed
    /\ link' = [link EXCEPT ![c] = Gone(@)]
    /\ owner' = owner
    /\ UNCHANGED <<file, presence, conn, txn, outcome, crashes>>

\* end_connection, at EOF: frames sent before the client's end closed are read
\* first, unless a relay dropped them. An open transaction is aborted.
End(c) ==
    /\ link[c].srv \in {"idle", "txn", "revoked"} /\ (link[c].hung \/ ~link[c].up)
    /\ link[c].sent => link[c].hung \/ Relayed
    /\ link' = [link EXCEPT ![c] = Gone(@)]
    /\ owner' = IF link[c].srv = "txn" THEN [owner EXCEPT ![link[c].owner].gate = Free]
                ELSE owner
    /\ UNCHANGED <<file, presence, conn, txn, outcome, crashes>>

-----------------------------------------------------------------------------

\* A connection's thread, and the reader of a client that met its end.
Serving ==
    \E c \in Made : \/ ReadEnd(c) \/ CommitDelta(c) \/ CommitDeltaFails(c)
                    \/ Publish(c) \/ Ack(c) \/ Release(c) \/ ReleaseFails(c)
                    \/ StopServing(c) \/ End(c) \/ Break(c)

\* A lost commit's session.
Resolving == \E p \in Procs : GiveUp(p) \/ ResolveSelf(p) \/ Ask(p) \/ Answer(p)

\* Steps the applications, their operators and the world choose.
Chosen ==
    \/ \E p \in Procs : \/ Promote(p) \/ StartShutdown(p) \/ FinishShutdown(p) \/ Crash(p)
                        \/ OwnBegin(p) \/ OwnRollback(p) \/ OwnCommit(p) \/ OwnStale(p)
    \/ \E p, q \in Procs : Reconnect(p, q)
    \/ \E c \in Made : \/ ClientBegin(c) \/ ClientSend(c) \/ ClientAbort(c)
                       \/ ClientClose(c) \/ Revoke(c) \/ HangUpIdle(c)

Next == Serving \/ Resolving \/ Chosen

\* Threads that have something to do are scheduled; an election has a deadline.
Fairness == WF_vars(Serving) /\ WF_vars(Resolving)

Spec == Init /\ [][Next]_vars /\ Fairness

-----------------------------------------------------------------------------

Outcomes == {"none", "committed", "failed", "unknown"}

\* Every variable keeps its type.
TypeOK ==
    /\ file \in Seq(Ids \cup {Maintenance}) /\ Len(file) <= MaxTxid
    /\ presence \in Procs \cup {NoProc}
    /\ \A p \in Procs :
        /\ owner[p].state \in {"none", "serving", "unbound", "stopped", "closing"}
        /\ owner[p].txid \in 0 .. Len(file) /\ Cardinality(owner[p].res) <= ResWindow
        /\ owner[p].gate \in {Free, Own} \cup Made /\ owner[p].lock \in Made \cup {0}
        /\ conn[p] \in Made \cup {0}
        /\ txn[p].pc \in {"idle", "own", "stale", "begun", "sent", "lost", "asking"}
    /\ \A c \in Made :
        link[c].srv \in {"idle", "txn", "revoked", "finishing", "written", "published",
                         "acked", "failing", "gone"}
    /\ outcome \in Seq(Outcomes) /\ Len(outcome) <= MaxIds

\* No commit is lost: every commit builds on the newest one in the file, though
\* its base was read when the gate was granted and the gate may have been
\* revoked, the owner replaced or the connection lost since.
HistoryGrows == [][IsPrefix(file, file')]_vars

\* What an application is told is true: a commit reported committed is in the
\* file, one reported failed is not and never gets there, and no commit is there
\* twice; whether the report is the owner's reply, the answer of commit_status
\* from the same or a later owner, or the client's own conclusion.
OutcomeTruthful ==
    /\ \A id \in DOMAIN outcome :
        /\ outcome[id] = "committed" => \E t \in DOMAIN file : file[t] = id
        /\ outcome[id] = "failed" => \A t \in DOMAIN file : file[t] # id
    /\ \A t, u \in DOMAIN file : file[t] = file[u] /\ file[t] # Maintenance => t = u

\* Whoever may write the file holds presence: no connection thread past its
\* point of no return and no writer with a current role outlives the ownership.
WriterHoldsPresence ==
    /\ \A c \in Made : link[c].srv \in {"txn", "finishing", "written", "published", "acked",
                                         "failing"}
                        => presence = link[c].owner
    /\ \A p \in Procs : txn[p].pc = "own" \/ owner[p].gate # Free => presence = p

\* The window an owner answers commit_status from is the file's newest commits,
\* except while the holder of the commit lock is about to publish.
WindowMatchesFile ==
    \A p \in Procs : Owns(p) /\ ~owner[p].poisoned =>
        /\ owner[p].lock = 0 => owner[p].txid = Len(file)
        /\ \A r \in owner[p].res : file[r[1]] = r[2]

\* A commit whose acknowledgement was lost is settled, as committed, failed or
\* unknown: its session does not hang.
LostCommitSettles ==
    \A p \in Procs : txn[p].pc \in {"lost", "asking"} ~> txn[p].pc = "idle"

\* The gate is with a client whose end of the connection is gone.
GateOrphaned == \E c \in Made : HoldsGate(c) /\ ~link[c].up

\* The gate comes back from a client whose end of the connection is gone: its
\* thread on the owner ends the transaction (end_connection) or the commit.
GateComesBack == GateOrphaned ~> ~GateOrphaned
=============================================================================
