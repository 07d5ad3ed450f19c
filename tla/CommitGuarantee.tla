-------------------------- MODULE CommitGuarantee --------------------------
(***************************************************************************)
(* What the storage engine promises of one database file, with pages,      *)
(* slots and manifests left out: every commit is atomic; a durable one     *)
(* survives everything; a relaxed one survives any death of the process    *)
(* and may only be lost to a loss of power, together with every later      *)
(* commit of its batch that recovery did not select; open always succeeds. *)
(***************************************************************************)
CONSTANT Commits      \* commit attempts, the file's creation included

VARIABLES
    mode,     \* "up" or "down"
    lost,     \* what ended the last process: "close", "process", "power"
    failed,   \* a write or a barrier failed; only a reopen follows
    cur,      \* the published commit
    doing,    \* the attempt whose meta is written but not acknowledged
    floor,    \* the newest commit promised durable
    tail      \* the attempts made since the floor

vars == <<mode, lost, failed, cur, doing, floor, tail>>

None == 0

Init ==
    /\ mode = "up" /\ lost = "close" /\ failed = FALSE
    /\ cur \in Commits /\ floor = cur
    /\ doing = None /\ tail = {}

\* A commit's meta reaches the file: from here on recovery may select it.
Attempt(s) ==
    /\ mode = "up" /\ ~failed /\ doing = None
    /\ s \notin tail \cup {floor, cur}
    /\ doing' = s /\ tail' = tail \cup {s}
    /\ UNCHANGED <<mode, lost, failed, cur, floor>>

\* It is acknowledged: durable, or as part of a batch.
Acknowledge(durable) ==
    /\ mode = "up" /\ doing # None
    /\ cur' = doing /\ doing' = None
    /\ IF durable THEN floor' = doing /\ tail' = {} ELSE UNCHANGED <<floor, tail>>
    /\ UNCHANGED <<mode, lost, failed>>

\* A barrier between commits: everything published is durable.
Harden ==
    /\ mode = "up" /\ doing = None
    /\ floor' = cur /\ tail' = {}
    /\ UNCHANGED <<mode, lost, failed, cur, doing>>

\* A write or a barrier fails; an attempt in progress ends unacknowledged.
Fail ==
    /\ mode = "up" /\ failed' = TRUE /\ doing' = None
    /\ \/ UNCHANGED tail
       \/ \E s \in Commits : tail' = tail \cup {s}
    /\ UNCHANGED <<mode, lost, cur, floor>>

\* An orderly close hardens what is pending unless the storage failed.
Close ==
    /\ mode = "up" /\ doing = None
    /\ mode' = "down" /\ lost' = "close"
    /\ \/ UNCHANGED <<floor, tail>>
       \/ ~failed /\ floor' = cur /\ tail' = {}
    /\ UNCHANGED <<failed, cur, doing>>

Die ==
    /\ \/ mode = "up" /\ lost' \in {"process", "power"}
       \/ mode = "down" /\ lost' = "power"
    /\ mode' = "down"
    /\ UNCHANGED <<failed, cur, doing, floor, tail>>

\* What the next open may find.
Recoverable ==
    IF lost = "power" \/ failed THEN {floor} \cup tail
    ELSE {cur} \cup ({doing} \ {None})

Recover ==
    /\ mode = "down" /\ mode' = "up"
    /\ cur' \in Recoverable
    /\ IF lost = "power" THEN floor' = cur' /\ tail' = {}
                         ELSE UNCHANGED <<floor, tail>>
    /\ failed' = FALSE /\ doing' = None
    /\ UNCHANGED lost

Next ==
    \/ \E s \in Commits : Attempt(s)
    \/ \E durable \in BOOLEAN : Acknowledge(durable)
    \/ Harden \/ Fail \/ Close \/ Die \/ Recover

Spec == Init /\ [][Next]_vars

=============================================================================
