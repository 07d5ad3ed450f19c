------------------------- MODULE PageServiceSteps --------------------------
(***************************************************************************)
(* What every action of PageService does to the owners, the connections    *)
(* and the transactions, field by field, from the types of the state       *)
(* alone. The proofs of PageServiceProofs use these effects instead of the *)
(* actions.                                                                *)
(***************************************************************************)
EXTENDS PageService, TLAPS

\* What an owner can be doing, a connection thread, and a write transaction.
States == {"none", "serving", "unbound", "stopped", "closing"}
Srvs == {"idle", "txn", "revoked", "finishing", "written", "published", "acked", "failing",
         "gone"}
Pcs == {"idle", "own", "stale", "begun", "sent", "lost", "asking"}

\* The records of the state.
Owners == [state : States, txid : 0 .. MaxTxid,
           res : SUBSET ((1 .. MaxTxid) \X (0 .. MaxIds)),
           gate : Int, lock : Int, poisoned : BOOLEAN]
Links == [client : Procs, owner : Procs, srv : Srvs, base : 0 .. MaxTxid, id : 0 .. MaxIds,
          sent : BOOLEAN, up : BOOLEAN, hung : BOOLEAN]
Txns == [pc : Pcs, id : 0 .. MaxIds, base : 0 .. MaxTxid]

\* Every variable but the file keeps its type; a transaction that may still be
\* written has room for its txid.
Types ==
    /\ presence \in Procs \cup {NoProc}
    /\ owner \in [Procs -> Owners]
    /\ conn \in [Procs -> Nat]
    /\ link \in Seq(Links)
    /\ txn \in [Procs -> Txns]
    /\ outcome \in Seq(Outcomes) /\ Len(outcome) <= MaxIds
    /\ \A c \in Made : link[c].srv \in {"txn", "finishing", "written"} => link[c].base < MaxTxid

\* The file keeps its type.
Files == file \in Seq(0 .. MaxIds) /\ Len(file) <= MaxTxid

-----------------------------------------------------------------------------
(* Records and their fields. *)

\* One connection record replaced.
LEMMA LinkUpdate ==
    ASSUME link \in Seq(Links), NEW c \in Made, NEW r \in Links, link' = [link EXCEPT ![c] = r]
    PROVE  /\ link' \in Seq(Links) /\ Len(link') = Len(link) /\ Made' = Made
           /\ \A d \in Made : link'[d] = IF d = c THEN r ELSE link[d]
BY DEF Made

\* All connection records replaced.
LEMMA LinkMap ==
    ASSUME link \in Seq(Links), link' \in [Made -> Links]
    PROVE  link' \in Seq(Links) /\ Len(link') = Len(link) /\ Made' = Made
BY DEF Made

\* hang_up on every connection of q sets their hung flag and nothing else.
LEMMA HangUpAllEffect ==
    ASSUME NEW l \in Seq(Links), NEW q \in Procs
    PROVE  /\ HangUpAll(q, l) \in Seq(Links) /\ Len(HangUpAll(q, l)) = Len(l)
           /\ \A d \in 1 .. Len(l) :
                HangUpAll(q, l)[d] = IF l[d].owner = q THEN [l[d] EXCEPT !.hung = TRUE] ELSE l[d]
<1>1. ASSUME NEW d \in 1 .. Len(l) PROVE [l[d] EXCEPT !.hung = TRUE] \in Links
  <2>1. l[d] \in Links
    OBVIOUS
  <2> QED BY <2>1 DEF Links
<1>2. HangUpAll(q, l) \in [1 .. Len(l) -> Links]
  BY <1>1 DEF HangUpAll
<1> QED BY <1>2 DEF HangUpAll

\* The record of a connection whose thread ended is a record.
LEMMA GoneType ==
    ASSUME NEW l \in Links
    PROVE  Gone(l) \in Links /\ Gone(l).srv = "gone"
<1>1. 0 \in 0 .. MaxTxid /\ 0 \in 0 .. MaxIds /\ "gone" \in Srvs
  BY PageServiceAssumption DEF Srvs
<1>2. TRUE \in BOOLEAN /\ FALSE \in BOOLEAN
  OBVIOUS
<1>3. [[l EXCEPT !.srv = "gone"] EXCEPT !.sent = FALSE] \in Links
  BY <1>1 DEF Links
<1>4. [[[l EXCEPT !.srv = "gone"] EXCEPT !.sent = FALSE] EXCEPT !.hung = TRUE] \in Links
  BY <1>3 DEF Links
<1>5. Gone(l) = 
       [[[[l EXCEPT !.srv = "gone"] EXCEPT !.sent = FALSE] EXCEPT !.hung = TRUE]
          EXCEPT !.base = 0, !.id = 0]
  BY DEF Gone
<1>6. Gone(l) \in Links
  BY <1>1, <1>4, <1>5 DEF Links
<1> QED BY <1>6 DEF Gone, Links

\* Telling an application keeps the types.
LEMMA TellType ==
    ASSUME Types, NEW p \in Procs, NEW what \in Outcomes, Tell(p, what)
    PROVE  /\ outcome' \in Seq(Outcomes) /\ Len(outcome') = Len(outcome)
           /\ txn' \in [Procs -> Txns]
<1>1. NoTxn \in Txns
  BY PageServiceAssumption DEF NoTxn, Txns, Pcs
<1>2. outcome \in [1 .. Len(outcome) -> Outcomes] /\ Len(outcome) \in Nat
  BY DEF Types
<1>3. outcome' = [outcome EXCEPT ![txn[p].id] = what]
  BY DEF Tell
<1>4. outcome' \in [1 .. Len(outcome) -> Outcomes]
  BY <1>2, <1>3
<1> QED BY <1>1, <1>2, <1>4 DEF Tell, Types

\* An owner record with one field replaced is an owner record.
LEMMA OwnerFields ==
    ASSUME NEW o \in Owners
    PROVE  /\ \A s \in States : [o EXCEPT !.state = s] \in Owners
           /\ \A g \in Int : [o EXCEPT !.gate = g] \in Owners
           /\ \A l \in Int : [o EXCEPT !.lock = l] \in Owners
           /\ \A t \in 0 .. MaxTxid : [o EXCEPT !.txid = t] \in Owners
           /\ [o EXCEPT !.poisoned = TRUE] \in Owners
<1>1. \A s \in States : [o EXCEPT !.state = s] \in Owners
  BY DEF Owners
<1>2. \A g \in Int : [o EXCEPT !.gate = g] \in Owners
  BY DEF Owners
<1>3. \A l \in Int : [o EXCEPT !.lock = l] \in Owners
  BY DEF Owners
<1>4. \A t \in 0 .. MaxTxid : [o EXCEPT !.txid = t] \in Owners
  BY DEF Owners
<1>5. [o EXCEPT !.poisoned = TRUE] \in Owners
  BY DEF Owners
<1> QED BY <1>1, <1>2, <1>3, <1>4, <1>5

\* A connection record with one field replaced is a connection record.
LEMMA LinkFields ==
    ASSUME NEW l \in Links
    PROVE  /\ \A s \in Srvs : [l EXCEPT !.srv = s] \in Links
           /\ \A b \in 0 .. MaxTxid : [l EXCEPT !.base = b] \in Links
           /\ \A i \in 0 .. MaxIds : [l EXCEPT !.id = i] \in Links
           /\ \A b \in BOOLEAN : [l EXCEPT !.sent = b] \in Links
           /\ \A b \in BOOLEAN : [l EXCEPT !.up = b] \in Links
           /\ \A b \in BOOLEAN : [l EXCEPT !.hung = b] \in Links
<1>1. \A s \in Srvs : [l EXCEPT !.srv = s] \in Links
  BY DEF Links
<1>2. \A b \in 0 .. MaxTxid : [l EXCEPT !.base = b] \in Links
  BY DEF Links
<1>3. \A i \in 0 .. MaxIds : [l EXCEPT !.id = i] \in Links
  BY DEF Links
<1>4. \A b \in BOOLEAN : [l EXCEPT !.sent = b] \in Links
  BY DEF Links
<1>5. \A b \in BOOLEAN : [l EXCEPT !.up = b] \in Links
  BY DEF Links
<1>6. \A b \in BOOLEAN : [l EXCEPT !.hung = b] \in Links
  BY DEF Links
<1> QED BY <1>1, <1>2, <1>3, <1>4, <1>5, <1>6

\* A transaction record with one field replaced is a transaction record.
LEMMA TxnFields ==
    ASSUME NEW x \in Txns
    PROVE  /\ \A s \in Pcs : [x EXCEPT !.pc = s] \in Txns
           /\ \A i \in 0 .. MaxIds : [x EXCEPT !.id = i] \in Txns
BY DEF Txns

\* The records of a process that does not own and has no transaction.
LEMMA Constants ==
    /\ NotOwner \in Owners /\ NoTxn \in Txns
    /\ \A s \in States : s \in {"none", "serving", "unbound", "stopped", "closing"}
<1>1. NotOwner \in Owners
  <2>1. FALSE \in BOOLEAN /\ 0 \in 0 .. MaxTxid /\ Free \in Int /\ 0 \in Int /\ "none" \in States
    BY PageServiceAssumption DEF Free, States
  <2>2. {} \in SUBSET ((1 .. MaxTxid) \X (0 .. MaxIds))
    OBVIOUS
  <2> QED BY <2>1, <2>2 DEF NotOwner, Owners
<1>2. NoTxn \in Txns
  BY PageServiceAssumption DEF NoTxn, Txns, Pcs
<1> QED BY <1>1, <1>2 DEF States

-----------------------------------------------------------------------------
(* The fields of a record after a step. *)

\* k is connection record l with these fields; o is the owner record, x the
\* transaction record with these fields.
LinkIs(l, k, s, b, i, m, u, h) ==
    /\ k \in Links /\ k.client = l.client /\ k.owner = l.owner
    /\ k.srv = s /\ k.base = b /\ k.id = i
    /\ (k.sent <=> m) /\ (k.up <=> u) /\ (k.hung <=> h)
OwnerIs(o, s, t, r, g, k, x) ==
    /\ o \in Owners /\ o.state = s /\ o.txid = t /\ o.res = r
    /\ o.gate = g /\ o.lock = k /\ (o.poisoned <=> x)
TxnIs(x, s, i, b) == x \in Txns /\ x.pc = s /\ x.id = i /\ x.base = b

\* ServiceWindow::published: the pairs a window v keeps when commit i is
\* published at txid t.
Kept(v, t, i) == {r \in v \cup {<<t, i>>} : r[1] > t - ResWindow}

\* A step changes one connection, one owner, one transaction or one client
\* end, to these fields.
LinkTo(c, s, b, i, m, u, h) ==
    /\ link' \in Seq(Links) /\ Made' = Made /\ \A d \in Made \ {c} : link'[d] = link[d]
    /\ LinkIs(link[c], link'[c], s, b, i, m, u, h)
OwnerTo(q, s, t, r, g, k, x) ==
    /\ owner' \in [Procs -> Owners] /\ \A y \in Procs \ {q} : owner'[y] = owner[y]
    /\ OwnerIs(owner'[q], s, t, r, g, k, x)
TxnTo(p, s, i, b) ==
    /\ txn' \in [Procs -> Txns] /\ \A y \in Procs \ {p} : txn'[y] = txn[y]
    /\ TxnIs(txn'[p], s, i, b)
ConnTo(p, c) ==
    /\ conn' \in [Procs -> Nat] /\ \A y \in Procs \ {p} : conn'[y] = conn[y]
    /\ conn'[p] = c

\* The fields of a connection have their types.
LEMMA LinkAt ==
    ASSUME Types, NEW c \in Made
    PROVE  /\ c \in DOMAIN link /\ link[c] \in Links
           /\ link[c].client \in Procs /\ link[c].owner \in Procs
           /\ link[c].srv \in Srvs /\ link[c].base \in 0 .. MaxTxid /\ link[c].id \in 0 .. MaxIds
           /\ link[c].sent \in BOOLEAN /\ link[c].up \in BOOLEAN /\ link[c].hung \in BOOLEAN
<1>1. c \in DOMAIN link /\ link[c] \in Links
  BY DEF Types, Made
<1>2. \A l \in Links :
           /\ l.client \in Procs /\ l.owner \in Procs
           /\ l.srv \in Srvs /\ l.base \in 0 .. MaxTxid /\ l.id \in 0 .. MaxIds
  BY DEF Links
<1>3. \A l \in Links : l.sent \in BOOLEAN /\ l.up \in BOOLEAN /\ l.hung \in BOOLEAN
  BY DEF Links
<1> QED BY <1>1, <1>2, <1>3

\* A connection record replaced is a step LinkTo.
LEMMA LinkChange ==
    ASSUME Types, NEW c \in Made, NEW r, NEW s, NEW b, NEW i, NEW m, NEW u, NEW h,
           LinkIs(link[c], r, s, b, i, m, u, h), link' = [link EXCEPT ![c] = r]
    PROVE  LinkTo(c, s, b, i, m, u, h)
<1>1. link \in Seq(Links) /\ r \in Links
  BY DEF Types, LinkIs
<1>2. /\ link' \in Seq(Links) /\ Made' = Made
      /\ \A d \in Made : link'[d] = IF d = c THEN r ELSE link[d]
  BY <1>1, LinkUpdate
<1> QED BY <1>2 DEF LinkTo

\* The fields of an owner have their types.
LEMMA OwnerAt ==
    ASSUME Types, NEW p \in Procs
    PROVE  /\ owner[p] \in Owners
           /\ owner[p].state \in States /\ owner[p].txid \in 0 .. MaxTxid
           /\ owner[p].gate \in Int /\ owner[p].lock \in Int /\ owner[p].poisoned \in BOOLEAN
<1>1. owner[p] \in Owners
  BY DEF Types
<1>2. \A o \in Owners :
           /\ o.state \in States /\ o.txid \in 0 .. MaxTxid
           /\ o.gate \in Int /\ o.lock \in Int /\ o.poisoned \in BOOLEAN
  BY DEF Owners
<1> QED BY <1>1, <1>2

\* An owner record replaced is a step OwnerTo.
LEMMA OwnerChange ==
    ASSUME Types, NEW q \in Procs, NEW o, NEW s, NEW t, NEW r, NEW g, NEW k, NEW x,
           OwnerIs(o, s, t, r, g, k, x), owner' = [owner EXCEPT ![q] = o]
    PROVE  OwnerTo(q, s, t, r, g, k, x)
<1>1. owner \in [Procs -> Owners] /\ o \in Owners
  BY DEF Types, OwnerIs
<1>2. owner' \in [Procs -> Owners] /\ owner'[q] = o /\ \A y \in Procs \ {q} : owner'[y] = owner[y]
  BY <1>1
<1> QED BY <1>2 DEF OwnerTo

\* The fields of a transaction have their types.
LEMMA TxnAt ==
    ASSUME Types, NEW p \in Procs
    PROVE  txn[p] \in Txns /\ txn[p].pc \in Pcs /\ txn[p].id \in 0 .. MaxIds
        /\ txn[p].base \in 0 .. MaxTxid
BY DEF Types, Txns

\* A transaction record replaced is a step TxnTo.
LEMMA TxnChange ==
    ASSUME Types, NEW p \in Procs, NEW x, NEW s, NEW i, NEW b,
           TxnIs(x, s, i, b), txn' = [txn EXCEPT ![p] = x]
    PROVE  TxnTo(p, s, i, b)
<1>1. txn \in [Procs -> Txns] /\ x \in Txns
  BY DEF Types, TxnIs
<1>2. txn' \in [Procs -> Txns] /\ txn'[p] = x /\ \A y \in Procs \ {p} : txn'[y] = txn[y]
  BY <1>1
<1> QED BY <1>2 DEF TxnTo

\* The fields of a connection record when one of them is replaced.
LEMMA LinkRecs ==
    ASSUME NEW l \in Links
    PROVE  /\ \A s \in Srvs : LinkIs(l, [l EXCEPT !.srv = s], s, l.base, l.id, l.sent, l.up,
               l.hung)
           /\ LinkIs(l, [l EXCEPT !.up = FALSE], l.srv, l.base, l.id, l.sent, FALSE, l.hung)
           /\ LinkIs(l, [l EXCEPT !.hung = TRUE], l.srv, l.base, l.id, l.sent, l.up, TRUE)
           /\ LinkIs(l, Gone(l), "gone", 0, 0, FALSE, l.up, TRUE)
<1>1. \A s \in Srvs : LinkIs(l, [l EXCEPT !.srv = s], s, l.base, l.id, l.sent, l.up, l.hung)
  BY DEF Links, LinkIs
<1>2. LinkIs(l, [l EXCEPT !.up = FALSE], l.srv, l.base, l.id, l.sent, FALSE, l.hung)
  BY LinkFields DEF Links, LinkIs
<1>3. LinkIs(l, [l EXCEPT !.hung = TRUE], l.srv, l.base, l.id, l.sent, l.up, TRUE)
  BY LinkFields DEF Links, LinkIs
<1>4. LinkIs(l, Gone(l), "gone", 0, 0, FALSE, l.up, TRUE)
  BY GoneType DEF Links, LinkIs, Gone
<1> QED BY <1>1, <1>2, <1>3, <1>4

\* The fields of a connection record when two or three are replaced.
LEMMA LinkRecs2 ==
    ASSUME NEW l \in Links, NEW t \in 0 .. MaxTxid, NEW i \in 0 .. MaxIds
    PROVE  /\ LinkIs(l, [l EXCEPT !.srv = "txn", !.base = t], "txn", t, l.id, l.sent, l.up,
               l.hung)
           /\ LinkIs(l, [l EXCEPT !.sent = ~l.hung, !.id = i], l.srv, l.base, i, ~l.hung, l.up,
               l.hung)
           /\ LinkIs(l, [l EXCEPT !.srv = "idle", !.base = 0, !.id = 0], "idle", 0, 0, l.sent,
               l.up, l.hung)
           /\ \A s \in Srvs : LinkIs(l, [l EXCEPT !.sent = FALSE, !.srv = s], s, l.base, l.id,
               FALSE, l.up, l.hung)
<1>1. LinkIs(l, [l EXCEPT !.srv = "txn", !.base = t], "txn", t, l.id, l.sent, l.up, l.hung)
  BY DEF Links, LinkIs, Srvs
<1>2. LinkIs(l, [l EXCEPT !.sent = ~l.hung, !.id = i], l.srv, l.base, i, ~l.hung, l.up, l.hung)
  <2> DEFINE k == [l EXCEPT !.sent = ~l.hung, !.id = i]
  <2>1. k \in Links
    BY LinkFields
  <2>2. /\ k.client = l.client /\ k.owner = l.owner /\ k.srv = l.srv /\ k.base = l.base
        /\ k.id = i
        /\ k.up = l.up /\ k.hung = l.hung /\ k.sent = ~l.hung
    BY DEF Links
  <2> HIDE DEF k
  <2>3. k.sent <=> ~l.hung
    BY <2>2, Zenon
  <2>4. (k.up <=> l.up) /\ (k.hung <=> l.hung)
    BY <2>2, Zenon
  <2>5. LinkIs(l, k, l.srv, l.base, i, ~l.hung, l.up, l.hung)
    BY <2>1, <2>2, <2>3, <2>4, Zenon DEF LinkIs
  <2> QED BY <2>5 DEF k
<1>3. LinkIs(l, [l EXCEPT !.srv = "idle", !.base = 0, !.id = 0], "idle", 0, 0, l.sent, l.up,
          l.hung)
  <2>1. 0 \in 0 .. MaxTxid /\ 0 \in 0 .. MaxIds /\ "idle" \in Srvs
    BY PageServiceAssumption DEF Srvs
  <2> QED BY <2>1 DEF Links, LinkIs
<1>4. \A s \in Srvs : LinkIs(l, [l EXCEPT !.sent = FALSE, !.srv = s], s, l.base, l.id, FALSE,
          l.up, l.hung)
  <2> TAKE s \in Srvs
  <2>1. [l EXCEPT !.sent = FALSE] \in Links
    BY LinkFields
  <2>2. [l EXCEPT !.sent = FALSE, !.srv = s] \in Links
    BY <2>1, LinkFields
  <2> QED BY <2>2 DEF Links, LinkIs
<1> QED BY <1>1, <1>2, <1>3, <1>4

\* The fields of an owner record when one of them is replaced.
LEMMA OwnerRecs ==
    ASSUME NEW o \in Owners
    PROVE  /\ \A s \in States : OwnerIs([o EXCEPT !.state = s], s, o.txid, o.res, o.gate, o.lock,
               o.poisoned)
           /\ \A g \in Int : OwnerIs([o EXCEPT !.gate = g], o.state, o.txid, o.res, g, o.lock,
               o.poisoned)
           /\ \A k \in Int : OwnerIs([o EXCEPT !.lock = k], o.state, o.txid, o.res, o.gate, k,
               o.poisoned)
           /\ OwnerIs(o, o.state, o.txid, o.res, o.gate, o.lock, o.poisoned)
BY OwnerFields DEF Owners, OwnerIs

\* ServiceWindow::published moves the txid and the window, and nothing else.
LEMMA PublishedIs ==
    ASSUME NEW o, NEW s, NEW u, NEW v, NEW g, NEW k, NEW x, OwnerIs(o, s, u, v, g, k, x),
           NEW t \in 1 .. MaxTxid, NEW i \in 0 .. MaxIds
    PROVE  OwnerIs(Published(o, t, i), s, t, Kept(v, t, i), g, k, x)
<1>1. o \in Owners /\ o.res = v
  BY DEF OwnerIs
<1>2. Kept(v, t, i) \in SUBSET ((1 .. MaxTxid) \X (0 .. MaxIds))
  BY <1>1 DEF Owners, Kept
<1>3. Published(o, t, i) = [o EXCEPT !.txid = t, !.res = Kept(v, t, i)]
  BY <1>1 DEF Published, Kept
<1>4. t \in 0 .. MaxTxid
  OBVIOUS
<1>5. OwnerIs([o EXCEPT !.txid = t, !.res = Kept(v, t, i)], s, t, Kept(v, t, i), g, k, x)
  BY <1>1, <1>2, <1>4 DEF Owners, OwnerIs
<1> QED BY <1>3, <1>5

-----------------------------------------------------------------------------
(* Actions of one connection. *)

\* begin_write: the connection holds the gate, on the owner's published
\* version.
LEMMA ClientBeginEffect ==
    ASSUME Types, NEW c \in Made, ClientBegin(c)
    PROVE  /\ link[c].client \in Procs /\ link[c].owner \in Procs
           /\ conn[link[c].client] = c /\ txn[link[c].client].pc = "idle" /\ link[c].srv = "idle"
           /\ ~link[c].hung
           /\ owner[link[c].owner].gate = Free /\ owner[link[c].owner].txid < MaxTxid
           /\ UNCHANGED <<file, presence, conn, outcome>>
           /\ LinkTo(c, "txn", owner[link[c].owner].txid, link[c].id, link[c].sent, link[c].up,
               link[c].hung)
           /\ OwnerTo(link[c].owner, owner[link[c].owner].state, owner[link[c].owner].txid,
               owner[link[c].owner].res, c, owner[link[c].owner].lock,
                   owner[link[c].owner].poisoned)
           /\ TxnTo(link[c].client, "begun", 0, owner[link[c].owner].txid)
<1>1. /\ link[c] \in Links /\ link[c].client \in Procs /\ link[c].owner \in Procs
      /\ owner[link[c].owner] \in Owners /\ c \in Int /\ Free \in Int
  BY LinkAt, OwnerAt DEF Made, Free
<1>2. link' = [link EXCEPT ![c] = [link[c] EXCEPT !.srv = "txn",
          !.base = owner[link[c].owner].txid]]
  BY DEF ClientBegin
<1>3. owner[link[c].owner].txid \in 0 .. MaxTxid /\ 0 \in 0 .. MaxIds
  BY <1>1, OwnerAt, PageServiceAssumption
<1>4. LinkIs(link[c], [link[c] EXCEPT !.srv = "txn", !.base = owner[link[c].owner].txid], "txn",
          owner[link[c].owner].txid, link[c].id, link[c].sent, link[c].up, link[c].hung)
  BY <1>1, <1>3, LinkRecs, LinkRecs2 DEF Srvs
<1>5. LinkTo(c, "txn", owner[link[c].owner].txid, link[c].id, link[c].sent, link[c].up,
          link[c].hung)
  BY <1>2, <1>4, LinkChange
<1>6. owner' = [owner EXCEPT ![link[c].owner] = [owner[link[c].owner] EXCEPT !.gate = c]]
  BY DEF ClientBegin
<1>7. OwnerIs([owner[link[c].owner] EXCEPT !.gate = c], owner[link[c].owner].state,
          owner[link[c].owner].txid, owner[link[c].owner].res, c, owner[link[c].owner].lock,
              owner[link[c].owner].poisoned)
  BY <1>1, OwnerRecs
<1>8. OwnerTo(link[c].owner, owner[link[c].owner].state, owner[link[c].owner].txid,
          owner[link[c].owner].res, c, owner[link[c].owner].lock, owner[link[c].owner].poisoned)
  BY <1>1, <1>6, <1>7, OwnerChange
<1>9. TxnIs([pc |-> "begun", id |-> 0, base |-> owner[link[c].owner].txid], "begun", 0,
          owner[link[c].owner].txid)
  BY <1>3 DEF TxnIs, Txns, Pcs
<1>10. txn' = [txn EXCEPT ![link[c].client] = [pc |-> "begun", id |-> 0,
           base |-> owner[link[c].owner].txid]]
  BY DEF ClientBegin
<1>11. TxnTo(link[c].client, "begun", 0, owner[link[c].owner].txid)
  BY <1>1, <1>9, <1>10, TxnChange
<1> QED BY <1>1, <1>5, <1>8, <1>11 DEF ClientBegin

\* commit_begin to commit_end: the commit has a new id and waits in the
\* connection.
LEMMA ClientSendEffect ==
    ASSUME Types, NEW c \in Made, ClientSend(c)
    PROVE  /\ link[c].client \in Procs /\ link[c].owner \in Procs
           /\ conn[link[c].client] = c /\ txn[link[c].client].pc = "begun" /\ (link[c].hung
               => Relayed)
           /\ Len(outcome) < MaxIds /\ outcome' = Append(outcome, "none")
           /\ UNCHANGED <<file, presence, owner, conn>>
           /\ LinkTo(c, link[c].srv, link[c].base, Len(outcome) + 1, ~link[c].hung, link[c].up,
               link[c].hung)
           /\ TxnTo(link[c].client, "sent", Len(outcome) + 1, txn[link[c].client].base)
<1>1. /\ link[c] \in Links /\ link[c].client \in Procs /\ link[c].owner \in Procs
      /\ owner[link[c].owner] \in Owners /\ c \in Int /\ Free \in Int
  BY LinkAt, OwnerAt DEF Made, Free
<1>2. link' = [link EXCEPT ![c] = [link[c] EXCEPT !.sent = ~link[c].hung,
          !.id = Len(outcome) + 1]]
  BY DEF ClientSend
<1>3. Len(outcome) + 1 \in 0 .. MaxIds /\ 0 \in 0 .. MaxTxid
  BY PageServiceAssumption DEF ClientSend, Types
<1>4. LinkIs(link[c], [link[c] EXCEPT !.sent = ~link[c].hung, !.id = Len(outcome) + 1],
          link[c].srv, link[c].base, Len(outcome) + 1, ~link[c].hung, link[c].up, link[c].hung)
  BY <1>1, <1>3, LinkRecs, LinkRecs2 DEF Srvs
<1>5. LinkTo(c, link[c].srv, link[c].base, Len(outcome) + 1, ~link[c].hung, link[c].up,
          link[c].hung)
  BY <1>2, <1>4, LinkChange
<1>9. TxnIs([txn[link[c].client] EXCEPT !.pc = "sent", !.id = Len(outcome) + 1], "sent",
          Len(outcome) + 1, txn[link[c].client].base)
  BY <1>1, <1>3, TxnAt DEF TxnIs, Txns, Pcs
<1>10. txn' = [txn EXCEPT ![link[c].client] = [txn[link[c].client] EXCEPT !.pc = "sent",
           !.id = Len(outcome) + 1]]
  BY DEF ClientSend
<1>11. TxnTo(link[c].client, "sent", Len(outcome) + 1, txn[link[c].client].base)
  BY <1>1, <1>9, <1>10, TxnChange
<1> QED BY <1>1, <1>5, <1>11 DEF ClientSend

\* abort: the transaction ends, and the gate is free if it had not been
\* revoked.
LEMMA ClientAbortEffect ==
    ASSUME Types, NEW c \in Made, ClientAbort(c)
    PROVE  /\ link[c].client \in Procs /\ link[c].owner \in Procs
           /\ conn[link[c].client] = c /\ txn[link[c].client].pc = "begun" /\ ~link[c].hung
           /\ link[c].srv \in {"txn", "revoked"}
           /\ UNCHANGED <<file, presence, conn, outcome>>
           /\ LinkTo(c, "idle", link[c].base, link[c].id, link[c].sent, link[c].up, link[c].hung)
           /\ OwnerTo(link[c].owner, owner[link[c].owner].state, owner[link[c].owner].txid,
               owner[link[c].owner].res, IF link[c].srv = "txn" THEN Free
                   ELSE owner[link[c].owner].gate, owner[link[c].owner].lock,
                       owner[link[c].owner].poisoned)
           /\ TxnTo(link[c].client, "idle", 0, 0)
<1>1. /\ link[c] \in Links /\ link[c].client \in Procs /\ link[c].owner \in Procs
      /\ owner[link[c].owner] \in Owners /\ c \in Int /\ Free \in Int
  BY LinkAt, OwnerAt DEF Made, Free
<1>2. link' = [link EXCEPT ![c] = [link[c] EXCEPT !.srv = "idle"]]
  BY DEF ClientAbort
<1>4. LinkIs(link[c], [link[c] EXCEPT !.srv = "idle"], "idle", link[c].base, link[c].id,
          link[c].sent, link[c].up, link[c].hung)
  BY <1>1, LinkRecs, LinkRecs2 DEF Srvs
<1>5. LinkTo(c, "idle", link[c].base, link[c].id, link[c].sent, link[c].up, link[c].hung)
  BY <1>2, <1>4, LinkChange
<1>6. ASSUME link[c].srv = "txn" PROVE OwnerTo(link[c].owner, owner[link[c].owner].state,
          owner[link[c].owner].txid, owner[link[c].owner].res, IF link[c].srv = "txn" THEN Free
              ELSE owner[link[c].owner].gate, owner[link[c].owner].lock,
                  owner[link[c].owner].poisoned)
  <2>1. owner' = [owner EXCEPT ![link[c].owner] = [owner[link[c].owner] EXCEPT !.gate = Free]]
    BY <1>6 DEF ClientAbort
  <2>2. OwnerIs([owner[link[c].owner] EXCEPT !.gate = Free], owner[link[c].owner].state,
            owner[link[c].owner].txid, owner[link[c].owner].res, Free, owner[link[c].owner].lock,
                owner[link[c].owner].poisoned)
    BY <1>1, OwnerRecs
  <2>3. OwnerTo(link[c].owner, owner[link[c].owner].state, owner[link[c].owner].txid,
            owner[link[c].owner].res, Free, owner[link[c].owner].lock,
                owner[link[c].owner].poisoned)
    BY <1>1, <2>1, <2>2, OwnerChange
  <2> QED BY <1>6, <2>3
<1>7. ASSUME link[c].srv # "txn" PROVE OwnerTo(link[c].owner, owner[link[c].owner].state,
          owner[link[c].owner].txid, owner[link[c].owner].res, IF link[c].srv = "txn" THEN Free
              ELSE owner[link[c].owner].gate, owner[link[c].owner].lock,
                  owner[link[c].owner].poisoned)
  <2>1. owner' = owner /\ owner \in [Procs -> Owners]
    BY <1>7 DEF ClientAbort, Types
  <2> QED BY <1>1, <1>7, <2>1, OwnerRecs DEF OwnerTo
<1>8. OwnerTo(link[c].owner, owner[link[c].owner].state, owner[link[c].owner].txid,
          owner[link[c].owner].res, IF link[c].srv = "txn" THEN Free
              ELSE owner[link[c].owner].gate, owner[link[c].owner].lock,
                  owner[link[c].owner].poisoned)
  BY <1>6, <1>7
<1>9. TxnIs(NoTxn, "idle", 0, 0)
  BY Constants DEF NoTxn, TxnIs
<1>10. txn' = [txn EXCEPT ![link[c].client] = NoTxn]
  BY DEF ClientAbort
<1>11. TxnTo(link[c].client, "idle", 0, 0)
  BY <1>1, <1>9, <1>10, TxnChange
<1> QED BY <1>1, <1>5, <1>8, <1>11 DEF ClientAbort

\* end_service on a client: its end is down and no request of its is open.
LEMMA ClientCloseEffect ==
    ASSUME Types, NEW c \in Made, ClientClose(c)
    PROVE  /\ link[c].client \in Procs /\ link[c].owner \in Procs
           /\ link[c].up
           /\ UNCHANGED <<file, presence, owner>>
           /\ LinkTo(c, link[c].srv, link[c].base, link[c].id, link[c].sent, FALSE, link[c].hung)
           /\ ConnTo(link[c].client, 0)
           /\ IF txn[link[c].client].pc \in {"sent", "lost", "asking"} THEN Tell(link[c].client,
               "unknown")
              ELSE TxnTo(link[c].client, "idle", 0, 0) /\ outcome' = outcome
<1>1. /\ link[c] \in Links /\ link[c].client \in Procs /\ link[c].owner \in Procs
      /\ owner[link[c].owner] \in Owners /\ c \in Int /\ Free \in Int
  BY LinkAt, OwnerAt DEF Made, Free
<1>2. link' = [link EXCEPT ![c] = [link[c] EXCEPT !.up = FALSE]]
  BY DEF ClientClose
<1>4. LinkIs(link[c], [link[c] EXCEPT !.up = FALSE], link[c].srv, link[c].base, link[c].id,
          link[c].sent, FALSE, link[c].hung)
  BY <1>1, LinkRecs, LinkRecs2 DEF Srvs
<1>5. LinkTo(c, link[c].srv, link[c].base, link[c].id, link[c].sent, FALSE, link[c].hung)
  BY <1>2, <1>4, LinkChange
<1>6. conn' = [conn EXCEPT ![link[c].client] = 0] /\ conn \in [Procs -> Nat]
  BY DEF ClientClose, Types
<1>7. ConnTo(link[c].client, 0)
  BY <1>1, <1>6 DEF ConnTo
<1>9. TxnIs(NoTxn, "idle", 0, 0)
  BY Constants DEF NoTxn, TxnIs
<1>10. ASSUME txn' = [txn EXCEPT ![link[c].client] = NoTxn] PROVE TxnTo(link[c].client, "idle",
           0, 0)
  BY <1>1, <1>9, <1>10, TxnChange
<1> QED BY <1>1, <1>5, <1>7, <1>10 DEF ClientClose

\* watch_idle takes the gate back and leaves the client's transaction to find
\* out.
LEMMA RevokeEffect ==
    ASSUME Types, NEW c \in Made, Revoke(c)
    PROVE  /\ link[c].client \in Procs /\ link[c].owner \in Procs
           /\ link[c].srv = "txn"
           /\ UNCHANGED <<file, presence, conn, txn, outcome>>
           /\ LinkTo(c, "revoked", link[c].base, link[c].id, link[c].sent, link[c].up,
               link[c].hung)
           /\ OwnerTo(link[c].owner, owner[link[c].owner].state, owner[link[c].owner].txid,
               owner[link[c].owner].res, Free, owner[link[c].owner].lock,
                   owner[link[c].owner].poisoned)
<1>1. /\ link[c] \in Links /\ link[c].client \in Procs /\ link[c].owner \in Procs
      /\ owner[link[c].owner] \in Owners /\ c \in Int /\ Free \in Int
  BY LinkAt, OwnerAt DEF Made, Free
<1>2. link' = [link EXCEPT ![c] = [link[c] EXCEPT !.srv = "revoked"]]
  BY DEF Revoke
<1>4. LinkIs(link[c], [link[c] EXCEPT !.srv = "revoked"], "revoked", link[c].base, link[c].id,
          link[c].sent, link[c].up, link[c].hung)
  BY <1>1, LinkRecs, LinkRecs2 DEF Srvs
<1>5. LinkTo(c, "revoked", link[c].base, link[c].id, link[c].sent, link[c].up, link[c].hung)
  BY <1>2, <1>4, LinkChange
<1>6. owner' = [owner EXCEPT ![link[c].owner] = [owner[link[c].owner] EXCEPT !.gate = Free]]
  BY DEF Revoke
<1>7. OwnerIs([owner[link[c].owner] EXCEPT !.gate = Free], owner[link[c].owner].state,
          owner[link[c].owner].txid, owner[link[c].owner].res, Free, owner[link[c].owner].lock,
              owner[link[c].owner].poisoned)
  BY <1>1, OwnerRecs
<1>8. OwnerTo(link[c].owner, owner[link[c].owner].state, owner[link[c].owner].txid,
          owner[link[c].owner].res, Free, owner[link[c].owner].lock,
              owner[link[c].owner].poisoned)
  BY <1>1, <1>6, <1>7, OwnerChange
<1> QED BY <1>1, <1>5, <1>8 DEF Revoke

\* watch_idle hangs up: only the flag changes.
LEMMA HangUpIdleEffect ==
    ASSUME Types, NEW c \in Made, HangUpIdle(c)
    PROVE  /\ link[c].client \in Procs /\ link[c].owner \in Procs
           /\ link[c].srv \in {"idle", "revoked", "published", "acked"}
           /\ UNCHANGED <<file, presence, owner, conn, txn, outcome>>
           /\ LinkTo(c, link[c].srv, link[c].base, link[c].id, link[c].sent, link[c].up, TRUE)
<1>1. /\ link[c] \in Links /\ link[c].client \in Procs /\ link[c].owner \in Procs
      /\ owner[link[c].owner] \in Owners /\ c \in Int /\ Free \in Int
  BY LinkAt, OwnerAt DEF Made, Free
<1>2. link' = [link EXCEPT ![c] = [link[c] EXCEPT !.hung = TRUE]]
  BY DEF HangUpIdle
<1>4. LinkIs(link[c], [link[c] EXCEPT !.hung = TRUE], link[c].srv, link[c].base, link[c].id,
          link[c].sent, link[c].up, TRUE)
  BY <1>1, LinkRecs, LinkRecs2 DEF Srvs
<1>5. LinkTo(c, link[c].srv, link[c].base, link[c].id, link[c].sent, link[c].up, TRUE)
  BY <1>2, <1>4, LinkChange
<1> QED BY <1>1, <1>5 DEF HangUpIdle

\* commit_end: the commit passes its point of no return, or is refused as
\* revoked.
LEMMA ReadEndEffect ==
    ASSUME Types, NEW c \in Made, ReadEnd(c)
    PROVE  /\ link[c].client \in Procs /\ link[c].owner \in Procs
           /\ link[c].sent /\ link[c].srv \in {"txn", "revoked"}
           /\ UNCHANGED <<file, presence, owner, conn>>
           /\ \/ UNCHANGED <<txn, outcome>>
              \/ link[c].srv = "revoked" /\ link[c].up /\ ~link[c].hung /\ Tell(link[c].client,
                  "failed")
           /\ LinkTo(c, IF link[c].srv = "txn" THEN "finishing" ELSE "idle", link[c].base,
               link[c].id, FALSE, link[c].up, link[c].hung)
<1>1. /\ link[c] \in Links /\ link[c].client \in Procs /\ link[c].owner \in Procs
      /\ owner[link[c].owner] \in Owners /\ c \in Int /\ Free \in Int
  BY LinkAt, OwnerAt DEF Made, Free
<1>2. link' = [link EXCEPT ![c] = [link[c] EXCEPT !.sent = FALSE, !.srv = IF link[c].srv = "txn"
          THEN "finishing" ELSE "idle"]]
  BY DEF ReadEnd
<1>3. 0 \in 0 .. MaxIds /\ 0 \in 0 .. MaxTxid
  BY PageServiceAssumption
<1>4. LinkIs(link[c], [link[c] EXCEPT !.sent = FALSE, !.srv = IF link[c].srv = "txn"
          THEN "finishing" ELSE "idle"], IF link[c].srv = "txn" THEN "finishing" ELSE "idle",
              link[c].base, link[c].id, FALSE, link[c].up, link[c].hung)
  BY <1>1, <1>3, LinkRecs, LinkRecs2 DEF Srvs
<1>5. LinkTo(c, IF link[c].srv = "txn" THEN "finishing" ELSE "idle", link[c].base, link[c].id,
          FALSE, link[c].up, link[c].hung)
  BY <1>2, <1>4, LinkChange
<1> QED BY <1>1, <1>5 DEF ReadEnd, Heard

\* finish_client_commit: the commit is written under the commit lock.
LEMMA CommitDeltaEffect ==
    ASSUME Types, NEW c \in Made, CommitDelta(c)
    PROVE  /\ link[c].client \in Procs /\ link[c].owner \in Procs
           /\ link[c].srv = "finishing" /\ owner[link[c].owner].lock = 0
           /\ ~owner[link[c].owner].poisoned
           /\ file' = Write(link[c].base + 1, link[c].id)
           /\ UNCHANGED <<presence, conn, txn, outcome>>
           /\ LinkTo(c, "written", link[c].base, link[c].id, link[c].sent, link[c].up,
               link[c].hung)
           /\ OwnerTo(link[c].owner, owner[link[c].owner].state, owner[link[c].owner].txid,
               owner[link[c].owner].res, owner[link[c].owner].gate, c,
                   owner[link[c].owner].poisoned)
<1>1. /\ link[c] \in Links /\ link[c].client \in Procs /\ link[c].owner \in Procs
      /\ owner[link[c].owner] \in Owners /\ c \in Int /\ Free \in Int
  BY LinkAt, OwnerAt DEF Made, Free
<1>2. link' = [link EXCEPT ![c] = [link[c] EXCEPT !.srv = "written"]]
  BY DEF CommitDelta
<1>4. LinkIs(link[c], [link[c] EXCEPT !.srv = "written"], "written", link[c].base, link[c].id,
          link[c].sent, link[c].up, link[c].hung)
  BY <1>1, LinkRecs, LinkRecs2 DEF Srvs
<1>5. LinkTo(c, "written", link[c].base, link[c].id, link[c].sent, link[c].up, link[c].hung)
  BY <1>2, <1>4, LinkChange
<1>6. owner' = [owner EXCEPT ![link[c].owner] = [owner[link[c].owner] EXCEPT !.lock = c]]
  BY DEF CommitDelta
<1>7. OwnerIs([owner[link[c].owner] EXCEPT !.lock = c], owner[link[c].owner].state,
          owner[link[c].owner].txid, owner[link[c].owner].res, owner[link[c].owner].gate, c,
              owner[link[c].owner].poisoned)
  BY <1>1, OwnerRecs
<1>8. OwnerTo(link[c].owner, owner[link[c].owner].state, owner[link[c].owner].txid,
          owner[link[c].owner].res, owner[link[c].owner].gate, c, owner[link[c].owner].poisoned)
  BY <1>1, <1>6, <1>7, OwnerChange
<1> QED BY <1>1, <1>5, <1>8 DEF CommitDelta

\* page_service_publish_commit: the window moves to the commit, the commit
\* lock is free.
LEMMA PublishEffect ==
    ASSUME Types, NEW c \in Made, Publish(c)
    PROVE  /\ link[c].client \in Procs /\ link[c].owner \in Procs
           /\ link[c].srv = "written"
           /\ UNCHANGED <<file, presence, conn, txn, outcome>>
           /\ LinkTo(c, "published", link[c].base, link[c].id, link[c].sent, link[c].up,
               link[c].hung)
           /\ OwnerTo(link[c].owner, owner[link[c].owner].state, link[c].base + 1,
               Kept(owner[link[c].owner].res, link[c].base + 1, link[c].id),
                   owner[link[c].owner].gate, 0, owner[link[c].owner].poisoned)
<1>1. /\ link[c] \in Links /\ link[c].client \in Procs /\ link[c].owner \in Procs
      /\ owner[link[c].owner] \in Owners /\ c \in Int /\ Free \in Int
  BY LinkAt, OwnerAt DEF Made, Free
<1>2. link' = [link EXCEPT ![c] = [link[c] EXCEPT !.srv = "published"]]
  BY DEF Publish
<1>4. LinkIs(link[c], [link[c] EXCEPT !.srv = "published"], "published", link[c].base,
          link[c].id, link[c].sent, link[c].up, link[c].hung)
  BY <1>1, LinkRecs, LinkRecs2 DEF Srvs
<1>5. LinkTo(c, "published", link[c].base, link[c].id, link[c].sent, link[c].up, link[c].hung)
  BY <1>2, <1>4, LinkChange
<1>6. link[c].base + 1 \in 1 .. MaxTxid /\ link[c].id \in 0 .. MaxIds
  BY LinkAt, PageServiceAssumption DEF Publish, Types
<1>7. [owner[link[c].owner] EXCEPT !.lock = 0] \in Owners
          /\ OwnerIs([owner[link[c].owner] EXCEPT !.lock = 0], owner[link[c].owner].state,
              owner[link[c].owner].txid, owner[link[c].owner].res, owner[link[c].owner].gate, 0,
                  owner[link[c].owner].poisoned)
  BY <1>1, OwnerRecs DEF OwnerIs
<1>8. OwnerIs(
            Published([owner[link[c].owner] EXCEPT !.lock = 0],
                      link[c].base + 1, link[c].id), owner[link[c].owner].state,
                          link[c].base + 1, Kept(owner[link[c].owner].res, link[c].base + 1,
                              link[c].id), owner[link[c].owner].gate, 0,
                                  owner[link[c].owner].poisoned)
  BY <1>6, <1>7, PublishedIs
<1>9. owner' = [owner EXCEPT ![link[c].owner] = 
            Published([owner[link[c].owner] EXCEPT !.lock = 0],
                      link[c].base + 1, link[c].id)]
  BY DEF Publish
<1>10. OwnerTo(link[c].owner, owner[link[c].owner].state, link[c].base + 1,
           Kept(owner[link[c].owner].res, link[c].base + 1, link[c].id),
               owner[link[c].owner].gate, 0, owner[link[c].owner].poisoned)
  BY <1>1, <1>8, <1>9, OwnerChange
<1> QED BY <1>1, <1>5, <1>10 DEF Publish

\* committed is sent: the client, if it hears, is told.
LEMMA AckEffect ==
    ASSUME Types, NEW c \in Made, Ack(c)
    PROVE  /\ link[c].client \in Procs /\ link[c].owner \in Procs
           /\ link[c].srv = "published"
           /\ UNCHANGED <<file, presence, owner, conn>>
           /\ \/ UNCHANGED <<txn, outcome>>
              \/ link[c].up /\ ~link[c].hung /\ Tell(link[c].client, "committed")
           /\ LinkTo(c, "acked", link[c].base, link[c].id, link[c].sent, link[c].up, link[c].hung)
<1>1. /\ link[c] \in Links /\ link[c].client \in Procs /\ link[c].owner \in Procs
      /\ owner[link[c].owner] \in Owners /\ c \in Int /\ Free \in Int
  BY LinkAt, OwnerAt DEF Made, Free
<1>2. link' = [link EXCEPT ![c] = [link[c] EXCEPT !.srv = "acked"]]
  BY DEF Ack
<1>4. LinkIs(link[c], [link[c] EXCEPT !.srv = "acked"], "acked", link[c].base, link[c].id,
          link[c].sent, link[c].up, link[c].hung)
  BY <1>1, LinkRecs, LinkRecs2 DEF Srvs
<1>5. LinkTo(c, "acked", link[c].base, link[c].id, link[c].sent, link[c].up, link[c].hung)
  BY <1>2, <1>4, LinkChange
<1> QED BY <1>1, <1>5 DEF Ack, Heard

\* The gate is free, after a maintenance commit if one was due.
LEMMA ReleaseEffect ==
    ASSUME Types, NEW c \in Made, Release(c)
    PROVE  /\ link[c].client \in Procs /\ link[c].owner \in Procs
           /\ link[c].srv = "acked"
           /\ UNCHANGED <<presence, conn, txn, outcome>>
           /\ LinkTo(c, "idle", 0, 0, link[c].sent, link[c].up, link[c].hung)
           /\ \/ file' = file /\ OwnerTo(link[c].owner, owner[link[c].owner].state,
                  owner[link[c].owner].txid, owner[link[c].owner].res, Free,
                      owner[link[c].owner].lock, owner[link[c].owner].poisoned)
              \/ /\ ~owner[link[c].owner].poisoned /\ owner[link[c].owner].txid + 1 <= MaxTxid
                     /\ file' = Write(owner[link[c].owner].txid + 1, Maintenance)
                 /\ OwnerTo(link[c].owner, owner[link[c].owner].state,
                     owner[link[c].owner].txid + 1, Kept(owner[link[c].owner].res,
                         owner[link[c].owner].txid + 1, Maintenance), Free,
                             owner[link[c].owner].lock, owner[link[c].owner].poisoned)
<1>1. /\ link[c] \in Links /\ link[c].client \in Procs /\ link[c].owner \in Procs
      /\ owner[link[c].owner] \in Owners /\ c \in Int /\ Free \in Int
  BY LinkAt, OwnerAt DEF Made, Free
<1>2. link' = [link EXCEPT ![c] = [link[c] EXCEPT !.srv = "idle", !.base = 0, !.id = 0]]
  BY DEF Release
<1>3. 0 \in 0 .. MaxIds /\ 0 \in 0 .. MaxTxid
  BY PageServiceAssumption
<1>4. LinkIs(link[c], [link[c] EXCEPT !.srv = "idle", !.base = 0, !.id = 0], "idle", 0, 0,
          link[c].sent, link[c].up, link[c].hung)
  BY <1>1, <1>3, LinkRecs, LinkRecs2 DEF Srvs
<1>5. LinkTo(c, "idle", 0, 0, link[c].sent, link[c].up, link[c].hung)
  BY <1>2, <1>4, LinkChange
<1>6. OwnerIs([owner[link[c].owner] EXCEPT !.gate = Free], owner[link[c].owner].state,
          owner[link[c].owner].txid, owner[link[c].owner].res, Free, owner[link[c].owner].lock,
              owner[link[c].owner].poisoned)
                  /\ [owner[link[c].owner] EXCEPT !.gate = Free] \in Owners
  BY <1>1, OwnerRecs DEF OwnerIs
<1>7. ASSUME owner' = [owner EXCEPT ![link[c].owner] = [owner[link[c].owner] EXCEPT !.gate = Free]]
      PROVE  OwnerTo(link[c].owner, owner[link[c].owner].state, owner[link[c].owner].txid,
          owner[link[c].owner].res, Free, owner[link[c].owner].lock,
              owner[link[c].owner].poisoned)
  BY <1>1, <1>6, <1>7, OwnerChange
<1>8. ASSUME owner[link[c].owner].txid + 1 <= MaxTxid, owner' = [owner EXCEPT ![link[c].owner] = 
            Published([owner[link[c].owner] EXCEPT !.gate = Free],
                      owner[link[c].owner].txid + 1, Maintenance)]
      PROVE  OwnerTo(link[c].owner, owner[link[c].owner].state, owner[link[c].owner].txid + 1,
          Kept(owner[link[c].owner].res, owner[link[c].owner].txid + 1, Maintenance), Free,
              owner[link[c].owner].lock, owner[link[c].owner].poisoned)
  <2>1. owner[link[c].owner].txid + 1 \in 1 .. MaxTxid /\ Maintenance \in 0 .. MaxIds
    BY <1>1, <1>8, OwnerAt, PageServiceAssumption DEF Maintenance
  <2>2. OwnerIs(
            Published([owner[link[c].owner] EXCEPT !.gate = Free],
                      owner[link[c].owner].txid + 1, Maintenance), owner[link[c].owner].state,
                          owner[link[c].owner].txid + 1, Kept(owner[link[c].owner].res,
                              owner[link[c].owner].txid + 1, Maintenance), Free,
                                  owner[link[c].owner].lock, owner[link[c].owner].poisoned)
    BY <1>6, <2>1, PublishedIs
  <2> QED BY <1>1, <1>8, <2>2, OwnerChange
<1> QED BY <1>1, <1>5, <1>7, <1>8 DEF Release

\* end_connection: the thread is gone, and the gate it held is free.
LEMMA EndEffect ==
    ASSUME Types, NEW c \in Made, End(c)
    PROVE  /\ link[c].client \in Procs /\ link[c].owner \in Procs
           /\ link[c].srv \in {"idle", "txn", "revoked"} /\ (link[c].hung \/ ~link[c].up)
           /\ link[c].sent => link[c].hung \/ Relayed
           /\ UNCHANGED <<file, presence, conn, txn, outcome>>
           /\ LinkTo(c, "gone", 0, 0, FALSE, link[c].up, TRUE)
           /\ OwnerTo(link[c].owner, owner[link[c].owner].state, owner[link[c].owner].txid,
               owner[link[c].owner].res, IF link[c].srv = "txn" THEN Free
                   ELSE owner[link[c].owner].gate, owner[link[c].owner].lock,
                       owner[link[c].owner].poisoned)
<1>1. /\ link[c] \in Links /\ link[c].client \in Procs /\ link[c].owner \in Procs
      /\ owner[link[c].owner] \in Owners /\ c \in Int /\ Free \in Int
  BY LinkAt, OwnerAt DEF Made, Free
<1>2. link' = [link EXCEPT ![c] = Gone(link[c])]
  BY DEF End
<1>4. LinkIs(link[c], Gone(link[c]), "gone", 0, 0, FALSE, link[c].up, TRUE)
  BY <1>1, LinkRecs, LinkRecs2 DEF Srvs
<1>5. LinkTo(c, "gone", 0, 0, FALSE, link[c].up, TRUE)
  BY <1>2, <1>4, LinkChange
<1>6. ASSUME link[c].srv = "txn" PROVE OwnerTo(link[c].owner, owner[link[c].owner].state,
          owner[link[c].owner].txid, owner[link[c].owner].res, IF link[c].srv = "txn" THEN Free
              ELSE owner[link[c].owner].gate, owner[link[c].owner].lock,
                  owner[link[c].owner].poisoned)
  <2>1. owner' = [owner EXCEPT ![link[c].owner] = [owner[link[c].owner] EXCEPT !.gate = Free]]
    BY <1>6 DEF End
  <2>2. OwnerIs([owner[link[c].owner] EXCEPT !.gate = Free], owner[link[c].owner].state,
            owner[link[c].owner].txid, owner[link[c].owner].res, Free, owner[link[c].owner].lock,
                owner[link[c].owner].poisoned)
    BY <1>1, OwnerRecs
  <2>3. OwnerTo(link[c].owner, owner[link[c].owner].state, owner[link[c].owner].txid,
            owner[link[c].owner].res, Free, owner[link[c].owner].lock,
                owner[link[c].owner].poisoned)
    BY <1>1, <2>1, <2>2, OwnerChange
  <2> QED BY <1>6, <2>3
<1>7. ASSUME link[c].srv # "txn" PROVE OwnerTo(link[c].owner, owner[link[c].owner].state,
          owner[link[c].owner].txid, owner[link[c].owner].res, IF link[c].srv = "txn" THEN Free
              ELSE owner[link[c].owner].gate, owner[link[c].owner].lock,
                  owner[link[c].owner].poisoned)
  <2>1. owner' = owner /\ owner \in [Procs -> Owners]
    BY <1>7 DEF End, Types
  <2> QED BY <1>1, <1>7, <2>1, OwnerRecs DEF OwnerTo
<1>8. OwnerTo(link[c].owner, owner[link[c].owner].state, owner[link[c].owner].txid,
          owner[link[c].owner].res, IF link[c].srv = "txn" THEN Free
              ELSE owner[link[c].owner].gate, owner[link[c].owner].lock,
                  owner[link[c].owner].poisoned)
  BY <1>6, <1>7
<1> QED BY <1>1, <1>5, <1>8 DEF End

\* break_with: the client's end is down; its transaction ends, is lost or is
\* told unknown.
LEMMA BreakEffect ==
    ASSUME Types, NEW c \in Made, Break(c)
    PROVE  /\ link[c].client \in Procs /\ link[c].owner \in Procs
           /\ link[c].up /\ (link[c].hung \/ Relayed)
           /\ UNCHANGED <<file, presence, owner>>
           /\ LinkTo(c, link[c].srv, link[c].base, link[c].id, link[c].sent, FALSE, link[c].hung)
           /\ ConnTo(link[c].client, 0)
           /\ \/ txn[link[c].client].pc = "begun" /\ TxnTo(link[c].client, "idle", 0, 0)
                  /\ outcome' = outcome
              \/ txn[link[c].client].pc = "sent" /\ TxnTo(link[c].client, "lost",
                  txn[link[c].client].id, txn[link[c].client].base) /\ outcome' = outcome
              \/ txn[link[c].client].pc \in {"lost", "asking"} /\ Tell(link[c].client, "unknown")
              \/ txn[link[c].client].pc \in {"idle", "own", "stale"} /\ UNCHANGED <<txn, outcome>>
<1>1. /\ link[c] \in Links /\ link[c].client \in Procs /\ link[c].owner \in Procs
      /\ owner[link[c].owner] \in Owners /\ c \in Int /\ Free \in Int
  BY LinkAt, OwnerAt DEF Made, Free
<1>2. link' = [link EXCEPT ![c] = [link[c] EXCEPT !.up = FALSE]]
  BY DEF Break
<1>4. LinkIs(link[c], [link[c] EXCEPT !.up = FALSE], link[c].srv, link[c].base, link[c].id,
          link[c].sent, FALSE, link[c].hung)
  BY <1>1, LinkRecs, LinkRecs2 DEF Srvs
<1>5. LinkTo(c, link[c].srv, link[c].base, link[c].id, link[c].sent, FALSE, link[c].hung)
  BY <1>2, <1>4, LinkChange
<1>6. conn' = [conn EXCEPT ![link[c].client] = 0] /\ conn \in [Procs -> Nat]
  BY DEF Break, Types
<1>7. ConnTo(link[c].client, 0)
  BY <1>1, <1>6 DEF ConnTo
<1>9. TxnIs(NoTxn, "idle", 0, 0) /\ txn[link[c].client] \in Txns /\ txn[link[c].client].pc \in Pcs
  BY <1>1, Constants, TxnAt DEF NoTxn, TxnIs
<1>10. ASSUME txn' = [txn EXCEPT ![link[c].client] = NoTxn] PROVE TxnTo(link[c].client, "idle",
           0, 0)
  BY <1>1, <1>9, <1>10, TxnChange
<1>11. ASSUME txn' = [txn EXCEPT ![link[c].client].pc = "lost"]
       PROVE  TxnTo(link[c].client, "lost", txn[link[c].client].id, txn[link[c].client].base)
  <2>1. TxnIs([txn[link[c].client] EXCEPT !.pc = "lost"], "lost", txn[link[c].client].id,
            txn[link[c].client].base)
    BY <1>9 DEF TxnIs, Txns, Pcs
  <2>2. txn' = [txn EXCEPT ![link[c].client] = [txn[link[c].client] EXCEPT !.pc = "lost"]]
    BY <1>11
  <2> QED BY <1>1, <2>1, <2>2, TxnChange
<1>12. CASE txn[link[c].client].pc = "begun"
  BY <1>1, <1>5, <1>7, <1>10, <1>12 DEF Break
<1>13. CASE txn[link[c].client].pc = "sent"
  BY <1>1, <1>5, <1>7, <1>11, <1>13 DEF Break
<1>14. CASE txn[link[c].client].pc \in {"lost", "asking"}
  BY <1>1, <1>5, <1>7, <1>14 DEF Break
<1>15. CASE txn[link[c].client].pc \in {"idle", "own", "stale"}
  BY <1>1, <1>5, <1>7, <1>15 DEF Break
<1> QED BY <1>9, <1>12, <1>13, <1>14, <1>15 DEF Pcs

\* hang_up on every connection of q, where the threads in S are idle again.
LinksHung(q, S) ==
    /\ link' \in Seq(Links) /\ Made' = Made
    /\ \A d \in Made :
        LinkIs(link[d], link'[d], IF d \in S THEN "idle" ELSE link[d].srv, link[d].base,
            link[d].id,
               link[d].sent, link[d].up, link[d].owner = q \/ link[d].hung)

\* The connections of p die with it.
LinksLost(p) ==
    /\ link' \in Seq(Links) /\ Made' = Made
    /\ \A d \in Made :
        /\ link[d].owner = p
             => LinkIs(link[d], link'[d], "gone", 0, 0, FALSE, link[d].up, TRUE)
        /\ link[d].owner # p
             => LinkIs(link[d], link'[d], link[d].srv, link[d].base, link[d].id, link[d].sent,
                       link[d].up /\ link[d].client # p, link[d].hung)

\* A new connection of p to q.
LinkMade(p, q) ==
    /\ link' \in Seq(Links) /\ Len(link') = Len(link) + 1 /\ Made' = Made \cup {Len(link) + 1}
    /\ \A d \in Made : link'[d] = link[d]
    /\ LET k == link'[Len(link) + 1]
       IN  /\ k \in Links /\ k.client = p /\ k.owner = q /\ k.srv = "idle" /\ k.base = 0
           /\ k.id = 0 /\ ~k.sent /\ k.up /\ ~k.hung

\* hang_up on every connection of q, field by field.
LEMMA HangUpAllIs ==
    ASSUME NEW l \in Seq(Links), NEW q \in Procs, link' = HangUpAll(q, l)
    PROVE  /\ link' \in Seq(Links) /\ Len(link') = Len(l) /\ Made' = 1 .. Len(l)
           /\ \A d \in 1 .. Len(l) :
                LinkIs(l[d], link'[d], l[d].srv, l[d].base, l[d].id, l[d].sent, l[d].up,
                       l[d].owner = q \/ l[d].hung)
<1>1. /\ link' \in Seq(Links) /\ Len(link') = Len(l)
      /\ \A d \in 1 .. Len(l) :
           link'[d] = IF l[d].owner = q THEN [l[d] EXCEPT !.hung = TRUE] ELSE l[d]
  BY HangUpAllEffect
<1>2. ASSUME NEW d \in 1 .. Len(l)
      PROVE  LinkIs(l[d], link'[d], l[d].srv, l[d].base, l[d].id, l[d].sent, l[d].up,
                    l[d].owner = q \/ l[d].hung)
  <2>1. l[d] \in Links
    OBVIOUS
  <2>2. LinkIs(l[d], [l[d] EXCEPT !.hung = TRUE], l[d].srv, l[d].base, l[d].id, l[d].sent,
            l[d].up, TRUE)
    BY <2>1, LinkRecs
  <2>3. LinkIs(l[d], l[d], l[d].srv, l[d].base, l[d].id, l[d].sent, l[d].up, l[d].hung)
    BY <2>1 DEF LinkIs
  <2>4. CASE l[d].owner = q
    <3>1. link'[d] = [l[d] EXCEPT !.hung = TRUE]
      BY <1>1, <2>4
    <3> QED BY <2>2, <2>4, <3>1 DEF LinkIs
  <2>5. CASE l[d].owner # q
    <3>1. link'[d] = l[d]
      BY <1>1, <2>5
    <3> QED BY <2>3, <2>5, <3>1 DEF LinkIs
  <2> QED BY <2>4, <2>5
<1> QED BY <1>1, <1>2 DEF Made

\* promote: p holds presence, with the window of the file it recovered.
LEMMA PromoteEffect ==
    ASSUME Types, Files, NEW p \in Procs, Promote(p)
    PROVE  /\ ~Owns(p) /\ conn[p] = 0 /\ presence = NoProc /\ presence' = p
           /\ \E s \in {"serving", "unbound"}, first \in {Len(file) - 1, Len(file)} :
                OwnerTo(p, s, Len(file), NewWindow(first), Free, 0, FALSE)
           /\ UNCHANGED <<file, conn, link, txn, outcome>>
<1>1. PICK s \in {"serving", "unbound"}, first \in {Len(file) - 1, Len(file)} :
        owner' = [owner EXCEPT ![p] = [NotOwner EXCEPT !.state = s, !.txid = Len(file),
            !.res = NewWindow(first)]]
  BY DEF Promote
<1>2. Len(file) \in 0 .. MaxTxid /\ NewWindow(first) \in SUBSET ((1 .. MaxTxid) \X (0 .. MaxIds))
  BY PageServiceAssumption DEF Files, NewWindow
<1>3. OwnerIs([NotOwner EXCEPT !.state = s, !.txid = Len(file), !.res = NewWindow(first)],
              s, Len(file), NewWindow(first), Free, 0, FALSE)
  <2>1. NotOwner \in Owners /\ s \in States
    BY Constants DEF States
  <2>2. [[NotOwner EXCEPT !.state = s] EXCEPT !.txid = Len(file)] \in Owners
    BY <1>2, <2>1, OwnerFields
  <2>3. [NotOwner EXCEPT !.state = s, !.txid = Len(file), !.res = NewWindow(first)] \in Owners
    BY <1>2, <2>2 DEF Owners
  <2> QED BY <2>3 DEF OwnerIs, NotOwner
<1>4. OwnerTo(p, s, Len(file), NewWindow(first), Free, 0, FALSE)
  BY <1>1, <1>3, OwnerChange
<1> QED BY <1>4 DEF Promote, Between

\* shutdown: the owner is closing and has hung up on every connection.
LEMMA StartShutdownEffect ==
    ASSUME Types, NEW p \in Procs, StartShutdown(p)
    PROVE  /\ owner[p].state \in {"serving", "unbound", "stopped"}
           /\ OwnerTo(p, "closing", owner[p].txid, owner[p].res, owner[p].gate, owner[p].lock,
               owner[p].poisoned)
           /\ LinksHung(p, {})
           /\ UNCHANGED <<file, presence, conn, txn, outcome>>
<1>1. owner[p] \in Owners /\ txn[p] \in Txns /\ Free \in Int /\ Own \in Int
  BY OwnerAt, TxnAt DEF Free, Own
<1>2. owner' = [owner EXCEPT ![p] = [owner[p] EXCEPT !.state = "closing"]]
  BY DEF StartShutdown
<1>3. OwnerIs([owner[p] EXCEPT !.state = "closing"], "closing", owner[p].txid, owner[p].res,
          owner[p].gate, owner[p].lock, owner[p].poisoned)
  BY <1>1, OwnerRecs DEF States
<1>4. OwnerTo(p, "closing", owner[p].txid, owner[p].res, owner[p].gate, owner[p].lock,
          owner[p].poisoned)
  BY <1>2, <1>3, OwnerChange
<1>5. LinksHung(p, {})
  BY HangUpAllIs DEF StartShutdown, LinksHung, Types, Made
<1> QED BY <1>4, <1>5 DEF StartShutdown

\* The owner gave up presence and its role; its own writer's role is stale.
LEMMA FinishShutdownEffect ==
    ASSUME Types, NEW p \in Procs, FinishShutdown(p)
    PROVE  /\ owner[p].state = "closing" /\ presence' = NoProc
           /\ \A c \in Made : link[c].owner = p => link[c].srv = "gone"
           /\ OwnerTo(p, "none", 0, {}, Free, 0, FALSE) /\ owner'[p] = NotOwner
           /\ TxnTo(p, IF txn[p].pc = "own" THEN "stale" ELSE txn[p].pc, txn[p].id, txn[p].base)
           /\ UNCHANGED <<file, conn, link, outcome>>
<1>1. owner[p] \in Owners /\ txn[p] \in Txns /\ Free \in Int /\ Own \in Int
  BY OwnerAt, TxnAt DEF Free, Own
<1>2. OwnerIs(NotOwner, "none", 0, {}, Free, 0, FALSE)
  BY Constants DEF OwnerIs, NotOwner
<1>3. owner' = [owner EXCEPT ![p] = NotOwner]
  BY DEF FinishShutdown
<1>4. OwnerTo(p, "none", 0, {}, Free, 0, FALSE) /\ owner'[p] = NotOwner
  BY <1>2, <1>3, OwnerChange DEF Types
<1>5. txn' = [txn EXCEPT ![p] = [txn[p] EXCEPT !.pc = IF txn[p].pc = "own" THEN "stale"
          ELSE txn[p].pc]]
  BY DEF FinishShutdown
<1>6. TxnIs([txn[p] EXCEPT !.pc = IF txn[p].pc = "own" THEN "stale" ELSE txn[p].pc],
            IF txn[p].pc = "own" THEN "stale" ELSE txn[p].pc, txn[p].id, txn[p].base)
  BY <1>1 DEF TxnIs, Txns, Pcs
<1>7. TxnTo(p, IF txn[p].pc = "own" THEN "stale" ELSE txn[p].pc, txn[p].id, txn[p].base)
  BY <1>5, <1>6, TxnChange
<1> QED BY <1>4, <1>7 DEF FinishShutdown

\* A crash takes the process's locks, role, transaction and ends of
\* connections.
LEMMA CrashEffect ==
    ASSUME Types, NEW p \in Procs, Crash(p)
    PROVE  /\ Owns(p) \/ conn[p] # 0
           /\ presence' = IF presence = p THEN NoProc ELSE presence
           /\ OwnerTo(p, "none", 0, {}, Free, 0, FALSE) /\ owner'[p] = NotOwner
           /\ ConnTo(p, 0)
           /\ TxnTo(p, "idle", 0, 0)
           /\ LinksLost(p)
           /\ UNCHANGED <<file, outcome>>
<1>1. owner[p] \in Owners /\ txn[p] \in Txns /\ Free \in Int /\ Own \in Int
  BY OwnerAt, TxnAt DEF Free, Own
<1>2. OwnerIs(NotOwner, "none", 0, {}, Free, 0, FALSE)
  BY Constants DEF OwnerIs, NotOwner
<1>3. owner' = [owner EXCEPT ![p] = NotOwner]
  BY DEF Crash
<1>4. OwnerTo(p, "none", 0, {}, Free, 0, FALSE) /\ owner'[p] = NotOwner
  BY <1>2, <1>3, OwnerChange DEF Types
<1>5. TxnIs(NoTxn, "idle", 0, 0)
  BY Constants DEF NoTxn, TxnIs
<1>6. txn' = [txn EXCEPT ![p] = NoTxn]
  BY DEF Crash
<1>7. TxnTo(p, "idle", 0, 0)
  BY <1>5, <1>6, TxnChange
<1>8. ConnTo(p, 0)
  BY DEF Crash, ConnTo, Types
<1>9. LinksLost(p)
  <2> DEFINE new(d) == IF link[d].owner = p THEN Gone(link[d])
                       ELSE IF link[d].client = p THEN [link[d] EXCEPT !.up = FALSE] ELSE link[d]
  <2>1. link' = [d \in Made |-> new(d)]
    BY DEF Crash
  <2>2. ASSUME NEW d \in Made
        PROVE  /\ new(d) \in Links
               /\ link[d].owner = p
                    => LinkIs(link[d], new(d), "gone", 0, 0, FALSE, link[d].up, TRUE)
               /\ link[d].owner # p
                    => LinkIs(link[d], new(d), link[d].srv, link[d].base, link[d].id,
                        link[d].sent,
                              link[d].up /\ link[d].client # p, link[d].hung)
    <3>1. link[d] \in Links
      BY LinkAt
    <3>2. CASE link[d].owner = p
      <4>1. LinkIs(link[d], Gone(link[d]), "gone", 0, 0, FALSE, link[d].up, TRUE)
                /\ new(d) = Gone(link[d])
        BY <3>1, <3>2, LinkRecs
      <4>2. Gone(link[d]) \in Links
        BY <4>1 DEF LinkIs
      <4> HIDE DEF new
      <4> QED BY <3>2, <4>1, <4>2
    <3>3. CASE link[d].owner # p /\ link[d].client = p
      <4> DEFINE k == [link[d] EXCEPT !.up = FALSE]
      <4>1. new(d) = k
        BY <3>3
      <4>2. LinkIs(link[d], k, link[d].srv, link[d].base, link[d].id, link[d].sent, FALSE,
                link[d].hung)
        BY <3>1, LinkRecs
      <4>3. k \in Links
        BY <4>2 DEF LinkIs
      <4> HIDE DEF new, k
      <4>4. LinkIs(link[d], k, link[d].srv, link[d].base, link[d].id, link[d].sent,
                   link[d].up /\ link[d].client # p, link[d].hung)
        BY <3>3, <4>2 DEF LinkIs
      <4> QED BY <3>3, <4>1, <4>3, <4>4
    <3>4. CASE link[d].owner # p /\ link[d].client # p
      <4>1. new(d) = link[d]
        BY <3>4
      <4> HIDE DEF new
      <4>2. LinkIs(link[d], link[d], link[d].srv, link[d].base, link[d].id, link[d].sent,
                   link[d].up /\ link[d].client # p, link[d].hung)
        BY <3>1, <3>4 DEF LinkIs
      <4> QED BY <3>1, <3>4, <4>1, <4>2
    <3> QED BY <3>2, <3>3, <3>4
  <2> HIDE DEF new
  <2>3. link' \in [Made -> Links] /\ \A d \in Made : link'[d] = new(d)
    BY <2>1, <2>2
  <2>4. link' \in Seq(Links) /\ Made' = Made
    BY <2>3, LinkMap DEF Types
  <2> QED BY <2>2, <2>3, <2>4 DEF LinksLost
<1> QED BY <1>4, <1>7, <1>8, <1>9 DEF Crash, Between

\* begin_service_write: the owner's writer holds the gate, on the published
\* version.
LEMMA OwnBeginEffect ==
    ASSUME Types, NEW p \in Procs, OwnBegin(p)
    PROVE  /\ Owns(p) /\ txn[p].pc = "idle" /\ owner[p].gate = Free
           /\ OwnerTo(p, owner[p].state, owner[p].txid, owner[p].res, Own, owner[p].lock,
               owner[p].poisoned)
           /\ TxnTo(p, "own", 0, owner[p].txid)
           /\ UNCHANGED <<file, presence, conn, link, outcome>>
<1>1. owner[p] \in Owners /\ txn[p] \in Txns /\ Free \in Int /\ Own \in Int
  BY OwnerAt, TxnAt DEF Free, Own
<1>2. owner' = [owner EXCEPT ![p] = [owner[p] EXCEPT !.gate = Own]]
  BY DEF OwnBegin
<1>3. OwnerIs([owner[p] EXCEPT !.gate = Own], owner[p].state, owner[p].txid, owner[p].res, Own,
          owner[p].lock, owner[p].poisoned)
  BY <1>1, OwnerRecs
<1>4. OwnerTo(p, owner[p].state, owner[p].txid, owner[p].res, Own, owner[p].lock,
          owner[p].poisoned)
  BY <1>2, <1>3, OwnerChange
<1>5. txn' = [txn EXCEPT ![p] = [pc |-> "own", id |-> 0, base |-> owner[p].txid]]
  BY DEF OwnBegin
<1>6. TxnIs([pc |-> "own", id |-> 0, base |-> owner[p].txid], "own", 0, owner[p].txid)
  BY OwnerAt, PageServiceAssumption DEF TxnIs, Txns, Pcs
<1>7. TxnTo(p, "own", 0, owner[p].txid)
  BY <1>5, <1>6, TxnChange
<1> QED BY <1>4, <1>7 DEF OwnBegin

\* A rollback frees the gate, if the role was still current.
LEMMA OwnRollbackEffect ==
    ASSUME Types, NEW p \in Procs, OwnRollback(p)
    PROVE  /\ txn[p].pc \in {"own", "stale"}
           /\ OwnerTo(p, owner[p].state, owner[p].txid, owner[p].res, IF txn[p].pc = "own"
               THEN Free ELSE owner[p].gate, owner[p].lock, owner[p].poisoned)
           /\ TxnTo(p, "idle", 0, 0)
           /\ UNCHANGED <<file, presence, conn, link, outcome>>
<1>1. owner[p] \in Owners /\ txn[p] \in Txns /\ Free \in Int /\ Own \in Int
  BY OwnerAt, TxnAt DEF Free, Own
<1>2. ASSUME txn[p].pc = "own" PROVE OwnerTo(p, owner[p].state, owner[p].txid, owner[p].res,
          IF txn[p].pc = "own" THEN Free ELSE owner[p].gate, owner[p].lock, owner[p].poisoned)
  <2>1. owner' = [owner EXCEPT ![p] = [owner[p] EXCEPT !.gate = Free]]
    BY <1>2 DEF OwnRollback
  <2>2. OwnerIs([owner[p] EXCEPT !.gate = Free], owner[p].state, owner[p].txid, owner[p].res,
            Free, owner[p].lock, owner[p].poisoned)
    BY <1>1, OwnerRecs
  <2>3. OwnerTo(p, owner[p].state, owner[p].txid, owner[p].res, Free, owner[p].lock,
            owner[p].poisoned)
    BY <2>1, <2>2, OwnerChange
  <2> QED BY <1>2, <2>3
<1>3. ASSUME txn[p].pc # "own" PROVE OwnerTo(p, owner[p].state, owner[p].txid, owner[p].res,
          IF txn[p].pc = "own" THEN Free ELSE owner[p].gate, owner[p].lock, owner[p].poisoned)
  <2>1. owner' = owner /\ owner \in [Procs -> Owners]
    BY <1>3 DEF OwnRollback, Types
  <2> QED BY <1>1, <1>3, <2>1, OwnerRecs DEF OwnerTo
<1>4. TxnIs(NoTxn, "idle", 0, 0)
  BY Constants DEF NoTxn, TxnIs
<1>5. txn' = [txn EXCEPT ![p] = NoTxn]
  BY DEF OwnRollback
<1>6. TxnTo(p, "idle", 0, 0)
  BY <1>4, <1>5, TxnChange
<1> QED BY <1>2, <1>3, <1>6 DEF OwnRollback

\* persist: the commit is written and published, refused, or fails and poisons
\* the pager, landed or not.
LEMMA OwnCommitEffect ==
    ASSUME Types, NEW p \in Procs, OwnCommit(p)
    PROVE  /\ txn[p].pc = "own" /\ Len(outcome) < MaxIds /\ txn[p].base + 1 <= MaxTxid
           /\ \/ /\ ~owner[p].poisoned /\ file' = Write(txn[p].base + 1, Len(outcome) + 1)
                     /\ outcome' = Append(outcome, "committed")
                 /\ OwnerTo(p, owner[p].state, txn[p].base + 1, Kept(owner[p].res,
                     txn[p].base + 1, Len(outcome) + 1), Free, owner[p].lock, owner[p].poisoned)
              \/ /\ owner[p].poisoned /\ file' = file /\ outcome' = Append(outcome, "failed")
                 /\ OwnerTo(p, owner[p].state, owner[p].txid, owner[p].res, Free, owner[p].lock,
                     owner[p].poisoned)
              \/ /\ ~owner[p].poisoned /\ file' \in {file, Write(txn[p].base + 1,
                     Len(outcome) + 1)}
                 /\ outcome' = Append(outcome, "unknown")
                 /\ OwnerTo(p, owner[p].state, owner[p].txid, owner[p].res, Free, owner[p].lock,
                     TRUE)
           /\ TxnTo(p, "idle", 0, 0)
           /\ UNCHANGED <<presence, conn, link>>
<1>1. owner[p] \in Owners /\ txn[p] \in Txns /\ Free \in Int /\ Own \in Int
  BY OwnerAt, TxnAt DEF Free, Own
<1>2. OwnerIs([owner[p] EXCEPT !.gate = Free], owner[p].state, owner[p].txid, owner[p].res, Free,
          owner[p].lock, owner[p].poisoned)
  BY <1>1, OwnerRecs
<1>3. ASSUME txn[p].base + 1 <= MaxTxid, Len(outcome) < MaxIds,
             owner' = [owner EXCEPT ![p] = Published([owner[p] EXCEPT !.gate = Free],
                 txn[p].base + 1, Len(outcome) + 1)]
      PROVE  OwnerTo(p, owner[p].state, txn[p].base + 1, Kept(owner[p].res, txn[p].base + 1,
          Len(outcome) + 1), Free, owner[p].lock, owner[p].poisoned)
  <2>1. txn[p].base + 1 \in 1 .. MaxTxid /\ Len(outcome) + 1 \in 0 .. MaxIds
    BY <1>3, TxnAt, PageServiceAssumption DEF Types
  <2>2. OwnerIs(Published([owner[p] EXCEPT !.gate = Free], txn[p].base + 1, Len(outcome) + 1),
            owner[p].state, txn[p].base + 1, Kept(owner[p].res, txn[p].base + 1,
                Len(outcome) + 1), Free, owner[p].lock, owner[p].poisoned)
    BY <1>2, <2>1, PublishedIs
  <2> QED BY <1>3, <2>2, OwnerChange
<1>4. ASSUME owner' = [owner EXCEPT ![p] = [owner[p] EXCEPT !.gate = Free]]
      PROVE  OwnerTo(p, owner[p].state, owner[p].txid, owner[p].res, Free, owner[p].lock,
          owner[p].poisoned)
  BY <1>2, <1>4, OwnerChange
<1>5. ASSUME owner' = [owner EXCEPT ![p] = [owner[p] EXCEPT !.gate = Free, !.poisoned = TRUE]]
      PROVE  OwnerTo(p, owner[p].state, owner[p].txid, owner[p].res, Free, owner[p].lock, TRUE)
  <2>1. [owner[p] EXCEPT !.gate = Free, !.poisoned = TRUE] \in Owners
    BY <1>1, OwnerFields
  <2>2. OwnerIs([owner[p] EXCEPT !.gate = Free, !.poisoned = TRUE], owner[p].state,
            owner[p].txid, owner[p].res, Free, owner[p].lock, TRUE)
    BY <1>1, <2>1 DEF OwnerIs, Owners
  <2> QED BY <1>5, <2>2, OwnerChange
<1>6. TxnIs(NoTxn, "idle", 0, 0)
  BY Constants DEF NoTxn, TxnIs
<1>7. txn' = [txn EXCEPT ![p] = NoTxn]
  BY DEF OwnCommit
<1>8. TxnTo(p, "idle", 0, 0)
  BY <1>6, <1>7, TxnChange
<1> QED BY <1>3, <1>4, <1>5, <1>8 DEF OwnCommit

\* persist under a replaced role fails.
LEMMA OwnStaleEffect ==
    ASSUME Types, NEW p \in Procs, OwnStale(p)
    PROVE  /\ txn[p].pc = "stale" /\ Len(outcome) < MaxIds /\ outcome' = Append(outcome, "failed")
           /\ TxnTo(p, "idle", 0, 0)
           /\ UNCHANGED <<file, presence, owner, conn, link>>
<1>1. TxnIs(NoTxn, "idle", 0, 0)
  BY Constants DEF NoTxn, TxnIs
<1>2. txn' = [txn EXCEPT ![p] = NoTxn]
  BY DEF OwnStale
<1>3. TxnTo(p, "idle", 0, 0)
  BY <1>1, <1>2, TxnChange
<1> QED BY <1>3 DEF OwnStale

\* resolve_lost_commit sends commit_status.
LEMMA AskEffect ==
    ASSUME Types, NEW p \in Procs, Ask(p)
    PROVE  /\ txn[p].pc = "lost" /\ conn[p] # 0
           /\ TxnTo(p, "asking", txn[p].id, txn[p].base)
           /\ UNCHANGED <<file, presence, owner, conn, link, outcome>>
<1>1. TxnIs([txn[p] EXCEPT !.pc = "asking"], "asking", txn[p].id, txn[p].base)
  BY TxnAt DEF TxnIs, Txns, Pcs
<1>2. txn' = [txn EXCEPT ![p] = [txn[p] EXCEPT !.pc = "asking"]]
  BY DEF Ask
<1>3. TxnTo(p, "asking", txn[p].id, txn[p].base)
  BY <1>1, <1>2, TxnChange
<1> QED BY <1>3 DEF Ask

\* reelect connects to a serving owner.
LEMMA ReconnectEffect ==
    ASSUME Types, NEW p \in Procs, NEW q \in Procs, Reconnect(p, q)
    PROVE  /\ ~Owns(p) /\ conn[p] = 0 /\ owner[q].state = "serving"
           /\ LinkMade(p, q)
           /\ ConnTo(p, Len(link) + 1)
           /\ UNCHANGED <<file, presence, owner, txn, outcome>>
<1> DEFINE k == [client |-> p, owner |-> q, srv |-> "idle", base |-> 0, id |-> 0,
                  sent |-> FALSE, up |-> TRUE, hung |-> FALSE]
<1>1. link \in Seq(Links) /\ link' = Append(link, k) /\ Len(link) \in Nat
  BY DEF Reconnect, Types
<1>2. k \in Links
  <2>1. TRUE \in BOOLEAN /\ FALSE \in BOOLEAN
    OBVIOUS
  <2>2. 0 \in 0 .. MaxTxid /\ 0 \in 0 .. MaxIds /\ "idle" \in Srvs
    BY PageServiceAssumption DEF Srvs
  <2> QED BY <2>1, <2>2 DEF Links
<1> HIDE DEF k
<1>3. /\ link' \in Seq(Links) /\ Len(link') = Len(link) + 1 /\ link'[Len(link) + 1] = k
      /\ \A d \in 1 .. Len(link) : link'[d] = link[d]
  BY <1>1, <1>2
<1>4. Made' = Made \cup {Len(link) + 1}
  BY <1>1, <1>3 DEF Made
<1>5. LinkMade(p, q)
  BY <1>2, <1>3, <1>4 DEF LinkMade, Made, k
<1>6. conn' = [conn EXCEPT ![p] = Len(link) + 1] /\ conn \in [Procs -> Nat]
  BY DEF Reconnect, Types
<1>7. ConnTo(p, Len(link) + 1)
  BY <1>1, <1>6 DEF ConnTo
<1> QED BY <1>5, <1>7 DEF Reconnect, Between

\* The thread of c met a failure that poisons its owner's pager.
FailsTo(c) ==
    /\ LinkTo(c, "failing", link[c].base, link[c].id, link[c].sent, link[c].up, link[c].hung)
    /\ OwnerTo(link[c].owner, owner[link[c].owner].state, owner[link[c].owner].txid,
               owner[link[c].owner].res, owner[link[c].owner].gate, owner[link[c].owner].lock,
               TRUE)

\* Its record and its owner's record replaced are such a step.
LEMMA FailsChange ==
    ASSUME Types, NEW c \in Made, link' = [link EXCEPT ![c].srv = "failing"],
           owner' = [owner EXCEPT ![link[c].owner].poisoned = TRUE]
    PROVE  FailsTo(c)
<1>1. /\ link[c] \in Links /\ link[c].owner \in Procs /\ owner[link[c].owner] \in Owners
  BY LinkAt, OwnerAt
<1>2. LinkIs(link[c], [link[c] EXCEPT !.srv = "failing"], "failing", link[c].base, link[c].id,
          link[c].sent, link[c].up, link[c].hung)
  BY <1>1, LinkRecs DEF Srvs
<1>3. LinkTo(c, "failing", link[c].base, link[c].id, link[c].sent, link[c].up, link[c].hung)
  BY <1>2, LinkChange
<1>4. OwnerIs([owner[link[c].owner] EXCEPT !.poisoned = TRUE], owner[link[c].owner].state,
          owner[link[c].owner].txid, owner[link[c].owner].res, owner[link[c].owner].gate,
              owner[link[c].owner].lock, TRUE)
  <2>1. [owner[link[c].owner] EXCEPT !.poisoned = TRUE] \in Owners
    BY <1>1, OwnerFields
  <2> QED BY <1>1, <2>1 DEF OwnerIs, Owners
<1>5. owner' = [owner EXCEPT ![link[c].owner] = [owner[link[c].owner] EXCEPT !.poisoned = TRUE]]
  OBVIOUS
<1>6. OwnerTo(link[c].owner, owner[link[c].owner].state, owner[link[c].owner].txid,
               owner[link[c].owner].res, owner[link[c].owner].gate, owner[link[c].owner].lock,
               TRUE)
  BY <1>1, <1>4, <1>5, OwnerChange
<1> QED BY <1>3, <1>6 DEF FailsTo

\* A failed commit poisons the pager; it may have landed.
LEMMA CommitDeltaFailsEffect ==
    ASSUME Types, NEW c \in Made, CommitDeltaFails(c)
    PROVE  /\ link[c].client \in Procs /\ link[c].owner \in Procs
           /\ link[c].srv = "finishing" /\ owner[link[c].owner].lock = 0
           /\ \/ file' = file
              \/ ~owner[link[c].owner].poisoned /\ file' = Write(link[c].base + 1, link[c].id)
           /\ UNCHANGED <<presence, conn, txn, outcome>>
           /\ FailsTo(c)
<1>1. FailsTo(c)
  BY FailsChange DEF CommitDeltaFails
<1> QED BY <1>1, LinkAt DEF CommitDeltaFails

\* A failed cap flush or maintenance commit poisons the pager; the latter may
\* have landed.
LEMMA ReleaseFailsEffect ==
    ASSUME Types, NEW c \in Made, ReleaseFails(c)
    PROVE  /\ link[c].client \in Procs /\ link[c].owner \in Procs
           /\ link[c].srv = "acked"
           /\ \/ file' = file
              \/ /\ ~owner[link[c].owner].poisoned /\ owner[link[c].owner].txid + 1 <= MaxTxid
                 /\ file' = Write(owner[link[c].owner].txid + 1, Maintenance)
           /\ UNCHANGED <<presence, conn, txn, outcome>>
           /\ FailsTo(c)
<1>1. FailsTo(c)
  BY FailsChange DEF ReleaseFails
<1> QED BY <1>1, LinkAt DEF ReleaseFails

\* stop_serving hangs up on every connection and frees the gate.
LEMMA StopServingEffect ==
    ASSUME Types, NEW c \in Made, StopServing(c)
    PROVE  /\ link[c].client \in Procs /\ link[c].owner \in Procs
           /\ link[c].srv = "failing"
           /\ LinksHung(link[c].owner, {c})
           /\ OwnerTo(link[c].owner, IF owner[link[c].owner].state = "serving" THEN "stopped"
               ELSE owner[link[c].owner].state, owner[link[c].owner].txid,
                   owner[link[c].owner].res, Free, owner[link[c].owner].lock,
                       owner[link[c].owner].poisoned)
           /\ UNCHANGED <<file, presence, conn, txn, outcome>>
<1>1. /\ link[c] \in Links /\ link[c].client \in Procs /\ link[c].owner \in Procs
      /\ owner[link[c].owner] \in Owners /\ Free \in Int /\ owner[link[c].owner].state \in States
  BY LinkAt, OwnerAt DEF Free
<1> DEFINE o == owner[link[c].owner]
           l == [link EXCEPT ![c] = [link[c] EXCEPT !.srv = "idle"]]
<1>2. owner' = [owner EXCEPT ![link[c].owner] = [o EXCEPT !.gate = Free,
                                               !.state = IF o.state = "serving" THEN "stopped"
                                                   ELSE o.state]]
  BY DEF StopServing
<1>3. OwnerIs([o EXCEPT !.gate = Free,
                        !.state = IF o.state = "serving" THEN "stopped" ELSE o.state],
                            IF owner[link[c].owner].state = "serving" THEN "stopped"
                                ELSE owner[link[c].owner].state, owner[link[c].owner].txid,
                                    owner[link[c].owner].res, Free, owner[link[c].owner].lock,
                                        owner[link[c].owner].poisoned)
  <2>1. [o EXCEPT !.gate = Free] \in Owners
    BY <1>1, OwnerFields
  <2>2. (IF o.state = "serving" THEN "stopped" ELSE o.state) \in States
    BY <1>1 DEF States
  <2>3. [o EXCEPT !.gate = Free,
                  !.state = IF o.state = "serving" THEN "stopped" ELSE o.state] \in Owners
    BY <2>1, <2>2, OwnerFields
  <2> QED BY <1>1, <2>3 DEF OwnerIs, Owners
<1>4. OwnerTo(link[c].owner, IF owner[link[c].owner].state = "serving" THEN "stopped"
          ELSE owner[link[c].owner].state, owner[link[c].owner].txid, owner[link[c].owner].res,
              Free, owner[link[c].owner].lock,
                       owner[link[c].owner].poisoned)
  BY <1>1, <1>2, <1>3, OwnerChange
<1>5. LinkIs(link[c], [link[c] EXCEPT !.srv = "idle"], "idle", link[c].base, link[c].id,
          link[c].sent, link[c].up, link[c].hung)
  BY <1>1, LinkRecs DEF Srvs
<1>6. link' = HangUpAll(link[c].owner, l)
  BY DEF StopServing
<1>7. link \in Seq(Links) /\ [link[c] EXCEPT !.srv = "idle"] \in Links
  BY <1>5 DEF Types, LinkIs
<1>8. l \in Seq(Links) /\ Len(l) = Len(link) /\ \A d \in Made : l[d] = IF d = c
          THEN [link[c] EXCEPT !.srv = "idle"] ELSE link[d]
  BY <1>7 DEF Made
<1> HIDE DEF l
<1>9. /\ link' \in Seq(Links) /\ Made' = Made
      /\ \A d \in Made :
          LinkIs(l[d], link'[d], l[d].srv, l[d].base, l[d].id, l[d].sent, l[d].up,
                 l[d].owner = link[c].owner \/ l[d].hung)
  BY <1>1, <1>6, <1>8, HangUpAllIs DEF Made
<1>10. LinksHung(link[c].owner, {c})
  <2> SUFFICES ASSUME NEW d \in Made
               PROVE  LinkIs(link[d], link'[d], IF d \in {c} THEN "idle" ELSE link[d].srv,
                   link[d].base,
                             link[d].id, link[d].sent, link[d].up,
                             link[d].owner = link[c].owner \/ link[d].hung)
    BY <1>9 DEF LinksHung
  <2>1. CASE d = c
    <3> DEFINE k == [link[c] EXCEPT !.srv = "idle"]
    <3>1. l[d] = k
      BY <1>8, <2>1
    <3>2. LinkIs(k, link'[c], k.srv, k.base, k.id, k.sent, k.up,
                 k.owner = link[c].owner \/ k.hung)
      BY <1>9, <2>1, <3>1
    <3>3. LinkIs(link[c], k, "idle", link[c].base, link[c].id, link[c].sent, link[c].up,
              link[c].hung)
      BY <1>5
    <3> HIDE DEF k
    <3>4. LinkIs(link[c], link'[c], "idle", link[c].base, link[c].id, link[c].sent, link[c].up,
              TRUE)
      BY <3>2, <3>3 DEF LinkIs
    <3> QED BY <2>1, <3>4
  <2>2. CASE d # c
    <3>1. l[d] = link[d]
      BY <1>8, <2>2
    <3> QED BY <1>9, <2>2, <3>1
  <2> QED BY <2>1, <2>2
<1> QED BY <1>1, <1>4, <1>10 DEF StopServing

\* An application is told: its transaction ends and the outcome of its commit
\* is what it was told.
LEMMA TellEffect ==
    ASSUME Types, NEW p \in Procs, NEW what \in Outcomes, Tell(p, what)
    PROVE  /\ TxnTo(p, "idle", 0, 0)
           /\ outcome' \in Seq(Outcomes) /\ Len(outcome') = Len(outcome)
           /\ \A i \in 1 .. Len(outcome) : outcome'[i] = IF i = txn[p].id THEN what
               ELSE outcome[i]
<1>1. TxnIs(NoTxn, "idle", 0, 0)
  BY Constants DEF NoTxn, TxnIs
<1>2. txn' = [txn EXCEPT ![p] = NoTxn]
  BY DEF Tell
<1>3. TxnTo(p, "idle", 0, 0)
  BY <1>1, <1>2, TxnChange
<1>4. outcome \in [1 .. Len(outcome) -> Outcomes] /\ Len(outcome) \in Nat
  BY DEF Types
<1>5. outcome' = [outcome EXCEPT ![txn[p].id] = what]
  BY DEF Tell
<1>6. outcome' \in [1 .. Len(outcome) -> Outcomes]
  BY <1>4, <1>5
<1> QED BY <1>3, <1>4, <1>5, <1>6
=============================================================================
