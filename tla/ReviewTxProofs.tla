--------------------------- MODULE ReviewTxProofs ---------------------------
(***************************************************************************)
(* ReviewTx implements Lifecycle: what the row locks protect, step by      *)
(* step, for any number of concurrent requests, rows and accounts; and     *)
(* which requests can block each other for good.                           *)
(***************************************************************************)
EXTENDS ReviewTx, TLAPS

\* Lifecycle once more, with the theorems about it.
LP == INSTANCE LifecycleProofs

-----------------------------------------------------------------------------
(* The invariant *)

Approving(t) == tx[t].op \in {"approve_renewal", "approve_deletion"}
Creating(t) == tx[t].op \in {"create_renewal", "create_deletion"}

\* The rows a transaction has locked: its own, the certificate it is about, and
\* the requests of the other workflow that it closes.
Held(t) ==
  IF tx[t].step \in {"idle", "lock"} THEN {}
  ELSE {tx[t].row}
       \cup (IF Approving(t) /\ tx[t].step \in {"close", "commit"} THEN {CertOf(t)} ELSE {})
       \cup (IF Approving(t) /\ tx[t].step = "commit" THEN OtherOpen(t) ELSE {})

\* Row locks are those of the transactions in progress.
LocksAreHeld == \A t \in Txs, row \in Rows : lock[row] = t <=> row \in Held(t)

\* What an approval writes, and logs, of the certificate, its replacement and
\* the request.
Decided(t, w, l) ==
  \/ /\ tx[t].op = "approve_renewal"
     /\ \E new \in CertIds :
          ~Exists(new) /\ w = RotationWrites(t, new) /\ l = RotationLog(t, new)
  \/ tx[t].op = "approve_deletion" /\ w = RemovalWrites(t) /\ l = RemovalLog(t)

\* The request that it opens, on a certificate without another one.
Opened(t) ==
  /\ Colliding(t) = {}
  /\ tx[t].log = Nothing
  /\ \/ /\ tx[t].op = "create_renewal"
        /\ \E r \in RenewalIds, p \in Periods :
             ~Exists(r) /\ tx[t].writes = Only(r, NewRenewal(t, p))
     \/ /\ tx[t].op = "create_deletion"
        /\ \E d \in DeletionIds, reason \in Reasons :
             ~Exists(d) /\ tx[t].writes = Only(d, NewDeletion(t, reason))

Blank(t) == tx[t].writes = Nothing /\ tx[t].log = Nothing

\* What it has written so far, step by step.
Written(t) ==
  /\ tx[t].step = "lock" => Blank(t)
  /\ tx[t].step = "insert" => Creating(t) /\ Blank(t)
  /\ tx[t].step = "cert" => Approving(t) /\ Blank(t)
  /\ tx[t].step = "close" =>
       Approving(t) /\ L!IsLive(CertOf(t)) /\ Decided(t, tx[t].writes, tx[t].log)
  /\ tx[t].step = "commit" =>
       /\ Creating(t) => Opened(t)
       /\ Approving(t) => /\ L!IsLive(CertOf(t))
                          /\ \E w : tx[t].writes = AndClosed(t, w) /\ Decided(t, w, tx[t].log)
       /\ ~Creating(t) /\ ~Approving(t) =>
            tx[t].writes \in OwnWrites(t) /\ tx[t].log = OwnLog(t)

\* A transaction in progress: it is about an existing row, which after the first
\* statement still passes the checks, and has written what it should have.
InOrder(t) ==
  /\ Exists(tx[t].row) /\ tx[t].op \in OpsOn(tx[t].row)
  /\ tx[t].op = "restore" => tx[t].actor \in Admins
  /\ tx[t].step # "lock" => Admissible(t)
  /\ Written(t)

\* No two transactions write the same row.
WritesAreApart ==
  \A t, x \in Txs : t # x /\ tx[t] # Idle /\ tx[x] # Idle
                      => DOMAIN tx[t].writes \cap DOMAIN tx[x].writes = {}

IInv ==
  /\ TypeOK
  /\ L!IInv
  /\ LocksAreHeld
  /\ WritesAreApart
  /\ \A t \in Txs : tx[t] # Idle => InOrder(t)

-----------------------------------------------------------------------------
(* Maps of rows *)

\* A map of one row,
LEMMA Single == ASSUME NEW a, NEW b PROVE DOMAIN Only(a, b) = {a} /\ Only(a, b)[a] = b
BY DEF Only

\* and the empty one.
LEMMA Empty == DOMAIN Nothing = {}
BY DEF Nothing

-----------------------------------------------------------------------------
(* Transactions in progress *)

\* Ids tell their table.
LEMMA Tables ==
  ASSUME NEW id \in Rows
  PROVE  /\ id \in CertIds => id \notin RenewalIds /\ id \notin DeletionIds
         /\ id \in RenewalIds => id \notin CertIds /\ id \notin DeletionIds
         /\ id \in DeletionIds => id \notin CertIds /\ id \notin RenewalIds
         /\ id \notin CertIds => id \in RenewalIds \/ id \in DeletionIds
BY IdsAssumption DEF Rows

\* What a transaction in progress consists of.
LEMMA Parts ==
  ASSUME TypeOK, NEW t \in Txs, tx[t] # Idle
  PROVE  /\ tx[t].op \in CertOps \cup RenewalOps \cup DeletionOps
         /\ tx[t].actor \in Users /\ tx[t].row \in Rows
         /\ tx[t].step \in {"lock", "insert", "cert", "close", "commit"}
         /\ \A id \in DOMAIN tx[t].writes :
              id \in Rows /\ tx[t].writes[id] \in RowsOf(id)
         /\ \A c \in DOMAIN tx[t].log : c \in CertIds /\ tx[t].log[c] \in L!TrailRow
BY DEF TypeOK, Progress

\* A transaction that has taken a step is in progress.
LEMMA NotIdle ==
  ASSUME NEW w, NEW l, NEW p \in Progress(w, l)
  PROVE  p # Idle /\ p.writes = w /\ p.log = l /\ p.step # "idle"
BY DEF Progress, Idle

LEMMA InProgress == ASSUME TypeOK, NEW t \in Txs PROVE tx[t] = Idle <=> tx[t].step = "idle"
BY NotIdle DEF TypeOK, Idle

\* A step of a transaction changes its step and what it has written.
Moved(p, s, w, l) == [p EXCEPT !.step = s, !.writes = w, !.log = l]

LEMMA Stepped ==
  ASSUME NEW p, p \in Progress(p.writes, p.log),
         NEW s \in {"lock", "insert", "cert", "close", "commit"}, NEW w, NEW l
  PROVE  /\ Moved(p, s, w, l) \in Progress(w, l) /\ Moved(p, s, w, l) # Idle
         /\ Moved(p, s, w, l).op = p.op /\ Moved(p, s, w, l).actor = p.actor
         /\ Moved(p, s, w, l).row = p.row /\ Moved(p, s, w, l).step = s
         /\ Moved(p, s, w, l).writes = w /\ Moved(p, s, w, l).log = l
<1>1. Moved(p, s, w, l) \in Progress(w, l) BY DEF Progress, Moved
<1> QED BY <1>1, NotIdle DEF Progress, Moved

\* A request's row, of either workflow.
LEMMA Requests ==
  ASSUME L!TypeOK, NEW q \in RenewalIds \cup DeletionIds
  PROVE  /\ Exists(q) <=> RequestRow(q) # NoRow
         /\ Open(q) <=> Exists(q) /\ RequestRow(q).status = "pending_review"
         /\ q \in RenewalIds => RequestRow(q) = renewals[q] /\ q \notin CertIds
         /\ q \in DeletionIds => RequestRow(q) = deletions[q] /\ q \notin CertIds /\ q \notin RenewalIds
         /\ Exists(q) => RequestRow(q).cert \in CertIds
         /\ Exists(q) /\ q \in RenewalIds => renewals[q] \in L!RenewalRow
         /\ Exists(q) /\ q \in DeletionIds => deletions[q] \in L!DeletionRow
<1>1. q \notin CertIds /\ (q \in DeletionIds => q \notin RenewalIds) BY IdsAssumption
<1>2. /\ q \in RenewalIds => renewals[q] \in L!RenewalRow \cup {NoRow}
      /\ q \in DeletionIds => deletions[q] \in L!DeletionRow \cup {NoRow}
  BY DEF L!TypeOK
<1>3. /\ q \in RenewalIds /\ renewals[q] # NoRow => renewals[q].cert \in CertIds
      /\ q \in DeletionIds /\ deletions[q] # NoRow => deletions[q].cert \in CertIds
  BY <1>2 DEF L!RenewalRow, L!DeletionRow
<1> QED BY <1>1, <1>2, <1>3 DEF Exists, RequestRow, Open, L!RenewalOpen, L!DeletionOpen

\* A row in progress is about a certificate, which exists.
LEMMA AboutACert ==
  ASSUME TypeOK, L!ForeignKeys, NEW t \in Txs, tx[t] # Idle, Exists(tx[t].row)
  PROVE  /\ CertOf(t) \in CertIds /\ Exists(CertOf(t)) /\ certs[CertOf(t)] \in L!CertRow
         /\ tx[t].row \in CertIds => CertOf(t) = tx[t].row
         /\ tx[t].row \notin CertIds => CertOf(t) = RequestRow(tx[t].row).cert
<1>1. tx[t].row \in Rows BY Parts
<1>2. /\ tx[t].row \in CertIds => CertOf(t) = tx[t].row
      /\ tx[t].row \notin CertIds => CertOf(t) = RequestRow(tx[t].row).cert
  BY DEF CertOf
<1>3. CASE tx[t].row \in CertIds
  <2>1. CertOf(t) \in CertIds /\ Exists(CertOf(t)) BY <1>2, <1>3
  <2>2. certs[CertOf(t)] \in L!CertRow BY <2>1 DEF TypeOK, L!TypeOK, Exists, L!CertExists
  <2> QED BY <1>2, <2>1, <2>2
<1>4. CASE tx[t].row \notin CertIds
  <2>1. tx[t].row \in RenewalIds \cup DeletionIds BY <1>1, <1>4 DEF Rows
  <2>2. RequestRow(tx[t].row).cert \in CertIds /\ RequestRow(tx[t].row) # NoRow
    BY <2>1, Requests DEF TypeOK
  <2>3. L!CertExists(RequestRow(tx[t].row).cert)
    BY <2>1, <2>2 DEF RequestRow, L!ForeignKeys
  <2>4. CertOf(t) \in CertIds /\ Exists(CertOf(t)) BY <1>2, <1>4, <2>2, <2>3 DEF Exists
  <2>5. certs[CertOf(t)] \in L!CertRow BY <2>4 DEF TypeOK, L!TypeOK, Exists, L!CertExists
  <2> QED BY <1>2, <2>4, <2>5
<1> QED BY <1>3, <1>4

-----------------------------------------------------------------------------
(* What a transaction holds and has written *)

\* What the invariant says of one transaction.
LEMMA AtHand ==
  ASSUME IInv, NEW t \in Txs, tx[t] # Idle
  PROVE  /\ TypeOK /\ L!TypeOK /\ L!ForeignKeys /\ InOrder(t)
         /\ tx[t].op \in CertOps \cup RenewalOps \cup DeletionOps
         /\ tx[t].actor \in Users /\ tx[t].row \in Rows
         /\ tx[t].step \in {"lock", "insert", "cert", "close", "commit"}
         /\ \A id \in DOMAIN tx[t].writes :
              id \in Rows /\ tx[t].writes[id] \in RowsOf(id)
         /\ Exists(tx[t].row) /\ tx[t].op \in OpsOn(tx[t].row)
         /\ CertOf(t) \in CertIds /\ Exists(CertOf(t)) /\ certs[CertOf(t)] \in L!CertRow
         /\ tx[t].row \in CertIds => CertOf(t) = tx[t].row
         /\ tx[t].row \notin CertIds => CertOf(t) = RequestRow(tx[t].row).cert
<1>1. TypeOK /\ L!TypeOK /\ L!ForeignKeys /\ InOrder(t) BY DEF IInv, TypeOK, L!IInv
<1>2. Exists(tx[t].row) /\ tx[t].op \in OpsOn(tx[t].row) BY <1>1 DEF InOrder
<1> QED BY <1>1, <1>2, Parts, AboutACert

\* The operation tells the table of the row.
LEMMA OpTable ==
  ASSUME NEW op, NEW row \in Rows, op \in OpsOn(row)
  PROVE  /\ op \in {"update", "transfer", "restore", "create_renewal", "create_deletion"}
              => row \in CertIds
         /\ op \in {"approve_renewal", "reject_renewal", "withdraw_renewal"}
              => row \in RenewalIds
         /\ op \in {"approve_deletion", "reject_deletion", "withdraw_deletion"}
              => row \in DeletionIds
<1>1. CASE row \in CertIds BY <1>1 DEF OpsOn, CertOps
<1>2. CASE row \in RenewalIds
  <2>1. row \notin CertIds BY <1>2, Tables
  <2> QED BY <1>2, <2>1 DEF OpsOn, RenewalOps
<1>3. CASE row \in DeletionIds
  <2>1. row \notin CertIds /\ row \notin RenewalIds BY <1>3, Tables
  <2> QED BY <1>3, <2>1 DEF OpsOn, DeletionOps
<1> QED BY <1>1, <1>2, <1>3 DEF Rows

\* Open requests of the other workflow.
LEMMA OthersAreOpen ==
  ASSUME NEW t, NEW q \in OtherOpen(t)
  PROVE  /\ q \in RenewalIds \cup DeletionIds
         /\ Open(q) /\ RequestRow(q).cert = CertOf(t)
         /\ q \in DeletionIds <=> q \notin RenewalIds
         /\ q \in DeletionIds <=> tx[t].op = "approve_renewal"
BY IdsAssumption DEF OtherOpen

\* A transaction holds rows that exist, and nobody else holds them.
LEMMA HeldExist ==
  ASSUME IInv, NEW t \in Txs, NEW q \in Held(t)
  PROVE  tx[t] # Idle /\ q \in Rows /\ Exists(q) /\ lock[q] = t
<1>1. tx[t] # Idle BY DEF Held, Idle
<1>2. tx[t].row \in Rows /\ Exists(tx[t].row) BY <1>1, AtHand
<1>3. CertOf(t) \in Rows /\ Exists(CertOf(t)) BY <1>1, AtHand DEF Rows
<1>4. ASSUME q \in OtherOpen(t) PROVE q \in Rows /\ Exists(q)
  <2>1. q \in RenewalIds \cup DeletionIds /\ Open(q) BY <1>4, OthersAreOpen
  <2>2. L!TypeOK BY <1>1, AtHand
  <2> QED BY <2>1, <2>2, Requests DEF Rows
<1>5. q \in Rows /\ Exists(q) BY <1>2, <1>3, <1>4 DEF Held
<1>6. lock[q] = t BY <1>5 DEF IInv, LocksAreHeld
<1> QED BY <1>1, <1>5, <1>6

\* What Decided means for single rows.
LEMMA DecidedRows ==
  ASSUME IInv, NEW t \in Txs, tx[t] # Idle, Approving(t), NEW w, NEW l,
         Decided(t, w, l)
  PROVE  /\ tx[t].row \notin CertIds /\ tx[t].row \in RenewalIds \cup DeletionIds
         /\ \A q \in DOMAIN w :
              /\ q \in {tx[t].row, CertOf(t)} \/ (q \in CertIds /\ ~Exists(q))
              /\ q \notin CertIds => /\ q = tx[t].row /\ w[q].cert = RequestRow(q).cert
                                     /\ w[q].status = "approved"
<1>1. tx[t].row \in Rows /\ tx[t].op \in OpsOn(tx[t].row) BY AtHand
<1>2. CertOf(t) \in CertIds /\ Exists(tx[t].row) /\ L!TypeOK BY AtHand
<1>3. CASE tx[t].op = "approve_renewal"
  <2>1. tx[t].row \in RenewalIds /\ tx[t].row \notin CertIds BY <1>1, <1>3, OpTable, Tables
  <2>2. PICK new \in CertIds : ~Exists(new) /\ w = RotationWrites(t, new)
    BY <1>3 DEF Decided
  <2>3. DOMAIN w = {CertOf(t), new, tx[t].row} BY <2>2 DEF RotationWrites
  <2>4. w[tx[t].row] = [renewals[tx[t].row] EXCEPT !.status = "approved",
                          !.reviewed_by = tx[t].actor, !.new_certificate = new]
    BY <2>1, <2>2, <1>2 DEF RotationWrites
  <2>5. renewals[tx[t].row] \in L!RenewalRow /\ RequestRow(tx[t].row) = renewals[tx[t].row]
    BY <2>1, <1>2, Requests
  <2>6. w[tx[t].row].cert = RequestRow(tx[t].row).cert /\ w[tx[t].row].status = "approved"
    BY <2>4, <2>5 DEF L!RenewalRow
  <2> QED BY <1>2, <2>1, <2>2, <2>3, <2>6
<1>4. CASE tx[t].op = "approve_deletion"
  <2>1. tx[t].row \in DeletionIds /\ tx[t].row \notin CertIds BY <1>1, <1>4, OpTable, Tables
  <2>2. w = RemovalWrites(t) BY <1>4 DEF Decided
  <2>3. DOMAIN w = {CertOf(t), tx[t].row} BY <2>2 DEF RemovalWrites
  <2>4. w[tx[t].row] = [deletions[tx[t].row] EXCEPT !.status = "approved",
                          !.reviewed_by = tx[t].actor]
    BY <2>1, <2>2, <1>2 DEF RemovalWrites
  <2>5. deletions[tx[t].row] \in L!DeletionRow /\ RequestRow(tx[t].row) = deletions[tx[t].row]
    BY <2>1, <1>2, Requests
  <2>6. w[tx[t].row].cert = RequestRow(tx[t].row).cert /\ w[tx[t].row].status = "approved"
    BY <2>4, <2>5 DEF L!DeletionRow
  <2> QED BY <1>2, <2>1, <2>3, <2>6
<1> QED BY <1>3, <1>4 DEF Approving

\* A transaction writes rows that it holds, and new ones.  A request it writes
\* is closed, or is new and on the certificate it holds.
LEMMA WritesAreHeld ==
  ASSUME IInv, NEW t \in Txs, tx[t] # Idle, NEW q \in DOMAIN tx[t].writes
  PROVE  /\ q \in Held(t) \/ ~Exists(q)
         /\ q \notin CertIds /\ Exists(q) =>
              /\ tx[t].writes[q].cert = RequestRow(q).cert
              /\ tx[t].writes[q].status # "pending_review"
         /\ q \notin CertIds /\ ~Exists(q) =>
              tx[t].row \in Held(t) \cap CertIds /\ tx[t].writes[q].cert = tx[t].row
<1> DEFINE W == tx[t].writes
           row == tx[t].row
<1>1. /\ InOrder(t) /\ L!TypeOK /\ row \in Rows /\ Exists(row) /\ tx[t].op \in OpsOn(row)
      /\ tx[t].step \in {"lock", "insert", "cert", "close", "commit"}
      /\ q \in Rows
  BY AtHand
<1>2. Written(t) BY <1>1 DEF InOrder
<1>3. tx[t].step \notin {"idle", "lock"} => row \in Held(t) BY DEF Held
<1>4. CASE tx[t].step \in {"lock", "insert", "cert"}
  <2>1. W = Nothing BY <1>2, <1>4 DEF Written, Blank
  <2> QED BY <2>1, Empty
<1>5. CASE tx[t].step = "close"
  <2>1. Approving(t) /\ Decided(t, W, tx[t].log) BY <1>2, <1>5 DEF Written
  <2>2. row \in Held(t) /\ CertOf(t) \in Held(t) BY <2>1, <1>5 DEF Held
  <2> QED BY <1>1, <2>1, <2>2, DecidedRows
<1>6. CASE tx[t].step = "commit" /\ Creating(t)
  <2>1. Opened(t) BY <1>2, <1>6 DEF Written
  <2>2. row \in CertIds BY <1>1, <1>6, OpTable DEF Creating
  <2>3. ~Exists(q) /\ W[q].cert = row
    <3>1. CASE tx[t].op = "create_renewal"
      <4>1. PICK r \in RenewalIds, p \in Periods : ~Exists(r) /\ W = Only(r, NewRenewal(t, p))
        BY <2>1, <3>1 DEF Opened
      <4>2. q = r /\ W[q] = NewRenewal(t, p) BY <4>1 DEF Only
      <4> QED BY <4>1, <4>2 DEF NewRenewal
    <3>2. CASE tx[t].op = "create_deletion"
      <4>1. PICK d \in DeletionIds, reason \in Reasons :
              ~Exists(d) /\ W = Only(d, NewDeletion(t, reason))
        BY <2>1, <3>2 DEF Opened
      <4>2. q = d /\ W[q] = NewDeletion(t, reason) BY <4>1 DEF Only
      <4> QED BY <4>1, <4>2 DEF NewDeletion
    <3> QED BY <1>6, <3>1, <3>2 DEF Creating
  <2> QED BY <1>3, <1>6, <2>2, <2>3
<1>7. CASE tx[t].step = "commit" /\ Approving(t)
  <2>1. PICK w : W = AndClosed(t, w) /\ Decided(t, w, tx[t].log)
    BY <1>2, <1>7 DEF Written
  <2>2. row \in Held(t) /\ CertOf(t) \in Held(t) /\ OtherOpen(t) \subseteq Held(t)
    BY <1>7 DEF Held
  <2>3. CASE q \in OtherOpen(t)
    <3>1. q \in RenewalIds \cup DeletionIds /\ Open(q) BY <2>3, OthersAreOpen
    <3>2. W[q] = [RequestRow(q) EXCEPT !.status = "withdrawn"] BY <2>1, <2>3 DEF AndClosed
    <3>3. RequestRow(q) \in L!RenewalRow \/ RequestRow(q) \in L!DeletionRow
      BY <1>1, <3>1, Requests
    <3>4. W[q].cert = RequestRow(q).cert /\ W[q].status = "withdrawn"
      BY <3>2, <3>3 DEF L!RenewalRow, L!DeletionRow
    <3>5. Exists(q) BY <1>1, <3>1, Requests
    <3> QED BY <2>2, <2>3, <3>4, <3>5
  <2>4. CASE q \notin OtherOpen(t)
    <3>1. q \in DOMAIN w /\ W[q] = w[q] BY <2>1, <2>4 DEF AndClosed
    <3> QED BY <1>1, <1>7, <2>1, <2>2, <3>1, DecidedRows
  <2> QED BY <2>3, <2>4
<1>8. CASE tx[t].step = "commit" /\ ~Creating(t) /\ ~Approving(t)
  <2>1. W \in OwnWrites(t) BY <1>2, <1>8 DEF Written
  <2>2. row \in Held(t) BY <1>3, <1>8
  <2>3. CASE tx[t].op \in {"update", "transfer", "restore"}
    <3>1. row \in CertIds BY <1>1, <2>3, OpTable
    <3>2. \E v : W = Only(row, v) BY <2>1, <2>3, Zenon DEF OwnWrites
    <3>3. q = row BY <3>2 DEF Only
    <3> QED BY <1>1, <2>2, <3>1, <3>3
  <2>4. CASE tx[t].op \in {"reject_renewal", "reject_deletion", "withdraw_renewal", "withdraw_deletion"}
    <3>1. row \in RenewalIds \cup DeletionIds BY <1>1, <2>4, OpTable
    <3>2. RequestRow(row) \in L!RenewalRow \/ RequestRow(row) \in L!DeletionRow
      BY <1>1, <3>1, Requests
    <3>3. \/ W = Only(row, [RequestRow(row) EXCEPT !.status = "rejected",
                                                  !.reviewed_by = tx[t].actor])
          \/ W = Only(row, [RequestRow(row) EXCEPT !.status = "withdrawn"])
      BY <2>1, <2>4, Zenon DEF OwnWrites
    <3>4. /\ q = row
          /\ \/ W[q] = [RequestRow(row) EXCEPT !.status = "rejected",
                                               !.reviewed_by = tx[t].actor]
             \/ W[q] = [RequestRow(row) EXCEPT !.status = "withdrawn"]
      BY <3>3 DEF Only
    <3>5. W[q].cert = RequestRow(q).cert /\ W[q].status # "pending_review"
      BY <3>2, <3>4 DEF L!RenewalRow, L!DeletionRow
    <3> QED BY <1>1, <2>2, <3>4, <3>5
  <2>5. tx[t].op \in CertOps \cup RenewalOps \cup DeletionOps BY AtHand
  <2> QED BY <1>8, <2>3, <2>4, <2>5 DEF Creating, Approving, CertOps, RenewalOps, DeletionOps
<1> QED BY <1>1, <1>4, <1>5, <1>6, <1>7, <1>8

-----------------------------------------------------------------------------
(* What a transaction may rely on while others take their steps *)

\* The rows that it holds do not change, rows do not disappear or move to
\* another certificate, no request is opened on a certificate that it holds, and
\* nobody takes an id that it has drawn.
Frame(x) ==
  /\ \A q \in Rows : Exists(q) => Exists(q)'
  /\ \A q \in RenewalIds \cup DeletionIds :
       Exists(q) => RequestRow(q)'.cert = RequestRow(q).cert
  /\ \A q \in Held(x) :
       IF q \in CertIds THEN certs'[q] = certs[q] ELSE RequestRow(q)' = RequestRow(q)
  /\ \A q \in RenewalIds \cup DeletionIds :
       Open(q)' => Open(q) \/ RequestRow(q)'.cert \notin Held(x)
  /\ \A q \in DOMAIN tx[x].writes : ~Exists(q) => ~Exists(q)'

\* Then what it has checked and written stays right, and it holds what it held.
LEMMA Bystander ==
  ASSUME IInv, NEW x \in Txs, tx[x] # Idle, tx'[x] = tx[x], Frame(x)
  PROVE  InOrder(x)' /\ Held(x)' = Held(x)
<1> DEFINE row == tx[x].row
<1>1. /\ InOrder(x) /\ L!TypeOK /\ row \in Rows /\ Exists(row) /\ tx[x].op \in OpsOn(row)
      /\ tx[x].step \in {"lock", "insert", "cert", "close", "commit"}
      /\ CertOf(x) \in CertIds
      /\ row \in CertIds => CertOf(x) = row
      /\ row \notin CertIds => CertOf(x) = RequestRow(row).cert
  BY AtHand
<1>2. Written(x) BY <1>1 DEF InOrder
<1>3. Exists(row)' BY <1>1 DEF Frame
<1>4. CertOf(x)' = CertOf(x)
  <2>1. CASE row \in CertIds BY <2>1 DEF CertOf
  <2>2. CASE row \notin CertIds
    <3>1. row \in RenewalIds \cup DeletionIds BY <1>1, <2>2 DEF Rows
    <3>2. RequestRow(row)'.cert = RequestRow(row).cert BY <1>1, <3>1 DEF Frame
    <3>3. RequestRow(tx[x].row)' = RequestRow(row)' BY DEF RequestRow
    <3> QED BY <2>2, <3>2, <3>3 DEF CertOf
  <2> QED BY <2>1, <2>2
<1>5. ASSUME Approving(x), tx[x].step \in {"close", "commit"}
      PROVE  /\ certs'[CertOf(x)] = certs[CertOf(x)] /\ RequestRow(row)' = RequestRow(row)
             /\ row \notin CertIds
  <2>1. row \notin CertIds /\ row \in Rows
    BY <1>1, <1>5, OpTable, Tables DEF Approving
  <2>2. row \in Held(x) /\ CertOf(x) \in Held(x) BY <1>5 DEF Held
  <2> QED BY <1>1, <2>1, <2>2 DEF Frame
<1>6. ASSUME Approving(x), tx[x].step = "commit" PROVE OtherOpen(x)' = OtherOpen(x)
  <2>1. CertOf(x) \in Held(x) /\ OtherOpen(x) \subseteq Held(x) BY <1>6 DEF Held
  <2> DEFINE Other == IF tx[x].op = "approve_renewal" THEN DeletionIds ELSE RenewalIds
  <2>2. OtherOpen(x) = {q \in Other : Open(q) /\ RequestRow(q).cert = CertOf(x)}
    BY DEF OtherOpen
  <2>3. OtherOpen(x)' = {q \in Other : Open(q)' /\ RequestRow(q)'.cert = CertOf(x)}
    BY <1>4 DEF OtherOpen
  <2>4. ASSUME NEW q \in Other, Open(q), RequestRow(q).cert = CertOf(x)
        PROVE  Open(q)' /\ RequestRow(q)'.cert = CertOf(x)
    <3>1. q \in Held(x) /\ q \in RenewalIds \cup DeletionIds BY <2>1, <2>2, <2>4
    <3>2. q \notin CertIds BY <3>1, IdsAssumption
    <3>3. RequestRow(q)' = RequestRow(q) BY <3>1, <3>2 DEF Frame
    <3>4. Open(q)'
      BY <2>4, <3>1, <3>3, IdsAssumption
      DEF Open, RequestRow, L!RenewalOpen, L!DeletionOpen
    <3> QED BY <2>4, <3>3, <3>4
  <2>5. ASSUME NEW q \in Other, Open(q)', RequestRow(q)'.cert = CertOf(x)
        PROVE  Open(q) /\ RequestRow(q).cert = CertOf(x)
    <3>1. q \in RenewalIds \cup DeletionIds OBVIOUS
    <3>2. Open(q) BY <2>1, <2>5, <3>1 DEF Frame
    <3>3. Exists(q) BY <1>1, <3>1, <3>2, Requests
    <3>4. RequestRow(q)'.cert = RequestRow(q).cert BY <3>1, <3>3 DEF Frame
    <3> QED BY <2>5, <3>2, <3>4
  <2> QED BY <2>2, <2>3, <2>4, <2>5
<1>7. Held(x)' = Held(x)
  BY <1>4, <1>6 DEF Held, Approving
<1>8. ASSUME tx[x].step # "lock"
      PROVE  Admissible(x)' /\ OwnWrites(x)' = OwnWrites(x)
  <2>1. Admissible(x) BY <1>1, <1>8 DEF InOrder
  <2>2. row \in Held(x) BY <1>1, <1>8 DEF Held
  <2>3. CASE row \in CertIds
    <3>1. certs'[row] = certs[row] BY <2>2, <2>3 DEF Frame
    <3>2. tx[x].op \in {"update", "transfer", "restore", "create_renewal", "create_deletion"}
      BY <1>1, <2>3 DEF OpsOn, CertOps
    <3>3. Admissible(x)'
      BY <2>1, <3>1, <3>2 DEF Admissible, L!LockCertForWrite, L!CertExists, L!IsLive
    <3>4. OwnWrites(x)' = OwnWrites(x)
      BY <3>1, <3>2 DEF OwnWrites
    <3> QED BY <3>3, <3>4
  <2>4. CASE row \notin CertIds
    <3>1. RequestRow(row)' = RequestRow(row) /\ row \in RenewalIds \cup DeletionIds
      BY <1>1, <2>2, <2>4 DEF Frame, Rows
    <3>2. tx[x].op \in RenewalOps \cup DeletionOps
      BY <1>1, <2>4 DEF OpsOn
    <3>3. Open(row)' <=> Open(row)
      BY <3>1, IdsAssumption DEF Open, RequestRow, L!RenewalOpen, L!DeletionOpen
    <3>4. OpenedBy(row)' = OpenedBy(row)
      BY <3>1, IdsAssumption DEF OpenedBy, RequestRow
    <3>5. Admissible(x)'
      BY <2>1, <3>2, <3>3, <3>4 DEF Admissible, RenewalOps, DeletionOps, L!NotSelf
    <3>6. OwnWrites(x)' = OwnWrites(x)
      BY <3>1, <3>2 DEF OwnWrites, RenewalOps, DeletionOps
    <3> QED BY <3>5, <3>6
  <2> QED BY <2>3, <2>4
<1>9. Written(x)'
  <2>1. (tx[x].step = "lock" => Blank(x)) /\ (tx[x].step = "insert" => Creating(x) /\ Blank(x))
        /\ (tx[x].step = "cert" => Approving(x) /\ Blank(x))
    BY <1>2 DEF Written
  <2>2. (Blank(x)' <=> Blank(x)) /\ (Creating(x)' <=> Creating(x))
        /\ (Approving(x)' <=> Approving(x))
    BY DEF Blank, Creating, Approving
  <2>3. ASSUME Approving(x), tx[x].step \in {"close", "commit"}, NEW w, Decided(x, w, tx[x].log),
               tx[x].writes = w \/ tx[x].writes = AndClosed(x, w)
        PROVE  Decided(x, w, tx[x].log)'
    <3>1. DOMAIN w \subseteq DOMAIN tx[x].writes BY <2>3 DEF AndClosed
    <3>2. certs'[CertOf(x)] = certs[CertOf(x)] /\ RequestRow(row)' = RequestRow(row)
      BY <1>5, <2>3
    <3>3. CASE tx[x].op = "approve_renewal"
      <4>1. row \in RenewalIds BY <1>1, <3>3, OpTable
      <4>2. PICK new \in CertIds : /\ ~Exists(new)
                                   /\ w = RotationWrites(x, new) /\ tx[x].log = RotationLog(x, new)
        BY <2>3, <3>3 DEF Decided
      <4>3. renewals'[row] = renewals[row] BY <3>2, <4>1 DEF RequestRow
      <4>4. RotationWrites(x, new)' = RotationWrites(x, new) /\ RotationLog(x, new)' = RotationLog(x, new)
        BY <1>4, <3>2, <4>3 DEF RotationWrites, RotationLog, L!Replacement, L!NewCert
      <4>5. new \in DOMAIN w BY <4>2 DEF RotationWrites
      <4>6. ~Exists(new)' BY <3>1, <4>2, <4>5 DEF Frame
      <4> QED BY <3>3, <4>2, <4>4, <4>6 DEF Decided
    <3>4. CASE tx[x].op = "approve_deletion"
      <4>1. row \in DeletionIds /\ row \notin RenewalIds BY <1>1, <3>4, OpTable, Tables
      <4>2. w = RemovalWrites(x) /\ tx[x].log = RemovalLog(x) BY <2>3, <3>4 DEF Decided
      <4>3. deletions'[row] = deletions[row] BY <3>2, <4>1 DEF RequestRow
      <4>4. RemovalWrites(x)' = RemovalWrites(x) /\ RemovalLog(x)' = RemovalLog(x)
        BY <1>4, <3>2, <4>3 DEF RemovalWrites, RemovalLog
      <4> QED BY <3>4, <4>2, <4>4 DEF Decided
    <3> QED BY <2>3, <3>3, <3>4 DEF Approving
  <2>4. ASSUME Approving(x), tx[x].step \in {"close", "commit"}, L!IsLive(CertOf(x))
        PROVE  L!IsLive(CertOf(x))'
    BY <1>4, <1>5, <2>4 DEF L!IsLive
  <2>5. ASSUME tx[x].step = "close"
        PROVE  Approving(x)' /\ L!IsLive(CertOf(x))' /\ Decided(x, tx[x].writes, tx[x].log)'
    BY <1>2, <2>2, <2>3, <2>4, <2>5 DEF Written
  <2>6. ASSUME tx[x].step = "commit", Creating(x) PROVE Opened(x)'
    <3>1. Opened(x) BY <1>2, <2>6 DEF Written
    <3>2. row \in CertIds /\ row \in Held(x) /\ CertOf(x) = row
      BY <1>1, <2>6, OpTable DEF Creating, Held
    <3>3. Colliding(x)' = {}
      <4>1. SUFFICES ASSUME NEW q \in RenewalIds \cup DeletionIds,
                            q \in Colliding(x)'
                     PROVE  FALSE
        BY DEF Colliding
      <4>2. Open(q)' /\ RequestRow(q)'.cert = row
        BY <1>4, <3>2, <4>1 DEF Colliding
      <4>3. Open(q) BY <3>2, <4>2 DEF Frame
      <4>4. Exists(q) BY <1>1, <4>3, Requests
      <4>5. RequestRow(q).cert = row BY <4>2, <4>4 DEF Frame
      <4>6. q \in Colliding(x) BY <3>2, <4>1, <4>3, <4>5 DEF Colliding
      <4> QED BY <3>1, <4>6 DEF Opened
    <3>4. CASE tx[x].op = "create_renewal"
      <4>1. PICK r \in RenewalIds, p \in Periods :
              ~Exists(r) /\ tx[x].writes = Only(r, NewRenewal(x, p))
        BY <3>1, <3>4 DEF Opened
      <4>2. r \in DOMAIN tx[x].writes BY <4>1 DEF Only
      <4>3. ~Exists(r)' BY <4>1, <4>2 DEF Frame
      <4>4. NewRenewal(x, p)' = NewRenewal(x, p) BY DEF NewRenewal
      <4> QED BY <3>1, <3>3, <3>4, <4>1, <4>3, <4>4 DEF Opened
    <3>5. CASE tx[x].op = "create_deletion"
      <4>1. PICK d \in DeletionIds, reason \in Reasons :
              ~Exists(d) /\ tx[x].writes = Only(d, NewDeletion(x, reason))
        BY <3>1, <3>5 DEF Opened
      <4>2. d \in DOMAIN tx[x].writes BY <4>1 DEF Only
      <4>3. ~Exists(d)' BY <4>1, <4>2 DEF Frame
      <4>4. NewDeletion(x, reason)' = NewDeletion(x, reason) BY DEF NewDeletion
      <4> QED BY <3>1, <3>3, <3>5, <4>1, <4>3, <4>4 DEF Opened
    <3> QED BY <2>6, <3>4, <3>5 DEF Creating
  <2>7. ASSUME tx[x].step = "commit", Approving(x)
        PROVE  /\ L!IsLive(CertOf(x))'
               /\ \E w : tx'[x].writes = AndClosed(x, w)' /\ Decided(x, w, tx[x].log)'
    <3>1. L!IsLive(CertOf(x)) BY <1>2, <2>7 DEF Written
    <3>2. PICK w : tx[x].writes = AndClosed(x, w) /\ Decided(x, w, tx[x].log) BY <1>2, <2>7 DEF Written
    <3>3. Decided(x, w, tx[x].log)' BY <2>3, <2>7, <3>2
    <3>4. OtherOpen(x)' = OtherOpen(x) BY <1>6, <2>7
    <3>5. \A q \in OtherOpen(x) : RequestRow(q)' = RequestRow(q)
      <4>1. SUFFICES ASSUME NEW q \in OtherOpen(x) PROVE RequestRow(q)' = RequestRow(q)
        OBVIOUS
      <4>2. q \in Held(x) BY <2>7 DEF Held
      <4>3. q \notin CertIds BY OthersAreOpen, IdsAssumption
      <4> QED BY <4>2, <4>3 DEF Frame
    <3>6. AndClosed(x, w)' = AndClosed(x, w) BY <3>4, <3>5 DEF AndClosed
    <3> QED BY <2>4, <2>7, <3>1, <3>2, <3>3, <3>6
  <2>8. ASSUME tx[x].step = "commit", ~Creating(x), ~Approving(x)
        PROVE  tx'[x].writes \in OwnWrites(x)' /\ tx'[x].log = OwnLog(x)'
    <3>1. tx[x].writes \in OwnWrites(x) /\ tx[x].log = OwnLog(x)
      BY <1>2, <2>8 DEF Written
    <3>2. OwnLog(x)' = OwnLog(x) BY DEF OwnLog
    <3> QED BY <1>8, <2>8, <3>1, <3>2
  <2> QED
    BY <2>1, <2>2, <2>5, <2>6, <2>7, <2>8 DEF Written
<1> QED BY <1>1, <1>3, <1>7, <1>8, <1>9 DEF InOrder

\* Nobody writes an existing row that is not held.
LEMMA UnheldUnwritten ==
  ASSUME IInv, NEW x \in Txs, tx[x] # Idle, NEW q \in Rows, Exists(q), lock[q] # x
  PROVE  q \notin DOMAIN tx[x].writes
BY WritesAreHeld, HeldExist

\* What exists is not an id that nobody has drawn.
LEMMA UndrawnUnwritten ==
  ASSUME NEW id, Undrawn(id)
  PROVE  ~Exists(id) /\ \A x \in Txs : tx[x] # Idle => id \notin DOMAIN tx[x].writes
BY DEF Undrawn

\* A step that changes no row disturbs nobody,
LEMMA StillFrame ==
  ASSUME UNCHANGED tables
  PROVE  /\ \A x : Frame(x)
         /\ \A q : /\ Exists(q)' <=> Exists(q)
                   /\ RequestRow(q)' = RequestRow(q)
                   /\ Open(q)' <=> Open(q)
                   /\ OpenedBy(q)' = OpenedBy(q)
<1>1. certs' = certs /\ renewals' = renewals /\ deletions' = deletions BY DEF tables
<1>2. \A q : RequestRow(q)' = RequestRow(q) BY <1>1 DEF RequestRow
<1>3. \A q : Exists(q)' <=> Exists(q) BY <1>1, <1>2 DEF Exists, L!CertExists
<1>4. \A q : Open(q)' <=> Open(q) BY <1>1 DEF Open, L!RenewalOpen, L!DeletionOpen
<1>5. \A q : OpenedBy(q)' = OpenedBy(q) BY <1>1 DEF OpenedBy
<1> QED BY <1>1, <1>2, <1>3, <1>4, <1>5 DEF Frame

\* neither does a certificate that nobody has seen,
LEMMA CreateFrame ==
  ASSUME IInv, NEW u \in Users, NEW c \in CertIds, NEW kind, NEW p,
         CreateCertificate(u, c, kind, p), NEW x \in Txs, tx[x] # Idle
  PROVE  Frame(x)
<1>1. /\ ~Exists(c) /\ c \notin DOMAIN tx[x].writes
      /\ certs' = [certs EXCEPT ![c] = L!NewCert(kind, p, u, NoId)]
      /\ renewals' = renewals /\ deletions' = deletions
  BY UndrawnUnwritten DEF CreateCertificate
<1>2. \A q : RequestRow(q)' = RequestRow(q) BY <1>1 DEF RequestRow
<1>3. \A q : Open(q)' <=> Open(q) BY <1>1 DEF Open, L!RenewalOpen, L!DeletionOpen
<1>4. DOMAIN certs = CertIds BY AtHand DEF L!TypeOK
<1>5. \A q : q # c => (certs'[q] = certs[q]) /\ (Exists(q)' <=> Exists(q))
  BY <1>1, <1>2, <1>4 DEF Exists, L!CertExists
<1>6. c \notin Held(x) BY <1>1, HeldExist
<1> QED BY <1>1, <1>2, <1>3, <1>5, <1>6 DEF Frame

\* What a commit makes of a row.
LEMMA CommitRows ==
  ASSUME IInv, NEW t \in Txs, tx[t] # Idle, Commit(t), NEW q \in Rows
  PROVE  /\ q \in CertIds => certs'[q] = IF q \in DOMAIN tx[t].writes THEN tx[t].writes[q]
                                         ELSE certs[q]
         /\ q \notin CertIds => RequestRow(q)' = IF q \in DOMAIN tx[t].writes
                                                 THEN tx[t].writes[q] ELSE RequestRow(q)
         /\ Exists(q)' <=> Exists(q) \/ q \in DOMAIN tx[t].writes
<1>1. DOMAIN certs = CertIds /\ DOMAIN renewals = RenewalIds /\ DOMAIN deletions = DeletionIds
  BY AtHand DEF L!TypeOK
<1>2. q \in CertIds => certs'[q] = IF q \in DOMAIN tx[t].writes THEN tx[t].writes[q]
                                   ELSE certs[q]
  BY <1>1 DEF Commit
<1>3. q \notin CertIds => RequestRow(q)' = IF q \in DOMAIN tx[t].writes
                                           THEN tx[t].writes[q] ELSE RequestRow(q)
  <2>1. CASE q \in RenewalIds BY <1>1, <2>1 DEF Commit, RequestRow
  <2>2. CASE q \in DeletionIds
    <3>1. q \notin RenewalIds BY <2>2, IdsAssumption
    <3> QED BY <1>1, <2>2, <3>1 DEF Commit, RequestRow
  <2> QED BY <2>1, <2>2 DEF Rows
<1>4. q \in DOMAIN tx[t].writes => tx[t].writes[q] # NoRow
  BY AtHand, NoRowAssumption DEF RowsOf
<1> QED BY <1>2, <1>3, <1>4 DEF Exists, L!CertExists

\* and a commit: the rows that it changes are locked, those that it adds are of
\* requests on the certificate it holds, or the replacement nobody has seen.
LEMMA CommitFrame ==
  ASSUME IInv, NEW t \in Txs, tx[t] # Idle, Commit(t), NEW x \in Txs, x # t, tx[x] # Idle
  PROVE  Frame(x)
<1> DEFINE w == tx[t].writes
<1>1. \A q \in Rows : Exists(q) => Exists(q)' BY CommitRows
<1>2. ASSUME NEW q \in RenewalIds \cup DeletionIds
      PROVE  q \in Rows /\ q \notin CertIds
  BY IdsAssumption DEF Rows
<1>3. ASSUME NEW q \in RenewalIds \cup DeletionIds, Exists(q)
      PROVE  RequestRow(q)'.cert = RequestRow(q).cert
  BY <1>2, <1>3, CommitRows, WritesAreHeld
<1>4. ASSUME NEW q \in Held(x)
      PROVE  IF q \in CertIds THEN certs'[q] = certs[q] ELSE RequestRow(q)' = RequestRow(q)
  <2>1. q \in Rows /\ Exists(q) /\ lock[q] # t BY HeldExist
  <2>2. q \notin DOMAIN w BY <2>1, UnheldUnwritten
  <2> QED BY <2>1, <2>2, CommitRows
<1>5. ASSUME NEW q \in RenewalIds \cup DeletionIds, Open(q)', ~Open(q)
      PROVE  RequestRow(q)'.cert \notin Held(x)
  <2>1. q \in Rows /\ q \notin CertIds BY <1>2
  <2>2. /\ Open(q)' => RequestRow(q)' # NoRow /\ RequestRow(q)'.status = "pending_review"
        /\ RequestRow(q) # NoRow /\ RequestRow(q).status = "pending_review" => Open(q)
    BY IdsAssumption DEF Open, RequestRow, L!RenewalOpen, L!DeletionOpen
  <2>3. q \in DOMAIN w BY <1>5, <2>1, <2>2, CommitRows
  <2>4. RequestRow(q)' = w[q] BY <2>1, <2>3, CommitRows
  <2>5. ~Exists(q) BY <1>5, <2>1, <2>2, <2>3, <2>4, WritesAreHeld
  <2>6. w[q].cert \in Held(t) BY <2>1, <2>3, <2>5, WritesAreHeld
  <2> QED BY <2>4, <2>6, HeldExist
<1>6. ASSUME NEW q \in DOMAIN tx[x].writes, ~Exists(q)
      PROVE  ~Exists(q)'
  <2>1. q \in Rows BY AtHand
  <2>2. q \notin DOMAIN w BY DEF IInv, WritesAreApart
  <2> QED BY <1>6, <2>1, <2>2, CommitRows
<1> QED BY <1>1, <1>3, <1>4, <1>5, <1>6 DEF Frame

-----------------------------------------------------------------------------
(* The steps of one transaction *)

\* A step keeps the invariant if it disturbs nobody, takes and releases locks as
\* the rows it comes to hold demand, writes what nobody else has written, and
\* leaves the transaction in order.
LEMMA OneMoves ==
  ASSUME IInv, L!IInv', NEW t \in Txs, DOMAIN tx' = Txs,
         \A x \in Txs : x # t => tx'[x] = tx[x] /\ (tx[x] # Idle => Frame(x)),
         lock' \in [Rows -> Txs \cup {NoTx}],
         \A row \in Rows : lock'[row] = t <=> row \in Held(t)',
         \A x \in Txs, row \in Rows : x # t => (lock'[row] = x <=> lock[row] = x),
         tx'[t] # Idle =>
           /\ tx'[t] \in Progress(tx'[t].writes, tx'[t].log)
           /\ \A id \in DOMAIN tx'[t].writes : id \in Rows /\ tx'[t].writes[id] \in RowsOf(id)
           /\ \A c \in DOMAIN tx'[t].log : c \in CertIds /\ tx'[t].log[c] \in L!TrailRow
           /\ InOrder(t)'
           /\ \A x \in Txs : x # t /\ tx[x] # Idle =>
                DOMAIN tx'[t].writes \cap DOMAIN tx[x].writes = {}
  PROVE  IInv'
<1>1. TypeOK /\ LocksAreHeld /\ WritesAreApart BY DEF IInv
<1>2. ASSUME NEW x \in Txs, x # t PROVE Held(x)' = Held(x)
  <2>1. CASE tx[x] = Idle
    <3>1. tx'[x] = Idle BY <1>2, <2>1
    <3> QED BY <2>1, <3>1 DEF Held, Idle
  <2>2. CASE tx[x] # Idle BY <1>2, <2>2, Bystander
  <2> QED BY <2>1, <2>2
<1>3. TypeOK'
  <2>1. L!TypeOK' BY DEF L!IInv
  <2>2. ASSUME NEW x \in Txs
        PROVE  \/ tx'[x] = Idle
               \/ /\ tx'[x] \in Progress(tx'[x].writes, tx'[x].log)
                  /\ \A id \in DOMAIN tx'[x].writes :
                       id \in Rows /\ tx'[x].writes[id] \in RowsOf(id)
                  /\ \A c \in DOMAIN tx'[x].log : c \in CertIds /\ tx'[x].log[c] \in L!TrailRow
    <3>1. CASE x = t BY <3>1
    <3>2. CASE x # t
      <4>1. tx'[x] = tx[x] BY <3>2
      <4> QED BY <1>1, <4>1 DEF TypeOK
    <3> QED BY <3>1, <3>2
  <2> QED BY <2>1, <2>2 DEF TypeOK
<1>4. LocksAreHeld' BY <1>1, <1>2 DEF LocksAreHeld
<1>5. WritesAreApart' BY <1>1 DEF WritesAreApart
<1>6. ASSUME NEW x \in Txs, tx'[x] # Idle PROVE InOrder(x)'
  <2>1. CASE x = t BY <1>6, <2>1
  <2>2. CASE x # t BY <1>6, <2>2, Bystander
  <2> QED BY <2>1, <2>2
<1> QED BY <1>3, <1>4, <1>5, <1>6 DEF IInv

\* Where the tables stay, so does what is true of them.
LEMMA TablesStay == ASSUME L!IInv, UNCHANGED tables PROVE L!IInv'
BY DEF tables, L!IInv, L!TypeOK, L!ForeignKeys, L!OneOpenRequest, L!OpenRequestsOnLiveCerts,
   L!NeverRotatedAndDeleted, L!RotationIsExact, L!FourEyes, L!LineageKeepsKind,
   L!TrailExplainsState, L!RenewedBy, L!CertExists, L!RenewalOpen, L!DeletionOpen, L!IsLive

\* The end of a transaction releases its locks.
LEMMA Ends ==
  ASSUME IInv, L!IInv', NEW t \in Txs, tx' = [tx EXCEPT ![t] = Idle],
         lock' = [row \in Rows |-> IF lock[row] = t THEN NoTx ELSE lock[row]],
         \A x \in Txs : x # t /\ tx[x] # Idle => Frame(x)
  PROVE  IInv'
<1>1. DOMAIN tx = Txs /\ lock \in [Rows -> Txs \cup {NoTx}] BY DEF IInv, TypeOK
<1>2. DOMAIN tx' = Txs /\ tx'[t] = Idle /\ \A x \in Txs : x # t => tx'[x] = tx[x] BY <1>1
<1>3. lock' \in [Rows -> Txs \cup {NoTx}] BY <1>1
<1>4. Held(t)' = {} BY <1>2 DEF Held, Idle
<1>5. \A row \in Rows : lock'[row] # t BY TxAssumption
<1>6. \A x \in Txs, row \in Rows : x # t => (lock'[row] = x <=> lock[row] = x)
  BY TxAssumption
<1> QED BY <1>2, <1>3, <1>4, <1>5, <1>6, OneMoves

\* So a transaction that gives up, whatever the reason, leaves no trace.
LEMMA RollbackStep == ASSUME IInv, NEW t \in Txs, Rollback(t) PROVE IInv'
<1>1. UNCHANGED tables BY DEF Rollback
<1>2. L!IInv' BY <1>1, TablesStay DEF IInv
<1> QED BY <1>1, <1>2, StillFrame, Ends DEF Rollback

\* A request begins without a lock.
LEMMA BeginStep ==
  ASSUME IInv, NEW t \in Txs, NEW u \in Users, NEW row \in Rows,
         NEW op \in CertOps \cup RenewalOps \cup DeletionOps, Begin(t, u, op, row)
  PROVE  IInv'
<1> DEFINE p == [op |-> op, actor |-> u, row |-> row, step |-> "lock",
                 writes |-> Nothing, log |-> Nothing]
<1>1. DOMAIN tx = Txs /\ lock \in [Rows -> Txs \cup {NoTx}] /\ L!IInv BY DEF IInv, TypeOK
<1>2. UNCHANGED tables /\ lock' = lock /\ tx' = [tx EXCEPT ![t] = p]
  BY DEF Begin, tables
<1>3. DOMAIN tx' = Txs /\ tx'[t] = p /\ \A x \in Txs : x # t => tx'[x] = tx[x] BY <1>1, <1>2
<1>4. Held(t)' = {} BY <1>3 DEF Held
<1>5. \A q \in Rows : lock[q] # t
  <2>1. tx[t] = Idle BY DEF Begin
  <2>2. Held(t) = {} BY <2>1 DEF Held, Idle
  <2> QED BY <2>2 DEF IInv, LocksAreHeld
<1>6. L!IInv' BY <1>1, <1>2, TablesStay
<1>7. /\ tx'[t] \in Progress(tx'[t].writes, tx'[t].log)
      /\ DOMAIN tx'[t].writes = {} /\ DOMAIN tx'[t].log = {}
  BY <1>3, Empty DEF Progress
<1>8. Written(t)' BY <1>3 DEF Written, Blank
<1>9. Exists(row) /\ op \in OpsOn(row) /\ (op = "restore" => u \in Admins) BY DEF Begin
<1>10. InOrder(t)' BY <1>2, <1>3, <1>8, <1>9, StillFrame DEF InOrder
<1> QED BY <1>1, <1>2, <1>3, <1>4, <1>5, <1>6, <1>7, <1>10, StillFrame, OneMoves

\* The checks and the writes of an operation read only its row and the
\* certificate it is about.
LEMMA OwnStays ==
  ASSUME UNCHANGED tables, NEW t, tx'[t].op = tx[t].op, tx'[t].actor = tx[t].actor,
         tx'[t].row = tx[t].row
  PROVE  /\ Admissible(t)' <=> Admissible(t)
         /\ OwnWrites(t)' = OwnWrites(t) /\ OwnLog(t)' = OwnLog(t)
         /\ CertOf(t)' = CertOf(t) /\ OtherOpen(t)' = OtherOpen(t) /\ Colliding(t)' = Colliding(t)
         /\ L!IsLive(CertOf(t))' <=> L!IsLive(CertOf(t))
         /\ Approving(t)' <=> Approving(t)
         /\ Creating(t)' <=> Creating(t)
<1>1. certs' = certs /\ renewals' = renewals /\ deletions' = deletions BY DEF tables
<1>2. RequestRow(tx[t].row)' = RequestRow(tx[t].row) BY <1>1 DEF RequestRow
<1>3. /\ Open(tx[t].row)' <=> Open(tx[t].row)
      /\ OpenedBy(tx[t].row)' = OpenedBy(tx[t].row)
  BY <1>1 DEF Open, OpenedBy, L!RenewalOpen, L!DeletionOpen
<1>4. \A q : (Open(q)' <=> Open(q)) /\ RequestRow(q)' = RequestRow(q) BY StillFrame
<1>5. CertOf(t)' = CertOf(t) BY <1>2 DEF CertOf
<1>6. L!IsLive(CertOf(t))' <=> L!IsLive(CertOf(t)) BY <1>1, <1>5 DEF L!IsLive
<1>7. OtherOpen(t)' = OtherOpen(t) BY <1>4, <1>5 DEF OtherOpen
<1>8. Colliding(t)' = Colliding(t) BY <1>4, <1>5 DEF Colliding
<1>9. Admissible(t)' <=> Admissible(t)
  BY <1>1, <1>3 DEF Admissible, L!LockCertForWrite, L!CertExists, L!IsLive, L!NotSelf
<1>10. OwnWrites(t)' = OwnWrites(t) /\ OwnLog(t)' = OwnLog(t)
  BY <1>1, <1>2 DEF OwnWrites, OwnLog
<1> QED BY <1>5, <1>6, <1>7, <1>8, <1>9, <1>10 DEF Approving, Creating

\* An operation that needs no other row writes its own, if any, in good form.
LEMMA OwnTyped ==
  ASSUME IInv, NEW t \in Txs, tx[t] # Idle
  PROVE  /\ \A w \in OwnWrites(t) :
              \/ w = Nothing
              \/ DOMAIN w = {tx[t].row} /\ w[tx[t].row] \in RowsOf(tx[t].row)
         /\ DOMAIN OwnLog(t) \subseteq {tx[t].row} \cap CertIds
         /\ \A c \in DOMAIN OwnLog(t) : OwnLog(t)[c] \in L!TrailRow
         /\ Creating(t) \/ Approving(t) =>
              OwnWrites(t) = {Nothing} /\ OwnLog(t) = Nothing
<1> DEFINE row == tx[t].row
           op == tx[t].op
<1>1. /\ L!TypeOK /\ row \in Rows /\ Exists(row) /\ op \in OpsOn(row) /\ tx[t].actor \in Users
      /\ op \in CertOps \cup RenewalOps \cup DeletionOps
  BY AtHand
<1>2. CASE op \in {"update", "transfer", "restore"}
  <2>1. row \in CertIds /\ certs[row] \in L!CertRow
    BY <1>1, <1>2, OpTable DEF L!TypeOK, Exists, L!CertExists
  <2>2. ASSUME NEW w \in OwnWrites(t)
        PROVE  \E v \in L!CertRow : w = Only(row, v)
    <3>1. CASE op = "update"
      <4>1. PICK p \in Periods : w = Only(row, [certs[row] EXCEPT !.validity = p])
        BY <2>2, <3>1, Zenon DEF OwnWrites
      <4>2. [certs[row] EXCEPT !.validity = p] \in L!CertRow BY <2>1 DEF L!CertRow
      <4> QED BY <4>1, <4>2
    <3>2. CASE op = "transfer"
      <4>1. PICK v \in Users : w = Only(row, [certs[row] EXCEPT !.owner = v])
        BY <2>2, <3>2 DEF OwnWrites
      <4>2. [certs[row] EXCEPT !.owner = v] \in L!CertRow BY <2>1 DEF L!CertRow
      <4> QED BY <4>1, <4>2
    <3>3. CASE op = "restore"
      <4>1. w = Only(row, [certs[row] EXCEPT !.deleted_by = NoOne, !.deletion_reason = NoReason])
        BY <2>2, <3>3 DEF OwnWrites
      <4>2. [certs[row] EXCEPT !.deleted_by = NoOne, !.deletion_reason = NoReason] \in L!CertRow
        BY <2>1 DEF L!CertRow
      <4> QED BY <4>1, <4>2
    <3> QED BY <1>2, <3>1, <3>2, <3>3
  <2>3. \A w \in OwnWrites(t) : DOMAIN w = {row} /\ w[row] \in RowsOf(row)
    BY <2>1, <2>2 DEF Only, RowsOf
  <2>4. /\ DOMAIN OwnLog(t) \subseteq {row} \cap CertIds
        /\ \A c \in DOMAIN OwnLog(t) : OwnLog(t)[c] \in L!TrailRow
    <3> DEFINE l == [action |-> "certificate.restore", actor |-> tx[t].actor, request |-> NoId]
    <3>1. l \in L!TrailRow BY <1>1 DEF L!TrailRow
    <3>2. OwnLog(t) = IF op = "restore" THEN Only(row, l) ELSE Nothing BY DEF OwnLog
    <3> HIDE DEF l
    <3>3. op = "restore" => DOMAIN OwnLog(t) = {row} /\ OwnLog(t)[row] \in L!TrailRow
      BY <3>1, <3>2 DEF Only
    <3> QED BY <2>1, <3>2, <3>3, Empty
  <2> QED BY <1>2, <2>3, <2>4 DEF Creating, Approving
<1>3. CASE op \in {"reject_renewal", "reject_deletion", "withdraw_renewal", "withdraw_deletion"}
  <2>1. row \in RenewalIds \cup DeletionIds BY <1>1, <1>3, OpTable
  <2>2. RequestRow(row) \in RowsOf(row) /\ row \notin CertIds
    <3>1. row \in DeletionIds => row \notin RenewalIds BY IdsAssumption
    <3> QED BY <1>1, <2>1, <3>1, Requests DEF RowsOf
  <2>3. ASSUME NEW w \in OwnWrites(t)
        PROVE  \/ w = Only(row, [RequestRow(row) EXCEPT !.status = "rejected",
                                                        !.reviewed_by = tx[t].actor])
               \/ w = Only(row, [RequestRow(row) EXCEPT !.status = "withdrawn"])
    BY <1>3, <2>3, Zenon DEF OwnWrites
  <2>4. /\ [RequestRow(row) EXCEPT !.status = "rejected", !.reviewed_by = tx[t].actor] \in RowsOf(row)
        /\ [RequestRow(row) EXCEPT !.status = "withdrawn"] \in RowsOf(row)
    BY <1>1, <2>1, <2>2 DEF RowsOf, L!RenewalRow, L!DeletionRow, L!Statuses
  <2>5. \A w \in OwnWrites(t) : DOMAIN w = {row} /\ w[row] \in RowsOf(row)
    BY <2>3, <2>4 DEF Only
  <2>6. OwnLog(t) = Nothing BY <1>3 DEF OwnLog
  <2> QED BY <1>3, <2>5, <2>6, Empty DEF Creating, Approving
<1>4. CASE op \in {"create_renewal", "create_deletion", "approve_renewal", "approve_deletion"}
  <2>1. OwnWrites(t) = {Nothing} BY <1>4, Zenon DEF OwnWrites
  <2>2. OwnLog(t) = Nothing BY <1>4 DEF OwnLog
  <2> QED BY <2>1, <2>2, Empty
<1> QED BY <1>1, <1>2, <1>3, <1>4 DEF CertOps, RenewalOps, DeletionOps

\* The first statement: its row is free, so nobody has written it.
LEMMA LockTargetStep == ASSUME IInv, NEW t \in Txs, LockTarget(t) PROVE IInv'
<1> DEFINE row == tx[t].row
           s == StepAfterLock(tx[t].op)
<1>1. tx[t] # Idle BY DEF LockTarget, Idle
<1>2. /\ TypeOK /\ row \in Rows /\ Exists(row) /\ tx[t].op \in OpsOn(row) /\ InOrder(t)
      /\ tx[t].op \in CertOps \cup RenewalOps \cup DeletionOps
  BY <1>1, AtHand
<1>3. PICK w \in OwnWrites(t) :
        tx' = [tx EXCEPT ![t].step = s, ![t].writes = w, ![t].log = OwnLog(t)]
  BY DEF LockTarget
<1>4. /\ s \in {"insert", "cert", "commit"}
      /\ s = "insert" <=> Creating(t)
      /\ s = "cert" <=> Approving(t)
  BY DEF StepAfterLock, Creating, Approving
<1> HIDE DEF s
<1>5. /\ DOMAIN tx' = Txs /\ tx'[t] \in Progress(w, OwnLog(t)) /\ tx'[t] # Idle
      /\ tx'[t].op = tx[t].op /\ tx'[t].actor = tx[t].actor /\ tx'[t].row = row
      /\ tx'[t].step = s /\ tx'[t].writes = w /\ tx'[t].log = OwnLog(t)
      /\ \A x \in Txs : x # t => tx'[x] = tx[x]
  <2>1. DOMAIN tx = Txs BY <1>2 DEF TypeOK
  <2>2. tx'[t] = Moved(tx[t], s, w, OwnLog(t)) BY <1>3, <2>1 DEF Moved
  <2>3. DOMAIN tx' = Txs /\ \A x \in Txs : x # t => tx'[x] = tx[x] BY <1>3, <2>1
  <2>4. tx[t] \in Progress(tx[t].writes, tx[t].log) BY <1>1, <1>2 DEF TypeOK
  <2>5. s \in {"lock", "insert", "cert", "close", "commit"} BY <1>4
  <2> QED BY <2>2, <2>3, <2>4, <2>5, Stepped
<1>6. UNCHANGED tables /\ lock[row] = NoTx /\ Admissible(t) /\ lock' = [lock EXCEPT ![row] = t]
  BY DEF LockTarget
<1>7. /\ w = Nothing \/ (DOMAIN w = {row} /\ w[row] \in RowsOf(row))
      /\ DOMAIN OwnLog(t) \subseteq {row} \cap CertIds
      /\ \A c \in DOMAIN OwnLog(t) : OwnLog(t)[c] \in L!TrailRow
      /\ Creating(t) \/ Approving(t) => w = Nothing /\ OwnLog(t) = Nothing
  BY <1>1, OwnTyped
<1>8. /\ \A id \in DOMAIN w : id \in Rows /\ w[id] \in RowsOf(id)
      /\ \A c \in DOMAIN OwnLog(t) : c \in CertIds /\ OwnLog(t)[c] \in L!TrailRow
  BY <1>2, <1>7, Empty
<1>9. ASSUME NEW x \in Txs, x # t, tx[x] # Idle PROVE DOMAIN w \cap DOMAIN tx[x].writes = {}
  <2>1. row \notin DOMAIN tx[x].writes BY <1>2, <1>6, <1>9, TxAssumption, UnheldUnwritten
  <2> QED BY <1>7, <2>1, Empty
<1>10. /\ Admissible(t)' /\ OwnWrites(t)' = OwnWrites(t) /\ OwnLog(t)' = OwnLog(t)
       /\ Approving(t)' <=> Approving(t)
       /\ Creating(t)' <=> Creating(t)
  BY <1>5, <1>6, OwnStays
<1>11. Written(t)'
  BY <1>4, <1>5, <1>7, <1>10 DEF Written, Blank
<1>12. InOrder(t)'
  <2>1. \A q : Exists(q)' <=> Exists(q) BY <1>6, StillFrame
  <2> QED BY <1>2, <1>5, <1>10, <1>11, <2>1 DEF InOrder
<1>13. Held(t) = {} /\ Held(t)' = {row}
  <2>1. Held(t) = {} BY DEF Held, LockTarget
  <2>2. s \notin {"idle", "lock", "close"} /\ (Approving(t)' => s # "commit") BY <1>4, <1>10
  <2>3. Held(t)' = {row} BY <1>5, <2>2 DEF Held
  <2> QED BY <2>1, <2>3
<1>14. /\ lock' \in [Rows -> Txs \cup {NoTx}]
       /\ \A q \in Rows : lock'[q] = t <=> q \in Held(t)'
       /\ \A x \in Txs, q \in Rows : x # t => (lock'[q] = x <=> lock[q] = x)
  BY <1>2, <1>6, <1>13, TxAssumption DEF IInv, TypeOK, LocksAreHeld
<1>15. L!IInv' BY <1>6, TablesStay DEF IInv
<1> QED BY <1>5, <1>6, <1>8, <1>9, <1>12, <1>14, <1>15, StillFrame, OneMoves

\* The INSERT of a request: no other one is open, and the certificate is held.
LEMMA InsertStep == ASSUME IInv, NEW t \in Txs, Insert(t) PROVE IInv'
<1> DEFINE row == tx[t].row
           W == tx'[t].writes
<1>1. tx[t] # Idle /\ tx[t].step = "insert" BY DEF Insert, Idle
<1>2. /\ TypeOK /\ L!TypeOK /\ row \in Rows /\ Exists(row) /\ tx[t].op \in OpsOn(row)
      /\ InOrder(t) /\ tx[t].actor \in Users
  BY <1>1, AtHand
<1>3. Creating(t) /\ ~Approving(t) /\ Blank(t) /\ Admissible(t) /\ row \in CertIds
  <2>1. Creating(t) /\ Blank(t) /\ Admissible(t) BY <1>1, <1>2 DEF InOrder, Written
  <2> QED BY <1>2, <2>1, OpTable DEF Creating, Approving
<1>4. UNCHANGED tables /\ lock' = lock /\ Colliding(t) = {} BY DEF Insert, tables
<1>5. PICK id, v :
        /\ id \in RenewalIds \cup DeletionIds /\ Undrawn(id) /\ v \in RowsOf(id)
        /\ tx' = [tx EXCEPT ![t].step = "commit", ![t].writes = Only(id, v)]
        /\ \/ tx[t].op = "create_renewal" /\ id \in RenewalIds /\ \E p \in Periods : v = NewRenewal(t, p)
           \/ tx[t].op = "create_deletion" /\ id \in DeletionIds
              /\ \E reason \in Reasons : v = NewDeletion(t, reason)
  <2>1. CASE tx[t].op = "create_renewal"
    <3>1. PICK r \in RenewalIds, p \in Periods :
            /\ Undrawn(r)
            /\ tx' = [tx EXCEPT ![t].step = "commit", ![t].writes = Only(r, NewRenewal(t, p))]
      BY <2>1 DEF Insert
    <3>2. RowsOf(r) = L!RenewalRow BY IdsAssumption DEF RowsOf
    <3>3. NewRenewal(t, p) \in L!RenewalRow
      BY <1>2, <1>3 DEF NewRenewal, L!RenewalRow, L!Statuses
    <3> QED BY <2>1, <3>1, <3>2, <3>3
  <2>2. CASE tx[t].op = "create_deletion"
    <3>1. PICK d \in DeletionIds, reason \in Reasons :
            /\ Undrawn(d)
            /\ tx' = [tx EXCEPT ![t].step = "commit", ![t].writes = Only(d, NewDeletion(t, reason))]
      BY <2>2 DEF Insert
    <3>2. RowsOf(d) = L!DeletionRow BY IdsAssumption DEF RowsOf
    <3>3. NewDeletion(t, reason) \in L!DeletionRow
      BY <1>2, <1>3 DEF NewDeletion, L!DeletionRow, L!Statuses
    <3> QED BY <2>2, <3>1, <3>2, <3>3
  <2> QED BY <1>3, <2>1, <2>2 DEF Creating
<1>6. /\ DOMAIN tx' = Txs /\ tx'[t] \in Progress(Only(id, v), Nothing) /\ tx'[t] # Idle
      /\ tx'[t].op = tx[t].op /\ tx'[t].actor = tx[t].actor /\ tx'[t].row = row
      /\ tx'[t].step = "commit" /\ W = Only(id, v) /\ tx'[t].log = Nothing
      /\ \A x \in Txs : x # t => tx'[x] = tx[x]
  <2>1. DOMAIN tx = Txs /\ tx[t] \in Progress(tx[t].writes, tx[t].log)
    BY <1>1, <1>2 DEF TypeOK
  <2>2. tx'[t] = [tx[t] EXCEPT !.step = "commit", !.writes = Only(id, v)] BY <1>5, <2>1
  <2>3. tx'[t] = Moved(tx[t], "commit", Only(id, v), Nothing)
    BY <1>3, <2>1, <2>2 DEF Moved, Progress, Blank
  <2>4. DOMAIN tx' = Txs /\ \A x \in Txs : x # t => tx'[x] = tx[x] BY <1>5, <2>1
  <2> QED BY <2>1, <2>3, <2>4, Stepped
<1>7. DOMAIN W = {id} /\ W[id] = v BY <1>6 DEF Only
<1>8. /\ Admissible(t)' /\ Colliding(t)' = {} /\ Creating(t)' /\ ~Approving(t)'
  BY <1>3, <1>4, <1>6, OwnStays
<1>9. ~Exists(id)' BY <1>4, <1>5, StillFrame, UndrawnUnwritten
<1>10. Opened(t)'
  <2>1. CASE tx[t].op = "create_renewal" /\ id \in RenewalIds
    <3>1. PICK p \in Periods : v = NewRenewal(t, p) BY <1>5, <2>1
    <3>2. NewRenewal(t, p)' = NewRenewal(t, p) BY <1>6 DEF NewRenewal
    <3> QED BY <1>6, <1>8, <1>9, <2>1, <3>1, <3>2 DEF Opened
  <2>2. CASE tx[t].op = "create_deletion" /\ id \in DeletionIds
    <3>1. PICK reason \in Reasons : v = NewDeletion(t, reason) BY <1>5, <2>2
    <3>2. NewDeletion(t, reason)' = NewDeletion(t, reason) BY <1>6 DEF NewDeletion
    <3> QED BY <1>6, <1>8, <1>9, <2>2, <3>1, <3>2 DEF Opened
  <2> QED BY <1>5, <2>1, <2>2
<1>11. Written(t)' BY <1>6, <1>8, <1>10 DEF Written
<1>12. InOrder(t)'
  <2>1. \A q : Exists(q)' <=> Exists(q) BY <1>4, StillFrame
  <2> QED BY <1>2, <1>6, <1>8, <1>11, <2>1 DEF InOrder
<1>13. Held(t)' = Held(t) BY <1>1, <1>3, <1>6, <1>8 DEF Held
<1>14. /\ lock' \in [Rows -> Txs \cup {NoTx}]
       /\ \A q \in Rows : lock'[q] = t <=> q \in Held(t)'
  BY <1>2, <1>4, <1>13 DEF TypeOK, IInv, LocksAreHeld
<1>15. ASSUME NEW x \in Txs, x # t, tx[x] # Idle PROVE DOMAIN W \cap DOMAIN tx[x].writes = {}
  BY <1>5, <1>7, <1>15, UndrawnUnwritten
<1>16. L!IInv' BY <1>4, TablesStay DEF IInv
<1>17. /\ \A q \in DOMAIN W : q \in Rows /\ W[q] \in RowsOf(q)
       /\ DOMAIN tx'[t].log = {}
  BY <1>5, <1>6, <1>7, Empty DEF Rows
<1> QED BY <1>4, <1>6, <1>12, <1>14, <1>15, <1>16, <1>17, StillFrame, OneMoves

\* What an approval writes is in good form.
LEMMA DecidedTyped ==
  ASSUME IInv, NEW t \in Txs, tx[t] # Idle, Approving(t), NEW w, NEW l,
         Decided(t, w, l)
  PROVE  /\ \A id \in DOMAIN w : id \in Rows /\ w[id] \in RowsOf(id)
         /\ \A q \in DOMAIN l : q \in CertIds /\ l[q] \in L!TrailRow
<1> DEFINE row == tx[t].row
           c == CertOf(t)
<1>1. /\ L!TypeOK /\ row \in Rows /\ Exists(row) /\ tx[t].op \in OpsOn(row) /\ tx[t].actor \in Users
      /\ c \in CertIds /\ c \in Rows /\ Exists(c) /\ certs[c] \in L!CertRow
  BY AtHand DEF Rows
<1>2. CASE tx[t].op = "approve_renewal"
  <2>1. row \in RenewalIds /\ row \notin CertIds /\ renewals[row] \in L!RenewalRow
    BY <1>1, <1>2, OpTable, Tables, Requests
  <2>2. PICK new \in CertIds :
          new # c /\ w = RotationWrites(t, new) /\ l = RotationLog(t, new)
    BY <1>1, <1>2 DEF Decided
  <2>3. DOMAIN w = {c, new, row} BY <2>2 DEF RotationWrites
  <2>4. w[c] = [certs[c] EXCEPT !.rotated_by = tx[t].actor] BY <2>2 DEF RotationWrites
  <2>5. w[new] = L!Replacement(certs[c], renewals[row].new_validity, c)
    BY <2>2 DEF RotationWrites
  <2>6. w[row] = [renewals[row] EXCEPT !.status = "approved", !.reviewed_by = tx[t].actor,
                                        !.new_certificate = new]
    BY <1>1, <2>1, <2>2 DEF RotationWrites
  <2>7. w[c] \in L!CertRow /\ w[new] \in L!CertRow
    BY <1>1, <2>1, <2>4, <2>5 DEF L!CertRow, L!RenewalRow, L!Replacement, L!NewCert
  <2>8. w[row] \in L!RenewalRow BY <1>1, <2>1, <2>6 DEF L!RenewalRow, L!Statuses
  <2>9. \A q \in DOMAIN l : q \in CertIds /\ l[q] \in L!TrailRow
    BY <1>1, <2>1, <2>2 DEF RotationLog, L!TrailRow
  <2> QED BY <1>1, <2>1, <2>3, <2>7, <2>8, <2>9 DEF RowsOf, Rows
<1>3. CASE tx[t].op = "approve_deletion"
  <2>1. row \in DeletionIds /\ row \notin CertIds /\ row \notin RenewalIds
        /\ deletions[row] \in L!DeletionRow
    BY <1>1, <1>3, OpTable, Tables, Requests
  <2>2. w = RemovalWrites(t) BY <1>3 DEF Decided
  <2>3. /\ DOMAIN w = {c, row}
        /\ w[c] = [certs[c] EXCEPT !.deleted_by = tx[t].actor,
                                   !.deletion_reason = deletions[row].reason]
        /\ w[row] = [deletions[row] EXCEPT !.status = "approved", !.reviewed_by = tx[t].actor]
    BY <1>1, <2>1, <2>2 DEF RemovalWrites
  <2>4. w[c] \in L!CertRow /\ w[row] \in L!DeletionRow
    BY <1>1, <2>1, <2>3 DEF L!CertRow, L!DeletionRow, L!Statuses
  <2>5. \A q \in DOMAIN l : q \in CertIds /\ l[q] \in L!TrailRow
    BY <1>1, <1>3, <2>1 DEF Decided, RemovalLog, Only, L!TrailRow
  <2> QED BY <1>1, <2>1, <2>3, <2>4, <2>5 DEF RowsOf
<1> QED BY <1>1, <1>2, <1>3 DEF Approving

\* An approval locks the certificate and writes it, the request and a replacement.
LEMMA LockCertStep == ASSUME IInv, NEW t \in Txs, LockCert(t) PROVE IInv'
<1> DEFINE row == tx[t].row
           c == CertOf(t)
           W == tx'[t].writes
<1>1. tx[t] # Idle /\ tx[t].step = "cert" /\ lock[c] = NoTx /\ L!IsLive(c)
  <2>1. HoldCert(t) /\ L!IsLive(c) BY DEF LockCert
  <2> QED BY <2>1 DEF HoldCert, Idle
<1>2. /\ TypeOK /\ L!TypeOK /\ row \in Rows /\ Exists(row) /\ tx[t].op \in OpsOn(row)
      /\ InOrder(t) /\ tx[t].actor \in Users
      /\ c \in CertIds /\ c \in Rows /\ Exists(c) /\ certs[c] \in L!CertRow
  BY <1>1, AtHand DEF Rows
<1>3. Approving(t) /\ ~Creating(t) /\ Blank(t) /\ Admissible(t)
  <2>1. Approving(t) /\ Blank(t) /\ Admissible(t) BY <1>1, <1>2 DEF InOrder, Written
  <2> QED BY <2>1 DEF Creating, Approving
<1>4. UNCHANGED tables /\ lock' = [lock EXCEPT ![c] = t] BY DEF LockCert, tables
<1>5. PICK w, l :
        /\ tx' = [tx EXCEPT ![t].step = "close", ![t].writes = w, ![t].log = l]
        /\ \/ /\ tx[t].op = "approve_renewal"
              /\ \E new \in CertIds :
                   Undrawn(new) /\ w = RotationWrites(t, new) /\ l = RotationLog(t, new)
           \/ tx[t].op = "approve_deletion" /\ w = RemovalWrites(t) /\ l = RemovalLog(t)
  BY DEF LockCert
<1>6. \A x \in Txs : tx[x] # Idle /\ x # t => c \notin DOMAIN tx[x].writes /\ row \notin DOMAIN tx[x].writes
  <2>1. row \in Held(t) BY <1>1 DEF Held
  <2>2. lock[row] = t BY <2>1, HeldExist
  <2> QED BY <1>1, <1>2, <2>2, UnheldUnwritten, TxAssumption
<1>7. \A x \in Txs : tx[x] # Idle /\ x # t => DOMAIN w \cap DOMAIN tx[x].writes = {}
  <2>1. CASE tx[t].op = "approve_renewal"
    <3>1. PICK new \in CertIds : Undrawn(new) /\ w = RotationWrites(t, new) BY <1>5, <2>1
    <3>2. DOMAIN w = {c, new, row} BY <3>1 DEF RotationWrites
    <3> QED BY <1>6, <3>1, <3>2, UndrawnUnwritten
  <2>2. CASE tx[t].op = "approve_deletion"
    <3>1. DOMAIN w = {c, row} BY <1>5, <2>2 DEF RemovalWrites
    <3> QED BY <1>6, <3>1
  <2> QED BY <1>3, <2>1, <2>2 DEF Approving
<1>8. /\ DOMAIN tx' = Txs /\ tx'[t] \in Progress(w, l) /\ tx'[t] # Idle
      /\ tx'[t].op = tx[t].op /\ tx'[t].actor = tx[t].actor /\ tx'[t].row = row
      /\ tx'[t].step = "close" /\ W = w /\ tx'[t].log = l
      /\ \A x \in Txs : x # t => tx'[x] = tx[x]
  <2>1. DOMAIN tx = Txs /\ tx[t] \in Progress(tx[t].writes, tx[t].log)
    BY <1>1, <1>2 DEF TypeOK
  <2>2. tx'[t] = Moved(tx[t], "close", w, l) BY <1>5, <2>1 DEF Moved
  <2>3. DOMAIN tx' = Txs /\ \A x \in Txs : x # t => tx'[x] = tx[x] BY <1>5, <2>1
  <2> QED BY <2>1, <2>2, <2>3, Stepped
<1>9. /\ Admissible(t)' /\ CertOf(t)' = c /\ L!IsLive(CertOf(t))'
      /\ Approving(t)' /\ ~Creating(t)'
  BY <1>1, <1>3, <1>4, <1>8, OwnStays
<1>10. Decided(t, w, l) /\ Decided(t, w, l)'
  <2>1. CASE tx[t].op = "approve_renewal"
    <3>1. PICK new \in CertIds : Undrawn(new) /\ w = RotationWrites(t, new) /\ l = RotationLog(t, new)
      BY <1>5, <2>1
    <3>2. RotationWrites(t, new)' = RotationWrites(t, new) /\ RotationLog(t, new)' = RotationLog(t, new)
      BY <1>4, <1>8, <1>9 DEF tables, RotationWrites, RotationLog, L!Replacement, L!NewCert
    <3>3. ~Exists(new) /\ ~Exists(new)' BY <1>4, <3>1, StillFrame, UndrawnUnwritten
    <3> QED BY <1>8, <2>1, <3>1, <3>2, <3>3 DEF Decided
  <2>2. CASE tx[t].op = "approve_deletion"
    <3>1. RemovalWrites(t)' = RemovalWrites(t) /\ RemovalLog(t)' = RemovalLog(t)
      BY <1>4, <1>8, <1>9 DEF tables, RemovalWrites, RemovalLog
    <3> QED BY <1>5, <1>8, <2>2, <3>1 DEF Decided
  <2> QED BY <1>3, <2>1, <2>2 DEF Approving
<1>11. Written(t)' BY <1>8, <1>9, <1>10 DEF Written
<1>12. InOrder(t)'
  <2>1. \A q : Exists(q)' <=> Exists(q) BY <1>4, StillFrame
  <2> QED BY <1>2, <1>8, <1>9, <1>11, <2>1 DEF InOrder
<1>13. Held(t) = {row} /\ Held(t)' = {row, c}
  <2>1. Held(t) = {row} BY <1>1 DEF Held
  <2>2. Held(t)' = {row, c} BY <1>8, <1>9 DEF Held
  <2> QED BY <2>1, <2>2
<1>14. /\ lock' \in [Rows -> Txs \cup {NoTx}]
       /\ \A q \in Rows : lock'[q] = t <=> q \in Held(t)'
       /\ \A x \in Txs, q \in Rows : x # t => (lock'[q] = x <=> lock[q] = x)
  BY <1>1, <1>2, <1>4, <1>13, TxAssumption DEF IInv, TypeOK, LocksAreHeld
<1>15. L!IInv' BY <1>4, TablesStay DEF IInv
<1>16. /\ \A id \in DOMAIN w : id \in Rows /\ w[id] \in RowsOf(id)
       /\ \A q \in DOMAIN l : q \in CertIds /\ l[q] \in L!TrailRow
  BY <1>1, <1>3, <1>10, DecidedTyped
<1> QED BY <1>4, <1>7, <1>8, <1>12, <1>14, <1>15, <1>16, StillFrame, OneMoves

\* It locks the requests of the other workflow, and closes them.
LEMMA CloseOtherStep == ASSUME IInv, NEW t \in Txs, CloseOther(t) PROVE IInv'
<1> DEFINE row == tx[t].row
           c == CertOf(t)
<1>1. PICK w, l : w = tx[t].writes /\ l = tx[t].log OBVIOUS
<1>2. PICK W : W = AndClosed(t, w) OBVIOUS
<1>3. tx[t] # Idle /\ tx[t].step = "close" BY DEF CloseOther, Idle
<1>4. /\ TypeOK /\ L!TypeOK /\ row \in Rows /\ Exists(row) /\ tx[t].op \in OpsOn(row)
      /\ InOrder(t) /\ tx[t].actor \in Users /\ c \in CertIds /\ c \in Rows
  BY <1>3, AtHand DEF Rows
<1>5. Approving(t) /\ ~Creating(t) /\ L!IsLive(c) /\ Decided(t, w, l) /\ Admissible(t)
  <2>1. Approving(t) /\ L!IsLive(c) /\ Decided(t, w, l) /\ Admissible(t)
    BY <1>1, <1>3, <1>4 DEF InOrder, Written
  <2> QED BY <2>1 DEF Creating, Approving
<1>6. UNCHANGED tables BY DEF CloseOther
<1>7. /\ lock' = [q \in Rows |-> IF q \in OtherOpen(t) THEN t ELSE lock[q]]
      /\ \A q \in OtherOpen(t) : lock[q] = NoTx
  BY DEF CloseOther
<1>8. /\ DOMAIN tx' = Txs /\ tx'[t] \in Progress(W, l) /\ tx'[t] # Idle
      /\ tx'[t].op = tx[t].op /\ tx'[t].actor = tx[t].actor /\ tx'[t].row = row
      /\ tx'[t].step = "commit" /\ tx'[t].writes = W /\ tx'[t].log = l
      /\ \A x \in Txs : x # t => tx'[x] = tx[x]
  <2>1. DOMAIN tx = Txs /\ tx[t] \in Progress(tx[t].writes, tx[t].log)
    BY <1>3, <1>4 DEF TypeOK
  <2>2. tx' = [tx EXCEPT ![t].step = "commit", ![t].writes = AndClosed(t, @)]
    BY DEF CloseOther
  <2>3. tx'[t] = Moved(tx[t], "commit", W, l) BY <1>1, <1>2, <2>1, <2>2 DEF Moved, Progress
  <2>4. DOMAIN tx' = Txs /\ \A x \in Txs : x # t => tx'[x] = tx[x] BY <2>1, <2>2
  <2> QED BY <2>1, <2>3, <2>4, Stepped
<1>9. ASSUME NEW q \in OtherOpen(t)
      PROVE  /\ q \in Rows /\ Exists(q) /\ RequestRow(q) \in RowsOf(q) /\ q \notin CertIds
             /\ \A x \in Txs : tx[x] # Idle => q \notin DOMAIN tx[x].writes
  <2>1. q \in RenewalIds \cup DeletionIds /\ Open(q) BY OthersAreOpen
  <2>2. /\ q \in Rows /\ Exists(q) /\ q \notin CertIds
        /\ q \in RenewalIds => RequestRow(q) \in L!RenewalRow
        /\ q \in DeletionIds => RequestRow(q) \in L!DeletionRow /\ q \notin RenewalIds
    BY <1>4, <2>1, Requests DEF Rows
  <2>3. \A x \in Txs : tx[x] # Idle => q \notin DOMAIN tx[x].writes
    BY <1>7, <2>2, UnheldUnwritten, TxAssumption
  <2> QED BY <2>1, <2>2, <2>3 DEF RowsOf
<1>10. /\ DOMAIN W = OtherOpen(t) \cup DOMAIN w
       /\ \A q \in OtherOpen(t) : W[q] = [RequestRow(q) EXCEPT !.status = "withdrawn"]
       /\ \A q \in DOMAIN w : q \notin OtherOpen(t) => W[q] = w[q]
  BY <1>2 DEF AndClosed
<1>11. ASSUME NEW x \in Txs, x # t, tx[x] # Idle PROVE DOMAIN W \cap DOMAIN tx[x].writes = {}
  <2>1. DOMAIN w \cap DOMAIN tx[x].writes = {} BY <1>1, <1>3, <1>11 DEF IInv, WritesAreApart
  <2> QED BY <1>9, <1>10, <1>11, <2>1
<1>12. /\ \A q \in DOMAIN W : q \in Rows /\ W[q] \in RowsOf(q)
       /\ \A q \in DOMAIN l : q \in CertIds /\ l[q] \in L!TrailRow
  <2>1. /\ \A q \in DOMAIN w : q \in Rows /\ w[q] \in RowsOf(q)
        /\ \A q \in DOMAIN l : q \in CertIds /\ l[q] \in L!TrailRow
    BY <1>1, <1>3, <1>4, Parts
  <2>2. ASSUME NEW q \in OtherOpen(t) PROVE W[q] \in RowsOf(q)
    <3>1. RequestRow(q) \in RowsOf(q) /\ q \notin CertIds BY <1>9
    <3> QED BY <1>10, <3>1 DEF RowsOf, L!RenewalRow, L!DeletionRow, L!Statuses
  <2> QED BY <1>9, <1>10, <2>1, <2>2
<1>13. /\ Admissible(t)' /\ CertOf(t)' = c /\ OtherOpen(t)' = OtherOpen(t)
       /\ L!IsLive(CertOf(t))' /\ Approving(t)' /\ ~Creating(t)'
  BY <1>5, <1>6, <1>8, OwnStays
<1>14. Decided(t, w, l)'
  <2>1. CASE tx[t].op = "approve_renewal"
    <3>1. PICK new \in CertIds : ~Exists(new) /\ w = RotationWrites(t, new) /\ l = RotationLog(t, new)
      BY <1>5, <2>1 DEF Decided
    <3>2. RotationWrites(t, new)' = RotationWrites(t, new) /\ RotationLog(t, new)' = RotationLog(t, new)
      BY <1>6, <1>8, <1>13 DEF tables, RotationWrites, RotationLog, L!Replacement, L!NewCert
    <3>3. ~Exists(new)' BY <1>6, <3>1, StillFrame
    <3> QED BY <1>8, <2>1, <3>1, <3>2, <3>3 DEF Decided
  <2>2. CASE tx[t].op = "approve_deletion"
    <3>1. RemovalWrites(t)' = RemovalWrites(t) /\ RemovalLog(t)' = RemovalLog(t)
      BY <1>6, <1>8, <1>13 DEF tables, RemovalWrites, RemovalLog
    <3> QED BY <1>5, <1>8, <2>2, <3>1 DEF Decided
  <2> QED BY <1>5, <2>1, <2>2 DEF Approving
<1>15. W = AndClosed(t, w)'
  <2>1. \A q : RequestRow(q)' = RequestRow(q) BY <1>6, StillFrame
  <2> QED BY <1>2, <1>13, <2>1 DEF AndClosed
<1>16. Written(t)' BY <1>8, <1>13, <1>14, <1>15 DEF Written
<1>17. InOrder(t)'
  <2>1. \A q : Exists(q)' <=> Exists(q) BY <1>6, StillFrame
  <2> QED BY <1>4, <1>8, <1>13, <1>16, <2>1 DEF InOrder
<1>18. Held(t) = {row, c} /\ Held(t)' = {row, c} \cup OtherOpen(t)
  <2>1. Held(t) = {row, c} BY <1>3, <1>5 DEF Held
  <2>2. Held(t)' = {row, c} \cup OtherOpen(t) BY <1>8, <1>13 DEF Held
  <2> QED BY <2>1, <2>2
<1>19. /\ lock' \in [Rows -> Txs \cup {NoTx}]
       /\ \A q \in Rows : lock'[q] = t <=> q \in Held(t)'
       /\ \A x \in Txs, q \in Rows : x # t => (lock'[q] = x <=> lock[q] = x)
  BY <1>4, <1>7, <1>18, TxAssumption DEF IInv, TypeOK, LocksAreHeld
<1>20. L!IInv' BY <1>6, TablesStay DEF IInv
<1> QED BY <1>6, <1>8, <1>11, <1>12, <1>17, <1>19, <1>20, StillFrame, OneMoves

-----------------------------------------------------------------------------
(* A commit is one step of Lifecycle *)

\* The committed rows after a commit.
LEMMA Committed ==
  ASSUME IInv, NEW t \in Txs, tx[t] # Idle, Commit(t)
  PROVE  LET w == tx[t].writes
             Newest(table, ids) == [q \in ids |-> IF q \in DOMAIN w THEN w[q] ELSE table[q]]
         IN /\ certs' = Newest(certs, CertIds)
            /\ renewals' = Newest(renewals, RenewalIds)
            /\ deletions' = Newest(deletions, DeletionIds)
            /\ trail' = [c \in CertIds |-> IF c \in DOMAIN tx[t].log
                                           THEN Append(trail[c], tx[t].log[c]) ELSE trail[c]]
<1>1. DOMAIN certs = CertIds /\ DOMAIN renewals = RenewalIds /\ DOMAIN deletions = DeletionIds
  BY AtHand DEF L!TypeOK
<1> QED BY <1>1 DEF Commit

\* One that writes one row leaves the other tables alone.
LEMMA CommittedOne ==
  ASSUME IInv, NEW t \in Txs, tx[t] # Idle, Commit(t),
         NEW row \in Rows, NEW v, tx[t].writes = Only(row, v)
  PROVE  /\ certs' = IF row \in CertIds THEN [certs EXCEPT ![row] = v] ELSE certs
         /\ renewals' = IF row \in RenewalIds THEN [renewals EXCEPT ![row] = v] ELSE renewals
         /\ deletions' = IF row \in DeletionIds THEN [deletions EXCEPT ![row] = v] ELSE deletions
         /\ tx[t].log = Nothing => trail' = trail
<1> DEFINE w == tx[t].writes
<1>1. DOMAIN w = {row} /\ w[row] = v BY DEF Only
<1>2. /\ certs = [q \in CertIds |-> certs[q]] /\ DOMAIN certs = CertIds
      /\ renewals = [q \in RenewalIds |-> renewals[q]] /\ DOMAIN renewals = RenewalIds
      /\ deletions = [q \in DeletionIds |-> deletions[q]] /\ DOMAIN deletions = DeletionIds
      /\ trail = [c \in CertIds |-> trail[c]]
  BY AtHand DEF L!TypeOK
<1>3. /\ certs' = [q \in CertIds |-> IF q \in DOMAIN w THEN w[q] ELSE certs[q]]
      /\ renewals' = [q \in RenewalIds |-> IF q \in DOMAIN w THEN w[q] ELSE renewals[q]]
      /\ deletions' = [q \in DeletionIds |-> IF q \in DOMAIN w THEN w[q] ELSE deletions[q]]
      /\ trail' = [c \in CertIds |-> IF c \in DOMAIN tx[t].log
                                     THEN Append(trail[c], tx[t].log[c]) ELSE trail[c]]
  BY Committed
<1>4. certs' = IF row \in CertIds THEN [certs EXCEPT ![row] = v] ELSE certs
  BY <1>1, <1>2, <1>3
<1>5. renewals' = IF row \in RenewalIds THEN [renewals EXCEPT ![row] = v] ELSE renewals
  BY <1>1, <1>2, <1>3
<1>6. deletions' = IF row \in DeletionIds THEN [deletions EXCEPT ![row] = v] ELSE deletions
  BY <1>1, <1>2, <1>3
<1>7. tx[t].log = Nothing => trail' = trail BY <1>2, <1>3, Empty
<1> QED BY <1>4, <1>5, <1>6, <1>7

\* An update, a transfer, a restore,
LEMMA CertCommit ==
  ASSUME IInv, NEW t \in Txs, tx[t] # Idle, Commit(t),
         tx[t].op \in {"update", "transfer", "restore"}
  PROVE  L!Next
<1> DEFINE row == tx[t].row
           u == tx[t].actor
           op == tx[t].op
<1>1. /\ InOrder(t) /\ L!TypeOK /\ row \in CertIds /\ row \in Rows /\ Exists(row) /\ u \in Users
      /\ row \notin RenewalIds /\ row \notin DeletionIds /\ tx[t].step = "commit"
  BY AtHand, OpTable, Tables DEF Commit
<1>2. Admissible(t) /\ tx[t].writes \in OwnWrites(t) /\ tx[t].log = OwnLog(t)
      /\ (op = "restore" => u \in Admins)
  BY <1>1 DEF InOrder, Written, Creating, Approving
<1>3. SUFFICES L!CertStep(u) BY <1>1 DEF L!Next
<1>4. CASE op = "update"
  <2>1. PICK p \in Periods : tx[t].writes = Only(row, [certs[row] EXCEPT !.validity = p])
    BY <1>2, <1>4, Zenon DEF OwnWrites
  <2>2. tx[t].log = Nothing BY <1>2, <1>4 DEF OwnLog
  <2>3. /\ certs' = [certs EXCEPT ![row] = [certs[row] EXCEPT !.validity = p]]
        /\ renewals' = renewals /\ deletions' = deletions /\ trail' = trail
    BY <1>1, <2>1, <2>2, CommittedOne
  <2>4. L!LockCertForWrite(u, row, TRUE) BY <1>2, <1>4 DEF Admissible
  <2>5. L!UpdateCertificate(u, row, p) BY <2>3, <2>4 DEF L!UpdateCertificate
  <2> QED BY <1>1, <2>5 DEF L!CertStep
<1>5. CASE op = "transfer"
  <2>1. PICK v \in Users : tx[t].writes = Only(row, [certs[row] EXCEPT !.owner = v])
    BY <1>2, <1>5, Zenon DEF OwnWrites
  <2>2. tx[t].log = Nothing BY <1>2, <1>5 DEF OwnLog
  <2>3. /\ certs' = [certs EXCEPT ![row] = [certs[row] EXCEPT !.owner = v]]
        /\ renewals' = renewals /\ deletions' = deletions /\ trail' = trail
    BY <1>1, <2>1, <2>2, CommittedOne
  <2>4. L!LockCertForWrite(u, row, FALSE) BY <1>2, <1>5 DEF Admissible
  <2>5. L!TransferOwner(u, row, v) BY <2>3, <2>4 DEF L!TransferOwner
  <2> QED BY <1>1, <2>5 DEF L!CertStep
<1>6. CASE op = "restore"
  <2> DEFINE v == [certs[row] EXCEPT !.deleted_by = NoOne, !.deletion_reason = NoReason]
             entry == [action |-> "certificate.restore", actor |-> u, request |-> NoId]
  <2>1. tx[t].writes = Only(row, v) BY <1>2, <1>6, Zenon DEF OwnWrites
  <2>2. tx[t].log = Only(row, entry) BY <1>2, <1>6 DEF OwnLog
  <2>3. /\ certs' = [certs EXCEPT ![row] = v] /\ renewals' = renewals /\ deletions' = deletions
    BY <1>1, <2>1, CommittedOne
  <2>4. trail' = [c \in CertIds |-> IF c \in DOMAIN tx[t].log
                                    THEN Append(trail[c], tx[t].log[c]) ELSE trail[c]]
    BY Committed
  <2>5. trail \in [CertIds -> Seq(L!TrailRow)] BY <1>1 DEF L!TypeOK
  <2>6. DOMAIN tx[t].log = {row} /\ tx[t].log[row] = entry BY <2>2 DEF Only
  <2>7. trail' = [trail EXCEPT ![row] = Append(trail[row], entry)] BY <2>4, <2>5, <2>6
  <2>8. certs[row].deleted_by # NoOne BY <1>2, <1>6 DEF Admissible
  <2>9. L!RestoreCertificate(u, row)
    BY <1>1, <1>2, <1>6, <2>3, <2>7, <2>8
    DEF L!RestoreCertificate, L!Audited, L!CertExists, Exists
  <2> QED BY <1>1, <2>9 DEF L!CertStep
<1> QED BY <1>4, <1>5, <1>6

\* the review or the withdrawal of a request,
LEMMA ReviewCommit ==
  ASSUME IInv, NEW t \in Txs, tx[t] # Idle, Commit(t),
         tx[t].op \in {"reject_renewal", "withdraw_renewal", "reject_deletion", "withdraw_deletion"}
  PROVE  L!Next
<1> DEFINE row == tx[t].row
           u == tx[t].actor
           op == tx[t].op
<1>1. /\ InOrder(t) /\ L!TypeOK /\ row \in Rows /\ Exists(row) /\ u \in Users
      /\ op \in {"reject_renewal", "withdraw_renewal"} => row \in RenewalIds
      /\ op \in {"reject_deletion", "withdraw_deletion"} => row \in DeletionIds
      /\ row \in RenewalIds => row \notin CertIds /\ row \notin DeletionIds
      /\ row \in DeletionIds => row \notin CertIds /\ row \notin RenewalIds
      /\ tx[t].step = "commit"
  BY AtHand, OpTable, Tables DEF Commit
<1>2. Admissible(t) /\ tx[t].writes \in OwnWrites(t) /\ tx[t].log = Nothing
  BY <1>1 DEF InOrder, Written, Creating, Approving, OwnLog
<1>3. Open(row) BY <1>2, Zenon DEF Admissible
<1>4. CASE op \in {"reject_renewal", "reject_deletion"}
  <2> DEFINE v == [RequestRow(row) EXCEPT !.status = "rejected", !.reviewed_by = u]
  <2>1. tx[t].writes = Only(row, v) BY <1>2, <1>4, Zenon DEF OwnWrites
  <2>2. L!NotSelf(u, OpenedBy(row)) BY <1>2, <1>4, Zenon DEF Admissible
  <2>3. CASE op = "reject_renewal"
    <3>1. row \in RenewalIds /\ v = [renewals[row] EXCEPT !.status = "rejected", !.reviewed_by = u]
      BY <1>1, <2>3 DEF RequestRow
    <3>2. certs' = certs /\ deletions' = deletions /\ trail' = trail
          /\ renewals' = [renewals EXCEPT ![row] = v]
      BY <1>1, <1>2, <2>1, <3>1, CommittedOne
    <3>3. L!RejectRenewal(u, row)
      BY <1>3, <2>2, <3>1, <3>2 DEF L!RejectRenewal, L!LockRenewal, Open, OpenedBy
    <3> QED BY <1>1, <3>1, <3>3 DEF L!Next, L!RenewalStep
  <2>4. CASE op = "reject_deletion"
    <3>1. row \in DeletionIds /\ v = [deletions[row] EXCEPT !.status = "rejected", !.reviewed_by = u]
      BY <1>1, <2>4 DEF RequestRow
    <3>2. certs' = certs /\ renewals' = renewals /\ trail' = trail
          /\ deletions' = [deletions EXCEPT ![row] = v]
      BY <1>1, <1>2, <2>1, <3>1, CommittedOne
    <3>3. L!RejectDeletion(u, row)
      BY <1>1, <1>3, <2>2, <3>1, <3>2 DEF L!RejectDeletion, L!LockDeletion, Open, OpenedBy
    <3> QED BY <1>1, <3>1, <3>3 DEF L!Next, L!DeletionStep
  <2> QED BY <1>4, <2>3, <2>4
<1>5. CASE op \in {"withdraw_renewal", "withdraw_deletion"}
  <2> DEFINE v == [RequestRow(row) EXCEPT !.status = "withdrawn"]
  <2>1. tx[t].writes = Only(row, v) BY <1>2, <1>5, Zenon DEF OwnWrites
  <2>2. u \in Admins \/ OpenedBy(row) = u BY <1>2, <1>5, Zenon DEF Admissible
  <2>3. CASE op = "withdraw_renewal"
    <3>1. row \in RenewalIds /\ v = [renewals[row] EXCEPT !.status = "withdrawn"]
      BY <1>1, <2>3 DEF RequestRow
    <3>2. certs' = certs /\ deletions' = deletions /\ trail' = trail
          /\ renewals' = [renewals EXCEPT ![row] = v]
      BY <1>1, <1>2, <2>1, <3>1, CommittedOne
    <3>3. L!WithdrawRenewal(u, row)
      BY <1>3, <2>2, <3>1, <3>2 DEF L!WithdrawRenewal, L!LockRenewal, Open, OpenedBy
    <3> QED BY <1>1, <3>1, <3>3 DEF L!Next, L!RenewalStep
  <2>4. CASE op = "withdraw_deletion"
    <3>1. row \in DeletionIds /\ v = [deletions[row] EXCEPT !.status = "withdrawn"]
      BY <1>1, <2>4 DEF RequestRow
    <3>2. certs' = certs /\ renewals' = renewals /\ trail' = trail
          /\ deletions' = [deletions EXCEPT ![row] = v]
      BY <1>1, <1>2, <2>1, <3>1, CommittedOne
    <3>3. L!WithdrawDeletion(u, row)
      BY <1>1, <1>3, <2>2, <3>1, <3>2 DEF L!WithdrawDeletion, L!LockDeletion, Open, OpenedBy
    <3> QED BY <1>1, <3>1, <3>3 DEF L!Next, L!DeletionStep
  <2> QED BY <1>5, <2>3, <2>4
<1> QED BY <1>4, <1>5

\* a new request,
LEMMA CreateCommit ==
  ASSUME IInv, NEW t \in Txs, tx[t] # Idle, Commit(t), Creating(t)
  PROVE  L!Next
<1> DEFINE c == tx[t].row
           u == tx[t].actor
<1>1. /\ InOrder(t) /\ L!TypeOK /\ c \in CertIds /\ u \in Users /\ tx[t].step = "commit"
      /\ CertOf(t) = c
  BY AtHand, OpTable DEF Commit, Creating
<1>2. Opened(t) /\ Admissible(t) BY <1>1 DEF InOrder, Written
<1>3. L!LockCertForWrite(u, c, TRUE) BY <1>2 DEF Admissible, Creating
<1>4. CASE tx[t].op = "create_renewal"
  <2>1. PICK r \in RenewalIds, p \in Periods :
          ~Exists(r) /\ tx[t].writes = Only(r, NewRenewal(t, p)) /\ tx[t].log = Nothing
    BY <1>2, <1>4 DEF Opened
  <2>2. r \in Rows /\ r \notin CertIds /\ r \notin DeletionIds BY IdsAssumption DEF Rows
  <2>3. certs' = certs /\ deletions' = deletions /\ trail' = trail
        /\ renewals' = [renewals EXCEPT ![r] = NewRenewal(t, p)]
    BY <2>1, <2>2, CommittedOne
  <2>4. renewals[r] = NoRow BY <2>1, <2>2 DEF Exists, RequestRow
  <2>5. ASSUME NEW q \in RenewalIds, L!RenewalOpen(q) PROVE renewals[q].cert # c
    <3>1. Open(q) /\ RequestRow(q) = renewals[q] BY <2>5 DEF Open, RequestRow
    <3> QED BY <1>1, <1>2, <1>4, <3>1 DEF Opened, Colliding
  <2>6. L!CreateRenewal(u, r, c, p)
    BY <1>3, <2>3, <2>4, <2>5 DEF L!CreateRenewal, L!Unused, NewRenewal
  <2> QED BY <1>1, <2>6 DEF L!Next, L!RenewalStep
<1>5. CASE tx[t].op = "create_deletion"
  <2>1. PICK d \in DeletionIds, reason \in Reasons :
          ~Exists(d) /\ tx[t].writes = Only(d, NewDeletion(t, reason)) /\ tx[t].log = Nothing
    BY <1>2, <1>5 DEF Opened
  <2>2. d \in Rows /\ d \notin CertIds /\ d \notin RenewalIds BY IdsAssumption DEF Rows
  <2>3. certs' = certs /\ renewals' = renewals /\ trail' = trail
        /\ deletions' = [deletions EXCEPT ![d] = NewDeletion(t, reason)]
    BY <2>1, <2>2, CommittedOne
  <2>4. deletions[d] = NoRow BY <2>1, <2>2 DEF Exists, RequestRow
  <2>5. ASSUME NEW q \in DeletionIds, L!DeletionOpen(q) PROVE deletions[q].cert # c
    <3>1. q \notin RenewalIds BY IdsAssumption
    <3>2. Open(q) /\ RequestRow(q) = deletions[q] BY <2>5, <3>1 DEF Open, RequestRow
    <3> QED BY <1>1, <1>2, <1>5, <3>2 DEF Opened, Colliding
  <2>6. L!CreateDeletion(u, d, c, reason)
    BY <1>3, <2>3, <2>4, <2>5 DEF L!CreateDeletion, L!Unused, NewDeletion
  <2> QED BY <1>1, <2>6 DEF L!Next, L!DeletionStep
<1> QED BY <1>4, <1>5 DEF Creating

\* the approval of a renewal,
LEMMA RotationCommit ==
  ASSUME IInv, NEW t \in Txs, tx[t] # Idle, Commit(t), tx[t].op = "approve_renewal"
  PROVE  L!Next
<1> DEFINE r == tx[t].row
           u == tx[t].actor
           c == CertOf(t)
           W == tx[t].writes
           l == tx[t].log
<1>1. /\ InOrder(t) /\ L!TypeOK /\ r \in RenewalIds /\ r \in Rows /\ r \notin CertIds /\ r \notin DeletionIds
      /\ u \in Users /\ tx[t].step = "commit" /\ Exists(r) /\ renewals[r] # NoRow
      /\ c \in CertIds /\ Exists(c) /\ certs[c] # NoRow /\ c = renewals[r].cert
  <2>1. r \in RenewalIds /\ r \in Rows /\ r \notin CertIds /\ r \notin DeletionIds
    BY AtHand, OpTable, Tables
  <2> QED BY <2>1, AtHand DEF Commit, Exists, RequestRow, L!CertExists
<1>2. Admissible(t) /\ Approving(t) /\ ~Creating(t) BY <1>1 DEF InOrder, Approving, Creating
<1>3. L!IsLive(c) /\ \E w : W = AndClosed(t, w) /\ Decided(t, w, l)
  BY <1>1, <1>2 DEF InOrder, Written
<1>4. PICK w, new :
        /\ W = AndClosed(t, w) /\ new \in CertIds /\ ~Exists(new)
        /\ w = RotationWrites(t, new) /\ l = RotationLog(t, new)
  BY <1>3 DEF Decided
<1>5. new # c /\ certs[new] = NoRow BY <1>1, <1>4 DEF Exists, L!CertExists
<1>6. \A q : q \in OtherOpen(t) <=> q \in DeletionIds /\ L!DeletionOpen(q) /\ deletions[q].cert = c
  BY <1>1, IdsAssumption DEF OtherOpen, Open, RequestRow
<1> DEFINE closed(q) == [deletions[q] EXCEPT !.status = "withdrawn"]
           retired == [certs[c] EXCEPT !.rotated_by = u]
           successor == L!Replacement(certs[c], renewals[r].new_validity, c)
           approved == [renewals[r] EXCEPT !.status = "approved", !.reviewed_by = u,
                                           !.new_certificate = new]
<1>7. /\ DOMAIN w = {c, new, r}
      /\ w[c] = retired /\ w[new] = successor /\ w[r] = approved
  BY <1>1, <1>4, <1>5 DEF RotationWrites
<1>8. /\ DOMAIN W = OtherOpen(t) \cup {c, new, r}
      /\ W[c] = retired /\ W[new] = successor /\ W[r] = approved
      /\ \A q \in OtherOpen(t) : W[q] = closed(q)
  <2>1. OtherOpen(t) \cap {c, new, r} = {} BY <1>1, <1>4, <1>6, IdsAssumption
  <2>2. \A q \in OtherOpen(t) : RequestRow(q) = deletions[q]
    BY <1>6, IdsAssumption DEF RequestRow
  <2> QED BY <1>4, <1>7, <2>1, <2>2 DEF AndClosed
<1>9. /\ certs' = [q \in CertIds |-> IF q \in DOMAIN W THEN W[q] ELSE certs[q]]
      /\ renewals' = [q \in RenewalIds |-> IF q \in DOMAIN W THEN W[q] ELSE renewals[q]]
      /\ deletions' = [q \in DeletionIds |-> IF q \in DOMAIN W THEN W[q] ELSE deletions[q]]
      /\ trail' = [q \in CertIds |-> IF q \in DOMAIN l THEN Append(trail[q], l[q]) ELSE trail[q]]
  BY Committed
<1> HIDE DEF retired, successor, approved, closed
<1>10. certs' = [certs EXCEPT ![new] = successor, ![c] = retired]
  <2>1. DOMAIN certs = CertIds BY <1>1 DEF L!TypeOK
  <2>2. \A q \in CertIds : q \notin OtherOpen(t) /\ q # r BY <1>1, <1>6, IdsAssumption
  <2> QED BY <1>4, <1>5, <1>8, <1>9, <2>1, <2>2
<1>11. renewals' = [renewals EXCEPT ![r] = approved]
  <2>1. DOMAIN renewals = RenewalIds /\ renewals = [q \in RenewalIds |-> renewals[q]]
    BY <1>1 DEF L!TypeOK
  <2>2. \A q \in RenewalIds : q \notin OtherOpen(t) /\ q # c /\ q # new
    BY <1>1, <1>4, <1>6, IdsAssumption
  <2> QED BY <1>1, <1>8, <1>9, <2>1, <2>2
<1>12. deletions' = L!CloseDeletions(c)
  <2>1. \A q \in DeletionIds : q # c /\ q # new /\ q # r BY <1>1, <1>4, IdsAssumption
  <2>2. \A q \in DeletionIds : deletions'[q] =
          IF L!DeletionOpen(q) /\ deletions[q].cert = c THEN closed(q) ELSE deletions[q]
    BY <1>6, <1>8, <1>9, <2>1
  <2> QED BY <1>9, <2>2 DEF L!CloseDeletions, closed
<1> DEFINE first == [action |-> "renewal.approve", actor |-> u, request |-> r]
           second == [action |-> "certificate.create", actor |-> u, request |-> r]
<1>13. DOMAIN l = {c, new} /\ l[c] = first /\ l[new] = second
  BY <1>4, <1>5 DEF RotationLog
<1>14. trail' = L!Audited(L!Audited(trail, c, "renewal.approve", u, r),
                          new, "certificate.create", u, r)
  <2>1. trail \in [CertIds -> Seq(L!TrailRow)] BY <1>1 DEF L!TypeOK
  <2> HIDE DEF first, second
  <2>2. trail' = [trail EXCEPT ![c] = Append(trail[c], first), ![new] = Append(trail[new], second)]
    BY <1>1, <1>4, <1>5, <1>9, <1>13, <2>1
  <2> QED BY <1>5, <2>1, <2>2 DEF L!Audited, first, second
<1>15. Open(r) /\ L!NotSelf(u, OpenedBy(r)) BY <1>2, Zenon DEF Admissible
<1>16. L!ApproveRenewal(u, r, new)
  <2>1. L!LockRenewal(r) /\ L!NotSelf(u, renewals[r].submitted_by) /\ L!Unused(certs, new)
    BY <1>1, <1>5, <1>15 DEF L!LockRenewal, Open, OpenedBy, L!Unused
  <2>2. L!CertExists(c) BY <1>1 DEF L!CertExists
  <2>3. certs' = [certs EXCEPT ![new] = L!Replacement(certs[c], renewals[r].new_validity, c),
                               ![c].rotated_by = u]
    BY <1>5, <1>10, <1>1 DEF retired, successor, L!TypeOK
  <2>4. renewals' = [renewals EXCEPT ![r] =
          [@ EXCEPT !.status = "approved", !.reviewed_by = u, !.new_certificate = new]]
    BY <1>11 DEF approved
  <2> QED BY <1>1, <1>3, <1>12, <1>14, <2>1, <2>2, <2>3, <2>4 DEF L!ApproveRenewal
<1> QED BY <1>1, <1>4, <1>16 DEF L!Next, L!RenewalStep

\* and the approval of a deletion.
LEMMA RemovalCommit ==
  ASSUME IInv, NEW t \in Txs, tx[t] # Idle, Commit(t), tx[t].op = "approve_deletion"
  PROVE  L!Next
<1> DEFINE d == tx[t].row
           u == tx[t].actor
           c == CertOf(t)
           W == tx[t].writes
           l == tx[t].log
<1>1. /\ InOrder(t) /\ L!TypeOK /\ d \in DeletionIds /\ d \in Rows /\ d \notin CertIds /\ d \notin RenewalIds
      /\ u \in Users /\ tx[t].step = "commit" /\ Exists(d) /\ deletions[d] # NoRow
      /\ c \in CertIds /\ Exists(c) /\ certs[c] # NoRow /\ c = deletions[d].cert
  <2>1. d \in DeletionIds /\ d \in Rows /\ d \notin CertIds /\ d \notin RenewalIds
    BY AtHand, OpTable, Tables
  <2> QED BY <2>1, AtHand DEF Commit, Exists, RequestRow, L!CertExists
<1>2. Admissible(t) /\ Approving(t) /\ ~Creating(t) BY <1>1 DEF InOrder, Approving, Creating
<1>3. L!IsLive(c) /\ \E w : W = AndClosed(t, w) /\ Decided(t, w, l)
  BY <1>1, <1>2 DEF InOrder, Written
<1>4. PICK w : W = AndClosed(t, w) /\ w = RemovalWrites(t) /\ l = RemovalLog(t)
  BY <1>3 DEF Decided
<1>5. \A q : q \in OtherOpen(t) <=> q \in RenewalIds /\ L!RenewalOpen(q) /\ renewals[q].cert = c
  BY DEF OtherOpen, Open, RequestRow
<1> DEFINE closed(q) == [renewals[q] EXCEPT !.status = "withdrawn"]
           hidden == [certs[c] EXCEPT !.deleted_by = u, !.deletion_reason = deletions[d].reason]
           approved == [deletions[d] EXCEPT !.status = "approved", !.reviewed_by = u]
<1>6. DOMAIN w = {c, d} /\ w[c] = hidden /\ w[d] = approved
  BY <1>1, <1>4 DEF RemovalWrites
<1>7. /\ DOMAIN W = OtherOpen(t) \cup {c, d}
      /\ W[c] = hidden /\ W[d] = approved
      /\ \A q \in OtherOpen(t) : W[q] = closed(q)
  <2>1. OtherOpen(t) \cap {c, d} = {} BY <1>1, <1>5, IdsAssumption
  <2>2. \A q \in OtherOpen(t) : RequestRow(q) = renewals[q] BY <1>5 DEF RequestRow
  <2> QED BY <1>4, <1>6, <2>1, <2>2 DEF AndClosed
<1>8. /\ certs' = [q \in CertIds |-> IF q \in DOMAIN W THEN W[q] ELSE certs[q]]
      /\ renewals' = [q \in RenewalIds |-> IF q \in DOMAIN W THEN W[q] ELSE renewals[q]]
      /\ deletions' = [q \in DeletionIds |-> IF q \in DOMAIN W THEN W[q] ELSE deletions[q]]
      /\ trail' = [q \in CertIds |-> IF q \in DOMAIN l THEN Append(trail[q], l[q]) ELSE trail[q]]
  BY Committed
<1> HIDE DEF hidden, approved, closed
<1>9. certs' = [certs EXCEPT ![c] = hidden]
  <2>1. DOMAIN certs = CertIds BY <1>1 DEF L!TypeOK
  <2>2. \A q \in CertIds : q \notin OtherOpen(t) /\ q # d BY <1>1, <1>5, IdsAssumption
  <2> QED BY <1>1, <1>7, <1>8, <2>1, <2>2
<1>10. deletions' = [deletions EXCEPT ![d] = approved]
  <2>1. DOMAIN deletions = DeletionIds BY <1>1 DEF L!TypeOK
  <2>2. \A q \in DeletionIds : q \notin OtherOpen(t) /\ q # c BY <1>1, <1>5, IdsAssumption
  <2> QED BY <1>1, <1>7, <1>8, <2>1, <2>2
<1>11. renewals' = L!CloseRenewals(c)
  <2>1. \A q \in RenewalIds : q # c /\ q # d BY <1>1, IdsAssumption
  <2>2. \A q \in RenewalIds : renewals'[q] =
          IF L!RenewalOpen(q) /\ renewals[q].cert = c THEN closed(q) ELSE renewals[q]
    BY <1>5, <1>7, <1>8, <2>1
  <2> QED BY <1>8, <2>2 DEF L!CloseRenewals, closed
<1> DEFINE entry == [action |-> "certificate.delete", actor |-> u, request |-> d]
<1>12. DOMAIN l = {c} /\ l[c] = entry BY <1>4 DEF RemovalLog, Only
<1>13. trail' = L!Audited(trail, c, "certificate.delete", u, d)
  <2>1. trail \in [CertIds -> Seq(L!TrailRow)] BY <1>1 DEF L!TypeOK
  <2> HIDE DEF entry
  <2>2. trail' = [trail EXCEPT ![c] = Append(trail[c], entry)] BY <1>1, <1>8, <1>12, <2>1
  <2> QED BY <2>2 DEF L!Audited, entry
<1>14. Open(d) /\ L!NotSelf(u, OpenedBy(d)) BY <1>2, Zenon DEF Admissible
<1>15. L!ApproveDeletion(u, d)
  <2>1. L!LockDeletion(d) /\ L!NotSelf(u, deletions[d].requested_by)
    BY <1>1, <1>14 DEF L!LockDeletion, Open, OpenedBy
  <2>2. L!CertExists(c) BY <1>1 DEF L!CertExists
  <2>3. certs' = [certs EXCEPT ![c] =
          [@ EXCEPT !.deleted_by = u, !.deletion_reason = deletions[d].reason]]
    BY <1>9 DEF hidden
  <2>4. deletions' = [deletions EXCEPT ![d] = [@ EXCEPT !.status = "approved", !.reviewed_by = u]]
    BY <1>10 DEF approved
  <2> QED BY <1>1, <1>3, <1>11, <1>13, <2>1, <2>2, <2>3, <2>4 DEF L!ApproveDeletion
<1> QED BY <1>1, <1>15 DEF L!Next, L!DeletionStep

-----------------------------------------------------------------------------
(* Lifecycle's invariant *)

\* The two instances of Lifecycle say the same of the tables.
LEMMA SameLifecycle ==
  /\ (L!IInv <=> LP!IInv) /\ (L!IInv <=> LP!IInv)'
  /\ L!Init <=> LP!Init
  /\ L!Next <=> LP!Next
  /\ UNCHANGED L!vars <=> UNCHANGED LP!vars
  /\ NoRow \notin LP!CertRow \cup LP!RenewalRow \cup LP!DeletionRow
<1>1. (L!IInv <=> LP!IInv) /\ (L!IInv <=> LP!IInv)'
  BY DEF
     L!IInv, LP!IInv, L!TypeOK, LP!TypeOK, L!ForeignKeys, LP!ForeignKeys, L!OneOpenRequest,
     LP!OneOpenRequest, L!OpenRequestsOnLiveCerts, LP!OpenRequestsOnLiveCerts,
     L!NeverRotatedAndDeleted, LP!NeverRotatedAndDeleted, L!RotationIsExact,
     LP!RotationIsExact, L!FourEyes, LP!FourEyes, L!LineageKeepsKind, LP!LineageKeepsKind,
     L!TrailExplainsState, LP!TrailExplainsState, L!RenewedBy, LP!RenewedBy, L!CertExists,
     LP!CertExists, L!RenewalOpen, LP!RenewalOpen, L!DeletionOpen, LP!DeletionOpen, L!IsLive,
     LP!IsLive, L!CertRow, LP!CertRow, L!RenewalRow, LP!RenewalRow, L!DeletionRow,
     LP!DeletionRow, L!TrailRow, LP!TrailRow, L!Kinds, LP!Kinds, L!Statuses, LP!Statuses
<1>2. L!Next <=> LP!Next
  BY DEF
     L!Next, LP!Next, L!CertStep, LP!CertStep, L!RenewalStep, LP!RenewalStep, L!DeletionStep,
     LP!DeletionStep, L!CreateCertificate, LP!CreateCertificate, L!UpdateCertificate,
     LP!UpdateCertificate, L!TransferOwner, LP!TransferOwner, L!RestoreCertificate,
     LP!RestoreCertificate, L!CreateRenewal, LP!CreateRenewal, L!ApproveRenewal,
     LP!ApproveRenewal, L!RejectRenewal, LP!RejectRenewal, L!WithdrawRenewal,
     LP!WithdrawRenewal, L!CreateDeletion, LP!CreateDeletion, L!ApproveDeletion,
     LP!ApproveDeletion, L!RejectDeletion, LP!RejectDeletion, L!WithdrawDeletion,
     LP!WithdrawDeletion, L!LockRenewal, LP!LockRenewal, L!LockDeletion, LP!LockDeletion,
     L!NotSelf, LP!NotSelf, L!Replacement, LP!Replacement, L!CloseRenewals, LP!CloseRenewals,
     L!CloseDeletions, LP!CloseDeletions, L!NewCert, LP!NewCert, L!Audited, LP!Audited,
     L!LockCertForWrite, LP!LockCertForWrite, L!Unused, LP!Unused, L!CertExists,
     LP!CertExists, L!RenewalOpen, LP!RenewalOpen, L!DeletionOpen, LP!DeletionOpen, L!IsLive,
     LP!IsLive, L!Kinds, LP!Kinds
<1>3. (L!Init <=> LP!Init) /\ (UNCHANGED L!vars <=> UNCHANGED LP!vars)
  BY DEF L!Init, LP!Init, L!vars, LP!vars
<1>4. NoRow \notin LP!CertRow \cup LP!RenewalRow \cup LP!DeletionRow
  BY NoRowAssumption
  DEF L!CertRow, LP!CertRow, L!RenewalRow, LP!RenewalRow, L!DeletionRow, LP!DeletionRow,
     L!Kinds, LP!Kinds, L!Statuses, LP!Statuses
<1> QED BY <1>1, <1>2, <1>3, <1>4

\* So what is proved of Lifecycle can be used here.
LEMMA LifecycleStep == ASSUME L!IInv, L!Next PROVE L!IInv'
BY SameLifecycle, LP!IInvStep, AdminsAssumption, NullAssumption

LEMMA LifecycleInit == L!Init => L!IInv
BY SameLifecycle, LP!InitIInv, AdminsAssumption, NullAssumption

-----------------------------------------------------------------------------
(* The invariant holds *)

LEMMA InitIInv == Init => IInv
<1> SUFFICES ASSUME Init PROVE IInv OBVIOUS
<1>1. L!Init BY DEF Init, L!Init
<1>2. L!IInv BY <1>1, LifecycleInit
<1>3. \A t \in Txs : tx[t] = Idle /\ Held(t) = {} BY DEF Init, Held, Idle
<1>4. DOMAIN tx = Txs /\ lock \in [Rows -> Txs \cup {NoTx}] /\ \A row \in Rows : lock[row] = NoTx
  BY DEF Init
<1>5. TypeOK BY <1>2, <1>3, <1>4 DEF TypeOK, L!IInv
<1>6. LocksAreHeld BY <1>3, <1>4, TxAssumption DEF LocksAreHeld
<1>7. WritesAreApart BY <1>3 DEF WritesAreApart
<1> QED BY <1>2, <1>3, <1>5, <1>6, <1>7 DEF IInv

\* A step that is none of a transaction's.
LEMMA NobodyMoves ==
  ASSUME IInv, L!IInv', tx' = tx, lock' = lock, \A x \in Txs : tx[x] # Idle => Frame(x)
  PROVE  IInv'
<1>1. ASSUME NEW x \in Txs PROVE Held(x)' = Held(x) /\ (tx[x] # Idle => InOrder(x)')
  <2>1. CASE tx[x] = Idle BY <2>1 DEF Held, Idle
  <2>2. CASE tx[x] # Idle BY <2>2, Bystander
  <2> QED BY <2>1, <2>2
<1>2. TypeOK /\ LocksAreHeld /\ WritesAreApart BY DEF IInv
<1>3. TypeOK'
  <2>1. L!TypeOK' BY DEF L!IInv
  <2> QED BY <1>2, <2>1 DEF TypeOK
<1>4. LocksAreHeld' BY <1>1, <1>2 DEF LocksAreHeld
<1>5. WritesAreApart' BY <1>2 DEF WritesAreApart
<1> QED BY <1>1, <1>3, <1>4, <1>5 DEF IInv

\* A commit is a step of Lifecycle, whatever the operation.
LEMMA CommitRefines == ASSUME IInv, NEW t \in Txs, Commit(t) PROVE L!Next
<1>1. tx[t] # Idle BY DEF Commit, Idle
<1>2. tx[t].op \in CertOps \cup RenewalOps \cup DeletionOps BY <1>1, AtHand
<1>3. CASE tx[t].op \in {"update", "transfer", "restore"} BY <1>1, <1>3, CertCommit
<1>4. CASE tx[t].op \in {"reject_renewal", "withdraw_renewal", "reject_deletion", "withdraw_deletion"}
  BY <1>1, <1>4, ReviewCommit
<1>5. CASE tx[t].op \in {"create_renewal", "create_deletion"} BY <1>1, <1>5, CreateCommit DEF Creating
<1>6. CASE tx[t].op = "approve_renewal" BY <1>1, <1>6, RotationCommit
<1>7. CASE tx[t].op = "approve_deletion" BY <1>1, <1>7, RemovalCommit
<1> QED BY <1>2, <1>3, <1>4, <1>5, <1>6, <1>7 DEF CertOps, RenewalOps, DeletionOps

LEMMA CommitStep == ASSUME IInv, NEW t \in Txs, Commit(t) PROVE IInv'
<1>1. tx[t] # Idle BY DEF Commit, Idle
<1>2. L!IInv' BY CommitRefines, LifecycleStep DEF IInv
<1>3. \A x \in Txs : x # t /\ tx[x] # Idle => Frame(x) BY <1>1, CommitFrame
<1> QED BY <1>2, <1>3, Ends DEF Commit

\* A certificate entered by hand.
LEMMA CreateRefines ==
  ASSUME IInv, NEW u \in Users, NEW c \in CertIds, NEW kind \in L!Kinds, NEW p \in Periods,
         CreateCertificate(u, c, kind, p)
  PROVE  L!Next
<1>1. certs[c] = NoRow BY UndrawnUnwritten DEF CreateCertificate, Exists, L!CertExists
<1>2. L!CreateCertificate(u, c, kind, p)
  BY <1>1 DEF CreateCertificate, L!CreateCertificate, L!Unused
<1> QED BY <1>2 DEF L!Next, L!CertStep

LEMMA CreateStep ==
  ASSUME IInv, NEW u \in Users, NEW c \in CertIds, NEW kind \in L!Kinds, NEW p \in Periods,
         CreateCertificate(u, c, kind, p)
  PROVE  IInv'
<1>1. L!IInv' BY CreateRefines, LifecycleStep DEF IInv
<1>2. \A x \in Txs : tx[x] # Idle => Frame(x) BY CreateFrame
<1>3. tx' = tx /\ lock' = lock BY DEF CreateCertificate
<1> QED BY <1>1, <1>2, <1>3, NobodyMoves

\* What the steps do to the tables: a step of Lifecycle, or nothing.
LEMMA NextRefines == ASSUME IInv, Next PROVE L!Next \/ UNCHANGED tables
<1>1. CASE \E u \in Users, c \in CertIds, kind \in L!Kinds, p \in Periods :
             CreateCertificate(u, c, kind, p)
  BY <1>1, CreateRefines
<1>2. ASSUME NEW t \in Txs,
             \/ \E u \in Users, row \in Rows, op \in CertOps \cup RenewalOps \cup DeletionOps :
                  Begin(t, u, op, row)
             \/ Step(t) \/ DeadlockAbort(t) \/ Fail(t)
      PROVE  L!Next \/ UNCHANGED tables
  <2>1. CASE Commit(t) BY <2>1, CommitRefines
  <2>2. CASE \E u \in Users, row \in Rows, op \in CertOps \cup RenewalOps \cup DeletionOps :
               Begin(t, u, op, row)
    BY <2>2 DEF Begin, tables
  <2>3. CASE LockTarget(t) BY <2>3 DEF LockTarget
  <2>4. CASE Insert(t) BY <2>4 DEF Insert, tables
  <2>5. CASE LockCert(t) BY <2>5 DEF LockCert
  <2>6. CASE CloseOther(t) BY <2>6 DEF CloseOther
  <2>7. CASE Rollback(t) BY <2>7 DEF Rollback
  <2> QED
    BY <1>2, <2>1, <2>2, <2>3, <2>4, <2>5, <2>6, <2>7
    DEF Step, DeadlockAbort, Fail, RefuseTarget, RefuseInsert, RefuseCert
<1> QED BY <1>1, <1>2 DEF Next

LEMMA NextIInv == ASSUME IInv, Next PROVE IInv'
<1>1. CASE \E u \in Users, c \in CertIds, kind \in L!Kinds, p \in Periods :
             CreateCertificate(u, c, kind, p)
  BY <1>1, CreateStep
<1>2. ASSUME NEW t \in Txs,
             \/ \E u \in Users, row \in Rows, op \in CertOps \cup RenewalOps \cup DeletionOps :
                  Begin(t, u, op, row)
             \/ Step(t) \/ DeadlockAbort(t) \/ Fail(t)
      PROVE  IInv'
  <2>1. CASE Commit(t) BY <2>1, CommitStep
  <2>2. CASE \E u \in Users, row \in Rows, op \in CertOps \cup RenewalOps \cup DeletionOps :
               Begin(t, u, op, row)
    BY <2>2, BeginStep
  <2>3. CASE LockTarget(t) BY <2>3, LockTargetStep
  <2>4. CASE Insert(t) BY <2>4, InsertStep
  <2>5. CASE LockCert(t) BY <2>5, LockCertStep
  <2>6. CASE CloseOther(t) BY <2>6, CloseOtherStep
  <2>7. CASE Rollback(t) BY <2>7, RollbackStep
  <2> QED
    BY <1>2, <2>1, <2>2, <2>3, <2>4, <2>5, <2>6, <2>7
    DEF Step, DeadlockAbort, Fail, RefuseTarget, RefuseInsert, RefuseCert
<1> QED BY <1>1, <1>2 DEF Next

\* A step that changes no variable.
LEMMA Stutters == ASSUME IInv, UNCHANGED vars PROVE IInv'
<1>1. UNCHANGED tables /\ tx' = tx /\ lock' = lock BY DEF vars, tables
<1>2. L!IInv' BY <1>1, TablesStay DEF IInv
<1> QED BY <1>1, <1>2, StillFrame, NobodyMoves

\* Row locks do what the store relies on: whoever is about to commit has checked
\* and written rows that nobody else has changed since, and nobody's lock outlives
\* the transaction.
THEOREM InvariantHolds == Spec => []IInv
<1>1. IInv /\ [Next]_vars => IInv' BY NextIInv, Stutters
<1> QED BY InitIInv, <1>1, PTL DEF Spec

\* Every row, lock and transaction in progress is well formed.
THEOREM TypeCorrect == Spec => []TypeOK
<1>1. IInv => TypeOK BY DEF IInv
<1> QED BY InvariantHolds, <1>1, PTL

\* The transactions of any number of concurrent requests are atomic: the committed
\* tables only ever move as the one-step operations of Lifecycle move them.
THEOREM Refinement == Spec => RefinesLifecycle
<1>1. Init => L!Init BY DEF Init, L!Init
<1>2. IInv /\ [Next]_vars => [L!Next]_(L!vars)
  <2>1. ASSUME IInv, Next PROVE [L!Next]_(L!vars)
    BY <2>1, NextRefines DEF tables, L!vars
  <2>2. ASSUME UNCHANGED vars PROVE UNCHANGED L!vars BY <2>2 DEF vars, L!vars
  <2> QED BY <2>1, <2>2
<1> QED BY InvariantHolds, <1>1, <1>2, PTL DEF Spec, RefinesLifecycle, L!Spec

\* So everything Lifecycle promises holds of concurrent requests: one open request
\* per certificate and workflow, on a certificate that is live; two people behind
\* every rotation and deletion; exactly one successor of the same kind; and an audit
\* trail that explains each row, all by itself at every commit.
THEOREM WorkflowIsSafe ==
  Spec => [](/\ L!ForeignKeys /\ L!OneOpenRequest /\ L!OpenRequestsOnLiveCerts
             /\ L!NeverRotatedAndDeleted /\ L!RotationIsExact /\ L!FourEyes
             /\ L!LineageKeepsKind /\ L!TrailExplainsState)
<1>1. IInv => /\ L!ForeignKeys /\ L!OneOpenRequest /\ L!OpenRequestsOnLiveCerts
              /\ L!NeverRotatedAndDeleted /\ L!RotationIsExact /\ L!FourEyes
              /\ L!LineageKeepsKind /\ L!TrailExplainsState
  BY DEF IInv, L!IInv
<1> QED BY InvariantHolds, <1>1, PTL

\* And no reviewer who comes second overturns a decision, nor touches a rotated row.
THEOREM HistoryIsFinal == Spec => L!ClosedRequestsAreFinal /\ L!RotatedIsFrozen
<1>1. Spec => LP!Spec
  <2>1. (L!Init => LP!Init) /\ ([L!Next]_(L!vars) => [LP!Next]_(LP!vars)) BY SameLifecycle
  <2> QED BY Refinement, <2>1, PTL DEF RefinesLifecycle, L!Spec, LP!Spec
<1>2. LP!Spec => LP!ClosedRequestsAreFinal
  BY LP!DecisionsAreFinal, SameLifecycle, AdminsAssumption, NullAssumption
<1>3. LP!Spec => LP!RotatedIsFrozen
  BY LP!HistoryIsFrozen, SameLifecycle, AdminsAssumption, NullAssumption
<1> DEFINE Final  == /\ \A r \in RenewalIds :
                          renewals[r] # NoRow /\ ~L!RenewalOpen(r) => renewals'[r] = renewals[r]
                     /\ \A d \in DeletionIds :
                          deletions[d] # NoRow /\ ~L!DeletionOpen(d) => deletions'[d] = deletions[d]
           FinalP == /\ \A r \in RenewalIds :
                          renewals[r] # NoRow /\ ~LP!RenewalOpen(r) => renewals'[r] = renewals[r]
                     /\ \A d \in DeletionIds :
                          deletions[d] # NoRow /\ ~LP!DeletionOpen(d) => deletions'[d] = deletions[d]
           Frozen  == \A c \in CertIds :
                        L!CertExists(c) /\ certs[c].rotated_by # NoOne =>
                          \E v \in Users : certs'[c] = [certs[c] EXCEPT !.owner = v]
           FrozenP == \A c \in CertIds :
                        LP!CertExists(c) /\ certs[c].rotated_by # NoOne =>
                          \E v \in Users : certs'[c] = [certs[c] EXCEPT !.owner = v]
<1>4. /\ [FinalP]_(LP!vars) => [Final]_(L!vars)
      /\ [FrozenP]_(LP!vars) => [Frozen]_(L!vars)
  BY SameLifecycle
  DEF L!RenewalOpen, LP!RenewalOpen, L!DeletionOpen, LP!DeletionOpen, L!CertExists, LP!CertExists
<1> QED
  BY <1>1, <1>2, <1>3, <1>4, PTL
  DEF L!ClosedRequestsAreFinal, LP!ClosedRequestsAreFinal, L!RotatedIsFrozen, LP!RotatedIsFrozen

-----------------------------------------------------------------------------
(* Which requests can block each other *)

\* Whom each statement waits for.
LEMMA Waits ==
  ASSUME IInv, NEW t \in Txs, NEW x \in WaitsFor(t)
  PROVE  /\ tx[t] # Idle /\ x \in Txs /\ tx[x] # Idle
         /\ \/ tx[t].step = "lock" /\ x = lock[tx[t].row] /\ tx[t].row \in Held(x)
            \/ tx[t].step = "cert" /\ x = lock[CertOf(t)] /\ CertOf(t) \in Held(x)
            \/ /\ tx[t].step = "close"
               /\ \E q \in OtherOpen(t) : x = lock[q] /\ q \in Held(x)
            \/ /\ tx[t].step = "insert"
               /\ \E q \in Colliding(t) : q \in DOMAIN tx[x].writes /\ q \in Held(x)
<1>1. tx[t].step \in {"lock", "cert", "close", "insert"} BY DEF WaitsFor
<1>2. tx[t] # Idle BY <1>1 DEF Idle
<1>3. /\ TypeOK /\ L!TypeOK /\ tx[t].row \in Rows /\ CertOf(t) \in Rows BY <1>2, AtHand DEF Rows
<1>4. ASSUME NEW q \in Rows, lock[q] = x, x # NoTx
      PROVE  x \in Txs /\ q \in Held(x) /\ tx[x] # Idle
  <2>1. x \in Txs BY <1>3, <1>4 DEF TypeOK
  <2>2. q \in Held(x) BY <1>4, <2>1 DEF IInv, LocksAreHeld
  <2> QED BY <2>1, <2>2, HeldExist
<1>5. CASE tx[t].step = "lock"
  <2>1. x = lock[tx[t].row] /\ x # NoTx BY <1>5 DEF WaitsFor
  <2> QED BY <1>2, <1>3, <1>4, <1>5, <2>1
<1>6. CASE tx[t].step = "cert"
  <2>1. x = lock[CertOf(t)] /\ x # NoTx BY <1>6 DEF WaitsFor
  <2> QED BY <1>2, <1>3, <1>4, <1>6, <2>1
<1>7. CASE tx[t].step = "close"
  <2>1. PICK q \in OtherOpen(t) : x = lock[q] /\ x # NoTx BY <1>7 DEF WaitsFor
  <2>2. q \in Rows BY OthersAreOpen DEF Rows
  <2> QED BY <1>2, <1>4, <1>7, <2>1, <2>2
<1>8. CASE tx[t].step = "insert"
  <2>1. x \in Txs /\ tx[x] # Idle /\ DOMAIN tx[x].writes \cap Colliding(t) # {}
    BY <1>8 DEF WaitsFor
  <2>2. PICK q \in Colliding(t) : q \in DOMAIN tx[x].writes BY <2>1
  <2>3. Exists(q) BY <1>3, Requests DEF Colliding
  <2>4. q \in Held(x) BY <2>1, <2>2, <2>3, WritesAreHeld
  <2> QED BY <1>2, <1>8, <2>1, <2>2, <2>4
<1> QED BY <1>1, <1>5, <1>6, <1>7, <1>8

\* An approval that waits for the certificate holds its request only; one that
\* waits for the other workflow, the certificate as well.
LEMMA ApprovalHolds ==
  ASSUME IInv, NEW t \in Txs, tx[t].step \in {"cert", "close"}
  PROVE  /\ tx[t] # Idle /\ Approving(t)
         /\ tx[t].row \in RenewalIds \cup DeletionIds /\ tx[t].row \notin CertIds
         /\ tx[t].op = "approve_renewal" <=> tx[t].row \in RenewalIds
         /\ tx[t].op = "approve_deletion" <=> tx[t].row \in DeletionIds
         /\ CertOf(t) \in CertIds /\ CertOf(t) = RequestRow(tx[t].row).cert
         /\ tx[t].step = "cert" => Held(t) = {tx[t].row}
         /\ tx[t].step = "close" => Held(t) = {tx[t].row, CertOf(t)}
<1>1. tx[t] # Idle BY DEF Idle
<1>2. Approving(t) BY <1>1, AtHand DEF InOrder, Written
<1>3. /\ tx[t].row \in RenewalIds \cup DeletionIds /\ tx[t].row \notin CertIds
      /\ tx[t].op = "approve_renewal" <=> tx[t].row \in RenewalIds
      /\ tx[t].op = "approve_deletion" <=> tx[t].row \in DeletionIds
  BY <1>1, <1>2, AtHand, OpTable, Tables DEF Approving
<1>4. /\ tx[t].step = "cert" => Held(t) = {tx[t].row}
      /\ tx[t].step = "close" => Held(t) = {tx[t].row, CertOf(t)}
  BY <1>2 DEF Held
<1> QED BY <1>1, <1>2, <1>3, <1>4, AtHand

\* A request that creates waits for one that is about to commit: whoever holds the
\* open request it collides with waits for nobody.
LEMMA InsertWaitsForCommit ==
  ASSUME IInv, NEW t \in Txs, tx[t].step = "insert", NEW x \in WaitsFor(t)
  PROVE  WaitsFor(x) = {}
<1>1. /\ tx[t] # Idle /\ x \in Txs /\ tx[x] # Idle
      /\ \E q \in Colliding(t) : q \in DOMAIN tx[x].writes /\ q \in Held(x)
  BY Waits
<1>2. PICK q \in Colliding(t) : q \in DOMAIN tx[x].writes /\ q \in Held(x) BY <1>1
<1>3. /\ InOrder(x) /\ tx[x].step \in {"lock", "insert", "cert", "close", "commit"}
  BY <1>1, AtHand
<1>4. Creating(t) /\ tx[t].row \in CertIds /\ CertOf(t) = tx[t].row
  <2>1. Creating(t) BY <1>1, AtHand DEF InOrder, Written
  <2> QED BY <1>1, <2>1, AtHand, OpTable DEF Creating
<1>5. q \in RenewalIds \cup DeletionIds /\ q \notin CertIds /\ RequestRow(q).cert = tx[t].row
  BY <1>4, IdsAssumption DEF Colliding
<1>6. CASE tx[x].step \in {"lock", "insert", "cert"}
  BY <1>2, <1>3, <1>6, Empty DEF InOrder, Written, Blank
<1>7. CASE tx[x].step = "close"
  <2>1. CertOf(x) = RequestRow(tx[x].row).cert /\ Held(x) = {tx[x].row, CertOf(x)}
        /\ CertOf(x) \in CertIds
    BY <1>1, <1>7, ApprovalHolds
  <2>2. CertOf(x) = tx[t].row BY <1>2, <1>5, <2>1
  <2>3. tx[t].row \in Held(t) BY DEF Held
  <2> QED BY <1>1, <1>7, <2>1, <2>2, <2>3, HeldExist
<1>8. CASE tx[x].step = "commit" BY <1>8 DEF WaitsFor
<1> QED BY <1>3, <1>6, <1>7, <1>8

\* Nobody waits for a transaction that has not locked anything.
LEMMA NobodyWaitsForANewcomer ==
  ASSUME IInv, NEW t \in Txs, tx[t].step = "lock", NEW x \in Txs
  PROVE  t \notin WaitsFor(x)
<1>1. Held(t) = {} BY DEF Held
<1> QED BY <1>1, Waits

\* So in a circle everybody waits for a certificate or for the other workflow.
LEMMA CircleSteps ==
  ASSUME IInv, NEW C \in SUBSET Txs, Circle(C), NEW t \in C
  PROVE  tx[t].step \in {"cert", "close"}
<1>1. Stuck(C) /\ WaitsFor(t) # {} /\ WaitsFor(t) \subseteq C BY DEF Circle, Stuck
<1>2. PICK x \in WaitsFor(t) : x \in C BY <1>1
<1>3. tx[t].step \in {"lock", "cert", "close", "insert"} BY <1>1 DEF WaitsFor
<1>4. tx[t].step # "insert" BY <1>1, <1>2, InsertWaitsForCommit DEF Stuck
<1>5. ASSUME tx[t].step = "lock" PROVE FALSE
  <2>1. \A y \in C : t \notin WaitsFor(y) BY <1>5, NobodyWaitsForANewcomer
  <2>2. x # t BY <1>2, <2>1
  <2>3. Stuck(C \ {t}) BY <1>1, <1>2, <2>1, <2>2 DEF Stuck
  <2> QED BY <2>3 DEF Circle
<1> QED BY <1>3, <1>4, <1>5

\* A circle is an approval that has the certificate, and the approval of the other
\* workflow's open request on it.
LEMMA CircleIsAPair ==
  ASSUME IInv, NEW C \in SUBSET Txs, Circle(C), NEW x \in C, tx[x].step = "close"
  PROVE  \E y \in C : /\ C = {x, y} /\ CertOf(y) = CertOf(x)
                      /\ {tx[x].op, tx[y].op} = {"approve_renewal", "approve_deletion"}
<1>1. Stuck(C) /\ WaitsFor(x) # {} /\ WaitsFor(x) \subseteq C BY DEF Circle, Stuck
<1>2. PICK y \in WaitsFor(x) : y \in C BY <1>1
<1>3. PICK q \in OtherOpen(x) : y = lock[q] /\ q \in Held(y) BY Waits
<1>4. /\ Approving(x) /\ CertOf(x) \in CertIds /\ Held(x) = {tx[x].row, CertOf(x)}
      /\ tx[x].row \in RenewalIds \cup DeletionIds /\ tx[x] # Idle
      /\ tx[x].op = "approve_renewal" <=> tx[x].row \in RenewalIds
      /\ tx[x].op = "approve_deletion" <=> tx[x].row \in DeletionIds
  BY ApprovalHolds
<1>5. /\ q \in RenewalIds \cup DeletionIds /\ Open(q) /\ RequestRow(q).cert = CertOf(x)
      /\ q \in DeletionIds <=> q \notin RenewalIds
      /\ q \in DeletionIds <=> tx[x].op = "approve_renewal"
  BY OthersAreOpen
<1>6. q \notin CertIds BY <1>5, IdsAssumption
<1>7. tx[y].step \in {"cert", "close"} BY <1>2, CircleSteps
<1>8. /\ tx[y] # Idle /\ Approving(y) /\ CertOf(y) \in CertIds
      /\ CertOf(y) = RequestRow(tx[y].row).cert
      /\ tx[y].op = "approve_renewal" <=> tx[y].row \in RenewalIds
      /\ tx[y].op = "approve_deletion" <=> tx[y].row \in DeletionIds
      /\ tx[y].step = "cert" => Held(y) = {tx[y].row}
      /\ tx[y].step = "close" => Held(y) = {tx[y].row, CertOf(y)}
  BY <1>2, <1>7, ApprovalHolds
<1>9. q = tx[y].row /\ CertOf(y) = CertOf(x) BY <1>3, <1>5, <1>6, <1>7, <1>8
<1>10. {tx[x].op, tx[y].op} = {"approve_renewal", "approve_deletion"}
  <2>1. CASE tx[x].op = "approve_renewal" BY <1>5, <1>8, <1>9, <2>1
  <2>2. CASE tx[x].op = "approve_deletion" BY <1>5, <1>8, <1>9, <2>2
  <2> QED BY <1>4, <2>1, <2>2 DEF Approving
<1>11. x # y
  BY <1>10
<1>12. lock[CertOf(x)] = x BY <1>4, HeldExist
<1>13. tx[y].step = "cert"
  <2>1. ASSUME tx[y].step = "close" PROVE FALSE
    <3>1. CertOf(x) \in Held(y) BY <1>8, <1>9, <2>1
    <3> QED BY <1>2, <1>11, <1>12, <3>1, HeldExist
  <2> QED BY <1>7, <2>1
<1>14. WaitsFor(y) = {x}
  BY <1>2, <1>9, <1>12, <1>13, TxAssumption DEF WaitsFor
<1>15. OtherOpen(x) = {q}
  <2>1. SUFFICES ASSUME NEW p \in OtherOpen(x) PROVE p = q BY <1>3
  <2>2. /\ p \in RenewalIds \cup DeletionIds /\ Open(p) /\ RequestRow(p).cert = CertOf(x)
        /\ p \in DeletionIds <=> p \notin RenewalIds
        /\ p \in DeletionIds <=> tx[x].op = "approve_renewal"
    BY <2>1, OthersAreOpen
  <2>3. L!OneOpenRequest BY DEF IInv, L!IInv
  <2> QED BY <1>5, <2>2, <2>3 DEF L!OneOpenRequest, Open, RequestRow
<1>16. WaitsFor(x) = {y}
  <2>1. WaitsFor(x) \subseteq {y} BY <1>3, <1>15 DEF WaitsFor
  <2> QED BY <1>2, <2>1
<1>17. Stuck({x, y}) BY <1>14, <1>16 DEF Stuck
<1>18. {x, y} \in SUBSET C BY <1>2
<1>19. C = {x, y} BY <1>17, <1>18 DEF Circle
<1> QED BY <1>2, <1>9, <1>10, <1>19

\* Requests that lock their rows in opposite orders are the only ones that can
\* wait for each other in a circle: the approval of a renewal and the approval of
\* a deletion of one certificate, and never more than these two.
THEOREM OnlyApprovalsBlock == Spec => []OnlyApprovalsDeadlock
<1>1. IInv => OnlyApprovalsDeadlock
  <2>1. SUFFICES ASSUME IInv, NEW C \in SUBSET Txs, Circle(C)
                 PROVE  /\ {tx[t].op : t \in C} = {"approve_renewal", "approve_deletion"}
                        /\ \A t, x \in C : CertOf(t) = CertOf(x)
    BY DEF OnlyApprovalsDeadlock
  <2>2. PICK x \in C : tx[x].step = "close"
    <3>1. PICK t \in C : WaitsFor(t) # {} /\ WaitsFor(t) \subseteq C BY <2>1 DEF Circle, Stuck
    <3>2. CASE tx[t].step = "close" BY <3>2
    <3>3. CASE tx[t].step = "cert"
      <4>1. PICK x \in WaitsFor(t) : x \in C BY <3>1
      <4>2. CertOf(t) \in Held(x) /\ CertOf(t) \in CertIds
        BY <2>1, <3>3, <4>1, Waits, ApprovalHolds
      <4>3. tx[x].step # "cert"
        BY <2>1, <4>1, <4>2, ApprovalHolds
      <4> QED BY <2>1, <4>1, <4>3, CircleSteps
    <3> QED BY <2>1, <3>2, <3>3, CircleSteps
  <2>3. PICK y \in C : /\ C = {x, y} /\ CertOf(y) = CertOf(x)
                       /\ {tx[x].op, tx[y].op} = {"approve_renewal", "approve_deletion"}
    BY <2>1, <2>2, CircleIsAPair
  <2> QED BY <2>3
<1> QED BY InvariantHolds, <1>1, PTL
=============================================================================
