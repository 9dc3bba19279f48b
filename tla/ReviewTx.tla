------------------------------- MODULE ReviewTx -------------------------------
(***************************************************************************)
(* The operations of Lifecycle as the code runs them: transactions of      *)
(* concurrent requests, one SQL statement that can wait per step, on rows  *)
(* locked one by one under READ COMMITTED.                                 *)
(*                                                                         *)
(* PostgreSQL is external and modelled by what the code relies on: a row   *)
(* that another transaction has locked or written makes SELECT ... FOR     *)
(* UPDATE and UPDATE wait, after which they see the newest committed row;  *)
(* a plain read sees committed rows; an INSERT that collides with an open  *)
(* request in a unique index waits while that request is being changed by  *)
(* somebody else, and fails otherwise; a transaction in a cycle of waits   *)
(* is aborted.  Writes become visible, and locks are released, at the end. *)
(***************************************************************************)
EXTENDS Sequences

CONSTANTS
  Users, Admins, Periods, Reasons, NoOne, NoReason, NoId, NoRow,
  CertIds, RenewalIds, DeletionIds,     \* as in Lifecycle
  Txs,                                  \* concurrent requests
  NoTx                                  \* "nobody holds this row"

ASSUME TxAssumption == NoTx \notin Txs

\* Ids are numbers of three sequences; here they tell which table they are of.
ASSUME IdsAssumption ==
  /\ CertIds \cap RenewalIds = {} /\ CertIds \cap DeletionIds = {}
  /\ RenewalIds \cap DeletionIds = {}

\* What Lifecycle assumes.
ASSUME AdminsAssumption == Admins \subseteq Users
ASSUME NullAssumption == NoOne \notin Users /\ NoReason \notin Reasons /\ NoId \notin CertIds

VARIABLES
  certs, renewals, deletions, trail,    \* committed rows
  lock,                                 \* per row, the transaction holding it
  tx                                    \* per transaction, its progress

tables == <<certs, renewals, deletions, trail>>
vars == <<certs, renewals, deletions, trail, lock, tx>>

\* Atomic operations on the committed rows.
L == INSTANCE Lifecycle WITH certs <- certs, renewals <- renewals,
                           deletions <- deletions, trail <- trail

ASSUME NoRowAssumption == NoRow \notin L!CertRow \cup L!RenewalRow \cup L!DeletionRow

Rows == CertIds \cup RenewalIds \cup DeletionIds
CertOps == {"update", "transfer", "restore", "create_renewal", "create_deletion"}
RenewalOps == {"approve_renewal", "reject_renewal", "withdraw_renewal"}
DeletionOps == {"approve_deletion", "reject_deletion", "withdraw_deletion"}
OpsOn(row) ==
  IF row \in CertIds THEN CertOps ELSE IF row \in RenewalIds THEN RenewalOps ELSE DeletionOps

\* tx[t] is Idle or an operation by actor on row, about to take a step; writes
\* maps rows to their new versions and log certificates to their new audit row.
Idle == [step |-> "idle"]
Nothing == [id \in {} |-> NoRow]
Only(id, row) == [x \in {id} |-> row]

-----------------------------------------------------------------------------
(* Helpers *)

Open(row) ==
  IF row \in RenewalIds THEN L!RenewalOpen(row) ELSE L!DeletionOpen(row)

RequestRow(row) == IF row \in RenewalIds THEN renewals[row] ELSE deletions[row]

Exists(row) == IF row \in CertIds THEN L!CertExists(row) ELSE RequestRow(row) # NoRow

OpenedBy(row) ==
  IF row \in RenewalIds THEN renewals[row].submitted_by ELSE deletions[row].requested_by

\* The certificate an operation is about.
CertOf(t) == IF tx[t].row \in CertIds THEN tx[t].row ELSE RequestRow(tx[t].row).cert

\* Open requests on the certificate: of the workflow an INSERT goes into, or of
\* the other workflow, which an approval closes.
Colliding(t) ==
  {q \in IF tx[t].op = "create_renewal" THEN RenewalIds ELSE DeletionIds :
     Open(q) /\ RequestRow(q).cert = CertOf(t)}
OtherOpen(t) ==
  {q \in IF tx[t].op = "approve_renewal" THEN DeletionIds ELSE RenewalIds :
     Open(q) /\ RequestRow(q).cert = CertOf(t)}

\* A row id no committed or pending INSERT has drawn.
Undrawn(id) ==
  ~Exists(id) /\ \A x \in Txs : tx[x] # Idle => id \notin DOMAIN tx[x].writes

-----------------------------------------------------------------------------
(* Ends of a transaction *)

RollbackKeepingLocks(t) ==                                 \* mutant
  /\ tx' = [tx EXCEPT ![t] = Idle]
  /\ UNCHANGED <<certs, renewals, deletions, trail, lock>>

\* The deferred tx.Rollback() of every store method.
Rollback(t) ==
  /\ tx' = [tx EXCEPT ![t] = Idle]
  /\ lock' = [row \in Rows |-> IF lock[row] = t THEN NoTx ELSE lock[row]]
  /\ UNCHANGED tables

Commit(t) ==
  LET w == tx[t].writes
      Newest(table) == [id \in DOMAIN table |-> IF id \in DOMAIN w THEN w[id] ELSE table[id]]
  IN /\ tx[t].step = "commit"
     /\ certs' = Newest(certs)
     /\ renewals' = Newest(renewals)
     /\ deletions' = Newest(deletions)
     /\ trail' = [c \in CertIds |-> IF c \in DOMAIN tx[t].log
                                    THEN Append(trail[c], tx[t].log[c]) ELSE trail[c]]
     /\ tx' = [tx EXCEPT ![t] = Idle]
     /\ lock' = [row \in Rows |-> IF lock[row] = t THEN NoTx ELSE lock[row]]

\* The statement fails, or the connection or the server is lost.
Fail(t) == tx[t] # Idle /\ Rollback(t)

-----------------------------------------------------------------------------
(* First statement: lock the target row and check it *)

Begin(t, u, op, row) ==
  /\ tx[t] = Idle
  /\ Exists(row)
  /\ op \in OpsOn(row)
  /\ op = "restore" => u \in Admins
  /\ tx' = [tx EXCEPT ![t] = [op |-> op, actor |-> u, row |-> row, step |-> "lock",
                              writes |-> Nothing, log |-> Nothing]]
  /\ UNCHANGED <<certs, renewals, deletions, trail, lock>>

\* The checks under the row lock, in the words of Lifecycle.
Admissible(t) ==
  LET op == tx[t].op
      u == tx[t].actor
      row == tx[t].row
  IN CASE op \in {"update", "create_renewal", "create_deletion"} ->
            L!LockCertForWrite(u, row, TRUE)
       [] op = "transfer" -> L!LockCertForWrite(u, row, FALSE)
       [] op = "restore" -> certs[row].deleted_by # NoOne
       [] op \in {"withdraw_renewal", "withdraw_deletion"} ->
            Open(row) /\ (u \in Admins \/ OpenedBy(row) = u)
       [] OTHER -> Open(row) /\ L!NotSelf(u, OpenedBy(row))

\* What an operation that needs no other row writes, for every input it may have.
OwnWrites(t) ==
  LET op == tx[t].op
      row == tx[t].row
  IN CASE op = "update" -> {Only(row, [certs[row] EXCEPT !.validity = p]) : p \in Periods}
       [] op = "transfer" -> {Only(row, [certs[row] EXCEPT !.owner = v]) : v \in Users}
       [] op = "restore" ->
            {Only(row, [certs[row] EXCEPT !.deleted_by = NoOne, !.deletion_reason = NoReason])}
       [] op \in {"reject_renewal", "reject_deletion"} ->
            {Only(row, [RequestRow(row) EXCEPT !.status = "rejected",
                                               !.reviewed_by = tx[t].actor])}
       [] op \in {"withdraw_renewal", "withdraw_deletion"} ->
            {Only(row, [RequestRow(row) EXCEPT !.status = "withdrawn"])}
       [] OTHER -> {Nothing}

OwnLog(t) ==
  IF tx[t].op = "restore"
  THEN Only(tx[t].row, [action |-> "certificate.restore", actor |-> tx[t].actor,
                        request |-> NoId])
  ELSE Nothing

StepAfterLockEager(op) ==                                  \* mutant
  CASE op \in {"create_renewal", "create_deletion"} -> "insert"
    [] op \in {"approve_renewal", "approve_deletion", "reject_renewal"} -> "cert"
    [] OTHER -> "commit"

\* The statement after the first one that can wait.
StepAfterLock(op) ==
  CASE op \in {"create_renewal", "create_deletion"} -> "insert"
    [] op \in {"approve_renewal", "approve_deletion"} -> "cert"
    [] OTHER -> "commit"

LockTargetUnlocked(t) ==                                   \* mutant
  /\ tx[t].step = "lock" /\ Admissible(t)
  /\ \E w \in OwnWrites(t) :
       tx' = [tx EXCEPT ![t].step = StepAfterLock(tx[t].op), ![t].writes = w,
                        ![t].log = OwnLog(t)]
  /\ UNCHANGED <<certs, renewals, deletions, trail, lock>>

LockTarget(t) ==
  /\ tx[t].step = "lock" /\ lock[tx[t].row] = NoTx
  /\ Admissible(t)
  /\ lock' = [lock EXCEPT ![tx[t].row] = t]
  /\ \E w \in OwnWrites(t) :
       tx' = [tx EXCEPT ![t].step = StepAfterLock(tx[t].op), ![t].writes = w,
                        ![t].log = OwnLog(t)]
  /\ UNCHANGED tables

RefuseTarget(t) ==
  /\ tx[t].step = "lock" /\ lock[tx[t].row] = NoTx
  /\ ~Admissible(t)
  /\ Rollback(t)

-----------------------------------------------------------------------------
(* Creating a request: the INSERT under the certificate's lock *)

BeingChanged(q) == \E x \in Txs : tx[x] # Idle /\ q \in DOMAIN tx[x].writes

NewRenewal(t, p) ==
  [cert |-> tx[t].row, new_validity |-> p, submitted_by |-> tx[t].actor,
   status |-> "pending_review", reviewed_by |-> NoOne, new_certificate |-> NoId]
NewDeletion(t, reason) ==
  [cert |-> tx[t].row, reason |-> reason, requested_by |-> tx[t].actor,
   status |-> "pending_review", reviewed_by |-> NoOne]

Insert(t) ==
  /\ tx[t].step = "insert"
  /\ Colliding(t) = {}
  /\ \/ /\ tx[t].op = "create_renewal"
        /\ \E r \in RenewalIds, p \in Periods :
             /\ Undrawn(r)
             /\ tx' = [tx EXCEPT ![t].step = "commit", ![t].writes = Only(r, NewRenewal(t, p))]
     \/ /\ tx[t].op = "create_deletion"
        /\ \E d \in DeletionIds, reason \in Reasons :
             /\ Undrawn(d)
             /\ tx' = [tx EXCEPT ![t].step = "commit", ![t].writes = Only(d, NewDeletion(t, reason))]
  /\ UNCHANGED <<certs, renewals, deletions, trail, lock>>

\* A unique violation; or, in the model only, no id left within the bound.
RefuseInsert(t) ==
  /\ tx[t].step = "insert"
  /\ \/ \E q \in Colliding(t) : ~BeingChanged(q)
     \/ /\ Colliding(t) = {}
        /\ \A id \in IF tx[t].op = "create_renewal" THEN RenewalIds ELSE DeletionIds :
             ~Undrawn(id)
  /\ Rollback(t)

-----------------------------------------------------------------------------
(* Approving a request: the certificate, then the other workflow *)

\* The certificate's row is free; one that another transaction holds is waited for.
HoldCert(t) == tx[t].step = "cert" /\ lock[CertOf(t)] = NoTx

\* A renewal retires the certificate in favour of its replacement,
RotationWrites(t, new) ==
  LET c == CertOf(t)
      row == tx[t].row
  IN [id \in {c, new, row} |->
        CASE id = c -> [certs[c] EXCEPT !.rotated_by = tx[t].actor]
          [] id = new -> L!Replacement(certs[c], renewals[row].new_validity, c)
          [] OTHER -> [renewals[row] EXCEPT !.status = "approved", !.reviewed_by = tx[t].actor,
                                            !.new_certificate = new]]
RotationLog(t, new) ==
  [c \in {CertOf(t), new} |->
     [action |-> IF c = new THEN "certificate.create" ELSE "renewal.approve",
      actor |-> tx[t].actor, request |-> tx[t].row]]

\* a deletion hides it.
RemovalWrites(t) ==
  LET c == CertOf(t)
      row == tx[t].row
  IN [id \in {c, row} |->
        IF id = c
        THEN [certs[c] EXCEPT !.deleted_by = tx[t].actor,
                              !.deletion_reason = deletions[row].reason]
        ELSE [deletions[row] EXCEPT !.status = "approved", !.reviewed_by = tx[t].actor]]
RemovalLog(t) ==
  Only(CertOf(t), [action |-> "certificate.delete", actor |-> tx[t].actor,
                   request |-> tx[t].row])

LockCert(t) ==
  /\ HoldCert(t) /\ L!IsLive(CertOf(t))
  /\ lock' = [lock EXCEPT ![CertOf(t)] = t]
  /\ \/ /\ tx[t].op = "approve_renewal"
        /\ \E new \in CertIds :
             /\ Undrawn(new)
             /\ tx' = [tx EXCEPT ![t].step = "close", ![t].writes = RotationWrites(t, new),
                                 ![t].log = RotationLog(t, new)]
     \/ /\ tx[t].op = "approve_deletion"
        /\ tx' = [tx EXCEPT ![t].step = "close", ![t].writes = RemovalWrites(t),
                            ![t].log = RemovalLog(t)]
  /\ UNCHANGED tables

\* The certificate is no longer live; or, in the model only, no id is left for
\* its replacement within the bound.
RefuseCert(t) ==
  /\ HoldCert(t)
  /\ \/ ~L!IsLive(CertOf(t))
     \/ tx[t].op = "approve_renewal" /\ \A id \in CertIds : ~Undrawn(id)
  /\ Rollback(t)

\* The other workflow's open requests on the certificate, closed.
AndClosed(t, writes) ==
  [id \in OtherOpen(t) \cup DOMAIN writes |->
     IF id \in OtherOpen(t) THEN [RequestRow(id) EXCEPT !.status = "withdrawn"] ELSE writes[id]]

\* UPDATE ... WHERE certificate_id = c AND status = 'pending_review'.
CloseOther(t) ==
  /\ tx[t].step = "close"
  /\ \A q \in OtherOpen(t) : lock[q] = NoTx
  /\ lock' = [row \in Rows |-> IF row \in OtherOpen(t) THEN t ELSE lock[row]]
  /\ tx' = [tx EXCEPT ![t].step = "commit", ![t].writes = AndClosed(t, @)]
  /\ UNCHANGED tables

-----------------------------------------------------------------------------
(* Waiting *)

\* Whom a transaction waits for.
WaitsFor(t) ==
  CASE tx[t].step = "lock" -> {lock[tx[t].row]} \ {NoTx}
    [] tx[t].step = "cert" -> {lock[CertOf(t)]} \ {NoTx}
    [] tx[t].step = "close" -> {lock[q] : q \in OtherOpen(t)} \ {NoTx}
    [] tx[t].step = "insert" ->
         {x \in Txs : tx[x] # Idle /\ DOMAIN tx[x].writes \cap Colliding(t) # {}}
    [] OTHER -> {}

\* Transactions that wait for nobody but each other,
Stuck(C) == C # {} /\ \A t \in C : WaitsFor(t) # {} /\ WaitsFor(t) \subseteq C

\* and a circle of them: no part of it is stuck by itself.
Circle(C) == Stuck(C) /\ \A D \in SUBSET C : Stuck(D) => D = C

\* PostgreSQL's deadlock detector picks a victim.
DeadlockAbort(t) ==
  /\ \E C \in SUBSET Txs : t \in C /\ Circle(C)
  /\ Rollback(t)

-----------------------------------------------------------------------------
(* Specification *)

Init ==
  /\ certs = [c \in CertIds |-> NoRow]
  /\ renewals = [r \in RenewalIds |-> NoRow]
  /\ deletions = [d \in DeletionIds |-> NoRow]
  /\ trail = [c \in CertIds |-> <<>>]
  /\ lock = [row \in Rows |-> NoTx]
  /\ tx = [t \in Txs |-> Idle]

\* An INSERT of a new certificate touches no row anybody else can see.
CreateCertificate(u, c, kind, p) ==
  /\ Undrawn(c)
  /\ certs' = [certs EXCEPT ![c] = L!NewCert(kind, p, u, NoId)]
  /\ trail' = L!Audited(trail, c, "certificate.create", u, NoId)
  /\ UNCHANGED <<renewals, deletions, lock, tx>>

Step(t) ==
  \/ LockTarget(t) \/ RefuseTarget(t)
  \/ Insert(t) \/ RefuseInsert(t)
  \/ LockCert(t) \/ RefuseCert(t)
  \/ CloseOther(t)
  \/ Commit(t)

Next ==
  \/ \E u \in Users, c \in CertIds, kind \in L!Kinds, p \in Periods :
       CreateCertificate(u, c, kind, p)
  \/ \E t \in Txs :
       \/ \E u \in Users, row \in Rows, op \in CertOps \cup RenewalOps \cup DeletionOps :
            Begin(t, u, op, row)
       \/ Step(t)
       \/ DeadlockAbort(t)
       \/ Fail(t)

Spec == Init /\ [][Next]_vars

\* The server keeps executing the statements of a request; row locks are
\* granted first come, first served, so a waiter gets its turn (SF); and the
\* deadlock detector runs.
Fairness == \A t \in Txs : SF_vars(Step(t)) /\ WF_vars(DeadlockAbort(t))

FairSpec == Spec /\ Fairness

-----------------------------------------------------------------------------
(* Properties *)

RowsOf(id) ==
  IF id \in CertIds THEN L!CertRow ELSE IF id \in RenewalIds THEN L!RenewalRow ELSE L!DeletionRow

Progress(writes, log) ==
  [op : CertOps \cup RenewalOps \cup DeletionOps, actor : Users, row : Rows,
   step : {"lock", "insert", "cert", "close", "commit"}, writes : {writes}, log : {log}]

TypeOK ==
  /\ L!TypeOK
  /\ lock \in [Rows -> Txs \cup {NoTx}]
  /\ DOMAIN tx = Txs
  /\ \A t \in Txs :
       \/ tx[t] = Idle
       \/ /\ tx[t] \in Progress(tx[t].writes, tx[t].log)
          /\ \A id \in DOMAIN tx[t].writes : id \in Rows /\ tx[t].writes[id] \in RowsOf(id)
          /\ \A c \in DOMAIN tx[t].log : c \in CertIds /\ tx[t].log[c] \in L!TrailRow

\* Row locks make the transactions atomic: whatever the interleaving, the
\* committed tables move exactly as the one-step operations of Lifecycle do.
RefinesLifecycle == L!Spec

\* The only requests that can block each other for good are the approval of a
\* renewal and the approval of a deletion of one certificate, which lock the
\* same rows in opposite orders; every other pair takes its locks in one order.
OnlyApprovalsDeadlock ==
  \A C \in SUBSET Txs : Circle(C) =>
    /\ {tx[t].op : t \in C} = {"approve_renewal", "approve_deletion"}
    /\ \A t, x \in C : CertOf(t) = CertOf(x)

\* Every request comes to an end: no lock is left behind by an error path, and
\* nobody waits for ever.
EveryRequestEnds == \A t \in Txs : tx[t] # Idle ~> tx[t] = Idle
=============================================================================
