--------------------------- MODULE LifecycleProofs ---------------------------
(***************************************************************************)
(* Proofs about Lifecycle, for every set of accounts, periods and reasons  *)
(* and for tables of any size.                                             *)
(***************************************************************************)
EXTENDS Lifecycle, TLAPS

-----------------------------------------------------------------------------
(* Type correctness *)

\* A freshly inserted certificate is a row.
LEMMA NewCertType ==
  ASSUME NEW kind \in Kinds, NEW p \in Periods, NEW o \in Users,
         NEW from \in CertIds \cup {NoId}
  PROVE  NewCert(kind, p, o, from) \in CertRow
BY DEF NewCert, CertRow

\* Rows that exist are rows.
LEMMA RowsTyped ==
  ASSUME TypeOK
  PROVE  /\ \A c \in CertIds : certs[c] # NoRow => certs[c] \in CertRow
         /\ \A r \in RenewalIds : renewals[r] # NoRow => renewals[r] \in RenewalRow
         /\ \A d \in DeletionIds : deletions[d] # NoRow => deletions[d] \in DeletionRow
BY DEF TypeOK

\* Appending an audit row keeps every trail a sequence of audit rows.
LEMMA AuditedType ==
  ASSUME NEW log \in [CertIds -> Seq(TrailRow)], NEW c \in CertIds,
         NEW action \in {"certificate.create", "renewal.approve",
                         "certificate.delete", "certificate.restore"},
         NEW actor \in Users,
         NEW request \in RenewalIds \cup DeletionIds \cup {NoId}
  PROVE  Audited(log, c, action, actor, request) \in [CertIds -> Seq(TrailRow)]
<1> DEFINE row == [action |-> action, actor |-> actor, request |-> request]
<1>1. row \in TrailRow
  BY DEF TrailRow
<1>2. Append(log[c], row) \in Seq(TrailRow)
  BY <1>1
<1> QED
  BY <1>2 DEF Audited

\* Closing the other workflow's open request keeps its table well-formed.
LEMMA CloseTypes ==
  ASSUME TypeOK
  PROVE  /\ \A c \in CertIds : CloseRenewals(c) \in [RenewalIds -> RenewalRow \cup {NoRow}]
         /\ \A c \in CertIds : CloseDeletions(c) \in [DeletionIds -> DeletionRow \cup {NoRow}]
<1>1. \A r \in RenewalIds : RenewalOpen(r) =>
         [renewals[r] EXCEPT !.status = "withdrawn"] \in RenewalRow
  BY RowsTyped DEF RenewalRow, RenewalOpen, Statuses
<1>2. \A d \in DeletionIds : DeletionOpen(d) =>
         [deletions[d] EXCEPT !.status = "withdrawn"] \in DeletionRow
  BY RowsTyped DEF DeletionRow, DeletionOpen, Statuses
<1> QED
  BY <1>1, <1>2 DEF TypeOK, CloseRenewals, CloseDeletions

LEMMA InitTypeOK == Init => TypeOK
BY DEF Init, TypeOK

\* Every operation keeps the tables well-formed.
LEMMA TypeOKStep ==
  ASSUME TypeOK, Next
  PROVE  TypeOK'
<1> USE DEF Statuses
<1>0. PICK u \in Users : CertStep(u) \/ RenewalStep(u) \/ DeletionStep(u)
  BY DEF Next
<1>1. ASSUME NEW c \in CertIds, NEW kind \in Kinds, NEW p \in Periods,
             CreateCertificate(u, c, kind, p)
      PROVE  TypeOK'
  BY <1>1, NewCertType, AuditedType DEF TypeOK, CreateCertificate
<1>2. ASSUME NEW c \in CertIds, NEW p \in Periods, UpdateCertificate(u, c, p)
      PROVE  TypeOK'
  BY <1>2, RowsTyped DEF TypeOK, UpdateCertificate, LockCertForWrite, CertExists, CertRow
<1>3. ASSUME NEW c \in CertIds, NEW v \in Users, TransferOwner(u, c, v)
      PROVE  TypeOK'
  BY <1>3, RowsTyped DEF TypeOK, TransferOwner, LockCertForWrite, CertExists, CertRow
<1>4. ASSUME NEW c \in CertIds, RestoreCertificate(u, c)
      PROVE  TypeOK'
  <2>1. certs' \in [CertIds -> CertRow \cup {NoRow}]
    BY <1>4, RowsTyped DEF TypeOK, RestoreCertificate, CertExists, CertRow
  <2> QED
    BY <1>4, <2>1, AuditedType DEF TypeOK, RestoreCertificate
<1>5. ASSUME NEW r \in RenewalIds, NEW c \in CertIds, NEW p \in Periods,
             CreateRenewal(u, r, c, p)
      PROVE  TypeOK'
  BY <1>5 DEF TypeOK, CreateRenewal, RenewalRow
<1>6. ASSUME NEW r \in RenewalIds, NEW new \in CertIds, ApproveRenewal(u, r, new)
      PROVE  TypeOK'
  <2> DEFINE c == renewals[r].cert
  <2>1. renewals[r] \in RenewalRow /\ c \in CertIds
    BY <1>6, RowsTyped DEF ApproveRenewal, LockRenewal, RenewalOpen, RenewalRow
  <2>2. certs[c] \in CertRow
    BY <1>6, <2>1, RowsTyped DEF ApproveRenewal, CertExists
  <2>3. Replacement(certs[c], renewals[r].new_validity, c) \in CertRow
    BY <2>1, <2>2, NewCertType DEF Replacement, CertRow, RenewalRow
  <2>4. certs' \in [CertIds -> CertRow \cup {NoRow}]
    <3>1. new # c
      BY <1>6, <2>1 DEF ApproveRenewal, Unused, CertExists, TypeOK
    <3>2. [certs[c] EXCEPT !.rotated_by = u] \in CertRow
      BY <2>2 DEF CertRow
    <3>3. certs' = [i \in CertIds |->
                      IF i = c THEN [certs[c] EXCEPT !.rotated_by = u]
                      ELSE IF i = new
                           THEN Replacement(certs[c], renewals[r].new_validity, c)
                           ELSE certs[i]]
      BY <1>6, <2>1, <3>1 DEF ApproveRenewal, TypeOK
    <3> QED
      BY <3>2, <3>3, <2>3 DEF TypeOK
  <2>5. renewals' \in [RenewalIds -> RenewalRow \cup {NoRow}]
    BY <1>6, <2>1 DEF ApproveRenewal, TypeOK, RenewalRow
  <2>6. deletions' \in [DeletionIds -> DeletionRow \cup {NoRow}]
    BY <1>6, <2>1, CloseTypes DEF ApproveRenewal
  <2>7. trail' \in [CertIds -> Seq(TrailRow)]
    <3>1. Audited(trail, c, "renewal.approve", u, r) \in [CertIds -> Seq(TrailRow)]
      BY <2>1, AuditedType DEF TypeOK
    <3> QED
      BY <1>6, <3>1, AuditedType DEF ApproveRenewal
  <2> QED
    BY <2>4, <2>5, <2>6, <2>7 DEF TypeOK
<1>7. ASSUME NEW r \in RenewalIds, RejectRenewal(u, r) \/ WithdrawRenewal(u, r)
      PROVE  TypeOK'
  <2>1. renewals[r] \in RenewalRow
    BY <1>7, RowsTyped DEF RejectRenewal, WithdrawRenewal, LockRenewal, RenewalOpen
  <2>2. CASE RejectRenewal(u, r)
    BY <2>1, <2>2 DEF TypeOK, RejectRenewal, RenewalRow
  <2>3. CASE WithdrawRenewal(u, r)
    BY <2>1, <2>3 DEF TypeOK, WithdrawRenewal, RenewalRow
  <2> QED
    BY <1>7, <2>2, <2>3
<1>8. ASSUME NEW d \in DeletionIds, NEW c \in CertIds, NEW reason \in Reasons,
             CreateDeletion(u, d, c, reason)
      PROVE  TypeOK'
  BY <1>8 DEF TypeOK, CreateDeletion, DeletionRow
<1>9. ASSUME NEW d \in DeletionIds, ApproveDeletion(u, d)
      PROVE  TypeOK'
  <2> DEFINE c == deletions[d].cert
  <2>1. deletions[d] \in DeletionRow /\ c \in CertIds
    BY <1>9, RowsTyped DEF ApproveDeletion, LockDeletion, DeletionOpen, DeletionRow
  <2>2. certs[c] \in CertRow
    BY <1>9, <2>1, RowsTyped DEF ApproveDeletion, CertExists
  <2>3. certs' \in [CertIds -> CertRow \cup {NoRow}]
    BY <1>9, <2>1, <2>2 DEF ApproveDeletion, TypeOK, CertRow, DeletionRow
  <2>4. deletions' \in [DeletionIds -> DeletionRow \cup {NoRow}]
    BY <1>9, <2>1 DEF ApproveDeletion, TypeOK, DeletionRow
  <2>5. renewals' \in [RenewalIds -> RenewalRow \cup {NoRow}]
    BY <1>9, <2>1, CloseTypes DEF ApproveDeletion
  <2>6. trail' \in [CertIds -> Seq(TrailRow)]
    BY <1>9, <2>1, AuditedType DEF ApproveDeletion, TypeOK
  <2> QED
    BY <2>3, <2>4, <2>5, <2>6 DEF TypeOK
<1>10. ASSUME NEW d \in DeletionIds, RejectDeletion(u, d) \/ WithdrawDeletion(u, d)
       PROVE  TypeOK'
  <2>1. deletions[d] \in DeletionRow
    BY <1>10, RowsTyped DEF RejectDeletion, WithdrawDeletion, LockDeletion, DeletionOpen
  <2>2. CASE RejectDeletion(u, d)
    BY <2>1, <2>2 DEF TypeOK, RejectDeletion, DeletionRow
  <2>3. CASE WithdrawDeletion(u, d)
    BY <2>1, <2>3 DEF TypeOK, WithdrawDeletion, DeletionRow
  <2> QED
    BY <1>10, <2>2, <2>3
<1> QED
  BY <1>0, <1>1, <1>2, <1>3, <1>4, <1>5, <1>6, <1>7, <1>8, <1>9, <1>10
     DEF CertStep, RenewalStep, DeletionStep

\* Every reachable state of the tables is well-formed.
THEOREM TypeCorrect == Spec => []TypeOK
<1>1. TypeOK /\ UNCHANGED vars => TypeOK'
  BY DEF TypeOK, vars
<1> QED
  BY <1>1, InitTypeOK, TypeOKStep, PTL DEF Spec

-----------------------------------------------------------------------------
(* The inductive invariant, one lemma per operation *)

LEMMA InitIInv == Init => IInv
BY InitTypeOK
   DEF Init, IInv, ForeignKeys, OneOpenRequest, OpenRequestsOnLiveCerts,
       NeverRotatedAndDeleted, RotationIsExact, FourEyes, LineageKeepsKind,
       TrailExplainsState, CertExists, RenewalOpen, DeletionOpen

\* What an edit of the owner or of the dates leaves alone.
SameStanding ==
  \A c \in CertIds :
    /\ CertExists(c)' <=> CertExists(c)
    /\ CertExists(c) =>
         /\ certs'[c].kind = certs[c].kind
         /\ certs'[c].renewed_from = certs[c].renewed_from
         /\ certs'[c].rotated_by = certs[c].rotated_by
         /\ certs'[c].deleted_by = certs[c].deleted_by
         /\ certs'[c].deletion_reason = certs[c].deletion_reason

LEMMA EditStep ==
  ASSUME IInv, TypeOK', NEW u \in Users, NEW c \in CertIds,
         \/ \E p \in Periods : UpdateCertificate(u, c, p)
         \/ \E v \in Users : TransferOwner(u, c, v)
  PROVE  IInv'
<1> USE DEF CertExists
<1>1. SameStanding /\ UNCHANGED <<renewals, deletions, trail>>
  <2>1. certs[c] \in CertRow
    BY RowsTyped DEF IInv, UpdateCertificate, TransferOwner, LockCertForWrite
  <2>2. CASE \E p \in Periods : UpdateCertificate(u, c, p)
    <3>1. PICK p \in Periods : UpdateCertificate(u, c, p)
      BY <2>2
    <3>2. [certs[c] EXCEPT !.validity = p] \in CertRow
      BY <2>1 DEF CertRow
    <3>3. certs' = [i \in CertIds |-> IF i = c THEN [certs[c] EXCEPT !.validity = p]
                                                ELSE certs[i]]
      BY <3>1 DEF UpdateCertificate, IInv, TypeOK
    <3> QED
      BY <2>1, <3>1, <3>2, <3>3, NoRowAssumption
         DEF UpdateCertificate, SameStanding, CertRow
  <2>3. CASE \E v \in Users : TransferOwner(u, c, v)
    <3>1. PICK v \in Users : TransferOwner(u, c, v)
      BY <2>3
    <3>2. [certs[c] EXCEPT !.owner = v] \in CertRow
      BY <2>1 DEF CertRow
    <3>3. certs' = [i \in CertIds |-> IF i = c THEN [certs[c] EXCEPT !.owner = v]
                                                ELSE certs[i]]
      BY <3>1 DEF TransferOwner, IInv, TypeOK
    <3> QED
      BY <2>1, <3>1, <3>2, <3>3, NoRowAssumption
         DEF TransferOwner, SameStanding, CertRow
  <2> QED
    BY <2>2, <2>3
<1>2. \A i \in CertIds : certs[i] # NoRow =>
        certs[i].renewed_from \in CertIds \cup {NoId}
  BY RowsTyped DEF IInv, CertRow
<1>3. ForeignKeys'
  <2>1. \A r \in RenewalIds : renewals[r] # NoRow => renewals[r].cert \in CertIds
    BY RowsTyped DEF IInv, RenewalRow
  <2>2. \A d \in DeletionIds : deletions[d] # NoRow => deletions[d].cert \in CertIds
    BY RowsTyped DEF IInv, DeletionRow
  <2> QED
    BY <1>1, <1>2, <2>1, <2>2 DEF IInv, ForeignKeys, SameStanding
<1>4. OneOpenRequest'
  BY <1>1 DEF IInv, OneOpenRequest, RenewalOpen, DeletionOpen
<1>5. OpenRequestsOnLiveCerts'
  <2>1. \A r \in RenewalIds : renewals[r] # NoRow => renewals[r].cert \in CertIds
    BY RowsTyped DEF IInv, RenewalRow
  <2>2. \A d \in DeletionIds : deletions[d] # NoRow => deletions[d].cert \in CertIds
    BY RowsTyped DEF IInv, DeletionRow
  <2> QED
    BY <1>1, <2>1, <2>2
       DEF IInv, OpenRequestsOnLiveCerts, SameStanding, IsLive, RenewalOpen, DeletionOpen
<1>6. NeverRotatedAndDeleted'
  BY <1>1 DEF IInv, NeverRotatedAndDeleted, SameStanding
<1>7. RotationIsExact'
  BY <1>1 DEF IInv, RotationIsExact, SameStanding, RenewedBy
<1>8. FourEyes'
  BY <1>1 DEF IInv, FourEyes, SameStanding, RenewedBy
<1>9. LineageKeepsKind'
  BY <1>1 DEF IInv, LineageKeepsKind, SameStanding
<1>10. TrailExplainsState'
  BY <1>1 DEF IInv, TrailExplainsState, SameStanding, RenewedBy
<1> QED
  BY <1>3, <1>4, <1>5, <1>6, <1>7, <1>8, <1>9, <1>10 DEF IInv

\* What rows refer to lies within the tables' id ranges.
LEMMA References ==
  ASSUME TypeOK
  PROVE  /\ \A c \in CertIds : CertExists(c) =>
              certs[c].renewed_from \in CertIds \cup {NoId}
         /\ \A r \in RenewalIds : renewals[r] # NoRow => renewals[r].cert \in CertIds
         /\ \A d \in DeletionIds : deletions[d] # NoRow => deletions[d].cert \in CertIds
         /\ NoId \notin CertIds
BY RowsTyped, NullAssumption DEF CertExists, CertRow, RenewalRow, DeletionRow

\* The id an INSERT draws has no row, and nothing refers to it yet.
LEMMA FreshCert ==
  ASSUME IInv, NEW new \in CertIds, Unused(certs, new)
  PROVE  /\ ~CertExists(new)
         /\ \A c \in CertIds : CertExists(c) =>
              c # new /\ certs[c].renewed_from # new
         /\ \A r \in RenewalIds : renewals[r] # NoRow => renewals[r].cert # new
         /\ \A d \in DeletionIds : deletions[d] # NoRow => deletions[d].cert # new
<1>1. ~CertExists(new)
  BY DEF IInv, TypeOK, Unused, CertExists
<1> QED
  BY <1>1, References DEF IInv, ForeignKeys

\* What a trail says after one more row.
LEMMA AuditedLast ==
  ASSUME NEW log \in [CertIds -> Seq(TrailRow)], NEW c \in CertIds,
         NEW action, NEW actor, NEW request,
         [action |-> action, actor |-> actor, request |-> request] \in TrailRow
  PROVE  LET new == Audited(log, c, action, actor, request)
         IN /\ new[c] # <<>>
            /\ new[c][Len(new[c])] =
                 [action |-> action, actor |-> actor, request |-> request]
            /\ \A i \in CertIds : i # c => new[i] = log[i]
<1> DEFINE row == [action |-> action, actor |-> actor, request |-> request]
<1>1. log[c] \in Seq(TrailRow)
  OBVIOUS
<1>2. /\ Append(log[c], row) # <<>>
      /\ Append(log[c], row)[Len(Append(log[c], row))] = row
  BY <1>1
<1>3. Audited(log, c, action, actor, request)[c] = Append(log[c], row)
  BY DEF Audited
<1> QED
  BY <1>2, <1>3 DEF Audited

LEMMA CreateCertificateStep ==
  ASSUME IInv, TypeOK', NEW u \in Users, NEW c \in CertIds, NEW kind \in Kinds,
         NEW p \in Periods, CreateCertificate(u, c, kind, p)
  PROVE  IInv'
<1> USE DEF CertExists
<1>1. /\ certs' = [i \in CertIds |-> IF i = c THEN NewCert(kind, p, u, NoId) ELSE certs[i]]
      /\ UNCHANGED <<renewals, deletions>>
      /\ Unused(certs, c)
  BY DEF CreateCertificate, IInv, TypeOK
<1>2. /\ NewCert(kind, p, u, NoId) # NoRow
      /\ NewCert(kind, p, u, NoId).renewed_from = NoId
      /\ NewCert(kind, p, u, NoId).rotated_by = NoOne
      /\ NewCert(kind, p, u, NoId).deleted_by = NoOne
      /\ NewCert(kind, p, u, NoId).deletion_reason = NoReason
  BY NewCertType, NoRowAssumption DEF NewCert
<1>3. /\ TypeOK /\ ~CertExists(c)
      /\ \A i \in CertIds : CertExists(i) => i # c /\ certs[i].renewed_from # c
      /\ \A r \in RenewalIds : renewals[r] # NoRow => renewals[r].cert # c
      /\ \A d \in DeletionIds : deletions[d] # NoRow => deletions[d].cert # c
  BY <1>1, FreshCert DEF IInv
<1>4. ForeignKeys'
  BY <1>1, <1>2, <1>3, References DEF IInv, ForeignKeys
<1>5. OneOpenRequest'
  BY <1>1 DEF IInv, OneOpenRequest, RenewalOpen, DeletionOpen
<1>6. OpenRequestsOnLiveCerts'
  BY <1>1, <1>2, <1>3, References
     DEF IInv, OpenRequestsOnLiveCerts, IsLive, RenewalOpen, DeletionOpen
<1>7. NeverRotatedAndDeleted'
  BY <1>1, <1>2 DEF IInv, NeverRotatedAndDeleted
<1>8. RotationIsExact'
  <2> SUFFICES ASSUME NEW i \in CertIds
               PROVE  RotationIsExact!(i)'
    BY DEF RotationIsExact
  <2>1. CASE i = c
    BY <2>1, <1>1, <1>2, <1>3, References DEF RenewedBy
  <2>2. CASE i # c
    BY <2>2, <1>1, <1>2, <1>3, References DEF IInv, RotationIsExact, RenewedBy
  <2> QED
    BY <2>1, <2>2
<1>9. FourEyes'
  BY <1>1, <1>2 DEF IInv, FourEyes, RenewedBy
<1>10. LineageKeepsKind'
  BY <1>1, <1>2, <1>3, References DEF IInv, LineageKeepsKind
<1>11. TrailExplainsState'
  <2>1. /\ trail'[c] # <<>>
        /\ trail'[c][Len(trail'[c])].action = "certificate.create"
        /\ \A i \in CertIds : i # c => trail'[i] = trail[i]
    <3>1. [action |-> "certificate.create", actor |-> u, request |-> NoId] \in TrailRow
      BY DEF TrailRow
    <3>2. trail \in [CertIds -> Seq(TrailRow)]
      BY <1>3 DEF TypeOK
    <3>3. trail' = Audited(trail, c, "certificate.create", u, NoId)
      BY DEF CreateCertificate
    <3> QED
      BY <3>1, <3>2, <3>3, AuditedLast
  <2> QED
    BY <2>1, <1>1, <1>2 DEF IInv, TrailExplainsState, RenewedBy
<1> QED
  BY <1>4, <1>5, <1>6, <1>7, <1>8, <1>9, <1>10, <1>11 DEF IInv

LEMMA RestoreCertificateStep ==
  ASSUME IInv, TypeOK', NEW u \in Users, NEW c \in CertIds, RestoreCertificate(u, c)
  PROVE  IInv'
<1> USE DEF CertExists
<1> DEFINE row == [certs[c] EXCEPT !.deleted_by = NoOne, !.deletion_reason = NoReason]
<1>1. /\ certs' = [i \in CertIds |-> IF i = c THEN row ELSE certs[i]]
      /\ UNCHANGED <<renewals, deletions>>
      /\ certs[c] # NoRow /\ certs[c].deleted_by # NoOne
  BY DEF RestoreCertificate, IInv, TypeOK
<1>2. certs[c] \in CertRow /\ row \in CertRow /\ row # NoRow
  <2>1. certs[c] \in CertRow
    BY <1>1, RowsTyped DEF IInv
  <2> QED
    BY <2>1, NoRowAssumption DEF CertRow
<1>3. /\ row.kind = certs[c].kind
      /\ row.renewed_from = certs[c].renewed_from
      /\ row.rotated_by = NoOne
      /\ row.deleted_by = NoOne
      /\ row.deletion_reason = NoReason
      /\ certs[c].rotated_by = NoOne
  BY <1>1, <1>2 DEF CertRow, IInv, NeverRotatedAndDeleted
<1> HIDE DEF row
<1>4. ForeignKeys'
  BY <1>1, <1>2, <1>3, References DEF IInv, ForeignKeys
<1>5. OneOpenRequest'
  BY <1>1 DEF IInv, OneOpenRequest, RenewalOpen, DeletionOpen
<1>6. OpenRequestsOnLiveCerts'
  BY <1>1, <1>2, <1>3, References
     DEF IInv, OpenRequestsOnLiveCerts, IsLive, RenewalOpen, DeletionOpen
<1>7. NeverRotatedAndDeleted'
  BY <1>1, <1>3 DEF IInv, NeverRotatedAndDeleted
<1>8. RotationIsExact'
  BY <1>1, <1>2, <1>3 DEF IInv, RotationIsExact, RenewedBy
<1>9. FourEyes'
  BY <1>1, <1>3 DEF IInv, FourEyes, RenewedBy
<1>10. LineageKeepsKind'
  BY <1>1, <1>2, <1>3 DEF IInv, LineageKeepsKind
<1>11. TrailExplainsState'
  <2>1. /\ trail'[c] # <<>>
        /\ trail'[c][Len(trail'[c])].action = "certificate.restore"
        /\ \A i \in CertIds : i # c => trail'[i] = trail[i]
    <3>1. [action |-> "certificate.restore", actor |-> u, request |-> NoId] \in TrailRow
      BY DEF TrailRow
    <3>2. trail \in [CertIds -> Seq(TrailRow)]
      BY DEF IInv, TypeOK
    <3>3. trail' = Audited(trail, c, "certificate.restore", u, NoId)
      BY DEF RestoreCertificate
    <3> QED
      BY <3>1, <3>2, <3>3, AuditedLast
  <2> QED
    BY <2>1, <1>1, <1>2, <1>3 DEF IInv, TrailExplainsState, RenewedBy
<1> QED
  BY <1>4, <1>5, <1>6, <1>7, <1>8, <1>9, <1>10, <1>11 DEF IInv

LEMMA CreateRenewalStep ==
  ASSUME IInv, TypeOK', NEW u \in Users, NEW r \in RenewalIds, NEW c \in CertIds,
         NEW p \in Periods, CreateRenewal(u, r, c, p)
  PROVE  IInv'
<1> USE DEF CertExists
<1> DEFINE row == [cert |-> c, new_validity |-> p, submitted_by |-> u,
                   status |-> "pending_review", reviewed_by |-> NoOne,
                   new_certificate |-> NoId]
<1>1. /\ renewals' = [i \in RenewalIds |-> IF i = r THEN row ELSE renewals[i]]
      /\ UNCHANGED <<certs, deletions, trail>>
      /\ certs[c] # NoRow /\ IsLive(c)
      /\ \A q \in RenewalIds : RenewalOpen(q) => renewals[q].cert # c
  BY DEF CreateRenewal, LockCertForWrite, IInv, TypeOK
<1>2. renewals[r] = NoRow
  BY DEF IInv, TypeOK, CreateRenewal, Unused
<1>3. row.cert = c /\ row.status = "pending_review" /\ row # NoRow
  BY NoRowAssumption DEF RenewalRow, Statuses
<1> HIDE DEF row
<1>4. ForeignKeys'
  BY <1>1, <1>3 DEF IInv, ForeignKeys
<1>5. OneOpenRequest'
  BY <1>1, <1>3 DEF IInv, OneOpenRequest, RenewalOpen, DeletionOpen
<1>6. OpenRequestsOnLiveCerts'
  BY <1>1, <1>3 DEF IInv, OpenRequestsOnLiveCerts, IsLive, RenewalOpen, DeletionOpen
<1>7. NeverRotatedAndDeleted'
  BY <1>1 DEF IInv, NeverRotatedAndDeleted
<1>8. \A q \in RenewalIds, i \in CertIds :
        /\ RenewedBy(q, i)' <=> RenewedBy(q, i)
        /\ RenewedBy(q, i) => renewals'[q] = renewals[q]
  BY <1>1, <1>2, <1>3 DEF RenewedBy
<1>9. RotationIsExact'
  BY <1>1, <1>8 DEF IInv, RotationIsExact
<1>10. FourEyes'
  BY <1>1, <1>8 DEF IInv, FourEyes
<1>11. LineageKeepsKind'
  BY <1>1 DEF IInv, LineageKeepsKind
<1>12. TrailExplainsState'
  BY <1>1, <1>8 DEF IInv, TrailExplainsState
<1> QED
  BY <1>4, <1>5, <1>6, <1>7, <1>9, <1>10, <1>11, <1>12 DEF IInv

LEMMA CreateDeletionStep ==
  ASSUME IInv, TypeOK', NEW u \in Users, NEW d \in DeletionIds, NEW c \in CertIds,
         NEW reason \in Reasons, CreateDeletion(u, d, c, reason)
  PROVE  IInv'
<1> USE DEF CertExists
<1> DEFINE row == [cert |-> c, reason |-> reason, requested_by |-> u,
                   status |-> "pending_review", reviewed_by |-> NoOne]
<1>1. /\ deletions' = [i \in DeletionIds |-> IF i = d THEN row ELSE deletions[i]]
      /\ UNCHANGED <<certs, renewals, trail>>
      /\ certs[c] # NoRow /\ IsLive(c)
      /\ \A q \in DeletionIds : DeletionOpen(q) => deletions[q].cert # c
  BY DEF CreateDeletion, LockCertForWrite, IInv, TypeOK
<1>2. deletions[d] = NoRow
  BY DEF IInv, TypeOK, CreateDeletion, Unused
<1>3. row.cert = c /\ row.status = "pending_review" /\ row # NoRow
  BY NoRowAssumption DEF DeletionRow, Statuses
<1> HIDE DEF row
<1>4. ForeignKeys'
  BY <1>1, <1>3 DEF IInv, ForeignKeys
<1>5. OneOpenRequest'
  BY <1>1, <1>3 DEF IInv, OneOpenRequest, RenewalOpen, DeletionOpen
<1>6. OpenRequestsOnLiveCerts'
  BY <1>1, <1>3 DEF IInv, OpenRequestsOnLiveCerts, IsLive, RenewalOpen, DeletionOpen
<1>7. NeverRotatedAndDeleted'
  BY <1>1 DEF IInv, NeverRotatedAndDeleted
<1>8. RotationIsExact'
  BY <1>1 DEF IInv, RotationIsExact, RenewedBy
<1>9. FourEyes'
  BY <1>1, <1>2 DEF IInv, FourEyes, RenewedBy
<1>10. LineageKeepsKind'
  BY <1>1 DEF IInv, LineageKeepsKind
<1>11. TrailExplainsState'
  BY <1>1, <1>2 DEF IInv, TrailExplainsState, RenewedBy
<1> QED
  BY <1>4, <1>5, <1>6, <1>7, <1>8, <1>9, <1>10, <1>11 DEF IInv

\* A request that is rejected or withdrawn: nothing else changes.
LEMMA CloseRenewalStep ==
  ASSUME IInv, TypeOK', NEW u \in Users, NEW r \in RenewalIds,
         RejectRenewal(u, r) \/ WithdrawRenewal(u, r)
  PROVE  IInv'
<1> USE DEF CertExists
<1>1. /\ UNCHANGED <<certs, deletions, trail>>
      /\ RenewalOpen(r)
      /\ \A q \in RenewalIds : q # r => renewals'[q] = renewals[q]
      /\ renewals'[r].status \in {"rejected", "withdrawn"}
      /\ renewals'[r].cert = renewals[r].cert
  <2>1. renewals[r] \in RenewalRow /\ RenewalOpen(r)
    BY RowsTyped DEF IInv, RejectRenewal, WithdrawRenewal, LockRenewal, RenewalOpen
  <2>2. CASE RejectRenewal(u, r)
    BY <2>1, <2>2 DEF RejectRenewal, IInv, TypeOK, RenewalRow
  <2>3. CASE WithdrawRenewal(u, r)
    BY <2>1, <2>3 DEF WithdrawRenewal, IInv, TypeOK, RenewalRow
  <2> QED
    BY <2>2, <2>3
<1>2. /\ \A q \in RenewalIds : RenewalOpen(q)' =>
           q # r /\ RenewalOpen(q) /\ renewals'[q] = renewals[q]
      /\ \A q \in RenewalIds, i \in CertIds :
           /\ RenewedBy(q, i)' <=> RenewedBy(q, i)
           /\ RenewedBy(q, i) => renewals'[q] = renewals[q]
  BY <1>1 DEF RenewalOpen, RenewedBy
<1>3. ForeignKeys'
  BY <1>1 DEF IInv, ForeignKeys, RenewalOpen
<1>4. OneOpenRequest'
  BY <1>1, <1>2 DEF IInv, OneOpenRequest, DeletionOpen
<1>5. OpenRequestsOnLiveCerts'
  BY <1>1, <1>2 DEF IInv, OpenRequestsOnLiveCerts, IsLive, DeletionOpen
<1>6. NeverRotatedAndDeleted'
  BY <1>1 DEF IInv, NeverRotatedAndDeleted
<1>7. RotationIsExact'
  BY <1>1, <1>2 DEF IInv, RotationIsExact
<1>8. FourEyes'
  BY <1>1, <1>2 DEF IInv, FourEyes
<1>9. LineageKeepsKind'
  BY <1>1 DEF IInv, LineageKeepsKind
<1>10. TrailExplainsState'
  BY <1>1, <1>2 DEF IInv, TrailExplainsState
<1> QED
  BY <1>3, <1>4, <1>5, <1>6, <1>7, <1>8, <1>9, <1>10 DEF IInv

LEMMA CloseDeletionStep ==
  ASSUME IInv, TypeOK', NEW u \in Users, NEW d \in DeletionIds,
         RejectDeletion(u, d) \/ WithdrawDeletion(u, d)
  PROVE  IInv'
<1> USE DEF CertExists
<1>1. /\ UNCHANGED <<certs, renewals, trail>>
      /\ DeletionOpen(d)
      /\ \A q \in DeletionIds : q # d => deletions'[q] = deletions[q]
      /\ deletions'[d].status \in {"rejected", "withdrawn"}
      /\ deletions'[d].cert = deletions[d].cert
      /\ deletions'[d].reason = deletions[d].reason
  <2>1. deletions[d] \in DeletionRow /\ DeletionOpen(d)
    BY RowsTyped DEF IInv, RejectDeletion, WithdrawDeletion, LockDeletion, DeletionOpen
  <2>2. CASE RejectDeletion(u, d)
    BY <2>1, <2>2 DEF RejectDeletion, IInv, TypeOK, DeletionRow
  <2>3. CASE WithdrawDeletion(u, d)
    BY <2>1, <2>3 DEF WithdrawDeletion, IInv, TypeOK, DeletionRow
  <2> QED
    BY <2>2, <2>3
<1>2. /\ \A q \in DeletionIds : DeletionOpen(q)' =>
           q # d /\ DeletionOpen(q) /\ deletions'[q] = deletions[q]
      /\ \A q \in DeletionIds : deletions[q] # NoRow /\ deletions[q].status = "approved"
           => deletions'[q] = deletions[q]
  BY <1>1 DEF DeletionOpen
<1>3. ForeignKeys'
  BY <1>1 DEF IInv, ForeignKeys, DeletionOpen
<1>4. OneOpenRequest'
  BY <1>1, <1>2 DEF IInv, OneOpenRequest, RenewalOpen
<1>5. OpenRequestsOnLiveCerts'
  BY <1>1, <1>2 DEF IInv, OpenRequestsOnLiveCerts, IsLive, RenewalOpen
<1>6. NeverRotatedAndDeleted'
  BY <1>1 DEF IInv, NeverRotatedAndDeleted
<1>7. RotationIsExact'
  BY <1>1 DEF IInv, RotationIsExact, RenewedBy
<1>8. FourEyes'
  BY <1>1, <1>2 DEF IInv, FourEyes, RenewedBy
<1>9. LineageKeepsKind'
  BY <1>1 DEF IInv, LineageKeepsKind
<1>10. TrailExplainsState'
  <2>1. \A q \in DeletionIds : deletions[q] # NoRow => deletions'[q] # NoRow
    <3>1. [deletions[d] EXCEPT !.status = "withdrawn"] \in DeletionRow
      BY <1>1, RowsTyped DEF IInv, DeletionOpen, DeletionRow, Statuses
    <3>2. [deletions[d] EXCEPT !.status = "rejected", !.reviewed_by = u] \in DeletionRow
      BY <1>1, RowsTyped DEF IInv, DeletionOpen, DeletionRow, Statuses
    <3> QED
      BY <1>1, <3>1, <3>2, NoRowAssumption DEF IInv, TypeOK, RejectDeletion, WithdrawDeletion
  <2> QED
    BY <1>1, <2>1 DEF IInv, TrailExplainsState, RenewedBy
<1> QED
  BY <1>3, <1>4, <1>5, <1>6, <1>7, <1>8, <1>9, <1>10 DEF IInv

LEMMA ApproveDeletionStep ==
  ASSUME IInv, TypeOK', NEW u \in Users, NEW d \in DeletionIds, ApproveDeletion(u, d)
  PROVE  IInv'
<1> USE DEF CertExists
<1>0. PICK c \in CertIds : c = deletions[d].cert
  BY References DEF IInv, ApproveDeletion, LockDeletion, DeletionOpen
<1> DEFINE row == [certs[c] EXCEPT !.deleted_by = u, !.deletion_reason = deletions[d].reason]
           req == [deletions[d] EXCEPT !.status = "approved", !.reviewed_by = u]
<1>1. /\ deletions[d] \in DeletionRow /\ DeletionOpen(d) /\ c \in CertIds
      /\ deletions[d].requested_by # u
      /\ certs[c] # NoRow /\ certs[c] \in CertRow /\ IsLive(c)
      /\ certs' = [i \in CertIds |-> IF i = c THEN row ELSE certs[i]]
      /\ deletions' = [i \in DeletionIds |-> IF i = d THEN req ELSE deletions[i]]
      /\ renewals' = CloseRenewals(c)
  <2>1. deletions[d] \in DeletionRow /\ DeletionOpen(d) /\ c \in CertIds
    BY <1>0, RowsTyped DEF IInv, ApproveDeletion, LockDeletion, DeletionOpen
  <2>2. certs[c] # NoRow /\ certs[c] \in CertRow
    BY <1>0, RowsTyped DEF IInv, ApproveDeletion
  <2> QED
    BY <1>0, <2>1, <2>2 DEF ApproveDeletion, NotSelf, IInv, TypeOK
<1>2. /\ row \in CertRow /\ row # NoRow
      /\ req \in DeletionRow /\ req # NoRow
      /\ row.kind = certs[c].kind
      /\ row.renewed_from = certs[c].renewed_from
      /\ row.rotated_by = NoOne
      /\ row.deleted_by = u /\ u # NoOne
      /\ row.deletion_reason = deletions[d].reason
      /\ req.cert = c /\ req.reason = deletions[d].reason
      /\ req.status = "approved" /\ req.reviewed_by = u
      /\ req.requested_by = deletions[d].requested_by
  <2>1. /\ row \in CertRow
        /\ row.kind = certs[c].kind
        /\ row.renewed_from = certs[c].renewed_from
        /\ row.rotated_by = NoOne
        /\ row.deleted_by = u
        /\ row.deletion_reason = deletions[d].reason
    BY <1>1 DEF CertRow, DeletionRow, IsLive
  <2>2. /\ req \in DeletionRow
        /\ req.cert = c /\ req.reason = deletions[d].reason
        /\ req.status = "approved" /\ req.reviewed_by = u
        /\ req.requested_by = deletions[d].requested_by
    BY <1>0, <1>1 DEF DeletionRow, Statuses
  <2> QED
    BY <2>1, <2>2, NoRowAssumption, NullAssumption
<1> HIDE DEF row, req
<1>3. /\ \A q \in RenewalIds : renewals[q] # NoRow =>
           renewals'[q].cert = renewals[q].cert
      /\ \A q \in RenewalIds : (renewals'[q] # NoRow) <=> (renewals[q] # NoRow)
      /\ \A q \in RenewalIds : RenewalOpen(q)' =>
           RenewalOpen(q) /\ renewals'[q] = renewals[q] /\ renewals[q].cert # c
      /\ \A q \in RenewalIds, i \in CertIds :
           /\ RenewedBy(q, i)' <=> RenewedBy(q, i)
           /\ RenewedBy(q, i) => renewals'[q] = renewals[q]
  <2>1. \A q \in RenewalIds : RenewalOpen(q) =>
           [renewals[q] EXCEPT !.status = "withdrawn"] \in RenewalRow
    BY RowsTyped DEF IInv, RenewalRow, RenewalOpen, Statuses
  <2>2. \A q \in RenewalIds : RenewalOpen(q) =>
           /\ [renewals[q] EXCEPT !.status = "withdrawn"] # NoRow
           /\ [renewals[q] EXCEPT !.status = "withdrawn"].status = "withdrawn"
           /\ [renewals[q] EXCEPT !.status = "withdrawn"].cert = renewals[q].cert
    BY <2>1, RowsTyped, NoRowAssumption DEF IInv, RenewalOpen, RenewalRow
  <2> QED
    BY <1>1, <2>2 DEF CloseRenewals, RenewalOpen, RenewedBy
<1>4. ForeignKeys'
  BY <1>1, <1>2, <1>3, References DEF IInv, ForeignKeys
<1>5. OneOpenRequest'
  BY <1>1, <1>2, <1>3 DEF IInv, OneOpenRequest, DeletionOpen
<1>6. OpenRequestsOnLiveCerts'
  <2>1. \A q \in DeletionIds : DeletionOpen(q)' =>
           DeletionOpen(q) /\ deletions'[q] = deletions[q] /\ deletions[q].cert # c
    BY <1>0, <1>1, <1>2 DEF IInv, OneOpenRequest, DeletionOpen
  <2>2. \A q \in DeletionIds : DeletionOpen(q) => deletions[q].cert \in CertIds
    BY References DEF IInv, DeletionOpen
  <2>3. \A q \in RenewalIds : RenewalOpen(q) => renewals[q].cert \in CertIds
    BY References DEF IInv, RenewalOpen
  <2> QED
    BY <1>1, <1>3, <2>1, <2>2, <2>3 DEF IInv, OpenRequestsOnLiveCerts, IsLive
<1>7. NeverRotatedAndDeleted'
  BY <1>1, <1>2 DEF IInv, NeverRotatedAndDeleted
<1>8. RotationIsExact'
  BY <1>1, <1>2, <1>3 DEF IInv, RotationIsExact, IsLive
<1>9. FourEyes'
  <2> SUFFICES ASSUME NEW i \in CertIds
               PROVE  FourEyes!(i)'
    BY DEF FourEyes
  <2>1. CASE i = c
    BY <2>1, <1>1, <1>2
  <2>2. CASE i # c
    BY <2>2, <1>1, <1>2, <1>3 DEF IInv, FourEyes, DeletionOpen
  <2> QED
    BY <2>1, <2>2
<1>10. LineageKeepsKind'
  BY <1>1, <1>2 DEF IInv, LineageKeepsKind
<1>11. TrailExplainsState'
  <2>1. /\ trail'[c] # <<>>
        /\ trail'[c][Len(trail'[c])] =
             [action |-> "certificate.delete", actor |-> u, request |-> d]
        /\ \A i \in CertIds : i # c => trail'[i] = trail[i]
    <3>1. [action |-> "certificate.delete", actor |-> u, request |-> d] \in TrailRow
      BY DEF TrailRow
    <3>2. trail \in [CertIds -> Seq(TrailRow)]
      BY DEF IInv, TypeOK
    <3>3. trail' = Audited(trail, c, "certificate.delete", u, d)
      BY <1>0 DEF ApproveDeletion
    <3> QED
      BY <1>1, <3>1, <3>2, <3>3, AuditedLast
  <2> SUFFICES ASSUME NEW i \in CertIds
               PROVE  TrailExplainsState!(i)'
    BY DEF TrailExplainsState
  <2>2. CASE i = c
    BY <2>1, <2>2, <1>1, <1>2
  <2>3. CASE i # c
    <3>1. \A q \in DeletionIds : deletions[q] # NoRow =>
            /\ deletions'[q] # NoRow
            /\ deletions'[q].cert = deletions[q].cert
            /\ deletions'[q].reason = deletions[q].reason
      BY <1>0, <1>1, <1>2
    <3>2. certs'[i] = certs[i] /\ trail'[i] = trail[i]
      BY <2>1, <2>3, <1>1
    <3> QED
      BY <3>1, <3>2, <1>3 DEF IInv, TrailExplainsState
  <2> QED
    BY <2>2, <2>3
<1> QED
  BY <1>4, <1>5, <1>6, <1>7, <1>8, <1>9, <1>10, <1>11 DEF IInv

LEMMA ApproveRenewalStep ==
  ASSUME IInv, TypeOK', NEW u \in Users, NEW r \in RenewalIds, NEW new \in CertIds,
         ApproveRenewal(u, r, new)
  PROVE  IInv'
<1> USE DEF CertExists
<1>0. PICK c \in CertIds : c = renewals[r].cert
  BY References DEF IInv, ApproveRenewal, LockRenewal, RenewalOpen
<1> DEFINE row == [certs[c] EXCEPT !.rotated_by = u]
           repl == Replacement(certs[c], renewals[r].new_validity, c)
           req == [renewals[r] EXCEPT !.status = "approved", !.reviewed_by = u,
                                      !.new_certificate = new]
<1>1. /\ renewals[r] \in RenewalRow /\ RenewalOpen(r) /\ c \in CertIds
      /\ renewals[r].submitted_by # u
      /\ certs[c] # NoRow /\ certs[c] \in CertRow /\ IsLive(c)
      /\ new # c
      /\ certs' = [i \in CertIds |-> IF i = c THEN row ELSE IF i = new THEN repl ELSE certs[i]]
      /\ renewals' = [i \in RenewalIds |-> IF i = r THEN req ELSE renewals[i]]
      /\ deletions' = CloseDeletions(c)
  <2>1. renewals[r] \in RenewalRow /\ RenewalOpen(r) /\ c \in CertIds
    BY <1>0, RowsTyped DEF IInv, ApproveRenewal, LockRenewal, RenewalOpen
  <2>2. certs[c] # NoRow /\ certs[c] \in CertRow
    BY <1>0, RowsTyped DEF IInv, ApproveRenewal
  <2>3. new # c
    BY <2>2, FreshCert DEF ApproveRenewal
  <2> QED
    BY <1>0, <2>1, <2>2, <2>3 DEF ApproveRenewal, NotSelf, IInv, TypeOK
<1>2. /\ row \in CertRow /\ row # NoRow
      /\ row.kind = certs[c].kind
      /\ row.renewed_from = certs[c].renewed_from
      /\ row.rotated_by = u /\ u # NoOne
      /\ row.deleted_by = NoOne
  <2>1. /\ row \in CertRow
        /\ row.kind = certs[c].kind
        /\ row.renewed_from = certs[c].renewed_from
        /\ row.rotated_by = u
        /\ row.deleted_by = NoOne
    BY <1>1 DEF CertRow, IsLive
  <2> QED
    BY <2>1, NoRowAssumption, NullAssumption
<1>3. /\ repl \in CertRow /\ repl # NoRow
      /\ repl.kind = certs[c].kind
      /\ repl.renewed_from = c
      /\ repl.rotated_by = NoOne
      /\ repl.deleted_by = NoOne
      /\ repl.deletion_reason = NoReason
  <2>1. repl \in CertRow
    BY <1>1, NewCertType DEF Replacement, CertRow, RenewalRow
  <2> QED
    BY <2>1, NoRowAssumption DEF Replacement, NewCert
<1>4. /\ req \in RenewalRow /\ req # NoRow
      /\ req.cert = c /\ req.submitted_by = renewals[r].submitted_by
      /\ req.status = "approved" /\ req.reviewed_by = u
      /\ req.new_certificate = new
  <2>1. /\ req \in RenewalRow
        /\ req.cert = c /\ req.submitted_by = renewals[r].submitted_by
        /\ req.status = "approved" /\ req.reviewed_by = u
        /\ req.new_certificate = new
    BY <1>0, <1>1 DEF RenewalRow, Statuses
  <2> QED
    BY <2>1, NoRowAssumption
<1>5. /\ TypeOK /\ certs[new] = NoRow
      /\ \A i \in CertIds : certs[i] # NoRow => i # new /\ certs[i].renewed_from # new
      /\ \A q \in RenewalIds : renewals[q] # NoRow => renewals[q].cert # new
      /\ \A d \in DeletionIds : deletions[d] # NoRow => deletions[d].cert # new
  BY FreshCert DEF ApproveRenewal, IInv
<1> HIDE DEF row, repl, req
<1>6. /\ \A d \in DeletionIds : deletions[d] # NoRow =>
           /\ deletions'[d].cert = deletions[d].cert
           /\ deletions'[d].reason = deletions[d].reason
      /\ \A d \in DeletionIds : (deletions'[d] # NoRow) <=> (deletions[d] # NoRow)
      /\ \A d \in DeletionIds : DeletionOpen(d)' =>
           DeletionOpen(d) /\ deletions'[d] = deletions[d] /\ deletions[d].cert # c
      /\ \A d \in DeletionIds : deletions[d] # NoRow /\ ~DeletionOpen(d) =>
           deletions'[d] = deletions[d]
  <2>1. \A d \in DeletionIds : DeletionOpen(d) =>
           [deletions[d] EXCEPT !.status = "withdrawn"] \in DeletionRow
    BY RowsTyped DEF IInv, DeletionRow, DeletionOpen, Statuses
  <2>2. \A d \in DeletionIds : DeletionOpen(d) =>
           /\ [deletions[d] EXCEPT !.status = "withdrawn"] # NoRow
           /\ [deletions[d] EXCEPT !.status = "withdrawn"].status = "withdrawn"
           /\ [deletions[d] EXCEPT !.status = "withdrawn"].cert = deletions[d].cert
           /\ [deletions[d] EXCEPT !.status = "withdrawn"].reason = deletions[d].reason
    BY <2>1, RowsTyped, NoRowAssumption DEF IInv, DeletionOpen, DeletionRow
  <2> QED
    BY <1>1, <2>2 DEF CloseDeletions, DeletionOpen
<1>7. \A q \in RenewalIds, i \in CertIds :
        /\ RenewedBy(q, i)' <=> (RenewedBy(q, i) \/ (q = r /\ i = c))
        /\ RenewedBy(q, i) => q # r /\ renewals'[q] = renewals[q]
  BY <1>0, <1>1, <1>4 DEF RenewedBy, RenewalOpen
<1>8. ForeignKeys'
  BY <1>1, <1>2, <1>3, <1>4, <1>5, <1>6, References DEF IInv, ForeignKeys
<1>9. OneOpenRequest'
  BY <1>1, <1>4, <1>6 DEF IInv, OneOpenRequest, RenewalOpen
<1>10. OpenRequestsOnLiveCerts'
  <2>1. \A q \in RenewalIds : RenewalOpen(q)' =>
           RenewalOpen(q) /\ renewals'[q] = renewals[q] /\ renewals[q].cert # c
    BY <1>0, <1>1, <1>4 DEF IInv, OneOpenRequest, RenewalOpen
  <2>2. \A q \in RenewalIds : RenewalOpen(q) =>
           renewals[q].cert \in CertIds /\ renewals[q].cert # new
    BY <1>5, References DEF IInv, RenewalOpen
  <2>3. \A d \in DeletionIds : DeletionOpen(d) =>
           deletions[d].cert \in CertIds /\ deletions[d].cert # new
    BY <1>5, References DEF IInv, DeletionOpen
  <2> QED
    BY <1>1, <1>6, <2>1, <2>2, <2>3 DEF IInv, OpenRequestsOnLiveCerts, IsLive
<1>11. NeverRotatedAndDeleted'
  BY <1>1, <1>2, <1>3 DEF IInv, NeverRotatedAndDeleted
<1>12. RotationIsExact'
  <2> SUFFICES ASSUME NEW i \in CertIds
               PROVE  RotationIsExact!(i)'
    BY DEF RotationIsExact
  <2>1. CASE i = c
    <3>1. /\ certs[c].rotated_by = NoOne
          /\ \A q \in RenewalIds : ~RenewedBy(q, c)
          /\ \A s \in CertIds : certs[s] # NoRow => certs[s].renewed_from # c
      BY <1>1 DEF IInv, RotationIsExact, IsLive
    <3>2. \A s \in CertIds :
            (certs'[s] # NoRow /\ certs'[s].renewed_from = c) <=> s = new
      BY <3>1, <1>1, <1>2, <1>3
    <3>3. RenewedBy(r, c)' /\ \A q \in RenewalIds : RenewedBy(q, c)' => q = r
      BY <3>1, <1>1, <1>7
    <3>4. /\ renewals'[r].reviewed_by = certs'[c].rotated_by
          /\ renewals'[r].new_certificate = new
          /\ certs'[c].rotated_by # NoOne
      BY <1>1, <1>2, <1>4
    <3>5. \A s \in CertIds :
            (CertExists(s)' /\ certs'[s].renewed_from = c)
              <=> s = renewals'[r].new_certificate
      BY <3>2, <3>4
    <3> QED
      BY <2>1, <3>3, <3>4, <3>5
  <2>2. CASE i = new
    <3>1. \A q \in RenewalIds : ~RenewedBy(q, new)'
      BY <1>1, <1>5, <1>7 DEF RenewedBy
    <3>2. \A s \in CertIds : certs'[s] # NoRow => certs'[s].renewed_from # new
      BY <1>1, <1>2, <1>3, <1>5
    <3> QED
      BY <2>2, <3>1, <3>2, <1>1, <1>3
  <2>3. CASE i # c /\ i # new
    <3>1. certs'[i] = certs[i]
      BY <2>3, <1>1
    <3>2. \A s \in CertIds : (certs'[s] # NoRow /\ certs'[s].renewed_from = i)
                           <=> (certs[s] # NoRow /\ certs[s].renewed_from = i)
      BY <2>3, <1>1, <1>2, <1>3, <1>5
    <3>3. \A q \in RenewalIds : RenewedBy(q, i)' <=> RenewedBy(q, i)
      BY <2>3, <1>7
    <3> QED
      BY <3>1, <3>2, <3>3, <1>7 DEF IInv, RotationIsExact
  <2> QED
    BY <2>1, <2>2, <2>3
<1>13. FourEyes'
  <2> SUFFICES ASSUME NEW i \in CertIds
               PROVE  FourEyes!(i)'
    BY DEF FourEyes
  <2>1. CASE i = c
    BY <2>1, <1>1, <1>2, <1>4, <1>7
  <2>2. CASE i = new
    BY <2>2, <1>1, <1>3
  <2>3. CASE i # c /\ i # new
    <3>1. certs'[i] = certs[i]
      BY <2>3, <1>1
    <3> QED
      BY <3>1, <1>6, <1>7 DEF IInv, FourEyes, DeletionOpen
  <2> QED
    BY <2>1, <2>2, <2>3
<1>14. LineageKeepsKind'
  BY <1>1, <1>2, <1>3, <1>5 DEF IInv, LineageKeepsKind
<1>15. TrailExplainsState'
  <2> DEFINE mid == Audited(trail, c, "renewal.approve", u, r)
  <2>1. /\ trail'[c] # <<>>
        /\ trail'[c][Len(trail'[c])] =
             [action |-> "renewal.approve", actor |-> u, request |-> r]
        /\ trail'[new] # <<>>
        /\ trail'[new][Len(trail'[new])] =
             [action |-> "certificate.create", actor |-> u, request |-> r]
        /\ \A i \in CertIds : i # c /\ i # new => trail'[i] = trail[i]
    <3>1. /\ [action |-> "renewal.approve", actor |-> u, request |-> r] \in TrailRow
          /\ [action |-> "certificate.create", actor |-> u, request |-> r] \in TrailRow
      BY DEF TrailRow
    <3>2. trail \in [CertIds -> Seq(TrailRow)]
      BY <1>5 DEF TypeOK
    <3>3. trail' = Audited(mid, new, "certificate.create", u, r)
      BY <1>0 DEF ApproveRenewal
    <3>4. mid \in [CertIds -> Seq(TrailRow)]
      BY <1>1, <3>2, AuditedType
    <3>5. /\ mid[c] # <<>>
          /\ mid[c][Len(mid[c])] =
               [action |-> "renewal.approve", actor |-> u, request |-> r]
          /\ \A i \in CertIds : i # c => mid[i] = trail[i]
      BY <1>1, <3>1, <3>2, AuditedLast
    <3> HIDE DEF mid
    <3>6. /\ trail'[new] # <<>>
          /\ trail'[new][Len(trail'[new])] =
               [action |-> "certificate.create", actor |-> u, request |-> r]
          /\ \A i \in CertIds : i # new => trail'[i] = mid[i]
      BY <3>1, <3>3, <3>4, AuditedLast
    <3> QED
      BY <1>1, <3>5, <3>6
  <2> SUFFICES ASSUME NEW i \in CertIds
               PROVE  TrailExplainsState!(i)'
    BY DEF TrailExplainsState
  <2>2. CASE i = c
    BY <2>1, <2>2, <1>1, <1>2, <1>7
  <2>3. CASE i = new
    BY <2>1, <2>3, <1>1, <1>3
  <2>4. CASE i # c /\ i # new
    <3>1. certs'[i] = certs[i] /\ trail'[i] = trail[i]
      BY <2>1, <2>4, <1>1
    <3> QED
      BY <3>1, <1>6, <1>7 DEF IInv, TrailExplainsState
  <2> QED
    BY <2>2, <2>3, <2>4
<1> QED
  BY <1>8, <1>9, <1>10, <1>11, <1>12, <1>13, <1>14, <1>15 DEF IInv

LEMMA IInvStep ==
  ASSUME IInv, Next
  PROVE  IInv'
<1>1. TypeOK'
  BY TypeOKStep DEF IInv
<1>2. PICK u \in Users : CertStep(u) \/ RenewalStep(u) \/ DeletionStep(u)
  BY DEF Next
<1>3. CASE CertStep(u)
  BY <1>1, <1>3, CreateCertificateStep, EditStep, RestoreCertificateStep DEF CertStep
<1>4. CASE RenewalStep(u)
  BY <1>1, <1>4, CreateRenewalStep, ApproveRenewalStep, CloseRenewalStep DEF RenewalStep
<1>5. CASE DeletionStep(u)
  BY <1>1, <1>5, CreateDeletionStep, ApproveDeletionStep, CloseDeletionStep DEF DeletionStep
<1> QED
  BY <1>2, <1>3, <1>4, <1>5

-----------------------------------------------------------------------------
(* Theorems *)

\* The inductive invariant holds in every reachable state.
THEOREM InvariantHolds == Spec => []IInv
<1>1. IInv /\ UNCHANGED vars => IInv'
  BY DEF IInv, TypeOK, ForeignKeys, OneOpenRequest, OpenRequestsOnLiveCerts,
         NeverRotatedAndDeleted, RotationIsExact, FourEyes, LineageKeepsKind,
         TrailExplainsState, CertExists, RenewalOpen, DeletionOpen, IsLive,
         RenewedBy, vars
<1> QED
  BY <1>1, InitIInv, IInvStep, PTL DEF Spec

\* No request waits for review on a rotated or deleted certificate.
THEOREM ReviewQueueIsActionable == Spec => []OpenRequestsOnLiveCerts
<1>1. IInv => OpenRequestsOnLiveCerts
  BY DEF IInv
<1> QED
  BY <1>1, InvariantHolds, PTL

\* Silencing a certificate always took two different people.
THEOREM SilencingTakesTwo == Spec => []FourEyes
<1>1. IInv => FourEyes
  BY DEF IInv
<1> QED
  BY <1>1, InvariantHolds, PTL

\* A rotated certificate has exactly one successor and history never forks.
THEOREM SuccessorIsUnique == Spec => []RotationIsExact
<1>1. IInv => RotationIsExact
  BY DEF IInv
<1> QED
  BY <1>1, InvariantHolds, PTL

\* Rotated and deleted exclude each other.
THEOREM OneWayOut == Spec => []NeverRotatedAndDeleted
<1>1. IInv => NeverRotatedAndDeleted
  BY DEF IInv
<1> QED
  BY <1>1, InvariantHolds, PTL

\* The audit log explains why a certificate is or is not live.
THEOREM AuditExplains == Spec => []TrailExplainsState
<1>1. IInv => TrailExplainsState
  BY DEF IInv
<1> QED
  BY <1>1, InvariantHolds, PTL

\* A line of replacements keeps its kind.
THEOREM KindIsInherited == Spec => []LineageKeepsKind
<1>1. IInv => LineageKeepsKind
  BY DEF IInv
<1> QED
  BY <1>1, InvariantHolds, PTL

\* Decided requests never change again.
THEOREM DecisionsAreFinal == Spec => ClosedRequestsAreFinal
<1> DEFINE Final == /\ \A r \in RenewalIds :
                          renewals[r] # NoRow /\ ~RenewalOpen(r) => renewals'[r] = renewals[r]
                    /\ \A d \in DeletionIds :
                          deletions[d] # NoRow /\ ~DeletionOpen(d) => deletions'[d] = deletions[d]
<1>1. ASSUME IInv, Next
      PROVE  Final
  <2>1. PICK u \in Users : CertStep(u) \/ RenewalStep(u) \/ DeletionStep(u)
    BY <1>1 DEF Next
  <2>2. CASE CertStep(u)
    BY <2>2 DEF CertStep, CreateCertificate, UpdateCertificate, TransferOwner,
                RestoreCertificate
  <2>3. CASE RenewalStep(u)
    <3>1. PICK r \in RenewalIds :
            \/ \E c \in CertIds, p \in Periods : CreateRenewal(u, r, c, p)
            \/ \E new \in CertIds : ApproveRenewal(u, r, new)
            \/ RejectRenewal(u, r)
            \/ WithdrawRenewal(u, r)
      BY <2>3 DEF RenewalStep
    <3>2. CASE \E c \in CertIds, p \in Periods : CreateRenewal(u, r, c, p)
      BY <1>1, <3>2 DEF IInv, TypeOK, CreateRenewal, Unused
    <3>3. CASE \E new \in CertIds : ApproveRenewal(u, r, new)
      BY <1>1, <3>3 DEF IInv, TypeOK, ApproveRenewal, LockRenewal, CloseDeletions
    <3>4. CASE RejectRenewal(u, r) \/ WithdrawRenewal(u, r)
      BY <1>1, <3>4 DEF IInv, TypeOK, RejectRenewal, WithdrawRenewal, LockRenewal
    <3> QED
      BY <3>1, <3>2, <3>3, <3>4
  <2>4. CASE DeletionStep(u)
    <3>1. PICK d \in DeletionIds :
            \/ \E c \in CertIds, reason \in Reasons : CreateDeletion(u, d, c, reason)
            \/ ApproveDeletion(u, d)
            \/ RejectDeletion(u, d)
            \/ WithdrawDeletion(u, d)
      BY <2>4 DEF DeletionStep
    <3>2. CASE \E c \in CertIds, reason \in Reasons : CreateDeletion(u, d, c, reason)
      BY <1>1, <3>2 DEF IInv, TypeOK, CreateDeletion, Unused
    <3>3. CASE ApproveDeletion(u, d)
      BY <1>1, <3>3 DEF IInv, TypeOK, ApproveDeletion, LockDeletion, CloseRenewals
    <3>4. CASE RejectDeletion(u, d) \/ WithdrawDeletion(u, d)
      BY <1>1, <3>4 DEF IInv, TypeOK, RejectDeletion, WithdrawDeletion, LockDeletion
    <3> QED
      BY <3>1, <3>2, <3>3, <3>4
  <2> QED
    BY <2>1, <2>2, <2>3, <2>4
<1>2. IInv /\ [Next]_vars => [Final]_vars
  BY <1>1
<1> QED
  BY <1>2, InvariantHolds, PTL DEF Spec, ClosedRequestsAreFinal

\* A rotated certificate can only change owner.
THEOREM HistoryIsFrozen == Spec => RotatedIsFrozen
<1> USE DEF CertExists
<1> DEFINE Frozen == \A c \in CertIds :
                       CertExists(c) /\ certs[c].rotated_by # NoOne =>
                         \E v \in Users : certs'[c] = [certs[c] EXCEPT !.owner = v]
<1>1. ASSUME IInv, Next
      PROVE  Frozen
  <2> SUFFICES ASSUME NEW c \in CertIds, certs[c] # NoRow, certs[c].rotated_by # NoOne
               PROVE  \E v \in Users : certs'[c] = [certs[c] EXCEPT !.owner = v]
    OBVIOUS
  <2>1. /\ certs[c] \in CertRow /\ certs[c].deleted_by = NoOne
        /\ certs \in [CertIds -> CertRow \cup {NoRow}]
    BY <1>1, RowsTyped DEF IInv, NeverRotatedAndDeleted, TypeOK
  <2>2. certs'[c] = certs[c] => \E v \in Users : certs'[c] = [certs[c] EXCEPT !.owner = v]
    <3>1. certs[c].owner \in Users /\ certs[c] = [certs[c] EXCEPT !.owner = certs[c].owner]
      BY <2>1 DEF CertRow
    <3> QED
      BY <3>1
  <2>3. PICK u \in Users : CertStep(u) \/ RenewalStep(u) \/ DeletionStep(u)
    BY <1>1 DEF Next
  <2>4. CASE CertStep(u)
    <3>1. PICK i \in CertIds :
            \/ \E kind \in Kinds, p \in Periods : CreateCertificate(u, i, kind, p)
            \/ \E p \in Periods : UpdateCertificate(u, i, p)
            \/ \E v \in Users : TransferOwner(u, i, v)
            \/ RestoreCertificate(u, i)
      BY <2>4 DEF CertStep
    <3>2. CASE \E kind \in Kinds, p \in Periods : CreateCertificate(u, i, kind, p)
      BY <2>1, <2>2, <3>2 DEF CreateCertificate, Unused
    <3>3. CASE \E p \in Periods : UpdateCertificate(u, i, p)
      BY <2>1, <2>2, <3>3 DEF UpdateCertificate, LockCertForWrite, IsLive
    <3>4. CASE \E v \in Users : TransferOwner(u, i, v)
      <4>1. PICK v \in Users : certs' = [certs EXCEPT ![i].owner = v]
        BY <3>4 DEF TransferOwner
      <4>2. CASE i = c
        BY <2>1, <4>1, <4>2
      <4>3. CASE i # c
        BY <2>1, <2>2, <4>1, <4>3
      <4> QED
        BY <4>2, <4>3
    <3>5. CASE RestoreCertificate(u, i)
      BY <2>1, <2>2, <3>5 DEF RestoreCertificate
    <3> QED
      BY <3>1, <3>2, <3>3, <3>4, <3>5
  <2>5. CASE RenewalStep(u)
    <3>1. PICK r \in RenewalIds :
            \/ \E i \in CertIds, p \in Periods : CreateRenewal(u, r, i, p)
            \/ \E new \in CertIds : ApproveRenewal(u, r, new)
            \/ RejectRenewal(u, r)
            \/ WithdrawRenewal(u, r)
      BY <2>5 DEF RenewalStep
    <3>2. CASE \E new \in CertIds : ApproveRenewal(u, r, new)
      <4>1. PICK new \in CertIds : ApproveRenewal(u, r, new)
        BY <3>2
      <4>2. new # c
        BY <1>1, <4>1, FreshCert DEF ApproveRenewal
      <4>3. PICK i \in CertIds : i = renewals[r].cert /\ IsLive(i)
        BY <1>1, <4>1, References DEF IInv, ApproveRenewal, LockRenewal, RenewalOpen
      <4>4. i # c
        BY <4>3 DEF IsLive
      <4>5. certs'[c] = certs[c]
        BY <2>1, <4>1, <4>2, <4>3, <4>4 DEF ApproveRenewal
      <4> QED
        BY <2>2, <4>5
    <3> QED
      BY <2>2, <3>1, <3>2 DEF CreateRenewal, RejectRenewal, WithdrawRenewal
  <2>6. CASE DeletionStep(u)
    <3>1. PICK d \in DeletionIds :
            \/ \E i \in CertIds, reason \in Reasons : CreateDeletion(u, d, i, reason)
            \/ ApproveDeletion(u, d)
            \/ RejectDeletion(u, d)
            \/ WithdrawDeletion(u, d)
      BY <2>6 DEF DeletionStep
    <3>2. CASE ApproveDeletion(u, d)
      BY <2>1, <2>2, <3>2 DEF ApproveDeletion, IsLive
    <3> QED
      BY <2>2, <3>1, <3>2 DEF CreateDeletion, RejectDeletion, WithdrawDeletion
  <2> QED
    BY <2>3, <2>4, <2>5, <2>6
<1>2. IInv /\ [Next]_vars => [Frozen]_vars
  BY <1>1
<1> QED
  BY <1>2, InvariantHolds, PTL DEF Spec, RotatedIsFrozen
=============================================================================
