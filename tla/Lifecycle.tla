------------------------------ MODULE Lifecycle ------------------------------
(***************************************************************************)
(* The review workflow of the tracker: certificates (and tokens), the      *)
(* renewal requests that rotate them, the deletion requests that hide      *)
(* them, and the part of the audit log that says why a row is not live.    *)
(*                                                                         *)
(* Every operation of internal/store/{certificates,renewals,deletions}.go  *)
(* is one SQL transaction; here each is one step (ReviewTx takes them       *)
(* apart).  A table is a function from ids to rows; an id without a row    *)
(* maps to NoRow.  Ids are drawn from a BIGSERIAL: never reused, but       *)
(* neither gapless nor in commit order, so an INSERT takes any unused id.  *)
(* A nullable "x_at" / "x_by" pair of columns, which the code always       *)
(* writes together, is the one field x_by.                                 *)
(*                                                                         *)
(* Roles change at run time (accounts are another component), and the      *)
(* store trusts the isAdmin flag of the request, so Admins is the set of   *)
(* accounts that hold the admin role at some time: any other account only  *)
(* ever acts as a plain user.                                              *)
(***************************************************************************)
EXTENDS Sequences

CONSTANTS
  Users,         \* accounts
  Admins,        \* accounts that may act with the admin role
  Periods,       \* validity periods (issued and expiry date)
  Reasons,       \* deletion reasons, after TrimSpace
  NoOne,         \* SQL NULL in a user column
  NoReason,      \* the empty deletion_reason
  NoId,          \* SQL NULL in an id column
  NoRow,         \* "this id is not in the table"
  CertIds,       \* ids of certificates: how many bounds the table in a run
  RenewalIds,    \* ids of renewals
  DeletionIds    \* ids of deletion_requests

ASSUME AdminsAssumption == Admins \subseteq Users
ASSUME NullAssumption == NoOne \notin Users /\ NoReason \notin Reasons /\ NoId \notin CertIds

VARIABLES
  certs,       \* table certificates
  renewals,    \* table renewals
  deletions,   \* table deletion_requests
  trail        \* per certificate, its audit_log rows that made it (un)live

vars == <<certs, renewals, deletions, trail>>

-----------------------------------------------------------------------------
(* Types *)

Kinds == {"certificate", "token"}
Statuses == {"pending_review", "approved", "rejected", "withdrawn"}

CertRow ==
  [kind : Kinds, validity : Periods, owner : Users,
   renewed_from : CertIds \cup {NoId},
   rotated_by : Users \cup {NoOne},
   deleted_by : Users \cup {NoOne},
   deletion_reason : Reasons \cup {NoReason}]

RenewalRow ==
  [cert : CertIds, new_validity : Periods, submitted_by : Users,
   status : Statuses, reviewed_by : Users \cup {NoOne},
   new_certificate : CertIds \cup {NoId}]

DeletionRow ==
  [cert : CertIds, reason : Reasons, requested_by : Users,
   status : Statuses, reviewed_by : Users \cup {NoOne}]

TrailRow ==
  [action : {"certificate.create", "renewal.approve",
             "certificate.delete", "certificate.restore"},
   actor : Users,
   request : RenewalIds \cup DeletionIds \cup {NoId}]

(* No row is the marker of an absent row. *)
ASSUME NoRowAssumption == NoRow \notin CertRow \cup RenewalRow \cup DeletionRow

-----------------------------------------------------------------------------
(* Helpers on the tables *)

\* An id an INSERT may draw.
Unused(table, id) == table[id] = NoRow

CertExists(c) == certs[c] # NoRow

IsLiveIgnoringRotation(c) == certs[c].deleted_by = NoOne   \* mutant

IsLive(c) == certs[c].deleted_by = NoOne /\ certs[c].rotated_by = NoOne

RenewalOpen(r) == renewals[r] # NoRow /\ renewals[r].status = "pending_review"
DeletionOpen(d) == deletions[d] # NoRow /\ deletions[d].status = "pending_review"

\* The one place "owner or admin" is enforced, and "not rotated or deleted".
LockCertForWrite(u, c, requireLive) ==
  /\ CertExists(c)
  /\ u \in Admins \/ certs[c].owner = u
  /\ requireLive => IsLive(c)

NotSelfUnchecked(reviewer, requester) == TRUE              \* mutant

\* Four eyes: whoever opened a request may not review it.
NotSelf(reviewer, requester) == reviewer # requester

\* An audit row written inside the transaction.
Audited(log, c, action, actor, request) ==
  [log EXCEPT ![c] = Append(@, [action |-> action, actor |-> actor,
                                request |-> request])]

NewCertOrphan(kind, p, owner, from) ==                     \* mutant
  [kind |-> kind, validity |-> p, owner |-> NoOne, renewed_from |-> from,
   rotated_by |-> NoOne, deleted_by |-> NoOne, deletion_reason |-> NoReason]

\* The columns an INSERT into certificates writes, and the column defaults.
NewCert(kind, p, owner, from) ==
  [kind |-> kind, validity |-> p, owner |-> owner, renewed_from |-> from,
   rotated_by |-> NoOne, deleted_by |-> NoOne, deletion_reason |-> NoReason]

-----------------------------------------------------------------------------
(* Certificates *)

Init ==
  /\ certs = [c \in CertIds |-> NoRow]
  /\ renewals = [r \in RenewalIds |-> NoRow]
  /\ deletions = [d \in DeletionIds |-> NoRow]
  /\ trail = [c \in CertIds |-> <<>>]

CreateCertificate(u, c, kind, p) ==
  /\ Unused(certs, c)
  /\ certs' = [certs EXCEPT ![c] = NewCert(kind, p, u, NoId)]
  /\ trail' = Audited(trail, c, "certificate.create", u, NoId)
  /\ UNCHANGED <<renewals, deletions>>

\* The kind is not among the columns an update writes.
UpdateCertificate(u, c, p) ==
  /\ LockCertForWrite(u, c, TRUE)
  /\ certs' = [certs EXCEPT ![c].validity = p]
  /\ UNCHANGED <<renewals, deletions, trail>>

\* Rotated and deleted rows change hands too: requireLive is false here.
TransferOwner(u, c, newOwner) ==
  /\ LockCertForWrite(u, c, FALSE)
  /\ certs' = [certs EXCEPT ![c].owner = newOwner]
  /\ UNCHANGED <<renewals, deletions, trail>>

RestoreCertificateKeepsReason(u, c) ==                     \* mutant
  /\ u \in Admins
  /\ CertExists(c) /\ certs[c].deleted_by # NoOne
  /\ certs' = [certs EXCEPT ![c].deleted_by = NoOne]
  /\ trail' = Audited(trail, c, "certificate.restore", u, NoId)
  /\ UNCHANGED <<renewals, deletions>>

RestoreCertificate(u, c) ==
  /\ u \in Admins
  /\ CertExists(c) /\ certs[c].deleted_by # NoOne
  /\ certs' = [certs EXCEPT ![c] =
               [@ EXCEPT !.deleted_by = NoOne, !.deletion_reason = NoReason]]
  /\ trail' = Audited(trail, c, "certificate.restore", u, NoId)
  /\ UNCHANGED <<renewals, deletions>>

-----------------------------------------------------------------------------
(* Renewals *)

\* The partial unique index idx_renewals_one_open is the second conjunct.
CreateRenewal(u, r, c, p) ==
  /\ LockCertForWrite(u, c, TRUE)
  /\ \A q \in RenewalIds : RenewalOpen(q) => renewals[q].cert # c
  /\ Unused(renewals, r)
  /\ renewals' = [renewals EXCEPT ![r] =
       [cert |-> c, new_validity |-> p, submitted_by |-> u,
        status |-> "pending_review", reviewed_by |-> NoOne,
        new_certificate |-> NoId]]
  /\ UNCHANGED <<certs, deletions, trail>>

LockRenewalAnyStatus(r) == renewals[r] # NoRow             \* mutant

LockRenewal(r) == RenewalOpen(r)

ReplacementDefaultKind(old, p, c) ==                       \* mutant
  NewCert("certificate", p, old.owner, c)

ReplacementUnlinked(old, p, c) ==                          \* mutant
  NewCert(old.kind, p, old.owner, NoId)

\* The replacement inherits everything operational; only the dates change.
Replacement(old, p, c) == NewCert(old.kind, p, old.owner, c)

ForgetDeletions(c) == deletions                            \* mutant

\* A deletion request on a now-rotated certificate can never be actioned.
CloseDeletions(c) ==
  [d \in DeletionIds |-> IF DeletionOpen(d) /\ deletions[d].cert = c
                         THEN [deletions[d] EXCEPT !.status = "withdrawn"]
                         ELSE deletions[d]]

ApproveRenewal(u, r, new) ==
  /\ LockRenewal(r)
  /\ NotSelf(u, renewals[r].submitted_by)
  /\ Unused(certs, new)
  /\ LET c == renewals[r].cert
     IN /\ CertExists(c) /\ IsLive(c)
        /\ certs' = [certs EXCEPT
                       ![new] = Replacement(certs[c], renewals[r].new_validity, c),
                       ![c].rotated_by = u]
        /\ deletions' = CloseDeletions(c)
        /\ trail' = Audited(Audited(trail, c, "renewal.approve", u, r),
                            new, "certificate.create", u, r)
  /\ renewals' = [renewals EXCEPT ![r] =
       [@ EXCEPT !.status = "approved", !.reviewed_by = u, !.new_certificate = new]]

RejectRenewal(u, r) ==
  /\ LockRenewal(r)
  /\ NotSelf(u, renewals[r].submitted_by)
  /\ renewals' = [renewals EXCEPT ![r] =
       [@ EXCEPT !.status = "rejected", !.reviewed_by = u]]
  /\ UNCHANGED <<certs, deletions, trail>>

WithdrawRenewal(u, r) ==
  /\ LockRenewal(r)
  /\ u \in Admins \/ renewals[r].submitted_by = u
  /\ renewals' = [renewals EXCEPT ![r].status = "withdrawn"]
  /\ UNCHANGED <<certs, deletions, trail>>

-----------------------------------------------------------------------------
(* Deletions *)

\* The partial unique index idx_deletions_one_open is the second conjunct.
CreateDeletion(u, d, c, reason) ==
  /\ LockCertForWrite(u, c, TRUE)
  /\ \A q \in DeletionIds : DeletionOpen(q) => deletions[q].cert # c
  /\ Unused(deletions, d)
  /\ deletions' = [deletions EXCEPT ![d] =
       [cert |-> c, reason |-> reason, requested_by |-> u,
        status |-> "pending_review", reviewed_by |-> NoOne]]
  /\ UNCHANGED <<certs, renewals, trail>>

LockDeletion(d) == DeletionOpen(d)

ForgetRenewals(c) == renewals                              \* mutant

CloseRenewals(c) ==
  [r \in RenewalIds |-> IF RenewalOpen(r) /\ renewals[r].cert = c
                        THEN [renewals[r] EXCEPT !.status = "withdrawn"]
                        ELSE renewals[r]]

ApproveDeletion(u, d) ==
  /\ LockDeletion(d)
  /\ NotSelf(u, deletions[d].requested_by)
  /\ LET c == deletions[d].cert
     IN /\ CertExists(c) /\ IsLive(c)
        /\ certs' = [certs EXCEPT ![c] =
                      [@ EXCEPT !.deleted_by = u, !.deletion_reason = deletions[d].reason]]
        /\ renewals' = CloseRenewals(c)
        /\ trail' = Audited(trail, c, "certificate.delete", u, d)
  /\ deletions' = [deletions EXCEPT ![d] =
       [@ EXCEPT !.status = "approved", !.reviewed_by = u]]

RejectDeletion(u, d) ==
  /\ LockDeletion(d)
  /\ NotSelf(u, deletions[d].requested_by)
  /\ deletions' = [deletions EXCEPT ![d] =
       [@ EXCEPT !.status = "rejected", !.reviewed_by = u]]
  /\ UNCHANGED <<certs, renewals, trail>>

WithdrawDeletion(u, d) ==
  /\ LockDeletion(d)
  /\ u \in Admins \/ deletions[d].requested_by = u
  /\ deletions' = [deletions EXCEPT ![d].status = "withdrawn"]
  /\ UNCHANGED <<certs, renewals, trail>>

-----------------------------------------------------------------------------
(* Specification *)

CertStep(u) ==
  \E c \in CertIds :
    \/ \E kind \in Kinds, p \in Periods : CreateCertificate(u, c, kind, p)
    \/ \E p \in Periods : UpdateCertificate(u, c, p)
    \/ \E v \in Users : TransferOwner(u, c, v)
    \/ RestoreCertificate(u, c)

RenewalStep(u) ==
  \E r \in RenewalIds :
    \/ \E c \in CertIds, p \in Periods : CreateRenewal(u, r, c, p)
    \/ \E new \in CertIds : ApproveRenewal(u, r, new)
    \/ RejectRenewal(u, r)
    \/ WithdrawRenewal(u, r)

DeletionStep(u) ==
  \E d \in DeletionIds :
    \/ \E c \in CertIds, reason \in Reasons : CreateDeletion(u, d, c, reason)
    \/ ApproveDeletion(u, d)
    \/ RejectDeletion(u, d)
    \/ WithdrawDeletion(u, d)

Next == \E u \in Users : CertStep(u) \/ RenewalStep(u) \/ DeletionStep(u)

Spec == Init /\ [][Next]_vars

-----------------------------------------------------------------------------
(* Properties *)

\* Every table holds well-formed rows (the column types and CHECKs of the
\* migrations).
TypeOK ==
  /\ certs \in [CertIds -> CertRow \cup {NoRow}]
  /\ renewals \in [RenewalIds -> RenewalRow \cup {NoRow}]
  /\ deletions \in [DeletionIds -> DeletionRow \cup {NoRow}]
  /\ trail \in [CertIds -> Seq(TrailRow)]

\* Foreign keys: what a row refers to exists.
ForeignKeys ==
  /\ \A c \in CertIds : CertExists(c) /\ certs[c].renewed_from # NoId =>
       CertExists(certs[c].renewed_from)
  /\ \A r \in RenewalIds : renewals[r] # NoRow => CertExists(renewals[r].cert)
  /\ \A d \in DeletionIds : deletions[d] # NoRow => CertExists(deletions[d].cert)

\* The partial unique indexes: one open request per certificate and workflow.
OneOpenRequest ==
  /\ \A q, r \in RenewalIds :
       RenewalOpen(q) /\ RenewalOpen(r) /\ renewals[q].cert = renewals[r].cert => q = r
  /\ \A q, d \in DeletionIds :
       DeletionOpen(q) /\ DeletionOpen(d) /\ deletions[q].cert = deletions[d].cert
         => q = d

\* A request that waits for review is about a live certificate: approving
\* either kind of request closes the other kind, so nothing is left in a
\* review queue that could never be actioned.
OpenRequestsOnLiveCerts ==
  /\ \A r \in RenewalIds :
       RenewalOpen(r) => CertExists(renewals[r].cert) /\ IsLive(renewals[r].cert)
  /\ \A d \in DeletionIds :
       DeletionOpen(d) => CertExists(deletions[d].cert) /\ IsLive(deletions[d].cert)

\* No sequence of requests, approvals and restores makes a certificate both
\* rotated and deleted.
NeverRotatedAndDeleted ==
  \A c \in CertIds :
    CertExists(c) => certs[c].rotated_by = NoOne \/ certs[c].deleted_by = NoOne

RenewedBy(r, c) ==
  renewals[r] # NoRow /\ renewals[r].status = "approved" /\ renewals[r].cert = c

\* A rotated certificate has exactly one successor, created by the one renewal
\* approved for it, and nothing else claims to descend from it: history never
\* forks and a rotated row is never without its replacement.
RotationIsExact ==
  \A c \in CertIds :
    /\ CertExists(c) /\ certs[c].rotated_by # NoOne =>
         \E r \in RenewalIds :
           /\ RenewedBy(r, c)
           /\ renewals[r].reviewed_by = certs[c].rotated_by
           /\ \A q \in RenewalIds : RenewedBy(q, c) => q = r
           /\ renewals[r].new_certificate \in CertIds
           /\ \A s \in CertIds :
                (CertExists(s) /\ certs[s].renewed_from = c)
                  <=> s = renewals[r].new_certificate
    /\ CertExists(c) /\ certs[c].rotated_by = NoOne =>
         /\ \A r \in RenewalIds : ~RenewedBy(r, c)
         /\ \A s \in CertIds : CertExists(s) => certs[s].renewed_from # c

\* Silencing a certificate takes two people: behind every rotated or deleted
\* row there is an approved request, reviewed by the person stamped on the row
\* and opened by somebody else.
FourEyes ==
  \A c \in CertIds : CertExists(c) =>
    /\ certs[c].rotated_by # NoOne =>
         \E r \in RenewalIds :
           /\ RenewedBy(r, c)
           /\ renewals[r].reviewed_by = certs[c].rotated_by
           /\ renewals[r].submitted_by # certs[c].rotated_by
    /\ certs[c].deleted_by # NoOne =>
         \E d \in DeletionIds :
           /\ deletions[d] # NoRow /\ deletions[d].status = "approved"
           /\ deletions[d].cert = c
           /\ deletions[d].reviewed_by = certs[c].deleted_by
           /\ deletions[d].requested_by # certs[c].deleted_by

\* A rotation never turns a token into a certificate or back, however often
\* the line of replacements is edited in between.
LineageKeepsKind ==
  \A c, s \in CertIds :
    CertExists(c) /\ CertExists(s) /\ certs[s].renewed_from = c
      => certs[s].kind = certs[c].kind

\* The newest audit row of a certificate that says anything about it being live
\* agrees with the row itself, names who did it, and leads to the request whose
\* reason the row carries.
TrailExplainsState ==
  \A c \in CertIds : CertExists(c) =>
    /\ trail[c] # <<>>
    /\ LET last == trail[c][Len(trail[c])]
       IN CASE certs[c].rotated_by # NoOne ->
                 /\ last.action = "renewal.approve"
                 /\ last.actor = certs[c].rotated_by
                 /\ last.request \in RenewalIds /\ RenewedBy(last.request, c)
            [] certs[c].deleted_by # NoOne ->
                 /\ last.action = "certificate.delete"
                 /\ last.actor = certs[c].deleted_by
                 /\ last.request \in DeletionIds
                 /\ deletions[last.request] # NoRow
                 /\ deletions[last.request].cert = c
                 /\ deletions[last.request].reason = certs[c].deletion_reason
            [] OTHER ->
                 /\ last.action \in {"certificate.create", "certificate.restore"}
                 /\ certs[c].deletion_reason = NoReason

\* A request that was approved, rejected or withdrawn never changes again: a
\* late reviewer cannot overturn a decision, and restoring a certificate does
\* not revive the requests its deletion closed.
ClosedRequestsAreFinal ==
  [][/\ \A r \in RenewalIds :
          renewals[r] # NoRow /\ ~RenewalOpen(r) => renewals'[r] = renewals[r]
     /\ \A d \in DeletionIds :
          deletions[d] # NoRow /\ ~DeletionOpen(d) => deletions'[d] = deletions[d]]_vars

\* A rotated certificate is history: afterwards only its owner can change.
RotatedIsFrozen ==
  [][\A c \in CertIds :
       CertExists(c) /\ certs[c].rotated_by # NoOne =>
         \E v \in Users : certs'[c] = [certs[c] EXCEPT !.owner = v]]_vars

\* The inductive invariant behind the safety properties: a request can only be
\* closed together with its certificate because it is the only one of its
\* workflow, and a new row has no history because what rows refer to exists.
IInv ==
  /\ TypeOK
  /\ ForeignKeys
  /\ OneOpenRequest
  /\ OpenRequestsOnLiveCerts
  /\ NeverRotatedAndDeleted
  /\ RotationIsExact
  /\ FourEyes
  /\ LineageKeepsKind
  /\ TrailExplainsState
=============================================================================
