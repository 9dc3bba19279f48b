\* Two rows that have nothing to do with each other, or a line of three: long
\* enough to be rotated twice and to be deleted, restored and deleted again.
CONSTANTS
  alice = alice
  root = root
  Users = {alice, root}
  Admins = {root}
  Periods = {p1}
  Reasons = {why}
  NoOne = NoOne
  NoReason = NoReason
  NoId = NoId
  NoRow = NoRow
  CertIds = {c1, c2, c3}
  RenewalIds = {r1, r2}
  DeletionIds = {d1, d2}
SPECIFICATION Spec
CONSTRAINT OneLineOrTwoRows
SYMMETRY RowIds
INVARIANTS
  TypeOK
  OpenRequestsOnLiveCerts
  NeverRotatedAndDeleted
  RotationIsExact
  FourEyes
  LineageKeepsKind
  TrailExplainsState
  IInv
PROPERTIES
  ClosedRequestsAreFinal
  RotatedIsFrozen
