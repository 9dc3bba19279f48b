\* Two concurrent requests on one certificate, under fair scheduling.
CONSTANTS
  alice = alice
  root = root
  Users = {alice, root}
  Admins = {root}
  Periods = {p1}
  Reasons = {why}
  NoOne = NoOne
  NoReason = NoReason
  NoId = NoId
  NoRow = NoRow
  CertIds = {c1, c2}
  first = c1
  RenewalIds = {r1}
  DeletionIds = {d1}
  Txs = {t1, t2}
  NoTx = NoTx
SPECIFICATION FairSpec
CONSTRAINT OnFirst
INVARIANTS
  TypeOK
  OnlyApprovalsDeadlock
PROPERTIES
  RefinesLifecycle
  EveryRequestEnds
