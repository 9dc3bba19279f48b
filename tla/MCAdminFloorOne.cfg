\* One account change at a time.
CONSTANTS
  Users = {u1, u2, u3}
  NoRow = NoRow
  Txs = {t1}
SPECIFICATION FairSpec
INVARIANTS
  TypeOK
  FloorHolds
  IInv
PROPERTY ServiceComesBack
