\* Two account changes at once.
CONSTANTS
  Users = {u1, u2, u3}
  NoRow = NoRow
  Txs = {t1, t2}
SPECIFICATION Spec
SYMMETRY Names
INVARIANT FloorHolds
