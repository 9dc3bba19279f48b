\* Two handlers in flight, three things that happen; every button, half the lists.
CONSTANTS
  Tasks = {t1, t2}
  Items = {c1, c2}
  Lists = {"certs", "renewals", "audit", "history"}
  Categories = {"all", "auth"}
  Everything = "all"
  Accounts <- AnyAccount
  Buttons <- AllButtons
  Faults = {"lost", "expiry", "reload"}
  NoOne = NoOne
  NoItem = NoItem
  Defaults = Defaults
  MaxEvents = 3
SPECIFICATION BoundedSpec
SYMMETRY Names
CHECK_DEADLOCK FALSE
INVARIANTS
  TypeOK
  SettledScreenIsRight
  FormBelongsToItsDialog
  BusyMeansInFlight
  NoDoubleSubmit
