\* Two items, one scan, every kind of failure.
CONSTANTS
  Never = Never
  Certs = {c1, c2}
  Scans = {s1}
  Rules <- Ladder
  Expiries = {2}
  MilestoneSets = {{1}}
  ChannelSets = {{}, {"teams", "email"}}
  EmailEnabled = TRUE
  Faults = {"channel", "database", "cancel", "crash"}
  LastDay = 3
  MaxCycle = 0
  MaxAlerts = 2
SPECIFICATION Spec
SYMMETRY Names
CONSTRAINTS FewAlerts OneNight
INVARIANTS
  TypeOK
  NothingLeftBehind
  NoSilentGap
  RecordedMeansAlerted
