\* An expiry date is changed while a scan is in progress.
CONSTANTS
  Never = Never
  Certs = {c1}
  Scans = {s1}
  Rules <- Ladder
  Expiries = {2, 5}
  MilestoneSets = {{2}}
  ChannelSets = {{"teams"}}
  EmailEnabled = TRUE
  Faults = {}
  LastDay = 3
  MaxCycle = 1
  MaxAlerts = 3
SPECIFICATION Spec
CONSTRAINT FewAlerts
INVARIANT RecordedMeansAlerted
