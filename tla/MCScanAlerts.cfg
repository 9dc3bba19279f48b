\* One item down the ladder and past its expiry; one scan at a time.
CONSTANTS
  Never = Never
  Certs = {c1}
  Scans = {s1}
  Rules <- Ladder
  Expiries = {2, 4}
  MilestoneSets = {{}, {1, 3}}
  ChannelSets = {{"teams"}}
  EmailEnabled = TRUE
  Faults = {"cancel"}
  LastDay = 5
  MaxCycle = 1
  MaxAlerts = 4
SPECIFICATION Spec
CONSTRAINTS FewAlerts OneNight
ACTION_CONSTRAINT ExpiryStaysDuringScans
INVARIANTS
  TwiceOnlyPastMidnight
  MilestonesFireOnce
