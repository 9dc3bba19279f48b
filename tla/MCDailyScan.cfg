\* Days of 3, 4 and 5 hours, of which the second is skipped or repeated; the last day of the
\* run is followed by more of the same.
CONSTANTS
  Never = Never
  Certs = {c1}
  Scans = {s1}
  Rules <- Ladder
  Expiries = {2}
  MilestoneSets = {{}}
  ChannelSets = {{"teams"}, {"email"}}
  EmailEnabled = TRUE
  Faults = {"channel", "database", "crash"}
  LastDay = 1
  MaxCycle = 0
  MaxAlerts = 1
  loop = s1
  Hours = 4
  Shift = 1
  Changes <- ShortAndLong
  MaxDeaths = 1
SPECIFICATION FairDailySpec
CONSTRAINT FewAlerts
PROPERTIES
  ScansAreDaily
  NoDayIsMissed
  DueIsAlerted
