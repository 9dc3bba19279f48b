\* Two scans at once: the daily one and "Run check now", or two of the latter.
CONSTANTS
  Never = Never
  Certs = {c1}
  Scans = {s1, s2}
  Rules <- Ladder
  Expiries = {3}
  MilestoneSets = {{2}}
  ChannelSets = {{"teams"}}
  EmailEnabled = TRUE
  Faults = {}
  LastDay = 3
  MaxCycle = 0
  MaxAlerts = 3
SPECIFICATION Spec
SYMMETRY Names
CONSTRAINT FewAlerts
INVARIANT NeverTwiceADay
