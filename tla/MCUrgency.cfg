\* Every ladder of up to three parts under every order of the severity cutoffs.
CONSTANTS
  Never = Never
  Blank = Blank
  Specs <- SmallSpecs
  DefaultRules <- Shipped
  Cutoffs <- SmallCutoffs
  FirstDay = 6
  LastDay <- TwoDaysPast
SPECIFICATION Spec
CHECK_DEADLOCK FALSE
INVARIANT TightestRungWins
PROPERTIES
  NeverSlowsDown
  SeverityNeverEases
