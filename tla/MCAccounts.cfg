\* One account, two requests in flight, up to two sessions.
CONSTANTS
  Tokens = {t1, t2}
  NoSession = NoSession
  NoToken = NoToken
  Requests = {r1, r2}
SPECIFICATION FairSpec
INVARIANTS
  TypeOK
  ReplacingEvicts
  FrozenUnlessChangedMeanwhile
  FreezeFollowsThePassword
PROPERTY HolderGetsBackIn
