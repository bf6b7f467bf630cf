CONSTANTS
  Calls = {c1, c2, c3}
  Services = {"users", "billing"}
  Direct = {"billing"}
  Backends = {"b1", "b2", "bad"}
  PoolOf <- MCPoolOf
  Unparsable = {"bad"}
  MaxOutages = 2
  NDirs = 2
  Keys = {"tenant_id", "http_auth", "metrics"}
  Sections = {"services"}
  EnvKeys = {"tenant_id"}
  UnreadTexts <- MCUnreadTexts
  SectionKeys = {"k1", "k2"}
  MaxSectionFiles = 3
SPECIFICATION AssemblySpec
CHECK_DEADLOCK FALSE
INVARIANT ATypeOK
INVARIANT HighestLayerWins
INVARIANT EffectiveIsHighest
INVARIANT SectionLaterWins
INVARIANT OldCallsOnly
PROPERTY RestoredByOldCall
PROPERTY DeadPoolStaysDead
