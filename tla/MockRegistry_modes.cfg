\* Three test programs, one for each registry mode.
SPECIFICATION Spec
CONSTANTS
  t1 = t1
  t2 = t2
  t3 = t3
  Threads = {t1, t2, t3}
  Scopes = {s1, s2, s3}
  Mocks = {m1, m2}
  Nobody = Nobody
  NoMock = NoMock
  Setups <- Programs
SYMMETRY Symmetric
CHECK_DEADLOCK FALSE
INVARIANT RegistryMirrorsScopes
INVARIANT InnermostOwnMock
INVARIANT NoUseAfterFree
INVARIANT LifoNeverAborts
PROPERTY DestroyedUnlocked
PROPERTY LookupSeesScopes
