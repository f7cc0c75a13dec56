SPECIFICATION GwSpec
CONSTANTS
  t1 = t1
  t2 = t2
  u1 = u1
  u2 = u2
  u3 = u3
  u4 = u4
  u5 = u5
  u6 = u6
  u7 = u7
  u8 = u8
  alice = alice
  bob = bob
  faasten = faasten
  None = None
  Thread = {t1, t2}
  Principal = {alice, bob, faasten}
  User = {alice}
  Facet <- MCFacet
  Draw <- MCDraw
  Uid = {u1, u2, u3, u4, u5, u6, u7, u8}
  Delegated <- MCDelegated
  Clearances <- MCClearances
  Asked <- MCAsked
  FaastenPriv <- MCFaasten
  MaxRequests = 4
INVARIANTS OneDirectoryPerFacet TokensBacked ActsAsRequest HomeGates RegisteredHasGate
PROPERTIES FacetsKept RequestsEnd
CHECK_DEADLOCK FALSE
