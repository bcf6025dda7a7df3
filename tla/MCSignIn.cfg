SPECIFICATION Spec
CONSTANTS
  d1 = d1
  d2 = d2
  p1 = p1
  p2 = p2
  Pages = {p1, p2}
  Wallets = {p1}
  Dids = {d1, d2}
  None = None
  Holder <- OnePageEach
  Subjects = {s1}
  NumLinks = 1
  Ttl = 1
  Window = 1
  Silence = 1
  Addressed <- AdminAndFirst
  s1 = s1
  MaxFaults = 1
INVARIANTS
  OneAdministrator
  OnboardingIsWhole
PROPERTY
  DoorCloses
  HumansGetIn
CHECK_DEADLOCK FALSE
