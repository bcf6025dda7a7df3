SPECIFICATION Spec
CONSTANTS
  e1 = e1
  e2 = e2
  h1 = h1
  h2 = h2
  c1 = c1
  Event = {e1, e2}
  Hook = {h1, h2}
  Channel = {c1}
  Rendered = {e1}
  Attempts = 2
  MaxEvents = 1
  MaxStalls = 1
  MaxFaults = 2
  MaxToggles = 1
INVARIANTS
  HealthyOnce
  DeadLettersAreSound
PROPERTY KeepsThePromise
CHECK_DEADLOCK FALSE
