SPECIFICATION FairSpec
CONSTANTS
  agent = agent
  newcomer = newcomer
  human = human
  Actor = {agent, human}
  Human = {human}
  Home = {agent}
  Newcomer = {}
  Reader <- Call
  Ttl = 1
  Latency = 0
  MaxWrites = 2
INVARIANT BoundedStaleness
INVARIANT AnswersMoveForward
INVARIANT QuietInvalidationHonoured
PROPERTY DisarmRestores
PROPERTY CallsReturn
CHECK_DEADLOCK FALSE
