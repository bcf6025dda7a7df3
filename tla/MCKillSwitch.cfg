SPECIFICATION Spec
CONSTANTS
  agent = agent
  newcomer = newcomer
  human = human
  Actor = {agent, newcomer}
  Human = {}
  Home = {agent}
  Newcomer = {newcomer}
  Reader <- Call
  Ttl = 1
  Latency = 0
  MaxWrites = 2
INVARIANT CutOff
PROPERTY NoActiveAnswer
CHECK_DEADLOCK FALSE
