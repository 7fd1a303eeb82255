SPECIFICATION SttSpec
CONSTANTS
  Sessions = {s1}
  Callers = {udp, mqtt}
  Providers = {"volcengine_streaming"}
  TriggerEvery = 1
  MaxPackets = 2
  MaxConfigs = 0
  NoState = NoState
INVARIANTS
  FinalRevisionIncreases
