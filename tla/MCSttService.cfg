SPECIFICATION SttSpec
CONSTANTS
  Sessions = {s1}
  Callers = {udp, mqtt}
  Providers = {"stub", "openai_compatible", "volcengine_streaming"}
  TriggerEvery = 1
  MaxPackets = 2
  MaxConfigs = 1
  NoState = NoState
INVARIANTS
  SttTypeOK
  StreamFinishedOnce
  RevisionsRise
PROPERTIES
  ImplementsLedger
CHECK_DEADLOCK FALSE
