SPECIFICATION FairSpec
CONSTANTS
  Sessions = {s1}
  Clients = {c1}
  Udp = udp
  Mqtt = mqtt
  Callers = {udp, mqtt}
  Providers = {"stub", "openai_compatible"}
  TriggerEvery = 2
  MaxPackets = 3
  MaxConfigs = 1
  MaxControls = 5
  Faults = {"store", "broker", "malformed"}
  NoState = NoState
  NoMeeting = NoMeeting
INVARIANTS
  LateDeltasBounded
PROPERTIES
  FinalMissesAtMostOne
  StopIsAnswered
CHECK_DEADLOCK FALSE
