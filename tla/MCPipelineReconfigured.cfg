SPECIFICATION Spec
CONSTANTS
  Sessions = {s1}
  Clients = {c1}
  Udp = udp
  Mqtt = mqtt
  Callers = {udp, mqtt}
  Providers = {"stub", "volcengine_streaming"}
  TriggerEvery = 1
  MaxPackets = 2
  MaxConfigs = 1
  MaxControls = 3
  Faults = {}
  NoState = NoState
  NoMeeting = NoMeeting
INVARIANTS
  SurvivesReconfiguration
