SPECIFICATION Spec
CONSTANTS
  Sessions = {s1}
  Clients = {c1}
  Udp = udp
  Mqtt = mqtt
  Callers = {udp, mqtt}
  Providers = {"stub"}
  TriggerEvery = 1
  MaxPackets = 3
  MaxConfigs = 0
  MaxControls = 4
  Faults = {}
  NoState = NoState
  NoMeeting = NoMeeting
PROPERTIES
  FinalSnapshotStays
