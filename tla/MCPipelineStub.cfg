SPECIFICATION Spec
CONSTANTS
  Sessions = {s1}
  Clients = {c1}
  Udp = udp
  Mqtt = mqtt
  Callers = {udp, mqtt}
  Providers = {"stub"}
  TriggerEvery = 2
  MaxPackets = 4
  MaxConfigs = 0
  MaxControls = 6
  Faults = {}
  NoState = NoState
  NoMeeting = NoMeeting
INVARIANTS
  TypeOK
  AudioAccountedFor
  LeftoverBounded
PROPERTIES
  EveryRecordingIsFinished
