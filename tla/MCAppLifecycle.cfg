SPECIFICATION FairSpec
CONSTANTS
  Requests = {r1, r2}
  Boot = boot
  Configs = {"a", "b"}
  InitialConfig = "env"
  NoRow = NoRow
  Free = Free
  MaxVersion = 3
  Focuses = {"settings", "transports"}
  MaxBacklog = 2
INVARIANTS
  AppTypeOK
  SettingsAgree
  NothingAcceptedIsLost
  ServesOnlyWhenReady
  NoPacketAfterClose
PROPERTIES
  VersionsRise
  
  SettingsAnswered
