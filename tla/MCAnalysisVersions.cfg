SPECIFICATION Spec
CONSTANTS
  Sessions = {s1, s2}
  Producers = {udp}
  Capacity = 1
  LoadFails = TRUE
  MaxJobs = 4
  NoJob = NoJob
SYMMETRY Symmetry
INVARIANTS
  TypeOK
  VersionsAgree
  VersionsConsecutive
  NoJobLost
  DrainedAtClose
CHECK_DEADLOCK FALSE
