SPECIFICATION FairSpec
CONSTANTS
  Sessions = {s1}
  Producers = {udp, mqtt}
  Capacity = 2
  LoadFails = FALSE
  MaxJobs = 4
  NoJob = NoJob
INVARIANTS
  OvertakenOnlyByOverflow
  LastTranscriptAnalysed
PROPERTIES
  CloseReturns
  EveryJobTaken
CHECK_DEADLOCK FALSE
