CONSTANTS
  s1 = s1  s2 = s2  worker = worker  executor = executor
  StatusThreads <- MCTwoStatuses
  Worker <- worker
  Executor <- executor
  Reports <- MCReports
SPECIFICATION LiveSpec
PROPERTIES
  SettledStateIsPublished
  OvertakenReportIsCorrected
  StopIsLatched
