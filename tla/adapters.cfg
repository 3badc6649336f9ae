SPECIFICATION FairSpec
CONSTANTS
  Tasks <- MCTasks
  CountModulus = 2
  AttemptCap = 9
INVARIANTS
  EveryAttemptStartsFresh
  SettledReportIsFinal
  AttemptsStayInBudget
  ExecutorSeesAStatus
  SinkFollowsReport
PROPERTY
  OnlyRequestsKeepItRunning
