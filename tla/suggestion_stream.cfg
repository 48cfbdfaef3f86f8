SPECIFICATION FairSpec
CONSTANTS
  Streams <- MCStreams
  RequestOf <- MCRequestOf
  SubjectOf <- MCSubjectOf
  PerMinuteLimit = 1
  DailyBudget = 1
  None = None
INVARIANTS
  TypeOK
  WithinLimits
  OneModelSpeaks
  GivenUpMeansBothFailed
PROPERTIES ImplementsService StreamsEnd
CHECK_DEADLOCK FALSE
