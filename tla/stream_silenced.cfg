SPECIFICATION Spec
CONSTANTS
  Streams <- MCStreams
  RequestOf <- MCRequestOf
  SubjectOf <- MCSubjectOf
  PerMinuteLimit = 1
  DailyBudget = 1
  None = None
INVARIANT FirstSuggestionIsSent
CHECK_DEADLOCK FALSE
