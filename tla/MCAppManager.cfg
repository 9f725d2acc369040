SPECIFICATION FairSpec
CONSTANTS
  MaxApps = 2
  MaxLines = 2
  MaxCalls = 2
INVARIANTS
  ServerSurvives
  PipeGoesToReader
  PromptMeansDone
 
CHECK_DEADLOCK FALSE
