SPECIFICATION FairSpec
CONSTANTS
  t1 = t1
  t2 = t2
  gatewayUrl = gatewayUrl
  token = token
  url = url
  None = None
  Commands <- MCCommands
  Keys <- MCKeys
  Values <- MCValues
  EnvUrl = FALSE
  Terminal = t1
  MaxAttempts = 2
  MaxQuestions = 1
  MaxText = 3
INVARIANTS CliTypeOK CommandsAddUp PrintedAreLines RebuiltIsRunning
PROPERTY QuestionsEnd
