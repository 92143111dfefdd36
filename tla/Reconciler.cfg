CONSTANTS
  issue = issue
  pull = pull
  files = files
  Workers = {issue, pull, files}
  Callers = {issue, pull, files}
  UrlOf <- MCUrlOf
  Repos = {"org/repo"}
  MaxClients = 2
  PageSize = 1
  Target = 2
  MaxComments = 5
  MaxForeign = 1
  MaxRetry = 2
  MaxQueues = 2
  MaxMeddling = 1
  MaxFailures = 1
SPECIFICATION FairSpec
INVARIANTS TypeOK OneClientPerRepo OneComment FetchedIsCommitted SettledIsStored
PROPERTIES OthersKept EveryKeyEnds
CHECK_DEADLOCK FALSE
