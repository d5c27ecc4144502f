CONSTANTS
  Secrets = {s1}
  Requests = {r1, r2}
  Watcher = watcher
  NoText = noText
  MaxEpisodes = 1
SPECIFICATION FairSpec
CHECK_DEADLOCK FALSE
PROPERTIES
  ImplementsOwnership
  EveryEpisodeSettles
  RecordedReturnResumes
