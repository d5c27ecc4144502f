CONSTANTS
  Secrets = {s1}
  Requests = {r1}
  Watcher = watcher
  NoText = noText
  MaxEpisodes = 2
SPECIFICATION Spec
CHECK_DEADLOCK FALSE
INVARIANTS
  ResumedOnlyOnRecord
  EvidenceAgrees
  SeenIsAccountedFor
