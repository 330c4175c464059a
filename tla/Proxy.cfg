\* Two threads and a reader, three counted calls, one status that is counted and one that is not.
SPECIFICATION Spec
CONSTANTS
  Callers = {c1, c2}
  Responsive = {c1}
  Attentive = {c2}
  Platforms = {"unix", "windows"}
  Methods = {"OTHER"}
  Statuses = {100, 200}
  Durations = {1, 30}
  PayloadSize = 2
  MaxCalls = 3
INVARIANTS TypeOK Conserved Reported AverageInRange SnapshotBound
