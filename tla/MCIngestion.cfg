\* Safety and liveness of two uploads with one crash.
SPECIFICATION Spec
CONSTANTS
  Jobs = {j1, j2}
  Tenants = {"optics", "physics"}
  Requests <- MixedRequests
  MaxCrashes = 1
INVARIANTS
  UniqueContent
  ReportMatchesIndex
  CompletedIsTotal
  DuplicateWasIndexed
  RawFileOnDisk
  DeadOnlyByClash
PROPERTIES
  FinalIsFinal
  RunningSettles
