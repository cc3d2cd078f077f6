SPECIFICATION Spec
CONSTANTS
  scan = scan
  sync = sync
  Workflows = {scan, sync}
  Scheduled = {scan}
  NoWorkflow = NoWorkflow
  MaxJobs = 2
  MaxRuns = 1
  MaxTroubles = 1
INVARIANTS
  TypeOK
  EveryJobIsKnown
  AnnouncedOnce
PROPERTIES
  EndedRunIsSettled
  MonitorsEnd
CHECK_DEADLOCK FALSE
