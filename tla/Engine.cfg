SPECIFICATION Spec
CONSTANTS
  e1 = e1
  e2 = e2
  review = review
  publish = publish
  p1 = p1
  alice = alice
  bob = bob
  Executions = {e1, e2}
  Workflows = {review, publish}
  Entities = {p1}
  WorkflowOf <- ReviewThenPublish
  EntityOf <- SameProduct
  NoEntity = NoEntity
  ReviewWorkflows = {review}
  DefaultWorkflows = {}
  Definitions <- TwoStageAndValidation
  InitialDef <- MixedDefs
  InitialStatus = "under_review"
  StepIds <- Slugs
  NoStep = NoStep
  NoExecution = NoExecution
  Approvers = {alice, bob}
  Loop = Loop
  t1 = t1
  Threads = {}
  MaxCrashes = 0
  MaxEdits = 0
  MaxMoves = 1
  MaxRetries = 1
INVARIANTS
  TypeOK
  PausedIsAnswerable
  HistoryFollowsGraph
  TerminalStepSettles
  CountsMatchRows
  FinishedIffTerminal
  ActiveOnlyIfApproved
PROPERTIES
  LoopReturns
  RunningSettles
CHECK_DEADLOCK FALSE
