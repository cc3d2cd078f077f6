SPECIFICATION Spec
CONSTANTS
  e1 = e1
  e2 = e2
  review = review
  publish = publish
  p1 = p1
  alice = alice
  bob = bob
  Executions = {e1}
  Workflows = {review}
  Entities = {p1}
  WorkflowOf <- BothReview
  EntityOf <- OtherEntity
  NoEntity = NoEntity
  ReviewWorkflows = {review}
  DefaultWorkflows = {}
  Definitions <- Edits
  InitialDef <- AllOneStage
  InitialStatus = "under_review"
  StepIds <- Slugs
  NoStep = NoStep
  NoExecution = NoExecution
  Approvers = {alice, bob}
  Loop = Loop
  t1 = t1
  Threads = {t1}
  MaxCrashes = 1
  MaxEdits = 1
  MaxMoves = 0
  MaxRetries = 1
INVARIANTS
  PausedIsAnswerable
  OneRunnerPerExecution
PROPERTIES
  DeletedStaysDeleted
CHECK_DEADLOCK FALSE
