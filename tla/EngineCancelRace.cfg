SPECIFICATION Spec
CONSTANTS
  e1 = e1
  e2 = e2
  review = review
  publish = publish
  p1 = p1
  alice = alice
  bob = bob
  Executions = {e1}
  Workflows = {review, publish}
  Entities = {p1}
  WorkflowOf <- BothReview
  EntityOf <- OtherEntity
  NoEntity = NoEntity
  ReviewWorkflows = {review}
  DefaultWorkflows = {}
  Definitions <- Edits
  InitialDef <- AllValidation
  InitialStatus = "under_review"
  StepIds <- Slugs
  NoStep = NoStep
  NoExecution = NoExecution
  Approvers = {alice, bob}
  Loop = Loop
  t1 = t1
  Threads = {t1}
  MaxCrashes = 0
  MaxEdits = 0
  MaxMoves = 0
  MaxRetries = 0
PROPERTIES
  CancelSticks
CHECK_DEADLOCK FALSE
