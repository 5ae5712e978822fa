CONSTANTS
  Nodes = {1, 2}
  Facts = {"f"}
  Values = {"hi", "lo", "absent", "null"}
  Absent = "absent"
  Null = "null"
  NoVal = "none"
  PlanIds = {"p", "q"}
  Drafts <- MCDrafts
  NodeDocs <- MCDocs
  Reviews = {"r1", "r2"}
  InboxLimit = 1
  Upserts <- OneUpserts
  Snapshots <- HighLow
  MaxSaves = 1
  MaxRevision = 2
  Resumes = {{}}
  MaxPlans = 2
  MayCrash = TRUE
  Concurrent = TRUE
  AdviserOn = TRUE
SPECIFICATION Spec
CONSTRAINT FirstIsP
PROPERTIES CompletedStays ActsOnCurrentPlan RecordedOnceStays RejectionBlocks ReviewKept
CHECK_DEADLOCK FALSE
