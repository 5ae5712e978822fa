CONSTANTS
  Nodes = {1, 2}
  Facts = {"f"}
  Values = {"hi", "lo", "absent", "null"}
  Absent = "absent"
  Null = "null"
  NoVal = "none"
  PlanIds = {"p"}
  Drafts <- UntilDraft
  NodeDocs <- MCDocs
  Reviews = {}
  InboxLimit = 1
  Upserts <- NoUpserts
  Snapshots <- HighLow
  MaxSaves = 2
  MaxRevision = 0
  Resumes = {{}}
  MaxPlans = 1
  MayCrash = FALSE
  Concurrent = FALSE
  AdviserOn = FALSE
SPECIFICATION Spec
PROPERTY RejectedNeverSucceeds
CHECK_DEADLOCK FALSE
