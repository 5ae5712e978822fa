CONSTANTS
  MaxSaves = 3
  Calendars <- Played
  Interval = 1
  JointInterval = 1
  Domains = {d1, d2}
  MaxEvents = 2
SPECIFICATION Spec
INVARIANTS OneOrderPerSave TriedOncePerSave OwedIsDue
PROPERTIES RoundsSeeOrders RoundsMoveOn NewestIsServed
CHECK_DEADLOCK FALSE
