CONSTANTS
  Callers = {c1, c2}
  Nobody = nobody
  Ids = {a, b, s}
  a = a
  b = b
  s = s
  Payloads = {1, 2}
  None = none
  Requests <- MCRequests
  Limit = 2
SPECIFICATION Spec
PROPERTIES
  ConfirmedMeansAll
  PromiseKept
CONSTRAINT NothingEvicted
