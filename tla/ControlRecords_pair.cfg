SPECIFICATION Spec
CONSTANTS
  a = a
  b = b
  s1 = s1
  s2 = s2
  None = None
  End = {a, b}
  First = a
  Stream = {s1, s2}
  Sender = {a}
  MaxRecords = 2
  MaxPolicies = 1
  MaxBreaks = 1
INVARIANTS Framed InOrder
PROPERTIES RecordsArrive OneStream
