\* The boot join alone, adopted unattended, and rejected once.
SPECIFICATION Spec
CONSTANTS
  None = None
  Operator = Operator
  Joins = {boot}
  Timed = {}
  AutoAdopts = {TRUE}
  Ids = {e1, e2, e3}
  Challenges = {c1, c2, c3}
  MaxLate = 0
  MaxDisruptions = 1
PROPERTY RejectionStands
\* Once the node has joined and nothing disrupts it, nothing is left to do.
CHECK_DEADLOCK FALSE
