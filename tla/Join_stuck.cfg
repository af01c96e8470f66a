\* The boot join, and one join asked for over the API.
SPECIFICATION Spec
CONSTANTS
  None = None
  Operator = Operator
  Joins = {boot, api}
  Timed = {api}
  AutoAdopts = {FALSE}
  Ids = {e1, e2, e3, e4}
  Challenges = {c1, c2, c3, c4, c5}
  MaxLate = 0
  MaxDisruptions = 1
PROPERTY JoinCompletes
\* Once the node has joined and nothing disrupts it, nothing is left to do.
CHECK_DEADLOCK FALSE
