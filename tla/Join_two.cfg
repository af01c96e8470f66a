\* The boot join and one asked for over the API, a late call, disruptions,
\* either policy.
SPECIFICATION Spec
CONSTANTS
  None = None
  Operator = Operator
  Joins = {boot, api}
  Timed = {api}
  AutoAdopts = {TRUE, FALSE}
  Ids = {e1, e2, e3, e4, e5}
  Challenges = {c1,c2,c3,c4,c5}
  MaxLate = 1
  MaxDisruptions = 3
INVARIANTS TypeOK WaitCanEnd
PROPERTIES CredentialsNeedAdoption JoinCompletesAlone
\* Once the node has joined and nothing disrupts it, nothing is left to do.
CHECK_DEADLOCK FALSE
