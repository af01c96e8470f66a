\* A device nobody asks anything, with and without a join list.
SPECIFICATION Spec
CONSTANTS
  None = None
  Self = self
  Others = {a, b}
  Joining = {a, b}
  Main = main
  Sync = sync
  APTask = aptask
  Requests = {}
  Modes = {"join", "onboard"}
  MaxCrashes = 3
  MaxFailures = 2
INVARIANTS TypeOK OnlyUndecidedOnboard PostureFollows
PROPERTIES ComesUpUninterrupted JoinSettles NeverGuestAgain
\* A device that has come up and that nobody asks anything is at rest.
CHECK_DEADLOCK FALSE
