\* Unattended onboarding, one restart.
SPECIFICATION Spec
CONSTANTS
  None = None
  Self = self
  Others = {a}
  Joining = {}
  Main = main
  Sync = sync
  APTask = aptask
  Requests = {}
  Modes = {"onboard"}
  MaxCrashes = 1
  MaxFailures = 0
PROPERTY ComesUp
\* A device that has come up and that nobody asks anything is at rest.
CHECK_DEADLOCK FALSE
