\* A management request in flight and a restart; the device joins nothing by itself.
SPECIFICATION Spec
CONSTANTS
  None = None
  Self = self
  Others = {a}
  Joining = {}
  Main = main
  Sync = sync
  APTask = aptask
  Requests = {r1}
  Modes = {"select", "onboard"}
  MaxCrashes = 1
  MaxFailures = 0
INVARIANT PostureRestored
PROPERTIES SettledChoiceStands SetupAPStaysDown
\* A device that has come up and that nobody asks anything is at rest.
CHECK_DEADLOCK FALSE
