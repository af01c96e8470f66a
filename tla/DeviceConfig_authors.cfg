\* Profiles, postures, the setup AP and the failover on one board.
SPECIFICATION Spec
CONSTANTS
  None = None
  Radios <- TwoRadios
  BandOf <- TwoBands
  DefaultRadio = "radio0"
  MeshBand = "2g"
  SetupRadio = "radio0"
  Uplink = "wan"
  LanPorts <- Jacks
  Authors = {main}
  Devices <- ThreeDevices
  Profiles <- TwoProfiles
  MaxJobs = 2
  MaxFaults = 1
INVARIANTS TypeOK NothingLeftStaged EachPortInOnePlace MeshNotStranded
  RecordedBackhaulHolds APsConverge SetupGone
PROPERTIES StandbyMeshKept MeshFollowsWire
\* A device without a failover is at rest once nobody asks anything of it.
CHECK_DEADLOCK FALSE
