\* A device with a mesh as standby, and one call that fails, or a restart.
SPECIFICATION Spec
CONSTANTS
  None = None
  Radios <- TwoRadios
  BandOf <- TwoBands
  DefaultRadio = "radio0"
  MeshBand = "2g"
  SetupRadio = "radio0"
  Uplink = "wan"
  LanPorts <- Jacks
  Authors = {main}
  Devices <- OneDevice
  Profiles <- OneProfile
  MaxJobs = 1
  MaxFaults = 1
PROPERTY SwitchIsRetried
\* A device without a failover is at rest once nobody asks anything of it.
CHECK_DEADLOCK FALSE
