------------------------------ MODULE SetupAP -------------------------------
(***************************************************************************)
(* internal/setupap: the first-boot access point and the uplink station.   *)
(***************************************************************************)
EXTENDS UciCalls

CONSTANT SetupRadio

\* The network section and its dhcp pool have one name.
SetupNet == Section("ommsetup")
SetupWifi == Section("omm_setup")
UplinkNet == Section("ommuplink")
UplinkWifi == Section("omm_uplink")

SetupSections ==
  {<<"network", SetupNet>>, <<"dhcp", SetupNet>>, <<"wireless", SetupWifi>>}
UplinkSections ==
  {<<"network", UplinkNet>>, <<"wireless", UplinkWifi>>}

CommitAndReload ==
  Commit("network") \o Commit("dhcp") \o Commit("wireless") \o Reload

EnableSetup ==
  SetSection("network", SetupNet, [proto |-> "static"])
    \o SetSection("dhcp", SetupNet, [interface |-> "ommsetup"])
    \o SetSection("wireless", SetupWifi, [mode |-> "ap"])
    \o Set("wireless", RadioSection(SetupRadio), [disabled |-> "0"])
    \o CommitAndReload

\* The manager remembers, in memory, that there is an uplink.
EnableUplink ==
  SetSection("network", UplinkNet, [proto |-> "dhcp"])
    \o SetSection("wireless", UplinkWifi, [mode |-> "sta"])
    \o Set("wireless", RadioSection(SetupRadio), [disabled |-> "0"])
    \o CommitAndReload
    \o Call("uplink_active", "", Section(""), [active |-> TRUE])

\* Mutant: the uplink is left to the operator.
DisableSetupOnly(uplinkActive) ==
  Delete("wireless", SetupWifi)
    \o Delete("network", SetupNet)
    \o Delete("dhcp", SetupNet)
    \o CommitAndReload

Disable(uplinkActive) ==
  Delete("wireless", SetupWifi)
    \o Delete("network", SetupNet)
    \o Delete("dhcp", SetupNet)
    \o (IF uplinkActive
        THEN Delete("wireless", UplinkWifi)
               \o Delete("network", UplinkNet)
               \o Call("uplink_active", "", Section(""), [active |-> FALSE])
        ELSE <<>>)
    \o CommitAndReload

=============================================================================
