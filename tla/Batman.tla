------------------------------- MODULE Batman -------------------------------
(***************************************************************************)
(* internal/batman: the batman-adv sections of the network package, and    *)
(* the LAN bridge's members that go with them.  It stages; its callers     *)
(* commit and reload.                                                      *)
(***************************************************************************)
EXTENDS UciCalls

\* The device, and the section that makes it
Iface == "bat0"
IfaceSection == Section(Iface)
MeshHardif == Section("bat0_mesh")
WiredHardif(port) == Named("bat0_", port)
DeviceSection(port) == Named("dev_", port)

\* Mutant: the port stays a member of the LAN bridge.
EnslavePortBridged(port) ==
  SetSection("network", WiredHardif(port), [master |-> Iface, device |-> port])
    \o AddListItem(port)
    \o Call("unique_mac", "network", DeviceSection(port), [name |-> port])

EnslavePort(port) ==
  SetSection("network", WiredHardif(port), [master |-> Iface, device |-> port])
    \o DelListItem(port)
    \o Call("unique_mac", "network", DeviceSection(port), [name |-> port])

ReleasePort(port) ==
  DelListItem(port) \o AddListItem(port)
    \o Delete("network", WiredHardif(port))
    \o Delete("network", DeviceSection(port))

\* Mutant: the hard interface is bridged instead of bat0.
BatmanApplyHardif(wiredPorts) ==
  SetSection("network", IfaceSection, [proto |-> "batadv"])
    \o SetSection("network", MeshHardif, [master |-> Iface])
    \o ForEach(3, [p \in wiredPorts |-> EnslavePort(p)])
    \o DelListItem("bat0_mesh") \o AddListItem("bat0_mesh")

BatmanApply(wiredPorts) ==
  SetSection("network", IfaceSection, [proto |-> "batadv"])
    \o SetSection("network", MeshHardif, [master |-> Iface])
    \o ForEach(3, [p \in wiredPorts |-> EnslavePort(p)])
    \o DelListItem(Iface) \o AddListItem(Iface)

Teardown(wiredPorts) ==
  DelListItem(Iface)
    \o ForEach(4, [p \in wiredPorts |-> ReleasePort(p)])
    \o Delete("network", MeshHardif) \o Delete("network", IfaceSection)

=============================================================================
