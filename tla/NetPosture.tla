----------------------------- MODULE NetPosture -----------------------------
(***************************************************************************)
(* internal/netposture: the role that follows from the active Home, and    *)
(* the network and dhcp options the role asks for.  wan stands for wan and *)
(* wan6, which are always set alike.                                       *)
(***************************************************************************)
EXTENDS UciCalls

CONSTANT Uplink     \* the wired uplink device: network.wan.device

ApplySets == Commit("network") \o Commit("dhcp") \o Reload

\* Guest and mesh node.  `found` tells whether uplinkPort has found the uplink:
\* network.wan.device that cannot be read is no uplink, and the bridge stays as
\* it is.
ApplyBridgedDumbAP(found) ==
  (IF found THEN AddListItem(Uplink) ELSE <<>>)
    \o Set("network", Section("lan"), [proto |-> "dhcp"])
    \o Set("network", Section("wan"), [disabled |-> "1"])
    \o Set("dhcp", Section("lan"), [ignore |-> "1"])
    \o ApplySets

\* Mutant: the gateway keeps its uplink in the LAN bridge.
ApplyControllerBridged(found) ==
  Set("network", Section("wan"), [disabled |-> "0"])
    \o Set("dhcp", Section("lan"), [ignore |-> "0"])
    \o ApplySets

ApplyController(found) ==
  (IF found THEN DelListItem(Uplink) ELSE <<>>)
    \o Set("network", Section("wan"), [disabled |-> "0"])
    \o Set("dhcp", Section("lan"), [ignore |-> "0"])
    \o ApplySets

ApplyPosture(role, found) ==
  IF role = "controller" THEN ApplyController(found) ELSE ApplyBridgedDumbAP(found)

=============================================================================
