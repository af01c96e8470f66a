------------------------------ MODULE UciCalls ------------------------------
(***************************************************************************)
(* The UCI client (internal/uci/client.go).  The packages that author the  *)
(* device's configuration do so by a sequence of its calls, each a ubus    *)
(* call of its own with no lock around two of them; such a sequence is a   *)
(* program here.  DeviceConfig executes programs, one call at a step.      *)
(*                                                                         *)
(* A package is a function from section names to sections, a section a     *)
(* function from option names to values.                                   *)
(***************************************************************************)
EXTENDS Naturals, SequencesExt

Packages == {"network", "wireless", "dhcp"}

\* The name of a section: a fixed one, or one made of a prefix and the port, the
\* band or the radio that it is for.
Named(prefix, of) == <<prefix, of>>
Section(name) == Named(name, "")

RadioSection(radio) == Named("radio", radio)

\* The LAN bridge device whose `ports` are its members (cfg.LanDevice)
LanDevice == Section("bridge")

Call(op, pkg, sec, arg) == <<[op |-> op, pkg |-> pkg, sec |-> sec, arg |-> arg]>>

NoArg == [none |-> ""]

\* rpcd's add and set, one step; a failure can come between the two.
SetSection(pkg, sec, values) == Call("section", pkg, sec, values)
Set(pkg, sec, values) == Call("set", pkg, sec, values)
Delete(pkg, sec) == Call("delete", pkg, sec, NoArg)

\* The member list is read by one call and written back by another: GetList and
\* SetList in DeviceConfig.
AddListItem(value) == Call("add_item", "network", LanDevice, [item |-> value])
DelListItem(value) == Call("del_item", "network", LanDevice, [item |-> value])

Commit(pkg) == Call("commit", pkg, Section(""), NoArg)

ReloadPackage(pkg) == Call("reload", pkg, Section(""), NoArg)

\* netifd's network and wireless, and the event that makes dnsmasq read its
\* configuration.
Reload ==
  ReloadPackage("network") \o ReloadPackage("wireless") \o ReloadPackage("dhcp")

\* The n calls of body[x] for each x, in some order of the x
ForEach(n, body) ==
  LET order == SetToSeq(DOMAIN body)
  IN  [i \in 1 .. n * Len(order) |->
         body[order[((i - 1) \div n) + 1]][((i - 1) % n) + 1]]

-----------------------------------------------------------------------------
(* What a call makes of a configuration *)

Has(config, pkg, sec) == sec \in DOMAIN config[pkg]

Option(config, pkg, sec, option, unset) ==
  IF Has(config, pkg, sec) /\ option \in DOMAIN config[pkg][sec]
  THEN config[pkg][sec][option] ELSE unset

\* Options that are not named keep their values.
Overlay(values, old) ==
  [o \in DOMAIN values \cup DOMAIN old |->
     IF o \in DOMAIN values THEN values[o] ELSE old[o]]

WithOptions(config, pkg, sec, values) ==
  LET old == IF Has(config, pkg, sec) THEN config[pkg][sec] ELSE <<>>
  IN  [config EXCEPT ![pkg] =
         [s \in DOMAIN @ \cup {sec} |->
            IF s = sec THEN Overlay(values, old) ELSE @[s]]]

WithoutSection(config, pkg, sec) ==
  [config EXCEPT ![pkg] = [s \in DOMAIN @ \ {sec} |-> @[s]]]

Members(config) == Option(config, "network", LanDevice, "ports", {})

WithMembers(config, members) ==
  WithOptions(config, "network", LanDevice, [ports |-> members])

=============================================================================
