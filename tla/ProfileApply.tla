---------------------------- MODULE ProfileApply ----------------------------
(***************************************************************************)
(* internal/profiles/manager.go: how a profile becomes UCI sections.       *)
(*                                                                         *)
(* A profile is [mesh, ap, bands]: whether it has a mesh SSID, the band of *)
(* its access point ("" leaves the daemon's default radio) and APBands.    *)
(* Its SSID and keys do not matter here: the access point's SSID defaults  *)
(* to the mesh's, so every profile that authors anything has one.  As it   *)
(* is applied it has a field more, `unread`: the reads of the radios that  *)
(* failed and that the application makes up for, "mesh" or "aps".          *)
(***************************************************************************)
EXTENDS Batman

CONSTANTS
  Radios,       \* the wifi-devices, in the order of their names
  BandOf,       \* radio -> band
  DefaultRadio, \* cfg.Radio
  MeshBand      \* cfg.MeshBand

MeshSection == Section("omm_mesh")
APSection == Section("omm_ap")
SecondaryAP(band) == Named("omm_ap_", band)
SecondaryAPs == {SecondaryAP(BandOf[Radios[i]]) : i \in DOMAIN Radios}

\* The band's lowest radio
RadiosFor(band) == {i \in DOMAIN Radios : BandOf[Radios[i]] = band}
HasBand(band) == RadiosFor(band) # {}
LowestRadioForBand(band) ==
  Radios[CHOOSE i \in RadiosFor(band) : \A j \in RadiosFor(band) : i <= j]

\* An access point whose band no radio has is an error, and so is a read that
\* fails here: nothing is authored yet.
Resolvable(profile) == profile.ap # "" => HasBand(profile.ap)
ResolveRadio(profile) ==
  IF profile.ap # "" THEN LowestRadioForBand(profile.ap) ELSE DefaultRadio

\* An explicit cfg.MeshRadio is not looked for.
MeshRadioIsSet(device) == device.meshRadio # ""

\* The reads that may fail without failing the application
ReadsPassedOver(device) ==
  {"aps"} \cup IF MeshRadioIsSet(device) THEN {} ELSE {"mesh"}

ResolveMeshRadio(profile, device, apRadio) ==
  CASE MeshRadioIsSet(device) -> device.meshRadio
    [] ~MeshRadioIsSet(device) /\ "mesh" \notin profile.unread /\ HasBand(MeshBand) ->
         LowestRadioForBand(MeshBand)
    [] OTHER -> apRadio

\* Bands that get an access point besides the primary one: those asked for (by
\* default the mesh band) that this board has on another radio.  If the radios
\* cannot be read there are none.
Bands(profile) == IF profile.bands = {} THEN {MeshBand} ELSE profile.bands
ExtraBands(profile, apRadio) ==
  {b \in Bands(profile) :
     /\ "aps" \notin profile.unread
     /\ HasBand(b) /\ LowestRadioForBand(b) # apRadio}

\* resolveAPTargets: section -> radio
ResolveAPTargets(profile, apRadio) ==
  [s \in {APSection} \cup {SecondaryAP(b) : b \in ExtraBands(profile, apRadio)} |->
     IF s = APSection THEN apRadio ELSE LowestRadioForBand(s[2])]

\* Without batman the enabled state is left to the failover.
MeshOptions(radio, batman, standby) ==
  IF batman
  THEN [mode |-> "mesh", device |-> radio, network |-> MeshHardif,
        disabled |-> IF standby THEN "1" ELSE "0"]
  ELSE [mode |-> "mesh", device |-> radio, network |-> Section("lan")]

BatmanOn(profile, device) == device.batman /\ profile.mesh

AuthorBatman(profile, device) ==
  IF BatmanOn(profile, device) THEN BatmanApply(device.wired) ELSE <<>>

AuthorMesh(profile, device, radio, standby) ==
  IF profile.mesh
  THEN SetSection("wireless", MeshSection,
                  MeshOptions(radio, BatmanOn(profile, device), standby))
  ELSE <<>>

AuthorAP(section, radio) ==
  SetSection("wireless", section, [mode |-> "ap", device |-> radio])

\* "prune" is pruneStaleSecondaryAPs: what it reads decides what it deletes.
AuthorAPs(targets) ==
  ForEach(1, [s \in DOMAIN targets |-> AuthorAP(s, targets[s])])
    \o Call("prune", "wireless", APSection, [keep |-> DOMAIN targets])

EnableRadio(radio) == Set("wireless", RadioSection(radio), [disabled |-> "0"])

Activate(batman) ==
  (IF batman THEN Commit("network") ELSE <<>>) \o Commit("wireless") \o Reload

\* "batman_up" and "mesh_up" are batmanFallback and verifyBackhaul: what they
\* read decides what follows.
Verify(profile, device) ==
  (IF BatmanOn(profile, device)
   THEN Call("batman_up", "network", IfaceSection, NoArg) ELSE <<>>)
    \o Call("mesh_up", "wireless", MeshSection, [mesh |-> profile.mesh])

ApplyProfile(profile, device, standby) ==
  LET apRadio == ResolveRadio(profile)
      meshRadio == ResolveMeshRadio(profile, device, apRadio)
      targets == ResolveAPTargets(profile, apRadio)
      used == {targets[s] : s \in DOMAIN targets}
                \cup IF profile.mesh THEN {meshRadio} ELSE {}
  IN  AuthorBatman(profile, device)
        \o AuthorMesh(profile, device, meshRadio, standby)
        \o AuthorAPs(targets)
        \o ForEach(1, [r \in used |-> EnableRadio(r)])
        \o Activate(BatmanOn(profile, device))
        \o Verify(profile, device)

\* Mutant: the sections are deleted and the bridge keeps its members.
BatmanFallbackUncommitted(device) ==
  Set("wireless", MeshSection, [network |-> Section("lan")])
    \o Teardown(device.wired)
    \o Commit("wireless") \o Reload

\* Mutant: the mesh stays attached to the batman that is torn down.
BatmanFallbackStranding(device) ==
  Teardown(device.wired)
    \o Commit("network") \o Commit("wireless") \o Reload

\* batmanFallback, when bat0 did not come up
BatmanFallback(device) ==
  Set("wireless", MeshSection, [network |-> Section("lan")])
    \o Teardown(device.wired)
    \o Commit("network") \o Commit("wireless") \o Reload

\* verifyBackhaul, when the mesh did not come up
Degrade == Delete("wireless", MeshSection) \o Commit("wireless") \o Reload

SetBackhaulState(state) ==
  Call("backhaul_state", "wireless", MeshSection, [state |-> state])

=============================================================================
