---------------------------- MODULE DeviceConfig ----------------------------
(***************************************************************************)
(* The device's configuration and the parts of the daemon that author it   *)
(* at the same time: profile application (internal/profiles), the network  *)
(* posture (internal/netposture), the setup AP and the uplink station      *)
(* (internal/setupap), and the backhaul failover (internal/backhaul and    *)
(* startBackhaulFailover in main.go).  None of them holds a lock: a step   *)
(* is one ubus call of one task, and any call may fail.                    *)
(*                                                                         *)
(* A configuration is staged, then committed package by package, then read *)
(* by the running system at a reload of the package.  The daemon may be    *)
(* restarted and the device rebooted between any two calls; what is staged *)
(* is in RAM and survives the daemon only.                                 *)
(***************************************************************************)
EXTENDS ProfileApply, NetPosture, SetupAP

CONSTANTS
  Authors,        \* tasks that apply profiles and postures and run setupap
  LanPorts,       \* members of the LAN bridge as the device ships
  Devices,        \* configurations of the daemon: [batman, wired, explicit,
                  \* watched, meshRadio]
  Profiles,       \* profiles that may be applied
  MaxJobs,        \* jobs started (a bound)
  MaxFaults,      \* failed calls, restarts and reboots (a bound)
  None

ASSUME DeviceAssumption ==
  /\ "loop" \notin Authors
  /\ MaxJobs \in Nat /\ MaxFaults \in Nat
  /\ \A d \in Devices :
       /\ d.batman \in BOOLEAN /\ d.explicit \in BOOLEAN
       /\ IsFiniteSet(d.wired)

ASSUME RadioAssumption == Radios \in Seq({Radios[i] : i \in DOMAIN Radios})
ASSUME ProfileAssumption == \A p \in Profiles : p.mesh \in BOOLEAN
\* "bat0" is the device that batman makes, no port of the board.
ASSUME PortAssumption ==
  Iface \notin {Uplink} \cup LanPorts \cup UNION {d.wired : d \in Devices}
ASSUME NoneAssumption ==
  None \notin {"setup", "uplink", "disable", "80211s", "multi_ap", "degraded"}

Tasks == Authors \cup {"loop"}
Roles == {"guest", "controller", "node"}
Carriers == {"ethernet", "wireless"}

VARIABLES
  staged, committed, running, \* the configuration, as it passes through uci
  device,         \* the daemon's configuration
  role,           \* what DecideRole makes of the active Home
  carrier,        \* of the uplink port
  standby,        \* meshStandby: decided when the daemon starts
  backhaul,       \* the recorded BackhaulState
  uplinkActive,   \* setupap.Manager.uplinkActive
  prog,           \* task -> the calls it has left
  read,           \* task -> the member list it read, to write it back changed
  job,            \* task -> what it is doing
  past,           \* history: what was completed, what ended early
  jobs, faults    \* counters, for the bounds

config == <<staged, committed, running>>
daemon == <<device, role, carrier, standby>>
results == <<backhaul, uplinkActive>>
bounds == <<jobs, faults>>
vars == <<staged, committed, running, device, role, carrier, standby, backhaul,
          uplinkActive, prog, read, job, past, jobs, faults>>

Factory ==
  [network |->
     [s \in {LanDevice, Section("lan"), Section("wan")} |->
        CASE s = LanDevice -> [ports |-> LanPorts]
          [] s = Section("lan") -> [proto |-> "static"]
          [] s = Section("wan") -> [disabled |-> "0"]],
   wireless |->
     [s \in {RadioSection(Radios[i]) : i \in DOMAIN Radios} |-> [disabled |-> "1"]],
   dhcp |-> [s \in {Section("lan")} |-> [ignore |-> "0"]]]

\* ResolveUplinkPort: without a port that is set explicitly, the gateway has to
\* be reached over the wire at the time the daemon starts.
UplinkMayResolve(d, c) ==
  IF d.explicit THEN {TRUE} ELSE {FALSE} \cup {c = "ethernet"}

MeshStandby(d, r, resolved) == r # "controller" /\ resolved /\ d.wired = {}

Idle == [kind |-> "idle", arg |-> None]

\* After the first boot, which brought the setup AP up
FirstBoot ==
  LET net == WithOptions(Factory, "network", SetupNet, [proto |-> "static"])
      dhcp == WithOptions(net, "dhcp", SetupNet, [interface |-> "ommsetup"])
      wifi == WithOptions(dhcp, "wireless", SetupWifi, [mode |-> "ap"])
  IN  WithOptions(wifi, "wireless", RadioSection(SetupRadio), [disabled |-> "0"])

Init ==
  /\ staged = FirstBoot /\ committed = staged /\ running = staged
  /\ device \in Devices /\ role = "guest" /\ carrier \in Carriers
  /\ \E resolved \in UplinkMayResolve(device, carrier) :
       standby = MeshStandby(device, role, resolved)
  /\ backhaul = None /\ uplinkActive = FALSE
  /\ prog = [t \in Tasks |-> <<>>] /\ read = [t \in Tasks |-> None]
  /\ job = [t \in Tasks |-> Idle]
  /\ past = [profile |-> None, posture |-> None, setup |-> None,
             half |-> FALSE, forgot |-> FALSE, torn |-> {}]
  /\ jobs = 0 /\ faults = 0

-----------------------------------------------------------------------------
(* What is remembered of the jobs *)

SetupJobs == {"setup", "uplink", "disable"}

Dirty(s, c, r) == {p \in Packages : ~(s[p] = c[p] /\ c[p] = r[p])}

Done(t) ==
  CASE job[t].kind = "profile" ->
         [past EXCEPT !.profile = job[t].arg, !.half = @ /\ ~job[t].arg.mesh]
    [] job[t].kind = "posture" -> [past EXCEPT !.posture = job[t].arg]
    [] job[t].kind \in SetupJobs ->
         [past EXCEPT !.setup = job[t].kind,
                      !.forgot = @ /\ job[t].kind # "uplink"]
    [] OTHER -> past

EndedEarly(kinds) ==
  [past EXCEPT
     !.profile = IF "profile" \in kinds THEN None ELSE @,
     !.half = @ \/ "profile" \in kinds,
     !.posture = IF "posture" \in kinds THEN None ELSE @,
     !.setup = IF kinds \cap SetupJobs # {} THEN None ELSE @,
     !.forgot = @ \/ "uplink" \in kinds]

\* The call succeeded and `rest` is left to do.
Proceed(t, rest) ==
  /\ prog' = [prog EXCEPT ![t] = rest]
  /\ job' = IF rest = <<>> THEN [job EXCEPT ![t] = Idle] ELSE job
  /\ past' = [(IF rest = <<>> THEN Done(t) ELSE past) EXCEPT
                !.torn = @ \cap Dirty(staged', committed', running')]

\* The call failed, and with it the job.
GiveUp(t) ==
  /\ prog' = [prog EXCEPT ![t] = <<>>]
  /\ job' = [job EXCEPT ![t] = Idle]
  /\ read' = [read EXCEPT ![t] = None]
  /\ past' = [EndedEarly({job[t].kind}) EXCEPT
                !.torn = Dirty(staged', committed', running')]

-----------------------------------------------------------------------------
(* One call *)

Calls(t, op) == prog[t] # <<>> /\ Head(prog[t]).op = op
TheCall(t) == Head(prog[t])

Stage(new) == staged' = new /\ UNCHANGED <<committed, running>>

SetSectionCall(t) ==
  /\ Calls(t, "section")
  /\ LET c == TheCall(t) IN Stage(WithOptions(staged, c.pkg, c.sec, c.arg))
  /\ Proceed(t, Tail(prog[t]))
  /\ UNCHANGED <<daemon, results, read, bounds>>

\* Set and Delete of a section there is not is an error.
SetCall(t) ==
  /\ Calls(t, "set") /\ Has(staged, TheCall(t).pkg, TheCall(t).sec)
  /\ LET c == TheCall(t) IN Stage(WithOptions(staged, c.pkg, c.sec, c.arg))
  /\ Proceed(t, Tail(prog[t]))
  /\ UNCHANGED <<daemon, results, read, bounds>>

DeleteCall(t) ==
  /\ Calls(t, "delete") /\ Has(staged, TheCall(t).pkg, TheCall(t).sec)
  /\ LET c == TheCall(t) IN Stage(WithoutSection(staged, c.pkg, c.sec))
  /\ Proceed(t, Tail(prog[t]))
  /\ UNCHANGED <<daemon, results, read, bounds>>

NotFound(t) ==
  /\ Calls(t, "set") \/ Calls(t, "delete")
  /\ ~Has(staged, TheCall(t).pkg, TheCall(t).sec)
  /\ UNCHANGED config /\ GiveUp(t)
  /\ UNCHANGED <<daemon, results, bounds>>

EditsList(t) == Calls(t, "add_item") \/ Calls(t, "del_item")

GetList(t) ==
  /\ EditsList(t) /\ read[t] = None
  /\ read' = [read EXCEPT ![t] = Members(staged)]
  /\ UNCHANGED <<config, prog, job, past, daemon, results, bounds>>

\* setList writes the list that was read, or is not called when the value is
\* (or is not) already there.
SetList(t) ==
  /\ EditsList(t) /\ read[t] # None
  /\ LET value == {TheCall(t).arg.item}
         list == IF TheCall(t).op = "add_item"
                 THEN read[t] \cup value ELSE read[t] \ value
     IN  IF list = read[t] THEN UNCHANGED config
         ELSE Stage(WithMembers(staged, list))
  /\ read' = [read EXCEPT ![t] = None]
  /\ Proceed(t, Tail(prog[t]))
  /\ UNCHANGED <<daemon, results, bounds>>

CommitCall(t) ==
  /\ Calls(t, "commit")
  /\ committed' = [committed EXCEPT ![TheCall(t).pkg] = staged[TheCall(t).pkg]]
  /\ UNCHANGED <<staged, running>>
  /\ Proceed(t, Tail(prog[t]))
  /\ UNCHANGED <<daemon, results, read, bounds>>

ReloadCall(t) ==
  /\ Calls(t, "reload")
  /\ running' = [running EXCEPT ![TheCall(t).pkg] = committed[TheCall(t).pkg]]
  /\ UNCHANGED <<staged, committed>>
  /\ Proceed(t, Tail(prog[t]))
  /\ UNCHANGED <<daemon, results, read, bounds>>

\* The unique MAC is left out when the port's own cannot be read.
UniqueMAC(t) ==
  /\ Calls(t, "unique_mac")
  /\ \/ LET c == TheCall(t) IN Stage(WithOptions(staged, c.pkg, c.sec, c.arg))
     \/ UNCHANGED config
  /\ Proceed(t, Tail(prog[t]))
  /\ UNCHANGED <<daemon, results, read, bounds>>

\* Mutant: the access points of an earlier profile stay.
PruneNothing(t) ==
  /\ Calls(t, "prune")
  /\ UNCHANGED config
  /\ Proceed(t, Tail(prog[t]))
  /\ UNCHANGED <<daemon, results, read, bounds>>

Stale(t) ==
  (DOMAIN staged["wireless"] \cap SecondaryAPs) \ TheCall(t).arg.keep
Deletes(aps) == ForEach(1, [s \in aps |-> Delete("wireless", s)])

PruneStaleSecondaryAPs(t) ==
  /\ Calls(t, "prune")
  /\ UNCHANGED config
  /\ Proceed(t, Deletes(Stale(t)) \o Tail(prog[t]))
  /\ UNCHANGED <<daemon, results, read, bounds>>

MeshConfigured(c) == Option(c, "wireless", MeshSection, "mode", "") = "mesh"
MeshNetwork(c) == Option(c, "wireless", MeshSection, "network", Section(""))
MeshOn(c) ==
  /\ MeshConfigured(c)
  /\ Option(c, "wireless", MeshSection, "disabled", "0") # "1"

\* Whether bat0 came up: whatever is authored it may not, and that the inspector
\* fails counts as up.
BatmanUp(t) ==
  /\ Calls(t, "batman_up")
  /\ UNCHANGED config
  /\ \/ Proceed(t, Tail(prog[t]))
     \/ Proceed(t, BatmanFallback(device) \o Tail(prog[t]))
  /\ UNCHANGED <<daemon, results, read, bounds>>

\* Mutant: a standby mesh that is not up is taken for one that failed.
VerifyStandby(t) ==
  /\ Calls(t, "mesh_up")
  /\ UNCHANGED config
  /\ LET mesh == TheCall(t).arg.mesh
         Goes(verdict) == Proceed(t, verdict \o Tail(prog[t]))
     IN  \/ ~mesh /\ Goes(SetBackhaulState("multi_ap"))
         \/ mesh /\ Goes(SetBackhaulState("80211s"))
         \/ mesh /\ Goes(Degrade \o SetBackhaulState("degraded"))
  /\ UNCHANGED <<daemon, results, read, bounds>>

\* Mutant: a mesh that did not come up is only recorded.
VerifyRecordOnly(t) ==
  /\ Calls(t, "mesh_up")
  /\ UNCHANGED config
  /\ LET mesh == TheCall(t).arg.mesh
         Goes(verdict) == Proceed(t, verdict \o Tail(prog[t]))
     IN  \/ ~mesh /\ Goes(SetBackhaulState("multi_ap"))
         \/ mesh /\ Goes(SetBackhaulState("80211s"))
         \/ mesh /\ ~standby /\ Goes(SetBackhaulState("degraded"))
  /\ UNCHANGED <<daemon, results, read, bounds>>

\* A mesh that is authored disabled is not expected to be up.  That the
\* inspector fails counts as up.
VerifyBackhaul(t) ==
  /\ Calls(t, "mesh_up")
  /\ UNCHANGED config
  /\ LET mesh == TheCall(t).arg.mesh
         Goes(verdict) == Proceed(t, verdict \o Tail(prog[t]))
     IN  \/ ~mesh /\ Goes(SetBackhaulState("multi_ap"))
         \/ mesh /\ Goes(SetBackhaulState("80211s"))
         \/ mesh /\ ~standby /\ Goes(Degrade \o SetBackhaulState("degraded"))
  /\ UNCHANGED <<daemon, results, read, bounds>>

RecordBackhaul(t) ==
  /\ Calls(t, "backhaul_state")
  /\ backhaul' = TheCall(t).arg.state
  /\ UNCHANGED config
  /\ Proceed(t, Tail(prog[t]))
  /\ UNCHANGED <<daemon, uplinkActive, read, bounds>>

SetUplinkActive(t) ==
  /\ Calls(t, "uplink_active")
  /\ uplinkActive' = TheCall(t).arg.active
  /\ UNCHANGED config
  /\ Proceed(t, Tail(prog[t]))
  /\ UNCHANGED <<daemon, backhaul, read, bounds>>

\* A call fails.  An inspector's failure ends nothing, nor does that of the event
\* for dnsmasq, which then keeps what it has.
Tolerated == {"batman_up", "mesh_up", "uplink_active"}

CallFails(t) ==
  /\ prog[t] # <<>> /\ TheCall(t).op \notin Tolerated
  /\ faults < MaxFaults /\ faults' = faults + 1
  /\ \/ UNCHANGED config
     \/ TheCall(t).op \in {"section", "unique_mac"}  \* add was made, set was not
          /\ LET c == TheCall(t) IN Stage(WithOptions(staged, c.pkg, c.sec, <<>>))
  /\ IF TheCall(t).op = "reload" /\ TheCall(t).pkg = "dhcp"
     THEN /\ prog' = [prog EXCEPT ![t] = Tail(@)]
          /\ job' = IF Tail(prog[t]) = <<>> THEN [job EXCEPT ![t] = Idle] ELSE job
          /\ past' = [(IF Tail(prog[t]) = <<>> THEN Done(t) ELSE past) EXCEPT
                        !.torn = Dirty(staged, committed, running)]
          /\ UNCHANGED read
     ELSE GiveUp(t)
  /\ UNCHANGED <<daemon, results, jobs>>

CallStep(t) ==
  \/ SetSectionCall(t) \/ SetCall(t) \/ DeleteCall(t) \/ NotFound(t)
  \/ GetList(t) \/ SetList(t) \/ CommitCall(t) \/ ReloadCall(t)
  \/ UniqueMAC(t) \/ PruneStaleSecondaryAPs(t)
  \/ BatmanUp(t) \/ VerifyBackhaul(t) \/ RecordBackhaul(t)
  \/ SetUplinkActive(t)

-----------------------------------------------------------------------------
(* What starts a job *)

Begin(t, kind, arg, program) ==
  /\ prog[t] = <<>> /\ jobs < MaxJobs /\ jobs' = jobs + 1
  /\ prog' = [prog EXCEPT ![t] = program]
  /\ job' = [job EXCEPT ![t] = [kind |-> kind, arg |-> arg]]
  /\ UNCHANGED <<config, results, read, past>>

AllIsRead == UNCHANGED faults
ReadFails == faults < MaxFaults /\ faults' = faults + 1

\* The radios and the uplink that a job looks up are written by no job, so that
\* its reads of them are a part of its start.
StartProfile(t, p) ==
  /\ Resolvable(p)
  /\ \E unread \in SUBSET ReadsPassedOver(device) :
       LET applied == [mesh |-> p.mesh, ap |-> p.ap, bands |-> p.bands,
                       unread |-> unread]
       IN  /\ Begin(t, "profile", applied, ApplyProfile(applied, device, standby))
           /\ IF unread = {} THEN AllIsRead ELSE ReadFails
  /\ UNCHANGED daemon

\* The active Home may have been set just before: no device leaves its last Home
\* by itself.  An explicit uplink is not read.
StartPosture(t) ==
  /\ role' \in {role, "controller", "node"}
  /\ \E found \in {TRUE, device.explicit} :
       /\ Begin(t, "posture", [role |-> role', found |-> found],
                ApplyPosture(role', found))
       /\ IF found THEN AllIsRead ELSE ReadFails
  /\ UNCHANGED <<device, carrier, standby>>

\* The setup AP comes up while the device is unclaimed, and a station joins a
\* network before setup is complete.
StartSetup(t) ==
  /\ role = "guest" /\ UNCHANGED <<daemon, faults>>
  /\ Begin(t, "setup", None, EnableSetup) \/ Begin(t, "uplink", None, EnableUplink)

StartDisable(t) ==
  Begin(t, "disable", None, Disable(uplinkActive)) /\ UNCHANGED <<daemon, faults>>

-----------------------------------------------------------------------------
(* Failover *)

\* observeMesh reads the mode and the disabled option with two calls.  That
\* they are one step here loses nothing: only a profile application changes the
\* mode, together with the section.
ObserveMesh ==
  IF Option(staged, "wireless", MeshSection, "disabled", "") = "1"
  THEN "ethernet" ELSE "wireless"

\* Mutant: a carrier that cannot be read is taken for a lost one.
DecideUnknownDown(reading, now) ==
  IF reading = "unknown" THEN "wireless" ELSE reading

\* Ethernet wins; an unknown carrier changes nothing.
Decide(reading, now) == IF reading = "unknown" THEN now ELSE reading

SetMesh(enabled) ==
  Set("wireless", MeshSection, [disabled |-> IF enabled THEN "0" ELSE "1"])
    \o Commit("wireless") \o Reload

\* An uplink_port that is the LAN bridge itself makes the mesh a standby and is
\* refused by the failover.
FailoverRuns == standby /\ device.watched

\* One tick that changes something.  Without a mesh section setMesh does
\* nothing, and with one the loop goes by what it observes, so what it believed
\* before is not kept here.
Switch(reading) ==
  /\ FailoverRuns /\ prog["loop"] = <<>>
  /\ MeshConfigured(staged)
  /\ LET desired == Decide(reading, ObserveMesh)
     IN  /\ desired # ObserveMesh
         /\ prog' = [prog EXCEPT !["loop"] = SetMesh(desired = "wireless")]
  /\ job' = [job EXCEPT !["loop"] = [kind |-> "switch", arg |-> None]]
  /\ UNCHANGED <<config, daemon, results, read, past, bounds>>

\* The carrier is read, or cannot be.
Tick == \E reading \in {carrier, "unknown"} : Switch(reading)

\* Without a failover nobody reads the carrier until the daemon starts again.
CarrierChanges ==
  /\ FailoverRuns /\ carrier' \in Carriers \ {carrier}
  /\ UNCHANGED <<config, device, role, standby, results, prog, read, job, past,
                 bounds>>

-----------------------------------------------------------------------------
(* Restart of the daemon and reboot of the device *)

DaemonStarts ==
  /\ faults < MaxFaults /\ faults' = faults + 1
  /\ prog' = [t \in Tasks |-> <<>>] /\ read' = [t \in Tasks |-> None]
  /\ job' = [t \in Tasks |-> Idle]
  /\ uplinkActive' = FALSE
  /\ carrier' \in Carriers
  /\ \E resolved \in UplinkMayResolve(device, carrier') :
       standby' = MeshStandby(device, role, resolved)
  /\ past' = [EndedEarly({job[t].kind : t \in Tasks}) EXCEPT
                !.forgot = \E s \in UplinkSections : Has(staged', s[1], s[2]),
                !.torn = Dirty(staged', committed', running')]
  /\ UNCHANGED <<device, role, backhaul, jobs>>

Restart == UNCHANGED config /\ DaemonStarts

Reboot ==
  /\ staged' = committed /\ running' = committed /\ UNCHANGED committed
  /\ DaemonStarts

-----------------------------------------------------------------------------

Next ==
  \/ \E t \in Tasks : CallStep(t) \/ CallFails(t)
  \/ \E t \in Authors :
       \/ StartPosture(t) \/ StartSetup(t) \/ StartDisable(t)
       \/ \E p \in Profiles : StartProfile(t, p)
  \/ Tick \/ CarrierChanges \/ Restart \/ Reboot

\* A task's calls return, the failover's ticker keeps firing, and the carrier
\* can be read in the end.
Fairness ==
  (\A t \in Tasks : WF_vars(CallStep(t))) /\ WF_vars(Switch(carrier))

Spec == Init /\ [][Next]_vars /\ Fairness

-----------------------------------------------------------------------------
(* Properties *)

TypeOK ==
  /\ \A c \in {staged, committed, running} :
       /\ DOMAIN c = Packages
       /\ Members(c) \subseteq LanPorts \cup {Uplink, Iface} \cup device.wired
  /\ device \in Devices /\ role \in Roles /\ carrier \in Carriers
  /\ standby \in BOOLEAN /\ uplinkActive \in BOOLEAN
  /\ backhaul \in {None, "80211s", "multi_ap", "degraded"}
  /\ \A t \in Tasks : prog[t] = <<>> <=> job[t] = Idle
  /\ past.torn \subseteq Packages
  /\ jobs \in 0..MaxJobs /\ faults \in 0..MaxFaults

AtRest == \A t \in Tasks : prog[t] = <<>>

\* What the daemon staged reached the running system once nobody is at work,
\* however profile, setup and failover interleaved, unless the job that staged
\* it, or a reload, failed.  (uci: a commit only stages the files.)
NothingLeftStaged ==
  AtRest => Dirty(staged, committed, running) \subseteq past.torn

HardifPorts(c) ==
  {p \in device.wired : Has(c, "network", WiredHardif(p))}

\* A port is in the LAN bridge or a batman hard interface, never both (a loop)
\* and never neither (a dead jack); bat0 is bridged when there is one; and after a
\* posture that found the uplink, that is bridged exactly in the bridged postures.
\* batman, posture and fallback all edit the one list of members, by reading it
\* and writing it back.
EachPortInOnePlace ==
  AtRest /\ ~past.half /\ "network" \notin past.torn =>
    /\ Members(running) \ {Uplink} =
         (LanPorts \ HardifPorts(running))
           \cup (IF Has(running, "network", IfaceSection) THEN {Iface} ELSE {})
    /\ past.posture # None /\ past.posture.found =>
         (Uplink \in Members(running) <=> past.posture.role # "controller")

\* The bridged posture is to "fold the wired uplink jack into br-lan"
\* (netposture/apply.go:62) and the gateway's to "un-bridge the uplink" (94): the
\* uplink is where the last posture that was applied without an error says.
UplinkFollowsPosture ==
  AtRest /\ ~past.half /\ "network" \notin past.torn /\ past.posture # None =>
    (Uplink \in Members(running) <=> past.posture.role # "controller")

\* EnslavePort takes the port out of the LAN bridge, as "a device that is both a
\* br-lan member and a batadv hardif is the redundant L2 path that storms"
\* (batman/batman.go:143): once nobody is at work no port is both.
NoRedundantPath ==
  AtRest /\ ~past.half /\ "network" \notin past.torn =>
    HardifPorts(running) \cap Members(running) = {}

\* A mesh that is attached to batman has a batman to be attached to, and that
\* one is in the LAN: otherwise whoever joins the mesh reaches nothing.
MeshNotStranded ==
  AtRest /\ ~past.half /\ past.torn = {}
    /\ MeshNetwork(running) = MeshHardif =>
      /\ Has(running, "network", IfaceSection) /\ Has(running, "network", MeshHardif)
      /\ Iface \in Members(running)

\* batman's fallback is there so that a mesh whose batman did not come up is bridged
\* "directly onto lan instead" (profiles/manager.go:399): whatever cut an application
\* short, a mesh that runs is on the LAN, directly or by a batman that is there.
MeshOnLan ==
  AtRest /\ past.torn = {} /\ MeshOn(running) /\ MeshNetwork(running) = MeshHardif =>
    /\ Has(running, "network", IfaceSection) /\ Has(running, "network", MeshHardif)
    /\ Iface \in Members(running)

\* The recorded backhaul state, which /status shows, is what runs.
RecordedBackhaulHolds ==
  AtRest /\ ~past.half /\ "wireless" \notin past.torn =>
    /\ backhaul = "80211s" => Has(running, "wireless", MeshSection)
    /\ backhaul = "degraded" => ~Has(running, "wireless", MeshSection)

\* After a profile has been applied, the access points are the primary one and,
\* if the radios could be read, one for each band asked for that some other
\* radio has, whatever profiles were applied before.
APsConverge ==
  AtRest /\ past.profile # None /\ "wireless" \notin past.torn =>
    LET aps == {s \in DOMAIN running["wireless"] :
                 s = APSection \/ s \in SecondaryAPs}
        radio(s) == Option(running, "wireless", s, "device", "")
        served == {s \in aps : radio(s) \in DOMAIN BandOf}
        bands == IF "aps" \in past.profile.unread THEN {} ELSE Bands(past.profile)
    IN  /\ APSection \in aps
        /\ served = aps
        /\ {BandOf[radio(s)] : s \in aps} =
             {BandOf[radio(APSection)]} \cup {b \in bands : HasBand(b)}
        /\ \A s, o \in aps : radio(s) = radio(o) => s = o

\* "Remove any secondary AP a previous (wider) APBands left behind, so the live
\* wireless converges to exactly the requested bands" (profiles/manager.go:311):
\* an application deletes no access point for a band that its own profile asks
\* for and that the primary one does not serve.
RequestedBandsStay ==
  [][\A t \in Authors : job[t].kind = "profile" /\ job'[t] = job[t] =>
       \A b \in Bands(job[t].arg) :
         /\ HasBand(b) /\ LowestRadioForBand(b) # ResolveRadio(job[t].arg)
         /\ Has(staged, "wireless", SecondaryAP(b))
         => Has(staged', "wireless", SecondaryAP(b))]_vars

\* After setup is complete neither the setup AP nor the uplink station runs,
\* unless the daemon has forgotten the station or had failed to finish it.
SetupGone ==
  AtRest /\ past.setup = "disable" /\ past.torn = {} =>
    /\ \A s \in SetupSections : ~Has(running, s[1], s[2])
    /\ past.forgot \/ \A s \in UplinkSections : ~Has(running, s[1], s[2])

\* The station is to be torn down "on /setup/complete" (doc/companion-app.md:454):
\* after setup is complete no uplink station runs, whatever the daemon remembers.
UplinkTornDown ==
  AtRest /\ past.setup = "disable" /\ past.torn = {} =>
    \A s \in UplinkSections : ~Has(running, s[1], s[2])

\* "A controller (the mesh root) [...] keeps the mesh always-on" (main.go:164): on
\* a controller that has applied a profile whose mesh is recorded as its backhaul
\* the mesh is on.
RootMeshOn ==
  AtRest /\ role = "controller" /\ backhaul = "80211s"
    /\ past.profile # None /\ past.profile.mesh /\ "wireless" \notin past.torn =>
      MeshOn(running)

\* A mesh that is a standby is never removed for not being up: it is the backup
\* that the failover brings up.
StandbyMeshKept ==
  [][Has(committed, "wireless", MeshSection) /\ "wireless" \notin past.torn
       /\ ~Has(committed', "wireless", MeshSection) => ~standby]_vars

FailoverRules(c) ==
  /\ FailoverRuns /\ carrier = c
  /\ "wireless" \notin past.torn /\ MeshConfigured(running)

\* With a wire the mesh is down in the end (no bridge loop), and without one it
\* is up, whatever re-authored it in between.
MeshFollowsWire ==
  \A c \in {"ethernet", "wireless"} :
    <>[]FailoverRules(c) => <>[](MeshOn(running) <=> c = "wireless")

\* "It retries the actuation on failure, since the next tick will see the same
\* desired state" (backhaul/switch.go:69): the same as above, whatever became of
\* a switch, if the last profile was applied to its end.
SwitchIsRetried ==
  \A c \in {"ethernet", "wireless"} :
    <>[](/\ FailoverRuns /\ carrier = c
         /\ MeshConfigured(running) /\ past.profile # None)
      => <>[](MeshOn(running) <=> c = "wireless")

=============================================================================
