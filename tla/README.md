# A formal model of omm

omm (`meshd`) is a daemon that turns OpenWrt access points into a mesh. Every
device runs the same daemon; it controls a Home of its own and can join Homes
that other devices control. This directory holds TLA+ models of the daemon's
logic, TLC configurations that check them on small instances, and proofs that
TLAPS checks for instances of every size. The source is the reference
throughout: each definition names, in `PROJECT.json` under `map`, the lines it
stands for.

- [The system](#the-system): its components, and what is hard about them
- [The modules](#the-modules): what is modelled, and how it corresponds to the code
- [The runs](#the-runs): what each shows, its bounds and its fairness
- [Where code and documentation part](#where-code-and-documentation-part)
- [The theorems](#the-theorems): what is proved, and along which argument
- [What is left out](#what-is-left-out), and [the plan](#the-plan)

## The system

| component | source | state | operations | talks to |
| --- | --- | --- | --- | --- |
| storage | `internal/storage` | a bbolt file: homes, nodes, profiles, enrollments, an index of enrollments by node, settings (active Home, setup_complete) | one transaction per `Store` method; one writer at a time | every other component |
| enrollment service | `internal/enrollment`, `internal/api/enrollment.go` | enrollment records | Request, Verify, Adopt, Reject, Ack, Get | storage; the clients of other devices |
| enrollment client | `internal/client` | a state machine per join | Enroll, waitForApproval, JoinAndRecord, FetchProfile | the service of another device |
| home lifecycle | `meshd/cmd/meshd/main.go`, `internal/onboard`, `internal/api/{activehome,lifecycle,setup,router}.go` | homes, profiles, active Home, setup_complete | boot, selection, boot joins, unattended onboarding, profile sync, the management requests | storage, client, profiles, posture, setup AP |
| home selection | `internal/homeselect`, `internal/selection` | none | Choose, Select, Candidates | lifecycle |
| profile application | `internal/profiles` | UCI sections | ApplyProfile: write, prune, commit, reload, verify, fall back | UCI, ubus, batman |
| backhaul failover | `internal/backhaul`, `main.go` | wired or mesh | Decide, Run, setMesh | sysfs carrier, UCI |
| network posture | `internal/netposture` | UCI sections | DecideRole, Apply | UCI |
| batman wiring | `internal/batman` | UCI sections, bridge members | Apply, EnslavePort, ReleasePort, Teardown | UCI |
| setup AP | `internal/setupap` | UCI sections, `uplinkActive` | Enable, EnableUplink, Disable | UCI |
| discovery | `internal/discovery` | announcements with a time to live | Add, List, announce, listen | lifecycle, the companion app |
| topology | `internal/topology` | the reports of other nodes | collect, Ingest, Merge, reconcile | management API |
| status LED | `internal/deviceled` | last state shown | Derive, Drive | storage |
| UCI and ubus clients | `internal/uci`, `internal/ubus` | none of their own | set, delete, list edits, commit, call | the device |
| identity | `internal/identity` | device key, Home CA | sign, verify, issue | enrollment, TLS |
| companion app, LuCI plugin | `web`, `package` | the steps of a wizard | the management API | the daemon |

### How they interact, and what is hard

*The controller* serves a management and a mesh listener. `net/http` gives each
request a goroutine, and the handlers share nothing but the store: there is no
lock above a transaction. A handler of the enrollment protocol reads a record in
one transaction and writes the whole record back in another; what another
handler wrote in between is overwritten. The index of enrollments by node is
maintained by hand in five transactions. What must hold: a node is trusted only
if it proved to hold its key and if somebody (or the policy) decided to adopt
it, and a decommissioned node is gone.

*The node* runs the client's state machine, once per entry of `MESHD_JOIN`,
for ever, and once more for each `POST /enroll/join`, with a timeout. All of
them are one enrollment to the controller. Calls and answers are lost, clients
time out of calls that are served later, both sides restart, the operator
rejects or decommissions while the node waits. What must hold: joins complete,
and nobody gets credentials without an adoption.

*The lifecycle* is a handful of goroutines (the boot selection or the
unattended onboarding, a `joinHome` for each controller, the profile sync, the
setup AP) and the handlers of the management API. All of them read and write
the same four or five facts: which Homes are known, which one is active, whether
setup is complete, which profile and which posture the device runs. Each is
written in a step of its own. What must hold: a device left alone comes up, an
operator's choice stands, an interrupted onboarding does not give a claimed node
away, and the configuration follows the active Home.

*The device's configuration* (UCI) is written by four packages, which edit the
same packages of it and the same member list of the LAN bridge, each reading,
changing and writing. The failover toggles the mesh that profile application
creates. What must hold: the wired and the mesh backhaul are never bridged into
a loop, no edit is lost, a failed application leaves the device reachable.

*Topology and discovery* keep what other devices said: reports and
announcements that arrive late, twice or never.

`PROJECT.json` lists the hazards one by one, at the line where each bites, with
the properties that watch over it.

## The modules

### EnrollmentStore

The three buckets enrollment works on: `enrollments`, `byNode` (the hand-kept
index) and `inventory`. One operator per `Store` method, since a method is one
bbolt transaction. `UpdateEnrollment` writes whatever whole record it is given
and fails when the record is gone; `DeleteNode` removes the record the index
names, and only that one; `DeleteHome` and `Reset` cascade. `IndexConsistent`
and `NoOrphan` are stated here.

### Enrollment

`enrollment.Service` behind its handlers. A *worker* is a request in flight. It
holds what its handler holds between two transactions: the next step, the id and
the record as read. `RequestRead`, `RequestCreate`, `RequestUpdate`,
`VerifyRead`, `VerifyWrite`, `AdoptRead`, `ApproveCheck`, `ApproveCreate`,
`ApproveWrite`, `RejectRead`, `AckRead` and `FinalWrite` are the transactions of
the protocol's handlers. `Abort` ends a handler whose next transaction
fails, or that a restart of the daemon cuts off. `PostNode`, `DecommissionNode`, `ForgetHome`
and `FactoryReset` are single transactions of other handlers.
`NodeSigns` is the client's part. Cryptography is abstracted to its contract: a
signature is valid for the key and the challenge it was made with. A node id is
the fingerprint of a key, so a key is named by its node.

`issued`, `signed` and `admitted` are history; no action of the service
reads them, except that `signed` is what a client can send.

`OneJoinPerNode` is an assumption about the environment: a node
does not have two `POST /enroll/request` in flight at once. Properties that need
it say so; `Enrollment_orphan` runs without it, and the theorems that do not need
it are proved without it.

### Join

A node's client and the controller's answers to it, composed: the state machine
of `client.go` (`unclaimed`, `requesting`, `verifying`, `waiting`, `acking`,
`active`, `failed`) for each of several joins of one device, `rec` for the one
record the controller has of it. A handler that writes back a record it has read
(Verify, the unattended adoption after it, Adopt, Reject, Ack) takes a step for
each of its transactions: `work` holds what the handlers under way will write,
and `Write` writes the whole of it, whatever has come in between. A request
replaces the record and is one step (what two requests at once do is
Enrollment's subject). A call fails, an answer is lost, a call the
client gave up on is served later, the node restarts, the operator adopts,
rejects and decommissions. Joins in `Timed` were asked for over the API: they
time out and nobody retries. `adopted` and `alone` are history: which
enrollments were adopted and not undone since, and that no such join and no late
call interfered.

### HomeLifecycle

How a device comes to be active in a Home. `homes`, `profiles`, `active`,
`complete` are the store; `applied`, `posture` and `setupAP` are the device's
configuration; `task` gives every goroutine's next step and what it has read.
An action is one store transaction or one application of configuration:
`Select`, `SelectList`, `SelectSet`, `SelectApply` are `autoSelectHome`;
`PostureRead` and `PostureApply` are `applyPosture`; `RetireRead` and
`RetireSet` are `retireSetupAP`; `Disable` is `completeSetupLocal`; `Enrolled`,
`Record`, `StoreProfile`, `JoinApply`, `Claim` and `StartSync` are the two joins
(`joinHome`, and the `join` of `autoOnboardWired`); `OnboardTick` and
`OnboardDecide` are `onboard.Run` and `onboard.Decide`; `SyncRead`, `SyncStore`
and `SyncApply` are `syncProfileLoop`; `ReadSetupComplete` and `EnableSetupAP`
are the first-boot goroutine; the rest are the handlers. `mode` says which
branch of `main` runs; it is fixed in the initial state, since it is
configuration. `Crash` restarts the daemon between any two steps;
goroutines are forgotten, store and configuration stay.

The exchange of Join appears as one step, `Enrolled`, or fails. A configuration
application succeeds and is one step. The choice among several foreign Homes
(activity, signal) is left open. A profile is present or not. Requests come in at
any moment and overlap with everything else, each other included; `asked` is
history: that one came in since the daemon started. `SyncRead` finds the profile
it stored, and goes on waiting, or another.

### Admission

What Enrollment promises, without records, requests and handlers: four sets of
nodes (`proven`, `decided`, `known`, `trusted`) and steps that are each about
one node, or revoke everything. `Enrollment!ImplementsAdmission` is its
specification under the mapping `proven <- ProvenNodes` (nodes that have signed
a challenge), `decided <- admitted`,
`known <- inventory`, `trusted <- TrustedNodes` (a record that is approved or
active). A handler of three transactions is one step of Admission and otherwise
stutters; what the refinement rules out is a transaction that does two of these
things at once, one of them for the wrong node, or one out of order.

### HomeSelect

`homeselect` and `selection` as operators, with no state: `Less` is the order of
candidates (another device's Home, then the last active, then the strongest),
`Selected` the first of the stable sort, `Chosen` honours an explicit choice,
`Recommend` is all of it on the stored Homes. Its theorems
connect it to HomeLifecycle, which leaves the choice among several foreign Homes
open (`Best`).

### UciCalls, Batman, ProfileApply, NetPosture, SetupAP

Four packages author the device's configuration, each by a sequence of calls of
the UCI client, and every call is a ubus call of its own. Such a sequence is a
*program*: `UciCalls` has one constructor for each call of `uci.Client` and says
what a call makes of a configuration; the other modules translate the packages
into programs (`BatmanApply`, `EnslavePort`, `ReleasePort`, `Teardown`;
`ApplyProfile`, `BatmanFallback`, `Degrade`; `ApplyController`,
`ApplyBridgedDumbAP`; `EnableSetup`, `EnableUplink`, `Disable`). A section is a
function from options to values and keeps the options that some later decision
or property reads; SSIDs, keys and addresses are left out. A list edit is two
calls, a read and a write back of the list that was read.

### DeviceConfig

The programs executed, one call at a step, by the tasks that author
(`Authors`) and by the failover loop, on a configuration in three copies:
`staged` (what the calls edit), `committed` (what a reboot finds), `running`
(what the last reload of the package read). `CallStep` has one action per kind
of call. `PruneStaleSecondaryAPs`, `BatmanUp` and `VerifyBackhaul` read first and
then put the calls they decide on in front of the rest of the program. `NotFound`
ends a job whose call names a section that is not there, `CallFails` one whose
call fails (rpcd's `add` may have happened without its `set`).

Three reads fail without ending the job, since the code goes on without what it
asked for: `resolveMeshRadio` takes the radio of the access point,
`resolveAPTargets` the primary access point alone, and `uplinkPort` a board
without an uplink. What they read is written by no job, so each is decided when
the job starts: `StartProfile` chooses `unread`, the reads of
`ReadsPassedOver` that fail, and `StartPosture` whether the uplink was `found`.

`Switch` is a tick of `startBackhaulFailover` that changes something: `Decide`,
then `setMesh` as a program; the loop runs on a standby device, unless the
uplink it was told to watch is the LAN bridge (`FailoverRuns`). `Restart` forgets
programs, the recorded station and `standby`, which is decided again; `Reboot`
also loses what was not committed.

`past` is history, read by properties only: which profile, posture and setup job
completed last, and what they could not read; `torn`, the packages a failed or
interrupted job left uneven; `half`, that a profile application ended early;
`forgot`, that the daemon lost its memory of an uplink station.

### Topology, MeshView

`Topology` has the operators of `internal/topology`: `Collect` (a node's own
graph), `Canon` (`reconcile`: an address that a merged graph declares becomes its
node), `MergedNodes`, `MergedLinks`, `MergedClients`. `MeshView` puts them in
time: `Send`, `Ingest` and `Lose` are a report of `reportTopologyLoop` and
`POST /topology/report`, `SendPartly` one with an address missing; `Tick` ends a
reporting interval and lets reports and records age; devices go off, lose their
daemon, are reset (and come back with another identity), are decommissioned;
stations roam; the controller restarts and its reports, kept in memory, are gone.
`reports` is one store for each API handler (`Handlers`), since `WithTopology`
makes an aggregator for each: in combined mode one handler takes the reports and
serves the view, in split mode (`Combined = FALSE`) the mesh handler takes them
(`Ingesting`) and the management handler merges its own (`Serving`).
The view itself (`Alive`, `Links`, `Clients`, `Stale`, `Down`) is a function of the
state, so that a property of it is about every moment at which it may be asked
for.

### The proof modules

`EnrollmentProofs` (of Enrollment, and that it implements Admission),
`JoinProofs`, `HomeLifecycleProofs`, `MeshViewProofs`, `HomeSelectProofs`,
`DeviceConfigProofs`, `ProgramProofs` (what the authoring packages' programs
do, for any ports, radios and bands) and `OrderProofs` (a general fact: a finite
set has a minimal element in a strict order); see [below](#the-theorems).

## The runs

Each run is a `.cfg` named after its module. `MCEnrollment`, `MCDeviceConfig` and
`MCMeshView` give the constants that a `.cfg` cannot write (and Enrollment's
symmetry). Runs that are expected to find a violation are listed in the next
section.

| run | question | bounds |
| --- | --- | --- |
| `Enrollment_service` | Do transactions of two handlers, of any kind, and crashes leave the index right, records reachable, possession proved, trust decided and in the inventory, decommissioning complete? Policy `onlink`, which adopts some peers unattended and leaves others to the operator | 2 nodes, 3 ids, 3 challenges, 2 requests in flight |
| `Join_two` | Two joins that share a record, handlers that overlap, either adoption policy: is a certificate handed out only for an enrollment whose adoption stands or is undone under the ack that hands it out, does nobody wait for what cannot happen, and does a boot join that nothing shares the record with complete? | 2 joins (one over the API), 5 ids, 5 challenges, 1 late call, 3 disruptions |
| `HomeLifecycle_alone` | A device nobody asks anything: does it come up, settle in a Home it joined, take the posture of its Home, never look like a guest again; can an interrupted onboarding give a claimed or active node away? | 2 controllers, with a join list or discovered; 3 restarts, 2 unanswered calls |
| `HomeLifecycle_requests` | With a request of any kind at any moment and a restart anywhere: does a restart bring the right posture back, does a choice stand once no selection is under way that missed it, does a setup AP that is down stay down? | 2 Homes, 1 request in flight at a time (any number in a row), 1 restart |
| `DeviceConfig_authors` | Does what is authored reach the running system, is every jack in one place and the uplink where the posture says, is no mesh attached to a batman that is gone, is a standby mesh kept and does it follow the wire, do access points and setup sections converge, whatever was applied before? | 2 radios, 2 LAN jacks and an uplink, 3 device configurations (the uplink looked up; a jack on batman and an explicit mesh radio; an uplink that the failover refuses to watch), 2 profiles, 2 jobs one after the other beside the failover, 1 fault (a failed call or read, restart or reboot) |
| `MeshView_reports` | Does the view never show a device twice or a link to nowhere, does every member that gets through stay in it, does time alone move no station, and does the view come to show the mesh as it is? | a controller and 2 members with 3 addresses, 1 station, 2 spare identities, reports fresh for 2 intervals, 3 changes or faults |

*Why the bounds are enough to be interesting.* Two requests in flight are the
smallest number that interleave, and each handler writes only what it read
itself, so that a pair shows every lost update. Three ids allow a record to be
removed, created again and duplicated; challenges allow one record to be
requested again while an older challenge is still signed. The theorems remove
these bounds for the safety properties they state. In Join, a second join is
what breaks exclusiveness, and three disruptions allow a loss on three calls of
an attempt, or a restart, a rejection and a decommissioning of one attempt. In
HomeLifecycle two controllers are what makes joins land in different orders, and
three restarts interrupt an attempt, its repetition and the one after; one
request in flight overlaps with every goroutine, and the theorems hold for any number. In
DeviceConfig two jobs are what one author can leave behind for the next, the
failover is the second task that writes meanwhile, and one fault is enough for
every place at which a program can end and every read that can be passed over. The two profiles differ in everything
the authoring tells apart: a mesh or none, the default radio or a band, the
default bands or bands of which the board lacks one. In MeshView a freshness
window of two intervals and a stale window of three separate fresh, kept,
stale and down; three changes allow a device to be switched off, reset and
heard of again, or two reports to be lost in a row.

*Symmetry* is used in Enrollment (nodes, ids, challenges and workers are
interchangeable: the module compares them for equality only), in safety runs
only.

*Deadlock.* Enrollment and MeshView never stop. A device that has joined, come
up or been configured and that nobody disturbs has nothing to do, so the Join,
HomeLifecycle and DeviceConfig runs set `CHECK_DEADLOCK FALSE`.

*Fairness.* Enrollment states none and checks no liveness. In Join,
`joinHome` retries for ever, every call ends (it is answered, or the HTTP
client's timeout ends it, and failures are bounded), joins over the API end with
`joinTimeout`; the operator adopts a node that keeps asking. Nobody has
to start a join over the API, and a call the client gave up on need never be
served. In HomeLifecycle each goroutine that was started goes on, and a
controller asked for adoption answers, in the end, with a result; nobody has to
send a request and no restart has to happen. The onboarding loop may stay in
its wait between rounds only until it can act: discovery and the grace
window are events that happen to it, and one or the other does. In DeviceConfig
a call that was made returns, and the failover's ticker keeps firing and reads
the carrier in the end (it may find it unreadable any number of times before);
nobody has to apply anything. In MeshView a running member's ticker fires in
every interval, its request is answered or ends with its timeout, and time
passes.

## Where code and documentation part

A run of this list checks one statement of a comment or a document that the
code's steps do not keep. Each is a finding in `PROJECT.json`.

| run | statement | what happens |
| --- | --- | --- |
| `Enrollment_orphan` | `deleteNode` removes a node "and its enrollment record" (`lifecycle.go:40`) | two overlapping requests create two records; the index knows one |
| `Join_stuck` | `joinHome` retries "until it succeeds" (`main.go:818`) | an API join takes the shared record back to `pending_verification` and times out; the boot join polls it for ever |
| `Join_rejected` | Reject is there "so the node is not adopted" (`enrollment.go:249`) | an adoption or ack in flight writes back the record it read before the rejection |
| `HomeLifecycle_interrupted` | an unattended device comes up as a working controller | a restart after the active Home is stored, before setup is marked complete and the profile applied: every later boot takes both for done |
| `DeviceConfig_failover` | the failover "retries the actuation on failure" (`backhaul/switch.go:69`) | `setMesh` sets the option before it commits and reloads; when one of these fails, the next tick observes the option that was set and takes the switch for done |
| `MeshView_split` | a node that reports is alive in the view (`doc/topology.md:126`) | in split mode the aggregator that takes the reports is not the one that `GET /topology` merges |

More claims are stated as properties of the modules and have no run of their own.
TLC finds each violated with the `.cfg` and the constants named, in place of the
properties that are there (no fault, restart or disruption where none is named):

| property | statement | what happens | found with |
| --- | --- | --- | --- |
| `DoneIsActive` | the ack answers `active` (`doc/enrollment.md:82`) | the client goes to Active whatever it answers (`client.go:299`): a node rejected between approval and ack is Active without a profile or certificate | `Join_rejected.cfg` |
| `JoinKeepsConfiguration` | joining "does not switch the active Home" (`doc/enrollment.md:19`) | every join applies its profile (`main.go:838`) | `HomeLifecycle_alone.cfg` |
| `MembersSync` | a change of the Home's wireless "propagates to joined nodes" (`main.go:696`) | after a restart a node that onboarded unattended does not run the sync loop | `HomeLifecycle_alone.cfg` |
| `ChoiceRespected` | an active Home that is set "is respected" (`main.go:538`) | `autoSelectHome` overwrites one that a request set after it read that there was none | `HomeLifecycle_requests.cfg` |
| `ActiveIsSpared` | "we never leave a dangling active-home pointer" (`lifecycle.go:13`) | a switch between the check and the transaction of `deleteHome` | the same with `Requests = {r1, r2}` |
| `SetupAPRetired` | the setup AP "comes down exactly once, however setup finishes" (`main.go:258`) | setup completes while the goroutine that has found it incomplete brings the AP up; a restart before the teardown does it as well | `HomeLifecycle_requests.cfg` |
| `PostureFollows` | the home decides the role, "the posture follows" (`doc/network-posture.md:21`) | `PUT /active-home` applies the profile and no posture, until the next restart | `HomeLifecycle_requests.cfg` |
| `NeverReverts` | an established device "never reverts to Guest" (`doc/network-posture.md:98`) | a posture that was read before the active Home was set is applied after it | `HomeLifecycle_requests.cfg` |
| `UplinkFollowsPosture` | a posture bridges, or un-bridges, the uplink (`apply.go:62`, `:94`) | a failed read of `network.wan.device` (`apply.go:149`) skips the edit, and the posture succeeds | `DeviceConfig_failover.cfg` with `Devices <- LookingDevice` |
| `RequestedBandsStay` | the prune leaves "exactly the requested bands" (`manager.go:310`) | a failed read of the radios (`manager.go:551`) leaves the primary access point as the only one asked for; the prune deletes the others, the application succeeds | `DeviceConfig_failover.cfg` with `MaxJobs = 2` |
| `NoRedundantPath` | `EnslavePort` takes the port out of the bridge, since one in both "storms" (`batman.go:143`) | a posture that runs beside a profile writes back the member list it read before; nothing in the daemon keeps two goroutines from it | `DeviceConfig_failover.cfg` with `Authors = {main, joiner}`, `Devices <- WiredDevice`, `MaxJobs = 2`, `MaxFaults = 0` |
| `NoRedundantPath` | the same | with the uplink in `MESHD_BATMAN_PORTS` the posture after a profile bridges it again (`apply.go:72`), with no fault and no overlap | `DeviceConfig_failover.cfg` with `Devices <- WiredUplink`, `MaxJobs = 2`, `MaxFaults = 0` |
| `RootMeshOn` | a controller "keeps the mesh always-on" (`main.go:164`) | whether the mesh is a standby is decided once (`main.go:166`): a device that becomes a controller after its boot authors its mesh disabled | `DeviceConfig_failover.cfg` with `MaxJobs = 2`, `MaxFaults = 0` |
| `UplinkTornDown` | the uplink station is torn down "on `/setup/complete`" (`doc/companion-app.md:454`) | that there is one is in memory only (`setupap.go:190`): after a restart, or a reload that failed, it stays | `DeviceConfig_failover.cfg` with `MaxJobs = 2` |
| `MeshOnLan` | when bat0 does not come up the mesh is bridged "directly onto lan instead" (`manager.go:399`) | a reboot between the fallback's two commits leaves the mesh on a batman that is gone | `DeviceConfig_failover.cfg` with `Devices <- WiredDevice` |

What the passing runs show is what remains true of these claims, and the
properties say under which condition:

| property | condition | what breaks it without |
| --- | --- | --- |
| `CredentialsNeedAdoption` | an adoption that is undone while an ack that has read it is to be written counts until then | the rejection under the ack of `Join_rejected` |
| `SettledChoiceStands` | no selection is under way that missed the active Home | what breaks `ChoiceRespected` |
| `SetupAPStaysDown` | the AP is down, and no goroutine is about to bring it up | what breaks `SetupAPRetired` |
| `PostureRestored` | the device has restarted since the last request, and has no join list | what breaks `PostureFollows` and `NeverReverts` |
| `PostureFollows`, `NeverGuestAgain` | no requests | the same |
| `JoinSettles`, `PostureFollows` | `failures = 0` (with a join list) | a controller that does not answer `GET /homes/{id}` is not recorded (`client.go:127` drops the error): the device selects its own Home, or two joins select differently and the posture of the loser is applied last |
| `ComesUpUninterrupted` | no restart | `HomeLifecycle_interrupted` |
| `EachPortInOnePlace` | one author; for the uplink, that the last posture found it, and that batman does not have it | what breaks `NoRedundantPath` and `UplinkFollowsPosture` |
| `EachPortInOnePlace`, `MeshNotStranded`, `RecordedBackhaulHolds` | the last profile application did not end half-way (`past.half`) | what breaks `MeshOnLan` |
| `APsConverge` | the bands asked for count if the last application could read the radios | what breaks `RequestedBandsStay` |
| `SetupGone` | the daemon has not forgotten the station (`past.forgot`) | what breaks `UplinkTornDown` |
| `AliveWhileHeard`, `ViewConverges` | combined mode | `MeshView_split` |

Some more, met while modelling and not runs of their own:

- *Controller after guest.* `doc/network-posture.md:28` calls a controller's `lan`
  a "static gateway"; the guest posture, through which a future gateway passes,
  sets `network.lan.proto` to `dhcp` and the controller posture does not set it
  back (`apply.go:77`, `:97`; the comment there wants to keep an operator's
  address).
- *Standby and batman.* `verifyBackhaul` takes a standby mesh for healthy,
  `batmanFallback` does not ask: with the mesh as its only link, batman is
  torn down whenever a profile is applied with the wire in.
- *A failed application.* `doc/network-posture.md` says a failed apply leaves the
  previous posture in place; calls that were made stay staged, and the next
  commit of anybody takes them along.
- *Release.* `ReleasePort` deletes a `dev_` section that `EnslavePort` leaves out
  when the port's MAC cannot be read; the deletion fails and ends the fallback.
- *A profile without a mesh* leaves the mesh of an earlier one running, and the
  recorded state says `multi_ap`.
- *Setup.* A `Disable` that failed half-way can never be completed, since it
  starts by deleting what is no longer there.
- *Topology.* A device whose daemon is silent and whose radio is heard shows twice:
  as an address that is alive and as a stale node. A device that was reset keeps
  its old id in the links until its old report is no longer fresh. After a
  restart of the controller a node that has not reported is judged by its
  inventory record, so that "never reported" (`doc/topology.md:131`) can show
  stale for five minutes.

## The theorems

`EnrollmentProofs` proves, for any sets of nodes, ids, challenges and workers
and for each adoption policy, from `NoneAssumption` (the null value is not a
value) and `PolicyAssumption`:

| theorem | property | inductive invariant |
| --- | --- | --- |
| `TypeCorrect` | `TypeOK` | itself; one lemma on the store's transactions, one on requests in flight |
| `IndexCorrect` | `IndexConsistent` | with: a record's id, and the id a request holds, was drawn before; so a new id meets no record |
| `PossessionProven` | `ChallengeSigned` | every record past verification, in the store *or in the memory of a request*, has its own challenge signed by its key. The memory matters: a write-back can put there any record that was read at any time before |
| `NoOrphans` | `NoOrphan` | *if* `OneJoinPerNode`: an id belongs to one node for ever, and a request that is about to create a record for a node found none and none can have appeared, since creating is what only another such request does |
| `DecommissionCompletes` | `DecommissionIsComplete` | from `NoOrphan` and the index |
| `TrustFollowsDecision` | `TrustIsCurrent` | also of requests in flight: a request that holds a decided record either serves a node that is admitted, or its write must fail, because the record it would update is gone and ids do not come back |
| `TrustedAreInInventory` | `TrustedInInventory` | the same argument about the inventory record |

The last four assume `OneJoinPerNode`; `Enrollment_orphan` shows that the
assumption is needed.

and, under `OneJoinPerNode` too, the refinement:

| theorem | property | argument |
| --- | --- | --- |
| `Implementation` | `ImplementsAdmission` | from `AdmissionInv`, which is the invariant of `TrustFollowsDecision` with `AllProven` (whoever is admitted or trusted has proved itself, requests in flight included). The lemmas say what each kind of write does to the four sets: a write-back changes the trust of its own node only (`OneRecord`, `WritesOwn`), and makes it trusted only if it was decided on and is in the inventory (`WriteTrusts`). Then one step per handler and transaction: it is one step of Admission, or stutters |

`JoinProofs` proves, for any joins, ids, challenges, late calls and disruptions,
from `JoinAssumption` and `NoneAssumption`:

| theorem | property | inductive invariant |
| --- | --- | --- |
| `TypeCorrect` | `TypeOK` | `JoinInv`: with `TrustIsAdopted` (a trusted record is one whose adoption stands), `AcksAreAdopted` (so is one that an ack under way has read), and that a handler under way for a join is the one it waits for, about its own enrollment (`WorkIsAttempted`, `WorkIsAwaited`) |
| `CredentialsAreForAdopted` | `CredentialsNeedAdoption` | the same: an ack answers a trusted status for a record that it found or made trusted. What is between its read and its write is `AcksAreAdopted`'s to say: a request or a rejection that commits there undoes the adoption for nobody, since the ack overwrites it (`Undone`, `Join_rejected`) |
| `WaitsEnd` | `WaitCanEnd` | *if* the device has one boot join: as long as it is undisturbed (`Undisturbed`: no late call, no handler answers nobody, no join over the API has begun), only that join takes the record back to `pending_verification`, and then it is not waiting |

`HomeLifecycleProofs` proves, for any sets of Homes and controllers, any number
of restarts and failures and each mode, from `HomeAssumption` and
`TaskAssumption` (the ids of the goroutines, requests and Homes are distinct):

| theorem | property | inductive invariant |
| --- | --- | --- |
| `TypeCorrect` | `TypeOK` | with `HomeNamed`: a task that is about to write a Home is about one, and no such step follows directly on a posture. For any requests |
| `UndecidedOnboard` | `OnlyUndecidedOnboard` | `AloneInv`, for a device nobody asks anything |
| `PostureIsThatOfTheRole` | `PostureFollows` | the same |
| `EstablishedIsNoGuest` | `NeverGuestAgain` | the same |

`AloneInv` says where the goroutines of each mode can be (`Places`), that the
joins do not start before main has ended (`JoinersWait`), and what each task
knows at the step it is at: the onboard loop, that the node is undecided
(`Undecided`); a task that applies a posture, that the one it has read is that
of an active Home if there is one, since only main ever reads that there is none
and nobody else can set one meanwhile (`SeenActive`); a join, that its Home is
recorded, so it never chooses the device's own (`ChoosesOthers`, as long as no
record goes unanswered). `Followed` then says that the posture is right, or that
some task is still about to apply one. None of the three properties is inductive
without these: they are about what a task has read, not about the store. The
last three theorems assume `Requests = {}`: a `PUT /active-home` between two steps
of a goroutine breaks each of the three.

It also proves, for any Homes, joins and restarts, and any number of requests
at any moment:

| theorem | property | argument |
| --- | --- | --- |
| `RestartRestoresPosture` | `PostureRestored` | `Unasked`: until a request comes in after a start, the device is like one that nobody asks anything, whatever it finds in its store: the posture is right, or a task is still about to apply one |
| `ChoiceStandsOnceSettled` | `SettledChoiceStands` | step by step: no task reads that there is no active Home while there is one, and only one that has read so goes on to write |
| `RetiredStaysRetired` | `SetupAPStaysDown` | step by step: only the goroutine of the first boot brings the AP up, and only after it read that setup is not complete |

The three are what is left of claims that overlapping requests break (see
[above](#where-code-and-documentation-part)): they assume nothing of what
overlaps.

`MeshViewProofs` proves, for any devices, addresses and qualities and any
windows with `TTL <= StaleTTL`, from `DeviceAssumption` (no two devices share an
address, and an address is no id), `WindowAssumption`, `BoundAssumption` and
`NoneAssumption`:

| theorem | property | argument |
| --- | --- | --- |
| `TypeCorrect` | `TypeOK` | itself |
| `AlwaysGraph` | `LinksJoinVertices` | of the operators alone (`MergedIsGraph`), for any graphs in any order without ties |
| `NeverPhantom` | `NoPhantoms` | of the operators alone (`MergedHasNoPhantom`) |
| `ShownWhileHeard` | `AliveWhileHeard` | *if* `Combined`, with `Filed` (a report is filed under the identity that made it, and no report is of the controller) and `HeardInTime`: a member's last report is no older than the attempts it has missed since, plus the one it has yet to make in this interval |
| `StationsStay` | `TimeMovesNoStation` | from the same: a tick lets reports go stale and changes no order among those that stay |

That the merge has a first graph at all, whatever the order, is
`OrderProofs!MinimalElement`.

`HomeSelectProofs` proves, for any candidates: `LessIsWeakOrder` (what the code
sorts by is an order), `SelectedIsBest`, and `RecommendedIsAllowed`, by which the
choice that HomeLifecycle leaves open contains the one the code makes.

`DeviceConfigProofs` proves, for any ports, radios, bands, device
configurations and profiles and any number of jobs and faults, from
`DeviceAssumption`, `RadioAssumption`, `ProfileAssumption`, `PortAssumption`
(`bat0` is the device that batman makes, no port of the board) and
`NoneAssumption`:

| theorem | property | inductive invariant |
| --- | --- | --- |
| `TypeCorrect` | `TypeOK` | `TypeInv`: with the shape of configurations and of every call that is still to be made |
| `NothingStaysStaged` | `NothingLeftStaged` | `LeftInv`: what is staged and not committed, or committed and not read, and is not `torn`, is what some program has yet to commit or to reload; every program commits a package after the last edit of it, and reloads it after the last commit (`Closed`). For any number of authors at once |
| `StandbyMeshIsKept` | `StandbyMeshKept` | `StandbyInv`: a mesh that is committed is staged, and no program that removes it is under way while the device is a standby. For any number of authors at once |
| `SetupIsGone` | `SetupGone` | `SoleInv`, `AuthorInv`, `SetupInv`, `UplinkInv`, *if* there is one author. What the program of a job leaves undone decides what will be there (`WillHold`) |
| `RecordIsTrue` | `RecordedBackhaulHolds` | `WorkInv` and in it `BackhaulInv`, *if* there is one author: the mesh that is recorded, or found missing, is the one that the rest of the job's program leaves |
| `NoMeshIsStranded` | `MeshNotStranded` | `WorkInv` and `StrandInv`, *if* there is one author: whenever no program has such an edit left, a mesh on batman's hard interface has that interface, bat0, and bat0 among the members (`Links`) |
| `PortsAreInOnePlace` | `EachPortInOnePlace` | `WorkInv`, `PortInv`, `JackInv`, `PostureInv`, *if* there is one author and batman is wired over LAN jacks and never over the uplink (`JacksApart`): where each port will be once the job is done, for bat0, for a LAN jack, and, if the posture `found` it, for the uplink |
| `AccessPointsConverge` | `APsConverge` | `WorkInv` and `APInv`, *if* there is one author and every radio, the configured one included, has a band (`RadiosKnown`): what the rest of an application leaves of each access point that it wants or does not want, and that no other job has to do with them. What it wants is decided by what it could read: the lemmas are about `Applied`, every profile with every set of reads that fail. The prune decides what to delete when it looks (`APsAdvance`), and which radios the access points get is a choice of a minimum for every band (`TargetRadios`) |

`ProgramProofs` is what these rest on. A program is a sequence that the
model's operators concatenate and flatten, for as many ports and bands as there
are; induction over it is out of the prover's reach, so a program is described
by what its calls do to a *fact* about a configuration (a section exists, an
option has a value, a port is bridged, a package is not committed or not read):
`Effect` of one call, `Net` of a program (its last call that has one), `Final`
(what holds afterwards), and `Avoids` and `Footprint` (what no call of it
touches). Each is known of a concatenation from its parts and of `ForEach` from
its bodies, by the position of a call in the sequence, and so of every program
of the four packages. The last five need one author: two that run at once may
each undo what the other completed, which no hypothesis short of that excludes.
They say what remains true of claims that the code does not keep in general
(see [above](#where-code-and-documentation-part)):
`PortsAreInOnePlace` needs `JacksApart` because a posture puts an uplink that
batman has taken back into the bridge, and speaks of the uplink only if the last
posture could read which it is. `AccessPointsConverge` needs
`RadiosKnown` for the configured default radio alone: the code authors the access
point on it whether or not the board has a radio of that name.

Only model-checked: every liveness property, because the prover does not
handle liveness under fairness.

## What is left out

- Cryptography, certificates and TLS: a signature, a fingerprint and a
  certificate are taken at their contract.
- I/O: HTTP, sockets, bbolt's file, sysfs, ubus; parsers of their output.
- Storage errors, other than a transaction that does not happen (`Abort`).
- The contents of a profile that nothing decides on (SSIDs, keys, channels,
  countries), and the effect of a reload on the radio.
- Two author tasks in DeviceConfig at once: three of its theorems hold of any
  number, the rest of its properties, and its runs, are of one author.
- What hostapd lists: a station that has left may be listed for a while.
- *Discovery cache*: sequential, a map with a time to live under one lock, with
  unit tests on both sides of its boundary. Its results are an input of
  HomeLifecycle.
- *Status LED*: a function of two settings, polled, and written when it changes.
- *Companion app*: its wizard makes the daemon's calls one at a time; what those
  can do, lost answers included, is in Join and HomeLifecycle. The rest of it is
  presentation.
- *Management API without state, configuration, LuCI, packaging, the init
  script*: reads, parsing and formatting.

## The plan

What remains, the behaviour that matters most first.

1. HomeLifecycle calls a profile application and a posture one step that
   succeeds. DeviceConfig has their calls, and their failures. A composition
   would show what an application that fails does to a join.
2. The member list as an abstract specification (a port is in one place) that one
   author at a time implements.
3. A join that happens once, as an abstract specification of Join.
4. Proofs: what more holds of DeviceConfig with two authors, of which only
   `TypeCorrect`, `NothingStaysStaged` and `StandbyMeshIsKept` are proved.
