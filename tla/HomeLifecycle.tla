--------------------------- MODULE HomeLifecycle ---------------------------
(***************************************************************************)
(* How a device comes to be active in a Home: the daemon's goroutines      *)
(* (meshd/cmd/meshd/main.go, internal/onboard/wired.go) and the handlers   *)
(* of the management API (internal/api/activehome.go, lifecycle.go,        *)
(* setup.go, router.go), which share the buckets "homes", "profiles" and   *)
(* "settings" of the store and the device's UCI configuration, and have no *)
(* lock in common.                                                         *)
(*                                                                         *)
(* A task is a goroutine: the main goroutine, one joinHome for each        *)
(* controller in the join list, the profile sync loop, the first-boot      *)
(* setup-AP goroutine, and the management requests in flight.  An action   *)
(* is one store transaction, or one application of configuration, of one   *)
(* task.                                                                   *)
(*                                                                         *)
(* Abstracted: a profile is present or not; of the UCI configuration there *)
(* is the Home whose profile was applied last, the network posture, and    *)
(* whether the setup AP is up; applying either succeeds, in one step.      *)
(***************************************************************************)
EXTENDS Naturals

CONSTANTS
  Self,           \* the Home this device controls
  Others,         \* Homes controlled by other devices
  Joining,        \* those it joins: the join list, or the controllers it discovers
  Requests,       \* management requests in flight at a time (a bound)
  Modes,          \* ways the device can be configured
  MaxCrashes,     \* restarts of the daemon (a bound)
  MaxFailures,    \* failed calls to another controller (a bound)
  None

Homes == {Self} \cup Others

ASSUME HomeAssumption ==
  /\ Self \notin Others /\ None \notin Homes
  /\ Joining \subseteq Others
  /\ Modes \subseteq {"select", "join", "onboard"}
  /\ MaxCrashes \in Nat /\ MaxFailures \in Nat

\* Task ids; the joinHome for a Home is named by the Home.
CONSTANTS Main, Sync, APTask

ASSUME TaskAssumption ==
  /\ Main # Sync /\ Main # APTask /\ Sync # APTask
  /\ {Main, Sync, APTask} \cap (Joining \cup Requests) = {}
  /\ Joining \cap Requests = {}

Tasks == {Main, Sync, APTask} \cup Joining \cup Requests

VARIABLES
  homes,          \* bucket homes
  profiles,       \* bucket profiles: Homes that have one
  active,         \* setting active_home, or None
  complete,       \* setting setup_complete
  applied,        \* the Home whose profile the UCI configuration holds
  posture,        \* network posture the UCI configuration holds
  setupAP,        \* the setup AP is up
  task,           \* task -> what it does next
  mode,           \* "join": MESHD_JOIN is set; "onboard": wired auto-onboard is on;
                  \* "select": neither
  fellBack,       \* the onboard loop has fallen back (local to Run)
  crashes, failures,
  asked           \* history: a management request came in since the daemon started

store == <<homes, profiles, active, complete>>
device == <<applied, posture, setupAP>>
rest == <<mode, fellBack, crashes, failures, asked>>
vars == <<store, device, task, rest>>

\* Mutant: no role while there is no active Home.
DecideRoleUnset(activeHome) ==
  CASE activeHome = None -> ""
    [] activeHome = Self -> "controller"
    [] OTHER -> "mesh_node"

\* netposture.DecideRole
DecideRole(activeHome) ==
  CASE activeHome = None -> "guest"
    [] activeHome = Self -> "controller"
    [] OTHER -> "mesh_node"

Steps == {"done", "boot", "start", "posture_read", "posture_apply", "select",
          "select_list", "select_set", "select_apply", "retire_read", "retire_set",
          "disable", "onboard", "onboard_decide", "enroll", "record",
          "store_profile", "join_apply", "claim", "start_sync", "sync", "sync_store",
          "sync_apply", "ap_read", "ap_enable", "set_write", "set_apply",
          "delete_write", "post_apply"}

\* A task's next step, the Home it is about, the active Home it has read for
\* the posture, what follows the posture, and whether this is the fallback.
Work == [step : Steps, home : Homes \cup {None}, seen : Homes \cup {None},
         then : Steps, fallback : BOOLEAN]

Idle == [step |-> "done", home |-> None, seen |-> None, then |-> "done",
         fallback |-> FALSE]

At(t, step) == task[t].step = step
Goes(t, step) == task' = [task EXCEPT ![t].step = step]
GoesFor(t, step, h) == task' = [task EXCEPT ![t].step = step, ![t].home = h]
\* Applies the posture and goes on with step.
Postures(t, step) ==
  task' = [task EXCEPT ![t].step = "posture_read", ![t].then = step]
Ends(t) == task' = [task EXCEPT ![t] = Idle]

\* The daemon serves the API once its own Home is seeded.
Serving == ~At(Main, "boot")

-----------------------------------------------------------------------------
(* applyPosture: reads the active Home, then authors the posture *)

\* Mutant: a device boots as a guest, and its role follows later.
PostureReadGuest(t) ==
  /\ At(t, "posture_read")
  /\ task' = [task EXCEPT ![t].step = "posture_apply",
                          ![t].seen = IF task[t].then = "start" THEN None ELSE active]
  /\ UNCHANGED <<store, device, rest>>

PostureRead(t) ==
  /\ At(t, "posture_read")
  /\ task' = [task EXCEPT ![t].step = "posture_apply", ![t].seen = active]
  /\ UNCHANGED <<store, device, rest>>

\* Mutant: after a join the posture is left to the next boot.
PostureApplyBoot(t) ==
  /\ At(t, "posture_apply")
  /\ posture' = IF task[t].then = "start" THEN DecideRole(task[t].seen) ELSE posture
  /\ IF task[t].then = "done" THEN Ends(t) ELSE Goes(t, task[t].then)
  /\ UNCHANGED <<store, applied, setupAP, rest>>

PostureApply(t) ==
  /\ At(t, "posture_apply")
  /\ posture' = DecideRole(task[t].seen)
  /\ IF task[t].then = "done" THEN Ends(t) ELSE Goes(t, task[t].then)
  /\ UNCHANGED <<store, applied, setupAP, rest>>

-----------------------------------------------------------------------------
(* autoSelectHome, followed by applyPosture (autoSelect, and                *)
(* becomeOwnController when it is the fallback of the onboard loop)         *)

\* Mutant: the device's own Home comes first.
BestOwn(known) == IF Self \in known THEN {Self} ELSE known

\* homeselect: any other Home comes before the device's own.  Which of several
\* others (by last activity and signal) is left open.
Best(known) == IF known \ {Self} # {} THEN known \ {Self} ELSE known

AfterSelect(t) == IF task[t].fallback THEN "onboard" ELSE "done"

\* Mutant: the active Home is selected anew.
SelectAnew(t) ==
  /\ At(t, "select")
  /\ Goes(t, "select_list")
  /\ UNCHANGED <<store, device, rest>>

Select(t) ==
  /\ At(t, "select")
  /\ \/ active # None /\ Postures(t, AfterSelect(t))
     \/ active = None /\ Goes(t, "select_list")
  /\ UNCHANGED <<store, device, rest>>

SelectList(t) ==
  /\ At(t, "select_list")
  /\ \/ homes = {} /\ Postures(t, AfterSelect(t))
     \/ \E h \in Best(homes) : GoesFor(t, "select_set", h)
  /\ UNCHANGED <<store, device, rest>>

SelectSet(t) ==
  /\ At(t, "select_set")
  /\ active' = task[t].home
  /\ Goes(t, IF task[t].fallback THEN "retire_read" ELSE "select_apply")
  /\ UNCHANGED <<homes, profiles, complete, device, rest>>

\* retireSetupAP
RetireRead(t) ==
  /\ At(t, "retire_read")
  /\ Goes(t, IF complete THEN "select_apply" ELSE "retire_set")
  /\ UNCHANGED <<store, device, rest>>

\* Mutant: the fallback takes the setup AP down without marking the device claimed.
RetireSetUnclaimed(t) ==
  /\ At(t, "retire_set")
  /\ task' = [task EXCEPT ![t].step = "disable", ![t].then = "select_apply"]
  /\ UNCHANGED <<store, device, rest>>

\* SetSetupComplete, and completeSetupLocal to follow
RetireSet(t) ==
  /\ At(t, "retire_set")
  /\ complete' = TRUE
  /\ task' = [task EXCEPT ![t].step = "disable", ![t].then = "select_apply"]
  /\ UNCHANGED <<homes, profiles, active, device, rest>>


\* completeSetupLocal: setupAP.Disable, then applyPosture
Disable(t) ==
  /\ At(t, "disable")
  /\ setupAP' = FALSE
  /\ Goes(t, "posture_read")
  /\ UNCHANGED <<store, applied, posture, rest>>

\* ApplyProfileForHome: a Home without a profile changes nothing.
ApplyFor(h) == applied' = IF h \in profiles THEN h ELSE applied

SelectApply(t) ==
  /\ At(t, "select_apply")
  /\ ApplyFor(task[t].home)
  /\ Postures(t, AfterSelect(t))
  /\ UNCHANGED <<store, posture, setupAP, rest>>

-----------------------------------------------------------------------------
(* main, after a start of the daemon *)

\* Mutant: the posture is left to the selection.
BootWithoutPosture ==
  /\ At(Main, "boot")
  /\ homes' = homes \cup {Self}
  /\ profiles' = profiles \cup {Self}
  /\ Goes(Main, "start")
  /\ UNCHANGED <<active, complete, device, rest>>

\* The device's own Home and a default profile for it are created if missing.
Boot ==
  /\ At(Main, "boot")
  /\ homes' = homes \cup {Self}
  /\ profiles' = profiles \cup {Self}
  /\ Postures(Main, "start")
  /\ UNCHANGED <<active, complete, device, rest>>

\* The first step of each goroutine that main starts in this mode.
Started(t) ==
  CASE t = APTask -> "ap_read"
    [] t = Main /\ mode = "select" -> "select"
    [] t = Main /\ mode = "onboard" -> "onboard"
    [] t = Main /\ mode = "join" -> "done"
    [] t = Sync /\ mode = "join" -> "sync"
    [] t \in Joining /\ mode = "join" -> "enroll"
    [] OTHER -> task[t].step

Start ==
  /\ At(Main, "start")
  /\ task' = [t \in Tasks |->
                [task[t] EXCEPT !.step = Started(t),
                                !.home = IF t \in Joining THEN t ELSE @]]
  /\ UNCHANGED <<store, device, rest>>

\* Mutant: the setup AP comes up at every boot.
ReadNothing ==
  /\ At(APTask, "ap_read")
  /\ Goes(APTask, "ap_enable")
  /\ UNCHANGED <<store, device, rest>>

\* The setup-AP goroutine: it reads setup_complete, and Enable takes its time.
ReadSetupComplete ==
  /\ At(APTask, "ap_read")
  /\ IF complete THEN Ends(APTask) ELSE Goes(APTask, "ap_enable")
  /\ UNCHANGED <<store, device, rest>>

EnableSetupAP ==
  /\ At(APTask, "ap_enable")
  /\ setupAP' = TRUE
  /\ Ends(APTask)
  /\ UNCHANGED <<store, applied, posture, rest>>

-----------------------------------------------------------------------------
(* Joining: joinHome, and the join of autoOnboardWired *)

Fails ==
  /\ failures < MaxFailures
  /\ failures' = failures + 1
  /\ UNCHANGED <<mode, fellBack, crashes, asked>>

\* The exchange of module Join ends with the device enrolled.
Enrolled(t) ==
  /\ At(t, "enroll")
  /\ Goes(t, "record")
  /\ UNCHANGED <<store, device, rest>>

\* It ends in an error: joinHome tries again, the onboard loop decides again.
EnrollFails ==
  /\ At(Main, "enroll")
  /\ Fails
  /\ Goes(Main, "onboard")
  /\ UNCHANGED <<store, device>>

\* JoinAndRecord: the Home is recorded if the controller answers GET /homes/{id};
\* if it does not, nothing is recorded and nobody is told.
Record(t) ==
  /\ At(t, "record")
  /\ \/ homes' = homes \cup {task[t].home} /\ UNCHANGED rest
     \/ UNCHANGED homes /\ Fails
  /\ Goes(t, "store_profile")
  /\ UNCHANGED <<profiles, active, complete, device>>

Joined == IF mode = "join" THEN "select" ELSE "claim"

StoreProfile(t) ==
  /\ At(t, "store_profile")
  /\ profiles' = profiles \cup {task[t].home}
  /\ Goes(t, "join_apply")
  /\ UNCHANGED <<homes, active, complete, device, rest>>

\* Whatever Home is active.
JoinApply(t) ==
  /\ At(t, "join_apply")
  /\ applied' = task[t].home
  /\ Goes(t, Joined)
  /\ UNCHANGED <<store, posture, setupAP, rest>>

\* The onboarded node is claimed, and the setup AP comes down.
Claim ==
  /\ At(Main, "claim")
  /\ complete' = TRUE
  /\ task' = [task EXCEPT ![Main].step = "disable", ![Main].then = "start_sync"]
  /\ UNCHANGED <<homes, profiles, active, device, rest>>

StartSync ==
  /\ At(Main, "start_sync")
  /\ task' = [task EXCEPT ![Main].step = "select", ![Sync].step = "sync"]
  /\ UNCHANGED <<store, device, rest>>

\* onboard.Run, a round of the loop: the claim is read, then the active Home.
OnboardTick ==
  /\ At(Main, "onboard")
  /\ IF complete THEN Ends(Main)
     ELSE task' = [task EXCEPT ![Main] = [Idle EXCEPT !.step = "onboard_decide"]]
  /\ UNCHANGED <<store, device, rest>>

\* Mutant: a node that is active in a Home enrolls as well.
OnboardDecideUnclaimed ==
  /\ At(Main, "onboard_decide")
  /\ \/ \E h \in Joining : GoesFor(Main, "enroll", h) /\ UNCHANGED rest
     \/ /\ active = None /\ ~fellBack
        /\ task' = [task EXCEPT ![Main].step = "select", ![Main].fallback = TRUE]
        /\ fellBack' = TRUE
        /\ UNCHANGED <<mode, crashes, failures, asked>>
  /\ UNCHANGED <<store, device>>

\* Decide: on the wire, with a controller in reach, the node enrolls.  With none
\* in reach when the grace window ends it falls back, once.
OnboardDecide ==
  /\ At(Main, "onboard_decide")
  /\ \/ /\ active = None
        /\ \E h \in Joining : GoesFor(Main, "enroll", h)
        /\ UNCHANGED rest
     \/ /\ active = None /\ ~fellBack
        /\ task' = [task EXCEPT ![Main].step = "select", ![Main].fallback = TRUE]
        /\ fellBack' = TRUE
        /\ UNCHANGED <<mode, crashes, failures, asked>>
     \/ active # None /\ Goes(Main, "onboard") /\ UNCHANGED rest
  /\ UNCHANGED <<store, device>>

\* syncProfileLoop, a round in which the controller of the active Home answers:
\* the profile it serves is the stored one, or another.
SyncRead ==
  /\ At(Sync, "sync")
  /\ active \in Joining
  /\ \/ active \in profiles /\ UNCHANGED task
     \/ GoesFor(Sync, "sync_store", active)
  /\ UNCHANGED <<store, device, rest>>

SyncStore ==
  /\ At(Sync, "sync_store")
  /\ profiles' = profiles \cup {task[Sync].home}
  /\ Goes(Sync, "sync_apply")
  /\ UNCHANGED <<homes, active, complete, device, rest>>

SyncApply ==
  /\ At(Sync, "sync_apply")
  /\ applied' = task[Sync].home
  /\ Goes(Sync, "sync")
  /\ UNCHANGED <<store, posture, setupAP, rest>>

-----------------------------------------------------------------------------
(* The management API *)

\* Nothing is under way.
AtRest == Serving /\ \A t \in Tasks : task[t].step \in {"done", "onboard", "enroll", "sync"}

Asked == asked' = TRUE /\ UNCHANGED <<mode, fellBack, crashes, failures>>

\* A request comes in, whatever is under way.
Arrives(r) == At(r, "done") /\ Serving /\ Asked

\* PUT /active-home: the Home must be known; then it is written, then applied.
SetActiveHome(r, h) ==
  /\ Arrives(r)
  /\ h \in homes
  /\ GoesFor(r, "set_write", h)
  /\ UNCHANGED <<store, device>>

SetActiveWrite(r) ==
  /\ At(r, "set_write")
  /\ active' = task[r].home
  /\ Goes(r, "set_apply")
  /\ UNCHANGED <<homes, profiles, complete, device, rest>>

SetActiveApply(r) ==
  /\ At(r, "set_apply")
  /\ ApplyFor(task[r].home)
  /\ Ends(r)
  /\ UNCHANGED <<store, posture, setupAP, rest>>

\* DELETE /homes/{id}: refused for the active Home; then one transaction.
DeleteHome(r, h) ==
  /\ Arrives(r)
  /\ active # h
  /\ GoesFor(r, "delete_write", h)
  /\ UNCHANGED <<store, device>>

DeleteWrite(r) ==
  /\ At(r, "delete_write")
  /\ IF task[r].home \in homes
     THEN homes' = homes \ {task[r].home} /\ profiles' = profiles \ {task[r].home}
     ELSE UNCHANGED <<homes, profiles>>
  /\ Ends(r)
  /\ UNCHANGED <<active, complete, device, rest>>

\* POST /homes, and the end of POST /enroll/join, which records the Home.
AddHome(h) ==
  /\ Serving /\ Asked
  /\ homes' = homes \cup {h}
  /\ UNCHANGED <<profiles, active, complete, device, task>>

\* POST /homes/{id}/profile: stored, then applied, whatever Home is active.
PostProfile(r, h) ==
  /\ Arrives(r)
  /\ profiles' = profiles \cup {h}
  /\ GoesFor(r, "post_apply", h)
  /\ UNCHANGED <<homes, active, complete, device>>

PostApply(r) ==
  /\ At(r, "post_apply")
  /\ applied' = task[r].home
  /\ Ends(r)
  /\ UNCHANGED <<store, posture, setupAP, rest>>

\* POST /setup/complete
CompleteSetup(r) ==
  /\ Arrives(r)
  /\ complete' = TRUE
  /\ task' = [task EXCEPT ![r].step = "disable", ![r].then = "done"]
  /\ UNCHANGED <<homes, profiles, active, device>>

\* POST /reset clears the store; the configuration of the device stays.
FactoryReset(r) ==
  /\ Arrives(r)
  /\ homes' = {} /\ profiles' = {} /\ active' = None /\ complete' = FALSE
  /\ UNCHANGED <<device, task>>

\* The daemon stops anywhere, requests in flight are gone, and it is respawned.
Crash ==
  /\ crashes < MaxCrashes
  /\ crashes' = crashes + 1
  /\ task' = [t \in Tasks |-> IF t = Main THEN [Idle EXCEPT !.step = "boot"] ELSE Idle]
  /\ fellBack' = FALSE /\ asked' = FALSE
  /\ UNCHANGED <<store, device, mode, failures>>

-----------------------------------------------------------------------------

Init ==
  /\ homes = {} /\ profiles = {} /\ active = None /\ complete = FALSE
  /\ applied = None /\ posture = "stock" /\ setupAP = FALSE
  /\ task = [t \in Tasks |-> IF t = Main THEN [Idle EXCEPT !.step = "boot"] ELSE Idle]
  /\ mode \in Modes /\ fellBack = FALSE /\ crashes = 0 /\ failures = 0
  /\ asked = FALSE

Posture(t) == PostureRead(t) \/ PostureApply(t)
Selection(t) ==
  \/ Select(t) \/ SelectList(t) \/ SelectSet(t)
  \/ RetireRead(t) \/ RetireSet(t) \/ SelectApply(t)
Join(t) == Enrolled(t) \/ Record(t) \/ StoreProfile(t) \/ JoinApply(t)

MainStep ==
  \/ Boot \/ Start \/ Posture(Main) \/ Selection(Main) \/ Disable(Main)
  \/ OnboardTick \/ OnboardDecide \/ Join(Main) \/ Claim \/ StartSync

JoinStep(t) == Join(t) \/ Selection(t) \/ Posture(t)

SyncStep == SyncRead \/ SyncStore \/ SyncApply

SetupAPStep == ReadSetupComplete \/ EnableSetupAP

Request(r) ==
  \/ \E h \in Homes : SetActiveHome(r, h) \/ DeleteHome(r, h) \/ PostProfile(r, h)
  \/ SetActiveWrite(r) \/ SetActiveApply(r) \/ DeleteWrite(r) \/ PostApply(r)
  \/ CompleteSetup(r) \/ Disable(r) \/ Posture(r) \/ FactoryReset(r)

Next ==
  \/ MainStep
  \/ EnrollFails
  \/ \E t \in Joining : JoinStep(t)
  \/ SyncStep
  \/ SetupAPStep
  \/ \E r \in Requests : Request(r)
  \/ Requests # {} /\ \E h \in Homes : AddHome(h)
  \/ Crash

\* Every goroutine the daemon started goes on; a controller that is asked to
\* adopt the device does.  Nobody has to send a request or change a profile.
Fairness ==
  /\ WF_vars(MainStep) /\ WF_vars(SyncStore \/ SyncApply) /\ WF_vars(SetupAPStep)
  /\ \A t \in Joining : WF_vars(JoinStep(t))

Spec == Init /\ [][Next]_vars /\ Fairness

-----------------------------------------------------------------------------
(* Properties *)

TypeOK ==
  /\ homes \subseteq Homes /\ profiles \subseteq Homes
  /\ active \in Homes \cup {None} /\ complete \in BOOLEAN
  /\ applied \in Homes \cup {None} /\ setupAP \in BOOLEAN
  /\ posture \in {"stock", "guest", "controller", "mesh_node"}
  /\ task \in [Tasks -> Work]
  /\ mode \in Modes /\ fellBack \in BOOLEAN
  /\ crashes \in 0 .. MaxCrashes /\ failures \in 0 .. MaxFailures
  /\ asked \in BOOLEAN

\* Unattended enrollment is for undecided nodes: while the onboard loop enrolls,
\* whatever was interrupted before, the node is unclaimed and has no active
\* Home.  A node that fell back to its own Home is not taken over.
OnlyUndecidedOnboard ==
  task[Main].step \in {"enroll", "record", "store_profile", "join_apply", "claim"}
    => ~complete /\ active = None

\* "The home it settles on decides its role; the posture follows"
\* (doc/network-posture.md:22).  Two joins that do not agree on the Home, since
\* the record of one was not answered, can each apply the posture of their own
\* choice; and PUT /active-home applies none.
PostureFollows ==
  AtRest /\ active # None /\ (mode = "join" => failures = 0)
    => posture = DecideRole(active)

\* "An established controller or node boots straight into its settled posture
\* and never reverts to Guest" (doc/network-posture.md:98), whatever restarts.
NeverGuestAgain == [][active # None /\ posture' = "guest" => posture = "guest"]_vars

\* The same sentence, of devices that are asked things: one that has taken on the
\* posture of a controller or node keeps its active Home and is no guest again.
NeverReverts ==
  [][active # None /\ posture \in {"controller", "mesh_node"} => posture' # "guest"]_vars

\* Devices with a join list wait "to record the joined Home(s) before selecting,
\* so an external Home can win over the device's own" (main.go:411): they end up
\* active in a Home they joined, as mesh nodes, if no controller leaves the
\* request for its Home's record unanswered.
JoinSettles ==
  mode = "join" /\ [](failures = 0)
    => <>[](active \in Joining /\ posture = "mesh_node")

Up ==
  /\ complete
  /\ active # None /\ applied = active /\ posture = DecideRole(active)

\* "an unattended device that finds no controller comes up as a working
\* controller" (main.go:391), and one that finds a controller joins it.
ComesUp == mode = "onboard" => <>[]Up

\* It does if its onboarding is not interrupted.
ComesUpUninterrupted == mode = "onboard" /\ [](crashes = 0) => <>[]Up

\* syncProfileLoop pulls changes "so an operator editing the Home's wireless
\* (SSID/key) on the controller propagates to joined nodes without
\* re-onboarding" (main.go:696): a member at rest runs the loop.
MembersSync == AtRest /\ active \in Joining => ~At(Sync, "done")

\* "Joining adds membership, it does not switch the active Home", of which the
\* device has "one applied profile" (doc/enrollment.md:19): nothing but the
\* active Home's profile is applied once there is an active Home.
JoinKeepsConfiguration ==
  [][active # None /\ applied' # applied => applied' = active]_vars

\* deleteHome refuses to remove the active Home, "so we never leave a dangling
\* active-home pointer" (internal/api/lifecycle.go:13): no step takes the Home away
\* from under the pointer.
ActiveIsSpared ==
  [][active' = active /\ active \in homes => active \in homes']_vars

\* "An already-set active Home is respected (the operator's explicit choice
\* wins)" (main.go:538): only a request replaces an active Home.
ChoiceRespected ==
  [][active # None /\ active' \notin {active, None}
       => \E r \in Requests : At(r, "set_write")]_vars

\* An active Home that no selection under way has missed.
Settled ==
  active # None /\ \A t \in Tasks : task[t].step \notin {"select_list", "select_set"}

\* What remains of that claim: only the selections that were under way when the
\* active Home was set can replace it.  Once they have ended nothing but a request
\* does, no selection that starts later and no restart (autoSelectHome).
SettledChoiceStands ==
  [][Settled => \/ active' = None
                \/ /\ Settled'
                   /\ active' # active => \E r \in Requests : At(r, "set_write")]_vars

\* The setup AP "comes down exactly once, however setup finishes" (main.go:258):
\* no claimed device at rest broadcasts it.
SetupAPRetired == AtRest /\ complete => ~setupAP

\* The setup AP of a claimed device is down, and no goroutine is about to bring it
\* up that found the device unclaimed.
Retired == complete /\ ~setupAP /\ ~At(APTask, "ap_enable")

\* What remains of that claim: a setup AP that is down for good stays down, after
\* any restarts, until a factory reset (main.go:434).
SetupAPStaysDown == [][Retired /\ complete' => Retired']_vars

\* Whatever requests came before a restart, wherever it interrupted them, the
\* posture is again that of the active Home's role once the restarted device is at
\* rest (applyPosture at boot), on devices that join nothing from a list.
PostureRestored ==
  AtRest /\ ~asked /\ mode # "join" /\ active # None => posture = DecideRole(active)

=============================================================================
