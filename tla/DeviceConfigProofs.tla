------------------------- MODULE DeviceConfigProofs -------------------------
(***************************************************************************)
(* Theorems about DeviceConfig, for any boards, daemon configurations and  *)
(* profiles and any number of jobs and faults.                             *)
(***************************************************************************)
EXTENDS DeviceConfig, ProgramProofs

USE DeviceAssumption, RadioAssumption, ProfileAssumption

\* The profiles as they are applied, with the reads that may fail on the way
WithUnread(p, u) == [mesh |-> p.mesh, ap |-> p.ap, bands |-> p.bands, unread |-> u]
AppliedOf(p) == {WithUnread(p, u) : u \in SUBSET {"mesh", "aps"}}
Applied == UNION {AppliedOf(p) : p \in Profiles}

LEMMA AppliedProfiles == \A p \in Applied : p.mesh \in BOOLEAN
BY DEF Applied, AppliedOf, WithUnread

USE AppliedProfiles

-----------------------------------------------------------------------------
(* What the steps are made of *)

\* Each variable is the function or the record it is meant to be.
IsHistory(p) ==
  /\ p = [x \in DOMAIN p |-> p[x]]
  /\ DOMAIN p = {"profile", "posture", "setup", "half", "forgot", "torn"}
IsPast == IsHistory(past)

Shapes ==
  /\ IsConfig(staged) /\ IsConfig(committed) /\ IsConfig(running)
  /\ prog = [t \in Tasks |-> prog[t]] /\ read = [t \in Tasks |-> read[t]]
  /\ job = [t \in Tasks |-> job[t]] /\ IsPast

\* Task t has `rest` left to do, and has done its job if that is nothing.
MovedOn(t, rest) ==
  /\ prog' = [u \in Tasks |-> prog'[u]] /\ job' = [u \in Tasks |-> job'[u]] /\ IsPast'
  /\ prog'[t] = rest /\ \A u \in Tasks \ {t} : prog'[u] = prog[u]
  /\ job'[t] = IF rest = <<>> THEN Idle ELSE job[t]
  /\ \A u \in Tasks \ {t} : job'[u] = job[u]
  /\ LET done(kinds) == rest = <<>> /\ job[t].kind \in kinds
     IN  /\ past'.profile = IF done({"profile"}) THEN job[t].arg ELSE past.profile
         /\ past'.posture = IF done({"posture"}) THEN job[t].arg ELSE past.posture
         /\ past'.setup = IF done(SetupJobs) THEN job[t].kind ELSE past.setup
         /\ past'.half = IF done({"profile"}) THEN past.half /\ ~job[t].arg.mesh
                         ELSE past.half
         /\ past'.forgot = IF done(SetupJobs) THEN past.forgot /\ job[t].kind # "uplink"
                           ELSE past.forgot

Proceeded(t, rest) ==
  /\ MovedOn(t, rest)
  /\ past'.torn = past.torn \cap Dirty(staged', committed', running')

LEMMA MovedOnIs ==
  ASSUME Shapes, NEW t \in Tasks, NEW rest, NEW torn,
         prog' = [prog EXCEPT ![t] = rest],
         job' = IF rest = <<>> THEN [job EXCEPT ![t] = Idle] ELSE job,
         past' = [(IF rest = <<>> THEN Done(t) ELSE past) EXCEPT !.torn = torn]
  PROVE  MovedOn(t, rest) /\ past'.torn = torn
<1> DEFINE d == IF rest = <<>> THEN Done(t) ELSE past
           done(kinds) == rest = <<>> /\ job[t].kind \in kinds
<1>1. /\ prog' = [u \in Tasks |-> prog'[u]] /\ job' = [u \in Tasks |-> job'[u]]
      /\ prog'[t] = rest /\ \A u \in Tasks \ {t} : prog'[u] = prog[u]
      /\ job'[t] = IF rest = <<>> THEN Idle ELSE job[t]
      /\ \A u \in Tasks \ {t} : job'[u] = job[u]
  BY DEF Shapes
<1>2. /\ IsHistory(d)
      /\ d.profile = IF done({"profile"}) THEN job[t].arg ELSE past.profile
      /\ d.posture = IF done({"posture"}) THEN job[t].arg ELSE past.posture
      /\ d.setup = IF done(SetupJobs) THEN job[t].kind ELSE past.setup
      /\ d.half = IF done({"profile"}) THEN past.half /\ ~job[t].arg.mesh ELSE past.half
      /\ d.forgot = IF done(SetupJobs) THEN past.forgot /\ job[t].kind # "uplink"
                    ELSE past.forgot
      /\ d.torn = past.torn
  BY DEF Shapes, IsPast, IsHistory, Done, SetupJobs
<1> HIDE DEF d
<1>3. past' = [d EXCEPT !.torn = torn]
  BY DEF d
<1> QED
  BY <1>1, <1>2, <1>3 DEF MovedOn, IsPast, IsHistory

LEMMA ProceedIs ==
  ASSUME Shapes, NEW t \in Tasks, NEW rest, Proceed(t, rest)
  PROVE  Proceeded(t, rest)
<1> DEFINE d == IF rest = <<>> THEN Done(t) ELSE past
           torn == past.torn \cap Dirty(staged', committed', running')
<1>1. IsHistory(d) /\ d.torn = past.torn
  BY DEF Shapes, IsPast, IsHistory, Done, SetupJobs
<1> HIDE DEF d
<1>2. past' = [d EXCEPT !.torn = torn]
  BY <1>1 DEF Proceed, d, IsHistory
<1>3. /\ prog' = [prog EXCEPT ![t] = rest]
      /\ job' = IF rest = <<>> THEN [job EXCEPT ![t] = Idle] ELSE job
  BY DEF Proceed
<1> HIDE DEF torn
<1>4. MovedOn(t, rest) /\ past'.torn = torn
  BY <1>2, <1>3, MovedOnIs DEF d
<1> QED
  BY <1>4 DEF Proceeded, torn

\* Task t's job has ended with nothing left to do, early.
GaveUp(t) ==
  /\ prog' = [u \in Tasks |-> prog'[u]] /\ job' = [u \in Tasks |-> job'[u]] /\ IsPast'
  /\ read' = [u \in Tasks |-> read'[u]]
  /\ prog'[t] = <<>> /\ job'[t] = Idle /\ read'[t] = None
  /\ \A u \in Tasks \ {t} : prog'[u] = prog[u] /\ job'[u] = job[u] /\ read'[u] = read[u]
  /\ past'.profile = IF job[t].kind = "profile" THEN None ELSE past.profile
  /\ past'.posture = IF job[t].kind = "posture" THEN None ELSE past.posture
  /\ past'.setup = IF job[t].kind \in SetupJobs THEN None ELSE past.setup
  /\ (past'.half <=> past.half \/ job[t].kind = "profile")
  /\ (past'.forgot <=> past.forgot \/ job[t].kind = "uplink")
  /\ past'.torn = Dirty(staged', committed', running')

LEMMA GiveUpIs ==
  ASSUME Shapes, NEW t \in Tasks, GiveUp(t)
  PROVE  GaveUp(t)
<1> DEFINE d == EndedEarly({job[t].kind})
<1>1. /\ prog' = [u \in Tasks |-> prog'[u]] /\ job' = [u \in Tasks |-> job'[u]]
      /\ read' = [u \in Tasks |-> read'[u]]
      /\ prog'[t] = <<>> /\ job'[t] = Idle /\ read'[t] = None
      /\ \A u \in Tasks \ {t} : prog'[u] = prog[u] /\ job'[u] = job[u] /\ read'[u] = read[u]
  BY DEF GiveUp, Shapes
<1>2. /\ IsHistory(d)
      /\ d.profile = IF job[t].kind = "profile" THEN None ELSE past.profile
      /\ d.posture = IF job[t].kind = "posture" THEN None ELSE past.posture
  BY DEF Shapes, IsPast, IsHistory, EndedEarly
<1>s. d.setup = IF job[t].kind \in SetupJobs THEN None ELSE past.setup
  <2>1. d.setup = IF {job[t].kind} \cap SetupJobs # {} THEN None ELSE past.setup
    BY DEF Shapes, IsPast, IsHistory, EndedEarly
  <2>2. {job[t].kind} \cap SetupJobs # {} <=> job[t].kind \in SetupJobs
    OBVIOUS
  <2> QED
    BY <2>1, <2>2
<1>h. /\ d.half = (past.half \/ "profile" \in {job[t].kind})
      /\ d.forgot = (past.forgot \/ "uplink" \in {job[t].kind})
  BY DEF Shapes, IsPast, IsHistory, EndedEarly
<1> HIDE DEF d
<1>3. past' = [d EXCEPT !.torn = Dirty(staged', committed', running')]
  BY DEF GiveUp, d
<1> QED
  BY <1>1, <1>2, <1>s, <1>h, <1>3 DEF GaveUp, IsPast, IsHistory

\* The daemon has started.
Started ==
  /\ prog' = [t \in Tasks |-> <<>>] /\ read' = [t \in Tasks |-> None]
  /\ job' = [t \in Tasks |-> Idle] /\ IsPast' /\ uplinkActive' = FALSE
  /\ LET ended(kinds) == \E t \in Tasks : job[t].kind \in kinds
     IN  /\ past'.profile = IF ended({"profile"}) THEN None ELSE past.profile
         /\ past'.posture = IF ended({"posture"}) THEN None ELSE past.posture
         /\ past'.setup = IF ended(SetupJobs) THEN None ELSE past.setup
         /\ (past'.half <=> past.half \/ ended({"profile"}))
         /\ (past'.forgot <=> \E s \in UplinkSections : Has(staged', s[1], s[2]))
  /\ past'.torn = Dirty(staged', committed', running')

LEMMA DaemonStartsIs ==
  ASSUME Shapes, DaemonStarts
  PROVE  Started
<1> DEFINE d == EndedEarly({job[t].kind : t \in Tasks})
           ended(kinds) == \E t \in Tasks : job[t].kind \in kinds
<1>1. /\ prog' = [t \in Tasks |-> <<>>] /\ read' = [t \in Tasks |-> None]
      /\ job' = [t \in Tasks |-> Idle] /\ uplinkActive' = FALSE
  BY DEF DaemonStarts
<1>2. /\ IsHistory(d)
      /\ d.profile = IF ended({"profile"}) THEN None ELSE past.profile
      /\ d.posture = IF ended({"posture"}) THEN None ELSE past.posture
  BY DEF Shapes, IsPast, IsHistory, EndedEarly
<1>s. d.setup = IF ended(SetupJobs) THEN None ELSE past.setup
  <2> DEFINE K == {job[t].kind : t \in Tasks}
  <2>1. d.setup = IF K \cap SetupJobs # {} THEN None ELSE past.setup
    BY DEF Shapes, IsPast, IsHistory, EndedEarly
  <2>2. K \cap SetupJobs # {} <=> ended(SetupJobs)
    OBVIOUS
  <2> QED
    BY <2>1, <2>2
<1>h. d.half = (past.half \/ "profile" \in {job[t].kind : t \in Tasks})
  BY DEF Shapes, IsPast, IsHistory, EndedEarly
<1> HIDE DEF d
<1>3. past' = [d EXCEPT !.forgot = \E s \in UplinkSections : Has(staged', s[1], s[2]),
                        !.torn = Dirty(staged', committed', running')]
  BY DEF DaemonStarts, d
<1> QED
  BY <1>1, <1>2, <1>s, <1>h, <1>3 DEF Started, IsPast, IsHistory

-----------------------------------------------------------------------------
(* Type correctness *)

\* Devices that a bridge member can be
Bridgeable == LanPorts \cup {Uplink, Iface} \cup device.wired

ConfigTyped(c, devices) == IsConfig(c) /\ Members(c) \subseteq devices

ConfigsTyped ==
  /\ ConfigTyped(staged, Bridgeable) /\ ConfigTyped(committed, Bridgeable)
  /\ ConfigTyped(running, Bridgeable)

TasksTyped ==
  /\ prog = [t \in Tasks |-> prog[t]] /\ read = [t \in Tasks |-> read[t]]
  /\ job = [t \in Tasks |-> job[t]] /\ IsPast
  /\ \A t \in Tasks :
       /\ Good(prog[t], Bridgeable)
       /\ read[t] = None \/ read[t] \subseteq Bridgeable
       /\ prog[t] = <<>> <=> job[t] = Idle
  /\ past.torn \subseteq Packages

RestTyped ==
  /\ device \in Devices /\ role \in Roles /\ carrier \in Carriers
  /\ standby \in BOOLEAN /\ uplinkActive \in BOOLEAN
  /\ backhaul \in {None, "80211s", "multi_ap", "degraded"}
  /\ jobs \in 0..MaxJobs /\ faults \in 0..MaxFaults

TypeInv == ConfigsTyped /\ TasksTyped /\ RestTyped

LEMMA TypedIsOK == TypeInv => TypeOK
BY DEF TypeInv, ConfigsTyped, TasksTyped, RestTyped, ConfigTyped, IsConfig, TypeOK,
       Bridgeable

LEMMA TypedShapes == TypeInv => Shapes
BY DEF TypeInv, ConfigsTyped, TasksTyped, ConfigTyped, Shapes

LEMMA DirtyPackages == \A s, c, r : Dirty(s, c, r) \subseteq Packages
BY DEF Dirty

\* A written section changes no members; a written member list has the list.
LEMMA StagedTyped ==
  ASSUME NEW c, NEW D, ConfigTyped(c, D)
  PROVE  /\ \A pkg \in Packages : \A sec, values :
              sec # LanDevice => ConfigTyped(WithOptions(c, pkg, sec, values), D)
         /\ \A pkg \in Packages : \A sec :
              sec # LanDevice => ConfigTyped(WithoutSection(c, pkg, sec), D)
         /\ \A list \in SUBSET D : ConfigTyped(WithMembers(c, list), D)
<1>1. ASSUME NEW pkg \in Packages, NEW sec, NEW values, sec # LanDevice
      PROVE  ConfigTyped(WithOptions(c, pkg, sec, values), D)
  <2>1. SameBut(c, WithOptions(c, pkg, sec, values), pkg, sec)
    BY WithOptionsIs DEF ConfigTyped
  <2> DEFINE n == WithOptions(c, pkg, sec, values)
  <2> HIDE DEF n
  <2>2. Members(n) = Members(c)
    BY <1>1, <2>1, SameMembers DEF n
  <2>3. IsConfig(n)
    BY <2>1 DEF n, SameBut
  <2> QED
    BY <2>2, <2>3 DEF ConfigTyped, n
<1>2. ASSUME NEW pkg \in Packages, NEW sec, sec # LanDevice
      PROVE  ConfigTyped(WithoutSection(c, pkg, sec), D)
  <2>1. SameBut(c, WithoutSection(c, pkg, sec), pkg, sec)
    BY WithoutSectionIs DEF ConfigTyped
  <2> DEFINE n == WithoutSection(c, pkg, sec)
  <2> HIDE DEF n
  <2>2. Members(n) = Members(c)
    BY <1>2, <2>1, SameMembers DEF n
  <2>3. IsConfig(n)
    BY <2>1 DEF n, SameBut
  <2> QED
    BY <2>2, <2>3 DEF ConfigTyped, n
<1>3. ASSUME NEW list \in SUBSET D
      PROVE  ConfigTyped(WithMembers(c, list), D)
  <2>1. /\ SameBut(c, WithMembers(c, list), "network", LanDevice)
        /\ Members(WithMembers(c, list)) = list
    BY WithMembersIs DEF ConfigTyped
  <2> QED
    BY <2>1 DEF ConfigTyped, SameBut
<1> QED
  BY <1>1, <1>2, <1>3

\* A package of a configuration replaced by that of another
LEMMA PackageTyped ==
  ASSUME NEW c, NEW s, NEW D, ConfigTyped(c, D), ConfigTyped(s, D), NEW pkg \in Packages
  PROVE  LET n == [c EXCEPT ![pkg] = s[pkg]]
         IN  /\ ConfigTyped(n, D) /\ n[pkg] = s[pkg]
             /\ \A p \in Packages \ {pkg} : n[p] = c[p]
<1> DEFINE n == [c EXCEPT ![pkg] = s[pkg]]
<1>1. IsConfig(n) /\ n[pkg] = s[pkg] /\ \A p \in Packages \ {pkg} : n[p] = c[p]
  BY DEF ConfigTyped, IsConfig
<1> HIDE DEF n
<1>2. Members(n) = IF pkg = "network" THEN Members(s) ELSE Members(c)
  BY <1>1 DEF Members, Option, Has, Packages
<1>3. Members(n) \subseteq D
  BY <1>2 DEF ConfigTyped
<1> QED
  BY <1>1, <1>3 DEF ConfigTyped, n

\* The head of a task's program is a good call, and what follows is good.
LEMMA GoodHead ==
  ASSUME NEW P, NEW D, Good(P, D), P # <<>>
  PROVE  GoodCall(Head(P), D) /\ Good(Tail(P), D)
BY HeadTail DEF Good

LEMMA MoveTyped ==
  ASSUME TypeInv, NEW t \in Tasks, prog[t] # <<>>, NEW rest, MovedOn(t, rest),
         past'.torn \subseteq Packages, Good(rest, Bridgeable), device' = device,
         read' = [u \in Tasks |-> read'[u]],
         \A u \in Tasks : read'[u] = None \/ read'[u] \subseteq Bridgeable
  PROVE  TasksTyped'
<1>2. Bridgeable' = Bridgeable
  BY DEF Bridgeable
<1>4. job[t] # Idle
  BY DEF TypeInv, TasksTyped
<1>5. \A u \in Tasks : Good(prog'[u], Bridgeable)
  BY DEF MovedOn, TypeInv, TasksTyped
<1>6. \A u \in Tasks : prog'[u] = <<>> <=> job'[u] = Idle
  BY <1>4 DEF MovedOn, TypeInv, TasksTyped
<1>7. /\ prog' = [u \in Tasks |-> prog'[u]] /\ job' = [u \in Tasks |-> job'[u]] /\ IsPast'
  BY DEF MovedOn
<1> QED
  BY <1>2, <1>5, <1>6, <1>7 DEF TasksTyped

LEMMA ProceedTyped ==
  ASSUME TypeInv, NEW t \in Tasks, prog[t] # <<>>, NEW rest, Proceed(t, rest),
         Good(rest, Bridgeable), device' = device,
         read' = [u \in Tasks |-> read'[u]],
         \A u \in Tasks : read'[u] = None \/ read'[u] \subseteq Bridgeable
  PROVE  TasksTyped'
<1>1. MovedOn(t, rest) /\ past'.torn \subseteq Packages
  BY TypedShapes, ProceedIs DEF Proceeded, TypeInv, TasksTyped
<1> QED
  BY <1>1, MoveTyped

LEMMA GiveUpTyped ==
  ASSUME TypeInv, NEW t \in Tasks, GiveUp(t), device' = device
  PROVE  TasksTyped'
<1>1. GaveUp(t)
  BY TypedShapes, GiveUpIs
<1>2. Bridgeable' = Bridgeable
  BY DEF Bridgeable
<1>3. past'.torn \subseteq Packages
  BY <1>1, DirtyPackages DEF GaveUp
<1>5. \A u \in Tasks : Good(prog'[u], Bridgeable)
  BY <1>1, GoodEmpty DEF GaveUp, TypeInv, TasksTyped
<1>6. \A u \in Tasks : prog'[u] = <<>> <=> job'[u] = Idle
  BY <1>1 DEF GaveUp, TypeInv, TasksTyped
<1>7. \A u \in Tasks : read'[u] = None \/ read'[u] \subseteq Bridgeable
  BY <1>1 DEF GaveUp, TypeInv, TasksTyped
<1>8. /\ prog' = [u \in Tasks |-> prog'[u]] /\ job' = [u \in Tasks |-> job'[u]] /\ IsPast'
      /\ read' = [u \in Tasks |-> read'[u]]
  BY <1>1 DEF GaveUp
<1> QED
  BY <1>2, <1>3, <1>5, <1>6, <1>7, <1>8 DEF TasksTyped

LEMMA FactoryTyped == ConfigTyped(Factory, LanPorts) /\ Members(Factory) = LanPorts
<1>1. IsConfig(Factory)
  BY DEF IsConfig, Factory, Packages
<1>2. Members(Factory) = LanPorts
  <2>1. LanDevice # Section("lan") /\ LanDevice # Section("wan")
    BY DEF LanDevice, Section, Named
  <2>2. /\ LanDevice \in DOMAIN Factory["network"]
        /\ Factory["network"][LanDevice] = [ports |-> LanPorts]
    BY <2>1 DEF Factory
  <2> QED
    BY <2>2 DEF Members, Option, Has
<1> QED
  BY <1>1, <1>2 DEF ConfigTyped

LEMMA FirstBootTyped == ConfigTyped(FirstBoot, LanPorts)
<1> DEFINE net == WithOptions(Factory, "network", SetupNet, [proto |-> "static"])
           dhcp == WithOptions(net, "dhcp", SetupNet, [interface |-> "ommsetup"])
           wifi == WithOptions(dhcp, "wireless", SetupWifi, [mode |-> "ap"])
<1>n. SetupNet # LanDevice /\ SetupWifi # LanDevice /\ RadioSection(SetupRadio) # LanDevice
  BY Names DEF SetupNet, SetupWifi
<1>1. ConfigTyped(net, LanPorts)
  BY <1>n, FactoryTyped, StagedTyped DEF Packages
<1> HIDE DEF net
<1>2. ConfigTyped(dhcp, LanPorts)
  BY <1>n, <1>1, StagedTyped DEF Packages
<1> HIDE DEF dhcp
<1>3. ConfigTyped(wifi, LanPorts)
  BY <1>n, <1>2, StagedTyped DEF Packages
<1> HIDE DEF wifi
<1> QED
  BY <1>n, <1>3, StagedTyped DEF Packages, FirstBoot, wifi, dhcp, net

LEMMA StandbyIsBoolean == \A d, r, resolved : MeshStandby(d, r, resolved) \in BOOLEAN
BY DEF MeshStandby

LEMMA TypeInit == Init => TypeInv
<1> SUFFICES ASSUME Init PROVE TypeInv
  OBVIOUS
<1>1. /\ staged = FirstBoot /\ committed = FirstBoot /\ running = FirstBoot
  BY DEF Init
<1>2. ConfigsTyped
  BY <1>1, FirstBootTyped DEF ConfigsTyped, ConfigTyped, Bridgeable
<1>3. TasksTyped
  <2>1. /\ prog = [t \in Tasks |-> <<>>] /\ read = [t \in Tasks |-> None]
        /\ job = [t \in Tasks |-> Idle] /\ past.torn = {}
    BY DEF Init
  <2>2. IsPast
    BY DEF Init, IsPast, IsHistory
  <2> QED
    BY <2>1, <2>2, GoodEmpty DEF TasksTyped
<1>4. RestTyped
  <2>1. standby \in BOOLEAN
    <3>1. \E resolved \in UplinkMayResolve(device, carrier) :
             standby = MeshStandby(device, role, resolved)
      BY DEF Init
    <3> QED
      BY <3>1, StandbyIsBoolean
  <2>2. /\ device \in Devices /\ role = "guest" /\ carrier \in Carriers
        /\ backhaul = None /\ uplinkActive = FALSE /\ jobs = 0 /\ faults = 0
    BY DEF Init
  <2>3. jobs \in 0..MaxJobs /\ faults \in 0..MaxFaults
    BY <2>2
  <2> QED
    BY <2>1, <2>2, <2>3, Zenon DEF RestTyped, Roles
<1> QED
  BY <1>2, <1>3, <1>4 DEF TypeInv

LEMMA StageTyped ==
  ASSUME TypeInv, device' = device, NEW new, Stage(new), ConfigTyped(new, Bridgeable)
  PROVE  ConfigsTyped'
BY DEF TypeInv, ConfigsTyped, ConfigTyped, Bridgeable, Stage

LEMMA ConfigsStay ==
  ASSUME TypeInv, device' = device, UNCHANGED config
  PROVE  ConfigsTyped'
BY DEF TypeInv, ConfigsTyped, ConfigTyped, Bridgeable, config

LEMMA RestStays ==
  ASSUME TypeInv, UNCHANGED <<daemon, results, bounds>>
  PROVE  RestTyped' /\ device' = device
BY DEF TypeInv, RestTyped, daemon, results, bounds

\* What the next call names, and that the rest of the program is good
LEMMA TheCallTyped ==
  ASSUME TypeInv, NEW t \in Tasks, prog[t] # <<>>
  PROVE  GoodCall(TheCall(t), Bridgeable) /\ Good(Tail(prog[t]), Bridgeable)
BY GoodHead DEF TypeInv, TasksTyped, TheCall

\* A step that goes on with the rest of the program, with no list in hand
LEMMA GoesOn ==
  ASSUME TypeInv, NEW t \in Tasks, prog[t] # <<>>, device' = device, UNCHANGED read,
         NEW rest, Good(rest, Bridgeable), Proceed(t, rest)
  PROVE  TasksTyped'
<1>1. /\ read' = [u \in Tasks |-> read'[u]]
      /\ \A u \in Tasks : read'[u] = None \/ read'[u] \subseteq Bridgeable
  BY DEF TypeInv, TasksTyped
<1> QED
  BY <1>1, ProceedTyped

LEMMA TypeSection ==
  ASSUME TypeInv, NEW t \in Tasks,
         SetSectionCall(t) \/ SetCall(t) \/ DeleteCall(t) \/ UniqueMAC(t)
  PROVE  TypeInv'
<1>1. /\ Proceed(t, Tail(prog[t])) /\ UNCHANGED <<daemon, results, bounds>>
      /\ UNCHANGED read /\ prog[t] # <<>>
      /\ TheCall(t).op \in {"section", "set", "delete", "unique_mac"}
  BY DEF SetSectionCall, SetCall, DeleteCall, UniqueMAC, Calls, TheCall
<1>2. RestTyped' /\ device' = device
  BY <1>1, RestStays
<1>3. /\ TheCall(t).pkg \in Packages /\ TheCall(t).sec # LanDevice
      /\ Good(Tail(prog[t]), Bridgeable)
  BY <1>1, TheCallTyped DEF GoodCall
<1>4. TasksTyped'
  BY <1>1, <1>2, <1>3, GoesOn
<1> DEFINE c == TheCall(t)
<1>5. ConfigTyped(staged, Bridgeable)
  BY DEF TypeInv, ConfigsTyped
<1>6. /\ ConfigTyped(WithOptions(staged, c.pkg, c.sec, c.arg), Bridgeable)
      /\ ConfigTyped(WithoutSection(staged, c.pkg, c.sec), Bridgeable)
  BY <1>3, <1>5, StagedTyped
<1>7. \/ Stage(WithOptions(staged, c.pkg, c.sec, c.arg))
      \/ Stage(WithoutSection(staged, c.pkg, c.sec)) \/ UNCHANGED config
  BY DEF SetSectionCall, SetCall, DeleteCall, UniqueMAC
<1> HIDE DEF c
<1>8. ConfigsTyped'
  BY <1>2, <1>6, <1>7, StageTyped, ConfigsStay
<1> QED
  BY <1>2, <1>4, <1>8 DEF TypeInv

LEMMA TypeLists ==
  ASSUME TypeInv, NEW t \in Tasks, GetList(t) \/ SetList(t)
  PROVE  TypeInv'
<1>1. /\ UNCHANGED <<daemon, results, bounds>> /\ prog[t] # <<>>
      /\ TheCall(t).op \in {"add_item", "del_item"}
  BY DEF GetList, SetList, EditsList, Calls, TheCall
<1>2. RestTyped' /\ device' = device /\ Bridgeable' = Bridgeable
  BY <1>1, RestStays DEF Bridgeable
<1>3. TheCall(t).arg.item \in Bridgeable /\ Good(Tail(prog[t]), Bridgeable)
  BY <1>1, TheCallTyped DEF GoodCall
<1>4. CASE GetList(t)
  <2>1. UNCHANGED config /\ prog' = prog /\ job' = job /\ past' = past
    BY <1>4 DEF GetList
  <2>2. Members(staged) \subseteq Bridgeable
    BY DEF TypeInv, ConfigsTyped, ConfigTyped
  <2>3. /\ read' = [u \in Tasks |-> read'[u]]
        /\ \A u \in Tasks : read'[u] = None \/ read'[u] \subseteq Bridgeable
    BY <1>4, <2>2 DEF GetList, TypeInv, TasksTyped
  <2>4. TasksTyped'
    BY <1>2, <2>1, <2>3 DEF TypeInv, TasksTyped, IsPast
  <2> QED
    BY <1>2, <2>1, <2>4, ConfigsStay DEF TypeInv
<1>5. CASE SetList(t)
  <2> DEFINE value == {TheCall(t).arg.item}
             list == IF TheCall(t).op = "add_item"
                     THEN read[t] \cup value ELSE read[t] \ value
  <2>1. /\ read[t] # None /\ read' = [read EXCEPT ![t] = None]
        /\ Proceed(t, Tail(prog[t]))
        /\ UNCHANGED config \/ Stage(WithMembers(staged, list))
    BY <1>5 DEF SetList
  <2>2. list \subseteq Bridgeable
    BY <1>3, <2>1 DEF TypeInv, TasksTyped
  <2> HIDE DEF list
  <2>3. ConfigTyped(WithMembers(staged, list), Bridgeable)
    BY <2>2, StagedTyped DEF TypeInv, ConfigsTyped
  <2>4. ConfigsTyped'
    BY <1>2, <2>1, <2>3, StageTyped, ConfigsStay
  <2>5. /\ read' = [u \in Tasks |-> read'[u]]
        /\ \A u \in Tasks : read'[u] = None \/ read'[u] \subseteq Bridgeable
    BY <2>1 DEF TypeInv, TasksTyped
  <2>6. TasksTyped'
    BY <1>1, <1>2, <1>3, <2>1, <2>5, ProceedTyped
  <2> QED
    BY <1>2, <2>4, <2>6 DEF TypeInv
<1> QED
  BY <1>4, <1>5

LEMMA TypeMoves ==
  ASSUME TypeInv, NEW t \in Tasks, CommitCall(t) \/ ReloadCall(t)
  PROVE  TypeInv'
<1>1. /\ Proceed(t, Tail(prog[t])) /\ UNCHANGED <<daemon, results, bounds>>
      /\ UNCHANGED read /\ prog[t] # <<>>
      /\ TheCall(t).op \in {"commit", "reload"}
  BY DEF CommitCall, ReloadCall, Calls, TheCall
<1>2. RestTyped' /\ device' = device /\ Bridgeable' = Bridgeable
  BY <1>1, RestStays DEF Bridgeable
<1>3. TheCall(t).pkg \in Packages /\ Good(Tail(prog[t]), Bridgeable)
  BY <1>1, TheCallTyped DEF GoodCall
<1>4. TasksTyped'
  BY <1>1, <1>2, <1>3, GoesOn
<1>5. ConfigsTyped'
  <2>1. /\ ConfigTyped([committed EXCEPT ![TheCall(t).pkg] = staged[TheCall(t).pkg]],
                       Bridgeable)
        /\ ConfigTyped([running EXCEPT ![TheCall(t).pkg] = committed[TheCall(t).pkg]],
                       Bridgeable)
    BY <1>3, PackageTyped DEF TypeInv, ConfigsTyped
  <2> QED
    BY <1>2, <2>1 DEF CommitCall, ReloadCall, TypeInv, ConfigsTyped, ConfigTyped
<1> QED
  BY <1>2, <1>4, <1>5 DEF TypeInv

\* The deletes that a prune decides on
LEMMA StaleAreGood ==
  ASSUME NEW stale, stale \subseteq SecondaryAPs, NEW D
  PROVE  IsFiniteSet(stale) /\ Good(Deletes(stale), D)
<1> DEFINE f == [i \in DOMAIN Radios |-> SecondaryAP(BandOf[Radios[i]])]
<1>1. IsFiniteSet(DOMAIN f)
  <2>1. DOMAIN Radios = 1 .. Len(Radios) /\ Len(Radios) \in Nat
    OBVIOUS
  <2> QED
    BY <2>1, FS_Interval
<1>2. f = [i \in DOMAIN f |-> f[i]] /\ SecondaryAPs = {f[i] : i \in DOMAIN f}
  BY DEF SecondaryAPs
<1> HIDE DEF f
<1>3. IsFiniteSet(SecondaryAPs)
  BY <1>1, <1>2, FiniteImage
<1>4. IsFiniteSet(stale)
  BY <1>3, FS_Subset
<1> DEFINE body == [s \in stale |-> Delete("wireless", s)]
<1>5. \A x \in DOMAIN body : Good(body[x], D) /\ Len(body[x]) = 1
  BY GoodCalls, Names DEF SecondaryAPs, Packages
<1>6. IsFiniteSet(DOMAIN body)
  BY <1>4
<1> HIDE DEF body
<1>7. Good(ForEach(1, body), D)
  BY <1>5, <1>6, GoodForEach
<1> QED
  BY <1>4, <1>7 DEF body, Deletes

LEMMA WiredFacts ==
  ASSUME TypeInv
  PROVE  IsFiniteSet(device.wired) /\ device.wired \subseteq Bridgeable /\ Iface \in Bridgeable
BY DEF TypeInv, RestTyped, Bridgeable

LEMMA TypeVerdicts ==
  ASSUME TypeInv, NEW t \in Tasks,
         PruneStaleSecondaryAPs(t) \/ BatmanUp(t) \/ VerifyBackhaul(t)
  PROVE  TypeInv'
<1>1. /\ UNCHANGED <<daemon, results, bounds>> /\ UNCHANGED config
      /\ UNCHANGED read /\ prog[t] # <<>>
  BY DEF PruneStaleSecondaryAPs, BatmanUp, VerifyBackhaul, Calls
<1>2. RestTyped' /\ device' = device
  BY <1>1, RestStays
<1>3. Good(Tail(prog[t]), Bridgeable)
  BY <1>1, TheCallTyped
<1>4. PICK rest : Proceed(t, rest) /\ Good(rest, Bridgeable)
  <2>1. CASE PruneStaleSecondaryAPs(t)
    <3>1. Proceed(t, Deletes(Stale(t)) \o Tail(prog[t]))
      BY <2>1 DEF PruneStaleSecondaryAPs
    <3>2. Stale(t) \subseteq SecondaryAPs
      BY DEF Stale
    <3>3. Good(Deletes(Stale(t)), Bridgeable)
      BY <3>2, StaleAreGood
    <3>4. Good(Deletes(Stale(t)) \o Tail(prog[t]), Bridgeable)
      BY <1>3, <3>3, GoodConcat
    <3> QED
      BY <3>1, <3>4
  <2>2. CASE BatmanUp(t)
    <3>1. Proceed(t, Tail(prog[t])) \/ Proceed(t, BatmanFallback(device) \o Tail(prog[t]))
      BY <2>2 DEF BatmanUp
    <3>2. Good(BatmanFallback(device), Bridgeable)
      BY WiredFacts, GoodFallback
    <3>3. Good(BatmanFallback(device) \o Tail(prog[t]), Bridgeable)
      BY <1>3, <3>2, GoodConcat
    <3> QED
      BY <1>3, <3>1, <3>3
  <2>3. CASE VerifyBackhaul(t)
    <3>1. PICK verdict \in {SetBackhaulState("multi_ap"), SetBackhaulState("80211s"),
                            Degrade \o SetBackhaulState("degraded")} :
             Proceed(t, verdict \o Tail(prog[t]))
      BY <2>3 DEF VerifyBackhaul
    <3>2. Good(verdict, Bridgeable)
      BY GoodVerdicts, GoodConcat
    <3>3. Good(verdict \o Tail(prog[t]), Bridgeable)
      BY <1>3, <3>2, GoodConcat
    <3> QED
      BY <3>1, <3>3
  <2> QED
    BY <2>1, <2>2, <2>3
<1>5. TasksTyped'
  BY <1>1, <1>2, <1>4, GoesOn
<1> QED
  BY <1>1, <1>2, <1>5, ConfigsStay DEF TypeInv

LEMMA TypeRecords ==
  ASSUME TypeInv, NEW t \in Tasks, RecordBackhaul(t) \/ SetUplinkActive(t)
  PROVE  TypeInv'
<1>1. /\ UNCHANGED daemon /\ UNCHANGED bounds /\ UNCHANGED config
      /\ UNCHANGED read /\ prog[t] # <<>> /\ Proceed(t, Tail(prog[t]))
  BY DEF RecordBackhaul, SetUplinkActive, Calls
<1>2. GoodCall(TheCall(t), Bridgeable) /\ Good(Tail(prog[t]), Bridgeable)
  BY <1>1, TheCallTyped
<1>3. /\ backhaul' \in {None, "80211s", "multi_ap", "degraded"}
      /\ uplinkActive' \in BOOLEAN
  BY <1>2 DEF RecordBackhaul, SetUplinkActive, Calls, GoodCall, TheCall, TypeInv, RestTyped
<1>4. RestTyped' /\ device' = device
  BY <1>1, <1>3 DEF TypeInv, RestTyped, daemon, bounds
<1>5. TasksTyped'
  BY <1>1, <1>2, <1>4, GoesOn
<1> QED
  BY <1>1, <1>4, <1>5, ConfigsStay DEF TypeInv

\* A failed call is left out, or ends the job.
FailsTolerably(t) ==
  /\ MovedOn(t, Tail(prog[t])) /\ past'.torn = Dirty(staged', committed', running')
  /\ TheCall(t).op = "reload" /\ UNCHANGED config /\ UNCHANGED read

LEMMA FailsHow ==
  ASSUME TypeInv, NEW t \in Tasks, CallFails(t), ~GiveUp(t)
  PROVE  FailsTolerably(t)
<1>1. /\ prog' = [prog EXCEPT ![t] = Tail(@)]
      /\ job' = IF Tail(prog[t]) = <<>> THEN [job EXCEPT ![t] = Idle] ELSE job
      /\ past' = [(IF Tail(prog[t]) = <<>> THEN Done(t) ELSE past) EXCEPT
                    !.torn = Dirty(staged, committed, running)]
      /\ UNCHANGED read /\ TheCall(t).op = "reload" /\ UNCHANGED config
  BY DEF CallFails
<1> DEFINE rest == Tail(prog[t])
           torn == Dirty(staged, committed, running)
<1>2. prog' = [prog EXCEPT ![t] = rest]
  BY <1>1 DEF TypeInv, TasksTyped
<1>3. Dirty(staged', committed', running') = torn
  BY <1>1 DEF config
<1> HIDE DEF rest, torn
<1>4. MovedOn(t, rest) /\ past'.torn = torn
  BY <1>1, <1>2, TypedShapes, MovedOnIs DEF rest, torn
<1> QED
  BY <1>1, <1>3, <1>4 DEF FailsTolerably, rest

LEMMA TypeFails ==
  ASSUME TypeInv, NEW t \in Tasks, CallFails(t) \/ NotFound(t)
  PROVE  TypeInv'
<1>1. /\ UNCHANGED daemon /\ UNCHANGED results /\ prog[t] # <<>>
      /\ jobs' = jobs /\ faults' \in 0..MaxFaults
  <2>1. UNCHANGED <<daemon, results>> /\ prog[t] # <<>>
    BY DEF CallFails, NotFound, Calls
  <2>2. jobs' = jobs /\ faults' \in 0..MaxFaults
    BY DEF CallFails, NotFound, bounds, TypeInv, RestTyped
  <2> QED
    BY <2>1, <2>2
<1>2. RestTyped' /\ device' = device
  BY <1>1 DEF TypeInv, RestTyped, daemon, results
<1>3. ConfigsTyped'
  <2>1. CASE UNCHANGED config
    BY <1>2, <2>1, ConfigsStay
  <2>2. CASE ~UNCHANGED config
    <3> DEFINE c == TheCall(t)
    <3>1. /\ c.op \in {"section", "unique_mac"}
          /\ Stage(WithOptions(staged, c.pkg, c.sec, <<>>))
      BY <2>2 DEF CallFails, NotFound
    <3>2. c.pkg \in Packages /\ c.sec # LanDevice
      BY <1>1, <3>1, TheCallTyped DEF GoodCall
    <3> HIDE DEF c
    <3>3. ConfigTyped(WithOptions(staged, c.pkg, c.sec, <<>>), Bridgeable)
      BY <3>2, StagedTyped DEF TypeInv, ConfigsTyped
    <3> QED
      BY <1>2, <3>1, <3>3, StageTyped
  <2> QED
    BY <2>1, <2>2
<1>4. TasksTyped'
  <2>1. CASE GiveUp(t)
    BY <1>2, <2>1, GiveUpTyped
  <2>2. CASE ~GiveUp(t)
    <3>1. NotFound(t) => GiveUp(t)
      BY DEF NotFound
    <3>2. FailsTolerably(t)
      BY <2>2, <3>1, FailsHow
    <3>3. Good(Tail(prog[t]), Bridgeable)
      BY <1>1, TheCallTyped
    <3>4. /\ read' = [u \in Tasks |-> read'[u]]
          /\ \A u \in Tasks : read'[u] = None \/ read'[u] \subseteq Bridgeable
      BY <3>2 DEF FailsTolerably, TypeInv, TasksTyped
    <3> QED
      BY <1>1, <1>2, <3>2, <3>3, <3>4, MoveTyped, DirtyPackages DEF FailsTolerably
  <2> QED
    BY <2>1, <2>2
<1> QED
  BY <1>2, <1>3, <1>4 DEF TypeInv

\* A task takes up a program.
LEMMA TakeUpTyped ==
  ASSUME TypeInv, NEW t \in Tasks, NEW program, NEW newJob,
         Good(program, Bridgeable), program # <<>>, newJob # Idle, device' = device,
         prog' = [prog EXCEPT ![t] = program], job' = [job EXCEPT ![t] = newJob],
         UNCHANGED read, UNCHANGED past
  PROVE  TasksTyped'
BY DEF TypeInv, TasksTyped, IsPast, Bridgeable

LEMMA TypeBegins ==
  ASSUME TypeInv, NEW t \in Authors, NEW kind, NEW arg, NEW program,
         Begin(t, kind, arg, program), kind # "idle", program # <<>>,
         Good(program, Bridgeable),
         device' = device, carrier' = carrier, standby' = standby, role' \in Roles,
         faults' \in 0..MaxFaults
  PROVE  TypeInv'
<1>1. /\ UNCHANGED config /\ UNCHANGED results /\ UNCHANGED read /\ UNCHANGED past
      /\ jobs' = jobs + 1 /\ jobs < MaxJobs
      /\ prog' = [prog EXCEPT ![t] = program]
      /\ job' = [job EXCEPT ![t] = [kind |-> kind, arg |-> arg]]
  BY DEF Begin
<1>2. RestTyped'
  BY <1>1 DEF TypeInv, RestTyped, results
<1>3. [kind |-> kind, arg |-> arg] # Idle /\ t \in Tasks
  BY DEF Idle, Tasks
<1>4. TasksTyped'
  BY <1>1, <1>3, TakeUpTyped
<1> QED
  BY <1>1, <1>2, <1>4, ConfigsStay DEF TypeInv

LEMMA ListedRadios == RadiosAreListed
BY DEF RadiosAreListed, ToSet

LEMMA FaultsBounded ==
  ASSUME TypeInv, AllIsRead \/ ReadFails
  PROVE  faults' \in 0..MaxFaults
BY DEF TypeInv, RestTyped, AllIsRead, ReadFails

\* An application is of a profile with the reads that failed.
LEMMA StartsApplication ==
  ASSUME NEW t, NEW p \in Profiles, StartProfile(t, p)
  PROVE  \E q \in Applied :
           /\ Resolvable(q)
           /\ Begin(t, "profile", q, ApplyProfile(q, device, standby))
           /\ AllIsRead \/ ReadFails
<1>1. PICK u \in SUBSET ReadsPassedOver(device) :
        /\ Begin(t, "profile", WithUnread(p, u),
                 ApplyProfile(WithUnread(p, u), device, standby))
        /\ IF u = {} THEN AllIsRead ELSE ReadFails
  BY DEF StartProfile, WithUnread
<1> DEFINE q == WithUnread(p, u)
<1>2. q \in Applied
  <2>1. ReadsPassedOver(device) \subseteq {"mesh", "aps"}
    BY DEF ReadsPassedOver
  <2>2. u \in SUBSET {"mesh", "aps"}
    BY <2>1
  <2>3. WithUnread(p, u) \in AppliedOf(p)
    BY <2>2 DEF AppliedOf
  <2> QED
    BY <2>3 DEF Applied
<1>3. q.ap = p.ap
  BY DEF WithUnread
<1>4. Resolvable(p)
  BY DEF StartProfile
<1> HIDE DEF q
<1>5. Resolvable(q)
  BY <1>3, <1>4, Zenon DEF Resolvable
<1> QED
  BY <1>1, <1>2, <1>5 DEF q

\* A posture is of a role that there is, with the uplink found or not.
LEMMA StartsPosture ==
  ASSUME TypeInv, NEW t, StartPosture(t)
  PROVE  \E r \in Roles, f \in BOOLEAN :
           /\ role' = r
           /\ Begin(t, "posture", [role |-> r, found |-> f], ApplyPosture(r, f))
           /\ AllIsRead \/ ReadFails
<1>1. role' \in Roles
  BY DEF StartPosture, TypeInv, RestTyped, Roles
<1>2. device.explicit \in BOOLEAN
  BY DEF TypeInv, RestTyped
<1> QED
  BY <1>1, <1>2 DEF StartPosture

LEMMA TypeStarts ==
  ASSUME TypeInv, NEW t \in Authors,
         StartPosture(t) \/ StartSetup(t) \/ StartDisable(t)
           \/ \E p \in Profiles : StartProfile(t, p)
  PROVE  TypeInv'
<1>1. CASE StartPosture(t)
  <2>1. PICK r \in Roles, f \in BOOLEAN :
          /\ role' = r
          /\ Begin(t, "posture", [role |-> r, found |-> f], ApplyPosture(r, f))
          /\ AllIsRead \/ ReadFails
    BY <1>1, StartsPosture
  <2>2. Good(ApplyPosture(r, f), Bridgeable) /\ ApplyPosture(r, f) # <<>>
    BY GoodPosture, PostureIsComplete, CompleteIsSome DEF Bridgeable
  <2>3. device' = device /\ carrier' = carrier /\ standby' = standby
    BY <1>1 DEF StartPosture
  <2>4. faults' \in 0..MaxFaults
    BY <2>1, FaultsBounded
  <2> QED
    BY <2>1, <2>2, <2>3, <2>4, TypeBegins
<1>2. CASE StartSetup(t)
  <2>1. /\ Good(EnableSetup, Bridgeable) /\ EnableSetup # <<>>
        /\ Good(EnableUplink, Bridgeable) /\ EnableUplink # <<>>
    BY GoodSetup, SetupIsComplete, CompleteIsSome
  <2>2. /\ Begin(t, "setup", None, EnableSetup) \/ Begin(t, "uplink", None, EnableUplink)
        /\ device' = device /\ carrier' = carrier /\ standby' = standby /\ role' \in Roles
        /\ faults' \in 0..MaxFaults
    BY <1>2 DEF StartSetup, daemon, TypeInv, RestTyped
  <2> QED
    BY <2>1, <2>2, TypeBegins
<1>3. CASE StartDisable(t)
  <2>1. Good(Disable(uplinkActive), Bridgeable) /\ Disable(uplinkActive) # <<>>
    BY GoodSetup, SetupIsComplete, CompleteIsSome
  <2>2. /\ Begin(t, "disable", None, Disable(uplinkActive))
        /\ device' = device /\ carrier' = carrier /\ standby' = standby /\ role' \in Roles
        /\ faults' \in 0..MaxFaults
    BY <1>3 DEF StartDisable, daemon, TypeInv, RestTyped
  <2> QED
    BY <2>1, <2>2, TypeBegins
<1>4. ASSUME NEW p \in Profiles, StartProfile(t, p)
      PROVE  TypeInv'
  <2>1. PICK q \in Applied :
          /\ Begin(t, "profile", q, ApplyProfile(q, device, standby))
          /\ AllIsRead \/ ReadFails
    BY <1>4, StartsApplication
  <2>2. /\ Good(ApplyProfile(q, device, standby), Bridgeable)
        /\ ApplyProfile(q, device, standby) # <<>>
    BY WiredFacts, ListedRadios, GoodProfile, ProfileIsComplete, CompleteIsSome
  <2>3. /\ device' = device /\ carrier' = carrier /\ standby' = standby /\ role' \in Roles
        /\ faults' \in 0..MaxFaults
    BY <1>4, <2>1, FaultsBounded DEF StartProfile, daemon, TypeInv, RestTyped
  <2> QED
    BY <2>1, <2>2, <2>3, TypeBegins
<1> QED
  BY <1>1, <1>2, <1>3, <1>4

LEMMA GoodSwitch == \A D, b : Good(SetMesh(b), D) /\ Complete(SetMesh(b))
<1> TAKE D, b
<1> DEFINE A == Set("wireless", MeshSection, [disabled |-> IF b THEN "0" ELSE "1"])
           B == Commit("wireless")
           S == {"wireless"}
<1>1. Good(A, D) /\ Good(B, D) /\ Good(Reload, D)
  BY GoodCalls, GoodReload, Names DEF Packages, MeshSection
<1>2. OnlyStages(A, S) /\ Commits(B, S)
  BY OnlyStagesCalls, SomeCommits
<1> HIDE DEF A, B, S
<1>3. Good(A \o B \o Reload, D) /\ Complete(A \o B \o Reload)
  BY <1>1, <1>2, GoodConcat, CompleteWith, OnlyStagesMany
<1> QED
  BY <1>3 DEF SetMesh, A, B

LEMMA TypeOthers ==
  ASSUME TypeInv, Tick \/ CarrierChanges \/ Restart \/ Reboot
  PROVE  TypeInv'
<1>1. CASE Tick
  <2>1. PICK reading \in {carrier, "unknown"} : Switch(reading)
    BY <1>1 DEF Tick
  <2> DEFINE on == Decide(reading, ObserveMesh) = "wireless"
             newJob == [kind |-> "switch", arg |-> None]
  <2>2. /\ prog' = [prog EXCEPT !["loop"] = SetMesh(on)]
        /\ job' = [job EXCEPT !["loop"] = newJob]
        /\ UNCHANGED <<config, daemon, results, bounds>>
        /\ UNCHANGED read /\ UNCHANGED past
    BY <2>1 DEF Switch
  <2>3. newJob # Idle /\ "loop" \in Tasks
    BY DEF Idle, Tasks
  <2> HIDE DEF on, newJob
  <2>4. UNCHANGED config /\ RestTyped' /\ device' = device
    BY <2>2, RestStays
  <2>5. TasksTyped'
    BY <2>2, <2>3, <2>4, GoodSwitch, CompleteIsSome, TakeUpTyped
  <2> QED
    BY <2>4, <2>5, ConfigsStay DEF TypeInv
<1>2. CASE CarrierChanges
  <2>1. /\ carrier' \in Carriers /\ UNCHANGED config /\ device' = device
        /\ role' = role /\ standby' = standby /\ UNCHANGED <<results, bounds>>
        /\ prog' = prog /\ read' = read /\ job' = job /\ past' = past
    BY <1>2 DEF CarrierChanges
  <2>2. RestTyped'
    BY <2>1 DEF TypeInv, RestTyped, results, bounds
  <2>3. TasksTyped'
    BY <2>1 DEF TypeInv, TasksTyped, IsPast, Bridgeable
  <2> QED
    BY <2>1, <2>2, <2>3, ConfigsStay DEF TypeInv
<1>3. CASE Restart \/ Reboot
  <2>1. DaemonStarts
    BY <1>3 DEF Restart, Reboot
  <2>2. Started
    BY <2>1, TypedShapes, DaemonStartsIs
  <2>3. /\ device' = device /\ role' = role /\ backhaul' = backhaul /\ jobs' = jobs
        /\ carrier' \in Carriers /\ standby' \in BOOLEAN
        /\ faults < MaxFaults /\ faults' = faults + 1
    <3>1. standby' \in BOOLEAN
      <4>1. \E resolved \in UplinkMayResolve(device, carrier') :
               standby' = MeshStandby(device, role, resolved)
        BY <2>1 DEF DaemonStarts
      <4> QED
        BY <4>1, StandbyIsBoolean
    <3>2. /\ device' = device /\ role' = role /\ backhaul' = backhaul /\ jobs' = jobs
          /\ carrier' \in Carriers /\ faults < MaxFaults /\ faults' = faults + 1
      BY <2>1 DEF DaemonStarts
    <3> QED
      BY <3>1, <3>2, Zenon
  <2>4. RestTyped'
    <3>1. uplinkActive' \in BOOLEAN
      BY <2>2 DEF Started
    <3>2. jobs' \in 0..MaxJobs /\ faults' \in 0..MaxFaults
      BY <2>3 DEF TypeInv, RestTyped
    <3> QED
      BY <2>3, <3>1, <3>2, Zenon DEF TypeInv, RestTyped
  <2>5. ConfigsTyped'
    <3>1. UNCHANGED config \/ (staged' = committed /\ running' = committed
                                 /\ committed' = committed)
      BY <1>3 DEF Restart, Reboot
    <3>2. CASE UNCHANGED config
      BY <2>3, <3>2, ConfigsStay
    <3> QED
      BY <2>3, <3>1, <3>2 DEF TypeInv, ConfigsTyped, ConfigTyped, Bridgeable
  <2>6. TasksTyped'
    <3>1. /\ prog' = [t \in Tasks |-> <<>>] /\ read' = [t \in Tasks |-> None]
          /\ job' = [t \in Tasks |-> Idle] /\ IsPast'
          /\ past'.torn \subseteq Packages
      BY <2>2, DirtyPackages DEF Started
    <3> QED
      BY <3>1, GoodEmpty DEF TasksTyped
  <2> QED
    BY <2>4, <2>5, <2>6 DEF TypeInv
<1> QED
  BY <1>1, <1>2, <1>3

LEMMA TypeNext == TypeInv /\ [Next]_vars => TypeInv'
<1> SUFFICES ASSUME TypeInv, [Next]_vars PROVE TypeInv'
  OBVIOUS
<1>1. ASSUME NEW t \in Tasks, CallStep(t)
      PROVE  TypeInv'
  BY <1>1, TypeSection, TypeLists, TypeMoves, TypeVerdicts, TypeRecords, TypeFails
     DEF CallStep
<1>2. CASE UNCHANGED vars
  <2>1. /\ UNCHANGED config /\ UNCHANGED <<daemon, results, bounds>>
        /\ prog' = prog /\ read' = read /\ job' = job /\ past' = past
    BY <1>2 DEF vars, config, daemon, results, bounds
  <2>2. RestTyped' /\ device' = device
    BY <2>1, RestStays
  <2>3. TasksTyped'
    BY <2>1, <2>2 DEF TypeInv, TasksTyped, IsPast, Bridgeable
  <2> QED
    BY <2>1, <2>2, <2>3, ConfigsStay DEF TypeInv
<1> QED
  BY <1>1, <1>2, TypeFails, TypeStarts, TypeOthers DEF Next

\* Type correctness: whatever was interrupted, a program is left exactly where a
\* job is, and no list edit, of however many tasks at once, puts a device into
\* the LAN bridge that is none of its ports, the uplink or bat0.
THEOREM TypeCorrect == Spec => []TypeOK
<1>1. Init => TypeInv
  BY TypeInit
<1>2. TypeInv /\ [Next]_vars => TypeInv'
  BY TypeNext
<1> QED
  BY <1>1, <1>2, TypedIsOK, PTL DEF Spec

-----------------------------------------------------------------------------
(* What a call does to the configuration and to the task's program *)

\* X comes before what is left of t's program.
Inserts(t, X) ==
  LET c == TheCall(t)
  IN  \/ X = <<>> /\ c.op \notin {"prune", "mesh_up"}
      \/ c.op = "prune" /\ X = Deletes(Stale(t))
      \/ c.op = "batman_up" /\ X = BatmanFallback(device)
      \/ c.op = "mesh_up" /\ ~c.arg.mesh /\ X = SetBackhaulState("multi_ap")
      \/ c.op = "mesh_up" /\ c.arg.mesh /\ X = SetBackhaulState("80211s")
      \/ c.op = "mesh_up" /\ c.arg.mesh /\ ~standby
           /\ X = Degrade \o SetBackhaulState("degraded")

\* The task's call has succeeded, and the task goes on.
Moves(t) ==
  /\ CallStep(t) /\ ~GetList(t) /\ ~NotFound(t)

LEMMA NothingInserted ==
  ASSUME NEW P, IsProgram(P)
  PROVE  <<>> \o P = P
<1>1. P \in Seq(ToSet(P))
  BY DEF IsProgram
<1> QED
  BY <1>1, ConcatEmptySeq

LEMMA MovesOn ==
  ASSUME TypeInv, NEW t \in Tasks, Moves(t)
  PROVE  /\ prog[t] # <<>>
         /\ \E X : Inserts(t, X) /\ Good(X, Bridgeable) /\ Proceed(t, X \o Tail(prog[t]))
<1>1. prog[t] # <<>>
  BY DEF Moves, CallStep, SetSectionCall, SetCall, DeleteCall, SetList, EditsList,
         CommitCall, ReloadCall, UniqueMAC, PruneStaleSecondaryAPs, BatmanUp,
         VerifyBackhaul, RecordBackhaul, SetUplinkActive, Calls
<1>2. IsProgram(Tail(prog[t]))
  BY <1>1, TheCallTyped DEF Good
<1>3. <<>> \o Tail(prog[t]) = Tail(prog[t])
  BY <1>2, NothingInserted
<1>4. CASE SetSectionCall(t) \/ SetCall(t) \/ DeleteCall(t) \/ SetList(t) \/ CommitCall(t)
             \/ ReloadCall(t) \/ UniqueMAC(t) \/ RecordBackhaul(t) \/ SetUplinkActive(t)
  <2>1. Proceed(t, Tail(prog[t])) /\ TheCall(t).op \notin {"prune", "mesh_up"}
    BY <1>4 DEF SetSectionCall, SetCall, DeleteCall, SetList, EditsList, CommitCall,
                ReloadCall, UniqueMAC, RecordBackhaul, SetUplinkActive, Calls, TheCall
  <2>2. Inserts(t, <<>>)
    BY <2>1 DEF Inserts
  <2> QED
    BY <1>1, <1>3, <2>1, <2>2, GoodEmpty
<1>5. CASE PruneStaleSecondaryAPs(t)
  <2>1. /\ Proceed(t, Deletes(Stale(t)) \o Tail(prog[t])) /\ TheCall(t).op = "prune"
        /\ Stale(t) \subseteq SecondaryAPs
    BY <1>5 DEF PruneStaleSecondaryAPs, Calls, TheCall, Stale
  <2>2. Inserts(t, Deletes(Stale(t)))
    BY <2>1 DEF Inserts
  <2> QED
    BY <1>1, <2>1, <2>2, StaleAreGood
<1>6. CASE BatmanUp(t)
  <2>1. TheCall(t).op = "batman_up"
    BY <1>6 DEF BatmanUp, Calls, TheCall
  <2>2. Inserts(t, <<>>) /\ Inserts(t, BatmanFallback(device))
    BY <2>1 DEF Inserts
  <2>3. Good(BatmanFallback(device), Bridgeable)
    BY WiredFacts, GoodFallback
  <2>4. Proceed(t, Tail(prog[t])) \/ Proceed(t, BatmanFallback(device) \o Tail(prog[t]))
    BY <1>6 DEF BatmanUp
  <2> QED
    BY <1>1, <1>3, <2>2, <2>3, <2>4, GoodEmpty
<1>7. CASE VerifyBackhaul(t)
  <2> DEFINE up == SetBackhaulState("80211s")
             none == SetBackhaulState("multi_ap")
             down == Degrade \o SetBackhaulState("degraded")
             c == TheCall(t)
  <2>1. /\ c.op = "mesh_up"
        /\ \/ ~c.arg.mesh /\ Proceed(t, none \o Tail(prog[t]))
           \/ c.arg.mesh /\ Proceed(t, up \o Tail(prog[t]))
           \/ c.arg.mesh /\ ~standby /\ Proceed(t, down \o Tail(prog[t]))
    BY <1>7 DEF VerifyBackhaul, Calls, TheCall
  <2>2. Good(up, Bridgeable) /\ Good(none, Bridgeable) /\ Good(down, Bridgeable)
    BY GoodVerdicts, GoodConcat
  <2>3. /\ ~c.arg.mesh => Inserts(t, none)
        /\ c.arg.mesh => Inserts(t, up)
        /\ c.arg.mesh /\ ~standby => Inserts(t, down)
    BY <2>1 DEF Inserts
  <2> HIDE DEF up, none, down, c
  <2> QED
    BY <1>1, <2>1, <2>2, <2>3
<1> QED
  BY <1>4, <1>5, <1>6, <1>7 DEF Moves, CallStep

\* What a call that succeeds does to each package
PackageSteps(c) ==
  \A p \in Packages :
    /\ staged'[p] = staged[p] \/ Stages(c, p)
    /\ committed'[p] = IF c.op = "commit" /\ c.pkg = p THEN staged'[p] ELSE committed[p]
    /\ running'[p] = IF c.op = "reload" /\ c.pkg = p THEN committed'[p] ELSE running[p]

LEMMA MovesPackages ==
  ASSUME TypeInv, NEW t \in Tasks, Moves(t)
  PROVE  PackageSteps(TheCall(t))
<1> DEFINE c == TheCall(t)
<1>0. prog[t] # <<>> /\ GoodCall(c, Bridgeable)
  BY MovesOn, TheCallTyped
<1>t. IsConfig(staged) /\ IsConfig(committed) /\ IsConfig(running)
  BY TypedShapes DEF Shapes
<1>1. CASE SetSectionCall(t) \/ SetCall(t) \/ DeleteCall(t) \/ UniqueMAC(t)
  <2>1. /\ c.op \in {"section", "set", "delete", "unique_mac"}
        /\ committed' = committed /\ running' = running
        /\ \/ staged' = WithOptions(staged, c.pkg, c.sec, c.arg)
           \/ staged' = WithoutSection(staged, c.pkg, c.sec) \/ staged' = staged
    BY <1>1 DEF SetSectionCall, SetCall, DeleteCall, UniqueMAC, Calls, TheCall, Stage,
                config
  <2>2. c.pkg \in Packages
    BY <1>0, <2>1 DEF GoodCall
  <2> HIDE DEF c
  <2>3. /\ SameBut(staged, WithOptions(staged, c.pkg, c.sec, c.arg), c.pkg, c.sec)
        /\ SameBut(staged, WithoutSection(staged, c.pkg, c.sec), c.pkg, c.sec)
    BY <1>t, <2>2, WithOptionsIs, WithoutSectionIs
  <2>4. \A p \in Packages \ {c.pkg} : staged'[p] = staged[p]
    BY <2>1, <2>3 DEF SameBut
  <2>5. PackageSteps(c)
    BY <2>1, <2>4 DEF PackageSteps, Stages, Edits
  <2> QED
    BY <2>5 DEF c
<1>2. CASE SetList(t)
  <2>1. PICK list : /\ c.op \in {"add_item", "del_item"}
                    /\ committed' = committed /\ running' = running
                    /\ staged' = WithMembers(staged, list) \/ staged' = staged
    BY <1>2 DEF SetList, EditsList, Calls, TheCall, Stage, config
  <2>2. c.pkg = "network"
    BY <1>0, <2>1 DEF GoodCall
  <2> HIDE DEF c
  <2>3. SameBut(staged, WithMembers(staged, list), "network", LanDevice)
    BY <1>t, WithMembersIs
  <2>4. \A p \in Packages \ {"network"} : staged'[p] = staged[p]
    BY <2>1, <2>3 DEF SameBut
  <2>5. PackageSteps(c)
    BY <2>1, <2>2, <2>4 DEF PackageSteps, Stages, Edits
  <2> QED
    BY <2>5 DEF c
<1>3. CASE CommitCall(t) \/ ReloadCall(t)
  <2>1. \/ /\ c.op = "commit" /\ staged' = staged /\ running' = running
           /\ committed' = [committed EXCEPT ![c.pkg] = staged[c.pkg]]
        \/ /\ c.op = "reload" /\ staged' = staged /\ committed' = committed
           /\ running' = [running EXCEPT ![c.pkg] = committed[c.pkg]]
    BY <1>3 DEF CommitCall, ReloadCall, Calls, TheCall
  <2>2. c.pkg \in Packages
    BY <1>0, <2>1 DEF GoodCall
  <2> HIDE DEF c
  <2>3. PackageSteps(c)
    BY <1>t, <2>1, <2>2 DEF PackageSteps, IsConfig
  <2> QED
    BY <2>3 DEF c
<1>4. CASE PruneStaleSecondaryAPs(t) \/ BatmanUp(t) \/ VerifyBackhaul(t)
             \/ RecordBackhaul(t) \/ SetUplinkActive(t)
  <2>1. /\ c.op \in {"prune", "batman_up", "mesh_up", "backhaul_state", "uplink_active"}
        /\ staged' = staged /\ committed' = committed /\ running' = running
    BY <1>4 DEF PruneStaleSecondaryAPs, BatmanUp, VerifyBackhaul, RecordBackhaul,
                SetUplinkActive, Calls, TheCall, config
  <2> HIDE DEF c
  <2>2. PackageSteps(c)
    BY <2>1 DEF PackageSteps
  <2> QED
    BY <2>2 DEF c
<1> QED
  BY <1>1, <1>2, <1>3, <1>4 DEF Moves, CallStep

-----------------------------------------------------------------------------
(* Nothing is left staged *)

\* Every task that staged something has still to commit it, and whoever
\* committed something has still to have it read, unless a job ended early.
ProgramsClosed == \A t \in Tasks : Closed(prog[t])

WillDo(k) == \E t \in Tasks : Net(prog[t], k) = "off"

NothingForgotten ==
  \A p \in Packages :
    /\ staged[p] # committed[p] => p \in past.torn \/ WillDo(Uncommitted(p))
    /\ committed[p] # running[p] => p \in past.torn \/ WillDo(Unread(p))

LeftInv == ProgramsClosed /\ NothingForgotten

LEMMA LeftIsNothing == TypeInv /\ LeftInv => NothingLeftStaged
<1> SUFFICES ASSUME TypeInv, LeftInv, AtRest, NEW p \in Packages, p \notin past.torn
             PROVE  staged[p] = committed[p] /\ committed[p] = running[p]
  BY DEF NothingLeftStaged, Dirty
<1>1. \A k : ~WillDo(k)
  BY NetEmpty DEF AtRest, WillDo
<1> QED
  BY <1>1 DEF LeftInv, NothingForgotten

\* What is inserted stages nothing that it does not commit, but for the deletes
\* of a prune, after which the program commits.
LEMMA InsertsClosed ==
  ASSUME TypeInv, NEW t \in Tasks, prog[t] # <<>>, Closed(prog[t]),
         NEW X, Inserts(t, X), Good(X, Bridgeable)
  PROVE  /\ Closed(X \o Tail(prog[t]))
         /\ \A p \in Packages : \A k \in {Uncommitted(p), Unread(p)} :
              Net(Tail(prog[t]), k) = "off" => Net(X \o Tail(prog[t]), k) = "off"
<1> DEFINE T == Tail(prog[t])
<1>1. Closed(T) /\ IsProgram(T) /\ IsProgram(X)
  BY ClosedTail DEF Closed, Good
<1>2. \A k : Net(X \o T, k) = Later(Net(X, k), Net(T, k))
  BY <1>1, NetConcat
<1>3. IsProgram(X \o T)
  BY <1>1, Concat
<1>4. CASE Closed(X)
  BY <1>1, <1>2, <1>4, ClosedParts DEF Later
<1>5. CASE ~Closed(X)
  <2>1. TheCall(t).op = "prune" /\ X = Deletes(Stale(t))
    <3>1. Closed(BatmanFallback(device)) /\ Closed(Degrade)
      BY WiredFacts, VerdictsAreComplete, ClosedParts
    <3>2. \A state : Closed(SetBackhaulState(state))
      BY VerdictsAreComplete, ClosedParts
    <3>3. Closed(Degrade \o SetBackhaulState("degraded")) /\ Closed(<<>>)
      BY <3>1, <3>2, ClosedParts
    <3> QED
      BY <1>5, <3>1, <3>2, <3>3 DEF Inserts
  <2>2. OnlyStages(X, {"wireless"})
    <3> DEFINE body == [s \in Stale(t) |-> Delete("wireless", s)]
    <3>1. \A s : OnlyStages(Delete("wireless", s), {"wireless"})
      BY OnlyStagesCalls
    <3>2. \A s : Len(Delete("wireless", s)) = 1
      BY DEF Delete, Call
    <3>3. IsFiniteSet(Stale(t))
      BY StaleAreGood DEF Stale
    <3>4. IsFiniteSet(DOMAIN body) /\ \A x \in DOMAIN body :
             OnlyStages(body[x], {"wireless"}) /\ Len(body[x]) = 1
      BY <3>1, <3>2, <3>3
    <3> HIDE DEF body
    <3>5. OnlyStages(ForEach(1, body), {"wireless"})
      BY <3>4, OnlyStagesEach
    <3> QED
      BY <2>1, <3>5 DEF Deletes, body
  <2>3. /\ Net(X, Uncommitted("network")) = "none" /\ Net(X, Uncommitted("dhcp")) = "none"
        /\ \A p : Net(X, Unread(p)) = "none"
    BY <2>2, OnlyStagesNet DEF Does
  <2>4. TheCall(t).pkg = "wireless" /\ Stages(TheCall(t), "wireless")
    BY <2>1, TheCallTyped DEF GoodCall, Stages, Edits
  <2>5. Net(T, Uncommitted("wireless")) = "off"
    BY <2>4, ClosedTail DEF TheCall, Packages
  <2> HIDE DEF T
  <2> QED
    BY <1>1, <1>2, <1>3, <2>3, <2>5 DEF Closed, Later, Packages, T
<1> QED
  BY <1>4, <1>5

LEMMA LeftMoves ==
  ASSUME TypeInv, LeftInv, NEW t \in Tasks, Moves(t)
  PROVE  LeftInv'
<1>1. PICK X : Inserts(t, X) /\ Good(X, Bridgeable) /\ Proceed(t, X \o Tail(prog[t]))
  BY MovesOn
<1> DEFINE rest == X \o Tail(prog[t])
           c == TheCall(t)
<1>2. /\ prog'[t] = rest /\ \A u \in Tasks \ {t} : prog'[u] = prog[u]
      /\ past'.torn = past.torn \cap Dirty(staged', committed', running')
  BY <1>1, TypedShapes, ProceedIs DEF Proceeded, MovedOn
<1>3. prog[t] # <<>> /\ Closed(prog[t])
  BY MovesOn DEF LeftInv, ProgramsClosed
<1>4. /\ Closed(rest)
      /\ \A p \in Packages : \A k \in {Uncommitted(p), Unread(p)} :
           Net(Tail(prog[t]), k) = "off" => Net(rest, k) = "off"
  BY <1>1, <1>3, InsertsClosed
<1>5. PackageSteps(c)
  BY MovesPackages
<1>6. c = Head(prog[t])
  BY DEF TheCall
<1> HIDE DEF rest, c
<1>7. ProgramsClosed'
  BY <1>2, <1>4 DEF LeftInv, ProgramsClosed
<1>8. ASSUME NEW p \in Packages
      PROVE  /\ staged'[p] # committed'[p] => p \in past'.torn \/ WillDo(Uncommitted(p))'
             /\ committed'[p] # running'[p] => p \in past'.torn \/ WillDo(Unread(p))'
  <2> DEFINE K == Uncommitted(p)
             R == Unread(p)
  <2>0. \A k \in {K, R} : Net(rest, k) = "off" => WillDo(k)'
    BY <1>2 DEF WillDo
  <2>a. \A k \in {K, R} : WillDo(k) /\ ~WillDo(k)' => Net(prog[t], k) = "off"
    BY <1>2 DEF WillDo
  <2>b. \A k \in {K, R} : Net(Tail(prog[t]), k) = "off" => WillDo(k)'
    BY <1>4, <2>0
  <2> HIDE DEF K, R
  <2>1. ASSUME staged'[p] # committed'[p], p \notin past'.torn
        PROVE  WillDo(K)'
    <3>1. ~(c.op = "commit" /\ c.pkg = p) /\ committed'[p] = committed[p]
      BY <1>5, <2>1 DEF PackageSteps
    <3>2. p \notin past.torn
      BY <1>2, <2>1 DEF Dirty
    <3>3. CASE Stages(c, p)
      BY <1>3, <1>6, <2>b, <3>3, ClosedTail DEF K
    <3>4. CASE ~Stages(c, p)
      <4>1. WillDo(K)
        BY <1>5, <2>1, <3>1, <3>2, <3>4 DEF PackageSteps, LeftInv, NothingForgotten, K
      <4>2. Net(prog[t], K) = "off" => Net(Tail(prog[t]), K) = "off"
        BY <1>3, <1>6, <3>1, ClosedTail DEF K
      <4> QED
        BY <2>a, <2>b, <4>1, <4>2
    <3> QED
      BY <3>3, <3>4
  <2>2. ASSUME committed'[p] # running'[p], p \notin past'.torn
        PROVE  WillDo(R)'
    <3>1. ~(c.op = "reload" /\ c.pkg = p) /\ running'[p] = running[p]
      BY <1>5, <2>2 DEF PackageSteps
    <3>2. p \notin past.torn
      BY <1>2, <2>2 DEF Dirty
    <3>3. CASE c.op = "commit" /\ c.pkg = p
      BY <1>3, <1>6, <2>b, <3>3, ClosedTail DEF R
    <3>4. CASE ~(c.op = "commit" /\ c.pkg = p)
      <4>1. WillDo(R)
        BY <1>5, <2>2, <3>1, <3>2, <3>4 DEF PackageSteps, LeftInv, NothingForgotten, R
      <4>2. Net(prog[t], R) = "off" => Net(Tail(prog[t]), R) = "off"
        BY <1>3, <1>6, <3>1, ClosedTail DEF R
      <4> QED
        BY <2>a, <2>b, <4>1, <4>2
    <3> QED
      BY <3>3, <3>4
  <2> QED
    BY <2>1, <2>2 DEF K, R
<1> QED
  BY <1>7, <1>8 DEF LeftInv, NothingForgotten

\* When a job has ended early, whatever is not in place is torn.
LEMMA LeftTorn ==
  ASSUME ProgramsClosed', past'.torn = Dirty(staged', committed', running')
  PROVE  LeftInv'
BY DEF LeftInv, NothingForgotten, Dirty

LEMMA LeftSame ==
  ASSUME LeftInv, ProgramsClosed', UNCHANGED config, past'.torn = past.torn,
         \A t \in Tasks : prog'[t] = prog[t] \/ prog[t] = <<>>
  PROVE  LeftInv'
<1>1. \A k : WillDo(k) => WillDo(k)'
  BY NetEmpty DEF WillDo
<1> QED
  BY <1>1 DEF LeftInv, NothingForgotten, config

LEMMA LeftInit == Init => LeftInv
<1> SUFFICES ASSUME Init PROVE LeftInv
  OBVIOUS
<1>1. /\ prog = [t \in Tasks |-> <<>>] /\ staged = FirstBoot
      /\ committed = FirstBoot /\ running = FirstBoot
  BY DEF Init
<1> QED
  BY <1>1, ClosedParts DEF LeftInv, ProgramsClosed, NothingForgotten

LEMMA LeftNext == TypeInv /\ LeftInv /\ [Next]_vars => LeftInv'
<1> SUFFICES ASSUME TypeInv, LeftInv, [Next]_vars PROVE LeftInv'
  OBVIOUS
<1>1. ASSUME NEW t \in Tasks, CallStep(t)
      PROVE  LeftInv'
  <2>1. CASE Moves(t)
    BY <2>1, LeftMoves
  <2>2. CASE GetList(t)
    <3>1. UNCHANGED config /\ prog' = prog /\ past' = past
      BY <2>2 DEF GetList
    <3>2. ProgramsClosed'
      BY <3>1 DEF LeftInv, ProgramsClosed
    <3> QED
      BY <3>1, <3>2, LeftSame
  <2>3. CASE NotFound(t)
    <3>1. GaveUp(t)
      BY <2>3, TypedShapes, GiveUpIs DEF NotFound
    <3>2. ProgramsClosed' /\ past'.torn = Dirty(staged', committed', running')
      BY <3>1, ClosedParts DEF GaveUp, LeftInv, ProgramsClosed
    <3> QED
      BY <3>2, LeftTorn
  <2> QED
    BY <1>1, <2>1, <2>2, <2>3 DEF Moves
<1>2. ASSUME NEW t \in Tasks, CallFails(t)
      PROVE  LeftInv'
  <2>1. prog[t] # <<>> /\ Closed(prog[t])
    BY <1>2 DEF CallFails, LeftInv, ProgramsClosed
  <2>2. CASE GiveUp(t)
    <3>1. GaveUp(t)
      BY <2>2, TypedShapes, GiveUpIs
    <3>2. ProgramsClosed' /\ past'.torn = Dirty(staged', committed', running')
      BY <3>1, ClosedParts DEF GaveUp, LeftInv, ProgramsClosed
    <3> QED
      BY <3>2, LeftTorn
  <2>3. CASE ~GiveUp(t)
    <3>1. FailsTolerably(t)
      BY <1>2, <2>3, FailsHow
    <3>2. /\ prog'[t] = Tail(prog[t]) /\ \A u \in Tasks \ {t} : prog'[u] = prog[u]
          /\ past'.torn = Dirty(staged', committed', running')
      BY <3>1 DEF FailsTolerably, MovedOn
    <3>3. ProgramsClosed'
      BY <2>1, <3>2, ClosedTail DEF LeftInv, ProgramsClosed
    <3> QED
      BY <3>2, <3>3, LeftTorn
  <2> QED
    BY <2>2, <2>3
<1>3. ASSUME NEW t \in Authors, NEW kind, NEW arg, NEW program,
             Begin(t, kind, arg, program), Complete(program)
      PROVE  LeftInv'
  <2>1. /\ prog' = [prog EXCEPT ![t] = program] /\ prog[t] = <<>> /\ past' = past
        /\ UNCHANGED config
    BY <1>3 DEF Begin
  <2>2. /\ \A u \in Tasks : prog'[u] = prog[u] \/ prog[u] = <<>>
        /\ \A u \in Tasks : prog'[u] = prog[u] \/ prog'[u] = program
    BY <2>1 DEF TypeInv, TasksTyped
  <2>3. ProgramsClosed'
    BY <1>3, <2>2, ClosedParts DEF LeftInv, ProgramsClosed
  <2> QED
    BY <2>1, <2>2, <2>3, LeftSame
<1>4. ASSUME NEW t \in Authors,
             StartPosture(t) \/ StartSetup(t) \/ StartDisable(t)
               \/ \E p \in Profiles : StartProfile(t, p)
      PROVE  LeftInv'
  <2>1. \A p \in Applied : Complete(ApplyProfile(p, device, standby))
    BY WiredFacts, ListedRadios, ProfileIsComplete
  <2>2. CASE \E p \in Profiles : StartProfile(t, p)
    BY <1>3, <2>1, <2>2, StartsApplication
  <2>3. CASE StartPosture(t)
    BY <1>3, <2>3, PostureIsComplete, StartsPosture
  <2> QED
    BY <1>3, <1>4, <2>2, <2>3, SetupIsComplete DEF StartSetup, StartDisable
<1>5. CASE Tick
  <2>1. PICK reading \in {carrier, "unknown"} : Switch(reading)
    BY <1>5 DEF Tick
  <2> DEFINE program == SetMesh(Decide(reading, ObserveMesh) = "wireless")
  <2>2. /\ prog' = [prog EXCEPT !["loop"] = program] /\ prog["loop"] = <<>>
        /\ past' = past /\ UNCHANGED config
    BY <2>1 DEF Switch
  <2>3. Complete(program)
    BY GoodSwitch
  <2> HIDE DEF program
  <2>4. /\ \A u \in Tasks : prog'[u] = prog[u] \/ prog[u] = <<>>
        /\ \A u \in Tasks : prog'[u] = prog[u] \/ prog'[u] = program
    BY <2>2 DEF TypeInv, TasksTyped
  <2>5. ProgramsClosed'
    BY <2>3, <2>4, ClosedParts DEF LeftInv, ProgramsClosed
  <2> QED
    BY <2>2, <2>4, <2>5, LeftSame
<1>6. CASE CarrierChanges \/ UNCHANGED vars
  <2>1. UNCHANGED config /\ prog' = prog /\ past' = past
    BY <1>6 DEF CarrierChanges, vars, config
  <2>2. ProgramsClosed'
    BY <2>1 DEF LeftInv, ProgramsClosed
  <2> QED
    BY <2>1, <2>2, LeftSame
<1>7. CASE Restart \/ Reboot
  <2>1. Started
    BY <1>7, TypedShapes, DaemonStartsIs DEF Restart, Reboot
  <2>2. ProgramsClosed' /\ past'.torn = Dirty(staged', committed', running')
    BY <2>1, ClosedParts DEF Started, ProgramsClosed
  <2> QED
    BY <2>2, LeftTorn
<1> QED
  BY <1>1, <1>2, <1>4, <1>5, <1>6, <1>7 DEF Next

\* What the daemon staged has reached the running system once nobody is at work,
\* for any number of authors that interleave with each other and the failover
\* call by call: who staged a package commits it before it ends, and who
\* committed it has it read, unless a job or a reload failed.
THEOREM NothingStaysStaged == Spec => []NothingLeftStaged
<1>1. Init => TypeInv /\ LeftInv
  BY TypeInit, LeftInit
<1>2. TypeInv /\ LeftInv /\ [Next]_vars => (TypeInv /\ LeftInv)'
  BY TypeNext, LeftNext
<1> QED
  BY <1>1, <1>2, LeftIsNothing, PTL DEF Spec

-----------------------------------------------------------------------------
(* A standby mesh is kept *)

MeshIn(c) == Has(c, "wireless", MeshSection)

\* While the mesh is a standby no task is about to delete it, and what is staged
\* has it if what is committed does.
StandbyInv ==
  standby =>
    /\ \A t \in Tasks : KeepsMesh(prog[t])
    /\ "wireless" \notin past.torn /\ MeshIn(committed) => MeshIn(staged)

LEMMA MeshIsNoSecondaryAP == MeshSection \notin SecondaryAPs
<1>1. \A b : SecondaryAP(b)[1] = "omm_ap_"
  BY DEF SecondaryAP, Named
<1>2. MeshSection[1] = "omm_mesh"
  BY DEF MeshSection, Section, Named
<1> QED
  BY <1>1, <1>2 DEF SecondaryAPs

LEMMA DeletesFootprint ==
  ASSUME NEW stale, stale \subseteq SecondaryAPs
  PROVE  Footprint(Deletes(stale), APNames, {})
<1> DEFINE body == [s \in stale |-> Delete("wireless", s)]
<1>1. IsFiniteSet(stale)
  BY StaleAreGood
<1>2. \A s \in SecondaryAPs : Footprint(Delete("wireless", s), APNames, {})
  <2>1. \A s \in SecondaryAPs : <<"wireless", s[1]>> \in APNames
    BY DEF SecondaryAPs, SecondaryAP, Named, APNames
  <2> QED
    BY <2>1, FootprintCalls
<1>3. \A s : Len(Delete("wireless", s)) = 1
  BY DEF Delete, Call
<1>4. IsFiniteSet(DOMAIN body) /\ \A x \in DOMAIN body :
         Footprint(body[x], APNames, {}) /\ Len(body[x]) = 1
  BY <1>1, <1>2, <1>3
<1> HIDE DEF body
<1>5. Footprint(ForEach(1, body), APNames, {})
  BY <1>4, FootprintEach
<1> QED
  BY <1>5 DEF Deletes, body

LEMMA InsertsKeepMesh ==
  ASSUME TypeInv, standby, NEW t \in Tasks, NEW X, Inserts(t, X)
  PROVE  KeepsMesh(X)
<1>1. CASE X = Deletes(Stale(t))
  <2>1. Footprint(X, APNames, {})
    BY <1>1, DeletesFootprint DEF Stale
  <2>2. <<"wireless", "omm_mesh">> \notin APNames
    BY DEF APNames
  <2> QED
    BY <2>1, <2>2, KeepsMeshMany
<1>2. /\ KeepsMesh(<<>>) /\ KeepsMesh(BatmanFallback(device))
      /\ \A state : KeepsMesh(SetBackhaulState(state))
  BY WiredFacts, KeepsMeshMany, ProgramsKeepMesh
<1> QED
  BY <1>1, <1>2 DEF Inserts

\* No call but the deletion of a section loses it.
LEMMA StagedMesh ==
  ASSUME TypeInv, NEW t \in Tasks, Moves(t),
         ~(TheCall(t).op = "delete" /\ TheCall(t).pkg = "wireless"
             /\ TheCall(t).sec = MeshSection)
  PROVE  MeshIn(staged) => MeshIn(staged')
<1> DEFINE c == TheCall(t)
<1>0. prog[t] # <<>> /\ GoodCall(c, Bridgeable) /\ IsConfig(staged)
  BY MovesOn, TheCallTyped, TypedShapes DEF Shapes
<1>1. CASE SetSectionCall(t) \/ SetCall(t) \/ DeleteCall(t) \/ UniqueMAC(t)
  <2>1. /\ c.op \in {"section", "set", "delete", "unique_mac"}
        /\ \/ staged' = WithOptions(staged, c.pkg, c.sec, c.arg)
           \/ c.op = "delete" /\ staged' = WithoutSection(staged, c.pkg, c.sec)
           \/ staged' = staged
    BY <1>1 DEF SetSectionCall, SetCall, DeleteCall, UniqueMAC, Calls, TheCall, Stage,
                config
  <2>2. c.pkg \in Packages
    BY <1>0, <2>1 DEF GoodCall
  <2>3. c.op = "delete" => ~(c.pkg = "wireless" /\ c.sec = MeshSection)
    OBVIOUS
  <2> HIDE DEF c
  <2>4. LET n == WithOptions(staged, c.pkg, c.sec, c.arg)
        IN  SameBut(staged, n, c.pkg, c.sec) /\ Has(n, c.pkg, c.sec)
    BY <1>0, <2>2, WithOptionsIs
  <2>5. SameBut(staged, WithoutSection(staged, c.pkg, c.sec), c.pkg, c.sec)
    BY <1>0, <2>2, WithoutSectionIs
  <2> QED
    BY <2>1, <2>3, <2>4, <2>5 DEF SameBut, MeshIn, Has, Packages
<1>2. CASE SetList(t)
  <2>1. PICK list : staged' = WithMembers(staged, list) \/ staged' = staged
    BY <1>2 DEF SetList, Stage, config
  <2>2. SameBut(staged, WithMembers(staged, list), "network", LanDevice)
    BY <1>0, WithMembersIs
  <2> QED
    BY <2>1, <2>2 DEF SameBut, MeshIn, Has, Packages
<1>3. CASE ~(SetSectionCall(t) \/ SetCall(t) \/ DeleteCall(t) \/ UniqueMAC(t) \/ SetList(t))
  <2>1. staged' = staged
    BY <1>3 DEF Moves, CallStep, CommitCall, ReloadCall, PruneStaleSecondaryAPs, BatmanUp,
                VerifyBackhaul, RecordBackhaul, SetUplinkActive, config
  <2> QED
    BY <2>1
<1> QED
  BY <1>1, <1>2, <1>3

\* What a standby device commits has the mesh.
StandbyStep == MeshIn(committed) /\ "wireless" \notin past.torn /\ ~MeshIn(committed') => ~standby

LEMMA StandbyMoves ==
  ASSUME TypeInv, StandbyInv, standby' = standby, NEW t \in Tasks, Moves(t)
  PROVE  StandbyInv' /\ StandbyStep
<1> SUFFICES ASSUME standby PROVE StandbyInv' /\ StandbyStep
  BY DEF StandbyInv, StandbyStep
<1>1. PICK X : Inserts(t, X) /\ Good(X, Bridgeable) /\ Proceed(t, X \o Tail(prog[t]))
  BY MovesOn
<1> DEFINE rest == X \o Tail(prog[t])
           c == TheCall(t)
<1>2. /\ prog'[t] = rest /\ \A u \in Tasks \ {t} : prog'[u] = prog[u]
      /\ past'.torn = past.torn \cap Dirty(staged', committed', running')
  BY <1>1, TypedShapes, ProceedIs DEF Proceeded, MovedOn
<1>3. prog[t] # <<>> /\ KeepsMesh(prog[t])
  BY MovesOn DEF StandbyInv
<1>4. KeepsMesh(rest)
  BY <1>1, <1>3, InsertsKeepMesh, KeepsMeshMany
<1>5. PackageSteps(c)
  BY MovesPackages
<1>6. MeshIn(staged) => MeshIn(staged')
  <2>1. TheCall(t) \in ToSet(prog[t])
    BY <1>3, HeadTail DEF TheCall, KeepsMesh
  <2> QED
    BY <1>3, <2>1, StagedMesh DEF KeepsMesh
<1> HIDE DEF rest, c
<1>7. \A u \in Tasks : KeepsMesh(prog'[u])
  BY <1>2, <1>4 DEF StandbyInv
<1>p. committed'["wireless"] = committed["wireless"]
        \/ committed'["wireless"] = staged'["wireless"]
  BY <1>5 DEF PackageSteps, Packages
<1>8. MeshIn(committed') => MeshIn(committed) \/ MeshIn(staged')
  BY <1>p DEF MeshIn, Has
<1>9. "wireless" \notin past'.torn /\ MeshIn(committed') => MeshIn(staged')
  <2>1. CASE "wireless" \notin past.torn
    BY <1>6, <1>8, <2>1 DEF StandbyInv
  <2>2. CASE "wireless" \in past.torn
    <3>1. "wireless" \in past'.torn \/ staged'["wireless"] = committed'["wireless"]
      BY <1>2, <2>2 DEF Dirty, Packages
    <3> QED
      BY <3>1 DEF MeshIn, Has
  <2> QED
    BY <2>1, <2>2
<1>10. StandbyStep
  <2>2. MeshIn(committed) /\ "wireless" \notin past.torn => MeshIn(staged')
    BY <1>6 DEF StandbyInv
  <2>3. MeshIn(committed) /\ "wireless" \notin past.torn => MeshIn(committed')
    BY <1>p, <2>2 DEF MeshIn, Has
  <2> QED
    BY <2>3 DEF StandbyStep
<1> QED
  BY <1>7, <1>9, <1>10 DEF StandbyInv

\* Without a committed change, what counts is that nobody takes up a program
\* that deletes the mesh.
LEMMA StandbyOthers ==
  ASSUME StandbyInv, committed' = committed,
         standby' => \A t \in Tasks : KeepsMesh(prog'[t]),
         \/ staged' = staged /\ past'.torn = past.torn /\ standby' = standby
         \/ past'.torn = Dirty(staged', committed', running')
  PROVE  StandbyInv' /\ StandbyStep
<1>1. StandbyStep
  BY DEF StandbyStep, MeshIn, Has
<1>2. CASE staged' = staged /\ past'.torn = past.torn /\ standby' = standby
  BY <1>1, <1>2 DEF StandbyInv, MeshIn, Has
<1>3. CASE past'.torn = Dirty(staged', committed', running')
  <2>1. "wireless" \in past'.torn \/ staged'["wireless"] = committed'["wireless"]
    BY <1>3 DEF Dirty, Packages
  <2> QED
    BY <1>1, <2>1 DEF StandbyInv, MeshIn, Has
<1> QED
  BY <1>2, <1>3

LEMMA StandbyNext == TypeInv /\ StandbyInv /\ [Next]_vars => StandbyInv' /\ StandbyStep
<1> SUFFICES ASSUME TypeInv, StandbyInv, [Next]_vars PROVE StandbyInv' /\ StandbyStep
  OBVIOUS
<1>1. ASSUME NEW t \in Tasks, CallStep(t)
      PROVE  StandbyInv' /\ StandbyStep
  <2>1. CASE Moves(t)
    <3>1. standby' = standby
      BY <1>1 DEF CallStep, SetSectionCall, SetCall, DeleteCall, NotFound, GetList, SetList,
                  CommitCall, ReloadCall, UniqueMAC, PruneStaleSecondaryAPs, BatmanUp,
                  VerifyBackhaul, RecordBackhaul, SetUplinkActive, daemon
    <3> QED
      BY <2>1, <3>1, StandbyMoves
  <2>2. CASE GetList(t)
    <3>1. UNCHANGED config /\ prog' = prog /\ past' = past /\ standby' = standby
      BY <2>2 DEF GetList, daemon
    <3> QED
      BY <3>1, StandbyOthers DEF config, StandbyInv
  <2>3. CASE NotFound(t)
    <3>1. GaveUp(t) /\ committed' = committed /\ standby' = standby
      BY <2>3, TypedShapes, GiveUpIs DEF NotFound, config, daemon
    <3>2. /\ past'.torn = Dirty(staged', committed', running')
          /\ standby' => \A u \in Tasks : KeepsMesh(prog'[u])
      BY <3>1, KeepsMeshMany DEF GaveUp, StandbyInv
    <3> QED
      BY <3>1, <3>2, StandbyOthers
  <2> QED
    BY <1>1, <2>1, <2>2, <2>3 DEF Moves
<1>2. ASSUME NEW t \in Tasks, CallFails(t)
      PROVE  StandbyInv' /\ StandbyStep
  <2>1. committed' = committed /\ standby' = standby /\ prog[t] # <<>>
    BY <1>2 DEF CallFails, config, daemon, Stage
  <2>2. CASE GiveUp(t)
    <3>1. GaveUp(t)
      BY <2>2, TypedShapes, GiveUpIs
    <3>2. /\ past'.torn = Dirty(staged', committed', running')
          /\ standby' => \A u \in Tasks : KeepsMesh(prog'[u])
      BY <2>1, <3>1, KeepsMeshMany DEF GaveUp, StandbyInv
    <3> QED
      BY <2>1, <3>2, StandbyOthers
  <2>3. CASE ~GiveUp(t)
    <3>1. FailsTolerably(t)
      BY <1>2, <2>3, FailsHow
    <3>2. /\ prog'[t] = Tail(prog[t]) /\ \A u \in Tasks \ {t} : prog'[u] = prog[u]
          /\ past'.torn = Dirty(staged', committed', running')
      BY <3>1 DEF FailsTolerably, MovedOn
    <3>3. standby' => \A u \in Tasks : KeepsMesh(prog'[u])
      BY <2>1, <3>2, KeepsMeshMany DEF StandbyInv
    <3> QED
      BY <2>1, <3>2, <3>3, StandbyOthers
  <2> QED
    BY <2>2, <2>3
<1>3. ASSUME NEW t \in Tasks, NEW program, prog' = [prog EXCEPT ![t] = program],
             UNCHANGED config, past' = past, standby' = standby, KeepsMesh(program)
      PROVE  StandbyInv' /\ StandbyStep
  <2>1. standby' => \A u \in Tasks : KeepsMesh(prog'[u])
    BY <1>3 DEF StandbyInv, TypeInv, TasksTyped
  <2> QED
    BY <1>3, <2>1, StandbyOthers DEF config
<1>4. ASSUME NEW t \in Authors,
             StartPosture(t) \/ StartSetup(t) \/ StartDisable(t)
               \/ \E p \in Profiles : StartProfile(t, p)
      PROVE  StandbyInv' /\ StandbyStep
  <2>1. \A p \in Applied : KeepsMesh(ApplyProfile(p, device, standby))
    BY WiredFacts, ListedRadios, ProfileKeepsMesh
  <2>2. PICK program : prog' = [prog EXCEPT ![t] = program] /\ KeepsMesh(program)
    <3>1. CASE \E p \in Profiles : StartProfile(t, p)
      BY <2>1, <3>1, StartsApplication DEF Begin
    <3>2. CASE StartPosture(t)
      BY <3>2, StartsPosture, ProgramsKeepMesh DEF Begin
    <3> QED
      BY <1>4, <3>1, <3>2, SetupKeepsMesh DEF StartSetup, StartDisable, Begin
  <2>3. UNCHANGED config /\ past' = past /\ standby' = standby /\ t \in Tasks
    BY <1>4 DEF StartPosture, StartSetup, StartDisable, StartProfile, Begin, daemon, Tasks
  <2> QED
    BY <1>3, <2>2, <2>3
<1>5. CASE Tick
  <2>1. PICK reading \in {carrier, "unknown"} : Switch(reading)
    BY <1>5 DEF Tick
  <2> DEFINE program == SetMesh(Decide(reading, ObserveMesh) = "wireless")
  <2>2. /\ prog' = [prog EXCEPT !["loop"] = program] /\ "loop" \in Tasks
        /\ past' = past /\ UNCHANGED config /\ standby' = standby
    BY <2>1 DEF Switch, daemon, Tasks
  <2>3. KeepsMesh(program)
    BY ProgramsKeepMesh DEF SetMesh
  <2> HIDE DEF program
  <2> QED
    BY <1>3, <2>2, <2>3
<1>6. CASE CarrierChanges \/ UNCHANGED vars
  <2>1. UNCHANGED config /\ prog' = prog /\ past' = past /\ standby' = standby
    BY <1>6 DEF CarrierChanges, vars, config
  <2> QED
    BY <2>1, StandbyOthers DEF config, StandbyInv
<1>7. CASE Restart \/ Reboot
  <2>1. Started /\ committed' = committed
    BY <1>7, TypedShapes, DaemonStartsIs DEF Restart, Reboot, config
  <2>2. /\ \A t \in Tasks : KeepsMesh(prog'[t])
        /\ past'.torn = Dirty(staged', committed', running')
    BY <2>1, KeepsMeshMany DEF Started
  <2> QED
    BY <2>1, <2>2, StandbyOthers
<1> QED
  BY <1>1, <1>2, <1>4, <1>5, <1>6, <1>7 DEF Next

LEMMA StandbyInit == Init => StandbyInv
<1> SUFFICES ASSUME Init PROVE StandbyInv
  OBVIOUS
<1>1. prog = [t \in Tasks |-> <<>>] /\ committed = staged
  BY DEF Init
<1> QED
  BY <1>1, KeepsMeshMany DEF StandbyInv

\* However the jobs of any number of authors, the failover, failed calls and
\* restarts interleave, a mesh that is a standby is not deleted for not being up:
\* the program that deletes it is begun only by a daemon for which it is none,
\* and does not outlive that daemon.
THEOREM StandbyMeshIsKept == Spec => StandbyMeshKept
<1>1. Init => TypeInv /\ StandbyInv
  BY TypeInit, StandbyInit
<1>2. TypeInv /\ StandbyInv /\ [Next]_vars =>
        (TypeInv /\ StandbyInv)' /\ [StandbyStep]_vars
  BY TypeNext, StandbyNext
<1>3. Spec => [][StandbyStep]_vars
  BY <1>1, <1>2, PTL DEF Spec
<1> QED
  BY <1>3 DEF StandbyMeshKept, StandbyStep, MeshIn

-----------------------------------------------------------------------------
(* What becomes of the facts that programs decide *)

Holds(c, k) ==
  CASE k.kind = "exists" -> Has(c, k.pkg, k.sec)
    [] k.kind = "option" ->
         /\ Has(c, k.pkg, k.sec) /\ k.option \in DOMAIN c[k.pkg][k.sec]
         /\ c[k.pkg][k.sec][k.option] = k.value
    [] k.kind = "bridged" -> k.value \in Members(c)

LEMMA SamePackage ==
  ASSUME NEW c, NEW n, NEW k, ConfigKey(k), c[k.pkg] = n[k.pkg]
  PROVE  Holds(c, k) <=> Holds(n, k)
BY ConfigKeyIs DEF Holds, Has, Members, Option

\* An edited section matters only to the facts about it, the LAN bridge's only to
\* those about its members.
LEMMA SameElsewhere ==
  ASSUME NEW c, NEW n, NEW pkg \in Packages, NEW sec, SameBut(c, n, pkg, sec),
         NEW k, ConfigKey(k),
         k.kind \in {"exists", "option"} => k.pkg # pkg \/ k.sec # sec,
         k.kind = "bridged" => pkg # "network" \/ sec # LanDevice
  PROVE  Holds(n, k) <=> Holds(c, k)
<1>1. CASE k.kind = "bridged"
  <2>1. Members(n) = Members(c)
    BY <1>1, SameMembers
  <2> QED
    BY <1>1, <2>1 DEF Holds
<1>2. CASE k.kind \in {"exists", "option"}
  <2>1. CASE k.pkg # pkg
    BY <2>1, SamePackage, ConfigKeyIs DEF SameBut
  <2>2. CASE k.pkg = pkg
    BY <1>2, <2>2 DEF Holds, SameBut, Has
  <2> QED
    BY <2>1, <2>2
<1> QED
  BY <1>1, <1>2, ConfigKeyIs

\* What the calls that write a section make of the facts about it
LEMMA WrittenHolds ==
  ASSUME NEW c, IsConfig(c), NEW k, ConfigKey(k), k.kind \in {"exists", "option"},
         NEW values
  PROVE  LET n == WithOptions(c, k.pkg, k.sec, values)
             d == WithoutSection(c, k.pkg, k.sec)
         IN  /\ k.kind = "exists" => Holds(n, k)
             /\ k.kind = "option" =>
                  (Holds(n, k) <=> IF k.option \in DOMAIN values
                                   THEN values[k.option] = k.value ELSE Holds(c, k))
             /\ ~Holds(d, k)
<1> DEFINE n == WithOptions(c, k.pkg, k.sec, values)
           d == WithoutSection(c, k.pkg, k.sec)
           old == IF Has(c, k.pkg, k.sec) THEN c[k.pkg][k.sec] ELSE <<>>
<1>0. k.pkg \in Packages
  BY ConfigKeyIs
<1>1. Has(n, k.pkg, k.sec) /\ n[k.pkg][k.sec] = Overlay(values, old)
  BY <1>0, WithOptionsIs
<1>2. ~Has(d, k.pkg, k.sec)
  BY <1>0, WithoutSectionIs
<1> HIDE DEF n, d
<1>3. k.kind = "exists" => Holds(n, k)
  BY <1>1 DEF Holds
<1>4. ~Holds(d, k)
  BY <1>2 DEF Holds
<1>5. ASSUME k.kind = "option"
      PROVE  Holds(n, k) <=> IF k.option \in DOMAIN values
                             THEN values[k.option] = k.value ELSE Holds(c, k)
  <2>1. Holds(n, k) <=> /\ k.option \in DOMAIN Overlay(values, old)
                        /\ Overlay(values, old)[k.option] = k.value
    BY <1>1, <1>5 DEF Holds
  <2>2. CASE k.option \in DOMAIN values
    BY <2>1, <2>2 DEF Overlay
  <2>3. CASE k.option \notin DOMAIN values
    <3>1. Holds(n, k) <=> k.option \in DOMAIN old /\ old[k.option] = k.value
      BY <2>1, <2>3 DEF Overlay
    <3>2. CASE Has(c, k.pkg, k.sec)
      BY <1>5, <2>3, <3>1, <3>2 DEF Holds
    <3>3. CASE ~Has(c, k.pkg, k.sec)
      <4>1. k.option \notin DOMAIN old
        BY <3>3
      <4> QED
        BY <1>5, <2>3, <3>1, <3>3, <4>1 DEF Holds
    <3> QED
      BY <3>2, <3>3
  <2> QED
    BY <2>2, <2>3
<1> QED
  BY <1>3, <1>4, <1>5 DEF n, d

\* The effect of a call on a fact of each kind
LEMMA ConfigEffects ==
  ASSUME NEW c, NEW D, GoodCall(c, D), NEW k, ConfigKey(k), c.op # "prune" \/ PlainKey(k)
  PROVE  /\ Effect(c, k) # "none" => c.op \in {"section", "set", "delete", "add_item", "del_item"}
         /\ k.kind \in {"exists", "option"} =>
              /\ c.op \in {"add_item", "del_item"} => Effect(c, k) = "none"
              /\ (c.pkg # k.pkg \/ c.sec # k.sec) => Effect(c, k) = "none"
              /\ c.op = "delete" /\ c.pkg = k.pkg /\ c.sec = k.sec => Effect(c, k) = "off"
         /\ k.kind = "exists" /\ c.pkg = k.pkg /\ c.sec = k.sec =>
              /\ c.op = "section" => Effect(c, k) = "on"
              /\ c.op = "set" => Effect(c, k) = "none"
         /\ k.kind = "option" /\ c.pkg = k.pkg /\ c.sec = k.sec
              /\ c.op \in {"section", "set"} =>
              Effect(c, k) = IF k.option \notin DOMAIN c.arg THEN "none"
                             ELSE IF c.arg[k.option] = k.value THEN "on" ELSE "off"
         /\ k.kind = "bridged" =>
              Effect(c, k) = IF c.op = "add_item" /\ c.arg.item = k.value THEN "on"
                             ELSE IF c.op = "del_item" /\ c.arg.item = k.value THEN "off"
                             ELSE "none"
<1>0. c.op = "prune" => k.kind = "bridged" \/ k.sec \notin SecondaryAPs
  BY Names DEF PlainKey, SecondaryAPs
<1>1. CASE k.kind = "exists"
  BY <1>0, <1>1 DEF Effect, TurnsOn, TurnsOff, Removes, Writes
<1>2. CASE k.kind = "option"
  BY <1>0, <1>2 DEF Effect, TurnsOn, TurnsOff, Removes, Writes
<1>3. CASE k.kind = "bridged"
  BY <1>3 DEF Effect, TurnsOn, TurnsOff
<1> QED
  BY <1>1, <1>2, <1>3, ConfigKeyIs

\* A call that succeeds makes of each fact what it is said to.
LEMMA MovesHold ==
  ASSUME TypeInv, NEW t \in Tasks, Moves(t), NEW k, ConfigKey(k),
         EditsList(t) => read[t] = Members(staged)
  PROVE  Holds(staged', k) <=> IF TheCall(t).op = "prune" THEN Holds(staged, k)
                               ELSE After(TheCall(t), k, Holds(staged, k))
<1> DEFINE c == TheCall(t)
<1>0. prog[t] # <<>> /\ GoodCall(c, Bridgeable) /\ IsConfig(staged)
  BY MovesOn, TheCallTyped, TypedShapes DEF Shapes
<1>k. ConfigKey(k)
  OBVIOUS
<1>1. CASE SetSectionCall(t) \/ SetCall(t) \/ DeleteCall(t) \/ UniqueMAC(t)
  <2>1. /\ c.op \in {"section", "set", "delete", "unique_mac"}
        /\ \/ c.op # "delete" /\ staged' = WithOptions(staged, c.pkg, c.sec, c.arg)
           \/ c.op = "delete" /\ staged' = WithoutSection(staged, c.pkg, c.sec)
           \/ c.op = "unique_mac" /\ staged' = staged
        /\ c.op = "set" => Has(staged, c.pkg, c.sec)
    BY <1>1 DEF SetSectionCall, SetCall, DeleteCall, UniqueMAC, Calls, TheCall, Stage,
                config
  <2>2. /\ c.pkg \in Packages /\ c.sec # LanDevice
        /\ c.op = "unique_mac" => c.sec[1] = "dev_"
    BY <1>0, <2>1 DEF GoodCall
  <2> HIDE DEF c
  <2>3. /\ SameBut(staged, WithOptions(staged, c.pkg, c.sec, c.arg), c.pkg, c.sec)
        /\ SameBut(staged, WithoutSection(staged, c.pkg, c.sec), c.pkg, c.sec)
    BY <1>0, <2>2, WithOptionsIs, WithoutSectionIs
  <2>4. CASE k.kind = "bridged"
    <3>1. Holds(staged', k) <=> Holds(staged, k)
      BY <1>k, <2>1, <2>2, <2>3, <2>4, SameElsewhere
    <3>2. Effect(c, k) = "none"
      BY <1>0, <1>k, <2>1, <2>4, ConfigEffects DEF c
    <3> QED
      BY <2>1, <3>1, <3>2 DEF After, c
  <2>5. CASE k.kind \in {"exists", "option"} /\ (c.pkg # k.pkg \/ c.sec # k.sec)
    <3>1. Holds(staged', k) <=> Holds(staged, k)
      BY <1>k, <2>1, <2>2, <2>3, <2>5, SameElsewhere
    <3>2. Effect(c, k) = "none"
      BY <1>0, <1>k, <2>1, <2>5, ConfigEffects DEF c
    <3> QED
      BY <2>1, <3>1, <3>2 DEF After, c
  <2>6. CASE k.kind \in {"exists", "option"} /\ c.pkg = k.pkg /\ c.sec = k.sec
    <3>1. c.op # "unique_mac"
      BY <1>k, <2>2, <2>6, ConfigKeyIs
    <3>2. /\ c.op # "delete" /\ k.kind = "exists" => Holds(staged', k)
          /\ c.op # "delete" /\ k.kind = "option" =>
               (Holds(staged', k) <=> IF k.option \in DOMAIN c.arg
                                      THEN c.arg[k.option] = k.value ELSE Holds(staged, k))
          /\ c.op = "delete" => ~Holds(staged', k)
      <4> DEFINE n == WithOptions(staged, k.pkg, k.sec, c.arg)
                 d == WithoutSection(staged, k.pkg, k.sec)
      <4>1. /\ k.kind = "exists" => Holds(n, k)
            /\ k.kind = "option" =>
                 (Holds(n, k) <=> IF k.option \in DOMAIN c.arg
                                  THEN c.arg[k.option] = k.value ELSE Holds(staged, k))
            /\ ~Holds(d, k)
        BY <1>0, <1>k, <2>6, WrittenHolds
      <4>2. staged' = IF c.op = "delete" THEN d ELSE n
        BY <2>1, <2>6, <3>1
      <4> HIDE DEF n, d
      <4> QED
        BY <4>1, <4>2
    <3>3. k.kind = "exists" /\ c.op = "set" => Holds(staged, k)
      BY <2>1, <2>6 DEF Holds
    <3>4. /\ c.op = "delete" => Effect(c, k) = "off"
          /\ k.kind = "exists" =>
               /\ c.op = "section" => Effect(c, k) = "on"
               /\ c.op = "set" => Effect(c, k) = "none"
          /\ k.kind = "option" /\ c.op \in {"section", "set"} =>
               Effect(c, k) = IF k.option \notin DOMAIN c.arg THEN "none"
                              ELSE IF c.arg[k.option] = k.value THEN "on" ELSE "off"
      BY <1>0, <1>k, <2>1, <2>6, ConfigEffects DEF c
    <3>5. Holds(staged', k) <=> After(c, k, Holds(staged, k))
      BY <2>1, <2>6, <3>1, <3>2, <3>3, <3>4 DEF After
    <3> QED
      BY <2>1, <3>5 DEF c
  <2> QED
    BY <2>4, <2>5, <2>6, <1>k, ConfigKeyIs
<1>2. CASE SetList(t)
  <2> DEFINE value == {c.arg.item}
             list == IF c.op = "add_item" THEN read[t] \cup value ELSE read[t] \ value
  <2>1. /\ c.op \in {"add_item", "del_item"}
        /\ IF list = read[t] THEN staged' = staged ELSE staged' = WithMembers(staged, list)
        /\ read[t] = Members(staged)
    BY <1>2 DEF SetList, EditsList, Calls, TheCall, Stage, config
  <2>2. /\ SameBut(staged, WithMembers(staged, list), "network", LanDevice)
        /\ Members(WithMembers(staged, list)) = list
    BY <1>0, WithMembersIs
  <2> HIDE DEF list
  <2>3. Members(staged') = list
    BY <2>1, <2>2
  <2> HIDE DEF c
  <2>4. CASE k.kind = "bridged"
    <3>1. k.value \in list <=> IF k.value = c.arg.item THEN c.op = "add_item"
                               ELSE k.value \in Members(staged)
      BY <2>1 DEF list
    <3>2. Effect(c, k) = IF c.op = "add_item" /\ c.arg.item = k.value THEN "on"
                         ELSE IF c.op = "del_item" /\ c.arg.item = k.value THEN "off"
                         ELSE "none"
      BY <1>0, <1>k, <2>1, <2>4, ConfigEffects DEF c
    <3>3. Holds(staged', k) <=> After(c, k, Holds(staged, k))
      BY <2>1, <2>3, <2>4, <3>1, <3>2 DEF Holds, After
    <3> QED
      BY <2>1, <3>3 DEF c
  <2>5. CASE k.kind \in {"exists", "option"}
    <3>1. k.sec # LanDevice
      BY <1>k, <2>5, ConfigKeyIs
    <3>2. Holds(staged', k) <=> Holds(staged, k)
      BY <1>k, <2>1, <2>2, <2>5, <3>1, SameElsewhere DEF Packages
    <3>3. Effect(c, k) = "none"
      BY <1>0, <1>k, <2>1, <2>5, ConfigEffects DEF c
    <3> QED
      BY <2>1, <3>2, <3>3 DEF After, c
  <2> QED
    BY <2>4, <2>5, <1>k, ConfigKeyIs
<1>3. CASE CommitCall(t) \/ ReloadCall(t) \/ PruneStaleSecondaryAPs(t) \/ BatmanUp(t)
             \/ VerifyBackhaul(t) \/ RecordBackhaul(t) \/ SetUplinkActive(t)
  <2>1. staged' = staged /\ c.op \notin {"section", "set", "delete", "add_item", "del_item"}
    BY <1>3 DEF CommitCall, ReloadCall, PruneStaleSecondaryAPs, BatmanUp, VerifyBackhaul,
                RecordBackhaul, SetUplinkActive, Calls, TheCall, config
  <2>2. c.op # "prune" => Effect(c, k) = "none"
    BY <1>0, <1>k, <2>1, ConfigEffects
  <2> QED
    BY <2>1, <2>2 DEF After
<1> QED
  BY <1>1, <1>2, <1>3 DEF Moves, CallStep

\* A failed call adds a section at most.
LEMMA FailsHold ==
  ASSUME TypeInv, NEW t \in Tasks, CallFails(t) \/ NotFound(t)
  PROVE  /\ prog[t] # <<>> /\ committed' = committed
         /\ \A k : ConfigKey(k) /\ Effect(TheCall(t), k) # "on" =>
              (Holds(staged', k) <=> Holds(staged, k))
<1> DEFINE c == TheCall(t)
<1>1. prog[t] # <<>> /\ committed' = committed
  BY DEF CallFails, NotFound, Calls, config, Stage
<1>2. GoodCall(c, Bridgeable) /\ IsConfig(staged)
  BY <1>1, TheCallTyped, TypedShapes DEF Shapes
<1>3. \/ staged' = staged
      \/ /\ c.op \in {"section", "unique_mac"}
         /\ staged' = WithOptions(staged, c.pkg, c.sec, <<>>)
  BY DEF CallFails, NotFound, config, Stage
<1> HIDE DEF c
<1>4. ASSUME NEW k, ConfigKey(k), Effect(c, k) # "on"
      PROVE  Holds(staged', k) <=> Holds(staged, k)
  <2>1. CASE staged' = staged
    BY <2>1
  <2>2. CASE staged' # staged
    <3>1. /\ c.op \in {"section", "unique_mac"} /\ c.pkg \in Packages /\ c.sec # LanDevice
          /\ c.op = "unique_mac" => c.sec[1] = "dev_"
          /\ staged' = WithOptions(staged, c.pkg, c.sec, <<>>)
      BY <1>2, <1>3, <2>2 DEF GoodCall
    <3>2. CASE k.kind \in {"exists", "option"} /\ k.pkg = c.pkg /\ k.sec = c.sec
      <4>1. c.op = "section"
        BY <1>4, <3>1, <3>2, ConfigKeyIs
      <4>2. k.kind = "option"
        BY <1>2, <1>4, <3>2, <4>1, ConfigEffects
      <4>3. k.option \notin DOMAIN <<>>
        OBVIOUS
      <4> DEFINE n == WithOptions(staged, k.pkg, k.sec, <<>>)
      <4>4. Holds(n, k) <=> Holds(staged, k)
        BY <1>2, <1>4, <3>2, <4>2, <4>3, WrittenHolds
      <4> QED
        BY <3>1, <3>2, <4>4
    <3>3. CASE ~(k.kind \in {"exists", "option"} /\ k.pkg = c.pkg /\ k.sec = c.sec)
      <4>1. SameBut(staged, staged', c.pkg, c.sec)
        BY <1>2, <3>1, WithOptionsIs
      <4> QED
        BY <1>4, <3>1, <3>3, <4>1, SameElsewhere
    <3> QED
      BY <3>2, <3>3
  <2> QED
    BY <2>1, <2>2
<1> QED
  BY <1>1, <1>4 DEF c

\* What is committed of a fact
LEMMA CommitsHold ==
  ASSUME TypeInv, NEW t \in Tasks, Moves(t), NEW k, ConfigKey(k)
  PROVE  Holds(committed', k) <=>
           IF TheCall(t).op = "commit" /\ TheCall(t).pkg = k.pkg
           THEN Holds(staged', k) ELSE Holds(committed, k)
<1>1. k.pkg \in Packages
  BY ConfigKeyIs
<1>2. committed'[k.pkg] = IF TheCall(t).op = "commit" /\ TheCall(t).pkg = k.pkg
                          THEN staged'[k.pkg] ELSE committed[k.pkg]
  BY <1>1, MovesPackages DEF PackageSteps
<1> QED
  BY <1>2, SamePackage

\* What else a call that succeeds does
LEMMA MovesRest ==
  ASSUME TypeInv, NEW t \in Tasks, CallStep(t)
  PROVE  /\ UNCHANGED <<daemon, bounds>>
         /\ uplinkActive' <=> IF Moves(t) THEN After(TheCall(t), UplinkKnown, uplinkActive)
                              ELSE uplinkActive
         /\ TheCall(t).op # "mesh_up" =>
              \A x : (backhaul' = x) <=> IF Moves(t) THEN After(TheCall(t), Recorded(x), backhaul = x)
                                         ELSE backhaul = x
         /\ ~Moves(t) => backhaul' = backhaul
<1>1. UNCHANGED <<daemon, bounds>>
  BY DEF CallStep, SetSectionCall, SetCall, DeleteCall, NotFound, GetList, SetList,
         CommitCall, ReloadCall, UniqueMAC, PruneStaleSecondaryAPs, BatmanUp,
         VerifyBackhaul, RecordBackhaul, SetUplinkActive, bounds
<1>2. CASE ~(RecordBackhaul(t) \/ SetUplinkActive(t))
  <2>1. UNCHANGED results
    BY <1>2 DEF CallStep, SetSectionCall, SetCall, DeleteCall, NotFound, GetList, SetList,
           CommitCall, ReloadCall, UniqueMAC, PruneStaleSecondaryAPs, BatmanUp,
           VerifyBackhaul
  <2>2. Moves(t) => TheCall(t).op \notin {"backhaul_state", "uplink_active"}
    BY <1>2 DEF Moves, CallStep, SetSectionCall, SetCall, DeleteCall, SetList, EditsList,
           CommitCall, ReloadCall, UniqueMAC, PruneStaleSecondaryAPs, BatmanUp,
           VerifyBackhaul, Calls, TheCall
  <2>3. Moves(t) => /\ Effect(TheCall(t), UplinkKnown) = "none"
                    /\ TheCall(t).op # "mesh_up" =>
                         \A x : Effect(TheCall(t), Recorded(x)) = "none"
    BY <2>2, RecordEffect
  <2>4. uplinkActive' = uplinkActive /\ backhaul' = backhaul
    BY <2>1 DEF results
  <2> QED
    BY <1>1, <2>3, <2>4 DEF After
<1>3. CASE RecordBackhaul(t)
  <2>1. TheCall(t).op = "backhaul_state" /\ backhaul' = TheCall(t).arg.state
        /\ uplinkActive' = uplinkActive /\ prog[t] # <<>>
    BY <1>3 DEF RecordBackhaul, Calls, TheCall
  <2>2. Moves(t)
    BY <2>1, <1>3 DEF Moves, CallStep, GetList, NotFound, EditsList, Calls, TheCall
  <2>3. Effect(TheCall(t), UplinkKnown) = "none"
    BY <2>1, RecordEffect
  <2>4. \A x : Effect(TheCall(t), Recorded(x)) =
                 IF TheCall(t).arg.state = x THEN "on" ELSE "off"
    BY <2>1 DEF Effect, TurnsOn, TurnsOff, Recorded, Fact
  <2> QED
    BY <1>1, <2>1, <2>2, <2>3, <2>4 DEF After
<1>4. CASE SetUplinkActive(t)
  <2>1. TheCall(t).op = "uplink_active" /\ uplinkActive' = TheCall(t).arg.active
        /\ backhaul' = backhaul /\ prog[t] # <<>>
    BY <1>4 DEF SetUplinkActive, Calls, TheCall
  <2>2. Moves(t)
    BY <2>1, <1>4 DEF Moves, CallStep, GetList, NotFound, EditsList, Calls, TheCall
  <2>3. \A x : Effect(TheCall(t), Recorded(x)) = "none"
    BY <2>1, RecordEffect
  <2>4. Effect(TheCall(t), UplinkKnown) = IF TheCall(t).arg.active THEN "on" ELSE "off"
    BY <2>1 DEF Effect, TurnsOn, TurnsOff, UplinkKnown, Fact
  <2> QED
    BY <1>1, <2>1, <2>2, <2>3, <2>4 DEF After
<1> QED
  BY <1>2, <1>3, <1>4

-----------------------------------------------------------------------------
(* A device with one author *)

\* The failover's program: it writes one option that no plain fact is about.
SwitchCalls(P) ==
  /\ IsProgram(P)
  /\ \A c \in ToSet(P) :
       /\ c.op \in {"set", "commit", "reload"}
       /\ c.op = "set" => DOMAIN c.arg = {"disabled"}

LEMMA SwitchCallsMany ==
  /\ SwitchCalls(<<>>) /\ \A on : SwitchCalls(SetMesh(on))
  /\ \A P : SwitchCalls(P) /\ P # <<>> =>
       /\ SwitchCalls(Tail(P))
       /\ Head(P).op \in {"set", "commit", "reload"}
       /\ \A k : ConfigKey(k) => Effect(Head(P), k) = "none"
<1>1. SwitchCalls(<<>>)
  BY EmptyProgram DEF SwitchCalls
<1>c. ASSUME NEW op, NEW pkg, NEW sec, NEW arg, op \in {"set", "commit", "reload"},
             op = "set" => DOMAIN arg = {"disabled"}
      PROVE  SwitchCalls(Call(op, pkg, sec, arg))
  <2> DEFINE c == [op |-> op, pkg |-> pkg, sec |-> sec, arg |-> arg]
             P == Call(op, pkg, sec, arg)
  <2>1. IsProgram(P) /\ ToSet(P) = {c}
    BY OneCall DEF Call
  <2>2. c.op = op /\ c.arg = arg
    OBVIOUS
  <2> HIDE DEF P, c
  <2> QED
    BY <1>c, <2>1, <2>2 DEF SwitchCalls, P
<1>p. ASSUME NEW P, NEW Q, SwitchCalls(P), SwitchCalls(Q)
      PROVE  SwitchCalls(P \o Q)
  BY <1>p, Concat DEF SwitchCalls
<1>a. \A v : DOMAIN v = {"disabled"} => SwitchCalls(Set("wireless", MeshSection, v))
  BY <1>c DEF Set
<1>d. \A pkg, sec, arg : /\ SwitchCalls(Call("commit", pkg, sec, arg))
                          /\ SwitchCalls(Call("reload", pkg, sec, arg))
  BY <1>c
<1>b. ASSUME NEW pkg
      PROVE  SwitchCalls(Commit(pkg)) /\ SwitchCalls(ReloadPackage(pkg))
  BY <1>d, Zenon DEF Commit, ReloadPackage
<1>2. ASSUME NEW on
      PROVE  SwitchCalls(SetMesh(on))
  <2>1. SwitchCalls(Set("wireless", MeshSection, [disabled |-> IF on THEN "0" ELSE "1"]))
    BY <1>a
  <2>2. SwitchCalls(Reload)
    BY <1>b, <1>p DEF Reload
  <2> QED
    BY <1>b, <1>p, <2>1, <2>2 DEF SetMesh
<1>3. ASSUME NEW P, SwitchCalls(P), P # <<>>
      PROVE  /\ SwitchCalls(Tail(P)) /\ Head(P).op \in {"set", "commit", "reload"}
             /\ Head(P).op = "set" => DOMAIN Head(P).arg = {"disabled"}
  BY <1>3, HeadTail DEF SwitchCalls
<1>4. ASSUME NEW c, c.op \in {"set", "commit", "reload"},
             c.op = "set" => DOMAIN c.arg = {"disabled"}, NEW k, ConfigKey(k)
      PROVE  Effect(c, k) = "none"
  BY <1>4, ConfigKeyIs DEF Effect, TurnsOn, TurnsOff, Removes, Writes
<1>5. ASSUME NEW P, SwitchCalls(P), P # <<>>
      PROVE  \A k : ConfigKey(k) => Effect(Head(P), k) = "none"
  BY <1>3, <1>4, <1>5
<1> QED
  BY <1>1, <1>2, <1>3, <1>5

\* The failover is doing nothing but its switch, and a member list that the author
\* has in hand is what is staged: nobody else writes it.
SoleInv(a) ==
  /\ job["loop"].kind \in {"idle", "switch"} /\ SwitchCalls(prog["loop"])
  /\ read["loop"] = None
  /\ read[a] # None => EditsList(a) /\ read[a] = Members(staged)

LEMMA BridgedHolds == \A c, v : Holds(c, Bridged(v)) <=> v \in Members(c)
BY DEF Holds, Bridged, Fact

LEMMA ExistsHolds == \A c, p, s : Holds(c, Exists(p, s)) <=> Has(c, p, s)
BY DEF Holds, Exists, Fact

\* A step of the failover changes no plain fact of what is staged, and may commit
\* what is.
LEMMA LoopSteps ==
  ASSUME TypeInv, NEW a, Authors = {a}, SoleInv(a), CallStep("loop") \/ CallFails("loop")
  PROVE  /\ SoleInv(a)'
         /\ prog'[a] = prog[a] /\ job'[a] = job[a] /\ UNCHANGED results
         /\ past'.profile = past.profile /\ past'.posture = past.posture
         /\ past'.setup = past.setup
         /\ (past'.half <=> past.half) /\ (past'.forgot <=> past.forgot)
         /\ \A k : ConfigKey(k) =>
              /\ Holds(staged', k) <=> Holds(staged, k)
              /\ (Holds(committed', k) <=> Holds(committed, k))
                   \/ (Holds(committed', k) <=> Holds(staged, k))
<1> DEFINE t == "loop"
           c == TheCall(t)
<1>0. t \in Tasks /\ a \in Tasks /\ a # t
  BY DEF Tasks
<1>1. prog[t] # <<>>
  BY DEF CallStep, SetSectionCall, SetCall, DeleteCall, NotFound, GetList, SetList,
         EditsList, CommitCall, ReloadCall, UniqueMAC, PruneStaleSecondaryAPs, BatmanUp,
         VerifyBackhaul, RecordBackhaul, SetUplinkActive, Calls, CallFails
<1>2. /\ SwitchCalls(Tail(prog[t])) /\ c.op \in {"set", "commit", "reload"}
      /\ \A k : ConfigKey(k) => Effect(c, k) = "none"
  BY <1>1, SwitchCallsMany DEF SoleInv, TheCall
<1>3. /\ job[t].kind \notin SetupJobs /\ job[t].kind # "profile" /\ job[t].kind # "posture"
  BY DEF SoleInv, SetupJobs
<1>u. Effect(c, UplinkKnown) = "none" /\ \A x : Effect(c, Recorded(x)) = "none"
  BY <1>2, RecordEffect
<1>4. /\ UNCHANGED results /\ UNCHANGED read
      /\ \A k : ConfigKey(k) =>
           /\ Holds(staged', k) <=> Holds(staged, k)
           /\ (Holds(committed', k) <=> Holds(committed, k))
                \/ (Holds(committed', k) <=> Holds(staged, k))
      /\ MovedOn(t, Tail(prog[t])) \/ GaveUp(t)
  <2>1. CASE CallStep(t) /\ Moves(t)
    <3>1. UNCHANGED results /\ UNCHANGED read
      BY <1>2, <2>1 DEF Moves, CallStep, SetSectionCall, SetCall, DeleteCall, SetList,
           EditsList, CommitCall, ReloadCall, UniqueMAC, PruneStaleSecondaryAPs, BatmanUp,
           VerifyBackhaul, RecordBackhaul, SetUplinkActive, Calls, TheCall
    <3>2. \A k : ConfigKey(k) =>
           /\ Holds(staged', k) <=> Holds(staged, k)
           /\ (Holds(committed', k) <=> Holds(committed, k))
                \/ (Holds(committed', k) <=> Holds(staged, k))
      <4>1. ~EditsList(t)
        BY <1>2 DEF EditsList, Calls, TheCall
      <4> QED
        BY <1>0, <1>2, <2>1, <4>1, MovesHold, CommitsHold DEF After
    <3>3. PICK X : Inserts(t, X) /\ Proceed(t, X \o Tail(prog[t]))
      BY <1>0, <2>1, MovesOn
    <3>4. X = <<>>
      BY <1>2, <3>3 DEF Inserts
    <3>5. X \o Tail(prog[t]) = Tail(prog[t])
      BY <1>2, <3>4, NothingInserted DEF SwitchCalls
    <3>6. MovedOn(t, Tail(prog[t]))
      BY <1>0, <3>3, <3>5, TypedShapes, ProceedIs DEF Proceeded
    <3> QED
      BY <3>1, <3>2, <3>6
  <2>2. CASE NotFound(t) \/ CallFails(t)
    <3>1. UNCHANGED results
      BY <2>2 DEF NotFound, CallFails
    <3>2. \A k : ConfigKey(k) => /\ Holds(staged', k) <=> Holds(staged, k)
                                 /\ Holds(committed', k) <=> Holds(committed, k)
      BY <1>0, <1>2, <2>2, FailsHold DEF Holds
    <3>3. CASE GiveUp(t)
      <4>1. GaveUp(t)
        BY <1>0, <3>3, TypedShapes, GiveUpIs
      <4>2. UNCHANGED read
        <5>1. read' = [u \in Tasks |-> read'[u]] /\ read = [u \in Tasks |-> read[u]]
              /\ \A u \in Tasks : read'[u] = read[u]
          BY <4>1 DEF GaveUp, TypeInv, TasksTyped, SoleInv
        <5> QED
          BY <5>1
      <4> QED
        BY <3>1, <3>2, <4>1, <4>2
    <3>4. CASE ~GiveUp(t)
      <4>1. CallFails(t)
        BY <2>2, <3>4 DEF NotFound
      <4>2. FailsTolerably(t)
        BY <1>0, <3>4, <4>1, FailsHow
      <4> QED
        BY <3>1, <3>2, <4>2 DEF FailsTolerably
    <3> QED
      BY <3>3, <3>4
  <2>3. ~GetList(t)
    BY <1>2 DEF GetList, EditsList, Calls, TheCall
  <2> QED
    BY <2>1, <2>2, <2>3 DEF Moves
<1>5. /\ prog'[a] = prog[a] /\ job'[a] = job[a]
      /\ prog'[t] \in {<<>>, Tail(prog[t])} /\ job'[t] \in {job[t], Idle}
      /\ past'.profile = past.profile /\ past'.posture = past.posture
      /\ past'.setup = past.setup
      /\ (past'.half <=> past.half) /\ (past'.forgot <=> past.forgot)
  <2>1. CASE MovedOn(t, Tail(prog[t]))
    BY <1>0, <1>3, <2>1 DEF MovedOn
  <2>2. CASE GaveUp(t)
    <3>1. "uplink" \in SetupJobs
      BY DEF SetupJobs
    <3> QED
      BY <1>0, <1>3, <2>2, <3>1 DEF GaveUp
  <2> QED
    BY <1>4, <2>1, <2>2
<1>8. job'[t].kind \in {"idle", "switch"} /\ SwitchCalls(prog'[t])
  <2>1. Idle.kind \in {"idle", "switch"}
    BY DEF Idle
  <2>2. job'[t].kind \in {"idle", "switch"}
    BY <1>5, <2>1 DEF SoleInv
  <2>3. SwitchCalls(prog'[t])
    BY <1>2, <1>5, SwitchCallsMany
  <2> QED
    BY <2>2, <2>3
<1>6. Members(staged') = Members(staged)
  <2>1. \A v : ConfigKey(Bridged(v))
    BY Keys DEF ConfigKey
  <2>2. \A v : v \in Members(staged') <=> v \in Members(staged)
    BY <1>4, <2>1, BridgedHolds
  <2> QED
    BY <2>2
<1>7. SoleInv(a)'
  BY <1>4, <1>5, <1>6, <1>8 DEF SoleInv, EditsList, Calls, TheCall
<1> QED
  BY <1>4, <1>5, <1>7

\* What a step is to the author's job: it takes the job on, ends it early, begins
\* one, starts the daemon anew, or leaves it as it is.
SamePast ==
  /\ past'.profile = past.profile /\ past'.posture = past.posture
  /\ past'.setup = past.setup
  /\ (past'.half <=> past.half) /\ (past'.forgot <=> past.forgot)

Advances(a) ==
  /\ prog[a] # <<>> /\ standby' = standby
  /\ \E X : Inserts(a, X) /\ Good(X, Bridgeable) /\ MovedOn(a, X \o Tail(prog[a]))
  /\ \A k : PlainKey(k) =>
       (Holds(staged', k) <=> After(TheCall(a), k, Holds(staged, k)))
  /\ \A k : APKey(k) =>
       (Holds(staged', k) <=> IF TheCall(a).op = "prune" THEN Holds(staged, k)
                              ELSE After(TheCall(a), k, Holds(staged, k)))
  /\ \A k : ConfigKey(k) =>
       (Holds(committed', k) <=>
          IF TheCall(a).op = "commit" /\ TheCall(a).pkg = k.pkg
          THEN Holds(staged', k) ELSE Holds(committed, k))
  /\ uplinkActive' <=> After(TheCall(a), UplinkKnown, uplinkActive)
  /\ IF TheCall(a).op = "mesh_up" THEN backhaul' = backhaul
     ELSE \A x : (backhaul' = x) <=> After(TheCall(a), Recorded(x), backhaul = x)

EndsEarly(a) ==
  /\ prog[a] # <<>> /\ GaveUp(a) /\ UNCHANGED results /\ committed' = committed
  /\ \A k : ConfigKey(k) /\ Effect(TheCall(a), k) # "on" =>
       (Holds(staged', k) <=> Holds(staged, k))

BeginsWith(a, kind, arg, program) ==
  /\ job'[a] = [kind |-> kind, arg |-> arg] /\ prog'[a] = program
  /\ program # <<>> /\ Complete(program)

Begins(a) ==
  /\ prog[a] = <<>> /\ job[a] = Idle
  /\ UNCHANGED config /\ UNCHANGED results /\ past' = past /\ standby' = standby
  /\ \/ \E p \in Applied :
          Resolvable(p) /\ BeginsWith(a, "profile", p, ApplyProfile(p, device, standby))
     \/ \E r \in Roles, f \in BOOLEAN :
             BeginsWith(a, "posture", [role |-> r, found |-> f], ApplyPosture(r, f))
     \/ BeginsWith(a, "setup", None, EnableSetup)
     \/ BeginsWith(a, "uplink", None, EnableUplink)
     \/ BeginsWith(a, "disable", None, Disable(uplinkActive))

StartsAnew ==
  /\ Started /\ committed' = committed /\ backhaul' = backhaul
  /\ staged' = staged \/ staged' = committed

Waits(a) ==
  /\ prog'[a] = prog[a] /\ job'[a] = job[a] /\ SamePast
  /\ UNCHANGED results /\ standby' = standby
  /\ \A k : ConfigKey(k) =>
       /\ Holds(staged', k) <=> Holds(staged, k)
       /\ (Holds(committed', k) <=> Holds(committed, k))
            \/ (Holds(committed', k) <=> Holds(staged, k))

AuthorStep(a) ==
  /\ device' = device
  /\ Advances(a) \/ EndsEarly(a) \/ Begins(a) \/ StartsAnew \/ Waits(a)

LEMMA MovesAdvance ==
  ASSUME TypeInv, NEW a, Authors = {a}, SoleInv(a), Moves(a)
  PROVE  SoleInv(a)' /\ AuthorStep(a)
<1>0. a \in Tasks /\ "loop" \in Tasks /\ a # "loop"
  BY DeviceAssumption DEF Tasks
<1>1. PICK X : /\ Inserts(a, X) /\ Good(X, Bridgeable) /\ Proceed(a, X \o Tail(prog[a]))
               /\ prog[a] # <<>>
  BY <1>0, MovesOn
<1>2. MovedOn(a, X \o Tail(prog[a]))
  BY <1>0, <1>1, TypedShapes, ProceedIs DEF Proceeded
<1>3. EditsList(a) => SetList(a) /\ read[a] = Members(staged)
  BY DEF SoleInv, Moves, CallStep, SetSectionCall, SetCall, DeleteCall, SetList, EditsList,
         CommitCall, ReloadCall, UniqueMAC, PruneStaleSecondaryAPs, BatmanUp,
         VerifyBackhaul, RecordBackhaul, SetUplinkActive, Calls
<1>4. read'[a] = None /\ read'["loop"] = read["loop"]
  <2>1. CASE SetList(a)
    BY <1>0, <2>1 DEF SetList, TypeInv, TasksTyped
  <2>2. CASE ~SetList(a)
    <3>1. UNCHANGED read
      BY <2>2 DEF Moves, CallStep, SetSectionCall, SetCall, DeleteCall, CommitCall,
           ReloadCall, UniqueMAC, PruneStaleSecondaryAPs, BatmanUp, VerifyBackhaul,
           RecordBackhaul, SetUplinkActive
    <3>2. read[a] = None
      BY <1>3, <2>2 DEF SoleInv
    <3> QED
      BY <3>1, <3>2
  <2> QED
    BY <2>1, <2>2
<1>5. prog'["loop"] = prog["loop"] /\ job'["loop"] = job["loop"]
  BY <1>0, <1>2 DEF MovedOn
<1>6. SoleInv(a)'
  BY <1>4, <1>5 DEF SoleInv
<1>7. \A k : ConfigKey(k) =>
        /\ Holds(staged', k) <=> IF TheCall(a).op = "prune" THEN Holds(staged, k)
                                ELSE After(TheCall(a), k, Holds(staged, k))
        /\ Holds(committed', k) <=>
             IF TheCall(a).op = "commit" /\ TheCall(a).pkg = k.pkg
             THEN Holds(staged', k) ELSE Holds(committed, k)
  BY <1>0, <1>3, MovesHold, CommitsHold
<1>p. \A k : PlainKey(k) =>
        (Holds(staged', k) <=> After(TheCall(a), k, Holds(staged, k)))
  <2>1. GoodCall(TheCall(a), Bridgeable)
    BY <1>0, <1>1, TheCallTyped
  <2>2. \A k : PlainKey(k) /\ TheCall(a).op = "prune" => Effect(TheCall(a), k) = "none"
    BY <2>1, ConfigEffects DEF ConfigKey
  <2> QED
    BY <1>7, <2>2 DEF ConfigKey, After
<1>8. CallStep(a)
  BY DEF Moves
<1>9. /\ uplinkActive' <=> After(TheCall(a), UplinkKnown, uplinkActive)
      /\ IF TheCall(a).op = "mesh_up" THEN backhaul' = backhaul
         ELSE \A x : (backhaul' = x) <=> After(TheCall(a), Recorded(x), backhaul = x)
      /\ device' = device /\ standby' = standby
  <2>1. TheCall(a).op = "mesh_up" => ~RecordBackhaul(a)
    BY DEF RecordBackhaul, Calls, TheCall
  <2>2. TheCall(a).op = "mesh_up" => backhaul' = backhaul
    BY <1>8, <2>1 DEF CallStep, SetSectionCall, SetCall, DeleteCall, NotFound, GetList,
           SetList, CommitCall, ReloadCall, UniqueMAC, PruneStaleSecondaryAPs, BatmanUp,
           VerifyBackhaul, SetUplinkActive, results
  <2>3. UNCHANGED daemon
    BY <1>0, <1>8, MovesRest
  <2> QED
    BY <1>0, <1>8, <2>2, <2>3, MovesRest DEF daemon
<1>10. Advances(a)
  BY <1>1, <1>2, <1>7, <1>p, <1>9 DEF Advances, ConfigKey
<1> QED
  BY <1>6, <1>9, <1>10 DEF AuthorStep

LEMMA FailuresEnd ==
  ASSUME TypeInv, NEW a, Authors = {a}, SoleInv(a), CallFails(a) \/ NotFound(a)
  PROVE  SoleInv(a)' /\ AuthorStep(a)
<1>0. a \in Tasks /\ "loop" \in Tasks /\ a # "loop"
  BY DeviceAssumption DEF Tasks
<1>1. /\ prog[a] # <<>> /\ committed' = committed
      /\ \A k : ConfigKey(k) /\ Effect(TheCall(a), k) # "on" =>
              (Holds(staged', k) <=> Holds(staged, k))
  BY <1>0, FailsHold
<1>2. UNCHANGED results /\ device' = device /\ standby' = standby
  BY DEF CallFails, NotFound, daemon
<1>3. CASE GiveUp(a)
  <2>1. GaveUp(a)
    BY <1>0, <1>3, TypedShapes, GiveUpIs
  <2>2. /\ prog'["loop"] = prog["loop"] /\ job'["loop"] = job["loop"]
        /\ read'["loop"] = read["loop"] /\ read'[a] = None
    BY <1>0, <2>1 DEF GaveUp
  <2>3. SoleInv(a)'
    BY <2>2 DEF SoleInv
  <2>4. EndsEarly(a)
    BY <1>1, <1>2, <2>1 DEF EndsEarly
  <2> QED
    BY <1>2, <2>3, <2>4 DEF AuthorStep
<1>4. CASE ~GiveUp(a)
  <2>1. CallFails(a)
    BY <1>4 DEF NotFound
  <2>2. FailsTolerably(a)
    BY <1>0, <1>4, <2>1, FailsHow
  <2>3. /\ MovedOn(a, Tail(prog[a])) /\ TheCall(a).op = "reload"
        /\ UNCHANGED config /\ UNCHANGED read
    BY <2>2 DEF FailsTolerably
  <2>4. read[a] = None
    BY <2>3 DEF SoleInv, EditsList, Calls, TheCall
  <2>5. prog'["loop"] = prog["loop"] /\ job'["loop"] = job["loop"]
    BY <1>0, <2>3 DEF MovedOn
  <2>6. SoleInv(a)'
    BY <2>3, <2>4, <2>5 DEF SoleInv
  <2>7. GoodCall(TheCall(a), Bridgeable) /\ Good(Tail(prog[a]), Bridgeable)
    BY <1>0, <1>1, TheCallTyped
  <2>8. /\ \A k : ConfigKey(k) => Effect(TheCall(a), k) = "none"
        /\ Effect(TheCall(a), UplinkKnown) = "none"
        /\ \A x : Effect(TheCall(a), Recorded(x)) = "none"
    BY <2>3, <2>7, ConfigEffects, RecordEffect
  <2>9. Inserts(a, <<>>) /\ Good(<<>>, Bridgeable) /\ <<>> \o Tail(prog[a]) = Tail(prog[a])
    BY <2>3, <2>7, GoodEmpty, NothingInserted DEF Inserts, Good
  <2>10. \E X : Inserts(a, X) /\ Good(X, Bridgeable) /\ MovedOn(a, X \o Tail(prog[a]))
    BY <2>3, <2>9
  <2>11. Advances(a)
    BY <1>1, <1>2, <2>3, <2>8, <2>10 DEF Advances, After, ConfigKey, config, results
  <2> QED
    BY <1>2, <2>6, <2>11 DEF AuthorStep
<1> QED
  BY <1>3, <1>4
LEMMA StartsBegin ==
  ASSUME TypeInv, NEW a, Authors = {a}, SoleInv(a),
         StartPosture(a) \/ StartSetup(a) \/ StartDisable(a)
           \/ \E p \in Profiles : StartProfile(a, p)
  PROVE  SoleInv(a)' /\ AuthorStep(a)
<1>0. a \in Tasks /\ "loop" \in Tasks /\ a # "loop" /\ IsFiniteSet(device.wired)
  BY DeviceAssumption, WiredFacts DEF Tasks
<1>1. ASSUME NEW kind, NEW arg, NEW program, Begin(a, kind, arg, program),
             program # <<>>, Complete(program)
      PROVE  /\ prog[a] = <<>> /\ job[a] = Idle
             /\ UNCHANGED config /\ UNCHANGED results /\ past' = past /\ UNCHANGED read
             /\ prog'["loop"] = prog["loop"] /\ job'["loop"] = job["loop"]
             /\ BeginsWith(a, kind, arg, program)
  BY <1>0, <1>1 DEF Begin, BeginsWith, TypeInv, TasksTyped
<1>r. ASSUME prog[a] = <<>>, UNCHANGED config, UNCHANGED read,
             prog'["loop"] = prog["loop"], job'["loop"] = job["loop"]
      PROVE  SoleInv(a)'
  <2>1. read[a] = None
    BY <1>r DEF SoleInv, EditsList, Calls
  <2> QED
    BY <1>r, <2>1 DEF SoleInv
<1>2. CASE StartPosture(a)
  <2>1. PICK r \in Roles, f \in BOOLEAN :
          Begin(a, "posture", [role |-> r, found |-> f], ApplyPosture(r, f))
    BY <1>2, StartsPosture
  <2>2. Complete(ApplyPosture(r, f)) /\ ApplyPosture(r, f) # <<>>
    BY PostureIsComplete, CompleteIsSome
  <2>3. device' = device /\ standby' = standby
    BY <1>2 DEF StartPosture
  <2>4. Begins(a)
    BY <1>1, <2>1, <2>2, <2>3 DEF Begins
  <2>5. SoleInv(a)'
    BY <1>r, <1>1, <2>1, <2>2
  <2> QED
    BY <2>3, <2>4, <2>5 DEF AuthorStep
<1>3. CASE StartSetup(a)
  <2>1. device' = device /\ standby' = standby
    BY <1>3 DEF StartSetup, daemon
  <2>2. Complete(EnableSetup) /\ EnableSetup # <<>> /\ Complete(EnableUplink)
        /\ EnableUplink # <<>>
    BY SetupIsComplete, CompleteIsSome
  <2>3. Begin(a, "setup", None, EnableSetup) \/ Begin(a, "uplink", None, EnableUplink)
    BY <1>3 DEF StartSetup
  <2>4. Begins(a)
    BY <1>1, <2>1, <2>2, <2>3 DEF Begins
  <2>5. SoleInv(a)'
    BY <1>r, <1>1, <2>2, <2>3
  <2> QED
    BY <2>1, <2>4, <2>5 DEF AuthorStep
<1>4. CASE StartDisable(a)
  <2>1. device' = device /\ standby' = standby
    BY <1>4 DEF StartDisable, daemon
  <2>2. Complete(Disable(uplinkActive)) /\ Disable(uplinkActive) # <<>>
    BY SetupIsComplete, CompleteIsSome
  <2>3. Begin(a, "disable", None, Disable(uplinkActive))
    BY <1>4 DEF StartDisable
  <2>4. Begins(a)
    BY <1>1, <2>1, <2>2, <2>3 DEF Begins
  <2>5. SoleInv(a)'
    BY <1>r, <1>1, <2>2, <2>3
  <2> QED
    BY <2>1, <2>4, <2>5 DEF AuthorStep
<1>5. CASE \E p \in Profiles : StartProfile(a, p)
  <2>1. PICK q \in Profiles : StartProfile(a, q)
    BY <1>5
  <2>2. device' = device /\ standby' = standby
    BY <2>1 DEF StartProfile, daemon
  <2>3. PICK p \in Applied :
          Begin(a, "profile", p, ApplyProfile(p, device, standby)) /\ Resolvable(p)
    BY <2>1, StartsApplication
  <2> DEFINE P == ApplyProfile(p, device, standby)
  <2>4. Complete(P) /\ P # <<>>
    BY <1>0, ListedRadios, ProfileIsComplete, CompleteIsSome
  <2>5. /\ prog[a] = <<>> /\ job[a] = Idle
        /\ UNCHANGED config /\ UNCHANGED results /\ past' = past /\ UNCHANGED read
        /\ prog'["loop"] = prog["loop"] /\ job'["loop"] = job["loop"]
        /\ BeginsWith(a, "profile", p, P)
    BY <1>1, <2>3, <2>4
  <2>6. Begins(a)
    BY <2>2, <2>3, <2>5 DEF Begins
  <2>7. SoleInv(a)'
    BY <1>r, <2>5
  <2> QED
    BY <2>2, <2>6, <2>7 DEF AuthorStep
<1> QED
  BY <1>2, <1>3, <1>4, <1>5

LEMMA OthersWait ==
  ASSUME TypeInv, NEW a, Authors = {a}, SoleInv(a),
         Tick \/ CarrierChanges \/ Restart \/ Reboot \/ UNCHANGED vars
  PROVE  SoleInv(a)' /\ AuthorStep(a)
<1>0. a \in Tasks /\ "loop" \in Tasks /\ a # "loop"
  BY DeviceAssumption DEF Tasks
<1>s. Shapes
  BY TypedShapes
<1>1. CASE Tick
  <2>1. PICK on : prog' = [prog EXCEPT !["loop"] = SetMesh(on)]
    BY <1>1 DEF Tick, Switch
  <2>2. /\ prog["loop"] = <<>> /\ UNCHANGED read /\ UNCHANGED config
        /\ UNCHANGED results /\ UNCHANGED past
        /\ job' = [job EXCEPT !["loop"] = [kind |-> "switch", arg |-> None]]
        /\ device' = device /\ standby' = standby
    BY <1>1 DEF Tick, Switch, daemon
  <2>3. /\ prog'["loop"] = SetMesh(on) /\ job'["loop"].kind = "switch"
        /\ prog'[a] = prog[a] /\ job'[a] = job[a]
    BY <1>0, <1>s, <2>1, <2>2 DEF Shapes
  <2>4. SwitchCalls(prog'["loop"])
    BY <2>3, SwitchCallsMany
  <2>5. SoleInv(a)'
    BY <2>2, <2>3, <2>4 DEF SoleInv, EditsList, Calls, TheCall, config
  <2>6. Waits(a)
    BY <2>2, <2>3 DEF Waits, SamePast, config
  <2> QED
    BY <2>2, <2>5, <2>6 DEF AuthorStep
<1>2. CASE CarrierChanges \/ UNCHANGED vars
  <2>1. /\ UNCHANGED read /\ UNCHANGED config /\ UNCHANGED results /\ UNCHANGED past
        /\ prog' = prog /\ job' = job /\ device' = device /\ standby' = standby
    BY <1>2 DEF CarrierChanges, vars, config, results
  <2>2. SoleInv(a)'
    BY <2>1 DEF SoleInv, EditsList, Calls, TheCall, config
  <2>3. Waits(a)
    BY <2>1 DEF Waits, SamePast, config
  <2> QED
    BY <2>1, <2>2, <2>3 DEF AuthorStep
<1>3. CASE Restart \/ Reboot
  <2>1. /\ DaemonStarts /\ committed' = committed
        /\ staged' = staged \/ staged' = committed
    BY <1>3 DEF Restart, Reboot, config
  <2>2. Started
    BY <1>s, <2>1, DaemonStartsIs
  <2>3. backhaul' = backhaul /\ device' = device
    BY <2>1 DEF DaemonStarts
  <2>4. /\ prog'["loop"] = <<>> /\ job'["loop"] = Idle /\ read'["loop"] = None
        /\ read'[a] = None
    BY <1>0, <2>2 DEF Started
  <2>5. SoleInv(a)'
    BY <2>4, SwitchCallsMany DEF SoleInv, Idle
  <2>6. StartsAnew
    BY <2>1, <2>2, <2>3 DEF StartsAnew
  <2> QED
    BY <2>3, <2>5, <2>6 DEF AuthorStep
<1> QED
  BY <1>1, <1>2, <1>3

LEMMA OneAuthorStep ==
  ASSUME TypeInv, NEW a, Authors = {a}, SoleInv(a), [Next]_vars
  PROVE  SoleInv(a)' /\ AuthorStep(a)
<1>0. Tasks = {a, "loop"}
  BY DEF Tasks
<1>1. CASE CallStep(a) \/ CallFails(a)
  <2>1. CASE Moves(a)
    BY <2>1, MovesAdvance
  <2>2. CASE CallFails(a) \/ NotFound(a)
    BY <2>2, FailuresEnd
  <2>3. CASE GetList(a)
    <3>1. /\ read' = [read EXCEPT ![a] = Members(staged)] /\ EditsList(a)
          /\ UNCHANGED config /\ UNCHANGED results /\ past' = past
          /\ prog' = prog /\ job' = job /\ device' = device /\ standby' = standby
      BY <2>3 DEF GetList, daemon
    <3>2. read'[a] = Members(staged) /\ read'["loop"] = read["loop"]
      BY <1>0, <3>1, DeviceAssumption DEF TypeInv, TasksTyped
    <3>3. Members(staged') = Members(staged)
      BY <3>1 DEF config
    <3>4. EditsList(a)'
      BY <3>1 DEF EditsList, Calls, TheCall
    <3>5. SoleInv(a)'
      BY <3>1, <3>2, <3>3, <3>4 DEF SoleInv
    <3>6. Waits(a)
      BY <3>1 DEF Waits, SamePast, config
    <3> QED
      BY <3>1, <3>5, <3>6 DEF AuthorStep
  <2> QED
    BY <1>1, <2>1, <2>2, <2>3 DEF Moves
<1>2. CASE CallStep("loop") \/ CallFails("loop")
  <2>1. /\ SoleInv(a)'
        /\ prog'[a] = prog[a] /\ job'[a] = job[a] /\ UNCHANGED results
        /\ past'.profile = past.profile /\ past'.posture = past.posture
        /\ past'.setup = past.setup
        /\ (past'.half <=> past.half) /\ (past'.forgot <=> past.forgot)
        /\ \A k : ConfigKey(k) =>
              /\ Holds(staged', k) <=> Holds(staged, k)
              /\ (Holds(committed', k) <=> Holds(committed, k))
                   \/ (Holds(committed', k) <=> Holds(staged, k))
    BY <1>2, LoopSteps
  <2>2. device' = device /\ standby' = standby
    BY <1>2 DEF CallStep, SetSectionCall, SetCall, DeleteCall, NotFound, GetList, SetList,
         CommitCall, ReloadCall, UniqueMAC, PruneStaleSecondaryAPs, BatmanUp,
         VerifyBackhaul, RecordBackhaul, SetUplinkActive, CallFails, daemon
  <2>3. Waits(a)
    BY <2>1, <2>2 DEF Waits, SamePast
  <2> QED
    BY <2>1, <2>2, <2>3 DEF AuthorStep
<1>3. CASE \E t \in Authors :
             \/ StartPosture(t) \/ StartSetup(t) \/ StartDisable(t)
             \/ \E p \in Profiles : StartProfile(t, p)
  BY <1>3, StartsBegin
<1>4. CASE Tick \/ CarrierChanges \/ Restart \/ Reboot \/ UNCHANGED vars
  BY <1>4, OthersWait
<1> QED
  BY <1>0, <1>1, <1>2, <1>3, <1>4 DEF Next

LEMMA SoleInit ==
  ASSUME Init, NEW a, Authors = {a}
  PROVE  SoleInv(a)
<1>1. a \in Tasks /\ "loop" \in Tasks
  BY DEF Tasks
<1>2. prog["loop"] = <<>> /\ job["loop"] = Idle /\ read["loop"] = None /\ read[a] = None
  BY <1>1 DEF Init
<1> QED
  BY <1>2, SwitchCallsMany DEF SoleInv, Idle

-----------------------------------------------------------------------------
(* What the author's jobs keep away from *)

\* What has to do with the setup AP and the uplink station
SetupOnly == SetupNames \cup UplinkNames \cup {Known}

AuthorInv(a) ==
  /\ job[a].kind \in {"idle", "profile", "posture"} \cup SetupJobs
  /\ job[a].kind = "profile" => job[a].arg \in Applied
  /\ job[a].kind \notin SetupJobs => Avoids(prog[a], SetupOnly)
  /\ job[a].kind = "setup" => Avoids(prog[a], UplinkNames \cup {Known})
  /\ job[a].kind # "profile" => Avoids(prog[a], MeshNames \cup {Application, Fallback})

\* The names are apart.
LEMMA NamesApart ==
  /\ SetupOnly \cap (MeshNames \cup APNames \cup RadioNames \cup BatmanNames
                       \cup PostureNames) = {}
  /\ (MeshNames \cup {Application, Fallback})
       \cap (RadioNames \cup PostureNames \cup SetupOnly) = {}
  /\ (UplinkNames \cup {Known}) \cap (SetupNames \cup RadioNames) = {}
  /\ \A d : Member(d) \notin SetupOnly \cup MeshNames \cup {Application, Fallback}
  /\ Application \notin SetupOnly /\ Fallback \notin SetupOnly
BY DEF SetupOnly, SetupNames, UplinkNames, Known, MeshNames, APNames, RadioNames,
       BatmanNames, PostureNames, Application, Fallback, Member

LEMMA InsertsAvoid ==
  ASSUME TypeInv, NEW t \in Tasks, NEW X, Inserts(t, X),
         NEW S, S \cap MeshNames = {}, S \cap BatmanNames = {}, S \cap APNames = {},
         Application \notin S, \A d \in device.wired \cup {Iface} : Member(d) \notin S
  PROVE  Avoids(X, S)
<1>1. Avoids(<<>>, S) /\ Avoids(Degrade, S) /\ \A state : Avoids(SetBackhaulState(state), S)
  BY AvoidsMany, VerdictsAvoid
<1>2. Avoids(BatmanFallback(device), S)
  BY WiredFacts, FallbackAvoids
<1>3. Avoids(Deletes(Stale(t)), S)
  <2>1. Footprint(Deletes(Stale(t)), APNames, {})
    BY DeletesFootprint DEF Stale
  <2> QED
    BY <2>1, AvoidsRest
<1> QED
  BY <1>1, <1>2, <1>3, AvoidsConcat DEF Inserts

\* Only a profile's reads add calls.
LEMMA InsertsNothing ==
  ASSUME NEW t \in Tasks, NEW X, Inserts(t, X), prog[t] # <<>>,
         NEW S, Avoids(prog[t], S), Application \in S, Fallback \in S
  PROVE  X = <<>>
<1>1. Spares(TheCall(t), S)
  BY AvoidsMany DEF TheCall
<1> QED
  BY <1>1 DEF Spares, Inserts

LEMMA AuthorAdvances ==
  ASSUME TypeInv, NEW a \in Tasks, AuthorInv(a), prog[a] # <<>>,
         NEW X, Inserts(a, X), MovedOn(a, X \o Tail(prog[a]))
  PROVE  AuthorInv(a)' /\ (job[a].kind # "profile" => X \o Tail(prog[a]) = Tail(prog[a]))
<1> DEFINE rest == X \o Tail(prog[a])
<1>1. prog'[a] = rest /\ job'[a] = IF rest = <<>> THEN Idle ELSE job[a]
  BY DEF MovedOn
<1>2. IsProgram(Tail(prog[a])) /\ IsProgram(prog[a])
  BY HeadTail DEF TypeInv, TasksTyped, Good
<1>3. job[a].kind # "profile" => rest = Tail(prog[a])
  <2>1. job[a].kind # "profile" => X = <<>>
    BY InsertsNothing DEF AuthorInv
  <2> QED
    BY <1>2, <2>1, NothingInserted
<1>4. ASSUME NEW S, Avoids(prog[a], S)
      PROVE  Avoids(Tail(prog[a]), S)
  BY <1>4, AvoidsMany
<1>5. Avoids(X, SetupOnly)
  BY NamesApart, InsertsAvoid
<1>6. job[a].kind \notin SetupJobs => Avoids(rest, SetupOnly)
  BY <1>4, <1>5, AvoidsConcat DEF AuthorInv
<1>7. job[a].kind = "setup" => Avoids(rest, UplinkNames \cup {Known})
  BY <1>3, <1>4 DEF AuthorInv
<1>8. job[a].kind # "profile" => Avoids(rest, MeshNames \cup {Application, Fallback})
  BY <1>3, <1>4 DEF AuthorInv
<1> HIDE DEF rest
<1>9. \A S : Avoids(<<>>, S)
  BY AvoidsMany
<1>10. Idle.kind = "idle" /\ "idle" \notin SetupJobs
  BY DEF Idle, SetupJobs
<1>11. AuthorInv(a)'
  <2>1. CASE rest = <<>>
    BY <1>1, <1>9, <1>10, <2>1 DEF AuthorInv
  <2>2. CASE rest # <<>>
    BY <1>1, <1>6, <1>7, <1>8, <2>2 DEF AuthorInv
  <2> QED
    BY <2>1, <2>2
<1> QED
  BY <1>3, <1>11 DEF rest

LEMMA AuthorBegins ==
  ASSUME TypeInv, NEW a \in Tasks, Begins(a)
  PROVE  AuthorInv(a)'
<1>1. CASE \E p \in Applied : BeginsWith(a, "profile", p, ApplyProfile(p, device, standby))
  <2>1. PICK p \in Applied : BeginsWith(a, "profile", p, ApplyProfile(p, device, standby))
    BY <1>1
  <2>2. Avoids(ApplyProfile(p, device, standby), SetupOnly)
    BY ListedRadios, WiredFacts, NamesApart, ProfileAvoids
  <2>3. job'[a].kind = "profile" /\ job'[a].arg = p
        /\ prog'[a] = ApplyProfile(p, device, standby)
    BY <2>1 DEF BeginsWith
  <2>4. "profile" \notin SetupJobs
    BY DEF SetupJobs
  <2> QED
    BY <2>2, <2>3, <2>4 DEF AuthorInv
<1>2. CASE \E r \in Roles, f \in BOOLEAN :
        BeginsWith(a, "posture", [role |-> r, found |-> f], ApplyPosture(r, f))
  <2>1. PICK r \in Roles, f \in BOOLEAN :
          BeginsWith(a, "posture", [role |-> r, found |-> f], ApplyPosture(r, f))
    BY <1>2
  <2>2. /\ Avoids(ApplyPosture(r, f), SetupOnly)
        /\ Avoids(ApplyPosture(r, f), MeshNames \cup {Application, Fallback})
    BY NamesApart, PostureAvoids
  <2>3. job'[a].kind = "posture" /\ prog'[a] = ApplyPosture(r, f)
    BY <2>1 DEF BeginsWith
  <2>4. "posture" \notin SetupJobs
    BY DEF SetupJobs
  <2> QED
    BY <2>2, <2>3, <2>4 DEF AuthorInv
<1>3. CASE BeginsWith(a, "setup", None, EnableSetup)
  <2>1. /\ Avoids(EnableSetup, UplinkNames \cup {Known})
        /\ Avoids(EnableSetup, MeshNames \cup {Application, Fallback})
    BY NamesApart, SetupAvoids DEF SetupOnly
  <2>2. job'[a].kind = "setup" /\ prog'[a] = EnableSetup
    BY <1>3 DEF BeginsWith
  <2>3. "setup" \in SetupJobs
    BY DEF SetupJobs
  <2> QED
    BY <2>1, <2>2, <2>3 DEF AuthorInv
<1>4. CASE BeginsWith(a, "uplink", None, EnableUplink)
  <2>1. Avoids(EnableUplink, MeshNames \cup {Application, Fallback})
    BY NamesApart, SetupAvoids DEF SetupOnly
  <2>2. job'[a].kind = "uplink" /\ prog'[a] = EnableUplink
    BY <1>4 DEF BeginsWith
  <2>3. "uplink" \in SetupJobs
    BY DEF SetupJobs
  <2> QED
    BY <2>1, <2>2, <2>3 DEF AuthorInv
<1>5. CASE BeginsWith(a, "disable", None, Disable(uplinkActive))
  <2>1. Avoids(Disable(uplinkActive), MeshNames \cup {Application, Fallback})
    BY NamesApart, SetupAvoids DEF SetupOnly
  <2>2. job'[a].kind = "disable" /\ prog'[a] = Disable(uplinkActive)
    BY <1>5 DEF BeginsWith
  <2>3. "disable" \in SetupJobs
    BY DEF SetupJobs
  <2> QED
    BY <2>1, <2>2, <2>3 DEF AuthorInv
<1> QED
  BY <1>1, <1>2, <1>3, <1>4, <1>5 DEF Begins

LEMMA NothingToDo ==
  ASSUME NEW a \in Tasks, prog[a] = <<>>, job[a] = Idle
  PROVE  AuthorInv(a)
<1>1. job[a].kind = "idle" /\ "idle" \notin SetupJobs
  BY DEF Idle, SetupJobs
<1> QED
  BY <1>1, AvoidsMany DEF AuthorInv

LEMMA AuthorNext ==
  ASSUME TypeInv, NEW a \in Tasks, AuthorInv(a), AuthorStep(a)
  PROVE  AuthorInv(a)'
<1>1. CASE Advances(a)
  BY <1>1, AuthorAdvances DEF Advances
<1>2. CASE EndsEarly(a) \/ StartsAnew
  <2>1. prog'[a] = <<>> /\ job'[a] = Idle
    BY <1>2 DEF EndsEarly, GaveUp, StartsAnew, Started
  <2>2. job'[a].kind = "idle" /\ "idle" \notin SetupJobs
    BY <2>1 DEF Idle, SetupJobs
  <2> QED
    BY <2>1, <2>2, AvoidsMany DEF AuthorInv
<1>3. CASE Begins(a)
  BY <1>3, AuthorBegins
<1>4. CASE Waits(a)
  <2>1. prog'[a] = prog[a] /\ job'[a] = job[a]
    BY <1>4 DEF Waits
  <2> QED
    BY <2>1 DEF AuthorInv
<1> QED
  BY <1>1, <1>2, <1>3, <1>4 DEF AuthorStep

LEMMA AuthorInit ==
  ASSUME Init, NEW a \in Tasks
  PROVE  AuthorInv(a)
<1>1. prog[a] = <<>> /\ job[a] = Idle
  BY DEF Init
<1> QED
  BY <1>1, NothingToDo

-----------------------------------------------------------------------------
(* After setup *)

\* Whether a fact will hold of what is staged, once the author is done
WillHold(a, k) == Final(prog[a], k, Holds(staged, k))

LEMMA WillStillHold ==
  ASSUME TypeInv, NEW a \in Tasks, Advances(a), NEW X, Good(X, Bridgeable),
         NEW k, PlainKey(k), Net(X, k) = "none"
  PROVE  Final(X \o Tail(prog[a]), k, Holds(staged', k)) <=> WillHold(a, k)
<1>1. prog[a] # <<>> /\ IsProgram(prog[a]) /\ IsProgram(Tail(prog[a])) /\ IsProgram(X)
  BY HeadTail DEF Advances, TypeInv, TasksTyped, Good
<1>2. WillHold(a, k) = Final(Tail(prog[a]), k, After(TheCall(a), k, Holds(staged, k)))
  BY <1>1, FinalTail DEF WillHold, TheCall
<1>3. Final(X \o Tail(prog[a]), k, Holds(staged', k)) = Final(Tail(prog[a]), k, Holds(staged', k))
  BY <1>1, FinalInsert
<1>4. Holds(staged', k) <=> After(TheCall(a), k, Holds(staged, k))
  BY DEF Advances
<1>5. Final(Tail(prog[a]), k, Holds(staged', k))
        <=> Final(Tail(prog[a]), k, After(TheCall(a), k, Holds(staged, k)))
  BY <1>4 DEF Final
<1> QED
  BY <1>2, <1>3, <1>5

\* Disable takes the setup AP away and commits that.
SetupInv(a) ==
  \A k \in SetupKeys :
    /\ job[a].kind = "disable" =>
         /\ ~WillHold(a, k)
         /\ Net(prog[a], Uncommitted(k.pkg)) = "off" \/ ~Holds(committed, k)
    /\ past.setup = "disable" /\ job[a].kind \notin SetupJobs =>
         ~Holds(staged, k) /\ ~Holds(committed, k)

LEMMA SetupAdvances ==
  ASSUME TypeInv, LeftInv, NEW a \in Tasks, AuthorInv(a), SetupInv(a), Advances(a)
  PROVE  SetupInv(a)'
<1>1. PICK X : Inserts(a, X) /\ Good(X, Bridgeable) /\ MovedOn(a, X \o Tail(prog[a]))
  BY DEF Advances
<1>2. /\ prog[a] # <<>> /\ Good(prog[a], Bridgeable) /\ Closed(prog[a])
      /\ Good(Tail(prog[a]), Bridgeable)
  BY TheCallTyped DEF Advances, TypeInv, TasksTyped, LeftInv, ProgramsClosed
<1> DEFINE rest == X \o Tail(prog[a])
<1>3. prog'[a] = rest /\ job'[a] = IF rest = <<>> THEN Idle ELSE job[a]
  BY <1>1 DEF MovedOn
<1>4. past'.setup = IF rest = <<>> /\ job[a].kind \in SetupJobs THEN job[a].kind
                    ELSE past.setup
  BY <1>1 DEF MovedOn
<1>5. job[a].kind # "profile" => rest = Tail(prog[a])
  BY <1>1, <1>2, AuthorAdvances
<1>k. Idle.kind = "idle" /\ {"idle", "profile", "posture"} \cap SetupJobs = {}
      /\ SetupJobs = {"setup", "uplink", "disable"}
  BY DEF Idle, SetupJobs
<1> SUFFICES ASSUME NEW k \in SetupKeys
             PROVE  /\ job'[a].kind = "disable" =>
                         /\ ~Final(prog'[a], k, Holds(staged', k))
                         /\ Net(prog'[a], Uncommitted(k.pkg)) = "off" \/ ~Holds(committed', k)
                    /\ past'.setup = "disable" /\ job'[a].kind \notin SetupJobs =>
                         ~Holds(staged', k) /\ ~Holds(committed', k)
  BY DEF SetupInv, WillHold
<1>6. PlainKey(k) /\ KeyName(k) \in SetupOnly /\ Nameable(k) /\ k.pkg \in Packages
  BY Keys, PlainIsNameable DEF SetupOnly, PlainKey
<1>7. /\ Holds(staged', k) <=> After(TheCall(a), k, Holds(staged, k))
      /\ Holds(committed', k) <=>
           IF TheCall(a).op = "commit" /\ TheCall(a).pkg = k.pkg
           THEN Holds(staged', k) ELSE Holds(committed, k)
  BY <1>6 DEF Advances, ConfigKey
<1>8. CASE job[a].kind = "disable"
  <2>1. rest = Tail(prog[a]) /\ ~WillHold(a, k)
        /\ (Net(prog[a], Uncommitted(k.pkg)) = "off" \/ ~Holds(committed, k))
    BY <1>5, <1>8 DEF SetupInv
  <2>2. Closed(Tail(prog[a])) /\ (Net(prog[a], Uncommitted(k.pkg)) = "off" =>
            \/ Net(Tail(prog[a]), Uncommitted(k.pkg)) = "off"
            \/ TheCall(a).op = "commit" /\ TheCall(a).pkg = k.pkg)
    BY <1>2, <1>6, ClosedTail DEF TheCall
  <2>3. ~Final(rest, k, Holds(staged', k))
    <3>1. Good(<<>>, Bridgeable) /\ Net(<<>>, k) = "none" /\ <<>> \o Tail(prog[a]) = rest
      BY <1>2, <2>1, GoodEmpty, NetEmpty, NothingInserted DEF Good
    <3> HIDE DEF rest
    <3> QED
      BY <1>6, <2>1, <3>1, WillStillHold
  <2>4. ASSUME Net(rest, Uncommitted(k.pkg)) # "off"
        PROVE  ~Holds(committed', k) /\ ~Holds(staged', k)
    <3>1. Net(Tail(prog[a]), k) = "none"
      BY <1>2, <1>6, <2>1, <2>2, <2>4, CommitsLast DEF ConfigKey
    <3>2. ~Holds(staged', k)
      BY <2>1, <2>3, <3>1 DEF Final
    <3> QED
      BY <1>7, <2>1, <2>2, <2>4, <3>2
  <2>5. rest = <<>> => Net(rest, Uncommitted(k.pkg)) # "off"
    BY NetEmpty
  <2> HIDE DEF rest
  <2> QED
    BY <1>3, <1>8, <1>k, <2>3, <2>4, <2>5
<1>9. CASE job[a].kind \in {"setup", "uplink"}
  <2> HIDE DEF rest
  <2> QED
    BY <1>3, <1>4, <1>9, <1>k
<1>10. CASE job[a].kind \notin SetupJobs
  <2>1. Effect(TheCall(a), k) = "none"
    <3>1. Avoids(prog[a], SetupOnly)
      BY <1>10 DEF AuthorInv
    <3>2. Spares(TheCall(a), SetupOnly)
      BY <1>2, <3>1, AvoidsMany DEF TheCall
    <3> QED
      BY <1>6, <3>2, SparesEffect
  <2>2. Holds(staged', k) <=> Holds(staged, k)
    BY <1>7, <2>1 DEF After
  <2> HIDE DEF rest
  <2>3. past'.setup = past.setup /\ job'[a].kind \notin SetupJobs
    BY <1>3, <1>4, <1>10, <1>k
  <2>4. job'[a].kind # "disable"
    BY <2>3, <1>k
  <2>5. past.setup = "disable" => ~Holds(staged, k) /\ ~Holds(committed, k)
    BY <1>10 DEF SetupInv
  <2> QED
    BY <1>7, <2>2, <2>3, <2>4, <2>5
<1> QED
  BY <1>8, <1>9, <1>10, <1>k

LEMMA StartedSetup ==
  ASSUME Started, NEW a \in Tasks
  PROVE  /\ past'.setup = None \/ past'.setup = past.setup
         /\ job[a].kind \in SetupJobs => past'.setup = None
<1>1. CASE \E t \in Tasks : job[t].kind \in SetupJobs
  BY <1>1 DEF Started
<1>2. CASE ~\E t \in Tasks : job[t].kind \in SetupJobs
  BY <1>2 DEF Started
<1> QED
  BY <1>1, <1>2

LEMMA SetupNext ==
  ASSUME TypeInv, LeftInv, NEW a \in Tasks, AuthorInv(a), SetupInv(a), AuthorStep(a)
  PROVE  SetupInv(a)'
<1>k. Idle.kind = "idle" /\ SetupJobs = {"setup", "uplink", "disable"}
  BY DEF Idle, SetupJobs
<1>p. \A k \in SetupKeys : PlainKey(k) /\ KeyName(k) \in SetupOnly /\ Nameable(k)
                             /\ k.pkg \in Packages
  BY Keys, PlainIsNameable DEF SetupOnly, PlainKey
<1>1. CASE Advances(a)
  BY <1>1, SetupAdvances
<1>2. CASE EndsEarly(a)
  <2>1. /\ prog[a] # <<>> /\ job'[a] = Idle /\ committed' = committed
        /\ past'.setup = IF job[a].kind \in SetupJobs THEN None ELSE past.setup
    BY <1>2 DEF EndsEarly, GaveUp
  <2>2. CASE job[a].kind \notin SetupJobs
    <3>1. Spares(TheCall(a), SetupOnly)
      BY <2>1, <2>2, AvoidsMany DEF AuthorInv, TheCall
    <3>2. \A k \in SetupKeys : Effect(TheCall(a), k) = "none"
      BY <1>p, <3>1, SparesEffect
    <3>3. \A k \in SetupKeys : Holds(staged', k) <=> Holds(staged, k)
      BY <1>2, <1>p, <3>2 DEF EndsEarly, ConfigKey
    <3> QED
      BY <1>k, <2>1, <2>2, <3>3 DEF SetupInv
  <2>3. CASE job[a].kind \in SetupJobs
    <3>1. past'.setup # "disable"
      BY <2>1, <2>3, NoneAssumption
    <3> QED
      BY <1>k, <2>1, <3>1 DEF SetupInv
  <2> QED
    BY <2>2, <2>3
<1>3. CASE Begins(a)
  <2>1. /\ job[a].kind = "idle" /\ past' = past /\ staged' = staged /\ committed' = committed
    BY <1>3, <1>k DEF Begins, config
  <2>2. CASE job'[a].kind # "disable"
    BY <1>k, <2>1, <2>2 DEF SetupInv
  <2>3. CASE job'[a].kind = "disable"
    <3>1. prog'[a] = Disable(uplinkActive) /\ uplinkActive \in BOOLEAN
      <4>1. job'[a].kind = "disable" /\ uplinkActive \in BOOLEAN
        BY <2>3 DEF TypeInv, RestTyped
      <4>2. /\ \A p : ~BeginsWith(a, "profile", p, ApplyProfile(p, device, standby))
            /\ \A r, f : ~BeginsWith(a, "posture", [role |-> r, found |-> f],
                                   ApplyPosture(r, f))
            /\ ~BeginsWith(a, "setup", None, EnableSetup)
            /\ ~BeginsWith(a, "uplink", None, EnableUplink)
        BY <4>1 DEF BeginsWith
      <4>3. BeginsWith(a, "disable", None, Disable(uplinkActive))
        BY <1>3, <4>2 DEF Begins
      <4> QED
        BY <4>1, <4>3 DEF BeginsWith
    <3>2. ASSUME NEW k \in SetupKeys
          PROVE  /\ ~Final(prog'[a], k, Holds(staged', k))
                 /\ Net(prog'[a], Uncommitted(k.pkg)) = "off"
      <4>1. Net(prog'[a], k) = "off" /\ Net(prog'[a], Uncommitted(k.pkg)) = "off"
        BY <1>p, <3>1, DisableDoes
      <4> QED
        BY <4>1 DEF Final
    <3> QED
      BY <1>k, <2>3, <3>2 DEF SetupInv, WillHold
  <2> QED
    BY <2>2, <2>3
<1>4. CASE StartsAnew
  <2>1. job'[a] = Idle /\ committed' = committed /\ (staged' = staged \/ staged' = committed)
    BY <1>4 DEF StartsAnew, Started
  <2>2. /\ past'.setup = None \/ past'.setup = past.setup
        /\ job[a].kind \in SetupJobs => past'.setup = None
    BY <1>4, StartedSetup DEF StartsAnew
  <2>3. CASE job[a].kind \in SetupJobs
    <3>1. past'.setup # "disable"
      BY <2>2, <2>3, NoneAssumption
    <3> QED
      BY <1>k, <2>1, <3>1 DEF SetupInv
  <2>4. CASE job[a].kind \notin SetupJobs
    <3>1. past'.setup = "disable" => past.setup = "disable"
      BY <2>2, NoneAssumption
    <3> QED
      BY <1>k, <2>1, <2>4, <3>1 DEF SetupInv
  <2> QED
    BY <2>3, <2>4
<1>5. CASE Waits(a)
  <2>1. /\ prog'[a] = prog[a] /\ job'[a] = job[a] /\ past'.setup = past.setup
        /\ \A k : PlainKey(k) =>
             /\ Holds(staged', k) <=> Holds(staged, k)
             /\ (Holds(committed', k) <=> Holds(committed, k))
                  \/ (Holds(committed', k) <=> Holds(staged, k))
    BY <1>5 DEF Waits, SamePast, ConfigKey
  <2> SUFFICES ASSUME NEW k \in SetupKeys
               PROVE  /\ job'[a].kind = "disable" =>
                           /\ ~Final(prog'[a], k, Holds(staged', k))
                           /\ Net(prog'[a], Uncommitted(k.pkg)) = "off" \/ ~Holds(committed', k)
                      /\ past'.setup = "disable" /\ job'[a].kind \notin SetupJobs =>
                           ~Holds(staged', k) /\ ~Holds(committed', k)
    BY DEF SetupInv, WillHold
  <2>2. /\ Holds(staged', k) <=> Holds(staged, k)
        /\ (Holds(committed', k) <=> Holds(committed, k))
             \/ (Holds(committed', k) <=> Holds(staged, k))
    BY <1>p, <2>1
  <2>3. ASSUME Net(prog[a], Uncommitted(k.pkg)) # "off"
        PROVE  Net(prog[a], k) = "none"
    <3>1. Good(prog[a], Bridgeable) /\ Closed(prog[a])
      BY DEF TypeInv, TasksTyped, LeftInv, ProgramsClosed
    <3> QED
      BY <1>p, <2>3, <3>1, CommitsLast DEF ConfigKey
  <2>4. SetupInv(a)
    OBVIOUS
  <2> QED
    BY <2>1, <2>2, <2>3, <2>4 DEF SetupInv, WillHold, Final
<1> QED
  BY <1>1, <1>2, <1>3, <1>4, <1>5 DEF AuthorStep

LEMMA SetupInit ==
  ASSUME Init, NEW a \in Tasks
  PROVE  SetupInv(a)
<1>1. past.setup = None /\ job[a] = Idle /\ Idle.kind = "idle"
  BY DEF Init, Idle
<1> QED
  BY <1>1, NoneAssumption DEF SetupInv

\* Disable takes the uplink station away as far as the daemon knows of it: first
\* the sections, then what it knows.
UplinkInv(a) ==
  /\ \A k \in UplinkKeys :
       /\ job[a].kind # "uplink" /\ ~past.forgot /\ ~uplinkActive => ~Holds(staged, k)
       /\ past.setup = "disable" /\ job[a].kind \notin SetupJobs /\ ~past.forgot =>
            ~Holds(staged, k)
       /\ job[a].kind = "disable" =>
            /\ past.forgot \/ ~WillHold(a, k)
            /\ Precedes(prog[a], k, UplinkKnown)
            /\ ~uplinkActive => Net(prog[a], k) = "none"
  /\ job[a].kind = "uplink" => Final(prog[a], UplinkKnown, uplinkActive)

LEMMA UplinkAdvances ==
  ASSUME TypeInv, NEW a \in Tasks, AuthorInv(a), UplinkInv(a), Advances(a)
  PROVE  UplinkInv(a)'
<1>1. PICK X : Inserts(a, X) /\ Good(X, Bridgeable) /\ MovedOn(a, X \o Tail(prog[a]))
  BY DEF Advances
<1>2. /\ prog[a] # <<>> /\ IsProgram(prog[a]) /\ Good(Tail(prog[a]), Bridgeable)
      /\ IsProgram(Tail(prog[a]))
  BY TheCallTyped DEF Advances, TypeInv, TasksTyped, Good
<1> DEFINE rest == X \o Tail(prog[a])
<1>3. prog'[a] = rest /\ job'[a] = IF rest = <<>> THEN Idle ELSE job[a]
  BY <1>1 DEF MovedOn
<1>4. /\ past'.setup = IF rest = <<>> /\ job[a].kind \in SetupJobs THEN job[a].kind
                       ELSE past.setup
      /\ past'.forgot = IF rest = <<>> /\ job[a].kind \in SetupJobs
                        THEN past.forgot /\ job[a].kind # "uplink" ELSE past.forgot
  BY <1>1 DEF MovedOn
<1>5. job[a].kind # "profile" => rest = Tail(prog[a])
  BY <1>1, <1>2, AuthorAdvances
<1>k. Idle.kind = "idle" /\ SetupJobs = {"setup", "uplink", "disable"}
  BY DEF Idle, SetupJobs
<1>n. Nameable(UplinkKnown) /\ KeyName(UplinkKnown) = Known /\ Known \in SetupOnly
  BY DEF Nameable, KeyName, UplinkKnown, Fact, SetupOnly
<1>p. \A k \in UplinkKeys : PlainKey(k) /\ Nameable(k) /\ KeyName(k) \in UplinkNames
  BY Keys, PlainIsNameable
<1>6. uplinkActive' <=> After(TheCall(a), UplinkKnown, uplinkActive)
  BY DEF Advances
<1>7. \A k \in UplinkKeys : Holds(staged', k) <=> After(TheCall(a), k, Holds(staged, k))
  BY <1>p DEF Advances
<1>8. CASE job[a].kind = "uplink"
  <2>1. Final(prog[a], UplinkKnown, uplinkActive)
          = Final(Tail(prog[a]), UplinkKnown, After(TheCall(a), UplinkKnown, uplinkActive))
    BY <1>2, FinalTail DEF TheCall
  <2>2. rest = Tail(prog[a])
    BY <1>5, <1>8
  <2> HIDE DEF rest
  <2>3. Final(rest, UplinkKnown, uplinkActive')
    BY <1>6, <1>8, <2>1, <2>2 DEF Final, UplinkInv
  <2>4. rest = <<>> => uplinkActive'
    BY <2>3, NetEmpty DEF Final
  <2>5. CASE rest = <<>>
    <3>1. job'[a].kind = "idle" /\ past'.setup = "uplink" /\ uplinkActive'
      BY <1>3, <1>4, <1>8, <1>k, <2>4, <2>5
    <3> QED
      BY <3>1 DEF UplinkInv
  <2>6. CASE rest # <<>>
    <3>1. job'[a].kind = "uplink" /\ prog'[a] = rest
      BY <1>3, <1>8, <2>6
    <3> QED
      BY <1>k, <2>3, <3>1 DEF UplinkInv
  <2> QED
    BY <2>5, <2>6
<1>9. CASE job[a].kind = "disable"
  <2>1. rest = Tail(prog[a])
    BY <1>5, <1>9
  <2>2. ASSUME NEW k \in UplinkKeys
        PROVE  /\ past.forgot \/ ~Final(rest, k, Holds(staged', k))
               /\ Precedes(rest, k, UplinkKnown)
               /\ ~uplinkActive' => Net(rest, k) = "none"
               /\ ~uplinkActive' /\ ~past.forgot => ~Holds(staged', k)
    <3>1. /\ past.forgot \/ ~WillHold(a, k)
          /\ Precedes(prog[a], k, UplinkKnown)
          /\ ~uplinkActive => Net(prog[a], k) = "none"
      BY <1>9 DEF UplinkInv
    <3>2. Final(rest, k, Holds(staged', k)) <=> WillHold(a, k)
      <4>1. Good(<<>>, Bridgeable) /\ Net(<<>>, k) = "none" /\ <<>> \o Tail(prog[a]) = rest
        BY <1>2, <2>1, GoodEmpty, NetEmpty, NothingInserted
      <4> HIDE DEF rest
      <4> QED
        BY <1>p, <4>1, WillStillHold
    <3>3. /\ Precedes(Tail(prog[a]), k, UplinkKnown)
          /\ Effect(TheCall(a), UplinkKnown) # "none" => Net(Tail(prog[a]), k) = "none"
      BY <1>2, <3>1, PrecedesMany DEF TheCall
    <3>4. ~uplinkActive' => Net(Tail(prog[a]), k) = "none"
      <4>1. CASE uplinkActive /\ ~uplinkActive'
        BY <1>6, <3>3, <4>1 DEF After
      <4>2. CASE ~uplinkActive
        <5>1. Net(prog[a], k) = Later(Effect(TheCall(a), k), Net(Tail(prog[a]), k))
          BY <1>2, NetHeadTail DEF TheCall
        <5> QED
          BY <3>1, <4>2, <5>1 DEF Later
      <4> QED
        BY <4>1, <4>2
    <3> HIDE DEF rest
    <3>5. ~uplinkActive' /\ ~past.forgot => ~Holds(staged', k)
      BY <2>1, <3>1, <3>2, <3>4 DEF Final
    <3> QED
      BY <2>1, <3>1, <3>2, <3>3, <3>4, <3>5
  <2>3. past'.forgot <=> past.forgot
    BY <1>4, <1>9
  <2> HIDE DEF rest
  <2>4. CASE rest = <<>>
    <3>1. job'[a].kind = "idle"
      BY <1>3, <1>k, <2>4
    <3>2. \A k \in UplinkKeys : past.forgot \/ ~Holds(staged', k)
      BY <2>2, <2>4, NetEmpty DEF Final
    <3> QED
      BY <2>2, <2>3, <3>1, <3>2 DEF UplinkInv
  <2>5. CASE rest # <<>>
    <3>1. job'[a].kind = "disable" /\ prog'[a] = rest
      BY <1>3, <1>9, <2>5
    <3> QED
      BY <1>k, <2>2, <2>3, <3>1 DEF UplinkInv, WillHold
  <2> QED
    BY <2>4, <2>5
<1>10. CASE job[a].kind \notin {"uplink", "disable"}
  <2>1. Avoids(prog[a], UplinkNames \cup {Known})
    <3>1. UplinkNames \cup {Known} \subseteq SetupOnly
      BY DEF SetupOnly
    <3> QED
      BY <1>10, <1>k, <3>1, AvoidsMany DEF AuthorInv
  <2>2. Spares(TheCall(a), UplinkNames \cup {Known})
    BY <1>2, <2>1, AvoidsMany DEF TheCall
  <2>3. \A k \in UplinkKeys : Holds(staged', k) <=> Holds(staged, k)
    BY <1>7, <1>p, <2>2, SparesEffect DEF After
  <2>4. uplinkActive' <=> uplinkActive
    BY <1>6, <1>n, <2>2, SparesEffect DEF After
  <2> HIDE DEF rest
  <2>5. job'[a].kind \notin {"uplink", "disable"} /\ (past'.forgot <=> past.forgot)
    BY <1>3, <1>4, <1>10, <1>k
  <2>6. past'.setup = "disable" /\ job'[a].kind \notin SetupJobs =>
          past.setup = "disable" /\ job[a].kind \notin SetupJobs
    <3>1. CASE rest = <<>> /\ job[a].kind \in SetupJobs
      <4>1. past'.setup = "setup"
        BY <1>4, <1>10, <1>k, <3>1
      <4> QED
        BY <4>1
    <3>2. CASE ~(rest = <<>> /\ job[a].kind \in SetupJobs)
      BY <1>3, <1>4, <1>k, <3>2
    <3> QED
      BY <3>1, <3>2
  <2> QED
    BY <1>10, <2>3, <2>4, <2>5, <2>6 DEF UplinkInv
<1> QED
  BY <1>8, <1>9, <1>10

LEMMA UplinkBegins ==
  ASSUME TypeInv, NEW a \in Tasks, UplinkInv(a), Begins(a)
  PROVE  UplinkInv(a)'
<1>1. /\ job[a].kind = "idle" /\ past' = past /\ staged' = staged
      /\ uplinkActive' = uplinkActive /\ uplinkActive \in BOOLEAN
  BY DEF Begins, config, results, Idle, TypeInv, RestTyped
<1>k. SetupJobs = {"setup", "uplink", "disable"}
  BY DEF SetupJobs
<1>2. CASE job'[a].kind \notin {"uplink", "disable"}
  BY <1>1, <1>2, <1>k DEF UplinkInv
<1>3. CASE job'[a].kind \in {"uplink", "disable"}
  <2>1. /\ \A p : ~BeginsWith(a, "profile", p, ApplyProfile(p, device, standby))
        /\ \A r, f : ~BeginsWith(a, "posture", [role |-> r, found |-> f],
                                   ApplyPosture(r, f))
        /\ ~BeginsWith(a, "setup", None, EnableSetup)
    BY <1>3 DEF BeginsWith
  <2>2. CASE BeginsWith(a, "uplink", None, EnableUplink)
    <3>1. job'[a].kind = "uplink" /\ prog'[a] = EnableUplink
      BY <2>2 DEF BeginsWith
    <3>2. Final(prog'[a], UplinkKnown, uplinkActive')
      BY <3>1, UplinkDoes DEF Final
    <3> QED
      BY <1>k, <3>1, <3>2 DEF UplinkInv
  <2>3. CASE BeginsWith(a, "disable", None, Disable(uplinkActive))
    <3>1. job'[a].kind = "disable" /\ prog'[a] = Disable(uplinkActive)
      BY <2>3 DEF BeginsWith
    <3>2. ASSUME NEW k \in UplinkKeys
          PROVE  /\ past'.forgot \/ ~Final(prog'[a], k, Holds(staged', k))
                 /\ Precedes(prog'[a], k, UplinkKnown)
                 /\ ~uplinkActive' => Net(prog'[a], k) = "none"
                 /\ ~past'.forgot /\ ~uplinkActive' => ~Holds(staged', k)
      <4>1. /\ Net(prog'[a], k) = IF uplinkActive THEN "off" ELSE "none"
            /\ Precedes(prog'[a], k, UplinkKnown)
        BY <1>1, <3>1, DisableDoes
      <4>2. ~past.forgot /\ ~uplinkActive => ~Holds(staged, k)
        BY <1>1 DEF UplinkInv
      <4>3. CASE uplinkActive
        BY <1>1, <4>1, <4>2, <4>3 DEF Final
      <4>4. CASE ~uplinkActive
        BY <1>1, <4>1, <4>2, <4>4 DEF Final
      <4> QED
        BY <4>3, <4>4
    <3> QED
      BY <1>k, <3>1, <3>2 DEF UplinkInv, WillHold
  <2> QED
    BY <2>1, <2>2, <2>3 DEF Begins
<1> QED
  BY <1>2, <1>3

LEMMA UplinkNext ==
  ASSUME TypeInv, NEW a \in Tasks, AuthorInv(a), UplinkInv(a), AuthorStep(a)
  PROVE  UplinkInv(a)'
<1>k. Idle.kind = "idle" /\ SetupJobs = {"setup", "uplink", "disable"}
  BY DEF Idle, SetupJobs
<1>p. \A k \in UplinkKeys : PlainKey(k) /\ Nameable(k) /\ KeyName(k) \in UplinkNames
  BY Keys, PlainIsNameable
<1>1. CASE Advances(a)
  BY <1>1, UplinkAdvances
<1>2. CASE EndsEarly(a)
  <2>1. /\ prog[a] # <<>> /\ job'[a] = Idle /\ uplinkActive' = uplinkActive
        /\ (past'.forgot <=> past.forgot \/ job[a].kind = "uplink")
        /\ past'.setup = IF job[a].kind \in SetupJobs THEN None ELSE past.setup
        /\ IsProgram(prog[a])
    BY <1>2 DEF EndsEarly, GaveUp, results, TypeInv, TasksTyped, Good
  <2>2. CASE job[a].kind = "uplink"
    BY <1>k, <2>1, <2>2 DEF UplinkInv
  <2>3. CASE job[a].kind = "disable"
    <3>1. past'.setup # "disable" /\ (past'.forgot <=> past.forgot) /\ job'[a].kind = "idle"
      BY <1>k, <2>1, <2>3, NoneAssumption
    <3>2. ASSUME NEW k \in UplinkKeys, ~past.forgot, ~uplinkActive
          PROVE  ~Holds(staged', k)
      <4>1. Net(prog[a], k) = "none" /\ ~Holds(staged, k)
        BY <2>3, <3>2 DEF UplinkInv
      <4>2. Effect(TheCall(a), k) = "none"
        <5>1. Head(prog[a]) \in ToSet(prog[a])
          BY <2>1, HeadTail
        <5> QED
          BY <2>1, <4>1, <5>1, NetNone DEF TheCall
      <4> QED
        BY <1>2, <1>p, <4>1, <4>2 DEF EndsEarly, ConfigKey
    <3> QED
      BY <2>1, <3>1, <3>2 DEF UplinkInv
  <2>4. CASE job[a].kind \notin {"uplink", "disable"}
    <3>1. Avoids(prog[a], UplinkNames \cup {Known})
      <4>1. UplinkNames \cup {Known} \subseteq SetupOnly
        BY DEF SetupOnly
      <4> QED
        BY <1>k, <2>4, <4>1, AvoidsMany DEF AuthorInv
    <3>2. Spares(TheCall(a), UplinkNames \cup {Known})
      BY <2>1, <3>1, AvoidsMany DEF TheCall
    <3>3. \A k \in UplinkKeys : Holds(staged', k) <=> Holds(staged, k)
      BY <1>2, <1>p, <3>2, SparesEffect DEF EndsEarly, ConfigKey
    <3>4. past'.setup = "disable" => past.setup = "disable" /\ job[a].kind \notin SetupJobs
      BY <2>1, NoneAssumption
    <3>5. (past'.forgot <=> past.forgot) /\ job'[a].kind = "idle"
      BY <1>k, <2>1, <2>4
    <3> QED
      BY <2>1, <2>4, <3>3, <3>4, <3>5 DEF UplinkInv
  <2> QED
    BY <2>2, <2>3, <2>4
<1>3. CASE Begins(a)
  BY <1>3, UplinkBegins
<1>4. CASE StartsAnew
  <2>1. job'[a] = Idle /\ (past'.forgot <=> \E s \in UplinkSections : Has(staged', s[1], s[2]))
    BY <1>4 DEF StartsAnew, Started
  <2>2. \A k \in UplinkKeys : ~past'.forgot => ~Holds(staged', k)
    BY <2>1, ExistsHolds DEF UplinkKeys
  <2> QED
    BY <1>k, <2>1, <2>2 DEF UplinkInv
<1>5. CASE Waits(a)
  <2>1. /\ prog'[a] = prog[a] /\ job'[a] = job[a] /\ past'.setup = past.setup
        /\ (past'.forgot <=> past.forgot) /\ uplinkActive' = uplinkActive
        /\ \A k \in UplinkKeys : Holds(staged', k) <=> Holds(staged, k)
    BY <1>5, <1>p DEF Waits, SamePast, results, ConfigKey
  <2>2. \A k \in UplinkKeys :
          Final(prog'[a], k, Holds(staged', k)) <=> Final(prog[a], k, Holds(staged, k))
    BY <2>1 DEF Final
  <2> QED
    BY <2>1, <2>2 DEF UplinkInv, WillHold
<1> QED
  BY <1>1, <1>2, <1>3, <1>4, <1>5 DEF AuthorStep

\* What the device starts with: its sections, those of the setup AP, and the jacks in
\* the bridge.
LEMMA FirstBootIs ==
  /\ Members(FirstBoot) = LanPorts
  /\ \A pkg \in Packages :
       \A s : s \notin {LanDevice, Section("lan"), Section("wan"), SetupNet, SetupWifi}
               /\ (\A r : s # RadioSection(r)) =>
                 ~Has(FirstBoot, pkg, s)
<1> DEFINE net == WithOptions(Factory, "network", SetupNet, [proto |-> "static"])
           dhcp == WithOptions(net, "dhcp", SetupNet, [interface |-> "ommsetup"])
           wifi == WithOptions(dhcp, "wireless", SetupWifi, [mode |-> "ap"])
           radio == RadioSection(SetupRadio)
<1>0. "network" \in Packages /\ "wireless" \in Packages /\ "dhcp" \in Packages
  BY DEF Packages
<1>1. SetupNet # LanDevice /\ SetupWifi # LanDevice /\ radio # LanDevice
  BY Names DEF SetupNet, SetupWifi
<1>2. IsConfig(Factory)
  BY FactoryTyped DEF ConfigTyped
<1>3. SameBut(Factory, net, "network", SetupNet)
  BY <1>0, <1>2, WithOptionsIs
<1>4. SameBut(net, dhcp, "dhcp", SetupNet)
  BY <1>0, <1>3, WithOptionsIs DEF SameBut
<1>5. SameBut(dhcp, wifi, "wireless", SetupWifi)
  BY <1>0, <1>4, WithOptionsIs DEF SameBut
<1>6. SameBut(wifi, FirstBoot, "wireless", radio)
  BY <1>0, <1>5, WithOptionsIs DEF SameBut, FirstBoot
<1> HIDE DEF net, dhcp, wifi
<1>7. Members(FirstBoot) = Members(Factory)
  BY <1>0, <1>1, <1>3, <1>4, <1>5, <1>6, SameMembers
<1>8. Members(Factory) = LanPorts
  BY FactoryTyped
<1>9. ASSUME NEW pkg \in Packages, NEW s,
             s \notin {LanDevice, Section("lan"), Section("wan"), SetupNet, SetupWifi},
             \A r : s # RadioSection(r)
      PROVE  ~Has(FirstBoot, pkg, s)
  <2>1. ~Has(Factory, pkg, s)
    BY <1>9 DEF Factory, Has, Packages
  <2> QED
    BY <1>3, <1>4, <1>5, <1>6, <1>9, <2>1 DEF SameBut, Has, Packages
<1> QED
  BY <1>7, <1>8, <1>9

LEMMA UplinkInit ==
  ASSUME Init, NEW a \in Tasks
  PROVE  UplinkInv(a)
<1>1. staged = FirstBoot /\ past.setup = None /\ job[a] = Idle /\ Idle.kind = "idle"
  BY DEF Init, Idle
<1>2. "network" \in Packages /\ "wireless" \in Packages
  BY DEF Packages
<1>3. /\ UplinkNet \notin {LanDevice, Section("lan"), Section("wan"), SetupNet, SetupWifi}
      /\ UplinkWifi \notin {LanDevice, Section("lan"), Section("wan"), SetupNet, SetupWifi}
      /\ \A r : UplinkNet # RadioSection(r) /\ UplinkWifi # RadioSection(r)
  BY DEF UplinkNet, SetupNet, UplinkWifi, SetupWifi, LanDevice, RadioSection, Section,
         Named
<1>4. ~Has(staged, "network", UplinkNet) /\ ~Has(staged, "wireless", UplinkWifi)
  BY <1>1, <1>2, <1>3, FirstBootIs
<1>5. \A k \in UplinkKeys : ~Holds(staged, k)
  BY <1>4, ExistsHolds DEF UplinkKeys, UplinkSections
<1> QED
  BY <1>1, <1>5, NoneAssumption DEF UplinkInv

\* What is staged runs when nothing is left of it.
LEMMA RestingRuns ==
  ASSUME TypeInv, LeftInv, AtRest, past.torn = {}
  PROVE  \A p \in Packages : staged[p] = running[p] /\ committed[p] = running[p]
<1>1. Dirty(staged, committed, running) = {}
  BY LeftIsNothing DEF NothingLeftStaged
<1> QED
  BY <1>1 DEF Dirty

LEMMA GoneIsGone ==
  ASSUME TypeInv, LeftInv, NEW a, Authors = {a}, SetupInv(a), UplinkInv(a)
  PROVE  SetupGone
<1> SUFFICES ASSUME AtRest, past.setup = "disable", past.torn = {}
             PROVE  /\ \A s \in SetupSections : ~Has(running, s[1], s[2])
                    /\ past.forgot \/ \A s \in UplinkSections : ~Has(running, s[1], s[2])
  BY DEF SetupGone
<1>1. job[a].kind \notin SetupJobs
  BY DEF AtRest, TypeInv, TasksTyped, Tasks, Idle, SetupJobs
<1>2. \A p \in Packages : staged[p] = running[p]
  BY RestingRuns
<1>3. ASSUME NEW s \in SetupSections
      PROVE  ~Has(running, s[1], s[2])
  <2>1. Exists(s[1], s[2]) \in SetupKeys /\ s[1] \in Packages
    BY DEF SetupKeys, SetupSections, Packages
  <2>2. ~Has(staged, s[1], s[2])
    BY <1>1, <2>1, ExistsHolds DEF SetupInv
  <2> QED
    BY <1>2, <2>1, <2>2 DEF Has
<1>4. ASSUME NEW s \in UplinkSections, ~past.forgot
      PROVE  ~Has(running, s[1], s[2])
  <2>1. Exists(s[1], s[2]) \in UplinkKeys /\ s[1] \in Packages
    BY DEF UplinkKeys, UplinkSections, Packages
  <2>2. ~Has(staged, s[1], s[2])
    BY <1>1, <1>4, <2>1, ExistsHolds DEF UplinkInv
  <2> QED
    BY <1>2, <2>1, <2>2 DEF Has
<1> QED
  BY <1>3, <1>4

\* On a device whose setup is complete neither the setup AP nor an uplink station
\* that the daemon knows of runs, whatever profiles and postures are applied, calls
\* fail and restarts come in between, with one author (main.go's bootstrap and the
\* API take turns): setupap.Manager.Disable removes what it is to remove, and nothing
\* else brings it back.
THEOREM SetupIsGone ==
  ASSUME NEW a, Authors = {a}
  PROVE  Spec => []SetupGone
<1> DEFINE Inv == TypeInv /\ LeftInv /\ SoleInv(a) /\ AuthorInv(a)
                    /\ SetupInv(a) /\ UplinkInv(a)
<1>0. a \in Tasks
  BY DEF Tasks
<1>1. Init => Inv
  BY <1>0, TypeInit, LeftInit, SoleInit, AuthorInit, SetupInit, UplinkInit
<1>2. Inv /\ [Next]_vars => Inv'
  <2> SUFFICES ASSUME Inv, [Next]_vars
               PROVE  Inv'
    OBVIOUS
  <2>1. TypeInv' /\ LeftInv'
    BY TypeNext, LeftNext
  <2>2. SoleInv(a)' /\ AuthorStep(a)
    BY OneAuthorStep
  <2>3. AuthorInv(a)' /\ SetupInv(a)' /\ UplinkInv(a)'
    BY <1>0, <2>2, AuthorNext, SetupNext, UplinkNext
  <2> QED
    BY <2>1, <2>2, <2>3
<1>3. Inv => SetupGone
  BY GoneIsGone
<1> HIDE DEF Inv
<1> QED
  BY <1>1, <1>2, <1>3, PTL DEF Spec

-----------------------------------------------------------------------------
(* The mesh, batman and the ports *)

\* The jacks of the device ship in the LAN bridge, the uplink beside it, and a wired
\* backhaul (MESHD_BATMAN_PORTS) is over a jack.
JacksApart == Uplink \notin LanPorts /\ \A d \in Devices : d.wired \subseteq LanPorts

\* Ports that only a profile application moves; another author moves the uplink.
WiredJacks == device.wired \ {Uplink}

LinkKeys ==
  {MeshKey, AttachedKey, BatKey, HardifKey, Bridged(Iface)}
    \cup {WiredKey(p) : p \in WiredJacks} \cup {Bridged(p) : p \in WiredJacks}

\* Names by which batman's sections and members are edited, and by which a program
\* gets to edit them
Wiring ==
  BatmanNames \cup {Fallback, Member(Iface)} \cup {Member(p) : p \in WiredJacks}

\* The author applies a profile that takes batman along.
Wires(a) == job[a].kind = "profile" /\ BatmanOn(job[a].arg, device)

\* Members that no program moves
Others == {Member(p) : p \in LanPorts \ (device.wired \cup {Uplink})}

\* What the author keeps away from, besides what AuthorInv says: batman's sections
\* and members, unless it applies a profile with batman; a jack that is not wired,
\* always; and the uplink, unless it applies a posture.
SparesInv(a) ==
  /\ ~Wires(a) => Avoids(prog[a], Wiring)
  /\ Avoids(prog[a], Others)
  /\ JacksApart /\ job[a].kind # "posture" => Avoids(prog[a], {Member(Uplink)})

LEMMA LinkNames ==
  /\ Wiring \cap MeshNames = {} /\ Wiring \cap APNames = {} /\ Application \notin Wiring
  /\ Wiring \cap RadioNames = {} /\ Wiring \cap PostureNames = {}
  /\ Wiring \cap SetupNames = {} /\ Wiring \cap UplinkNames = {} /\ Known \notin Wiring
  /\ Fallback \in Wiring /\ BatmanNames \subseteq Wiring /\ Member(Iface) \in Wiring
  /\ \A p \in WiredJacks : Member(p) \in Wiring
<1> DEFINE names == MeshNames \cup APNames \cup RadioNames \cup PostureNames
                      \cup SetupNames \cup UplinkNames \cup {Known, Application}
           members == {Member(Iface)} \cup {Member(p) : p \in WiredJacks}
<1>1. (BatmanNames \cup {Fallback}) \cap names = {}
  BY DEF BatmanNames, Fallback, MeshNames, APNames, Application, RadioNames,
         PostureNames, SetupNames, UplinkNames, Known
<1>2. \A d : Member(d) \notin names
  BY DEF Member, MeshNames, APNames, Application, RadioNames, PostureNames, SetupNames,
         UplinkNames, Known
<1>3. members \cap names = {}
  BY <1>2
<1>4. Wiring = BatmanNames \cup {Fallback} \cup members
  BY DEF Wiring
<1>5. Wiring \cap names = {}
  BY <1>1, <1>3, <1>4
<1>6. \A p \in WiredJacks : Member(p) \in members
  OBVIOUS
<1>7. Member(Iface) \in members
  OBVIOUS
<1> HIDE DEF members
<1> QED
  BY <1>4, <1>5, <1>6, <1>7

LEMMA LinkMembers ==
  ASSUME TypeInv
  PROVE  /\ Iface # Uplink /\ Iface \notin device.wired /\ Iface \notin LanPorts
         /\ Member(Uplink) \notin Wiring
         /\ Member(Uplink) \notin Others
         /\ \A d \in device.wired \cup {Iface} : Member(d) \notin Others
         /\ JacksApart => \A d \in device.wired \cup {Iface} : Member(d) \notin {Member(Uplink)}
<1>1. /\ Iface # Uplink /\ Iface \notin device.wired /\ Iface \notin LanPorts
      /\ device \in Devices
  BY PortAssumption DEF TypeInv, RestTyped
<1>2. \A p, q : Member(p) = Member(q) => p = q
  BY DEF Member
<1>3. Member(Uplink) \notin Wiring
  <2>1. Member(Uplink) \notin BatmanNames \cup {Fallback}
    BY DEF Member, BatmanNames, Fallback
  <2> QED
    BY <1>1, <1>2, <2>1 DEF Wiring, WiredJacks
<1>4. Member(Uplink) \notin Others
  BY <1>2 DEF Others
<1>5. \A d \in device.wired \cup {Iface} : Member(d) \notin Others
  BY <1>1, <1>2 DEF Others
<1>6. JacksApart => Uplink \notin device.wired \cup {Iface}
  BY <1>1 DEF JacksApart
<1> QED
  BY <1>1, <1>2, <1>3, <1>4, <1>5, <1>6

LEMMA OtherNames ==
  /\ \A S \in {Others, {Member(Uplink)}} :
       /\ S \cap MeshNames = {} /\ S \cap APNames = {} /\ S \cap BatmanNames = {}
       /\ S \cap RadioNames = {} /\ S \cap PostureNames = {}
       /\ S \cap SetupNames = {} /\ S \cap UplinkNames = {}
       /\ Known \notin S /\ Application \notin S /\ Fallback \notin S
BY DEF Others, Member, BatmanNames, Fallback, MeshNames, APNames, Application, RadioNames,
       PostureNames, SetupNames, UplinkNames, Known

LEMMA LinkFacts ==
  ASSUME NEW k, k \in LinkKeys
  PROVE  /\ PlainKey(k) /\ Nameable(k) /\ k.pkg \in {"network", "wireless"}
         /\ k.pkg = "network" => KeyName(k) \in Wiring
         /\ k.pkg = "wireless" => KeyName(k) \in MeshNames
         /\ KeyName(k) \notin APNames
<1>1. CASE k \in {MeshKey, AttachedKey}
  <2>1. PlainKey(k) /\ KeyName(k) \in MeshNames
    BY <1>1, Keys
  <2>2. k.pkg = "wireless"
    <3>1. MeshKey.pkg = "wireless" /\ AttachedKey.pkg = "wireless"
      BY DEF MeshKey, AttachedKey, Exists, HasOption, Fact
    <3> QED
      BY <1>1, <3>1
  <2>3. MeshNames \cap APNames = {}
    BY DEF MeshNames, APNames
  <2> QED
    BY <2>1, <2>2, <2>3, PlainIsNameable
<1>2. CASE k \in {BatKey, HardifKey} \cup {WiredKey(p) : p \in WiredJacks}
  <2>1. PlainKey(k) /\ KeyName(k) \in BatmanNames
    BY <1>2, Keys
  <2>2. k.pkg = "network"
    <3>1. BatKey.pkg = "network" /\ HardifKey.pkg = "network"
          /\ \A p : WiredKey(p).pkg = "network"
      BY DEF BatKey, HardifKey, WiredKey, Exists, Fact
    <3> QED
      BY <1>2, <3>1
  <2> QED
    BY <2>1, <2>2, LinkNames, PlainIsNameable
<1>3. CASE k \in {Bridged(Iface)} \cup {Bridged(p) : p \in WiredJacks}
  <2>1. PICK d : k = Bridged(d) /\ d \in {Iface} \cup WiredJacks
    BY <1>3
  <2>2. PlainKey(k) /\ KeyName(k) = Member(d)
    BY <2>1, Keys
  <2>3. k.pkg = "network"
    <3>1. \A p : Bridged(p).pkg = "network"
      BY DEF Bridged, Fact
    <3> QED
      BY <2>1, <3>1
  <2>4. Member(d) \in Wiring
    BY <2>1, LinkNames
  <2> QED
    BY <2>2, <2>3, <2>4, LinkNames, PlainIsNameable
<1> QED
  BY <1>1, <1>2, <1>3 DEF LinkKeys

LEMMA SparesStay ==
  ASSUME device' = device
  PROVE  /\ Wiring' = Wiring /\ Others' = Others /\ LinkKeys' = LinkKeys
         /\ WiredJacks' = WiredJacks
BY DEF Wiring, Others, LinkKeys, WiredJacks

\* Without a look at batman nothing that is inserted has to do with it.
LEMMA InsertsSpare ==
  ASSUME NEW t \in Tasks, NEW X, Inserts(t, X), Spares(TheCall(t), Wiring)
  PROVE  Avoids(X, Wiring)
<1>1. /\ Avoids(<<>>, Wiring) /\ Avoids(Degrade, Wiring)
      /\ \A state : Avoids(SetBackhaulState(state), Wiring)
  BY LinkNames, AvoidsMany, VerdictsAvoid
<1>2. Avoids(Deletes(Stale(t)), Wiring)
  <2>1. Footprint(Deletes(Stale(t)), APNames, {})
    BY DeletesFootprint DEF Stale
  <2> QED
    BY <2>1, LinkNames, AvoidsRest
<1>3. TheCall(t).op # "batman_up"
  BY LinkNames DEF Spares
<1> QED
  BY <1>1, <1>2, <1>3, AvoidsConcat DEF Inserts

LEMMA SparesAdvances ==
  ASSUME TypeInv, NEW a \in Tasks, SparesInv(a), prog[a] # <<>>, device' = device,
         NEW X, Inserts(a, X), MovedOn(a, X \o Tail(prog[a]))
  PROVE  SparesInv(a)'
<1> DEFINE rest == X \o Tail(prog[a])
<1>1. prog'[a] = rest /\ job'[a] = IF rest = <<>> THEN Idle ELSE job[a]
  BY DEF MovedOn
<1>2. ASSUME NEW S, Avoids(prog[a], S)
      PROVE  Spares(TheCall(a), S) /\ Avoids(Tail(prog[a]), S)
  BY <1>2, AvoidsMany DEF TheCall
<1>3. ~Wires(a) => Avoids(rest, Wiring)
  <2>1. ASSUME ~Wires(a)
        PROVE  Avoids(Tail(prog[a]), Wiring) /\ Avoids(X, Wiring)
    <3>1. Spares(TheCall(a), Wiring) /\ Avoids(Tail(prog[a]), Wiring)
      BY <1>2, <2>1 DEF SparesInv
    <3> QED
      BY <3>1, InsertsSpare
  <2> QED
    BY <2>1, AvoidsConcat
<1>4. Avoids(rest, Others)
  <2>1. Avoids(X, Others)
    BY OtherNames, LinkMembers, InsertsAvoid
  <2> QED
    BY <1>2, <2>1, AvoidsConcat DEF SparesInv
<1>5. ASSUME JacksApart, job[a].kind # "posture"
      PROVE  Avoids(rest, {Member(Uplink)})
  <2>1. Avoids(X, {Member(Uplink)})
    BY <1>5, OtherNames, LinkMembers, InsertsAvoid
  <2> QED
    BY <1>2, <1>5, <2>1, AvoidsConcat DEF SparesInv
<1> HIDE DEF rest
<1>6. \A S : Avoids(<<>>, S)
  BY AvoidsMany
<1>7. CASE rest = <<>>
  BY <1>1, <1>6, <1>7 DEF SparesInv
<1>8. CASE rest # <<>>
  <2>1. job'[a] = job[a]
    BY <1>1, <1>8
  <2>2. Wires(a)' <=> Wires(a)
    BY <2>1 DEF Wires
  <2> QED
    BY <1>1, <1>3, <1>4, <1>5, <2>1, <2>2, SparesStay DEF SparesInv
<1> QED
  BY <1>7, <1>8

LEMMA SparesBegins ==
  ASSUME TypeInv, NEW a \in Tasks, Begins(a), device' = device
  PROVE  SparesInv(a)'
<1>1. CASE \E p \in Applied : BeginsWith(a, "profile", p, ApplyProfile(p, device, standby))
  <2>1. PICK p \in Applied : BeginsWith(a, "profile", p, ApplyProfile(p, device, standby))
    BY <1>1
  <2> DEFINE P == ApplyProfile(p, device, standby)
  <2>2. job'[a].kind = "profile" /\ job'[a].arg = p /\ prog'[a] = P
    BY <2>1 DEF BeginsWith
  <2>3. ~BatmanOn(p, device) => Avoids(P, Wiring)
    BY ListedRadios, WiredFacts, LinkNames, ProfileAvoids
  <2>4. Avoids(P, Others)
    BY ListedRadios, WiredFacts, OtherNames, LinkMembers, ProfileAvoids
  <2>5. JacksApart => Avoids(P, {Member(Uplink)})
    BY ListedRadios, WiredFacts, OtherNames, LinkMembers, ProfileAvoids
  <2> HIDE DEF P
  <2>6. Wires(a)' <=> BatmanOn(p, device)
    BY <2>2 DEF Wires
  <2> QED
    BY <2>2, <2>3, <2>4, <2>5, <2>6, SparesStay DEF SparesInv
<1>2. CASE \E r \in Roles, f \in BOOLEAN :
        BeginsWith(a, "posture", [role |-> r, found |-> f], ApplyPosture(r, f))
  <2>1. PICK r \in Roles, f \in BOOLEAN :
          BeginsWith(a, "posture", [role |-> r, found |-> f], ApplyPosture(r, f))
    BY <1>2
  <2>2. Avoids(ApplyPosture(r, f), Wiring) /\ Avoids(ApplyPosture(r, f), Others)
    BY LinkNames, OtherNames, LinkMembers, PostureAvoids
  <2>3. job'[a].kind = "posture" /\ prog'[a] = ApplyPosture(r, f)
    BY <2>1 DEF BeginsWith
  <2> QED
    BY <2>2, <2>3, SparesStay DEF SparesInv
<1>3. \A S \in {Wiring, Others, {Member(Uplink)}} :
        S \cap SetupNames = {} /\ S \cap UplinkNames = {} /\ S \cap RadioNames = {}
          /\ Known \notin S
  BY LinkNames, OtherNames
<1>4. \A S \in {Wiring, Others, {Member(Uplink)}} :
        /\ Avoids(EnableSetup, S) /\ Avoids(EnableUplink, S)
        /\ \A active : Avoids(Disable(active), S)
  BY <1>3, SetupAvoids
<1>5. CASE \/ BeginsWith(a, "setup", None, EnableSetup)
           \/ BeginsWith(a, "uplink", None, EnableUplink)
           \/ BeginsWith(a, "disable", None, Disable(uplinkActive))
  <2>1. prog'[a] \in {EnableSetup, EnableUplink, Disable(uplinkActive)}
    BY <1>5 DEF BeginsWith
  <2> QED
    BY <1>4, <2>1, SparesStay DEF SparesInv
<1> QED
  BY <1>1, <1>2, <1>5 DEF Begins

LEMMA SparesNothing ==
  ASSUME NEW a, prog[a] = <<>>
  PROVE  SparesInv(a)
BY AvoidsMany DEF SparesInv

LEMMA SparesNext ==
  ASSUME TypeInv, NEW a \in Tasks, SparesInv(a), AuthorStep(a)
  PROVE  SparesInv(a)'
<1>0. device' = device
  BY DEF AuthorStep
<1>1. CASE Advances(a)
  BY <1>0, <1>1, SparesAdvances DEF Advances
<1>2. CASE EndsEarly(a) \/ StartsAnew
  <2>1. prog'[a] = <<>>
    BY <1>2 DEF EndsEarly, GaveUp, StartsAnew, Started
  <2> QED
    BY <2>1, AvoidsMany DEF SparesInv
<1>3. CASE Begins(a)
  BY <1>0, <1>3, SparesBegins
<1>4. CASE Waits(a)
  <2>1. prog'[a] = prog[a] /\ job'[a] = job[a]
    BY <1>4 DEF Waits
  <2>2. Wires(a)' <=> Wires(a)
    BY <1>0, <2>1 DEF Wires
  <2> QED
    BY <1>0, <2>1, <2>2, SparesStay DEF SparesInv
<1> QED
  BY <1>1, <1>2, <1>3, <1>4 DEF AuthorStep

-----------------------------------------------------------------------------
(* What the author leaves committed *)

\* No profile application has ended early since the last that put a mesh on the
\* device, or one that will is under way.
Whole(a) == ~past.half \/ (job[a].kind = "profile" /\ job[a].arg.mesh)

\* The fact is not one that an application has left unfinished.
Settled(a, k) == Whole(a) \/ (k.pkg = "network" /\ ~device.batman)

\* The author's job has nothing to do with the fact.
Untouched(a, k) == IF k.pkg = "network" THEN ~Wires(a) ELSE job[a].kind # "profile"

\* What is committed of the mesh and batman is what is staged, but while a profile
\* application has staged and not yet committed it.  So a reboot loses none of it.
AgreedInv(a) ==
  \A k \in LinkKeys :
    Settled(a, k) /\ (Untouched(a, k) \/ Net(prog[a], Uncommitted(k.pkg)) # "off") =>
      (Holds(committed, k) <=> Holds(staged, k))

LEMMA KeepsAway ==
  ASSUME NEW k, k \in LinkKeys, NEW P,
         IF k.pkg = "network" THEN Avoids(P, Wiring)
         ELSE Avoids(P, MeshNames \cup {Application, Fallback})
  PROVE  Net(P, k) = "none" /\ (P # <<>> => Effect(Head(P), k) = "none")
<1>1. Nameable(k) /\ k.pkg \in {"network", "wireless"}
      /\ (k.pkg = "network" => KeyName(k) \in Wiring)
      /\ (k.pkg = "wireless" => KeyName(k) \in MeshNames)
  BY LinkFacts
<1>2. ASSUME NEW S, Avoids(P, S), KeyName(k) \in S
      PROVE  Net(P, k) = "none" /\ (P # <<>> => Effect(Head(P), k) = "none")
  <2>1. P # <<>> => Spares(Head(P), S)
    BY <1>2, AvoidsMany
  <2> QED
    BY <1>1, <1>2, <2>1, AvoidsNet, SparesEffect
<1>3. CASE k.pkg = "network"
  BY <1>1, <1>2, <1>3
<1>4. CASE k.pkg # "network"
  <2>1. KeyName(k) \in MeshNames \cup {Application, Fallback}
    BY <1>1, <1>4
  <2> QED
    BY <1>2, <1>4, <2>1
<1> QED
  BY <1>3, <1>4

LEMMA UntouchedNet ==
  ASSUME NEW a, AuthorInv(a), SparesInv(a), NEW k, k \in LinkKeys, Untouched(a, k)
  PROVE  Net(prog[a], k) = "none" /\ (prog[a] # <<>> => Effect(TheCall(a), k) = "none")
<1>1. IF k.pkg = "network" THEN Avoids(prog[a], Wiring)
      ELSE Avoids(prog[a], MeshNames \cup {Application, Fallback})
  BY DEF AuthorInv, SparesInv, Untouched
<1> QED
  BY <1>1, KeepsAway DEF TheCall

LEMMA WholeAdvances ==
  ASSUME NEW a \in Tasks, NEW rest, MovedOn(a, rest), Whole(a)'
  PROVE  Whole(a)
<1>1. /\ job'[a] = IF rest = <<>> THEN Idle ELSE job[a]
      /\ past'.half = IF rest = <<>> /\ job[a].kind = "profile"
                      THEN past.half /\ ~job[a].arg.mesh ELSE past.half
  BY DEF MovedOn
<1>2. Idle.kind = "idle"
  BY DEF Idle
<1>3. CASE rest = <<>>
  <2>1. ~past'.half
    BY <1>1, <1>2, <1>3 DEF Whole
  <2> QED
    BY <1>1, <1>3, <2>1 DEF Whole
<1>4. CASE rest # <<>>
  BY <1>1, <1>4 DEF Whole
<1> QED
  BY <1>3, <1>4

\* A job that ends early, and a daemon that starts, leave what is settled as it was.
LEMMA EndKeeps ==
  ASSUME TypeInv, NEW a \in Tasks, AuthorInv(a), SparesInv(a), AgreedInv(a),
         EndsEarly(a) \/ StartsAnew, device' = device,
         NEW k, k \in LinkKeys, Settled(a, k)'
  PROVE  /\ Settled(a, k)
         /\ WillHold(a, k)' <=> WillHold(a, k)
         /\ Holds(committed', k) <=> Holds(staged', k)
<1>1. /\ prog'[a] = <<>> /\ job'[a] = Idle /\ committed' = committed
      /\ past'.half \/ (~past.half /\ job[a].kind # "profile")
  BY DEF EndsEarly, GaveUp, StartsAnew, Started
<1>2. Whole(a)' => Whole(a) /\ job[a].kind # "profile"
  <2>1. Idle.kind = "idle"
    BY DEF Idle
  <2> QED
    BY <1>1, <2>1 DEF Whole
<1>3. Settled(a, k) /\ Untouched(a, k)
  BY <1>2 DEF Settled, Untouched, Wires, BatmanOn
<1>4. Net(prog[a], k) = "none" /\ (prog[a] # <<>> => Effect(TheCall(a), k) = "none")
  BY <1>3, UntouchedNet
<1>5. Holds(committed, k) <=> Holds(staged, k)
  BY <1>3 DEF AgreedInv
<1>6. Holds(staged', k) <=> Holds(staged, k)
  <2>1. CASE EndsEarly(a)
    BY <1>4, <2>1, LinkFacts DEF EndsEarly, ConfigKey
  <2>2. CASE StartsAnew
    BY <1>5, <2>2 DEF StartsAnew
  <2> QED
    BY <2>1, <2>2
<1>7. WillHold(a, k) <=> Holds(staged, k)
  BY <1>4 DEF WillHold, Final
<1>8. WillHold(a, k)' <=> Holds(staged', k)
  BY <1>1, NetEmpty DEF WillHold, Final
<1> QED
  BY <1>1, <1>3, <1>5, <1>6, <1>7, <1>8

\* What the next job leaves alone stays as it was, too.
LEMMA BeginKeeps ==
  ASSUME NEW a, Begins(a), device' = device, AuthorInv(a)', SparesInv(a)',
         NEW k, k \in LinkKeys, Untouched(a, k)'
  PROVE  WillHold(a, k)' <=> WillHold(a, k)
<1>1. Net(prog'[a], k) = "none"
  <2>1. IF k.pkg = "network" THEN Avoids(prog'[a], Wiring)
        ELSE Avoids(prog'[a], MeshNames \cup {Application, Fallback})
    BY SparesStay DEF AuthorInv, SparesInv, Untouched
  <2> QED
    BY <2>1, KeepsAway
<1>2. prog[a] = <<>> /\ staged' = staged
  BY DEF Begins, config
<1> QED
  BY <1>1, <1>2, NetEmpty DEF WillHold, Final

LEMMA WaitKeeps ==
  ASSUME NEW a, Waits(a), NEW k, ConfigKey(k)
  PROVE  WillHold(a, k)' <=> WillHold(a, k)
<1>1. prog'[a] = prog[a] /\ (Holds(staged', k) <=> Holds(staged, k))
  BY DEF Waits
<1> QED
  BY <1>1 DEF WillHold, Final

\* A fact of a package whose commit is done, or not to come, stays committed.
LEMMA CommitAdvances ==
  ASSUME TypeInv, LeftInv, NEW a \in Tasks, Advances(a), NEW k, ConfigKey(k),
         Net(prog'[a], Uncommitted(k.pkg)) # "off",
         Net(prog[a], Uncommitted(k.pkg)) # "off" => (Holds(committed, k) <=> Holds(staged, k))
  PROVE  Holds(committed', k) <=> Holds(staged', k)
<1>1. PICK X : Inserts(a, X) /\ Good(X, Bridgeable) /\ MovedOn(a, X \o Tail(prog[a]))
  BY DEF Advances
<1>2. /\ prog[a] # <<>> /\ Good(prog[a], Bridgeable) /\ Closed(prog[a])
      /\ Good(Tail(prog[a]), Bridgeable) /\ IsProgram(prog[a])
  BY TheCallTyped DEF Advances, TypeInv, TasksTyped, LeftInv, ProgramsClosed, Good
<1>3. k.pkg \in Packages
  BY ConfigKeyIs
<1>4. /\ \/ Holds(staged', k) <=> After(TheCall(a), k, Holds(staged, k))
         \/ Holds(staged', k) <=> Holds(staged, k)
      /\ Holds(committed', k) <=>
           IF TheCall(a).op = "commit" /\ TheCall(a).pkg = k.pkg
           THEN Holds(staged', k) ELSE Holds(committed, k)
  BY DEF Advances, ConfigKey
<1>5. Net(Tail(prog[a]), Uncommitted(k.pkg)) # "off"
  <2>1. prog'[a] = X \o Tail(prog[a])
    BY <1>1 DEF MovedOn
  <2>2. Net(Tail(prog[a]), Uncommitted(k.pkg)) = "off" =>
          Net(X \o Tail(prog[a]), Uncommitted(k.pkg)) = "off"
    BY <1>1, <1>2, <1>3, InsertsClosed
  <2> QED
    BY <2>1, <2>2
<1>6. CASE TheCall(a).op = "commit" /\ TheCall(a).pkg = k.pkg
  BY <1>4, <1>6
<1>7. CASE ~(TheCall(a).op = "commit" /\ TheCall(a).pkg = k.pkg)
  <2>1. Net(prog[a], Uncommitted(k.pkg)) # "off"
    BY <1>2, <1>3, <1>5, <1>7, ClosedTail DEF TheCall
  <2>2. Net(prog[a], k) = "none"
    BY <1>2, <1>3, <2>1, CommitsLast
  <2>3. Effect(TheCall(a), k) = "none"
    <3>1. Head(prog[a]) \in ToSet(prog[a])
      BY <1>2, HeadTail
    <3> QED
      BY <1>2, <2>2, <3>1, NetNone DEF TheCall
  <2> QED
    BY <1>4, <1>7, <2>1, <2>3 DEF After
<1> QED
  BY <1>6, <1>7

LEMMA AgreedAdvances ==
  ASSUME TypeInv, LeftInv, NEW a \in Tasks, AuthorInv(a), SparesInv(a), AgreedInv(a),
         Advances(a), device' = device
  PROVE  AgreedInv(a)'
<1>1. PICK X : Inserts(a, X) /\ Good(X, Bridgeable) /\ MovedOn(a, X \o Tail(prog[a]))
  BY DEF Advances
<1> DEFINE rest == X \o Tail(prog[a])
<1> SUFFICES ASSUME NEW k, k \in LinkKeys, Settled(a, k)',
                    Untouched(a, k)' \/ Net(prog'[a], Uncommitted(k.pkg)) # "off"
             PROVE  Holds(committed', k) <=> Holds(staged', k)
  BY SparesStay DEF AgreedInv
<1>2. PlainKey(k)
  BY LinkFacts
<1>3. Settled(a, k)
  BY <1>1, WholeAdvances DEF Settled
<1>4. CASE Untouched(a, k)
  <2>1. prog[a] # <<>> /\ Effect(TheCall(a), k) = "none"
    BY <1>4, UntouchedNet DEF Advances
  <2>2. Holds(committed, k) <=> Holds(staged, k)
    BY <1>3, <1>4 DEF AgreedInv
  <2> QED
    BY <1>2, <2>1, <2>2 DEF Advances, After, ConfigKey
<1>5. CASE ~Untouched(a, k)
  <2>1. prog'[a] = rest /\ job'[a] = IF rest = <<>> THEN Idle ELSE job[a]
    BY <1>1 DEF MovedOn
  <2> HIDE DEF rest
  <2>2. Net(prog'[a], Uncommitted(k.pkg)) # "off"
    <3>1. CASE rest = <<>>
      BY <2>1, <3>1, NetEmpty
    <3>2. CASE rest # <<>>
      <4>1. job'[a] = job[a]
        BY <2>1, <3>2
      <4>2. Untouched(a, k)' <=> Untouched(a, k)
        BY <4>1 DEF Untouched, Wires
      <4> QED
        BY <1>5, <4>2
    <3> QED
      BY <3>1, <3>2
  <2>3. Net(prog[a], Uncommitted(k.pkg)) # "off" => (Holds(committed, k) <=> Holds(staged, k))
    BY <1>3 DEF AgreedInv
  <2> QED
    BY <1>2, <2>2, <2>3, CommitAdvances DEF ConfigKey
<1> QED
  BY <1>4, <1>5

LEMMA AgreedBegins ==
  ASSUME TypeInv, NEW a \in Tasks, AgreedInv(a), Begins(a), device' = device
  PROVE  AgreedInv(a)'
<1>1. /\ prog[a] = <<>> /\ job[a].kind = "idle" /\ past' = past
      /\ staged' = staged /\ committed' = committed
  BY DEF Begins, config, Idle
<1> SUFFICES ASSUME NEW k, k \in LinkKeys, Settled(a, k)',
                    Untouched(a, k)' \/ Net(prog'[a], Uncommitted(k.pkg)) # "off"
             PROVE  Settled(a, k)
  <2>1. \A k : Untouched(a, k)
    BY <1>1 DEF Untouched, Wires
  <2> QED
    BY <1>1, <2>1, SparesStay DEF AgreedInv
<1>2. CASE \E p \in Applied : BeginsWith(a, "profile", p, ApplyProfile(p, device, standby))
  <2>1. PICK p \in Applied : BeginsWith(a, "profile", p, ApplyProfile(p, device, standby))
    BY <1>2
  <2> DEFINE P == ApplyProfile(p, device, standby)
  <2>2. job'[a].kind = "profile" /\ job'[a].arg = p /\ prog'[a] = P
    BY <2>1 DEF BeginsWith
  <2>3. /\ Net(P, Uncommitted("wireless")) = "off"
        /\ BatmanOn(p, device) => Net(P, Uncommitted("network")) = "off"
    BY ListedRadios, WiredFacts, ProfileAssumption, ProfileEnds
  <2> HIDE DEF P
  <2>4. k.pkg \in {"network", "wireless"}
    BY LinkFacts
  <2>5. k.pkg = "network" /\ ~BatmanOn(p, device)
    BY <2>2, <2>3, <2>4 DEF Untouched, Wires
  <2>6. ~device.batman \/ ~p.mesh
    BY <2>5 DEF BatmanOn
  <2>7. ~device.batman \/ ~past.half
    BY <1>1, <2>2, <2>6 DEF Settled, Whole
  <2> QED
    BY <2>5, <2>7 DEF Settled, Whole
<1>3. CASE job'[a].kind # "profile"
  BY <1>1, <1>3 DEF Settled, Whole
<1>4. \/ \E p \in Applied : BeginsWith(a, "profile", p, ApplyProfile(p, device, standby))
      \/ job'[a].kind # "profile"
  <2>1. \A kind, arg, P : BeginsWith(a, kind, arg, P) => job'[a].kind = kind
    BY DEF BeginsWith
  <2> QED
    BY <2>1 DEF Begins
<1> QED
  BY <1>2, <1>3, <1>4

LEMMA AgreedNext ==
  ASSUME TypeInv, LeftInv, NEW a \in Tasks, AuthorInv(a), SparesInv(a), AgreedInv(a),
         AuthorStep(a)
  PROVE  AgreedInv(a)'
<1>0. device' = device
  BY DEF AuthorStep
<1>1. CASE Advances(a)
  BY <1>0, <1>1, AgreedAdvances
<1>2. CASE EndsEarly(a) \/ StartsAnew
  <2>1. \A k : k \in LinkKeys /\ Settled(a, k)' => (Holds(committed', k) <=> Holds(staged', k))
    BY <1>0, <1>2, EndKeeps
  <2> QED
    BY <1>0, <2>1, SparesStay DEF AgreedInv
<1>3. CASE Begins(a)
  BY <1>0, <1>3, AgreedBegins
<1>4. CASE Waits(a)
  <2>1. prog'[a] = prog[a] /\ job'[a] = job[a] /\ (past'.half <=> past.half)
    BY <1>4 DEF Waits, SamePast
  <2>2. ASSUME NEW k, k \in LinkKeys
        PROVE  /\ Settled(a, k)' <=> Settled(a, k)
               /\ Untouched(a, k)' <=> Untouched(a, k)
               /\ (Holds(committed, k) <=> Holds(staged, k)) =>
                    (Holds(committed', k) <=> Holds(staged', k))
    <3>1. (Holds(committed, k) <=> Holds(staged, k)) =>
            (Holds(committed', k) <=> Holds(staged', k))
      BY <1>4, <2>2, LinkFacts DEF Waits, ConfigKey
    <3>2. Settled(a, k)' <=> Settled(a, k)
      BY <1>0, <2>1 DEF Settled, Whole
    <3>3. Untouched(a, k)' <=> Untouched(a, k)
      BY <1>0, <2>1 DEF Untouched, Wires
    <3> QED
      BY <3>1, <3>2, <3>3
  <2> QED
    BY <1>0, <2>1, <2>2, SparesStay DEF AgreedInv
<1> QED
  BY <1>0, <1>1, <1>2, <1>3, <1>4 DEF AuthorStep

LEMMA AgreedInit ==
  ASSUME Init, NEW a \in Tasks
  PROVE  AgreedInv(a)
BY DEF Init, AgreedInv

-----------------------------------------------------------------------------
(* What a look at the mesh or at batman decides *)

\* A prune takes access points away, and nothing else.
LEMMA PruneDoes ==
  ASSUME NEW t \in Tasks
  PROVE  LET X == Deletes(Stale(t))
         IN  /\ NeverLooks(X) /\ Net(X, Unverified) = "none"
             /\ \A x : Net(X, Recorded(x)) = "none"
             /\ \A k : PlainKey(k) /\ KeyName(k) \notin APNames => Net(X, k) = "none"
<1> DEFINE X == Deletes(Stale(t))
<1>1. Footprint(X, APNames, {})
  BY DeletesFootprint DEF Stale
<1> HIDE DEF X
<1>2. NeverLooks(X)
  BY <1>1, NeverLooksMany
<1>3. ASSUME NEW k, Nameable(k), KeyName(k) \notin APNames
      PROVE  Net(X, k) = "none"
  <2>1. Avoids(X, {KeyName(k)})
    BY <1>1, <1>3, AvoidsRest
  <2> QED
    BY <1>3, <2>1, AvoidsNet
<1>4. /\ Nameable(Unverified) /\ KeyName(Unverified) = Application
      /\ \A x : Nameable(Recorded(x)) /\ KeyName(Recorded(x)) = Application
      /\ Application \notin APNames
  <2>1. Unverified.kind = "unverified" /\ \A x : Recorded(x).kind = "recorded"
    BY DEF Unverified, Recorded, Fact
  <2>2. Application \notin APNames
    BY DEF Application, APNames
  <2>3. \A k : k.kind \in {"recorded", "unverified"} => Nameable(k) /\ KeyName(k) = Application
    BY DEF Nameable, KeyName
  <2> QED
    BY <2>1, <2>2, <2>3
<1>5. Net(X, Unverified) = "none" /\ \A x : Net(X, Recorded(x)) = "none"
  BY <1>3, <1>4
<1> QED
  BY <1>2, <1>3, <1>5, PlainIsNameable DEF X

\* A verdict is about the backhaul: it records one state, and one of them removes the
\* mesh.
Verdict(X, mesh) ==
  /\ \A k : PlainKey(k) /\ KeyName(k) \notin MeshNames => Net(X, k) = "none"
  /\ \E y : /\ \A x : Net(X, Recorded(x)) = IF x = y THEN "on" ELSE "off"
            /\ \/ y = "multi_ap" /\ \A k : PlainKey(k) => Net(X, k) = "none"
               \/ y = "80211s" /\ mesh /\ \A k : PlainKey(k) => Net(X, k) = "none"
               \/ y = "degraded" /\ Net(X, MeshKey) = "off" /\ Net(X, AttachedKey) = "off"

LEMMA VerdictIs ==
  /\ \A y, mesh : y = "multi_ap" \/ (y = "80211s" /\ mesh) => Verdict(SetBackhaulState(y), mesh)
  /\ \A y : NeverLooks(SetBackhaulState(y)) /\ Net(SetBackhaulState(y), Unverified) = "none"
  /\ LET D == Degrade \o SetBackhaulState("degraded")
     IN  /\ NeverLooks(D) /\ Net(D, Unverified) = "none"
         /\ \A mesh : Verdict(D, mesh)
<1>1. ASSUME NEW y, NEW mesh, y = "multi_ap" \/ (y = "80211s" /\ mesh)
      PROVE  Verdict(SetBackhaulState(y), mesh)
  <2>1. /\ \A x : Net(SetBackhaulState(y), Recorded(x)) = IF x = y THEN "on" ELSE "off"
        /\ \A k : PlainKey(k) => Net(SetBackhaulState(y), k) = "none"
    BY VerdictsDo
  <2> QED
    BY <1>1, <2>1 DEF Verdict
<1>2. \A y : NeverLooks(SetBackhaulState(y)) /\ Net(SetBackhaulState(y), Unverified) = "none"
  BY VerdictsDo
<1> DEFINE B == SetBackhaulState("degraded")
           D == Degrade \o B
<1>3. /\ NeverLooks(B) /\ NeverLooks(Degrade)
      /\ \A k : PlainKey(k) => Net(B, k) = "none"
      /\ \A x : Net(B, Recorded(x)) = IF x = "degraded" THEN "on" ELSE "off"
      /\ Net(B, Unverified) = "none"
  BY VerdictsDo
<1>4. /\ Net(Degrade, MeshKey) = "off" /\ Net(Degrade, AttachedKey) = "off"
      /\ \A k : PlainKey(k) /\ KeyName(k) \notin MeshNames => Net(Degrade, k) = "none"
  BY VerdictsDo
<1>5. Net(Degrade, Unverified) = "none"
  <2>1. \A c : c.op \notin Looks => Effect(c, Unverified) = "none"
    BY RecordEffect DEF Looks
  <2> QED
    BY <1>3, <2>1, NetNone DEF NeverLooks
<1> HIDE DEF B
<1>6. IsProgram(B) /\ IsProgram(Degrade)
  BY <1>3 DEF NeverLooks
<1>7. \A k : Net(D, k) = Later(Net(Degrade, k), Net(B, k))
  BY <1>6, NetConcat
<1>8. NeverLooks(D)
  BY <1>3, NeverLooksMany
<1>9. Net(D, Unverified) = "none"
  BY <1>3, <1>5, <1>7 DEF Later
<1>10. ASSUME NEW mesh
       PROVE  Verdict(D, mesh)
  <2>1. \A k : PlainKey(k) /\ KeyName(k) \notin MeshNames => Net(D, k) = "none"
    BY <1>3, <1>4, <1>7 DEF Later
  <2>2. Net(D, MeshKey) = "off" /\ Net(D, AttachedKey) = "off"
    BY <1>3, <1>4, <1>7, Keys DEF Later
  <2>3. \A x : Net(D, Recorded(x)) = IF x = "degraded" THEN "on" ELSE "off"
    <3> TAKE x
    <3>1. Net(D, Recorded(x)) = Later(Net(Degrade, Recorded(x)), Net(B, Recorded(x)))
      BY <1>7
    <3>2. Net(B, Recorded(x)) = IF x = "degraded" THEN "on" ELSE "off"
      BY <1>3
    <3> QED
      BY <3>1, <3>2 DEF Later
  <2> HIDE DEF D
  <2> QED
    BY <2>1, <2>2, <2>3 DEF Verdict
<1> QED
  BY <1>1, <1>2, <1>8, <1>9, <1>10 DEF B

\* What comes before the rest of a program, and the rest: nothing that has to do
\* with the mesh, batman or a port; a verdict, at the end; or batman's fallback,
\* which is followed by a look at the mesh at most.
LEMMA LooksDo ==
  ASSUME TypeInv, NEW t \in Tasks, NEW X, Inserts(t, X), prog[t] # <<>>, LooksLast(prog[t])
  PROVE  /\ NeverLooks(X) /\ Net(X, Unverified) = "none"
         /\ LooksLast(Tail(prog[t]))
         /\ \/ /\ TheCall(t).op # "mesh_up" /\ \A x : Net(X, Recorded(x)) = "none"
               /\ \A k : PlainKey(k) /\ KeyName(k) \notin APNames => Net(X, k) = "none"
            \/ /\ TheCall(t).op = "mesh_up" /\ Tail(prog[t]) = <<>>
               /\ Verdict(X, TheCall(t).arg.mesh)
            \/ /\ TheCall(t).op = "batman_up" /\ X = BatmanFallback(device)
               /\ \A x : Net(X, Recorded(x)) = "none"
               /\ \A k : PlainKey(k) => Net(Tail(prog[t]), k) = "none"
<1> DEFINE c == TheCall(t)
           T == Tail(prog[t])
<1>1. IsProgram(prog[t]) /\ IsProgram(T)
  BY HeadTail DEF TypeInv, TasksTyped, Good
<1>2. /\ LooksLast(T) /\ (c.op = "mesh_up" => T = <<>>)
      /\ c.op = "batman_up" => \A d \in ToSet(T) : d.op = "mesh_up"
  BY <1>1, LooksLastMany DEF TheCall
<1> HIDE DEF c, T
<1>3. CASE X = <<>> /\ c.op # "mesh_up"
  <2>1. NeverLooks(X) /\ \A k : Net(X, k) = "none"
    BY <1>3, NeverLooksMany, NetEmpty
  <2> QED
    BY <1>2, <1>3, <2>1 DEF c, T
<1>4. CASE c.op = "prune" /\ X = Deletes(Stale(t))
  <2>1. /\ NeverLooks(X) /\ Net(X, Unverified) = "none"
        /\ \A x : Net(X, Recorded(x)) = "none"
        /\ \A k : PlainKey(k) /\ KeyName(k) \notin APNames => Net(X, k) = "none"
    BY <1>4, PruneDoes
  <2> QED
    BY <1>2, <1>4, <2>1 DEF c, T
<1>5. CASE c.op = "batman_up" /\ X = BatmanFallback(device)
  <2>1. NeverLooks(X) /\ Net(X, Unverified) = "none" /\ \A x : Net(X, Recorded(x)) = "none"
    BY <1>5, WiredFacts, LinkMembers, FallbackDoes
  <2>2. \A k : PlainKey(k) => Net(T, k) = "none"
    BY <1>1, <1>2, <1>5, LooksAreIdle DEF Looks
  <2> QED
    BY <1>2, <1>5, <2>1, <2>2 DEF c, T
<1>6. CASE c.op = "mesh_up" /\ ~c.arg.mesh /\ X = SetBackhaulState("multi_ap")
  BY <1>2, <1>6, VerdictIs DEF c, T
<1>7. CASE c.op = "mesh_up" /\ c.arg.mesh /\ X = SetBackhaulState("80211s")
  BY <1>2, <1>7, VerdictIs DEF c, T
<1>8. CASE c.op = "mesh_up" /\ X = Degrade \o SetBackhaulState("degraded")
  BY <1>2, <1>8, VerdictIs DEF c, T
<1> QED
  BY <1>3, <1>4, <1>5, <1>6, <1>7, <1>8 DEF Inserts, c

-----------------------------------------------------------------------------
(* The recorded backhaul state *)

\* Whether x will be the recorded state, once the author is done
WillShow(a, x) == Final(prog[a], Recorded(x), backhaul = x)

\* The state that will be recorded is that of the mesh that will be there.  A mesh
\* that is to be looked at will be there, if the look does not remove it; and it is
\* looked at last.
BackhaulInv(a) ==
  /\ Whole(a) =>
       /\ WillShow(a, "80211s") => WillHold(a, MeshKey)
       /\ WillShow(a, "degraded") => ~WillHold(a, MeshKey)
  /\ Net(prog[a], Unverified) = "on" => WillHold(a, MeshKey)
  /\ LooksLast(prog[a])

LEMMA BackhaulAdvances ==
  ASSUME TypeInv, NEW a \in Tasks, BackhaulInv(a), Advances(a), device' = device
  PROVE  BackhaulInv(a)'
<1>1. PICK X : Inserts(a, X) /\ Good(X, Bridgeable) /\ MovedOn(a, X \o Tail(prog[a]))
  BY DEF Advances
<1> DEFINE T == Tail(prog[a])
           rest == X \o T
           c == TheCall(a)
           shown(x) == Final(rest, Recorded(x), backhaul' = x)
           held == Final(rest, MeshKey, Holds(staged', MeshKey))
<1>2. prog[a] # <<>> /\ IsProgram(prog[a]) /\ IsProgram(T) /\ IsProgram(X)
  BY <1>1, HeadTail DEF Advances, TypeInv, TasksTyped, Good
<1>3. /\ NeverLooks(X) /\ Net(X, Unverified) = "none" /\ LooksLast(T)
      /\ \/ /\ c.op # "mesh_up" /\ \A x : Net(X, Recorded(x)) = "none"
            /\ \A k : PlainKey(k) /\ KeyName(k) \notin APNames => Net(X, k) = "none"
         \/ /\ c.op = "mesh_up" /\ T = <<>> /\ Verdict(X, c.arg.mesh)
         \/ /\ c.op = "batman_up" /\ X = BatmanFallback(device)
            /\ \A x : Net(X, Recorded(x)) = "none"
  BY <1>1, <1>2, LooksDo DEF BackhaulInv
<1>4. prog'[a] = rest /\ (Whole(a)' => Whole(a))
  BY <1>1, WholeAdvances DEF MovedOn
<1>5. PlainKey(MeshKey) /\ KeyName(MeshKey) \notin APNames
  BY LinkFacts DEF LinkKeys
<1>6. /\ \A k : Net(rest, k) = Later(Net(X, k), Net(T, k))
      /\ \A k : Net(prog[a], k) = Later(Effect(c, k), Net(T, k))
  BY <1>2, NetConcat, NetHeadTail DEF TheCall
<1>7. LooksLast(rest)
  BY <1>2, <1>3, LooksLastMany
<1>8. Net(X, MeshKey) = "none" => (held <=> WillHold(a, MeshKey))
  BY <1>1, <1>5, WillStillHold
<1>9. ASSUME c.op # "mesh_up", \A x : Net(X, Recorded(x)) = "none", Net(X, MeshKey) = "none"
      PROVE  /\ \A x : shown(x) <=> WillShow(a, x)
             /\ held <=> WillHold(a, MeshKey)
             /\ Net(rest, Unverified) = "on" => Net(prog[a], Unverified) = "on"
  <2>1. \A x : shown(x) <=> WillShow(a, x)
    <3> TAKE x
    <3> DEFINE k == Recorded(x)
    <3>1. (backhaul' = x) <=> After(c, k, backhaul = x)
      BY <1>9 DEF Advances
    <3>2. Net(X, k) = "none"
      BY <1>9
    <3> HIDE DEF k
    <3>3. Final(rest, k, backhaul' = x) = Final(T, k, backhaul' = x)
      BY <1>2, <3>2, FinalInsert
    <3>4. Final(prog[a], k, backhaul = x) = Final(T, k, After(c, k, backhaul = x))
      BY <1>2, FinalTail DEF TheCall
    <3>5. Final(T, k, backhaul' = x) <=> Final(T, k, After(c, k, backhaul = x))
      BY <3>1 DEF Final
    <3> QED
      BY <3>3, <3>4, <3>5 DEF WillShow, k
  <2>2. Net(rest, Unverified) = "on" => Net(prog[a], Unverified) = "on"
    BY <1>3, <1>6 DEF Later
  <2> QED
    BY <1>8, <1>9, <2>1, <2>2
<1> SUFFICES /\ Whole(a) =>
                  /\ shown("80211s") => held
                  /\ shown("degraded") => ~held
             /\ Net(rest, Unverified) = "on" => held
             /\ LooksLast(rest)
  BY <1>4 DEF BackhaulInv, WillShow, WillHold
<1>10. CASE c.op # "mesh_up"
  <2>1. Net(X, MeshKey) = "none"
    <3>1. X = BatmanFallback(device) => Net(X, MeshKey) = "none"
      BY WiredFacts, LinkMembers, FallbackDoes
    <3> QED
      BY <1>3, <1>5, <1>10, <3>1
  <2>2. \A x : Net(X, Recorded(x)) = "none"
    BY <1>3, <1>10
  <2>3. /\ \A x : shown(x) <=> WillShow(a, x)
        /\ held <=> WillHold(a, MeshKey)
        /\ Net(rest, Unverified) = "on" => Net(prog[a], Unverified) = "on"
    BY <1>9, <1>10, <2>1, <2>2
  <2> HIDE DEF shown, held
  <2> QED
    BY <1>7, <2>3 DEF BackhaulInv
<1>11. CASE c.op = "mesh_up"
  <2>1. T = <<>> /\ Verdict(X, c.arg.mesh)
    BY <1>3, <1>11
  <2>2. /\ Net(T, Unverified) = "none" /\ Net(T, MeshKey) = "none"
        /\ \A x : Net(T, Recorded(x)) = "none"
    BY <2>1, NetEmpty
  <2>3. /\ Net(rest, Unverified) = "none" /\ Net(rest, MeshKey) = Net(X, MeshKey)
        /\ \A x : Net(rest, Recorded(x)) = Net(X, Recorded(x))
    BY <1>3, <1>6, <2>2 DEF Later
  <2>4. PICK y : /\ \A x : Net(X, Recorded(x)) = IF x = y THEN "on" ELSE "off"
                 /\ \/ y = "multi_ap" /\ \A k : PlainKey(k) => Net(X, k) = "none"
                    \/ y = "80211s" /\ c.arg.mesh /\ \A k : PlainKey(k) => Net(X, k) = "none"
                    \/ y = "degraded" /\ Net(X, MeshKey) = "off"
    BY <2>1 DEF Verdict
  <2>5. \A x : shown(x) <=> x = y
    BY <2>3, <2>4 DEF Final
  <2>6. CASE y = "multi_ap"
    <3> HIDE DEF shown, held
    <3> QED
      BY <1>7, <2>3, <2>5, <2>6
  <2>7. CASE y = "80211s" /\ c.arg.mesh /\ Net(X, MeshKey) = "none"
    <3>1. Effect(c, Unverified) = "on"
      BY <1>11, <2>7 DEF Effect, TurnsOn, Unverified, Fact
    <3>2. Net(prog[a], Unverified) = "on"
      BY <1>6, <2>2, <3>1 DEF Later
    <3>3. held
      BY <1>8, <2>7, <3>2 DEF BackhaulInv
    <3> HIDE DEF shown, held
    <3> QED
      BY <1>7, <2>3, <2>5, <2>7, <3>3
  <2>8. CASE y = "degraded" /\ Net(X, MeshKey) = "off"
    <3>1. ~held
      BY <2>3, <2>8 DEF Final
    <3> HIDE DEF shown, held
    <3> QED
      BY <1>7, <2>3, <2>5, <2>8, <3>1
  <2> QED
    BY <1>5, <2>4, <2>6, <2>7, <2>8
<1> QED
  BY <1>10, <1>11

\* What keeps away from a profile's application records nothing and looks at nothing.
LEMMA KeepsRecord ==
  ASSUME NEW P, Avoids(P, MeshNames \cup {Application, Fallback})
  PROVE  /\ \A x : Net(P, Recorded(x)) = "none"
         /\ Net(P, Unverified) = "none" /\ Net(P, MeshKey) = "none"
         /\ NeverLooks(P) /\ LooksLast(P)
<1> DEFINE S == MeshNames \cup {Application, Fallback}
<1>1. Unverified.kind = "unverified" /\ \A x : Recorded(x).kind = "recorded"
  BY DEF Unverified, Recorded, Fact
<1>2. \A k : k.kind \in {"recorded", "unverified"} => Nameable(k) /\ KeyName(k) \in S
  BY DEF Nameable, KeyName
<1>3. Nameable(MeshKey) /\ KeyName(MeshKey) \in S
  BY LinkFacts, Keys DEF LinkKeys
<1>4. NeverLooks(P) /\ LooksLast(P)
  BY NeverLooksMany, LooksLastMany
<1> HIDE DEF S
<1>5. \A k : Nameable(k) /\ KeyName(k) \in S => Net(P, k) = "none"
  BY AvoidsNet DEF S
<1> QED
  BY <1>1, <1>2, <1>3, <1>4, <1>5

LEMMA BackhaulBegins ==
  ASSUME TypeInv, NEW a \in Tasks, AuthorInv(a)', BackhaulInv(a), Begins(a)
  PROVE  BackhaulInv(a)'
<1>1. /\ prog[a] = <<>> /\ job[a].kind = "idle" /\ past' = past
      /\ staged' = staged /\ backhaul' = backhaul
  BY DEF Begins, config, results, Idle
<1>2. CASE \E p \in Applied : BeginsWith(a, "profile", p, ApplyProfile(p, device, standby))
  <2>1. PICK p \in Applied : BeginsWith(a, "profile", p, ApplyProfile(p, device, standby))
    BY <1>2
  <2> DEFINE P == ApplyProfile(p, device, standby)
  <2>2. prog'[a] = P
    BY <2>1 DEF BeginsWith
  <2>3. /\ \A x : Net(P, Recorded(x)) = "off"
        /\ Net(P, Unverified) = IF p.mesh THEN "on" ELSE "none"
        /\ LooksLast(P)
    BY ListedRadios, WiredFacts, ProfileAssumption, ProfileEnds
  <2>4. Net(P, MeshKey) = IF p.mesh THEN "on" ELSE "none"
    BY ListedRadios, WiredFacts, LinkMembers, ProfileAssumption, ProfileDoes
  <2> HIDE DEF P
  <2>5. /\ ~WillShow(a, "80211s")' /\ ~WillShow(a, "degraded")'
        /\ Net(prog'[a], Unverified) = "on" => WillHold(a, MeshKey)'
        /\ LooksLast(prog'[a])
    BY <2>2, <2>3, <2>4 DEF WillShow, WillHold, Final
  <2> QED
    BY <2>5 DEF BackhaulInv
<1>3. CASE job'[a].kind # "profile"
  <2>1. Avoids(prog'[a], MeshNames \cup {Application, Fallback})
    BY <1>3 DEF AuthorInv
  <2>2. /\ \A x : Net(prog'[a], Recorded(x)) = "none"
        /\ Net(prog'[a], Unverified) = "none" /\ Net(prog'[a], MeshKey) = "none"
        /\ LooksLast(prog'[a])
    BY <2>1, KeepsRecord
  <2>3. /\ WillHold(a, MeshKey)' <=> WillHold(a, MeshKey)
        /\ \A x : WillShow(a, x)' <=> WillShow(a, x)
    BY <1>1, <2>2, NetEmpty DEF WillHold, WillShow, Final
  <2>4. Whole(a)' => Whole(a)
    BY <1>1, <1>3 DEF Whole
  <2> QED
    BY <2>2, <2>3, <2>4 DEF BackhaulInv
<1>4. \/ \E p \in Applied : BeginsWith(a, "profile", p, ApplyProfile(p, device, standby))
      \/ job'[a].kind # "profile"
  <2>1. \A kind, arg, P : BeginsWith(a, kind, arg, P) => job'[a].kind = kind
    BY DEF BeginsWith
  <2> QED
    BY <2>1 DEF Begins
<1> QED
  BY <1>2, <1>3, <1>4

LEMMA BackhaulNext ==
  ASSUME TypeInv, NEW a \in Tasks, AuthorInv(a), AuthorInv(a)', SparesInv(a),
         AgreedInv(a), BackhaulInv(a), AuthorStep(a)
  PROVE  BackhaulInv(a)'
<1>0. device' = device
  BY DEF AuthorStep
<1>1. CASE Advances(a)
  BY <1>0, <1>1, BackhaulAdvances
<1>2. CASE EndsEarly(a) \/ StartsAnew
  <2>1. /\ prog'[a] = <<>> /\ job'[a].kind = "idle" /\ backhaul' = backhaul
        /\ past'.half \/ (~past.half /\ job[a].kind # "profile")
    BY <1>2 DEF EndsEarly, GaveUp, StartsAnew, Started, results, Idle
  <2>2. Net(prog'[a], Unverified) = "none" /\ LooksLast(prog'[a])
    BY <2>1, NetEmpty, NeverLooksMany, LooksLastMany
  <2>3. ASSUME Whole(a)'
        PROVE  /\ Whole(a)
               /\ WillHold(a, MeshKey)' <=> WillHold(a, MeshKey)
               /\ \A x : WillShow(a, x)' <=> WillShow(a, x)
    <3>1. ~past.half /\ job[a].kind # "profile"
      BY <2>1, <2>3 DEF Whole
    <3>2. \A x : Net(prog[a], Recorded(x)) = "none"
      BY <3>1, KeepsRecord DEF AuthorInv
    <3>3. \A x : WillShow(a, x)' <=> WillShow(a, x)
      BY <2>1, <3>2, NetEmpty DEF WillShow, Final
    <3>4. MeshKey \in LinkKeys /\ Settled(a, MeshKey)'
      BY <2>3 DEF LinkKeys, Settled
    <3>5. WillHold(a, MeshKey)' <=> WillHold(a, MeshKey)
      BY <1>0, <1>2, <3>4, EndKeeps
    <3> QED
      BY <3>1, <3>3, <3>5 DEF Whole
  <2> QED
    BY <2>2, <2>3 DEF BackhaulInv
<1>3. CASE Begins(a)
  BY <1>3, BackhaulBegins
<1>4. CASE Waits(a)
  <2>1. prog'[a] = prog[a] /\ job'[a] = job[a] /\ (past'.half <=> past.half)
        /\ backhaul' = backhaul
    BY <1>4 DEF Waits, SamePast, results
  <2>2. WillHold(a, MeshKey)' <=> WillHold(a, MeshKey)
    BY <1>4, Keys, WaitKeeps DEF ConfigKey
  <2>3. \A x : WillShow(a, x)' <=> WillShow(a, x)
    BY <2>1 DEF WillShow, Final
  <2>4. Whole(a)' <=> Whole(a)
    BY <2>1 DEF Whole
  <2> QED
    BY <2>1, <2>2, <2>3, <2>4 DEF BackhaulInv
<1> QED
  BY <1>1, <1>2, <1>3, <1>4 DEF AuthorStep

LEMMA BackhaulInit ==
  ASSUME Init, NEW a \in Tasks
  PROVE  BackhaulInv(a)
<1>1. prog[a] = <<>> /\ backhaul = None
  BY DEF Init
<1>2. ~WillShow(a, "80211s") /\ ~WillShow(a, "degraded")
  BY <1>1, NetEmpty, NoneAssumption DEF WillShow, Final
<1>3. Net(prog[a], Unverified) = "none" /\ LooksLast(prog[a])
  BY <1>1, NetEmpty, NeverLooksMany, LooksLastMany
<1> QED
  BY <1>2, <1>3 DEF BackhaulInv

\* A package that no failed call tore runs as it is staged once nobody is at work.
LEMMA PackageRuns ==
  ASSUME TypeInv, LeftInv, AtRest, NEW p \in Packages, p \notin past.torn
  PROVE  staged[p] = running[p]
<1>1. p \notin Dirty(staged, committed, running)
  BY LeftIsNothing DEF NothingLeftStaged
<1> QED
  BY <1>1 DEF Dirty

LEMMA RecordHolds ==
  ASSUME TypeInv, LeftInv, NEW a \in Tasks, BackhaulInv(a)
  PROVE  RecordedBackhaulHolds
<1> SUFFICES ASSUME AtRest, ~past.half, "wireless" \notin past.torn
             PROVE  /\ backhaul = "80211s" => Has(running, "wireless", MeshSection)
                    /\ backhaul = "degraded" => ~Has(running, "wireless", MeshSection)
  BY DEF RecordedBackhaulHolds
<1>1. prog[a] = <<>> /\ Whole(a)
  BY DEF AtRest, Whole
<1>2. /\ \A x : WillShow(a, x) <=> backhaul = x
      /\ WillHold(a, MeshKey) <=> Holds(staged, MeshKey)
  BY <1>1, NetEmpty DEF WillShow, WillHold, Final
<1>3. Holds(staged, MeshKey) <=> Has(staged, "wireless", MeshSection)
  BY ExistsHolds DEF MeshKey
<1>4. "wireless" \in Packages
  BY DEF Packages
<1>5. Has(staged, "wireless", MeshSection) <=> Has(running, "wireless", MeshSection)
  BY <1>4, PackageRuns DEF Has
<1> QED
  BY <1>1, <1>2, <1>3, <1>5 DEF BackhaulInv

\* What holds of the author's work, step by step
WorkInv(a) ==
  /\ TypeInv /\ LeftInv /\ SoleInv(a) /\ AuthorInv(a)
  /\ SparesInv(a) /\ AgreedInv(a) /\ BackhaulInv(a)

LEMMA WorkInit ==
  ASSUME Init, NEW a, Authors = {a}
  PROVE  WorkInv(a)
<1>1. a \in Tasks
  BY DEF Tasks
<1>2. SparesInv(a)
  BY <1>1, SparesNothing DEF Init
<1> QED
  BY <1>1, <1>2, TypeInit, LeftInit, SoleInit, AuthorInit, AgreedInit, BackhaulInit DEF WorkInv

LEMMA WorkNext ==
  ASSUME NEW a, Authors = {a}, WorkInv(a), [Next]_vars
  PROVE  WorkInv(a)' /\ AuthorStep(a)
<1>0. a \in Tasks
  BY DEF Tasks
<1>1. TypeInv' /\ LeftInv'
  BY TypeNext, LeftNext DEF WorkInv
<1>2. SoleInv(a)' /\ AuthorStep(a)
  BY OneAuthorStep DEF WorkInv
<1>3. AuthorInv(a)' /\ SparesInv(a)'
  BY <1>0, <1>2, AuthorNext, SparesNext DEF WorkInv
<1>4. AgreedInv(a)' /\ BackhaulInv(a)'
  BY <1>0, <1>1, <1>2, <1>3, AgreedNext, BackhaulNext DEF WorkInv
<1> QED
  BY <1>1, <1>2, <1>3, <1>4 DEF WorkInv

\* With one author, the backhaul that is recorded is the one that runs, once nobody is
\* at work: a profile application that says "80211s" leaves a mesh section, one that
\* says "degraded" leaves none, and no failure, restart or other job in between makes
\* the record untrue, unless an application ended half way.
THEOREM RecordIsTrue ==
  ASSUME NEW a, Authors = {a}
  PROVE  Spec => []RecordedBackhaulHolds
<1>1. Init => WorkInv(a)
  BY WorkInit
<1>2. WorkInv(a) /\ [Next]_vars => WorkInv(a)'
  BY WorkNext
<1>3. WorkInv(a) => RecordedBackhaulHolds
  BY RecordHolds DEF WorkInv, Tasks
<1> QED
  BY <1>1, <1>2, <1>3, PTL DEF Spec

-----------------------------------------------------------------------------
(* What a step makes of the mesh, of batman and of the wired jacks *)

Keeps(a, k) == Settled(a, k)' => Settled(a, k) /\ (WillHold(a, k)' <=> WillHold(a, k))

\* The mesh goes, or joins the LAN without batman, which stays as it was.
Detached(a) ==
  /\ ~WillHold(a, AttachedKey)'
  /\ \A k \in LinkKeys : k.pkg = "network" => Keeps(a, k)

\* Batman is set up, and the wired jacks are its.
SetUp(a) ==
  /\ WillHold(a, BatKey)' /\ WillHold(a, HardifKey)' /\ WillHold(a, Bridged(Iface))'
  /\ \A p \in WiredJacks : WillHold(a, WiredKey(p))' /\ ~WillHold(a, Bridged(p))'

\* Batman is torn down, and the wired jacks are back in the bridge.
TornDown(a) ==
  /\ ~WillHold(a, AttachedKey)'
  /\ ~WillHold(a, BatKey)' /\ ~WillHold(a, Bridged(Iface))'
  /\ \A p \in WiredJacks : ~WillHold(a, WiredKey(p))' /\ WillHold(a, Bridged(p))'

Links(a) ==
  \/ \A k \in LinkKeys : Keeps(a, k)
  \/ Detached(a)
  \/ SetUp(a)
  \/ TornDown(a)

LEMMA LinksAdvance ==
  ASSUME TypeInv, NEW a \in Tasks, LooksLast(prog[a]), Advances(a), device' = device
  PROVE  Links(a)
<1>1. PICK X : Inserts(a, X) /\ Good(X, Bridgeable) /\ MovedOn(a, X \o Tail(prog[a]))
  BY DEF Advances
<1> DEFINE T == Tail(prog[a])
           rest == X \o T
           c == TheCall(a)
<1>2. prog[a] # <<>> /\ IsProgram(T) /\ IsProgram(X)
  BY <1>1, HeadTail DEF Advances, TypeInv, TasksTyped, Good
<1>3. \/ \A k : PlainKey(k) /\ KeyName(k) \notin APNames => Net(X, k) = "none"
      \/ T = <<>> /\ Verdict(X, c.arg.mesh)
      \/ X = BatmanFallback(device) /\ \A k : PlainKey(k) => Net(T, k) = "none"
  BY <1>1, <1>2, LooksDo
<1>4. prog'[a] = rest /\ (Whole(a)' => Whole(a))
  BY <1>1, WholeAdvances DEF MovedOn
<1>5. \A k : Net(rest, k) = Later(Net(X, k), Net(T, k))
  BY <1>2, NetConcat
<1>6. ASSUME NEW k, k \in LinkKeys, Net(X, k) = "none"
      PROVE  Keeps(a, k)
  <2>1. PlainKey(k)
    BY <1>6, LinkFacts
  <2>2. Final(rest, k, Holds(staged', k)) <=> WillHold(a, k)
    BY <1>1, <1>6, <2>1, WillStillHold
  <2>3. WillHold(a, k)' <=> WillHold(a, k)
    BY <1>4, <2>2 DEF WillHold
  <2>4. Settled(a, k)' => Settled(a, k)
    BY <1>4 DEF Settled
  <2> QED
    BY <2>3, <2>4 DEF Keeps
<1> HIDE DEF rest, T
<1>7. CASE \A k : PlainKey(k) /\ KeyName(k) \notin APNames => Net(X, k) = "none"
  <2>1. \A k \in LinkKeys : PlainKey(k) /\ KeyName(k) \notin APNames
    BY LinkFacts
  <2> QED
    BY <1>6, <1>7, <2>1 DEF Links
<1>8. CASE T = <<>> /\ Verdict(X, c.arg.mesh)
  <2>1. CASE \A k : PlainKey(k) => Net(X, k) = "none"
    <3>1. \A k \in LinkKeys : PlainKey(k)
      BY LinkFacts
    <3> QED
      BY <1>6, <2>1, <3>1 DEF Links
  <2>2. CASE Net(X, AttachedKey) = "off"
    <3>1. Net(rest, AttachedKey) = "off"
      BY <1>5, <1>8, <2>2, NetEmpty DEF Later
    <3>2. ~WillHold(a, AttachedKey)'
      BY <1>4, <3>1 DEF WillHold, Final
    <3>3. ASSUME NEW k, k \in LinkKeys, k.pkg = "network"
          PROVE  Keeps(a, k)
      <4>1. PlainKey(k) /\ KeyName(k) \in Wiring
        BY <3>3, LinkFacts
      <4>2. KeyName(k) \notin MeshNames
        BY <4>1, LinkNames
      <4>3. Net(X, k) = "none"
        BY <1>8, <4>1, <4>2 DEF Verdict
      <4> QED
        BY <1>6, <3>3, <4>3
    <3> QED
      BY <3>2, <3>3 DEF Links, Detached
  <2> QED
    BY <1>8, <2>1, <2>2 DEF Verdict
<1>9. CASE X = BatmanFallback(device) /\ \A k : PlainKey(k) => Net(T, k) = "none"
  <2>1. \A k : PlainKey(k) => Net(rest, k) = Net(X, k)
    BY <1>5, <1>9 DEF Later
  <2>2. /\ Net(X, AttachedKey) = "off" /\ Net(X, BatKey) = "off"
        /\ Net(X, Bridged(Iface)) = "off"
        /\ \A p \in device.wired : Net(X, WiredKey(p)) = "off" /\ Net(X, Bridged(p)) = "on"
    BY <1>9, WiredFacts, LinkMembers, FallbackDoes
  <2>3. /\ PlainKey(AttachedKey) /\ PlainKey(BatKey)
        /\ \A p : PlainKey(WiredKey(p)) /\ PlainKey(Bridged(p))
    BY Keys
  <2>4. \A k : Net(rest, k) # "none" => (WillHold(a, k)' <=> Net(rest, k) = "on")
    BY <1>4 DEF WillHold, Final
  <2>5. ~WillHold(a, AttachedKey)' /\ ~WillHold(a, BatKey)' /\ ~WillHold(a, Bridged(Iface))'
    BY <2>1, <2>2, <2>3, <2>4
  <2>6. \A p \in WiredJacks : ~WillHold(a, WiredKey(p))' /\ WillHold(a, Bridged(p))'
    BY <2>1, <2>2, <2>3, <2>4 DEF WiredJacks
  <2> QED
    BY <2>5, <2>6 DEF Links, TornDown
<1> QED
  BY <1>3, <1>7, <1>8, <1>9

LEMMA LinkPackages ==
  ASSUME NEW k, k \in LinkKeys
  PROVE  k \in {MeshKey, AttachedKey} \/ k.pkg = "network"
<1>1. /\ BatKey.pkg = "network" /\ HardifKey.pkg = "network"
      /\ \A p : WiredKey(p).pkg = "network" /\ Bridged(p).pkg = "network"
  BY DEF BatKey, HardifKey, WiredKey, Bridged, Exists, Fact
<1> QED
  BY <1>1 DEF LinkKeys

LEMMA LinksBegin ==
  ASSUME TypeInv, NEW a \in Tasks, AuthorInv(a)', SparesInv(a)', Begins(a), device' = device
  PROVE  Links(a)
<1>1. prog[a] = <<>> /\ job[a].kind = "idle" /\ past' = past /\ staged' = staged
  BY DEF Begins, config, Idle
<1>2. CASE \E p \in Applied : BeginsWith(a, "profile", p, ApplyProfile(p, device, standby))
  <2>1. PICK p \in Applied : BeginsWith(a, "profile", p, ApplyProfile(p, device, standby))
    BY <1>2
  <2> DEFINE P == ApplyProfile(p, device, standby)
             on == BatmanOn(p, device)
  <2>2. prog'[a] = P /\ job'[a].kind = "profile" /\ job'[a].arg = p
    BY <2>1 DEF BeginsWith
  <2>3. /\ Net(P, MeshKey) = IF p.mesh THEN "on" ELSE "none"
        /\ Net(P, AttachedKey) = IF p.mesh THEN IF on THEN "on" ELSE "off" ELSE "none"
        /\ on => /\ Net(P, BatKey) = "on" /\ Net(P, HardifKey) = "on"
                 /\ \A d \in device.wired :
                      Net(P, WiredKey(d)) = "on" /\ Net(P, Bridged(d)) = "off"
                 /\ Net(P, Bridged(Iface)) = "on"
    BY ListedRadios, WiredFacts, LinkMembers, ProfileAssumption, ProfileDoes
  <2> HIDE DEF P
  <2>4. \A k : Net(P, k) # "none" => (WillHold(a, k)' <=> Net(P, k) = "on")
    BY <2>2 DEF WillHold, Final
  <2>5. CASE on
    <3>1. WillHold(a, BatKey)' /\ WillHold(a, HardifKey)' /\ WillHold(a, Bridged(Iface))'
      BY <2>3, <2>4, <2>5
    <3>2. \A d \in WiredJacks : WillHold(a, WiredKey(d))' /\ ~WillHold(a, Bridged(d))'
      BY <2>3, <2>4, <2>5 DEF WiredJacks
    <3> QED
      BY <3>1, <3>2 DEF Links, SetUp
  <2>6. ASSUME ~on, NEW k, k \in LinkKeys, k.pkg = "network"
        PROVE  Keeps(a, k)
    <3>1. Untouched(a, k)'
      BY <2>2, <2>6 DEF Untouched, Wires
    <3>2. WillHold(a, k)' <=> WillHold(a, k)
      BY <2>6, <3>1, BeginKeeps
    <3>3. Settled(a, k)' => Settled(a, k)
      BY <1>1, <2>2, <2>6 DEF Settled, Whole, BatmanOn
    <3> QED
      BY <3>2, <3>3 DEF Keeps
  <2>7. CASE ~on /\ p.mesh
    <3>1. ~WillHold(a, AttachedKey)'
      BY <2>3, <2>4, <2>7
    <3> QED
      BY <2>6, <2>7, <3>1 DEF Links, Detached
  <2>8. CASE ~on /\ ~p.mesh
    <3>1. ASSUME NEW k, k \in {MeshKey, AttachedKey}
          PROVE  Keeps(a, k)
      <4>1. Net(P, k) = "none"
        BY <2>3, <2>8, <3>1
      <4>2. WillHold(a, k)' <=> WillHold(a, k)
        BY <1>1, <2>2, <4>1, NetEmpty DEF WillHold, Final
      <4>3. Settled(a, k)' => Settled(a, k)
        BY <1>1, <2>2, <2>8 DEF Settled, Whole
      <4> QED
        BY <4>2, <4>3 DEF Keeps
    <3> QED
      BY <2>6, <2>8, <3>1, LinkPackages DEF Links
  <2> QED
    BY <2>5, <2>7, <2>8
<1>3. CASE job'[a].kind # "profile"
  <2>1. ASSUME NEW k, k \in LinkKeys
        PROVE  Keeps(a, k)
    <3>1. Untouched(a, k)'
      BY <1>3 DEF Untouched, Wires
    <3>2. WillHold(a, k)' <=> WillHold(a, k)
      BY <2>1, <3>1, BeginKeeps
    <3>3. Settled(a, k)' => Settled(a, k)
      BY <1>1, <1>3 DEF Settled, Whole
    <3> QED
      BY <3>2, <3>3 DEF Keeps
  <2> QED
    BY <2>1 DEF Links
<1>4. \/ \E p \in Applied : BeginsWith(a, "profile", p, ApplyProfile(p, device, standby))
      \/ job'[a].kind # "profile"
  <2>1. \A kind, arg, P : BeginsWith(a, kind, arg, P) => job'[a].kind = kind
    BY DEF BeginsWith
  <2> QED
    BY <2>1 DEF Begins
<1> QED
  BY <1>2, <1>3, <1>4

LEMMA LinksNext ==
  ASSUME TypeInv, NEW a \in Tasks, AuthorInv(a), AuthorInv(a)', SparesInv(a), SparesInv(a)',
         AgreedInv(a), BackhaulInv(a), AuthorStep(a)
  PROVE  Links(a)
<1>0. device' = device
  BY DEF AuthorStep
<1>1. CASE Advances(a)
  BY <1>0, <1>1, LinksAdvance DEF BackhaulInv
<1>2. CASE Begins(a)
  BY <1>0, <1>2, LinksBegin
<1>3. CASE EndsEarly(a) \/ StartsAnew
  <2>1. \A k : k \in LinkKeys => Keeps(a, k)
    BY <1>0, <1>3, EndKeeps DEF Keeps
  <2> QED
    BY <2>1 DEF Links
<1>4. CASE Waits(a)
  <2>1. job'[a] = job[a] /\ (past'.half <=> past.half)
    BY <1>4 DEF Waits, SamePast
  <2>2. ASSUME NEW k, k \in LinkKeys
        PROVE  Keeps(a, k)
    <3>1. WillHold(a, k)' <=> WillHold(a, k)
      BY <1>4, <2>2, LinkFacts, WaitKeeps DEF ConfigKey
    <3>2. Settled(a, k)' => Settled(a, k)
      BY <1>0, <2>1 DEF Settled, Whole
    <3> QED
      BY <3>1, <3>2 DEF Keeps
  <2> QED
    BY <2>2 DEF Links
<1> QED
  BY <1>1, <1>2, <1>3, <1>4 DEF AuthorStep

-----------------------------------------------------------------------------
(* A mesh that is attached to batman *)

StrandInv(a) ==
  Whole(a) /\ WillHold(a, AttachedKey) =>
    WillHold(a, BatKey) /\ WillHold(a, HardifKey) /\ WillHold(a, Bridged(Iface))

LEMMA StrandNext ==
  ASSUME NEW a, StrandInv(a), Links(a), device' = device
  PROVE  StrandInv(a)'
<1> SUFFICES ASSUME Whole(a)', WillHold(a, AttachedKey)'
             PROVE  /\ WillHold(a, BatKey)' /\ WillHold(a, HardifKey)'
                    /\ WillHold(a, Bridged(Iface))'
  BY DEF StrandInv
<1>1. /\ AttachedKey \in LinkKeys /\ BatKey \in LinkKeys /\ HardifKey \in LinkKeys
      /\ Bridged(Iface) \in LinkKeys
  BY DEF LinkKeys
<1>2. AttachedKey.pkg = "wireless"
  BY DEF AttachedKey, HasOption, Fact
<1>3. \A k : Settled(a, k)'
  BY DEF Settled
<1>4. CASE \A k \in LinkKeys : Keeps(a, k)
  <2>1. \A k \in LinkKeys : Settled(a, k) /\ (WillHold(a, k)' <=> WillHold(a, k))
    BY <1>3, <1>4 DEF Keeps
  <2>2. Whole(a)
    BY <1>1, <1>2, <2>1 DEF Settled
  <2> QED
    BY <1>1, <2>1, <2>2 DEF StrandInv
<1> QED
  BY <1>4 DEF Links, Detached, SetUp, TornDown

LEMMA LinksInit ==
  ASSUME Init, NEW a \in Tasks
  PROVE  /\ \A k : WillHold(a, k) <=> Holds(FirstBoot, k)
         /\ ~WillHold(a, AttachedKey) /\ ~WillHold(a, BatKey)
         /\ \A p : ~WillHold(a, WiredKey(p))
         /\ \A d : WillHold(a, Bridged(d)) <=> d \in LanPorts
<1>1. prog[a] = <<>> /\ staged = FirstBoot
  BY DEF Init
<1>2. \A k : WillHold(a, k) <=> Holds(FirstBoot, k)
  BY <1>1, NetEmpty DEF WillHold, Final
<1> DEFINE S == {LanDevice, Section("lan"), Section("wan"), SetupNet, SetupWifi}
<1>3. /\ MeshSection \notin S /\ IfaceSection \notin S
      /\ \A r : MeshSection # RadioSection(r) /\ IfaceSection # RadioSection(r)
  BY DEF MeshSection, IfaceSection, Iface, SetupNet, SetupWifi, LanDevice, RadioSection,
         Section, Named
<1>4. \A p : WiredHardif(p) \notin S /\ \A r : WiredHardif(p) # RadioSection(r)
  BY DEF WiredHardif, SetupNet, SetupWifi, LanDevice, RadioSection, Section, Named
<1> HIDE DEF S
<1>5. "wireless" \in Packages /\ "network" \in Packages
  BY DEF Packages
<1>6. /\ ~Has(FirstBoot, "wireless", MeshSection) /\ ~Has(FirstBoot, "network", IfaceSection)
      /\ \A p : ~Has(FirstBoot, "network", WiredHardif(p))
  BY <1>3, <1>4, <1>5, FirstBootIs DEF S
<1>7. ~Holds(FirstBoot, AttachedKey)
  BY <1>6 DEF Holds, AttachedKey, HasOption, Fact
<1>8. ~Holds(FirstBoot, BatKey) /\ \A p : ~Holds(FirstBoot, WiredKey(p))
  BY <1>6, ExistsHolds DEF BatKey, WiredKey
<1>9. \A d : Holds(FirstBoot, Bridged(d)) <=> d \in LanPorts
  BY FirstBootIs, BridgedHolds
<1> QED
  BY <1>2, <1>7, <1>8, <1>9

LEMMA OptionIs ==
  ASSUME NEW c, NEW pkg, NEW sec, NEW option, NEW unset, NEW v, v # unset,
         Option(c, pkg, sec, option, unset) = v
  PROVE  /\ Has(c, pkg, sec) /\ option \in DOMAIN c[pkg][sec]
         /\ c[pkg][sec][option] = v
BY DEF Option

LEMMA AttachedIs ==
  ASSUME NEW c, MeshNetwork(c) = MeshHardif
  PROVE  Holds(c, AttachedKey)
<1>1. \A x, y : x # y => Section(x) # Section(y)
  BY DEF Section, Named
<1>2. MeshHardif = Section("bat0_mesh")
  BY DEF MeshHardif
<1>3. "bat0_mesh" # ""
  OBVIOUS
<1>4. MeshHardif # Section("")
  BY <1>1, <1>2, <1>3, Zenon
<1>5. \A unset : Option(c, "wireless", MeshSection, "network", unset) = MeshHardif
                   /\ MeshHardif # unset =>
        /\ Has(c, "wireless", MeshSection)
        /\ "network" \in DOMAIN c["wireless"][MeshSection]
        /\ c["wireless"][MeshSection]["network"] = MeshHardif
  BY OptionIs
<1>6. /\ Has(c, "wireless", MeshSection)
      /\ "network" \in DOMAIN c["wireless"][MeshSection]
      /\ c["wireless"][MeshSection]["network"] = MeshHardif
  BY <1>4, <1>5, Zenon DEF MeshNetwork
<1>7. /\ AttachedKey.kind = "option" /\ AttachedKey.pkg = "wireless"
      /\ AttachedKey.sec = MeshSection /\ AttachedKey.option = "network"
      /\ AttachedKey.value = MeshHardif
  BY DEF AttachedKey, HasOption, Fact
<1> QED
  BY <1>6, <1>7 DEF Holds

LEMMA NobodyStranded ==
  ASSUME TypeInv, LeftInv, NEW a \in Tasks, StrandInv(a)
  PROVE  MeshNotStranded
<1> SUFFICES ASSUME AtRest, ~past.half, past.torn = {}, MeshNetwork(running) = MeshHardif
             PROVE  /\ Has(running, "network", IfaceSection)
                    /\ Has(running, "network", MeshHardif)
                    /\ Iface \in Members(running)
  BY DEF MeshNotStranded
<1>1. prog[a] = <<>> /\ Whole(a)
  BY DEF AtRest, Whole
<1>2. \A p \in Packages : staged[p] = running[p]
  BY RestingRuns
<1>3. ASSUME NEW k, PlainKey(k)
      PROVE  WillHold(a, k) <=> Holds(running, k)
  <2>1. WillHold(a, k) <=> Holds(staged, k)
    BY <1>1, NetEmpty DEF WillHold, Final
  <2> QED
    BY <1>2, <1>3, <2>1, SamePackage DEF PlainKey, ConfigKey
<1>4. Holds(running, AttachedKey)
  BY AttachedIs
<1>5. Holds(running, BatKey) /\ Holds(running, HardifKey) /\ Holds(running, Bridged(Iface))
  BY <1>1, <1>3, <1>4, Keys DEF StrandInv
<1> QED
  BY <1>5, ExistsHolds, BridgedHolds DEF BatKey, HardifKey

\* With one author, a mesh that is attached to batman is never left with no batman to
\* be attached to, nor with one that is not in the LAN: a profile that brings both
\* authors both, batman's fallback detaches the mesh first, and a profile without
\* either leaves what there is.
THEOREM NoMeshIsStranded ==
  ASSUME NEW a, Authors = {a}
  PROVE  Spec => []MeshNotStranded
<1> DEFINE Inv == WorkInv(a) /\ StrandInv(a)
<1>0. a \in Tasks
  BY DEF Tasks
<1>1. Init => Inv
  BY <1>0, WorkInit, LinksInit DEF StrandInv
<1>2. Inv /\ [Next]_vars => Inv'
  <2> SUFFICES ASSUME Inv, [Next]_vars
               PROVE  Inv'
    OBVIOUS
  <2>1. WorkInv(a)' /\ AuthorStep(a)
    BY WorkNext
  <2>2. StrandInv(a)'
    BY <1>0, <2>1, LinksNext, StrandNext DEF WorkInv, AuthorStep
  <2> QED
    BY <2>1, <2>2
<1>3. Inv => MeshNotStranded
  BY <1>0, NobodyStranded DEF WorkInv
<1> HIDE DEF Inv
<1> QED
  BY <1>1, <1>2, <1>3, PTL DEF Spec

-----------------------------------------------------------------------------
(* The ports *)

\* A wired jack is in the bridge or batman's, and bat0 is in the bridge when there is one.
PortInv(a) ==
  Whole(a) \/ ~device.batman =>
    /\ \A p \in WiredJacks : WillHold(a, Bridged(p)) <=> ~WillHold(a, WiredKey(p))
    /\ WillHold(a, Bridged(Iface)) <=> WillHold(a, BatKey)

LEMMA PortNext ==
  ASSUME NEW a, PortInv(a), Links(a), device' = device
  PROVE  PortInv(a)'
<1> SUFFICES ASSUME Whole(a)' \/ ~device.batman
             PROVE  /\ \A p \in WiredJacks :
                         WillHold(a, Bridged(p))' <=> ~WillHold(a, WiredKey(p))'
                    /\ WillHold(a, Bridged(Iface))' <=> WillHold(a, BatKey)'
  BY DEF PortInv, WiredJacks
<1>1. /\ BatKey \in LinkKeys /\ Bridged(Iface) \in LinkKeys
      /\ \A p \in WiredJacks : WiredKey(p) \in LinkKeys /\ Bridged(p) \in LinkKeys
  BY DEF LinkKeys
<1>2. /\ BatKey.pkg = "network"
      /\ \A p : WiredKey(p).pkg = "network" /\ Bridged(p).pkg = "network"
  BY DEF BatKey, WiredKey, Bridged, Exists, Fact
<1>3. \A k : k.pkg = "network" => Settled(a, k)'
  BY DEF Settled
<1>4. CASE \A k \in LinkKeys : k.pkg = "network" => Keeps(a, k)
  <2>1. \A k \in LinkKeys : k.pkg = "network" =>
          Settled(a, k) /\ (WillHold(a, k)' <=> WillHold(a, k))
    BY <1>3, <1>4 DEF Keeps
  <2>2. Whole(a) \/ ~device.batman
    BY <1>1, <1>2, <2>1 DEF Settled
  <2> QED
    BY <1>1, <1>2, <2>1, <2>2 DEF PortInv
<1> QED
  BY <1>4 DEF Links, Detached, SetUp, TornDown

LEMMA PortInit ==
  ASSUME Init, NEW a \in Tasks, JacksApart
  PROVE  PortInv(a)
<1>1. device.wired \subseteq LanPorts /\ Iface \notin LanPorts
  BY PortAssumption DEF Init, JacksApart
<1>2. \A p \in WiredJacks : p \in LanPorts
  BY <1>1 DEF WiredJacks
<1> QED
  BY <1>1, <1>2, LinksInit DEF PortInv

\* The other jacks stay in the bridge.
JackInv ==
  \A p \in LanPorts \ (device.wired \cup {Uplink}) :
    Holds(staged, Bridged(p)) /\ Holds(committed, Bridged(p))

\* What a step makes of a fact that the author's program does not decide
LEMMA OneStays ==
  ASSUME NEW a, AuthorStep(a), NEW k, ConfigKey(k),
         prog[a] # <<>> => Effect(TheCall(a), k) = "none"
  PROVE  /\ (Holds(staged', k) <=> Holds(staged, k)) \/ (Holds(staged', k) <=> Holds(committed, k))
         /\ \/ Holds(committed', k) <=> Holds(committed, k)
            \/ Holds(committed', k) <=> Holds(staged, k)
<1>1. CASE Advances(a)
  BY <1>1 DEF Advances, After, ConfigKey
<1>2. CASE EndsEarly(a)
  BY <1>2 DEF EndsEarly
<1>3. CASE Begins(a)
  BY <1>3 DEF Begins, config
<1>4. CASE StartsAnew
  BY <1>4 DEF StartsAnew
<1>5. CASE Waits(a)
  BY <1>5 DEF Waits
<1> QED
  BY <1>1, <1>2, <1>3, <1>4, <1>5 DEF AuthorStep

LEMMA JackNext ==
  ASSUME NEW a, SparesInv(a), AuthorStep(a), JackInv
  PROVE  JackInv'
<1> SUFFICES ASSUME NEW p, p \in LanPorts \ (device.wired \cup {Uplink})
             PROVE  Holds(staged', Bridged(p)) /\ Holds(committed', Bridged(p))
  BY DEF JackInv, AuthorStep
<1>1. /\ PlainKey(Bridged(p)) /\ Nameable(Bridged(p)) /\ KeyName(Bridged(p)) = Member(p)
      /\ Member(p) \in Others
  BY Keys, PlainIsNameable DEF Others
<1>2. ASSUME prog[a] # <<>>
      PROVE  Effect(TheCall(a), Bridged(p)) = "none"
  <2>1. Spares(TheCall(a), Others)
    BY <1>2, AvoidsMany DEF SparesInv, TheCall
  <2> QED
    BY <1>1, <2>1, SparesEffect
<1>3. Holds(staged, Bridged(p)) /\ Holds(committed, Bridged(p))
  BY DEF JackInv
<1> QED
  BY <1>1, <1>2, <1>3, OneStays DEF ConfigKey

LEMMA JackInit == Init => JackInv
<1> SUFFICES ASSUME Init
             PROVE  JackInv
  OBVIOUS
<1>1. staged = FirstBoot /\ committed = FirstBoot
  BY DEF Init
<1> QED
  BY <1>1, FirstBootIs, BridgedHolds DEF JackInv

\* The uplink is where the posture that found it has it, and that is committed, but
\* while the author is on the way there.
PostureInv(a) ==
  /\ past.posture # None /\ past.posture.found /\ job[a].kind # "posture" =>
       \A c \in {staged, committed} :
         Holds(c, Bridged(Uplink)) <=> past.posture.role # "controller"
  /\ job[a].kind = "posture" =>
       /\ job[a].arg.found =>
            (WillHold(a, Bridged(Uplink)) <=> job[a].arg.role # "controller")
       /\ Net(prog[a], Uncommitted("network")) # "off" =>
            (Holds(committed, Bridged(Uplink)) <=> Holds(staged, Bridged(Uplink)))

LEMMA UplinkKey ==
  /\ PlainKey(Bridged(Uplink)) /\ Nameable(Bridged(Uplink))
  /\ KeyName(Bridged(Uplink)) = Member(Uplink) /\ Bridged(Uplink).pkg = "network"
<1>1. Bridged(Uplink).pkg = "network"
  BY DEF Bridged, Fact
<1> QED
  BY <1>1, Keys, PlainIsNameable

LEMMA PostureAdvances ==
  ASSUME TypeInv, LeftInv, NEW a \in Tasks, AuthorInv(a), PostureInv(a), Advances(a),
         job[a].kind = "posture"
  PROVE  PostureInv(a)'
<1> DEFINE k == Bridged(Uplink)
           T == Tail(prog[a])
<1>1. PICK X : Inserts(a, X) /\ Good(X, Bridgeable) /\ MovedOn(a, X \o T)
  BY DEF Advances
<1>2. PlainKey(k) /\ k.pkg = "network"
  BY UplinkKey
<1> HIDE DEF k
<1>3. prog[a] # <<>> /\ IsProgram(T)
  BY HeadTail DEF Advances, TypeInv, TasksTyped, Good
<1>4. X = <<>>
  <2>1. Avoids(prog[a], MeshNames \cup {Application, Fallback})
    BY DEF AuthorInv
  <2> QED
    BY <1>1, <1>3, <2>1, InsertsNothing
<1>5. X \o T = T
  BY <1>3, <1>4, NothingInserted
<1>6. /\ prog'[a] = T /\ job'[a] = IF T = <<>> THEN Idle ELSE job[a]
      /\ T = <<>> => past'.posture = job[a].arg
  BY <1>1, <1>5 DEF MovedOn
<1>7. Final(X \o T, k, Holds(staged', k)) <=> WillHold(a, k)
  BY <1>1, <1>2, <1>4, NetEmpty, WillStillHold
<1>8. job[a].arg.found => (WillHold(a, k)' <=> job[a].arg.role # "controller")
  BY <1>5, <1>6, <1>7 DEF WillHold, PostureInv, k
<1>9. Net(T, Uncommitted("network")) # "off" => (Holds(committed', k) <=> Holds(staged', k))
  BY <1>2, <1>6, CommitAdvances DEF PostureInv, k, ConfigKey
<1> HIDE DEF T
<1>10. CASE T = <<>>
  <2>1. job[a].arg.found => (Holds(staged', k) <=> job[a].arg.role # "controller")
    BY <1>6, <1>8, <1>10, NetEmpty DEF WillHold, Final
  <2>2. Holds(committed', k) <=> Holds(staged', k)
    BY <1>9, <1>10, NetEmpty
  <2>3. job'[a].kind # "posture" /\ past'.posture = job[a].arg
    BY <1>6, <1>10 DEF Idle
  <2> QED
    BY <2>1, <2>2, <2>3 DEF PostureInv, k
<1>11. CASE T # <<>>
  BY <1>6, <1>8, <1>9, <1>11 DEF PostureInv, k
<1> QED
  BY <1>10, <1>11

LEMMA PostureBegins ==
  ASSUME NEW a \in Tasks, Begins(a), job'[a].kind = "posture"
  PROVE  PostureInv(a)'
<1>1. PICK r \in Roles, f \in BOOLEAN :
        BeginsWith(a, "posture", [role |-> r, found |-> f], ApplyPosture(r, f))
  <2>1. \A kind, arg, P : BeginsWith(a, kind, arg, P) => job'[a].kind = kind
    BY DEF BeginsWith
  <2> QED
    BY <2>1 DEF Begins
<1>2. prog'[a] = ApplyPosture(r, f) /\ job'[a].arg.role = r /\ job'[a].arg.found = f
  BY <1>1 DEF BeginsWith
<1>3. /\ f => Net(prog'[a], Bridged(Uplink)) = IF r = "controller" THEN "off" ELSE "on"
      /\ Net(prog'[a], Uncommitted("network")) = "off"
  BY <1>2, PostureDoes
<1>4. f => (WillHold(a, Bridged(Uplink))' <=> r # "controller")
  BY <1>3 DEF WillHold, Final
<1> QED
  BY <1>2, <1>3, <1>4 DEF PostureInv

LEMMA PostureStays ==
  ASSUME TypeInv, NEW a \in Tasks, SparesInv(a), JacksApart, PostureInv(a), AuthorStep(a),
         job[a].kind # "posture", job'[a].kind # "posture"
  PROVE  PostureInv(a)'
<1> DEFINE k == Bridged(Uplink)
<1>1. PlainKey(k) /\ Nameable(k) /\ KeyName(k) = Member(Uplink)
  BY UplinkKey
<1>2. ASSUME prog[a] # <<>>
      PROVE  Effect(TheCall(a), k) = "none"
  <2>1. Spares(TheCall(a), {Member(Uplink)})
    BY <1>2, AvoidsMany DEF SparesInv, TheCall
  <2> QED
    BY <1>1, <2>1, SparesEffect
<1> HIDE DEF k
<1>3. /\ (Holds(staged', k) <=> Holds(staged, k)) \/ (Holds(staged', k) <=> Holds(committed, k))
      /\ \/ Holds(committed', k) <=> Holds(committed, k)
         \/ Holds(committed', k) <=> Holds(staged, k)
  BY <1>1, <1>2, OneStays DEF ConfigKey
<1>4. past'.posture = past.posture \/ past'.posture = None
  BY DEF AuthorStep, Advances, MovedOn, EndsEarly, GaveUp, Begins, StartsAnew, Started,
         Waits, SamePast
<1> QED
  BY <1>3, <1>4 DEF PostureInv, k

LEMMA PostureNext ==
  ASSUME TypeInv, LeftInv, NEW a \in Tasks, AuthorInv(a), SparesInv(a), JacksApart,
         PostureInv(a), AuthorStep(a)
  PROVE  PostureInv(a)'
<1>1. CASE job[a].kind # "posture" /\ job'[a].kind # "posture"
  BY <1>1, PostureStays
<1>2. CASE Begins(a) /\ job'[a].kind = "posture"
  BY <1>2, PostureBegins
<1>3. CASE Advances(a) /\ job[a].kind = "posture"
  BY <1>3, PostureAdvances
<1>4. CASE (EndsEarly(a) \/ StartsAnew) /\ job[a].kind = "posture"
  <2>1. past'.posture = None /\ job'[a] = Idle
    BY <1>4 DEF EndsEarly, GaveUp, StartsAnew, Started
  <2> QED
    BY <2>1 DEF PostureInv, Idle
<1>5. CASE Waits(a) /\ job[a].kind = "posture"
  <2>1. prog'[a] = prog[a] /\ job'[a] = job[a]
    BY <1>5 DEF Waits
  <2>2. WillHold(a, Bridged(Uplink))' <=> WillHold(a, Bridged(Uplink))
    BY <1>5, UplinkKey, WaitKeeps DEF ConfigKey
  <2>3. (Holds(committed, Bridged(Uplink)) <=> Holds(staged, Bridged(Uplink))) =>
          (Holds(committed', Bridged(Uplink)) <=> Holds(staged', Bridged(Uplink)))
    BY <1>5, UplinkKey DEF Waits, ConfigKey
  <2> QED
    BY <1>5, <2>1, <2>2, <2>3 DEF PostureInv
<1>6. job'[a].kind = "posture" => Begins(a) \/ job[a].kind = "posture"
  <2>1. Idle.kind = "idle"
    BY DEF Idle
  <2> QED
    BY <2>1 DEF AuthorStep, Advances, MovedOn, EndsEarly, GaveUp, StartsAnew, Started, Waits
<1>7. Begins(a) => job[a].kind # "posture"
  BY DEF Begins, Idle
<1> QED
  BY <1>1, <1>2, <1>3, <1>4, <1>5, <1>6, <1>7 DEF AuthorStep

LEMMA PortsInPlace ==
  ASSUME TypeInv, LeftInv, NEW a \in Tasks, JacksApart, PortInv(a), JackInv, PostureInv(a)
  PROVE  EachPortInOnePlace
<1> SUFFICES ASSUME AtRest, ~past.half, "network" \notin past.torn
             PROVE  /\ Members(running) \ {Uplink} =
                         (LanPorts \ HardifPorts(running))
                           \cup (IF Has(running, "network", IfaceSection) THEN {Iface} ELSE {})
                    /\ past.posture # None /\ past.posture.found =>
                         (Uplink \in Members(running) <=> past.posture.role # "controller")
  BY DEF EachPortInOnePlace
<1>1. prog[a] = <<>> /\ Whole(a) /\ job[a] = Idle
  BY DEF AtRest, Whole, TypeInv, TasksTyped
<1>2. staged["network"] = running["network"]
  BY PackageRuns DEF Packages
<1>3. /\ Members(staged) = Members(running)
      /\ \A s : Has(staged, "network", s) <=> Has(running, "network", s)
  BY <1>2 DEF Members, Option, Has
<1>4. \A k : WillHold(a, k) <=> Holds(staged, k)
  BY <1>1, NetEmpty DEF WillHold, Final
<1>5. WiredJacks = device.wired /\ device.wired \subseteq LanPorts /\ Uplink \notin LanPorts
  BY DEF WiredJacks, JacksApart, TypeInv, RestTyped
<1>6. \A p \in device.wired : p \in Members(running) <=> p \notin HardifPorts(running)
  <2> TAKE p \in device.wired
  <2>1. Holds(staged, Bridged(p)) <=> ~Holds(staged, WiredKey(p))
    BY <1>1, <1>4, <1>5 DEF PortInv
  <2>2. Holds(staged, WiredKey(p)) <=> Has(staged, "network", WiredHardif(p))
    BY ExistsHolds DEF WiredKey
  <2> QED
    BY <1>3, <2>1, <2>2, BridgedHolds DEF HardifPorts
<1>7. Iface \in Members(running) <=> Has(running, "network", IfaceSection)
  <2>1. Holds(staged, Bridged(Iface)) <=> Holds(staged, BatKey)
    BY <1>1, <1>4 DEF PortInv
  <2>2. Holds(staged, BatKey) <=> Has(staged, "network", IfaceSection)
    BY ExistsHolds DEF BatKey
  <2> QED
    BY <1>3, <2>1, <2>2, BridgedHolds
<1>8. \A p \in LanPorts \ device.wired : p \in Members(running)
  BY <1>3, <1>5, BridgedHolds DEF JackInv
<1>9. HardifPorts(running) \subseteq device.wired
  BY DEF HardifPorts
<1>10. Members(running) \subseteq LanPorts \cup {Uplink, Iface}
  BY <1>5 DEF TypeInv, ConfigsTyped, ConfigTyped, Bridgeable
<1>11. Iface \notin LanPorts /\ Iface # Uplink
  BY LinkMembers
<1>12. Members(running) \ {Uplink} =
         (LanPorts \ HardifPorts(running))
           \cup (IF Has(running, "network", IfaceSection) THEN {Iface} ELSE {})
  BY <1>5, <1>6, <1>7, <1>8, <1>9, <1>10, <1>11
<1>13. past.posture # None /\ past.posture.found =>
         (Uplink \in Members(running) <=> past.posture.role # "controller")
  BY <1>1, <1>3, BridgedHolds DEF PostureInv, Idle
<1> QED
  BY <1>12, <1>13

\* With one author, and jacks that are where the device ships them, once nobody is at
\* work a jack of the LAN is in the bridge or a hard interface of batman, never both
\* and never neither, whatever profiles came and went, failed to bring batman up, or
\* were overtaken by a restart; bat0 is in the bridge when there is one; and the
\* uplink is where the last posture has put it, if that one found it.  What a posture
\* that could not read the uplink leaves behind is a matter of UplinkFollowsPosture,
\* which the code does not keep.  An application that ended half way may leave it
\* otherwise until the next one is complete.
THEOREM PortsAreInOnePlace ==
  ASSUME NEW a, Authors = {a}, JacksApart
  PROVE  Spec => []EachPortInOnePlace
<1> DEFINE Inv == WorkInv(a) /\ PortInv(a) /\ JackInv /\ PostureInv(a)
<1>0. a \in Tasks
  BY DEF Tasks
<1>1. Init => Inv
  <2> SUFFICES ASSUME Init
               PROVE  Inv
    OBVIOUS
  <2>1. PostureInv(a)
    BY <1>0 DEF PostureInv, Init, Idle
  <2> QED
    BY <1>0, <2>1, WorkInit, PortInit, JackInit
<1>2. Inv /\ [Next]_vars => Inv'
  <2> SUFFICES ASSUME Inv, [Next]_vars
               PROVE  Inv'
    OBVIOUS
  <2>1. WorkInv(a)' /\ AuthorStep(a)
    BY WorkNext
  <2>2. PortInv(a)'
    BY <1>0, <2>1, LinksNext, PortNext DEF WorkInv, AuthorStep
  <2>3. JackInv' /\ PostureInv(a)'
    BY <1>0, <2>1, JackNext, PostureNext DEF WorkInv
  <2> QED
    BY <2>1, <2>2, <2>3
<1>3. Inv => EachPortInOnePlace
  BY <1>0, PortsInPlace DEF WorkInv
<1> HIDE DEF Inv
<1> QED
  BY <1>1, <1>2, <1>3, PTL DEF Spec

-----------------------------------------------------------------------------
(* The access points *)

\* What the deletion of stale access points does
LEMMA DeletesDo ==
  ASSUME NEW stale, stale \subseteq SecondaryAPs, NEW k, APFact(k)
  PROVE  Net(Deletes(stale), k) = IF k.sec \in stale THEN "off" ELSE "none"
<1> DEFINE body == [s \in stale |-> Delete("wireless", s)]
           n == 1
<1>1. IsFiniteSet(DOMAIN body) /\ DOMAIN body = stale
  BY StaleAreGood
<1>2. \A s : IsProgram(Delete("wireless", s)) /\ Len(Delete("wireless", s)) = n
  BY OneCall DEF Delete, Call
<1>3. n \in {1, 3, 4} /\ \A s \in stale : body[s] = Delete("wireless", s)
  OBVIOUS
<1>4. Deletes(stale) = ForEach(n, body)
  BY DEF Deletes
<1>5. ConfigKey(k) /\ k.pkg = "wireless" /\ k.kind \in {"exists", "option"}
  BY APFactIs
<1>6. ASSUME NEW s
      PROVE  Net(Delete("wireless", s), k) = IF k.sec = s THEN "off" ELSE "none"
  <2> DEFINE c == [op |-> "delete", pkg |-> "wireless", sec |-> s, arg |-> NoArg]
  <2>1. c.op = "delete" /\ c.pkg = "wireless" /\ c.sec = s
    OBVIOUS
  <2>2. Net(Delete("wireless", s), k) = Effect(c, k)
    <3>1. \A arg : Net(Call("delete", "wireless", s, arg), k) =
             Effect([op |-> "delete", pkg |-> "wireless", sec |-> s, arg |-> arg], k)
      BY NetOfCall
    <3> QED
      BY <3>1, Zenon DEF Delete
  <2> HIDE DEF c
  <2>3. Effect(c, k) = IF k.sec = s THEN "off" ELSE "none"
    BY <1>5, <2>1 DEF Effect, TurnsOn, TurnsOff, Removes, Writes
  <2> QED
    BY <2>2, <2>3
<1> HIDE DEF n, body
<1>7. \A x \in DOMAIN body : IsProgram(body[x]) /\ Len(body[x]) = n
  BY <1>1, <1>2, <1>3
<1>8. \A x \in DOMAIN body : Net(body[x], k) = IF k.sec = x THEN "off" ELSE "none"
  BY <1>1, <1>3, <1>6
<1>9. CASE k.sec \in stale
  <2>1. OthersRest(body, k, k.sec) /\ k.sec \in DOMAIN body
    BY <1>1, <1>8, <1>9 DEF OthersRest
  <2>2. Net(ForEach(n, body), k) = Net(body[k.sec], k)
    BY <1>1, <1>3, <1>7, <2>1, NetForEach
  <2> QED
    BY <1>4, <1>8, <1>9, <2>1, <2>2
<1>10. CASE k.sec \notin stale
  <2>1. \A x \in DOMAIN body : Net(body[x], k) = "none"
    BY <1>1, <1>8, <1>10
  <2>2. Net(ForEach(n, body), k) = "none"
    BY <1>1, <1>3, <1>7, <2>1, NetForEachNone
  <2> QED
    BY <1>4, <1>10, <2>2
<1> QED
  BY <1>9, <1>10

\* What is not staged has no options.
LEMMA HoldsIfThere ==
  ASSUME NEW c, NEW k, k.kind \in {"exists", "option"}, Holds(c, k)
  PROVE  Has(c, k.pkg, k.sec)
BY DEF Holds

\* A call that is made leaves what will become of the access points as it was: the
\* prune, because the deletions that it decides on take its place.
LEMMA APsAdvance ==
  ASSUME TypeInv, NEW a \in Tasks, Advances(a),
         NEW X, Inserts(a, X), Good(X, Bridgeable), NEW k, APFact(k)
  PROVE  Final(X \o Tail(prog[a]), k, Holds(staged', k)) <=> WillHold(a, k)
<1> DEFINE T == Tail(prog[a])
           c == TheCall(a)
<1>1. prog[a] # <<>> /\ IsProgram(prog[a]) /\ IsProgram(T) /\ IsProgram(X)
  BY HeadTail DEF Advances, TypeInv, TasksTyped, Good
<1>2. WillHold(a, k) = Final(T, k, After(c, k, Holds(staged, k)))
  BY <1>1, FinalTail DEF WillHold, TheCall
<1>3. ConfigKey(k) /\ k.pkg = "wireless" /\ k.kind \in {"exists", "option"}
  BY APFactIs
<1>4. GoodCall(c, Bridgeable)
  BY <1>1, TheCallTyped
<1>5. \A s \in SecondaryAPs : s[1] = "omm_ap_"
  BY APSectionNames
<1>6. Final(X \o T, k, Holds(staged', k)) = Final(T, k, Final(X, k, Holds(staged', k)))
  BY <1>1, FinalConcat
<1>7. CASE c.op = "prune"
  <2> DEFINE keep == c.arg.keep
  <2>1. X = Deletes(Stale(a))
    BY <1>7 DEF Inserts
  <2>2. Stale(a) \subseteq SecondaryAPs
    BY DEF Stale
  <2>3. Net(X, k) = IF k.sec \in Stale(a) THEN "off" ELSE "none"
    BY <2>1, <2>2, DeletesDo
  <2>4. Effect(c, k) = IF k.sec \in SecondaryAPs \ keep THEN "off" ELSE "none"
    <3>1. c.pkg = "wireless"
      BY <1>4, <1>7 DEF GoodCall
    <3> HIDE DEF c
    <3> QED
      BY <1>3, <1>7, <3>1 DEF Effect, TurnsOn, TurnsOff, Removes, Writes, c
  <2>5. Holds(staged', k) <=> Holds(staged, k)
    <3>1. CASE PlainKey(k)
      <4>1. Effect(c, k) = "none"
        BY <1>4, <1>7, <3>1, ConfigEffects DEF ConfigKey
      <4> QED
        BY <3>1, <4>1 DEF Advances, After
    <3>2. CASE APKey(k)
      BY <1>7, <3>2 DEF Advances
    <3> QED
      BY <1>3, <3>1, <3>2 DEF ConfigKey
  <2>6. k.sec \in Stale(a) <=> Has(staged, "wireless", k.sec) /\ k.sec \in SecondaryAPs \ keep
    BY DEF Stale, Has
  <2>7. Holds(staged, k) => Has(staged, "wireless", k.sec)
    BY <1>3, HoldsIfThere
  <2> HIDE DEF keep, c, T
  <2>8. Final(X, k, Holds(staged', k)) <=> After(c, k, Holds(staged, k))
    BY <2>3, <2>4, <2>5, <2>6, <2>7 DEF Final, After
  <2>9. Final(X \o T, k, Holds(staged', k)) <=> WillHold(a, k)
    BY <1>2, <1>6, <2>8 DEF Final
  <2> QED
    BY <2>9 DEF T
<1>8. CASE c.op # "prune"
  <2>1. Net(X, k) = "none"
    <3>1. BatmanNames \cap APNames = {} /\ MeshNames \cap APNames = {}
      BY DEF BatmanNames, MeshNames, APNames
    <3>2. Net(BatmanFallback(device), k) = "none"
      <4>1. Footprint(BatmanFallback(device), BatmanNames \cup MeshNames,
                      device.wired \cup {Iface})
        BY WiredFacts, FallbackFootprint
      <4>2. (BatmanNames \cup MeshNames) \cap APNames = {}
        BY <3>1
      <4> QED
        BY <4>1, <4>2, APKept
    <3>3. Net(Degrade, k) = "none" /\ IsProgram(Degrade)
      <4>1. Footprint(Degrade, MeshNames, {})
        BY SwitchFootprint
      <4> QED
        BY <3>1, <4>1, APKept DEF Footprint
    <3>4. ASSUME NEW y
          PROVE  Net(SetBackhaulState(y), k) = "none" /\ IsProgram(SetBackhaulState(y))
      <4>1. Net(SetBackhaulState(y), k) = "none"
        BY APUnseen DEF SetBackhaulState
      <4>2. IsProgram(SetBackhaulState(y))
        BY OneCall DEF SetBackhaulState, Call
      <4> QED
        BY <4>1, <4>2
    <3>5. Net(Degrade \o SetBackhaulState("degraded"), k) = "none"
      BY <3>3, <3>4, NetConcat DEF Later
    <3> QED
      BY <1>8, <3>2, <3>3, <3>4, <3>5, NetEmpty DEF Inserts
  <2>2. Holds(staged', k) <=> After(c, k, Holds(staged, k))
    BY <1>3, <1>8 DEF Advances, ConfigKey
  <2> HIDE DEF c, T
  <2>3. Final(X \o T, k, Holds(staged', k)) <=> WillHold(a, k)
    BY <1>2, <1>6, <2>1, <2>2 DEF Final
  <2> QED
    BY <2>3 DEF T
<1> QED
  BY <1>7, <1>8


\* What is authored is what the profile asks for.
APsAre(c, p) == \A k \in APFacts(p) : Holds(c, k) <=> k \in APOn(p)

\* It will be, once the author is done, and what is committed of it agrees with what
\* is staged but before the commit to come.
APsWill(a, p) ==
  \A k \in APFacts(p) :
    /\ WillHold(a, k) <=> k \in APOn(p)
    /\ Net(prog[a], Uncommitted("wireless")) # "off" =>
         (Holds(committed, k) <=> Holds(staged, k))

APInv(a) ==
  /\ past.profile # None => Resolvable(past.profile)
  /\ job[a].kind = "profile" => Resolvable(job[a].arg) /\ APsWill(a, job[a].arg)
  /\ job[a].kind # "profile" =>
       /\ Avoids(prog[a], APNames \cup {Application})
       /\ past.profile # None =>
            APsAre(staged, past.profile) /\ APsAre(committed, past.profile)

LEMMA APFactsOf ==
  ASSUME NEW p, NEW k \in APFacts(p)
  PROVE  APFact(k) /\ ConfigKey(k) /\ k.pkg = "wireless"
BY ListedRadios, APFactsAre, APFactIs

\* A profile application goes on, and is done.
LEMMA APsGoOn ==
  ASSUME TypeInv, LeftInv, NEW a \in Tasks, APInv(a), Advances(a), job[a].kind = "profile"
  PROVE  APInv(a)'
<1> DEFINE T == Tail(prog[a])
           p == job[a].arg
<1>1. PICK X : Inserts(a, X) /\ Good(X, Bridgeable) /\ MovedOn(a, X \o T)
  BY DEF Advances
<1>2. /\ prog'[a] = X \o T /\ job'[a] = IF X \o T = <<>> THEN Idle ELSE job[a]
      /\ past'.profile = IF X \o T = <<>> THEN p ELSE past.profile
  BY <1>1 DEF MovedOn
<1>3. ASSUME NEW k \in APFacts(p)
      PROVE  /\ Final(prog'[a], k, Holds(staged', k)) <=> k \in APOn(p)
             /\ Net(prog'[a], Uncommitted("wireless")) # "off" =>
                  (Holds(committed', k) <=> Holds(staged', k))
  <2>1. APFact(k) /\ ConfigKey(k) /\ k.pkg = "wireless"
    BY <1>3, APFactsOf
  <2>2. /\ WillHold(a, k) <=> k \in APOn(p)
        /\ Net(prog[a], Uncommitted("wireless")) # "off" =>
             (Holds(committed, k) <=> Holds(staged, k))
    BY <1>3 DEF APInv, APsWill
  <2>3. Final(X \o T, k, Holds(staged', k)) <=> WillHold(a, k)
    BY <1>1, <2>1, APsAdvance
  <2>4. Net(prog'[a], Uncommitted("wireless")) # "off" =>
          (Holds(committed', k) <=> Holds(staged', k))
    BY <2>1, <2>2, CommitAdvances
  <2> QED
    BY <1>2, <2>2, <2>3, <2>4
<1>4. Resolvable(p) /\ (past.profile # None => Resolvable(past.profile))
  BY DEF APInv
<1> DEFINE rest == X \o T
<1> HIDE DEF T, rest
<1>5. CASE rest = <<>>
  <2>1. prog'[a] = <<>> /\ job'[a].kind # "profile" /\ past'.profile = p
    BY <1>2, <1>5 DEF rest, Idle
  <2>2. \A k \in APFacts(p) : Final(<<>>, k, Holds(staged', k)) <=> Holds(staged', k)
    BY NetEmpty DEF Final
  <2>3. APsAre(staged', p)
    BY <1>3, <2>1, <2>2 DEF APsAre
  <2>4. APsAre(committed', p)
    <3>1. Net(prog'[a], Uncommitted("wireless")) # "off"
      BY <2>1, NetEmpty
    <3> QED
      BY <1>3, <2>3, <3>1 DEF APsAre
  <2> HIDE DEF p
  <2>5. Avoids(prog'[a], APNames \cup {Application})
    BY <2>1, AvoidsMany
  <2> QED
    BY <1>4, <2>1, <2>3, <2>4, <2>5 DEF APInv
<1>6. CASE rest # <<>>
  <2>1. job'[a] = job[a] /\ past'.profile = past.profile
    BY <1>2, <1>6 DEF rest
  <2>2. APsWill(a, p)'
    BY <1>3, <2>1 DEF APsWill, WillHold
  <2>3. job'[a].arg = p
    BY <2>1
  <2> QED
    BY <1>4, <2>1, <2>2, <2>3 DEF APInv
<1> QED
  BY <1>5, <1>6

\* A step of another job, and waiting, leave the access points to the last profile.
LEMMA APsStay ==
  ASSUME TypeInv, NEW a \in Tasks, AuthorInv(a), APInv(a), AuthorStep(a),
         job[a].kind # "profile", job'[a].kind # "profile",
         Avoids(prog'[a], APNames \cup {Application})
  PROVE  APInv(a)'
<1>1. past'.profile = past.profile \/ past'.profile = None
  <2>1. Advances(a) => past'.profile = past.profile
    BY DEF Advances, MovedOn
  <2> QED
    BY <2>1 DEF AuthorStep, EndsEarly, GaveUp, Begins, StartsAnew, Started, Waits, SamePast
<1>2. ASSUME past'.profile # None, NEW k \in APFacts(past.profile)
      PROVE  /\ Holds(staged', k) <=> k \in APOn(past.profile)
             /\ Holds(committed', k) <=> k \in APOn(past.profile)
  <2>1. APFact(k) /\ ConfigKey(k)
    BY <1>2, APFactsOf
  <2>2. ASSUME prog[a] # <<>>
        PROVE  Effect(TheCall(a), k) = "none"
    <3>1. Spares(TheCall(a), APNames \cup {Application})
      BY <2>2, AvoidsMany DEF APInv, TheCall
    <3> QED
      BY <2>1, <3>1, APKept
  <2>3. /\ Holds(staged, k) <=> k \in APOn(past.profile)
        /\ Holds(committed, k) <=> k \in APOn(past.profile)
    BY <1>1, <1>2 DEF APInv, APsAre
  <2> QED
    BY <2>1, <2>2, <2>3, OneStays
<1>3. past'.profile # None => APsAre(staged', past'.profile) /\ APsAre(committed', past'.profile)
  BY <1>1, <1>2 DEF APsAre
<1>4. past'.profile # None => Resolvable(past'.profile)
  BY <1>1 DEF APInv
<1> QED
  BY <1>3, <1>4 DEF APInv

LEMMA APsBegin ==
  ASSUME TypeInv, NEW a \in Tasks, APInv(a), Begins(a), job'[a].kind = "profile"
  PROVE  APInv(a)'
<1>1. PICK p \in Applied :
        Resolvable(p) /\ BeginsWith(a, "profile", p, ApplyProfile(p, device, standby))
  <2>1. \A kind, arg, P : BeginsWith(a, kind, arg, P) => job'[a].kind = kind
    BY DEF BeginsWith
  <2> QED
    BY <2>1 DEF Begins
<1>2. prog'[a] = ApplyProfile(p, device, standby) /\ job'[a].arg = p
  BY <1>1 DEF BeginsWith
<1>3. past' = past
  BY DEF Begins
<1>4. \A k \in APFacts(p) : Net(prog'[a], k) = IF k \in APOn(p) THEN "on" ELSE "off"
  BY <1>2, ListedRadios, WiredFacts, ProfileAssumption, ProfileAPs
<1>5. Net(prog'[a], Uncommitted("wireless")) = "off"
  BY <1>2, ListedRadios, WiredFacts, ProfileAssumption, ProfileEnds
<1>6. APsWill(a, p)'
  BY <1>4, <1>5 DEF APsWill, WillHold, Final
<1>7. APsWill(a, job[a].arg)'
  BY <1>2, <1>6 DEF APsWill, WillHold
<1> QED
  BY <1>1, <1>2, <1>3, <1>7 DEF APInv

\* No other job has to do with the access points of a profile.
LEMMA OthersSpareAPs ==
  ASSUME NEW a \in Tasks, Begins(a), job'[a].kind # "profile"
  PROVE  Avoids(prog'[a], APNames \cup {Application})
<1> DEFINE S == APNames \cup {Application}
<1>1. /\ S \cap PostureNames = {} /\ S \cap SetupNames = {} /\ S \cap UplinkNames = {}
      /\ S \cap RadioNames = {} /\ Known \notin S /\ Member(Uplink) \notin S
  BY DEF PostureNames, SetupNames, UplinkNames, RadioNames, Known, APNames, Application,
         Member
<1> HIDE DEF S
<1>2. \A r, f : Avoids(ApplyPosture(r, f), S)
  BY <1>1, PostureAvoids
<1>3. /\ Avoids(EnableSetup, S) /\ Avoids(EnableUplink, S)
      /\ \A active : Avoids(Disable(active), S)
  BY <1>1, SetupAvoids
<1>4. \A kind, arg, P : BeginsWith(a, kind, arg, P) => job'[a].kind = kind /\ prog'[a] = P
  BY DEF BeginsWith
<1>5. Avoids(prog'[a], S)
  BY <1>2, <1>3, <1>4 DEF Begins
<1> QED
  BY <1>5 DEF S

LEMMA APsNext ==
  ASSUME TypeInv, LeftInv, NEW a \in Tasks, AuthorInv(a), APInv(a), AuthorStep(a)
  PROVE  APInv(a)'
<1>0. Idle.kind # "profile"
  BY DEF Idle
<1>1. CASE Advances(a)
  <2>1. CASE job[a].kind = "profile"
    BY <1>1, <2>1, APsGoOn
  <2>2. CASE job[a].kind # "profile"
    <3>1. PICK X : Inserts(a, X) /\ MovedOn(a, X \o Tail(prog[a]))
      BY <1>1 DEF Advances
    <3>2. X \o Tail(prog[a]) = Tail(prog[a])
      BY <1>1, <2>2, <3>1, AuthorAdvances DEF Advances
    <3>3. /\ prog'[a] = Tail(prog[a])
          /\ job'[a] = IF Tail(prog[a]) = <<>> THEN Idle ELSE job[a]
      BY <3>1, <3>2 DEF MovedOn
    <3>4. Avoids(prog[a], APNames \cup {Application}) /\ prog[a] # <<>>
      BY <1>1, <2>2 DEF APInv, Advances
    <3>5. Avoids(prog'[a], APNames \cup {Application})
      BY <3>3, <3>4, AvoidsMany
    <3> QED
      BY <1>0, <2>2, <3>3, <3>5, APsStay
  <2> QED
    BY <2>1, <2>2
<1>2. CASE EndsEarly(a) \/ StartsAnew
  <2>1. prog'[a] = <<>> /\ job'[a] = Idle
    BY <1>2 DEF EndsEarly, GaveUp, StartsAnew, Started
  <2>2. Avoids(prog'[a], APNames \cup {Application})
    BY <2>1, AvoidsMany
  <2>3. CASE job[a].kind = "profile"
    <3>1. past'.profile = None
      BY <1>2, <2>3 DEF EndsEarly, GaveUp, StartsAnew, Started
    <3> QED
      BY <1>0, <2>1, <2>2, <3>1 DEF APInv
  <2>4. CASE job[a].kind # "profile"
    BY <1>0, <2>1, <2>2, <2>4, APsStay
  <2> QED
    BY <2>3, <2>4
<1>3. CASE Begins(a)
  <2>1. job[a].kind # "profile"
    BY <1>0, <1>3 DEF Begins
  <2> QED
    BY <1>3, <2>1, APsBegin, OthersSpareAPs, APsStay
<1>4. CASE Waits(a)
  <2>1. prog'[a] = prog[a] /\ job'[a] = job[a] /\ past'.profile = past.profile
    BY <1>4 DEF Waits, SamePast
  <2>2. CASE job[a].kind = "profile"
    <3> DEFINE p == job[a].arg
    <3>1. ASSUME NEW k \in APFacts(p)
          PROVE  /\ WillHold(a, k)' <=> WillHold(a, k)
                 /\ (Holds(committed, k) <=> Holds(staged, k)) =>
                      (Holds(committed', k) <=> Holds(staged', k))
      <4>1. ConfigKey(k)
        BY <3>1, APFactsOf
      <4> QED
        BY <1>4, <4>1, WaitKeeps DEF Waits
    <3>2. APsWill(a, p)
      BY <2>2 DEF APInv
    <3>3. APsWill(a, p)'
      <4> SUFFICES ASSUME NEW k \in APFacts(p)
                   PROVE  /\ WillHold(a, k)' <=> k \in APOn(p)
                          /\ Net(prog'[a], Uncommitted("wireless")) # "off" =>
                               (Holds(committed', k) <=> Holds(staged', k))
        BY <2>1 DEF APsWill
      <4> QED
        BY <2>1, <3>1, <3>2 DEF APsWill
    <3> QED
      BY <2>1, <2>2, <3>3 DEF APInv
  <2>3. CASE job[a].kind # "profile"
    BY <2>1, <2>3, APsStay DEF APInv
  <2> QED
    BY <2>2, <2>3
<1> QED
  BY <1>1, <1>2, <1>3, <1>4 DEF AuthorStep

LEMMA APsInit ==
  ASSUME Init, NEW a \in Tasks
  PROVE  APInv(a)
<1>1. prog[a] = <<>> /\ job[a] = Idle /\ past.profile = None /\ Idle.kind # "profile"
  BY DEF Init, Idle
<1> QED
  BY <1>1, AvoidsMany DEF APInv

\* The facts of a profile's access points say which there are, and on which radio.
LEMMA APsOf ==
  ASSUME NEW c, NEW p, APsAre(c, p)
  PROVE  /\ \A s \in {APSection} \cup SecondaryAPs :
              Has(c, "wireless", s) <=> s \in DOMAIN Targets(p)
         /\ \A s \in DOMAIN Targets(p) : \A unset :
              Option(c, "wireless", s, "device", unset) = Targets(p)[s]
<1> DEFINE T == Targets(p)
<1>1. APSection \in DOMAIN T /\ DOMAIN T \subseteq {APSection} \cup SecondaryAPs
  BY ListedRadios, TargetsAre
<1>2. APOn(p) \cap APOff(p) = {}
  BY ListedRadios, APFactsAre
<1> HIDE DEF T
<1>3. ASSUME NEW s \in DOMAIN T
      PROVE  /\ Has(c, "wireless", s)
             /\ \A unset : Option(c, "wireless", s, "device", unset) = T[s]
  <2>1. /\ Exists("wireless", s) \in APOn(p)
        /\ HasOption("wireless", s, "device", T[s]) \in APOn(p)
    BY <1>3, Zenon DEF APOn, T
  <2>2. \A k \in APOn(p) : Holds(c, k)
    BY Zenon DEF APsAre, APFacts
  <2>3. Holds(c, Exists("wireless", s)) /\ Holds(c, HasOption("wireless", s, "device", T[s]))
    BY <2>1, <2>2, Zenon
  <2>4. Has(c, "wireless", s)
    BY <2>3, ExistsHolds
  <2>5. "device" \in DOMAIN c["wireless"][s] /\ c["wireless"][s]["device"] = T[s]
    <3> DEFINE k == HasOption("wireless", s, "device", T[s])
    <3>1. /\ k.kind = "option" /\ k.pkg = "wireless" /\ k.sec = s
          /\ k.option = "device" /\ k.value = T[s]
      BY DEF HasOption, Fact
    <3>2. Holds(c, k)
      BY <2>3
    <3> HIDE DEF k
    <3> QED
      BY <3>1, <3>2 DEF Holds
  <2> QED
    BY <2>4, <2>5 DEF Option
<1>4. ASSUME NEW s \in {APSection} \cup SecondaryAPs, s \notin DOMAIN T
      PROVE  ~Has(c, "wireless", s)
  <2>1. Exists("wireless", s) \in APOff(p)
    BY <1>1, <1>4 DEF APOff, T
  <2>2. ~Holds(c, Exists("wireless", s))
    BY <1>2, <2>1 DEF APsAre, APFacts
  <2> QED
    BY <2>2, ExistsHolds
<1> QED
  BY <1>3, <1>4 DEF T

LEMMA APsInPlace ==
  ASSUME TypeInv, LeftInv, RadiosKnown, NEW a \in Tasks, APInv(a)
  PROVE  APsConverge
<1> DEFINE p == past.profile
           T == Targets(p)
           aps == {s \in DOMAIN running["wireless"] : s = APSection \/ s \in SecondaryAPs}
           radio(s) == Option(running, "wireless", s, "device", "")
           served == {s \in aps : radio(s) \in DOMAIN BandOf}
           bands == IF "aps" \in p.unread THEN {} ELSE Bands(p)
<1> SUFFICES ASSUME AtRest, p # None, "wireless" \notin past.torn
             PROVE  /\ APSection \in aps
                    /\ served = aps
                    /\ {BandOf[radio(s)] : s \in aps} =
                         {BandOf[radio(APSection)]} \cup {b \in bands : HasBand(b)}
                    /\ \A s, o \in aps : radio(s) = radio(o) => s = o
  BY Zenon DEF APsConverge
<1>1. job[a].kind # "profile"
  BY DEF AtRest, TypeInv, TasksTyped, Idle
<1>2. staged["wireless"] = running["wireless"]
  BY PackageRuns DEF Packages
<1>3. APsAre(staged, p) /\ Resolvable(p)
  BY <1>1 DEF APInv
<1>4. /\ \A s \in {APSection} \cup SecondaryAPs : Has(running, "wireless", s) <=> s \in DOMAIN T
      /\ \A s \in DOMAIN T : \A unset : Option(running, "wireless", s, "device", unset) = T[s]
  <2>1. \A s : Has(running, "wireless", s) <=> Has(staged, "wireless", s)
    BY <1>2 DEF Has
  <2>2. \A s, unset : Option(running, "wireless", s, "device", unset) =
                        Option(staged, "wireless", s, "device", unset)
    BY <1>2 DEF Has, Option
  <2> QED
    BY <1>3, <2>1, <2>2, APsOf
<1>5. APSection \in DOMAIN T /\ DOMAIN T \subseteq {APSection} \cup SecondaryAPs
  BY ListedRadios, TargetsAre
<1>6. /\ \A s \in DOMAIN T : T[s] \in DOMAIN BandOf
      /\ {BandOf[T[s]] : s \in DOMAIN T} =
           {BandOf[T[APSection]]} \cup {b \in bands : HasBand(b)}
      /\ \A s, o \in DOMAIN T : T[s] = T[o] => s = o
  BY <1>3, ListedRadios, TargetRadios
<1>7. \A s \in DOMAIN T : radio(s) = T[s]
  BY <1>4, Zenon
<1> HIDE DEF T, radio, bands, p
<1>8. aps = DOMAIN T
  BY <1>4, <1>5 DEF Has
<1> HIDE DEF aps
<1>9. {BandOf[radio(s)] : s \in aps} = {BandOf[T[s]] : s \in DOMAIN T}
  <2>1. \A s \in DOMAIN T : BandOf[radio(s)] = BandOf[T[s]]
    BY <1>7
  <2> QED
    BY <1>8, <2>1
<1>10. radio(APSection) = T[APSection] /\ APSection \in aps
  BY <1>5, <1>7, <1>8
<1>11. {BandOf[radio(s)] : s \in aps} =
         {BandOf[radio(APSection)]} \cup {b \in bands : HasBand(b)}
  BY <1>6, <1>9, <1>10, Zenon
<1>12. \A s \in aps : radio(s) \in DOMAIN BandOf
  BY <1>6, <1>7, <1>8
<1>13. served = aps
  BY <1>12
<1>14. \A s, o \in aps : radio(s) = radio(o) => s = o
  BY <1>6, <1>7, <1>8
<1> QED
  BY <1>10, <1>11, <1>13, <1>14, Zenon

\* With one author, on a board whose radios all have a band, once nobody is at work a
\* device that has applied a profile has the primary access point and, if the radios
\* could be read, one for each band asked for that some other radio has, and otherwise
\* no other, each on a radio of its own: whatever profiles came before and left theirs
\* for the prune to find, and whatever failed or started anew since.
THEOREM AccessPointsConverge ==
  ASSUME NEW a, Authors = {a}, RadiosKnown
  PROVE  Spec => []APsConverge
<1> DEFINE Inv == WorkInv(a) /\ APInv(a)
<1>0. a \in Tasks
  BY DEF Tasks
<1>1. Init => Inv
  BY <1>0, WorkInit, APsInit
<1>2. Inv /\ [Next]_vars => Inv'
  <2> SUFFICES ASSUME Inv, [Next]_vars
               PROVE  Inv'
    OBVIOUS
  <2>1. WorkInv(a)' /\ AuthorStep(a)
    BY WorkNext
  <2> QED
    BY <1>0, <2>1, APsNext DEF WorkInv
<1>3. Inv => APsConverge
  BY <1>0, APsInPlace DEF WorkInv
<1> HIDE DEF Inv
<1> QED
  BY <1>1, <1>2, <1>3, PTL DEF Spec
=============================================================================
