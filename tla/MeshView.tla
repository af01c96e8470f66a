------------------------------ MODULE MeshView ------------------------------
(***************************************************************************)
(* The mesh-wide view a controller serves: every member collects its own   *)
(* graph and pushes it (reportTopologyLoop, meshd/cmd/meshd/main.go), the  *)
(* aggregator keeps the last one of each with the time it came in, and GET *)
(* /topology merges the ones still fresh with the controller's own graph   *)
(* and its inventory (internal/topology/aggregator.go, internal/api).      *)
(*                                                                         *)
(* The view is a function of the state (View), so that every property of   *)
(* it is about every moment it may be asked for.  Time passes in ticks of  *)
(* one reporting interval: every running member has tried once to report,  *)
(* and the attempt has been answered or has timed out, before the next.    *)
(* A device is the controller (Self) or a member; its id changes when it   *)
(* is reset, its addresses do not.                                         *)
(*                                                                         *)
(* Every handler makes an aggregator of its own (WithTopology): one server *)
(* serves both planes in combined mode, and in split mode the reports come *)
(* in on the mesh plane while the view is asked for on the other.          *)
(***************************************************************************)
EXTENDS Topology, FiniteSets

CONSTANTS
  Members,      \* the devices reporting to this controller, numbered from 1
  Stations,     \* wireless clients
  Addrs,        \* batman-adv addresses
  AddrsOf,      \* device -> its addresses: bat0 and each hard interface
  TQ,           \* address -> transmit quality at which it is heard
  TTL,          \* ticks a report is fresh for
  StaleTTL,     \* ticks a node heard of is stale and not yet down
  MaxId,        \* bound on identities
  MaxChanges,   \* bound on changes and faults
  Combined,     \* Config.Combined: both planes are served on one address
  None

Self == 0
Devices == Members \cup {Self}
Ids == 0..MaxId

ASSUME DeviceAssumption ==
  /\ Members \subseteq Ids \ {Self}
  /\ AddrsOf \in [Devices -> SUBSET Addrs]
  /\ \A d \in Devices : \A e \in Devices \ {d} : AddrsOf[d] \cap AddrsOf[e] = {}
  /\ TQ \in [Addrs -> Nat]
  /\ Ids \cap Addrs = {}

ASSUME WindowAssumption == TTL \in Nat \ {0} /\ StaleTTL \in Nat /\ TTL <= StaleTTL

ASSUME BoundAssumption == MaxId \in Nat /\ MaxChanges \in Nat

ASSUME ModeAssumption == Combined \in BOOLEAN

\* The API handlers of the controller, the one that registers POST
\* /topology/report and the one that registers GET /topology.
Handlers == IF Combined THEN {"both"} ELSE {"management", "mesh"}
Ingesting == IF Combined THEN "both" ELSE "mesh"
Serving == IF Combined THEN "both" ELSE "management"

VARIABLES
  mode,       \* member -> "up", "silent" (its radio is up, its daemon is not)
              \* or "off"
  id,         \* member -> the identity it has now
  ids,        \* number of identities ever made, the controller's included
  at,         \* station -> the device it is associated to, or None
  pending,    \* member -> the graph it is posting, or None
  tried,      \* members that have made their attempt of this tick
  reports,    \* handler -> its Aggregator.reports: id -> its last graph and how
              \* long ago it came in, or None
  inventory,  \* id -> how long ago its node record was written, or None
  misses,     \* history: attempts of a member that failed since its last one
              \* got through (TTL when none has since it or the controller
              \* started)
  changes     \* changes and faults so far

vars == <<mode, id, ids, at, pending, tried, reports, inventory, misses, changes>>

\* Ages stop counting when nothing tells them apart any more.
Age == 0..(StaleTTL + 1)
Older(age) == IF age = StaleTTL + 1 THEN age ELSE age + 1

Link == [to : Addrs, tq : Nat]
Graph == [self : Ids, addrs : SUBSET Addrs, links : SUBSET Link, clients : SUBSET Stations]
Report == [graph : Graph, age : Age]

ASSUME NoneAssumption == None \notin Devices /\ None \notin Graph /\ None \notin Report

-----------------------------------------------------------------------------
\* What there is to see.

Reporting(d) == d = Self \/ mode[d] = "up"
OnAir(d) == d = Self \/ mode[d] # "off"
IdOf(d) == IF d = Self THEN Self ELSE id[d]

Heard(d) ==
  UNION {{[to |-> a, tq |-> TQ[a]] : a \in AddrsOf[e]} : e \in {e \in Devices \ {d} : OnAir(e)}}

\* Collect, when addrs is what the address sources yielded.
GraphOf(d, addrs) == Collect(IdOf(d), addrs, Heard(d), {c \in Stations : at[c] = d})

-----------------------------------------------------------------------------
\* Merge.

\* The reports of the aggregator that GET /topology merges.
Served == reports[Serving]

\* Bugs: the window closes a tick early; it never closes.
FreshEarly == {i \in Ids : Served[i] # None /\ Served[i].age < TTL}
FreshForever == {i \in Ids : Served[i] # None}

Fresh == {i \in Ids : Served[i] # None /\ Served[i].age <= TTL}

\* The graphs merged, and their place in the order of merging.
Merging ==
  [i \in Fresh \cup {Self} |-> IF i = Self THEN GraphOf(Self, AddrsOf[Self])
                               ELSE Served[i].graph]

Ages == [i \in Fresh \cup {Self} |-> IF i = Self THEN LocalAge ELSE Served[i].age]

Alive == MergedNodes(Merging, Ages)
Links == MergedLinks(Merging, Ages)
Clients == MergedClients(Merging, Ages)

\* nodeInventory's nodes that no graph mentions.
Absent == {i \in Ids : inventory[i] # None} \ Alive

\* The newer of the last report and the node record is still recent.
Stale ==
  {i \in Absent : \/ inventory[i] <= StaleTTL
                  \/ Served[i] # None /\ Served[i].age <= StaleTTL}

Down == Absent \ Stale

-----------------------------------------------------------------------------
Init ==
  /\ mode = [m \in Members |-> "up"]
  /\ id = [m \in Members |-> m]
  /\ ids = Cardinality(Members) + 1
  /\ at = [c \in Stations |-> None]
  /\ pending = [m \in Members |-> None]
  /\ tried = {}
  /\ reports = [h \in Handlers |-> [i \in Ids |-> None]]
  /\ inventory = [i \in Ids |-> IF i \in Members THEN 0 ELSE None]
  /\ misses = [m \in Members |-> TTL]
  /\ changes = 0

Change ==
  /\ changes < MaxChanges
  /\ changes' = changes + 1

\* reportTopologyLoop: the graph is collected, and posted to the controller.
Send(m) ==
  /\ mode[m] = "up"
  /\ m \notin tried
  /\ pending' = [pending EXCEPT ![m] = GraphOf(m, AddrsOf[m])]
  /\ tried' = tried \cup {m}
  /\ UNCHANGED <<mode, id, ids, at, reports, inventory, misses, changes>>

\* The same when batctl or an interface's address could not be read.
SendPartly(m, addrs) ==
  /\ Change
  /\ mode[m] = "up"
  /\ m \notin tried
  /\ addrs # AddrsOf[m]
  /\ pending' = [pending EXCEPT ![m] = GraphOf(m, addrs)]
  /\ tried' = tried \cup {m}
  /\ UNCHANGED <<mode, id, ids, at, reports, inventory, misses>>

\* A bug: a report is filed under the vertex it calls "self".
IngestSelf(m) ==
  /\ pending[m] # None
  /\ reports' = [reports EXCEPT ![Ingesting][Self] = [graph |-> pending[m], age |-> 0]]
  /\ pending' = [pending EXCEPT ![m] = None]
  /\ misses' = [misses EXCEPT ![m] = 0]
  /\ UNCHANGED <<mode, id, ids, at, tried, inventory, changes>>

\* reportTopology -> Ingest: it replaces what the node reported before to the
\* handler that takes reports.
Ingest(m) ==
  /\ pending[m] # None
  /\ reports' = [reports EXCEPT ![Ingesting][pending[m].self] =
                                   [graph |-> pending[m], age |-> 0]]
  /\ pending' = [pending EXCEPT ![m] = None]
  /\ misses' = [misses EXCEPT ![m] = 0]
  /\ UNCHANGED <<mode, id, ids, at, tried, inventory, changes>>

\* The request fails or times out; the loop only logs it.
Lose(m) ==
  /\ Change
  /\ pending[m] # None
  /\ pending' = [pending EXCEPT ![m] = None]
  /\ misses' = [misses EXCEPT ![m] = IF @ < TTL THEN @ + 1 ELSE TTL]
  /\ UNCHANGED <<mode, id, ids, at, tried, reports, inventory>>

\* One reporting interval is over.
Tick ==
  /\ \A m \in Members : pending[m] = None
  /\ \A m \in Members : mode[m] = "up" => m \in tried
  /\ reports' = [h \in Handlers |->
       [i \in Ids |-> IF reports[h][i] = None THEN None
                      ELSE [reports[h][i] EXCEPT !.age = Older(@)]]]
  /\ inventory' = [i \in Ids |-> IF inventory[i] = None THEN None ELSE Older(inventory[i])]
  /\ tried' = {}
  /\ misses' = [m \in Members |-> IF mode[m] = "up" THEN misses[m] ELSE TTL]
  /\ UNCHANGED <<mode, id, ids, at, pending, changes>>

\* A member is switched on or off, or its daemon stops or starts.
Switches(m, to) ==
  /\ Change
  /\ mode[m] # to
  /\ mode' = [mode EXCEPT ![m] = to]
  /\ misses' = [misses EXCEPT ![m] = TTL]
  /\ UNCHANGED <<id, ids, at, pending, tried, reports, inventory>>

\* A station roams, comes or leaves.
Roams(c, to) ==
  /\ Change
  /\ at[c] # to
  /\ at' = [at EXCEPT ![c] = to]
  /\ UNCHANGED <<mode, id, ids, pending, tried, reports, inventory, misses>>

\* A device is reset and onboarded again: a new identity, a new node record,
\* and the old record is still there.
Reset(m) ==
  /\ Change
  /\ pending[m] = None
  /\ ids \in Ids
  /\ id' = [id EXCEPT ![m] = ids]
  /\ ids' = ids + 1
  /\ inventory' = [inventory EXCEPT ![ids] = 0]
  /\ misses' = [misses EXCEPT ![m] = TTL]
  /\ UNCHANGED <<mode, at, pending, tried, reports>>

\* The operator decommissions the record of an identity no device has any more.
Decommission(i) ==
  /\ Change
  /\ inventory[i] # None
  /\ \A m \in Members : id[m] # i
  /\ inventory' = [inventory EXCEPT ![i] = None]
  /\ UNCHANGED <<mode, id, ids, at, pending, tried, reports, misses>>

\* The controller's daemon restarts: every aggregator starts empty.
RestartController ==
  /\ Change
  /\ reports' = [h \in Handlers |-> [i \in Ids |-> None]]
  /\ misses' = [m \in Members |-> TTL]
  /\ UNCHANGED <<mode, id, ids, at, pending, tried, inventory>>

Next ==
  \/ \E m \in Members : Send(m)
  \/ \E m \in Members : Ingest(m)
  \/ \E m \in Members : Lose(m)
  \/ \E m \in Members : Reset(m)
  \/ \E m \in Members : \E addrs \in SUBSET AddrsOf[m] : SendPartly(m, addrs)
  \/ \E m \in Members, to \in {"up", "silent", "off"} : Switches(m, to)
  \/ \E c \in Stations, to \in Devices \cup {None} : Roams(c, to)
  \/ \E i \in Ids : Decommission(i)
  \/ Tick
  \/ RestartController

\* A ticker drives the loop, a request ends within its timeout, time passes.
Fairness ==
  /\ \A m \in Members : WF_vars(Send(m)) /\ WF_vars(Ingest(m))
  /\ WF_vars(Tick)

Spec == Init /\ [][Next]_vars /\ Fairness

-----------------------------------------------------------------------------
TypeOK ==
  /\ mode \in [Members -> {"up", "silent", "off"}]
  /\ id \in [Members -> Ids \ {Self}]
  /\ ids \in Nat \ {0}
  /\ at \in [Stations -> Devices \cup {None}]
  /\ pending \in [Members -> Graph \cup {None}]
  /\ tried \subseteq Members
  /\ reports \in [Handlers -> [Ids -> Report \cup {None}]]
  /\ \A h \in Handlers : reports[h][Self] = None
  /\ inventory \in [Ids -> Age \cup {None}]
  /\ misses \in [Members -> 0..TTL]
  /\ changes \in 0..MaxChanges

\* A node whose graph is merged is shown as itself only: no address that it
\* declares stands as a vertex of its own, and its links start and end at it
\* (reconcile; issues #27 and #28).
NoPhantoms ==
  LET declared == UNION {Merging[i].addrs : i \in Fresh \cup {Self}} IN
  /\ Alive \cap declared = {}
  /\ \A l \in Links : l.source \notin declared /\ l.target \notin declared

\* Every link joins two vertices that are shown alive, and every station is at
\* one: a stale or down vertex is isolated (Merge, doc/topology.md).
LinksJoinVertices ==
  LET alive == Alive IN
  /\ \A l \in Links : l.source \in alive /\ l.target \in alive
  /\ \A c \in Clients : c.ap \in alive

\* A running member that got through once is shown alive for as long as fewer
\* than TTL attempts in a row have failed since, whatever the others report
\* (the freshness window, router.go and Merge).
AliveWhileHeard == \A m \in Members : misses[m] < TTL => id[m] \in Alive

\* Time alone never moves a station: a view asked for again, with no report in
\* between, shows it where it was or no longer.
TimeMovesNoStation ==
  [][Tick => Clients' \subseteq Clients]_vars

\* What the view should say.
Accurate ==
  LET names(d) == IF Reporting(d) THEN {IdOf(d)} ELSE AddrsOf[d]
      shown == {d \in Devices : OnAir(d)}
      best(d) == CHOOSE a \in AddrsOf[d] : \A b \in AddrsOf[d] : TQ[b] <= TQ[a]
  IN
  /\ Alive = UNION {names(d) : d \in shown}
  /\ Links = UNION { UNION {
       IF Reporting(e)
         THEN {[source |-> IdOf(d), target |-> IdOf(e), tq |-> TQ[best(e)]]}
         ELSE {[source |-> IdOf(d), target |-> a, tq |-> TQ[a]] : a \in AddrsOf[e]} :
         e \in shown \ {d} } : d \in {d \in Devices : Reporting(d)} }
  /\ Clients = {[mac |-> c, ap |-> IdOf(at[c])] :
                  c \in {c \in Stations : at[c] \in Devices /\ Reporting(at[c])}}
  /\ Absent = Down

\* Once nothing changes and no report is lost any more, the view shows the mesh
\* as it is: each running device by its present id, each pair's strongest link,
\* each station at its AP, and every identity no longer in use as down.
ViewConverges == <>[]Accurate

=============================================================================
