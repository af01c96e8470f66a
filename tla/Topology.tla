------------------------------ MODULE Topology ------------------------------
(***************************************************************************)
(* The merged topology graph: internal/topology/topology.go (Collect) and  *)
(* aggregator.go (mergeGraphs, reconcile), as operators.                   *)
(*                                                                         *)
(* A node knows the nodes around it only by the batman-adv addresses they  *)
(* originate from; each node says in its own graph which addresses are     *)
(* its own, and the merge replaces every address by the node declaring it. *)
(* gs is the set of graphs merged, as a function from the node that        *)
(* collected a graph to the graph, and age says how old each of them is:   *)
(* the controller's own graph is collected for the answer, and comes first *)
(* (LocalAge), the reports follow newest first, equally old ones by id.    *)
(* Ids are numbers: the code sorts their strings.                          *)
(*                                                                         *)
(* Labels, backhaul, mesh mode, media and signals ride along with a vertex *)
(* or a link and decide nothing here; they are left out.                   *)
(***************************************************************************)
EXTENDS Integers

LocalAge == -1

\* What one node sees: its own id and addresses, the originators it hears with
\* their transmit quality, and the stations on its AP.
Collect(id, addrs, neighbours, stations) ==
  [self |-> id, addrs |-> addrs, links |-> neighbours, clients |-> stations]

\* A graph's vertices are its node and an anonymous one per originator.
Nodes(g) == {g.self} \cup {l.to : l \in g.links}

\* A bug: the oldest report is merged first.
PrecedesOldest(age, x, y) ==
  \/ age[x] = LocalAge /\ age[y] # LocalAge
  \/ age[x] > age[y] /\ age[y] # LocalAge
  \/ age[x] = age[y] /\ x < y

\* The order graphs are merged in.
Precedes(age, x, y) ==
  \/ age[x] < age[y]
  \/ age[x] = age[y] /\ x < y

\* The graphs whose node declares address a.
Declarers(gs, a) == {x \in DOMAIN gs : a \in gs[x].addrs}

\* addrToID: every declaration overwrites the one before, the last one stays.
Owner(gs, age, a) ==
  CHOOSE x \in Declarers(gs, a) :
    \A y \in Declarers(gs, a) \ {x} : Precedes(age, y, x)

\* A bug: only the addresses of the controller's own graph are resolved.
CanonLocal(gs, age, v) ==
  IF \E x \in Declarers(gs, v) : age[x] = LocalAge THEN Owner(gs, age, v) ELSE v

Canon(gs, age, v) == IF Declarers(gs, v) = {} THEN v ELSE Owner(gs, age, v)

\* The vertices merged, less those that are only another name of a node.
MergedNodes(gs, age) ==
  {v \in UNION {Nodes(gs[x]) : x \in DOMAIN gs} : Canon(gs, age, v) = v}

\* A bug: only the end that reports a link is resolved.
RenamedSources(gs, age) ==
  UNION { {[source |-> Canon(gs, age, gs[x].self),
            target |-> l.to, tq |-> l.tq] : l \in gs[x].links} :
          x \in DOMAIN gs }

\* Both ends of every link rewritten to the nodes they belong to.
Renamed(gs, age) ==
  UNION { {[source |-> Canon(gs, age, gs[x].self),
            target |-> Canon(gs, age, l.to), tq |-> l.tq] : l \in gs[x].links} :
          x \in DOMAIN gs }

\* The strongest link of each directed pair, and none from a node to itself.
MergedLinks(gs, age) ==
  LET renamed == Renamed(gs, age) IN
  {l \in renamed :
     /\ l.source # l.target
     /\ \A k \in renamed :
          k.source = l.source /\ k.target = l.target => k.tq <= l.tq}

\* The graphs that list station c, and the first of them, whose word is taken.
Holders(gs, c) == {x \in DOMAIN gs : c \in gs[x].clients}

FirstHolder(gs, age, c) ==
  CHOOSE x \in Holders(gs, c) :
    \A y \in Holders(gs, c) \ {x} : Precedes(age, x, y)

MergedClients(gs, age) ==
  { [mac |-> c, ap |-> Canon(gs, age, gs[FirstHolder(gs, age, c)].self)] :
    c \in UNION {gs[x].clients : x \in DOMAIN gs} }

=============================================================================
