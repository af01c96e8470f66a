--------------------------- MODULE MeshViewProofs ---------------------------
(***************************************************************************)
(* Theorems about the merged graph, for any graphs, and about MeshView,    *)
(* for any members, stations, addresses and freshness windows.             *)
(***************************************************************************)
EXTENDS MeshView, OrderProofs

-----------------------------------------------------------------------------
(* The first and the last graph of an order *)

\* The graphs to merge are ordered: of any of them there is a first and a last.
LEMMA FirstAndLast ==
  ASSUME NEW S, NEW age, NEW D, D \subseteq S, D # {}, IsFiniteSet(D),
         S \subseteq Int, \A x \in S : age[x] \in Int
  PROVE  /\ \E x \in D : \A y \in D \ {x} : Precedes(age, x, y)
         /\ \E x \in D : \A y \in D \ {x} : Precedes(age, y, x)
<1> DEFINE R == {p \in D \X D : Precedes(age, p[1], p[2])}
           Q == {p \in D \X D : Precedes(age, p[2], p[1])}
<1>0. \A x \in D : x \in Int /\ age[x] \in Int
  OBVIOUS
<1>1. /\ \A x \in D : ~ Precedes(age, x, x)
      /\ \A x, y, z \in D : Precedes(age, x, y) /\ Precedes(age, y, z) => Precedes(age, x, z)
      /\ \A x, y \in D : x = y \/ Precedes(age, x, y) \/ Precedes(age, y, x)
  BY <1>0 DEF Precedes
<1>2. /\ \A x \in D : <<x, x>> \notin R
      /\ \A x, y, z \in D : <<x, y>> \in R /\ <<y, z>> \in R => <<x, z>> \in R
  BY <1>1
<1>3. /\ \A x \in D : <<x, x>> \notin Q
      /\ \A x, y, z \in D : <<x, y>> \in Q /\ <<y, z>> \in Q => <<x, z>> \in Q
  BY <1>1
<1>4. PICK x \in D : \A y \in D : <<y, x>> \notin R
  <2> HIDE DEF R
  <2> QED
    BY <1>2, MinimalElement
<1>5. PICK z \in D : \A y \in D : <<y, z>> \notin Q
  <2> HIDE DEF Q
  <2> QED
    BY <1>3, MinimalElement
<1>6. \A y \in D \ {x} : Precedes(age, x, y)
  BY <1>1, <1>4
<1>7. \A y \in D \ {z} : Precedes(age, y, z)
  BY <1>1, <1>5
<1> QED
  BY <1>6, <1>7

-----------------------------------------------------------------------------
(* The merged graph, whatever graphs are merged *)

\* gs is a set of graphs that Merge may be given, and age their ages: nodes are
\* finitely many numbers, addresses are none of them, and every graph is filed
\* under the node that collected it.
Mergeable(gs, age) ==
  /\ DOMAIN gs \subseteq Ids
  /\ gs \in [DOMAIN gs -> Graph]
  /\ \A x \in DOMAIN gs : gs[x].self = x /\ age[x] \in Int

LEMMA IdsAreNumbers == Ids \subseteq Nat /\ Self \in Ids /\ IsFiniteSet(Ids)
BY BoundAssumption, FS_Interval DEF Ids, Self

\* An address stands for a node declaring it; nothing else is replaced.
LEMMA CanonIs ==
  ASSUME NEW gs, NEW age, Mergeable(gs, age), NEW v
  PROVE  /\ Declarers(gs, v) = {} => Canon(gs, age, v) = v
         /\ Declarers(gs, v) # {} => Canon(gs, age, v) \in Declarers(gs, v)
         /\ v \in Ids => Canon(gs, age, v) = v
<1>1. ASSUME Declarers(gs, v) # {} PROVE Canon(gs, age, v) \in Declarers(gs, v)
  <2> DEFINE D == Declarers(gs, v)
  <2>1. D \subseteq Ids /\ D \subseteq DOMAIN gs
    BY DEF Declarers, Mergeable
  <2>2. IsFiniteSet(D)
    BY <2>1, IdsAreNumbers, FS_Subset
  <2>3. DOMAIN gs \subseteq Int /\ \A x \in DOMAIN gs : age[x] \in Int
    BY IdsAreNumbers DEF Mergeable
  <2>4. \E x \in D : \A y \in D \ {x} : Precedes(age, y, x)
    <3> HIDE DEF D
    <3> QED
      BY <1>1, <2>1, <2>2, <2>3, FirstAndLast DEF D
  <2>5. Owner(gs, age, v) \in D
    BY <2>4 DEF Owner
  <2> QED
    BY <1>1, <2>5 DEF Canon
<1>2. v \in Ids => Declarers(gs, v) = {}
  BY DeviceAssumption DEF Declarers, Mergeable, Graph
<1> QED
  BY <1>1, <1>2 DEF Canon

\* The first of the graphs that list a station is one of them, and the only one
\* that comes before all the others.
LEMMA FirstHolderIs ==
  ASSUME NEW gs, NEW age, Mergeable(gs, age), NEW c, Holders(gs, c) # {}
  PROVE  /\ FirstHolder(gs, age, c) \in Holders(gs, c)
         /\ \A x \in Holders(gs, c) :
              (\A y \in Holders(gs, c) \ {x} : Precedes(age, x, y))
                <=> x = FirstHolder(gs, age, c)
<1> DEFINE D == Holders(gs, c)
           f == FirstHolder(gs, age, c)
<1>1. D \subseteq Ids /\ D \subseteq DOMAIN gs
  BY DEF Holders, Mergeable
<1>2. IsFiniteSet(D)
  BY <1>1, IdsAreNumbers, FS_Subset
<1>3. DOMAIN gs \subseteq Int /\ \A x \in DOMAIN gs : age[x] \in Int
  BY IdsAreNumbers DEF Mergeable
<1>4. \E x \in D : \A y \in D \ {x} : Precedes(age, x, y)
  <2> HIDE DEF D
  <2> QED
    BY <1>1, <1>2, <1>3, FirstAndLast DEF D
<1>5. f \in D /\ \A y \in D \ {f} : Precedes(age, f, y)
  BY <1>4 DEF FirstHolder
<1>6. ASSUME NEW x \in D, \A y \in D \ {x} : Precedes(age, x, y)
      PROVE  x = f
  <2>1. x # f => Precedes(age, x, f) /\ Precedes(age, f, x)
    BY <1>5, <1>6
  <2>2. x \in Int /\ f \in Int /\ age[x] \in Int /\ age[f] \in Int
    BY <1>1, <1>3, <1>5
  <2> QED
    BY <2>1, <2>2 DEF Precedes
<1> QED
  BY <1>5, <1>6

\* A node whose graph is merged is a vertex, and every address known becomes
\* one or is one.
LEMMA CanonIsVertex ==
  ASSUME NEW gs, NEW age, Mergeable(gs, age), NEW x \in DOMAIN gs, NEW v \in Nodes(gs[x])
  PROVE  Canon(gs, age, v) \in MergedNodes(gs, age)
<1>1. \A y \in DOMAIN gs : y \in MergedNodes(gs, age)
  <2> SUFFICES ASSUME NEW y \in DOMAIN gs PROVE y \in MergedNodes(gs, age)
    OBVIOUS
  <2>1. y \in Ids /\ gs[y].self = y
    BY DEF Mergeable
  <2>2. y \in Nodes(gs[y])
    BY <2>1 DEF Nodes
  <2> QED
    BY <2>1, <2>2, CanonIs DEF MergedNodes
<1>2. CASE Declarers(gs, v) = {}
  BY <1>2, CanonIs DEF MergedNodes
<1>3. CASE Declarers(gs, v) # {}
  <2>1. Canon(gs, age, v) \in DOMAIN gs
    BY <1>3, CanonIs DEF Declarers
  <2> QED
    BY <1>1, <2>1
<1> QED
  BY <1>2, <1>3

\* Merge: every link joins two vertices and every station is at one.
THEOREM MergedIsGraph ==
  ASSUME NEW gs, NEW age, Mergeable(gs, age)
  PROVE  /\ \A l \in MergedLinks(gs, age) :
              l.source \in MergedNodes(gs, age) /\ l.target \in MergedNodes(gs, age)
         /\ \A c \in MergedClients(gs, age) : c.ap \in MergedNodes(gs, age)
<1>1. ASSUME NEW l \in MergedLinks(gs, age)
      PROVE  l.source \in MergedNodes(gs, age) /\ l.target \in MergedNodes(gs, age)
  <2>1. l \in Renamed(gs, age)
    BY <1>1 DEF MergedLinks
  <2>2. PICK x \in DOMAIN gs : \E k \in gs[x].links :
          l = [source |-> Canon(gs, age, gs[x].self), target |-> Canon(gs, age, k.to), tq |-> k.tq]
    BY <2>1 DEF Renamed
  <2>3. PICK k \in gs[x].links :
          l = [source |-> Canon(gs, age, gs[x].self), target |-> Canon(gs, age, k.to), tq |-> k.tq]
    BY <2>2
  <2>4. gs[x].self \in Nodes(gs[x]) /\ k.to \in Nodes(gs[x])
    BY <2>3 DEF Nodes
  <2> QED
    BY <2>3, <2>4, CanonIsVertex
<1>2. ASSUME NEW c \in MergedClients(gs, age)
      PROVE  c.ap \in MergedNodes(gs, age)
  <2>1. PICK k \in UNION {gs[x].clients : x \in DOMAIN gs} :
          c = [mac |-> k, ap |-> Canon(gs, age, gs[FirstHolder(gs, age, k)].self)]
    BY <1>2 DEF MergedClients
  <2>2. FirstHolder(gs, age, k) \in DOMAIN gs
    BY <2>1, FirstHolderIs DEF Holders
  <2>3. gs[FirstHolder(gs, age, k)].self \in Nodes(gs[FirstHolder(gs, age, k)])
    BY DEF Nodes
  <2> QED
    BY <2>1, <2>2, <2>3, CanonIsVertex
<1> QED
  BY <1>1, <1>2

\* Merge: an address that a merged graph declares is nowhere in the result.
THEOREM MergedHasNoPhantom ==
  ASSUME NEW gs, NEW age, Mergeable(gs, age),
         NEW x \in DOMAIN gs, NEW a \in gs[x].addrs
  PROVE  a \notin MergedNodes(gs, age)
<1>1. x \in Declarers(gs, a) /\ a \in Addrs
  BY DEF Declarers, Mergeable, Graph
<1>2. Canon(gs, age, a) \in Ids
  BY <1>1, CanonIs DEF Declarers, Mergeable
<1> QED
  BY <1>1, <1>2, DeviceAssumption DEF MergedNodes

-----------------------------------------------------------------------------
(* Type correctness *)

\* What a member collects is a graph, under the identity it has.
LEMMA CollectedIsGraph ==
  ASSUME TypeOK, NEW d \in Devices, NEW addrs \in SUBSET AddrsOf[d]
  PROVE  GraphOf(d, addrs) \in Graph /\ GraphOf(d, addrs).self = IdOf(d)
<1>1. IdOf(d) \in Ids
  BY IdsAreNumbers DEF IdOf, TypeOK, Devices
<1>2. \A e \in Devices : AddrsOf[e] \subseteq Addrs
  BY DeviceAssumption
<1>3. Heard(d) \subseteq Link
  BY <1>2, DeviceAssumption DEF Heard, Link
<1>4. addrs \subseteq Addrs
  BY <1>2
<1> QED
  BY <1>1, <1>3, <1>4 DEF GraphOf, Collect, Graph

\* Reports come in at one handler and the view is asked of one, which is the
\* same in combined mode.
LEMMA HandlersServe ==
  /\ Ingesting \in Handlers /\ Serving \in Handlers
  /\ Combined => Serving = Ingesting
BY ModeAssumption DEF Handlers, Ingesting, Serving

\* Age counts to the end of its range and stays there.
LEMMA OlderIsAge == \A a \in Age : Older(a) \in Age /\ 0 \in Age
BY WindowAssumption DEF Age, Older

LEMMA InitTypes == Init => TypeOK
<1> SUFFICES ASSUME Init PROVE TypeOK
  OBVIOUS
<1>1. Members \subseteq Ids \ {Self}
  BY DeviceAssumption
<1>2. IsFiniteSet(Members)
  BY <1>1, IdsAreNumbers, FS_Subset
<1>3. ids \in Nat \ {0}
  BY <1>2, FS_CardinalityType DEF Init
<1>4. /\ mode \in [Members -> {"up", "silent", "off"}]
      /\ id \in [Members -> Ids \ {Self}]
      /\ at \in [Stations -> Devices \cup {None}]
      /\ pending \in [Members -> Graph \cup {None}]
      /\ tried \subseteq Members
  BY <1>1 DEF Init
<1>5. /\ reports \in [Handlers -> [Ids -> Report \cup {None}]]
      /\ \A h \in Handlers : reports[h][Self] = None
  BY IdsAreNumbers DEF Init
<1>6. inventory \in [Ids -> Age \cup {None}]
  BY OlderIsAge, WindowAssumption DEF Init, Age
<1>7. misses \in [Members -> 0..TTL] /\ changes \in 0..MaxChanges
  BY WindowAssumption, BoundAssumption DEF Init
<1> QED
  BY <1>3, <1>4, <1>5, <1>6, <1>7 DEF TypeOK

\* A member posts only what it has collected since it was onboarded, and the
\* aggregator files it under that identity.
Filed ==
  /\ \A m \in Members : pending[m] # None => pending[m].self = id[m]
  /\ \A h \in Handlers : \A i \in Ids :
       reports[h][i] # None => reports[h][i].graph.self = i

\* How old the last report of a member can be that got through once and has
\* missed fewer than TTL attempts since: one tick more than it has missed,
\* unless it has made its attempt of this tick already.
HeardInTime ==
  \A m \in Members :
    misses[m] < TTL =>
      /\ reports[Ingesting][id[m]] # None
      /\ reports[Ingesting][id[m]].age <=
           misses[m] + (IF m \in tried /\ pending[m] = None THEN 0 ELSE 1)

IInv == TypeOK /\ Filed /\ HeardInTime

LEMMA InitIInv == Init => IInv
<1>1. Init => Filed
  BY DEF Init, Filed
<1>2. Init => HeardInTime
  BY WindowAssumption DEF Init, HeardInTime
<1> QED
  BY <1>1, <1>2, InitTypes DEF IInv

\* The parts of the state an action assigns, one by one.
LEMMA SendStep ==
  ASSUME IInv, NEW m \in Members, NEW g \in Graph, g.self = id[m],
         pending' = [pending EXCEPT ![m] = g],
         tried' = tried \cup {m},
         changes' \in 0..MaxChanges,
         UNCHANGED <<mode, id, ids, at, reports, inventory, misses>>
  PROVE  IInv'
<1> USE DEF IInv
<1>1. TypeOK'
  BY DEF TypeOK
<1>2. Filed'
  BY DEF TypeOK, Filed
<1>3. HeardInTime'
  <2> SUFFICES ASSUME NEW k \in Members, misses[k] < TTL
               PROVE  /\ reports[Ingesting][id[k]] # None
                      /\ reports[Ingesting][id[k]].age <=
                           misses[k] + (IF k \in tried' /\ pending'[k] = None THEN 0 ELSE 1)
    BY DEF HeardInTime
  <2>1. k # m => pending'[k] = pending[k] /\ (k \in tried' <=> k \in tried)
    BY DEF TypeOK
  <2>2. pending'[m] # None
    BY NoneAssumption DEF TypeOK
  <2>3. /\ reports[Ingesting][id[k]] # None
        /\ reports[Ingesting][id[k]].age \in Int
        /\ misses[k] \in Int
    BY WindowAssumption, HandlersServe DEF HeardInTime, TypeOK, Report, Age
  <2> QED
    BY <2>1, <2>2, <2>3 DEF HeardInTime
<1> QED
  BY <1>1, <1>2, <1>3

LEMMA IngestStep ==
  ASSUME IInv, NEW m \in Members, Ingest(m)
  PROVE  IInv'
<1> USE DEF IInv
<1> DEFINE r == [graph |-> pending[m], age |-> 0]
<1>1. pending[m] \in Graph /\ pending[m].self = id[m] /\ id[m] \in Ids \ {Self}
  BY DEF Ingest, TypeOK, Filed
<1>2. r \in Report /\ r # None
  BY <1>1, OlderIsAge, NoneAssumption, WindowAssumption DEF Report, Age
<1>3. /\ reports' = [reports EXCEPT ![Ingesting][id[m]] = r]
      /\ \A h \in Handlers :
           reports'[h] = IF h = Ingesting THEN [reports[h] EXCEPT ![id[m]] = r] ELSE reports[h]
  BY <1>1, HandlersServe DEF Ingest, TypeOK
<1>4. /\ pending' = [pending EXCEPT ![m] = None]
      /\ misses' = [misses EXCEPT ![m] = 0]
      /\ UNCHANGED <<mode, id, ids, at, tried, inventory, changes>>
  BY DEF Ingest
<1> HIDE DEF r
<1>5. TypeOK'
  <2>1. /\ reports' \in [Handlers -> [Ids -> Report \cup {None}]]
        /\ \A h \in Handlers : reports'[h][Self] = None
    BY <1>1, <1>2, <1>3, IdsAreNumbers DEF TypeOK
  <2>2. misses' \in [Members -> 0..TTL]
    BY <1>4, WindowAssumption DEF TypeOK
  <2>3. pending' \in [Members -> Graph \cup {None}]
    BY <1>4 DEF TypeOK
  <2> QED
    BY <1>4, <2>1, <2>2, <2>3 DEF TypeOK
<1>6. Filed'
  <2>1. r.graph = pending[m]
    BY DEF r
  <2> QED
    BY <1>1, <1>3, <1>4, <2>1 DEF TypeOK, Filed
<1>7. HeardInTime'
  <2> SUFFICES ASSUME NEW k \in Members, misses'[k] < TTL
               PROVE  /\ reports'[Ingesting][id[k]] # None
                      /\ reports'[Ingesting][id[k]].age <=
                           misses'[k] + (IF k \in tried /\ pending'[k] = None THEN 0 ELSE 1)
    BY <1>4 DEF HeardInTime
  <2>0. id[k] \in Ids /\ misses'[k] \in Nat
    BY <1>5, <1>4, WindowAssumption DEF TypeOK
  <2>1. CASE id[k] = id[m]
    <3>1. reports'[Ingesting][id[k]] = r /\ r.age = 0
      BY <1>3, <2>0, <2>1, HandlersServe DEF TypeOK, r
    <3> QED
      BY <1>2, <2>0, <3>1
  <2>2. CASE id[k] # id[m]
    <3>1. k # m /\ reports'[Ingesting][id[k]] = reports[Ingesting][id[k]]
      BY <1>3, <2>0, <2>2, HandlersServe DEF TypeOK
    <3>2. misses'[k] = misses[k] /\ pending'[k] = pending[k]
      BY <1>4, <3>1 DEF TypeOK
    <3> QED
      BY <3>1, <3>2 DEF HeardInTime
  <2> QED
    BY <2>1, <2>2
<1> QED
  BY <1>5, <1>6, <1>7

LEMMA LoseStep ==
  ASSUME IInv, NEW m \in Members, Lose(m)
  PROVE  IInv'
<1> USE DEF IInv
<1>1. /\ pending' = [pending EXCEPT ![m] = None]
      /\ misses' = [misses EXCEPT ![m] = IF misses[m] < TTL THEN misses[m] + 1 ELSE TTL]
      /\ pending[m] # None
      /\ UNCHANGED <<mode, id, ids, at, tried, reports, inventory>>
  BY DEF Lose
<1>2. misses' \in [Members -> 0..TTL]
  BY <1>1, WindowAssumption DEF TypeOK
<1>3. TypeOK'
  BY <1>1, <1>2, BoundAssumption DEF TypeOK, Lose, Change
<1>4. Filed'
  BY <1>1 DEF TypeOK, Filed
<1>5. HeardInTime'
  <2> SUFFICES ASSUME NEW k \in Members, misses'[k] < TTL
               PROVE  /\ reports[Ingesting][id[k]] # None
                      /\ reports[Ingesting][id[k]].age <=
                           misses'[k] + (IF k \in tried /\ pending'[k] = None THEN 0 ELSE 1)
    BY <1>1 DEF HeardInTime
  <2>1. id[k] \in Ids /\ misses[k] \in Nat
    BY WindowAssumption DEF TypeOK
  <2>2. CASE k = m
    <3>1. misses[k] < TTL /\ misses'[k] = misses[k] + 1
      BY <1>1, <2>1, <2>2, WindowAssumption DEF TypeOK
    <3>2. reports[Ingesting][id[k]] # None /\ reports[Ingesting][id[k]].age <= misses[k] + 1
      BY <1>1, <2>2, <3>1 DEF HeardInTime
    <3>3. reports[Ingesting][id[k]].age \in Int
      BY <2>1, <3>2, WindowAssumption, HandlersServe DEF TypeOK, Report, Age
    <3> QED
      BY <2>1, <3>1, <3>2, <3>3
  <2>3. CASE k # m
    BY <1>1, <2>3 DEF HeardInTime, TypeOK
  <2> QED
    BY <2>2, <2>3
<1> QED
  BY <1>3, <1>4, <1>5

LEMMA TickStep ==
  ASSUME IInv, Tick
  PROVE  IInv'
<1> USE DEF IInv
<1>1. /\ \A m \in Members : pending[m] = None /\ (mode[m] = "up" => m \in tried)
      /\ tried' = {}
      /\ misses' = [m \in Members |-> IF mode[m] = "up" THEN misses[m] ELSE TTL]
      /\ UNCHANGED <<mode, id, ids, at, pending, changes>>
  BY DEF Tick
<1>2. \A h \in Handlers : \A i \in Ids :
        /\ reports[h][i] = None => reports'[h][i] = None
        /\ reports[h][i] # None =>
             /\ reports'[h][i] \in Report
             /\ reports'[h][i].graph = reports[h][i].graph
             /\ reports'[h][i].age = Older(reports[h][i].age)
  <2> SUFFICES ASSUME NEW h \in Handlers, NEW i \in Ids, reports[h][i] # None
               PROVE  /\ reports'[h][i] \in Report
                      /\ reports'[h][i].graph = reports[h][i].graph
                      /\ reports'[h][i].age = Older(reports[h][i].age)
    BY DEF Tick
  <2>1. reports[h][i] \in Report
    BY DEF TypeOK
  <2>2. reports'[h][i] = [reports[h][i] EXCEPT !.age = Older(reports[h][i].age)]
    BY DEF Tick
  <2> QED
    BY <2>1, <2>2, OlderIsAge DEF Report
<1>3. TypeOK'
  <2>1. reports' \in [Handlers -> [Ids -> Report \cup {None}]]
    <3>1. reports' = [h \in Handlers |-> [i \in Ids |-> reports'[h][i]]]
      BY DEF Tick
    <3>2. \A h \in Handlers : \A i \in Ids : reports'[h][i] \in Report \cup {None}
      BY <1>2
    <3> QED
      BY <3>1, <3>2
  <2>2. \A h \in Handlers : reports'[h][Self] = None
    BY <1>2, IdsAreNumbers DEF TypeOK
  <2>3. inventory' \in [Ids -> Age \cup {None}]
    BY OlderIsAge DEF Tick, TypeOK
  <2>4. misses' \in [Members -> 0..TTL]
    BY <1>1, WindowAssumption DEF TypeOK
  <2> QED
    BY <1>1, <2>1, <2>2, <2>3, <2>4 DEF TypeOK
<1>4. Filed'
  BY <1>1, <1>2 DEF Filed, TypeOK
<1>5. HeardInTime'
  <2> SUFFICES ASSUME NEW k \in Members, misses'[k] < TTL
               PROVE  /\ reports'[Ingesting][id[k]] # None
                      /\ reports'[Ingesting][id[k]].age <= misses'[k] + 1
    BY <1>1 DEF HeardInTime
  <2> DEFINE r == reports[Ingesting][id[k]]
  <2>1. mode[k] = "up" /\ misses'[k] = misses[k]
    BY <1>1, WindowAssumption
  <2>2. r # None /\ r.age <= misses[k] + 0
    BY <1>1, <2>1 DEF HeardInTime
  <2>3. id[k] \in Ids /\ misses[k] \in Nat /\ r.age \in Nat
    BY <2>2, WindowAssumption, HandlersServe DEF TypeOK, Report, Age
  <2>4. Older(r.age) <= r.age + 1
    BY <2>3, WindowAssumption DEF Older
  <2>5. reports'[Ingesting][id[k]] # None /\ reports'[Ingesting][id[k]].age = Older(r.age)
    BY <1>2, <2>2, <2>3, NoneAssumption, HandlersServe
  <2>6. Older(r.age) \in Int
    BY <2>3, WindowAssumption DEF Older
  <2> QED
    BY <2>1, <2>2, <2>3, <2>4, <2>5, <2>6
<1> QED
  BY <1>3, <1>4, <1>5

\* The environment's changes either leave the reports of a member alone or make
\* no promise about it any more.
LEMMA ChangeStep ==
  ASSUME IInv,
         \/ \E m \in Members, to \in {"up", "silent", "off"} : Switches(m, to)
         \/ \E c \in Stations, to \in Devices \cup {None} : Roams(c, to)
         \/ \E m \in Members : Reset(m)
         \/ \E i \in Ids : Decommission(i)
         \/ RestartController
  PROVE  IInv'
<1> USE DEF IInv
<1>1. ASSUME NEW m \in Members, NEW to \in {"up", "silent", "off"}, Switches(m, to)
      PROVE  IInv'
  <2>1. TypeOK'
    BY <1>1, WindowAssumption, BoundAssumption DEF TypeOK, Switches, Change
  <2>2. Filed'
    BY <1>1 DEF Filed, Switches
  <2>3. HeardInTime'
    BY <1>1, WindowAssumption DEF HeardInTime, Switches, TypeOK
  <2> QED
    BY <2>1, <2>2, <2>3
<1>2. ASSUME NEW c \in Stations, NEW to \in Devices \cup {None}, Roams(c, to)
      PROVE  IInv'
  <2>1. TypeOK'
    BY <1>2, BoundAssumption DEF TypeOK, Roams, Change
  <2>2. Filed' /\ HeardInTime'
    BY <1>2 DEF Filed, HeardInTime, Roams
  <2> QED
    BY <2>1, <2>2
<1>3. ASSUME NEW m \in Members, Reset(m)
      PROVE  IInv'
  <2>1. ids \in Ids \ {Self}
    BY <1>3 DEF Reset, TypeOK, Self
  <2>2. TypeOK'
    <3>1. inventory' \in [Ids -> Age \cup {None}]
      BY <1>3, OlderIsAge, WindowAssumption DEF TypeOK, Reset, Age
    <3> QED
      BY <1>3, <2>1, <3>1, WindowAssumption, BoundAssumption DEF TypeOK, Reset, Change
  <2>3. Filed'
    BY <1>3 DEF TypeOK, Filed, Reset
  <2>4. HeardInTime'
    BY <1>3, WindowAssumption DEF TypeOK, HeardInTime, Reset
  <2> QED
    BY <2>2, <2>3, <2>4
<1>4. ASSUME NEW i \in Ids, Decommission(i)
      PROVE  IInv'
  <2>1. TypeOK'
    BY <1>4, BoundAssumption DEF TypeOK, Decommission, Change
  <2>2. Filed' /\ HeardInTime'
    BY <1>4 DEF Filed, HeardInTime, Decommission
  <2> QED
    BY <2>1, <2>2
<1>5. CASE RestartController
  <2>1. TypeOK'
    BY <1>5, IdsAreNumbers, WindowAssumption, BoundAssumption
    DEF TypeOK, RestartController, Change
  <2>2. Filed'
    BY <1>5 DEF Filed, RestartController
  <2>3. HeardInTime'
    BY <1>5, WindowAssumption DEF HeardInTime, RestartController
  <2> QED
    BY <2>1, <2>2, <2>3
<1> QED
  BY <1>1, <1>2, <1>3, <1>4, <1>5

LEMMA NextIInv == IInv /\ [Next]_vars => IInv'
<1> SUFFICES ASSUME IInv, [Next]_vars PROVE IInv'
  OBVIOUS
<1>1. ASSUME NEW m \in Members, Send(m)
      PROVE  IInv'
  <2> DEFINE g == GraphOf(m, AddrsOf[m])
  <2>1. g \in Graph /\ g.self = id[m]
    BY CollectedIsGraph, DeviceAssumption DEF IInv, IdOf, Devices, Self
  <2>2. /\ pending' = [pending EXCEPT ![m] = g]
        /\ tried' = tried \cup {m}
        /\ changes' \in 0..MaxChanges
        /\ UNCHANGED <<mode, id, ids, at, reports, inventory, misses>>
    BY <1>1 DEF Send, IInv, TypeOK
  <2> HIDE DEF g
  <2> QED
    BY <2>1, <2>2, SendStep
<1>2. ASSUME NEW m \in Members, NEW addrs \in SUBSET AddrsOf[m], SendPartly(m, addrs)
      PROVE  IInv'
  <2> DEFINE g == GraphOf(m, addrs)
  <2>1. g \in Graph /\ g.self = id[m]
    BY CollectedIsGraph, DeviceAssumption DEF IInv, IdOf, Devices, Self
  <2>2. /\ pending' = [pending EXCEPT ![m] = g]
        /\ tried' = tried \cup {m}
        /\ changes' \in 0..MaxChanges
        /\ UNCHANGED <<mode, id, ids, at, reports, inventory, misses>>
    BY <1>2, BoundAssumption DEF SendPartly, Change, IInv, TypeOK
  <2> HIDE DEF g
  <2> QED
    BY <2>1, <2>2, SendStep
<1>3. ASSUME NEW m \in Members, Ingest(m) PROVE IInv'
  BY <1>3, IngestStep
<1>4. ASSUME NEW m \in Members, Lose(m) PROVE IInv'
  BY <1>4, LoseStep
<1>5. CASE Tick
  BY <1>5, TickStep
<1>6. CASE \/ \E m \in Members, to \in {"up", "silent", "off"} : Switches(m, to)
           \/ \E c \in Stations, to \in Devices \cup {None} : Roams(c, to)
           \/ \E m \in Members : Reset(m)
           \/ \E i \in Ids : Decommission(i)
           \/ RestartController
  BY <1>6, ChangeStep
<1>7. CASE UNCHANGED vars
  BY <1>7 DEF vars, IInv, TypeOK, Filed, HeardInTime
<1> QED
  BY <1>1, <1>2, <1>3, <1>4, <1>5, <1>6, <1>7 DEF Next

\* What holds in every reachable state.
THEOREM Invariance == Spec => []IInv
BY InitIInv, NextIInv, PTL DEF Spec

\* Every variable keeps its type, and the controller files no report of its own
\* (Aggregator.reports).
THEOREM TypeCorrect == Spec => []TypeOK
BY Invariance, PTL DEF IInv

-----------------------------------------------------------------------------
(* The view *)

LEMMA ViewIsMergeable == IInv => Mergeable(Merging, Ages)
<1> SUFFICES ASSUME IInv PROVE Mergeable(Merging, Ages)
  OBVIOUS
<1>1. /\ DOMAIN Merging = Fresh \cup {Self}
      /\ DOMAIN Ages = Fresh \cup {Self}
      /\ Fresh \cup {Self} \subseteq Ids
  BY IdsAreNumbers DEF Merging, Ages, Fresh
<1>2. GraphOf(Self, AddrsOf[Self]) \in Graph /\ GraphOf(Self, AddrsOf[Self]).self = Self
  BY CollectedIsGraph, DeviceAssumption DEF IInv, IdOf, Devices, Self
<1>3. \A i \in Fresh : Served[i].graph \in Graph /\ Served[i].graph.self = i
                      /\ Served[i].age \in Int
  BY WindowAssumption, HandlersServe DEF Served, Fresh, IInv, TypeOK, Filed, Report, Age
<1>4. \A i \in DOMAIN Merging :
        /\ Merging[i] \in Graph
        /\ Merging[i].self = i
        /\ Ages[i] \in Int
  BY <1>1, <1>2, <1>3 DEF Merging, Ages, LocalAge
<1>5. Merging = [i \in DOMAIN Merging |-> Merging[i]]
  BY DEF Merging
<1> QED
  BY <1>1, <1>4, <1>5 DEF Mergeable

\* The view at any moment is a graph: links join vertices that are alive, and
\* stations are at one (Merge).
THEOREM AlwaysGraph == Spec => []LinksJoinVertices
<1>1. IInv => LinksJoinVertices
  BY ViewIsMergeable, MergedIsGraph DEF LinksJoinVertices, Alive, Links, Clients
<1> QED
  BY <1>1, Invariance, PTL

\* No address that a node shown declares as its own is shown as another node,
\* at any moment (reconcile).
THEOREM NeverPhantom == Spec => []NoPhantoms
<1>1. IInv => NoPhantoms
  <2> SUFFICES ASSUME IInv PROVE NoPhantoms
    OBVIOUS
  <2>1. Mergeable(Merging, Ages)
    BY ViewIsMergeable
  <2>2. DOMAIN Merging = Fresh \cup {Self}
    BY DEF Merging
  <2>3. \A i \in Fresh \cup {Self} : \A a \in Merging[i].addrs : a \notin Alive
    BY <2>1, <2>2, MergedHasNoPhantom DEF Alive
  <2>4. \A l \in Links : l.source \in Alive /\ l.target \in Alive
    BY <2>1, MergedIsGraph DEF Alive, Links
  <2> QED
    BY <2>3, <2>4 DEF NoPhantoms
<1> QED
  BY <1>1, Invariance, PTL

\* A member is shown alive until TTL attempts in a row have failed (Merge), when
\* the handler that takes the reports serves the view.
THEOREM ShownWhileHeard ==
  ASSUME Combined
  PROVE  Spec => []AliveWhileHeard
<1>1. IInv => AliveWhileHeard
  <2> SUFFICES ASSUME IInv, NEW m \in Members, misses[m] < TTL
               PROVE  id[m] \in Alive
    BY DEF AliveWhileHeard
  <2>1. id[m] \in Ids /\ misses[m] \in Nat
    BY WindowAssumption DEF IInv, TypeOK
  <2>2. /\ Served[id[m]] # None
        /\ Served[id[m]].age <= misses[m] + (IF m \in tried /\ pending[m] = None THEN 0 ELSE 1)
    BY HandlersServe DEF Served, IInv, HeardInTime
  <2>3. Served[id[m]].age \in Int
    BY <2>1, <2>2, WindowAssumption, HandlersServe DEF Served, IInv, TypeOK, Report, Age
  <2>4. id[m] \in Fresh
    BY <2>1, <2>2, <2>3, WindowAssumption DEF Fresh
  <2>5. Mergeable(Merging, Ages) /\ id[m] \in DOMAIN Merging
    BY <2>4, ViewIsMergeable DEF Merging
  <2>6. id[m] \in Nodes(Merging[id[m]])
    BY <2>5 DEF Mergeable, Nodes
  <2>7. Canon(Merging, Ages, id[m]) = id[m]
    BY <2>1, <2>5, CanonIs
  <2> QED
    BY <2>5, <2>6, <2>7 DEF Alive, MergedNodes
<1> QED
  BY <1>1, Invariance, PTL

\* A tick makes every report that stays fresh one older, and the ones that
\* expire were older than all of those.
LEMMA TickAges ==
  ASSUME IInv, Tick
  PROVE  /\ Fresh' \subseteq Fresh
         /\ \A i \in Fresh' \cup {Self} : Merging'[i] = Merging[i]
         /\ Ages[Self] = -1 /\ Ages'[Self] = -1
         /\ \A i \in Fresh : Self # i => Ages[i] \in 0..TTL
         /\ \A i \in Fresh' : Self # i => Ages'[i] = Ages[i] + 1
         /\ \A i \in Fresh \ Fresh' : Self # i => Ages[i] = TTL
<1> USE DEF IInv
<1>0. /\ Served \in [Ids -> Report \cup {None}]
      /\ Served' = [i \in Ids |-> IF Served[i] = None THEN None
                                  ELSE [Served[i] EXCEPT !.age = Older(@)]]
  BY HandlersServe DEF Served, TypeOK, Tick
<1>1. ASSUME NEW i \in Fresh
      PROVE  /\ Served[i].age \in 0..TTL
             /\ Served'[i] # None
             /\ Served'[i].graph = Served[i].graph
             /\ Served'[i].age = Served[i].age + 1
  <2>1. i \in Ids /\ Served[i] \in Report /\ Served[i].age \in Age /\ Served[i].age <= TTL
    BY <1>0 DEF Fresh, Report
  <2>2. Served[i].age \in 0..TTL /\ Older(Served[i].age) = Served[i].age + 1
    BY <2>1, WindowAssumption DEF Age, Older
  <2>3. Served'[i] = [Served[i] EXCEPT !.age = Older(Served[i].age)]
    BY <1>0, <2>1, NoneAssumption
  <2>4. Served'[i] \in Report
    BY <2>1, <2>3, OlderIsAge DEF Report
  <2> QED
    BY <2>1, <2>2, <2>3, <2>4, NoneAssumption DEF Report
<1>2. \A i \in Ids : Served[i] = None => Served'[i] = None
  BY <1>0
<1>3. \A i \in Fresh' : i \in Ids /\ Served[i] # None /\ Served'[i].age <= TTL
  BY <1>2 DEF Fresh
<1>4. ASSUME NEW i \in Fresh' PROVE i \in Fresh
  <2>1. Served[i] \in Report /\ Served[i].age \in Age
    BY <1>0, <1>3 DEF Report
  <2>2. Served'[i].age = Older(Served[i].age)
    BY <1>0, <1>3, <2>1, NoneAssumption DEF Report
  <2>3. Served[i].age <= TTL
    BY <1>3, <2>1, <2>2, WindowAssumption DEF Older, Age
  <2> QED
    BY <1>3, <2>3 DEF Fresh
<1>5. GraphOf(Self, AddrsOf[Self])' = GraphOf(Self, AddrsOf[Self])
  BY DEF Tick, GraphOf, Collect, Heard, OnAir, IdOf
<1>6. ASSUME NEW i \in Fresh \ Fresh' PROVE Served[i].age = TTL
  <2>1. ~ (Served'[i].age <= TTL)
    BY <1>1, <1>6 DEF Fresh
  <2> QED
    BY <1>1, <2>1, WindowAssumption
<1>7. \A i \in Fresh' \cup {Self} : Merging'[i] = Merging[i]
  BY <1>1, <1>4, <1>5 DEF Merging
<1>8. Ages[Self] = -1 /\ Ages'[Self] = -1
  BY DEF Ages, LocalAge
<1>9. /\ \A i \in Fresh : Self # i => Ages[i] = Served[i].age
      /\ \A i \in Fresh' : Self # i => Ages'[i] = Served'[i].age
  BY DEF Ages
<1> QED
  BY <1>1, <1>4, <1>6, <1>7, <1>8, <1>9

\* The first of the graphs that still list a station was the first before.
LEMMA TickKeepsStations ==
  ASSUME IInv, Tick
  PROVE  Clients' \subseteq Clients
<1>1. IInv'
  BY TickStep
<1>2. Mergeable(Merging, Ages) /\ Mergeable(Merging', Ages')
  <2>1. Mergeable(Merging, Ages)
    BY ViewIsMergeable
  <2>2. (Mergeable(Merging, Ages))'
    BY <1>1, ViewIsMergeable, PTL
  <2> QED
    BY <2>1, <2>2 DEF Mergeable
<1>3. DOMAIN Merging = Fresh \cup {Self} /\ DOMAIN Merging' = Fresh' \cup {Self}
  BY DEF Merging
<1>4. Fresh \subseteq Ids /\ Ids \subseteq Nat
  BY IdsAreNumbers DEF Fresh
<1> SUFFICES ASSUME NEW r \in Clients' PROVE r \in Clients
  OBVIOUS
<1>5. PICK c \in UNION {Merging'[y].clients : y \in DOMAIN Merging'} :
        r = [mac |-> c, ap |-> Canon(Merging', Ages', Merging'[FirstHolder(Merging', Ages', c)].self)]
  BY DEF Clients, MergedClients
<1> DEFINE x == FirstHolder(Merging', Ages', c)
<1>6. /\ x \in Holders(Merging', c)
      /\ \A y \in Holders(Merging', c) \ {x} : Precedes(Ages', x, y)
  <2>1. Holders(Merging', c) # {}
    BY <1>5 DEF Holders
  <2> QED
    BY <1>2, <2>1, FirstHolderIs
<1> HIDE DEF x
<1>7. Holders(Merging', c) \subseteq Holders(Merging, c)
  BY <1>3, TickAges DEF Holders
<1>8. ASSUME NEW y \in Holders(Merging, c) \ {x} PROVE Precedes(Ages, x, y)
  <2>1. x \in Fresh' \cup {Self} /\ x \in Fresh \cup {Self} /\ y \in Fresh \cup {Self}
    BY <1>3, <1>6, <1>8, TickAges DEF Holders
  <2>2. x \in Nat /\ y \in Nat /\ x # y
    BY <1>4, <1>8, <2>1 DEF Self
  <2>3. CASE x = Self
    <3>1. Ages[x] = -1 /\ Ages[y] \in 0..TTL
      BY <2>1, <2>2, <2>3, TickAges
    <3> QED
      BY <3>1, WindowAssumption DEF Precedes
  <2>4. CASE x # Self /\ y \in Fresh' \cup {Self}
    <3>1. y \in Holders(Merging', c)
      BY <1>3, <1>8, <2>4, TickAges DEF Holders
    <3>2. Precedes(Ages', x, y)
      BY <1>6, <1>8, <3>1
    <3>3. Ages[x] \in Nat /\ Ages'[x] = Ages[x] + 1
      BY <2>1, <2>4, WindowAssumption, TickAges
    <3>4. y # Self
      <4>1. y = Self => Ages'[y] = -1
        BY TickAges
      <4> QED
        BY <3>2, <3>3, <4>1 DEF Precedes
    <3>5. Ages[y] \in Nat /\ Ages'[y] = Ages[y] + 1
      BY <2>1, <2>4, <3>4, WindowAssumption, TickAges
    <3> QED
      BY <2>2, <3>2, <3>3, <3>5 DEF Precedes
  <2>5. CASE x # Self /\ y \notin Fresh' \cup {Self}
    <3>1. Ages[y] = TTL
      BY <2>1, <2>5, TickAges
    <3>2. x \in Fresh' /\ Ages[x] \in Nat /\ Ages'[x] = Ages[x] + 1 /\ Ages'[x] <= TTL
      <4>1. x \in Fresh' /\ Ages'[x] = Served'[x].age /\ Served'[x].age <= TTL
        BY <2>1, <2>5 DEF Ages, Fresh
      <4> QED
        BY <2>1, <2>5, <4>1, WindowAssumption, TickAges
    <3> QED
      BY <3>1, <3>2, WindowAssumption DEF Precedes
  <2> QED
    BY <2>3, <2>4, <2>5
<1>9. x = FirstHolder(Merging, Ages, c)
  BY <1>2, <1>6, <1>7, <1>8, FirstHolderIs
<1>10. x \in DOMAIN Merging /\ x \in DOMAIN Merging' /\ Merging[x].self = x /\ Merging'[x].self = x
  BY <1>2, <1>6, <1>7 DEF Holders, Mergeable
<1>11. Canon(Merging', Ages', x) = x /\ Canon(Merging, Ages, x) = x
  <2>1. x \in Ids
    BY <1>2, <1>10 DEF Mergeable
  <2> QED
    BY <1>2, <2>1, CanonIs
<1>12. r = [mac |-> c, ap |-> Canon(Merging, Ages, Merging[FirstHolder(Merging, Ages, c)].self)]
  BY <1>5, <1>9, <1>10, <1>11 DEF x
<1>13. c \in UNION {Merging[y].clients : y \in DOMAIN Merging}
  BY <1>6, <1>7 DEF Holders
<1> QED
  BY <1>12, <1>13 DEF Clients, MergedClients

\* Between two reports a station stays where the view has it or drops out of it
\* (Merge, mergeGraphs).
THEOREM StationsStay == Spec => TimeMovesNoStation
<1>1. IInv /\ [Next]_vars => [Tick => Clients' \subseteq Clients]_vars
  BY TickKeepsStations
<1> QED
  BY <1>1, Invariance, PTL DEF Spec, TimeMovesNoStation

=============================================================================
