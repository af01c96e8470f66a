---------------------------- MODULE ProgramProofs ----------------------------
(***************************************************************************)
(* What the programs of UCI calls are made of and what they do when they   *)
(* run to their end: facts about each, for any ports, bands and radios,    *)
(* that the proofs about DeviceConfig rest on.                             *)
(***************************************************************************)
EXTENDS ProfileApply, NetPosture, SetupAP, SequenceTheorems, OrderProofs

IsProgram(P) == P \in Seq(ToSet(P))

LEMMA SomeProgram ==
  ASSUME NEW C, NEW P \in Seq(C)
  PROVE  IsProgram(P)
BY DEF IsProgram, ToSet

LEMMA EmptyProgram == IsProgram(<<>>) /\ ToSet(<<>>) = {} /\ Len(<<>>) = 0
BY DEF IsProgram, ToSet

LEMMA OneCall ==
  ASSUME NEW op, NEW pkg, NEW sec, NEW arg
  PROVE  LET c == [op |-> op, pkg |-> pkg, sec |-> sec, arg |-> arg]
         IN  /\ IsProgram(Call(op, pkg, sec, arg)) /\ ToSet(Call(op, pkg, sec, arg)) = {c}
             /\ Len(Call(op, pkg, sec, arg)) = 1 /\ Call(op, pkg, sec, arg)[1] = c
BY DEF IsProgram, ToSet, Call

LEMMA Concat ==
  ASSUME NEW P, NEW Q, IsProgram(P), IsProgram(Q)
  PROVE  /\ IsProgram(P \o Q)
         /\ Len(P) \in Nat /\ Len(Q) \in Nat /\ Len(P \o Q) = Len(P) + Len(Q)
         /\ \A i \in 1 .. Len(P) : (P \o Q)[i] = P[i]
         /\ \A i \in 1 .. Len(Q) : (P \o Q)[Len(P) + i] = Q[i]
         /\ ToSet(P \o Q) = ToSet(P) \cup ToSet(Q)
<1> DEFINE C == ToSet(P) \cup ToSet(Q)
<1>1. P \in Seq(C) /\ Q \in Seq(C)
  BY DEF IsProgram
<1>2. /\ P \o Q \in Seq(C) /\ Len(P) \in Nat /\ Len(Q) \in Nat
      /\ Len(P \o Q) = Len(P) + Len(Q)
  <2> HIDE DEF C
  <2> QED
    BY <1>1
<1>3. \A i \in 1 .. Len(P) : (P \o Q)[i] = P[i]
  <2> HIDE DEF C
  <2> QED
    BY <1>1
<1>4. \A i \in 1 .. Len(Q) : (P \o Q)[Len(P) + i] = Q[i]
  <2> HIDE DEF C
  <2> QED
    BY <1>1
<1>5. /\ DOMAIN P = 1 .. Len(P) /\ DOMAIN Q = 1 .. Len(Q)
      /\ DOMAIN (P \o Q) = 1 .. Len(P) + Len(Q)
  <2> HIDE DEF C
  <2> QED
    BY <1>1, <1>2
<1>6. ASSUME NEW x \in ToSet(P \o Q)
      PROVE  x \in C
  <2>1. PICK i \in 1 .. Len(P) + Len(Q) : x = (P \o Q)[i]
    BY <1>5, <1>6 DEF ToSet
  <2>2. CASE i <= Len(P)
    BY <1>2, <1>3, <1>5, <2>1, <2>2 DEF ToSet
  <2>3. CASE i > Len(P)
    <3>1. i - Len(P) \in 1 .. Len(Q) /\ i = Len(P) + (i - Len(P))
      BY <1>2, <2>1, <2>3
    <3>2. x = Q[i - Len(P)]
      BY <1>4, <2>1, <3>1
    <3> QED
      BY <1>5, <3>1, <3>2 DEF ToSet
  <2> QED
    BY <1>2, <2>1, <2>2, <2>3
<1>7. ASSUME NEW x \in C
      PROVE  x \in ToSet(P \o Q)
  <2>1. CASE x \in ToSet(P)
    <3>1. PICK i \in 1 .. Len(P) : x = P[i]
      BY <1>5, <2>1 DEF ToSet
    <3>2. i \in 1 .. Len(P) + Len(Q) /\ x = (P \o Q)[i]
      BY <1>2, <1>3, <3>1
    <3> QED
      BY <1>5, <3>2 DEF ToSet
  <2>2. CASE x \in ToSet(Q)
    <3>1. PICK i \in 1 .. Len(Q) : x = Q[i]
      BY <1>5, <2>2 DEF ToSet
    <3>2. Len(P) + i \in 1 .. Len(P) + Len(Q) /\ x = (P \o Q)[Len(P) + i]
      BY <1>2, <1>4, <3>1
    <3> QED
      BY <1>5, <3>2 DEF ToSet
  <2> QED
    BY <1>7, <2>1, <2>2
<1>8. ToSet(P \o Q) = C
  <2> HIDE DEF C
  <2> QED
    BY <1>6, <1>7
<1>9. IsProgram(P \o Q)
  BY <1>2, <1>8 DEF IsProgram
<1> QED
  BY <1>2, <1>3, <1>4, <1>8, <1>9

LEMMA HeadTail ==
  ASSUME NEW P, IsProgram(P), P # <<>>
  PROVE  /\ IsProgram(Tail(P)) /\ Len(P) \in Nat /\ Len(P) >= 1
         /\ Len(Tail(P)) = Len(P) - 1 /\ Head(P) = P[1]
         /\ \A i \in 1 .. Len(P) - 1 : Tail(P)[i] = P[i + 1]
         /\ ToSet(P) = {Head(P)} \cup ToSet(Tail(P))
<1> DEFINE C == ToSet(P)
<1>1. P \in Seq(C)
  BY DEF IsProgram
<1>2. /\ Tail(P) \in Seq(C) /\ Len(P) \in Nat /\ Len(P) >= 1 /\ Head(P) = P[1]
      /\ Len(Tail(P)) = Len(P) - 1
  <2> HIDE DEF C
  <2> QED
    BY <1>1
<1>3. \A i \in 1 .. Len(P) - 1 : Tail(P)[i] = P[i + 1]
  <2> HIDE DEF C
  <2> QED
    BY <1>1
<1>4. DOMAIN P = 1 .. Len(P) /\ DOMAIN Tail(P) = 1 .. Len(P) - 1
  <2> HIDE DEF C
  <2> QED
    BY <1>1, <1>2
<1>5. ASSUME NEW x \in ToSet(Tail(P))
      PROVE  x \in ToSet(P)
  <2>1. PICK i \in 1 .. Len(P) - 1 : x = Tail(P)[i]
    BY <1>4, <1>5 DEF ToSet
  <2>2. i + 1 \in 1 .. Len(P) /\ x = P[i + 1]
    BY <1>2, <1>3, <2>1
  <2> QED
    BY <1>4, <2>2 DEF ToSet
<1>6. ASSUME NEW x \in ToSet(P), x # Head(P)
      PROVE  x \in ToSet(Tail(P))
  <2>1. PICK i \in 1 .. Len(P) : x = P[i]
    BY <1>4, <1>6 DEF ToSet
  <2>2. i - 1 \in 1 .. Len(P) - 1 /\ (i - 1) + 1 = i
    BY <1>2, <1>6, <2>1
  <2>3. x = Tail(P)[i - 1]
    BY <1>3, <2>1, <2>2
  <2> QED
    BY <1>4, <2>2, <2>3 DEF ToSet
<1>7. Head(P) \in ToSet(P)
  BY <1>2, <1>4 DEF ToSet
<1>8. IsProgram(Tail(P))
  BY <1>2, SomeProgram
<1> QED
  BY <1>2, <1>3, <1>5, <1>6, <1>7, <1>8

LEMMA Associative ==
  ASSUME NEW P, NEW Q, NEW R, IsProgram(P), IsProgram(Q), IsProgram(R)
  PROVE  P \o (Q \o R) = P \o Q \o R
<1> DEFINE C == ToSet(P) \cup ToSet(Q) \cup ToSet(R)
<1>1. P \in Seq(C) /\ Q \in Seq(C) /\ R \in Seq(C)
  BY DEF IsProgram
<1> HIDE DEF C
<1> QED
  BY <1>1, ConcatAssociative

\* The order of ForEach names every element once.
LEMMA SomeOrder ==
  ASSUME NEW S, IsFiniteSet(S)
  PROVE  LET order == SetToSeq(S)
             N == Cardinality(S)
         IN  /\ N \in Nat /\ order \in [1 .. N -> S] /\ Len(order) = N
             /\ \A i, j \in 1 .. N : order[i] = order[j] => i = j
             /\ \A x \in S : \E i \in 1 .. N : order[i] = x
<1> DEFINE order == SetToSeq(S)
           N == Cardinality(S)
<1>1. N \in Nat /\ ExistsBijection(1 .. N, S)
  BY FS_CardinalityType
<1>2. \E f \in [1 .. N -> S] : IsInjective(f)
  BY <1>1 DEF ExistsBijection, Bijection, Injection
<1>3. order \in [1 .. N -> S] /\ IsInjective(order)
  BY <1>2 DEF SetToSeq
<1>4. Len(order) = N
  <2> HIDE DEF order, N
  <2> QED
    BY <1>1, <1>3, SeqDef
<1>5. order \in Surjection(1 .. N, S)
  <2>1. order \in Injection(1 .. N, S)
    BY <1>3 DEF Injection
  <2>2. Cardinality(1 .. N) = N
    BY <1>1, FS_Interval
  <2> QED
    BY <2>1, <2>2, FS_Injection
<1> HIDE DEF order, N
<1>6. \A x \in S : \E i \in 1 .. N : order[i] = x
  BY <1>5 DEF Surjection
<1>7. \A i, j \in 1 .. N : order[i] = order[j] => i = j
  BY <1>3 DEF IsInjective
<1> QED
  BY <1>1, <1>3, <1>4, <1>6, <1>7 DEF order, N

\* The n calls for one element stand together.
Block(n, m, j) == n * (m - 1) + j
BlockOf(n, i) == ((i - 1) \div n) + 1
PlaceIn(n, i) == ((i - 1) % n) + 1
Size(n, N) == n * N

BlockFacts(n, N) ==
  /\ Size(n, N) \in Nat
  /\ \A m \in 1 .. N, j \in 1 .. n :
       /\ Block(n, m, j) \in 1 .. Size(n, N)
       /\ BlockOf(n, Block(n, m, j)) = m /\ PlaceIn(n, Block(n, m, j)) = j
  /\ \A i \in 1 .. Size(n, N) :
       /\ BlockOf(n, i) \in 1 .. N /\ PlaceIn(n, i) \in 1 .. n
       /\ i = Block(n, BlockOf(n, i), PlaceIn(n, i))

LEMMA Blocks ==
  ASSUME NEW n \in {1, 3, 4}, NEW N \in Nat
  PROVE  BlockFacts(n, N)
<1> USE DEF Block, BlockOf, PlaceIn, Size, BlockFacts
<1>1. CASE n = 1
  BY <1>1
<1>3. CASE n = 3
  BY <1>3
<1>4. CASE n = 4
  BY <1>4
<1> QED
  BY <1>1, <1>3, <1>4

\* ForEach is the calls of its bodies, each body's together and in order.
BodyFacts(n, P, body, N, order) ==
  /\ IsProgram(P) /\ N \in Nat /\ Len(P) = Size(n, N)
  /\ ToSet(P) = UNION {ToSet(body[x]) : x \in DOMAIN body}
  /\ \A m \in 1 .. N, j \in 1 .. n :
       order[m] \in DOMAIN body /\ P[Block(n, m, j)] = body[order[m]][j]

LEMMA ForEachCalls ==
  ASSUME NEW n \in {1, 3, 4}, NEW body, IsFiniteSet(DOMAIN body),
         \A x \in DOMAIN body : IsProgram(body[x]) /\ Len(body[x]) = n
  PROVE  BodyFacts(n, ForEach(n, body), body, Cardinality(DOMAIN body),
                   SetToSeq(DOMAIN body))
<1> DEFINE S == DOMAIN body
           P == ForEach(n, body)
           N == Cardinality(S)
           order == SetToSeq(S)
           C == UNION {ToSet(body[x]) : x \in S}
<1>1. /\ N \in Nat /\ order \in [1 .. N -> S] /\ Len(order) = N
      /\ \A x \in S : \E i \in 1 .. N : order[i] = x
  BY SomeOrder
<1>b. BlockFacts(n, N)
  BY <1>1, Blocks
<1>2. P = [i \in 1 .. Size(n, N) |-> body[order[BlockOf(n, i)]][PlaceIn(n, i)]]
  BY <1>1 DEF ForEach, Size, BlockOf, PlaceIn
<1>3. \A x \in S : DOMAIN body[x] = 1 .. n
  <2> TAKE x \in S
  <2>1. body[x] \in Seq(ToSet(body[x])) /\ Len(body[x]) = n
    BY DEF IsProgram
  <2> HIDE DEF S
  <2> QED
    BY <2>1
<1>4. \A x \in S, j \in 1 .. n : body[x][j] \in ToSet(body[x])
  BY <1>3 DEF ToSet
<1> HIDE DEF S, order, N, P
<1>5. \A m \in 1 .. N, j \in 1 .. n :
         order[m] \in S /\ P[Block(n, m, j)] = body[order[m]][j]
  <2> TAKE m \in 1 .. N, j \in 1 .. n
  <2>1. /\ Block(n, m, j) \in 1 .. Size(n, N)
        /\ BlockOf(n, Block(n, m, j)) = m /\ PlaceIn(n, Block(n, m, j)) = j
    BY <1>b DEF BlockFacts
  <2>2. order[m] \in S
    BY <1>1
  <2> QED
    BY <1>2, <2>1, <2>2
<1>6. Size(n, N) \in Nat
  BY <1>b DEF BlockFacts
<1>7. P \in [1 .. Size(n, N) -> C]
  <2> SUFFICES ASSUME NEW i \in 1 .. Size(n, N)
               PROVE  body[order[BlockOf(n, i)]][PlaceIn(n, i)] \in C
    BY <1>2
  <2>1. BlockOf(n, i) \in 1 .. N /\ PlaceIn(n, i) \in 1 .. n
    BY <1>b DEF BlockFacts
  <2>2. order[BlockOf(n, i)] \in S
    BY <1>1, <2>1
  <2> QED
    BY <1>4, <2>1, <2>2
<1>8. P \in Seq(C) /\ Len(P) = Size(n, N) /\ DOMAIN P = 1 .. Size(n, N)
  BY <1>6, <1>7, SeqDef
<1>9. ASSUME NEW c \in C
      PROVE  c \in ToSet(P)
  <2>1. PICK x \in S : c \in ToSet(body[x])
    BY <1>9
  <2>2. PICK j \in 1 .. n : c = body[x][j]
    BY <1>3, <2>1 DEF ToSet
  <2>3. PICK m \in 1 .. N : order[m] = x
    BY <1>1
  <2>4. Block(n, m, j) \in 1 .. Size(n, N) /\ P[Block(n, m, j)] = c
    BY <1>1, <1>5, <2>2, <2>3, <1>b DEF BlockFacts
  <2> QED
    BY <1>8, <2>4 DEF ToSet
<1>10. ToSet(P) = C
  <2>1. ToSet(P) \subseteq C
    BY <1>7, <1>8 DEF ToSet
  <2> QED
    BY <1>9, <2>1
<1> QED
  BY <1>1, <1>5, <1>8, <1>10, SomeProgram DEF S, order, N, P, BodyFacts

-----------------------------------------------------------------------------
(* What the calls of a program make of one fact about the device, in the end *)

\* The facts: that a section is there; that an option has a value; that a device
\* is a member of the LAN bridge; that something of a package is staged and not
\* committed, or committed and not read by the running system; that the manager
\* of the uplink station knows of one; that a backhaul state is the recorded
\* one; that a mesh is still to be verified.
Fact(kind, pkg, sec, option, value) ==
  [kind |-> kind, pkg |-> pkg, sec |-> sec, option |-> option, value |-> value]

Exists(pkg, sec) == Fact("exists", pkg, sec, "", "")
HasOption(pkg, sec, option, value) == Fact("option", pkg, sec, option, value)
Bridged(device) == Fact("bridged", "network", LanDevice, "", device)
Uncommitted(pkg) == Fact("uncommitted", pkg, "", "", "")
Unread(pkg) == Fact("unread", pkg, "", "", "")
UplinkKnown == Fact("uplink", "", "", "", "")
Recorded(state) == Fact("recorded", "", "", "", state)
Unverified == Fact("unverified", "", "", "", "")

Edits == {"section", "set", "delete", "unique_mac", "prune", "add_item", "del_item"}
Stages(c, pkg) == c.op \in Edits /\ c.pkg = pkg

Writes(c, k) ==
  /\ c.op \in {"section", "set"} /\ c.pkg = k.pkg /\ c.sec = k.sec
  /\ k.option \in DOMAIN c.arg

Removes(c, k) ==
  /\ c.pkg = k.pkg
  /\ \/ c.op = "delete" /\ c.sec = k.sec
     \/ c.op = "prune" /\ k.sec \in SecondaryAPs \ c.arg.keep

TurnsOn(c, k) ==
  CASE k.kind = "exists" -> c.op = "section" /\ c.pkg = k.pkg /\ c.sec = k.sec
    [] k.kind = "option" -> Writes(c, k) /\ c.arg[k.option] = k.value
    [] k.kind = "bridged" -> c.op = "add_item" /\ c.arg.item = k.value
    [] k.kind = "uncommitted" -> Stages(c, k.pkg)
    [] k.kind = "unread" -> c.op = "commit" /\ c.pkg = k.pkg
    [] k.kind = "uplink" -> c.op = "uplink_active" /\ c.arg.active
    [] k.kind = "recorded" -> c.op = "backhaul_state" /\ c.arg.state = k.value
    [] k.kind = "unverified" -> c.op = "mesh_up" /\ c.arg.mesh

TurnsOff(c, k) ==
  CASE k.kind = "exists" -> Removes(c, k)
    [] k.kind = "option" ->
         Removes(c, k) \/ (Writes(c, k) /\ c.arg[k.option] # k.value)
    [] k.kind = "bridged" -> c.op = "del_item" /\ c.arg.item = k.value
    [] k.kind = "uncommitted" -> c.op = "commit" /\ c.pkg = k.pkg
    [] k.kind = "unread" -> c.op = "reload" /\ c.pkg = k.pkg
    [] k.kind = "uplink" -> c.op = "uplink_active" /\ ~c.arg.active
    [] k.kind = "recorded" ->
         (c.op = "backhaul_state" /\ c.arg.state # k.value) \/ c.op = "mesh_up"
    [] k.kind = "unverified" -> FALSE

Effect(c, k) ==
  IF TurnsOn(c, k) THEN "on" ELSE IF TurnsOff(c, k) THEN "off" ELSE "none"

\* That of the last call that has one
Acts(P, k) == {i \in DOMAIN P : Effect(P[i], k) # "none"}
Net(P, k) ==
  IF Acts(P, k) = {} THEN "none"
  ELSE Effect(P[CHOOSE i \in Acts(P, k) : \A j \in Acts(P, k) : j <= i], k)

\* What comes later wins.
Later(old, new) == IF new = "none" THEN old ELSE new

LEMMA LastAct ==
  ASSUME NEW P, NEW k, IsProgram(P), Acts(P, k) # {}
  PROVE  \E i \in Acts(P, k) : \A j \in Acts(P, k) : j <= i
<1> DEFINE D == Acts(P, k)
           R == {r \in D \X D : r[1] > r[2]}
<1>1. DOMAIN P = 1 .. Len(P) /\ Len(P) \in Nat
  <2>1. P \in Seq(ToSet(P))
    BY DEF IsProgram
  <2> QED
    BY <2>1
<1>2. D \subseteq 1 .. Len(P)
  BY <1>1 DEF Acts
<1>3. IsFiniteSet(D)
  <2>1. IsFiniteSet(1 .. Len(P))
    BY <1>1, FS_Interval
  <2> QED
    BY <1>2, <2>1, FS_Subset
<1> HIDE DEF D
<1>4. \A x, y \in D : <<x, y>> \in R <=> x > y
  OBVIOUS
<1>5. \A x \in D : x \in Int
  BY <1>1, <1>2
<1> HIDE DEF R
<1>6. PICK x \in D : \A y \in D : <<y, x>> \notin R
  <2>1. \A x \in D : <<x, x>> \notin R
    BY <1>4, <1>5
  <2>2. \A x, y, z \in D : <<x, y>> \in R /\ <<y, z>> \in R => <<x, z>> \in R
    BY <1>4, <1>5
  <2> QED
    BY <1>3, <2>1, <2>2, MinimalElement DEF D
<1>7. \A y \in D : y <= x
  <2> TAKE y \in D
  <2>1. ~(y > x)
    BY <1>4, <1>6
  <2>2. x \in Int /\ y \in Int
    BY <1>5
  <2> QED
    BY <2>1, <2>2
<1> QED
  BY <1>7 DEF D

LEMMA NetNone ==
  ASSUME NEW P, NEW k, IsProgram(P)
  PROVE  Net(P, k) = "none" <=> \A c \in ToSet(P) : Effect(c, k) = "none"
<1>1. CASE Acts(P, k) = {}
  BY <1>1 DEF Net, Acts, ToSet
<1>2. CASE Acts(P, k) # {}
  <2>1. PICK i \in Acts(P, k) : \A j \in Acts(P, k) : j <= i
    BY <1>2, LastAct
  <2> DEFINE last == CHOOSE m \in Acts(P, k) : \A j \in Acts(P, k) : j <= m
  <2>2. last \in Acts(P, k) /\ Net(P, k) = Effect(P[last], k)
    BY <1>2, <2>1 DEF Net
  <2> HIDE DEF last
  <2>3. last \in DOMAIN P /\ Effect(P[last], k) # "none"
    BY <2>2 DEF Acts
  <2> QED
    BY <2>2, <2>3 DEF ToSet
<1> QED
  BY <1>1, <1>2

\* The call at i is the last to have an effect.
Decides(P, k, i) ==
  /\ i \in DOMAIN P /\ Effect(P[i], k) # "none"
  /\ \A j \in DOMAIN P : j > i => Effect(P[j], k) = "none"

LEMMA NetDecided ==
  ASSUME NEW P, NEW k, IsProgram(P)
  PROVE  /\ \A i : Decides(P, k, i) => Net(P, k) = Effect(P[i], k)
         /\ Net(P, k) # "none" => \E i : Decides(P, k, i)
<1>1. DOMAIN P = 1 .. Len(P) /\ Len(P) \in Nat
  <2>1. P \in Seq(ToSet(P))
    BY DEF IsProgram
  <2> QED
    BY <2>1
<1>2. ASSUME NEW i, Decides(P, k, i)
      PROVE  Net(P, k) = Effect(P[i], k)
  <2> DEFINE last == CHOOSE j \in Acts(P, k) : \A m \in Acts(P, k) : m <= j
  <2>1. i \in Acts(P, k) /\ \A j \in Acts(P, k) : j <= i
    BY <1>1, <1>2 DEF Acts, Decides
  <2>2. last \in Acts(P, k) /\ \A j \in Acts(P, k) : j <= last
    BY <2>1
  <2>3. Net(P, k) = Effect(P[last], k)
    BY <2>1 DEF Net
  <2> HIDE DEF last
  <2>4. last = i
    <3>1. last \in Int /\ i \in Int
      BY <1>1, <2>1, <2>2 DEF Acts
    <3> QED
      BY <2>1, <2>2, <3>1
  <2> QED
    BY <2>3, <2>4
<1>3. ASSUME Net(P, k) # "none"
      PROVE  \E i : Decides(P, k, i)
  <2>1. Acts(P, k) # {}
    BY <1>3 DEF Net
  <2>2. PICK i \in Acts(P, k) : \A j \in Acts(P, k) : j <= i
    BY <2>1, LastAct
  <2> QED
    BY <1>1, <2>2 DEF Acts, Decides
<1> QED
  BY <1>2, <1>3

LEMMA NetEmpty == \A k : Net(<<>>, k) = "none"
BY DEF Net, Acts

LEMMA NetOfCall ==
  ASSUME NEW op, NEW pkg, NEW sec, NEW arg, NEW k
  PROVE  Net(Call(op, pkg, sec, arg), k) =
           Effect([op |-> op, pkg |-> pkg, sec |-> sec, arg |-> arg], k)
<1> DEFINE c == [op |-> op, pkg |-> pkg, sec |-> sec, arg |-> arg]
           P == Call(op, pkg, sec, arg)
<1>1. IsProgram(P) /\ ToSet(P) = {c} /\ DOMAIN P = {1} /\ P[1] = c
  BY OneCall DEF Call
<1>2. CASE Effect(c, k) = "none"
  BY <1>1, <1>2, NetNone
<1>3. CASE Effect(c, k) # "none"
  <2> HIDE DEF c, P
  <2>1. Decides(P, k, 1)
    BY <1>1, <1>3 DEF Decides
  <2>2. Net(P, k) = Effect(P[1], k)
    BY <1>1, <2>1, NetDecided
  <2> QED
    BY <1>1, <2>2 DEF c, P
<1> QED
  BY <1>2, <1>3

LEMMA NetConcat ==
  ASSUME NEW P, NEW Q, NEW k, IsProgram(P), IsProgram(Q)
  PROVE  Net(P \o Q, k) = Later(Net(P, k), Net(Q, k))
<1> DEFINE R == P \o Q
<1>1. /\ IsProgram(R) /\ Len(P) \in Nat /\ Len(Q) \in Nat /\ Len(R) = Len(P) + Len(Q)
      /\ \A i \in 1 .. Len(P) : R[i] = P[i]
      /\ \A i \in 1 .. Len(Q) : R[Len(P) + i] = Q[i]
  BY Concat
<1>2. /\ DOMAIN P = 1 .. Len(P) /\ DOMAIN Q = 1 .. Len(Q) /\ DOMAIN R = 1 .. Len(R)
  <2> HIDE DEF R
  <2>1. P \in Seq(ToSet(P)) /\ Q \in Seq(ToSet(Q)) /\ R \in Seq(ToSet(R))
    BY <1>1 DEF IsProgram
  <2> QED
    BY <2>1
<1>s. ToSet(R) = ToSet(P) \cup ToSet(Q)
  BY Concat
<1> HIDE DEF R
<1>3. ASSUME Net(Q, k) # "none"
      PROVE  Net(R, k) = Net(Q, k)
  <2>1. PICK i : Decides(Q, k, i)
    BY <1>3, NetDecided
  <2>2. i \in 1 .. Len(Q) /\ Len(P) + i \in 1 .. Len(R) /\ R[Len(P) + i] = Q[i]
    BY <1>1, <1>2, <2>1 DEF Decides
  <2>3. ASSUME NEW j \in 1 .. Len(R), j > Len(P) + i
        PROVE  Effect(R[j], k) = "none"
    <3>1. j - Len(P) \in 1 .. Len(Q) /\ j - Len(P) > i /\ j = Len(P) + (j - Len(P))
      BY <1>1, <2>2, <2>3
    <3>2. R[j] = Q[j - Len(P)]
      BY <1>1, <3>1
    <3> QED
      BY <1>2, <2>1, <3>1, <3>2 DEF Decides
  <2>4. Decides(R, k, Len(P) + i)
    BY <1>2, <2>1, <2>2, <2>3 DEF Decides
  <2>5. Net(R, k) = Effect(R[Len(P) + i], k)
    BY <1>1, <2>4, NetDecided
  <2>6. Net(Q, k) = Effect(Q[i], k)
    BY <2>1, NetDecided
  <2> QED
    BY <2>2, <2>5, <2>6
<1>4. ASSUME Net(Q, k) = "none", Net(P, k) # "none"
      PROVE  Net(R, k) = Net(P, k)
  <2>1. PICK i : Decides(P, k, i)
    BY <1>4, NetDecided
  <2>2. i \in 1 .. Len(P) /\ i \in 1 .. Len(R) /\ R[i] = P[i]
    BY <1>1, <1>2, <2>1 DEF Decides
  <2>3. ASSUME NEW j \in 1 .. Len(R), j > i
        PROVE  Effect(R[j], k) = "none"
    <3>1. CASE j <= Len(P)
      BY <1>1, <1>2, <2>1, <2>3, <3>1 DEF Decides
    <3>2. CASE j > Len(P)
      <4>1. j - Len(P) \in 1 .. Len(Q) /\ j = Len(P) + (j - Len(P))
        BY <1>1, <3>2
      <4>2. R[j] = Q[j - Len(P)]
        BY <1>1, <4>1
      <4>3. Q[j - Len(P)] \in ToSet(Q)
        BY <1>2, <4>1 DEF ToSet
      <4> QED
        BY <1>4, <4>2, <4>3, NetNone
    <3> QED
      BY <1>1, <3>1, <3>2
  <2>4. Decides(R, k, i)
    BY <1>2, <2>1, <2>2, <2>3 DEF Decides
  <2>5. Net(R, k) = Effect(R[i], k)
    BY <1>1, <2>4, NetDecided
  <2>6. Net(P, k) = Effect(P[i], k)
    BY <2>1, NetDecided
  <2> QED
    BY <2>2, <2>5, <2>6
<1>5. ASSUME Net(Q, k) = "none", Net(P, k) = "none"
      PROVE  Net(R, k) = "none"
  <2>1. \A c \in ToSet(R) : Effect(c, k) = "none"
    BY <1>s, <1>5, NetNone
  <2> QED
    BY <1>1, <2>1, NetNone
<1> QED
  BY <1>3, <1>4, <1>5 DEF R, Later

LEMMA NetHeadTail ==
  ASSUME NEW P, NEW k, IsProgram(P), P # <<>>
  PROVE  Net(P, k) = Later(Effect(Head(P), k), Net(Tail(P), k))
<1>1. /\ IsProgram(Tail(P)) /\ Len(P) \in Nat /\ Len(P) >= 1
      /\ Len(Tail(P)) = Len(P) - 1 /\ Head(P) = P[1]
      /\ \A i \in 1 .. Len(P) - 1 : Tail(P)[i] = P[i + 1]
      /\ ToSet(P) = {Head(P)} \cup ToSet(Tail(P))
  BY HeadTail
<1> DEFINE T == Tail(P)
<1>2. DOMAIN P = 1 .. Len(P) /\ DOMAIN T = 1 .. Len(P) - 1
  <2>1. P \in Seq(ToSet(P)) /\ T \in Seq(ToSet(T)) /\ Len(T) = Len(P) - 1
    BY <1>1 DEF IsProgram
  <2> HIDE DEF T
  <2> QED
    BY <2>1
<1> HIDE DEF T
<1>3. ASSUME Net(T, k) # "none"
      PROVE  Net(P, k) = Net(T, k)
  <2>1. PICK i : Decides(T, k, i)
    BY <1>1, <1>3, NetDecided DEF T
  <2>2. i \in 1 .. Len(P) - 1 /\ i + 1 \in 1 .. Len(P) /\ P[i + 1] = T[i]
    BY <1>1, <1>2, <2>1 DEF Decides, T
  <2>3. ASSUME NEW j \in 1 .. Len(P), j > i + 1
        PROVE  Effect(P[j], k) = "none"
    <3>1. j - 1 \in 1 .. Len(P) - 1 /\ j - 1 > i /\ (j - 1) + 1 = j
      BY <1>1, <2>2, <2>3
    <3>2. T[j - 1] = P[j]
      BY <1>1, <3>1 DEF T
    <3> QED
      BY <1>2, <2>1, <3>1, <3>2 DEF Decides
  <2>4. Decides(P, k, i + 1)
    BY <1>2, <2>1, <2>2, <2>3 DEF Decides
  <2>5. Net(P, k) = Effect(P[i + 1], k)
    BY <2>4, NetDecided
  <2>6. Net(T, k) = Effect(T[i], k)
    BY <1>1, <2>1, NetDecided DEF T
  <2> QED
    BY <2>2, <2>5, <2>6
<1>4. ASSUME Net(T, k) = "none"
      PROVE  Net(P, k) = Effect(Head(P), k)
  <2>1. \A c \in ToSet(T) : Effect(c, k) = "none"
    BY <1>1, <1>4, NetNone DEF T
  <2>2. CASE Effect(Head(P), k) = "none"
    BY <1>1, <2>1, <2>2, NetNone DEF T
  <2>3. CASE Effect(Head(P), k) # "none"
    <3>1. ASSUME NEW j \in 1 .. Len(P), j > 1
          PROVE  Effect(P[j], k) = "none"
      <4>1. j - 1 \in 1 .. Len(P) - 1 /\ (j - 1) + 1 = j
        BY <1>1, <3>1
      <4>2. T[j - 1] = P[j] /\ T[j - 1] \in ToSet(T)
        BY <1>1, <1>2, <4>1 DEF T, ToSet
      <4> QED
        BY <2>1, <4>2
    <3>2. Decides(P, k, 1)
      BY <1>1, <1>2, <2>3, <3>1 DEF Decides
    <3> QED
      BY <1>1, <3>2, NetDecided
  <2> QED
    BY <2>2, <2>3
<1> QED
  BY <1>3, <1>4 DEF T, Later

\* No body but y's has an effect.
OthersRest(body, k, y) == \A x \in DOMAIN body : x # y => Net(body[x], k) = "none"

LEMMA NetForEach ==
  ASSUME NEW n, n \in {1, 3, 4}, NEW body, NEW k, IsFiniteSet(DOMAIN body),
         \A x \in DOMAIN body : IsProgram(body[x]) /\ Len(body[x]) = n,
         NEW y, y \in DOMAIN body, OthersRest(body, k, y)
  PROVE  Net(ForEach(n, body), k) = Net(body[y], k)
<1> DEFINE P == ForEach(n, body)
           N == Cardinality(DOMAIN body)
           order == SetToSeq(DOMAIN body)
<1>0. BodyFacts(n, P, body, N, order)
  BY ForEachCalls
<1>3. /\ \A i, j \in 1 .. N : order[i] = order[j] => i = j
      /\ \E i \in 1 .. N : order[i] = y
  BY SomeOrder
<1> HIDE DEF P, N, order
<1>1. /\ IsProgram(P) /\ N \in Nat
      /\ ToSet(P) = UNION {ToSet(body[x]) : x \in DOMAIN body}
      /\ Len(P) = Size(n, N)
  BY <1>0 DEF BodyFacts
<1>2. \A m \in 1 .. N, j \in 1 .. n :
         order[m] \in DOMAIN body /\ P[Block(n, m, j)] = body[order[m]][j]
  BY <1>0 DEF BodyFacts
<1>4. BlockFacts(n, N)
  BY <1>1, Blocks
<1>5. DOMAIN P = 1 .. Size(n, N)
  <2>1. P \in Seq(ToSet(P))
    BY <1>1 DEF IsProgram
  <2> QED
    BY <1>1, <2>1
<1>6. \A x \in DOMAIN body : DOMAIN body[x] = 1 .. n
  <2> TAKE x \in DOMAIN body
  <2>1. body[x] \in Seq(ToSet(body[x])) /\ Len(body[x]) = n
    BY DEF IsProgram
  <2> QED
    BY <2>1
<1>7. \A x \in DOMAIN body \ {y} : \A j \in 1 .. n : Effect(body[x][j], k) = "none"
  <2> TAKE x \in DOMAIN body \ {y}
  <2> TAKE j \in 1 .. n
  <2>1. body[x][j] \in ToSet(body[x])
    BY <1>6 DEF ToSet
  <2> QED
    BY <2>1, NetNone DEF OthersRest
<1>8. CASE Net(body[y], k) = "none"
  <2>1. \A c \in ToSet(body[y]) : Effect(c, k) = "none"
    BY <1>8, NetNone
  <2>2. \A x \in DOMAIN body : \A c \in ToSet(body[x]) : Effect(c, k) = "none"
    BY <2>1, NetNone DEF OthersRest
  <2> QED
    BY <1>1, <1>8, <2>2, NetNone DEF P
<1>9. CASE Net(body[y], k) # "none"
  <2>1. PICK j : Decides(body[y], k, j)
    BY <1>9, NetDecided
  <2>2. PICK m \in 1 .. N : order[m] = y
    BY <1>3
  <2> DEFINE at == Block(n, m, j)
  <2>3. j \in 1 .. n /\ at \in 1 .. Size(n, N) /\ P[at] = body[y][j]
    BY <1>2, <1>4, <1>6, <2>1, <2>2 DEF Decides, BlockFacts
  <2>4. ASSUME NEW i \in 1 .. Size(n, N), i > at
        PROVE  Effect(P[i], k) = "none"
    <3> DEFINE b == BlockOf(n, i)
               p == PlaceIn(n, i)
    <3>1. b \in 1 .. N /\ p \in 1 .. n /\ i = Block(n, b, p)
      BY <1>4 DEF BlockFacts
    <3> HIDE DEF b, p
    <3>2. P[i] = body[order[b]][p] /\ order[b] \in DOMAIN body
      BY <1>2, <3>1
    <3>3. CASE order[b] # y
      BY <1>7, <3>1, <3>2, <3>3
    <3>4. CASE order[b] = y
      <4>1. b = m
        BY <1>3, <2>2, <3>1, <3>4
      <4>2. p > j
        BY <1>1, <2>3, <2>4, <3>1, <4>1 DEF Block
      <4> QED
        BY <1>6, <2>1, <3>1, <3>2, <3>4, <4>2 DEF Decides
    <3> QED
      BY <3>3, <3>4
  <2> HIDE DEF at
  <2>5. Decides(P, k, at)
    BY <1>5, <2>1, <2>3, <2>4 DEF Decides
  <2>6. Net(P, k) = Effect(P[at], k)
    BY <1>1, <2>5, NetDecided
  <2>7. Net(body[y], k) = Effect(body[y][j], k)
    BY <2>1, NetDecided
  <2> QED
    BY <2>3, <2>6, <2>7 DEF P
<1> QED
  BY <1>8, <1>9

LEMMA NetForEachNone ==
  ASSUME NEW n \in {1, 3, 4}, NEW body, NEW k, IsFiniteSet(DOMAIN body),
         \A x \in DOMAIN body : IsProgram(body[x]) /\ Len(body[x]) = n,
         \A x \in DOMAIN body : Net(body[x], k) = "none"
  PROVE  Net(ForEach(n, body), k) = "none"
<1>1. /\ IsProgram(ForEach(n, body))
      /\ ToSet(ForEach(n, body)) = UNION {ToSet(body[x]) : x \in DOMAIN body}
  BY ForEachCalls DEF BodyFacts
<1>2. \A x \in DOMAIN body : \A c \in ToSet(body[x]) : Effect(c, k) = "none"
  BY NetNone
<1> QED
  BY <1>1, <1>2, NetNone

-----------------------------------------------------------------------------
(* The calls of the programs *)

\* What a call may name: only list edits touch the LAN bridge, and only with
\* the given devices.
GoodCall(c, devices) ==
  /\ c.op \in {"section", "set", "delete", "unique_mac", "commit", "reload"} =>
       c.pkg \in Packages /\ c.sec # LanDevice
  /\ c.op = "unique_mac" => c.sec[1] = "dev_"
  /\ c.op = "prune" => c.pkg = "wireless"
  /\ c.op \in {"add_item", "del_item"} =>
       c.pkg = "network" /\ c.sec = LanDevice /\ c.arg.item \in devices
  /\ c.op = "uplink_active" => c.arg.active \in BOOLEAN
  /\ c.op = "backhaul_state" => c.arg.state \in {"80211s", "multi_ap", "degraded"}

Good(P, devices) ==
  IsProgram(P) /\ \A c \in ToSet(P) : GoodCall(c, devices)

LEMMA GoodEmpty == \A D : Good(<<>>, D)
BY EmptyProgram DEF Good

LEMMA GoodOne ==
  ASSUME NEW op, NEW pkg, NEW sec, NEW arg, NEW D,
         GoodCall([op |-> op, pkg |-> pkg, sec |-> sec, arg |-> arg], D)
  PROVE  Good(Call(op, pkg, sec, arg), D) /\ Len(Call(op, pkg, sec, arg)) = 1
BY OneCall DEF Good

LEMMA GoodConcat ==
  ASSUME NEW P, NEW Q, NEW D, Good(P, D), Good(Q, D)
  PROVE  Good(P \o Q, D) /\ Len(P \o Q) = Len(P) + Len(Q)
BY Concat DEF Good

LEMMA GoodForEach ==
  ASSUME NEW n \in {1, 3, 4}, NEW body, NEW D, IsFiniteSet(DOMAIN body),
         \A x \in DOMAIN body : Good(body[x], D) /\ Len(body[x]) = n
  PROVE  Good(ForEach(n, body), D)
<1>1. \A x \in DOMAIN body : IsProgram(body[x]) /\ Len(body[x]) = n
  BY DEF Good
<1>2. BodyFacts(n, ForEach(n, body), body, Cardinality(DOMAIN body),
                SetToSeq(DOMAIN body))
  BY <1>1, ForEachCalls
<1> QED
  BY <1>2 DEF BodyFacts, Good

LEMMA NotEmpty ==
  ASSUME NEW P, NEW Q, IsProgram(P), IsProgram(Q), Q # <<>>
  PROVE  P \o Q # <<>>
<1>1. ToSet(P \o Q) = ToSet(P) \cup ToSet(Q)
  BY Concat
<1>2. Head(Q) \in ToSet(Q)
  BY HeadTail
<1>3. ToSet(P \o Q) # {}
  BY <1>1, <1>2
<1> QED
  BY <1>3, EmptyProgram

\* Section names of different kinds are different.
LEMMA Names ==
  /\ \A name : Section(name) = LanDevice => name = "bridge"
  /\ \A x : RadioSection(x) # LanDevice /\ WiredHardif(x) # LanDevice
  /\ \A x : DeviceSection(x) # LanDevice /\ SecondaryAP(x) # LanDevice
  /\ \A x : DeviceSection(x)[1] = "dev_" /\ SecondaryAP(x)[1] = "omm_ap_"
BY DEF Section, Named, LanDevice, RadioSection, WiredHardif, DeviceSection, SecondaryAP

LEMMA GoodCalls ==
  ASSUME NEW D
  PROVE  /\ \A pkg \in Packages : \A sec, arg :
              sec # LanDevice =>
                /\ Good(SetSection(pkg, sec, arg), D) /\ Good(Set(pkg, sec, arg), D)
                /\ Good(Delete(pkg, sec), D)
                /\ Len(SetSection(pkg, sec, arg)) = 1 /\ Len(Set(pkg, sec, arg)) = 1
                /\ Len(Delete(pkg, sec)) = 1
         /\ \A pkg \in Packages : Good(Commit(pkg), D) /\ Good(ReloadPackage(pkg), D)
         /\ \A item \in D :
              /\ Good(AddListItem(item), D) /\ Len(AddListItem(item)) = 1
              /\ Good(DelListItem(item), D) /\ Len(DelListItem(item)) = 1
<1> USE DEF GoodCall, SetSection, Set, Delete, Commit, ReloadPackage, AddListItem,
            DelListItem
<1>1. ASSUME NEW pkg \in Packages, NEW sec, NEW arg, sec # LanDevice
      PROVE  /\ Good(SetSection(pkg, sec, arg), D) /\ Good(Set(pkg, sec, arg), D)
             /\ Good(Delete(pkg, sec), D)
             /\ Len(SetSection(pkg, sec, arg)) = 1 /\ Len(Set(pkg, sec, arg)) = 1
             /\ Len(Delete(pkg, sec)) = 1
  BY <1>1, GoodOne
<1>2. ASSUME NEW pkg \in Packages
      PROVE  Good(Commit(pkg), D) /\ Good(ReloadPackage(pkg), D)
  BY Names, GoodOne
<1>3. ASSUME NEW item \in D
      PROVE  /\ Good(AddListItem(item), D) /\ Len(AddListItem(item)) = 1
             /\ Good(DelListItem(item), D) /\ Len(DelListItem(item)) = 1
  BY GoodOne
<1> QED
  BY <1>1, <1>2, <1>3

LEMMA GoodReload == \A D : Good(Reload, D)
BY GoodCalls, GoodConcat DEF Reload, Packages

LEMMA GoodEnslave ==
  ASSUME NEW D, NEW port \in D
  PROVE  Good(EnslavePort(port), D) /\ Len(EnslavePort(port)) = 3
<1> DEFINE A == SetSection("network", WiredHardif(port),
                           [master |-> Iface, device |-> port])
           B == DelListItem(port)
           C == Call("unique_mac", "network", DeviceSection(port), [name |-> port])
<1>1. Good(A, D) /\ Len(A) = 1 /\ Good(B, D) /\ Len(B) = 1
  BY Names, GoodCalls DEF Packages
<1>2. Good(C, D) /\ Len(C) = 1
  BY Names, GoodOne DEF GoodCall, Packages
<1> HIDE DEF A, B, C
<1>3. Good(A \o B, D) /\ Len(A \o B) = Len(A) + Len(B)
  BY <1>1, GoodConcat
<1>4. Good(A \o B \o C, D) /\ Len(A \o B \o C) = Len(A) + Len(B) + Len(C)
  BY <1>2, <1>3, GoodConcat
<1> QED
  BY <1>1, <1>2, <1>4 DEF EnslavePort, A, B, C

LEMMA GoodRelease ==
  ASSUME NEW D, NEW port \in D
  PROVE  Good(ReleasePort(port), D) /\ Len(ReleasePort(port)) = 4
<1> DEFINE A == DelListItem(port)
           B == AddListItem(port)
           C == Delete("network", WiredHardif(port))
           E == Delete("network", DeviceSection(port))
<1>1. /\ Good(A, D) /\ Len(A) = 1 /\ Good(B, D) /\ Len(B) = 1
      /\ Good(C, D) /\ Len(C) = 1 /\ Good(E, D) /\ Len(E) = 1
  BY Names, GoodCalls DEF Packages
<1> HIDE DEF A, B, C, E
<1>2. Good(A \o B, D) /\ Len(A \o B) = Len(A) + Len(B)
  BY <1>1, GoodConcat
<1>3. Good(A \o B \o C, D) /\ Len(A \o B \o C) = Len(A) + Len(B) + Len(C)
  BY <1>1, <1>2, GoodConcat
<1>4. Good(A \o B \o C \o E, D) /\ Len(A \o B \o C \o E) = Len(A) + Len(B) + Len(C) + Len(E)
  BY <1>1, <1>3, GoodConcat
<1> QED
  BY <1>1, <1>4 DEF ReleasePort, A, B, C, E

\* A program is good if its parts are, in whatever number.
LEMMA GoodBatmanApply ==
  ASSUME NEW D, NEW W, IsFiniteSet(W), W \subseteq D, Iface \in D
  PROVE  Good(BatmanApply(W), D)
<1> DEFINE A == SetSection("network", IfaceSection, [proto |-> "batadv"])
           B == SetSection("network", MeshHardif, [master |-> Iface])
           C == ForEach(3, [p \in W |-> EnslavePort(p)])
           E == DelListItem(Iface)
           F == AddListItem(Iface)
<1>1. Good(A, D) /\ Good(B, D)
  BY Names, GoodCalls DEF Packages, IfaceSection, MeshHardif, Iface
<1>2. Good(C, D)
  BY GoodEnslave, GoodForEach
<1>3. Good(E, D) /\ Good(F, D)
  BY GoodCalls
<1> HIDE DEF A, B, C, E, F
<1>4. Good(A \o B \o C \o E \o F, D)
  BY <1>1, <1>2, <1>3, GoodConcat
<1> QED
  BY <1>4 DEF BatmanApply, A, B, C, E, F

LEMMA GoodTeardown ==
  ASSUME NEW D, NEW W, IsFiniteSet(W), W \subseteq D, Iface \in D
  PROVE  Good(Teardown(W), D)
<1> DEFINE A == DelListItem(Iface)
           B == ForEach(4, [p \in W |-> ReleasePort(p)])
           C == Delete("network", MeshHardif)
           E == Delete("network", IfaceSection)
<1>1. Good(A, D)
  BY GoodCalls
<1>2. Good(B, D)
  BY GoodRelease, GoodForEach
<1>3. Good(C, D) /\ Good(E, D)
  BY Names, GoodCalls DEF Packages, IfaceSection, MeshHardif, Iface
<1> HIDE DEF A, B, C, E
<1>4. Good(A \o B \o C \o E, D)
  BY <1>1, <1>2, <1>3, GoodConcat
<1> QED
  BY <1>4 DEF Teardown, A, B, C, E

LEMMA GoodFallback ==
  ASSUME NEW D, NEW device, IsFiniteSet(device.wired), device.wired \subseteq D,
         Iface \in D
  PROVE  Good(BatmanFallback(device), D)
<1> DEFINE A == Set("wireless", MeshSection, [network |-> Section("lan")])
           B == Teardown(device.wired)
           C == Commit("network")
           E == Commit("wireless")
<1>1. Good(A, D) /\ Good(C, D) /\ Good(E, D)
  BY Names, GoodCalls DEF Packages, MeshSection
<1>2. Good(B, D) /\ Good(Reload, D)
  BY GoodTeardown, GoodReload
<1> HIDE DEF A, B, C, E
<1>4. Good(A \o B \o C \o E \o Reload, D)
  BY <1>1, <1>2, GoodConcat
<1> QED
  BY <1>4 DEF BatmanFallback, A, B, C, E

LEMMA GoodVerdicts ==
  ASSUME NEW D
  PROVE  /\ Good(Degrade, D)
         /\ \A state \in {"80211s", "multi_ap", "degraded"} :
              Good(SetBackhaulState(state), D)
<1>1. Good(Delete("wireless", MeshSection), D) /\ Good(Commit("wireless"), D)
  BY Names, GoodCalls DEF Packages, MeshSection
<1>2. Good(Degrade, D)
  BY <1>1, GoodReload, GoodConcat DEF Degrade
<1>3. ASSUME NEW state \in {"80211s", "multi_ap", "degraded"}
      PROVE  Good(SetBackhaulState(state), D)
  BY GoodOne DEF GoodCall, SetBackhaulState
<1> QED
  BY <1>2, <1>3

LEMMA GoodPosture ==
  ASSUME NEW D, Uplink \in D, NEW role, NEW found
  PROVE  Good(ApplyPosture(role, found), D)
<1>1. /\ \A v : Good(Set("network", Section("wan"), v), D)
      /\ \A v : Good(Set("network", Section("lan"), v), D)
      /\ \A v : Good(Set("dhcp", Section("lan"), v), D)
      /\ Good(Commit("network"), D) /\ Good(Commit("dhcp"), D)
      /\ Good(AddListItem(Uplink), D) /\ Good(DelListItem(Uplink), D)
  BY Names, GoodCalls DEF Packages
<1>2. Good(ApplySets, D)
  BY <1>1, GoodReload, GoodConcat DEF ApplySets
<1>e. /\ Good(IF found THEN AddListItem(Uplink) ELSE <<>>, D)
      /\ Good(IF found THEN DelListItem(Uplink) ELSE <<>>, D)
  BY <1>1, GoodEmpty
<1>3. Good(ApplyController(found), D)
  BY <1>1, <1>2, <1>e, GoodConcat DEF ApplyController
<1>4. Good(ApplyBridgedDumbAP(found), D)
  BY <1>1, <1>2, <1>e, GoodConcat DEF ApplyBridgedDumbAP
<1> QED
  BY <1>3, <1>4 DEF ApplyPosture

LEMMA GoodSetup ==
  ASSUME NEW D, NEW uplinkActive
  PROVE  Good(EnableSetup, D) /\ Good(EnableUplink, D) /\ Good(Disable(uplinkActive), D)
<1>1. /\ \A v : Good(SetSection("network", SetupNet, v), D)
      /\ \A v : Good(SetSection("dhcp", SetupNet, v), D)
      /\ \A v : Good(SetSection("wireless", SetupWifi, v), D)
      /\ \A v : Good(SetSection("network", UplinkNet, v), D)
      /\ \A v : Good(SetSection("wireless", UplinkWifi, v), D)
      /\ \A v : Good(Set("wireless", RadioSection(SetupRadio), v), D)
      /\ Good(Commit("network"), D) /\ Good(Commit("dhcp"), D) /\ Good(Commit("wireless"), D)
  BY Names, GoodCalls DEF Packages, SetupNet, SetupWifi, UplinkNet, UplinkWifi
<1>2. /\ Good(Delete("network", SetupNet), D) /\ Good(Delete("dhcp", SetupNet), D)
      /\ Good(Delete("wireless", SetupWifi), D)
      /\ Good(Delete("network", UplinkNet), D) /\ Good(Delete("wireless", UplinkWifi), D)
  BY Names, GoodCalls DEF Packages, SetupNet, SetupWifi, UplinkNet, UplinkWifi
<1>3. \A b \in BOOLEAN : Good(Call("uplink_active", "", Section(""), [active |-> b]), D)
  BY GoodOne DEF GoodCall
<1>4. Good(CommitAndReload, D)
  BY <1>1, GoodReload, GoodConcat DEF CommitAndReload
<1>5. Good(EnableSetup, D)
  BY <1>1, <1>4, GoodConcat DEF EnableSetup
<1>6. Good(EnableUplink, D)
  BY <1>1, <1>3, <1>4, GoodConcat DEF EnableUplink
<1>7. Good(IF uplinkActive
           THEN Delete("wireless", UplinkWifi)
                  \o Delete("network", UplinkNet)
                  \o Call("uplink_active", "", Section(""), [active |-> FALSE])
           ELSE <<>>, D)
  BY <1>2, <1>3, GoodConcat, GoodEmpty
<1>8. Good(Disable(uplinkActive), D)
  BY <1>2, <1>4, <1>7, GoodConcat DEF Disable
<1> QED
  BY <1>5, <1>6, <1>8

\* What a function takes from a finite set is finite.
LEMMA FiniteImage ==
  ASSUME NEW f, IsFiniteSet(DOMAIN f), f = [x \in DOMAIN f |-> f[x]]
  PROVE  IsFiniteSet({f[x] : x \in DOMAIN f})
<1> DEFINE T == {f[x] : x \in DOMAIN f}
<1>1. f \in Surjection(DOMAIN f, T)
  BY DEF Surjection
<1> QED
  BY <1>1, FS_Surjection

RadiosAreListed == Radios \in Seq(ToSet(Radios))

LEMMA FiniteBands ==
  ASSUME RadiosAreListed
  PROVE  IsFiniteSet({b \in {BandOf[Radios[i]] : i \in DOMAIN Radios} : HasBand(b)})
<1> DEFINE f == [i \in DOMAIN Radios |-> BandOf[Radios[i]]]
<1>1. DOMAIN Radios = 1 .. Len(Radios) /\ Len(Radios) \in Nat
  BY DEF RadiosAreListed
<1>2. IsFiniteSet(DOMAIN f)
  BY <1>1, FS_Interval
<1>3. IsFiniteSet({f[i] : i \in DOMAIN f})
  <2> HIDE DEF f
  <2>1. f = [i \in DOMAIN f |-> f[i]]
    BY DEF f
  <2> QED
    BY <1>2, <2>1, FiniteImage
<1>4. {f[i] : i \in DOMAIN f} = {BandOf[Radios[i]] : i \in DOMAIN Radios}
  OBVIOUS
<1> DEFINE T == {BandOf[Radios[i]] : i \in DOMAIN Radios}
<1>5. IsFiniteSet(T)
  BY <1>3, <1>4
<1> HIDE DEF T
<1>6. {b \in T : HasBand(b)} \subseteq T
  OBVIOUS
<1>7. IsFiniteSet({b \in T : HasBand(b)})
  BY <1>5, <1>6, FS_Subset
<1> QED
  BY <1>7 DEF T

\* The access points of a profile: finitely many, the primary one and secondary
\* ones.
LEMMA FiniteTargets ==
  ASSUME RadiosAreListed, NEW profile, NEW apRadio
  PROVE  LET targets == ResolveAPTargets(profile, apRadio)
         IN  /\ IsFiniteSet(DOMAIN targets)
             /\ targets = [s \in DOMAIN targets |-> targets[s]]
             /\ DOMAIN targets =
                  {APSection} \cup {SecondaryAP(b) : b \in ExtraBands(profile, apRadio)}
<1> DEFINE B == ExtraBands(profile, apRadio)
           targets == ResolveAPTargets(profile, apRadio)
           f == [b \in B |-> SecondaryAP(b)]
<1>1. B \subseteq {b \in {BandOf[Radios[i]] : i \in DOMAIN Radios} : HasBand(b)}
  BY DEF ExtraBands, HasBand, RadiosFor
<1>2. IsFiniteSet(DOMAIN f)
  BY <1>1, FiniteBands, FS_Subset
<1>3. IsFiniteSet({f[b] : b \in DOMAIN f})
  <2>1. f = [b \in DOMAIN f |-> f[b]]
    OBVIOUS
  <2> HIDE DEF f
  <2> QED
    BY <1>2, <2>1, FiniteImage
<1>4. {f[b] : b \in DOMAIN f} = {SecondaryAP(b) : b \in B}
  OBVIOUS
<1>5. IsFiniteSet({APSection})
  BY FS_Singleton
<1>6. DOMAIN targets = {APSection} \cup {SecondaryAP(b) : b \in B}
  BY DEF ResolveAPTargets
<1> DEFINE S == {SecondaryAP(b) : b \in B}
<1>s. IsFiniteSet(S)
  BY <1>3, <1>4
<1>7. IsFiniteSet(DOMAIN targets)
  <2>1. DOMAIN targets = {APSection} \cup S
    BY <1>6
  <2> HIDE DEF S, targets
  <2> QED
    BY <1>5, <1>s, <2>1, FS_Union
<1>8. targets = [s \in DOMAIN targets |-> targets[s]]
  BY DEF ResolveAPTargets
<1> QED
  BY <1>6, <1>7, <1>8

\* The radios that a profile enables
UsedRadios(profile, device) ==
  LET apRadio == ResolveRadio(profile)
      targets == ResolveAPTargets(profile, apRadio)
  IN  {targets[s] : s \in DOMAIN targets}
        \cup IF profile.mesh THEN {ResolveMeshRadio(profile, device, apRadio)} ELSE {}

LEMMA FiniteUsed ==
  ASSUME RadiosAreListed, NEW profile, NEW device
  PROVE  IsFiniteSet(UsedRadios(profile, device))
<1> DEFINE targets == ResolveAPTargets(profile, ResolveRadio(profile))
           A == {targets[s] : s \in DOMAIN targets}
           B == IF profile.mesh THEN {ResolveMeshRadio(profile, device, ResolveRadio(profile))} ELSE {}
<1>1. IsFiniteSet(DOMAIN targets) /\ targets = [s \in DOMAIN targets |-> targets[s]]
  BY FiniteTargets
<1>2. IsFiniteSet(A)
  <2> HIDE DEF targets
  <2> QED
    BY <1>1, FiniteImage
<1>3. IsFiniteSet(B)
  BY FS_Singleton, FS_EmptySet
<1>4. IsFiniteSet(A \cup B)
  <2> HIDE DEF A, B
  <2> QED
    BY <1>2, <1>3, FS_Union
<1> QED
  BY <1>4 DEF UsedRadios

\* A profile's program in its parts
Targets(profile) == ResolveAPTargets(profile, ResolveRadio(profile))
MeshRadio(profile, device) == ResolveMeshRadio(profile, device, ResolveRadio(profile))
AuthorTargets(profile) ==
  ForEach(1, [s \in DOMAIN Targets(profile) |-> AuthorAP(s, Targets(profile)[s])])
Prune(profile) ==
  Call("prune", "wireless", APSection, [keep |-> DOMAIN Targets(profile)])
EnableRadios(profile, device) ==
  ForEach(1, [r \in UsedRadios(profile, device) |-> EnableRadio(r)])

LEMMA ProfileParts ==
  ASSUME NEW profile, NEW device, NEW standby
  PROVE  ApplyProfile(profile, device, standby) =
           AuthorBatman(profile, device)
             \o AuthorMesh(profile, device, MeshRadio(profile, device), standby)
             \o (AuthorTargets(profile) \o Prune(profile))
             \o EnableRadios(profile, device)
             \o Activate(BatmanOn(profile, device))
             \o Verify(profile, device)
BY DEF ApplyProfile, MeshRadio, AuthorAPs, AuthorTargets, Prune, EnableRadios, Targets,
       UsedRadios

LEMMA ManyCalls ==
  ASSUME RadiosAreListed, NEW profile, NEW device, NEW D
  PROVE  /\ Good(AuthorTargets(profile), D) /\ Good(Prune(profile), D)
         /\ Good(EnableRadios(profile, device), D)
<1>1. /\ IsFiniteSet(DOMAIN Targets(profile))
      /\ DOMAIN Targets(profile) =
           {APSection}
             \cup {SecondaryAP(b) : b \in ExtraBands(profile, ResolveRadio(profile))}
  BY FiniteTargets DEF Targets
<1>2. \A s \in DOMAIN Targets(profile) : s # LanDevice
  BY <1>1, Names DEF APSection
<1>3. \A s \in DOMAIN Targets(profile) :
         LET P == AuthorAP(s, Targets(profile)[s]) IN Good(P, D) /\ Len(P) = 1
  BY <1>2, GoodCalls DEF AuthorAP, Packages
<1>4. Good(AuthorTargets(profile), D)
  <2> DEFINE body == [s \in DOMAIN Targets(profile) |-> AuthorAP(s, Targets(profile)[s])]
  <2>1. /\ IsFiniteSet(DOMAIN body)
        /\ \A x \in DOMAIN body : Good(body[x], D) /\ Len(body[x]) = 1
    BY <1>1, <1>3
  <2> HIDE DEF body
  <2>2. Good(ForEach(1, body), D)
    BY <2>1, GoodForEach
  <2> QED
    BY <2>2 DEF AuthorTargets, body
<1>5. Good(Prune(profile), D)
  BY GoodOne DEF GoodCall, Prune
<1>6. Good(EnableRadios(profile, device), D)
  <2> DEFINE body == [r \in UsedRadios(profile, device) |-> EnableRadio(r)]
  <2>1. /\ IsFiniteSet(DOMAIN body)
        /\ \A x \in DOMAIN body : Good(body[x], D) /\ Len(body[x]) = 1
    BY FiniteUsed, GoodCalls, Names DEF EnableRadio, Packages
  <2> HIDE DEF body
  <2>2. Good(ForEach(1, body), D)
    BY <2>1, GoodForEach
  <2> QED
    BY <2>2 DEF EnableRadios, body
<1> QED
  BY <1>4, <1>5, <1>6

LEMMA GoodProfile ==
  ASSUME RadiosAreListed, NEW D, NEW profile, NEW device, NEW standby,
         profile.mesh \in BOOLEAN,
         IsFiniteSet(device.wired), device.wired \subseteq D, Iface \in D
  PROVE  Good(ApplyProfile(profile, device, standby), D)
<1>1. Good(AuthorBatman(profile, device), D)
  BY GoodBatmanApply, GoodEmpty DEF AuthorBatman
<1>2. Good(AuthorMesh(profile, device, MeshRadio(profile, device), standby), D)
  BY Names, GoodCalls, GoodEmpty DEF AuthorMesh, Packages, MeshSection
<1>3. Good(AuthorTargets(profile) \o Prune(profile), D)
  BY ManyCalls, GoodConcat
<1>4. Good(EnableRadios(profile, device), D)
  BY ManyCalls
<1>5. Good(Activate(BatmanOn(profile, device)), D)
  <2>1. Good(Commit("network"), D) /\ Good(Commit("wireless"), D) /\ Good(Reload, D)
    BY GoodCalls, GoodReload DEF Packages
  <2>2. Good(IF BatmanOn(profile, device) THEN Commit("network") ELSE <<>>, D)
    BY <2>1, GoodEmpty
  <2> QED
    BY <2>1, <2>2, GoodConcat DEF Activate
<1>6. Good(Verify(profile, device), D)
  <2>1. Good(IF BatmanOn(profile, device)
             THEN Call("batman_up", "network", IfaceSection, NoArg) ELSE <<>>, D)
    BY GoodOne, GoodEmpty DEF GoodCall
  <2>2. Good(Call("mesh_up", "wireless", MeshSection, [mesh |-> profile.mesh]), D)
    BY GoodOne DEF GoodCall
  <2> QED
    BY <2>1, <2>2, GoodConcat DEF Verify
<1> QED
  BY <1>1, <1>2, <1>3, <1>4, <1>5, <1>6, ProfileParts, GoodConcat

-----------------------------------------------------------------------------
(* What is staged is committed, and what is committed is read *)

Does(P, k, effect) == IsProgram(P) /\ Net(P, k) = effect

LEMMA DoesConcat ==
  ASSUME NEW P, NEW Q, NEW k, NEW e, NEW f, Does(P, k, e), Does(Q, k, f)
  PROVE  Does(P \o Q, k, Later(e, f))
BY NetConcat, Concat DEF Does

\* P stages in the packages S at most, and commits and reloads nothing.
OnlyStages(P, S) ==
  /\ IsProgram(P)
  /\ \A c \in ToSet(P) :
       c.op \notin {"commit", "reload"} /\ (c.op \in Edits => c.pkg \in S)

LEMMA PackageEffects ==
  /\ \A c, p : Effect(c, Uncommitted(p)) =
       IF Stages(c, p) THEN "on"
       ELSE IF c.op = "commit" /\ c.pkg = p THEN "off" ELSE "none"
  /\ \A c, p : Effect(c, Unread(p)) =
       IF c.op = "commit" /\ c.pkg = p THEN "on"
       ELSE IF c.op = "reload" /\ c.pkg = p THEN "off" ELSE "none"
BY DEF Effect, TurnsOn, TurnsOff, Uncommitted, Unread, Fact

LEMMA OnlyStagesNet ==
  ASSUME NEW P, NEW S, OnlyStages(P, S)
  PROVE  /\ \A p : p \notin S => Does(P, Uncommitted(p), "none")
         /\ \A p : Does(P, Unread(p), "none")
<1>1. \A p : \A c \in ToSet(P) : Effect(c, Unread(p)) = "none"
  BY PackageEffects DEF OnlyStages
<1>2. \A p : p \notin S => \A c \in ToSet(P) : Effect(c, Uncommitted(p)) = "none"
  BY PackageEffects DEF OnlyStages, Stages
<1> QED
  BY <1>1, <1>2, NetNone DEF Does, OnlyStages

LEMMA OnlyStagesMany ==
  /\ \A S : OnlyStages(<<>>, S)
  /\ \A P, Q, S : OnlyStages(P, S) /\ OnlyStages(Q, S) => OnlyStages(P \o Q, S)
  /\ \A P, S, T : OnlyStages(P, S) /\ S \subseteq T => OnlyStages(P, T)
<1>1. ASSUME NEW P, NEW Q, NEW S, OnlyStages(P, S), OnlyStages(Q, S)
      PROVE  OnlyStages(P \o Q, S)
  <2>1. IsProgram(P \o Q) /\ ToSet(P \o Q) = ToSet(P) \cup ToSet(Q)
    BY <1>1, Concat DEF OnlyStages
  <2> QED
    BY <1>1, <2>1 DEF OnlyStages
<1>2. \A S : OnlyStages(<<>>, S)
  BY EmptyProgram DEF OnlyStages
<1>3. \A P, S, T : OnlyStages(P, S) /\ S \subseteq T => OnlyStages(P, T)
  BY DEF OnlyStages
<1> QED
  BY <1>1, <1>2, <1>3

LEMMA OnlyStagesEach ==
  ASSUME NEW n \in {1, 3, 4}, NEW body, NEW S, IsFiniteSet(DOMAIN body),
         \A x \in DOMAIN body : OnlyStages(body[x], S) /\ Len(body[x]) = n
  PROVE  OnlyStages(ForEach(n, body), S)
<1>1. \A x \in DOMAIN body : IsProgram(body[x]) /\ Len(body[x]) = n
  BY DEF OnlyStages
<1>2. BodyFacts(n, ForEach(n, body), body, Cardinality(DOMAIN body),
                SetToSeq(DOMAIN body))
  BY <1>1, ForEachCalls
<1> QED
  BY <1>2 DEF BodyFacts, OnlyStages

LEMMA OnlyStagesOne ==
  ASSUME NEW op, NEW pkg, NEW sec, NEW arg, op \notin {"commit", "reload"},
         NEW S, op \in Edits => pkg \in S
  PROVE  OnlyStages(Call(op, pkg, sec, arg), S)
<1> DEFINE c == [op |-> op, pkg |-> pkg, sec |-> sec, arg |-> arg]
           P == Call(op, pkg, sec, arg)
<1>1. IsProgram(P) /\ ToSet(P) = {c}
  BY OneCall DEF Call
<1>2. c.op = op /\ c.pkg = pkg
  OBVIOUS
<1> HIDE DEF c, P
<1>3. OnlyStages(P, S)
  BY <1>1, <1>2 DEF OnlyStages
<1> QED
  BY <1>3 DEF P

LEMMA OnlyStagesCalls ==
  /\ \A S : \A pkg \in S : \A sec, arg :
       /\ OnlyStages(SetSection(pkg, sec, arg), S) /\ OnlyStages(Set(pkg, sec, arg), S)
       /\ OnlyStages(Delete(pkg, sec), S)
  /\ \A S, item : "network" \in S =>
       OnlyStages(AddListItem(item), S) /\ OnlyStages(DelListItem(item), S)
<1> USE DEF Edits
<1>1. \A S : \A pkg \in S : \A sec, arg :
         /\ OnlyStages(SetSection(pkg, sec, arg), S) /\ OnlyStages(Set(pkg, sec, arg), S)
         /\ OnlyStages(Delete(pkg, sec), S)
  <2> TAKE S
  <2> TAKE pkg \in S
  <2> TAKE sec, arg
  <2>1. OnlyStages(SetSection(pkg, sec, arg), S)
    BY OnlyStagesOne DEF SetSection
  <2>2. OnlyStages(Set(pkg, sec, arg), S)
    BY OnlyStagesOne DEF Set
  <2>3. OnlyStages(Delete(pkg, sec), S)
    BY OnlyStagesOne DEF Delete
  <2> QED
    BY <2>1, <2>2, <2>3
<1>2. \A S, item : "network" \in S =>
         OnlyStages(AddListItem(item), S) /\ OnlyStages(DelListItem(item), S)
  <2> SUFFICES ASSUME NEW S, NEW item, "network" \in S
               PROVE  OnlyStages(AddListItem(item), S) /\ OnlyStages(DelListItem(item), S)
    OBVIOUS
  <2>1. OnlyStages(AddListItem(item), S)
    BY OnlyStagesOne DEF AddListItem
  <2>2. OnlyStages(DelListItem(item), S)
    BY OnlyStagesOne DEF DelListItem
  <2> QED
    BY <2>1, <2>2
<1> QED
  BY <1>1, <1>2

LEMMA EndNet ==
  /\ \A pkg \in Packages : \A p :
       /\ Does(Commit(pkg), Uncommitted(p), IF p = pkg THEN "off" ELSE "none")
       /\ Does(Commit(pkg), Unread(p), IF p = pkg THEN "on" ELSE "none")
       /\ Does(ReloadPackage(pkg), Uncommitted(p), "none")
       /\ Does(ReloadPackage(pkg), Unread(p), IF p = pkg THEN "off" ELSE "none")
  /\ \A p \in Packages :
       Does(Reload, Uncommitted(p), "none") /\ Does(Reload, Unread(p), "off")
<1>1. ASSUME NEW pkg \in Packages, NEW p
      PROVE  /\ Does(Commit(pkg), Uncommitted(p), IF p = pkg THEN "off" ELSE "none")
             /\ Does(Commit(pkg), Unread(p), IF p = pkg THEN "on" ELSE "none")
             /\ Does(ReloadPackage(pkg), Uncommitted(p), "none")
             /\ Does(ReloadPackage(pkg), Unread(p), IF p = pkg THEN "off" ELSE "none")
  <2>1. IsProgram(Commit(pkg)) /\ IsProgram(ReloadPackage(pkg))
    <3>1. Good(Commit(pkg), {}) /\ Good(ReloadPackage(pkg), {})
      BY GoodCalls
    <3> QED
      BY <3>1 DEF Good
  <2> DEFINE c == [op |-> "commit", pkg |-> pkg, sec |-> Section(""), arg |-> NoArg]
             r == [op |-> "reload", pkg |-> pkg, sec |-> Section(""), arg |-> NoArg]
  <2>2. \A k : Net(Commit(pkg), k) = Effect(c, k) /\ Net(ReloadPackage(pkg), k) = Effect(r, k)
    <3> TAKE k
    <3>1. Net(Commit(pkg), k) = Effect(c, k)
      <4>1. \A sec, arg : Net(Call("commit", pkg, sec, arg), k) =
                 Effect([op |-> "commit", pkg |-> pkg, sec |-> sec, arg |-> arg], k)
        BY NetOfCall
      <4> QED
        BY <4>1, Zenon DEF Commit
    <3>2. Net(ReloadPackage(pkg), k) = Effect(r, k)
      <4>1. \A sec, arg : Net(Call("reload", pkg, sec, arg), k) =
                 Effect([op |-> "reload", pkg |-> pkg, sec |-> sec, arg |-> arg], k)
        BY NetOfCall
      <4> QED
        BY <4>1, Zenon DEF ReloadPackage
    <3> QED
      BY <3>1, <3>2
  <2>3. c.op = "commit" /\ c.pkg = pkg /\ r.op = "reload" /\ r.pkg = pkg
    OBVIOUS
  <2> HIDE DEF c, r
  <2>4. ~Stages(c, p) /\ ~Stages(r, p)
    BY <2>3 DEF Stages, Edits
  <2> QED
    BY <2>1, <2>2, <2>3, <2>4, PackageEffects DEF Does
<1>2. ASSUME NEW p \in Packages
      PROVE  Does(Reload, Uncommitted(p), "none") /\ Does(Reload, Unread(p), "off")
  <2> DEFINE A == ReloadPackage("network")
             B == ReloadPackage("wireless")
             C == ReloadPackage("dhcp")
             off(pkg) == IF p = pkg THEN "off" ELSE "none"
  <2>1. /\ Does(A, Uncommitted(p), "none") /\ Does(A, Unread(p), off("network"))
        /\ Does(B, Uncommitted(p), "none") /\ Does(B, Unread(p), off("wireless"))
        /\ Does(C, Uncommitted(p), "none") /\ Does(C, Unread(p), off("dhcp"))
    BY <1>1 DEF Packages
  <2> HIDE DEF A, B, C, off
  <2>2. /\ Does(A \o B \o C, Uncommitted(p), Later(Later("none", "none"), "none"))
        /\ Does(A \o B \o C, Unread(p),
                Later(Later(off("network"), off("wireless")), off("dhcp")))
    BY <2>1, DoesConcat
  <2> QED
    BY <2>2 DEF Reload, A, B, C, off, Later, Packages
<1> QED
  BY <1>1, <1>2

\* A program that commits and reloads what it stages
Complete(P) ==
  /\ IsProgram(P)
  /\ \A p \in Packages : Net(P, Uncommitted(p)) # "on" /\ Net(P, Unread(p)) = "off"

LEMMA CompleteIsSome == \A P : Complete(P) => P # <<>>
BY NetEmpty DEF Complete, Packages

\* The parts of a complete program: what it stages, commits, reloads, and what
\* comes after that
LEMMA CompleteParts ==
  ASSUME NEW A, NEW B, NEW V, NEW S, OnlyStages(A, S), IsProgram(B), OnlyStages(V, {}),
         \A p \in Packages :
           /\ Net(B, Uncommitted(p)) # "on"
           /\ p \in S => Net(B, Uncommitted(p)) = "off"
  PROVE  Complete(A \o B \o Reload) /\ Complete(A \o B \o Reload \o V)
<1> SUFFICES ASSUME NEW p \in Packages
             PROVE  /\ IsProgram(A \o B \o Reload) /\ IsProgram(A \o B \o Reload \o V)
                    /\ Net(A \o B \o Reload, Uncommitted(p)) # "on"
                    /\ Net(A \o B \o Reload \o V, Uncommitted(p)) # "on"
                    /\ Net(A \o B \o Reload, Unread(p)) = "off"
                    /\ Net(A \o B \o Reload \o V, Unread(p)) = "off"
  BY DEF Complete, Packages
<1>1. /\ IsProgram(A) /\ IsProgram(V) /\ IsProgram(Reload)
      /\ Net(Reload, Uncommitted(p)) = "none" /\ Net(Reload, Unread(p)) = "off"
      /\ Net(V, Uncommitted(p)) = "none" /\ Net(V, Unread(p)) = "none"
      /\ p \notin S => Net(A, Uncommitted(p)) = "none"
  <2>1. IsProgram(A) /\ IsProgram(V)
    BY DEF OnlyStages
  <2>2. /\ Does(V, Uncommitted(p), "none") /\ Does(V, Unread(p), "none")
        /\ p \notin S => Does(A, Uncommitted(p), "none")
    BY OnlyStagesNet
  <2>3. Does(Reload, Uncommitted(p), "none") /\ Does(Reload, Unread(p), "off")
    BY EndNet
  <2> QED
    BY <2>1, <2>2, <2>3 DEF Does
<1>2. /\ IsProgram(A \o B) /\ IsProgram(A \o B \o Reload) /\ IsProgram(A \o B \o Reload \o V)
  BY <1>1, Concat
<1>3. \A k : /\ Net(A \o B, k) = Later(Net(A, k), Net(B, k))
             /\ Net(A \o B \o Reload, k) = Later(Net(A \o B, k), Net(Reload, k))
             /\ Net(A \o B \o Reload \o V, k) = Later(Net(A \o B \o Reload, k), Net(V, k))
  BY <1>1, <1>2, NetConcat
<1>4. Net(A \o B, Uncommitted(p)) # "on"
  BY <1>1, <1>3 DEF Later
<1> QED
  BY <1>1, <1>2, <1>3, <1>4 DEF Later

LEMMA BatmanStages ==
  ASSUME NEW W, IsFiniteSet(W)
  PROVE  OnlyStages(BatmanApply(W), {"network"}) /\ OnlyStages(Teardown(W), {"network"})
<1> DEFINE S == {"network"}
<1>0. "network" \in S
  OBVIOUS
<1> HIDE DEF S
<1>1. \A p : OnlyStages(EnslavePort(p), S) /\ OnlyStages(ReleasePort(p), S)
  <2> TAKE p
  <2> DEFINE A == SetSection("network", WiredHardif(p), [master |-> Iface, device |-> p])
             B == DelListItem(p)
             C == Call("unique_mac", "network", DeviceSection(p), [name |-> p])
             E == AddListItem(p)
             F == Delete("network", WiredHardif(p))
             G == Delete("network", DeviceSection(p))
  <2>1. OnlyStages(C, S)
    BY <1>0, OnlyStagesOne
  <2>2. /\ OnlyStages(A, S) /\ OnlyStages(B, S) /\ OnlyStages(E, S)
        /\ OnlyStages(F, S) /\ OnlyStages(G, S)
    BY <1>0, OnlyStagesCalls
  <2> HIDE DEF A, B, C, E, F, G
  <2>3. OnlyStages(A \o B \o C, S)
    BY <2>1, <2>2, OnlyStagesMany
  <2>4. OnlyStages(B \o E \o F \o G, S)
    BY <2>2, OnlyStagesMany
  <2> QED
    BY <2>3, <2>4 DEF EnslavePort, ReleasePort, A, B, C, E, F, G
<1>2. \A p : Len(EnslavePort(p)) = 3 /\ Len(ReleasePort(p)) = 4
  <2> TAKE p
  <2> DEFINE D == {p}
  <2>1. p \in D
    OBVIOUS
  <2> HIDE DEF D
  <2>2. Good(EnslavePort(p), D) /\ Len(EnslavePort(p)) = 3
    BY <2>1, GoodEnslave
  <2>3. Good(ReleasePort(p), D) /\ Len(ReleasePort(p)) = 4
    BY <2>1, GoodRelease
  <2> QED
    BY <2>2, <2>3
<1>3. /\ OnlyStages(ForEach(3, [p \in W |-> EnslavePort(p)]), S)
      /\ OnlyStages(ForEach(4, [p \in W |-> ReleasePort(p)]), S)
  <2> DEFINE f == [p \in W |-> EnslavePort(p)]
             g == [p \in W |-> ReleasePort(p)]
  <2>1. /\ IsFiniteSet(DOMAIN f) /\ IsFiniteSet(DOMAIN g)
        /\ \A x \in DOMAIN f : OnlyStages(f[x], S) /\ Len(f[x]) = 3
        /\ \A x \in DOMAIN g : OnlyStages(g[x], S) /\ Len(g[x]) = 4
    BY <1>1, <1>2
  <2> HIDE DEF f, g
  <2>2. OnlyStages(ForEach(3, f), S) /\ OnlyStages(ForEach(4, g), S)
    BY <2>1, OnlyStagesEach
  <2> QED
    BY <2>2 DEF f, g
<1>4. OnlyStages(BatmanApply(W), S)
  BY <1>0, <1>3, OnlyStagesCalls, OnlyStagesMany DEF BatmanApply
<1>5. OnlyStages(Teardown(W), S)
  BY <1>0, <1>3, OnlyStagesCalls, OnlyStagesMany DEF Teardown
<1> QED
  BY <1>4, <1>5 DEF S

LEMMA TargetsStage ==
  ASSUME RadiosAreListed, NEW profile, NEW device
  PROVE  /\ OnlyStages(AuthorTargets(profile), {"wireless"})
         /\ OnlyStages(Prune(profile), {"wireless"})
         /\ OnlyStages(EnableRadios(profile, device), {"wireless"})
<1> DEFINE S == {"wireless"}
           f == [s \in DOMAIN Targets(profile) |-> AuthorAP(s, Targets(profile)[s])]
           g == [r \in UsedRadios(profile, device) |-> EnableRadio(r)]
<1>0. "wireless" \in S
  OBVIOUS
<1> HIDE DEF S
<1>1. \A s, r : /\ OnlyStages(AuthorAP(s, r), S) /\ Len(AuthorAP(s, r)) = 1
                /\ OnlyStages(EnableRadio(r), S) /\ Len(EnableRadio(r)) = 1
  <2>1. \A pkg, sec, arg : Len(SetSection(pkg, sec, arg)) = 1 /\ Len(Set(pkg, sec, arg)) = 1
    BY DEF SetSection, Set, Call
  <2> QED
    BY <1>0, <2>1, OnlyStagesCalls DEF AuthorAP, EnableRadio
<1>2. /\ IsFiniteSet(DOMAIN f) /\ IsFiniteSet(DOMAIN g)
      /\ \A x \in DOMAIN f : OnlyStages(f[x], S) /\ Len(f[x]) = 1
      /\ \A x \in DOMAIN g : OnlyStages(g[x], S) /\ Len(g[x]) = 1
  BY <1>1, FiniteTargets, FiniteUsed DEF Targets
<1> HIDE DEF f, g
<1>3. OnlyStages(ForEach(1, f), S) /\ OnlyStages(ForEach(1, g), S)
  BY <1>2, OnlyStagesEach
<1>4. OnlyStages(Prune(profile), S)
  BY <1>0, OnlyStagesOne DEF Prune
<1> QED
  BY <1>3, <1>4 DEF f, g, S, AuthorTargets, EnableRadios

LEMMA ProfileIsComplete ==
  ASSUME RadiosAreListed, NEW profile, NEW device, NEW standby,
         IsFiniteSet(device.wired)
  PROVE  Complete(ApplyProfile(profile, device, standby))
<1> DEFINE on == BatmanOn(profile, device)
           S == IF on THEN {"network", "wireless"} ELSE {"wireless"}
           A == AuthorBatman(profile, device)
                  \o AuthorMesh(profile, device, MeshRadio(profile, device), standby)
                  \o (AuthorTargets(profile) \o Prune(profile))
                  \o EnableRadios(profile, device)
           B == (IF on THEN Commit("network") ELSE <<>>) \o Commit("wireless")
           V == Verify(profile, device)
<1>1. OnlyStages(A, S)
  <2>1. OnlyStages(AuthorBatman(profile, device), S)
    <3>1. OnlyStages(BatmanApply(device.wired), {"network"})
      BY BatmanStages
    <3> QED
      BY <3>1, OnlyStagesMany DEF AuthorBatman
  <2>2. OnlyStages(AuthorMesh(profile, device, MeshRadio(profile, device), standby), S)
    BY OnlyStagesCalls, OnlyStagesMany DEF AuthorMesh
  <2>3. /\ OnlyStages(AuthorTargets(profile), S) /\ OnlyStages(Prune(profile), S)
        /\ OnlyStages(EnableRadios(profile, device), S)
    <3>1. {"wireless"} \subseteq S
      OBVIOUS
    <3> HIDE DEF S
    <3> QED
      BY <3>1, TargetsStage, OnlyStagesMany
  <2> HIDE DEF S
  <2> QED
    BY <2>1, <2>2, <2>3, OnlyStagesMany
<1>2. IsProgram(B) /\ \A p \in Packages : /\ Net(B, Uncommitted(p)) # "on"
                                          /\ p \in S => Net(B, Uncommitted(p)) = "off"
  <2> DEFINE N == IF on THEN Commit("network") ELSE <<>>
             W == Commit("wireless")
  <2>1. \A p : /\ Does(N, Uncommitted(p), IF on /\ p = "network" THEN "off" ELSE "none")
               /\ Does(W, Uncommitted(p), IF p = "wireless" THEN "off" ELSE "none")
    BY EndNet, NetEmpty, EmptyProgram DEF Does, Packages
  <2> HIDE DEF N, W
  <2>2. \A p : Does(N \o W, Uncommitted(p),
                    Later(IF on /\ p = "network" THEN "off" ELSE "none",
                          IF p = "wireless" THEN "off" ELSE "none"))
    BY <2>1, DoesConcat
  <2> HIDE DEF on
  <2> QED
    BY <2>2 DEF Does, Later, N, W
<1>3. OnlyStages(V, {})
  <2>1. /\ OnlyStages(Call("batman_up", "network", IfaceSection, NoArg), {})
        /\ OnlyStages(Call("mesh_up", "wireless", MeshSection, [mesh |-> profile.mesh]), {})
    BY OnlyStagesOne DEF Edits
  <2> QED
    BY <2>1, OnlyStagesMany DEF Verify
<1>4. ApplyProfile(profile, device, standby) = A \o (B \o Reload) \o V
  BY ProfileParts DEF Activate
<1> HIDE DEF A, B, V, S, on
<1>5. Complete(A \o B \o Reload \o V)
  BY <1>1, <1>2, <1>3, CompleteParts
<1>6. A \o (B \o Reload) = A \o B \o Reload
  <2>1. IsProgram(A) /\ IsProgram(Reload)
    BY <1>1, EndNet DEF OnlyStages, Does, Packages
  <2> QED
    BY <1>2, <2>1, Associative
<1> QED
  BY <1>4, <1>5, <1>6

\* The commits of the packages in S
Commits(B, S) ==
  /\ IsProgram(B)
  /\ \A p \in Packages :
       /\ Net(B, Uncommitted(p)) # "on"
       /\ p \in S => Net(B, Uncommitted(p)) = "off"

LEMMA SomeCommits ==
  /\ Commits(Commit("wireless"), {"wireless"})
  /\ Commits(Commit("network") \o Commit("wireless"), {"network", "wireless"})
  /\ Commits(Commit("network") \o Commit("dhcp"), {"network", "dhcp"})
  /\ Commits(Commit("network") \o Commit("dhcp") \o Commit("wireless"), Packages)
<1> DEFINE N == Commit("network")
           W == Commit("wireless")
           D == Commit("dhcp")
           off(p, pkg) == IF p = pkg THEN "off" ELSE "none"
<1>1. \A p : /\ Does(N, Uncommitted(p), off(p, "network"))
             /\ Does(W, Uncommitted(p), off(p, "wireless"))
             /\ Does(D, Uncommitted(p), off(p, "dhcp"))
  BY EndNet DEF Packages
<1> HIDE DEF N, W, D, off
<1>2. \A p : /\ Does(N \o W, Uncommitted(p), Later(off(p, "network"), off(p, "wireless")))
             /\ Does(N \o D, Uncommitted(p), Later(off(p, "network"), off(p, "dhcp")))
  BY <1>1, DoesConcat
<1>3. \A p : Does(N \o D \o W, Uncommitted(p),
                  Later(Later(off(p, "network"), off(p, "dhcp")), off(p, "wireless")))
  BY <1>1, <1>2, DoesConcat
<1> QED
  BY <1>1, <1>2, <1>3 DEF Commits, Does, Later, Packages, N, W, D, off

LEMMA CompleteWith ==
  ASSUME NEW A, NEW B, NEW V, NEW S, OnlyStages(A, S), Commits(B, S), OnlyStages(V, {})
  PROVE  /\ Complete(A \o B \o Reload) /\ Complete(A \o B \o Reload \o V)
         /\ Complete(A \o (B \o Reload)) /\ Complete(A \o (B \o Reload) \o V)
<1>1. Complete(A \o B \o Reload) /\ Complete(A \o B \o Reload \o V)
  BY CompleteParts DEF Commits
<1>2. IsProgram(A) /\ IsProgram(B) /\ IsProgram(Reload)
  BY EndNet DEF OnlyStages, Commits, Does, Packages
<1>3. A \o (B \o Reload) = A \o B \o Reload
  BY <1>2, Associative
<1> QED
  BY <1>1, <1>3

LEMMA PostureIsComplete == \A role, found : Complete(ApplyPosture(role, found))
<1> TAKE role, found
<1> DEFINE S == {"network", "dhcp"}
           C == (IF found THEN DelListItem(Uplink) ELSE <<>>)
                  \o Set("network", Section("wan"), [disabled |-> "0"])
                  \o Set("dhcp", Section("lan"), [ignore |-> "0"])
           E == (IF found THEN AddListItem(Uplink) ELSE <<>>)
                  \o Set("network", Section("lan"), [proto |-> "dhcp"])
                  \o Set("network", Section("wan"), [disabled |-> "1"])
                  \o Set("dhcp", Section("lan"), [ignore |-> "1"])
           B == Commit("network") \o Commit("dhcp")
<1>0. Commits(B, S)
  BY SomeCommits
<1>1. "network" \in S /\ "dhcp" \in S
  OBVIOUS
<1> HIDE DEF S
<1>2. OnlyStages(C, S) /\ OnlyStages(E, S)
  BY <1>1, OnlyStagesCalls, OnlyStagesMany
<1>3. ApplySets = B \o Reload
  BY DEF ApplySets
<1> HIDE DEF C, E, B
<1>4. Complete(C \o (B \o Reload)) /\ Complete(E \o (B \o Reload))
  BY <1>0, <1>2, CompleteWith, OnlyStagesMany
<1> QED
  BY <1>3, <1>4 DEF ApplyPosture, ApplyController, ApplyBridgedDumbAP, C, E

LEMMA SetupIsComplete ==
  Complete(EnableSetup) /\ Complete(EnableUplink) /\ \A active : Complete(Disable(active))
<1> DEFINE B == Commit("network") \o Commit("dhcp") \o Commit("wireless")
           radio == Set("wireless", RadioSection(SetupRadio), [disabled |-> "0"])
           A1 == SetSection("network", SetupNet, [proto |-> "static"])
                   \o SetSection("dhcp", SetupNet, [interface |-> "ommsetup"])
                   \o SetSection("wireless", SetupWifi, [mode |-> "ap"]) \o radio
           A2 == SetSection("network", UplinkNet, [proto |-> "dhcp"])
                   \o SetSection("wireless", UplinkWifi, [mode |-> "sta"]) \o radio
           V == Call("uplink_active", "", Section(""), [active |-> TRUE])
           A3 == Delete("wireless", SetupWifi) \o Delete("network", SetupNet)
                   \o Delete("dhcp", SetupNet)
           A4 == Delete("wireless", UplinkWifi) \o Delete("network", UplinkNet)
                   \o Call("uplink_active", "", Section(""), [active |-> FALSE])
<1>0. Commits(B, Packages) /\ CommitAndReload = B \o Reload
  BY SomeCommits DEF CommitAndReload
<1>1. "network" \in Packages /\ "dhcp" \in Packages /\ "wireless" \in Packages
  BY DEF Packages
<1>r. OnlyStages(radio, Packages)
  BY <1>1, OnlyStagesCalls
<1> HIDE DEF radio
<1>2. OnlyStages(A1, Packages) /\ OnlyStages(A2, Packages) /\ OnlyStages(A3, Packages)
  <2>1. OnlyStages(A1, Packages)
    BY <1>1, <1>r, OnlyStagesCalls, OnlyStagesMany
  <2>2. OnlyStages(A2, Packages)
    BY <1>1, <1>r, OnlyStagesCalls, OnlyStagesMany
  <2>3. OnlyStages(A3, Packages)
    BY <1>1, OnlyStagesCalls, OnlyStagesMany
  <2> QED
    BY <2>1, <2>2, <2>3
<1>3. \A b : \A S : OnlyStages(Call("uplink_active", "", Section(""), [active |-> b]), S)
  <2> TAKE b
  <2> TAKE S
  <2>1. "uplink_active" \notin {"commit", "reload"} /\ "uplink_active" \notin Edits
    BY DEF Edits
  <2> QED
    BY <2>1, OnlyStagesOne
<1>4. OnlyStages(A4, Packages)
  <2> DEFINE P == Delete("wireless", UplinkWifi)
             Q == Delete("network", UplinkNet)
             R == Call("uplink_active", "", Section(""), [active |-> FALSE])
  <2>1. OnlyStages(P, Packages) /\ OnlyStages(Q, Packages) /\ OnlyStages(R, Packages)
    BY <1>1, <1>3, OnlyStagesCalls
  <2> HIDE DEF P, Q, R
  <2>2. OnlyStages(P \o Q \o R, Packages)
    BY <2>1, OnlyStagesMany
  <2> QED
    BY <2>2 DEF P, Q, R
<1>5. OnlyStages(V, {})
  BY <1>3
<1>6. EnableSetup = A1 \o (B \o Reload) /\ EnableUplink = A2 \o (B \o Reload) \o V
  BY <1>0 DEF EnableSetup, EnableUplink, radio
<1>7. \A active : Disable(active) = A3 \o (IF active THEN A4 ELSE <<>>) \o (B \o Reload)
  BY <1>0 DEF Disable
<1> HIDE DEF A1, A2, A3, A4, B, V
<1>8. \A active : OnlyStages(A3 \o (IF active THEN A4 ELSE <<>>), Packages)
  BY <1>2, <1>4, OnlyStagesMany
<1>9. Complete(EnableSetup) /\ Complete(EnableUplink)
  BY <1>0, <1>2, <1>5, <1>6, CompleteWith
<1>10. ASSUME NEW active
       PROVE  Complete(Disable(active))
  <2> DEFINE A == A3 \o (IF active THEN A4 ELSE <<>>)
  <2>1. OnlyStages(A, Packages) /\ Disable(active) = A \o (B \o Reload)
    BY <1>7, <1>8
  <2> HIDE DEF A
  <2> QED
    BY <1>0, <1>5, <2>1, CompleteWith
<1> QED
  BY <1>9, <1>10

LEMMA VerdictsAreComplete ==
  /\ \A device : IsFiniteSet(device.wired) => Complete(BatmanFallback(device))
  /\ Complete(Degrade) /\ \A state : OnlyStages(SetBackhaulState(state), {})
<1>1. ASSUME NEW device, IsFiniteSet(device.wired)
      PROVE  Complete(BatmanFallback(device))
  <2> DEFINE S == {"network", "wireless"}
             A == Set("wireless", MeshSection, [network |-> Section("lan")])
                    \o Teardown(device.wired)
             B == Commit("network") \o Commit("wireless")
             N == Commit("network")
             W == Commit("wireless")
  <2>1. OnlyStages(A, S)
    <3>1. OnlyStages(Teardown(device.wired), {"network"})
      BY <1>1, BatmanStages
    <3>2. {"network"} \subseteq S /\ "wireless" \in S
      OBVIOUS
    <3> HIDE DEF S
    <3> QED
      BY <3>1, <3>2, OnlyStagesCalls, OnlyStagesMany
  <2>2. Commits(B, S)
    BY SomeCommits
  <2>3. BatmanFallback(device) = A \o N \o W \o Reload
    BY DEF BatmanFallback
  <2>4. B = N \o W
    OBVIOUS
  <2>5. IsProgram(N) /\ IsProgram(W)
    BY EndNet DEF Does, Packages
  <2> HIDE DEF A, B, S, N, W
  <2>6. A \o B = A \o N \o W
    <3>1. IsProgram(A)
      BY <2>1 DEF OnlyStages
    <3> QED
      BY <2>4, <2>5, <3>1, Associative
  <2>7. Complete(A \o B \o Reload)
    BY <2>1, <2>2, CompleteWith, OnlyStagesMany
  <2> QED
    BY <2>3, <2>6, <2>7
<1>2. Complete(Degrade)
  <2> DEFINE A == Delete("wireless", MeshSection)
             B == Commit("wireless")
             S == {"wireless"}
  <2>1. "wireless" \in S
    OBVIOUS
  <2> HIDE DEF S
  <2>2. OnlyStages(A, S)
    BY <2>1, OnlyStagesCalls
  <2>3. Commits(B, S)
    BY SomeCommits DEF S
  <2> HIDE DEF A, B
  <2>4. Complete(A \o B \o Reload)
    BY <2>2, <2>3, CompleteWith, OnlyStagesMany
  <2> QED
    BY <2>4 DEF Degrade, A, B
<1>3. \A state : OnlyStages(SetBackhaulState(state), {})
  BY OnlyStagesOne DEF SetBackhaulState, Edits
<1> QED
  BY <1>1, <1>2, <1>3

\* Parts of programs: they turn on nothing that they do not turn off again.
Closed(P) ==
  /\ IsProgram(P)
  /\ \A p \in Packages : Net(P, Uncommitted(p)) # "on" /\ Net(P, Unread(p)) # "on"

LEMMA NetValues ==
  ASSUME NEW P, NEW k, IsProgram(P)
  PROVE  Net(P, k) \in {"on", "off", "none"}
<1>1. CASE Net(P, k) = "none"
  BY <1>1
<1>2. CASE Net(P, k) # "none"
  <2>1. PICK i : Decides(P, k, i)
    BY <1>2, NetDecided
  <2>2. Net(P, k) = Effect(P[i], k)
    BY <2>1, NetDecided
  <2> QED
    BY <2>2 DEF Effect
<1> QED
  BY <1>1, <1>2

LEMMA ClosedParts ==
  /\ Closed(<<>>)
  /\ \A P : Complete(P) => Closed(P)
  /\ \A P : OnlyStages(P, {}) => Closed(P)
  /\ \A P, Q : Closed(P) /\ Closed(Q) => Closed(P \o Q)
<1>1. Closed(<<>>)
  BY NetEmpty, EmptyProgram DEF Closed
<1>2. \A P : Complete(P) => Closed(P)
  BY DEF Closed, Complete
<1>3. ASSUME NEW P, OnlyStages(P, {})
      PROVE  Closed(P)
  <2>1. \A p : Does(P, Uncommitted(p), "none") /\ Does(P, Unread(p), "none")
    BY <1>3, OnlyStagesNet
  <2> QED
    BY <1>3, <2>1 DEF Does, Closed, OnlyStages
<1>4. ASSUME NEW P, NEW Q, Closed(P), Closed(Q)
      PROVE  Closed(P \o Q)
  <2>1. \A k : Net(P \o Q, k) = Later(Net(P, k), Net(Q, k))
    BY <1>4, NetConcat DEF Closed
  <2>2. IsProgram(P \o Q)
    BY <1>4, Concat DEF Closed
  <2> QED
    BY <1>4, <2>1, <2>2 DEF Closed, Later
<1> QED
  BY <1>1, <1>2, <1>3, <1>4

\* What is left of a closed program after its first call
LEMMA ClosedTail ==
  ASSUME NEW P, Closed(P), P # <<>>
  PROVE  /\ Closed(Tail(P))
         /\ \A p \in Packages :
              /\ Stages(Head(P), p) => Net(Tail(P), Uncommitted(p)) = "off"
              /\ Head(P).op = "commit" /\ Head(P).pkg = p =>
                   Net(Tail(P), Unread(p)) = "off"
              /\ Net(P, Uncommitted(p)) = "off" =>
                   \/ Net(Tail(P), Uncommitted(p)) = "off"
                   \/ Head(P).op = "commit" /\ Head(P).pkg = p
              /\ Net(P, Unread(p)) = "off" =>
                   \/ Net(Tail(P), Unread(p)) = "off"
                   \/ Head(P).op = "reload" /\ Head(P).pkg = p
<1>1. /\ IsProgram(Tail(P))
      /\ \A k : Net(P, k) = Later(Effect(Head(P), k), Net(Tail(P), k))
      /\ \A k : Net(Tail(P), k) \in {"on", "off", "none"}
  <2>1. IsProgram(P) /\ IsProgram(Tail(P))
    BY HeadTail DEF Closed
  <2> QED
    BY <2>1, NetHeadTail, NetValues
<1>2. ASSUME NEW p \in Packages
      PROVE  /\ Net(Tail(P), Uncommitted(p)) # "on" /\ Net(Tail(P), Unread(p)) # "on"
             /\ Stages(Head(P), p) => Net(Tail(P), Uncommitted(p)) = "off"
             /\ Head(P).op = "commit" /\ Head(P).pkg = p =>
                  Net(Tail(P), Unread(p)) = "off"
             /\ Net(P, Uncommitted(p)) = "off" =>
                  \/ Net(Tail(P), Uncommitted(p)) = "off"
                  \/ Head(P).op = "commit" /\ Head(P).pkg = p
             /\ Net(P, Unread(p)) = "off" =>
                  \/ Net(Tail(P), Unread(p)) = "off"
                  \/ Head(P).op = "reload" /\ Head(P).pkg = p
  <2>1. Net(P, Uncommitted(p)) # "on" /\ Net(P, Unread(p)) # "on"
    BY DEF Closed
  <2>2. /\ Net(P, Uncommitted(p)) =
             Later(Effect(Head(P), Uncommitted(p)), Net(Tail(P), Uncommitted(p)))
        /\ Net(P, Unread(p)) = Later(Effect(Head(P), Unread(p)), Net(Tail(P), Unread(p)))
        /\ Net(Tail(P), Uncommitted(p)) \in {"on", "off", "none"}
        /\ Net(Tail(P), Unread(p)) \in {"on", "off", "none"}
    BY <1>1
  <2> QED
    BY <2>1, <2>2, PackageEffects DEF Later
<1> QED
  BY <1>1, <1>2 DEF Closed

-----------------------------------------------------------------------------
(* What a program leaves alone *)

\* P touches no sections but those with the names in S, and no member of the LAN
\* bridge but those in L; and it records nothing.
Footprint(P, S, L) ==
  /\ IsProgram(P)
  /\ \A c \in ToSet(P) :
       /\ c.op \in {"section", "set", "delete", "unique_mac"} =>
            <<c.pkg, c.sec[1]>> \in S
       /\ c.op \in {"add_item", "del_item"} => c.arg.item \in L
       /\ c.op \notin {"prune", "batman_up", "mesh_up", "uplink_active", "backhaul_state"}

BatmanNames ==
  {<<"network", "bat0">>, <<"network", "bat0_mesh">>, <<"network", "bat0_">>,
   <<"network", "dev_">>}
MeshNames == {<<"wireless", "omm_mesh">>}
APNames == {<<"wireless", "omm_ap">>, <<"wireless", "omm_ap_">>}
RadioNames == {<<"wireless", "radio">>}
PostureNames == {<<"network", "lan">>, <<"network", "wan">>, <<"dhcp", "lan">>}
SetupNames ==
  {<<"network", "ommsetup">>, <<"dhcp", "ommsetup">>, <<"wireless", "omm_setup">>}
UplinkNames == {<<"network", "ommuplink">>, <<"wireless", "omm_uplink">>}

\* What a program has to name to turn a fact about a section, or about a member,
\* on or off
FootprintFacts(P, S, L) ==
  /\ \A p, s : <<p, s[1]>> \notin S =>
       /\ Does(P, Exists(p, s), "none")
       /\ \A o, v : Does(P, HasOption(p, s, o, v), "none")
  /\ \A d : d \notin L => Does(P, Bridged(d), "none")
  /\ \A x : Does(P, Recorded(x), "none")
  /\ Does(P, UplinkKnown, "none") /\ Does(P, Unverified, "none")

\* The effect of a call, on each kind of fact
LEMMA ExistsEffect ==
  \A c, p, s :
    /\ Effect(c, Exists(p, s)) = "on" <=> c.op = "section" /\ c.pkg = p /\ c.sec = s
    /\ Effect(c, Exists(p, s)) = "off" <=>
         /\ ~(c.op = "section" /\ c.pkg = p /\ c.sec = s)
         /\ c.pkg = p
         /\ \/ c.op = "delete" /\ c.sec = s
            \/ c.op = "prune" /\ s \in SecondaryAPs \ c.arg.keep
    /\ Effect(c, Exists(p, s)) \in {"on", "off", "none"}
<1> TAKE c, p, s
<1>1. TurnsOn(c, Exists(p, s)) <=> c.op = "section" /\ c.pkg = p /\ c.sec = s
  BY DEF TurnsOn, Exists, Fact
<1>2. TurnsOff(c, Exists(p, s)) <=>
        /\ c.pkg = p
        /\ \/ c.op = "delete" /\ c.sec = s
           \/ c.op = "prune" /\ s \in SecondaryAPs \ c.arg.keep
  BY DEF TurnsOff, Removes, Exists, Fact
<1> QED
  BY <1>1, <1>2 DEF Effect

LEMMA OptionEffect ==
  \A c, p, s, o, v :
    Effect(c, HasOption(p, s, o, v)) # "none" =>
      /\ c.pkg = p
      /\ c.op = "prune" \/ (c.op \in {"section", "set", "delete"} /\ c.sec = s)
<1> TAKE c, p, s
<1> TAKE o, v
<1>1. TurnsOn(c, HasOption(p, s, o, v)) =>
        c.pkg = p /\ c.op \in {"section", "set"} /\ c.sec = s
  BY DEF TurnsOn, Writes, HasOption, Fact
<1>2. TurnsOff(c, HasOption(p, s, o, v)) =>
        /\ c.pkg = p
        /\ c.op = "prune" \/ (c.op \in {"section", "set", "delete"} /\ c.sec = s)
  BY DEF TurnsOff, Writes, Removes, HasOption, Fact
<1> QED
  BY <1>1, <1>2 DEF Effect

LEMMA MemberEffect ==
  \A c, d :
    /\ Effect(c, Bridged(d)) = "on" <=> c.op = "add_item" /\ c.arg.item = d
    /\ Effect(c, Bridged(d)) = "off" <=> c.op = "del_item" /\ c.arg.item = d
    /\ Effect(c, Bridged(d)) \in {"on", "off", "none"}
<1> TAKE c, d
<1>1. TurnsOn(c, Bridged(d)) <=> c.op = "add_item" /\ c.arg.item = d
  BY DEF TurnsOn, Bridged, Fact
<1>2. TurnsOff(c, Bridged(d)) <=> c.op = "del_item" /\ c.arg.item = d
  BY DEF TurnsOff, Bridged, Fact
<1> QED
  BY <1>1, <1>2 DEF Effect

LEMMA RecordEffect ==
  \A c :
    /\ \A x : Effect(c, Recorded(x)) # "none" => c.op \in {"backhaul_state", "mesh_up"}
    /\ Effect(c, UplinkKnown) # "none" => c.op = "uplink_active"
    /\ Effect(c, Unverified) # "none" => c.op = "mesh_up"
<1> TAKE c
<1>1. \A x : Effect(c, Recorded(x)) # "none" => c.op \in {"backhaul_state", "mesh_up"}
  BY DEF Effect, TurnsOn, TurnsOff, Recorded, Fact
<1>2. Effect(c, UplinkKnown) # "none" => c.op = "uplink_active"
  BY DEF Effect, TurnsOn, TurnsOff, UplinkKnown, Fact
<1>3. Effect(c, Unverified) # "none" => c.op = "mesh_up"
  BY DEF Effect, TurnsOn, TurnsOff, Unverified, Fact
<1> QED
  BY <1>1, <1>2, <1>3

LEMMA FootprintNet ==
  ASSUME NEW P, NEW S, NEW L, Footprint(P, S, L)
  PROVE  FootprintFacts(P, S, L)
<1>0. IsProgram(P)
  BY DEF Footprint
<1>1. ASSUME NEW p, NEW s, <<p, s[1]>> \notin S
      PROVE  /\ \A c \in ToSet(P) : Effect(c, Exists(p, s)) = "none"
             /\ \A o, v : \A c \in ToSet(P) : Effect(c, HasOption(p, s, o, v)) = "none"
  <2>1. \A c \in ToSet(P) :
          /\ ~(c.op \in {"section", "set", "delete"} /\ c.pkg = p /\ c.sec = s)
          /\ c.op # "prune"
    BY <1>1 DEF Footprint
  <2>2. \A c \in ToSet(P) : Effect(c, Exists(p, s)) = "none"
    BY <2>1, ExistsEffect
  <2>3. \A o, v : \A c \in ToSet(P) : Effect(c, HasOption(p, s, o, v)) = "none"
    BY <2>1, OptionEffect
  <2> QED
    BY <2>2, <2>3
<1>2. \A d : d \notin L => \A c \in ToSet(P) : Effect(c, Bridged(d)) = "none"
  BY MemberEffect DEF Footprint
<1>3. /\ \A x : \A c \in ToSet(P) : Effect(c, Recorded(x)) = "none"
      /\ \A c \in ToSet(P) :
           Effect(c, UplinkKnown) = "none" /\ Effect(c, Unverified) = "none"
  BY RecordEffect DEF Footprint
<1> QED
  BY <1>0, <1>1, <1>2, <1>3, NetNone DEF FootprintFacts, Does

LEMMA FootprintMany ==
  /\ \A S, L : Footprint(<<>>, S, L)
  /\ \A P, Q, S, L : Footprint(P, S, L) /\ Footprint(Q, S, L) => Footprint(P \o Q, S, L)
  /\ \A P, S, L, T, M : Footprint(P, S, L) /\ S \subseteq T /\ L \subseteq M =>
       Footprint(P, T, M)
<1>1. ASSUME NEW P, NEW Q, NEW S, NEW L, Footprint(P, S, L), Footprint(Q, S, L)
      PROVE  Footprint(P \o Q, S, L)
  <2>1. IsProgram(P \o Q) /\ ToSet(P \o Q) = ToSet(P) \cup ToSet(Q)
    BY <1>1, Concat DEF Footprint
  <2> QED
    BY <1>1, <2>1 DEF Footprint
<1>2. \A S, L : Footprint(<<>>, S, L)
  BY EmptyProgram DEF Footprint
<1>3. \A P, S, L, T, M : Footprint(P, S, L) /\ S \subseteq T /\ L \subseteq M =>
        Footprint(P, T, M)
  BY DEF Footprint
<1> QED
  BY <1>1, <1>2, <1>3

LEMMA FootprintEach ==
  ASSUME NEW n \in {1, 3, 4}, NEW body, NEW S, NEW L, IsFiniteSet(DOMAIN body),
         \A x \in DOMAIN body : Footprint(body[x], S, L) /\ Len(body[x]) = n
  PROVE  Footprint(ForEach(n, body), S, L)
<1>1. \A x \in DOMAIN body : IsProgram(body[x]) /\ Len(body[x]) = n
  BY DEF Footprint
<1>2. BodyFacts(n, ForEach(n, body), body, Cardinality(DOMAIN body),
                SetToSeq(DOMAIN body))
  BY <1>1, ForEachCalls
<1> QED
  BY <1>2 DEF BodyFacts, Footprint

LEMMA FootprintOne ==
  ASSUME NEW op, NEW pkg, NEW sec, NEW arg, NEW S, NEW L,
         op \in {"section", "set", "delete", "unique_mac"} => <<pkg, sec[1]>> \in S,
         op \in {"add_item", "del_item"} => arg.item \in L,
         op \notin {"prune", "batman_up", "mesh_up", "uplink_active", "backhaul_state"}
  PROVE  Footprint(Call(op, pkg, sec, arg), S, L)
<1> DEFINE c == [op |-> op, pkg |-> pkg, sec |-> sec, arg |-> arg]
           P == Call(op, pkg, sec, arg)
<1>1. IsProgram(P) /\ ToSet(P) = {c}
  BY OneCall DEF Call
<1>2. c.op = op /\ c.pkg = pkg /\ c.sec = sec /\ c.arg = arg
  OBVIOUS
<1> HIDE DEF c, P
<1>3. Footprint(P, S, L)
  BY <1>1, <1>2 DEF Footprint
<1> QED
  BY <1>3 DEF P

\* The same of the calls, the program that reloads included
LEMMA FootprintCalls ==
  ASSUME NEW S, NEW L
  PROVE  /\ \A pkg, sec, arg : <<pkg, sec[1]>> \in S =>
              /\ Footprint(SetSection(pkg, sec, arg), S, L)
              /\ Footprint(Set(pkg, sec, arg), S, L)
              /\ Footprint(Delete(pkg, sec), S, L)
         /\ \A item \in L : /\ Footprint(AddListItem(item), S, L)
                            /\ Footprint(DelListItem(item), S, L)
         /\ \A pkg : Footprint(Commit(pkg), S, L) /\ Footprint(ReloadPackage(pkg), S, L)
         /\ Footprint(Reload, S, L)
<1>1. ASSUME NEW pkg, NEW sec, NEW arg, <<pkg, sec[1]>> \in S
      PROVE  /\ Footprint(SetSection(pkg, sec, arg), S, L)
             /\ Footprint(Set(pkg, sec, arg), S, L)
             /\ Footprint(Delete(pkg, sec), S, L)
  <2>1. Footprint(SetSection(pkg, sec, arg), S, L)
    BY <1>1, FootprintOne DEF SetSection
  <2>2. Footprint(Set(pkg, sec, arg), S, L)
    BY <1>1, FootprintOne DEF Set
  <2>3. Footprint(Delete(pkg, sec), S, L)
    BY <1>1, FootprintOne DEF Delete
  <2> QED
    BY <2>1, <2>2, <2>3
<1>2. ASSUME NEW item \in L
      PROVE  Footprint(AddListItem(item), S, L) /\ Footprint(DelListItem(item), S, L)
  <2>1. Footprint(AddListItem(item), S, L)
    BY FootprintOne DEF AddListItem
  <2>2. Footprint(DelListItem(item), S, L)
    BY FootprintOne DEF DelListItem
  <2> QED
    BY <2>1, <2>2
<1>3. ASSUME NEW pkg
      PROVE  Footprint(Commit(pkg), S, L) /\ Footprint(ReloadPackage(pkg), S, L)
  <2>1. Footprint(Commit(pkg), S, L)
    BY FootprintOne DEF Commit
  <2>2. Footprint(ReloadPackage(pkg), S, L)
    BY FootprintOne DEF ReloadPackage
  <2> QED
    BY <2>1, <2>2
<1>4. Footprint(Reload, S, L)
  BY <1>3, FootprintMany DEF Reload
<1> QED
  BY <1>1, <1>2, <1>3, <1>4

LEMMA BatmanFootprint ==
  ASSUME NEW W, IsFiniteSet(W), NEW L, W \subseteq L, Iface \in L
  PROVE  /\ Footprint(BatmanApply(W), BatmanNames, L)
         /\ Footprint(Teardown(W), BatmanNames, L)
<1> DEFINE S == BatmanNames
<1>0. /\ \A p : <<"network", WiredHardif(p)[1]>> \in S
      /\ \A p : <<"network", DeviceSection(p)[1]>> \in S
      /\ <<"network", IfaceSection[1]>> \in S /\ <<"network", MeshHardif[1]>> \in S
  BY DEF BatmanNames, WiredHardif, DeviceSection, IfaceSection, MeshHardif, Section,
         Named, Iface
<1> HIDE DEF S
<1>1. ASSUME NEW p \in L
      PROVE  /\ Footprint(EnslavePort(p), S, L) /\ Len(EnslavePort(p)) = 3
             /\ Footprint(ReleasePort(p), S, L) /\ Len(ReleasePort(p)) = 4
  <2> DEFINE A == SetSection("network", WiredHardif(p), [master |-> Iface, device |-> p])
             B == DelListItem(p)
             C == Call("unique_mac", "network", DeviceSection(p), [name |-> p])
             E == AddListItem(p)
             F == Delete("network", WiredHardif(p))
             G == Delete("network", DeviceSection(p))
  <2>1. Footprint(C, S, L)
    BY <1>0, FootprintOne
  <2>2. /\ Footprint(A, S, L) /\ Footprint(B, S, L) /\ Footprint(E, S, L)
        /\ Footprint(F, S, L) /\ Footprint(G, S, L)
    BY <1>0, <1>1, FootprintCalls
  <2> HIDE DEF A, B, C, E, F, G
  <2>3. Footprint(A \o B \o C, S, L)
    BY <2>1, <2>2, FootprintMany
  <2>4. Footprint(B \o E \o F \o G, S, L)
    BY <2>2, FootprintMany
  <2>5. Len(EnslavePort(p)) = 3 /\ Len(ReleasePort(p)) = 4
    BY <1>1, GoodEnslave, GoodRelease
  <2> QED
    BY <2>3, <2>4, <2>5 DEF EnslavePort, ReleasePort, A, B, C, E, F, G
<1>2. /\ Footprint(ForEach(3, [p \in W |-> EnslavePort(p)]), S, L)
      /\ Footprint(ForEach(4, [p \in W |-> ReleasePort(p)]), S, L)
  <2> DEFINE f == [p \in W |-> EnslavePort(p)]
             g == [p \in W |-> ReleasePort(p)]
  <2>1. /\ IsFiniteSet(DOMAIN f) /\ IsFiniteSet(DOMAIN g)
        /\ \A x \in DOMAIN f : Footprint(f[x], S, L) /\ Len(f[x]) = 3
        /\ \A x \in DOMAIN g : Footprint(g[x], S, L) /\ Len(g[x]) = 4
    BY <1>1
  <2> HIDE DEF f, g
  <2>2. Footprint(ForEach(3, f), S, L) /\ Footprint(ForEach(4, g), S, L)
    BY <2>1, FootprintEach
  <2> QED
    BY <2>2 DEF f, g
<1>3. Footprint(BatmanApply(W), S, L)
  BY <1>0, <1>2, FootprintCalls, FootprintMany DEF BatmanApply
<1>4. Footprint(Teardown(W), S, L)
  BY <1>0, <1>2, FootprintCalls, FootprintMany DEF Teardown
<1> QED
  BY <1>3, <1>4 DEF S

LEMMA ProfileFootprint ==
  ASSUME RadiosAreListed, NEW profile, NEW device, NEW standby, NEW L
  PROVE  /\ \A radio : Footprint(AuthorMesh(profile, device, radio, standby), MeshNames, L)
         /\ Footprint(AuthorTargets(profile), APNames, L)
         /\ Footprint(EnableRadios(profile, device), RadioNames, L)
         /\ \A batman : Footprint(Activate(batman), {}, L)
<1>1. \A radio : Footprint(AuthorMesh(profile, device, radio, standby), MeshNames, L)
  <2>1. <<"wireless", MeshSection[1]>> \in MeshNames
    BY DEF MeshNames, MeshSection, Section, Named
  <2> QED
    BY <2>1, FootprintCalls, FootprintMany DEF AuthorMesh
<1>2. Footprint(AuthorTargets(profile), APNames, L)
  <2> DEFINE f == [s \in DOMAIN Targets(profile) |-> AuthorAP(s, Targets(profile)[s])]
  <2>1. /\ IsFiniteSet(DOMAIN Targets(profile))
        /\ DOMAIN Targets(profile) =
             {APSection}
               \cup {SecondaryAP(b) : b \in ExtraBands(profile, ResolveRadio(profile))}
    BY FiniteTargets DEF Targets
  <2>2. \A s \in DOMAIN Targets(profile) : <<"wireless", s[1]>> \in APNames
    <3>1. APSection[1] = "omm_ap" /\ \A b : SecondaryAP(b)[1] = "omm_ap_"
      BY DEF APSection, SecondaryAP, Section, Named
    <3>2. \A s \in DOMAIN Targets(profile) : s[1] \in {"omm_ap", "omm_ap_"}
      BY <2>1, <3>1
    <3> QED
      BY <3>2 DEF APNames
  <2>3. \A s \in DOMAIN Targets(profile) : \A r :
           Footprint(AuthorAP(s, r), APNames, L) /\ Len(AuthorAP(s, r)) = 1
    <3>1. \A s, r : Len(AuthorAP(s, r)) = 1
      BY DEF AuthorAP, SetSection, Call
    <3> QED
      BY <2>2, <3>1, FootprintCalls DEF AuthorAP
  <2>4. /\ IsFiniteSet(DOMAIN f)
        /\ \A x \in DOMAIN f : Footprint(f[x], APNames, L) /\ Len(f[x]) = 1
    BY <2>1, <2>3
  <2> HIDE DEF f
  <2>5. Footprint(ForEach(1, f), APNames, L)
    BY <2>4, FootprintEach
  <2> QED
    BY <2>5 DEF AuthorTargets, f
<1>3. Footprint(EnableRadios(profile, device), RadioNames, L)
  <2> DEFINE f == [r \in UsedRadios(profile, device) |-> EnableRadio(r)]
  <2>1. \A r : Footprint(EnableRadio(r), RadioNames, L) /\ Len(EnableRadio(r)) = 1
    <3>1. \A r : Len(EnableRadio(r)) = 1
      BY DEF EnableRadio, Set, Call
    <3>2. \A r : <<"wireless", RadioSection(r)[1]>> \in RadioNames
      BY DEF RadioNames, RadioSection, Named
    <3> QED
      BY <3>1, <3>2, FootprintCalls DEF EnableRadio
  <2>2. /\ IsFiniteSet(DOMAIN f)
        /\ \A x \in DOMAIN f : Footprint(f[x], RadioNames, L) /\ Len(f[x]) = 1
    BY <2>1, FiniteUsed
  <2> HIDE DEF f
  <2>3. Footprint(ForEach(1, f), RadioNames, L)
    BY <2>2, FootprintEach
  <2> QED
    BY <2>3 DEF EnableRadios, f
<1>4. \A batman : Footprint(Activate(batman), {}, L)
  BY FootprintCalls, FootprintMany DEF Activate
<1> QED
  BY <1>1, <1>2, <1>3, <1>4

\* A profile's program does what its parts do, the later ones winning.
LEMMA ProfileNet ==
  ASSUME RadiosAreListed, NEW profile, NEW device, NEW standby, NEW k,
         profile.mesh \in BOOLEAN, IsFiniteSet(device.wired)
  PROVE  Net(ApplyProfile(profile, device, standby), k) =
           Later(Later(Later(Later(Later(Net(AuthorBatman(profile, device), k),
             Net(AuthorMesh(profile, device, MeshRadio(profile, device), standby), k)),
             Later(Net(AuthorTargets(profile), k), Net(Prune(profile), k))),
             Net(EnableRadios(profile, device), k)),
             Net(Activate(BatmanOn(profile, device)), k)),
             Net(Verify(profile, device), k))
<1> DEFINE L == device.wired \cup {Iface}
           A == AuthorBatman(profile, device)
           B == AuthorMesh(profile, device, MeshRadio(profile, device), standby)
           C == AuthorTargets(profile)
           E == Prune(profile)
           F == EnableRadios(profile, device)
           G == Activate(BatmanOn(profile, device))
           H == Verify(profile, device)
<1>1. IsProgram(A)
  <2>1. Footprint(BatmanApply(device.wired), BatmanNames, L)
    BY BatmanFootprint
  <2> QED
    BY <2>1, EmptyProgram DEF AuthorBatman, Footprint
<1>2. IsProgram(B) /\ IsProgram(C) /\ IsProgram(F) /\ IsProgram(G)
  <2>1. Footprint(B, MeshNames, L) /\ Footprint(C, APNames, L)
        /\ Footprint(F, RadioNames, L) /\ Footprint(G, {}, L)
    BY ProfileFootprint
  <2> QED
    BY <2>1 DEF Footprint
<1>3. IsProgram(E)
  <2>1. Good(Prune(profile), L)
    BY ManyCalls
  <2> QED
    BY <2>1 DEF Good
<1>4. IsProgram(H)
  <2>1. IsProgram(Call("mesh_up", "wireless", MeshSection, [mesh |-> profile.mesh]))
    BY OneCall DEF Call
  <2>2. IsProgram(Call("batman_up", "network", IfaceSection, NoArg))
    BY OneCall DEF Call
  <2> QED
    BY <2>1, <2>2, EmptyProgram, Concat DEF Verify
<1>5. ApplyProfile(profile, device, standby) = A \o B \o (C \o E) \o F \o G \o H
  BY ProfileParts
<1> HIDE DEF A, B, C, E, F, G, H
<1>6. /\ IsProgram(A \o B) /\ IsProgram(C \o E) /\ IsProgram(A \o B \o (C \o E))
      /\ IsProgram(A \o B \o (C \o E) \o F) /\ IsProgram(A \o B \o (C \o E) \o F \o G)
  BY <1>1, <1>2, <1>3, Concat
<1>7. Net(A \o B \o (C \o E) \o F \o G \o H, k) =
        Later(Later(Later(Later(Later(Net(A, k), Net(B, k)),
          Later(Net(C, k), Net(E, k))), Net(F, k)), Net(G, k)), Net(H, k))
  BY <1>1, <1>2, <1>3, <1>4, <1>6, NetConcat
<1> QED
  BY <1>5, <1>7 DEF A, B, C, E, F, G, H

LEMMA PostureFootprint ==
  \A role, found : Footprint(ApplyPosture(role, found), PostureNames, {Uplink})
<1> TAKE role, found
<1> DEFINE S == PostureNames
           L == {Uplink}
<1>1. /\ <<"network", Section("lan")[1]>> \in S /\ <<"network", Section("wan")[1]>> \in S
      /\ <<"dhcp", Section("lan")[1]>> \in S /\ Uplink \in L
  BY DEF PostureNames, Section, Named
<1> HIDE DEF S, L
<1>2. Footprint(ApplySets, S, L)
  BY FootprintCalls, FootprintMany DEF ApplySets
<1>e. /\ Footprint(IF found THEN AddListItem(Uplink) ELSE <<>>, S, L)
      /\ Footprint(IF found THEN DelListItem(Uplink) ELSE <<>>, S, L)
  BY <1>1, FootprintCalls, FootprintMany
<1>3. Footprint(ApplyController(found), S, L)
  BY <1>1, <1>2, <1>e, FootprintCalls, FootprintMany DEF ApplyController
<1>4. Footprint(ApplyBridgedDumbAP(found), S, L)
  BY <1>1, <1>2, <1>e, FootprintCalls, FootprintMany DEF ApplyBridgedDumbAP
<1> QED
  BY <1>3, <1>4 DEF ApplyPosture, S, L

LEMMA SwitchFootprint ==
  /\ \A on : Footprint(Set("wireless", MeshSection,
                           [disabled |-> IF on THEN "0" ELSE "1"])
                         \o Commit("wireless") \o Reload, MeshNames, {})
  /\ Footprint(Degrade, MeshNames, {})
<1> DEFINE S == MeshNames
<1>1. <<"wireless", MeshSection[1]>> \in S
  BY DEF MeshNames, MeshSection, Section, Named
<1> HIDE DEF S
<1>2. \A on : Footprint(Set("wireless", MeshSection, [disabled |-> IF on THEN "0" ELSE "1"])
                          \o Commit("wireless") \o Reload, S, {})
  BY <1>1, FootprintCalls, FootprintMany
<1>3. Footprint(Degrade, S, {})
  BY <1>1, FootprintCalls, FootprintMany DEF Degrade
<1> QED
  BY <1>2, <1>3 DEF S

LEMMA FallbackFootprint ==
  ASSUME NEW device, IsFiniteSet(device.wired), NEW L, device.wired \subseteq L, Iface \in L
  PROVE  Footprint(BatmanFallback(device), BatmanNames \cup MeshNames, L)
<1> DEFINE S == BatmanNames \cup MeshNames
<1>1. <<"wireless", MeshSection[1]>> \in S /\ BatmanNames \subseteq S
  BY DEF MeshNames, MeshSection, Section, Named
<1>2. Footprint(Teardown(device.wired), BatmanNames, L)
  BY BatmanFootprint
<1> HIDE DEF S
<1>3. Footprint(Teardown(device.wired), S, L)
  BY <1>1, <1>2, FootprintMany
<1>4. Footprint(BatmanFallback(device), S, L)
  BY <1>1, <1>3, FootprintCalls, FootprintMany DEF BatmanFallback
<1> QED
  BY <1>4 DEF S

\* P never deletes the mesh.
KeepsMesh(P) ==
  /\ IsProgram(P)
  /\ \A c \in ToSet(P) :
       ~(c.op = "delete" /\ c.pkg = "wireless" /\ c.sec = MeshSection)

LEMMA KeepsMeshMany ==
  /\ KeepsMesh(<<>>)
  /\ \A P, Q : KeepsMesh(P) /\ KeepsMesh(Q) => KeepsMesh(P \o Q)
  /\ \A P : KeepsMesh(P) /\ P # <<>> => KeepsMesh(Tail(P))
  /\ \A P, S, L : Footprint(P, S, L) /\ <<"wireless", "omm_mesh">> \notin S => KeepsMesh(P)
<1>1. ASSUME NEW P, NEW Q, KeepsMesh(P), KeepsMesh(Q)
      PROVE  KeepsMesh(P \o Q)
  <2>1. IsProgram(P \o Q) /\ ToSet(P \o Q) = ToSet(P) \cup ToSet(Q)
    BY <1>1, Concat DEF KeepsMesh
  <2> QED
    BY <1>1, <2>1 DEF KeepsMesh
<1>2. \A P : KeepsMesh(P) /\ P # <<>> => KeepsMesh(Tail(P))
  BY HeadTail DEF KeepsMesh
<1>3. ASSUME NEW P, NEW S, NEW L, Footprint(P, S, L), <<"wireless", "omm_mesh">> \notin S
      PROVE  KeepsMesh(P)
  <2>1. MeshSection[1] = "omm_mesh"
    BY DEF MeshSection, Section, Named
  <2> QED
    BY <1>3, <2>1 DEF KeepsMesh, Footprint
<1>4. KeepsMesh(<<>>)
  BY EmptyProgram DEF KeepsMesh
<1> QED
  BY <1>1, <1>2, <1>3, <1>4

LEMMA KeepsMeshCall ==
  ASSUME NEW op, NEW pkg, NEW sec, NEW arg, op # "delete"
  PROVE  KeepsMesh(Call(op, pkg, sec, arg))
<1> DEFINE c == [op |-> op, pkg |-> pkg, sec |-> sec, arg |-> arg]
           P == Call(op, pkg, sec, arg)
<1>1. IsProgram(P) /\ ToSet(P) = {c} /\ c.op = op
  BY OneCall DEF Call
<1> HIDE DEF c, P
<1>2. KeepsMesh(P)
  BY <1>1 DEF KeepsMesh
<1> QED
  BY <1>2 DEF P

\* The only program that deletes it is the one of a mesh that did not come up.
LEMMA ProgramsKeepMesh ==
  /\ \A role, found : KeepsMesh(ApplyPosture(role, found))
  /\ \A on : KeepsMesh(Set("wireless", MeshSection,
                           [disabled |-> IF on THEN "0" ELSE "1"])
                         \o Commit("wireless") \o Reload)
  /\ \A state : KeepsMesh(SetBackhaulState(state))
  /\ \A device : IsFiniteSet(device.wired) => KeepsMesh(BatmanFallback(device))
<1>1. \A role, found : KeepsMesh(ApplyPosture(role, found))
  <2>1. <<"wireless", "omm_mesh">> \notin PostureNames
    BY DEF PostureNames
  <2> QED
    BY <2>1, PostureFootprint, KeepsMeshMany
<1>2. KeepsMesh(Commit("wireless")) /\ KeepsMesh(Commit("network")) /\ KeepsMesh(Reload)
  <2>1. \A pkg : Footprint(Commit(pkg), {}, {}) /\ Footprint(Reload, {}, {})
    BY FootprintCalls
  <2> QED
    BY <2>1, KeepsMeshMany
<1>3. \A pkg, sec, arg : KeepsMesh(Set(pkg, sec, arg))
  BY KeepsMeshCall DEF Set
<1>4. \A on : KeepsMesh(Set("wireless", MeshSection, [disabled |-> IF on THEN "0" ELSE "1"])
                          \o Commit("wireless") \o Reload)
  BY <1>2, <1>3, KeepsMeshMany
<1>5. \A state : KeepsMesh(SetBackhaulState(state))
  BY KeepsMeshCall DEF SetBackhaulState
<1>6. ASSUME NEW device, IsFiniteSet(device.wired)
      PROVE  KeepsMesh(BatmanFallback(device))
  <2>1. KeepsMesh(Teardown(device.wired))
    <3>1. Footprint(Teardown(device.wired), BatmanNames, device.wired \cup {Iface})
      BY <1>6, BatmanFootprint
    <3>2. <<"wireless", "omm_mesh">> \notin BatmanNames
      BY DEF BatmanNames
    <3> QED
      BY <3>1, <3>2, KeepsMeshMany
  <2> QED
    BY <1>2, <1>3, <2>1, KeepsMeshMany DEF BatmanFallback
<1> QED
  BY <1>1, <1>4, <1>5, <1>6

LEMMA ProfileKeepsMesh ==
  ASSUME RadiosAreListed, NEW profile, NEW device, NEW standby, IsFiniteSet(device.wired)
  PROVE  KeepsMesh(ApplyProfile(profile, device, standby))
<1> DEFINE L == device.wired \cup {Iface}
<1>1. KeepsMesh(AuthorBatman(profile, device))
  <2>1. Footprint(BatmanApply(device.wired), BatmanNames, L)
    BY BatmanFootprint
  <2>2. <<"wireless", "omm_mesh">> \notin BatmanNames
    BY DEF BatmanNames
  <2> QED
    BY <2>1, <2>2, KeepsMeshMany DEF AuthorBatman
<1>2. KeepsMesh(AuthorMesh(profile, device, MeshRadio(profile, device), standby))
  BY KeepsMeshCall, KeepsMeshMany DEF AuthorMesh, SetSection
<1>3. /\ KeepsMesh(AuthorTargets(profile)) /\ KeepsMesh(EnableRadios(profile, device))
      /\ KeepsMesh(Activate(BatmanOn(profile, device)))
  <2>1. /\ <<"wireless", "omm_mesh">> \notin APNames
        /\ <<"wireless", "omm_mesh">> \notin RadioNames
    BY DEF APNames, RadioNames
  <2> QED
    BY <2>1, ProfileFootprint, KeepsMeshMany
<1>4. KeepsMesh(Prune(profile))
  BY KeepsMeshCall DEF Prune
<1>5. KeepsMesh(Verify(profile, device))
  BY KeepsMeshCall, KeepsMeshMany DEF Verify
<1> QED
  BY <1>1, <1>2, <1>3, <1>4, <1>5, ProfileParts, KeepsMeshMany

LEMMA SetupKeepsMesh ==
  /\ KeepsMesh(EnableSetup) /\ KeepsMesh(EnableUplink)
  /\ \A active : KeepsMesh(Disable(active))
<1>1. \A pkg, sec, arg : KeepsMesh(SetSection(pkg, sec, arg)) /\ KeepsMesh(Set(pkg, sec, arg))
  BY KeepsMeshCall DEF SetSection, Set
<1>2. \A arg : KeepsMesh(Call("uplink_active", "", Section(""), arg))
  BY KeepsMeshCall
<1>3. KeepsMesh(CommitAndReload)
  <2>1. Footprint(CommitAndReload, {}, {})
    BY FootprintCalls, FootprintMany DEF CommitAndReload
  <2> QED
    BY <2>1, KeepsMeshMany
<1>4. \A pkg : \A sec \in {SetupWifi, SetupNet, UplinkWifi, UplinkNet} :
         KeepsMesh(Delete(pkg, sec))
  <2> TAKE pkg
  <2> TAKE sec \in {SetupWifi, SetupNet, UplinkWifi, UplinkNet}
  <2>1. Footprint(Delete(pkg, sec), {<<pkg, sec[1]>>}, {})
    BY FootprintCalls
  <2>2. sec[1] # "omm_mesh"
    <3>1. /\ SetupWifi[1] # "omm_mesh" /\ SetupNet[1] # "omm_mesh"
          /\ UplinkWifi[1] # "omm_mesh" /\ UplinkNet[1] # "omm_mesh"
      BY DEF SetupWifi, SetupNet, UplinkWifi, UplinkNet, Section, Named
    <3> QED
      BY <3>1
  <2> QED
    BY <2>1, <2>2, KeepsMeshMany
<1>5. KeepsMesh(EnableSetup)
  BY <1>1, <1>3, KeepsMeshMany DEF EnableSetup
<1>6. KeepsMesh(EnableUplink)
  BY <1>1, <1>2, <1>3, KeepsMeshMany DEF EnableUplink
<1>7. \A active : KeepsMesh(Disable(active))
  BY <1>2, <1>3, <1>4, KeepsMeshMany DEF Disable
<1> QED
  BY <1>5, <1>6, <1>7

-----------------------------------------------------------------------------
(* What becomes of a fact *)

\* Whether a fact that holds or not, as `holds` says, will hold after P
Final(P, k, holds) == IF Net(P, k) = "none" THEN holds ELSE Net(P, k) = "on"
After(c, k, holds) == IF Effect(c, k) = "none" THEN holds ELSE Effect(c, k) = "on"

LEMMA FinalEmpty == \A k, holds : Final(<<>>, k, holds) = holds
BY NetEmpty DEF Final

\* A call that is made is one less to come.
LEMMA FinalTail ==
  ASSUME NEW P, IsProgram(P), P # <<>>, NEW k, NEW holds
  PROVE  Final(P, k, holds) = Final(Tail(P), k, After(Head(P), k, holds))
<1>1. Net(P, k) = Later(Effect(Head(P), k), Net(Tail(P), k))
  BY NetHeadTail
<1>2. CASE Net(Tail(P), k) = "none"
  BY <1>1, <1>2 DEF Final, After, Later
<1>3. CASE Net(Tail(P), k) # "none"
  BY <1>1, <1>3 DEF Final, After, Later
<1> QED
  BY <1>2, <1>3

LEMMA FinalConcat ==
  ASSUME NEW P, NEW Q, IsProgram(P), IsProgram(Q), NEW k, NEW holds
  PROVE  Final(P \o Q, k, holds) = Final(Q, k, Final(P, k, holds))
<1>1. Net(P \o Q, k) = Later(Net(P, k), Net(Q, k))
  BY NetConcat
<1>2. CASE Net(Q, k) = "none"
  BY <1>1, <1>2 DEF Final, Later
<1>3. CASE Net(Q, k) # "none"
  BY <1>1, <1>3 DEF Final, Later
<1> QED
  BY <1>2, <1>3

-----------------------------------------------------------------------------
(* What a program has nothing to do with *)

\* Besides the names of sections there are those of the LAN bridge's members, of
\* the uplink's manager, of a profile's last steps, and of batmanFallback, which
\* stand for the calls that name no section.
Member(d) == <<"member", d>>
Known == <<"", "uplink">>
Application == <<"", "profile">>
Fallback == <<"", "batman">>

\* The call has nothing to do with any of the names in S.
Spares(c, S) ==
  /\ c.op \in {"section", "set", "delete", "unique_mac"} =>
       <<c.pkg, c.sec[1]>> \notin S
  /\ c.op \in {"add_item", "del_item"} => Member(c.arg.item) \notin S
  /\ c.op = "uplink_active" => Known \notin S
  /\ c.op \in {"prune", "mesh_up", "backhaul_state"} => Application \notin S
  /\ c.op = "batman_up" => Fallback \notin S

Avoids(P, S) == IsProgram(P) /\ \A c \in ToSet(P) : Spares(c, S)

LEMMA AvoidsConcat ==
  \A P, Q, S : Avoids(P, S) /\ Avoids(Q, S) => Avoids(P \o Q, S)
<1> SUFFICES ASSUME NEW P, NEW Q, NEW S, Avoids(P, S), Avoids(Q, S)
             PROVE  Avoids(P \o Q, S)
  OBVIOUS
<1>1. IsProgram(P \o Q) /\ ToSet(P \o Q) = ToSet(P) \cup ToSet(Q)
  BY Concat DEF Avoids
<1> QED
  BY <1>1 DEF Avoids

LEMMA AvoidsMany ==
  /\ \A S : Avoids(<<>>, S)
  /\ \A P, S : Avoids(P, S) /\ P # <<>> => Spares(Head(P), S) /\ Avoids(Tail(P), S)
  /\ \A P, S, T : Avoids(P, T) /\ S \subseteq T => Avoids(P, S)
<1>2. ASSUME NEW P, NEW S, Avoids(P, S), P # <<>>
      PROVE  Spares(Head(P), S) /\ Avoids(Tail(P), S)
  <2>1. IsProgram(Tail(P)) /\ ToSet(P) = {Head(P)} \cup ToSet(Tail(P))
    BY <1>2, HeadTail DEF Avoids
  <2> QED
    BY <1>2, <2>1 DEF Avoids
<1>3. \A P, S, T : Avoids(P, T) /\ S \subseteq T => Avoids(P, S)
  BY DEF Avoids, Spares
<1>4. \A S : Avoids(<<>>, S)
  BY EmptyProgram DEF Avoids
<1> QED
  BY <1>2, <1>3, <1>4

\* A program avoids what its footprint does not touch.
LEMMA AvoidsRest ==
  ASSUME NEW P, NEW T, NEW L, Footprint(P, T, L), NEW S, S \cap T = {},
         \A d \in L : Member(d) \notin S
  PROVE  Avoids(P, S)
BY DEF Footprint, Avoids, Spares

LEMMA AvoidsCall ==
  ASSUME NEW op, NEW pkg, NEW sec, NEW arg, NEW S,
         Spares([op |-> op, pkg |-> pkg, sec |-> sec, arg |-> arg], S)
  PROVE  Avoids(Call(op, pkg, sec, arg), S)
<1> DEFINE c == [op |-> op, pkg |-> pkg, sec |-> sec, arg |-> arg]
           P == Call(op, pkg, sec, arg)
<1>1. IsProgram(P) /\ ToSet(P) = {c}
  BY OneCall DEF Call
<1> HIDE DEF c, P
<1>3. Avoids(P, S)
  BY <1>1 DEF Avoids, c
<1> QED
  BY <1>3 DEF P

\* The same of each kind of call
LEMMA AvoidsCalls ==
  ASSUME NEW S
  PROVE  /\ \A pkg, sec, arg : <<pkg, sec[1]>> \notin S =>
              /\ Avoids(SetSection(pkg, sec, arg), S)
              /\ Avoids(Set(pkg, sec, arg), S)
              /\ Avoids(Delete(pkg, sec), S)
         /\ Known \notin S =>
              \A pkg, sec, arg : Avoids(Call("uplink_active", pkg, sec, arg), S)
         /\ Application \notin S =>
              \A pkg, sec, arg :
                /\ Avoids(Call("prune", pkg, sec, arg), S)
                /\ Avoids(Call("mesh_up", pkg, sec, arg), S)
                /\ Avoids(Call("backhaul_state", pkg, sec, arg), S)
         /\ Fallback \notin S =>
              \A pkg, sec, arg : Avoids(Call("batman_up", pkg, sec, arg), S)
<1>1. ASSUME NEW op \in {"section", "set", "delete"}, NEW pkg, NEW sec, NEW arg,
             <<pkg, sec[1]>> \notin S
      PROVE  Avoids(Call(op, pkg, sec, arg), S)
  BY <1>1, AvoidsCall DEF Spares
<1>2. ASSUME NEW op, NEW pkg, NEW sec, NEW arg,
             \/ op = "uplink_active" /\ Known \notin S
             \/ op \in {"prune", "mesh_up", "backhaul_state"} /\ Application \notin S
             \/ op = "batman_up" /\ Fallback \notin S
      PROVE  Avoids(Call(op, pkg, sec, arg), S)
  BY <1>2, AvoidsCall DEF Spares
<1>3. ASSUME NEW pkg, NEW sec, NEW arg, <<pkg, sec[1]>> \notin S
      PROVE  /\ Avoids(SetSection(pkg, sec, arg), S)
             /\ Avoids(Set(pkg, sec, arg), S)
             /\ Avoids(Delete(pkg, sec), S)
  BY <1>1, <1>3 DEF SetSection, Set, Delete
<1> QED
  BY <1>2, <1>3

\* The name of what a fact is about
KeyName(k) ==
  CASE k.kind \in {"exists", "option"} -> <<k.pkg, k.sec[1]>>
    [] k.kind = "bridged" -> Member(k.value)
    [] k.kind = "uplink" -> Known
    [] k.kind \in {"recorded", "unverified"} -> Application

Nameable(k) ==
  /\ k.kind \in {"exists", "option", "bridged", "uplink", "recorded", "unverified"}
  /\ k.kind \in {"exists", "option"} => k.sec \notin SecondaryAPs

LEMMA SparesEffect ==
  ASSUME NEW c, NEW S, Spares(c, S), NEW k, Nameable(k), KeyName(k) \in S
  PROVE  Effect(c, k) = "none"
<1>1. CASE k.kind = "exists"
  <2>1. KeyName(k) = <<k.pkg, k.sec[1]>>
    BY <1>1 DEF KeyName
  <2> QED
    BY <1>1, <2>1 DEF Effect, TurnsOn, TurnsOff, Removes, Spares, Nameable
<1>2. CASE k.kind = "option"
  <2>1. KeyName(k) = <<k.pkg, k.sec[1]>>
    BY <1>2 DEF KeyName
  <2> QED
    BY <1>2, <2>1 DEF Effect, TurnsOn, TurnsOff, Removes, Writes, Spares, Nameable
<1>3. CASE k.kind = "bridged"
  <2>1. KeyName(k) = Member(k.value)
    BY <1>3 DEF KeyName
  <2> QED
    BY <1>3, <2>1 DEF Effect, TurnsOn, TurnsOff, Spares
<1>4. CASE k.kind = "uplink"
  BY <1>4 DEF Effect, TurnsOn, TurnsOff, Spares, KeyName
<1>5. CASE k.kind \in {"recorded", "unverified"}
  BY <1>5 DEF Effect, TurnsOn, TurnsOff, Spares, KeyName
<1> QED
  BY <1>1, <1>2, <1>3, <1>4, <1>5 DEF Nameable

LEMMA AvoidsNet ==
  ASSUME NEW P, NEW S, Avoids(P, S), NEW k, Nameable(k), KeyName(k) \in S
  PROVE  Net(P, k) = "none"
BY SparesEffect, NetNone DEF Avoids

\* A profile has nothing to do with what is not batman's, the mesh's, the access
\* points' or the radios', and with batman's only where that is on.
LEMMA ProfileAvoids ==
  ASSUME RadiosAreListed, NEW profile, NEW device, NEW standby, IsFiniteSet(device.wired),
         NEW S, S \cap MeshNames = {}, S \cap APNames = {}, S \cap RadioNames = {},
         Application \notin S,
         BatmanOn(profile, device) =>
           /\ S \cap BatmanNames = {} /\ Fallback \notin S
           /\ \A d \in device.wired \cup {Iface} : Member(d) \notin S
  PROVE  Avoids(ApplyProfile(profile, device, standby), S)
<1> DEFINE L == device.wired \cup {Iface}
<1>1. Avoids(AuthorBatman(profile, device), S)
  <2>1. Footprint(BatmanApply(device.wired), BatmanNames, L)
    BY BatmanFootprint
  <2>2. BatmanOn(profile, device) => Avoids(BatmanApply(device.wired), S)
    BY <2>1, AvoidsRest
  <2> QED
    BY <2>2, AvoidsMany DEF AuthorBatman
<1>2. /\ Avoids(AuthorMesh(profile, device, MeshRadio(profile, device), standby), S)
      /\ Avoids(AuthorTargets(profile), S) /\ Avoids(EnableRadios(profile, device), S)
      /\ Avoids(Activate(BatmanOn(profile, device)), S)
  <2>1. /\ Footprint(AuthorMesh(profile, device, MeshRadio(profile, device), standby), MeshNames, {})
        /\ Footprint(AuthorTargets(profile), APNames, {})
        /\ Footprint(EnableRadios(profile, device), RadioNames, {})
        /\ Footprint(Activate(BatmanOn(profile, device)), {}, {})
    BY ProfileFootprint
  <2> QED
    BY <2>1, AvoidsRest
<1>3. Avoids(Prune(profile), S)
  BY AvoidsCalls DEF Prune
<1>4. Avoids(Verify(profile, device), S)
  <2>1. Avoids(Call("mesh_up", "wireless", MeshSection, [mesh |-> profile.mesh]), S)
    BY AvoidsCalls
  <2>2. BatmanOn(profile, device) =>
          Avoids(Call("batman_up", "network", IfaceSection, NoArg), S)
    BY AvoidsCalls
  <2> QED
    BY <2>1, <2>2, AvoidsMany, AvoidsConcat DEF Verify
<1> QED
  BY <1>1, <1>2, <1>3, <1>4, ProfileParts, AvoidsConcat

\* Nor have the programs that a profile's reads add.
LEMMA FallbackAvoids ==
  ASSUME NEW device, IsFiniteSet(device.wired),
         NEW S, S \cap MeshNames = {}, S \cap BatmanNames = {},
         \A d \in device.wired \cup {Iface} : Member(d) \notin S
  PROVE  Avoids(BatmanFallback(device), S)
<1> DEFINE L == device.wired \cup {Iface}
<1>1. Footprint(BatmanFallback(device), BatmanNames \cup MeshNames, L)
  BY FallbackFootprint
<1> QED
  BY <1>1, AvoidsRest

LEMMA VerdictsAvoid ==
  ASSUME NEW S
  PROVE  /\ S \cap MeshNames = {} => Avoids(Degrade, S)
         /\ Application \notin S => \A state : Avoids(SetBackhaulState(state), S)
<1>1. S \cap MeshNames = {} => Avoids(Degrade, S)
  BY SwitchFootprint, AvoidsRest
<1>2. Application \notin S => \A state : Avoids(SetBackhaulState(state), S)
  BY AvoidsCalls DEF SetBackhaulState
<1> QED
  BY <1>1, <1>2

LEMMA PostureAvoids ==
  ASSUME NEW S, S \cap PostureNames = {}, Member(Uplink) \notin S, NEW role, NEW found
  PROVE  Avoids(ApplyPosture(role, found), S)
BY PostureFootprint, AvoidsRest

\* The sections of the setup AP and of the uplink station, by their names
LEMMA SetupSectionNames ==
  /\ SetupNet[1] = "ommsetup" /\ SetupWifi[1] = "omm_setup"
  /\ UplinkNet[1] = "ommuplink" /\ UplinkWifi[1] = "omm_uplink"
  /\ \A x : RadioSection(x)[1] = "radio"
  /\ \A s \in SetupSections : <<s[1], s[2][1]>> \in SetupNames
  /\ \A s \in UplinkSections : <<s[1], s[2][1]>> \in UplinkNames
<1>1. /\ SetupNet[1] = "ommsetup" /\ SetupWifi[1] = "omm_setup"
      /\ UplinkNet[1] = "ommuplink" /\ UplinkWifi[1] = "omm_uplink"
      /\ \A x : RadioSection(x)[1] = "radio"
  BY DEF SetupNet, SetupWifi, UplinkNet, UplinkWifi, RadioSection, Section, Named
<1>2. \A s \in SetupSections : <<s[1], s[2][1]>> \in SetupNames
  BY <1>1 DEF SetupSections, SetupNames
<1>3. \A s \in UplinkSections : <<s[1], s[2][1]>> \in UplinkNames
  BY <1>1 DEF UplinkSections, UplinkNames
<1> QED
  BY <1>1, <1>2, <1>3

LEMMA EndingsAvoid == \A S : Avoids(CommitAndReload, S)
<1> TAKE S
<1>1. Footprint(CommitAndReload, {}, {})
  BY FootprintCalls, FootprintMany DEF CommitAndReload
<1> QED
  BY <1>1, AvoidsRest

LEMMA SetupAvoids ==
  ASSUME NEW S
  PROVE  /\ S \cap SetupNames = {} /\ S \cap RadioNames = {} => Avoids(EnableSetup, S)
         /\ S \cap UplinkNames = {} /\ S \cap RadioNames = {} /\ Known \notin S =>
              Avoids(EnableUplink, S)
         /\ S \cap SetupNames = {} /\ S \cap UplinkNames = {} /\ Known \notin S =>
              \A active : Avoids(Disable(active), S)
<1>1. /\ <<"network", SetupNet[1]>> \in SetupNames /\ <<"dhcp", SetupNet[1]>> \in SetupNames
      /\ <<"wireless", SetupWifi[1]>> \in SetupNames
      /\ <<"network", UplinkNet[1]>> \in UplinkNames
      /\ <<"wireless", UplinkWifi[1]>> \in UplinkNames
      /\ <<"wireless", RadioSection(SetupRadio)[1]>> \in RadioNames
  BY SetupSectionNames DEF SetupNames, UplinkNames, RadioNames
<1>2. Avoids(CommitAndReload, S)
  BY EndingsAvoid
<1>3. ASSUME S \cap SetupNames = {}, S \cap RadioNames = {}
      PROVE  Avoids(EnableSetup, S)
  <2>1. \A arg : /\ Avoids(SetSection("network", SetupNet, arg), S)
                 /\ Avoids(SetSection("dhcp", SetupNet, arg), S)
                 /\ Avoids(SetSection("wireless", SetupWifi, arg), S)
                 /\ Avoids(Set("wireless", RadioSection(SetupRadio), arg), S)
    BY <1>1, <1>3, AvoidsCalls
  <2> QED
    BY <1>2, <2>1, AvoidsConcat DEF EnableSetup
<1>5. ASSUME S \cap UplinkNames = {}, S \cap RadioNames = {}, Known \notin S
      PROVE  Avoids(EnableUplink, S)
  <2>1. \A arg : /\ Avoids(SetSection("network", UplinkNet, arg), S)
                 /\ Avoids(SetSection("wireless", UplinkWifi, arg), S)
                 /\ Avoids(Set("wireless", RadioSection(SetupRadio), arg), S)
    BY <1>1, <1>5, AvoidsCalls
  <2>2. \A arg : Avoids(Call("uplink_active", "", Section(""), arg), S)
    BY <1>5, AvoidsCalls
  <2> QED
    BY <1>2, <2>1, <2>2, AvoidsConcat DEF EnableUplink
<1>6. ASSUME S \cap SetupNames = {}, S \cap UplinkNames = {}, Known \notin S, NEW active
      PROVE  Avoids(Disable(active), S)
  <2>1. /\ Avoids(Delete("wireless", SetupWifi), S) /\ Avoids(Delete("network", SetupNet), S)
        /\ Avoids(Delete("dhcp", SetupNet), S) /\ Avoids(Delete("wireless", UplinkWifi), S)
        /\ Avoids(Delete("network", UplinkNet), S)
    BY <1>1, <1>6, AvoidsCalls
  <2> DEFINE A == IF active
                  THEN Delete("wireless", UplinkWifi)
                         \o Delete("network", UplinkNet)
                         \o Call("uplink_active", "", Section(""), [active |-> FALSE])
                  ELSE <<>>
  <2>2. Avoids(A, S)
    <3>0. Avoids(Call("uplink_active", "", Section(""), [active |-> FALSE]), S)
      BY <1>6, AvoidsCalls
    <3>1. Avoids(Delete("wireless", UplinkWifi) \o Delete("network", UplinkNet)
                   \o Call("uplink_active", "", Section(""), [active |-> FALSE]), S)
      BY <3>0, <2>1, AvoidsConcat
    <3>2. Avoids(<<>>, S)
      BY AvoidsMany
    <3> QED
      BY <3>1, <3>2
  <2> HIDE DEF A
  <2>3. Avoids(Delete("wireless", SetupWifi) \o Delete("network", SetupNet)
                 \o Delete("dhcp", SetupNet) \o A \o CommitAndReload, S)
    BY <1>2, <2>1, <2>2, AvoidsConcat
  <2> QED
    BY <2>3 DEF Disable, A
<1> QED
  BY <1>3, <1>5, <1>6

-----------------------------------------------------------------------------
(* The facts about the configuration that one author's programs decide *)

\* Facts that neither the failover nor a call that leaves something out decides
PlainKey(k) ==
  /\ k.pkg \in Packages
  /\ \/ /\ k.kind \in {"exists", "option"} /\ k.option # "disabled"
        /\ k.sec # LanDevice /\ k.sec[1] \notin {"dev_", "omm_ap_"}
     \/ k.kind = "bridged" /\ k.pkg = "network"

LEMMA PlainIsNameable == \A k : PlainKey(k) => Nameable(k)
<1>1. \A s \in SecondaryAPs : s[1] = "omm_ap_"
  BY Names DEF SecondaryAPs
<1> QED
  BY <1>1 DEF PlainKey, Nameable

\* What is known of the access point of a band, which a prune may remove
APKey(k) ==
  /\ k.kind \in {"exists", "option"} /\ k.option # "disabled"
  /\ k.pkg = "wireless" /\ k.sec \in SecondaryAPs

ConfigKey(k) == PlainKey(k) \/ APKey(k)

LEMMA ConfigKeyIs ==
  ASSUME NEW k, ConfigKey(k)
  PROVE  /\ k.pkg \in Packages
         /\ \/ /\ k.kind \in {"exists", "option"} /\ k.option # "disabled"
               /\ k.sec # LanDevice /\ k.sec[1] # "dev_"
            \/ k.kind = "bridged" /\ k.pkg = "network"
<1>1. \A s \in SecondaryAPs : s # LanDevice /\ s[1] # "dev_"
  BY Names DEF SecondaryAPs
<1> QED
  BY <1>1 DEF ConfigKey, PlainKey, APKey, Packages

LEMMA PlainStages ==
  ASSUME NEW c, NEW D, GoodCall(c, D), NEW k, ConfigKey(k), Effect(c, k) # "none"
  PROVE  Stages(c, k.pkg)
<1>1. CASE k.kind = "exists"
  BY <1>1 DEF Effect, TurnsOn, TurnsOff, Removes, Stages, Edits
<1>2. CASE k.kind = "option"
  BY <1>2 DEF Effect, TurnsOn, TurnsOff, Removes, Writes, Stages, Edits
<1>3. CASE k.kind = "bridged"
  BY <1>3, ConfigKeyIs DEF Effect, TurnsOn, TurnsOff, Stages, Edits, GoodCall
<1> QED
  BY <1>1, <1>2, <1>3, ConfigKeyIs

\* What a program that is closed does to a fact it does before it commits.
LEMMA CommitsLast ==
  ASSUME NEW P, NEW D, Good(P, D), Closed(P), NEW k, ConfigKey(k),
         Net(P, Uncommitted(k.pkg)) # "off"
  PROVE  Net(P, k) = "none"
<1>1. IsProgram(P) /\ Net(P, Uncommitted(k.pkg)) = "none"
  BY NetValues, ConfigKeyIs DEF Closed
<1>2. \A c \in ToSet(P) : Effect(c, Uncommitted(k.pkg)) = "none"
  BY <1>1, NetNone
<1>3. \A c \in ToSet(P) : ~Stages(c, k.pkg)
  BY <1>2, PackageEffects
<1>4. \A c \in ToSet(P) : Effect(c, k) = "none"
  BY <1>3, PlainStages DEF Good
<1> QED
  BY <1>1, <1>4, NetNone

LEMMA FinalInsert ==
  ASSUME NEW P, NEW Q, IsProgram(P), IsProgram(Q), NEW k, Net(P, k) = "none", NEW holds
  PROVE  Final(P \o Q, k, holds) = Final(Q, k, holds)
BY FinalConcat DEF Final

-----------------------------------------------------------------------------
(* The order of calls *)

\* The looks at what came up come last, the one at the mesh at the very end:
\* what follows a look is what it decides, and the other look.
Looks == {"batman_up", "mesh_up"}
LooksLast(P) ==
  \A i, j \in DOMAIN P : P[i].op \in Looks /\ i < j =>
    P[i].op = "batman_up" /\ P[j].op = "mesh_up"
NeverLooks(P) == IsProgram(P) /\ \A c \in ToSet(P) : c.op \notin Looks

LEMMA NeverLooksMany ==
  /\ NeverLooks(<<>>)
  /\ \A P, Q : NeverLooks(P) /\ NeverLooks(Q) => NeverLooks(P \o Q)
  /\ \A P, S, L : Footprint(P, S, L) => NeverLooks(P)
  /\ \A P, S : Avoids(P, S) /\ Application \in S /\ Fallback \in S => NeverLooks(P)
<1>1. ASSUME NEW P, NEW Q, NeverLooks(P), NeverLooks(Q)
      PROVE  NeverLooks(P \o Q)
  BY <1>1, Concat DEF NeverLooks
<1>2. NeverLooks(<<>>)
  BY EmptyProgram DEF NeverLooks
<1>3. \A P, S, L : Footprint(P, S, L) => NeverLooks(P)
  BY DEF Footprint, NeverLooks, Looks
<1>4. \A P, S : Avoids(P, S) /\ Application \in S /\ Fallback \in S => NeverLooks(P)
  BY DEF Avoids, Spares, NeverLooks, Looks
<1> QED
  BY <1>1, <1>2, <1>3, <1>4

LEMMA LooksLastMany ==
  /\ \A P : NeverLooks(P) => LooksLast(P)
  /\ \A P, Q : NeverLooks(P) /\ IsProgram(Q) /\ LooksLast(Q) => LooksLast(P \o Q)
  /\ \A P : IsProgram(P) /\ LooksLast(P) /\ P # <<>> =>
       /\ LooksLast(Tail(P))
       /\ Head(P).op = "mesh_up" => Tail(P) = <<>>
       /\ Head(P).op = "batman_up" => \A c \in ToSet(Tail(P)) : c.op = "mesh_up"
<1>d. \A P : IsProgram(P) =>
        /\ Len(P) \in Nat /\ DOMAIN P = 1 .. Len(P) /\ \A i \in 1 .. Len(P) : P[i] \in ToSet(P)
        /\ \A c \in ToSet(P) : \E i \in 1 .. Len(P) : P[i] = c
  BY DEF IsProgram, ToSet
<1>1. \A P : NeverLooks(P) => LooksLast(P)
  BY <1>d DEF NeverLooks, LooksLast
<1>2. ASSUME NEW P, NEW Q, NeverLooks(P), IsProgram(Q), LooksLast(Q)
      PROVE  LooksLast(P \o Q)
  <2>1. /\ IsProgram(P) /\ IsProgram(P \o Q)
        /\ Len(P) \in Nat /\ Len(Q) \in Nat /\ Len(P \o Q) = Len(P) + Len(Q)
        /\ \A i \in 1 .. Len(P) : (P \o Q)[i] = P[i]
        /\ \A i \in 1 .. Len(Q) : (P \o Q)[Len(P) + i] = Q[i]
    BY <1>2, Concat DEF NeverLooks
  <2> SUFFICES ASSUME NEW i \in 1 .. Len(P) + Len(Q), NEW j \in 1 .. Len(P) + Len(Q),
                      (P \o Q)[i].op \in Looks, i < j
               PROVE  (P \o Q)[i].op = "batman_up" /\ (P \o Q)[j].op = "mesh_up"
    BY <1>d, <2>1 DEF LooksLast
  <2>2. i \notin 1 .. Len(P)
    BY <1>2, <1>d, <2>1 DEF NeverLooks
  <2>3. i - Len(P) \in 1 .. Len(Q) /\ Len(P) + (i - Len(P)) = i
        /\ j - Len(P) \in 1 .. Len(Q) /\ Len(P) + (j - Len(P)) = j /\ i - Len(P) < j - Len(P)
    BY <2>1, <2>2
  <2>4. (P \o Q)[i] = Q[i - Len(P)] /\ (P \o Q)[j] = Q[j - Len(P)]
    BY <2>1, <2>3
  <2> QED
    BY <1>2, <1>d, <2>3, <2>4 DEF LooksLast
<1>3. ASSUME NEW P, IsProgram(P), LooksLast(P), P # <<>>
      PROVE  /\ LooksLast(Tail(P)) /\ (Head(P).op = "mesh_up" => Tail(P) = <<>>)
             /\ Head(P).op = "batman_up" => \A c \in ToSet(Tail(P)) : c.op = "mesh_up"
  <2>1. /\ IsProgram(Tail(P)) /\ Len(P) \in Nat /\ Len(P) >= 1
        /\ Len(Tail(P)) = Len(P) - 1 /\ Head(P) = P[1]
        /\ \A i \in 1 .. Len(P) - 1 : Tail(P)[i] = P[i + 1]
    BY <1>3, HeadTail
  <2>2. LooksLast(Tail(P))
    <3> SUFFICES ASSUME NEW i \in 1 .. Len(P) - 1, NEW j \in 1 .. Len(P) - 1,
                        Tail(P)[i].op \in Looks, i < j
                 PROVE  Tail(P)[i].op = "batman_up" /\ Tail(P)[j].op = "mesh_up"
      BY <1>d, <2>1 DEF LooksLast
    <3>1. i + 1 \in 1 .. Len(P) /\ j + 1 \in 1 .. Len(P) /\ i + 1 < j + 1
      BY <2>1
    <3>2. Tail(P)[i] = P[i + 1] /\ Tail(P)[j] = P[j + 1]
      BY <2>1
    <3> QED
      BY <1>3, <1>d, <3>1, <3>2 DEF LooksLast
  <2>4. ASSUME Head(P).op \in Looks
        PROVE  /\ \A c \in ToSet(Tail(P)) : c.op = "mesh_up"
               /\ Tail(P) # <<>> => Head(P).op = "batman_up"
    <3>1. ASSUME NEW j \in 1 .. Len(P) - 1
          PROVE  P[1].op = "batman_up" /\ Tail(P)[j].op = "mesh_up"
      <4>1. 1 \in 1 .. Len(P) /\ j + 1 \in 1 .. Len(P) /\ 1 < j + 1
        BY <2>1
      <4>2. Tail(P)[j] = P[j + 1]
        BY <2>1
      <4> QED
        BY <1>3, <1>d, <2>1, <2>4, <4>1, <4>2 DEF LooksLast
    <3>2. \A c \in ToSet(Tail(P)) : \E i \in 1 .. Len(P) - 1 : Tail(P)[i] = c
      <4> DEFINE T == Tail(P)
      <4>1. IsProgram(T) /\ Len(T) = Len(P) - 1
        BY <2>1
      <4> HIDE DEF T
      <4>2. \A c \in ToSet(T) : \E i \in 1 .. Len(T) : T[i] = c
        BY <1>d, <4>1
      <4>3. \A c \in ToSet(T) : \E i \in 1 .. Len(P) - 1 : T[i] = c
        BY <4>1, <4>2
      <4> QED
        BY <4>3 DEF T
    <3>3. Tail(P) # <<>> => 1 \in 1 .. Len(P) - 1
      <4>1. Tail(P) # <<>> => Len(Tail(P)) # 0
        BY <2>1, EmptySeq DEF IsProgram
      <4> QED
        BY <2>1, <4>1
    <3>4. \A c \in ToSet(Tail(P)) : c.op = "mesh_up"
      BY <3>1, <3>2
    <3>5. Tail(P) # <<>> => Head(P).op = "batman_up"
      BY <2>1, <3>1, <3>3
    <3> QED
      BY <3>4, <3>5
  <2> QED
    BY <2>2, <2>4 DEF Looks
<1> QED
  BY <1>1, <1>2, <1>3

\* Everything that decides k comes before anything that decides l.
Precedes(P, k, l) ==
  /\ IsProgram(P)
  /\ \A i, j \in DOMAIN P :
       Effect(P[i], k) # "none" /\ Effect(P[j], l) # "none" => i < j

LEMMA PrecedesMany ==
  ASSUME NEW k, NEW l
  PROVE  /\ \A P : IsProgram(P) /\ (Net(P, k) = "none" \/ Net(P, l) = "none") =>
              Precedes(P, k, l)
         /\ \A P, Q : /\ Precedes(P, k, l) /\ Precedes(Q, k, l)
                      /\ Net(P, l) = "none" \/ Net(Q, k) = "none"
                      => Precedes(P \o Q, k, l)
         /\ \A P : Precedes(P, k, l) /\ P # <<>> =>
              /\ Precedes(Tail(P), k, l)
              /\ Effect(Head(P), l) # "none" => Net(Tail(P), k) = "none"
<1>d. \A P : IsProgram(P) =>
        Len(P) \in Nat /\ DOMAIN P = 1 .. Len(P) /\ \A i \in 1 .. Len(P) : P[i] \in ToSet(P)
  BY DEF IsProgram, ToSet
<1>n. \A P, m : IsProgram(P) /\ Net(P, m) = "none" =>
        \A i \in 1 .. Len(P) : Effect(P[i], m) = "none"
  BY <1>d, NetNone
<1>1. ASSUME NEW P, IsProgram(P), Net(P, k) = "none" \/ Net(P, l) = "none"
      PROVE  Precedes(P, k, l)
  BY <1>1, <1>d, <1>n DEF Precedes
<1>2. ASSUME NEW P, NEW Q, Precedes(P, k, l), Precedes(Q, k, l),
             Net(P, l) = "none" \/ Net(Q, k) = "none"
      PROVE  Precedes(P \o Q, k, l)
  <2>1. /\ IsProgram(P) /\ IsProgram(Q) /\ IsProgram(P \o Q)
        /\ Len(P) \in Nat /\ Len(Q) \in Nat /\ Len(P \o Q) = Len(P) + Len(Q)
        /\ \A i \in 1 .. Len(P) : (P \o Q)[i] = P[i]
        /\ \A i \in 1 .. Len(Q) : (P \o Q)[Len(P) + i] = Q[i]
    BY <1>2, Concat DEF Precedes
  <2> DEFINE R == P \o Q
  <2>2. /\ \A i \in 1 .. Len(P) : R[i] = P[i]
        /\ \A i \in Len(P) + 1 .. Len(P) + Len(Q) :
             i - Len(P) \in 1 .. Len(Q) /\ R[i] = Q[i - Len(P)]
    <3>1. ASSUME NEW i \in Len(P) + 1 .. Len(P) + Len(Q)
          PROVE  i - Len(P) \in 1 .. Len(Q) /\ R[i] = Q[i - Len(P)]
      <4>1. i - Len(P) \in 1 .. Len(Q) /\ Len(P) + (i - Len(P)) = i
        BY <2>1
      <4> QED
        BY <2>1, <4>1
    <3> QED
      BY <2>1, <3>1
  <2>d. DOMAIN R = 1 .. Len(P) + Len(Q) /\ IsProgram(R)
    BY <1>d, <2>1
  <2> HIDE DEF R
  <2> SUFFICES ASSUME NEW i \in 1 .. Len(P) + Len(Q), NEW j \in 1 .. Len(P) + Len(Q),
                      Effect(R[i], k) # "none", Effect(R[j], l) # "none"
               PROVE  i < j
    BY <2>d DEF Precedes, R
  <2>3. CASE i \in 1 .. Len(P) /\ j \in 1 .. Len(P)
    BY <1>2, <1>d, <2>1, <2>2, <2>3 DEF Precedes
  <2>4. CASE i \in 1 .. Len(P) /\ j \notin 1 .. Len(P)
    BY <2>1, <2>4
  <2>5. CASE i \notin 1 .. Len(P) /\ j \in 1 .. Len(P)
    <3>1. i \in Len(P) + 1 .. Len(P) + Len(Q)
      BY <2>1, <2>5
    <3>2. i - Len(P) \in 1 .. Len(Q) /\ Effect(Q[i - Len(P)], k) # "none"
      BY <2>2, <3>1
    <3>3. Effect(P[j], l) # "none"
      BY <2>2, <2>5
    <3> QED
      BY <1>2, <1>n, <2>1, <2>5, <3>2, <3>3
  <2>6. CASE i \notin 1 .. Len(P) /\ j \notin 1 .. Len(P)
    <3>1. i \in Len(P) + 1 .. Len(P) + Len(Q) /\ j \in Len(P) + 1 .. Len(P) + Len(Q)
      BY <2>1, <2>6
    <3>2. /\ i - Len(P) \in 1 .. Len(Q) /\ Effect(Q[i - Len(P)], k) # "none"
          /\ j - Len(P) \in 1 .. Len(Q) /\ Effect(Q[j - Len(P)], l) # "none"
      BY <2>2, <3>1
    <3>3. i - Len(P) < j - Len(P)
      BY <1>2, <1>d, <2>1, <3>2 DEF Precedes
    <3> QED
      BY <2>1, <3>3
  <2> QED
    BY <2>3, <2>4, <2>5, <2>6
<1>3. ASSUME NEW P, Precedes(P, k, l), P # <<>>
      PROVE  /\ Precedes(Tail(P), k, l)
             /\ Effect(Head(P), l) # "none" => Net(Tail(P), k) = "none"
  <2>1. /\ IsProgram(P) /\ IsProgram(Tail(P)) /\ Len(P) \in Nat /\ Len(P) >= 1
        /\ Len(Tail(P)) = Len(P) - 1 /\ Head(P) = P[1]
        /\ \A i \in 1 .. Len(P) - 1 : Tail(P)[i] = P[i + 1]
    BY <1>3, HeadTail DEF Precedes
  <2>d. DOMAIN P = 1 .. Len(P) /\ DOMAIN Tail(P) = 1 .. Len(P) - 1
    BY <1>d, <2>1
  <2>2. Precedes(Tail(P), k, l)
    <3> SUFFICES ASSUME NEW i \in 1 .. Len(P) - 1, NEW j \in 1 .. Len(P) - 1,
                        Effect(Tail(P)[i], k) # "none", Effect(Tail(P)[j], l) # "none"
                 PROVE  i < j
      BY <2>1, <2>d DEF Precedes
    <3>1. /\ i + 1 \in 1 .. Len(P) /\ Effect(P[i + 1], k) # "none"
          /\ j + 1 \in 1 .. Len(P) /\ Effect(P[j + 1], l) # "none"
      BY <2>1
    <3>2. i + 1 < j + 1
      BY <1>3, <2>d, <3>1 DEF Precedes
    <3> QED
      BY <3>2
  <2>3. ASSUME Effect(Head(P), l) # "none"
        PROVE  Net(Tail(P), k) = "none"
    <3>1. ASSUME NEW i \in 1 .. Len(P) - 1
          PROVE  Effect(Tail(P)[i], k) = "none"
      <4>1. i + 1 \in 1 .. Len(P) /\ ~(i + 1 < 1) /\ 1 \in 1 .. Len(P)
        BY <2>1
      <4>2. Effect(P[i + 1], k) = "none"
        BY <1>3, <2>1, <2>3, <2>d, <4>1 DEF Precedes
      <4> QED
        BY <2>1, <4>2
    <3>2. \A c \in ToSet(Tail(P)) : Effect(c, k) = "none"
      BY <2>d, <3>1 DEF ToSet
    <3> QED
      BY <2>1, <3>2, NetNone
  <2> QED
    BY <2>2, <2>3
<1> QED
  BY <1>1, <1>2, <1>3

-----------------------------------------------------------------------------
(* What the programs decide *)

\* The sections of the setup AP, of the uplink station and of the mesh, what the
\* mesh is attached to, and the LAN's links to batman
SetupKeys == {Exists(s[1], s[2]) : s \in SetupSections}
UplinkKeys == {Exists(s[1], s[2]) : s \in UplinkSections}
MeshKey == Exists("wireless", MeshSection)
AttachedKey == HasOption("wireless", MeshSection, "network", MeshHardif)
BatKey == Exists("network", IfaceSection)
HardifKey == Exists("network", MeshHardif)
WiredKey(port) == Exists("network", WiredHardif(port))

LEMMA Keys ==
  /\ \A k \in SetupKeys : PlainKey(k) /\ k.kind = "exists" /\ KeyName(k) \in SetupNames
  /\ \A k \in UplinkKeys : PlainKey(k) /\ k.kind = "exists" /\ KeyName(k) \in UplinkNames
  /\ PlainKey(MeshKey) /\ KeyName(MeshKey) \in MeshNames
  /\ PlainKey(AttachedKey) /\ KeyName(AttachedKey) \in MeshNames
  /\ PlainKey(BatKey) /\ KeyName(BatKey) \in BatmanNames
  /\ PlainKey(HardifKey) /\ KeyName(HardifKey) \in BatmanNames
  /\ \A port : PlainKey(WiredKey(port)) /\ KeyName(WiredKey(port)) \in BatmanNames
  /\ \A d : PlainKey(Bridged(d)) /\ KeyName(Bridged(d)) = Member(d)
<1>1. ASSUME NEW p, NEW s
      PROVE  /\ Exists(p, s).kind = "exists" /\ KeyName(Exists(p, s)) = <<p, s[1]>>
             /\ p \in Packages /\ s # LanDevice /\ s[1] \notin {"dev_", "omm_ap_"} =>
                  PlainKey(Exists(p, s))
  BY DEF Exists, Fact, KeyName, PlainKey
<1>2. ASSUME NEW p, NEW s, NEW o, NEW v
      PROVE  /\ KeyName(HasOption(p, s, o, v)) = <<p, s[1]>>
             /\ p \in Packages /\ s # LanDevice /\ s[1] \notin {"dev_", "omm_ap_"}
                  /\ o # "disabled" => PlainKey(HasOption(p, s, o, v))
  BY DEF HasOption, Fact, KeyName, PlainKey
<1>3. ASSUME NEW k \in SetupKeys
      PROVE  PlainKey(k) /\ k.kind = "exists" /\ KeyName(k) \in SetupNames
  <2>1. PICK s \in SetupSections : k = Exists(s[1], s[2])
    BY DEF SetupKeys
  <2>2. s[1] \in Packages /\ s[2] # LanDevice /\ s[2][1] \notin {"dev_", "omm_ap_"}
    <3>1. s \in {<<"network", SetupNet>>, <<"dhcp", SetupNet>>, <<"wireless", SetupWifi>>}
      BY DEF SetupSections
    <3>2. LanDevice[1] = "bridge"
      BY DEF LanDevice, Section, Named
    <3> QED
      BY <3>1, <3>2, SetupSectionNames DEF Packages
  <2> QED
    BY <1>1, <2>1, <2>2, SetupSectionNames
<1>4. ASSUME NEW k \in UplinkKeys
      PROVE  PlainKey(k) /\ k.kind = "exists" /\ KeyName(k) \in UplinkNames
  <2>1. PICK s \in UplinkSections : k = Exists(s[1], s[2])
    BY DEF UplinkKeys
  <2>2. s[1] \in Packages /\ s[2] # LanDevice /\ s[2][1] \notin {"dev_", "omm_ap_"}
    <3>1. s \in {<<"network", UplinkNet>>, <<"wireless", UplinkWifi>>}
      BY DEF UplinkSections
    <3>2. LanDevice[1] = "bridge"
      BY DEF LanDevice, Section, Named
    <3> QED
      BY <3>1, <3>2, SetupSectionNames DEF Packages
  <2> QED
    BY <1>1, <2>1, <2>2, SetupSectionNames
<1>5. /\ MeshSection[1] = "omm_mesh" /\ IfaceSection[1] = "bat0" /\ MeshHardif[1] = "bat0_mesh"
      /\ \A port : WiredHardif(port)[1] = "bat0_"
      /\ LanDevice[1] = "bridge"
  BY DEF MeshSection, IfaceSection, MeshHardif, WiredHardif, LanDevice, Section, Named, Iface
<1>6. /\ MeshSection # LanDevice /\ IfaceSection # LanDevice /\ MeshHardif # LanDevice
      /\ \A port : WiredHardif(port) # LanDevice
  BY <1>5
<1>7. "network" \in Packages /\ "wireless" \in Packages
  BY DEF Packages
<1>8. PlainKey(MeshKey) /\ KeyName(MeshKey) \in MeshNames
  BY <1>1, <1>5, <1>6, <1>7 DEF MeshKey, MeshNames
<1>9. PlainKey(AttachedKey) /\ KeyName(AttachedKey) \in MeshNames
  BY <1>2, <1>5, <1>6, <1>7 DEF AttachedKey, MeshNames
<1>10. /\ PlainKey(BatKey) /\ KeyName(BatKey) \in BatmanNames
       /\ PlainKey(HardifKey) /\ KeyName(HardifKey) \in BatmanNames
       /\ \A port : PlainKey(WiredKey(port)) /\ KeyName(WiredKey(port)) \in BatmanNames
  BY <1>1, <1>5, <1>6, <1>7 DEF BatKey, HardifKey, WiredKey, BatmanNames
<1>11. \A d : PlainKey(Bridged(d)) /\ KeyName(Bridged(d)) = Member(d)
  BY <1>7 DEF Bridged, Fact, PlainKey, KeyName
<1> QED
  BY <1>3, <1>4, <1>8, <1>9, <1>10, <1>11

LEMMA CallDoes ==
  ASSUME NEW op, NEW pkg, NEW sec, NEW arg, NEW k
  PROVE  Does(Call(op, pkg, sec, arg), k,
              Effect([op |-> op, pkg |-> pkg, sec |-> sec, arg |-> arg], k))
<1> DEFINE P == Call(op, pkg, sec, arg)
<1>1. IsProgram(P)
  BY OneCall DEF Call
<1> QED
  BY <1>1, NetOfCall DEF Does

LEMMA DeleteDoes ==
  ASSUME NEW pkg, NEW sec, NEW p, NEW s
  PROVE  Does(Delete(pkg, sec), Exists(p, s),
              IF pkg = p /\ sec = s THEN "off" ELSE "none")
<1> DEFINE c == [op |-> "delete", pkg |-> pkg, sec |-> sec, arg |-> NoArg]
<1>1. \A k : Does(Delete(pkg, sec), k, Effect(c, k))
  BY CallDoes DEF Delete
<1>2. c.op = "delete" /\ c.pkg = pkg /\ c.sec = sec
  OBVIOUS
<1> HIDE DEF c
<1>3. /\ Effect(c, Exists(p, s)) = "off" <=> pkg = p /\ sec = s
      /\ Effect(c, Exists(p, s)) # "on" /\ Effect(c, Exists(p, s)) \in {"on", "off", "none"}
  BY <1>2, ExistsEffect
<1> QED
  BY <1>1, <1>3 DEF Does

LEMMA KnownDoes ==
  ASSUME NEW active \in BOOLEAN
  PROVE  LET P == Call("uplink_active", "", Section(""), [active |-> active])
         IN  /\ Does(P, UplinkKnown, IF active THEN "on" ELSE "off")
             /\ \A p, s : Does(P, Exists(p, s), "none")
<1> DEFINE P == Call("uplink_active", "", Section(""), [active |-> active])
           c == [op |-> "uplink_active", pkg |-> "", sec |-> Section(""),
                 arg |-> [active |-> active]]
<1>1. \A k : Does(P, k, Effect(c, k))
  BY CallDoes
<1>2. c.op = "uplink_active" /\ c.arg.active = active
  OBVIOUS
<1> HIDE DEF c, P
<1>3. Effect(c, UplinkKnown) = IF active THEN "on" ELSE "off"
  BY <1>2 DEF Effect, TurnsOn, TurnsOff, UplinkKnown, Fact
<1>4. \A p, s : Effect(c, Exists(p, s)) = "none"
  BY <1>2, ExistsEffect
<1> QED
  BY <1>1, <1>3, <1>4 DEF Does, P

LEMMA EndingsDo ==
  /\ \A k : Nameable(k) => Does(CommitAndReload, k, "none")
  /\ \A p \in Packages : Does(CommitAndReload, Uncommitted(p), "off")
<1>1. ASSUME NEW k, Nameable(k)
      PROVE  Does(CommitAndReload, k, "none")
  <2>1. Avoids(CommitAndReload, {KeyName(k)})
    BY EndingsAvoid
  <2> QED
    BY <1>1, <2>1, AvoidsNet DEF Does, Avoids
<1>2. ASSUME NEW p \in Packages
      PROVE  Does(CommitAndReload, Uncommitted(p), "off")
  <2> DEFINE B == Commit("network") \o Commit("dhcp") \o Commit("wireless")
             k == Uncommitted(p)
  <2>1. Commits(B, Packages)
    BY SomeCommits
  <2> HIDE DEF B
  <2>2. Does(B, k, "off") /\ Does(Reload, k, "none")
    BY <2>1, EndNet DEF Commits, Does
  <2> HIDE DEF k
  <2>3. Does(B \o Reload, k, Later("off", "none"))
    BY <2>2, DoesConcat
  <2>4. CommitAndReload = B \o Reload
    BY DEF CommitAndReload, B
  <2> QED
    BY <2>3, <2>4 DEF Later, k
<1> QED
  BY <1>1, <1>2

\* Disable removes the setup AP and, if there is one, the uplink station, and
\* forgets that only when it has removed it.
LEMMA DisableDoes ==
  ASSUME NEW active \in BOOLEAN
  PROVE  /\ \A k \in SetupKeys : Net(Disable(active), k) = "off"
         /\ \A k \in UplinkKeys :
              /\ Net(Disable(active), k) = IF active THEN "off" ELSE "none"
              /\ Precedes(Disable(active), k, UplinkKnown)
         /\ \A p \in Packages : Net(Disable(active), Uncommitted(p)) = "off"
<1> DEFINE A == Delete("wireless", SetupWifi)
           B == Delete("network", SetupNet)
           C == Delete("dhcp", SetupNet)
           E == Delete("wireless", UplinkWifi)
           F == Delete("network", UplinkNet)
           G == Call("uplink_active", "", Section(""), [active |-> FALSE])
           H == IF active THEN E \o F \o G ELSE <<>>
           Z == CommitAndReload
<1>0. Disable(active) = A \o B \o C \o H \o Z
  BY DEF Disable
<1>n. /\ SetupWifi # UplinkWifi /\ SetupNet # UplinkNet /\ SetupWifi # UplinkNet
      /\ SetupNet # SetupWifi /\ UplinkNet # UplinkWifi
  BY SetupSectionNames
<1>z. /\ \A p, s : s \notin SecondaryAPs => Does(Z, Exists(p, s), "none")
      /\ Does(Z, UplinkKnown, "none") /\ \A p \in Packages : Does(Z, Uncommitted(p), "off")
  <2>1. \A p, s : s \notin SecondaryAPs => Nameable(Exists(p, s))
    BY DEF Nameable, Exists, Fact
  <2>2. Nameable(UplinkKnown)
    BY DEF Nameable, UplinkKnown, Fact
  <2> QED
    BY <2>1, <2>2, EndingsDo
<1>k. ASSUME NEW P \in {A, B, C, E, F}
      PROVE  Does(P, UplinkKnown, "none")
  <2>1. \A pkg, sec : Effect([op |-> "delete", pkg |-> pkg, sec |-> sec, arg |-> NoArg],
                             UplinkKnown) = "none"
    BY DEF Effect, TurnsOn, TurnsOff, UplinkKnown, Fact
  <2>2. \A pkg, sec : Does(Delete(pkg, sec), UplinkKnown, "none")
    <3> TAKE pkg
    <3> TAKE sec
    <3>1. Does(Delete(pkg, sec), UplinkKnown,
               Effect([op |-> "delete", pkg |-> pkg, sec |-> sec, arg |-> NoArg],
                      UplinkKnown))
      BY CallDoes DEF Delete
    <3> QED
      BY <2>1, <3>1
  <2> QED
    BY <2>2
<1>g. Does(G, UplinkKnown, "off") /\ \A p, s : Does(G, Exists(p, s), "none")
  BY KnownDoes
<1>e. \A k : Does(<<>>, k, "none")
  BY EmptyProgram, NetEmpty DEF Does
<1> DEFINE when(b, e) == IF b THEN e ELSE "none"
<1>s. ASSUME NEW p, NEW s, s \notin SecondaryAPs
      PROVE  LET k == Exists(p, s)
             IN  /\ Does(A, k, when(p = "wireless" /\ s = SetupWifi, "off"))
                 /\ Does(B, k, when(p = "network" /\ s = SetupNet, "off"))
                 /\ Does(C, k, when(p = "dhcp" /\ s = SetupNet, "off"))
                 /\ Does(E, k, when(p = "wireless" /\ s = UplinkWifi, "off"))
                 /\ Does(F, k, when(p = "network" /\ s = UplinkNet, "off"))
                 /\ Does(G, k, "none") /\ Does(Z, k, "none")
  BY <1>s, <1>g, <1>z, DeleteDoes
<1> HIDE DEF A, B, C, E, F, G, Z
<1>h. ASSUME NEW k, NEW a, NEW b, NEW c, NEW e, NEW f, NEW g, NEW z,
             Does(A, k, a), Does(B, k, b), Does(C, k, c), Does(E, k, e), Does(F, k, f),
             Does(G, k, g), Does(Z, k, z)
      PROVE  Does(A \o B \o C \o H \o Z, k,
                  Later(Later(Later(Later(a, b), c),
                    IF active THEN Later(Later(e, f), g) ELSE "none"), z))
  <2>1. Does(E \o F \o G, k, Later(Later(e, f), g))
    BY <1>h, DoesConcat
  <2>2. Does(H, k, IF active THEN Later(Later(e, f), g) ELSE "none")
    BY <1>e, <2>1
  <2> HIDE DEF H
  <2>3. Does(A \o B \o C, k, Later(Later(a, b), c))
    BY <1>h, DoesConcat
  <2>4. Does(A \o B \o C \o H, k,
             Later(Later(Later(a, b), c), IF active THEN Later(Later(e, f), g) ELSE "none"))
    BY <2>2, <2>3, DoesConcat
  <2> QED
    BY <1>h, <2>4, DoesConcat
<1>x. \A s \in {SetupWifi, SetupNet, UplinkWifi, UplinkNet} : s \notin SecondaryAPs
  <2>1. \A s \in SecondaryAPs : s[1] = "omm_ap_"
    BY Names DEF SecondaryAPs
  <2> QED
    BY <2>1, SetupSectionNames
<1>1. ASSUME NEW k \in SetupKeys
      PROVE  Net(Disable(active), k) = "off"
  <2>1. PICK s \in SetupSections : k = Exists(s[1], s[2])
    BY DEF SetupKeys
  <2> DEFINE p == s[1]
             n == s[2]
  <2>2. \/ p = "network" /\ n = SetupNet
        \/ p = "dhcp" /\ n = SetupNet
        \/ p = "wireless" /\ n = SetupWifi
    BY DEF SetupSections
  <2>3. k = Exists(p, n) /\ n \notin SecondaryAPs
    BY <1>x, <2>1, <2>2
  <2> HIDE DEF p, n, H
  <2>4. Does(A \o B \o C \o H \o Z, k,
             Later(Later(Later(Later(when(p = "wireless" /\ n = SetupWifi, "off"),
               when(p = "network" /\ n = SetupNet, "off")),
               when(p = "dhcp" /\ n = SetupNet, "off")),
               IF active THEN Later(Later(when(p = "wireless" /\ n = UplinkWifi, "off"),
                                          when(p = "network" /\ n = UplinkNet, "off")), "none")
               ELSE "none"), "none"))
    BY <1>s, <1>h, <2>3
  <2> QED
    BY <1>0, <1>n, <2>2, <2>4 DEF Does, Later
<1>2. ASSUME NEW k \in UplinkKeys
      PROVE  /\ Net(Disable(active), k) = IF active THEN "off" ELSE "none"
             /\ Precedes(Disable(active), k, UplinkKnown)
  <2>1. PICK s \in UplinkSections : k = Exists(s[1], s[2])
    BY DEF UplinkKeys
  <2> DEFINE p == s[1]
             n == s[2]
  <2>2. \/ p = "network" /\ n = UplinkNet
        \/ p = "wireless" /\ n = UplinkWifi
    BY DEF UplinkSections
  <2>3. k = Exists(p, n) /\ n \notin SecondaryAPs
    BY <1>x, <2>1, <2>2
  <2> HIDE DEF p, n
  <2>4. Does(A \o B \o C \o H \o Z, k,
             Later(Later(Later(Later(when(p = "wireless" /\ n = SetupWifi, "off"),
               when(p = "network" /\ n = SetupNet, "off")),
               when(p = "dhcp" /\ n = SetupNet, "off")),
               IF active THEN Later(Later(when(p = "wireless" /\ n = UplinkWifi, "off"),
                                          when(p = "network" /\ n = UplinkNet, "off")), "none")
               ELSE "none"), "none"))
    BY <1>s, <1>h, <2>3
  <2>5. Net(Disable(active), k) = IF active THEN "off" ELSE "none"
    BY <1>0, <1>n, <2>2, <2>4 DEF Does, Later
  <2> DEFINE l == UplinkKnown
  <2>6. /\ Does(A, l, "none") /\ Does(B, l, "none") /\ Does(C, l, "none")
        /\ Does(E, l, "none") /\ Does(F, l, "none") /\ Does(Z, l, "none")
    BY <1>k, <1>z
  <2>7. Net(G, k) = "none" /\ IsProgram(G) /\ IsProgram(E) /\ IsProgram(F) /\ Net(Z, k) = "none"
    BY <1>s, <2>3, <2>6 DEF Does
  <2> HIDE DEF l
  <2>8. Does(A \o B \o C, l, "none") /\ Does(E \o F, l, "none")
    <3>1. Does(A \o B, l, Later("none", "none")) /\ Does(E \o F, l, Later("none", "none"))
      BY <2>6, DoesConcat
    <3>2. Later("none", "none") = "none"
      BY DEF Later
    <3>3. Does(A \o B \o C, l, Later("none", "none"))
      BY <2>6, <3>1, <3>2, DoesConcat
    <3> QED
      BY <3>1, <3>2, <3>3
  <2>9. Precedes(A \o B \o C, k, l) /\ Precedes(E \o F, k, l) /\ Precedes(G, k, l)
          /\ Precedes(Z, k, l) /\ Precedes(<<>>, k, l)
    BY <1>e, <2>6, <2>7, <2>8, PrecedesMany DEF Does
  <2>10. Precedes(E \o F \o G, k, l)
    BY <2>7, <2>9, PrecedesMany
  <2>11. Precedes(H, k, l)
    BY <2>9, <2>10
  <2> HIDE DEF H
  <2>12. Precedes(A \o B \o C \o H, k, l)
    BY <2>8, <2>9, <2>11, PrecedesMany DEF Does
  <2>13. Precedes(A \o B \o C \o H \o Z, k, l)
    BY <2>7, <2>9, <2>12, PrecedesMany
  <2> QED
    BY <1>0, <2>5, <2>13 DEF l
<1>3. ASSUME NEW p \in Packages
      PROVE  Net(Disable(active), Uncommitted(p)) = "off"
  <2> DEFINE P == A \o B \o C \o H
  <2>1. IsProgram(P)
    <3>1. \A q, s : IsProgram(A) /\ IsProgram(B) /\ IsProgram(C)
                      /\ IsProgram(E) /\ IsProgram(F) /\ IsProgram(G)
      BY <1>k, <1>g DEF Does
    <3>2. IsProgram(H)
      BY <3>1, <1>e, Concat DEF Does
    <3> HIDE DEF H
    <3> QED
      BY <3>1, <3>2, Concat
  <2>2. Does(Z, Uncommitted(p), "off")
    BY <1>z
  <2> HIDE DEF P
  <2>3. Net(P \o Z, Uncommitted(p)) = Later(Net(P, Uncommitted(p)), "off")
    BY <2>1, <2>2, NetConcat DEF Does
  <2> QED
    BY <1>0, <2>3 DEF Later, P
<1> QED
  BY <1>1, <1>2, <1>3

LEMMA UplinkDoes == Net(EnableUplink, UplinkKnown) = "on"
<1> DEFINE P == SetSection("network", UplinkNet, [proto |-> "dhcp"])
                  \o SetSection("wireless", UplinkWifi, [mode |-> "sta"])
                  \o Set("wireless", RadioSection(SetupRadio), [disabled |-> "0"])
                  \o CommitAndReload
           Q == Call("uplink_active", "", Section(""), [active |-> TRUE])
<1>1. IsProgram(P)
  <2>1. /\ \A pkg, sec, arg : Avoids(SetSection(pkg, sec, arg), {})
        /\ \A pkg, sec, arg : Avoids(Set(pkg, sec, arg), {})
    BY AvoidsCalls
  <2>2. Avoids(P, {})
    BY <2>1, EndingsAvoid, AvoidsConcat
  <2> QED
    BY <2>2 DEF Avoids
<1>2. Does(Q, UplinkKnown, "on")
  BY KnownDoes
<1>3. EnableUplink = P \o Q
  BY DEF EnableUplink
<1> HIDE DEF P, Q
<1> QED
  BY <1>1, <1>2, <1>3, NetConcat DEF Does, Later

\* What each call does to a section and to a member
LEMMA CallsDo ==
  /\ \A pkg, sec, arg, p, s :
       /\ Does(SetSection(pkg, sec, arg), Exists(p, s),
               IF pkg = p /\ sec = s THEN "on" ELSE "none")
       /\ Does(Set(pkg, sec, arg), Exists(p, s), "none")
       /\ Does(Call("unique_mac", pkg, sec, arg), Exists(p, s), "none")
  /\ \A x, p, s : /\ Does(AddListItem(x), Exists(p, s), "none")
                  /\ Does(DelListItem(x), Exists(p, s), "none")
  /\ \A pkg, sec, arg, d : /\ Does(SetSection(pkg, sec, arg), Bridged(d), "none")
                           /\ Does(Set(pkg, sec, arg), Bridged(d), "none")
                           /\ Does(Delete(pkg, sec), Bridged(d), "none")
                           /\ Does(Call("unique_mac", pkg, sec, arg), Bridged(d), "none")
  /\ \A x, d : /\ Does(AddListItem(x), Bridged(d), IF x = d THEN "on" ELSE "none")
               /\ Does(DelListItem(x), Bridged(d), IF x = d THEN "off" ELSE "none")
<1> DEFINE c(op, pkg, sec, arg) == [op |-> op, pkg |-> pkg, sec |-> sec, arg |-> arg]
<1>c. \A op, pkg, sec, arg :
        /\ c(op, pkg, sec, arg).op = op /\ c(op, pkg, sec, arg).pkg = pkg
        /\ c(op, pkg, sec, arg).sec = sec /\ c(op, pkg, sec, arg).arg = arg
  OBVIOUS
<1>d. \A op, pkg, sec, arg, k :
        Does(Call(op, pkg, sec, arg), k, Effect(c(op, pkg, sec, arg), k))
  BY CallDoes
<1> HIDE DEF c
<1>1. ASSUME NEW pkg, NEW sec, NEW arg, NEW p, NEW s
      PROVE  /\ Does(SetSection(pkg, sec, arg), Exists(p, s),
                     IF pkg = p /\ sec = s THEN "on" ELSE "none")
             /\ Does(Set(pkg, sec, arg), Exists(p, s), "none")
             /\ Does(Call("unique_mac", pkg, sec, arg), Exists(p, s), "none")
  <2> DEFINE k == Exists(p, s)
  <2>1. \A op : op \notin {"section", "delete", "prune"} =>
          Effect(c(op, pkg, sec, arg), k) = "none"
    BY <1>c, ExistsEffect
  <2>2. Effect(c("section", pkg, sec, arg), k) = IF pkg = p /\ sec = s THEN "on" ELSE "none"
    BY <1>c, ExistsEffect
  <2> HIDE DEF k
  <2>3. \A op : Does(Call(op, pkg, sec, arg), k, Effect(c(op, pkg, sec, arg), k))
    BY <1>d
  <2> QED
    BY <2>1, <2>2, <2>3 DEF SetSection, Set, k
<1>2. ASSUME NEW x, NEW p, NEW s
      PROVE  Does(AddListItem(x), Exists(p, s), "none")
               /\ Does(DelListItem(x), Exists(p, s), "none")
  <2> DEFINE k == Exists(p, s)
             e(op) == c(op, "network", LanDevice, [item |-> x])
  <2>1. Effect(e("add_item"), k) = "none" /\ Effect(e("del_item"), k) = "none"
    BY <1>c, ExistsEffect
  <2> HIDE DEF k
  <2>2. \A op : Does(Call(op, "network", LanDevice, [item |-> x]), k, Effect(e(op), k))
    BY <1>d
  <2> QED
    BY <2>1, <2>2 DEF AddListItem, DelListItem, k
<1>3. ASSUME NEW pkg, NEW sec, NEW d, NEW op \in {"section", "set", "delete", "unique_mac"}
      PROVE  \A arg : Does(Call(op, pkg, sec, arg), Bridged(d), "none")
  <2> DEFINE k == Bridged(d)
  <2>1. \A arg : Effect(c(op, pkg, sec, arg), k) = "none"
    BY <1>c, MemberEffect
  <2> HIDE DEF k
  <2> QED
    BY <1>d, <2>1 DEF k
<1>4. ASSUME NEW x, NEW d
      PROVE  /\ Does(AddListItem(x), Bridged(d), IF x = d THEN "on" ELSE "none")
             /\ Does(DelListItem(x), Bridged(d), IF x = d THEN "off" ELSE "none")
  <2> DEFINE k == Bridged(d)
             e(op) == c(op, "network", LanDevice, [item |-> x])
  <2>1. /\ Effect(e("add_item"), k) = IF x = d THEN "on" ELSE "none"
        /\ Effect(e("del_item"), k) = IF x = d THEN "off" ELSE "none"
    BY <1>c, MemberEffect
  <2> HIDE DEF k
  <2>2. \A op : Does(Call(op, "network", LanDevice, [item |-> x]), k, Effect(e(op), k))
    BY <1>d
  <2> QED
    BY <2>1, <2>2 DEF AddListItem, DelListItem, k
<1>5. \A pkg, sec, arg, d : /\ Does(SetSection(pkg, sec, arg), Bridged(d), "none")
                            /\ Does(Set(pkg, sec, arg), Bridged(d), "none")
                            /\ Does(Delete(pkg, sec), Bridged(d), "none")
                            /\ Does(Call("unique_mac", pkg, sec, arg), Bridged(d), "none")
  BY <1>3 DEF SetSection, Set, Delete
<1> QED
  BY <1>1, <1>2, <1>4, <1>5

LEMMA PortNames ==
  /\ \A p, q : WiredHardif(p) = WiredHardif(q) => p = q
  /\ \A p, q : WiredHardif(p) # DeviceSection(q) /\ WiredHardif(p) # IfaceSection
  /\ \A p : WiredHardif(p) # MeshHardif
  /\ \A p : IfaceSection # DeviceSection(p) /\ MeshHardif # DeviceSection(p)
  /\ IfaceSection # MeshHardif
BY DEF WiredHardif, DeviceSection, IfaceSection, MeshHardif, Section, Named, Iface

\* What is done to one port
PortDoes(P, port, here, member) ==
  /\ \A p : Does(P, WiredKey(p), IF p = port THEN here ELSE "none")
  /\ Does(P, BatKey, "none") /\ Does(P, HardifKey, "none")
  /\ \A d : Does(P, Bridged(d), IF d = port THEN member ELSE "none")

LEMMA PortsDo ==
  ASSUME NEW port
  PROVE  /\ PortDoes(EnslavePort(port), port, "on", "off")
         /\ PortDoes(ReleasePort(port), port, "off", "on")
<1> DEFINE when(b, e) == IF b THEN e ELSE "none"
           A == SetSection("network", WiredHardif(port), [master |-> Iface, device |-> port])
           B == DelListItem(port)
           C == Call("unique_mac", "network", DeviceSection(port), [name |-> port])
           E == AddListItem(port)
           F == Delete("network", WiredHardif(port))
           G == Delete("network", DeviceSection(port))
<1>0. EnslavePort(port) = A \o B \o C /\ ReleasePort(port) = B \o E \o F \o G
  BY DEF EnslavePort, ReleasePort
<1>1. ASSUME NEW s
      PROVE  LET k == Exists("network", s)
             IN  /\ Does(A, k, when(s = WiredHardif(port), "on")) /\ Does(B, k, "none")
                 /\ Does(C, k, "none") /\ Does(E, k, "none")
                 /\ Does(F, k, when(s = WiredHardif(port), "off"))
                 /\ Does(G, k, when(s = DeviceSection(port), "off"))
  BY CallsDo, DeleteDoes
<1>2. ASSUME NEW d
      PROVE  LET k == Bridged(d)
             IN  /\ Does(A, k, "none") /\ Does(B, k, when(d = port, "off"))
                 /\ Does(C, k, "none") /\ Does(E, k, when(d = port, "on"))
                 /\ Does(F, k, "none") /\ Does(G, k, "none")
  BY CallsDo
<1> HIDE DEF A, B, C, E, F, G
<1>3. ASSUME NEW k, NEW a, NEW b, NEW c, NEW e, NEW f, NEW g, Does(A, k, a), Does(B, k, b),
             Does(C, k, c), Does(E, k, e), Does(F, k, f), Does(G, k, g)
      PROVE  /\ Does(A \o B \o C, k, Later(Later(a, b), c))
             /\ Does(B \o E \o F \o G, k, Later(Later(Later(b, e), f), g))
  BY <1>3, DoesConcat
<1>4. ASSUME NEW s, s # DeviceSection(port)
      PROVE  LET k == Exists("network", s)
             IN  /\ Does(A \o B \o C, k, when(s = WiredHardif(port), "on"))
                 /\ Does(B \o E \o F \o G, k, when(s = WiredHardif(port), "off"))
  <2> DEFINE k == Exists("network", s)
  <2>1. /\ Does(A, k, when(s = WiredHardif(port), "on")) /\ Does(B, k, "none")
        /\ Does(C, k, "none") /\ Does(E, k, "none")
        /\ Does(F, k, when(s = WiredHardif(port), "off")) /\ Does(G, k, "none")
    BY <1>1, <1>4
  <2> HIDE DEF k
  <2>2. /\ Does(A \o B \o C, k,
                Later(Later(when(s = WiredHardif(port), "on"), "none"), "none"))
        /\ Does(B \o E \o F \o G, k,
                Later(Later(Later("none", "none"), when(s = WiredHardif(port), "off")), "none"))
    BY <1>3, <2>1
  <2> QED
    BY <2>2 DEF Later, k
<1>5. ASSUME NEW d
      PROVE  /\ Does(A \o B \o C, Bridged(d), when(d = port, "off"))
             /\ Does(B \o E \o F \o G, Bridged(d), when(d = port, "on"))
  <2> DEFINE k == Bridged(d)
  <2>1. /\ Does(A, k, "none") /\ Does(B, k, when(d = port, "off"))
        /\ Does(C, k, "none") /\ Does(E, k, when(d = port, "on"))
        /\ Does(F, k, "none") /\ Does(G, k, "none")
    BY <1>2
  <2> HIDE DEF k
  <2>2. /\ Does(A \o B \o C, k, Later(Later("none", when(d = port, "off")), "none"))
        /\ Does(B \o E \o F \o G, k,
                Later(Later(Later(when(d = port, "off"), when(d = port, "on")), "none"), "none"))
    BY <1>3, <2>1
  <2> QED
    BY <2>2 DEF Later, k
<1>6. /\ PortDoes(A \o B \o C, port, "on", "off")
      /\ PortDoes(B \o E \o F \o G, port, "off", "on")
  BY <1>4, <1>5, PortNames DEF PortDoes, WiredKey, BatKey, HardifKey
<1> QED
  BY <1>0, <1>6

\* The same done to every port of W
LEMMA EachPortDoes ==
  ASSUME NEW n \in {3, 4}, NEW W, IsFiniteSet(W), NEW body, DOMAIN body = W,
         NEW here, NEW member,
         \A p \in W : Len(body[p]) = n /\ PortDoes(body[p], p, here, member)
  PROVE  LET P == ForEach(n, body)
         IN  /\ \A p : Does(P, WiredKey(p), IF p \in W THEN here ELSE "none")
             /\ Does(P, BatKey, "none") /\ Does(P, HardifKey, "none")
             /\ \A d : Does(P, Bridged(d), IF d \in W THEN member ELSE "none")
<1> DEFINE P == ForEach(n, body)
<1>1. IsFiniteSet(DOMAIN body)
      /\ \A x \in DOMAIN body : IsProgram(body[x]) /\ Len(body[x]) = n
  BY DEF PortDoes, Does
<1>2. IsProgram(P)
  BY <1>1, ForEachCalls DEF BodyFacts
<1>3. ASSUME NEW k, \A x \in W : Net(body[x], k) = "none"
      PROVE  Does(P, k, "none")
  BY <1>1, <1>2, <1>3, NetForEachNone DEF Does
<1>4. ASSUME NEW k, NEW y \in W, \A x \in W \ {y} : Net(body[x], k) = "none"
      PROVE  Does(P, k, Net(body[y], k))
  <2> HIDE DEF P
  <2>1. OthersRest(body, k, y) /\ y \in DOMAIN body /\ n \in {1, 3, 4}
    BY <1>4 DEF OthersRest
  <2>2. Net(ForEach(n, body), k) = Net(body[y], k)
    BY <1>1, <2>1, NetForEach
  <2> QED
    BY <1>2, <2>2 DEF Does, P
<1> HIDE DEF P
<1>5. Does(P, BatKey, "none") /\ Does(P, HardifKey, "none")
  BY <1>3 DEF PortDoes, Does
<1>6. ASSUME NEW p
      PROVE  /\ Does(P, WiredKey(p), IF p \in W THEN here ELSE "none")
             /\ Does(P, Bridged(p), IF p \in W THEN member ELSE "none")
  <2>1. \A x \in W : /\ Net(body[x], WiredKey(p)) = IF p = x THEN here ELSE "none"
                     /\ Net(body[x], Bridged(p)) = IF p = x THEN member ELSE "none"
    BY DEF PortDoes, Does
  <2>2. CASE p \notin W
    BY <1>3, <2>1, <2>2
  <2>3. CASE p \in W
    BY <1>4, <2>1, <2>3
  <2> QED
    BY <2>2, <2>3
<1> QED
  BY <1>5, <1>6 DEF P

\* Batman's sections and the bridge's members, when it is set up and when it is
\* torn down
BatmanDoes(P, W, there, ports, iface) ==
  /\ Does(P, BatKey, there) /\ Does(P, HardifKey, there)
  /\ \A p : Does(P, WiredKey(p), IF p \in W THEN there ELSE "none")
  /\ \A d : Does(P, Bridged(d), IF d = Iface THEN iface
                                ELSE IF d \in W THEN ports ELSE "none")

LEMMA BatmanApplyDoes ==
  ASSUME NEW W, IsFiniteSet(W), Iface \notin W
  PROVE  BatmanDoes(BatmanApply(W), W, "on", "off", "on")
<1> DEFINE A == SetSection("network", IfaceSection, [proto |-> "batadv"])
           B == SetSection("network", MeshHardif, [master |-> Iface])
           C == ForEach(3, [p \in W |-> EnslavePort(p)])
           E == DelListItem(Iface)
           F == AddListItem(Iface)
           when(b, e) == IF b THEN e ELSE "none"
<1>0. BatmanApply(W) = A \o B \o C \o E \o F
  BY DEF BatmanApply
<1>1. ASSUME NEW s
      PROVE  LET k == Exists("network", s)
             IN  /\ Does(A, k, when(s = IfaceSection, "on"))
                 /\ Does(B, k, when(s = MeshHardif, "on"))
                 /\ Does(E, k, "none") /\ Does(F, k, "none")
  BY CallsDo
<1>2. ASSUME NEW d
      PROVE  LET k == Bridged(d)
             IN  /\ Does(A, k, "none") /\ Does(B, k, "none")
                 /\ Does(E, k, when(d = Iface, "off")) /\ Does(F, k, when(d = Iface, "on"))
  BY CallsDo
<1>3. /\ \A p : Does(C, WiredKey(p), IF p \in W THEN "on" ELSE "none")
      /\ Does(C, BatKey, "none") /\ Does(C, HardifKey, "none")
      /\ \A d : Does(C, Bridged(d), IF d \in W THEN "off" ELSE "none")
  <2> DEFINE body == [p \in W |-> EnslavePort(p)]
  <2>1. /\ DOMAIN body = W
        /\ \A p \in W : Len(body[p]) = 3 /\ PortDoes(body[p], p, "on", "off")
    <3>1. \A p \in W : Len(EnslavePort(p)) = 3
      BY GoodEnslave
    <3> QED
      BY <3>1, PortsDo
  <2> HIDE DEF body
  <2>2. LET P == ForEach(3, body)
        IN  /\ \A p : Does(P, WiredKey(p), IF p \in W THEN "on" ELSE "none")
            /\ Does(P, BatKey, "none") /\ Does(P, HardifKey, "none")
            /\ \A d : Does(P, Bridged(d), IF d \in W THEN "off" ELSE "none")
    BY <2>1, EachPortDoes
  <2> QED
    BY <2>2 DEF body
<1> HIDE DEF A, B, C, E, F
<1>4. ASSUME NEW k, NEW a, NEW b, NEW c, NEW e, NEW f, Does(A, k, a), Does(B, k, b),
             Does(C, k, c), Does(E, k, e), Does(F, k, f)
      PROVE  Does(A \o B \o C \o E \o F, k, Later(Later(Later(Later(a, b), c), e), f))
  BY <1>4, DoesConcat
<1> DEFINE P == A \o B \o C \o E \o F
<1>5. Does(P, BatKey, "on") /\ Does(P, HardifKey, "on")
  <2>1. /\ Does(A, BatKey, "on") /\ Does(B, BatKey, "none") /\ Does(E, BatKey, "none")
        /\ Does(F, BatKey, "none")
    BY <1>1, PortNames DEF BatKey
  <2>2. /\ Does(A, HardifKey, "none") /\ Does(B, HardifKey, "on") /\ Does(E, HardifKey, "none")
        /\ Does(F, HardifKey, "none")
    BY <1>1, PortNames DEF HardifKey
  <2>3. /\ Does(P, BatKey, Later(Later(Later(Later("on", "none"), "none"), "none"), "none"))
        /\ Does(P, HardifKey, Later(Later(Later(Later("none", "on"), "none"), "none"), "none"))
    BY <1>3, <1>4, <2>1, <2>2
  <2> HIDE DEF P
  <2> QED
    BY <2>3 DEF Later
<1>6. ASSUME NEW p
      PROVE  Does(P, WiredKey(p), IF p \in W THEN "on" ELSE "none")
  <2>1. /\ Does(A, WiredKey(p), "none") /\ Does(B, WiredKey(p), "none")
        /\ Does(E, WiredKey(p), "none") /\ Does(F, WiredKey(p), "none")
    BY <1>1, PortNames DEF WiredKey
  <2> DEFINE c == IF p \in W THEN "on" ELSE "none"
  <2>2. Does(C, WiredKey(p), c)
    BY <1>3
  <2> HIDE DEF c
  <2>3. Does(P, WiredKey(p), Later(Later(Later(Later("none", "none"), c), "none"), "none"))
    BY <1>4, <2>1, <2>2
  <2> HIDE DEF P
  <2> QED
    BY <2>3 DEF Later, c
<1>7. ASSUME NEW d
      PROVE  Does(P, Bridged(d), IF d = Iface THEN "on" ELSE IF d \in W THEN "off" ELSE "none")
  <2> DEFINE c == when(d \in W, "off")
             e == when(d = Iface, "off")
             f == when(d = Iface, "on")
  <2>1. /\ Does(A, Bridged(d), "none") /\ Does(B, Bridged(d), "none") /\ Does(C, Bridged(d), c)
        /\ Does(E, Bridged(d), e) /\ Does(F, Bridged(d), f)
    BY <1>2, <1>3
  <2> HIDE DEF c, e, f
  <2>2. Does(P, Bridged(d), Later(Later(Later(Later("none", "none"), c), e), f))
    BY <1>4, <2>1
  <2> HIDE DEF P
  <2> QED
    BY <2>2 DEF Later, c, e, f
<1>8. BatmanDoes(P, W, "on", "off", "on")
  <2> HIDE DEF P
  <2> QED
    BY <1>5, <1>6, <1>7 DEF BatmanDoes
<1> QED
  BY <1>0, <1>8

LEMMA TeardownDoes ==
  ASSUME NEW W, IsFiniteSet(W), Iface \notin W
  PROVE  BatmanDoes(Teardown(W), W, "off", "on", "off")
<1> DEFINE A == DelListItem(Iface)
           B == ForEach(4, [p \in W |-> ReleasePort(p)])
           C == Delete("network", MeshHardif)
           E == Delete("network", IfaceSection)
           when(b, e) == IF b THEN e ELSE "none"
<1>0. Teardown(W) = A \o B \o C \o E
  BY DEF Teardown
<1>1. ASSUME NEW s
      PROVE  LET k == Exists("network", s)
             IN  /\ Does(A, k, "none") /\ Does(C, k, when(s = MeshHardif, "off"))
                 /\ Does(E, k, when(s = IfaceSection, "off"))
  <2>1. Does(A, Exists("network", s), "none")
    BY CallsDo
  <2>2. /\ Does(C, Exists("network", s), when(s = MeshHardif, "off"))
        /\ Does(E, Exists("network", s), when(s = IfaceSection, "off"))
    BY DeleteDoes
  <2> QED
    BY <2>1, <2>2
<1>2. ASSUME NEW d
      PROVE  LET k == Bridged(d)
             IN  /\ Does(A, k, when(d = Iface, "off"))
                 /\ Does(C, k, "none") /\ Does(E, k, "none")
  BY CallsDo
<1>3. /\ \A p : Does(B, WiredKey(p), IF p \in W THEN "off" ELSE "none")
      /\ Does(B, BatKey, "none") /\ Does(B, HardifKey, "none")
      /\ \A d : Does(B, Bridged(d), IF d \in W THEN "on" ELSE "none")
  <2> DEFINE body == [p \in W |-> ReleasePort(p)]
  <2>1. /\ DOMAIN body = W
        /\ \A p \in W : Len(body[p]) = 4 /\ PortDoes(body[p], p, "off", "on")
    <3>1. \A p \in W : Len(ReleasePort(p)) = 4
      BY GoodRelease
    <3> QED
      BY <3>1, PortsDo
  <2> HIDE DEF body
  <2>2. LET P == ForEach(4, body)
        IN  /\ \A p : Does(P, WiredKey(p), IF p \in W THEN "off" ELSE "none")
            /\ Does(P, BatKey, "none") /\ Does(P, HardifKey, "none")
            /\ \A d : Does(P, Bridged(d), IF d \in W THEN "on" ELSE "none")
    BY <2>1, EachPortDoes
  <2> QED
    BY <2>2 DEF body
<1> HIDE DEF A, B, C, E
<1>4. ASSUME NEW k, NEW a, NEW b, NEW c, NEW e, Does(A, k, a), Does(B, k, b),
             Does(C, k, c), Does(E, k, e)
      PROVE  Does(A \o B \o C \o E, k, Later(Later(Later(a, b), c), e))
  BY <1>4, DoesConcat
<1> DEFINE P == A \o B \o C \o E
<1>5. Does(P, BatKey, "off") /\ Does(P, HardifKey, "off")
  <2>1. Does(A, BatKey, "none") /\ Does(C, BatKey, "none") /\ Does(E, BatKey, "off")
    BY <1>1, PortNames DEF BatKey
  <2>2. Does(A, HardifKey, "none") /\ Does(C, HardifKey, "off") /\ Does(E, HardifKey, "none")
    BY <1>1, PortNames DEF HardifKey
  <2>3. /\ Does(P, BatKey, Later(Later(Later("none", "none"), "none"), "off"))
        /\ Does(P, HardifKey, Later(Later(Later("none", "none"), "off"), "none"))
    BY <1>3, <1>4, <2>1, <2>2
  <2> HIDE DEF P
  <2> QED
    BY <2>3 DEF Later
<1>6. ASSUME NEW p
      PROVE  Does(P, WiredKey(p), IF p \in W THEN "off" ELSE "none")
  <2>1. /\ Does(A, WiredKey(p), "none") /\ Does(C, WiredKey(p), "none")
        /\ Does(E, WiredKey(p), "none")
    BY <1>1, PortNames DEF WiredKey
  <2> DEFINE c == IF p \in W THEN "off" ELSE "none"
  <2>2. Does(B, WiredKey(p), c)
    BY <1>3
  <2> HIDE DEF c
  <2>3. Does(P, WiredKey(p), Later(Later(Later("none", c), "none"), "none"))
    BY <1>4, <2>1, <2>2
  <2> HIDE DEF P
  <2> QED
    BY <2>3 DEF Later, c
<1>7. ASSUME NEW d
      PROVE  Does(P, Bridged(d), IF d = Iface THEN "off" ELSE IF d \in W THEN "on" ELSE "none")
  <2> DEFINE a == when(d = Iface, "off")
             b == when(d \in W, "on")
  <2>1. /\ Does(A, Bridged(d), a) /\ Does(B, Bridged(d), b) /\ Does(C, Bridged(d), "none")
        /\ Does(E, Bridged(d), "none")
    BY <1>2, <1>3
  <2> HIDE DEF a, b
  <2>2. Does(P, Bridged(d), Later(Later(Later(a, b), "none"), "none"))
    BY <1>4, <2>1
  <2> HIDE DEF P
  <2> QED
    BY <2>2 DEF Later, a, b
<1>8. BatmanDoes(P, W, "off", "on", "off")
  <2> HIDE DEF P
  <2> QED
    BY <1>5, <1>6, <1>7 DEF BatmanDoes
<1> QED
  BY <1>0, <1>8

\* What the parts of a profile's program that are not batman's or the mesh's
\* leave alone
LEMMA ProfileWiring ==
  ASSUME RadiosAreListed, NEW profile, NEW device, NEW standby, NEW k,
         profile.mesh \in BOOLEAN, IsFiniteSet(device.wired),
         PlainKey(k), KeyName(k) \notin APNames \cup RadioNames \cup {Application, Fallback}
  PROVE  Net(ApplyProfile(profile, device, standby), k) =
           Later(Net(AuthorBatman(profile, device), k),
                 Net(AuthorMesh(profile, device, MeshRadio(profile, device), standby), k))
<1> DEFINE S == {KeyName(k)}
           A == AuthorBatman(profile, device)
           B == AuthorMesh(profile, device, MeshRadio(profile, device), standby)
           C == AuthorTargets(profile)
           E == Prune(profile)
           F == EnableRadios(profile, device)
           G == Activate(BatmanOn(profile, device))
           H == Verify(profile, device)
<1>1. /\ Avoids(C, S) /\ Avoids(E, S) /\ Avoids(F, S) /\ Avoids(G, S) /\ Avoids(H, S)
  <2>1. Footprint(C, APNames, {}) /\ Footprint(F, RadioNames, {}) /\ Footprint(G, {}, {})
    BY ProfileFootprint
  <2>2. Avoids(C, S) /\ Avoids(F, S) /\ Avoids(G, S)
    BY <2>1, AvoidsRest
  <2>3. Avoids(E, S)
    BY AvoidsCalls DEF Prune
  <2>4. Avoids(H, S)
    <3>1. Avoids(Call("mesh_up", "wireless", MeshSection, [mesh |-> profile.mesh]), S)
      BY AvoidsCalls
    <3>2. Avoids(Call("batman_up", "network", IfaceSection, NoArg), S)
      BY AvoidsCalls
    <3> QED
      BY <3>1, <3>2, AvoidsMany, AvoidsConcat DEF Verify
  <2> QED
    BY <2>2, <2>3, <2>4
<1>2. \A P : Avoids(P, S) => Net(P, k) = "none"
  BY PlainIsNameable, AvoidsNet
<1>3. Net(ApplyProfile(profile, device, standby), k) =
        Later(Later(Later(Later(Later(Net(A, k), Net(B, k)),
          Later(Net(C, k), Net(E, k))), Net(F, k)), Net(G, k)), Net(H, k))
  BY ProfileNet
<1> HIDE DEF A, B, C, E, F, G, H, S
<1>4. /\ Net(C, k) = "none" /\ Net(E, k) = "none" /\ Net(F, k) = "none"
      /\ Net(G, k) = "none" /\ Net(H, k) = "none"
  BY <1>1, <1>2
<1>5. Net(ApplyProfile(profile, device, standby), k) = Later(Net(A, k), Net(B, k))
  BY <1>3, <1>4 DEF Later
<1> QED
  BY <1>5 DEF A, B

\* What the mesh's part does to the mesh
LEMMA MeshDoes ==
  ASSUME NEW profile, NEW device, NEW radio, NEW standby, NEW here \in BOOLEAN,
         profile.mesh = here
  PROVE  LET P == AuthorMesh(profile, device, radio, standby)
         IN  /\ Net(P, MeshKey) = IF here THEN "on" ELSE "none"
             /\ Net(P, AttachedKey) =
                  IF here THEN IF BatmanOn(profile, device) THEN "on" ELSE "off"
                  ELSE "none"
<1> DEFINE on == BatmanOn(profile, device)
           values == MeshOptions(radio, on, standby)
           c == [op |-> "section", pkg |-> "wireless", sec |-> MeshSection, arg |-> values]
           P == AuthorMesh(profile, device, radio, standby)
<1>1. CASE ~here
  <2>1. P = <<>>
    BY <1>1 DEF AuthorMesh
  <2> QED
    BY <1>1, <2>1, NetEmpty
<1>2. CASE here
  <2>1. P = Call("section", "wireless", MeshSection, values)
    BY <1>2 DEF AuthorMesh, SetSection
  <2>2. \A k : Net(Call("section", "wireless", MeshSection, values), k) = Effect(c, k)
    BY NetOfCall
  <2>3. Effect(c, MeshKey) = "on"
    BY DEF Effect, TurnsOn, MeshKey, Exists, Fact
  <2>4. /\ "network" \in DOMAIN values
        /\ values.network = IF on THEN MeshHardif ELSE Section("lan")
        /\ MeshHardif # Section("lan")
    BY DEF MeshOptions, MeshHardif, Section, Named
  <2> HIDE DEF values, on
  <2>5. Effect(c, AttachedKey) = IF on THEN "on" ELSE "off"
    BY <2>4 DEF Effect, TurnsOn, TurnsOff, Writes, Removes, AttachedKey, HasOption, Fact
  <2> QED
    BY <1>2, <2>1, <2>2, <2>3, <2>5 DEF on
<1> QED
  BY <1>1, <1>2

\* What applying a profile does to the mesh, to batman and to the members of the
\* bridge
LEMMA ProfileDoes ==
  ASSUME RadiosAreListed, NEW profile, NEW device, NEW standby,
         profile.mesh \in BOOLEAN, IsFiniteSet(device.wired), Iface \notin device.wired
  PROVE  LET P == ApplyProfile(profile, device, standby)
             on == BatmanOn(profile, device)
         IN  /\ Net(P, MeshKey) = IF profile.mesh THEN "on" ELSE "none"
             /\ Net(P, AttachedKey) =
                  IF profile.mesh THEN IF on THEN "on" ELSE "off" ELSE "none"
             /\ on => /\ Net(P, BatKey) = "on" /\ Net(P, HardifKey) = "on"
                      /\ \A p \in device.wired :
                           Net(P, WiredKey(p)) = "on" /\ Net(P, Bridged(p)) = "off"
                      /\ Net(P, Bridged(Iface)) = "on"
<1> DEFINE P == ApplyProfile(profile, device, standby)
           on == BatmanOn(profile, device)
           A == AuthorBatman(profile, device)
           B == AuthorMesh(profile, device, MeshRadio(profile, device), standby)
           Bounds(k) == PlainKey(k) /\ KeyName(k) \notin APNames \cup RadioNames \cup {Application, Fallback}
           W == device.wired
           L == W \cup {Iface}
           here == profile.mesh
<1>0. \A k : Bounds(k) => Net(P, k) = Later(Net(A, k), Net(B, k))
  BY ProfileWiring
<1>1. /\ Bounds(MeshKey) /\ Bounds(AttachedKey) /\ Bounds(BatKey) /\ Bounds(HardifKey)
      /\ \A p : Bounds(WiredKey(p)) /\ Bounds(Bridged(p))
  <2>1. /\ (MeshNames \cup BatmanNames)
             \cap (APNames \cup RadioNames \cup {Application, Fallback}) = {}
        /\ \A d : Member(d) \notin APNames \cup RadioNames \cup {Application, Fallback}
    BY DEF MeshNames, BatmanNames, APNames, RadioNames, Application, Fallback, Member
  <2> QED
    BY <2>1, Keys
<1>2. /\ \A k : Nameable(k) /\ KeyName(k) \in MeshNames => Net(A, k) = "none"
      /\ \A k : Nameable(k) /\ KeyName(k) \notin MeshNames => Net(B, k) = "none"
  <2>1. Footprint(BatmanApply(W), BatmanNames, L) /\ Footprint(B, MeshNames, {})
    BY BatmanFootprint, ProfileFootprint
  <2>2. Avoids(A, MeshNames)
    <3>1. BatmanNames \cap MeshNames = {} /\ \A d : Member(d) \notin MeshNames
      BY DEF BatmanNames, MeshNames, Member
    <3>2. Avoids(BatmanApply(W), MeshNames) /\ Avoids(<<>>, MeshNames)
      BY <2>1, <3>1, AvoidsRest, AvoidsMany
    <3> QED
      BY <3>2 DEF AuthorBatman
  <2>3. ASSUME NEW k, Nameable(k), KeyName(k) \notin MeshNames
        PROVE  Net(B, k) = "none"
    <3>1. Avoids(B, {KeyName(k)})
      BY <2>1, <2>3, AvoidsRest
    <3> QED
      BY <2>3, <3>1, AvoidsNet
  <2> QED
    BY <2>2, <2>3, AvoidsNet
<1>3. /\ Net(B, MeshKey) = IF here THEN "on" ELSE "none"
      /\ Net(B, AttachedKey) = IF here THEN IF on THEN "on" ELSE "off" ELSE "none"
  BY MeshDoes
<1>4. on => BatmanDoes(A, W, "on", "off", "on")
  BY BatmanApplyDoes DEF AuthorBatman
<1> HIDE DEF A, B, P, on, W, Bounds
<1>5. /\ Net(P, MeshKey) = IF here THEN "on" ELSE "none"
      /\ Net(P, AttachedKey) = IF here THEN IF on THEN "on" ELSE "off" ELSE "none"
  <2>1. Net(A, MeshKey) = "none" /\ Net(A, AttachedKey) = "none"
    BY <1>2, Keys, PlainIsNameable
  <2>2. /\ Net(P, MeshKey) = Later("none", Net(B, MeshKey))
        /\ Net(P, AttachedKey) = Later("none", Net(B, AttachedKey))
    BY <1>0, <1>1, <2>1
  <2> QED
    BY <1>3, <2>2 DEF Later
<1>6. ASSUME NEW k, Bounds(k), Nameable(k), KeyName(k) \notin MeshNames
      PROVE  Net(P, k) = Net(A, k)
  BY <1>0, <1>2, <1>6 DEF Later
<1>7. ASSUME on
      PROVE  /\ Net(P, BatKey) = "on" /\ Net(P, HardifKey) = "on"
             /\ \A p \in W : Net(P, WiredKey(p)) = "on" /\ Net(P, Bridged(p)) = "off"
             /\ Net(P, Bridged(Iface)) = "on"
  <2>1. /\ Nameable(BatKey) /\ Nameable(HardifKey)
        /\ KeyName(BatKey) \notin MeshNames /\ KeyName(HardifKey) \notin MeshNames
        /\ \A p : /\ Nameable(WiredKey(p)) /\ Nameable(Bridged(p))
                  /\ KeyName(WiredKey(p)) \notin MeshNames /\ KeyName(Bridged(p)) \notin MeshNames
    <3>1. BatmanNames \cap MeshNames = {} /\ \A d : Member(d) \notin MeshNames
      BY DEF BatmanNames, MeshNames, Member
    <3> QED
      BY <3>1, Keys, PlainIsNameable
  <2>2. Net(P, BatKey) = Net(A, BatKey) /\ Net(P, HardifKey) = Net(A, HardifKey)
    BY <1>1, <1>6, <2>1
  <2>3. \A p : Net(P, WiredKey(p)) = Net(A, WiredKey(p)) /\ Net(P, Bridged(p)) = Net(A, Bridged(p))
    BY <1>1, <1>6, <2>1
  <2>4. /\ Net(A, BatKey) = "on" /\ Net(A, HardifKey) = "on"
        /\ \A p \in W : Net(A, WiredKey(p)) = "on"
        /\ Net(A, Bridged(Iface)) = "on"
    BY <1>4, <1>7 DEF BatmanDoes, Does
  <2>5. \A p \in W : Net(A, Bridged(p)) = "off"
    <3>1. \A p \in W : p # Iface
      BY DEF W
    <3> QED
      BY <1>4, <1>7, <3>1 DEF BatmanDoes, Does
  <2> QED
    BY <2>2, <2>3, <2>4, <2>5
<1> QED
  BY <1>5, <1>7 DEF P, on, W

\* How it ends: it commits what it staged, looks last, and what it records is left
\* to what it sees then.
LEMMA ProfileEnds ==
  ASSUME RadiosAreListed, NEW profile, NEW device, NEW standby,
         profile.mesh \in BOOLEAN, IsFiniteSet(device.wired)
  PROVE  LET P == ApplyProfile(profile, device, standby)
         IN  /\ \A x : Net(P, Recorded(x)) = "off"
             /\ Net(P, Unverified) = IF profile.mesh THEN "on" ELSE "none"
             /\ Net(P, Uncommitted("wireless")) = "off"
             /\ BatmanOn(profile, device) => Net(P, Uncommitted("network")) = "off"
             /\ LooksLast(P)
<1> DEFINE P == ApplyProfile(profile, device, standby)
           on == BatmanOn(profile, device)
           here == profile.mesh
           L == device.wired \cup {Iface}
           A == AuthorBatman(profile, device)
           B == AuthorMesh(profile, device, MeshRadio(profile, device), standby)
           C == AuthorTargets(profile)
           E == Prune(profile)
           F == EnableRadios(profile, device)
           G == Activate(on)
           H == Verify(profile, device)
           M == Call("mesh_up", "wireless", MeshSection, [mesh |-> here])
           N == Call("batman_up", "network", IfaceSection, NoArg)
           m == [op |-> "mesh_up", pkg |-> "wireless", sec |-> MeshSection,
                 arg |-> [mesh |-> here]]
           n == [op |-> "batman_up", pkg |-> "network", sec |-> IfaceSection, arg |-> NoArg]
           e == [op |-> "prune", pkg |-> "wireless", sec |-> APSection,
                 arg |-> [keep |-> DOMAIN Targets(profile)]]
<1>0. P = A \o B \o (C \o E) \o F \o G \o H
  BY ProfileParts
<1>1. \A k : Net(P, k) =
               Later(Later(Later(Later(Later(Net(A, k), Net(B, k)),
                 Later(Net(C, k), Net(E, k))), Net(F, k)), Net(G, k)), Net(H, k))
  BY ProfileNet
<1>2. /\ IsProgram(M) /\ ToSet(M) = {m} /\ \A k : Net(M, k) = Effect(m, k)
      /\ IsProgram(N) /\ ToSet(N) = {n} /\ \A k : Net(N, k) = Effect(n, k)
      /\ IsProgram(E) /\ ToSet(E) = {e}
  <2>1. IsProgram(M) /\ ToSet(M) = {m} /\ IsProgram(N) /\ ToSet(N) = {n}
    BY OneCall DEF Call
  <2>2. IsProgram(E) /\ ToSet(E) = {e}
    BY OneCall DEF Prune, Call
  <2>3. \A k : Net(M, k) = Effect(m, k)
    BY NetOfCall
  <2>4. \A k : Net(N, k) = Effect(n, k)
    BY NetOfCall
  <2> QED
    BY <2>1, <2>2, <2>3, <2>4
<1>3. /\ m.op = "mesh_up" /\ m.arg.mesh = here /\ n.op = "batman_up" /\ e.op = "prune"
  OBVIOUS
<1>4. H = (IF on THEN N ELSE <<>>) \o M
  BY DEF Verify
<1>5. /\ (on => Footprint(A, BatmanNames, L)) /\ (~on => A = <<>>)
      /\ Footprint(B, MeshNames, {}) /\ Footprint(C, APNames, {})
      /\ Footprint(F, RadioNames, {}) /\ Footprint(G, {}, {})
  BY BatmanFootprint, ProfileFootprint DEF AuthorBatman
<1>e. /\ here \in BOOLEAN /\ on => here
      /\ on \in BOOLEAN
  BY DEF BatmanOn
<1>g. G = (IF on THEN Commit("network") ELSE <<>>) \o Commit("wireless") \o Reload
  BY DEF Activate
<1> HIDE DEF A, B, C, E, F, G, H, M, N, P, on, here, m, n, e
<1>6. /\ NeverLooks(A) /\ NeverLooks(B) /\ NeverLooks(C) /\ NeverLooks(E)
      /\ NeverLooks(F) /\ NeverLooks(G)
  <2>1. NeverLooks(E)
    BY <1>2, <1>3 DEF NeverLooks, Looks
  <2>2. NeverLooks(A)
    BY <1>5, NeverLooksMany
  <2> QED
    BY <1>5, <2>1, <2>2, NeverLooksMany
<1>7. ASSUME NEW k, \A c : Effect(c, k) # "none" => c.op \in {"backhaul_state", "mesh_up"},
             \A X, S, D : Footprint(X, S, D) => Net(X, k) = "none"
      PROVE  Net(P, k) = Net(M, k)
  <2>1. Net(E, k) = "none" /\ Net(N, k) = "none"
    <3>1. Effect(e, k) = "none" /\ Effect(n, k) = "none"
      BY <1>3, <1>7
    <3> QED
      BY <1>2, <3>1, NetNone
  <2>2. /\ Net(A, k) = "none" /\ Net(B, k) = "none" /\ Net(C, k) = "none"
        /\ Net(F, k) = "none" /\ Net(G, k) = "none"
    BY <1>5, <1>7, NetEmpty
  <2>3. Net(H, k) = Net(M, k)
    <3>1. CASE on
      <4>1. Net(N \o M, k) = Later(Net(N, k), Net(M, k))
        BY <1>2, NetConcat
      <4> QED
        BY <1>4, <2>1, <3>1, <4>1 DEF Later
    <3>2. CASE ~on
      <4>1. \A X : IsProgram(X) => Net(X \o M, k) = Later(Net(X, k), Net(M, k))
        BY <1>2, NetConcat
      <4> QED
        BY <1>4, <3>2, <4>1, EmptyProgram, NetEmpty DEF Later
    <3> QED
      BY <3>1, <3>2
  <2> QED
    BY <1>1, <2>1, <2>2, <2>3 DEF Later
<1>8. ASSUME NEW x
      PROVE  Net(P, Recorded(x)) = "off"
  <2> DEFINE k == Recorded(x)
  <2>1. /\ \A c : Effect(c, k) # "none" => c.op \in {"backhaul_state", "mesh_up"}
        /\ \A X, S, D : Footprint(X, S, D) => Net(X, k) = "none"
    BY RecordEffect, FootprintNet DEF FootprintFacts, Does
  <2>2. Effect(m, k) = "off"
    BY <1>3 DEF Effect, TurnsOn, TurnsOff, Recorded, Fact
  <2> HIDE DEF k
  <2>3. Net(P, k) = Net(M, k)
    BY <1>7, <2>1
  <2> QED
    BY <1>2, <2>2, <2>3 DEF k
<1>9. Net(P, Unverified) = IF here THEN "on" ELSE "none"
  <2> DEFINE k == Unverified
  <2>1. /\ \A c : Effect(c, k) # "none" => c.op \in {"backhaul_state", "mesh_up"}
        /\ \A X, S, D : Footprint(X, S, D) => Net(X, k) = "none"
    BY RecordEffect, FootprintNet DEF FootprintFacts, Does
  <2>2. Effect(m, k) = IF here THEN "on" ELSE "none"
    BY <1>3 DEF Effect, TurnsOn, TurnsOff, Unverified, Fact
  <2> HIDE DEF k
  <2>3. Net(P, k) = Net(M, k)
    BY <1>7, <2>1
  <2> QED
    BY <1>2, <2>2, <2>3 DEF k
<1>10. ASSUME NEW p \in {"network", "wireless"}, p = "wireless" \/ on
       PROVE  Net(P, Uncommitted(p)) = "off"
  <2> DEFINE k == Uncommitted(p)
  <2>1. Net(H, k) = "none"
    <3>1. Effect(m, k) = "none" /\ Effect(n, k) = "none"
      BY <1>3, PackageEffects DEF Stages, Edits
    <3>2. Net(M, k) = "none" /\ Net(N, k) = "none"
      BY <1>2, <3>1
    <3> HIDE DEF k
    <3>3. \A X : IsProgram(X) => Net(X \o M, k) = Later(Net(X, k), Net(M, k))
      BY <1>2, NetConcat
    <3> QED
      BY <1>2, <1>4, <3>2, <3>3, EmptyProgram, NetEmpty DEF Later
  <2>2. Net(G, k) = "off"
    <3>1. /\ Does(Commit("wireless"), k, IF p = "wireless" THEN "off" ELSE "none")
          /\ Does(Commit("network"), k, IF p = "network" THEN "off" ELSE "none")
          /\ Does(Reload, k, "none") /\ Does(<<>>, k, "none")
      BY EndNet, EmptyProgram, NetEmpty DEF Packages, Does
    <3> HIDE DEF k
    <3>2. /\ Does(Commit("network") \o Commit("wireless") \o Reload, k,
                  Later(Later(IF p = "network" THEN "off" ELSE "none",
                              IF p = "wireless" THEN "off" ELSE "none"), "none"))
          /\ Does(<<>> \o Commit("wireless") \o Reload, k,
                  Later(Later("none", IF p = "wireless" THEN "off" ELSE "none"), "none"))
      BY <3>1, DoesConcat
    <3>3. CASE on
      BY <1>10, <1>g, <3>2, <3>3 DEF Later, Does
    <3>4. CASE ~on
      BY <1>10, <1>g, <3>2, <3>4 DEF Later, Does
    <3> QED
      BY <3>3, <3>4
  <2> HIDE DEF k
  <2>3. Net(P, k) = "off"
    BY <1>1, <2>1, <2>2 DEF Later
  <2> QED
    BY <2>3 DEF k
<1>11. LooksLast(P)
  <2>1. NeverLooks(A \o B \o (C \o E) \o F \o G)
    BY <1>6, NeverLooksMany
  <2>2. IsProgram(H) /\ LooksLast(H)
    <3>1. /\ Len(M) = 1 /\ Len(N) = 1 /\ M[1] = m /\ N[1] = n
      BY DEF M, N, m, n, Call
    <3>2. IsProgram(M) /\ IsProgram(N)
      BY <1>2
    <3>3. CASE on
      <4>1. /\ IsProgram(N \o M) /\ Len(N \o M) = 2 /\ (N \o M)[1] = n /\ (N \o M)[2] = m
        <5>1. /\ IsProgram(N \o M) /\ Len(N \o M) = Len(N) + Len(M)
              /\ \A i \in 1 .. Len(N) : (N \o M)[i] = N[i]
              /\ \A i \in 1 .. Len(M) : (N \o M)[Len(N) + i] = M[i]
          BY <3>2, Concat
        <5> QED
          BY <3>1, <5>1
      <4>2. DOMAIN (N \o M) = 1 .. 2
        BY <4>1 DEF IsProgram
      <4> DEFINE Q == N \o M
      <4> HIDE DEF Q
      <4>3. LooksLast(Q)
        BY <1>3, <4>1, <4>2 DEF LooksLast, Q
      <4> QED
        BY <1>4, <3>3, <4>1, <4>3 DEF Q
    <3>4. CASE ~on
      <4>1. <<>> \o M = M
        <5>1. M \in Seq(ToSet(M))
          BY <3>2 DEF IsProgram
        <5> QED
          BY <5>1, ConcatEmptySeq
      <4>2. DOMAIN M = 1 .. 1
        BY <3>1, <3>2 DEF IsProgram
      <4>3. LooksLast(M)
        BY <4>2 DEF LooksLast
      <4> QED
        BY <1>4, <3>2, <3>4, <4>1, <4>3
    <3> QED
      BY <3>3, <3>4
  <2> QED
    BY <1>0, <2>1, <2>2, LooksLastMany
<1> QED
  BY <1>8, <1>9, <1>10, <1>11 DEF P, on, here

\* What batmanFallback does: it detaches the mesh and takes batman down.
LEMMA FallbackDoes ==
  ASSUME NEW device, IsFiniteSet(device.wired), Iface \notin device.wired
  PROVE  LET P == BatmanFallback(device)
         IN  /\ NeverLooks(P) /\ \A x : Net(P, Recorded(x)) = "none"
             /\ Net(P, Unverified) = "none"
             /\ Net(P, MeshKey) = "none" /\ Net(P, AttachedKey) = "off"
             /\ Net(P, BatKey) = "off" /\ Net(P, HardifKey) = "off"
             /\ \A p \in device.wired :
                  Net(P, WiredKey(p)) = "off" /\ Net(P, Bridged(p)) = "on"
             /\ Net(P, Bridged(Iface)) = "off"
<1> DEFINE P == BatmanFallback(device)
           W == device.wired
           L == W \cup {Iface}
           values == [network |-> Section("lan")]
           A == Set("wireless", MeshSection, values)
           T == Teardown(W)
           E == Commit("network") \o Commit("wireless") \o Reload
           c == [op |-> "set", pkg |-> "wireless", sec |-> MeshSection, arg |-> values]
<1>1. /\ Footprint(P, BatmanNames \cup MeshNames, L) /\ Footprint(A, MeshNames, {})
      /\ Footprint(T, BatmanNames, L) /\ Footprint(E, {}, {})
  <2>1. Footprint(E, {}, {})
    BY FootprintCalls, FootprintMany
  <2>2. <<"wireless", MeshSection[1]>> \in MeshNames
    BY DEF MeshNames, MeshSection, Section, Named
  <2>3. Footprint(A, MeshNames, {})
    BY <2>2, FootprintCalls
  <2> QED
    BY <2>1, <2>3, FallbackFootprint, BatmanFootprint
<1>2. BatmanDoes(T, W, "off", "on", "off")
  BY TeardownDoes
<1>3. \A k : Net(A, k) = Effect(c, k)
  <2>1. \A k : Net(Call("set", "wireless", MeshSection, values), k) = Effect(c, k)
    BY NetOfCall
  <2> QED
    BY <2>1 DEF Set
<1>4. c.op = "set" /\ c.pkg = "wireless" /\ c.sec = MeshSection /\ c.arg = values
      /\ "network" \in DOMAIN values /\ values.network # MeshHardif
  BY DEF MeshHardif, Section, Named
<1>5. P = A \o T \o Commit("network") \o Commit("wireless") \o Reload
  BY DEF BatmanFallback
<1>c. /\ IsProgram(Commit("network")) /\ IsProgram(Commit("wireless")) /\ IsProgram(Reload)
  <2>1. \A pkg : Footprint(Commit(pkg), {}, {})
    BY FootprintCalls
  <2>2. Footprint(Reload, {}, {})
    BY FootprintCalls
  <2> QED
    BY <2>1, <2>2 DEF Footprint
<1>n. /\ MeshNames \cap BatmanNames = {}
      /\ \A d : Member(d) \notin MeshNames \cup BatmanNames
  BY DEF MeshNames, BatmanNames, Member
<1> HIDE DEF P, A, T, E, c, values, W
<1>6. \A k : Nameable(k) => Net(P, k) = Later(Net(A, k), Net(T, k))
  <2> DEFINE U == Commit("network")
             V == Commit("wireless")
             R == Reload
  <2>0. IsProgram(U) /\ IsProgram(V) /\ IsProgram(R) /\ IsProgram(A) /\ IsProgram(T)
    BY <1>1, <1>c DEF Footprint
  <2>1. Footprint(U, {}, {}) /\ Footprint(V, {}, {}) /\ Footprint(R, {}, {})
    BY FootprintCalls
  <2>2. P = A \o T \o U \o V \o R
    BY <1>5
  <2> HIDE DEF U, V, R
  <2>3. ASSUME NEW k, Nameable(k)
        PROVE  Net(U, k) = "none" /\ Net(V, k) = "none" /\ Net(R, k) = "none"
    <3>1. \A X : Footprint(X, {}, {}) => Avoids(X, {KeyName(k)})
      BY AvoidsRest
    <3> QED
      BY <2>1, <2>3, <3>1, AvoidsNet
  <2>4. IsProgram(A \o T) /\ IsProgram(A \o T \o U) /\ IsProgram(A \o T \o U \o V)
    BY <2>0, Concat
  <2>5. \A k : Net(P, k) = Later(Later(Later(Later(Net(A, k), Net(T, k)), Net(U, k)),
                                       Net(V, k)), Net(R, k))
    BY <2>0, <2>2, <2>4, NetConcat
  <2> QED
    BY <2>3, <2>5 DEF Later
<1>7. /\ NeverLooks(P) /\ \A x : Net(P, Recorded(x)) = "none"
      /\ Net(P, Unverified) = "none"
  BY <1>1, FootprintNet, NeverLooksMany DEF FootprintFacts, Does
<1>8. /\ \A k : Nameable(k) /\ KeyName(k) \notin BatmanNames /\ (\A d : KeyName(k) # Member(d)) =>
           Net(T, k) = "none"
      /\ \A k : Nameable(k) /\ KeyName(k) \notin MeshNames => Net(A, k) = "none"
  <2>1. ASSUME NEW k, Nameable(k), KeyName(k) \notin BatmanNames, \A d : KeyName(k) # Member(d)
        PROVE  Net(T, k) = "none"
    <3>1. Avoids(T, {KeyName(k)})
      BY <1>1, <2>1, AvoidsRest
    <3> QED
      BY <2>1, <3>1, AvoidsNet
  <2>2. ASSUME NEW k, Nameable(k), KeyName(k) \notin MeshNames
        PROVE  Net(A, k) = "none"
    <3>1. Avoids(A, {KeyName(k)})
      BY <1>1, <2>2, AvoidsRest
    <3> QED
      BY <2>2, <3>1, AvoidsNet
  <2> QED
    BY <2>1, <2>2
<1>9. Effect(c, MeshKey) = "none" /\ Effect(c, AttachedKey) = "off"
  <2>1. Effect(c, MeshKey) = "none"
    BY <1>4, ExistsEffect DEF MeshKey
  <2>2. Effect(c, AttachedKey) = "off"
    BY <1>4 DEF Effect, TurnsOn, TurnsOff, Writes, Removes, AttachedKey, HasOption, Fact
  <2> QED
    BY <2>1, <2>2
<1>10. Net(P, MeshKey) = "none" /\ Net(P, AttachedKey) = "off"
  <2>1. Nameable(MeshKey) /\ Nameable(AttachedKey)
        /\ KeyName(MeshKey) \in MeshNames /\ KeyName(AttachedKey) \in MeshNames
    BY Keys, PlainIsNameable
  <2>2. Net(T, MeshKey) = "none" /\ Net(T, AttachedKey) = "none"
    BY <1>8, <1>n, <2>1
  <2> QED
    BY <1>3, <1>6, <1>9, <2>1, <2>2 DEF Later
<1>11. ASSUME NEW k, PlainKey(k), KeyName(k) \notin MeshNames
       PROVE  Net(P, k) = Net(T, k)
  BY <1>6, <1>8, <1>11, PlainIsNameable DEF Later
<1>12. /\ PlainKey(BatKey) /\ KeyName(BatKey) \notin MeshNames
       /\ PlainKey(HardifKey) /\ KeyName(HardifKey) \notin MeshNames
       /\ \A p : /\ PlainKey(WiredKey(p)) /\ KeyName(WiredKey(p)) \notin MeshNames
                 /\ PlainKey(Bridged(p)) /\ KeyName(Bridged(p)) \notin MeshNames
  BY <1>n, Keys
<1>13. /\ Net(T, BatKey) = "off" /\ Net(T, HardifKey) = "off" /\ Net(T, Bridged(Iface)) = "off"
       /\ \A p \in W : Net(T, WiredKey(p)) = "off"
  BY <1>2 DEF BatmanDoes, Does
<1>14. \A p \in W : Net(T, Bridged(p)) = "on"
  <2>1. \A p \in W : p # Iface
    BY DEF W
  <2> QED
    BY <1>2, <2>1 DEF BatmanDoes, Does
<1>15. /\ Net(P, BatKey) = "off" /\ Net(P, HardifKey) = "off" /\ Net(P, Bridged(Iface)) = "off"
       /\ \A p \in W : Net(P, WiredKey(p)) = "off" /\ Net(P, Bridged(p)) = "on"
  BY <1>11, <1>12, <1>13, <1>14
<1> QED
  BY <1>7, <1>10, <1>15 DEF P, W

\* What verifyBackhaul does: it records what it saw, and removes a mesh that did not
\* come up.
LEMMA VerdictsDo ==
  /\ NeverLooks(Degrade)
  /\ Net(Degrade, MeshKey) = "off" /\ Net(Degrade, AttachedKey) = "off"
  /\ \A x : Net(Degrade, Recorded(x)) = "none"
  /\ \A k : PlainKey(k) /\ KeyName(k) \notin MeshNames => Net(Degrade, k) = "none"
  /\ \A y : /\ NeverLooks(SetBackhaulState(y))
            /\ \A x : Net(SetBackhaulState(y), Recorded(x)) = IF x = y THEN "on" ELSE "off"
            /\ \A k : PlainKey(k) => Net(SetBackhaulState(y), k) = "none"
            /\ Net(SetBackhaulState(y), Unverified) = "none"
<1>1. Footprint(Degrade, MeshNames, {})
  BY SwitchFootprint
<1>2. NeverLooks(Degrade) /\ \A x : Net(Degrade, Recorded(x)) = "none"
  BY <1>1, FootprintNet, NeverLooksMany DEF FootprintFacts, Does
<1>3. ASSUME NEW k, PlainKey(k), KeyName(k) \notin MeshNames
      PROVE  Net(Degrade, k) = "none"
  <2>1. Avoids(Degrade, {KeyName(k)})
    BY <1>1, <1>3, AvoidsRest
  <2> QED
    BY <1>3, <2>1, AvoidsNet, PlainIsNameable
<1>4. Net(Degrade, MeshKey) = "off" /\ Net(Degrade, AttachedKey) = "off"
  <2> DEFINE A == Delete("wireless", MeshSection)
             B == Commit("wireless")
             C == Reload
             c == [op |-> "delete", pkg |-> "wireless", sec |-> MeshSection, arg |-> NoArg]
  <2>1. \A k : Net(A, k) = Effect(c, k)
    <3>1. \A arg, k : Net(Call("delete", "wireless", MeshSection, arg), k) =
             Effect([op |-> "delete", pkg |-> "wireless", sec |-> MeshSection, arg |-> arg], k)
      BY NetOfCall
    <3> QED
      BY <3>1, Zenon DEF Delete
  <2>2. c.op = "delete" /\ c.pkg = "wireless" /\ c.sec = MeshSection
    OBVIOUS
  <2>3. Degrade = A \o B \o C
    BY DEF Degrade
  <2>4. Footprint(B, {}, {}) /\ Footprint(C, {}, {})
    BY FootprintCalls
  <2>5. IsProgram(A)
    <3>1. \A arg : IsProgram(Call("delete", "wireless", MeshSection, arg))
      BY OneCall DEF Call
    <3> QED
      BY <3>1, Zenon DEF Delete
  <2> HIDE DEF A, B, C, c
  <2>6. Effect(c, MeshKey) = "off" /\ Effect(c, AttachedKey) = "off"
    <3>1. Effect(c, MeshKey) = "off"
      BY <2>2, ExistsEffect DEF MeshKey
    <3>2. Effect(c, AttachedKey) = "off"
      BY <2>2 DEF Effect, TurnsOn, TurnsOff, Writes, Removes, AttachedKey, HasOption, Fact
    <3> QED
      BY <3>1, <3>2
  <2>7. ASSUME NEW k, Nameable(k)
        PROVE  Net(B, k) = "none" /\ Net(C, k) = "none"
    <3>1. \A X : Footprint(X, {}, {}) => Avoids(X, {KeyName(k)})
      BY AvoidsRest
    <3> QED
      BY <2>4, <2>7, <3>1, AvoidsNet
  <2>8. IsProgram(B) /\ IsProgram(C) /\ IsProgram(A \o B)
    BY <2>4, <2>5, Concat DEF Footprint
  <2>9. \A k : Net(Degrade, k) = Later(Later(Net(A, k), Net(B, k)), Net(C, k))
    BY <2>3, <2>5, <2>8, NetConcat
  <2>10. Nameable(MeshKey) /\ Nameable(AttachedKey)
    BY Keys, PlainIsNameable
  <2> QED
    BY <2>1, <2>6, <2>7, <2>9, <2>10 DEF Later
<1>5. ASSUME NEW y
      PROVE  /\ NeverLooks(SetBackhaulState(y))
             /\ \A x : Net(SetBackhaulState(y), Recorded(x)) = IF x = y THEN "on" ELSE "off"
             /\ \A k : PlainKey(k) => Net(SetBackhaulState(y), k) = "none"
             /\ Net(SetBackhaulState(y), Unverified) = "none"
  <2> DEFINE c == [op |-> "backhaul_state", pkg |-> "wireless", sec |-> MeshSection,
                   arg |-> [state |-> y]]
             P == SetBackhaulState(y)
  <2>1. IsProgram(P) /\ ToSet(P) = {c}
    BY OneCall DEF SetBackhaulState, Call
  <2>2. \A k : Net(P, k) = Effect(c, k)
    BY NetOfCall DEF SetBackhaulState
  <2>3. c.op = "backhaul_state" /\ c.arg.state = y
    OBVIOUS
  <2> HIDE DEF c, P
  <2>4. NeverLooks(P)
    BY <2>1, <2>3 DEF NeverLooks, Looks
  <2>5. \A x : Effect(c, Recorded(x)) = IF x = y THEN "on" ELSE "off"
    BY <2>3 DEF Effect, TurnsOn, TurnsOff, Recorded, Fact
  <2>6. Effect(c, Unverified) = "none"
    BY <2>3, RecordEffect
  <2>7. \A k : PlainKey(k) => Net(P, k) = "none"
    <3>1. \A k : PlainKey(k) => Effect(c, k) = "none"
      BY <2>3 DEF PlainKey, Effect, TurnsOn, TurnsOff, Writes, Removes
    <3> QED
      BY <2>2, <3>1
  <2> QED
    BY <2>2, <2>4, <2>5, <2>6, <2>7 DEF P
<1> QED
  BY <1>2, <1>3, <1>4, <1>5

\* Nothing that looks decides a plain fact.
LEMMA LooksAreIdle ==
  ASSUME NEW P, IsProgram(P), \A c \in ToSet(P) : c.op \in Looks, NEW k, PlainKey(k)
  PROVE  Net(P, k) = "none"
<1>1. \A c : c.op \in Looks => Effect(c, k) = "none"
  BY DEF Looks, PlainKey, Effect, TurnsOn, TurnsOff, Writes, Removes
<1> QED
  BY <1>1, NetNone

\* A posture decides whether the uplink is in the LAN bridge, if it has found it,
\* and commits that.
LEMMA PostureDoes ==
  ASSUME NEW role, NEW found
  PROVE  /\ found => Net(ApplyPosture(role, found), Bridged(Uplink)) =
                       IF role = "controller" THEN "off" ELSE "on"
         /\ Net(ApplyPosture(role, found), Uncommitted("network")) = "off"
<1> DEFINE up == Bridged(Uplink)
           net == Uncommitted("network")
           M == IF found THEN DelListItem(Uplink) ELSE <<>>
           N == IF found THEN AddListItem(Uplink) ELSE <<>>
           C == M \o Set("network", Section("wan"), [disabled |-> "0"])
                  \o Set("dhcp", Section("lan"), [ignore |-> "0"])
           E == N \o Set("network", Section("lan"), [proto |-> "dhcp"])
                  \o Set("network", Section("wan"), [disabled |-> "1"])
                  \o Set("dhcp", Section("lan"), [ignore |-> "1"])
           A == ApplySets
           off == IF found THEN "off" ELSE "none"
           on == IF found THEN "on" ELSE "none"
<1>1. Does(M, up, off) /\ Does(N, up, on)
      /\ \A pkg, sec, arg : Does(Set(pkg, sec, arg), up, "none")
  <2>1. /\ Does(DelListItem(Uplink), up, IF Uplink = Uplink THEN "off" ELSE "none")
        /\ Does(AddListItem(Uplink), up, IF Uplink = Uplink THEN "on" ELSE "none")
        /\ \A pkg, sec, arg : Does(Set(pkg, sec, arg), up, "none")
    BY CallsDo
  <2>2. Does(<<>>, up, "none")
    BY NetEmpty, EmptyProgram DEF Does
  <2> QED
    BY <2>1, <2>2
<1> HIDE DEF up, M, N, off, on
<1>2. \A e : Later(e, "none") = e /\ Later(e, "off") = "off"
  BY DEF Later
<1>3. Does(C, up, off) /\ Does(E, up, on)
  BY <1>1, <1>2, DoesConcat
<1>4. Does(A, up, "none")
  <2>1. Footprint(A, {}, {})
    BY FootprintCalls, FootprintMany DEF ApplySets
  <2>2. Nameable(up)
    BY Keys, PlainIsNameable DEF up
  <2>3. Avoids(A, {KeyName(up)})
    BY <2>1, AvoidsRest
  <2>4. Net(A, up) = "none"
    BY <2>2, <2>3, AvoidsNet
  <2> QED
    BY <2>1, <2>4 DEF Does, Footprint
<1>5. Does(A, net, "off")
  <2> DEFINE B == Commit("network") \o Commit("dhcp")
  <2>1. Commits(B, {"network", "dhcp"})
    BY SomeCommits
  <2>2. A = B \o Reload
    BY DEF ApplySets
  <2> HIDE DEF A, B
  <2>3. Does(B, net, "off") /\ Does(Reload, net, "none")
    BY <2>1, EndNet DEF Commits, Does, Packages
  <2> HIDE DEF net
  <2> QED
    BY <1>2, <2>2, <2>3, DoesConcat
<1> HIDE DEF A, C, E, net
<1>6. Does(C, net, Net(C, net)) /\ Does(E, net, Net(E, net))
  BY <1>3 DEF Does
<1>7. Does(C \o A, up, off) /\ Does(E \o A, up, on)
  BY <1>2, <1>3, <1>4, DoesConcat
<1>8. Does(C \o A, net, "off") /\ Does(E \o A, net, "off")
  BY <1>2, <1>5, <1>6, DoesConcat
<1>9. ApplyPosture(role, found) = IF role = "controller" THEN C \o A ELSE E \o A
  BY DEF ApplyPosture, ApplyController, ApplyBridgedDumbAP, A, C, E, M, N
<1> QED
  BY <1>7, <1>8, <1>9 DEF Does, up, net, off, on

-----------------------------------------------------------------------------
(* The access points of a profile *)

\* What applying a profile makes hold of the access points, and what it ends
APOn(p) ==
  {Exists("wireless", s) : s \in DOMAIN Targets(p)}
    \cup {HasOption("wireless", s, "device", Targets(p)[s]) : s \in DOMAIN Targets(p)}
APOff(p) == {Exists("wireless", s) : s \in SecondaryAPs \ DOMAIN Targets(p)}
APFacts(p) == APOn(p) \cup APOff(p)

\* Whose access points these are does not matter to what a call does to them.
APFact(k) ==
  \E s \in {APSection} \cup SecondaryAPs :
    k = Exists("wireless", s) \/ \E r : k = HasOption("wireless", s, "device", r)

LEMMA APSectionNames ==
  /\ APSection[1] = "omm_ap" /\ APSection \notin SecondaryAPs
  /\ \A s \in SecondaryAPs : s[1] = "omm_ap_"
  /\ \A s \in {APSection} \cup SecondaryAPs :
       s # LanDevice /\ <<"wireless", s[1]>> \in APNames
<1>1. APSection[1] = "omm_ap"
  BY DEF APSection, Section, Named
<1>2. \A s \in SecondaryAPs : s[1] = "omm_ap_"
  BY Names DEF SecondaryAPs
<1>3. LanDevice[1] = "bridge"
  BY DEF LanDevice, Section, Named
<1> QED
  BY <1>1, <1>2, <1>3 DEF APNames

LEMMA APFactIs ==
  ASSUME NEW k, APFact(k)
  PROVE  ConfigKey(k) /\ k.pkg = "wireless" /\ k.kind \in {"exists", "option"}
<1>1. PICK s \in {APSection} \cup SecondaryAPs :
         k = Exists("wireless", s) \/ \E r : k = HasOption("wireless", s, "device", r)
  BY DEF APFact
<1>2. /\ k.pkg = "wireless" /\ k.kind \in {"exists", "option"}
      /\ k.sec = s /\ k.option # "disabled"
  <2>1. LET x == Exists("wireless", s)
        IN  /\ x.pkg = "wireless" /\ x.kind = "exists"
            /\ x.sec = s /\ x.option # "disabled"
    BY DEF Exists, Fact
  <2>2. \A r : LET x == HasOption("wireless", s, "device", r)
               IN  /\ x.pkg = "wireless" /\ x.kind = "option"
                   /\ x.sec = s /\ x.option # "disabled"
    BY DEF HasOption, Fact
  <2> QED
    BY <1>1, <2>1, <2>2
<1>3. s = APSection => PlainKey(k)
  BY <1>2, APSectionNames DEF PlainKey, Packages
<1>4. s \in SecondaryAPs => APKey(k)
  BY <1>2 DEF APKey
<1> QED
  BY <1>2, <1>3, <1>4 DEF ConfigKey

LEMMA TargetsAre ==
  ASSUME RadiosAreListed, NEW p
  PROVE  /\ IsFiniteSet(DOMAIN Targets(p)) /\ APSection \in DOMAIN Targets(p)
         /\ DOMAIN Targets(p) \subseteq {APSection} \cup SecondaryAPs
         /\ DOMAIN Targets(p) =
              {APSection} \cup {SecondaryAP(b) : b \in ExtraBands(p, ResolveRadio(p))}
<1>1. /\ IsFiniteSet(DOMAIN Targets(p))
      /\ DOMAIN Targets(p) =
           {APSection} \cup {SecondaryAP(b) : b \in ExtraBands(p, ResolveRadio(p))}
  BY FiniteTargets DEF Targets
<1>2. \A b \in ExtraBands(p, ResolveRadio(p)) : SecondaryAP(b) \in SecondaryAPs
  <2> TAKE b \in ExtraBands(p, ResolveRadio(p))
  <2>1. HasBand(b)
    BY DEF ExtraBands
  <2>2. PICK i \in DOMAIN Radios : BandOf[Radios[i]] = b
    BY <2>1 DEF HasBand, RadiosFor
  <2> QED
    BY <2>2 DEF SecondaryAPs
<1> QED
  BY <1>1, <1>2

LEMMA APFactsAre ==
  ASSUME RadiosAreListed, NEW p
  PROVE  /\ \A k \in APFacts(p) : APFact(k)
         /\ APOn(p) \cap APOff(p) = {}
<1>1. \A k \in APFacts(p) : APFact(k)
  BY TargetsAre DEF APFacts, APOn, APOff, APFact
<1>2. /\ \A s, o : Exists("wireless", s) = Exists("wireless", o) => s = o
      /\ \A s, o, r : Exists("wireless", s) # HasOption("wireless", o, "device", r)
  <2>1. \A s : Exists("wireless", s).sec = s /\ Exists("wireless", s).kind = "exists"
    BY DEF Exists, Fact
  <2>2. \A s, r : HasOption("wireless", s, "device", r).kind = "option"
    BY DEF HasOption, Fact
  <2> QED
    BY <2>1, <2>2
<1>3. APOn(p) \cap APOff(p) = {}
  <2> SUFFICES ASSUME NEW k \in APOn(p), k \in APOff(p)
               PROVE  FALSE
    OBVIOUS
  <2>1. PICK s \in SecondaryAPs \ DOMAIN Targets(p) : k = Exists("wireless", s)
    BY DEF APOff
  <2>2. \E o \in DOMAIN Targets(p) : k = Exists("wireless", o)
           \/ k = HasOption("wireless", o, "device", Targets(p)[o])
    BY DEF APOn
  <2> QED
    BY <1>2, <2>1, <2>2
<1> QED
  BY <1>1, <1>3

\* A call that names no access point has to do with none, but for the prune.
LEMMA APSpared ==
  ASSUME NEW c, Spares(c, APNames), c.op # "prune", NEW k, APFact(k)
  PROVE  Effect(c, k) = "none"
<1>1. PICK s \in {APSection} \cup SecondaryAPs :
         k = Exists("wireless", s) \/ \E r : k = HasOption("wireless", s, "device", r)
  BY DEF APFact
<1>2. ~(c.op \in {"section", "set", "delete"} /\ c.pkg = "wireless" /\ c.sec = s)
  BY APSectionNames DEF Spares
<1>3. CASE k = Exists("wireless", s)
  BY <1>2, <1>3, ExistsEffect
<1>4. CASE \E r : k = HasOption("wireless", s, "device", r)
  BY <1>2, <1>4, OptionEffect
<1> QED
  BY <1>1, <1>3, <1>4

LEMMA APKept ==
  ASSUME NEW k, APFact(k)
  PROVE  /\ \A c : Spares(c, APNames \cup {Application}) => Effect(c, k) = "none"
         /\ \A P : Avoids(P, APNames \cup {Application}) => Net(P, k) = "none"
         /\ \A P, S, L : Footprint(P, S, L) /\ S \cap APNames = {} => Net(P, k) = "none"
<1>1. ASSUME NEW c, Spares(c, APNames \cup {Application})
      PROVE  Effect(c, k) = "none"
  <2>1. Spares(c, APNames) /\ c.op # "prune"
    BY <1>1 DEF Spares
  <2> QED
    BY <2>1, APSpared
<1>2. ASSUME NEW P, Avoids(P, APNames \cup {Application})
      PROVE  Net(P, k) = "none"
  BY <1>1, <1>2, NetNone DEF Avoids
<1>3. ASSUME NEW P, NEW S, NEW L, Footprint(P, S, L), S \cap APNames = {}
      PROVE  Net(P, k) = "none"
  <2>1. ASSUME NEW c \in ToSet(P)
        PROVE  Effect(c, k) = "none"
    <3>1. c.op # "prune" /\ Spares(c, APNames)
      <4>1. \A d : Member(d) \notin APNames
        BY DEF Member, APNames
      <4>2. Known \notin APNames /\ Application \notin APNames /\ Fallback \notin APNames
        BY DEF Known, Application, Fallback, APNames
      <4> QED
        BY <1>3, <2>1, <4>1, <4>2 DEF Footprint, Spares
    <3> QED
      BY <3>1, APSpared
  <2> QED
    BY <1>3, <2>1, NetNone DEF Footprint
<1> QED
  BY <1>1, <1>2, <1>3

\* The calls that look, and the one that records
LEMMA APUnseen ==
  ASSUME NEW op \in {"batman_up", "mesh_up", "backhaul_state"}, NEW pkg, NEW sec, NEW arg,
         NEW k, APFact(k)
  PROVE  Net(Call(op, pkg, sec, arg), k) = "none"
<1> DEFINE c == [op |-> op, pkg |-> pkg, sec |-> sec, arg |-> arg]
<1>1. c.op = op
  OBVIOUS
<1>2. Net(Call(op, pkg, sec, arg), k) = Effect(c, k)
  BY NetOfCall
<1> HIDE DEF c
<1>3. Spares(c, APNames) /\ c.op # "prune"
  BY <1>1 DEF Spares, APNames, Application, Fallback
<1> QED
  BY <1>2, <1>3, APSpared

\* What the calls that author the access points and prune them do
LEMMA TargetsDo ==
  ASSUME RadiosAreListed, NEW p
  PROVE  \A k \in APFacts(p) :
           Later(Net(AuthorTargets(p), k), Net(Prune(p), k)) =
             IF k \in APOn(p) THEN "on" ELSE "off"
<1> DEFINE T == Targets(p)
           body == [s \in DOMAIN T |-> AuthorAP(s, T[s])]
           keep == DOMAIN T
           prune == [op |-> "prune", pkg |-> "wireless", sec |-> APSection,
                     arg |-> [keep |-> keep]]
<1>1. IsFiniteSet(DOMAIN body)
  BY TargetsAre
<1>2. \A s, r, k : Net(AuthorAP(s, r), k) =
         Effect([op |-> "section", pkg |-> "wireless", sec |-> s,
                 arg |-> [mode |-> "ap", device |-> r]], k)
  BY NetOfCall DEF AuthorAP, SetSection
<1>3. \A s, r : IsProgram(AuthorAP(s, r)) /\ Len(AuthorAP(s, r)) = 1
  BY OneCall DEF AuthorAP, SetSection, Call
<1>4. \A s, r : Net(AuthorAP(s, r), Exists("wireless", s)) = "on"
  <2> SUFFICES ASSUME NEW s, NEW r
               PROVE  Net(AuthorAP(s, r), Exists("wireless", s)) = "on"
    OBVIOUS
  <2> DEFINE c == [op |-> "section", pkg |-> "wireless", sec |-> s,
                   arg |-> [mode |-> "ap", device |-> r]]
  <2>1. c.op = "section" /\ c.pkg = "wireless" /\ c.sec = s
    OBVIOUS
  <2>2. Net(AuthorAP(s, r), Exists("wireless", s)) = Effect(c, Exists("wireless", s))
    BY <1>2
  <2> HIDE DEF c
  <2> QED
    BY <2>1, <2>2, ExistsEffect
<1>5. \A s, r : Net(AuthorAP(s, r), HasOption("wireless", s, "device", r)) = "on"
  <2> SUFFICES ASSUME NEW s, NEW r
               PROVE  Net(AuthorAP(s, r), HasOption("wireless", s, "device", r)) = "on"
    OBVIOUS
  <2> DEFINE c == [op |-> "section", pkg |-> "wireless", sec |-> s,
                   arg |-> [mode |-> "ap", device |-> r]]
             k == HasOption("wireless", s, "device", r)
  <2>1. /\ c.op = "section" /\ c.pkg = "wireless" /\ c.sec = s
        /\ "device" \in DOMAIN c.arg /\ c.arg["device"] = r
    OBVIOUS
  <2>2. Net(AuthorAP(s, r), k) = Effect(c, k)
    BY <1>2
  <2>3. /\ k.kind = "option" /\ k.pkg = "wireless" /\ k.sec = s
        /\ k.option = "device" /\ k.value = r
    BY DEF HasOption, Fact
  <2> HIDE DEF c, k
  <2>4. Effect(c, k) = "on"
    BY <2>1, <2>3 DEF Effect, TurnsOn, Writes
  <2> QED
    BY <2>2, <2>4 DEF k
<1>6. \A s, o, r : s # o =>
        /\ Net(AuthorAP(s, r), Exists("wireless", o)) = "none"
        /\ \A v : Net(AuthorAP(s, r), HasOption("wireless", o, "device", v)) = "none"
  <2> SUFFICES ASSUME NEW s, NEW o, NEW r, s # o
               PROVE  /\ Net(AuthorAP(s, r), Exists("wireless", o)) = "none"
                      /\ \A v : Net(AuthorAP(s, r), HasOption("wireless", o, "device", v)) = "none"
    OBVIOUS
  <2> DEFINE c == [op |-> "section", pkg |-> "wireless", sec |-> s,
                   arg |-> [mode |-> "ap", device |-> r]]
  <2>1. c.op = "section" /\ c.sec = s
    OBVIOUS
  <2>2. \A k : Net(AuthorAP(s, r), k) = Effect(c, k)
    BY <1>2
  <2> HIDE DEF c
  <2>3. Effect(c, Exists("wireless", o)) = "none"
    BY <2>1, ExistsEffect
  <2>4. \A v : Effect(c, HasOption("wireless", o, "device", v)) = "none"
    BY <2>1, OptionEffect
  <2> QED
    BY <2>2, <2>3, <2>4
<1>7. \A k : Net(Prune(p), k) = Effect(prune, k)
  BY NetOfCall DEF Prune
<1>8. prune.op = "prune" /\ prune.pkg = "wireless" /\ prune.arg.keep = keep
  OBVIOUS
<1>9. \A s \in DOMAIN T : body[s] = AuthorAP(s, T[s])
  OBVIOUS
<1>10. DOMAIN body = DOMAIN T /\ AuthorTargets(p) = ForEach(1, body)
  BY DEF AuthorTargets
<1> HIDE DEF prune, T, body
<1>11. ASSUME NEW s \in DOMAIN T
       PROVE  /\ Net(AuthorTargets(p), Exists("wireless", s)) = "on"
              /\ Net(AuthorTargets(p), HasOption("wireless", s, "device", T[s])) = "on"
              /\ Net(Prune(p), Exists("wireless", s)) = "none"
              /\ Net(Prune(p), HasOption("wireless", s, "device", T[s])) = "none"
  <2>1. \A x \in DOMAIN body : IsProgram(body[x]) /\ Len(body[x]) = 1
    BY <1>3, <1>9, <1>10
  <2>2. /\ OthersRest(body, Exists("wireless", s), s)
        /\ OthersRest(body, HasOption("wireless", s, "device", T[s]), s)
    BY <1>6, <1>9, <1>10 DEF OthersRest
  <2>3. ASSUME NEW k, OthersRest(body, k, s)
        PROVE  Net(ForEach(1, body), k) = Net(body[s], k)
    <3> DEFINE n == 1
    <3>1. n \in {1, 3, 4} /\ s \in DOMAIN body
      BY <1>10
    <3>2. \A x \in DOMAIN body : IsProgram(body[x]) /\ Len(body[x]) = n
      BY <2>1
    <3> HIDE DEF n
    <3>3. Net(ForEach(n, body), k) = Net(body[s], k)
      BY <1>1, <2>3, <3>1, <3>2, NetForEach
    <3> QED
      BY <3>3 DEF n
  <2>4. Effect(prune, Exists("wireless", s)) = "none"
    BY <1>8, ExistsEffect
  <2>5. Effect(prune, HasOption("wireless", s, "device", T[s])) = "none"
    <3> DEFINE k == HasOption("wireless", s, "device", T[s])
    <3>1. k.kind = "option" /\ k.sec = s
      BY DEF HasOption, Fact
    <3> HIDE DEF k
    <3>2. Effect(prune, k) = "none"
      BY <1>8, <3>1 DEF Effect, TurnsOn, TurnsOff, Writes, Removes
    <3> QED
      BY <3>2 DEF k
  <2> QED
    BY <1>4, <1>5, <1>7, <1>9, <1>10, <2>2, <2>3, <2>4, <2>5
<1>12. ASSUME NEW s \in SecondaryAPs \ DOMAIN T
       PROVE  Net(Prune(p), Exists("wireless", s)) = "off"
  BY <1>7, <1>8, <1>12, ExistsEffect
<1>13. \A k \in APFacts(p) : k \notin APOn(p) => k \in APOff(p)
  BY DEF APFacts
<1>14. ASSUME NEW k \in APOn(p)
       PROVE  Net(AuthorTargets(p), k) = "on" /\ Net(Prune(p), k) = "none"
  BY <1>11 DEF APOn, T
<1>15. ASSUME NEW k \in APOff(p)
       PROVE  Net(Prune(p), k) = "off"
  BY <1>12 DEF APOff, T
<1> QED
  BY <1>13, <1>14, <1>15 DEF Later

\* Applying a profile decides all of them.
LEMMA ProfileAPs ==
  ASSUME RadiosAreListed, NEW profile, NEW device, NEW standby,
         profile.mesh \in BOOLEAN, IsFiniteSet(device.wired)
  PROVE  \A k \in APFacts(profile) :
           Net(ApplyProfile(profile, device, standby), k) =
             IF k \in APOn(profile) THEN "on" ELSE "off"
<1> SUFFICES ASSUME NEW k \in APFacts(profile)
             PROVE  Net(ApplyProfile(profile, device, standby), k) =
                      IF k \in APOn(profile) THEN "on" ELSE "off"
  OBVIOUS
<1> DEFINE A == AuthorBatman(profile, device)
           B == AuthorMesh(profile, device, MeshRadio(profile, device), standby)
           C == AuthorTargets(profile)
           E == Prune(profile)
           F == EnableRadios(profile, device)
           G == Activate(BatmanOn(profile, device))
           H == Verify(profile, device)
           result == IF k \in APOn(profile) THEN "on" ELSE "off"
<1>1. APFact(k)
  BY APFactsAre
<1>2. Later(Net(C, k), Net(E, k)) = result
  BY TargetsDo
<1>3. \A P, S, L : Footprint(P, S, L) /\ S \cap APNames = {} => Net(P, k) = "none"
  BY <1>1, APKept
<1>4. /\ BatmanNames \cap APNames = {} /\ MeshNames \cap APNames = {}
      /\ RadioNames \cap APNames = {} /\ {} \cap APNames = {}
  BY DEF BatmanNames, MeshNames, RadioNames, APNames
<1>5. Net(A, k) = "none"
  <2>1. Footprint(BatmanApply(device.wired), BatmanNames, device.wired \cup {Iface})
    BY BatmanFootprint
  <2>2. Net(BatmanApply(device.wired), k) = "none" /\ Net(<<>>, k) = "none"
    BY <1>3, <1>4, <2>1, NetEmpty
  <2> QED
    BY <2>2 DEF AuthorBatman
<1>6. Net(B, k) = "none" /\ Net(F, k) = "none" /\ Net(G, k) = "none"
  <2>1. Footprint(B, MeshNames, {}) /\ Footprint(F, RadioNames, {}) /\ Footprint(G, {}, {})
    BY ProfileFootprint
  <2> HIDE DEF B, F, G
  <2> QED
    BY <1>3, <1>4, <2>1
<1>7. Net(H, k) = "none"
  <2> DEFINE I == Call("batman_up", "network", IfaceSection, NoArg)
             J == Call("mesh_up", "wireless", MeshSection, [mesh |-> profile.mesh])
  <2>1. Net(I, k) = "none" /\ Net(J, k) = "none" /\ Net(<<>>, k) = "none"
    BY <1>1, APUnseen, NetEmpty
  <2>2. IsProgram(I) /\ IsProgram(J) /\ IsProgram(<<>>)
    BY OneCall, EmptyProgram DEF Call
  <2>3. H = (IF BatmanOn(profile, device) THEN I ELSE <<>>) \o J
    BY DEF Verify
  <2> HIDE DEF H, I, J
  <2>4. \A P : IsProgram(P) /\ Net(P, k) = "none" => Net(P \o J, k) = "none"
    BY <2>1, <2>2, NetConcat DEF Later
  <2> QED
    BY <2>1, <2>2, <2>3, <2>4
<1>8. Net(ApplyProfile(profile, device, standby), k) =
        Later(Later(Later(Later(Later(Net(A, k), Net(B, k)),
          Later(Net(C, k), Net(E, k))), Net(F, k)), Net(G, k)), Net(H, k))
  BY ProfileNet
<1>9. result # "none"
  OBVIOUS
<1> HIDE DEF A, B, C, E, F, G, H, result
<1>10. Net(ApplyProfile(profile, device, standby), k) = result
  BY <1>2, <1>5, <1>6, <1>7, <1>8, <1>9 DEF Later
<1> QED
  BY <1>10 DEF result

\* The board has the daemon's default radio, and each radio has a band.
RadiosKnown ==
  DefaultRadio \in DOMAIN BandOf /\ \A i \in DOMAIN Radios : Radios[i] \in DOMAIN BandOf

LEMMA LowestIs ==
  ASSUME RadiosAreListed, NEW b, HasBand(b)
  PROVE  /\ BandOf[LowestRadioForBand(b)] = b
         /\ \E i \in DOMAIN Radios : LowestRadioForBand(b) = Radios[i]
<1> DEFINE D == RadiosFor(b)
           R == {r \in D \X D : r[1] < r[2]}
           first == CHOOSE i \in D : \A j \in D : i <= j
<1>1. DOMAIN Radios = 1 .. Len(Radios) /\ Len(Radios) \in Nat
  BY DEF RadiosAreListed
<1>2. D \subseteq 1 .. Len(Radios) /\ D # {}
  BY <1>1 DEF RadiosFor, HasBand
<1>3. IsFiniteSet(D)
  <2>1. IsFiniteSet(1 .. Len(Radios))
    BY <1>1, FS_Interval
  <2> HIDE DEF D
  <2> QED
    BY <1>2, <2>1, FS_Subset
<1>4. \A i \in D : BandOf[Radios[i]] = b /\ i \in DOMAIN Radios
  BY DEF RadiosFor
<1>5. LowestRadioForBand(b) = Radios[first]
  BY DEF LowestRadioForBand
<1> HIDE DEF D
<1>6. \A x, y \in D : <<x, y>> \in R <=> x < y
  OBVIOUS
<1>7. \A x \in D : x \in Int
  BY <1>1, <1>2
<1> HIDE DEF R
<1>8. PICK x \in D : \A y \in D : <<y, x>> \notin R
  <2>1. \A x \in D : <<x, x>> \notin R
    BY <1>6, <1>7
  <2>2. \A x, y, z \in D : <<x, y>> \in R /\ <<y, z>> \in R => <<x, z>> \in R
    BY <1>6, <1>7
  <2> QED
    BY <1>2, <1>3, <2>1, <2>2, MinimalElement
<1>9. \A y \in D : x <= y
  <2> TAKE y \in D
  <2>1. ~(y < x) /\ x \in Int /\ y \in Int
    BY <1>6, <1>7, <1>8
  <2> QED
    BY <2>1
<1>10. first \in D
  BY <1>9
<1> QED
  BY <1>4, <1>5, <1>10

\* The access points of a profile are on radios of their own, the primary one's and,
\* if the radios could be read, one of each band that is asked for and some other
\* radio has.
LEMMA TargetRadios ==
  ASSUME RadiosAreListed, RadiosKnown, NEW p, Resolvable(p)
  PROVE  LET T == Targets(p)
             bands == IF "aps" \in p.unread THEN {} ELSE Bands(p)
         IN  /\ \A s \in DOMAIN T : T[s] \in DOMAIN BandOf
             /\ {BandOf[T[s]] : s \in DOMAIN T} =
                  {BandOf[T[APSection]]} \cup {b \in bands : HasBand(b)}
             /\ \A s, o \in DOMAIN T : T[s] = T[o] => s = o
<1> DEFINE T == Targets(p)
           bands == IF "aps" \in p.unread THEN {} ELSE Bands(p)
           first == ResolveRadio(p)
           extra == ExtraBands(p, first)
<1>1. extra = {b \in bands : HasBand(b) /\ LowestRadioForBand(b) # first}
  BY DEF ExtraBands
<1>2. /\ APSection \in DOMAIN T
      /\ DOMAIN T = {APSection} \cup {SecondaryAP(b) : b \in extra}
  BY TargetsAre
<1>3. T[APSection] = first
  BY DEF Targets, ResolveAPTargets
<1>4. ASSUME NEW b \in extra
      PROVE  T[SecondaryAP(b)] = LowestRadioForBand(b)
  <2>1. SecondaryAP(b)[2] = b /\ SecondaryAP(b) # APSection
    <3>1. SecondaryAP(b)[2] = b
      BY DEF SecondaryAP, Named
    <3> QED
      BY <3>1, Names, APSectionNames
  <2> QED
    BY <2>1 DEF Targets, ResolveAPTargets
<1>5. first \in DOMAIN BandOf
  <2>1. \A i \in DOMAIN Radios : Radios[i] \in DOMAIN BandOf
    BY DEF RadiosKnown
  <2>2. \A b : HasBand(b) => LowestRadioForBand(b) \in DOMAIN BandOf
    BY <2>1, LowestIs
  <2>3. p.ap # "" => first = LowestRadioForBand(p.ap)
    BY Zenon DEF ResolveRadio
  <2>4. ~(p.ap # "") => first = DefaultRadio
    BY Zenon DEF ResolveRadio
  <2>5. p.ap # "" => HasBand(p.ap)
    BY Zenon DEF Resolvable
  <2> HIDE DEF first
  <2> QED
    BY <2>2, <2>3, <2>4, <2>5, Zenon DEF RadiosKnown
<1> HIDE DEF T, bands, first, extra
<1>6. \A b \in extra : /\ LowestRadioForBand(b) \in DOMAIN BandOf
                       /\ BandOf[LowestRadioForBand(b)] = b
                       /\ LowestRadioForBand(b) # first
  BY <1>1, LowestIs DEF RadiosKnown
<1>7. \A s \in DOMAIN T : s = APSection \/ \E b \in extra : s = SecondaryAP(b)
  BY <1>2
<1>8. \A s \in DOMAIN T : T[s] \in DOMAIN BandOf
  BY <1>3, <1>4, <1>5, <1>6, <1>7
<1>9. \A s, o \in DOMAIN T : T[s] = T[o] => s = o
  <2> SUFFICES ASSUME NEW s \in DOMAIN T, NEW o \in DOMAIN T, T[s] = T[o]
               PROVE  s = o
    OBVIOUS
  <2>0. \A x \in DOMAIN T : x # APSection => T[x] # first
    BY <1>4, <1>6, <1>7
  <2>1. CASE s = APSection
    BY <1>3, <2>0, <2>1
  <2>2. CASE o = APSection
    BY <1>3, <2>0, <2>2
  <2>3. CASE s # APSection /\ o # APSection
    <3>1. PICK b \in extra : s = SecondaryAP(b)
      BY <1>7, <2>3
    <3>2. PICK e \in extra : o = SecondaryAP(e)
      BY <1>7, <2>3
    <3>3. LowestRadioForBand(b) = LowestRadioForBand(e)
      BY <1>4, <3>1, <3>2
    <3>4. b = e
      BY <1>6, <3>3
    <3> QED
      BY <3>1, <3>2, <3>4
  <2> QED
    BY <2>1, <2>2, <2>3
<1>10. {BandOf[T[s]] : s \in DOMAIN T} = {BandOf[T[APSection]]} \cup {b \in bands : HasBand(b)}
  <2>1. \A b \in bands : HasBand(b) => b = BandOf[first] \/ b \in extra
    BY <1>1, LowestIs
  <2>2. \A b \in extra : b \in bands /\ HasBand(b)
    BY <1>1
  <2>3. \A b \in extra : SecondaryAP(b) \in DOMAIN T /\ BandOf[T[SecondaryAP(b)]] = b
    BY <1>2, <1>4, <1>6
  <2>4. ASSUME NEW s \in DOMAIN T
        PROVE  BandOf[T[s]] \in {BandOf[T[APSection]]} \cup {b \in bands : HasBand(b)}
    BY <1>7, <2>2, <2>3
  <2>5. ASSUME NEW b \in bands, HasBand(b)
        PROVE  b \in {BandOf[T[s]] : s \in DOMAIN T}
    BY <1>2, <1>3, <2>1, <2>3, <2>5
  <2> QED
    BY <1>2, <2>4, <2>5
<1> QED
  BY <1>8, <1>9, <1>10 DEF T, bands

-----------------------------------------------------------------------------
(* What a call makes of a configuration *)

IsConfig(c) == c = [p \in Packages |-> c[p]]

\* Only the one section may differ.
SameBut(c, n, pkg, sec) ==
  /\ IsConfig(n)
  /\ \A p \in Packages \ {pkg} : n[p] = c[p]
  /\ \A s : s # sec => (s \in DOMAIN n[pkg] <=> s \in DOMAIN c[pkg])
  /\ \A s \in DOMAIN c[pkg] : s # sec => n[pkg][s] = c[pkg][s]

LEMMA WithOptionsIs ==
  ASSUME NEW c, IsConfig(c), NEW pkg \in Packages, NEW sec, NEW values
  PROVE  LET n == WithOptions(c, pkg, sec, values)
             old == IF Has(c, pkg, sec) THEN c[pkg][sec] ELSE <<>>
         IN  SameBut(c, n, pkg, sec) /\ Has(n, pkg, sec)
               /\ n[pkg][sec] = Overlay(values, old)
BY DEF WithOptions, IsConfig, SameBut, Has

LEMMA WithoutSectionIs ==
  ASSUME NEW c, IsConfig(c), NEW pkg \in Packages, NEW sec
  PROVE  LET n == WithoutSection(c, pkg, sec)
         IN  SameBut(c, n, pkg, sec) /\ ~Has(n, pkg, sec)
BY DEF WithoutSection, IsConfig, SameBut, Has

LEMMA SameMembers ==
  ASSUME NEW c, NEW n, NEW pkg \in Packages, NEW sec, SameBut(c, n, pkg, sec),
         pkg # "network" \/ sec # LanDevice
  PROVE  Members(n) = Members(c)
BY DEF SameBut, Members, Option, Has, Packages

LEMMA WithMembersIs ==
  ASSUME NEW c, IsConfig(c), NEW members
  PROVE  LET n == WithMembers(c, members)
         IN  SameBut(c, n, "network", LanDevice) /\ Members(n) = members
<1> DEFINE n == WithMembers(c, members)
           old == IF Has(c, "network", LanDevice) THEN c["network"][LanDevice] ELSE <<>>
<1>1. /\ SameBut(c, n, "network", LanDevice) /\ Has(n, "network", LanDevice)
      /\ n["network"][LanDevice] = Overlay([ports |-> members], old)
  BY WithOptionsIs DEF WithMembers, Packages
<1>2. /\ "ports" \in DOMAIN n["network"][LanDevice]
      /\ n["network"][LanDevice]["ports"] = members
  <2>1. /\ "ports" \in DOMAIN Overlay([ports |-> members], old)
        /\ Overlay([ports |-> members], old)["ports"] = members
    BY DEF Overlay
  <2> QED
    BY <1>1, <2>1
<1> QED
  BY <1>1, <1>2 DEF Members, Option

=============================================================================
