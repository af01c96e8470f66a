-------------------------- MODULE HomeSelectProofs --------------------------
(***************************************************************************)
(* Theorems about the selection policy, for any list of Homes and signals, *)
(* and that HomeLifecycle's choice among Homes allows what it recommends.  *)
(***************************************************************************)
EXTENDS HomeLifecycle, HomeSelect, SequenceTheorems, OrderProofs

Home == [id : Homes, lastSeen : Nat, bssid : STRING]
Candidate == [home : Homes, lastActive : Nat, signal : Int, selfControlled : BOOLEAN]

\* less is a strict weak order, as sort.SliceStable asks of it: no candidate
\* comes before itself, coming before is transitive, and so is being as good as.
THEOREM LessIsWeakOrder ==
  ASSUME NEW a \in Candidate, NEW b \in Candidate, NEW c \in Candidate
  PROVE  /\ ~ Less(a, a)
         /\ Less(a, b) /\ Less(b, c) => Less(a, c)
         /\ ~ Less(a, b) /\ ~ Less(b, c) => ~ Less(a, c)
<1>1. \A x \in Candidate : x.lastActive \in Nat /\ SignalRank(x.signal) \in Int
                           /\ x.selfControlled \in BOOLEAN
  BY DEF Candidate, SignalRank
<1>2. /\ a.lastActive \in Int /\ b.lastActive \in Int /\ c.lastActive \in Int
      /\ a.selfControlled \in BOOLEAN /\ b.selfControlled \in BOOLEAN
      /\ c.selfControlled \in BOOLEAN
      /\ SignalRank(a.signal) \in Int /\ SignalRank(b.signal) \in Int
      /\ SignalRank(c.signal) \in Int
  BY <1>1
<1> QED
  BY <1>2 DEF Less

\* Select returns a candidate that no other is better than.
THEOREM SelectedIsBest ==
  ASSUME NEW cs \in Seq(Candidate), cs # << >>
  PROVE  \E i \in DOMAIN cs : Selected(cs) = cs[i] /\ \A j \in DOMAIN cs : ~ Less(cs[j], cs[i])
<1> DEFINE D == DOMAIN cs
           R == {p \in D \X D : Before(cs, p[1], p[2])}
<1>1. D = 1..Len(cs) /\ Len(cs) \in Nat /\ Len(cs) # 0 /\ \A i \in D : cs[i] \in Candidate
  BY EmptySeq, LenProperties
<1>2. IsFiniteSet(D) /\ D # {} /\ D \subseteq Int
  <2>1. 1 \in D
    BY <1>1
  <2> QED
    <3>1. IsFiniteSet(1..Len(cs))
      BY <1>1, FS_Interval
    <3>2. D \subseteq Int
      BY <1>1
    <3> HIDE DEF D
    <3> QED
      BY <1>1, <2>1, <3>1, <3>2
<1>3. /\ \A i \in D : ~ Before(cs, i, i)
      /\ \A i, j, k \in D : Before(cs, i, j) /\ Before(cs, j, k) => Before(cs, i, k)
      /\ \A i, j \in D : i = j \/ Before(cs, i, j) \/ Before(cs, j, i)
  <2> SUFFICES ASSUME NEW i \in D, NEW j \in D, NEW k \in D
               PROVE  /\ ~ Before(cs, i, i)
                      /\ Before(cs, i, j) /\ Before(cs, j, k) => Before(cs, i, k)
                      /\ i = j \/ Before(cs, i, j) \/ Before(cs, j, i)
    OBVIOUS
  <2>1. cs[i] \in Candidate /\ cs[j] \in Candidate /\ cs[k] \in Candidate
    BY <1>1
  <2>2. i \in Int /\ j \in Int /\ k \in Int
    BY <1>2
  <2>3. /\ ~ Less(cs[i], cs[i])
        /\ Less(cs[i], cs[j]) /\ Less(cs[j], cs[k]) => Less(cs[i], cs[k])
        /\ ~ Less(cs[k], cs[j]) /\ ~ Less(cs[j], cs[i]) => ~ Less(cs[k], cs[i])
        /\ ~ Less(cs[i], cs[k]) /\ ~ Less(cs[k], cs[j]) => ~ Less(cs[i], cs[j])
        /\ ~ Less(cs[j], cs[i]) /\ ~ Less(cs[i], cs[k]) => ~ Less(cs[j], cs[k])
    <3>1. \A x, y, z \in Candidate :
            /\ ~ Less(x, x)
            /\ Less(x, y) /\ Less(y, z) => Less(x, z)
            /\ ~ Less(x, y) /\ ~ Less(y, z) => ~ Less(x, z)
      BY LessIsWeakOrder
    <3> QED
      BY <2>1, <3>1
  <2>4. \A x, y \in {i, j, k} : Less(cs[x], cs[y]) \in BOOLEAN
    BY DEF Less
  <2>5. /\ Before(cs, i, i) <=> Less(cs[i], cs[i]) \/ (~ Less(cs[i], cs[i]) /\ i < i)
        /\ Before(cs, i, j) <=> Less(cs[i], cs[j]) \/ (~ Less(cs[j], cs[i]) /\ i < j)
        /\ Before(cs, j, i) <=> Less(cs[j], cs[i]) \/ (~ Less(cs[i], cs[j]) /\ j < i)
        /\ Before(cs, j, k) <=> Less(cs[j], cs[k]) \/ (~ Less(cs[k], cs[j]) /\ j < k)
        /\ Before(cs, i, k) <=> Less(cs[i], cs[k]) \/ (~ Less(cs[k], cs[i]) /\ i < k)
    BY DEF Before
  <2>6. /\ ~ (i < i)
        /\ i < j /\ j < k => i < k
        /\ i = j \/ i < j \/ j < i
    BY <2>2
  <2> QED
    <3>1. ~ Before(cs, i, i)
      BY <2>3, <2>5, <2>6
    <3>2. ASSUME Before(cs, i, j), Before(cs, j, k) PROVE Before(cs, i, k)
      <4>1. Less(cs[i], cs[j]) \/ Less(cs[j], cs[k]) => Less(cs[i], cs[k])
        BY <2>3, <2>5, <3>2, Zenon
      <4>2. ~ Less(cs[i], cs[j]) /\ ~ Less(cs[j], cs[k]) => ~ Less(cs[k], cs[i]) /\ i < k
        BY <2>3, <2>5, <2>6, <3>2, Zenon
      <4> QED
        BY <2>5, <4>1, <4>2, Zenon
    <3>3. i = j \/ Before(cs, i, j) \/ Before(cs, j, i)
      BY <2>3, <2>5, <2>6, Zenon
    <3> QED
      BY <3>1, <3>2, <3>3
<1>4. /\ \A i \in D : <<i, i>> \notin R
      /\ \A i, j, k \in D : <<i, j>> \in R /\ <<j, k>> \in R => <<i, k>> \in R
  BY <1>3
<1>5. PICK i \in D : \A j \in D : <<j, i>> \notin R
  <2> HIDE DEF R, D
  <2> QED
    BY <1>2, <1>4, MinimalElement
<1>6. \A j \in D \ {i} : Before(cs, i, j)
  BY <1>3, <1>5
<1> DEFINE first == CHOOSE k \in D : \A j \in D \ {k} : Before(cs, k, j)
<1>7. first \in D /\ \A j \in D \ {first} : Before(cs, first, j)
  BY <1>6
<1>8. Selected(cs) = cs[first]
  BY DEF Selected
<1> HIDE DEF first
<1>9. ASSUME NEW j \in D PROVE ~ Less(cs[j], cs[first])
  <2>1. cs[j] \in Candidate /\ cs[first] \in Candidate
    BY <1>1, <1>7
  <2>2. /\ ~ Less(cs[j], cs[j])
        /\ Less(cs[j], cs[first]) /\ Less(cs[first], cs[j]) => Less(cs[j], cs[j])
    BY <2>1, LessIsWeakOrder
  <2> QED
    BY <1>7, <2>2 DEF Before
<1> QED
  BY <1>7, <1>8, <1>9

\* With nothing selected explicitly, the Home recommended is one HomeLifecycle's
\* automatic selection may choose (Best): another device's Home if one is known.
THEOREM RecommendedIsAllowed ==
  ASSUME NEW homeList \in Seq(Home),
         homeList # << >>,
         NEW signals, \A b \in DOMAIN signals : signals[b] \in Int
  PROVE  Recommend(homeList, Self, None, signals).home
           \in Best({homeList[i].id : i \in DOMAIN homeList})
<1> DEFINE cs == Candidates(homeList, Self, signals)
           known == {homeList[i].id : i \in DOMAIN homeList}
<1>1. /\ DOMAIN homeList = 1..Len(homeList) /\ Len(homeList) \in Nat /\ Len(homeList) # 0
      /\ \A i \in DOMAIN homeList : /\ homeList[i].id \in Homes
                                    /\ homeList[i].lastSeen \in Nat
                                    /\ homeList[i] \in Home
  <2>1. DOMAIN homeList = 1..Len(homeList) /\ Len(homeList) \in Nat /\ Len(homeList) # 0
    BY EmptySeq, LenProperties
  <2>2. homeList \in [1..Len(homeList) -> Home]
    BY LenProperties
  <2>3. \A h \in Home : h.id \in Homes /\ h.lastSeen \in Nat
    BY DEF Home
  <2> QED
    BY <2>1, <2>2, <2>3
<1>2. /\ DOMAIN cs = 1..Len(homeList)
      /\ \A i \in DOMAIN cs : /\ cs[i] \in Candidate
                              /\ cs[i].home = homeList[i].id
                              /\ cs[i].selfControlled = (homeList[i].id = Self)
  <2>1. DOMAIN cs = 1..Len(homeList)
    BY <1>1 DEF Candidates
  <2> SUFFICES ASSUME NEW i \in DOMAIN cs
               PROVE  /\ cs[i] \in Candidate
                      /\ cs[i].home = homeList[i].id
                      /\ cs[i].selfControlled = (homeList[i].id = Self)
    BY <2>1
  <2> DEFINE sig == IF homeList[i].bssid \in DOMAIN signals
                    THEN signals[homeList[i].bssid] ELSE 0
  <2>2. sig \in Int
    OBVIOUS
  <2>3. cs[i] = [home |-> homeList[i].id, lastActive |-> homeList[i].lastSeen,
                 signal |-> sig, selfControlled |-> homeList[i].id = Self]
    BY <1>1, <2>1 DEF Candidates
  <2> HIDE DEF sig, cs
  <2>4. (homeList[i].id = Self) \in BOOLEAN
    OBVIOUS
  <2> QED
    BY <1>1, <2>1, <2>2, <2>3, <2>4 DEF Candidate
<1>3. cs \in Seq(Candidate) /\ cs # << >>
  <2>1. cs = [i \in 1..Len(homeList) |-> cs[i]]
    BY <1>1 DEF Candidates
  <2>2. cs \in [1..Len(homeList) -> Candidate]
    <3> HIDE DEF cs
    <3> QED
      BY <1>2, <2>1
  <2> HIDE DEF cs
  <2>3. cs \in Seq(Candidate) /\ Len(cs) = Len(homeList)
    BY <1>1, <2>2
  <2> QED
    BY <1>1, <2>3
<1>4. Recommend(homeList, Self, None, signals) = Selected(cs)
  <2>1. \A i \in DOMAIN cs : cs[i].home # None
    BY <1>1, <1>2, HomeAssumption
  <2> HIDE DEF cs
  <2>2. Chosen(None, cs) = Selected(cs)
    BY <2>1 DEF Chosen
  <2> QED
    BY <2>2 DEF Recommend, cs
<1> HIDE DEF cs
<1>5. PICK i \in DOMAIN cs : Selected(cs) = cs[i] /\ \A j \in DOMAIN cs : ~ Less(cs[j], cs[i])
  BY <1>3, SelectedIsBest
<1>6. cs[i].home \in known
  BY <1>1, <1>2
<1>7. ASSUME known \ {Self} # {} PROVE cs[i].home # Self
  <2>1. PICK j \in DOMAIN cs : cs[j].home # Self
    BY <1>1, <1>2, <1>7
  <2>2. ~ cs[j].selfControlled
    BY <1>2, <2>1
  <2>3. ~ cs[i].selfControlled
    BY <1>2, <1>5, <2>2 DEF Less, Candidate
  <2> QED
    BY <1>2, <2>3
<1> QED
  BY <1>4, <1>5, <1>6, <1>7 DEF Best

=============================================================================
