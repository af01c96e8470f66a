----------------------------- MODULE HomeSelect -----------------------------
(***************************************************************************)
(* Which Home a device activates: internal/selection builds a candidate    *)
(* from every stored Home, internal/homeselect sorts them.                 *)
(*                                                                         *)
(* A Home is [id, lastSeen, bssid], in the order the store lists them;     *)
(* signals gives the strength at which a peer's BSSID is heard, for those  *)
(* that are.                                                               *)
(***************************************************************************)
EXTENDS Integers, Sequences

Candidates(known, self, signals) ==
  [i \in DOMAIN known |->
     [home |-> known[i].id,
      lastActive |-> known[i].lastSeen,
      signal |-> IF known[i].bssid \in DOMAIN signals THEN signals[known[i].bssid] ELSE 0,
      selfControlled |-> known[i].id = self]]

\* A signal that was not measured is weaker than any measured one.
SignalRank(rssi) == IF rssi = 0 THEN -1073741824 ELSE rssi

\* less: another device's Home, then the last active, then the strongest.
Less(a, b) ==
  \/ ~ a.selfControlled /\ b.selfControlled
  \/ /\ a.selfControlled = b.selfControlled
     /\ \/ a.lastActive > b.lastActive
        \/ a.lastActive = b.lastActive /\ SignalRank(a.signal) > SignalRank(b.signal)

\* The stable sort keeps equally good candidates in the order they are listed.
Before(cs, i, j) == Less(cs[i], cs[j]) \/ (~ Less(cs[j], cs[i]) /\ i < j)

\* Select: the first of the sorted candidates.
Selected(cs) == cs[CHOOSE i \in DOMAIN cs : \A j \in DOMAIN cs \ {i} : Before(cs, i, j)]

\* Choose: a Home selected explicitly wins as long as it is a candidate.
Chosen(explicit, cs) ==
  LET named == {i \in DOMAIN cs : cs[i].home = explicit} IN
  IF named # {} THEN cs[CHOOSE i \in named : \A j \in named : i <= j] ELSE Selected(cs)

Recommend(known, self, explicit, signals) == Chosen(explicit, Candidates(known, self, signals))

=============================================================================
