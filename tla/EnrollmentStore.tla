-------------------------- MODULE EnrollmentStore --------------------------
(***************************************************************************)
(* The part of the controller's bbolt database that enrollment works on    *)
(* (internal/storage/store.go): the bucket "enrollments", its secondary    *)
(* index "enrollments_by_node", and the node inventory in "nodes".         *)
(*                                                                         *)
(* A Store method is one bbolt transaction, and bbolt runs one writer at a *)
(* time, so each method is one atomic operator here.  An operator that can *)
(* answer ErrNotFound has the found case as a conjunct; its caller says    *)
(* what the error does.                                                    *)
(*                                                                         *)
(* Abstracted: the serial, home_id and created_at of a record (all records *)
(* belong to the one Home of the controller), and the membership fields of *)
(* an inventory record, of which only the presence is kept.                *)
(***************************************************************************)
CONSTANTS
  Nodes,        \* device identities; node_id is the hash of the device's key
  Eids,         \* enrollment ids the UUID generator can produce (a bound)
  Challenges,   \* challenges the nonce generator can produce (a bound)
  None          \* a missing record or an unset key

VARIABLES
  enrollments,  \* bucket enrollments: id -> record or None
  byNode,       \* bucket enrollments_by_node: node -> id or None
  inventory     \* bucket nodes: the nodes that have an inventory record

storeVars == <<enrollments, byNode, inventory>>

Statuses ==
  {"pending_verification", "pending_approval", "approved", "active", "rejected"}

Enrollment ==
  [node : Nodes, key : Nodes, challenge : Challenges, status : Statuses]

ASSUME NoneAssumption ==
  /\ None \notin Nodes
  /\ None \notin Eids
  /\ None \notin Challenges
  /\ None \notin Enrollment

StoreTypeOK ==
  /\ enrollments \in [Eids -> Enrollment \cup {None}]
  /\ byNode \in [Nodes -> Eids \cup {None}]
  /\ inventory \subseteq Nodes

StoreInit ==
  /\ enrollments = [id \in Eids |-> None]
  /\ byNode = [n \in Nodes |-> None]
  /\ inventory = {}

Exists(id) == enrollments[id] # None

\* The ids of all the records of node n, indexed or not.
EnrollmentsOf(n) == {id \in Eids : Exists(id) /\ enrollments[id].node = n}

\* GetEnrollmentByNodeID answers a record, through the index.
FoundByNode(n) == byNode[n] # None /\ Exists(byNode[n])

\* GetNode answers a record.
NodeFound(n) == n \in inventory

\* Mutant: the record is written and the index is not.
CreateEnrollmentUnindexed(id, e) ==
  /\ enrollments' = [enrollments EXCEPT ![id] = e]
  /\ UNCHANGED <<byNode, inventory>>

CreateEnrollment(id, e) ==
  /\ enrollments' = [enrollments EXCEPT ![id] = e]
  /\ byNode' = [byNode EXCEPT ![e.node] = id]
  /\ UNCHANGED inventory

\* Writes the whole record, whatever it holds by now, and re-points the index.
UpdateEnrollment(id, e) ==
  /\ Exists(id)
  /\ enrollments' = [enrollments EXCEPT ![id] = e]
  /\ byNode' = [n \in Nodes |->
                  CASE n = e.node -> id
                    [] n # e.node /\ n = enrollments[id].node -> None
                    [] OTHER -> byNode[n]]
  /\ UNCHANGED inventory

CreateNode(n) ==
  /\ inventory' = inventory \cup {n}
  /\ UNCHANGED <<enrollments, byNode>>

\* Mutant: the enrollment is only forgotten by the index.
DeleteNodeUnindexOnly(n) ==
  /\ NodeFound(n)
  /\ inventory' = inventory \ {n}
  /\ byNode' = [byNode EXCEPT ![n] = None]
  /\ UNCHANGED enrollments

\* Removes the node, the enrollment its index entry names, and that entry.
DeleteNode(n) ==
  /\ NodeFound(n)
  /\ inventory' = inventory \ {n}
  /\ enrollments' = [id \in Eids |->
                       IF id = byNode[n] THEN None ELSE enrollments[id]]
  /\ byNode' = [byNode EXCEPT ![n] = None]

\* Mutant: the index entries of the removed enrollments stay.
DeleteHomeIndexed ==
  /\ enrollments' = [id \in Eids |-> None]
  /\ UNCHANGED <<byNode, inventory>>

\* Removes the enrollments scoped to the Home (all of them, here) with their
\* index entries.  The nodes survive, without their membership of the Home.
DeleteHome ==
  LET scoped == {n \in Nodes : EnrollmentsOf(n) # {}} IN
  /\ enrollments' = [id \in Eids |-> None]
  /\ byNode' = [n \in Nodes |-> IF n \in scoped THEN None ELSE byNode[n]]
  /\ UNCHANGED inventory

\* Recreates every bucket empty.
Reset ==
  /\ enrollments' = [id \in Eids |-> None]
  /\ byNode' = [n \in Nodes |-> None]
  /\ inventory' = {}

-----------------------------------------------------------------------------

\* An index entry leads to a record, and to a record of the node it indexes:
\* "Keep the node-id index consistent" (store.go:442).  The bbolt store keeps
\* the index by hand in five different transactions.
IndexConsistent ==
  \A n \in Nodes : byNode[n] # None => byNode[n] \in EnrollmentsOf(n)

\* Every record can be reached from its node.  A record that cannot is out of
\* reach of adopt, reject and DeleteNode, yet still answers GET /enroll/{id}.
NoOrphan ==
  \A n \in Nodes : \A id \in EnrollmentsOf(n) : byNode[n] = id

=============================================================================
