----------------------------- MODULE Admission ------------------------------
(***************************************************************************)
(* What enrollment promises, without its records, requests and handlers:   *)
(* four sets of nodes, and steps that each are about one node or revoke    *)
(* everything at once.  Enrollment, whose handlers take several            *)
(* transactions to do one of these steps, implements it.                   *)
(***************************************************************************)
CONSTANT Nodes

VARIABLES
  proven,    \* nodes that have proved to hold their key
  decided,   \* nodes whose adoption was decided on and has not been revoked
  known,     \* nodes in the inventory
  trusted    \* nodes that are answered as members of the Home

vars == <<proven, decided, known, trusted>>

Init == proven = {} /\ decided = {} /\ known = {} /\ trusted = {}

Prove(n) ==
  /\ proven' = proven \cup {n}
  /\ UNCHANGED <<decided, known, trusted>>

\* Only a node that has proved itself is decided on.  Where the policy decides,
\* it does so on a new proof, and the node is not trusted until it is acted on.
Decide(n) ==
  /\ n \in proven
  /\ decided' = decided \cup {n}
  /\ trusted' \in {trusted, trusted \ {n}}
  /\ UNCHANGED <<proven, known>>

Enlist(n) ==
  /\ known' = known \cup {n}
  /\ UNCHANGED <<proven, decided, trusted>>

Trust(n) ==
  /\ n \in decided \cap known
  /\ trusted' = trusted \cup {n}
  /\ UNCHANGED <<proven, decided, known>>

\* A node that enrolls anew, or is rejected, is not trusted for the time being.
Suspend(n) ==
  /\ trusted' = trusted \ {n}
  /\ UNCHANGED <<proven, decided, known>>

Revoke(n) ==
  /\ known' = known \ {n}
  /\ decided' = decided \ {n}
  /\ trusted' = trusted \ {n}
  /\ UNCHANGED proven

\* The Home is deleted: its members stay known devices.
Disown ==
  /\ decided' = {} /\ trusted' = {}
  /\ UNCHANGED <<proven, known>>

Wipe ==
  /\ decided' = {} /\ trusted' = {} /\ known' = {}
  /\ UNCHANGED proven

Next ==
  \/ \E n \in Nodes :
       \/ Prove(n) \/ Decide(n) \/ Enlist(n)
       \/ Trust(n) \/ Suspend(n) \/ Revoke(n)
  \/ Disown
  \/ Wipe

Spec == Init /\ [][Next]_vars

=============================================================================
