----------------------------- MODULE Enrollment -----------------------------
(***************************************************************************)
(* The controller side of the enrollment protocol: enrollment.Service      *)
(* (internal/enrollment/enrollment.go) behind the HTTP handlers of         *)
(* internal/api, on top of EnrollmentStore.                                *)
(*                                                                         *)
(* net/http serves every request on its own goroutine and the service has  *)
(* no lock, so a handler is a sequence of store transactions that other    *)
(* handlers run between.  A worker is a request in flight.  It keeps the   *)
(* record it READ, changes it in memory and later writes the WHOLE record  *)
(* back.  Every action is one transaction of one worker together with the  *)
(* code up to the next transaction.                                        *)
(***************************************************************************)
EXTENDS EnrollmentStore

CONSTANTS
  Workers,          \* requests in flight at a time (a bound)
  AdoptPolicy,      \* Options.AdoptPolicy
  OneJoinPerNode    \* environment: a node has at most one POST
                    \* /enroll/request in flight (one daemon, joining once)

ASSUME PolicyAssumption ==
  /\ AdoptPolicy \in {"off", "onlink", "always"}
  /\ OneJoinPerNode \in BOOLEAN

VARIABLES
  work,       \* worker -> what its handler does next, and what it has read
  usedIds,    \* ids NewID has produced (UUIDs do not repeat)
  drawn,      \* challenges Rand has produced (nonces do not repeat)
  issued,     \* request answers sent: node n was asked to sign c
  signed,     \* signatures that exist
  admitted    \* history: nodes that the operator, or the policy, has decided
              \* to adopt since they were last decommissioned

serviceVars == <<work, usedIds, drawn, issued, signed, admitted>>
vars == <<storeVars, serviceVars>>

Signature == [key : Nodes, challenge : Challenges]

\* What a handler that has read a record of the store does next.
Writing == {"request_update", "verify_write", "approve_check", "approve_create",
            "approve_write", "reject_write", "ack_write"}

Idle == [step |-> "idle", id |-> None, e |-> None, onLink |-> FALSE]

\* A request being served, if any: the record it will write, and its id.
Work ==
  {Idle}
    \cup [step : {"request_create"}, id : {None}, e : Enrollment, onLink : {FALSE}]
    \cup [step : Writing, id : Eids, e : Enrollment, onLink : BOOLEAN]

Goes(w, step, id, e) ==
  work' = [work EXCEPT ![w] =
             [step |-> step, id |-> id, e |-> e, onLink |-> FALSE]]

Ends(w) == work' = [work EXCEPT ![w] = Idle]

At(w, step) == work[w].step = step

\* Workers serving POST /enroll/request for node n.
Requesting(n) ==
  {w \in Workers : work[w].step \in {"request_create", "request_update"}
                   /\ work[w].e.node = n}

\* Mutant: any policy but "off" adopts, wherever the peer is.
AutoAdoptUnlessOff(peerOnLink) == AdoptPolicy # "off"

\* AdoptPolicy.autoAdopt
AutoAdopt(peerOnLink) ==
  \/ AdoptPolicy = "always"
  \/ AdoptPolicy = "onlink" /\ peerOnLink

\* identity.NodeIDFromPublicKeyDER: the node_id is the hash of the key, so
\* keys are named by the node they belong to.
NodeIDFromPublicKey(key) == key

\* identity.VerifySignature
VerifySignature(key, challenge, sig) ==
  sig.key = key /\ sig.challenge = challenge

-----------------------------------------------------------------------------
(* POST /enroll/request: Service.Request *)

\* Mutant: a new record takes the place of the existing one, without its id.
RequestReadNewRecord(w, n, key, c) ==
  /\ At(w, "idle")
  /\ OneJoinPerNode => Requesting(n) = {}
  /\ NodeIDFromPublicKey(key) = n
  /\ c \in Challenges \ drawn
  /\ drawn' = drawn \cup {c}
  /\ Goes(w, IF FoundByNode(n) THEN "request_update" ELSE "request_create", None,
          [node |-> n, key |-> key, challenge |-> c,
           status |-> "pending_verification"])
  /\ UNCHANGED <<storeVars, usedIds, issued, signed, admitted>>

\* Check the identity, draw a challenge, look for a record of the node.
RequestRead(w, n, key, c) ==
  /\ At(w, "idle")
  /\ OneJoinPerNode => Requesting(n) = {}
  /\ NodeIDFromPublicKey(key) = n
  /\ c \in Challenges \ drawn
  /\ drawn' = drawn \cup {c}
  /\ LET fresh == [node |-> n, key |-> key, challenge |-> c,
                   status |-> "pending_verification"] IN
     \/ FoundByNode(n) /\ Goes(w, "request_update", byNode[n], fresh)
     \/ ~FoundByNode(n) /\ Goes(w, "request_create", None, fresh)
  /\ UNCHANGED <<storeVars, usedIds, issued, signed, admitted>>

\* The answer carries the challenge to whoever asked.
Issue(e) ==
  issued' = issued \cup {[key |-> e.key, challenge |-> e.challenge]}

RequestCreate(w, id) ==
  /\ At(w, "request_create")
  /\ id \in Eids \ usedIds
  /\ CreateEnrollment(id, work[w].e)
  /\ usedIds' = usedIds \cup {id}
  /\ Issue(work[w].e)
  /\ Ends(w)
  /\ UNCHANGED <<drawn, signed, admitted>>

RequestUpdate(w) ==
  /\ At(w, "request_update")
  /\ UpdateEnrollment(work[w].id, work[w].e)
  /\ Issue(work[w].e)
  /\ Ends(w)
  /\ UNCHANGED <<usedIds, drawn, signed, admitted>>

\* client.enroll: the node that holds the key signs a challenge it was sent.
NodeSigns(r) ==
  /\ r \in issued
  /\ signed' = signed \cup {r}
  /\ UNCHANGED <<storeVars, work, usedIds, drawn, issued, admitted>>

-----------------------------------------------------------------------------
(* POST /enroll/verify: Service.Verify.  A signature stays usable: a node   *)
(* that lost the answer sends it again, and a request can be delayed.  The  *)
(* status of the record is not consulted.                                   *)

VerifyRead(w, id, sig, onLink) ==
  /\ At(w, "idle")
  /\ Exists(id)
  /\ sig \in signed
  /\ VerifySignature(enrollments[id].key, enrollments[id].challenge, sig)
  /\ work' = [work EXCEPT ![w] =
                [step |-> "verify_write", id |-> id, onLink |-> onLink,
                 e |-> [enrollments[id] EXCEPT !.status = "pending_approval"]]]
  /\ UNCHANGED <<storeVars, usedIds, drawn, issued, signed, admitted>>

VerifyWrite(w) ==
  /\ At(w, "verify_write")
  /\ UpdateEnrollment(work[w].id, work[w].e)
  /\ \/ /\ AutoAdopt(work[w].onLink)
        /\ Goes(w, "approve_check", work[w].id, work[w].e)
     \/ ~AutoAdopt(work[w].onLink) /\ Ends(w)
  /\ admitted' = IF \/ AdoptPolicy = "always"
                    \/ AdoptPolicy = "onlink" /\ work[w].onLink
                 THEN admitted \cup {work[w].e.node} ELSE admitted
  /\ UNCHANGED <<usedIds, drawn, issued, signed>>

-----------------------------------------------------------------------------
(* POST /nodes/{id}/adopt: Service.Adopt, and Service.approve, which an     *)
(* auto-adopting Verify runs too.                                           *)

\* Mutant: the status of the enrollment is not checked.
AdoptReadAnyStatus(w, n) ==
  /\ At(w, "idle")
  /\ FoundByNode(n)
  /\ Goes(w, "approve_check", byNode[n], enrollments[byNode[n]])
  /\ admitted' = admitted \cup {n}
  /\ UNCHANGED <<storeVars, usedIds, drawn, issued, signed>>

AdoptRead(w, n) ==
  /\ At(w, "idle")
  /\ FoundByNode(n)
  /\ enrollments[byNode[n]].status = "pending_approval"
  /\ Goes(w, "approve_check", byNode[n], enrollments[byNode[n]])
  /\ admitted' = admitted \cup {n}
  /\ UNCHANGED <<storeVars, usedIds, drawn, issued, signed>>

\* Mutant: the node is created when it is there, and not when it is not.
ApproveCheckSwapped(w) ==
  /\ At(w, "approve_check")
  /\ Goes(w, IF NodeFound(work[w].e.node) THEN "approve_create"
                                          ELSE "approve_write",
          work[w].id, work[w].e)
  /\ UNCHANGED <<storeVars, usedIds, drawn, issued, signed, admitted>>

ApproveCheck(w) ==
  /\ At(w, "approve_check")
  /\ LET e == work[w].e IN
     \/ NodeFound(e.node) /\ Goes(w, "approve_write", work[w].id, e)
     \/ ~NodeFound(e.node) /\ Goes(w, "approve_create", work[w].id, e)
  /\ UNCHANGED <<storeVars, usedIds, drawn, issued, signed, admitted>>

ApproveCreate(w) ==
  /\ At(w, "approve_create")
  /\ CreateNode(work[w].e.node)
  /\ Goes(w, "approve_write", work[w].id, work[w].e)
  /\ UNCHANGED <<usedIds, drawn, issued, signed, admitted>>

ApproveWrite(w) ==
  /\ At(w, "approve_write")
  /\ UpdateEnrollment(work[w].id, [work[w].e EXCEPT !.status = "approved"])
  /\ Ends(w)
  /\ UNCHANGED <<usedIds, drawn, issued, signed, admitted>>

-----------------------------------------------------------------------------
(* POST /nodes/{id}/reject and POST /enroll/{id}/ack *)

RejectRead(w, n) ==
  /\ At(w, "idle")
  /\ FoundByNode(n)
  /\ Goes(w, "reject_write", byNode[n],
          [enrollments[byNode[n]] EXCEPT !.status = "rejected"])
  /\ UNCHANGED <<storeVars, usedIds, drawn, issued, signed, admitted>>

AckRead(w, id) ==
  /\ At(w, "idle")
  /\ Exists(id)
  /\ enrollments[id].status = "approved"
  /\ Goes(w, "ack_write", id, [enrollments[id] EXCEPT !.status = "active"])
  /\ UNCHANGED <<storeVars, usedIds, drawn, issued, signed, admitted>>

\* The write that ends Reject and Ack.
FinalWrite(w) ==
  /\ work[w].step \in {"reject_write", "ack_write"}
  /\ UpdateEnrollment(work[w].id, work[w].e)
  /\ Ends(w)
  /\ UNCHANGED <<usedIds, drawn, issued, signed, admitted>>

-----------------------------------------------------------------------------
(* Errors, and the handlers that are one transaction *)

\* A store call of the handler fails (ErrNotFound because the record is gone,
\* an I/O error, or the daemon stops): what it has already written stays.  A
\* crash of the daemon is this step of every worker.
Abort(w) ==
  /\ ~At(w, "idle")
  /\ Ends(w)
  /\ UNCHANGED <<storeVars, usedIds, drawn, issued, signed, admitted>>

\* POST /nodes
PostNode(n) ==
  /\ CreateNode(n)
  /\ UNCHANGED serviceVars

\* DELETE /nodes/{id}
DecommissionNode(n) ==
  /\ DeleteNode(n)
  /\ admitted' = admitted \ {n}
  /\ UNCHANGED <<work, usedIds, drawn, issued, signed>>

\* DELETE /homes/{id} of the controller's own Home, while another is active
ForgetHome ==
  /\ DeleteHome
  /\ admitted' = {}
  /\ UNCHANGED <<work, usedIds, drawn, issued, signed>>

\* POST /reset
FactoryReset ==
  /\ Reset
  /\ admitted' = {}
  /\ UNCHANGED <<work, usedIds, drawn, issued, signed>>

-----------------------------------------------------------------------------

Init ==
  /\ StoreInit
  /\ work = [w \in Workers |-> Idle]
  /\ usedIds = {}
  /\ drawn = {}
  /\ issued = {}
  /\ signed = {}
  /\ admitted = {}

HandlerStep(w) ==
  \/ \E n, key \in Nodes, c \in Challenges : RequestRead(w, n, key, c)
  \/ \E id \in Eids : RequestCreate(w, id)
  \/ RequestUpdate(w)
  \/ \E id \in Eids, sig \in Signature, onLink \in BOOLEAN :
       VerifyRead(w, id, sig, onLink)
  \/ VerifyWrite(w)
  \/ \E n \in Nodes : AdoptRead(w, n)
  \/ ApproveCheck(w)
  \/ ApproveCreate(w)
  \/ ApproveWrite(w)
  \/ \E n \in Nodes : RejectRead(w, n)
  \/ \E id \in Eids : AckRead(w, id)
  \/ FinalWrite(w)
  \/ Abort(w)

Next ==
  \/ \E w \in Workers : HandlerStep(w)
  \/ \E r \in Signature : NodeSigns(r)
  \/ \E n \in Nodes : PostNode(n) \/ DecommissionNode(n)
  \/ ForgetHome
  \/ FactoryReset

Spec == Init /\ [][Next]_vars

-----------------------------------------------------------------------------
(* Properties *)

Vetted == {"pending_approval", "approved", "active"}
Trusted == {"approved", "active"}

TypeOK ==
  /\ StoreTypeOK
  /\ work \in [Workers -> Work]
  /\ usedIds \subseteq Eids
  /\ drawn \subseteq Challenges
  /\ issued \subseteq Signature
  /\ signed \subseteq Signature
  /\ admitted \subseteq Nodes

\* "The controller verifies the signature against the submitted public key
\* before advancing past pending_verification" (doc/enrollment.md:85): whatever
\* handlers overlap, a record is past verification only with the challenge it
\* holds now signed by the key whose hash is the node's id.
ChallengeSigned ==
  \A id \in Eids :
    Exists(id) /\ enrollments[id].status \in Vetted =>
      [key |-> enrollments[id].node, challenge |-> enrollments[id].challenge]
        \in signed

\* A trusted node is in the inventory: approve writes the inventory record and
\* then the enrollment in two transactions, and a decommissioning, a crash or a
\* second approve can come between them.
TrustedInInventory ==
  \A id \in Eids :
    Exists(id) /\ enrollments[id].status \in Trusted =>
      enrollments[id].node \in inventory

\* A node is trusted only by a decision to adopt it (the operator's, or the
\* policy's for this peer) taken since it was last decommissioned: a handler
\* that read the record before the decommissioning cannot bring it back.
TrustIsCurrent ==
  \A id \in Eids :
    Exists(id) /\ enrollments[id].status \in Trusted =>
      enrollments[id].node \in admitted

\* "deleteNode decommissions a node, removing it and its enrollment record"
\* (internal/api/lifecycle.go:40): when a node leaves the inventory no
\* enrollment record of it is left.
DecommissionIsComplete ==
  [][\A n \in Nodes :
       n \in inventory /\ n \notin inventory' => EnrollmentsOf(n)' = {}]_vars

\* The nodes that a record past approval answers for, and those that have signed
\* a challenge of the controller.
TrustedNodes ==
  {enrollments[id].node :
     id \in {i \in Eids : Exists(i) /\ enrollments[i].status \in Trusted}}

ProvenNodes == {s.key : s \in signed}

Adm == INSTANCE Admission
         WITH proven <- ProvenNodes, decided <- admitted,
              known <- inventory, trusted <- TrustedNodes

\* Enrollment implements Admission: with its handlers cut into transactions that
\* run between each other's, a node still becomes trusted only after it has
\* proved itself, was decided on and is in the inventory, and is revoked from
\* all of them in one step (Service.Verify, Adopt and approve, DeleteNode).
ImplementsAdmission == Adm!Spec

=============================================================================
