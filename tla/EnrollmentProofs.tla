-------------------------- MODULE EnrollmentProofs --------------------------
(***************************************************************************)
(* Theorems about Enrollment, for any sets of nodes, ids, challenges and   *)
(* workers and any adoption policy.                                        *)
(***************************************************************************)
EXTENDS Enrollment, TLAPS

USE NoneAssumption, PolicyAssumption

-----------------------------------------------------------------------------
(* Type correctness *)

\* Each store transaction, given a well-formed record, keeps the buckets
\* well-formed.
LEMMA StoreTypes ==
  ASSUME StoreTypeOK,
         \/ \E id \in Eids, e \in Enrollment :
              CreateEnrollment(id, e) \/ UpdateEnrollment(id, e)
         \/ \E n \in Nodes : CreateNode(n) \/ DeleteNode(n)
         \/ DeleteHome
         \/ Reset
         \/ UNCHANGED storeVars
  PROVE  StoreTypeOK'
<1> USE DEF StoreTypeOK
<1>1. ASSUME NEW id \in Eids, NEW e \in Enrollment, CreateEnrollment(id, e)
      PROVE  StoreTypeOK'
  BY <1>1 DEF CreateEnrollment, Enrollment
<1>2. ASSUME NEW id \in Eids, NEW e \in Enrollment, UpdateEnrollment(id, e)
      PROVE  StoreTypeOK'
  BY <1>2 DEF UpdateEnrollment, Enrollment
<1>3. ASSUME NEW n \in Nodes, CreateNode(n) \/ DeleteNode(n)
      PROVE  StoreTypeOK'
  BY <1>3 DEF CreateNode, DeleteNode
<1>4. CASE DeleteHome \/ Reset
  BY <1>4 DEF DeleteHome, Reset
<1>5. CASE UNCHANGED storeVars
  BY <1>5 DEF storeVars
<1> QED
  BY <1>1, <1>2, <1>3, <1>4, <1>5

\* Records, built from their parts.
LEMMA NewRecord ==
  ASSUME NEW n \in Nodes, NEW key \in Nodes, NEW c \in Challenges,
         NEW s \in Statuses
  PROVE  [node |-> n, key |-> key, challenge |-> c, status |-> s] \in Enrollment
BY DEF Enrollment

LEMMA ChangedRecord ==
  ASSUME NEW e \in Enrollment, NEW s \in Statuses
  PROVE  /\ [e EXCEPT !.status = s] \in Enrollment
         /\ [e EXCEPT !.status = s].node = e.node
         /\ [e EXCEPT !.status = s].key = e.key
         /\ [e EXCEPT !.status = s].challenge = e.challenge
         /\ [e EXCEPT !.status = s].status = s
BY DEF Enrollment

LEMMA RecordFields ==
  ASSUME NEW e \in Enrollment
  PROVE  /\ e.node \in Nodes /\ e.key \in Nodes
         /\ e.challenge \in Challenges /\ e.status \in Statuses
BY DEF Enrollment

\* Requests in flight.
LEMMA WorkTypes ==
  /\ Idle \in Work
  /\ \A e \in Enrollment :
       [step |-> "request_create", id |-> None, e |-> e, onLink |-> FALSE] \in Work
  /\ \A s \in Writing, id \in Eids, e \in Enrollment, b \in BOOLEAN :
       [step |-> s, id |-> id, e |-> e, onLink |-> b] \in Work
  /\ \A r \in Work : r.step = "request_create" => r.e \in Enrollment
  /\ \A r \in Work : r.step \in Writing =>
       r.e \in Enrollment /\ r.id \in Eids /\ r.onLink \in BOOLEAN
<1> DEFINE C == [step : {"request_create"}, id : {None}, e : Enrollment,
                 onLink : {FALSE}]
           W == [step : Writing, id : Eids, e : Enrollment, onLink : BOOLEAN]
<1>1. ASSUME NEW r \in Work PROVE r = Idle \/ r \in C \/ r \in W
  BY DEF Work
<1>2. Idle \in Work
  BY DEF Work
<1>3. ASSUME NEW e \in Enrollment
      PROVE  [step |-> "request_create", id |-> None, e |-> e, onLink |-> FALSE]
               \in Work
  BY DEF Work
<1>4. ASSUME NEW s \in Writing, NEW id \in Eids, NEW e \in Enrollment,
             NEW b \in BOOLEAN
      PROVE  [step |-> s, id |-> id, e |-> e, onLink |-> b] \in Work
  BY DEF Work
<1>5. ASSUME NEW r \in C PROVE r.step = "request_create" /\ r.e \in Enrollment
  OBVIOUS
<1>6. ASSUME NEW r \in W
      PROVE  /\ r.step \in Writing
             /\ r.e \in Enrollment /\ r.id \in Eids /\ r.onLink \in BOOLEAN
  OBVIOUS
<1>7. Idle.step = "idle"
  BY DEF Idle
<1> HIDE DEF C, W
<1>8. ASSUME NEW r \in Work, r.step = "request_create" PROVE r.e \in Enrollment
  BY <1>1, <1>5, <1>6, <1>7, <1>8 DEF Writing
<1>9. ASSUME NEW r \in Work, r.step \in Writing
      PROVE  r.e \in Enrollment /\ r.id \in Eids /\ r.onLink \in BOOLEAN
  BY <1>1, <1>5, <1>6, <1>7, <1>9 DEF Writing
<1> QED
  BY <1>2, <1>3, <1>4, <1>8, <1>9

\* What a worker's step does to the workers: its own entry changes, to a
\* request in flight or to Idle.
LEMMA GoesTypes ==
  ASSUME work \in [Workers -> Work], NEW w \in Workers, NEW s \in Writing,
         NEW id \in Eids, NEW e \in Enrollment, NEW b \in BOOLEAN,
         work' = [work EXCEPT ![w] =
                    [step |-> s, id |-> id, e |-> e, onLink |-> b]]
  PROVE  work' \in [Workers -> Work]
<1> DEFINE r == [step |-> s, id |-> id, e |-> e, onLink |-> b]
<1>1. r \in Work
  BY WorkTypes
<1> HIDE DEF r
<1>2. work' = [work EXCEPT ![w] = r]
  BY DEF r
<1> QED
  BY <1>1, <1>2

LEMMA GoesCreateTypes ==
  ASSUME work \in [Workers -> Work], NEW w \in Workers, NEW e \in Enrollment,
         Goes(w, "request_create", None, e)
  PROVE  work' \in [Workers -> Work]
<1> DEFINE r == [step |-> "request_create", id |-> None, e |-> e, onLink |-> FALSE]
<1>1. r \in Work
  BY WorkTypes
<1> HIDE DEF r
<1>2. work' = [work EXCEPT ![w] = r]
  BY DEF Goes, r
<1> QED
  BY <1>1, <1>2

LEMMA EndsTypes ==
  ASSUME work \in [Workers -> Work], NEW w \in Workers, Ends(w)
  PROVE  work' \in [Workers -> Work]
BY WorkTypes DEF Ends

\* What the worker at a step has read.
LEMMA AtTypes ==
  ASSUME work \in [Workers -> Work], NEW w \in Workers
  PROVE  /\ At(w, "request_create") => work[w].e \in Enrollment
         /\ work[w].step \in Writing =>
              /\ work[w].e \in Enrollment
              /\ work[w].id \in Eids
              /\ work[w].onLink \in BOOLEAN
BY WorkTypes DEF At

LEMMA TypeInit == Init => TypeOK
BY WorkTypes DEF Init, StoreInit, TypeOK, StoreTypeOK

LEMMA TypeStep == TypeOK /\ [Next]_vars => TypeOK'
<1> SUFFICES ASSUME TypeOK, [Next]_vars PROVE TypeOK'
  OBVIOUS
<1>0. StoreTypeOK /\ work \in [Workers -> Work]
  BY DEF TypeOK
<1>s. UNCHANGED storeVars => StoreTypeOK'
  BY <1>0, StoreTypes
<1>1. ASSUME NEW w \in Workers, HandlerStep(w) PROVE TypeOK'
  <2>0. \A n \in Nodes : FoundByNode(n) =>
          byNode[n] \in Eids /\ enrollments[byNode[n]] \in Enrollment
    BY <1>0 DEF FoundByNode, Exists, StoreTypeOK
  <2>e. \A id \in Eids : Exists(id) => enrollments[id] \in Enrollment
    BY <1>0 DEF Exists, StoreTypeOK
  <2>1. ASSUME NEW n \in Nodes, NEW key \in Nodes, NEW c \in Challenges,
               RequestRead(w, n, key, c)
        PROVE  TypeOK'
    <3> DEFINE fresh == [node |-> n, key |-> key, challenge |-> c,
                         status |-> "pending_verification"]
    <3>1. fresh \in Enrollment
      BY NewRecord DEF Statuses
    <3> HIDE DEF fresh
    <3>2. \/ FoundByNode(n) /\ Goes(w, "request_update", byNode[n], fresh)
          \/ Goes(w, "request_create", None, fresh)
      BY <2>1 DEF RequestRead, fresh
    <3>3. work' \in [Workers -> Work]
      BY <1>0, <2>0, <3>1, <3>2, GoesTypes, GoesCreateTypes DEF Goes, Writing
    <3> QED
      BY <1>s, <2>1, <3>3 DEF RequestRead, TypeOK
  <2>2. ASSUME NEW id \in Eids, RequestCreate(w, id) PROVE TypeOK'
    <3>1. StoreTypeOK'
      BY <1>0, <2>2, StoreTypes, AtTypes DEF RequestCreate
    <3>2. [key |-> work[w].e.key, challenge |-> work[w].e.challenge] \in Signature
      BY <1>0, <2>2, AtTypes, RecordFields DEF RequestCreate, Signature
    <3> QED
      BY <1>0, <2>2, <3>1, <3>2, EndsTypes DEF RequestCreate, Issue, TypeOK
  <2>3. CASE RequestUpdate(w)
    <3>0. work[w].e \in Enrollment /\ work[w].id \in Eids
      BY <1>0, <2>3, AtTypes DEF RequestUpdate, At, Writing
    <3>1. StoreTypeOK'
      BY <1>0, <2>3, <3>0, StoreTypes DEF RequestUpdate
    <3>2. [key |-> work[w].e.key, challenge |-> work[w].e.challenge] \in Signature
      BY <3>0, RecordFields DEF Signature
    <3> QED
      BY <1>0, <2>3, <3>1, <3>2, EndsTypes DEF RequestUpdate, Issue, TypeOK
  <2>4. ASSUME NEW id \in Eids, NEW sig \in Signature, NEW onLink \in BOOLEAN,
               VerifyRead(w, id, sig, onLink)
        PROVE  TypeOK'
    <3>1. [enrollments[id] EXCEPT !.status = "pending_approval"] \in Enrollment
      BY <2>e, <2>4, ChangedRecord DEF VerifyRead, Statuses
    <3>2. work' \in [Workers -> Work]
      BY <1>0, <2>4, <3>1, GoesTypes DEF VerifyRead, Writing
    <3> QED
      BY <1>s, <2>4, <3>2 DEF VerifyRead, TypeOK
  <2>5. CASE VerifyWrite(w)
    <3>0. work[w].e \in Enrollment /\ work[w].id \in Eids
      BY <1>0, <2>5, AtTypes DEF VerifyWrite, At, Writing
    <3>1. StoreTypeOK'
      BY <1>0, <2>5, <3>0, StoreTypes DEF VerifyWrite
    <3>2. work' \in [Workers -> Work]
      BY <1>0, <2>5, <3>0, GoesTypes, EndsTypes DEF VerifyWrite, Goes, Writing
    <3>3. work[w].e.node \in Nodes
      BY <3>0, RecordFields
    <3> QED
      BY <2>5, <3>1, <3>2, <3>3 DEF VerifyWrite, TypeOK
  <2>6. ASSUME NEW n \in Nodes, AdoptRead(w, n) PROVE TypeOK'
    <3>1. work' \in [Workers -> Work]
      BY <1>0, <2>0, <2>6, GoesTypes DEF AdoptRead, Goes, Writing
    <3> QED
      BY <1>s, <2>6, <3>1 DEF AdoptRead, TypeOK
  <2>7. CASE ApproveCheck(w)
    <3>0. work[w].e \in Enrollment /\ work[w].id \in Eids
      BY <1>0, <2>7, AtTypes DEF ApproveCheck, At, Writing
    <3>1. work' \in [Workers -> Work]
      BY <1>0, <2>7, <3>0, GoesTypes DEF ApproveCheck, Goes, Writing
    <3> QED
      BY <1>s, <2>7, <3>1 DEF ApproveCheck, TypeOK
  <2>8. CASE ApproveCreate(w)
    <3>0. work[w].e \in Enrollment /\ work[w].id \in Eids
      BY <1>0, <2>8, AtTypes DEF ApproveCreate, At, Writing
    <3>1. StoreTypeOK'
      BY <1>0, <2>8, <3>0, StoreTypes, RecordFields DEF ApproveCreate
    <3>2. work' \in [Workers -> Work]
      BY <1>0, <2>8, <3>0, GoesTypes DEF ApproveCreate, Goes, Writing
    <3> QED
      BY <2>8, <3>1, <3>2 DEF ApproveCreate, TypeOK
  <2>9. CASE ApproveWrite(w)
    <3>0. work[w].e \in Enrollment /\ work[w].id \in Eids
      BY <1>0, <2>9, AtTypes DEF ApproveWrite, At, Writing
    <3>1. [work[w].e EXCEPT !.status = "approved"] \in Enrollment
      BY <3>0, ChangedRecord DEF Statuses
    <3>2. StoreTypeOK'
      BY <1>0, <2>9, <3>0, <3>1, StoreTypes DEF ApproveWrite
    <3> QED
      BY <1>0, <2>9, <3>2, EndsTypes DEF ApproveWrite, TypeOK
  <2>10. ASSUME NEW n \in Nodes, RejectRead(w, n) PROVE TypeOK'
    <3>1. [enrollments[byNode[n]] EXCEPT !.status = "rejected"] \in Enrollment
      BY <2>0, <2>10, ChangedRecord DEF RejectRead, Statuses
    <3>2. work' \in [Workers -> Work]
      BY <1>0, <2>0, <2>10, <3>1, GoesTypes DEF RejectRead, Goes, Writing
    <3> QED
      BY <1>s, <2>10, <3>2 DEF RejectRead, TypeOK
  <2>11. ASSUME NEW id \in Eids, AckRead(w, id) PROVE TypeOK'
    <3>1. [enrollments[id] EXCEPT !.status = "active"] \in Enrollment
      BY <2>e, <2>11, ChangedRecord DEF AckRead, Statuses
    <3>2. work' \in [Workers -> Work]
      BY <1>0, <2>11, <3>1, GoesTypes DEF AckRead, Goes, Writing
    <3> QED
      BY <1>s, <2>11, <3>2 DEF AckRead, TypeOK
  <2>12. CASE FinalWrite(w)
    <3>0. work[w].e \in Enrollment /\ work[w].id \in Eids
      BY <1>0, <2>12, AtTypes DEF FinalWrite, Writing
    <3>1. StoreTypeOK'
      BY <1>0, <2>12, <3>0, StoreTypes DEF FinalWrite
    <3> QED
      BY <1>0, <2>12, <3>1, EndsTypes DEF FinalWrite, TypeOK
  <2>13. CASE Abort(w)
    BY <1>0, <1>s, <2>13, EndsTypes DEF Abort, TypeOK
  <2> QED
    BY <1>1, <2>1, <2>2, <2>3, <2>4, <2>5, <2>6, <2>7, <2>8, <2>9, <2>10,
       <2>11, <2>12, <2>13 DEF HandlerStep
<1>2. ASSUME NEW r \in Signature, NodeSigns(r) PROVE TypeOK'
  BY <1>s, <1>2 DEF NodeSigns, TypeOK
<1>3. ASSUME NEW n \in Nodes, PostNode(n) \/ DecommissionNode(n) PROVE TypeOK'
  <2>1. StoreTypeOK'
    BY <1>0, <1>3, StoreTypes DEF PostNode, DecommissionNode
  <2> QED
    BY <1>3, <2>1 DEF PostNode, DecommissionNode, serviceVars, TypeOK
<1>4. CASE ForgetHome \/ FactoryReset
  <2>1. StoreTypeOK'
    BY <1>0, <1>4, StoreTypes DEF ForgetHome, FactoryReset
  <2> QED
    BY <1>4, <2>1 DEF ForgetHome, FactoryReset, TypeOK
<1>5. CASE UNCHANGED vars
  BY <1>s, <1>5 DEF vars, serviceVars, TypeOK
<1> QED
  BY <1>1, <1>2, <1>3, <1>4, <1>5 DEF Next

\* The model is well typed: every record in the store and every record a
\* handler holds in memory is an enrollment of some node.
THEOREM TypeCorrect == Spec => []TypeOK
<1>1. Init => TypeOK
  BY TypeInit
<1>2. TypeOK /\ [Next]_vars => TypeOK'
  BY TypeStep
<1> QED
  BY <1>1, <1>2, PTL DEF Spec

-----------------------------------------------------------------------------
(* The node index *)

\* An id in use has been produced by NewID, so a new record never replaces one.
IdsAreUsed == \A id \in Eids : Exists(id) => id \in usedIds

\* Every step of the service is at most one transaction of the store.
LEMMA OneTransaction ==
  ASSUME TypeOK, [Next]_vars
  PROVE  \/ \E id \in Eids \ usedIds, e \in Enrollment :
              CreateEnrollment(id, e) /\ usedIds' = usedIds \cup {id}
         \/ /\ UNCHANGED usedIds
            /\ \/ \E id \in Eids, e \in Enrollment : UpdateEnrollment(id, e)
               \/ \E n \in Nodes : CreateNode(n) \/ DeleteNode(n)
               \/ DeleteHome
               \/ Reset
               \/ UNCHANGED storeVars
<1>0. work \in [Workers -> Work]
  BY DEF TypeOK
<1>1. ASSUME NEW w \in Workers, NEW id \in Eids, RequestCreate(w, id)
      PROVE  /\ work[w].e \in Enrollment /\ id \in Eids \ usedIds
             /\ CreateEnrollment(id, work[w].e)
             /\ usedIds' = usedIds \cup {id}
  BY <1>0, <1>1, AtTypes DEF RequestCreate
<1>2. ASSUME NEW w \in Workers,
             RequestUpdate(w) \/ VerifyWrite(w) \/ FinalWrite(w)
      PROVE  /\ work[w].e \in Enrollment /\ work[w].id \in Eids
             /\ UpdateEnrollment(work[w].id, work[w].e)
             /\ UNCHANGED usedIds
  BY <1>0, <1>2, AtTypes
     DEF RequestUpdate, VerifyWrite, FinalWrite, At, Writing
<1>3. ASSUME NEW w \in Workers, ApproveWrite(w)
      PROVE  \E id \in Eids, e \in Enrollment :
               UpdateEnrollment(id, e) /\ UNCHANGED usedIds
  <2>1. work[w].e \in Enrollment /\ work[w].id \in Eids
    BY <1>0, <1>3, AtTypes DEF ApproveWrite, At, Writing
  <2>2. [work[w].e EXCEPT !.status = "approved"] \in Enrollment
    BY <2>1, ChangedRecord DEF Statuses
  <2> QED
    BY <1>3, <2>1, <2>2 DEF ApproveWrite
<1>4. ASSUME NEW w \in Workers, ApproveCreate(w)
      PROVE  work[w].e.node \in Nodes /\ CreateNode(work[w].e.node)
             /\ UNCHANGED usedIds
  BY <1>0, <1>4, AtTypes, RecordFields DEF ApproveCreate, At, Writing
<1>5. ASSUME NEW w \in Workers, HandlerStep(w)
      PROVE  \/ \E id \in Eids : RequestCreate(w, id)
             \/ RequestUpdate(w) \/ VerifyWrite(w) \/ FinalWrite(w)
             \/ ApproveWrite(w)
             \/ ApproveCreate(w)
             \/ UNCHANGED <<storeVars, usedIds>>
  BY <1>5 DEF HandlerStep, RequestRead, VerifyRead, AdoptRead, ApproveCheck,
              RejectRead, AckRead, Abort
<1>6. CASE \E w \in Workers : HandlerStep(w)
  BY <1>1, <1>2, <1>3, <1>4, <1>5, <1>6
<1>7. CASE \E r \in Signature : NodeSigns(r)
  BY <1>7 DEF NodeSigns
<1>8. CASE \/ \E n \in Nodes : PostNode(n) \/ DecommissionNode(n)
           \/ ForgetHome
           \/ FactoryReset
  BY <1>8 DEF PostNode, DecommissionNode, ForgetHome, FactoryReset, serviceVars
<1>9. CASE UNCHANGED vars
  BY <1>9 DEF vars, serviceVars
<1> QED
  BY <1>6, <1>7, <1>8, <1>9 DEF Next

\* The index survives each transaction.  A new record needs a new id: under an
\* id in use it would leave the other node's entry leading to it.
LEMMA IndexKept ==
  ASSUME StoreTypeOK, IndexConsistent,
         \/ \E id \in Eids, e \in Enrollment :
              \/ ~Exists(id) /\ CreateEnrollment(id, e)
              \/ UpdateEnrollment(id, e)
         \/ \E n \in Nodes : CreateNode(n) \/ DeleteNode(n)
         \/ DeleteHome
         \/ Reset
         \/ UNCHANGED storeVars
  PROVE  IndexConsistent'
<1> USE DEF StoreTypeOK, IndexConsistent, EnrollmentsOf, Exists
<1>1. ASSUME NEW id \in Eids, NEW e \in Enrollment, ~Exists(id),
             CreateEnrollment(id, e)
      PROVE  IndexConsistent'
  BY <1>1, RecordFields DEF CreateEnrollment
<1>2. ASSUME NEW id \in Eids, NEW e \in Enrollment, UpdateEnrollment(id, e)
      PROVE  IndexConsistent'
  BY <1>2, RecordFields DEF UpdateEnrollment
<1>3. ASSUME NEW n \in Nodes, CreateNode(n) PROVE IndexConsistent'
  BY <1>3 DEF CreateNode
<1>4. ASSUME NEW n \in Nodes, DeleteNode(n) PROVE IndexConsistent'
  BY <1>4 DEF DeleteNode
<1>5. CASE DeleteHome
  BY <1>5 DEF DeleteHome
<1>6. CASE Reset
  BY <1>6 DEF Reset
<1>7. CASE UNCHANGED storeVars
  BY <1>7 DEF storeVars
<1> QED
  BY <1>1, <1>2, <1>3, <1>4, <1>5, <1>6, <1>7

LEMMA IdsKept ==
  ASSUME TypeOK, IdsAreUsed, [Next]_vars
  PROVE  IdsAreUsed'
<1> USE DEF IdsAreUsed, Exists
<1>0. StoreTypeOK
  BY DEF TypeOK
<1>1. ASSUME NEW id \in Eids, NEW e \in Enrollment, CreateEnrollment(id, e),
             usedIds' = usedIds \cup {id}
      PROVE  IdsAreUsed'
  BY <1>0, <1>1 DEF CreateEnrollment, StoreTypeOK
<1>2. ASSUME UNCHANGED usedIds,
             \E id \in Eids, e \in Enrollment : UpdateEnrollment(id, e)
      PROVE  IdsAreUsed'
  BY <1>0, <1>2 DEF UpdateEnrollment, StoreTypeOK
<1>3. ASSUME UNCHANGED usedIds,
             \/ \E n \in Nodes : CreateNode(n) \/ DeleteNode(n)
             \/ DeleteHome \/ Reset \/ UNCHANGED storeVars
      PROVE  IdsAreUsed'
  BY <1>0, <1>3 DEF CreateNode, DeleteNode, DeleteHome, Reset, storeVars, StoreTypeOK
<1> QED
  BY <1>1, <1>2, <1>3, OneTransaction

\* However handlers overlap, with any number of joins of a node at a time, the
\* node index leads to a record of the node it indexes.
THEOREM IndexCorrect == Spec => []IndexConsistent
<1> DEFINE IInv == TypeOK /\ IdsAreUsed /\ IndexConsistent
<1>1. Init => IInv
  BY TypeInit DEF Init, StoreInit, IdsAreUsed, Exists, IndexConsistent
<1>2. IInv /\ [Next]_vars => IInv'
  <2> SUFFICES ASSUME IInv, [Next]_vars PROVE IInv'
    OBVIOUS
  <2>1. IndexConsistent'
    BY OneTransaction, IndexKept DEF TypeOK, IdsAreUsed
  <2> QED
    BY <2>1, TypeStep, IdsKept
<1> QED
  BY <1>1, <1>2, PTL DEF Spec

-----------------------------------------------------------------------------
(* Proof of possession *)

\* A record whose challenge its own node has signed, if it claims so much.
Proven(e) ==
  /\ e.key = e.node
  /\ e.status \in Vetted =>
       [key |-> e.key, challenge |-> e.challenge] \in signed

Approving == {"verify_write", "approve_check", "approve_create", "approve_write"}

\* ChallengeSigned speaks of the store; a handler can write back what it read
\* long ago, so the same must hold of every snapshot.  Signatures are never
\* undone, and whoever writes a status writes the challenge it belongs to.
AllProven ==
  /\ \A id \in Eids : Exists(id) => Proven(enrollments[id])
  /\ \A w \in Workers :
       /\ work[w].step # "idle" => Proven(work[w].e)
       /\ work[w].step \in Approving => work[w].e.status = "pending_approval"

\* A step that changes no record keeps the records proven; so does one that
\* writes a proven record.
LEMMA StoreProven ==
  ASSUME StoreTypeOK, AllProven, signed \subseteq signed',
         \/ \E id \in Eids, e \in Enrollment :
              Proven(e) /\ (CreateEnrollment(id, e) \/ UpdateEnrollment(id, e))
         \/ \E n \in Nodes : CreateNode(n) \/ DeleteNode(n)
         \/ DeleteHome
         \/ Reset
         \/ UNCHANGED storeVars
  PROVE  \A id \in Eids : Exists(id)' => Proven(enrollments[id])'
<1> USE DEF StoreTypeOK, AllProven, Exists, Proven
<1>1. ASSUME NEW id \in Eids, NEW e \in Enrollment, Proven(e),
             CreateEnrollment(id, e) \/ UpdateEnrollment(id, e),
             NEW i \in Eids, Exists(i)'
      PROVE  Proven(enrollments[i])'
  BY <1>1 DEF CreateEnrollment, UpdateEnrollment
<1>2. ASSUME \/ \E n \in Nodes : CreateNode(n) \/ DeleteNode(n)
             \/ DeleteHome \/ Reset \/ UNCHANGED storeVars,
             NEW i \in Eids, Exists(i)'
      PROVE  Proven(enrollments[i])'
  BY <1>2 DEF CreateNode, DeleteNode, DeleteHome, Reset, storeVars
<1> QED
  BY <1>1, <1>2

\* A worker that goes idle, or on with a proven record, keeps the snapshots
\* proven.
LEMMA WorkProven ==
  ASSUME work \in [Workers -> Work], AllProven, signed \subseteq signed',
         NEW w \in Workers,
         \/ Ends(w)
         \/ \E s, id, b : \E e \in Enrollment :
              /\ Proven(e)
              /\ s \in Approving => e.status = "pending_approval"
              /\ work' = [work EXCEPT ![w] =
                            [step |-> s, id |-> id, e |-> e, onLink |-> b]]
  PROVE  \A v \in Workers :
           /\ work'[v].step # "idle" => Proven(work[v].e)'
           /\ work'[v].step \in Approving => work'[v].e.status = "pending_approval"
<1>1. CASE Ends(w)
  BY <1>1 DEF Ends, Idle, Approving, AllProven, Proven
<1>2. ASSUME NEW s, NEW id, NEW b, NEW e \in Enrollment, Proven(e),
             s \in Approving => e.status = "pending_approval",
             work' = [work EXCEPT ![w] =
                        [step |-> s, id |-> id, e |-> e, onLink |-> b]]
      PROVE  \A v \in Workers :
               /\ work'[v].step # "idle" => Proven(work[v].e)'
               /\ work'[v].step \in Approving =>
                    work'[v].e.status = "pending_approval"
  BY <1>2 DEF AllProven, Proven
<1> QED
  BY <1>1, <1>2

\* Whatever a step writes was proven when it was read, or is by what it checks.
LEMMA ProvenStep ==
  ASSUME TypeOK, AllProven, [Next]_vars
  PROVE  AllProven'
<1>0. StoreTypeOK /\ work \in [Workers -> Work]
  BY DEF TypeOK
<1>s. UNCHANGED storeVars /\ signed \subseteq signed' =>
        \A id \in Eids : Exists(id)' => Proven(enrollments[id])'
  BY <1>0, StoreProven
<1>n. \A n \in Nodes : FoundByNode(n) =>
        enrollments[byNode[n]] \in Enrollment /\ Proven(enrollments[byNode[n]])
  BY <1>0 DEF FoundByNode, Exists, StoreTypeOK, AllProven
<1>e. \A id \in Eids : Exists(id) =>
        enrollments[id] \in Enrollment /\ Proven(enrollments[id])
  BY <1>0 DEF Exists, StoreTypeOK, AllProven
<1>1. ASSUME NEW w \in Workers, HandlerStep(w) PROVE AllProven'
  <2>w. work[w].step \in Writing =>
          /\ work[w].e \in Enrollment /\ Proven(work[w].e)
          /\ work[w].id \in Eids
    BY <1>0, AtTypes DEF AllProven, Writing
  <2>1. ASSUME NEW n \in Nodes, NEW key \in Nodes, NEW c \in Challenges,
               RequestRead(w, n, key, c)
        PROVE  AllProven'
    <3> DEFINE fresh == [node |-> n, key |-> key, challenge |-> c,
                         status |-> "pending_verification"]
    <3>1. fresh \in Enrollment /\ Proven(fresh)
      BY <2>1, NewRecord
         DEF Statuses, Proven, Vetted, RequestRead, NodeIDFromPublicKey
    <3> HIDE DEF fresh
    <3>2. \/ Goes(w, "request_update", byNode[n], fresh)
          \/ Goes(w, "request_create", None, fresh)
      BY <2>1 DEF RequestRead, fresh
    <3>3. UNCHANGED <<storeVars, signed>>
      BY <2>1 DEF RequestRead
    <3>4. \E s, id, b : \E e \in Enrollment :
            /\ Proven(e)
            /\ s \in Approving => e.status = "pending_approval"
            /\ work' = [work EXCEPT ![w] =
                          [step |-> s, id |-> id, e |-> e, onLink |-> b]]
      BY <3>1, <3>2 DEF Goes, Approving
    <3> QED
      BY <1>0, <1>s, <3>3, <3>4, WorkProven DEF AllProven
  <2>2. ASSUME NEW id \in Eids, RequestCreate(w, id) PROVE AllProven'
    <3>1. work[w].e \in Enrollment /\ Proven(work[w].e)
      BY <1>0, <2>2, AtTypes DEF RequestCreate, At, AllProven
    <3> QED
      BY <1>0, <2>2, <3>1, StoreProven, WorkProven DEF RequestCreate, AllProven
  <2>3. CASE RequestUpdate(w) \/ FinalWrite(w)
    <3>1. work[w].step \in Writing /\ Ends(w) /\ UNCHANGED signed
          /\ UpdateEnrollment(work[w].id, work[w].e)
      BY <2>3 DEF RequestUpdate, FinalWrite, At, Writing
    <3> QED
      BY <1>0, <2>w, <3>1, StoreProven, WorkProven DEF AllProven
  <2>4. ASSUME NEW id \in Eids, NEW sig \in Signature, NEW onLink \in BOOLEAN,
               VerifyRead(w, id, sig, onLink)
        PROVE  AllProven'
    <3> DEFINE e == [enrollments[id] EXCEPT !.status = "pending_approval"]
    <3>1. /\ e \in Enrollment /\ e.status = "pending_approval"
          /\ e.node = enrollments[id].node /\ e.key = enrollments[id].key
          /\ e.challenge = enrollments[id].challenge
      BY <1>e, <2>4, ChangedRecord DEF VerifyRead, Statuses
    <3> HIDE DEF e
    <3>2. sig = [key |-> e.key, challenge |-> e.challenge]
      BY <2>4, <3>1 DEF VerifyRead, VerifySignature, Signature
    <3>3. Proven(e)
      BY <1>e, <2>4, <3>1, <3>2 DEF Proven, VerifyRead
    <3>4. /\ UNCHANGED <<storeVars, signed>>
          /\ work' = [work EXCEPT ![w] = [step |-> "verify_write", id |-> id,
                                          e |-> e, onLink |-> onLink]]
      BY <2>4 DEF VerifyRead, e
    <3> QED
      BY <1>0, <1>s, <3>1, <3>3, <3>4, WorkProven DEF AllProven
  <2>5. CASE VerifyWrite(w)
    <3>1. /\ work[w].step \in Writing /\ UNCHANGED signed
          /\ work[w].step \in Approving
          /\ UpdateEnrollment(work[w].id, work[w].e)
      BY <2>5 DEF VerifyWrite, At, Writing, Approving
    <3>2. work[w].e.status = "pending_approval"
      BY <3>1 DEF AllProven
    <3>3. Ends(w) \/ Goes(w, "approve_check", work[w].id, work[w].e)
      BY <2>5 DEF VerifyWrite
    <3> QED
      BY <1>0, <2>w, <3>1, <3>2, <3>3, StoreProven, WorkProven
         DEF AllProven, Goes
  <2>6. ASSUME NEW n \in Nodes, AdoptRead(w, n) PROVE AllProven'
    <3>1. /\ UNCHANGED <<storeVars, signed>> /\ FoundByNode(n)
          /\ enrollments[byNode[n]].status = "pending_approval"
          /\ Goes(w, "approve_check", byNode[n], enrollments[byNode[n]])
      BY <2>6 DEF AdoptRead
    <3> QED
      BY <1>0, <1>s, <1>n, <3>1, WorkProven DEF AllProven, Goes
  <2>7. CASE ApproveCheck(w) \/ ApproveCreate(w)
    <3>1. /\ work[w].step \in Writing /\ UNCHANGED signed
          /\ work[w].step \in Approving
          /\ UNCHANGED storeVars \/ CreateNode(work[w].e.node)
      BY <2>7 DEF ApproveCheck, ApproveCreate, At, Writing, Approving
    <3>2. work[w].e.status = "pending_approval" /\ work[w].e.node \in Nodes
      BY <2>w, <3>1, RecordFields DEF AllProven
    <3>3. \/ Goes(w, "approve_write", work[w].id, work[w].e)
          \/ Goes(w, "approve_create", work[w].id, work[w].e)
      BY <2>7 DEF ApproveCheck, ApproveCreate
    <3> QED
      BY <1>0, <2>w, <3>1, <3>2, <3>3, StoreProven, WorkProven
         DEF AllProven, Goes
  <2>8. CASE ApproveWrite(w)
    <3> DEFINE e == [work[w].e EXCEPT !.status = "approved"]
    <3>1. /\ work[w].step \in Writing /\ work[w].step \in Approving
          /\ UNCHANGED signed /\ Ends(w) /\ UpdateEnrollment(work[w].id, e)
      BY <2>8 DEF ApproveWrite, At, Writing, Approving
    <3>2. work[w].e.status \in Vetted
      BY <3>1 DEF AllProven, Vetted
    <3>3. /\ e \in Enrollment /\ e.node = work[w].e.node
          /\ e.key = work[w].e.key /\ e.challenge = work[w].e.challenge
      BY <2>w, <3>1, ChangedRecord DEF Statuses
    <3> HIDE DEF e
    <3>4. Proven(e)
      BY <2>w, <3>1, <3>2, <3>3 DEF Proven
    <3> QED
      BY <1>0, <2>w, <3>1, <3>3, <3>4, StoreProven, WorkProven DEF AllProven
  <2>9. ASSUME NEW n \in Nodes, RejectRead(w, n) PROVE AllProven'
    <3> DEFINE e == [enrollments[byNode[n]] EXCEPT !.status = "rejected"]
    <3>1. /\ UNCHANGED <<storeVars, signed>> /\ FoundByNode(n)
          /\ Goes(w, "reject_write", byNode[n], e)
      BY <2>9 DEF RejectRead
    <3>2. /\ e \in Enrollment /\ e.status = "rejected"
          /\ e.node = enrollments[byNode[n]].node
          /\ e.key = enrollments[byNode[n]].key
      BY <1>n, <3>1, ChangedRecord DEF Statuses
    <3> HIDE DEF e
    <3>3. Proven(e)
      BY <1>n, <3>1, <3>2 DEF Proven, Vetted
    <3> QED
      BY <1>0, <1>s, <3>1, <3>2, <3>3, WorkProven DEF AllProven, Goes, Approving
  <2>10. ASSUME NEW id \in Eids, AckRead(w, id) PROVE AllProven'
    <3> DEFINE e == [enrollments[id] EXCEPT !.status = "active"]
    <3>1. /\ UNCHANGED <<storeVars, signed>> /\ Exists(id)
          /\ enrollments[id].status \in Vetted
          /\ Goes(w, "ack_write", id, e)
      BY <2>10 DEF AckRead, Vetted
    <3>2. /\ e \in Enrollment /\ e.node = enrollments[id].node
          /\ e.key = enrollments[id].key
          /\ e.challenge = enrollments[id].challenge
      BY <1>e, <3>1, ChangedRecord DEF Statuses
    <3> HIDE DEF e
    <3>3. Proven(e)
      BY <1>e, <3>1, <3>2 DEF Proven
    <3> QED
      BY <1>0, <1>s, <3>1, <3>2, <3>3, WorkProven DEF AllProven, Goes, Approving
  <2>11. CASE Abort(w)
    BY <1>0, <1>s, <2>11, WorkProven DEF AllProven, Abort
  <2> QED
    BY <1>1, <2>1, <2>2, <2>3, <2>4, <2>5, <2>6, <2>7, <2>8, <2>9, <2>10,
       <2>11 DEF HandlerStep
<1>2. CASE UNCHANGED work /\ signed \subseteq signed'
           /\ (\/ \E n \in Nodes : CreateNode(n) \/ DeleteNode(n)
               \/ DeleteHome \/ Reset \/ UNCHANGED storeVars)
  <2>1. \A id \in Eids : Exists(id)' => Proven(enrollments[id])'
    BY <1>0, <1>2, StoreProven
  <2> QED
    BY <1>2, <2>1 DEF AllProven, Proven
<1>3. ASSUME ~\E w \in Workers : HandlerStep(w)
      PROVE  /\ UNCHANGED work /\ signed \subseteq signed'
             /\ \/ \E n \in Nodes : CreateNode(n) \/ DeleteNode(n)
                \/ DeleteHome \/ Reset \/ UNCHANGED storeVars
  BY <1>3 DEF Next, NodeSigns, PostNode, DecommissionNode, ForgetHome,
              FactoryReset, vars, serviceVars
<1> QED
  BY <1>1, <1>2, <1>3

LEMMA ProvenInit == Init => AllProven
BY DEF Init, StoreInit, AllProven, Exists, Idle, Approving

\* Through any overlap of requests, verifications, decisions and acks, a
\* record is past verification only with the challenge it holds signed by its
\* own node: the controller "verifies the signature against the submitted
\* public key before advancing past pending_verification".
THEOREM PossessionProven == Spec => []ChallengeSigned
<1> DEFINE IInv == TypeOK /\ AllProven
<1>1. Init => IInv
  BY TypeInit, ProvenInit
<1>2. IInv => ChallengeSigned
  BY DEF AllProven, Proven, ChallengeSigned
<1>3. IInv /\ [Next]_vars => IInv'
  BY TypeStep, ProvenStep
<1> QED
  BY <1>1, <1>2, <1>3, PTL DEF Spec

-----------------------------------------------------------------------------
(* One join of a node at a time: every record can be reached from its node *)

\* A handler that will write a record has read it from the store, under an id
\* that is not used again; if a record is still there, it is the same node's.
Snapshots ==
  \A w \in Workers : work[w].step \in Writing =>
    /\ work[w].id \in usedIds
    /\ Exists(work[w].id) => enrollments[work[w].id].node = work[w].e.node

\* A request about to create a record of a node is the only request of that
\* node in flight, and the node has no record.
CreatesAlone ==
  \A w \in Workers : At(w, "request_create") =>
    /\ EnrollmentsOf(work[w].e.node) = {}
    /\ Requesting(work[w].e.node) = {w}

RecordInv == TypeOK /\ IdsAreUsed /\ IndexConsistent /\ Snapshots

\* The steps that change a record or the index, one of four kinds.
LEMMA RecordSteps ==
  ASSUME [Next]_vars
  PROVE  \/ \E w \in Workers :
              \/ \E i \in Eids : RequestCreate(w, i)
              \/ RequestUpdate(w) \/ VerifyWrite(w) \/ FinalWrite(w)
              \/ ApproveWrite(w)
         \/ UNCHANGED <<enrollments, byNode>>
         \/ \E n \in Nodes : DeleteNode(n)
         \/ DeleteHome \/ Reset
<1>1. ASSUME NEW w \in Workers, HandlerStep(w)
      PROVE  \/ \E i \in Eids : RequestCreate(w, i)
             \/ RequestUpdate(w) \/ VerifyWrite(w) \/ FinalWrite(w)
             \/ ApproveWrite(w)
             \/ UNCHANGED <<enrollments, byNode>>
  <2>1. ApproveCreate(w) => UNCHANGED <<enrollments, byNode>>
    BY DEF ApproveCreate, CreateNode
  <2>2. Abort(w) \/ ApproveCheck(w) => UNCHANGED <<enrollments, byNode>>
    BY DEF Abort, ApproveCheck, storeVars
  <2>3. ASSUME NEW id \in Eids
        PROVE  AckRead(w, id) => UNCHANGED <<enrollments, byNode>>
    BY DEF AckRead, storeVars
  <2>4. ASSUME NEW n \in Nodes
        PROVE  AdoptRead(w, n) \/ RejectRead(w, n) => UNCHANGED <<enrollments, byNode>>
    BY DEF AdoptRead, RejectRead, storeVars
  <2>5. ASSUME NEW id \in Eids, NEW sig \in Signature, NEW onLink \in BOOLEAN
        PROVE  VerifyRead(w, id, sig, onLink) => UNCHANGED <<enrollments, byNode>>
    BY DEF VerifyRead, storeVars
  <2>6. ASSUME NEW n \in Nodes, NEW key \in Nodes, NEW c \in Challenges
        PROVE  RequestRead(w, n, key, c) => UNCHANGED <<enrollments, byNode>>
    BY DEF RequestRead, storeVars
  <2> QED
    BY <1>1, <2>1, <2>2, <2>3, <2>4, <2>5, <2>6 DEF HandlerStep
<1>2. ASSUME NEW n \in Nodes, PostNode(n) \/ DecommissionNode(n)
      PROVE  UNCHANGED <<enrollments, byNode>> \/ DeleteNode(n)
  BY <1>2 DEF PostNode, DecommissionNode, CreateNode
<1>3. ASSUME NEW r \in Signature, NodeSigns(r)
      PROVE  UNCHANGED <<enrollments, byNode>>
  BY <1>3 DEF NodeSigns, storeVars
<1>4. ForgetHome => DeleteHome
  BY DEF ForgetHome
<1>5. FactoryReset => Reset
  BY DEF FactoryReset
<1>6. UNCHANGED vars => UNCHANGED <<enrollments, byNode>>
  BY DEF vars, storeVars
<1> QED
  BY <1>1, <1>2, <1>3, <1>4, <1>5, <1>6 DEF Next

\* Where the record of an id comes from when a step writes it.
LEMMA WrittenBy ==
  ASSUME TypeOK, [Next]_vars, NEW id \in Eids, Exists(id)',
         enrollments'[id] # enrollments[id]
  PROVE  \E w \in Workers :
           \/ /\ RequestCreate(w, id)
              /\ enrollments'[id] = work[w].e
           \/ /\ work[w].id = id /\ Exists(id) /\ work[w].step \in Writing
              /\ \/ /\ work[w].step \in {"request_update", "verify_write",
                                         "reject_write", "ack_write"}
                    /\ enrollments'[id] = work[w].e
                 \/ /\ work[w].step = "approve_write"
                    /\ enrollments'[id].node = work[w].e.node
<1>0. work \in [Workers -> Work] /\ enrollments \in [Eids -> Enrollment \cup {None}]
  BY DEF TypeOK, StoreTypeOK
<1>1. ASSUME NEW w \in Workers, NEW i \in Eids, RequestCreate(w, i)
      PROVE  i = id /\ enrollments'[id] = work[w].e
  BY <1>0, <1>1 DEF RequestCreate, CreateEnrollment
<1>2. ASSUME NEW w \in Workers,
             RequestUpdate(w) \/ VerifyWrite(w) \/ FinalWrite(w)
      PROVE  /\ work[w].id = id /\ Exists(id) /\ work[w].step \in Writing
             /\ work[w].step \in {"request_update", "verify_write",
                                  "reject_write", "ack_write"}
             /\ enrollments'[id] = work[w].e
  <2>1. /\ UpdateEnrollment(work[w].id, work[w].e)
        /\ work[w].step \in {"request_update", "verify_write", "reject_write",
                             "ack_write"}
    BY <1>2 DEF RequestUpdate, VerifyWrite, FinalWrite, At
  <2> QED
    BY <1>0, <2>1, AtTypes DEF UpdateEnrollment, Writing
<1>3. ASSUME NEW w \in Workers, ApproveWrite(w)
      PROVE  /\ work[w].id = id /\ Exists(id) /\ work[w].step \in Writing
             /\ work[w].step = "approve_write"
             /\ enrollments'[id].node = work[w].e.node
  <2> DEFINE e == [work[w].e EXCEPT !.status = "approved"]
  <2>1. /\ UpdateEnrollment(work[w].id, e) /\ work[w].step = "approve_write"
        /\ work[w].step \in Writing
    BY <1>3 DEF ApproveWrite, At, Writing
  <2>2. e.node = work[w].e.node
    BY <1>0, <2>1, AtTypes, ChangedRecord DEF Statuses
  <2> HIDE DEF e
  <2> QED
    BY <1>0, <2>1, <2>2, AtTypes DEF UpdateEnrollment
<1>4. CASE \/ UNCHANGED enrollments
           \/ \E n \in Nodes : DeleteNode(n)
           \/ DeleteHome \/ Reset
  BY <1>0, <1>4 DEF DeleteNode, DeleteHome, Reset, Exists
<1>5. \/ \E w \in Workers :
           \/ \E i \in Eids : RequestCreate(w, i)
           \/ RequestUpdate(w) \/ VerifyWrite(w) \/ FinalWrite(w)
           \/ ApproveWrite(w)
      \/ UNCHANGED <<enrollments, byNode>>
      \/ \E n \in Nodes : DeleteNode(n)
      \/ DeleteHome \/ Reset
  BY RecordSteps
<1> QED
  BY <1>1, <1>2, <1>3, <1>4, <1>5

\* A record after a step was there before it and belongs to the same node,
\* unless the step created it.
LEMMA RecordsStay ==
  ASSUME RecordInv, [Next]_vars, NEW id \in Eids, Exists(id)'
  PROVE  \/ Exists(id) /\ enrollments'[id].node = enrollments[id].node
         \/ \E w \in Workers :
              RequestCreate(w, id) /\ enrollments'[id] = work[w].e
<1>1. CASE enrollments'[id] = enrollments[id]
  BY <1>1 DEF Exists
<1>2. CASE enrollments'[id] # enrollments[id]
  BY <1>2, WrittenBy DEF RecordInv, Snapshots
<1> QED
  BY <1>1, <1>2

\* A worker's step leaves the other workers alone, and its own entry becomes
\* idle, a request, or a snapshot: newly read, or the one it had.
LEMMA WorkerStep ==
  ASSUME RecordInv, NEW w \in Workers, HandlerStep(w)
  PROVE  /\ \A v \in Workers \ {w} : work'[v] = work[v]
         /\ work'[w].step \in Writing =>
              \/ /\ UNCHANGED storeVars
                 /\ work'[w].id \in Eids /\ Exists(work'[w].id)
                 /\ enrollments[work'[w].id].node = work'[w].e.node
              \/ /\ work[w].step \in Writing
                 /\ work'[w].id = work[w].id /\ work'[w].e = work[w].e
<1>0. work \in [Workers -> Work] /\ StoreTypeOK
  BY DEF RecordInv, TypeOK
<1>n. \A n \in Nodes : FoundByNode(n) =>
        /\ byNode[n] \in Eids /\ Exists(byNode[n])
        /\ enrollments[byNode[n]] \in Enrollment
        /\ enrollments[byNode[n]].node = n
  BY <1>0 DEF FoundByNode, Exists, StoreTypeOK, RecordInv, IndexConsistent,
              EnrollmentsOf
<1>e. \A id \in Eids : Exists(id) => enrollments[id] \in Enrollment
  BY <1>0 DEF Exists, StoreTypeOK
<1>1. ASSUME NEW n \in Nodes, NEW key \in Nodes, NEW c \in Challenges,
             RequestRead(w, n, key, c)
      PROVE  \/ UNCHANGED storeVars /\ \E e : e.node = n /\ FoundByNode(n)
                  /\ Goes(w, "request_update", byNode[n], e)
             \/ \E e : Goes(w, "request_create", None, e)
  BY <1>1 DEF RequestRead
<1>2. ASSUME NEW id \in Eids, NEW sig \in Signature, NEW onLink \in BOOLEAN,
             VerifyRead(w, id, sig, onLink)
      PROVE  \E e, b : /\ UNCHANGED storeVars /\ Exists(id)
                       /\ e.node = enrollments[id].node
                       /\ work' = [work EXCEPT ![w] = [step |-> "verify_write",
                                     id |-> id, onLink |-> b, e |-> e]]
  <2>1. [enrollments[id] EXCEPT !.status = "pending_approval"].node
          = enrollments[id].node
    BY <1>e, <1>2, ChangedRecord DEF VerifyRead, Statuses
  <2> QED
    BY <1>2, <2>1 DEF VerifyRead
<1>3. ASSUME NEW n \in Nodes, AdoptRead(w, n) \/ RejectRead(w, n)
      PROVE  \E e : /\ UNCHANGED storeVars /\ FoundByNode(n)
                    /\ e.node = enrollments[byNode[n]].node
                    /\ \/ Goes(w, "approve_check", byNode[n], e)
                       \/ Goes(w, "reject_write", byNode[n], e)
  <2>1. FoundByNode(n) /\ UNCHANGED storeVars
    BY <1>3 DEF AdoptRead, RejectRead
  <2>2. [enrollments[byNode[n]] EXCEPT !.status = "rejected"].node
          = enrollments[byNode[n]].node
    BY <1>n, <2>1, ChangedRecord DEF Statuses
  <2> QED
    BY <1>3, <2>1, <2>2 DEF AdoptRead, RejectRead
<1>4. ASSUME NEW id \in Eids, AckRead(w, id)
      PROVE  \E e : /\ UNCHANGED storeVars /\ Exists(id)
                    /\ e.node = enrollments[id].node
                    /\ Goes(w, "ack_write", id, e)
  <2>1. [enrollments[id] EXCEPT !.status = "active"].node = enrollments[id].node
    BY <1>e, <1>4, ChangedRecord DEF AckRead, Statuses
  <2> QED
    BY <1>4, <2>1 DEF AckRead
<1>5. CASE \/ \E id \in Eids : RequestCreate(w, id)
           \/ RequestUpdate(w) \/ ApproveWrite(w) \/ FinalWrite(w) \/ Abort(w)
  <2>1. Ends(w)
    BY <1>5 DEF RequestCreate, RequestUpdate, ApproveWrite, FinalWrite, Abort
  <2> QED
    BY <1>0, <2>1 DEF Ends, Idle, Writing
<1>6. CASE VerifyWrite(w) \/ ApproveCheck(w) \/ ApproveCreate(w)
  <2>1. /\ work[w].step \in Writing
        /\ \/ Ends(w)
           \/ \E s \in Writing : Goes(w, s, work[w].id, work[w].e)
    BY <1>6 DEF VerifyWrite, ApproveCheck, ApproveCreate, At, Writing
  <2> QED
    BY <1>0, <2>1 DEF Ends, Idle, Goes, Writing
<1>7. CASE \E n, key \in Nodes, c \in Challenges : RequestRead(w, n, key, c)
  BY <1>0, <1>n, <1>1, <1>7 DEF Goes, Writing
<1>8. CASE \E id \in Eids, sig \in Signature, onLink \in BOOLEAN :
             VerifyRead(w, id, sig, onLink)
  BY <1>0, <1>2, <1>8
<1>9. CASE \E n \in Nodes : AdoptRead(w, n) \/ RejectRead(w, n)
  BY <1>0, <1>n, <1>3, <1>9 DEF Goes
<1>10. CASE \E id \in Eids : AckRead(w, id)
  BY <1>0, <1>4, <1>10 DEF Goes
<1> QED
  BY <1>5, <1>6, <1>7, <1>8, <1>9, <1>10 DEF HandlerStep

LEMMA SnapshotsKept ==
  ASSUME RecordInv, [Next]_vars
  PROVE  Snapshots'
<1>0. /\ work \in [Workers -> Work] /\ usedIds \subseteq usedIds'
      /\ TypeOK /\ Snapshots /\ IdsAreUsed
  BY OneTransaction DEF RecordInv, TypeOK
<1>1. ASSUME NEW id \in Eids, id \in usedIds, Exists(id)'
      PROVE  Exists(id) /\ enrollments'[id].node = enrollments[id].node
  BY <1>1, RecordsStay DEF RequestCreate
<1>2. ASSUME NEW v \in Workers, work'[v] = work[v], work'[v].step \in Writing
      PROVE  /\ work'[v].id \in usedIds'
             /\ enrollments'[work'[v].id] # None =>
                  enrollments'[work'[v].id].node = work'[v].e.node
  <2> DEFINE i == work[v].id
  <2>1. i \in usedIds /\ i \in Eids
    BY <1>0, <1>2, AtTypes DEF Snapshots
  <2>2. Exists(i) => enrollments[i].node = work[v].e.node
    BY <1>0, <1>2 DEF Snapshots
  <2> HIDE DEF i
  <2>3. enrollments'[i] # None =>
          Exists(i) /\ enrollments'[i].node = enrollments[i].node
    BY <1>1, <2>1 DEF Exists
  <2> QED
    BY <1>0, <1>2, <2>1, <2>2, <2>3 DEF i
<1>3. ASSUME NEW w \in Workers, HandlerStep(w) PROVE Snapshots'
  <2>1. ASSUME work'[w].step \in Writing,
               UNCHANGED storeVars, work'[w].id \in Eids, Exists(work'[w].id),
               enrollments[work'[w].id].node = work'[w].e.node
        PROVE  /\ work'[w].id \in usedIds'
               /\ enrollments'[work'[w].id].node = work'[w].e.node
    BY <1>0, <2>1 DEF IdsAreUsed, storeVars
  <2>2. ASSUME work'[w].step \in Writing, work[w].step \in Writing,
               work'[w].id = work[w].id, work'[w].e = work[w].e
        PROVE  /\ work'[w].id \in usedIds'
               /\ enrollments'[work'[w].id] # None =>
                    enrollments'[work'[w].id].node = work'[w].e.node
    <3> DEFINE i == work[w].id
    <3>1. i \in Eids /\ i \in usedIds
      BY <1>0, <2>2, AtTypes DEF Snapshots
    <3>2. Exists(i) => enrollments[i].node = work[w].e.node
      BY <1>0, <2>2 DEF Snapshots
    <3> HIDE DEF i
    <3>3. enrollments'[i] # None =>
            Exists(i) /\ enrollments'[i].node = enrollments[i].node
      BY <1>1, <3>1 DEF Exists
    <3> QED
      BY <1>0, <2>2, <3>1, <3>2, <3>3 DEF i
  <2> QED
    BY <1>2, <1>3, <2>1, <2>2, WorkerStep DEF Snapshots, Exists
<1>4. CASE UNCHANGED work
  BY <1>2, <1>4 DEF Snapshots, Exists
<1>5. (\E w \in Workers : HandlerStep(w)) \/ UNCHANGED work
  BY DEF Next, NodeSigns, PostNode, DecommissionNode, ForgetHome, FactoryReset,
         vars, serviceVars
<1> QED
  BY <1>3, <1>4, <1>5

LEMMA RecordInit == Init => RecordInv
BY TypeInit DEF Init, StoreInit, RecordInv, IdsAreUsed, Exists, IndexConsistent,
                Snapshots, Idle, Writing

LEMMA RecordStep ==
  ASSUME RecordInv, [Next]_vars
  PROVE  RecordInv'
<1>1. IndexConsistent'
  BY OneTransaction, IndexKept DEF RecordInv, TypeOK, IdsAreUsed
<1> QED
  BY <1>1, TypeStep, IdsKept, SnapshotsKept DEF RecordInv

\* A worker that becomes a request has just looked for a record of its node.
LEMMA RequestStep ==
  ASSUME TypeOK, NEW w \in Workers, HandlerStep(w),
         work'[w].step \in {"request_create", "request_update"}
  PROVE  /\ UNCHANGED storeVars
         /\ work'[w].e.node \in Nodes
         /\ OneJoinPerNode => Requesting(work'[w].e.node) = {}
         /\ work'[w].step = "request_create" => ~FoundByNode(work'[w].e.node)
<1>0. work \in [Workers -> Work]
  BY DEF TypeOK
<1>1. CASE \E n, key \in Nodes, c \in Challenges : RequestRead(w, n, key, c)
  BY <1>0, <1>1 DEF RequestRead, Goes
<1>2. CASE \/ \E id \in Eids : RequestCreate(w, id) \/ AckRead(w, id)
           \/ \E id \in Eids, sig \in Signature, onLink \in BOOLEAN :
                VerifyRead(w, id, sig, onLink)
           \/ \E n \in Nodes : AdoptRead(w, n) \/ RejectRead(w, n)
           \/ RequestUpdate(w) \/ VerifyWrite(w) \/ ApproveCheck(w)
           \/ ApproveCreate(w) \/ ApproveWrite(w) \/ FinalWrite(w) \/ Abort(w)
  <2>1. work'[w].step \in {"idle", "verify_write", "approve_check",
          "approve_create", "approve_write", "reject_write", "ack_write"}
    BY <1>0, <1>2
       DEF RequestCreate, AckRead, VerifyRead, AdoptRead, RejectRead,
           RequestUpdate, VerifyWrite, ApproveCheck, ApproveCreate,
           ApproveWrite, FinalWrite, Abort, Goes, Ends, Idle
  <2> QED
    BY <2>1
<1> QED
  BY <1>1, <1>2 DEF HandlerStep

JoinInv == RecordInv /\ NoOrphan /\ CreatesAlone

\* With one join of a node at a time a request creates a record only where
\* there is none.
LEMMA CreatesAloneKept ==
  ASSUME OneJoinPerNode, JoinInv, [Next]_vars
  PROVE  CreatesAlone'
<1>0. /\ work \in [Workers -> Work] /\ RecordInv /\ TypeOK
  BY DEF JoinInv, RecordInv, TypeOK
<1>1. ASSUME NEW v \in Workers, work'[v] = work[v],
             work[v].step = "request_create",
             NEW id \in Eids, enrollments'[id] # None
      PROVE  enrollments'[id].node # work[v].e.node
  <2>1. EnrollmentsOf(work[v].e.node) = {} /\ Requesting(work[v].e.node) = {v}
    BY <1>1 DEF JoinInv, CreatesAlone, At
  <2>2. CASE Exists(id) /\ enrollments'[id].node = enrollments[id].node
    BY <2>1, <2>2 DEF EnrollmentsOf
  <2>3. ASSUME NEW w \in Workers, RequestCreate(w, id),
               enrollments'[id] = work[w].e, work[w].e.node = work[v].e.node
        PROVE  FALSE
    <3>1. w \in Requesting(work[v].e.node)
      BY <2>3 DEF RequestCreate, At, Requesting
    <3>2. w = v /\ work'[v].step = "idle"
      BY <1>0, <2>1, <2>3, <3>1 DEF RequestCreate, Ends, Idle
    <3> QED
      BY <1>1, <3>2
  <2> QED
    BY <1>0, <1>1, <2>2, <2>3, RecordsStay DEF Exists
<1>2. ASSUME NEW w \in Workers, HandlerStep(w),
             NEW v \in Workers, work'[v].step = "request_create"
      PROVE  /\ \A id \in Eids :
                  enrollments'[id] # None => enrollments'[id].node # work'[v].e.node
             /\ \A u \in Workers :
                  /\ work'[u].step \in {"request_create", "request_update"}
                  /\ work'[u].e.node = work'[v].e.node
                  => u = v
  <2>1. \A u \in Workers \ {w} : work'[u] = work[u]
    BY <1>0, <1>2, WorkerStep
  <2>2. CASE v # w
    <3>1. work'[v] = work[v] /\ Requesting(work[v].e.node) = {v}
      BY <1>2, <2>1, <2>2 DEF JoinInv, CreatesAlone, At
    <3>2. ASSUME work'[w].step \in {"request_create", "request_update"},
                 work'[w].e.node = work[v].e.node
          PROVE  FALSE
      BY <1>0, <1>2, <3>1, <3>2, RequestStep
    <3> QED
      BY <1>1, <1>2, <2>1, <3>1, <3>2 DEF Requesting
  <2>3. CASE v = w
    <3>1. /\ UNCHANGED storeVars /\ Requesting(work'[w].e.node) = {}
          /\ ~FoundByNode(work'[w].e.node) /\ work'[w].e.node \in Nodes
      BY <1>0, <1>2, <2>3, RequestStep
    <3>2. EnrollmentsOf(work'[w].e.node) = {}
      BY <3>1 DEF JoinInv, NoOrphan, EnrollmentsOf, FoundByNode, Exists, RecordInv,
                  TypeOK, StoreTypeOK
    <3> QED
      BY <2>1, <2>3, <3>1, <3>2 DEF Requesting, EnrollmentsOf, Exists, storeVars
  <2> QED
    BY <2>2, <2>3
<1>3. CASE \E w \in Workers : HandlerStep(w)
  BY <1>2, <1>3 DEF CreatesAlone, At, EnrollmentsOf, Exists, Requesting
<1>4. CASE UNCHANGED work
  BY <1>1, <1>4 DEF CreatesAlone, At, EnrollmentsOf, Exists, Requesting, JoinInv
<1>5. (\E w \in Workers : HandlerStep(w)) \/ UNCHANGED work
  BY DEF Next, NodeSigns, PostNode, DecommissionNode, ForgetHome, FactoryReset,
         vars, serviceVars
<1> QED
  BY <1>3, <1>4, <1>5

\* Every update writes the record of the node it was read for, so the index
\* entry it re-points is the one that leads to the record already.
LEMMA NoOrphanKept ==
  ASSUME JoinInv, [Next]_vars
  PROVE  NoOrphan'
<1>0. /\ TypeOK /\ StoreTypeOK /\ work \in [Workers -> Work]
      /\ NoOrphan /\ IndexConsistent /\ Snapshots /\ RecordInv
  BY DEF JoinInv, RecordInv, TypeOK
<1> USE DEF NoOrphan, EnrollmentsOf, Exists
<1>1. ASSUME NEW w \in Workers, NEW id \in Eids, RequestCreate(w, id)
      PROVE  NoOrphan'
  <2>1. /\ CreateEnrollment(id, work[w].e) /\ work[w].e.node \in Nodes
        /\ EnrollmentsOf(work[w].e.node) = {}
    BY <1>0, <1>1, AtTypes, RecordFields DEF RequestCreate, JoinInv, CreatesAlone
  <2> QED
    BY <1>0, <2>1 DEF CreateEnrollment, StoreTypeOK
<1>2. ASSUME NEW id \in Eids, NEW e \in Enrollment, UpdateEnrollment(id, e),
             e.node = enrollments[id].node
      PROVE  NoOrphan'
  BY <1>0, <1>2, RecordFields DEF UpdateEnrollment, StoreTypeOK
<1>3. ASSUME NEW n \in Nodes, DeleteNode(n) PROVE NoOrphan'
  BY <1>0, <1>3 DEF DeleteNode, StoreTypeOK
<1>4. CASE DeleteHome \/ Reset
  BY <1>4 DEF DeleteHome, Reset
<1>5. CASE UNCHANGED <<enrollments, byNode>>
  BY <1>0, <1>5
<1>6. ASSUME NEW w \in Workers,
             RequestUpdate(w) \/ VerifyWrite(w) \/ FinalWrite(w) \/ ApproveWrite(w)
      PROVE  NoOrphan'
  <2>1. /\ work[w].step \in Writing /\ work[w].e \in Enrollment
        /\ work[w].id \in Eids
    BY <1>0, <1>6, AtTypes
       DEF RequestUpdate, VerifyWrite, FinalWrite, ApproveWrite, At, Writing
  <2>2. /\ [work[w].e EXCEPT !.status = "approved"] \in Enrollment
        /\ [work[w].e EXCEPT !.status = "approved"].node = work[w].e.node
    BY <2>1, ChangedRecord DEF Statuses
  <2>3. \E e \in Enrollment :
          e.node = work[w].e.node /\ UpdateEnrollment(work[w].id, e)
    BY <1>6, <2>1, <2>2
       DEF RequestUpdate, VerifyWrite, FinalWrite, ApproveWrite
  <2>4. enrollments[work[w].id].node = work[w].e.node
    BY <1>0, <2>1, <2>3 DEF Snapshots, UpdateEnrollment
  <2> QED
    BY <1>2, <2>1, <2>3, <2>4
<1>7. \/ \E w \in Workers :
           \/ \E i \in Eids : RequestCreate(w, i)
           \/ RequestUpdate(w) \/ VerifyWrite(w) \/ FinalWrite(w)
           \/ ApproveWrite(w)
      \/ UNCHANGED <<enrollments, byNode>>
      \/ \E n \in Nodes : DeleteNode(n)
      \/ DeleteHome \/ Reset
  BY RecordSteps
<1> QED
  BY <1>1, <1>3, <1>4, <1>5, <1>6, <1>7

LEMMA JoinInit == Init => JoinInv
BY RecordInit DEF Init, StoreInit, JoinInv, NoOrphan, EnrollmentsOf, Exists,
                  CreatesAlone, At, Idle

LEMMA JoinStep ==
  ASSUME OneJoinPerNode, JoinInv, [Next]_vars
  PROVE  JoinInv'
BY RecordStep, NoOrphanKept, CreatesAloneKept DEF JoinInv

\* If a node has at most one enrollment request in flight at a time, every
\* enrollment can be reached from its node, by adopt, reject and DeleteNode.
THEOREM NoOrphans ==
  ASSUME OneJoinPerNode
  PROVE  Spec => []NoOrphan
<1>1. JoinInv => NoOrphan
  BY DEF JoinInv
<1>2. JoinInv /\ [Next]_vars => JoinInv'
  BY JoinStep
<1> QED
  BY JoinInit, <1>1, <1>2, PTL DEF Spec

\* A node that loses its inventory record, or the decision to adopt it, has no
\* enrollment left.
LEMMA Revoked ==
  ASSUME JoinInv, [Next]_vars, NEW n \in Nodes,
         \/ n \in inventory /\ n \notin inventory'
         \/ n \in admitted /\ n \notin admitted'
  PROVE  EnrollmentsOf(n)' = {}
<1> USE DEF EnrollmentsOf, Exists
<1>1. CASE DecommissionNode(n)
  BY <1>1 DEF DecommissionNode, DeleteNode, JoinInv, RecordInv, TypeOK,
              StoreTypeOK, NoOrphan
<1>2. CASE ForgetHome \/ FactoryReset
  BY <1>2 DEF ForgetHome, FactoryReset, DeleteHome, Reset
<1>3. ASSUME NEW m \in Nodes, DecommissionNode(m), m # n
      PROVE  FALSE
  BY <1>3 DEF DecommissionNode, DeleteNode
<1>4. CASE inventory \subseteq inventory' /\ admitted \subseteq admitted'
  BY <1>4
<1>5. ASSUME NEW w \in Workers, HandlerStep(w)
      PROVE  inventory \subseteq inventory' /\ admitted \subseteq admitted'
  <2>1. admitted \subseteq admitted'
    BY <1>5 DEF HandlerStep, RequestRead, RequestCreate, RequestUpdate,
         VerifyRead, VerifyWrite, AdoptRead, ApproveCheck, ApproveCreate,
         ApproveWrite, RejectRead, AckRead, FinalWrite, Abort
  <2>2. inventory \subseteq inventory'
    BY <1>5 DEF HandlerStep, RequestRead, RequestCreate, RequestUpdate,
         VerifyRead, VerifyWrite, AdoptRead, ApproveCheck, ApproveCreate,
         ApproveWrite, RejectRead, AckRead, FinalWrite, Abort, storeVars,
         CreateEnrollment, UpdateEnrollment, CreateNode
  <2> QED
    BY <2>1, <2>2
<1>6. CASE \/ \E r \in Signature : NodeSigns(r)
           \/ \E m \in Nodes : PostNode(m)
           \/ UNCHANGED vars
  BY <1>4, <1>6 DEF NodeSigns, PostNode, CreateNode, vars, serviceVars, storeVars
<1> QED
  BY <1>1, <1>2, <1>3, <1>4, <1>5, <1>6 DEF Next

\* If a node has at most one enrollment request in flight at a time,
\* decommissioning it removes every enrollment record of it.
THEOREM DecommissionCompletes ==
  ASSUME OneJoinPerNode
  PROVE  Spec => DecommissionIsComplete
<1> DEFINE Complete ==
      \A n \in Nodes :
        n \in inventory /\ n \notin inventory' => EnrollmentsOf(n)' = {}
<1>1. JoinInv /\ [Next]_vars => JoinInv'
  BY JoinStep
<1>2. JoinInv /\ [Next]_vars => Complete
  BY Revoked
<1> QED
  BY JoinInit, <1>1, <1>2, PTL DEF Spec, DecommissionIsComplete

-----------------------------------------------------------------------------
(* One join of a node at a time: trust follows the decision to adopt *)

\* A trusted record is of a node that was decided on and is in the inventory.
RecordsTrusted ==
  \A id \in Eids :
    Exists(id) /\ enrollments[id].status \in Trusted =>
      enrollments[id].node \in admitted \cap inventory

\* A handler that will make a record trusted acts on a decision that still
\* stands, or on a record that is gone and whose id is not used again.
HandlersTrusted ==
  \A w \in Workers :
    /\ work[w].step \in {"request_create", "request_update", "verify_write",
                         "reject_write"}
         => work[w].e.status \notin Trusted
    /\ /\ work[w].step \in {"approve_check", "approve_create", "approve_write",
                            "ack_write"}
       /\ Exists(work[w].id)
       => work[w].e.node \in admitted
    /\ work[w].step \in {"approve_write", "ack_write"} /\ Exists(work[w].id)
         => work[w].e.node \in inventory

TrustInv == JoinInv /\ RecordsTrusted /\ HandlersTrusted

LEMMA RecordsTrustedKept ==
  ASSUME TrustInv, [Next]_vars
  PROVE  RecordsTrusted'
<1>0. JoinInv /\ RecordInv /\ TypeOK /\ work \in [Workers -> Work] /\ StoreTypeOK
  BY DEF TrustInv, JoinInv, RecordInv, TypeOK
<1> SUFFICES ASSUME NEW id \in Eids, Exists(id)',
                    enrollments'[id].status \in Trusted
             PROVE  enrollments'[id].node \in admitted' \cap inventory'
  BY DEF RecordsTrusted, Exists
<1>1. enrollments'[id] \in Enrollment /\ enrollments'[id].node \in Nodes
  BY <1>0, TypeStep, RecordFields DEF TypeOK, StoreTypeOK, Exists
<1>2. \A n \in Nodes : n = enrollments'[id].node =>
        /\ n \in inventory => n \in inventory'
        /\ n \in admitted => n \in admitted'
  BY <1>0, Revoked DEF EnrollmentsOf, Exists
<1>3. CASE enrollments'[id] = enrollments[id]
  BY <1>1, <1>2, <1>3 DEF TrustInv, RecordsTrusted, Exists
<1>4. ASSUME NEW w \in Workers, RequestCreate(w, id),
             enrollments'[id] = work[w].e
      PROVE  FALSE
  BY <1>4 DEF TrustInv, HandlersTrusted, RequestCreate, At
<1>5. ASSUME NEW w \in Workers, work[w].id = id, Exists(id),
             \/ /\ work[w].step \in {"request_update", "verify_write",
                                     "reject_write", "ack_write"}
                /\ enrollments'[id] = work[w].e
             \/ /\ work[w].step = "approve_write"
                /\ enrollments'[id].node = work[w].e.node
      PROVE  enrollments'[id].node \in admitted \cap inventory
  BY <1>5 DEF TrustInv, HandlersTrusted
<1> QED
  BY <1>0, <1>1, <1>2, <1>3, <1>4, <1>5, WrittenBy

\* What the worker's own step leaves it committed to.
LEMMA HandlersTrustedStep ==
  ASSUME TrustInv, NEW w \in Workers, HandlerStep(w)
  PROVE  /\ work'[w].step \in {"request_create", "request_update",
                               "verify_write", "reject_write"}
              => work'[w].e.status \notin Trusted
         /\ /\ work'[w].step \in {"approve_check", "approve_create",
                                  "approve_write", "ack_write"}
            /\ Exists(work'[w].id)
            => work'[w].e.node \in admitted'
         /\ work'[w].step \in {"approve_write", "ack_write"} /\ Exists(work'[w].id)
              => work'[w].e.node \in inventory'
<1> DEFINE Committed ==
       /\ work'[w].step \in {"request_create", "request_update",
                             "verify_write", "reject_write"}
            => work'[w].e.status \notin Trusted
       /\ /\ work'[w].step \in {"approve_check", "approve_create",
                                "approve_write", "ack_write"}
          /\ Exists(work'[w].id)
          => work'[w].e.node \in admitted'
       /\ work'[w].step \in {"approve_write", "ack_write"} /\ Exists(work'[w].id)
            => work'[w].e.node \in inventory'
<1>0. JoinInv /\ RecordInv /\ TypeOK /\ work \in [Workers -> Work] /\ StoreTypeOK
  BY DEF TrustInv, JoinInv, RecordInv, TypeOK
<1>n. \A n \in Nodes : FoundByNode(n) =>
        /\ byNode[n] \in Eids /\ Exists(byNode[n])
        /\ enrollments[byNode[n]] \in Enrollment
        /\ enrollments[byNode[n]].node = n
  BY <1>0 DEF FoundByNode, Exists, StoreTypeOK, RecordInv, IndexConsistent,
              EnrollmentsOf
<1>e. \A id \in Eids : Exists(id) => enrollments[id] \in Enrollment
  BY <1>0 DEF Exists, StoreTypeOK
<1>1. CASE \E n, key \in Nodes, c \in Challenges : RequestRead(w, n, key, c)
  BY <1>0, <1>1 DEF RequestRead, Goes, Trusted
<1>2. CASE \/ \E id \in Eids : RequestCreate(w, id)
           \/ RequestUpdate(w) \/ ApproveWrite(w) \/ FinalWrite(w) \/ Abort(w)
  <2>1. Ends(w)
    BY <1>2 DEF RequestCreate, RequestUpdate, ApproveWrite, FinalWrite, Abort
  <2> QED
    BY <1>0, <2>1 DEF Ends, Idle
<1>3. ASSUME NEW id \in Eids, NEW sig \in Signature, NEW onLink \in BOOLEAN,
             VerifyRead(w, id, sig, onLink)
      PROVE  Committed
  <2>1. [enrollments[id] EXCEPT !.status = "pending_approval"].status
          = "pending_approval"
    BY <1>e, <1>3, ChangedRecord DEF VerifyRead, Statuses
  <2> QED
    BY <1>0, <1>3, <2>1 DEF VerifyRead, Trusted
<1>4. CASE VerifyWrite(w)
  <2>1. Ends(w) \/ Goes(w, "approve_check", work[w].id, work[w].e)
    BY <1>4 DEF VerifyWrite
  <2>2. AutoAdopt(work[w].onLink) => work[w].e.node \in admitted'
    BY <1>4 DEF VerifyWrite, AutoAdopt
  <2>3. CASE Ends(w)
    BY <1>0, <2>3 DEF Ends, Idle
  <2>4. CASE AutoAdopt(work[w].onLink)
             /\ Goes(w, "approve_check", work[w].id, work[w].e)
    BY <1>0, <2>2, <2>4 DEF Goes
  <2> QED
    BY <1>4, <2>3, <2>4 DEF VerifyWrite
<1>5. ASSUME NEW n \in Nodes, AdoptRead(w, n) PROVE Committed
  BY <1>0, <1>n, <1>5 DEF AdoptRead, Goes
<1>6. CASE ApproveCheck(w) \/ ApproveCreate(w)
  <2>1. /\ work[w].step \in {"approve_check", "approve_create"}
        /\ admitted' = admitted
        /\ \/ /\ Goes(w, "approve_write", work[w].id, work[w].e)
              /\ work[w].e.node \in inventory'
           \/ Goes(w, "approve_create", work[w].id, work[w].e)
    BY <1>6 DEF ApproveCheck, ApproveCreate, At, NodeFound, CreateNode, storeVars
  <2>2. Exists(work[w].id) => work[w].e.node \in admitted'
    BY <2>1 DEF TrustInv, HandlersTrusted
  <2> QED
    BY <1>0, <2>1, <2>2 DEF Goes
<1>7. ASSUME NEW n \in Nodes, RejectRead(w, n) PROVE Committed
  <2>1. [enrollments[byNode[n]] EXCEPT !.status = "rejected"].status = "rejected"
    BY <1>n, <1>7, ChangedRecord DEF RejectRead, Statuses
  <2> QED
    BY <1>0, <1>7, <2>1 DEF RejectRead, Goes, Trusted
<1>8. ASSUME NEW id \in Eids, AckRead(w, id) PROVE Committed
  <2>1. [enrollments[id] EXCEPT !.status = "active"].node = enrollments[id].node
    BY <1>e, <1>8, ChangedRecord DEF AckRead, Statuses
  <2>2. enrollments[id].node \in admitted \cap inventory
    BY <1>8 DEF AckRead, TrustInv, RecordsTrusted, Trusted
  <2>3. Goes(w, "ack_write", id, [enrollments[id] EXCEPT !.status = "active"])
        /\ UNCHANGED <<admitted, inventory>>
    BY <1>8 DEF AckRead, storeVars
  <2> QED
    BY <1>0, <2>1, <2>2, <2>3 DEF Goes
<1> QED
  BY <1>1, <1>2, <1>3, <1>4, <1>5, <1>6, <1>7, <1>8 DEF HandlerStep

LEMMA HandlersTrustedKept ==
  ASSUME TrustInv, [Next]_vars
  PROVE  HandlersTrusted'
<1>0. JoinInv /\ RecordInv /\ TypeOK /\ work \in [Workers -> Work]
  BY DEF TrustInv, JoinInv, RecordInv, TypeOK
<1>1. ASSUME NEW id \in Eids, id \in usedIds, enrollments'[id] # None
      PROVE  /\ Exists(id) /\ enrollments'[id].node = enrollments[id].node
             /\ enrollments[id].node \in Nodes
  <2>1. Exists(id) /\ enrollments'[id].node = enrollments[id].node
    BY <1>0, <1>1, RecordsStay DEF RequestCreate, Exists
  <2> QED
    BY <1>0, <2>1, RecordFields DEF Exists, TypeOK, StoreTypeOK
<1>2. ASSUME NEW id \in Eids, id \in usedIds, enrollments'[id] # None
      PROVE  /\ enrollments[id].node \in inventory
                  => enrollments[id].node \in inventory'
             /\ enrollments[id].node \in admitted
                  => enrollments[id].node \in admitted'
  BY <1>0, <1>1, <1>2, Revoked DEF EnrollmentsOf, Exists
<1>3. ASSUME NEW v \in Workers, work[v].step \in Writing,
             enrollments'[work[v].id] # None
      PROVE  /\ Exists(work[v].id)
             /\ work[v].e.node \in inventory => work[v].e.node \in inventory'
             /\ work[v].e.node \in admitted => work[v].e.node \in admitted'
  <2>1. /\ work[v].id \in Eids /\ work[v].id \in usedIds
        /\ Exists(work[v].id) => enrollments[work[v].id].node = work[v].e.node
    BY <1>0, <1>3, AtTypes DEF RecordInv, Snapshots
  <2>2. Exists(work[v].id)
    BY <1>1, <1>3, <2>1
  <2> QED
    BY <1>2, <1>3, <2>1, <2>2
<1>4. ASSUME NEW v \in Workers, work'[v] = work[v]
      PROVE  /\ work'[v].step \in {"request_create", "request_update",
                                   "verify_write", "reject_write"}
                  => work'[v].e.status \notin Trusted
             /\ /\ work'[v].step \in {"approve_check", "approve_create",
                                      "approve_write", "ack_write"}
                /\ enrollments'[work'[v].id] # None
                => work'[v].e.node \in admitted'
             /\ /\ work'[v].step \in {"approve_write", "ack_write"}
                /\ enrollments'[work'[v].id] # None
                => work'[v].e.node \in inventory'
  BY <1>3, <1>4 DEF TrustInv, HandlersTrusted, Writing
<1>5. ASSUME NEW w \in Workers, HandlerStep(w) PROVE HandlersTrusted'
  <2>1. \A v \in Workers \ {w} : work'[v] = work[v]
    BY <1>0, <1>5, WorkerStep
  <2>2. work'[w].step \in Writing /\ enrollments'[work'[w].id] # None
          => Exists(work'[w].id)
    BY <1>0, <1>3, <1>5, WorkerStep DEF Exists, storeVars
  <2> QED
    BY <1>4, <1>5, <2>1, <2>2, HandlersTrustedStep
       DEF HandlersTrusted, Exists, Writing
<1>6. CASE UNCHANGED work
  BY <1>4, <1>6 DEF HandlersTrusted, Exists
<1>7. (\E w \in Workers : HandlerStep(w)) \/ UNCHANGED work
  BY DEF Next, NodeSigns, PostNode, DecommissionNode, ForgetHome, FactoryReset,
         vars, serviceVars
<1> QED
  BY <1>5, <1>6, <1>7

LEMMA TrustInit == Init => TrustInv
BY JoinInit DEF Init, StoreInit, TrustInv, RecordsTrusted, HandlersTrusted,
                Exists, Idle

LEMMA TrustStep ==
  ASSUME OneJoinPerNode, TrustInv, [Next]_vars
  PROVE  TrustInv'
BY JoinStep, RecordsTrustedKept, HandlersTrustedKept DEF TrustInv

\* If a node has at most one enrollment request in flight at a time, it is
\* trusted only by a decision to adopt it that was taken since it was last
\* decommissioned, whatever handlers were in flight across that.
THEOREM TrustFollowsDecision ==
  ASSUME OneJoinPerNode
  PROVE  Spec => []TrustIsCurrent
<1>1. TrustInv => TrustIsCurrent
  BY DEF TrustInv, RecordsTrusted, TrustIsCurrent
<1>2. TrustInv /\ [Next]_vars => TrustInv'
  BY TrustStep
<1> QED
  BY TrustInit, <1>1, <1>2, PTL DEF Spec

\* If a node has at most one enrollment request in flight at a time, a trusted
\* node has its inventory record, although approve writes the two in separate
\* transactions.
THEOREM TrustedAreInInventory ==
  ASSUME OneJoinPerNode
  PROVE  Spec => []TrustedInInventory
<1>1. TrustInv => TrustedInInventory
  BY DEF TrustInv, RecordsTrusted, TrustedInInventory
<1>2. TrustInv /\ [Next]_vars => TrustInv'
  BY TrustStep
<1> QED
  BY TrustInit, <1>1, <1>2, PTL DEF Spec

-----------------------------------------------------------------------------
(* Enrollment implements Admission, if a node has one enrollment request in *)
(* flight at a time. *)

AdmissionInv == TrustInv /\ AllProven

\* A node has one record at most.
LEMMA OneRecord ==
  ASSUME NoOrphan, StoreTypeOK, NEW id \in Eids, NEW i \in Eids, Exists(id), Exists(i),
         enrollments[i].node = enrollments[id].node
  PROVE  i = id
BY RecordFields DEF NoOrphan, EnrollmentsOf, StoreTypeOK, Exists

\* A handler that writes back the record of a node makes that node trusted or
\* not, and no other.
LEMMA WriteTrusts ==
  ASSUME AdmissionInv, NEW id \in Eids, NEW e \in Enrollment, UpdateEnrollment(id, e),
         e.node = enrollments[id].node
  PROVE  TrustedNodes' = IF e.status \in Trusted THEN TrustedNodes \cup {e.node}
                         ELSE TrustedNodes \ {e.node}
<1>1. NoOrphan /\ StoreTypeOK
  BY DEF AdmissionInv, TrustInv, JoinInv, RecordInv, TypeOK
<1>2. Exists(id) /\ enrollments' = [enrollments EXCEPT ![id] = e]
  BY DEF UpdateEnrollment
<1>3. \A i \in Eids : i # id => enrollments'[i] = enrollments[i]
  BY <1>1, <1>2 DEF StoreTypeOK
<1>4. enrollments'[id] = e /\ e # None
  BY <1>1, <1>2, NoneAssumption DEF StoreTypeOK
<1>5. \A i \in Eids \ {id} : Exists(i) => enrollments[i].node # e.node
  BY <1>1, <1>2, OneRecord
<1> QED
  BY <1>3, <1>4, <1>5 DEF TrustedNodes, Exists

\* The record a handler is about to write is of the node that has it.
LEMMA WritesOwn ==
  ASSUME AdmissionInv, NEW w \in Workers, work[w].step \in Writing, Exists(work[w].id)
  PROVE  /\ work[w].id \in Eids /\ work[w].e \in Enrollment /\ work[w].e.node \in Nodes
         /\ enrollments[work[w].id].node = work[w].e.node
BY AtTypes, RecordFields
   DEF AdmissionInv, TrustInv, JoinInv, RecordInv, TypeOK, Snapshots, Writing

\* Each transaction of a handler is a step of Admission about the node its
\* request is for, or none.
LEMMA HandlerImplements ==
  ASSUME AdmissionInv, NEW w \in Workers, HandlerStep(w)
  PROVE  [Adm!Next]_(Adm!vars)
<1> USE DEF Adm!vars
<1>0. StoreTypeOK /\ work \in [Workers -> Work] /\ IdsAreUsed
  BY DEF AdmissionInv, TrustInv, JoinInv, RecordInv, TypeOK
<1>s. UNCHANGED enrollments => TrustedNodes' = TrustedNodes
  BY DEF TrustedNodes, Exists
<1>p. UNCHANGED signed => ProvenNodes' = ProvenNodes
  BY DEF ProvenNodes
<1>1. CASE \/ \E n, key \in Nodes, c \in Challenges : RequestRead(w, n, key, c)
           \/ \E id \in Eids, sig \in Signature, onLink \in BOOLEAN :
                VerifyRead(w, id, sig, onLink)
           \/ \E n \in Nodes : RejectRead(w, n)
           \/ \E id \in Eids : AckRead(w, id)
           \/ ApproveCheck(w)
           \/ Abort(w)
  <2>1. UNCHANGED <<storeVars, signed, admitted>>
    BY <1>1 DEF RequestRead, VerifyRead, RejectRead, AckRead, ApproveCheck, Abort
  <2> QED
    BY <1>s, <1>p, <2>1 DEF storeVars
<1>2. ASSUME NEW id \in Eids, RequestCreate(w, id) PROVE [Adm!Next]_(Adm!vars)
  <2>1. /\ enrollments' = [enrollments EXCEPT ![id] = work[w].e]
        /\ UNCHANGED <<inventory, signed, admitted>>
        /\ work[w].step = "request_create" /\ id \notin usedIds
    BY <1>2 DEF RequestCreate, CreateEnrollment, At
  <2>2. work[w].e.status \notin Trusted
    BY <2>1 DEF AdmissionInv, TrustInv, HandlersTrusted
  <2>3. ~Exists(id)
    BY <1>0, <2>1 DEF IdsAreUsed
  <2>4. TrustedNodes' = TrustedNodes
    BY <1>0, <2>1, <2>2, <2>3 DEF TrustedNodes, Exists, StoreTypeOK
  <2> QED
    BY <1>p, <2>1, <2>4
<1>3. ASSUME RequestUpdate(w) \/ FinalWrite(w) PROVE [Adm!Next]_(Adm!vars)
  <2> DEFINE n == work[w].e.node
  <2>1. /\ UpdateEnrollment(work[w].id, work[w].e)
        /\ UNCHANGED <<inventory, signed, admitted>>
        /\ work[w].step \in {"request_update", "reject_write", "ack_write"}
    BY <1>3 DEF RequestUpdate, FinalWrite, UpdateEnrollment, At
  <2>2. Exists(work[w].id) /\ work[w].step \in Writing
    BY <2>1 DEF UpdateEnrollment, Writing
  <2>3. /\ work[w].id \in Eids /\ work[w].e \in Enrollment /\ n \in Nodes
        /\ enrollments[work[w].id].node = n
    BY <2>2, WritesOwn
  <2>4. TrustedNodes' = IF work[w].e.status \in Trusted THEN TrustedNodes \cup {n}
                        ELSE TrustedNodes \ {n}
    BY <2>1, <2>3, WriteTrusts
  <2>5. CASE work[w].e.status \in Trusted
    <3>1. n \in admitted /\ n \in inventory
      BY <2>1, <2>2, <2>5 DEF AdmissionInv, TrustInv, HandlersTrusted
    <3>2. Adm!Trust(n)
      BY <1>p, <2>1, <2>4, <2>5, <3>1 DEF Adm!Trust
    <3> QED
      BY <2>3, <3>2 DEF Adm!Next
  <2>6. CASE work[w].e.status \notin Trusted
    <3>1. Adm!Suspend(n)
      BY <1>p, <2>1, <2>4, <2>6 DEF Adm!Suspend
    <3> QED
      BY <2>3, <3>1 DEF Adm!Next
  <2> QED
    BY <2>5, <2>6
<1>4. ASSUME VerifyWrite(w) PROVE [Adm!Next]_(Adm!vars)
  <2> DEFINE n == work[w].e.node
  <2>1. /\ UpdateEnrollment(work[w].id, work[w].e)
        /\ admitted' = admitted \/ admitted' = admitted \cup {n}
        /\ UNCHANGED <<inventory, signed>>
        /\ work[w].step = "verify_write"
    BY <1>4 DEF VerifyWrite, UpdateEnrollment, At
  <2>2. Exists(work[w].id) /\ work[w].step \in Writing
    BY <2>1 DEF UpdateEnrollment, Writing
  <2>3. /\ work[w].id \in Eids /\ work[w].e \in Enrollment /\ n \in Nodes
        /\ enrollments[work[w].id].node = n
    BY <2>2, WritesOwn
  <2>4. work[w].e.status \notin Trusted
    BY <2>1 DEF AdmissionInv, TrustInv, HandlersTrusted
  <2>5. TrustedNodes' = TrustedNodes \ {n}
    BY <2>1, <2>3, <2>4, WriteTrusts
  <2>6. n \in ProvenNodes
    <3>1. Proven(work[w].e) /\ work[w].e.status = "pending_approval"
      BY <2>1 DEF AdmissionInv, AllProven, Approving
    <3>2. [key |-> work[w].e.key, challenge |-> work[w].e.challenge] \in signed
          /\ work[w].e.key = n
      BY <3>1 DEF Proven, Vetted
    <3> QED
      BY <3>2 DEF ProvenNodes
  <2>7. Adm!Decide(n) \/ Adm!Suspend(n)
    BY <1>p, <2>1, <2>5, <2>6 DEF Adm!Decide, Adm!Suspend
  <2> QED
    BY <2>3, <2>7 DEF Adm!Next
<1>5. ASSUME NEW n \in Nodes, AdoptRead(w, n) PROVE [Adm!Next]_(Adm!vars)
  <2>1. /\ FoundByNode(n) /\ enrollments[byNode[n]].status = "pending_approval"
        /\ admitted' = admitted \cup {n}
        /\ UNCHANGED <<storeVars, signed>>
    BY <1>5 DEF AdoptRead
  <2>2. byNode[n] \in Eids /\ Exists(byNode[n]) /\ enrollments[byNode[n]].node = n
    BY <1>0, <2>1 DEF FoundByNode, StoreTypeOK, AdmissionInv, TrustInv, JoinInv,
                      RecordInv, IndexConsistent, EnrollmentsOf
  <2>3. n \in ProvenNodes
    <3>1. Proven(enrollments[byNode[n]])
      BY <2>2 DEF AdmissionInv, AllProven
    <3>2. [key |-> enrollments[byNode[n]].key,
           challenge |-> enrollments[byNode[n]].challenge] \in signed
          /\ enrollments[byNode[n]].key = n
      BY <2>1, <2>2, <3>1 DEF Proven, Vetted
    <3> QED
      BY <3>2 DEF ProvenNodes
  <2>4. Adm!Decide(n)
    BY <1>s, <1>p, <2>1, <2>3 DEF Adm!Decide, storeVars
  <2> QED
    BY <2>4 DEF Adm!Next
<1>6. ASSUME ApproveCreate(w) PROVE [Adm!Next]_(Adm!vars)
  <2>1. /\ inventory' = inventory \cup {work[w].e.node}
        /\ UNCHANGED <<enrollments, signed, admitted>>
        /\ work[w].step = "approve_create"
    BY <1>6 DEF ApproveCreate, CreateNode, At
  <2>2. work[w].e.node \in Nodes
    BY <1>0, <2>1, AtTypes, RecordFields DEF Writing
  <2>3. Adm!Enlist(work[w].e.node)
    BY <1>s, <1>p, <2>1 DEF Adm!Enlist
  <2> QED
    BY <2>2, <2>3 DEF Adm!Next
<1>7. ASSUME ApproveWrite(w) PROVE [Adm!Next]_(Adm!vars)
  <2> DEFINE n == work[w].e.node
             e == [work[w].e EXCEPT !.status = "approved"]
  <2>1. /\ UpdateEnrollment(work[w].id, e)
        /\ UNCHANGED <<inventory, signed, admitted>>
        /\ work[w].step = "approve_write"
    BY <1>7 DEF ApproveWrite, UpdateEnrollment, At
  <2>2. Exists(work[w].id) /\ work[w].step \in Writing
    BY <2>1 DEF UpdateEnrollment, Writing
  <2>3. /\ work[w].id \in Eids /\ work[w].e \in Enrollment /\ n \in Nodes
        /\ enrollments[work[w].id].node = n
    BY <2>2, WritesOwn
  <2>4. e \in Enrollment /\ e.node = n /\ e.status = "approved"
    BY <2>3, ChangedRecord DEF Statuses
  <2> HIDE DEF e
  <2>5. TrustedNodes' = TrustedNodes \cup {n}
    BY <2>1, <2>3, <2>4, WriteTrusts DEF Trusted
  <2>6. n \in admitted /\ n \in inventory
    BY <2>1, <2>2 DEF AdmissionInv, TrustInv, HandlersTrusted
  <2>7. Adm!Trust(n)
    BY <1>p, <2>1, <2>5, <2>6 DEF Adm!Trust
  <2> QED
    BY <2>3, <2>7 DEF Adm!Next
<1> QED
  BY <1>1, <1>2, <1>3, <1>4, <1>5, <1>6, <1>7 DEF HandlerStep

\* So is each step of the node or of a handler that is one transaction.
LEMMA OtherImplements ==
  ASSUME AdmissionInv,
         \/ \E r \in Signature : NodeSigns(r)
         \/ \E n \in Nodes : PostNode(n) \/ DecommissionNode(n)
         \/ ForgetHome \/ FactoryReset
         \/ UNCHANGED vars
  PROVE  [Adm!Next]_(Adm!vars)
<1> USE DEF Adm!vars
<1>0. StoreTypeOK /\ NoOrphan
  BY DEF AdmissionInv, TrustInv, JoinInv, RecordInv, TypeOK
<1>s. UNCHANGED enrollments => TrustedNodes' = TrustedNodes
  BY DEF TrustedNodes, Exists
<1>p. UNCHANGED signed => ProvenNodes' = ProvenNodes
  BY DEF ProvenNodes
<1>1. ASSUME NEW r \in Signature, NodeSigns(r) PROVE [Adm!Next]_(Adm!vars)
  <2>1. /\ signed' = signed \cup {r}
        /\ UNCHANGED <<enrollments, inventory, admitted>>
    BY <1>1 DEF NodeSigns, storeVars
  <2>2. ProvenNodes' = ProvenNodes \cup {r.key}
    BY <2>1 DEF ProvenNodes
  <2>3. Adm!Prove(r.key)
    BY <1>s, <2>1, <2>2 DEF Adm!Prove
  <2> QED
    BY <2>3 DEF Adm!Next, Signature
<1>2. ASSUME NEW n \in Nodes, PostNode(n) PROVE [Adm!Next]_(Adm!vars)
  <2>1. /\ inventory' = inventory \cup {n}
        /\ UNCHANGED <<enrollments, signed, admitted>>
    BY <1>2 DEF PostNode, CreateNode, serviceVars
  <2>2. Adm!Enlist(n)
    BY <1>s, <1>p, <2>1 DEF Adm!Enlist
  <2> QED
    BY <2>2 DEF Adm!Next
<1>3. ASSUME NEW n \in Nodes, DecommissionNode(n) PROVE [Adm!Next]_(Adm!vars)
  <2>1. /\ inventory' = inventory \ {n}
        /\ admitted' = admitted \ {n}
        /\ enrollments' = [id \in Eids |->
                              IF id = byNode[n] THEN None ELSE enrollments[id]]
        /\ UNCHANGED signed
    BY <1>3 DEF DecommissionNode, DeleteNode
  <2>2. \A id \in Eids : id # byNode[n] =>
          enrollments'[id] = enrollments[id]
            /\ (Exists(id) => enrollments[id].node # n)
    BY <1>0, <2>1 DEF NoOrphan, EnrollmentsOf
  <2>3. \A id \in Eids : id = byNode[n] => enrollments'[id] = None
    BY <2>1
  <2>4. \A id \in Eids : id = byNode[n] /\ Exists(id) => enrollments[id].node = n
    BY NoneAssumption
       DEF AdmissionInv, TrustInv, JoinInv, RecordInv, IndexConsistent, EnrollmentsOf
  <2>5. TrustedNodes' = TrustedNodes \ {n}
    BY <2>2, <2>3, <2>4 DEF TrustedNodes, Exists
  <2>6. Adm!Revoke(n)
    BY <1>p, <2>1, <2>5 DEF Adm!Revoke
  <2> QED
    BY <2>6 DEF Adm!Next
<1>4. CASE ForgetHome
  <2>1. /\ enrollments' = [id \in Eids |-> None] /\ admitted' = {}
        /\ UNCHANGED <<inventory, signed>>
    BY <1>4 DEF ForgetHome, DeleteHome
  <2>2. TrustedNodes' = {}
    BY <2>1 DEF TrustedNodes, Exists
  <2>3. Adm!Disown
    BY <1>p, <2>1, <2>2 DEF Adm!Disown
  <2> QED
    BY <2>3 DEF Adm!Next
<1>5. CASE FactoryReset
  <2>1. /\ enrollments' = [id \in Eids |-> None] /\ admitted' = {}
        /\ inventory' = {} /\ UNCHANGED signed
    BY <1>5 DEF FactoryReset, Reset
  <2>2. TrustedNodes' = {}
    BY <2>1 DEF TrustedNodes, Exists
  <2>3. Adm!Wipe
    BY <1>p, <2>1, <2>2 DEF Adm!Wipe
  <2> QED
    BY <2>3 DEF Adm!Next
<1>6. CASE UNCHANGED vars
  BY <1>s, <1>p, <1>6 DEF vars, storeVars, serviceVars
<1> QED
  BY <1>1, <1>2, <1>3, <1>4, <1>5, <1>6

\* Through any overlap of requests, verifications, decisions, decommissionings
\* and crashes, if a node has one enrollment request in flight at a time, the
\* service does what Admission says: a node becomes trusted in one step, only
\* when it has proved itself, a decision to adopt it stands and it is in the
\* inventory, and DeleteNode takes all of that from it in one step.
THEOREM Implementation ==
  ASSUME OneJoinPerNode
  PROVE  Spec => ImplementsAdmission
<1>1. Init => AdmissionInv
  BY TrustInit, ProvenInit DEF AdmissionInv
<1>2. AdmissionInv /\ [Next]_vars => AdmissionInv'
  BY TrustStep, ProvenStep DEF AdmissionInv, TrustInv, JoinInv, RecordInv
<1>3. Init => Adm!Init
  BY DEF Init, StoreInit, Adm!Init, TrustedNodes, ProvenNodes, Exists
<1>4. AdmissionInv /\ [Next]_vars => [Adm!Next]_(Adm!vars)
  BY HandlerImplements, OtherImplements DEF Next
<1> QED
  BY <1>1, <1>2, <1>3, <1>4, PTL DEF Spec, ImplementsAdmission, Adm!Spec

=============================================================================
