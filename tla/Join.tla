-------------------------------- MODULE Join --------------------------------
(***************************************************************************)
(* A node enrolling into a controller: the client side of the protocol     *)
(* (internal/client/client.go) driven by the daemon's boot join, which     *)
(* retries for ever (joinHome, meshd/cmd/meshd/main.go), and by            *)
(* POST /enroll/join, which gives up after joinTimeout (enrollJoin,        *)
(* internal/api/enrollment.go).                                            *)
(*                                                                         *)
(* Both joins of one daemon use the same device identity, so they share    *)
(* ONE enrollment record at the controller.  A handler that writes back a  *)
(* record it has read takes a step for each of its transactions, and the   *)
(* handlers of several calls and of the operator interleave.  What is      *)
(* studied is the exchange: calls and answers that are lost, a call that   *)
(* is served after the caller gave up, restarts of the node, the           *)
(* operator's decisions, and two joins at a time.  That two requests can   *)
(* create two records is the subject of Enrollment.                        *)
(***************************************************************************)
EXTENDS Naturals, FiniteSets

CONSTANTS
  Joins,        \* the joins the node can run at a time
  Timed,        \* those that run under joinTimeout: POST /enroll/join
  AutoAdopts,   \* whether the controller's policy adopts this node unattended; it
                \* may depend on the call (policy onlink)
  Ids,          \* enrollment ids   (a bound: an id nothing refers to is fresh)
  Challenges,   \* challenges       (a bound: likewise)
  MaxLate,      \* calls served after their caller gave up, at a time (a bound)
  MaxDisruptions, \* failed calls, restarts, rejections, decommissionings and
                  \* joins asked for over the API (a bound)
  Operator,     \* who adopts and rejects, one decision at a time
  None

ASSUME JoinAssumption ==
  /\ Timed \subseteq Joins
  /\ AutoAdopts \subseteq BOOLEAN /\ AutoAdopts # {}
  /\ MaxLate \in Nat /\ MaxDisruptions \in Nat
  /\ None \notin Ids \cup Challenges
  /\ Operator \notin Joins \cup {None} /\ None \notin Joins

VARIABLES
  rec,          \* the controller's record of this node, or None
  pc,           \* join -> where the client is
  att,          \* join -> enrollment id and challenge of its attempt
  acked,        \* join -> status the ack answered, or None
  late,         \* calls whose caller gave up and that are not served yet
  work,         \* the handlers that are under way, and what each will write
  disruptions,
  adopted,      \* history: ids of the enrollments that were adopted, and not
                \* undone since
  alone         \* history: no join was asked for over the API, and no call was
                \* left to be served after its caller gave up

joinVars == <<rec, pc, att, acked, late, work, disruptions, adopted>>
vars == <<joinVars, alone>>

Trusted == {"approved", "active"}
Statuses == {"pending_verification", "pending_approval", "rejected"} \cup Trusted

ASSUME NoneAssumption == None \notin Statuses

\* The states of Client.machine, the calls of Enrolling told apart.
States == {"unclaimed", "requesting", "verifying", "waiting", "acking",
           "active", "failed"}
Calling == {"requesting", "verifying", "waiting", "acking"}

Record == [id : Ids, challenge : Challenges, status : Statuses]
Attempt == [id : Ids \cup {None}, challenge : Challenges \cup {None}]
NoAttempt == [id |-> None, challenge |-> None]
\* A handler that has read the enrollment: whom it answers, and the record as it
\* will write it (only a request makes one that is to be verified).
Work == [by : Joins \cup {Operator, None},
         e : {r \in Record : r.status # "pending_verification"}]
Call == [op : Calling, id : Ids \cup {None}, challenge : Challenges \cup {None}]

Enrolled(id) == rec # None /\ rec.id = id

FreshIds ==
  Ids \ ({att[j].id : j \in Joins} \cup {m.id : m \in late}
         \cup {w.e.id : w \in work} \cup {r.id : r \in {rec} \ {None}})
FreshChallenges ==
  Challenges \ ({att[j].challenge : j \in Joins} \cup {m.challenge : m \in late}
                \cup {w.e.challenge : w \in work}
                \cup {r.challenge : r \in {rec} \ {None}})

-----------------------------------------------------------------------------
(* The controller's handlers: what they do to the record *)

\* A request or a rejection undoes an adoption, unless an ack that has read the
\* approved record is still to write it.
Undone(id) ==
  IF \E w \in work : w.e.id = id /\ w.e.status = "active"
  THEN adopted ELSE adopted \ {id}

\* Service.Request; which fresh values are drawn makes no difference, and nothing
\* of the record it has read survives its write.
Request ==
  /\ FreshChallenges # {}
  /\ rec # None \/ FreshIds # {}
  /\ rec' = [id |-> IF rec # None THEN rec.id ELSE CHOOSE id \in FreshIds : TRUE,
             challenge |-> CHOOSE c \in FreshChallenges : TRUE,
             status |-> "pending_verification"]
  /\ adopted' = Undone(rec'.id)

\* A handler reads the record, and goes on to write it with another status.
Reads(by, status) ==
  work' = work \cup {[by |-> by, e |-> [rec EXCEPT !.status = status]]}

Busy(by) == \E w \in work : w.by = by

\* Service.Verify of a signed challenge
Verifiable(id, c) == Enrolled(id) /\ rec.challenge = c
VerifyRead(by, id, c) == Verifiable(id, c) /\ Reads(by, "pending_approval")

\* Mutant: an ack makes any enrollment active.
AckableAnyStatus(id) == Enrolled(id)

\* Service.Ack
Ackable(id) == Enrolled(id) /\ rec.status = "approved"
AckRead(by, id) == Ackable(id) /\ Reads(by, "active")

\* The operator, one decision at a time: Service.Adopt and Service.Reject.  The
\* status a rejection finds is not consulted.
Adopt ==
  /\ ~Busy(Operator)
  /\ rec # None /\ rec.status = "pending_approval"
  /\ Reads(Operator, "approved")

Reject ==
  /\ ~Busy(Operator)
  /\ rec # None
  /\ Reads(Operator, "rejected")

\* Mutant: the verification is answered and not stored.
SaveUnlessPending(e) ==
  IF Enrolled(e.id) /\ e.status # "pending_approval" THEN e ELSE rec

\* UpdateEnrollment: the whole record as it was read, if there still is one.
Save(e) == IF Enrolled(e.id) THEN e ELSE rec

Write(e) ==
  /\ rec' = Save(e)
  /\ adopted' = IF ~Enrolled(e.id) THEN adopted
                ELSE IF e.status = "approved" THEN adopted \cup {e.id}
                ELSE IF e.status = "rejected" THEN Undone(e.id)
                ELSE adopted

\* A verification whose policy adopts the node goes on to approve, with the
\* record in its hands.
AdoptsUnattended(w) ==
  /\ TRUE \in AutoAdopts
  /\ w \in work /\ w.e.status = "pending_approval" /\ Enrolled(w.e.id)
  /\ Write(w.e)
  /\ work' = (work \ {w}) \cup {[w EXCEPT !.e.status = "approved"]}

\* The last write of a handler.
Ends(w) ==
  /\ w \in work
  /\ w.e.status = "pending_approval" /\ Enrolled(w.e.id) => FALSE \in AutoAdopts
  /\ Write(w.e)
  /\ work' = work \ {w}

-----------------------------------------------------------------------------
(* The client *)

Disrupt ==
  /\ disruptions < MaxDisruptions
  /\ disruptions' = disruptions + 1

Moves(j, state) == pc' = [pc EXCEPT ![j] = state]

\* The call of join j is answered, or its answer is lost.
Answers(j, state) ==
  \/ Moves(j, state) /\ UNCHANGED disruptions
  \/ Disrupt /\ Moves(j, "failed")

Begins(j) ==
  /\ Moves(j, "requesting")
  /\ att' = [att EXCEPT ![j] = NoAttempt]
  /\ acked' = [acked EXCEPT ![j] = None]
  /\ UNCHANGED <<rec, late, work, adopted>>

\* joinHome, on boot and after an error
Start(j) ==
  /\ j \notin Timed
  /\ pc[j] \in {"unclaimed", "failed"}
  /\ Begins(j)
  /\ UNCHANGED disruptions

\* POST /enroll/join, whenever somebody asks
StartTimed(j) ==
  /\ j \in Timed
  /\ pc[j] \in {"unclaimed", "failed", "active"}
  /\ Disrupt
  /\ Begins(j)

\* The request is answered with the id and the challenge; the node signs it.
Requested(j) ==
  /\ pc[j] = "requesting"
  /\ Request
  /\ att' = [att EXCEPT ![j] = [id |-> rec'.id, challenge |-> rec'.challenge]]
  /\ Answers(j, "verifying")
  /\ UNCHANGED <<acked, late, work>>

\* The controller takes the call of join j, or refuses it.
Verifying(j) ==
  /\ pc[j] = "verifying" /\ ~Busy(j)
  /\ \/ /\ VerifyRead(j, att[j].id, att[j].challenge)
        /\ UNCHANGED pc
     \/ /\ ~Verifiable(att[j].id, att[j].challenge)
        /\ Moves(j, "failed")
        /\ UNCHANGED work
  /\ UNCHANGED <<rec, att, acked, late, disruptions, adopted>>

\* Mutant: only an approval ends the wait.
PolledApproval(j) ==
  /\ pc[j] = "waiting"
  /\ Enrolled(att[j].id) /\ rec.status \in Trusted
  /\ Moves(j, "acking")
  /\ UNCHANGED <<rec, att, acked, late, work, disruptions, adopted>>

\* Mutant: the status of the enrollment becomes the state of the client.
PolledStatus(j) ==
  /\ pc[j] = "waiting"
  /\ Enrolled(att[j].id) /\ rec.status # "pending_approval"
  /\ Moves(j, rec.status)
  /\ UNCHANGED <<rec, att, acked, late, work, disruptions, adopted>>

\* waitForApproval: a poll that ends the wait.  Any other status is waited on.
Polled(j) ==
  /\ pc[j] = "waiting"
  /\ \/ ~Enrolled(att[j].id) /\ Moves(j, "failed")
     \/ Enrolled(att[j].id) /\ rec.status \in Trusted /\ Moves(j, "acking")
     \/ Enrolled(att[j].id) /\ rec.status = "rejected" /\ Moves(j, "failed")
  /\ UNCHANGED <<rec, att, acked, late, work, disruptions, adopted>>

\* An ack that has nothing to write answers the status it has read, and whatever
\* that is, the client is active.
Acking(j) ==
  /\ pc[j] = "acking" /\ ~Busy(j)
  /\ \/ AckRead(j, att[j].id) /\ UNCHANGED <<pc, acked, disruptions>>
     \/ /\ ~Enrolled(att[j].id)
        /\ Moves(j, "failed")
        /\ UNCHANGED <<work, acked, disruptions>>
     \/ /\ Enrolled(att[j].id) /\ ~Ackable(att[j].id)
        /\ Answers(j, "active")
        /\ acked' = IF pc'[j] = "active" THEN [acked EXCEPT ![j] = rec.status]
                    ELSE acked
        /\ UNCHANGED work
  /\ UNCHANGED <<rec, att, late, adopted>>

\* What the answer of a handler that wrote this record does to the client.
After(status) ==
  CASE status = "pending_approval" -> "waiting"
    [] status = "approved" -> "acking"
    [] OTHER -> "active"

\* The handler of the call of join j takes its next step.
Handled(j) ==
  /\ \E w \in work :
       /\ w.by = j
       /\ \/ AdoptsUnattended(w) /\ UNCHANGED <<pc, acked, disruptions>>
          \/ /\ Ends(w)
             /\ \/ /\ Enrolled(w.e.id)
                   /\ Answers(j, After(w.e.status))
                   /\ acked' = IF pc'[j] = "active"
                               THEN [acked EXCEPT ![j] = w.e.status] ELSE acked
                \/ /\ ~Enrolled(w.e.id)
                   /\ Moves(j, "failed")
                   /\ UNCHANGED <<acked, disruptions>>
  /\ UNCHANGED <<att, late>>

-----------------------------------------------------------------------------
(* What goes wrong *)

TheCall(j) == [op |-> pc[j], id |-> att[j].id, challenge |-> att[j].challenge]

\* The callers J are gone: handlers under way for them go on, answering nobody.
Orphaned(J) ==
  {IF w.by \in J THEN [w EXCEPT !.by = None] ELSE w : w \in work}

Leave(J) ==
  /\ work' = Orphaned(J)
  /\ Cardinality(late') + Cardinality({w \in work' : w.by = None}) <= MaxLate

\* The call does not reach the controller, its handler dies (an error of the
\* store, a stop of the controller), or the poll's answer is lost.
CallFails(j) ==
  /\ Disrupt
  /\ pc[j] \in Calling
  /\ Moves(j, "failed")
  /\ work' = {w \in work : w.by # j}
  /\ UNCHANGED <<rec, att, acked, late, adopted>>

\* joinTimeout: the context of a join asked for over the API is done.
TimesOut(j) ==
  /\ j \in Timed
  /\ pc[j] \in Calling
  /\ Moves(j, "failed")
  /\ UNCHANGED <<rec, att, acked, late, disruptions, adopted>>
  /\ Leave({j})

\* The client gives up on a call that the controller has yet to serve, or is
\* serving.
GivesUp(j) ==
  /\ Disrupt
  /\ pc[j] \in Calling \ {"waiting"}
  /\ late' = IF Busy(j) THEN late ELSE late \cup {TheCall(j)}
  /\ Leave({j})
  /\ Moves(j, "failed")
  /\ UNCHANGED <<rec, att, acked, adopted>>

\* A call that nobody waits for any more is taken (Get changes nothing); one the
\* controller refuses is gone.
ServedLate(m) ==
  /\ m \in late
  /\ late' = late \ {m}
  /\ \/ m.op = "requesting" /\ Request /\ UNCHANGED work
     \/ /\ m.op = "verifying" /\ VerifyRead(None, m.id, m.challenge)
        /\ UNCHANGED <<rec, adopted>>
     \/ m.op = "acking" /\ AckRead(None, m.id) /\ UNCHANGED <<rec, adopted>>
     \/ /\ m.op = "verifying" /\ ~Verifiable(m.id, m.challenge)
        /\ UNCHANGED <<rec, work, adopted>>
     \/ m.op = "acking" /\ ~Ackable(m.id) /\ UNCHANGED <<rec, work, adopted>>
  /\ UNCHANGED <<pc, att, acked, disruptions>>

\* A handler that answers the operator, or nobody, takes its next step.
HandledLate(by) ==
  /\ \E w \in work : w.by = by /\ (AdoptsUnattended(w) \/ Ends(w))
  /\ UNCHANGED <<pc, att, acked, late, disruptions>>

\* The node's daemon restarts; its joins are forgotten.
Restart ==
  /\ Disrupt
  /\ pc' = [j \in Joins |-> "unclaimed"]
  /\ att' = [j \in Joins |-> NoAttempt]
  /\ acked' = [j \in Joins |-> None]
  /\ UNCHANGED <<rec, late, adopted>>
  /\ Leave(Joins)

\* The operator decides about the node, or removes it.
OperatorAdopts ==
  Adopt /\ UNCHANGED <<rec, pc, att, acked, late, disruptions, adopted>>

OperatorRejects ==
  /\ Disrupt
  /\ Reject
  /\ UNCHANGED <<rec, pc, att, acked, late, adopted>>

Decommission ==
  /\ Disrupt
  /\ rec # None
  /\ rec' = None
  /\ UNCHANGED <<pc, att, acked, late, work, adopted>>

-----------------------------------------------------------------------------

Init ==
  /\ rec = None
  /\ pc = [j \in Joins |-> "unclaimed"]
  /\ att = [j \in Joins |-> NoAttempt]
  /\ acked = [j \in Joins |-> None]
  /\ late = {}
  /\ work = {}
  /\ disruptions = 0
  /\ adopted = {}
  /\ alone = TRUE

ClientStep(j) ==
  \/ Start(j) \/ StartTimed(j)
  \/ Requested(j) \/ Verifying(j) \/ Polled(j) \/ Acking(j) \/ Handled(j)
  \/ CallFails(j) \/ TimesOut(j) \/ GivesUp(j)

Next ==
  /\ \/ \E j \in Joins : ClientStep(j)
     \/ \E m \in late : ServedLate(m)
     \/ HandledLate(None) \/ HandledLate(Operator)
     \/ Restart
     \/ OperatorAdopts \/ OperatorRejects \/ Decommission
  /\ alone' = /\ alone
              /\ late' = {} /\ \A w \in work' : w.by # None
              /\ \A j \in Timed : pc'[j] = "unclaimed"

\* What a join does by itself
Proceeds(j) ==
  Requested(j) \/ Verifying(j) \/ Polled(j) \/ Acking(j) \/ Handled(j) \/ TimesOut(j)

\* joinHome starts and retries by itself; a call that does not fail is answered
\* (failures are bounded, and the HTTP client's timeout makes one of a call that
\* hangs); joinTimeout ends the other joins; the operator adopts a node that
\* goes on asking, and the handler that was asked ends.  Nobody has to ask for a
\* join over the API, and a call that was given up need not be served.
Fairness ==
  /\ \A j \in Joins : WF_joinVars(Start(j) \/ Proceeds(j))
  /\ WF_joinVars(OperatorAdopts \/ HandledLate(Operator))

Spec == Init /\ [][Next]_vars /\ Fairness

-----------------------------------------------------------------------------
(* Properties *)

TypeOK ==
  /\ rec \in Record \cup {None}
  /\ pc \in [Joins -> States]
  /\ att \in [Joins -> Attempt]
  /\ acked \in [Joins -> Statuses \cup {None}]
  /\ late \subseteq Call
  /\ work \subseteq Work
  /\ disruptions \in 0 .. MaxDisruptions
  /\ adopted \subseteq Ids
  /\ alone \in BOOLEAN

\* A join that ends with the profile and the certificate (which result()
\* attaches to approved and active enrollments only) ends so for an enrollment
\* whose adoption stands, whatever was lost, repeated, late or restarted: since
\* it was adopted, every request and rejection of it was made while an ack was
\* under way, whose write then overtakes it (Join_rejected).
CredentialsNeedAdoption ==
  [][\A j \in Joins : acked'[j] \in Trusted /\ acked'[j] # acked[j]
       => att[j].id \in adopted]_vars

\* "Reject marks a pending enrollment as rejected so the node is not adopted"
\* (enrollment.go:249): a rejected enrollment is not trusted in the next step.
RejectionStands ==
  [][\A id \in Ids : Enrolled(id) /\ rec.status = "rejected" /\ Enrolled(id)'
       => rec'.status \notin Trusted]_vars

\* The ack is there "to become active" (client.go:298) and answers "active"
\* (doc/enrollment.md:82): a join that is done is one the controller has made active.
DoneIsActive ==
  \A j \in Joins : pc[j] = "active" => acked[j] = "active"

\* A client that waits for approval waits for something that can still happen:
\* its enrollment is gone, decided, or listed for the operator to decide.  A
\* second join, or a call served late, can take the shared record back to
\* pending_verification; Join_stuck shows where that leads.
WaitCanEnd ==
  alone =>
    \A j \in Joins :
      pc[j] = "waiting" /\ Enrolled(att[j].id) =>
        rec.status # "pending_verification"

\* "joinHome enrolls this device into another controller, retrying until it
\* succeeds or the daemon stops" (main.go:818).
JoinCompletes ==
  \A j \in Joins \ Timed : pc[j] = "requesting" ~> pc[j] = "active"

\* The same, of a boot join that shares its record with no other join and no
\* late call: whatever is lost, restarted, rejected or decommissioned, it gets
\* there.
JoinCompletesAlone ==
  \A j \in Joins \ Timed :
    pc[j] = "requesting" ~> pc[j] = "active" \/ ~alone

=============================================================================
