----------------------------- MODULE JoinProofs -----------------------------
(***************************************************************************)
(* Theorems about Join, for any joins, ids, challenges and disruptions.    *)
(***************************************************************************)
EXTENDS Join, TLAPS

\* The controller trusts only an enrollment whose adoption stands.
TrustIsAdopted == rec # None /\ rec.status \in Trusted => rec.id \in adopted

\* So does a handler that is to write "active": whoever undoes the adoption in
\* the meantime is overtaken by that write.
AcksAreAdopted == \A w \in work : w.e.status = "active" => w.e.id \in adopted

\* A handler that answers a join handles what that join attempts.
WorkIsAttempted == \A w \in work : w.by \in Joins => w.e.id = att[w.by].id

\* The join waits for it, and for no other.
WorkIsAwaited ==
  \A w \in work : w.by \in Joins =>
    /\ pc[w.by] \in {"verifying", "acking"}
    /\ \A v \in work : v.by = w.by => v = w

JoinInv ==
  TypeOK /\ TrustIsAdopted /\ AcksAreAdopted /\ WorkIsAttempted /\ WorkIsAwaited

LEMMA RecordTypes ==
  ASSUME TypeOK, rec # None
  PROVE  /\ rec \in Record /\ rec.id \in Ids
         /\ rec.challenge \in Challenges /\ rec.status \in Statuses
BY DEF TypeOK, Record

LEMMA WorkTypes ==
  ASSUME TypeOK, NEW w \in work
  PROVE  /\ w \in Work /\ w.by \in Joins \cup {Operator, None}
         /\ w.e \in Record /\ w.e.id \in Ids
         /\ w.e.challenge \in Challenges
         /\ w.e.status \in Statuses \ {"pending_verification"}
BY DEF TypeOK, Work, Record

-----------------------------------------------------------------------------
(* The handlers keep the record, the other handlers and who is adopted in  *)
(* step.                                                                    *)

RecOK ==
  /\ rec \in Record \cup {None} /\ adopted \subseteq Ids /\ work \subseteq Work
  /\ TrustIsAdopted /\ AcksAreAdopted

LEMMA RecIsOK == ASSUME JoinInv PROVE RecOK
BY DEF JoinInv, TypeOK, RecOK

\* An undone adoption leaves the other enrollments as they are, and those an ack
\* is about to overtake.
LEMMA UndoneKeeps ==
  ASSUME RecOK, NEW id
  PROVE  /\ Undone(id) \subseteq adopted /\ adopted \ {id} \subseteq Undone(id)
         /\ \A w \in work : w.e.status = "active" => w.e.id \in Undone(id)
BY DEF Undone, RecOK, AcksAreAdopted

LEMMA RequestKeeps ==
  ASSUME JoinInv, Request, UNCHANGED work
  PROVE  RecOK' /\ rec'.id \in Ids /\ rec'.challenge \in Challenges
<1> DEFINE id == IF rec # None THEN rec.id ELSE CHOOSE i \in FreshIds : TRUE
           c == CHOOSE d \in FreshChallenges : TRUE
<1>0. RecOK
  BY RecIsOK
<1>1. FreshChallenges \subseteq Challenges /\ FreshIds \subseteq Ids
  BY DEF FreshChallenges, FreshIds
<1>2. c \in Challenges
  BY <1>1 DEF Request
<1>3. id \in Ids
  BY <1>1, RecordTypes DEF Request, JoinInv
<1>4. rec' = [id |-> id, challenge |-> c, status |-> "pending_verification"]
  BY DEF Request
<1>5. adopted' = Undone(rec'.id)
  BY DEF Request
<1> HIDE DEF id, c
<1>6. rec' \in Record /\ rec'.status = "pending_verification"
      /\ rec'.id \in Ids /\ rec'.challenge \in Challenges
  BY <1>2, <1>3, <1>4 DEF Record, Statuses
<1>7. /\ adopted' \subseteq adopted
      /\ \A w \in work : w.e.status = "active" => w.e.id \in adopted'
  BY <1>0, <1>5, UndoneKeeps
<1> QED
  BY <1>0, <1>6, <1>7 DEF RecOK, TrustIsAdopted, AcksAreAdopted, Trusted

\* A handler that reads the record keeps to what may be written.
LEMMA ReadKeeps ==
  ASSUME JoinInv, rec # None, NEW by \in Joins \cup {Operator, None},
         NEW status \in Statuses \ {"pending_verification"}, Reads(by, status),
         status = "active" => rec.status = "approved",
         UNCHANGED <<rec, adopted>>
  PROVE  /\ RecOK'
         /\ \E new : work' = work \cup {new} /\ new.by = by /\ new.e.id = rec.id
<1> DEFINE new == [by |-> by, e |-> [rec EXCEPT !.status = status]]
<1>1. RecOK
  BY RecIsOK
<1>2. rec \in Record /\ rec.id \in Ids
  BY RecordTypes DEF JoinInv
<1>3. /\ new \in Work /\ new.by = by
      /\ new.e.id = rec.id /\ new.e.status = status
  BY <1>2 DEF Work, Record
<1>4. work' = work \cup {new}
  BY DEF Reads
<1>5. status = "active" => rec.id \in adopted
  BY <1>1 DEF RecOK, TrustIsAdopted, Trusted
<1> HIDE DEF new
<1> QED
  BY <1>1, <1>3, <1>4, <1>5 DEF RecOK, TrustIsAdopted, AcksAreAdopted

LEMMA VerifyReadKeeps ==
  ASSUME JoinInv, NEW by \in Joins \cup {Operator, None}, NEW id, NEW c,
         VerifyRead(by, id, c), UNCHANGED <<rec, adopted>>
  PROVE  /\ RecOK'
         /\ \E new : work' = work \cup {new} /\ new.by = by /\ new.e.id = id
<1>1. rec # None /\ rec.id = id /\ Reads(by, "pending_approval")
  BY DEF VerifyRead, Verifiable, Enrolled
<1>2. "pending_approval" \in Statuses \ {"pending_verification"}
  BY DEF Statuses
<1> QED
  BY <1>1, <1>2, ReadKeeps

LEMMA AckReadKeeps ==
  ASSUME JoinInv, NEW by \in Joins \cup {Operator, None}, NEW id,
         AckRead(by, id), UNCHANGED <<rec, adopted>>
  PROVE  /\ RecOK'
         /\ \E new : work' = work \cup {new} /\ new.by = by /\ new.e.id = id
<1>1. rec # None /\ rec.id = id /\ Reads(by, "active") /\ rec.status = "approved"
  BY DEF AckRead, Ackable, Enrolled
<1>2. "active" \in Statuses \ {"pending_verification"}
  BY DEF Statuses, Trusted
<1> QED
  BY <1>1, <1>2, ReadKeeps

\* A write keeps to it too, whatever the other handlers have done since the read.
LEMMA WriteKeeps ==
  ASSUME JoinInv, NEW w \in work, Write(w.e),
         work' \subseteq work \cup {[w EXCEPT !.e.status = "approved"]}
  PROVE  /\ RecOK'
         /\ w.e.status = "active" => w.e.id \in adopted
<1>1. RecOK /\ w \in Work /\ w.e \in Record /\ w.e.id \in Ids
      /\ w.e.status \in Statuses
  BY RecIsOK, WorkTypes DEF JoinInv
<1> DEFINE new == [w EXCEPT !.e.status = "approved"]
<1>2. new \in Work /\ new.e.status = "approved"
  BY <1>1 DEF Work, Record, Statuses, Trusted
<1>3. work' \subseteq work \cup {new}
  OBVIOUS
<1> HIDE DEF new
<1>4. /\ rec' \in Record \cup {None} /\ adopted' \subseteq Ids /\ work' \subseteq Work
  BY <1>1, <1>2, <1>3, UndoneKeeps DEF Write, Save, RecOK
<1>5. AcksAreAdopted'
  BY <1>1, <1>2, <1>3, UndoneKeeps DEF Write, RecOK, AcksAreAdopted
<1>6. TrustIsAdopted'
  BY <1>1 DEF Write, Save, RecOK, TrustIsAdopted, AcksAreAdopted, Trusted, Enrolled
<1> QED
  BY <1>1, <1>4, <1>5, <1>6 DEF RecOK, AcksAreAdopted

-----------------------------------------------------------------------------
(* Every step keeps the invariant *)

LEMMA InitInv == Init => JoinInv
BY JoinAssumption
   DEF Init, JoinInv, TypeOK, TrustIsAdopted, AcksAreAdopted, WorkIsAttempted,
       WorkIsAwaited, Attempt, NoAttempt, States

Kept ==
  /\ RecOK' /\ pc' \in [Joins -> States] /\ att' \in [Joins -> Attempt]
  /\ acked' \in [Joins -> Statuses \cup {None}] /\ late' \subseteq Call
  /\ disruptions' \in 0 .. MaxDisruptions
  /\ WorkIsAttempted' /\ WorkIsAwaited'

LEMMA KeptInv == ASSUME Kept, alone' \in BOOLEAN PROVE JoinInv'
BY DEF Kept, JoinInv, RecOK, TypeOK

\* Types and the parts of the invariant, to be cited by the cases below.
LEMMA Facts ==
  ASSUME JoinInv
  PROVE  /\ TypeOK /\ RecOK /\ WorkIsAttempted /\ WorkIsAwaited
         /\ \A w \in work : w.e.status \in Statuses
         /\ Disrupt => disruptions' \in 0 .. MaxDisruptions
         /\ NoAttempt \in Attempt /\ \A j \in Joins : att[j] \in Attempt
         /\ Operator \notin Joins /\ None \notin Joins
<1>1. Disrupt => disruptions' \in 0 .. MaxDisruptions
  BY JoinAssumption DEF JoinInv, TypeOK, Disrupt
<1>2. NoAttempt \in Attempt
  BY DEF NoAttempt, Attempt
<1> QED
  BY <1>1, <1>2, RecIsOK, WorkTypes, JoinAssumption DEF JoinInv, TypeOK

\* With the record and the handlers as they are, what is left is the clients.
LEMMA SameRecord ==
  ASSUME JoinInv, UNCHANGED <<rec, adopted>>, work' \subseteq work
  PROVE  RecOK'
BY RecIsOK DEF RecOK, TrustIsAdopted, AcksAreAdopted

LEMMA StartKeeps ==
  ASSUME JoinInv, NEW j \in Joins, Start(j) \/ StartTimed(j)
  PROVE  Kept
<1>1. RecOK'
  BY SameRecord DEF Start, StartTimed, Begins
<1>2. \A w \in work : w.by # j
  BY Facts DEF Start, StartTimed, WorkIsAwaited
<1> QED
  BY <1>1, <1>2, Facts
     DEF Kept, Start, StartTimed, Begins, Moves, TypeOK, States, WorkIsAttempted,
         WorkIsAwaited

LEMMA RequestedKeeps ==
  ASSUME JoinInv, NEW j \in Joins, Requested(j)
  PROVE  Kept
<1>1. RecOK' /\ [id |-> rec'.id, challenge |-> rec'.challenge] \in Attempt
  BY RequestKeeps DEF Requested, Attempt
<1>2. \A w \in work : w.by # j
  BY Facts DEF Requested, WorkIsAwaited
<1> QED
  BY <1>1, <1>2, Facts
     DEF Kept, Requested, Answers, Moves, TypeOK, States, WorkIsAttempted,
         WorkIsAwaited

\* A call of join j is taken by a handler.
LEMMA TakenKeeps ==
  ASSUME JoinInv, NEW j \in Joins, ~Busy(j), RecOK',
         pc[j] \in {"verifying", "acking"},
         UNCHANGED <<pc, att, acked, late, disruptions>>,
         \E new : work' = work \cup {new} /\ new.by = j /\ new.e.id = att[j].id
  PROVE  Kept
<1>1. PICK new : work' = work \cup {new} /\ new.by = j /\ new.e.id = att[j].id
  OBVIOUS
<1>2. \A w \in work : w.by # j
  BY DEF Busy
<1> QED
  BY <1>1, <1>2, Facts DEF Kept, TypeOK, WorkIsAttempted, WorkIsAwaited

LEMMA VerifyingKeeps ==
  ASSUME JoinInv, NEW j \in Joins, Verifying(j)
  PROVE  Kept
<1>1. CASE VerifyRead(j, att[j].id, att[j].challenge) /\ UNCHANGED pc
  BY <1>1, VerifyReadKeeps, TakenKeeps DEF Verifying
<1>2. CASE Moves(j, "failed") /\ UNCHANGED work
  <2>1. RecOK'
    BY <1>2, SameRecord DEF Verifying
  <2>2. \A w \in work : w.by # j
    BY DEF Verifying, Busy
  <2> QED
    BY <1>2, <2>1, <2>2, Facts
       DEF Kept, Verifying, Moves, TypeOK, States, WorkIsAttempted, WorkIsAwaited
<1> QED
  BY <1>1, <1>2 DEF Verifying

LEMMA PolledKeeps ==
  ASSUME JoinInv, NEW j \in Joins, Polled(j)
  PROVE  Kept
<1>1. RecOK'
  BY SameRecord DEF Polled
<1>2. \A w \in work : w.by # j
  BY Facts DEF Polled, WorkIsAwaited
<1> QED
  BY <1>1, <1>2, Facts
     DEF Kept, Polled, Moves, TypeOK, States, WorkIsAttempted, WorkIsAwaited

LEMMA AckingKeeps ==
  ASSUME JoinInv, NEW j \in Joins, Acking(j)
  PROVE  Kept
<1>0. \A w \in work : w.by # j
  BY DEF Acking, Busy
<1>1. CASE AckRead(j, att[j].id) /\ UNCHANGED <<pc, acked, disruptions>>
  BY <1>1, AckReadKeeps, TakenKeeps DEF Acking
<1>2. CASE Moves(j, "failed") /\ UNCHANGED <<work, acked, disruptions>>
  <2>1. RecOK'
    BY <1>2, SameRecord DEF Acking
  <2> QED
    BY <1>0, <1>2, <2>1, Facts
       DEF Kept, Acking, Moves, TypeOK, States, WorkIsAttempted, WorkIsAwaited
<1>3. CASE /\ Enrolled(att[j].id) /\ Answers(j, "active")
           /\ acked' = IF pc'[j] = "active" THEN [acked EXCEPT ![j] = rec.status]
                       ELSE acked
           /\ UNCHANGED work
  <2>1. RecOK'
    BY <1>3, SameRecord DEF Acking
  <2>2. rec.status \in Statuses
    BY <1>3, RecordTypes DEF JoinInv, Enrolled
  <2> QED
    BY <1>0, <1>3, <2>1, <2>2, Facts
       DEF Kept, Acking, Answers, Moves, TypeOK, States, WorkIsAttempted,
           WorkIsAwaited
<1> QED
  BY <1>1, <1>2, <1>3 DEF Acking

LEMMA HandledKeeps ==
  ASSUME JoinInv, NEW j \in Joins, Handled(j)
  PROVE  Kept
<1>1. PICK w \in work :
        /\ w.by = j
        /\ \/ AdoptsUnattended(w) /\ UNCHANGED <<pc, acked, disruptions>>
           \/ /\ Ends(w)
              /\ \/ /\ Enrolled(w.e.id)
                    /\ Answers(j, After(w.e.status))
                    /\ acked' = IF pc'[j] = "active"
                                THEN [acked EXCEPT ![j] = w.e.status] ELSE acked
                 \/ /\ ~Enrolled(w.e.id)
                    /\ Moves(j, "failed")
                    /\ UNCHANGED <<acked, disruptions>>
  BY DEF Handled
<1>2. RecOK'
  BY <1>1, WriteKeeps DEF AdoptsUnattended, Ends
<1>3. w \in Work /\ w.e \in Record /\ w.e.status \in Statuses
  BY <1>1, WorkTypes DEF JoinInv
<1>4. CASE AdoptsUnattended(w) /\ UNCHANGED <<pc, acked, disruptions>>
  <2> DEFINE new == [w EXCEPT !.e.status = "approved"]
  <2>1. new.by = w.by /\ new.e.id = w.e.id
    BY <1>3 DEF Work, Record
  <2>2. work' = (work \ {w}) \cup {new}
    BY <1>4 DEF AdoptsUnattended
  <2> HIDE DEF new
  <2> QED
    BY <1>1, <1>2, <1>4, <2>1, <2>2, Facts
       DEF Kept, Handled, TypeOK, WorkIsAttempted, WorkIsAwaited
<1>5. CASE Ends(w)
  <2>1. After(w.e.status) \in States
    BY DEF After, States
  <2>2. work' = work \ {w}
    BY <1>5 DEF Ends
  <2>3. \A v \in work' : v \in work /\ v.by # j
    BY <1>1, <2>2, Facts DEF WorkIsAwaited
  <2>4. /\ pc' \in [Joins -> States] /\ \A i \in Joins \ {j} : pc'[i] = pc[i]
        /\ acked' \in [Joins -> Statuses \cup {None}]
        /\ disruptions' \in 0 .. MaxDisruptions
    <3>1. CASE /\ Enrolled(w.e.id)
               /\ Answers(j, After(w.e.status))
               /\ acked' = IF pc'[j] = "active"
                           THEN [acked EXCEPT ![j] = w.e.status] ELSE acked
      BY <1>3, <2>1, <3>1, Facts DEF Answers, Moves, TypeOK, States
    <3>2. CASE Moves(j, "failed") /\ UNCHANGED <<acked, disruptions>>
      BY <3>2, Facts DEF Moves, TypeOK, States
    <3>3. CASE AdoptsUnattended(w) /\ UNCHANGED <<pc, acked, disruptions>>
      BY <3>3, Facts DEF TypeOK
    <3> QED
      BY <1>1, <3>1, <3>2, <3>3
  <2>5. WorkIsAttempted' /\ WorkIsAwaited'
    BY <1>1, <2>3, <2>4, Facts DEF Handled, WorkIsAttempted, WorkIsAwaited
  <2> QED
    BY <1>2, <2>4, <2>5, Facts DEF Kept, Handled, TypeOK
<1> QED
  BY <1>1, <1>4, <1>5

\* Callers leave their handlers behind.
LEMMA LeaveKeeps ==
  ASSUME JoinInv, NEW J \in SUBSET Joins, Leave(J), UNCHANGED <<rec, adopted>>
  PROVE  /\ RecOK'
         /\ \A w \in work' : w.by \in Joins => w \in work /\ w.by \notin J
<1>1. RecOK /\ None \notin Joins /\ work' = Orphaned(J)
  BY Facts DEF Leave
<1>2. ASSUME NEW v \in work'
      PROVE  /\ v \in Work /\ \E w \in work : v.e = w.e
             /\ v.by \in Joins => v \in work /\ v.by \notin J
  <2>1. PICK w \in work : v = IF w.by \in J THEN [w EXCEPT !.by = None] ELSE w
    BY <1>1 DEF Orphaned
  <2>2. w \in Work
    BY WorkTypes DEF JoinInv
  <2> QED
    BY <1>1, <2>1, <2>2 DEF Work
<1>3. work' \subseteq Work
  BY <1>2
<1>4. AcksAreAdopted'
  BY <1>1, <1>2 DEF RecOK, AcksAreAdopted
<1> QED
  BY <1>1, <1>2, <1>3, <1>4 DEF RecOK, TrustIsAdopted

LEMMA LostKeeps ==
  ASSUME JoinInv, NEW j \in Joins, CallFails(j) \/ TimesOut(j) \/ GivesUp(j)
  PROVE  Kept
<1>1. RecOK' /\ \A w \in work' : w.by \in Joins => w \in work /\ w.by # j
  <2>1. CASE CallFails(j)
    BY <2>1, SameRecord DEF CallFails
  <2>2. CASE TimesOut(j) \/ GivesUp(j)
    BY <2>2, LeaveKeeps DEF TimesOut, GivesUp
  <2> QED
    BY <2>1, <2>2
<1>2. pc[j] \in Calling => TheCall(j) \in Call
  BY Facts DEF TheCall, Call, Attempt
<1>3. late' \subseteq Call /\ pc' \in [Joins -> States]
  BY <1>2, Facts DEF CallFails, TimesOut, GivesUp, Moves, TypeOK, States
<1>4. WorkIsAttempted' /\ WorkIsAwaited'
  BY <1>1, Facts
     DEF CallFails, TimesOut, GivesUp, Moves, TypeOK, WorkIsAttempted, WorkIsAwaited
<1> QED
  BY <1>1, <1>3, <1>4, Facts DEF Kept, CallFails, TimesOut, GivesUp, TypeOK

LEMMA ClientKeeps ==
  ASSUME JoinInv, NEW j \in Joins, ClientStep(j)
  PROVE  Kept
BY StartKeeps, RequestedKeeps, VerifyingKeeps, PolledKeeps, AckingKeeps, HandledKeeps,
   LostKeeps DEF ClientStep

\* The controller takes a late call.
LEMMA ServedLateKeeps ==
  ASSUME JoinInv, NEW m \in late, ServedLate(m)
  PROVE  Kept
<1>1. CASE Request /\ UNCHANGED work
  BY <1>1, RequestKeeps, Facts
     DEF Kept, ServedLate, TypeOK, WorkIsAttempted, WorkIsAwaited
<1>2. CASE UNCHANGED <<rec, work, adopted>>
  BY <1>2, SameRecord, Facts
     DEF Kept, ServedLate, TypeOK, WorkIsAttempted, WorkIsAwaited
<1>3. CASE /\ VerifyRead(None, m.id, m.challenge) \/ AckRead(None, m.id)
           /\ UNCHANGED <<rec, adopted>>
  <2>1. RecOK'
    BY <1>3, VerifyReadKeeps, AckReadKeeps
  <2>2. PICK new : work' = work \cup {new} /\ new.by = None
    BY <1>3, VerifyReadKeeps, AckReadKeeps
  <2> QED
    BY <2>1, <2>2, Facts DEF Kept, ServedLate, TypeOK, WorkIsAttempted, WorkIsAwaited
<1> QED
  BY <1>1, <1>2, <1>3 DEF ServedLate

\* A handler that answers no join goes on.
LEMMA HandledLateKeeps ==
  ASSUME JoinInv, NEW by \in {Operator, None}, HandledLate(by)
  PROVE  Kept
<1>1. PICK w \in work : w.by = by /\ (AdoptsUnattended(w) \/ Ends(w))
  BY DEF HandledLate
<1>2. RecOK'
  BY <1>1, WriteKeeps DEF AdoptsUnattended, Ends
<1>3. \A v \in work' : v.by \in Joins => v \in work
  <2>1. w \in Work
    BY <1>1, WorkTypes DEF JoinInv
  <2>2. [w EXCEPT !.e.status = "approved"].by \notin Joins
    BY <1>1, <2>1, Facts DEF Work
  <2> QED
    BY <1>1, <2>2 DEF AdoptsUnattended, Ends
<1> QED
  BY <1>1, <1>2, <1>3, Facts
     DEF Kept, HandledLate, TypeOK, WorkIsAttempted, WorkIsAwaited

\* The node restarts, or its operator decides.
LEMMA OtherKeeps ==
  ASSUME JoinInv, Restart \/ OperatorAdopts \/ OperatorRejects \/ Decommission
  PROVE  Kept
<1>1. CASE Restart
  <2>1. RecOK' /\ \A w \in work' : w.by \notin Joins
    BY <1>1, LeaveKeeps DEF Restart
  <2> QED
    BY <1>1, <2>1, Facts
       DEF Kept, Restart, TypeOK, States, WorkIsAttempted, WorkIsAwaited
<1>2. CASE OperatorAdopts \/ OperatorRejects
  <2>1. {"approved", "rejected"} \subseteq Statuses \ {"pending_verification"}
    BY DEF Statuses, Trusted
  <2>2. RecOK' /\ \E new : work' = work \cup {new} /\ new.by = Operator
    BY <1>2, <2>1, ReadKeeps DEF OperatorAdopts, OperatorRejects, Adopt, Reject
  <2>3. PICK new : work' = work \cup {new} /\ new.by = Operator
    BY <2>2
  <2> QED
    BY <1>2, <2>2, <2>3, Facts
       DEF Kept, OperatorAdopts, OperatorRejects, TypeOK, WorkIsAttempted,
           WorkIsAwaited
<1>3. CASE Decommission
  <2>1. RecOK'
    BY <1>3, Facts DEF Decommission, RecOK, TrustIsAdopted, AcksAreAdopted
  <2> QED
    BY <1>3, <2>1, Facts DEF Kept, Decommission, TypeOK, WorkIsAttempted, WorkIsAwaited
<1> QED
  BY <1>1, <1>2, <1>3

LEMMA NextInv == JoinInv /\ [Next]_vars => JoinInv'
<1> SUFFICES ASSUME JoinInv, [Next]_vars PROVE JoinInv'
  OBVIOUS
<1>1. CASE Next
  <2>1. alone' \in BOOLEAN
    BY <1>1 DEF Next
  <2>2. Kept
    BY <1>1, ClientKeeps, ServedLateKeeps, HandledLateKeeps, OtherKeeps DEF Next
  <2> QED
    BY <2>1, <2>2, KeptInv
<1>2. CASE UNCHANGED vars
  BY <1>2
     DEF vars, joinVars, JoinInv, TypeOK, TrustIsAdopted, AcksAreAdopted,
         WorkIsAttempted, WorkIsAwaited
<1> QED
  BY <1>1, <1>2

LEMMA Invariance == Spec => []JoinInv
<1>1. Init => JoinInv
  BY InitInv
<1>2. JoinInv /\ [Next]_vars => JoinInv'
  BY NextInv
<1> QED
  BY <1>1, <1>2, PTL DEF Spec

\* The exchange is well typed, whatever is lost, late or repeated: in particular
\* a fresh id and challenge are drawn only when there is one (Service.Request).
THEOREM TypeCorrect == Spec => []TypeOK
<1>1. JoinInv => TypeOK
  BY DEF JoinInv
<1> QED
  BY <1>1, Invariance, PTL

-----------------------------------------------------------------------------
(* Credentials *)

\* Only an answered ack brings them, and what it answers is trusted.
LEMMA AnsweredAck ==
  ASSUME JoinInv, Next, NEW j \in Joins, acked'[j] \in Trusted, acked'[j] # acked[j]
  PROVE  att[j].id \in adopted
<1>1. acked \in [Joins -> Statuses \cup {None}] /\ None \notin Trusted
  BY NoneAssumption, Facts DEF TypeOK, Statuses
<1>2. PICK i \in Joins : ClientStep(i)
  <2>1. CASE \/ \E m \in late : ServedLate(m)
             \/ HandledLate(None) \/ HandledLate(Operator)
             \/ Restart \/ OperatorAdopts \/ OperatorRejects \/ Decommission
    BY <1>1, <2>1
       DEF ServedLate, HandledLate, Restart, OperatorAdopts, OperatorRejects,
           Decommission
  <2> QED
    BY <2>1 DEF Next
<1>3. CASE Acking(i)
  <2>1. /\ Enrolled(att[i].id)
        /\ acked' = [acked EXCEPT ![i] = rec.status]
    BY <1>1, <1>3 DEF Acking
  <2> QED
    BY <1>1, <2>1, Facts DEF Enrolled, RecOK, TrustIsAdopted
<1>4. CASE Handled(i)
  <2>1. PICK w \in work :
          /\ w.by = i /\ Ends(w)
          /\ acked' = [acked EXCEPT ![i] = w.e.status]
          /\ Answers(i, After(w.e.status)) /\ pc'[i] = "active"
    BY <1>1, <1>4 DEF Handled
  <2>2. i = j /\ w.e.status \in Trusted
    BY <1>1, <2>1
  <2>3. w.e.status # "approved"
    BY <2>1, Facts DEF Answers, Moves, After, TypeOK
  <2>4. w.e.status = "active"
    BY <2>2, <2>3 DEF Trusted
  <2> QED
    BY <2>1, <2>2, <2>4, Facts DEF RecOK, AcksAreAdopted, WorkIsAttempted
<1>5. CASE ~ Acking(i) /\ ~ Handled(i)
  BY <1>1, <1>2, <1>5
     DEF ClientStep, Start, StartTimed, Begins, Requested, Verifying, Polled,
         CallFails, TimesOut, GivesUp
<1> QED
  BY <1>3, <1>4, <1>5

\* Whoever ends a join with a certificate ends it for an enrollment whose adoption
\* stands (result and Ack in internal/enrollment), for any number of joins of the
\* device, of late calls and of handlers under way: a request or a rejection
\* undoes it, except while an ack that has read it is to be written.
THEOREM CredentialsAreForAdopted == Spec => CredentialsNeedAdoption
<1>1. ASSUME JoinInv, [Next]_vars
      PROVE  [\A j \in Joins : acked'[j] \in Trusted /\ acked'[j] # acked[j]
                => att[j].id \in adopted]_vars
  <2>1. CASE UNCHANGED vars
    BY <2>1
  <2>2. CASE Next
    BY <1>1, <2>2, AnsweredAck
  <2> QED
    BY <1>1, <2>1, <2>2
<1> QED
  BY <1>1, Invariance, PTL DEF Spec, CredentialsNeedAdoption

-----------------------------------------------------------------------------
(* The wait for an approval *)

\* Undisturbed: no call is left to be served, no handler answers nobody, and no
\* join over the API has begun.
Undisturbed ==
  alone => /\ late = {} /\ \A w \in work : w.by # None
           /\ \A j \in Timed : pc[j] = "unclaimed"

WaitInv == JoinInv /\ Undisturbed /\ WaitCanEnd

\* What a handler writes need not be verified once more.
LEMMA WrittenVerified ==
  ASSUME JoinInv, NEW w \in work, Write(w.e)
  PROVE  rec' = rec \/ rec'.status # "pending_verification"
BY WorkTypes DEF Write, Save, JoinInv

\* Of an undisturbed device only the boot join takes steps, and none of them
\* leaves it waiting for an enrollment that is to be verified once more.
LEMMA ClientWaits ==
  ASSUME WaitInv, \A j, k \in Joins \ Timed : j = k,
         NEW i \in Joins, ClientStep(i), alone, alone',
         Undisturbed'
  PROVE  WaitCanEnd'
<1> SUFFICES ASSUME NEW j \in Joins, pc'[j] = "waiting", Enrolled(att[j].id)'
             PROVE  rec'.status # "pending_verification"
  BY DEF WaitCanEnd
<1>1. /\ pc \in [Joins -> States] /\ Timed \subseteq Joins
      /\ \A w \in work : w.by \in Joins => pc[w.by] \in {"verifying", "acking"}
  BY JoinAssumption, Facts DEF WaitInv, JoinInv, TypeOK, WorkIsAwaited
<1>2. i \notin Timed
  <2>1. i \in Timed => pc[i] = "unclaimed" /\ ~ Handled(i)
    BY <1>1 DEF WaitInv, Undisturbed, Handled
  <2> QED
    BY <1>1, <2>1
       DEF Undisturbed, ClientStep, Start, StartTimed, Begins, Requested, Verifying,
           Polled, Acking, CallFails, TimesOut, GivesUp, Moves, Calling
<1>3. j \notin Timed
  BY DEF Undisturbed
<1>4. i = j
  BY <1>2, <1>3
<1>5. CASE Handled(j)
  <2>1. PICK w \in work : w.by = j /\ Write(w.e)
    BY <1>5 DEF Handled, AdoptsUnattended, Ends
  <2>2. pc[j] # "waiting"
    BY <1>1, <2>1
  <2>3. PICK v \in work : Ends(v) /\ Enrolled(v.e.id)
    BY <1>1, <1>5, <2>2 DEF Handled, Moves
  <2> QED
    BY <2>3, WorkTypes DEF Ends, Write, Save, WaitInv, JoinInv
<1>6. CASE ~ Handled(j)
  BY <1>1, <1>2, <1>4, <1>6
     DEF ClientStep, Start, StartTimed, Begins, Requested, Verifying, Polled, Acking,
         CallFails, TimesOut, GivesUp, Answers, Moves, Calling
<1> QED
  BY <1>5, <1>6

LEMMA WaitStep ==
  ASSUME WaitInv, Next, \A j, k \in Joins \ Timed : j = k
  PROVE  WaitInv'
<1>1. JoinInv'
  BY NextInv DEF WaitInv
<1>2. Undisturbed'
  BY DEF Next, Undisturbed
<1>3. CASE ~ alone'
  BY <1>1, <1>2, <1>3 DEF WaitInv, WaitCanEnd
<1>4. CASE alone'
  <2>1. alone /\ late = {} /\ \A w \in work : w.by # None
    BY <1>4 DEF Next, WaitInv, Undisturbed
  <2>2. CASE \E i \in Joins : ClientStep(i)
    BY <1>1, <1>2, <1>4, <2>1, <2>2, ClientWaits DEF WaitInv
  <2>3. CASE HandledLate(None) \/ HandledLate(Operator)
    <3>1. PICK w \in work : Write(w.e)
      BY <2>3 DEF HandledLate, AdoptsUnattended, Ends
    <3>2. rec' = rec \/ rec'.status # "pending_verification"
      BY <3>1, WrittenVerified DEF WaitInv
    <3>3. UNCHANGED <<pc, att>>
      BY <2>3 DEF HandledLate
    <3>4. WaitCanEnd'
      BY <2>1, <3>2, <3>3 DEF WaitInv, WaitCanEnd, Enrolled
    <3> QED
      BY <1>1, <1>2, <3>4 DEF WaitInv
  <2>4. CASE Restart \/ OperatorAdopts \/ OperatorRejects \/ Decommission
    <3>1. WaitCanEnd'
      BY <2>1, <2>4
         DEF Restart, OperatorAdopts, OperatorRejects, Decommission, WaitInv,
             WaitCanEnd, Enrolled
    <3> QED
      BY <1>1, <1>2, <3>1 DEF WaitInv
  <2> QED
    BY <2>1, <2>2, <2>3, <2>4 DEF Next
<1> QED
  BY <1>3, <1>4

\* A device with one boot join, that nobody asks to join over the API and that
\* has left no call behind, never polls for an approval that cannot come
\* (waitForApproval, which has no deadline).
THEOREM WaitsEnd ==
  ASSUME \A j, k \in Joins \ Timed : j = k
  PROVE  Spec => []WaitCanEnd
<1>1. Init => WaitInv
  BY InitInv, JoinAssumption DEF Init, WaitInv, Undisturbed, WaitCanEnd
<1>2. WaitInv /\ [Next]_vars => WaitInv'
  <2> SUFFICES ASSUME WaitInv, [Next]_vars PROVE WaitInv'
    OBVIOUS
  <2>1. CASE Next
    BY <2>1, WaitStep
  <2>2. CASE UNCHANGED vars
    <3>1. JoinInv'
      BY NextInv DEF WaitInv
    <3> QED
      BY <2>2, <3>1 DEF vars, joinVars, WaitInv, Undisturbed, WaitCanEnd, Enrolled
  <2> QED
    BY <2>1, <2>2
<1>3. WaitInv => WaitCanEnd
  BY DEF WaitInv
<1> QED
  BY <1>1, <1>2, <1>3, PTL DEF Spec

=============================================================================
