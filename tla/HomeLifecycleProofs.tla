------------------------ MODULE HomeLifecycleProofs ------------------------
(***************************************************************************)
(* Theorems about HomeLifecycle, for any sets of Homes and management      *)
(* requests and any number of restarts and failures.                       *)
(***************************************************************************)
EXTENDS HomeLifecycle, TLAPS

USE HomeAssumption, TaskAssumption

-----------------------------------------------------------------------------
(* What a step does to the tasks *)

\* Task t goes on with step s, about Home h, and nothing else happens to a task.
Moved(t, s, h, seen, next, fallback) ==
  /\ task' \in [Tasks -> Work]
  /\ task'[t].step = s /\ task'[t].home = h /\ task'[t].seen = seen
  /\ task'[t].then = next /\ task'[t].fallback = fallback
  /\ \A u \in Tasks \ {t} : task'[u] = task[u]

LEMMA MovedTo ==
  ASSUME task \in [Tasks -> Work], NEW t \in Tasks, NEW w \in Work,
         task' = [task EXCEPT ![t] = w]
  PROVE  Moved(t, w.step, w.home, w.seen, w.then, w.fallback)
BY DEF Moved

LEMMA WorkFields ==
  ASSUME NEW w \in Work
  PROVE  /\ w.step \in Steps /\ w.home \in Homes \cup {None}
         /\ w.seen \in Homes \cup {None} /\ w.then \in Steps
         /\ w.fallback \in BOOLEAN
BY DEF Work

LEMMA TaskIds ==
  /\ Main \in Tasks /\ Sync \in Tasks /\ APTask \in Tasks
  /\ Joining \subseteq Tasks /\ Requests \subseteq Tasks
BY DEF Tasks

LEMMA StepNames ==
  /\ {"done", "boot", "start", "posture_read", "posture_apply", "select",
      "select_list", "select_set", "select_apply", "retire_read", "retire_set",
      "disable", "onboard", "onboard_decide"} \subseteq Steps
  /\ {"enroll", "record", "store_profile", "join_apply", "claim", "start_sync",
      "sync", "sync_store", "sync_apply", "ap_read", "ap_enable", "set_write",
      "set_apply", "delete_write", "post_apply"} \subseteq Steps
  /\ Joined \in Steps
  /\ \A t : AfterSelect(t) \in Steps
BY DEF Steps, Joined, AfterSelect

LEMMA IdleFields ==
  /\ Idle \in Work
  /\ Idle.step = "done" /\ Idle.home = None /\ Idle.seen = None
  /\ Idle.then = "done" /\ Idle.fallback = FALSE
  /\ \A s \in Steps :
       /\ [Idle EXCEPT !.step = s] \in Work
       /\ [Idle EXCEPT !.step = s].step = s
       /\ [Idle EXCEPT !.step = s].home = None
       /\ [Idle EXCEPT !.step = s].seen = None
       /\ [Idle EXCEPT !.step = s].then = "done"
       /\ [Idle EXCEPT !.step = s].fallback = FALSE
<1>1. "done" \in Steps
  BY StepNames
<1> QED
  BY <1>1 DEF Idle, Work

LEMMA GoesMoves ==
  ASSUME task \in [Tasks -> Work], NEW t \in Tasks, NEW s \in Steps, Goes(t, s)
  PROVE  Moved(t, s, task[t].home, task[t].seen, task[t].then, task[t].fallback)
<1> DEFINE w == [task[t] EXCEPT !.step = s]
<1>1. task[t] \in Work
  OBVIOUS
<1>2. /\ w \in Work /\ w.step = s /\ w.home = task[t].home
      /\ w.seen = task[t].seen /\ w.then = task[t].then
      /\ w.fallback = task[t].fallback
  BY <1>1 DEF Work
<1>3. task' = [task EXCEPT ![t] = w]
  BY DEF Goes
<1> HIDE DEF w
<1>4. Moved(t, w.step, w.home, w.seen, w.then, w.fallback)
  BY <1>2, <1>3, MovedTo
<1> QED
  BY <1>2, <1>4

LEMMA GoesForMoves ==
  ASSUME task \in [Tasks -> Work], NEW t \in Tasks, NEW s \in Steps,
         NEW h \in Homes \cup {None}, GoesFor(t, s, h)
  PROVE  Moved(t, s, h, task[t].seen, task[t].then, task[t].fallback)
<1> DEFINE w == [task[t] EXCEPT !.step = s, !.home = h]
<1>1. task[t] \in Work
  OBVIOUS
<1>2. /\ w \in Work /\ w.step = s /\ w.home = h
      /\ w.seen = task[t].seen /\ w.then = task[t].then
      /\ w.fallback = task[t].fallback
  BY <1>1 DEF Work
<1>3. task' = [task EXCEPT ![t] = w]
  BY DEF GoesFor
<1> HIDE DEF w
<1>4. Moved(t, w.step, w.home, w.seen, w.then, w.fallback)
  BY <1>2, <1>3, MovedTo
<1> QED
  BY <1>2, <1>4

LEMMA ThenMoves ==
  ASSUME task \in [Tasks -> Work], NEW t \in Tasks, NEW s \in Steps, NEW next \in Steps,
         task' = [task EXCEPT ![t].step = s, ![t].then = next]
  PROVE  Moved(t, s, task[t].home, task[t].seen, next, task[t].fallback)
<1> DEFINE w == [task[t] EXCEPT !.step = s, !.then = next]
<1>1. task[t] \in Work
  OBVIOUS
<1>2. /\ w \in Work /\ w.step = s /\ w.home = task[t].home
      /\ w.seen = task[t].seen /\ w.then = next
      /\ w.fallback = task[t].fallback
  BY <1>1 DEF Work
<1>3. task' = [task EXCEPT ![t] = w]
  OBVIOUS
<1> HIDE DEF w
<1>4. Moved(t, w.step, w.home, w.seen, w.then, w.fallback)
  BY <1>2, <1>3, MovedTo
<1> QED
  BY <1>2, <1>4

LEMMA PosturesMoves ==
  ASSUME task \in [Tasks -> Work], NEW t \in Tasks, NEW next \in Steps,
         Postures(t, next)
  PROVE  Moved(t, "posture_read", task[t].home, task[t].seen, next, task[t].fallback)
BY StepNames, ThenMoves DEF Postures

LEMMA EndsMoves ==
  ASSUME task \in [Tasks -> Work], NEW t \in Tasks, Ends(t)
  PROVE  Moved(t, "done", None, None, "done", FALSE)
<1>1. Moved(t, Idle.step, Idle.home, Idle.seen, Idle.then, Idle.fallback)
  BY IdleFields, MovedTo DEF Ends
<1> QED
  BY <1>1, IdleFields

LEMMA ReadMoves ==
  ASSUME TypeOK, NEW t \in Tasks, PostureRead(t)
  PROVE  Moved(t, "posture_apply", task[t].home, active, task[t].then,
               task[t].fallback)
<1> DEFINE w == [task[t] EXCEPT !.step = "posture_apply", !.seen = active]
<1>1. task[t] \in Work /\ active \in Homes \cup {None} /\ task \in [Tasks -> Work]
  BY DEF TypeOK
<1>2. /\ w \in Work /\ w.step = "posture_apply" /\ w.home = task[t].home
      /\ w.seen = active /\ w.then = task[t].then
      /\ w.fallback = task[t].fallback
  BY <1>1, StepNames DEF Work
<1>3. task' = [task EXCEPT ![t] = w]
  BY DEF PostureRead
<1> HIDE DEF w
<1>4. Moved(t, w.step, w.home, w.seen, w.then, w.fallback)
  BY <1>1, <1>2, <1>3, MovedTo
<1> QED
  BY <1>2, <1>4

LEMMA FallbackMoves ==
  ASSUME task \in [Tasks -> Work], NEW t \in Tasks,
         task' = [task EXCEPT ![t].step = "select", ![t].fallback = TRUE]
  PROVE  Moved(t, "select", task[t].home, task[t].seen, task[t].then, TRUE)
<1> DEFINE w == [task[t] EXCEPT !.step = "select", !.fallback = TRUE]
<1>1. task[t] \in Work
  OBVIOUS
<1>2. /\ w \in Work /\ w.step = "select" /\ w.home = task[t].home
      /\ w.seen = task[t].seen /\ w.then = task[t].then
      /\ w.fallback = TRUE
  BY <1>1, StepNames DEF Work
<1>3. task' = [task EXCEPT ![t] = w]
  OBVIOUS
<1> HIDE DEF w
<1>4. Moved(t, w.step, w.home, w.seen, w.then, w.fallback)
  BY <1>2, <1>3, MovedTo
<1> QED
  BY <1>2, <1>4

LEMMA DecidesMoves ==
  ASSUME task \in [Tasks -> Work],
         task' = [task EXCEPT ![Main] = [Idle EXCEPT !.step = "onboard_decide"]]
  PROVE  Moved(Main, "onboard_decide", None, None, "done", FALSE)
<1> DEFINE w == [Idle EXCEPT !.step = "onboard_decide"]
<1>1. /\ w \in Work /\ w.step = "onboard_decide" /\ w.home = None
      /\ w.seen = None /\ w.then = "done" /\ w.fallback = FALSE
  BY StepNames, IdleFields
<1> HIDE DEF w
<1>2. Moved(Main, w.step, w.home, w.seen, w.then, w.fallback)
  BY <1>1, TaskIds, MovedTo DEF w
<1> QED
  BY <1>1, <1>2

\* main starts the goroutines of the mode.
LEMMA StartMoves ==
  ASSUME task \in [Tasks -> Work], Start
  PROVE  /\ task' \in [Tasks -> Work]
         /\ \A t \in Tasks :
              /\ task'[t].step = Started(t)
              /\ task'[t].home = IF t \in Joining THEN t ELSE task[t].home
              /\ task'[t].seen = task[t].seen /\ task'[t].then = task[t].then
              /\ task'[t].fallback = task[t].fallback
<1> DEFINE w(t) == [task[t] EXCEPT !.step = Started(t),
                                   !.home = IF t \in Joining THEN t ELSE @]
<1>1. ASSUME NEW t \in Tasks
      PROVE  /\ w(t) \in Work /\ w(t).step = Started(t)
             /\ w(t).home = IF t \in Joining THEN t ELSE task[t].home
             /\ w(t).seen = task[t].seen /\ w(t).then = task[t].then
             /\ w(t).fallback = task[t].fallback
  <2>1. task[t] \in Work /\ task[t].step \in Steps
    BY WorkFields
  <2>2. Started(t) \in Steps
    BY <2>1, StepNames DEF Started
  <2>3. (IF t \in Joining THEN t ELSE task[t].home) \in Homes \cup {None}
    BY <2>1, WorkFields DEF Homes
  <2> QED
    BY <2>1, <2>2, <2>3 DEF Work
<1>2. task' = [t \in Tasks |-> w(t)]
  BY DEF Start
<1> HIDE DEF w
<1> QED
  BY <1>1, <1>2

\* A daemon that starts does nothing but boot.
Stopped ==
  /\ task \in [Tasks -> Work]
  /\ task[Main].step = "boot"
  /\ \A t \in Tasks \ {Main} : task[t].step = "done"
  /\ \A t \in Tasks : task[t].then = "done" /\ task[t].fallback = FALSE

LEMMA StoppedInit == Init => Stopped
<1> DEFINE boot == [Idle EXCEPT !.step = "boot"]
<1>1. /\ boot \in Work /\ boot.step = "boot" /\ boot.then = "done"
      /\ boot.fallback = FALSE
  BY StepNames, IdleFields
<1>2. Init => task = [t \in Tasks |-> IF t = Main THEN boot ELSE Idle]
  BY DEF Init
<1> HIDE DEF boot
<1> QED
  BY <1>1, <1>2, IdleFields, TaskIds DEF Stopped

LEMMA StoppedCrash == Crash => Stopped'
<1> DEFINE boot == [Idle EXCEPT !.step = "boot"]
<1>1. /\ boot \in Work /\ boot.step = "boot" /\ boot.then = "done"
      /\ boot.fallback = FALSE
  BY StepNames, IdleFields
<1>2. Crash => task' = [t \in Tasks |-> IF t = Main THEN boot ELSE Idle]
  BY DEF Crash
<1> HIDE DEF boot
<1> QED
  BY <1>1, <1>2, IdleFields, TaskIds DEF Stopped

LEMMA PostureApplyMoves ==
  ASSUME TypeOK, NEW t \in Tasks, PostureApply(t)
  PROVE  \/ task[t].then = "done" /\ Moved(t, "done", None, None, "done", FALSE)
         \/ /\ task[t].then # "done"
            /\ Moved(t, task[t].then, task[t].home, task[t].seen, task[t].then,
                     task[t].fallback)
<1>1. task \in [Tasks -> Work] /\ task[t].then \in Steps
  BY WorkFields DEF TypeOK
<1> QED
  BY <1>1, EndsMoves, GoesMoves DEF PostureApply

\* To step s, about the same Home.
Stays(t, s) ==
  Moved(t, s, task[t].home, task[t].seen, task[t].then, task[t].fallback)

\* To step s, which ends with step next.
StaysThen(t, s, next) ==
  Moved(t, s, task[t].home, task[t].seen, next, task[t].fallback)

LEMMA SelectionMoves ==
  ASSUME TypeOK, NEW t \in Tasks
  PROVE  /\ Select(t) =>
              \/ active # None /\ StaysThen(t, "posture_read", AfterSelect(t))
              \/ active = None /\ Stays(t, "select_list")
         /\ SelectList(t) =>
              \/ homes = {} /\ StaysThen(t, "posture_read", AfterSelect(t))
              \/ \E h \in Best(homes) :
                   Moved(t, "select_set", h, task[t].seen, task[t].then,
                         task[t].fallback)
         /\ SelectSet(t) =>
              Stays(t, IF task[t].fallback THEN "retire_read" ELSE "select_apply")
         /\ RetireRead(t) => Stays(t, IF complete THEN "select_apply" ELSE "retire_set")
         /\ RetireSet(t) => StaysThen(t, "disable", "select_apply")
         /\ Disable(t) => Stays(t, "posture_read")
         /\ SelectApply(t) => StaysThen(t, "posture_read", AfterSelect(t))
<1> USE StepNames DEF Stays, StaysThen
<1>1. task \in [Tasks -> Work] /\ Best(homes) \subseteq Homes
  BY DEF TypeOK, Best
<1>2. Select(t) => \/ active # None /\ StaysThen(t, "posture_read", AfterSelect(t))
                   \/ active = None /\ Stays(t, "select_list")
  BY <1>1, PosturesMoves, GoesMoves DEF Select
<1>3. ASSUME SelectList(t)
      PROVE  \/ homes = {} /\ StaysThen(t, "posture_read", AfterSelect(t))
             \/ \E h \in Best(homes) :
                  Moved(t, "select_set", h, task[t].seen, task[t].then,
                        task[t].fallback)
  BY <1>1, <1>3, PosturesMoves, GoesForMoves DEF SelectList
<1>4. ASSUME NEW a \in Steps, NEW b \in Steps, NEW c,
             Goes(t, IF c THEN a ELSE b)
      PROVE  Stays(t, IF c THEN a ELSE b)
  BY <1>1, <1>4, GoesMoves
<1>5. SelectSet(t) =>
        Stays(t, IF task[t].fallback THEN "retire_read" ELSE "select_apply")
  BY <1>4 DEF SelectSet
<1>6. RetireRead(t) => Stays(t, IF complete THEN "select_apply" ELSE "retire_set")
  BY <1>4 DEF RetireRead
<1>7. RetireSet(t) => StaysThen(t, "disable", "select_apply")
  BY <1>1, ThenMoves DEF RetireSet
<1>8. Disable(t) => Stays(t, "posture_read")
  BY <1>1, GoesMoves DEF Disable
<1>9. SelectApply(t) => StaysThen(t, "posture_read", AfterSelect(t))
  BY <1>1, PosturesMoves DEF SelectApply
<1> QED
  BY <1>2, <1>3, <1>5, <1>6, <1>7, <1>8, <1>9

LEMMA JoinMoves ==
  ASSUME TypeOK, NEW t \in Tasks
  PROVE  /\ Enrolled(t) => Stays(t, "record")
         /\ Record(t) => Stays(t, "store_profile")
         /\ StoreProfile(t) => Stays(t, "join_apply")
         /\ JoinApply(t) => Stays(t, Joined)
BY StepNames, GoesMoves DEF TypeOK, Stays, Enrolled, Record, StoreProfile, JoinApply

LEMMA MainMoves ==
  ASSUME TypeOK
  PROVE  /\ Boot => StaysThen(Main, "posture_read", "start")
         /\ OnboardTick =>
              \/ complete /\ Moved(Main, "done", None, None, "done", FALSE)
              \/ ~complete /\ Moved(Main, "onboard_decide", None, None, "done", FALSE)
         /\ OnboardDecide =>
              \/ /\ active = None /\ UNCHANGED rest
                 /\ \E h \in Joining :
                      Moved(Main, "enroll", h, task[Main].seen, task[Main].then,
                            task[Main].fallback)
              \/ /\ active = None /\ fellBack' = TRUE
                 /\ UNCHANGED <<mode, crashes, failures, asked>>
                 /\ Moved(Main, "select", task[Main].home, task[Main].seen,
                          task[Main].then, TRUE)
              \/ active # None /\ UNCHANGED rest /\ Stays(Main, "onboard")
         /\ Claim => StaysThen(Main, "disable", "start_sync")
         /\ EnrollFails => Stays(Main, "onboard")
<1> USE TaskIds, StepNames DEF Stays, StaysThen
<1>1. task \in [Tasks -> Work] /\ Joining \subseteq Homes
  BY DEF TypeOK, Homes
<1>2. Boot => StaysThen(Main, "posture_read", "start")
  BY <1>1, PosturesMoves DEF Boot
<1>3. OnboardTick =>
        \/ complete /\ Moved(Main, "done", None, None, "done", FALSE)
        \/ ~complete /\ Moved(Main, "onboard_decide", None, None, "done", FALSE)
  BY <1>1, EndsMoves, DecidesMoves DEF OnboardTick
<1>4. ASSUME NEW h \in Joining, GoesFor(Main, "enroll", h)
      PROVE  Moved(Main, "enroll", h, task[Main].seen, task[Main].then,
                   task[Main].fallback)
  BY <1>1, <1>4, GoesForMoves
<1>5. ASSUME task' = [task EXCEPT ![Main].step = "select", ![Main].fallback = TRUE]
      PROVE  Moved(Main, "select", task[Main].home, task[Main].seen,
                   task[Main].then, TRUE)
  BY <1>1, <1>5, FallbackMoves
<1>6. Goes(Main, "onboard") => Stays(Main, "onboard")
  BY <1>1, GoesMoves
<1>7. Claim => StaysThen(Main, "disable", "start_sync")
  BY <1>1, ThenMoves DEF Claim
<1>8. EnrollFails => Stays(Main, "onboard")
  BY <1>6 DEF EnrollFails
<1> QED
  BY <1>2, <1>3, <1>4, <1>5, <1>6, <1>7, <1>8 DEF OnboardDecide

\* The profile sync of a node that joined starts after its selection's turn came.
LEMMA StartSyncMoves ==
  ASSUME TypeOK, StartSync
  PROVE  /\ task' \in [Tasks -> Work]
         /\ task'[Main].step = "select" /\ task'[Main].then = task[Main].then
         /\ task'[Main].fallback = task[Main].fallback
         /\ task'[Sync].step = "sync" /\ task'[Sync].then = task[Sync].then
         /\ \A t \in Tasks \ {Main, Sync} : task'[t] = task[t]
<1> DEFINE main == [task[Main] EXCEPT !.step = "select"]
           sync == [task[Sync] EXCEPT !.step = "sync"]
<1>1. /\ task \in [Tasks -> Work] /\ Main \in Tasks /\ Sync \in Tasks
      /\ task[Main] \in Work /\ task[Sync] \in Work
  BY TaskIds DEF TypeOK
<1>2. /\ main \in Work /\ main.step = "select" /\ main.then = task[Main].then
      /\ main.fallback = task[Main].fallback
      /\ sync \in Work /\ sync.step = "sync" /\ sync.then = task[Sync].then
  BY <1>1, StepNames DEF Work
<1>3. task' = [task EXCEPT ![Main] = main, ![Sync] = sync]
  BY DEF StartSync
<1> HIDE DEF main, sync
<1> QED
  BY <1>1, <1>2, <1>3

-----------------------------------------------------------------------------
(* Type correctness *)

\* What a task does that is about to write a Home: it is about one.
Writes == {"select_set", "enroll", "record", "store_profile", "sync_store"}

\* No task starts with these after it has applied a posture.
Later == Writes \cup {"select_list"}

HomeNamed ==
  \A t \in Tasks :
    /\ task[t].step \in Writes => task[t].home \in Homes
    /\ task[t].then \notin Later

TypeInv == TypeOK /\ HomeNamed

LEMMA TypeInit == Init => TypeInv
<1>1. Init => task \in [Tasks -> Work]
  BY StoppedInit DEF Stopped
<1>2. Init => /\ homes = {} /\ profiles = {} /\ active = None /\ complete = FALSE
              /\ applied = None /\ posture = "stock" /\ setupAP = FALSE
              /\ mode \in Modes /\ fellBack = FALSE /\ crashes = 0 /\ failures = 0
              /\ asked = FALSE
  BY DEF Init
<1>3. Init => HomeNamed
  <2>1. ASSUME Init, NEW t \in Tasks
        PROVE  task[t].step \notin Writes /\ task[t].then \notin Later
    BY <2>1, StoppedInit DEF Stopped, Later, Writes
  <2> QED
    BY <2>1 DEF HomeNamed
<1>4. Init => /\ homes \subseteq Homes /\ profiles \subseteq Homes
              /\ active \in Homes \cup {None} /\ applied \in Homes \cup {None}
              /\ posture \in {"stock", "guest", "controller", "mesh_node"}
              /\ mode \in Modes
              /\ crashes \in 0 .. MaxCrashes /\ failures \in 0 .. MaxFailures
  BY <1>2
<1>5. Init => /\ complete \in BOOLEAN /\ setupAP \in BOOLEAN /\ fellBack \in BOOLEAN
              /\ asked \in BOOLEAN
  BY <1>2, Zenon
<1> QED
  BY <1>1, <1>3, <1>4, <1>5 DEF TypeInv, TypeOK

\* Naming a Home is kept by a step that writes no Home next, or that names one.
LEMMA NamedKept ==
  ASSUME HomeNamed, NEW t \in Tasks, NEW s, NEW h, NEW seen, NEW next, NEW fallback,
         Moved(t, s, h, seen, next, fallback),
         s \in Writes => h \in Homes, next \notin Later
  PROVE  HomeNamed'
BY DEF HomeNamed, Moved

LEMMA StaysNamed ==
  ASSUME HomeNamed, NEW t \in Tasks, NEW s, NEW next
  PROVE  /\ Stays(t, s) /\ (s \in Writes => task[t].home \in Homes) => HomeNamed'
         /\ StaysThen(t, s, next) /\ s \notin Writes /\ next \notin Later => HomeNamed'
BY NamedKept DEF HomeNamed, Stays, StaysThen

LEMMA PostureTypes ==
  ASSUME TypeInv, NEW t \in Tasks, Posture(t)
  PROVE  TypeInv'
<1> USE DEF TypeInv
<1>1. CASE PostureRead(t)
  <2>1. Moved(t, "posture_apply", task[t].home, active, task[t].then,
              task[t].fallback)
    BY <1>1, ReadMoves
  <2>2. HomeNamed'
    BY <2>1, NamedKept DEF Later, Writes, HomeNamed
  <2> QED
    BY <1>1, <2>1, <2>2 DEF PostureRead, Moved, TypeOK, store, device, rest
<1>2. CASE PostureApply(t)
  <2>1. posture' \in {"guest", "controller", "mesh_node"}
    BY <1>2 DEF PostureApply, DecideRole
  <2>2. task' \in [Tasks -> Work]
    BY <1>2, PostureApplyMoves DEF Moved
  <2>3. task[t].then \notin Later
    BY DEF HomeNamed
  <2>4. HomeNamed'
    BY <1>2, <2>3, PostureApplyMoves, NamedKept DEF Later, Writes
  <2> QED
    BY <1>2, <2>1, <2>2, <2>4 DEF PostureApply, TypeOK, store, rest
<1> QED
  BY <1>1, <1>2 DEF Posture

LEMMA SelectionTypes ==
  ASSUME TypeInv, NEW t \in Tasks, Selection(t) \/ Disable(t)
  PROVE  TypeInv'
<1>1. /\ TypeOK /\ HomeNamed /\ Best(homes) \subseteq Homes
      /\ task[t].home \in Homes \cup {None} /\ task[t].then \notin Later
      /\ AfterSelect(t) \notin Later
  BY WorkFields DEF TypeInv, TypeOK, HomeNamed, Best, AfterSelect, Later, Writes
<1>2. task' \in [Tasks -> Work]
  BY <1>1, SelectionMoves DEF Selection, Stays, StaysThen, Moved
<1>3. HomeNamed'
  <2>1. CASE SelectList(t)
    <3>1. ASSUME NEW h \in Best(homes),
                 Moved(t, "select_set", h, task[t].seen, task[t].then, task[t].fallback)
          PROVE  HomeNamed'
      BY <1>1, <3>1, NamedKept
    <3> QED
      BY <1>1, <2>1, <3>1, SelectionMoves, StaysNamed DEF Later, Writes
  <2>2. CASE SelectSet(t) \/ RetireRead(t)
    <3>1. \E s \in {"retire_read", "retire_set", "select_apply"} : Stays(t, s)
      BY <1>1, <2>2, SelectionMoves
    <3> QED
      BY <1>1, <3>1, StaysNamed DEF Later, Writes
  <2>3. CASE Select(t) \/ RetireSet(t) \/ Disable(t) \/ SelectApply(t)
    BY <1>1, <2>3, SelectionMoves, StaysNamed DEF Later, Writes
  <2> QED
    BY <2>1, <2>2, <2>3 DEF Selection
<1>4. /\ active' \in Homes \cup {None} /\ applied' \in Homes \cup {None}
      /\ complete' \in BOOLEAN /\ setupAP' \in BOOLEAN
      /\ UNCHANGED <<homes, profiles, posture, rest>>
  BY <1>1 DEF Selection, Select, SelectList, SelectSet, RetireRead, RetireSet,
     SelectApply, ApplyFor, Disable, TypeOK, store, device
<1> QED
  BY <1>1, <1>2, <1>3, <1>4 DEF TypeInv, TypeOK, rest

LEMMA FailsTypes ==
  ASSUME TypeOK, Fails
  PROVE  /\ failures' \in 0 .. MaxFailures
         /\ mode' = mode /\ fellBack' = fellBack /\ crashes' = crashes
         /\ asked' = asked
BY DEF TypeOK, Fails

LEMMA JoinTypes ==
  ASSUME TypeInv, NEW t \in Tasks, Join(t)
  PROVE  TypeInv'
<1>1. /\ TypeOK /\ HomeNamed
      /\ task[t].step \in Writes => task[t].home \in Homes
      /\ task[t].home \in Homes \cup {None}
  BY WorkFields DEF TypeInv, TypeOK, HomeNamed
<1>2. task' \in [Tasks -> Work]
  BY <1>1, JoinMoves DEF Join, Stays, Moved
<1>3. HomeNamed'
  <2>1. CASE Enrolled(t) \/ Record(t) \/ StoreProfile(t)
    <3>1. task[t].home \in Homes
      BY <1>1, <2>1 DEF Enrolled, Record, StoreProfile, At, Writes
    <3> QED
      BY <1>1, <2>1, <3>1, JoinMoves, StaysNamed
  <2>2. CASE JoinApply(t)
    <3>1. Joined \notin Writes
      BY DEF Joined, Writes
    <3> QED
      BY <1>1, <2>2, <3>1, JoinMoves, StaysNamed
  <2> QED
    BY <2>1, <2>2 DEF Join
<1>4. /\ homes' \subseteq Homes /\ profiles' \subseteq Homes
      /\ applied' \in Homes \cup {None}
      /\ UNCHANGED <<active, complete, posture, setupAP>>
  BY <1>1 DEF Join, Enrolled, Record, StoreProfile, JoinApply, At, Writes, TypeOK,
     store, device
<1>5. failures' \in 0 .. MaxFailures /\ UNCHANGED <<mode, fellBack, crashes, asked>>
  BY <1>1, FailsTypes
  DEF Join, Enrolled, Record, StoreProfile, JoinApply, TypeOK, rest
<1> QED
  BY <1>1, <1>2, <1>3, <1>4, <1>5 DEF TypeInv, TypeOK

LEMMA MainTypes ==
  ASSUME TypeInv, MainStep \/ EnrollFails
  PROVE  TypeInv'
<1>1. /\ task \in [Tasks -> Work] /\ TypeOK /\ HomeNamed /\ Main \in Tasks
      /\ task[Main].then \notin Later
  BY TaskIds DEF TypeInv, TypeOK, HomeNamed
<1>2. CASE Boot \/ Claim \/ EnrollFails \/ OnboardTick
  <2>1. task' \in [Tasks -> Work]
    BY <1>1, <1>2, MainMoves DEF Stays, StaysThen, Moved
  <2>2. HomeNamed'
    BY <1>1, <1>2, MainMoves, StaysNamed, NamedKept DEF Later, Writes
  <2>3. /\ homes' \subseteq Homes /\ profiles' \subseteq Homes
        /\ complete' \in BOOLEAN
        /\ UNCHANGED <<active, device>>
    BY <1>1, <1>2
    DEF Boot, Claim, EnrollFails, OnboardTick, TypeOK, Homes, store, device
  <2>4. failures' \in 0 .. MaxFailures /\ UNCHANGED <<mode, fellBack, crashes, asked>>
    BY <1>1, <1>2, FailsTypes DEF Boot, Claim, EnrollFails, OnboardTick, TypeOK, rest
  <2> QED
    BY <1>1, <2>1, <2>2, <2>3, <2>4 DEF TypeInv, TypeOK, device
<1>3. CASE Start
  <2>1. TypeOK'
    BY <1>1, <1>3, StartMoves DEF Start, TypeOK, store, device, rest
  <2>2. ASSUME NEW t \in Tasks
        PROVE  /\ task'[t].step \in Writes => task'[t].home \in Homes
               /\ task'[t].then \notin Later
    <3>1. /\ task[t].step \in Writes => task[t].home \in Homes
          /\ task[t].then \notin Later
      BY <1>1 DEF HomeNamed
    <3>2. /\ task'[t].step = Started(t) /\ task'[t].then = task[t].then
          /\ task'[t].home = IF t \in Joining THEN t ELSE task[t].home
      BY <1>1, <1>3, StartMoves
    <3>3. CASE t \in Joining
      BY <3>1, <3>2, <3>3 DEF Homes
    <3>4. CASE t \notin Joining
      BY <3>1, <3>2, <3>4 DEF Started, Later, Writes
    <3> QED
      BY <3>3, <3>4
  <2> QED
    BY <2>1, <2>2 DEF TypeInv, HomeNamed
<1>4. CASE OnboardDecide
  <2>1. task' \in [Tasks -> Work]
    BY <1>1, <1>4, MainMoves DEF Stays, Moved
  <2>2. HomeNamed'
    <3>1. ASSUME NEW h \in Joining,
                 Moved(Main, "enroll", h, task[Main].seen, task[Main].then,
                       task[Main].fallback)
          PROVE  HomeNamed'
      BY <1>1, <3>1, NamedKept DEF Homes
    <3> QED
      BY <1>1, <1>4, <3>1, MainMoves, StaysNamed, NamedKept DEF Later, Writes
  <2>3. /\ fellBack' \in BOOLEAN
        /\ UNCHANGED <<mode, crashes, failures, asked, store, device>>
    BY <1>1, <1>4, MainMoves DEF OnboardDecide, TypeOK, rest
  <2> QED
    BY <1>1, <2>1, <2>2, <2>3 DEF TypeInv, TypeOK, store, device
<1>5. CASE StartSync
  <2>1. HomeNamed'
    BY <1>1, <1>5, StartSyncMoves, TaskIds DEF HomeNamed, Later, Writes
  <2> QED
    BY <1>1, <1>5, <2>1, StartSyncMoves
    DEF StartSync, TypeInv, TypeOK, store, device, rest
<1> QED
  BY <1>1, <1>2, <1>3, <1>4, <1>5, PostureTypes, SelectionTypes, JoinTypes DEF MainStep

LEMMA BackgroundTypes ==
  ASSUME TypeInv, SyncStep \/ SetupAPStep
  PROVE  TypeInv'
<1>1. /\ task \in [Tasks -> Work] /\ TypeOK /\ HomeNamed
      /\ Sync \in Tasks /\ APTask \in Tasks
      /\ task[Sync].home \in Homes \cup {None} /\ task[Sync].then \notin Later
      /\ task[Sync].step \in Writes => task[Sync].home \in Homes
      /\ task[APTask].then \notin Later
  BY WorkFields, TaskIds DEF TypeInv, TypeOK, HomeNamed
<1>2. ASSUME SyncRead, UNCHANGED task
      PROVE  TypeInv'
  BY <1>1, <1>2 DEF SyncRead, TypeInv, TypeOK, HomeNamed, store, device, rest
<1>a. ASSUME SyncRead, GoesFor(Sync, "sync_store", active)
      PROVE  TypeInv'
  <2>1. active \in Homes
    BY <1>a DEF SyncRead, Homes
  <2>2. Moved(Sync, "sync_store", active, task[Sync].seen, task[Sync].then,
              task[Sync].fallback)
    BY <1>1, <1>a, <2>1, StepNames, GoesForMoves
  <2>3. HomeNamed'
    BY <1>1, <2>1, <2>2, NamedKept
  <2> QED
    BY <1>1, <1>a, <2>2, <2>3 DEF SyncRead, Moved, TypeInv, TypeOK, store, device, rest
<1>3. CASE SyncStore
  <2>1. Moved(Sync, "sync_apply", task[Sync].home, task[Sync].seen, task[Sync].then,
              task[Sync].fallback)
    BY <1>1, <1>3, StepNames, GoesMoves DEF SyncStore
  <2>2. HomeNamed'
    BY <1>1, <2>1, NamedKept DEF Later, Writes
  <2>3. task[Sync].home \in Homes
    BY <1>1, <1>3 DEF SyncStore, At, Writes
  <2> QED
    BY <1>1, <1>3, <2>1, <2>2, <2>3
    DEF SyncStore, Moved, TypeInv, TypeOK, device, rest
<1>4. CASE SyncApply
  <2>1. Moved(Sync, "sync", task[Sync].home, task[Sync].seen, task[Sync].then,
              task[Sync].fallback)
    BY <1>1, <1>4, StepNames, GoesMoves DEF SyncApply
  <2>2. HomeNamed'
    BY <1>1, <2>1, NamedKept DEF Later, Writes
  <2> QED
    BY <1>1, <1>4, <2>1, <2>2 DEF SyncApply, Moved, TypeInv, TypeOK, store, rest
<1>5. CASE ReadSetupComplete
  <2>1. CASE complete
    <3>1. Moved(APTask, "done", None, None, "done", FALSE)
      BY <1>1, <1>5, <2>1, EndsMoves DEF ReadSetupComplete
    <3>2. HomeNamed'
      BY <1>1, <3>1, NamedKept DEF Later, Writes
    <3> QED
      BY <1>1, <1>5, <3>1, <3>2
      DEF ReadSetupComplete, Moved, TypeInv, TypeOK, store, device, rest
  <2>2. CASE ~complete
    <3>1. Moved(APTask, "ap_enable", task[APTask].home, task[APTask].seen,
                task[APTask].then, task[APTask].fallback)
      BY <1>1, <1>5, <2>2, StepNames, GoesMoves DEF ReadSetupComplete
    <3>2. HomeNamed'
      BY <1>1, <3>1, NamedKept DEF Later, Writes
    <3> QED
      BY <1>1, <1>5, <3>1, <3>2
      DEF ReadSetupComplete, Moved, TypeInv, TypeOK, store, device, rest
  <2> QED
    BY <2>1, <2>2
<1>6. CASE EnableSetupAP
  <2>1. Moved(APTask, "done", None, None, "done", FALSE)
    BY <1>1, <1>6, EndsMoves DEF EnableSetupAP
  <2>2. HomeNamed'
    BY <1>1, <2>1, NamedKept DEF Later, Writes
  <2> QED
    BY <1>1, <1>6, <2>1, <2>2 DEF EnableSetupAP, Moved, TypeInv, TypeOK, store, rest
<1> QED
  BY <1>2, <1>a, <1>3, <1>4, <1>5, <1>6 DEF SyncStep, SyncRead, SetupAPStep

LEMMA AskedTypes ==
  ASSUME TypeOK, Asked
  PROVE  /\ asked' \in BOOLEAN
         /\ mode' = mode /\ fellBack' = fellBack
         /\ crashes' = crashes /\ failures' = failures
<1>1. asked' = TRUE /\ UNCHANGED <<mode, fellBack, crashes, failures>>
  BY DEF Asked
<1> QED
  BY <1>1, Zenon

LEMMA RequestTypes ==
  ASSUME TypeInv, NEW r \in Requests, Request(r)
  PROVE  TypeInv'
<1>1. /\ task \in [Tasks -> Work] /\ TypeOK /\ HomeNamed /\ r \in Tasks
      /\ task[r].home \in Homes \cup {None} /\ task[r].then \notin Later
  BY WorkFields, TaskIds DEF TypeInv, TypeOK, HomeNamed
<1>2. ASSUME NEW h \in Homes, SetActiveHome(r, h) \/ DeleteHome(r, h)
      PROVE  TypeInv'
  <2> DEFINE s == IF SetActiveHome(r, h) THEN "set_write" ELSE "delete_write"
  <2>1. s \in Steps \ Writes
    BY StepNames DEF Later, Writes
  <2>2. GoesFor(r, s, h) /\ UNCHANGED <<store, device>> /\ Asked
    BY <1>2 DEF SetActiveHome, DeleteHome, Arrives
  <2> HIDE DEF s
  <2>3. Moved(r, s, h, task[r].seen, task[r].then, task[r].fallback)
    BY <1>1, <2>1, <2>2, GoesForMoves
  <2>4. HomeNamed'
    BY <1>1, <2>1, <2>3, NamedKept
  <2> QED
    BY <1>1, <2>2, <2>3, <2>4, AskedTypes DEF Moved, TypeInv, TypeOK, store, device
<1>3. ASSUME NEW h \in Homes, PostProfile(r, h)
      PROVE  TypeInv'
  <2>1. Moved(r, "post_apply", h, task[r].seen, task[r].then, task[r].fallback)
    BY <1>1, <1>3, StepNames, GoesForMoves DEF PostProfile
  <2>2. HomeNamed'
    BY <1>1, <2>1, NamedKept DEF Later, Writes
  <2> QED
    BY <1>1, <1>3, <2>1, <2>2, AskedTypes
    DEF PostProfile, Arrives, Moved, TypeInv, TypeOK, device
<1>4. CASE SetActiveWrite(r)
  <2>1. Moved(r, "set_apply", task[r].home, task[r].seen, task[r].then,
              task[r].fallback)
    BY <1>1, <1>4, StepNames, GoesMoves DEF SetActiveWrite
  <2>2. HomeNamed'
    BY <1>1, <2>1, NamedKept DEF Later, Writes
  <2> QED
    BY <1>1, <1>4, <2>1, <2>2 DEF SetActiveWrite, Moved, TypeInv, TypeOK, device, rest
<1>5. CASE SetActiveApply(r) \/ DeleteWrite(r) \/ PostApply(r)
  <2>1. Moved(r, "done", None, None, "done", FALSE)
    BY <1>1, <1>5, EndsMoves DEF SetActiveApply, DeleteWrite, PostApply
  <2>2. HomeNamed'
    BY <1>1, <2>1, NamedKept DEF Later, Writes
  <2>3. /\ homes' \subseteq Homes /\ profiles' \subseteq Homes
        /\ applied' \in Homes \cup {None}
        /\ UNCHANGED <<active, complete, posture, setupAP, rest>>
    BY <1>1, <1>5
    DEF SetActiveApply, DeleteWrite, PostApply, ApplyFor, TypeOK, store, device
  <2> QED
    BY <1>1, <2>1, <2>2, <2>3 DEF Moved, TypeInv, TypeOK, rest
<1>6. CASE CompleteSetup(r)
  <2>1. Moved(r, "disable", task[r].home, task[r].seen, "done", task[r].fallback)
    BY <1>1, <1>6, StepNames, ThenMoves DEF CompleteSetup
  <2>2. HomeNamed'
    BY <1>1, <2>1, NamedKept DEF Later, Writes
  <2> QED
    BY <1>1, <1>6, <2>1, <2>2, AskedTypes
    DEF CompleteSetup, Arrives, Moved, TypeInv, TypeOK, device
<1>7. CASE FactoryReset(r)
  BY <1>1, <1>7, AskedTypes
  DEF FactoryReset, Arrives, TypeInv, TypeOK, HomeNamed, device
<1> QED
  BY <1>1, <1>2, <1>3, <1>4, <1>5, <1>6, <1>7, PostureTypes, SelectionTypes
  DEF Request

LEMMA TypeStep == TypeInv /\ [Next]_vars => TypeInv'
<1> SUFFICES ASSUME TypeInv, [Next]_vars PROVE TypeInv'
  OBVIOUS
<1>1. CASE MainStep \/ EnrollFails
  BY <1>1, MainTypes
<1>2. ASSUME NEW t \in Joining, JoinStep(t)
      PROVE  TypeInv'
  BY <1>2, TaskIds, JoinTypes, SelectionTypes, PostureTypes DEF JoinStep
<1>3. CASE SyncStep \/ SetupAPStep
  BY <1>3, BackgroundTypes
<1>4. ASSUME NEW r \in Requests, Request(r)
      PROVE  TypeInv'
  BY <1>4, RequestTypes
<1>5. ASSUME NEW h \in Homes, AddHome(h)
      PROVE  TypeInv'
  BY <1>5, AskedTypes DEF AddHome, TypeInv, TypeOK, HomeNamed, device
<1>6. CASE Crash
  <2>1. TypeOK'
    <3>1. fellBack' \in BOOLEAN /\ asked' \in BOOLEAN
      BY <1>6, Zenon DEF Crash
    <3>2. task' \in [Tasks -> Work]
      BY <1>6, StoppedCrash DEF Stopped
    <3>3. crashes' \in 0 .. MaxCrashes
      BY <1>6 DEF Crash, TypeInv, TypeOK
    <3>4. UNCHANGED <<store, device, mode, failures>>
      BY <1>6 DEF Crash
    <3> QED
      BY <3>1, <3>2, <3>3, <3>4 DEF TypeInv, TypeOK, store, device
  <2>2. HomeNamed'
    <3>1. ASSUME NEW t \in Tasks
          PROVE  task'[t].step \notin Writes /\ task'[t].then \notin Later
      BY <1>6, StoppedCrash DEF Stopped, Later, Writes
    <3> QED
      BY <3>1 DEF HomeNamed
  <2> QED
    BY <2>1, <2>2 DEF TypeInv
<1>7. CASE UNCHANGED vars
  BY <1>7 DEF vars, store, device, rest, TypeInv, TypeOK, HomeNamed
<1> QED
  BY <1>1, <1>2, <1>3, <1>4, <1>5, <1>6, <1>7 DEF Next

\* Every state of the daemon, its tasks and the device is well-formed, whatever
\* requests and restarts interleave; no task writes a Home it does not name.
THEOREM TypeCorrect == Spec => []TypeOK
<1>1. TypeInv => TypeOK
  BY DEF TypeInv
<1> QED
  BY <1>1, TypeInit, TypeStep, PTL DEF Spec

-----------------------------------------------------------------------------
(* A device nobody asks anything: the inductive invariant *)

\* Where a joinHome goroutine can be.
JoinerSteps == {"done", "enroll", "record", "store_profile", "join_apply", "select",
                "select_list", "select_set", "select_apply", "posture_read",
                "posture_apply"}

\* What only the onboard loop does.
OnboardSteps == {"onboard", "onboard_decide", "enroll", "record", "store_profile",
                 "join_apply", "claim", "start_sync", "retire_read", "retire_set",
                 "disable"}

Enrolling == {"enroll", "record", "store_profile", "join_apply", "claim"}

AppliesPosture(t) == task[t].step \in {"posture_read", "posture_apply"}

\* Where each mode's goroutines can be.
Places ==
  /\ \A t \in Joining :
       /\ task[t].step \in JoinerSteps /\ task[t].fallback = FALSE
       /\ AppliesPosture(t) => task[t].then = "done"
  /\ task[Main].then \in {"start", "done", "onboard", "start_sync", "select_apply"}
  /\ mode # "onboard" =>
       /\ task[Main].step \notin OnboardSteps /\ task[Main].fallback = FALSE
       /\ task[Main].then \in {"start", "done"}
  /\ mode = "join" =>
       /\ task[Main].step \in {"boot", "posture_read", "posture_apply", "start", "done"}
       /\ AppliesPosture(Main) => task[Main].then = "start"

\* The joinHome goroutines run after main has started them, in the mode "join".
JoinersWait ==
  mode # "join" \/ task[Main].step # "done" => \A t \in Joining : task[t].step = "done"

Undecided ==
  /\ task[Main].step \in Enrolling => ~complete /\ active = None
  /\ task[Main].step = "onboard_decide" => ~complete

\* The posture about to be applied is that of an active Home if there is one.
SeenActive ==
  /\ task[Main].step # "boot" => homes # {}
  /\ task[Main].step = "posture_apply" => task[Main].seen = active
  /\ \A t \in Joining :
       /\ task[t].step = "select_apply" \/ AppliesPosture(t) => active # None
       /\ task[t].step = "posture_apply" => task[t].seen # None

\* As long as no controller fails to answer, a device with a join list chooses
\* another Home than its own.
ChoosesOthers ==
  mode = "join" /\ failures = 0 =>
    /\ active \in Others \cup {None}
    /\ \A t \in Joining :
         /\ task[t].step \in {"enroll", "record", "store_profile", "join_apply",
                              "select", "select_list"} => task[t].home = t
         /\ task[t].step \in {"store_profile", "join_apply", "select", "select_list"}
              => t \in homes
         /\ task[t].step = "select_set" => task[t].home \in Others
         /\ task[t].step = "posture_apply" => task[t].seen \in Others

\* Where main is about to apply the posture.
PostureToCome == {"boot", "posture_read", "posture_apply", "retire_read", "retire_set",
                  "disable", "select_apply"}

\* The posture is the active Home's, or some task is about to apply it.
Followed ==
  active # None /\ (mode = "join" => failures = 0) =>
    \/ posture = DecideRole(active)
    \/ task[Main].step \in PostureToCome
    \/ \E t \in Joining : task[t].step = "select_apply" \/ AppliesPosture(t)

AloneInv == Places /\ JoinersWait /\ Undecided /\ SeenActive /\ ChoosesOthers /\ Followed

LEMMA AloneInit == Init => AloneInv
<1> SUFFICES ASSUME Init PROVE AloneInv
  OBVIOUS
<1>1. Main \in Tasks /\ Joining \subseteq Tasks \ {Main}
  BY TaskIds
<1>2. /\ task[Main].step = "boot" /\ task[Main].then = "done"
      /\ task[Main].fallback = FALSE
      /\ \A t \in Joining : /\ task[t].step = "done" /\ task[t].then = "done"
                            /\ task[t].fallback = FALSE
  BY <1>1, StoppedInit DEF Stopped
<1>3. active = None
  BY DEF Init
<1> QED
  BY <1>2, <1>3
  DEF AloneInv, Places, JoinersWait, Undecided, SeenActive, ChoosesOthers, Followed,
      JoinerSteps, OnboardSteps, Enrolling, AppliesPosture, PostureToCome

LEMMA AloneCrash == AloneInv /\ Crash => AloneInv'
<1> SUFFICES ASSUME AloneInv, Crash PROVE AloneInv'
  OBVIOUS
<1>1. Main \in Tasks /\ Joining \subseteq Tasks \ {Main}
  BY TaskIds
<1>2. /\ task'[Main].step = "boot" /\ task'[Main].then = "done"
      /\ task'[Main].fallback = FALSE
      /\ \A t \in Joining : /\ task'[t].step = "done" /\ task'[t].then = "done"
                            /\ task'[t].fallback = FALSE
  BY <1>1, StoppedCrash DEF Stopped
<1>3. UNCHANGED <<homes, active, complete, posture, mode, failures>>
  BY DEF Crash, store, device
<1> QED
  BY <1>2, <1>3
  DEF AloneInv, Places, JoinersWait, Undecided, SeenActive, ChoosesOthers, Followed,
      JoinerSteps, OnboardSteps, Enrolling, AppliesPosture, PostureToCome

\* A step of a joinHome goroutine.
LEMMA AloneJoiner ==
  ASSUME TypeInv, AloneInv, NEW t \in Joining, JoinStep(t)
  PROVE  AloneInv'
<1>1. /\ TypeOK /\ t \in Tasks /\ Main \in Tasks /\ t # Main
      /\ Joining \subseteq Tasks \ {Main} /\ Joining \subseteq Others
      /\ task[t].home \in Homes \cup {None}
      /\ task[t].step \in Writes => task[t].home \in Homes
  BY TaskIds, WorkFields DEF TypeInv, TypeOK, HomeNamed
<1>2. task[t].step # "done" /\ UNCHANGED mode
  BY <1>1, SelectionMoves, JoinMoves, FailsTypes
  DEF JoinStep, Join, Enrolled, Record, StoreProfile, JoinApply, Selection, Select,
      SelectList, SelectSet, RetireRead, RetireSet, SelectApply, Posture, PostureRead,
      PostureApply, At, rest
<1>3. /\ mode = "join" /\ mode' = "join" /\ task[Main].step = "done"
      /\ task[t].step \in JoinerSteps /\ task[t].fallback = FALSE
      /\ AppliesPosture(t) => task[t].then = "done"
  BY <1>2 DEF AloneInv, JoinersWait, Places
<1> DEFINE Facts(s, h, seen, next) ==
      /\ task'[t].step = s /\ task'[t].home = h /\ task'[t].seen = seen
      /\ task'[t].then = next /\ task'[t].fallback = FALSE
      /\ task'[Main] = task[Main]
      /\ \A u \in Joining \ {t} : task'[u] = task[u]
<1>4. ASSUME NEW s, NEW h, NEW seen, NEW next, Facts(s, h, seen, next),
             s \in JoinerSteps, s \in {"posture_read", "posture_apply"} => next = "done"
      PROVE  Places' /\ JoinersWait' /\ Undecided'
  BY <1>1, <1>3, <1>4
  DEF AloneInv, Places, JoinersWait, Undecided, Enrolling, AppliesPosture
<1>5. ASSUME NEW s, NEW h, NEW seen, NEW next,
             Moved(t, s, h, seen, next, task[t].fallback)
             \/ Moved(t, s, h, seen, next, FALSE)
      PROVE  Facts(s, h, seen, next)
  BY <1>1, <1>3, <1>5 DEF Moved
<1>a. ASSUME NEW s, Stays(t, s)
      PROVE  Facts(s, task[t].home, task[t].seen, task[t].then)
  <2>1. Moved(t, s, task[t].home, task[t].seen, task[t].then, task[t].fallback)
    BY <1>a DEF Stays
  <2> QED
    BY <1>5, <2>1
<1>b. ASSUME NEW s, NEW next, StaysThen(t, s, next)
      PROVE  Facts(s, task[t].home, task[t].seen, next)
  <2>1. Moved(t, s, task[t].home, task[t].seen, next, task[t].fallback)
    BY <1>b DEF StaysThen
  <2> QED
    BY <1>5, <2>1
<1>6. CASE Enrolled(t)
  <2>1. Facts("record", task[t].home, task[t].seen, task[t].then)
    BY <1>1, <1>5, <1>6, JoinMoves DEF Stays
  <2>2. Places' /\ JoinersWait' /\ Undecided'
    BY <1>4, <2>1 DEF JoinerSteps
  <2>3. UNCHANGED <<homes, active, posture, failures>> /\ task[t].step = "enroll"
    BY <1>6 DEF Enrolled, At, store, device, rest
  <2>4. SeenActive' /\ ChoosesOthers' /\ Followed'
    BY <1>1, <1>3, <2>1, <2>3
    DEF AloneInv, SeenActive, ChoosesOthers, Followed, AppliesPosture
  <2> QED
    BY <2>2, <2>4 DEF AloneInv
<1>7. CASE Record(t)
  <2>1. Facts("store_profile", task[t].home, task[t].seen, task[t].then)
    BY <1>1, <1>5, <1>7, JoinMoves DEF Stays
  <2>2. Places' /\ JoinersWait' /\ Undecided'
    BY <1>4, <2>1 DEF JoinerSteps
  <2>3. /\ UNCHANGED <<active, posture>> /\ task[t].step = "record"
        /\ \/ homes' = homes \cup {task[t].home} /\ failures' = failures
           \/ homes' = homes /\ failures' = failures + 1
    BY <1>7 DEF Record, Fails, At, device, rest
  <2>4. failures \in Nat
    BY <1>1 DEF TypeOK
  <2>5. failures' = 0 => failures = 0
    BY <2>3, <2>4
  <2>6. SeenActive'
    BY <1>1, <1>3, <2>1, <2>3 DEF AloneInv, SeenActive, AppliesPosture
  <2>7. ChoosesOthers'
    BY <1>1, <1>3, <2>1, <2>3, <2>4, <2>5 DEF AloneInv, ChoosesOthers
  <2>8. Followed'
    BY <1>1, <1>3, <2>1, <2>3, <2>5 DEF AloneInv, Followed, AppliesPosture
  <2> QED
    BY <2>2, <2>6, <2>7, <2>8 DEF AloneInv
<1>8. CASE StoreProfile(t) \/ JoinApply(t)
  <2> DEFINE s == IF StoreProfile(t) THEN "join_apply" ELSE "select"
  <2>1. Facts(s, task[t].home, task[t].seen, task[t].then)
    <3>1. Joined = "select"
      BY <1>3 DEF Joined
    <3>2. Stays(t, s)
      <4>1. StoreProfile(t) => Stays(t, "join_apply")
        BY <1>1, JoinMoves
      <4>2. JoinApply(t) => Stays(t, "select")
        BY <1>1, <3>1, JoinMoves
      <4> QED
        BY <1>8, <4>1, <4>2
    <3> HIDE DEF s
    <3> QED
      BY <1>a, <3>2
  <2>2. s \in {"join_apply", "select"}
    OBVIOUS
  <2> HIDE DEF s
  <2>3. Places' /\ JoinersWait' /\ Undecided'
    BY <1>4, <2>1, <2>2 DEF JoinerSteps
  <2>4. /\ UNCHANGED <<homes, active, posture, failures>>
        /\ task[t].step \in {"store_profile", "join_apply"}
    BY <1>8 DEF StoreProfile, JoinApply, At, store, device, rest
  <2>5. SeenActive' /\ Followed'
    BY <1>1, <1>3, <2>1, <2>2, <2>4 DEF AloneInv, SeenActive, Followed, AppliesPosture
  <2>6. ChoosesOthers'
    BY <1>1, <1>3, <2>1, <2>2, <2>4 DEF AloneInv, ChoosesOthers
  <2> QED
    BY <2>3, <2>5, <2>6 DEF AloneInv
<1>9. CASE Select(t)
  <2>1. \/ active # None /\ Facts("posture_read", task[t].home, task[t].seen, "done")
        \/ active = None /\ Facts("select_list", task[t].home, task[t].seen, task[t].then)
    <3>1. AfterSelect(t) = "done"
      BY <1>1, <1>3 DEF AfterSelect
    <3>2. \/ active # None /\ StaysThen(t, "posture_read", "done")
          \/ active = None /\ Stays(t, "select_list")
      BY <1>1, <1>9, <3>1, SelectionMoves
    <3> QED
      BY <1>a, <1>b, <3>2
  <2>2. Places' /\ JoinersWait' /\ Undecided'
    BY <1>4, <2>1 DEF JoinerSteps
  <2>3. UNCHANGED <<homes, active, posture, failures>> /\ task[t].step = "select"
    BY <1>9 DEF Select, At, store, device, rest
  <2>4. SeenActive' /\ Followed'
    BY <1>1, <1>3, <2>1, <2>3 DEF AloneInv, SeenActive, Followed, AppliesPosture
  <2>5. ChoosesOthers'
    BY <1>1, <1>3, <2>1, <2>3 DEF AloneInv, ChoosesOthers
  <2> QED
    BY <2>2, <2>4, <2>5 DEF AloneInv
<1>10. CASE SelectList(t)
  <2>1. homes # {}
    BY <1>3 DEF AloneInv, SeenActive
  <2>2. PICK h \in Best(homes) :
          Moved(t, "select_set", h, task[t].seen, task[t].then, task[t].fallback)
    BY <1>1, <1>10, <2>1, SelectionMoves
  <2>3. Facts("select_set", h, task[t].seen, task[t].then)
    BY <1>5, <2>2
  <2>4. Places' /\ JoinersWait' /\ Undecided'
    BY <1>4, <2>3 DEF JoinerSteps
  <2>5. UNCHANGED <<homes, active, posture, failures>> /\ task[t].step = "select_list"
    BY <1>10 DEF SelectList, At, store, device, rest
  <2>6. SeenActive' /\ Followed'
    BY <1>1, <1>3, <2>3, <2>5 DEF AloneInv, SeenActive, Followed, AppliesPosture
  <2>7. ChoosesOthers'
    <3>1. failures = 0 => t \in homes \ {Self}
      BY <1>1, <1>3, <2>5 DEF AloneInv, ChoosesOthers
    <3>2. failures = 0 => h \in Others
      BY <1>1, <3>1 DEF Best, TypeOK, Homes
    <3> QED
      BY <1>1, <1>3, <2>3, <2>5, <3>2 DEF AloneInv, ChoosesOthers
  <2> QED
    BY <2>4, <2>6, <2>7 DEF AloneInv
<1>11. CASE SelectSet(t)
  <2>1. Facts("select_apply", task[t].home, task[t].seen, task[t].then)
    BY <1>1, <1>3, <1>5, <1>11, SelectionMoves DEF Stays
  <2>2. Places' /\ JoinersWait' /\ Undecided'
    BY <1>4, <2>1 DEF JoinerSteps
  <2>3. /\ UNCHANGED <<homes, posture, failures>> /\ task[t].step = "select_set"
        /\ active' = task[t].home /\ active' # None
    BY <1>1, <1>11 DEF SelectSet, At, Writes, device, rest
  <2>4. SeenActive' /\ Followed'
    BY <1>1, <1>3, <2>1, <2>3 DEF AloneInv, SeenActive, Followed, AppliesPosture
  <2>5. ChoosesOthers'
    BY <1>1, <1>3, <2>1, <2>3 DEF AloneInv, ChoosesOthers
  <2> QED
    BY <2>2, <2>4, <2>5 DEF AloneInv
<1>12. CASE SelectApply(t)
  <2>1. Facts("posture_read", task[t].home, task[t].seen, "done")
    BY <1>1, <1>3, <1>5, <1>12, SelectionMoves DEF StaysThen, AfterSelect
  <2>2. Places' /\ JoinersWait' /\ Undecided'
    BY <1>4, <2>1 DEF JoinerSteps
  <2>3. UNCHANGED <<homes, active, posture, failures>> /\ task[t].step = "select_apply"
    BY <1>12 DEF SelectApply, At, store, rest
  <2>4. SeenActive' /\ Followed'
    BY <1>1, <1>3, <2>1, <2>3 DEF AloneInv, SeenActive, Followed, AppliesPosture
  <2>5. ChoosesOthers'
    BY <1>1, <1>3, <2>1, <2>3 DEF AloneInv, ChoosesOthers
  <2> QED
    BY <2>2, <2>4, <2>5 DEF AloneInv
<1>13. CASE PostureRead(t)
  <2>1. Facts("posture_apply", task[t].home, active, task[t].then)
    BY <1>1, <1>5, <1>13, ReadMoves
  <2>2. UNCHANGED <<homes, active, posture, failures>> /\ task[t].step = "posture_read"
    BY <1>13 DEF PostureRead, At, store, device, rest
  <2>3. Places' /\ JoinersWait' /\ Undecided'
    BY <1>3, <1>4, <2>1, <2>2 DEF JoinerSteps, AppliesPosture
  <2>4. SeenActive' /\ Followed'
    BY <1>1, <1>3, <2>1, <2>2 DEF AloneInv, SeenActive, Followed, AppliesPosture
  <2>5. ChoosesOthers'
    BY <1>1, <1>3, <2>1, <2>2 DEF AloneInv, ChoosesOthers, SeenActive, AppliesPosture
  <2> QED
    BY <2>3, <2>4, <2>5 DEF AloneInv
<1>14. CASE PostureApply(t)
  <2>1. /\ UNCHANGED <<homes, active, failures>> /\ task[t].step = "posture_apply"
        /\ posture' = DecideRole(task[t].seen)
    BY <1>14 DEF PostureApply, At, store, rest
  <2>2. Facts("done", None, None, "done")
    BY <1>1, <1>3, <1>5, <1>14, <2>1, PostureApplyMoves DEF AppliesPosture
  <2>3. Places' /\ JoinersWait' /\ Undecided'
    BY <1>4, <2>2 DEF JoinerSteps
  <2>4. SeenActive'
    BY <1>1, <1>3, <2>1, <2>2 DEF AloneInv, SeenActive, AppliesPosture
  <2>5. ChoosesOthers'
    BY <1>1, <1>3, <2>1, <2>2 DEF AloneInv, ChoosesOthers
  <2>6. Followed'
    <3>1. failures = 0 => task[t].seen \in Others /\ active \in Others \cup {None}
      BY <1>3, <2>1 DEF AloneInv, ChoosesOthers
    <3>2. failures = 0 /\ active # None => posture' = DecideRole(active)
      BY <2>1, <3>1 DEF DecideRole, Homes
    <3> QED
      BY <1>3, <2>1, <3>2 DEF Followed
  <2> QED
    BY <2>3, <2>4, <2>5, <2>6 DEF AloneInv
<1>15. ~RetireRead(t) /\ ~RetireSet(t)
  BY <1>3 DEF RetireRead, RetireSet, At, JoinerSteps
<1> QED
  BY <1>6, <1>7, <1>8, <1>9, <1>10, <1>11, <1>12, <1>13, <1>14, <1>15
  DEF JoinStep, Join, Selection, Posture

\* A step of main, and of the onboard loop main runs.  Until main has started the
\* goroutines, and for ever in the other modes than "join", it is the only task
\* that touches what AloneInv is about.
LEMMA AloneMain ==
  ASSUME TypeInv, AloneInv, MainStep \/ EnrollFails
  PROVE  AloneInv'
<1>1. /\ TypeOK /\ Main \in Tasks /\ Joining \subseteq Tasks \ {Main, Sync}
      /\ Main # Sync
      /\ task[Main].step \in Writes => task[Main].home \in Homes
  BY TaskIds DEF TypeInv, TypeOK, HomeNamed
<1>2. UNCHANGED mode
  BY <1>1, SelectionMoves, JoinMoves, MainMoves, FailsTypes
  DEF MainStep, Boot, Start, Posture, PostureRead, PostureApply, Selection, Select,
      SelectList, SelectSet, RetireRead, RetireSet, SelectApply, Disable, OnboardTick,
      OnboardDecide, Join, Enrolled, Record, StoreProfile, JoinApply, Claim, StartSync,
      EnrollFails, rest
\* While main is at work, no joinHome goroutine is.
<1>3. task[Main].step # "done"
  BY DEF MainStep, Boot, Start, Posture, PostureRead, PostureApply, Selection, Select,
     SelectList, SelectSet, RetireRead, RetireSet, SelectApply, Disable, OnboardTick,
     OnboardDecide, Join, Enrolled, Record, StoreProfile, JoinApply, Claim, StartSync,
     EnrollFails, At
<1>4. \A t \in Joining : /\ task[t].step = "done" /\ task[t].fallback = FALSE
  BY <1>3 DEF AloneInv, JoinersWait, Places
<1>5. mode # "onboard" => task[Main].fallback = FALSE
  BY DEF AloneInv, Places
<1> DEFINE Facts(s, seen, next) ==
      /\ task'[Main].step = s /\ task'[Main].seen = seen /\ task'[Main].then = next
      /\ mode # "onboard" => task'[Main].fallback = FALSE
      /\ \A t \in Joining : task'[t] = task[t]
<1>6. ASSUME NEW s, NEW h, NEW seen, NEW next,
             \/ Moved(Main, s, h, seen, next, task[Main].fallback)
             \/ Moved(Main, s, h, seen, next, FALSE)
             \/ mode = "onboard" /\ Moved(Main, s, h, seen, next, TRUE)
      PROVE  Facts(s, seen, next)
  BY <1>1, <1>5, <1>6 DEF Moved
\* Then only what concerns main is left of the invariant.
<1>7. ASSUME NEW s, NEW seen, NEW next, Facts(s, seen, next),
             next \in {"start", "done", "onboard", "start_sync", "select_apply"},
             mode # "onboard" => s \notin OnboardSteps /\ next \in {"start", "done"},
             mode = "join" =>
               /\ s \in {"boot", "posture_read", "posture_apply", "start", "done"}
               /\ s \in {"posture_read", "posture_apply"} => next = "start"
               /\ active' = active /\ failures' = failures,
             s \in Enrolling => ~complete' /\ active' = None,
             s = "onboard_decide" => ~complete',
             s # "boot" => homes' # {},
             s = "posture_apply" => seen = active',
             active' # None /\ (mode = "join" => failures = 0) =>
               s \in PostureToCome \/ posture' = DecideRole(active')
      PROVE  AloneInv'
  <2>1. Places' /\ JoinersWait' /\ Undecided'
    BY <1>2, <1>4, <1>7
    DEF Places, JoinersWait, Undecided, JoinerSteps, AppliesPosture
  <2>2. SeenActive'
    BY <1>4, <1>7 DEF SeenActive, AppliesPosture
  <2>3. ChoosesOthers'
    BY <1>2, <1>4, <1>7 DEF AloneInv, ChoosesOthers
  <2>4. Followed'
    BY <1>2, <1>7 DEF Followed
  <2> QED
    BY <2>1, <2>2, <2>3, <2>4 DEF AloneInv
<1> HIDE DEF Facts
<1>8. /\ task[Main].step \in OnboardSteps => mode = "onboard"
      /\ task[Main].step \notin {"boot", "posture_read", "posture_apply", "start"}
           => mode # "join"
      /\ task[Main].step # "boot" => homes # {}
      /\ task[Main].then \in {"start", "done", "onboard", "start_sync", "select_apply"}
      /\ mode # "onboard" => task[Main].then \in {"start", "done"}
      /\ mode = "join" /\ AppliesPosture(Main) => task[Main].then = "start"
  BY <1>3 DEF AloneInv, Places, SeenActive
<1>9. active # None /\ (mode = "join" => failures = 0)
        => task[Main].step \in PostureToCome \/ posture = DecideRole(active)
  BY <1>4 DEF AloneInv, Followed, AppliesPosture
<1>10. /\ task[Main].step \in Enrolling => ~complete /\ active = None
       /\ task[Main].step = "onboard_decide" => ~complete
       /\ task[Main].step = "posture_apply" => task[Main].seen = active
  BY DEF AloneInv, Undecided, SeenActive
<1>11. CASE Boot
  <2>1. Facts("posture_read", task[Main].seen, "start")
    BY <1>1, <1>6, <1>11, MainMoves DEF StaysThen
  <2>2. homes' # {} /\ UNCHANGED <<active, failures>>
    BY <1>11 DEF Boot, rest
  <2> QED
    BY <1>7, <1>8, <2>1, <2>2 DEF OnboardSteps, Enrolling, PostureToCome
<1>12. CASE Start
  <2>1. /\ task[Main].step = "start"
        /\ UNCHANGED <<homes, active, complete, posture, failures>>
    BY <1>12 DEF Start, At, store, device, rest
  <2>2. \A t \in Tasks :
          /\ task'[t].step = Started(t) /\ task'[t].home = IF t \in Joining THEN t
                                                         ELSE task[t].home
          /\ task'[t].then = task[t].then /\ task'[t].fallback = task[t].fallback
    BY <1>1, <1>12, StartMoves DEF TypeOK
  <2>3. /\ task'[Main].step \in {"select", "onboard", "done"}
        /\ mode = "join" => task'[Main].step = "done"
        /\ mode # "onboard" => task'[Main].step \in {"select", "done"}
        /\ task'[Main].then = task[Main].then
        /\ mode # "onboard" => task'[Main].fallback = FALSE
    <3>1. mode \in {"select", "join", "onboard"}
      BY <1>1 DEF TypeOK
    <3> QED
      BY <1>1, <1>5, <2>2, <3>1 DEF Started
  <2>4. \A t \in Joining :
          /\ task'[t].step = IF mode = "join" THEN "enroll" ELSE "done"
          /\ task'[t].home = t /\ task'[t].fallback = FALSE
    <3>1. ASSUME NEW t \in Joining
          PROVE  Started(t) = IF mode = "join" THEN "enroll" ELSE "done"
      <4>1. t # Main /\ t # Sync /\ t # APTask /\ task[t].step = "done"
        BY <1>4
      <4> QED
        BY <4>1 DEF Started
    <3> QED
      BY <1>1, <1>4, <2>2, <3>1
  <2>5. Places'
    BY <1>2, <1>8, <2>3, <2>4 DEF Places, JoinerSteps, OnboardSteps, AppliesPosture
  <2>6. JoinersWait' /\ Undecided'
    BY <1>2, <2>3, <2>4 DEF JoinersWait, Undecided, Enrolling
  <2>7. SeenActive'
    BY <1>8, <2>1, <2>3, <2>4 DEF SeenActive, AppliesPosture
  <2>8. ChoosesOthers'
    BY <1>2, <2>1, <2>4 DEF AloneInv, ChoosesOthers
  <2>9. Followed'
    BY <1>2, <1>9, <2>1 DEF Followed, PostureToCome
  <2> QED
    BY <2>5, <2>6, <2>7, <2>8, <2>9 DEF AloneInv
<1>13. CASE PostureRead(Main)
  <2>1. Facts("posture_apply", active, task[Main].then)
    BY <1>1, <1>6, <1>13, ReadMoves
  <2>2. UNCHANGED <<homes, active, failures>> /\ task[Main].step = "posture_read"
    BY <1>13 DEF PostureRead, At, store, rest
  <2> QED
    BY <1>7, <1>8, <2>1, <2>2 DEF OnboardSteps, Enrolling, PostureToCome, AppliesPosture
<1>14. CASE PostureApply(Main)
  <2>1. /\ UNCHANGED <<homes, active, complete, failures>>
        /\ task[Main].step = "posture_apply" /\ posture' = DecideRole(active)
    BY <1>10, <1>14 DEF PostureApply, At, store, rest
  <2>2. CASE task[Main].then = "done"
    <3>1. Facts("done", None, "done")
      BY <1>1, <1>6, <1>14, <2>2, PostureApplyMoves
    <3> QED
      BY <1>7, <1>8, <2>1, <3>1 DEF OnboardSteps, Enrolling
  <2>3. CASE task[Main].then # "done"
    <3>1. Facts(task[Main].then, task[Main].seen, task[Main].then)
      BY <1>1, <1>6, <1>14, <2>3, PostureApplyMoves
    <3>2. task[Main].then \notin Enrolling \cup {"onboard_decide", "posture_apply"}
      BY <1>8 DEF Enrolling
    <3> QED
      BY <1>7, <1>8, <2>1, <3>1, <3>2 DEF OnboardSteps, AppliesPosture
  <2> QED
    BY <2>2, <2>3
<1>15. CASE Select(Main)
  <2>1. \/ /\ active # None
           /\ Facts("posture_read", task[Main].seen, AfterSelect(Main))
        \/ active = None /\ Facts("select_list", task[Main].seen, task[Main].then)
    BY <1>1, <1>6, <1>15, SelectionMoves DEF Stays, StaysThen
  <2>2. UNCHANGED <<homes, active, failures>> /\ task[Main].step = "select"
    BY <1>15 DEF Select, At, store, rest
  <2>3. /\ AfterSelect(Main) \in {"onboard", "done"}
        /\ mode # "onboard" => AfterSelect(Main) = "done"
    BY <1>5 DEF AfterSelect
  <2> QED
    BY <1>7, <1>8, <2>1, <2>2, <2>3 DEF OnboardSteps, Enrolling, PostureToCome
<1>16. CASE SelectList(Main)
  <2>1. task[Main].step = "select_list" /\ UNCHANGED <<homes, active, posture, failures>>
    BY <1>16 DEF SelectList, At, store, device, rest
  <2>2. PICK h \in Best(homes) : Moved(Main, "select_set", h, task[Main].seen,
                                      task[Main].then, task[Main].fallback)
    BY <1>1, <1>8, <1>16, <2>1, SelectionMoves
  <2>3. Facts("select_set", task[Main].seen, task[Main].then)
    BY <1>6, <2>2
  <2> QED
    BY <1>7, <1>8, <1>9, <2>1, <2>3 DEF OnboardSteps, Enrolling, PostureToCome
<1>17. CASE SelectSet(Main)
  <2>1. task[Main].step = "select_set" /\ UNCHANGED homes
    BY <1>17 DEF SelectSet, At
  <2>2. \/ Facts("select_apply", task[Main].seen, task[Main].then)
        \/ /\ Facts("retire_read", task[Main].seen, task[Main].then)
           /\ mode = "onboard"
    <3>1. CASE task[Main].fallback
      <4>1. Moved(Main, "retire_read", task[Main].home, task[Main].seen,
                  task[Main].then, task[Main].fallback)
        BY <1>1, <1>17, <3>1, SelectionMoves DEF Stays
      <4>2. mode = "onboard"
        BY <1>5, <3>1
      <4> QED
        BY <1>6, <4>1, <4>2
    <3>2. CASE ~task[Main].fallback
      <4>1. Moved(Main, "select_apply", task[Main].home, task[Main].seen,
                  task[Main].then, task[Main].fallback)
        BY <1>1, <1>17, <3>2, SelectionMoves DEF Stays
      <4> QED
        BY <1>6, <4>1
    <3> QED
      BY <3>1, <3>2
  <2> QED
    BY <1>7, <1>8, <2>1, <2>2 DEF OnboardSteps, Enrolling, PostureToCome
<1>18. CASE RetireRead(Main)
  <2>1. task[Main].step = "retire_read" /\ UNCHANGED <<homes, active, failures>>
    BY <1>18 DEF RetireRead, At, store, rest
  <2>2. \E s \in {"select_apply", "retire_set"} :
          Facts(s, task[Main].seen, task[Main].then)
    BY <1>1, <1>6, <1>18, SelectionMoves DEF Stays
  <2> QED
    BY <1>7, <1>8, <2>1, <2>2 DEF OnboardSteps, Enrolling, PostureToCome
<1>19. CASE RetireSet(Main) \/ Claim
  <2>1. /\ task[Main].step \in {"retire_set", "claim"}
        /\ UNCHANGED <<homes, active, failures>>
    BY <1>19 DEF RetireSet, Claim, At, rest
  <2>2. \E next \in {"select_apply", "start_sync"} :
          Facts("disable", task[Main].seen, next)
    BY <1>1, <1>6, <1>19, SelectionMoves, MainMoves DEF StaysThen
  <2> QED
    BY <1>7, <1>8, <2>1, <2>2 DEF OnboardSteps, Enrolling, PostureToCome
<1>20. CASE Disable(Main)
  <2>1. task[Main].step = "disable" /\ UNCHANGED <<homes, active, failures>>
    BY <1>20 DEF Disable, At, store, rest
  <2>2. Facts("posture_read", task[Main].seen, task[Main].then)
    BY <1>1, <1>6, <1>20, SelectionMoves DEF Stays
  <2> QED
    BY <1>7, <1>8, <2>1, <2>2 DEF OnboardSteps, Enrolling, PostureToCome
<1>21. CASE SelectApply(Main)
  <2>1. task[Main].step = "select_apply" /\ UNCHANGED <<homes, active, failures>>
    BY <1>21 DEF SelectApply, At, store, rest
  <2>2. Facts("posture_read", task[Main].seen, AfterSelect(Main))
    BY <1>1, <1>6, <1>21, SelectionMoves DEF StaysThen
  <2>3. /\ AfterSelect(Main) \in {"onboard", "done"}
        /\ mode # "onboard" => AfterSelect(Main) = "done"
    BY <1>5 DEF AfterSelect
  <2> QED
    BY <1>7, <1>8, <2>1, <2>2, <2>3 DEF OnboardSteps, Enrolling, PostureToCome
<1>22. CASE OnboardTick
  <2>1. /\ task[Main].step = "onboard"
        /\ UNCHANGED <<homes, active, complete, posture, failures>>
    BY <1>22 DEF OnboardTick, At, store, device, rest
  <2>2. \/ Facts("done", None, "done")
        \/ ~complete /\ Facts("onboard_decide", None, "done")
    BY <1>1, <1>6, <1>22, MainMoves
  <2> QED
    BY <1>7, <1>8, <1>9, <2>1, <2>2 DEF OnboardSteps, Enrolling, PostureToCome
<1>23. CASE OnboardDecide
  <2>1. /\ task[Main].step = "onboard_decide" /\ ~complete
        /\ UNCHANGED <<homes, active, complete, posture>>
    BY <1>10, <1>23 DEF OnboardDecide, At, store, device
  <2>2. mode = "onboard"
    BY <1>8, <2>1 DEF OnboardSteps
  <2>3. \/ active = None /\ Facts("enroll", task[Main].seen, task[Main].then)
        \/ active = None /\ Facts("select", task[Main].seen, task[Main].then)
        \/ active # None /\ Facts("onboard", task[Main].seen, task[Main].then)
    BY <1>1, <1>6, <1>23, <2>2, MainMoves DEF Stays
  <2> QED
    BY <1>7, <1>8, <1>9, <2>1, <2>2, <2>3 DEF Enrolling, PostureToCome
<1>24. CASE Join(Main) \/ EnrollFails
  <2>1. /\ task[Main].step \in {"enroll", "record", "store_profile", "join_apply"}
        /\ UNCHANGED <<active, complete, posture>>
    BY <1>24 DEF Join, Enrolled, Record, StoreProfile, JoinApply, EnrollFails, At,
       store, device
  <2>2. mode = "onboard" /\ ~complete /\ active = None /\ homes # {}
    BY <1>8, <1>10, <2>1 DEF OnboardSteps, Enrolling
  <2>3. homes' # {}
    BY <1>24, <2>2
    DEF Join, Enrolled, Record, StoreProfile, JoinApply, EnrollFails, store
  <2>4. \E s \in {"record", "store_profile", "join_apply", "claim", "onboard"} :
          Facts(s, task[Main].seen, task[Main].then)
    BY <1>1, <1>6, <1>24, <2>2, JoinMoves, MainMoves DEF Join, Stays, Joined
  <2> QED
    BY <1>7, <1>8, <2>1, <2>2, <2>3, <2>4
<1>25. CASE StartSync
  <2>1. /\ task[Main].step = "start_sync"
        /\ UNCHANGED <<homes, active, complete, posture, failures>>
    BY <1>25 DEF StartSync, At, store, device, rest
  <2>2. mode = "onboard"
    BY <1>8, <2>1 DEF OnboardSteps
  <2>3. Facts("select", task'[Main].seen, task[Main].then)
    BY <1>1, <1>25, <2>2, StartSyncMoves DEF Facts
  <2> QED
    BY <1>7, <1>8, <1>9, <2>1, <2>2, <2>3 DEF Enrolling, PostureToCome
<1> QED
  BY <1>11, <1>12, <1>13, <1>14, <1>15, <1>16, <1>17, <1>18, <1>19, <1>20, <1>21, <1>22,
     <1>23, <1>24, <1>25
  DEF MainStep, Posture, Selection

LEMMA AloneOwn ==
  ASSUME TypeInv, AloneInv,
         \/ MainStep \/ EnrollFails \/ \E t \in Joining : JoinStep(t)
         \/ SyncStep \/ SetupAPStep
  PROVE  AloneInv'
<1>1. CASE MainStep \/ EnrollFails
  BY <1>1, AloneMain
<1>2. ASSUME NEW t \in Joining, JoinStep(t)
      PROVE  AloneInv'
  BY <1>2, AloneJoiner
<1>3. CASE SyncStep \/ SetupAPStep
  <2>1. /\ TypeOK /\ {Main, Sync, APTask} \cup Joining \subseteq Tasks
        /\ Main \notin {Sync, APTask}
        /\ Joining \cap {Main, Sync, APTask} = {}
    BY TaskIds DEF TypeInv
  <2>2. \A t \in Joining \cup {Main} : task'[t] = task[t]
    BY <1>3, <2>1
    DEF SyncStep, SyncRead, SyncStore, SyncApply, SetupAPStep, ReadSetupComplete,
          EnableSetupAP, Goes, GoesFor, Ends, TypeOK
  <2>3. UNCHANGED <<homes, active, complete, posture, mode, failures>>
    BY <1>3
    DEF SyncStep, SyncRead, SyncStore, SyncApply, SetupAPStep, ReadSetupComplete,
        EnableSetupAP, store, device, rest
  <2> QED
    BY <2>2, <2>3
    DEF AloneInv, Places, JoinersWait, Undecided, SeenActive, ChoosesOthers, Followed,
        AppliesPosture
<1> QED
  BY <1>1, <1>2, <1>3

LEMMA AloneStep ==
  ASSUME Requests = {}, TypeInv, AloneInv, [Next]_vars
  PROVE  AloneInv'
<1>1. CASE Crash
  BY <1>1, AloneCrash
<1>2. CASE UNCHANGED vars
  BY <1>2
  DEF vars, store, device, rest, AloneInv, Places, JoinersWait, Undecided, SeenActive,
      ChoosesOthers, Followed, AppliesPosture
<1> QED
  BY <1>1, <1>2, AloneOwn DEF Next

LEMMA AloneAlways ==
  ASSUME Requests = {}
  PROVE  Spec => [](TypeInv /\ AloneInv)
<1>1. Init => TypeInv /\ AloneInv
  BY TypeInit, AloneInit
<1>2. TypeInv /\ AloneInv /\ [Next]_vars => TypeInv' /\ AloneInv'
  BY TypeStep, AloneStep
<1> QED
  BY <1>1, <1>2, PTL DEF Spec

\* A device that enrolls unattended is unclaimed and has no active Home, however
\* many times it restarted, fell back or failed to enroll before: the onboard loop
\* (onboard.Run) takes no node over that has decided.
THEOREM UndecidedOnboard ==
  ASSUME Requests = {}
  PROVE  Spec => []OnlyUndecidedOnboard
<1>1. TypeInv /\ AloneInv => OnlyUndecidedOnboard
  BY DEF AloneInv, Undecided, Enrolling, OnlyUndecidedOnboard
<1> QED
  BY <1>1, AloneAlways, PTL

\* The posture (applyPosture, netposture.DecideRole) follows the active Home on a
\* device nobody asks to switch, for any number of controllers it joins at once, as
\* long as each answers for its Home.
THEOREM PostureIsThatOfTheRole ==
  ASSUME Requests = {}
  PROVE  Spec => []PostureFollows
<1>1. TypeInv /\ AloneInv => PostureFollows
  <2> SUFFICES ASSUME TypeInv, AloneInv, AtRest, active # None,
                      mode = "join" => failures = 0
               PROVE  posture = DecideRole(active)
    BY DEF PostureFollows
  <2>1. \A t \in Joining \cup {Main} :
          task[t].step \in {"done", "onboard", "enroll", "sync"}
    BY TaskIds DEF AtRest
  <2> QED
    BY <2>1 DEF AloneInv, Followed, AppliesPosture, PostureToCome
<1> QED
  BY <1>1, AloneAlways, PTL

\* No posture read before a device settled, or restarted, turns a controller or
\* a node back into a guest.
THEOREM EstablishedIsNoGuest ==
  ASSUME Requests = {}
  PROVE  Spec => NeverGuestAgain
<1>1. TypeInv /\ AloneInv /\ [Next]_vars
        => [active # None /\ posture' = "guest" => posture = "guest"]_vars
  <2> SUFFICES ASSUME TypeInv, AloneInv, Next, active # None, posture' # posture
               PROVE  posture' # "guest"
    BY DEF vars, device
  <2>1. PICK t \in Joining \cup {Main} : PostureApply(t)
    BY DEF Next, MainStep, Boot, Start, Posture, PostureRead, Selection, Select,
       SelectList, SelectSet, RetireRead, RetireSet, SelectApply, Disable, OnboardTick,
       OnboardDecide, Join, Enrolled, Record, StoreProfile, JoinApply, Claim, StartSync,
       EnrollFails, JoinStep, SyncStep, SyncRead, SyncStore, SyncApply, SetupAPStep,
       ReadSetupComplete, EnableSetupAP, Crash, store, device
  <2>2. task[t].step = "posture_apply" /\ posture' = DecideRole(task[t].seen)
    BY <2>1 DEF PostureApply, At
  <2>3. task[t].seen # None
    BY <2>1, <2>2 DEF AloneInv, SeenActive
  <2> QED
    BY <2>2, <2>3 DEF DecideRole
<1> QED
  BY <1>1, AloneAlways, PTL DEF Spec, NeverGuestAgain

-----------------------------------------------------------------------------
(* A device that is asked things over the management API, at any moment *)

\* The steps of the tasks the daemon starts are not those of a request.
LEMMA OwnStepKeepsRequests ==
  ASSUME TypeInv,
         \/ MainStep \/ EnrollFails \/ \E t \in Joining : JoinStep(t)
         \/ SyncStep \/ SetupAPStep
  PROVE  /\ \A r \in Requests : task'[r].step = task[r].step
         /\ UNCHANGED <<mode, asked>>
<1>1. /\ task \in [Tasks -> Work] /\ TypeOK
      /\ {Main, Sync, APTask} \cup Joining \cup Requests \subseteq Tasks
      /\ Requests \cap ({Main, Sync, APTask} \cup Joining) = {}
  BY TaskIds DEF TypeInv, TypeOK
<1>2. CASE Start
  <2>1. \A r \in Requests : Started(r) = task[r].step
    BY <1>1 DEF Started
  <2> QED
    BY <1>1, <1>2, <2>1, StartMoves DEF Start, rest
<1>3. ASSUME NEW t \in {Main, Sync, APTask} \cup Joining, NEW s, NEW h, NEW seen,
             NEW next, NEW fallback, Moved(t, s, h, seen, next, fallback)
      PROVE  \A r \in Requests : task'[r].step = task[r].step
  BY <1>1, <1>3 DEF Moved
<1>4. CASE StartSync
  BY <1>1, <1>4, StartSyncMoves DEF StartSync, rest
<1>5. ASSUME NEW t \in {Main} \cup Joining,
             Posture(t) \/ Selection(t) \/ Join(t) \/ Disable(t)
      PROVE  /\ \A r \in Requests : task'[r].step = task[r].step
             /\ UNCHANGED <<mode, asked>>
  <2>1. UNCHANGED <<mode, asked>>
    BY <1>5
    DEF Posture, PostureRead, PostureApply, Selection, Select, SelectList, SelectSet,
        RetireRead, RetireSet, SelectApply, Join, Enrolled, Record, StoreProfile,
        JoinApply, Disable, Fails, rest
  <2>2. \A r \in Requests : task'[r].step = task[r].step
    <3>1. CASE Posture(t)
      BY <1>1, <1>3, <3>1, ReadMoves, PostureApplyMoves DEF Posture
    <3>2. CASE SelectList(t)
      BY <1>1, <1>3, <3>2, SelectionMoves DEF StaysThen
    <3>3. CASE (Selection(t) /\ ~SelectList(t)) \/ Disable(t)
      BY <1>1, <1>3, <3>3, SelectionMoves DEF Selection, Stays, StaysThen
    <3>4. CASE Join(t)
      BY <1>1, <1>3, <3>4, JoinMoves DEF Join, Stays
    <3> QED
      BY <1>5, <3>1, <3>2, <3>3, <3>4
  <2> QED
    BY <2>1, <2>2
<1>6. CASE Boot \/ OnboardTick \/ OnboardDecide \/ Claim \/ EnrollFails
  <2>1. \A r \in Requests : task'[r].step = task[r].step
    BY <1>1, <1>3, <1>6, MainMoves DEF Stays, StaysThen
  <2>2. UNCHANGED <<mode, asked>>
    BY <1>6 DEF Boot, OnboardTick, OnboardDecide, Claim, EnrollFails, Fails, rest
  <2> QED
    BY <2>1, <2>2
<1>7. CASE SyncStep \/ SetupAPStep
  BY <1>1, <1>7
  DEF SyncStep, SyncRead, SyncStore, SyncApply, SetupAPStep, ReadSetupComplete,
      EnableSetupAP, Goes, GoesFor, Ends, rest
<1> QED
  BY <1>2, <1>4, <1>5, <1>6, <1>7 DEF MainStep, JoinStep

\* A restart leaves nothing of what requests have interrupted.
LEMMA RestartAlone ==
  ASSUME TypeInv, Crash, mode # "join"
  PROVE  AloneInv'
<1>1. Main \in Tasks /\ Joining \subseteq Tasks \ {Main}
  BY TaskIds
<1>2. /\ task'[Main].step = "boot" /\ task'[Main].then = "done"
      /\ task'[Main].fallback = FALSE
      /\ \A t \in Joining : /\ task'[t].step = "done" /\ task'[t].then = "done"
                            /\ task'[t].fallback = FALSE
  BY <1>1, StoppedCrash DEF Stopped
<1>3. UNCHANGED <<homes, active, complete, posture, mode, failures>>
  BY DEF Crash, store, device
<1> QED
  BY <1>2, <1>3
  DEF AloneInv, Places, JoinersWait, Undecided, SeenActive, ChoosesOthers, Followed,
      JoinerSteps, OnboardSteps, Enrolling, AppliesPosture, PostureToCome

\* Until the first request comes in, a device is one that nobody asks anything.
Unasked ==
  ~asked => /\ \A r \in Requests : task[r].step = "done"
            /\ mode # "join" => AloneInv

LEMMA UnaskedInit == Init => Unasked
<1>1. Init => \A r \in Requests : task[r].step = "done"
  BY StoppedInit, TaskIds DEF Stopped
<1> QED
  BY <1>1, AloneInit DEF Unasked

LEMMA UnaskedStep ==
  ASSUME TypeInv, Unasked, [Next]_vars
  PROVE  Unasked'
<1>1. ASSUME \/ MainStep \/ EnrollFails \/ \E t \in Joining : JoinStep(t)
             \/ SyncStep \/ SetupAPStep
      PROVE  Unasked'
  BY <1>1, OwnStepKeepsRequests, AloneOwn DEF Unasked
<1>2. ASSUME NEW r \in Requests, Request(r)
      PROVE  asked'
  <2>1. CASE task[r].step = "done"
    BY <1>2, <2>1
    DEF Request, SetActiveHome, DeleteHome, PostProfile, CompleteSetup, FactoryReset,
        Arrives, Asked, SetActiveWrite, SetActiveApply, DeleteWrite, PostApply, Disable,
        Posture, PostureRead, PostureApply, At
  <2>2. CASE task[r].step # "done"
    <3>1. asked
      BY <2>2 DEF Unasked
    <3> QED
      BY <1>2, <2>2, <3>1
      DEF Request, SetActiveHome, DeleteHome, PostProfile, CompleteSetup, FactoryReset,
          Arrives, SetActiveWrite, SetActiveApply, DeleteWrite, PostApply, Disable,
          Posture, PostureRead, PostureApply, At, rest
  <2> QED
    BY <2>1, <2>2
<1>3. ASSUME NEW h \in Homes, AddHome(h)
      PROVE  asked'
  BY <1>3 DEF AddHome, Asked
<1>4. CASE Crash
  <2>1. \A r \in Requests : task'[r].step = "done"
    BY <1>4, StoppedCrash, TaskIds DEF Stopped
  <2>2. mode' = mode
    BY <1>4 DEF Crash
  <2> QED
    BY <1>4, <2>1, <2>2, RestartAlone DEF Unasked
<1>5. CASE UNCHANGED vars
  <2>1. UNCHANGED AloneInv
    BY <1>5
    DEF vars, store, device, rest, AloneInv, Places, JoinersWait, Undecided, SeenActive,
        ChoosesOthers, Followed, AppliesPosture
  <2> QED
    BY <1>5, <2>1 DEF vars, rest, Unasked
<1> QED
  BY <1>1, <1>2, <1>3, <1>4, <1>5 DEF Next, Unasked

\* Whatever requests were served, overlapped or were cut off before a restart, and
\* whatever role they left the device in: the restarted device gets the posture of
\* its active Home (applyPosture at boot), if it joins nothing from a list.
THEOREM RestartRestoresPosture == Spec => []PostureRestored
<1>1. TypeInv /\ Unasked => PostureRestored
  <2> SUFFICES ASSUME Unasked, AtRest, ~asked, mode # "join", active # None
               PROVE  posture = DecideRole(active)
    BY DEF PostureRestored
  <2>1. \A t \in Joining \cup {Main} :
          task[t].step \in {"done", "onboard", "enroll", "sync"}
    BY TaskIds DEF AtRest
  <2> QED
    BY <2>1 DEF Unasked, AloneInv, Followed, AppliesPosture, PostureToCome
<1>2. Init => TypeInv /\ Unasked
  BY TypeInit, UnaskedInit
<1>3. TypeInv /\ Unasked /\ [Next]_vars => TypeInv' /\ Unasked'
  BY TypeStep, UnaskedStep
<1> QED
  BY <1>1, <1>2, <1>3, PTL DEF Spec

-----------------------------------------------------------------------------
(* The choice of the active Home *)

Choosing == {"select_list", "select_set"}

NoneChooses == \A t \in Tasks : task[t].step \notin Choosing

\* Task t goes on with step s.
MovesTo(t, s) ==
  \E h, seen, next, fallback : Moved(t, s, h, seen, next, fallback)

LEMMA ChoosesAnew ==
  ASSUME TypeInv, NEW t \in Tasks, NEW s, NEW h, NEW seen, NEW next, NEW fallback,
         Moved(t, s, h, seen, next, fallback), s \notin Choosing,
         \A u \in Tasks : task[u].step \notin Choosing
  PROVE  NoneChooses'
BY DEF Moved, NoneChooses

\* No task that finds an active Home chooses one.
LEMMA SettledStep ==
  ASSUME TypeInv, Settled, Next
  PROVE  NoneChooses'
<1>1. /\ TypeOK /\ task \in [Tasks -> Work] /\ active # None
      /\ \A u \in Tasks : task[u].step \notin Choosing /\ task[u].then \notin Choosing
      /\ {Main, Sync, APTask} \cup Joining \cup Requests \subseteq Tasks
  BY TaskIds DEF TypeInv, TypeOK, HomeNamed, Settled, Choosing, Later, Writes
<1>2. ASSUME NEW t \in Tasks, NEW s, NEW h, NEW seen, NEW next, NEW fallback,
             Moved(t, s, h, seen, next, fallback), s \notin Choosing
      PROVE  NoneChooses'
  BY <1>1, <1>2, ChoosesAnew
<1>3. ASSUME NEW t \in Tasks, Posture(t)
      PROVE  NoneChooses'
  <2>1. CASE PostureRead(t)
    BY <1>1, <1>2, <2>1, ReadMoves DEF Choosing
  <2>2. CASE PostureApply(t)
    <3>1. /\ task[t].then \notin Choosing /\ "done" \notin Choosing
      BY <1>1 DEF Choosing
    <3> QED
      BY <1>1, <1>2, <2>2, <3>1, PostureApplyMoves
  <2> QED
    BY <1>3, <2>1, <2>2 DEF Posture
<1>4. ASSUME NEW t \in Tasks, Selection(t) \/ Disable(t)
      PROVE  NoneChooses'
  <2>1. ~SelectList(t) /\ ~SelectSet(t)
    BY <1>1 DEF SelectList, SelectSet, At, Choosing
  <2>2. CASE Select(t)
    BY <1>1, <1>2, <2>2, SelectionMoves DEF StaysThen, Choosing
  <2>3. CASE RetireRead(t) \/ RetireSet(t) \/ Disable(t) \/ SelectApply(t)
    BY <1>1, <1>2, <2>3, SelectionMoves DEF Stays, StaysThen, Choosing
  <2> QED
    BY <1>4, <2>1, <2>2, <2>3 DEF Selection
<1>5. ASSUME NEW t \in Tasks, Join(t)
      PROVE  NoneChooses'
  <2>1. Joined \notin Choosing
    BY DEF Joined, Choosing
  <2> QED
    BY <1>1, <1>2, <1>5, <2>1, JoinMoves DEF Join, Stays, Choosing
<1>6. CASE Boot \/ OnboardTick \/ OnboardDecide \/ Claim \/ EnrollFails
  <2>1. {"posture_read", "done", "onboard_decide", "enroll", "select", "onboard",
         "disable"} \cap Choosing = {}
    BY DEF Choosing
  <2>4. ASSUME NEW s, s \notin Choosing, MovesTo(Main, s)
        PROVE  NoneChooses'
    BY <1>1, <1>2, <2>4 DEF MovesTo
  <2>2. CASE OnboardDecide
    <3>1. MovesTo(Main, "enroll") \/ MovesTo(Main, "select") \/ MovesTo(Main, "onboard")
      BY <1>1, <2>2, MainMoves DEF Stays, MovesTo
    <3> QED
      BY <2>1, <2>4, <3>1
  <2>3. CASE Boot \/ OnboardTick \/ Claim \/ EnrollFails
    <3>1. \/ MovesTo(Main, "posture_read") \/ MovesTo(Main, "done")
          \/ MovesTo(Main, "onboard_decide") \/ MovesTo(Main, "disable")
          \/ MovesTo(Main, "onboard")
      BY <1>1, <2>3, MainMoves DEF Stays, StaysThen, MovesTo
    <3> QED
      BY <2>1, <2>4, <3>1
  <2> QED
    BY <1>6, <2>2, <2>3
<1>7. CASE Start
  <2>1. \A t \in Tasks : Started(t) \notin Choosing
    BY <1>1 DEF Started, Choosing
  <2> QED
    BY <1>1, <1>7, <2>1, StartMoves DEF NoneChooses
<1>8. CASE StartSync
  BY <1>1, <1>8, StartSyncMoves DEF NoneChooses, Choosing
<1>9. CASE SyncStep \/ SetupAPStep
  BY <1>1, <1>9
  DEF NoneChooses, SyncStep, SyncRead, SyncStore, SyncApply, SetupAPStep, ReadSetupComplete,
      EnableSetupAP, Goes, GoesFor, Ends, Idle, Choosing, Work
<1>10. ASSUME NEW r \in Requests, Request(r)
       PROVE  NoneChooses'
  <2>1. CASE Disable(r) \/ Posture(r)
    BY <1>1, <1>3, <1>4, <2>1
  <2>2. CASE ~Disable(r) /\ ~Posture(r)
    BY <1>1, <1>10, <2>2
    DEF NoneChooses, Request, SetActiveHome, DeleteHome, PostProfile, SetActiveWrite,
        SetActiveApply, DeleteWrite, PostApply, CompleteSetup, FactoryReset, Goes,
        GoesFor, Ends, Idle, Choosing, Work
  <2> QED
    BY <2>1, <2>2
<1>11. ASSUME NEW h \in Homes, AddHome(h)
       PROVE  NoneChooses'
  BY <1>1, <1>11 DEF AddHome, NoneChooses
<1>12. CASE Crash
  BY <1>12, StoppedCrash DEF Stopped, NoneChooses, Choosing
<1> QED
  BY <1>1, <1>3, <1>4, <1>5, <1>6, <1>7, <1>8, <1>9, <1>10, <1>11, <1>12
  DEF Next, MainStep, JoinStep

\* What a claim on the operator's choice comes to with requests, restarts and joins
\* at any moment: an active Home that no selection under way has missed
\* (autoSelectHome reads, then writes) is replaced by requests only, and no
\* selection misses it later.
THEOREM ChoiceStandsOnceSettled == Spec => SettledChoiceStands
<1>1. ASSUME TypeInv, Settled, Next, active' # None
      PROVE  Settled' /\ (active' # active => \E r \in Requests : At(r, "set_write"))
  <2>1. Settled'
    BY <1>1, SettledStep DEF Settled, NoneChooses, Choosing
  <2>2. ASSUME active' # active
        PROVE  \E r \in Requests : SetActiveWrite(r)
    <3>1. \A t \in Tasks : ~SelectSet(t)
      BY <1>1 DEF Settled, SelectSet, At
    <3> QED
      BY <1>1, <2>2, <3>1, TaskIds
      DEF Next, MainStep, Boot, Start, Posture, PostureRead, PostureApply, Selection,
          Select, SelectList, RetireRead, RetireSet, SelectApply, Disable, OnboardTick,
          OnboardDecide, Join, Enrolled, Record, StoreProfile, JoinApply, Claim,
          StartSync, EnrollFails, JoinStep, SyncStep, SyncRead, SyncStore, SyncApply,
          SetupAPStep, ReadSetupComplete, EnableSetupAP, Request, SetActiveHome,
          DeleteHome, PostProfile, SetActiveApply, DeleteWrite, PostApply,
          CompleteSetup, FactoryReset, AddHome, Crash, store, device
  <2> QED
    BY <2>1, <2>2 DEF SetActiveWrite
<1>2. TypeInv /\ [Next]_vars
        => [Settled => \/ active' = None
                       \/ /\ Settled'
                          /\ active' # active => \E r \in Requests : At(r, "set_write")]_vars
  BY <1>1
<1>3. Spec => []TypeInv
  BY TypeInit, TypeStep, PTL DEF Spec
<1> QED
  BY <1>2, <1>3, PTL DEF Spec, SettledChoiceStands

-----------------------------------------------------------------------------
(* The setup AP of a claimed device *)

\* A setup AP that is down, with no goroutine on its way to bring it up, stays down
\* until a factory reset, however often the device restarts or completes its setup
\* again: the goroutine of every later boot reads setup_complete first.
THEOREM RetiredStaysRetired == Spec => SetupAPStaysDown
<1>1. ASSUME TypeInv, Retired, complete', Next
      PROVE  Retired'
  <2>1. /\ task \in [Tasks -> Work] /\ TypeOK
        /\ {Main, Sync, APTask} \cup Joining \cup Requests \subseteq Tasks
        /\ APTask \notin {Main, Sync} \cup Joining \cup Requests
    BY <1>1, TaskIds DEF TypeInv, TypeOK
  <2>2. complete /\ setupAP = FALSE /\ task[APTask].step # "ap_enable"
    BY <1>1, <2>1 DEF Retired, At, TypeOK
  <2>3. setupAP' = FALSE
    BY <1>1, <2>2
    DEF Next, MainStep, Boot, Start, Posture, PostureRead, PostureApply, Selection,
        Select, SelectList, SelectSet, RetireRead, RetireSet, SelectApply, Disable,
        OnboardTick, OnboardDecide, Join, Enrolled, Record, StoreProfile, JoinApply,
        Claim, StartSync, EnrollFails, JoinStep, SyncStep, SyncRead, SyncStore,
        SyncApply, SetupAPStep, ReadSetupComplete, EnableSetupAP, Request,
        SetActiveHome, DeleteHome, PostProfile, SetActiveWrite, SetActiveApply,
        DeleteWrite, PostApply, CompleteSetup, FactoryReset, AddHome, Crash, At,
        store, device
  <2>4. CASE Start
    <3>1. Started(APTask) = "ap_read"
      BY DEF Started
    <3> QED
      BY <1>1, <2>1, <2>3, <2>4, <3>1, StartMoves DEF Retired, At
  <2>5. CASE Crash
    BY <1>1, <2>1, <2>3, <2>5, StoppedCrash DEF Stopped, Retired, At
  <2>6. CASE SetupAPStep
    <3>1. Ends(APTask)
      BY <2>2, <2>6 DEF SetupAPStep, ReadSetupComplete, EnableSetupAP, At
    <3> QED
      BY <1>1, <2>1, <2>3, <3>1, EndsMoves DEF Moved, Retired, At
  <2>7. CASE ~Start /\ ~Crash /\ ~SetupAPStep
    <3>1. task'[APTask] = task[APTask]
      BY <1>1, <2>1, <2>7
      DEF Next, MainStep, Boot, Posture, PostureRead, PostureApply, Selection,
          Select, SelectList, SelectSet, RetireRead, RetireSet, SelectApply, Disable,
          OnboardTick, OnboardDecide, Join, Enrolled, Record, StoreProfile, JoinApply,
          Claim, StartSync, EnrollFails, JoinStep, SyncStep, SyncRead, SyncStore,
          SyncApply, Request, SetActiveHome, DeleteHome, PostProfile, SetActiveWrite,
          SetActiveApply, DeleteWrite, PostApply, CompleteSetup, FactoryReset, AddHome,
          Goes, GoesFor, Postures, Ends
    <3> QED
      BY <1>1, <2>2, <2>3, <3>1 DEF Retired, At
  <2> QED
    BY <2>4, <2>5, <2>6, <2>7
<1>2. TypeInv /\ [Next]_vars => [Retired /\ complete' => Retired']_vars
  BY <1>1
<1>3. Spec => []TypeInv
  BY TypeInit, TypeStep, PTL DEF Spec
<1> QED
  BY <1>2, <1>3, PTL DEF Spec, SetupAPStaysDown

=============================================================================
