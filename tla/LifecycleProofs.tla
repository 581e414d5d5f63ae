-------------------------- MODULE LifecycleProofs --------------------------
(***************************************************************************)
(* TLAPS proofs that ChaosScheduler implements the abstract life cycle of  *)
(* module ScheduleLifecycle, and that a now or once schedule runs once,    *)
(* for every value of the constants.  Both rest on the inductive invariant *)
(* proved in ChaosSchedulerProofs.                                         *)
(***************************************************************************)
EXTENDS ChaosSchedulerProofs

\* Tuples of variables are always expanded.
USE DEF engineVars, cacheVars

-----------------------------------------------------------------------------
(***************************************************************************)
(* The refinement mapping: the object without its resourceVersion.         *)
(***************************************************************************)
Object == [sched EXCEPT !.rv = 0]

\* The abstract step of a handler's write, or of a user's.
Writes ==
  /\ \/ Lifecycle!UserSets \/ Lifecycle!Delete \/ Lifecycle!Report
     \/ Lifecycle!Refresh \/ Lifecycle!Finish
     \/ \E u \in DOMAIN engines : Lifecycle!StartRun(u)
  /\ UNCHANGED <<now, kind, engines, done>>

\* What a step of the scheduler may look like from outside.
Appears ==
  \/ Writes
  \/ Lifecycle!EngineStep
  \/ Lifecycle!Environment
  \/ UNCHANGED <<now, kind, Object, engines, done>>

\* The predicates that both specifications define agree.
LEMMA SamePredicates ==
  /\ Lifecycle!IsRepeat = IsRepeat
  /\ Lifecycle!Over = Over
  /\ \A s : Lifecycle!IsActive(s) = IsActive(s)
<1>1. Lifecycle!IsRepeat = IsRepeat
  BY DEF Lifecycle!IsRepeat, IsRepeat
<1>2. \A s : Lifecycle!IsActive(s) = IsActive(s)
  BY DEF Lifecycle!IsActive, IsActive
<1>3. Lifecycle!Over = Over
  BY <1>1 DEF Lifecycle!Over, Over, EndPassed
<1> QED
  BY <1>1, <1>2, <1>3

\* The mapped object has every field of the real one but the version.
LEMMA ObjectFields ==
  ASSUME TypeOK
  PROVE  /\ Object.exists = sched.exists /\ Object.deleting = sched.deleting
         /\ Object.state = sched.state /\ Object.status = sched.status
         /\ Object.active = sched.active /\ Object.last = sched.last
         /\ Object.lastDone = sched.lastDone /\ Object.runs = sched.runs
BY DEF Object, TypeOK, ClusterTypeOK, ChaosSchedule

\* A write that the server accepts was made from the current object, and
\* what the mapped object becomes is what was sent.
LEMMA WriteAppears ==
  ASSUME Inv, NEW v \in ChaosSchedule, NEW w \in Known, v.rv = w.rv,
         Accepts(v), sched' = Stored(v)
  PROVE  /\ w = sched /\ sched.exists
         /\ Object' = [v EXCEPT !.rv = 0]
<1>1. w = sched /\ sched.exists
  BY AcceptedIsCurrent DEF Accepts
<1>2. Stored(v) = [v EXCEPT !.rv = Stored(v).rv]
  BY StoredFacts DEF Inv
<1>3. Object' = [v EXCEPT !.rv = 0]
  BY <1>2 DEF Object, ChaosSchedule
<1> QED
  BY <1>1, <1>3

-----------------------------------------------------------------------------
(***************************************************************************)
(* One lemma for each kind of step.                                        *)
(***************************************************************************)

\* A user's edit sets the state; a deletion marks or removes the object.
LEMMA UserAppears ==
  ASSUME Inv, UserStep
  PROVE  Appears
<1>1. sched \in ChaosSchedule
  BY DEF Inv, TypeOK, ClusterTypeOK
<1>2. UNCHANGED <<now, kind, engines, done>> /\ sched.exists
  BY DEF UserStep, UserEdit, UserDelete
<1>3. Object.exists
  BY <1>2, ObjectFields DEF Inv
<1>4. ASSUME NEW s \in EditStates, UserEdit(s) PROVE Writes
  <2>1. s \in {"", "active", "halt", "stop", "complete"}
    BY ClusterAssumption DEF ScheduleState
  <2>2. Object' = [Object EXCEPT !.state = s]
    BY <1>1, <1>4 DEF UserEdit, Object, ChaosSchedule
  <2> QED
    BY <1>2, <1>3, <2>1, <2>2 DEF Writes, Lifecycle!UserSets, Object
<1>5. ASSUME NEW mode \in Deletions, UserDelete(mode) PROVE Writes
  <2>1. \/ Object' = [Object EXCEPT !.deleting = TRUE]
        \/ Object' = [Object EXCEPT !.exists = FALSE]
    <3>1. CASE mode = "foreground"
      BY <1>1, <1>5, <3>1 DEF UserDelete, Object, ChaosSchedule
    <3>2. CASE mode # "foreground"
      BY <1>1, <1>5, <3>2 DEF UserDelete, Object, ChaosSchedule
    <3> QED
      BY <3>1, <3>2
  <2> QED
    BY <1>2, <1>3, <2>1 DEF Writes, Lifecycle!Delete, Object
<1> QED
  BY <1>4, <1>5 DEF UserStep, Appears

\* The clock and the chaos-operator move the environment; the garbage
\* collector's last step of a foreground deletion removes the object.
LEMMA ClusterAppears ==
  ASSUME Inv, ClusterStep
  PROVE  Appears
<1>1. sched \in ChaosSchedule /\ now \in Nat
  BY ConstantFacts DEF Inv, TypeOK, ClusterTypeOK
<1>2. CASE Tick \/ EngineStep
  <2>1. now' >= now /\ done \subseteq done' /\ UNCHANGED <<kind, sched, engines>>
    BY <1>1, <1>2 DEF Tick, EngineStep, ReapEngine, FinishEngine, StopEngine,
                      CollectEngine
  <2> QED
    BY <2>1 DEF Appears, Lifecycle!Environment
<1>3. CASE CollectSchedule
  <2>1. UNCHANGED <<now, kind, engines, done>> /\ sched.exists
    BY <1>3 DEF CollectSchedule
  <2>2. Object' = [Object EXCEPT !.exists = FALSE]
    BY <1>1, <1>3 DEF CollectSchedule, Object, ChaosSchedule
  <2>3. Object.exists
    BY <2>1, ObjectFields DEF Inv
  <2> QED
    BY <2>1, <2>2, <2>3 DEF Appears, Writes, Lifecycle!Delete, Object
<1> QED
  BY <1>2, <1>3 DEF ClusterStep

\* The writes that end a reconcile: halted, completed, and the schedule's end.
LEMMA StatusAppears ==
  ASSUME Inv, NEW c \in Controllers,
         \/ reconcileForHalt(c) \/ reconcileForComplete(c)
         \/ UpdateSchedulerStatus(c) \/ UpdateSchedulerStatus_Retry(c)
  PROVE  Appears
<1> DEFINE s == task[c].inst
<1>1. task[c] \in SoundTask /\ s \in Known /\ schedCache[c] \in Known
      /\ sched \in ChaosSchedule
  BY DEF Inv, SoundTask, TypeOK, ClusterTypeOK
<1>2. UNCHANGED <<now, kind, engines, done>>
  BY DEF reconcileForHalt, reconcileForComplete, UpdateSchedulerStatus,
         UpdateSchedulerStatus_Retry, updateFrame
<1>3. ASSUME UNCHANGED sched PROVE Appears
  BY <1>2, <1>3 DEF Appears, Object
<1>4. ASSUME NEW st \in {"halted", "completed"},
             UpdateAndReturn(c, [s EXCEPT !.status = st]),
             \/ st = "halted" /\ s.state = "halt"
             \/ st = "completed" /\ s.state = "complete" /\ s.active = {}
      PROVE  Appears
  <2> DEFINE v == [s EXCEPT !.status = st]
  <2>1. v \in ChaosSchedule /\ v.rv = s.rv
    BY <1>1 DEF Known, Plausible, ChaosSchedule, ChaosStatus
  <2>2. s = sched /\ sched.exists /\ Object' = [v EXCEPT !.rv = 0]
    BY <1>1, <1>4, <2>1, WriteAppears DEF UpdateAndReturn
  <2>3. Object' = [Object EXCEPT !.status = st]
    BY <1>1, <2>2 DEF Object, ChaosSchedule
  <2>4. Object.exists /\ Object.state = s.state /\ Object.active = s.active
    BY <2>2, ObjectFields DEF Inv
  <2> QED
    BY <1>2, <1>4, <2>3, <2>4 DEF Appears, Writes, Lifecycle!Report, Object
<1>5. ASSUME NEW w \in Known, UpdateAndReturn(c, Completed(w)), Over
      PROVE  Appears
  <2> DEFINE v == Completed(w)
  <2>1. v \in ChaosSchedule /\ v.rv = w.rv
    BY DEF Completed, Known, Plausible, ChaosSchedule, ChaosStatus, ScheduleState
  <2>2. w = sched /\ sched.exists /\ Object' = [v EXCEPT !.rv = 0]
    BY <1>5, <2>1, WriteAppears DEF UpdateAndReturn
  <2>3. Object' = [Object EXCEPT !.state = "complete", !.status = "completed",
                                 !.active = {}]
    BY <1>1, <2>2 DEF Completed, Object, ChaosSchedule
  <2>4. Object.exists
    BY <2>2, ObjectFields DEF Inv
  <2> QED
    BY <1>2, <1>5, <2>3, <2>4, SamePredicates
    DEF Appears, Writes, Lifecycle!Finish, Object
<1>6. CASE reconcileForHalt(c)
  <2>1. s.state = "halt"
    BY <1>1, <1>6 DEF reconcileForHalt, At, SoundTask
  <2> QED
    BY <1>3, <1>4, <1>6, <2>1 DEF reconcileForHalt, UpdateRefused
<1>7. CASE reconcileForComplete(c)
  <2>1. s.state = "complete"
    BY <1>1, <1>7 DEF reconcileForComplete, At, SoundTask
  <2>2. [s EXCEPT !.status = "completed"].active = s.active
    BY <1>1 DEF Known, Plausible, ChaosSchedule
  <2> QED
    BY <1>3, <1>4, <1>7, <2>1, <2>2 DEF reconcileForComplete, UpdateRefused
<1>8. CASE UpdateSchedulerStatus(c)
  <2>1. Over
    BY <1>1, <1>8 DEF UpdateSchedulerStatus, At, SoundTask
  <2> QED
    BY <1>1, <1>3, <1>5, <1>8, <2>1 DEF UpdateSchedulerStatus
<1>9. CASE UpdateSchedulerStatus_Retry(c)
  <2>1. Over
    BY <1>1, <1>9 DEF UpdateSchedulerStatus_Retry, At, SoundTask
  <2> QED
    BY <1>1, <1>3, <1>5, <1>9, <2>1
    DEF UpdateSchedulerStatus_Retry, getChaosSchedulerInstance
<1> QED
  BY <1>6, <1>7, <1>8, <1>9

\* The first write of both creating handlers refreshes the status.
LEMMA PersistAppears ==
  ASSUME Inv, NEW c \in Controllers,
         createForNowAndOnce_Update(c) \/ createEngineRepeat_Update(c)
  PROVE  Appears
<1> DEFINE s == task[c].inst
           v == updateActiveStatus(s, engCache[c])
<1>1. task[c] \in SoundTask /\ s \in Known /\ engCache[c] \in EngineView
      /\ sched \in ChaosSchedule /\ s \in ChaosSchedule
  BY DEF Inv, SoundTask, Known, Plausible, TypeOK, ClusterTypeOK
<1>2. UNCHANGED <<now, kind, engines, done>> /\ IsActive(s)
  BY <1>1 DEF createForNowAndOnce_Update, createEngineRepeat_Update, At,
              PersistActiveStatus, updateFrame, SoundTask, Running
<1>3. \/ Accepts(v) /\ sched' = Stored(v)
      \/ sched' = sched
  BY DEF createForNowAndOnce_Update, createEngineRepeat_Update,
         PersistActiveStatus, Update, UpdateRefused
<1>4. CASE sched' = sched
  BY <1>2, <1>4 DEF Appears, Object
<1>5. CASE Accepts(v) /\ sched' = Stored(v)
  <2>1. v \in ChaosSchedule /\ v.rv = s.rv
    BY <1>1, RefreshedFacts DEF Plausible
  <2>2. s = sched /\ sched.exists /\ Object' = [v EXCEPT !.rv = 0]
    BY <1>1, <1>5, <2>1, WriteAppears
  <2>3. /\ v = [s EXCEPT !.active = v.active, !.lastDone = v.lastDone]
        /\ v.active \subseteq s.active
        /\ v.lastDone \in {s.lastDone, Second(now)}
    BY <1>1 DEF updateActiveStatus, ChaosSchedule
  <2> HIDE DEF v
  <2>4. Object' = [Object EXCEPT !.active = v.active, !.lastDone = v.lastDone]
    BY <1>1, <2>2, <2>3 DEF Object, ChaosSchedule
  <2>5. Object.exists /\ IsActive(Object) /\ Object.active = s.active
        /\ Object.lastDone = s.lastDone
    BY <1>2, <2>2, ObjectFields DEF Inv, IsActive
  <2> QED
    BY <1>2, <2>3, <2>4, <2>5, SamePredicates
    DEF Appears, Writes, Lifecycle!Refresh, Object, Second
<1> QED
  BY <1>3, <1>4, <1>5

\* The last write of both creating handlers enters the run.
LEMMA RecordAppears ==
  ASSUME Inv, NEW c \in Controllers,
         createForNowAndOnce_Record(c) \/ createNewEngine_Record(c)
  PROVE  Appears
<1> DEFINE s == task[c].inst
           due == task[c].due
           u == task[c].uid
           v == Recorded(s, due, u)
           w == IF IsRepeat THEN [v EXCEPT !.runs = @ + 1] ELSE v
<1>1. task[c] \in SoundTask /\ task[c] \in Task /\ s \in Known
      /\ sched \in ChaosSchedule /\ s \in ChaosSchedule /\ now \in Nat
  BY ConstantFacts DEF Inv, SoundTask, Known, Plausible, TypeOK, ClusterTypeOK
<1>2. /\ UNCHANGED <<now, kind, engines, done>>
      /\ IsActive(s) /\ due \in Nat /\ due <= now /\ u \in Nat
      /\ u \in DOMAIN engines
      /\ IsRepeat => /\ s.active = {}
                     /\ Second(due) > s.last
                     /\ engines[u].name = getTimeHash(due)
  BY <1>1 DEF createForNowAndOnce_Record, createNewEngine_Record, At,
              updateFrame, SoundTask, Running, Task
<1>3. w \in ChaosSchedule /\ w.rv = s.rv
  <2>1. s \in ChaosSchedule /\ due \in Nat /\ u \in Nat
    BY <1>1, <1>2
  <2>2. v \in ChaosSchedule /\ v.rv = s.rv
    <3> HIDE DEF s, due, u
    <3> QED
      BY <2>1, RecordedFacts
  <2>3. /\ [v EXCEPT !.runs = @ + 1] \in ChaosSchedule
        /\ [v EXCEPT !.runs = @ + 1].rv = s.rv
    BY <2>1, CountedFacts
  <2> QED
    BY <2>2, <2>3
<1>4. \/ Accepts(w) /\ sched' = Stored(w)
      \/ sched' = sched
  <2>1. CASE createForNowAndOnce_Record(c)
    BY <2>1 DEF createForNowAndOnce_Record, UpdateAndReturn, UpdateRefused
  <2>2. CASE createNewEngine_Record(c)
    BY <2>2 DEF createNewEngine_Record, Update, UpdateRefused
  <2> QED
    BY <2>1, <2>2
<1>5. CASE sched' = sched
  BY <1>2, <1>5 DEF Appears, Object
<1>6. CASE Accepts(w) /\ sched' = Stored(w)
  <2> DEFINE t == Second(due)
  <2>1. s = sched /\ sched.exists /\ Object' = [w EXCEPT !.rv = 0]
    BY <1>1, <1>3, <1>6, WriteAppears
  <2>2. Object' =
          [Object EXCEPT
             !.state = "active", !.status = "running", !.last = t,
             !.active = @ \cup {u}, !.runs = IF IsRepeat THEN @ + 1 ELSE @]
    BY <1>1, <2>1 DEF Recorded, Object, ChaosSchedule
  <2>3. t \in 0..now
    BY <1>1, <1>2, SecondFacts
  <2>4. Object.exists /\ IsActive(Object) /\ Object.active = s.active
        /\ Object.last = s.last
    BY <1>2, <2>1, ObjectFields DEF Inv, IsActive
  <2>5. IsRepeat => /\ Object.active = {}
                    /\ t = 2 * engines[u].name /\ t > Object.last
    BY <1>2, <2>4 DEF Second, getTimeHash
  <2> HIDE DEF t
  <2>6. Lifecycle!StartRun(u)
    BY <2>2, <2>3, <2>4, <2>5, SamePredicates
    DEF Lifecycle!StartRun, Lifecycle!InstantOf, Object
  <2> QED
    BY <1>2, <2>6 DEF Appears, Writes
<1> QED
  BY <1>4, <1>5, <1>6

\* An engine is made for an instant of the time range that has come.
LEMMA CreateAppears ==
  ASSUME Inv, NEW c \in Controllers,
         createForNowAndOnce_Create(c) \/ createNewEngine_Create(c)
  PROVE  Appears
<1> DEFINE due == task[c].due
<1>1. task[c] \in SoundTask /\ now \in Nat
  BY ConstantFacts DEF Inv, TypeOK, ClusterTypeOK
<1>2. /\ due \in Nat /\ due <= now
      /\ IsRepeat => due >= StartAt /\ (EndTime # NoTime => due <= EndTime)
  BY <1>1 DEF createForNowAndOnce_Create, createNewEngine_Create, At, SoundTask
<1>3. PICK n : /\ CreateEngine(c, n)
               /\ n = IF IsRepeat THEN getTimeHash(due) ELSE BareName
  BY DEF createForNowAndOnce_Create, createNewEngine_Create
<1>4. UNCHANGED <<now, kind, sched, done>>
  BY <1>3 DEF CreateEngine
<1>5. CASE engines' = engines
  BY <1>4, <1>5 DEF Appears, Object
<1>6. CASE engines' = Append(engines, getEngineFromTemplate(n))
  <2> DEFINE e == getEngineFromTemplate(n)
  <2>1. e.name = n /\ e \in [name : {n}, owned : {TRUE}, labelled : BOOLEAN]
    BY DEF getEngineFromTemplate
  <2>2. n \in (0..now) \cup {BareName}
    BY <1>1, <1>2, <1>3 DEF getTimeHash
  <2>3. e \in [name : (0..now) \cup {BareName}, owned : {TRUE},
               labelled : BOOLEAN]
    BY <2>1, <2>2
  <2>4. IF IsRepeat
        THEN 2 * n \in StartAt..now /\ (EndTime # NoTime => 2 * n <= EndTime)
        ELSE n = BareName
    BY <1>1, <1>2, <1>3, ConstantFacts DEF getTimeHash
  <2> HIDE DEF e
  <2>5. Lifecycle!Make(e)
    BY <1>6, <2>1, <2>4, SamePredicates
    DEF Lifecycle!Make, Lifecycle!InstantOf, e
  <2> QED
    BY <1>4, <2>3, <2>5 DEF Appears, Lifecycle!EngineStep
<1> QED
  BY <1>3, <1>5, <1>6 DEF CreateEngine

-----------------------------------------------------------------------------
(***************************************************************************)
(* The refinement theorem.                                                 *)
(***************************************************************************)

\* The scheduler starts where the life cycle does.
LEMMA LifecycleInit == Init => Lifecycle!Init
<1> SUFFICES ASSUME Init PROVE Lifecycle!Init
  OBVIOUS
<1>1. Object.exists /\ ~Object.deleting /\ Object.status = ""
      /\ Object.active = {} /\ Object.last = NoTime
      /\ Object.lastDone = NoTime /\ Object.runs = 0
  BY DEF Init, ClusterInit, Absent, Object
<1> QED
  BY <1>1 DEF Init, ClusterInit, Lifecycle!Init, Object

\* Every step of the scheduler is a step of the life cycle, or none.
LEMMA LifecycleStep == Inv /\ [Next]_vars => [Lifecycle!Next]_Lifecycle!vars
<1> SUFFICES ASSUME Inv, [Next]_vars PROVE Appears
  BY DEF Appears, Writes, Object, Lifecycle!Next, Lifecycle!ScheduleStep,
         Lifecycle!vars
<1>1. ASSUME NEW c \in Controllers, ProcessStep(c) PROVE Appears
  <2>1. ASSUME UNCHANGED <<now, kind, sched, engines, done>> PROVE Appears
    BY <2>1 DEF Appears, Object
  <2>2. \/ reconcileForHalt(c) \/ reconcileForComplete(c)
        \/ UpdateSchedulerStatus(c) \/ UpdateSchedulerStatus_Retry(c)
        \/ createForNowAndOnce_Update(c) \/ createEngineRepeat_Update(c)
        \/ createForNowAndOnce_Record(c) \/ createNewEngine_Record(c)
        \/ createForNowAndOnce_Create(c) \/ createNewEngine_Create(c)
        \/ UNCHANGED <<now, kind, sched, engines, done>>
    BY <1>1 DEF ProcessStep, Handler, Reconcile, schedule_Reject,
         createForNowAndOnce_Get, createEngineRepeat_Range,
         createEngineRepeat_Unmet, firstScheduleTime_Days,
         firstScheduleTime_Hours, firstScheduleTime_Inside,
         firstScheduleTime_Outside, createEngineRepeat_Wait,
         createEngineRepeat_Decide,
         createNewEngine_Wake, WatchSchedule, SyncSchedule, WatchEngines,
         SyncEngines, TimerFires, Resync, Restart, ApiError, clusterVars
  <2> QED
    BY <2>1, <2>2, StatusAppears, PersistAppears, RecordAppears, CreateAppears
<1>2. CASE UserStep
  BY <1>2, UserAppears
<1>3. CASE ClusterStep
  BY <1>3, ClusterAppears
<1>4. CASE UNCHANGED vars
  BY <1>4 DEF vars, clusterVars, Appears, Object
<1> QED
  BY <1>1, <1>2, <1>3, <1>4 DEF Next

\* Seen from outside, the object and its engines change only by the steps of
\* the life cycle, whatever processes, caches, retries and crashes do.
THEOREM RefinesLifecycle == Spec => ImplementsLifecycle
BY LifecycleInit, LifecycleStep, InvHolds, PTL
DEF Spec, ImplementsLifecycle, Lifecycle!Spec

-----------------------------------------------------------------------------
(***************************************************************************)
(* now and once schedules run once.                                        *)
(***************************************************************************)

\* The schedule is deleted, or being deleted.
Gone == ~sched.exists \/ sched.deleting

\* Behind RunsOnce: every engine has the schedule's own name, so one exists
\* at a time, and as long as the garbage collector has nothing to do, an
\* engine that no longer exists was deleted by the user.
OneEngine ==
  ~IsRepeat =>
    /\ \A u \in DOMAIN engines : engines[u].name = BareName
    /\ \A u, v \in live : u = v
    /\ Gone \/ Len(engines) <= spent["reap"] + (IF live = {} THEN 0 ELSE 1)

\* No handler brings a deleted schedule back: from the life cycle, where
\* every write is to an object that exists and none ends a deletion.
LEMMA GoneForGood ==
  ASSUME Inv, [Next]_vars, Gone
  PROVE  Gone'
<1>1. sched \in ChaosSchedule /\ Object \in ChaosSchedule
  BY DEF Inv, TypeOK, ClusterTypeOK, Object, ChaosSchedule
<1>2. [Lifecycle!Next]_Lifecycle!vars
  BY LifecycleStep
<1>3. ~Object.exists \/ Object.deleting
  BY <1>1, ObjectFields DEF Gone, Inv
<1>4. Object' = Object \/ Object.exists
  BY <1>2 DEF Lifecycle!Next, Lifecycle!ScheduleStep, Lifecycle!EngineStep,
              Lifecycle!Environment, Lifecycle!vars, Lifecycle!UserSets,
              Lifecycle!Delete, Lifecycle!Report, Lifecycle!Refresh,
              Lifecycle!Finish, Lifecycle!StartRun, Object
<1>5. Object' = Object \/ Object'.deleting = Object.deleting \/ Object'.deleting
  BY <1>1, <1>2
  DEF Lifecycle!Next, Lifecycle!ScheduleStep, Lifecycle!EngineStep,
      Lifecycle!Environment, Lifecycle!vars, Lifecycle!UserSets,
      Lifecycle!Delete, Lifecycle!Report, Lifecycle!Refresh,
      Lifecycle!Finish, Lifecycle!StartRun, Object, ChaosSchedule
<1>6. sched'.exists = Object'.exists /\ sched'.deleting = Object'.deleting
  <2>1. TypeOK'
    BY NextInv DEF Inv
  <2> QED
    BY <2>1, ObjectFields
    DEF Object, TypeOK, ClusterTypeOK, ChaosSchedule
<1> QED
  BY <1>3, <1>4, <1>5, <1>6 DEF Gone

\* The steps that change which engines there are.
LEMMA EngineSteps ==
  ASSUME Inv, [Next]_vars
  PROVE  \/ UNCHANGED <<kind, engines, live>> /\ spent'["reap"] = spent["reap"]
         \/ \E u \in live : ReapEngine(u) \/ CollectEngine(u)
         \/ \E c \in Controllers : createForNowAndOnce_Create(c)
         \/ \E c \in Controllers : createNewEngine_Create(c)
<1> DEFINE Same == /\ UNCHANGED <<kind, engines, live>>
                   /\ spent'["reap"] = spent["reap"]
<1>1. spent \in [Spending -> Nat] /\ "reap" \in Spending
  BY DEF Inv, TypeOK, ClusterTypeOK, Spending
<1>2. CASE UserStep
  BY <1>1, <1>2 DEF UserStep, UserEdit, UserDelete, Spend
<1>3. CASE ClusterStep
  BY <1>1, <1>3 DEF ClusterStep, Tick, EngineStep, FinishEngine, StopEngine,
                    CollectSchedule, Spend
<1>4. ASSUME NEW c \in Controllers, ProcessStep(c),
             ~createForNowAndOnce_Create(c), ~createNewEngine_Create(c)
      PROVE  Same
  BY <1>1, <1>4
  DEF ProcessStep, Handler, Reconcile, schedule_Reject, reconcileForHalt,
      reconcileForComplete, UpdateSchedulerStatus,
      UpdateSchedulerStatus_Retry, createForNowAndOnce_Update,
      createForNowAndOnce_Get, createForNowAndOnce_Record,
      createEngineRepeat_Update, createEngineRepeat_Range,
      createEngineRepeat_Unmet, firstScheduleTime_Days,
      firstScheduleTime_Hours, firstScheduleTime_Inside,
      firstScheduleTime_Outside, createEngineRepeat_Wait,
      createEngineRepeat_Decide,
      createNewEngine_Record, createNewEngine_Wake, PersistActiveStatus,
      WatchSchedule, SyncSchedule, WatchEngines, SyncEngines, TimerFires,
      Resync, Restart, ApiError, Spend, clusterVars, updateFrame
<1>5. CASE UNCHANGED vars
  BY <1>5 DEF vars, clusterVars
<1> QED
  BY <1>2, <1>3, <1>4, <1>5 DEF Next

\* Every step keeps OneEngine.
LEMMA OneEngineStep == Inv /\ OneEngine /\ [Next]_vars => OneEngine'
<1> SUFFICES ASSUME Inv, OneEngine, [Next]_vars, ~IsRepeat'
             PROVE  OneEngine'
  BY DEF OneEngine
<1>1. /\ engines \in Seq(ChaosEngine) /\ Len(engines) \in Nat
      /\ live \subseteq 1..Len(engines) /\ spent["reap"] \in Nat
      /\ spent \in [Spending -> Nat] /\ "reap" \in Spending
      /\ DOMAIN engines = 1..Len(engines)
  BY DEF Inv, TypeOK, ClusterTypeOK, Spending
<1>2. Gone => Gone'
  BY GoneForGood
<1>3. CASE UNCHANGED <<kind, engines, live>> /\ spent'["reap"] = spent["reap"]
  BY <1>2, <1>3 DEF OneEngine, IsRepeat
<1>4. ASSUME NEW u \in live, ReapEngine(u) PROVE OneEngine'
  <2>1. /\ UNCHANGED <<kind, engines>> /\ live' = live \ {u}
        /\ spent'["reap"] = spent["reap"] + 1
    BY <1>1, <1>4 DEF ReapEngine, Spend
  <2>2. ~IsRepeat /\ live' = {}
    BY <2>1 DEF OneEngine, IsRepeat
  <2> QED
    BY <1>1, <1>2, <2>1, <2>2 DEF OneEngine
<1>5. ASSUME NEW u \in live, CollectEngine(u) PROVE OneEngine'
  <2>1. UNCHANGED <<kind, engines>> /\ live' \subseteq live /\ Gone
    BY <1>5 DEF CollectEngine, Gone
  <2> QED
    BY <1>2, <2>1 DEF OneEngine, IsRepeat
<1>6. ASSUME NEW c \in Controllers,
             createForNowAndOnce_Create(c) \/ createNewEngine_Create(c)
      PROVE  OneEngine'
  <2>1. ~IsRepeat /\ CreateEngine(c, BareName)
    <3>1. kind' = kind
      BY <1>6 DEF createForNowAndOnce_Create, createNewEngine_Create,
                  CreateEngine
    <3> QED
      BY <1>6, <3>1
      DEF createForNowAndOnce_Create, createNewEngine_Create, IsRepeat
  <2>2. CASE UNCHANGED <<engines, live>>
    BY <1>2, <2>1, <2>2 DEF CreateEngine, OneEngine, IsRepeat
  <2>3. CASE ~NameTaken(BareName)
    <3>1. live = {}
      BY <1>1, <2>1, <2>3 DEF NameTaken, OneEngine
    <3> DEFINE e == getEngineFromTemplate(BareName)
    <3>2. /\ engines' = Append(engines, e) /\ live' = live \cup {Len(engines')}
          /\ spent' = spent
      BY <2>1, <2>3 DEF CreateEngine
    <3>3. e \in ChaosEngine /\ e.name = BareName
      BY DEF getEngineFromTemplate, ChaosEngine
    <3> HIDE DEF e
    <3>4. /\ Len(engines') = Len(engines) + 1
          /\ DOMAIN engines' = 1..(Len(engines) + 1)
          /\ engines'[Len(engines) + 1] = e
          /\ \A i \in 1..Len(engines) : engines'[i] = engines[i]
      BY <1>1, <3>2, <3>3
    <3>5. \A i \in DOMAIN engines' : engines'[i].name = BareName
      BY <1>1, <2>1, <3>3, <3>4 DEF OneEngine
    <3>6. live' = {Len(engines')} /\ live' # {}
      BY <3>1, <3>2
    <3>7. Gone' \/ Len(engines') <= spent'["reap"] + 1
      BY <1>1, <1>2, <2>1, <3>1, <3>2, <3>4 DEF OneEngine
    <3> QED
      BY <3>5, <3>6, <3>7 DEF OneEngine
  <2> QED
    BY <2>1, <2>2, <2>3 DEF CreateEngine
<1> QED
  BY <1>3, <1>4, <1>5, <1>6, EngineSteps

\* A now or once schedule makes one engine, and one more for each that the
\* user deletes, whatever the number of processes, restarts and retries.
THEOREM RunsOnlyOnce == Spec => []RunsOnce
<1>1. Init => OneEngine
  BY DEF Init, ClusterInit, OneEngine, Spending
<1>2. Inv /\ OneEngine => RunsOnce
  <2> SUFFICES ASSUME Inv, OneEngine, ~IsRepeat, ~Gone
               PROVE  Len(engines) <= 1 + spent["reap"]
    BY DEF RunsOnce, Gone
  <2>1. Len(engines) \in Nat /\ spent["reap"] \in Nat
    BY DEF Inv, TypeOK, ClusterTypeOK, Spending
  <2> QED
    BY <2>1 DEF OneEngine
<1> QED
  BY <1>1, <1>2, OneEngineStep, InvHolds, PTL DEF Spec

=============================================================================
