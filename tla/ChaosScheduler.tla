--------------------------- MODULE ChaosScheduler ---------------------------
(***************************************************************************)
(* The ChaosSchedule controller: Reconcile and everything it calls, run by *)
(* each scheduler process on its own work queue and its own caches.        *)
(*                                                                         *)
(* A reconcile is cut where another actor can come between: at every call  *)
(* to the API server and at every reading of the clock that a later branch *)
(* compares with an earlier one.  Work on the in-memory copy is done in    *)
(* the step that sends it, so task[c].inst is always a version of the      *)
(* object that the API server once held.                                   *)
(***************************************************************************)
EXTENDS Cluster

CONSTANTS
  StartTime,        \* spec.schedule.repeat.timeRange.startTime, or NoTime
  EndTime,          \* spec.schedule.repeat.timeRange.endTime, or NoTime
  ExecutionTime,    \* spec.schedule.once.executionTime
  CronTicks,        \* the instants that match the schedule's cron string
  WorkDays,         \* the instants inside the included days
  WorkHours,        \* the instants inside the included hours
  MinChaosInterval, \* the requeue duration scheduleRepeat derives
  Attempts,         \* how often UpdateSchedulerStatus retries a conflict
  SyncPeriod,       \* from when on the informers replay their stores
  PromptWatch,      \* whether a watch event arrives within the 1 s sleep
  OverridesLabels,  \* whether the schedule has labels app or chaosUID itself
  MaxCrashes,       \* bound: process restarts
  MaxErrors         \* bound: API calls that fail or whose reply is lost

WholeSecond(t) == t \in Nat /\ t % 2 = 0

\* A cron string matches whole minutes, and always some later one.
ASSUME CronAssumption ==
  /\ \A t \in CronTicks : WholeSecond(t)
  /\ \A t \in 0..MaxTime : \E u \in CronTicks :
       u > t /\ \A v \in CronTicks : v > t => u <= v
  /\ \A t \in 0..MaxTime : (\E u \in CronTicks : u <= t) =>
       \E u \in CronTicks : u <= t /\ \A v \in CronTicks : v <= t => v <= u

ASSUME SchedulerAssumption ==
  /\ StartTime = NoTime \/ WholeSecond(StartTime)
  /\ EndTime = NoTime \/ WholeSecond(EndTime)
  /\ WholeSecond(ExecutionTime)
  /\ MinChaosInterval \in Nat \ {0}
  /\ Attempts \in Nat \ {0}
  /\ SyncPeriod \in Nat
  /\ PromptWatch \in BOOLEAN /\ OverridesLabels \in BOOLEAN
  /\ MaxCrashes \in Nat /\ MaxErrors \in Nat

VARIABLES
  task,    \* what each process's single worker is doing
  queued,  \* whether the schedule is in the process's work queue
  timer,   \* when the delaying queue adds it again, or NoTime
  late     \* history: engines each process made since the user stopped it

ctrlVars == <<task, queued, timer, late>>

vars == <<clusterVars, ctrlVars>>

Labels ==
  {"idle", "reject", "halt", "complete", "now", "engine", "repeat", "range",
   "unmet", "hours", "inside", "outside", "wait", "decide", "create",
   "record", "sleep", "finish", "retry"}

IdleTask ==
  [pc |-> "idle", inst |-> Absent, due |-> NoTime, wait |-> 0, uid |-> 0,
   tries |-> 0]

Task ==
  [pc : Labels, inst : ChaosSchedule, due : Time, wait : Int, uid : Nat,
   tries : Nat]

TypeOK ==
  /\ ClusterTypeOK
  /\ task \in [Controllers -> Task]
  /\ queued \in [Controllers -> BOOLEAN]
  /\ timer \in [Controllers -> Time]
  /\ late \in [Controllers -> Nat]

Init ==
  /\ ClusterInit
  /\ task = [c \in Controllers |-> IdleTask]
  /\ queued = [c \in Controllers |-> FALSE]
  /\ timer = [c \in Controllers |-> NoTime]
  /\ late = [c \in Controllers |-> 0]

-----------------------------------------------------------------------------
(***************************************************************************)
(* The work queue.  A reconcile that returns RequeueAfter > 0 is added to  *)
(* the delaying queue, which keeps the earliest time of an item; one that  *)
(* returns an error is queued again (the back-off is any delay); one that  *)
(* returns neither is forgotten until the next event.                      *)
(***************************************************************************)
AddAfter(c, d) ==
  timer' = [timer EXCEPT ![c] =
              IF d > 0 /\ (@ = NoTime \/ now + d < @) THEN now + d ELSE @]

Return(c, requeueAfter) ==
  /\ task' = [task EXCEPT ![c] = IdleTask]
  /\ AddAfter(c, requeueAfter)

Done(c, requeueAfter) == Return(c, requeueAfter) /\ UNCHANGED queued

Fail(c) ==
  /\ task' = [task EXCEPT ![c] = IdleTask]
  /\ queued' = [queued EXCEPT ![c] = TRUE]
  /\ UNCHANGED timer

At(c, l) == task[c].pc = l

Goto(c, l) ==
  /\ task' = [task EXCEPT ![c].pc = l]
  /\ UNCHANGED <<queued, timer>>

\* Start the handler at l with the instance that was read.
Enter(c, l, s) ==
  /\ task' = [task EXCEPT ![c] = [IdleTask EXCEPT !.pc = l, !.inst = s]]
  /\ UNCHANGED timer

Dequeue(c) ==
  /\ At(c, "idle") /\ queued[c]
  /\ queued' = [queued EXCEPT ![c] = FALSE]

\* client.Update succeeds and refreshes the instance with the reply.
Update(c, l, v) ==
  /\ Accepts(v)
  /\ sched' = Stored(v)
  /\ task' = [task EXCEPT ![c].pc = l, ![c].inst = Stored(v)]
  /\ UNCHANGED <<queued, timer>>

\* client.Update succeeds and the handler returns.
UpdateAndReturn(c, v) ==
  /\ Accepts(v)
  /\ sched' = Stored(v)
  /\ Done(c, 0)

\* client.Update is answered Conflict or NotFound and the handler returns it.
UpdateRefused(c, v) == ~Accepts(v) /\ Fail(c) /\ UNCHANGED sched

-----------------------------------------------------------------------------
(***************************************************************************)
(* Reconcile: read the instance from the cache and branch on its state.    *)
(***************************************************************************)
IsActive(s) == s.state \in {"", "active"}

IsRepeat == kind \in {"repeat", "badrepeat", "baddays", "badhours"}

\* The instant before which a repeat schedule waits.
StartAt == IF StartTime # NoTime THEN StartTime ELSE CreationTimestamp

checkScheduleStatus(s, st) == s.status = st

schedule(c, s) ==
  \/ kind = "now" /\ Enter(c, "now", s)
  \/ kind = "once" /\ ExecutionTime < now /\ Enter(c, "now", s)
  \/ kind = "once" /\ ExecutionTime >= now /\ Return(c, ExecutionTime - now)
  \/ IsRepeat /\ StartAt < now /\ Enter(c, "repeat", s)
  \/ IsRepeat /\ StartAt >= now /\ Return(c, StartAt - now)
  \/ kind = "none" /\ Enter(c, "reject", s)

reconcileForCreationAndRunning(c, s) == IsActive(s) /\ schedule(c, s)

\* The instance is read from the process's cache, however old that is.
getChaosSchedulerInstance(c) == schedCache[c]

\* An object that is gone, stopped, or reported as what it is needs nothing.
Reconcile(c) ==
  LET s == getChaosSchedulerInstance(c)
      halting == s.state = "halt" /\ ~checkScheduleStatus(s, "halted")
      ending == s.state = "complete" /\ ~checkScheduleStatus(s, "completed")
  IN
  /\ Dequeue(c)
  /\ \/ s.exists /\ reconcileForCreationAndRunning(c, s)
     \/ s.exists /\ halting /\ Enter(c, "halt", s)
     \/ s.exists /\ ending /\ Enter(c, "complete", s)
     \/ /\ ~s.exists \/ ~(IsActive(s) \/ halting \/ ending)
        /\ Return(c, 0)
  /\ UNCHANGED <<clusterVars, late>>

\* ScheduleType should be one of ('now', 'once', 'repeat').
schedule_Reject(c) ==
  /\ At(c, "reject")
  /\ Fail(c)
  /\ UNCHANGED <<clusterVars, late>>

\* The variables a step that calls Update leaves alone.
updateFrame == <<now, kind, engineVars, cacheVars, spent, late>>

reconcileForHalt(c) ==
  LET v == [task[c].inst EXCEPT !.status = "halted"] IN
  /\ At(c, "halt")
  /\ UpdateAndReturn(c, v) \/ UpdateRefused(c, v)
  /\ UNCHANGED updateFrame

\* With engines in status.active only the in-memory list is refreshed, and
\* dropped with the instance: nothing is written.
reconcileForComplete(c) ==
  LET v == [task[c].inst EXCEPT !.status = "completed"] IN
  /\ At(c, "complete")
  /\ \/ v.active # {} /\ Done(c, 0) /\ UNCHANGED sched
     \/ v.active = {} /\ (UpdateAndReturn(c, v) \/ UpdateRefused(c, v))
  /\ UNCHANGED updateFrame

-----------------------------------------------------------------------------
(***************************************************************************)
(* updateStatus.go                                                         *)
(***************************************************************************)
\* Fault: a finished engine is not told from a running one.
IsEngineFinished_Never(u, view) == FALSE

\* A stopped engine does not count as finished.
IsEngineFinished(u, view) == u \in view.done

\* Fault: references to engines that no longer exist are kept.
updateActiveStatus_KeepMissing(s, view) ==
  [s EXCEPT !.active = {u \in @ : ~IsEngineFinished(u, view)}]

\* References to finished engines and to engines the List does not return are
\* dropped; only the latter set status.lastScheduleCompletionTime.
updateActiveStatus(s, view) ==
  LET childrenJobs == {u \in view.live : engines[u].labelled} IN
  [s EXCEPT
     !.active = {u \in @ : u \in childrenJobs /\ ~IsEngineFinished(u, view)},
     !.lastDone = IF s.active \subseteq childrenJobs THEN @ ELSE Second(now)]

\* Fault: the word for the state is written into the status.
Completed_WrongWord(s) ==
  [s EXCEPT !.status = "complete", !.state = "complete", !.active = {}]

Completed(s) ==
  [s EXCEPT !.status = "completed", !.state = "complete", !.active = {}]

\* A conflict starts the retry loop; any other error of this Update is
\* swallowed and the handler returns as if the status had been written.
UpdateSchedulerStatus(c) ==
  LET v == Completed(task[c].inst) IN
  /\ At(c, "finish")
  /\ \/ UpdateAndReturn(c, v)
     \/ Conflicts(v) /\ Goto(c, "retry") /\ UNCHANGED sched
     \/ ~sched.exists /\ Done(c, 0) /\ UNCHANGED sched
  /\ UNCHANGED updateFrame

\* One attempt: read the cache again, whatever it holds, and complete that.
UpdateSchedulerStatus_Retry(c) ==
  LET v == getChaosSchedulerInstance(c) IN
  /\ At(c, "retry")
  /\ \/ v.exists /\ UpdateAndReturn(c, Completed(v))
     \/ /\ ~v.exists \/ ~Accepts(v)
        /\ IF task[c].tries + 1 < Attempts
           THEN /\ task' = [task EXCEPT ![c].tries = @ + 1]
                /\ UNCHANGED <<queued, timer>>
           ELSE Fail(c)
        /\ UNCHANGED sched
  /\ UNCHANGED updateFrame

-----------------------------------------------------------------------------
(***************************************************************************)
(* Creating an engine, for every schedule type.                            *)
(***************************************************************************)
\* The schedule is one the controller should make no further engine for.
\* createForNowAndOnce never looks at the deletionTimestamp.
Stopped ==
  \/ ~sched.exists
  \/ ~IsActive(sched)
  \/ sched.deleting /\ IsRepeat

\* Fault: the engine is made without a controller reference.
getEngineFromTemplate_Orphan(n) ==
  [name |-> n, owned |-> FALSE, labelled |-> TRUE]

\* Fault: the engine is made without labels.
getEngineFromTemplate_Bare(n) ==
  [name |-> n, owned |-> TRUE, labelled |-> FALSE]

\* The schedule's labels are copied over the controller's own.
getEngineFromTemplate(n) ==
  [name |-> n, owned |-> TRUE, labelled |-> ~OverridesLabels]

\* client.Create of the engine named n; AlreadyExists is returned as an error.
CreateEngine(c, n) ==
  /\ \/ /\ ~NameTaken(n)
        /\ engines' = Append(engines, getEngineFromTemplate(n))
        /\ live' = live \cup {Len(engines')}
        /\ late' = IF Stopped THEN [late EXCEPT ![c] = @ + 1] ELSE late
        /\ task' = [task EXCEPT ![c].pc = "record", ![c].uid = Len(engines')]
        /\ UNCHANGED <<queued, timer>>
     \/ /\ NameTaken(n)
        /\ Fail(c)
        /\ UNCHANGED <<engines, live, late>>
  /\ UNCHANGED <<now, kind, sched, done, stopped, cacheVars, spent>>

\* The run as it is entered into the status.
\* Fault: a conflict is met by sending the same copy under the current version.
Recorded_Forced(s, due, uid) ==
  [s EXCEPT !.rv = sched.rv, !.state = "active", !.status = "running",
            !.last = Second(due), !.active = @ \cup {uid}]

Recorded(s, due, uid) ==
  [s EXCEPT !.state = "active", !.status = "running", !.last = Second(due),
            !.active = @ \cup {uid}]

\* Fault: the handler goes on without writing the refreshed status.
PersistActiveStatus_Unwritten(c, l) ==
  Goto(c, l) /\ UNCHANGED sched /\ UNCHANGED updateFrame

\* The refreshed status is written before anything is decided on it: the
\* write is refused unless the instance is the current version.
PersistActiveStatus(c, l) ==
  LET v == updateActiveStatus(task[c].inst, engCache[c]) IN
  /\ Update(c, l, v) \/ UpdateRefused(c, v)
  /\ UNCHANGED updateFrame

-----------------------------------------------------------------------------
(***************************************************************************)
(* createEngineForNowAndOnce.go                                            *)
(***************************************************************************)
createForNowAndOnce_Update(c) ==
  At(c, "now") /\ PersistActiveStatus(c, "engine")

\* Look the engine up in the cache by the schedule's own name.
createForNowAndOnce_Get(c) ==
  LET view == engCache[c]
      found == {u \in view.live : engines[u].name = BareName}
      finished == {u \in found : IsEngineFinished(u, view)}
  IN
  /\ At(c, "engine")
  /\ \/ /\ found = {}
        /\ task' = [task EXCEPT ![c].pc = "create", ![c].due = now]
        /\ UNCHANGED <<queued, timer>>
     \/ found # {} /\ found = finished /\ Goto(c, "finish")
     \/ found # finished /\ Done(c, 0)
  /\ UNCHANGED <<clusterVars, late>>

\* Fault: the engine is named after the time of the attempt.
createForNowAndOnce_Create_TimeName(c) ==
  At(c, "create") /\ ~IsRepeat /\ CreateEngine(c, task[c].due \div 2)

createForNowAndOnce_Create(c) ==
  At(c, "create") /\ ~IsRepeat /\ CreateEngine(c, BareName)

createForNowAndOnce_Record(c) ==
  LET v == Recorded(task[c].inst, task[c].due, task[c].uid) IN
  /\ At(c, "record") /\ ~IsRepeat
  /\ UpdateAndReturn(c, v) \/ UpdateRefused(c, v)
  /\ UNCHANGED updateFrame

-----------------------------------------------------------------------------
(***************************************************************************)
(* createEngineForRepeat.go                                                *)
(***************************************************************************)
\* cron.Schedule.Next: the first matching instant after t.
NextTick(t) ==
  CHOOSE u \in CronTicks : u > t /\ \A v \in CronTicks : v > t => u <= v

\* Where the loop over Next ends when it has passed a tick: the latest one.
LatestTick(t) ==
  CHOOSE u \in CronTicks : u <= t /\ \A v \in CronTicks : v <= t => v <= u

\* What the tick of the next run is, or was, when there has been a run.
getRecentUnmetScheduleTime(s) ==
  LET previousTime == LatestTick(now) IN
  IF NextTick(s.last) > now THEN NextTick(s.last)
  ELSE IF s.lastDone # NoTime /\ s.lastDone >= previousTime
       THEN NextTick(previousTime) ELSE previousTime

\* The instant after which the first tick is looked for.
EarliestTime ==
  IF StartTime # NoTime /\ CreationTimestamp <= StartTime
  THEN StartTime ELSE CreationTimestamp

getTimeHash(t) == t \div 2

createEngineRepeat_Update(c) ==
  At(c, "repeat") /\ PersistActiveStatus(c, "range")

\* Fault: the end time is not looked at.
EndPassed_Never == FALSE

EndPassed == EndTime # NoTime /\ now > EndTime

createEngineRepeat_Range(c) ==
  /\ At(c, "range")
  /\ \/ EndPassed /\ Goto(c, "finish")
     \/ ~EndPassed /\ task[c].inst.deleting /\ Done(c, 0)
     \/ ~EndPassed /\ ~task[c].inst.deleting /\ Goto(c, "unmet")
  /\ UNCHANGED <<clusterVars, late>>

\* The due time is known; how far away it is takes a reading of its own.
DueAt(c, due) ==
  /\ task' = [task EXCEPT ![c].pc = "wait", ![c].due = due]
  /\ UNCHANGED <<queued, timer>>

\* scheduleRepeat, and getRecentUnmetScheduleTime for a run after the first.
createEngineRepeat_Unmet(c) ==
  LET s == task[c].inst IN
  /\ At(c, "unmet")
  /\ \/ kind = "badrepeat" /\ Fail(c)
     \/ /\ kind # "badrepeat" /\ s.last # NoTime
        /\ DueAt(c, getRecentUnmetScheduleTime(s))
  /\ UNCHANGED <<clusterVars, late>>

\* The first run: is today included?  cron may accept days that
\* isWeekdayPossible fails on.
firstScheduleTime_Days(c) ==
  /\ At(c, "unmet")
  /\ kind # "badrepeat" /\ task[c].inst.last = NoTime
  /\ \/ kind = "baddays" /\ Fail(c)
     \/ /\ kind # "baddays"
        /\ Goto(c, IF now \in WorkDays THEN "hours" ELSE "outside")
  /\ UNCHANGED <<clusterVars, late>>

\* Is the hour, when it is looked at?
firstScheduleTime_Hours(c) ==
  /\ At(c, "hours")
  /\ \/ kind = "badhours" /\ Fail(c)
     \/ /\ kind # "badhours"
        /\ Goto(c, IF now \in WorkHours THEN "inside" ELSE "outside")
  /\ UNCHANGED <<clusterVars, late>>

\* Inside the included days and hours the first engine is due at once.
firstScheduleTime_Inside(c) ==
  /\ At(c, "inside")
  /\ DueAt(c, now)
  /\ UNCHANGED <<clusterVars, late>>

\* Outside them at the first tick, or at once if that tick has passed.
firstScheduleTime_Outside(c) ==
  LET nextTime == NextTick(EarliestTime) IN
  /\ At(c, "outside")
  /\ DueAt(c, IF nextTime > now THEN nextTime ELSE now)
  /\ UNCHANGED <<clusterVars, late>>

\* time.Until the due time, a moment after that was found.
createEngineRepeat_Wait(c) ==
  /\ At(c, "wait")
  /\ task' = [task EXCEPT ![c].pc = "decide", ![c].wait = task[c].due - now]
  /\ UNCHANGED <<queued, timer>>
  /\ UNCHANGED <<clusterVars, late>>

\* Fault: the distance to the end time is not compared with the wait.
EndsFirst_Never(wait) == FALSE

\* The clock is read again for the distance to the end time.
EndsFirst(wait) == EndTime # NoTime /\ EndTime - now < wait

\* Fault: the list of active engines is not looked at.
Forbids_Nothing(s) == FALSE

Forbids(s) == s.active # {}

createEngineRepeat_Decide(c) ==
  LET wait == task[c].wait
      held == wait > 0 \/ Forbids(task[c].inst)
  IN
  /\ At(c, "decide")
  /\ \/ EndsFirst(wait) /\ Done(c, EndTime - now)
     \/ ~EndsFirst(wait) /\ held /\ Done(c, wait)
     \/ ~EndsFirst(wait) /\ ~held /\ Goto(c, "create")
  /\ UNCHANGED <<clusterVars, late>>

createNewEngine_Create(c) ==
  At(c, "create") /\ IsRepeat /\ CreateEngine(c, getTimeHash(task[c].due))

createNewEngine_Record(c) ==
  LET v == [Recorded(task[c].inst, task[c].due, task[c].uid)
              EXCEPT !.runs = @ + 1]
  IN
  /\ At(c, "record") /\ IsRepeat
  /\ Update(c, "sleep", v) \/ UpdateRefused(c, v)
  /\ UNCHANGED updateFrame

\* The end of the one-second sleep that lets the caches catch up.
createNewEngine_Wake(c) ==
  /\ At(c, "sleep")
  /\ PromptWatch => engCache[c] = Engines
  /\ Done(c, MinChaosInterval)
  /\ UNCHANGED <<clusterVars, late>>

Handler(c) ==
  \/ Reconcile(c) \/ schedule_Reject(c)
  \/ reconcileForHalt(c) \/ reconcileForComplete(c)
  \/ UpdateSchedulerStatus(c) \/ UpdateSchedulerStatus_Retry(c)
  \/ createForNowAndOnce_Update(c) \/ createForNowAndOnce_Get(c)
  \/ createForNowAndOnce_Create(c) \/ createForNowAndOnce_Record(c)
  \/ createEngineRepeat_Update(c) \/ createEngineRepeat_Range(c)
  \/ createEngineRepeat_Unmet(c)
  \/ firstScheduleTime_Days(c) \/ firstScheduleTime_Hours(c)
  \/ firstScheduleTime_Inside(c) \/ firstScheduleTime_Outside(c)
  \/ createEngineRepeat_Wait(c) \/ createEngineRepeat_Decide(c)
  \/ createNewEngine_Create(c) \/ createNewEngine_Record(c)
  \/ createNewEngine_Wake(c)

-----------------------------------------------------------------------------
(***************************************************************************)
(* What happens to a process besides its handlers.                         *)
(***************************************************************************)
\* For and Owns: an event of the schedule or of one of its engines.
WatchSchedule(c) ==
  /\ SyncSchedule(c)
  /\ queued' = [queued EXCEPT ![c] = TRUE]
  /\ UNCHANGED <<task, timer, late>>

WatchEngines(c) ==
  /\ SyncEngines(c)
  /\ queued' = [queued EXCEPT ![c] = TRUE]
  /\ UNCHANGED <<task, timer, late>>

TimerFires(c) ==
  /\ timer[c] # NoTime /\ timer[c] <= now
  /\ timer' = [timer EXCEPT ![c] = NoTime]
  /\ queued' = [queued EXCEPT ![c] = TRUE]
  /\ UNCHANGED <<clusterVars, task, late>>

\* The informers replay their stores every SyncPeriod (10 h by default): at
\* no set instant, but never in the first moments of a process.
Resync(c) ==
  /\ now >= SyncPeriod
  /\ schedCache[c].exists /\ ~queued[c]
  /\ queued' = [queued EXCEPT ![c] = TRUE]
  /\ UNCHANGED <<clusterVars, task, timer, late>>

\* The process dies and is started again: the worker and the queue are lost,
\* and the first listing of the caches queues every object.
Restart(c) ==
  /\ spent["crash"] < MaxCrashes
  /\ Spend("crash")
  /\ task' = [task EXCEPT ![c] = IdleTask]
  /\ timer' = [timer EXCEPT ![c] = NoTime]
  /\ queued' = [queued EXCEPT ![c] = schedCache[c].exists]
  /\ UNCHANGED <<now, kind, sched, engineVars, cacheVars, late>>

\* An API call fails, or succeeds with its reply lost: the handler gives up
\* before the call it is about to make, or right after the last one it made.
\* (In the retry loop an error is one more attempt, like a stale read.)
ApiError(c) ==
  /\ spent["error"] < MaxErrors
  /\ ~At(c, "idle") /\ ~At(c, "reject") /\ ~At(c, "retry")
  /\ Spend("error")
  /\ IF At(c, "finish") THEN Done(c, 0) ELSE Fail(c)
  /\ UNCHANGED <<now, kind, sched, engineVars, cacheVars, late>>

\* A user's edit or deletion starts a new count of late engines.
UserStep ==
  /\ \/ \E s \in EditStates : UserEdit(s)
     \/ \E mode \in Deletions : UserDelete(mode)
  /\ late' = [c \in Controllers |-> 0]
  /\ UNCHANGED <<task, queued, timer>>

ClusterStep ==
  /\ Tick \/ EngineStep \/ CollectSchedule
  /\ UNCHANGED ctrlVars

ProcessStep(c) ==
  \/ Handler(c)
  \/ WatchSchedule(c) \/ WatchEngines(c) \/ TimerFires(c) \/ Resync(c)
  \/ Restart(c) \/ ApiError(c)

Next == UserStep \/ ClusterStep \/ \E c \in Controllers : ProcessStep(c)

Spec == Init /\ [][Next]_vars

=============================================================================
