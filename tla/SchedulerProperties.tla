------------------------ MODULE SchedulerProperties ------------------------
(***************************************************************************)
(* What the controller of module ChaosScheduler is meant to guarantee.     *)
(***************************************************************************)
EXTENDS ChaosScheduler

-----------------------------------------------------------------------------
(***************************************************************************)
(* Safety.                                                                 *)
(***************************************************************************)

\* Halting takes effect: after the user halts, stops, completes or deletes a
\* schedule, each scheduler process makes at most one more engine, the one of
\* a reconcile that had already got its status update accepted.  Stale
\* caches, retries and restarts add none, because createEngineRepeat and
\* createForNowAndOnce write the status before they decide anything.
AtMostOneLateEngine == \A c \in Controllers : late[c] <= 1

\* No handler undoes a halt: createNewEngine and createForNowAndOnce set
\* spec.scheduleState to active on the copy they read long before, and that
\* write never lands on an object the user has halted, stopped or completed
\* meanwhile.  Only a user's edit makes a schedule active.
OnlyUserActivates ==
  [][IsActive(sched') /\ ~IsActive(sched)
       => spent'["edit"] # spent["edit"]]_vars

\* Every recorded run of a repeat schedule is a new one: runInstances grows
\* by one, and with it lastScheduleTime strictly, whatever stale copies,
\* competing processes or retries do; nothing else moves lastScheduleTime.
EachRunIsNew ==
  [][IsRepeat =>
       \/ sched'.runs = sched.runs /\ sched'.last = sched.last
       \/ sched'.runs = sched.runs + 1 /\ sched'.last > sched.last]_vars

\* A repeat schedule's engines are scheduled inside its time range, although
\* the clock is read for the end-time check, again for the tick or the included
\* days and hours, for the wait, and for the distance to the end.  The start
\* is a lower bound: the minute ahead of it that a comment in schedule speaks
\* of does not exist (StartsAhead).
EnginesInTimeRange ==
  IsRepeat =>
    \A u \in DOMAIN engines :
      /\ engines[u].name >= getTimeHash(StartAt)
      /\ EndTime # NoTime => engines[u].name <= getTimeHash(EndTime)

\* status.active of a repeat schedule holds at most the engine of the last
\* recorded run: lastScheduleTime is the second in that engine's name.
ActiveIsLastRun ==
  IsRepeat =>
    \A u \in sched.active :
      /\ u \in DOMAIN engines
      /\ engines[u].name = getTimeHash(sched.last)
      /\ sched.active = {u}

\* The "Forbid" default of createEngineRepeat: no two engines of a schedule
\* run at the same time.
NoConcurrentEngines ==
  \A u, v \in RunningEngines : u = v

\* Forbid as far as status.active can carry it: when caches catch up during
\* the sleep of createNewEngine, an engine starts beside another only if the
\* record of a run was lost, to a crash, a failing call or a user's edit
\* between the two writes, and each such loss costs one engine at most.
\* Retries under the same name, engines deleted by hand and missed ticks
\* cost none.
OverlapsAreLostRecords ==
  Cardinality(RunningEngines)
    <= 1 + spent["crash"] + spent["error"] + spent["edit"]

\* The comment in schedule: "Chaos is being started 1 min before the scheduled
\* time", the minute being "lead".  From then on a reconcile of an active repeat
\* schedule goes on to make the engine and does not put it off.
StartsAhead(lead) ==
  \A c \in Controllers :
    /\ Reconcile(c)
    /\ schedCache[c].exists /\ IsActive(schedCache[c])
    /\ IsRepeat /\ now >= StartAt - lead
    => task'[c].pc = "repeat"

\* now and once: as long as the schedule is not deleted, no restart, retry,
\* stale cache or second process makes a second engine, because its name is
\* the schedule's; each engine the user deletes allows one more.
RunsOnce ==
  ~IsRepeat /\ sched.exists /\ ~sched.deleting
    => Len(engines) <= 1 + spent["reap"]

\* The README's account of status.schedule.status: a schedule is completed
\* only when none of its engines is running.
CompletedMeansQuiet ==
  sched.exists /\ sched.status = "completed" => live \subseteq done

\* Work hours: every engine of a repeat schedule is scheduled at an instant
\* inside the included days and hours.
ScheduledInWorkTimes ==
  IsRepeat => \A u \in DOMAIN engines :
                2 * engines[u].name \in WorkDays \cap WorkHours

-----------------------------------------------------------------------------
(***************************************************************************)
(* Refinement.                                                             *)
(***************************************************************************)
Lifecycle ==
  INSTANCE ScheduleLifecycle WITH object <- [sched EXCEPT !.rv = 0]

\* Every write that any process gets through, from whatever stale copy,
\* retry or restart it comes, is one step of the abstract life cycle: a run
\* entered, the list refreshed, a halt reported, the schedule ended when it is
\* over, an owned engine made inside the time range.
ImplementsLifecycle == Lifecycle!Spec

-----------------------------------------------------------------------------
(***************************************************************************)
(* The inductive invariant behind the safety properties.                   *)
(***************************************************************************)

\* The objects whose status the handlers could have written by now.
Plausible ==
  {v \in ChaosSchedule :
     /\ v.last <= now
     /\ IsRepeat =>
          /\ v.last # NoTime => v.last >= StartAt
          /\ \A u \in v.active : /\ u \in DOMAIN engines
                                 /\ engines[u].name = getTimeHash(v.last)
                                 /\ v.active = {u}}

\* The copies of the object that a cache or a handler may hold: not newer
\* than the object, and the object itself if they carry its version.
Known ==
  {v \in Plausible : v.rv <= sched.rv /\ (v.rv = sched.rv => v = sched)}

\* Labels at which the handler finds out whether a run is due.
Finding == {"unmet", "hours", "inside", "outside", "wait", "decide"}

\* Labels between reading an active schedule and the last write about it.
Running ==
  {"now", "engine", "repeat", "range", "create", "record"} \cup Finding

\* There is nothing left to run, and there never will be.
Over == IF IsRepeat THEN EndPassed ELSE done # {}

\* What the local state of a handler promises at each label.
SoundTask ==
  {t \in Task :
     /\ t.inst \in Known
     /\ t.pc \in Running => IsActive(t.inst)
     /\ t.pc \in {"halt", "complete"} => t.inst.state = t.pc
     /\ t.pc \in {"finish", "retry"} => Over
     /\ t.pc \in {"now", "engine"} => ~IsRepeat
     /\ t.pc \in {"repeat", "range"} \cup Finding =>
          IsRepeat /\ StartAt < now
     /\ t.pc \in {"hours", "inside", "outside"} => t.inst.last = NoTime
     /\ t.pc = "decide" => t.due - t.wait <= now
     /\ t.pc \in {"create", "record"} => t.due \in Nat /\ t.due <= now
     /\ IsRepeat /\ t.pc \in {"wait", "decide", "create", "record"} =>
          /\ t.due \in Nat
          /\ Second(t.due) > t.inst.last
          /\ t.due >= StartAt
     /\ IsRepeat /\ t.pc \in {"create", "record"} =>
          /\ t.inst.active = {}
          /\ EndTime # NoTime => t.due <= EndTime
     /\ t.pc = "record" =>
          /\ t.uid \in DOMAIN engines
          /\ IsRepeat => engines[t.uid].name = getTimeHash(t.due)}

\* The handler has had its write accepted and may still create an engine.
InFlight(t) ==
  \/ t.pc \in {"engine", "create"} \cup Finding
  \/ t.pc = "range" /\ ~t.inst.deleting

\* A process that has made its late engine is out of flight, and stays so:
\* nobody but the user ends the stop.
LateOK(c) ==
  /\ late[c] <= 1
  /\ late[c] = 1 => Stopped /\ ~InFlight(task[c])

\* A completion that a process has seen has happened.
CachesLag == \A c \in Controllers : engCache[c].done \subseteq done

\* The inductive invariant: optimistic concurrency makes every copy that the
\* server would accept the current object, so what a handler derived from
\* its copy still holds when it writes.
Inv ==
  /\ TypeOK
  /\ sched.rv >= 1 /\ sched \in Known
  /\ schedCache \in [Controllers -> Known]
  /\ task \in [Controllers -> SoundTask]
  /\ CachesLag
  /\ \A c \in Controllers : LateOK(c)
  /\ EnginesInTimeRange

-----------------------------------------------------------------------------
(***************************************************************************)
(* The inductive invariant behind OverlapsAreLostRecords, for a single     *)
(* process c: every engine that runs without holding the next run back has *)
(* been paid for by a loss.                                                *)
(***************************************************************************)
Losses == spent["crash"] + spent["error"] + spent["edit"]

\* The handler has looked at the end time and has yet to record its run.
Deciding == {"create", "record"} \cup Finding

\* The engine that a handler has just made, or else those of status.active
\* that the process can see, keep Forbids from starting another.
Held(c) ==
  IF task[c].pc \in {"record", "sleep"}
  THEN {task[c].uid}
  ELSE sched.active \cap engCache[c].live

Unheld(c) == RunningEngines \ Held(c)

\* The object has changed since the handler's write: the record of the run
\* it may be making will be refused.  The edit that did it is not spent yet.
Overtaken(c) ==
  (InFlight(task[c]) \/ task[c].pc = "record") /\ task[c].inst # sched

Slack(c) == Losses - (IF Overtaken(c) THEN 1 ELSE 0)

\* No further engine will be made.
Ended(c) == EndPassed /\ task[c].pc \notin Deciding

\* Nobody else writes status.active: a handler's copy holds the object's.
OwnList(c) ==
  LET t == task[c] IN
  /\ t.pc \in Deciding \cup {"range"} =>
       t.inst.exists /\ t.inst.active = sched.active
  /\ t.pc \in Deciding => ~t.inst.deleting
  /\ t.pc = "sleep" => sched.active = {t.uid}

\* Completing the schedule at its end empties the list under a running
\* engine, so that from then on only the total counts.
Accounted(c) ==
  IF Ended(c) THEN Cardinality(RunningEngines) <= 1 + Losses
              ELSE Cardinality(Unheld(c)) <= Slack(c)

\* A running engine of a repeat schedule is held or paid for: each crash,
\* failing call and edit leaves at most one engine outside status.active, the
\* one whose record it lost, and no other step does.
LossesPay ==
  IsRepeat =>
    /\ \A u \in DOMAIN engines : engines[u].labelled
    /\ \A c \in Controllers : OwnList(c) /\ Accounted(c)

-----------------------------------------------------------------------------
(***************************************************************************)
(* Liveness.  The machinery is fair: workers run, watches deliver, timers  *)
(* fire, the informers resync, the garbage collector works, the clock      *)
(* runs, and the chaos-operator ends every run.  Users, crashes and        *)
(* failing calls are not.                                                  *)
(***************************************************************************)
Fairness ==
  /\ WF_vars(Tick /\ UNCHANGED ctrlVars)
  /\ WF_vars(CollectSchedule /\ UNCHANGED ctrlVars)
  /\ WF_vars((\E u \in live : CollectEngine(u)) /\ UNCHANGED ctrlVars)
  /\ WF_vars((\E u \in live : FinishEngine(u)) /\ UNCHANGED ctrlVars)
  /\ \A c \in Controllers :
       /\ WF_vars(Handler(c))
       /\ WF_vars(WatchSchedule(c))
       /\ WF_vars(WatchEngines(c))
       /\ WF_vars(TimerFires(c))
       /\ WF_vars(Resync(c))

FairSpec == Spec /\ Fairness

\* No run is lost for good: once a cron tick inside the time range is past,
\* an active repeat schedule that has started makes an engine for it or for a
\* later tick, unless an engine that went missing after the tick stands for
\* it.  An engine deleted by hand never leaves the schedule "stuck in active
\* mode forever" (updateStatus.go), and neither does a run whose record was
\* lost, although it is retried under a name that is taken.
TicksAreServed ==
  \A t \in CronTicks :
    (kind = "repeat" /\ sched.last # NoTime /\ t <= now
       /\ (EndTime # NoTime => t <= EndTime))
      ~> (\/ \E u \in DOMAIN engines : engines[u].name >= getTimeHash(t)
          \/ sched.lastDone >= t
          \/ Stopped)

\* A schedule that is halted is reported halted, unless the user has moved on
\* or a completion that was under way when the halt came has ended it.
HaltIsReported ==
  (sched.exists /\ sched.state = "halt")
    ~> (~sched.exists \/ sched.state # "halt" \/ sched.status = "halted")

\* A schedule that is set to complete is reported completed, unless the user
\* has moved on.
CompleteIsReported ==
  (sched.exists /\ sched.state = "complete")
    ~> (\/ ~sched.exists \/ sched.state # "complete"
        \/ sched.status = "completed")

\* A repeat schedule does not stay active past its end time, although the
\* timer set for the end may fire early, the status write may meet conflicts
\* until the retries are used up, and a requeue after zero is no requeue.
EndTimeCompletes ==
  (IsRepeat /\ EndTime # NoTime /\ now > EndTime
     /\ sched.exists /\ IsActive(sched))
    ~> (~sched.exists \/ ~IsActive(sched))

\* A now or once schedule runs its engine and is then completed, whatever
\* restarts and failing calls come between.
RunThenCompleted ==
  (kind \in {"now", "once"} /\ sched.exists /\ IsActive(sched))
    ~> (~sched.exists \/ sched.state \in {"halt", "stop"}
          \/ (sched.status = "completed" /\ done # {}))

\* Deleting the schedule removes its engines for good (README).
DeletionCollectsEngines ==
  (~sched.exists) ~> [](live = {})

=============================================================================
