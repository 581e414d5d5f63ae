# Chaos-scheduler in TLA+

A specification of the LitmusChaos chaos-scheduler (`src/controllers/` with the
types it works on), model-checked with TLC and proved about with TLAPS.

The program is one Kubernetes controller. Its code is short and sequential; what
makes it hard is where it runs: every read comes from a cache that may be old,
every write may be refused, the process may die between two calls, a second
process may be running, and users edit the object at any moment.

## Inventory

| Part | State | Operations | Talks to |
|---|---|---|---|
| Reconcile loop, `chaosschedule_controller.go` | the instance it has read | `Reconcile`, `reconcileForHalt`, `reconcileForComplete`, `reconcileForCreationAndRunning` | reads the cache, writes the schedule |
| Dispatch and template, `schedule.go` | - | `schedule`, `getEngineFromTemplate`, `getRef` | clock, work queue |
| now/once, `createEngineForNowAndOnce.go` | `status.active`, `lastScheduleTime` | `createForNowAndOnce` | two updates around a create |
| repeat, `createEngineForRepeat.go` | `status.active`, `lastScheduleTime`, `runInstances` | `createEngineRepeat`, `createNewEngine`, `getRecentUnmetScheduleTime`, `firstScheduleTime` | as above, and the clock, read four to seven times |
| Cron string and work window, same file | - (pure) | `scheduleRepeat`, `isWeekdayPossible`, `isHoursPossible`, `parseWeekdays`, `parseCronData` | robfig/cron |
| Status bookkeeping, `updateStatus.go` | `status.active`, `lastScheduleCompletionTime`, `status.schedule` | `updateActiveStatus`, `UpdateSchedulerStatus` with its retry loop | lists engines, writes the schedule |
| API types, `chaosschedule_types.go` | the object | - | - |
| Process, `main.go` | manager, caches, queue | start; leader election off by default | - |
| Generated code (`zz_generated.deepcopy.go`, `pkg/client`), manifests, CI | - | - | not modelled |

Surroundings, external to the repository and modelled from how it uses them: the
API server (optimistic concurrency on `resourceVersion`, unique names), two
informer caches per process, the delaying work queue, the garbage collector, the
chaos-operator (which completes engines, or stops one when the user asks) and the
user.

What is hard here (`PROJECT.json` lists each at its line): the crash between
creating an engine and recording it; two caches that lag independently; an edit
between the two writes of one reconcile; several readings of the clock in one
decision; `RequeueAfter <= 0`, which is no requeue; errors that
`UpdateSchedulerStatus` drops; overlapping processes; an engine that ends without
`completed`; labels of the schedule that hide its engines from the list.

What makes the parts correct:

* a halt, stop, completion or deletion takes effect, and no write undoes it;
* a run is recorded once, a `now`/`once` schedule runs once;
* engines of a `repeat` schedule lie in its time range, do not overlap, and no
  tick is lost for good;
* `status` tells the truth: `active` names the last run's engine, a halt or an
  end is reported, and nothing is left behind by a deletion.

## Modules

| Module | Contents |
|---|---|
| `Cluster` | the surroundings: object, engines, caches, clock, user, operator, collector |
| `ChaosScheduler` (EXTENDS `Cluster`) | the controller: one action per segment of a handler |
| `ScheduleLifecycle` | the abstract specification: what may happen to one schedule, seen from outside |
| `SchedulerProperties` | the properties, the refinement mapping, the inductive invariants `Inv` and `LossesPay`, the fairness |
| `CronString` | from `spec.schedule.repeat` to cron string, ticks and work window: pure operators |
| `WorkWindow` (EXTENDS `CronString`) | those operators over a week, with their properties |
| `ChaosSchedulerProofs` | the invariant `Inv` and what follows from it |
| `LifecycleProofs` (EXTENDS it) | the refinement, and one engine for now and once |
| `OverlapProofs` (EXTENDS that) | overlapping engines are lost records |
| `WorkWindowProofs` | the reading of days and hours, ticks inside them |
| `TickProofs` (EXTENDS it) | ticks exist and keep the interval |
| `MCScheduler`, `MCWorkWindow` | definitions for the TLC instances `MC*.cfg` |

Operators whose comment begins with "Fault:" are wrong variants of the definition
that follows them. No action uses them; they show that each property notices a bug.

### How the state corresponds to the code

`sched` is the `ChaosSchedule` in etcd: `rv` its resourceVersion, `state`
`spec.scheduleState`, `status` `status.schedule.status`, `active`, `last`
(`lastScheduleTime`), `lastDone` (`lastScheduleCompletionTime`), `runs`
(`runInstances`), `deleting` the deletionTimestamp. `kind` is the branch
`schedule` takes; `badrepeat` is a repeat schedule for which `scheduleRepeat` or
the cron parser returns an error, `baddays` and `badhours` one whose list cron
accepts and `isWeekdayPossible` or `isHoursPossible` fails on. `engines` is the history of all engines, the
index being the UID; `live`, `done` and `stopped` say which exist and which have the
`engineStatus` completed or stopped. An engine keeps its name, its owner reference
and whether it has the labels `updateActiveStatus` lists by.
`task[c]` is the worker of process `c` (MaxConcurrentReconciles is 1 by default):
`pc` is the place in the handler, `inst` is `cs.Instance`, `due`, `wait` and `uid`
its locals. `queued` and `timer` are the work queue and its delaying part.

The clock counts half seconds. `metav1.Time` is stored in whole seconds
(`Second`), engine names hold Unix seconds (`getTimeHash`), and `time.Now()` has
fractions: half seconds are the coarsest clock on which these three differ.

A handler is cut at every API call and at every reading of the clock that a later
branch compares with an earlier one. For a repeat schedule:

1. `Reconcile` (the start time);
2. `createEngineRepeat_Update` (list, refresh, first Update);
3. `_Range` (end time, line 35; deletionTimestamp);
4. `_Unmet` for a later run (line 147), or for the first one
   `firstScheduleTime_Days` (230), `_Hours` (251) and then `_Inside` (213) or
   `_Outside` (191/192 or 206/207: whether the tick has passed and, if so, what
   time it is, are one reading, since a tick that has passed stays past);
5. `_Wait` (64);
6. `_Decide` (distance to the end, line 66; wait, Forbid);
7. `createNewEngine_Create`, `_Record` (second Update), `_Wake` (the sleep,
   requeue).

Other steps come in between. The listing of engines and the Update that sends it form one step: the
copy the handler writes carries its resourceVersion from the earlier read, and a
list read earlier equals a list from a cache that syncs later, which is a
behaviour of the model too.

`late[c]` is a history variable: the engines process `c` made since the user's
last action, at moments when the schedule should make none.

### The abstract life cycle

`ScheduleLifecycle` has no caches, versions, workers, queues or crashes. The object
changes by a user's edit or deletion, a report of the halt or completion it asks for,
a refresh of `status.active` that only shrinks it, a run entered, or the end; engines
are made, owned, inside the time range; time passes and engines complete. Its guards
are the promises: `StartRun` needs an active object with an empty list and a new
`lastScheduleTime`, `Finish` needs a schedule that is over. `SchedulerProperties`
maps `object` to `sched` without the version. `Finish` does not require an active
object: the retry loop of `UpdateSchedulerStatus` completes also a schedule that the
user has halted since, and the abstract specification says so.

### The work window

`CronString` is the pure half of the repeat schedule. The included days and hours
are lists of items; an item keeps its words, whether it has a hyphen and its step,
which is what `parseWeekdays` and `parseCronData` (by the item's length and by
`Atoi`), `scheduleRepeat` (which appends `/n` to the text) and cron distinguish.
In `WorkWindow` the clock runs through one week, over and over.

The two halves meet in `MCScheduler`: `CronTicks`, `WorkHours` and
`MinChaosInterval` of every instance are what `CronString` computes from a repeat
specification on a small calendar (`CalendarAgrees`, which TLC evaluates). A
specification that is not `Parseable` is the kind `badrepeat`, one whose days or hours
are read as `"error"` is `baddays` or `badhours`; the ticks of what is `Parseable` satisfy `CronAssumption` (theorem `CronGivesTicks`).

### What is left out

* Events, logs, annotations, the engine template's contents, `startTime` and
  `endTime` of the status: nothing branches on them. Of the labels only one question
  is kept, whether the schedule's own override those of the controller.
* Edits of anything but `scheduleState`; any edit has the same effect on the
  version, so `"" -> active` serves as the harmless edit.
* `getRef` and `SetControllerReference` failing: the scheme is fixed at start.
* A cache jumps to the current object and may skip versions in between; it may
  also stay behind for any time. A restarted process keeps its old cache contents
  because the first list may be served from an equally old API-server cache.
* The duration of `time.Sleep(1s)`. With `PromptWatch` the sleep ends only once
  the engine cache has caught up, which is what the sleep is there for; without,
  anything goes.
* The number of attempts of the retry loop is the constant `Attempts`.
* The foreground deletion of a now or once schedule is in the model but in no
  instance: `createForNowAndOnce` does not look at the deletionTimestamp and makes
  the engine again that the collector has removed, so the graph is not finite.
  `RunsOnce` and `AtMostOneLateEngine` leave the case out and say so.
* Leader election. It is off by default, and `overlap` is about what happens without.
* The typed clientset, deepcopy functions and scheme registration: generated, and the
  controller calls none of the clientset.
* In the work window: white space and negative numbers (cron refuses both), leading
  zeros, and changes of the local time zone's offset.

## Runs

`tlc -workers 2 -config <cfg> MCScheduler` (`MCWorkWindow` for `MCWorkWindow.cfg`).
The instances of `MCScheduler` set `CHECK_DEADLOCK FALSE`: the clock is bounded, a finished or deleted schedule leaves nothing to do, and the
system may rightly stop.

| Run | Instance | Checks |
|---|---|---|
| `halt` (`MCHalt`) | repeat, start time 1 s, work hours from 2 s on, end time 3 s, 2 edits, 1 crash | `Inv`, `TypeOK`, `AtMostOneLateEngine`, `EnginesInTimeRange`, `ActiveIsLastRun`, `OnlyUserActivates` |
| `overlap` | two processes, now and repeat, 1 engine stopped | `RunsOnce`, `EachRunIsNew`, `ImplementsLifecycle` |
| `forbid` | repeat, prompt watches, 1 crash, 1 engine deleted by hand | `OverlapsAreLostRecords`, `LossesPay`, `TicksAreServed` |
| `lifecycle` | now, once, no type; labels overridden; 1 crash, 1 failing call, 1 engine deleted | `RunsOnce`, `RunThenCompleted` |
| `endings` | repeat, badrepeat, baddays and badhours, end time 1 s, 1 edit to any state or deletion in either mode | `HaltIsReported`, `EndTimeCompletes`, `DeletionCollectsEngines` |
| `work_window` (`MCWorkWindow`) | 110 pairs of days and hours, intervals in minutes, hours, both, none | `DocumentedFormsAgree`, `ArraysInBounds`, `TicksInWorkWindow`, `IntervalKept` |
| `forbid_edit` | repeat, prompt watches, 1 harmless edit | `NoConcurrentEngines` **violated** |
| `start_ahead` | repeat, start time 2 s | `ChaosStartsAhead` **violated** |
| `complete` | repeat, 1 edit to complete | `CompleteIsReported` **violated** |
| `end_while_running` | repeat, end time 1 s | `CompletedMeansQuiet` **violated** |
| `work_times` | repeat, work hours over after 2 s | `ScheduledInWorkTimes` **violated** |
| `stopped_engine` | repeat, prompt watches, 1 engine stopped | `TicksAreServed` **violated** |

The six violations are disagreements between the code and what its comments or
README say; `findings` quotes both sides:

1. *Forbid is not enforced across an edit.* If the user touches the schedule
   between the two writes, the engine exists and is not in `status.active`. The
   name that the comment in `createNewEngine` calls a lock does not help: the first
   run is named after the second of `time.Now()`, so its retry a second later makes
   another engine, and a later run is made again at the next tick. The same happens
   after a crash. `forbid` shows how far it goes, and `ForbidUpToLosses` proves it:
   `OverlapsAreLostRecords`, one engine for each lost record.
2. *No minute ahead.* "Chaos is being started 1 min before the scheduled time", says
   the comment in `schedule` (line 43). The code goes on only once the start time is
   strictly past (line 57), and `EnginesInTimeRange` shows that no engine is made
   before it.
3. *Complete does not complete.* `reconcileForComplete` refreshes `status.active`
   in memory, returns without writing it, and finds it non-empty again next time.
4. *Completed while running.* The end time completes the schedule under a running
   engine.
5. *Work hours and the first run.* When the first tick is already past,
   `firstScheduleTime` returns now, also outside the hours.
6. *A stopped engine stops the schedule.* `IsEngineFinished` knows only `completed`,
   so a stopped engine stays in `status.active` and Forbid holds every later tick back.
   `TicksAreServed` holds in `forbid`, where engines complete or are deleted.

`work_window` holds with two conditions that say where the code's promises end.
Ticks stay inside the listed hours (`TicksInWorkWindow`) with an interval in hours
only if the hours are one range: the step goes behind the last item, so `1,5` every
2 hours is `1,5/2`, that is 1, 5, 7, 9 up to 23. And `minChaosInterval` is a minimum
(`IntervalKept`) only if it divides the hour or the day: `*/45` fires at :45 and :00.

### Where the properties stop

* With engine caches that lag behind the one-second sleep, `updateActiveStatus` drops
  the reference of an engine it does not see, and the next run overlaps it. The code
  does this; the overlap properties assume `PromptWatch`, and `ActiveIsLastRun`, which
  an empty list satisfies, does not exclude it.
* The retry loop of `UpdateSchedulerStatus` may complete a schedule that the user has
  halted since. `HaltIsReported` and `ScheduleLifecycle` allow it; what is excluded is
  completing one that is not over.
* `TicksAreServed` counts a tick as served when `lastScheduleCompletionTime` is not
  before it, as `getRecentUnmetScheduleTime` does. An engine that went missing before
  a tick and is missed after it hides that tick.
* Labels that override the controller's own make a repeat schedule overlap its runs;
  `RunsOnce` and `RunThenCompleted` are checked with them, the overlap properties
  without.
* In `overlap` the clock allows one recorded run, and nobody edits; several runs, halts
  and end times with two processes rest on `RunsAreNew` and `RefinesLifecycle`.

### Bounds, and why they are enough

A cron "minute" is one or two seconds long (`EverySecond`, `EveryTwoSeconds`), so
that several ticks fit into a clock of 4 to 8 half seconds. One run needs one tick;
a second tick is needed to see a run repeated, skipped or overlapping, a third for
the run after an engine went missing (`forbid`: ticks at 0, 4 and, for the wait, 8).
One edit suffices to invalidate a copy; the second in `halt` lets the user resume.
One crash, one failing call and one deleted or stopped engine can each fall at any
label; two processes are the overlap of a rollout. `Attempts` is 2, one conflict and one more
try. `ControllerSymmetry` is sound where it is used: `overlap` checks no liveness,
processes are interchangeable, and `ScheduleLifecycle` does not mention them. `SyncPeriod` keeps the resync out of the first
moments, where it would only repeat the initial events; it limits no other action.
For safety, the theorems below remove these bounds. `MCWorkWindow` has days of four
hours of four minutes and real weeks: enough for a step inside, at the end of and
over a range, for divisors and non-divisors, and for values beyond the maximum.

### Fairness

`Fairness` gives weak fairness to what runs on its own: each process's worker, its
two watches, its timers and its resync; the garbage collector; the clock; and the
chaos-operator, assumed to complete every engine that nobody stops. Resync stands for
controller-runtime's `SyncPeriod` (10 hours unless set, and `main.go` does not set
it). It is needed: a `RequeueAfter` of zero or less (`createEngineForRepeat.go:67`,
`:80`, `schedule.go:35`, `:61`) and a write error dropped by
`UpdateSchedulerStatus` are made good by nothing else. Users, crashes and failing
calls have no fairness; they are bounded instead.

## Proofs

`tlapm ChaosSchedulerProofs.tla`, `tlapm LifecycleProofs.tla`,
`tlapm OverlapProofs.tla`. For every set of
processes, every set of cron ticks in which a next and a latest one exist, and all
bounds:

| Theorem | States |
|---|---|
| `InvHolds` | `Spec => []Inv` |
| `TypeCorrect` | `Spec => []TypeOK` |
| `HaltTakesEffect` | `Spec => []AtMostOneLateEngine` |
| `TimeRangeRespected` | `Spec => []EnginesInTimeRange` |
| `ActiveListCorrect` | `Spec => []ActiveIsLastRun` |
| `HaltIsNeverUndone` | `Spec => OnlyUserActivates` |
| `RunsAreNew` | `Spec => EachRunIsNew` |
| `RefinesLifecycle` | `Spec => ImplementsLifecycle` |
| `RunsOnlyOnce` | `Spec => []RunsOnce` |

and for a single process (`Controllers = {c}`) with `PromptWatch` and without
`OverridesLabels`:

| Theorem | States |
|---|---|
| `EveryOverlapIsPaid` | `Spec => []LossesPay` |
| `ForbidUpToLosses` | `Spec => []OverlapsAreLostRecords` |

`tlapm WorkWindowProofs.tla`, `tlapm TickProofs.tla`. For every calendar and every repeat specification,
with lists of any length:

| Theorem | States |
|---|---|
| `ArraysSafe` | `Spec => []ArraysInBounds` |
| `DocumentedFormsRead` | `Spec => []DocumentedFormsAgree` |
| `TicksInside` | `Spec => []TicksInWorkWindow` |
| `IntervalRespected` | `Spec => []IntervalKept` |
| `CronGivesTicks` | the ticks of whatever cron accepts satisfy `CronAssumption`, for every `MaxTime` |

Assumptions: `ClusterAssumption`, `CronAssumption`, `SchedulerAssumption`,
`CalendarAssumption`, `RepeatsAssumption`, which TLC evaluates in the runs.

*The invariant.* The argument is optimistic concurrency. `Known` says that a copy in
a cache or a handler is no newer than the object and equal to it when the versions
agree. Hence an accepted write was computed from the current object
(`AcceptedIsCurrent`), and what the handler derived from its copy holds of the
object: it is active, `status.active` is empty, the due second is after `last`.
`SoundTask` records these facts label by label; none of the properties is inductive
without them. For `AtMostOneLateEngine`, `LateOK` adds that a process that has made
its late engine is past its create and cannot get there again, since that takes an
accepted write of an active copy and the object is no longer active. For
`EnginesInTimeRange` the order of the readings matters: at `_Decide` `due - wait` is
the reading at `_Wait`, no later than now, so `EndTime - now < wait` catches every due time
after the end. `Over` and `CachesLag` carry the reason of a completion to its write: a
process that is about to complete has seen the end time pass or its engine complete,
and neither is ever undone.

Each kind of step has a lemma (`FindingStepInv` for those between two readings of the
clock, `LocalStep`, `WriteStep`, `WriteAndReturnStep`,
`WriteAndGoOnStep`, `EnvironmentStep`), each group of actions one that uses it, and
`NextInv` puts them together.

*The refinement.* `Appears` lists what a step may look like from outside: an abstract
write, an engine made, the environment, or nothing. `WriteAppears` turns an accepted
`Update` into the change of the mapped object; `StatusAppears`, `PersistAppears`,
`RecordAppears` and `CreateAppears` show for each handler that its write satisfies the
guard of the abstract action, from `SoundTask` at the label it starts from;
`LifecycleStep` collects them. The retry loop writes a copy that it has just read, of
which only `Known` and `Over` are known: that is why `Finish` asks for no more.

*One engine.* `RunsOnce` needs `OneEngine`: while a now or once schedule is neither
gone nor being deleted, all its engines have the bare name, at most one exists, and
every one that does not was deleted by the user. `GoneForGood` shows that a deletion
is never taken back by a write.

*The work window.* The lists are arbitrary sequences, so the argument goes item by
item: an item that cron accepts is inside the field's bounds (`AcceptedHours`,
`AcceptedDays`), a step put behind the last item does not change that
(`HourAccepted`, `DayAccepted`), and a documented item is read as it was written
(`DocumentedHour`, `DocumentedDay`), by which `Decide` is membership in the list
(`DecideFacts`).

*Overlaps.* Forbid rests on `status.active`, and `status.active` on the second write.
`LossesPay` is an account. An engine is held if it is the one the handler has just
made or is in `status.active` and visible to the process (`Held`); then `Forbids`
keeps the next run back. Every running engine that is not held must be paid for:
there are at most as many as crashes, failing calls and edits so far (`Accounted`).
An edit is spent only once: while the handler's copy is `Overtaken` and its record is
bound to be refused, the edit that did it is kept aside (`Slack`), because the refusal
will need it. `OwnList` says that no one else writes the list, so that an empty copy
of it at `createEngineRepeat_Decide` means that nothing is held. Past the end time
completing empties the list under a running engine; from then on no engine is made,
and only the total counts (`Ended`). The lemmas go by kind of step: `LosingPays` for
a crash, a failing call or a refusal, `LeavingPays` for a handler that turns away from
a run it has not begun, and one lemma per group of actions; `AllButOne` and `PartIsSmaller` are
the facts about cardinalities. All three conditions are needed. With two processes,
with labels that override the controller's own, or with a cache that lags behind the
sleep, TLC finds two engines running and nothing lost; that is why `main.go`'s default
of no leader election and the sleep of one second matter to Forbid.

*Ticks.* An item that cron accepts matches the value it starts from (`ItemStarts`), so
each field matches something and a day, an hour and a minute make an instant of the
week (`InstantFacts`): `RepeatTicks`. Ticks come back every week, and sets of natural
numbers have least elements (`LeastElement`, from the library's well-foundedness of
`<`): `CronGivesTicks`. For `IntervalKept` the invariant is `Clock`: `gap` is the
distance from some tick to `minute` modulo the week. When the interval divides the
hour, ticks are its multiples (`MinuteTicks`); when an interval in hours divides the
day and meets at most one item, they are multiples counted from the start of that item
(`HourTicks`; the item has no step of its own, since cron refuses two). The week is a
multiple of the interval in both cases, so two ticks differ by a positive multiple
(`GridApart`). For intervals that do not divide, and for several items, the statement
is false.

Checked by TLC only: the liveness properties (the prover has neither fairness nor
`ENABLED`). Every safety and action property of the passing runs has its theorem.

## Plan

1. *Done:* `Cluster`, `ChaosScheduler`, their properties, runs and `Inv`.
2. *Done:* `CronString`, `WorkWindow`, and the instances of `ChaosScheduler` on its
   ticks.
3. *Done:* `ScheduleLifecycle`, the refinement checked and proved.
4. *Done:* stopped engines, overridden labels, lost records.
5. *Done:* `LossesPay` and the overlap theorems; the ticks.
6. Open in the model: leader election as a lease, for a run that shows which of the
   findings it removes.
