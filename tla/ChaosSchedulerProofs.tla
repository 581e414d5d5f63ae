------------------------ MODULE ChaosSchedulerProofs ------------------------
(***************************************************************************)
(* TLAPS proofs about module ChaosScheduler, for every value of the        *)
(* constants: any number of processes, any clock, cron string and bound.   *)
(***************************************************************************)
EXTENDS SchedulerProperties, TLAPS

\* Tuples of variables are always expanded.
USE DEF engineVars, cacheVars

-----------------------------------------------------------------------------
(***************************************************************************)
(* Instants and cron ticks.                                                *)
(***************************************************************************)

\* The constants' instants are natural numbers, the start a whole second.
LEMMA ConstantFacts ==
  /\ MaxTime \in Nat
  /\ StartAt \in Nat /\ StartAt % 2 = 0
  /\ CreationTimestamp \in Nat
  /\ StartTime \in Time
  /\ EndTime # NoTime => EndTime \in Nat
BY ClusterAssumption, SchedulerAssumption DEF StartAt, WholeSecond, Time

\* Second rounds down to a whole second, which has the same time hash.
LEMMA SecondFacts ==
  ASSUME NEW t \in Nat
  PROVE  /\ Second(t) \in Nat
         /\ Second(t) <= t
         /\ t % 2 = 0 => Second(t) = t
         /\ \A s \in Nat : s % 2 = 0 /\ s <= t => s <= Second(t)
         /\ getTimeHash(t) \in Nat
         /\ getTimeHash(Second(t)) = getTimeHash(t)
         /\ \A s \in Nat : s <= t => getTimeHash(s) <= getTimeHash(t)
BY DEF Second, getTimeHash

\* NextTick is a whole second after its argument.
LEMMA NextTickFacts ==
  ASSUME NEW t \in 0..MaxTime
  PROVE  /\ NextTick(t) \in CronTicks
         /\ NextTick(t) \in Nat /\ NextTick(t) % 2 = 0
         /\ NextTick(t) > t
         /\ \A v \in CronTicks : v > t => NextTick(t) <= v
<1>1. \E u \in CronTicks : u > t /\ \A v \in CronTicks : v > t => u <= v
  BY CronAssumption
<1>2. /\ NextTick(t) \in CronTicks
      /\ NextTick(t) > t
      /\ \A v \in CronTicks : v > t => NextTick(t) <= v
  BY <1>1, Zenon DEF NextTick
<1> QED
  BY <1>2, CronAssumption DEF WholeSecond

\* LatestTick is the latest tick that its argument has passed.
LEMMA LatestTickFacts ==
  ASSUME NEW t \in 0..MaxTime, NEW w \in CronTicks, w <= t
  PROVE  /\ LatestTick(t) \in CronTicks
         /\ LatestTick(t) \in Nat /\ LatestTick(t) % 2 = 0
         /\ LatestTick(t) <= t
         /\ LatestTick(t) >= w
<1>1. \E u \in CronTicks : u <= t /\ \A v \in CronTicks : v <= t => v <= u
  BY CronAssumption
<1>2. /\ LatestTick(t) \in CronTicks
      /\ LatestTick(t) <= t
      /\ \A v \in CronTicks : v <= t => v <= LatestTick(t)
  BY <1>1, Zenon DEF LatestTick
<1> QED
  BY <1>2, CronAssumption DEF WholeSecond

\* The unmet time of any copy of the object that has had a run is after that
\* copy's last run and not before the start.
LEMMA UnmetFacts ==
  ASSUME TypeOK, IsRepeat, NEW s \in Known, s.last # NoTime
  PROVE  LET due == getRecentUnmetScheduleTime(s) IN
         due \in Nat /\ Second(due) > s.last /\ due >= StartAt
<1> DEFINE due == getRecentUnmetScheduleTime(s)
           next == NextTick(s.last)
<1>1. now \in 0..MaxTime /\ now \in Nat /\ MaxTime \in Nat /\ StartAt \in Nat
      /\ StartAt % 2 = 0
  BY ConstantFacts DEF TypeOK, ClusterTypeOK
<1>2. s.last \in Time /\ s.last <= now /\ s.last >= StartAt
  BY DEF Known, Plausible, ChaosSchedule
<1>3. s.last \in 0..MaxTime
  BY <1>1, <1>2 DEF Time
<1>4. next \in CronTicks /\ next \in Nat /\ next % 2 = 0 /\ next > s.last
  BY <1>3, NextTickFacts
<1>5. CASE next > now
  <2>1. due = next
    BY <1>5 DEF getRecentUnmetScheduleTime
  <2> QED
    BY <1>1, <1>2, <1>3, <1>4, <2>1, SecondFacts
<1>6. CASE ~(next > now)
  <2> DEFINE latest == LatestTick(now)
  <2>1. latest \in Nat /\ latest % 2 = 0 /\ latest >= next /\ latest \in 0..MaxTime
    BY <1>1, <1>4, <1>6, LatestTickFacts
  <2>2. NextTick(latest) \in Nat /\ NextTick(latest) % 2 = 0
        /\ NextTick(latest) > latest
    BY <2>1, NextTickFacts
  <2>3. due = latest \/ due = NextTick(latest)
    BY <1>6 DEF getRecentUnmetScheduleTime
  <2>4. due \in Nat /\ due % 2 = 0 /\ due > s.last
    BY <1>3, <1>4, <2>1, <2>2, <2>3
  <2> QED
    BY <1>1, <1>2, <1>3, <2>4, SecondFacts
<1> QED
  BY <1>5, <1>6

\* The first tick is after the time it is looked for from.
LEMMA FirstTickFacts ==
  ASSUME TypeOK, StartAt < now
  PROVE  NextTick(EarliestTime) \in Nat
<1>1. now \in 0..MaxTime /\ MaxTime \in Nat /\ StartAt \in Nat
  BY ConstantFacts DEF TypeOK, ClusterTypeOK
<1>2. EarliestTime \in 0..MaxTime
  BY <1>1, ConstantFacts, ClusterAssumption DEF EarliestTime, StartAt, Time, NoTime
<1> QED
  BY <1>2, NextTickFacts

-----------------------------------------------------------------------------
(***************************************************************************)
(* Copies and local states stay sound while the cluster moves on.          *)
(***************************************************************************)

\* A step of the cluster as far as a held copy can see it: the clock does not
\* go back, the object changes only with its version, engines are added, and
\* completed ones stay completed.
Onward ==
  /\ now' \in Nat /\ now <= now'
  /\ kind' = kind
  /\ sched' \in ChaosSchedule /\ (sched' = sched \/ sched'.rv > sched.rv)
  /\ \/ engines' = engines
     \/ \E e \in ChaosEngine : engines' = Append(engines, e)
  /\ done \subseteq done'

\* What a cache or a handler may hold before a step it may hold after it.
LEMMA KnownOnward ==
  ASSUME TypeOK, Onward
  PROVE  /\ Plausible \subseteq Plausible'
         /\ Known \subseteq Known'
         /\ SoundTask \subseteq SoundTask'
<1>1. /\ now \in Nat /\ sched \in ChaosSchedule /\ engines \in Seq(ChaosEngine)
      /\ IsRepeat' = IsRepeat
  BY ConstantFacts DEF TypeOK, ClusterTypeOK, Onward, IsRepeat
<1>2. \A u \in DOMAIN engines : u \in DOMAIN engines' /\ engines'[u] = engines[u]
  BY <1>1 DEF Onward
<1>3. ASSUME NEW v \in Plausible PROVE v \in Plausible'
  <2>1. v \in ChaosSchedule /\ v.last <= now /\ v.last \in Int
    BY <1>3 DEF Plausible, ChaosSchedule, Time, NoTime
  <2>2. v.last <= now'
    BY <1>1, <2>1 DEF Onward
  <2>3. ASSUME IsRepeat, NEW u \in v.active
        PROVE  /\ u \in DOMAIN engines' /\ v.active = {u}
               /\ engines'[u].name = getTimeHash(v.last)
    BY <1>2, <1>3, <2>3 DEF Plausible
  <2>4. IsRepeat /\ v.last # NoTime => v.last >= StartAt
    BY <1>3 DEF Plausible
  <2> QED
    BY <1>1, <2>1, <2>2, <2>3, <2>4 DEF Plausible
<1>4. ASSUME NEW v \in Known PROVE v \in Known'
  <2>1. /\ v \in Plausible /\ v.rv <= sched.rv
        /\ v.rv = sched.rv => v = sched
    BY <1>4 DEF Known
  <2>2. v.rv \in Nat /\ sched.rv \in Nat /\ sched'.rv \in Nat
    BY <1>1, <2>1 DEF Plausible, Onward, ChaosSchedule
  <2>3. v.rv <= sched'.rv /\ (v.rv = sched'.rv => v = sched')
    BY <2>1, <2>2 DEF Onward
  <2> QED
    BY <1>3, <2>1, <2>3 DEF Known
<1>5. ASSUME NEW t \in SoundTask PROVE t \in SoundTask'
  <2>1. t \in Task /\ t.inst \in Known'
    BY <1>4, <1>5 DEF SoundTask
  <2>2. t.pc \in {"create", "record"} => t.due \in Nat /\ t.due <= now'
    BY <1>1, <1>5 DEF SoundTask, Onward
  <2>3. t.pc = "decide" => t.due - t.wait <= now'
    BY <1>1, <1>5 DEF SoundTask, Onward, Task, Time, NoTime
  <2>4. t.pc \in {"repeat", "range"} \cup Finding => StartAt < now'
    BY <1>1, <1>5, ConstantFacts DEF SoundTask, Onward
  <2>5. t.pc = "record" =>
          /\ t.uid \in DOMAIN engines'
          /\ IsRepeat => engines'[t.uid].name = getTimeHash(t.due)
    BY <1>2, <1>5 DEF SoundTask
  <2>6. Over => Over'
    BY <1>1, ConstantFacts DEF Over, EndPassed, Onward
  <2> QED
    BY <1>1, <1>5, <2>1, <2>2, <2>3, <2>4, <2>5, <2>6 DEF SoundTask
<1> QED
  BY <1>3, <1>4, <1>5

\* An idle worker holds nothing.
LEMMA IdleIsSound ==
  ASSUME TypeOK, sched.rv >= 1
  PROVE  Absent \in Known /\ IdleTask \in SoundTask
<1>1. sched \in ChaosSchedule /\ now \in Nat
  BY ConstantFacts DEF TypeOK, ClusterTypeOK
<1>2. Absent \in ChaosSchedule
  BY DEF Absent, ChaosSchedule, Time, NoTime, ScheduleState, ChaosStatus
<1>3. Absent.rv = 0 /\ Absent.last = NoTime /\ Absent.active = {}
  BY DEF Absent
<1>4. Absent \in Known
  BY <1>1, <1>2, <1>3 DEF Known, Plausible, ChaosSchedule, NoTime
<1> QED
  BY <1>2, <1>4 DEF SoundTask, IdleTask, Task, Labels, Time, NoTime, Running, Finding

-----------------------------------------------------------------------------
(***************************************************************************)
(* The three shapes of a handler's step.                                   *)
(***************************************************************************)

\* A handler that only moves on, or gives up, and touches nothing shared.
LEMMA LocalStep ==
  ASSUME Inv, NEW c \in Controllers, NEW t \in SoundTask,
         InFlight(t) => InFlight(task[c]),
         task' = [task EXCEPT ![c] = t],
         queued' \in [Controllers -> BOOLEAN],
         timer' \in [Controllers -> Time],
         spent' \in [Spending -> Nat],
         UNCHANGED <<now, kind, sched, engineVars, cacheVars, late>>
  PROVE  Inv'
<1>1. Onward
  BY ConstantFacts DEF Onward, Inv, TypeOK, ClusterTypeOK
<1>2. Known \subseteq Known' /\ SoundTask \subseteq SoundTask'
  BY <1>1, KnownOnward DEF Inv
<1>3. task' \in [Controllers -> SoundTask']
  BY <1>2 DEF Inv
<1>4. TypeOK'
  BY <1>3 DEF Inv, TypeOK, ClusterTypeOK, SoundTask
<1>5. \A d \in Controllers : LateOK(d)'
  BY DEF Inv, LateOK, Stopped, IsRepeat
<1>6. EnginesInTimeRange' /\ CachesLag'
  BY DEF Inv, EnginesInTimeRange, IsRepeat, CachesLag
<1> QED
  BY <1>2, <1>3, <1>4, <1>5, <1>6 DEF Inv

\* The object after an accepted write is what was sent, under a version of
\* its own if it differs from what was there.
LEMMA StoredFacts ==
  ASSUME TypeOK, NEW v \in ChaosSchedule, Accepts(v)
  PROVE  /\ Stored(v) \in ChaosSchedule
         /\ Stored(v) = sched \/ Stored(v).rv = sched.rv + 1
         /\ Stored(v) = [v EXCEPT !.rv = Stored(v).rv]
<1>1. sched \in ChaosSchedule /\ sched.rv \in Nat
  BY DEF TypeOK, ClusterTypeOK, ChaosSchedule
<1>2. CASE [v EXCEPT !.rv = sched.rv] = sched
  BY <1>1, <1>2 DEF Stored
<1>3. CASE [v EXCEPT !.rv = sched.rv] # sched
  BY <1>1, <1>3 DEF Stored, ChaosSchedule
<1> QED
  BY <1>2, <1>3

\* A handler whose write the server accepts: the object it started from is the
\* current one, and the write neither revives it nor undoes a stop.
LEMMA WriteStep ==
  ASSUME Inv, NEW c \in Controllers, NEW v \in Plausible, NEW t \in Task,
         Accepts(v), sched' = Stored(v),
         v.exists = sched.exists, v.deleting = sched.deleting,
         IsActive(v) => IsActive(sched),
         task' = [task EXCEPT ![c] = t], t \in SoundTask',
         late[c] = 1 => ~InFlight(t),
         queued' \in [Controllers -> BOOLEAN],
         timer' \in [Controllers -> Time],
         UNCHANGED updateFrame
  PROVE  Inv'
<1>1. /\ Stored(v) \in ChaosSchedule
      /\ Stored(v) = sched \/ Stored(v).rv = sched.rv + 1
      /\ Stored(v) = [v EXCEPT !.rv = Stored(v).rv]
  BY StoredFacts DEF Inv, Plausible
<1>2. sched'.rv \in Nat /\ sched.rv \in Nat /\ sched'.rv >= sched.rv
  BY <1>1 DEF Inv, TypeOK, ClusterTypeOK, ChaosSchedule
<1>3. Onward
  BY <1>1, <1>2, ConstantFacts DEF Onward, updateFrame, Inv, TypeOK, ClusterTypeOK
<1>4. Known \subseteq Known' /\ SoundTask \subseteq SoundTask'
      /\ Plausible \subseteq Plausible'
  BY <1>3, KnownOnward DEF Inv
<1>5. /\ sched'.exists = v.exists /\ sched'.deleting = v.deleting
      /\ sched'.state = v.state /\ sched'.last = v.last
      /\ sched'.active = v.active
  BY <1>1 DEF Plausible, ChaosSchedule
<1>6. sched' \in Known'
  <2>1. v \in Plausible'
    BY <1>4
  <2>2. sched' \in Plausible'
    BY <2>1, <1>1, <1>5 DEF Plausible
  <2> QED
    BY <2>2, <1>2 DEF Known
<1>7. task' \in [Controllers -> SoundTask'] /\ schedCache' \in [Controllers -> Known']
  BY <1>4 DEF Inv, updateFrame
<1>8. TypeOK'
  BY <1>1, <1>7 DEF Inv, TypeOK, ClusterTypeOK, SoundTask, updateFrame
<1>9. \A d \in Controllers : LateOK(d)'
  <2>1. Stopped => Stopped'
    BY <1>5 DEF Stopped, IsActive, IsRepeat, updateFrame
  <2> QED
    BY <2>1 DEF Inv, LateOK, updateFrame
<1>10. EnginesInTimeRange' /\ CachesLag'
  BY DEF Inv, EnginesInTimeRange, IsRepeat, CachesLag, updateFrame
<1> QED
  BY <1>2, <1>6, <1>7, <1>8, <1>9, <1>10 DEF Inv

\* A handler that writes and returns.
LEMMA WriteAndReturnStep ==
  ASSUME Inv, NEW c \in Controllers, NEW v \in Plausible,
         UpdateAndReturn(c, v),
         v.exists = sched.exists, v.deleting = sched.deleting,
         IsActive(v) => IsActive(sched),
         UNCHANGED updateFrame
  PROVE  Inv'
<1>1. Accepts(v) /\ sched' = Stored(v) /\ UNCHANGED <<queued, timer>>
      /\ task' = [task EXCEPT ![c] = IdleTask]
  <2>1. timer' = timer
    BY DEF UpdateAndReturn, Done, Return, AddAfter, Inv, TypeOK
  <2> QED
    BY <2>1 DEF UpdateAndReturn, Done, Return
<1>2. IdleTask \in SoundTask /\ IdleTask \in Task /\ ~InFlight(IdleTask)
  BY IdleIsSound DEF Inv, SoundTask, InFlight, Finding, IdleTask
<1>3. IdleTask \in SoundTask'
  <2>1. /\ Stored(v) \in ChaosSchedule
        /\ Stored(v) = sched \/ Stored(v).rv = sched.rv + 1
    BY <1>1, StoredFacts DEF Inv, Plausible
  <2>2. Onward
    BY <1>1, <2>1, ConstantFacts
    DEF Onward, updateFrame, Inv, TypeOK, ClusterTypeOK, ChaosSchedule
  <2> QED
    BY <1>2, <2>2, KnownOnward DEF Inv
<1> QED
  BY <1>1, <1>2, <1>3, WriteStep DEF Inv, TypeOK

\* The delaying queue holds instants.
LEMMA AddAfterType ==
  ASSUME TypeOK, NEW c \in Controllers, NEW d \in Int, AddAfter(c, d)
  PROVE  timer' \in [Controllers -> Time]
<1> DEFINE x == IF d > 0 /\ (timer[c] = NoTime \/ now + d < timer[c])
                THEN now + d ELSE timer[c]
<1>1. now \in Nat /\ timer \in [Controllers -> Time]
  BY ConstantFacts DEF TypeOK, ClusterTypeOK
<1>2. x \in Time
  <2>1. d > 0 => now + d \in Nat
    BY <1>1
  <2> QED
    BY <1>1, <2>1 DEF Time
<1>3. timer' = [timer EXCEPT ![c] = x]
  BY DEF AddAfter
<1> QED
  BY <1>1, <1>2, <1>3

\* A handler that returns an error, or nothing, without having written.
LEMMA GiveUpStep ==
  ASSUME Inv, NEW c \in Controllers, NEW d \in Int,
         Fail(c) \/ Done(c, d),
         spent' \in [Spending -> Nat],
         UNCHANGED <<now, kind, sched, engineVars, cacheVars, late>>
  PROVE  Inv'
<1>1. IdleTask \in SoundTask /\ ~InFlight(IdleTask)
  BY IdleIsSound DEF Inv, InFlight, Finding, IdleTask
<1>2. task' = [task EXCEPT ![c] = IdleTask]
  BY DEF Fail, Done, Return
<1>3. queued' \in [Controllers -> BOOLEAN]
  BY DEF Inv, TypeOK, Fail, Done
<1>4. timer' \in [Controllers -> Time]
  BY AddAfterType DEF Inv, TypeOK, Fail, Done, Return
<1> QED
  BY <1>1, <1>2, <1>3, <1>4, LocalStep

-----------------------------------------------------------------------------
(***************************************************************************)
(* The steps of the cluster and of the users.                              *)
(***************************************************************************)

\* A step that leaves the workers alone and moves the cluster onward keeps
\* the invariant, if it does not end a stop.
LEMMA EnvironmentStep ==
  ASSUME Inv, Onward, ClusterTypeOK',
         sched' \in Known', schedCache' \in [Controllers -> Known'],
         \/ late' = [c \in Controllers |-> 0]
         \/ late' = late /\ (Stopped => Stopped'),
         engines' = engines, engCache' = engCache \/ CachesLag',
         UNCHANGED task,
         queued' \in [Controllers -> BOOLEAN],
         timer' \in [Controllers -> Time]
  PROVE  Inv'
<1>1. Known \subseteq Known' /\ SoundTask \subseteq SoundTask'
  BY KnownOnward DEF Inv
<1>2. task' \in [Controllers -> SoundTask']
  BY <1>1 DEF Inv
<1>3. TypeOK'
  BY DEF Inv, TypeOK
<1>4. \A d \in Controllers : LateOK(d)'
  BY DEF Inv, LateOK
<1>5. EnginesInTimeRange'
  BY DEF Inv, EnginesInTimeRange, Onward, IsRepeat
<1>6. sched'.rv >= 1
  BY DEF Inv, Onward, ChaosSchedule, TypeOK, ClusterTypeOK
<1>7. CachesLag'
  BY DEF Inv, Onward, CachesLag
<1> QED
  BY <1>2, <1>3, <1>4, <1>5, <1>6, <1>7 DEF Inv

\* Every step of the clock, the operator and the garbage collector.
LEMMA ClusterStepInv ==
  ASSUME Inv, ClusterStep
  PROVE  Inv'
<1> USE DEF ctrlVars
<1>1. CASE Tick
  <2>1. Onward
    BY <1>1, ConstantFacts DEF Tick, Onward, Inv, TypeOK, ClusterTypeOK
  <2>2. Known \subseteq Known'
    BY <2>1, KnownOnward DEF Inv
  <2>3. ClusterTypeOK'
    BY <1>1, ConstantFacts DEF Tick, Inv, TypeOK, ClusterTypeOK
  <2>4. Stopped => Stopped'
    BY <1>1 DEF Tick, Stopped, IsRepeat
  <2> QED
    BY <1>1, <2>1, <2>2, <2>3, <2>4, EnvironmentStep
    DEF Tick, Inv, TypeOK, ClusterStep
<1>2. CASE EngineStep
  <2>1. UNCHANGED <<now, kind, sched, engines, cacheVars>>
    BY <1>2 DEF EngineStep, ReapEngine, FinishEngine, StopEngine, CollectEngine
  <2>2. /\ live' \subseteq 1..Len(engines)
        /\ done' \subseteq 1..Len(engines)
        /\ stopped' \subseteq 1..Len(engines)
        /\ done \subseteq done'
    BY <1>2 DEF EngineStep, ReapEngine, FinishEngine, StopEngine, CollectEngine,
                RunningEngines, Inv, TypeOK, ClusterTypeOK
  <2>3. spent' \in [Spending -> Nat]
    BY <1>2 DEF EngineStep, ReapEngine, FinishEngine, StopEngine, CollectEngine, Spend,
                Spending, Inv, TypeOK, ClusterTypeOK
  <2>4. ClusterTypeOK'
    BY <2>1, <2>2, <2>3 DEF Inv, TypeOK, ClusterTypeOK
  <2>5. Onward
    BY <2>1, <2>2, ConstantFacts DEF Onward, Inv, TypeOK, ClusterTypeOK
  <2>6. Known \subseteq Known'
    BY <2>5, KnownOnward DEF Inv
  <2>7. Stopped => Stopped'
    BY <2>1 DEF Stopped, IsRepeat
  <2> QED
    BY <2>1, <2>4, <2>5, <2>6, <2>7, EnvironmentStep
    DEF Inv, TypeOK, ClusterStep
<1>3. CASE CollectSchedule
  <2>1. /\ sched' = [sched EXCEPT !.exists = FALSE, !.rv = @ + 1]
        /\ UNCHANGED <<now, kind, engineVars, cacheVars, spent>>
    BY <1>3 DEF CollectSchedule
  <2>2. sched' \in ChaosSchedule /\ sched'.rv = sched.rv + 1
        /\ sched'.last = sched.last /\ sched'.active = sched.active
        /\ sched.rv \in Nat /\ ~sched'.exists
    <3>1. sched \in ChaosSchedule
      BY DEF Inv, TypeOK, ClusterTypeOK
    <3>2. sched.rv \in Nat /\ sched.rv + 1 \in Nat
      BY <3>1 DEF ChaosSchedule
    <3>3. sched'.rv = sched.rv + 1 /\ sched'.last = sched.last
          /\ sched'.active = sched.active /\ ~sched'.exists
      BY <2>1, <3>1 DEF ChaosSchedule
    <3>4. sched' \in ChaosSchedule
      BY <2>1, <3>1, <3>2 DEF ChaosSchedule
    <3> QED
      BY <3>2, <3>3, <3>4
  <2>3. Onward
    BY <2>1, <2>2, ConstantFacts DEF Onward, Inv, TypeOK, ClusterTypeOK
  <2>4. Known \subseteq Known' /\ Plausible \subseteq Plausible'
    BY <2>3, KnownOnward DEF Inv
  <2>5. sched \in Plausible'
    BY <2>4 DEF Inv, Known
  <2>6. sched' \in Known'
    BY <2>2, <2>5 DEF Known, Plausible
  <2>7. ClusterTypeOK'
    BY <2>1, <2>2 DEF Inv, TypeOK, ClusterTypeOK
  <2>8. Stopped'
    BY <2>2 DEF Stopped
  <2> QED
    BY <2>1, <2>3, <2>4, <2>6, <2>7, <2>8, EnvironmentStep
    DEF Inv, TypeOK, ClusterStep
<1> QED
  BY <1>1, <1>2, <1>3 DEF ClusterStep

\* A user's edit or deletion of the schedule.
LEMMA UserStepInv ==
  ASSUME Inv, UserStep
  PROVE  Inv'
<1>1. PICK s \in ScheduleState, e \in BOOLEAN, d \in BOOLEAN :
        sched' = [sched EXCEPT !.state = s, !.exists = e, !.deleting = d,
                               !.rv = sched.rv + 1]
  <2>1. ASSUME NEW s \in EditStates, UserEdit(s)
        PROVE  sched' = [sched EXCEPT !.state = s, !.exists = sched.exists,
                                      !.deleting = sched.deleting,
                                      !.rv = sched.rv + 1]
               /\ s \in ScheduleState
    BY <2>1, ClusterAssumption
    DEF UserEdit, Inv, TypeOK, ClusterTypeOK, ChaosSchedule
  <2>2. ASSUME NEW mode \in Deletions, UserDelete(mode)
        PROVE  sched' = [sched EXCEPT !.state = sched.state,
                                      !.exists = (mode = "foreground"),
                                      !.deleting = (mode = "foreground"),
                                      !.rv = sched.rv + 1]
    BY <2>2 DEF UserDelete, Inv, TypeOK, ClusterTypeOK, ChaosSchedule
  <2>3. sched.state \in ScheduleState /\ sched.exists \in BOOLEAN
        /\ sched.deleting \in BOOLEAN
    BY DEF Inv, TypeOK, ClusterTypeOK, ChaosSchedule
  <2> QED
    BY <2>1, <2>2, <2>3, Zenon DEF UserStep
<1>2. /\ UNCHANGED <<now, kind, engineVars, cacheVars>>
      /\ UNCHANGED <<task, queued, timer>>
      /\ late' = [c \in Controllers |-> 0]
      /\ spent' = [spent EXCEPT !["edit"] = @ + 1]
  BY DEF UserStep, UserEdit, UserDelete, Spend
<1>3. /\ sched' \in ChaosSchedule /\ sched'.rv = sched.rv + 1 /\ sched.rv \in Nat
      /\ sched'.last = sched.last /\ sched'.active = sched.active
  <2>1. sched \in ChaosSchedule
    BY DEF Inv, TypeOK, ClusterTypeOK
  <2>2. sched.rv \in Nat /\ sched.rv + 1 \in Nat
    BY <2>1 DEF ChaosSchedule
  <2>3. sched'.rv = sched.rv + 1 /\ sched'.last = sched.last
        /\ sched'.active = sched.active
    BY <1>1, <2>1 DEF ChaosSchedule
  <2>4. sched' \in ChaosSchedule
    BY <1>1, <2>1, <2>2 DEF ChaosSchedule
  <2> QED
    BY <2>2, <2>3, <2>4
<1>4. Onward
  BY <1>2, <1>3, ConstantFacts DEF Onward, Inv, TypeOK, ClusterTypeOK
<1>5. Known \subseteq Known' /\ Plausible \subseteq Plausible'
  BY <1>4, KnownOnward DEF Inv
<1>6. sched \in Plausible'
  BY <1>5 DEF Inv, Known
<1>7. sched' \in Known'
  BY <1>3, <1>6 DEF Known, Plausible
<1>8. ClusterTypeOK'
  BY <1>2, <1>3 DEF Inv, TypeOK, ClusterTypeOK, Spending
<1> QED
  BY <1>2, <1>4, <1>5, <1>7, <1>8, EnvironmentStep DEF Inv, TypeOK

-----------------------------------------------------------------------------
(***************************************************************************)
(* The steps of a process outside its handlers.                            *)
(***************************************************************************)

\* Watch events bring the current object into the cache.
LEMMA WatchStepInv ==
  ASSUME Inv, NEW c \in Controllers, WatchSchedule(c) \/ WatchEngines(c)
  PROVE  Inv'
<1>1. /\ UNCHANGED <<now, kind, sched, engineVars, spent>>
      /\ UNCHANGED <<task, timer, late>>
      /\ queued' = [queued EXCEPT ![c] = TRUE]
  BY DEF WatchSchedule, WatchEngines, SyncSchedule, SyncEngines
<1>2. \/ schedCache' = schedCache
      \/ schedCache' = [schedCache EXCEPT ![c] = sched]
  BY DEF WatchSchedule, WatchEngines, SyncSchedule, SyncEngines
<1>3. engCache' \in [Controllers -> EngineView]
  <2>1. Engines \in EngineView
    BY DEF Engines, EngineView, Inv, TypeOK, ClusterTypeOK
  <2> QED
    BY <2>1 DEF WatchSchedule, WatchEngines, SyncSchedule, SyncEngines,
                Inv, TypeOK, ClusterTypeOK
<1>4. Onward
  BY <1>1, ConstantFacts DEF Onward, Inv, TypeOK, ClusterTypeOK
<1>5. Known \subseteq Known'
  BY <1>4, KnownOnward DEF Inv
<1>6. schedCache' \in [Controllers -> Known']
  BY <1>2, <1>5 DEF Inv
<1>7. ClusterTypeOK'
  BY <1>1, <1>3, <1>6 DEF Inv, TypeOK, ClusterTypeOK, Known, Plausible
<1>8. Stopped => Stopped'
  BY <1>1 DEF Stopped, IsRepeat
<1>9. CachesLag'
  <2>1. \A d \in Controllers : engCache'[d] \in {engCache[d], Engines}
    BY DEF WatchSchedule, WatchEngines, SyncSchedule, SyncEngines,
           Inv, TypeOK, ClusterTypeOK
  <2> QED
    BY <1>1, <2>1 DEF CachesLag, Engines, Inv
<1> QED
  BY <1>1, <1>4, <1>5, <1>6, <1>7, <1>8, <1>9, EnvironmentStep DEF Inv, TypeOK

\* Timers and resyncs only queue the object.
LEMMA QueueStepInv ==
  ASSUME Inv, NEW c \in Controllers, TimerFires(c) \/ Resync(c)
  PROVE  Inv'
<1>1. /\ UNCHANGED <<clusterVars, task, late>>
      /\ queued' \in [Controllers -> BOOLEAN]
      /\ timer' \in [Controllers -> Time]
  BY DEF TimerFires, Resync, Inv, TypeOK, Time
<1>2. task' = [task EXCEPT ![c] = task[c]] /\ task[c] \in SoundTask
  BY <1>1 DEF Inv
<1> QED
  BY <1>1, <1>2, LocalStep DEF clusterVars, Inv, TypeOK, ClusterTypeOK

\* A restart or a failing call loses the worker's state and nothing else.
LEMMA FailureStepInv ==
  ASSUME Inv, NEW c \in Controllers, Restart(c) \/ ApiError(c)
  PROVE  Inv'
<1>1. spent' \in [Spending -> Nat]
  BY DEF Restart, ApiError, Spend, Spending, Inv, TypeOK, ClusterTypeOK
<1>2. UNCHANGED <<now, kind, sched, engineVars, cacheVars, late>>
  BY DEF Restart, ApiError
<1>3. CASE Restart(c)
  <2>1. IdleTask \in SoundTask /\ ~InFlight(IdleTask)
    BY IdleIsSound DEF Inv, InFlight, Finding, IdleTask
  <2>2. task' = [task EXCEPT ![c] = IdleTask]
    BY <1>3 DEF Restart
  <2>3. timer' \in [Controllers -> Time]
    BY <1>3 DEF Restart, Inv, TypeOK, Time
  <2>4. queued' \in [Controllers -> BOOLEAN]
    <3>1. schedCache[c].exists \in BOOLEAN
      BY DEF Inv, TypeOK, ClusterTypeOK, ChaosSchedule
    <3> QED
      BY <1>3, <3>1 DEF Restart, Inv, TypeOK
  <2> QED
    BY <1>1, <1>2, <2>1, <2>2, <2>3, <2>4, LocalStep
<1>4. CASE ApiError(c)
  <2>1. Fail(c) \/ Done(c, 0)
    BY <1>4 DEF ApiError
  <2> QED
    BY <1>1, <1>2, <2>1, GiveUpStep
<1> QED
  BY <1>3, <1>4

-----------------------------------------------------------------------------
(***************************************************************************)
(* The handlers.                                                           *)
(***************************************************************************)

\* The server accepts a copy only if it is the current object.
LEMMA AcceptedIsCurrent ==
  ASSUME Inv, NEW v \in Known, Accepts(v)
  PROVE  v = sched
BY DEF Known, Accepts

\* Reconcile and schedule enter a handler that fits the object they read.
LEMMA ReconcileInv ==
  ASSUME Inv, NEW c \in Controllers, Reconcile(c)
  PROVE  Inv'
<1> DEFINE s == schedCache[c]
<1>1. /\ UNCHANGED <<clusterVars, late>>
      /\ queued' = [queued EXCEPT ![c] = FALSE]
      /\ task[c].pc = "idle"
  BY DEF Reconcile, Dequeue, At
<1>2. queued' \in [Controllers -> BOOLEAN] /\ spent' \in [Spending -> Nat]
  BY <1>1 DEF Inv, TypeOK, ClusterTypeOK, clusterVars
<1>3. ASSUME NEW l \in {"reject", "halt", "complete", "now", "repeat"},
             Enter(c, l, s),
             l \in {"halt", "complete"} => s.state = l,
             l = "now" => ~IsRepeat /\ IsActive(s),
             l = "repeat" => IsRepeat /\ IsActive(s) /\ StartAt < now
      PROVE  Inv'
  <2> DEFINE t == [IdleTask EXCEPT !.pc = l, !.inst = s]
  <2>1. s \in Known /\ s \in ChaosSchedule
    BY DEF Inv, TypeOK, ClusterTypeOK
  <2>2. IdleTask \in Task
    BY IdleIsSound DEF Inv, SoundTask
  <2>3. t \in Task /\ t.pc = l /\ t.inst = s
    BY <2>1, <2>2 DEF Task, Labels
  <2>4. t \in SoundTask
    BY <1>3, <2>1, <2>3 DEF SoundTask, Running, Finding
  <2>5. ~InFlight(t)
    BY <2>3 DEF InFlight, Finding
  <2>6. task' = [task EXCEPT ![c] = t] /\ timer' = timer
    BY <1>3 DEF Enter
  <2> QED
    BY <1>1, <1>2, <2>4, <2>5, <2>6, LocalStep DEF clusterVars, Inv, TypeOK
<1>4. ASSUME NEW d \in Int, Return(c, d)
      PROVE  Inv'
  <2>1. task' = [task EXCEPT ![c] = IdleTask]
    BY <1>4 DEF Return
  <2>2. timer' \in [Controllers -> Time]
    BY <1>4, AddAfterType DEF Return, Inv
  <2>3. IdleTask \in SoundTask /\ ~InFlight(IdleTask)
    BY IdleIsSound DEF Inv, InFlight, Finding, IdleTask
  <2> QED
    BY <1>1, <1>2, <2>1, <2>2, <2>3, LocalStep DEF clusterVars
<1>5. ASSUME IsActive(s), schedule(c, s)
      PROVE  Inv'
  <2>1. ExecutionTime - now \in Int /\ StartAt - now \in Int
    BY ConstantFacts, SchedulerAssumption DEF WholeSecond, Inv, TypeOK, ClusterTypeOK
  <2>2. kind \in {"now", "once"} => ~IsRepeat
    BY DEF IsRepeat
  <2> QED
    BY <1>3, <1>4, <1>5, <2>1, <2>2 DEF schedule
<1> QED
  BY <1>3, <1>4, <1>5 DEF Reconcile, reconcileForCreationAndRunning,
                          getChaosSchedulerInstance

\* A worker that goes to another label with the same copy of the object.
LEMMA GotoStep ==
  ASSUME Inv, NEW c \in Controllers, NEW l \in Labels, Goto(c, l),
         [task[c] EXCEPT !.pc = l] \in SoundTask,
         InFlight([task[c] EXCEPT !.pc = l]) => InFlight(task[c]),
         UNCHANGED <<clusterVars, late>>
  PROVE  Inv'
<1>1. task' = [task EXCEPT ![c] = [task[c] EXCEPT !.pc = l]]
  BY DEF Goto, Inv, TypeOK
<1> QED
  BY <1>1, LocalStep DEF Goto, clusterVars, Inv, TypeOK, ClusterTypeOK

\* The handlers that write a new status and return: halt, complete, finish.
LEMMA StatusStepInv ==
  ASSUME Inv, NEW c \in Controllers,
         \/ reconcileForHalt(c) \/ reconcileForComplete(c)
         \/ UpdateSchedulerStatus(c) \/ UpdateSchedulerStatus_Retry(c)
  PROVE  Inv'
<1>1. UNCHANGED updateFrame /\ spent' \in [Spending -> Nat]
  BY DEF reconcileForHalt, reconcileForComplete, UpdateSchedulerStatus,
         UpdateSchedulerStatus_Retry, updateFrame, Inv, TypeOK, ClusterTypeOK
<1>2. task[c] \in SoundTask /\ task[c].inst \in Known /\ task[c].inst \in ChaosSchedule
      /\ schedCache[c] \in Known /\ schedCache[c] \in ChaosSchedule
  BY DEF Inv, SoundTask, Known, Plausible
<1>3. ASSUME NEW v \in Known, NEW st \in {"halted", "completed"},
             UpdateAndReturn(c, [v EXCEPT !.status = st])
      PROVE  Inv'
  <2> DEFINE w == [v EXCEPT !.status = st]
  <2>1. v \in ChaosSchedule
    BY DEF Known, Plausible
  <2>2. w \in ChaosSchedule /\ w.rv = v.rv /\ w.exists = v.exists
        /\ w.deleting = v.deleting /\ w.state = v.state /\ w.last = v.last
        /\ w.active = v.active
    BY <2>1 DEF ChaosSchedule, ChaosStatus
  <2>3. v = sched
    BY <1>3, <2>2, AcceptedIsCurrent DEF UpdateAndReturn, Accepts
  <2>4. w \in Plausible
    BY <2>2 DEF Known, Plausible
  <2>5. IsActive(w) => IsActive(sched)
    BY <2>2, <2>3 DEF IsActive
  <2> QED
    BY <1>1, <1>3, <2>2, <2>3, <2>4, <2>5, WriteAndReturnStep
<1>4. ASSUME NEW v \in Known, UpdateAndReturn(c, Completed(v))
      PROVE  Inv'
  <2> DEFINE w == Completed(v)
  <2>1. v \in ChaosSchedule
    BY DEF Known, Plausible
  <2>2. w \in ChaosSchedule /\ w.rv = v.rv /\ w.exists = v.exists
        /\ w.deleting = v.deleting /\ w.state = "complete" /\ w.last = v.last
        /\ w.active = {}
    BY <2>1 DEF ChaosSchedule, ChaosStatus, ScheduleState, Completed
  <2>3. v = sched
    BY <1>4, <2>2, AcceptedIsCurrent DEF UpdateAndReturn, Accepts
  <2>4. w \in Plausible
    BY <2>2 DEF Known, Plausible
  <2>5. ~IsActive(w)
    BY <2>2 DEF IsActive
  <2> QED
    BY <1>1, <1>4, <2>2, <2>3, <2>4, <2>5, WriteAndReturnStep
<1>5. ASSUME UNCHANGED sched, Fail(c) \/ Done(c, 0)
      PROVE  Inv'
  BY <1>1, <1>5, GiveUpStep DEF updateFrame
<1>6. ASSUME UNCHANGED sched, task[c].pc = "finish", Goto(c, "retry")
      PROVE  Inv'
  <2> DEFINE t == [task[c] EXCEPT !.pc = "retry"]
  <2>1. t \in Task /\ t.inst = task[c].inst /\ t.pc = "retry"
    BY <1>2 DEF SoundTask, Task, Labels
  <2>2. t \in SoundTask /\ ~InFlight(t)
    BY <1>2, <1>6, <2>1 DEF SoundTask, Running, Finding, InFlight
  <2> QED
    BY <1>1, <1>6, <2>2, GotoStep DEF updateFrame, clusterVars, Labels
<1>7. ASSUME UNCHANGED sched, task[c].pc = "retry",
             task' = [task EXCEPT ![c].tries = @ + 1], UNCHANGED <<queued, timer>>
      PROVE  Inv'
  <2> DEFINE t == [task[c] EXCEPT !.tries = @ + 1]
  <2>1. task[c].tries + 1 \in Nat /\ task' = [task EXCEPT ![c] = t]
    BY <1>2, <1>7 DEF SoundTask, Task, Inv
  <2>2. t \in Task /\ t.inst = task[c].inst /\ t.pc = "retry"
    BY <1>2, <1>7, <2>1 DEF SoundTask, Task
  <2>3. t \in SoundTask /\ ~InFlight(t)
    BY <1>2, <1>7, <2>2 DEF SoundTask, Running, Finding, InFlight
  <2> QED
    BY <1>1, <1>7, <2>1, <2>3, LocalStep DEF updateFrame, Inv, TypeOK
<1>8. CASE reconcileForHalt(c)
  BY <1>2, <1>3, <1>5, <1>8 DEF reconcileForHalt, UpdateRefused
<1>9. CASE reconcileForComplete(c)
  BY <1>2, <1>3, <1>5, <1>9 DEF reconcileForComplete, UpdateRefused
<1>10. CASE UpdateSchedulerStatus(c)
  BY <1>2, <1>4, <1>5, <1>6, <1>10 DEF UpdateSchedulerStatus, At
<1>11. CASE UpdateSchedulerStatus_Retry(c)
  BY <1>2, <1>4, <1>5, <1>7, <1>11 DEF UpdateSchedulerStatus_Retry, At,
     getChaosSchedulerInstance
<1> QED
  BY <1>8, <1>9, <1>10, <1>11

\* A handler that writes and goes on with the reply.
LEMMA WriteAndGoOnStep ==
  ASSUME Inv, NEW c \in Controllers, NEW v \in Plausible,
         NEW l \in {"engine", "range", "sleep"},
         Update(c, l, v),
         v.exists = sched.exists, v.deleting = sched.deleting,
         IsActive(v), IsActive(sched),
         l = "engine" => ~IsRepeat,
         l = "range" => IsRepeat /\ StartAt < now,
         UNCHANGED updateFrame
  PROVE  Inv'
<1> DEFINE t == [task[c] EXCEPT !.pc = l, !.inst = Stored(v)]
<1>1. Accepts(v) /\ sched' = Stored(v) /\ UNCHANGED <<queued, timer>>
      /\ task' = [task EXCEPT ![c] = t]
  BY DEF Update, Inv, TypeOK
<1>2. /\ Stored(v) \in ChaosSchedule
      /\ Stored(v) = sched \/ Stored(v).rv = sched.rv + 1
      /\ Stored(v) = [v EXCEPT !.rv = Stored(v).rv]
  BY <1>1, StoredFacts DEF Inv, Plausible
<1>3. /\ Stored(v).state = v.state /\ Stored(v).deleting = v.deleting
      /\ Stored(v).last = v.last /\ Stored(v).active = v.active
  BY <1>2 DEF Plausible, ChaosSchedule
<1>4. t \in Task /\ t.pc = l /\ t.inst = sched'
  <2>1. task[c] \in Task
    BY DEF Inv, TypeOK
  <2> QED
    BY <1>1, <1>2, <2>1 DEF Task, Labels
<1>5. Onward
  BY <1>1, <1>2, ConstantFacts
  DEF Onward, updateFrame, Inv, TypeOK, ClusterTypeOK, ChaosSchedule
<1>6. sched' \in Known'
  <2>1. v \in Plausible'
    BY <1>5, KnownOnward DEF Inv
  <2>2. sched' \in Plausible'
    BY <2>1, <1>1, <1>2, <1>3 DEF Plausible
  <2> QED
    BY <2>2, <1>1, <1>2 DEF Known, ChaosSchedule
<1>7. t \in SoundTask'
  <2>1. IsActive(t.inst)
    BY <1>1, <1>3, <1>4 DEF IsActive
  <2>2. IsRepeat' = IsRepeat /\ now' = now
    BY DEF IsRepeat, updateFrame
  <2> QED
    BY <1>4, <1>6, <2>1, <2>2 DEF SoundTask, Running, Finding
<1>8. late[c] = 1 => ~InFlight(t)
  <2>1. ASSUME late[c] = 1 PROVE Stopped
    BY <2>1 DEF Inv, LateOK
  <2>2. Stopped => sched.deleting /\ IsRepeat
    BY <1>1 DEF Stopped, Accepts
  <2>3. t.inst.deleting = v.deleting
    BY <1>1, <1>3, <1>4
  <2> QED
    BY <1>4, <2>1, <2>2, <2>3 DEF InFlight, Finding
<1> QED
  BY <1>1, <1>4, <1>7, <1>8, WriteStep DEF Inv, TypeOK

\* The refreshed status: a subset of the active engines, the same run.
LEMMA RefreshedFacts ==
  ASSUME Inv, NEW s \in Known, NEW view \in EngineView
  PROVE  LET v == updateActiveStatus(s, view) IN
         /\ v \in Plausible
         /\ v.rv = s.rv /\ v.exists = s.exists /\ v.deleting = s.deleting
         /\ v.state = s.state /\ v.last = s.last /\ v.runs = s.runs
<1> DEFINE v == updateActiveStatus(s, view)
<1>1. s \in ChaosSchedule /\ s \in Plausible
  BY DEF Known, Plausible
<1>2. Second(now) \in Time
  <2>1. now \in Nat
    BY ConstantFacts DEF Inv, TypeOK, ClusterTypeOK
  <2> QED
    BY <2>1, SecondFacts DEF Time
<1>3. /\ v.rv = s.rv /\ v.exists = s.exists /\ v.deleting = s.deleting
      /\ v.state = s.state /\ v.last = s.last /\ v.runs = s.runs
      /\ v.active \subseteq s.active
  BY <1>1 DEF updateActiveStatus, ChaosSchedule
<1>4. v \in ChaosSchedule
  <2>1. v.active \in SUBSET Nat
    BY <1>1, <1>3 DEF ChaosSchedule
  <2>2. s.lastDone \in Time
    BY <1>1 DEF ChaosSchedule
  <2> QED
    BY <1>1, <1>2, <2>1, <2>2 DEF updateActiveStatus, ChaosSchedule
<1>5. v \in Plausible
  BY <1>1, <1>3, <1>4 DEF Plausible
<1> QED
  BY <1>3, <1>5

\* The first write of both creating handlers.
LEMMA PersistStepInv ==
  ASSUME Inv, NEW c \in Controllers,
         createForNowAndOnce_Update(c) \/ createEngineRepeat_Update(c)
  PROVE  Inv'
<1> DEFINE s == task[c].inst
           v == updateActiveStatus(s, engCache[c])
<1>1. task[c] \in SoundTask /\ s \in Known /\ engCache[c] \in EngineView
  BY DEF Inv, SoundTask, TypeOK, ClusterTypeOK
<1>2. PICK l \in {"engine", "range"} :
        /\ PersistActiveStatus(c, l)
        /\ l = "engine" => task[c].pc = "now"
        /\ l = "range" => task[c].pc = "repeat"
  BY DEF createForNowAndOnce_Update, createEngineRepeat_Update, At
<1>3. /\ IsActive(s)
      /\ l = "engine" => ~IsRepeat
      /\ l = "range" => IsRepeat /\ StartAt < now
  BY <1>1, <1>2 DEF SoundTask, Running, Finding
<1>4. /\ v \in Plausible
      /\ v.rv = s.rv /\ v.exists = s.exists /\ v.deleting = s.deleting
      /\ v.state = s.state
  BY <1>1, RefreshedFacts
<1>5. UNCHANGED updateFrame
  BY <1>2 DEF PersistActiveStatus
<1>6. CASE Update(c, l, v)
  <2>1. s = sched
    BY <1>1, <1>4, <1>6, AcceptedIsCurrent DEF Update, Accepts
  <2>2. IsActive(v) /\ IsActive(sched)
    BY <1>3, <1>4, <2>1 DEF IsActive
  <2> QED
    BY <1>3, <1>4, <1>5, <1>6, <2>1, <2>2, WriteAndGoOnStep
<1>7. CASE UpdateRefused(c, v)
  BY <1>5, <1>7, GiveUpStep DEF UpdateRefused, updateFrame, Inv, TypeOK, ClusterTypeOK
<1> QED
  BY <1>2, <1>6, <1>7 DEF PersistActiveStatus

\* The steps that find out when a run is due: what they write down is a time
\* after the last run and not before the start, and how far away it is.
LEMMA FindingStepInv ==
  ASSUME Inv, NEW c \in Controllers,
         \/ createEngineRepeat_Unmet(c) \/ firstScheduleTime_Days(c)
         \/ firstScheduleTime_Hours(c) \/ firstScheduleTime_Inside(c)
         \/ firstScheduleTime_Outside(c) \/ createEngineRepeat_Wait(c)
  PROVE  Inv'
<1>1. UNCHANGED <<clusterVars, late>> /\ spent' \in [Spending -> Nat]
  BY DEF createEngineRepeat_Unmet, firstScheduleTime_Days,
         firstScheduleTime_Hours, firstScheduleTime_Inside,
         firstScheduleTime_Outside, createEngineRepeat_Wait,
         clusterVars, Inv, TypeOK, ClusterTypeOK
<1>2. task[c] \in SoundTask /\ task[c] \in Task /\ task[c].inst \in Known
      /\ now \in Nat /\ StartAt \in Nat
  BY ConstantFacts DEF Inv, SoundTask, TypeOK, ClusterTypeOK
<1>3. task[c].pc \in {"unmet", "hours", "inside", "outside", "wait"}
  BY DEF createEngineRepeat_Unmet, firstScheduleTime_Days,
         firstScheduleTime_Hours, firstScheduleTime_Inside,
         firstScheduleTime_Outside, createEngineRepeat_Wait, At
<1>4. /\ IsRepeat /\ StartAt < now /\ IsActive(task[c].inst)
      /\ task[c].pc \in {"hours", "inside", "outside"} => task[c].inst.last = NoTime
      /\ InFlight(task[c])
  BY <1>2, <1>3 DEF SoundTask, Running, Finding, InFlight
<1>5. ASSUME Fail(c)
      PROVE  Inv'
  BY <1>1, <1>5, GiveUpStep DEF clusterVars
<1>6. ASSUME NEW l \in {"hours", "inside", "outside"}, Goto(c, l),
             task[c].inst.last = NoTime
      PROVE  Inv'
  <2> DEFINE t == [task[c] EXCEPT !.pc = l]
  <2>1. t \in Task /\ t.pc = l /\ t.inst = task[c].inst
    BY <1>2 DEF Task, Labels
  <2>2. t \in SoundTask
    <3> HIDE DEF t
    <3> QED
      BY <1>2, <1>4, <1>6, <2>1 DEF SoundTask, Running, Finding
  <2> QED
    BY <1>1, <1>4, <1>6, <2>2, GotoStep DEF Labels
<1>7. ASSUME NEW due \in Nat, DueAt(c, due),
             Second(due) > task[c].inst.last, due >= StartAt
      PROVE  Inv'
  <2> DEFINE t == [task[c] EXCEPT !.pc = "wait", !.due = due]
  <2>1. t \in Task /\ t.pc = "wait" /\ t.due = due /\ t.inst = task[c].inst
    BY <1>2 DEF Task, Labels, Time
  <2>2. t \in SoundTask
    <3> HIDE DEF t
    <3> QED
      BY <1>2, <1>4, <1>7, <2>1 DEF SoundTask, Running, Finding
  <2>3. task' = [task EXCEPT ![c] = t] /\ UNCHANGED <<queued, timer>>
    BY <1>7 DEF DueAt, Inv, TypeOK
  <2> QED
    BY <1>1, <1>4, <2>2, <2>3, LocalStep DEF clusterVars, Inv, TypeOK
<1>8. CASE createEngineRepeat_Unmet(c)
  <2>1. ASSUME task[c].inst.last # NoTime,
               DueAt(c, getRecentUnmetScheduleTime(task[c].inst))
        PROVE  Inv'
    BY <1>2, <1>4, <1>7, <2>1, UnmetFacts DEF Inv
  <2> QED
    BY <1>5, <1>8, <2>1 DEF createEngineRepeat_Unmet
<1>9. CASE firstScheduleTime_Days(c)
  BY <1>5, <1>6, <1>9 DEF firstScheduleTime_Days
<1>10. CASE firstScheduleTime_Hours(c)
  <2>1. task[c].inst.last = NoTime
    BY <1>4, <1>10 DEF firstScheduleTime_Hours, At
  <2> QED
    BY <1>5, <1>6, <1>10, <2>1 DEF firstScheduleTime_Hours
<1>11. ASSUME NEW due \in Nat, due >= now, DueAt(c, due),
              task[c].pc \in {"inside", "outside"}
       PROVE  Inv'
  <2>1. task[c].inst.last = NoTime
    BY <1>4, <1>11
  <2>2. Second(due) > task[c].inst.last /\ due >= StartAt
    BY <1>2, <1>4, <1>11, <2>1, SecondFacts DEF NoTime
  <2> QED
    BY <1>7, <1>11, <2>2
<1>12. CASE firstScheduleTime_Inside(c)
  BY <1>2, <1>11, <1>12 DEF firstScheduleTime_Inside, At
<1>13. CASE firstScheduleTime_Outside(c)
  <2> DEFINE nextTime == NextTick(EarliestTime)
             due == IF nextTime > now THEN nextTime ELSE now
  <2>1. nextTime \in Nat
    BY <1>4, FirstTickFacts DEF Inv
  <2>2. DueAt(c, due) /\ task[c].pc = "outside"
    BY <1>13 DEF firstScheduleTime_Outside, At
  <2>3. due \in Nat /\ due >= now
    BY <1>2, <2>1
  <2> HIDE DEF due
  <2> QED
    BY <1>11, <2>2, <2>3
<1>14. CASE createEngineRepeat_Wait(c)
  <2> DEFINE wait == task[c].due - now
             t == [task[c] EXCEPT !.pc = "decide", !.wait = wait]
  <2>1. task[c].pc = "wait" /\ task[c].due \in Nat
    BY <1>2, <1>4, <1>14 DEF createEngineRepeat_Wait, At, SoundTask
  <2>2. wait \in Int /\ task[c].due - wait <= now
    BY <1>2, <2>1
  <2>3. task' = [task EXCEPT ![c].pc = "decide", ![c].wait = wait]
        /\ UNCHANGED <<queued, timer>>
    BY <1>14 DEF createEngineRepeat_Wait
  <2> HIDE DEF wait
  <2>4. t \in Task /\ t.pc = "decide" /\ t.due = task[c].due /\ t.wait = wait
        /\ t.inst = task[c].inst
    BY <1>2, <2>2 DEF Task, Labels
  <2>5. task' = [task EXCEPT ![c] = t]
    BY <2>3 DEF Inv, TypeOK
  <2>6. t \in SoundTask
    <3> HIDE DEF t
    <3> QED
      BY <1>2, <1>4, <2>1, <2>2, <2>4 DEF SoundTask, Running, Finding
  <2> QED
    BY <1>1, <1>4, <2>3, <2>5, <2>6, LocalStep DEF clusterVars, Inv, TypeOK
<1> QED
  BY <1>8, <1>9, <1>10, <1>12, <1>13, <1>14

\* The other steps of the creating handlers that only read: the engine, the
\* time range, the clock.
LEMMA DecidingStepInv ==
  ASSUME Inv, NEW c \in Controllers,
         \/ createForNowAndOnce_Get(c) \/ createEngineRepeat_Range(c)
         \/ createEngineRepeat_Decide(c)
         \/ createNewEngine_Wake(c) \/ schedule_Reject(c)
  PROVE  Inv'
<1>1. UNCHANGED <<clusterVars, late>> /\ spent' \in [Spending -> Nat]
  BY DEF createForNowAndOnce_Get, createEngineRepeat_Range,
         createEngineRepeat_Decide, createNewEngine_Wake, schedule_Reject,
         clusterVars, Inv, TypeOK, ClusterTypeOK
<1>2. task[c] \in SoundTask /\ task[c] \in Task /\ task[c].inst \in Known
      /\ now \in Nat
  BY ConstantFacts DEF Inv, SoundTask, TypeOK, ClusterTypeOK
<1>3. ASSUME NEW d \in Int, Fail(c) \/ Done(c, d)
      PROVE  Inv'
  BY <1>1, <1>3, GiveUpStep DEF clusterVars
<1>4. ASSUME NEW l \in {"finish", "unmet", "create"}, Goto(c, l),
             InFlight(task[c]) \/ l = "finish",
             l = "finish" => Over,
             l = "unmet" => task[c].pc = "range",
             l = "create" => /\ task[c].pc = "decide"
                             /\ task[c].wait <= 0
                             /\ task[c].inst.active = {}
                             /\ EndTime # NoTime => EndTime - now >= task[c].wait
      PROVE  Inv'
  <2> DEFINE t == [task[c] EXCEPT !.pc = l]
  <2>1. t \in Task /\ t.pc = l /\ t.inst = task[c].inst /\ t.due = task[c].due
    BY <1>2 DEF Task, Labels
  <2>2. task[c].wait \in Int
    BY <1>2 DEF Task
  <2>3. t \in SoundTask
    <3> HIDE DEF t
    <3>1. CASE l = "finish"
      BY <1>2, <1>4, <2>1, <3>1 DEF SoundTask, Running, Finding
    <3>2. CASE l = "unmet"
      BY <1>2, <1>4, <2>1, <3>2 DEF SoundTask, Running, Finding
    <3>3. CASE l = "create"
      <4>1. IsRepeat /\ t.due \in Nat /\ t.due - task[c].wait <= now
        BY <1>2, <1>4, <2>1, <3>3 DEF SoundTask, Finding
      <4>2. t.due <= now /\ (EndTime # NoTime => t.due <= EndTime)
        BY <1>2, <1>4, <2>2, <3>3, <4>1, ConstantFacts
      <4> QED
        BY <1>2, <1>4, <2>1, <3>3, <4>1, <4>2 DEF SoundTask, Running, Finding
    <3> QED
      BY <3>1, <3>2, <3>3
  <2>4. InFlight(t) => InFlight(task[c])
    BY <1>4, <2>1 DEF InFlight, Finding
  <2> QED
    BY <1>1, <1>4, <2>3, <2>4, GotoStep DEF Labels
<1>5. CASE createForNowAndOnce_Get(c)
  <2>1. task[c].pc = "engine" /\ ~IsRepeat /\ IsActive(task[c].inst)
    BY <1>2, <1>5 DEF createForNowAndOnce_Get, At, SoundTask, Running, Finding
  <2>2. ASSUME task' = [task EXCEPT ![c].pc = "create", ![c].due = now],
               UNCHANGED <<queued, timer>>
        PROVE  Inv'
    <3> DEFINE t == [task[c] EXCEPT !.pc = "create", !.due = now]
    <3>1. t \in Task /\ t.pc = "create" /\ t.due = now /\ t.inst = task[c].inst
      BY <1>2 DEF Task, Labels, Time
    <3>2. t \in SoundTask
      <4> HIDE DEF t
      <4> QED
        BY <1>2, <2>1, <3>1 DEF SoundTask, Running, Finding
    <3>3. InFlight(task[c])
      BY <2>1 DEF InFlight, Finding
    <3>4. task' = [task EXCEPT ![c] = t]
      BY <2>2 DEF Inv, TypeOK
    <3> QED
      BY <1>1, <2>2, <3>2, <3>3, <3>4, LocalStep DEF clusterVars, Inv, TypeOK
  <2>3. \A u : IsEngineFinished(u, engCache[c]) => Over
    BY <2>1 DEF IsEngineFinished, Over, Inv, CachesLag
  <2> QED
    BY <1>3, <1>4, <1>5, <2>2, <2>3 DEF createForNowAndOnce_Get
<1>6. CASE createEngineRepeat_Range(c)
  <2>1. task[c].pc = "range"
    BY <1>6 DEF createEngineRepeat_Range, At
  <2>2. ~task[c].inst.deleting => InFlight(task[c])
    BY <2>1 DEF InFlight, Finding
  <2>3. EndPassed => Over
    BY <1>2, <2>1 DEF SoundTask, Over
  <2> QED
    BY <1>3, <1>4, <1>6, <2>1, <2>2, <2>3 DEF createEngineRepeat_Range
<1>7. CASE createEngineRepeat_Decide(c)
  <2>1. task[c].pc = "decide" /\ InFlight(task[c])
    BY <1>7 DEF createEngineRepeat_Decide, At, InFlight, Finding
  <2>2. task[c].wait \in Int /\ (EndTime # NoTime => EndTime - now \in Int)
    BY <1>2, ConstantFacts DEF Task
  <2> QED
    BY <1>3, <1>4, <1>7, <2>1, <2>2 DEF createEngineRepeat_Decide, EndsFirst, Forbids
<1>8. CASE createNewEngine_Wake(c)
  BY <1>3, <1>8, SchedulerAssumption DEF createNewEngine_Wake
<1>9. CASE schedule_Reject(c)
  BY <1>3, <1>9 DEF schedule_Reject
<1> QED
  BY <1>5, <1>6, <1>7, <1>8, <1>9

\* Creating the engine: the only step that can make it late, and the handler
\* leaves its flight with it.
LEMMA CreateStepInv ==
  ASSUME Inv, NEW c \in Controllers,
         createForNowAndOnce_Create(c) \/ createNewEngine_Create(c)
  PROVE  Inv'
<1>1. task[c] \in SoundTask /\ task[c] \in Task /\ task[c].pc = "create"
      /\ IsActive(task[c].inst) /\ task[c].due \in Nat
  BY DEF Inv, SoundTask, Running, Finding, createForNowAndOnce_Create, createNewEngine_Create, At
<1>2. PICK n \in Nat \cup {BareName} :
        /\ CreateEngine(c, n)
        /\ IsRepeat => n = getTimeHash(task[c].due)
  <2>1. getTimeHash(task[c].due) \in Nat
    BY <1>1, SecondFacts
  <2> QED
    BY <2>1 DEF createForNowAndOnce_Create, createNewEngine_Create
<1>3. CASE NameTaken(n)
  <2>1. Fail(c) /\ UNCHANGED <<engines, live, late>>
    BY <1>2, <1>3 DEF CreateEngine
  <2>2. UNCHANGED <<now, kind, sched, done, stopped, cacheVars, spent>>
    BY <1>2 DEF CreateEngine
  <2> QED
    BY <2>1, <2>2, GiveUpStep DEF Inv, TypeOK, ClusterTypeOK
<1>4. CASE ~NameTaken(n)
  <2> DEFINE e == getEngineFromTemplate(n)
             u == Len(engines) + 1
             t == [task[c] EXCEPT !.pc = "record", !.uid = u]
  <2>1. engines \in Seq(ChaosEngine) /\ Len(engines) \in Nat
    BY DEF Inv, TypeOK, ClusterTypeOK
  <2>2. e \in ChaosEngine /\ e.name = n
    BY DEF getEngineFromTemplate, ChaosEngine
  <2>3. /\ engines' = Append(engines, e)
        /\ live' = live \cup {Len(engines')}
        /\ late' = IF Stopped THEN [late EXCEPT ![c] = @ + 1] ELSE late
        /\ task' = [task EXCEPT ![c].pc = "record", ![c].uid = Len(engines')]
        /\ UNCHANGED <<queued, timer>>
        /\ UNCHANGED <<now, kind, sched, done, stopped, cacheVars, spent>>
    BY <1>2, <1>4 DEF CreateEngine
  <2> HIDE DEF e
  <2>4. /\ Len(engines') = u /\ engines' \in Seq(ChaosEngine)
        /\ DOMAIN engines' = 1..u /\ engines'[u] = e
        /\ \A i \in DOMAIN engines : engines'[i] = engines[i]
        /\ DOMAIN engines = 1..Len(engines)
    BY <2>1, <2>2, <2>3
  <2>5. Onward
    BY <2>2, <2>3, ConstantFacts DEF Onward, Inv, TypeOK, ClusterTypeOK
  <2>6. Known \subseteq Known' /\ SoundTask \subseteq SoundTask'
    BY <2>5, KnownOnward DEF Inv
  <2>7. u \in Nat /\ u \in DOMAIN engines'
    BY <2>1, <2>4
  <2>8. t \in Task /\ t.pc = "record" /\ t.uid = u /\ t.due = task[c].due
        /\ t.inst = task[c].inst
    BY <1>1, <2>7 DEF Task, Labels
  <2>9. task' = [task EXCEPT ![c] = t]
    BY <2>3, <2>4 DEF Inv, TypeOK
  <2>10. task[c] \in SoundTask'
    BY <1>1, <2>6
  <2>11. IsRepeat' = IsRepeat
    BY <2>3 DEF IsRepeat
  <2>12. t \in SoundTask'
    <3> HIDE DEF t, u
    <3>1. /\ t.uid \in DOMAIN engines'
          /\ IsRepeat' => engines'[t.uid].name = getTimeHash(t.due)
      BY <1>2, <2>2, <2>4, <2>7, <2>8, <2>11
    <3> QED
      BY <1>1, <2>8, <2>10, <3>1 DEF SoundTask, Running, Finding
  <2>13. task' \in [Controllers -> SoundTask']
    BY <2>6, <2>9, <2>12 DEF Inv
  <2>14. TypeOK'
    <3>1. /\ live' \subseteq 1..Len(engines')
          /\ done' \subseteq 1..Len(engines')
          /\ stopped' \subseteq 1..Len(engines')
      BY <2>1, <2>3, <2>4 DEF Inv, TypeOK, ClusterTypeOK
    <3>2. late' \in [Controllers -> Nat]
      BY <2>3 DEF Inv, TypeOK
    <3>3. task' \in [Controllers -> Task]
      BY <2>13 DEF SoundTask
    <3> QED
      BY <2>3, <2>4, <3>1, <3>2, <3>3 DEF Inv, TypeOK, ClusterTypeOK
  <2>15. \A d \in Controllers : LateOK(d)'
    <3>1. InFlight(task[c]) /\ ~InFlight(t)
      BY <1>1, <2>8 DEF InFlight, Finding
    <3>2. Stopped' = Stopped
      BY <2>3, <2>11 DEF Stopped, IsRepeat
    <3>3. late[c] = 0
      BY <3>1 DEF Inv, LateOK, TypeOK
    <3>4. late'[c] <= 1 /\ (late'[c] = 1 => Stopped)
      BY <2>3, <3>3 DEF Inv, TypeOK
    <3>5. task'[c] = t
      BY <2>9 DEF Inv, TypeOK
    <3>6. LateOK(c)'
      BY <3>1, <3>2, <3>4, <3>5 DEF LateOK
    <3>7. ASSUME NEW d \in Controllers, d # c PROVE LateOK(d)'
      <4>1. late'[d] = late[d] /\ task'[d] = task[d]
        BY <2>3, <2>9, <3>7 DEF Inv, TypeOK
      <4> QED
        BY <3>2, <4>1 DEF Inv, LateOK
    <3> QED
      BY <3>6, <3>7
  <2>16. EnginesInTimeRange'
    <3>1. ASSUME IsRepeat, NEW i \in DOMAIN engines'
          PROVE  /\ engines'[i].name >= getTimeHash(StartAt)
                 /\ EndTime # NoTime => engines'[i].name <= getTimeHash(EndTime)
      <4>1. CASE i \in DOMAIN engines
        BY <2>4, <3>1, <4>1 DEF Inv, EnginesInTimeRange
      <4>2. CASE i = u
        <5>1. engines'[i].name = getTimeHash(task[c].due)
          BY <1>2, <2>2, <2>4, <3>1, <4>2
        <5>2. task[c].due >= StartAt /\ (EndTime # NoTime => task[c].due <= EndTime)
          BY <1>1, <3>1 DEF SoundTask
        <5> QED
          BY <1>1, <5>1, <5>2, ConstantFacts, SecondFacts
      <4> QED
        BY <2>1, <2>4, <3>1, <4>1, <4>2
    <3> QED
      BY <2>11, <3>1 DEF EnginesInTimeRange
  <2>17. /\ sched' \in Known' /\ sched'.rv >= 1
         /\ schedCache' \in [Controllers -> Known'] /\ CachesLag'
    BY <2>3, <2>6 DEF Inv, CachesLag
  <2> QED
    BY <2>13, <2>14, <2>15, <2>16, <2>17 DEF Inv
<1> QED
  BY <1>3, <1>4

\* The record of a run enters it and leaves the rest of the object.
LEMMA RecordedFacts ==
  ASSUME NEW s \in ChaosSchedule, NEW due \in Nat, NEW u \in Nat
  PROVE  /\ Recorded(s, due, u) \in ChaosSchedule
         /\ Recorded(s, due, u).rv = s.rv
         /\ Recorded(s, due, u).exists = s.exists
         /\ Recorded(s, due, u).deleting = s.deleting
         /\ Recorded(s, due, u).state = "active"
         /\ Recorded(s, due, u).last = Second(due)
         /\ Recorded(s, due, u).active = s.active \cup {u}
         /\ Recorded(s, due, u).runs = s.runs
<1>1. Second(due) \in Time
  BY SecondFacts DEF Time
<1> QED
  BY <1>1 DEF Recorded, ChaosSchedule, ScheduleState, ChaosStatus

\* The record of a repeat schedule's run also counts it.
LEMMA CountedFacts ==
  ASSUME NEW s \in ChaosSchedule, NEW due \in Nat, NEW u \in Nat
  PROVE  LET w == [Recorded(s, due, u) EXCEPT !.runs = @ + 1] IN
         /\ w \in ChaosSchedule
         /\ w.rv = s.rv /\ w.exists = s.exists /\ w.deleting = s.deleting
         /\ w.state = "active" /\ w.last = Second(due)
         /\ w.active = s.active \cup {u} /\ w.runs = s.runs + 1
<1> DEFINE v == Recorded(s, due, u)
<1>1. /\ v \in ChaosSchedule
      /\ v.rv = s.rv /\ v.exists = s.exists /\ v.deleting = s.deleting
      /\ v.state = "active" /\ v.last = Second(due)
      /\ v.active = s.active \cup {u} /\ v.runs = s.runs
  BY RecordedFacts
<1> HIDE DEF v
<1>2. v.runs + 1 \in Nat
  BY <1>1 DEF ChaosSchedule
<1> QED
  BY <1>1, <1>2 DEF v, ChaosSchedule

\* Recording the run: what is written was derived from the current object.
LEMMA RecordStepInv ==
  ASSUME Inv, NEW c \in Controllers,
         createForNowAndOnce_Record(c) \/ createNewEngine_Record(c)
  PROVE  Inv'
<1> DEFINE s == task[c].inst
           due == task[c].due
           u == task[c].uid
<1>1. /\ task[c] \in SoundTask /\ task[c] \in Task /\ task[c].pc = "record"
      /\ s \in Known /\ s \in ChaosSchedule
  BY DEF Inv, SoundTask, Known, Plausible, createForNowAndOnce_Record,
         createNewEngine_Record, At
<1>2. IsActive(s) /\ due \in Nat /\ due <= now /\ u \in Nat /\ now \in Nat
  BY <1>1, ConstantFacts
  DEF SoundTask, Running, Finding, Task, Inv, TypeOK, ClusterTypeOK
<1>3. UNCHANGED updateFrame
  BY DEF createForNowAndOnce_Record, createNewEngine_Record
<1>4. Second(due) \in Nat /\ Second(due) <= now
      /\ getTimeHash(Second(due)) = getTimeHash(due)
  BY <1>2, SecondFacts
<1>5. ASSUME NEW v, UpdateRefused(c, v) PROVE Inv'
  BY <1>3, <1>5, GiveUpStep DEF UpdateRefused, updateFrame, Inv, TypeOK, ClusterTypeOK
<1>6. CASE createForNowAndOnce_Record(c)
  <2> DEFINE v == Recorded(s, due, u)
  <2>1. /\ v \in ChaosSchedule
        /\ v.rv = s.rv /\ v.exists = s.exists /\ v.deleting = s.deleting
        /\ v.state = "active" /\ v.last = Second(due)
    <3>1. s \in ChaosSchedule /\ due \in Nat /\ u \in Nat
      BY <1>1, <1>2
    <3> HIDE DEF s, due, u
    <3> QED
      BY <3>1, RecordedFacts
  <2>3. v \in Plausible
    BY <1>4, <1>6, <2>1 DEF Plausible, createForNowAndOnce_Record
  <2>4. UpdateAndReturn(c, v) \/ UpdateRefused(c, v)
    BY <1>6 DEF createForNowAndOnce_Record
  <2> HIDE DEF v
  <2>5. CASE UpdateAndReturn(c, v)
    <3>1. s = sched
      BY <1>1, <2>1, <2>5, AcceptedIsCurrent DEF UpdateAndReturn, Accepts
    <3> QED
      BY <1>2, <1>3, <2>1, <2>3, <2>5, <3>1, WriteAndReturnStep
  <2> QED
    BY <1>5, <2>4, <2>5
<1>7. CASE createNewEngine_Record(c)
  <2> DEFINE v == [Recorded(s, due, u) EXCEPT !.runs = @ + 1]
  <2>1. /\ IsRepeat /\ s.active = {} /\ due >= StartAt
        /\ u \in DOMAIN engines /\ engines[u].name = getTimeHash(due)
    BY <1>1, <1>7 DEF createNewEngine_Record, SoundTask
  <2>2. /\ v \in ChaosSchedule
        /\ v.rv = s.rv /\ v.exists = s.exists /\ v.deleting = s.deleting
        /\ v.state = "active" /\ v.last = Second(due) /\ v.active = {u}
    BY <1>1, <1>2, <2>1, CountedFacts
  <2>4. Update(c, "sleep", v) \/ UpdateRefused(c, v)
    BY <1>7 DEF createNewEngine_Record
  <2>5. Second(due) >= StartAt
    BY <1>2, <2>1, ConstantFacts, SecondFacts
  <2> HIDE DEF v
  <2>6. v \in Plausible
    BY <1>4, <2>1, <2>2, <2>5 DEF Plausible
  <2>7. CASE Update(c, "sleep", v)
    <3>1. s = sched
      BY <1>1, <2>2, <2>7, AcceptedIsCurrent DEF Update, Accepts
    <3>2. IsActive(v) /\ IsActive(sched)
      BY <1>2, <2>2, <3>1 DEF IsActive
    <3> QED
      BY <1>3, <2>2, <2>6, <2>7, <3>1, <3>2, WriteAndGoOnStep
  <2> QED
    BY <1>5, <2>4, <2>7
<1> QED
  BY <1>6, <1>7

-----------------------------------------------------------------------------
(***************************************************************************)
(* The theorems.                                                           *)
(***************************************************************************)

\* The first state satisfies the invariant.
LEMMA InitInv == Init => Inv
<1> SUFFICES ASSUME Init PROVE Inv
  OBVIOUS
<1>1. PICK st \in InitStates :
        sched = [Absent EXCEPT !.rv = 1, !.exists = TRUE, !.state = st]
  BY DEF Init, ClusterInit
<1>2. Absent \in ChaosSchedule
  BY DEF Absent, ChaosSchedule, Time, NoTime, ScheduleState, ChaosStatus
<1>3. Absent.last = NoTime /\ Absent.active = {} /\ Absent.rv = 0
  BY DEF Absent
<1>4. st \in ScheduleState
  BY ClusterAssumption
<1>5. sched \in ChaosSchedule /\ sched.rv = 1 /\ sched.last = NoTime /\ sched.active = {}
  BY <1>1, <1>2, <1>3, <1>4 DEF ChaosSchedule
<1>6. IdleTask \in Task
  BY <1>2 DEF IdleTask, Task, Labels, Time
<1>7. TypeOK
  <2>1. engines \in Seq(ChaosEngine) /\ live \subseteq 1..Len(engines)
        /\ done \subseteq 1..Len(engines) /\ stopped \subseteq 1..Len(engines)
    BY DEF Init, ClusterInit
  <2>2. engCache \in [Controllers -> EngineView]
    BY DEF Init, ClusterInit, EngineView, Engines
  <2>3. now \in CreationTimestamp..MaxTime /\ kind \in ScheduleKind
    BY ClusterAssumption DEF Init, ClusterInit
  <2> QED
    BY <1>2, <1>5, <1>6, <2>1, <2>2, <2>3
    DEF Init, ClusterInit, TypeOK, ClusterTypeOK, Time
<1>8. sched \in Known
  <2>1. NoTime <= now
    BY ConstantFacts DEF Init, ClusterInit, NoTime
  <2> QED
    BY <1>5, <2>1 DEF Known, Plausible
<1>9. Absent \in Known /\ IdleTask \in SoundTask
  BY <1>5, <1>7, IdleIsSound
<1>10. \A c \in Controllers : LateOK(c)
  BY DEF Init, LateOK
<1>11. EnginesInTimeRange /\ CachesLag
  BY DEF Init, ClusterInit, EnginesInTimeRange, CachesLag, Engines
<1> QED
  BY <1>5, <1>7, <1>8, <1>9, <1>10, <1>11 DEF Inv, Init, ClusterInit

\* Every step keeps the invariant.
LEMMA NextInv == Inv /\ [Next]_vars => Inv'
<1> SUFFICES ASSUME Inv, [Next]_vars PROVE Inv'
  OBVIOUS
<1>1. CASE UserStep
  BY <1>1, UserStepInv
<1>2. CASE ClusterStep
  BY <1>2, ClusterStepInv
<1>3. ASSUME NEW c \in Controllers, ProcessStep(c) PROVE Inv'
  <2>1. CASE Handler(c)
    BY <2>1, ReconcileInv, StatusStepInv, PersistStepInv, FindingStepInv,
       DecidingStepInv,
       CreateStepInv, RecordStepInv DEF Handler
  <2> QED
    BY <1>3, <2>1, WatchStepInv, QueueStepInv, FailureStepInv DEF ProcessStep
<1>4. CASE UNCHANGED vars
  BY <1>4 DEF vars, clusterVars, ctrlVars, Inv, TypeOK, ClusterTypeOK, Known,
              Plausible, SoundTask, LateOK, Stopped, IsRepeat, EnginesInTimeRange,
              CachesLag, Over, EndPassed
<1> QED
  BY <1>1, <1>2, <1>3, <1>4 DEF Next

\* The inductive invariant holds in every reachable state.
THEOREM InvHolds == Spec => []Inv
BY InitInv, NextInv, PTL DEF Spec

\* Every state is well typed.
THEOREM TypeCorrect == Spec => []TypeOK
<1>1. Inv => TypeOK
  BY DEF Inv
<1> QED
  BY <1>1, InvHolds, PTL

\* Halting takes effect, whatever the number of processes, crashes, stale
\* caches and retries: at most one late engine per process and stop.
THEOREM HaltTakesEffect == Spec => []AtMostOneLateEngine
<1>1. Inv => AtMostOneLateEngine
  BY DEF Inv, LateOK, AtMostOneLateEngine
<1> QED
  BY <1>1, InvHolds, PTL

\* No engine of a repeat schedule is scheduled outside its time range.
THEOREM TimeRangeRespected == Spec => []EnginesInTimeRange
<1>1. Inv => EnginesInTimeRange
  BY DEF Inv
<1> QED
  BY <1>1, InvHolds, PTL

\* status.active holds at most the engine of the last recorded run.
THEOREM ActiveListCorrect == Spec => []ActiveIsLastRun
<1>1. Inv => ActiveIsLastRun
  BY DEF Inv, Known, Plausible, ActiveIsLastRun
<1> QED
  BY <1>1, InvHolds, PTL

\* How a step may change the object: a user's edit, a handler's write about
\* its status, or the record of a run, made on an active object only.
Revises ==
  \/ sched' = sched
  \/ /\ spent'["edit"] # spent["edit"]
     /\ sched'.runs = sched.runs /\ sched'.last = sched.last
  \/ /\ IsActive(sched') => IsActive(sched)
     /\ sched'.runs = sched.runs /\ sched'.last = sched.last
  \/ /\ IsActive(sched)
     /\ IsRepeat => sched'.runs = sched.runs + 1 /\ sched'.last > sched.last

\* An accepted write leaves exactly the fields that were sent.
LEMMA AcceptedFields ==
  ASSUME Inv, NEW v \in ChaosSchedule, Accepts(v), sched' = Stored(v)
  PROVE  sched'.state = v.state /\ sched'.runs = v.runs /\ sched'.last = v.last
<1>1. Stored(v) = [v EXCEPT !.rv = Stored(v).rv]
  BY StoredFacts DEF Inv
<1> QED
  BY <1>1 DEF ChaosSchedule

\* No step changes the object in any other way.
LEMMA StepRevises == Inv /\ [Next]_vars => Revises
<1> SUFFICES ASSUME Inv, [Next]_vars PROVE Revises
  OBVIOUS
<1>1. sched \in ChaosSchedule /\ spent \in [Spending -> Nat]
  BY DEF Inv, TypeOK, ClusterTypeOK
<1>2. CASE UserStep
  <2>1. sched'.runs = sched.runs /\ sched'.last = sched.last
    BY <1>1, <1>2 DEF UserStep, UserEdit, UserDelete, ChaosSchedule
  <2>2. spent' = [spent EXCEPT !["edit"] = @ + 1]
    BY <1>2 DEF UserStep, UserEdit, UserDelete, Spend
  <2>3. spent'["edit"] # spent["edit"]
    BY <1>1, <2>2 DEF Spending
  <2> QED
    BY <2>1, <2>3 DEF Revises
<1>3. CASE ClusterStep
  <2>1. CASE Tick \/ EngineStep
    BY <2>1 DEF Tick, EngineStep, ReapEngine, FinishEngine, StopEngine, CollectEngine, Revises
  <2>2. CASE CollectSchedule
    <3>1. sched'.runs = sched.runs /\ sched'.last = sched.last
          /\ sched'.state = sched.state
      BY <1>1, <2>2 DEF CollectSchedule, ChaosSchedule
    <3> QED
      BY <3>1 DEF Revises, IsActive
  <2> QED
    BY <1>3, <2>1, <2>2 DEF ClusterStep
<1>4. ASSUME NEW c \in Controllers, ProcessStep(c) PROVE Revises
  <2> DEFINE s == task[c].inst
  <2>1. task[c] \in SoundTask /\ task[c] \in Task /\ s \in Known
        /\ s \in ChaosSchedule /\ schedCache[c] \in Known
        /\ schedCache[c] \in ChaosSchedule /\ engCache[c] \in EngineView
    BY DEF Inv, SoundTask, Known, Plausible, TypeOK, ClusterTypeOK
  <2>2. ASSUME NEW v \in ChaosSchedule, NEW w \in Known, v.rv = w.rv,
               Accepts(v), sched' = Stored(v)
        PROVE  /\ w = sched
               /\ sched'.state = v.state /\ sched'.runs = v.runs /\ sched'.last = v.last
    BY <2>2, AcceptedFields, AcceptedIsCurrent DEF Accepts
  <2>3. ASSUME NEW v \in ChaosSchedule, NEW w \in Known, v.rv = w.rv,
               Accepts(v), sched' = Stored(v),
               v.state = w.state \/ ~IsActive(v),
               v.runs = w.runs, v.last = w.last
        PROVE  Revises
    BY <2>2, <2>3 DEF Revises, IsActive
  <2>4. CASE reconcileForHalt(c) \/ reconcileForComplete(c)
    <3>1. ASSUME NEW st \in {"halted", "completed"},
                 UpdateAndReturn(c, [s EXCEPT !.status = st])
          PROVE  Revises
      <4> DEFINE v == [s EXCEPT !.status = st]
      <4>1. v \in ChaosSchedule /\ v.rv = s.rv /\ v.state = s.state
            /\ v.runs = s.runs /\ v.last = s.last
        BY <2>1 DEF ChaosSchedule, ChaosStatus
      <4> QED
        BY <2>1, <2>3, <3>1, <4>1 DEF UpdateAndReturn
    <3> QED
      BY <2>4, <3>1 DEF reconcileForHalt, reconcileForComplete, UpdateRefused, Revises
  <2>5. CASE UpdateSchedulerStatus(c) \/ UpdateSchedulerStatus_Retry(c)
    <3>1. ASSUME NEW w \in Known, UpdateAndReturn(c, Completed(w))
          PROVE  Revises
      <4> DEFINE v == Completed(w)
      <4>1. w \in ChaosSchedule
        BY DEF Known, Plausible
      <4>2. v \in ChaosSchedule /\ v.rv = w.rv /\ v.state = "complete"
            /\ v.runs = w.runs /\ v.last = w.last
        BY <4>1 DEF Completed, ChaosSchedule, ChaosStatus, ScheduleState
      <4>3. ~IsActive(v)
        BY <4>2 DEF IsActive
      <4> QED
        BY <2>3, <3>1, <4>2, <4>3 DEF UpdateAndReturn
    <3> QED
      BY <2>1, <2>5, <3>1
      DEF UpdateSchedulerStatus, UpdateSchedulerStatus_Retry, Revises,
          getChaosSchedulerInstance
  <2>6. CASE createForNowAndOnce_Update(c) \/ createEngineRepeat_Update(c)
    <3> DEFINE v == updateActiveStatus(s, engCache[c])
    <3>1. v \in ChaosSchedule /\ v.rv = s.rv /\ v.state = s.state
          /\ v.runs = s.runs /\ v.last = s.last
      BY <2>1, RefreshedFacts DEF Plausible
    <3>2. \/ Accepts(v) /\ sched' = Stored(v)
          \/ sched' = sched
      BY <2>6 DEF createForNowAndOnce_Update, createEngineRepeat_Update,
                  PersistActiveStatus, Update, UpdateRefused
    <3> QED
      BY <2>1, <2>3, <3>1, <3>2 DEF Revises
  <2>7. CASE createForNowAndOnce_Record(c)
    <3> DEFINE v == Recorded(s, task[c].due, task[c].uid)
    <3>1. IsActive(s) /\ ~IsRepeat /\ task[c].due \in Nat /\ task[c].uid \in Nat
      BY <2>1, <2>7 DEF createForNowAndOnce_Record, At, SoundTask, Running, Finding, Task
    <3>2. v.rv = s.rv
      BY <2>1, <3>1, RecordedFacts
    <3>3. sched' = sched \/ Accepts(v)
      BY <2>7 DEF createForNowAndOnce_Record, UpdateAndReturn, UpdateRefused
    <3>4. Accepts(v) => s = sched
      BY <2>1, <3>2, AcceptedIsCurrent DEF Accepts
    <3> QED
      BY <3>1, <3>3, <3>4 DEF Revises
  <2>8. CASE createNewEngine_Record(c)
    <3> DEFINE v == [Recorded(s, task[c].due, task[c].uid)
                       EXCEPT !.runs = @ + 1]
    <3>1. IsActive(s) /\ Second(task[c].due) > s.last /\ task[c].due \in Nat
          /\ task[c].uid \in Nat
      BY <2>1, <2>8 DEF createNewEngine_Record, At, SoundTask, Running, Finding, Task
    <3>2. v \in ChaosSchedule /\ v.rv = s.rv /\ v.runs = s.runs + 1
          /\ v.last = Second(task[c].due)
      BY <2>1, <3>1, CountedFacts
    <3>4. \/ Accepts(v) /\ sched' = Stored(v)
          \/ sched' = sched
      BY <2>8 DEF createNewEngine_Record, Update, UpdateRefused
    <3> HIDE DEF v
    <3>5. ASSUME Accepts(v), sched' = Stored(v)
          PROVE  s = sched /\ sched'.runs = v.runs /\ sched'.last = v.last
      BY <2>1, <2>2, <3>2, <3>5
    <3> QED
      BY <3>1, <3>2, <3>4, <3>5 DEF Revises
  <2>9. CASE sched' = sched
    BY <2>9 DEF Revises
  <2>10. \/ reconcileForHalt(c) \/ reconcileForComplete(c)
         \/ UpdateSchedulerStatus(c) \/ UpdateSchedulerStatus_Retry(c)
         \/ createForNowAndOnce_Update(c) \/ createEngineRepeat_Update(c)
         \/ createForNowAndOnce_Record(c) \/ createNewEngine_Record(c)
         \/ sched' = sched
    BY <1>4 DEF ProcessStep, Handler, Reconcile, schedule_Reject,
         createForNowAndOnce_Get, createForNowAndOnce_Create, CreateEngine,
         createEngineRepeat_Range, createEngineRepeat_Unmet, firstScheduleTime_Days,
         firstScheduleTime_Hours, firstScheduleTime_Inside,
         firstScheduleTime_Outside, createEngineRepeat_Wait,
         createEngineRepeat_Decide, createNewEngine_Create, createNewEngine_Wake,
         WatchSchedule, SyncSchedule, WatchEngines, SyncEngines, TimerFires,
         Resync, Restart, ApiError, clusterVars
  <2> QED
    BY <2>4, <2>5, <2>6, <2>7, <2>8, <2>9, <2>10
<1>5. CASE UNCHANGED vars
  BY <1>5 DEF vars, clusterVars, Revises
<1> QED
  BY <1>2, <1>3, <1>4, <1>5 DEF Next

\* No handler brings a halted, stopped or completed schedule back.
THEOREM HaltIsNeverUndone == Spec => OnlyUserActivates
<1>1. Inv /\ [Next]_vars =>
        [IsActive(sched') /\ ~IsActive(sched) => spent'["edit"] # spent["edit"]]_vars
  BY StepRevises DEF Revises
<1> QED
  BY <1>1, InvHolds, PTL DEF Spec, OnlyUserActivates

\* Every recorded run is a new one, at a strictly later time.
THEOREM RunsAreNew == Spec => EachRunIsNew
<1>1. Inv /\ [Next]_vars =>
        [IsRepeat =>
           \/ sched'.runs = sched.runs /\ sched'.last = sched.last
           \/ sched'.runs = sched.runs + 1 /\ sched'.last > sched.last]_vars
  BY StepRevises DEF Revises
<1> QED
  BY <1>1, InvHolds, PTL DEF Spec, EachRunIsNew

=============================================================================
