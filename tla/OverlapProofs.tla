--------------------------- MODULE OverlapProofs ---------------------------
(***************************************************************************)
(* TLAPS proofs about engines that run at the same time: a single process  *)
(* whose caches catch up during its sleep starts an engine beside another  *)
(* only when the record of a run was lost, at most one for each loss.      *)
(***************************************************************************)
EXTENDS LifecycleProofs, FiniteSetTheorems

\* Tuples of variables are always expanded.
USE DEF engineVars, cacheVars

-----------------------------------------------------------------------------
(***************************************************************************)
(* Counting.                                                               *)
(***************************************************************************)

\* Part of a finite set is not larger.
LEMMA PartIsSmaller ==
  ASSUME NEW S, IsFiniteSet(S), NEW T, T \subseteq S
  PROVE  /\ IsFiniteSet(T)
         /\ Cardinality(S) \in Nat /\ Cardinality(T) \in Nat
         /\ Cardinality(T) <= Cardinality(S)
<1>1. IsFiniteSet(T) /\ Cardinality(T) <= Cardinality(S)
  BY FS_Subset
<1> QED
  BY <1>1, FS_CardinalityType

\* Taking out at most one element makes a set smaller by at most one.
LEMMA AllButOne ==
  ASSUME NEW S, IsFiniteSet(S), NEW H, \A x, y \in H : x = y
  PROVE  Cardinality(S) <= Cardinality(S \ H) + 1
<1>1. Cardinality(S) \in Nat
  BY FS_CardinalityType
<1>2. CASE H = {}
  <2>1. S \ H = S
    BY <1>2
  <2> QED
    BY <1>1, <2>1
<1>3. CASE H # {}
  <2>1. PICK x \in H : TRUE
    BY <1>3
  <2>2. S \ H = S \ {x}
    BY <2>1
  <2>3. Cardinality(S \ {x}) =
          IF x \in S THEN Cardinality(S) - 1 ELSE Cardinality(S)
    BY FS_RemoveElement
  <2> QED
    BY <1>1, <2>2, <2>3
<1> QED
  BY <1>2, <1>3

\* The engines at work are finitely many, and so are the losses.
LEMMA CountFacts ==
  ASSUME TypeOK
  PROVE  IsFiniteSet(RunningEngines) /\ Losses \in Nat
<1>1. Len(engines) \in Nat /\ RunningEngines \subseteq 1..Len(engines)
  BY DEF TypeOK, ClusterTypeOK, RunningEngines
<1>2. IsFiniteSet(1..Len(engines))
  BY <1>1, FS_Interval
<1>3. spent["crash"] \in Nat /\ spent["error"] \in Nat /\ spent["edit"] \in Nat
  BY DEF TypeOK, ClusterTypeOK, Spending
<1> QED
  <2>1. IsFiniteSet(RunningEngines)
    BY <1>1, <1>2, PartIsSmaller
  <2>2. Losses \in Nat
    BY <1>3 DEF Losses
  <2> QED
    BY <2>1, <2>2

\* At most one engine holds the next run back.
LEMMA HeldIsOne ==
  ASSUME Inv, IsRepeat, NEW c \in Controllers
  PROVE  \A x, y \in Held(c) : x = y
<1>1. \A u \in sched.active : sched.active = {u}
  BY DEF Inv, Known, Plausible
<1> QED
  BY <1>1 DEF Held

-----------------------------------------------------------------------------
(***************************************************************************)
(* What a step may do to the account.                                      *)
(***************************************************************************)

\* What has not been used of the losses changes with the losses, and with
\* the handler being overtaken.
LEMMA SlackFacts ==
  ASSUME TypeOK, TypeOK', NEW c \in Controllers
  PROVE  /\ Losses \in Nat /\ Losses' \in Nat
         /\ Slack(c) \in Int /\ Slack(c)' \in Int
         /\ Slack(c) <= Losses /\ Slack(c)' <= Losses'
         /\ Losses <= Losses'
              /\ (Overtaken(c)' => Overtaken(c) \/ Losses + 1 <= Losses')
              => Slack(c) <= Slack(c)'
         /\ ~Overtaken(c)'
              /\ (Losses + 1 <= Losses' \/ (Overtaken(c) /\ Losses <= Losses'))
              => Slack(c) + 1 <= Slack(c)'
<1>1. Losses \in Nat /\ Losses' \in Nat
  <2>1. (TypeOK => Losses \in Nat) /\ (TypeOK => Losses \in Nat)'
    BY CountFacts, PTL
  <2> QED
    BY <2>1
<1>2. /\ IF Overtaken(c) THEN Slack(c) = Losses - 1 ELSE Slack(c) = Losses - 0
      /\ IF Overtaken(c)' THEN Slack(c)' = Losses' - 1
                          ELSE Slack(c)' = Losses' - 0
  BY DEF Slack
<1> QED
  BY <1>1, <1>2

\* After the end no engine is made; before it, either no engine gets out of
\* what holds, or one does at the price of a loss.
KeepsAccount(c) ==
  \/ Ended(c) /\ Ended(c)' /\ RunningEngines' \subseteq RunningEngines
       /\ Losses <= Losses'
  \/ ~Ended(c) /\ Unheld(c)' \subseteq Unheld(c) /\ Slack(c) <= Slack(c)'
  \/ ~Ended(c) /\ RunningEngines' \subseteq RunningEngines
       /\ Slack(c) + 1 <= Slack(c)'

\* A step of this kind keeps every engine accounted for.
LEMMA AccountStep ==
  ASSUME Inv, Inv', IsRepeat, IsRepeat', NEW c \in Controllers,
         Accounted(c), KeepsAccount(c)
  PROVE  Accounted(c)'
<1> DEFINE R == RunningEngines
           H == Held(c)
<1>1. /\ IsFiniteSet(R) /\ IsFiniteSet(R') /\ Losses \in Nat /\ Losses' \in Nat
      /\ \A x, y \in H : x = y
      /\ \A x, y \in H' : x = y
  <2>1. TypeOK => IsFiniteSet(R) /\ Losses \in Nat
    BY CountFacts
  <2>2. (TypeOK => IsFiniteSet(R) /\ Losses \in Nat)'
    BY CountFacts, PTL
  <2>3. (\A u \in sched.active : sched.active = {u})'
    BY DEF Inv, Known, Plausible
  <2>4. \A x, y \in H' : x = y
    BY <2>3 DEF Held
  <2>5. TypeOK /\ TypeOK'
    BY DEF Inv
  <2>6. \A x, y \in H : x = y
    BY HeldIsOne
  <2> QED
    BY <2>1, <2>2, <2>4, <2>5, <2>6
<1>2. /\ Slack(c) \in Int /\ Slack(c)' \in Int
      /\ Slack(c) <= Losses /\ Slack(c)' <= Losses'
  BY SlackFacts DEF Inv
<1> HIDE DEF R, H
<1>3. /\ Cardinality(R) \in Nat /\ Cardinality(R \ H) \in Nat
      /\ Cardinality(R) <= Cardinality(R \ H) + 1
      /\ Cardinality(R') \in Nat /\ Cardinality(R' \ H') \in Nat
      /\ Cardinality(R') <= Cardinality(R' \ H') + 1
      /\ Cardinality(R' \ H') <= Cardinality(R')
      /\ IsFiniteSet(R \ H)
  BY <1>1, AllButOne, PartIsSmaller
<1>4. Unheld(c) = R \ H /\ Unheld(c)' = R' \ H'
  BY DEF R, H, Unheld
<1>5. R' \subseteq R => Cardinality(R') <= Cardinality(R)
  BY <1>1, PartIsSmaller
<1>6. CASE Ended(c)
  <2>1. Ended(c)' /\ R' \subseteq R /\ Losses <= Losses'
    BY <1>6 DEF KeepsAccount, R
  <2>2. Cardinality(R) <= 1 + Losses
    BY <1>6 DEF Accounted, R
  <2>3. Cardinality(R') <= 1 + Losses'
    BY <1>1, <1>3, <1>5, <2>1, <2>2
  <2> QED
    BY <2>1, <2>3 DEF Accounted, R
<1>7. CASE ~Ended(c)
  <2>1. Cardinality(R \ H) <= Slack(c)
    BY <1>4, <1>7 DEF Accounted
  <2>2. Cardinality(R' \ H') <= Slack(c)'
    <3>1. CASE R' \ H' \subseteq R \ H /\ Slack(c) <= Slack(c)'
      <4>1. Cardinality(R' \ H') <= Cardinality(R \ H)
        BY <1>3, <3>1, PartIsSmaller
      <4> QED
        BY <1>2, <1>3, <2>1, <3>1, <4>1
    <3>2. CASE R' \subseteq R /\ Slack(c) + 1 <= Slack(c)'
      BY <1>2, <1>3, <1>5, <2>1, <3>2
    <3> QED
      BY <1>4, <1>7, <3>1, <3>2 DEF KeepsAccount, R
  <2>3. Cardinality(R') <= 1 + Losses'
    BY <1>1, <1>2, <1>3, <2>2
  <2> QED
    BY <1>4, <2>2, <2>3 DEF Accounted, R
<1> QED
  BY <1>6, <1>7

-----------------------------------------------------------------------------
(***************************************************************************)
(* The kinds of steps, and what each leaves of OwnList and the account.    *)
(***************************************************************************)
Pays(c) == OwnList(c)' /\ KeepsAccount(c)

\* A step that shows in the object without touching its list.
Elsewhere(c) ==
  /\ UNCHANGED <<kind, engines>> /\ now <= now' /\ Losses <= Losses'
  /\ RunningEngines' \subseteq RunningEngines
  /\ sched'.active = sched.active
  /\ RunningEngines \cap engCache[c].live \subseteq engCache'[c].live

\* Steps of others, which leave the handler where it is.
LEMMA OthersPay ==
  ASSUME Inv, Inv', NEW c \in Controllers, OwnList(c), Elsewhere(c),
         task'[c] = task[c],
         Overtaken(c)' => Overtaken(c) \/ Losses + 1 <= Losses'
  PROVE  Pays(c)
<1>1. OwnList(c)'
  BY DEF OwnList, Elsewhere
<1>2. Unheld(c)' \subseteq Unheld(c)
  BY DEF Unheld, Held, Elsewhere
<1>3. Slack(c) <= Slack(c)' /\ Losses <= Losses'
  BY SlackFacts DEF Elsewhere, Inv
<1>4. Ended(c) => Ended(c)'
  <2>1. now \in Nat /\ now' \in Nat
    BY ConstantFacts DEF Inv, TypeOK, ClusterTypeOK
  <2> QED
    BY <2>1, ConstantFacts DEF Ended, EndPassed, Elsewhere
<1> QED
  BY <1>1, <1>2, <1>3, <1>4 DEF Pays, KeepsAccount, Elsewhere

\* A handler that goes where no run is being made.
LEMMA LeavingPays ==
  ASSUME Inv, Inv', NEW c \in Controllers, Elsewhere(c),
         task[c].pc \notin {"record", "sleep"},
         task'[c].pc \notin Deciding \cup {"engine", "range", "sleep"}
  PROVE  Pays(c)
<1>1. OwnList(c)' /\ ~Overtaken(c)'
  BY DEF OwnList, Overtaken, InFlight, Deciding, Finding
<1>2. Unheld(c)' \subseteq Unheld(c)
  BY DEF Unheld, Held, Elsewhere, Deciding, Finding
<1>3. Slack(c) <= Slack(c)' /\ Losses <= Losses'
  BY <1>1, SlackFacts DEF Elsewhere, Inv
<1>4. Ended(c) => Ended(c)'
  <2>1. now \in Nat /\ now' \in Nat
    BY ConstantFacts DEF Inv, TypeOK, ClusterTypeOK
  <2> QED
    BY <2>1, ConstantFacts DEF Ended, EndPassed, Elsewhere
<1> QED
  BY <1>1, <1>2, <1>3, <1>4 DEF Pays, KeepsAccount, Elsewhere

\* A handler that gives up a run at the price of a loss.
LEMMA LosingPays ==
  ASSUME Inv, Inv', NEW c \in Controllers, Elsewhere(c),
         task'[c].pc = "idle",
         Losses + 1 <= Losses' \/ Overtaken(c)
  PROVE  Pays(c)
<1>1. OwnList(c)' /\ ~Overtaken(c)'
  BY DEF OwnList, Overtaken, InFlight, Deciding, Finding
<1>2. Slack(c) + 1 <= Slack(c)' /\ Losses <= Losses'
  BY <1>1, SlackFacts DEF Elsewhere, Inv
<1>3. Ended(c) => Ended(c)'
  <2>1. now \in Nat /\ now' \in Nat
    BY ConstantFacts DEF Inv, TypeOK, ClusterTypeOK
  <2> QED
    BY <2>1, ConstantFacts DEF Ended, EndPassed, Elsewhere, Deciding, Finding
<1> QED
  BY <1>1, <1>2, <1>3 DEF Pays, KeepsAccount, Elsewhere

-----------------------------------------------------------------------------
(***************************************************************************)
(* The steps.                                                              *)
(***************************************************************************)

\* Whether a loss has been added.
LEMMA LossFacts ==
  ASSUME TypeOK
  PROVE  /\ Losses \in Nat
         /\ spent' = spent => Losses' = Losses
         /\ Spend("reap") \/ Spend("stop") => Losses' = Losses
         /\ Spend("crash") \/ Spend("error") \/ Spend("edit")
              => Losses' = Losses + 1
<1>1. /\ spent \in [Spending -> Nat]
      /\ spent["crash"] \in Nat /\ spent["error"] \in Nat
      /\ spent["edit"] \in Nat
  BY DEF TypeOK, ClusterTypeOK, Spending
<1>2. /\ Losses = spent["crash"] + spent["error"] + spent["edit"]
      /\ Losses' = spent'["crash"] + spent'["error"] + spent'["edit"]
  BY DEF Losses
<1>3. \A f \in Spending :
        Spend(f) => \A g \in Spending :
                      spent'[g] = IF g = f THEN spent[g] + 1 ELSE spent[g]
  BY <1>1 DEF Spend
<1>4. {"crash", "error", "edit", "reap", "stop"} \subseteq Spending
  BY DEF Spending
<1>5. spent' = spent => Losses' = Losses
  BY <1>2
<1>6. Spend("reap") \/ Spend("stop") => Losses' = Losses
  BY <1>2, <1>3, <1>4
<1>7. Spend("crash") \/ Spend("error") \/ Spend("edit") => Losses' = Losses + 1
  BY <1>1, <1>2, <1>3, <1>4
<1> QED
  BY <1>1, <1>2, <1>5, <1>6, <1>7

\* A handler that may be overtaken holds a copy that is not being deleted.
LEMMA FlightFacts ==
  ASSUME Inv, IsRepeat, NEW c \in Controllers, OwnList(c),
         InFlight(task[c]) \/ task[c].pc = "record"
  PROVE  task[c].pc \in Deciding \cup {"range"} /\ ~task[c].inst.deleting
<1>1. task[c].pc # "engine"
  BY DEF Inv, SoundTask
<1> QED
  BY <1>1 DEF InFlight, Deciding, Finding, OwnList

\* Users edit at the price of a loss; the cluster ends engines, and takes
\* away a schedule only if its deletion has already overtaken the handler.
LEMMA EnvironmentPays ==
  ASSUME Inv, Inv', IsRepeat, NEW c \in Controllers, OwnList(c),
         UserStep \/ ClusterStep \/ UNCHANGED vars
  PROVE  Pays(c)
<1>1. sched \in ChaosSchedule /\ now \in Nat /\ TypeOK /\ Losses \in Nat
  <2>1. TypeOK
    BY DEF Inv
  <2>2. Losses \in Nat
    BY <2>1, LossFacts
  <2> QED
    BY <2>1, <2>2, ConstantFacts DEF TypeOK, ClusterTypeOK
<1>2. CASE UserStep
  <2>1. /\ UNCHANGED <<now, kind, engineVars, cacheVars, task>>
        /\ Spend("edit")
        /\ sched'.active = sched.active
    BY <1>1, <1>2 DEF UserStep, UserEdit, UserDelete, ChaosSchedule
  <2>2. Losses' = Losses + 1
    BY <1>1, <2>1, LossFacts
  <2>3. Elsewhere(c)
    BY <1>1, <2>1, <2>2 DEF Elsewhere, RunningEngines
  <2> QED
    BY <1>1, <2>1, <2>2, <2>3, OthersPay
<1>3. CASE Tick /\ UNCHANGED ctrlVars
  <2>1. /\ UNCHANGED <<kind, sched, engineVars, cacheVars, spent, task>>
        /\ now' = now + 1
    BY <1>3 DEF Tick, ctrlVars
  <2>2. Losses' = Losses
    BY <1>1, <2>1, LossFacts
  <2>3. Elsewhere(c)
    BY <1>1, <2>1, <2>2 DEF Elsewhere, RunningEngines
  <2>4. Overtaken(c)' => Overtaken(c)
    BY <2>1 DEF Overtaken, InFlight, Finding
  <2> QED
    BY <2>1, <2>3, <2>4, OthersPay
<1>4. CASE EngineStep /\ UNCHANGED ctrlVars
  <2>1. /\ UNCHANGED <<now, kind, sched, engines, cacheVars, task>>
        /\ RunningEngines' \subseteq RunningEngines
        /\ spent' = spent \/ Spend("reap") \/ Spend("stop")
    BY <1>4 DEF EngineStep, ReapEngine, FinishEngine, StopEngine,
                CollectEngine, ctrlVars, RunningEngines
  <2>2. Losses' = Losses
    BY <1>1, <2>1, LossFacts
  <2>3. Elsewhere(c)
    BY <1>1, <2>1, <2>2 DEF Elsewhere
  <2>4. Overtaken(c)' => Overtaken(c)
    BY <2>1 DEF Overtaken, InFlight, Finding
  <2> QED
    BY <2>1, <2>3, <2>4, OthersPay
<1>5. CASE CollectSchedule /\ UNCHANGED ctrlVars
  <2>1. /\ UNCHANGED <<now, kind, engineVars, cacheVars, spent, task>>
        /\ sched.deleting /\ sched'.active = sched.active
    BY <1>1, <1>5 DEF CollectSchedule, ctrlVars, ChaosSchedule
  <2>2. Losses' = Losses
    BY <1>1, <2>1, LossFacts
  <2>3. Elsewhere(c)
    BY <1>1, <2>1, <2>2 DEF Elsewhere, RunningEngines
  <2>4. Overtaken(c)' => Overtaken(c)
    BY <2>1, FlightFacts DEF Overtaken, InFlight, Finding
  <2> QED
    BY <2>1, <2>3, <2>4, OthersPay
<1>6. CASE UNCHANGED vars
  <2>1. UNCHANGED <<now, kind, sched, engineVars, cacheVars, spent, task>>
    BY <1>6 DEF vars, clusterVars, ctrlVars
  <2>2. Losses' = Losses
    BY <1>1, <2>1, LossFacts
  <2>3. Elsewhere(c)
    BY <1>1, <2>1, <2>2 DEF Elsewhere, RunningEngines
  <2>4. Overtaken(c)' => Overtaken(c)
    BY <2>1 DEF Overtaken, InFlight, Finding
  <2> QED
    BY <2>1, <2>3, <2>4, OthersPay
<1> QED
  BY <1>2, <1>3, <1>4, <1>5, <1>6 DEF ClusterStep

\* Events, timers and replays only queue the schedule; a synced cache sees
\* every engine that exists.
LEMMA QueuePays ==
  ASSUME Inv, Inv', IsRepeat, NEW c \in Controllers, OwnList(c),
         WatchSchedule(c) \/ WatchEngines(c) \/ TimerFires(c) \/ Resync(c)
  PROVE  Pays(c)
<1>1. /\ UNCHANGED <<now, kind, sched, engineVars, spent, task>>
      /\ engCache' = engCache
           \/ engCache' = [engCache EXCEPT ![c] = Engines]
  BY DEF WatchSchedule, SyncSchedule, WatchEngines, SyncEngines, TimerFires,
         Resync, clusterVars
<1>2. Losses' = Losses /\ Losses \in Nat /\ now \in Nat
  BY <1>1, LossFacts, ConstantFacts DEF Inv, TypeOK, ClusterTypeOK
<1>3. RunningEngines \cap engCache[c].live \subseteq engCache'[c].live
  BY <1>1 DEF Inv, TypeOK, ClusterTypeOK, Engines, RunningEngines
<1>4. Elsewhere(c)
  BY <1>1, <1>2, <1>3 DEF Elsewhere, RunningEngines
<1>5. Overtaken(c)' => Overtaken(c)
  BY <1>1 DEF Overtaken, InFlight, Finding
<1> QED
  BY <1>1, <1>4, <1>5, OthersPay

\* A crash or a failing call may cost the record of one run.
LEMMA FailurePays ==
  ASSUME Inv, Inv', NEW c \in Controllers, Restart(c) \/ ApiError(c)
  PROVE  Pays(c)
<1>1. /\ UNCHANGED <<now, kind, sched, engineVars, cacheVars>>
      /\ Spend("crash") \/ Spend("error")
      /\ task' = [task EXCEPT ![c] = IdleTask]
  BY DEF Restart, ApiError, Done, Return, Fail
<1>2. Losses' = Losses + 1 /\ Losses \in Nat /\ now \in Nat
  BY <1>1, LossFacts, ConstantFacts DEF Inv, TypeOK, ClusterTypeOK
<1>3. task'[c].pc = "idle"
  BY <1>1 DEF Inv, TypeOK, IdleTask
<1>4. Elsewhere(c)
  BY <1>1, <1>2 DEF Elsewhere, RunningEngines
<1> QED
  BY <1>2, <1>3, <1>4, LosingPays

\* Handlers that make no run: the list stays as it is, or the end has passed.
LEMMA StatusPays ==
  ASSUME Inv, Inv', IsRepeat, NEW c \in Controllers,
         \/ Reconcile(c) \/ schedule_Reject(c)
         \/ reconcileForHalt(c) \/ reconcileForComplete(c)
         \/ UpdateSchedulerStatus(c) \/ UpdateSchedulerStatus_Retry(c)
  PROVE  Pays(c)
<1>1. /\ TypeOK /\ task[c] \in SoundTask /\ task \in [Controllers -> Task]
      /\ Losses \in Nat /\ now \in Nat
  <2>1. TypeOK
    BY DEF Inv
  <2>2. Losses \in Nat
    BY <2>1, LossFacts
  <2> QED
    BY <2>1, <2>2, ConstantFacts DEF Inv, TypeOK, ClusterTypeOK
<1>2. UNCHANGED <<now, kind, engineVars, cacheVars, spent>>
  BY DEF Reconcile, schedule_Reject, reconcileForHalt, reconcileForComplete,
         UpdateSchedulerStatus, UpdateSchedulerStatus_Retry, clusterVars,
         updateFrame
<1>3. Losses' = Losses
  BY <1>1, <1>2, LossFacts
<1>4. IdleTask.pc = "idle"
  BY DEF IdleTask
<1>5. sched'.active = sched.active => Elsewhere(c)
  BY <1>1, <1>2, <1>3 DEF Elsewhere, RunningEngines
<1>6. CASE Reconcile(c)
  <2>1. sched' = sched /\ task[c].pc = "idle"
    BY <1>6 DEF Reconcile, Dequeue, At, clusterVars
  <2>2. PICK t : /\ task' = [task EXCEPT ![c] = t]
                 /\ t.pc \in {"idle", "now", "repeat", "reject", "halt",
                              "complete"}
    <3> DEFINE enter(l, s) == [IdleTask EXCEPT !.pc = l, !.inst = s]
               Targets == {"now", "repeat", "reject", "halt", "complete"}
    <3>1. \/ \E d : Return(c, d)
          \/ \E l \in Targets : \E s : Enter(c, l, s)
      BY <1>6 DEF Reconcile, reconcileForCreationAndRunning, schedule
    <3>2. \A l, s : enter(l, s).pc = l
      BY DEF IdleTask
    <3>3. \/ task' = [task EXCEPT ![c] = IdleTask]
          \/ \E l \in Targets : \E s : task' = [task EXCEPT ![c] = enter(l, s)]
      BY <3>1 DEF Return, Enter
    <3> HIDE DEF enter
    <3> QED
      BY <1>4, <3>2, <3>3
  <2>3. task'[c].pc \notin Deciding \cup {"engine", "range", "sleep"}
    BY <1>1, <2>2 DEF Deciding, Finding
  <2> QED
    BY <1>5, <2>1, <2>3, LeavingPays
<1>7. CASE schedule_Reject(c)
  <2>1. sched' = sched /\ task[c].pc = "reject" /\ task'[c].pc = "idle"
    BY <1>1, <1>4, <1>7 DEF schedule_Reject, At, Fail, clusterVars
  <2> QED
    BY <1>5, <2>1, LeavingPays DEF Deciding, Finding
<1>8. ASSUME NEW v \in ChaosSchedule,
             v.active = task[c].inst.active, v.rv = task[c].inst.rv,
             task[c].pc \in {"halt", "complete"},
             \/ UpdateAndReturn(c, v)
             \/ sched' = sched /\ (Done(c, 0) \/ Fail(c))
      PROVE  Pays(c)
  <2>1. task'[c].pc = "idle"
    BY <1>1, <1>4, <1>8 DEF UpdateAndReturn, Done, Return, Fail
  <2>2. sched'.active = sched.active
    <3>1. CASE UpdateAndReturn(c, v)
      <4>1. Accepts(v) /\ sched' = Stored(v)
        BY <3>1 DEF UpdateAndReturn
      <4>2. task[c].inst = sched
        BY <1>1, <1>8, <4>1, AcceptedIsCurrent DEF Accepts, SoundTask
      <4>3. Stored(v) = [v EXCEPT !.rv = Stored(v).rv]
        BY <1>1, <4>1, StoredFacts
      <4> QED
        BY <1>8, <4>1, <4>2, <4>3 DEF ChaosSchedule
    <3> QED
      BY <1>8, <3>1
  <2> QED
    BY <1>5, <1>8, <2>1, <2>2, LeavingPays DEF Deciding, Finding
<1>9. CASE reconcileForHalt(c) \/ reconcileForComplete(c)
  <2> DEFINE s == task[c].inst
             h == [s EXCEPT !.status = "halted"]
             w == [s EXCEPT !.status = "completed"]
  <2>1. /\ h \in ChaosSchedule /\ h.active = s.active /\ h.rv = s.rv
        /\ w \in ChaosSchedule /\ w.active = s.active /\ w.rv = s.rv
    <3>1. s \in ChaosSchedule
      BY <1>1 DEF Task
    <3> HIDE DEF s
    <3> QED
      BY <3>1 DEF ChaosSchedule, ChaosStatus
  <2> HIDE DEF h, w
  <2>2. CASE reconcileForHalt(c)
    <3>1. /\ task[c].pc = "halt"
          /\ \/ UpdateAndReturn(c, h)
             \/ sched' = sched /\ (Done(c, 0) \/ Fail(c))
      BY <2>2 DEF reconcileForHalt, UpdateRefused, At, h
    <3> QED
      BY <1>8, <2>1, <3>1
  <2>3. CASE reconcileForComplete(c)
    <3>1. /\ task[c].pc = "complete"
          /\ \/ UpdateAndReturn(c, w)
             \/ sched' = sched /\ (Done(c, 0) \/ Fail(c))
      BY <2>3 DEF reconcileForComplete, UpdateRefused, At, w
    <3> QED
      BY <1>8, <2>1, <3>1
  <2> QED
    BY <1>9, <2>2, <2>3
<1>10. CASE UpdateSchedulerStatus(c) \/ UpdateSchedulerStatus_Retry(c)
  <2>1. task[c].pc \in {"finish", "retry"}
    BY <1>10 DEF UpdateSchedulerStatus, UpdateSchedulerStatus_Retry, At
  <2>2. task'[c].pc \in {"idle", "retry"}
    BY <1>1, <1>4, <1>10, <2>1
    DEF UpdateSchedulerStatus, UpdateSchedulerStatus_Retry, UpdateAndReturn,
        Goto, Done, Return, Fail, At, Task
  <2>3. EndPassed
    BY <1>1, <2>1 DEF SoundTask, Over
  <2>4. Ended(c) /\ Ended(c)'
    BY <1>2, <2>1, <2>2, <2>3 DEF Ended, EndPassed, Deciding, Finding
  <2>5. OwnList(c)'
    BY <2>2 DEF OwnList, Deciding, Finding
  <2> QED
    BY <1>1, <1>2, <1>3, <2>4, <2>5 DEF Pays, KeepsAccount, RunningEngines
<1> QED
  BY <1>6, <1>7, <1>9, <1>10

\* The refreshed list keeps every running engine that the process can see.
LEMMA RefreshPays ==
  ASSUME Inv, Inv', IsRepeat, NEW c \in Controllers,
         \A u \in DOMAIN engines : engines[u].labelled,
         createEngineRepeat_Update(c)
  PROVE  Pays(c)
<1> DEFINE s == task[c].inst
           v == updateActiveStatus(s, engCache[c])
<1>1. /\ TypeOK /\ task[c] \in SoundTask /\ task \in [Controllers -> Task]
      /\ s \in Known /\ s \in ChaosSchedule /\ engCache[c] \in EngineView
      /\ sched \in ChaosSchedule /\ Losses \in Nat /\ now \in Nat
  <2>1. TypeOK
    BY DEF Inv
  <2>2. Losses \in Nat
    BY <2>1, LossFacts
  <2> QED
    BY <2>1, <2>2, ConstantFacts
    DEF Inv, TypeOK, ClusterTypeOK, SoundTask, Known, Plausible
<1>2. /\ UNCHANGED <<now, kind, engineVars, cacheVars, spent>>
      /\ task[c].pc = "repeat"
      /\ Update(c, "range", v) \/ UpdateRefused(c, v)
  BY DEF createEngineRepeat_Update, At, PersistActiveStatus, updateFrame
<1>3. Losses' = Losses
  BY <1>1, <1>2, LossFacts
<1>4. CASE UpdateRefused(c, v)
  <2>1. sched' = sched /\ task'[c].pc = "idle"
    BY <1>1, <1>4 DEF UpdateRefused, Fail, IdleTask
  <2>2. Elsewhere(c)
    BY <1>1, <1>2, <1>3, <2>1 DEF Elsewhere, RunningEngines
  <2> QED
    BY <1>2, <2>1, <2>2, LeavingPays DEF Deciding, Finding
<1>5. CASE Update(c, "range", v)
  <2>1. /\ v \in ChaosSchedule /\ v.rv = s.rv
        /\ v.exists = s.exists
    BY <1>1, RefreshedFacts DEF Plausible
  <2>2. v.active = {u \in s.active :
                      /\ u \in engCache[c].live /\ engines[u].labelled
                      /\ u \notin engCache[c].done}
    BY <1>1 DEF updateActiveStatus, IsEngineFinished, ChaosSchedule
  <2> HIDE DEF v
  <2>3. /\ Accepts(v) /\ sched' = Stored(v)
        /\ task'[c].pc = "range" /\ task'[c].inst = sched'
    BY <1>1, <1>5 DEF Update, Task
  <2>4. s = sched /\ sched.exists
    BY <1>1, <2>1, <2>3, AcceptedIsCurrent DEF Accepts
  <2>5. sched'.active = v.active /\ sched'.exists = v.exists
    BY <1>1, <2>1, <2>3, StoredFacts DEF ChaosSchedule
  <2>6. OwnList(c)' /\ ~Overtaken(c)'
    BY <2>1, <2>3, <2>4, <2>5 DEF OwnList, Overtaken, Deciding, Finding
  <2>7. Unheld(c)' \subseteq Unheld(c)
    <3>1. ASSUME NEW u \in RunningEngines,
                 u \in sched.active, u \in engCache[c].live
          PROVE  u \in sched'.active
      <4>1. u \in DOMAIN engines /\ u \notin engCache[c].done
        BY <1>1 DEF RunningEngines, Inv, CachesLag, TypeOK, ClusterTypeOK
      <4> QED
        BY <2>2, <2>4, <2>5, <3>1, <4>1
    <3>2. /\ Held(c) = sched.active \cap engCache[c].live
          /\ Held(c)' = sched'.active \cap engCache[c].live
          /\ RunningEngines' = RunningEngines
      BY <1>2, <2>3 DEF Held, RunningEngines
    <3> QED
      BY <3>1, <3>2 DEF Unheld
  <2>8. Slack(c) <= Slack(c)'
    BY <1>1, <1>3, <2>6, SlackFacts DEF Inv
  <2>9. Ended(c) => Ended(c)'
    BY <1>2, <2>3 DEF Ended, EndPassed, Deciding, Finding
  <2> QED
    BY <1>1, <1>2, <1>3, <2>6, <2>7, <2>8, <2>9
    DEF Pays, KeepsAccount, RunningEngines
<1> QED
  BY <1>2, <1>4, <1>5

\* Deciding changes nothing: a handler goes on to make a run with the copy it
\* has, and no handler starts to once the end has passed.
LEMMA DecidingPays ==
  ASSUME Inv, Inv', IsRepeat, NEW c \in Controllers, OwnList(c),
         \/ createEngineRepeat_Range(c) \/ createEngineRepeat_Unmet(c)
         \/ firstScheduleTime_Days(c) \/ firstScheduleTime_Hours(c)
         \/ firstScheduleTime_Inside(c) \/ firstScheduleTime_Outside(c)
         \/ createEngineRepeat_Wait(c) \/ createEngineRepeat_Decide(c)
  PROVE  Pays(c)
<1>1. /\ task \in [Controllers -> Task] /\ Losses \in Nat /\ now \in Nat
      /\ TypeOK
  <2>1. TypeOK
    BY DEF Inv
  <2>2. Losses \in Nat
    BY <2>1, LossFacts
  <2> QED
    BY <2>1, <2>2, ConstantFacts DEF TypeOK, ClusterTypeOK
<1>2. /\ UNCHANGED <<now, kind, sched, engineVars, cacheVars, spent>>
      /\ task[c].pc \in {"range"} \cup Finding
  BY DEF createEngineRepeat_Range, createEngineRepeat_Unmet,
         firstScheduleTime_Days, firstScheduleTime_Hours,
         firstScheduleTime_Inside, firstScheduleTime_Outside,
         createEngineRepeat_Wait, createEngineRepeat_Decide, Finding, At,
         clusterVars
<1>3. Losses' = Losses
  BY <1>1, <1>2, LossFacts
<1>4. Elsewhere(c)
  BY <1>1, <1>2, <1>3 DEF Elsewhere, RunningEngines
<1>5. \/ task'[c].pc \in {"idle", "finish"}
      \/ /\ task'[c].pc \in Deciding \ {"record"}
         /\ task'[c].inst = task[c].inst
         /\ task[c].pc = "range" => ~EndPassed /\ ~task[c].inst.deleting
  BY <1>1 DEF createEngineRepeat_Range, createEngineRepeat_Unmet,
              firstScheduleTime_Days, firstScheduleTime_Hours,
              firstScheduleTime_Inside, firstScheduleTime_Outside,
              createEngineRepeat_Wait, createEngineRepeat_Decide, DueAt, At,
              Goto, Done, Return, Fail, IdleTask, Task, Deciding, Finding
<1>6. CASE task'[c].pc \in {"idle", "finish"}
  BY <1>2, <1>4, <1>6, LeavingPays DEF Deciding, Finding
<1>7. CASE /\ task'[c].pc \in Deciding \ {"record"}
           /\ task'[c].inst = task[c].inst
           /\ task[c].pc = "range" => ~EndPassed /\ ~task[c].inst.deleting
  <2>1. OwnList(c)'
    BY <1>2, <1>7 DEF OwnList, Deciding, Finding
  <2>2. Overtaken(c)' => Overtaken(c)
    BY <1>2, <1>7 DEF Overtaken, InFlight, Deciding, Finding
  <2>3. Unheld(c)' \subseteq Unheld(c)
    BY <1>2, <1>7 DEF Unheld, Held, RunningEngines, Deciding, Finding
  <2>4. ~Ended(c)
    BY <1>2, <1>7 DEF Ended, Deciding, Finding
  <2>5. Slack(c) <= Slack(c)'
    BY <1>1, <1>3, <2>2, SlackFacts DEF Inv
  <2> QED
    BY <2>1, <2>3, <2>4, <2>5 DEF Pays, KeepsAccount
<1> QED
  BY <1>5, <1>6, <1>7

\* A new engine is held from the start, and with the list empty it does not
\* push another one out.
LEMMA CreatePays ==
  ASSUME Inv, Inv', IsRepeat, NEW c \in Controllers, OwnList(c),
         createNewEngine_Create(c)
  PROVE  Pays(c)
<1>1. /\ task[c] \in SoundTask /\ task \in [Controllers -> Task]
      /\ Losses \in Nat /\ now \in Nat /\ TypeOK
  <2>1. TypeOK
    BY DEF Inv
  <2>2. Losses \in Nat
    BY <2>1, LossFacts
  <2> QED
    BY <2>1, <2>2, ConstantFacts DEF Inv, TypeOK, ClusterTypeOK
<1>2. PICK n : CreateEngine(c, n) /\ task[c].pc = "create"
  BY DEF createNewEngine_Create, At
<1>3. UNCHANGED <<now, kind, sched, done, stopped, cacheVars, spent>>
  BY <1>2 DEF CreateEngine
<1>4. Losses' = Losses
  BY <1>1, <1>3, LossFacts
<1>5. CASE NameTaken(n)
  <2>1. UNCHANGED <<engines, live>> /\ task'[c].pc = "idle"
    BY <1>1, <1>2, <1>5 DEF CreateEngine, Fail, IdleTask
  <2>2. Elsewhere(c)
    BY <1>1, <1>3, <1>4, <2>1 DEF Elsewhere, RunningEngines
  <2> QED
    BY <1>2, <2>1, <2>2, LeavingPays DEF Deciding, Finding
<1>6. CASE ~NameTaken(n)
  <2> DEFINE u == Len(engines')
  <2>1. /\ live' = live \cup {u}
        /\ task' = [task EXCEPT ![c].pc = "record", ![c].uid = u]
    BY <1>2, <1>6 DEF CreateEngine
  <2> HIDE DEF u
  <2>2. /\ task'[c].pc = "record" /\ task'[c].uid = u
        /\ task'[c].inst = task[c].inst
    BY <1>1, <2>1 DEF Task
  <2>3. OwnList(c)'
    BY <1>2, <1>3, <2>2 DEF OwnList, Deciding, Finding
  <2>4. Overtaken(c)' => Overtaken(c)
    BY <1>2, <1>3, <2>2 DEF Overtaken, InFlight, Finding
  <2>5. sched.active = {}
    BY <1>1, <1>2 DEF OwnList, SoundTask, Deciding, Finding
  <2>6. Held(c)' = {u} /\ Held(c) = {}
    BY <1>2, <2>2, <2>5 DEF Held
  <2>7. Unheld(c)' \subseteq Unheld(c)
    BY <1>3, <2>1, <2>6 DEF Unheld, RunningEngines
  <2>8. ~Ended(c)
    BY <1>2 DEF Ended, Deciding, Finding
  <2>9. Slack(c) <= Slack(c)'
    BY <1>1, <1>4, <2>4, SlackFacts DEF Inv
  <2> QED
    BY <2>3, <2>7, <2>8, <2>9 DEF Pays, KeepsAccount
<1> QED
  BY <1>5, <1>6

\* A record that is refused was overtaken by an edit, which pays for it; one
\* that is accepted enters the engine into the list.
LEMMA RecordPays ==
  ASSUME Inv, Inv', IsRepeat, NEW c \in Controllers, OwnList(c),
         createNewEngine_Record(c)
  PROVE  Pays(c)
<1> DEFINE s == task[c].inst
           u == task[c].uid
           v == [Recorded(s, task[c].due, u) EXCEPT !.runs = @ + 1]
<1>1. /\ task[c] \in SoundTask /\ task[c] \in Task
      /\ task \in [Controllers -> Task]
      /\ s \in Known /\ s \in ChaosSchedule /\ u \in Nat
      /\ Losses \in Nat /\ now \in Nat /\ TypeOK
  <2>1. TypeOK
    BY DEF Inv
  <2>2. Losses \in Nat
    BY <2>1, LossFacts
  <2>3. task \in [Controllers -> Task] /\ now \in Nat
    BY <2>1, ConstantFacts DEF TypeOK, ClusterTypeOK
  <2>4. task[c] \in SoundTask
    BY DEF Inv
  <2>5. task[c] \in Task /\ s \in Known
    BY <2>4 DEF SoundTask
  <2>6. s \in ChaosSchedule /\ u \in Nat
    BY <2>5 DEF Known, Plausible, Task
  <2> QED
    BY <2>1, <2>2, <2>3, <2>4, <2>5, <2>6
<1>2. /\ UNCHANGED <<now, kind, engineVars, cacheVars, spent>>
      /\ task[c].pc = "record"
      /\ Update(c, "sleep", v) \/ UpdateRefused(c, v)
  BY DEF createNewEngine_Record, At, updateFrame
<1>3. Losses' = Losses
  BY <1>1, <1>2, LossFacts
<1>4. /\ task[c].due \in Nat /\ s.active = {} /\ s.exists
  BY <1>1, <1>2 DEF SoundTask, OwnList, Deciding, Finding
<1>5. v \in ChaosSchedule /\ v.rv = s.rv /\ v.active = {u}
  BY <1>1, <1>4, CountedFacts
<1> HIDE DEF v
<1>6. CASE UpdateRefused(c, v)
  <2>1. sched' = sched /\ task'[c].pc = "idle"
    BY <1>1, <1>6 DEF UpdateRefused, Fail, IdleTask
  <2>2. Elsewhere(c)
    BY <1>1, <1>2, <1>3, <2>1 DEF Elsewhere, RunningEngines
  <2>3. Overtaken(c)
    BY <1>2, <1>4, <1>5, <1>6 DEF UpdateRefused, Accepts, Overtaken
  <2> QED
    BY <2>1, <2>2, <2>3, LosingPays
<1>7. CASE Update(c, "sleep", v)
  <2>1. /\ Accepts(v) /\ sched' = Stored(v)
        /\ task'[c].pc = "sleep" /\ task'[c].uid = u
    BY <1>1, <1>7 DEF Update, Task
  <2>2. sched'.active = {u}
    BY <1>1, <1>5, <2>1, StoredFacts DEF ChaosSchedule
  <2>3. OwnList(c)' /\ ~Overtaken(c)'
    BY <2>1, <2>2 DEF OwnList, Overtaken, InFlight, Deciding, Finding
  <2>4. Unheld(c)' \subseteq Unheld(c)
    BY <1>2, <2>1 DEF Unheld, Held, RunningEngines
  <2>5. ~Ended(c)
    BY <1>2 DEF Ended, Deciding, Finding
  <2>6. Slack(c) <= Slack(c)'
    BY <1>1, <1>3, <2>3, SlackFacts DEF Inv
  <2> QED
    BY <2>3, <2>4, <2>5, <2>6 DEF Pays, KeepsAccount
<1> QED
  BY <1>2, <1>6, <1>7

\* The sleep ends when the process sees the engine it has made: from then on
\* the list holds it.
LEMMA WakePays ==
  ASSUME Inv, Inv', IsRepeat, NEW c \in Controllers, OwnList(c), PromptWatch,
         createNewEngine_Wake(c)
  PROVE  Pays(c)
<1>1. /\ UNCHANGED <<now, kind, sched, engineVars, cacheVars, spent>>
      /\ task[c].pc = "sleep" /\ engCache[c].live = live
      /\ task' = [task EXCEPT ![c] = IdleTask]
  BY DEF createNewEngine_Wake, At, clusterVars, Engines, Done, Return
<1>2. task'[c].pc = "idle"
  BY <1>1 DEF Inv, TypeOK, IdleTask
<1>3. sched.active = {task[c].uid}
  BY <1>1 DEF OwnList
<1>4. /\ Held(c) = sched.active
      /\ Held(c)' = sched.active \cap live
      /\ RunningEngines' = RunningEngines
  BY <1>1, <1>2, <1>3 DEF Held, RunningEngines
<1>5. Unheld(c)' \subseteq Unheld(c)
  BY <1>4 DEF Unheld, RunningEngines
<1>6. OwnList(c)' /\ ~Overtaken(c)'
  BY <1>2 DEF OwnList, Overtaken, InFlight, Deciding, Finding
<1>7. Losses' = Losses /\ Losses \in Nat
  BY <1>1, LossFacts DEF Inv
<1>8. Slack(c) <= Slack(c)'
  BY <1>6, <1>7, SlackFacts DEF Inv
<1>9. Ended(c) => Ended(c)'
  BY <1>1, <1>2 DEF Ended, EndPassed, Deciding, Finding
<1> QED
  BY <1>4, <1>5, <1>6, <1>7, <1>8, <1>9 DEF Pays, KeepsAccount

-----------------------------------------------------------------------------
(***************************************************************************)
(* The theorems.                                                           *)
(***************************************************************************)

\* No step takes an engine's labels away, and every engine is made with them
\* unless the schedule's own override them.
LEMMA LabelsKept ==
  ASSUME Inv, [Next]_vars, ~OverridesLabels,
         \A u \in DOMAIN engines : engines[u].labelled
  PROVE  kind' = kind /\ \A u \in DOMAIN engines' : engines'[u].labelled
<1>1. engines \in Seq(ChaosEngine)
  BY DEF Inv, TypeOK, ClusterTypeOK
<1>2. CASE UNCHANGED <<kind, engines>>
  BY <1>2
<1>3. ASSUME NEW d \in Controllers,
             createForNowAndOnce_Create(d) \/ createNewEngine_Create(d)
      PROVE  kind' = kind /\ \A u \in DOMAIN engines' : engines'[u].labelled
  <2>1. PICK n : CreateEngine(d, n) /\ n \in Nat \cup {BareName}
    <3>1. task[d] \in SoundTask /\ \A t \in Nat : getTimeHash(t) \in Nat
      BY DEF Inv, getTimeHash
    <3> QED
      BY <1>3, <3>1
      DEF createForNowAndOnce_Create, createNewEngine_Create, At, SoundTask
  <2> DEFINE e == getEngineFromTemplate(n)
  <2>2. e \in ChaosEngine /\ e.labelled
    BY <2>1 DEF getEngineFromTemplate, ChaosEngine
  <2> HIDE DEF e
  <2>3. kind' = kind /\ (engines' = engines \/ engines' = Append(engines, e))
    BY <2>1 DEF CreateEngine, e
  <2> QED
    BY <1>1, <2>2, <2>3
<1> QED
  BY <1>2, <1>3, EngineSteps DEF ReapEngine, CollectEngine

\* At first nothing runs and nothing is lost.
LEMMA LossesPayInit == Init => LossesPay
<1> SUFFICES ASSUME Init PROVE LossesPay
  OBVIOUS
<1>1. engines = <<>> /\ RunningEngines = {}
  BY DEF Init, ClusterInit, RunningEngines
<1>2. Losses = 0
  <2>1. spent["crash"] = 0 /\ spent["error"] = 0 /\ spent["edit"] = 0
    BY DEF Init, ClusterInit, Spending
  <2> QED
    BY <2>1 DEF Losses
<1>3. ASSUME NEW c \in Controllers PROVE OwnList(c) /\ Accounted(c)
  <2>1. task[c].pc = "idle"
    BY DEF Init, IdleTask
  <2>2. OwnList(c) /\ ~Overtaken(c)
    BY <2>1 DEF OwnList, Overtaken, InFlight, Deciding, Finding
  <2>3. Slack(c) = 0 /\ Unheld(c) = {}
    <3>1. IF Overtaken(c) THEN Slack(c) = Losses - 1 ELSE Slack(c) = Losses - 0
      BY DEF Slack
    <3> QED
      BY <1>1, <1>2, <2>2, <3>1 DEF Unheld
  <2> QED
    BY <1>1, <1>2, <2>2, <2>3, FS_EmptySet DEF Accounted
<1> QED
  BY <1>1, <1>3 DEF LossesPay

\* Every step keeps the account, for a single process.
LEMMA LossesPayStep ==
  ASSUME Inv, LossesPay, [Next]_vars,
         NEW c, Controllers = {c}, PromptWatch, ~OverridesLabels
  PROVE  LossesPay'
<1> SUFFICES ASSUME IsRepeat' PROVE LossesPay'
  BY DEF LossesPay
<1>1. IsRepeat
  <2>1. kind' = kind
    BY EngineSteps
    DEF ReapEngine, CollectEngine, createForNowAndOnce_Create,
        createNewEngine_Create, CreateEngine
  <2> QED
    BY <2>1 DEF IsRepeat
<1>2. /\ \A u \in DOMAIN engines : engines[u].labelled
      /\ c \in Controllers /\ OwnList(c) /\ Accounted(c)
  BY <1>1 DEF LossesPay
<1>3. \A u \in DOMAIN engines' : engines'[u].labelled
  BY <1>2, LabelsKept
<1>4. Inv'
  BY NextInv
<1>5. Pays(c)
  <2>1. CASE UserStep \/ ClusterStep \/ UNCHANGED vars
    BY <1>1, <1>2, <1>4, <2>1, EnvironmentPays
  <2>2. CASE ProcessStep(c)
    <3>1. task[c].pc \notin {"now", "engine"}
      BY <1>1, <1>2 DEF Inv, SoundTask
    <3>2. \/ Reconcile(c) \/ schedule_Reject(c)
          \/ reconcileForHalt(c) \/ reconcileForComplete(c)
          \/ UpdateSchedulerStatus(c) \/ UpdateSchedulerStatus_Retry(c)
          \/ createEngineRepeat_Update(c) \/ createEngineRepeat_Range(c)
          \/ createEngineRepeat_Unmet(c)
          \/ firstScheduleTime_Days(c) \/ firstScheduleTime_Hours(c)
          \/ firstScheduleTime_Inside(c) \/ firstScheduleTime_Outside(c)
          \/ createEngineRepeat_Wait(c) \/ createEngineRepeat_Decide(c)
          \/ createNewEngine_Create(c) \/ createNewEngine_Record(c)
          \/ createNewEngine_Wake(c)
          \/ WatchSchedule(c) \/ WatchEngines(c) \/ TimerFires(c)
          \/ Resync(c) \/ Restart(c) \/ ApiError(c)
      BY <1>1, <2>2, <3>1
      DEF ProcessStep, Handler, At, createForNowAndOnce_Update,
          createForNowAndOnce_Get, createForNowAndOnce_Create,
          createForNowAndOnce_Record
    <3> QED
      BY <1>1, <1>2, <1>4, <3>2, StatusPays, RefreshPays, DecidingPays,
         CreatePays, RecordPays, WakePays, QueuePays, FailurePays
  <2> QED
    BY <1>2, <2>1, <2>2 DEF Next
<1>6. Accounted(c)'
  BY <1>1, <1>2, <1>4, <1>5, AccountStep DEF Pays
<1> QED
  BY <1>3, <1>5, <1>6 DEF LossesPay, Pays

\* The bound of OverlapsAreLostRecords is one engine and the losses.
LEMMA LossBound ==
  ASSUME TypeOK
  PROVE  OverlapsAreLostRecords <=> Cardinality(RunningEngines) <= 1 + Losses
<1>1. spent["crash"] \in Nat /\ spent["error"] \in Nat /\ spent["edit"] \in Nat
  BY DEF TypeOK, ClusterTypeOK, Spending
<1>2. 1 + Losses = 1 + spent["crash"] + spent["error"] + spent["edit"]
  BY <1>1 DEF Losses
<1> QED
  BY <1>2 DEF OverlapsAreLostRecords

\* With the list right, at most one engine runs that no loss has paid for.
LEMMA PaidOverlaps ==
  ASSUME Inv, IsRepeat, NEW c \in Controllers, Accounted(c)
  PROVE  OverlapsAreLostRecords
<1> DEFINE R == RunningEngines
<1>1. /\ IsFiniteSet(R) /\ Losses \in Nat
      /\ Cardinality(R) \in Nat /\ Cardinality(Unheld(c)) \in Nat
      /\ Cardinality(R) <= Cardinality(Unheld(c)) + 1
  <2>1. IsFiniteSet(R) /\ Losses \in Nat
    BY CountFacts DEF Inv
  <2> QED
    BY <2>1, PartIsSmaller, AllButOne, HeldIsOne DEF Unheld
<1>2. Slack(c) <= Losses /\ Slack(c) \in Int
  <2>1. IF Overtaken(c) THEN Slack(c) = Losses - 1 ELSE Slack(c) = Losses - 0
    BY DEF Slack
  <2> QED
    BY <1>1, <2>1
<1>3. Cardinality(R) <= 1 + Losses
  BY <1>1, <1>2 DEF Accounted
<1>4. OverlapsAreLostRecords <=> Cardinality(RunningEngines) <= 1 + Losses
  BY LossBound DEF Inv
<1> QED
  BY <1>3, <1>4

\* A schedule that runs once has one engine at a time anyway.
LEMMA OneEngineAtATime ==
  ASSUME Inv, ~IsRepeat, OneEngine
  PROVE  OverlapsAreLostRecords
<1>1. \A u, v \in RunningEngines : u = v
  BY DEF OneEngine, RunningEngines
<1>2. IsFiniteSet(RunningEngines) /\ Losses \in Nat
  BY CountFacts DEF Inv
<1>3. Cardinality(RunningEngines) <= 1
  <2>1. Cardinality(RunningEngines)
          <= Cardinality(RunningEngines \ RunningEngines) + 1
    BY <1>1, <1>2, AllButOne
  <2>2. RunningEngines \ RunningEngines = {}
    OBVIOUS
  <2> QED
    BY <2>1, <2>2, FS_EmptySet
<1>4. OverlapsAreLostRecords <=> Cardinality(RunningEngines) <= 1 + Losses
  BY LossBound DEF Inv
<1> QED
  BY <1>2, <1>3, <1>4, FS_CardinalityType

\* For a single process whose watches are prompt, every engine of a repeat
\* schedule that runs beside the listed one is paid for by a loss of its own.
THEOREM EveryOverlapIsPaid ==
  ASSUME NEW c, Controllers = {c}, PromptWatch, ~OverridesLabels
  PROVE  Spec => []LossesPay
<1>1. Inv /\ LossesPay /\ [Next]_vars => LossesPay'
  BY LossesPayStep
<1> QED
  BY <1>1, LossesPayInit, InvHolds, PTL DEF Spec

\* How far "Forbid" goes: crashes, failing calls and edits are all that lets
\* engines of one schedule run at the same time, and each adds one at most.
THEOREM ForbidUpToLosses ==
  ASSUME NEW c, Controllers = {c}, PromptWatch, ~OverridesLabels
  PROVE  Spec => []OverlapsAreLostRecords
<1>1. Init => OneEngine
  BY DEF Init, ClusterInit, OneEngine, Spending
<1>2. Inv /\ LossesPay /\ OneEngine => OverlapsAreLostRecords
  BY PaidOverlaps, OneEngineAtATime DEF LossesPay
<1> QED
  BY <1>1, <1>2, EveryOverlapIsPaid, OneEngineStep, InvHolds, PTL DEF Spec

=============================================================================
