------------------------------ MODULE Cluster ------------------------------
(***************************************************************************)
(* What the chaos-scheduler runs against: the Kubernetes API server with   *)
(* one ChaosSchedule object and the ChaosEngines created for it, the       *)
(* informer caches the scheduler processes read from, the user, the        *)
(* chaos-operator, the garbage collector, and the clock.                   *)
(*                                                                         *)
(* The clock counts half seconds: an even instant is a whole second, an    *)
(* odd one lies strictly inside a second, which is what separates the      *)
(* time.Now() of the code from the metav1.Time it is stored as.            *)
(***************************************************************************)
EXTENDS Integers, Sequences, FiniteSets

CONSTANTS
  Controllers,       \* the scheduler processes
  Kinds,             \* the schedule types a behaviour may be about
  InitStates,        \* spec.scheduleState in the manifest the user applies
  EditStates,        \* the scheduleStates the user may edit the object to
  Deletions,         \* the ways in which the user may delete the schedule
  CreationTimestamp, \* metadata.creationTimestamp
  MaxTime,           \* bound: the clock stops here
  MaxEdits,          \* bound: edits and deletions of the schedule
  MaxReaps,          \* bound: engines deleted by the user
  MaxStops           \* bound: engines stopped by the user

\* Schedule types: spec.schedule has now, once, repeat or none of them.
\* Three kinds of repeat cannot be read to the end: the cron string cannot be
\* formed or parsed ("badrepeat"), or cron accepts it and the scheduler's own
\* reading of the included days or hours ends in an error.
ScheduleKind ==
  {"now", "once", "repeat", "badrepeat", "baddays", "badhours", "none"}

ScheduleState == {"", "active", "halt", "stop", "complete"}

\* StatusStopped is declared by the API and never written.
ChaosStatus == {"", "running", "halted", "completed"}

ASSUME ClusterAssumption ==
  /\ Kinds \subseteq ScheduleKind
  /\ InitStates \subseteq ScheduleState
  /\ EditStates \subseteq ScheduleState
  /\ Deletions \subseteq {"background", "foreground"}
  /\ CreationTimestamp \in Nat /\ CreationTimestamp % 2 = 0
  /\ MaxTime \in Nat /\ CreationTimestamp <= MaxTime
  /\ MaxEdits \in Nat /\ MaxReaps \in Nat /\ MaxStops \in Nat

NoTime == -1  \* a nil *metav1.Time

Time == Nat \cup {NoTime}

\* The serialised form of an instant: metav1.Time keeps whole seconds.
Second(t) == t - (t % 2)

(***************************************************************************)
(* A version of the ChaosSchedule object as the API server stores it: the  *)
(* parts of metadata, spec and status that the scheduler branches on.      *)
(* "active" is status.active, a list of references by UID, as a set.       *)
(***************************************************************************)
ChaosSchedule ==
  [rv : Nat, exists : BOOLEAN, deleting : BOOLEAN,
   state : ScheduleState, status : ChaosStatus, active : SUBSET Nat,
   last : Time, lastDone : Time, runs : Nat]

\* No object: what a cache that has not seen one holds, and what is said of
\* a worker that is handling none.
Absent ==
  [rv |-> 0, exists |-> FALSE, deleting |-> FALSE,
   state |-> "", status |-> "", active |-> {},
   last |-> NoTime, lastDone |-> NoTime, runs |-> 0]

\* An engine is its name (the bare schedule name, or the schedule name and
\* a second), whether it carries an owner reference to the schedule, and
\* whether it carries the labels that the controller lists engines by.
BareName == -1

ChaosEngine ==
  [name : Nat \cup {BareName}, owned : BOOLEAN, labelled : BOOLEAN]

EngineView == [live : SUBSET Nat, done : SUBSET Nat, stopped : SUBSET Nat]

Spending == {"edit", "reap", "stop", "crash", "error"}

VARIABLES
  now,         \* the clock
  kind,        \* spec.schedule of the object, never edited
  sched,       \* the ChaosSchedule in the API server
  engines,     \* every engine ever created; its index is its UID
  live,        \* UIDs of the engines that exist
  done,        \* UIDs of the engines the operator has marked completed
  stopped,     \* UIDs of the engines the operator has marked stopped
  schedCache,  \* each process's informer cache of the schedule
  engCache,    \* each process's informer cache of the engines
  spent        \* how much of each environment bound is used up

engineVars == <<engines, live, done, stopped>>

cacheVars == <<schedCache, engCache>>

clusterVars == <<now, kind, sched, engineVars, cacheVars, spent>>

Engines == [live |-> live, done |-> done, stopped |-> stopped]

ClusterTypeOK ==
  /\ now \in CreationTimestamp..MaxTime
  /\ kind \in ScheduleKind
  /\ sched \in ChaosSchedule
  /\ engines \in Seq(ChaosEngine)
  /\ live \subseteq 1..Len(engines)
  /\ done \subseteq 1..Len(engines)
  /\ stopped \subseteq 1..Len(engines)
  /\ schedCache \in [Controllers -> ChaosSchedule]
  /\ engCache \in [Controllers -> EngineView]
  /\ spent \in [Spending -> Nat]

ClusterInit ==
  /\ now = CreationTimestamp
  /\ kind \in Kinds
  /\ \E s \in InitStates :
       sched = [Absent EXCEPT !.rv = 1, !.exists = TRUE, !.state = s]
  /\ engines = <<>>
  /\ live = {}
  /\ done = {}
  /\ stopped = {}
  /\ schedCache = [c \in Controllers |-> Absent]
  /\ engCache = [c \in Controllers |-> Engines]
  /\ spent = [f \in Spending |-> 0]

Spend(f) == spent' = [spent EXCEPT ![f] = @ + 1]

-----------------------------------------------------------------------------
(***************************************************************************)
(* The API server's side of client.Update and client.Create.               *)
(*                                                                         *)
(* Update replaces the whole object (the CRD has no status subresource)    *)
(* if the resourceVersion it carries is the current one, and answers       *)
(* Conflict otherwise, NotFound if the object is gone.  A write that       *)
(* changes nothing keeps the resourceVersion and produces no watch event.  *)
(***************************************************************************)
\* Fault: the server takes whatever it is sent (an unconditional update).
AcceptsAnyVersion(v) == sched.exists

Accepts(v) == sched.exists /\ v.rv = sched.rv

Conflicts(v) == sched.exists /\ v.rv # sched.rv

\* Fault: the CRD has a status subresource, and Update drops the status.
Stored_SpecOnly(v) == [sched EXCEPT !.state = v.state]

Stored(v) ==
  IF [v EXCEPT !.rv = sched.rv] = sched
  THEN sched
  ELSE [v EXCEPT !.rv = sched.rv + 1]

\* Two engines of one name cannot exist at once: AlreadyExists.
NameTaken(n) == \E u \in live : engines[u].name = n

-----------------------------------------------------------------------------
(***************************************************************************)
(* The environment's steps.                                                *)
(***************************************************************************)
Tick ==
  /\ now < MaxTime
  /\ now' = now + 1
  /\ UNCHANGED <<kind, sched, engineVars, cacheVars, spent>>

\* kubectl edit: spec.scheduleState of the current object.
UserEdit(s) ==
  /\ spent["edit"] < MaxEdits
  /\ sched.exists /\ sched.state # s
  /\ sched' = [sched EXCEPT !.state = s, !.rv = @ + 1]
  /\ Spend("edit")
  /\ UNCHANGED <<now, kind, engineVars, cacheVars>>

\* kubectl delete: in the background the object goes at once; in the
\* foreground it gets a deletionTimestamp, and goes when its engines have.
UserDelete(mode) ==
  /\ spent["edit"] < MaxEdits
  /\ sched.exists /\ ~sched.deleting
  /\ sched' = [sched EXCEPT !.deleting = (mode = "foreground"),
                            !.exists = (mode = "foreground"), !.rv = @ + 1]
  /\ Spend("edit")
  /\ UNCHANGED <<now, kind, engineVars, cacheVars>>

\* The user deletes one engine.
ReapEngine(u) ==
  /\ spent["reap"] < MaxReaps
  /\ u \in live
  /\ live' = live \ {u}
  /\ Spend("reap")
  /\ UNCHANGED <<now, kind, sched, engines, done, stopped, cacheVars>>

\* The engines at work: neither gone, nor completed, nor stopped.
RunningEngines == live \ (done \cup stopped)

\* The chaos-operator ends an engine's run.
FinishEngine(u) ==
  /\ u \in RunningEngines
  /\ done' = done \cup {u}
  /\ UNCHANGED <<now, kind, sched, engines, live, stopped, cacheVars, spent>>

\* ... or the user has it stop one: engineStatus is then stopped for good.
StopEngine(u) ==
  /\ spent["stop"] < MaxStops
  /\ u \in RunningEngines
  /\ stopped' = stopped \cup {u}
  /\ Spend("stop")
  /\ UNCHANGED <<now, kind, sched, engines, live, done, cacheVars>>

\* The garbage collector removes an engine whose owner is gone or going.
CollectEngine(u) ==
  /\ u \in live /\ engines[u].owned
  /\ ~sched.exists \/ sched.deleting
  /\ live' = live \ {u}
  /\ UNCHANGED <<now, kind, sched, engines, done, stopped, cacheVars, spent>>

\* ... and ends a foreground deletion once no engine is left.
CollectSchedule ==
  /\ sched.exists /\ sched.deleting
  /\ {u \in live : engines[u].owned} = {}
  /\ sched' = [sched EXCEPT !.exists = FALSE, !.rv = @ + 1]
  /\ UNCHANGED <<now, kind, engineVars, cacheVars, spent>>

EngineStep ==
  \E u \in live :
    ReapEngine(u) \/ FinishEngine(u) \/ StopEngine(u) \/ CollectEngine(u)

\* Watch events reach one process.  The two kinds have watches of their own,
\* so neither cache is ordered with respect to the other.
SyncSchedule(c) ==
  /\ schedCache[c] # sched
  /\ schedCache' = [schedCache EXCEPT ![c] = sched]
  /\ UNCHANGED <<now, kind, sched, engineVars, engCache, spent>>

SyncEngines(c) ==
  /\ engCache[c] # Engines
  /\ engCache' = [engCache EXCEPT ![c] = Engines]
  /\ UNCHANGED <<now, kind, sched, engineVars, schedCache, spent>>

=============================================================================
