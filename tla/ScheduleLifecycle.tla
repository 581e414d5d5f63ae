------------------------- MODULE ScheduleLifecycle -------------------------
(***************************************************************************)
(* What the scheduler promises about one ChaosSchedule, seen from outside: *)
(* the object and its engines change by the atomic steps below and by no   *)
(* others.  There are no caches, versions, workers, queues or crashes      *)
(* here; module SchedulerProperties shows that ChaosScheduler, which has   *)
(* them all, implements this specification.                                *)
(***************************************************************************)
EXTENDS Integers, Sequences

CONSTANTS StartAt, EndTime, NoTime, BareName

VARIABLES
  now,       \* the clock
  kind,      \* the schedule type
  object,    \* the object, without its resourceVersion
  engines,   \* every engine ever made
  done       \* the engines that have completed

vars == <<now, kind, object, engines, done>>

IsActive(s) == s.state \in {"", "active"}

IsRepeat == kind \in {"repeat", "badrepeat", "baddays", "badhours"}

\* The instant that an engine's name stands for: a whole second.
InstantOf(e) == 2 * e.name

Init ==
  /\ object.exists /\ ~object.deleting
  /\ object.status = "" /\ object.active = {}
  /\ object.last = NoTime /\ object.lastDone = NoTime /\ object.runs = 0
  /\ engines = <<>> /\ done = {}

\* The user sets scheduleState; nobody else makes a schedule active.
UserSets ==
  /\ object.exists
  /\ \E s \in {"", "active", "halt", "stop", "complete"} :
       object' = [object EXCEPT !.state = s]

\* The object is marked for deletion, or gone.
Delete ==
  /\ object.exists
  /\ \/ object' = [object EXCEPT !.deleting = TRUE]
     \/ object' = [object EXCEPT !.exists = FALSE]

\* A halt or a completion is reported once it is what the object asks for.
Report ==
  /\ object.exists
  /\ \/ object.state = "halt"
        /\ object' = [object EXCEPT !.status = "halted"]
     \/ object.state = "complete" /\ object.active = {}
        /\ object' = [object EXCEPT !.status = "completed"]

\* Engines that have finished, or are missing, leave the active list.
Refresh ==
  /\ object.exists /\ IsActive(object)
  /\ \E a \in SUBSET object.active, t \in {object.lastDone, now - (now % 2)} :
       object' = [object EXCEPT !.active = a, !.lastDone = t]

\* A run is entered: of a repeat schedule only when no other is active, under
\* the second in the name of its engine, and after every earlier run.
StartRun(u) ==
  /\ object.exists /\ IsActive(object)
  /\ \E t \in 0..now :
       /\ IsRepeat => /\ object.active = {}
                      /\ t = InstantOf(engines[u]) /\ t > object.last
       /\ object' =
            [object EXCEPT
               !.state = "active", !.status = "running", !.last = t,
               !.active = @ \cup {u}, !.runs = IF IsRepeat THEN @ + 1 ELSE @]

\* The schedule ends by itself when its time range is over, or when the engine
\* of a now or once schedule has completed: also under a user's newer edit.
Over ==
  IF IsRepeat THEN EndTime # NoTime /\ now > EndTime ELSE done # {}

Finish ==
  /\ object.exists /\ Over
  /\ object' = [object EXCEPT !.state = "complete", !.status = "completed",
                                  !.active = {}]

\* An engine is made and owned by the schedule, of a repeat schedule for an
\* instant of its time range that has come.
Make(e) ==
  /\ IF IsRepeat
     THEN /\ InstantOf(e) \in StartAt..now
          /\ EndTime # NoTime => InstantOf(e) <= EndTime
     ELSE e.name = BareName
  /\ engines' = Append(engines, e)

ScheduleStep ==
  /\ UserSets \/ Delete \/ Report \/ Refresh \/ Finish
     \/ \E u \in DOMAIN engines : StartRun(u)
  /\ UNCHANGED <<now, kind, engines, done>>

EngineStep ==
  /\ \E e \in [name : (0..now) \cup {BareName}, owned : {TRUE},
                labelled : BOOLEAN] : Make(e)
  /\ UNCHANGED <<now, kind, object, done>>

\* Time passes and engines complete.
Environment ==
  /\ now' >= now /\ done \subseteq done'
  /\ UNCHANGED <<kind, object, engines>>

Next == ScheduleStep \/ EngineStep \/ Environment

Spec == Init /\ [][Next]_vars

=============================================================================
