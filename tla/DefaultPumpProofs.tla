-------------------------- MODULE DefaultPumpProofs --------------------------
(***************************************************************************)
(* Proofs about DefaultPump.tla, for every number of tasks, depth of       *)
(* nesting and length of the clock: its types, that it never sleeps on     *)
(* work or past a timer, that Quit drains, and that it implements          *)
(* TaskQueue.tla.                                                          *)
(***************************************************************************)
EXTENDS DefaultPump, MessageLoopProofs

-----------------------------------------------------------------------------
(* The inductive invariant                                                 *)

\* Only the innermost run is not inside a task; a run not under way is fresh,
\* and none is under way once the loop is being destroyed.
RunsNest ==
  /\ \A d \in Runs : d < depth => run[d].task # 0
  /\ \A d \in Runs : d > depth => run[d] = Fresh
  /\ \A d \in Runs : run[d].mark <= posted
  /\ stage # "open" => depth = 0

\* The pump has looked at the queues and has done nothing since.
Looked == nestable /\ ((In("delayed") /\ ~did[depth]) \/ In("idle") \/ In("asleep"))

\* What came in since then has the event to show for it, and came after Quit.
NothingMissed ==
  Looked =>
    /\ work = <<>>
    /\ incoming # <<>> => event \/ posting
    /\ \A t \in Range(incoming) : t.id > run[depth].mark

\* The time to sleep until is right from DoDelayedWork to the wait.
WakeInTime ==
  nestable /\ (In("idle") \/ In("asleep")) =>
    \A e \in delayed : wake # 0 /\ wake <= e.task.due

IInv == TypeOK /\ RunsNest /\ QueuesInOrder /\ QueuesHold /\ NothingMissed /\ WakeInTime

-----------------------------------------------------------------------------
(* Steps                                                                   *)

USE DEF loopvars, pumpvars, runvars, envvars, vars

\* A step keeps the types.
LEMMA TypeStep ==
  ASSUME TypeOK, QueuesInOrder, [Next]_vars
  PROVE  TypeOK'
<1> USE LoopAssumption DEF TypeOK, LoopTypeOK, Runs
<1>1. CASE Post \/ TaskPosts
  <2>1. LoopTypeOK'
    BY <1>1, LoopTypes DEF Post, TaskPosts
  <2> QED BY <1>1, <2>1 DEF Post, TaskPosts
<1>2. CASE ScheduleWork
  BY <1>2 DEF ScheduleWork
<1>4. CASE DoWork
  <2> depth \in Runs
    BY <1>4 DEF DoWork, In, Working
  <2>1. CASE WorkDelays
    <3>1. LoopTypeOK'
      BY <2>1, LoopTypes
    <3>2. Head(Loaded).due \in 0..MaxTime
      BY <2>1, TakeFacts DEF WorkDelays, Task
    <3>3. ~WorkIsOver /\ ~WorkDefers /\ ~WorkRuns
      BY <2>1 DEF WorkDelays, WorkIsOver, WorkDefers, WorkRuns
    <3>4. wake' \in 0..MaxTime /\ UNCHANGED <<at, did, shouldQuit, event>>
      BY <1>4, <3>2, <3>3 DEF DoWork
    <3> QED BY <3>1, <3>4
  <2>2. CASE (WorkDefers \/ WorkRuns) /\ UNCHANGED pumpvars
    <3>1. LoopTypeOK'
      BY <2>2, LoopTypes
    <3> QED BY <2>2, <3>1
  <2>3. CASE GoTo("delayed", FALSE) /\ UNCHANGED <<loopvars, shouldQuit, wake, event>>
    BY <2>3 DEF GoTo, Phases
  <2> QED BY <1>4, <2>1, <2>2, <2>3 DEF DoWork
<1>5. CASE DoDelayedWork
  <2> depth \in Runs
    BY <1>5 DEF DoDelayedWork, In, Working
  <2>1. LoopTypeOK'
    BY <1>5, LoopTypes DEF DoDelayedWork
  <2>2. at' \in [Runs -> Phases] /\ did' \in [Runs -> BOOLEAN]
    BY <1>5 DEF DoDelayedWork, AfterDelayedWork, GoTo, Phases
  <2>3. \A e \in delayed : e.task.due \in 0..MaxTime
    BY DEF Task
  <2>4. ASSUME NEW e \in delayed, IsDue(e), NextWake PROVE wake' \in 0..MaxTime
    BY <2>3, <2>4 DEF IsDue, NextWake, IsTop
  <2>5. wake' \in 0..MaxTime
    BY <1>5, <2>3, <2>4 DEF DoDelayedWork, DelayedDefers, DelayedRuns
  <2> QED BY <1>5, <2>1, <2>2, <2>5 DEF DoDelayedWork
<1>6. CASE DoIdleWork
  <2> depth \in Runs
    BY <1>6 DEF DoIdleWork, In, Working
  <2>1. CASE IdleRuns /\ UNCHANGED pumpvars
    <3>1. LoopTypeOK'
      BY <2>1, LoopTypes
    <3> QED BY <2>1, <3>1
  <2>2. CASE /\ LeaveRun
             /\ UNCHANGED <<incoming, work, deferred, delayed, nextSeq, nestable, recent, envvars,
                            wake, event>>
    <3>1. run' = [run EXCEPT ![depth] = Fresh] /\ depth' \in 0..MaxDepth /\ 0 \in 0..MaxTask
      BY <2>2 DEF LeaveRun
    <3>2. run' \in [Runs -> Run]
      BY <3>1, RunUpdates
    <3> QED BY <2>2, <3>1, <3>2 DEF LeaveRun, Phases
  <2>3. CASE /\ IF wake = 0 \/ wake > now
                  THEN GoTo("asleep", FALSE) /\ UNCHANGED wake
                  ELSE GoTo("work", FALSE) /\ wake' = 0
             /\ UNCHANGED <<loopvars, shouldQuit, event>>
    <3>1. wake' \in 0..MaxTime
      BY <2>3 DEF GoTo
    <3>2. at' \in [Runs -> Phases] /\ did' \in [Runs -> BOOLEAN]
      BY <2>3 DEF GoTo, Phases
    <3> QED BY <2>3, <3>1, <3>2
  <2> QED BY <1>6, <2>1, <2>2, <2>3 DEF DoIdleWork
<1>7. CASE WakeUp
  BY <1>7 DEF WakeUp, GoTo, Phases, In, Working
<1>8. ASSUME NEW b \in BOOLEAN, EntersRun(b) PROVE TypeOK'
  <2>1. depth + 1 \in Runs
    BY <1>8 DEF EntersRun, EnterRun
  <2>2. run' \in [Runs -> Run] /\ depth' \in 0..MaxDepth
    BY <1>8, <2>1 DEF EntersRun, EnterRun, Run
  <2>3. at' \in [Runs -> Phases] /\ did' \in [Runs -> BOOLEAN]
    BY <1>8, <2>1 DEF EntersRun, Phases
  <2> QED BY <1>8, <2>2, <2>3 DEF EntersRun, EnterRun
<1>9. ASSUME NEW b \in BOOLEAN, TaskAllows(b) PROVE TypeOK'
  BY <1>9 DEF TaskAllows, SetNestableTasksAllowed
<1>10. CASE TaskQuits
  <2>1. depth \in Runs
    BY <1>10 DEF TaskQuits, Quit, Busy
  <2> QED BY <1>10, <2>1, RunUpdates DEF TaskQuits, Quit
<1>11. CASE TaskQuitsNow
  BY <1>11 DEF TaskQuitsNow
<1>12. CASE TaskEnds
  <2> depth \in Runs
    BY <1>12 DEF TaskEnds, TaskReturns, Busy
  <2>1. CASE shouldQuit
    <3>1. run' = [run EXCEPT ![depth] = Fresh] /\ depth' \in 0..MaxDepth /\ 0 \in 0..MaxTask
      BY <1>12, <2>1 DEF TaskEnds, LeaveRun
    <3>2. run' \in [Runs -> Run]
      BY <3>1, RunUpdates
    <3> QED BY <1>12, <2>1, <3>1, <3>2 DEF TaskEnds, TaskReturns, LeaveRun, Phases
  <2>2. CASE ~shouldQuit
    <3>1. run' = [run EXCEPT ![depth].task = 0] /\ UNCHANGED depth /\ 0 \in 0..MaxTask
      BY <1>12, <2>2 DEF TaskEnds
    <3>2. run' \in [Runs -> Run]
      BY <3>1, RunUpdates
    <3>3. at' \in [Runs -> Phases] /\ did' \in [Runs -> BOOLEAN]
      BY <1>12, <2>2 DEF TaskEnds, GoTo, Phases
    <3> QED BY <1>12, <2>2, <3>1, <3>2, <3>3 DEF TaskEnds, TaskReturns
  <2> QED BY <2>1, <2>2
<1>13. CASE Destroy
  <2>1. LoopTypeOK'
    BY <1>13, LoopTypes DEF Destroy
  <2> QED BY <1>13, <2>1 DEF Destroy
<1>14. CASE Clock
  BY <1>14 DEF Clock, Tick
<1>15. CASE UNCHANGED vars
  BY <1>15
<1> QED
  BY <1>1, <1>2, <1>4, <1>5, <1>6, <1>7, <1>8, <1>9, <1>10, <1>11, <1>12, <1>13, <1>14, <1>15
     DEF Next, Pumps

\* What a step does to the chain of runs.
RunKeeps     == /\ UNCHANGED <<depth, run>> /\ posted' >= posted
                /\ stage' = stage \/ stage = "emptied" \/ depth = 0
RunStarts(i) == /\ Working /\ run' = [run EXCEPT ![depth].task = i]
                /\ UNCHANGED <<depth, posted, stage>>
RunLeaves    == /\ depth > 0 /\ run' = [run EXCEPT ![depth] = Fresh] /\ depth' = depth - 1
                /\ UNCHANGED <<posted, stage>>
RunResumes   == Busy /\ run' = [run EXCEPT ![depth].task = 0] /\ UNCHANGED <<depth, posted, stage>>

LEMMA RunSteps ==
  ASSUME TypeOK, QueuesInOrder, [Next]_vars
  PROVE  \/ RunKeeps
         \/ \E i \in 1..MaxTask : RunStarts(i)
         \/ RunLeaves
         \/ \E b \in BOOLEAN : EnterRun(b)
         \/ Quit
         \/ RunResumes
<1> USE DEF TypeOK, LoopTypeOK, RunKeeps
<1>1. CASE Post \/ TaskPosts
  <2>1. PICK t \in NewTasks : AddToIncomingQueue(t)
    BY <1>1 DEF Post, TaskPosts
  <2> QED BY <1>1, <2>1, LoopAssumption DEF NewTasks, AddToIncomingQueue
<1>2. CASE ScheduleWork
  BY <1>2 DEF ScheduleWork
<1>3. CASE DoWork
  <2>1. CASE WorkDelays
    BY <2>1 DEF WorkDelays
  <2>2. CASE WorkDefers
    BY <2>2 DEF WorkDefers
  <2>3. CASE WorkRuns
    <3>1. Head(Loaded) \in Task
      BY <2>3, TakeFacts DEF WorkRuns
    <3> QED BY <1>3, <2>3, <3>1 DEF DoWork, In, WorkRuns, RunTask, RunStarts, Task
  <2>4. CASE UNCHANGED loopvars
    BY <2>4
  <2> QED BY <1>3, <2>1, <2>2, <2>3, <2>4 DEF DoWork
<1>4. CASE DoDelayedWork
  <2>1. CASE NoDelayedWork
    BY <2>1 DEF NoDelayedWork
  <2>2. ASSUME NEW e \in delayed, NotYet(e)
        PROVE  RunKeeps
    BY <2>2 DEF NotYet
  <2>3. ASSUME NEW e \in delayed, DelayedDefers(e)
        PROVE  RunKeeps
    BY <2>3 DEF DelayedDefers, IsDue
  <2>4. ASSUME NEW e \in delayed, DelayedRuns(e)
        PROVE  \E i \in 1..MaxTask : RunStarts(i)
    <3>1. e.task \in Task
      OBVIOUS
    <3> QED BY <1>4, <2>4, <3>1 DEF DoDelayedWork, In, DelayedRuns, IsDue, RunTask, RunStarts, Task
  <2> QED BY <1>4, <2>1, <2>2, <2>3, <2>4 DEF DoDelayedWork
<1>5. CASE DoIdleWork
  <2>1. CASE IdleRuns
    <3>1. Head(deferred) \in Task
      BY <2>1, TailFacts DEF IdleRuns, HasDeferred
    <3> QED BY <1>5, <2>1, <3>1 DEF DoIdleWork, In, IdleRuns, RunTask, RunStarts, Task
  <2>2. CASE LeaveRun /\ UNCHANGED envvars
    BY <1>5, <2>2 DEF DoIdleWork, In, Working, LeaveRun, RunLeaves
  <2>3. CASE UNCHANGED loopvars
    BY <2>3
  <2> QED BY <1>5, <2>1, <2>2, <2>3 DEF DoIdleWork
<1>6. CASE WakeUp
  BY <1>6 DEF WakeUp
<1>7. ASSUME NEW b \in BOOLEAN, EntersRun(b) PROVE EnterRun(b)
  BY <1>7 DEF EntersRun
<1>8. ASSUME NEW b \in BOOLEAN, TaskAllows(b) PROVE RunKeeps
  BY <1>8 DEF TaskAllows, SetNestableTasksAllowed
<1>9. CASE TaskQuits
  BY <1>9 DEF TaskQuits
<1>10. CASE TaskQuitsNow
  BY <1>10 DEF TaskQuitsNow
<1>11. CASE TaskEnds
  <2>1. CASE shouldQuit
    BY <1>11, <2>1 DEF TaskEnds, TaskReturns, Busy, LeaveRun, RunLeaves
  <2>2. CASE ~shouldQuit
    BY <1>11, <2>2 DEF TaskEnds, TaskReturns, RunResumes
  <2> QED BY <2>1, <2>2
<1>12. CASE Destroy
  BY <1>12 DEF Destroy, DeletePendingTasks, WillDestroyCurrentMessageLoop
<1>13. CASE Clock
  BY <1>13 DEF Clock, Tick
<1>14. CASE UNCHANGED vars
  BY <1>14
<1> QED
  BY <1>1, <1>2, <1>3, <1>4, <1>5, <1>6, <1>7, <1>8, <1>9, <1>10, <1>11, <1>12, <1>13, <1>14
     DEF Next, Pumps

\* A step keeps the runs nested.
LEMMA NestStep ==
  ASSUME TypeOK, QueuesInOrder, RunsNest, [Next]_vars
  PROVE  RunsNest'
<1> USE LoopAssumption DEF TypeOK, LoopTypeOK, RunsNest, Runs
<1>1. CASE RunKeeps
  <2>1. posted' \in 0..MaxTask
    BY TypeStep
  <2>2. \A d \in Runs : run[d].mark \in 0..MaxTask /\ run[d].mark <= posted
    BY DEF Run
  <2>3. \A d \in Runs : run[d].mark <= posted'
    BY <1>1, <2>1, <2>2 DEF RunKeeps
  <2> QED BY <1>1, <2>3 DEF RunKeeps
<1>2. ASSUME NEW i \in 1..MaxTask, RunStarts(i) PROVE RunsNest'
  <2>1. /\ run' = [run EXCEPT ![depth].task = i] /\ depth \in Runs
        /\ UNCHANGED <<depth, posted, stage>>
    BY <1>2 DEF RunStarts, Working
  <2>2. \A d \in Runs : d # depth => run'[d] = run[d]
    BY <2>1
  <2>3. run'[depth].mark = run[depth].mark
    BY <2>1 DEF Run
  <2>4. stage = "open"
    BY <2>1
  <2> QED BY <2>1, <2>2, <2>3, <2>4
<1>3. CASE RunLeaves
  <2>1. /\ run' = [run EXCEPT ![depth] = Fresh] /\ depth \in Runs /\ depth' = depth - 1
        /\ UNCHANGED <<posted, stage>>
    BY <1>3 DEF RunLeaves
  <2>2. \A d \in Runs : d # depth => run'[d] = run[d]
    BY <2>1
  <2>3. run'[depth] = Fresh /\ Fresh.mark <= posted
    BY <2>1 DEF Fresh
  <2>4. stage = "open"
    BY <2>1
  <2> QED BY <2>1, <2>2, <2>3, <2>4
<1>4. ASSUME NEW b \in BOOLEAN, EnterRun(b) PROVE RunsNest'
  <2>1. /\ depth + 1 \in Runs /\ depth' = depth + 1 /\ UNCHANGED <<posted, stage>> /\ stage = "open"
        /\ run' = [run EXCEPT ![depth + 1] =
                     [task |-> 0, quit |-> b, mark |-> IF b THEN posted ELSE 0]]
        /\ depth = 0 \/ run[depth].task # 0
    BY <1>4 DEF EnterRun, Busy
  <2>2. \A d \in Runs : d # depth + 1 => run'[d] = run[d]
    BY <2>1
  <2>3. run'[depth + 1].mark <= posted
    BY <2>1
  <2>4. stage = "open"
    BY <2>1
  <2> QED BY <2>1, <2>2, <2>3, <2>4
<1>5. CASE Quit
  <2>1. /\ depth \in Runs /\ UNCHANGED <<depth, posted, stage>>
        /\ run' = [run EXCEPT ![depth].quit = TRUE, ![depth].mark = posted]
    BY <1>5 DEF Quit, Busy
  <2>2. \A d \in Runs : d # depth => run'[d] = run[d]
    BY <2>1
  <2>3. run'[depth].mark <= posted
    BY <2>1 DEF Run
  <2>4. stage = "open"
    BY <2>1
  <2> QED BY <2>1, <2>2, <2>3, <2>4
<1>6. CASE RunResumes
  <2>1. /\ run' = [run EXCEPT ![depth].task = 0] /\ depth \in Runs
        /\ UNCHANGED <<depth, posted, stage>>
    BY <1>6 DEF RunResumes, Busy
  <2>2. \A d \in Runs : d # depth => run'[d] = run[d]
    BY <2>1
  <2>3. run'[depth].mark = run[depth].mark
    BY <2>1 DEF Run
  <2>4. stage = "open"
    BY <2>1
  <2> QED BY <2>1, <2>2, <2>3, <2>4
<1> QED BY <1>1, <1>2, <1>3, <1>4, <1>5, <1>6, RunSteps

\* What a step does to the queues.
LEMMA QueueSteps ==
  ASSUME TypeOK, QueuesInOrder, RunsNest, [Next]_vars
  PROVE  QueueStep
<1> USE DEF QueueStep
<1>1. Working => stage = "open"
  BY LoopAssumption DEF RunsNest, Working, TypeOK, LoopTypeOK
<1>2. CASE Post \/ TaskPosts
  BY <1>2 DEF Post, TaskPosts
<1>3. CASE DoWork
  BY <1>1, <1>3 DEF DoWork, In
<1>4. CASE DoDelayedWork
  BY <1>1, <1>4 DEF DoDelayedWork, In
<1>5. CASE DoIdleWork
  BY <1>1, <1>5 DEF DoIdleWork, In
<1>6. CASE Destroy
  BY <1>6 DEF Destroy
<1>7. CASE Clock
  BY <1>7 DEF Clock
<1>8. CASE WakeUp \/ ScheduleWork \/ TaskQuits \/ TaskQuitsNow \/ TaskEnds
  BY <1>8 DEF WakeUp, ScheduleWork, TaskQuits, Quit, TaskQuitsNow, TaskEnds, TaskReturns
<1>9. ASSUME NEW b \in BOOLEAN, EntersRun(b) \/ TaskAllows(b) PROVE QueueStep
  BY <1>9 DEF EntersRun, EnterRun, TaskAllows, SetNestableTasksAllowed
<1>10. CASE UNCHANGED vars
  BY <1>10
<1> HIDE DEF QueueStep
<1> QED
  BY <1>2, <1>3, <1>4, <1>5, <1>6, <1>7, <1>8, <1>9, <1>10 DEF Next, Pumps

LEMMA QueuesStep ==
  ASSUME TypeOK, RunsNest, QueuesInOrder, QueuesHold, [Next]_vars
  PROVE  QueuesInOrder' /\ QueuesHold'
<1>1. LoopTypeOK /\ LoopTypeOK'
  BY TypeStep DEF TypeOK
<1> QED BY <1>1, QueueSteps, QueueOrder, QueueHold

\* While the pump has looked, only these steps are left to it.
LEMMA LookedStep ==
  ASSUME TypeOK, QueuesInOrder, RunsNest, [Next]_vars, Looked'
  PROVE  \/ DoWork /\ WorkIsOver /\ UNCHANGED loopvars
         \/ /\ Looked
            /\ UNCHANGED <<work, nestable, depth, run>>
            /\ \/ \E t \in NewTasks : AddToIncomingQueue(t) /\ posting' = (incoming = <<>>)
                                      /\ UNCHANGED pumpvars
               \/ UNCHANGED incoming /\ event' = TRUE /\ UNCHANGED <<delayed, wake, at, did>>
               \/ DoDelayedWork /\ UNCHANGED <<incoming, event, posting>>
               \/ DoIdleWork /\ UNCHANGED loopvars /\ UNCHANGED event
               \/ UNCHANGED <<incoming, event, posting, delayed, wake, at, did>>
<1> USE DEF Looked, In, Working
<1>1. depth' \in Nat /\ run'[depth'].task = 0 /\ depth' > 0 /\ nestable'
  <2>1. depth' \in 0..MaxDepth /\ MaxDepth \in Nat
    BY TypeStep, LoopAssumption DEF TypeOK, LoopTypeOK
  <2>2. run'[depth'].task = 0 /\ depth' > 0 /\ nestable'
    BY Zenon
  <2> QED BY <2>1, <2>2
<1>2. ASSUME RunLeaves PROVE FALSE
  <2>1. depth \in Runs /\ depth' = depth - 1 /\ depth' \in Runs /\ run'[depth'] = run[depth']
    BY <1>1, <1>2, LoopAssumption DEF RunLeaves, TypeOK, LoopTypeOK, Runs
  <2> QED BY <1>1, <2>1 DEF RunsNest
<1>3. ASSUME Busy, UNCHANGED <<depth, run>> PROVE FALSE
  BY <1>1, <1>3 DEF Busy
<1>4. ASSUME NEW i \in 1..MaxTask, RunStarts(i) PROVE FALSE
  <2>1. run'[depth'].task = i
    BY <1>4 DEF RunStarts, TypeOK, LoopTypeOK, Runs, Run
  <2> QED BY <1>1, <2>1
<1>5. CASE Post
  BY <1>5 DEF Post, AddToIncomingQueue
<1>6. CASE ScheduleWork
  BY <1>6 DEF ScheduleWork
<1>7. CASE TaskPosts
  BY <1>3, <1>7 DEF TaskPosts, AddToIncomingQueue
<1>8. CASE DoWork
  <2>1. CASE UNCHANGED <<depth, run, at, did>>
    BY <1>8, <2>1 DEF DoWork
  <2>2. CASE WorkIsOver /\ UNCHANGED loopvars
    BY <1>8, <2>2
  <2>3. CASE WorkRuns
    BY <1>4, <1>8, <2>3, TakeFacts DEF DoWork, WorkRuns, RunTask, RunStarts, Task
  <2> QED BY <1>8, <2>1, <2>2, <2>3 DEF DoWork, WorkDelays, WorkDefers
<1>9. CASE DoDelayedWork
  <2>1. ASSUME NEW e \in delayed, DelayedRuns(e) PROVE FALSE
    <3>1. e.task \in Task
      BY DEF TypeOK, LoopTypeOK
    <3> QED BY <1>4, <1>9, <2>1, <3>1 DEF DoDelayedWork, DelayedRuns, IsDue, RunTask, RunStarts, Task
  <2>2. AfterDelayedWork /\ UNCHANGED <<work, incoming, nestable, depth, run, posting, event>>
    BY <1>9, <2>1 DEF DoDelayedWork, NoDelayedWork, NotYet, DelayedDefers, IsDue
  <2>3. ~did[depth]
    <3> SUFFICES ASSUME did[depth] PROVE FALSE
      OBVIOUS
    <3>1. at'[depth] = "work"
      BY <1>9, <2>2 DEF AfterDelayedWork, GoTo, DoDelayedWork, TypeOK, LoopTypeOK, Runs
    <3> QED BY <2>2, <3>1
  <2> QED BY <1>9, <2>2, <2>3 DEF DoDelayedWork
<1>10. CASE DoIdleWork
  <2>1. CASE IdleRuns
    <3>1. Head(deferred) \in Task
      BY <2>1, TailFacts DEF IdleRuns, HasDeferred, TypeOK, LoopTypeOK
    <3> QED BY <1>4, <1>10, <2>1, <3>1 DEF DoIdleWork, IdleRuns, RunTask, RunStarts, Task
  <2>2. CASE LeaveRun /\ UNCHANGED envvars
    BY <1>2, <1>10, <2>2 DEF DoIdleWork, LeaveRun, RunLeaves
  <2>3. CASE UNCHANGED loopvars /\ UNCHANGED event
    BY <1>10, <2>3 DEF DoIdleWork
  <2> QED BY <1>10, <2>1, <2>2, <2>3 DEF DoIdleWork
<1>11. ASSUME WakeUp PROVE FALSE
  BY <1>11 DEF WakeUp, GoTo, TypeOK, LoopTypeOK, Runs
<1>12. ASSUME NEW b \in BOOLEAN, EntersRun(b) PROVE FALSE
  BY <1>12, LoopAssumption DEF EntersRun, EnterRun, TypeOK, LoopTypeOK, Runs
<1>13. ASSUME NEW b \in BOOLEAN, TaskAllows(b) PROVE FALSE
  BY <1>3, <1>13 DEF TaskAllows, SetNestableTasksAllowed
<1>14. ASSUME TaskQuits PROVE FALSE
  <2>1. run'[depth].task = run[depth].task /\ depth' = depth
    BY <1>14 DEF TaskQuits, Quit, Busy, TypeOK, LoopTypeOK, Runs, Run
  <2> QED BY <1>1, <1>14, <2>1 DEF TaskQuits, Quit, Busy
<1>15. ASSUME TaskQuitsNow PROVE FALSE
  BY <1>3, <1>15 DEF TaskQuitsNow
<1>16. ASSUME TaskEnds PROVE FALSE
  <2>1. CASE shouldQuit
    BY <1>2, <1>16, <2>1 DEF TaskEnds, TaskReturns, Busy, LeaveRun, RunLeaves
  <2>2. CASE ~shouldQuit
    <3>1. depth \in Runs /\ depth' = depth
      BY <1>16, <2>2 DEF TaskEnds, TaskReturns, Busy, TypeOK, LoopTypeOK, Runs
    <3>2. CASE at[depth] = "work"
      BY <1>16, <2>2, <3>1, <3>2 DEF TaskEnds, GoTo, TypeOK
    <3>3. CASE at[depth] # "work"
      BY <1>16, <2>2, <3>1, <3>3 DEF TaskEnds, GoTo, TypeOK
    <3> QED BY <3>2, <3>3
  <2> QED BY <2>1, <2>2
<1>17. ASSUME Destroy PROVE FALSE
  <2>1. depth = 0 /\ UNCHANGED depth
    BY <1>17 DEF Destroy, DeletePendingTasks, WillDestroyCurrentMessageLoop, RunsNest
  <2> QED BY <1>1, <2>1
<1>18. CASE Clock
  BY <1>18 DEF Clock, Tick
<1>19. CASE UNCHANGED vars
  BY <1>19
<1> QED
  BY <1>5, <1>6, <1>7, <1>8, <1>9, <1>10, <1>11, <1>12, <1>13, <1>14, <1>15, <1>16, <1>17, <1>18,
     <1>19 DEF Next, Pumps

\* A step keeps the promise to look at what comes in.
LEMMA MissStep ==
  ASSUME TypeOK, QueuesInOrder, RunsNest, NothingMissed, [Next]_vars
  PROVE  NothingMissed'
<1> SUFFICES ASSUME Looked'
             PROVE  /\ work' = <<>>
                    /\ incoming' # <<>> => event' \/ posting'
                    /\ \A t \in Range(incoming') : t.id > run'[depth'].mark
  BY DEF NothingMissed
<1>1. CASE DoWork /\ WorkIsOver /\ UNCHANGED loopvars
  <2>1. work' = <<>> /\ incoming' = <<>>
    BY <1>1 DEF WorkIsOver, Loaded, Looked
  <2> QED BY <2>1, EmptySeq
<1>2. ASSUME Looked, UNCHANGED <<work, nestable, depth, run>>, UNCHANGED incoming,
             event \/ posting => event' \/ posting'
      PROVE  /\ work' = <<>>
             /\ incoming' # <<>> => event' \/ posting'
             /\ \A t \in Range(incoming') : t.id > run'[depth'].mark
  BY <1>2 DEF NothingMissed
<1>3. ASSUME Looked, UNCHANGED <<work, nestable, depth, run>>, NEW t \in NewTasks,
             AddToIncomingQueue(t), posting' = (incoming = <<>>), UNCHANGED pumpvars
      PROVE  /\ work' = <<>>
             /\ incoming' # <<>> => event' \/ posting'
             /\ \A u \in Range(incoming') : u.id > run'[depth'].mark
  <2>1. work' = <<>> /\ (event' \/ posting')
    BY <1>3 DEF NothingMissed, AddToIncomingQueue
  <2>2. Range(incoming') = Range(incoming) \cup {t}
    BY <1>3, AppendFacts DEF AddToIncomingQueue, NewTasks, TypeOK, LoopTypeOK
  <2>3. t.id > run[depth].mark
    <3>1. depth \in Runs
      BY <1>3 DEF Looked, In, Working, TypeOK, LoopTypeOK, Runs
    <3>2. run[depth].mark <= posted /\ run[depth].mark \in Nat /\ posted \in Nat
      BY <3>1, LoopAssumption DEF RunsNest, TypeOK, LoopTypeOK, Run
    <3> QED BY <3>2 DEF NewTasks
  <2> QED BY <1>3, <2>1, <2>2, <2>3 DEF NothingMissed
<1>4. CASE /\ Looked /\ UNCHANGED <<work, nestable, depth, run>> /\ UNCHANGED incoming
           /\ event' = TRUE \/ UNCHANGED <<event, posting>>
  BY <1>2, <1>4
<1>5. \/ DoWork /\ WorkIsOver /\ UNCHANGED loopvars
      \/ /\ Looked /\ UNCHANGED <<work, nestable, depth, run>>
         /\ \E t \in NewTasks : AddToIncomingQueue(t) /\ posting' = (incoming = <<>>)
                                /\ UNCHANGED pumpvars
      \/ /\ Looked /\ UNCHANGED <<work, nestable, depth, run>> /\ UNCHANGED incoming
         /\ event' = TRUE \/ UNCHANGED <<event, posting>>
  BY LookedStep
<1> QED BY <1>1, <1>3, <1>4, <1>5

\* A step keeps the time to sleep until.
LEMMA TimeStep ==
  ASSUME TypeOK, QueuesInOrder, RunsNest, QueuesHold, WakeInTime, [Next]_vars
  PROVE  WakeInTime'
<1> SUFFICES ASSUME Looked', (In("idle") \/ In("asleep"))', NEW g \in delayed'
             PROVE  wake' # 0 /\ wake' <= g.task.due
  BY DEF WakeInTime, Looked
<1>0. at'[depth'] # "delayed" /\ at'[depth'] # "work"
  BY DEF In
<1>1. CASE DoWork /\ WorkIsOver /\ UNCHANGED loopvars
  <2>1. GoTo("delayed", FALSE)
    BY <1>1 DEF DoWork, WorkIsOver, WorkDelays, WorkDefers, WorkRuns
  <2>2. depth \in Runs /\ depth' = depth
    BY <1>1 DEF DoWork, In, Working, TypeOK, LoopTypeOK, Runs
  <2> QED BY <1>0, <2>1, <2>2 DEF GoTo, TypeOK
<1>2. CASE DoDelayedWork /\ UNCHANGED <<depth, nestable>> /\ Looked
  <2>1. CASE NoDelayedWork
    BY <1>2, <2>1 DEF NoDelayedWork, Looked
  <2>2. ASSUME NEW e \in delayed, NotYet(e), wake' = e.task.due
        PROVE  wake' # 0 /\ wake' <= g.task.due
    <3>1. g \in delayed /\ e.task.due # 0 /\ e.task.due \in Nat /\ g.task.due \in Nat
      BY <2>2 DEF NotYet, QueuesHold, TypeOK, LoopTypeOK, Task
    <3> QED BY <2>2, <3>1 DEF NotYet, IsTop, Earlier
  <2>3. ASSUME NEW e \in delayed, DelayedDefers(e), NextWake
        PROVE  wake' # 0 /\ wake' <= g.task.due
    <3>1. PICK f \in delayed' : IsTop(f)' /\ wake' = f.task.due
      BY <2>3 DEF NextWake
    <3>2. delayed' \subseteq delayed
      BY <2>3 DEF DelayedDefers, IsDue
    <3>3. f.task.due # 0 /\ f.task.due \in Nat /\ g.task.due \in Nat
      BY <3>2 DEF QueuesHold, TypeOK, LoopTypeOK, Task
    <3> QED BY <3>1, <3>3 DEF IsTop, Earlier
  <2>4. ASSUME NEW e \in delayed, DelayedRuns(e) PROVE FALSE
    BY <1>2, <2>4 DEF DelayedRuns, RunTask, Looked
  <2> QED BY <1>2, <2>1, <2>2, <2>3, <2>4 DEF DoDelayedWork
<1>3. CASE DoIdleWork /\ UNCHANGED loopvars /\ Looked
  <2>1. In("idle") /\ depth \in Runs /\ delayed' = delayed /\ nestable
    BY <1>3 DEF DoIdleWork, In, Working, TypeOK, LoopTypeOK, Runs, Looked
  <2>2. ~IdleRuns /\ ~LeaveRun
    BY <1>3, <2>1 DEF IdleRuns, RunTask, LeaveRun, Looked, TypeOK, LoopTypeOK
  <2>3. wake' = wake
    BY <1>0, <1>3, <2>1, <2>2 DEF DoIdleWork, GoTo, TypeOK
  <2> QED BY <2>1, <2>3 DEF WakeInTime
<1>4. CASE Looked /\ UNCHANGED <<nestable, depth, run, delayed, wake, at>>
  BY <1>4 DEF WakeInTime, Looked, In, Working
<1>5. CASE \E t \in NewTasks : AddToIncomingQueue(t) /\ UNCHANGED pumpvars
  <2>1. UNCHANGED <<nestable, depth, run, delayed, wake, at>>
    BY <1>5 DEF AddToIncomingQueue
  <2> QED BY <2>1 DEF WakeInTime, Looked, In, Working
<1> QED BY <1>1, <1>2, <1>3, <1>4, <1>5, LookedStep

-----------------------------------------------------------------------------
(* Theorems                                                                *)

LEMMA InitIInv == Init => IInv
<1> SUFFICES ASSUME Init PROVE IInv
  OBVIOUS
<1>1. TypeOK
  <2>1. Fresh \in Run /\ <<>> \in Seq(Task) /\ 1 \in 1..MaxTime /\ 0 \in 0..MaxTime
    BY LoopAssumption DEF Run, Fresh
  <2>2. run \in [Runs -> Run] /\ at \in [Runs -> Phases] /\ did \in [Runs -> BOOLEAN]
    BY <2>1 DEF Init, InitLoop, Phases
  <2>3. delayed \in SUBSET [task : Task, seq : Nat] /\ depth \in 0..MaxDepth /\ posted \in 0..MaxTask
    BY LoopAssumption DEF Init, InitLoop
  <2> QED BY <2>1, <2>2, <2>3 DEF Init, InitLoop, TypeOK, LoopTypeOK
<1>2. RunsNest
  BY LoopAssumption DEF Init, InitLoop, RunsNest, Runs, Fresh
<1>3. Range(incoming) = {} /\ Range(work) = {} /\ Range(deferred) = {} /\ delayed = {}
  BY EmptySeq DEF Init, InitLoop
<1>4. QueuesInOrder
  BY <1>3, EmptySeq DEF Init, InitLoop, QueuesInOrder, Touched, Untouched, Timed, Pending
<1>5. QueuesHold
  BY <1>3 DEF Init, InitLoop, QueuesHold
<1>6. ~Working
  BY DEF Init, InitLoop, Working
<1> QED BY <1>1, <1>2, <1>4, <1>5, <1>6 DEF IInv, NothingMissed, Looked, WakeInTime, In

LEMMA NextIInv == IInv /\ [Next]_vars => IInv'
BY TypeStep, NestStep, QueuesStep, MissStep, TimeStep DEF IInv

\* The invariant the other theorems rest on: the chain of runs, the order and
\* the contents of the queues, the event and the time to sleep until agree.
THEOREM Invariance == Spec => []IInv
BY InitIInv, NextIInv, PTL DEF Spec

\* The variables of the loop and the pump keep their types.
THEOREM TypeCorrect == Spec => []TypeOK
<1>1. IInv => TypeOK
  BY DEF IInv
<1> QED BY <1>1, Invariance, PTL

\* However posts interleave with the pump, with runs nested as deep as you
\* like, no thread sleeps on a task it may run (AddToIncomingQueue, Run).
THEOREM NeverSleepsOnWork == Spec => []NoLostWakeup
<1>1. IInv => NoLostWakeup
  <2> SUFFICES ASSUME IInv, In("asleep"), nestable, ~event, ~posting
               PROVE  Loaded = <<>>
    BY DEF NoLostWakeup
  <2>1. Looked
    BY DEF Looked
  <2> QED BY <2>1 DEF IInv, NothingMissed, Loaded
<1> QED BY <1>1, Invariance, PTL

\* No thread sleeps past the time of a delayed task (delayed_work_time_).
THEOREM NeverOversleeps == Spec => []NoOversleep
<1>1. IInv => NoOversleep
  BY DEF IInv, WakeInTime, NoOversleep
<1> QED BY <1>1, Invariance, PTL

\* A run ends after QuitNow, in a task, or when there is nothing left for it.
LEMMA LeaveStep ==
  ASSUME TypeOK, QueuesInOrder, [Next]_vars, depth' < depth
  PROVE  Busy \/ (In("idle") /\ ~HasDeferred)
<1>1. ASSUME UNCHANGED depth PROVE FALSE
  BY <1>1, LoopAssumption DEF TypeOK, LoopTypeOK
<1>2. CASE TaskEnds
  BY <1>2 DEF TaskEnds, TaskReturns
<1>3. CASE DoIdleWork
  BY <1>1, <1>3 DEF DoIdleWork, IdleRuns, RunTask
<1>4. ASSUME NEW b \in BOOLEAN, EntersRun(b) PROVE FALSE
  BY <1>4, LoopAssumption DEF EntersRun, EnterRun, TypeOK, LoopTypeOK
<1>5. CASE DoWork
  BY <1>1, <1>5 DEF DoWork, WorkDelays, WorkDefers, WorkRuns, RunTask
<1>6. CASE DoDelayedWork
  BY <1>1, <1>6 DEF DoDelayedWork, NoDelayedWork, NotYet, DelayedDefers, DelayedRuns, IsDue, RunTask
<1>7. CASE Post \/ TaskPosts
  BY <1>1, <1>7 DEF Post, TaskPosts, AddToIncomingQueue
<1>8. CASE ScheduleWork \/ WakeUp \/ TaskQuits \/ TaskQuitsNow \/ Destroy \/ Clock
  BY <1>1, <1>8 DEF ScheduleWork, WakeUp, TaskQuits, Quit, TaskQuitsNow, Destroy, Clock, Tick,
                    DeletePendingTasks, WillDestroyCurrentMessageLoop
<1>9. ASSUME NEW b \in BOOLEAN, TaskAllows(b) PROVE FALSE
  BY <1>1, <1>9 DEF TaskAllows, SetNestableTasksAllowed
<1>10. CASE UNCHANGED vars
  BY <1>1, <1>10
<1> QED BY <1>2, <1>3, <1>4, <1>5, <1>6, <1>7, <1>8, <1>9, <1>10 DEF Next, Pumps

\* A run that was told to quit ends with every task posted before that it
\* could run (MessageLoop::Quit, DoIdleWork).
THEOREM QuitRunsWhatIsPending == Spec => QuitDrains
<1>1. ASSUME IInv, [Next]_vars, depth' < depth, nestable, run[depth].task = 0,
             NEW t \in Pending, t.due = 0, MayRun(t)
      PROVE  t.id > run[depth].mark
  <2>1. In("idle") /\ ~HasDeferred /\ Looked
    BY <1>1, LeaveStep DEF IInv, Busy, Looked
  <2>2. work = <<>> /\ \A u \in Range(incoming) : u.id > run[depth].mark
    BY <1>1, <2>1 DEF IInv, NothingMissed
  <2>3. t \notin Range(work)
    BY <2>2, EmptySeq
  <2>4. t \notin {e.task : e \in delayed}
    BY <1>1 DEF IInv, QueuesHold
  <2>5. t \notin Range(deferred)
    <3>1. CASE depth = 1
      BY <2>1, <3>1, EmptySeq DEF HasDeferred
    <3>2. CASE depth # 1
      BY <1>1, <3>2 DEF IInv, QueuesHold, MayRun
    <3> QED BY <3>1, <3>2
  <2> QED BY <2>2, <2>3, <2>4, <2>5 DEF Pending
<1>2. IInv /\ [Next]_vars =>
        [depth' < depth /\ nestable /\ run[depth].task = 0 =>
           \A t \in Pending : t.due = 0 /\ MayRun(t) => t.id > run[depth].mark]_vars
  BY <1>1
<1> QED BY <1>2, Invariance, PTL DEF Spec, QuitDrains

-----------------------------------------------------------------------------
(* The loop implements TaskQueue                                           *)

\* Starting a task that is in turn is TaskQueue's Start.
LEMMA StartsInTurn ==
  ASSUME IInv, Working, NEW t, TakesUp(t)
  PROVE  Queue!Start(t) /\ t \in Task
<1>1. depth \in Runs /\ depth > 0 /\ Held[depth] = 0
  BY DEF Working, IInv, TypeOK, LoopTypeOK, Runs, Held
<1> QED BY <1>1 DEF TakesUp, Queue!Start, Queue!InTurn, Queue!Busy, Held, MayRun

LEMMA RefinementInit == Init => Queue!Init
<1> SUFFICES ASSUME Init PROVE Queue!Init
  OBVIOUS
<1>1. Pending = {}
  BY EmptySeq DEF Init, InitLoop, Pending
<1>2. [d \in Runs |-> run[d].task] = [d \in Runs |-> 0]
  BY DEF Init, InitLoop, Fresh
<1> QED BY <1>1, <1>2 DEF Init, InitLoop, Queue!Init, Queue!Runs, Runs

\* Every step of the loop is a step of the abstract queue, or none.
LEMMA RefinementStep == IInv /\ [Next]_vars => [Queue!Next]_Queue!tqvars
<1> SUFFICES ASSUME IInv, [Next]_vars PROVE [Queue!Next]_Queue!tqvars
  OBVIOUS
<1>t. TypeOK /\ LoopTypeOK /\ QueuesInOrder /\ RunsNest /\ QueuesHold
  BY DEF IInv, TypeOK
<1>s. ASSUME UNCHANGED <<posted, now, depth, run>>, Pending' = Pending
      PROVE  [Queue!Next]_Queue!tqvars
  BY <1>s DEF Queue!tqvars
<1>n. ASSUME NEW t \in Task, Queue!Start(t) \/ Queue!Post(t)
      PROVE  [Queue!Next]_Queue!tqvars
  BY <1>n DEF Queue!Next, Queue!Task, Task
<1>d. Working \/ Busy => depth \in Runs
  BY <1>t DEF Working, Busy, TypeOK, LoopTypeOK, Runs
<1>1. CASE Post \/ TaskPosts
  <2>1. PICK t \in NewTasks : AddToIncomingQueue(t)
    BY <1>1 DEF Post, TaskPosts
  <2>2. Queue!Post(t)
    BY <1>t, <2>1, PostPends DEF Queue!Post, NewTasks
  <2> QED BY <1>n, <2>2 DEF NewTasks
<1>2. CASE DoWork
  <2>1. Working
    BY <1>2 DEF DoWork, In
  <2>2. CASE WorkDelays \/ WorkDefers
    BY <1>d, <1>s, <1>t, <2>1, <2>2, WorkTakesUp DEF Unseen
  <2>3. CASE WorkRuns
    BY <1>d, <1>n, <1>t, <2>1, <2>3, WorkTakesUp, StartsInTurn
  <2>4. CASE UNCHANGED loopvars
    BY <1>s, <2>4 DEF Pending
  <2> QED BY <1>2, <2>2, <2>3, <2>4 DEF DoWork
<1>3. CASE DoDelayedWork
  <2>1. Working
    BY <1>3 DEF DoDelayedWork, In
  <2>2. CASE NoDelayedWork
    BY <1>s, <2>2 DEF NoDelayedWork, Pending
  <2>3. ASSUME NEW e \in delayed, NotYet(e) \/ DelayedDefers(e) PROVE [Queue!Next]_Queue!tqvars
    BY <1>d, <1>s, <1>t, <2>1, <2>3, DelayedTakesUp DEF Unseen
  <2>4. ASSUME NEW e \in delayed, DelayedRuns(e) PROVE [Queue!Next]_Queue!tqvars
    BY <1>d, <1>n, <1>t, <2>1, <2>4, DelayedTakesUp, StartsInTurn
  <2> QED BY <1>3, <2>2, <2>3, <2>4 DEF DoDelayedWork
<1>4. CASE DoIdleWork
  <2>1. CASE IdleRuns
    <3>1. Working
      BY <1>4 DEF DoIdleWork, In
    <3> QED BY <1>n, <1>t, <2>1, <3>1, IdleTakesUp, StartsInTurn
  <2>2. CASE /\ LeaveRun
             /\ UNCHANGED <<incoming, work, deferred, delayed, envvars>>
    <3>1. depth \in Runs /\ run[depth].task = 0 /\ depth > 0
      BY <1>4, <1>d DEF DoIdleWork, In, Working
    <3>2. Held' = Held /\ Held[depth] = 0
      BY <1>t, <2>2, <3>1 DEF LeaveRun, Held, Fresh, TypeOK, LoopTypeOK
    <3>3. Pending' = Pending
      BY <2>2 DEF Pending
    <3>4. Queue!Leave
      BY <2>2, <3>1, <3>2, <3>3 DEF Queue!Leave, Queue!Busy, LeaveRun, Held
    <3> QED BY <3>4 DEF Queue!Next
  <2>3. CASE UNCHANGED loopvars
    BY <1>s, <2>3 DEF Pending
  <2> QED BY <1>4, <2>1, <2>2, <2>3 DEF DoIdleWork
<1>5. CASE WakeUp \/ ScheduleWork \/ TaskQuitsNow
  BY <1>s, <1>5 DEF WakeUp, ScheduleWork, TaskQuitsNow, Pending
<1>6. ASSUME NEW b \in BOOLEAN, EntersRun(b) PROVE [Queue!Next]_Queue!tqvars
  <2>1. /\ depth + 1 \in Runs /\ depth' = depth + 1 /\ depth < MaxDepth
        /\ depth = 0 \/ Busy
        /\ run' = [run EXCEPT ![depth + 1] =
                     [task |-> 0, quit |-> b, mark |-> IF b THEN posted ELSE 0]]
        /\ UNCHANGED <<incoming, work, deferred, delayed, posted, now>>
    BY <1>6, <1>t, LoopAssumption DEF EntersRun, EnterRun, Runs, TypeOK, LoopTypeOK
  <2>2. Held' = Held
    <3>1. run[depth + 1] = Fresh
      BY <1>t, <2>1, LoopAssumption DEF RunsNest, TypeOK, LoopTypeOK
    <3> QED BY <1>t, <2>1, <3>1 DEF Held, Fresh, TypeOK, LoopTypeOK
  <2>3. depth = 0 \/ (depth > 0 /\ Held[depth] # 0)
    BY <1>d, <2>1 DEF Busy, Held
  <2>4. Queue!Enter
    BY <2>1, <2>2, <2>3 DEF Queue!Enter, Queue!Busy, Held, Pending
  <2> QED BY <2>4 DEF Queue!Next
<1>7. ASSUME NEW b \in BOOLEAN, TaskAllows(b) PROVE [Queue!Next]_Queue!tqvars
  BY <1>s, <1>7 DEF TaskAllows, SetNestableTasksAllowed, Pending
<1>8. CASE TaskQuits
  <2>1. depth \in Runs
    BY <1>8, <1>d DEF TaskQuits, Quit
  <2>2. Held' = Held
    BY <1>8, <1>t, <2>1 DEF TaskQuits, Quit, Held, TypeOK, LoopTypeOK, Run
  <2> QED BY <1>8, <2>2 DEF TaskQuits, Quit, Queue!tqvars, Held, Pending
<1>9. CASE TaskEnds
  <2>1. /\ depth \in Runs /\ depth > 0 /\ Held[depth] # 0
        /\ UNCHANGED <<incoming, work, deferred, delayed, posted, now>>
    BY <1>9, <1>d DEF TaskEnds, TaskReturns, Busy, Held
  <2>2. Pending' = Pending
    BY <2>1 DEF Pending
  <2>3. Held' = [Held EXCEPT ![depth] = 0]
    <3>1. CASE shouldQuit
      <4>1. run' = [run EXCEPT ![depth] = Fresh] /\ run \in [Runs -> Run] /\ Fresh.task = 0
        BY <1>9, <1>t, <3>1 DEF TaskEnds, LeaveRun, Fresh, TypeOK, LoopTypeOK
      <4> QED BY <2>1, <4>1 DEF Held
    <3>2. CASE ~shouldQuit
      BY <1>9, <1>t, <2>1, <3>2 DEF TaskEnds, Held, TypeOK, LoopTypeOK, Run
    <3> QED BY <3>1, <3>2
  <2>4. depth' = depth - 1 \/ depth' = depth
    BY <1>9 DEF TaskEnds, LeaveRun
  <2>5. Queue!Finish \/ Queue!FinishAndLeave
    BY <2>1, <2>2, <2>3, <2>4 DEF Queue!Finish, Queue!FinishAndLeave, Queue!Busy, Held
  <2> QED BY <2>5 DEF Queue!Next
<1>10. CASE Destroy
  <2>1. /\ depth = 0 /\ incoming' = <<>> /\ work' = <<>> /\ deferred' = <<>> /\ delayed' = {}
        /\ UNCHANGED <<depth, run, posted, now>>
    BY <1>10, <1>t DEF Destroy, DeletePendingTasks, WillDestroyCurrentMessageLoop, RunsNest,
                       QueuesHold
  <2>2. Pending' = {}
    BY <2>1, EmptySeq DEF Pending
  <2>3. Queue!Discard
    BY <2>1, <2>2 DEF Queue!Discard
  <2> QED BY <2>3 DEF Queue!Next
<1>11. CASE Clock
  <2>1. Queue!Tick
    BY <1>11 DEF Clock, Tick, Queue!Tick, Pending
  <2> QED BY <2>1 DEF Queue!Next
<1>12. CASE UNCHANGED vars
  BY <1>s, <1>12 DEF Pending
<1> QED BY <1>1, <1>2, <1>3, <1>4, <1>5, <1>6, <1>7, <1>8, <1>9, <1>10, <1>11, <1>12
        DEF Next, Pumps

\* The loop starts each posted task at most once, not before its time, the
\* plain ones in the order they were posted, and one inside another only if
\* it may be: it implements TaskQueue.
THEOREM Refinement == Spec => Implements
<1>1. Init => Queue!Init
  BY RefinementInit
<1>2. IInv /\ [Next]_vars => [Queue!Next]_Queue!tqvars
  BY RefinementStep
<1>3. Spec => []IInv
  BY Invariance
<1> QED BY <1>1, <1>2, <1>3, PTL DEF Spec, Implements, Queue!Spec

=============================================================================
