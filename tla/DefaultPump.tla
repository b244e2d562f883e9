----------------------------- MODULE DefaultPump -----------------------------
(***************************************************************************)
(* DefaultMessagePump: the loop of the threads without windows.  It sleeps *)
(* on an auto-reset event that ScheduleWork signals, at most until the     *)
(* time of the next delayed task.                                          *)
(*                                                                         *)
(* One action is one step of the pump's thread between two looks at what   *)
(* other threads can change.  While run[depth].task # 0 the thread is in   *)
(* that task, called from the phase at[depth].                             *)
(***************************************************************************)
EXTENDS MessageLoop

VARIABLES
  at,           \* where each run is in DefaultMessagePump::Run
  did,          \* its did_work
  shouldQuit,   \* should_quit_
  wake,         \* delayed_work_time_, 0 when null
  event         \* event_ is signalled

pumpvars == <<at, did, shouldQuit, wake, event>>
vars     == <<loopvars, pumpvars>>

Phases == {"work", "delayed", "idle", "asleep"}

Init ==
  /\ InitLoop
  /\ at = [d \in Runs |-> "work"]
  /\ did = [d \in Runs |-> FALSE]
  /\ shouldQuit = FALSE
  /\ wake = 0
  /\ event = FALSE

In(p)         == Working /\ at[depth] = p
GoTo(p, work_done) ==
  /\ at' = [at EXCEPT ![depth] = p]
  /\ did' = [did EXCEPT ![depth] = work_done]

\* Leaving Run: the thread is back where it called it from.
LeaveRun ==
  /\ depth' = depth - 1
  /\ run' = [run EXCEPT ![depth] = Fresh]
  /\ shouldQuit' = FALSE
  /\ at' = [at EXCEPT ![depth] = "work"]
  /\ did' = [did EXCEPT ![depth] = FALSE]

-----------------------------------------------------------------------------
(* Posting                                                                 *)

\* Faulty variant: was_empty is read after the push.
PostUnrung ==
  \E t \in NewTasks :
    /\ AddToIncomingQueue(t)
    /\ posting' = (incoming' = <<>>)
    /\ UNCHANGED pumpvars

\* Another thread posts; it has the event to signal if the queue was empty.
Post ==
  \E t \in NewTasks :
    /\ AddToIncomingQueue(t)
    /\ posting' = (incoming = <<>>)
    /\ UNCHANGED pumpvars

ScheduleWork ==
  /\ posting
  /\ posting' = FALSE
  /\ event' = TRUE
  /\ UNCHANGED <<incoming, work, deferred, delayed, nextSeq, nestable, recent, runvars, posted,
                 stage, now, at, did, shouldQuit, wake>>

\* A task posts to its own loop.
TaskPosts ==
  /\ Busy
  /\ \E t \in NewTasks : AddToIncomingQueue(t)
  /\ event' = (event \/ incoming = <<>>)
  /\ UNCHANGED <<posting, at, did, shouldQuit, wake>>

-----------------------------------------------------------------------------
(* Run                                                                     *)

DoWork ==
  /\ In("work")
  /\ \/ WorkDelays /\ wake' = (IF Reschedules THEN Head(Loaded).due ELSE wake)
        /\ UNCHANGED <<at, did, shouldQuit, event>>
     \/ WorkDefers /\ UNCHANGED pumpvars
     \/ WorkRuns /\ UNCHANGED pumpvars
     \/ WorkIsOver /\ GoTo("delayed", FALSE) /\ UNCHANGED <<loopvars, shouldQuit, wake, event>>

\* The time to sleep until, once a due task is off the delayed queue.
NextWake ==
  \/ delayed' = {} /\ UNCHANGED wake
  \/ \E f \in delayed' : IsTop(f)' /\ wake' = f.task.due

\* Faulty variant: the pump goes to sleep although it has just worked.
AfterDelayedWorkIdle == GoTo("idle", FALSE)

\* did_work |= DoDelayedWork, and once round again if either did any.
AfterDelayedWork == GoTo(IF did[depth] THEN "work" ELSE "idle", FALSE)

\* Faulty variant: the time to sleep until is left to ScheduleDelayedWork.
DoDelayedWorkUntimed ==
  /\ In("delayed")
  /\ \/ NoDelayedWork /\ wake' = 0 /\ AfterDelayedWork
     \/ \E e \in delayed :
          \/ NotYet(e) /\ UNCHANGED wake /\ AfterDelayedWork
          \/ DelayedDefers(e) /\ NextWake /\ AfterDelayedWork
          \/ DelayedRuns(e) /\ NextWake /\ UNCHANGED <<at, did>>
  /\ UNCHANGED <<shouldQuit, event>>

DoDelayedWork ==
  /\ In("delayed")
  /\ \/ NoDelayedWork /\ wake' = 0 /\ AfterDelayedWork
     \/ \E e \in delayed :
          \/ NotYet(e) /\ wake' = e.task.due /\ AfterDelayedWork
          \/ DelayedDefers(e) /\ NextWake /\ AfterDelayedWork
          \/ DelayedRuns(e) /\ NextWake /\ UNCHANGED <<at, did>>
  /\ UNCHANGED <<shouldQuit, event>>

\* Faulty variant: the run ends before the deferred tasks had their turn.
DoIdleWorkQuitsFirst ==
  /\ In("idle")
  /\ \/ ~run[depth].quit /\ IdleRuns /\ UNCHANGED pumpvars
     \/ /\ run[depth].quit
        /\ LeaveRun
        /\ UNCHANGED <<incoming, work, deferred, delayed, nextSeq, nestable, recent, envvars,
                       wake, event>>
     \/ /\ ~HasDeferred /\ ~run[depth].quit
        /\ IF wake = 0 \/ wake > now
             THEN GoTo("asleep", FALSE) /\ UNCHANGED wake
             ELSE GoTo("work", FALSE) /\ wake' = 0
        /\ UNCHANGED <<loopvars, shouldQuit, event>>

\* DoIdleWork, and what follows when it had nothing to do either: the way out
\* if the run was told to quit, sleep if the next time is still to come.
DoIdleWork ==
  /\ In("idle")
  /\ \/ IdleRuns /\ UNCHANGED pumpvars
     \/ /\ ~HasDeferred /\ run[depth].quit
        /\ LeaveRun
        /\ UNCHANGED <<incoming, work, deferred, delayed, nextSeq, nestable, recent, envvars,
                       wake, event>>
     \/ /\ ~HasDeferred /\ ~run[depth].quit
        /\ IF wake = 0 \/ wake > now
             THEN GoTo("asleep", FALSE) /\ UNCHANGED wake
             ELSE GoTo("work", FALSE) /\ wake' = 0
        /\ UNCHANGED <<loopvars, shouldQuit, event>>

\* Wait, WaitTimeout
WakeUp ==
  /\ In("asleep")
  /\ event \/ (wake # 0 /\ wake <= now)
  /\ event' = FALSE
  /\ GoTo("work", FALSE)
  /\ UNCHANGED <<loopvars, shouldQuit, wake>>

-----------------------------------------------------------------------------
(* What a task does                                                        *)

EntersRun(all) ==
  /\ EnterRun(all)
  /\ ~shouldQuit                    \* "Quit must have been called outside of Run!"
  /\ at' = [at EXCEPT ![depth + 1] = "work"]
  /\ did' = [did EXCEPT ![depth + 1] = FALSE]
  /\ UNCHANGED <<shouldQuit, wake, event>>

TaskQuits == Quit /\ UNCHANGED pumpvars

\* MessageLoop::QuitNow
TaskQuitsNow ==
  /\ Busy
  /\ ~shouldQuit
  /\ shouldQuit' = TRUE
  /\ UNCHANGED <<loopvars, at, did, wake, event>>

TaskAllows(b) ==
  /\ SetNestableTasksAllowed(b)
  /\ event' = (event \/ b)
  /\ UNCHANGED <<at, did, shouldQuit, wake>>

TaskEnds ==
  /\ TaskReturns
  /\ IF shouldQuit THEN LeaveRun
     ELSE /\ run' = [run EXCEPT ![depth].task = 0]
          /\ IF at[depth] = "work" THEN GoTo("delayed", TRUE) ELSE GoTo("work", FALSE)
          /\ UNCHANGED <<depth, shouldQuit>>
  /\ UNCHANGED <<wake, event>>

Destroy ==
  /\ DeletePendingTasks \/ WillDestroyCurrentMessageLoop
  /\ UNCHANGED pumpvars

Clock == Tick /\ UNCHANGED pumpvars

Pumps == DoWork \/ DoDelayedWork \/ DoIdleWork \/ WakeUp

Next ==
  \/ Post \/ ScheduleWork \/ TaskPosts
  \/ Pumps
  \/ \E b \in BOOLEAN : EntersRun(b) \/ TaskAllows(b)
  \/ TaskQuits \/ TaskQuitsNow \/ TaskEnds
  \/ Destroy \/ Clock

Spec == Init /\ [][Next]_vars

\* The pump's thread and the poster's are scheduled, the clock goes on, and a
\* task returns in the end, however many runs it starts.
Fairness ==
  /\ WF_vars(Pumps) /\ WF_vars(ScheduleWork) /\ WF_vars(Clock)
  /\ SF_vars(TaskEnds)

FairSpec == Spec /\ Fairness

-----------------------------------------------------------------------------
(* Properties                                                              *)

TypeOK ==
  /\ LoopTypeOK
  /\ at \in [Runs -> Phases]
  /\ did \in [Runs -> BOOLEAN]
  /\ shouldQuit \in BOOLEAN
  /\ wake \in 0..MaxTime
  /\ event \in BOOLEAN

\* A thread never sleeps on work it may do: if a task came in after the last
\* look at the queues, the event is signalled or about to be (the two-step
\* post of AddToIncomingQueue against the test and the wait of Run).
NoLostWakeup ==
  In("asleep") /\ nestable /\ ~event /\ ~posting => Loaded = <<>>

\* A thread never sleeps past the time of a delayed task it holds, although
\* delayed_work_time_ is kept by hand in five places.
NoOversleep ==
  In("asleep") /\ nestable /\ ~event =>
    \A e \in delayed : wake # 0 /\ wake <= e.task.due

\* message_loop.h says that Quit returns from Run once all pending tasks are
\* processed: when a run ends that way, no task that it could run at once and
\* that was posted before Quit is left in any queue.
QuitDrains ==
  [][depth' < depth /\ nestable /\ run[depth].task = 0 =>
       \A t \in Pending : t.due = 0 /\ MayRun(t) => t.id > run[depth].mark]_vars

\* The order of posting and of the timers survives the three queues, nested
\* runs and the destructor: the loop implements TaskQueue.
Queue == INSTANCE TaskQueue WITH
  pending <- Pending,
  running <- [d \in Runs |-> run[d].task]

Implements == Queue!Spec

\* Each nestable task is started, unless the outermost run ends first.
EveryTaskRuns ==
  \A i \in 1..MaxTask :
    (depth > 0 /\ \E t \in Pending : t.id = i /\ t.nestable)
      ~> (depth = 0 \/ \A t \in Pending : t.id # i)
=============================================================================
