----------------------------- MODULE MessageLoop -----------------------------
(***************************************************************************)
(* MessageLoop: the queues of a thread's tasks, and what its pump may ask  *)
(* of it (MessagePump::Delegate).  The pumps are modelled apart:           *)
(* DefaultPump.tla and UiPump.tla extend this module and decide when the   *)
(* loop works and when it sleeps.                                          *)
(*                                                                         *)
(* Tasks are numbered in the order they enter the incoming queue, the only *)
(* queue other threads touch (under incoming_queue_lock_).                 *)
(***************************************************************************)
EXTENDS Integers, Sequences, Functions

CONSTANTS
  MaxTask,      \* bound: tasks ever posted
  MaxTime,      \* bound: the clock stops here
  MaxDepth      \* bound: runs nested in one another

ASSUME LoopAssumption ==
  /\ MaxTask \in Nat \ {0}
  /\ MaxTime \in Nat \ {0}
  /\ MaxDepth \in Nat \ {0}

\* due = 0 is the null delayed_run_time of a task to be run at once.
Task  == [id : 1..MaxTask, nestable : BOOLEAN, due : 0..MaxTime]
Runs  == 1..MaxDepth
\* mark is not in the code: the last task posted when the run was told to quit.
Run   == [task : 0..MaxTask, quit : BOOLEAN, mark : 0..MaxTask]
Fresh == [task |-> 0, quit |-> FALSE, mark |-> 0]

VARIABLES
  incoming,     \* incoming_queue_
  work,         \* work_queue_
  deferred,     \* deferred_non_nestable_work_queue_
  delayed,      \* delayed_work_queue_: tasks with their sequence_num
  nextSeq,      \* next_delayed_task_sequence_num_
  nestable,     \* nestable_tasks_allowed_
  recent,       \* recent_tick_
  depth,        \* state_->run_depth, 0 when no run is under way
  run,          \* the chain of RunStates, and the task each has under way
  posted,       \* number of tasks posted
  posting,      \* another thread, inside PostTaskHelper, has yet to wake the pump
  stage,        \* the life of the loop: "open", "emptied", "closed"
  now           \* TimeTicks::Now

loopvars == <<incoming, work, deferred, delayed, nextSeq, nestable, recent, depth, run, posted,
              posting, stage, now>>
runvars  == <<depth, run>>
envvars  == <<posted, posting, stage, now>>

Pending == Range(incoming) \cup Range(work) \cup Range(deferred) \cup {e.task : e \in delayed}
Busy    == depth > 0 /\ run[depth].task # 0
\* The pump's thread is in Run with no task under way.
Working == depth > 0 /\ run[depth].task = 0

InitLoop ==
  /\ incoming = <<>> /\ work = <<>> /\ deferred = <<>>
  /\ delayed = {} /\ nextSeq = 0
  /\ nestable = TRUE /\ recent = 0
  /\ depth = 0 /\ run = [d \in Runs |-> Fresh]
  /\ posted = 0 /\ posting = FALSE
  /\ stage = "open" /\ now = 1

-----------------------------------------------------------------------------
(* Posting.  The proxy holds message_loop_lock_ over the whole post, so at *)
(* most one thread is between the queue and the wake-up, and the loop's    *)
(* own thread waits for it.                                                *)

NewTasks == {t \in Task : t.id = posted + 1 /\ (t.due = 0 \/ t.due >= now)}

AddToIncomingQueue(t) ==
  /\ stage # "closed"
  /\ ~posting
  /\ incoming' = Append(incoming, t)
  /\ posted' = t.id
  /\ UNCHANGED <<work, deferred, delayed, nextSeq, nestable, recent, runvars, stage, now>>

-----------------------------------------------------------------------------
(* The steps of DoWork, DoDelayedWork and DoIdleWork.                      *)

Earlier(e, f) == e.task.due < f.task.due \/ (e.task.due = f.task.due /\ e.seq <= f.seq)
IsTop(e)      == e \in delayed /\ \A f \in delayed : Earlier(e, f)

\* The work queue once ReloadWorkQueue is through.
Loaded == IF work = <<>> THEN incoming ELSE work

TakeFirst ==
  /\ work' = Tail(Loaded)
  /\ incoming' = IF work = <<>> THEN <<>> ELSE incoming

\* Faulty variant: a task may be interrupted by others.
RunTaskInterruptible(t) ==
  /\ UNCHANGED nestable
  /\ run' = [run EXCEPT ![depth].task = t.id]
  /\ UNCHANGED depth

RunTask(t) ==
  /\ nestable' = FALSE
  /\ run' = [run EXCEPT ![depth].task = t.id]
  /\ UNCHANGED depth

\* Faulty variant: any run is taken for the outermost one.
MayRunAnywhere(t) == t.nestable \/ depth >= 1

MayRun(t) == t.nestable \/ depth = 1

\* Faulty variant: delayed tasks are numbered downwards.
WorkDelaysDownwards ==
  /\ nestable /\ Loaded # <<>>
  /\ Head(Loaded).due # 0
  /\ TakeFirst
  /\ delayed' = delayed \cup {[task |-> Head(Loaded), seq |-> nextSeq]}
  /\ nextSeq' = nextSeq - 1
  /\ UNCHANGED <<deferred, nestable, recent, runvars, envvars>>

\* A pass of DoWork's loop over one task: it is put aside until it is due, ...
WorkDelays ==
  /\ nestable /\ Loaded # <<>>
  /\ Head(Loaded).due # 0
  /\ TakeFirst
  /\ delayed' = delayed \cup {[task |-> Head(Loaded), seq |-> nextSeq]}
  /\ nextSeq' = nextSeq + 1
  /\ UNCHANGED <<deferred, nestable, recent, runvars, envvars>>

\* ... and looked at again: the test is of the copy that was given no number,
\* so it is met by the first delayed task of the loop's life alone.
Reschedules == \E e \in delayed' : e.seq = 0 /\ IsTop(e)'

\* ... or until the outermost run has nothing else to do, ...
WorkDefers ==
  /\ nestable /\ Loaded # <<>>
  /\ Head(Loaded).due = 0 /\ ~MayRun(Head(Loaded))
  /\ TakeFirst
  /\ deferred' = Append(deferred, Head(Loaded))
  /\ UNCHANGED <<delayed, nextSeq, nestable, recent, runvars, envvars>>

\* ... or run.
WorkRuns ==
  /\ nestable /\ Loaded # <<>>
  /\ Head(Loaded).due = 0 /\ MayRun(Head(Loaded))
  /\ TakeFirst
  /\ RunTask(Head(Loaded))
  /\ UNCHANGED <<deferred, delayed, nextSeq, recent, envvars>>

\* DoWork returns false.
WorkIsOver == ~nestable \/ Loaded = <<>>

\* DoDelayedWork finds nothing to wait for, ...
NoDelayedWork ==
  /\ ~nestable \/ delayed = {}
  /\ recent' = 0
  /\ UNCHANGED <<incoming, work, deferred, delayed, nextSeq, nestable, runvars, envvars>>

\* ... or nothing due,
NotYet(e) ==
  /\ nestable /\ IsTop(e)
  /\ e.task.due > recent /\ e.task.due > now
  /\ recent' = now
  /\ UNCHANGED <<incoming, work, deferred, delayed, nextSeq, nestable, runvars, envvars>>

\* ... or takes the first task due, to defer or run it.
IsDue(e) ==
  /\ nestable /\ IsTop(e)
  /\ e.task.due <= recent \/ e.task.due <= now
  /\ recent' = IF e.task.due > recent THEN now ELSE recent
  /\ delayed' = delayed \ {e}
  /\ UNCHANGED <<incoming, work, nextSeq, envvars>>

DelayedDefers(e) ==
  /\ IsDue(e) /\ ~MayRun(e.task)
  /\ deferred' = Append(deferred, e.task)
  /\ UNCHANGED <<nestable, runvars>>

DelayedRuns(e) ==
  /\ IsDue(e) /\ MayRun(e.task)
  /\ RunTask(e.task)
  /\ UNCHANGED deferred

\* ProcessNextDelayedNonNestableTask
HasDeferred == depth = 1 /\ deferred # <<>>

IdleRuns ==
  /\ HasDeferred
  /\ deferred' = Tail(deferred)
  /\ RunTask(Head(deferred))
  /\ UNCHANGED <<incoming, work, delayed, nextSeq, recent, envvars>>

-----------------------------------------------------------------------------
(* Runs, and what a task may do to the run it is in.                       *)

\* Run, or RunAllPending (all): a run that is told to quit before it starts.
\* No task but one that allowed nested tasks may Run: the run would sleep for
\* ever (the class comment of message_loop.h says how it is to be done).
EnterRun(all) ==
  /\ stage = "open"
  /\ depth = 0 \/ (Busy /\ (all \/ nestable))
  /\ depth < MaxDepth
  /\ depth' = depth + 1
  /\ run' = [run EXCEPT ![depth + 1] =
       [task |-> 0, quit |-> all, mark |-> IF all THEN posted ELSE 0]]
  /\ UNCHANGED <<incoming, work, deferred, delayed, nextSeq, nestable, recent, envvars>>

Quit ==
  /\ Busy
  /\ ~run[depth].quit
  /\ run' = [run EXCEPT ![depth].quit = TRUE, ![depth].mark = posted]
  /\ UNCHANGED <<incoming, work, deferred, delayed, nextSeq, nestable, recent, depth, envvars>>

SetNestableTasksAllowed(b) ==
  /\ Busy
  /\ nestable # b
  /\ nestable' = b
  /\ UNCHANGED <<incoming, work, deferred, delayed, nextSeq, recent, runvars, envvars>>

\* RunTask, once the task is through.
TaskReturns ==
  /\ Busy
  /\ nestable' = TRUE
  /\ UNCHANGED <<incoming, work, deferred, delayed, nextSeq, recent, envvars>>

\* ~MessageLoop: what is left is dropped, ...
DeletePendingTasks ==
  /\ stage = "open" /\ depth = 0
  /\ incoming' = <<>> /\ work' = <<>> /\ deferred' = <<>> /\ delayed' = {}
  /\ stage' = "emptied"
  /\ UNCHANGED <<nextSeq, nestable, recent, runvars, posted, posting, now>>

\* ... then the proxy is cut off, and what came in between goes the same way.
WillDestroyCurrentMessageLoop ==
  /\ stage = "emptied" /\ ~posting
  /\ incoming' = <<>>
  /\ stage' = "closed"
  /\ UNCHANGED <<work, deferred, delayed, nextSeq, nestable, recent, runvars, posted, posting, now>>

Tick ==
  /\ now < MaxTime
  /\ now' = now + 1
  /\ UNCHANGED <<incoming, work, deferred, delayed, nextSeq, nestable, recent, runvars, posted,
                 posting, stage>>

-----------------------------------------------------------------------------
LoopTypeOK ==
  /\ incoming \in Seq(Task) /\ work \in Seq(Task) /\ deferred \in Seq(Task)
  /\ delayed \in SUBSET [task : Task, seq : Nat]
  /\ nextSeq \in Nat
  /\ nestable \in BOOLEAN
  /\ recent \in 0..MaxTime
  /\ depth \in 0..MaxDepth
  /\ run \in [Runs -> Run]
  /\ posted \in 0..MaxTask
  /\ posting \in BOOLEAN
  /\ stage \in {"open", "emptied", "closed"}
  /\ now \in 1..MaxTime
=============================================================================
