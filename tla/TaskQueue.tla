------------------------------ MODULE TaskQueue ------------------------------
(***************************************************************************)
(* What a message loop promises to those who post to it, with no queue, no *)
(* pump and no wake-up in it: a set of tasks, a clock, and runs nested in  *)
(* one another.  DefaultPump.tla and UiPump.tla implement it.              *)
(***************************************************************************)
EXTENDS Naturals

CONSTANTS
  MaxTask,      \* tasks are numbered in the order they are posted
  MaxTime,      \* the clock stops here
  MaxDepth      \* runs nested in one another

VARIABLES
  pending,      \* the tasks not yet started
  posted,       \* number of tasks posted
  now,          \* the clock
  depth,        \* runs under way
  running       \* what each run has under way: the number of a task, or 0

tqvars == <<pending, posted, now, depth, running>>

\* due = 0: to be run as soon as possible.
Task == [id : 1..MaxTask, nestable : BOOLEAN, due : 0..MaxTime]
Runs == 1..MaxDepth
Busy == depth > 0 /\ running[depth] # 0

Init ==
  /\ pending = {}
  /\ posted = 0
  /\ now = 1
  /\ depth = 0
  /\ running = [d \in Runs |-> 0]

Post(t) ==
  /\ t.id = posted + 1
  /\ t.due = 0 \/ t.due >= now
  /\ pending' = pending \cup {t}
  /\ posted' = t.id
  /\ UNCHANGED <<now, depth, running>>

\* Not before its time, not inside another task if it is not nestable, and
\* in the order of posting if it is as ordinary as a task can be.
InTurn(t) ==
  t.due = 0 /\ t.nestable =>
    \A u \in pending : u.due = 0 /\ u.nestable => t.id <= u.id

Start(t) ==
  /\ depth > 0
  /\ ~Busy
  /\ t \in pending
  /\ t.due <= now
  /\ t.nestable \/ depth = 1
  /\ InTurn(t)
  /\ pending' = pending \ {t}
  /\ running' = [running EXCEPT ![depth] = t.id]
  /\ UNCHANGED <<posted, now, depth>>

Finish ==
  /\ Busy
  /\ running' = [running EXCEPT ![depth] = 0]
  /\ UNCHANGED <<pending, posted, now, depth>>

\* A run starts on an idle thread, or from inside a task.
Enter ==
  /\ depth = 0 \/ Busy
  /\ depth < MaxDepth
  /\ depth' = depth + 1
  /\ UNCHANGED <<pending, posted, now, running>>

Leave ==
  /\ depth > 0
  /\ ~Busy
  /\ depth' = depth - 1
  /\ UNCHANGED <<pending, posted, now, running>>

\* A task that asks for it ends its run with it.
FinishAndLeave ==
  /\ Busy
  /\ running' = [running EXCEPT ![depth] = 0]
  /\ depth' = depth - 1
  /\ UNCHANGED <<pending, posted, now>>

\* The loop is destroyed with what it still holds.
Discard ==
  /\ depth = 0
  /\ pending' = {}
  /\ UNCHANGED <<posted, now, depth, running>>

Tick ==
  /\ now < MaxTime
  /\ now' = now + 1
  /\ UNCHANGED <<pending, posted, depth, running>>

Next ==
  \/ \E t \in Task : Post(t) \/ Start(t)
  \/ Finish \/ Enter \/ Leave \/ FinishAndLeave \/ Discard \/ Tick

Spec == Init /\ [][Next]_tqvars
=============================================================================
