------------------------------- MODULE Threads -------------------------------
(***************************************************************************)
(* The threads of the program from start to exit: MainThread starts the    *)
(* workers (misc, screen capture, database, app SDK), stops them one by    *)
(* one after its own loop has ended, and is gone after them.  Meanwhile    *)
(* tasks and callbacks post to threads by number, through ThreadManager,   *)
(* which walks from the map of threads to the thread to its loop to the    *)
(* loop's proxy with no lock held.                                         *)
(*                                                                         *)
(* A loop is its queue here; how a thread sleeps and wakes is the subject  *)
(* of DefaultPump.tla and UiPump.tla.  Thread 0 is the UI thread, workers  *)
(* are numbered in the order in which they are stopped.                    *)
(***************************************************************************)
EXTENDS Integers, Sequences

CONSTANTS
  N,            \* number of workers
  MaxPosts      \* bound: tasks posted

ASSUME ThreadsAssumption == N \in Nat \ {0} /\ MaxPosts \in Nat

Workers == 1..N
Threads == 0..N
Outside == N + 1                \* a thread of a library: the SDKs, HTTP
Posters == 0..N + 1

Quit    == N + 2                \* the task of StopSoon, instead of a poster's
Task    == Posters \cup {Quit}  \* tasks are told apart by who posted them

VARIABLES
  phase,        \* how far each thread is in FrameworkThread::Run
  deleted,      \* the FrameworkThread objects that are gone
  queue,        \* the tasks each loop holds
  busy,         \* a task is under way
  quit,         \* the loop was told to quit
  look,         \* each poster in ThreadManager::PostTask: what it holds, of which thread
  main,         \* where MainThread is
  cur,          \* the worker it is busy with
  posts,        \* number of tasks posted
  lost          \* not in the code: <<poster, thread>> of tasks that were dropped

vars == <<phase, deleted, queue, busy, quit, look, main, cur, posts, lost>>

Idle == [at |-> "none", to |-> 0]

Init ==
  /\ phase = [t \in Threads |-> IF t = 0 THEN "running" ELSE "off"]
  /\ deleted = {}
  /\ queue = [t \in Threads |-> <<>>]
  /\ busy = [t \in Threads |-> FALSE]
  /\ quit = [t \in Threads |-> FALSE]
  /\ look = [p \in Posters |-> Idle]
  /\ main = "starting" /\ cur = 1
  /\ posts = 0
  /\ lost = {}

\* The thread is in the map: between RegisterThread and UnregisterThread.
Registered(t) == phase[t] \in {"running", "left"}
\* The loop has not been deleted.
LoopLives(t)  == phase[t] \in {"running", "left", "unregistered", "emptied", "closed"}
\* Its proxy still has it.
Open(t)       == phase[t] \in {"running", "left", "unregistered", "emptied"}

-----------------------------------------------------------------------------
(* MainThread                                                              *)

\* PreMessageLoop starts the last to be stopped but one first, and the first
\* to be stopped last.
Starting(i) == (i % N) + 1

\* FrameworkThread::Start: Create, and the wait for the new thread.
StartThread ==
  /\ main = "starting" /\ phase[Starting(cur)] = "off"
  /\ phase' = [phase EXCEPT ![Starting(cur)] = "created"]
  /\ UNCHANGED <<deleted, queue, busy, quit, look, main, cur, posts, lost>>

ThreadStarted ==
  /\ main = "starting" /\ phase[Starting(cur)] = "running"
  /\ IF cur < N THEN cur' = cur + 1 /\ UNCHANGED main
     ELSE main' = "running" /\ UNCHANGED cur
  /\ UNCHANGED <<phase, deleted, queue, busy, quit, look, posts, lost>>

\* WM_QUIT ends the UI loop at once (UiPump.tla); then Cleanup.
UiLoopEnds ==
  /\ main = "running" /\ ~busy[0]
  /\ main' = "stopping" /\ cur' = 1
  /\ phase' = [phase EXCEPT ![0] = "left"]
  /\ UNCHANGED <<deleted, queue, busy, quit, look, posts, lost>>

\* Faulty variant: the thread is waited for without being told to quit.
StopSoonUnposted ==
  /\ main = "stopping"
  /\ main' = "closing"
  /\ UNCHANGED <<phase, deleted, queue, busy, quit, look, cur, posts, lost>>

StopSoon ==
  /\ main = "stopping"
  /\ main' = "closing"
  /\ queue' = [queue EXCEPT ![cur] = Append(@, Quit)]
  /\ UNCHANGED <<phase, deleted, busy, quit, look, cur, posts, lost>>

\* Faulty variant: the thread is deleted without being waited for.
CloseAtOnce ==
  /\ main = "closing"
  /\ deleted' = deleted \cup {cur}
  /\ IF cur < N THEN main' = "stopping" /\ cur' = cur + 1
     ELSE main' = "leaving" /\ UNCHANGED cur
  /\ UNCHANGED <<phase, queue, busy, quit, look, posts, lost>>

\* Thread::Close, and misc_thread_.reset(NULL) and its likes.
Close ==
  /\ main = "closing" /\ phase[cur] = "ended"
  /\ deleted' = deleted \cup {cur}
  /\ IF cur < N THEN main' = "stopping" /\ cur' = cur + 1
     ELSE main' = "leaving" /\ UNCHANGED cur
  /\ UNCHANGED <<phase, queue, busy, quit, look, posts, lost>>

\* The MainThread object is a temporary of NimAPP::Exec.
MainGone ==
  /\ main = "leaving" /\ phase[0] = "ended"
  /\ main' = "gone" /\ deleted' = deleted \cup {0}
  /\ UNCHANGED <<phase, queue, busy, quit, look, cur, posts, lost>>

-----------------------------------------------------------------------------
(* FrameworkThread::Run                                                    *)

\* The loop is made, the thread registers itself, and signals.
Begin(t) ==
  /\ phase[t] = "created"
  /\ phase' = [phase EXCEPT ![t] = "running"]
  /\ UNCHANGED <<deleted, queue, busy, quit, look, main, cur, posts, lost>>

\* The loop runs a task, DoStopSoon among them.
TakeTask(t) ==
  /\ phase[t] = "running" /\ ~busy[t]
  /\ t = 0 => main = "running"
  /\ queue[t] # <<>>
  /\ queue' = [queue EXCEPT ![t] = Tail(@)]
  /\ busy' = [busy EXCEPT ![t] = Head(queue[t]) # Quit]
  /\ quit' = [quit EXCEPT ![t] = quit[t] \/ Head(queue[t]) = Quit]
  /\ UNCHANGED <<phase, deleted, look, main, cur, posts, lost>>

TaskEnds(t) ==
  /\ busy[t] /\ look[t] = Idle
  /\ busy' = [busy EXCEPT ![t] = FALSE]
  /\ UNCHANGED <<phase, deleted, queue, quit, look, main, cur, posts, lost>>

\* A worker's loop ends when it is idle after Quit.
LoopEnds(t) ==
  /\ t # 0
  /\ phase[t] = "running" /\ ~busy[t]
  /\ quit[t] /\ queue[t] = <<>>
  /\ phase' = [phase EXCEPT ![t] = "left"]
  /\ UNCHANGED <<deleted, queue, busy, quit, look, main, cur, posts, lost>>

\* Cleanup: UnregisterThread.  MainThread stops the workers before.
Cleanup(t) ==
  /\ phase[t] = "left"
  /\ t = 0 => main = "leaving"
  /\ phase' = [phase EXCEPT ![t] = "unregistered"]
  /\ UNCHANGED <<deleted, queue, busy, quit, look, main, cur, posts, lost>>

DroppedBy(t) == {<<queue[t][i], t>> : i \in DOMAIN queue[t]}

\* ~MessageLoop: what is left is dropped (before the proxy is cut off, and
\* what came meanwhile with it), ...
DropTasks(t) ==
  /\ \/ phase[t] = "unregistered" /\ phase' = [phase EXCEPT ![t] = "emptied"]
     \/ phase[t] = "emptied" /\ phase' = [phase EXCEPT ![t] = "closed"]
  /\ queue' = [queue EXCEPT ![t] = <<>>]
  /\ lost' = lost \cup DroppedBy(t)
  /\ UNCHANGED <<deleted, busy, quit, look, main, cur, posts>>

\* ... and the loop is gone before message_loop_ says so.
DeleteLoop(t) ==
  /\ \/ phase[t] = "closed" /\ phase' = [phase EXCEPT ![t] = "freed"]
     \/ phase[t] = "freed" /\ phase' = [phase EXCEPT ![t] = "ended"]
  /\ UNCHANGED <<deleted, queue, busy, quit, look, main, cur, posts, lost>>

-----------------------------------------------------------------------------
(* ThreadManager::PostTask(identifier, ...), by a task or from outside     *)

Looks(p, l) ==
  /\ look' = [look EXCEPT ![p] = l]
  /\ UNCHANGED <<phase, deleted, busy, quit, main, cur, lost>>

\* QueryThreadInternal
FindThread(p, t) ==
  /\ p = Outside \/ (p \in Threads /\ busy[p])
  /\ look[p] = Idle
  /\ posts < MaxPosts
  /\ Registered(t)
  /\ posts' = posts + 1
  /\ Looks(p, [at |-> "thread", to |-> t])
  /\ UNCHANGED queue

\* thread->message_loop(): the thread object must still be there.  What a
\* read of freed memory yields is left at nothing.
ReadLoop(p) ==
  /\ look[p].at = "thread"
  /\ LET t == look[p].to IN
       Looks(p, IF t \in deleted \/ phase[t] = "ended" THEN Idle ELSE [look[p] EXCEPT !.at = "loop"])
  /\ UNCHANGED <<posts, queue>>

\* message_loop->message_loop_proxy(): so must the loop.
ReadProxy(p) ==
  /\ look[p].at = "loop"
  /\ Looks(p, IF LoopLives(look[p].to) THEN [look[p] EXCEPT !.at = "proxy"] ELSE Idle)
  /\ UNCHANGED <<posts, queue>>

\* MessageLoopProxy::PostTask: refused once the proxy is cut off.
PostTask(p) ==
  /\ look[p].at = "proxy"
  /\ LET t == look[p].to IN
       queue' = IF Open(t) THEN [queue EXCEPT ![t] = Append(@, p)] ELSE queue
  /\ Looks(p, Idle)
  /\ UNCHANGED posts

-----------------------------------------------------------------------------
MainSteps == StartThread \/ ThreadStarted \/ StopSoon \/ Close \/ MainGone

RunSteps(t) ==
  Begin(t) \/ TakeTask(t) \/ TaskEnds(t) \/ LoopEnds(t) \/ Cleanup(t) \/ DropTasks(t) \/ DeleteLoop(t)

PostSteps(p) == ReadLoop(p) \/ ReadProxy(p) \/ PostTask(p)

Next ==
  \/ MainSteps \/ UiLoopEnds
  \/ \E t \in Threads : RunSteps(t)
  \/ \E p \in Posters : PostSteps(p) \/ \E t \in Threads : FindThread(p, t)

Spec == Init /\ [][Next]_vars

\* Every thread is scheduled.  The user may never quit.
Fairness ==
  /\ WF_vars(MainSteps)
  /\ \A t \in Threads : WF_vars(RunSteps(t))
  /\ \A p \in Posters : WF_vars(PostSteps(p))

FairSpec == Spec /\ Fairness

-----------------------------------------------------------------------------
(* Properties                                                              *)

Phases == {"off", "created", "running", "left", "unregistered", "emptied", "closed", "freed", "ended"}

TypeOK ==
  /\ phase \in [Threads -> Phases]
  /\ deleted \subseteq {t \in Threads : phase[t] = "ended"}
  /\ queue \in [Threads -> Seq(Task)]
  /\ busy \in [Threads -> BOOLEAN] /\ quit \in [Threads -> BOOLEAN]
  /\ look \in [Posters -> [at : {"none", "thread", "loop", "proxy"}, to : Threads]]
  /\ main \in {"starting", "running", "stopping", "closing", "leaving", "gone"}
  /\ cur \in Workers
  /\ posts \in 0..MaxPosts
  /\ lost \subseteq Task \X Threads

\* A poster never reads a thread or a loop that is gone.
Sound(p) ==
  /\ look[p].at = "thread" => look[p].to \notin deleted
  /\ look[p].at = "loop" => look[p].to \notin deleted /\ LoopLives(look[p].to)

\* Down the order in which threads are stopped, posting is sound although
\* nothing is locked: a task of the UI thread may post to any thread, one of a
\* worker to the UI thread and to the workers stopped after it.
Downstream(p, t) == p = 0 \/ (p \in Workers /\ (t = 0 \/ p < t))

SoundDownstream == \A p \in Posters : Downstream(p, look[p].to) => Sound(p)

\* What is handed on to a worker that is stopped later is done before the
\* program exits: Stop lets the loop run all that was posted before.
HandedOnIsDone ==
  \A p \in 0..N, t \in Workers : Downstream(p, t) => <<p, t>> \notin lost

\* Once the user quits, the program exits: no worker is waited for in vain.
Exits == main = "stopping" ~> main = "gone"

\* message_loop.h says that the PostTask family may be used by any thread for
\* any other: whoever posts, a thread that is no longer there is not touched.
SoundForAll == \A p \in Posters : Sound(p)
===============================================================================
