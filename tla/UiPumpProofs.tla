----------------------------- MODULE UiPumpProofs -----------------------------
(***************************************************************************)
(* Proofs about UiPump.tla, for every number of tasks, length of the clock *)
(* and number of window messages.  Its types and that it implements        *)
(* TaskQueue.tla hold as they stand.  What the announcement is worth       *)
(* (OneMessage, NoLostWakeup, NativeLoopServed) holds while the queue of   *)
(* Windows messages has room: FullQueue.cfg shows what a full one does.    *)
(***************************************************************************)
EXTENDS UiPump, MessageLoopProofs, FiniteSetTheorems

-----------------------------------------------------------------------------
(* The inductive invariant                                                 *)

\* What DoRunLoop has called: a loop nested in a task's own is left aside.
OwnModal == IF modal = "task" THEN outer[1] ELSE modal
OwnCall  == IF modal = "task" THEN outer[2] ELSE call

\* Where the thread can be: in DoRunLoop, in the window procedure DoRunLoop or
\* PeekMessage has called, in a task, or in a system loop one of the two has
\* opened.
Where ==
  /\ depth = 0 => /\ at = "message" /\ ~handling /\ modal = "no" /\ call = "none"
                  /\ run[1] = Fresh
  /\ handling => at \in {"message", "sent"}
  /\ OwnModal = "handler" => handling
  /\ modal = "task" => Busy
  /\ modal # "task" => outer = Alone
  /\ handling /\ OwnModal = "no" => OwnCall = "none" /\ ~Busy
  /\ OwnCall = "none" /\ Busy => at \in {"work", "delayed"}
  /\ OwnCall # "none" /\ OwnModal = "no" => OwnCall = "timer" /\ at = "message" /\ ~handling
  /\ OwnCall = "replace" => ~Busy
  /\ lent => handling /\ (modal = "task" => outer[2] \in {"work", "timerwork"})
  /\ sending => posting

\* A task runs with nested ones forbidden, and at depth 1 none is put off.
Plain ==
  /\ nestable <=> ~Busy
  /\ stage = "open" /\ deferred = <<>>
  /\ \A t \in Pending : t.nestable

\* The time to sleep until is right from DoDelayedWork to the wait.
WakeInTime ==
  at \in {"idle", "asleep"} => \A e \in delayed : wake # 0 /\ wake <= e.task.due

IInv == TypeOK /\ Where /\ Plain /\ QueuesInOrder /\ QueuesHold /\ WakeInTime

-----------------------------------------------------------------------------
(* The only run, and the messages                                          *)

USE DEF loopvars, runvars, envvars, uivars, native, vars

LEMMA OneRun ==
  ASSUME TypeOK
  PROVE  /\ Runs = {1} /\ depth \in {0, 1} /\ run[1] \in Run /\ DOMAIN run = {1}
         /\ Busy <=> depth = 1 /\ run[1].task # 0
         /\ Working <=> depth = 1 /\ run[1].task = 0
BY UiAssumption DEF TypeOK, LoopTypeOK, Runs, Busy, Working

\* What a step makes of it.
LEMMA RunThen ==
  ASSUME TypeOK
  PROVE  /\ UNCHANGED <<depth, run>> => (Busy' <=> Busy) /\ (Working' <=> Working)
         /\ depth' = 0 => ~Busy' /\ ~Working'
         /\ \A t \in Task : depth = 1 /\ RunTask(t) => Busy' /\ ~Working' /\ depth' = 1
         /\ depth = 1 /\ depth' = 1 /\ run' = [run EXCEPT ![1].task = 0] =>
              Working' /\ ~Busy'
         /\ run' = [run EXCEPT ![1] = Fresh] => run'[1] = Fresh
<1>1. DOMAIN run = {1} /\ run[1] \in Run
  BY OneRun
<1>2. \A t \in Task : t.id # 0
  BY LoopAssumption DEF Task
<1> QED BY <1>1, <1>2 DEF Busy, Working, RunTask, Run

\* The message that is taken, and the messages left.
LEMMA WaitingIs ==
  /\ Waiting("none") => msgs = <<>>
  /\ Waiting("timer") => msgs = <<>> /\ timer # 0
  /\ Waiting("quit") => msgs = <<>>
  /\ Waiting("other") => msgs # <<>> /\ Head(msgs) = "other"
  /\ Waiting("work") => msgs # <<>> /\ Head(msgs) = "work"
BY DEF Waiting

Kinds  == {"work", "other"}
Phases == {"message", "sent", "replace", "work", "delayed", "idle", "asleep", "waiting"}

LEMMA MsgTypes ==
  ASSUME TypeOK
  PROVE  /\ Rest \in Seq(Kinds) /\ Len(Rest) <= QueueSize /\ Len(Rest) \in Nat
         /\ \A k \in Kinds : PostMsg(k) => msgs' \in Seq(Kinds) /\ Len(msgs') <= QueueSize
         /\ Announced => msgs' \in Seq(Kinds) /\ Len(msgs') <= QueueSize /\ haveWork' \in BOOLEAN
         /\ ScheduleWork => msgs' \in Seq(Kinds) /\ Len(msgs') <= QueueSize /\ haveWork' \in BOOLEAN
<1>1. /\ msgs \in Seq(Kinds) /\ Len(msgs) <= QueueSize /\ QueueSize \in Nat /\ Len(msgs) \in Nat
      /\ haveWork \in BOOLEAN
  BY UiAssumption DEF TypeOK, Kinds
<1>2. Rest \in Seq(Kinds) /\ Len(Rest) <= QueueSize /\ Len(Rest) \in Nat
  <2>1. CASE msgs = <<>>
    BY <1>1, <2>1 DEF Rest
  <2>2. CASE msgs # <<>>
    <3>1. Tail(msgs) \in Seq(Kinds) /\ Len(Tail(msgs)) = Len(msgs) - 1 /\ Len(msgs) \in Nat \ {0}
      BY <1>1, <2>2
    <3> QED BY <1>1, <2>2, <3>1 DEF Rest
  <2> QED BY <2>1, <2>2
<1>3. ASSUME NEW q \in Seq(Kinds), NEW k \in Kinds
      PROVE  Append(q, k) \in Seq(Kinds) /\ Len(Append(q, k)) = Len(q) + 1 /\ Len(q) \in Nat
  OBVIOUS
<1>4. "work" \in Kinds
  BY DEF Kinds
<1>5. \A k \in Kinds : PostMsg(k) => msgs' \in Seq(Kinds) /\ Len(msgs') <= QueueSize
  BY <1>1, <1>3 DEF PostMsg
<1>6. ASSUME Announced
      PROVE  msgs' \in Seq(Kinds) /\ Len(msgs') <= QueueSize /\ haveWork' \in BOOLEAN
  <2>1. haveWork' \in BOOLEAN /\ (UNCHANGED msgs \/ msgs' = Rest \/
          (Len(Rest) < QueueSize /\ msgs' = Append(Rest, "work")))
    BY <1>6 DEF Announced
  <2>2. Append(Rest, "work") \in Seq(Kinds) /\ Len(Append(Rest, "work")) = Len(Rest) + 1
    BY <1>2, <1>3, <1>4
  <2> QED BY <1>1, <1>2, <2>1, <2>2
<1>7. ScheduleWork => msgs' \in Seq(Kinds) /\ Len(msgs') <= QueueSize /\ haveWork' \in BOOLEAN
  BY <1>1, <1>4, <1>5 DEF ScheduleWork
<1> QED BY <1>2, <1>5, <1>6, <1>7

-----------------------------------------------------------------------------
(* Steps                                                                   *)

\* A step keeps the types.
LEMMA TypeStep ==
  ASSUME TypeOK, Where, QueuesInOrder, [Next]_vars
  PROVE  TypeOK'
<1> DEFINE Rem ==
             /\ {haveWork, sending, quitMsg, more, shouldQuit, handling, lent} \subseteq BOOLEAN
             /\ msgs \in Seq(Kinds) /\ Len(msgs) <= QueueSize
             /\ timer \in 0..MaxTime /\ wake \in 0..MaxTime
             /\ at \in Phases
             /\ modal \in {"no", "handler", "task"}
             /\ call \in {"none", "replace", "work", "timer", "timerwork"}
             /\ outer \in {"no", "handler"} \X {"none", "work", "timer", "timerwork"}
<1>t. TypeOK <=> LoopTypeOK /\ Rem
  BY DEF TypeOK, Kinds, Phases
<1>u. TypeOK' <=> LoopTypeOK' /\ Rem'
  BY DEF TypeOK, Kinds, Phases
<1>a. Arrives => at' \in Phases
  BY <1>t DEF Arrives, Rem, Phases
<1>e. /\ "message" \in Phases /\ "sent" \in Phases /\ "replace" \in Phases /\ "work" \in Phases
      /\ "delayed" \in Phases /\ "idle" \in Phases /\ "asleep" \in Phases /\ "waiting" \in Phases
  BY DEF Phases
<1> HIDE DEF Rem
<1>k. UNCHANGED loopvars => LoopTypeOK'
  BY <1>t DEF LoopTypeOK
<1>n. now \in 1..MaxTime /\ MaxTime \in Nat /\ depth \in {0, 1} /\ (depth = 1 => depth \in Runs)
  BY <1>t, OneRun, LoopAssumption DEF LoopTypeOK
<1>l. \A s \in 0..MaxTime : Later(s, now) \in 0..MaxTime
  BY <1>n DEF Later
<1>b. /\ shouldQuit \in BOOLEAN /\ handling \in BOOLEAN /\ lent \in BOOLEAN
      /\ timer \in 0..MaxTime /\ 0 \in 0..MaxTime
  BY <1>n, <1>t DEF Rem
<1>p. ASSUME UNCHANGED <<incoming, work, deferred, delayed, nextSeq, nestable, recent, envvars>>,
             depth' \in 0..MaxDepth, run' \in [Runs -> Run]
      PROVE  LoopTypeOK'
  BY <1>p, <1>t DEF LoopTypeOK
<1>1. CASE Post
  <2>1. LoopTypeOK'
    BY <1>1, <1>t, LoopTypes DEF Post, Posted
  <2> QED BY <1>1, <1>t, <1>u, <2>1 DEF Post, Rem
<1>2. CASE SwapFlag
  BY <1>2, <1>t, <1>u DEF SwapFlag, Rem, LoopTypeOK
<1>3. CASE SendFlag
  <2>1. msgs' \in Seq(Kinds) /\ Len(msgs') <= QueueSize
    BY <1>3, <1>t, MsgTypes DEF SendFlag, Kinds
  <2>2. at' \in Phases
    BY <1>3, <1>a, <1>t DEF SendFlag, Rem
  <2> QED BY <1>3, <1>t, <1>u, <2>1, <2>2 DEF SendFlag, Rem, LoopTypeOK
<1>4. CASE Input
  <2>1. msgs' \in Seq(Kinds) /\ Len(msgs') <= QueueSize
    BY <1>4, MsgTypes DEF Input, PostMsg, Kinds
  <2> QED BY <1>4, <1>a, <1>k, <1>t, <1>u, <2>1 DEF Input, Rem
<1>5. CASE TakesMessage
  <2>1. msgs' \in Seq(Kinds) /\ Len(msgs') <= QueueSize
    BY <1>5, MsgTypes DEF TakesMessage
  <2>2. more' \in BOOLEAN /\ at' \in Phases
    BY <1>5, <1>e, <1>t DEF TakesMessage, Taken, Rem
  <2>3. /\ shouldQuit' \in BOOLEAN /\ handling' \in BOOLEAN /\ timer' \in 0..MaxTime
        /\ call' \in {"none", "timer"}
    BY <1>5, <1>b DEF TakesMessage, In, AtPhase, Quits, TimerFires
  <2> QED BY <1>5, <1>k, <1>t, <1>u, <2>1, <2>2, <2>3 DEF TakesMessage, Rem
<1>6. CASE Replaces
  <2>1. msgs' \in Seq(Kinds) /\ Len(msgs') <= QueueSize /\ haveWork' \in BOOLEAN
    BY <1>6, MsgTypes DEF Replaces
  <2>2. more' \in BOOLEAN /\ at' \in Phases
    BY <1>6, <1>e, <1>t DEF Replaces, Taken, Rem
  <2>3. /\ shouldQuit' \in BOOLEAN /\ handling' \in BOOLEAN /\ timer' \in 0..MaxTime
        /\ call' \in {"none", "timer"} /\ lent' \in BOOLEAN
    BY <1>6, <1>b DEF Replaces, In, AtPhase, Quits, TimerFires
  <2> QED BY <1>6, <1>k, <1>t, <1>u, <2>1, <2>2, <2>3 DEF Replaces, Rem
<1>7. CASE Breaks
  <2>1. /\ 1 \in Runs /\ run \in [Runs -> Run] /\ 0 \in 0..MaxTask
        /\ 0 \in 0..MaxDepth /\ depth \in 0..MaxDepth
    BY <1>t, OneRun, UiAssumption, LoopAssumption DEF LoopTypeOK
  <2>2. depth' \in 0..MaxDepth /\ run' \in [Runs -> Run]
    BY <1>7, <2>1, RunUpdates DEF Breaks
  <2>3. LoopTypeOK'
    BY <1>7, <1>p, <2>2 DEF Breaks
  <2> QED BY <1>7, <1>e, <1>t, <1>u, <2>3 DEF Breaks, Rem
<1>18. CASE TakesSent \/ AttachedMouse \/ DoIdleWork \/ WakeUp
  BY <1>18, <1>e, <1>k, <1>t, <1>u DEF TakesSent, AttachedMouse, DoIdleWork, WakeUp, Rem
<1>19. CASE ProgramQuits
  BY <1>19, <1>k, <1>t, <1>u DEF ProgramQuits, Rem
<1>20. Closes => /\ modal' \in {"no", "handler"} /\ call' \in {"none", "work", "timer", "timerwork"}
                 /\ outer' \in {"no", "handler"} \X {"none", "work", "timer", "timerwork"}
  BY <1>t DEF Closes, Alone, Rem
<1>21. CASE ModalEnds
  BY <1>20, <1>21, <1>k, <1>t, <1>u DEF ModalEnds, Rem
<1>22. CASE OpensModal
  <2>1. modal \in {"no", "handler"} /\ call \in {"none", "work", "timer", "timerwork"}
    BY <1>22, <1>t DEF OpensModal, InProgram, Where, OwnModal, OwnCall, Rem
  <2>2. lent' \in BOOLEAN /\ modal' \in {"no", "handler", "task"}
    BY <1>22, <1>b DEF OpensModal
  <2> QED BY <1>22, <1>k, <1>t, <1>u, <2>1, <2>2 DEF OpensModal, Rem
<1>8. CASE ModalTakes
  <2>1. msgs' \in Seq(Kinds) /\ Len(msgs') <= QueueSize
    BY <1>8, MsgTypes DEF ModalTakes
  <2>2. /\ timer' \in 0..MaxTime /\ modal' \in {"no", "handler", "task"}
        /\ call' \in {"none", "replace", "work", "timer", "timerwork"}
        /\ outer' \in {"no", "handler"} \X {"none", "work", "timer", "timerwork"}
    BY <1>8, <1>20, <1>t, <1>n DEF ModalTakes, TimerFires, Rem
  <2> QED BY <1>8, <1>k, <1>t, <1>u, <2>1, <2>2 DEF ModalTakes, Rem
<1>9. CASE HandleWorkMessage
  <2>1. msgs' \in Seq(Kinds) /\ Len(msgs') <= QueueSize /\ haveWork' \in BOOLEAN
    BY <1>9, MsgTypes DEF HandleWorkMessage
  <2>2. timer' \in 0..MaxTime /\ call' \in {"work", "timerwork"} /\ shouldQuit' \in BOOLEAN
    BY <1>9, <1>b DEF HandleWorkMessage, TimerFires, Quits
  <2> QED BY <1>9, <1>k, <1>t, <1>u, <2>1, <2>2 DEF HandleWorkMessage, Rem
<1>10. CASE DoWork
  <2>0. depth \in Runs
    BY <1>10, <1>n, OneRun DEF DoWork, In, AtPhase, Calling, Where
  <2>1. CASE WorkDelays
    <3>1. LoopTypeOK'
      BY <1>t, <2>0, <2>1, LoopTypes
    <3>2. Head(Loaded).due \in 0..MaxTime
      BY <1>t, <2>1, TakeFacts DEF WorkDelays, Task
    <3>3. ~WorkRuns /\ ~WorkIsOver
      BY <2>1 DEF WorkDelays, WorkRuns, WorkIsOver
    <3>4. wake' \in 0..MaxTime /\ timer' \in 0..MaxTime /\ UNCHANGED <<at, more, call>>
      BY <1>10, <1>l, <1>t, <3>2, <3>3 DEF DoWork, ScheduleDelayedWork, Rem
    <3> QED BY <1>10, <1>t, <1>u, <3>1, <3>4 DEF DoWork, Rem
  <2>2. CASE WorkRuns /\ UNCHANGED <<at, more, call, wake, timer>>
    <3>1. LoopTypeOK'
      BY <1>t, <2>0, <2>2, LoopTypes
    <3> QED BY <1>10, <1>t, <1>u, <2>2, <3>1 DEF DoWork, Rem
  <2>3. CASE /\ UNCHANGED <<loopvars, more, wake, timer>>
             /\ at' \in {at, "delayed"} /\ call' \in {call, "none"}
    BY <1>10, <1>e, <1>k, <1>t, <1>u, <2>3 DEF DoWork, Rem
  <2> QED BY <1>10, <2>1, <2>2, <2>3 DEF DoWork
<1>h. TimerHandled /\ wake' \in 0..MaxTime =>
        /\ timer' \in 0..MaxTime /\ call' \in {"none", "work"}
        /\ at' \in {at, "work"} /\ more' \in BOOLEAN
  BY <1>l, <1>t DEF TimerHandled, Taken, Rem
<1>i. \A b \in BOOLEAN : KillTimer(b) => timer' \in 0..MaxTime
  BY <1>n, <1>t DEF KillTimer, Rem
<1>11. CASE DoDelayedWork
  <2>0. depth \in Runs
    BY <1>11, <1>n, OneRun DEF DoDelayedWork, In, AtPhase, Calling, Where
  <2>1. LoopTypeOK'
    BY <1>t, <1>11, <2>0, LoopTypes DEF DoDelayedWork
  <2>2. \A e \in delayed : e.task.due \in 0..MaxTime
    BY <1>t DEF LoopTypeOK, Task
  <2>3. ASSUME NEW e \in delayed, IsDue(e), NextWake PROVE wake' \in 0..MaxTime
    BY <1>t, <2>2, <2>3 DEF IsDue, NextWake, IsTop, Rem
  <2>4. wake' \in 0..MaxTime
    BY <1>11, <1>n, <2>2, <2>3 DEF DoDelayedWork, DelayedRuns
  <2>5. DelayedWorkIsOver =>
          /\ timer' \in 0..MaxTime /\ call' \in {call, "none", "work"}
          /\ at' \in {at, "work", "message", "idle"} /\ more' \in BOOLEAN
    BY <1>h, <1>i, <1>t, <2>4 DEF DelayedWorkIsOver, Rem
  <2>6. /\ timer' \in 0..MaxTime /\ call' \in {call, "none", "work"}
        /\ at' \in {at, "work", "message", "idle"} /\ more' \in BOOLEAN
    BY <1>11, <1>t, <2>5 DEF DoDelayedWork, Rem
  <2> QED BY <1>11, <1>e, <1>t, <1>u, <2>1, <2>4, <2>6 DEF DoDelayedWork, Rem
<1>12. CASE Starts
  <2>1. depth + 1 \in Runs /\ depth' = depth + 1 /\ depth = 0
    BY <1>12, <1>n, UiAssumption, OneRun DEF Starts, EnterRun
  <2>2. run' \in [Runs -> Run] /\ depth' \in 0..MaxDepth
    BY <1>12, <1>t, <2>1, UiAssumption, LoopAssumption DEF Starts, EnterRun, Run, LoopTypeOK
  <2>3. LoopTypeOK'
    BY <1>12, <1>p, <2>2 DEF Starts, EnterRun
  <2> QED BY <1>12, <1>t, <1>u, <2>3 DEF Starts, Rem
<1>13. CASE ProgramPosts
  <2>1. LoopTypeOK'
    BY <1>13, <1>t, LoopTypes DEF ProgramPosts, Posted, LoopTypeOK
  <2>2. msgs' \in Seq(Kinds) /\ Len(msgs') <= QueueSize /\ haveWork' \in BOOLEAN
    BY <1>13, <1>t, MsgTypes DEF ProgramPosts, Rem
  <2> QED BY <1>13, <1>t, <1>u, <2>1, <2>2 DEF ProgramPosts, Rem
<1>14. CASE HandlerReturns
  BY <1>14, <1>e, <1>k, <1>t, <1>u DEF HandlerReturns, Taken, Rem
<1>15. CASE TaskEnds
  <2>1. depth = 1 /\ 1 \in Runs /\ 0 \in 0..MaxTask
    BY <1>15, OneRun, LoopAssumption DEF TaskEnds
  <2>2. [run EXCEPT ![1].task = 0] \in [Runs -> Run] /\ depth \in 0..MaxDepth
    BY <1>t, <2>1, RunUpdates DEF LoopTypeOK
  <2>3. msgs' \in Seq(Kinds) /\ Len(msgs') <= QueueSize /\ haveWork' \in BOOLEAN
    BY <1>15, <1>t, MsgTypes DEF TaskEnds, WorkMessageDone, Rem
  <2>4. wake' \in 0..MaxTime
    BY <1>15, <1>t DEF TaskEnds, Rem
  <2>5. timer' \in 0..MaxTime
    BY <1>15, <1>h, <1>i, <1>t, <2>4 DEF TaskEnds, Rem
  <2>6. call' \in {call, "none", "work"}
    BY <1>15, <1>h, <2>4 DEF TaskEnds, WorkMessageDone
  <2>7. /\ depth' \in 0..MaxDepth /\ run' \in [Runs -> Run] /\ more' \in BOOLEAN
        /\ at' \in {at, "message", "work", "delayed"}
    BY <1>15, <1>h, <1>t, <2>1, <2>2, <2>4 DEF TaskEnds, Rem
  <2>8. LoopTypeOK'
    BY <1>15, <1>t, <2>7 DEF TaskEnds, TaskReturns, LoopTypeOK
  <2> QED BY <1>15, <1>e, <1>t, <1>u, <2>3, <2>4, <2>5, <2>6, <2>7, <2>8 DEF TaskEnds, Rem
<1>16. CASE Clock
  <2>1. LoopTypeOK'
    BY <1>16, <1>t, LoopTypes DEF Clock
  <2>2. at' \in Phases
    BY <1>16, <1>a, <1>t DEF Clock, Rem
  <2> QED BY <1>16, <1>t, <1>u, <2>1, <2>2 DEF Clock, Rem
<1>17. CASE UNCHANGED vars
  BY <1>17, <1>k, <1>t, <1>u DEF Rem
<1> QED
  BY <1>1, <1>2, <1>3, <1>4, <1>5, <1>6, <1>7, <1>8, <1>9, <1>10, <1>11, <1>12, <1>13, <1>14, <1>15,
     <1>16, <1>17, <1>18, <1>19, <1>21, <1>22 DEF Next, Pumps, Loops

\* A task begins in the run: nested tasks are forbidden from then on.
LEMMA TaskBegins ==
  ASSUME TypeOK, QueuesInOrder, depth = 1,
         WorkRuns \/ \E e \in delayed : DelayedRuns(e)
  PROVE  Busy' /\ depth' = 1 /\ ~nestable' /\ nestable
<1>1. CASE WorkRuns
  <2>1. Head(Loaded) \in Task
    BY <1>1, TakeFacts DEF WorkRuns, TypeOK
  <2> QED BY <1>1, <2>1, RunThen DEF WorkRuns, RunTask
<1>2. ASSUME NEW e \in delayed, DelayedRuns(e) PROVE Busy' /\ depth' = 1 /\ ~nestable' /\ nestable
  <2>1. e.task \in Task
    BY DEF TypeOK, LoopTypeOK
  <2> QED BY <1>2, <2>1, RunThen DEF DelayedRuns, IsDue, RunTask
<1> QED BY <1>1, <1>2

\* Where DoRunLoop has the thread, no other has; nor has one where DoRunLoop is
\* past the queues.
LEMMA AloneIn ==
  ASSUME TypeOK, Where, NEW p, AtPhase(p)
  PROVE  /\ depth = 1 /\ ~Busy /\ modal = "no" /\ call = "none" /\ outer = Alone /\ ~handling
         /\ ~InModal /\ ~InProgram /\ ~lent
<1>1. depth = 1 /\ ~Busy /\ ~handling /\ call = "none"
  BY OneRun DEF AtPhase
<1>2. modal # "task" /\ modal # "handler" /\ modal \in {"no", "handler", "task"}
  BY <1>1 DEF Where, OwnModal, TypeOK
<1> QED BY <1>1, <1>2 DEF Where, InModal, InProgram

LEMMA AloneAt ==
  ASSUME TypeOK, Where, at \in {"replace", "idle", "asleep", "waiting"}
  PROVE  AtPhase(at)
<1>1. depth = 1 /\ ~handling
  BY OneRun DEF Where
<1>2. OwnModal \in {"no", "handler"}
  BY DEF OwnModal, TypeOK
<1>3. OwnCall = "none" /\ ~Busy
  BY <1>1, <1>2 DEF Where
<1> QED BY <1>1, <1>3, OneRun DEF Where, OwnCall, AtPhase

\* Where a step leaves the thread.
LEMMA WhereStep ==
  ASSUME TypeOK, Where, Plain, QueuesInOrder, [Next]_vars
  PROVE  Where'
<1> USE DEF OwnModal, OwnCall
<1>r. /\ UNCHANGED <<depth, run>> => (Busy' <=> Busy)
      /\ depth' = 0 => ~Busy'
      /\ depth = 1 /\ depth' = 1 /\ run' = [run EXCEPT ![1].task = 0] => ~Busy'
      /\ run' = [run EXCEPT ![1] = Fresh] => run'[1] = Fresh
      /\ depth \in {0, 1} /\ (Working => depth = 1 /\ ~Busy) /\ (Busy => depth = 1)
      /\ depth = 1 => Working \/ Busy
      /\ modal \in {"no", "handler", "task"} /\ outer[1] \in {"no", "handler"}
      /\ outer[2] \in {"none", "work", "timer", "timerwork"}
  BY OneRun, RunThen DEF TypeOK
<1>1. ASSUME UNCHANGED <<depth, run, at, handling, modal, call, outer, lent>>, sending' => posting'
      PROVE  Where'
  BY <1>1, <1>r DEF Where
<1>t. ASSUME modal = "task",
             UNCHANGED <<depth, run, at, handling, modal, outer, lent, sending, posting>>
      PROVE  Where'
  BY <1>t, <1>r DEF Where
<1>3. ASSUME NEW p, AtPhase(p), ~handling', UNCHANGED <<depth, run, native, sending, posting>>
      PROVE  Where'
  <2>1. /\ depth = 1 /\ ~Busy /\ modal = "no" /\ call = "none" /\ outer = Alone /\ ~lent
        /\ ~handling
    BY <1>3, AloneIn
  <2> QED BY <1>3, <1>r, <2>1 DEF Where
<1>a. ASSUME Arrives, UNCHANGED <<depth, run, handling, native>>, sending' => posting'
      PROVE  Where'
  <2>1. CASE at = "waiting"
    <3>1. AtPhase(at)
      BY <2>1, AloneAt
    <3>2. /\ depth = 1 /\ ~Busy /\ modal = "no" /\ call = "none" /\ outer = Alone /\ ~lent
          /\ ~handling
      BY <3>1, AloneIn
    <3> QED BY <1>a, <1>r, <3>2 DEF Where
  <2>2. CASE at # "waiting"
    BY <1>1, <1>a, <2>2 DEF Arrives
  <2> QED BY <2>1, <2>2
<1>2. CASE Post \/ SwapFlag \/ ProgramPosts \/ ProgramQuits
  <2>1. UNCHANGED <<depth, run, at, handling, native>>
    BY <1>2 DEF Post, SwapFlag, ProgramPosts, ProgramQuits, AddToIncomingQueue
  <2>2. sending' => posting'
    BY <1>2 DEF Post, SwapFlag, ProgramPosts, ProgramQuits, AddToIncomingQueue, Where
  <2> QED BY <1>1, <2>1, <2>2
<1>20. CASE SendFlag \/ Input \/ Clock
  <2>1. Arrives \/ UNCHANGED at
    BY <1>20 DEF SendFlag, Input, Clock
  <2>2. UNCHANGED <<depth, run, handling, native>>
    BY <1>20 DEF SendFlag, Input, Clock, Tick
  <2>3. sending' => posting'
    BY <1>20 DEF SendFlag, Input, Clock, Tick, Where
  <2> QED BY <1>1, <1>a, <2>1, <2>2, <2>3
<1>4. CASE TakesMessage
  <2>1. /\ depth = 1 /\ ~Busy /\ ~handling /\ call = "none" /\ modal = "no" /\ outer = Alone
        /\ ~lent /\ UNCHANGED <<depth, run, modal, outer, lent, sending, posting>>
    BY <1>4, AloneIn DEF TakesMessage, In
  <2>2. CASE UNCHANGED <<handling, call>>
    BY <1>r, <2>1, <2>2 DEF Where
  <2>4. CASE handling' = TRUE /\ at' = "message" /\ UNCHANGED call
    BY <1>r, <2>1, <2>4 DEF Where
  <2>5. CASE call' = "timer" /\ at' = "message" /\ UNCHANGED handling
    BY <1>r, <2>1, <2>5 DEF Where
  <2> QED BY <1>4, <2>2, <2>4, <2>5 DEF TakesMessage, TimerFires
<1>5. CASE Replaces
  <2>1. /\ depth = 1 /\ ~Busy /\ ~handling /\ call = "none" /\ modal = "no" /\ outer = Alone
        /\ ~lent /\ UNCHANGED <<depth, run, modal, outer, sending, posting>>
    BY <1>5, AloneIn DEF Replaces, In
  <2>2. CASE UNCHANGED <<handling, call, lent>>
    BY <1>r, <2>1, <2>2 DEF Where
  <2>3. CASE handling' = TRUE /\ at' = "message" /\ UNCHANGED call
    BY <1>r, <2>1, <2>3 DEF Where
  <2>4. CASE call' = "timer" /\ at' = "message" /\ UNCHANGED <<handling, lent>>
    BY <1>r, <2>1, <2>4 DEF Where
  <2> QED BY <1>5, <2>2, <2>3, <2>4 DEF Replaces, TimerFires
<1>21. CASE TakesSent
  <2>1. /\ depth = 1 /\ ~Busy /\ ~handling /\ call = "none" /\ modal = "no" /\ outer = Alone
        /\ ~lent
    BY <1>21, AloneIn DEF TakesSent, In
  <2>2. at' = "sent" /\ handling' = TRUE /\ UNCHANGED <<depth, run, native, sending, posting>>
    BY <1>21 DEF TakesSent
  <2> QED BY <1>r, <2>1, <2>2 DEF Where
<1>22. CASE Breaks
  <2>1. PICK p : AtPhase(p)
    BY <1>22 DEF Breaks
  <2>2. /\ depth = 1 /\ ~Busy /\ ~handling /\ call = "none" /\ modal = "no" /\ outer = Alone
        /\ ~lent
    BY <2>1, AloneIn
  <2> QED BY <1>22, <1>r, <2>2 DEF Breaks, Where
<1>6. CASE OpensModal
  <2>1. /\ UNCHANGED <<depth, run, at, handling, sending, posting>> /\ modal # "task"
        /\ outer' = <<modal, call>> /\ call' = "none" /\ lent' = (lent /\ call # "timer")
        /\ modal' = (IF Busy THEN "task" ELSE "handler")
    BY <1>6 DEF OpensModal, InProgram
  <2>2. CASE Busy
    <3>1. outer'[1] = modal /\ outer'[2] = call /\ modal' = "task" /\ (Busy' <=> Busy)
      BY <1>r, <2>1, <2>2
    <3>2. lent => call \in {"work", "timer", "timerwork"}
      BY <1>r, <2>1, <2>2 DEF Where, TypeOK
    <3> QED BY <1>r, <2>1, <2>2, <3>1, <3>2 DEF Where
  <2>3. CASE ~Busy
    <3>1. modal = "no" /\ handling /\ call = "none"
      BY <1>6, <2>1, <2>3 DEF OpensModal, InProgram, Where
    <3> QED BY <1>r, <2>1, <2>3, <3>1 DEF Where, Alone
  <2> QED BY <2>2, <2>3
<1>c. ASSUME InModal, Closes, UNCHANGED <<depth, run, at, handling, lent, sending, posting>>
      PROVE  Where'
  <2>1. modal' = outer[1] /\ call' = outer[2] /\ outer' = Alone
    BY <1>c DEF Closes
  <2>2. CASE modal = "task"
    BY <1>c, <1>r, <2>1, <2>2 DEF Where
  <2>3. CASE modal # "task"
    <3>1. /\ modal = "handler" /\ call = "none" /\ ~Busy /\ outer = Alone /\ handling
          /\ modal' = "no" /\ call' = "none"
      BY <1>c, <1>r, <2>1, <2>3 DEF InModal, Where, Alone
    <3> QED BY <1>c, <1>r, <2>1, <3>1 DEF Where
  <2> QED BY <2>2, <2>3
<1>7. CASE ModalTakes
  <2>1. UNCHANGED <<depth, run, at, handling, lent, sending, posting>> /\ InModal
    BY <1>7 DEF ModalTakes
  <2>2. CASE Closes
    BY <1>c, <2>1, <2>2
  <2>3. CASE UNCHANGED <<modal, outer>> /\ call' \in {"none", "replace", "timer"}
    <3>1. CASE modal = "task"
      BY <1>t, <2>1, <2>3, <3>1
    <3>2. CASE modal # "task"
      <4>1. modal = "handler" /\ call = "none" /\ ~Busy /\ handling
        BY <1>r, <2>1, <3>2 DEF InModal, Where
      <4> QED BY <1>r, <2>1, <2>3, <4>1 DEF Where
    <3> QED BY <3>1, <3>2
  <2>4. call = "none"
    BY <2>1 DEF InModal
  <2> QED BY <1>7, <2>2, <2>3, <2>4 DEF ModalTakes, TimerFires
<1>8. CASE ModalEnds
  BY <1>8, <1>c DEF ModalEnds
<1>9. CASE HandleWorkMessage
  <2>1. /\ UNCHANGED <<depth, run, at, handling, modal, outer, lent, sending, posting>>
        /\ call = "replace" /\ call' \in {"work", "timerwork"}
    BY <1>9 DEF HandleWorkMessage, Calling, TimerFires
  <2>2. CASE modal = "task"
    BY <1>t, <2>1, <2>2
  <2>3. CASE modal # "task"
    BY <1>r, <2>1, <2>3 DEF Where
  <2> QED BY <2>2, <2>3
\* A task begins: no other loop is nested in one that is under way.
<1>10. ASSUME Busy', depth = 1, depth' = 1, ~Busy,
              UNCHANGED <<at, handling, native, sending, posting>>,
              In("work") \/ In("delayed") \/ call \in {"work", "timer", "timerwork"}
       PROVE  Where'
  BY <1>10, <1>r DEF Where, In, AtPhase
<1>11. CASE DoWork
  <2>0. /\ depth = 1 /\ UNCHANGED <<handling, modal, outer, lent, sending>>
        /\ In("work") \/ (call = "work" /\ (modal = "task" \/ ~Busy))
    BY <1>11, <1>r DEF DoWork, In, AtPhase, Calling, Where
  <2>1. CASE WorkDelays /\ UNCHANGED <<at, more, call>>
    BY <1>1, <2>0, <2>1 DEF WorkDelays, Where
  <2>2. CASE WorkRuns /\ UNCHANGED <<at, more, call, wake, timer>>
    <3>1. Busy' /\ depth' = 1 /\ nestable /\ posting' = posting
      BY <2>0, <2>2, TaskBegins DEF WorkRuns
    <3> QED BY <1>10, <2>0, <2>2, <3>1 DEF Plain
  <2>3. CASE WorkIsOver /\ UNCHANGED <<loopvars, more, wake, timer>>
    <3>1. CASE In("work")
      <4>1. UNCHANGED <<native, handling>>
        BY <1>11, <2>0, <2>3, <3>1 DEF DoWork, WorkDelays, WorkRuns, WorkIsOver, In, AtPhase
      <4> QED BY <1>3, <2>0, <2>3, <3>1, <4>1 DEF In, AtPhase
    <3>2. CASE call = "work" /\ (modal = "task" \/ ~Busy)
      <4>1. call' = "none" /\ UNCHANGED at
        BY <1>11, <2>3, <3>2 DEF DoWork, WorkDelays, WorkRuns, WorkIsOver
      <4>2. CASE modal = "task"
        BY <1>t, <2>0, <2>3, <4>1, <4>2
      <4>3. CASE modal # "task"
        BY <1>r, <2>0, <2>3, <3>2, <4>1, <4>3 DEF Where
      <4> QED BY <4>2, <4>3
    <3> QED BY <2>0, <3>1, <3>2
  <2> QED BY <1>11, <2>1, <2>2, <2>3 DEF DoWork
<1>12. ASSUME TimerHandled, call \in {"timer", "timerwork"}, depth = 1, depth' = 1, modal # "task",
              UNCHANGED <<handling, modal, outer, lent, sending, posting>>, ~Busy'
       PROVE  Where'
  <2>1. CASE modal = "no"
    <3>1. call = "timer" /\ ~handling /\ outer = Alone /\ ~lent
      BY <1>12, <2>1 DEF Where
    <3>2. call' = "none"
      BY <1>12, <3>1 DEF TimerHandled
    <3> QED BY <1>12, <2>1, <3>1, <3>2 DEF Where
  <2>2. CASE modal # "no"
    <3>1. call' \in {"none", "work"} /\ UNCHANGED at
      BY <1>12, <2>2 DEF TimerHandled
    <3> QED BY <1>12, <2>2, <3>1 DEF Where
  <2> QED BY <2>1, <2>2
<1>13. CASE DoDelayedWork
  <2>0. /\ depth = 1 /\ UNCHANGED <<handling, modal, outer, lent, sending>>
        /\ In("delayed") \/ (call \in {"timer", "timerwork"} /\ (modal = "task" \/ ~Busy))
    BY <1>13, <1>r DEF DoDelayedWork, In, AtPhase, Calling, Where
  <2>1. ASSUME DelayedWorkIsOver, UNCHANGED <<depth, run, posting>> PROVE Where'
    <3>1. CASE In("delayed")
      <4>1. UNCHANGED call
        BY <2>1, <3>1 DEF DelayedWorkIsOver, In, AtPhase
      <4> QED BY <1>3, <2>0, <2>1, <3>1, <4>1 DEF In, AtPhase
    <3>2. CASE call \in {"timer", "timerwork"} /\ (modal = "task" \/ ~Busy)
      <4>1. TimerHandled
        BY <2>1, <3>2 DEF DelayedWorkIsOver
      <4>2. CASE modal = "task"
        BY <1>t, <2>0, <2>1, <4>1, <4>2 DEF TimerHandled
      <4>3. CASE modal # "task"
        BY <1>12, <1>r, <2>0, <2>1, <3>2, <4>1, <4>3
      <4> QED BY <4>2, <4>3
    <3> QED BY <2>0, <3>1, <3>2
  <2>2. ASSUME NEW e \in delayed, DelayedRuns(e), UNCHANGED <<at, call>> PROVE Where'
    <3>1. Busy' /\ depth' = 1 /\ nestable /\ posting' = posting
      BY <2>0, <2>2, TaskBegins DEF DelayedRuns, IsDue
    <3> QED BY <1>10, <2>0, <2>2, <3>1 DEF Plain
  <2> QED BY <1>13, <2>1, <2>2 DEF DoDelayedWork, NoDelayedWork, NotYet
<1>14. CASE DoIdleWork
  BY <1>3, <1>14 DEF DoIdleWork, In, AtPhase
<1>15. CASE WakeUp \/ AttachedMouse
  BY <1>3, <1>15 DEF WakeUp, AttachedMouse, In, AtPhase
<1>16. CASE Starts
  <2>1. /\ depth = 0 /\ depth' = 1 /\ UNCHANGED <<uivars, posting>>
        /\ run' = [run EXCEPT ![1] = [task |-> 0, quit |-> FALSE, mark |-> 0]]
    <3>1. depth = 0 /\ depth + 1 = 1
      BY <1>16, <1>r, UiAssumption DEF Starts, EnterRun
    <3> QED BY <1>16, <3>1 DEF Starts, EnterRun
  <2>2. ~Busy'
    BY <2>1, OneRun DEF Busy
  <2> QED BY <2>1, <2>2 DEF Where
<1>17. CASE HandlerReturns
  <2>1. /\ modal = "no" /\ handling /\ ~lent' /\ ~handling'
        /\ UNCHANGED <<depth, run, modal, call, outer, sending, posting>>
    BY <1>17 DEF HandlerReturns
  <2>2. depth = 1 /\ ~Busy /\ call = "none" /\ outer = Alone
    BY <1>r, <2>1 DEF Where
  <2> QED BY <1>r, <2>1, <2>2 DEF Where
<1>18. CASE TaskEnds
  <2>0. /\ depth = 1 /\ depth' = 1 /\ Busy /\ ~Busy' /\ modal # "task" /\ outer = Alone
        /\ UNCHANGED <<handling, modal, outer, lent, sending, posting>>
    BY <1>18, <1>r DEF TaskEnds, TaskReturns, Where
  <2>2. CASE call = "none" /\ UNCHANGED call
    <3>1. modal = "no" /\ ~lent /\ ~handling
      BY <2>0, <2>2 DEF Where, TypeOK
    <3> QED BY <2>0, <2>2, <3>1 DEF Where
  <2>3. CASE call = "work" /\ call' = "none" /\ UNCHANGED at
    BY <1>r, <2>0, <2>3 DEF Where
  <2>4. CASE call \in {"timer", "timerwork"} /\ TimerHandled
    BY <1>12, <2>0, <2>4
  <2> QED BY <1>18, <2>2, <2>3, <2>4 DEF TaskEnds, WorkMessageDone
<1>19. CASE UNCHANGED vars
  BY <1>1, <1>19 DEF Where
<1> QED
  BY <1>2, <1>4, <1>5, <1>6, <1>7, <1>8, <1>9, <1>11, <1>13, <1>14, <1>15, <1>16, <1>17, <1>18,
     <1>19, <1>20, <1>21, <1>22 DEF Next, Pumps, Loops

\* The steps of messages, windows and system loops leave the tasks alone.
Unmoved ==
  \/ Input \/ TakesSent \/ AttachedMouse \/ TakesMessage \/ Replaces
  \/ OpensModal \/ ModalTakes \/ ModalEnds \/ HandleWorkMessage
  \/ DoIdleWork \/ WakeUp \/ ProgramQuits \/ HandlerReturns

LEMMA UnmovedIs == Unmoved => UNCHANGED loopvars
<1>1. CASE Input \/ TakesSent \/ AttachedMouse \/ TakesMessage \/ Replaces
  BY <1>1 DEF Input, TakesSent, AttachedMouse, TakesMessage, Replaces
<1>2. CASE OpensModal \/ ModalTakes \/ ModalEnds \/ HandleWorkMessage
  BY <1>2 DEF OpensModal, ModalTakes, ModalEnds, HandleWorkMessage
<1>3. CASE DoIdleWork \/ WakeUp \/ ProgramQuits \/ HandlerReturns
  BY <1>3 DEF DoIdleWork, WakeUp, ProgramQuits, HandlerReturns
<1> QED BY <1>1, <1>2, <1>3 DEF Unmoved

\* What a step does to the queues, ...
LEMMA QueueSteps ==
  ASSUME Plain, [Next]_vars
  PROVE  QueueStep
<1> USE DEF QueueStep
<1>1. stage = "open"
  BY DEF Plain
<1>2. CASE Post \/ ProgramPosts
  BY <1>2 DEF Post, ProgramPosts, Posted
<1>3. CASE DoWork
  BY <1>1, <1>3 DEF DoWork
<1>4. CASE DoDelayedWork
  BY <1>1, <1>4 DEF DoDelayedWork
<1>5. CASE Clock
  BY <1>5 DEF Clock
<1>6. CASE SwapFlag \/ SendFlag \/ Breaks
  BY <1>6 DEF SwapFlag, SendFlag, Breaks
<1>7. CASE Unmoved
  BY <1>7, UnmovedIs
<1>8. CASE Starts \/ TaskEnds
  BY <1>8 DEF Starts, EnterRun, TaskEnds, TaskReturns
<1>9. CASE UNCHANGED vars
  BY <1>9
<1> HIDE DEF QueueStep
<1> QED BY <1>2, <1>3, <1>4, <1>5, <1>6, <1>7, <1>8, <1>9 DEF Next, Pumps, Loops, Unmoved

LEMMA QueuesStep ==
  ASSUME TypeOK, Where, Plain, QueuesInOrder, QueuesHold, [Next]_vars
  PROVE  QueuesInOrder' /\ QueuesHold'
<1>1. LoopTypeOK /\ LoopTypeOK'
  BY TypeStep DEF TypeOK
<1> QED BY <1>1, QueueSteps, QueueOrder, QueueHold

\* ... and to the tasks that are pending: they all come in turn, in the only run.
LEMMA PlainStep ==
  ASSUME TypeOK, Where, Plain, QueuesInOrder, QueuesHold, [Next]_vars
  PROVE  Plain'
<1>r. /\ UNCHANGED <<depth, run>> => (Busy' <=> Busy)
      /\ depth' = 0 => ~Busy'
      /\ depth = 1 /\ depth' = 1 /\ run' = [run EXCEPT ![1].task = 0] => ~Busy'
      /\ depth \in {0, 1} /\ (Working => depth = 1 /\ ~Busy) /\ (Busy => depth = 1)
      /\ LoopTypeOK /\ (depth = 1 => depth \in Runs)
  BY OneRun, RunThen DEF TypeOK
<1>1. ASSUME UNCHANGED <<nestable, stage, deferred>>, Busy' <=> Busy, Pending' \subseteq Pending
      PROVE  Plain'
  BY <1>1 DEF Plain
<1>2. CASE Post \/ ProgramPosts
  <2>1. PICK t \in Posted : AddToIncomingQueue(t)
    BY <1>2 DEF Post, ProgramPosts
  <2>2. Pending' = Pending \cup {t} /\ UNCHANGED <<depth, run, nestable, stage, deferred>>
    BY <1>r, <2>1, PostPends DEF AddToIncomingQueue, Posted
  <2> QED BY <1>r, <2>1, <2>2 DEF Plain, Posted
<1>3. CASE UNCHANGED <<incoming, work, deferred, delayed, nestable, stage, depth, run>>
  BY <1>1, <1>3, <1>r DEF Pending
<1>4. CASE SwapFlag \/ SendFlag \/ Clock
  BY <1>3, <1>4 DEF SwapFlag, SendFlag, Clock, Tick
<1>5. CASE Unmoved
  BY <1>3, <1>5, UnmovedIs
<1>6. CASE Breaks
  <2>1. PICK p : AtPhase(p)
    BY <1>6 DEF Breaks
  <2>2. ~Busy
    BY <2>1, AloneIn
  <2> QED BY <1>1, <1>6, <1>r, <2>2 DEF Breaks, Pending
<1>10. CASE DoWork
  <2>1. depth = 1
    BY <1>10, <1>r DEF DoWork, In, AtPhase, Calling, Where
  <2>2. CASE WorkDelays
    <3>1. Pending' = Pending /\ UNCHANGED <<depth, run, nestable, stage, deferred>>
      BY <1>r, <2>1, <2>2, WorkTakesUp DEF Unseen, WorkDelays
    <3> QED BY <1>1, <1>r, <3>1
  <2>3. CASE WorkRuns
    <3>1. /\ Pending' \subseteq Pending /\ UNCHANGED <<stage, deferred>>
          /\ Busy' /\ ~nestable'
      BY <1>r, <2>1, <2>3, WorkTakesUp, TaskBegins DEF TakesUp, WorkRuns
    <3> QED BY <3>1 DEF Plain
  <2>4. CASE UNCHANGED loopvars
    BY <1>3, <2>4
  <2> QED BY <1>10, <2>2, <2>3, <2>4 DEF DoWork
<1>11. CASE DoDelayedWork
  <2>1. depth = 1
    BY <1>11, <1>r DEF DoDelayedWork, In, AtPhase, Calling, Where
  <2>2. ASSUME NoDelayedWork \/ \E e \in delayed : NotYet(e) PROVE Plain'
    BY <1>3, <2>2 DEF NoDelayedWork, NotYet
  <2>3. ASSUME NEW e \in delayed, DelayedRuns(e) PROVE Plain'
    <3>1. /\ Pending' \subseteq Pending /\ UNCHANGED <<stage, deferred>>
          /\ Busy' /\ ~nestable'
      BY <1>r, <2>1, <2>3, DelayedTakesUp, TaskBegins DEF TakesUp, DelayedRuns, IsDue
    <3> QED BY <3>1 DEF Plain
  <2> QED BY <1>11, <2>2, <2>3 DEF DoDelayedWork
<1>12. CASE Starts
  <2>1. /\ depth = 0 /\ depth' = 1 /\ ~Busy
        /\ run' = [run EXCEPT ![1] = [task |-> 0, quit |-> FALSE, mark |-> 0]]
        /\ UNCHANGED <<incoming, work, deferred, delayed, nestable, stage>>
    <3>1. depth = 0 /\ depth + 1 = 1
      BY <1>12, <1>r, UiAssumption DEF Starts, EnterRun
    <3> QED BY <1>12, <1>r, <3>1 DEF Starts, EnterRun
  <2>2. ~Busy'
    BY <2>1, OneRun DEF Busy
  <2> QED BY <1>1, <2>1, <2>2 DEF Pending
<1>13. CASE TaskEnds
  <2>1. /\ nestable' /\ UNCHANGED <<incoming, work, deferred, delayed, stage>> /\ depth = 1
    BY <1>13, <1>r DEF TaskEnds, TaskReturns
  <2>2. ~Busy'
    BY <1>13, <1>r, <2>1 DEF TaskEnds
  <2> QED BY <2>1, <2>2 DEF Plain, Pending
<1>14. CASE UNCHANGED vars
  BY <1>3, <1>14
<1> QED
  BY <1>2, <1>4, <1>5, <1>6, <1>10, <1>11, <1>12, <1>13, <1>14 DEF Next, Pumps, Loops, Unmoved

\* A step sets the time to sleep until.
LEMMA WakeStep ==
  ASSUME TypeOK, Where, Plain, QueuesInOrder, QueuesHold, WakeInTime, [Next]_vars
  PROVE  WakeInTime'
<1> SUFFICES ASSUME at' \in {"idle", "asleep"}, NEW e \in delayed'
             PROVE  wake' # 0 /\ wake' <= e.task.due
  BY DEF WakeInTime
<1>1. ASSUME at \in {"idle", "asleep"}, UNCHANGED <<delayed, wake>>
      PROVE  wake' # 0 /\ wake' <= e.task.due
  BY <1>1 DEF WakeInTime
<1>0. ASSUME at \in {"idle", "asleep"}
      PROVE  AtPhase(at) /\ Working /\ call = "none" /\ ~handling /\ ~InModal /\ ~InProgram
  BY <1>0, AloneAt, AloneIn DEF AtPhase
<1>2. CASE DoDelayedWork
  <2>1. at \notin {"idle", "asleep"}
    BY <1>0, <1>2 DEF DoDelayedWork, In, AtPhase, Calling
  <2>2. call = "none" /\ Working /\ ~Busy
    BY <1>2, <2>1
       DEF DoDelayedWork, DelayedWorkIsOver, TimerHandled, Taken, In, AtPhase, Calling, Working,
           Busy
  <2>3. CASE NoDelayedWork
    BY <2>2, <2>3 DEF NoDelayedWork, Plain
  <2>4. ASSUME NEW f \in delayed, NotYet(f), wake' = f.task.due
        PROVE  wake' # 0 /\ wake' <= e.task.due
    <3>1. e \in delayed /\ IsTop(f)
      BY <2>4 DEF NotYet
    <3>2. e.task.due \in Nat /\ f.task.due \in Nat
      BY <3>1, LoopAssumption DEF TypeOK, LoopTypeOK, Task
    <3> QED BY <2>4, <3>1, <3>2 DEF IsTop, Earlier, QueuesHold
  <2> QED BY <1>2, <2>1, <2>3, <2>4 DEF DoDelayedWork
<1>3. CASE DoWork
  <2>1. at' \in {at, "delayed"} /\ at \notin {"idle", "asleep"}
    BY <1>0, <1>3 DEF DoWork, In, AtPhase, Calling
  <2> QED BY <2>1
<1>4. CASE Post \/ SwapFlag \/ SendFlag \/ Input \/ Clock \/ ProgramPosts \/ ProgramQuits
  <2>1. UNCHANGED <<delayed, wake>>
    BY <1>4 DEF Post, AddToIncomingQueue, SwapFlag, SendFlag, Input, Clock, Tick, ProgramPosts,
                ProgramQuits
  <2>2. at' \in {at, "message"}
    BY <1>4 DEF Post, AddToIncomingQueue, SwapFlag, SendFlag, Input, Clock, ProgramPosts,
                ProgramQuits, Arrives
  <2> QED BY <1>1, <2>1, <2>2
<1>5. CASE OpensModal \/ ModalTakes \/ ModalEnds \/ HandleWorkMessage \/ DoIdleWork
  <2>1. UNCHANGED <<delayed, wake>> /\ (at' = at \/ at = "idle")
    BY <1>5 DEF OpensModal, ModalTakes, ModalEnds, HandleWorkMessage, DoIdleWork, In, AtPhase
  <2> QED BY <1>1, <2>1
<1>6. CASE TakesMessage \/ Replaces \/ TakesSent \/ Breaks \/ WakeUp \/ AttachedMouse
  <2>1. at' \in {"sent", "replace", "message", "work", "waiting"}
    BY <1>6 DEF TakesMessage, Taken, Replaces, TakesSent, Breaks, WakeUp, AttachedMouse, In, AtPhase
  <2> QED BY <2>1
<1>7. CASE HandlerReturns
  <2>1. at' \in {"sent", "work"}
    BY <1>7 DEF HandlerReturns, Taken
  <2> QED BY <2>1
<1>8. CASE Starts \/ TaskEnds
  <2>1. UNCHANGED <<delayed, wake>> /\ at' \in {at, "delayed", "message", "work"}
    BY <1>8 DEF Starts, EnterRun, TaskEnds, TaskReturns, TimerHandled, Taken
  <2> QED BY <1>1, <2>1
<1>9. CASE UNCHANGED vars
  BY <1>1, <1>9
<1> QED BY <1>2, <1>3, <1>4, <1>5, <1>6, <1>7, <1>8, <1>9 DEF Next, Pumps, Loops

LEMMA InitIInv == Init => IInv
<1> SUFFICES ASSUME Init PROVE IInv
  OBVIOUS
<1>1. LoopTypeOK /\ QueuesInOrder /\ QueuesHold /\ Pending = {}
  BY QueueInit DEF Init
<1>2. TypeOK
  <2>1. <<>> \in Seq({"work", "other"}) /\ Len(<<>>) = 0
    OBVIOUS
  <2>2. {haveWork, sending, quitMsg, more, shouldQuit, handling, lent} \subseteq BOOLEAN
    BY DEF Init
  <2>3. 0 \in 0..MaxTime /\ 0 <= QueueSize
    BY LoopAssumption, UiAssumption
  <2>4. outer \in {"no", "handler"} \X {"none", "work", "timer", "timerwork"}
    BY DEF Init, Alone
  <2> QED BY <1>1, <2>1, <2>2, <2>3, <2>4 DEF Init, TypeOK
<1>3. depth = 0 /\ run[1] = Fresh
  BY UiAssumption DEF Init, InitLoop, Runs
<1>4. Where
  BY <1>3 DEF Init, Where, OwnModal, OwnCall, Busy
<1>5. Plain
  BY <1>1, <1>3 DEF Init, InitLoop, Plain, Busy
<1>6. WakeInTime
  BY DEF Init, InitLoop, WakeInTime
<1> QED BY <1>1, <1>2, <1>4, <1>5, <1>6 DEF IInv

LEMMA NextIInv == IInv /\ [Next]_vars => IInv'
BY TypeStep, WhereStep, PlainStep, QueuesStep, WakeStep DEF IInv

\* The thread is where Where says, the queues are in order, and the sleep is not
\* set beyond a delayed task.
THEOREM Invariance == Spec => []IInv
BY InitIInv, NextIInv, PTL DEF Spec

\* Every variable keeps its type, and the queue of messages its size.
THEOREM TypeCorrect == Spec => []TypeOK
<1>1. IInv => TypeOK
  BY DEF IInv
<1> QED BY <1>1, Invariance, PTL

-----------------------------------------------------------------------------
(* The loop implements TaskQueue                                           *)

LEMMA RefinementInit == Init => Queue!Init
<1> SUFFICES ASSUME Init PROVE Queue!Init
  OBVIOUS
<1>1. Pending = {}
  BY QueueInit DEF Init
<1>2. Held = [d \in Runs |-> 0]
  BY DEF Init, InitLoop, Fresh, Held
<1> QED BY <1>1, <1>2 DEF Init, InitLoop, Queue!Init, Queue!Runs, Runs, Held

\* Starting a task that is in turn is TaskQueue's Start.
LEMMA StartsInTurn ==
  ASSUME TypeOK, depth = 1, ~Busy, NEW t, TakesUp(t)
  PROVE  [Queue!Next]_Queue!tqvars
<1>1. depth > 0 /\ Held[depth] = 0
  BY OneRun DEF Held
<1>2. Queue!Start(t) /\ t \in Task
  BY <1>1 DEF TakesUp, Queue!Start, Queue!InTurn, Queue!Busy, Held, MayRun
<1> QED BY <1>2 DEF Queue!Next, Queue!Task, Task

\* Every step of the pump is a step of the abstract queue, or none.
LEMMA RefinementStep == IInv /\ [Next]_vars => [Queue!Next]_Queue!tqvars
<1> SUFFICES ASSUME IInv, [Next]_vars PROVE [Queue!Next]_Queue!tqvars
  OBVIOUS
<1>t. TypeOK /\ LoopTypeOK /\ QueuesInOrder /\ QueuesHold /\ Where /\ Plain
  BY DEF IInv, TypeOK
<1>s. ASSUME UNCHANGED <<posted, now, depth, run>>, Pending' = Pending
      PROVE  [Queue!Next]_Queue!tqvars
  BY <1>s DEF Queue!tqvars
<1>k. UNCHANGED <<incoming, work, deferred, delayed>> => Pending' = Pending
  BY DEF Pending
<1>r. /\ depth \in {0, 1} /\ (Working => depth = 1 /\ ~Busy) /\ (Busy => depth = 1)
      /\ (depth = 1 => depth \in Runs) /\ run \in [{1} -> Run] /\ Held = [d \in {1} |-> run[d].task]
      /\ Held' = [d \in {1} |-> run'[d].task]
      /\ depth = 1 /\ ~Busy => Held[1] = 0 /\ ~Queue!Busy
  BY <1>t, OneRun DEF LoopTypeOK, Held, Queue!Busy
<1>1. CASE Post \/ ProgramPosts
  <2>1. PICK t \in NewTasks : AddToIncomingQueue(t)
    BY <1>1 DEF Post, ProgramPosts, Posted
  <2>2. Queue!Post(t) /\ t \in Task
    BY <1>t, <2>1, PostPends DEF Queue!Post, NewTasks
  <2> QED BY <2>2 DEF Queue!Next, Queue!Task, Task
<1>2. CASE DoWork
  <2>1. depth = 1
    BY <1>2, <1>r, <1>t DEF DoWork, In, AtPhase, Calling, Where
  <2>2. CASE WorkDelays
    BY <1>r, <1>s, <1>t, <2>1, <2>2, WorkTakesUp DEF Unseen
  <2>3. CASE WorkRuns
    <3>1. ~Busy
      BY <1>t, <2>3 DEF WorkRuns, Plain
    <3> QED BY <1>r, <1>t, <2>1, <2>3, <3>1, WorkTakesUp, StartsInTurn
  <2>4. CASE UNCHANGED loopvars
    BY <1>k, <1>s, <2>4
  <2> QED BY <1>2, <2>2, <2>3, <2>4 DEF DoWork
<1>3. CASE DoDelayedWork
  <2>1. depth = 1
    BY <1>3, <1>r, <1>t DEF DoDelayedWork, In, AtPhase, Calling, Where
  <2>2. CASE NoDelayedWork
    BY <1>k, <1>s, <2>2 DEF NoDelayedWork
  <2>3. ASSUME NEW e \in delayed, NotYet(e) PROVE [Queue!Next]_Queue!tqvars
    BY <1>k, <1>s, <2>3 DEF NotYet
  <2>4. ASSUME NEW e \in delayed, DelayedRuns(e) PROVE [Queue!Next]_Queue!tqvars
    <3>1. ~Busy
      BY <1>t, <2>4 DEF DelayedRuns, IsDue, Plain
    <3> QED BY <1>r, <1>t, <2>1, <2>4, <3>1, DelayedTakesUp, StartsInTurn
  <2> QED BY <1>3, <2>2, <2>3, <2>4 DEF DoDelayedWork
<1>4. CASE Breaks
  <2>1. PICK p : AtPhase(p)
    BY <1>4 DEF Breaks
  <2>2. depth = 1 /\ ~Busy
    BY <1>t, <2>1, AloneIn
  <2>3. depth' = 0 /\ run' = [run EXCEPT ![1] = Fresh] /\ UNCHANGED <<posted, now>>
    BY <1>4 DEF Breaks
  <2>4. Held' = Held
    BY <1>r, <2>2, <2>3 DEF Fresh
  <2>5. Pending' = Pending
    BY <1>4, <1>k DEF Breaks
  <2>6. Queue!Leave
    BY <1>r, <2>2, <2>3, <2>4, <2>5 DEF Queue!Leave, Held
  <2> QED BY <2>6 DEF Queue!Next
<1>8. CASE Starts
  <2>1. /\ depth = 0 /\ depth' = depth + 1 /\ depth < MaxDepth
        /\ run' = [run EXCEPT ![1] = [task |-> 0, quit |-> FALSE, mark |-> 0]]
        /\ UNCHANGED <<incoming, work, deferred, delayed, posted, now>>
    <3>1. depth = 0 /\ depth + 1 = 1 /\ depth < MaxDepth
      BY <1>8, <1>r, UiAssumption DEF Starts, EnterRun
    <3> QED BY <1>8, <3>1 DEF Starts, EnterRun
  <2>2. run[1].task = 0
    BY <1>t, <2>1 DEF Where, Fresh
  <2>3. Held' = Held
    BY <1>r, <2>1, <2>2
  <2>4. Queue!Enter
    BY <1>k, <2>1, <2>3 DEF Queue!Enter, Held
  <2> QED BY <2>4 DEF Queue!Next
<1>9. CASE TaskEnds
  <2>1. /\ UNCHANGED <<incoming, work, deferred, delayed, posted, now>> /\ depth = 1 /\ Busy
    BY <1>9, <1>r DEF TaskEnds, TaskReturns
  <2>2. run' = [run EXCEPT ![1].task = 0] /\ depth' = depth
    BY <1>9 DEF TaskEnds
  <2>3. Held' = [Held EXCEPT ![1] = 0] /\ Held[1] # 0
    <3>1. Held[1] # 0
      BY <1>r, <1>t, <2>1, OneRun
    <3> QED BY <1>r, <2>2, <3>1 DEF Run
  <2>4. Queue!Finish
    BY <1>k, <2>1, <2>2, <2>3 DEF Queue!Finish, Queue!Busy, Held
  <2> QED BY <2>4 DEF Queue!Next
<1>10. CASE Clock
  <2>1. Queue!Tick
    BY <1>10, <1>k DEF Clock, Tick, Queue!Tick
  <2> QED BY <2>1 DEF Queue!Next
<1>11. CASE SwapFlag \/ SendFlag
  BY <1>11, <1>k, <1>s DEF SwapFlag, SendFlag
<1>12. CASE Unmoved
  BY <1>12, <1>k, <1>s, UnmovedIs
<1>13. CASE UNCHANGED vars
  BY <1>13, <1>k, <1>s
<1> QED
  BY <1>1, <1>2, <1>3, <1>4, <1>8, <1>9, <1>10, <1>11, <1>12, <1>13
     DEF Next, Pumps, Loops, Unmoved

\* Whatever system loops are open, tasks start at most once, not before their
\* time, in the order they were posted, and never inside one another: the UI
\* thread's loop implements TaskQueue too.
THEOREM Refinement == Spec => Implements
<1>1. Spec => []IInv
  BY Invariance
<1> QED BY <1>1, RefinementInit, RefinementStep, PTL DEF Spec, Implements, Queue!Spec

-----------------------------------------------------------------------------
(* While there is room for messages                                        *)

\* A message queue that the other messages cannot fill (Windows keeps 10,000).
Roomy == MaxInput < QueueSize

Has(q)  == \E i \in DOMAIN q : q[i] = "work"
Once(q) == \A i, j \in DOMAIN q : q[i] = "work" /\ q[j] = "work" => i = j

\* There is always room for the announcement.
Room == Len(msgs) <= MaxInput + 1 /\ (~Queued => Len(msgs) <= MaxInput)

\* DoWork has left no task, and done nothing since.
Looked == (AtPhase("delayed") /\ ~more) \/ at \in {"idle", "asleep", "waiting"}

\* What came in since then is announced.
NothingMissed == Looked => work = <<>> /\ (incoming # <<>> => posting \/ Queued)

\* So is what there is, since a message was taken in the place of the
\* announcement, but for as long as the next one is in hand.
Served ==
  lent /\ modal # "task" /\ call \in {"none", "timer"} => (Loaded # <<>> => posting \/ Queued)

MInv == Room /\ OneMessage /\ NothingMissed /\ Served

LEMMA HasAppend ==
  ASSUME NEW q \in Seq(Kinds), NEW k \in Kinds
  PROVE  /\ Has(Append(q, k)) <=> Has(q) \/ k = "work"
         /\ Once(q) /\ (k = "work" => ~Has(q)) => Once(Append(q, k))
<1>1. /\ DOMAIN Append(q, k) = 1..(Len(q) + 1) /\ DOMAIN q = 1..Len(q) /\ Len(q) \in Nat
      /\ \A i \in 1..Len(q) : Append(q, k)[i] = q[i]
      /\ Append(q, k)[Len(q) + 1] = k
  OBVIOUS
<1>2. \A i \in 1..(Len(q) + 1) : i \in 1..Len(q) \/ i = Len(q) + 1
  BY <1>1
<1>3. 1..Len(q) \subseteq 1..(Len(q) + 1) /\ Len(q) + 1 \in 1..(Len(q) + 1)
  BY <1>1
<1>4. Has(Append(q, k)) <=> Has(q) \/ k = "work"
  BY <1>1, <1>2, <1>3 DEF Has
<1>5. ASSUME Once(q), k = "work" => ~Has(q) PROVE Once(Append(q, k))
  BY <1>1, <1>2, <1>5 DEF Once, Has
<1> QED BY <1>4, <1>5

LEMMA HasTail ==
  ASSUME NEW q \in Seq(Kinds), q # <<>>, Once(q)
  PROVE  /\ Once(Tail(q))
         /\ Head(q) = "work" => Has(q) /\ ~Has(Tail(q))
         /\ Head(q) # "work" => (Has(Tail(q)) <=> Has(q))
<1>1. /\ Len(Tail(q)) = Len(q) - 1 /\ Len(q) \in Nat \ {0} /\ Head(q) = q[1]
      /\ \A i \in 1..Len(Tail(q)) : i + 1 \in 1..Len(q) /\ Tail(q)[i] = q[i + 1]
      /\ Tail(q) \in Seq(Kinds)
  BY TailFacts
<1>2. DOMAIN Tail(q) = 1..Len(Tail(q)) /\ DOMAIN q = 1..Len(q) /\ 1 \in DOMAIN q
  BY <1>1
<1>3. ASSUME NEW i \in DOMAIN Tail(q)
      PROVE  i + 1 \in DOMAIN q /\ Tail(q)[i] = q[i + 1] /\ i + 1 # 1 /\ i \in Nat
  BY <1>1, <1>2
<1>4. ASSUME NEW i \in DOMAIN q, i # 1
      PROVE  i - 1 \in DOMAIN Tail(q) /\ Tail(q)[i - 1] = q[i]
  <2>1. i - 1 \in 1..Len(Tail(q)) /\ (i - 1) + 1 = i
    BY <1>1, <1>2, <1>4
  <2>2. Tail(q)[i - 1] = q[(i - 1) + 1]
    BY <1>1, <2>1
  <2> QED BY <1>2, <2>1, <2>2
<1>5. Once(Tail(q))
  <2> SUFFICES ASSUME NEW i \in DOMAIN Tail(q), NEW j \in DOMAIN Tail(q),
                      Tail(q)[i] = "work", Tail(q)[j] = "work"
               PROVE  i = j
    BY DEF Once
  <2>1. i + 1 = j + 1
    BY <1>3 DEF Once
  <2> QED BY <1>3, <2>1
<1>6. ASSUME Head(q) = "work" PROVE Has(q) /\ ~Has(Tail(q))
  BY <1>1, <1>2, <1>3, <1>6 DEF Has, Once
<1>7. ASSUME Head(q) # "work" PROVE Has(Tail(q)) <=> Has(q)
  BY <1>1, <1>2, <1>3, <1>4, <1>7 DEF Has
<1> QED BY <1>5, <1>6, <1>7

\* Input is limited: with fewer than MaxInput other messages and one
\* announcement at most, there are no more than MaxInput messages.
LEMMA InputFits ==
  ASSUME TypeOK, Once(msgs), Cardinality({i \in DOMAIN msgs : msgs[i] = "other"}) < MaxInput
  PROVE  Len(msgs) <= MaxInput /\ (~Queued => Len(msgs) < MaxInput)
<1> DEFINE others == {i \in DOMAIN msgs : msgs[i] = "other"}
<1>1. /\ DOMAIN msgs = 1..Len(msgs) /\ Len(msgs) \in Nat /\ MaxInput \in Nat
      /\ \A i \in DOMAIN msgs : msgs[i] \in {"work", "other"}
  BY UiAssumption DEF TypeOK
<1>2. IsFiniteSet(1..Len(msgs)) /\ Cardinality(1..Len(msgs)) = Len(msgs)
  <2>1. ASSUME NEW n \in Nat PROVE IsFiniteSet(1..n) /\ Cardinality(1..n) = n
    <3>1. IsFiniteSet(1..n) /\ Cardinality(1..n) = IF 1 > n THEN 0 ELSE n - 1 + 1
      <4>1. 1 \in Int /\ n \in Int
        OBVIOUS
      <4> QED BY <4>1, FS_Interval, Zenon
    <3> QED BY <3>1
  <2> QED BY <1>1, <2>1
<1>0. Cardinality(others) < MaxInput
  OBVIOUS
<1>3. CASE ~Queued
  <2>1. others = 1..Len(msgs)
    BY <1>1, <1>3 DEF Queued
  <2> HIDE DEF others
  <2> QED BY <1>0, <1>1, <1>2, <1>3, <2>1
<1>4. CASE Queued
  <2>1. PICK w \in DOMAIN msgs : msgs[w] = "work"
    BY <1>4 DEF Queued
  <2>2. others = (1..Len(msgs)) \ {w}
    BY <1>1, <2>1 DEF Once
  <2>3. Cardinality(others) = Len(msgs) - 1
    BY <1>1, <1>2, <2>1, <2>2, FS_RemoveElement
  <2> HIDE DEF others
  <2> QED BY <1>0, <1>1, <1>4, <2>3
<1> QED BY <1>3, <1>4

-----------------------------------------------------------------------------
(* Steps of the messages                                                   *)

LEMMA WaitingForWork == Waiting("work") <=> msgs # <<>> /\ Head(msgs) = "work"
BY DEF Waiting

\* A message is taken, ...
LEMMA MsgTaken ==
  ASSUME TypeOK, Room, OneMessage, msgs' = Rest
  PROVE  /\ Room' /\ Once(msgs)'
         /\ Waiting("work") => Queued /\ ~Queued'
         /\ ~Waiting("work") => (Queued' <=> Queued)
<1>1. msgs \in Seq(Kinds) /\ Len(msgs) \in Nat /\ MaxInput \in Nat /\ Once(msgs)
  BY UiAssumption DEF TypeOK, Kinds, OneMessage, Once
<1>2. (Queued <=> Has(msgs)) /\ (Queued' <=> Has(msgs'))
  BY DEF Queued, Has
<1>3. CASE msgs = <<>>
  BY <1>1, <1>3, WaitingForWork DEF Rest, Room, Queued
<1>4. CASE msgs # <<>>
  <2>1. msgs' = Tail(msgs) /\ Len(msgs') = Len(msgs) - 1
    BY <1>1, <1>4 DEF Rest
  <2>2. /\ Once(msgs')
        /\ Head(msgs) = "work" => Queued /\ ~Queued'
        /\ Head(msgs) # "work" => (Queued' <=> Queued)
    BY <1>1, <1>2, <1>4, <2>1, HasTail
  <2>3. Room'
    BY <1>1, <2>1, <2>2 DEF Room
  <2> QED BY <1>4, <2>2, <2>3, WaitingForWork
<1> QED BY <1>3, <1>4

\* ... or the announcement posted: alone, and not in vain.
LEMMA MsgPosted ==
  ASSUME Roomy, TypeOK, NEW q \in Seq(Kinds), Len(q) <= MaxInput, ~Has(q), Once(q),
         msgs' = IF Len(q) < QueueSize THEN Append(q, "work") ELSE q
  PROVE  Room' /\ Once(msgs)' /\ Queued'
<1>1. Len(q) \in Nat /\ MaxInput \in Nat /\ QueueSize \in Nat /\ "work" \in Kinds
  BY UiAssumption DEF Kinds
<1>2. msgs' = Append(q, "work") /\ Len(msgs') = Len(q) + 1
  BY <1>1 DEF Roomy
<1>3. Has(msgs') /\ Once(msgs')
  BY <1>1, <1>2, HasAppend
<1>4. Queued'
  BY <1>3 DEF Has, Queued
<1> QED BY <1>1, <1>2, <1>3, <1>4 DEF Room

LEMMA Posts ==
  ASSUME Roomy, TypeOK, Room, OneMessage, ~Queued, PostMsg("work")
  PROVE  Room' /\ Once(msgs)' /\ Queued'
<1>1. msgs \in Seq(Kinds) /\ Len(msgs) <= MaxInput /\ ~Has(msgs) /\ Once(msgs)
  BY DEF TypeOK, Kinds, Room, OneMessage, Once, Queued, Has
<1> QED BY <1>1, MsgPosted DEF PostMsg

LEMMA Replacement ==
  ASSUME Roomy, TypeOK, Room, OneMessage, InHand, Announced
  PROVE  /\ Room' /\ Once(msgs)' /\ (haveWork' <=> Queued') /\ haveWork' \in BOOLEAN
         /\ ~Waiting("none") => Queued'
<1>1. ~Queued /\ Once(msgs) /\ msgs \in Seq(Kinds)
  BY DEF OneMessage, Once, TypeOK, Kinds
<1>2. CASE Waiting("none") /\ haveWork' = FALSE /\ UNCHANGED msgs
  BY <1>1, <1>2 DEF Room, Queued, Once
<1>3. CASE /\ ~Waiting("none") /\ haveWork' = TRUE
           /\ msgs' = IF Len(Rest) < QueueSize THEN Append(Rest, "work") ELSE Rest
  <2>1. Rest \in Seq(Kinds) /\ Len(Rest) <= MaxInput /\ ~Has(Rest) /\ Once(Rest)
    <3>1. CASE msgs = <<>>
      BY <1>1, <3>1, UiAssumption DEF Rest, Has, Once, Queued
    <3>2. CASE msgs # <<>>
      <4>1. /\ Rest = Tail(msgs) /\ Rest \in Seq(Kinds) /\ Len(Rest) = Len(msgs) - 1
            /\ Len(msgs) \in Nat /\ Len(msgs) <= MaxInput /\ MaxInput \in Nat
        BY <1>1, <3>2, UiAssumption DEF Rest, Room
      <4>2. Once(Rest) /\ ~Has(Rest)
        BY <1>1, <3>2, <4>1, HasTail DEF Queued, Has
      <4> QED BY <4>1, <4>2
    <3> QED BY <3>1, <3>2
  <2> QED BY <1>3, <2>1, MsgPosted
<1> QED BY <1>2, <1>3 DEF Announced

\* By the UI thread itself, with no announcement in hand.
LEMMA Schedules ==
  ASSUME Roomy, TypeOK, Room, OneMessage, ~InHand, ScheduleWork
  PROVE  Room' /\ Once(msgs)' /\ haveWork' /\ (Queued' \/ sending) /\ ~(Queued' /\ sending)
<1>1. CASE haveWork
  BY <1>1 DEF ScheduleWork, Room, OneMessage, Once, Queued
<1>2. CASE ~haveWork
  <2>1. PostMsg("work") /\ haveWork' /\ ~Queued /\ ~sending
    BY <1>2 DEF ScheduleWork, OneMessage
  <2> QED BY <2>1, Posts
<1> QED BY <1>1, <1>2

\* No announcement is in hand where the program posts a task or ends one.
LEMMA NotInHand ==
  ASSUME TypeOK, Where, InProgram
  PROVE  ~InHand
<1>1. at # "replace"
  BY AloneAt, AloneIn
<1>2. call # "replace"
  BY DEF Where, OwnModal, OwnCall, InProgram, TypeOK
<1> QED BY <1>1, <1>2 DEF InHand

\* The flag is up exactly for the one announcement there is.
LEMMA OneStep ==
  ASSUME Roomy, TypeOK, Where, Room, OneMessage, [Next]_vars
  PROVE  Room' /\ OneMessage'
<1>r. at = "replace" => call = "none" /\ ~handling /\ ~InModal /\ ~InProgram
  BY AloneAt, AloneIn
<1>a. Arrives => (at' = "replace" <=> at = "replace")
  BY DEF Arrives
<1>o. ASSUME Once(msgs)', haveWork' <=> (Queued' \/ InHand' \/ sending'),
             ~(Queued' /\ InHand'), ~(Queued' /\ sending'), ~(InHand' /\ sending'),
             ~(at' = "replace" /\ call' = "replace")
      PROVE  OneMessage'
  BY <1>o DEF OneMessage, Once
<1>1. ASSUME UNCHANGED <<msgs, haveWork, sending>>, at' = "replace" <=> at = "replace",
             call' = "replace" <=> call = "replace"
      PROVE  Room' /\ OneMessage'
  BY <1>1 DEF Room, OneMessage, Queued, InHand
<1>2. CASE Post \/ ProgramQuits \/ Starts \/ UNCHANGED vars
  BY <1>1, <1>2 DEF Post, ProgramQuits, Starts
<1>16. CASE Clock
  BY <1>1, <1>16, <1>a DEF Clock
<1>17. CASE OpensModal
  <2>1. call # "replace" /\ call' # "replace" /\ UNCHANGED <<msgs, haveWork, sending, at>>
    BY <1>17, NotInHand DEF OpensModal, InHand
  <2> QED BY <1>1, <2>1
<1>c. Closes => call' # "replace"
  BY DEF Closes, TypeOK
<1>18. CASE ModalEnds
  <2>1. call # "replace" /\ call' # "replace" /\ UNCHANGED <<msgs, haveWork, sending, at>>
    BY <1>18, <1>c DEF ModalEnds, InModal
  <2> QED BY <1>1, <2>1
<1>19. CASE Breaks
  <2>1. at # "replace" /\ at' # "replace" /\ UNCHANGED <<msgs, haveWork, sending, call>>
    BY <1>19 DEF Breaks, AtPhase
  <2> QED BY <1>1, <2>1
<1>3. CASE SwapFlag
  BY <1>3 DEF SwapFlag, Room, OneMessage, Queued, InHand
<1>4. CASE SendFlag
  <2>1. /\ ~Queued /\ ~InHand /\ haveWork /\ PostMsg("work") /\ ~sending'
        /\ UNCHANGED <<haveWork, call>> /\ (at' = "replace" <=> at = "replace")
    BY <1>4, <1>a DEF SendFlag, OneMessage
  <2>2. Room' /\ Once(msgs)' /\ Queued'
    BY <2>1, Posts
  <2> QED BY <1>o, <2>1, <2>2 DEF InHand, OneMessage
<1>5. CASE Input
  <2>1. /\ msgs' = Append(msgs, "other") /\ UNCHANGED <<haveWork, sending, call>>
        /\ at' = "replace" <=> at = "replace"
    BY <1>5, <1>a DEF Input
  <2>2. msgs \in Seq(Kinds) /\ Once(msgs) /\ "other" \in Kinds
    BY DEF TypeOK, Kinds, OneMessage, Once
  <2>3. (Has(msgs') <=> Has(msgs)) /\ Once(msgs') /\ Len(msgs') = Len(msgs) + 1 /\ Len(msgs) \in Nat
    <3>1. (Has(msgs') <=> Has(msgs)) /\ Once(msgs')
      BY <2>1, <2>2, HasAppend
    <3>2. Len(msgs') = Len(msgs) + 1 /\ Len(msgs) \in Nat
      BY <2>1, <2>2
    <3> QED BY <3>1, <3>2
  <2>4. Queued' <=> Queued
    BY <2>3 DEF Has, Queued
  <2>5. Len(msgs) <= MaxInput /\ (~Queued => Len(msgs) < MaxInput)
    BY <1>5, <2>2, InputFits DEF Input
  <2>6. Room'
    BY <2>3, <2>4, <2>5, UiAssumption DEF Room
  <2> QED BY <1>o, <2>1, <2>3, <2>4, <2>6 DEF InHand, OneMessage
<1>6. CASE TakesMessage
  <2>1. /\ at # "replace" /\ call = "none" /\ msgs' = Rest /\ UNCHANGED <<haveWork, sending>>
    BY <1>6 DEF TakesMessage, In, AtPhase
  <2>2. \/ Waiting("work") /\ at' = "replace" /\ UNCHANGED call
        \/ ~Waiting("work") /\ at' # "replace" /\ call' # "replace"
    BY <1>6, <2>1, WaitingIs DEF TakesMessage, TimerFires, Quits, Taken
  <2>3. /\ Room' /\ Once(msgs)'
        /\ Waiting("work") => Queued /\ ~Queued'
        /\ ~Waiting("work") => (Queued' <=> Queued)
    BY <2>1, MsgTaken
  <2>4. CASE Waiting("work")
    BY <1>o, <2>1, <2>2, <2>3, <2>4 DEF InHand, OneMessage
  <2>5. CASE ~Waiting("work")
    BY <1>o, <2>1, <2>2, <2>3, <2>5 DEF InHand, OneMessage
  <2> QED BY <2>4, <2>5
<1>7. CASE Replaces
  <2>1. InHand /\ ~sending /\ ~sending' /\ Announced
    BY <1>7 DEF Replaces, In, AtPhase, InHand, OneMessage
  <2>2. ~InHand'
    BY <1>7 DEF Replaces, In, AtPhase, TimerFires, Taken, InHand
  <2> QED BY <1>o, <2>1, <2>2, Replacement DEF InHand
<1>8. CASE ModalTakes
  <2>1. at # "replace" /\ call = "none" /\ msgs' = Rest /\ UNCHANGED <<haveWork, sending, at>>
    BY <1>8, <1>r DEF ModalTakes, InModal
  <2>2. \/ Waiting("work") /\ call' = "replace"
        \/ ~Waiting("work") /\ call' # "replace"
    BY <1>8, <1>c, <2>1, WaitingIs DEF ModalTakes, TimerFires
  <2>3. /\ Room' /\ Once(msgs)'
        /\ Waiting("work") => Queued /\ ~Queued'
        /\ ~Waiting("work") => (Queued' <=> Queued)
    BY <2>1, MsgTaken
  <2>4. CASE Waiting("work")
    BY <1>o, <2>1, <2>2, <2>3, <2>4 DEF InHand, OneMessage
  <2>5. CASE ~Waiting("work")
    BY <1>o, <2>1, <2>2, <2>3, <2>5 DEF InHand, OneMessage
  <2> QED BY <2>4, <2>5
<1>9. CASE HandleWorkMessage
  <2>1. InHand /\ ~sending /\ ~sending' /\ Announced /\ at # "replace" /\ UNCHANGED at
    BY <1>9 DEF HandleWorkMessage, Calling, InHand, OneMessage
  <2>2. ~InHand'
    BY <1>9, <2>1 DEF HandleWorkMessage, TimerFires, InHand
  <2> QED BY <1>o, <2>1, <2>2, Replacement DEF InHand
<1>10. CASE DoWork
  BY <1>1, <1>10 DEF DoWork, In, AtPhase, Calling
<1>11. CASE DoDelayedWork
  <2>1. UNCHANGED <<msgs, haveWork, sending>>
    BY <1>11 DEF DoDelayedWork
  <2>2. at # "replace" /\ call # "replace"
    BY <1>11, <1>r DEF DoDelayedWork, In, AtPhase, Calling
  <2>3. at' # "replace" /\ call' # "replace"
    BY <1>11, <2>2 DEF DoDelayedWork, DelayedWorkIsOver, TimerHandled, Taken
  <2> QED BY <1>1, <2>1, <2>2, <2>3
<1>12. CASE DoIdleWork \/ WakeUp \/ AttachedMouse \/ TakesSent
  BY <1>1, <1>12 DEF DoIdleWork, WakeUp, AttachedMouse, TakesSent, In, AtPhase
<1>13. CASE ProgramPosts
  <2>1. ~InHand /\ UNCHANGED <<sending, at, call>>
    BY <1>13, NotInHand DEF ProgramPosts
  <2>2. CASE incoming = <<>>
    <3>1. ScheduleWork
      BY <1>13, <2>2 DEF ProgramPosts
    <3> QED BY <1>o, <2>1, <3>1, Schedules DEF InHand
  <2>3. CASE incoming # <<>>
    BY <1>1, <1>13, <2>1, <2>3 DEF ProgramPosts
  <2> QED BY <2>2, <2>3
<1>14. CASE HandlerReturns
  <2>1. at # "replace" /\ at' # "replace"
    BY <1>14 DEF HandlerReturns, Where, Taken
  <2> QED BY <1>1, <1>14, <2>1 DEF HandlerReturns
<1>15. CASE TaskEnds
  <2>1. ~InHand /\ UNCHANGED sending
    BY <1>15, NotInHand DEF TaskEnds, InProgram
  <2>2. CASE call = "none" \/ call \in {"timer", "timerwork"}
    <3>1. UNCHANGED <<msgs, haveWork>> /\ at' # "replace" /\ call' # "replace"
      BY <1>15, <2>1, <2>2 DEF TaskEnds, TimerHandled, Taken, InHand
    <3> QED BY <1>1, <2>1, <3>1 DEF InHand
  <2>3. CASE call = "work"
    <3>1. ScheduleWork /\ call' = "none" /\ UNCHANGED at
      BY <1>15, <2>3 DEF TaskEnds, WorkMessageDone
    <3> QED BY <1>o, <2>1, <3>1, Schedules DEF InHand
  <2> QED BY <1>15, <2>2, <2>3 DEF TaskEnds
<1> QED
  BY <1>2, <1>3, <1>4, <1>5, <1>6, <1>7, <1>8, <1>9, <1>10, <1>11, <1>12, <1>13, <1>14, <1>15,
     <1>16, <1>17, <1>18, <1>19 DEF Next, Pumps, Loops

\* What another thread posts is announced by it, or was before.
LEMMA PostStep ==
  ASSUME TypeOK, Post
  PROVE  /\ UNCHANGED <<work, depth, run, uivars>> /\ ~posting
         /\ posting' <=> incoming = <<>>
BY DEF Post, AddToIncomingQueue, Posted

\* Once the flag is swapped and the message sent, there is one.
LEMMA FlagStep ==
  ASSUME Roomy, TypeOK, Room, OneMessage, ~InHand, SwapFlag \/ SendFlag
  PROVE  /\ UNCHANGED <<incoming, work, depth, run, more, handling, native>>
         /\ UNCHANGED at \/ Arrives
         /\ posting' \/ Queued'
<1>1. CASE SwapFlag
  BY <1>1 DEF SwapFlag, OneMessage, Queued
<1>2. CASE SendFlag
  <2>1. ~Queued /\ PostMsg("work")
    BY <1>2 DEF SendFlag, OneMessage
  <2> QED BY <1>2, <2>1, Posts DEF SendFlag
<1> QED BY <1>1, <1>2

\* Where DoRunLoop has looked, no other has the thread.
LEMMA LookedAlone ==
  ASSUME TypeOK, Where, Looked
  PROVE  /\ at \in {"delayed", "idle", "asleep", "waiting"} /\ ~handling /\ call = "none"
         /\ ~Busy /\ depth = 1 /\ modal = "no" /\ ~InModal /\ ~InProgram /\ ~InHand /\ ~lent
<1>1. AtPhase(at) /\ at \in {"delayed", "idle", "asleep", "waiting"}
  BY AloneAt DEF Looked, AtPhase
<1> QED BY <1>1, AloneIn DEF InHand

\* The pump does not go to sleep on a task.
LEMMA MissStep ==
  ASSUME Roomy, TypeOK, Where, Plain, Room, OneMessage, NothingMissed, [Next]_vars
  PROVE  NothingMissed'
<1>n. ASSUME ~Looked' PROVE NothingMissed'
  BY <1>n DEF NothingMissed
<1>1. ASSUME Looked' => Looked, UNCHANGED <<work, incoming>>,
             posting \/ Queued => posting' \/ Queued'
      PROVE  NothingMissed'
  BY <1>1 DEF NothingMissed
<1>s. ASSUME UNCHANGED <<depth, run, more, handling, call>>, UNCHANGED at \/ Arrives
      PROVE  Looked' => Looked
  BY <1>s DEF Looked, AtPhase, Working, Arrives
<1>p. ASSUME at' \notin {"idle", "asleep", "waiting"},
             at' # "delayed" \/ handling' \/ call' # "none"
      PROVE  NothingMissed'
  BY <1>n, <1>p DEF Looked, AtPhase
<1>2. CASE Post
  BY <1>2, <1>s, PostStep DEF NothingMissed, Queued
<1>3. CASE SwapFlag \/ SendFlag
  <2>1. CASE Looked
    <3>1. ~InHand /\ UNCHANGED <<incoming, work>> /\ (posting' \/ Queued')
      BY <1>3, <2>1, LookedAlone, FlagStep
    <3> QED BY <2>1, <3>1 DEF NothingMissed
  <2>2. CASE ~Looked
    <3>1. UNCHANGED <<depth, run, more, handling, call>> /\ (UNCHANGED at \/ Arrives)
      BY <1>3 DEF SwapFlag, SendFlag
    <3> QED BY <1>n, <1>s, <2>2, <3>1
  <2> QED BY <2>1, <2>2
<1>4. CASE Input
  <2>1. Queued => Queued'
    <3>1. msgs \in Seq(Kinds) /\ "other" \in Kinds /\ msgs' = Append(msgs, "other")
      BY <1>4 DEF Input, TypeOK, Kinds
    <3>2. Has(msgs') <=> Has(msgs)
      BY <3>1, HasAppend
    <3> QED BY <3>2 DEF Has, Queued
  <2> QED BY <1>1, <1>4, <1>s, <2>1 DEF Input
<1>5. CASE \/ OpensModal \/ ModalTakes \/ ModalEnds \/ HandleWorkMessage
            \/ ProgramPosts \/ ProgramQuits
  <2>1. InProgram \/ InModal \/ Calling("replace")
    BY <1>5 DEF OpensModal, ModalTakes, ModalEnds, HandleWorkMessage, ProgramPosts, ProgramQuits
  <2>2. UNCHANGED <<depth, run, at, more, handling>>
    BY <1>5 DEF OpensModal, ModalTakes, ModalEnds, HandleWorkMessage, ProgramPosts, ProgramQuits,
                AddToIncomingQueue
  <2>3. at \notin {"idle", "asleep", "waiting"}
    BY <2>1, AloneAt, AloneIn DEF Calling, AtPhase
  <2>4. ~AtPhase("delayed")'
    <3>1. ASSUME at = "delayed", ~handling PROVE Busy
      BY <2>1, <3>1 DEF InProgram, InModal, Calling, Where, OwnModal, OwnCall, TypeOK
    <3>2. Busy => ~Working
      BY OneRun
    <3> QED BY <2>2, <3>1, <3>2 DEF AtPhase, Working
  <2> QED BY <1>n, <2>2, <2>3, <2>4 DEF Looked
<1>6. CASE TakesMessage \/ Replaces \/ Breaks \/ TakesSent \/ WakeUp
  <2>1. at' \in {"message", "sent", "replace", "work"}
    BY <1>6 DEF TakesMessage, Replaces, Breaks, TakesSent, WakeUp, Taken
  <2> QED BY <1>p, <2>1
<1>12. CASE HandlerReturns
  <2>1. at' \in {"sent", "work"}
    BY <1>12 DEF HandlerReturns, Taken
  <2> QED BY <1>p, <2>1
<1>13. CASE Starts
  <2>1. at' = "message"
    BY <1>13, OneRun, UiAssumption DEF Starts, EnterRun, Where
  <2> QED BY <1>p, <2>1
<1>14. CASE AttachedMouse
  BY <1>1, <1>14 DEF AttachedMouse, Looked, In, AtPhase, Queued
<1>7. CASE DoWork
  <2>1. CASE In("work")
    <3>1. ASSUME Looked'
          PROVE  WorkIsOver /\ call = "none" /\ ~Busy /\ UNCHANGED <<incoming, work>>
      BY <1>7, <2>1, <3>1, OneRun DEF DoWork, In, AtPhase, Looked
    <3>2. ASSUME Looked' PROVE work' = <<>> /\ incoming' = <<>>
      BY <3>1, <3>2 DEF WorkIsOver, Plain, Loaded
    <3> QED BY <3>2 DEF NothingMissed
  <2>2. CASE Calling("work")
    <3>1. at' = at /\ handling' = handling
      BY <1>7, <2>2 DEF DoWork, Calling
    <3>2. at \notin {"idle", "asleep", "waiting"}
      BY <2>2, AloneAt, AloneIn DEF Calling
    <3>3. CASE at = "delayed" /\ ~handling
      <4>1. modal = "task" /\ Busy /\ ~nestable
        BY <2>2, <3>3 DEF Calling, Where, OwnModal, OwnCall, Plain, TypeOK
      <4>2. UNCHANGED <<depth, run>>
        BY <1>7, <4>1 DEF DoWork, WorkDelays, WorkRuns
      <4>3. ~Looked'
        BY <3>1, <3>3, <4>1, <4>2, OneRun DEF Looked, AtPhase, Working
      <4> QED BY <1>n, <4>3
    <3>4. CASE ~(at = "delayed" /\ ~handling)
      BY <1>p, <3>1, <3>2, <3>4
    <3> QED BY <3>3, <3>4
  <2> QED BY <1>7, <2>1, <2>2 DEF DoWork
<1>8. CASE DoDelayedWork
  <2>0. UNCHANGED <<work, incoming, posting, msgs, handling, modal>>
    BY <1>8 DEF DoDelayedWork, NoDelayedWork, NotYet, DelayedRuns, IsDue
  <2>1. CASE In("delayed")
    <3>1. ASSUME NEW e \in delayed, DelayedRuns(e), UNCHANGED at PROVE ~Looked'
      <4>1. Busy'
        BY <2>1, <3>1, OneRun, RunThen DEF In, AtPhase, DelayedRuns, TypeOK, LoopTypeOK
      <4> QED BY <2>1, <3>1, <4>1 DEF Looked, In, AtPhase, Working, Busy
    <3>2. ASSUME UNCHANGED <<depth, run>>, DelayedWorkIsOver PROVE Looked' => Looked
      BY <2>1, <3>2 DEF DelayedWorkIsOver, Looked, In, AtPhase
    <3> QED
      BY <1>1, <1>8, <1>n, <2>0, <3>1, <3>2 DEF DoDelayedWork, NoDelayedWork, NotYet, Queued
  <2>2. CASE Calling("timer") \/ Calling("timerwork")
    <3>1. at \notin {"idle", "asleep", "waiting"}
      BY <2>2, AloneAt, AloneIn DEF Calling
    <3>2. at' \in {at, "work"}
      BY <1>8, <2>2 DEF DoDelayedWork, DelayedWorkIsOver, TimerHandled, Taken, Calling
    <3>3. CASE at = "delayed" /\ ~handling
      <4>1. modal = "task" /\ Busy /\ ~nestable
        BY <2>2, <3>3 DEF Calling, Where, OwnModal, OwnCall, Plain, TypeOK
      <4>2. UNCHANGED <<depth, run>>
        BY <1>8, <4>1 DEF DoDelayedWork, NoDelayedWork, NotYet, DelayedRuns, IsDue
      <4>3. ~AtPhase("delayed")'
        BY <4>1, <4>2, OneRun DEF AtPhase, Working
      <4> QED BY <1>n, <3>1, <3>2, <4>3 DEF Looked
    <3>4. CASE ~(at = "delayed" /\ ~handling)
      BY <1>p, <2>0, <3>1, <3>2, <3>4
    <3> QED BY <3>3, <3>4
  <2> QED BY <1>8, <2>1, <2>2 DEF DoDelayedWork
<1>9. CASE DoIdleWork
  BY <1>1, <1>9 DEF DoIdleWork, Looked, In, AtPhase, Working, Queued
<1>10. CASE TaskEnds
  <2>1. at \notin {"idle", "asleep", "waiting"} /\ UNCHANGED handling
    BY <1>10, AloneAt, AloneIn DEF TaskEnds
  <2>2. CASE call = "none"
    <3>1. at' = "message" \/ (at' = "delayed" /\ more')
      BY <1>10, <2>2 DEF TaskEnds
    <3> QED BY <1>n, <3>1 DEF Looked, AtPhase
  <2>3. CASE call # "none"
    <3>1. at' \in {at, "work"}
      BY <1>10, <2>3 DEF TaskEnds, TimerHandled, Taken
    <3>2. at # "delayed"
      BY <1>10, <2>3 DEF TaskEnds, Where, OwnModal, OwnCall, TypeOK
    <3> QED BY <1>p, <2>1, <3>1, <3>2
  <2> QED BY <2>2, <2>3
<1>11. CASE Clock \/ UNCHANGED vars
  <2>1. UNCHANGED <<depth, run, more, handling, call, work, incoming, posting, msgs>>
    BY <1>11 DEF Clock, Tick
  <2>2. UNCHANGED at \/ Arrives
    BY <1>11 DEF Clock
  <2> QED BY <1>1, <1>s, <2>1, <2>2 DEF Queued
<1> QED
  BY <1>2, <1>3, <1>4, <1>5, <1>6, <1>7, <1>8, <1>9, <1>10, <1>11, <1>12, <1>13, <1>14
     DEF Next, Pumps, Loops

\* Tasks are announced for as long as the loop of the system runs.
LEMMA ServedStep ==
  ASSUME Roomy, TypeOK, Where, Plain, Room, OneMessage, Served, [Next]_vars
  PROVE  Served'
<1>n. ASSUME ~lent' PROVE Served'
  BY <1>n DEF Served
<1>c. ASSUME call' \notin {"none", "timer"} \/ modal' = "task" PROVE Served'
  BY <1>c DEF Served
<1>1. ASSUME lent' => lent, UNCHANGED modal \/ modal # "task",
             call' \in {"none", "timer"} => call \in {"none", "timer"} \/ modal = "task",
             UNCHANGED <<work, incoming>>, posting \/ Queued => posting' \/ Queued'
      PROVE  Served'
  BY <1>1 DEF Served, Loaded
<1>l. lent => handling /\ ~In("work") /\ ~In("delayed")
  BY DEF Where, In, AtPhase
<1>h. lent /\ call \in {"none", "timer"} => ~InHand
  BY <1>l DEF InHand, Where
<1>2. CASE Post
  BY <1>2, PostStep DEF Served, Loaded, Queued
<1>3. CASE SwapFlag \/ SendFlag
  <2>1. UNCHANGED <<call, lent, modal, work, incoming>>
    BY <1>3 DEF SwapFlag, SendFlag
  <2>2. CASE lent /\ call \in {"none", "timer"}
    BY <1>3, <1>h, <2>2, FlagStep DEF Served
  <2>3. CASE ~(lent /\ call \in {"none", "timer"})
    BY <2>1, <2>3 DEF Served
  <2> QED BY <2>2, <2>3
<1>4. CASE Input
  <2>1. Queued => Queued'
    <3>1. msgs \in Seq(Kinds) /\ "other" \in Kinds /\ msgs' = Append(msgs, "other")
      BY <1>4 DEF Input, TypeOK, Kinds
    <3>2. Has(msgs') <=> Has(msgs)
      BY <3>1, HasAppend
    <3> QED BY <3>2 DEF Has, Queued
  <2> QED BY <1>1, <1>4, <2>1 DEF Input
<1>5. CASE TakesMessage \/ HandlerReturns \/ Starts
  <2>1. CASE TakesMessage
    BY <1>l, <1>n, <2>1 DEF TakesMessage, In, AtPhase
  <2>2. CASE HandlerReturns
    BY <1>n, <2>2 DEF HandlerReturns
  <2>3. CASE Starts
    <3>1. depth = 0 /\ UNCHANGED lent
      BY <2>3, OneRun, UiAssumption DEF Starts, EnterRun
    <3> QED BY <1>n, <3>1 DEF Where
  <2> QED BY <1>5, <2>1, <2>2, <2>3
<1>6. CASE Replaces
  <2>1. Announced /\ InHand /\ (~lent \/ lent') /\ ~lent
    BY <1>6, <1>l DEF Replaces, In, AtPhase, InHand, Where
  <2>2. lent' => ~Waiting("none")
    BY <1>6, <2>1, WaitingIs DEF Replaces
  <2>3. lent' => Queued'
    BY <2>1, <2>2, Replacement
  <2> QED BY <2>3 DEF Served
<1>o. ASSUME Closes, UNCHANGED <<lent, work, incoming, posting>>, call = "none",
             Queued' <=> Queued
      PROVE  Served'
  <2>1. modal' = outer[1] /\ call' = outer[2]
    BY <1>o DEF Closes
  <2>2. CASE modal = "task" /\ lent
    BY <1>c, <2>1, <2>2 DEF Where
  <2>3. CASE modal # "task"
    BY <1>1, <1>o, <2>3
  <2>4. CASE ~lent
    BY <1>n, <1>o, <2>4
  <2> QED BY <2>2, <2>3, <2>4
<1>7. CASE ModalTakes
  <2>1. msgs' = Rest /\ UNCHANGED <<work, incoming, posting, lent>> /\ call = "none"
    BY <1>7 DEF ModalTakes, InModal
  <2>2. CASE Waiting("work") /\ call' = "replace"
    BY <1>c, <2>2
  <2>3. CASE ~Waiting("work")
    <3>1. Queued' <=> Queued
      BY <2>1, <2>3, MsgTaken
    <3>2. CASE Closes
      BY <1>o, <2>1, <3>1, <3>2
    <3>3. CASE UNCHANGED modal
      BY <1>1, <2>1, <3>1, <3>3
    <3> QED BY <1>7, <2>3, <3>2, <3>3 DEF ModalTakes
  <2> QED BY <1>7, <2>2, <2>3, WaitingIs DEF ModalTakes, TimerFires
<1>14. CASE ModalEnds
  BY <1>14, <1>o DEF ModalEnds, InModal, Queued
<1>15. CASE OpensModal
  <2>1. CASE modal' = "task"
    BY <1>c, <2>1
  <2>2. CASE modal' # "task"
    <3>1. /\ modal = "no" /\ ~Busy /\ handling /\ (lent' => lent)
          /\ UNCHANGED <<work, incoming, posting, msgs>>
      BY <1>15, <2>2 DEF OpensModal, InProgram
    <3>2. call = "none"
      BY <3>1 DEF Where, OwnModal, OwnCall
    <3> QED BY <1>1, <3>1, <3>2 DEF Queued
  <2> QED BY <2>1, <2>2
<1>8. CASE HandleWorkMessage
  BY <1>8, <1>c DEF HandleWorkMessage, TimerFires
<1>9. CASE DoWork
  <2>1. UNCHANGED <<lent, modal>>
    BY <1>9 DEF DoWork
  <2>2. CASE ~lent
    BY <1>n, <2>1, <2>2
  <2>3. CASE modal = "task"
    BY <1>c, <2>1, <2>3
  <2>4. CASE lent /\ modal # "task"
    <3>1. Calling("work") /\ ~Busy
      BY <1>9, <1>l, <2>4 DEF DoWork, Calling
    <3>2. CASE call' = call
      BY <1>c, <3>1, <3>2 DEF Calling
    <3>3. CASE WorkIsOver /\ UNCHANGED loopvars
      BY <3>1, <3>3 DEF WorkIsOver, Plain, Served, Loaded
    <3> QED BY <1>9, <3>2, <3>3 DEF DoWork
  <2> QED BY <2>2, <2>3, <2>4
<1>10. CASE DoDelayedWork
  <2>1. UNCHANGED <<work, incoming, posting, msgs, lent, modal>>
    BY <1>10 DEF DoDelayedWork, NoDelayedWork, NotYet, DelayedRuns, IsDue
  <2>2. call' \in {"none", "timer"} => call \in {"none", "timer"}
    BY <1>10 DEF DoDelayedWork, DelayedWorkIsOver, TimerHandled, In, AtPhase, Calling
  <2> QED BY <1>1, <2>1, <2>2 DEF Queued
<1>11. CASE \/ DoIdleWork \/ WakeUp \/ AttachedMouse \/ TakesSent
             \/ ProgramQuits \/ Clock \/ UNCHANGED vars
  BY <1>1, <1>11
     DEF DoIdleWork, WakeUp, AttachedMouse, TakesSent, ProgramQuits, Clock, Tick, Queued
<1>16. CASE Breaks
  BY <1>1, <1>16 DEF Breaks, Queued
<1>12. CASE ProgramPosts
  <2>1. UNCHANGED <<work, posting, call, lent, modal, sending>> /\ ~posting /\ InProgram
    BY <1>12 DEF ProgramPosts, AddToIncomingQueue
  <2>2. ~sending /\ ~InHand
    BY <2>1, NotInHand DEF Where
  <2>3. CASE incoming = <<>>
    <3>1. Queued'
      BY <1>12, <2>2, <2>3, Schedules DEF ProgramPosts
    <3> QED BY <3>1 DEF Served
  <2>4. CASE incoming # <<>>
    BY <1>12, <2>1, <2>4 DEF ProgramPosts, Served, Loaded, Queued
  <2> QED BY <2>3, <2>4
<1>13. CASE TaskEnds
  <2>1. UNCHANGED <<work, incoming, posting, lent, modal, sending>>
    BY <1>13 DEF TaskEnds, TaskReturns
  <2>2. CASE call \in {"none", "timer"}
    <3>1. UNCHANGED msgs
      BY <1>13, <2>2 DEF TaskEnds
    <3> QED BY <1>1, <2>1, <2>2, <3>1 DEF Queued
  <2>3. CASE call = "work"
    <3>1. ~InHand /\ ScheduleWork
      BY <1>13, <2>3, NotInHand DEF TaskEnds, InProgram, WorkMessageDone
    <3>2. Queued' \/ posting'
      BY <2>1, <3>1, Schedules DEF Where
    <3> QED BY <3>2 DEF Served
  <2>4. CASE call = "timerwork"
    BY <1>13, <1>c, <2>4 DEF TaskEnds, TimerHandled
  <2> QED BY <1>13, <2>2, <2>3, <2>4 DEF TaskEnds
<1> QED
  BY <1>2, <1>3, <1>4, <1>5, <1>6, <1>7, <1>8, <1>9, <1>10, <1>11, <1>12, <1>13, <1>14, <1>15,
     <1>16 DEF Next, Pumps, Loops

LEMMA InitMInv == Roomy /\ Init => MInv
<1> SUFFICES ASSUME Init PROVE MInv
  OBVIOUS
<1>1. msgs = <<>> /\ Len(msgs) = 0 /\ DOMAIN msgs = {}
  BY DEF Init
<1>2. Room
  BY <1>1, UiAssumption DEF Room
<1>3. OneMessage
  BY <1>1 DEF Init, OneMessage, Queued, InHand
<1>4. NothingMissed /\ Served
  BY DEF Init, InitLoop, NothingMissed, Looked, AtPhase, Working, Served
<1> QED BY <1>2, <1>3, <1>4 DEF MInv

LEMMA NextMInv == Roomy /\ IInv /\ MInv /\ [Next]_vars => MInv'
BY OneStep, MissStep, ServedStep DEF IInv, MInv

\* With room in the queue of messages the invariants of the messages hold.
THEOREM MessageInvariance == ASSUME Roomy PROVE Spec => []MInv
<1>1. Init => MInv
  BY InitMInv
<1>2. IInv /\ MInv /\ [Next]_vars => MInv'
  BY NextMInv
<1> QED BY <1>1, <1>2, Invariance, PTL DEF Spec

\* have_work_ is up exactly while one kMsgHaveWork is on its way: two are never
\* pending, none is swallowed.
THEOREM OneAnnouncement == ASSUME Roomy PROVE Spec => []OneMessage
<1>1. MInv => OneMessage
  BY DEF MInv
<1> QED BY <1>1, MessageInvariance, PTL

\* The thread sleeps neither on a task nor beyond the time of a delayed one, but
\* that WaitMessage, which it comes to for input of another thread's windows, may
\* leave it with an announcement that is in the queue already.
THEOREM NeverSleepsOnWork == ASSUME Roomy PROVE Spec => []NoLostWakeup
<1>1. IInv /\ MInv => NoLostWakeup
  <2> SUFFICES ASSUME IInv, MInv PROVE NoLostWakeup
    OBVIOUS
  <2>1. ASSUME In("asleep") \/ In("waiting") PROVE msgs = <<>> /\ ~posting => Loaded = <<>>
    <3>1. work = <<>> /\ (incoming # <<>> => posting \/ Queued)
      BY <2>1 DEF MInv, NothingMissed, Looked, In, AtPhase
    <3> QED BY <3>1 DEF Queued, Loaded
  <2>2. ASSUME In("asleep") PROVE \A e \in delayed : wake # 0 /\ wake <= e.task.due
    BY <2>2 DEF IInv, WakeInTime, In, AtPhase
  <2> QED BY <2>1, <2>2 DEF NoLostWakeup
<1> QED BY <1>1, Invariance, MessageInvariance, PTL

\* A loop of the system opened from a message that took the announcement's place
\* has an announcement for as long as there are tasks.
THEOREM ServesNativeLoops == ASSUME Roomy PROVE Spec => []NativeLoopServed
<1>1. MInv => NativeLoopServed
  BY DEF MInv, Served, NativeLoopServed, InModal
<1> QED BY <1>1, MessageInvariance, PTL

=============================================================================
