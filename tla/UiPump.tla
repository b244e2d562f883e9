-------------------------------- MODULE UiPump --------------------------------
(***************************************************************************)
(* WinUIMessagePump: the loop of the UI thread.  It sleeps in the queue of *)
(* Windows messages, so a posted task is announced by a message of its     *)
(* own, kMsgHaveWork, of which have_work_ allows one at a time.  A window  *)
(* that is dragged, a menu or a MessageBox runs a loop of the system       *)
(* instead, which knows nothing of tasks: there the announcement and       *)
(* WM_TIMER are all that keeps them going.                                 *)
(*                                                                         *)
(* The UI thread is in one run from start to end, and nothing in this      *)
(* program allows nested tasks or sets os_modal_loop_.                     *)
(***************************************************************************)
EXTENDS MessageLoop, FiniteSets

CONSTANTS
  QueueSize,    \* messages Windows keeps for a thread (10,000)
  MaxInput      \* bound: other messages waiting at once

ASSUME UiAssumption ==
  /\ MaxDepth = 1
  /\ QueueSize \in Nat \ {0}
  /\ MaxInput \in Nat \ {0}

VARIABLES
  haveWork,     \* have_work_
  sending,      \* another thread, in ScheduleWork, has yet to post the message
  msgs,         \* messages posted to the thread: "work" is kMsgHaveWork
  quitMsg,      \* WM_QUIT is waiting: it comes after all posted messages
  timer,        \* when WM_TIMER is due, 0 when there is no timer
  wake,         \* delayed_work_time_, 0 when null
  at,           \* where the thread is in DoRunLoop
  more,         \* more_work_is_plausible
  shouldQuit,   \* state_->should_quit
  handling,     \* DoRunLoop has dispatched a message to a window
  modal,        \* a loop of the system is open, from a window's "handler" or a "task"
  call,         \* how far the message window's own procedure is, "none" when not in it
  outer,        \* modal and call of the loop a task's own loop is nested in
  lent          \* not in the code: the message handled took the place of kMsgHaveWork

uivars == <<haveWork, sending, msgs, quitMsg, timer, wake, at, more, shouldQuit, handling, modal,
            call, outer, lent>>
vars   == <<loopvars, uivars>>
native == <<modal, call, outer, lent>>
Alone  == <<"no", "none">>

Init ==
  /\ InitLoop
  /\ haveWork = FALSE /\ sending = FALSE
  /\ msgs = <<>> /\ quitMsg = FALSE /\ timer = 0
  /\ wake = 0 /\ at = "message" /\ more = FALSE /\ shouldQuit = FALSE
  /\ handling = FALSE /\ modal = "no" /\ call = "none" /\ outer = Alone /\ lent = FALSE

\* DoRunLoop itself has the thread, at phase p; should_quit is looked at between
\* the phases, not while a message is taken.
AtPhase(p) == Working /\ at = p /\ ~handling /\ call = "none"
In(p)      == AtPhase(p) /\ (shouldQuit => p \in {"sent", "replace"})
\* A system loop has the thread.
InModal == modal # "no" /\ call = "none" /\ (modal = "task" \/ ~Busy)
\* The message window's procedure has it, at step c.
Calling(c) == call = c /\ (modal = "task" \/ ~Busy)
\* A task or a window of the program has it.
InProgram == (Busy /\ modal # "task") \/ (handling /\ modal = "no")

Later(s, t) == IF s > t THEN s ELSE t

\* ProcessNextWindowsMessage has returned.
Taken(plausible) == at' = "work" /\ more' = plausible

\* A message that comes wakes the thread in WaitMessage.
Arrives == at' = IF at = "waiting" THEN "message" ELSE at

-----------------------------------------------------------------------------
(* ScheduleWork and ScheduleDelayedWork                                    *)

\* PostMessage: lost when the queue is full.
PostMsg(k) == msgs' = IF Len(msgs) < QueueSize THEN Append(msgs, k) ELSE msgs

\* By the UI thread.  No other thread could do more meanwhile than find the
\* flag up and leave it at that.
ScheduleWork ==
  IF haveWork THEN UNCHANGED <<haveWork, msgs>> ELSE haveWork' = TRUE /\ PostMsg("work")

\* SetTimer
ScheduleDelayedWork(t) ==
  /\ wake' = t
  /\ timer' = Later(t, now)

\* At depth 1 it makes no difference whether a task is nestable.
Posted == {t \in NewTasks : t.nestable}

\* By another thread: the task, the flag, the message.
Post ==
  \E t \in Posted :
    /\ AddToIncomingQueue(t)
    /\ posting' = (incoming = <<>>)
    /\ UNCHANGED uivars

SwapFlag ==
  /\ posting /\ ~sending
  /\ haveWork' = TRUE
  /\ sending' = ~haveWork
  /\ posting' = ~haveWork
  /\ UNCHANGED <<incoming, work, deferred, delayed, nextSeq, nestable, recent, runvars, posted,
                 stage, now, msgs, quitMsg, timer, wake, at, more, shouldQuit, handling, native>>

SendFlag ==
  /\ sending
  /\ PostMsg("work")
  /\ IF Len(msgs) < QueueSize THEN Arrives ELSE UNCHANGED at
  /\ sending' = FALSE /\ posting' = FALSE
  /\ UNCHANGED <<incoming, work, deferred, delayed, nextSeq, nestable, recent, runvars, posted,
                 stage, now, haveWork, quitMsg, timer, wake, more, shouldQuit, handling, native>>

\* Input, paint requests and whatever else is posted to windows.
Input ==
  /\ Cardinality({i \in DOMAIN msgs : msgs[i] = "other"}) < MaxInput
  /\ msgs' = Append(msgs, "other")
  /\ Len(msgs) < QueueSize
  /\ Arrives
  /\ UNCHANGED <<loopvars, haveWork, sending, quitMsg, timer, wake, more, shouldQuit, handling,
                 native>>

-----------------------------------------------------------------------------
(* Taking a message (PeekMessage, GetMessage)                              *)

Waiting(k) ==
  CASE k = "none"  -> msgs = <<>> /\ ~quitMsg /\ (timer = 0 \/ timer > now)
    [] k = "timer" -> msgs = <<>> /\ ~quitMsg /\ timer # 0 /\ timer <= now
    [] k = "quit"  -> msgs = <<>> /\ quitMsg
    [] OTHER       -> msgs # <<>> /\ Head(msgs) = k

Rest == IF msgs = <<>> THEN msgs ELSE Tail(msgs)

\* ProcessMessageHelper, for a message that is none of the pump's: WM_QUIT is
\* posted again for the loops further out.
Quits ==
  /\ Waiting("quit")
  /\ shouldQuit' = TRUE

\* HandleTimerMessage begins.
TimerFires(c) ==
  /\ Waiting("timer")
  /\ timer' = 0
  /\ call' = c

\* A message sent from elsewhere wakes the thread, and PeekMessage has its window
\* handle it before it looks for a posted one.
TakesSent ==
  /\ In("message") \/ In("asleep") \/ In("waiting")
  /\ at' = "sent" /\ handling' = TRUE
  /\ UNCHANGED <<loopvars, haveWork, sending, msgs, quitMsg, timer, wake, more, shouldQuit, native>>

\* ProcessNextWindowsMessage.  A message sent counts, unless it came after
\* GetQueueStatus.
TakesMessage ==
  /\ In("message") \/ In("sent")
  /\ msgs' = Rest
  /\ \/ /\ Waiting("none")
        /\ Taken(FALSE) \/ Taken(at = "sent")
        /\ UNCHANGED <<timer, handling, call, shouldQuit>>
     \/ Waiting("work") /\ at' = "replace" /\ UNCHANGED <<timer, handling, call, shouldQuit, more>>
     \/ /\ Waiting("other")
        /\ handling' = TRUE /\ at' = "message"
        /\ UNCHANGED <<timer, call, shouldQuit, more>>
     \/ TimerFires("timer") /\ at' = "message" /\ UNCHANGED <<handling, shouldQuit, more>>
     \/ Quits /\ Taken(FALSE) /\ UNCHANGED <<timer, handling, call>>
  /\ UNCHANGED <<loopvars, haveWork, sending, quitMsg, wake, modal, outer, lent>>

\* Faulty variant: the flag is put back only when there is nothing to dispatch,
\* so that ScheduleWork finds it up.
AnnouncedByFlag ==
  \/ Waiting("none") /\ haveWork' = FALSE /\ UNCHANGED msgs
  \/ ~Waiting("none") /\ UNCHANGED haveWork /\ msgs' = Rest

\* ProcessPumpReplacementMessage: the flag is put back, and put up again with a
\* new kMsgHaveWork when there is another message to dispatch.
Announced ==
  \/ Waiting("none") /\ haveWork' = FALSE /\ UNCHANGED msgs
  \/ ~Waiting("none") /\ haveWork' = TRUE
     /\ msgs' = IF Len(Rest) < QueueSize THEN Append(Rest, "work") ELSE Rest

\* The same by DoRunLoop, with the message taken.
Replaces ==
  /\ In("replace")
  /\ Announced
  /\ \/ Waiting("none") /\ Taken(FALSE) /\ UNCHANGED <<timer, handling, call, shouldQuit, lent>>
     \/ /\ Waiting("other")
        /\ handling' = TRUE /\ lent' = TRUE /\ at' = "message"
        /\ UNCHANGED <<timer, call, shouldQuit, more>>
     \/ TimerFires("timer") /\ at' = "message" /\ UNCHANGED <<handling, shouldQuit, more, lent>>
     \/ Quits /\ Taken(FALSE) /\ UNCHANGED <<timer, handling, call, lent>>
  /\ UNCHANGED <<loopvars, sending, quitMsg, wake, modal, outer>>

\* DoRunLoop sees should_quit, and Run returns.
Breaks ==
  /\ \E p \in {"message", "work", "delayed", "idle"} : AtPhase(p)
  /\ shouldQuit
  /\ depth' = 0 /\ run' = [run EXCEPT ![1] = Fresh]
  /\ at' = "message" /\ more' = FALSE
  /\ UNCHANGED <<incoming, work, deferred, delayed, nextSeq, nestable, recent, envvars>>
  /\ UNCHANGED <<haveWork, sending, msgs, quitMsg, timer, wake, shouldQuit, handling, native>>

-----------------------------------------------------------------------------
(* Loops of the system                                                     *)

\* A window opens one, or a task does, be it inside that of a window.  A task
\* that HandleTimerMessage runs leaves no announcement behind it.
OpensModal ==
  /\ InProgram
  /\ Busy \/ modal = "no"
  /\ outer' = <<modal, call>>
  /\ modal' = IF Busy THEN "task" ELSE "handler"
  /\ call' = "none"
  /\ lent' = (lent /\ call # "timer")
  /\ UNCHANGED <<loopvars, haveWork, sending, msgs, quitMsg, timer, wake, at, more, shouldQuit,
                 handling>>

Closes == modal' = outer[1] /\ call' = outer[2] /\ outer' = Alone

\* It dispatches what it finds; the windows of the program are left out here.
ModalTakes ==
  /\ InModal
  /\ msgs' = Rest
  /\ \/ Waiting("work") /\ call' = "replace" /\ UNCHANGED <<timer, modal, outer>>
     \/ Waiting("other") /\ UNCHANGED <<timer, modal, call, outer>>
     \/ TimerFires("timer") /\ UNCHANGED <<modal, outer>>
     \/ Waiting("quit") /\ Closes /\ UNCHANGED timer
  /\ UNCHANGED <<loopvars, haveWork, sending, quitMsg, wake, at, more, shouldQuit, handling, lent>>

ModalEnds ==
  /\ InModal
  /\ Closes
  /\ UNCHANGED <<loopvars, haveWork, sending, msgs, quitMsg, timer, wake, at, more, shouldQuit,
                 handling, lent>>

\* HandleWorkMessage, up to its call of DoWork.
HandleWorkMessage ==
  /\ Calling("replace")
  /\ Announced
  /\ \/ (Waiting("none") \/ Waiting("other")) /\ call' = "work" /\ UNCHANGED <<timer, shouldQuit>>
     \/ TimerFires("timerwork") /\ UNCHANGED shouldQuit
     \/ Quits /\ call' = "work" /\ UNCHANGED timer
  /\ UNCHANGED <<loopvars, sending, quitMsg, wake, at, more, handling, modal, outer, lent>>

-----------------------------------------------------------------------------
(* DoWork, DoDelayedWork, and sleep                                        *)

DoWork ==
  /\ In("work") \/ Calling("work")
  /\ \/ WorkDelays /\ UNCHANGED <<at, more, call>>
        /\ IF Reschedules THEN ScheduleDelayedWork(Head(Loaded).due) ELSE UNCHANGED <<wake, timer>>
     \/ WorkRuns /\ UNCHANGED <<at, more, call, wake, timer>>
     \/ WorkIsOver /\ UNCHANGED <<loopvars, more, wake, timer>>
        /\ IF call = "none" THEN at' = "delayed" /\ UNCHANGED call
           ELSE call' = "none" /\ UNCHANGED at
  /\ UNCHANGED <<haveWork, sending, msgs, quitMsg, shouldQuit, handling, modal, outer, lent>>

\* The time of the next delayed task, once the first is taken.
NextWake ==
  \/ delayed' = {} /\ UNCHANGED wake
  \/ \E f \in delayed' : IsTop(f)' /\ wake' = f.task.due

\* The timer, once DoRunLoop is through with DoDelayedWork.
KillTimer(plausible) == timer' = IF plausible /\ wake' = 0 THEN 0 ELSE timer

\* The end of HandleTimerMessage, which DoRunLoop, a system loop or
\* HandleWorkMessage has called.
TimerHandled ==
  /\ IF wake' = 0 THEN UNCHANGED timer ELSE timer' = Later(wake', now)
  /\ call' = IF call = "timerwork" THEN "work" ELSE "none"
  /\ IF call = "timer" /\ modal = "no" THEN Taken(TRUE) ELSE UNCHANGED <<at, more>>

DelayedWorkIsOver ==
  IF call = "none"
    THEN /\ KillTimer(more) /\ UNCHANGED call
         /\ at' = (IF more THEN "message" ELSE "idle") /\ UNCHANGED more
    ELSE TimerHandled

\* Faulty variant: the time to sleep until is left to ScheduleDelayedWork.
DoDelayedWorkUntimed ==
  /\ In("delayed") \/ Calling("timer") \/ Calling("timerwork")
  /\ \/ NoDelayedWork /\ wake' = 0 /\ DelayedWorkIsOver
     \/ \E e \in delayed :
          \/ NotYet(e) /\ UNCHANGED wake /\ DelayedWorkIsOver
          \/ DelayedRuns(e) /\ NextWake /\ UNCHANGED <<at, more, call, timer>>
  /\ UNCHANGED <<haveWork, sending, msgs, quitMsg, shouldQuit, handling, modal, outer, lent>>

DoDelayedWork ==
  /\ In("delayed") \/ Calling("timer") \/ Calling("timerwork")
  /\ \/ NoDelayedWork /\ wake' = 0 /\ DelayedWorkIsOver
     \/ \E e \in delayed :
          \/ NotYet(e) /\ wake' = e.task.due /\ DelayedWorkIsOver
          \/ DelayedRuns(e) /\ NextWake /\ UNCHANGED <<at, more, call, timer>>
  /\ UNCHANGED <<haveWork, sending, msgs, quitMsg, shouldQuit, handling, modal, outer, lent>>

\* DoIdleWork has nothing to do in the only run; WaitForWork.
DoIdleWork ==
  /\ In("idle")
  /\ at' = "asleep"
  /\ UNCHANGED <<loopvars, haveWork, sending, msgs, quitMsg, timer, wake, more, shouldQuit,
                 handling, native>>

\* MsgWaitForMultipleObjectsEx: for a message, one already looked at included,
\* or until the time of the next delayed task.
WakeUp ==
  /\ In("asleep")
  /\ ~Waiting("none") \/ (wake # 0 /\ wake <= now)
  /\ at' = "message"
  /\ UNCHANGED <<loopvars, haveWork, sending, msgs, quitMsg, timer, wake, more, shouldQuit,
                 handling, native>>

\* Mouse input for a window of another thread, whose input is attached to this
\* one's: the thread goes on to WaitMessage, which knows no time and returns for
\* what comes from then on, more such input among it.
AttachedMouse ==
  /\ \/ In("asleep") /\ at' = "waiting"
     \/ In("waiting") /\ at' = "message"
  /\ UNCHANGED <<loopvars, haveWork, sending, msgs, quitMsg, timer, wake, more, shouldQuit,
                 handling, native>>

-----------------------------------------------------------------------------
(* The program's own code                                                  *)

\* MainThread::RunOnCurrentThreadWithLoop
Starts == EnterRun(FALSE) /\ ~shouldQuit /\ UNCHANGED uivars

ProgramPosts ==
  /\ InProgram
  /\ \E t \in Posted : AddToIncomingQueue(t)
  /\ IF incoming = <<>> THEN ScheduleWork ELSE UNCHANGED <<haveWork, msgs>>
  /\ UNCHANGED <<posting, sending, quitMsg, timer, wake, at, more, shouldQuit, handling, native>>

\* ::PostQuitMessage
ProgramQuits ==
  /\ InProgram
  /\ ~quitMsg
  /\ quitMsg' = TRUE
  /\ UNCHANGED <<loopvars, haveWork, sending, msgs, timer, wake, at, more, shouldQuit, handling,
                 native>>

\* PeekMessage goes on after a message sent.
HandlerReturns ==
  /\ handling /\ modal = "no"
  /\ handling' = FALSE /\ lent' = FALSE
  /\ IF at = "sent" THEN UNCHANGED <<at, more>> ELSE Taken(TRUE)
  /\ UNCHANGED <<loopvars, haveWork, sending, msgs, quitMsg, timer, wake, shouldQuit, modal, call,
                 outer>>

\* Faulty variant: HandleWorkMessage drops what DoWork returns.
WorkMessageDoneOnce == call' = "none" /\ UNCHANGED <<haveWork, msgs>>

\* HandleWorkMessage, once DoWork has run a task.
WorkMessageDone == call' = "none" /\ ScheduleWork

TaskEnds ==
  /\ Busy /\ modal # "task"
  /\ TaskReturns
  /\ run' = [run EXCEPT ![1].task = 0] /\ UNCHANGED depth
  /\ UNCHANGED <<sending, quitMsg, wake, shouldQuit, handling, modal, outer, lent>>
  /\ \/ /\ call = "none"
        /\ UNCHANGED <<haveWork, msgs, call>>
        /\ KillTimer(at = "delayed")
        /\ more' = TRUE
        /\ at' = IF at = "work" THEN "delayed" ELSE "message"
     \/ call = "work" /\ WorkMessageDone /\ UNCHANGED <<timer, at, more>>
     \/ call \in {"timer", "timerwork"} /\ TimerHandled /\ UNCHANGED <<haveWork, msgs>>

\* WM_TIMER comes when the timer is due.
Clock ==
  /\ Tick
  /\ IF timer = now' THEN Arrives ELSE UNCHANGED at
  /\ UNCHANGED <<haveWork, sending, msgs, quitMsg, timer, wake, more, shouldQuit, handling, native>>

Pumps ==
  TakesMessage \/ Replaces \/ Breaks \/ DoWork \/ DoDelayedWork \/ DoIdleWork \/ WakeUp
Loops == ModalTakes \/ HandleWorkMessage

Next ==
  \/ Post \/ SwapFlag \/ SendFlag \/ Input \/ TakesSent \/ AttachedMouse
  \/ Starts \/ Pumps \/ Loops
  \/ OpensModal \/ ModalEnds
  \/ ProgramPosts \/ ProgramQuits \/ HandlerReturns \/ TaskEnds
  \/ Clock

Spec == Init /\ [][Next]_vars

\* Both threads are scheduled, the clock goes on, and neither a task, a window
\* nor a loop of the system takes for ever, however often they are interrupted.
Fairness ==
  /\ WF_vars(Pumps) /\ WF_vars(Loops) /\ WF_vars(SwapFlag) /\ WF_vars(SendFlag)
  /\ WF_vars(Clock) /\ WF_vars(Starts)
  /\ SF_vars(TaskEnds) /\ SF_vars(HandlerReturns) /\ SF_vars(ModalEnds)

FairSpec == Spec /\ Fairness

-----------------------------------------------------------------------------
(* Properties                                                              *)

TypeOK ==
  /\ LoopTypeOK
  /\ {haveWork, sending, quitMsg, more, shouldQuit, handling, lent} \subseteq BOOLEAN
  /\ msgs \in Seq({"work", "other"}) /\ Len(msgs) <= QueueSize
  /\ timer \in 0..MaxTime /\ wake \in 0..MaxTime
  /\ at \in {"message", "sent", "replace", "work", "delayed", "idle", "asleep", "waiting"}
  /\ modal \in {"no", "handler", "task"}
  /\ call \in {"none", "replace", "work", "timer", "timerwork"}
  /\ outer \in {"no", "handler"} \X {"none", "work", "timer", "timerwork"}

\* have_work_ is up exactly while one kMsgHaveWork is on its way, in the queue
\* or in hand: never two, so that the message taken in its place is another
\* one ("there is no chance for a kMsgHaveWork to be pending"), and never none,
\* so that no announcement is swallowed.
Queued == \E i \in DOMAIN msgs : msgs[i] = "work"
InHand == at = "replace" \/ call = "replace"

OneMessage ==
  /\ haveWork <=> (Queued \/ InHand \/ sending)
  /\ ~(Queued /\ InHand) /\ ~(Queued /\ sending) /\ ~(InHand /\ sending)
  /\ ~(at = "replace" /\ call = "replace")
  /\ \A i, j \in DOMAIN msgs : msgs[i] = "work" /\ msgs[j] = "work" => i = j

\* The thread does not sleep on a task, whatever window messages came between
\* the post and the sleep, nor beyond the time of a delayed one; where input of
\* another thread's windows has sent it on to WaitMessage, a task that is there
\* has its announcement in the queue at least.
NoLostWakeup ==
  /\ In("asleep") \/ In("waiting") => (msgs = <<>> /\ ~posting => Loaded = <<>>)
  /\ In("asleep") => \A e \in delayed : wake # 0 /\ wake <= e.task.due

\* Once a message was dispatched in the place of kMsgHaveWork, a loop of the
\* system it opens runs all tasks, those posted later as well: work is
\* announced for as long as there is any ("Guarantee we'll get another time
\* slice in the case where we go into native windows code"), unless a delayed
\* task run by WM_TIMER in that loop opens one of its own.
NativeLoopServed ==
  lent /\ modal = "handler" /\ InModal /\ ~posting /\ Loaded # <<>> => Queued

\* Tasks start in turn and never inside one another, however many loops of the
\* system they and the windows open: the UI loop implements TaskQueue too.
Queue == INSTANCE TaskQueue WITH
  pending <- Pending,
  running <- [d \in Runs |-> run[d].task]

Implements == Queue!Spec

\* Each task is started, unless the run ends first, if loops of the system end
\* and WaitMessage always returns.
EveryTaskRuns ==
  []<>(at # "waiting") =>
    \A i \in 1..MaxTask :
      (depth > 0 /\ \E t \in Pending : t.id = i)
        ~> (depth = 0 \/ \A t \in Pending : t.id # i)

\* The comment of WaitForWork: it waits "until a message is available, up to the
\* time needed by the timer manager to fire the next set of timers".
WaitsUntilTimer ==
  ((In("asleep") \/ In("waiting")) /\ wake # 0 /\ wake <= now) ~> ~(In("asleep") \/ In("waiting"))

\* win_ui_message_pump.cpp says that the system timer is set besides, so that
\* delayed tasks fire in loops of the system: where tasks may run, a delayed
\* one that is held has its WM_TIMER.
TimersInNativeLoops ==
  modal = "handler" /\ InModal => (delayed # {} => timer # 0)

\* The comment of ScheduleWork says that the message wakes a sleeping pump:
\* once the post is through, a pump asleep on a task has a message waiting.
PostWakes ==
  In("asleep") /\ incoming # <<>> /\ ~posting => msgs # <<>>
===============================================================================
