---------------------------- MODULE ThreadsProofs ----------------------------
(***************************************************************************)
(* Posting down the order in which the threads are stopped is sound, and   *)
(* what is posted that way is done, for any number of workers and of       *)
(* posts.                                                                  *)
(*                                                                         *)
(* The argument follows the order of MainThread: a worker's loop can end   *)
(* only after it was told to quit, it is told only when all that are       *)
(* stopped before it have ended, and those are the ones that may post to   *)
(* it; and the UI thread stays registered until all workers have ended.    *)
(***************************************************************************)
EXTENDS Threads, TLAPS

\* A thread that runs a task is running, and only such a thread is in PostTask.
BusyRuns ==
  \A t \in Threads : /\ busy[t] => phase[t] = "running"
                     /\ look[t].at # "none" => busy[t]

\* The UI thread runs until the workers are stopped, and is registered until
\* they are.
UiStays ==
  /\ main \in {"starting", "running"} <=> phase[0] = "running"
  /\ phase[0] \notin {"off", "created"}
  /\ phase[0] \notin {"running", "left"} => main \in {"leaving", "gone"}

AllStopped == main \in {"leaving", "gone"}
Stopping   == main \in {"stopping", "closing"}

\* MainThread has told worker t to quit, and has seen it end.
Told(t)  == AllStopped \/ (Stopping /\ (t < cur \/ (t = cur /\ main = "closing")))
Ended(t) == AllStopped \/ (Stopping /\ t < cur)

HasQuit(t) == \E i \in DOMAIN queue[t] : queue[t][i] = Quit

Past(t) == phase[t] \in {"left", "unregistered", "emptied", "closed", "freed", "ended"}

QuitIsTold == \A t \in Workers : quit[t] \/ HasQuit(t) => Told(t)
PastIsQuit == \A t \in Workers : Past(t) => quit[t]
EndedEnded == \A t \in Workers : Ended(t) => phase[t] = "ended"

\* A thread that a poster upstream holds is registered.
Held(t) == phase[t] = "running" \/ (t = 0 /\ phase[0] = "left")

HeldRuns ==
  \A p \in Threads : look[p].at # "none" /\ Downstream(p, look[p].to) => Held(look[p].to)

\* A loop that has ended holds no task from upstream.
NothingLeft ==
  \A t \in Workers : Past(t) =>
    \A i \in DOMAIN queue[t] : queue[t][i] \in Threads => ~Downstream(queue[t][i], t)

Order == BusyRuns /\ UiStays /\ QuitIsTold /\ PastIsQuit /\ EndedEnded
IInv  == TypeOK /\ Order /\ HeldRuns /\ NothingLeft /\ HandedOnIsDone

-----------------------------------------------------------------------------
(* Sequences, and the numbers of posters.                                  *)

LEMMA TailItems ==
  ASSUME NEW S, NEW s \in Seq(S), s # <<>>
  PROVE  /\ Head(s) \in S /\ Head(s) = s[1] /\ 1 \in DOMAIN s
         /\ Tail(s) \in Seq(S)
         /\ \A i \in DOMAIN Tail(s) : i + 1 \in DOMAIN s /\ Tail(s)[i] = s[i + 1]
  OBVIOUS

LEMMA AppendItems ==
  ASSUME NEW S, NEW s \in Seq(S), NEW x \in S
  PROVE  /\ Append(s, x) \in Seq(S)
         /\ \A i \in DOMAIN Append(s, x) :
              Append(s, x)[i] = x \/ (i \in DOMAIN s /\ Append(s, x)[i] = s[i])
  OBVIOUS

LEMMA Numbers == /\ Quit \in Task /\ Quit \notin Threads /\ Outside \notin Threads
                 /\ Threads \subseteq Posters /\ Posters \subseteq Task
                 /\ Workers \subseteq Threads /\ 0 \in Threads /\ 0 \notin Workers
                 /\ \A p \in Posters : p \in Threads \/ p = Outside
                 /\ \A t \in Threads : t \in Workers \/ t = 0
                 /\ \A t \in Workers : t \in Nat /\ (t < N => t + 1 \in Workers) /\ t <= N
                 /\ 1 \in Workers /\ N \in Nat
  BY ThreadsAssumption DEF Workers, Threads, Outside, Posters, Quit, Task

\* The names of the phases, one by one.
LEMMA PhaseNames ==
  /\ "running" \in Phases /\ "created" \in Phases /\ "left" \in Phases
  /\ "unregistered" \in Phases /\ "emptied" \in Phases /\ "closed" \in Phases
  /\ "freed" \in Phases /\ "ended" \in Phases
  BY DEF Phases

-----------------------------------------------------------------------------
(* Which actions change which variables.                                   *)

LEMMA Changes ==
  ASSUME [Next]_vars
  PROVE
    /\ phase' = phase \/ StartThread \/ UiLoopEnds
        \/ (\E t \in Threads : Begin(t) \/ LoopEnds(t) \/ Cleanup(t) \/ DropTasks(t) \/ DeleteLoop(t))
    /\ deleted' = deleted \/ Close \/ MainGone
    /\ queue' = queue \/ StopSoon \/ (\E t \in Threads : TakeTask(t) \/ DropTasks(t))
        \/ (\E p \in Posters : PostTask(p))
    /\ busy' = busy \/ (\E t \in Threads : TakeTask(t) \/ TaskEnds(t))
    /\ quit' = quit \/ (\E t \in Threads : TakeTask(t))
    /\ look' = look \/ (\E p \in Posters : ReadLoop(p) \/ ReadProxy(p) \/ PostTask(p))
        \/ (\E p \in Posters, t \in Threads : FindThread(p, t))
    /\ main' = main \/ ThreadStarted \/ UiLoopEnds \/ StopSoon \/ Close \/ MainGone
    /\ cur' = cur \/ ThreadStarted \/ UiLoopEnds \/ Close
    /\ posts' = posts \/ (\E p \in Posters, t \in Threads : FindThread(p, t))
    /\ lost' = lost \/ (\E t \in Threads : DropTasks(t))
<1>1. CASE UNCHANGED vars
  BY <1>1 DEF vars
<1>2. CASE StartThread
  BY <1>2 DEF StartThread
<1>3. CASE ThreadStarted
  BY <1>3 DEF ThreadStarted
<1>4. CASE StopSoon
  BY <1>4 DEF StopSoon
<1>5. CASE Close
  BY <1>5 DEF Close
<1>6. CASE MainGone
  BY <1>6 DEF MainGone
<1>7. CASE UiLoopEnds
  BY <1>7 DEF UiLoopEnds
<1>8. CASE \E t \in Threads : Begin(t)
  BY <1>8 DEF Begin
<1>9. CASE \E t \in Threads : TakeTask(t)
  BY <1>9 DEF TakeTask
<1>10. CASE \E t \in Threads : TaskEnds(t)
  BY <1>10 DEF TaskEnds
<1>11. CASE \E t \in Threads : LoopEnds(t)
  BY <1>11 DEF LoopEnds
<1>12. CASE \E t \in Threads : Cleanup(t)
  BY <1>12 DEF Cleanup
<1>13. CASE \E t \in Threads : DropTasks(t)
  BY <1>13 DEF DropTasks
<1>14. CASE \E t \in Threads : DeleteLoop(t)
  BY <1>14 DEF DeleteLoop
<1>15. CASE \E p \in Posters : ReadLoop(p)
  BY <1>15 DEF ReadLoop, Looks
<1>16. CASE \E p \in Posters : ReadProxy(p)
  BY <1>16 DEF ReadProxy, Looks
<1>17. CASE \E p \in Posters : PostTask(p)
  BY <1>17 DEF PostTask, Looks
<1>18. CASE \E p \in Posters, t \in Threads : FindThread(p, t)
  BY <1>18 DEF FindThread, Looks
<1> QED
  BY <1>1, <1>2, <1>3, <1>4, <1>5, <1>6, <1>7, <1>8, <1>9, <1>10, <1>11, <1>12, <1>13, <1>14, <1>15, <1>16, <1>17, <1>18 DEF Next, MainSteps, RunSteps, PostSteps

-----------------------------------------------------------------------------
(* The types.                                                              *)

\* A thread that has ended stays so: the UI thread's loop ends once.
LEMMA EndedStays ==
  ASSUME TypeOK, UiStays, [Next]_vars, NEW t \in Threads, phase[t] = "ended"
  PROVE  phase'[t] = "ended"
<1>1. CASE StartThread
  BY <1>1 DEF TypeOK, StartThread
<1>2. CASE UiLoopEnds
  BY <1>2 DEF TypeOK, UiLoopEnds, UiStays
<1>3. CASE \E s \in Threads : Begin(s) \/ LoopEnds(s) \/ Cleanup(s)
  BY <1>3 DEF TypeOK, Begin, LoopEnds, Cleanup
<1>4. CASE \E s \in Threads : DropTasks(s) \/ DeleteLoop(s)
  BY <1>4 DEF TypeOK, DropTasks, DeleteLoop
<1> QED
  BY <1>1, <1>2, <1>3, <1>4, Changes

LEMMA Types ==
  ASSUME TypeOK, UiStays, [Next]_vars
  PROVE  TypeOK'
<1>1. phase' \in [Threads -> Phases]
  <2> phase \in [Threads -> Phases]
    BY DEF TypeOK
  <2>1. CASE StartThread \/ UiLoopEnds
    BY <2>1, PhaseNames DEF StartThread, UiLoopEnds
  <2>2. CASE \E t \in Threads : Begin(t) \/ LoopEnds(t) \/ Cleanup(t)
    BY <2>2, PhaseNames DEF Begin, LoopEnds, Cleanup
  <2>3. CASE \E t \in Threads : DropTasks(t) \/ DeleteLoop(t)
    BY <2>3, PhaseNames DEF DropTasks, DeleteLoop
  <2> QED
    BY <2>1, <2>2, <2>3, Changes
<1>2. deleted' \subseteq {t \in Threads : phase'[t] = "ended"}
  <2> \A t \in deleted : t \in Threads /\ phase[t] = "ended"
    BY DEF TypeOK
  <2>1. \A t \in deleted' : t \in Threads /\ phase[t] = "ended"
    <3>1. CASE Close
      <4>1. cur \in Threads
        BY Numbers DEF TypeOK
      <4> QED
        BY <3>1, <4>1 DEF Close
    <3>2. CASE MainGone
      BY <3>2, Numbers DEF MainGone
    <3> QED
      BY <3>1, <3>2, Changes
  <2> QED
    BY <2>1, EndedStays
<1>3. queue' \in [Threads -> Seq(Task)]
  <2> queue \in [Threads -> Seq(Task)]
    BY DEF TypeOK
  <2>1. CASE StopSoon
    <3>1. cur \in Threads /\ Append(queue[cur], Quit) \in Seq(Task)
      BY AppendItems, Numbers DEF TypeOK
    <3> QED
      BY <2>1, <3>1 DEF StopSoon
  <2>2. CASE \E t \in Threads : TakeTask(t)
    <3>1. PICK t \in Threads : TakeTask(t)
      BY <2>2
    <3>2. Tail(queue[t]) \in Seq(Task)
      BY <3>1, TailItems DEF TakeTask
    <3> QED
      BY <3>1, <3>2 DEF TakeTask
  <2>3. CASE \E t \in Threads : DropTasks(t)
    <3>1. <<>> \in Seq(Task)
      OBVIOUS
    <3> QED
      BY <2>3, <3>1 DEF DropTasks
  <2>4. CASE \E p \in Posters : PostTask(p)
    <3>1. PICK p \in Posters : PostTask(p)
      BY <2>4
    <3>2. look[p].to \in Threads /\ Append(queue[look[p].to], p) \in Seq(Task)
      BY AppendItems, Numbers DEF TypeOK
    <3> QED
      BY <3>1, <3>2 DEF PostTask
  <2> QED
    BY <2>1, <2>2, <2>3, <2>4, Changes
<1>4. busy' \in [Threads -> BOOLEAN] /\ quit' \in [Threads -> BOOLEAN]
  <2>1. busy' \in [Threads -> BOOLEAN]
    BY Changes DEF TypeOK, TakeTask, TaskEnds
  <2>2. quit' \in [Threads -> BOOLEAN]
    BY Changes DEF TypeOK, TakeTask
  <2> QED
    BY <2>1, <2>2
<1>5. look' \in [Posters -> [at : {"none", "thread", "loop", "proxy"}, to : Threads]]
  <2> DEFINE Look == [at : {"none", "thread", "loop", "proxy"}, to : Threads]
  <2> look \in [Posters -> Look] /\ Idle \in Look
    BY Numbers DEF TypeOK, Idle
  <2>1. \A p \in Posters : /\ [look[p] EXCEPT !.at = "loop"] \in Look
                           /\ [look[p] EXCEPT !.at = "proxy"] \in Look
    OBVIOUS
  <2>2. \A t \in Threads : [at |-> "thread", to |-> t] \in Look
    OBVIOUS
  <2> HIDE DEF Look
  <2>3. ASSUME NEW p \in Posters, NEW l \in Look, Looks(p, l)
        PROVE  look' \in [Posters -> Look]
    BY <2>3 DEF Looks
  <2>4. ASSUME NEW p \in Posters, NEW t \in Threads, FindThread(p, t)
        PROVE  look' \in [Posters -> Look]
    BY <2>2, <2>3, <2>4 DEF FindThread
  <2>5. ASSUME NEW p \in Posters, ReadLoop(p) \/ ReadProxy(p) \/ PostTask(p)
        PROVE  look' \in [Posters -> Look]
    <3>1. PICK l \in Look : Looks(p, l)
      BY <2>1, <2>5 DEF ReadLoop, ReadProxy, PostTask
    <3> QED
      BY <3>1, <2>3
  <2> look' \in [Posters -> Look]
    BY <2>4, <2>5, Changes
  <2> QED
    BY DEF Look
<1>6. main' \in {"starting", "running", "stopping", "closing", "leaving", "gone"}
  BY Changes DEF TypeOK, ThreadStarted, UiLoopEnds, StopSoon, Close, MainGone
<1>7. cur' \in Workers
  <2> cur \in Workers
    BY DEF TypeOK
  <2> QED
    BY Numbers, Changes DEF ThreadStarted, UiLoopEnds, Close
<1>8. posts' \in 0..MaxPosts
  <2> posts \in 0..MaxPosts
    BY DEF TypeOK
  <2>1. ASSUME NEW p \in Posters, NEW t \in Threads, FindThread(p, t)
        PROVE  posts' \in 0..MaxPosts
    <3>1. posts < MaxPosts /\ posts' = posts + 1
      BY <2>1 DEF FindThread
    <3> QED
      BY <3>1, ThreadsAssumption
  <2> QED
    BY <2>1, Changes
<1>9. lost' \subseteq Task \X Threads
  <2> lost \subseteq Task \X Threads /\ queue \in [Threads -> Seq(Task)]
    BY DEF TypeOK
  <2>1. CASE \E t \in Threads : DropTasks(t)
    <3>1. PICK t \in Threads : DropTasks(t)
      BY <2>1
    <3>2. \A i \in DOMAIN queue[t] : queue[t][i] \in Task
      OBVIOUS
    <3>3. DroppedBy(t) \subseteq Task \X Threads
      BY <3>2 DEF DroppedBy
    <3> QED
      BY <3>1, <3>3 DEF DropTasks
  <2> QED
    BY <2>1, Changes
<1> QED
  BY <1>1, <1>2, <1>3, <1>4, <1>5, <1>6, <1>7, <1>8, <1>9 DEF TypeOK

-----------------------------------------------------------------------------
(* The order of MainThread.                                                *)

LEMMA BusyStep ==
  ASSUME TypeOK, BusyRuns, [Next]_vars
  PROVE  BusyRuns'
<1> phase \in [Threads -> Phases] /\ busy \in [Threads -> BOOLEAN]
  BY DEF TypeOK
<1> look \in [Posters -> [at : {"none", "thread", "loop", "proxy"}, to : Threads]]
  BY DEF TypeOK
<1> SUFFICES ASSUME NEW t \in Threads
             PROVE  (busy'[t] => phase'[t] = "running") /\ (look'[t].at # "none" => busy'[t])
  BY DEF BusyRuns
<1>0. (busy[t] => phase[t] = "running") /\ (look[t].at # "none" => busy[t])
  BY DEF BusyRuns
<1>1. CASE StartThread \/ UiLoopEnds
  BY <1>0, <1>1 DEF StartThread, UiLoopEnds
<1>2. CASE \E s \in Threads : Begin(s) \/ LoopEnds(s) \/ Cleanup(s)
  BY <1>0, <1>2 DEF Begin, LoopEnds, Cleanup
<1>3. CASE \E s \in Threads : DropTasks(s) \/ DeleteLoop(s)
  BY <1>0, <1>3 DEF DropTasks, DeleteLoop
<1>4. CASE \E s \in Threads : TakeTask(s)
  BY <1>0, <1>4 DEF TakeTask
<1>5. CASE \E s \in Threads : TaskEnds(s)
  BY <1>0, <1>5 DEF TaskEnds, Idle
<1>6. ASSUME NEW p \in Posters, NEW l, Looks(p, l), p \in Threads => busy[p]
      PROVE  (busy'[t] => phase'[t] = "running") /\ (look'[t].at # "none" => busy'[t])
  BY <1>0, <1>6, Numbers DEF Looks
<1>7. ASSUME NEW p \in Posters, look[p].at # "none", p \in Threads
      PROVE  busy[p]
  BY <1>7 DEF BusyRuns
<1>8. ASSUME NEW p \in Posters, NEW s \in Threads, FindThread(p, s)
      PROVE  (busy'[t] => phase'[t] = "running") /\ (look'[t].at # "none" => busy'[t])
  <2>1. p \in Threads => busy[p]
    BY <1>8, Numbers DEF FindThread
  <2> QED
    BY <1>6, <1>8, <2>1 DEF FindThread
<1>9. ASSUME NEW p \in Posters, ReadLoop(p) \/ ReadProxy(p) \/ PostTask(p)
      PROVE  (busy'[t] => phase'[t] = "running") /\ (look'[t].at # "none" => busy'[t])
  <2>1. look[p].at # "none" /\ \E l : Looks(p, l)
    BY <1>9 DEF ReadLoop, ReadProxy, PostTask
  <2> QED
    BY <1>6, <1>7, <2>1
<1>10. CASE phase' = phase /\ busy' = busy /\ look' = look
  BY <1>0, <1>10
<1> QED
  BY <1>1, <1>2, <1>3, <1>4, <1>5, <1>8, <1>9, <1>10, Changes

LEMMA UiStep ==
  ASSUME TypeOK, UiStays, [Next]_vars
  PROVE  UiStays'
<1> phase \in [Threads -> Phases] /\ 0 \in Threads
  BY Numbers DEF TypeOK
<1>1. CASE StartThread
  BY <1>1 DEF StartThread, UiStays
<1>2. CASE UiLoopEnds
  BY <1>2 DEF UiLoopEnds, UiStays
<1>3. CASE \E t \in Threads : Begin(t) \/ LoopEnds(t) \/ Cleanup(t)
  BY <1>3 DEF Begin, LoopEnds, Cleanup, UiStays
<1>4. CASE \E t \in Threads : DropTasks(t) \/ DeleteLoop(t)
  BY <1>4 DEF DropTasks, DeleteLoop, UiStays
<1>5. CASE ThreadStarted \/ StopSoon
  BY <1>5 DEF ThreadStarted, StopSoon, UiStays
<1>6. CASE Close \/ MainGone
  BY <1>6 DEF Close, MainGone, UiStays
<1>7. CASE phase' = phase /\ main' = main
  BY <1>7 DEF UiStays
<1> QED
  BY <1>1, <1>2, <1>3, <1>4, <1>5, <1>6, <1>7, Changes

\* MainThread goes on from worker to worker: who is told stays told, and
\* before the UI thread's loop ends nobody is.
LEMMA ToldStays ==
  ASSUME TypeOK, [Next]_vars, NEW t \in Workers, Told(t)
  PROVE  Told(t)'
<1> cur \in Workers /\ t \in Int /\ \A s \in Workers : s \in Int
  BY Numbers DEF TypeOK
<1>1. CASE ThreadStarted \/ UiLoopEnds \/ StopSoon \/ MainGone
  BY <1>1 DEF ThreadStarted, UiLoopEnds, StopSoon, MainGone, Told, AllStopped, Stopping
<1>2. CASE Close
  BY <1>2 DEF Close, Told, AllStopped, Stopping
<1>3. CASE main' = main /\ cur' = cur
  BY <1>3 DEF Told, AllStopped, Stopping
<1> QED
  BY <1>1, <1>2, <1>3, Changes

LEMMA QuitStep ==
  ASSUME TypeOK, QuitIsTold, [Next]_vars
  PROVE  QuitIsTold'
<1> queue \in [Threads -> Seq(Task)] /\ quit \in [Threads -> BOOLEAN] /\ cur \in Workers
  BY DEF TypeOK
<1> SUFFICES ASSUME NEW t \in Workers, quit'[t] \/ HasQuit(t)'
             PROVE  Told(t) \/ Told(t)'
  BY ToldStays DEF QuitIsTold
<1>0. t \in Threads /\ (quit[t] \/ HasQuit(t) => Told(t))
  BY Numbers DEF QuitIsTold
<1>1. CASE StopSoon
  <2>1. CASE t = cur
    BY <1>1, <2>1 DEF StopSoon, Told, Stopping
  <2>2. CASE t # cur
    BY <1>0, <1>1, <2>2 DEF StopSoon, HasQuit
  <2> QED
    BY <2>1, <2>2
<1>2. CASE \E s \in Threads : TakeTask(s)
  <2>1. PICK s \in Threads : TakeTask(s)
    BY <1>2
  <2>2. CASE s = t
    <3>1. /\ Head(queue[t]) = queue[t][1] /\ 1 \in DOMAIN queue[t]
          /\ \A i \in DOMAIN Tail(queue[t]) :
               i + 1 \in DOMAIN queue[t] /\ Tail(queue[t])[i] = queue[t][i + 1]
      BY <2>1, <2>2, TailItems DEF TakeTask
    <3>2. queue'[t] = Tail(queue[t]) /\ (quit'[t] <=> quit[t] \/ Head(queue[t]) = Quit)
      BY <2>1, <2>2, <1>0 DEF TakeTask
    <3>3. CASE quit'[t]
      BY <1>0, <3>1, <3>2, <3>3 DEF HasQuit
    <3>4. CASE HasQuit(t)'
      BY <1>0, <3>1, <3>2, <3>4 DEF HasQuit
    <3> QED
      BY <3>3, <3>4
  <2>3. CASE s # t
    BY <1>0, <2>1, <2>3 DEF TakeTask, HasQuit
  <2> QED
    BY <2>2, <2>3
<1>3. CASE \E s \in Threads : DropTasks(s)
  BY <1>0, <1>3 DEF DropTasks, HasQuit
<1>4. CASE \E p \in Posters : PostTask(p)
  <2>1. PICK p \in Posters : PostTask(p)
    BY <1>4
  <2>2. p # Quit
    BY ThreadsAssumption DEF Posters, Quit
  <2>3. \A i \in DOMAIN Append(queue[t], p) :
           Append(queue[t], p)[i] = p
           \/ (i \in DOMAIN queue[t] /\ Append(queue[t], p)[i] = queue[t][i])
    BY <1>0, AppendItems, Numbers
  <2>4. queue'[t] \in {queue[t], Append(queue[t], p)} /\ quit' = quit
    BY <1>0, <2>1 DEF PostTask, Looks
  <2> QED
    BY <1>0, <2>2, <2>3, <2>4 DEF HasQuit
<1>5. CASE queue' = queue /\ quit' = quit
  BY <1>0, <1>5 DEF HasQuit
<1> QED
  BY <1>1, <1>2, <1>3, <1>4, <1>5, Changes

LEMMA PastStep ==
  ASSUME TypeOK, PastIsQuit, [Next]_vars
  PROVE  PastIsQuit'
<1> phase \in [Threads -> Phases] /\ quit \in [Threads -> BOOLEAN]
  BY DEF TypeOK
<1> SUFFICES ASSUME NEW t \in Workers
             PROVE  Past(t)' => quit'[t]
  BY DEF PastIsQuit
<1>0. t \in Threads /\ t # 0 /\ (Past(t) => quit[t])
  BY Numbers DEF PastIsQuit
<1>1. CASE StartThread \/ UiLoopEnds
  BY <1>0, <1>1 DEF StartThread, UiLoopEnds, Past
<1>2. CASE \E s \in Threads : Begin(s) \/ LoopEnds(s) \/ Cleanup(s)
  BY <1>0, <1>2 DEF Begin, LoopEnds, Cleanup, Past
<1>3. CASE \E s \in Threads : DropTasks(s) \/ DeleteLoop(s)
  BY <1>0, <1>3 DEF DropTasks, DeleteLoop, Past
<1>4. CASE \E s \in Threads : TakeTask(s)
  BY <1>0, <1>4 DEF TakeTask, Past
<1>5. CASE phase' = phase /\ quit' = quit
  BY <1>0, <1>5 DEF Past
<1> QED
  BY <1>1, <1>2, <1>3, <1>4, <1>5, Changes

LEMMA EndedStep ==
  ASSUME TypeOK, UiStays, EndedEnded, [Next]_vars
  PROVE  EndedEnded'
<1> cur \in Workers /\ \A s \in Workers : s \in Int /\ s <= N
  BY Numbers DEF TypeOK
<1> SUFFICES ASSUME NEW t \in Workers, Ended(t)'
             PROVE  phase[t] = "ended"
  BY EndedStays, Numbers DEF EndedEnded
<1>0. Ended(t) => phase[t] = "ended"
  BY DEF EndedEnded
<1>1. CASE ThreadStarted \/ StopSoon \/ MainGone
  BY <1>0, <1>1 DEF ThreadStarted, StopSoon, MainGone, Ended, AllStopped, Stopping
<1>2. CASE UiLoopEnds
  <2>1. t >= 1
    BY DEF Workers
  <2> QED
    BY <1>2, <2>1 DEF UiLoopEnds, Ended, AllStopped, Stopping
<1>3. CASE Close
  <2>1. main = "closing" /\ phase[cur] = "ended" /\ (t < cur => phase[t] = "ended")
    BY <1>0, <1>3 DEF Close, Ended, Stopping
  <2>2. cur < N => main' = "stopping" /\ cur' = cur + 1
    BY <1>3 DEF Close
  <2>3. t <= cur
    BY <2>1, <2>2, Numbers DEF Ended, AllStopped
  <2> QED
    BY <2>1, <2>3
<1>4. CASE main' = main /\ cur' = cur
  BY <1>0, <1>4 DEF Ended, AllStopped, Stopping
<1> QED
  BY <1>1, <1>2, <1>3, <1>4, Changes

LEMMA OrderStep ==
  ASSUME TypeOK, Order, [Next]_vars
  PROVE  Order'
BY BusyStep, UiStep, QuitStep, PastStep, EndedStep DEF Order

-----------------------------------------------------------------------------
(* What the order gives: upstream of a worker that was told to quit nothing *)
(* runs any more.                                                          *)

LEMMA NobodyUpstream ==
  ASSUME TypeOK, Order, NEW p \in Threads, busy[p], NEW t \in Workers, quit[t], Downstream(p, t)
  PROVE  FALSE
<1>1. Told(t) /\ phase[p] = "running"
  BY DEF Order, QuitIsTold, BusyRuns
<1>2. CASE p = 0
  BY <1>1, <1>2 DEF Order, UiStays, Told, AllStopped, Stopping
<1>3. CASE p \in Workers /\ p < t
  <2>1. cur \in Workers /\ \A s \in Workers : s \in Int
    BY Numbers DEF TypeOK
  <2>2. Ended(p)
    BY <1>1, <1>3, <2>1 DEF Told, Ended
  <2> QED
    BY <1>1, <1>3, <2>2 DEF Order, EndedEnded
<1> QED
  BY <1>2, <1>3, Numbers DEF Downstream

\* Nor does anything run once the UI thread is out of the map.
LEMMA UiLast ==
  ASSUME TypeOK, Order, NEW p \in Threads, busy[p], main \in {"leaving", "gone"}
  PROVE  FALSE
<1>1. CASE p = 0
  BY <1>1 DEF Order, BusyRuns, UiStays
<1>2. CASE p \in Workers
  BY <1>2 DEF Order, BusyRuns, EndedEnded, Ended, AllStopped
<1> QED
  BY <1>1, <1>2, Numbers

\* A thread that an upstream task holds stays registered.
LEMMA HeldStays ==
  ASSUME TypeOK, Order, [Next]_vars,
         NEW p \in Threads, busy[p], NEW t \in Threads, Downstream(p, t), Held(t)
  PROVE  Held(t)'
<1> phase \in [Threads -> Phases]
  BY DEF TypeOK
<1>1. CASE StartThread \/ UiLoopEnds
  BY <1>1, Numbers DEF StartThread, UiLoopEnds, Held
<1>2. CASE \E s \in Threads : LoopEnds(s)
  <2>1. PICK s \in Threads : LoopEnds(s)
    BY <1>2
  <2>2. s # t
    <3>1. s \in Workers /\ quit[s]
      BY <2>1, Numbers DEF LoopEnds
    <3> QED
      BY <3>1, NobodyUpstream
  <2> QED
    BY <2>1, <2>2, Numbers DEF LoopEnds, Held
<1>3. CASE \E s \in Threads : Cleanup(s)
  <2>1. PICK s \in Threads : Cleanup(s)
    BY <1>3
  <2>2. s # t \/ t # 0
    BY <2>1, UiLast DEF Cleanup
  <2> QED
    BY <2>1, <2>2, Numbers DEF Cleanup, Held
<1>4. CASE \E s \in Threads : Begin(s) \/ DropTasks(s) \/ DeleteLoop(s)
  BY <1>4, Numbers DEF Begin, DropTasks, DeleteLoop, Held
<1>5. CASE phase' = phase
  BY <1>5 DEF Held
<1> QED
  BY <1>1, <1>2, <1>3, <1>4, <1>5, Changes

LEMMA HeldStep ==
  ASSUME TypeOK, Order, HeldRuns, [Next]_vars
  PROVE  HeldRuns'
<1> look \in [Posters -> [at : {"none", "thread", "loop", "proxy"}, to : Threads]]
  BY DEF TypeOK
<1> DEFINE Kept(t) == phase'[t] = "running" \/ (t = 0 /\ phase'[0] = "left")
<1> SUFFICES ASSUME NEW p \in Threads, look'[p].at # "none", Downstream(p, look'[p].to)
             PROVE  Kept(look'[p].to)
  BY Zenon DEF HeldRuns, Downstream, Held
<1>0. p \in Posters /\ look[p].to \in Threads
  BY Numbers
<1>1. CASE \E s \in Posters, t \in Threads : FindThread(s, t)
  <2>1. PICK s \in Posters, t \in Threads : FindThread(s, t)
    BY <1>1
  <2>2. CASE s = p
    <3>1. look'[p].to = t /\ phase' = phase /\ Registered(t) /\ busy[p]
      BY <1>0, <2>1, <2>2, Numbers DEF FindThread, Looks
    <3>2. t \in Workers => phase[t] = "running"
      <4> SUFFICES ASSUME t \in Workers, phase[t] = "left"
                   PROVE  FALSE
        BY <3>1 DEF Registered
      <4>1. quit[t]
        BY DEF Order, PastIsQuit, Past
      <4> QED
        BY <3>1, <4>1, NobodyUpstream
    <3> QED
      BY <3>1, <3>2, Numbers DEF Registered, Held
  <2>3. CASE s # p
    <3>1. look'[p] = look[p] /\ phase' = phase
      BY <1>0, <2>1, <2>3 DEF FindThread, Looks
    <3> QED
      BY <3>1 DEF HeldRuns, Held
  <2> QED
    BY <2>2, <2>3
<1>2. CASE \E s \in Posters : ReadLoop(s) \/ ReadProxy(s) \/ PostTask(s)
  <2>1. /\ phase' = phase
        /\ look'[p] = look[p] \/ look'[p] = Idle \/ (look'[p].to = look[p].to /\ look[p].at # "none")
    BY <1>0, <1>2 DEF ReadLoop, ReadProxy, PostTask, Looks
  <2>2. look'[p].to = look[p].to /\ look[p].at # "none"
    BY <2>1 DEF Idle
  <2> QED
    BY <2>1, <2>2 DEF HeldRuns, Held
<1>3. CASE look' = look
  <2>1. busy[p] /\ Held(look[p].to)
    BY <1>3 DEF Order, BusyRuns, HeldRuns
  <2>2. Kept(look[p].to)
    <3> DEFINE t == look[p].to
    <3> t \in Threads /\ Held(t) /\ Downstream(p, t)
      BY <1>0, <1>3, <2>1
    <3> HIDE DEF t
    <3>1. ASSUME NEW u \in Threads, Held(u), Downstream(p, u)
          PROVE  Kept(u)
      BY <2>1, <3>1, HeldStays DEF Held
    <3> QED
      BY <3>1 DEF t
  <2> QED
    BY <1>3, <2>2
<1> QED
  BY <1>1, <1>2, <1>3, Changes

\* A loop ends with nothing in it, and nobody upstream is left to post.
LEMMA NothingStep ==
  ASSUME TypeOK, Order, HeldRuns, NothingLeft, [Next]_vars
  PROVE  NothingLeft'
<1> phase \in [Threads -> Phases] /\ queue \in [Threads -> Seq(Task)] /\ cur \in Workers
  BY DEF TypeOK
<1> SUFFICES ASSUME NEW t \in Workers, Past(t)', NEW i \in DOMAIN queue'[t], queue'[t][i] \in Threads
             PROVE  ~Downstream(queue'[t][i], t)
  BY Zenon DEF NothingLeft, Downstream
<1>0. /\ t \in Threads /\ t # 0
      /\ Past(t) => \A j \in DOMAIN queue[t] : queue[t][j] \in Threads => ~Downstream(queue[t][j], t)
  BY Numbers DEF NothingLeft
<1>1. CASE StartThread \/ UiLoopEnds
  BY <1>0, <1>1 DEF StartThread, UiLoopEnds, Past
<1>2. CASE \E s \in Threads : Begin(s) \/ LoopEnds(s) \/ Cleanup(s)
  BY <1>0, <1>2 DEF Begin, LoopEnds, Cleanup, Past
<1>3. CASE \E s \in Threads : DropTasks(s) \/ DeleteLoop(s)
  BY <1>0, <1>3 DEF DropTasks, DeleteLoop, Past
<1>4. CASE StopSoon
  <2>1. \A j \in DOMAIN Append(queue[t], Quit) :
           Append(queue[t], Quit)[j] = Quit
           \/ (j \in DOMAIN queue[t] /\ Append(queue[t], Quit)[j] = queue[t][j])
    BY <1>0, AppendItems, Numbers
  <2>2. queue'[t] \in {queue[t], Append(queue[t], Quit)} /\ phase' = phase
    BY <1>0, <1>4 DEF StopSoon
  <2> QED
    BY <1>0, <2>1, <2>2, Numbers DEF Past
<1>5. CASE \E s \in Threads : TakeTask(s)
  <2>1. PICK s \in Threads : TakeTask(s)
    BY <1>5
  <2>2. s # t
    BY <2>1 DEF TakeTask, Past
  <2> QED
    BY <1>0, <2>1, <2>2 DEF TakeTask, Past
<1>6. CASE \E p \in Posters : PostTask(p)
  <2>1. PICK p \in Posters : PostTask(p)
    BY <1>6
  <2>2. /\ \A j \in DOMAIN Append(queue[t], p) :
              Append(queue[t], p)[j] = p
              \/ (j \in DOMAIN queue[t] /\ Append(queue[t], p)[j] = queue[t][j])
        /\ phase' = phase
    BY <1>0, <2>1, AppendItems, Numbers DEF PostTask, Looks
  <2>3. queue'[t] = queue[t] \/ (queue'[t] = Append(queue[t], p) /\ look[p].to = t)
    BY <1>0, <2>1 DEF PostTask
  <2>4. look[p].to = t /\ p \in Threads => ~Downstream(p, t)
    BY <1>0, <2>1, <2>2 DEF PostTask, HeldRuns, Held, Past
  <2> QED
    BY <1>0, <2>2, <2>3, <2>4 DEF Past
<1>7. CASE phase' = phase /\ queue' = queue
  BY <1>0, <1>7 DEF Past
<1> QED
  BY <1>1, <1>2, <1>3, <1>4, <1>5, <1>6, <1>7, Changes

LEMMA HandedStep ==
  ASSUME TypeOK, NothingLeft, HandedOnIsDone, [Next]_vars
  PROVE  HandedOnIsDone'
<1>1. CASE \E t \in Threads : DropTasks(t)
  <2>1. PICK s \in Threads : DropTasks(s)
    BY <1>1
  <2>2. SUFFICES ASSUME NEW p \in Threads, NEW t \in Workers, Downstream(p, t), <<p, t>> \in lost'
                 PROVE  FALSE
    BY Zenon DEF HandedOnIsDone, Downstream, Threads
  <2>3. <<p, t>> \in DroppedBy(s)
    BY <2>1, <2>2 DEF DropTasks, HandedOnIsDone, Threads
  <2>4. s = t /\ \E i \in DOMAIN queue[t] : queue[t][i] = p
    BY <2>3 DEF DroppedBy
  <2>5. Past(t)
    BY <2>1, <2>4 DEF DropTasks, Past
  <2> QED
    BY <2>2, <2>4, <2>5 DEF NothingLeft
<1>2. CASE lost' = lost
  BY <1>2 DEF HandedOnIsDone, Downstream
<1> QED
  BY <1>1, <1>2, Changes

-----------------------------------------------------------------------------
(* The theorems.                                                           *)

LEMMA Initially == Init => IInv
<1> SUFFICES ASSUME Init
             PROVE  IInv
  OBVIOUS
<1>0. phase \in [Threads -> Phases] /\ queue = [t \in Threads |-> <<>>]
  BY DEF Init, Phases
<1>1. TypeOK
  <2>1. \A t \in Threads : queue[t] \in Seq(Task)
    BY <1>0
  <2>2. queue \in [Threads -> Seq(Task)]
    BY <1>0, <2>1
  <2>3. look \in [Posters -> [at : {"none", "thread", "loop", "proxy"}, to : Threads]]
    BY Numbers DEF Init, Idle
  <2>4. cur \in Workers /\ posts \in 0..MaxPosts
    BY Numbers, ThreadsAssumption DEF Init
  <2>5. busy \in [Threads -> BOOLEAN] /\ quit \in [Threads -> BOOLEAN]
    BY DEF Init
  <2> QED
    BY <1>0, <2>2, <2>3, <2>4, <2>5 DEF Init, TypeOK
<1>2. BusyRuns
  BY Numbers DEF Init, BusyRuns, Idle
<1>3. UiStays
  BY Numbers DEF Init, UiStays
<1>4. QuitIsTold
  BY Numbers DEF Init, QuitIsTold, HasQuit
<1>5. PastIsQuit
  BY Numbers DEF Init, PastIsQuit, Past
<1>6. EndedEnded
  BY DEF Init, EndedEnded, Ended, AllStopped, Stopping
<1>7. HeldRuns
  BY Numbers DEF Init, HeldRuns, Idle
<1>8. NothingLeft
  BY Numbers DEF Init, NothingLeft, Past
<1>9. HandedOnIsDone
  BY DEF Init, HandedOnIsDone
<1> QED
  BY <1>1, <1>2, <1>3, <1>4, <1>5, <1>6, <1>7, <1>8, <1>9 DEF IInv, Order

LEMMA Step == IInv /\ [Next]_vars => IInv'
BY Types, OrderStep, HeldStep, NothingStep, HandedStep DEF IInv, Order

\* The invariant holds of every reachable state, however many workers there are.
THEOREM Invariance == Spec => []IInv
BY Initially, Step, PTL DEF Spec

\* Every variable has its type: in particular, a thread object is deleted
\* (misc_thread_.reset) only after its thread has ended.
THEOREM TypeCorrect == Spec => []TypeOK
<1>1. IInv => TypeOK
  BY DEF IInv
<1> QED
  BY <1>1, Invariance, PTL

\* Of ThreadManager::PostTask: a task that posts down the order in which the
\* threads are stopped never reads a thread or a loop that is gone.
THEOREM PostingDownstreamIsSound == Spec => []SoundDownstream
<1>1. IInv => SoundDownstream
  <2> SUFFICES ASSUME IInv, NEW p \in Posters, Downstream(p, look[p].to)
               PROVE  Sound(p)
    BY DEF SoundDownstream
  <2>1. p \in Threads
    BY Numbers DEF Downstream
  <2>2. look[p].at # "none" => phase[look[p].to] \in {"running", "left"}
    BY <2>1 DEF IInv, HeldRuns, Held
  <2>3. \A t \in deleted : phase[t] = "ended"
    BY DEF IInv, TypeOK
  <2> QED
    BY <2>2, <2>3 DEF Sound, LoopLives
<1> QED
  BY <1>1, Invariance, PTL

\* Of FrameworkThread::Stop: what is posted that way to a worker is done, and
\* not dropped by ~MessageLoop.
THEOREM PostedDownstreamIsDone == Spec => []HandedOnIsDone
<1>1. IInv => HandedOnIsDone
  BY DEF IInv
<1> QED
  BY <1>1, Invariance, PTL
=============================================================================
