-------------------------- MODULE MessageLoopProofs --------------------------
(***************************************************************************)
(* What both pumps need of MessageLoop.tla: sequences of tasks, and that   *)
(* no step of the loop puts the queues out of order, whichever pump takes  *)
(* it.  For every number of tasks, depth of nesting and length of the      *)
(* clock.                                                                  *)
(***************************************************************************)
EXTENDS MessageLoop, TLAPS

-----------------------------------------------------------------------------
(* What the queues hold                                                    *)

Ascending(q) == \A i, j \in 1..Len(q) : i < j => q[i].id < q[j].id
Distinct(q)  == \A i, j \in 1..Len(q) : i # j => q[i].id # q[j].id
Timed        == {e.task : e \in delayed}
Untouched    == Range(work) \cup Range(incoming)
Touched      == Range(deferred) \cup Timed

\* The queues keep the order of posting and no task is in two of them.
QueuesInOrder ==
  /\ Ascending(incoming) /\ Ascending(work) /\ Distinct(deferred)
  /\ \A t \in Range(work), u \in Range(incoming) : t.id < u.id
  /\ \A t \in Touched, u \in Untouched : t.id < u.id
  /\ \A t \in Range(deferred), e \in delayed : t.id # e.task.id
  /\ \A e, f \in delayed : e.task.id = f.task.id => e = f
  /\ \A t \in Pending : t.id <= posted

\* What the queues hold, and that the cached time is never ahead.  Nothing but
\* what other threads post is left once the loop is being destroyed.
QueuesHold ==
  /\ \A t \in Range(deferred) : ~t.nestable /\ t.due <= now
  /\ \A e \in delayed : e.task.due # 0
  /\ recent <= now
  /\ stage # "open" => work = <<>> /\ deferred = <<>> /\ delayed = {}

-----------------------------------------------------------------------------
(* Sequences of tasks                                                      *)

\* The elements of a sequence belong to its set, and an empty one has none.
LEMMA RangeIn ==
  ASSUME NEW S, NEW q \in Seq(S)
  PROVE  Range(q) \subseteq S
BY DEF Range

LEMMA EmptySeq == Range(<<>>) = {} /\ Ascending(<<>>) /\ Distinct(<<>>)
BY DEF Range, Ascending, Distinct

\* What Append adds.
LEMMA AppendFacts ==
  ASSUME NEW S, NEW q \in Seq(S), NEW x \in S
  PROVE  /\ Append(q, x) \in Seq(S)
         /\ Range(Append(q, x)) = Range(q) \cup {x}
<1>1. Append(q, x) \in Seq(S) /\ Len(Append(q, x)) = Len(q) + 1 /\ Len(q) \in Nat
  OBVIOUS
<1>2. DOMAIN Append(q, x) = 1..(Len(q) + 1) /\ DOMAIN q = 1..Len(q)
  BY <1>1
<1>3. \A i \in 1..Len(q) : Append(q, x)[i] = q[i]
  OBVIOUS
<1>4. Append(q, x)[Len(q) + 1] = x
  OBVIOUS
<1>5. Range(Append(q, x)) \subseteq Range(q) \cup {x}
  <2> SUFFICES ASSUME NEW i \in 1..(Len(q) + 1) PROVE Append(q, x)[i] \in Range(q) \cup {x}
    BY <1>2 DEF Range
  <2>1. CASE i \in 1..Len(q)
    BY <2>1, <1>2, <1>3 DEF Range
  <2>2. CASE i = Len(q) + 1
    BY <2>2, <1>4
  <2> QED BY <1>1, <2>1, <2>2
<1>6. Range(q) \subseteq Range(Append(q, x))
  <2> SUFFICES ASSUME NEW i \in 1..Len(q) PROVE q[i] \in Range(Append(q, x))
    BY <1>2 DEF Range
  <2>1. i \in DOMAIN Append(q, x) /\ Append(q, x)[i] = q[i]
    BY <1>1, <1>2, <1>3
  <2> QED BY <2>1 DEF Range
<1>7. x \in Range(Append(q, x))
  <2>1. Len(q) + 1 \in DOMAIN Append(q, x)
    BY <1>1, <1>2
  <2> QED BY <2>1, <1>4 DEF Range
<1> QED BY <1>1, <1>5, <1>6, <1>7

\* What Head and Tail leave.
LEMMA TailFacts ==
  ASSUME NEW S, NEW q \in Seq(S), q # <<>>
  PROVE  /\ Head(q) \in S /\ Tail(q) \in Seq(S)
         /\ Range(q) = Range(Tail(q)) \cup {Head(q)}
         /\ Len(Tail(q)) = Len(q) - 1 /\ Len(q) \in Nat \ {0}
         /\ Head(q) = q[1]
         /\ \A i \in 1..Len(Tail(q)) : i + 1 \in 1..Len(q) /\ Tail(q)[i] = q[i + 1]
<1>1. Head(q) \in S /\ Tail(q) \in Seq(S) /\ Len(Tail(q)) = Len(q) - 1 /\ Len(q) \in Nat \ {0}
  OBVIOUS
<1>2. Head(q) = q[1] /\ \A i \in 1..Len(Tail(q)) : i + 1 \in 1..Len(q) /\ Tail(q)[i] = q[i + 1]
  BY <1>1
<1>3. DOMAIN Tail(q) = 1..Len(Tail(q)) /\ DOMAIN q = 1..Len(q)
  BY <1>1
<1>4. Range(Tail(q)) \cup {Head(q)} \subseteq Range(q)
  <2>1. 1 \in 1..Len(q)
    BY <1>1
  <2> QED BY <2>1, <1>2, <1>3 DEF Range
<1>5. Range(q) \subseteq Range(Tail(q)) \cup {Head(q)}
  <2> SUFFICES ASSUME NEW i \in 1..Len(q) PROVE q[i] \in Range(Tail(q)) \cup {Head(q)}
    BY <1>3 DEF Range
  <2>1. CASE i = 1
    BY <2>1, <1>2
  <2>2. CASE i # 1
    <3>1. i - 1 \in 1..Len(Tail(q)) /\ (i - 1) + 1 = i
      BY <2>2, <1>1
    <3>2. Tail(q)[i - 1] = q[i]
      BY <3>1, <1>2
    <3> QED BY <3>1, <3>2, <1>3 DEF Range
  <2> QED BY <2>1, <2>2
<1> QED BY <1>1, <1>2, <1>4, <1>5

\* Order and distinctness under Append and Tail.
LEMMA AscendingAppend ==
  ASSUME NEW q \in Seq(Task), NEW x \in Task, Ascending(q), \A t \in Range(q) : t.id < x.id
  PROVE  Ascending(Append(q, x))
<1> SUFFICES ASSUME NEW i \in 1..(Len(q) + 1), NEW j \in 1..(Len(q) + 1), i < j
             PROVE  Append(q, x)[i].id < Append(q, x)[j].id
  BY DEF Ascending
<1>1. i \in 1..Len(q) /\ Append(q, x)[i] = q[i] /\ q[i] \in Range(q)
  BY DEF Range
<1>2. CASE j \in 1..Len(q)
  BY <1>1, <1>2 DEF Ascending
<1>3. CASE j = Len(q) + 1
  BY <1>1, <1>3
<1> QED BY <1>2, <1>3

LEMMA AscendingTail ==
  ASSUME NEW q \in Seq(Task), q # <<>>, Ascending(q)
  PROVE  /\ Ascending(Tail(q))
         /\ \A t \in Range(Tail(q)) : Head(q).id < t.id
<1>1. /\ Len(Tail(q)) = Len(q) - 1 /\ Len(q) \in Nat \ {0} /\ Head(q) = q[1]
      /\ Tail(q) \in Seq(Task)
      /\ \A i \in 1..Len(Tail(q)) : i + 1 \in 1..Len(q) /\ Tail(q)[i] = q[i + 1]
  BY TailFacts
<1>2. Ascending(Tail(q))
  <2> SUFFICES ASSUME NEW i \in 1..Len(Tail(q)), NEW j \in 1..Len(Tail(q)), i < j
               PROVE  Tail(q)[i].id < Tail(q)[j].id
    BY DEF Ascending
  <2>1. q[i + 1].id < q[j + 1].id
    BY <1>1 DEF Ascending
  <2> QED BY <2>1, <1>1
<1>3. ASSUME NEW i \in 1..Len(Tail(q)) PROVE Head(q).id < Tail(q)[i].id
  <2>1. 1 \in 1..Len(q) /\ i + 1 \in 1..Len(q) /\ 1 < i + 1
    BY <1>1
  <2> QED BY <2>1, <1>1 DEF Ascending
<1> QED BY <1>1, <1>2, <1>3 DEF Range

LEMMA DistinctAppend ==
  ASSUME NEW q \in Seq(Task), NEW x \in Task, Distinct(q), \A t \in Range(q) : t.id # x.id
  PROVE  Distinct(Append(q, x))
<1> SUFFICES ASSUME NEW i \in 1..(Len(q) + 1), NEW j \in 1..(Len(q) + 1), i # j
             PROVE  Append(q, x)[i].id # Append(q, x)[j].id
  BY DEF Distinct
<1>1. \A k \in 1..Len(q) : Append(q, x)[k] = q[k] /\ q[k] \in Range(q)
  BY DEF Range
<1>2. CASE i \in 1..Len(q) /\ j \in 1..Len(q)
  BY <1>1, <1>2 DEF Distinct
<1>3. CASE i \in 1..Len(q) /\ j = Len(q) + 1
  BY <1>1, <1>3
<1>4. CASE j \in 1..Len(q) /\ i = Len(q) + 1
  BY <1>1, <1>4
<1> QED BY <1>2, <1>3, <1>4

LEMMA DistinctTail ==
  ASSUME NEW q \in Seq(Task), q # <<>>, Distinct(q)
  PROVE  /\ Distinct(Tail(q))
         /\ \A t \in Range(Tail(q)) : Head(q).id # t.id
<1>1. /\ Len(Tail(q)) = Len(q) - 1 /\ Len(q) \in Nat \ {0} /\ Head(q) = q[1]
      /\ Tail(q) \in Seq(Task)
      /\ \A i \in 1..Len(Tail(q)) : i + 1 \in 1..Len(q) /\ Tail(q)[i] = q[i + 1]
  BY TailFacts
<1>2. Distinct(Tail(q))
  <2> SUFFICES ASSUME NEW i \in 1..Len(Tail(q)), NEW j \in 1..Len(Tail(q)), i # j
               PROVE  Tail(q)[i].id # Tail(q)[j].id
    BY DEF Distinct
  <2>1. q[i + 1].id # q[j + 1].id
    BY <1>1 DEF Distinct
  <2> QED BY <2>1, <1>1
<1>3. ASSUME NEW i \in 1..Len(Tail(q)) PROVE Head(q).id # Tail(q)[i].id
  <2>1. 1 \in 1..Len(q) /\ i + 1 \in 1..Len(q) /\ 1 # i + 1
    BY <1>1
  <2> QED BY <2>1, <1>1 DEF Distinct
<1> QED BY <1>1, <1>2, <1>3 DEF Range

-----------------------------------------------------------------------------
(* Steps                                                                   *)

USE DEF loopvars, runvars, envvars

\* What TakeFirst takes, and what it leaves.
LEMMA TakeFacts ==
  ASSUME LoopTypeOK, QueuesInOrder, Loaded # <<>>, TakeFirst
  PROVE  /\ Head(Loaded) \in Task /\ Head(Loaded) \in Untouched
         /\ work' \in Seq(Task) /\ incoming' \in Seq(Task)
         /\ Ascending(work') /\ Ascending(incoming')
         /\ Untouched = Untouched' \cup {Head(Loaded)}
         /\ \A u \in Untouched' : Head(Loaded).id < u.id
         /\ \A t \in Range(work'), u \in Range(incoming') : t.id < u.id
<1> USE DEF Untouched, TakeFirst, Loaded
<1>1. incoming \in Seq(Task) /\ work \in Seq(Task)
  BY DEF LoopTypeOK
<1>2. CASE work = <<>>
  <2>1. /\ incoming # <<>> /\ Head(Loaded) = Head(incoming)
        /\ work' = Tail(incoming) /\ incoming' = <<>>
    BY <1>2
  <2>2. /\ Head(incoming) \in Task /\ Tail(incoming) \in Seq(Task)
        /\ Range(incoming) = Range(Tail(incoming)) \cup {Head(incoming)}
    BY <1>1, <2>1, TailFacts
  <2>3. /\ Ascending(Tail(incoming))
        /\ \A t \in Range(Tail(incoming)) : Head(incoming).id < t.id
    BY <1>1, <2>1, AscendingTail DEF QueuesInOrder
  <2>4. Range(work) = {} /\ Range(incoming') = {} /\ Ascending(incoming') /\ incoming' \in Seq(Task)
    BY <1>2, <2>1, EmptySeq
  <2> QED BY <2>1, <2>2, <2>3, <2>4
<1>3. CASE work # <<>>
  <2>1. Head(Loaded) = Head(work) /\ work' = Tail(work) /\ incoming' = incoming
    BY <1>3
  <2>2. /\ Head(work) \in Task /\ Tail(work) \in Seq(Task)
        /\ Range(work) = Range(Tail(work)) \cup {Head(work)}
    BY <1>1, <1>3, TailFacts
  <2>3. /\ Ascending(Tail(work))
        /\ \A t \in Range(Tail(work)) : Head(work).id < t.id
    BY <1>1, <1>3, AscendingTail DEF QueuesInOrder
  <2>4. Ascending(incoming) /\ \A t \in Range(work), u \in Range(incoming) : t.id < u.id
    BY DEF QueuesInOrder
  <2> QED BY <1>1, <2>1, <2>2, <2>3, <2>4
<1> QED BY <1>2, <1>3

\* What a step may make of the chain of runs.
LEMMA RunUpdates ==
  ASSUME NEW d \in Runs, run \in [Runs -> Run], NEW i \in 0..MaxTask
  PROVE  /\ [run EXCEPT ![d].task = i] \in [Runs -> Run]
         /\ [run EXCEPT ![d].quit = TRUE, ![d].mark = i] \in [Runs -> Run]
         /\ [run EXCEPT ![d] = Fresh] \in [Runs -> Run]
<1>1. [run[d] EXCEPT !.task = i] \in Run /\ [run[d] EXCEPT !.quit = TRUE, !.mark = i] \in Run
  BY DEF Run
<1>2. Fresh \in Run
  BY LoopAssumption DEF Run, Fresh
<1> QED BY <1>1, <1>2

\* What the steps of the loop do to the types of its variables.
LEMMA LoopTypes ==
  ASSUME LoopTypeOK, QueuesInOrder,
         \/ \E t \in NewTasks : AddToIncomingQueue(t) /\ posting' \in BOOLEAN
         \/ depth \in Runs /\ (WorkDelays \/ WorkDefers \/ WorkRuns \/ NoDelayedWork \/ IdleRuns)
         \/ depth \in Runs /\ \E e \in delayed : NotYet(e) \/ DelayedDefers(e) \/ DelayedRuns(e)
         \/ DeletePendingTasks \/ WillDestroyCurrentMessageLoop \/ Tick
  PROVE  LoopTypeOK'
<1> USE LoopAssumption DEF LoopTypeOK, Runs
<1>1. ASSUME NEW t \in NewTasks, AddToIncomingQueue(t), posting' \in BOOLEAN PROVE LoopTypeOK'
  <2>1. t \in Task /\ incoming' = Append(incoming, t) /\ posted' = t.id /\ t.id \in 1..MaxTask
    BY <1>1 DEF NewTasks, AddToIncomingQueue, Task
  <2>2. incoming' \in Seq(Task) /\ posted' \in 0..MaxTask
    BY <2>1
  <2> QED BY <1>1, <2>2 DEF AddToIncomingQueue
<1>2. CASE WorkDelays
  <2>1. Head(Loaded) \in Task /\ work' \in Seq(Task) /\ incoming' \in Seq(Task)
    BY <1>2, TakeFacts DEF WorkDelays
  <2>2. delayed' \in SUBSET [task : Task, seq : Nat] /\ nextSeq' \in Nat
    BY <1>2, <2>1 DEF WorkDelays
  <2> QED BY <1>2, <2>1, <2>2 DEF WorkDelays
<1>3. CASE WorkDefers
  <2>1. Head(Loaded) \in Task /\ work' \in Seq(Task) /\ incoming' \in Seq(Task)
    BY <1>3, TakeFacts DEF WorkDefers
  <2>2. deferred' \in Seq(Task)
    BY <1>3, <2>1, AppendFacts DEF WorkDefers
  <2> QED BY <1>3, <2>1, <2>2 DEF WorkDefers
<1>4. ASSUME depth \in Runs, NEW t \in Task, RunTask(t)
      PROVE  run' \in [Runs -> Run] /\ depth' \in 0..MaxDepth /\ nestable' \in BOOLEAN
  <2>1. run' = [run EXCEPT ![depth].task = t.id] /\ t.id \in 0..MaxTask
    BY <1>4 DEF RunTask, Task
  <2>2. run' \in [Runs -> Run]
    BY <1>4, <2>1, RunUpdates
  <2> QED BY <1>4, <2>2 DEF RunTask
<1>5. CASE depth \in Runs /\ WorkRuns
  <2>1. Head(Loaded) \in Task /\ work' \in Seq(Task) /\ incoming' \in Seq(Task)
    BY <1>5, TakeFacts DEF WorkRuns
  <2>2. run' \in [Runs -> Run] /\ depth' \in 0..MaxDepth /\ nestable' \in BOOLEAN
    BY <1>4, <1>5, <2>1 DEF WorkRuns
  <2> QED BY <1>5, <2>1, <2>2 DEF WorkRuns
<1>6. CASE NoDelayedWork
  BY <1>6 DEF NoDelayedWork
<1>7. CASE depth \in Runs /\ IdleRuns
  <2>1. Head(deferred) \in Task /\ deferred' \in Seq(Task)
    BY <1>7, TailFacts DEF IdleRuns, HasDeferred
  <2>2. run' \in [Runs -> Run] /\ depth' \in 0..MaxDepth /\ nestable' \in BOOLEAN
    BY <1>4, <1>7, <2>1 DEF IdleRuns
  <2> QED BY <1>7, <2>1, <2>2 DEF IdleRuns
<1>8. ASSUME NEW e \in delayed, NotYet(e) PROVE LoopTypeOK'
  BY <1>8 DEF NotYet
<1>9. ASSUME NEW e \in delayed, IsDue(e)
      PROVE  /\ e.task \in Task /\ delayed' \in SUBSET [task : Task, seq : Nat]
             /\ recent' \in 0..MaxTime
  BY <1>9 DEF IsDue
<1>10. ASSUME NEW e \in delayed, DelayedDefers(e) PROVE LoopTypeOK'
  <2>1. IsDue(e)
    BY <1>10 DEF DelayedDefers
  <2>2. deferred' \in Seq(Task)
    BY <1>9, <1>10, <2>1, AppendFacts DEF DelayedDefers
  <2> QED BY <1>9, <1>10, <2>1, <2>2 DEF DelayedDefers, IsDue
<1>11. ASSUME depth \in Runs, NEW e \in delayed, DelayedRuns(e) PROVE LoopTypeOK'
  <2>1. IsDue(e) /\ RunTask(e.task)
    BY <1>11 DEF DelayedRuns
  <2>2. run' \in [Runs -> Run] /\ depth' \in 0..MaxDepth /\ nestable' \in BOOLEAN
    BY <1>4, <1>9, <1>11, <2>1
  <2> QED BY <1>9, <1>11, <2>1, <2>2 DEF DelayedRuns, IsDue
<1>12. CASE DeletePendingTasks
  BY <1>12 DEF DeletePendingTasks
<1>13. CASE WillDestroyCurrentMessageLoop
  BY <1>13 DEF WillDestroyCurrentMessageLoop
<1>14. CASE Tick
  BY <1>14 DEF Tick
<1> HIDE DEF LoopTypeOK, Runs
<1> QED
  BY <1>1, <1>2, <1>3, <1>5, <1>6, <1>7, <1>8, <1>10, <1>11, <1>12, <1>13, <1>14

\* What is in the queues has a number.
LEMMA InQueues ==
  ASSUME LoopTypeOK
  PROVE  /\ Range(incoming) \subseteq Task /\ Range(work) \subseteq Task
         /\ Range(deferred) \subseteq Task /\ Timed \subseteq Task
         /\ Pending = Untouched \cup Touched
         /\ \A t \in Task : t.id \in Nat
<1>1. Range(incoming) \subseteq Task /\ Range(work) \subseteq Task /\ Range(deferred) \subseteq Task
  BY RangeIn DEF LoopTypeOK
<1>2. Timed \subseteq Task
  BY DEF LoopTypeOK, Timed
<1>3. Pending = Untouched \cup Touched
  BY DEF Pending, Untouched, Touched, Timed
<1> QED BY <1>1, <1>2, <1>3 DEF Task

\* Posting a task keeps the order.
LEMMA OrderPosted ==
  ASSUME LoopTypeOK, QueuesInOrder, NEW t \in NewTasks, AddToIncomingQueue(t)
  PROVE  QueuesInOrder'
<1>1. /\ t \in Task /\ t.id = posted + 1 /\ posted' = t.id /\ posted \in Nat
      /\ incoming' = Append(incoming, t) /\ incoming \in Seq(Task)
      /\ UNCHANGED <<work, deferred, delayed>>
  BY LoopAssumption DEF NewTasks, AddToIncomingQueue, LoopTypeOK
<1>2. Range(incoming') = Range(incoming) \cup {t}
  BY <1>1, AppendFacts
<1>3. \A u \in Pending : u.id \in Nat /\ u.id < t.id
  <2>1. Pending \subseteq Task /\ \A u \in Task : u.id \in Nat
    BY InQueues DEF Untouched, Touched
  <2>2. \A u \in Pending : u.id <= posted
    BY DEF QueuesInOrder
  <2> QED BY <1>1, <2>1, <2>2
<1>4. Ascending(incoming')
  <2>1. \A u \in Range(incoming) : u.id < t.id
    BY <1>3 DEF Pending
  <2> QED BY <1>1, <2>1, AscendingAppend DEF QueuesInOrder
<1>5. Pending' = Pending \cup {t}
  BY <1>1, <1>2 DEF Pending
<1>6. Untouched' = Untouched \cup {t} /\ Touched' = Touched /\ Touched \subseteq Pending
  BY <1>1, <1>2, InQueues DEF Untouched, Touched, Timed
<1>7. \A u \in Pending' : u.id <= posted'
  BY <1>1, <1>3, <1>5
<1>8. \A u \in Touched', w \in Untouched' : u.id < w.id
  BY <1>3, <1>6 DEF QueuesInOrder
<1>9. \A u \in Range(work'), w \in Range(incoming') : u.id < w.id
  <2>1. Range(work) \subseteq Pending
    BY DEF Pending
  <2> QED BY <1>1, <1>2, <1>3, <2>1 DEF QueuesInOrder
<1> QED BY <1>1, <1>4, <1>7, <1>8, <1>9 DEF QueuesInOrder

\* So does taking the first task, wherever it goes.
LEMMA OrderTaken ==
  ASSUME LoopTypeOK, LoopTypeOK', QueuesInOrder, Loaded # <<>>, TakeFirst, UNCHANGED posted,
         \/ UNCHANGED <<deferred, delayed>>
         \/ deferred' = Append(deferred, Head(Loaded)) /\ UNCHANGED delayed
         \/ delayed' = delayed \cup {[task |-> Head(Loaded), seq |-> nextSeq]} /\ UNCHANGED deferred
  PROVE  QueuesInOrder'
<1> DEFINE h == Head(Loaded)
<1>1. /\ h \in Task /\ h \in Untouched
      /\ Ascending(work') /\ Ascending(incoming')
      /\ Untouched = Untouched' \cup {h}
      /\ \A u \in Untouched' : h.id < u.id
      /\ \A t \in Range(work'), u \in Range(incoming') : t.id < u.id
  BY TakeFacts
<1>2. \A t \in Touched : t.id # h.id
  <2>1. \A t \in Touched : t.id < h.id /\ t.id \in Nat /\ h.id \in Nat
    BY <1>1, InQueues DEF QueuesInOrder, Touched
  <2> QED BY <2>1
<1> HIDE DEF h
<1>3. Touched' \subseteq Touched \cup {h} /\ Pending' \subseteq Pending
  <2>1. CASE UNCHANGED <<deferred, delayed>>
    BY <2>1, <1>1 DEF Touched, Timed, Pending, Untouched
  <2>2. CASE deferred' = Append(deferred, h) /\ UNCHANGED delayed
    <3>1. Range(deferred') = Range(deferred) \cup {h}
      BY <2>2, <1>1, AppendFacts DEF LoopTypeOK
    <3> QED BY <2>2, <3>1, <1>1 DEF Touched, Timed, Pending, Untouched
  <2>3. CASE delayed' = delayed \cup {[task |-> h, seq |-> nextSeq]} /\ UNCHANGED deferred
    <3> DEFINE n == [task |-> h, seq |-> nextSeq]
    <3>0. n.task = h /\ delayed' = delayed \cup {n}
      BY <2>3
    <3> HIDE DEF n
    <3>1. {e.task : e \in delayed'} = {e.task : e \in delayed} \cup {h}
      BY <3>0
    <3> QED BY <2>3, <3>1, <1>1 DEF Touched, Timed, Pending, Untouched
  <2> QED BY <2>1, <2>2, <2>3 DEF h
<1>4. \A t \in Pending' : t.id <= posted'
  BY <1>3 DEF QueuesInOrder
<1>5. \A t \in Touched', u \in Untouched' : t.id < u.id
  BY <1>1, <1>3 DEF QueuesInOrder
<1>6. /\ Distinct(deferred')
      /\ \A t \in Range(deferred'), e \in delayed' : t.id # e.task.id
      /\ \A e, f \in delayed' : e.task.id = f.task.id => e = f
  <2>0. /\ Distinct(deferred)
        /\ \A t \in Range(deferred), e \in delayed : t.id # e.task.id
        /\ \A e, f \in delayed : e.task.id = f.task.id => e = f
        /\ \A t \in Range(deferred) : t.id # h.id
        /\ \A e \in delayed : e.task.id # h.id
    BY <1>2 DEF QueuesInOrder, Touched, Timed
  <2>1. CASE UNCHANGED <<deferred, delayed>>
    BY <2>0, <2>1
  <2>2. CASE deferred' = Append(deferred, h) /\ UNCHANGED delayed
    <3>1. Range(deferred') = Range(deferred) \cup {h} /\ Distinct(deferred')
      BY <2>0, <2>2, <1>1, AppendFacts, DistinctAppend DEF LoopTypeOK
    <3> QED BY <2>0, <2>2, <3>1
  <2>3. CASE delayed' = delayed \cup {[task |-> h, seq |-> nextSeq]} /\ UNCHANGED deferred
    BY <2>0, <2>3
  <2> QED BY <2>1, <2>2, <2>3 DEF h
<1> QED BY <1>1, <1>4, <1>5, <1>6 DEF QueuesInOrder

\* And so does taking a task that was put aside.
LEMMA OrderTouched ==
  ASSUME LoopTypeOK, LoopTypeOK', QueuesInOrder, UNCHANGED <<incoming, work, posted>>,
         \/ deferred # <<>> /\ deferred' = Tail(deferred) /\ UNCHANGED delayed
         \/ \E e \in delayed : delayed' = delayed \ {e}
              /\ (UNCHANGED deferred \/ deferred' = Append(deferred, e.task))
  PROVE  QueuesInOrder'
<1>1. CASE deferred # <<>> /\ deferred' = Tail(deferred) /\ UNCHANGED delayed
  <2>1. Range(deferred') \subseteq Range(deferred) /\ Distinct(deferred')
    BY <1>1, TailFacts, DistinctTail DEF LoopTypeOK, QueuesInOrder
  <2>2. Touched' \subseteq Touched /\ Untouched' = Untouched /\ Pending' \subseteq Pending
    BY <1>1, <2>1 DEF Touched, Untouched, Timed, Pending
  <2> QED BY <1>1, <2>1, <2>2 DEF QueuesInOrder
<1>2. ASSUME NEW e \in delayed, delayed' = delayed \ {e}, UNCHANGED deferred
      PROVE  QueuesInOrder'
  <2>1. Touched' \subseteq Touched /\ Untouched' = Untouched /\ Pending' \subseteq Pending
    BY <1>2 DEF Touched, Untouched, Timed, Pending
  <2> QED BY <1>2, <2>1 DEF QueuesInOrder
<1>3. ASSUME NEW e \in delayed, delayed' = delayed \ {e}, deferred' = Append(deferred, e.task)
      PROVE  QueuesInOrder'
  <2>1. e.task \in Task /\ deferred \in Seq(Task)
    BY DEF LoopTypeOK
  <2>2. \A t \in Range(deferred) : t.id # e.task.id
    BY DEF QueuesInOrder
  <2>3. Range(deferred') = Range(deferred) \cup {e.task} /\ Distinct(deferred')
    BY <1>3, <2>1, <2>2, AppendFacts, DistinctAppend DEF QueuesInOrder
  <2>4. Touched' \subseteq Touched /\ Untouched' = Untouched /\ Pending' \subseteq Pending
    BY <1>3, <2>3 DEF Touched, Untouched, Timed, Pending
  <2>5. \A t \in Range(deferred'), f \in delayed' : t.id # f.task.id
    BY <1>3, <2>3 DEF QueuesInOrder
  <2> QED BY <1>3, <2>3, <2>4, <2>5 DEF QueuesInOrder
<1> QED BY <1>1, <1>2, <1>3

\* What a step may do to the queues.
QueueStep ==
  \/ \E t \in NewTasks : AddToIncomingQueue(t)
  \/ stage = "open" /\ (WorkDelays \/ WorkDefers \/ WorkRuns \/ NoDelayedWork \/ IdleRuns)
  \/ stage = "open" /\ \E e \in delayed : NotYet(e) \/ DelayedDefers(e) \/ DelayedRuns(e)
  \/ DeletePendingTasks \/ WillDestroyCurrentMessageLoop
  \/ Tick
  \/ UNCHANGED <<incoming, work, deferred, delayed, recent, posted, stage, now>>

\* It keeps the order, ...
LEMMA QueueOrder ==
  ASSUME LoopTypeOK, LoopTypeOK', QueuesInOrder, QueueStep
  PROVE  QueuesInOrder'
<1>1. CASE UNCHANGED <<incoming, work, deferred, delayed, posted>>
  BY <1>1 DEF QueuesInOrder, Touched, Untouched, Timed, Pending
<1>2. ASSUME NEW t \in NewTasks, AddToIncomingQueue(t) PROVE QueuesInOrder'
  BY <1>2, OrderPosted
<1>3. CASE WorkDelays
  BY <1>3, OrderTaken DEF WorkDelays
<1>4. CASE WorkDefers
  BY <1>4, OrderTaken DEF WorkDefers
<1>5. CASE WorkRuns
  BY <1>5, OrderTaken DEF WorkRuns
<1>6. CASE NoDelayedWork
  BY <1>1, <1>6 DEF NoDelayedWork
<1>7. ASSUME NEW e \in delayed, NotYet(e) PROVE QueuesInOrder'
  BY <1>1, <1>7 DEF NotYet
<1>8. ASSUME NEW e \in delayed, DelayedDefers(e) PROVE QueuesInOrder'
  BY <1>8, OrderTouched DEF DelayedDefers, IsDue
<1>9. ASSUME NEW e \in delayed, DelayedRuns(e) PROVE QueuesInOrder'
  BY <1>9, OrderTouched DEF DelayedRuns, IsDue
<1>10. CASE IdleRuns
  BY <1>10, OrderTouched DEF IdleRuns, HasDeferred
<1>11. CASE DeletePendingTasks \/ WillDestroyCurrentMessageLoop
  <2>1. /\ incoming' = <<>> /\ work' \in {work, <<>>} /\ deferred' \in {deferred, <<>>}
        /\ delayed' \in {delayed, {}} /\ posted' = posted
    BY <1>11 DEF DeletePendingTasks, WillDestroyCurrentMessageLoop
  <2>2. /\ Range(incoming') = {} /\ Range(work') \subseteq Range(work)
        /\ Range(deferred') \subseteq Range(deferred) /\ delayed' \subseteq delayed
        /\ Ascending(incoming') /\ Ascending(work') /\ Distinct(deferred')
    BY <2>1, EmptySeq DEF QueuesInOrder
  <2>3. Touched' \subseteq Touched /\ Untouched' \subseteq Untouched /\ Pending' \subseteq Pending
    BY <2>2 DEF Touched, Untouched, Timed, Pending
  <2> QED BY <2>1, <2>2, <2>3 DEF QueuesInOrder
<1>12. CASE Tick
  BY <1>1, <1>12 DEF Tick
<1> QED
  BY <1>1, <1>2, <1>3, <1>4, <1>5, <1>6, <1>7, <1>8, <1>9, <1>10, <1>11, <1>12 DEF QueueStep

\* ... and what the queues hold.
LEMMA QueueHold ==
  ASSUME LoopTypeOK, LoopTypeOK', QueuesInOrder, QueuesHold, QueueStep
  PROVE  QueuesHold'
<1>0. /\ now \in Nat /\ now' \in Nat /\ recent \in Nat
      /\ Range(deferred) \subseteq Task /\ \A t \in Task : t.due \in Nat
      /\ \A e \in delayed : e.task \in Task
  <2>1. now \in Nat /\ now' \in Nat /\ recent \in Nat /\ delayed \in SUBSET [task : Task, seq : Nat]
    BY LoopAssumption DEF LoopTypeOK
  <2>2. \A t \in Task : t.due \in Nat
    BY LoopAssumption DEF Task
  <2>3. Range(deferred) \subseteq Task
    BY InQueues
  <2> QED BY <2>1, <2>2, <2>3
<1>1. ASSUME Range(deferred') \subseteq Range(deferred), delayed' \subseteq delayed,
             recent' <= now', now <= now',
             stage' # "open" => work' = <<>> /\ deferred' = <<>> /\ delayed' = {}
      PROVE  QueuesHold'
  BY <1>0, <1>1 DEF QueuesHold
<1>2. ASSUME UNCHANGED <<work, deferred, delayed, recent, now, stage>> PROVE QueuesHold'
  BY <1>2 DEF QueuesHold
<1>3. ASSUME NEW t \in NewTasks, AddToIncomingQueue(t) PROVE QueuesHold'
  BY <1>2, <1>3 DEF AddToIncomingQueue
<1>4. CASE stage = "open" /\ WorkDelays
  <2> DEFINE n == [task |-> Head(Loaded), seq |-> nextSeq]
  <2>1. /\ delayed' = delayed \cup {n} /\ n.task.due # 0
        /\ UNCHANGED <<deferred, recent, now, stage>>
    BY <1>4 DEF WorkDelays
  <2> QED BY <1>4, <2>1 DEF QueuesHold
<1>5. CASE stage = "open" /\ WorkDefers
  <2>1. /\ Head(Loaded) \in Task /\ ~Head(Loaded).nestable /\ Head(Loaded).due = 0
        /\ deferred' = Append(deferred, Head(Loaded)) /\ UNCHANGED <<delayed, recent, now, stage>>
    BY <1>5, TakeFacts DEF WorkDefers, MayRun
  <2>2. Range(deferred') = Range(deferred) \cup {Head(Loaded)}
    BY <2>1, AppendFacts DEF LoopTypeOK
  <2> QED BY <1>0, <1>5, <2>1, <2>2 DEF QueuesHold
<1>6. CASE stage = "open" /\ WorkRuns
  BY <1>0, <1>1, <1>6 DEF WorkRuns, QueuesHold
<1>7. CASE stage = "open" /\ NoDelayedWork
  BY <1>0, <1>1, <1>7 DEF NoDelayedWork
<1>8. ASSUME stage = "open", NEW e \in delayed, NotYet(e) PROVE QueuesHold'
  BY <1>0, <1>1, <1>8 DEF NotYet
<1>9. ASSUME NEW e \in delayed, IsDue(e)
      PROVE  /\ recent' <= now' /\ now' = now /\ stage' = stage /\ delayed' \subseteq delayed
             /\ e.task.due <= now /\ e.task \in Task
  BY <1>0, <1>9 DEF IsDue, QueuesHold
<1>10. ASSUME stage = "open", NEW e \in delayed, DelayedDefers(e) PROVE QueuesHold'
  <2>1. /\ IsDue(e) /\ deferred' = Append(deferred, e.task) /\ ~e.task.nestable
    BY <1>10 DEF DelayedDefers, MayRun
  <2>2. deferred \in Seq(Task) /\ e.task \in Task
    BY <1>0 DEF LoopTypeOK
  <2>3. Range(deferred') = Range(deferred) \cup {e.task}
    BY <2>1, <2>2, AppendFacts
  <2> QED BY <1>9, <1>10, <2>1, <2>3 DEF QueuesHold
<1>11. ASSUME stage = "open", NEW e \in delayed, DelayedRuns(e) PROVE QueuesHold'
  <2>1. IsDue(e) /\ UNCHANGED deferred
    BY <1>11 DEF DelayedRuns
  <2> QED BY <1>0, <1>1, <1>9, <1>11, <2>1
<1>12. CASE stage = "open" /\ IdleRuns
  <2>1. Range(deferred') \subseteq Range(deferred)
    BY <1>12, TailFacts DEF IdleRuns, HasDeferred, LoopTypeOK
  <2> QED BY <1>0, <1>1, <1>12, <2>1 DEF IdleRuns, QueuesHold
<1>13. CASE DeletePendingTasks \/ WillDestroyCurrentMessageLoop
  <2>1. /\ deferred' \in {deferred, <<>>} /\ delayed' \in {delayed, {}}
        /\ UNCHANGED <<recent, now>>
        /\ work' = <<>> /\ deferred' = <<>> /\ delayed' = {}
    BY <1>13 DEF DeletePendingTasks, WillDestroyCurrentMessageLoop, QueuesHold
  <2> QED BY <1>0, <1>1, <2>1, EmptySeq DEF QueuesHold
<1>14. CASE Tick
  <2>1. now' = now + 1 /\ UNCHANGED <<work, deferred, delayed, recent, stage>>
    BY <1>14 DEF Tick
  <2>2. recent' <= now'
    BY <1>0, <2>1 DEF QueuesHold
  <2> QED BY <1>0, <1>1, <2>1, <2>2 DEF QueuesHold
<1> QED
  BY <1>2, <1>3, <1>4, <1>5, <1>6, <1>7, <1>8, <1>10, <1>11, <1>12, <1>13, <1>14 DEF QueueStep

\* Nothing is in the queues of a loop that has not begun.
LEMMA QueueInit ==
  ASSUME InitLoop
  PROVE  LoopTypeOK /\ QueuesInOrder /\ QueuesHold /\ Pending = {}
<1>1. LoopTypeOK
  <2>1. Fresh \in Run /\ <<>> \in Seq(Task) /\ 1 \in 1..MaxTime /\ 0 \in 0..MaxTime
    BY LoopAssumption DEF Run, Fresh
  <2>2. run \in [Runs -> Run]
    BY <2>1 DEF InitLoop
  <2>3. /\ delayed \in SUBSET [task : Task, seq : Nat]
        /\ depth \in 0..MaxDepth /\ posted \in 0..MaxTask
    BY LoopAssumption DEF InitLoop
  <2> QED BY <2>1, <2>2, <2>3 DEF InitLoop, LoopTypeOK
<1>2. Range(incoming) = {} /\ Range(work) = {} /\ Range(deferred) = {} /\ delayed = {}
  BY EmptySeq DEF InitLoop
<1>3. QueuesInOrder
  BY <1>2, EmptySeq DEF InitLoop, QueuesInOrder, Touched, Untouched, Timed, Pending
<1>4. QueuesHold
  BY <1>2 DEF InitLoop, QueuesHold
<1> QED BY <1>1, <1>2, <1>3, <1>4 DEF Pending

\* Taking the first task of the work queue takes it from what is pending.
LEMMA TakenFromPending ==
  ASSUME LoopTypeOK, QueuesInOrder, Loaded # <<>>, TakeFirst
  PROVE  /\ Head(Loaded) \in Pending
         /\ Untouched' = Untouched \ {Head(Loaded)}
         /\ Head(Loaded) \notin Touched
         /\ \A u \in Untouched : Head(Loaded).id <= u.id
<1>1. /\ Head(Loaded) \in Task /\ Head(Loaded) \in Untouched
      /\ Untouched = Untouched' \cup {Head(Loaded)}
      /\ \A u \in Untouched' : Head(Loaded).id < u.id
  BY TakeFacts
<1>2. \A t \in Task : t.id \in Nat
  BY InQueues
<1>3. Pending = Untouched \cup Touched /\ Untouched \subseteq Task
  BY InQueues DEF Untouched
<1>4. \A t \in Touched : t.id < Head(Loaded).id
  BY <1>1 DEF QueuesInOrder
<1> QED BY <1>1, <1>2, <1>3, <1>4

-----------------------------------------------------------------------------
(* The queues as TaskQueue.tla sees them                                   *)

Held == [d \in Runs |-> run[d].task]

\* The innermost run starts t: pending, due, allowed there and in its turn.
TakesUp(t) ==
  /\ t \in Task /\ t \in Pending /\ t.due <= now /\ MayRun(t)
  /\ t.due = 0 /\ t.nestable => \A u \in Pending : u.due = 0 /\ u.nestable => t.id <= u.id
  /\ Pending' = Pending \ {t} /\ Held' = [Held EXCEPT ![depth] = t.id]
  /\ UNCHANGED <<posted, now, depth>>

\* Nothing that TaskQueue knows of changes.
Unseen == UNCHANGED <<posted, now, depth, run>> /\ Pending' = Pending

LEMMA TakenUp ==
  ASSUME LoopTypeOK, QueuesHold, depth \in Runs, NEW t \in Task, t \in Pending, t.due <= now,
         MayRun(t), t.due = 0 /\ t.nestable => \A u \in Untouched : t.id <= u.id,
         Pending' = Pending \ {t}, RunTask(t), UNCHANGED <<posted, now>>
  PROVE  TakesUp(t)
<1>1. Held' = [Held EXCEPT ![depth] = t.id]
  BY DEF RunTask, Held, LoopTypeOK, Run
<1>2. ASSUME t.due = 0, t.nestable, NEW u \in Pending, u.due = 0, u.nestable
      PROVE  t.id <= u.id
  <2>1. u \notin Range(deferred) /\ u \notin Timed
    BY <1>2 DEF QueuesHold, Timed
  <2>2. u \in Untouched
    BY <2>1, InQueues DEF Touched
  <2> QED BY <1>2, <2>2
<1> QED BY <1>1, <1>2 DEF TakesUp, RunTask

LEMMA PostPends ==
  ASSUME LoopTypeOK, NEW t \in NewTasks, AddToIncomingQueue(t)
  PROVE  Pending' = Pending \cup {t} /\ posted' = t.id /\ UNCHANGED <<now, depth, run>>
<1>1. Range(incoming') = Range(incoming) \cup {t}
  BY AppendFacts DEF AddToIncomingQueue, NewTasks, LoopTypeOK
<1> QED BY <1>1 DEF AddToIncomingQueue, Pending

\* What DoWork puts aside stays pending; what it runs it takes up.
LEMMA WorkTakesUp ==
  ASSUME LoopTypeOK, QueuesInOrder, QueuesHold, depth \in Runs
  PROVE  /\ WorkDelays \/ WorkDefers => Unseen
         /\ WorkRuns => TakesUp(Head(Loaded))
<1>p. Pending = Untouched \cup Touched /\ Pending' = Untouched' \cup Touched'
  BY DEF Pending, Untouched, Touched, Timed
<1>1. ASSUME WorkDelays PROVE Unseen
  <2> DEFINE n == [task |-> Head(Loaded), seq |-> nextSeq]
  <2>1. n.task = Head(Loaded) /\ delayed' = delayed \cup {n} /\ UNCHANGED deferred
    BY <1>1 DEF WorkDelays
  <2> HIDE DEF n
  <2>2. Touched' = Touched \cup {Head(Loaded)}
    BY <2>1 DEF Touched, Timed
  <2>3. Head(Loaded) \in Untouched /\ Untouched = Untouched' \cup {Head(Loaded)}
    BY <1>1, TakeFacts DEF WorkDelays
  <2>4. Pending' = Pending
    BY <1>p, <2>2, <2>3
  <2> QED BY <1>1, <2>4 DEF WorkDelays, Unseen
<1>2. ASSUME WorkDefers PROVE Unseen
  <2>1. /\ Head(Loaded) \in Task /\ Head(Loaded) \in Untouched
        /\ Untouched = Untouched' \cup {Head(Loaded)}
    BY <1>2, TakeFacts DEF WorkDefers
  <2>2. Range(deferred') = Range(deferred) \cup {Head(Loaded)} /\ UNCHANGED delayed
    BY <1>2, <2>1, AppendFacts DEF WorkDefers, LoopTypeOK
  <2>3. Pending' = Pending
    BY <1>p, <2>1, <2>2 DEF Touched, Timed
  <2> QED BY <1>2, <2>3 DEF WorkDefers, Unseen
<1>3. ASSUME WorkRuns PROVE TakesUp(Head(Loaded))
  <2> DEFINE h == Head(Loaded)
  <2>1. /\ h \in Pending /\ Untouched' = Untouched \ {h} /\ h \notin Touched
        /\ \A u \in Untouched : h.id <= u.id
    BY <1>3, TakenFromPending DEF WorkRuns
  <2>2. h \in Task
    BY <1>3, TakeFacts DEF WorkRuns
  <2>3. Touched' = Touched
    BY <1>3 DEF WorkRuns, Touched, Timed
  <2>4. Pending' = Pending \ {h}
    BY <1>p, <2>1, <2>3
  <2>5. h.due <= now /\ MayRun(h) /\ RunTask(h) /\ UNCHANGED <<posted, now>>
    BY <1>3, LoopAssumption DEF WorkRuns, LoopTypeOK
  <2> HIDE DEF h
  <2>6. TakesUp(h)
    BY <2>1, <2>2, <2>4, <2>5, TakenUp
  <2> QED BY <2>6 DEF h
<1> QED BY <1>1, <1>2, <1>3

\* The same of DoDelayedWork.
LEMMA DelayedTakesUp ==
  ASSUME LoopTypeOK, QueuesInOrder, QueuesHold, depth \in Runs, NEW e \in delayed
  PROVE  /\ NoDelayedWork \/ NotYet(e) \/ DelayedDefers(e) => Unseen
         /\ DelayedRuns(e) => TakesUp(e.task)
<1>p. Pending = Untouched \cup Touched /\ Pending' = Untouched' \cup Touched'
  BY DEF Pending, Untouched, Touched, Timed
<1>1. ASSUME NoDelayedWork \/ NotYet(e) PROVE Unseen
  BY <1>1 DEF NoDelayedWork, NotYet, Pending, Unseen
<1>2. ASSUME DelayedDefers(e) PROVE Unseen
  <2>1. /\ e.task \in Task /\ delayed' = delayed \ {e} /\ deferred' = Append(deferred, e.task)
        /\ UNCHANGED <<incoming, work, posted, now, depth, run>>
    BY <1>2 DEF DelayedDefers, IsDue, LoopTypeOK
  <2>2. Range(deferred') = Range(deferred) \cup {e.task}
    BY <2>1, AppendFacts DEF LoopTypeOK
  <2>3. {f.task : f \in delayed} = {f.task : f \in delayed'} \cup {e.task}
    BY <2>1
  <2> QED BY <2>1, <2>2, <2>3 DEF Pending, Unseen
<1>3. ASSUME DelayedRuns(e) PROVE TakesUp(e.task)
  <2> DEFINE t == e.task
  <2>1. /\ t \in Task /\ delayed' = delayed \ {e} /\ MayRun(t) /\ RunTask(t)
        /\ UNCHANGED <<incoming, work, deferred, posted, now>>
    BY <1>3 DEF DelayedRuns, IsDue, LoopTypeOK
  <2>2. t.due # 0 /\ t.due <= now
    <3>1. t.due # 0 /\ recent <= now
      BY DEF QueuesHold
    <3>2. t.due \in Nat /\ recent \in Nat /\ now \in Nat
      BY <2>1 DEF LoopTypeOK, Task
    <3> QED BY <1>3, <3>1, <3>2 DEF DelayedRuns, IsDue
  <2>3. Timed' = Timed \ {t}
    BY <2>1 DEF Timed, QueuesInOrder
  <2>4. t \in Timed /\ t \notin Range(deferred) /\ t \notin Untouched
    <3>1. \A u \in Untouched : t.id < u.id
      BY DEF QueuesInOrder, Touched, Timed
    <3>2. t.id \in Nat
      BY <2>1, InQueues
    <3>3. t \in Timed /\ t \notin Range(deferred)
      BY DEF QueuesInOrder, Timed
    <3> QED BY <3>1, <3>2, <3>3
  <2>5. Pending' = Pending \ {t} /\ t \in Pending
    BY <1>p, <2>1, <2>3, <2>4 DEF Untouched, Touched
  <2> HIDE DEF t
  <2>6. TakesUp(t)
    BY <2>1, <2>2, <2>5, TakenUp
  <2> QED BY <2>6 DEF t
<1> QED BY <1>1, <1>2, <1>3

\* And of the deferred tasks.
LEMMA IdleTakesUp ==
  ASSUME LoopTypeOK, QueuesInOrder, QueuesHold, IdleRuns
  PROVE  TakesUp(Head(deferred))
<1> DEFINE t == Head(deferred)
<1>p. Pending = Untouched \cup Touched /\ Pending' = Untouched' \cup Touched'
  BY DEF Pending, Untouched, Touched, Timed
<1>1. /\ t \in Task /\ deferred \in Seq(Task) /\ deferred # <<>>
      /\ Range(deferred) = Range(Tail(deferred)) \cup {t}
      /\ \A u \in Range(Tail(deferred)) : t.id # u.id
  BY TailFacts, DistinctTail DEF IdleRuns, HasDeferred, LoopTypeOK, QueuesInOrder
<1>2. /\ deferred' = Tail(deferred) /\ RunTask(t) /\ depth = 1 /\ depth \in Runs
      /\ UNCHANGED <<incoming, work, delayed, posted, now>>
  BY LoopAssumption DEF IdleRuns, HasDeferred, Runs
<1>3. t \in Range(deferred) /\ Range(deferred') = Range(deferred) \ {t}
  BY <1>1, <1>2
<1>4. t \notin Timed /\ t \notin Untouched
  <2>1. \A u \in Untouched : t.id < u.id
    BY <1>3 DEF QueuesInOrder, Touched
  <2>2. t.id \in Nat
    BY <1>1, InQueues
  <2>3. t \notin Timed
    BY <1>3 DEF QueuesInOrder, Timed
  <2> QED BY <2>1, <2>2, <2>3
<1>5. Pending' = Pending \ {t} /\ t \in Pending
  BY <1>p, <1>2, <1>3, <1>4 DEF Untouched, Touched, Timed
<1>6. ~t.nestable /\ t.due <= now /\ MayRun(t)
  BY <1>2, <1>3 DEF QueuesHold, MayRun
<1> HIDE DEF t
<1>7. TakesUp(t)
  BY <1>1, <1>2, <1>5, <1>6, TakenUp
<1> QED BY <1>7 DEF t

=============================================================================
