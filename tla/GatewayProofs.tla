---------------------------- MODULE GatewayProofs ----------------------------
(***************************************************************************)
(* The gateway's threads are stopped in an order that leaves nothing       *)
(* undone and nobody posting to a thread that has ended; the program's     *)
(* exit waits for the answer to its own last request, unless its number    *)
(* was given out before; and the gateway implements Requests.  For any     *)
(* bounds, and any contents of unset memory.                               *)
(***************************************************************************)
EXTENDS Gateway, TLAPS, WellFoundedInduction

-----------------------------------------------------------------------------
(* Which actions change which variables.                                   *)

LEMMA Changes ==
  ASSUME [Next]_vars
  PROVE
    /\ table' = table \/ (\E a \in Askers : File(a)) \/ Respond
    /\ serial' = serial \/ (\E a \in Askers : File(a))
    /\ asked' = asked \/ (\E a \in Askers : File(a))
    /\ todo' = todo \/ (\E a \in Askers : Post(a) \/ Paints(a)) \/ Respond \/ StartVideoPreview
        \/ StopVideoPreview \/ ShowAudioPage \/ Dial \/ Event \/ CleanupUiKit
    /\ filed' = filed \/ (\E a \in Askers : File(a) \/ Post(a))
    /\ work' = work \/ (\E a \in Askers : Post(a)) \/ Dispatch \/ Respond
    /\ notices' = notices \/ NotifyRuns \/ Dispatch \/ IsInvited
    /\ events' = events \/ NotifyRuns \/ Event \/ CleanupUiKit
    /\ threads' = threads \/ CleanupSDKs \/ WorkingEnds \/ StopNotify \/ NotifyEnds
    /\ engine' = engine \/ Dispatch
    /\ preview' = preview \/ Dispatch
    /\ form' = form \/ StartVideoPreview \/ StopVideoPreview \/ CleanupUiKit
    /\ timer' = timer \/ (\E a \in Askers : Paints(a)) \/ ShowAudioPage
    /\ window' = window \/ Dial \/ Event \/ Talk
    /\ phase' = phase \/ Respond \/ CleanupUiKit \/ CleanupSDKs \/ NotifyEnds
    /\ acts' = acts \/ StartVideoPreview \/ StopVideoPreview \/ ShowAudioPage \/ Dial \/ Talk
    /\ invites' = invites \/ IsInvited
    /\ called' = called \/ Respond
    /\ stray' = stray \/ (\E a \in Askers : Post(a)) \/ Dispatch \/ IsInvited
<1>1. CASE UNCHANGED vars
  BY <1>1 DEF vars
<1>2. CASE \E a \in Askers : File(a)
  BY <1>2 DEF File, reqvars, viewvars
<1>3. CASE \E a \in Askers : Post(a)
  BY <1>3 DEF Post, reqvars, viewvars
<1>4. CASE \E a \in Askers : Paints(a)
  BY <1>4 DEF Paints, reqvars, viewvars
<1>5. CASE Dispatch
  BY <1>5 DEF Dispatch, Notify, reqvars, viewvars
<1>6. CASE Respond
  BY <1>6 DEF Respond, Callback, reqvars, viewvars
<1>7. CASE NotifyRuns
  BY <1>7 DEF NotifyRuns, reqvars, viewvars
<1>8. CASE StartVideoPreview
  BY <1>8 DEF StartVideoPreview, Acts, reqvars, viewvars
<1>9. CASE StopVideoPreview
  BY <1>9 DEF StopVideoPreview, Acts, reqvars, viewvars
<1>10. CASE ShowAudioPage
  BY <1>10 DEF ShowAudioPage, Acts, reqvars, viewvars
<1>11. CASE Dial
  BY <1>11 DEF Dial, Acts, reqvars, viewvars
<1>12. CASE IsInvited
  BY <1>12 DEF IsInvited, Notify, reqvars, viewvars
<1>13. CASE Event
  BY <1>13 DEF Event, reqvars, viewvars
<1>14. CASE Talk
  BY <1>14 DEF Talk, Acts, reqvars, viewvars
<1>15. CASE CleanupUiKit
  BY <1>15 DEF CleanupUiKit, reqvars, viewvars
<1>16. CASE CleanupSDKs
  BY <1>16 DEF CleanupSDKs, reqvars, viewvars
<1>17. CASE WorkingEnds
  BY <1>17 DEF WorkingEnds, reqvars, viewvars
<1>18. CASE StopNotify
  BY <1>18 DEF StopNotify, reqvars, viewvars
<1>19. CASE NotifyEnds
  BY <1>19 DEF NotifyEnds, reqvars, viewvars
<1> QED
  BY <1>1, <1>2, <1>3, <1>4, <1>5, <1>6, <1>7, <1>8, <1>9, <1>10, <1>11, <1>12, <1>13, <1>14,
     <1>15, <1>16, <1>17, <1>18, <1>19
  DEF Next, UiSteps, WorkingSteps, ExitSteps, Askers

-----------------------------------------------------------------------------
(* The types.                                                              *)

WorkItem == [kind : {"request", "answer"}, r : Request]
Notices  == {"calling", "invited"}

LEMMA TailType ==
  ASSUME NEW S, NEW s \in Seq(S), s # <<>>
  PROVE  Tail(s) \in Seq(S) /\ Head(s) \in S /\ Head(s) = s[1] /\ 1 \in DOMAIN s
  OBVIOUS

LEMMA AppendType ==
  ASSUME NEW S, NEW s \in Seq(S), NEW x \in S
  PROVE  Append(s, x) \in Seq(S)
  OBVIOUS

LEMMA SeqTypes ==
  ASSUME NEW S
  PROVE  /\ <<>> \in Seq(S)
         /\ \A x \in S : <<x>> \in Seq(S)
         /\ \A x, y \in S : <<x, y>> \in Seq(S)
         /\ \A x, y, z \in S : <<x, y, z>> \in Seq(S)
  OBVIOUS

LEMMA Items ==
  /\ \A action \in Actions \cup {"settimer", "cancel"}, cb \in BOOLEAN : Do(action, cb) \in Item
  /\ \A t \in BOOLEAN : Stop(t) \in Seq(Item)
<1>1. \A action \in Actions \cup {"settimer", "cancel"}, cb \in BOOLEAN : Do(action, cb) \in Item
  BY DEF Do, Item
<1>2. Do("view", FALSE) \in Item /\ Do("nopreview", FALSE) \in Item /\ Do("cancel", FALSE) \in Item
  BY <1>1 DEF Actions
<1>3. <<Do("view", FALSE), Do("nopreview", FALSE), Do("cancel", FALSE)>> \in Seq(Item)
  BY <1>2, SeqTypes
<1> QED
  BY <1>1, <1>3, SeqTypes DEF Stop

LEMMA Two == "ui" \in Askers /\ "working" \in Askers /\ \A a \in Askers : a = "ui" \/ a = "working"
BY DEF Askers

\* What File puts into the table.
LEMMA FileRequest ==
  ASSUME TypeOK, NEW a \in Askers, File(a)
  PROVE  \E r \in Request :
           /\ r.action = Head(todo[a]).action /\ r.id = asked + 1
           /\ Serial(Head(todo[a]), r.sn, serial')
           /\ table' = [s \in DOMAIN table \cup {r.sn} |-> IF s = r.sn THEN r ELSE table[s]]
           /\ filed' = [filed EXCEPT ![a] = r]
<1> serial \in Nat /\ asked \in Nat /\ todo \in [Askers -> Seq(Item)]
  BY DEF TypeOK
<1>1. Head(todo[a]) \in Item /\ Head(todo[a]).action \in Actions
  BY TailType DEF File
<1>2. Head(todo[a]).cb \in BOOLEAN
  BY <1>1 DEF Item
<1>3. PICK sn \in Serials :
        LET r == [id |-> asked + 1, action |-> Head(todo[a]).action, cb |-> Head(todo[a]).cb,
                 sn |-> sn]
        IN  /\ Serial(Head(todo[a]), sn, serial')
            /\ table' = [s \in DOMAIN table \cup {sn} |-> IF s = sn THEN r ELSE table[s]]
            /\ filed' = [filed EXCEPT ![a] = r]
  BY DEF File
<1>4. sn \in Nat
  BY GatewayAssumption DEF Serials
<1> DEFINE q == [id |-> asked + 1, action |-> Head(todo[a]).action, cb |-> Head(todo[a]).cb,
                 sn |-> sn]
<1>5. q \in Request
  BY <1>1, <1>2, <1>4 DEF Request
<1>6. q.sn = sn /\ q.id = asked + 1 /\ q.action = Head(todo[a]).action
  OBVIOUS
<1> QED
  BY <1>3, <1>5, <1>6

LEMMA TableType ==
  ASSUME TypeOK, [Next]_vars
  PROVE  table' \in [DOMAIN table' -> Request] /\ DOMAIN table' \subseteq Nat
<1> table \in [DOMAIN table -> Request] /\ DOMAIN table \subseteq Nat
  BY DEF TypeOK
<1>1. ASSUME NEW a \in Askers, File(a)
      PROVE  table' \in [DOMAIN table' -> Request] /\ DOMAIN table' \subseteq Nat
  <2>1. PICK r \in Request :
          table' = [s \in DOMAIN table \cup {r.sn} |-> IF s = r.sn THEN r ELSE table[s]]
    BY <1>1, FileRequest
  <2>2. r.sn \in Nat
    BY DEF Request
  <2> QED
    BY <2>1, <2>2
<1>2. CASE Respond
  BY <1>2 DEF Respond
<1> QED
  BY <1>1, <1>2, Changes

LEMMA TodoType ==
  ASSUME TypeOK, [Next]_vars
  PROVE  todo' \in [Askers -> Seq(Item)]
<1> todo \in [Askers -> Seq(Item)] /\ timer \in BOOLEAN
  BY DEF TypeOK
<1>0. /\ <<Do("preview", FALSE), Do("settimer", FALSE)>> \in Seq(Item)
      /\ <<Do("view", TRUE)>> \in Seq(Item) /\ <<Do("call", FALSE)>> \in Seq(Item)
      /\ <<Do("release", TRUE)>> \in Seq(Item) /\ <<>> \in Seq(Item)
  BY Items, SeqTypes DEF Actions
<1>1. ASSUME NEW a \in Askers, todo[a] # <<>>, todo' = [todo EXCEPT ![a] = Tail(@)]
      PROVE  todo' \in [Askers -> Seq(Item)]
  BY <1>1, TailType
<1>2. ASSUME NEW a \in Askers, NEW s \in Seq(Item), todo' = [todo EXCEPT ![a] = s]
      PROVE  todo' \in [Askers -> Seq(Item)]
  BY <1>2
<1>3. ASSUME NEW a \in Askers, Paints(a)
      PROVE  todo' \in [Askers -> Seq(Item)]
  BY <1>1, <1>3 DEF Paints
<1>4. ASSUME NEW a \in Askers, Post(a)
      PROVE  todo' \in [Askers -> Seq(Item)]
  <2>1. todo' = [todo EXCEPT ![a] = Tail(@)]
    BY <1>4 DEF Post
  <2>2. Tail(todo[a]) \in Seq(Item) \/ todo[a] = <<>>
    BY TailType
  <2>3. Tail(<<>>) \in Seq(Item)
    OBVIOUS
  <2> QED
    BY <2>1, <2>2, <2>3
<1>5. CASE Respond
  BY <1>0, <1>2, <1>5, Two DEF Respond, Callback
<1>6. CASE StartVideoPreview \/ Dial \/ CleanupUiKit
  BY <1>0, <1>2, <1>6, Two DEF StartVideoPreview, Dial, CleanupUiKit
<1>7. CASE StopVideoPreview \/ ShowAudioPage
  BY <1>2, <1>7, Two, Items DEF StopVideoPreview, ShowAudioPage
<1>8. CASE Event
  <2>1. (IF form THEN Stop(timer) ELSE <<>>) \in Seq(Item)
    BY <1>0, Items
  <2> QED
    BY <1>2, <1>8, <2>1, Two DEF Event
<1> QED
  BY <1>3, <1>4, <1>5, <1>6, <1>7, <1>8, Changes

LEMMA FiledType ==
  ASSUME TypeOK, [Next]_vars
  PROVE  filed' \in [Askers -> Request \cup {None}]
<1> filed \in [Askers -> Request \cup {None}]
  BY DEF TypeOK
<1>1. ASSUME NEW a \in Askers, File(a)
      PROVE  filed' \in [Askers -> Request \cup {None}]
  BY <1>1, FileRequest
<1>2. ASSUME NEW a \in Askers, Post(a)
      PROVE  filed' \in [Askers -> Request \cup {None}]
  BY <1>2 DEF Post
<1> QED
  BY <1>1, <1>2, Changes

LEMMA WorkType ==
  ASSUME TypeOK, [Next]_vars
  PROVE  work' \in Seq(WorkItem)
<1> work \in Seq(WorkItem) /\ filed \in [Askers -> Request \cup {None}]
  BY DEF TypeOK, WorkItem
<1>1. ASSUME NEW a \in Askers, Post(a)
      PROVE  work' \in Seq(WorkItem)
  <2>1. [kind |-> "request", r |-> filed[a]] \in WorkItem
    BY <1>1 DEF Post, WorkItem
  <2> QED
    BY <1>1, <2>1, AppendType DEF Post
<1>2. CASE Dispatch
  <2>1. work # <<>>
    BY <1>2 DEF Dispatch, Takes
  <2>2. Tail(work) \in Seq(WorkItem) /\ Head(work) \in WorkItem
    BY <2>1, TailType
  <2>3. [kind |-> "answer", r |-> Head(work).r] \in WorkItem
    BY <2>2 DEF WorkItem
  <2>4. Append(Tail(work), [kind |-> "answer", r |-> Head(work).r]) \in Seq(WorkItem)
    BY <2>2, <2>3, AppendType
  <2> QED
    BY <1>2, <2>2, <2>4 DEF Dispatch
<1>3. CASE Respond
  BY <1>3, TailType DEF Respond, Takes
<1> QED
  BY <1>1, <1>2, <1>3, Changes

LEMMA NoticeTypes ==
  ASSUME TypeOK, [Next]_vars
  PROVE  notices' \in Seq(Notices) /\ events' \in Seq(Notices)
<1> notices \in Seq(Notices) /\ events \in Seq(Notices)
  BY DEF TypeOK, Notices
<1>1. CASE NotifyRuns
  BY <1>1, TailType, AppendType DEF NotifyRuns
<1>2. \A n \in Notices : Notify(n) => notices' \in Seq(Notices)
  BY AppendType DEF Notify
<1>3. CASE Dispatch
  BY <1>2, <1>3 DEF Dispatch, Notices
<1>4. CASE IsInvited
  BY <1>2, <1>4 DEF IsInvited, Notices
<1>5. CASE Event
  BY <1>5, TailType DEF Event
<1>6. CASE CleanupUiKit
  BY <1>6, SeqTypes DEF CleanupUiKit
<1> QED
  BY <1>1, <1>3, <1>4, <1>5, <1>6, Changes

\* The gateway is told to stop after the SDKs are cleaned up.
Exit ==
  /\ SdkLives <=> threads.working = "running"
  /\ phase = "exit" <=> threads.notify = "gone"

LEMMA ThreadTypes ==
  ASSUME TypeOK, Exit, [Next]_vars
  PROVE  /\ threads' \in [{"working", "notify"} -> {"running", "stopping", "gone"}]
         /\ threads'.notify # "running" => threads'.working = "gone"
<1> /\ threads \in [{"working", "notify"} -> {"running", "stopping", "gone"}]
    /\ threads.notify # "running" => threads.working = "gone"
  BY DEF TypeOK
<1>1. CASE CleanupSDKs
  <2>1. threads.working = "running"
    BY <1>1 DEF CleanupSDKs, Exit, SdkLives
  <2> QED
    BY <1>1, <2>1 DEF CleanupSDKs
<1>2. CASE WorkingEnds \/ StopNotify \/ NotifyEnds
  BY <1>2 DEF WorkingEnds, StopNotify, NotifyEnds
<1>3. CASE threads' = threads
  BY <1>3
<1> QED
  BY <1>1, <1>2, <1>3, Changes

LEMMA Types ==
  ASSUME TypeOK, Exit, [Next]_vars
  PROVE  TypeOK'
<1>1. serial' \in Nat /\ asked' \in Nat
  <2> serial \in Nat /\ asked \in Nat
    BY DEF TypeOK
  <2>1. ASSUME NEW a \in Askers, File(a)
        PROVE  serial' \in Nat /\ asked' \in Nat
    <3>1. asked' = asked + 1
      BY <2>1 DEF File
    <3>2. PICK sn : Serial(Head(todo[a]), sn, serial')
      BY <2>1, FileRequest
    <3> QED
      BY <3>1, <3>2 DEF Serial
  <2> QED
    BY <2>1, Changes
<1>2. engine' \in BOOLEAN /\ preview' \in BOOLEAN /\ form' \in BOOLEAN /\ timer' \in BOOLEAN
  <2> engine \in BOOLEAN /\ preview \in BOOLEAN /\ form \in BOOLEAN /\ timer \in BOOLEAN
    BY DEF TypeOK
  <2>1. CASE Dispatch
    <3>1. PICK action : Engine(action)
      BY <2>1 DEF Dispatch
    <3> engine' \in BOOLEAN /\ preview' \in BOOLEAN
      BY <3>1 DEF Engine
    <3> QED
      BY <2>1, Changes DEF Dispatch, viewvars
  <2>2. CASE engine' = engine /\ preview' = preview
    <3>1. form' \in BOOLEAN
      BY Changes DEF StartVideoPreview, StopVideoPreview, CleanupUiKit
    <3>2. timer' \in BOOLEAN
      BY Changes DEF Paints, ShowAudioPage
    <3> QED
      BY <2>2, <3>1, <3>2
  <2> QED
    BY <2>1, <2>2, Changes
<1>3. window' \in {"none", "ringing", "talking"}
  <2> window \in {"none", "ringing", "talking"}
    BY DEF TypeOK
  <2> QED
    BY Changes DEF Dial, Event, Talk
<1>4. phase' \in {"loop", "cleanup", "released", "stopping", "exit"}
  <2> phase \in {"loop", "cleanup", "released", "stopping", "exit"}
    BY DEF TypeOK
  <2> QED
    BY Changes DEF Respond, Callback, CleanupUiKit, CleanupSDKs, NotifyEnds
<1>5. acts' \in 0..MaxActs
  <2> acts \in 0..MaxActs
    BY DEF TypeOK
  <2>1. acts' = acts \/ Acts
    BY Changes DEF StartVideoPreview, StopVideoPreview, ShowAudioPage, Dial, Talk
  <2> QED
    BY <2>1, GatewayAssumption DEF Acts
<1>6. invites' \in 0..MaxInvites
  <2> invites \in 0..MaxInvites
    BY DEF TypeOK
  <2> QED
    BY Changes, GatewayAssumption DEF IsInvited
<1>7. called' \in Seq(Request)
  <2> called \in Seq(Request) /\ table \in [DOMAIN table -> Request]
    BY DEF TypeOK
  <2>1. CASE Respond
    <3>1. \A r \in Request : Callback(r) => called' \in Seq(Request)
      BY AppendType DEF Callback
    <3> QED
      BY <2>1, <3>1 DEF Respond
  <2> QED
    BY <2>1, Changes
<1>8. stray' \in BOOLEAN
  BY Changes DEF TypeOK, Post, Dispatch, IsInvited, Notify
<1> QED
  BY <1>1, <1>2, <1>3, <1>4, <1>5, <1>6, <1>7, <1>8,
     TableType, TodoType, FiledType, WorkType, NoticeTypes, ThreadTypes
  DEF TypeOK, WorkItem, Notices

-----------------------------------------------------------------------------
(* The exit: there is one request for the release, and nothing is to be    *)
(* done when a thread ends.                                                *)

\* The callback of the release is in the table, or on its way there, only
\* while CleanupUiKit waits for it.
OneRelease ==
  /\ \A s \in DOMAIN table : table[s].action = "release" => phase = "cleanup"
  /\ \A s1, s2 \in DOMAIN table :
       table[s1].action = "release" /\ table[s2].action = "release" => s1 = s2
  /\ \A i \in DOMAIN todo["working"] : todo["working"][i].action # "release"
  /\ \A i \in DOMAIN todo["ui"] : todo["ui"][i].action = "release" =>
       /\ Len(todo["ui"]) = 1 /\ phase \in {"cleanup", "released"}
       /\ filed["ui"] = None =>
            /\ phase = "cleanup"
            /\ \A s \in DOMAIN table : table[s].action # "release"

\* What a thread has filed it has yet to post; a thread that has ended has
\* nothing to do.
Undone ==
  /\ \A a \in Askers : filed[a] # None => todo[a] # <<>> /\ Head(todo[a]).action \in Actions
  /\ phase \in {"stopping", "exit"} => todo["ui"] = <<>>
  /\ threads.working = "gone" => work = <<>> /\ todo["working"] = <<>>
  /\ phase = "exit" => notices = <<>>

IInv == TypeOK /\ Exit /\ OneRelease /\ Undone /\ NoDeadThread

LEMMA NoneId == None.id = 0
BY DEF None

LEMMA ExitStep ==
  ASSUME TypeOK, Exit, OneRelease, [Next]_vars
  PROVE  Exit'
<1> /\ threads \in [{"working", "notify"} -> {"running", "stopping", "gone"}]
    /\ threads.notify # "running" => threads.working = "gone"
  BY DEF TypeOK
<1>1. CASE Respond
  <2>1. threads' = threads
    BY <1>1 DEF Respond
  <2>2. phase' = phase \/ (phase = "cleanup" /\ phase' = "released")
    BY <1>1 DEF Respond, Callback, OneRelease
  <2> QED
    BY <2>1, <2>2 DEF Exit, SdkLives
<1>2. CASE CleanupUiKit
  BY <1>2 DEF CleanupUiKit, Exit, SdkLives
<1>3. CASE CleanupSDKs
  BY <1>3 DEF CleanupSDKs, Exit, SdkLives
<1>4. CASE WorkingEnds
  BY <1>4 DEF WorkingEnds, Exit, SdkLives
<1>5. CASE StopNotify
  BY <1>5 DEF StopNotify, Exit, SdkLives
<1>6. CASE NotifyEnds
  BY <1>6 DEF NotifyEnds, Exit, SdkLives
<1>7. CASE phase' = phase /\ threads' = threads
  BY <1>7 DEF Exit, SdkLives
<1> QED
  BY <1>1, <1>2, <1>3, <1>4, <1>5, <1>6, <1>7, Changes

\* The list of what is still to be done gets shorter, or is one of these.
LEMMA Shorter ==
  ASSUME NEW S, NEW s \in Seq(S), s # <<>>
  PROVE  /\ Len(Tail(s)) = Len(s) - 1
         /\ \A i \in DOMAIN Tail(s) : i + 1 \in DOMAIN s /\ Tail(s)[i] = s[i + 1]
         /\ Len(s) = 1 => Tail(s) = <<>>
  OBVIOUS

LEMMA Lists ==
  /\ \A t \in BOOLEAN : \A i \in DOMAIN Stop(t) : Stop(t)[i].action # "release"
  /\ \A action, cb : /\ DOMAIN <<Do(action, cb)>> = {1}
                     /\ <<Do(action, cb)>>[1].action = action
                     /\ Len(<<Do(action, cb)>>) = 1
<1>1. \A action, cb : Do(action, cb).action = action
  BY DEF Do
<1>2. \A t \in BOOLEAN : \A i \in DOMAIN Stop(t) : Stop(t)[i].action # "release"
  <2>1. ASSUME NEW x, NEW y, NEW z
        PROVE  \A i \in DOMAIN <<x, y, z>> : <<x, y, z>>[i] \in {x, y, z}
    OBVIOUS
  <2>2. \A i \in DOMAIN Stop(TRUE) :
          Stop(TRUE)[i] \in {Do("view", FALSE), Do("nopreview", FALSE), Do("cancel", FALSE)}
    BY <2>1 DEF Stop
  <2>3. DOMAIN Stop(FALSE) = {}
    BY DEF Stop
  <2>0. /\ Do("view", FALSE).action # "release" /\ Do("nopreview", FALSE).action # "release"
        /\ Do("cancel", FALSE).action # "release"
    BY DEF Do
  <2>4. \A i \in DOMAIN Stop(TRUE) : Stop(TRUE)[i].action # "release"
    BY <2>0, <2>2
  <2>5. \A i \in DOMAIN Stop(FALSE) : Stop(FALSE)[i].action # "release"
    BY <2>3
  <2>6. \A t \in BOOLEAN : t = TRUE \/ t = FALSE
    OBVIOUS
  <2> QED
    BY <2>4, <2>5, <2>6
<1> QED
  BY <1>1, <1>2

\* Neither list takes up a release but by CleanupUiKit.
LEMMA ListStep ==
  ASSUME TypeOK, Undone, [Next]_vars, ~CleanupUiKit,
         NEW a \in Askers, NEW i \in DOMAIN todo'[a], todo'[a][i].action = "release"
  PROVE  /\ \E j \in DOMAIN todo[a] : todo[a][j].action = "release"
         /\ todo'[a] = todo[a] \/ (todo[a] # <<>> /\ todo'[a] = Tail(todo[a]))
<1> todo \in [Askers -> Seq(Item)] /\ timer \in BOOLEAN
  BY DEF TypeOK
<1>1. ASSUME NEW b \in Askers, Post(b) \/ Paints(b)
      PROVE  todo'[a] = todo[a] \/ (todo[a] # <<>> /\ todo'[a] = Tail(todo[a]))
  BY <1>1 DEF Post, Paints, Undone
<1>0. todo'[a] # Stop(timer) /\ todo'[a] # Stop(FALSE)
  <2>1. \A t \in BOOLEAN : todo'[a] # Stop(t)
    BY Lists
  <2> QED
    BY <2>1
<1>2. CASE Respond
  <2>1. \A j \in DOMAIN <<Do("preview", FALSE), Do("settimer", FALSE)>> :
          <<Do("preview", FALSE), Do("settimer", FALSE)>>[j].action # "release"
    BY DEF Do
  <2> QED
    BY <1>2, <2>1 DEF Respond, Callback
<1>3. CASE StartVideoPreview \/ Dial
  <2>1. todo'[a] \in {todo[a], <<Do("view", TRUE)>>, <<Do("call", FALSE)>>}
    BY <1>3 DEF StartVideoPreview, Dial
  <2>2. ASSUME NEW action, action # "release"
        PROVE  todo'[a] # <<Do(action, TRUE)>> /\ todo'[a] # <<Do(action, FALSE)>>
    BY <2>2 DEF Do
  <2>3. todo'[a] # <<Do("view", TRUE)>> /\ todo'[a] # <<Do("call", FALSE)>>
    BY <2>2
  <2> QED
    BY <2>1, <2>3
<1>4. CASE StopVideoPreview \/ ShowAudioPage
  <2>1. todo'[a] \in {todo[a], Stop(timer), Stop(FALSE)}
    BY <1>4 DEF StopVideoPreview, ShowAudioPage
  <2> QED
    BY <1>0, <2>1
<1>5. CASE Event
  <2>1. todo'[a] \in {todo[a], Stop(timer), <<>>}
    BY <1>5 DEF Event
  <2>2. Stop(FALSE) = <<>>
    BY DEF Stop
  <2> QED
    BY <1>0, <2>1, <2>2
<1>6. todo'[a] = todo[a] \/ (todo[a] # <<>> /\ todo'[a] = Tail(todo[a]))
  BY <1>1, <1>2, <1>3, <1>4, <1>5, Changes
<1>7. \E j \in DOMAIN todo[a] : todo[a][j].action = "release"
  <2>1. CASE todo[a] # <<>> /\ todo'[a] = Tail(todo[a])
    <3>1. i + 1 \in DOMAIN todo[a] /\ todo'[a][i] = todo[a][i + 1]
      BY <2>1, Shorter
    <3> QED
      BY <3>1
  <2> QED
    BY <1>6, <2>1
<1> QED
  BY <1>6, <1>7

\* The table: a release gets into it from the UI thread's list, once.
LEMMA TableStep ==
  ASSUME TypeOK, Exit, OneRelease, [Next]_vars
  PROVE  /\ \A s \in DOMAIN table' : table'[s].action = "release" => phase' = "cleanup"
         /\ \A s1, s2 \in DOMAIN table' :
              table'[s1].action = "release" /\ table'[s2].action = "release" => s1 = s2
<1> /\ todo \in [Askers -> Seq(Item)]
    /\ table \in [DOMAIN table -> Request]
  BY DEF TypeOK
<1>1. ASSUME NEW a \in Askers, File(a)
      PROVE  /\ \A s \in DOMAIN table' : table'[s].action = "release" => phase' = "cleanup"
             /\ \A s1, s2 \in DOMAIN table' :
                  table'[s1].action = "release" /\ table'[s2].action = "release" => s1 = s2
  <2>1. PICK r \in Request :
          /\ r.action = Head(todo[a]).action
          /\ table' = [s \in DOMAIN table \cup {r.sn} |-> IF s = r.sn THEN r ELSE table[s]]
    BY <1>1, FileRequest
  <2>2. phase' = phase /\ filed[a] = None /\ 1 \in DOMAIN todo[a] /\ r.action = todo[a][1].action
    BY <1>1, <2>1, TailType DEF File
  <2>3. CASE r.action = "release"
    <3>1. phase = "cleanup" /\ \A s \in DOMAIN table : table[s].action # "release"
      BY <2>2, <2>3, Two DEF OneRelease
    <3> QED
      BY <2>1, <2>2, <3>1
  <2>4. CASE r.action # "release"
    BY <2>1, <2>2, <2>4 DEF OneRelease
  <2> QED
    BY <2>3, <2>4
<1>2. CASE Respond
  <2>1. CASE Head(work).r.sn \in DOMAIN table
    <3> DEFINE sn == Head(work).r.sn
    <3>1. table' = [s \in DOMAIN table \ {sn} |-> table[s]] /\ Callback(table[sn])
      BY <1>2, <2>1 DEF Respond
    <3>2. phase' = phase \/ table[sn].action = "release"
      BY <3>1 DEF Callback
    <3> QED
      BY <2>1, <3>1, <3>2 DEF OneRelease
  <2>2. CASE Head(work).r.sn \notin DOMAIN table
    BY <1>2, <2>2 DEF Respond, OneRelease
  <2> QED
    BY <2>1, <2>2
<1>3. CASE CleanupUiKit \/ CleanupSDKs \/ NotifyEnds
  <2>1. table' = table
    BY <1>3 DEF CleanupUiKit, CleanupSDKs, NotifyEnds, reqvars
  <2>2. NotifyEnds => phase # "cleanup"
    BY DEF NotifyEnds, TypeOK, Exit, SdkLives
  <2>3. phase # "cleanup"
    BY <1>3, <2>2 DEF CleanupUiKit, CleanupSDKs
  <2> QED
    BY <2>1, <2>3 DEF OneRelease
<1>4. CASE table' = table /\ phase' = phase
  BY <1>4 DEF OneRelease
<1> QED
  BY <1>1, <1>2, <1>3, <1>4, Changes

LEMMA ReleaseStep ==
  ASSUME TypeOK, Exit, OneRelease, Undone, [Next]_vars
  PROVE  OneRelease'
<1> todo \in [Askers -> Seq(Item)] /\ table \in [DOMAIN table -> Request]
  BY DEF TypeOK
<1>1. \A i \in DOMAIN todo'["working"] : todo'["working"][i].action # "release"
  <2>1. CASE CleanupUiKit
    BY <2>1, Two DEF CleanupUiKit, OneRelease
  <2>2. CASE ~CleanupUiKit
    BY <2>2, ListStep, Two DEF OneRelease
  <2> QED
    BY <2>1, <2>2
<1>2. ASSUME NEW i \in DOMAIN todo'["ui"], todo'["ui"][i].action = "release"
      PROVE  /\ Len(todo'["ui"]) = 1 /\ phase' \in {"cleanup", "released"}
             /\ filed'["ui"] = None =>
                  /\ phase' = "cleanup"
                  /\ \A s \in DOMAIN table' : table'[s].action # "release"
  <2>1. CASE CleanupUiKit
    <3>1. /\ todo'["ui"] = <<Do("release", TRUE)>> /\ phase' = "cleanup" /\ phase = "loop"
          /\ table' = table
      BY <2>1, Two DEF CleanupUiKit, reqvars
    <3> QED
      BY <3>1, Lists DEF OneRelease
  <2>2. CASE ~CleanupUiKit
    <3>1. /\ \E j \in DOMAIN todo["ui"] : todo["ui"][j].action = "release"
          /\ todo'["ui"] = todo["ui"] \/ (todo["ui"] # <<>> /\ todo'["ui"] = Tail(todo["ui"]))
      BY <1>2, <2>2, ListStep, Two
    <3>2. /\ Len(todo["ui"]) = 1 /\ phase \in {"cleanup", "released"}
          /\ filed["ui"] = None =>
                /\ phase = "cleanup"
                /\ \A s \in DOMAIN table : table[s].action # "release"
      BY <3>1 DEF OneRelease
    <3>3. todo'["ui"] = todo["ui"]
      <4> SUFFICES ASSUME todo["ui"] # <<>>, todo'["ui"] = Tail(todo["ui"])
                   PROVE  FALSE
        BY <3>1
      <4>1. todo'["ui"] = <<>>
        BY <3>2, Shorter, Two
      <4>2. DOMAIN <<>> = {}
        OBVIOUS
      <4> QED
        BY <1>2, <4>1, <4>2
    <3>4. todo["ui"] # <<>>
      BY <3>1
    <3>5. CASE \E a \in Askers : File(a)
      <4>1. PICK a \in Askers : File(a)
        BY <3>5
      <4>2. PICK r \in Request :
              /\ r.action = Head(todo[a]).action /\ r.id = asked + 1
              /\ table' = [s \in DOMAIN table \cup {r.sn} |-> IF s = r.sn THEN r ELSE table[s]]
              /\ filed' = [filed EXCEPT ![a] = r]
        BY <4>1, FileRequest
      <4>3. phase' = phase /\ filed \in [Askers -> Request \cup {None}]
        BY <4>1 DEF File, TypeOK
      <4>4. CASE a = "ui"
        <5>1. filed'["ui"] = r /\ r.id = asked + 1 /\ asked \in Nat
          BY <4>2, <4>3, <4>4, Two DEF TypeOK
        <5>2. filed'["ui"] # None
          BY <5>1, NoneId
        <5> QED
          BY <3>2, <3>3, <4>3, <5>2
      <4>5. CASE a = "working"
        <5>1. r.action # "release"
          <6>1. Head(todo[a]) = todo[a][1] /\ 1 \in DOMAIN todo[a]
            BY <4>1, TailType DEF File
          <6> QED
            BY <4>2, <4>5, <6>1 DEF OneRelease
        <5>2. filed'["ui"] = filed["ui"]
          BY <4>2, <4>3, <4>5, Two
        <5> QED
          BY <3>2, <3>3, <4>2, <4>3, <5>1, <5>2
      <4> QED
        BY <4>4, <4>5, Two
    <3>6. CASE \E a \in Askers : Post(a)
      <4>1. PICK a \in Askers : Post(a)
        BY <3>6
      <4>2. a = "working"
        <5> SUFFICES ASSUME a = "ui"
                     PROVE  FALSE
          BY Two
        <5>1. todo'["ui"] = Tail(todo["ui"])
          BY <4>1, Two DEF Post
        <5>2. Len(todo'["ui"]) # Len(todo["ui"])
          BY <3>2, <3>4, <5>1, Shorter, Two
        <5> QED
          BY <3>3, <5>2
      <4>3. filed'["ui"] = filed["ui"] /\ table' = table /\ phase' = phase
        BY <4>1, <4>2, Two DEF Post, TypeOK
      <4> QED
        BY <3>2, <3>3, <4>3
    <3>7. CASE Respond
      <4>1. filed' = filed
        BY <3>7 DEF Respond
      <4>2. \/ phase' = phase
            \/ phase' = "released" /\ \E s \in DOMAIN table : table[s].action = "release"
        BY <3>7 DEF Respond, Callback
      <4>3. \A s \in DOMAIN table' : s \in DOMAIN table /\ table'[s] = table[s]
        BY <3>7 DEF Respond
      <4> QED
        BY <3>2, <3>3, <4>1, <4>2, <4>3
    <3>8. CASE CleanupSDKs \/ NotifyEnds
      BY <3>2, <3>4, <3>8 DEF CleanupSDKs, NotifyEnds, TypeOK, Exit, SdkLives
    <3>9. CASE table' = table /\ filed' = filed /\ phase' = phase
      BY <3>2, <3>3, <3>9
    <3> QED
      BY <2>2, <3>5, <3>6, <3>7, <3>8, <3>9, Changes
  <2> QED
    BY <2>1, <2>2
<1> QED
  BY <1>1, <1>2, TableStep DEF OneRelease

-----------------------------------------------------------------------------
(* Who has something to do is running.                                     *)

\* Guards, seen from the invariant: who is able to post.
LEMMA Posters ==
  ASSUME TypeOK, Exit, Undone
  PROVE  /\ \A a \in Askers : Post(a) => threads.working # "gone"
         /\ \A kind : Takes(kind) => threads.working # "gone" /\ threads.notify = "running"
         /\ SdkLives => threads.working # "gone" /\ threads.notify = "running"
<1> /\ threads \in [{"working", "notify"} -> {"running", "stopping", "gone"}]
    /\ threads.notify # "running" => threads.working = "gone"
    /\ phase \in {"loop", "cleanup", "released", "stopping", "exit"}
  BY DEF TypeOK
<1>1. ASSUME NEW a \in Askers, Post(a)
      PROVE  threads.working # "gone"
  <2>1. todo[a] # <<>>
    BY <1>1 DEF Post, Undone
  <2> QED
    BY <2>1, Two DEF Undone, Exit, SdkLives
<1> QED
  BY <1>1 DEF Takes, Exit

LEMMA FiledStep ==
  ASSUME TypeOK, Undone, [Next]_vars, NEW a \in Askers, filed'[a] # None
  PROVE  todo'[a] # <<>> /\ Head(todo'[a]).action \in Actions
<1> todo \in [Askers -> Seq(Item)] /\ filed \in [Askers -> Request \cup {None}]
  BY DEF TypeOK
<1>1. ASSUME NEW b \in Askers, File(b)
      PROVE  todo'[a] # <<>> /\ Head(todo'[a]).action \in Actions
  <2>1. todo' = todo /\ todo[b] # <<>> /\ Head(todo[b]).action \in Actions
    BY <1>1 DEF File
  <2>2. b # a => filed'[a] = filed[a]
    BY <1>1, FileRequest
  <2> QED
    BY <2>1, <2>2 DEF Undone
<1>2. ASSUME NEW b \in Askers, Post(b)
      PROVE  todo'[a] # <<>> /\ Head(todo'[a]).action \in Actions
  <2>1. b # a
    BY <1>2 DEF Post
  <2> QED
    BY <1>2, <2>1 DEF Post, Undone
<1>3. CASE filed' = filed
  <2>1. todo[a] # <<>> /\ Head(todo[a]).action \in Actions
    BY <1>3 DEF Undone
  <2>2. ASSUME NEW b \in Askers, Paints(b)
        PROVE  b # a
    BY <2>1, <2>2 DEF Paints, Actions
  <2>3. CASE \E b \in Askers : Paints(b)
    BY <2>1, <2>2, <2>3 DEF Paints
  <2>4. CASE Respond
    <3>1. a = "ui"
      BY <2>1, <2>4, Two DEF Respond, Takes
    <3> QED
      BY <2>1, <2>4, <3>1 DEF Respond, Callback
  <2>5. CASE StartVideoPreview \/ StopVideoPreview \/ ShowAudioPage \/ Dial \/ Event \/ CleanupUiKit
    <3>1. a = "working"
      BY <2>1, <2>5, Two
      DEF StartVideoPreview, StopVideoPreview, ShowAudioPage, Dial, Event, CleanupUiKit, Acts
    <3>2. todo'[a] = todo[a]
      BY <2>5, <3>1
      DEF StartVideoPreview, StopVideoPreview, ShowAudioPage, Dial, Event, CleanupUiKit
    <3> QED
      BY <2>1, <3>2
  <2>6. ASSUME NEW b \in Askers, Post(b)
        PROVE  todo'[a] # <<>> /\ Head(todo'[a]).action \in Actions
    BY <1>2, <2>6
  <2>7. CASE todo' = todo
    BY <2>1, <2>7
  <2> QED
    BY <2>3, <2>4, <2>5, <2>6, <2>7, Changes
<1> QED
  BY <1>1, <1>2, <1>3, Changes

\* Past the release, the UI thread has nothing more to ask for.
LEMMA SilentStep ==
  ASSUME TypeOK, Exit, OneRelease, Undone, [Next]_vars, phase' \in {"stopping", "exit"}
  PROVE  todo'["ui"] = <<>>
<1> todo \in [Askers -> Seq(Item)]
  BY DEF TypeOK
<1>1. CASE CleanupSDKs
  BY <1>1 DEF CleanupSDKs
<1>2. CASE phase \in {"stopping", "exit"}
  <2>1. todo["ui"] = <<>>
    BY <1>2 DEF Undone
  <2>2. ASSUME NEW a \in Askers, Post(a) \/ Paints(a)
        PROVE  todo'["ui"] = <<>>
    <3>1. todo[a] # <<>>
      BY <2>2 DEF Post, Paints, Undone
    <3>2. a # "ui"
      BY <2>1, <3>1
    <3> QED
      BY <2>1, <2>2, <3>2, Two DEF Post, Paints
  <2>3. CASE Respond
    BY <2>1, <2>3, Two DEF Respond, Callback
  <2>4. ~(StartVideoPreview \/ StopVideoPreview \/ ShowAudioPage \/ Dial \/ Event \/ CleanupUiKit)
    BY <1>2 DEF StartVideoPreview, StopVideoPreview, ShowAudioPage, Dial, Event, CleanupUiKit, Acts
  <2> QED
    BY <2>1, <2>2, <2>3, <2>4, Changes
<1>3. CASE NotifyEnds
  <2>1. phase \in {"stopping", "exit"}
    BY <1>3 DEF NotifyEnds, TypeOK, Exit, SdkLives
  <2> QED
    BY <1>2, <2>1
<1>4. Respond \/ CleanupUiKit => phase \in {"stopping", "exit"}
  BY DEF Respond, Callback, CleanupUiKit
<1> QED
  BY <1>1, <1>2, <1>3, <1>4, Changes

\* A thread that has ended is given nothing to do.
LEMMA GoneStep ==
  ASSUME TypeOK, Exit, Undone, [Next]_vars, threads'.working = "gone"
  PROVE  work' = <<>> /\ todo'["working"] = <<>>
<1> /\ todo \in [Askers -> Seq(Item)]
    /\ threads \in [{"working", "notify"} -> {"running", "stopping", "gone"}]
  BY DEF TypeOK
<1>1. CASE WorkingEnds
  BY <1>1 DEF WorkingEnds
<1>2. CASE threads.working = "gone"
  <2>1. work = <<>> /\ todo["working"] = <<>>
    BY <1>2 DEF Undone
  <2>2. /\ ~Dispatch /\ ~Respond
        /\ \A a \in Askers : ~Post(a)
    BY <1>2, Posters DEF Dispatch, Respond
  <2>3. work' = <<>>
    BY <2>1, <2>2, Changes
  <2>4. ASSUME NEW a \in Askers, Paints(a)
        PROVE  todo'["working"] = <<>>
    <3>1. a # "working"
      BY <2>1, <2>4 DEF Paints
    <3> QED
      BY <2>1, <2>4, <3>1, Two DEF Paints
  <2>5. CASE StartVideoPreview \/ StopVideoPreview \/ ShowAudioPage \/ Dial \/ Event \/ CleanupUiKit
    BY <2>1, <2>5, Two
    DEF StartVideoPreview, StopVideoPreview, ShowAudioPage, Dial, Event, CleanupUiKit
  <2> QED
    BY <2>1, <2>2, <2>3, <2>4, <2>5, Changes
<1>3. CASE threads.working # "gone" /\ ~WorkingEnds
  <2>1. CASE CleanupSDKs \/ StopNotify \/ NotifyEnds
    BY <1>3, <2>1 DEF CleanupSDKs, StopNotify, NotifyEnds
  <2> QED
    BY <1>3, <2>1, Changes
<1> QED
  BY <1>1, <1>2, <1>3

LEMMA NoticesStep ==
  ASSUME TypeOK, Exit, Undone, [Next]_vars, phase' = "exit"
  PROVE  notices' = <<>>
<1>1. CASE NotifyEnds
  BY <1>1 DEF NotifyEnds
<1>2. CASE phase = "exit"
  <2>1. notices = <<>> /\ threads.notify = "gone"
    BY <1>2 DEF Undone, Exit
  <2>2. ~NotifyRuns /\ ~Dispatch /\ ~IsInvited
    BY <2>1, Posters DEF NotifyRuns, Dispatch, IsInvited
  <2> QED
    BY <2>1, <2>2, Changes
<1>3. Respond \/ CleanupUiKit \/ CleanupSDKs => phase = "exit"
  BY DEF Respond, Callback, CleanupUiKit, CleanupSDKs
<1> QED
  BY <1>1, <1>2, <1>3, Changes

LEMMA UndoneStep ==
  ASSUME TypeOK, Exit, OneRelease, Undone, [Next]_vars
  PROVE  Undone'
BY FiledStep, SilentStep, GoneStep, NoticesStep DEF Undone

LEMMA DeadStep ==
  ASSUME TypeOK, Exit, Undone, NoDeadThread, [Next]_vars
  PROVE  NoDeadThread'
<1>1. \A n : threads.notify # "gone" /\ Notify(n) => stray' = stray
  BY DEF Notify
<1>2. CASE Dispatch
  BY <1>1, <1>2, Posters DEF Dispatch, NoDeadThread
<1>3. CASE IsInvited
  BY <1>1, <1>3, Posters DEF IsInvited, NoDeadThread
<1>4. ASSUME NEW a \in Askers, Post(a)
      PROVE  NoDeadThread'
  BY <1>4, Posters DEF Post, NoDeadThread
<1> QED
  BY <1>2, <1>3, <1>4, Changes DEF NoDeadThread

-----------------------------------------------------------------------------
(* The theorems.                                                           *)

LEMMA Initially == Init => IInv
<1> SUFFICES ASSUME Init PROVE IInv
  OBVIOUS
<1>1. TypeOK
  <2>1. table \in [DOMAIN table -> Request] /\ DOMAIN table \subseteq Nat
    BY DEF Init
  <2>2. todo \in [Askers -> Seq(Item)] /\ filed \in [Askers -> Request \cup {None}]
    BY SeqTypes DEF Init
  <2>3. work \in Seq(WorkItem) /\ notices \in Seq(Notices) /\ events \in Seq(Notices)
    BY SeqTypes DEF Init
  <2>4. /\ threads \in [{"working", "notify"} -> {"running", "stopping", "gone"}]
        /\ threads.notify # "running" => threads.working = "gone"
    BY DEF Init
  <2>5. acts \in 0..MaxActs /\ invites \in 0..MaxInvites /\ serial \in Nat /\ asked \in Nat
    BY GatewayAssumption DEF Init
  <2>6. /\ {engine, preview, form, timer} \subseteq BOOLEAN /\ stray \in BOOLEAN
        /\ window \in {"none", "ringing", "talking"} /\ called \in Seq(Request)
        /\ phase \in {"loop", "cleanup", "released", "stopping", "exit"}
    BY SeqTypes DEF Init
  <2> QED
    BY <2>1, <2>2, <2>3, <2>4, <2>5, <2>6 DEF TypeOK, WorkItem, Notices
<1>2. Exit /\ NoDeadThread
  BY DEF Init, Exit, SdkLives, NoDeadThread
<1>3. DOMAIN <<>> = {}
  OBVIOUS
<1>4. OneRelease
  BY <1>3, Two DEF Init, OneRelease
<1>5. Undone
  BY DEF Init, Undone
<1> QED
  BY <1>1, <1>2, <1>4, <1>5 DEF IInv

LEMMA Step == IInv /\ [Next]_vars => IInv'
BY Types, ExitStep, ReleaseStep, UndoneStep, DeadStep DEF IInv

\* The invariant that the theorems below rest on (Gateway.tla, Next).
THEOREM Invariance == Spec => []IInv
BY Initially, Step, PTL DEF Spec

\* Tables, queues and phases hold what the code can put into them.
THEOREM TypeCorrect == Spec => []TypeOK
<1>1. IInv => TypeOK
  BY DEF IInv
<1> QED
  BY <1>1, Invariance, PTL

\* Whatever is under way when the program ends, and in whatever order the threads
\* run, no request, answer or notification is posted to a thread that has ended
\* (BusinessManager::UnInit, BusinessActionGateway::Stop).
THEOREM NobodyPostsToTheDead == Spec => []NoDeadThread
<1>1. IInv => NoDeadThread
  BY DEF IInv
<1> QED
  BY <1>1, Invariance, PTL

\* When the gateway is stopped nothing that was posted to it is left over.
THEOREM StoppingDrains == Spec => []StopDrains
<1>1. IInv => StopDrains
  BY DEF IInv, TypeOK, Exit, Undone, StopDrains
<1> QED
  BY <1>1, Invariance, PTL

-----------------------------------------------------------------------------
(* The release.  Only it and setupLocalView are answered, and that is      *)
(* numbered: an answer that finds the callback of the release is the       *)
(* release's own, sent after the engine is gone, or its number is one that *)
(* the counter has given out.                                              *)

Numbers ==
  /\ serial # 0
  /\ \A s \in DOMAIN table : table[s].sn = s
  /\ \A a \in Askers : filed[a] # None /\ filed[a].action = "view" => filed[a].sn \in GivenOut
  /\ \A i \in DOMAIN work : work[i].r.action = "view" => work[i].r.sn \in GivenOut

Released ==
  /\ \A i \in DOMAIN work : work[i].kind = "answer" => Answered(work[i].r.action)
  /\ \A i \in DOMAIN work : work[i].kind = "answer" /\ work[i].r.action = "release" => ~engine
  /\ ReleasedFirst

\* What a queue holds after one entry is taken, and another put.
LEMMA TailEntries ==
  ASSUME NEW S, NEW s \in Seq(S), s # <<>>
  PROVE  \A i \in DOMAIN Tail(s) : \E j \in DOMAIN s : Tail(s)[i] = s[j]
BY Shorter

LEMMA AppendEntries ==
  ASSUME NEW S, NEW s \in Seq(S), NEW x \in S
  PROVE  \A i \in DOMAIN Append(s, x) :
           Append(s, x)[i] = x \/ \E j \in DOMAIN s : Append(s, x)[i] = s[j]
OBVIOUS

\* A step adds to the work what was filed, or answers what was there.
LEMMA WorkEntries ==
  ASSUME TypeOK, [Next]_vars, NEW i \in DOMAIN work'
  PROVE  \/ \E j \in DOMAIN work : work'[i] = work[j]
         \/ \E a \in Askers : /\ Post(a) /\ filed[a] # None
                              /\ work'[i] = [kind |-> "request", r |-> filed[a]]
         \/ /\ Dispatch /\ 1 \in DOMAIN work
            /\ work'[i] = [kind |-> "answer", r |-> work[1].r]
<1> work \in Seq(WorkItem) /\ filed \in [Askers -> Request \cup {None}]
  BY DEF TypeOK, WorkItem
<1>1. ASSUME NEW a \in Askers, Post(a)
      PROVE  \/ \E j \in DOMAIN work : work'[i] = work[j]
             \/ filed[a] # None /\ work'[i] = [kind |-> "request", r |-> filed[a]]
  <2>1. [kind |-> "request", r |-> filed[a]] \in WorkItem /\ filed[a] # None
    BY <1>1 DEF Post, WorkItem
  <2> QED
    BY <1>1, <2>1, AppendEntries DEF Post
<1>2. CASE Dispatch
  <2>1. work # <<>>
    BY <1>2 DEF Dispatch, Takes
  <2>2. /\ Tail(work) \in Seq(WorkItem) /\ Head(work) \in WorkItem
        /\ Head(work) = work[1] /\ 1 \in DOMAIN work
    BY <2>1, TailType
  <2>3. [kind |-> "answer", r |-> Head(work).r] \in WorkItem
    BY <2>2 DEF WorkItem
  <2>4. \/ work' = Tail(work)
        \/ work' = Append(Tail(work), [kind |-> "answer", r |-> Head(work).r])
    BY <1>2 DEF Dispatch
  <2>5. \A k \in DOMAIN Tail(work) : \E j \in DOMAIN work : Tail(work)[k] = work[j]
    BY <2>1, TailEntries
  <2>6. CASE work' = Tail(work)
    BY <2>5, <2>6
  <2>7. CASE work' = Append(Tail(work), [kind |-> "answer", r |-> Head(work).r])
    <3>1. \/ work'[i] = [kind |-> "answer", r |-> Head(work).r]
          \/ \E k \in DOMAIN Tail(work) : work'[i] = Tail(work)[k]
      BY <2>2, <2>3, <2>7, AppendEntries
    <3> QED
      BY <1>2, <2>2, <2>5, <3>1
  <2> QED
    BY <2>4, <2>6, <2>7
<1>3. CASE Respond
  <2>1. work # <<>> /\ work' = Tail(work)
    BY <1>3 DEF Respond, Takes
  <2> QED
    BY <2>1, TailEntries
<1> QED
  BY <1>1, <1>2, <1>3, Changes

LEMMA Counts ==
  ASSUME TypeOK, [Next]_vars
  PROVE  serial \in Nat /\ serial' \in {serial, serial + 1} /\ GivenOut \subseteq GivenOut'
<1>1. serial \in Nat
  BY DEF TypeOK
<1>2. serial' \in {serial, serial + 1}
  <2>1. ASSUME NEW a \in Askers, File(a)
        PROVE  serial' \in {serial, serial + 1}
    BY <2>1, FileRequest DEF Serial
  <2> QED
    BY <2>1, Changes
<1> QED
  BY <1>1, <1>2 DEF GivenOut

LEMMA NumbersStep ==
  ASSUME TypeOK, Numbers, [Next]_vars
  PROVE  Numbers'
<1> /\ filed \in [Askers -> Request \cup {None}] /\ serial \in Nat
    /\ serial' \in {serial, serial + 1} /\ GivenOut \subseteq GivenOut'
  BY Counts DEF TypeOK
<1>1. serial' # 0
  BY DEF Numbers
<1>2. \A i \in DOMAIN work' : work'[i].r.action = "view" => work'[i].r.sn \in GivenOut'
  <2>1. ASSUME NEW i \in DOMAIN work'
        PROVE  \/ \E j \in DOMAIN work : work'[i].r = work[j].r
               \/ \E a \in Askers : filed[a] # None /\ work'[i].r = filed[a]
    BY WorkEntries
  <2> QED
    BY <2>1 DEF Numbers
<1>3. ASSUME NEW a \in Askers, File(a)
      PROVE  Numbers'
  <2>1. PICK r \in Request :
          /\ r.action = Head(todo[a]).action
          /\ Serial(Head(todo[a]), r.sn, serial')
          /\ table' = [s \in DOMAIN table \cup {r.sn} |-> IF s = r.sn THEN r ELSE table[s]]
          /\ filed' = [filed EXCEPT ![a] = r]
    BY <1>3, FileRequest
  <2>2. r.action = "view" => r.sn \in GivenOut'
    BY <2>1 DEF Serial, GivenOut, Numbers
  <2>3. \A s \in DOMAIN table' : table'[s].sn = s
    BY <2>1 DEF Numbers
  <2>4. \A b \in Askers : filed'[b] = r \/ filed'[b] = filed[b]
    BY <2>1
  <2>5. \A b \in Askers :
          filed'[b] # None /\ filed'[b].action = "view" => filed'[b].sn \in GivenOut'
    BY <2>2, <2>4 DEF Numbers
  <2> QED
    BY <1>1, <1>2, <2>3, <2>5 DEF Numbers
<1>4. ASSUME \A a \in Askers : ~File(a)
      PROVE  Numbers'
  <2>1. \A s \in DOMAIN table' : s \in DOMAIN table /\ table'[s] = table[s]
    BY <1>4, Changes DEF Respond
  <2>2. \A a \in Askers : filed'[a] \in {filed[a], None}
    BY <1>4, Changes DEF Post
  <2> QED
    BY <1>1, <1>2, <2>1, <2>2 DEF Numbers
<1> QED
  BY <1>3, <1>4

\* What is in order stays so while the counter goes on.
LEMMA StaysFirst ==
  ASSUME TypeOK, ReleasedFirst, [Next]_vars, engine' => engine,
         phase' \in {"released", "stopping", "exit"} => phase \in {"released", "stopping", "exit"}
  PROVE  ReleasedFirst'
<1> /\ GivenOut \subseteq GivenOut' /\ called \in Seq(Request)
    /\ table \in [DOMAIN table -> Request]
  BY Counts DEF TypeOK
<1>1. called' = called \/ \E r \in Request : called' = Append(called, r)
  BY Changes DEF Respond, Callback
<1>2. Range(called) \subseteq Range(called')
  <2>1. ASSUME NEW r \in Request
        PROVE  \A i \in DOMAIN called :
                 i \in DOMAIN Append(called, r) /\ Append(called, r)[i] = called[i]
    OBVIOUS
  <2> QED
    BY <1>1, <2>1 DEF Range
<1> QED
  BY <1>2 DEF ReleasedFirst

LEMMA ReleasedStep ==
  ASSUME IInv, Numbers, Released, [Next]_vars
  PROVE  Released'
<1> TypeOK /\ work \in Seq(WorkItem) /\ engine \in BOOLEAN
  BY DEF IInv, TypeOK, WorkItem
<1>1. engine' => engine
  BY Changes DEF Dispatch, Engine
<1>2. ASSUME NEW i \in DOMAIN work', work'[i].kind = "answer"
      PROVE  Answered(work'[i].r.action) /\ (work'[i].r.action = "release" => ~engine')
  <2>1. CASE \E j \in DOMAIN work : work'[i] = work[j]
    BY <1>1, <1>2, <2>1 DEF Released
  <2>2. CASE Dispatch /\ 1 \in DOMAIN work /\ work'[i] = [kind |-> "answer", r |-> work[1].r]
    <3>1. Head(work) = work[1] /\ work'[i].r = work[1].r
      BY <2>2
    <3>2. ASSUME work[1].r.action = "release"
          PROVE  ~engine'
      <4>1. Engine("release")
        BY <2>2, <3>1, <3>2 DEF Dispatch
      <4> QED
        BY <4>1 DEF Engine
    <3>3. CASE Answered(work[1].r.action)
      BY <3>1, <3>2, <3>3
    <3>4. CASE ~Answered(work[1].r.action)
      <4>1. work' = Tail(work) /\ work # <<>>
        BY <2>2, <3>1, <3>4 DEF Dispatch, Takes
      <4>2. \E j \in DOMAIN work : work'[i] = work[j]
        BY <4>1, TailEntries
      <4> QED
        BY <2>1, <4>2
    <3> QED
      BY <3>3, <3>4
  <2> QED
    BY <1>2, <2>1, <2>2, WorkEntries
<1>3. ReleasedFirst'
  <2>1. CASE Respond
    <3> DEFINE sn == Head(work).r.sn
    <3>1. Head(work) = work[1] /\ 1 \in DOMAIN work /\ Head(work).kind = "answer"
      BY <2>1, TailType DEF Respond, Takes
    <3>2. CASE phase' = phase
      BY <1>1, <3>2, StaysFirst DEF Released
    <3>3. CASE phase' # phase
      <4>1. sn \in DOMAIN table /\ Callback(table[sn]) /\ serial' = serial
        BY <2>1, <3>3 DEF Respond
      <4>2. table[sn].action = "release" /\ table[sn].sn = sn
            /\ called' = Append(called, table[sn])
        BY <3>3, <4>1 DEF Callback, Numbers
      <4>3. CASE work[1].r.action = "release"
        BY <1>1, <3>1, <4>3 DEF Released, ReleasedFirst
      <4>4. CASE work[1].r.action = "view"
        <5>1. sn \in GivenOut'
          BY <3>1, <4>1, <4>4 DEF Numbers, GivenOut
        <5>2. table[sn] \in Range(called')
          <6>1. called \in Seq(Request) /\ table[sn] \in Request
            BY <4>1 DEF TypeOK
          <6>2. /\ Len(called) + 1 \in DOMAIN called'
                /\ called'[Len(called) + 1] = table[sn]
            BY <4>2, <6>1
          <6> QED
            BY <6>2 DEF Range
        <5> QED
          BY <4>2, <5>1, <5>2 DEF ReleasedFirst
      <4> QED
        BY <3>1, <4>3, <4>4 DEF Released, Answered
    <3> QED
      BY <3>2, <3>3
  <2>2. CASE CleanupUiKit
    BY <2>2 DEF CleanupUiKit, ReleasedFirst
  <2>3. CASE CleanupSDKs
    BY <1>1, <2>3, StaysFirst DEF CleanupSDKs, Released
  <2>4. CASE NotifyEnds
    <3>1. threads.working # "running"
      BY <2>4 DEF NotifyEnds, IInv, TypeOK
    <3>2. phase \in {"stopping", "exit"}
      BY <3>1 DEF IInv, TypeOK, Exit, SdkLives
    <3> QED
      BY <1>1, <3>2, StaysFirst DEF Released
  <2>5. CASE phase' = phase
    BY <1>1, <2>5, StaysFirst DEF Released
  <2> QED
    BY <2>1, <2>2, <2>3, <2>4, <2>5, Changes
<1> QED
  BY <1>2, <1>3 DEF Released

\* The exit goes on only when the component has given up its engine: CleanupUiKit
\* is woken by the answer to its own request, or the number of that, which nobody
\* set, is one that the counter has given out (nim_ui_init_manager.cpp,
\* InitManager::CleanupUiKit; batp.h, BatpHead).
THEOREM WaitsForTheRelease == Spec => []ReleasedFirst
<1>1. Init => Numbers /\ Released
  BY DEF Init, Numbers, Released, ReleasedFirst, Askers
<1>2. IInv /\ Numbers /\ Released /\ [Next]_vars => Numbers' /\ Released'
  BY NumbersStep, ReleasedStep DEF IInv
<1>3. Released => ReleasedFirst
  BY DEF Released
<1> QED
  BY <1>1, <1>2, <1>3, Invariance, PTL DEF Spec

-----------------------------------------------------------------------------
(* The requests of a queue.  RequestIds is a recursive function: what it   *)
(* does to the ends of a queue is shown by induction on the length, in the *)
(* form of the least counterexample (a set of naturals has a least).       *)

LEMMA LeastNat ==
  ASSUME NEW T, T \subseteq Nat, T # {}
  PROVE  \E n \in T : \A m \in T : n <= m
<1> DEFINE R == OpToRel(<, Nat)
<1>0. \A x, y \in Nat : <<y, x>> \in R <=> y < x
  BY DEF OpToRel
<1>1. IsWellFoundedOn(R, Nat)
  BY NatLessThanWellFounded
<1> HIDE DEF R
<1>2. PICK x \in T : \A y \in T : ~ (<<y, x>> \in R)
  BY <1>1, WFMin
<1>3. \A y \in T : ~(y < x)
  BY <1>0, <1>2
<1> QED
  BY <1>2, <1>3

LEMMA SetInduction ==
  ASSUME NEW T, 0 \in T, \A n \in Nat : n \in T => n + 1 \in T
  PROVE  Nat \subseteq T
<1> SUFFICES ASSUME Nat \ T # {} PROVE FALSE
  OBVIOUS
<1>1. PICK n \in Nat \ T : \A m \in Nat \ T : n <= m
  BY LeastNat
<1>2. n # 0 /\ n - 1 \in Nat
  BY <1>1
<1>3. n - 1 \in T
  BY <1>1, <1>2
<1> QED
  BY <1>2, <1>3

\* f counts up the requests of q, as the function in RequestIds does.
CountsUp(q, f) ==
  f = [n \in 0..Len(q) |->
         IF n = 0 THEN <<>>
         ELSE IF q[n].kind = "request" THEN Append(f[n - 1], q[n].r.id)
         ELSE f[n - 1]]

LEMMA CountsUpMeans ==
  ASSUME NEW q \in Seq(WorkItem), NEW f, CountsUp(q, f)
  PROVE  /\ f[0] = <<>>
         /\ \A n \in Nat : n + 1 <= Len(q) =>
              f[n + 1] = IF q[n + 1].kind = "request" THEN Append(f[n], q[n + 1].r.id) ELSE f[n]
<1>1. Len(q) \in Nat
  OBVIOUS
<1>2. \A n \in 0..Len(q) :
        f[n] = IF n = 0 THEN <<>>
               ELSE IF q[n].kind = "request" THEN Append(f[n - 1], q[n].r.id)
               ELSE f[n - 1]
  BY DEF CountsUp
<1>3. f[0] = <<>>
  BY <1>1, <1>2
<1>4. ASSUME NEW n \in Nat, n + 1 <= Len(q)
      PROVE  f[n + 1] = IF q[n + 1].kind = "request" THEN Append(f[n], q[n + 1].r.id) ELSE f[n]
  <2>1. n + 1 \in 0..Len(q) /\ n + 1 # 0 /\ n + 1 - 1 = n
    BY <1>1, <1>4
  <2> QED
    BY <1>2, <2>1
<1> QED
  BY <1>3, <1>4

LEMMA CountExists ==
  ASSUME NEW q \in Seq(WorkItem)
  PROVE  \E f : CountsUp(q, f)
<1> DEFINE L(n, f) == f = [k \in 0..n |->
                             IF k = 0 THEN <<>>
                             ELSE IF q[k].kind = "request" THEN Append(f[k - 1], q[k].r.id)
                             ELSE f[k - 1]]
           T == {n \in Nat : \E f : L(n, f)}
<1>1. 0 \in T
  <2> DEFINE f == [k \in 0..0 |-> <<>>]
  <2>1. L(0, f)
    OBVIOUS
  <2> QED
    BY <2>1
<1>2. ASSUME NEW n \in Nat, n \in T
      PROVE  n + 1 \in T
  <2>1. PICK f : L(n, f)
    BY <1>2
  <2> DEFINE g == [k \in 0..n + 1 |->
                     IF k <= n THEN f[k]
                     ELSE IF q[k].kind = "request" THEN Append(f[n], q[k].r.id)
                     ELSE f[n]]
  <2>2. \A k \in 0..n + 1 :
          g[k] = IF k = 0 THEN <<>>
                 ELSE IF q[k].kind = "request" THEN Append(g[k - 1], q[k].r.id)
                 ELSE g[k - 1]
    <3>1. \A k \in 0..n : f[k] = IF k = 0 THEN <<>>
                                 ELSE IF q[k].kind = "request" THEN Append(f[k - 1], q[k].r.id)
                                 ELSE f[k - 1]
      BY <2>1
    <3>2. \A k \in 0..n : g[k] = f[k] /\ (k # 0 => k - 1 \in 0..n)
      OBVIOUS
    <3>3. g[n + 1] = IF q[n + 1].kind = "request" THEN Append(f[n], q[n + 1].r.id) ELSE f[n]
      OBVIOUS
    <3> HIDE DEF g
    <3>4. \A k \in 0..n + 1 : k \in 0..n \/ (k = n + 1 /\ k # 0 /\ k - 1 = n /\ n \in 0..n)
      OBVIOUS
    <3>5. \A k \in 0..n : k # 0 => g[k - 1] = f[k - 1]
      BY <3>2
    <3> QED
      BY <3>1, <3>2, <3>3, <3>4, <3>5
  <2>3. g = [k \in 0..n + 1 |-> g[k]]
    OBVIOUS
  <2> HIDE DEF g
  <2>4. L(n + 1, g)
    BY <2>2, <2>3
  <2> QED
    BY <2>4
<1> HIDE DEF T
<1>3. Nat \subseteq T
  BY <1>1, <1>2, SetInduction
<1>4. Len(q) \in T
  BY <1>3
<1> QED
  BY <1>4 DEF T, CountsUp

LEMMA CountChosen ==
  ASSUME NEW q \in Seq(WorkItem)
  PROVE  \E f : CountsUp(q, f) /\ RequestIds(q) = f[Len(q)]
<1> DEFINE f == CHOOSE g : CountsUp(q, g)
<1>1. CountsUp(q, f)
  BY CountExists
<1>2. RequestIds(q) = f[Len(q)]
  BY DEF RequestIds, CountsUp
<1> QED
  BY <1>1, <1>2

\* Whoever counts up, the numbers are those of requests.
LEMMA CountType ==
  ASSUME NEW q \in Seq(WorkItem), NEW f, CountsUp(q, f)
  PROVE  \A n \in 0..Len(q) : f[n] \in Seq(Nat)
<1> DEFINE T == {n \in Nat : n <= Len(q) => f[n] \in Seq(Nat)}
<1>1. 0 \in T
  BY CountsUpMeans, SeqTypes
<1>2. ASSUME NEW n \in Nat, n \in T
      PROVE  n + 1 \in T
  <2> SUFFICES ASSUME n + 1 <= Len(q) PROVE f[n + 1] \in Seq(Nat)
    OBVIOUS
  <2>1. f[n] \in Seq(Nat)
    BY <1>2
  <2>2. q[n + 1] \in WorkItem
    OBVIOUS
  <2>3. q[n + 1].r.id \in Nat
    BY <2>2 DEF WorkItem, Request
  <2>4. f[n + 1] = IF q[n + 1].kind = "request" THEN Append(f[n], q[n + 1].r.id) ELSE f[n]
    BY CountsUpMeans
  <2>5. Append(f[n], q[n + 1].r.id) \in Seq(Nat)
    BY <2>1, <2>3, AppendType
  <2> QED
    BY <2>1, <2>4, <2>5
<1> HIDE DEF T
<1>3. Nat \subseteq T
  BY <1>1, <1>2, SetInduction
<1> QED
  BY <1>3 DEF T

\* The requests of a longer queue, ...
LEMMA RequestsAppend ==
  ASSUME NEW q \in Seq(WorkItem), NEW x \in WorkItem
  PROVE  RequestIds(Append(q, x)) =
           IF x.kind = "request" THEN Append(RequestIds(q), x.r.id) ELSE RequestIds(q)
<1> DEFINE p == Append(q, x)
<1>1. p \in Seq(WorkItem) /\ Len(p) = Len(q) + 1 /\ p[Len(q) + 1] = x /\ Len(q) \in Nat
      /\ \A n \in 1..Len(q) : p[n] = q[n]
  OBVIOUS
<1>2. PICK f : CountsUp(q, f) /\ RequestIds(q) = f[Len(q)]
  BY CountChosen
<1>3. PICK g : CountsUp(p, g) /\ RequestIds(p) = g[Len(p)]
  BY <1>1, CountChosen
<1> HIDE DEF p
<1> DEFINE T == {n \in Nat : n <= Len(q) => g[n] = f[n]}
<1>4. 0 \in T
  BY <1>1, <1>2, <1>3, CountsUpMeans
<1>5. ASSUME NEW n \in Nat, n \in T
      PROVE  n + 1 \in T
  <2> SUFFICES ASSUME n + 1 <= Len(q) PROVE g[n + 1] = f[n + 1]
    OBVIOUS
  <2>1. g[n] = f[n] /\ p[n + 1] = q[n + 1] /\ n + 1 <= Len(p)
    BY <1>1, <1>5
  <2> QED
    BY <1>1, <1>2, <1>3, <2>1, CountsUpMeans
<1> HIDE DEF T
<1>6. Len(q) \in T
  BY <1>1, <1>4, <1>5, SetInduction
<1>7. g[Len(q)] = f[Len(q)]
  BY <1>6 DEF T
<1>8. g[Len(q) + 1] = IF x.kind = "request" THEN Append(g[Len(q)], x.r.id) ELSE g[Len(q)]
  BY <1>1, <1>3, CountsUpMeans
<1> QED
  BY <1>1, <1>2, <1>3, <1>7, <1>8 DEF p

\* ... and of a shorter one.
LEMMA RequestsTail ==
  ASSUME NEW q \in Seq(WorkItem), q # <<>>
  PROVE  IF q[1].kind = "request"
           THEN /\ RequestIds(q) # <<>> /\ Head(RequestIds(q)) = q[1].r.id
                /\ RequestIds(Tail(q)) = Tail(RequestIds(q))
           ELSE RequestIds(Tail(q)) = RequestIds(q)
<1> DEFINE p == Tail(q)
<1>1. p \in Seq(WorkItem) /\ Len(q) = Len(p) + 1 /\ Len(p) \in Nat
      /\ \A n \in 1..Len(p) : p[n] = q[n + 1]
  OBVIOUS
<1>2. PICK f : CountsUp(q, f) /\ RequestIds(q) = f[Len(q)]
  BY CountChosen
<1>3. PICK g : CountsUp(p, g) /\ RequestIds(p) = g[Len(p)]
  BY <1>1, CountChosen
<1> HIDE DEF p
<1>4. f[0] = <<>> /\ g[0] = <<>>
      /\ f[1] = IF q[1].kind = "request" THEN Append(f[0], q[1].r.id) ELSE f[0]
  <2>1. f[0 + 1] = IF q[0 + 1].kind = "request" THEN Append(f[0], q[0 + 1].r.id) ELSE f[0]
    BY <1>1, <1>2, CountsUpMeans
  <2> QED
    BY <1>1, <1>2, <1>3, <2>1, CountsUpMeans
<1>5. ASSUME NEW n \in Nat, n + 1 <= Len(p)
      PROVE  /\ f[n + 2] = IF p[n + 1].kind = "request"
                             THEN Append(f[n + 1], p[n + 1].r.id) ELSE f[n + 1]
             /\ g[n + 1] = IF p[n + 1].kind = "request" THEN Append(g[n], p[n + 1].r.id) ELSE g[n]
  <2>1. n + 1 \in Nat /\ (n + 1) + 1 = n + 2 /\ n + 2 <= Len(q) /\ p[n + 1] = q[n + 2]
    BY <1>1, <1>5
  <2>2. f[(n + 1) + 1] = IF q[(n + 1) + 1].kind = "request"
                           THEN Append(f[n + 1], q[(n + 1) + 1].r.id) ELSE f[n + 1]
    BY <1>2, <2>1, CountsUpMeans
  <2> QED
    BY <1>1, <1>3, <1>5, <2>1, <2>2, CountsUpMeans
<1>6. CASE q[1].kind # "request"
  <2> DEFINE T == {n \in Nat : n <= Len(p) => f[n + 1] = g[n]}
  <2>1. 0 \in T
    BY <1>4, <1>6
  <2>2. ASSUME NEW n \in Nat, n \in T
        PROVE  n + 1 \in T
    <3> SUFFICES ASSUME n + 1 <= Len(p) PROVE f[n + 2] = g[n + 1]
      OBVIOUS
    <3> QED
      BY <1>1, <1>5, <2>2
  <2> HIDE DEF T
  <2>3. Len(p) \in T
    BY <1>1, <2>1, <2>2, SetInduction
  <2> QED
    BY <1>1, <1>2, <1>3, <1>6, <2>3 DEF T, p
<1>7. CASE q[1].kind = "request"
  <2> DEFINE id == q[1].r.id
             T == {n \in Nat : n <= Len(p) =>
                     f[n + 1] # <<>> /\ Head(f[n + 1]) = id /\ Tail(f[n + 1]) = g[n]}
  <2>0. id \in Nat
    <3>1. q[1] \in WorkItem
      BY <1>1
    <3> QED
      BY <3>1 DEF WorkItem, Request
  <2>1. 0 \in T
    <3>1. f[1] = Append(<<>>, id)
      BY <1>4, <1>7
    <3>2. Append(<<>>, id) # <<>> /\ Head(Append(<<>>, id)) = id /\ Tail(Append(<<>>, id)) = <<>>
      <4>1. ASSUME NEW y \in Nat PROVE Append(<<>>, y) = <<y>>
        OBVIOUS
      <4>2. ASSUME NEW y \in Nat PROVE <<y>> # <<>>
        OBVIOUS
      <4>3. ASSUME NEW y \in Nat PROVE Head(<<y>>) = y
        OBVIOUS
      <4>4. ASSUME NEW y \in Nat PROVE Tail(<<y>>) = <<>>
        OBVIOUS
      <4> HIDE DEF id
      <4> QED
        BY <2>0, <4>1, <4>2, <4>3, <4>4
    <3> HIDE DEF id
    <3>3. f[1] # <<>> /\ Head(f[1]) = id /\ Tail(f[1]) = g[0]
      BY <1>4, <3>1, <3>2, Zenon
    <3>4. 0 + 1 = 1
      OBVIOUS
    <3> QED
      BY <3>3, <3>4
  <2>2. ASSUME NEW n \in Nat, n \in T
        PROVE  n + 1 \in T
    <3> SUFFICES ASSUME n + 1 <= Len(p)
                 PROVE  f[n + 2] # <<>> /\ Head(f[n + 2]) = id /\ Tail(f[n + 2]) = g[n + 1]
      OBVIOUS
    <3>1. f[n + 1] \in Seq(Nat) /\ g[n] \in Seq(Nat)
      BY <1>1, <1>2, <1>3, CountType
    <3>2. f[n + 1] # <<>> /\ Head(f[n + 1]) = id /\ Tail(f[n + 1]) = g[n]
      BY <1>1, <2>2
    <3>3. p[n + 1].r.id \in Nat
      <4>1. p[n + 1] \in WorkItem
        BY <1>1
      <4> QED
        BY <4>1 DEF WorkItem, Request
    <3>4. \A s \in Seq(Nat), y \in Nat : s # <<>> =>
            Append(s, y) # <<>> /\ Head(Append(s, y)) = Head(s)
            /\ Tail(Append(s, y)) = Append(Tail(s), y)
      OBVIOUS
    <3> QED
      BY <1>5, <3>1, <3>2, <3>3, <3>4
  <2> HIDE DEF T
  <2>3. Len(p) \in T
    BY <1>1, <2>1, <2>2, SetInduction
  <2>4. f[Len(p) + 1] # <<>> /\ Head(f[Len(p) + 1]) = id /\ Tail(f[Len(p) + 1]) = g[Len(p)]
    BY <1>1, <2>3 DEF T
  <2>5. /\ RequestIds(q) # <<>> /\ Head(RequestIds(q)) = id
        /\ RequestIds(p) = Tail(RequestIds(q))
    BY <1>1, <1>2, <1>3, <2>4
  <2> QED
    BY <1>7, <2>5 DEF p
<1> QED
  BY <1>6, <1>7

-----------------------------------------------------------------------------
(* The identities of the requests, which are not the serial numbers: each  *)
(* is in one place, and one whose callback was called is not on file.      *)

Apart(q) == \A i, j \in DOMAIN q : q[i].r.id = q[j].r.id => i = j

Named ==
  /\ \A a \in Askers : filed[a].id \in 0..asked
  /\ \A a \in Askers : filed[a] # None => filed[a].id # 0
  /\ \A a, b \in Askers : filed[a] # None /\ filed[a].id = filed[b].id => a = b
  /\ \A i \in DOMAIN work : work[i].r.id \in Sent
  /\ Apart(work)

Once ==
  /\ \A s \in DOMAIN table : table[s].id \in 1..asked
  /\ \A s, t \in DOMAIN table : table[s].id = table[t].id => s = t
  /\ \A i \in DOMAIN called : called[i].id \in 1..asked
  /\ \A i \in DOMAIN called : \A s \in DOMAIN table : called[i].id # table[s].id

LEMMA ApartTail ==
  ASSUME NEW q \in Seq(WorkItem), q # <<>>, Apart(q)
  PROVE  Apart(Tail(q)) /\ \A i \in DOMAIN Tail(q) : Tail(q)[i].r.id # q[1].r.id
<1>1. \A i \in DOMAIN Tail(q) : i \in Nat /\ i # 0 /\ i + 1 \in DOMAIN q /\ Tail(q)[i] = q[i + 1]
  BY Shorter
<1>2. 1 \in DOMAIN q
  BY TailType
<1>3. \A i, j \in DOMAIN Tail(q) : Tail(q)[i].r.id = Tail(q)[j].r.id => i + 1 = j + 1
  BY <1>1 DEF Apart
<1>4. Apart(Tail(q))
  BY <1>1, <1>3 DEF Apart
<1>5. \A i \in DOMAIN Tail(q) : q[i + 1].r.id = q[1].r.id => i + 1 = 1
  BY <1>1, <1>2 DEF Apart
<1> QED
  BY <1>1, <1>4, <1>5

LEMMA ApartAppend ==
  ASSUME NEW q \in Seq(WorkItem), NEW x \in WorkItem, Apart(q),
         \A i \in DOMAIN q : q[i].r.id # x.r.id
  PROVE  Apart(Append(q, x))
<1>1. \A i \in DOMAIN Append(q, x) :
        \/ i \in DOMAIN q /\ Append(q, x)[i] = q[i]
        \/ i = Len(q) + 1 /\ Append(q, x)[i] = x
  OBVIOUS
<1> QED
  BY <1>1 DEF Apart

\* Filing a request sends none; ...
LEMMA FileSends ==
  ASSUME TypeOK, Named, NEW a \in Askers, File(a)
  PROVE  Sent' = Sent
<1>1. PICK r \in Request : r.id = asked + 1 /\ filed' = [filed EXCEPT ![a] = r]
  BY FileRequest
<1>2. asked' = asked + 1 /\ filed[a] = None /\ asked \in Nat
  BY DEF File, TypeOK
<1>3. filed \in [Askers -> Request \cup {None}]
  BY DEF TypeOK
<1>4. filed'[a].id = asked + 1 /\ \A b \in Askers : b # a => filed'[b] = filed[b]
  BY <1>1, <1>3
<1>5. \A b \in Askers : filed[b].id <= asked /\ filed[a].id = 0
  BY <1>2, NoneId DEF Named
<1>6. \A n \in 1..asked : \A b \in Askers : filed'[b].id = n <=> filed[b].id = n
  BY <1>2, <1>4, <1>5
<1>7. \A n : n \in Sent' <=> n \in 1..(asked + 1) /\ \A b \in Askers : filed'[b].id # n
  BY <1>2, Two DEF Sent
<1>8. \A n : n \in Sent <=> n \in 1..asked /\ \A b \in Askers : filed[b].id # n
  BY Two DEF Sent
<1>9. \A n : n \in Sent' <=> n \in Sent
  <2>1. \A n \in 1..(asked + 1) : n \in 1..asked \/ n = asked + 1
    BY <1>2
  <2>2. \A n \in 1..asked : n \in 1..(asked + 1)
    BY <1>2
  <2> QED
    BY <1>4, <1>6, <1>7, <1>8, <2>1, <2>2
<1> QED
  BY <1>9

\* ... posting it sends it.
LEMMA PostSends ==
  ASSUME TypeOK, Named, NEW a \in Askers, Post(a)
  PROVE  /\ filed[a].id \notin Sent /\ Sent' = Sent \cup {filed[a].id}
         /\ filed[a] \in Request
<1>1. filed[a] # None /\ filed' = [filed EXCEPT ![a] = None] /\ asked' = asked
  BY DEF Post, reqvars
<1>2. filed \in [Askers -> Request \cup {None}] /\ asked \in Nat
  BY DEF TypeOK
<1>3. filed'[a].id = 0 /\ \A b \in Askers : b # a => filed'[b] = filed[b]
  BY <1>1, <1>2, NoneId
<1>4. filed[a].id \in 1..asked
  BY <1>1, <1>2 DEF Named
<1>5. \A b \in Askers : b # a => filed[b].id # filed[a].id
  BY <1>1 DEF Named
<1>6. \A n : n \in Sent' <=> n \in 1..asked /\ \A b \in Askers : filed'[b].id # n
  BY <1>1, Two DEF Sent
<1>7. \A n : n \in Sent <=> n \in 1..asked /\ \A b \in Askers : filed[b].id # n
  BY Two DEF Sent
<1>8. \A n \in 1..asked : n # 0
  BY <1>2
<1>9. \A n : n \in Sent' <=> n \in Sent \/ n = filed[a].id
  BY <1>3, <1>4, <1>5, <1>6, <1>7, <1>8
<1> QED
  BY <1>1, <1>2, <1>7, <1>9

LEMMA SentStep ==
  ASSUME TypeOK, Named, [Next]_vars
  PROVE  Sent' = Sent \/ \E a \in Askers : Post(a)
<1>1. CASE \E a \in Askers : File(a)
  BY <1>1, FileSends
<1>2. CASE asked' = asked /\ filed' = filed
  BY <1>2 DEF Sent
<1> QED
  BY <1>1, <1>2, Changes

LEMMA NamedStep ==
  ASSUME TypeOK, Exit, Undone, Named, [Next]_vars
  PROVE  Named'
<1> /\ filed \in [Askers -> Request \cup {None}] /\ asked \in Nat
    /\ work \in Seq(WorkItem)
  BY DEF TypeOK, WorkItem
<1>1. CASE \E a \in Askers : File(a)
  <2>1. PICK a \in Askers : File(a)
    BY <1>1
  <2>2. PICK r \in Request : r.id = asked + 1 /\ filed' = [filed EXCEPT ![a] = r]
    BY <2>1, FileRequest
  <2>3. asked' = asked + 1 /\ work' = work /\ Sent' = Sent
    BY <2>1, FileSends DEF File
  <2>4. filed'[a].id = asked + 1 /\ \A b \in Askers : b # a => filed'[b] = filed[b]
    BY <2>2
  <2>5. \A b \in Askers : filed[b].id \in 0..asked /\ filed[b].id # asked + 1
    BY DEF Named
  <2>6. \A n \in 0..asked : n \in 0..(asked + 1)
    OBVIOUS
  <2>7. asked + 1 \in 0..(asked + 1) /\ asked + 1 # 0
    OBVIOUS
  <2>8. /\ \A b \in Askers : filed'[b].id \in 0..asked'
        /\ \A b \in Askers : filed'[b] # None => filed'[b].id # 0
    BY <2>3, <2>4, <2>5, <2>6, <2>7 DEF Named
  <2>9. \A b, c \in Askers : filed'[b] # None /\ filed'[b].id = filed'[c].id => b = c
    BY <2>4, <2>5 DEF Named
  <2>10. (\A i \in DOMAIN work' : work'[i].r.id \in Sent') /\ Apart(work')
    BY <2>3 DEF Named
  <2> QED
    BY <2>8, <2>9, <2>10 DEF Named
<1>2. CASE \E a \in Askers : Post(a)
  <2>1. PICK a \in Askers : Post(a)
    BY <1>2
  <2>2. /\ asked' = asked /\ filed' = [filed EXCEPT ![a] = None]
        /\ filed[a] # None /\ threads.working # "gone"
    BY <2>1, Posters DEF Post, reqvars
  <2> DEFINE x == [kind |-> "request", r |-> filed[a]]
  <2>3. work' = Append(work, x)
    BY <2>1, <2>2 DEF Post
  <2>4. /\ filed[a].id \notin Sent /\ Sent' = Sent \cup {filed[a].id} /\ filed[a] \in Request
    BY <2>1, PostSends
  <2>5. x \in WorkItem /\ x.r.id = filed[a].id
    BY <2>4 DEF WorkItem
  <2> HIDE DEF x
  <2>6. filed'[a] = None /\ \A b \in Askers : b # a => filed'[b] = filed[b]
    BY <2>2
  <2>7. 0 \in 0..asked
    OBVIOUS
  <2>8. /\ \A b \in Askers : filed'[b].id \in 0..asked'
        /\ \A b \in Askers : filed'[b] # None => filed'[b].id # 0
    BY <2>2, <2>6, <2>7, NoneId DEF Named
  <2>9. \A b, c \in Askers : filed'[b] # None /\ filed'[b].id = filed'[c].id => b = c
    BY <2>6, NoneId DEF Named
  <2>10. Apart(work')
    BY <2>3, <2>4, <2>5, ApartAppend DEF Named
  <2>11. \A i \in DOMAIN work' : work'[i] = x \/ \E j \in DOMAIN work : work'[i] = work[j]
    BY <2>3, <2>5, AppendEntries
  <2>12. \A i \in DOMAIN work' : work'[i].r.id \in Sent'
    BY <2>4, <2>5, <2>11 DEF Named
  <2> QED
    BY <2>8, <2>9, <2>10, <2>12 DEF Named
<1>3. CASE Dispatch \/ Respond
  <2>1. filed' = filed /\ asked' = asked /\ work # <<>>
    BY <1>3 DEF Dispatch, Respond, Takes, reqvars
  <2>2. Sent' = Sent
    BY <2>1 DEF Sent
  <2>3. /\ Tail(work) \in Seq(WorkItem) /\ Head(work) \in WorkItem
        /\ Head(work) = work[1] /\ 1 \in DOMAIN work
    BY <2>1, TailType
  <2> DEFINE x == [kind |-> "answer", r |-> Head(work).r]
  <2>4. x \in WorkItem /\ x.r = work[1].r
    BY <2>3 DEF WorkItem
  <2>5. work' = Tail(work) \/ work' = Append(Tail(work), x)
    BY <1>3 DEF Dispatch, Respond
  <2> HIDE DEF x
  <2>6. Apart(Tail(work)) /\ \A i \in DOMAIN Tail(work) : Tail(work)[i].r.id # work[1].r.id
    BY <2>1, ApartTail DEF Named
  <2>7. Apart(work')
    BY <2>3, <2>4, <2>5, <2>6, ApartAppend
  <2>8. \A i \in DOMAIN Tail(work) : \E j \in DOMAIN work : Tail(work)[i] = work[j]
    BY <2>1, TailEntries
  <2>9. \A i \in DOMAIN work' : work'[i] = x \/ \E j \in DOMAIN work : work'[i] = work[j]
    <3>1. CASE work' = Tail(work)
      BY <2>8, <3>1
    <3>2. CASE work' = Append(Tail(work), x)
      BY <2>3, <2>4, <2>8, <3>2, AppendEntries
    <3> QED
      BY <2>5, <3>1, <3>2
  <2>10. \A i \in DOMAIN work' : work'[i].r.id \in Sent'
    BY <2>2, <2>3, <2>4, <2>9 DEF Named
  <2> QED
    BY <2>1, <2>7, <2>10 DEF Named
<1>4. CASE filed' = filed /\ asked' = asked /\ work' = work
  <2>1. Sent' = Sent
    BY <1>4 DEF Sent
  <2> QED
    BY <1>4, <2>1 DEF Named
<1> QED
  BY <1>1, <1>2, <1>3, <1>4, Changes

\* What a call of a callback changes: its entry is gone, whosever answer it is.
LEMMA RespondCalls ==
  ASSUME TypeOK, Respond
  PROVE  \/ called' = called /\ \A s \in DOMAIN table' : s \in DOMAIN table /\ table'[s] = table[s]
         \/ \E s \in DOMAIN table :
              /\ called' = Append(called, table[s])
              /\ table' = [t \in DOMAIN table \ {s} |-> table[t]]
BY DEF Respond, Callback

LEMMA OnceStep ==
  ASSUME TypeOK, Once, [Next]_vars
  PROVE  Once'
<1> /\ asked \in Nat /\ called \in Seq(Request) /\ table \in [DOMAIN table -> Request]
  BY DEF TypeOK
<1>1. ASSUME NEW a \in Askers, File(a)
      PROVE  Once'
  <2>1. PICK r \in Request :
          /\ r.id = asked + 1
          /\ table' = [s \in DOMAIN table \cup {r.sn} |-> IF s = r.sn THEN r ELSE table[s]]
    BY <1>1, FileRequest
  <2>2. asked' = asked + 1 /\ called' = called
    BY <1>1 DEF File
  <2>3. \A s \in DOMAIN table' : \/ s = r.sn /\ table'[s] = r
                                 \/ s \in DOMAIN table /\ s # r.sn /\ table'[s] = table[s]
    BY <2>1
  <2>4. \A n \in 1..asked : n \in 1..asked' /\ n # r.id
    BY <2>1, <2>2
  <2>5. r.id \in 1..asked'
    BY <2>1, <2>2
  <2>6. \A s \in DOMAIN table' : table'[s].id \in 1..asked'
    BY <2>3, <2>4, <2>5 DEF Once
  <2>7. \A s, t \in DOMAIN table' : table'[s].id = table'[t].id => s = t
    BY <2>3, <2>4 DEF Once
  <2>8. ASSUME NEW i \in DOMAIN called'
        PROVE  /\ called'[i].id \in 1..asked'
               /\ \A s \in DOMAIN table' : called'[i].id # table'[s].id
    <3>1. called'[i].id = called[i].id /\ called[i].id \in 1..asked
      BY <2>2, <2>8 DEF Once
    <3>2. \A s \in DOMAIN table : called[i].id # table[s].id
      BY <2>2, <2>8 DEF Once
    <3> QED
      BY <2>3, <2>4, <3>1, <3>2
  <2> QED
    BY <2>6, <2>7, <2>8 DEF Once
<1>2. CASE Respond
  <2>0. asked' = asked
    BY <1>2 DEF Respond
  <2>1. CASE called' = called /\ \A s \in DOMAIN table' : s \in DOMAIN table /\ table'[s] = table[s]
    BY <2>0, <2>1 DEF Once
  <2>2. ASSUME NEW s \in DOMAIN table, called' = Append(called, table[s]),
               table' = [t \in DOMAIN table \ {s} |-> table[t]]
        PROVE  Once'
    <3>1. \A i \in DOMAIN called' :
            called'[i] = table[s] \/ \E j \in DOMAIN called : called'[i] = called[j]
      BY <2>2, AppendEntries
    <3>2. \A t \in DOMAIN table' : t \in DOMAIN table /\ t # s /\ table'[t] = table[t]
      BY <2>2
    <3> QED
      BY <2>0, <3>1, <3>2 DEF Once
  <2> QED
    BY <1>2, <2>1, <2>2, RespondCalls
<1>3. CASE table' = table /\ asked' = asked /\ called' = called
  BY <1>3 DEF Once
<1> QED
  BY <1>1, <1>2, <1>3, Changes

-----------------------------------------------------------------------------
(* The refinement.                                                         *)

\* An entry of the queue is the answer to a request.
Owes(u, n) == u.kind = "answer" /\ u.r.id = n

LEMMA DueMeans == \A n : n \in Due <=> \E i \in DOMAIN work : Owes(work[i], n)
BY DEF Due, Range, Owes

LEMMA DueMeansNext == \A n : n \in Due' <=> \E i \in DOMAIN work' : Owes(work'[i], n)
BY DEF Due, Range, Owes

LEMMA OwesTail ==
  ASSUME NEW q \in Seq(WorkItem), q # <<>>, NEW n
  PROVE  (\E i \in DOMAIN q : Owes(q[i], n))
           <=> Owes(q[1], n) \/ \E i \in DOMAIN Tail(q) : Owes(Tail(q)[i], n)
<1>1. 1 \in DOMAIN q
  BY TailType
<1>2. ASSUME NEW j \in DOMAIN q, j # 1
      PROVE  j - 1 \in DOMAIN Tail(q) /\ Tail(q)[j - 1] = q[j]
  BY <1>2
<1>3. ASSUME NEW i \in DOMAIN Tail(q)
      PROVE  i + 1 \in DOMAIN q /\ Tail(q)[i] = q[i + 1]
  BY Shorter
<1>4. ASSUME NEW j \in DOMAIN q, Owes(q[j], n)
      PROVE  Owes(q[1], n) \/ \E i \in DOMAIN Tail(q) : Owes(Tail(q)[i], n)
  BY <1>2, <1>4, Zenon
<1>5. ASSUME NEW i \in DOMAIN Tail(q), Owes(Tail(q)[i], n)
      PROVE  \E j \in DOMAIN q : Owes(q[j], n)
  BY <1>3, <1>5, Zenon
<1> QED
  BY <1>1, <1>4, <1>5, Zenon

LEMMA RefinementInit == Init => Promise!Init
<1> SUFFICES ASSUME Init PROVE Promise!Init
  OBVIOUS
<1>1. work = <<>> /\ work \in Seq(WorkItem) /\ DOMAIN work = {}
  BY DEF Init
<1>2. Sent = {}
  BY DEF Init, Sent
<1>3. RequestIds(work) = <<>>
  <2>1. PICK f : CountsUp(work, f) /\ RequestIds(work) = f[Len(work)]
    BY <1>1, CountChosen
  <2> QED
    BY <1>1, <2>1, CountsUpMeans
<1>4. Due = {}
  BY <1>1, DueMeans
<1>5. CalledIds = <<>> /\ 1..asked = {}
  BY DEF Init, CalledIds
<1> QED
  BY <1>2, <1>3, <1>4, <1>5 DEF Promise!Init

\* Filing is making a request, ...
LEMMA FileIsMake ==
  ASSUME TypeOK, Named, NEW a \in Askers, File(a)
  PROVE  Promise!Next
<1>1. /\ asked \in Nat /\ asked' = asked + 1 /\ work' = work /\ called' = called
      /\ Sent' = Sent
  BY FileSends DEF File, TypeOK
<1>2. Due' = Due /\ RequestIds(work') = RequestIds(work) /\ CalledIds' = CalledIds
  BY <1>1 DEF Due, CalledIds
<1>3. asked + 1 \notin 1..asked /\ 1..asked' = 1..asked \cup {asked + 1}
  BY <1>1
<1>4. Promise!Make(asked + 1)
  BY <1>1, <1>2, <1>3 DEF Promise!Make
<1> QED
  BY <1>3, <1>4 DEF Promise!Next

\* ... posting it is sending, ...
LEMMA PostIsSend ==
  ASSUME IInv, Named, NEW a \in Askers, Post(a)
  PROVE  Promise!Next
<1>1. TypeOK /\ threads.working # "gone"
  BY Posters DEF IInv
<1> DEFINE x == [kind |-> "request", r |-> filed[a]]
           n == filed[a].id
<1>2. work \in Seq(WorkItem) /\ work' = Append(work, x) /\ called' = called
  BY <1>1 DEF Post, TypeOK, WorkItem
<1>3. n \notin Sent /\ Sent' = Sent \cup {n} /\ filed[a] \in Request
  BY <1>1, PostSends
<1>4. x \in WorkItem /\ x.kind = "request" /\ x.r.id = n
  BY <1>3 DEF WorkItem
<1>5. RequestIds(work') = Append(RequestIds(work), n)
  BY <1>2, <1>4, RequestsAppend
<1>6. Due' = Due
  <2>1. \A i \in DOMAIN work' : work'[i] = x \/ \E j \in DOMAIN work : work'[i] = work[j]
    BY <1>2, <1>4, AppendEntries
  <2>2. \A j \in DOMAIN work : j \in DOMAIN work' /\ work'[j] = work[j]
    BY <1>2, <1>4
  <2>3. \A m : ~Owes(x, m)
    BY <1>4 DEF Owes
  <2> HIDE DEF x
  <2>4. \A m : m \in Due' <=> m \in Due
    BY <2>1, <2>2, <2>3, DueMeans, DueMeansNext, Zenon
  <2> QED
    BY <2>4
<1>7. CalledIds' = CalledIds /\ asked' = asked
  BY <1>2 DEF CalledIds, Post, reqvars
<1>8. n \in 1..asked
  <2>1. filed[a] # None /\ asked \in Nat
    BY <1>1 DEF Post, TypeOK
  <2> QED
    BY <2>1 DEF Named
<1>9. Promise!Send(n)
  BY <1>3, <1>5, <1>6, <1>7, <1>8 DEF Promise!Send
<1> QED
  BY <1>8, <1>9 DEF Promise!Next

\* ... dispatching is handling, ...
LEMMA DispatchIsHandle ==
  ASSUME TypeOK, Named, Dispatch
  PROVE  Promise!Next
<1>1. work # <<>> /\ Head(work).kind = "request" /\ work \in Seq(WorkItem) /\ called' = called
  BY DEF Dispatch, Takes, TypeOK, WorkItem
<1>2. /\ Tail(work) \in Seq(WorkItem) /\ Head(work) \in WorkItem
      /\ Head(work) = work[1] /\ 1 \in DOMAIN work
  BY <1>1, TailType
<1> DEFINE x == [kind |-> "answer", r |-> Head(work).r]
           n == work[1].r.id
<1>3. x \in WorkItem /\ x.kind = "answer" /\ x.r = work[1].r
  BY <1>2 DEF WorkItem
<1>4. work' = Tail(work) \/ work' = Append(Tail(work), x)
  BY DEF Dispatch
<1> HIDE DEF x
<1>5. /\ RequestIds(work) # <<>> /\ Head(RequestIds(work)) = n
      /\ RequestIds(Tail(work)) = Tail(RequestIds(work))
  BY <1>1, <1>2, RequestsTail
<1>6. RequestIds(work') = Tail(RequestIds(work))
  BY <1>2, <1>3, <1>4, <1>5, RequestsAppend
<1>7. Sent' = Sent
  BY DEF Dispatch, reqvars, Sent
<1>8. \A m : (\E i \in DOMAIN Tail(work) : Owes(Tail(work)[i], m)) <=> m \in Due
  <2>1. \A m : ~Owes(work[1], m)
    BY <1>1, <1>2 DEF Owes
  <2> QED
    BY <1>1, <2>1, DueMeans, OwesTail, Zenon
<1>9. Due' = Due \/ Due' = Due \cup {n}
  <2>1. CASE work' = Tail(work)
    BY <1>8, <2>1, DueMeansNext, Zenon
  <2>2. CASE work' = Append(Tail(work), x)
    <3>1. \A i \in DOMAIN work' : \/ work'[i] = x
                                  \/ i \in DOMAIN Tail(work) /\ work'[i] = Tail(work)[i]
      BY <1>2, <1>3, <2>2
    <3>2. \A i \in DOMAIN Tail(work) : i \in DOMAIN work' /\ work'[i] = Tail(work)[i]
      BY <1>2, <1>3, <2>2
    <3>3. Len(Tail(work)) + 1 \in DOMAIN work' /\ work'[Len(Tail(work)) + 1] = x
      BY <1>2, <1>3, <2>2
    <3>4. \A m : (\E i \in DOMAIN work' : Owes(work'[i], m))
                  <=> Owes(x, m) \/ \E i \in DOMAIN Tail(work) : Owes(Tail(work)[i], m)
      BY <3>1, <3>2, <3>3, Zenon
    <3>5. \A m : Owes(x, m) <=> m = n
      BY <1>3 DEF Owes
    <3>6. \A m : m \in Due' <=> m \in Due \/ m = n
      BY <1>8, <3>4, <3>5, DueMeansNext, Zenon
    <3> QED
      BY <3>6
  <2> QED
    BY <1>4, <2>1, <2>2
<1>10. CalledIds' = CalledIds /\ asked' = asked
  BY <1>1 DEF CalledIds, Dispatch, reqvars
<1>11. Promise!Handle
  BY <1>5, <1>6, <1>7, <1>9, <1>10 DEF Promise!Handle
<1> QED
  BY <1>11 DEF Promise!Next

\* ... and an answer is an answer, which calls what was never called, or nothing.
LEMMA RespondIsAnswer ==
  ASSUME TypeOK, Named, Once, Respond
  PROVE  Promise!Next
<1>1. work # <<>> /\ Head(work).kind = "answer" /\ work \in Seq(WorkItem) /\ work' = Tail(work)
  BY DEF Respond, Takes, TypeOK, WorkItem
<1>2. Head(work) = work[1] /\ 1 \in DOMAIN work
  BY <1>1, TailType
<1> DEFINE n == work[1].r.id
<1>3. Sent' = Sent /\ asked' = asked
  BY DEF Respond, Sent
<1>4. RequestIds(work') = RequestIds(work)
  BY <1>1, <1>2, RequestsTail
<1>5. n \in Due /\ Due' = Due \ {n}
  <2>1. \A m : Owes(work[1], m) <=> m = n
    BY <1>1, <1>2 DEF Owes
  <2>2. \A i \in DOMAIN Tail(work) : ~Owes(Tail(work)[i], n)
    BY <1>1, ApartTail DEF Named, Owes
  <2> HIDE DEF n
  <2>3. \A m : m \in Due <=> m = n \/ \E i \in DOMAIN Tail(work) : Owes(Tail(work)[i], m)
    BY <1>1, <2>1, DueMeans, OwesTail, Zenon
  <2>4. \A m : m \in Due' <=> \E i \in DOMAIN Tail(work) : Owes(Tail(work)[i], m)
    BY <1>1, DueMeansNext
  <2>5. \A m : m \in Due' <=> m \in Due /\ m # n
    BY <2>2, <2>3, <2>4, Zenon
  <2> QED
    BY <2>3, <2>5
<1>6. \/ CalledIds' = CalledIds
      \/ \E c \in 1..asked \ Promise!Range(CalledIds) : CalledIds' = Append(CalledIds, c)
  <2>1. CASE called' = called
    BY <2>1 DEF CalledIds
  <2>2. ASSUME NEW s \in DOMAIN table, called' = Append(called, table[s])
        PROVE  /\ table[s].id \in 1..asked \ Promise!Range(CalledIds)
               /\ CalledIds' = Append(CalledIds, table[s].id)
    <3>1. /\ called \in Seq(Request) /\ table[s] \in Request
          /\ \A i \in DOMAIN called : called[i] \in Request
      BY DEF TypeOK
    <3>2. \A i \in DOMAIN called : CalledIds[i] = called[i].id /\ called[i].id # table[s].id
      BY DEF CalledIds, Once
    <3>3. DOMAIN CalledIds = DOMAIN called
      BY DEF CalledIds
    <3>4. table[s].id \notin Promise!Range(CalledIds)
      BY <3>2, <3>3 DEF Promise!Range
    <3>5. CalledIds' = Append(CalledIds, table[s].id)
      <4>1. CalledIds \in Seq(Nat) /\ Len(CalledIds) = Len(called)
        <5>1. DOMAIN called = 1..Len(called) /\ Len(called) \in Nat
          BY <3>1
        <5>2. \A i \in 1..Len(called) : called[i].id \in Nat
          BY <3>1, <5>1 DEF Request
        <5>3. CalledIds = [i \in 1..Len(called) |-> called[i].id]
          BY <5>1 DEF CalledIds
        <5> QED
          BY <5>1, <5>2, <5>3
      <4>2. /\ DOMAIN called' = 1..Len(called) + 1
            /\ \A i \in 1..Len(called) + 1 :
                 called'[i] = IF i = Len(called) + 1 THEN table[s] ELSE called[i]
        BY <2>2, <3>1
      <4>3. CalledIds' = [i \in 1..Len(called) + 1 |-> called'[i].id]
        BY <4>2 DEF CalledIds
      <4>4. \A i \in 1..Len(called) + 1 :
              called'[i].id = IF i = Len(called) + 1 THEN table[s].id ELSE CalledIds[i]
        <5>1. \A i \in 1..Len(called) + 1 : i # Len(called) + 1 => i \in DOMAIN called
          BY <3>1
        <5> QED
          BY <3>2, <4>2, <5>1
      <4>5. CalledIds' = [i \in 1..Len(called) + 1 |->
                            IF i = Len(called) + 1 THEN table[s].id ELSE CalledIds[i]]
        BY <4>3, <4>4
      <4>6. table[s].id \in Nat
        BY <3>1 DEF Request
      <4> QED
        BY <4>1, <4>5, <4>6
    <3> QED
      BY <3>4, <3>5 DEF Once
  <2> QED
    BY <2>1, <2>2, RespondCalls
<1>7. Promise!Answer(n)
  BY <1>3, <1>4, <1>5, <1>6 DEF Promise!Answer
<1> QED
  BY <1>5, <1>7 DEF Promise!Next

LEMMA RefinementStep ==
  ASSUME IInv, Named, Once, [Next]_vars
  PROVE  [Promise!Next]_Promise!rvars
<1>1. CASE \E a \in Askers : File(a)
  BY <1>1, FileIsMake DEF IInv
<1>2. CASE \E a \in Askers : Post(a)
  BY <1>2, PostIsSend
<1>3. CASE Dispatch
  BY <1>3, DispatchIsHandle DEF IInv
<1>4. CASE Respond
  BY <1>4, RespondIsAnswer DEF IInv
<1>5. CASE /\ work' = work /\ called' = called /\ asked' = asked
           /\ ~\E a \in Askers : Post(a)
  <2>1. Sent' = Sent
    BY <1>5, SentStep DEF IInv
  <2>2. Due' = Due /\ RequestIds(work') = RequestIds(work) /\ CalledIds' = CalledIds
    BY <1>5 DEF Due, CalledIds
  <2> QED
    BY <1>5, <2>1, <2>2 DEF Promise!rvars
<1> QED
  BY <1>1, <1>2, <1>3, <1>4, <1>5, Changes

\* The gateway keeps its promise whatever the serial numbers are: requests are
\* handled once and in the order in which they are sent, an answer calls one
\* callback at most, and none is called twice (business_action_gateway_imp.cpp,
\* DoRequest and DoResponse).
THEOREM Refinement == Spec => Implements
<1>1. Init => Named /\ Once
  BY DEF Init, Named, Once, Apart, Askers, None
<1>2. IInv /\ Named /\ Once /\ [Next]_vars => Named' /\ Once'
  BY NamedStep, OnceStep DEF IInv
<1>3. Init => Promise!Init
  BY RefinementInit
<1>4. IInv /\ Named /\ Once /\ [Next]_vars => [Promise!Next]_Promise!rvars
  BY RefinementStep
<1> QED
  BY <1>1, <1>2, <1>3, <1>4, Invariance, PTL DEF Spec, Implements, Promise!Spec
=============================================================================
