-------------------------------- MODULE Gateway --------------------------------
(***************************************************************************)
(* BusinessActionGateway, and two of its users: the camera preview of the  *)
(* settings window, and the program's exit, which waits for the answer to  *)
(* the last request.                                                       *)
(*                                                                         *)
(* A request is filed with its callback in a table, under a serial number, *)
(* and handled on the working thread; the answer looks the callback up.    *)
(* Packages made by BatpPackPostRequest are numbered; plain ones, the      *)
(* release among them, carry what the memory held, which may be the number *)
(* of another request.                                                     *)
(*                                                                         *)
(* Left out: requests that are not answered and do not touch the preview   *)
(* (CallKit.tla has those of a call).                                      *)
(***************************************************************************)
EXTENDS Integers, Sequences, Functions

CONSTANTS
  Garbage,      \* serial numbers that an unset field may hold
  MaxActs,      \* bound: what the user does before he quits
  MaxInvites    \* bound: calls that come in

ASSUME GatewayAssumption ==
  /\ Garbage \subseteq Nat /\ Garbage # {}
  /\ MaxActs \in Nat /\ MaxInvites \in Nat

Askers  == {"ui", "working"}
None    == [id |-> 0]
\* "view": setupLocalView, the only one of these besides "release" that is answered.
Actions == {"view", "preview", "nopreview", "call", "release"}
\* Faulty variants: the component is released without an answer; switching
\* the preview is answered too.
AnsweredNotRelease(action) == action = "view"
AnsweredPreview(action)    == action \in {"view", "nopreview", "release"}

Answered(action) == action \in {"view", "release"}

VARIABLES
  table,        \* wait_response_list_: serial number -> the request, for its callback
  serial,       \* the counter of CalcBatpSN
  asked,        \* number of requests filed
  todo,         \* what each asker has yet to do before it returns to its loop
  filed,        \* the request it has filed and not yet posted
  work,         \* the queue of the working thread: requests and answers
  notices,      \* the queue of the notify thread
  events,       \* the notifications posted to the UI thread
  threads,      \* which threads of the gateway are running, told to stop, gone
  engine,       \* the component has its engine
  preview,      \* the engine shows the camera
  form,         \* the settings window is open
  timer,        \* paint_video_timer_ is in use
  window,       \* the call window: none, ringing (or dialling), talking
  phase,        \* of the program's exit
  acts, invites,
  called,       \* not in the code: requests whose callback was called, in order
  stray         \* not in the code: something was posted to a thread that had ended

reqvars  == <<table, serial, asked, filed>>
viewvars == <<form, timer, window>>
vars     == <<table, serial, asked, todo, filed, work, notices, events, threads, engine, preview,
              form, timer, window, phase, acts, invites, called, stray>>

Init ==
  /\ table = <<>> /\ serial = 1 /\ asked = 0
  /\ todo = [a \in Askers |-> <<>>] /\ filed = [a \in Askers |-> None]
  /\ work = <<>> /\ notices = <<>> /\ events = <<>>
  /\ threads = [working |-> "running", notify |-> "running"]
  /\ engine = TRUE /\ preview = FALSE
  /\ form = FALSE /\ timer = FALSE /\ window = "none"
  /\ phase = "loop"
  /\ acts = 0 /\ invites = 0
  /\ called = <<>> /\ stray = FALSE

Do(action, cb) == [action |-> action, cb |-> cb]

-----------------------------------------------------------------------------
(* Request, Notify and Response                                            *)

\* The serial number of the package, and the counter after it: the settings
\* window numbers its package, the other packages are made by the default
\* constructor and leave the number unset.
Serial(a, sn, next) ==
  IF a.action = "view"
    THEN sn = serial + 1 /\ next = serial + 1
    ELSE sn \in Garbage /\ next = serial

Serials == Garbage \cup {serial + 1}

\* DoRequest files the callback, or the lack of one, over what was there, ...
File(a) ==
  /\ todo[a] # <<>> /\ Head(todo[a]).action \in Actions /\ filed[a] = None
  /\ \E sn \in Serials :
       LET r == [id |-> asked + 1, action |-> Head(todo[a]).action, cb |-> Head(todo[a]).cb,
                 sn |-> sn] IN
       /\ Serial(Head(todo[a]), sn, serial')
       /\ table' = [s \in DOMAIN table \cup {sn} |-> IF s = sn THEN r ELSE table[s]]
       /\ filed' = [filed EXCEPT ![a] = r]
  /\ asked' = asked + 1
  /\ UNCHANGED <<todo, work, notices, events, threads, engine, preview, viewvars, phase, acts,
                 invites, called, stray>>

\* ... and then posts to the working thread.
Post(a) ==
  /\ filed[a] # None
  /\ IF threads.working = "gone"
       THEN stray' = TRUE /\ UNCHANGED work
       ELSE work' = Append(work, [kind |-> "request", r |-> filed[a]]) /\ UNCHANGED stray
  /\ filed' = [filed EXCEPT ![a] = None]
  /\ todo' = [todo EXCEPT ![a] = Tail(@)]
  /\ UNCHANGED <<table, serial, asked, notices, events, threads, engine, preview, viewvars, phase,
                 acts, invites, called>>

\* Notify, by a thread that is not the notify thread.
Notify(n) ==
  IF threads.notify = "gone"
    THEN stray' = TRUE /\ UNCHANGED notices
    ELSE notices' = Append(notices, n) /\ UNCHANGED stray

\* The notify thread calls the subscribers, which post to the UI thread while
\* it is in the map of threads.
NotifyRuns ==
  /\ threads.notify # "gone" /\ notices # <<>>
  /\ notices' = Tail(notices)
  /\ events' = IF phase = "loop" THEN Append(events, Head(notices)) ELSE events
  /\ UNCHANGED <<reqvars, todo, work, threads, engine, preview, viewvars, phase, acts, invites,
                 called, stray>>

-----------------------------------------------------------------------------
(* The working thread                                                      *)

Takes(kind) ==
  /\ threads.working # "gone" /\ todo["working"] = <<>>
  /\ work # <<>> /\ Head(work).kind = kind

\* What the engine is asked to do.
Engine(action) ==
  CASE action = "preview"               -> preview' = engine /\ UNCHANGED engine
    [] action \in {"nopreview", "call"} -> preview' = FALSE /\ UNCHANGED engine
    [] action = "release"               -> preview' = FALSE /\ engine' = FALSE
    [] OTHER                            -> UNCHANGED <<preview, engine>>

\* DispatchActionRequest, and the answer of those who answer (DoResponse).
Dispatch ==
  /\ Takes("request")
  /\ LET r == Head(work).r IN
       /\ work' = IF Answered(r.action)
                    THEN Append(Tail(work), [kind |-> "answer", r |-> r]) ELSE Tail(work)
       /\ Engine(r.action)
       /\ IF r.action = "call" THEN Notify("calling")
          ELSE UNCHANGED <<notices, stray>>
  /\ UNCHANGED <<reqvars, todo, events, threads, viewvars, phase, acts, invites, called>>

\* The callback of StartVideoPreview, the lambda of CleanupUiKit, or none.
Callback(r) ==
  /\ todo' = IF r.cb /\ r.action = "view"
               THEN [todo EXCEPT !["working"] = <<Do("preview", FALSE), Do("settimer", FALSE)>>]
               ELSE todo
  /\ phase' = IF r.cb /\ r.action = "release" THEN "released" ELSE phase
  /\ called' = IF r.cb THEN Append(called, r) ELSE called

\* Faulty variant: the entry stays in the table.
RespondKeeps ==
  /\ Takes("answer")
  /\ work' = Tail(work)
  /\ LET sn == Head(work).r.sn IN
       IF sn \in DOMAIN table
         THEN UNCHANGED table /\ Callback(table[sn])
         ELSE UNCHANGED <<table, todo, phase, called>>
  /\ UNCHANGED <<serial, asked, filed, notices, events, threads, engine, preview, viewvars, acts,
                 invites, stray>>

\* The answer takes the entry filed under its number, whosever it is.
Respond ==
  /\ Takes("answer")
  /\ work' = Tail(work)
  /\ LET sn == Head(work).r.sn IN
       IF sn \in DOMAIN table
         THEN /\ table' = [s \in DOMAIN table \ {sn} |-> table[s]]
              /\ Callback(table[sn])
         ELSE UNCHANGED <<table, todo, phase, called>>
  /\ UNCHANGED <<serial, asked, filed, notices, events, threads, engine, preview, viewvars, acts,
                 invites, stray>>

-----------------------------------------------------------------------------
(* The settings window                                                     *)

Acts == phase = "loop" /\ todo["ui"] = <<>> /\ acts < MaxActs /\ acts' = acts + 1

\* The repeated task that paints is set off or called off.
Paints(a) ==
  /\ todo[a] # <<>> /\ Head(todo[a]).action \in {"settimer", "cancel"}
  /\ timer' = (Head(todo[a]).action = "settimer")
  /\ todo' = [todo EXCEPT ![a] = Tail(@)]
  /\ UNCHANGED <<reqvars, work, notices, events, threads, engine, preview, form, window, phase,
                 acts, invites, called, stray>>

\* StartVideoPreview, on opening the window, showing its page or ticking the box.
StartVideoPreview ==
  /\ Acts
  /\ form' = TRUE
  /\ todo' = IF window = "talking" THEN todo ELSE [todo EXCEPT !["ui"] = <<Do("view", TRUE)>>]
  /\ UNCHANGED <<reqvars, work, notices, events, threads, engine, preview, timer, window, phase,
                 invites, called, stray>>

\* StopVideoPreview: what it has to do.
Stop(t) ==
  IF t THEN <<Do("view", FALSE), Do("nopreview", FALSE), Do("cancel", FALSE)>> ELSE <<>>

\* Unticking the box, or closing the window.
StopVideoPreview ==
  /\ Acts
  /\ form /\ form' \in BOOLEAN
  /\ todo' = [todo EXCEPT !["ui"] = Stop(timer)]
  /\ UNCHANGED <<reqvars, work, notices, events, threads, engine, preview, timer, window, phase,
                 invites, called, stray>>

\* The page of audio settings cancels the timer before it calls StopVideoPreview.
ShowAudioPage ==
  /\ Acts
  /\ form /\ timer
  /\ timer' = FALSE
  /\ todo' = [todo EXCEPT !["ui"] = Stop(FALSE)]
  /\ UNCHANGED <<reqvars, work, notices, events, threads, engine, preview, form, window, phase,
                 invites, called, stray>>

-----------------------------------------------------------------------------
(* Calls, as far as the preview goes                                       *)

Dial ==
  /\ Acts
  /\ window = "none" /\ window' = "ringing"
  /\ todo' = [todo EXCEPT !["ui"] = <<Do("call", FALSE)>>]
  /\ UNCHANGED <<reqvars, work, notices, events, threads, engine, preview, form, timer, phase,
                 invites, called, stray>>

\* Faulty variant: the SDKs are cleaned up after the gateway.
SdkOutlives == TRUE

\* ExitInstance cleans the SDKs up before the gateway.
SdkLives == phase \in {"loop", "cleanup", "released"}

\* The SDK tells of a call.
IsInvited ==
  /\ SdkLives
  /\ invites < MaxInvites /\ invites' = invites + 1
  /\ Notify("invited")
  /\ UNCHANGED <<reqvars, todo, work, events, threads, engine, preview, viewvars, phase, acts,
                 called>>

\* OnCallingCb, OnInvitedCb
Event ==
  /\ phase = "loop" /\ todo["ui"] = <<>> /\ events # <<>>
  /\ events' = Tail(events)
  /\ window' = IF Head(events) = "invited" THEN "ringing" ELSE window
  /\ todo' = [todo EXCEPT !["ui"] = IF form THEN Stop(timer) ELSE <<>>]
  /\ UNCHANGED <<reqvars, work, notices, threads, engine, preview, form, timer, phase, acts,
                 invites, called, stray>>

\* The user accepts, or sees the other; the call ends.
Talk ==
  /\ Acts
  /\ \/ window = "ringing" /\ window' = "talking"
     \/ window # "none" /\ window' = "none"
  /\ UNCHANGED <<reqvars, todo, work, notices, events, threads, engine, preview, form, timer,
                 phase, invites, called, stray>>

-----------------------------------------------------------------------------
(* The program's exit                                                      *)

\* The UI loop is over and the UI thread out of the map; CleanupUiKit asks
\* the component for its release and waits for the answer.
CleanupUiKit ==
  /\ phase = "loop" /\ todo["ui"] = <<>>
  /\ phase' = "cleanup"
  /\ form' = FALSE /\ events' = <<>>
  /\ todo' = [todo EXCEPT !["ui"] = <<Do("release", TRUE)>>]
  /\ UNCHANGED <<reqvars, work, notices, threads, engine, preview, timer, window, acts, invites,
                 called, stray>>

\* The SDKs are cleaned up (no more of their callbacks), then the gateway is
\* stopped: first its working thread, ...
CleanupSDKs ==
  /\ phase = "released" /\ todo["ui"] = <<>>
  /\ phase' = "stopping"
  /\ threads' = [threads EXCEPT !.working = "stopping"]
  /\ UNCHANGED <<reqvars, todo, work, notices, events, engine, preview, viewvars, acts, invites,
                 called, stray>>

\* A thread that was told to stop ends when there is nothing left to do.
WorkingEnds ==
  /\ threads.working = "stopping" /\ work = <<>> /\ todo["working"] = <<>>
  /\ threads' = [threads EXCEPT !.working = "gone"]
  /\ UNCHANGED <<reqvars, todo, work, notices, events, engine, preview, viewvars, phase, acts,
                 invites, called, stray>>

\* Faulty variant: the notify thread is not stopped second.
StopNotifyAnytime ==
  /\ phase \in {"released", "stopping"} /\ threads.notify = "running"
  /\ threads' = [threads EXCEPT !.notify = "stopping"]
  /\ UNCHANGED <<reqvars, todo, work, notices, events, engine, preview, viewvars, phase, acts,
                 invites, called, stray>>

\* ... then the other.
StopNotify ==
  /\ phase = "stopping" /\ threads.working = "gone" /\ threads.notify = "running"
  /\ threads' = [threads EXCEPT !.notify = "stopping"]
  /\ UNCHANGED <<reqvars, todo, work, notices, events, engine, preview, viewvars, phase, acts,
                 invites, called, stray>>

NotifyEnds ==
  /\ threads.notify = "stopping" /\ notices = <<>>
  /\ threads' = [threads EXCEPT !.notify = "gone"]
  /\ phase' = "exit"
  /\ UNCHANGED <<reqvars, todo, work, notices, events, engine, preview, viewvars, acts, invites,
                 called, stray>>

-----------------------------------------------------------------------------
UiSteps      == File("ui") \/ Post("ui") \/ Paints("ui")
WorkingSteps == File("working") \/ Post("working") \/ Paints("working") \/ Dispatch \/ Respond
ExitSteps    == CleanupSDKs \/ WorkingEnds \/ StopNotify \/ NotifyEnds

Next ==
  \/ UiSteps \/ WorkingSteps \/ NotifyRuns
  \/ StartVideoPreview \/ StopVideoPreview \/ ShowAudioPage
  \/ Dial \/ IsInvited \/ Event \/ Talk
  \/ CleanupUiKit \/ ExitSteps

Spec == Init /\ [][Next]_vars

\* The three threads are scheduled.  The user may never quit.
Fairness ==
  WF_vars(UiSteps) /\ WF_vars(WorkingSteps) /\ WF_vars(NotifyRuns) /\ WF_vars(ExitSteps)

FairSpec == Spec /\ Fairness

-----------------------------------------------------------------------------
(* Properties                                                              *)

Request == [id : Nat, action : Actions, cb : BOOLEAN, sn : Nat]
Item    == [action : Actions \cup {"settimer", "cancel"}, cb : BOOLEAN]

TypeOK ==
  /\ table \in [DOMAIN table -> Request] /\ DOMAIN table \subseteq Nat
  /\ serial \in Nat /\ asked \in Nat
  /\ todo \in [Askers -> Seq(Item)]
  /\ filed \in [Askers -> Request \cup {None}]
  /\ work \in Seq([kind : {"request", "answer"}, r : Request])
  /\ notices \in Seq({"calling", "invited"}) /\ events \in Seq({"calling", "invited"})
  /\ threads \in [{"working", "notify"} -> {"running", "stopping", "gone"}]
  /\ threads.notify # "running" => threads.working = "gone"
  /\ {engine, preview, form, timer} \subseteq BOOLEAN
  /\ window \in {"none", "ringing", "talking"}
  /\ phase \in {"loop", "cleanup", "released", "stopping", "exit"}
  /\ acts \in 0..MaxActs /\ invites \in 0..MaxInvites
  /\ called \in Seq(Request) /\ stray \in BOOLEAN

\* Nothing is posted to a thread that has ended, whichever thread posts and
\* however late: requests of callbacks, answers, notifications of handlers.
NoDeadThread == ~stray

\* The exit goes on past CleanupUiKit only when the component is released,
\* although all it waits for is a callback found under a number: only if the
\* release's unset number was one that the counter had given out may the answer
\* to another request end the wait early.
GivenOut == 2..serial

ReleasedFirst ==
  phase \in {"released", "stopping", "exit"} =>
    ~engine \/ \E r \in Range(called) : r.action = "release" /\ r.sn \in GivenOut

\* Stopping leaves nothing undone: no request, answer or notification.
StopDrains == phase = "exit" => work = <<>> /\ notices = <<>>

\* The numbers of the requests that were posted.
Sent == {n \in 1..asked : filed["ui"].id # n /\ filed["working"].id # n}

\* The requests in a queue of the working thread, in order.
RequestIds(q) ==
  LET ids[n \in 0..Len(q)] ==
        IF n = 0 THEN <<>>
        ELSE IF q[n].kind = "request" THEN Append(ids[n - 1], q[n].r.id)
        ELSE ids[n - 1]
  IN  ids[Len(q)]

\* Those whose answer is under way.
Due == {u.r.id : u \in {t \in Range(work) : t.kind = "answer"}}

CalledIds == [i \in DOMAIN called |-> called[i].id]

\* Requests are handled once and in the order in which they are sent; an answer
\* calls one callback at most, and no callback is called twice, whatever the
\* numbers are.
Promise == INSTANCE Requests WITH
  made    <- 1..asked,
  sent    <- Sent,
  waiting <- RequestIds(work),
  due     <- Due,
  called  <- CalledIds

Implements == Promise!Spec

\* nim_app.cpp says that the UI kit is cleaned up before the program ends: the
\* wait of CleanupUiKit for its answer is over some day.
CleanupReturns == phase = "cleanup" ~> phase # "cleanup"

\* A later request has taken the place of the release in the table.
Overwritten ==
  \E i \in DOMAIN work :
    LET r == work[i].r IN
    r.action = "release" /\ r.sn \in DOMAIN table /\ table[r.sn].id > r.id

\* The wait of CleanupUiKit is over some day unless, while it lasts, another
\* request is filed over the release: that of a preview which a callback under
\* way still asks for, with the same unset number.
ReturnsOrOverwritten ==
  (phase = "cleanup" /\ todo["ui"] # <<>>) ~> (phase # "cleanup" \/ Overwritten)

\* The comment of StartVideoPreview says that there is no preview in a call, and
\* that one that is open is stopped: with nothing under way, none is on.
Settled ==
  work = <<>> /\ notices = <<>> /\ events = <<>> /\ \A a \in Askers : todo[a] = <<>>

NoPreviewInCall == phase = "loop" /\ window = "talking" /\ Settled => ~preview
===============================================================================
