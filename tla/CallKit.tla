-------------------------------- MODULE CallKit --------------------------------
(***************************************************************************)
(* The whole call path of a client: the call window (VideoFormG2, owned by *)
(* VideoManagerG2) on the UI thread, the gateway that hands its requests   *)
(* to the working thread and the component's events back, the component    *)
(* (AvChat.tla) and the signaling service (Signaling.tla).                 *)
(*                                                                         *)
(* form is the window the manager holds.  ShowVideoChatForm gives up the   *)
(* one before without closing it: ghost keeps the last one so replaced     *)
(* while its buttons still work.  The end page stays until replaced (the   *)
(* code destroys it after three or six seconds, nothing of the call with   *)
(* it).                                                                    *)
(***************************************************************************)
EXTENDS AvChat

CONSTANTS
  Dials,        \* bound: who may call whom
  Hasty,        \* users act, and the timer fires, before what was asked is done
  Overlap       \* users place a call while another window is live

ASSUME CallKitAssumption ==
  /\ Dials \subseteq {d \in Clients \X Clients : d[1] # d[2]}
  /\ Hasty \in BOOLEAN
  /\ Overlap \in BOOLEAN

VARIABLES
  form,         \* video_form_
  ghost,        \* the window it replaced, if that one is live
  requests      \* requests on their way to the working thread

uiVars == <<form, ghost, requests>>
vars   == <<avVars, uiVars>>

EndCall == {"REJECT", "HANGUP", "BE_HANGUP", "CLOSE", "RESPONSE", "BUSYING",
              "OTHER_CLIENT_ACCEPT", "OTHER_CLIENT_REJECT"}
NoForm == [view |-> "none", end |-> "none", peer |-> NoClient]
Form   == [view : {"dial", "confirm", "talk"}, end : EndCall \cup {"none"}, peer : Clients]
           \cup {NoForm}
Op     == [op : {"call", "accept", "reject", "hangup"}, peer : Clients \cup {NoClient}]

\* The handlers of the manager use video_form_ without a look: were there an
\* event before the first window, they would write to none, which is no Form.
KitTypeOK ==
  /\ TypeOK
  /\ form \in [Clients -> Form]
  /\ ghost \in [Clients -> Form]
  /\ requests \in [Clients -> Seq(Op)]

KitInit ==
  /\ Init
  /\ form = [c \in Clients |-> NoForm]
  /\ ghost = [c \in Clients |-> NoForm]
  /\ requests = [c \in Clients |-> <<>>]

-----------------------------------------------------------------------------
Live(w) == w.view # "none" /\ w.end = "none"

Request(c, op, p) == requests' = [requests EXCEPT ![c] = Append(@, [op |-> op, peer |-> p])]

\* Faulty variant: a call the other side ended is taken to need nothing more.
EndRequestIfOwn(c, why) ==
  \/ why = "REJECT" /\ Request(c, "reject", NoClient)
  \/ why \in EndCall \ {"REJECT", "HANGUP", "CLOSE", "RESPONSE"} /\ UNCHANGED requests
  \/ why \in {"HANGUP", "CLOSE", "RESPONSE"} /\ Request(c, "hangup", NoClient)

\* What the end page asks of the component; "NoAction" reaches nobody.
EndRequest(c, why) ==
  \/ why = "REJECT" /\ Request(c, "reject", NoClient)
  \/ why \in {"BUSYING", "OTHER_CLIENT_ACCEPT", "OTHER_CLIENT_REJECT"} /\ UNCHANGED requests
  \/ why \in {"HANGUP", "BE_HANGUP", "CLOSE", "RESPONSE"} /\ Request(c, "hangup", NoClient)

\* A window that shows an end page keeps it.
EnterEndCallPage(c, why) ==
  \/ /\ form[c].end = "none"
     /\ form' = [form EXCEPT ![c].end = why]
     /\ EndRequest(c, why)
     /\ UNCHANGED ghost
  \/ /\ form[c].end # "none"
     /\ UNCHANGED uiVars

ShowStatusPage(c, view) ==
  /\ form' = [form EXCEPT ![c].view = view]
  /\ UNCHANGED <<ghost, requests>>

\* A new window takes the place of the one at hand.
ShowVideoChatForm(c, p, view) ==
  /\ form' = [form EXCEPT ![c] = [view |-> view, end |-> "none", peer |-> p]]
  /\ ghost' = IF Live(form[c]) THEN [ghost EXCEPT ![c] = form[c]] ELSE ghost

-----------------------------------------------------------------------------
(* The user, on the UI thread.                                             *)

\* Bound: as many calls are asked for as there are channels.
Dial(c, p) ==
  /\ Overlap \/ ~Live(form[c])
  /\ Cardinality(Unused) >
       Cardinality({r \in Clients \X (1..MaxCalls) :
                      r[2] \in DOMAIN requests[r[1]] /\ requests[r[1]][r[2]].op = "call"})
  /\ ShowVideoChatForm(c, p, "dial")
  /\ Request(c, "call", p)
  /\ UNCHANGED avVars

\* The accept button.  The accepting page has no accept button of its own.
Complete(c) ==
  /\ Live(form[c]) /\ form[c].view = "confirm"
  /\ form' = [form EXCEPT ![c].view = "dial"]
  /\ Request(c, "accept", NoClient)
  /\ UNCHANGED <<ghost, avVars>>

Refuse(c) ==
  /\ Live(form[c]) /\ form[c].view = "confirm"
  /\ EnterEndCallPage(c, "REJECT")
  /\ UNCHANGED avVars

StopChat(c) ==
  /\ Live(form[c]) /\ form[c].view \in {"dial", "talk"}
  /\ EnterEndCallPage(c, "HANGUP")
  /\ UNCHANGED avVars

\* The close box or ESC, confirmed, on any page.
QuitMsgBox(c) ==
  /\ Live(form[c])
  /\ EnterEndCallPage(c, "CLOSE")
  /\ UNCHANGED avVars

\* The replaced window is still on the screen: its buttons ask as well.
UseGhost(c) ==
  /\ Live(ghost[c])
  /\ \E button \in {"CLOSE"} \cup (IF ghost[c].view = "confirm" THEN {"REJECT", "accept"}
                                                              ELSE {"HANGUP"}) :
       IF button = "accept"
       THEN ghost' = [ghost EXCEPT ![c].view = "dial"] /\ Request(c, "accept", NoClient)
       ELSE ghost' = [ghost EXCEPT ![c].end = button] /\ EndRequest(c, button)
  /\ UNCHANGED <<form, avVars>>

\* Nothing c asked for is under way and the window shows what happened.
Settled(c) ==
  /\ requests[c] = <<>> /\ events[c] = <<>> /\ waiting[c] = Free
  /\ \A i \in DOMAIN inbox[c] : inbox[c][i].kind \notin Answer

\* Bound: a user who is not hasty waits for that.
User(c) ==
  /\ Hasty \/ Settled(c)
  /\ \/ \E p \in Clients : <<c, p>> \in Dials /\ Dial(c, p)
     \/ Complete(c) \/ Refuse(c) \/ StopChat(c) \/ QuitMsgBox(c) \/ UseGhost(c)

-----------------------------------------------------------------------------
(* The working thread takes one request at a time.                         *)

Runs(c, op) ==
  /\ requests[c] # <<>> /\ Head(requests[c]).op = op
  /\ requests' = [requests EXCEPT ![c] = Tail(@)]
  /\ UNCHANGED <<form, ghost>>

RunsCall(c)   == Runs(c, "call") /\ call(c, Head(requests[c]).peer)
RunsAccept(c) == Runs(c, "accept") /\ accept(c)
RunsReject(c) == Runs(c, "reject") /\ reject(c)
RunsHangup(c) == Runs(c, "hangup") /\ hangup(c)

Worker(c) == RunsCall(c) \/ RunsAccept(c) \/ RunsReject(c) \/ RunsHangup(c)

-----------------------------------------------------------------------------
(* Events of the component, on the UI thread.                              *)

Takes(c, kinds) == TakesEvent(c) /\ Head(events[c]).kind \in kinds

OnCallingCb(c)    == Takes(c, {"onCalling"}) /\ ShowStatusPage(c, "dial")
OnUserAcceptCb(c) == Takes(c, {"onUserAccept"}) /\ ShowStatusPage(c, "talk")

OnInvitedCb(c) ==
  /\ Takes(c, {"onInvited"})
  /\ ShowVideoChatForm(c, Head(events[c]).who, "confirm")
  /\ UNCHANGED requests

OnUserEnterCb(c) ==
  /\ Takes(c, {"onUserEnter"})
  /\ IF Head(events[c]).who = form[c].peer THEN ShowStatusPage(c, "talk") ELSE UNCHANGED uiVars

OnUserRejectCb(c) == Takes(c, {"onUserReject"}) /\ EnterEndCallPage(c, "REJECT")
OnUserBusyCb(c)   == Takes(c, {"onUserBusy"}) /\ EnterEndCallPage(c, "BUSYING")

\* OnUserLeaveCb, OnUserCancelCb, OnCallEndCb
OnCallEndCb(c) ==
  Takes(c, {"onUserLeave", "onUserCancel", "onCallEnd"}) /\ EnterEndCallPage(c, "BE_HANGUP")

OnCallingTimeOutCb(c) == Takes(c, {"onCallingTimeOut"}) /\ EnterEndCallPage(c, "RESPONSE")

onOtherClientAcceptCb(c) ==
  Takes(c, {"onOtherClientAccept"}) /\ EnterEndCallPage(c, "OTHER_CLIENT_ACCEPT")
onOtherClientRejectCb(c) ==
  Takes(c, {"onOtherClientReject"}) /\ EnterEndCallPage(c, "OTHER_CLIENT_REJECT")

HandlesEvent(c) ==
  \/ OnCallingCb(c) \/ OnUserAcceptCb(c) \/ OnInvitedCb(c) \/ OnUserEnterCb(c)
  \/ OnUserRejectCb(c) \/ OnUserBusyCb(c) \/ OnCallEndCb(c) \/ OnCallingTimeOutCb(c)
  \/ onOtherClientAcceptCb(c) \/ onOtherClientRejectCb(c)

-----------------------------------------------------------------------------
(* The SDK thread.  AcceptInvite's callback runs on it, in the handler.    *)

AcceptInvite(c) ==
  \/ AcceptFails(c) /\ EnterEndCallPage(c, "REJECT")
  \/ AcceptSucceeds(c) /\ IF NewFlow(c) THEN UNCHANGED uiVars ELSE ShowStatusPage(c, "talk")
  \/ AcceptJoins(c) /\ ShowStatusPage(c, "talk")

Sdk(c)   == AcceptInvite(c) \/ (SdkStep(c) /\ UNCHANGED uiVars)
Timer(c) == (Hasty \/ Settled(c)) /\ CallingTimeout(c) /\ UNCHANGED uiVars
Http(c)  == GetToken(c) /\ UNCHANGED uiVars
Engine(c) == onUserLeft(c) /\ UNCHANGED uiVars
Elsewhere(c) == OtherDevice(c) /\ UNCHANGED uiVars

KitNext ==
  \E c \in Clients :
    \/ User(c) \/ Worker(c) \/ HandlesEvent(c) \/ Sdk(c)
    \/ Timer(c) \/ Http(c) \/ Engine(c) \/ Elsewhere(c)

KitSpec == KitInit /\ [][KitNext]_vars

\* Every thread of a client goes on as long as it has something to do, the
\* timer fires and the token server answers; users need do nothing.
Fairness ==
  \A c \in Clients :
    /\ WF_vars(Worker(c)) /\ WF_vars(HandlesEvent(c)) /\ WF_vars(Sdk(c))
    /\ WF_vars(Timer(c)) /\ WF_vars(Http(c)) /\ WF_vars(Engine(c))

FairKitSpec == KitSpec /\ Fairness

-----------------------------------------------------------------------------
(* Properties.                                                             *)

\* Nothing is under way anywhere.
Quiet ==
  \A c \in Clients :
    /\ inbox[c] = <<>> /\ events[c] = <<>> /\ requests[c] = <<>>
    /\ waiting[c] = Free /\ ~timer[c] /\ ~query[c] /\ ~left[c]

\* The engine is only ever in a room of an answered call, never in that of a
\* call which still rings, was refused or was taken back.
OnlyAnsweredRooms ==
  \A c \in Clients : rtc[c] # NoRoom => invitation[rtc[c][1]] = "accepted"

\* The two ends of a call meet: whatever versions they run, channelName_ and
\* the channel id are never mixed, so both engines enter the same room.
SameRoom ==
  \A c, d \in Clients : rtc[c][1] = rtc[d][1] => rtc[c] = rtc[d]

\* One call, one bill: cancelling, the timeout, a refusal and the busy answer
\* may race, yet at most one of the two ends writes the call into the session.
OneBill == \A ch \in Chan : Len(bills[ch]) <= 1

\* A call that was taken back is written into the session in the end, by the
\* timeout or by the hangup: only the hangup that follows a timeout skips it.
WithdrawnCallBilled ==
  Quiet => \A ch \in Chan : invitation[ch] = "cancelled" => bills[ch] # <<>>

\* Once everything has come to rest, a window that still offers its buttons
\* belongs to a call the component still knows: hanging up is not discarded.
NoDeadWindow ==
  Quiet => \A c \in Clients : Live(form[c]) => status[c] # "idle"

\* Once everything has come to rest, nobody who was called is left in a room
\* behind an ended window.  (A caller may be: an answer that crosses the
\* hangup takes the engine into the room after it.)
CalleeEngineLeaves ==
  Quiet => \A c \in Clients :
             rtc[c] # NoRoom /\ ~Live(form[c]) => c = creator[rtc[c][1]]

\* OnUserEnterCb asserts that who enters is the other side of the window.
RightMember ==
  \A c \in Clients :
    events[c] # <<>> /\ Head(events[c]).kind = "onUserEnter"
      => Head(events[c]).who \in {form[c].peer, c}

\* The SDK thread always comes back from the token loops; in particular the
\* caller who was told of an answer goes on to join.
SdkThreadReturns == \A c \in Clients : waiting[c] # Free ~> waiting[c] = Free

\* A window that dials or connects gets an outcome: a conversation or an end.
DialingResolves ==
  \A c \in Clients :
    Live(form[c]) /\ form[c].view = "dial" ~> ~Live(form[c]) \/ form[c].view = "talk"

\* A window that rings does not ring forever, even if its user does nothing.
RingingStops ==
  \A c \in Clients :
    Live(form[c]) /\ form[c].view = "confirm" ~> ~Live(form[c]) \/ form[c].view # "confirm"

\* When one window has ended, for whatever reason, the other ends too.
EndsEverywhere ==
  \A c, d \in Clients : form[c].end # "none" ~> ~Live(form[d])

\* The client and the service do not keep each other busy without a user.
ComesToRest == <>[]Quiet
=============================================================================
