-------------------------------- MODULE AvChat --------------------------------
(***************************************************************************)
(* AvChatComponent: the one-to-one call component, one copy per client,    *)
(* over the signaling service.                                             *)
(*                                                                         *)
(* Its public operations (call, accept, ...) and its waiting timer run on  *)
(* the gateway's working thread, its answers and notifications on the SDK  *)
(* thread, the token answer on the HTTP thread; no lock orders them.  One  *)
(* action here is one operation or one handler, from entry to return,      *)
(* except where the code itself waits: the loops on stoken_ hold the SDK   *)
(* thread while the other threads go on.                                   *)
(*                                                                         *)
(* The application above is left free in Spec: it may ask for any          *)
(* operation at any time and take the events when it likes.  CallKit.tla   *)
(* puts the real windows and queues there.                                 *)
(***************************************************************************)
EXTENDS Signaling

CONSTANTS
  Old,          \* clients that run a version older than 1.1.0
  SafeMode,     \* useRtcSafeMode
  MultiDevice   \* accounts may be logged in on another device as well

ASSUME AvChatAssumption ==
  /\ Old \subseteq Clients
  /\ SafeMode \in BOOLEAN
  /\ MultiDevice \in BOOLEAN

Statuses == {"idle", "calling", "called", "inCall"}
NoRoom   == <<NoChan, "none">>
Room     == (Chan \X {"name", "id"}) \cup {NoRoom}
Free     == <<"free", NoChan>>
Wait     == {"free", "accepted", "acceptCb", "control"} \X ChanId
EventKinds ==
  {"onCalling", "onInvited", "onUserAccept", "onUserReject", "onUserEnter", "onUserLeave",
   "onUserBusy", "onUserCancel", "onCallingTimeOut", "onCallEnd",
   "onOtherClientAccept", "onOtherClientReject"}
Event    == [kind : EventKinds, who : Clients \cup {NoClient}]
Reasons  == {"Timeout", "Rejected", "Canceled", "Busy"}
Bill     == [by : Clients, why : Reasons]

VARIABLES
  status,       \* status_
  master,       \* isMasterInvited
  hurry,        \* timeOutHurryUp
  timer,        \* calling_timeout_timer_ is armed
  to,           \* toAccid
  created,      \* createdChannelInfo_, its channel
  inviting,     \* invitingInfo_, its channel
  invited,      \* invitedInfo_, its channel
  joined,       \* joined_channel_id_
  ver,          \* version_ is 1.1.0 or later
  name,         \* channelName_, the channel it was made from
  token,        \* stoken_
  query,        \* a token query has not been answered
  waiting,      \* what the SDK thread is spinning in
  rtc,          \* the RTC room the engine is in
  left,         \* the engine has an onUserLeft to deliver
  events,       \* events on their way to the application
  bills         \* channel id -> call bills sent for it

callVars == <<status, master, hurry, timer, to>>
chanVars == <<created, inviting, invited, joined>>
peerVars == <<ver, name>>
tokenVars == <<token, query, waiting>>
rtcVars  == <<rtc, left>>
avVars   == <<svcVars, callVars, chanVars, peerVars, tokenVars, rtcVars, events, bills>>

OwnTypeOK ==
  /\ status \in [Clients -> Statuses]
  /\ master \in [Clients -> BOOLEAN]
  /\ hurry \in [Clients -> BOOLEAN]
  /\ timer \in [Clients -> BOOLEAN]
  /\ to \in [Clients -> Clients \cup {NoClient}]
  /\ created \in [Clients -> ChanId]
  /\ inviting \in [Clients -> ChanId]
  /\ invited \in [Clients -> ChanId]
  /\ joined \in [Clients -> ChanId]
  /\ ver \in [Clients -> BOOLEAN]
  /\ name \in [Clients -> ChanId]
  /\ token \in [Clients -> {"", "xyz", "token"}]
  /\ query \in [Clients -> BOOLEAN]
  /\ waiting \in [Clients -> Wait]
  /\ rtc \in [Clients -> Room]
  /\ left \in [Clients -> BOOLEAN]
  /\ events \in [Clients -> Seq(Event)]
  /\ bills \in [ChanId -> Seq(Bill)]

TypeOK == SvcTypeOK /\ OwnTypeOK

\* A static object: what the constructor leaves out is zero.
Init ==
  /\ SvcInit
  /\ status = [c \in Clients |-> "idle"]
  /\ master = [c \in Clients |-> FALSE]
  /\ hurry = [c \in Clients |-> FALSE]
  /\ timer = [c \in Clients |-> FALSE]
  /\ to = [c \in Clients |-> NoClient]
  /\ created = [c \in Clients |-> NoChan]
  /\ inviting = [c \in Clients |-> NoChan]
  /\ invited = [c \in Clients |-> NoChan]
  /\ joined = [c \in Clients |-> NoChan]
  /\ ver = [c \in Clients |-> FALSE]
  /\ name = [c \in Clients |-> NoChan]
  /\ token = [c \in Clients |-> ""]
  /\ query = [c \in Clients |-> FALSE]
  /\ waiting = [c \in Clients |-> Free]
  /\ rtc = [c \in Clients |-> NoRoom]
  /\ left = [c \in Clients |-> FALSE]
  /\ events = [c \in Clients |-> <<>>]
  /\ bills = [ch \in ChanId |-> <<>>]

-----------------------------------------------------------------------------
(* What the operations and handlers share.                                 *)

Modern(c) == c \notin Old

\* versionCompare(version_, "1.1.0") >= 0; an old client has no such branch.
NewFlow(c) == ver[c] /\ Modern(c)

Tell(c, kind, who) == events' = [events EXCEPT ![c] = Append(@, [kind |-> kind, who |-> who])]

SendBill(ch, c, why) == bills' = [bills EXCEPT ![ch] = Append(@, [by |-> c, why |-> why])]

handleNetCallMsg(c, why) ==
  IF status[c] # "inCall" /\ master[c]
  THEN SendBill(created[c], c, why)
  ELSE UNCHANGED bills

\* rtcEngine_->leaveChannel(): the engines still in the room notice.
leaveChannel(c) ==
  /\ rtc' = [rtc EXCEPT ![c] = NoRoom]
  /\ left' = [d \in Clients |->
                left[d] \/ (d # c /\ rtc[c] # NoRoom /\ rtc[d] = rtc[c])]

\* rtcEngine_->joinChannel(): refused without a name and while in a room.
joinChannel(c, room) ==
  /\ rtc' = IF rtc[c] = NoRoom /\ room[1] # NoChan THEN [rtc EXCEPT ![c] = room] ELSE rtc
  /\ UNCHANGED left

\* Faulty variant: the placeholder is stored and nobody is asked.
requestTokenValueUnasked(c) == token' = [token EXCEPT ![c] = "xyz"] /\ UNCHANGED query

requestTokenValue(c) ==
  /\ token' = [token EXCEPT ![c] = "xyz"]
  /\ query' = IF SafeMode THEN [query EXCEPT ![c] = TRUE] ELSE query

\* The SDK thread of c is free and its next message is of this kind.
Gets(c, kind) ==
  /\ waiting[c] = Free
  /\ inbox[c] # <<>>
  /\ Head(inbox[c]).kind = kind

Got(c) == Head(inbox[c])

-----------------------------------------------------------------------------
(* Faulty variants of operations and handlers below, one slip each: the    *)
(* properties are tried on the model with a variant in the place of what   *)
(* it is named for.                                                        *)

\* The timeout does not mark the hangup that follows it.
CallingTimeoutUnmarked(c) ==
  /\ timer[c]
  /\ timer' = [timer EXCEPT ![c] = FALSE]
  /\ \/ /\ status[c] = "calling"
        /\ Tell(c, "onCallingTimeOut", NoClient)
        /\ handleNetCallMsg(c, "Timeout")
     \/ status[c] # "calling" /\ UNCHANGED <<events, bills>>
  /\ UNCHANGED <<svcVars, status, master, hurry, to, chanVars, peerVars, tokenVars, rtcVars>>

\* The timeout leaves the bill to that hangup, which skips it.
CallingTimeoutUnbilled(c) ==
  /\ timer[c]
  /\ timer' = [timer EXCEPT ![c] = FALSE]
  /\ \/ /\ status[c] = "calling"
        /\ hurry' = [hurry EXCEPT ![c] = TRUE]
        /\ Tell(c, "onCallingTimeOut", NoClient)
     \/ status[c] # "calling" /\ UNCHANGED <<hurry, events>>
  /\ UNCHANGED <<svcVars, status, master, to, chanVars, peerVars, tokenVars, rtcVars, bills>>

\* The timeout is not announced.
CallingTimeoutUntold(c) ==
  /\ timer[c]
  /\ timer' = [timer EXCEPT ![c] = FALSE]
  /\ \/ /\ status[c] = "calling"
        /\ hurry' = [hurry EXCEPT ![c] = TRUE]
        /\ handleNetCallMsg(c, "Timeout")
     \/ status[c] # "calling" /\ UNCHANGED <<hurry, bills>>
  /\ UNCHANGED <<svcVars, status, master, to, chanVars, peerVars, tokenVars, rtcVars, events>>

\* The caller joins as soon as its invitation is out.
signalingInviteCbJoins(c) ==
  /\ Gets(c, "inviteCb")
  /\ Silent(Rest(c))
  /\ waiting' = [waiting EXCEPT ![c] = <<"accepted", Got(c).ch>>]
  /\ UNCHANGED <<callVars, chanVars, peerVars, token, query, rtcVars, events, bills>>

\* The error code of the answer is not looked at.
AcceptSucceedsAnyway(c) ==
  /\ Gets(c, "acceptCb")
  /\ Silent(Rest(c))
  /\ joined' = [joined EXCEPT ![c] = Got(c).ch]
  /\ status' = [status EXCEPT ![c] = "inCall"]
  /\ requestTokenValue(c)
  /\ waiting' = IF NewFlow(c) THEN [waiting EXCEPT ![c] = <<"acceptCb", Got(c).ch>>] ELSE waiting
  /\ UNCHANGED <<master, hurry, timer, to, created, inviting, invited, peerVars, rtcVars,
                 events, bills>>

\* A close that failed is tried again, without end.
signalingCloseCbRetries(c) ==
  /\ Gets(c, "closeCb")
  /\ \/ /\ Got(c).ok
        /\ Silent(Rest(c))
        /\ created' = [created EXCEPT ![c] = NoChan]
        /\ joined' = [joined EXCEPT ![c] = NoChan]
     \/ /\ ~Got(c).ok
        /\ SignalingClose(Rest(c), c, Got(c).ch)
        /\ UNCHANGED <<created, joined>>
  /\ status' = [status EXCEPT ![c] = "idle"]
  /\ UNCHANGED <<master, hurry, timer, to, inviting, invited, peerVars, tokenVars, rtcVars,
                 events, bills>>

\* An invitation is taken in and not announced.
handleInvitedUntold(c) ==
  LET ch == Got(c).ch IN
  /\ Gets(c, "Invite")
  /\ ver' = [ver EXCEPT ![c] = Modern(creator[ch])]
  /\ name' = [name EXCEPT ![c] = IF Modern(creator[ch]) THEN ch ELSE NoChan]
  /\ invited' = [invited EXCEPT ![c] = ch]
  /\ status' = [status EXCEPT ![c] = "called"]
  /\ Silent(Rest(c))
  /\ UNCHANGED <<master, hurry, timer, to, created, inviting, joined, tokenVars, rtcVars,
                 events, bills>>

\* The version in the answer is not read: version_ stays as it was.
handleAcceptedUnread(c) ==
  /\ Gets(c, "Accept")
  /\ Silent(Rest(c))
  /\ requestTokenValue(c)
  /\ waiting' = [waiting EXCEPT ![c] = <<"accepted", Got(c).ch>>]
  /\ UNCHANGED <<callVars, chanVars, ver, name, rtcVars, events, bills>>

\* The caller takes the room's name whatever the other side's version.
AcceptedJoinsByName(c) ==
  /\ waiting[c][1] = "accepted" /\ token[c] # "xyz"
  /\ joinChannel(c, <<name[c], "name">>)
  /\ status' = [status EXCEPT ![c] = "inCall"]
  /\ Tell(c, "onUserAccept", NoClient)
  /\ waiting' = [waiting EXCEPT ![c] = Free]
  /\ UNCHANGED <<svcVars, master, hurry, timer, to, chanVars, peerVars, token, query, bills>>

\* The application hears of a busy answer, not of a rejection.
handleRejectedUntold(c) ==
  /\ \/ /\ Gets(c, "Reject")
        /\ Silent(Rest(c))
        /\ UNCHANGED <<master, events>>
     \/ /\ Gets(c, "Busy")
        /\ SignalingClose(Rest(c), c, Got(c).ch)
        /\ Tell(c, "onUserBusy", NoClient)
        /\ master' = [master EXCEPT ![c] = FALSE]
  /\ status' = [status EXCEPT ![c] = "idle"]
  /\ UNCHANGED <<hurry, timer, to, chanVars, peerVars, tokenVars, rtcVars, bills>>

\* The control message goes to who was called last (toAccid).
handleJoinToLast(c) ==
  /\ Gets(c, "Join")
  /\ Tell(c, "onUserEnter", callee[Got(c).ch])
  /\ IF master[c] /\ ~NewFlow(c)
     THEN SignalingControl(Rest(c), Got(c).ch, to[c])
     ELSE Silent(Rest(c))
  /\ UNCHANGED <<callVars, chanVars, peerVars, tokenVars, rtcVars, bills>>

\* An invitation taken back is not announced.
handleCancelInviteUntold(c) ==
  /\ Gets(c, "CancelInvite")
  /\ Silent(Rest(c))
  /\ status' = [status EXCEPT ![c] = "idle"]
  /\ UNCHANGED <<master, hurry, timer, to, chanVars, peerVars, tokenVars, rtcVars, events, bills>>

-----------------------------------------------------------------------------
(* Operations, on the working thread.                                      *)

\* The wrapper announces onCalling when the component's call() returns.
call(c, p) ==
  /\ Unused # {}
  /\ to' = [to EXCEPT ![c] = p]
  /\ created' = [created EXCEPT ![c] = NoChan]
  /\ invited' = [invited EXCEPT ![c] = NoChan]
  /\ ver' = [ver EXCEPT ![c] = FALSE]
  /\ name' = [name EXCEPT ![c] = NoChan]
  /\ master' = [master EXCEPT ![c] = TRUE]
  /\ status' = [status EXCEPT ![c] = "calling"]
  /\ timer' = [timer EXCEPT ![c] = TRUE]
  /\ SignalingCreate(inbox, c)
  /\ Tell(c, "onCalling", p)
  /\ UNCHANGED <<hurry, inviting, joined, tokenVars, rtcVars, bills>>

accept(c) ==
  /\ SignalingAccept(inbox, c, invited[c])
  /\ UNCHANGED <<callVars, chanVars, peerVars, tokenVars, rtcVars, events, bills>>

reject(c) ==
  /\ SignalingReject(inbox, c, invited[c], "Reject", TRUE)
  /\ invited' = [invited EXCEPT ![c] = NoChan]
  /\ handleNetCallMsg(c, "Rejected")
  /\ UNCHANGED <<callVars, created, inviting, joined, peerVars, tokenVars, rtcVars, events>>

\* Idle: only the engine leaves.  Otherwise the caller takes its invitation
\* back while nobody has answered, and either side closes its channel.
hangup(c) ==
  /\ leaveChannel(c)
  /\ \/ /\ status[c] = "idle"
        /\ UNCHANGED <<svcVars, master, hurry, bills>>
     \/ /\ status[c] # "idle"
        /\ \/ hurry[c] /\ UNCHANGED bills
           \/ ~hurry[c] /\ handleNetCallMsg(c, "Canceled")
        /\ hurry' = [hurry EXCEPT ![c] = FALSE]
        /\ CancelAndClose(inbox, c, status[c] = "calling" /\ master[c], inviting[c],
                          IF master[c] THEN inviting[c] ELSE invited[c])
        /\ master' = [master EXCEPT ![c] = FALSE]
  /\ UNCHANGED <<status, timer, to, chanVars, peerVars, tokenVars, events>>

cancel(c) ==
  /\ master[c] /\ status[c] = "calling"
  /\ leaveChannel(c)
  /\ CancelAndClose(inbox, c, TRUE, inviting[c], created[c])
  /\ master' = [master EXCEPT ![c] = FALSE]
  /\ UNCHANGED <<status, hurry, timer, to, chanVars, peerVars, tokenVars, events, bills>>

leave(c) ==
  /\ leaveChannel(c)
  /\ IF joined[c] # NoChan THEN SignalingLeave(inbox, c, joined[c]) ELSE UNCHANGED svcVars
  /\ UNCHANGED <<callVars, chanVars, peerVars, tokenVars, events, bills>>

\* startDialWaitingTimer's task.  It is not cancelled when the call ends: it
\* runs and looks whether the component is calling.
CallingTimeout(c) ==
  /\ timer[c]
  /\ timer' = [timer EXCEPT ![c] = FALSE]
  /\ \/ /\ status[c] = "calling"
        /\ hurry' = [hurry EXCEPT ![c] = TRUE]
        /\ Tell(c, "onCallingTimeOut", NoClient)
        /\ handleNetCallMsg(c, "Timeout")
     \/ /\ status[c] # "calling"
        /\ UNCHANGED <<hurry, events, bills>>
  /\ UNCHANGED <<svcVars, status, master, to, chanVars, peerVars, tokenVars, rtcVars>>

-----------------------------------------------------------------------------
(* Answers of the service, on the SDK thread.                              *)

\* A failed create leaves status_ alone: the waiting timer ends the call.
signalingCreateCb(c) ==
  /\ Gets(c, "createCb")
  /\ \/ /\ ~Got(c).ok
        /\ Silent(Rest(c))
        /\ UNCHANGED created
     \/ /\ Got(c).ok
        /\ created' = [created EXCEPT ![c] = Got(c).ch]
        /\ SignalingJoin(Rest(c), c, Got(c).ch)
  /\ UNCHANGED <<callVars, inviting, invited, joined, peerVars, tokenVars, rtcVars, events, bills>>

signalingJoinCb(c) ==
  /\ Gets(c, "joinCb")
  /\ \/ /\ ~Got(c).ok
        /\ SignalingClose(Rest(c), c, created[c])
        /\ master' = [master EXCEPT ![c] = FALSE]
        /\ UNCHANGED <<status, inviting, name, token, query>>
     \/ /\ Got(c).ok
        /\ requestTokenValue(c)
        /\ name' = [name EXCEPT ![c] = Got(c).ch]
        /\ SignalingInvite(Rest(c), c, Got(c).ch, to[c])
        /\ status' = [status EXCEPT ![c] = "calling"]
        /\ inviting' = [inviting EXCEPT ![c] = Got(c).ch]
        /\ UNCHANGED master
  /\ UNCHANGED <<hurry, timer, to, created, invited, joined, ver, waiting, rtcVars, events, bills>>

\* Whatever the answer and whatever happened since the invitation was sent.
signalingInviteCb(c) ==
  /\ Gets(c, "inviteCb")
  /\ Silent(Rest(c))
  /\ status' = [status EXCEPT ![c] = "calling"]
  /\ UNCHANGED <<master, hurry, timer, to, chanVars, peerVars, tokenVars, rtcVars, events, bills>>

\* The accept failed: the application's callback gets the error.
AcceptFails(c) ==
  /\ Gets(c, "acceptCb") /\ ~Got(c).ok
  /\ Silent(Rest(c))
  /\ UNCHANGED <<callVars, chanVars, peerVars, tokenVars, rtcVars, events, bills>>

\* It succeeded: ask for a token.  The new flow spins until it is there
\* (AcceptJoins), the old one returns and waits for a control message.
AcceptSucceeds(c) ==
  /\ Gets(c, "acceptCb") /\ Got(c).ok
  /\ Silent(Rest(c))
  /\ joined' = [joined EXCEPT ![c] = Got(c).ch]
  /\ status' = [status EXCEPT ![c] = "inCall"]
  /\ requestTokenValue(c)
  /\ waiting' = IF NewFlow(c) THEN [waiting EXCEPT ![c] = <<"acceptCb", Got(c).ch>>] ELSE waiting
  /\ UNCHANGED <<master, hurry, timer, to, created, inviting, invited, peerVars, rtcVars,
                 events, bills>>

AcceptJoins(c) ==
  /\ waiting[c][1] = "acceptCb" /\ token[c] # "xyz"
  /\ joinChannel(c, <<name[c], "name">>)
  /\ waiting' = [waiting EXCEPT ![c] = Free]
  /\ UNCHANGED <<svcVars, callVars, chanVars, peerVars, token, query, events, bills>>

signalingRejectCb(c) ==
  /\ Gets(c, "rejectCb")
  /\ Silent(Rest(c))
  /\ status' = [status EXCEPT ![c] = "idle"]
  /\ UNCHANGED <<master, hurry, timer, to, chanVars, peerVars, tokenVars, rtcVars, events, bills>>

signalingCloseCb(c) ==
  /\ Gets(c, "closeCb")
  /\ Silent(Rest(c))
  /\ \/ /\ Got(c).ok
        /\ created' = [created EXCEPT ![c] = NoChan]
        /\ joined' = [joined EXCEPT ![c] = NoChan]
     \/ /\ ~Got(c).ok
        /\ UNCHANGED <<created, joined>>
  /\ status' = [status EXCEPT ![c] = "idle"]
  /\ UNCHANGED <<master, hurry, timer, to, inviting, invited, peerVars, tokenVars, rtcVars,
                 events, bills>>

signalingLeaveCb(c) ==
  /\ Gets(c, "leaveCb")
  /\ Silent(Rest(c))
  /\ \/ /\ Got(c).ok
        /\ joined' = [joined EXCEPT ![c] = NoChan]
        /\ status' = [status EXCEPT ![c] = "idle"]
     \/ /\ ~Got(c).ok
        /\ UNCHANGED <<joined, status>>
  /\ UNCHANGED <<master, hurry, timer, to, created, inviting, invited, peerVars, tokenVars,
                 rtcVars, events, bills>>

-----------------------------------------------------------------------------
(* Notifications of the service, on the SDK thread.                        *)

\* The invitation's version and room name replace those at hand before the
\* component looks whether it is busy.
handleInvited(c) ==
  LET ch == Got(c).ch IN
  /\ Gets(c, "Invite")
  /\ ver' = [ver EXCEPT ![c] = Modern(creator[ch])]
  /\ name' = [name EXCEPT ![c] = IF Modern(creator[ch]) THEN ch ELSE NoChan]
  /\ \/ /\ status[c] # "idle"
        /\ SignalingReject(Rest(c), c, ch, "Busy", FALSE)
        /\ SendBill(ch, c, "Busy")
        /\ UNCHANGED <<status, invited, events>>
     \/ /\ status[c] = "idle"
        /\ invited' = [invited EXCEPT ![c] = ch]
        /\ status' = [status EXCEPT ![c] = "called"]
        /\ Tell(c, "onInvited", creator[ch])
        /\ Silent(Rest(c))
        /\ UNCHANGED bills
  /\ UNCHANGED <<master, hurry, timer, to, created, inviting, joined, tokenVars, rtcVars>>

\* The caller's side of an answer: it spins for its token, then joins.
handleAccepted(c) ==
  /\ Gets(c, "Accept")
  /\ Silent(Rest(c))
  /\ ver' = [ver EXCEPT ![c] = Modern(callee[Got(c).ch])]
  /\ requestTokenValue(c)
  /\ waiting' = [waiting EXCEPT ![c] = <<"accepted", Got(c).ch>>]
  /\ UNCHANGED <<callVars, chanVars, name, rtcVars, events, bills>>

AcceptedJoins(c) ==
  /\ waiting[c][1] = "accepted" /\ token[c] # "xyz"
  /\ joinChannel(c, IF NewFlow(c) THEN <<name[c], "name">> ELSE <<waiting[c][2], "id">>)
  /\ status' = [status EXCEPT ![c] = "inCall"]
  /\ Tell(c, "onUserAccept", NoClient)
  /\ waiting' = [waiting EXCEPT ![c] = Free]
  /\ UNCHANGED <<svcVars, master, hurry, timer, to, chanVars, peerVars, token, query, bills>>

\* Control message cid 1: the callee of the old flow may join.
handleControl(c) ==
  /\ Gets(c, "Control")
  /\ Silent(Rest(c))
  /\ waiting' = [waiting EXCEPT ![c] = <<"control", Got(c).ch>>]
  /\ UNCHANGED <<callVars, chanVars, peerVars, token, query, rtcVars, events, bills>>

ControlJoins(c) ==
  /\ waiting[c][1] = "control" /\ token[c] # "xyz"
  /\ joinChannel(c, <<waiting[c][2], "id">>)
  /\ waiting' = [waiting EXCEPT ![c] = Free]
  /\ UNCHANGED <<svcVars, callVars, chanVars, peerVars, token, query, events, bills>>

\* Busy also closes the channel; a plain rejection leaves that to nobody.
handleRejected(c) ==
  /\ \/ /\ Gets(c, "Reject")
        /\ Silent(Rest(c))
        /\ Tell(c, "onUserReject", NoClient)
        /\ UNCHANGED master
     \/ /\ Gets(c, "Busy")
        /\ SignalingClose(Rest(c), c, Got(c).ch)
        /\ Tell(c, "onUserBusy", NoClient)
        /\ master' = [master EXCEPT ![c] = FALSE]
  /\ status' = [status EXCEPT ![c] = "idle"]
  /\ UNCHANGED <<hurry, timer, to, chanVars, peerVars, tokenVars, rtcVars, bills>>

\* Somebody else entered.  A caller that does not know a new version of the
\* other side tells it to join.
handleJoin(c) ==
  LET ch == Got(c).ch IN
  /\ Gets(c, "Join")
  /\ Tell(c, "onUserEnter", callee[ch])
  /\ IF master[c] /\ ~NewFlow(c)
     THEN SignalingControl(Rest(c), ch, callee[ch])
     ELSE Silent(Rest(c))
  /\ UNCHANGED <<callVars, chanVars, peerVars, tokenVars, rtcVars, bills>>

handleLeave(c) ==
  /\ Gets(c, "Leave")
  /\ Silent(Rest(c))
  /\ Tell(c, "onUserLeave", NoClient)
  /\ UNCHANGED <<callVars, chanVars, peerVars, tokenVars, rtcVars, bills>>

\* Notifications that end the call here, whichever call they are about.
Ends(c, kind, event) ==
  /\ Gets(c, kind)
  /\ Silent(Rest(c))
  /\ status' = [status EXCEPT ![c] = "idle"]
  /\ Tell(c, event, NoClient)
  /\ UNCHANGED <<master, hurry, timer, to, chanVars, peerVars, tokenVars, rtcVars, bills>>

handleClose(c)               == Ends(c, "Close", "onCallEnd")
handleCancelInvite(c)        == Ends(c, "CancelInvite", "onUserCancel")
handleOtherClientAccepted(c) == Ends(c, "SyncAccept", "onOtherClientAccept")
handleOtherClientRejected(c) == Ends(c, "SyncReject", "onOtherClientReject")

-----------------------------------------------------------------------------
(* The other threads.                                                      *)

\* The HTTP thread stores the token, whoever is spinning on it.
GetToken(c) ==
  /\ query[c]
  /\ query' = [query EXCEPT ![c] = FALSE]
  /\ token' = [token EXCEPT ![c] = "token"]
  /\ UNCHANGED <<svcVars, callVars, chanVars, peerVars, waiting, rtcVars, events, bills>>

\* The engine reports that the other side left the room.
onUserLeft(c) ==
  /\ left[c]
  /\ left' = [left EXCEPT ![c] = FALSE]
  /\ Tell(c, "onUserLeave", NoClient)
  /\ UNCHANGED <<svcVars, callVars, chanVars, peerVars, tokenVars, rtc, bills>>

OtherDevice(c) ==
  /\ MultiDevice
  /\ \E ch \in Chan, accepts \in BOOLEAN : OtherDeviceAnswers(c, ch, accepts)
  /\ UNCHANGED <<callVars, chanVars, peerVars, tokenVars, rtcVars, events, bills>>

\* The application takes the next event.
TakesEvent(c) ==
  /\ events[c] # <<>>
  /\ events' = [events EXCEPT ![c] = Tail(@)]
  /\ UNCHANGED <<svcVars, callVars, chanVars, peerVars, tokenVars, rtcVars, bills>>

-----------------------------------------------------------------------------
\* Handlers that only touch the component and the service.
SdkStep(c) ==
  \/ signalingCreateCb(c) \/ signalingJoinCb(c) \/ signalingInviteCb(c)
  \/ signalingRejectCb(c) \/ signalingCloseCb(c) \/ signalingLeaveCb(c)
  \/ handleInvited(c) \/ handleAccepted(c) \/ AcceptedJoins(c)
  \/ handleControl(c) \/ ControlJoins(c) \/ handleRejected(c)
  \/ handleJoin(c) \/ handleLeave(c) \/ handleClose(c) \/ handleCancelInvite(c)
  \/ handleOtherClientAccepted(c) \/ handleOtherClientRejected(c)

\* Handlers that end in the callback the application gave to accept().
AcceptStep(c) == AcceptFails(c) \/ AcceptSucceeds(c) \/ AcceptJoins(c)

Operation(c) ==
  \/ \E p \in Clients \ {c} : call(c, p)
  \/ accept(c) \/ reject(c) \/ hangup(c) \/ cancel(c) \/ leave(c)

OwnStep(c) == CallingTimeout(c) \/ GetToken(c) \/ onUserLeft(c)

Next ==
  \E c \in Clients :
    Operation(c) \/ SdkStep(c) \/ AcceptStep(c) \/ OwnStep(c) \/ OtherDevice(c) \/ TakesEvent(c)

Spec == Init /\ [][Next]_avVars

-----------------------------------------------------------------------------
(* Properties of the component under any application.                      *)

Party(c, ch)    == ch \in Chan /\ c \in {creator[ch], callee[ch]}
Caller(c, ch)   == ch \in Chan /\ creator[ch] = c
Callee(c, ch)   == ch \in Chan /\ callee[ch] = c
Answered(ch)    == invitation[ch] = "accepted"
Reached(c)      == \E ch \in Chan : Party(c, ch) /\ Answered(ch)

\* Privacy.  The engine, which sends camera and microphone, is only ever in a
\* room of a call its own user placed or was invited to: whatever rooms and
\* channels the handlers mix up (channelName_, invitedInfo_, toAccid, the
\* control message), it is never the room of two other people.
EngineOnlyInOwnCall ==
  \A c \in Clients : rtc[c] # NoRoom => Party(c, rtc[c][1])

\* status_ says inCall only to a user one of whose calls really was answered,
\* although signalingAcceptCb and handleAccepted set it on the word of a
\* message that may be old and of another call.
InCallWasAnswered == \A c \in Clients : status[c] = "inCall" => Reached(c)

\* What a message still on its way says was true when it was sent and stays so.
Founded(c, m) ==
  /\ m.kind \in {"createCb", "joinCb"} /\ m.ok => Caller(c, m.ch)
  /\ m.kind = "acceptCb" /\ m.ok               => Callee(c, m.ch) /\ Answered(m.ch)
  /\ m.kind = "Invite"                         => Callee(c, m.ch)
  /\ m.kind = "Accept"                         => Caller(c, m.ch) /\ Answered(m.ch)
  /\ m.kind = "Join"                           => Answered(m.ch)
  /\ m.kind = "Control"                        => Party(c, m.ch) /\ Answered(m.ch)

\* The inductive invariant behind the two properties above: everything the
\* handlers take a room from, the messages, channelName_ and what the SDK
\* thread holds in its token loop, is about a call of this user, and an
\* invitation is addressed only once.  Until it is answered the caller is alone
\* in the channel, so that a joining or a control message means an answer: no
\* engine is on before a call of its user was answered, and a room entered by
\* the channel's id is that of an answered call.
Provenance ==
  /\ \A ch \in Chan :
       /\ invitation[ch] = "none" => callee[ch] = NoClient
       /\ ~Answered(ch) => members[ch] \subseteq {creator[ch]}
  /\ \A c \in Clients :
       /\ \A i \in DOMAIN inbox[c] : Founded(c, inbox[c][i])
       /\ name[c] # NoChan => Party(c, name[c])
       /\ waiting[c][1] # "free" => Party(c, waiting[c][2]) /\ Answered(waiting[c][2])
       /\ rtc[c] # NoRoom => Reached(c)
       /\ rtc[c][2] = "id" => Answered(rtc[c][1])
=============================================================================
