------------------------------ MODULE Signaling ------------------------------
(***************************************************************************)
(* The signaling service of the NIM SDK, as AvChatComponent uses it.       *)
(*                                                                         *)
(* The service and the SDK are not part of the repository: this module is  *)
(* the assumption the call kit makes about them.  A client asks for        *)
(* something (Create, Join, Invite, ...), the service takes the request in *)
(* one atomic step, and what it has to say, the answer to the asker and    *)
(* the notifications to the others, waits in the inbox of each client      *)
(* until the SDK thread of that client delivers it, in order.  A request   *)
(* and a notification may cross: the service can act on a request while    *)
(* the asker has not yet seen what other clients did before it.            *)
(*                                                                         *)
(* Every operator takes the inboxes q to add to, because a handler that    *)
(* answers a message has first removed that message.                       *)
(***************************************************************************)
EXTENDS Naturals, Sequences, FiniteSets

CONSTANTS
  Clients,      \* the accounts, each running one copy of the program
  NoClient,     \* "nobody", not an account
  MaxCalls,     \* bound: the channels that can be created
  MaxFaults,    \* bound: the legal requests the service may fail
  JoinFirst     \* of an accept, the service may announce the joining first

ASSUME SignalingAssumption ==
  /\ NoClient \notin Clients
  /\ MaxCalls \in Nat
  /\ MaxFaults \in Nat
  /\ JoinFirst \in BOOLEAN

Chan   == 1..MaxCalls
NoChan == 0                 \* the empty channel id of the program
ChanId == Chan \cup {NoChan}

Answer == {"createCb", "joinCb", "inviteCb", "acceptCb", "rejectCb", "closeCb", "leaveCb"}
Notice == {"Invite", "Accept", "Reject", "Busy", "CancelInvite", "Join", "Leave", "Close",
           "Control", "SyncAccept", "SyncReject"}
Message == [kind : Answer, ch : ChanId, ok : BOOLEAN] \cup [kind : Notice, ch : Chan, ok : {TRUE}]

VARIABLES
  creator,      \* channel -> who created it, NoClient while it does not exist
  callee,       \* channel -> who was invited to it
  invitation,   \* channel -> fate of that invitation
  members,      \* channel -> who is in it
  open,         \* channel -> it has not been closed
  inbox,        \* client -> what the SDK still has to deliver to it
  faults        \* legal requests failed so far

svcVars == <<creator, callee, invitation, members, open, inbox, faults>>

SvcTypeOK ==
  /\ creator \in [Chan -> Clients \cup {NoClient}]
  /\ callee \in [Chan -> Clients \cup {NoClient}]
  /\ invitation \in [Chan -> {"none", "pending", "accepted", "rejected", "cancelled"}]
  /\ members \in [Chan -> SUBSET Clients]
  /\ open \in [Chan -> BOOLEAN]
  /\ inbox \in [Clients -> Seq(Message)]
  /\ faults \in 0..MaxFaults

SvcInit ==
  /\ creator = [ch \in Chan |-> NoClient]
  /\ callee = [ch \in Chan |-> NoClient]
  /\ invitation = [ch \in Chan |-> "none"]
  /\ members = [ch \in Chan |-> {}]
  /\ open = [ch \in Chan |-> FALSE]
  /\ inbox = [c \in Clients |-> <<>>]
  /\ faults = 0

-----------------------------------------------------------------------------
Msg(kind, ch, ok) == [kind |-> kind, ch |-> ch, ok |-> ok]
News(kind, ch)    == Msg(kind, ch, TRUE)

\* m added to the inbox of every client in S.
Push(q, S, m) == [c \in Clients |-> IF c \in S THEN Append(q[c], m) ELSE q[c]]

\* The inboxes once the SDK has handed the next message of c to the program.
Rest(c) == [inbox EXCEPT ![c] = Tail(@)]

Unused     == {ch \in Chan : creator[ch] = NoClient}
Pending(ch) == ch \in Chan /\ open[ch] /\ invitation[ch] = "pending"

\* An illegal request is refused; a legal one may fail, MaxFaults times.
Verdicts(legal) == IF ~legal THEN {FALSE} ELSE IF faults < MaxFaults THEN BOOLEAN ELSE {TRUE}
Spent(legal, ok) == IF legal /\ ~ok THEN faults + 1 ELSE faults

SignalingCreate(q, c) ==
  /\ \E ok \in Verdicts(TRUE) :
       /\ faults' = Spent(TRUE, ok)
       /\ \/ /\ ok
             /\ \E ch \in Unused :
                  /\ \A other \in Unused : ch <= other
                  /\ creator' = [creator EXCEPT ![ch] = c]
                  /\ open' = [open EXCEPT ![ch] = TRUE]
                  /\ inbox' = Push(q, {c}, Msg("createCb", ch, TRUE))
          \/ /\ ~ok
             /\ inbox' = Push(q, {c}, Msg("createCb", NoChan, FALSE))
             /\ UNCHANGED <<creator, open>>
  /\ UNCHANGED <<callee, invitation, members>>

SignalingJoin(q, c, ch) ==
  LET legal == ch \in Chan /\ open[ch] IN
  /\ \E ok \in Verdicts(legal) :
       /\ faults' = Spent(legal, ok)
       /\ \/ /\ ok
             /\ members' = [members EXCEPT ![ch] = @ \cup {c}]
             /\ inbox' = Push(Push(q, {c}, Msg("joinCb", ch, TRUE)),
                              members[ch] \ {c}, News("Join", ch))
          \/ /\ ~ok
             /\ inbox' = Push(q, {c}, Msg("joinCb", ch, FALSE))
             /\ UNCHANGED members
  /\ UNCHANGED <<creator, callee, invitation, open>>

SignalingInvite(q, c, ch, to) ==
  LET legal == ch \in Chan /\ open[ch] /\ creator[ch] = c /\ invitation[ch] = "none" IN
  /\ \E ok \in Verdicts(legal) :
       /\ faults' = Spent(legal, ok)
       /\ \/ /\ ok
             /\ callee' = [callee EXCEPT ![ch] = to]
             /\ invitation' = [invitation EXCEPT ![ch] = "pending"]
             /\ inbox' = Push(Push(q, {c}, Msg("inviteCb", ch, TRUE)),
                              {to}, News("Invite", ch))
          \/ /\ ~ok
             /\ inbox' = Push(q, {c}, Msg("inviteCb", ch, FALSE))
             /\ UNCHANGED <<callee, invitation>>
  /\ UNCHANGED <<creator, members, open>>

\* The inviter hears of an accept, the members of the new member.
AcceptNews(q, c, ch) ==
  LET told(r, kind) == Push(r, IF kind = "Accept" THEN {creator[ch]} ELSE members[ch] \ {c},
                            News(kind, ch))
  IN  {told(told(q, "Accept"), "Join")}
      \cup (IF JoinFirst THEN {told(told(q, "Join"), "Accept")} ELSE {})

\* Accept with auto_join.
SignalingAccept(q, c, ch) ==
  LET legal == Pending(ch) /\ callee[ch] = c IN
  /\ \E ok \in Verdicts(legal) :
       /\ faults' = Spent(legal, ok)
       /\ \/ /\ ok
             /\ invitation' = [invitation EXCEPT ![ch] = "accepted"]
             /\ members' = [members EXCEPT ![ch] = @ \cup {c}]
             /\ inbox' \in AcceptNews(Push(q, {c}, Msg("acceptCb", ch, TRUE)), c, ch)
          \/ /\ ~ok
             /\ inbox' = Push(q, {c}, Msg("acceptCb", ch, FALSE))
             /\ UNCHANGED <<invitation, members>>
  /\ UNCHANGED <<creator, callee, open>>

\* notice is "Reject", or "Busy" when custom_info_ is "601"; an answer is
\* delivered only when the asker registered a callback that does anything.
SignalingReject(q, c, ch, notice, answered) ==
  LET legal == Pending(ch) /\ callee[ch] = c
      reply(ok) == IF answered THEN Push(q, {c}, Msg("rejectCb", ch, ok)) ELSE q IN
  /\ \E ok \in Verdicts(legal) :
       /\ faults' = Spent(legal, ok)
       /\ \/ /\ ok
             /\ invitation' = [invitation EXCEPT ![ch] = "rejected"]
             /\ inbox' = Push(reply(TRUE), {creator[ch]}, News(notice, ch))
          \/ /\ ~ok
             /\ inbox' = reply(FALSE)
             /\ UNCHANGED invitation
  /\ UNCHANGED <<creator, callee, members, open>>

\* CancelInvite of one channel followed by SignalingClose of another (or of
\* the same one); cancels is FALSE when only the close is asked for.
CancelAndClose(q, c, cancels, invited, ch) ==
  LET cancelled == cancels /\ Pending(invited) /\ creator[invited] = c
      told  == IF cancelled THEN Push(q, {callee[invited]}, News("CancelInvite", invited)) ELSE q
      legal == ch \in Chan /\ open[ch] /\ c \in members[ch] IN
  /\ invitation' = IF cancelled THEN [invitation EXCEPT ![invited] = "cancelled"] ELSE invitation
  /\ \E ok \in Verdicts(legal) :
       /\ faults' = Spent(legal, ok)
       /\ \/ /\ ok
             /\ open' = [open EXCEPT ![ch] = FALSE]
             /\ members' = [members EXCEPT ![ch] = {}]
             /\ inbox' = Push(Push(told, {c}, Msg("closeCb", ch, TRUE)),
                              members[ch] \ {c}, News("Close", ch))
          \/ /\ ~ok
             /\ inbox' = Push(told, {c}, Msg("closeCb", ch, FALSE))
             /\ UNCHANGED <<open, members>>
  /\ UNCHANGED <<creator, callee>>

SignalingClose(q, c, ch) == CancelAndClose(q, c, FALSE, NoChan, ch)

SignalingLeave(q, c, ch) ==
  LET legal == ch \in Chan /\ open[ch] /\ c \in members[ch] IN
  /\ \E ok \in Verdicts(legal) :
       /\ faults' = Spent(legal, ok)
       /\ \/ /\ ok
             /\ members' = [members EXCEPT ![ch] = @ \ {c}]
             /\ inbox' = Push(Push(q, {c}, Msg("leaveCb", ch, TRUE)),
                              members[ch] \ {c}, News("Leave", ch))
          \/ /\ ~ok
             /\ inbox' = Push(q, {c}, Msg("leaveCb", ch, FALSE))
             /\ UNCHANGED members
  /\ UNCHANGED <<creator, callee, invitation, open>>

\* A control message from c to the client it shares the channel with.
SignalingControl(q, ch, to) ==
  /\ inbox' = IF ch \in Chan /\ open[ch] THEN Push(q, {to}, News("Control", ch)) ELSE q
  /\ UNCHANGED <<creator, callee, invitation, members, open, faults>>

\* The handler talks to nobody: the message it took is gone, nothing else.
Silent(q) ==
  /\ inbox' = q
  /\ UNCHANGED <<creator, callee, invitation, members, open, faults>>

\* The invited account answers on another of its devices: the inviter gets the
\* answer, this device a multi-client sync notification.  members counts the
\* modelled devices only.
OtherDeviceAnswers(c, ch, accepts) ==
  /\ Pending(ch) /\ callee[ch] = c
  /\ invitation' = [invitation EXCEPT ![ch] = IF accepts THEN "accepted" ELSE "rejected"]
  /\ IF accepts
     THEN inbox' \in AcceptNews(Push(inbox, {c}, News("SyncAccept", ch)), c, ch)
     ELSE inbox' = Push(Push(inbox, {c}, News("SyncReject", ch)),
                        {creator[ch]}, News("Reject", ch))
  /\ UNCHANGED <<creator, callee, members, open, faults>>
=============================================================================
