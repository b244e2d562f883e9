----------------------------- MODULE AvChatProofs -----------------------------
(***************************************************************************)
(* Proofs about AvChat.tla, for any clients, channels, faults and versions. *)
(*                                                                         *)
(* The inductive invariant is Inv.  What every step owes to the service    *)
(* comes first: each operation of Signaling.tla, given inboxes q, is shown *)
(* to be Faithful(q), and a step of the component then has only its own    *)
(* variables left to look at.                                              *)
(***************************************************************************)
EXTENDS AvChat, TLAPS

\* An invitation is addressed once, and answered before anybody joins its sender.
InOrder ==
  \A ch \in Chan :
    /\ invitation[ch] = "none" => callee[ch] = NoClient
    /\ ~Answered(ch) => members[ch] \subseteq {creator[ch]}

\* What has happened to a channel is never taken back.
Keeps ==
  \A ch \in Chan :
    /\ creator[ch] # NoClient => creator'[ch] = creator[ch]
    /\ callee[ch] # NoClient => callee'[ch] = callee[ch]
    /\ invitation[ch] = "accepted" => invitation'[ch] = "accepted"

\* Each message of r is one of q or, after the step, founded.
Within(r, q) ==
  \A c \in Clients : \A i \in DOMAIN r[c] :
    \E m \in Message :
      /\ m = r[c][i]
      /\ Founded(c, m)' \/ \E j \in DOMAIN q[c] : m = q[c][j]

Faithful(q) == SvcTypeOK' /\ Keeps /\ InOrder' /\ Within(inbox', q)

Inboxes == [Clients -> Seq(Message)]

-----------------------------------------------------------------------------
(* Messages and inboxes.                                                   *)

\* The messages the service makes are messages.
LEMMA MsgIsMessage ==
  /\ \A kind \in Answer, ch \in ChanId, ok \in BOOLEAN : Msg(kind, ch, ok) \in Message
  /\ \A kind \in Notice, ch \in Chan : News(kind, ch) \in Message
BY DEF Msg, News, Message

\* Push adds m to the inboxes of S and to no other.
LEMMA PushAdds ==
  ASSUME NEW q \in Inboxes, NEW S, NEW m \in Message
  PROVE  /\ Push(q, S, m) \in Inboxes
         /\ \A c \in Clients : \A i \in DOMAIN Push(q, S, m)[c] :
              \/ c \in S /\ Push(q, S, m)[c][i] = m
              \/ i \in DOMAIN q[c] /\ Push(q, S, m)[c][i] = q[c][i]
BY DEF Push, Inboxes

\* Taking the next message leaves the others.
LEMMA RestIsOld ==
  ASSUME NEW d \in Clients, inbox \in Inboxes, inbox[d] # <<>>
  PROVE  /\ Rest(d) \in Inboxes
         /\ \A c \in Clients : \A i \in DOMAIN Rest(d)[c] :
              \E j \in DOMAIN inbox[c] : Rest(d)[c][i] = inbox[c][j]
         /\ Head(inbox[d]) \in Message
         /\ 1 \in DOMAIN inbox[d] /\ Head(inbox[d]) = inbox[d][1]
BY DEF Rest, Inboxes

\* No message was added.
LEMMA WithinSelf ==
  ASSUME NEW q \in Inboxes
  PROVE  Within(q, q)
BY DEF Within, Inboxes

\* A message was added, and it is founded.
LEMMA WithinPush ==
  ASSUME NEW q \in Inboxes, NEW r \in Inboxes, Within(r, q), NEW S, NEW m \in Message,
         \A c \in Clients : c \in S => Founded(c, m)'
  PROVE  /\ Push(r, S, m) \in Inboxes
         /\ Within(Push(r, S, m), q)
<1>1. Push(r, S, m) \in Inboxes
  BY PushAdds
<1>2. ASSUME NEW c \in Clients, NEW i \in DOMAIN Push(r, S, m)[c]
      PROVE  \E n \in Message :
               /\ n = Push(r, S, m)[c][i]
               /\ Founded(c, n)' \/ \E j \in DOMAIN q[c] : n = q[c][j]
  <2>1. CASE c \in S /\ Push(r, S, m)[c][i] = m
    BY <2>1
  <2>2. CASE i \in DOMAIN r[c] /\ Push(r, S, m)[c][i] = r[c][i]
    BY <2>2 DEF Within
  <2> QED
    BY <2>1, <2>2, PushAdds
<1> QED
  BY <1>1, <1>2 DEF Within

-----------------------------------------------------------------------------
(* The operations of the service.                                          *)

\* Answers no handler takes a room from are founded, whatever they say.
LEMMA HarmlessIsFounded ==
  /\ \A c \in Clients, kind \in Answer, ch \in ChanId :
       Msg(kind, ch, FALSE) \in Message /\ Founded(c, Msg(kind, ch, FALSE))'
  /\ \A c \in Clients, kind \in {"inviteCb", "rejectCb", "closeCb", "leaveCb"}, ch \in ChanId :
       Msg(kind, ch, TRUE) \in Message /\ Founded(c, Msg(kind, ch, TRUE))'
BY DEF Msg, Message, Founded, Answer

\* The answer that something failed.
LEMMA FailureWithin ==
  ASSUME NEW q \in Inboxes, NEW c \in Clients, NEW kind \in Answer, NEW ch \in ChanId
  PROVE  /\ Push(q, {c}, Msg(kind, ch, FALSE)) \in Inboxes
         /\ Within(Push(q, {c}, Msg(kind, ch, FALSE)), q)
<1>1. Msg(kind, ch, FALSE) \in Message /\ \A d \in Clients : Founded(d, Msg(kind, ch, FALSE))'
  BY HarmlessIsFounded
<1> QED
  BY <1>1, WithinSelf, WithinPush

\* A success no room is taken from.
LEMMA SuccessWithin ==
  ASSUME NEW q \in Inboxes, NEW c \in Clients, NEW ch \in ChanId,
         NEW kind \in {"inviteCb", "rejectCb", "closeCb", "leaveCb"}
  PROVE  /\ Push(q, {c}, Msg(kind, ch, TRUE)) \in Inboxes
         /\ Within(Push(q, {c}, Msg(kind, ch, TRUE)), q)
<1>1. Msg(kind, ch, TRUE) \in Message /\ \A d \in Clients : Founded(d, Msg(kind, ch, TRUE))'
  BY HarmlessIsFounded
<1> QED
  BY <1>1, WithinSelf, WithinPush

\* A notification no room is taken from.
LEMMA NewsWithin ==
  ASSUME NEW q \in Inboxes, NEW r \in Inboxes, Within(r, q), NEW S, NEW ch \in Chan,
         NEW kind \in Notice, kind \notin {"Invite", "Accept", "Join", "Control"}
  PROVE  /\ Push(r, S, News(kind, ch)) \in Inboxes
         /\ Within(Push(r, S, News(kind, ch)), q)
<1>1. News(kind, ch) \in Message /\ \A d \in Clients : Founded(d, News(kind, ch))'
  BY MsgIsMessage DEF News, Msg, Founded, Notice
<1> QED
  BY <1>1, WithinPush

\* A joining is told to those who know of an answer.
LEMMA JoinWithin ==
  ASSUME NEW q \in Inboxes, NEW r \in Inboxes, Within(r, q), NEW S, NEW ch \in Chan,
         S # {} => Answered(ch)'
  PROVE  /\ Push(r, S, News("Join", ch)) \in Inboxes
         /\ Within(Push(r, S, News("Join", ch)), q)
<1>1. News("Join", ch) \in Message /\ \A d \in Clients : d \in S => Founded(d, News("Join", ch))'
  BY MsgIsMessage DEF News, Msg, Founded, Notice
<1> QED
  BY <1>1, WithinPush

\* Only what is legal succeeds, and the faults stay within their bound.
LEMMA VerdictBound ==
  ASSUME SvcTypeOK, NEW legal \in BOOLEAN, NEW ok \in Verdicts(legal)
  PROVE  ok \in BOOLEAN /\ (ok => legal) /\ Spent(legal, ok) \in 0..MaxFaults
<1>1. ok \in BOOLEAN /\ (ok => legal)
  BY DEF Verdicts
<1>2. CASE legal /\ ~ok
  <2>1. faults < MaxFaults
    BY <1>2 DEF Verdicts
  <2> QED
    BY <1>1, <1>2, <2>1, SignalingAssumption DEF Spent, SvcTypeOK
<1>3. CASE ~(legal /\ ~ok)
  BY <1>1, <1>3 DEF Spent, SvcTypeOK
<1> QED
  BY <1>2, <1>3

\* The new channel belongs to who asked for it, and was nobody's before.
LEMMA CreateFaithful ==
  ASSUME NEW q \in Inboxes, NEW c \in Clients, SvcTypeOK, InOrder, SignalingCreate(q, c)
  PROVE  Faithful(q)
<1>1. PICK ok \in BOOLEAN :
        /\ faults' \in 0..MaxFaults
        /\ \/ /\ ok
              /\ \E ch \in Unused :
                   /\ creator' = [creator EXCEPT ![ch] = c]
                   /\ open' = [open EXCEPT ![ch] = TRUE]
                   /\ inbox' = Push(q, {c}, Msg("createCb", ch, TRUE))
           \/ /\ ~ok
              /\ inbox' = Push(q, {c}, Msg("createCb", NoChan, FALSE))
              /\ UNCHANGED <<creator, open>>
  BY VerdictBound DEF SignalingCreate
<1>2. UNCHANGED <<callee, invitation, members>>
  BY DEF SignalingCreate
<1>4. CASE ok
  <2>1. PICK ch \in Unused :
          /\ creator' = [creator EXCEPT ![ch] = c]
          /\ open' = [open EXCEPT ![ch] = TRUE]
          /\ inbox' = Push(q, {c}, Msg("createCb", ch, TRUE))
    BY <1>1, <1>4
  <2>2. ch \in Chan /\ creator[ch] = NoClient /\ creator'[ch] = c
    BY <2>1 DEF Unused, SvcTypeOK
  <2>3. Msg("createCb", ch, TRUE) \in Message /\ Founded(c, Msg("createCb", ch, TRUE))'
    BY <2>2, MsgIsMessage DEF Answer, ChanId, Founded, Msg, Caller
  <2>4. inbox' \in Inboxes /\ Within(inbox', q)
    BY <2>1, <2>3, WithinSelf, WithinPush
  <2>5. SvcTypeOK'
    BY <1>1, <1>2, <2>1, <2>2, <2>4 DEF SvcTypeOK, Inboxes
  <2>6. InOrder' /\ Keeps
    <3>1. members[ch] \subseteq {NoClient} \/ Answered(ch)
      BY <2>2 DEF InOrder
    <3>2. members[ch] = {} \/ Answered(ch)
      BY <2>2, <3>1, SignalingAssumption DEF SvcTypeOK
    <3>3. \A x \in Chan : x # ch => creator'[x] = creator[x]
      BY <2>1 DEF SvcTypeOK
    <3> QED
      BY <1>2, <2>2, <3>2, <3>3 DEF Keeps, InOrder, Answered
  <2> QED
    BY <2>4, <2>5, <2>6 DEF Faithful
<1>5. CASE ~ok
  <2>1. inbox' \in Inboxes /\ Within(inbox', q)
    BY <1>1, <1>5, FailureWithin DEF Answer, ChanId
  <2> QED
    BY <1>1, <1>2, <1>5, <2>1 DEF Faithful, Keeps, InOrder, Answered, SvcTypeOK, Inboxes
<1> QED
  BY <1>4, <1>5

\* Only who created a channel asks to join it this way.
LEMMA JoinFaithful ==
  ASSUME NEW q \in Inboxes, NEW c \in Clients, NEW ch \in ChanId, SvcTypeOK, InOrder,
         ch \in Chan => creator[ch] = c, SignalingJoin(q, c, ch)
  PROVE  Faithful(q)
<1> DEFINE legal == ch \in Chan /\ open[ch]
<1>1. PICK ok \in BOOLEAN :
        /\ faults' \in 0..MaxFaults /\ (ok => legal)
        /\ \/ /\ ok
              /\ members' = [members EXCEPT ![ch] = @ \cup {c}]
              /\ inbox' = Push(Push(q, {c}, Msg("joinCb", ch, TRUE)),
                               members[ch] \ {c}, News("Join", ch))
           \/ /\ ~ok
              /\ inbox' = Push(q, {c}, Msg("joinCb", ch, FALSE))
              /\ UNCHANGED members
  BY VerdictBound DEF SignalingJoin
<1>2. UNCHANGED <<creator, callee, invitation, open>>
  BY DEF SignalingJoin
<1>3. members' \in [Chan -> SUBSET Clients]
  <2>1. ch \in Chan => members[ch] \cup {c} \in SUBSET Clients
    BY DEF SvcTypeOK
  <2>2. members' = [members EXCEPT ![ch] = members[ch] \cup {c}] \/ UNCHANGED members
    BY <1>1
  <2> QED
    BY <1>1, <2>1, <2>2 DEF SvcTypeOK
<1>4. inbox' \in Inboxes /\ Within(inbox', q)
  <2>1. CASE ok
    <3>1. Msg("joinCb", ch, TRUE) \in Message /\ Founded(c, Msg("joinCb", ch, TRUE))'
      BY <1>1, <1>2, <2>1, MsgIsMessage DEF Answer, Founded, Msg, Caller
    <3> DEFINE r == Push(q, {c}, Msg("joinCb", ch, TRUE))
    <3>2. r \in Inboxes /\ Within(r, q)
      BY <3>1, WithinSelf, WithinPush
    <3>3. inbox' = Push(r, members[ch] \ {c}, News("Join", ch)) /\ ch \in Chan
      BY <1>1, <2>1
    <3>4. members[ch] \ {c} # {} => Answered(ch)'
      BY <1>2, <3>3 DEF InOrder, Answered
    <3> HIDE DEF r
    <3> QED
      BY <3>2, <3>3, <3>4, JoinWithin
  <2>2. CASE ~ok
    BY <1>1, <2>2, FailureWithin DEF Answer
  <2> QED
    BY <2>1, <2>2
<1>5. InOrder'
  <2>1. \A x \in Chan :
          members'[x] = members[x] \/ (x = ch /\ members'[x] = members[x] \cup {c})
    <3>1. \/ members' = [members EXCEPT ![ch] = members[ch] \cup {c}]
          \/ UNCHANGED members
      BY <1>1
    <3> QED
      BY <3>1 DEF SvcTypeOK
  <2> QED
    BY <1>2, <2>1 DEF InOrder, Answered
<1> QED
  BY <1>1, <1>2, <1>3, <1>4, <1>5 DEF Faithful, Keeps, SvcTypeOK, Inboxes

\* An invitation goes out once, so that callee[ch] is written once.
LEMMA InviteFaithful ==
  ASSUME NEW q \in Inboxes, NEW c \in Clients, NEW ch \in ChanId,
         NEW p \in Clients \cup {NoClient}, SvcTypeOK, InOrder,
         SignalingInvite(q, c, ch, p)
  PROVE  Faithful(q)
<1> DEFINE legal == ch \in Chan /\ open[ch] /\ creator[ch] = c /\ invitation[ch] = "none"
<1>1. PICK ok \in BOOLEAN :
        /\ faults' \in 0..MaxFaults /\ (ok => legal)
        /\ \/ /\ ok
              /\ callee' = [callee EXCEPT ![ch] = p]
              /\ invitation' = [invitation EXCEPT ![ch] = "pending"]
              /\ inbox' = Push(Push(q, {c}, Msg("inviteCb", ch, TRUE)),
                               {p}, News("Invite", ch))
           \/ /\ ~ok
              /\ inbox' = Push(q, {c}, Msg("inviteCb", ch, FALSE))
              /\ UNCHANGED <<callee, invitation>>
  BY VerdictBound DEF SignalingInvite
<1>2. UNCHANGED <<creator, members, open>>
  BY DEF SignalingInvite
<1>3. CASE ok
  <2>1. \A d \in Clients : d \in {p} => Founded(d, News("Invite", ch))'
    BY <1>1, <1>3 DEF Founded, Callee, News, Msg, SvcTypeOK
  <2>2. News("Invite", ch) \in Message
    BY <1>1, <1>3, MsgIsMessage DEF Notice
  <2>3. inbox' \in Inboxes /\ Within(inbox', q)
    <3> DEFINE r == Push(q, {c}, Msg("inviteCb", ch, TRUE))
    <3>1. r \in Inboxes /\ Within(r, q)
      BY SuccessWithin
    <3>2. inbox' = Push(r, {p}, News("Invite", ch))
      BY <1>1, <1>3
    <3> HIDE DEF r
    <3> QED
      BY <2>1, <2>2, <3>1, <3>2, WithinPush
  <2>4. callee[ch] = NoClient
    BY <1>1, <1>3 DEF InOrder
  <2> QED
    BY ZenonT(40), <1>1, <1>2, <1>3, <2>3, <2>4
    DEF Faithful, Keeps, InOrder, Answered, SvcTypeOK, Inboxes
<1>4. CASE ~ok
  <2>1. inbox' \in Inboxes /\ Within(inbox', q)
    BY <1>1, <1>4, FailureWithin DEF Answer
  <2> QED
    BY <1>1, <1>2, <1>4, <2>1 DEF Faithful, Keeps, InOrder, Answered, SvcTypeOK, Inboxes
<1> QED
  BY <1>3, <1>4

\* The inviter and the members hear of an accept, in either order.
LEMMA AcceptNewsWithin ==
  ASSUME NEW q \in Inboxes, NEW r \in Inboxes, Within(r, q), NEW c, NEW ch \in Chan,
         UNCHANGED creator, Answered(ch)', NEW s \in AcceptNews(r, c, ch)
  PROVE  s \in Inboxes /\ Within(s, q)
<1>1. ASSUME NEW x \in Inboxes, Within(x, q)
      PROVE  /\ Push(x, {creator[ch]}, News("Accept", ch)) \in Inboxes
             /\ Within(Push(x, {creator[ch]}, News("Accept", ch)), q)
  <2>1. \A d \in Clients : d \in {creator[ch]} => Founded(d, News("Accept", ch))'
    BY DEF Founded, Caller, Answered, News, Msg
  <2>2. News("Accept", ch) \in Message
    BY MsgIsMessage DEF Notice
  <2> QED
    BY <1>1, <2>1, <2>2, WithinPush
<1>2. ASSUME NEW x \in Inboxes, Within(x, q)
      PROVE  /\ Push(x, members[ch] \ {c}, News("Join", ch)) \in Inboxes
             /\ Within(Push(x, members[ch] \ {c}, News("Join", ch)), q)
  BY <1>2, JoinWithin
<1>3. \/ s = Push(Push(r, {creator[ch]}, News("Accept", ch)),
                  members[ch] \ {c}, News("Join", ch))
      \/ s = Push(Push(r, members[ch] \ {c}, News("Join", ch)),
                  {creator[ch]}, News("Accept", ch))
  BY DEF AcceptNews
<1> QED
  BY <1>1, <1>2, <1>3

\* Who was invited accepts.
LEMMA AcceptFaithful ==
  ASSUME NEW q \in Inboxes, NEW c \in Clients, NEW ch \in ChanId, SvcTypeOK, InOrder,
         SignalingAccept(q, c, ch)
  PROVE  Faithful(q)
<1> DEFINE legal == Pending(ch) /\ callee[ch] = c
<1>1. PICK ok \in BOOLEAN :
        /\ faults' \in 0..MaxFaults /\ (ok => legal)
        /\ \/ /\ ok
              /\ invitation' = [invitation EXCEPT ![ch] = "accepted"]
              /\ members' = [members EXCEPT ![ch] = @ \cup {c}]
              /\ inbox' \in AcceptNews(Push(q, {c}, Msg("acceptCb", ch, TRUE)), c, ch)
           \/ /\ ~ok
              /\ inbox' = Push(q, {c}, Msg("acceptCb", ch, FALSE))
              /\ UNCHANGED <<invitation, members>>
  BY VerdictBound DEF SignalingAccept
<1>2. UNCHANGED <<creator, callee, open>>
  BY DEF SignalingAccept
<1>3. CASE ok
  <2>1. ch \in Chan /\ callee[ch] = c /\ invitation[ch] = "pending" /\ callee[ch] # NoClient
    BY <1>1, <1>3, SignalingAssumption DEF Pending
  <2>2. invitation' = [invitation EXCEPT ![ch] = "accepted"]
        /\ members' = [members EXCEPT ![ch] = members[ch] \cup {c}]
    BY <1>1, <1>3
  <2>3. Answered(ch)' /\ Callee(c, ch)'
    BY <1>2, <2>1, <2>2 DEF Answered, Callee, SvcTypeOK
  <2> DEFINE r == Push(q, {c}, Msg("acceptCb", ch, TRUE))
  <2>4. r \in Inboxes /\ Within(r, q)
    <3>1. Msg("acceptCb", ch, TRUE) \in Message /\ Founded(c, Msg("acceptCb", ch, TRUE))'
      BY <2>1, <2>3, MsgIsMessage DEF Answer, ChanId, Founded, Msg
    <3> QED
      BY <3>1, WithinSelf, WithinPush
  <2>5. inbox' \in AcceptNews(r, c, ch)
    BY <1>1, <1>3
  <2> HIDE DEF r
  <2>6. inbox' \in Inboxes /\ Within(inbox', q)
    BY <1>2, <2>1, <2>3, <2>4, <2>5, AcceptNewsWithin
  <2>7. members' \in [Chan -> SUBSET Clients]
    <3>1. members[ch] \cup {c} \in SUBSET Clients
      BY <2>1 DEF SvcTypeOK
    <3> QED
      BY <2>2, <3>1 DEF SvcTypeOK
  <2> QED
    BY <1>1, <1>2, <2>1, <2>2, <2>6, <2>7 DEF Faithful, Keeps, InOrder, Answered, SvcTypeOK, Inboxes
<1>4. CASE ~ok
  <2>1. inbox' \in Inboxes /\ Within(inbox', q)
    BY <1>1, <1>4, FailureWithin DEF Answer
  <2> QED
    BY <1>1, <1>2, <1>4, <2>1 DEF Faithful, Keeps, InOrder, Answered, SvcTypeOK, Inboxes
<1> QED
  BY <1>3, <1>4

\* An invitation turned down was addressed, and is not accepted.
LEMMA RejectFaithful ==
  ASSUME NEW q \in Inboxes, NEW c \in Clients, NEW ch \in ChanId, NEW notice \in {"Reject", "Busy"},
         NEW answered \in BOOLEAN, SvcTypeOK, InOrder,
         SignalingReject(q, c, ch, notice, answered)
  PROVE  Faithful(q)
<1> DEFINE legal == Pending(ch) /\ callee[ch] = c
           reply(ok) == IF answered THEN Push(q, {c}, Msg("rejectCb", ch, ok)) ELSE q
<1>1. PICK ok \in BOOLEAN :
        /\ faults' \in 0..MaxFaults /\ (ok => legal)
        /\ \/ /\ ok
              /\ invitation' = [invitation EXCEPT ![ch] = "rejected"]
              /\ inbox' = Push(reply(TRUE), {creator[ch]}, News(notice, ch))
           \/ /\ ~ok
              /\ inbox' = reply(FALSE)
              /\ UNCHANGED invitation
  BY VerdictBound DEF SignalingReject
<1>2. UNCHANGED <<creator, callee, members, open>>
  BY DEF SignalingReject
<1>3. /\ reply(TRUE) \in Inboxes /\ Within(reply(TRUE), q)
      /\ reply(FALSE) \in Inboxes /\ Within(reply(FALSE), q)
  BY SuccessWithin, FailureWithin, WithinSelf DEF Answer
<1> HIDE DEF reply
<1>4. CASE ok
  <2>1. ch \in Chan /\ callee[ch] = c /\ invitation[ch] = "pending" /\ callee[ch] # NoClient
    BY <1>1, <1>4, SignalingAssumption DEF Pending
  <2>2. inbox' \in Inboxes /\ Within(inbox', q)
    <3>1. inbox' = Push(reply(TRUE), {creator[ch]}, News(notice, ch))
      BY <1>1, <1>4
    <3>2. notice \in Notice /\ notice \notin {"Invite", "Accept", "Join", "Control"}
      BY DEF Notice
    <3> QED
      BY <1>3, <2>1, <3>1, <3>2, NewsWithin
  <2> QED
    BY <1>1, <1>2, <1>4, <2>1, <2>2 DEF Faithful, Keeps, InOrder, Answered, SvcTypeOK, Inboxes
<1>5. CASE ~ok
  BY <1>1, <1>2, <1>3, <1>5 DEF Faithful, Keeps, InOrder, Answered, SvcTypeOK, Inboxes
<1> QED
  BY <1>4, <1>5

\* What hangup and cancel ask for: an invitation taken back was pending.
LEMMA CancelAndCloseFaithful ==
  ASSUME NEW q \in Inboxes, NEW c \in Clients, NEW cancels \in BOOLEAN,
         NEW inv \in ChanId, NEW ch \in ChanId, SvcTypeOK, InOrder,
         CancelAndClose(q, c, cancels, inv, ch)
  PROVE  Faithful(q)
<1> DEFINE cancelled == cancels /\ Pending(inv) /\ creator[inv] = c
           told  == IF cancelled THEN Push(q, {callee[inv]}, News("CancelInvite", inv)) ELSE q
           legal == ch \in Chan /\ open[ch] /\ c \in members[ch]
<1>1. PICK ok \in BOOLEAN :
        /\ faults' \in 0..MaxFaults /\ (ok => legal)
        /\ \/ /\ ok
              /\ open' = [open EXCEPT ![ch] = FALSE]
              /\ members' = [members EXCEPT ![ch] = {}]
              /\ inbox' = Push(Push(told, {c}, Msg("closeCb", ch, TRUE)),
                               members[ch] \ {c}, News("Close", ch))
           \/ /\ ~ok
              /\ inbox' = Push(told, {c}, Msg("closeCb", ch, FALSE))
              /\ UNCHANGED <<open, members>>
  BY VerdictBound DEF CancelAndClose
<1>2. /\ invitation' = IF cancelled THEN [invitation EXCEPT ![inv] = "cancelled"] ELSE invitation
      /\ UNCHANGED <<creator, callee>>
  BY DEF CancelAndClose
<1>3. told \in Inboxes /\ Within(told, q)
  BY WithinSelf, NewsWithin DEF Notice, Pending
<1>4. /\ invitation' \in [Chan -> {"none", "pending", "accepted", "rejected", "cancelled"}]
      /\ \A x \in Chan : \/ invitation'[x] = invitation[x]
                         \/ (invitation[x] = "pending" /\ invitation'[x] = "cancelled")
  <2>1. CASE cancelled
    <3>1. inv \in Chan /\ invitation[inv] = "pending"
      BY <2>1 DEF Pending
    <3>2. invitation' = [invitation EXCEPT ![inv] = "cancelled"]
      BY <1>2, <2>1
    <3> QED
      BY <3>1, <3>2 DEF SvcTypeOK
  <2>2. CASE ~cancelled
    <3>1. invitation' = invitation
      BY <1>2, <2>2
    <3> QED
      BY <3>1 DEF SvcTypeOK
  <2> QED
    BY <2>1, <2>2
<1> HIDE DEF told, cancelled
<1>5. /\ open' \in [Chan -> BOOLEAN]
      /\ members' \in [Chan -> SUBSET Clients]
  BY <1>1 DEF SvcTypeOK
<1>6. \A kind \in {"closeCb"}, res \in BOOLEAN :
        /\ Push(told, {c}, Msg(kind, ch, res)) \in Inboxes
        /\ Within(Push(told, {c}, Msg(kind, ch, res)), q)
  <2> TAKE kind \in {"closeCb"}, res \in BOOLEAN
  <2>1. Msg(kind, ch, res) \in Message /\ \A d \in Clients : Founded(d, Msg(kind, ch, res))'
    BY HarmlessIsFounded DEF Answer
  <2> QED
    BY <1>3, <2>1, WithinPush
<1>7. inbox' \in Inboxes /\ Within(inbox', q)
  <2>1. CASE ok
    <3> DEFINE r == Push(told, {c}, Msg("closeCb", ch, TRUE))
    <3>1. inbox' = Push(r, members[ch] \ {c}, News("Close", ch)) /\ ch \in Chan
      BY <1>1, <2>1
    <3>2. r \in Inboxes /\ Within(r, q)
      BY <1>6
    <3> HIDE DEF r
    <3> QED
      BY <3>1, <3>2, NewsWithin DEF Notice
  <2>2. CASE ~ok
    BY <1>1, <1>6, <2>2
  <2> QED
    BY <2>1, <2>2
<1> QED
  BY <1>1, <1>2, <1>4, <1>5, <1>7 DEF Faithful, Keeps, InOrder, Answered, SvcTypeOK, Inboxes

\* A close alone is one that cancels nothing.
LEMMA CloseFaithful ==
  ASSUME NEW q \in Inboxes, NEW c \in Clients, NEW ch \in ChanId, SvcTypeOK, InOrder,
         SignalingClose(q, c, ch)
  PROVE  Faithful(q)
BY CancelAndCloseFaithful DEF SignalingClose, ChanId

\* A leave changes the members alone.
LEMMA LeaveFaithful ==
  ASSUME NEW q \in Inboxes, NEW c \in Clients, NEW ch \in ChanId, SvcTypeOK, InOrder,
         SignalingLeave(q, c, ch)
  PROVE  Faithful(q)
<1> DEFINE legal == ch \in Chan /\ open[ch] /\ c \in members[ch]
<1>1. PICK ok \in BOOLEAN :
        /\ faults' \in 0..MaxFaults /\ (ok => legal)
        /\ \/ /\ ok
              /\ members' = [members EXCEPT ![ch] = @ \ {c}]
              /\ inbox' = Push(Push(q, {c}, Msg("leaveCb", ch, TRUE)),
                               members[ch] \ {c}, News("Leave", ch))
           \/ /\ ~ok
              /\ inbox' = Push(q, {c}, Msg("leaveCb", ch, FALSE))
              /\ UNCHANGED members
  BY VerdictBound DEF SignalingLeave
<1>2. UNCHANGED <<creator, callee, invitation, open>>
  BY DEF SignalingLeave
<1>3. members' \in [Chan -> SUBSET Clients]
  <2>1. ch \in Chan => members[ch] \ {c} \in SUBSET Clients
    BY DEF SvcTypeOK
  <2>2. members' = [members EXCEPT ![ch] = members[ch] \ {c}] \/ UNCHANGED members
    BY <1>1
  <2> QED
    BY <1>1, <2>1, <2>2 DEF SvcTypeOK
<1>4. inbox' \in Inboxes /\ Within(inbox', q)
  <2>1. CASE ok
    <3> DEFINE r == Push(q, {c}, Msg("leaveCb", ch, TRUE))
    <3>1. inbox' = Push(r, members[ch] \ {c}, News("Leave", ch)) /\ ch \in Chan
      BY <1>1, <2>1
    <3>2. r \in Inboxes /\ Within(r, q)
      BY SuccessWithin
    <3> HIDE DEF r
    <3> QED
      BY <3>1, <3>2, NewsWithin DEF Notice
  <2>2. CASE ~ok
    BY <1>1, <2>2, FailureWithin DEF Answer
  <2> QED
    BY <2>1, <2>2
<1>5. InOrder'
  <2>1. \/ members' = [members EXCEPT ![ch] = members[ch] \ {c}]
        \/ UNCHANGED members
    BY <1>1
  <2>2. \A x \in Chan : members'[x] \subseteq members[x]
    BY <2>1 DEF SvcTypeOK
  <2> QED
    BY <1>2, <2>2 DEF InOrder, Answered
<1> QED
  BY <1>1, <1>2, <1>3, <1>4, <1>5 DEF Faithful, Keeps, SvcTypeOK, Inboxes

\* A control message goes to a party of the channel, once it is answered.
LEMMA ControlFaithful ==
  ASSUME NEW q \in Inboxes, NEW ch \in Chan, SvcTypeOK, InOrder, Answered(ch),
         SignalingControl(q, ch, callee[ch])
  PROVE  Faithful(q)
<1>1. UNCHANGED <<creator, callee, invitation, members, open, faults>>
  BY DEF SignalingControl
<1>2. \A d \in Clients : d \in {callee[ch]} => Founded(d, News("Control", ch))'
  BY <1>1 DEF Founded, Party, Answered, News, Msg
<1>3. News("Control", ch) \in Message
  BY MsgIsMessage DEF Notice
<1>4. inbox' = Push(q, {callee[ch]}, News("Control", ch)) \/ inbox' = q
  BY DEF SignalingControl
<1>5. inbox' \in Inboxes /\ Within(inbox', q)
  BY <1>2, <1>3, <1>4, WithinSelf, WithinPush
<1> QED
  BY <1>1, <1>5 DEF Faithful, Keeps, InOrder, Answered, SvcTypeOK, Inboxes

\* The handler talks to nobody.
LEMMA SilentFaithful ==
  ASSUME NEW q \in Inboxes, SvcTypeOK, InOrder, Silent(q)
  PROVE  Faithful(q)
BY WithinSelf DEF Silent, Faithful, Keeps, InOrder, Answered, SvcTypeOK, Inboxes

\* The step does not involve the service.
LEMMA UnchangedFaithful ==
  ASSUME SvcTypeOK, InOrder, UNCHANGED svcVars
  PROVE  Faithful(inbox)
<1>1. inbox \in Inboxes /\ Within(inbox, inbox)
  BY WithinSelf DEF SvcTypeOK, Inboxes
<1> QED
  BY <1>1 DEF svcVars, Faithful, Keeps, InOrder, Answered, SvcTypeOK

\* Another device answers for the one invited.
LEMMA OtherDeviceFaithful ==
  ASSUME NEW c \in Clients, NEW ch \in Chan, NEW accepts \in BOOLEAN, SvcTypeOK, InOrder,
         OtherDeviceAnswers(c, ch, accepts)
  PROVE  Faithful(inbox)
<1>1. /\ UNCHANGED <<creator, callee, members, open, faults>>
      /\ callee[ch] = c /\ callee[ch] # NoClient /\ invitation[ch] = "pending"
      /\ invitation' = [invitation EXCEPT ![ch] = IF accepts THEN "accepted" ELSE "rejected"]
  BY SignalingAssumption DEF OtherDeviceAnswers, Pending
<1>2. inbox \in Inboxes /\ Within(inbox, inbox)
  BY WithinSelf DEF SvcTypeOK, Inboxes
<1>3. inbox' \in Inboxes /\ Within(inbox', inbox)
  <2>1. CASE accepts
    <3> DEFINE r == Push(inbox, {c}, News("SyncAccept", ch))
    <3>1. r \in Inboxes /\ Within(r, inbox)
      BY <1>2, NewsWithin DEF Notice
    <3>2. inbox' \in AcceptNews(r, c, ch)
      BY <2>1 DEF OtherDeviceAnswers
    <3>3. Answered(ch)'
      BY <1>1, <2>1 DEF Answered, SvcTypeOK
    <3> HIDE DEF r
    <3> QED
      BY <1>1, <1>2, <3>1, <3>2, <3>3, AcceptNewsWithin
  <2>2. CASE ~accepts
    <3> DEFINE r == Push(inbox, {c}, News("SyncReject", ch))
    <3>1. r \in Inboxes /\ Within(r, inbox)
      BY <1>2, NewsWithin DEF Notice
    <3>2. inbox' = Push(r, {creator[ch]}, News("Reject", ch))
      BY <2>2 DEF OtherDeviceAnswers
    <3> HIDE DEF r
    <3> QED
      BY <1>2, <3>1, <3>2, NewsWithin DEF Notice
  <2> QED
    BY <2>1, <2>2
<1> QED
  BY <1>1, <1>3 DEF Faithful, Keeps, InOrder, Answered, SvcTypeOK, Inboxes

-----------------------------------------------------------------------------
(* The component.                                                          *)

\* The room of client c is of a call of its own, and some call was answered;
\* entered by the channel's id, that one.
RoomBacked(c) ==
  /\ rtc[c] # NoRoom => Party(c, rtc[c][1]) /\ Reached(c)
  /\ rtc[c][2] = "id" => Answered(rtc[c][1])

\* What client c acts upon is about a call of its own.
Backed(c) ==
  /\ name[c] # NoChan => Party(c, name[c])
  /\ waiting[c][1] # "free" => Party(c, waiting[c][2]) /\ Answered(waiting[c][2])
  /\ RoomBacked(c)
  /\ status[c] = "inCall" => Reached(c)

MessagesFounded == \A c \in Clients : \A i \in DOMAIN inbox[c] : Founded(c, inbox[c][i])

\* The inductive invariant.
Inv == TypeOK /\ InOrder /\ MessagesFounded /\ \A c \in Clients : Backed(c)

\* It is what the model checker was asked, put differently.
LEMMA InvMeans == Inv <=> TypeOK /\ Provenance /\ EngineOnlyInOwnCall /\ InCallWasAnswered
BY DEF Inv, InOrder, MessagesFounded, Backed, RoomBacked, Provenance, EngineOnlyInOwnCall,
       InCallWasAnswered

\* The messages of q are among those of the inboxes.
Among(q) ==
  \A c \in Clients : \A j \in DOMAIN q[c] : \E i \in DOMAIN inbox[c] : q[c][j] = inbox[c][i]

\* A step that was faithful to the service leaves all that was so.
LEMMA FaithfulKeeps ==
  ASSUME Inv, NEW q, Among(q), Faithful(q)
  PROVE  /\ SvcTypeOK' /\ InOrder' /\ MessagesFounded'
         /\ \A c \in Clients, ch \in ChanId : Party(c, ch) => Party(c, ch)'
         /\ \A c \in Clients, ch \in ChanId : Caller(c, ch) => Caller(c, ch)'
         /\ \A c \in Clients, ch \in ChanId : Callee(c, ch) => Callee(c, ch)'
         /\ \A ch \in Chan : Answered(ch) => Answered(ch)'
         /\ \A c \in Clients : Reached(c) => Reached(c)'
<1>1. \A c \in Clients : c # NoClient
  BY SignalingAssumption
<1>2. /\ \A c \in Clients, ch \in ChanId : Party(c, ch) => Party(c, ch)'
      /\ \A c \in Clients, ch \in ChanId : Caller(c, ch) => Caller(c, ch)'
      /\ \A c \in Clients, ch \in ChanId : Callee(c, ch) => Callee(c, ch)'
  BY <1>1 DEF Faithful, Keeps, Party, Caller, Callee
<1>3. \A ch \in Chan : Answered(ch) => Answered(ch)'
  BY DEF Faithful, Keeps, Answered
<1>4. ASSUME NEW c \in Clients, NEW m \in Message, Founded(c, m)
      PROVE  Founded(c, m)'
  <2>1. m.ch \in ChanId
    BY DEF Message, ChanId
  <2>2. /\ Callee(c, m.ch) /\ Answered(m.ch) => (Callee(c, m.ch) /\ Answered(m.ch))'
        /\ Caller(c, m.ch) /\ Answered(m.ch) => (Caller(c, m.ch) /\ Answered(m.ch))'
        /\ Party(c, m.ch) /\ Answered(m.ch) => (Party(c, m.ch) /\ Answered(m.ch))'
    BY <1>2, <1>3, <2>1 DEF Caller, Callee, Party
  <2>3. m.kind = "Join" => m.ch \in Chan
    BY DEF Message, Answer
  <2> QED
    BY <1>2, <1>3, <1>4, <2>1, <2>2, <2>3 DEF Founded
<1>5. MessagesFounded'
  <2> SUFFICES ASSUME NEW c \in Clients, NEW i \in DOMAIN inbox'[c]
               PROVE  Founded(c, inbox[c][i])'
    BY DEF MessagesFounded
  <2>1. PICK m \in Message :
          /\ m = inbox'[c][i]
          /\ Founded(c, m)' \/ \E j \in DOMAIN q[c] : m = q[c][j]
    BY DEF Faithful, Within
  <2>2. CASE \E j \in DOMAIN q[c] : m = q[c][j]
    <3>1. \E k \in DOMAIN inbox[c] : m = inbox[c][k]
      BY <2>2 DEF Among
    <3>2. Founded(c, m)
      BY <3>1 DEF Inv, MessagesFounded
    <3> QED
      BY <1>4, <2>1, <3>2
  <2> QED
    BY <2>1, <2>2
<1>6. \A c \in Clients : Reached(c) => Reached(c)'
  BY <1>2, <1>3 DEF Reached, ChanId
<1> QED
  BY <1>2, <1>3, <1>5, <1>6 DEF Faithful

\* What a handler knows of the message it was given.
LEMMA GotFacts ==
  ASSUME Inv, NEW c \in Clients, NEW kind, Gets(c, kind)
  PROVE  /\ Rest(c) \in Inboxes /\ Among(Rest(c))
         /\ Got(c) \in Message /\ Founded(c, Got(c)) /\ Got(c).kind = kind
         /\ Got(c).ch \in ChanId /\ (kind \in Notice => Got(c).ch \in Chan)
         /\ waiting[c] = Free
<1>1. inbox \in Inboxes /\ inbox[c] # <<>>
  BY DEF Inv, TypeOK, SvcTypeOK, Inboxes, Gets
<1>2. /\ Rest(c) \in Inboxes /\ Among(Rest(c))
      /\ Got(c) \in Message /\ Founded(c, Got(c))
  BY <1>1, RestIsOld DEF Among, Got, Inv, MessagesFounded
<1>3. Got(c).kind = kind /\ waiting[c] = Free
  BY DEF Gets, Got
<1> QED
  BY <1>2, <1>3 DEF Message, Answer, Notice, ChanId

\* The rest of a step: the types and what the clients act upon.
LEMMA StepKeepsInv ==
  ASSUME Inv, NEW q, Among(q), Faithful(q), OwnTypeOK', \A c \in Clients : Backed(c)'
  PROVE  Inv'
BY FaithfulKeeps DEF Inv, TypeOK

\* What is as before, or given up, is still backed.
LEMMA NameKept ==
  ASSUME Inv, NEW q, Among(q), Faithful(q), NEW c \in Clients,
         name'[c] = name[c] \/ name'[c] = NoChan
  PROVE  (name[c] # NoChan => Party(c, name[c]))'
<1>1. name[c] \in ChanId
  BY DEF Inv, TypeOK, OwnTypeOK
<1> QED
  BY <1>1, FaithfulKeeps DEF Inv, Backed

\* The room too.
LEMMA RoomKept ==
  ASSUME Inv, NEW q, Among(q), Faithful(q), NEW c \in Clients,
         rtc'[c] = rtc[c] \/ rtc'[c] = NoRoom
  PROVE  RoomBacked(c)'
<1>1. rtc[c] \in Room
  BY DEF Inv, TypeOK, OwnTypeOK
<1>2. rtc[c][1] \in ChanId /\ (rtc[c][2] = "id" => rtc[c][1] \in Chan) /\ NoRoom[2] = "none"
  BY <1>1 DEF Room, NoRoom, ChanId
<1> QED
  BY <1>2, FaithfulKeeps DEF Inv, Backed, RoomBacked

\* What the SDK thread spins in, too.
LEMMA LoopKept ==
  ASSUME Inv, NEW q, Among(q), Faithful(q), NEW c \in Clients,
         waiting'[c] = waiting[c] \/ waiting'[c] = Free
  PROVE  (waiting[c][1] # "free" => Party(c, waiting[c][2]) /\ Answered(waiting[c][2]))'
<1>1. waiting[c] \in Wait
  BY DEF Inv, TypeOK, OwnTypeOK
<1>2. waiting[c][2] \in ChanId
  BY <1>1 DEF Wait
<1> QED
  BY <1>2, FaithfulKeeps DEF Inv, Backed, Party, Free

\* The call said to be on, too.
LEMMA StatusKept ==
  ASSUME Inv, NEW q, Among(q), Faithful(q), NEW c \in Clients,
         status'[c] = status[c] \/ status'[c] # "inCall"
  PROVE  (status[c] = "inCall" => Reached(c))'
BY FaithfulKeeps DEF Inv, Backed

\* A client that takes up nothing new is backed as before.
LEMMA BackedKept ==
  ASSUME Inv, NEW q, Among(q), Faithful(q), NEW c \in Clients,
         name'[c] = name[c] \/ name'[c] = NoChan,
         waiting'[c] = waiting[c] \/ waiting'[c] = Free,
         rtc'[c] = rtc[c] \/ rtc'[c] = NoRoom,
         status'[c] = status[c] \/ status'[c] # "inCall"
  PROVE  Backed(c)'
BY NameKept, RoomKept, LoopKept, StatusKept DEF Backed

\* The helpers keep the types of what they write.
LEMMA TellTyped ==
  ASSUME OwnTypeOK, NEW c \in Clients, NEW kind \in EventKinds, NEW who \in Clients \cup {NoClient},
         Tell(c, kind, who)
  PROVE  events' \in [Clients -> Seq(Event)]
<1>1. [kind |-> kind, who |-> who] \in Event
  BY DEF Event
<1> QED
  <2>1. events \in [Clients -> Seq(Event)]
    BY DEF OwnTypeOK
  <2>2. Append(events[c], [kind |-> kind, who |-> who]) \in Seq(Event)
    BY <1>1, <2>1
  <2>3. events' = [events EXCEPT ![c] = Append(events[c], [kind |-> kind, who |-> who])]
    BY DEF Tell
  <2> QED
    BY <2>1, <2>2, <2>3

\* A bill is added to those of its channel.
LEMMA BillTyped ==
  ASSUME OwnTypeOK, NEW c \in Clients, NEW ch \in ChanId, NEW why \in Reasons,
         SendBill(ch, c, why)
  PROVE  bills' \in [ChanId -> Seq(Bill)]
<1>1. [by |-> c, why |-> why] \in Bill
  BY DEF Bill
<1> QED
  <2>1. bills \in [ChanId -> Seq(Bill)]
    BY DEF OwnTypeOK
  <2>2. Append(bills[ch], [by |-> c, why |-> why]) \in Seq(Bill)
    BY <1>1, <2>1
  <2>3. bills' = [bills EXCEPT ![ch] = Append(bills[ch], [by |-> c, why |-> why])]
    BY DEF SendBill
  <2> QED
    BY <2>1, <2>2, <2>3

\* handleNetCallMsg sends a bill or none.
LEMMA NetCallTyped ==
  ASSUME OwnTypeOK, NEW c \in Clients, NEW why \in Reasons, handleNetCallMsg(c, why)
  PROVE  bills' \in [ChanId -> Seq(Bill)]
<1>1. created[c] \in ChanId
  BY DEF OwnTypeOK
<1> QED
  BY <1>1, BillTyped DEF handleNetCallMsg, OwnTypeOK

\* Leaving empties the client's own room and no other.
LEMMA leaveTyped ==
  ASSUME OwnTypeOK, NEW c \in Clients, leaveChannel(c)
  PROVE  /\ rtc' \in [Clients -> Room] /\ left' \in [Clients -> BOOLEAN]
         /\ \A d \in Clients : rtc'[d] = rtc[d] \/ rtc'[d] = NoRoom
<1>1. NoRoom \in Room
  BY DEF Room
<1>2. rtc' = [rtc EXCEPT ![c] = NoRoom] /\ left' \in [Clients -> BOOLEAN]
  BY DEF leaveChannel, OwnTypeOK
<1> QED
  BY <1>1, <1>2 DEF OwnTypeOK

\* Joining puts the client in the room asked for, and no other client.
LEMMA joinTyped ==
  ASSUME OwnTypeOK, NEW c \in Clients, NEW ch \in ChanId, NEW by \in {"name", "id"},
         joinChannel(c, <<ch, by>>)
  PROVE  /\ rtc' \in [Clients -> Room] /\ UNCHANGED left
         /\ \A d \in Clients : rtc'[d] # rtc[d] => d = c /\ rtc'[d] = <<ch, by>> /\ ch # NoChan
<1>1. ch # NoChan => <<ch, by>> \in Room
  BY DEF Room, ChanId
<1>2. \/ UNCHANGED rtc
      \/ ch # NoChan /\ rtc' = [rtc EXCEPT ![c] = <<ch, by>>]
  BY DEF joinChannel
<1> QED
  BY <1>1, <1>2 DEF OwnTypeOK, joinChannel

\* A token request stores a placeholder.
LEMMA requestTyped ==
  ASSUME OwnTypeOK, NEW c \in Clients, requestTokenValue(c)
  PROVE  token' \in [Clients -> {"", "xyz", "token"}] /\ query' \in [Clients -> BOOLEAN]
BY DEF requestTokenValue, OwnTypeOK

\* The invariant holds at the start: there is no channel and no message.
LEMMA InitInv == Init => Inv
<1> SUFFICES ASSUME Init
             PROVE  Inv
  OBVIOUS
<1>1. <<>> \in Seq(Message) /\ <<>> \in Seq(Event) /\ <<>> \in Seq(Bill)
  OBVIOUS
<1>2. SvcTypeOK
  <2>1. faults \in 0..MaxFaults
    <3>1. faults = 0
      BY DEF Init, SvcInit
    <3>2. MaxFaults \in Nat
      BY SignalingAssumption
    <3> QED
      BY <3>1, <3>2
  <2>2. members \in [Chan -> SUBSET Clients]
    BY DEF Init, SvcInit
  <2> QED
    BY <1>1, <2>1, <2>2 DEF Init, SvcInit, SvcTypeOK
<1>3. OwnTypeOK
  <2>1. NoChan \in ChanId /\ Free \in Wait /\ NoRoom \in Room /\ "idle" \in Statuses
    BY DEF ChanId, Free, Wait, Room, Statuses
  <2> QED
    BY <1>1, <2>1 DEF Init, OwnTypeOK
<1>4. InOrder /\ MessagesFounded
  <2>1. InOrder
    BY DEF Init, SvcInit, InOrder
  <2>2. \A c \in Clients : inbox[c] = <<>>
    BY DEF Init, SvcInit
  <2> QED
    BY <2>1, <2>2 DEF MessagesFounded
<1>5. \A c \in Clients : Backed(c)
  BY DEF Init, Backed, RoomBacked, NoRoom, Free
<1> QED
  BY <1>2, <1>3, <1>4, <1>5 DEF Inv, TypeOK

-----------------------------------------------------------------------------
(* The operations, on the working thread.                                  *)

\* A step that leaves the service alone.
LEMMA InboxFacts ==
  ASSUME Inv
  PROVE  /\ SvcTypeOK /\ OwnTypeOK /\ InOrder
         /\ inbox \in Inboxes /\ Among(inbox)
BY DEF Inv, TypeOK, SvcTypeOK, Inboxes, Among

\* A call forgets the room name and asks for a channel.
LEMMA callKeeps ==
  ASSUME Inv, NEW c \in Clients, NEW p \in Clients, call(c, p)
  PROVE  Inv'
<1>1. Faithful(inbox)
  BY InboxFacts, CreateFaithful DEF call
<1>2. events' \in [Clients -> Seq(Event)]
  BY InboxFacts, TellTyped DEF call, EventKinds
<1>3. OwnTypeOK'
  BY <1>2, InboxFacts DEF call, OwnTypeOK, tokenVars, rtcVars, Statuses, ChanId
<1>4. \A d \in Clients : Backed(d)'
  <2> TAKE d \in Clients
  <2>1. /\ name'[d] = name[d] \/ name'[d] = NoChan
        /\ waiting'[d] = waiting[d] /\ rtc'[d] = rtc[d]
        /\ status'[d] = status[d] \/ status'[d] # "inCall"
    BY InboxFacts DEF call, OwnTypeOK, tokenVars, rtcVars
  <2> QED
    BY <1>1, <2>1, InboxFacts, BackedKept
<1> QED
  BY <1>1, <1>3, <1>4, InboxFacts, StepKeepsInv

\* accept() only asks.
LEMMA acceptKeeps ==
  ASSUME Inv, NEW c \in Clients, accept(c)
  PROVE  Inv'
<1>1. Faithful(inbox)
  BY InboxFacts, AcceptFaithful DEF accept, OwnTypeOK
<1>2. OwnTypeOK'
  BY InboxFacts DEF accept, OwnTypeOK, callVars, chanVars, peerVars, tokenVars, rtcVars
<1>3. \A d \in Clients : Backed(d)'
  BY <1>1, InboxFacts, BackedKept DEF accept, callVars, peerVars, tokenVars, rtcVars
<1> QED
  BY <1>1, <1>2, <1>3, InboxFacts, StepKeepsInv

\* reject() forgets the invitation.
LEMMA rejectKeeps ==
  ASSUME Inv, NEW c \in Clients, reject(c)
  PROVE  Inv'
<1>1. Faithful(inbox)
  BY InboxFacts, RejectFaithful DEF reject, OwnTypeOK
<1>2. bills' \in [ChanId -> Seq(Bill)]
  BY InboxFacts, NetCallTyped DEF reject, Reasons
<1>3. OwnTypeOK'
  BY <1>2, InboxFacts DEF reject, OwnTypeOK, callVars, peerVars, tokenVars, rtcVars, ChanId
<1>4. \A d \in Clients : Backed(d)'
  BY <1>1, InboxFacts, BackedKept DEF reject, callVars, peerVars, tokenVars, rtcVars
<1> QED
  BY <1>1, <1>3, <1>4, InboxFacts, StepKeepsInv

\* hangup() leaves the room, takes back the invitation and closes the channel.
LEMMA hangupKeeps ==
  ASSUME Inv, NEW c \in Clients, hangup(c)
  PROVE  Inv'
<1>1. Faithful(inbox)
  <2>1. CASE UNCHANGED svcVars
    BY <2>1, InboxFacts, UnchangedFaithful
  <2>2. CASE CancelAndClose(inbox, c, status[c] = "calling" /\ master[c], inviting[c],
                            IF master[c] THEN inviting[c] ELSE invited[c])
    <3>1. /\ (status[c] = "calling" /\ master[c]) \in BOOLEAN
          /\ inviting[c] \in ChanId
          /\ (IF master[c] THEN inviting[c] ELSE invited[c]) \in ChanId
      BY InboxFacts DEF OwnTypeOK
    <3> QED
      BY <2>2, <3>1, InboxFacts, CancelAndCloseFaithful
  <2> QED
    BY <2>1, <2>2 DEF hangup
<1>2. bills' \in [ChanId -> Seq(Bill)]
  <2>1. UNCHANGED bills \/ handleNetCallMsg(c, "Canceled")
    BY DEF hangup
  <2> QED
    BY <2>1, InboxFacts, NetCallTyped DEF Reasons, OwnTypeOK
<1>3. /\ rtc' \in [Clients -> Room] /\ left' \in [Clients -> BOOLEAN]
      /\ \A d \in Clients : rtc'[d] = rtc[d] \/ rtc'[d] = NoRoom
  BY InboxFacts, leaveTyped DEF hangup
<1>4. OwnTypeOK'
  BY <1>2, <1>3, InboxFacts DEF hangup, OwnTypeOK, chanVars, peerVars, tokenVars
<1>5. \A d \in Clients : Backed(d)'
  BY <1>1, <1>3, InboxFacts, BackedKept DEF hangup, peerVars, tokenVars
<1> QED
  BY <1>1, <1>4, <1>5, InboxFacts, StepKeepsInv

\* cancel() does so for the caller.
LEMMA cancelKeeps ==
  ASSUME Inv, NEW c \in Clients, cancel(c)
  PROVE  Inv'
<1>1. Faithful(inbox)
  BY InboxFacts, CancelAndCloseFaithful DEF cancel, OwnTypeOK
<1>2. /\ rtc' \in [Clients -> Room] /\ left' \in [Clients -> BOOLEAN]
      /\ \A d \in Clients : rtc'[d] = rtc[d] \/ rtc'[d] = NoRoom
  BY InboxFacts, leaveTyped DEF cancel
<1>3. OwnTypeOK'
  BY <1>2, InboxFacts DEF cancel, OwnTypeOK, chanVars, peerVars, tokenVars
<1>4. \A d \in Clients : Backed(d)'
  BY <1>1, <1>2, InboxFacts, BackedKept DEF cancel, peerVars, tokenVars
<1> QED
  BY <1>1, <1>3, <1>4, InboxFacts, StepKeepsInv

\* leave() leaves room and channel.
LEMMA leaveKeeps ==
  ASSUME Inv, NEW c \in Clients, leave(c)
  PROVE  Inv'
<1>1. Faithful(inbox)
  BY InboxFacts, UnchangedFaithful, LeaveFaithful DEF leave, OwnTypeOK
<1>2. /\ rtc' \in [Clients -> Room] /\ left' \in [Clients -> BOOLEAN]
      /\ \A d \in Clients : rtc'[d] = rtc[d] \/ rtc'[d] = NoRoom
  BY InboxFacts, leaveTyped DEF leave
<1>3. OwnTypeOK'
  BY <1>2, InboxFacts DEF leave, OwnTypeOK, callVars, chanVars, peerVars, tokenVars
<1>4. \A d \in Clients : Backed(d)'
  BY <1>1, <1>2, InboxFacts, BackedKept DEF leave, callVars, peerVars, tokenVars
<1> QED
  BY <1>1, <1>3, <1>4, InboxFacts, StepKeepsInv

\* The task of the waiting timer.
LEMMA CallingTimeoutKeeps ==
  ASSUME Inv, NEW c \in Clients, CallingTimeout(c)
  PROVE  Inv'
<1>1. Faithful(inbox)
  BY InboxFacts, UnchangedFaithful DEF CallingTimeout
<1>2. events' \in [Clients -> Seq(Event)] /\ bills' \in [ChanId -> Seq(Bill)]
  <2>1. \/ Tell(c, "onCallingTimeOut", NoClient) /\ handleNetCallMsg(c, "Timeout")
        \/ UNCHANGED <<events, bills>>
    BY DEF CallingTimeout
  <2>2. /\ "onCallingTimeOut" \in EventKinds /\ "Timeout" \in Reasons
        /\ NoClient \in Clients \cup {NoClient}
    BY DEF EventKinds, Reasons
  <2>3. CASE Tell(c, "onCallingTimeOut", NoClient) /\ handleNetCallMsg(c, "Timeout")
    BY <2>2, <2>3, InboxFacts, TellTyped, NetCallTyped
  <2>4. CASE UNCHANGED <<events, bills>>
    BY <2>4, InboxFacts DEF OwnTypeOK
  <2> QED
    BY <2>1, <2>3, <2>4
<1>3. OwnTypeOK'
  BY <1>2, InboxFacts DEF CallingTimeout, OwnTypeOK, chanVars, peerVars, tokenVars, rtcVars
<1>4. \A d \in Clients : Backed(d)'
  BY <1>1, InboxFacts, BackedKept DEF CallingTimeout, peerVars, tokenVars, rtcVars
<1> QED
  BY <1>1, <1>3, <1>4, InboxFacts, StepKeepsInv

-----------------------------------------------------------------------------
(* Answers of the service, on the SDK thread.                              *)

\* The channel the caller joins is the one it was told it created.
LEMMA signalingCreateCbKeeps ==
  ASSUME Inv, NEW c \in Clients, signalingCreateCb(c)
  PROVE  Inv'
<1>1. Gets(c, "createCb")
  BY DEF signalingCreateCb
<1>2. Faithful(Rest(c))
  <2>1. CASE Silent(Rest(c))
    BY <1>1, <2>1, GotFacts, InboxFacts, SilentFaithful
  <2>2. CASE Got(c).ok /\ SignalingJoin(Rest(c), c, Got(c).ch)
    <3>1. creator[Got(c).ch] = c
      BY <1>1, <2>2, GotFacts DEF Founded, Caller
    <3> QED
      BY <1>1, <2>2, <3>1, GotFacts, InboxFacts, JoinFaithful
  <2> QED
    BY <2>1, <2>2 DEF signalingCreateCb
<1>3. OwnTypeOK'
  BY <1>1, GotFacts, InboxFacts
  DEF signalingCreateCb, OwnTypeOK, callVars, peerVars, tokenVars, rtcVars
<1>4. \A d \in Clients : Backed(d)'
  BY <1>1, <1>2, GotFacts, BackedKept DEF signalingCreateCb, callVars, peerVars, tokenVars, rtcVars
<1> QED
  BY <1>1, <1>2, <1>3, <1>4, GotFacts, StepKeepsInv

\* channelName_ is made from the channel the caller created.
LEMMA signalingJoinCbKeeps ==
  ASSUME Inv, NEW c \in Clients, signalingJoinCb(c)
  PROVE  Inv'
<1>1. Gets(c, "joinCb")
  BY DEF signalingJoinCb
<1>2. CASE ~Got(c).ok
  <2>1. Faithful(Rest(c))
    BY <1>1, <1>2, GotFacts, InboxFacts, CloseFaithful DEF signalingJoinCb, OwnTypeOK
  <2>2. OwnTypeOK'
    BY <1>2, InboxFacts DEF signalingJoinCb, OwnTypeOK, rtcVars
  <2>3. \A d \in Clients : Backed(d)'
    BY <1>1, <1>2, <2>1, GotFacts, BackedKept DEF signalingJoinCb, rtcVars
  <2> QED
    BY <1>1, <2>1, <2>2, <2>3, GotFacts, StepKeepsInv
<1>3. CASE Got(c).ok
  <2>1. Faithful(Rest(c))
    BY <1>1, <1>3, GotFacts, InboxFacts, InviteFaithful DEF signalingJoinCb, OwnTypeOK
  <2>2. token' \in [Clients -> {"", "xyz", "token"}] /\ query' \in [Clients -> BOOLEAN]
    BY <1>3, InboxFacts, requestTyped DEF signalingJoinCb
  <2>3. OwnTypeOK'
    BY <1>1, <1>3, <2>2, GotFacts, InboxFacts
    DEF signalingJoinCb, OwnTypeOK, rtcVars, Statuses
  <2>4. ASSUME NEW d \in Clients, d # c
        PROVE  Backed(d)'
    BY <1>1, <1>3, <2>1, <2>4, GotFacts, InboxFacts, BackedKept
    DEF signalingJoinCb, rtcVars, OwnTypeOK
  <2>5. Backed(c)'
    <3>1. PICK ch \in ChanId : ch = Got(c).ch
      BY <1>1, GotFacts
    <3>2. Party(c, ch)'
      BY <1>1, <1>3, <2>1, <3>1, GotFacts, FaithfulKeeps DEF Founded, Party, Caller
    <3>3. name'[c] = ch /\ status'[c] = "calling" /\ UNCHANGED <<waiting, rtc>>
      BY <1>3, <3>1, InboxFacts DEF signalingJoinCb, OwnTypeOK, rtcVars
    <3> QED
      BY <1>1, <2>1, <3>2, <3>3, GotFacts, RoomKept, LoopKept DEF Backed
  <2> QED
    BY <1>1, <2>1, <2>3, <2>4, <2>5, GotFacts, StepKeepsInv
<1> QED
  BY <1>2, <1>3

\* The answer to an invitation brings back "calling", never "inCall".
LEMMA signalingInviteCbKeeps ==
  ASSUME Inv, NEW c \in Clients, signalingInviteCb(c)
  PROVE  Inv'
<1>1. Gets(c, "inviteCb") /\ Silent(Rest(c))
  BY DEF signalingInviteCb
<1>2. Faithful(Rest(c))
  BY <1>1, GotFacts, InboxFacts, SilentFaithful
<1>3. OwnTypeOK'
  BY InboxFacts DEF signalingInviteCb, OwnTypeOK, Statuses, chanVars, peerVars, tokenVars, rtcVars
<1>4. \A d \in Clients : Backed(d)'
  BY <1>1, <1>2, GotFacts, InboxFacts, BackedKept
  DEF signalingInviteCb, OwnTypeOK, chanVars, peerVars, tokenVars, rtcVars
<1> QED
  BY <1>1, <1>2, <1>3, <1>4, GotFacts, StepKeepsInv

\* A failed accept changes nothing here.
LEMMA AcceptFailsKeeps ==
  ASSUME Inv, NEW c \in Clients, AcceptFails(c)
  PROVE  Inv'
<1>1. Gets(c, "acceptCb") /\ Silent(Rest(c))
  BY DEF AcceptFails
<1>2. Faithful(Rest(c))
  BY <1>1, GotFacts, InboxFacts, SilentFaithful
<1>3. OwnTypeOK'
  BY InboxFacts DEF AcceptFails, OwnTypeOK, callVars, chanVars, peerVars, tokenVars, rtcVars
<1>4. \A d \in Clients : Backed(d)'
  BY <1>1, <1>2, GotFacts, InboxFacts, BackedKept
  DEF AcceptFails, OwnTypeOK, callVars, chanVars, peerVars, tokenVars, rtcVars
<1> QED
  BY <1>1, <1>2, <1>3, <1>4, GotFacts, StepKeepsInv

\* The answer to a rejection makes the client idle.
LEMMA signalingRejectCbKeeps ==
  ASSUME Inv, NEW c \in Clients, signalingRejectCb(c)
  PROVE  Inv'
<1>1. Gets(c, "rejectCb") /\ Silent(Rest(c))
  BY DEF signalingRejectCb
<1>2. Faithful(Rest(c))
  BY <1>1, GotFacts, InboxFacts, SilentFaithful
<1>3. OwnTypeOK'
  BY InboxFacts DEF signalingRejectCb, OwnTypeOK, Statuses, chanVars, peerVars, tokenVars, rtcVars
<1>4. \A d \in Clients : Backed(d)'
  BY <1>1, <1>2, GotFacts, InboxFacts, BackedKept
  DEF signalingRejectCb, OwnTypeOK, chanVars, peerVars, tokenVars, rtcVars
<1> QED
  BY <1>1, <1>2, <1>3, <1>4, GotFacts, StepKeepsInv

\* So does the answer to a close, which forgets the channels.
LEMMA signalingCloseCbKeeps ==
  ASSUME Inv, NEW c \in Clients, signalingCloseCb(c)
  PROVE  Inv'
<1>1. Gets(c, "closeCb") /\ Silent(Rest(c))
  BY DEF signalingCloseCb
<1>2. Faithful(Rest(c))
  BY <1>1, GotFacts, InboxFacts, SilentFaithful
<1>3. OwnTypeOK'
  BY InboxFacts DEF signalingCloseCb, OwnTypeOK, Statuses, ChanId, peerVars, tokenVars, rtcVars
<1>4. \A d \in Clients : Backed(d)'
  BY <1>1, <1>2, GotFacts, InboxFacts, BackedKept
  DEF signalingCloseCb, OwnTypeOK, peerVars, tokenVars, rtcVars
<1> QED
  BY <1>1, <1>2, <1>3, <1>4, GotFacts, StepKeepsInv

\* The answer to a leave forgets the channel joined.
LEMMA signalingLeaveCbKeeps ==
  ASSUME Inv, NEW c \in Clients, signalingLeaveCb(c)
  PROVE  Inv'
<1>1. Gets(c, "leaveCb") /\ Silent(Rest(c))
  BY DEF signalingLeaveCb
<1>2. Faithful(Rest(c))
  BY <1>1, GotFacts, InboxFacts, SilentFaithful
<1>3. OwnTypeOK'
  BY InboxFacts DEF signalingLeaveCb, OwnTypeOK, Statuses, ChanId, peerVars, tokenVars, rtcVars
<1>4. \A d \in Clients : Backed(d)'
  BY <1>1, <1>2, GotFacts, InboxFacts, BackedKept
  DEF signalingLeaveCb, OwnTypeOK, peerVars, tokenVars, rtcVars
<1> QED
  BY <1>1, <1>2, <1>3, <1>4, GotFacts, StepKeepsInv

\* The answer that makes a call of the callee: it was invited, and accepted.
LEMMA AcceptSucceedsKeeps ==
  ASSUME Inv, NEW c \in Clients, AcceptSucceeds(c)
  PROVE  Inv'
<1>1. Gets(c, "acceptCb") /\ Got(c).ok /\ Silent(Rest(c))
  BY DEF AcceptSucceeds
<1>2. Faithful(Rest(c))
  BY <1>1, GotFacts, InboxFacts, SilentFaithful
<1>3. token' \in [Clients -> {"", "xyz", "token"}] /\ query' \in [Clients -> BOOLEAN]
  BY InboxFacts, requestTyped DEF AcceptSucceeds
<1>4. waiting' \in [Clients -> Wait]
  <2>1. <<"acceptCb", Got(c).ch>> \in Wait
    BY <1>1, GotFacts DEF Wait
  <2> QED
    BY <2>1, InboxFacts DEF AcceptSucceeds, OwnTypeOK
<1>5. OwnTypeOK'
  BY <1>1, <1>3, <1>4, GotFacts, InboxFacts
  DEF AcceptSucceeds, OwnTypeOK, peerVars, rtcVars, Statuses
<1>6. ASSUME NEW d \in Clients, d # c
      PROVE  Backed(d)'
  BY <1>1, <1>2, <1>6, GotFacts, InboxFacts, BackedKept
  DEF AcceptSucceeds, OwnTypeOK, peerVars, rtcVars
<1>7. Backed(c)'
  <2>1. PICK ch \in Chan : ch = Got(c).ch
    BY <1>1, GotFacts DEF Founded, Callee
  <2>2. Party(c, ch)' /\ Answered(ch)'
    BY <1>1, <1>2, <2>1, GotFacts, FaithfulKeeps DEF Founded, Party, Callee, ChanId
  <2>3. Reached(c)'
    BY <2>2 DEF Reached
  <2>4. UNCHANGED <<name, rtc>>
    BY DEF AcceptSucceeds, peerVars, rtcVars
  <2>5. waiting'[c] = Free \/ waiting'[c] = <<"acceptCb", ch>>
    BY <1>1, <2>1, GotFacts, InboxFacts DEF AcceptSucceeds, OwnTypeOK
  <2>6. (waiting[c][1] # "free" => Party(c, waiting[c][2]) /\ Answered(waiting[c][2]))'
    BY <2>2, <2>5 DEF Free
  <2> QED
    BY <1>1, <1>2, <2>3, <2>4, <2>6, GotFacts, NameKept, RoomKept DEF Backed
<1> QED
  BY <1>1, <1>2, <1>5, <1>6, <1>7, GotFacts, StepKeepsInv

-----------------------------------------------------------------------------
(* Notifications of the service, on the SDK thread.                        *)

\* The room's name is that of the invitation, whose callee this client is.
LEMMA handleInvitedKeeps ==
  ASSUME Inv, NEW c \in Clients, handleInvited(c)
  PROVE  Inv'
<1>1. Gets(c, "Invite")
  BY DEF handleInvited
<1>2. PICK ch \in Chan : ch = Got(c).ch /\ Callee(c, ch)
  BY <1>1, GotFacts DEF Founded, Callee
<1>3. Faithful(Rest(c))
  <2>1. CASE Silent(Rest(c))
    BY <1>1, <2>1, GotFacts, InboxFacts, SilentFaithful
  <2>2. CASE SignalingReject(Rest(c), c, ch, "Busy", FALSE)
    BY <1>1, <2>2, GotFacts, InboxFacts, RejectFaithful DEF ChanId
  <2> QED
    BY <1>2, <2>1, <2>2 DEF handleInvited
<1>4. events' \in [Clients -> Seq(Event)] /\ bills' \in [ChanId -> Seq(Bill)]
  <2>1. /\ creator[ch] \in Clients \cup {NoClient}
        /\ "onInvited" \in EventKinds /\ "Busy" \in Reasons /\ ch \in ChanId
    BY InboxFacts DEF SvcTypeOK, EventKinds, Reasons, ChanId
  <2>2. \/ SendBill(ch, c, "Busy") /\ UNCHANGED events
        \/ Tell(c, "onInvited", creator[ch]) /\ UNCHANGED bills
    BY <1>2 DEF handleInvited
  <2>3. CASE SendBill(ch, c, "Busy") /\ UNCHANGED events
    BY <2>1, <2>3, InboxFacts, BillTyped DEF OwnTypeOK
  <2>4. CASE Tell(c, "onInvited", creator[ch]) /\ UNCHANGED bills
    BY <2>1, <2>4, InboxFacts, TellTyped DEF OwnTypeOK
  <2> QED
    BY <2>2, <2>3, <2>4
<1>5. /\ ver' \in [Clients -> BOOLEAN]
      /\ name' = [name EXCEPT ![c] = IF Modern(creator[ch]) THEN ch ELSE NoChan]
      /\ \/ UNCHANGED <<status, invited>>
         \/ invited' = [invited EXCEPT ![c] = ch] /\ status' = [status EXCEPT ![c] = "called"]
      /\ UNCHANGED <<master, hurry, timer, to, created, inviting, joined, tokenVars, rtcVars>>
  BY <1>2, InboxFacts DEF handleInvited, OwnTypeOK, Modern
<1>6. OwnTypeOK'
  <2>1. /\ name' \in [Clients -> ChanId]
        /\ invited' \in [Clients -> ChanId]
        /\ status' \in [Clients -> Statuses]
    BY <1>2, <1>5, InboxFacts DEF OwnTypeOK, Statuses, ChanId
  <2>2. UNCHANGED <<master, hurry, timer, to, created, inviting, joined, token, query, waiting,
                    rtc, left>>
    BY <1>5 DEF tokenVars, rtcVars
  <2> QED
    BY <1>4, <1>5, <2>1, <2>2, InboxFacts DEF OwnTypeOK
<1>7. ASSUME NEW d \in Clients, d # c
      PROVE  Backed(d)'
  BY <1>1, <1>3, <1>5, <1>7, GotFacts, InboxFacts, BackedKept DEF OwnTypeOK, tokenVars, rtcVars
<1>8. Backed(c)'
  <2>1. Party(c, ch)'
    BY <1>1, <1>2, <1>3, GotFacts, FaithfulKeeps DEF Party, Callee, ChanId
  <2>2. name'[c] = ch \/ name'[c] = NoChan
    BY <1>5, InboxFacts DEF OwnTypeOK
  <2>3. (name[c] # NoChan => Party(c, name[c]))'
    BY <2>1, <2>2
  <2>4. /\ UNCHANGED <<waiting, rtc>>
        /\ status'[c] = status[c] \/ status'[c] # "inCall"
    BY <1>5, InboxFacts DEF OwnTypeOK, tokenVars, rtcVars
  <2> QED
    BY <1>1, <1>3, <2>3, <2>4, GotFacts, RoomKept, LoopKept, StatusKept DEF Backed
<1> QED
  BY <1>1, <1>3, <1>6, <1>7, <1>8, GotFacts, StepKeepsInv

\* What the caller spins in is the answer to its own call.
LEMMA handleAcceptedKeeps ==
  ASSUME Inv, NEW c \in Clients, handleAccepted(c)
  PROVE  Inv'
<1>1. Gets(c, "Accept") /\ Silent(Rest(c))
  BY DEF handleAccepted
<1>2. PICK ch \in Chan : ch = Got(c).ch /\ Caller(c, ch) /\ Answered(ch)
  BY <1>1, GotFacts DEF Founded, Caller
<1>3. Faithful(Rest(c))
  BY <1>1, GotFacts, InboxFacts, SilentFaithful
<1>4. token' \in [Clients -> {"", "xyz", "token"}] /\ query' \in [Clients -> BOOLEAN]
  BY InboxFacts, requestTyped DEF handleAccepted
<1>5. <<"accepted", ch>> \in Wait /\ waiting' = [waiting EXCEPT ![c] = <<"accepted", ch>>]
  BY <1>2 DEF handleAccepted, Wait, ChanId
<1>6. OwnTypeOK'
  <2>1. waiting' \in [Clients -> Wait]
    BY <1>5, InboxFacts DEF OwnTypeOK
  <2>2. ver' \in [Clients -> BOOLEAN]
    BY InboxFacts DEF handleAccepted, OwnTypeOK, Modern
  <2>3. UNCHANGED <<status, master, hurry, timer, to, created, inviting, invited, joined, name,
                    rtc, left, events, bills>>
    BY DEF handleAccepted, callVars, chanVars, rtcVars
  <2> QED
    BY <1>4, <2>1, <2>2, <2>3, InboxFacts DEF OwnTypeOK
<1>7. ASSUME NEW d \in Clients, d # c
      PROVE  Backed(d)'
  BY <1>1, <1>3, <1>5, <1>7, GotFacts, InboxFacts, BackedKept
  DEF handleAccepted, OwnTypeOK, callVars, rtcVars
<1>8. Backed(c)'
  <2>1. Party(c, ch)' /\ Answered(ch)'
    BY <1>1, <1>2, <1>3, GotFacts, FaithfulKeeps DEF Party, Caller, ChanId
  <2>2. waiting'[c] = <<"accepted", ch>>
    BY <1>5, InboxFacts DEF OwnTypeOK
  <2>3. (waiting[c][1] # "free" => Party(c, waiting[c][2]) /\ Answered(waiting[c][2]))'
    BY <2>1, <2>2
  <2>4. UNCHANGED <<name, rtc, status>>
    BY DEF handleAccepted, callVars, rtcVars
  <2> QED
    BY <1>1, <1>3, <2>3, <2>4, GotFacts, NameKept, RoomKept, StatusKept DEF Backed
<1> QED
  BY <1>1, <1>3, <1>6, <1>7, <1>8, GotFacts, StepKeepsInv

\* The control message came from the other side of a call of this client.
LEMMA handleControlKeeps ==
  ASSUME Inv, NEW c \in Clients, handleControl(c)
  PROVE  Inv'
<1>1. Gets(c, "Control") /\ Silent(Rest(c))
  BY DEF handleControl
<1>2. PICK ch \in Chan : ch = Got(c).ch /\ Party(c, ch) /\ Answered(ch)
  BY <1>1, GotFacts DEF Founded, Party
<1>3. Faithful(Rest(c))
  BY <1>1, GotFacts, InboxFacts, SilentFaithful
<1>4. <<"control", ch>> \in Wait /\ waiting' = [waiting EXCEPT ![c] = <<"control", ch>>]
  BY <1>2 DEF handleControl, Wait, ChanId
<1>5. OwnTypeOK'
  <2>1. waiting' \in [Clients -> Wait]
    BY <1>4, InboxFacts DEF OwnTypeOK
  <2>2. UNCHANGED <<status, master, hurry, timer, to, created, inviting, invited, joined, ver,
                    name, token, query, rtc, left, events, bills>>
    BY DEF handleControl, callVars, chanVars, peerVars, rtcVars
  <2> QED
    BY <2>1, <2>2, InboxFacts DEF OwnTypeOK
<1>6. ASSUME NEW d \in Clients, d # c
      PROVE  Backed(d)'
  BY <1>1, <1>3, <1>4, <1>6, GotFacts, InboxFacts, BackedKept
  DEF handleControl, OwnTypeOK, callVars, peerVars, rtcVars
<1>7. Backed(c)'
  <2>1. Party(c, ch)' /\ Answered(ch)'
    BY <1>1, <1>2, <1>3, GotFacts, FaithfulKeeps DEF ChanId
  <2>2. waiting'[c] = <<"control", ch>>
    BY <1>4, InboxFacts DEF OwnTypeOK
  <2>3. (waiting[c][1] # "free" => Party(c, waiting[c][2]) /\ Answered(waiting[c][2]))'
    BY <2>1, <2>2
  <2>4. UNCHANGED <<name, rtc, status>>
    BY DEF handleControl, callVars, peerVars, rtcVars
  <2> QED
    BY <1>1, <1>3, <2>3, <2>4, GotFacts, NameKept, RoomKept, StatusKept DEF Backed
<1> QED
  BY <1>1, <1>3, <1>5, <1>6, <1>7, GotFacts, StepKeepsInv

\* A rejection or a busy answer makes the caller idle.
LEMMA handleRejectedKeeps ==
  ASSUME Inv, NEW c \in Clients, handleRejected(c)
  PROVE  Inv'
<1>1. PICK kind \in Notice : Gets(c, kind)
  BY DEF handleRejected, Notice
<1>2. Faithful(Rest(c))
  <2>1. Got(c).ch \in ChanId /\ Rest(c) \in Inboxes
    BY <1>1, GotFacts
  <2>2. Silent(Rest(c)) \/ SignalingClose(Rest(c), c, Got(c).ch)
    BY DEF handleRejected
  <2> QED
    BY <2>1, <2>2, InboxFacts, SilentFaithful, CloseFaithful
<1>3. events' \in [Clients -> Seq(Event)]
  <2>1. Tell(c, "onUserReject", NoClient) \/ Tell(c, "onUserBusy", NoClient)
    BY DEF handleRejected
  <2> QED
    BY <2>1, InboxFacts, TellTyped DEF EventKinds
<1>4. master' = master \/ master' = [master EXCEPT ![c] = FALSE]
  BY DEF handleRejected
<1>5. OwnTypeOK'
  BY <1>3, <1>4, InboxFacts
  DEF handleRejected, OwnTypeOK, chanVars, peerVars, tokenVars, rtcVars, Statuses
<1>6. \A d \in Clients : Backed(d)'
  BY <1>1, <1>2, GotFacts, InboxFacts, BackedKept
  DEF handleRejected, OwnTypeOK, peerVars, tokenVars, rtcVars
<1> QED
  BY <1>1, <1>2, <1>5, <1>6, GotFacts, StepKeepsInv

\* The control message goes to who was invited to the channel.
LEMMA handleJoinKeeps ==
  ASSUME Inv, NEW c \in Clients, handleJoin(c)
  PROVE  Inv'
<1>1. Gets(c, "Join")
  BY DEF handleJoin
<1>2. PICK ch \in Chan : ch = Got(c).ch
  BY <1>1, GotFacts DEF Notice
<1>3. Faithful(Rest(c))
  <2>1. Silent(Rest(c)) \/ SignalingControl(Rest(c), ch, callee[ch])
    BY <1>2 DEF handleJoin
  <2> QED
    BY <1>1, <1>2, <2>1, GotFacts, InboxFacts, SilentFaithful, ControlFaithful DEF Founded
<1>4. events' \in [Clients -> Seq(Event)]
  <2>1. callee[ch] \in Clients \cup {NoClient} /\ "onUserEnter" \in EventKinds
    BY InboxFacts DEF SvcTypeOK, EventKinds
  <2>2. Tell(c, "onUserEnter", callee[ch])
    BY <1>2 DEF handleJoin
  <2> QED
    BY <2>1, <2>2, InboxFacts, TellTyped
<1>5. OwnTypeOK'
  BY <1>4, InboxFacts DEF handleJoin, OwnTypeOK, callVars, chanVars, peerVars, tokenVars, rtcVars
<1>6. \A d \in Clients : Backed(d)'
  BY <1>1, <1>3, GotFacts, BackedKept DEF handleJoin, callVars, peerVars, tokenVars, rtcVars
<1> QED
  BY <1>1, <1>3, <1>5, <1>6, GotFacts, StepKeepsInv

\* That a member left is passed on.
LEMMA handleLeaveKeeps ==
  ASSUME Inv, NEW c \in Clients, handleLeave(c)
  PROVE  Inv'
<1>1. Gets(c, "Leave") /\ Silent(Rest(c))
  BY DEF handleLeave
<1>2. Faithful(Rest(c))
  BY <1>1, GotFacts, InboxFacts, SilentFaithful
<1>3. events' \in [Clients -> Seq(Event)]
  BY InboxFacts, TellTyped DEF handleLeave, EventKinds
<1>4. OwnTypeOK'
  BY <1>3, InboxFacts DEF handleLeave, OwnTypeOK, callVars, chanVars, peerVars, tokenVars, rtcVars
<1>5. \A d \in Clients : Backed(d)'
  BY <1>1, <1>2, GotFacts, BackedKept DEF handleLeave, callVars, peerVars, tokenVars, rtcVars
<1> QED
  BY <1>1, <1>2, <1>4, <1>5, GotFacts, StepKeepsInv

\* The four notifications that end a call.
LEMMA EndsKeeps ==
  ASSUME Inv, NEW c \in Clients, NEW kind, NEW event \in EventKinds, Ends(c, kind, event)
  PROVE  Inv'
<1>1. Gets(c, kind) /\ Silent(Rest(c))
  BY DEF Ends
<1>2. Faithful(Rest(c))
  BY <1>1, GotFacts, InboxFacts, SilentFaithful
<1>3. events' \in [Clients -> Seq(Event)]
  BY InboxFacts, TellTyped DEF Ends
<1>4. OwnTypeOK'
  BY <1>3, InboxFacts DEF Ends, OwnTypeOK, chanVars, peerVars, tokenVars, rtcVars, Statuses
<1>5. \A d \in Clients : Backed(d)'
  BY <1>1, <1>2, GotFacts, InboxFacts, BackedKept
  DEF Ends, OwnTypeOK, peerVars, tokenVars, rtcVars
<1> QED
  BY <1>1, <1>2, <1>4, <1>5, GotFacts, StepKeepsInv

\* The caller's loop ends: the room is its call's, which was answered.
LEMMA AcceptedJoinsKeeps ==
  ASSUME Inv, NEW c \in Clients, AcceptedJoins(c)
  PROVE  Inv'
<1>1. waiting[c][1] = "accepted" /\ waiting[c] \in Wait /\ UNCHANGED svcVars
  BY InboxFacts DEF AcceptedJoins, OwnTypeOK
<1>2. PICK ch \in Chan : ch = waiting[c][2] /\ Party(c, ch) /\ Answered(ch)
  BY <1>1 DEF Inv, Backed, Party
<1>3. Faithful(inbox) /\ Among(inbox)
  BY <1>1, InboxFacts, UnchangedFaithful DEF Among
<1>4. PICK x \in ChanId, by \in {"name", "id"} :
        /\ joinChannel(c, <<x, by>>) /\ (x # NoChan => Party(c, x))
        /\ by = "id" => Answered(x)
  <2>1. \/ joinChannel(c, <<name[c], "name">>)
        \/ joinChannel(c, <<ch, "id">>)
    BY <1>2 DEF AcceptedJoins
  <2>2. name[c] \in ChanId /\ (name[c] # NoChan => Party(c, name[c])) /\ ch \in ChanId
    BY <1>2, InboxFacts DEF Inv, Backed, OwnTypeOK, ChanId
  <2> QED
    BY <1>2, <2>1, <2>2
<1>5. /\ rtc' \in [Clients -> Room] /\ UNCHANGED left
      /\ \A d \in Clients : rtc'[d] # rtc[d] => d = c /\ rtc'[d] = <<x, by>> /\ x # NoChan
  BY ZenonT(40), <1>4, InboxFacts, joinTyped
<1>6. events' \in [Clients -> Seq(Event)]
  BY InboxFacts, TellTyped DEF AcceptedJoins, EventKinds
<1>7. /\ waiting' = [waiting EXCEPT ![c] = Free] /\ Free \in Wait
      /\ status' = [status EXCEPT ![c] = "inCall"] /\ "inCall" \in Statuses
  BY DEF AcceptedJoins, Free, Wait, ChanId, Statuses
<1>8. OwnTypeOK'
  <2>1. waiting' \in [Clients -> Wait] /\ status' \in [Clients -> Statuses]
    BY <1>7, InboxFacts DEF OwnTypeOK
  <2>2. UNCHANGED <<master, hurry, timer, to, created, inviting, invited, joined, ver, name,
                    token, query, bills>>
    BY DEF AcceptedJoins, chanVars, peerVars
  <2> QED
    BY <1>5, <1>6, <2>1, <2>2, InboxFacts DEF OwnTypeOK
<1>9. ASSUME NEW d \in Clients, d # c
      PROVE  Backed(d)'
  <2>1. /\ rtc'[d] = rtc[d] /\ waiting'[d] = waiting[d] /\ status'[d] = status[d]
        /\ name'[d] = name[d]
    BY <1>5, <1>7, <1>9, InboxFacts DEF OwnTypeOK, AcceptedJoins, peerVars
  <2> QED
    BY <1>3, <2>1, BackedKept
<1>10. Backed(c)'
  <2>1. Party(c, ch)' /\ Answered(ch)'
    BY <1>2, <1>3, FaithfulKeeps DEF ChanId
  <2>2. Reached(c)'
    BY <2>1 DEF Reached
  <2>3. RoomBacked(c)'
    <3>1. CASE rtc'[c] = rtc[c]
      BY <1>3, <3>1, RoomKept
    <3>2. CASE rtc'[c] # rtc[c]
      <4>1. rtc'[c] = <<x, by>> /\ x \in Chan /\ x # NoChan
        BY <1>5, <3>2 DEF ChanId
      <4>2. Party(c, x)' /\ (by = "id" => Answered(x)')
        BY <1>3, <1>4, <4>1, FaithfulKeeps DEF ChanId
      <4> QED
        BY <2>2, <4>1, <4>2 DEF RoomBacked
    <3> QED
      BY <3>1, <3>2
  <2>4. waiting'[c] = Free /\ name'[c] = name[c]
    BY <1>7, InboxFacts DEF OwnTypeOK, AcceptedJoins, peerVars
  <2> QED
    BY <1>3, <2>2, <2>3, <2>4, NameKept, LoopKept DEF Backed
<1> QED
  BY <1>3, <1>8, <1>9, <1>10, StepKeepsInv

\* The callee's loops end: it joins by the name or the id it was given.
LEMMA CalleeJoinsKeeps ==
  ASSUME Inv, NEW c \in Clients, AcceptJoins(c) \/ ControlJoins(c)
  PROVE  Inv'
<1>1. waiting[c][1] \in {"acceptCb", "control"} /\ waiting[c] \in Wait /\ UNCHANGED svcVars
  BY InboxFacts DEF AcceptJoins, ControlJoins, OwnTypeOK
<1>2. Party(c, waiting[c][2]) /\ Answered(waiting[c][2])
  BY <1>1 DEF Inv, Backed
<1>3. Faithful(inbox) /\ Among(inbox)
  BY <1>1, InboxFacts, UnchangedFaithful DEF Among
<1>4. PICK x \in ChanId, by \in {"name", "id"} :
        /\ joinChannel(c, <<x, by>>) /\ (x # NoChan => Party(c, x))
        /\ by = "id" => Answered(x)
  <2>1. \/ joinChannel(c, <<name[c], "name">>)
        \/ joinChannel(c, <<waiting[c][2], "id">>)
    BY DEF AcceptJoins, ControlJoins
  <2>2. /\ name[c] \in ChanId /\ (name[c] # NoChan => Party(c, name[c]))
        /\ waiting[c][2] \in ChanId
    BY <1>2, InboxFacts DEF Inv, Backed, OwnTypeOK, Party, ChanId
  <2> QED
    BY <1>2, <2>1, <2>2
<1>5. /\ rtc' \in [Clients -> Room] /\ UNCHANGED left
      /\ \A d \in Clients : rtc'[d] # rtc[d] => d = c /\ rtc'[d] = <<x, by>> /\ x # NoChan
  BY <1>4, InboxFacts, joinTyped
<1>6. /\ waiting' = [waiting EXCEPT ![c] = Free] /\ Free \in Wait
      /\ UNCHANGED <<status, master, hurry, timer, to, created, inviting, invited, joined, ver,
                     name, token, query, events, bills>>
  BY DEF AcceptJoins, ControlJoins, Free, Wait, ChanId, callVars, chanVars, peerVars
<1>7. OwnTypeOK'
  <2>1. waiting' \in [Clients -> Wait]
    BY <1>6, InboxFacts DEF OwnTypeOK
  <2> QED
    BY <1>5, <1>6, <2>1, InboxFacts DEF OwnTypeOK
<1>8. ASSUME NEW d \in Clients
      PROVE  Backed(d)'
  <2>1. /\ waiting'[d] = waiting[d] \/ waiting'[d] = Free
        /\ status'[d] = status[d] /\ name'[d] = name[d]
    BY <1>6, InboxFacts DEF OwnTypeOK
  <2>2. CASE rtc'[d] = rtc[d]
    BY <1>3, <2>1, <2>2, BackedKept
  <2>3. CASE rtc'[d] # rtc[d]
    <3>1. d = c /\ rtc'[c] = <<x, by>> /\ x \in Chan /\ x # NoChan
      BY <1>5, <2>3 DEF ChanId
    <3>2. RoomBacked(c)'
      <4>1. Party(c, x)' /\ (by = "id" => Answered(x)')
        BY <1>3, <1>4, <3>1, FaithfulKeeps DEF ChanId
      <4>2. Reached(c)'
        BY <1>2, <1>3, FaithfulKeeps DEF Reached, Party
      <4> QED
        BY <3>1, <4>1, <4>2 DEF RoomBacked
    <3> QED
      BY <1>3, <2>1, <3>1, <3>2, NameKept, LoopKept, StatusKept DEF Backed
  <2> QED
    BY <2>2, <2>3
<1> QED
  BY <1>3, <1>7, <1>8, StepKeepsInv

-----------------------------------------------------------------------------
(* The other threads, and the application.                                 *)

\* The token answer touches the token alone.
LEMMA GetTokenKeeps ==
  ASSUME Inv, NEW c \in Clients, GetToken(c)
  PROVE  Inv'
<1>1. Faithful(inbox) /\ Among(inbox)
  BY InboxFacts, UnchangedFaithful DEF Among, GetToken
<1>2. OwnTypeOK'
  BY InboxFacts DEF GetToken, OwnTypeOK, callVars, chanVars, peerVars, rtcVars
<1>3. \A d \in Clients : Backed(d)'
  BY <1>1, BackedKept DEF GetToken, callVars, peerVars, rtcVars
<1> QED
  BY <1>1, <1>2, <1>3, StepKeepsInv

\* The engine's report is passed on.
LEMMA onUserLeftKeeps ==
  ASSUME Inv, NEW c \in Clients, onUserLeft(c)
  PROVE  Inv'
<1>1. Faithful(inbox) /\ Among(inbox)
  BY InboxFacts, UnchangedFaithful DEF Among, onUserLeft
<1>2. events' \in [Clients -> Seq(Event)]
  BY InboxFacts, TellTyped DEF onUserLeft, EventKinds
<1>3. OwnTypeOK'
  BY <1>2, InboxFacts DEF onUserLeft, OwnTypeOK, callVars, chanVars, peerVars, tokenVars
<1>4. \A d \in Clients : Backed(d)'
  BY <1>1, BackedKept DEF onUserLeft, callVars, peerVars, tokenVars
<1> QED
  BY <1>1, <1>3, <1>4, StepKeepsInv

\* Another device of the account answers: only the service moves.
LEMMA OtherDeviceKeeps ==
  ASSUME Inv, NEW c \in Clients, OtherDevice(c)
  PROVE  Inv'
<1>1. PICK ch \in Chan, accepts \in BOOLEAN : OtherDeviceAnswers(c, ch, accepts)
  BY DEF OtherDevice
<1>2. Faithful(inbox) /\ Among(inbox)
  BY <1>1, InboxFacts, OtherDeviceFaithful DEF Among
<1>3. OwnTypeOK'
  BY InboxFacts DEF OtherDevice, OwnTypeOK, callVars, chanVars, peerVars, tokenVars, rtcVars
<1>4. \A d \in Clients : Backed(d)'
  BY <1>2, BackedKept DEF OtherDevice, callVars, peerVars, tokenVars, rtcVars
<1> QED
  BY <1>2, <1>3, <1>4, StepKeepsInv

\* The application takes an event.
LEMMA TakesEventKeeps ==
  ASSUME Inv, NEW c \in Clients, TakesEvent(c)
  PROVE  Inv'
<1>1. Faithful(inbox) /\ Among(inbox)
  BY InboxFacts, UnchangedFaithful DEF Among, TakesEvent
<1>2. events' \in [Clients -> Seq(Event)]
  <2>1. events[c] \in Seq(Event) /\ events[c] # <<>>
    BY InboxFacts DEF TakesEvent, OwnTypeOK
  <2>2. Tail(events[c]) \in Seq(Event)
    BY <2>1
  <2> QED
    BY <2>2, InboxFacts DEF TakesEvent, OwnTypeOK
<1>3. OwnTypeOK'
  BY <1>2, InboxFacts
  DEF TakesEvent, OwnTypeOK, callVars, chanVars, peerVars, tokenVars, rtcVars
<1>4. \A d \in Clients : Backed(d)'
  BY <1>1, BackedKept DEF TakesEvent, callVars, peerVars, tokenVars, rtcVars
<1> QED
  BY <1>1, <1>3, <1>4, StepKeepsInv

\* Nothing at all happens in the component.
LEMMA StutterKeeps ==
  ASSUME Inv, UNCHANGED avVars
  PROVE  Inv'
<1>1. Faithful(inbox) /\ Among(inbox)
  BY InboxFacts, UnchangedFaithful DEF Among, avVars
<1>2. OwnTypeOK'
  BY InboxFacts DEF avVars, OwnTypeOK, callVars, chanVars, peerVars, tokenVars, rtcVars
<1>3. \A d \in Clients : Backed(d)'
  BY <1>1, BackedKept DEF avVars, callVars, peerVars, tokenVars, rtcVars
<1> QED
  BY <1>1, <1>2, <1>3, StepKeepsInv

-----------------------------------------------------------------------------
(* The theorems.                                                           *)

\* No step of the component, whoever asks for it, breaks the invariant.
LEMMA NextKeepsInv == Inv /\ [Next]_avVars => Inv'
<1> SUFFICES ASSUME Inv, [Next]_avVars
             PROVE  Inv'
  OBVIOUS
<1>1. CASE UNCHANGED avVars
  BY <1>1, StutterKeeps
<1>2. CASE Next
  <2>1. PICK c \in Clients : \/ Operation(c) \/ SdkStep(c) \/ AcceptStep(c) \/ OwnStep(c)
                             \/ OtherDevice(c) \/ TakesEvent(c)
    BY <1>2 DEF Next
  <2>2. CASE Operation(c)
    BY <2>2, callKeeps, acceptKeeps, rejectKeeps, hangupKeeps, cancelKeeps, leaveKeeps
    DEF Operation
  <2>3. CASE SdkStep(c)
    <3>1. CASE \E kind \in Notice, event \in EventKinds : Ends(c, kind, event)
      BY <3>1, EndsKeeps
    <3>2. CASE ~\E kind \in Notice, event \in EventKinds : Ends(c, kind, event)
      <4>1. ~(\/ handleClose(c) \/ handleCancelInvite(c)
              \/ handleOtherClientAccepted(c) \/ handleOtherClientRejected(c))
        BY <3>2 DEF handleClose, handleCancelInvite, handleOtherClientAccepted,
                    handleOtherClientRejected, Notice, EventKinds
      <4> QED
        BY <2>3, <4>1, signalingCreateCbKeeps, signalingJoinCbKeeps, signalingInviteCbKeeps,
           signalingRejectCbKeeps, signalingCloseCbKeeps, signalingLeaveCbKeeps,
           handleInvitedKeeps, handleAcceptedKeeps, AcceptedJoinsKeeps, handleControlKeeps,
           CalleeJoinsKeeps, handleRejectedKeeps, handleJoinKeeps, handleLeaveKeeps
        DEF SdkStep
    <3> QED
      BY <3>1, <3>2
  <2>4. CASE AcceptStep(c)
    BY <2>4, AcceptFailsKeeps, AcceptSucceedsKeeps, CalleeJoinsKeeps DEF AcceptStep
  <2>5. CASE OwnStep(c)
    BY <2>5, CallingTimeoutKeeps, GetTokenKeeps, onUserLeftKeeps DEF OwnStep
  <2> QED
    BY <2>1, <2>2, <2>3, <2>4, <2>5, OtherDeviceKeeps, TakesEventKeeps
<1> QED
  BY <1>1, <1>2

\* Every variable of the service and of the component keeps its type.
THEOREM TypeCorrect == Spec => []TypeOK
<1>1. Inv => TypeOK
  BY DEF Inv
<1> QED
  BY <1>1, InitInv, NextKeepsInv, PTL DEF Spec

\* Everything a handler takes a room from, the messages on their way,
\* channelName_ and the token loops, is about a call of the user it acts for.
THEOREM ProvenanceHolds == Spec => []Provenance
<1>1. Inv => Provenance
  BY InvMeans
<1> QED
  BY <1>1, InitInv, NextKeepsInv, PTL DEF Spec

\* The engine, with its camera and microphone, never enters a room of a call
\* its user neither placed nor was invited to.
THEOREM EngineStaysInOwnCall == Spec => []EngineOnlyInOwnCall
<1>1. Inv => EngineOnlyInOwnCall
  BY InvMeans
<1> QED
  BY <1>1, InitInv, NextKeepsInv, PTL DEF Spec

\* status_ never says inCall to a user none of whose calls was answered.
THEOREM InCallOnlyIfAnswered == Spec => []InCallWasAnswered
<1>1. Inv => InCallWasAnswered
  BY InvMeans
<1> QED
  BY <1>1, InitInv, NextKeepsInv, PTL DEF Spec

\* The engine is not on before a call of its user was answered, and a room it
\* entered by the channel's id, as the flow for old versions does, is that of an
\* answered call.
EngineAfterAnswer ==
  \A c \in Clients :
    /\ rtc[c] # NoRoom => Reached(c)
    /\ rtc[c][2] = "id" => Answered(rtc[c][1])

\* For any number of calls, versions and any application.
THEOREM EngineOnlyAfterAnswer == Spec => []EngineAfterAnswer
<1>1. Inv => EngineAfterAnswer
  BY DEF Inv, Backed, RoomBacked, EngineAfterAnswer
<1> QED
  BY <1>1, InitInv, NextKeepsInv, PTL DEF Spec

-----------------------------------------------------------------------------
(* One flow for both.  If the service tells of the acceptance before it     *)
(* tells of the joining, both sides of the only call take the same flow:    *)
(* the new one, by the room's name, if both run a new version, else the old *)
(* one, by the channel's id.                                                *)

Known(ch) == ch \in Chan /\ creator[ch] # NoClient /\ callee[ch] # NoClient
Both(ch)  == Modern(creator[ch]) /\ Modern(callee[ch])

\* The answers after which the caller still has to invite.
Setup(m) == m.kind \in {"createCb", "joinCb"} /\ m.ok

Good(c, m) ==
  /\ Setup(m) => m.ch \in Chan /\ invitation[m.ch] = "none"
  /\ m.kind = "Control" => Known(m.ch) /\ ~Both(m.ch)
  /\ m.kind = "Join" => Caller(c, m.ch)

\* Of those answers one is on its way at most.
Once(s) == \A i, j \in DOMAIN s : Setup(s[i]) /\ Setup(s[j]) => i = j
NoSetup(s) == \A i \in DOMAIN s : ~Setup(s[i])

\* A joining is told of after the acceptance.
Tells(s) == \E j \in DOMAIN s : s[j].kind = "Accept"
Preceded(s) ==
  \A i \in DOMAIN s : s[i].kind = "Join" => \E j \in DOMAIN s : j < i /\ s[j].kind = "Accept"

\* The caller has been told the version of the other side.
Knows(c) ==
  \A ch \in Chan : Caller(c, ch) => callee[ch] # NoClient /\ ver[c] = Modern(callee[ch])

Serviced ==
  \A ch \in Chan :
    /\ creator[ch] = NoClient => invitation[ch] = "none"
    /\ Answered(ch) => callee[ch] # NoClient

AllGood(q) == \A c \in Clients : \A i \in DOMAIN q[c] : Good(c, q[c][i])
MessagesGood == AllGood(inbox)

Ordered(c) == Once(inbox[c]) /\ (Knows(c) \/ Preceded(inbox[c]))

\* What a client makes of it.
RoomFlow(c) == rtc[c] # NoRoom => Known(rtc[c][1]) /\ (rtc[c][2] = "name" <=> Both(rtc[c][1]))

LoopFlow(c) ==
  /\ waiting[c][1] = "acceptCb" => Known(waiting[c][2]) /\ Both(waiting[c][2])
  /\ waiting[c][1] = "accepted" => Caller(c, waiting[c][2]) /\ Knows(c)
  /\ waiting[c][1] = "control"  => Known(waiting[c][2]) /\ ~Both(waiting[c][2])

FlowOf(c) ==
  /\ NewFlow(c) => \E ch \in Chan : Known(ch) /\ Both(ch)
  /\ LoopFlow(c)
  /\ RoomFlow(c)

FlowInv == Serviced /\ MessagesGood /\ \A c \in Clients : Ordered(c) /\ FlowOf(c)

OneCall == \A x, y \in Chan : x = y

\* What an operation finds, and what it leaves.
Ground(q) == q \in Inboxes /\ SvcTypeOK /\ InOrder /\ Serviced /\ AllGood(q)

SameOrder(r, q) ==
  \A c \in Clients : (Once(q[c]) => Once(r[c])) /\ (Preceded(q[c]) => Preceded(r[c]))

Calm(q) ==
  /\ Keeps /\ UNCHANGED creator
  /\ Serviced' /\ MessagesGood' /\ SameOrder(inbox', q)

Plain(m) == ~Setup(m) /\ m.kind \notin {"Join", "Control"}

\* r is q, and plain messages.
AddsPlain(r, q) ==
  /\ SameOrder(r, q)
  /\ \A c \in Clients : \A i \in DOMAIN r[c] :
       Plain(r[c][i]) \/ \E j \in DOMAIN q[c] : r[c][i] = q[c][j]

\* The order of an inbox that gets a message more.
LEMMA PushOrder ==
  ASSUME NEW q \in Inboxes, NEW S, NEW m \in Message, NEW c \in Clients
  PROVE  /\ Once(q[c]) /\ (c \in S /\ Setup(m) => NoSetup(q[c])) => Once(Push(q, S, m)[c])
         /\ Preceded(q[c]) /\ (c \in S /\ m.kind = "Join" => Tells(q[c]))
              => Preceded(Push(q, S, m)[c])
         /\ c \in S /\ m.kind = "Accept" => Tells(Push(q, S, m)[c])
<1>1. CASE c \notin S
  <2>1. Push(q, S, m)[c] = q[c]
    BY <1>1 DEF Push
  <2> QED
    BY <1>1, <2>1
<1>2. CASE c \in S
  <2> DEFINE s == q[c]
             t == Push(q, S, m)[c]
  <2>1. t = Append(s, m) /\ s \in Seq(Message)
    BY <1>2 DEF Push, Inboxes
  <2>2. /\ DOMAIN s = 1..Len(s) /\ DOMAIN t = 1..(Len(s) + 1) /\ Len(s) \in Nat
        /\ \A i \in 1..Len(s) : t[i] = s[i]
        /\ t[Len(s) + 1] = m
    BY <2>1
  <2> HIDE DEF s, t
  <2>3. Once(s) /\ (Setup(m) => NoSetup(s)) => Once(t)
    BY <2>2 DEF Once, NoSetup
  <2>4. Preceded(s) /\ (m.kind = "Join" => Tells(s)) => Preceded(t)
    <3> SUFFICES ASSUME Preceded(s), m.kind = "Join" => Tells(s), NEW i \in DOMAIN t,
                        t[i].kind = "Join"
                 PROVE  \E j \in DOMAIN t : j < i /\ t[j].kind = "Accept"
      BY DEF Preceded
    <3>1. PICK j \in DOMAIN s : j < i /\ s[j].kind = "Accept"
      <4>1. CASE i \in 1..Len(s)
        BY <2>2, <4>1 DEF Preceded
      <4>2. CASE i = Len(s) + 1
        BY <2>2, <4>2 DEF Tells
      <4> QED
        BY <2>2, <4>1, <4>2
    <3> QED
      BY <2>2, <3>1
  <2>5. m.kind = "Accept" => Tells(t)
    BY <2>2 DEF Tells
  <2> QED
    BY <1>2, <2>3, <2>4, <2>5 DEF s, t
<1> QED
  BY <1>1, <1>2

\* Nothing was said.
LEMMA PlainSelf == ASSUME NEW q PROVE AddsPlain(q, q)
BY DEF AddsPlain, SameOrder

\* Something plain more was said.
LEMMA PlainPush ==
  ASSUME NEW q \in Inboxes, NEW r \in Inboxes, AddsPlain(r, q), NEW S, NEW m \in Message, Plain(m)
  PROVE  Push(r, S, m) \in Inboxes /\ AddsPlain(Push(r, S, m), q)
<1>1. Push(r, S, m) \in Inboxes /\ SameOrder(Push(r, S, m), q)
  BY PushOrder, PushAdds DEF AddsPlain, SameOrder, Plain
<1> QED
  BY <1>1, PushAdds DEF AddsPlain

\* Most of what the service says is plain.
LEMMA MostIsPlain ==
  /\ \A kind \in Answer, ch \in ChanId :
       Msg(kind, ch, FALSE) \in Message /\ Plain(Msg(kind, ch, FALSE))
  /\ \A kind \in Answer \ {"createCb", "joinCb"}, ch \in ChanId, ok \in BOOLEAN :
       Msg(kind, ch, ok) \in Message /\ Plain(Msg(kind, ch, ok))
  /\ \A kind \in Notice \ {"Join", "Control"}, ch \in Chan :
       News(kind, ch) \in Message /\ Plain(News(kind, ch))
BY MsgIsMessage DEF News, Msg, Plain, Setup, Answer, Notice

\* What is known of a channel stays so.
LEMMA KnownKept ==
  ASSUME Keeps, NEW ch, Known(ch)
  PROVE  Known(ch)' /\ (Both(ch)' <=> Both(ch))
         /\ UNCHANGED <<creator[ch], callee[ch]>>
BY DEF Keeps, Known, Both, Modern

\* A message on its way stays good, unless it set up what is no longer open.
LEMMA GoodKept ==
  ASSUME Keeps, NEW c \in Clients, NEW m \in Message, Good(c, m),
         Setup(m) => invitation'[m.ch] = "none"
  PROVE  Good(c, m)'
<1>1. m.kind = "Control" => (Known(m.ch) /\ ~Both(m.ch))'
  BY KnownKept DEF Good
<1>2. m.kind = "Join" => Caller(c, m.ch)'
  BY SignalingAssumption DEF Good, Caller, Keeps
<1> QED
  BY <1>1, <1>2 DEF Good

\* An operation that says nothing but plain things, and leaves open what was.
LEMMA PlainCalm ==
  ASSUME NEW q, Ground(q), Keeps, UNCHANGED creator, inbox' \in Inboxes,
         \A ch \in Chan : /\ invitation[ch] = "none" => invitation'[ch] = "none"
                          /\ creator[ch] = NoClient => invitation'[ch] = "none"
                          /\ Answered(ch)' => Answered(ch) \/ callee[ch] # NoClient,
         AddsPlain(inbox', q)
  PROVE  Calm(q)
<1>1. Serviced'
  BY DEF Ground, Serviced, Keeps
<1>2. ASSUME NEW c \in Clients, NEW i \in DOMAIN inbox'[c]
      PROVE  Good(c, inbox[c][i])'
  <2>1. PICK m \in Message : m = inbox'[c][i]
    BY DEF Inboxes
  <2>2. CASE Plain(m)
    BY <2>1, <2>2 DEF Plain, Good
  <2>3. CASE \E j \in DOMAIN q[c] : m = q[c][j]
    <3>1. Good(c, m)
      BY <2>3 DEF Ground, AllGood
    <3>2. Setup(m) => invitation'[m.ch] = "none"
      BY <3>1 DEF Good, Setup
    <3> QED
      BY <2>1, <3>1, <3>2, GoodKept
  <2> QED
    BY <2>1, <2>2, <2>3 DEF AddsPlain
<1> QED
  BY <1>1, <1>2 DEF Calm, MessagesGood, AllGood, AddsPlain

-----------------------------------------------------------------------------
(* The operations of the service, in this respect.                         *)

\* A handler that talks to nobody.
LEMMA SilentCalm ==
  ASSUME NEW q, Ground(q), Silent(q)
  PROVE  Calm(q)
<1>1. Keeps
  BY SilentFaithful DEF Ground, Faithful
<1>2. UNCHANGED <<creator, callee, invitation>> /\ inbox' = q
  BY DEF Silent
<1> QED
  BY <1>1, <1>2, PlainSelf, PlainCalm DEF Ground, Serviced, Answered

\* A step that does not involve the service.
LEMMA UnchangedCalm ==
  ASSUME Ground(inbox), UNCHANGED svcVars
  PROVE  Calm(inbox)
<1>1. Silent(inbox)
  BY DEF Silent, svcVars
<1> QED
  BY <1>1, SilentCalm

\* An accept changes what was pending, and tells of it before it tells of the
\* joining.
LEMMA AcceptedCalm ==
  ASSUME NEW q, Ground(q), Keeps, ~JoinFirst, NEW c \in Clients, NEW ch \in Chan, Pending(ch),
         callee[ch] = c, UNCHANGED <<creator, callee>>,
         invitation' = [invitation EXCEPT ![ch] = "accepted"],
         NEW r \in Inboxes, AddsPlain(r, q), inbox' \in AcceptNews(r, c, ch)
  PROVE  Calm(q)
<1> DEFINE s == Push(r, {creator[ch]}, News("Accept", ch))
           S == members[ch] \ {c}
<1>1. inbox' = Push(s, S, News("Join", ch))
  BY DEF AcceptNews
<1>2. /\ News("Accept", ch) \in Message /\ Plain(News("Accept", ch))
      /\ News("Join", ch) \in Message
      /\ News("Join", ch).kind = "Join" /\ News("Join", ch).ch = ch
      /\ News("Accept", ch).kind = "Accept" /\ ~Setup(News("Join", ch))
  BY MostIsPlain, MsgIsMessage DEF Notice, News, Msg, Setup
<1>3. S \subseteq {creator[ch]} /\ invitation[ch] = "pending" /\ c # NoClient
  BY SignalingAssumption DEF Ground, InOrder, Pending, Answered
<1>4. s \in Inboxes /\ AddsPlain(s, q) /\ \A d \in Clients : d \in S => Tells(s[d])
  BY <1>2, <1>3, PlainPush, PushOrder DEF Ground
<1> HIDE DEF s, S
<1>5. inbox' \in Inboxes
  BY <1>1, <1>2, <1>4, PushAdds
<1>6. SameOrder(inbox', q)
  <2> SUFFICES ASSUME NEW d \in Clients
               PROVE  /\ Once(q[d]) => Once(inbox'[d])
                      /\ Preceded(q[d]) => Preceded(inbox'[d])
    BY DEF SameOrder
  <2>1. (Once(q[d]) => Once(s[d])) /\ (Preceded(q[d]) => Preceded(s[d]))
    BY <1>4 DEF AddsPlain, SameOrder
  <2> QED
    BY <1>1, <1>2, <1>4, <2>1, PushOrder
<1>7. \A x \in Chan : (x # ch => invitation'[x] = invitation[x]) /\ invitation'[ch] = "accepted"
  BY DEF Ground, SvcTypeOK
<1>8. Serviced'
  BY <1>3, <1>7 DEF Ground, Serviced, Answered
<1>9. MessagesGood'
  <2> SUFFICES ASSUME NEW d \in Clients, NEW i \in DOMAIN inbox'[d]
               PROVE  Good(d, inbox[d][i])'
    BY DEF MessagesGood, AllGood
  <2>1. PICK m \in Message : m = inbox'[d][i]
    BY <1>5 DEF Inboxes
  <2>2. CASE d \in S /\ m = News("Join", ch)
    <3>1. Caller(d, ch)'
      BY <1>3, <2>2 DEF Caller
    <3> QED
      BY <1>2, <2>1, <2>2, <3>1 DEF Good
  <2>3. CASE i \in DOMAIN s[d] /\ m = s[d][i]
    <3>1. CASE Plain(m)
      BY <2>1, <3>1 DEF Plain, Good
    <3>2. CASE \E j \in DOMAIN q[d] : m = q[d][j]
      <4>1. Good(d, m)
        BY <3>2 DEF Ground, AllGood
      <4>2. Setup(m) => invitation'[m.ch] = "none"
        BY <1>3, <1>7, <4>1 DEF Good
      <4> QED
        BY <2>1, <4>1, <4>2, GoodKept
    <3> QED
      BY <1>4, <2>3, <3>1, <3>2 DEF AddsPlain
  <2> QED
    BY <1>1, <1>2, <1>4, <2>1, <2>2, <2>3, PushAdds
<1> QED
  BY <1>6, <1>8, <1>9 DEF Calm

\* accept(), whether it succeeds or not.
LEMMA AcceptCalm ==
  ASSUME NEW q, Ground(q), ~JoinFirst, NEW c \in Clients, NEW ch \in ChanId,
         SignalingAccept(q, c, ch)
  PROVE  Calm(q)
<1>1. Keeps /\ inbox' \in Inboxes
  BY AcceptFaithful DEF Ground, Faithful, SvcTypeOK, Inboxes
<1>2. PICK ok \in Verdicts(Pending(ch) /\ callee[ch] = c) :
        \/ /\ ok
           /\ invitation' = [invitation EXCEPT ![ch] = "accepted"]
           /\ inbox' \in AcceptNews(Push(q, {c}, Msg("acceptCb", ch, TRUE)), c, ch)
        \/ /\ ~ok
           /\ inbox' = Push(q, {c}, Msg("acceptCb", ch, FALSE))
           /\ UNCHANGED invitation
  BY DEF SignalingAccept
<1>3. UNCHANGED <<creator, callee>>
  BY DEF SignalingAccept
<1>4. CASE ok
  <2>1. Pending(ch) /\ callee[ch] = c /\ ch \in Chan
    BY <1>2, <1>4 DEF Verdicts, Pending
  <2> DEFINE r == Push(q, {c}, Msg("acceptCb", ch, TRUE))
  <2>2. r \in Inboxes /\ AddsPlain(r, q)
    BY MostIsPlain, PlainSelf, PlainPush DEF Answer, Ground
  <2>3. inbox' \in AcceptNews(r, c, ch) /\ invitation' = [invitation EXCEPT ![ch] = "accepted"]
    BY <1>2, <1>4
  <2> HIDE DEF r
  <2> QED
    BY <1>1, <1>3, <2>1, <2>2, <2>3, AcceptedCalm
<1>5. CASE ~ok
  <2>1. AddsPlain(inbox', q) /\ UNCHANGED invitation
    BY <1>2, <1>5, MostIsPlain, PlainSelf, PlainPush DEF Answer, Ground
  <2> QED
    BY <1>1, <1>3, <2>1, PlainCalm DEF Ground, Serviced, Answered
<1> QED
  BY <1>4, <1>5

\* The answer of another device of the account.
LEMMA OtherDeviceCalm ==
  ASSUME Ground(inbox), ~JoinFirst, NEW c \in Clients, NEW ch \in Chan, NEW accepts \in BOOLEAN,
         OtherDeviceAnswers(c, ch, accepts)
  PROVE  Calm(inbox)
<1>1. Keeps /\ inbox' \in Inboxes
  BY OtherDeviceFaithful DEF Ground, Faithful, SvcTypeOK, Inboxes
<1>2. /\ UNCHANGED <<creator, callee>> /\ Pending(ch) /\ callee[ch] = c
      /\ invitation' = [invitation EXCEPT ![ch] = IF accepts THEN "accepted" ELSE "rejected"]
  BY DEF OtherDeviceAnswers
<1>3. CASE accepts
  <2> DEFINE r == Push(inbox, {c}, News("SyncAccept", ch))
  <2>1. r \in Inboxes /\ AddsPlain(r, inbox)
    BY MostIsPlain, PlainSelf, PlainPush DEF Notice, Ground
  <2>2. inbox' \in AcceptNews(r, c, ch) /\ invitation' = [invitation EXCEPT ![ch] = "accepted"]
    BY <1>2, <1>3 DEF OtherDeviceAnswers
  <2> HIDE DEF r
  <2> QED
    BY <1>1, <1>2, <2>1, <2>2, AcceptedCalm
<1>4. CASE ~accepts
  <2> DEFINE r == Push(inbox, {c}, News("SyncReject", ch))
  <2>1. r \in Inboxes /\ AddsPlain(r, inbox)
    BY MostIsPlain, PlainSelf, PlainPush DEF Notice, Ground
  <2>2. inbox' = Push(r, {creator[ch]}, News("Reject", ch))
    BY <1>4 DEF OtherDeviceAnswers
  <2> HIDE DEF r
  <2>3. AddsPlain(inbox', inbox)
    BY <2>1, <2>2, MostIsPlain, PlainPush DEF Notice, Ground
  <2>4. \A x \in Chan : invitation'[x] = invitation[x] \/ (x = ch /\ invitation'[x] = "rejected")
    BY <1>2, <1>4 DEF Ground, SvcTypeOK
  <2>5. invitation[ch] = "pending" /\ creator[ch] # NoClient
    BY <1>2 DEF Pending, Ground, Serviced
  <2>6. \A x \in Chan : /\ invitation[x] = "none" => invitation'[x] = "none"
                        /\ creator[x] = NoClient => invitation'[x] = "none"
                        /\ Answered(x)' => Answered(x) \/ callee[x] # NoClient
    BY <2>4, <2>5 DEF Ground, Serviced, Answered
  <2> QED
    BY <1>1, <1>2, <2>3, <2>6, PlainCalm
<1> QED
  BY <1>3, <1>4

\* A rejection, by the user or by a busy component.
LEMMA RejectCalm ==
  ASSUME NEW q, Ground(q), NEW c \in Clients, NEW ch \in ChanId, NEW notice \in {"Reject", "Busy"},
         NEW answered \in BOOLEAN, SignalingReject(q, c, ch, notice, answered)
  PROVE  Calm(q)
<1> DEFINE reply(ok) == IF answered THEN Push(q, {c}, Msg("rejectCb", ch, ok)) ELSE q
<1>1. Keeps /\ inbox' \in Inboxes
  BY RejectFaithful DEF Ground, Faithful, SvcTypeOK, Inboxes
<1>2. PICK ok \in Verdicts(Pending(ch) /\ callee[ch] = c) :
        \/ /\ ok
           /\ invitation' = [invitation EXCEPT ![ch] = "rejected"]
           /\ inbox' = Push(reply(TRUE), {creator[ch]}, News(notice, ch))
        \/ /\ ~ok
           /\ inbox' = reply(FALSE)
           /\ UNCHANGED invitation
  BY DEF SignalingReject
<1>3. UNCHANGED <<creator, callee>>
  BY DEF SignalingReject
<1>4. /\ reply(TRUE) \in Inboxes /\ AddsPlain(reply(TRUE), q)
      /\ reply(FALSE) \in Inboxes /\ AddsPlain(reply(FALSE), q)
  BY MostIsPlain, PlainSelf, PlainPush DEF Answer, Ground
<1> HIDE DEF reply
<1>5. CASE ok
  <2>1. ch \in Chan /\ invitation[ch] = "pending"
    BY <1>2, <1>5 DEF Verdicts, Pending
  <2>2. AddsPlain(inbox', q)
    <3>1. News(notice, ch) \in Message /\ Plain(News(notice, ch))
      BY <2>1, MostIsPlain DEF Notice
    <3>2. inbox' = Push(reply(TRUE), {creator[ch]}, News(notice, ch))
      BY <1>2, <1>5
    <3>3. q \in Inboxes /\ reply(TRUE) \in Inboxes /\ AddsPlain(reply(TRUE), q)
      BY <1>4 DEF Ground
    <3> QED
      BY <3>1, <3>2, <3>3, PlainPush
  <2>3. \A x \in Chan : invitation'[x] = invitation[x] \/ (x = ch /\ invitation'[x] = "rejected")
    BY <1>2, <1>5 DEF Ground, SvcTypeOK
  <2> QED
    BY <1>1, <1>3, <2>1, <2>2, <2>3, PlainCalm DEF Ground, Serviced, Answered
<1>6. CASE ~ok
  BY <1>1, <1>2, <1>3, <1>4, <1>6, PlainCalm DEF Ground, Serviced, Answered
<1> QED
  BY <1>5, <1>6

\* Taking back and closing, too, say plain things only.
LEMMA CancelAndCloseCalm ==
  ASSUME NEW q, Ground(q), NEW c \in Clients, NEW cancels \in BOOLEAN,
         NEW inv \in ChanId, NEW ch \in ChanId, CancelAndClose(q, c, cancels, inv, ch)
  PROVE  Calm(q)
<1> DEFINE cancelled == cancels /\ Pending(inv) /\ creator[inv] = c
           told  == IF cancelled THEN Push(q, {callee[inv]}, News("CancelInvite", inv)) ELSE q
<1>1. Keeps /\ inbox' \in Inboxes
  BY CancelAndCloseFaithful DEF Ground, Faithful, SvcTypeOK, Inboxes
<1>2. PICK ok \in Verdicts(ch \in Chan /\ open[ch] /\ c \in members[ch]) :
        \/ /\ ok
           /\ inbox' = Push(Push(told, {c}, Msg("closeCb", ch, TRUE)),
                            members[ch] \ {c}, News("Close", ch))
        \/ /\ ~ok
           /\ inbox' = Push(told, {c}, Msg("closeCb", ch, FALSE))
  BY DEF CancelAndClose
<1>3. /\ invitation' = IF cancelled THEN [invitation EXCEPT ![inv] = "cancelled"] ELSE invitation
      /\ UNCHANGED <<creator, callee>>
  BY DEF CancelAndClose
<1>4. \A x \in Chan : \/ invitation'[x] = invitation[x]
                      \/ (invitation[x] = "pending" /\ invitation'[x] = "cancelled")
  BY <1>3 DEF Ground, SvcTypeOK, Pending
<1>5. told \in Inboxes /\ AddsPlain(told, q)
  <2>1. CASE cancelled
    <3>1. News("CancelInvite", inv) \in Message /\ Plain(News("CancelInvite", inv))
      BY <2>1, MostIsPlain DEF Pending, Notice
    <3> QED
      BY <2>1, <3>1, PlainSelf, PlainPush DEF Ground
  <2>2. CASE ~cancelled
    BY <2>2, PlainSelf DEF Ground
  <2> QED
    BY <2>1, <2>2
<1> HIDE DEF cancelled, told
<1>6. AddsPlain(inbox', q)
  <2>1. \A ok2 \in BOOLEAN : /\ Msg("closeCb", ch, ok2) \in Message
                             /\ Plain(Msg("closeCb", ch, ok2))
    BY MostIsPlain DEF Answer
  <2>2. CASE ok
    <3> DEFINE r == Push(told, {c}, Msg("closeCb", ch, TRUE))
    <3>1. r \in Inboxes /\ AddsPlain(r, q)
      BY <1>5, <2>1, PlainPush DEF Ground
    <3>2. News("Close", ch) \in Message /\ Plain(News("Close", ch))
      BY <1>2, <2>2, MostIsPlain DEF Verdicts, Notice
    <3>3. inbox' = Push(r, members[ch] \ {c}, News("Close", ch))
      BY <1>2, <2>2
    <3> HIDE DEF r
    <3> QED
      BY <3>1, <3>2, <3>3, PlainPush DEF Ground
  <2>3. CASE ~ok
    BY <1>2, <1>5, <2>1, <2>3, PlainPush DEF Ground
  <2> QED
    BY <2>2, <2>3
<1>7. \A x \in Chan : /\ invitation[x] = "none" => invitation'[x] = "none"
                      /\ creator[x] = NoClient => invitation'[x] = "none"
                      /\ Answered(x)' => Answered(x) \/ callee[x] # NoClient
  BY <1>4 DEF Ground, Serviced, Answered
<1> QED
  BY <1>1, <1>3, <1>6, <1>7, PlainCalm

\* A close alone.
LEMMA CloseCalm ==
  ASSUME NEW q, Ground(q), NEW c \in Clients, NEW ch \in ChanId, SignalingClose(q, c, ch)
  PROVE  Calm(q)
BY CancelAndCloseCalm DEF SignalingClose, ChanId

\* A leave.
LEMMA LeaveCalm ==
  ASSUME NEW q, Ground(q), NEW c \in Clients, NEW ch \in ChanId, SignalingLeave(q, c, ch)
  PROVE  Calm(q)
<1>1. Keeps /\ inbox' \in Inboxes
  BY LeaveFaithful DEF Ground, Faithful, SvcTypeOK, Inboxes
<1>2. PICK ok \in Verdicts(ch \in Chan /\ open[ch] /\ c \in members[ch]) :
        \/ /\ ok
           /\ inbox' = Push(Push(q, {c}, Msg("leaveCb", ch, TRUE)),
                            members[ch] \ {c}, News("Leave", ch))
        \/ /\ ~ok
           /\ inbox' = Push(q, {c}, Msg("leaveCb", ch, FALSE))
  BY DEF SignalingLeave
<1>3. UNCHANGED <<creator, callee, invitation>>
  BY DEF SignalingLeave
<1>4. AddsPlain(inbox', q)
  <2>1. \A ok2 \in BOOLEAN : /\ Push(q, {c}, Msg("leaveCb", ch, ok2)) \in Inboxes
                             /\ AddsPlain(Push(q, {c}, Msg("leaveCb", ch, ok2)), q)
    BY MostIsPlain, PlainSelf, PlainPush DEF Answer, Ground
  <2>2. CASE ok
    <3> DEFINE r == Push(q, {c}, Msg("leaveCb", ch, TRUE))
    <3>1. News("Leave", ch) \in Message /\ Plain(News("Leave", ch))
      BY <1>2, <2>2, MostIsPlain DEF Verdicts, Notice
    <3>2. inbox' = Push(r, members[ch] \ {c}, News("Leave", ch)) /\ r \in Inboxes /\ AddsPlain(r, q)
      BY <1>2, <2>1, <2>2
    <3> HIDE DEF r
    <3> QED
      BY <3>1, <3>2, PlainPush DEF Ground
  <2>3. CASE ~ok
    BY <1>2, <2>1, <2>3
  <2> QED
    BY <2>2, <2>3
<1> QED
  BY <1>1, <1>3, <1>4, PlainCalm DEF Ground, Serviced, Answered

\* A control message is for a channel of which one side runs an old version.
LEMMA ControlCalm ==
  ASSUME NEW q, Ground(q), NEW ch \in Chan, Answered(ch), Known(ch), ~Both(ch),
         SignalingControl(q, ch, callee[ch])
  PROVE  Calm(q)
<1> DEFINE m == News("Control", ch)
<1>1. Keeps /\ UNCHANGED <<creator, callee, invitation>>
  BY ControlFaithful DEF Ground, Faithful, SignalingControl
<1>2. m \in Message /\ m.kind = "Control" /\ m.ch = ch /\ ~Setup(m)
  BY MsgIsMessage DEF Notice, News, Msg, Setup
<1> HIDE DEF m
<1>3. inbox' = Push(q, {callee[ch]}, m) \/ inbox' = q
  BY DEF SignalingControl, m
<1>4. SameOrder(inbox', q)
  BY <1>2, <1>3, PushOrder DEF SameOrder, Ground
<1>5. Serviced'
  BY <1>1 DEF Ground, Serviced, Answered
<1>6. MessagesGood'
  <2> SUFFICES ASSUME NEW d \in Clients, NEW i \in DOMAIN inbox'[d]
               PROVE  Good(d, inbox[d][i])'
    BY DEF MessagesGood, AllGood
  <2>1. CASE inbox'[d][i] = m
    BY <1>1, <1>2, <2>1, KnownKept DEF Good
  <2>2. CASE i \in DOMAIN q[d] /\ inbox'[d][i] = q[d][i]
    <3>1. q[d][i] \in Message /\ Good(d, q[d][i])
      BY <2>2 DEF Ground, AllGood, Inboxes
    <3>2. Setup(q[d][i]) => invitation'[q[d][i].ch] = "none"
      BY <1>1, <3>1 DEF Good
    <3> QED
      BY <1>1, <2>2, <3>1, <3>2, GoodKept
  <2> QED
    BY <1>2, <1>3, <2>1, <2>2, PushAdds DEF Ground
<1> QED
  BY <1>1, <1>4, <1>5, <1>6 DEF Calm

-----------------------------------------------------------------------------
(* A step of the component, in this respect.                               *)

\* What the service leaves, order included.
Follows(q) ==
  /\ Keeps /\ UNCHANGED creator
  /\ Serviced' /\ MessagesGood'
  /\ \A d \in Clients : Once(inbox'[d]) /\ (Preceded(q[d]) => Preceded(inbox'[d]))

\* What is calm leaves the order.
LEMMA CalmFollows ==
  ASSUME NEW q, Calm(q), \A d \in Clients : Once(q[d])
  PROVE  Follows(q)
BY DEF Calm, Follows, SameOrder

\* The caller joins its new channel, where nobody is: only it hears of it.
LEMMA JoinFollows ==
  ASSUME NEW q, Ground(q), \A d \in Clients : Once(q[d]), NEW c \in Clients, NoSetup(q[c]),
         NEW ch \in Chan, creator[ch] = c, invitation[ch] = "none", SignalingJoin(q, c, ch)
  PROVE  Follows(q)
<1>1. Keeps /\ inbox' \in Inboxes
  BY JoinFaithful DEF Ground, Faithful, SvcTypeOK, Inboxes, ChanId
<1>2. UNCHANGED <<creator, callee, invitation>>
  BY DEF SignalingJoin
<1>3. PICK ok \in BOOLEAN :
        \/ /\ ok
           /\ inbox' = Push(Push(q, {c}, Msg("joinCb", ch, TRUE)),
                            members[ch] \ {c}, News("Join", ch))
        \/ /\ ~ok
           /\ inbox' = Push(q, {c}, Msg("joinCb", ch, FALSE))
  BY DEF SignalingJoin, Verdicts
<1>4. CASE ok
  <2> DEFINE m == Msg("joinCb", ch, TRUE)
             r == Push(q, {c}, m)
  <2>1. m \in Message /\ Setup(m) /\ m.kind = "joinCb" /\ m.ch = ch
    BY MsgIsMessage DEF Answer, ChanId, Msg, Setup
  <2> HIDE DEF m
  <2>2. r \in Inboxes
    BY <2>1, PushAdds DEF Ground
  <2>3. inbox' = r
    <3>1. members[ch] \ {c} = {}
      BY DEF Ground, InOrder, Answered
    <3>2. inbox' = Push(r, {}, News("Join", ch))
      BY <1>3, <1>4, <3>1 DEF m
    <3> QED
      BY <2>2, <3>2 DEF Push, Inboxes
  <2>4. \A d \in Clients : Once(inbox'[d]) /\ (Preceded(q[d]) => Preceded(inbox'[d]))
    BY <2>1, <2>3, PushOrder DEF Ground
  <2>5. Serviced'
    BY <1>2 DEF Ground, Serviced, Answered
  <2>6. MessagesGood'
    <3> SUFFICES ASSUME NEW d \in Clients, NEW i \in DOMAIN inbox'[d]
                 PROVE  Good(d, inbox[d][i])'
      BY DEF MessagesGood, AllGood
    <3>1. CASE inbox'[d][i] = m
      BY <1>2, <2>1, <3>1 DEF Good, Setup
    <3>2. CASE i \in DOMAIN q[d] /\ inbox'[d][i] = q[d][i]
      <4>1. q[d][i] \in Message /\ Good(d, q[d][i])
        BY <3>2 DEF Ground, AllGood, Inboxes
      <4>2. Setup(q[d][i]) => invitation'[q[d][i].ch] = "none"
        BY <1>2, <4>1 DEF Good
      <4> QED
        BY <1>1, <3>2, <4>1, <4>2, GoodKept
    <3> QED
      BY <2>1, <2>3, <3>1, <3>2, PushAdds DEF Ground
  <2> QED
    BY <1>1, <1>2, <2>4, <2>5, <2>6 DEF Follows
<1>5. CASE ~ok
  <2>1. AddsPlain(inbox', q)
    BY <1>3, <1>5, MostIsPlain, PlainSelf, PlainPush DEF Answer, ChanId, Ground
  <2>2. Calm(q)
    BY <1>1, <1>2, <2>1, PlainCalm DEF Ground, Serviced, Answered
  <2> QED
    BY <2>2, CalmFollows
<1> QED
  BY <1>4, <1>5

\* The invitation is the last step of the set-up.
LEMMA InviteFollows ==
  ASSUME NEW q, Ground(q), \A d \in Clients : NoSetup(q[d]), NEW c \in Clients,
         NEW ch \in Chan, creator[ch] = c, NEW p \in Clients \cup {NoClient},
         SignalingInvite(q, c, ch, p)
  PROVE  Follows(q)
<1>1. Keeps /\ inbox' \in Inboxes
  BY InviteFaithful DEF Ground, Faithful, SvcTypeOK, Inboxes, ChanId
<1>2. UNCHANGED creator
  BY DEF SignalingInvite
<1>3. PICK ok \in BOOLEAN :
        \/ /\ ok
           /\ callee' = [callee EXCEPT ![ch] = p]
           /\ invitation' = [invitation EXCEPT ![ch] = "pending"]
           /\ inbox' = Push(Push(q, {c}, Msg("inviteCb", ch, TRUE)), {p}, News("Invite", ch))
        \/ /\ ~ok
           /\ inbox' = Push(q, {c}, Msg("inviteCb", ch, FALSE))
           /\ UNCHANGED <<callee, invitation>>
  BY DEF SignalingInvite, Verdicts
<1>4. AddsPlain(inbox', q)
  <2>1. \A res \in BOOLEAN : /\ Push(q, {c}, Msg("inviteCb", ch, res)) \in Inboxes
                             /\ AddsPlain(Push(q, {c}, Msg("inviteCb", ch, res)), q)
    BY MostIsPlain, PlainSelf, PlainPush DEF Answer, ChanId, Ground
  <2>2. News("Invite", ch) \in Message /\ Plain(News("Invite", ch))
    BY MostIsPlain DEF Notice
  <2>3. CASE ok
    <3> DEFINE r == Push(q, {c}, Msg("inviteCb", ch, TRUE))
    <3>1. inbox' = Push(r, {p}, News("Invite", ch)) /\ r \in Inboxes /\ AddsPlain(r, q)
      BY <1>3, <2>1, <2>3
    <3> HIDE DEF r
    <3> QED
      BY <2>2, <3>1, PlainPush DEF Ground
  <2>4. CASE ~ok
    BY <1>3, <2>1, <2>4
  <2> QED
    BY <2>3, <2>4
<1>5. \A d \in Clients : Once(inbox'[d]) /\ (Preceded(q[d]) => Preceded(inbox'[d]))
  BY <1>4 DEF AddsPlain, SameOrder, Once, NoSetup
<1>6. Serviced'
  <2>1. c # NoClient
    BY SignalingAssumption
  <2>2. \A x \in Chan : \/ UNCHANGED <<invitation[x], callee[x]>>
                        \/ x = ch /\ invitation'[x] = "pending"
    BY <1>3 DEF Ground, SvcTypeOK
  <2> QED
    BY <1>2, <2>1, <2>2 DEF Ground, Serviced, Answered
<1>7. MessagesGood'
  <2> SUFFICES ASSUME NEW d \in Clients, NEW i \in DOMAIN inbox'[d]
               PROVE  Good(d, inbox[d][i])'
    BY DEF MessagesGood, AllGood
  <2>1. PICK m \in Message : m = inbox'[d][i]
    BY <1>1 DEF Inboxes
  <2>2. CASE Plain(m)
    BY <2>1, <2>2 DEF Plain, Good
  <2>3. CASE \E j \in DOMAIN q[d] : m = q[d][j]
    <3>1. Good(d, m) /\ ~Setup(m)
      BY <2>3 DEF Ground, AllGood, NoSetup
    <3> QED
      BY <1>1, <2>1, <3>1, GoodKept
  <2> QED
    BY <1>4, <2>1, <2>2, <2>3 DEF AddsPlain
<1> QED
  BY <1>1, <1>2, <1>5, <1>6, <1>7 DEF Follows

\* The operations find the service as it is.
LEMMA InboxGround ==
  ASSUME Inv, FlowInv
  PROVE  /\ Ground(inbox)
         /\ \A d \in Clients : Once(inbox[d]) /\ (Knows(d) \/ Preceded(inbox[d]))
BY InboxFacts DEF Ground, FlowInv, MessagesGood, Ordered

\* A handler finds it without the message it was given.
LEMMA RestGround ==
  ASSUME Inv, FlowInv, NEW c \in Clients, NEW kind, Gets(c, kind)
  PROVE  /\ Ground(Rest(c)) /\ Good(c, Got(c))
         /\ \A d \in Clients : Once(Rest(c)[d])
         /\ \A d \in Clients \ {c} : Knows(d) \/ Preceded(Rest(c)[d])
         /\ kind # "Accept" => Knows(c) \/ Preceded(Rest(c)[c])
         /\ kind = "Join" => Knows(c)
         /\ Setup(Got(c)) => NoSetup(Rest(c)[c])
<1> DEFINE s == inbox[c]
           t == Rest(c)[c]
<1>1. /\ inbox \in Inboxes /\ s \in Seq(Message) /\ s # <<>> /\ t = Tail(s)
      /\ \A d \in Clients \ {c} : Rest(c)[d] = inbox[d]
  BY InboxFacts DEF Inboxes, Gets, Rest
<1>2. Got(c) = s[1] /\ Got(c).kind = kind
  BY <1>1 DEF Got, Gets
<1>3. /\ 1 \in DOMAIN s /\ DOMAIN t \subseteq Nat \ {0}
      /\ \A i \in DOMAIN t : i + 1 \in DOMAIN s /\ t[i] = s[i + 1]
      /\ \A i \in DOMAIN s : i # 1 => i - 1 \in DOMAIN t /\ i = (i - 1) + 1
      /\ \A i \in DOMAIN s : i \in Nat \ {0}
  BY <1>1
<1>4. Once(s) /\ (Knows(c) \/ Preceded(s)) /\ AllGood(inbox)
  BY DEF FlowInv, Ordered, MessagesGood
<1>5. Good(c, Got(c))
  BY <1>2, <1>3, <1>4 DEF AllGood
<1>6. Ground(Rest(c))
  <2>1. AllGood(Rest(c))
    <3> SUFFICES ASSUME NEW d \in Clients, NEW i \in DOMAIN Rest(c)[d]
                 PROVE  Good(d, Rest(c)[d][i])
      BY DEF AllGood
    <3>1. \E j \in DOMAIN inbox[d] : Rest(c)[d][i] = inbox[d][j]
      BY <1>1, RestIsOld
    <3> QED
      BY <1>4, <3>1 DEF AllGood
  <2> QED
    BY <2>1, GotFacts, InboxFacts DEF Ground, FlowInv
<1> HIDE DEF s, t
<1>7. Once(t)
  <2> SUFFICES ASSUME NEW i \in DOMAIN t, NEW j \in DOMAIN t, Setup(t[i]), Setup(t[j])
               PROVE  i = j
    BY DEF Once
  <2>1. i + 1 = j + 1
    BY <1>3, <1>4 DEF Once
  <2> QED
    BY <1>3, <2>1
<1>8. Setup(s[1]) => NoSetup(t)
  BY <1>3, <1>4 DEF Once, NoSetup
<1>9. Preceded(s) => s[1].kind # "Join"
  BY <1>3 DEF Preceded
<1>10. ASSUME Preceded(s), s[1].kind # "Accept"
       PROVE  Preceded(t)
  <2> SUFFICES ASSUME NEW i \in DOMAIN t, t[i].kind = "Join"
               PROVE  \E j \in DOMAIN t : j < i /\ t[j].kind = "Accept"
    BY DEF Preceded
  <2>1. PICK j \in DOMAIN s : j < i + 1 /\ s[j].kind = "Accept"
    BY <1>3, <1>10 DEF Preceded
  <2>2. j # 1 /\ j - 1 \in DOMAIN t /\ t[j - 1] = s[j]
    BY <1>3, <1>10, <2>1
  <2>3. j - 1 < i
    BY <1>3, <2>1
  <2> QED
    BY <2>1, <2>2, <2>3
<1>11. \A d \in Clients : Once(Rest(c)[d])
  <2> TAKE d \in Clients
  <2>1. CASE d = c
    BY <1>7, <2>1 DEF t
  <2>2. CASE d # c
    BY <1>1, <2>2 DEF FlowInv, Ordered
  <2> QED
    BY <2>1, <2>2
<1>12. \A d \in Clients \ {c} : Knows(d) \/ Preceded(Rest(c)[d])
  BY <1>1 DEF FlowInv, Ordered
<1>13. kind # "Accept" => Knows(c) \/ Preceded(Rest(c)[c])
  BY <1>2, <1>4, <1>10 DEF t
<1>14. kind = "Join" => Knows(c)
  BY <1>2, <1>4, <1>9
<1>15. Setup(Got(c)) => NoSetup(Rest(c)[c])
  BY <1>2, <1>8 DEF t
<1> QED
  BY <1>5, <1>6, <1>11, <1>12, <1>13, <1>14, <1>15

\* A step in which a client takes up nothing new.
LEMMA KnowsKept ==
  ASSUME Keeps, UNCHANGED creator, NEW d \in Clients, Knows(d), ver'[d] = ver[d]
  PROVE  Knows(d)'
BY DEF Knows, Keeps, Caller, Modern

\* The room is kept or left.
LEMMA RoomFlowKept ==
  ASSUME Keeps, NEW d \in Clients, RoomFlow(d), rtc'[d] = rtc[d] \/ rtc'[d] = NoRoom
  PROVE  RoomFlow(d)'
BY KnownKept DEF RoomFlow

\* The version of the other side is kept or forgotten.
LEMMA NewFlowKept ==
  ASSUME Keeps, NEW d \in Clients, ver'[d] = ver[d] \/ ~ver'[d],
         NewFlow(d) => \E ch \in Chan : Known(ch) /\ Both(ch)
  PROVE  (NewFlow(d) => \E ch \in Chan : Known(ch) /\ Both(ch))'
BY KnownKept DEF NewFlow, Modern

\* The loop goes on or ends.
LEMMA LoopFlowKept ==
  ASSUME Keeps, UNCHANGED creator, NEW d \in Clients, LoopFlow(d), ver'[d] = ver[d],
         waiting'[d] = waiting[d] \/ waiting'[d] = Free
  PROVE  LoopFlow(d)'
<1>1. CASE waiting'[d] = Free
  BY <1>1 DEF LoopFlow, Free
<1>2. CASE waiting'[d] = waiting[d]
  BY <1>2, KnownKept, KnowsKept DEF LoopFlow, Caller
<1> QED
  BY <1>1, <1>2

\* All three.
LEMMA FlowKept ==
  ASSUME Keeps, UNCHANGED creator, NEW d \in Clients, FlowOf(d), ver'[d] = ver[d],
         waiting'[d] = waiting[d] \/ waiting'[d] = Free,
         rtc'[d] = rtc[d] \/ rtc'[d] = NoRoom
  PROVE  FlowOf(d)'
BY RoomFlowKept, NewFlowKept, LoopFlowKept DEF FlowOf

\* What is left to show of a step.
LEMMA StepFlow ==
  ASSUME NEW q, Follows(q), \A d \in Clients : FlowOf(d)' /\ (Knows(d)' \/ Preceded(q[d]))
  PROVE  FlowInv'
BY DEF Follows, FlowInv, Ordered

\* A step in which no client takes up anything new.
LEMMA IdleStepFlow ==
  ASSUME FlowInv, NEW q, Follows(q), \A d \in Clients : Knows(d) \/ Preceded(q[d]),
         UNCHANGED ver,
         \A d \in Clients : /\ waiting'[d] = waiting[d] \/ waiting'[d] = Free
                            /\ rtc'[d] = rtc[d] \/ rtc'[d] = NoRoom
  PROVE  FlowInv'
<1>1. \A d \in Clients : FlowOf(d)'
  BY FlowKept DEF Follows, FlowInv
<1>2. \A d \in Clients : Knows(d)' \/ Preceded(q[d])
  BY KnowsKept DEF Follows
<1> QED
  BY <1>1, <1>2, StepFlow

-----------------------------------------------------------------------------
(* Operations and the other threads.                                       *)

\* Those that only ask something plain of the service, or nothing.
LEMMA OperationFlow ==
  ASSUME Inv, FlowInv, ~JoinFirst, NEW c \in Clients,
         \/ accept(c) \/ reject(c) \/ hangup(c) \/ cancel(c) \/ leave(c)
         \/ OwnStep(c) \/ OtherDevice(c) \/ TakesEvent(c) \/ UNCHANGED avVars
  PROVE  FlowInv'
<1>1. /\ Ground(inbox) /\ OwnTypeOK
      /\ \A d \in Clients : Once(inbox[d]) /\ (Knows(d) \/ Preceded(inbox[d]))
  BY InboxGround, InboxFacts
<1>2. /\ created[c] \in ChanId /\ inviting[c] \in ChanId /\ invited[c] \in ChanId
      /\ joined[c] \in ChanId /\ (status[c] = "calling" /\ master[c]) \in BOOLEAN
      /\ (IF master[c] THEN inviting[c] ELSE invited[c]) \in ChanId
  BY <1>1 DEF OwnTypeOK
<1>3. Calm(inbox)
  <2>1. CASE accept(c)
    BY <1>1, <1>2, <2>1, AcceptCalm DEF accept
  <2>2. CASE reject(c)
    BY <1>1, <1>2, <2>2, RejectCalm DEF reject
  <2>3. CASE hangup(c)
    BY <1>1, <1>2, <2>3, CancelAndCloseCalm, UnchangedCalm DEF hangup
  <2>4. CASE cancel(c)
    BY <1>1, <1>2, <2>4, CancelAndCloseCalm DEF cancel
  <2>5. CASE leave(c)
    BY <1>1, <1>2, <2>5, LeaveCalm, UnchangedCalm DEF leave
  <2>6. CASE OtherDevice(c)
    BY <1>1, <2>6, OtherDeviceCalm DEF OtherDevice
  <2>7. CASE OwnStep(c) \/ TakesEvent(c) \/ UNCHANGED avVars
    <3>1. UNCHANGED svcVars
      BY <2>7 DEF OwnStep, CallingTimeout, GetToken, onUserLeft, TakesEvent, avVars
    <3> QED
      BY <1>1, <3>1, UnchangedCalm
  <2> QED
    BY <2>1, <2>2, <2>3, <2>4, <2>5, <2>6, <2>7
<1>4. UNCHANGED ver /\ UNCHANGED waiting
  BY DEF accept, reject, hangup, cancel, leave, OwnStep, CallingTimeout, GetToken, onUserLeft,
         OtherDevice, TakesEvent, avVars, peerVars, tokenVars
<1>5. UNCHANGED rtc \/ rtc' = [rtc EXCEPT ![c] = NoRoom]
  BY DEF accept, reject, hangup, cancel, leave, OwnStep, CallingTimeout, GetToken, onUserLeft,
         OtherDevice, TakesEvent, avVars, rtcVars, leaveChannel
<1>6. \A d \in Clients : rtc'[d] = rtc[d] \/ rtc'[d] = NoRoom
  BY <1>1, <1>5 DEF OwnTypeOK
<1> QED
  BY <1>1, <1>3, <1>4, <1>6, CalmFollows, IdleStepFlow

\* The only call is new: nobody is told or waits for anything about it.
LEMMA callFlow ==
  ASSUME Inv, FlowInv, OneCall, NEW c \in Clients, NEW p \in Clients, call(c, p)
  PROVE  FlowInv'
<1>1. Ground(inbox) /\ \A d \in Clients : Once(inbox[d])
  BY InboxGround
<1>2. \A ch \in Chan : creator[ch] = NoClient /\ ~Known(ch) /\ invitation[ch] = "none"
                       /\ callee[ch] = NoClient
  BY <1>1 DEF call, Unused, OneCall, Known, Ground, Serviced, InOrder
<1>3. \A d \in Clients, ch \in ChanId : ~Caller(d, ch)
  BY <1>2, SignalingAssumption DEF Caller
<1>4. ASSUME NEW d \in Clients, NEW i \in DOMAIN inbox[d]
      PROVE  Plain(inbox[d][i]) /\ inbox[d][i] \in Message
  <2>1. inbox[d][i] \in Message /\ Good(d, inbox[d][i]) /\ Founded(d, inbox[d][i])
    BY <1>1 DEF Ground, AllGood, Inboxes, Inv, MessagesFounded
  <2>2. inbox[d][i].ch \in ChanId
    BY <2>1 DEF Message, ChanId
  <2>3. ~Setup(inbox[d][i])
    BY <1>3, <2>1, <2>2 DEF Setup, Founded
  <2>4. inbox[d][i].kind \notin {"Join", "Control"}
    BY <1>2, <1>3, <2>1, <2>2 DEF Good, Known
  <2> QED
    BY <2>1, <2>3, <2>4 DEF Plain
<1>5. PICK m \in Message : /\ inbox' = Push(inbox, {c}, m)
                           /\ m.kind = "createCb" /\ (m.ok => m.ch \in Chan)
  <2>1. \A ch \in ChanId, ok \in BOOLEAN :
          LET m == Msg("createCb", ch, ok)
          IN  m \in Message /\ m.kind = "createCb" /\ m.ch = ch /\ m.ok = ok
    BY MsgIsMessage DEF Answer, Msg
  <2>2. CASE \E ch \in Unused : inbox' = Push(inbox, {c}, Msg("createCb", ch, TRUE))
    <3>1. PICK ch \in Chan : inbox' = Push(inbox, {c}, Msg("createCb", ch, TRUE))
      BY <2>2 DEF Unused
    <3>2. /\ Msg("createCb", ch, TRUE) \in Message
          /\ Msg("createCb", ch, TRUE).kind = "createCb" /\ Msg("createCb", ch, TRUE).ch = ch
      BY <2>1 DEF ChanId
    <3> QED
      BY <3>1, <3>2
  <2>3. CASE inbox' = Push(inbox, {c}, Msg("createCb", NoChan, FALSE))
    <3>1. /\ Msg("createCb", NoChan, FALSE) \in Message
          /\ Msg("createCb", NoChan, FALSE).kind = "createCb"
          /\ ~Msg("createCb", NoChan, FALSE).ok
      BY <2>1 DEF ChanId
    <3> QED
      BY <2>3, <3>1
  <2> QED
    BY <2>2, <2>3 DEF call, SignalingCreate
<1>6. UNCHANGED <<callee, invitation, members>>
  BY DEF call, SignalingCreate
<1>7. \A d \in Clients : NoSetup(inbox[d]) /\ Preceded(inbox[d])
  BY <1>4 DEF NoSetup, Preceded, Plain
<1>8. \A d \in Clients : Once(inbox'[d]) /\ Preceded(inbox'[d])
  BY <1>1, <1>5, <1>7, PushOrder DEF Ground
<1>9. Serviced'
  BY <1>2, <1>6 DEF Serviced, Answered
<1>10. MessagesGood'
  <2> SUFFICES ASSUME NEW d \in Clients, NEW i \in DOMAIN inbox'[d]
               PROVE  Good(d, inbox[d][i])'
    BY DEF MessagesGood, AllGood
  <2>1. CASE inbox'[d][i] = m
    BY <1>2, <1>5, <1>6, <2>1 DEF Good, Setup
  <2>2. CASE i \in DOMAIN inbox[d] /\ inbox'[d][i] = inbox[d][i]
    BY <1>4, <2>2 DEF Good, Plain
  <2> QED
    BY <1>1, <1>5, <2>1, <2>2, PushAdds DEF Ground
<1>11. ASSUME NEW d \in Clients
       PROVE  FlowOf(d)'
  <2>1. FlowOf(d) /\ Backed(d) /\ OwnTypeOK
    BY InboxFacts DEF FlowInv, Inv
  <2>2. ~NewFlow(d) /\ rtc[d] = NoRoom
    BY <1>2, <2>1 DEF FlowOf, RoomFlow, Known
  <2>3. ver'[d] = ver[d] \/ ~ver'[d]
    BY <2>1 DEF call, OwnTypeOK
  <2>4. ~(NewFlow(d)') /\ rtc'[d] = NoRoom /\ waiting'[d] = waiting[d]
    BY <2>2, <2>3 DEF NewFlow, Modern, call, rtcVars, tokenVars
  <2>5. waiting[d][1] = "free"
    <3>1. waiting[d] \in Wait
      BY <2>1 DEF OwnTypeOK
    <3>2. waiting[d][1] \in {"free", "accepted", "acceptCb", "control"} /\ waiting[d][2] \in ChanId
      BY <3>1 DEF Wait
    <3> QED
      BY <1>2, <1>3, <2>1, <3>2 DEF FlowOf, LoopFlow, Known
  <2> QED
    BY <2>4, <2>5 DEF FlowOf, LoopFlow, RoomFlow
<1> QED
  BY <1>8, <1>9, <1>10, <1>11 DEF FlowInv, Ordered

-----------------------------------------------------------------------------
(* Handlers, on the SDK thread.                                            *)

\* Those that answer nothing, or only close.
LEMMA HandlerFlow ==
  ASSUME Inv, FlowInv, NEW c \in Clients, NEW kind, kind # "Accept", Gets(c, kind),
         Silent(Rest(c)) \/ \E ch \in ChanId : SignalingClose(Rest(c), c, ch),
         UNCHANGED <<ver, waiting, rtc>>
  PROVE  FlowInv'
<1>1. /\ Ground(Rest(c)) /\ \A d \in Clients : Once(Rest(c)[d])
      /\ \A d \in Clients : Knows(d) \/ Preceded(Rest(c)[d])
  BY RestGround
<1>2. Calm(Rest(c))
  BY <1>1, SilentCalm, CloseCalm
<1> QED
  BY <1>1, <1>2, CalmFollows, IdleStepFlow

\* The answers and notifications that are only taken note of.
LEMMA NoteFlow ==
  ASSUME Inv, FlowInv, NEW c \in Clients,
         \/ signalingInviteCb(c) \/ AcceptFails(c) \/ signalingRejectCb(c) \/ signalingCloseCb(c)
         \/ signalingLeaveCb(c) \/ handleLeave(c) \/ handleClose(c) \/ handleCancelInvite(c)
         \/ handleOtherClientAccepted(c) \/ handleOtherClientRejected(c)
  PROVE  FlowInv'
<1>1. Silent(Rest(c)) /\ UNCHANGED <<ver, waiting, rtc>>
  BY DEF signalingInviteCb, AcceptFails, signalingRejectCb, signalingCloseCb, signalingLeaveCb,
         handleLeave, handleClose, handleCancelInvite, handleOtherClientAccepted,
         handleOtherClientRejected, Ends, peerVars, tokenVars, rtcVars
<1>2. \E kind \in {"inviteCb", "acceptCb", "rejectCb", "closeCb", "leaveCb", "Leave", "Close",
                   "CancelInvite", "SyncAccept", "SyncReject"} : Gets(c, kind)
  BY DEF signalingInviteCb, AcceptFails, signalingRejectCb, signalingCloseCb, signalingLeaveCb,
         handleLeave, handleClose, handleCancelInvite, handleOtherClientAccepted,
         handleOtherClientRejected, Ends
<1> QED
  BY <1>1, <1>2, HandlerFlow

\* A busy answer closes the channel.
LEMMA handleRejectedFlow ==
  ASSUME Inv, FlowInv, NEW c \in Clients, handleRejected(c)
  PROVE  FlowInv'
<1>1. UNCHANGED <<ver, waiting, rtc>>
  BY DEF handleRejected, peerVars, tokenVars, rtcVars
<1>2. CASE Gets(c, "Reject") /\ Silent(Rest(c))
  BY <1>1, <1>2, HandlerFlow
<1>3. CASE Gets(c, "Busy") /\ SignalingClose(Rest(c), c, Got(c).ch)
  BY <1>1, <1>3, GotFacts, HandlerFlow
<1> QED
  BY <1>2, <1>3 DEF handleRejected

\* The caller has its channel: it joins.
LEMMA signalingCreateCbFlow ==
  ASSUME Inv, FlowInv, NEW c \in Clients, signalingCreateCb(c)
  PROVE  FlowInv'
<1>1. Gets(c, "createCb") /\ UNCHANGED <<ver, waiting, rtc>>
  BY DEF signalingCreateCb, peerVars, tokenVars, rtcVars
<1>2. CASE Silent(Rest(c))
  BY <1>1, <1>2, HandlerFlow
<1>3. CASE Got(c).ok /\ SignalingJoin(Rest(c), c, Got(c).ch)
  <2>1. PICK ch \in ChanId : ch = Got(c).ch
    BY <1>1, GotFacts
  <2>2. Got(c).kind = "createCb" /\ Founded(c, Got(c)) /\ Setup(Got(c)) /\ Good(c, Got(c))
    BY <1>1, <1>3, GotFacts, RestGround DEF Setup
  <2>3. ch \in Chan /\ creator[ch] = c /\ invitation[ch] = "none"
    BY <2>1, <2>2 DEF Setup, Founded, Caller, Good
  <2>4. /\ Ground(Rest(c)) /\ NoSetup(Rest(c)[c])
        /\ \A d \in Clients : Once(Rest(c)[d]) /\ (Knows(d) \/ Preceded(Rest(c)[d]))
    BY <1>1, <2>2, RestGround
  <2> QED
    BY <1>1, <1>3, <2>1, <2>3, <2>4, JoinFollows, IdleStepFlow
<1> QED
  BY <1>2, <1>3 DEF signalingCreateCb

\* The caller is in: it invites.
LEMMA signalingJoinCbFlow ==
  ASSUME Inv, FlowInv, OneCall, NEW c \in Clients, signalingJoinCb(c)
  PROVE  FlowInv'
<1>1. Gets(c, "joinCb") /\ UNCHANGED <<ver, waiting, rtc>>
  BY DEF signalingJoinCb, rtcVars
<1>2. CASE SignalingClose(Rest(c), c, created[c])
  BY <1>1, <1>2, InboxFacts, HandlerFlow DEF OwnTypeOK
<1>3. CASE Got(c).ok /\ SignalingInvite(Rest(c), c, Got(c).ch, to[c])
  <2>1. PICK ch \in ChanId : ch = Got(c).ch
    BY <1>1, GotFacts
  <2>2. Got(c).kind = "joinCb" /\ Founded(c, Got(c)) /\ Setup(Got(c))
    BY <1>1, <1>3, GotFacts DEF Setup
  <2>3. ch \in Chan /\ creator[ch] = c
    BY <2>1, <2>2 DEF Setup, Founded, Caller
  <2>4. /\ Ground(Rest(c)) /\ NoSetup(Rest(c)[c])
        /\ \A d \in Clients : Knows(d) \/ Preceded(Rest(c)[d])
    BY <1>1, <2>2, RestGround
  <2>5. ASSUME NEW d \in Clients
        PROVE  NoSetup(Rest(c)[d])
    <3>1. CASE d = c
      BY <2>4, <3>1
    <3>2. CASE d # c
      <4>1. ASSUME NEW i \in DOMAIN inbox[d], Setup(inbox[d][i])
            PROVE  FALSE
        <5>1. Caller(d, inbox[d][i].ch)
          BY <4>1 DEF Inv, MessagesFounded, Founded, Setup
        <5> QED
          BY <2>3, <3>2, <5>1 DEF Caller, OneCall
      <4>2. Rest(c)[d] = inbox[d]
        BY <3>2, InboxFacts DEF Rest, Inboxes
      <4> QED
        BY <4>1, <4>2 DEF NoSetup
    <3> QED
      BY <3>1, <3>2
  <2>6. to[c] \in Clients \cup {NoClient}
    BY InboxFacts DEF OwnTypeOK
  <2>7. Follows(Rest(c))
    BY <1>3, <2>1, <2>3, <2>4, <2>5, <2>6, InviteFollows
  <2> QED
    BY <1>1, <2>4, <2>7, IdleStepFlow
<1> QED
  BY <1>2, <1>3 DEF signalingJoinCb

\* Of the only call, both sides of which run a new version if this one knows so.
LEMMA AcceptSucceedsFlow ==
  ASSUME Inv, FlowInv, OneCall, NEW c \in Clients, AcceptSucceeds(c)
  PROVE  FlowInv'
<1>1. /\ Gets(c, "acceptCb") /\ Silent(Rest(c)) /\ Got(c).ok /\ UNCHANGED <<ver, rtc>>
      /\ waiting' = IF NewFlow(c) THEN [waiting EXCEPT ![c] = <<"acceptCb", Got(c).ch>>]
                    ELSE waiting
  BY DEF AcceptSucceeds, peerVars, rtcVars
<1>2. Got(c).ch \in Chan
  BY <1>1, GotFacts DEF Founded, Callee
<1>3. /\ Ground(Rest(c))
      /\ \A d \in Clients : Once(Rest(c)[d]) /\ (Knows(d) \/ Preceded(Rest(c)[d]))
  BY <1>1, RestGround
<1>4. Follows(Rest(c))
  BY <1>1, <1>3, SilentCalm, CalmFollows
<1>5. CASE ~NewFlow(c)
  BY <1>1, <1>3, <1>4, <1>5, IdleStepFlow
<1>6. CASE NewFlow(c)
  <2>1. Known(Got(c).ch) /\ Both(Got(c).ch)
    BY <1>2, <1>6 DEF FlowInv, FlowOf, OneCall
  <2>2. \A d \in Clients : Knows(d)' \/ Preceded(Rest(c)[d])
    BY <1>1, <1>3, <1>4, KnowsKept DEF Follows
  <2>3. waiting' = [waiting EXCEPT ![c] = <<"acceptCb", Got(c).ch>>]
    BY <1>1, <1>6
  <2>4. ASSUME NEW d \in Clients
        PROVE  FlowOf(d)'
    <3>1. CASE d # c
      BY <1>1, <1>4, <2>3, <3>1, InboxFacts, FlowKept DEF Follows, FlowInv, OwnTypeOK
    <3>2. CASE d = c
      <4>1. waiting'[c] = <<"acceptCb", Got(c).ch>>
        BY <2>3, InboxFacts DEF OwnTypeOK
      <4>2. LoopFlow(c)'
        BY <1>4, <2>1, <4>1, KnownKept DEF LoopFlow, Follows
      <4>3. /\ RoomFlow(c)'
            /\ (NewFlow(c) => \E ch \in Chan : Known(ch) /\ Both(ch))'
        BY <1>1, <1>4, RoomFlowKept, NewFlowKept DEF Follows, FlowInv, FlowOf
      <4> QED
        BY <3>2, <4>2, <4>3 DEF FlowOf
    <3> QED
      BY <3>1, <3>2
  <2> QED
    BY <1>4, <2>2, <2>4, StepFlow
<1> QED
  BY <1>5, <1>6

\* Who enters is told of after the acceptance: the caller knows by then.
LEMMA handleJoinFlow ==
  ASSUME Inv, FlowInv, NEW c \in Clients, handleJoin(c)
  PROVE  FlowInv'
<1>1. Gets(c, "Join") /\ UNCHANGED <<ver, waiting, rtc>>
  BY DEF handleJoin, peerVars, tokenVars, rtcVars
<1>2. PICK ch \in Chan : ch = Got(c).ch
  BY <1>1, GotFacts DEF Notice
<1>3. CASE Silent(Rest(c))
  BY <1>1, <1>3, HandlerFlow
<1>4. CASE ~NewFlow(c) /\ SignalingControl(Rest(c), ch, callee[ch])
  <2>1. /\ Ground(Rest(c)) /\ Good(c, Got(c)) /\ Knows(c)
        /\ \A d \in Clients : Once(Rest(c)[d]) /\ (Knows(d) \/ Preceded(Rest(c)[d]))
    BY <1>1, RestGround
  <2>2. Got(c).kind = "Join" /\ Answered(ch)
    BY <1>1, <1>2, GotFacts DEF Founded
  <2>3. Caller(c, ch)
    BY <1>2, <2>1, <2>2 DEF Good
  <2>4. Known(ch) /\ ~Both(ch)
    BY <1>4, <2>1, <2>3, SignalingAssumption DEF Known, Both, Knows, Caller, NewFlow
  <2>5. Follows(Rest(c))
    BY <1>4, <2>1, <2>2, <2>4, ControlCalm, CalmFollows
  <2> QED
    BY <1>1, <2>1, <2>5, IdleStepFlow
<1> QED
  BY <1>2, <1>3, <1>4 DEF handleJoin

\* A step in which one client takes up something new.
LEMMA OneStepFlow ==
  ASSUME Inv, FlowInv, NEW q, Follows(q), NEW c \in Clients,
         \A d \in Clients \ {c} : /\ Knows(d) \/ Preceded(q[d])
                                  /\ ver'[d] = ver[d] /\ waiting'[d] = waiting[d]
                                  /\ rtc'[d] = rtc[d],
         Knows(c)' \/ Preceded(q[c]), FlowOf(c)'
  PROVE  FlowInv'
<1>1. ASSUME NEW d \in Clients
      PROVE  FlowOf(d)' /\ (Knows(d)' \/ Preceded(q[d]))
  <2>1. CASE d # c
    BY <2>1, FlowKept, KnowsKept DEF Follows, FlowInv
  <2>2. CASE d = c
    BY <2>2
  <2> QED
    BY <2>1, <2>2
<1> QED
  BY <1>1, StepFlow

\* An invitation says the caller's version, and the callee knows its own.
LEMMA handleInvitedFlow ==
  ASSUME Inv, FlowInv, OneCall, NEW c \in Clients, handleInvited(c)
  PROVE  FlowInv'
<1>1. Gets(c, "Invite") /\ UNCHANGED <<waiting, rtc>>
  BY DEF handleInvited, tokenVars, rtcVars
<1>2. PICK ch \in Chan : ch = Got(c).ch
  BY <1>1, GotFacts DEF Notice
<1>3. ver' = [ver EXCEPT ![c] = Modern(creator[ch])]
  BY <1>2 DEF handleInvited
<1>4. callee[ch] = c /\ c # NoClient
  BY <1>1, <1>2, GotFacts, SignalingAssumption DEF Founded, Callee
<1>5. Known(ch)
  BY <1>4, InboxFacts DEF Known, FlowInv, Serviced, InOrder
<1>6. /\ Ground(Rest(c)) /\ \A d \in Clients : Once(Rest(c)[d])
      /\ \A d \in Clients \ {c} : Knows(d) \/ Preceded(Rest(c)[d])
  BY <1>1, RestGround
<1>7. Follows(Rest(c))
  <2>1. SignalingReject(Rest(c), c, ch, "Busy", FALSE) \/ Silent(Rest(c))
    BY <1>2 DEF handleInvited
  <2>2. Calm(Rest(c))
    BY <1>6, <2>1, RejectCalm, SilentCalm DEF ChanId
  <2> QED
    BY <1>6, <2>2, CalmFollows
<1>8. /\ ver'[c] = Modern(creator[ch])
      /\ \A d \in Clients \ {c} : ver'[d] = ver[d]
  BY <1>3, InboxFacts DEF OwnTypeOK
<1>9. Known(ch)' /\ (Both(ch)' <=> Both(ch)) /\ UNCHANGED <<creator[ch], callee[ch]>>
  BY <1>5, <1>7, KnownKept DEF Follows
<1>10. Knows(c)'
  BY <1>4, <1>8, <1>9 DEF Knows, Caller, OneCall, Modern
<1>11. FlowOf(c)'
  <2>1. (NewFlow(c) => \E x \in Chan : Known(x) /\ Both(x))'
    BY <1>4, <1>8, <1>9 DEF NewFlow, Both, Modern
  <2>2. RoomFlow(c)'
    BY <1>1, <1>7, RoomFlowKept DEF Follows, FlowInv, FlowOf
  <2>3. LoopFlow(c)'
    BY <1>1, GotFacts DEF LoopFlow, Free
  <2> QED
    BY <2>1, <2>2, <2>3 DEF FlowOf
<1> QED
  BY <1>1, <1>6, <1>7, <1>8, <1>10, <1>11, OneStepFlow

\* The acceptance says the callee's version.
LEMMA handleAcceptedFlow ==
  ASSUME Inv, FlowInv, OneCall, NEW c \in Clients, handleAccepted(c)
  PROVE  FlowInv'
<1>1. Gets(c, "Accept") /\ Silent(Rest(c)) /\ UNCHANGED rtc
  BY DEF handleAccepted, rtcVars
<1>2. PICK ch \in Chan : ch = Got(c).ch
  BY <1>1, GotFacts DEF Notice
<1>3. /\ ver' = [ver EXCEPT ![c] = Modern(callee[ch])]
      /\ waiting' = [waiting EXCEPT ![c] = <<"accepted", ch>>]
  BY <1>2 DEF handleAccepted
<1>4. creator[ch] = c /\ c # NoClient /\ callee[ch] # NoClient
  BY <1>1, <1>2, GotFacts, SignalingAssumption DEF Founded, Caller, FlowInv, Serviced
<1>5. /\ Ground(Rest(c)) /\ \A d \in Clients : Once(Rest(c)[d])
      /\ \A d \in Clients \ {c} : Knows(d) \/ Preceded(Rest(c)[d])
  BY <1>1, RestGround
<1>6. Follows(Rest(c)) /\ UNCHANGED <<creator, callee>>
  BY <1>1, <1>5, SilentCalm, CalmFollows DEF Silent
<1>7. /\ ver'[c] = Modern(callee[ch]) /\ waiting'[c] = <<"accepted", ch>>
      /\ \A d \in Clients \ {c} : ver'[d] = ver[d] /\ waiting'[d] = waiting[d]
  BY <1>3, InboxFacts DEF OwnTypeOK
<1>8. Knows(c)'
  BY <1>4, <1>6, <1>7 DEF Knows, Caller, OneCall, Modern
<1>9. FlowOf(c)'
  <2>1. (NewFlow(c) => \E x \in Chan : Known(x) /\ Both(x))'
    BY <1>4, <1>6, <1>7 DEF NewFlow, Known, Both, Modern
  <2>2. RoomFlow(c)'
    BY <1>1, <1>6, RoomFlowKept DEF Follows, FlowInv, FlowOf
  <2>3. LoopFlow(c)'
    BY <1>4, <1>6, <1>7, <1>8 DEF LoopFlow, Caller
  <2> QED
    BY <2>1, <2>2, <2>3 DEF FlowOf
<1> QED
  BY <1>1, <1>5, <1>6, <1>7, <1>8, <1>9, OneStepFlow

\* A control message: one side runs an old version.
LEMMA handleControlFlow ==
  ASSUME Inv, FlowInv, NEW c \in Clients, handleControl(c)
  PROVE  FlowInv'
<1>1. /\ Gets(c, "Control") /\ Silent(Rest(c)) /\ UNCHANGED <<ver, rtc>>
      /\ waiting' = [waiting EXCEPT ![c] = <<"control", Got(c).ch>>]
  BY DEF handleControl, rtcVars, peerVars
<1>2. /\ Ground(Rest(c)) /\ Good(c, Got(c))
      /\ \A d \in Clients : Once(Rest(c)[d]) /\ (Knows(d) \/ Preceded(Rest(c)[d]))
  BY <1>1, RestGround
<1>3. Known(Got(c).ch) /\ ~Both(Got(c).ch)
  BY <1>1, <1>2, GotFacts DEF Good
<1>4. Follows(Rest(c))
  BY <1>1, <1>2, SilentCalm, CalmFollows
<1>5. waiting'[c] = <<"control", Got(c).ch>> /\ \A d \in Clients \ {c} : waiting'[d] = waiting[d]
  BY <1>1, InboxFacts DEF OwnTypeOK
<1>6. FlowOf(c)'
  <2>1. LoopFlow(c)'
    BY <1>3, <1>4, <1>5, KnownKept DEF LoopFlow, Follows
  <2>2. RoomFlow(c)' /\ (NewFlow(c) => \E ch \in Chan : Known(ch) /\ Both(ch))'
    BY <1>1, <1>4, RoomFlowKept, NewFlowKept DEF Follows, FlowInv, FlowOf
  <2> QED
    BY <2>1, <2>2 DEF FlowOf
<1>7. Knows(c)' \/ Preceded(Rest(c)[c])
  BY <1>1, <1>2, <1>4, KnowsKept DEF Follows
<1> QED
  BY <1>1, <1>2, <1>4, <1>5, <1>6, <1>7, OneStepFlow

\* The loops end, and the engine enters the room of the flow that was agreed.
LEMMA LoopEndFlow ==
  ASSUME Inv, FlowInv, OneCall, NEW c \in Clients,
         AcceptJoins(c) \/ AcceptedJoins(c) \/ ControlJoins(c)
  PROVE  FlowInv'
<1>1. /\ UNCHANGED svcVars /\ UNCHANGED ver
      /\ waiting' = [waiting EXCEPT ![c] = Free]
  BY DEF AcceptJoins, AcceptedJoins, ControlJoins, peerVars
<1>2. /\ Ground(inbox) /\ OwnTypeOK
      /\ \A d \in Clients : Once(inbox[d]) /\ (Knows(d) \/ Preceded(inbox[d]))
  BY InboxGround, InboxFacts
<1>3. Follows(inbox)
  BY <1>1, <1>2, UnchangedCalm, CalmFollows
<1>4. PICK ch \in ChanId, by \in {"name", "id"} :
        /\ joinChannel(c, <<ch, by>>)
        /\ ch \in Chan => Known(ch) /\ (by = "name" <=> Both(ch))
  <2>1. FlowOf(c) /\ waiting[c] \in Wait /\ name[c] \in ChanId
    BY <1>2 DEF FlowInv, OwnTypeOK
  <2>2. waiting[c][2] \in ChanId
    BY <2>1 DEF Wait
  <2>3. CASE AcceptJoins(c)
    <3>1. Known(waiting[c][2]) /\ Both(waiting[c][2]) /\ joinChannel(c, <<name[c], "name">>)
      BY <2>1, <2>3 DEF AcceptJoins, FlowOf, LoopFlow
    <3>2. name[c] \in Chan => name[c] = waiting[c][2]
      BY <3>1 DEF OneCall, Known
    <3> QED
      BY <2>1, <3>1, <3>2
  <2>4. CASE AcceptedJoins(c)
    <3>1. Caller(c, waiting[c][2]) /\ Knows(c)
      BY <2>1, <2>4 DEF AcceptedJoins, FlowOf, LoopFlow
    <3>2. Known(waiting[c][2]) /\ (NewFlow(c) <=> Both(waiting[c][2]))
      BY <3>1, SignalingAssumption DEF Caller, Knows, Known, Both, NewFlow
    <3>3. CASE NewFlow(c)
      <4>1. name[c] \in Chan => name[c] = waiting[c][2]
        BY <3>2 DEF OneCall, Known
      <4>2. joinChannel(c, <<name[c], "name">>)
        BY <2>4, <3>3 DEF AcceptedJoins
      <4> QED
        BY <2>1, <3>2, <3>3, <4>1, <4>2
    <3>4. CASE ~NewFlow(c)
      <4>1. joinChannel(c, <<waiting[c][2], "id">>)
        BY <2>4, <3>4 DEF AcceptedJoins
      <4> QED
        BY <2>2, <3>2, <3>4, <4>1
    <3> QED
      BY <3>3, <3>4
  <2>5. CASE ControlJoins(c)
    <3>1. /\ Known(waiting[c][2]) /\ ~Both(waiting[c][2])
          /\ joinChannel(c, <<waiting[c][2], "id">>)
      BY <2>1, <2>5 DEF ControlJoins, FlowOf, LoopFlow
    <3> QED
      BY <2>2, <3>1
  <2> QED
    BY <2>3, <2>4, <2>5
<1>5. \A d \in Clients : rtc'[d] # rtc[d] => d = c /\ rtc'[d] = <<ch, by>> /\ ch # NoChan
  BY <1>2, <1>4, joinTyped
<1>6. waiting'[c] = Free /\ \A d \in Clients \ {c} : waiting'[d] = waiting[d]
  BY <1>1, <1>2 DEF OwnTypeOK
<1>7. FlowOf(c)'
  <2>1. /\ (NewFlow(c) => \E x \in Chan : Known(x) /\ Both(x))'
        /\ LoopFlow(c)'
    BY <1>1, <1>3, <1>6, NewFlowKept, LoopFlowKept DEF Follows, FlowInv, FlowOf
  <2>2. RoomFlow(c)'
    <3>1. CASE rtc'[c] = rtc[c]
      BY <1>3, <3>1, RoomFlowKept DEF Follows, FlowInv, FlowOf
    <3>2. CASE rtc'[c] # rtc[c]
      <4>1. rtc'[c] = <<ch, by>> /\ ch \in Chan
        BY <1>5, <3>2 DEF ChanId
      <4>2. Known(ch)' /\ (Both(ch)' <=> Both(ch))
        BY <1>3, <1>4, <4>1, KnownKept DEF Follows
      <4> QED
        BY <1>4, <4>1, <4>2 DEF RoomFlow
    <3> QED
      BY <3>1, <3>2
  <2> QED
    BY <2>1, <2>2 DEF FlowOf
<1>8. Knows(c)' \/ Preceded(inbox[c])
  BY <1>1, <1>2, <1>3, KnowsKept DEF Follows
<1> QED
  BY <1>1, <1>2, <1>3, <1>5, <1>6, <1>7, <1>8, OneStepFlow

\* Every step keeps the flow.
LEMMA NextFlow ==
  ASSUME Inv, FlowInv, OneCall, ~JoinFirst, [Next]_avVars
  PROVE  FlowInv'
<1>1. CASE UNCHANGED avVars
  <2>1. CASE Clients = {}
    BY <1>1, <2>1 DEF avVars, svcVars, FlowInv, Serviced, MessagesGood, AllGood, Answered
  <2>2. CASE Clients # {}
    BY <1>1, <2>2, OperationFlow
  <2> QED
    BY <2>1, <2>2
<1>2. CASE Next
  <2>1. PICK c \in Clients : \/ Operation(c) \/ SdkStep(c) \/ AcceptStep(c) \/ OwnStep(c)
                             \/ OtherDevice(c) \/ TakesEvent(c)
    BY <1>2 DEF Next
  <2>2. CASE Operation(c)
    BY <2>2, callFlow, OperationFlow DEF Operation
  <2>3. CASE SdkStep(c)
    BY <2>3, signalingCreateCbFlow, signalingJoinCbFlow, NoteFlow, handleInvitedFlow,
       handleAcceptedFlow, LoopEndFlow, handleControlFlow, handleRejectedFlow, handleJoinFlow
    DEF SdkStep
  <2>4. CASE AcceptStep(c)
    BY <2>4, NoteFlow, AcceptSucceedsFlow, LoopEndFlow DEF AcceptStep
  <2> QED
    BY <2>1, <2>2, <2>3, <2>4, OperationFlow
<1> QED
  BY <1>1, <1>2

\* At the start there is no message and no room.
LEMMA InitFlow == Init => FlowInv
<1> SUFFICES ASSUME Init
             PROVE  FlowInv
  OBVIOUS
<1>1. Serviced
  BY DEF Init, SvcInit, Serviced, Answered
<1>2. \A c \in Clients : DOMAIN inbox[c] = {}
  <2>1. \A c \in Clients : inbox[c] = <<>>
    BY DEF Init, SvcInit
  <2> QED
    BY <2>1
<1>3. MessagesGood /\ \A c \in Clients : Ordered(c)
  BY <1>2 DEF MessagesGood, AllGood, Ordered, Once, Preceded
<1>4. \A c \in Clients : FlowOf(c)
  BY DEF Init, FlowOf, LoopFlow, RoomFlow, NewFlow, Free, NoRoom
<1> QED
  BY <1>1, <1>3, <1>4 DEF FlowInv

\* Whoever enters the room of the only call enters it as the versions of both
\* sides ask for: by its name if both know the new flow, else by the channel's id.
THEOREM FlowIsAgreed ==
  ASSUME MaxCalls <= 1, ~JoinFirst
  PROVE  Spec => [](\A c \in Clients : RoomFlow(c))
<1>1. OneCall
  BY SignalingAssumption DEF OneCall, Chan
<1>2. Init => Inv /\ FlowInv
  BY InitInv, InitFlow
<1>3. Inv /\ FlowInv /\ [Next]_avVars => (Inv /\ FlowInv)'
  BY <1>1, NextKeepsInv, NextFlow
<1>4. Inv /\ FlowInv => \A c \in Clients : RoomFlow(c)
  BY DEF FlowInv, FlowOf
<1> QED
  BY <1>2, <1>3, <1>4, PTL DEF Spec
=============================================================================
