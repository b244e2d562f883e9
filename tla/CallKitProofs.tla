----------------------------- MODULE CallKitProofs -----------------------------
(***************************************************************************)
(* The call kit is one of the applications that the theorems about the     *)
(* component (AvChatProofs.tla) are about, so what they say of the         *)
(* component holds of the whole call path; and no event of the component   *)
(* reaches the manager before it has a window.  For any clients, channels, *)
(* faults, versions, and users, however hasty.                             *)
(***************************************************************************)
EXTENDS CallKit, AvChatProofs, FiniteSetTheorems

-----------------------------------------------------------------------------
(* What is so as long as a client has had no window.                       *)

\* Nobody without a window asks for anything, so no answer to an accept comes.
NoAnswer(q, c) == \A i \in DOMAIN q[c] : q[c][i].kind # "acceptCb"

\* The first thing the service has to say to such a client is an invitation.
Stranger(c) == \A ch \in Chan : creator[ch] # c /\ c \notin members[ch]

Uncalled(q, c) ==
  /\ Stranger(c)
  /\ \/ q[c] = <<>> /\ \A ch \in Chan : callee[ch] # c
     \/ q[c] # <<>> /\ Head(q[c]).kind = "Invite"

Untouched(c) ==
  /\ status[c] = "idle" /\ ~timer[c] /\ waiting[c] = Free
  /\ rtc[c] = NoRoom /\ ~left[c] /\ events[c] = <<>>
  /\ Uncalled(inbox, c)

\* ... and the first thing it hears of the component.
Announced(c) == events[c] # <<>> /\ Head(events[c]).kind = "onInvited"

Before(c) ==
  /\ waiting[c][1] # "acceptCb" /\ NoAnswer(inbox, c)
  /\ Untouched(c) \/ Announced(c)

Windowless(c) == form[c] = NoForm => requests[c] = <<>> /\ ghost[c] = NoForm /\ Before(c)

-----------------------------------------------------------------------------
(* The inductive invariant.                                                *)

UiTypeOK ==
  /\ form \in [Clients -> Form]
  /\ ghost \in [Clients -> Form]
  /\ requests \in [Clients -> Seq(Op)]

\* Nobody calls himself.
NoSelfCall ==
  \A c \in Clients : \A i \in DOMAIN requests[c] :
    requests[c][i].op = "call" => requests[c][i].peer \in Clients \ {c}

\* Who is invited is invited by somebody, and the window is told by whom.
Inviters ==
  /\ \A ch \in Chan : callee[ch] # NoClient => creator[ch] \in Clients
  /\ \A c \in Clients : \A i \in DOMAIN events[c] :
       events[c][i].kind = "onInvited" => events[c][i].who \in Clients

KitInv == Inv /\ UiTypeOK /\ NoSelfCall /\ Inviters /\ \A c \in Clients : Windowless(c)

-----------------------------------------------------------------------------
(* Inboxes.                                                                *)

First(q, c) == q[c] # <<>> /\ Head(q[c]).kind = "Invite"

\* Push adds at the end.
LEMMA PushAtEnd ==
  ASSUME NEW q \in Inboxes, NEW S, NEW m \in Message, NEW c \in Clients
  PROVE  /\ Push(q, S, m) \in Inboxes
         /\ c \notin S => Push(q, S, m)[c] = q[c]
         /\ c \in S => Push(q, S, m)[c] = Append(q[c], m)
         /\ q[c] \in Seq(Message)
BY DEF Push, Inboxes

LEMMA AppendFacts ==
  ASSUME NEW T, NEW s \in Seq(T), NEW m \in T
  PROVE  /\ Append(s, m) \in Seq(T) /\ Append(s, m) # <<>>
         /\ s # <<>> => Head(Append(s, m)) = Head(s)
         /\ s = <<>> => Head(Append(s, m)) = m
         /\ \A i \in DOMAIN Append(s, m) :
              (i \in DOMAIN s /\ Append(s, m)[i] = s[i]) \/ Append(s, m)[i] = m
OBVIOUS

LEMMA TailFacts ==
  ASSUME NEW T, NEW s \in Seq(T), s # <<>>
  PROVE  /\ Tail(s) \in Seq(T) /\ Head(s) \in T /\ Head(s) = s[1] /\ 1 \in DOMAIN s
         /\ \A i \in DOMAIN Tail(s) : \E j \in DOMAIN s : Tail(s)[i] = s[j]
<1>1. Len(s) \in Nat /\ Len(s) # 0 /\ DOMAIN s = 1..Len(s)
  OBVIOUS
<1>2. Tail(s) \in Seq(T) /\ Len(Tail(s)) = Len(s) - 1 /\ DOMAIN Tail(s) = 1..Len(s) - 1
  BY <1>1
<1>3. ASSUME NEW i \in DOMAIN Tail(s)
      PROVE  i + 1 \in DOMAIN s /\ Tail(s)[i] = s[i + 1]
  BY <1>1, <1>2
<1> QED
  BY <1>1, <1>2, <1>3

\* What a message more leaves as it was.
LEMMA PushKeeps ==
  ASSUME NEW q \in Inboxes, NEW S, NEW m \in Message, NEW c \in Clients
  PROVE  /\ Push(q, S, m) \in Inboxes
         /\ c \notin S => Push(q, S, m)[c] = q[c]
         /\ NoAnswer(q, c) /\ (c \notin S \/ m.kind # "acceptCb") => NoAnswer(Push(q, S, m), c)
         /\ First(q, c) => First(Push(q, S, m), c)
         /\ q[c] = <<>> /\ c \in S /\ m.kind = "Invite" => First(Push(q, S, m), c)
<1>1. CASE c \notin S
  BY <1>1, PushAtEnd DEF NoAnswer, First
<1>2. CASE c \in S
  <2>1. Push(q, S, m)[c] = Append(q[c], m) /\ q[c] \in Seq(Message)
    BY <1>2, PushAtEnd
  <2>2. /\ Push(q, S, m)[c] # <<>>
        /\ q[c] # <<>> => Head(Push(q, S, m)[c]) = Head(q[c])
        /\ q[c] = <<>> => Head(Push(q, S, m)[c]) = m
        /\ \A i \in DOMAIN Push(q, S, m)[c] :
             (i \in DOMAIN q[c] /\ Push(q, S, m)[c][i] = q[c][i]) \/ Push(q, S, m)[c][i] = m
    BY <2>1, AppendFacts
  <2>3. NoAnswer(q, c) /\ m.kind # "acceptCb" => NoAnswer(Push(q, S, m), c)
    BY <2>2 DEF NoAnswer
  <2> QED
    BY <1>2, <2>2, <2>3, PushAtEnd DEF First
<1> QED
  BY <1>1, <1>2

\* The same for the two kinds of messages there are.
LEMMA MsgKeeps ==
  ASSUME NEW q \in Inboxes, NEW S, NEW kind \in Answer, NEW ch \in ChanId, NEW ok \in BOOLEAN,
         NEW c \in Clients
  PROVE  /\ Push(q, S, Msg(kind, ch, ok)) \in Inboxes
         /\ c \notin S => Push(q, S, Msg(kind, ch, ok))[c] = q[c]
         /\ NoAnswer(q, c) /\ (c \notin S \/ kind # "acceptCb")
              => NoAnswer(Push(q, S, Msg(kind, ch, ok)), c)
<1>1. Msg(kind, ch, ok) \in Message /\ Msg(kind, ch, ok).kind = kind
  BY MsgIsMessage DEF Msg
<1> QED
  BY <1>1, PushKeeps

\* An answer to d, no answer to an accept.
AnswerLike(m) == m \in Message /\ m.kind # "acceptCb"

LEMMA AnswerKeeps ==
  ASSUME NEW q \in Inboxes, NEW d \in Clients, NEW m, AnswerLike(m), NEW c \in Clients
  PROVE  /\ Push(q, {d}, m) \in Inboxes
         /\ c # d => Push(q, {d}, m)[c] = q[c]
         /\ NoAnswer(q, c) => NoAnswer(Push(q, {d}, m), c)
BY PushKeeps DEF AnswerLike

LEMMA Answers ==
  \A kind \in Answer \ {"acceptCb"}, ch \in ChanId :
    AnswerLike(Msg(kind, ch, TRUE)) /\ AnswerLike(Msg(kind, ch, FALSE))
BY MsgIsMessage DEF AnswerLike, Msg

LEMMA NewsKeeps ==
  ASSUME NEW q \in Inboxes, NEW S, NEW kind \in Notice, NEW ch \in Chan, NEW c \in Clients
  PROVE  /\ Push(q, S, News(kind, ch)) \in Inboxes
         /\ c \notin S => Push(q, S, News(kind, ch))[c] = q[c]
         /\ NoAnswer(q, c) => NoAnswer(Push(q, S, News(kind, ch)), c)
         /\ First(q, c) => First(Push(q, S, News(kind, ch)), c)
         /\ q[c] = <<>> /\ c \in S /\ kind = "Invite" => First(Push(q, S, News(kind, ch)), c)
<1>1. News(kind, ch) \in Message /\ News(kind, ch).kind = kind /\ kind # "acceptCb"
  BY MsgIsMessage DEF News, Msg, Notice
<1> QED
  BY <1>1, PushKeeps

-----------------------------------------------------------------------------
(* No operation of the service, asked for by d, touches a client c it has  *)
(* not invited.                                                            *)

Spares(q, c, d) ==
  /\ NoAnswer(q, c) => NoAnswer(inbox, c)'
  /\ c # d /\ Uncalled(q, c) => Uncalled(inbox, c)'

LEMMA Legal ==
  ASSUME NEW legal \in BOOLEAN, NEW ok \in Verdicts(legal)
  PROVE  ok \in BOOLEAN /\ (ok => legal)
BY DEF Verdicts

\* A message to d alone, of a step that changes no channel.
LEMMA SilentSpares ==
  ASSUME NEW q, NEW c \in Clients, NEW d \in Clients, Silent(q)
  PROVE  Spares(q, c, d)
BY DEF Silent, Spares, NoAnswer, Uncalled, Stranger

LEMMA CreateSpares ==
  ASSUME SvcTypeOK, NEW q \in Inboxes, NEW c \in Clients, NEW d \in Clients, SignalingCreate(q, d)
  PROVE  Spares(q, c, d)
<1>1. PICK ch \in ChanId, ok \in BOOLEAN : inbox' = Push(q, {d}, Msg("createCb", ch, ok))
  <2>1. \/ \E ch \in Unused : inbox' = Push(q, {d}, Msg("createCb", ch, TRUE))
        \/ inbox' = Push(q, {d}, Msg("createCb", NoChan, FALSE))
    BY DEF SignalingCreate
  <2> QED
    BY <2>1 DEF Unused, ChanId
<1>2. "createCb" \in Answer
  BY DEF Answer
<1>3. /\ c # d => inbox'[c] = q[c]
      /\ NoAnswer(q, c) => NoAnswer(inbox', c)
  BY <1>1, <1>2, MsgKeeps
<1>4. c # d /\ Stranger(c) => Stranger(c)'
  BY DEF Stranger, SignalingCreate, SvcTypeOK, Unused
<1>5. callee' = callee
  BY DEF SignalingCreate
<1> QED
  BY <1>3, <1>4, <1>5 DEF Spares, Uncalled, NoAnswer

LEMMA JoinSpares ==
  ASSUME SvcTypeOK, NEW q \in Inboxes, NEW c \in Clients, NEW d \in Clients, NEW ch \in ChanId,
         SignalingJoin(q, d, ch)
  PROVE  Spares(q, c, d)
<1>0. /\ AnswerLike(Msg("joinCb", ch, TRUE)) /\ AnswerLike(Msg("joinCb", ch, FALSE))
      /\ "Join" \in Notice
  BY Answers DEF Answer, Notice
<1>1. CASE inbox' = Push(q, {d}, Msg("joinCb", ch, FALSE)) /\ members' = members
  <2>1. /\ c # d => inbox'[c] = q[c]
        /\ NoAnswer(q, c) => NoAnswer(inbox', c)
    BY <1>0, <1>1, AnswerKeeps
  <2> QED
    BY <1>1, <2>1 DEF SignalingJoin, Spares, Uncalled, Stranger, NoAnswer
<1>2. CASE /\ ch \in Chan /\ members' = [members EXCEPT ![ch] = @ \cup {d}]
            /\ inbox' = Push(Push(q, {d}, Msg("joinCb", ch, TRUE)), members[ch] \ {d},
                             News("Join", ch))
  <2> DEFINE r == Push(q, {d}, Msg("joinCb", ch, TRUE))
  <2>1. /\ r \in Inboxes /\ (c # d => r[c] = q[c])
        /\ NoAnswer(q, c) => NoAnswer(r, c)
    BY <1>0, AnswerKeeps
  <2> HIDE DEF r
  <2>2. /\ c \notin members[ch] => Push(r, members[ch] \ {d}, News("Join", ch))[c] = r[c]
        /\ NoAnswer(r, c) => NoAnswer(Push(r, members[ch] \ {d}, News("Join", ch)), c)
    BY <1>0, <1>2, <2>1, NewsKeeps
  <2>3. inbox' = Push(r, members[ch] \ {d}, News("Join", ch))
    BY <1>2 DEF r
  <2>4. /\ NoAnswer(q, c) => NoAnswer(inbox', c)
        /\ c # d /\ Stranger(c) => inbox'[c] = q[c]
    BY <1>2, <2>1, <2>2, <2>3 DEF Stranger
  <2>5. c # d /\ Stranger(c) => Stranger(c)'
    BY <1>2 DEF SignalingJoin, Stranger, SvcTypeOK
  <2> QED
    BY <2>4, <2>5 DEF SignalingJoin, Spares, Uncalled, NoAnswer
<1>3. PICK ok \in Verdicts(ch \in Chan /\ open[ch]) :
        \/ /\ ok
           /\ members' = [members EXCEPT ![ch] = @ \cup {d}]
            /\ inbox' = Push(Push(q, {d}, Msg("joinCb", ch, TRUE)), members[ch] \ {d},
                             News("Join", ch))
        \/ /\ ~ok
           /\ inbox' = Push(q, {d}, Msg("joinCb", ch, FALSE))
           /\ members' = members
  BY DEF SignalingJoin
<1>4. ok => ch \in Chan
  BY <1>3 DEF Verdicts
<1> QED
  BY <1>1, <1>2, <1>3, <1>4

\* The one invited hears of it, and of nothing before.
LEMMA InviteSpares ==
  ASSUME SvcTypeOK, NEW q \in Inboxes, NEW c \in Clients, NEW d \in Clients, NEW ch \in Chan,
         NEW p, SignalingInvite(q, d, ch, p)
  PROVE  Spares(q, c, d)
<1>0. /\ AnswerLike(Msg("inviteCb", ch, TRUE)) /\ AnswerLike(Msg("inviteCb", ch, FALSE))
      /\ "Invite" \in Notice
  BY Answers DEF Answer, Notice, ChanId
<1>1. c # d /\ Stranger(c) => Stranger(c)'
  BY DEF SignalingInvite, Stranger
<1>2. CASE inbox' = Push(q, {d}, Msg("inviteCb", ch, FALSE)) /\ callee' = callee
  <2>1. /\ c # d => inbox'[c] = q[c]
        /\ NoAnswer(q, c) => NoAnswer(inbox', c)
    BY <1>0, <1>2, AnswerKeeps
  <2> QED
    BY <1>1, <1>2, <2>1 DEF Spares, Uncalled, NoAnswer
<1>3. CASE /\ callee' = [callee EXCEPT ![ch] = p]
           /\ inbox' = Push(Push(q, {d}, Msg("inviteCb", ch, TRUE)), {p}, News("Invite", ch))
  <2> DEFINE r == Push(q, {d}, Msg("inviteCb", ch, TRUE))
  <2>1. /\ r \in Inboxes /\ (c # d => r[c] = q[c])
        /\ NoAnswer(q, c) => NoAnswer(r, c)
    BY <1>0, AnswerKeeps
  <2> HIDE DEF r
  <2>2. inbox' = Push(r, {p}, News("Invite", ch))
    BY <1>3 DEF r
  <2>3. /\ c # p => inbox'[c] = r[c]
        /\ NoAnswer(r, c) => NoAnswer(inbox', c)
        /\ First(r, c) => First(inbox', c)
        /\ r[c] = <<>> /\ c = p => First(inbox', c)
    BY <1>0, <2>1, <2>2, NewsKeeps
  <2>4. c # p => \A x \in Chan : callee[x] # c => callee'[x] # c
    BY <1>3 DEF SvcTypeOK
  <2> QED
    BY <1>1, <2>1, <2>3, <2>4 DEF Spares, Uncalled, First, NoAnswer
<1> QED
  BY <1>2, <1>3 DEF SignalingInvite

\* A message to members, to the creator or to who was invited.
LEMMA AboutOwnCall ==
  ASSUME SvcTypeOK, NEW q \in Inboxes, NEW c \in Clients, NEW ch \in Chan,
         NEW kind \in Notice, NEW S, S \subseteq members[ch] \cup {creator[ch]}
  PROVE  /\ Push(q, S, News(kind, ch)) \in Inboxes
         /\ Stranger(c) => Push(q, S, News(kind, ch))[c] = q[c]
         /\ NoAnswer(q, c) => NoAnswer(Push(q, S, News(kind, ch)), c)
<1>1. Stranger(c) => c \notin S
  BY DEF Stranger
<1> QED
  BY <1>1, NewsKeeps

LEMMA ToCallee ==
  ASSUME SvcTypeOK, NEW q \in Inboxes, NEW c \in Clients, NEW ch \in Chan, NEW kind \in Notice
  PROVE  LET r == Push(q, {callee[ch]}, News(kind, ch)) IN
           /\ r \in Inboxes
           /\ NoAnswer(q, c) => NoAnswer(r, c)
           /\ Uncalled(q, c) => Uncalled(r, c)
<1> DEFINE r == Push(q, {callee[ch]}, News(kind, ch))
<1>1. /\ r \in Inboxes
      /\ NoAnswer(q, c) => NoAnswer(r, c)
      /\ c # callee[ch] => r[c] = q[c]
      /\ First(q, c) => First(r, c)
  BY NewsKeeps
<1> HIDE DEF r
<1>2. Uncalled(q, c) => Uncalled(r, c)
  BY <1>1 DEF Uncalled, First
<1> QED
  BY <1>1, <1>2 DEF r

\* The news of an accept, in either order.
LEMMA AcceptNewsSpares ==
  ASSUME SvcTypeOK, NEW q \in Inboxes, NEW c \in Clients, NEW d \in Clients, NEW ch \in Chan,
         NEW r, r \in AcceptNews(q, d, ch)
  PROVE  /\ Stranger(c) => r[c] = q[c]
         /\ NoAnswer(q, c) => NoAnswer(r, c)
<1> DEFINE Tell1(x) == Push(x, {creator[ch]}, News("Accept", ch))
           Tell2(x) == Push(x, members[ch] \ {d}, News("Join", ch))
<1>1. r = Tell2(Tell1(q)) \/ r = Tell1(Tell2(q))
  BY Zenon DEF AcceptNews
<1>2. ASSUME NEW x \in Inboxes
      PROVE  /\ Tell1(x) \in Inboxes /\ (Stranger(c) => Tell1(x)[c] = x[c])
             /\ NoAnswer(x, c) => NoAnswer(Tell1(x), c)
  BY AboutOwnCall DEF Notice
<1>3. ASSUME NEW x \in Inboxes
      PROVE  /\ Tell2(x) \in Inboxes /\ (Stranger(c) => Tell2(x)[c] = x[c])
             /\ NoAnswer(x, c) => NoAnswer(Tell2(x), c)
  BY AboutOwnCall DEF Notice
<1> HIDE DEF Tell1, Tell2
<1> QED
  BY <1>1, <1>2, <1>3

LEMMA AcceptSpares ==
  ASSUME SvcTypeOK, NEW q \in Inboxes, NEW c \in Clients, NEW d \in Clients, c # d,
         NEW ch \in ChanId, SignalingAccept(q, d, ch)
  PROVE  Spares(q, c, d)
<1> DEFINE good == Push(q, {d}, Msg("acceptCb", ch, TRUE))
           bad  == Push(q, {d}, Msg("acceptCb", ch, FALSE))
<1>1. /\ good \in Inboxes /\ bad \in Inboxes /\ good[c] = q[c] /\ bad[c] = q[c]
      /\ NoAnswer(q, c) => NoAnswer(good, c) /\ NoAnswer(bad, c)
  <2>1. Msg("acceptCb", ch, TRUE) \in Message /\ Msg("acceptCb", ch, FALSE) \in Message
    BY MsgIsMessage DEF Answer
  <2>2. \A m \in Message :
          /\ Push(q, {d}, m) \in Inboxes /\ Push(q, {d}, m)[c] = q[c]
          /\ NoAnswer(q, c) => NoAnswer(Push(q, {d}, m), c)
    BY PushKeeps
  <2> QED
    BY <2>1, <2>2
<1>2. PICK ok \in Verdicts(Pending(ch) /\ callee[ch] = d) :
        \/ /\ ok
           /\ members' = [members EXCEPT ![ch] = @ \cup {d}]
           /\ inbox' \in AcceptNews(good, d, ch)
        \/ /\ ~ok
           /\ inbox' = bad
           /\ members' = members
  BY DEF SignalingAccept
<1>3. ok => ch \in Chan
  BY <1>2 DEF Verdicts, Pending
<1> HIDE DEF good, bad
<1>4. /\ Stranger(c) => inbox'[c] = q[c]
      /\ NoAnswer(q, c) => NoAnswer(inbox', c)
  BY <1>1, <1>2, <1>3, AcceptNewsSpares
<1>5. Stranger(c) => Stranger(c)'
  BY <1>2, <1>3 DEF SignalingAccept, Stranger, SvcTypeOK
<1> QED
  BY <1>4, <1>5 DEF SignalingAccept, Spares, Uncalled, NoAnswer

LEMMA RejectSpares ==
  ASSUME SvcTypeOK, NEW q \in Inboxes, NEW c \in Clients, NEW d \in Clients,
         NEW ch \in ChanId, NEW notice \in Notice, NEW answered \in BOOLEAN,
         SignalingReject(q, d, ch, notice, answered)
  PROVE  Spares(q, c, d)
<1> DEFINE yes == IF answered THEN Push(q, {d}, Msg("rejectCb", ch, TRUE)) ELSE q
           no  == IF answered THEN Push(q, {d}, Msg("rejectCb", ch, FALSE)) ELSE q
<1>1. /\ yes \in Inboxes /\ no \in Inboxes /\ (c # d => yes[c] = q[c] /\ no[c] = q[c])
      /\ NoAnswer(q, c) => NoAnswer(yes, c) /\ NoAnswer(no, c)
  <2>1. AnswerLike(Msg("rejectCb", ch, TRUE)) /\ AnswerLike(Msg("rejectCb", ch, FALSE))
    BY Answers DEF Answer
  <2>2. ASSUME NEW m, AnswerLike(m)
        PROVE  /\ Push(q, {d}, m) \in Inboxes /\ (c # d => Push(q, {d}, m)[c] = q[c])
               /\ NoAnswer(q, c) => NoAnswer(Push(q, {d}, m), c)
    BY <2>2, AnswerKeeps
  <2> DEFINE y == Push(q, {d}, Msg("rejectCb", ch, TRUE))
             n == Push(q, {d}, Msg("rejectCb", ch, FALSE))
  <2>3. y \in Inboxes /\ (c # d => y[c] = q[c]) /\ (NoAnswer(q, c) => NoAnswer(y, c))
    BY <2>1, <2>2
  <2>4. n \in Inboxes /\ (c # d => n[c] = q[c]) /\ (NoAnswer(q, c) => NoAnswer(n, c))
    BY <2>1, <2>2
  <2>5. yes = (IF answered THEN y ELSE q) /\ no = (IF answered THEN n ELSE q)
    OBVIOUS
  <2> HIDE DEF yes, no, y, n
  <2> QED
    BY <2>3, <2>4, <2>5
<1>2. PICK ok \in Verdicts(Pending(ch) /\ callee[ch] = d) :
        \/ ok /\ inbox' = Push(yes, {creator[ch]}, News(notice, ch))
        \/ ~ok /\ inbox' = no
  BY DEF SignalingReject
<1>3. ok => ch \in Chan
  BY <1>2 DEF Verdicts, Pending
<1> HIDE DEF yes, no
<1>5. ok => /\ Stranger(c) => inbox'[c] = yes[c]
            /\ NoAnswer(yes, c) => NoAnswer(inbox', c)
  BY <1>1, <1>2, <1>3, AboutOwnCall
<1>6. /\ c # d /\ Stranger(c) => inbox'[c] = q[c]
      /\ NoAnswer(q, c) => NoAnswer(inbox', c)
  BY <1>1, <1>2, <1>5
<1> QED
  BY <1>6 DEF SignalingReject, Spares, Uncalled, NoAnswer, Stranger

\* A step that tells nobody but members, after what q tells.
LEMMA CancelAndCloseSpares ==
  ASSUME SvcTypeOK, NEW q \in Inboxes, NEW c \in Clients, NEW d \in Clients,
         NEW cancels \in BOOLEAN, NEW x \in ChanId, NEW ch \in ChanId,
         CancelAndClose(q, d, cancels, x, ch)
  PROVE  Spares(q, c, d)
<1> DEFINE cancelled == cancels /\ Pending(x) /\ creator[x] = d
           told == IF cancelled THEN Push(q, {callee[x]}, News("CancelInvite", x)) ELSE q
<1>1. /\ told \in Inboxes
      /\ NoAnswer(q, c) => NoAnswer(told, c)
      /\ Uncalled(q, c) => Uncalled(told, c)
  <2>1. cancelled => x \in Chan
    BY DEF Pending
  <2>2. "CancelInvite" \in Notice
    BY DEF Notice
  <2> QED
    BY <2>1, <2>2, ToCallee
<1> DEFINE good == Push(told, {d}, Msg("closeCb", ch, TRUE))
           bad  == Push(told, {d}, Msg("closeCb", ch, FALSE))
<1>2. PICK ok \in Verdicts(ch \in Chan /\ open[ch] /\ d \in members[ch]) :
        \/ /\ ok
           /\ members' = [members EXCEPT ![ch] = {}]
           /\ inbox' = Push(good, members[ch] \ {d}, News("Close", ch))
        \/ /\ ~ok
           /\ inbox' = bad
           /\ members' = members
  BY DEF CancelAndClose
<1>3. ok => ch \in Chan
  BY <1>2 DEF Verdicts
<1> HIDE DEF told
<1>4. /\ good \in Inboxes /\ bad \in Inboxes
      /\ c # d => good[c] = told[c] /\ bad[c] = told[c]
      /\ NoAnswer(told, c) => NoAnswer(good, c) /\ NoAnswer(bad, c)
  <2>1. AnswerLike(Msg("closeCb", ch, TRUE)) /\ AnswerLike(Msg("closeCb", ch, FALSE))
    BY Answers DEF Answer
  <2>2. ASSUME NEW m, AnswerLike(m)
        PROVE  /\ Push(told, {d}, m) \in Inboxes /\ (c # d => Push(told, {d}, m)[c] = told[c])
               /\ NoAnswer(told, c) => NoAnswer(Push(told, {d}, m), c)
    BY <1>1, <2>2, AnswerKeeps
  <2> QED
    BY <2>1, <2>2
<1> HIDE DEF good, bad
<1>5. ok => /\ Stranger(c) => inbox'[c] = good[c]
            /\ NoAnswer(good, c) => NoAnswer(inbox', c)
  <2>1. "Close" \in Notice
    BY DEF Notice
  <2> QED
    BY <1>2, <1>3, <1>4, <2>1, AboutOwnCall
<1>6. /\ c # d /\ Stranger(c) => inbox'[c] = told[c]
      /\ NoAnswer(told, c) => NoAnswer(inbox', c)
  BY <1>2, <1>4, <1>5
<1>7. Stranger(c) => Stranger(c)'
  BY <1>2, <1>3 DEF CancelAndClose, Stranger, SvcTypeOK
<1>8. callee' = callee
  BY DEF CancelAndClose
<1>9. c # d /\ Uncalled(told, c) => Uncalled(inbox, c)'
  BY <1>6, <1>7, <1>8 DEF Uncalled
<1> QED
  BY <1>1, <1>6, <1>9 DEF Spares, NoAnswer

LEMMA ControlSpares ==
  ASSUME SvcTypeOK, NEW q \in Inboxes, NEW c \in Clients, NEW d \in Clients,
         NEW ch \in Chan, SignalingControl(q, ch, callee[ch])
  PROVE  Spares(q, c, d)
<1>1. "Control" \in Notice
  BY DEF Notice
<1>2. /\ NoAnswer(q, c) => NoAnswer(inbox', c)
      /\ Uncalled(q, c) => Uncalled(inbox', c)
  BY <1>1, ToCallee DEF SignalingControl
<1> QED
  BY <1>2 DEF SignalingControl, Spares, NoAnswer, Uncalled, Stranger

\* Another device of the one invited answers: whoever hears of that first
\* hears of the invitation before.
LEMMA OtherDeviceSpares ==
  ASSUME SvcTypeOK, NEW c \in Clients, NEW d \in Clients, NEW ch \in Chan,
         NEW accepts \in BOOLEAN, OtherDeviceAnswers(d, ch, accepts)
  PROVE  /\ NoAnswer(inbox, c) => NoAnswer(inbox, c)'
         /\ Uncalled(inbox, c) => Uncalled(inbox, c)'
<1>1. /\ inbox \in Inboxes /\ callee[ch] = d
      /\ UNCHANGED <<creator, callee, members>>
  BY DEF OtherDeviceAnswers, SvcTypeOK, Inboxes
<1>2. ASSUME NEW kind \in Notice
      PROVE  /\ Push(inbox, {d}, News(kind, ch)) \in Inboxes
             /\ NoAnswer(inbox, c) => NoAnswer(Push(inbox, {d}, News(kind, ch)), c)
             /\ Uncalled(inbox, c) => Uncalled(Push(inbox, {d}, News(kind, ch)), c)
  BY <1>1, ToCallee
<1>3. ASSUME NEW q \in Inboxes,
             NoAnswer(inbox, c) => NoAnswer(q, c), Uncalled(inbox, c) => Uncalled(q, c),
             Stranger(c) => inbox'[c] = q[c], NoAnswer(q, c) => NoAnswer(inbox', c)
      PROVE  /\ NoAnswer(inbox, c) => NoAnswer(inbox, c)'
             /\ Uncalled(inbox, c) => Uncalled(inbox, c)'
  BY <1>1, <1>3 DEF NoAnswer, Uncalled, Stranger
<1>4. CASE accepts
  <2> DEFINE q == Push(inbox, {d}, News("SyncAccept", ch))
  <2>1. /\ q \in Inboxes
        /\ NoAnswer(inbox, c) => NoAnswer(q, c)
        /\ Uncalled(inbox, c) => Uncalled(q, c)
    BY <1>2 DEF Notice
  <2>2. inbox' \in AcceptNews(q, d, ch)
    BY <1>4 DEF OtherDeviceAnswers
  <2> HIDE DEF q
  <2>3. (Stranger(c) => inbox'[c] = q[c]) /\ (NoAnswer(q, c) => NoAnswer(inbox', c))
    BY <2>1, <2>2, AcceptNewsSpares
  <2> QED
    BY <1>3, <2>1, <2>3
<1>5. CASE ~accepts
  <2> DEFINE q == Push(inbox, {d}, News("SyncReject", ch))
  <2>1. /\ q \in Inboxes
        /\ NoAnswer(inbox, c) => NoAnswer(q, c)
        /\ Uncalled(inbox, c) => Uncalled(q, c)
    BY <1>2 DEF Notice
  <2>2. inbox' = Push(q, {creator[ch]}, News("Reject", ch)) /\ "Reject" \in Notice
    BY <1>5 DEF OtherDeviceAnswers, Notice
  <2> HIDE DEF q
  <2>3. (Stranger(c) => inbox'[c] = q[c]) /\ (NoAnswer(q, c) => NoAnswer(inbox', c))
    BY <2>1, <2>2, AboutOwnCall
  <2> QED
    BY <1>3, <2>1, <2>3
<1> QED
  BY <1>4, <1>5

-----------------------------------------------------------------------------
(* No step of d touches a client it has not invited.                       *)

LEMMA StillSpares ==
  ASSUME NEW c \in Clients, NEW d \in Clients, UNCHANGED svcVars
  PROVE  Spares(inbox, c, d)
BY DEF svcVars, Spares, NoAnswer, Uncalled, Stranger

\* What is spared after a message was taken is spared by the whole step.
LEMMA RestSpares ==
  ASSUME Inv, NEW c \in Clients, NEW d \in Clients, NEW kind, Gets(d, kind),
         Spares(Rest(d), c, d)
  PROVE  Spares(inbox, c, d)
<1>1. inbox \in Inboxes /\ inbox[d] # <<>>
  BY InboxFacts DEF Gets
<1>2. NoAnswer(inbox, c) => NoAnswer(Rest(d), c)
  BY <1>1, RestIsOld DEF NoAnswer
<1>3. c # d => Rest(d)[c] = inbox[c]
  BY <1>1 DEF Rest, Inboxes
<1> QED
  BY <1>2, <1>3 DEF Spares, Uncalled

LEMMA SilentlySpares ==
  ASSUME Inv, NEW c \in Clients, NEW d \in Clients, NEW kind, Gets(d, kind), Silent(Rest(d))
  PROVE  Spares(inbox, c, d)
BY RestSpares, SilentSpares

LEMMA AnswersSpare ==
  ASSUME Inv, NEW c \in Clients, NEW d \in Clients,
         \/ signalingCreateCb(d) \/ signalingJoinCb(d) \/ signalingInviteCb(d)
         \/ signalingRejectCb(d) \/ signalingCloseCb(d) \/ signalingLeaveCb(d)
         \/ AcceptFails(d) \/ AcceptSucceeds(d)
  PROVE  Spares(inbox, c, d)
<1> SvcTypeOK /\ OwnTypeOK
  BY InboxFacts
<1>1. CASE signalingCreateCb(d)
  <2>1. Gets(d, "createCb")
    BY <1>1 DEF signalingCreateCb
  <2>2. Rest(d) \in Inboxes /\ Got(d).ch \in ChanId
    BY <2>1, GotFacts
  <2> QED
    BY <1>1, <2>1, <2>2, SilentSpares, JoinSpares, RestSpares DEF signalingCreateCb
<1>2. CASE signalingJoinCb(d)
  <2>1. Gets(d, "joinCb")
    BY <1>2 DEF signalingJoinCb
  <2>2. /\ Rest(d) \in Inboxes /\ created[d] \in ChanId
        /\ Got(d).ok => Got(d).ch \in Chan
    <3>1. Rest(d) \in Inboxes /\ Founded(d, Got(d)) /\ Got(d).kind = "joinCb"
      BY <2>1, GotFacts
    <3>2. created[d] \in ChanId
      BY DEF OwnTypeOK
    <3> QED
      BY <3>1, <3>2 DEF Founded, Caller
  <2>3. CASE ~Got(d).ok
    <3>1. CancelAndClose(Rest(d), d, FALSE, NoChan, created[d])
      BY <1>2, <2>3 DEF signalingJoinCb, SignalingClose
    <3> QED
      BY <2>1, <2>2, <3>1, CancelAndCloseSpares, RestSpares DEF ChanId
  <2>4. CASE Got(d).ok
    <3>1. SignalingInvite(Rest(d), d, Got(d).ch, to[d])
      BY <1>2, <2>4 DEF signalingJoinCb
    <3> QED
      BY <2>1, <2>2, <2>4, <3>1, InviteSpares, RestSpares
  <2> QED
    BY <2>3, <2>4
<1>3. CASE \/ signalingInviteCb(d) \/ signalingRejectCb(d) \/ signalingCloseCb(d)
           \/ signalingLeaveCb(d) \/ AcceptFails(d) \/ AcceptSucceeds(d)
  BY <1>3, SilentlySpares
  DEF signalingInviteCb, signalingRejectCb, signalingCloseCb, signalingLeaveCb, AcceptFails,
      AcceptSucceeds
<1> QED
  BY <1>1, <1>2, <1>3

LEMMA NoticesSpare ==
  ASSUME Inv, NEW c \in Clients, NEW d \in Clients,
         \/ handleInvited(d) \/ handleAccepted(d) \/ handleControl(d) \/ handleRejected(d)
         \/ handleJoin(d) \/ handleLeave(d) \/ \E kind, event : Ends(d, kind, event)
  PROVE  Spares(inbox, c, d)
<1> SvcTypeOK
  BY InboxFacts
<1>1. CASE handleInvited(d)
  <2>1. Gets(d, "Invite")
    BY <1>1 DEF handleInvited
  <2>2. Rest(d) \in Inboxes /\ Got(d).ch \in ChanId /\ "Busy" \in Notice
    BY <2>1, GotFacts DEF Notice
  <2>3. CASE SignalingReject(Rest(d), d, Got(d).ch, "Busy", FALSE)
    BY <2>1, <2>2, <2>3, RejectSpares, RestSpares
  <2>4. CASE Silent(Rest(d))
    BY <2>1, <2>4, SilentlySpares
  <2> QED
    BY <1>1, <2>3, <2>4 DEF handleInvited
<1>2. CASE handleRejected(d)
  <2>1. CASE Gets(d, "Reject") /\ Silent(Rest(d))
    BY <2>1, SilentlySpares
  <2>2. CASE Gets(d, "Busy") /\ SignalingClose(Rest(d), d, Got(d).ch)
    <3>1. Rest(d) \in Inboxes /\ Got(d).ch \in ChanId
      BY <2>2, GotFacts
    <3>2. CancelAndClose(Rest(d), d, FALSE, NoChan, Got(d).ch)
      BY <2>2 DEF SignalingClose
    <3> QED
      BY <2>2, <3>1, <3>2, CancelAndCloseSpares, RestSpares DEF ChanId
  <2> QED
    BY <1>2, <2>1, <2>2 DEF handleRejected
<1>3. CASE handleJoin(d)
  <2>1. Gets(d, "Join")
    BY <1>3 DEF handleJoin
  <2>2. Rest(d) \in Inboxes /\ Got(d).ch \in Chan
    BY <2>1, GotFacts DEF Notice
  <2>3. \/ SignalingControl(Rest(d), Got(d).ch, callee[Got(d).ch])
        \/ Silent(Rest(d))
    BY <1>3 DEF handleJoin
  <2> QED
    BY <2>1, <2>2, <2>3, ControlSpares, SilentSpares, RestSpares
<1>4. CASE \/ handleAccepted(d) \/ handleControl(d) \/ handleLeave(d)
           \/ \E kind, event : Ends(d, kind, event)
  BY <1>4, SilentlySpares DEF handleAccepted, handleControl, handleLeave, Ends
<1> QED
  BY <1>1, <1>2, <1>3, <1>4

\* What the working thread does for d.
LEMMA OperationsSpare ==
  ASSUME Inv, NEW c \in Clients, NEW d \in Clients, c # d,
         (\E p \in Clients : call(d, p)) \/ accept(d) \/ reject(d) \/ hangup(d)
  PROVE  Spares(inbox, c, d)
<1> SvcTypeOK /\ inbox \in Inboxes
  BY InboxFacts
<1>1. inviting[d] \in ChanId /\ invited[d] \in ChanId
  BY InboxFacts DEF OwnTypeOK
<1>2. CASE \E p \in Clients : call(d, p)
  BY <1>2, CreateSpares DEF call
<1>3. CASE accept(d)
  BY <1>1, <1>3, AcceptSpares DEF accept
<1>4. CASE reject(d)
  <2>1. SignalingReject(inbox, d, invited[d], "Reject", TRUE) /\ "Reject" \in Notice
    BY <1>4 DEF reject, Notice
  <2> QED
    BY <1>1, <2>1, RejectSpares
<1>5. CASE hangup(d)
  <2>1. CASE UNCHANGED svcVars
    BY <2>1, StillSpares
  <2>2. CASE CancelAndClose(inbox, d, status[d] = "calling" /\ master[d], inviting[d],
                            IF master[d] THEN inviting[d] ELSE invited[d])
    <3>1. PICK x \in BOOLEAN, ch \in ChanId : CancelAndClose(inbox, d, x, inviting[d], ch)
      <4>1. (status[d] = "calling" /\ master[d]) \in BOOLEAN
        OBVIOUS
      <4>2. (IF master[d] THEN inviting[d] ELSE invited[d]) \in ChanId
        BY <1>1
      <4> QED
        BY <2>2, <4>1, <4>2
    <3> QED
      BY <1>1, <3>1, CancelAndCloseSpares
  <2> QED
    BY <1>5, <2>1, <2>2 DEF hangup
<1> QED
  BY <1>2, <1>3, <1>4, <1>5

-----------------------------------------------------------------------------
(* The component, before the window: still untouched, or first announcing  *)
(* the invitation.                                                         *)

\* What the step of another client leaves of what c has of its own.
Leaves(c) ==
  /\ status'[c] = status[c] /\ timer'[c] = timer[c] /\ waiting'[c] = waiting[c]
  /\ events'[c] = events[c] /\ rtc'[c] = rtc[c]
  /\ rtc[c] = NoRoom => left'[c] = left[c]

LEMMA LeftAlone ==
  ASSUME NEW c \in Clients, NEW d \in Clients, c # d, Before(c), Spares(inbox, c, d), Leaves(c)
  PROVE  Before(c)'
BY DEF Before, Spares, Leaves, Untouched, Announced

LEMMA OperationsLeave ==
  ASSUME Inv, NEW c \in Clients, NEW d \in Clients, c # d,
         (\E p \in Clients : call(d, p)) \/ accept(d) \/ reject(d) \/ hangup(d)
  PROVE  Leaves(c)
<1> OwnTypeOK
  BY InboxFacts
<1>1. CASE \E p \in Clients : call(d, p)
  <2>1. PICK p : call(d, p)
    BY <1>1
  <2>2. /\ status' = [status EXCEPT ![d] = "calling"] /\ timer' = [timer EXCEPT ![d] = TRUE]
        /\ UNCHANGED <<waiting, rtc, left>>
    BY <2>1 DEF call, tokenVars, rtcVars
  <2>3. events' = [events EXCEPT ![d] = Append(@, [kind |-> "onCalling", who |-> p])]
    BY <2>1 DEF call, Tell
  <2> QED
    BY <2>2, <2>3 DEF Leaves, OwnTypeOK
<1>2. CASE accept(d)
  BY <1>2 DEF accept, Leaves, OwnTypeOK, callVars, tokenVars, rtcVars
<1>3. CASE reject(d)
  BY <1>3 DEF reject, Leaves, OwnTypeOK, callVars, tokenVars, rtcVars
<1>4. CASE hangup(d)
  <2>1. UNCHANGED <<status, timer, waiting, events>>
    BY <1>4 DEF hangup, tokenVars
  <2>2. rtc' = rtc \/ rtc' = [rtc EXCEPT ![d] = NoRoom]
    BY <1>4 DEF hangup, leaveChannel, rtcVars
  <2>3. rtc[c] = NoRoom => left'[c] = left[c]
    BY <1>4 DEF hangup, leaveChannel, rtcVars, OwnTypeOK
  <2> QED
    BY <2>1, <2>2, <2>3 DEF Leaves, OwnTypeOK
<1> QED
  BY <1>1, <1>2, <1>3, <1>4

LEMMA AnswersLeave ==
  ASSUME Inv, NEW c \in Clients, NEW d \in Clients, c # d,
         \/ signalingCreateCb(d) \/ signalingJoinCb(d) \/ signalingInviteCb(d)
         \/ signalingRejectCb(d) \/ signalingCloseCb(d) \/ signalingLeaveCb(d)
         \/ AcceptFails(d) \/ AcceptSucceeds(d)
  PROVE  Leaves(c)
<1> OwnTypeOK
  BY InboxFacts
<1>1. CASE signalingCreateCb(d) \/ AcceptFails(d)
  BY <1>1 DEF signalingCreateCb, AcceptFails, Leaves, callVars, tokenVars, rtcVars
<1>2. CASE signalingJoinCb(d)
  BY <1>2 DEF signalingJoinCb, Leaves, OwnTypeOK, rtcVars
<1>3. CASE signalingInviteCb(d) \/ signalingRejectCb(d)
  BY <1>3 DEF signalingInviteCb, signalingRejectCb, Leaves, OwnTypeOK, tokenVars, rtcVars
<1>4. CASE signalingCloseCb(d) \/ signalingLeaveCb(d)
  BY <1>4 DEF signalingCloseCb, signalingLeaveCb, Leaves, OwnTypeOK, tokenVars, rtcVars
<1>5. CASE AcceptSucceeds(d)
  BY <1>5 DEF AcceptSucceeds, Leaves, OwnTypeOK, rtcVars
<1> QED
  BY <1>1, <1>2, <1>3, <1>4, <1>5

LEMMA NoticesLeave ==
  ASSUME Inv, NEW c \in Clients, NEW d \in Clients, c # d,
         \/ handleInvited(d) \/ handleAccepted(d) \/ handleControl(d) \/ handleRejected(d)
         \/ handleJoin(d) \/ handleLeave(d) \/ \E kind, event : Ends(d, kind, event)
  PROVE  Leaves(c)
<1> OwnTypeOK
  BY InboxFacts
<1>1. CASE handleInvited(d)
  BY <1>1 DEF handleInvited, Tell, Leaves, OwnTypeOK, tokenVars, rtcVars
<1>2. CASE handleAccepted(d) \/ handleControl(d)
  BY <1>2 DEF handleAccepted, handleControl, Leaves, OwnTypeOK, callVars, rtcVars
<1>3. CASE handleRejected(d)
  BY <1>3 DEF handleRejected, Tell, Leaves, OwnTypeOK, tokenVars, rtcVars
<1>4. CASE handleJoin(d) \/ handleLeave(d)
  BY <1>4 DEF handleJoin, handleLeave, Tell, Leaves, OwnTypeOK, callVars, tokenVars, rtcVars
<1>5. CASE \E kind, event : Ends(d, kind, event)
  <2>1. PICK kind, event : Ends(d, kind, event)
    BY <1>5
  <2>2. status' = [status EXCEPT ![d] = "idle"] /\ UNCHANGED <<timer, waiting, rtc, left>>
    BY <2>1 DEF Ends, tokenVars, rtcVars
  <2>3. \E e : events' = [events EXCEPT ![d] = e]
    BY <2>1 DEF Ends, Tell
  <2> QED
    BY <2>2, <2>3 DEF Leaves, OwnTypeOK
<1> QED
  BY <1>1, <1>2, <1>3, <1>4, <1>5

\* The token loops end, and the other threads run.
LEMMA OthersLeave ==
  ASSUME Inv, NEW c \in Clients, NEW d \in Clients, c # d,
         \/ AcceptedJoins(d) \/ ControlJoins(d) \/ AcceptJoins(d)
         \/ CallingTimeout(d) \/ GetToken(d) \/ onUserLeft(d) \/ TakesEvent(d) \/ OtherDevice(d)
  PROVE  Leaves(c)
<1> OwnTypeOK
  BY InboxFacts
<1>1. CASE AcceptedJoins(d)
  BY <1>1 DEF AcceptedJoins, joinChannel, Tell, Leaves, OwnTypeOK
<1>2. CASE ControlJoins(d) \/ AcceptJoins(d)
  BY <1>2 DEF ControlJoins, AcceptJoins, joinChannel, Leaves, OwnTypeOK, callVars
<1>3. CASE CallingTimeout(d)
  BY <1>3 DEF CallingTimeout, Tell, Leaves, OwnTypeOK, tokenVars, rtcVars
<1>4. CASE GetToken(d) \/ onUserLeft(d)
  BY <1>4 DEF GetToken, onUserLeft, Tell, Leaves, OwnTypeOK, callVars, tokenVars, rtcVars
<1>5. CASE TakesEvent(d) \/ OtherDevice(d)
  BY <1>5 DEF TakesEvent, OtherDevice, Leaves, OwnTypeOK, callVars, tokenVars, rtcVars
<1> QED
  BY <1>1, <1>2, <1>3, <1>4, <1>5

\* The service does not notice these, except for another device's answer.
LEMMA OthersSpare ==
  ASSUME Inv, NEW c \in Clients, NEW d \in Clients,
         \/ AcceptedJoins(d) \/ ControlJoins(d) \/ AcceptJoins(d)
         \/ CallingTimeout(d) \/ GetToken(d) \/ onUserLeft(d) \/ TakesEvent(d) \/ OtherDevice(d)
  PROVE  Spares(inbox, c, d)
<1>1. CASE OtherDevice(d)
  <2>1. PICK ch \in Chan, accepts \in BOOLEAN : OtherDeviceAnswers(d, ch, accepts)
    BY <1>1 DEF OtherDevice
  <2> QED
    BY <2>1, InboxFacts, OtherDeviceSpares DEF Spares
<1>2. CASE ~OtherDevice(d)
  <2>1. UNCHANGED svcVars
    BY <1>2 DEF AcceptedJoins, ControlJoins, AcceptJoins, CallingTimeout, GetToken, onUserLeft,
                TakesEvent
  <2> QED
    BY <2>1, StillSpares
<1> QED
  BY <1>1, <1>2

-----------------------------------------------------------------------------
(* A client's own steps before it has a window.                            *)

\* An event more leaves the first one first.
LEMMA StillAnnounced ==
  ASSUME Inv, NEW c \in Clients, Announced(c),
         \/ events' = events
         \/ \E kind \in EventKinds, who \in Clients \cup {NoClient} : Tell(c, kind, who)
  PROVE  Announced(c)'
<1> events \in [Clients -> Seq(Event)]
  BY InboxFacts DEF OwnTypeOK
<1>1. CASE events' = events
  BY <1>1 DEF Announced
<1>2. ASSUME NEW kind \in EventKinds, NEW who \in Clients \cup {NoClient}, Tell(c, kind, who)
      PROVE  Announced(c)'
  <2>1. events'[c] = Append(events[c], [kind |-> kind, who |-> who])
    BY <1>2 DEF Tell
  <2>2. [kind |-> kind, who |-> who] \in Event /\ events[c] \in Seq(Event)
    BY DEF Event
  <2> QED
    BY <2>1, <2>2, AppendFacts DEF Announced
<1> QED
  BY <1>1, <1>2

\* The SDK thread of an untouched client can only take the invitation.
LEMMA OnlyInvited ==
  ASSUME Inv, NEW c \in Clients, Before(c), NEW kind, Gets(c, kind)
  PROVE  /\ kind # "acceptCb"
         /\ Untouched(c) => kind = "Invite"
<1>1. kind # "acceptCb"
  BY RestIsOld, InboxFacts DEF Gets, Before, NoAnswer
<1>2. Untouched(c) => kind = "Invite"
  BY DEF Gets, Untouched, Uncalled
<1> QED
  BY <1>1, <1>2

LEMMA OwnAnswers ==
  ASSUME Inv, NEW c \in Clients, Before(c),
         \/ signalingCreateCb(c) \/ signalingJoinCb(c) \/ signalingInviteCb(c)
         \/ signalingRejectCb(c) \/ signalingCloseCb(c) \/ signalingLeaveCb(c)
  PROVE  Before(c)'
<1>1. waiting' = waiting /\ events' = events
  BY DEF signalingCreateCb, signalingJoinCb, signalingInviteCb, signalingRejectCb,
         signalingCloseCb, signalingLeaveCb, tokenVars
<1>2. Spares(inbox, c, c)
  BY AnswersSpare
<1>3. Announced(c)
  <2>1. PICK kind \in Answer : Gets(c, kind)
    BY DEF signalingCreateCb, signalingJoinCb, signalingInviteCb, signalingRejectCb,
           signalingCloseCb, signalingLeaveCb, Answer
  <2>2. kind # "Invite"
    BY DEF Answer
  <2> QED
    BY <2>1, <2>2, OnlyInvited DEF Before
<1> QED
  BY <1>1, <1>2, <1>3, StillAnnounced DEF Before, Spares

LEMMA OwnInvitation ==
  ASSUME Inv, NEW c \in Clients, Before(c), handleInvited(c)
  PROVE  Before(c)'
<1>1. Spares(inbox, c, c)
  BY NoticesSpare
<1>2. waiting' = waiting
  BY DEF handleInvited, tokenVars
<1>3. Announced(c)'
  <2> events \in [Clients -> Seq(Event)] /\ creator \in [Chan -> Clients \cup {NoClient}]
    BY InboxFacts DEF OwnTypeOK, SvcTypeOK
  <2>1. Got(c).ch \in Chan
    BY GotFacts DEF handleInvited, Notice
  <2>2. events' = events \/ Tell(c, "onInvited", creator[Got(c).ch])
    BY DEF handleInvited
  <2>3. CASE Announced(c)
    BY <2>1, <2>2, <2>3, StillAnnounced DEF EventKinds
  <2>4. CASE Untouched(c)
    <3>1. events[c] = <<>> /\ Tell(c, "onInvited", creator[Got(c).ch])
      BY <2>4 DEF handleInvited, Untouched
    <3>2. events'[c] = <<[kind |-> "onInvited", who |-> creator[Got(c).ch]]>>
      BY <3>1 DEF Tell
    <3> QED
      BY <3>2 DEF Announced
  <2> QED
    BY <2>3, <2>4 DEF Before
<1> QED
  BY <1>1, <1>2, <1>3 DEF Before, Spares

LEMMA OwnNotices ==
  ASSUME Inv, NEW c \in Clients, Before(c),
         \/ handleAccepted(c) \/ handleControl(c) \/ handleRejected(c)
         \/ handleJoin(c) \/ handleLeave(c)
         \/ \E kind \in Notice \ {"Invite"}, event \in EventKinds : Ends(c, kind, event)
  PROVE  Before(c)'
<1>1. Spares(inbox, c, c)
  BY NoticesSpare
<1>2. PICK got \in Notice : got # "Invite" /\ Gets(c, got)
  BY DEF handleAccepted, handleControl, handleRejected, handleJoin, handleLeave, Ends, Notice
<1>3. Announced(c)
  BY <1>2, OnlyInvited DEF Before
<1>4. waiting'[c][1] # "acceptCb"
  <2>1. waiting \in [Clients -> Wait]
    BY InboxFacts DEF OwnTypeOK
  <2>2. CASE handleAccepted(c) \/ handleControl(c)
    BY <2>1, <2>2 DEF handleAccepted, handleControl
  <2>3. CASE waiting' = waiting
    BY <2>3 DEF Before
  <2> QED
    BY <2>2, <2>3 DEF handleRejected, handleJoin, handleLeave, Ends, tokenVars
<1>5. \/ events' = events
      \/ \E kind \in EventKinds, who \in Clients \cup {NoClient} : Tell(c, kind, who)
  <2>1. CASE handleJoin(c)
    <3>1. Tell(c, "onUserEnter", callee[Got(c).ch])
      BY <2>1 DEF handleJoin
    <3>2. Got(c).ch \in Chan
      BY <2>1, GotFacts DEF handleJoin, Notice
    <3>3. callee[Got(c).ch] \in Clients \cup {NoClient}
      BY <3>2, InboxFacts DEF SvcTypeOK
    <3> QED
      BY <3>1, <3>3 DEF EventKinds
  <2>2. CASE handleAccepted(c) \/ handleControl(c)
    BY <2>2 DEF handleAccepted, handleControl
  <2>3. CASE handleRejected(c) \/ handleLeave(c)
    BY <2>3 DEF handleRejected, handleLeave, EventKinds
  <2>4. CASE \E kind \in Notice \ {"Invite"}, event \in EventKinds : Ends(c, kind, event)
    BY <2>4 DEF Ends
  <2> QED
    BY <2>1, <2>2, <2>3, <2>4
<1> QED
  BY <1>1, <1>3, <1>4, <1>5, StillAnnounced DEF Before, Spares

LEMMA OwnOthers ==
  ASSUME Inv, NEW c \in Clients, Before(c),
         \/ AcceptedJoins(c) \/ ControlJoins(c)
         \/ CallingTimeout(c) \/ GetToken(c) \/ onUserLeft(c) \/ OtherDevice(c)
  PROVE  Before(c)'
<1>1. Spares(inbox, c, c)
  BY OthersSpare
<1>2. waiting'[c][1] # "acceptCb"
  <2>1. waiting \in [Clients -> Wait]
    BY InboxFacts DEF OwnTypeOK
  <2>2. CASE AcceptedJoins(c) \/ ControlJoins(c)
    BY <2>1, <2>2 DEF AcceptedJoins, ControlJoins, Free
  <2>3. CASE waiting' = waiting
    BY <2>3 DEF Before
  <2> QED
    BY <2>2, <2>3 DEF CallingTimeout, GetToken, onUserLeft, OtherDevice, tokenVars
<1>3. CASE GetToken(c) \/ OtherDevice(c)
  <2>1. Uncalled(inbox, c) => Uncalled(inbox, c)'
    <3>1. CASE GetToken(c)
      BY <3>1 DEF GetToken, svcVars, Uncalled, Stranger
    <3>2. CASE OtherDevice(c)
      <4>1. PICK ch \in Chan, accepts \in BOOLEAN : OtherDeviceAnswers(c, ch, accepts)
        BY <3>2 DEF OtherDevice
      <4> QED
        BY <4>1, InboxFacts, OtherDeviceSpares
    <3> QED
      BY <1>3, <3>1, <3>2
  <2>2. UNCHANGED <<callVars, rtcVars, events, waiting>>
    BY <1>3 DEF GetToken, OtherDevice, tokenVars
  <2> QED
    BY <1>1, <1>2, <2>1, <2>2 DEF Before, Spares, Untouched, Announced, callVars, rtcVars
<1>4. CASE AcceptedJoins(c) \/ ControlJoins(c) \/ CallingTimeout(c) \/ onUserLeft(c)
  <2>1. Announced(c)
    BY <1>4 DEF AcceptedJoins, ControlJoins, CallingTimeout, onUserLeft, Before, Untouched, Free
  <2>2. \/ events' = events
        \/ \E kind \in EventKinds, who \in Clients \cup {NoClient} : Tell(c, kind, who)
    BY <1>4 DEF AcceptedJoins, ControlJoins, CallingTimeout, onUserLeft, EventKinds
  <2> QED
    BY <1>1, <1>2, <2>1, <2>2, StillAnnounced DEF Before, Spares
<1> QED
  BY <1>3, <1>4

-----------------------------------------------------------------------------
(* The steps of the component that the call kit takes.                     *)

Asked(d)  == (\E p \in Clients \ {d} : call(d, p)) \/ accept(d) \/ reject(d) \/ hangup(d)
Inside(d) == SdkStep(d) \/ OwnStep(d) \/ OtherDevice(d)

ComponentStep(d) == Asked(d) \/ Inside(d) \/ AcceptStep(d) \/ TakesEvent(d)

LEMMA EndingEvents ==
  ASSUME NEW d,
         \/ handleClose(d) \/ handleCancelInvite(d)
         \/ handleOtherClientAccepted(d) \/ handleOtherClientRejected(d)
   PROVE  \E kind \in Notice \ {"Invite"}, event \in EventKinds \ {"onInvited"} :
            Ends(d, kind, event)
BY DEF handleClose, handleCancelInvite, handleOtherClientAccepted, handleOtherClientRejected,
       Notice, EventKinds

\* Before it has a window, a client is not disturbed by the others, ...
LEMMA BeforeOthers ==
  ASSUME Inv, NEW c \in Clients, NEW d \in Clients, c # d, Before(c), ComponentStep(d)
  PROVE  Before(c)'
<1>1. Spares(inbox, c, d) /\ Leaves(c)
  <2>1. CASE Asked(d)
    BY <2>1, OperationsSpare, OperationsLeave DEF Asked
  <2>2. CASE SdkStep(d)
    BY <2>2, EndingEvents, AnswersSpare, AnswersLeave, NoticesSpare, NoticesLeave, OthersSpare,
       OthersLeave
    DEF SdkStep
  <2>3. CASE AcceptStep(d)
    BY <2>3, AnswersSpare, AnswersLeave, OthersSpare, OthersLeave DEF AcceptStep
  <2>4. CASE OwnStep(d) \/ OtherDevice(d) \/ TakesEvent(d)
    BY <2>4, OthersSpare, OthersLeave DEF OwnStep
  <2> QED
    BY <2>1, <2>2, <2>3, <2>4 DEF ComponentStep, Inside
<1> QED
  BY <1>1, LeftAlone

\* ... nor by its own SDK thread, timer, engine and token, ...
LEMMA BeforeOwn ==
  ASSUME Inv, NEW c \in Clients, Before(c), Inside(c)
  PROVE  Before(c)'
<1>1. CASE SdkStep(c)
  BY <1>1, EndingEvents, OwnAnswers, OwnInvitation, OwnNotices, OwnOthers DEF SdkStep
<1>2. CASE OwnStep(c) \/ OtherDevice(c)
  BY <1>2, OwnOthers DEF OwnStep
<1> QED
  BY <1>1, <1>2 DEF Inside

\* ... and gets no answer to an accept.
LEMMA BeforeAccept ==
  ASSUME Inv, NEW c \in Clients, Before(c)
  PROVE  ~AcceptStep(c)
BY OnlyInvited DEF AcceptStep, AcceptFails, AcceptSucceeds, AcceptJoins, Before

-----------------------------------------------------------------------------
(* Who invites.                                                            *)

LEMMA InviterExists ==
  ASSUME Inv, Inviters, NEW d \in Clients, ComponentStep(d)
  PROVE  \A ch \in Chan : callee'[ch] # NoClient => creator'[ch] \in Clients
<1> SvcTypeOK
  BY InboxFacts
<1>1. CASE Asked(d)
  <2>1. CASE \E p \in Clients \ {d} : call(d, p)
    <3>1. SignalingCreate(inbox, d)
      BY <2>1 DEF call
    <3> QED
      BY <3>1 DEF SignalingCreate, Inviters, SvcTypeOK
  <2>2. CASE accept(d) \/ reject(d) \/ hangup(d)
    <3>1. callee' = callee /\ creator' = creator
      BY <2>2 DEF accept, reject, hangup, SignalingAccept, SignalingReject, CancelAndClose, svcVars
    <3> QED
      BY <3>1 DEF Inviters
  <2> QED
    BY <1>1, <2>1, <2>2 DEF Asked
<1>2. CASE signalingJoinCb(d)
  <2>1. CASE ~Got(d).ok
    <3>1. callee' = callee /\ creator' = creator
      BY <1>2, <2>1 DEF signalingJoinCb, SignalingClose, CancelAndClose
    <3> QED
      BY <3>1 DEF Inviters
  <2>2. CASE Got(d).ok
    <3>1. Gets(d, "joinCb")
      BY <1>2 DEF signalingJoinCb
    <3>2. Caller(d, Got(d).ch)
      BY <2>2, <3>1, GotFacts DEF Founded
    <3>3. SignalingInvite(Rest(d), d, Got(d).ch, to[d])
      BY <1>2, <2>2 DEF signalingJoinCb
    <3> QED
      BY <3>2, <3>3 DEF SignalingInvite, Caller, Inviters, SvcTypeOK
  <2> QED
    BY <2>1, <2>2
<1>3. CASE ~Asked(d) /\ ~signalingJoinCb(d)
  <2>1. CASE SdkStep(d)
    <3>1. CASE signalingCreateCb(d)
      BY <3>1 DEF signalingCreateCb, Silent, SignalingJoin, Inviters
    <3>2. CASE \/ signalingInviteCb(d) \/ signalingRejectCb(d) \/ signalingCloseCb(d)
               \/ signalingLeaveCb(d) \/ handleAccepted(d) \/ handleControl(d) \/ handleLeave(d)
      BY <3>2
      DEF signalingInviteCb, signalingRejectCb, signalingCloseCb, signalingLeaveCb,
          handleAccepted, handleControl, handleLeave, Silent, Inviters
    <3>3. CASE handleInvited(d)
      BY <3>3 DEF handleInvited, Silent, SignalingReject, Inviters
    <3>4. CASE handleRejected(d)
      BY <3>4 DEF handleRejected, Silent, SignalingClose, CancelAndClose, Inviters
    <3>5. CASE handleJoin(d)
      BY <3>5 DEF handleJoin, Silent, SignalingControl, Inviters
    <3>6. CASE AcceptedJoins(d) \/ ControlJoins(d)
      BY <3>6 DEF AcceptedJoins, ControlJoins, svcVars, Inviters
    <3>7. CASE \E kind, event : Ends(d, kind, event)
      BY <3>7 DEF Ends, Silent, Inviters
    <3> QED
      BY <1>3, <2>1, <3>1, <3>2, <3>3, <3>4, <3>5, <3>6, <3>7, EndingEvents DEF SdkStep
  <2>2. CASE AcceptStep(d)
    BY <2>2 DEF AcceptStep, AcceptFails, AcceptSucceeds, AcceptJoins, Silent, svcVars, Inviters
  <2>3. CASE OwnStep(d) \/ TakesEvent(d)
    BY <2>3 DEF OwnStep, CallingTimeout, GetToken, onUserLeft, TakesEvent, svcVars, Inviters
  <2>4. CASE OtherDevice(d)
    BY <2>4 DEF OtherDevice, OtherDeviceAnswers, Inviters
  <2> QED
    BY <1>3, <2>1, <2>2, <2>3, <2>4 DEF ComponentStep, Inside
<1> QED
  BY <1>1, <1>2, <1>3

\* Only handleInvited announces an invitation, and it knows whose.
LEMMA TellsWho ==
  ASSUME Inv, Inviters, NEW d \in Clients, ComponentStep(d)
  PROVE  \/ events' = events
         \/ TakesEvent(d)
         \/ \E kind \in EventKinds, who \in Clients \cup {NoClient} :
              Tell(d, kind, who) /\ (kind = "onInvited" => who \in Clients)
<1>1. CASE Asked(d)
  BY <1>1 DEF Asked, call, accept, reject, hangup, EventKinds
<1>2. CASE AcceptStep(d)
  BY <1>2 DEF AcceptStep, AcceptFails, AcceptSucceeds, AcceptJoins
<1>3. CASE OwnStep(d) \/ OtherDevice(d)
  BY <1>3 DEF OwnStep, CallingTimeout, GetToken, onUserLeft, OtherDevice, EventKinds
<1>4. CASE handleInvited(d)
  <2>1. Gets(d, "Invite")
    BY <1>4 DEF handleInvited
  <2>2. Callee(d, Got(d).ch)
    BY <2>1, GotFacts DEF Founded
  <2>3. creator[Got(d).ch] \in Clients
    BY <2>2, SignalingAssumption DEF Callee, Inviters
  <2>4. events' = events \/ Tell(d, "onInvited", creator[Got(d).ch])
    BY <1>4 DEF handleInvited
  <2> QED
    BY <2>3, <2>4 DEF EventKinds
<1>5. CASE handleJoin(d)
  <2>1. Gets(d, "Join") /\ Tell(d, "onUserEnter", callee[Got(d).ch])
    BY <1>5 DEF handleJoin
  <2>2. Got(d).ch \in Chan
    BY <2>1, GotFacts DEF Notice
  <2>3. callee[Got(d).ch] \in Clients \cup {NoClient}
    BY <2>2, InboxFacts DEF SvcTypeOK
  <2> QED
    BY <2>1, <2>3 DEF EventKinds
<1>6. CASE SdkStep(d) /\ ~handleInvited(d) /\ ~handleJoin(d)
  <2>1. CASE \E kind \in Notice, event \in EventKinds \ {"onInvited"} : Ends(d, kind, event)
    BY <2>1 DEF Ends
  <2>2. CASE handleRejected(d) \/ handleLeave(d) \/ AcceptedJoins(d)
    BY <2>2 DEF handleRejected, handleLeave, AcceptedJoins, EventKinds
  <2>3. CASE \/ signalingCreateCb(d) \/ signalingJoinCb(d) \/ signalingInviteCb(d)
             \/ signalingRejectCb(d) \/ signalingCloseCb(d) \/ signalingLeaveCb(d)
             \/ handleAccepted(d) \/ handleControl(d) \/ ControlJoins(d)
    BY <2>3
    DEF signalingCreateCb, signalingJoinCb, signalingInviteCb, signalingRejectCb,
        signalingCloseCb, signalingLeaveCb, handleAccepted, handleControl, ControlJoins
  <2> QED
    BY <1>6, <2>1, <2>2, <2>3, EndingEvents DEF SdkStep
<1> QED
  BY <1>1, <1>2, <1>3, <1>4, <1>5, <1>6 DEF ComponentStep, Inside

LEMMA InvitersKept ==
  ASSUME Inv, Inviters, NEW d \in Clients, ComponentStep(d)
  PROVE  Inviters'
<1> events \in [Clients -> Seq(Event)]
  BY InboxFacts DEF OwnTypeOK
<1> SUFFICES ASSUME NEW c \in Clients
             PROVE  \A i \in DOMAIN events'[c] :
                      events'[c][i].kind = "onInvited" => events'[c][i].who \in Clients
  BY InviterExists DEF Inviters
<1>1. CASE events' = events
  BY <1>1 DEF Inviters
<1>2. CASE TakesEvent(d)
  <2>1. events[d] \in Seq(Event) /\ events[d] # <<>>
    BY <1>2 DEF TakesEvent
  <2>2. \A i \in DOMAIN Tail(events[d]) :
          \E j \in DOMAIN events[d] : Tail(events[d])[i] = events[d][j]
    BY <2>1, TailFacts
  <2>3. events'[c] = IF c = d THEN Tail(events[d]) ELSE events[c]
    BY <1>2 DEF TakesEvent
  <2>4. \A i \in DOMAIN events'[c] : \E j \in DOMAIN events[c] : events'[c][i] = events[c][j]
    <3>1. CASE c = d
      BY <2>2, <2>3, <3>1
    <3>2. CASE c # d
      BY <2>3, <3>2
    <3> QED
      BY <3>1, <3>2
  <2> QED
    BY <2>4 DEF Inviters
<1>3. ASSUME NEW kind \in EventKinds, NEW who \in Clients \cup {NoClient},
             Tell(d, kind, who), kind = "onInvited" => who \in Clients
      PROVE  \A i \in DOMAIN events'[c] :
               events'[c][i].kind = "onInvited" => events'[c][i].who \in Clients
  <2> DEFINE e == [kind |-> kind, who |-> who]
  <2>1. e \in Event /\ events[d] \in Seq(Event) /\ e.kind = kind /\ e.who = who
    BY DEF Event
  <2>2. events' = [events EXCEPT ![d] = Append(@, e)]
    BY <1>3 DEF Tell
  <2> HIDE DEF e
  <2>3. \A i \in DOMAIN Append(events[d], e) :
           \/ i \in DOMAIN events[d] /\ Append(events[d], e)[i] = events[d][i]
           \/ Append(events[d], e)[i] = e
    BY <2>1, AppendFacts
  <2> QED
    BY <1>3, <2>1, <2>2, <2>3 DEF Inviters
<1> QED
  BY <1>1, <1>2, <1>3, TellsWho

-----------------------------------------------------------------------------
(* Every step of the call kit is a step of the component or none.          *)

LEMMA RequestFacts ==
  ASSUME KitInv, NEW d \in Clients, requests[d] # <<>>
  PROVE  /\ Head(requests[d]) \in Op
         /\ Head(requests[d]).op = "call" => Head(requests[d]).peer \in Clients \ {d}
         /\ Tail(requests[d]) \in Seq(Op)
         /\ \A i \in DOMAIN Tail(requests[d]) :
              \E j \in DOMAIN requests[d] : Tail(requests[d])[i] = requests[d][j]
<1>1. requests[d] \in Seq(Op)
  BY DEF KitInv, UiTypeOK
<1> QED
  BY <1>1, TailFacts DEF KitInv, NoSelfCall

LEMMA KitSteps ==
  ASSUME KitInv, NEW d \in Clients,
         \/ User(d) \/ Worker(d) \/ HandlesEvent(d) \/ Sdk(d)
         \/ Timer(d) \/ Http(d) \/ Engine(d) \/ Elsewhere(d)
  PROVE  /\ User(d) => UNCHANGED avVars
         /\ Worker(d) => Asked(d)
         /\ HandlesEvent(d) => TakesEvent(d)
         /\ Sdk(d) => (AcceptInvite(d) /\ AcceptStep(d)) \/ (SdkStep(d) /\ UNCHANGED uiVars)
         /\ Timer(d) \/ Http(d) \/ Engine(d) => OwnStep(d) /\ UNCHANGED uiVars
         /\ Elsewhere(d) => OtherDevice(d) /\ UNCHANGED uiVars
<1>1. User(d) => UNCHANGED avVars
  BY DEF User, Dial, Complete, Refuse, StopChat, QuitMsgBox, UseGhost
<1>2. Worker(d) => Asked(d)
  <2>1. RunsCall(d) => \E p \in Clients \ {d} : call(d, p)
    BY RequestFacts DEF RunsCall, Runs
  <2> QED
    BY <2>1 DEF Worker, RunsAccept, RunsReject, RunsHangup, Asked
<1>3. HandlesEvent(d) => TakesEvent(d)
  BY DEF HandlesEvent, OnCallingCb, OnUserAcceptCb, OnInvitedCb, OnUserEnterCb, OnUserRejectCb,
         OnUserBusyCb, OnCallEndCb, OnCallingTimeOutCb, onOtherClientAcceptCb,
         onOtherClientRejectCb, Takes
<1>4. Sdk(d) => (AcceptInvite(d) /\ AcceptStep(d)) \/ (SdkStep(d) /\ UNCHANGED uiVars)
  BY DEF Sdk, AcceptInvite, AcceptStep
<1>5. Timer(d) \/ Http(d) \/ Engine(d) => OwnStep(d) /\ UNCHANGED uiVars
  BY DEF Timer, Http, Engine, OwnStep
<1>6. Elsewhere(d) => OtherDevice(d) /\ UNCHANGED uiVars
  BY DEF Elsewhere
<1> QED
  BY <1>1, <1>2, <1>3, <1>4, <1>5, <1>6

LEMMA KitStepIsStep ==
  ASSUME KitInv, [KitNext]_vars
  PROVE  /\ UNCHANGED avVars \/ \E d \in Clients : ComponentStep(d)
         /\ [Next]_avVars
<1>1. UNCHANGED avVars \/ \E d \in Clients : ComponentStep(d)
  <2>1. CASE UNCHANGED vars
    BY <2>1 DEF vars
  <2>2. CASE KitNext
    BY <2>2, KitSteps DEF KitNext, ComponentStep, Inside
  <2> QED
    BY <2>1, <2>2
<1>2. ASSUME NEW d \in Clients, ComponentStep(d)
      PROVE  Next
  BY <1>2 DEF ComponentStep, Asked, Inside, Next, Operation
<1> QED
  BY <1>1, <1>2

-----------------------------------------------------------------------------
(* Windows and requests.                                                   *)

Windows == [view : {"dial", "confirm", "talk"}, end : EndCall \cup {"none"}, peer : Clients]

LEMMA WindowFacts ==
  /\ \A w \in Form : w # NoForm => w \in Windows
  /\ \A w \in Windows : w \in Form /\ w # NoForm
  /\ \A w \in Windows, why \in EndCall : [w EXCEPT !.end = why] \in Windows
  /\ \A w \in Windows, view \in {"dial", "confirm", "talk"} : [w EXCEPT !.view = view] \in Windows
  /\ \A view \in {"dial", "confirm", "talk"}, p \in Clients :
       [view |-> view, end |-> "none", peer |-> p] \in Windows
  /\ \A w \in Form : Live(w) => w \in Windows
  /\ ~Live(NoForm)
BY DEF Windows, Form, NoForm, Live

\* What a step of client d leaves on the screens and in the queues.
QueueKept(d) ==
  /\ requests' \in [Clients -> Seq(Op)]
  /\ NoSelfCall'
  /\ \A c \in Clients \ {d} : requests'[c] = requests[c]

ScreenKept(d) ==
  /\ form' \in [Clients -> Form] /\ ghost' \in [Clients -> Form]
  /\ form'[d] # NoForm
  /\ \A c \in Clients \ {d} : form'[c] = form[c] /\ ghost'[c] = ghost[c]

LEMMA RequestKept ==
  ASSUME UiTypeOK, NoSelfCall, NEW d \in Clients,
         NEW op \in {"call", "accept", "reject", "hangup"}, NEW p \in Clients \cup {NoClient},
         op = "call" => p \in Clients \ {d}, Request(d, op, p)
  PROVE  QueueKept(d)
<1> DEFINE r == [op |-> op, peer |-> p]
<1>1. r \in Op /\ r.op = op /\ r.peer = p
  BY DEF Op
<1>2. requests' = [requests EXCEPT ![d] = Append(@, r)]
  BY DEF Request
<1> HIDE DEF r
<1>3. requests[d] \in Seq(Op) /\ requests \in [Clients -> Seq(Op)]
  BY DEF UiTypeOK
<1>4. Append(requests[d], r) \in Seq(Op)
  BY <1>1, <1>3, AppendFacts
<1>5. \A i \in DOMAIN Append(requests[d], r) :
        \/ i \in DOMAIN requests[d] /\ Append(requests[d], r)[i] = requests[d][i]
        \/ Append(requests[d], r)[i] = r
  BY <1>1, <1>3, AppendFacts
<1>6. requests' \in [Clients -> Seq(Op)] /\ \A c \in Clients \ {d} : requests'[c] = requests[c]
  BY <1>2, <1>3, <1>4
<1>7. requests'[d] = Append(requests[d], r)
  BY <1>2, <1>3
<1>8. \A i \in DOMAIN requests'[d] :
        requests'[d][i].op = "call" => requests'[d][i].peer \in Clients \ {d}
  BY <1>1, <1>5, <1>7 DEF NoSelfCall
<1> QED
  BY <1>6, <1>8 DEF QueueKept, NoSelfCall

LEMMA QueueSame ==
  ASSUME UiTypeOK, NoSelfCall, NEW d \in Clients, requests' = requests
  PROVE  QueueKept(d)
BY DEF QueueKept, UiTypeOK, NoSelfCall

LEMMA QueueTaken ==
  ASSUME KitInv, NEW d \in Clients, requests[d] # <<>>,
         requests' = [requests EXCEPT ![d] = Tail(@)]
  PROVE  QueueKept(d)
<1>1. requests \in [Clients -> Seq(Op)]
  BY DEF KitInv, UiTypeOK
<1>2. /\ requests' \in [Clients -> Seq(Op)] /\ requests'[d] = Tail(requests[d])
      /\ \A c \in Clients \ {d} : requests'[c] = requests[c]
  BY <1>1, RequestFacts
<1>3. \A i \in DOMAIN requests'[d] : \E j \in DOMAIN requests[d] : requests'[d][i] = requests[d][j]
  BY <1>2, RequestFacts
<1> QED
  BY <1>2, <1>3 DEF QueueKept, KitInv, NoSelfCall

LEMMA EndRequestKept ==
  ASSUME UiTypeOK, NoSelfCall, NEW d \in Clients, NEW why, EndRequest(d, why)
  PROVE  QueueKept(d)
BY RequestKept, QueueSame DEF EndRequest

LEMMA EndPageKept ==
  ASSUME UiTypeOK, NoSelfCall, NEW d \in Clients, NEW why \in EndCall, form[d] # NoForm,
         EnterEndCallPage(d, why)
  PROVE  QueueKept(d) /\ ScreenKept(d)
<1>1. CASE EndRequest(d, why) /\ ghost' = ghost /\ form' = [form EXCEPT ![d].end = why]
  <2>1. QueueKept(d)
    BY <1>1, EndRequestKept
  <2>2. form \in [Clients -> Form] /\ form[d] \in Windows
    BY WindowFacts DEF UiTypeOK
  <2>3. form' = [form EXCEPT ![d] = [form[d] EXCEPT !.end = why]]
    BY <1>1
  <2>4. [form[d] EXCEPT !.end = why] \in Form /\ [form[d] EXCEPT !.end = why] # NoForm
    BY <2>2, WindowFacts
  <2> QED
    BY <1>1, <2>1, <2>2, <2>3, <2>4 DEF ScreenKept, UiTypeOK
<1>2. CASE UNCHANGED uiVars
  BY <1>2, QueueSame DEF ScreenKept, UiTypeOK, uiVars
<1> QED
  BY <1>1, <1>2 DEF EnterEndCallPage

LEMMA StatusPageKept ==
  ASSUME UiTypeOK, NoSelfCall, NEW d \in Clients, NEW view \in {"dial", "talk"},
         form[d] # NoForm, ShowStatusPage(d, view)
  PROVE  QueueKept(d) /\ ScreenKept(d)
<1>1. form \in [Clients -> Form] /\ form[d] \in Windows
  BY WindowFacts DEF UiTypeOK
<1>2. form' = [form EXCEPT ![d] = [form[d] EXCEPT !.view = view]]
  BY DEF ShowStatusPage
<1>3. [form[d] EXCEPT !.view = view] \in Form /\ [form[d] EXCEPT !.view = view] # NoForm
  BY <1>1, WindowFacts
<1>4. QueueKept(d) /\ ghost' = ghost
  BY QueueSame DEF ShowStatusPage
<1> QED
  BY <1>1, <1>2, <1>3, <1>4 DEF ScreenKept, UiTypeOK

LEMMA NewWindowKept ==
  ASSUME UiTypeOK, NEW d \in Clients, NEW p \in Clients, NEW view \in {"dial", "confirm"},
         ShowVideoChatForm(d, p, view)
  PROVE  ScreenKept(d)
<1>1. form \in [Clients -> Form] /\ ghost \in [Clients -> Form]
  BY DEF UiTypeOK
<1>2. [view |-> view, end |-> "none", peer |-> p] \in Form
      /\ [view |-> view, end |-> "none", peer |-> p] # NoForm
  BY WindowFacts
<1> QED
  BY <1>1, <1>2 DEF ShowVideoChatForm, ScreenKept

-----------------------------------------------------------------------------
(* Each thread of a client, in turn.                                       *)

LEMMA UserKept ==
  ASSUME KitInv, NEW d \in Clients, User(d)
  PROVE  QueueKept(d) /\ ScreenKept(d)
<1> /\ UiTypeOK /\ NoSelfCall /\ Windowless(d)
    /\ form \in [Clients -> Form] /\ ghost \in [Clients -> Form]
  BY DEF KitInv, UiTypeOK
<1>1. CASE \E p \in Clients : <<d, p>> \in Dials /\ Dial(d, p)
  <2>1. PICK p \in Clients : <<d, p>> \in Dials /\ Dial(d, p)
    BY <1>1
  <2>2. p \in Clients \ {d}
    BY <2>1, CallKitAssumption
  <2> QED
    BY <2>1, <2>2, RequestKept, NewWindowKept DEF Dial
<1>2. CASE Complete(d)
  <2>1. form[d] \in Windows /\ form' = [form EXCEPT ![d] = [form[d] EXCEPT !.view = "dial"]]
    BY <1>2, WindowFacts DEF Complete
  <2>2. [form[d] EXCEPT !.view = "dial"] \in Form /\ [form[d] EXCEPT !.view = "dial"] # NoForm
    BY <2>1, WindowFacts
  <2>3. QueueKept(d) /\ ghost' = ghost
    BY <1>2, RequestKept DEF Complete
  <2> QED
    BY <2>1, <2>2, <2>3 DEF ScreenKept
<1>3. CASE Refuse(d) \/ StopChat(d) \/ QuitMsgBox(d)
  <2>1. form[d] # NoForm
    BY <1>3, WindowFacts DEF Refuse, StopChat, QuitMsgBox
  <2> QED
    BY <1>3, <2>1, EndPageKept DEF Refuse, StopChat, QuitMsgBox, EndCall
<1>4. CASE UseGhost(d)
  <2>1. ghost[d] \in Windows /\ form[d] # NoForm /\ form' = form
    BY <1>4, WindowFacts DEF UseGhost, Windowless
  <2>2. CASE /\ ghost' = [ghost EXCEPT ![d] = [ghost[d] EXCEPT !.view = "dial"]]
             /\ Request(d, "accept", NoClient)
    <3>1. [ghost[d] EXCEPT !.view = "dial"] \in Form
      BY <2>1, WindowFacts
    <3>2. QueueKept(d)
      BY <2>2, RequestKept
    <3> QED
      BY <2>1, <2>2, <3>1, <3>2 DEF ScreenKept
  <2>3. ASSUME NEW button \in {"CLOSE", "REJECT", "HANGUP"},
               ghost' = [ghost EXCEPT ![d] = [ghost[d] EXCEPT !.end = button]],
               EndRequest(d, button)
        PROVE  QueueKept(d) /\ ScreenKept(d)
    <3>1. [ghost[d] EXCEPT !.end = button] \in Form
      BY <2>1, WindowFacts DEF EndCall
    <3>2. QueueKept(d)
      BY <2>3, EndRequestKept
    <3> QED
      BY <2>1, <2>3, <3>1, <3>2 DEF ScreenKept
  <2>4. \/ /\ ghost' = [ghost EXCEPT ![d] = [ghost[d] EXCEPT !.view = "dial"]]
           /\ Request(d, "accept", NoClient)
        \/ \E button \in {"CLOSE", "REJECT", "HANGUP"} :
             /\ ghost' = [ghost EXCEPT ![d] = [ghost[d] EXCEPT !.end = button]]
             /\ EndRequest(d, button)
    BY <1>4 DEF UseGhost
  <2> QED
    BY <2>2, <2>3, <2>4
<1> QED
  BY <1>1, <1>2, <1>3, <1>4 DEF User

LEMMA WorkerKept ==
  ASSUME KitInv, NEW d \in Clients, Worker(d)
  PROVE  QueueKept(d) /\ ScreenKept(d)
<1>1. /\ requests[d] # <<>> /\ requests' = [requests EXCEPT ![d] = Tail(@)]
      /\ UNCHANGED <<form, ghost>>
  BY DEF Worker, RunsCall, RunsAccept, RunsReject, RunsHangup, Runs
<1>2. form[d] # NoForm
  BY <1>1 DEF KitInv, Windowless
<1>3. ScreenKept(d)
  BY <1>1, <1>2 DEF ScreenKept, KitInv, UiTypeOK
<1> QED
  BY <1>1, <1>3, QueueTaken

\* An event that is not the first invitation finds the window.
LEMMA HandlesEventKept ==
  ASSUME KitInv, NEW d \in Clients, HandlesEvent(d)
  PROVE  QueueKept(d) /\ ScreenKept(d)
<1> UiTypeOK /\ NoSelfCall /\ Windowless(d)
  BY DEF KitInv
<1>1. CASE OnInvitedCb(d)
  <2>1. /\ ShowVideoChatForm(d, Head(events[d]).who, "confirm") /\ requests' = requests
        /\ events[d] # <<>> /\ Head(events[d]).kind = "onInvited"
    BY <1>1 DEF OnInvitedCb, Takes, TakesEvent
  <2>2. events[d] \in Seq(Event)
    BY InboxFacts DEF KitInv, OwnTypeOK
  <2>3. Head(events[d]).who \in Clients
    BY <2>1, <2>2, TailFacts DEF KitInv, Inviters
  <2> QED
    BY <2>1, <2>3, NewWindowKept, QueueSame
<1>2. ASSUME events[d] # <<>>, Head(events[d]).kind # "onInvited"
      PROVE  form[d] # NoForm
  BY <1>2 DEF Windowless, Before, Untouched, Announced
<1>3. CASE OnCallingCb(d) \/ OnUserAcceptCb(d) \/ OnUserEnterCb(d)
  <2>1. form[d] # NoForm
    BY <1>2, <1>3 DEF OnCallingCb, OnUserAcceptCb, OnUserEnterCb, Takes, TakesEvent
  <2>2. \/ \E view \in {"dial", "talk"} : ShowStatusPage(d, view)
        \/ UNCHANGED uiVars
    BY <1>3 DEF OnCallingCb, OnUserAcceptCb, OnUserEnterCb
  <2>3. CASE UNCHANGED uiVars
    BY <2>1, <2>3, QueueSame DEF ScreenKept, UiTypeOK, uiVars
  <2> QED
    BY <2>1, <2>2, <2>3, StatusPageKept
<1>4. CASE \/ OnUserRejectCb(d) \/ OnUserBusyCb(d) \/ OnCallEndCb(d) \/ OnCallingTimeOutCb(d)
           \/ onOtherClientAcceptCb(d) \/ onOtherClientRejectCb(d)
  <2>1. form[d] # NoForm
    BY <1>2, <1>4
    DEF OnUserRejectCb, OnUserBusyCb, OnCallEndCb, OnCallingTimeOutCb, onOtherClientAcceptCb,
        onOtherClientRejectCb, Takes, TakesEvent
  <2>2. \E why \in EndCall : EnterEndCallPage(d, why)
    BY <1>4
    DEF OnUserRejectCb, OnUserBusyCb, OnCallEndCb, OnCallingTimeOutCb, onOtherClientAcceptCb,
        onOtherClientRejectCb, EndCall
  <2> QED
    BY <2>1, <2>2, EndPageKept
<1> QED
  BY <1>1, <1>3, <1>4 DEF HandlesEvent

LEMMA AcceptInviteKept ==
  ASSUME KitInv, NEW d \in Clients, AcceptInvite(d)
  PROVE  QueueKept(d) /\ ScreenKept(d)
<1> UiTypeOK /\ NoSelfCall
  BY DEF KitInv
<1>1. form[d] # NoForm
  BY BeforeAccept DEF KitInv, Windowless, AcceptInvite, AcceptStep
<1>2. \/ EnterEndCallPage(d, "REJECT") \/ ShowStatusPage(d, "talk") \/ UNCHANGED uiVars
  BY DEF AcceptInvite
<1>3. CASE UNCHANGED uiVars
  BY <1>1, <1>3, QueueSame DEF ScreenKept, UiTypeOK, uiVars
<1> QED
  BY <1>1, <1>2, <1>3, EndPageKept, StatusPageKept DEF EndCall

-----------------------------------------------------------------------------
(* The invariant.                                                          *)

\* A step that is d's leaves the others, and d has its window or had none to
\* do anything with.
LEMMA ActorWindowless ==
  ASSUME KitInv, NEW d \in Clients, UNCHANGED avVars \/ ComponentStep(d),
         QueueKept(d), ScreenKept(d)
  PROVE  \A c \in Clients : Windowless(c)'
<1> SUFFICES ASSUME NEW c \in Clients, c # d, form[c] = NoForm
             PROVE  requests'[c] = <<>> /\ ghost'[c] = NoForm /\ Before(c)'
  BY DEF ScreenKept, Windowless
<1>1. requests[c] = <<>> /\ ghost[c] = NoForm /\ Before(c) /\ Inv
  BY DEF KitInv, Windowless
<1>2. requests'[c] = <<>> /\ ghost'[c] = NoForm
  BY <1>1 DEF QueueKept, ScreenKept
<1>3. CASE UNCHANGED avVars
  BY <1>1, <1>2, <1>3
  DEF Before, Untouched, Announced, Uncalled, Stranger, NoAnswer, avVars, svcVars, callVars,
      tokenVars, rtcVars
<1>4. CASE ComponentStep(d)
  BY <1>1, <1>2, <1>4, BeforeOthers
<1> QED
  BY <1>3, <1>4

LEMMA InsideWindowless ==
  ASSUME KitInv, NEW d \in Clients, Inside(d), UNCHANGED uiVars
  PROVE  \A c \in Clients : Windowless(c)'
<1> SUFFICES ASSUME NEW c \in Clients, form[c] = NoForm
             PROVE  requests'[c] = <<>> /\ ghost'[c] = NoForm /\ Before(c)'
  BY DEF Windowless, uiVars
<1>1. requests[c] = <<>> /\ ghost[c] = NoForm /\ Before(c) /\ Inv
  BY DEF KitInv, Windowless
<1>2. Before(c)'
  BY <1>1, BeforeOthers, BeforeOwn DEF ComponentStep
<1> QED
  BY <1>1, <1>2 DEF uiVars

LEMMA KitInitially == KitInit => KitInv
<1> SUFFICES ASSUME KitInit
             PROVE  KitInv
  OBVIOUS
<1>1. Inv /\ Init
  BY InitInv DEF KitInit
<1>2. UiTypeOK
  BY DEF KitInit, UiTypeOK, Form
<1>3. NoSelfCall
  BY DEF KitInit, NoSelfCall
<1>4. Inviters
  <2>1. /\ \A ch \in Chan : callee[ch] = NoClient
        /\ \A c \in Clients : events[c] = <<>>
    BY <1>1 DEF Init, SvcInit
  <2>2. \A c \in Clients : DOMAIN events[c] = {}
    BY <2>1
  <2> QED
    BY <2>1, <2>2 DEF Inviters
<1>5. ASSUME NEW c \in Clients
      PROVE  Windowless(c)
  <2>1. /\ inbox[c] = <<>>
        /\ \A ch \in Chan : creator[ch] = NoClient /\ callee[ch] = NoClient /\ members[ch] = {}
    BY <1>1 DEF Init, SvcInit
  <2>2. Uncalled(inbox, c)
    BY <2>1, SignalingAssumption DEF Uncalled, Stranger
  <2>3. Untouched(c)
    BY <1>1, <2>2 DEF Init, Untouched
  <2>4. waiting[c] = Free /\ Free[1] # "acceptCb"
    BY <1>1 DEF Init, Free
  <2>5. NoAnswer(inbox, c)
    BY <2>1 DEF NoAnswer
  <2> QED
    BY <2>3, <2>4, <2>5 DEF KitInit, Windowless, Before
<1> QED
  BY <1>1, <1>2, <1>3, <1>4, <1>5 DEF KitInv

LEMMA KitStep ==
  ASSUME KitInv, [KitNext]_vars
  PROVE  KitInv'
<1>1. Inv'
  BY KitStepIsStep, NextKeepsInv DEF KitInv
<1>2. Inviters'
  <2>1. CASE UNCHANGED avVars
    BY <2>1 DEF KitInv, Inviters, avVars, svcVars
  <2>2. ASSUME NEW d \in Clients, ComponentStep(d)
        PROVE  Inviters'
    BY <2>2, InvitersKept DEF KitInv
  <2> QED
    BY <2>1, <2>2, KitStepIsStep
<1>3. ASSUME NEW d \in Clients, UNCHANGED avVars \/ ComponentStep(d),
             QueueKept(d), ScreenKept(d)
      PROVE  UiTypeOK' /\ NoSelfCall' /\ \A c \in Clients : Windowless(c)'
  BY <1>3, ActorWindowless DEF UiTypeOK, QueueKept, ScreenKept
<1>4. ASSUME NEW d \in Clients, Inside(d), UNCHANGED uiVars
      PROVE  UiTypeOK' /\ NoSelfCall' /\ \A c \in Clients : Windowless(c)'
  BY <1>4, InsideWindowless DEF KitInv, UiTypeOK, NoSelfCall, uiVars
<1>5. UiTypeOK' /\ NoSelfCall' /\ \A c \in Clients : Windowless(c)'
  <2>1. CASE UNCHANGED vars
    BY <2>1
    DEF vars, KitInv, UiTypeOK, NoSelfCall, Windowless, Before, Untouched, Announced, Uncalled,
        Stranger, NoAnswer, avVars, svcVars, callVars, tokenVars, rtcVars, uiVars
  <2>2. ASSUME NEW d \in Clients,
               \/ User(d) \/ Worker(d) \/ HandlesEvent(d) \/ Sdk(d)
               \/ Timer(d) \/ Http(d) \/ Engine(d) \/ Elsewhere(d)
        PROVE  UiTypeOK' /\ NoSelfCall' /\ \A c \in Clients : Windowless(c)'
    <3>1. CASE User(d)
      BY <1>3, <3>1, KitSteps, UserKept
    <3>2. CASE Worker(d)
      BY <1>3, <3>2, KitSteps, WorkerKept DEF ComponentStep
    <3>3. CASE HandlesEvent(d)
      BY <1>3, <3>3, KitSteps, HandlesEventKept DEF ComponentStep
    <3>4. CASE AcceptInvite(d) /\ AcceptStep(d)
      BY <1>3, <3>4, AcceptInviteKept DEF ComponentStep
    <3>5. CASE Inside(d) /\ UNCHANGED uiVars
      BY <1>4, <3>5
    <3> QED
      BY <2>2, <3>1, <3>2, <3>3, <3>4, <3>5, KitSteps DEF Inside
  <2> QED
    BY <2>1, <2>2 DEF KitNext
<1> QED
  BY <1>1, <1>2, <1>5 DEF KitInv

-----------------------------------------------------------------------------
(* The theorems.                                                           *)

\* The invariant, of the component and of the windows above it, is kept by every
\* thread of every client.
THEOREM KitInvariance == KitSpec => []KitInv
BY KitInitially, KitStep, PTL DEF KitSpec

\* The windows, queues and threads that CallKit.tla puts above the component use
\* it as it may be used: what was proved of it under any application holds of
\* the call kit (avchat_component_wrapper.cpp, video_manager_g2.cpp).
THEOREM CallKitIsApplication == KitSpec => Spec
<1>1. KitInit => Init
  BY DEF KitInit
<1>2. KitInv /\ [KitNext]_vars => [Next]_avVars
  BY KitStepIsStep
<1> QED
  BY <1>1, <1>2, KitInvariance, PTL DEF KitSpec, Spec

\* No event of the component but the first invitation, and no answer to an
\* accept, reaches the manager before it has a window: video_form_, which its
\* handlers use without a look, is there (video_manager_g2.cpp).
THEOREM KitTypeCorrect == KitSpec => []KitTypeOK
<1>1. KitInv => KitTypeOK
  BY DEF KitInv, Inv, UiTypeOK, KitTypeOK
<1> QED
  BY <1>1, KitInvariance, PTL

\* Whatever the users of two or more clients do, the camera and the microphone
\* of each are only in rooms of his own calls.
THEOREM KitEngineStaysInOwnCall == KitSpec => []EngineOnlyInOwnCall
BY CallKitIsApplication, EngineStaysInOwnCall, PTL

\* As long as there is but one call, whoever else is on line, the engine is never
\* in the room of a call which still rings, was refused or was taken back: with
\* more, channelName_ may be that of the other one (handleInvited
\* writes it before it looks whether a call is on).
THEOREM OneCallOnlyAnsweredRooms ==
  ASSUME MaxCalls <= 1
  PROVE  KitSpec => []OnlyAnsweredRooms
<1>1. \A x, y \in Chan : x = y
  BY SignalingAssumption DEF Chan
<1>2. EngineOnlyInOwnCall /\ EngineAfterAnswer => OnlyAnsweredRooms
  BY <1>1 DEF EngineOnlyInOwnCall, EngineAfterAnswer, Reached, Party, Answered, OnlyAnsweredRooms
<1> QED
  BY <1>2, CallKitIsApplication, EngineStaysInOwnCall, EngineOnlyAfterAnswer, PTL

\* The two ends of the only call meet: as long as the service tells of the
\* acceptance before it tells of the joining, both engines enter the same room,
\* whichever versions the two run and whoever hangs up, refuses or answers on
\* another device meanwhile.
THEOREM OneCallSameRoom ==
  ASSUME MaxCalls <= 1, ~JoinFirst
  PROVE  KitSpec => []SameRoom
<1>1. TypeOK /\ (\A c \in Clients : RoomFlow(c)) => SameRoom
  <2> SUFFICES ASSUME TypeOK, \A c \in Clients : RoomFlow(c),
                      NEW c \in Clients, NEW d \in Clients, rtc[c][1] = rtc[d][1]
               PROVE  rtc[c] = rtc[d]
    BY DEF SameRoom
  <2>1. rtc[c] \in Room /\ rtc[d] \in Room
    BY DEF TypeOK, OwnTypeOK
  <2>2. CASE rtc[c][1] = NoChan
    <3>1. NoChan \notin Chan
      BY SignalingAssumption DEF Chan, NoChan
    <3> QED
      BY <2>1, <2>2, <3>1 DEF Room, NoRoom
  <2>3. CASE rtc[c][1] # NoChan
    <3>1. /\ rtc[c] \in Chan \X {"name", "id"} /\ rtc[d] \in Chan \X {"name", "id"}
          /\ rtc[c] # NoRoom /\ rtc[d] # NoRoom
      BY <2>1, <2>3 DEF Room, NoRoom
    <3>2. rtc[c][2] = "name" <=> rtc[d][2] = "name"
      BY <3>1 DEF RoomFlow
    <3>3. rtc[c][2] = rtc[d][2]
      BY <3>1, <3>2
    <3> QED
      BY <3>1, <3>3
  <2> QED
    BY <2>2, <2>3
<1> QED
  BY <1>1, CallKitIsApplication, TypeCorrect, FlowIsAgreed, PTL

-----------------------------------------------------------------------------
(* One bill for the one call, if nobody who is called calls.               *)
(*                                                                         *)
(* A bill is written by the waiting timer, by a hangup, by the "reject"    *)
(* that the window asks for when it hears of a refusal, and by who is      *)
(* invited while busy.  None of them knows of the others: what keeps the   *)
(* second from being written is the order in which the threads of the      *)
(* caller learn of what happened.  The invariant BillInv follows the       *)
(* refusal on its way, from the service (Chained) to the component (Over), *)
(* the window (Refused) and back (Deaf).                                   *)

Dialling == {d[1] : d \in Dials}
Dialled  == {d[2] : d \in Dials}
Directed == Dialling \cap Dialled = {}

\* Who is who: no client is on both sides.
Sides ==
  /\ \A ch \in Chan :
       /\ creator[ch] \in Dialling \cup {NoClient} /\ callee[ch] \in Dialled \cup {NoClient}
       /\ creator[ch] = NoClient => invitation[ch] = "none"
  /\ \A c \in Clients :
       /\ to[c] \in Dialled \cup {NoClient}
       /\ created[c] # NoChan => Caller(c, created[c])
       /\ \A i \in DOMAIN requests[c] :
            requests[c][i].op = "call" => c \in Dialling /\ requests[c][i].peer \in Dialled

\* Who dials never has an invitation on the screen nor an answer to give.
Outgoing(c) ==
  /\ form[c].view # "confirm" /\ ghost[c].view # "confirm" /\ waiting[c][1] # "acceptCb"
  /\ NoAnswer(inbox, c)
  /\ \A i \in DOMAIN requests[c] : requests[c][i].op # "accept"
  /\ \A i \in DOMAIN events[c] : events[c][i].kind # "onInvited"

\* Until the one invitation is taken in, who is dialled knows of nothing.
Unheard(c) == form[c] = NoForm /\ ~Announced(c)
Has(s, kind) == \E i \in DOMAIN s : s[i].kind = kind

Incoming(c) ==
  /\ (\A ch \in Chan : callee[ch] # c) \/ Has(inbox[c], "Invite") => Unheard(c)
  /\ \A i, j \in DOMAIN inbox[c] :
       inbox[c][i].kind = "Invite" /\ inbox[c][j].kind = "Invite" => i = j

\* One answer leads to the next request, and a refusal comes after them all.
Chained(c) ==
  \A i, j \in DOMAIN inbox[c] :
    /\ Setup(inbox[c][i]) => invitation[inbox[c][i].ch] = "none"
    /\ Setup(inbox[c][i]) /\ Setup(inbox[c][j]) => i = j
    /\ inbox[c][i].kind = "Reject" =>
         /\ Caller(c, inbox[c][i].ch) /\ invitation[inbox[c][i].ch] = "rejected"
         /\ inbox[c][j].kind = "inviteCb" => j < i

\* The refusal was taken in: the component does not call again.
Over(c) ==
  /\ \E ch \in Chan : Caller(c, ch) /\ invitation[ch] = "rejected"
  /\ status[c] = "idle" /\ ~Has(inbox[c], "inviteCb")

\* The refusal reaches the window once, after it was taken in.
Refused(c) ==
  /\ \A i \in DOMAIN events[c] : events[c][i].kind = "onUserReject" => Over(c)
  /\ \A i \in DOMAIN requests[c] : requests[c][i].op = "reject" => Over(c) /\ form[c].end # "none"
  /\ \A i, j \in DOMAIN requests[c] :
       requests[c][i].op = "reject" /\ requests[c][j].op = "reject" => i = j

\* A refusal finds the window ended: its user hears of the timeout before.
TimedOutFirst(s) ==
  \E i \in DOMAIN s :
    /\ s[i].kind = "onCallingTimeOut"
    /\ \A j \in DOMAIN s : s[j].kind = "onUserReject" => i < j

Deaf(c) ==
  /\ \A i \in DOMAIN requests[c] : requests[c][i].op # "reject"
  /\ form[c].end # "none" \/ TimedOutFirst(events[c])

\* Neither a hangup, nor the timer, nor a refusal writes another bill.
NoMore(c) ==
  \/ ~master[c]
  \/ ((hurry[c] /\ ~timer[c]) \/ Over(c)) /\ Deaf(c)

Billed(ch) ==
  \/ bills[ch] = <<>>
  \/ /\ Len(bills[ch]) = 1
     /\ \E c \in Clients : Caller(c, ch) /\ NoMore(c)

BillInv ==
  /\ Sides
  /\ \A c \in Clients :
       /\ c \in Dialling => Outgoing(c) /\ Refused(c)
       /\ c \in Dialled => Incoming(c)
       /\ Chained(c)
  /\ \A ch \in Chan : Billed(ch)

-----------------------------------------------------------------------------
(* What is added to an inbox.  Most messages have no weight for the bills. *)

Weighty(m) == Setup(m) \/ m.kind \in {"inviteCb", "Invite", "Reject"}

Held(r, s, i, o)  == i + o \in DOMAIN s /\ r[i] = s[i + o]
Later(s, i)       == \A j \in DOMAIN s : j < i
Light(r, i, n, K) == Weighty(r[i]) => i = n /\ r[i] \in K

\* r is s and further messages, of which one at most has weight: it is in K.
Grows(r, s, K) ==
  /\ Len(s) <= Len(r)
  /\ \E n \in Nat : \A i \in DOMAIN r :
       Held(r, s, i, 0) \/ (Later(s, i) /\ Light(r, i, n, K))

\* The same, the first o messages of s having been taken.
Follow(r, s, o, K) ==
  \E n \in Nat : \A i \in DOMAIN r :
    Held(r, s, i, o) \/ (Later(s, i + o) /\ Light(r, i, n, K))

Comes(c, K) == \E o \in {0, 1} : Follow(inbox'[c], inbox[c], o, K)
Took(c, K)  == Follow(inbox'[c], inbox[c], 1, K)

\* What is kept as it is.
LEMMA GrowsSelf ==
  ASSUME NEW s \in Seq(Message), NEW K
  PROVE  Grows(s, s, K)
BY DEF Grows, Held

\* One message more.
LEMMA GrowsPush ==
  ASSUME NEW q \in Inboxes, NEW r \in Inboxes, NEW S, NEW m \in Message, NEW c \in Clients,
         NEW K, Grows(r[c], q[c], K), c \in S => ~Weighty(m)
  PROVE  Push(r, S, m) \in Inboxes /\ Grows(Push(r, S, m)[c], q[c], K)
<1> DEFINE s == q[c]
           t == r[c]
           u == Push(r, S, m)[c]
<1>1. Push(r, S, m) \in Inboxes /\ s \in Seq(Message) /\ t \in Seq(Message)
  BY PushAtEnd DEF Inboxes
<1>2. CASE c \notin S
  <2>1. u = t
    BY <1>2, PushAtEnd
  <2> QED
    BY <1>1, <2>1
<1>3. CASE c \in S
  <2>1. u = Append(t, m)
    BY <1>3, PushAtEnd
  <2> HIDE DEF s, t, u
  <2>2. /\ Len(s) \in Nat /\ Len(t) \in Nat /\ DOMAIN s = 1..Len(s) /\ DOMAIN t = 1..Len(t)
        /\ DOMAIN u = 1..(Len(t) + 1) /\ Len(u) = Len(t) + 1
        /\ \A i \in 1..Len(t) : u[i] = t[i]
        /\ u[Len(t) + 1] = m
    BY <1>1, <2>1
  <2>3. Grows(t, s, K)
    BY DEF s, t
  <2>4. PICK n \in Nat : \A i \in DOMAIN t :
          Held(t, s, i, 0) \/ (Later(s, i) /\ Light(t, i, n, K))
    BY <2>3 DEF Grows
  <2>5. Len(s) <= Len(t)
    BY <2>3 DEF Grows
  <2>6. ASSUME NEW i \in DOMAIN u
        PROVE  Held(u, s, i, 0) \/ (Later(s, i) /\ Light(u, i, n, K))
    <3>1. CASE i \in DOMAIN t
      <4>1. u[i] = t[i]
        BY <2>2, <3>1
      <4> QED
        BY <2>4, <3>1, <4>1 DEF Held, Light
    <3>2. CASE i = Len(t) + 1
      BY <1>3, <2>2, <2>5, <3>2 DEF Later, Light
    <3> QED
      BY <2>2, <3>1, <3>2
  <2>7. Grows(u, s, K)
    BY <2>2, <2>5, <2>6 DEF Grows
  <2> QED
    BY <1>1, <2>7 DEF s, u
<1> QED
  BY <1>2, <1>3

\* The one that has weight.
LEMMA GrowsBy ==
  ASSUME NEW q \in Inboxes, NEW r \in Inboxes, NEW S, NEW m \in Message, NEW c \in Clients,
         Grows(r[c], q[c], {}), NEW K, c \in S => m \in K
  PROVE  Push(r, S, m) \in Inboxes /\ Grows(Push(r, S, m)[c], q[c], K)
<1> DEFINE s == q[c]
           t == r[c]
           u == Push(r, S, m)[c]
<1>1. Push(r, S, m) \in Inboxes /\ s \in Seq(Message) /\ t \in Seq(Message)
  BY PushAtEnd DEF Inboxes
<1>2. CASE c \notin S
  <2>1. u = t
    BY <1>2, PushAtEnd
  <2> QED
    BY <1>1, <2>1 DEF Grows, Light
<1>3. CASE c \in S
  <2>1. u = Append(t, m)
    BY <1>3, PushAtEnd
  <2> HIDE DEF s, t, u
  <2>2. /\ Len(s) \in Nat /\ Len(t) \in Nat /\ DOMAIN s = 1..Len(s) /\ DOMAIN t = 1..Len(t)
        /\ DOMAIN u = 1..(Len(t) + 1) /\ Len(u) = Len(t) + 1
        /\ \A i \in 1..Len(t) : u[i] = t[i]
        /\ u[Len(t) + 1] = m
    BY <1>1, <2>1
  <2>3. Grows(t, s, {})
    BY DEF s, t
  <2>4. PICK n \in Nat : \A i \in DOMAIN t :
          Held(t, s, i, 0) \/ (Later(s, i) /\ Light(t, i, n, {}))
    BY <2>3 DEF Grows
  <2>5. Len(s) <= Len(t)
    BY <2>3 DEF Grows
  <2>6. ASSUME NEW i \in DOMAIN u
        PROVE  Held(u, s, i, 0) \/ (Later(s, i) /\ Light(u, i, Len(t) + 1, K))
    <3>1. CASE i \in DOMAIN t
      <4>1. u[i] = t[i]
        BY <2>2, <3>1
      <4> QED
        BY <2>4, <3>1, <4>1 DEF Held, Light
    <3>2. CASE i = Len(t) + 1
      BY <1>3, <2>2, <2>5, <3>2 DEF Later, Light
    <3> QED
      BY <2>2, <3>1, <3>2
  <2>7. Grows(u, s, K) /\ Len(t) + 1 \in Nat
    BY <2>2, <2>5, <2>6 DEF Grows
  <2> QED
    BY <1>1, <2>7 DEF s, u
<1> QED
  BY <1>2, <1>3

\* After an operation, and after a handler.
LEMMA GrownComes ==
  ASSUME inbox \in Inboxes, inbox' \in Inboxes, NEW c \in Clients, NEW K,
         Grows(inbox'[c], inbox[c], K)
  PROVE  Comes(c, K)
<1>1. PICK n \in Nat : \A i \in DOMAIN inbox'[c] :
        \/ Held(inbox'[c], inbox[c], i, 0)
        \/ Later(inbox[c], i) /\ Light(inbox'[c], i, n, K)
  BY DEF Grows
<1>2. \A i \in DOMAIN inbox'[c] :
        \/ Held(inbox'[c], inbox[c], i, 0)
        \/ Later(inbox[c], i + 0) /\ Light(inbox'[c], i, n, K)
  <2> SUFFICES ASSUME NEW i \in DOMAIN inbox'[c]
               PROVE  \/ Held(inbox'[c], inbox[c], i, 0)
                      \/ Later(inbox[c], i + 0) /\ Light(inbox'[c], i, n, K)
    OBVIOUS
  <2>1. i + 0 = i
    BY DEF Inboxes
  <2> QED
    BY <1>1, <2>1
<1> QED
  BY <1>2 DEF Comes, Follow

\* The message taken was the first.
LEMMA RestTook ==
  ASSUME inbox \in Inboxes, inbox' \in Inboxes, NEW d \in Clients, inbox[d] # <<>>,
         NEW K, Grows(inbox'[d], Rest(d)[d], K)
  PROVE  Took(d, K)
<1> DEFINE s == inbox[d]
           t == Tail(inbox[d])
           u == inbox'[d]
<1>1. s \in Seq(Message) /\ s # <<>> /\ Grows(u, t, K) /\ u \in Seq(Message)
  BY DEF Rest, Inboxes
<1> HIDE DEF u
<1>2. /\ Len(s) \in Nat /\ Len(s) # 0 /\ DOMAIN s = 1..Len(s)
      /\ Len(t) = Len(s) - 1 /\ DOMAIN t = 1..(Len(s) - 1) /\ t \in Seq(Message)
      /\ DOMAIN u = 1..Len(u) /\ Len(u) \in Nat
      /\ \A i \in 1..(Len(s) - 1) : t[i] = s[i + 1]
  BY <1>1
<1> HIDE DEF s, t
<1>3. PICK n \in Nat : \A i \in DOMAIN u :
        Held(u, t, i, 0) \/ (Later(t, i) /\ Light(u, i, n, K))
  BY <1>1 DEF Grows
<1>4. ASSUME NEW i \in DOMAIN u
      PROVE  Held(u, s, i, 1) \/ (Later(s, i + 1) /\ Light(u, i, n, K))
  <2>1. i \in Nat /\ i >= 1
    BY <1>2
  <2>2. CASE Held(u, t, i, 0)
    BY <1>2, <2>1, <2>2 DEF Held
  <2>3. CASE Later(t, i) /\ Light(u, i, n, K)
    BY <1>2, <2>1, <2>3 DEF Later
  <2> QED
    BY <1>3, <2>2, <2>3
<1> QED
  BY <1>4 DEF Took, Follow, s, u

\* What was added after the first message of d was taken, as every client sees it.
LEMMA RestComes ==
  ASSUME inbox \in Inboxes, inbox' \in Inboxes, NEW d \in Clients, inbox[d] # <<>>,
         NEW c \in Clients, NEW K, Grows(inbox'[c], Rest(d)[c], K)
  PROVE  Comes(c, K) /\ (c = d => Took(c, K))
<1>1. CASE c # d
  BY <1>1, GrownComes DEF Rest, Inboxes
<1>2. CASE c = d
  BY <1>2, RestTook DEF Comes, Took
<1> QED
  BY <1>1, <1>2

-----------------------------------------------------------------------------
(* What each operation of the service, asked for by d, adds for c.         *)

\* Which answers and notices have no weight.
LEMMA WeightOf ==
  /\ \A kind \in {"rejectCb", "closeCb", "leaveCb", "acceptCb"}, ch \in ChanId, ok \in BOOLEAN :
       Msg(kind, ch, ok) \in Message /\ ~Weighty(Msg(kind, ch, ok))
  /\ \A kind \in {"createCb", "joinCb"}, ch \in ChanId :
       Msg(kind, ch, FALSE) \in Message /\ ~Weighty(Msg(kind, ch, FALSE))
  /\ \A kind \in Notice \ {"Invite", "Reject"}, ch \in Chan :
       News(kind, ch) \in Message /\ ~Weighty(News(kind, ch))
BY MsgIsMessage DEF Weighty, Setup, News, Msg, Notice, Answer

\* Something light is told, after which nothing has been added that has weight.
LEMMA LightAnswer ==
  ASSUME NEW q \in Inboxes, NEW d \in Clients, NEW c \in Clients,
         NEW kind \in {"rejectCb", "closeCb", "leaveCb", "acceptCb"},
         NEW ch \in ChanId, NEW ok \in BOOLEAN
  PROVE  /\ Push(q, {d}, Msg(kind, ch, ok)) \in Inboxes
         /\ Grows(Push(q, {d}, Msg(kind, ch, ok))[c], q[c], {})
<1>1. Grows(q[c], q[c], {})
  BY GrowsSelf DEF Inboxes
<1> QED
  BY <1>1, GrowsPush, WeightOf

\* A failure of an answer of weight.
LEMMA LightFailure ==
  ASSUME NEW q \in Inboxes, NEW d \in Clients, NEW c \in Clients,
         NEW kind \in {"createCb", "joinCb"}, NEW ch \in ChanId
  PROVE  /\ Push(q, {d}, Msg(kind, ch, FALSE)) \in Inboxes
         /\ Grows(Push(q, {d}, Msg(kind, ch, FALSE))[c], q[c], {})
<1>1. Grows(q[c], q[c], {})
  BY GrowsSelf DEF Inboxes
<1> QED
  BY <1>1, GrowsPush, WeightOf

\* A notice of no weight.
LEMMA LightNews ==
  ASSUME NEW q \in Inboxes, NEW r \in Inboxes, NEW S, NEW c \in Clients, NEW K,
         NEW kind \in Notice \ {"Invite", "Reject"}, NEW ch \in Chan, Grows(r[c], q[c], K)
  PROVE  /\ Push(r, S, News(kind, ch)) \in Inboxes
         /\ Grows(Push(r, S, News(kind, ch))[c], q[c], K)
BY GrowsPush, WeightOf

\* The service says nothing.
LEMMA SilentMail ==
  ASSUME NEW q \in Inboxes, NEW c \in Clients, Silent(q)
  PROVE  inbox' \in Inboxes /\ Grows(inbox'[c], q[c], {})
BY GrowsSelf DEF Silent, Inboxes

\* A channel, if one is made, is told to who asked.
LEMMA CreateMail ==
  ASSUME SvcTypeOK, NEW q \in Inboxes, NEW c \in Clients, NEW d \in Clients, SignalingCreate(q, d)
  PROVE  /\ inbox' \in Inboxes
         /\ \/ creator' = creator /\ Grows(inbox'[c], q[c], {})
            \/ \E ch \in Unused :
                 /\ creator' = [creator EXCEPT ![ch] = d]
                 /\ Grows(inbox'[c], q[c], IF c = d THEN {Msg("createCb", ch, TRUE)} ELSE {})
<1>1. \/ /\ creator' = creator
         /\ inbox' = Push(q, {d}, Msg("createCb", NoChan, FALSE))
      \/ \E ch \in Unused :
           /\ creator' = [creator EXCEPT ![ch] = d]
           /\ inbox' = Push(q, {d}, Msg("createCb", ch, TRUE))
  BY DEF SignalingCreate
<1>2. CASE creator' = creator /\ inbox' = Push(q, {d}, Msg("createCb", NoChan, FALSE))
  BY <1>2, LightFailure DEF ChanId
<1>3. ASSUME NEW ch \in Unused, creator' = [creator EXCEPT ![ch] = d],
             inbox' = Push(q, {d}, Msg("createCb", ch, TRUE))
      PROVE  /\ inbox' \in Inboxes
             /\ Grows(inbox'[c], q[c], IF c = d THEN {Msg("createCb", ch, TRUE)} ELSE {})
  <2>1. Grows(q[c], q[c], {})
    BY GrowsSelf DEF Inboxes
  <2>2. Msg("createCb", ch, TRUE) \in Message
    BY MsgIsMessage DEF Answer, ChanId, Unused
  <2> QED
    BY <1>3, <2>1, <2>2, GrowsBy
<1> QED
  BY <1>1, <1>2, <1>3

\* So is that it was joined; the others learn who joined.
LEMMA JoinMail ==
  ASSUME SvcTypeOK, NEW q \in Inboxes, NEW c \in Clients, NEW d \in Clients, NEW ch \in Chan,
         SignalingJoin(q, d, ch)
  PROVE  /\ inbox' \in Inboxes
         /\ Grows(inbox'[c], q[c], IF c = d THEN {Msg("joinCb", ch, TRUE)} ELSE {})
<1> DEFINE K == IF c = d THEN {Msg("joinCb", ch, TRUE)} ELSE {}
<1>1. \/ inbox' = Push(Push(q, {d}, Msg("joinCb", ch, TRUE)), members[ch] \ {d}, News("Join", ch))
      \/ inbox' = Push(q, {d}, Msg("joinCb", ch, FALSE))
  BY DEF SignalingJoin
<1>2. CASE inbox' = Push(q, {d}, Msg("joinCb", ch, FALSE))
  <2>1. inbox' \in Inboxes /\ Grows(inbox'[c], q[c], {})
    BY <1>2, LightFailure DEF ChanId
  <2> QED
    BY <2>1 DEF Grows, Light
<1>3. CASE inbox' = Push(Push(q, {d}, Msg("joinCb", ch, TRUE)), members[ch] \ {d},
                         News("Join", ch))
  <2> DEFINE r == Push(q, {d}, Msg("joinCb", ch, TRUE))
  <2>1. Grows(q[c], q[c], {})
    BY GrowsSelf DEF Inboxes
  <2>2. Msg("joinCb", ch, TRUE) \in Message
    BY MsgIsMessage DEF Answer, ChanId
  <2>3. r \in Inboxes /\ Grows(r[c], q[c], K)
    BY <2>1, <2>2, GrowsBy
  <2>4. inbox' = Push(r, members[ch] \ {d}, News("Join", ch))
    BY <1>3
  <2> HIDE DEF r, K
  <2>5. "Join" \in Notice \ {"Invite", "Reject"}
    BY DEF Notice
  <2>6. inbox' \in Inboxes /\ Grows(inbox'[c], q[c], K)
    BY <2>3, <2>4, <2>5, LightNews
  <2> QED
    BY <2>6 DEF K
<1> QED
  BY <1>1, <1>2, <1>3

\* The invitation and its answer, if somebody else is invited.
LEMMA InviteMail ==
  ASSUME SvcTypeOK, NEW q \in Inboxes, NEW c \in Clients, NEW d \in Clients, NEW ch \in Chan,
         NEW p, p # d, SignalingInvite(q, d, ch, p)
  PROVE  /\ inbox' \in Inboxes
         /\ \E ok \in BOOLEAN :
              /\ IF ok
                 THEN /\ callee' = [callee EXCEPT ![ch] = p]
                      /\ invitation' = [invitation EXCEPT ![ch] = "pending"]
                 ELSE callee' = callee /\ invitation' = invitation
              /\ Grows(inbox'[c], q[c], IF c = d THEN {Msg("inviteCb", ch, ok)}
                                        ELSE IF c = p /\ ok THEN {News("Invite", ch)} ELSE {})
<1>0. /\ Grows(q[c], q[c], {})
      /\ \A ok \in BOOLEAN : Msg("inviteCb", ch, ok) \in Message
      /\ News("Invite", ch) \in Message
  BY GrowsSelf, MsgIsMessage DEF Inboxes, Answer, Notice, ChanId
<1>1. CASE /\ callee' = callee /\ invitation' = invitation
           /\ inbox' = Push(q, {d}, Msg("inviteCb", ch, FALSE))
  <2>1. /\ inbox' \in Inboxes
        /\ Grows(inbox'[c], q[c], IF c = d THEN {Msg("inviteCb", ch, FALSE)} ELSE {})
    BY <1>0, <1>1, GrowsBy
  <2> QED
    BY <1>1, <2>1
<1>2. CASE /\ callee' = [callee EXCEPT ![ch] = p]
           /\ invitation' = [invitation EXCEPT ![ch] = "pending"]
           /\ inbox' = Push(Push(q, {d}, Msg("inviteCb", ch, TRUE)), {p}, News("Invite", ch))
  <2> DEFINE r == Push(q, {d}, Msg("inviteCb", ch, TRUE))
             K == IF c = d THEN {Msg("inviteCb", ch, TRUE)}
                  ELSE IF c = p THEN {News("Invite", ch)} ELSE {}
  <2>1. /\ r \in Inboxes
        /\ Grows(r[c], q[c], IF c = d THEN {Msg("inviteCb", ch, TRUE)} ELSE {})
    BY <1>0, GrowsBy
  <2>2. inbox' = Push(r, {p}, News("Invite", ch))
    BY <1>2
  <2> HIDE DEF r
  <2>3. CASE c = p
    <3>1. Grows(r[c], q[c], {})
      BY <2>1, <2>3
    <3> QED
      BY <1>0, <1>2, <2>1, <2>2, <2>3, <3>1, GrowsBy
  <2>4. CASE c # p
    <3>1. inbox' \in Inboxes /\ inbox'[c] = r[c]
      BY <1>0, <2>1, <2>2, <2>4, PushAtEnd
    <3> QED
      BY <1>2, <2>1, <2>4, <3>1
  <2> QED
    BY <2>3, <2>4
<1> QED
  BY <1>1, <1>2 DEF SignalingInvite

\* The news of an accept, in either order.
LEMMA AcceptNewsMail ==
  ASSUME NEW q \in Inboxes, NEW r \in Inboxes, NEW c \in Clients, NEW d, NEW ch \in Chan,
         Grows(r[c], q[c], {}), NEW s \in AcceptNews(r, d, ch)
  PROVE  s \in Inboxes /\ Grows(s[c], q[c], {})
<1>1. ASSUME NEW x \in Inboxes, Grows(x[c], q[c], {}), NEW S, NEW kind \in {"Accept", "Join"}
      PROVE  /\ Push(x, S, News(kind, ch)) \in Inboxes
             /\ Grows(Push(x, S, News(kind, ch))[c], q[c], {})
  BY <1>1, LightNews DEF Notice
<1>2. \/ s = Push(Push(r, {creator[ch]}, News("Accept", ch)), members[ch] \ {d}, News("Join", ch))
      \/ s = Push(Push(r, members[ch] \ {d}, News("Join", ch)), {creator[ch]}, News("Accept", ch))
  BY DEF AcceptNews
<1> QED
  BY <1>1, <1>2

\* An answer to an invitation has no weight,
LEMMA AcceptMail ==
  ASSUME SvcTypeOK, NEW q \in Inboxes, NEW c \in Clients, NEW d \in Clients, NEW ch \in ChanId,
         SignalingAccept(q, d, ch)
  PROVE  inbox' \in Inboxes /\ Grows(inbox'[c], q[c], {})
<1> DEFINE good == Push(q, {d}, Msg("acceptCb", ch, TRUE))
           bad  == Push(q, {d}, Msg("acceptCb", ch, FALSE))
<1>1. /\ good \in Inboxes /\ Grows(good[c], q[c], {})
      /\ bad \in Inboxes /\ Grows(bad[c], q[c], {})
  BY LightAnswer
<1>2. (ch \in Chan /\ inbox' \in AcceptNews(good, d, ch)) \/ inbox' = bad
  <2>1. PICK ok \in Verdicts(Pending(ch) /\ callee[ch] = d) :
          IF ok THEN inbox' \in AcceptNews(good, d, ch) ELSE inbox' = bad
    BY DEF SignalingAccept, Verdicts
  <2> QED
    BY <2>1 DEF Verdicts, Pending
<1> HIDE DEF good, bad
<1> QED
  BY <1>1, <1>2, AcceptNewsMail

\* A refusal is told to the creator; a busy answer has no weight here.
LEMMA RejectMail ==
  ASSUME SvcTypeOK, NEW q \in Inboxes, NEW c \in Clients, NEW d \in Clients, NEW ch \in ChanId,
         NEW notice \in {"Reject", "Busy"}, NEW answered \in BOOLEAN,
         SignalingReject(q, d, ch, notice, answered)
  PROVE  /\ inbox' \in Inboxes
         /\ \/ Grows(inbox'[c], q[c], {})
            \/ /\ notice = "Reject" /\ Caller(c, ch) /\ invitation'[ch] = "rejected"
               /\ Grows(inbox'[c], q[c], {News("Reject", ch)})
<1> DEFINE yes == IF answered THEN Push(q, {d}, Msg("rejectCb", ch, TRUE)) ELSE q
           no  == IF answered THEN Push(q, {d}, Msg("rejectCb", ch, FALSE)) ELSE q
<1>1. /\ yes \in Inboxes /\ Grows(yes[c], q[c], {})
      /\ no \in Inboxes /\ Grows(no[c], q[c], {})
  <2>1. Grows(q[c], q[c], {})
    BY GrowsSelf DEF Inboxes
  <2> QED
    BY <2>1, LightAnswer
<1>2. \/ /\ ch \in Chan /\ invitation'[ch] = "rejected"
         /\ inbox' = Push(yes, {creator[ch]}, News(notice, ch))
      \/ inbox' = no
  <2>1. PICK ok \in Verdicts(Pending(ch) /\ callee[ch] = d) :
          IF ok THEN /\ invitation' = [invitation EXCEPT ![ch] = "rejected"]
                     /\ inbox' = Push(yes, {creator[ch]}, News(notice, ch))
                ELSE inbox' = no
    BY DEF SignalingReject, Verdicts
  <2>2. ok => ch \in Chan
    BY <2>1 DEF Verdicts, Pending
  <2> QED
    BY <2>1, <2>2 DEF SvcTypeOK
<1> HIDE DEF yes, no
<1>3. CASE inbox' = no
  BY <1>1, <1>3
<1>4. CASE /\ ch \in Chan /\ invitation'[ch] = "rejected"
           /\ inbox' = Push(yes, {creator[ch]}, News(notice, ch))
  <2>1. CASE notice = "Busy"
    BY <1>1, <1>4, <2>1, LightNews DEF Notice
  <2>2. CASE notice = "Reject"
    <3>1. News("Reject", ch) \in Message
      BY <1>4, MsgIsMessage DEF Notice
    <3>2. CASE c # creator[ch]
      BY <1>1, <1>4, <2>2, <3>1, <3>2, GrowsBy
    <3>3. CASE c = creator[ch]
      BY <1>1, <1>4, <2>2, <3>1, <3>3, GrowsBy DEF Caller
    <3> QED
      BY <3>2, <3>3
  <2> QED
    BY <2>1, <2>2
<1> QED
  BY <1>2, <1>3, <1>4

\* neither has a withdrawal nor a close,
LEMMA CancelAndCloseMail ==
  ASSUME SvcTypeOK, NEW q \in Inboxes, NEW c \in Clients, NEW d \in Clients,
         NEW cancels \in BOOLEAN, NEW x \in ChanId, NEW ch \in ChanId,
         CancelAndClose(q, d, cancels, x, ch)
  PROVE  inbox' \in Inboxes /\ Grows(inbox'[c], q[c], {})
<1> DEFINE cancelled == cancels /\ Pending(x) /\ creator[x] = d
           told == IF cancelled THEN Push(q, {callee[x]}, News("CancelInvite", x)) ELSE q
           good == Push(told, {d}, Msg("closeCb", ch, TRUE))
           bad  == Push(told, {d}, Msg("closeCb", ch, FALSE))
<1>0. Grows(q[c], q[c], {})
  BY GrowsSelf DEF Inboxes
<1>1. told \in Inboxes /\ Grows(told[c], q[c], {})
  <2>1. cancelled => x \in Chan
    BY DEF Pending
  <2> QED
    BY <1>0, <2>1, LightNews DEF Notice
<1>2. (ch \in Chan /\ inbox' = Push(good, members[ch] \ {d}, News("Close", ch))) \/ inbox' = bad
  <2>1. PICK ok \in Verdicts(ch \in Chan /\ open[ch] /\ d \in members[ch]) :
          IF ok THEN inbox' = Push(good, members[ch] \ {d}, News("Close", ch)) ELSE inbox' = bad
    BY DEF CancelAndClose, Verdicts
  <2> QED
    BY <2>1 DEF Verdicts
<1> HIDE DEF told
<1>3. /\ good \in Inboxes /\ Grows(good[c], q[c], {})
      /\ bad \in Inboxes /\ Grows(bad[c], q[c], {})
  BY <1>1, GrowsPush, WeightOf
<1> HIDE DEF good, bad
<1>4. ch \in Chan => /\ Push(good, members[ch] \ {d}, News("Close", ch)) \in Inboxes
                     /\ Grows(Push(good, members[ch] \ {d}, News("Close", ch))[c], q[c], {})
  <2>1. "Close" \in Notice \ {"Invite", "Reject"}
    BY DEF Notice
  <2> QED
    BY <1>3, <2>1, LightNews
<1> QED
  BY <1>2, <1>3, <1>4

\* nor a control message.
LEMMA ControlMail ==
  ASSUME NEW q \in Inboxes, NEW c \in Clients, NEW ch \in Chan, NEW p, SignalingControl(q, ch, p)
  PROVE  inbox' \in Inboxes /\ Grows(inbox'[c], q[c], {})
<1>1. Grows(q[c], q[c], {})
  BY GrowsSelf DEF Inboxes
<1> QED
  BY <1>1, LightNews DEF SignalingControl, Notice

\* Another device may refuse.
LEMMA OtherDeviceMail ==
  ASSUME SvcTypeOK, NEW c \in Clients, NEW d \in Clients, NEW ch \in Chan,
         NEW accepts \in BOOLEAN, OtherDeviceAnswers(d, ch, accepts)
  PROVE  /\ inbox' \in Inboxes
         /\ \/ Grows(inbox'[c], inbox[c], {})
            \/ /\ Caller(c, ch) /\ invitation'[ch] = "rejected"
               /\ Grows(inbox'[c], inbox[c], {News("Reject", ch)})
<1>0. inbox \in Inboxes /\ Grows(inbox[c], inbox[c], {})
  BY GrowsSelf DEF SvcTypeOK, Inboxes
<1>1. ASSUME NEW kind \in {"SyncAccept", "SyncReject"}
      PROVE  /\ Push(inbox, {d}, News(kind, ch)) \in Inboxes
             /\ Grows(Push(inbox, {d}, News(kind, ch))[c], inbox[c], {})
  BY <1>0, LightNews DEF Notice
<1>2. CASE accepts
  BY <1>0, <1>1, <1>2, AcceptNewsMail DEF OtherDeviceAnswers
<1>3. CASE ~accepts
  <2> DEFINE r == Push(inbox, {d}, News("SyncReject", ch))
  <2>1. r \in Inboxes /\ Grows(r[c], inbox[c], {})
    BY <1>1
  <2>2. /\ inbox' = Push(r, {creator[ch]}, News("Reject", ch))
        /\ invitation'[ch] = "rejected"
    BY <1>3 DEF OtherDeviceAnswers, SvcTypeOK
  <2>3. News("Reject", ch) \in Message
    BY MsgIsMessage DEF Notice
  <2> HIDE DEF r
  <2> QED
    BY <1>0, <2>1, <2>2, <2>3, GrowsBy DEF Caller
<1> QED
  BY <1>2, <1>3

-----------------------------------------------------------------------------
(* What each step of d adds for c.                                         *)

\* No channel is made, nobody is invited, no refusal taken back.
ServiceKept ==
  /\ creator' = creator /\ callee' = callee
  /\ \A ch \in Chan : \A fate \in {"none", "rejected"} :
       invitation[ch] = fate => invitation'[ch] = fate

NewsOf(c) ==
  \/ Comes(c, {})
  \/ \E ch \in Chan :
       Caller(c, ch) /\ invitation'[ch] = "rejected" /\ Comes(c, {News("Reject", ch)})

\* The inboxes are sequences of messages before a step and after it.
LEMMA InboxNext ==
  ASSUME Inv'
  PROVE  inbox' \in Inboxes /\ SvcTypeOK'
BY DEF Inv, TypeOK, SvcTypeOK, Inboxes

\* A handler takes the first message of d.
LEMMA HandlerMail ==
  ASSUME Inv, Inv', NEW c \in Clients, NEW d \in Clients, NEW kind, Gets(d, kind),
         NEW K, Grows(inbox'[c], Rest(d)[c], K)
  PROVE  Comes(c, K) /\ (c = d => Took(c, K))
BY InboxFacts, InboxNext, RestComes DEF Gets

\* Steps the service has no part in.
LEMMA StillMail ==
  ASSUME Inv, NEW c \in Clients, UNCHANGED svcVars
  PROVE  ServiceKept /\ Comes(c, {})
<1>1. inbox \in Inboxes /\ inbox' = inbox
  BY InboxFacts DEF svcVars
<1>2. Grows(inbox[c], inbox[c], {})
  BY <1>1, GrowsSelf DEF Inboxes
<1> QED
  BY <1>1, <1>2, GrownComes DEF ServiceKept, svcVars

\* Handlers that talk to nobody.
LEMMA SilentStep ==
  ASSUME Inv, Inv', NEW c \in Clients, NEW d \in Clients, NEW kind, Gets(d, kind), Silent(Rest(d))
  PROVE  ServiceKept /\ Comes(c, {})
<1>1. ServiceKept
  BY DEF Silent, ServiceKept
<1>2. Grows(inbox'[c], Rest(d)[c], {})
  BY GotFacts, SilentMail
<1> QED
  BY <1>1, <1>2, HandlerMail

\* A withdrawal leaves who was refused.
LEMMA CloseKeeps ==
  ASSUME Inv, NEW q, NEW d, NEW cancels, NEW x, NEW ch, CancelAndClose(q, d, cancels, x, ch)
  PROVE  ServiceKept
<1>1. creator' = creator /\ callee' = callee
  BY DEF CancelAndClose
<1>2. \/ invitation' = invitation
      \/ Pending(x) /\ invitation' = [invitation EXCEPT ![x] = "cancelled"]
  BY DEF CancelAndClose
<1> QED
  BY <1>1, <1>2, InboxFacts DEF ServiceKept, Pending, SvcTypeOK

\* A refusal is one of an invitation that was pending.
LEMMA RejectKeeps ==
  ASSUME Inv, NEW q, NEW d, NEW ch, NEW notice, NEW answered,
         SignalingReject(q, d, ch, notice, answered)
  PROVE  ServiceKept
<1>1. creator' = creator /\ callee' = callee
  BY DEF SignalingReject
<1>2. \/ invitation' = invitation
      \/ Pending(ch) /\ invitation' = [invitation EXCEPT ![ch] = "rejected"]
  BY DEF SignalingReject, Verdicts
<1> QED
  BY <1>1, <1>2, InboxFacts DEF ServiceKept, Pending, SvcTypeOK

\* The working thread, but for a call.
LEMMA OperationMail ==
  ASSUME Inv, Inv', NEW c \in Clients, NEW d \in Clients, accept(d) \/ reject(d) \/ hangup(d)
  PROVE  ServiceKept /\ NewsOf(c)
<1> SvcTypeOK /\ inbox \in Inboxes /\ inbox' \in Inboxes
  BY InboxFacts, InboxNext
<1>1. inviting[d] \in ChanId /\ invited[d] \in ChanId
  BY InboxFacts DEF OwnTypeOK
<1>2. CASE accept(d)
  <2>1. SignalingAccept(inbox, d, invited[d])
    BY <1>2 DEF accept
  <2>2. Comes(c, {})
    BY <1>1, <2>1, AcceptMail, GrownComes
  <2>3. creator' = creator /\ callee' = callee
    BY <2>1 DEF SignalingAccept
  <2>4. \/ invitation' = invitation
        \/ /\ Pending(invited[d])
           /\ invitation' = [invitation EXCEPT ![invited[d]] = "accepted"]
    BY <2>1 DEF SignalingAccept, Verdicts
  <2> QED
    BY <2>2, <2>3, <2>4 DEF ServiceKept, NewsOf, Pending, SvcTypeOK
<1>3. CASE reject(d)
  <2>1. SignalingReject(inbox, d, invited[d], "Reject", TRUE)
    BY <1>3 DEF reject
  <2>2. \/ Grows(inbox'[c], inbox[c], {})
        \/ /\ Caller(c, invited[d]) /\ invitation'[invited[d]] = "rejected"
           /\ Grows(inbox'[c], inbox[c], {News("Reject", invited[d])})
    BY <1>1, <2>1, RejectMail
  <2> QED
    BY <2>1, <2>2, RejectKeeps, GrownComes DEF NewsOf, Caller
<1>4. CASE hangup(d)
  <2>1. CASE UNCHANGED svcVars
    BY <2>1, StillMail DEF NewsOf
  <2>2. CASE CancelAndClose(inbox, d, status[d] = "calling" /\ master[d], inviting[d],
                            IF master[d] THEN inviting[d] ELSE invited[d])
    <3>1. PICK x \in BOOLEAN, ch \in ChanId : CancelAndClose(inbox, d, x, inviting[d], ch)
      <4>1. (status[d] = "calling" /\ master[d]) \in BOOLEAN
        OBVIOUS
      <4>2. (IF master[d] THEN inviting[d] ELSE invited[d]) \in ChanId
        BY <1>1
      <4> QED
        BY <2>2, <4>1, <4>2
    <3> QED
      BY <1>1, <3>1, CancelAndCloseMail, CloseKeeps, GrownComes DEF NewsOf
  <2> QED
    BY <1>4, <2>1, <2>2 DEF hangup
<1> QED
  BY <1>2, <1>3, <1>4

\* The SDK thread, but for the answers of the set-up.
LEMMA SdkMail ==
  ASSUME Inv, Inv', NEW c \in Clients, NEW d \in Clients,
         \/ signalingInviteCb(d) \/ signalingRejectCb(d) \/ signalingCloseCb(d)
         \/ signalingLeaveCb(d) \/ AcceptStep(d)
         \/ handleInvited(d) \/ handleAccepted(d) \/ AcceptedJoins(d)
         \/ handleControl(d) \/ ControlJoins(d) \/ handleRejected(d)
         \/ handleJoin(d) \/ handleLeave(d) \/ \E kind, event : Ends(d, kind, event)
  PROVE  ServiceKept /\ NewsOf(c)
<1> SvcTypeOK
  BY InboxFacts
<1>1. CASE handleInvited(d)
  <2>1. Gets(d, "Invite")
    BY <1>1 DEF handleInvited
  <2>2. Rest(d) \in Inboxes /\ Got(d).ch \in ChanId
    BY <2>1, GotFacts
  <2>3. CASE SignalingReject(Rest(d), d, Got(d).ch, "Busy", FALSE)
    <3>1. Grows(inbox'[c], Rest(d)[c], {})
      BY <2>2, <2>3, RejectMail
    <3> QED
      BY <2>1, <2>3, <3>1, RejectKeeps, HandlerMail DEF NewsOf
  <2>4. CASE Silent(Rest(d))
    BY <2>1, <2>4, SilentStep DEF NewsOf
  <2> QED
    BY <1>1, <2>3, <2>4 DEF handleInvited
<1>2. CASE handleRejected(d)
  <2>1. CASE Gets(d, "Reject") /\ Silent(Rest(d))
    BY <2>1, SilentStep DEF NewsOf
  <2>2. CASE Gets(d, "Busy") /\ SignalingClose(Rest(d), d, Got(d).ch)
    <3>1. Rest(d) \in Inboxes /\ Got(d).ch \in ChanId
      BY <2>2, GotFacts
    <3>2. CancelAndClose(Rest(d), d, FALSE, NoChan, Got(d).ch)
      BY <2>2 DEF SignalingClose
    <3>3. Grows(inbox'[c], Rest(d)[c], {})
      BY <3>1, <3>2, CancelAndCloseMail DEF ChanId
    <3> QED
      BY <2>2, <3>2, <3>3, CloseKeeps, HandlerMail DEF NewsOf
  <2> QED
    BY <1>2, <2>1, <2>2 DEF handleRejected
<1>3. CASE handleJoin(d)
  <2>1. Gets(d, "Join")
    BY <1>3 DEF handleJoin
  <2>2. Rest(d) \in Inboxes /\ Got(d).ch \in Chan
    BY <2>1, GotFacts DEF Notice
  <2>3. CASE SignalingControl(Rest(d), Got(d).ch, callee[Got(d).ch])
    <3>1. Grows(inbox'[c], Rest(d)[c], {})
      BY <2>2, <2>3, ControlMail
    <3>2. ServiceKept
      BY <2>3 DEF SignalingControl, ServiceKept
    <3> QED
      BY <2>1, <3>1, <3>2, HandlerMail DEF NewsOf
  <2>4. CASE Silent(Rest(d))
    BY <2>1, <2>4, SilentStep DEF NewsOf
  <2> QED
    BY <1>3, <2>3, <2>4 DEF handleJoin
<1>4. CASE AcceptedJoins(d) \/ ControlJoins(d) \/ AcceptJoins(d)
  <2>1. UNCHANGED svcVars
    BY <1>4 DEF AcceptedJoins, ControlJoins, AcceptJoins
  <2> QED
    BY <2>1, StillMail DEF NewsOf
<1>5. CASE \/ signalingInviteCb(d) \/ signalingRejectCb(d) \/ signalingCloseCb(d)
           \/ signalingLeaveCb(d) \/ AcceptFails(d) \/ AcceptSucceeds(d)
  <2>1. \E kind : Gets(d, kind) /\ Silent(Rest(d))
    BY <1>5
    DEF signalingInviteCb, signalingRejectCb, signalingCloseCb, signalingLeaveCb, AcceptFails,
        AcceptSucceeds
  <2> QED
    BY <2>1, SilentStep DEF NewsOf
<1>6. CASE \/ handleAccepted(d) \/ handleControl(d) \/ handleLeave(d)
           \/ \E kind, event : Ends(d, kind, event)
  <2>1. \E kind : Gets(d, kind) /\ Silent(Rest(d))
    BY <1>6 DEF handleAccepted, handleControl, handleLeave, Ends
  <2> QED
    BY <2>1, SilentStep DEF NewsOf
<1> QED
  BY <1>1, <1>2, <1>3, <1>4, <1>5, <1>6 DEF AcceptStep

\* The other threads, the other devices and the application.
LEMMA OthersMail ==
  ASSUME Inv, Inv', NEW c \in Clients, NEW d \in Clients,
         OwnStep(d) \/ OtherDevice(d) \/ TakesEvent(d)
  PROVE  ServiceKept /\ NewsOf(c)
<1>1. CASE OtherDevice(d)
  <2>1. PICK ch \in Chan, accepts \in BOOLEAN : OtherDeviceAnswers(d, ch, accepts)
    BY <1>1 DEF OtherDevice
  <2>2. \/ Grows(inbox'[c], inbox[c], {})
        \/ /\ Caller(c, ch) /\ invitation'[ch] = "rejected"
           /\ Grows(inbox'[c], inbox[c], {News("Reject", ch)})
    BY <2>1, OtherDeviceMail, InboxFacts
  <2>3. NewsOf(c)
    BY <2>2, InboxFacts, InboxNext, GrownComes DEF NewsOf
  <2>4. ServiceKept
    BY <2>1, InboxFacts DEF OtherDeviceAnswers, ServiceKept, Pending, SvcTypeOK
  <2> QED
    BY <2>3, <2>4
<1>2. CASE OwnStep(d) \/ TakesEvent(d)
  <2>1. UNCHANGED svcVars
    BY <1>2 DEF OwnStep, CallingTimeout, GetToken, onUserLeft, TakesEvent
  <2> QED
    BY <2>1, StillMail DEF NewsOf
<1> QED
  BY <1>1, <1>2

\* The three steps that set a call up: the channel, ...
LEMMA CallMail ==
  ASSUME Inv, Inv', NEW c \in Clients, NEW d \in Clients, NEW p, call(d, p)
  PROVE  /\ callee' = callee /\ invitation' = invitation
         /\ \/ creator' = creator /\ Comes(c, {})
            \/ \E ch \in Unused :
                 /\ creator' = [creator EXCEPT ![ch] = d]
                 /\ Comes(c, IF c = d THEN {Msg("createCb", ch, TRUE)} ELSE {})
<1>1. SignalingCreate(inbox, d) /\ SvcTypeOK /\ inbox \in Inboxes /\ inbox' \in Inboxes
  BY InboxFacts, InboxNext DEF call
<1>2. callee' = callee /\ invitation' = invitation
  BY <1>1 DEF SignalingCreate
<1>3. \/ creator' = creator /\ Grows(inbox'[c], inbox[c], {})
      \/ \E ch \in Unused :
           /\ creator' = [creator EXCEPT ![ch] = d]
           /\ Grows(inbox'[c], inbox[c], IF c = d THEN {Msg("createCb", ch, TRUE)} ELSE {})
  BY <1>1, CreateMail
<1> QED
  BY <1>1, <1>2, <1>3, GrownComes

\* ... the joining, ...
LEMMA CreateCbMail ==
  ASSUME Inv, Inv', NEW c \in Clients, NEW d \in Clients, signalingCreateCb(d)
  PROVE  /\ ServiceKept
         /\ \/ Comes(c, {})
            \/ /\ c = d /\ Setup(Got(d)) /\ Gets(d, "createCb") /\ Got(d).ch \in Chan
               /\ Took(c, {Msg("joinCb", Got(d).ch, TRUE)})
<1>1. Gets(d, "createCb")
  BY DEF signalingCreateCb
<1>2. CASE ~Got(d).ok
  BY <1>1, <1>2, SilentStep DEF signalingCreateCb
<1>3. CASE Got(d).ok
  <2>1. /\ SignalingJoin(Rest(d), d, Got(d).ch) /\ Setup(Got(d))
        /\ Rest(d) \in Inboxes /\ Got(d).ch \in Chan
    BY <1>1, <1>3, GotFacts DEF signalingCreateCb, Setup, Founded, Caller
  <2>2. ServiceKept
    BY <2>1 DEF SignalingJoin, ServiceKept
  <2>3. Grows(inbox'[c], Rest(d)[c], IF c = d THEN {Msg("joinCb", Got(d).ch, TRUE)} ELSE {})
    BY <2>1, InboxFacts, JoinMail
  <2> QED
    BY <1>1, <2>1, <2>2, <2>3, HandlerMail
<1> QED
  BY <1>2, <1>3

\* ... and the invitation.
Invites(d, c) ==
  /\ Setup(Got(d)) /\ Gets(d, "joinCb") /\ Caller(d, Got(d).ch)
  /\ creator' = creator
  /\ \E ok \in BOOLEAN :
       /\ IF ok
          THEN /\ callee' = [callee EXCEPT ![Got(d).ch] = to[d]]
               /\ invitation' = [invitation EXCEPT ![Got(d).ch] = "pending"]
          ELSE callee' = callee /\ invitation' = invitation
       /\ c = d => Took(c, {Msg("inviteCb", Got(d).ch, ok)})
       /\ c # d => Comes(c, IF c = to[d] /\ ok THEN {News("Invite", Got(d).ch)} ELSE {})

\* The joined channel: it is closed, or the other side is invited.
LEMMA JoinCbMail ==
  ASSUME Inv, Inv', NEW c \in Clients, NEW d \in Clients, signalingJoinCb(d),
         Got(d).ok => to[d] # d
  PROVE  (ServiceKept /\ Comes(c, {})) \/ Invites(d, c)
<1>1. Gets(d, "joinCb") /\ Rest(d) \in Inboxes
  BY GotFacts DEF signalingJoinCb
<1>2. CASE ~Got(d).ok
  <2>1. CancelAndClose(Rest(d), d, FALSE, NoChan, created[d]) /\ created[d] \in ChanId
    BY <1>2, InboxFacts DEF signalingJoinCb, SignalingClose, OwnTypeOK
  <2>2. Grows(inbox'[c], Rest(d)[c], {})
    BY <1>1, <2>1, InboxFacts, CancelAndCloseMail DEF ChanId
  <2> QED
    BY <1>1, <2>1, <2>2, CloseKeeps, HandlerMail
<1>3. CASE Got(d).ok
  <2>1. /\ SignalingInvite(Rest(d), d, Got(d).ch, to[d]) /\ Setup(Got(d))
        /\ Caller(d, Got(d).ch) /\ Got(d).ch \in Chan
    BY <1>1, <1>3, GotFacts DEF signalingJoinCb, Setup, Founded, Caller
  <2>2. creator' = creator
    BY <2>1 DEF SignalingInvite
  <2>3. PICK ok \in BOOLEAN :
          /\ IF ok
             THEN /\ callee' = [callee EXCEPT ![Got(d).ch] = to[d]]
                  /\ invitation' = [invitation EXCEPT ![Got(d).ch] = "pending"]
             ELSE callee' = callee /\ invitation' = invitation
          /\ Grows(inbox'[c], Rest(d)[c],
                   IF c = d THEN {Msg("inviteCb", Got(d).ch, ok)}
                   ELSE IF c = to[d] /\ ok THEN {News("Invite", Got(d).ch)} ELSE {})
    BY <1>1, <1>3, <2>1, InboxFacts, InviteMail
  <2> QED
    BY <1>1, <2>1, <2>2, <2>3, HandlerMail DEF Invites
<1> QED
  BY <1>2, <1>3

-----------------------------------------------------------------------------
(* Of a step, what is d's: the rest is left to the others.                 *)

\* What c has of its own in the component, and on the screen.
Mine(c) ==
  /\ status'[c] = status[c] /\ master'[c] = master[c] /\ hurry'[c] = hurry[c]
  /\ timer'[c] = timer[c] /\ to'[c] = to[c] /\ created'[c] = created[c]
  /\ waiting'[c] = waiting[c] /\ events'[c] = events[c]
Yours(c) == form'[c] = form[c] /\ ghost'[c] = ghost[c] /\ requests'[c] = requests[c]

\* The working thread of d.
LEMMA OperationsMine ==
  ASSUME Inv, NEW c \in Clients, NEW d \in Clients, c # d, Asked(d)
  PROVE  Mine(c)
<1> OwnTypeOK
  BY InboxFacts
<1>1. CASE \E p \in Clients \ {d} : call(d, p)
  <2>1. PICK p : call(d, p)
    BY <1>1
  <2>2. /\ status' = [status EXCEPT ![d] = "calling"] /\ timer' = [timer EXCEPT ![d] = TRUE]
        /\ master' = [master EXCEPT ![d] = TRUE] /\ to' = [to EXCEPT ![d] = p]
        /\ created' = [created EXCEPT ![d] = NoChan] /\ UNCHANGED <<hurry, waiting>>
    BY <2>1 DEF call, tokenVars
  <2>3. events' = [events EXCEPT ![d] = Append(@, [kind |-> "onCalling", who |-> p])]
    BY <2>1 DEF call, Tell
  <2> QED
    BY <2>2, <2>3 DEF Mine, OwnTypeOK
<1>2. CASE accept(d)
  BY <1>2 DEF accept, Mine, callVars, chanVars, tokenVars
<1>3. CASE reject(d)
  BY <1>3 DEF reject, Mine, callVars, tokenVars
<1>4. CASE hangup(d)
  BY <1>4 DEF hangup, Mine, OwnTypeOK, chanVars, tokenVars
<1> QED
  BY <1>1, <1>2, <1>3, <1>4 DEF Asked

\* The answers of the service to d.
LEMMA AnswersMine ==
  ASSUME Inv, NEW c \in Clients, NEW d \in Clients, c # d,
         \/ signalingCreateCb(d) \/ signalingJoinCb(d) \/ signalingInviteCb(d)
         \/ signalingRejectCb(d) \/ signalingCloseCb(d) \/ signalingLeaveCb(d)
         \/ AcceptFails(d) \/ AcceptSucceeds(d)
  PROVE  Mine(c)
<1> OwnTypeOK
  BY InboxFacts
<1>1. CASE signalingCreateCb(d) \/ AcceptFails(d)
  BY <1>1 DEF signalingCreateCb, AcceptFails, Mine, OwnTypeOK, callVars, chanVars, tokenVars
<1>2. CASE signalingJoinCb(d)
  BY <1>2 DEF signalingJoinCb, Mine, OwnTypeOK
<1>3. CASE signalingInviteCb(d) \/ signalingRejectCb(d)
  BY <1>3 DEF signalingInviteCb, signalingRejectCb, Mine, OwnTypeOK, chanVars, tokenVars
<1>4. CASE signalingCloseCb(d) \/ signalingLeaveCb(d)
  BY <1>4 DEF signalingCloseCb, signalingLeaveCb, Mine, OwnTypeOK, tokenVars
<1>5. CASE AcceptSucceeds(d)
  BY <1>5 DEF AcceptSucceeds, Mine, OwnTypeOK
<1> QED
  BY <1>1, <1>2, <1>3, <1>4, <1>5

\* The notices of the service to d.
LEMMA NoticesMine ==
  ASSUME Inv, NEW c \in Clients, NEW d \in Clients, c # d,
         \/ handleInvited(d) \/ handleAccepted(d) \/ handleControl(d) \/ handleRejected(d)
         \/ handleJoin(d) \/ handleLeave(d) \/ \E kind, event : Ends(d, kind, event)
  PROVE  Mine(c)
<1> OwnTypeOK
  BY InboxFacts
<1>1. CASE handleInvited(d)
  <2>1. /\ status' = status \/ status' = [status EXCEPT ![d] = "called"]
        /\ UNCHANGED <<master, hurry, timer, to, created, waiting>>
    BY <1>1 DEF handleInvited, tokenVars
  <2>2. events' = events \/ \E e : events' = [events EXCEPT ![d] = e]
    BY <1>1 DEF handleInvited, Tell
  <2> QED
    BY <2>1, <2>2 DEF Mine, OwnTypeOK
<1>2. CASE handleAccepted(d) \/ handleControl(d)
  BY <1>2 DEF handleAccepted, handleControl, Mine, OwnTypeOK, callVars, chanVars
<1>3. CASE handleRejected(d)
  <2>1. /\ status' = [status EXCEPT ![d] = "idle"]
        /\ master' = master \/ master' = [master EXCEPT ![d] = FALSE]
        /\ UNCHANGED <<hurry, timer, to, created, waiting>>
    BY <1>3 DEF handleRejected, chanVars, tokenVars
  <2>2. \E e : events' = [events EXCEPT ![d] = e]
    BY <1>3 DEF handleRejected, Tell
  <2> QED
    BY <2>1, <2>2 DEF Mine, OwnTypeOK
<1>4. CASE handleJoin(d) \/ handleLeave(d)
  BY <1>4 DEF handleJoin, handleLeave, Tell, Mine, OwnTypeOK, callVars, chanVars, tokenVars
<1>5. CASE \E kind, event : Ends(d, kind, event)
  BY <1>5 DEF Ends, Tell, Mine, OwnTypeOK, chanVars, tokenVars
<1> QED
  BY <1>1, <1>2, <1>3, <1>4, <1>5

\* The rest of d's threads.
LEMMA OthersMine ==
  ASSUME Inv, NEW c \in Clients, NEW d \in Clients, c # d,
         \/ AcceptedJoins(d) \/ ControlJoins(d) \/ AcceptJoins(d)
         \/ CallingTimeout(d) \/ GetToken(d) \/ onUserLeft(d) \/ TakesEvent(d) \/ OtherDevice(d)
  PROVE  Mine(c)
<1> OwnTypeOK
  BY InboxFacts
<1>1. CASE AcceptedJoins(d)
  BY <1>1 DEF AcceptedJoins, Tell, Mine, OwnTypeOK, chanVars
<1>2. CASE ControlJoins(d) \/ AcceptJoins(d)
  BY <1>2 DEF ControlJoins, AcceptJoins, Mine, OwnTypeOK, callVars, chanVars
<1>3. CASE CallingTimeout(d)
  BY <1>3 DEF CallingTimeout, Tell, Mine, OwnTypeOK, chanVars, tokenVars
<1>4. CASE GetToken(d) \/ onUserLeft(d)
  BY <1>4 DEF GetToken, onUserLeft, Tell, Mine, OwnTypeOK, callVars, chanVars, tokenVars
<1>5. CASE TakesEvent(d) \/ OtherDevice(d)
  BY <1>5 DEF TakesEvent, OtherDevice, Mine, OwnTypeOK, callVars, chanVars, tokenVars
<1> QED
  BY <1>1, <1>2, <1>3, <1>4, <1>5

\* A step of one client's component leaves the others' alone.
LEMMA ComponentMine ==
  ASSUME Inv, NEW c \in Clients, NEW d \in Clients, c # d, ComponentStep(d)
  PROVE  Mine(c) /\ Spares(inbox, c, d)
<1>1. CASE Asked(d)
  BY <1>1, OperationsMine, OperationsSpare DEF Asked
<1>2. CASE SdkStep(d)
  BY <1>2, EndingEvents, AnswersMine, NoticesMine, OthersMine, AnswersSpare, NoticesSpare,
     OthersSpare
  DEF SdkStep
<1>3. CASE AcceptStep(d)
  BY <1>3, AnswersMine, OthersMine, AnswersSpare, OthersSpare DEF AcceptStep
<1>4. CASE OwnStep(d) \/ OtherDevice(d) \/ TakesEvent(d)
  BY <1>4, OthersMine, OthersSpare DEF OwnStep
<1> QED
  BY <1>1, <1>2, <1>3, <1>4 DEF ComponentStep, Inside

\* A step of the call kit that is d's.
StepOf(d) ==
  \/ User(d) \/ Worker(d) \/ HandlesEvent(d) \/ Sdk(d)
  \/ Timer(d) \/ Http(d) \/ Engine(d) \/ Elsewhere(d)

\* So does a step of one client's call kit.
LEMMA StepFacts ==
  ASSUME KitInv, NEW d \in Clients, StepOf(d)
  PROVE  /\ UNCHANGED avVars \/ ComponentStep(d)
         /\ QueueKept(d) \/ UNCHANGED uiVars
         /\ \A c \in Clients \ {d} : Mine(c) /\ Yours(c)
<1>1. UNCHANGED avVars \/ ComponentStep(d)
  BY KitSteps DEF StepOf, ComponentStep, Inside
<1>2. (QueueKept(d) /\ ScreenKept(d)) \/ UNCHANGED uiVars
  BY KitSteps, UserKept, WorkerKept, HandlesEventKept, AcceptInviteKept DEF StepOf
<1>3. ASSUME NEW c \in Clients \ {d}
      PROVE  Mine(c) /\ Yours(c)
  <2>1. Yours(c)
    BY <1>2 DEF QueueKept, ScreenKept, Yours, uiVars
  <2>2. CASE UNCHANGED avVars
    BY <2>1, <2>2 DEF avVars, callVars, chanVars, tokenVars, Mine
  <2>3. CASE ComponentStep(d)
    BY <2>1, <2>3, ComponentMine DEF KitInv
  <2> QED
    BY <1>1, <2>2, <2>3
<1> QED
  BY <1>1, <1>2, <1>3

-----------------------------------------------------------------------------
(* What is on its way after a step.                                        *)

\* A channel is made for d, who dials.
Founds(d, c) ==
  /\ RunsCall(d) /\ d \in Dialling /\ callee' = callee /\ invitation' = invitation
  /\ \E ch \in Unused :
       /\ creator' = [creator EXCEPT ![ch] = d]
       /\ Comes(c, IF c = d THEN {Msg("createCb", ch, TRUE)} ELSE {})

\* It is joined.
Joins(d, c) ==
  /\ signalingCreateCb(d) /\ ServiceKept /\ c = d /\ Setup(Got(d)) /\ Gets(d, "createCb")
  /\ Got(d).ch \in Chan /\ Took(c, {Msg("joinCb", Got(d).ch, TRUE)})

\* Who creates a channel dials, and does not invite himself.
LEMMA OtherInvited ==
  ASSUME KitInv, Sides, Directed, NEW d \in Clients, NEW ch, Caller(d, ch)
  PROVE  d \in Dialling /\ d \notin Dialled /\ to[d] # d
BY SignalingAssumption DEF Caller, Sides, Directed

\* Everything a step may put on its way to c.
LEMMA Mail ==
  ASSUME KitInv, Inv', Sides, Directed, NEW c \in Clients, NEW d \in Clients, StepOf(d)
  PROVE  \/ ServiceKept /\ NewsOf(c)
         \/ Founds(d, c) \/ Joins(d, c) \/ Invites(d, c)
<1> Inv
  BY DEF KitInv
<1>1. CASE User(d)
  <2>1. UNCHANGED svcVars
    BY <1>1, KitSteps DEF avVars
  <2> QED
    BY <2>1, StillMail DEF NewsOf
<1>2. CASE RunsCall(d)
  <2>1. /\ call(d, Head(requests[d]).peer) /\ requests[d] # <<>>
        /\ Head(requests[d]).op = "call"
    BY <1>2 DEF RunsCall, Runs
  <2>2. d \in Dialling
    <3>1. requests[d] \in Seq(Op)
      BY DEF KitInv, UiTypeOK
    <3> QED
      BY <2>1, <3>1, TailFacts DEF Sides
  <2>3. /\ callee' = callee /\ invitation' = invitation
        /\ \/ creator' = creator /\ Comes(c, {})
           \/ \E ch \in Unused :
                /\ creator' = [creator EXCEPT ![ch] = d]
                /\ Comes(c, IF c = d THEN {Msg("createCb", ch, TRUE)} ELSE {})
    BY <2>1, CallMail
  <2> QED
    BY <1>2, <2>2, <2>3 DEF Founds, ServiceKept, NewsOf
<1>3. CASE RunsAccept(d) \/ RunsReject(d) \/ RunsHangup(d)
  BY <1>3, OperationMail DEF RunsAccept, RunsReject, RunsHangup
<1>4. CASE HandlesEvent(d) \/ Timer(d) \/ Http(d) \/ Engine(d) \/ Elsewhere(d)
  BY <1>4, KitSteps, OthersMail
<1>5. CASE AcceptStep(d)
  BY <1>5, SdkMail
<1>6. CASE signalingCreateCb(d)
  BY <1>6, CreateCbMail DEF NewsOf, Joins, signalingCreateCb, Founded, Setup
<1>7. CASE signalingJoinCb(d)
  <2>1. Got(d).ok => to[d] # d
    BY <1>7, GotFacts, OtherInvited DEF signalingJoinCb, Founded
  <2> QED
    BY <1>7, <2>1, JoinCbMail DEF NewsOf
<1>8. CASE SdkStep(d) /\ ~signalingCreateCb(d) /\ ~signalingJoinCb(d)
  BY <1>8, SdkMail, EndingEvents DEF SdkStep
<1> QED
  BY <1>1, <1>2, <1>3, <1>4, <1>5, <1>6, <1>7, <1>8, KitSteps DEF StepOf, Worker

-----------------------------------------------------------------------------
(* What a step of d asks for, and what it makes of the windows of d.       *)

Confirming(d) == form[d].view = "confirm" \/ ghost[d].view = "confirm"
Dialed(d)     == \E p \in Clients : Dial(d, p)

\* Why d asks.
Grounds(d, op, p) ==
  \/ op = "call" /\ <<d, p>> \in Dials
  \/ op = "accept" /\ Confirming(d)
  \/ op = "reject" /\ (Confirming(d) \/ AcceptFails(d)
                       \/ (OnUserRejectCb(d) /\ form[d].end = "none" /\ form'[d].end # "none"))
  \/ op = "hangup"

Queued(d) ==
  \/ requests'[d] = requests[d]
  \/ requests[d] # <<>> /\ requests'[d] = Tail(requests[d])
  \/ \E op \in {"call", "accept", "reject", "hangup"}, p \in Clients \cup {NoClient} :
       requests'[d] = Append(requests[d], [op |-> op, peer |-> p]) /\ Grounds(d, op, p)

\* What the windows of d show next.
Shown(d) ==
  /\ form'[d].view = "confirm" => form[d].view = "confirm" \/ OnInvitedCb(d)
  /\ ghost'[d].view = "confirm" => Confirming(d)
  /\ form'[d].end = "none" => form[d].end = "none" \/ OnInvitedCb(d) \/ Dialed(d)

\* One request more.
LEMMA QueuedOne ==
  ASSUME KitInv, NEW d \in Clients, NEW op \in {"call", "accept", "reject", "hangup"},
         NEW p \in Clients \cup {NoClient}, Request(d, op, p), Grounds(d, op, p)
  PROVE  Queued(d)
<1>1. requests \in [Clients -> Seq(Op)]
  BY DEF KitInv, UiTypeOK
<1>2. requests'[d] = Append(requests[d], [op |-> op, peer |-> p])
  BY <1>1 DEF Request
<1> QED
  BY <1>2 DEF Queued

\* The request of an end page.
LEMMA QueuedEnd ==
  ASSUME KitInv, NEW d \in Clients, NEW why, EndRequest(d, why),
         why = "REJECT" => Grounds(d, "reject", NoClient)
  PROVE  Queued(d)
<1>1. Grounds(d, "hangup", NoClient)
  BY DEF Grounds
<1> QED
  BY <1>1, QueuedOne DEF EndRequest, Queued

\* An end page.
LEMMA EndPageShown ==
  ASSUME KitInv, NEW d \in Clients, form[d] # NoForm, NEW why \in EndCall,
         EnterEndCallPage(d, why),
         why = "REJECT" =>
           Confirming(d) \/ AcceptFails(d) \/ OnUserRejectCb(d)
  PROVE  Queued(d) /\ Shown(d) /\ form'[d].end # "none"
<1>1. form \in [Clients -> Form] /\ form[d] \in Windows /\ why # "none"
  BY WindowFacts DEF KitInv, UiTypeOK, EndCall
<1>2. CASE form[d].end # "none" /\ UNCHANGED uiVars
  BY <1>2 DEF uiVars, Queued, Shown, Confirming
<1>3. CASE /\ form[d].end = "none" /\ form' = [form EXCEPT ![d].end = why]
           /\ EndRequest(d, why) /\ ghost' = ghost
  <2>1. form'[d].end = why /\ form'[d].view = form[d].view
    BY <1>1, <1>3 DEF Windows
  <2>2. why = "REJECT" => Grounds(d, "reject", NoClient)
    BY <1>1, <1>3, <2>1 DEF Grounds
  <2> QED
    BY <1>1, <1>3, <2>1, <2>2, QueuedEnd DEF Shown, Confirming
<1> QED
  BY <1>2, <1>3 DEF EnterEndCallPage

\* A page of the call.
LEMMA StatusPageShown ==
  ASSUME KitInv, NEW d \in Clients, form[d] # NoForm, NEW view \in {"dial", "talk"},
         ShowStatusPage(d, view)
  PROVE  Queued(d) /\ Shown(d)
<1>1. form \in [Clients -> Form] /\ form[d] \in Windows
  BY WindowFacts DEF KitInv, UiTypeOK
<1>2. form'[d].end = form[d].end /\ form'[d].view = view
  BY <1>1 DEF Windows, ShowStatusPage
<1> QED
  BY <1>2 DEF Shown, Queued, ShowStatusPage, Confirming

\* A new window.
LEMMA NewWindowShown ==
  ASSUME KitInv, NEW d \in Clients, NEW p, NEW view \in {"dial", "confirm"},
         ShowVideoChatForm(d, p, view), view = "confirm" => OnInvitedCb(d),
         view = "dial" => Dialed(d)
  PROVE  Shown(d)
<1>1. form \in [Clients -> Form] /\ ghost \in [Clients -> Form]
  BY DEF KitInv, UiTypeOK
<1>2. form'[d].view = view /\ (ghost'[d] = form[d] \/ ghost'[d] = ghost[d])
  BY <1>1 DEF ShowVideoChatForm
<1> QED
  BY <1>2 DEF Shown, Confirming

\* The buttons.
LEMMA UserShown ==
  ASSUME KitInv, NEW d \in Clients, User(d)
  PROVE  Queued(d) /\ Shown(d)
<1> /\ UiTypeOK /\ NoSelfCall /\ Windowless(d)
    /\ form \in [Clients -> Form] /\ ghost \in [Clients -> Form]
  BY DEF KitInv, UiTypeOK
<1>1. CASE \E p \in Clients : <<d, p>> \in Dials /\ Dial(d, p)
  <2>1. PICK p \in Clients : <<d, p>> \in Dials /\ Dial(d, p)
    BY <1>1
  <2>2. Shown(d)
    BY <2>1, NewWindowShown DEF Dial, Dialed
  <2>3. Queued(d)
    BY <2>1, QueuedOne DEF Dial, Grounds
  <2> QED
    BY <2>2, <2>3
<1>2. CASE Complete(d)
  <2>1. /\ form[d] \in Windows /\ form[d].view = "confirm"
        /\ form' = [form EXCEPT ![d].view = "dial"] /\ ghost' = ghost
    BY <1>2, WindowFacts DEF Complete
  <2>2. form'[d].view = "dial" /\ form'[d].end = form[d].end
    BY <2>1 DEF Windows
  <2>3. Queued(d)
    BY <1>2, <2>1, QueuedOne DEF Complete, Grounds, Confirming
  <2> QED
    BY <2>1, <2>2, <2>3 DEF Shown, Confirming
<1>3. CASE Refuse(d) \/ StopChat(d) \/ QuitMsgBox(d)
  <2>1. form[d] # NoForm
    BY <1>3, WindowFacts DEF Refuse, StopChat, QuitMsgBox
  <2>2. CASE Refuse(d)
    BY <2>1, <2>2, EndPageShown DEF Refuse, EndCall, Confirming
  <2>3. CASE StopChat(d) \/ QuitMsgBox(d)
    BY <2>1, <2>3, EndPageShown DEF StopChat, QuitMsgBox, EndCall
  <2> QED
    BY <1>3, <2>2, <2>3
<1>4. CASE UseGhost(d)
  <2>1. ghost[d] \in Windows /\ form' = form
    BY <1>4, WindowFacts DEF UseGhost
  <2>2. CASE /\ ghost[d].view = "confirm" /\ ghost' = [ghost EXCEPT ![d].view = "dial"]
             /\ Request(d, "accept", NoClient)
    <3>1. Queued(d)
      BY <2>2, QueuedOne DEF Grounds, Confirming
    <3>2. ghost'[d].view = "dial"
      BY <2>1, <2>2 DEF Windows
    <3> QED
      BY <2>1, <3>1, <3>2 DEF Shown
  <2>3. ASSUME NEW button \in {"CLOSE", "REJECT", "HANGUP"},
               ghost' = [ghost EXCEPT ![d].end = button], EndRequest(d, button),
               button = "REJECT" => ghost[d].view = "confirm"
        PROVE  Queued(d) /\ Shown(d)
    <3>1. Queued(d)
      BY <2>3, QueuedEnd DEF Grounds, Confirming
    <3>2. ghost'[d].view = ghost[d].view
      BY <2>1, <2>3 DEF Windows
    <3> QED
      BY <2>1, <3>1, <3>2 DEF Shown, Confirming
  <2>4. \/ /\ ghost[d].view = "confirm" /\ ghost' = [ghost EXCEPT ![d].view = "dial"]
           /\ Request(d, "accept", NoClient)
        \/ \E button \in {"CLOSE", "REJECT", "HANGUP"} :
             /\ ghost' = [ghost EXCEPT ![d].end = button] /\ EndRequest(d, button)
             /\ button = "REJECT" => ghost[d].view = "confirm"
    BY <1>4 DEF UseGhost
  <2> QED
    BY <2>2, <2>3, <2>4
<1> QED
  BY <1>1, <1>2, <1>3, <1>4 DEF User

\* The events; that of the timeout ends the window.
LEMMA HandlesEventShown ==
  ASSUME KitInv, NEW d \in Clients, HandlesEvent(d)
  PROVE  /\ Queued(d) /\ Shown(d)
         /\ Head(events[d]).kind = "onCallingTimeOut" => form'[d].end # "none"
<1> Windowless(d)
  BY DEF KitInv
<1>1. CASE OnInvitedCb(d)
  <2>1. /\ ShowVideoChatForm(d, Head(events[d]).who, "confirm") /\ requests' = requests
        /\ Head(events[d]).kind = "onInvited"
    BY <1>1 DEF OnInvitedCb, Takes, TakesEvent
  <2>2. Shown(d)
    BY <1>1, <2>1, NewWindowShown
  <2> QED
    BY <2>1, <2>2 DEF Queued
<1>2. ASSUME events[d] # <<>>, Head(events[d]).kind # "onInvited"
      PROVE  form[d] # NoForm
  BY <1>2 DEF Windowless, Before, Untouched, Announced
<1>3. CASE OnCallingCb(d) \/ OnUserAcceptCb(d) \/ OnUserEnterCb(d)
  <2>1. form[d] # NoForm /\ Head(events[d]).kind # "onCallingTimeOut"
    BY <1>2, <1>3 DEF OnCallingCb, OnUserAcceptCb, OnUserEnterCb, Takes, TakesEvent
  <2>2. \/ \E view \in {"dial", "talk"} : ShowStatusPage(d, view)
        \/ UNCHANGED uiVars
    BY <1>3 DEF OnCallingCb, OnUserAcceptCb, OnUserEnterCb
  <2>3. CASE UNCHANGED uiVars
    BY <2>1, <2>3 DEF Queued, Shown, Confirming, uiVars
  <2> QED
    BY <2>1, <2>2, <2>3, StatusPageShown
<1>4. CASE OnUserRejectCb(d)
  <2>1. form[d] # NoForm /\ EnterEndCallPage(d, "REJECT")
    BY <1>2, <1>4 DEF OnUserRejectCb, Takes, TakesEvent
  <2> QED
    BY <1>4, <2>1, EndPageShown DEF EndCall
<1>5. CASE \/ OnUserBusyCb(d) \/ OnCallEndCb(d) \/ OnCallingTimeOutCb(d)
           \/ onOtherClientAcceptCb(d) \/ onOtherClientRejectCb(d)
  <2>1. form[d] # NoForm
    BY <1>2, <1>5
    DEF OnUserBusyCb, OnCallEndCb, OnCallingTimeOutCb, onOtherClientAcceptCb,
        onOtherClientRejectCb, Takes, TakesEvent
  <2>2. \E why \in EndCall \ {"REJECT"} : EnterEndCallPage(d, why)
    BY <1>5
    DEF OnUserBusyCb, OnCallEndCb, OnCallingTimeOutCb, onOtherClientAcceptCb,
        onOtherClientRejectCb, EndCall
  <2> QED
    BY <2>1, <2>2, EndPageShown
<1> QED
  BY <1>1, <1>3, <1>4, <1>5 DEF HandlesEvent

\* Every step of d.
LEMMA StepShown ==
  ASSUME KitInv, NEW d \in Clients, StepOf(d)
  PROVE  Queued(d) /\ Shown(d)
<1>1. CASE Worker(d)
  <2>1. /\ requests[d] # <<>> /\ requests' = [requests EXCEPT ![d] = Tail(@)]
        /\ UNCHANGED <<form, ghost>>
    BY <1>1 DEF Worker, RunsCall, RunsAccept, RunsReject, RunsHangup, Runs
  <2>2. requests \in [Clients -> Seq(Op)]
    BY DEF KitInv, UiTypeOK
  <2> QED
    BY <2>1, <2>2 DEF Queued, Shown, Confirming
<1>2. CASE AcceptInvite(d)
  <2>1. form[d] # NoForm
    BY <1>2, BeforeAccept DEF KitInv, Windowless, AcceptInvite, AcceptStep
  <2>2. \/ EnterEndCallPage(d, "REJECT") /\ AcceptFails(d)
        \/ ShowStatusPage(d, "talk") \/ UNCHANGED uiVars
    BY <1>2 DEF AcceptInvite
  <2>3. CASE UNCHANGED uiVars
    BY <2>3 DEF Queued, Shown, Confirming, uiVars
  <2> QED
    BY <2>1, <2>2, <2>3, EndPageShown, StatusPageShown DEF EndCall
<1>3. CASE UNCHANGED uiVars
  BY <1>3 DEF Queued, Shown, Confirming, uiVars
<1> QED
  BY <1>1, <1>2, <1>3, UserShown, HandlesEventShown, KitSteps DEF StepOf

-----------------------------------------------------------------------------
(* What a step of d makes of the component of d.                           *)

\* Only a call sets who is called; and what channel is at hand.
LEMMA ToOf ==
  ASSUME KitInv, NEW d \in Clients, StepOf(d)
  PROVE  \/ to'[d] = to[d]
         \/ RunsCall(d) /\ to'[d] = Head(requests[d]).peer
<1> OwnTypeOK
  BY InboxFacts DEF KitInv
<1>1. CASE Worker(d)
  BY <1>1
  DEF Worker, RunsCall, RunsAccept, RunsReject, RunsHangup, call, accept, reject, hangup,
      OwnTypeOK, callVars
<1>2. CASE AcceptStep(d)
  BY <1>2 DEF AcceptStep, AcceptFails, AcceptSucceeds, AcceptJoins, callVars
<1>3. CASE OwnStep(d) \/ OtherDevice(d) \/ TakesEvent(d) \/ UNCHANGED avVars
  BY <1>3
  DEF OwnStep, CallingTimeout, GetToken, onUserLeft, OtherDevice, TakesEvent, avVars, callVars
<1>4. CASE SdkStep(d)
  <2>1. CASE \/ signalingCreateCb(d) \/ signalingJoinCb(d) \/ signalingInviteCb(d)
             \/ signalingRejectCb(d) \/ signalingCloseCb(d) \/ signalingLeaveCb(d)
    BY <2>1
    DEF signalingCreateCb, signalingJoinCb, signalingInviteCb, signalingRejectCb,
        signalingCloseCb, signalingLeaveCb, callVars
  <2>2. CASE \/ handleInvited(d) \/ handleAccepted(d) \/ AcceptedJoins(d)
             \/ handleControl(d) \/ ControlJoins(d) \/ handleRejected(d)
             \/ handleJoin(d) \/ handleLeave(d) \/ \E kind, event : Ends(d, kind, event)
    BY <2>2
    DEF handleInvited, handleAccepted, AcceptedJoins, handleControl, ControlJoins,
        handleRejected, handleJoin, handleLeave, Ends, callVars
  <2> QED
    BY <1>4, <2>1, <2>2, EndingEvents DEF SdkStep
<1> QED
  BY <1>1, <1>2, <1>3, <1>4, KitSteps DEF StepOf

\* The channel d created is told by the service.
LEMMA CreatedOf ==
  ASSUME Inv, NEW d \in Clients, ComponentStep(d)
  PROVE  \/ created'[d] = created[d]
         \/ created'[d] = NoChan /\ (Unused # {} \/ Gets(d, "closeCb"))
         \/ Gets(d, "createCb") /\ Got(d).ok /\ created'[d] = Got(d).ch
<1> OwnTypeOK
  BY InboxFacts
<1>1. CASE Asked(d)
  BY <1>1 DEF Asked, call, accept, reject, hangup, OwnTypeOK, chanVars
<1>2. CASE AcceptStep(d)
  BY <1>2 DEF AcceptStep, AcceptFails, AcceptSucceeds, AcceptJoins, chanVars
<1>3. CASE OwnStep(d) \/ OtherDevice(d) \/ TakesEvent(d)
  BY <1>3 DEF OwnStep, CallingTimeout, GetToken, onUserLeft, OtherDevice, TakesEvent, chanVars
<1>4. CASE SdkStep(d)
  <2>1. CASE signalingCreateCb(d)
    BY <2>1 DEF signalingCreateCb, OwnTypeOK
  <2>2. CASE signalingCloseCb(d)
    BY <2>2 DEF signalingCloseCb, OwnTypeOK
  <2>3. CASE \/ signalingJoinCb(d) \/ signalingInviteCb(d)
             \/ signalingRejectCb(d) \/ signalingLeaveCb(d)
    BY <2>3 DEF signalingJoinCb, signalingInviteCb, signalingRejectCb, signalingLeaveCb, chanVars
  <2>4. CASE \/ handleInvited(d) \/ handleAccepted(d) \/ AcceptedJoins(d)
             \/ handleControl(d) \/ ControlJoins(d) \/ handleRejected(d)
             \/ handleJoin(d) \/ handleLeave(d) \/ \E kind, event : Ends(d, kind, event)
    BY <2>4
    DEF handleInvited, handleAccepted, AcceptedJoins, handleControl, ControlJoins,
        handleRejected, handleJoin, handleLeave, Ends, chanVars
  <2> QED
    BY <1>4, <2>1, <2>2, <2>3, <2>4, EndingEvents DEF SdkStep
<1> QED
  BY <1>1, <1>2, <1>3, <1>4 DEF ComponentStep, Inside

\* An invitation and a refusal are told of only when they are taken in.
LEMMA EventsOf ==
  ASSUME KitInv, NEW d \in Clients, StepOf(d)
  PROVE  \/ events' = events
         \/ HandlesEvent(d) /\ TakesEvent(d)
         \/ \E kind \in EventKinds, who \in Clients \cup {NoClient} :
              /\ Tell(d, kind, who)
              /\ kind = "onInvited" => Gets(d, "Invite") /\ handleInvited(d)
              /\ kind = "onUserReject" => Gets(d, "Reject") /\ handleRejected(d)
<1> Inv
  BY DEF KitInv
<1>1. CASE Asked(d)
  BY <1>1 DEF Asked, call, accept, reject, hangup, EventKinds
<1>2. CASE AcceptStep(d)
  BY <1>2 DEF AcceptStep, AcceptFails, AcceptSucceeds, AcceptJoins
<1>3. CASE OwnStep(d) \/ OtherDevice(d)
  BY <1>3 DEF OwnStep, CallingTimeout, GetToken, onUserLeft, OtherDevice, EventKinds
<1>4. CASE handleInvited(d)
  <2>1. /\ Gets(d, "Invite")
        /\ events' = events \/ Tell(d, "onInvited", creator[Got(d).ch])
    BY <1>4 DEF handleInvited
  <2>2. creator[Got(d).ch] \in Clients \cup {NoClient}
    BY <2>1, GotFacts, InboxFacts DEF SvcTypeOK, Notice
  <2> QED
    BY <1>4, <2>1, <2>2 DEF EventKinds
<1>5. CASE handleJoin(d)
  <2>1. Gets(d, "Join") /\ Tell(d, "onUserEnter", callee[Got(d).ch])
    BY <1>5 DEF handleJoin
  <2>2. callee[Got(d).ch] \in Clients \cup {NoClient}
    BY <2>1, GotFacts, InboxFacts DEF SvcTypeOK, Notice
  <2> QED
    BY <2>1, <2>2 DEF EventKinds
<1>6. CASE handleRejected(d)
  BY <1>6 DEF handleRejected, EventKinds
<1>7. CASE SdkStep(d) /\ ~handleInvited(d) /\ ~handleJoin(d) /\ ~handleRejected(d)
  <2>1. CASE \/ handleClose(d) \/ handleCancelInvite(d)
             \/ handleOtherClientAccepted(d) \/ handleOtherClientRejected(d)
    BY <2>1
    DEF handleClose, handleCancelInvite, handleOtherClientAccepted, handleOtherClientRejected,
        Ends, EventKinds
  <2>2. CASE handleLeave(d) \/ AcceptedJoins(d)
    BY <2>2 DEF handleLeave, AcceptedJoins, EventKinds
  <2>3. CASE \/ signalingCreateCb(d) \/ signalingJoinCb(d) \/ signalingInviteCb(d)
             \/ signalingRejectCb(d) \/ signalingCloseCb(d) \/ signalingLeaveCb(d)
             \/ handleAccepted(d) \/ handleControl(d) \/ ControlJoins(d)
    BY <2>3
    DEF signalingCreateCb, signalingJoinCb, signalingInviteCb, signalingRejectCb,
        signalingCloseCb, signalingLeaveCb, handleAccepted, handleControl, ControlJoins
  <2> QED
    BY <1>7, <2>1, <2>2, <2>3 DEF SdkStep
<1>8. CASE UNCHANGED avVars
  BY <1>8 DEF avVars
<1> QED
  BY <1>1, <1>2, <1>3, <1>4, <1>5, <1>6, <1>7, <1>8, KitSteps DEF StepOf

\* The four places where a bill is written.
LEMMA BillsOf ==
  ASSUME KitInv, NEW d \in Clients, StepOf(d), bills' # bills
  PROVE  \/ /\ Timer(d) /\ CallingTimeout(d) /\ status[d] = "calling" /\ master[d]
            /\ \E why \in Reasons : SendBill(created[d], d, why)
         \/ /\ RunsReject(d) /\ reject(d) /\ status[d] # "inCall" /\ master[d]
            /\ \E why \in Reasons : SendBill(created[d], d, why)
         \/ /\ hangup(d) /\ status[d] # "idle" /\ ~hurry[d] /\ master[d]
            /\ \E why \in Reasons : SendBill(created[d], d, why)
         \/ handleInvited(d) /\ status[d] # "idle"
<1>1. CASE Worker(d)
  BY <1>1
  DEF Worker, RunsCall, RunsAccept, RunsReject, RunsHangup, call, accept, reject, hangup,
      handleNetCallMsg, Reasons
<1>2. CASE AcceptStep(d)
  BY <1>2 DEF AcceptStep, AcceptFails, AcceptSucceeds, AcceptJoins
<1>3. CASE Timer(d)
  BY <1>3 DEF Timer, CallingTimeout, handleNetCallMsg, Reasons
<1>5. CASE Http(d) \/ Engine(d) \/ OtherDevice(d) \/ TakesEvent(d) \/ UNCHANGED avVars
  BY <1>5 DEF Http, Engine, GetToken, onUserLeft, OtherDevice, TakesEvent, avVars
<1>4. CASE SdkStep(d)
  <2>1. CASE handleInvited(d)
    BY <2>1 DEF handleInvited
  <2>2. CASE \/ signalingCreateCb(d) \/ signalingJoinCb(d) \/ signalingInviteCb(d)
             \/ signalingRejectCb(d) \/ signalingCloseCb(d) \/ signalingLeaveCb(d)
    BY <2>2
    DEF signalingCreateCb, signalingJoinCb, signalingInviteCb, signalingRejectCb,
        signalingCloseCb, signalingLeaveCb
  <2>3. CASE \/ handleAccepted(d) \/ AcceptedJoins(d)
             \/ handleControl(d) \/ ControlJoins(d) \/ handleRejected(d)
             \/ handleJoin(d) \/ handleLeave(d) \/ \E kind, event : Ends(d, kind, event)
    BY <2>3
    DEF handleAccepted, AcceptedJoins, handleControl, ControlJoins, handleRejected,
        handleJoin, handleLeave, Ends
  <2> QED
    BY <1>4, <2>1, <2>2, <2>3, EndingEvents DEF SdkStep
<1> QED
  BY <1>1, <1>2, <1>3, <1>4, <1>5, KitSteps DEF StepOf

\* Only a call dials, raises the timer and makes a master; who forgets that the
\* timer fired hangs up.
LEMMA CalmOf ==
  ASSUME Inv, NEW d \in Clients, ComponentStep(d), Unused = {}
  PROVE  /\ master'[d] => master[d]
         /\ timer'[d] => timer[d]
         /\ hurry[d] => hurry'[d] \/ ~master'[d]
<1> OwnTypeOK
  BY InboxFacts
<1>1. CASE Asked(d)
  BY <1>1 DEF Asked, call, accept, reject, hangup, OwnTypeOK, callVars
<1>2. CASE AcceptStep(d)
  BY <1>2 DEF AcceptStep, AcceptFails, AcceptSucceeds, AcceptJoins, callVars
<1>3. CASE OwnStep(d) \/ OtherDevice(d) \/ TakesEvent(d)
  BY <1>3
  DEF OwnStep, CallingTimeout, GetToken, onUserLeft, OtherDevice, TakesEvent, callVars, OwnTypeOK
<1>4. CASE SdkStep(d)
  <2>1. CASE signalingJoinCb(d)
    BY <2>1 DEF signalingJoinCb, OwnTypeOK
  <2>2. CASE handleRejected(d)
    BY <2>2 DEF handleRejected, OwnTypeOK
  <2>3. CASE \/ signalingCreateCb(d) \/ signalingInviteCb(d)
             \/ signalingRejectCb(d) \/ signalingCloseCb(d) \/ signalingLeaveCb(d)
    BY <2>3
    DEF signalingCreateCb, signalingInviteCb, signalingRejectCb, signalingCloseCb,
        signalingLeaveCb, callVars
  <2>4. CASE \/ handleInvited(d) \/ handleAccepted(d) \/ AcceptedJoins(d)
             \/ handleControl(d) \/ ControlJoins(d)
             \/ handleJoin(d) \/ handleLeave(d) \/ \E kind, event : Ends(d, kind, event)
    BY <2>4
    DEF handleInvited, handleAccepted, AcceptedJoins, handleControl, ControlJoins,
        handleJoin, handleLeave, Ends, callVars
  <2> QED
    BY <1>4, <2>1, <2>2, <2>3, <2>4, EndingEvents DEF SdkStep
<1> QED
  BY <1>1, <1>2, <1>3, <1>4 DEF ComponentStep, Inside

\* What makes an idle component busy, and what it waits for then.
LEMMA StatusOf ==
  ASSUME Inv, NEW d \in Clients, ComponentStep(d), status[d] = "idle", status'[d] # "idle"
  PROVE  \/ Unused # {}
         \/ \E kind \in {"joinCb", "inviteCb", "acceptCb", "Invite"} :
              Gets(d, kind) /\ (kind = "joinCb" => Got(d).ok)
         \/ waiting[d][1] = "accepted"
<1> OwnTypeOK
  BY InboxFacts
<1>1. CASE Asked(d)
  BY <1>1 DEF Asked, call, accept, reject, hangup, callVars
<1>2. CASE AcceptStep(d)
  BY <1>2 DEF AcceptStep, AcceptFails, AcceptSucceeds, AcceptJoins, callVars
<1>3. CASE OwnStep(d) \/ OtherDevice(d) \/ TakesEvent(d)
  BY <1>3 DEF OwnStep, CallingTimeout, GetToken, onUserLeft, OtherDevice, TakesEvent, callVars
<1>4. CASE SdkStep(d)
  <2>1. CASE signalingJoinCb(d) \/ signalingInviteCb(d) \/ handleInvited(d) \/ AcceptedJoins(d)
    BY <2>1 DEF signalingJoinCb, signalingInviteCb, handleInvited, AcceptedJoins
  <2>2. CASE signalingRejectCb(d) \/ signalingCloseCb(d) \/ signalingLeaveCb(d)
    BY <2>2 DEF signalingRejectCb, signalingCloseCb, signalingLeaveCb, OwnTypeOK
  <2>3. CASE handleRejected(d) \/ \E kind, event : Ends(d, kind, event)
    BY <2>3 DEF handleRejected, Ends, OwnTypeOK
  <2>4. CASE \/ signalingCreateCb(d) \/ handleAccepted(d) \/ handleControl(d)
             \/ ControlJoins(d) \/ handleJoin(d) \/ handleLeave(d)
    BY <2>4
    DEF signalingCreateCb, handleAccepted, handleControl, ControlJoins, handleJoin, handleLeave,
        callVars
  <2> QED
    BY <1>4, <2>1, <2>2, <2>3, <2>4, EndingEvents DEF SdkStep
<1> QED
  BY <1>1, <1>2, <1>3, <1>4 DEF ComponentStep, Inside

\* A step that is not an accept.
Unasked(d) ==
  \/ (\E p \in Clients : call(d, p)) \/ reject(d) \/ hangup(d)
  \/ Inside(d) \/ AcceptStep(d) \/ TakesEvent(d)

\* Only an accept of c is answered with an answer to an accept.
LEMMA NoAnswerOf ==
  ASSUME Inv, NEW c \in Clients, NEW d \in Clients, NoAnswer(inbox, c),
         (c = d /\ Unasked(d)) \/ (c # d /\ ComponentStep(d))
  PROVE  NoAnswer(inbox', c) /\ (waiting[c][1] # "acceptCb" => waiting'[c][1] # "acceptCb")
<1> SvcTypeOK /\ OwnTypeOK /\ inbox \in Inboxes
  BY InboxFacts
<1> waiting \in [Clients -> Wait]
  BY DEF OwnTypeOK
<1>1. CASE c # d /\ ComponentStep(d)
  BY <1>1, ComponentMine DEF Mine, Spares, NoAnswer
<1>2. CASE c = d /\ Unasked(d)
  <2>1. CASE AcceptStep(d)
    <3>1. waiting'[c][1] # "acceptCb" \/ waiting' = waiting
      <4>1. ~AcceptSucceeds(d)
        BY <1>2, InboxFacts, RestIsOld DEF AcceptSucceeds, Gets, NoAnswer
      <4>2. CASE AcceptFails(d)
        BY <4>2 DEF AcceptFails, tokenVars
      <4>3. CASE AcceptJoins(d)
        BY <1>2, <4>3 DEF AcceptJoins, Free
      <4> QED
        BY <2>1, <4>1, <4>2, <4>3 DEF AcceptStep
    <3> QED
      BY <2>1, <3>1, AnswersSpare, OthersSpare DEF AcceptStep, Spares, NoAnswer
  <2>2. CASE (\E p \in Clients : call(d, p)) \/ reject(d) \/ hangup(d)
    <3>1. waiting' = waiting
      BY <2>2 DEF call, reject, hangup, tokenVars
    <3>2. inviting[d] \in ChanId /\ invited[d] \in ChanId
      BY DEF OwnTypeOK
    <3>3. CASE \E p \in Clients : call(d, p)
      BY <3>1, <3>3, CreateSpares DEF call, Spares, NoAnswer
    <3>4. CASE reject(d)
      <4>1. SignalingReject(inbox, d, invited[d], "Reject", TRUE) /\ "Reject" \in Notice
        BY <3>4 DEF reject, Notice
      <4> QED
        BY <3>1, <3>2, <4>1, RejectSpares DEF Spares, NoAnswer
    <3>5. CASE hangup(d)
      <4>1. CASE UNCHANGED svcVars
        BY <3>1, <4>1, StillSpares DEF Spares, NoAnswer
      <4>2. CASE CancelAndClose(inbox, d, status[d] = "calling" /\ master[d], inviting[d],
                                IF master[d] THEN inviting[d] ELSE invited[d])
        <5>1. PICK x \in BOOLEAN, ch \in ChanId : CancelAndClose(inbox, d, x, inviting[d], ch)
          <6>1. (status[d] = "calling" /\ master[d]) \in BOOLEAN
            OBVIOUS
          <6>2. (IF master[d] THEN inviting[d] ELSE invited[d]) \in ChanId
            BY <3>2
          <6> QED
            BY <4>2, <6>1, <6>2
        <5> QED
          BY <3>1, <3>2, <5>1, CancelAndCloseSpares DEF Spares, NoAnswer
      <4> QED
        BY <3>5, <4>1, <4>2 DEF hangup
    <3> QED
      BY <2>2, <3>3, <3>4, <3>5
  <2>3. CASE OwnStep(d) \/ OtherDevice(d) \/ TakesEvent(d)
    <3>1. waiting' = waiting
      BY <2>3
      DEF OwnStep, CallingTimeout, GetToken, onUserLeft, OtherDevice, TakesEvent, tokenVars
    <3> QED
      BY <2>3, <3>1, OthersSpare DEF OwnStep, Spares, NoAnswer
  <2>4. CASE SdkStep(d)
    <3>1. Spares(inbox, c, d)
      BY <2>4, EndingEvents, AnswersSpare, NoticesSpare, OthersSpare DEF SdkStep
    <3>2. waiting'[c][1] # "acceptCb" \/ waiting' = waiting
      <4>1. CASE handleAccepted(d) \/ handleControl(d) \/ AcceptedJoins(d) \/ ControlJoins(d)
        <5>1. CASE handleAccepted(d) \/ handleControl(d)
          BY <1>2, <5>1 DEF handleAccepted, handleControl
        <5>2. CASE AcceptedJoins(d) \/ ControlJoins(d)
          BY <1>2, <5>2 DEF AcceptedJoins, ControlJoins, Free
        <5> QED
          BY <4>1, <5>1, <5>2
      <4>2. CASE \/ signalingCreateCb(d) \/ signalingJoinCb(d) \/ signalingInviteCb(d)
                 \/ signalingRejectCb(d) \/ signalingCloseCb(d) \/ signalingLeaveCb(d)
        BY <4>2
        DEF signalingCreateCb, signalingJoinCb, signalingInviteCb, signalingRejectCb,
            signalingCloseCb, signalingLeaveCb, tokenVars
      <4>3. CASE \/ handleInvited(d) \/ handleRejected(d) \/ handleJoin(d) \/ handleLeave(d)
                 \/ \E kind, event : Ends(d, kind, event)
        BY <4>3 DEF handleInvited, handleRejected, handleJoin, handleLeave, Ends, tokenVars
      <4> QED
        BY <2>4, <4>1, <4>2, <4>3, EndingEvents DEF SdkStep
    <3> QED
      BY <3>1, <3>2 DEF Spares, NoAnswer
  <2> QED
    BY <1>2, <2>1, <2>2, <2>3, <2>4 DEF Unasked, Inside
<1> QED
  BY <1>1, <1>2

-----------------------------------------------------------------------------
(* The parts of the invariant, one by one.                                 *)

Turn(d) ==
  KitInv /\ Inv' /\ BillInv /\ Directed /\ OneCall /\ IsFiniteSet(Clients) /\ StepOf(d)

\* What holds in a turn of d.
LEMMA TurnFacts ==
  ASSUME NEW d \in Clients, Turn(d)
  PROVE  /\ KitInv /\ Inv /\ Inv' /\ Inviters /\ Sides /\ Directed /\ OneCall /\ StepOf(d)
         /\ SvcTypeOK /\ OwnTypeOK /\ SvcTypeOK' /\ inbox \in Inboxes /\ inbox' \in Inboxes
         /\ NoClient \notin Clients
         /\ \A c \in Clients : Chained(c)
         /\ UNCHANGED avVars \/ ComponentStep(d)
BY InboxFacts, InboxNext, StepFacts, SignalingAssumption DEF Turn, KitInv, BillInv

\* The first message is among the messages.
LEMMA HeadMail ==
  ASSUME Inv, NEW c \in Clients, NEW kind, Gets(c, kind)
  PROVE  /\ 1 \in DOMAIN inbox[c] /\ Got(c) = inbox[c][1] /\ Got(c).kind = kind
         /\ Founded(c, Got(c)) /\ inbox[c] \in Seq(Message)
<1>1. inbox[c] \in Seq(Message) /\ inbox[c] # <<>>
  BY InboxFacts DEF Inboxes, Gets
<1> QED
  BY <1>1, TailFacts, GotFacts DEF Got

\* Setting up is the caller's.
LEMMA SetupFacts ==
  ASSUME Inv, NEW c \in Clients, NEW i \in DOMAIN inbox[c], Setup(inbox[c][i])
  PROVE  Caller(c, inbox[c][i].ch)
BY DEF Setup, Inv, MessagesFounded, Founded

\* Who created, who was invited and who refused stays so.
LEMMA Channels ==
  ASSUME NEW d \in Clients, Turn(d)
  PROVE  /\ \A c \in Clients, ch \in Chan :
              /\ creator[ch] = c => creator'[ch] = c
              /\ callee[ch] = c => callee'[ch] = c
         /\ \A ch \in Chan : invitation[ch] = "rejected" => invitation'[ch] = "rejected"
         /\ \A ch \in Chan :
              /\ creator'[ch] \in Dialling \cup {NoClient}
              /\ callee'[ch] \in Dialled \cup {NoClient}
              /\ creator'[ch] = NoClient => invitation'[ch] = "none"
<1> /\ KitInv /\ Inv /\ Inv' /\ Sides /\ Directed /\ StepOf(d) /\ SvcTypeOK /\ Chained(d)
    /\ NoClient \notin Clients
  BY TurnFacts
<1>1. CASE ServiceKept
  BY <1>1 DEF ServiceKept, Sides
<1>2. CASE Founds(d, d)
  BY <1>2 DEF Founds, Sides, SvcTypeOK, Unused
<1>3. CASE Invites(d, d)
  <2>1. Got(d).ch \in Chan /\ creator[Got(d).ch] = d /\ invitation[Got(d).ch] = "none"
    BY <1>3, HeadMail DEF Invites, Caller, Chained
  <2>2. callee[Got(d).ch] = NoClient
    BY <2>1, InboxFacts DEF InOrder
  <2>3. \/ callee' = callee /\ invitation' = invitation
        \/ /\ callee' = [callee EXCEPT ![Got(d).ch] = to[d]]
           /\ invitation' = [invitation EXCEPT ![Got(d).ch] = "pending"]
    BY <1>3 DEF Invites
  <2>4. creator' = creator /\ to[d] \in Dialled \cup {NoClient}
    BY <1>3 DEF Invites, Sides
  <2> QED
    BY <2>1, <2>2, <2>3, <2>4 DEF SvcTypeOK, Sides
<1> QED
  BY <1>1, <1>2, <1>3, Mail DEF Joins

\* Nobody changes sides.
LEMMA SidesKept ==
  ASSUME NEW d \in Clients, Turn(d)
  PROVE  Sides'
<1> /\ KitInv /\ Inv /\ Sides /\ StepOf(d) /\ OwnTypeOK /\ (UNCHANGED avVars \/ ComponentStep(d))
  BY TurnFacts
<1>1. ASSUME NEW c \in Clients, c # d
      PROVE  /\ to'[c] \in Dialled \cup {NoClient}
             /\ created'[c] # NoChan => Caller(c, created[c])'
             /\ \A i \in DOMAIN requests'[c] :
                  requests'[c][i].op = "call" =>
                    c \in Dialling /\ requests'[c][i].peer \in Dialled
  <2>1. Mine(c) /\ Yours(c)
    BY <1>1, StepFacts
  <2> QED
    BY <2>1, Channels DEF Mine, Yours, Sides, Caller
<1>2. requests[d] \in Seq(Op)
  BY DEF KitInv, UiTypeOK
<1>3. to'[d] \in Dialled \cup {NoClient}
  <2>1. CASE RunsCall(d)
    <3>1. requests[d] # <<>> /\ Head(requests[d]).op = "call"
      BY <2>1 DEF RunsCall, Runs
    <3>2. Head(requests[d]).peer \in Dialled
      BY <1>2, <3>1, TailFacts DEF Sides
    <3> QED
      BY <3>2, ToOf DEF Sides
  <2> QED
    BY <2>1, ToOf DEF Sides
<1>4. created'[d] # NoChan => Caller(d, created[d])'
  <2>1. CASE UNCHANGED avVars
    BY <2>1, Channels DEF avVars, chanVars, svcVars, Sides, Caller
  <2>2. CASE ComponentStep(d)
    <3>1. CASE Gets(d, "createCb") /\ Got(d).ok /\ created'[d] = Got(d).ch
      BY <3>1, Channels, HeadMail DEF Founded, Caller
    <3>2. CASE created'[d] = created[d] \/ created'[d] = NoChan
      BY <3>2, Channels DEF Sides, Caller
    <3> QED
      BY <2>2, <3>1, <3>2, CreatedOf
  <2> QED
    BY <2>1, <2>2
<1> DEFINE CallsAre(s) ==
             \A i \in DOMAIN s : s[i].op = "call" => d \in Dialling /\ s[i].peer \in Dialled
<1>5. CallsAre(requests'[d])
  <2>1. CASE requests'[d] = requests[d]
    BY <2>1 DEF Sides
  <2>2. CASE requests[d] # <<>> /\ requests'[d] = Tail(requests[d])
    BY <1>2, <2>2, TailFacts DEF Sides
  <2>3. ASSUME NEW op \in {"call", "accept", "reject", "hangup"},
               NEW p \in Clients \cup {NoClient}, Grounds(d, op, p),
               requests'[d] = Append(requests[d], [op |-> op, peer |-> p])
        PROVE  CallsAre(requests'[d])
    <3> DEFINE m == [op |-> op, peer |-> p]
    <3>1. m \in Op /\ m.op = op /\ m.peer = p
      BY DEF Op
    <3>2. op = "call" => d \in Dialling /\ p \in Dialled
      BY <2>3 DEF Grounds, Dialling, Dialled
    <3> HIDE DEF m
    <3>3. \A i \in DOMAIN Append(requests[d], m) :
            \/ i \in DOMAIN requests[d] /\ Append(requests[d], m)[i] = requests[d][i]
            \/ Append(requests[d], m)[i] = m
      BY <1>2, <3>1, AppendFacts
    <3>4. requests'[d] = Append(requests[d], m)
      BY <2>3 DEF m
    <3> QED
      BY <3>1, <3>2, <3>3, <3>4 DEF Sides
  <2> QED
    BY <2>1, <2>2, <2>3, StepShown DEF Queued
<1> QED
  BY <1>1, <1>3, <1>4, <1>5, Channels DEF Sides

\* What stays of the messages that remain, and what a message in K has to be.
Stays(c, o) ==
  \A i \in DOMAIN inbox[c] :
    /\ i > o /\ Setup(inbox[c][i]) => invitation'[inbox[c][i].ch] = "none"
    /\ inbox[c][i].kind = "Reject" =>
         /\ inbox[c][i].ch \in Chan /\ creator'[inbox[c][i].ch] = c
         /\ invitation'[inbox[c][i].ch] = "rejected"

Fit(c, o, m) ==
  /\ Setup(m) => /\ invitation'[m.ch] = "none"
                 /\ \A i \in DOMAIN inbox[c] : i > o => ~Setup(inbox[c][i])
  /\ m.kind = "Reject" =>
       m.ch \in Chan /\ creator'[m.ch] = c /\ invitation'[m.ch] = "rejected"
  /\ m.kind = "inviteCb" => \A i \in DOMAIN inbox[c] : inbox[c][i].kind # "Reject"

\* What follows what was in order is in order.
LEMMA FollowChained ==
  ASSUME NEW c \in Clients, NEW o \in {0, 1}, NEW K, Chained(c),
         Follow(inbox'[c], inbox[c], o, K), inbox \in Inboxes, inbox' \in Inboxes,
         Stays(c, o), \A m \in K : Fit(c, o, m)
  PROVE  Chained(c)'
<1> USE DEF Stays, Fit
<1> DEFINE s == inbox[c]
           r == inbox'[c]
<1>1. /\ Len(s) \in Nat /\ Len(r) \in Nat /\ DOMAIN s = 1..Len(s) /\ DOMAIN r = 1..Len(r)
  BY DEF Inboxes
<1>2. PICK n \in Nat : \A i \in DOMAIN r :
        Held(r, s, i, o) \/ (Later(s, i + o) /\ Light(r, i, n, K))
  BY DEF Follow
<1> SUFFICES ASSUME NEW i \in DOMAIN r, NEW j \in DOMAIN r
             PROVE  /\ Setup(r[i]) => invitation'[r[i].ch] = "none"
                    /\ Setup(r[i]) /\ Setup(r[j]) => i = j
                    /\ r[i].kind = "Reject" =>
                         /\ r[i].ch \in Chan /\ creator'[r[i].ch] = c
                         /\ invitation'[r[i].ch] = "rejected"
                         /\ r[j].kind = "inviteCb" => j < i
  BY DEF Chained, Caller
<1> HIDE DEF s, r
<1>3. i \in Nat /\ j \in Nat /\ i >= 1 /\ j >= 1 /\ o \in Nat
  BY <1>1
<1>4. /\ Held(r, s, i, o) \/ (Later(s, i + o) /\ Light(r, i, n, K))
      /\ Held(r, s, j, o) \/ (Later(s, j + o) /\ Light(r, j, n, K))
  BY <1>2
<1>5. /\ Setup(r[i]) => Weighty(r[i])
      /\ Setup(r[j]) => Weighty(r[j])
      /\ r[i].kind = "Reject" => Weighty(r[i])
      /\ r[j].kind = "inviteCb" => Weighty(r[j])
  BY DEF Weighty
<1>6. Setup(r[i]) => invitation'[r[i].ch] = "none"
  BY <1>3, <1>4, <1>5 DEF Held, Light, s
<1>7. Setup(r[i]) /\ Setup(r[j]) => i = j
  <2> SUFFICES ASSUME Setup(r[i]), Setup(r[j])
               PROVE  i = j
    OBVIOUS
  <2>1. CASE Held(r, s, i, o) /\ Held(r, s, j, o)
    BY <1>3, <2>1 DEF Held, Chained, s
  <2>2. CASE Light(r, i, n, K) /\ Light(r, j, n, K)
    BY <1>5, <2>2 DEF Light
  <2>3. CASE Held(r, s, i, o) /\ Light(r, j, n, K)
    BY <1>3, <1>5, <2>3 DEF Held, Light, s
  <2>4. CASE Light(r, i, n, K) /\ Held(r, s, j, o)
    BY <1>3, <1>5, <2>4 DEF Held, Light, s
  <2> QED
    BY <1>4, <2>1, <2>2, <2>3, <2>4
<1>8. r[i].kind = "Reject" =>
        /\ r[i].ch \in Chan /\ creator'[r[i].ch] = c
        /\ invitation'[r[i].ch] = "rejected"
  BY <1>3, <1>4, <1>5 DEF Held, Light, s
<1>9. r[i].kind = "Reject" /\ r[j].kind = "inviteCb" => j < i
  <2> SUFFICES ASSUME r[i].kind = "Reject", r[j].kind = "inviteCb"
               PROVE  j < i
    OBVIOUS
  <2>1. CASE Held(r, s, i, o) /\ Held(r, s, j, o)
    <3>1. j + o < i + o
      BY <2>1 DEF Held, Chained, s
    <3> QED
      BY <1>3, <3>1
  <2>2. CASE Light(r, i, n, K) /\ Light(r, j, n, K)
    BY <1>5, <2>2 DEF Light
  <2>3. CASE Held(r, s, i, o) /\ Light(r, j, n, K)
    BY <1>3, <1>5, <2>3 DEF Held, Light, s
  <2>4. CASE Later(s, i + o) /\ Light(r, i, n, K) /\ Held(r, s, j, o)
    <3>1. j + o < i + o
      BY <2>4 DEF Held, Later
    <3> QED
      BY <1>3, <3>1
  <2> QED
    BY <1>4, <2>1, <2>2, <2>3, <2>4
<1> QED
  BY <1>6, <1>7, <1>8, <1>9

\* Each answer leads to one request; with one channel, nothing is set up once
\* an invitation is out, and nobody else sets up.
LEMMA ChainedKept ==
  ASSUME NEW d \in Clients, Turn(d), NEW c \in Clients
  PROVE  Chained(c)'
<1> /\ KitInv /\ Inv /\ Inv' /\ Sides /\ Directed /\ OneCall /\ StepOf(d) /\ SvcTypeOK
    /\ Chained(c) /\ Chained(d) /\ inbox \in Inboxes /\ inbox' \in Inboxes
    /\ NoClient \notin Clients
  BY TurnFacts
<1>1. \A i \in DOMAIN inbox[c] :
        /\ Setup(inbox[c][i]) =>
             Caller(c, inbox[c][i].ch) /\ invitation[inbox[c][i].ch] = "none"
        /\ inbox[c][i].kind = "Reject" =>
             /\ inbox[c][i].ch \in Chan /\ creator'[inbox[c][i].ch] = c
             /\ creator[inbox[c][i].ch] = c
             /\ invitation[inbox[c][i].ch] = "rejected"
             /\ invitation'[inbox[c][i].ch] = "rejected"
  BY SetupFacts, Channels DEF Chained, Caller
<1>2. /\ \A m \in {Msg("createCb", ch, TRUE) : ch \in Chan} :
           Setup(m) /\ m.ch \in Chan /\ m.kind = "createCb"
      /\ \A ch : LET m == Msg("joinCb", ch, TRUE) IN
           Setup(m) /\ m.ch = ch /\ m.kind = "joinCb"
      /\ \A ch, ok : LET m == Msg("inviteCb", ch, ok) IN ~Setup(m) /\ m.kind = "inviteCb"
      /\ \A ch : LET m == News("Invite", ch) IN ~Setup(m) /\ m.kind = "Invite"
      /\ \A ch : LET m == News("Reject", ch) IN ~Setup(m) /\ m.kind = "Reject" /\ m.ch = ch
  BY DEF Setup, Msg, News
<1>3. CASE ServiceKept /\ Comes(c, {})
  <2>1. PICK o \in {0, 1} : Follow(inbox'[c], inbox[c], o, {})
    BY <1>3 DEF Comes
  <2>2. \A i \in DOMAIN inbox[c] :
          Setup(inbox[c][i]) => invitation'[inbox[c][i].ch] = "none"
    BY <1>1, <1>3 DEF ServiceKept, Caller
  <2>3. Stays(c, o) /\ \A m \in {} : Fit(c, o, m)
    BY <1>1, <2>2 DEF Stays
  <2> QED
    BY <2>1, <2>3, FollowChained
<1>4. ASSUME ServiceKept, NEW ch \in Chan, Caller(c, ch), invitation'[ch] = "rejected",
             Comes(c, {News("Reject", ch)})
      PROVE  Chained(c)'
  <2>1. PICK o \in {0, 1} : Follow(inbox'[c], inbox[c], o, {News("Reject", ch)})
    BY <1>4 DEF Comes
  <2>2. \A i \in DOMAIN inbox[c] :
          Setup(inbox[c][i]) => invitation'[inbox[c][i].ch] = "none"
    BY <1>1, <1>4 DEF ServiceKept, Caller
  <2>3. \A m \in {News("Reject", ch)} :
          /\ ~Setup(m) /\ m.kind = "Reject" /\ m.kind # "inviteCb"
          /\ m.ch \in Chan /\ creator'[m.ch] = c /\ invitation'[m.ch] = "rejected"
    BY <1>2, <1>4 DEF ServiceKept, Caller
  <2>4. Stays(c, o) /\ \A m \in {News("Reject", ch)} : Fit(c, o, m)
    BY <1>1, <2>2, <2>3 DEF Stays, Fit
  <2> QED
    BY <2>1, <2>4, FollowChained
<1>5. CASE Founds(d, c)
  <2>1. PICK ch \in Unused : Comes(c, IF c = d THEN {Msg("createCb", ch, TRUE)} ELSE {})
    BY <1>5 DEF Founds
  <2> DEFINE K == IF c = d THEN {Msg("createCb", ch, TRUE)} ELSE {}
  <2>2. PICK o \in {0, 1} : Follow(inbox'[c], inbox[c], o, K)
    BY <2>1 DEF Comes
  <2>3. \A x \in Chan : creator[x] = NoClient /\ invitation'[x] = "none"
    BY <1>5, <2>1 DEF Founds, Unused, OneCall, Sides
  <2>4. \A i \in DOMAIN inbox[c] : ~Setup(inbox[c][i]) /\ inbox[c][i].kind # "Reject"
    BY <1>1, <2>3 DEF Caller
  <2>5. \A m \in K : m.kind = "createCb" /\ invitation'[m.ch] = "none"
    <3>1. \A m \in K : m \in {Msg("createCb", x, TRUE) : x \in Chan}
      BY DEF Unused
    <3> HIDE DEF K
    <3> QED
      BY <1>2, <2>3, <3>1
  <2>6. Stays(c, o)
    BY <2>4 DEF Stays
  <2> HIDE DEF K
  <2>7. \A m \in K : Fit(c, o, m)
    BY <2>4, <2>5 DEF Fit
  <2> QED
    BY <2>2, <2>6, <2>7, FollowChained
<1>6. CASE Joins(d, c)
  <2>1. /\ Follow(inbox'[c], inbox[c], 1, {Msg("joinCb", Got(d).ch, TRUE)})
        /\ ServiceKept /\ c = d /\ Setup(Got(d)) /\ Gets(d, "createCb") /\ Got(d).ch \in Chan
    BY <1>6 DEF Joins, Took
  <2>2. 1 \in DOMAIN inbox[c] /\ Setup(inbox[c][1]) /\ Got(d) = inbox[c][1]
    BY <2>1, HeadMail
  <2>3. \A i \in DOMAIN inbox[c] : i > 1 => ~Setup(inbox[c][i])
    BY <2>2 DEF Chained
  <2>4. invitation'[Got(d).ch] = "none"
    BY <1>1, <2>1, <2>2 DEF ServiceKept
  <2>5. \A m \in {Msg("joinCb", Got(d).ch, TRUE)} :
          m.kind = "joinCb" /\ invitation'[m.ch] = "none"
    <3>1. /\ Msg("joinCb", Got(d).ch, TRUE).kind = "joinCb"
          /\ Msg("joinCb", Got(d).ch, TRUE).ch = Got(d).ch
      BY DEF Msg
    <3> QED
      BY <2>4, <3>1
  <2> DEFINE K == {Msg("joinCb", Got(d).ch, TRUE)}
  <2>6. /\ Follow(inbox'[c], inbox[c], 1, K)
        /\ \A m \in K : m.kind = "joinCb" /\ invitation'[m.ch] = "none"
    BY <2>1, <2>5
  <2>7. Stays(c, 1)
    BY <1>1, <2>3 DEF Stays
  <2> HIDE DEF K
  <2>8. \A m \in K : Fit(c, 1, m)
    BY <2>3, <2>6 DEF Fit
  <2> QED
    BY <2>6, <2>7, <2>8, FollowChained
<1>7. CASE Invites(d, c)
  <2>1. /\ Setup(Got(d)) /\ Gets(d, "joinCb") /\ Caller(d, Got(d).ch)
    BY <1>7 DEF Invites
  <2>2. 1 \in DOMAIN inbox[d] /\ Got(d) = inbox[d][1]
    BY <2>1, HeadMail
  <2>3. invitation[Got(d).ch] = "none"
    BY <2>1, <2>2 DEF Chained
  <2>4. \A i \in DOMAIN inbox[c] : inbox[c][i].kind # "Reject"
    BY <1>1, <2>1, <2>3 DEF Caller, OneCall
  <2>5. CASE c = d
    <3>1. PICK ok \in BOOLEAN :
            Follow(inbox'[c], inbox[c], 1, {Msg("inviteCb", Got(d).ch, ok)})
      BY <1>7, <2>5 DEF Invites, Took
    <3>2. \A i \in DOMAIN inbox[c] : i > 1 => ~Setup(inbox[c][i])
      BY <2>1, <2>2, <2>5 DEF Chained
    <3>3. \A m \in {Msg("inviteCb", Got(d).ch, ok)} : ~Setup(m) /\ m.kind = "inviteCb"
      BY <1>2
    <3>4. Stays(c, 1) /\ \A m \in {Msg("inviteCb", Got(d).ch, ok)} : Fit(c, 1, m)
      BY <2>4, <3>2, <3>3 DEF Stays, Fit
    <3> QED
      BY <3>1, <3>4, FollowChained
  <2>6. CASE c # d
    <3>1. PICK K : Comes(c, K) /\ (K = {} \/ K = {News("Invite", Got(d).ch)})
      BY <1>7, <2>6 DEF Invites
    <3>2. PICK o \in {0, 1} : Follow(inbox'[c], inbox[c], o, K)
      BY <3>1 DEF Comes
    <3>3. \A m \in K : ~Setup(m) /\ m.kind = "Invite"
      BY <1>2, <3>1
    <3>4. \A i \in DOMAIN inbox[c] : ~Setup(inbox[c][i])
      BY <1>1, <2>1, <2>6 DEF Caller, OneCall
    <3>5. Stays(c, o) /\ \A m \in K : Fit(c, o, m)
      BY <2>4, <3>3, <3>4 DEF Stays, Fit
    <3> QED
      BY <3>2, <3>5, FollowChained
  <2> QED
    BY <2>5, <2>6
<1> QED
  BY <1>3, <1>4, <1>5, <1>6, <1>7, Mail DEF NewsOf, Caller

\* Who dials is not invited.
LEMMA NotInvited ==
  ASSUME Inv, Sides, Directed, NEW c \in Dialling, c \in Clients
  PROVE  \A i \in DOMAIN inbox[c] : inbox[c][i].kind # "Invite"
BY SignalingAssumption DEF Inv, MessagesFounded, Founded, Callee, Sides, Directed

\* No invitation reaches who dials.
LEMMA OutgoingKept ==
  ASSUME NEW d \in Clients, Turn(d), NEW c \in Clients, c \in Dialling
  PROVE  Outgoing(c)'
<1> /\ KitInv /\ Inv /\ Inviters /\ Sides /\ Directed /\ StepOf(d) /\ OwnTypeOK
    /\ (UNCHANGED avVars \/ ComponentStep(d)) /\ Outgoing(c)
  BY TurnFacts DEF Turn, BillInv
<1>1. CASE c # d
  <2>1. Mine(c) /\ Yours(c)
    BY <1>1, StepFacts
  <2>2. NoAnswer(inbox', c)
    <3>1. CASE UNCHANGED avVars
      BY <3>1 DEF avVars, svcVars, Outgoing, NoAnswer
    <3>2. CASE ComponentStep(d)
      BY <1>1, <3>2, NoAnswerOf DEF Outgoing
    <3> QED
      BY <3>1, <3>2
  <2> QED
    BY <2>1, <2>2 DEF Mine, Yours, Outgoing, NoAnswer
<1>2. CASE c = d
  <2>1. requests[c] \in Seq(Op) /\ events[c] \in Seq(Event)
    BY DEF KitInv, UiTypeOK, OwnTypeOK
  <2>2. UNCHANGED avVars \/ Unasked(c)
    <3>1. requests[c] # <<>> => Head(requests[c]).op # "accept"
      BY <2>1, TailFacts DEF Outgoing
    <3>2. ~RunsAccept(c)
      BY <3>1 DEF RunsAccept, Runs
    <3>3. RunsCall(c) => \E p \in Clients : call(c, p)
      BY RequestFacts DEF RunsCall, Runs
    <3>4. Worker(c) => Unasked(c)
      BY <3>2, <3>3 DEF Worker, RunsReject, RunsHangup, Unasked
    <3> QED
      BY <1>2, <3>4, KitSteps DEF StepOf, Unasked, Inside
  <2>3. ~OnInvitedCb(c)
    <3>1. events[c] # <<>> => Head(events[c]).kind # "onInvited"
      BY <2>1, TailFacts DEF Outgoing
    <3> QED
      BY <3>1 DEF OnInvitedCb, Takes, TakesEvent
  <2>4. form'[c].view # "confirm" /\ ghost'[c].view # "confirm"
    BY <1>2, <2>3, StepShown DEF Shown, Outgoing, Confirming
  <2>5. NoAnswer(inbox', c) /\ waiting'[c][1] # "acceptCb"
    <3>1. CASE UNCHANGED avVars
      BY <3>1 DEF avVars, svcVars, tokenVars, Outgoing, NoAnswer
    <3>2. CASE Unasked(c)
      BY <3>2, NoAnswerOf DEF Outgoing
    <3> QED
      BY <2>2, <3>1, <3>2
  <2>6. \A i \in DOMAIN requests'[c] : requests'[c][i].op # "accept"
    <3>1. CASE requests'[c] = requests[c]
      BY <3>1 DEF Outgoing
    <3>2. CASE requests[c] # <<>> /\ requests'[c] = Tail(requests[c])
      BY <2>1, <3>2, TailFacts DEF Outgoing
    <3>3. ASSUME NEW op \in {"call", "accept", "reject", "hangup"},
                 NEW p \in Clients \cup {NoClient}, Grounds(c, op, p),
                 requests'[c] = Append(requests[c], [op |-> op, peer |-> p])
          PROVE  \A i \in DOMAIN requests'[c] : requests'[c][i].op # "accept"
      <4> DEFINE m == [op |-> op, peer |-> p]
      <4>1. m \in Op /\ m.op = op
        BY DEF Op
      <4>2. op # "accept"
        BY <3>3 DEF Grounds, Outgoing, Confirming
      <4> HIDE DEF m
      <4>3. \A i \in DOMAIN Append(requests[c], m) :
              \/ i \in DOMAIN requests[c] /\ Append(requests[c], m)[i] = requests[c][i]
              \/ Append(requests[c], m)[i] = m
        BY <2>1, <4>1, AppendFacts
      <4>4. requests'[c] = Append(requests[c], m)
        BY <3>3 DEF m
      <4> QED
        BY <4>1, <4>2, <4>3, <4>4 DEF Outgoing
    <3> QED
      BY <1>2, <3>1, <3>2, <3>3, StepShown DEF Queued
  <2>7. \A i \in DOMAIN events'[c] : events'[c][i].kind # "onInvited"
    <3>1. CASE events' = events
      BY <3>1 DEF Outgoing
    <3>2. CASE HandlesEvent(c) /\ TakesEvent(c)
      <4>1. events[c] # <<>> /\ events'[c] = Tail(events[c])
        BY <3>2 DEF TakesEvent, OwnTypeOK
      <4> QED
        BY <2>1, <4>1, TailFacts DEF Outgoing
    <3>3. ASSUME NEW kind \in EventKinds, NEW who \in Clients \cup {NoClient},
                 Tell(c, kind, who), kind = "onInvited" => Gets(c, "Invite")
          PROVE  \A i \in DOMAIN events'[c] : events'[c][i].kind # "onInvited"
      <4> DEFINE m == [kind |-> kind, who |-> who]
      <4>1. m \in Event /\ m.kind = kind
        BY DEF Event
      <4>2. kind # "onInvited"
        BY <3>3, NotInvited, HeadMail
      <4>4. events'[c] = Append(events[c], m)
        BY <3>3 DEF Tell, OwnTypeOK
      <4> HIDE DEF m
      <4>3. \A i \in DOMAIN Append(events[c], m) :
              \/ i \in DOMAIN events[c] /\ Append(events[c], m)[i] = events[c][i]
              \/ Append(events[c], m)[i] = m
        BY <2>1, <4>1, AppendFacts
      <4> QED
        BY <4>1, <4>2, <4>3, <4>4 DEF Outgoing
    <3> QED
      BY <1>2, <3>1, <3>2, <3>3, EventsOf
  <2> QED
    BY <2>4, <2>5, <2>6, <2>7 DEF Outgoing, NoAnswer
<1> QED
  BY <1>1, <1>2

\* What is on its way of a kind that is not added was on its way, behind what
\* was taken.
LEMMA FollowKind ==
  ASSUME NEW c \in Clients, NEW o \in {0, 1}, NEW K, Follow(inbox'[c], inbox[c], o, K),
         inbox \in Inboxes, inbox' \in Inboxes,
         NEW kind \in {"inviteCb", "Invite"}, \A m \in K : m.kind # kind
  PROVE  /\ Has(inbox'[c], kind) =>
              \E i \in DOMAIN inbox[c] : i > o /\ inbox[c][i].kind = kind
         /\ (\A i, j \in DOMAIN inbox[c] :
               inbox[c][i].kind = kind /\ inbox[c][j].kind = kind => i = j)
            => \A i, j \in DOMAIN inbox'[c] :
                 inbox'[c][i].kind = kind /\ inbox'[c][j].kind = kind => i = j
<1> DEFINE s == inbox[c]
           r == inbox'[c]
<1>1. DOMAIN r = 1..Len(r) /\ Len(r) \in Nat
  BY DEF Inboxes
<1>2. PICK n \in Nat : \A i \in DOMAIN r :
        Held(r, s, i, o) \/ (Later(s, i + o) /\ Light(r, i, n, K))
  BY DEF Follow
<1> HIDE DEF r, s
<1>3. \A i \in DOMAIN r : r[i].kind = kind => Held(r, s, i, o)
  BY <1>2 DEF Light, Weighty
<1>4. \A i \in DOMAIN r :
        r[i].kind = kind => i + o \in DOMAIN s /\ s[i + o].kind = kind /\ i + o > o
  BY <1>1, <1>3 DEF Held
<1>5. \A i, j \in DOMAIN r : i + o = j + o => i = j
  BY <1>1
<1> QED
  BY <1>4, <1>5 DEF Has, r, s

\* The one message of weight that is added is the only one of its kind, if there
\* was none.
LEMMA FollowFirst ==
  ASSUME NEW c \in Clients, NEW o \in {0, 1}, NEW K, Follow(inbox'[c], inbox[c], o, K),
         ~Has(inbox[c], "Invite")
  PROVE  \A i, j \in DOMAIN inbox'[c] :
           inbox'[c][i].kind = "Invite" /\ inbox'[c][j].kind = "Invite" => i = j
BY DEF Follow, Held, Light, Weighty, Has

\* Before the invitation is taken in there is nothing else for c to do.
LEMMA UnheardOf ==
  ASSUME KitInv, NEW c \in Clients, c \notin Dialling, Unheard(c), StepOf(c)
  PROVE  \/ form'[c] = form[c] /\ events'[c] = events[c]
         \/ Gets(c, "Invite") /\ Silent(Rest(c))
<1>1. /\ Inv /\ requests[c] = <<>> /\ ghost[c] = NoForm /\ form[c] = NoForm
      /\ Before(c) /\ Untouched(c)
  BY DEF KitInv, Windowless, Before, Unheard
<1>2. ~User(c)
  <2>1. ~Live(form[c]) /\ ~Live(ghost[c])
    BY <1>1, WindowFacts
  <2>2. \A p \in Clients : <<c, p>> \notin Dials
    BY DEF Dialling
  <2> QED
    BY <2>1, <2>2 DEF User, Complete, Refuse, StopChat, QuitMsgBox, UseGhost
<1>3. ~Worker(c)
  BY <1>1 DEF Worker, RunsCall, RunsAccept, RunsReject, RunsHangup, Runs
<1>4. ~HandlesEvent(c)
  BY <1>1, KitSteps DEF TakesEvent, Untouched
<1>5. ~AcceptStep(c)
  BY <1>1, BeforeAccept
<1>6. CASE SdkStep(c) /\ UNCHANGED uiVars
  <2>1. CASE handleInvited(c)
    BY <1>1, <2>1 DEF handleInvited, Untouched
  <2>2. ~AcceptedJoins(c) /\ ~ControlJoins(c)
    BY <1>1 DEF AcceptedJoins, ControlJoins, Untouched, Free
  <2>3. CASE \/ signalingCreateCb(c) \/ signalingJoinCb(c) \/ signalingInviteCb(c)
             \/ signalingRejectCb(c) \/ signalingCloseCb(c) \/ signalingLeaveCb(c)
    <3>1. PICK kind \in Answer : Gets(c, kind)
      BY <2>3
      DEF signalingCreateCb, signalingJoinCb, signalingInviteCb, signalingRejectCb,
          signalingCloseCb, signalingLeaveCb, Answer
    <3> QED
      BY <1>1, <3>1, OnlyInvited DEF Answer
  <2>4. CASE \/ handleAccepted(c) \/ handleControl(c) \/ handleRejected(c)
             \/ handleJoin(c) \/ handleLeave(c)
             \/ \E kind \in Notice \ {"Invite"} : \E event : Ends(c, kind, event)
    <3>1. PICK kind \in Notice \ {"Invite"} : Gets(c, kind)
      BY <2>4
      DEF handleAccepted, handleControl, handleRejected, handleJoin, handleLeave, Ends, Notice
    <3> QED
      BY <1>1, <3>1, OnlyInvited
  <2> QED
    BY <1>6, <2>1, <2>2, <2>3, <2>4, EndingEvents DEF SdkStep
<1>7. CASE Timer(c) \/ Http(c) \/ Engine(c)
  BY <1>1, <1>7
  DEF Timer, Http, Engine, CallingTimeout, GetToken, onUserLeft, Untouched, uiVars
<1>8. CASE Elsewhere(c)
  BY <1>8 DEF Elsewhere, OtherDevice, uiVars
<1> QED
  BY <1>2, <1>3, <1>4, <1>5, <1>6, <1>7, <1>8, KitSteps DEF StepOf

\* One invitation reaches who is dialled, and nothing before it.
LEMMA IncomingKept ==
  ASSUME NEW d \in Clients, Turn(d), NEW c \in Clients, c \in Dialled
  PROVE  Incoming(c)'
<1> /\ KitInv /\ Inv /\ Inv' /\ Sides /\ Directed /\ OneCall /\ StepOf(d) /\ SvcTypeOK
    /\ inbox \in Inboxes /\ inbox' \in Inboxes /\ Incoming(c) /\ Chained(d)
    /\ NoClient \notin Clients /\ c \notin Dialling
  BY TurnFacts DEF Turn, BillInv, Directed
<1> DEFINE Early == (\A ch \in Chan : callee[ch] # c) \/ Has(inbox[c], "Invite")
           Later1 == (\A ch \in Chan : callee'[ch] # c) \/ Has(inbox'[c], "Invite")
           Only(s) == \A i, j \in DOMAIN s : s[i].kind = "Invite" /\ s[j].kind = "Invite" => i = j
<1>1. Only(inbox[c]) /\ (Early => Unheard(c))
  BY DEF Incoming
<1>2. SUFFICES Only(inbox'[c]) /\ (Later1 => Unheard(c)')
  BY DEF Incoming
<1>3. c # d => (Unheard(c) <=> Unheard(c)')
  BY StepFacts DEF Mine, Yours, Unheard, Announced
<1>4. ASSUME NEW K, Comes(c, K), \A m \in K : m.kind # "Invite"
      PROVE  Only(inbox'[c]) /\ (Later1 => Early)
  <2>1. PICK o \in {0, 1} : Follow(inbox'[c], inbox[c], o, K)
    BY <1>4 DEF Comes
  <2>2. Only(inbox'[c]) /\ (Has(inbox'[c], "Invite") => Has(inbox[c], "Invite"))
    BY <1>1, <1>4, <2>1, FollowKind DEF Has
  <2> QED
    BY <2>2, Channels
<1>5. CASE ServiceKept /\ NewsOf(c)
  <2>1. PICK K : Comes(c, K) /\ \A m \in K : m.kind # "Invite"
    <3>1. \A ch : News("Reject", ch).kind # "Invite"
      BY DEF News, Msg
    <3>2. CASE Comes(c, {})
      <4>1. \A m \in {} : m.kind # "Invite"
        OBVIOUS
      <4> QED
        BY <3>2, <4>1
    <3>3. ASSUME NEW ch \in Chan, Comes(c, {News("Reject", ch)})
          PROVE  \E K : Comes(c, K) /\ \A m \in K : m.kind # "Invite"
      <4>1. \A m \in {News("Reject", ch)} : m.kind # "Invite"
        BY <3>1
      <4> QED
        BY <3>3, <4>1
    <3> QED
      BY <1>5, <3>2, <3>3 DEF NewsOf
  <2>2. Only(inbox'[c]) /\ (Later1 => Early)
    BY <1>4, <2>1
  <2>3. CASE c # d
    BY <1>1, <1>3, <2>2, <2>3
  <2>4. CASE c = d /\ Early
    <3>1. CASE form'[c] = form[c] /\ events'[c] = events[c]
      BY <1>1, <2>2, <2>4, <3>1 DEF Unheard, Announced
    <3>2. CASE Gets(c, "Invite") /\ Silent(Rest(c))
      <4>1. Took(c, {})
        BY <3>2, GotFacts, SilentMail, HandlerMail
      <4>2. 1 \in DOMAIN inbox[c] /\ inbox[c][1].kind = "Invite" /\ Callee(c, inbox[c][1].ch)
        BY <3>2, HeadMail DEF Founded
      <4>3. ~Has(inbox'[c], "Invite")
        <5>1. Has(inbox'[c], "Invite") =>
                \E i \in DOMAIN inbox[c] : i > 1 /\ inbox[c][i].kind = "Invite"
          BY <4>1, FollowKind DEF Took
        <5> QED
          BY <1>1, <4>2, <5>1
      <4>4. ~Later1
        BY <4>2, <4>3, Channels DEF Callee
      <4> QED
        BY <2>2, <4>4
    <3> QED
      BY <1>1, <2>4, <3>1, <3>2, UnheardOf
  <2> QED
    BY <2>2, <2>3, <2>4
<1>6. CASE Founds(d, c)
  <2>1. PICK K : Comes(c, K) /\ \A m \in K : m.kind # "Invite"
    <3>1. \A ch : Msg("createCb", ch, TRUE).kind # "Invite"
      BY DEF Msg
    <3> QED
      BY <1>6, <3>1 DEF Founds
  <2>2. c # d
    BY <1>6 DEF Founds
  <2> QED
    BY <1>1, <1>3, <1>4, <2>1, <2>2
<1>7. ~Joins(d, c)
  BY HeadMail, OtherInvited DEF Joins, Setup, Founded
<1>8. CASE Invites(d, c)
  <2>1. /\ Gets(d, "joinCb") /\ Setup(Got(d)) /\ Caller(d, Got(d).ch)
    BY <1>8 DEF Invites
  <2>2. c # d
    BY <2>1, OtherInvited
  <2>3. \A ch \in Chan : callee[ch] = NoClient
    <3>1. invitation[Got(d).ch] = "none" /\ Got(d).ch \in Chan
      BY <2>1, HeadMail DEF Chained, Caller
    <3> QED
      BY <3>1, InboxFacts DEF InOrder, OneCall
  <2>4. Early /\ ~Has(inbox[c], "Invite")
    BY <2>3 DEF Inv, MessagesFounded, Founded, Callee, Has
  <2>5. PICK K : Comes(c, K)
    BY <1>8, <2>2 DEF Invites
  <2>6. PICK o \in {0, 1} : Follow(inbox'[c], inbox[c], o, K)
    BY <2>5 DEF Comes
  <2>7. Only(inbox'[c])
    BY <2>4, <2>6, FollowFirst
  <2> QED
    BY <1>1, <1>3, <2>2, <2>4, <2>7
<1> QED
  BY <1>5, <1>6, <1>7, <1>8, Mail

\* The last element of a sequence that got longer, and where the others are in
\* one whose first was taken.
LEMMA Places ==
  ASSUME NEW T, NEW s \in Seq(T)
  PROVE  /\ DOMAIN s = 1..Len(s) /\ Len(s) \in Nat
         /\ \A m \in T :
              /\ DOMAIN Append(s, m) = 1..(Len(s) + 1)
              /\ \A i \in 1..Len(s) : Append(s, m)[i] = s[i]
              /\ Append(s, m)[Len(s) + 1] = m
         /\ s # <<>> =>
              /\ Head(s) = s[1] /\ Len(s) >= 1
              /\ DOMAIN Tail(s) = 1..(Len(s) - 1)
              /\ \A i \in 1..(Len(s) - 1) : Tail(s)[i] = s[i + 1]
OBVIOUS

\* Whoever calls, no channel is left for another call.
LEMMA NoDial ==
  ASSUME IsFiniteSet(Clients), Unused = {}, NEW c
  PROVE  ~Dialed(c)
<1> DEFINE All == Clients \X (1..MaxCalls)
           Calls == {r \in All : r[2] \in DOMAIN requests[r[1]] /\ requests[r[1]][r[2]].op = "call"}
<1>1. IsFiniteSet(1..MaxCalls)
  BY SignalingAssumption, FS_Interval
<1>2. IsFiniteSet(All)
  BY <1>1, FS_Product
<1>3. Calls \in SUBSET All
  OBVIOUS
<1> HIDE DEF All
<1>4. IsFiniteSet(Calls)
  BY <1>2, <1>3, FS_Subset
<1>5. Cardinality(Calls) \in Nat
  BY <1>4, FS_CardinalityType
<1>6. Cardinality(Unused) = 0
  BY FS_EmptySet
<1>7. ~(Cardinality(Unused) > Cardinality(Calls))
  BY <1>5, <1>6
<1> QED
  BY <1>7 DEF Dialed, Dial, Calls, All

\* Who has called, with the one channel.
LEMMA TheCaller ==
  ASSUME NEW d \in Clients, Turn(d), NEW c \in Clients, NEW ch, Caller(c, ch)
  PROVE  /\ ch \in Chan /\ Unused = {} /\ c \in Dialling /\ c \notin Dialled /\ Caller(c, ch)'
         /\ \A x \in Chan : x = ch
         /\ Outgoing(c) /\ Refused(c) /\ Chained(c) /\ ~Dialed(c) /\ ~OnInvitedCb(c)
<1> /\ KitInv /\ Inv /\ OneCall /\ Sides /\ Directed /\ NoClient \notin Clients
    /\ IsFiniteSet(Clients) /\ OwnTypeOK
  BY TurnFacts DEF Turn
<1>1. ch \in Chan /\ creator[ch] = c /\ \A x \in Chan : x = ch
  BY DEF Caller, OneCall
<1>2. Unused = {}
  BY <1>1 DEF Unused
<1>3. c \in Dialling /\ c \notin Dialled
  BY <1>1 DEF Sides, Directed
<1>4. Caller(c, ch)'
  BY <1>1, Channels DEF Caller
<1>5. Outgoing(c) /\ Refused(c) /\ Chained(c)
  BY <1>3 DEF Turn, BillInv
<1>6. ~OnInvitedCb(c)
  <2>1. events[c] \in Seq(Event)
    BY DEF OwnTypeOK
  <2> QED
    BY <1>5, <2>1, TailFacts DEF Outgoing, OnInvitedCb, Takes, TakesEvent
<1> QED
  BY <1>1, <1>2, <1>3, <1>4, <1>5, <1>6, NoDial

\* The caller's window that ended stays so.
LEMMA EndedStays ==
  ASSUME NEW d \in Clients, Turn(d), NEW c \in Clients, NEW ch, Caller(c, ch),
         form[c].end # "none"
  PROVE  form'[c].end # "none"
<1>1. ~Dialed(c) /\ ~OnInvitedCb(c) /\ KitInv /\ StepOf(d)
  BY TheCaller, TurnFacts
<1>2. CASE c = d
  BY <1>1, <1>2, StepShown DEF Shown
<1>3. CASE c # d
  BY <1>1, <1>3, StepFacts DEF Yours
<1> QED
  BY <1>2, <1>3

\* Nothing is set up any more for who was refused.
LEMMA NothingToSetUp ==
  ASSUME NEW d \in Clients, Turn(d), NEW c \in Clients, NEW ch, Caller(c, ch),
         invitation[ch] = "rejected", NEW e \in Clients, NEW kind, Gets(e, kind)
  PROVE  ~Setup(Got(e))
<1>1. Inv /\ Chained(e) /\ \A x \in Chan : x = ch
  BY TurnFacts, TheCaller
<1>2. 1 \in DOMAIN inbox[e] /\ Got(e) = inbox[e][1]
  BY <1>1, HeadMail
<1>3. ASSUME Setup(Got(e))
      PROVE  FALSE
  <2>1. Got(e).ch \in Chan /\ invitation[Got(e).ch] = "none"
    BY <1>1, <1>2, <1>3, SetupFacts DEF Chained, Caller
  <2> QED
    BY <1>1, <2>1
<1> QED
  BY <1>3

\* Once a refusal was taken in, nothing calls again.
LEMMA OverKept ==
  ASSUME NEW d \in Clients, Turn(d), NEW c \in Clients, Over(c)
  PROVE  Over(c)'
<1> /\ KitInv /\ Inv /\ Inv' /\ Sides /\ Directed /\ StepOf(d) /\ NoClient \notin Clients
    /\ inbox \in Inboxes /\ inbox' \in Inboxes /\ (UNCHANGED avVars \/ ComponentStep(d))
  BY TurnFacts
<1>1. PICK ch \in Chan : Caller(c, ch) /\ invitation[ch] = "rejected"
  BY DEF Over
<1>2. /\ Caller(c, ch)' /\ invitation'[ch] = "rejected" /\ Unused = {} /\ Outgoing(c)
      /\ c \in Dialling /\ \A x \in Chan : x = ch
  BY <1>1, TheCaller, Channels
<1>3. status[c] = "idle" /\ ~Has(inbox[c], "inviteCb")
  BY DEF Over
<1>4. status'[c] = "idle"
  <2>1. CASE c # d
    BY <1>3, <2>1, StepFacts DEF Mine
  <2>2. CASE UNCHANGED avVars
    BY <1>3, <2>2 DEF avVars, callVars
  <2>3. CASE c = d /\ ComponentStep(d)
    <3>1. ~(Gets(c, "joinCb") /\ Got(c).ok)
      BY <1>1, NothingToSetUp, HeadMail DEF Setup
    <3>2. ~Gets(c, "inviteCb")
      BY <1>3, HeadMail DEF Has
    <3>3. ~Gets(c, "acceptCb")
      BY <1>2, HeadMail DEF Outgoing, NoAnswer
    <3>4. ~Gets(c, "Invite")
      BY <1>2, NotInvited, HeadMail
    <3>5. waiting[c][1] # "accepted"
      BY <1>1, <1>2 DEF Inv, Backed, Answered, Party, Caller, Callee
    <3> QED
      BY <1>2, <1>3, <2>3, <3>1, <3>2, <3>3, <3>4, <3>5, StatusOf
  <2> QED
    BY <2>1, <2>2, <2>3
<1>5. ASSUME NEW K, Comes(c, K), \A m \in K : m.kind # "inviteCb"
      PROVE  ~Has(inbox'[c], "inviteCb")
  <2>1. PICK o \in {0, 1} : Follow(inbox'[c], inbox[c], o, K)
    BY <1>5 DEF Comes
  <2>2. ASSUME NEW kind \in {"inviteCb", "Invite"}, \A m \in K : m.kind # kind
        PROVE  Has(inbox'[c], kind) =>
                 \E i \in DOMAIN inbox[c] : i > o /\ inbox[c][i].kind = kind
    BY <2>1, <2>2, FollowKind
  <2> QED
    BY <1>3, <1>5, <2>2 DEF Has
<1>6. ~Has(inbox'[c], "inviteCb")
  <2>1. CASE Comes(c, {})
    <3>1. \A m \in {} : m.kind # "inviteCb"
      OBVIOUS
    <3> QED
      BY <1>5, <2>1, <3>1
  <2>2. ASSUME NEW x \in Chan, Comes(c, {News("Reject", x)})
        PROVE  ~Has(inbox'[c], "inviteCb")
    <3>1. \A m \in {News("Reject", x)} : m.kind # "inviteCb"
      BY DEF News, Msg
    <3> QED
      BY <1>5, <2>2, <3>1
  <2>3. ~Founds(d, c)
    BY <1>2 DEF Founds
  <2>4. ~Joins(d, c)
    BY <1>1, NothingToSetUp DEF Joins
  <2>5. ~Invites(d, c)
    BY <1>1, NothingToSetUp DEF Invites
  <2> QED
    BY <2>1, <2>2, <2>3, <2>4, <2>5, Mail DEF NewsOf
<1> QED
  BY <1>1, <1>2, <1>4, <1>6 DEF Over

\* The one refusal reaches the window as it is taken in, and is answered by the
\* one request of a window that had not ended.
LEMMA RefusedKept ==
  ASSUME NEW d \in Clients, Turn(d), NEW c \in Clients, c \in Dialling
  PROVE  Refused(c)'
<1> /\ KitInv /\ Inv /\ Inv' /\ Sides /\ Directed /\ StepOf(d) /\ NoClient \notin Clients
    /\ inbox \in Inboxes /\ inbox' \in Inboxes /\ OwnTypeOK
  BY TurnFacts
<1>1. Outgoing(c) /\ Refused(c) /\ Chained(c) /\ (Over(c) => Over(c)')
  BY OverKept DEF Turn, BillInv
<1>2. Over(c) /\ form[c].end # "none" => form'[c].end # "none"
  BY EndedStays DEF Over
<1>3. events[c] \in Seq(Event) /\ requests[c] \in Seq(Op)
  BY DEF KitInv, UiTypeOK, OwnTypeOK
<1>4. CASE c # d
  <2>1. Mine(c) /\ Yours(c)
    BY <1>4, StepFacts
  <2>2. events'[c] = events[c] /\ requests'[c] = requests[c]
    BY <2>1 DEF Mine, Yours
  <2> QED
    BY <1>1, <1>2, <2>2 DEF Refused
<1>5. CASE c = d
  <2>1. \A i \in DOMAIN events'[c] : events'[c][i].kind = "onUserReject" => Over(c)'
    <3>1. CASE events' = events
      BY <1>1, <3>1 DEF Refused
    <3>2. CASE HandlesEvent(c) /\ TakesEvent(c)
      <4>1. events[c] # <<>> /\ events'[c] = Tail(events[c])
        BY <3>2 DEF TakesEvent, OwnTypeOK
      <4> QED
        BY <1>1, <1>3, <4>1, TailFacts DEF Refused
    <3>3. ASSUME NEW kind \in EventKinds, NEW who \in Clients \cup {NoClient},
                 Tell(c, kind, who),
                 kind = "onUserReject" => Gets(c, "Reject") /\ handleRejected(c)
          PROVE  \A i \in DOMAIN events'[c] : events'[c][i].kind = "onUserReject" => Over(c)'
      <4> DEFINE m == [kind |-> kind, who |-> who]
      <4>1. m \in Event /\ m.kind = kind
        BY DEF Event
      <4>2. kind = "onUserReject" => Over(c)'
        <5> SUFFICES ASSUME kind = "onUserReject"
                     PROVE  Over(c)'
          OBVIOUS
        <5>1. Gets(c, "Reject") /\ handleRejected(c)
          BY <3>3
        <5>2. /\ 1 \in DOMAIN inbox[c] /\ inbox[c][1].kind = "Reject"
              /\ Got(c) = inbox[c][1]
          BY <5>1, HeadMail
        <5>3. /\ \E x \in Chan : Caller(c, x) /\ invitation[x] = "rejected"
              /\ \A j \in DOMAIN inbox[c] : inbox[c][j].kind = "inviteCb" => j < 1
          BY <1>1, <5>2 DEF Chained, Caller
        <5>4. \E x \in Chan : Caller(c, x)' /\ invitation'[x] = "rejected"
          BY <5>3, TheCaller, Channels
        <5>5. status'[c] = "idle" /\ Silent(Rest(c))
          BY <5>1 DEF handleRejected, Gets, OwnTypeOK
        <5>6. Follow(inbox'[c], inbox[c], 1, {})
          BY <5>1, <5>5, GotFacts, SilentMail, HandlerMail DEF Took
        <5>7. Has(inbox'[c], "inviteCb") =>
                \E i \in DOMAIN inbox[c] : i > 1 /\ inbox[c][i].kind = "inviteCb"
          <6>1. PICK K : K = {} /\ Follow(inbox'[c], inbox[c], 1, K)
            BY <5>6
          <6>2. \A x \in K : x.kind # "inviteCb"
            BY <6>1
          <6> QED
            BY <6>1, <6>2, FollowKind
        <5>8. DOMAIN inbox[c] \subseteq Nat
          BY DEF Inboxes
        <5>9. ~Has(inbox'[c], "inviteCb")
          BY <5>3, <5>7, <5>8
        <5> QED
          BY <5>4, <5>5, <5>9 DEF Over
      <4>4. events'[c] = Append(events[c], m)
        BY <3>3 DEF Tell, OwnTypeOK
      <4> HIDE DEF m
      <4>3. \A i \in DOMAIN Append(events[c], m) :
              \/ i \in DOMAIN events[c] /\ Append(events[c], m)[i] = events[c][i]
              \/ Append(events[c], m)[i] = m
        BY <1>3, <4>1, AppendFacts
      <4> QED
        BY <1>1, <4>1, <4>2, <4>3, <4>4 DEF Refused
    <3> QED
      BY <1>5, <3>1, <3>2, <3>3, EventsOf
  <2>2. /\ \A i \in DOMAIN requests'[c] :
             requests'[c][i].op = "reject" => Over(c)' /\ form'[c].end # "none"
        /\ \A i, j \in DOMAIN requests'[c] :
             requests'[c][i].op = "reject" /\ requests'[c][j].op = "reject" => i = j
    <3> DEFINE r == requests'[c]
               s == requests[c]
               Good1(q) == \A i \in DOMAIN q :
                             q[i].op = "reject" => Over(c)' /\ form'[c].end # "none"
               Good2(q) == \A i, j \in DOMAIN q : q[i].op = "reject" /\ q[j].op = "reject" => i = j
    <3> SUFFICES Good1(r) /\ Good2(r)
      OBVIOUS
    <3>1. Good1(s) /\ Good2(s)
      BY <1>1, <1>2 DEF Refused
    <3> HIDE DEF r, s
    <3>2. CASE r = s
      BY <3>1, <3>2
    <3>3. s \in Seq(Op)
      BY <1>3 DEF s
    <3>4. CASE s # <<>> /\ r = Tail(s)
      <4>1. /\ Len(s) \in Nat /\ DOMAIN s = 1..Len(s) /\ DOMAIN r = 1..(Len(s) - 1)
            /\ \A i \in 1..(Len(s) - 1) : r[i] = s[i + 1]
        BY <3>3, <3>4, Places
      <4>2. \A i \in DOMAIN r : i + 1 \in DOMAIN s /\ r[i] = s[i + 1]
        BY <4>1
      <4>3. Good1(r)
        BY <3>1, <4>2
      <4>4. \A i, j \in DOMAIN r : i + 1 = j + 1 => i = j
        BY <4>1
      <4>5. Good2(r)
        BY <3>1, <4>2, <4>4
      <4> QED
        BY <4>3, <4>5
    <3>5. ASSUME NEW op \in {"call", "accept", "reject", "hangup"},
                 NEW p \in Clients \cup {NoClient}, Grounds(c, op, p),
                 r = Append(s, [op |-> op, peer |-> p])
          PROVE  Good1(r) /\ Good2(r)
      <4> DEFINE m == [op |-> op, peer |-> p]
      <4>1. m \in Op /\ m.op = op
        BY DEF Op
      <4>2. op = "reject" => /\ OnUserRejectCb(c) /\ form[c].end = "none"
                             /\ form'[c].end # "none"
        <5>1. ~AcceptFails(c)
          BY <1>1, HeadMail DEF AcceptFails, Outgoing, NoAnswer
        <5> QED
          BY <1>1, <3>5, <5>1 DEF Grounds, Confirming, Outgoing
      <4>3. op = "reject" => Over(c)' /\ form'[c].end # "none"
        <5> SUFFICES ASSUME op = "reject"
                     PROVE  Over(c)'
          BY <4>2
        <5>1. events[c] # <<>> /\ Head(events[c]).kind = "onUserReject"
          BY <4>2 DEF OnUserRejectCb, Takes, TakesEvent
        <5>2. 1 \in DOMAIN events[c] /\ events[c][1].kind = "onUserReject"
          BY <1>3, <5>1, TailFacts
        <5> QED
          BY <1>1, <5>2 DEF Refused
      <4>4. op = "reject" => \A i \in DOMAIN s : s[i].op # "reject"
        BY <1>1, <4>2 DEF Refused, s
      <4>5. r = Append(s, m)
        BY <3>5
      <4> HIDE DEF m
      <4>6. /\ Len(s) \in Nat /\ DOMAIN s = 1..Len(s) /\ DOMAIN r = 1..(Len(s) + 1)
            /\ \A i \in 1..Len(s) : r[i] = s[i]
            /\ r[Len(s) + 1] = m
        BY <3>3, <4>1, <4>5, Places
      <4>7. \A i \in DOMAIN r :
              (i \in DOMAIN s /\ r[i] = s[i]) \/ (i = Len(s) + 1 /\ r[i] = m)
        BY <4>6
      <4>8. Good1(r)
        BY <3>1, <4>1, <4>3, <4>7
      <4>9. Good2(r)
        BY <3>1, <4>1, <4>4, <4>7
      <4> QED
        BY <4>8, <4>9
    <3>6. r = s \/ (s # <<>> /\ r = Tail(s))
          \/ \E op \in {"call", "accept", "reject", "hangup"}, p \in Clients \cup {NoClient} :
               r = Append(s, [op |-> op, peer |-> p]) /\ Grounds(c, op, p)
      BY <1>5, StepShown DEF Queued, r, s
    <3> QED
      BY <3>2, <3>4, <3>5, <3>6
  <2> QED
    BY <2>1, <2>2 DEF Refused
<1> QED
  BY <1>4, <1>5

\* Where a refusal writes nothing any more, it stays so.
LEMMA DeafKept ==
  ASSUME NEW d \in Clients, Turn(d), NEW c \in Clients, NEW ch, Caller(c, ch), Deaf(c)
  PROVE  Deaf(c)'
<1> KitInv /\ Inv /\ StepOf(d) /\ OwnTypeOK
  BY TurnFacts
<1>1. form[c].end # "none" => form'[c].end # "none"
  BY EndedStays
<1>2. events[c] \in Seq(Event) /\ requests[c] \in Seq(Op)
  BY DEF KitInv, UiTypeOK, OwnTypeOK
<1>3. CASE c # d
  BY <1>1, <1>3, StepFacts DEF Mine, Yours, Deaf
<1>4. CASE c = d
  <2>1. \A i \in DOMAIN requests'[c] : requests'[c][i].op # "reject"
    <3>1. CASE requests'[c] = requests[c]
      BY <3>1 DEF Deaf
    <3>2. CASE requests[c] # <<>> /\ requests'[c] = Tail(requests[c])
      BY <1>2, <3>2, TailFacts DEF Deaf
    <3>3. ASSUME NEW op \in {"call", "accept", "reject", "hangup"},
                 NEW p \in Clients \cup {NoClient}, Grounds(c, op, p),
                 requests'[c] = Append(requests[c], [op |-> op, peer |-> p])
          PROVE  \A i \in DOMAIN requests'[c] : requests'[c][i].op # "reject"
      <4> DEFINE m == [op |-> op, peer |-> p]
      <4>1. m \in Op /\ m.op = op
        BY DEF Op
      <4>2. op # "reject"
        <5> SUFFICES ASSUME op = "reject"
                     PROVE  FALSE
          OBVIOUS
        <5>1. Outgoing(c)
          BY TheCaller
        <5>2. ~AcceptFails(c)
          BY <5>1, HeadMail DEF AcceptFails, Outgoing, NoAnswer
        <5>3. OnUserRejectCb(c) /\ form[c].end = "none"
          BY <3>3, <5>1, <5>2 DEF Grounds, Confirming, Outgoing
        <5>4. events[c] # <<>> /\ Head(events[c]).kind = "onUserReject"
          BY <5>3 DEF OnUserRejectCb, Takes, TakesEvent
        <5>5. 1 \in DOMAIN events[c] /\ events[c][1].kind = "onUserReject"
          BY <1>2, <5>4, TailFacts
        <5>6. TimedOutFirst(events[c]) /\ DOMAIN events[c] = 1..Len(events[c])
          BY <1>2, <5>3 DEF Deaf
        <5> QED
          BY <5>5, <5>6 DEF TimedOutFirst
      <4>3. requests'[c] = Append(requests[c], m)
        BY <3>3
      <4> HIDE DEF m
      <4>4. \A i \in DOMAIN Append(requests[c], m) :
              \/ i \in DOMAIN requests[c] /\ Append(requests[c], m)[i] = requests[c][i]
              \/ Append(requests[c], m)[i] = m
        BY <1>2, <4>1, AppendFacts
      <4> QED
        BY <4>1, <4>2, <4>3, <4>4 DEF Deaf
    <3> QED
      BY <1>4, <3>1, <3>2, <3>3, StepShown DEF Queued
  <2>2. CASE form[c].end # "none"
    BY <1>1, <2>1, <2>2 DEF Deaf
  <2>3. CASE form[c].end = "none"
    <3> DEFINE s == events[c]
               r == events'[c]
    <3>1. TimedOutFirst(s)
      BY <2>3 DEF Deaf
    <3> HIDE DEF r, s
    <3>2. s \in Seq(Event)
      BY <1>2 DEF s
    <3>3. PICK i \in DOMAIN s :
            /\ s[i].kind = "onCallingTimeOut"
            /\ \A j \in DOMAIN s : s[j].kind = "onUserReject" => i < j
      BY <3>1 DEF TimedOutFirst
    <3>4. DOMAIN s = 1..Len(s) /\ Len(s) \in Nat
      BY <3>2, Places
    <3>5. form'[c].end # "none" \/ TimedOutFirst(r)
      <4>1. CASE events' = events
        BY <3>1, <4>1 DEF r, s
      <4>2. CASE HandlesEvent(c) /\ TakesEvent(c)
        <5>1. s # <<>> /\ r = Tail(s)
          BY <4>2 DEF TakesEvent, OwnTypeOK, r, s
        <5>2. CASE i = 1
          <6>1. Head(events[c]).kind = "onCallingTimeOut"
            BY <3>2, <3>3, <5>1, <5>2, TailFacts DEF s
          <6> QED
            BY <4>2, <6>1, HandlesEventShown
        <5>3. CASE i # 1
          <6>1. /\ DOMAIN r = 1..(Len(s) - 1)
                /\ \A j \in 1..(Len(s) - 1) : r[j] = s[j + 1]
            BY <3>2, <5>1, Places
          <6>2. \A j \in DOMAIN r : j + 1 \in DOMAIN s /\ r[j] = s[j + 1]
            BY <3>4, <6>1
          <6>3. i - 1 \in DOMAIN r /\ r[i - 1] = s[i] /\ (i - 1) + 1 = i
            BY <3>4, <5>3, <6>1
          <6>4. \A j \in DOMAIN r : i < j + 1 => i - 1 < j
            BY <3>4, <6>1
          <6>5. \A j \in DOMAIN r : r[j].kind = "onUserReject" => i - 1 < j
            BY <3>3, <6>2, <6>4
          <6> QED
            BY <3>3, <6>3, <6>5 DEF TimedOutFirst
        <5> QED
          BY <5>2, <5>3
      <4>3. ASSUME NEW kind \in EventKinds, NEW who \in Clients \cup {NoClient},
                   Tell(c, kind, who)
            PROVE  TimedOutFirst(r)
        <5> DEFINE m == [kind |-> kind, who |-> who]
        <5>1. m \in Event
          BY DEF Event
        <5>2. r = Append(s, m)
          BY <4>3 DEF Tell, OwnTypeOK, r, s
        <5> HIDE DEF m
        <5>3. /\ DOMAIN r = 1..(Len(s) + 1)
              /\ \A j \in 1..Len(s) : r[j] = s[j]
          BY <3>2, <5>1, <5>2, Places
        <5>4. \A j \in DOMAIN r : (j \in DOMAIN s /\ r[j] = s[j]) \/ i < j
          BY <3>4, <5>3
        <5>5. i \in DOMAIN r /\ r[i] = s[i]
          BY <3>4, <5>3
        <5> QED
          BY <3>3, <5>4, <5>5 DEF TimedOutFirst
      <4> QED
        BY <1>4, <4>1, <4>2, <4>3, EventsOf
    <3> QED
      BY <2>1, <3>5 DEF Deaf, r
  <2> QED
    BY <2>2, <2>3
<1> QED
  BY <1>3, <1>4

\* Where no bill can follow, none can follow later.
LEMMA NoMoreKept ==
  ASSUME NEW d \in Clients, Turn(d), NEW c \in Clients, NEW ch, Caller(c, ch), NoMore(c)
  PROVE  NoMore(c)'
<1> KitInv /\ Inv /\ StepOf(d) /\ OwnTypeOK /\ (UNCHANGED avVars \/ ComponentStep(d))
  BY TurnFacts
<1>1. /\ Over(c) => Over(c)'
      /\ Deaf(c) => Deaf(c)'
  BY OverKept, DeafKept
<1>2. /\ master'[c] => master[c]
      /\ timer'[c] => timer[c]
      /\ hurry[c] => hurry'[c] \/ ~master'[c]
  <2>1. CASE c # d
    BY <2>1, StepFacts DEF Mine
  <2>2. CASE UNCHANGED avVars
    BY <2>2 DEF avVars, callVars
  <2>3. CASE c = d /\ ComponentStep(d)
    <3>1. Unused = {}
      BY TheCaller
    <3> QED
      BY <2>3, <3>1, CalmOf
  <2> QED
    BY <2>1, <2>2, <2>3
<1> QED
  BY <1>1, <1>2 DEF NoMore

\* Who is invited while busy would write a bill: the only invitation finds him
\* idle.
LEMMA NotBusy ==
  ASSUME NEW d \in Clients, Turn(d), handleInvited(d)
  PROVE  status[d] = "idle"
<1> KitInv /\ Inv /\ Sides /\ Directed /\ NoClient \notin Clients
  BY TurnFacts
<1>1. Gets(d, "Invite")
  BY DEF handleInvited
<1>2. /\ 1 \in DOMAIN inbox[d] /\ inbox[d][1].kind = "Invite"
      /\ Callee(d, inbox[d][1].ch)
  BY <1>1, HeadMail DEF Founded
<1>3. d \in Dialled
  BY <1>2 DEF Callee, Sides
<1>4. Incoming(d)
  BY <1>3 DEF Turn, BillInv
<1>5. Unheard(d)
  BY <1>2, <1>4 DEF Incoming, Has
<1>6. Windowless(d)
  BY DEF KitInv
<1> QED
  BY <1>5, <1>6 DEF Windowless, Unheard, Before, Untouched

\* Who writes a bill could not have been known to have written one, and is now.
LEMMA Writes ==
  ASSUME NEW d \in Clients, Turn(d), bills' # bills, NEW ch, Caller(d, ch)
  PROVE  /\ ~NoMore(d) /\ NoMore(d)'
         /\ \E why \in Reasons : SendBill(created[d], d, why)
<1> /\ KitInv /\ Inv /\ StepOf(d) /\ OwnTypeOK
    /\ Refused(d) /\ (Over(d) => Over(d)')
  BY TurnFacts, TheCaller, OverKept
<1>1. events[d] \in Seq(Event) /\ requests[d] \in Seq(Op)
  BY DEF KitInv, UiTypeOK, OwnTypeOK
<1>2. ASSUME Timer(d), CallingTimeout(d), status[d] = "calling", master[d]
      PROVE  ~NoMore(d) /\ NoMore(d)'
  <2>1. ~Over(d)
    BY <1>2 DEF Over
  <2>2. timer[d] /\ hurry'[d] /\ ~timer'[d]
    BY <1>2 DEF CallingTimeout, OwnTypeOK
  <2>3. events'[d] = Append(events[d], [kind |-> "onCallingTimeOut", who |-> NoClient])
    BY <1>2 DEF CallingTimeout, Tell, OwnTypeOK
  <2>4. /\ \A i \in DOMAIN requests'[d] : requests'[d][i].op # "reject"
        /\ \A i \in DOMAIN events[d] : events[d][i].kind # "onUserReject"
    BY <1>2, <2>1 DEF Refused, Timer, uiVars
  <2>5. TimedOutFirst(events'[d])
    <3> DEFINE m == [kind |-> "onCallingTimeOut", who |-> NoClient]
    <3>1. m \in Event /\ m.kind = "onCallingTimeOut"
      BY DEF Event, EventKinds
    <3> HIDE DEF m
    <3>2. events'[d] = Append(events[d], m)
      BY <2>3 DEF m
    <3>3. /\ Len(events[d]) \in Nat /\ DOMAIN events[d] = 1..Len(events[d])
          /\ DOMAIN events'[d] = 1..(Len(events[d]) + 1)
          /\ \A i \in 1..Len(events[d]) : events'[d][i] = events[d][i]
          /\ events'[d][Len(events[d]) + 1] = m
      BY <1>1, <3>1, <3>2, Places
    <3>4. \A j \in DOMAIN events'[d] : events'[d][j].kind # "onUserReject"
      <4> SUFFICES ASSUME NEW j \in DOMAIN events'[d]
                   PROVE  events'[d][j].kind # "onUserReject"
        OBVIOUS
      <4>1. CASE j \in DOMAIN events[d]
        BY <2>4, <3>3, <4>1
      <4>2. CASE j = Len(events[d]) + 1
        BY <3>1, <3>3, <4>2
      <4> QED
        BY <3>3, <4>1, <4>2
    <3>5. Len(events[d]) + 1 \in DOMAIN events'[d]
      BY <3>3
    <3> QED
      BY <3>1, <3>3, <3>4, <3>5 DEF TimedOutFirst
  <2> QED
    BY <1>2, <2>1, <2>2, <2>4, <2>5 DEF NoMore, Deaf
<1>3. ASSUME RunsReject(d), reject(d), master[d]
      PROVE  ~NoMore(d) /\ NoMore(d)'
  <2>1. /\ requests[d] # <<>> /\ Head(requests[d]).op = "reject"
        /\ requests'[d] = Tail(requests[d]) /\ form' = form
    BY <1>3 DEF RunsReject, Runs, KitInv, UiTypeOK
  <2>2. 1 \in DOMAIN requests[d] /\ requests[d][1].op = "reject"
    BY <1>1, <2>1, TailFacts
  <2>3. Over(d) /\ form[d].end # "none"
    BY <2>2 DEF Refused
  <2>4. \A i \in DOMAIN requests'[d] : requests'[d][i].op # "reject"
    <3>1. /\ Len(requests[d]) \in Nat /\ DOMAIN requests[d] = 1..Len(requests[d])
          /\ DOMAIN requests'[d] = 1..(Len(requests[d]) - 1)
          /\ \A i \in 1..(Len(requests[d]) - 1) : requests'[d][i] = requests[d][i + 1]
      BY <1>1, <2>1, Places
    <3>2. \A i \in DOMAIN requests'[d] :
            /\ i + 1 \in DOMAIN requests[d] /\ i + 1 # 1
            /\ requests'[d][i] = requests[d][i + 1]
      BY <3>1
    <3> QED
      BY <2>2, <3>2 DEF Refused
  <2>5. ~Deaf(d) /\ Deaf(d)'
    BY <2>1, <2>2, <2>3, <2>4 DEF Deaf
  <2> QED
    BY <1>3, <2>3, <2>5 DEF NoMore
<1>4. ASSUME hangup(d), status[d] # "idle", ~hurry[d], master[d]
      PROVE  ~NoMore(d) /\ NoMore(d)'
  <2>1. ~Over(d)
    BY <1>4 DEF Over
  <2>2. ~master'[d]
    BY <1>4 DEF hangup, OwnTypeOK
  <2> QED
    BY <1>4, <2>1, <2>2 DEF NoMore
<1> QED
  BY <1>2, <1>3, <1>4, BillsOf, NotBusy

\* One bill.
LEMMA BilledKept ==
  ASSUME NEW d \in Clients, Turn(d), NEW ch \in Chan
  PROVE  Billed(ch)'
<1> /\ KitInv /\ Inv /\ Inv' /\ Sides /\ StepOf(d) /\ OwnTypeOK /\ Billed(ch)
  BY TurnFacts DEF Turn, BillInv
<1> ch \in ChanId /\ ch # NoChan /\ NoChan \in ChanId
  BY SignalingAssumption DEF Chan, ChanId, NoChan
<1>1. CASE bills'[ch] = bills[ch]
  <2>1. ASSUME NEW c \in Clients, Caller(c, ch), NoMore(c)
        PROVE  Caller(c, ch)' /\ NoMore(c)'
    BY <2>1, TheCaller, NoMoreKept
  <2> QED
    BY <1>1, <2>1 DEF Billed
<1>2. CASE bills'[ch] # bills[ch]
  <2>1. PICK why \in Reasons : SendBill(created[d], d, why)
    BY <1>2, BillsOf, NotBusy
  <2>2. created[d] = ch
    BY <1>2, <2>1 DEF SendBill, OwnTypeOK
  <2>3. Caller(d, ch)
    BY <2>2 DEF Sides
  <2>4. ~NoMore(d) /\ NoMore(d)' /\ Caller(d, ch)'
    BY <1>2, <2>3, Writes, TheCaller
  <2>5. bills[ch] = <<>>
    BY <2>3, <2>4 DEF Billed, Caller
  <2>6. bills'[ch] = Append(<<>>, [by |-> d, why |-> why])
    BY <2>1, <2>2, <2>5 DEF SendBill, OwnTypeOK
  <2>7. Len(bills'[ch]) = 1
    BY <2>6
  <2> QED
    BY <2>4, <2>7 DEF Billed
<1> QED
  BY <1>1, <1>2

-----------------------------------------------------------------------------
(* One bill.                                                               *)

\* At first nobody called.
LEMMA BillInitially ==
  ASSUME KitInit
  PROVE  BillInv
<1> NoClient \notin Clients
  BY SignalingAssumption
<1>1. Sides
  <2>1. /\ creator = [ch \in Chan |-> NoClient] /\ callee = [ch \in Chan |-> NoClient]
        /\ invitation = [ch \in Chan |-> "none"]
    BY DEF KitInit, Init, SvcInit
  <2>2. /\ to = [c \in Clients |-> NoClient] /\ created = [c \in Clients |-> NoChan]
        /\ requests = [c \in Clients |-> <<>>]
    BY DEF KitInit, Init
  <2> QED
    BY <2>1, <2>2 DEF Sides
<1>2. ASSUME NEW c \in Clients
      PROVE  Outgoing(c) /\ Refused(c) /\ Incoming(c) /\ Chained(c)
  <2>1. /\ inbox[c] = <<>> /\ events[c] = <<>> /\ requests[c] = <<>> /\ form[c] = NoForm
        /\ ghost[c] = NoForm /\ waiting[c] = Free
    BY DEF KitInit, Init, SvcInit
  <2>2. Outgoing(c)
    BY <2>1 DEF Outgoing, NoAnswer, NoForm, Free
  <2>3. Refused(c) /\ Chained(c)
    BY <2>1 DEF Refused, Chained
  <2>4. Incoming(c)
    BY <2>1 DEF Incoming, Unheard, Announced
  <2> QED
    BY <2>2, <2>3, <2>4
<1>3. \A ch \in Chan : Billed(ch)
  BY DEF KitInit, Init, Billed, ChanId
<1> QED
  BY <1>1, <1>2, <1>3 DEF BillInv

\* And it stays so.
LEMMA BillStep ==
  ASSUME KitInv, Inv', BillInv, Directed, OneCall, IsFiniteSet(Clients), [KitNext]_vars
  PROVE  BillInv'
<1>1. CASE UNCHANGED vars
  <2> USE <1>1 DEF vars, avVars, uiVars, svcVars, callVars, chanVars, tokenVars
  <2>1. Sides'
    BY DEF BillInv, Sides, Caller
  <2>2. ASSUME NEW c \in Clients
        PROVE  /\ Outgoing(c) => Outgoing(c)'
               /\ Refused(c) => Refused(c)'
               /\ Incoming(c) => Incoming(c)'
               /\ Chained(c) => Chained(c)'
               /\ NoMore(c) => NoMore(c)'
    <3>1. Over(c) => Over(c)'
      BY DEF Over, Caller
    <3>2. Outgoing(c) => Outgoing(c)'
      BY DEF Outgoing, NoAnswer
    <3>3. Refused(c) => Refused(c)'
      BY <3>1 DEF Refused
    <3>4. Incoming(c) => Incoming(c)'
      BY DEF Incoming, Unheard, Announced
    <3>5. Chained(c) => Chained(c)'
      BY DEF Chained, Caller
    <3>6. NoMore(c) => NoMore(c)'
      BY <3>1 DEF NoMore, Deaf
    <3> QED
      BY <3>2, <3>3, <3>4, <3>5, <3>6
  <2>3. ASSUME NEW ch \in Chan, Billed(ch)
        PROVE  Billed(ch)'
    BY <2>2, <2>3 DEF Billed, Caller
  <2> QED
    BY <2>1, <2>2, <2>3 DEF BillInv
<1>2. CASE KitNext
  <2>1. PICK d \in Clients : StepOf(d)
    BY <1>2 DEF KitNext, StepOf
  <2>2. Turn(d)
    BY <2>1 DEF Turn
  <2>3. ASSUME NEW c \in Clients
        PROVE  /\ c \in Dialling => Outgoing(c)' /\ Refused(c)'
               /\ c \in Dialled => Incoming(c)'
               /\ Chained(c)'
    <3>1. c \in Dialling => Outgoing(c)'
      BY <2>2, OutgoingKept
    <3>2. c \in Dialling => Refused(c)'
      BY <2>2, RefusedKept
    <3> QED
      BY <2>2, <3>1, <3>2, IncomingKept, ChainedKept
  <2> QED
    BY <2>2, <2>3, SidesKept, BilledKept DEF BillInv
<1> QED
  BY <1>1, <1>2

\* One call, one bill: whoever hangs up, refuses or answers on another device,
\* and whenever the waiting timer fires, the only call is written into the
\* session once, provided that nobody who is called calls.
THEOREM OneCallOneBill ==
  ASSUME MaxCalls <= 1, Directed, IsFiniteSet(Clients)
  PROVE  KitSpec => []OneBill
<1>1. OneCall
  BY SignalingAssumption DEF Chan, OneCall
<1>2. KitInit => BillInv
  BY BillInitially
<1>3. KitInv /\ KitInv' /\ BillInv /\ [KitNext]_vars => BillInv'
  <2>1. KitInv' => Inv'
    BY DEF KitInv
  <2> QED
    BY <1>1, <2>1, BillStep
<1>4. BillInv => OneBill
  <2> SUFFICES ASSUME BillInv, NEW ch \in Chan
               PROVE  Len(bills[ch]) <= 1
    BY DEF OneBill
  <2>1. bills[ch] = <<>> \/ Len(bills[ch]) = 1
    BY DEF BillInv, Billed
  <2>2. CASE bills[ch] = <<>>
    BY <2>2
  <2>3. CASE Len(bills[ch]) = 1
    BY <2>3
  <2> QED
    BY <2>1, <2>2, <2>3
<1> QED
  BY <1>2, <1>3, <1>4, KitInvariance, PTL DEF KitSpec

-----------------------------------------------------------------------------
(* A bill for the one call if it is taken back, if users and timer wait    *)
(* for what was asked before.                                              *)
(*                                                                         *)
(* Who takes it back writes the bill, unless the timer fired before: then  *)
(* the timer did.  It did so only if the component had been told of the    *)
(* channel by then, and it may have fired before a channel was asked for.  *)

NoCall == \A ch \in Chan : creator[ch] = NoClient

Wants(s, op) == \E i \in DOMAIN s : s[i].op = op

\* Nobody has heard of c.
Only(s, kinds) == \A i \in DOMAIN s : s[i].kind \in kinds

Unreached(c) ==
  /\ Only(inbox[c], {"createCb", "closeCb"})
  /\ Only(events[c], {"onCalling", "onCallingTimeOut"})
  /\ \A i \in DOMAIN requests[c] : requests[c][i].op \in {"call", "hangup"}
  /\ form[c].view # "confirm" /\ ghost[c].view # "confirm" /\ ~left[c]

\* A call that failed is hung up by the window that hears of its timeout ...
Marked(c) ==
  hurry[c] => /\ status[c] = "calling" /\ ~Has(inbox[c], "closeCb")
              /\ \/ Wants(requests[c], "hangup")
                 \/ Has(events[c], "onCallingTimeOut") /\ form[c].end = "none"

\* ... if it has not ended: then it has asked for that already ...
Failing(c) ==
  status[c] = "calling" =>
    Has(inbox[c], "closeCb") \/ Wants(requests[c], "hangup") \/ form[c].end = "none"

\* ... and the next call is asked for after that.
Afresh(c) ==
  Wants(requests[c], "call") =>
    /\ Len(requests[c]) = 1 /\ events[c] = <<>> /\ form[c].end = "none"
    /\ ~Has(inbox[c], "closeCb") /\ ~hurry[c]

Prior(c) == Unreached(c) /\ Marked(c) /\ Failing(c) /\ Afresh(c)

\* The channel is known as soon as it is joined, and forgotten only when the
\* call is given up; who goes by the mark of the timer has a bill of the timer.
Joined(c) == \E i \in DOMAIN inbox[c] : Setup(inbox[c][i]) /\ inbox[c][i].kind = "joinCb"

Placed(c, ch) ==
  /\ Has(inbox[c], "closeCb") => ~master[c]
  /\ master[c] /\ (Joined(c) \/ invitation[ch] # "none") => created[c] = ch
  /\ master[c] /\ hurry[c] =>
       bills[ch] # <<>> \/ (invitation[ch] = "none" /\ NoSetup(inbox[c]))

TakenBackInv ==
  /\ NoCall => \A c \in Clients : Prior(c)
  /\ \A c \in Clients, ch \in Chan : Caller(c, ch) => Placed(c, ch)
  /\ \A ch \in Chan : invitation[ch] = "cancelled" => bills[ch] # <<>>

-----------------------------------------------------------------------------
(* Who is told what about its own requests.                                *)

Grave(m) == m.kind \in {"closeCb", "rejectCb", "leaveCb"} \/ (m.kind = "joinCb" /\ ~m.ok)
Graves   == {m \in Message : Grave(m)}

\* Nothing in s is one of these.
Clear(s, G) == \A i \in DOMAIN s : s[i] \notin G

\* A message of another kind, or to others.
LEMMA ClearKept ==
  ASSUME NEW q \in Inboxes, NEW S, NEW m \in Message, NEW c \in Clients, NEW G, Clear(q[c], G),
         c \notin S \/ m \notin G
  PROVE  Push(q, S, m) \in Inboxes /\ Clear(Push(q, S, m)[c], G)
<1>1. CASE c \notin S
  BY <1>1, PushAtEnd
<1>2. CASE c \in S
  <2>1. Push(q, S, m)[c] = Append(q[c], m) /\ q[c] \in Seq(Message)
    BY <1>2, PushAtEnd
  <2>2. \A i \in DOMAIN Append(q[c], m) :
          (i \in DOMAIN q[c] /\ Append(q[c], m)[i] = q[c][i]) \/ Append(q[c], m)[i] = m
    BY <2>1, AppendFacts
  <2> QED
    BY <1>2, <2>1, <2>2, PushAtEnd DEF Clear
<1> QED
  BY <1>1, <1>2

\* What is said of other things.
LEMMA LightMessages ==
  /\ \A kind \in Answer, ch \in ChanId, ok \in BOOLEAN :
       /\ Msg(kind, ch, ok) \in Message
       /\ kind \in {"createCb", "inviteCb", "acceptCb"} \/ (kind = "joinCb" /\ ok)
            => Msg(kind, ch, ok) \notin Graves
  /\ \A kind \in Notice, ch \in Chan :
       News(kind, ch) \in Message /\ News(kind, ch) \notin Graves
BY MsgIsMessage DEF News, Msg, Notice, Graves, Grave

\* An answer that weighs less, ...
LEMMA LightAnswerClear ==
  ASSUME NEW G \in SUBSET Graves, NEW q \in Inboxes, NEW S, NEW c \in Clients, Clear(q[c], G),
         NEW kind \in Answer, NEW ch \in ChanId, NEW ok \in BOOLEAN,
         kind \in {"createCb", "inviteCb", "acceptCb"} \/ (kind = "joinCb" /\ ok) \/ c \notin S
  PROVE  /\ Push(q, S, Msg(kind, ch, ok)) \in Inboxes
         /\ Clear(Push(q, S, Msg(kind, ch, ok))[c], G)
BY ClearKept, LightMessages

\* ... and news.
LEMMA NewsClear ==
  ASSUME NEW G \in SUBSET Graves, NEW q \in Inboxes, NEW S, NEW c \in Clients, Clear(q[c], G),
         NEW kind \in Notice, NEW ch \in Chan
  PROVE  /\ Push(q, S, News(kind, ch)) \in Inboxes
         /\ Clear(Push(q, S, News(kind, ch))[c], G)
BY ClearKept, LightMessages

\* What is asked of the service that cannot end anything.
LEMMA AskingClears ==
  ASSUME SvcTypeOK, NEW G \in SUBSET Graves, NEW q \in Inboxes, NEW c \in Clients,
         NEW d \in Clients, Clear(q[c], G), NEW ch \in ChanId, NEW p,
         \/ SignalingCreate(q, d) \/ SignalingInvite(q, d, ch, p)
         \/ SignalingControl(q, ch, p) \/ Silent(q)
  PROVE  Clear(inbox'[c], G)
<1> USE DEF ChanId, Answer, Notice
<1>1. CASE SignalingCreate(q, d)
  <2>1. \E x \in ChanId, ok \in BOOLEAN : inbox' = Push(q, {d}, Msg("createCb", x, ok))
    BY <1>1 DEF SignalingCreate, Unused
  <2> QED
    BY <2>1, LightAnswerClear
<1>3. CASE SignalingInvite(q, d, ch, p)
  <2>1. \/ inbox' = Push(q, {d}, Msg("inviteCb", ch, FALSE))
        \/ /\ ch \in Chan
           /\ inbox' = Push(Push(q, {d}, Msg("inviteCb", ch, TRUE)), {p}, News("Invite", ch))
    BY <1>3 DEF SignalingInvite, Verdicts
  <2>2. /\ Push(q, {d}, Msg("inviteCb", ch, TRUE)) \in Inboxes
        /\ Clear(Push(q, {d}, Msg("inviteCb", ch, TRUE))[c], G)
        /\ Clear(Push(q, {d}, Msg("inviteCb", ch, FALSE))[c], G)
    BY LightAnswerClear
  <2> QED
    BY <2>1, <2>2, NewsClear
<1>4. CASE SignalingControl(q, ch, p)
  <2>1. inbox' = q \/ (ch \in Chan /\ inbox' = Push(q, {p}, News("Control", ch)))
    BY <1>4 DEF SignalingControl
  <2> QED
    BY <2>1, NewsClear
<1>5. CASE Silent(q)
  BY <1>5 DEF Silent
<1> QED
  BY <1>1, <1>3, <1>4, <1>5

\* To join: it fails only if the channel is closed or the service fails it.
LEMMA JoiningClears ==
  ASSUME SvcTypeOK, NEW G \in SUBSET Graves, NEW q \in Inboxes, NEW c \in Clients,
         NEW d \in Clients, Clear(q[c], G), NEW ch \in ChanId, SignalingJoin(q, d, ch),
         c # d \/ (\A m \in G : m.kind # "joinCb") \/ (MaxFaults = 0 /\ ch \in Chan /\ open[ch])
  PROVE  Clear(inbox'[c], G)
<1> USE DEF ChanId, Answer, Notice
<1> DEFINE failed == Msg("joinCb", ch, FALSE)
           joins  == Msg("joinCb", ch, TRUE)
<1>1. \/ inbox' = Push(q, {d}, failed) /\ ~(MaxFaults = 0 /\ ch \in Chan /\ open[ch])
      \/ ch \in Chan /\ inbox' = Push(Push(q, {d}, joins), members[ch] \ {d}, News("Join", ch))
  <2> DEFINE legal == ch \in Chan /\ open[ch]
  <2>1. PICK ok \in Verdicts(legal) :
          \/ ok /\ inbox' = Push(Push(q, {d}, joins), members[ch] \ {d}, News("Join", ch))
          \/ ~ok /\ inbox' = Push(q, {d}, failed)
    BY DEF SignalingJoin
  <2>2. legal \in BOOLEAN
    BY DEF SvcTypeOK
  <2>3. (ok => ch \in Chan) /\ ok \in BOOLEAN
    BY <2>2, Legal
  <2>4. ~ok => ~(MaxFaults = 0 /\ legal)
    <3>1. faults \in 0..MaxFaults
      BY DEF SvcTypeOK
    <3>2. MaxFaults = 0 => ~(faults < MaxFaults)
      BY <3>1
    <3> QED
      BY <3>2 DEF Verdicts
  <2> QED
    BY <2>1, <2>3, <2>4
<1>2. Push(q, {d}, joins) \in Inboxes /\ Clear(Push(q, {d}, joins)[c], G)
  BY LightAnswerClear
<1>3. ASSUME c # d \/ \A m \in G : m.kind # "joinCb"
      PROVE  Clear(Push(q, {d}, failed)[c], G)
  <2>1. failed \in Message /\ failed.kind = "joinCb"
    BY LightMessages DEF Msg
  <2> QED
    BY <1>3, <2>1, ClearKept
<1> QED
  BY <1>1, <1>2, <1>3, NewsClear

\* What is answered to an invitation, here or on another device; who refuses is told
\* of that.
LEMMA AnsweringClears ==
  ASSUME SvcTypeOK, NEW G \in SUBSET Graves, NEW q \in Inboxes, NEW c \in Clients,
         NEW d \in Clients, Clear(q[c], G),
         NEW ch \in ChanId, NEW notice \in {"Reject", "Busy"}, NEW answered \in BOOLEAN,
         NEW accepts \in BOOLEAN,
         \/ SignalingAccept(q, d, ch)
         \/ /\ SignalingReject(q, d, ch, notice, answered)
            /\ c # d \/ ~answered \/ \A m \in G : m.kind # "rejectCb"
         \/ ch \in Chan /\ q = inbox /\ OtherDeviceAnswers(d, ch, accepts)
  PROVE  Clear(inbox'[c], G)
<1> USE DEF ChanId, Answer, Notice
<1>1. ASSUME NEW r \in Inboxes, Clear(r[c], G), ch \in Chan, NEW s \in AcceptNews(r, d, ch)
      PROVE  Clear(s[c], G)
  <2>1. \/ s = Push(Push(r, {creator[ch]}, News("Accept", ch)), members[ch] \ {d},
                    News("Join", ch))
        \/ s = Push(Push(r, members[ch] \ {d}, News("Join", ch)), {creator[ch]},
                    News("Accept", ch))
    BY DEF AcceptNews
  <2>2. ASSUME NEW S, NEW kind \in {"Accept", "Join"}
        PROVE  Push(r, S, News(kind, ch)) \in Inboxes /\ Clear(Push(r, S, News(kind, ch))[c], G)
    BY <1>1, NewsClear
  <2>3. ASSUME NEW S, NEW S2, NEW kind \in {"Accept", "Join"}, NEW kind2 \in {"Accept", "Join"}
        PROVE  Clear(Push(Push(r, S, News(kind, ch)), S2, News(kind2, ch))[c], G)
    BY <1>1, <2>2, NewsClear
  <2> QED
    BY <2>1, <2>3
<1>2. CASE SignalingAccept(q, d, ch)
  <2>1. \/ inbox' = Push(q, {d}, Msg("acceptCb", ch, FALSE))
        \/ ch \in Chan /\ inbox' \in AcceptNews(Push(q, {d}, Msg("acceptCb", ch, TRUE)), d, ch)
    BY <1>2 DEF SignalingAccept, Verdicts, Pending
  <2>2. /\ Push(q, {d}, Msg("acceptCb", ch, TRUE)) \in Inboxes
        /\ Clear(Push(q, {d}, Msg("acceptCb", ch, TRUE))[c], G)
        /\ Clear(Push(q, {d}, Msg("acceptCb", ch, FALSE))[c], G)
    BY LightAnswerClear
  <2> QED
    BY <1>1, <2>1, <2>2
<1>3. CASE /\ SignalingReject(q, d, ch, notice, answered)
           /\ c # d \/ ~answered \/ \A m \in G : m.kind # "rejectCb"
  <2>1. \E r \in {q} \cup (IF answered THEN {Push(q, {d}, Msg("rejectCb", ch, TRUE)),
                                             Push(q, {d}, Msg("rejectCb", ch, FALSE))} ELSE {}) :
          inbox' = r \/ (ch \in Chan /\ inbox' = Push(r, {creator[ch]}, News(notice, ch)))
    BY <1>3 DEF SignalingReject, Verdicts, Pending
  <2>2. ASSUME answered, NEW ok \in BOOLEAN
        PROVE  /\ Push(q, {d}, Msg("rejectCb", ch, ok)) \in Inboxes
               /\ Clear(Push(q, {d}, Msg("rejectCb", ch, ok))[c], G)
    <3>1. Msg("rejectCb", ch, ok) \in Message /\ Msg("rejectCb", ch, ok).kind = "rejectCb"
      BY LightMessages DEF Msg
    <3> QED
      BY <1>3, <2>2, <3>1, ClearKept
  <2> QED
    BY <2>1, <2>2, NewsClear
<1>4. CASE ch \in Chan /\ q = inbox /\ OtherDeviceAnswers(d, ch, accepts)
  <2>1. \A kind \in {"SyncAccept", "SyncReject"} :
          /\ Push(q, {d}, News(kind, ch)) \in Inboxes
          /\ Clear(Push(q, {d}, News(kind, ch))[c], G)
    BY <1>4, NewsClear
  <2>2. \/ inbox' \in AcceptNews(Push(q, {d}, News("SyncAccept", ch)), d, ch)
        \/ inbox' = Push(Push(q, {d}, News("SyncReject", ch)), {creator[ch]}, News("Reject", ch))
    BY <1>4 DEF OtherDeviceAnswers
  <2> QED
    BY <1>1, <1>4, <2>1, <2>2, NewsClear
<1> QED
  BY <1>2, <1>3, <1>4

\* The answer to a close is told to who asked.
LEMMA ClosingClears ==
  ASSUME SvcTypeOK, NEW G \in SUBSET Graves, NEW q \in Inboxes, NEW c \in Clients,
         NEW d \in Clients, Clear(q[c], G), NEW cancels, NEW x, NEW ch \in ChanId,
         CancelAndClose(q, d, cancels, x, ch), c # d
  PROVE  Clear(inbox'[c], G)
<1> USE DEF ChanId, Notice
<1> DEFINE cancelled == cancels /\ Pending(x) /\ creator[x] = d
           told == IF cancelled THEN Push(q, {callee[x]}, News("CancelInvite", x)) ELSE q
           good == Push(told, {d}, Msg("closeCb", ch, TRUE))
           bad  == Push(told, {d}, Msg("closeCb", ch, FALSE))
<1>1. told \in Inboxes /\ Clear(told[c], G)
  BY NewsClear DEF Pending
<1>2. \/ inbox' = bad
      \/ ch \in Chan /\ inbox' = Push(good, members[ch] \ {d}, News("Close", ch))
  BY DEF CancelAndClose, Verdicts
<1> HIDE DEF told
<1>4. good \in Inboxes /\ Clear(good[c], G) /\ Clear(bad[c], G)
  BY <1>1, LightAnswerClear DEF Answer
<1> QED
  BY <1>2, <1>4, NewsClear

\* The message taken was none either.
LEMMA RestClears ==
  ASSUME Inv, NEW c \in Clients, NEW d \in Clients, NEW kind, NEW G, Gets(d, kind),
         Clear(inbox[c], G)
  PROVE  /\ Rest(d) \in Inboxes /\ Clear(Rest(d)[c], G) /\ SvcTypeOK /\ OwnTypeOK
         /\ Got(d).ch \in ChanId
<1>1. inbox \in Inboxes /\ inbox[d] # <<>> /\ inbox[d] \in Seq(Message)
  BY InboxFacts DEF Gets, Inboxes
<1>2. Rest(d) \in Inboxes /\ Rest(d)[c] = IF c = d THEN Tail(inbox[d]) ELSE inbox[c]
  BY <1>1, GotFacts DEF Rest, Inboxes
<1>3. \A i \in DOMAIN Tail(inbox[d]) : \E j \in DOMAIN inbox[d] : Tail(inbox[d])[i] = inbox[d][j]
  BY <1>1, TailFacts
<1>4. Clear(Rest(d)[c], G)
  <2>1. CASE c = d
    BY <1>2, <1>3, <2>1 DEF Clear
  <2>2. CASE c # d
    BY <1>2, <2>2
  <2> QED
    BY <2>1, <2>2
<1> QED
  BY <1>2, <1>4, InboxFacts, GotFacts

\* Of what the working thread asks for, a hangup and a refusal lead to such an
\* answer ...
LEMMA AskedClears ==
  ASSUME Inv, NEW G \in SUBSET Graves, NEW c \in Clients, NEW d \in Clients, Asked(d),
         Clear(inbox[c], G)
  PROVE  \/ Clear(inbox'[c], G)
         \/ c = d /\ hangup(d) /\ status[d] # "idle"
         \/ c = d /\ reject(d) /\ \E m \in G : m.kind = "rejectCb"
<1> /\ SvcTypeOK /\ OwnTypeOK /\ inbox \in Inboxes /\ invited[d] \in ChanId
    /\ inviting[d] \in ChanId
  BY InboxFacts DEF OwnTypeOK
<1>1. CASE \E p \in Clients \ {d} : call(d, p)
  <2>1. SignalingCreate(inbox, d) /\ NoChan \in ChanId
    BY <1>1 DEF call, ChanId
  <2> QED
    BY <2>1, AskingClears
<1>2. CASE accept(d)
  <2>1. SignalingAccept(inbox, d, invited[d])
    BY <1>2 DEF accept
  <2> QED
    BY <2>1, AnsweringClears
<1>3. CASE reject(d)
  <2>1. SignalingReject(inbox, d, invited[d], "Reject", TRUE)
    BY <1>3 DEF reject
  <2>2. CASE c # d \/ \A m \in G : m.kind # "rejectCb"
    BY <2>1, <2>2, AnsweringClears
  <2> QED
    BY <1>3, <2>2
<1>4. CASE hangup(d)
  <2>1. CASE UNCHANGED svcVars
    BY <2>1 DEF svcVars
  <2>2. CASE /\ CancelAndClose(inbox, d, status[d] = "calling" /\ master[d], inviting[d],
                               IF master[d] THEN inviting[d] ELSE invited[d])
             /\ status[d] # "idle"
    <3>1. (IF master[d] THEN inviting[d] ELSE invited[d]) \in ChanId
      OBVIOUS
    <3>2. CASE c # d
      BY <2>2, <3>1, <3>2, ClosingClears
    <3> QED
      BY <1>4, <2>2, <3>2
  <2> QED
    BY <1>4, <2>1, <2>2 DEF hangup
<1> QED
  BY <1>1, <1>2, <1>3, <1>4 DEF Asked

\* ... and of what the handlers ask for, a failed joining, a busy answer, and joining
\* a channel that is closed.
Heavy(d, G) ==
  \/ signalingJoinCb(d) /\ ~Got(d).ok
  \/ handleRejected(d) /\ Gets(d, "Busy")
  \/ /\ Gets(d, "createCb") /\ Got(d).ok /\ \E m \in G : m.kind = "joinCb"
     /\ ~(MaxFaults = 0 /\ Got(d).ch \in Chan /\ open[Got(d).ch])

\* Otherwise they leave the inbox clear.
LEMMA HandlersClear ==
  ASSUME Inv, NEW G \in SUBSET Graves, NEW c \in Clients, NEW d \in Clients,
         Inside(d) \/ AcceptStep(d) \/ TakesEvent(d), Clear(inbox[c], G)
  PROVE  Clear(inbox'[c], G) \/ (c = d /\ Heavy(d, G))
<1> SUFFICES ASSUME c # d \/ ~Heavy(d, G)
             PROVE  Clear(inbox'[c], G)
  OBVIOUS
<1> /\ SvcTypeOK /\ OwnTypeOK /\ inbox \in Inboxes /\ created[d] \in ChanId
    /\ NoChan \in ChanId
  BY InboxFacts DEF OwnTypeOK, ChanId
<1>1. CASE SdkStep(d)
  <2>1. CASE signalingCreateCb(d)
    <3>1. /\ Gets(d, "createCb")
          /\ Silent(Rest(d)) \/ (Got(d).ok /\ SignalingJoin(Rest(d), d, Got(d).ch))
      BY <2>1 DEF signalingCreateCb
    <3>2. Rest(d) \in Inboxes /\ Clear(Rest(d)[c], G) /\ Got(d).ch \in ChanId
      BY <3>1, RestClears
    <3>3. Got(d).ok => \/ c # d \/ (\A m \in G : m.kind # "joinCb")
                       \/ (MaxFaults = 0 /\ Got(d).ch \in Chan /\ open[Got(d).ch])
      BY <3>1 DEF Heavy
    <3>4. Silent(Rest(d)) => Clear(inbox'[c], G)
      BY <3>2 DEF Silent
    <3>5. Got(d).ok /\ SignalingJoin(Rest(d), d, Got(d).ch) => Clear(inbox'[c], G)
      BY <3>2, <3>3, JoiningClears
    <3> QED
      BY <3>1, <3>4, <3>5
  <2>2. CASE signalingJoinCb(d)
    <3>1. Gets(d, "joinCb")
      BY <2>2 DEF signalingJoinCb
    <3>2. \/ SignalingInvite(Rest(d), d, Got(d).ch, to[d])
          \/ ~Got(d).ok /\ CancelAndClose(Rest(d), d, FALSE, NoChan, created[d])
      BY <2>2 DEF signalingJoinCb, SignalingClose
    <3>3. Rest(d) \in Inboxes /\ Clear(Rest(d)[c], G) /\ Got(d).ch \in ChanId
      BY <3>1, RestClears
    <3>4. ~Got(d).ok => c # d
      BY <2>2 DEF Heavy
    <3>5. SignalingInvite(Rest(d), d, Got(d).ch, to[d]) => Clear(inbox'[c], G)
      BY <3>3, AskingClears
    <3>6. CancelAndClose(Rest(d), d, FALSE, NoChan, created[d]) /\ c # d => Clear(inbox'[c], G)
      BY <3>3, ClosingClears
    <3> QED
      BY <3>2, <3>4, <3>5, <3>6
  <2>3. CASE handleInvited(d)
    <3>1. /\ Gets(d, "Invite")
          /\ Silent(Rest(d)) \/ SignalingReject(Rest(d), d, Got(d).ch, "Busy", FALSE)
      BY <2>3 DEF handleInvited
    <3>2. Rest(d) \in Inboxes /\ Clear(Rest(d)[c], G) /\ Got(d).ch \in ChanId
      BY <3>1, RestClears
    <3> QED
      BY <3>1, <3>2, AskingClears, AnsweringClears
  <2>4. CASE handleRejected(d)
    <3>1. PICK kind : Gets(d, kind)
      BY <2>4 DEF handleRejected
    <3>2. \/ Silent(Rest(d))
          \/ Gets(d, "Busy") /\ CancelAndClose(Rest(d), d, FALSE, NoChan, Got(d).ch)
      BY <2>4 DEF handleRejected, SignalingClose
    <3>3. Rest(d) \in Inboxes /\ Clear(Rest(d)[c], G) /\ Got(d).ch \in ChanId
      BY <3>1, RestClears
    <3>4. Gets(d, "Busy") => c # d
      BY <2>4 DEF Heavy
    <3>5. Silent(Rest(d)) => Clear(inbox'[c], G)
      BY <3>3 DEF Silent
    <3>6. CancelAndClose(Rest(d), d, FALSE, NoChan, Got(d).ch) /\ c # d => Clear(inbox'[c], G)
      BY <3>3, ClosingClears
    <3> QED
      BY <3>2, <3>4, <3>5, <3>6
  <2>5. CASE handleJoin(d)
    <3>1. /\ Gets(d, "Join")
          /\ \/ Silent(Rest(d))
             \/ SignalingControl(Rest(d), Got(d).ch, callee[Got(d).ch])
      BY <2>5 DEF handleJoin
    <3>2. Rest(d) \in Inboxes /\ Clear(Rest(d)[c], G) /\ Got(d).ch \in ChanId
      BY <3>1, RestClears
    <3> QED
      BY <3>1, <3>2, AskingClears
  <2>6. CASE \/ signalingInviteCb(d) \/ signalingRejectCb(d) \/ signalingCloseCb(d)
             \/ signalingLeaveCb(d) \/ handleAccepted(d) \/ handleControl(d) \/ handleLeave(d)
             \/ \E kind, event : Ends(d, kind, event)
    <3>1. Silent(Rest(d)) /\ \E kind : Gets(d, kind)
      BY <2>6
      DEF signalingInviteCb, signalingRejectCb, signalingCloseCb, signalingLeaveCb,
          handleAccepted, handleControl, handleLeave, Ends
    <3> QED
      BY <3>1, RestClears DEF Silent
  <2>7. CASE AcceptedJoins(d) \/ ControlJoins(d)
    BY <2>7 DEF AcceptedJoins, ControlJoins, svcVars
  <2> QED
    BY <1>1, <2>1, <2>2, <2>3, <2>4, <2>5, <2>6, <2>7, EndingEvents DEF SdkStep
<1>2. CASE AcceptStep(d)
  <2>1. inbox' = inbox \/ (inbox' = Rest(d) /\ Gets(d, "acceptCb"))
    BY <1>2 DEF AcceptStep, AcceptFails, AcceptSucceeds, AcceptJoins, Silent, svcVars
  <2> QED
    BY <2>1, RestClears
<1>3. CASE OwnStep(d) \/ TakesEvent(d)
  BY <1>3 DEF OwnStep, CallingTimeout, GetToken, onUserLeft, TakesEvent, svcVars
<1>4. CASE OtherDevice(d)
  <2>1. PICK ch \in Chan, accepts \in BOOLEAN : OtherDeviceAnswers(d, ch, accepts)
    BY <1>4 DEF OtherDevice
  <2> QED
    BY <2>1, AnsweringClears DEF ChanId
<1> QED
  BY <1>1, <1>2, <1>3, <1>4 DEF Inside

NoClose(s) == ~Has(s, "closeCb")

\* Of the answers to a close this is so of all that give up being the master.
LEMMA ClosesOf ==
  ASSUME Inv, NEW c \in Clients, NEW d \in Clients, ComponentStep(d), NoClose(inbox[c])
  PROVE  NoClose(inbox'[c]) \/ (c = d /\ ~master'[d])
<1> DEFINE G == {m \in Message : m.kind = "closeCb"}
<1>1. OwnTypeOK /\ inbox \in Inboxes /\ inbox[c] \in Seq(Message)
  BY InboxFacts DEF Inboxes
<1>2. G \in SUBSET Graves /\ \A m \in G : m.kind # "rejectCb" /\ m.kind # "joinCb"
  BY DEF Graves, Grave
<1>3. Clear(inbox[c], G)
  BY DEF Clear, NoClose, Has
<1> HIDE DEF G
<1>4. \/ Clear(inbox'[c], G)
      \/ c = d /\ hangup(d) /\ status[d] # "idle"
      \/ c = d /\ Heavy(d, G)
  BY <1>2, <1>3, AskedClears, HandlersClear DEF ComponentStep
<1>5. (hangup(d) /\ status[d] # "idle") \/ Heavy(d, G) => ~master'[d]
  BY <1>1, <1>2 DEF Heavy, hangup, signalingJoinCb, handleRejected, OwnTypeOK, Gets
<1>6. Next
  BY DEF ComponentStep, Asked, Inside, Next, Operation
<1>7. inbox'[c] \in Seq(Message)
  BY <1>6, NextKeepsInv DEF Inv, TypeOK, SvcTypeOK
<1>8. Clear(inbox'[c], G) => NoClose(inbox'[c])
  BY <1>7 DEF Clear, NoClose, Has, G
<1> QED
  BY <1>4, <1>5, <1>8

-----------------------------------------------------------------------------
(* Before there is a call.                                                 *)

\* What is in a queue that something was added to or taken from.
LEMMA HasNext ==
  ASSUME NEW T, NEW s \in Seq(T), NEW kind
  PROVE  /\ \A m \in T : Has(Append(s, m), kind) <=> Has(s, kind) \/ m.kind = kind
         /\ s # <<>> => /\ Has(Tail(s), kind) => Has(s, kind)
                        /\ Has(s, kind) /\ Head(s).kind # kind => Has(Tail(s), kind)
<1>1. ASSUME NEW m \in T
      PROVE  Has(Append(s, m), kind) <=> Has(s, kind) \/ m.kind = kind
  BY Places DEF Has
<1>2. ASSUME s # <<>>
      PROVE  /\ Has(Tail(s), kind) => Has(s, kind)
             /\ Has(s, kind) /\ Head(s).kind # kind => Has(Tail(s), kind)
  <2>1. /\ DOMAIN s = 1..Len(s) /\ Len(s) \in Nat /\ Len(s) >= 1 /\ Head(s) = s[1]
        /\ DOMAIN Tail(s) = 1..(Len(s) - 1)
        /\ \A i \in 1..(Len(s) - 1) : Tail(s)[i] = s[i + 1]
    BY <1>2, Places
  <2>2. Has(Tail(s), kind) => Has(s, kind)
    BY <2>1 DEF Has
  <2>3. ASSUME NEW i \in DOMAIN s, s[i].kind = kind, Head(s).kind # kind
        PROVE  Has(Tail(s), kind)
    <3>1. i - 1 \in 1..(Len(s) - 1) /\ (i - 1) + 1 = i
      BY <2>1, <2>3
    <3> QED
      BY <2>1, <2>3, <3>1 DEF Has
  <2> QED
    BY <2>2, <2>3 DEF Has
<1> QED
  BY <1>1, <1>2

\* What is asked for after a request is added or taken, ...
LEMMA WantsNext ==
  ASSUME NEW s \in Seq(Op), NEW op
  PROVE  /\ \A r \in Op : Wants(Append(s, r), op) <=> Wants(s, op) \/ r.op = op
         /\ s # <<>> => /\ Wants(Tail(s), op) => Wants(s, op)
                        /\ Head(s).op = op => Wants(s, op)
<1>1. ASSUME NEW r \in Op
      PROVE  Wants(Append(s, r), op) <=> Wants(s, op) \/ r.op = op
  BY Places DEF Wants
<1>2. ASSUME s # <<>>
      PROVE  /\ Wants(Tail(s), op) => Wants(s, op)
             /\ Head(s).op = op => Wants(s, op)
  BY <1>2, Places DEF Wants
<1> QED
  BY <1>1, <1>2

\* ... and which kinds are in a queue then.
LEMMA OnlyNext ==
  ASSUME NEW T, NEW s \in Seq(T), NEW kinds, Only(s, kinds)
  PROVE  /\ \A m \in T : m.kind \in kinds => Only(Append(s, m), kinds)
         /\ s # <<>> => Only(Tail(s), kinds) /\ Head(s).kind \in kinds
<1>1. ASSUME NEW m \in T, m.kind \in kinds
      PROVE  Only(Append(s, m), kinds)
  BY <1>1, Places DEF Only
<1>2. ASSUME s # <<>>
      PROVE  Only(Tail(s), kinds) /\ Head(s).kind \in kinds
  BY <1>2, Places DEF Only
<1> QED
  BY <1>1, <1>2

\* Nothing is in an empty one.
LEMMA NothingIn ==
  /\ \A kind : ~Has(<<>>, kind)
  /\ \A op : ~Wants(<<>>, op)
  /\ \A kinds : Only(<<>>, kinds)
BY DEF Has, Wants, Only

\* Pages and ends of a window.
LEMMA WindowParts ==
  ASSUME NEW w \in Form, NEW x
  PROVE  /\ [w EXCEPT !.end = x].end = x /\ [w EXCEPT !.end = x].view = w.view
         /\ [w EXCEPT !.view = x].view = x /\ [w EXCEPT !.view = x].end = w.end
BY DEF Form, NoForm

\* The end page asks for the hangup, once.
HangupOp == [op |-> "hangup", peer |-> NoClient]

LEMMA EndPage ==
  ASSUME UiTypeOK, NEW d \in Clients, NEW why \in {"HANGUP", "CLOSE", "RESPONSE"},
         EnterEndCallPage(d, why)
  PROVE  /\ form'[d].view = form[d].view /\ ghost' = ghost /\ form'[d].end # "none"
         /\ form[d].end = "none" => requests'[d] = Append(requests[d], HangupOp)
         /\ form[d].end # "none" => requests' = requests
<1>1. form[d] \in Form /\ requests[d] \in Seq(Op)
  BY DEF UiTypeOK
<1>2. CASE form[d].end # "none"
  BY <1>2 DEF EnterEndCallPage, uiVars
<1>3. CASE form[d].end = "none"
  <2>1. form' = [form EXCEPT ![d].end = why] /\ EndRequest(d, why) /\ ghost' = ghost
    BY <1>3 DEF EnterEndCallPage
  <2>2. form'[d] = [form[d] EXCEPT !.end = why]
    BY <2>1 DEF UiTypeOK
  <2>3. requests' = [requests EXCEPT ![d] = Append(@, HangupOp)]
    BY <2>1 DEF EndRequest, Request, HangupOp
  <2> QED
    BY <1>1, <1>3, <2>1, <2>2, <2>3, WindowParts DEF UiTypeOK
<1> QED
  BY <1>2, <1>3

\* While there is no call, no answer is good, nobody waits and no room is entered.
LEMMA Hush ==
  ASSUME Inv, Sides, NoCall, NoClient \notin Clients, NEW c \in Clients, Unreached(c)
  PROVE  /\ waiting[c][1] = "free" /\ rtc[c] = NoRoom
         /\ \A ch \in Chan : members[ch] = {} /\ ~Pending(ch)
         /\ \A kind : Gets(c, kind) =>
              /\ kind \in {"createCb", "closeCb"}
              /\ kind = "createCb" => ~Got(c).ok
<1>1. \A ch \in Chan : invitation[ch] = "none" /\ callee[ch] = NoClient
  BY DEF NoCall, Sides, Inv, InOrder
<1>2. \A x : ~Party(c, x)
  BY <1>1 DEF Party, NoCall
<1>3. waiting[c][1] = "free"
  BY <1>2 DEF Inv, Backed
<1>4. rtc[c] = NoRoom
  BY <1>1, <1>2 DEF Inv, Backed, RoomBacked, Reached
<1>5. \A ch \in Chan : members[ch] \subseteq {NoClient} /\ members[ch] \subseteq Clients
  BY <1>1 DEF Inv, InOrder, Answered, NoCall, TypeOK, SvcTypeOK
<1>6. ASSUME NEW kind, Gets(c, kind)
      PROVE  kind \in {"createCb", "closeCb"} /\ (kind = "createCb" => ~Got(c).ok)
  <2>1. /\ 1 \in DOMAIN inbox[c] /\ Got(c) = inbox[c][1] /\ Got(c).kind = kind
        /\ Founded(c, Got(c))
    BY <1>6, HeadMail
  <2> QED
    BY <2>1 DEF Unreached, Only, Founded, Caller, NoCall
<1> QED
  BY <1>1, <1>3, <1>4, <1>5, <1>6 DEF Pending

\* There is no channel to close, and no invitation to take back.
LEMMA ClosesNothing ==
  ASSUME Inv, Sides, NoCall, NoClient \notin Clients, NEW d \in Clients, Unreached(d),
         NEW cancels \in BOOLEAN, NEW x, NEW ch, CancelAndClose(inbox, d, cancels, x, ch)
  PROVE  inbox' = Push(inbox, {d}, Msg("closeCb", ch, FALSE))
<1>1. ~Pending(x) /\ ~(ch \in Chan /\ open[ch] /\ d \in members[ch])
  BY Hush DEF Pending
<1> QED
  BY <1>1 DEF CancelAndClose, Verdicts

-----------------------------------------------------------------------------
(* What d does before there is a call.                                     *)

Alone(d) == \A c \in Clients \ {d} : inbox'[c] = inbox[c] /\ left'[c] = left[c]

\* A user who waits finds nothing under way.
LEMMA Rests ==
  ASSUME KitInv, NEW d \in Clients, Settled(d), Prior(d)
  PROVE  /\ requests[d] = <<>> /\ events[d] = <<>> /\ ~Has(inbox[d], "closeCb")
         /\ NoSetup(inbox[d]) /\ ~hurry[d] /\ (status[d] = "calling" => form[d].end = "none")
<1>1. requests[d] = <<>> /\ events[d] = <<>>
  BY DEF Settled
<1>2. ~Has(inbox[d], "closeCb") /\ NoSetup(inbox[d])
  BY DEF Settled, Has, NoSetup, Setup, Answer
<1>3. /\ \A kind : ~Has(events[d], kind)
      /\ \A op : ~Wants(requests[d], op)
  BY <1>1, NothingIn
<1> QED
  BY <1>1, <1>2, <1>3 DEF Prior, Marked, Failing

\* It asks for a call, or for a hangup.
LEMMA PriorUser ==
  ASSUME KitInv, NEW d \in Clients, ~Hasty, User(d), Prior(d)
  PROVE  Prior(d)' /\ Alone(d)
<1>1. /\ requests[d] = <<>> /\ events[d] = <<>> /\ ~Has(inbox[d], "closeCb") /\ ~hurry[d]
      /\ status[d] = "calling" => form[d].end = "none"
  BY Rests DEF User
<1>2. UNCHANGED <<inbox, events, left, hurry, status>>
  BY KitSteps DEF avVars, svcVars, callVars, rtcVars
<1>3. Alone(d)
  BY <1>2 DEF Alone
<1>4. /\ form \in [Clients -> Form] /\ ghost \in [Clients -> Form]
      /\ requests \in [Clients -> Seq(Op)] /\ form[d] \in Form /\ ghost[d] \in Form
  BY DEF KitInv, UiTypeOK
<1>5. Marked(d)' /\ Only(inbox'[d], {"createCb", "closeCb"}) /\ ~left'[d]
      /\ Only(events'[d], {"onCalling", "onCallingTimeOut"})
  BY <1>1, <1>2 DEF Marked, Prior, Unreached
<1>6. ASSUME NEW r \in Op, requests'[d] = Append(requests[d], r)
      PROVE  DOMAIN requests'[d] = 1..1 /\ Len(requests'[d]) = 1 /\ requests'[d][1] = r
  <2>1. requests'[d] = <<r>>
    BY <1>1, <1>6
  <2> QED
    BY <2>1
<1>7. ASSUME requests'[d] = Append(requests[d], HangupOp), form'[d].view # "confirm",
             ghost'[d].view # "confirm"
      PROVE  Prior(d)'
  <2>1. HangupOp \in Op /\ HangupOp.op = "hangup"
    BY DEF HangupOp, Op
  <2>2. /\ \A i \in DOMAIN requests'[d] : requests'[d][i].op = "hangup"
        /\ 1 \in DOMAIN requests'[d]
    BY <1>6, <1>7, <2>1
  <2>3. Wants(requests'[d], "hangup") /\ ~Wants(requests'[d], "call")
    BY <2>2 DEF Wants
  <2> QED
    BY <1>5, <1>7, <2>2, <2>3 DEF Prior, Unreached, Failing, Afresh
<1>8. ASSUME NEW p \in Clients, Dial(d, p)
      PROVE  Prior(d)'
  <2> DEFINE r == [op |-> "call", peer |-> p]
             w == [view |-> "dial", end |-> "none", peer |-> p]
  <2>1. r \in Op /\ r.op = "call"
    BY DEF Op
  <2>2. requests'[d] = Append(requests[d], r)
    BY <1>4, <1>8 DEF Dial, Request
  <2>3. /\ \A i \in DOMAIN requests'[d] : requests'[d][i].op = "call"
        /\ Len(requests'[d]) = 1
    BY <1>6, <2>1, <2>2
  <2>4. form'[d] = w /\ ghost'[d] \in {ghost[d], form[d]}
    BY <1>4, <1>8 DEF Dial, ShowVideoChatForm
  <2>5. form'[d].end = "none" /\ form'[d].view = "dial" /\ ghost'[d].view # "confirm"
    BY <2>4 DEF Prior, Unreached
  <2> QED
    BY <1>1, <1>2, <1>5, <2>3, <2>5 DEF Prior, Unreached, Failing, Afresh
<1>9. ~Complete(d) /\ ~Refuse(d)
  BY DEF Complete, Refuse, Prior, Unreached
<1>10. ASSUME NEW why \in {"HANGUP", "CLOSE"}, EnterEndCallPage(d, why), Live(form[d])
       PROVE  Prior(d)'
  <2>1. /\ form'[d].view = form[d].view /\ ghost' = ghost
        /\ requests'[d] = Append(requests[d], HangupOp)
    BY <1>10, EndPage DEF Live, KitInv
  <2> QED
    BY <1>7, <2>1 DEF Prior, Unreached
<1>11. CASE UseGhost(d)
  <2>1. PICK button \in {"CLOSE", "HANGUP"} :
          ghost' = [ghost EXCEPT ![d].end = button] /\ EndRequest(d, button) /\ form' = form
    BY <1>11 DEF UseGhost, Prior, Unreached
  <2>2. requests' = [requests EXCEPT ![d] = Append(@, HangupOp)]
    BY <2>1 DEF EndRequest, Request, HangupOp
  <2>3. ghost'[d] = [ghost[d] EXCEPT !.end = button]
    BY <1>4, <2>1
  <2>4. ghost'[d].view = ghost[d].view /\ requests'[d] = Append(requests[d], HangupOp)
    BY <1>4, <2>2, <2>3, WindowParts
  <2>5. form'[d].view # "confirm" /\ ghost'[d].view # "confirm"
    BY <2>1, <2>4 DEF Prior, Unreached
  <2> QED
    BY <1>3, <1>7, <2>4, <2>5
<1> QED
  BY <1>3, <1>8, <1>9, <1>10, <1>11 DEF User, StopChat, QuitMsgBox

\* A call that fails to get a channel, and a hangup that has none to close.
LEMMA PriorCall ==
  ASSUME KitInv, Sides, NEW d \in Clients, NoCall, NoCall', RunsCall(d), Prior(d)
  PROVE  Prior(d)' /\ Alone(d)
<1> SvcTypeOK /\ OwnTypeOK /\ inbox \in Inboxes /\ NoClient \notin Clients
  BY InboxFacts, SignalingAssumption DEF KitInv
<1>1. /\ call(d, Head(requests[d]).peer) /\ requests[d] # <<>> /\ Head(requests[d]).op = "call"
      /\ requests' = [requests EXCEPT ![d] = Tail(@)] /\ form' = form /\ ghost' = ghost
  BY DEF RunsCall, Runs
<1>2. requests \in [Clients -> Seq(Op)]
  BY DEF KitInv, UiTypeOK
<1>3. Wants(requests[d], "call")
  BY <1>1, <1>2, WantsNext
<1>4. /\ Len(requests[d]) = 1 /\ events[d] = <<>> /\ form[d].end = "none"
      /\ ~Has(inbox[d], "closeCb") /\ ~hurry[d]
  BY <1>3 DEF Prior, Afresh
<1>5. requests'[d] = <<>>
  BY <1>1, <1>2, <1>4
<1>6. /\ SignalingCreate(inbox, d) /\ hurry' = hurry /\ left' = left
      /\ events' = [events EXCEPT
                      ![d] = Append(@, [kind |-> "onCalling", who |-> Head(requests[d]).peer])]
  BY <1>1 DEF call, rtcVars, Tell
<1> DEFINE m == Msg("createCb", NoChan, FALSE)
           e == [kind |-> "onCalling", who |-> Head(requests[d]).peer]
<1>7. inbox' = Push(inbox, {d}, m)
  <2>1. \A ch \in Chan : creator' # [creator EXCEPT ![ch] = d]
    BY DEF NoCall, SvcTypeOK
  <2> QED
    BY <1>6, <2>1 DEF SignalingCreate, Unused
<1>8. m \in Message /\ m.kind = "createCb" /\ e.kind = "onCalling"
  BY MsgIsMessage DEF Answer, ChanId, Msg
<1>9. events' = [events EXCEPT ![d] = Append(@, e)]
  BY <1>6
<1> HIDE DEF m, e
<1>10. /\ inbox'[d] = Append(inbox[d], m) /\ inbox[d] \in Seq(Message)
       /\ \A c \in Clients \ {d} : inbox'[c] = inbox[c]
  BY <1>7, <1>8, PushAtEnd
<1>11. Only(inbox'[d], {"createCb", "closeCb"}) /\ ~Has(inbox'[d], "closeCb")
  <2>1. Only(inbox[d], {"createCb", "closeCb"})
    BY DEF Prior, Unreached
  <2> QED
    BY <1>4, <1>8, <1>10, <2>1, OnlyNext, HasNext
<1>12. Only(events'[d], {"onCalling", "onCallingTimeOut"})
  <2>1. events'[d] = Append(events[d], e)
    BY <1>9 DEF OwnTypeOK
  <2>2. events'[d] = <<e>>
    BY <1>4, <2>1
  <2>3. DOMAIN events'[d] = 1..1 /\ events'[d][1] = e
    BY <2>2
  <2> QED
    BY <1>8, <2>3 DEF Only
<1>13. Alone(d)
  BY <1>6, <1>10 DEF Alone
<1>14. Unreached(d)'
  BY <1>1, <1>5, <1>6, <1>11, <1>12 DEF Prior, Unreached
<1>15. Marked(d)' /\ Failing(d)'
  BY <1>1, <1>4, <1>6 DEF Marked, Failing
<1>16. Afresh(d)'
  BY <1>5, NothingIn DEF Afresh
<1> QED
  BY <1>13, <1>14, <1>15, <1>16 DEF Prior

\* The hangup gives the call up, and the mark with it.
LEMMA PriorHangup ==
  ASSUME KitInv, Sides, NEW d \in Clients, NoCall, RunsHangup(d), Prior(d)
  PROVE  Prior(d)' /\ Alone(d)
<1> SvcTypeOK /\ OwnTypeOK /\ inbox \in Inboxes /\ NoClient \notin Clients /\ Inv
  BY InboxFacts, SignalingAssumption DEF KitInv
<1>1. /\ hangup(d) /\ requests[d] # <<>>
      /\ requests' = [requests EXCEPT ![d] = Tail(@)] /\ form' = form /\ ghost' = ghost
      /\ Head(requests[d]).op = "hangup"
  BY DEF RunsHangup, Runs
<1>2. requests \in [Clients -> Seq(Op)] /\ requests'[d] = Tail(requests[d])
  BY <1>1 DEF KitInv, UiTypeOK
<1>3. \A c \in Clients : left'[c] = left[c]
  <2>1. rtc[d] = NoRoom
    BY Hush DEF Prior
  <2>2. left' = [c \in Clients |->
                   left[c] \/ (c # d /\ rtc[d] # NoRoom /\ rtc[c] = rtc[d])]
    BY <1>1 DEF hangup, leaveChannel
  <2> QED
    BY <2>1, <2>2 DEF OwnTypeOK
<1>4. ~Wants(requests'[d], "call")
  <2>1. CASE Wants(requests[d], "call")
    <3>1. Len(requests[d]) = 1
      BY <2>1 DEF Prior, Afresh
    <3>2. requests'[d] = <<>>
      BY <1>2, <3>1
    <3> QED
      BY <3>2, NothingIn
  <2>2. CASE ~Wants(requests[d], "call")
    BY <1>1, <1>2, <2>2, WantsNext
  <2> QED
    BY <2>1, <2>2
<1>5. \A i \in DOMAIN requests'[d] : requests'[d][i].op \in {"call", "hangup"}
  BY <1>1, <1>2, RequestFacts DEF Prior, Unreached
<1>6. events' = events /\ status' = status
  BY <1>1 DEF hangup
<1>7. CASE status[d] = "idle"
  <2>1. UNCHANGED <<inbox, hurry>>
    BY <1>1, <1>7 DEF hangup, svcVars
  <2>2. ~hurry[d]
    BY <1>7 DEF Prior, Marked
  <2>3. Marked(d)' /\ Failing(d)'
    BY <1>6, <1>7, <2>1, <2>2 DEF Marked, Failing
  <2>4. Unreached(d)' /\ Alone(d)
    BY <1>1, <1>3, <1>5, <1>6, <2>1 DEF Prior, Unreached, Alone
  <2> QED
    BY <1>4, <2>3, <2>4 DEF Prior, Afresh
<1>8. CASE status[d] # "idle"
  <2> DEFINE ch == IF master[d] THEN inviting[d] ELSE invited[d]
             m  == Msg("closeCb", ch, FALSE)
  <2>1. hurry' = [hurry EXCEPT ![d] = FALSE]
    BY <1>1, <1>8 DEF hangup
  <2>2. CancelAndClose(inbox, d, status[d] = "calling" /\ master[d], inviting[d], ch)
    BY <1>1, <1>8 DEF hangup
  <2>3. m \in Message /\ m.kind = "closeCb"
    BY MsgIsMessage DEF Answer, OwnTypeOK, Msg
  <2> HIDE DEF ch
  <2>4. inbox' = Push(inbox, {d}, m)
    <3>1. (status[d] = "calling" /\ master[d]) \in BOOLEAN
      OBVIOUS
    <3> QED
      BY <2>2, <3>1, ClosesNothing DEF Prior
  <2> HIDE DEF m
  <2>5. /\ inbox'[d] = Append(inbox[d], m) /\ inbox[d] \in Seq(Message)
        /\ \A c \in Clients \ {d} : inbox'[c] = inbox[c]
    BY <2>3, <2>4, PushAtEnd
  <2>6. Only(inbox'[d], {"createCb", "closeCb"}) /\ Has(inbox'[d], "closeCb")
    BY <2>3, <2>5, OnlyNext, HasNext DEF Prior, Unreached
  <2>7. ~hurry'[d]
    BY <2>1 DEF OwnTypeOK
  <2>8. Marked(d)' /\ Failing(d)'
    BY <2>6, <2>7 DEF Marked, Failing
  <2>9. Unreached(d)' /\ Alone(d)
    BY <1>1, <1>3, <1>5, <1>6, <2>5, <2>6 DEF Prior, Unreached, Alone
  <2> QED
    BY <1>4, <2>8, <2>9 DEF Prior, Afresh
<1> QED
  BY <1>7, <1>8

\* The window hears that it dials, or that nobody answers.
LEMMA PriorEvent ==
  ASSUME KitInv, NEW d \in Clients, HandlesEvent(d), Prior(d)
  PROVE  Prior(d)' /\ Alone(d)
<1>1. /\ TakesEvent(d) /\ events[d] # <<>> /\ events' = [events EXCEPT ![d] = Tail(@)]
      /\ UNCHANGED <<inbox, status, hurry, left>>
  BY KitSteps DEF TakesEvent, svcVars, callVars, rtcVars
<1>2. /\ events \in [Clients -> Seq(Event)] /\ UiTypeOK /\ requests[d] \in Seq(Op)
      /\ form[d] \in Form
  BY DEF KitInv, UiTypeOK, Inv, TypeOK, OwnTypeOK
<1>3. /\ events'[d] = Tail(events[d]) /\ events[d] \in Seq(Event)
      /\ Only(events'[d], {"onCalling", "onCallingTimeOut"})
      /\ Head(events[d]).kind \in {"onCalling", "onCallingTimeOut"}
  <2>1. events'[d] = Tail(events[d]) /\ events[d] \in Seq(Event)
    BY <1>1, <1>2
  <2>2. Only(events[d], {"onCalling", "onCallingTimeOut"})
    BY DEF Prior, Unreached
  <2> QED
    BY <1>1, <2>1, <2>2, OnlyNext
<1>4. ~Wants(requests[d], "call")
  BY <1>1 DEF Prior, Afresh
<1>5. Alone(d)
  BY <1>1 DEF Alone
<1>6. CASE OnCallingCb(d)
  <2>1. /\ Head(events[d]).kind = "onCalling" /\ requests' = requests /\ ghost' = ghost
        /\ form'[d] = [form[d] EXCEPT !.view = "dial"]
    BY <1>2, <1>6 DEF OnCallingCb, Takes, ShowStatusPage, UiTypeOK
  <2>2. form'[d].view = "dial" /\ form'[d].end = form[d].end
    BY <1>2, <2>1, WindowParts
  <2>3. Has(events[d], "onCallingTimeOut") => Has(events'[d], "onCallingTimeOut")
    BY <1>1, <1>3, <2>1, HasNext
  <2>4. Unreached(d)'
    BY <1>1, <1>3, <2>1, <2>2 DEF Prior, Unreached
  <2>5. Marked(d)' /\ Failing(d)'
    BY <1>1, <2>1, <2>2, <2>3 DEF Prior, Marked, Failing
  <2>6. Afresh(d)'
    BY <1>4, <2>1 DEF Afresh
  <2> QED
    BY <1>5, <2>4, <2>5, <2>6 DEF Prior
<1>7. CASE OnCallingTimeOutCb(d)
  <2>1. /\ form'[d].view = form[d].view /\ ghost' = ghost /\ form'[d].end # "none"
        /\ form[d].end = "none" => requests'[d] = Append(requests[d], HangupOp)
        /\ form[d].end # "none" => requests' = requests
    BY <1>2, <1>7, EndPage DEF OnCallingTimeOutCb
  <2>2. CASE form[d].end # "none"
    <3>1. Unreached(d)'
      BY <1>1, <1>3, <2>1, <2>2 DEF Prior, Unreached
    <3>2. Marked(d)' /\ Failing(d)'
      BY <1>1, <2>1, <2>2 DEF Prior, Marked, Failing
    <3>3. Afresh(d)'
      BY <1>4, <2>1, <2>2 DEF Afresh
    <3> QED
      BY <1>5, <3>1, <3>2, <3>3 DEF Prior
  <2>3. CASE form[d].end = "none"
    <3>1. HangupOp \in Op /\ HangupOp.op = "hangup"
      BY DEF HangupOp, Op
    <3>2. requests'[d] = Append(requests[d], HangupOp)
      BY <2>1, <2>3
    <3>3. ~Wants(requests'[d], "call") /\ Wants(requests'[d], "hangup")
      BY <1>2, <1>4, <3>1, <3>2, WantsNext
    <3>4. \A i \in DOMAIN requests'[d] : requests'[d][i].op \in {"call", "hangup"}
      <4>1. \A i \in DOMAIN requests[d] : requests[d][i].op \in {"call", "hangup"}
        BY DEF Prior, Unreached
      <4> QED
        BY <1>2, <3>1, <3>2, <4>1, Places
    <3>5. Unreached(d)'
      BY <1>1, <1>3, <2>1, <3>4 DEF Prior, Unreached
    <3>6. Marked(d)' /\ Failing(d)'
      BY <1>1, <3>3 DEF Prior, Marked, Failing
    <3>7. Afresh(d)'
      BY <3>3 DEF Afresh
    <3> QED
      BY <1>5, <3>5, <3>6, <3>7 DEF Prior
  <2> QED
    BY <2>2, <2>3
<1> QED
  BY <1>3, <1>6, <1>7
  DEF HandlesEvent, Takes, OnUserAcceptCb, OnInvitedCb, OnUserEnterCb, OnUserRejectCb,
      OnUserBusyCb, OnCallEndCb, onOtherClientAcceptCb, onOtherClientRejectCb

\* The SDK brings the failure of a call, or of a close.
LEMMA PriorSdk ==
  ASSUME KitInv, Sides, NEW d \in Clients, NoCall, Sdk(d), Prior(d)
  PROVE  Prior(d)' /\ Alone(d)
<1> Inv /\ NoClient \notin Clients /\ Unreached(d) /\ OwnTypeOK
  BY InboxFacts, SignalingAssumption DEF KitInv, Prior
<1>1. /\ waiting[d][1] = "free"
      /\ \A kind : Gets(d, kind) =>
              /\ kind \in {"createCb", "closeCb"}
              /\ kind = "createCb" => ~Got(d).ok
  BY Hush
<1>2. ~AcceptStep(d) /\ ~AcceptInvite(d)
  BY <1>1 DEF AcceptStep, AcceptInvite, AcceptFails, AcceptSucceeds, AcceptJoins
<1>3. SdkStep(d) /\ UNCHANGED uiVars
  BY <1>2 DEF Sdk
<1>4. \A kind \in Notice : ~Gets(d, kind)
  BY <1>1 DEF Notice
<1>5. ASSUME NEW kind \in {"createCb", "closeCb"}, Gets(d, kind), Silent(Rest(d))
      PROVE  /\ inbox[d] # <<>> /\ inbox[d] \in Seq(Message) /\ inbox'[d] = Tail(inbox[d])
             /\ Head(inbox[d]).kind = kind
             /\ \A c \in Clients \ {d} : inbox'[c] = inbox[c]
             /\ Only(inbox'[d], {"createCb", "closeCb"})
  <2>1. inbox[d] # <<>> /\ inbox \in [Clients -> Seq(Message)] /\ Head(inbox[d]).kind = kind
    BY <1>5, InboxFacts DEF Gets, Inboxes
  <2>2. inbox' = [inbox EXCEPT ![d] = Tail(@)]
    BY <1>5 DEF Silent, Rest
  <2>3. inbox[d] \in Seq(Message) /\ inbox'[d] = Tail(inbox[d])
    BY <2>1, <2>2
  <2>4. Only(inbox[d], {"createCb", "closeCb"})
    BY DEF Unreached
  <2>5. Only(inbox'[d], {"createCb", "closeCb"})
    BY <2>1, <2>3, <2>4, OnlyNext
  <2> QED
    BY <2>1, <2>2, <2>3, <2>5
<1>6. CASE signalingCreateCb(d)
  <2>1. /\ Gets(d, "createCb") /\ Silent(Rest(d))
        /\ UNCHANGED <<status, hurry, events, left>>
    BY <1>1, <1>6 DEF signalingCreateCb, callVars, rtcVars
  <2>2. Has(inbox'[d], "closeCb") <=> Has(inbox[d], "closeCb")
    BY <1>5, <2>1, HasNext
  <2>3. Unreached(d)' /\ Alone(d)
    BY <1>3, <1>5, <2>1 DEF Unreached, Alone, uiVars
  <2>4. Marked(d)' /\ Failing(d)' /\ Afresh(d)'
    BY <1>3, <2>1, <2>2 DEF Prior, Marked, Failing, Afresh, uiVars
  <2> QED
    BY <2>3, <2>4 DEF Prior
<1>7. CASE signalingCloseCb(d)
  <2>1. /\ Gets(d, "closeCb") /\ Silent(Rest(d)) /\ status'[d] = "idle"
        /\ UNCHANGED <<hurry, events, left>>
    BY <1>7 DEF signalingCloseCb, rtcVars, OwnTypeOK
  <2>2. Has(inbox[d], "closeCb")
    BY <2>1, HeadMail DEF Has
  <2>3. Unreached(d)' /\ Alone(d)
    BY <1>3, <1>5, <2>1 DEF Unreached, Alone, uiVars
  <2>4. Marked(d)' /\ Failing(d)' /\ Afresh(d)'
    BY <1>3, <2>1, <2>2 DEF Prior, Marked, Failing, Afresh, uiVars
  <2> QED
    BY <2>3, <2>4 DEF Prior
<1>8. ~(\/ handleClose(d) \/ handleCancelInvite(d)
        \/ handleOtherClientAccepted(d) \/ handleOtherClientRejected(d))
  BY <1>4, EndingEvents DEF Ends
<1>9. ~(\/ signalingJoinCb(d) \/ signalingInviteCb(d) \/ signalingRejectCb(d)
         \/ signalingLeaveCb(d) \/ AcceptedJoins(d) \/ ControlJoins(d))
  BY <1>1
  DEF signalingJoinCb, signalingInviteCb, signalingRejectCb, signalingLeaveCb, AcceptedJoins,
      ControlJoins
<1>10. ~(\/ handleInvited(d) \/ handleAccepted(d) \/ handleControl(d) \/ handleRejected(d)
         \/ handleJoin(d) \/ handleLeave(d))
  <2>1. /\ handleInvited(d) => Gets(d, "Invite")
        /\ handleAccepted(d) => Gets(d, "Accept")
        /\ handleControl(d) => Gets(d, "Control")
    BY DEF handleInvited, handleAccepted, handleControl
  <2>2. /\ handleRejected(d) => Gets(d, "Reject") \/ Gets(d, "Busy")
        /\ handleJoin(d) => Gets(d, "Join")
        /\ handleLeave(d) => Gets(d, "Leave")
    BY DEF handleRejected, handleJoin, handleLeave
  <2> QED
    BY <1>4, <2>1, <2>2 DEF Notice
<1> QED
  BY <1>3, <1>6, <1>7, <1>8, <1>9, <1>10 DEF SdkStep

\* The timer marks the next hangup.
LEMMA PriorTimer ==
  ASSUME KitInv, NEW d \in Clients, ~Hasty, Timer(d), Prior(d)
  PROVE  Prior(d)' /\ Alone(d)
<1> OwnTypeOK
  BY InboxFacts DEF KitInv
<1>1. /\ CallingTimeout(d) /\ UNCHANGED uiVars /\ UNCHANGED <<inbox, status, left>>
      /\ requests[d] = <<>> /\ events[d] = <<>> /\ ~Has(inbox[d], "closeCb") /\ ~hurry[d]
      /\ status[d] = "calling" => form[d].end = "none"
  BY Rests DEF Timer, CallingTimeout, svcVars, rtcVars
<1>2. CASE status[d] # "calling"
  <2>1. UNCHANGED <<inbox, status, left, hurry, events, form, ghost, requests>>
    BY <1>1, <1>2 DEF CallingTimeout, uiVars
  <2> QED
    BY <2>1 DEF Prior, Unreached, Marked, Failing, Afresh, Alone
<1>3. CASE status[d] = "calling"
  <2> DEFINE e == [kind |-> "onCallingTimeOut", who |-> NoClient]
  <2>1. events' = [events EXCEPT ![d] = Append(@, e)] /\ e.kind = "onCallingTimeOut"
    BY <1>1, <1>3 DEF CallingTimeout, Tell
  <2> HIDE DEF e
  <2>2. events'[d] = Append(events[d], e)
    BY <2>1 DEF OwnTypeOK
  <2>3. events'[d] = <<e>>
    BY <1>1, <2>2
  <2>4. DOMAIN events'[d] = 1..1 /\ events'[d][1] = e
    BY <2>3
  <2>5. Has(events'[d], "onCallingTimeOut") /\ Only(events'[d], {"onCalling", "onCallingTimeOut"})
    BY <2>1, <2>4 DEF Has, Only
  <2>6. Unreached(d)' /\ Alone(d)
    BY <1>1, <2>5 DEF Prior, Unreached, uiVars, Alone
  <2>7. Marked(d)' /\ Failing(d)'
    BY <1>1, <1>3, <2>5 DEF Marked, Failing, uiVars
  <2>8. Afresh(d)'
    BY <1>1, NothingIn DEF Afresh, uiVars
  <2> QED
    BY <2>6, <2>7, <2>8 DEF Prior
<1> QED
  BY <1>2, <1>3

\* Before there is a call everyone is as if he had not called, whoever moves.
LEMMA PriorKept ==
  ASSUME NEW d \in Clients, Turn(d), ~Hasty, NoCall, NoCall', \A c \in Clients : Prior(c),
         NEW c \in Clients
  PROVE  Prior(c)'
<1> /\ KitInv /\ Inv /\ Sides /\ StepOf(d) /\ NoClient \notin Clients /\ Prior(d)
    /\ UNCHANGED avVars \/ ComponentStep(d)
  BY TurnFacts
<1>1. ~RunsAccept(d) /\ ~RunsReject(d)
  <2>1. requests[d] # <<>> => Head(requests[d]).op \in {"call", "hangup"}
    <3>1. requests[d] \in Seq(Op)
      BY DEF KitInv, UiTypeOK
    <3> QED
      BY <3>1, Places DEF Prior, Unreached
  <2> QED
    BY <2>1 DEF RunsAccept, RunsReject, Runs
<1>2. ASSUME Http(d)
      PROVE  Prior(d)' /\ Alone(d)
  <2>1. UNCHANGED <<inbox, status, left, hurry, events, form, ghost, requests>>
    BY <1>2 DEF Http, GetToken, svcVars, callVars, rtcVars, uiVars
  <2> QED
    BY <2>1 DEF Prior, Unreached, Marked, Failing, Afresh, Alone
<1>3. ~Engine(d)
  BY DEF Engine, onUserLeft, Prior, Unreached
<1>4. ~Elsewhere(d)
  BY Hush DEF Elsewhere, OtherDevice, OtherDeviceAnswers, Prior
<1>5. Prior(d)' /\ Alone(d)
  BY <1>1, <1>2, <1>3, <1>4, PriorUser, PriorCall, PriorHangup, PriorEvent, PriorSdk, PriorTimer
  DEF StepOf, Worker
<1>6. CASE c # d
  <2>1. Mine(c) /\ Yours(c)
    BY <1>6, StepFacts
  <2>2. inbox'[c] = inbox[c] /\ left'[c] = left[c]
    BY <1>5, <1>6 DEF Alone
  <2> QED
    BY <2>1, <2>2 DEF Mine, Yours, Prior, Unreached, Marked, Failing, Afresh
<1> QED
  BY <1>5, <1>6

-----------------------------------------------------------------------------
(* Once there is a call.                                                   *)

\* The mark is the timer's, ...
LEMMA HurryOf ==
  ASSUME KitInv, NEW d \in Clients, StepOf(d), hurry'[d], ~hurry[d]
  PROVE  Timer(d) /\ status[d] = "calling"
<1> OwnTypeOK /\ (UNCHANGED avVars \/ ComponentStep(d))
  BY InboxFacts, StepFacts DEF KitInv
<1>1. CASE UNCHANGED avVars
  BY <1>1 DEF avVars, callVars
<1>2. CASE Asked(d)
  BY <1>2 DEF Asked, call, accept, reject, hangup, OwnTypeOK, callVars
<1>3. CASE AcceptStep(d)
  BY <1>3 DEF AcceptStep, AcceptFails, AcceptSucceeds, AcceptJoins, callVars
<1>4. CASE SdkStep(d)
  <2>1. CASE \/ signalingCreateCb(d) \/ signalingJoinCb(d) \/ signalingInviteCb(d)
             \/ signalingRejectCb(d) \/ signalingCloseCb(d) \/ signalingLeaveCb(d)
    BY <2>1
    DEF signalingCreateCb, signalingJoinCb, signalingInviteCb, signalingRejectCb,
        signalingCloseCb, signalingLeaveCb, callVars
  <2>2. CASE \/ handleInvited(d) \/ handleAccepted(d) \/ AcceptedJoins(d)
             \/ handleControl(d) \/ ControlJoins(d)
    BY <2>2 DEF handleInvited, handleAccepted, AcceptedJoins, handleControl, ControlJoins, callVars
  <2>3. CASE handleRejected(d) \/ handleJoin(d) \/ handleLeave(d)
    BY <2>3 DEF handleRejected, handleJoin, handleLeave, callVars
  <2>4. CASE \E kind, event : Ends(d, kind, event)
    BY <2>4 DEF Ends
  <2> QED
    BY <1>4, <2>1, <2>2, <2>3, <2>4, EndingEvents DEF SdkStep
<1>5. CASE GetToken(d) \/ onUserLeft(d) \/ OtherDevice(d) \/ TakesEvent(d)
  BY <1>5 DEF GetToken, onUserLeft, OtherDevice, TakesEvent, callVars
<1>6. CASE Timer(d)
  BY <1>6 DEF Timer, CallingTimeout
<1>7. User(d) => UNCHANGED avVars
  BY KitSteps
<1> QED
  BY <1>1, <1>2, <1>3, <1>4, <1>5, <1>6, <1>7, KitSteps DEF StepOf, Http, Engine, Elsewhere

\* ... bills are not taken back, ...
LEMMA BillsGrow ==
  ASSUME KitInv, NEW d \in Clients, StepOf(d), NEW ch \in Chan, bills[ch] # <<>>
  PROVE  bills'[ch] # <<>>
<1>1. bills \in [ChanId -> Seq(Bill)] /\ ch \in ChanId
  BY InboxFacts DEF KitInv, OwnTypeOK, ChanId
<1>2. bills' = bills \/ \E x, who, why : SendBill(x, who, why)
  BY BillsOf DEF handleInvited
<1>3. ASSUME NEW x, NEW who, NEW why, SendBill(x, who, why)
      PROVE  bills'[ch] # <<>>
  <2>1. bills'[ch] = bills[ch] \/ bills'[ch] = Append(bills[ch], [by |-> who, why |-> why])
    BY <1>1, <1>3 DEF SendBill
  <2>2. bills[ch] \in Seq(Bill)
    BY <1>1
  <2>3. Append(bills[ch], [by |-> who, why |-> why]) # <<>>
    BY <2>2
  <2> QED
    BY <2>1, <2>3
<1> QED
  BY <1>2, <1>3

\* ... and only a hangup takes an invitation back.
LEMMA CancelledOf ==
  ASSUME Inv, NEW d \in Clients, ComponentStep(d), NEW ch \in Chan,
         invitation'[ch] = "cancelled", invitation[ch] # "cancelled"
  PROVE  /\ hangup(d) /\ status[d] = "calling" /\ master[d]
         /\ creator[ch] = d /\ invitation[ch] = "pending"
<1> SvcTypeOK
  BY InboxFacts
<1>1. \A q, c : ~SignalingCreate(q, c)
  BY DEF SignalingCreate
<1>2. \A q, c, x : ~SignalingJoin(q, c, x)
  BY DEF SignalingJoin
<1>3. \A q, c, x, p : ~SignalingInvite(q, c, x, p)
  BY DEF SignalingInvite, SvcTypeOK
<1>4. \A q, c, x : ~SignalingAccept(q, c, x)
  BY DEF SignalingAccept, SvcTypeOK
<1>5. \A q, c, x, notice, answered : ~SignalingReject(q, c, x, notice, answered)
  BY DEF SignalingReject, SvcTypeOK
<1>6. \A q, c, x : ~SignalingClose(q, c, x)
  BY DEF SignalingClose, CancelAndClose
<1>7. /\ \A q : ~Silent(q)
      /\ \A q, x, p : ~SignalingControl(q, x, p)
      /\ ~UNCHANGED svcVars
  BY DEF Silent, SignalingControl, svcVars
<1>8. CASE hangup(d)
  <2>1. CancelAndClose(inbox, d, status[d] = "calling" /\ master[d], inviting[d],
                       IF master[d] THEN inviting[d] ELSE invited[d])
    BY <1>7, <1>8 DEF hangup
  <2>2. /\ status[d] = "calling" /\ master[d] /\ Pending(inviting[d]) /\ creator[inviting[d]] = d
        /\ invitation' = [invitation EXCEPT ![inviting[d]] = "cancelled"]
    BY <2>1 DEF CancelAndClose
  <2> QED
    BY <1>8, <2>2 DEF Pending, SvcTypeOK
<1>9. CASE Asked(d) /\ ~hangup(d)
  BY <1>1, <1>4, <1>5, <1>9 DEF Asked, call, accept, reject
<1>10. CASE SdkStep(d)
  <2>1. ~signalingCreateCb(d) /\ ~signalingJoinCb(d)
    BY <1>2, <1>3, <1>6, <1>7 DEF signalingCreateCb, signalingJoinCb
  <2>2. ~(\/ signalingInviteCb(d) \/ signalingRejectCb(d)
          \/ signalingCloseCb(d) \/ signalingLeaveCb(d))
    BY <1>7 DEF signalingInviteCb, signalingRejectCb, signalingCloseCb, signalingLeaveCb
  <2>3. ~(handleInvited(d) \/ handleRejected(d) \/ handleJoin(d))
    BY <1>5, <1>6, <1>7 DEF handleInvited, handleRejected, handleJoin
  <2>4. ~(\/ handleAccepted(d) \/ handleControl(d) \/ handleLeave(d)
          \/ \E kind, event : Ends(d, kind, event))
    BY <1>7 DEF handleAccepted, handleControl, handleLeave, Ends
  <2>5. ~(AcceptedJoins(d) \/ ControlJoins(d))
    BY <1>7 DEF AcceptedJoins, ControlJoins
  <2> QED
    BY <1>10, <2>1, <2>2, <2>3, <2>4, <2>5, EndingEvents DEF SdkStep
<1>11. CASE AcceptStep(d) \/ OwnStep(d) \/ TakesEvent(d)
  BY <1>7, <1>11
  DEF AcceptStep, AcceptFails, AcceptSucceeds, AcceptJoins, OwnStep, CallingTimeout, GetToken,
      onUserLeft, TakesEvent
<1>12. CASE OtherDevice(d)
  <2>1. PICK x \in Chan, accepts \in BOOLEAN : OtherDeviceAnswers(d, x, accepts)
    BY <1>12 DEF OtherDevice
  <2> QED
    BY <2>1 DEF OtherDeviceAnswers, SvcTypeOK
<1> QED
  BY <1>8, <1>9, <1>10, <1>11, <1>12 DEF ComponentStep, Inside

\* What comes is no joining, or no good answer at all.
LEMMA FollowSetup ==
  ASSUME NEW c \in Clients, NEW o \in {0, 1}, NEW K, Follow(inbox'[c], inbox[c], o, K)
  PROVE  /\ (\A m \in K : ~(Setup(m) /\ m.kind = "joinCb")) => (Joined(c)' => Joined(c))
         /\ (\A m \in K : ~Setup(m)) /\ NoSetup(inbox[c]) => NoSetup(inbox'[c])
<1>1. \A i \in DOMAIN inbox'[c] :
        Setup(inbox'[c][i]) =>
          \/ i + o \in DOMAIN inbox[c] /\ inbox'[c][i] = inbox[c][i + o]
          \/ inbox'[c][i] \in K
  BY DEF Follow, Held, Light, Weighty
<1> QED
  BY <1>1 DEF Joined, NoSetup

\* So it is for what a step adds.
LEMMA ComesSetup ==
  ASSUME NEW c \in Clients, NEW K, Comes(c, K)
  PROVE  /\ (\A m \in K : ~(Setup(m) /\ m.kind = "joinCb")) => (Joined(c)' => Joined(c))
         /\ (\A m \in K : ~Setup(m)) /\ NoSetup(inbox[c]) => NoSetup(inbox'[c])
BY FollowSetup DEF Comes

\* What the messages for a caller tell of its channel.
LEMMA CallerMail ==
  ASSUME NEW d \in Clients, Turn(d), NEW c \in Clients, NEW ch, Caller(c, ch)
  PROVE  /\ invitation[ch] = "none" /\ invitation'[ch] # "none" => Joined(c)
         /\ Joined(c)' => \/ Joined(c)
                          \/ c = d /\ created'[d] = ch
         /\ NoSetup(inbox[c]) => NoSetup(inbox'[c])
<1> /\ KitInv /\ Inv /\ Inv' /\ Sides /\ Directed /\ StepOf(d) /\ OwnTypeOK /\ SvcTypeOK
    /\ Unused = {} /\ ch \in Chan /\ \A x \in Chan : x = ch
  BY TurnFacts, TheCaller
<1>1. CASE ServiceKept /\ NewsOf(c)
  <2>1. invitation[ch] = "none" => invitation'[ch] = "none"
    BY <1>1 DEF ServiceKept
  <2>2. PICK K : Comes(c, K) /\ \A m \in K : m.kind = "Reject"
    <3>1. CASE Comes(c, {})
      <4>1. \A m \in {} : m.kind = "Reject"
        OBVIOUS
      <4> QED
        BY <3>1, <4>1
    <3>2. CASE \E x \in Chan : Comes(c, {News("Reject", x)})
      <4>1. PICK x \in Chan : Comes(c, {News("Reject", x)})
        BY <3>2
      <4>2. \A m \in {News("Reject", x)} : m.kind = "Reject"
        BY DEF News, Msg
      <4> QED
        BY <4>1, <4>2
    <3> QED
      BY <1>1, <3>1, <3>2 DEF NewsOf
  <2>3. \A m \in K : ~Setup(m)
    BY <2>2 DEF Setup
  <2>4. Comes(c, K)
    BY <2>2
  <2> QED
    BY <2>1, <2>3, <2>4, ComesSetup
<1>2. CASE Joins(d, c)
  <2>1. /\ ServiceKept /\ c = d /\ Setup(Got(d)) /\ Gets(d, "createCb") /\ signalingCreateCb(d)
    BY <1>2 DEF Joins
  <2>2. ~NoSetup(inbox[c]) /\ Caller(d, Got(d).ch)
    BY <2>1, HeadMail DEF NoSetup, Setup, Founded
  <2>3. created'[d] = Got(d).ch
    BY <2>1 DEF signalingCreateCb, Setup, OwnTypeOK
  <2>4. created'[d] = ch
    BY <2>2, <2>3 DEF Caller
  <2> QED
    BY <2>1, <2>2, <2>4 DEF ServiceKept
<1>3. CASE Invites(d, c)
  <2>1. Setup(Got(d)) /\ Gets(d, "joinCb") /\ Caller(d, Got(d).ch)
    BY <1>3 DEF Invites
  <2>2. d = c
    BY <2>1 DEF Caller
  <2>3. Joined(c) /\ ~NoSetup(inbox[c])
    BY <2>1, <2>2, HeadMail DEF Joined, NoSetup
  <2> QED
    BY <2>3
<1>4. ~Founds(d, c)
  BY DEF Founds
<1> QED
  BY <1>1, <1>2, <1>3, <1>4, Mail

\* What c knows of its channel it goes on knowing while it is the master.
LEMMA PlacedKept ==
  ASSUME NEW d \in Clients, Turn(d), ~Hasty, NEW c \in Clients, NEW ch, Caller(c, ch),
         Placed(c, ch)
  PROVE  Placed(c, ch)'
<1> /\ KitInv /\ Inv /\ Inv' /\ Sides /\ Directed /\ StepOf(d) /\ OwnTypeOK /\ SvcTypeOK
    /\ Unused = {} /\ ch \in Chan /\ \A x \in Chan : x = ch
    /\ UNCHANGED avVars \/ ComponentStep(d)
  BY TurnFacts, TheCaller
<1>1. master'[c] => master[c]
  <2>1. CASE c # d
    BY <2>1, StepFacts DEF Mine
  <2>2. CASE UNCHANGED avVars
    BY <2>2 DEF avVars, callVars
  <2>3. CASE c = d /\ ComponentStep(d)
    BY <2>3, CalmOf
  <2> QED
    BY <2>1, <2>2, <2>3
<1>2. Has(inbox'[c], "closeCb") => ~master'[c]
  <2>1. CASE Has(inbox[c], "closeCb")
    BY <1>1, <2>1 DEF Placed
  <2>2. CASE ~Has(inbox[c], "closeCb")
    <3>1. CASE UNCHANGED avVars
      BY <2>2, <3>1 DEF avVars, svcVars
    <3>2. CASE ComponentStep(d)
      BY <2>2, <3>2, ClosesOf DEF NoClose
    <3> QED
      BY <3>1, <3>2
  <2> QED
    BY <2>1, <2>2
<1>3. ASSUME master'[c], created[c] = ch
      PROVE  created'[c] = ch
  <2>1. CASE c # d
    BY <1>3, <2>1, StepFacts DEF Mine
  <2>2. CASE UNCHANGED avVars
    BY <1>3, <2>2 DEF avVars, chanVars
  <2>3. CASE c = d /\ ComponentStep(d)
    <3>1. ~Gets(d, "closeCb")
      BY <1>1, <1>3, <2>3, HeadMail DEF Placed, Has
    <3>2. Gets(d, "createCb") /\ Got(d).ok => Got(d).ch = ch
      BY HeadMail DEF Founded, Caller
    <3> QED
      BY <1>3, <2>3, <3>1, <3>2, CreatedOf
  <2> QED
    BY <2>1, <2>2, <2>3
<1>4. ASSUME master'[c], Joined(c)' \/ invitation'[ch] # "none"
      PROVE  created'[c] = ch
  <2>1. Joined(c) \/ invitation[ch] # "none" => created[c] = ch
    BY <1>1, <1>4 DEF Placed
  <2> QED
    BY <1>3, <1>4, <2>1, CallerMail
<1>5. ASSUME master'[c], hurry'[c]
      PROVE  \/ bills'[ch] # <<>>
             \/ invitation'[ch] = "none" /\ NoSetup(inbox'[c])
  <2>1. CASE hurry[c]
    <3>1. bills[ch] # <<>> \/ (invitation[ch] = "none" /\ NoSetup(inbox[c]))
      BY <1>1, <1>5, <2>1 DEF Placed
    <3>2. NoSetup(inbox[c]) => ~Joined(c)
      BY DEF NoSetup, Joined
    <3> QED
      BY <3>1, <3>2, BillsGrow, CallerMail
  <2>2. CASE ~hurry[c]
    <3>1. c = d
      BY <1>5, <2>2, StepFacts DEF Mine
    <3>2. Timer(d) /\ status[d] = "calling"
      BY <1>5, <2>2, <3>1, HurryOf
    <3>3. CallingTimeout(d) /\ Settled(d) /\ master[d]
      BY <1>1, <1>5, <3>1, <3>2 DEF Timer
    <3>4. \E why : SendBill(created[d], d, why)
      BY <3>2, <3>3 DEF CallingTimeout, handleNetCallMsg
    <3>5. CASE created[d] = ch
      <4>1. PICK why : bills' = [bills EXCEPT ![ch] = Append(@, [by |-> d, why |-> why])]
        BY <3>4, <3>5 DEF SendBill
      <4>2. bills'[ch] = Append(bills[ch], [by |-> d, why |-> why]) /\ bills[ch] \in Seq(Bill)
        BY <4>1 DEF OwnTypeOK, ChanId
      <4>3. Append(bills[ch], [by |-> d, why |-> why]) # <<>>
        BY <4>2
      <4> QED
        BY <4>2, <4>3
    <3>6. CASE created[d] # ch
      <4>1. invitation[ch] = "none"
        BY <3>1, <3>3, <3>6 DEF Placed
      <4>2. NoSetup(inbox[d])
        BY <3>3 DEF Settled, NoSetup, Setup, Answer
      <4>3. UNCHANGED <<invitation, inbox>>
        BY <3>3 DEF CallingTimeout, svcVars
      <4> QED
        BY <3>1, <4>1, <4>2, <4>3
    <3> QED
      BY <3>5, <3>6
  <2> QED
    BY <2>1, <2>2
<1> QED
  BY <1>2, <1>4, <1>5 DEF Placed

\* Who asked for the channel asked afresh.
LEMMA PlacedFirst ==
  ASSUME NEW d \in Clients, Turn(d), NoCall, \A c \in Clients : Prior(c),
         NEW c \in Clients, NEW ch, Caller(c, ch)'
  PROVE  Placed(c, ch)'
<1> /\ KitInv /\ Inv /\ Inv' /\ Sides /\ Directed /\ StepOf(d) /\ OwnTypeOK /\ SvcTypeOK
    /\ inbox \in Inboxes /\ ch \in Chan /\ NoClient \notin Clients
  BY TurnFacts DEF Caller
<1>1. creator[ch] = NoClient /\ creator'[ch] = c
  BY DEF NoCall, Caller
<1>2. Founds(d, c)
  <2>1. ~ServiceKept
    BY <1>1 DEF ServiceKept
  <2>2. ~Joins(d, c)
    BY <2>1 DEF Joins
  <2>3. ~Invites(d, c)
    BY <1>1 DEF Invites
  <2> QED
    BY <2>1, <2>2, <2>3, Mail
<1>3. PICK x \in Unused : creator' = [creator EXCEPT ![x] = d]
  BY <1>2 DEF Founds
<1>4. c = d
  BY <1>1, <1>3 DEF SvcTypeOK
<1>5. /\ requests[d] # <<>> /\ Head(requests[d]).op = "call" /\ call(d, Head(requests[d]).peer)
  BY <1>2 DEF Founds, RunsCall, Runs
<1>6. Wants(requests[d], "call")
  BY <1>5, WantsNext DEF KitInv, UiTypeOK
<1>7. ~Has(inbox[d], "closeCb") /\ ~hurry[d] /\ Only(inbox[d], {"createCb", "closeCb"})
  BY <1>6 DEF Prior, Afresh, Unreached
<1>8. hurry' = hurry /\ SignalingCreate(inbox, d)
  BY <1>5 DEF call
<1>9. PICK y \in ChanId, ok \in BOOLEAN : inbox' = Push(inbox, {d}, Msg("createCb", y, ok))
  BY <1>8 DEF SignalingCreate, Unused, ChanId
<1> DEFINE m == Msg("createCb", y, ok)
<1>10. m \in Message /\ m.kind = "createCb"
  BY MsgIsMessage DEF Answer, Msg
<1>11. inbox' = Push(inbox, {d}, m)
  BY <1>9
<1> HIDE DEF m
<1>12. inbox'[d] = Append(inbox[d], m) /\ inbox[d] \in Seq(Message)
  BY <1>10, <1>11, PushAtEnd
<1>13. ~Has(inbox'[d], "closeCb") /\ Only(inbox'[d], {"createCb", "closeCb"})
  BY <1>7, <1>10, <1>12, HasNext, OnlyNext
<1>14. ~Joined(d)'
  BY <1>13 DEF Joined, Only
<1>15. invitation'[ch] = "none"
  BY <1>1, <1>2 DEF Founds, Sides
<1> QED
  BY <1>4, <1>7, <1>8, <1>13, <1>14, <1>15 DEF Placed

\* Who takes the invitation back writes the bill, or the timer has.
LEMMA CancelledKept ==
  ASSUME NEW d \in Clients, Turn(d), TakenBackInv, NEW ch \in Chan,
         invitation'[ch] = "cancelled"
  PROVE  bills'[ch] # <<>>
<1> KitInv /\ Inv /\ StepOf(d) /\ OwnTypeOK /\ (UNCHANGED avVars \/ ComponentStep(d))
  BY TurnFacts
<1>1. CASE invitation[ch] = "cancelled"
  BY <1>1, BillsGrow DEF TakenBackInv
<1>2. CASE invitation[ch] # "cancelled"
  <2>1. ComponentStep(d)
    BY <1>2 DEF avVars, svcVars
  <2>2. /\ hangup(d) /\ status[d] = "calling" /\ master[d]
        /\ creator[ch] = d /\ invitation[ch] = "pending"
    BY <1>2, <2>1, CancelledOf
  <2>3. Placed(d, ch)
    BY <2>2 DEF TakenBackInv, Caller
  <2>4. CASE hurry[d]
    <3>1. bills[ch] # <<>>
      BY <2>2, <2>3, <2>4 DEF Placed
    <3> QED
      BY <3>1, BillsGrow
  <2>5. CASE ~hurry[d]
    <3>1. created[d] = ch
      BY <2>2, <2>3 DEF Placed
    <3>2. SendBill(created[d], d, "Canceled")
      BY <2>2, <2>5 DEF hangup, handleNetCallMsg
    <3>3. /\ bills'[ch] = Append(bills[ch], [by |-> d, why |-> "Canceled"])
          /\ bills[ch] \in Seq(Bill)
      BY <3>1, <3>2 DEF SendBill, OwnTypeOK, ChanId
    <3>4. Append(bills[ch], [by |-> d, why |-> "Canceled"]) # <<>>
      BY <3>3
    <3> QED
      BY <3>3, <3>4
  <2> QED
    BY <2>4, <2>5
<1> QED
  BY <1>1, <1>2

\* Nothing is asked for and there is no call at first ...
LEMMA TakenBackInitially ==
  ASSUME KitInit
  PROVE  TakenBackInv
<1> USE DEF KitInit, Init, SvcInit, NoForm
<1>1. ASSUME NEW c \in Clients
      PROVE  Prior(c)
  <2>1. /\ inbox[c] = <<>> /\ events[c] = <<>> /\ requests[c] = <<>> /\ ~left[c] /\ ~hurry[c]
        /\ form[c].view = "none" /\ ghost[c].view = "none" /\ status[c] = "idle"
    OBVIOUS
  <2> HIDE DEF KitInit, Init, SvcInit, NoForm
  <2>2. Unreached(c)
    BY <2>1, NothingIn DEF Unreached
  <2>3. Marked(c) /\ Failing(c)
    BY <2>1 DEF Marked, Failing
  <2>4. Afresh(c)
    BY <2>1, NothingIn DEF Afresh
  <2> QED
    BY <2>2, <2>3, <2>4 DEF Prior
<1>2. \A c \in Clients, ch \in Chan : ~Caller(c, ch)
  BY SignalingAssumption DEF Caller
<1>3. \A ch \in Chan : invitation[ch] # "cancelled"
  OBVIOUS
<1> QED
  BY <1>1, <1>2, <1>3 DEF TakenBackInv

\* ... and every step keeps what is known before the call and during it.
LEMMA TakenBackStep ==
  ASSUME KitInv, Inv', BillInv, Directed, OneCall, IsFiniteSet(Clients), ~Hasty, TakenBackInv,
         [KitNext]_vars
  PROVE  TakenBackInv'
<1>1. CASE UNCHANGED vars
  <2> USE <1>1 DEF vars, avVars, uiVars, svcVars, callVars, chanVars, rtcVars
  <2>1. \A c \in Clients : Prior(c) => Prior(c)'
    BY DEF Prior, Unreached, Marked, Failing, Afresh
  <2>2. \A c \in Clients, ch \in Chan : Placed(c, ch) => Placed(c, ch)'
    BY DEF Placed, Joined
  <2> QED
    BY <2>1, <2>2 DEF TakenBackInv, NoCall, Caller
<1>2. CASE KitNext
  <2>1. PICK d \in Clients : StepOf(d)
    BY <1>2 DEF KitNext, StepOf
  <2>2. Turn(d)
    BY <2>1 DEF Turn
  <2>3. NoCall' => NoCall
    <3>1. ASSUME NEW ch \in Chan, creator'[ch] = NoClient
          PROVE  creator[ch] = NoClient
      <4>1. creator[ch] \in Clients \cup {NoClient}
        BY <2>2, TurnFacts DEF SvcTypeOK
      <4> QED
        BY <2>2, <3>1, <4>1, Channels, SignalingAssumption
    <3> QED
      BY <3>1 DEF NoCall
  <2>4. NoCall' => \A c \in Clients : Prior(c)'
    BY <2>2, <2>3, PriorKept DEF TakenBackInv
  <2>5. ASSUME NEW c \in Clients, NEW ch \in Chan, Caller(c, ch)'
        PROVE  Placed(c, ch)'
    <3>1. CASE Caller(c, ch)
      BY <2>2, <3>1, PlacedKept DEF TakenBackInv
    <3>2. CASE ~Caller(c, ch)
      <4>1. NoCall
        <5>1. ASSUME NEW x \in Chan, creator[x] # NoClient
              PROVE  FALSE
          <6>1. x = ch
            BY DEF OneCall
          <6>2. creator[ch] \in Clients /\ creator'[ch] = creator[ch]
            BY <2>2, <5>1, <6>1, TurnFacts, Channels DEF SvcTypeOK
          <6> QED
            BY <2>5, <3>2, <6>2 DEF Caller
        <5> QED
          BY <5>1 DEF NoCall
      <4> QED
        BY <2>2, <2>5, <4>1, PlacedFirst DEF TakenBackInv
    <3> QED
      BY <3>1, <3>2
  <2>6. \A ch \in Chan : invitation'[ch] = "cancelled" => bills'[ch] # <<>>
    BY <2>2, CancelledKept
  <2> QED
    BY <2>4, <2>5, <2>6 DEF TakenBackInv
<1> QED
  BY <1>1, <1>2

\* A call taken back is written into the session in the end: if it is the only
\* call there can be, the call leaves hold only who takes part, and users and
\* timer wait for what is under way, then no invitation is withdrawn unbilled
\* (AvChatComponent::hangup, onCallingTimeOut and cancelInvite).
THEOREM OneCallTakenBackBilled ==
  ASSUME MaxCalls <= 1, ~Hasty, Directed, IsFiniteSet(Clients)
  PROVE  KitSpec => []WithdrawnCallBilled
<1>1. OneCall
  BY SignalingAssumption DEF Chan, OneCall
<1>2. KitInit => BillInv /\ TakenBackInv
  BY BillInitially, TakenBackInitially
<1>3. KitInv /\ KitInv' /\ BillInv /\ TakenBackInv /\ [KitNext]_vars => BillInv' /\ TakenBackInv'
  <2> SUFFICES ASSUME KitInv, KitInv', BillInv, TakenBackInv, [KitNext]_vars
               PROVE  BillInv' /\ TakenBackInv'
    OBVIOUS
  <2>1. Inv'
    BY DEF KitInv
  <2>2. BillInv'
    BY <1>1, <2>1, BillStep
  <2>3. TakenBackInv'
    BY <1>1, <2>1, TakenBackStep
  <2> QED
    BY <2>2, <2>3
<1>4. TakenBackInv => WithdrawnCallBilled
  BY DEF TakenBackInv, WithdrawnCallBilled
<1> QED
  BY <1>2, <1>3, <1>4, KitInvariance, PTL DEF KitSpec

-----------------------------------------------------------------------------
(* No dead window for the one call, if the service fails nothing.          *)
(*                                                                         *)
(* The component falls idle behind a window in two ways: it is told to, or *)
(* what it asked for itself is answered.  The first is announced to the    *)
(* window; the second follows only on a request of a window that has ended *)
(* already, or on a refused joining: AwakeInv says so of what is on its    *)
(* way.                                                                    *)

\* The events that end a window, ...
Final == {"onUserReject", "onUserBusy", "onUserLeave", "onUserCancel", "onCallEnd",
          "onCallingTimeOut", "onOtherClientAccept", "onOtherClientReject"}

\* ... one that has ended or will, and one that is there or will be.
Ending(c) == form[c].end # "none" \/ \E i \in DOMAIN events[c] : events[c][i].kind \in Final
Opened(c) == form[c] # NoForm \/ Has(events[c], "onInvited")

\* The only window there was: it asks for an end when it has ended, and an invitation
\* is the first thing to be heard of.
Sole(c) ==
  /\ ghost[c] = NoForm
  /\ \A i \in DOMAIN requests[c] :
       requests[c][i].op \in {"reject", "hangup"} => form[c].end # "none"
  /\ \A i \in DOMAIN events[c] :
       events[c][i].kind = "onInvited" => i = 1 /\ form[c] = NoForm

Awake(c) ==
  /\ Sole(c)
  /\ Clear(inbox[c], Graves) \/ Ending(c)
  /\ status[c] = "idle" /\ Opened(c) => Ending(c) \/ Wants(requests[c], "call")
  /\ c \in Dialling /\ form[c] # NoForm /\ Unused # {} =>
       requests[c] # <<>> /\ Head(requests[c]).op = "call"

AwakeInv ==
  /\ \A c \in Clients : Awake(c)
  /\ \A c \in Clients, ch \in Chan :
       Caller(c, ch) /\ ~open[ch] /\ ~Answered(ch) => Ending(c)

-----------------------------------------------------------------------------
(* What makes the component idle, and what closes a channel.               *)

\* The events of the handlers that end a call.
LEMMA FinalEnds ==
  ASSUME NEW d,
         \/ handleClose(d) \/ handleCancelInvite(d)
         \/ handleOtherClientAccepted(d) \/ handleOtherClientRejected(d)
  PROVE  \E kind \in Final : Tell(d, kind, NoClient)
BY DEF handleClose, handleCancelInvite, handleOtherClientAccepted, handleOtherClientRejected,
       Ends, Final

\* A component falls idle when it is answered, or it says that the call is over.
LEMMA IdleOf ==
  ASSUME Inv, NEW d \in Clients, ComponentStep(d), status[d] # "idle", status'[d] = "idle"
  PROVE  \/ \E kind \in {"closeCb", "rejectCb", "leaveCb"} : Gets(d, kind)
         \/ \E kind \in Final : Tell(d, kind, NoClient)
<1> OwnTypeOK
  BY InboxFacts
<1>1. CASE Asked(d)
  BY <1>1 DEF Asked, call, accept, reject, hangup, callVars, OwnTypeOK
<1>2. CASE AcceptStep(d)
  BY <1>2 DEF AcceptStep, AcceptFails, AcceptSucceeds, AcceptJoins, callVars, OwnTypeOK
<1>3. CASE OwnStep(d) \/ OtherDevice(d) \/ TakesEvent(d)
  BY <1>3 DEF OwnStep, CallingTimeout, GetToken, onUserLeft, OtherDevice, TakesEvent, callVars
<1>4. CASE SdkStep(d)
  <2>1. CASE signalingJoinCb(d) \/ signalingInviteCb(d) \/ handleInvited(d) \/ AcceptedJoins(d)
    BY <2>1 DEF signalingJoinCb, signalingInviteCb, handleInvited, AcceptedJoins, OwnTypeOK
  <2>2. CASE signalingRejectCb(d) \/ signalingCloseCb(d) \/ signalingLeaveCb(d)
    BY <2>2 DEF signalingRejectCb, signalingCloseCb, signalingLeaveCb
  <2>3. CASE handleRejected(d)
    BY <2>3 DEF handleRejected, Final
  <2>4. CASE \/ signalingCreateCb(d) \/ handleAccepted(d) \/ handleControl(d)
             \/ ControlJoins(d) \/ handleJoin(d) \/ handleLeave(d)
    BY <2>4
    DEF signalingCreateCb, handleAccepted, handleControl, ControlJoins, handleJoin, handleLeave,
        callVars
  <2> QED
    BY <1>4, <2>1, <2>2, <2>3, <2>4, FinalEnds DEF SdkStep
<1> QED
  BY <1>1, <1>2, <1>3, <1>4 DEF ComponentStep, Inside

\* A close is the service's answer to a member.
LEMMA CloseByMember ==
  ASSUME SvcTypeOK, NEW q, NEW d, NEW cancels, NEW x, NEW ch,
         CancelAndClose(q, d, cancels, x, ch), NEW y \in Chan, open[y], ~open'[y]
  PROVE  d \in members[y]
BY DEF CancelAndClose, Verdicts, SvcTypeOK

\* Only a hangup, a failed joining and a busy answer close.
LEMMA ClosedBy ==
  ASSUME KitInv, NEW d \in Clients, StepOf(d), NEW ch \in Chan, open[ch], ~open'[ch]
  PROVE  /\ d \in members[ch]
         /\ \/ RunsHangup(d)
            \/ signalingJoinCb(d) /\ ~Got(d).ok
            \/ handleRejected(d) /\ Gets(d, "Busy")
<1> Inv /\ SvcTypeOK
  BY InboxFacts DEF KitInv
<1>1. CASE Worker(d)
  <2>1. CASE RunsCall(d)
    <3>1. SignalingCreate(inbox, d)
      BY <2>1 DEF RunsCall, call
    <3> QED
      BY <3>1 DEF SignalingCreate, SvcTypeOK
  <2>2. CASE RunsAccept(d) \/ RunsReject(d)
    BY <2>2 DEF RunsAccept, RunsReject, accept, reject, SignalingAccept, SignalingReject
  <2>3. CASE RunsHangup(d)
    BY <2>3, CloseByMember DEF RunsHangup, hangup, svcVars
  <2> QED
    BY <1>1, <2>1, <2>2, <2>3 DEF Worker
<1>2. CASE SdkStep(d)
  <2>1. CASE signalingJoinCb(d)
    <3>1. \/ SignalingInvite(Rest(d), d, Got(d).ch, to[d])
          \/ ~Got(d).ok /\ CancelAndClose(Rest(d), d, FALSE, NoChan, created[d])
      BY <2>1 DEF signalingJoinCb, SignalingClose
    <3>2. ~SignalingInvite(Rest(d), d, Got(d).ch, to[d])
      BY DEF SignalingInvite
    <3> QED
      BY <2>1, <3>1, <3>2, CloseByMember
  <2>2. CASE handleRejected(d)
    <3>1. \/ Silent(Rest(d))
          \/ Gets(d, "Busy") /\ CancelAndClose(Rest(d), d, FALSE, NoChan, Got(d).ch)
      BY <2>2 DEF handleRejected, SignalingClose
    <3>2. ~Silent(Rest(d))
      BY DEF Silent
    <3> QED
      BY <2>2, <3>1, <3>2, CloseByMember
  <2>3. CASE \/ signalingCreateCb(d) \/ handleInvited(d) \/ handleJoin(d)
    BY <2>3
    DEF signalingCreateCb, handleInvited, handleJoin, Silent, SignalingJoin, SignalingReject,
        SignalingControl
  <2>4. CASE \/ signalingInviteCb(d) \/ signalingRejectCb(d) \/ signalingCloseCb(d)
             \/ signalingLeaveCb(d) \/ handleAccepted(d) \/ handleControl(d) \/ handleLeave(d)
             \/ \E kind, event : Ends(d, kind, event)
    BY <2>4
    DEF signalingInviteCb, signalingRejectCb, signalingCloseCb, signalingLeaveCb,
        handleAccepted, handleControl, handleLeave, Ends, Silent
  <2>5. CASE AcceptedJoins(d) \/ ControlJoins(d)
    BY <2>5 DEF AcceptedJoins, ControlJoins, svcVars
  <2> QED
    BY <1>2, <2>1, <2>2, <2>3, <2>4, <2>5, EndingEvents DEF SdkStep
<1>3. CASE AcceptStep(d)
  BY <1>3 DEF AcceptStep, AcceptFails, AcceptSucceeds, AcceptJoins, Silent, svcVars
<1>4. CASE OwnStep(d) \/ OtherDevice(d) \/ TakesEvent(d) \/ UNCHANGED avVars
  BY <1>4
  DEF OwnStep, CallingTimeout, GetToken, onUserLeft, TakesEvent, OtherDevice,
      OtherDeviceAnswers, avVars, svcVars
<1> QED
  BY <1>1, <1>2, <1>3, <1>4, KitSteps DEF StepOf

\* What was answered stays so.
LEMMA AnsweredStays ==
  ASSUME Inv, NEW d \in Clients, ComponentStep(d), NEW ch \in Chan, Answered(ch)
  PROVE  Answered(ch)'
<1> SvcTypeOK
  BY InboxFacts
<1>1. CASE Asked(d)
  BY <1>1
  DEF Asked, call, accept, reject, hangup, SignalingCreate, SignalingAccept, SignalingReject,
      CancelAndClose, Pending, Verdicts, svcVars, Answered, SvcTypeOK
<1>2. CASE SdkStep(d)
  <2>1. CASE signalingJoinCb(d)
    BY <2>1
    DEF signalingJoinCb, SignalingClose, CancelAndClose, SignalingInvite, Verdicts, Answered,
        SvcTypeOK
  <2>2. CASE handleRejected(d)
    BY <2>2 DEF handleRejected, Silent, SignalingClose, CancelAndClose, Answered
  <2>3. CASE signalingCreateCb(d) \/ handleInvited(d) \/ handleJoin(d)
    BY <2>3
    DEF signalingCreateCb, handleInvited, handleJoin, Silent, SignalingJoin, SignalingReject,
        SignalingControl, Pending, Verdicts, Answered, SvcTypeOK
  <2>4. CASE \/ signalingInviteCb(d) \/ signalingRejectCb(d) \/ signalingCloseCb(d)
             \/ signalingLeaveCb(d) \/ handleAccepted(d) \/ handleControl(d) \/ handleLeave(d)
             \/ \E kind, event : Ends(d, kind, event)
    BY <2>4
    DEF signalingInviteCb, signalingRejectCb, signalingCloseCb, signalingLeaveCb,
        handleAccepted, handleControl, handleLeave, Ends, Silent, Answered
  <2>5. CASE AcceptedJoins(d) \/ ControlJoins(d)
    BY <2>5 DEF AcceptedJoins, ControlJoins, svcVars, Answered
  <2> QED
    BY <1>2, <2>1, <2>2, <2>3, <2>4, <2>5, EndingEvents DEF SdkStep
<1>3. CASE AcceptStep(d)
  BY <1>3 DEF AcceptStep, AcceptFails, AcceptSucceeds, AcceptJoins, Silent, svcVars, Answered
<1>4. CASE OwnStep(d) \/ OtherDevice(d) \/ TakesEvent(d)
  BY <1>4
  DEF OwnStep, CallingTimeout, GetToken, onUserLeft, TakesEvent, OtherDevice,
      OtherDeviceAnswers, Pending, svcVars, Answered, SvcTypeOK
<1> QED
  BY <1>1, <1>2, <1>3, <1>4 DEF ComponentStep, Inside

-----------------------------------------------------------------------------
(* What a step makes of a window that nothing replaced.                    *)

\* The window stays, ends at most, and asks for an end only when it ended.
Onward(d) ==
  /\ ghost'[d] = ghost[d]
  /\ form'[d] = NoForm <=> form[d] = NoForm
  /\ form[d].end # "none" => form'[d].end # "none"
  /\ \/ requests'[d] = requests[d]
     \/ \E op \in {"accept", "reject", "hangup"} :
          /\ requests'[d] = Append(requests[d], [op |-> op, peer |-> NoClient])
          /\ op # "accept" => form'[d].end # "none"
     \/ Worker(d) /\ requests[d] # <<>> /\ requests'[d] = Tail(requests[d])

\* An end page, ...
LEMMA EndPageOn ==
  ASSUME KitInv, NEW d \in Clients, form[d] # NoForm, NEW why \in EndCall,
         EnterEndCallPage(d, why)
  PROVE  Onward(d) /\ form'[d].end # "none"
<1>1. form \in [Clients -> Form] /\ form[d] \in Windows /\ why # "none"
      /\ requests \in [Clients -> Seq(Op)]
  BY WindowFacts DEF KitInv, UiTypeOK, EndCall
<1>2. CASE form[d].end # "none" /\ UNCHANGED uiVars
  BY <1>2 DEF uiVars, Onward
<1>3. CASE /\ form' = [form EXCEPT ![d].end = why]
           /\ EndRequest(d, why) /\ ghost' = ghost
  <2>1. form'[d].end = why /\ form'[d] # NoForm
    BY <1>1, <1>3, WindowFacts DEF Windows
  <2>2. \/ requests' = requests
        \/ \E op \in {"reject", "hangup"} : Request(d, op, NoClient)
    BY <1>3 DEF EndRequest
  <2>3. \/ requests'[d] = requests[d]
        \/ \E op \in {"reject", "hangup"} :
             requests'[d] = Append(requests[d], [op |-> op, peer |-> NoClient])
    BY <1>1, <2>2 DEF Request
  <2> QED
    BY <1>1, <1>3, <2>1, <2>3 DEF Onward
<1> QED
  BY <1>2, <1>3 DEF EnterEndCallPage

\* ... and a page of the call.
LEMMA StatusPageOn ==
  ASSUME KitInv, NEW d \in Clients, form[d] # NoForm, NEW view \in {"dial", "talk"},
         form' = [form EXCEPT ![d].view = view], ghost' = ghost,
         requests' = requests \/ Request(d, "accept", NoClient)
  PROVE  Onward(d)
<1>1. form \in [Clients -> Form] /\ form[d] \in Windows /\ requests \in [Clients -> Seq(Op)]
  BY WindowFacts DEF KitInv, UiTypeOK
<1>2. form'[d].end = form[d].end /\ form'[d] # NoForm
  <2>1. form'[d] = [form[d] EXCEPT !.view = view]
    BY <1>1
  <2>2. form'[d] \in Windows
    BY <1>1, <2>1, WindowFacts
  <2>3. form'[d].end = form[d].end
    BY <1>1, <2>1 DEF Windows
  <2> QED
    BY <2>2, <2>3, WindowFacts
<1>3. \/ requests'[d] = requests[d]
      \/ requests'[d] = Append(requests[d], [op |-> "accept", peer |-> NoClient])
  BY <1>1 DEF Request
<1> QED
  BY <1>2, <1>3 DEF Onward

\* Every button but that of a new call ...
LEMMA UserOn ==
  ASSUME KitInv, NEW d \in Clients, ghost[d] = NoForm, User(d)
  PROVE  Onward(d) \/ \E p \in Clients : <<d, p>> \in Dials /\ Dial(d, p)
<1>1. CASE Complete(d)
  <2>1. form[d] # NoForm
    BY <1>1, WindowFacts DEF Complete
  <2> QED
    BY <1>1, <2>1, StatusPageOn DEF Complete
<1>2. CASE Refuse(d) \/ StopChat(d) \/ QuitMsgBox(d)
  <2>1. form[d] # NoForm
    BY <1>2, WindowFacts DEF Refuse, StopChat, QuitMsgBox
  <2>2. \E why \in EndCall : EnterEndCallPage(d, why)
    BY <1>2 DEF Refuse, StopChat, QuitMsgBox, EndCall
  <2> QED
    BY <2>1, <2>2, EndPageOn
<1>3. ~UseGhost(d)
  BY WindowFacts DEF UseGhost
<1> QED
  BY <1>1, <1>2, <1>3 DEF User

\* ... and every event but that of an invitation; those of an end leave no window open.
LEMMA EventOn ==
  ASSUME KitInv, NEW d \in Clients, HandlesEvent(d)
  PROVE  /\ Onward(d) \/ OnInvitedCb(d)
         /\ Head(events[d]).kind \in Final => form'[d].end # "none"
<1> Windowless(d)
  BY DEF KitInv
<1>1. CASE OnInvitedCb(d)
  BY <1>1 DEF OnInvitedCb, Takes, Final
<1>2. ASSUME events[d] # <<>>, Head(events[d]).kind # "onInvited"
      PROVE  form[d] # NoForm
  BY <1>2 DEF Windowless, Before, Untouched, Announced
<1>3. CASE OnCallingCb(d) \/ OnUserAcceptCb(d) \/ OnUserEnterCb(d)
  <2>1. form[d] # NoForm /\ Head(events[d]).kind \notin Final
    BY <1>2, <1>3 DEF OnCallingCb, OnUserAcceptCb, OnUserEnterCb, Takes, TakesEvent, Final
  <2>2. \/ \E view \in {"dial", "talk"} : ShowStatusPage(d, view)
        \/ UNCHANGED uiVars
    BY <1>3 DEF OnCallingCb, OnUserAcceptCb, OnUserEnterCb
  <2>3. CASE UNCHANGED uiVars
    BY <2>1, <2>3 DEF Onward, uiVars
  <2> QED
    BY <2>1, <2>2, <2>3, StatusPageOn DEF ShowStatusPage
<1>4. CASE \/ OnUserRejectCb(d) \/ OnUserBusyCb(d) \/ OnCallEndCb(d) \/ OnCallingTimeOutCb(d)
           \/ onOtherClientAcceptCb(d) \/ onOtherClientRejectCb(d)
  <2>1. form[d] # NoForm
    BY <1>2, <1>4
    DEF OnUserRejectCb, OnUserBusyCb, OnCallEndCb, OnCallingTimeOutCb, onOtherClientAcceptCb,
        onOtherClientRejectCb, Takes, TakesEvent
  <2>2. \E why \in EndCall : EnterEndCallPage(d, why)
    BY <1>4
    DEF OnUserRejectCb, OnUserBusyCb, OnCallEndCb, OnCallingTimeOutCb, onOtherClientAcceptCb,
        onOtherClientRejectCb, EndCall
  <2> QED
    BY <2>1, <2>2, EndPageOn
<1> QED
  BY <1>1, <1>3, <1>4 DEF HandlesEvent

\* Every step of d.
LEMMA StepOn ==
  ASSUME KitInv, NEW d \in Clients, StepOf(d), ghost[d] = NoForm
  PROVE  \/ Onward(d)
         \/ \E p \in Clients : <<d, p>> \in Dials /\ Dial(d, p)
         \/ OnInvitedCb(d)
<1>1. CASE Worker(d)
  <2>1. /\ requests[d] # <<>> /\ requests' = [requests EXCEPT ![d] = Tail(@)]
        /\ UNCHANGED <<form, ghost>>
    BY <1>1 DEF Worker, RunsCall, RunsAccept, RunsReject, RunsHangup, Runs
  <2>2. requests \in [Clients -> Seq(Op)]
    BY DEF KitInv, UiTypeOK
  <2> QED
    BY <1>1, <2>1, <2>2 DEF Onward
<1>2. CASE AcceptInvite(d)
  <2>1. form[d] # NoForm
    BY <1>2, BeforeAccept DEF KitInv, Windowless, AcceptInvite, AcceptStep
  <2>2. \/ EnterEndCallPage(d, "REJECT")
        \/ ShowStatusPage(d, "talk") \/ UNCHANGED uiVars
    BY <1>2 DEF AcceptInvite
  <2>3. CASE UNCHANGED uiVars
    BY <2>3 DEF Onward, uiVars
  <2> QED
    BY <2>1, <2>2, <2>3, EndPageOn, StatusPageOn DEF EndCall, ShowStatusPage
<1>3. CASE UNCHANGED uiVars
  BY <1>3 DEF Onward, uiVars
<1> QED
  BY <1>1, <1>2, <1>3, UserOn, EventOn, KitSteps DEF StepOf

-----------------------------------------------------------------------------
(* The invariant, part by part.                                            *)

AwakeTurn(d) == Turn(d) /\ AwakeInv /\ MaxFaults = 0
SoleTurn(d)  == Turn(d) /\ Sole(d) /\ (d \in Dialling => AwakeTurn(d))

\* What holds in a turn of d when the service fails nothing.
LEMMA AwakeFacts ==
  ASSUME NEW d \in Clients, AwakeTurn(d)
  PROVE  /\ Turn(d) /\ MaxFaults = 0 /\ KitInv /\ Inv /\ Inv' /\ Sides /\ Directed /\ OneCall
         /\ StepOf(d) /\ SvcTypeOK /\ OwnTypeOK /\ NoClient \notin Clients
         /\ (UNCHANGED avVars \/ ComponentStep(d))
         /\ SoleTurn(d) /\ \A c \in Clients : Awake(c) /\ Chained(c) /\ Windowless(c)
         /\ \A c \in Clients :
              /\ form[c] \in Form /\ ghost[c] = NoForm
              /\ requests[c] \in Seq(Op) /\ events[c] \in Seq(Event)
<1>1. Turn(d) /\ AwakeInv
  BY DEF AwakeTurn
<1>2. KitInv /\ OwnTypeOK
  BY <1>1, TurnFacts
<1>3. \A c \in Clients : events[c] \in Seq(Event)
  BY <1>2 DEF OwnTypeOK
<1>4. \A c \in Clients : form[c] \in Form /\ requests[c] \in Seq(Op) /\ Windowless(c)
  BY <1>2 DEF KitInv, UiTypeOK
<1>5. \A c \in Clients : Awake(c) /\ Sole(c) /\ ghost[c] = NoForm
  BY <1>1 DEF AwakeInv, Awake, Sole
<1> QED
  BY <1>1, <1>3, <1>4, <1>5, TurnFacts DEF AwakeTurn, SoleTurn

\* What holds in a turn of d when its window is the only one.
LEMMA SoleFacts ==
  ASSUME NEW d \in Clients, SoleTurn(d)
  PROVE  /\ Turn(d) /\ KitInv /\ Inv /\ Inv' /\ Sides /\ Directed /\ StepOf(d) /\ OwnTypeOK
         /\ NoClient \notin Clients /\ (d \in Dialling => AwakeTurn(d))
         /\ Sole(d) /\ Windowless(d) /\ form[d] \in Form /\ ghost[d] = NoForm
         /\ requests[d] \in Seq(Op) /\ events[d] \in Seq(Event)
<1>1. Turn(d) /\ Sole(d) /\ (d \in Dialling => AwakeTurn(d))
  BY DEF SoleTurn
<1>2. KitInv /\ OwnTypeOK
  BY <1>1, TurnFacts
<1>3. form[d] \in Form /\ requests[d] \in Seq(Op) /\ Windowless(d) /\ events[d] \in Seq(Event)
  BY <1>2 DEF KitInv, UiTypeOK, OwnTypeOK
<1>4. ghost[d] = NoForm
  BY <1>1 DEF Sole
<1> QED
  BY <1>1, <1>3, <1>4, TurnFacts

\* The window of a call is the first: as long as there is a channel left, what the
\* window there is asks for first is the call.
LEMMA FirstCall ==
  ASSUME NEW d \in Clients, AwakeTurn(d), NEW p \in Clients, <<d, p>> \in Dials, Dial(d, p)
  PROVE  /\ d \in Dialling /\ form[d] = NoForm /\ requests[d] = <<>>
         /\ requests'[d] = <<[op |-> "call", peer |-> p]>>
         /\ ghost'[d] = NoForm /\ UNCHANGED avVars
<1> DEFINE All == Clients \X (1..MaxCalls)
           Calls == {r \in All : r[2] \in DOMAIN requests[r[1]] /\ requests[r[1]][r[2]].op = "call"}
<1> /\ OneCall /\ IsFiniteSet(Clients) /\ KitInv /\ Awake(d) /\ Windowless(d)
    /\ requests[d] \in Seq(Op) /\ form[d] \in Form /\ ghost[d] = NoForm
  BY AwakeFacts DEF Turn
<1>1. Cardinality(Unused) > Cardinality(Calls)
  BY DEF Dial
<1>2. IsFiniteSet(Calls) /\ Cardinality(Calls) \in Nat
  <2>1. IsFiniteSet(1..MaxCalls)
    BY SignalingAssumption, FS_Interval
  <2>2. IsFiniteSet(All)
    BY <2>1, FS_Product
  <2>3. Calls \in SUBSET All
    OBVIOUS
  <2> HIDE DEF All, Calls
  <2> QED
    BY <2>2, <2>3, FS_Subset, FS_CardinalityType
<1>3. Cardinality(Unused) <= 1 /\ Cardinality(Unused) \in Nat
  <2>1. PICK x : Unused \subseteq {x}
    <3>1. CASE Unused = {}
      <4>1. Unused \subseteq {NoChan}
        BY <3>1
      <4> QED
        BY <4>1
    <3>2. ASSUME NEW y \in Unused
          PROVE  \E x : Unused \subseteq {x}
      <4>1. \A z \in Unused : z = y
        BY DEF Unused, OneCall
      <4>2. Unused \subseteq {y}
        BY <4>1
      <4> QED
        BY <4>2
    <3> QED
      BY <3>1, <3>2
  <2>2. IsFiniteSet({x}) /\ Cardinality({x}) = 1
    BY FS_Singleton
  <2> QED
    BY <2>1, <2>2, FS_Subset, FS_CardinalityType
<1>4. Unused # {}
  <2> SUFFICES ASSUME Unused = {}
               PROVE  FALSE
    OBVIOUS
  <2>1. Cardinality(Unused) = 0
    BY FS_EmptySet
  <2> HIDE DEF Calls
  <2> QED
    BY <1>1, <1>2, <2>1
<1>5. d \in Dialling
  BY DEF Dialling
<1>6. form[d] = NoForm
  <2> SUFFICES ASSUME form[d] # NoForm
               PROVE  FALSE
    OBVIOUS
  <2>1. requests[d] # <<>> /\ Head(requests[d]).op = "call"
    BY <1>4, <1>5 DEF Awake
  <2>2. 1 \in DOMAIN requests[d] /\ requests[d][1].op = "call"
    BY <2>1, TailFacts
  <2>3. 1 \in 1..MaxCalls
    BY <1>4, SignalingAssumption DEF Unused, Chan
  <2>4. <<d, 1>> \in Calls
    BY <2>2, <2>3
  <2> HIDE DEF Calls
  <2>5. Cardinality(Calls) # 0
    BY <1>2, <2>4, FS_EmptySet
  <2> QED
    BY <1>1, <1>2, <1>3, <2>5
<1>7. requests[d] = <<>>
  BY <1>6 DEF Windowless
<1>8. requests' = [requests EXCEPT ![d] = Append(@, [op |-> "call", peer |-> p])]
  BY DEF Dial, Request
<1>9. requests'[d] = <<[op |-> "call", peer |-> p]>>
  BY <1>7, <1>8 DEF KitInv, UiTypeOK
<1>10. ghost' = ghost
  BY <1>6, WindowFacts DEF Dial, ShowVideoChatForm
<1> QED
  BY <1>5, <1>6, <1>7, <1>9, <1>10 DEF Dial

\* So is the window of an invitation.
LEMMA FirstInvitation ==
  ASSUME NEW d \in Clients, SoleTurn(d), OnInvitedCb(d)
  PROVE  /\ d \notin Dialling /\ form[d] = NoForm /\ requests'[d] = <<>>
         /\ ghost'[d] = NoForm /\ TakesEvent(d) /\ Head(events[d]).kind = "onInvited"
<1> /\ KitInv /\ Sole(d) /\ Windowless(d) /\ ghost[d] = NoForm /\ events[d] \in Seq(Event)
  BY SoleFacts
<1>1. TakesEvent(d) /\ Head(events[d]).kind = "onInvited"
  BY DEF OnInvitedCb, Takes
<1>2. 1 \in DOMAIN events[d] /\ events[d][1].kind = "onInvited"
  BY <1>1, TailFacts DEF TakesEvent
<1>3. form[d] = NoForm
  BY <1>2 DEF Sole
<1>4. requests[d] = <<>> /\ requests' = requests
  BY <1>3 DEF Windowless, OnInvitedCb
<1>5. ghost' = ghost
  BY <1>3, WindowFacts DEF OnInvitedCb, ShowVideoChatForm
<1>6. d \notin Dialling
  <2>1. d \in Dialling => Outgoing(d)
    BY SoleFacts DEF Turn, BillInv
  <2> QED
    BY <1>2, <2>1 DEF Outgoing
<1> QED
  BY <1>1, <1>3, <1>4, <1>5, <1>6

\* Who has called before does not call once more.
LEMMA FirstDial ==
  ASSUME NEW d \in Clients, SoleTurn(d), NEW p \in Clients, <<d, p>> \in Dials, Dial(d, p)
  PROVE  /\ d \in Dialling /\ form[d] = NoForm /\ requests[d] = <<>>
         /\ requests'[d] = <<[op |-> "call", peer |-> p]>>
         /\ ghost'[d] = NoForm /\ UNCHANGED avVars
<1>1. d \in Dialling
  BY DEF Dialling
<1>2. AwakeTurn(d)
  BY <1>1, SoleFacts
<1> QED
  BY <1>2, FirstCall

\* Nothing replaces a window.
LEMMA WindowLasts ==
  ASSUME NEW d \in Clients, SoleTurn(d)
  PROVE  /\ ghost'[d] = NoForm
         /\ form[d].end # "none" => form'[d].end # "none"
<1>1. KitInv /\ StepOf(d) /\ ghost[d] = NoForm
  BY SoleFacts
<1>2. NoForm.end = "none"
  BY DEF NoForm
<1> QED
  BY <1>1, <1>2, StepOn, FirstDial, FirstInvitation DEF Onward

\* An event that ends the window is there until it did.
LEMMA EndingKept ==
  ASSUME NEW d \in Clients, AwakeTurn(d), NEW c \in Clients, Ending(c)
  PROVE  Ending(c)'
<1> KitInv /\ StepOf(d) /\ OwnTypeOK /\ events[c] \in Seq(Event)
  BY AwakeFacts
<1>1. CASE c # d
  BY <1>1, StepFacts DEF Mine, Yours, Ending
<1>2. CASE c = d /\ form[c].end # "none"
  BY <1>2, AwakeFacts, WindowLasts DEF Ending
<1>3. ASSUME c = d, NEW i \in DOMAIN events[c], events[c][i].kind \in Final
      PROVE  Ending(c)'
  <2>1. CASE events' = events
    BY <1>3, <2>1 DEF Ending
  <2>2. CASE HandlesEvent(d) /\ TakesEvent(d)
    <3>1. events[c] # <<>> /\ events'[c] = Tail(events[c])
      BY <1>3, <2>2 DEF TakesEvent, OwnTypeOK
    <3>2. /\ DOMAIN events[c] = 1..Len(events[c]) /\ Len(events[c]) \in Nat
          /\ Head(events[c]) = events[c][1]
          /\ DOMAIN events'[c] = 1..(Len(events[c]) - 1)
          /\ \A j \in 1..(Len(events[c]) - 1) : events'[c][j] = events[c][j + 1]
      BY <3>1, Places
    <3>3. CASE i = 1
      BY <1>3, <2>2, <3>2, <3>3, EventOn DEF Ending
    <3>4. CASE i # 1
      <4>1. i - 1 \in DOMAIN events'[c] /\ events'[c][i - 1] = events[c][(i - 1) + 1]
        BY <3>2, <3>4
      <4>2. (i - 1) + 1 = i
        BY <3>2
      <4> QED
        BY <1>3, <4>1, <4>2 DEF Ending
    <3> QED
      BY <3>3, <3>4
  <2>3. ASSUME NEW kind \in EventKinds, NEW who \in Clients \cup {NoClient}, Tell(d, kind, who)
        PROVE  Ending(c)'
    <3> DEFINE m == [kind |-> kind, who |-> who]
    <3>1. m \in Event
      BY DEF Event
    <3>2. events'[c] = Append(events[c], m)
      BY <1>3, <2>3 DEF Tell, OwnTypeOK
    <3> HIDE DEF m
    <3>3. i \in DOMAIN events'[c] /\ events'[c][i] = events[c][i]
      BY <3>1, <3>2, Places
    <3> QED
      BY <1>3, <3>3 DEF Ending
  <2> QED
    BY <2>1, <2>2, <2>3, EventsOf
<1> QED
  BY <1>1, <1>2, <1>3 DEF Ending

\* A component that says that the call is over ends the window.
LEMMA TellsEnd ==
  ASSUME NEW d \in Clients, AwakeTurn(d), NEW kind \in Final, NEW who \in Clients \cup {NoClient},
         Tell(d, kind, who)
  PROVE  Ending(d)'
<1> DEFINE m == [kind |-> kind, who |-> who]
<1>1. m \in Event /\ m.kind \in Final
  BY DEF Event, Final, EventKinds
<1>2. events'[d] = Append(events[d], m) /\ events[d] \in Seq(Event)
  BY AwakeFacts DEF Tell, OwnTypeOK
<1> HIDE DEF m
<1>3. Len(events[d]) + 1 \in DOMAIN events'[d] /\ events'[d][Len(events[d]) + 1] = m
  BY <1>1, <1>2, Places
<1> QED
  BY <1>1, <1>3 DEF Ending

\* An invitation is announced to who has no window, and who is called then.
LEMMA Announces ==
  ASSUME NEW d \in Clients, SoleTurn(d), handleInvited(d)
  PROVE  /\ status'[d] = "called" /\ d \notin Dialling
         /\ form[d] = NoForm /\ events[d] = <<>>
<1> KitInv /\ Inv /\ OwnTypeOK /\ Sides /\ Directed /\ Windowless(d) /\ NoClient \notin Clients
  BY SoleFacts
<1>1. Turn(d) /\ Gets(d, "Invite")
  BY SoleFacts DEF handleInvited
<1>2. 1 \in DOMAIN inbox[d] /\ inbox[d][1].kind = "Invite" /\ Callee(d, inbox[d][1].ch)
  BY <1>1, HeadMail DEF Founded
<1>3. d \in Dialled /\ d \notin Dialling
  BY <1>2 DEF Callee, Sides, Directed
<1>4. Unheard(d)
  BY <1>1, <1>2, <1>3 DEF Turn, BillInv, Incoming, Has
<1>5. form[d] = NoForm /\ events[d] = <<>>
  BY <1>4 DEF Unheard, Windowless, Before, Untouched
<1>6. status'[d] = "called"
  BY <1>1, NotBusy DEF handleInvited, OwnTypeOK
<1> QED
  BY <1>3, <1>5, <1>6

\* A call takes the channel there is, and opens it.
LEMMA CallOpens ==
  ASSUME NEW d \in Clients, AwakeTurn(d), RunsCall(d)
  PROVE  /\ Unused' = {} /\ status'[d] = "calling"
         /\ \A ch \in Chan : creator'[ch] # creator[ch] => open'[ch]
<1> OneCall /\ SvcTypeOK /\ OwnTypeOK /\ MaxFaults = 0 /\ NoClient \notin Clients
  BY AwakeFacts
<1>1. /\ SignalingCreate(inbox, d)
      /\ status' = [status EXCEPT ![d] = "calling"]
  BY DEF RunsCall, call
<1>2. Verdicts(TRUE) = {TRUE}
  <2>1. faults \in 0..0
    BY DEF SvcTypeOK
  <2>2. ~(faults < MaxFaults)
    BY <2>1
  <2> QED
    BY <2>2 DEF Verdicts
<1>3. PICK ch \in Unused :
        creator' = [creator EXCEPT ![ch] = d] /\ open' = [open EXCEPT ![ch] = TRUE]
  BY <1>1, <1>2 DEF SignalingCreate
<1>4. ch \in Chan /\ creator'[ch] = d /\ open'[ch]
  BY <1>3 DEF Unused, SvcTypeOK
<1>5. \A x \in Chan : x = ch
  BY <1>4 DEF OneCall
<1>6. Unused' = {}
  BY <1>4, <1>5 DEF Unused
<1> QED
  BY <1>1, <1>4, <1>5, <1>6 DEF OwnTypeOK

\* Nothing of another client changes but its inbox.
LEMMA OthersAwake ==
  ASSUME NEW d \in Clients, AwakeTurn(d), NEW c \in Clients, c # d
  PROVE  Awake(c)'
<1> /\ Turn(d) /\ KitInv /\ Inv /\ StepOf(d) /\ SvcTypeOK /\ NoClient \notin Clients
    /\ Awake(c) /\ (UNCHANGED avVars \/ ComponentStep(d))
  BY AwakeFacts
<1>1. Mine(c) /\ Yours(c)
  BY StepFacts
<1>2. Clear(inbox[c], Graves) => Clear(inbox'[c], Graves)
  <2>1. CASE UNCHANGED avVars
    BY <2>1 DEF avVars, svcVars
  <2>2. Graves \in SUBSET Graves
    OBVIOUS
  <2>3. CASE ComponentStep(d)
    BY <2>2, <2>3, AskedClears, HandlersClear DEF ComponentStep
  <2> QED
    BY <2>1, <2>3
<1>3. Unused' # {} => Unused # {}
  <2>1. ASSUME NEW ch \in Chan, creator'[ch] = NoClient
        PROVE  creator[ch] = NoClient
    BY <2>1, Channels DEF SvcTypeOK
  <2> QED
    BY <2>1 DEF Unused
<1>4. (Ending(c) <=> Ending(c)') /\ (Opened(c) <=> Opened(c)')
  BY <1>1 DEF Mine, Yours, Ending, Opened
<1> QED
  BY <1>1, <1>2, <1>3, <1>4 DEF Mine, Yours, Awake, Sole

\* An end is asked for by a window that ended.
LEMMA EndRequestsKept ==
  ASSUME NEW d \in Clients, SoleTurn(d), NEW i \in DOMAIN requests'[d],
         requests'[d][i].op \in {"reject", "hangup"}
  PROVE  form'[d].end # "none"
<1> KitInv /\ StepOf(d) /\ ghost[d] = NoForm /\ requests[d] \in Seq(Op) /\ Sole(d)
  BY SoleFacts
<1>1. ASSUME NEW j \in DOMAIN requests[d], requests'[d][i] = requests[d][j]
      PROVE  form'[d].end # "none"
  BY <1>1, WindowLasts DEF Sole
<1>2. CASE requests'[d] = requests[d]
  BY <1>1, <1>2
<1>3. CASE requests[d] # <<>> /\ requests'[d] = Tail(requests[d])
  BY <1>1, <1>3, TailFacts
<1>4. ASSUME NEW op \in {"accept", "reject", "hangup"},
             requests'[d] = Append(requests[d], [op |-> op, peer |-> NoClient]),
             op # "accept" => form'[d].end # "none"
      PROVE  form'[d].end # "none"
  <2> DEFINE r == [op |-> op, peer |-> NoClient]
  <2>1. r \in Op /\ r.op = op
    BY DEF Op
  <2>2. requests'[d] = Append(requests[d], r)
    BY <1>4
  <2> HIDE DEF r
  <2>3. i \in DOMAIN requests[d] \/ requests'[d][i] = r
    BY <2>1, <2>2, Places
  <2>4. i \in DOMAIN requests[d] => requests'[d][i] = requests[d][i]
    BY <2>1, <2>2, Places
  <2> QED
    BY <1>1, <1>4, <2>1, <2>3, <2>4
<1>5. CASE \E p \in Clients : <<d, p>> \in Dials /\ Dial(d, p)
  <2>1. PICK p \in Clients : requests'[d] = <<[op |-> "call", peer |-> p]>>
    BY <1>5, FirstDial
  <2>2. requests'[d][i].op = "call"
    BY <2>1
  <2> QED
    BY <2>2
<1>6. CASE OnInvitedCb(d)
  BY <1>6, FirstInvitation
<1> QED
  BY <1>2, <1>3, <1>4, <1>5, <1>6, StepOn DEF Onward

\* What ends the call comes when the window has ended or is going to: it asked for
\* that itself, or hears of it.
LEMMA GravesAwait ==
  ASSUME NEW d \in Clients, AwakeTurn(d)
  PROVE  Clear(inbox'[d], Graves) \/ Ending(d)'
<1> SUFFICES ASSUME ~Ending(d)
             PROVE  Clear(inbox'[d], Graves) \/ Ending(d)'
  BY EndingKept
<1> /\ KitInv /\ Inv /\ StepOf(d) /\ SvcTypeOK /\ OwnTypeOK /\ Awake(d) /\ Chained(d)
    /\ MaxFaults = 0 /\ requests[d] \in Seq(Op) /\ inbox \in Inboxes
  BY AwakeFacts, InboxFacts
<1>1. Graves \in SUBSET Graves /\ Clear(inbox[d], Graves) /\ form[d].end = "none"
  BY DEF Awake, Ending
<1>2. CASE UNCHANGED avVars
  BY <1>1, <1>2 DEF avVars, svcVars
<1>3. CASE RunsCall(d)
  <2>1. SignalingCreate(inbox, d) /\ NoChan \in ChanId
    BY <1>3 DEF RunsCall, call, ChanId
  <2> QED
    BY <1>1, <2>1, AskingClears
<1>4. CASE RunsAccept(d)
  <2>1. SignalingAccept(inbox, d, invited[d]) /\ invited[d] \in ChanId
    BY <1>4 DEF RunsAccept, accept, OwnTypeOK
  <2> QED
    BY <1>1, <2>1, AnsweringClears
<1>5. ~RunsReject(d) /\ ~RunsHangup(d)
  <2> SUFFICES ASSUME requests[d] # <<>>, Head(requests[d]).op \in {"reject", "hangup"}
               PROVE  FALSE
    BY DEF RunsReject, RunsHangup, Runs
  <2>1. 1 \in DOMAIN requests[d] /\ requests[d][1].op \in {"reject", "hangup"}
    BY TailFacts
  <2> QED
    BY <1>1, <2>1 DEF Awake, Sole
<1>6. CASE Inside(d) \/ AcceptStep(d) \/ TakesEvent(d)
  <2>1. CASE signalingJoinCb(d) /\ ~Got(d).ok
    <3>1. Gets(d, "joinCb")
      BY <2>1 DEF signalingJoinCb
    <3>2. 1 \in DOMAIN inbox[d] /\ inbox[d][1] = Got(d) /\ Got(d) \in Message
          /\ Got(d).kind = "joinCb"
      BY <3>1, HeadMail, GotFacts
    <3>3. Got(d) \in Graves
      BY <2>1, <3>2 DEF Graves, Grave
    <3> QED
      BY <1>1, <3>2, <3>3 DEF Clear
  <2>2. CASE handleRejected(d) /\ Gets(d, "Busy")
    <3>1. Tell(d, "onUserBusy", NoClient)
      BY <2>2 DEF handleRejected, Gets
    <3> QED
      BY <3>1, TellsEnd DEF Final
  <2>3. ~(Gets(d, "createCb") /\ Got(d).ok /\ ~(Got(d).ch \in Chan /\ open[Got(d).ch]))
    <3> SUFFICES ASSUME Gets(d, "createCb"), Got(d).ok,
                        ~(Got(d).ch \in Chan /\ open[Got(d).ch])
                 PROVE  FALSE
      OBVIOUS
    <3>1. 1 \in DOMAIN inbox[d] /\ inbox[d][1] = Got(d) /\ Setup(Got(d)) /\ Caller(d, Got(d).ch)
      BY HeadMail DEF Founded, Setup
    <3>2. invitation[Got(d).ch] = "none"
      BY <3>1 DEF Chained
    <3>3. ~Answered(Got(d).ch) /\ ~open[Got(d).ch] /\ Got(d).ch \in Chan
      BY <3>1, <3>2 DEF Answered, Caller
    <3> QED
      BY <3>1, <3>3 DEF AwakeTurn, AwakeInv
  <2> QED
    BY <1>1, <1>6, <2>1, <2>2, <2>3, HandlersClear DEF Heavy
<1> QED
  BY <1>2, <1>3, <1>4, <1>5, <1>6, KitSteps DEF StepOf, Inside, Worker

\* Who falls idle behind a window was told to, or the window waits for a new call.
LEMMA IdleAwaits ==
  ASSUME NEW d \in Clients, AwakeTurn(d), status'[d] = "idle", Opened(d)'
  PROVE  Ending(d)' \/ Wants(requests'[d], "call")
<1> SUFFICES ASSUME ~Ending(d)'
             PROVE  Wants(requests'[d], "call")
  OBVIOUS
<1> /\ KitInv /\ Inv /\ StepOf(d) /\ OwnTypeOK /\ Awake(d) /\ ghost[d] = NoForm
    /\ requests[d] \in Seq(Op) /\ events[d] \in Seq(Event)
    /\ (UNCHANGED avVars \/ ComponentStep(d))
  BY AwakeFacts
<1>1. ~Ending(d)
  BY EndingKept
<1>2. ASSUME status[d] # "idle"
      PROVE  FALSE
  <2>1. ComponentStep(d)
    BY <1>2 DEF avVars, callVars
  <2>2. ASSUME NEW kind \in {"closeCb", "rejectCb", "leaveCb"}, Gets(d, kind)
        PROVE  FALSE
    <3>1. 1 \in DOMAIN inbox[d] /\ inbox[d][1] = Got(d) /\ Got(d) \in Message
          /\ Got(d).kind = kind
      BY <2>2, HeadMail, GotFacts
    <3>2. Got(d) \in Graves
      BY <3>1 DEF Graves, Grave
    <3> QED
      BY <1>1, <3>1, <3>2 DEF Awake, Clear
  <2> QED
    BY <1>2, <2>1, <2>2, IdleOf, TellsEnd
<1>3. ~RunsCall(d)
  BY CallOpens
<1>4. ASSUME Wants(requests[d], "call")
      PROVE  Wants(requests'[d], "call")
  <2>1. CASE requests'[d] = requests[d]
    BY <1>4, <2>1
  <2>2. ASSUME NEW op \in {"accept", "reject", "hangup"},
               requests'[d] = Append(requests[d], [op |-> op, peer |-> NoClient])
        PROVE  Wants(requests'[d], "call")
    <3>1. [op |-> op, peer |-> NoClient] \in Op
      BY DEF Op
    <3> QED
      BY <1>4, <2>2, <3>1, WantsNext
  <2>3. CASE Worker(d) /\ requests[d] # <<>> /\ requests'[d] = Tail(requests[d])
    <3>1. Head(requests[d]).op # "call"
      BY <1>3, <2>3 DEF Worker, RunsAccept, RunsReject, RunsHangup, Runs
    <3>2. PICK i \in DOMAIN requests[d] : requests[d][i].op = "call"
      BY <1>4 DEF Wants
    <3>3. /\ DOMAIN requests[d] = 1..Len(requests[d]) /\ Len(requests[d]) \in Nat
          /\ Head(requests[d]) = requests[d][1]
          /\ DOMAIN requests'[d] = 1..(Len(requests[d]) - 1)
          /\ \A j \in 1..(Len(requests[d]) - 1) : requests'[d][j] = requests[d][j + 1]
      BY <2>3, Places
    <3>4. i # 1
      BY <3>1, <3>2, <3>3
    <3>5. i - 1 \in DOMAIN requests'[d] /\ requests'[d][i - 1] = requests[d][(i - 1) + 1]
      BY <3>3, <3>4
    <3>6. (i - 1) + 1 = i
      BY <3>3
    <3> QED
      BY <3>2, <3>5, <3>6 DEF Wants
  <2>4. CASE \E p \in Clients : <<d, p>> \in Dials /\ Dial(d, p)
    <3>1. requests[d] = <<>>
      BY <2>4, FirstCall
    <3> QED
      BY <1>4, <3>1, NothingIn
  <2>5. CASE OnInvitedCb(d)
    <3>1. requests[d] = <<>>
      BY <2>5, AwakeFacts, FirstInvitation DEF KitInv, Windowless
    <3> QED
      BY <1>4, <3>1, NothingIn
  <2> QED
    BY <2>1, <2>2, <2>3, <2>4, <2>5, StepOn DEF Onward
<1>5. CASE Opened(d)
  BY <1>1, <1>2, <1>4, <1>5 DEF Awake
<1>6. CASE ~Opened(d)
  <2>1. form[d] = NoForm /\ ~Has(events[d], "onInvited")
    BY <1>6 DEF Opened
  <2>2. ~Has(events'[d], "onInvited")
    <3>1. CASE events' = events
      BY <2>1, <3>1
    <3>2. CASE HandlesEvent(d) /\ TakesEvent(d)
      <4>1. events[d] # <<>> /\ events'[d] = Tail(events[d])
        BY <3>2 DEF TakesEvent, OwnTypeOK
      <4> QED
        BY <2>1, <4>1, HasNext
    <3>3. ASSUME NEW kind \in EventKinds, NEW who \in Clients \cup {NoClient},
                 Tell(d, kind, who), kind = "onInvited" => handleInvited(d)
          PROVE  ~Has(events'[d], "onInvited")
      <4> DEFINE m == [kind |-> kind, who |-> who]
      <4>1. kind # "onInvited"
        BY <3>3, AwakeFacts, Announces
      <4>2. m \in Event /\ m.kind # "onInvited"
        BY <4>1 DEF Event
      <4>3. events'[d] = Append(events[d], m)
        BY <3>3 DEF Tell, OwnTypeOK
      <4> HIDE DEF m
      <4> QED
        BY <2>1, <4>2, <4>3, HasNext
    <3> QED
      BY <3>1, <3>2, <3>3, EventsOf
  <2>3. form'[d] # NoForm
    BY <2>2 DEF Opened
  <2>4. CASE \E p \in Clients : <<d, p>> \in Dials /\ Dial(d, p)
    <3>1. PICK p \in Clients : requests'[d] = <<[op |-> "call", peer |-> p]>>
      BY <2>4, FirstCall
    <3>2. 1 \in DOMAIN requests'[d] /\ requests'[d][1].op = "call"
      BY <3>1
    <3> QED
      BY <3>2 DEF Wants
  <2>5. ~OnInvitedCb(d)
    <3>1. OnInvitedCb(d) => 1 \in DOMAIN events[d] /\ events[d][1].kind = "onInvited"
      BY AwakeFacts, FirstInvitation, TailFacts DEF TakesEvent
    <3> QED
      BY <2>1, <3>1 DEF Has
  <2> QED
    BY <2>1, <2>3, <2>4, <2>5, StepOn DEF Onward
<1> QED
  BY <1>5, <1>6

\* The window of the first call asks for it before anything else.
LEMMA CallFirst ==
  ASSUME NEW d \in Clients, AwakeTurn(d), d \in Dialling, form'[d] # NoForm, Unused' # {}
  PROVE  requests'[d] # <<>> /\ Head(requests'[d]).op = "call"
<1> /\ Turn(d) /\ KitInv /\ StepOf(d) /\ SvcTypeOK /\ Awake(d) /\ ghost[d] = NoForm
    /\ requests[d] \in Seq(Op) /\ NoClient \notin Clients
  BY AwakeFacts
<1>1. CASE \E p \in Clients : <<d, p>> \in Dials /\ Dial(d, p)
  <2>1. PICK p \in Clients : requests'[d] = <<[op |-> "call", peer |-> p]>>
    BY <1>1, FirstCall
  <2>2. requests'[d] # <<>> /\ Head(requests'[d]) = [op |-> "call", peer |-> p]
    BY <2>1
  <2> QED
    BY <2>2
<1>2. CASE Onward(d)
  <2>1. Unused # {}
    <3>1. ASSUME NEW ch \in Chan, creator'[ch] = NoClient
          PROVE  creator[ch] = NoClient
      BY <3>1, Channels DEF SvcTypeOK
    <3> QED
      BY <3>1 DEF Unused
  <2>2. requests[d] # <<>> /\ Head(requests[d]).op = "call"
    BY <1>2, <2>1 DEF Onward, Awake
  <2>3. ~Worker(d)
    BY <2>2, CallOpens DEF Worker, RunsAccept, RunsReject, RunsHangup, Runs
  <2>4. ASSUME NEW op \in {"accept", "reject", "hangup"},
               requests'[d] = Append(requests[d], [op |-> op, peer |-> NoClient])
        PROVE  requests'[d] # <<>> /\ Head(requests'[d]) = Head(requests[d])
    <3>1. [op |-> op, peer |-> NoClient] \in Op
      BY DEF Op
    <3> QED
      BY <2>2, <2>4, <3>1
  <2> QED
    BY <1>2, <2>2, <2>3, <2>4 DEF Onward
<1> QED
  BY <1>1, <1>2, AwakeFacts, StepOn, FirstInvitation

\* An invitation is the first thing to be heard of, before there is a window.
LEMMA InvitationFirst ==
  ASSUME NEW d \in Clients, SoleTurn(d), NEW i \in DOMAIN events'[d],
         events'[d][i].kind = "onInvited"
  PROVE  i = 1 /\ form'[d] = NoForm
<1> /\ Turn(d) /\ KitInv /\ StepOf(d) /\ OwnTypeOK /\ Sole(d) /\ ghost[d] = NoForm
    /\ events[d] \in Seq(Event)
  BY SoleFacts
<1>1. CASE \E p \in Clients : <<d, p>> \in Dials /\ Dial(d, p)
  <2>1. d \in Dialling /\ events' = events
    BY <1>1, FirstDial DEF avVars
  <2>2. Outgoing(d)
    BY <2>1 DEF Turn, BillInv
  <2> QED
    BY <2>1, <2>2 DEF Outgoing
<1>2. ~TakesEvent(d)
  <2> SUFFICES ASSUME TakesEvent(d)
               PROVE  FALSE
    OBVIOUS
  <2>1. events[d] # <<>> /\ events'[d] = Tail(events[d])
    BY DEF TakesEvent, OwnTypeOK
  <2>2. i \in Nat /\ i # 0 /\ i + 1 \in DOMAIN events[d] /\ events'[d][i] = events[d][i + 1]
    BY <2>1, Places
  <2>3. i + 1 = 1
    BY <2>2 DEF Sole
  <2> QED
    BY <2>2, <2>3
<1>3. CASE Onward(d)
  <2>1. ASSUME i \in DOMAIN events[d], events'[d][i] = events[d][i]
        PROVE  i = 1 /\ form'[d] = NoForm
    BY <1>3, <2>1 DEF Onward, Sole
  <2>2. ASSUME NEW kind \in EventKinds, NEW who \in Clients \cup {NoClient},
               Tell(d, kind, who), kind = "onInvited" => handleInvited(d)
        PROVE  i = 1 /\ form'[d] = NoForm
    <3> DEFINE m == [kind |-> kind, who |-> who]
    <3>1. m \in Event /\ m.kind = kind
      BY DEF Event
    <3>2. events'[d] = Append(events[d], m)
      BY <2>2 DEF Tell, OwnTypeOK
    <3> HIDE DEF m
    <3>3. \/ i \in DOMAIN events[d] /\ events'[d][i] = events[d][i]
          \/ i = Len(events[d]) + 1 /\ events'[d][i] = m
      <4>1. /\ DOMAIN events[d] = 1..Len(events[d]) /\ Len(events[d]) \in Nat
            /\ DOMAIN events'[d] = 1..(Len(events[d]) + 1)
            /\ \A j \in 1..Len(events[d]) : events'[d][j] = events[d][j]
            /\ events'[d][Len(events[d]) + 1] = m
        BY <3>1, <3>2, Places
      <4> QED
        BY <4>1
    <3>4. CASE i = Len(events[d]) + 1 /\ events'[d][i] = m
      <4>1. form[d] = NoForm /\ events[d] = <<>>
        BY <2>2, <3>1, <3>4, Announces
      <4>2. Len(events[d]) = 0
        BY <4>1
      <4> QED
        BY <1>3, <3>4, <4>1, <4>2 DEF Onward
    <3> QED
      BY <2>1, <3>3, <3>4
  <2> QED
    BY <1>2, <2>1, <2>2, EventsOf
<1> QED
  BY <1>1, <1>2, <1>3, StepOn, FirstInvitation

\* A channel is closed unanswered by its creator, whose window has ended then.
LEMMA ClosedAwaits ==
  ASSUME NEW d \in Clients, AwakeTurn(d), NEW c \in Clients, NEW ch \in Chan,
         Caller(c, ch)', ~open'[ch], ~Answered(ch)'
  PROVE  Ending(c)'
<1> /\ Turn(d) /\ KitInv /\ Inv /\ Inv' /\ StepOf(d) /\ SvcTypeOK /\ OwnTypeOK /\ Awake(d)
    /\ Sides /\ Directed /\ requests[d] \in Seq(Op) /\ NoClient \notin Clients
    /\ (UNCHANGED avVars \/ ComponentStep(d))
  BY AwakeFacts
<1>1. CASE Caller(c, ch)
  <2>1. ~Answered(ch)
    <3>1. UNCHANGED avVars => Answered(ch)' = Answered(ch)
      BY DEF avVars, svcVars, Answered
    <3> QED
      BY <3>1, AnsweredStays
  <2>2. CASE ~open[ch]
    BY <1>1, <2>1, <2>2, EndingKept DEF AwakeTurn, AwakeInv
  <2>3. CASE open[ch]
    <3>1. /\ d \in members[ch]
          /\ \/ RunsHangup(d)
             \/ signalingJoinCb(d) /\ ~Got(d).ok
             \/ handleRejected(d) /\ Gets(d, "Busy")
      BY <2>3, ClosedBy
    <3>2. d = c
      BY <1>1, <2>1, <3>1, InboxFacts DEF InOrder, Caller
    <3>3. CASE RunsHangup(d)
      <4>1. requests[d] # <<>> /\ Head(requests[d]).op = "hangup"
        BY <3>3 DEF RunsHangup, Runs
      <4>2. 1 \in DOMAIN requests[d] /\ requests[d][1].op = "hangup"
        BY <4>1, TailFacts
      <4>3. Ending(d)
        BY <4>2 DEF Awake, Sole, Ending
      <4> QED
        BY <3>2, <4>3, EndingKept
    <3>4. CASE signalingJoinCb(d) /\ ~Got(d).ok
      <4>1. Gets(d, "joinCb")
        BY <3>4 DEF signalingJoinCb
      <4>2. 1 \in DOMAIN inbox[d] /\ inbox[d][1] = Got(d) /\ Got(d) \in Message
            /\ Got(d).kind = "joinCb"
        BY <4>1, HeadMail, GotFacts
      <4>3. Got(d) \in Graves
        BY <3>4, <4>2 DEF Graves, Grave
      <4>4. Ending(d)
        BY <4>2, <4>3 DEF Awake, Clear
      <4> QED
        BY <3>2, <4>4, EndingKept
    <3>5. CASE handleRejected(d) /\ Gets(d, "Busy")
      <4>1. Tell(d, "onUserBusy", NoClient)
        BY <3>5 DEF handleRejected, Gets
      <4> QED
        BY <3>2, <4>1, TellsEnd DEF Final
    <3> QED
      BY <3>1, <3>3, <3>4, <3>5
  <2> QED
    BY <2>2, <2>3
<1>2. CASE ~Caller(c, ch)
  <2>1. creator'[ch] # creator[ch]
    BY <1>2 DEF Caller
  <2>2. Founds(d, d)
    BY <2>1, Mail DEF ServiceKept, Joins, Invites
  <2>3. RunsCall(d)
    BY <2>2 DEF Founds
  <2> QED
    BY <2>1, <2>3, CallOpens
<1> QED
  BY <1>1, <1>2

-----------------------------------------------------------------------------
(* No dead window.                                                         *)

\* At first there is no window ...
LEMMA AwakeInitially ==
  ASSUME KitInit
  PROVE  AwakeInv
<1>1. ASSUME NEW c \in Clients
      PROVE  Awake(c)
  <2>1. /\ inbox[c] = <<>> /\ events[c] = <<>> /\ requests[c] = <<>>
        /\ form[c] = NoForm /\ ghost[c] = NoForm
    BY DEF KitInit, Init, SvcInit
  <2> QED
    BY <2>1, NothingIn DEF Awake, Sole, Clear, Opened
<1>2. \A c \in Clients, ch \in Chan : ~Caller(c, ch)
  BY SignalingAssumption DEF Caller, KitInit, Init, SvcInit
<1> QED
  BY <1>1, <1>2 DEF AwakeInv

\* ... and no step makes one that waits in vain.
LEMMA AwakeStep ==
  ASSUME KitInv, Inv', BillInv, AwakeInv, Directed, OneCall, IsFiniteSet(Clients), MaxFaults = 0,
         [KitNext]_vars
  PROVE  AwakeInv'
<1>1. CASE UNCHANGED vars
  <2> USE <1>1 DEF vars, avVars, uiVars, svcVars, callVars
  <2>1. \A c \in Clients : Awake(c) => Awake(c)'
    BY DEF Awake, Sole, Opened, Ending, Unused
  <2>2. \A c \in Clients, ch \in Chan :
          /\ Caller(c, ch)' <=> Caller(c, ch)
          /\ Answered(ch)' <=> Answered(ch)
          /\ Ending(c) => Ending(c)'
    BY DEF Caller, Answered, Ending
  <2> QED
    BY <2>1, <2>2 DEF AwakeInv
<1>2. CASE KitNext
  <2>1. PICK d \in Clients : StepOf(d)
    BY <1>2 DEF KitNext, StepOf
  <2>2. AwakeTurn(d)
    BY <2>1 DEF AwakeTurn, Turn
  <2>3. Awake(d)'
    <3>1. SoleTurn(d)
      BY <2>2, AwakeFacts
    <3>2. Sole(d)'
      BY <3>1, WindowLasts, EndRequestsKept, InvitationFirst DEF Sole
    <3> QED
      BY <2>2, <3>2, GravesAwait, IdleAwaits, CallFirst DEF Awake
  <2>4. \A c \in Clients : Awake(c)'
    BY <2>2, <2>3, OthersAwake
  <2> QED
    BY <2>2, <2>4, ClosedAwaits DEF AwakeInv
<1> QED
  BY <1>1, <1>2

\* No window is left to a component that has forgotten the call: once everything has
\* come to rest, whoever still sees the buttons of the one call can hang it up,
\* provided that the service fails nothing and nobody who is called calls
\* (EnterEndCallPage, AvChatComponent::hangup and the events that end a window).
THEOREM OneCallNoDeadWindow ==
  ASSUME MaxCalls <= 1, MaxFaults = 0, Directed, IsFiniteSet(Clients)
  PROVE  KitSpec => []NoDeadWindow
<1>1. OneCall
  BY SignalingAssumption DEF Chan, OneCall
<1>2. KitInit => BillInv /\ AwakeInv
  BY BillInitially, AwakeInitially
<1>3. KitInv /\ KitInv' /\ BillInv /\ AwakeInv /\ [KitNext]_vars => BillInv' /\ AwakeInv'
  <2> SUFFICES ASSUME KitInv, KitInv', BillInv, AwakeInv, [KitNext]_vars
               PROVE  BillInv' /\ AwakeInv'
    OBVIOUS
  <2>1. Inv'
    BY DEF KitInv
  <2>2. BillInv'
    BY <1>1, <2>1, BillStep
  <2>3. AwakeInv'
    BY <1>1, <2>1, AwakeStep
  <2> QED
    BY <2>2, <2>3
<1>4. AwakeInv => NoDeadWindow
  <2> SUFFICES ASSUME AwakeInv, Quiet, NEW c \in Clients, Live(form[c]), status[c] = "idle"
               PROVE  FALSE
    BY DEF NoDeadWindow
  <2>1. events[c] = <<>> /\ requests[c] = <<>> /\ Awake(c)
    BY DEF Quiet, AwakeInv
  <2>2. form[c] # NoForm /\ form[c].end = "none"
    BY WindowFacts DEF Live
  <2>3. ~Ending(c) /\ ~Wants(requests[c], "call") /\ Opened(c)
    BY <2>1, <2>2, NothingIn DEF Ending, Opened
  <2> QED
    BY <2>1, <2>3 DEF Awake
<1> QED
  BY <1>2, <1>3, <1>4, KitInvariance, PTL DEF KitSpec

-----------------------------------------------------------------------------
(* No engine of who was called stays behind for the one call, if users     *)
(* wait for what they asked before and both run the new flow.              *)
(*                                                                         *)
(* The engine of who accepts enters its room late: the answer has to come  *)
(* back, and the token.  What ends the window meanwhile would be hung up   *)
(* before there is a room to leave, or by nobody (a call answered          *)
(* elsewhere).  VisitInv says that nothing ends it then: the call can be   *)
(* lost only after it was decided (Undecided), the service decides once,   *)
(* and what it has to say after an accept comes after its answer           *)
(* (Entering), if it was not another device that accepted (NotHere).       *)

Syncs  == {"SyncAccept", "SyncReject"}
Byes   == {"CancelInvite", "Close", "Leave"}
Losing == Byes \cup Syncs
Away   == {"onOtherClientAccept", "onOtherClientReject"}

Lacks(s, kinds) == \A i \in DOMAIN s : s[i].kind \notin kinds

\* One answer to an accept at most, and before what the call is lost by.
OneAnswer(s) ==
  \A i, j \in DOMAIN s : s[i].kind = "acceptCb" /\ s[j].kind = "acceptCb" => i = j
AnswerFirst(s) ==
  \A i, j \in DOMAIN s : s[i].kind = "acceptCb" /\ s[j].kind \in Losing => i < j

\* The invitation of c was answered, or is of no use any more.
Decided(c) == \E ch \in Chan : callee[ch] = c /\ ~Pending(ch)

\* c is on its way into the room, and c is in a room.
Accepted(c) == \E i \in DOMAIN inbox[c] : inbox[c][i].kind = "acceptCb" /\ inbox[c][i].ok
Enters(c)   == waiting[c][1] = "acceptCb" \/ Accepted(c)
InRoom(c)   == rtc[c] # NoRoom

\* Of a call that c did not place it hears neither of refusals nor of timeouts.
Guest(c) ==
  ~timer[c] /\ Lacks(inbox[c], {"Busy"}) /\ Lacks(events[c], {"onUserReject", "onUserBusy"})

\* From the button to the room: c accepts once.
Asks(c)  == form[c].view = "confirm" \/ Wants(requests[c], "accept")
Hears(c) == Asks(c) \/ ~NoAnswer(inbox, c)

OneAccept(c) ==
  /\ form[c].view = "confirm" => ~Wants(requests[c], "accept")
  /\ \A i \in DOMAIN requests[c] : requests[c][i].op = "accept" => i = 1
  /\ OneAnswer(inbox[c])
  /\ Asks(c) => NoAnswer(inbox, c)
  /\ Hears(c) => waiting[c][1] # "acceptCb"
  /\ Hears(c) \/ waiting[c][1] = "acceptCb" => ~InRoom(c)

\* Until the invitation is decided nothing of it is lost, nor won.
Undecided(c) ==
  ~Decided(c) =>
    /\ Lacks(inbox[c], Losing) /\ Lacks(events[c], Final) /\ ~left[c]
    /\ ~Enters(c) /\ ~InRoom(c)
    /\ Wants(requests[c], "accept") => form[c].end = "none"

\* On the way into the room the window stays as it is: what ends the call comes after.
Entering(c) ==
  Enters(c) =>
    /\ form[c] # NoForm /\ form[c].end = "none" /\ ~left[c] /\ Lacks(events[c], Final)
    /\ AnswerFirst(inbox[c])

\* In the room, who has ended the call leaves.
Entered(c) ==
  InRoom(c) => form[c] # NoForm /\ (form[c].end = "none" \/ Wants(requests[c], "hangup"))

\* A call that was answered elsewhere is not entered here.
NotHere(c) == Enters(c) \/ InRoom(c) => Lacks(inbox[c], Syncs) /\ Lacks(events[c], Away)

\* Who is a member has answered.
Member(c) == \A ch \in Chan : c \in members[ch] => Decided(c)

Visit(c) ==
  /\ Sole(c) /\ Guest(c) /\ OneAccept(c) /\ Undecided(c) /\ Entering(c) /\ Entered(c)
  /\ NotHere(c) /\ Member(c)

VisitInv == \A c \in Clients \cap Dialled : Visit(c)

-----------------------------------------------------------------------------
(* What is on its way to who is called.                                    *)

\* r is s without its first o messages, and further ones of K.
Adds(r, s, o, K) == \A i \in DOMAIN r : Held(r, s, i, o) \/ (Later(s, i + o) /\ r[i] \in K)

\* What comes for c, but the answers to its own accept and those of another device.
Posted(c) ==
  {m \in Message : /\ m.kind \notin {"acceptCb", "Busy"} \cup Syncs
                   /\ m.kind \in Byes => Decided(c)'}

LEMMA PostedKinds ==
  ASSUME NEW c \in Clients
  PROVE  /\ \A kind \in Answer \ {"acceptCb"}, ch \in ChanId, ok \in BOOLEAN :
              Msg(kind, ch, ok) \in Posted(c)
         /\ \A kind \in {"Invite", "Accept", "Reject", "Join", "Control"}, ch \in Chan :
              News(kind, ch) \in Posted(c)
         /\ \A kind \in Byes, ch \in Chan : Decided(c)' => News(kind, ch) \in Posted(c)
<1>1. ASSUME NEW kind \in Answer \ {"acceptCb"}, NEW ch \in ChanId, NEW ok \in BOOLEAN
      PROVE  Msg(kind, ch, ok) \in Posted(c)
  <2>1. Msg(kind, ch, ok) \in Message /\ Msg(kind, ch, ok).kind = kind
    BY MsgIsMessage DEF Msg
  <2> QED
    BY <2>1 DEF Posted, Answer, Byes, Syncs
<1>2. ASSUME NEW kind \in {"Invite", "Accept", "Reject", "Join", "Control"} \cup Byes,
             NEW ch \in Chan, kind \in Byes => Decided(c)'
      PROVE  News(kind, ch) \in Posted(c)
  <2>1. kind \in Notice
    BY DEF Notice, Byes
  <2>2. News(kind, ch) \in Message /\ News(kind, ch).kind = kind
    BY <2>1, MsgIsMessage DEF News, Msg
  <2> QED
    BY <1>2, <2>2 DEF Posted, Byes, Syncs
<1>3. \A kind \in {"Invite", "Accept", "Reject", "Join", "Control"} : kind \notin Byes
  BY DEF Byes
<1> QED
  BY <1>1, <1>2, <1>3

\* The same messages, ...
LEMMA AddsNothing ==
  ASSUME NEW s \in Seq(Message), NEW K
  PROVE  Adds(s, s, 0, K)
BY DEF Adds, Held

\* ... and one more.
LEMMA AddsOne ==
  ASSUME NEW q \in Inboxes, NEW r \in Inboxes, NEW S, NEW m \in Message, NEW c \in Clients,
         NEW K, Adds(r[c], q[c], 0, K), Len(q[c]) <= Len(r[c]), c \in S => m \in K
  PROVE  /\ Push(r, S, m) \in Inboxes /\ Adds(Push(r, S, m)[c], q[c], 0, K)
         /\ Len(q[c]) <= Len(Push(r, S, m)[c])
<1> DEFINE s == q[c]
           t == r[c]
           u == Push(r, S, m)[c]
<1>1. Push(r, S, m) \in Inboxes /\ s \in Seq(Message) /\ t \in Seq(Message)
  BY PushAtEnd DEF Inboxes
<1>2. CASE c \notin S
  <2>1. u = t
    BY <1>2, PushAtEnd
  <2> QED
    BY <1>1, <2>1
<1>3. CASE c \in S
  <2>1. u = Append(t, m)
    BY <1>3, PushAtEnd
  <2>2. Adds(t, s, 0, K) /\ Len(s) <= Len(t)
    OBVIOUS
  <2> HIDE DEF s, t, u
  <2>3. /\ Len(s) \in Nat /\ Len(t) \in Nat /\ DOMAIN s = 1..Len(s) /\ DOMAIN t = 1..Len(t)
        /\ DOMAIN u = 1..(Len(t) + 1) /\ Len(u) = Len(t) + 1
        /\ \A i \in 1..Len(t) : u[i] = t[i]
        /\ u[Len(t) + 1] = m
    BY <1>1, <2>1
  <2>4. ASSUME NEW i \in DOMAIN u
        PROVE  Held(u, s, i, 0) \/ (Later(s, i + 0) /\ u[i] \in K)
    <3>1. CASE i \in DOMAIN t
      <4>1. u[i] = t[i]
        BY <2>3, <3>1
      <4> QED
        BY <2>2, <3>1, <4>1 DEF Held, Adds
    <3>2. CASE i = Len(t) + 1
      BY <1>3, <2>2, <2>3, <3>2 DEF Later
    <3> QED
      BY <2>3, <3>1, <3>2
  <2>5. Adds(u, s, 0, K) /\ Len(s) <= Len(u)
    BY <2>2, <2>3, <2>4 DEF Adds
  <2> QED
    BY <1>1, <2>5 DEF s, u
<1> QED
  BY <1>2, <1>3

\* After the first message was taken.
LEMMA AddsRest ==
  ASSUME NEW s \in Seq(Message), s # <<>>, NEW u \in Seq(Message), NEW K, Adds(u, Tail(s), 0, K)
  PROVE  Adds(u, s, 1, K)
<1> DEFINE t == Tail(s)
<1>1. /\ Len(s) \in Nat /\ Len(s) # 0 /\ DOMAIN s = 1..Len(s)
      /\ DOMAIN t = 1..(Len(s) - 1)
      /\ DOMAIN u = 1..Len(u) /\ Len(u) \in Nat
      /\ \A i \in 1..(Len(s) - 1) : t[i] = s[i + 1]
  OBVIOUS
<1>2. Adds(u, t, 0, K)
  OBVIOUS
<1> HIDE DEF t
<1>3. ASSUME NEW i \in DOMAIN u
      PROVE  Held(u, s, i, 1) \/ (Later(s, i + 1) /\ u[i] \in K)
  <2>1. i \in Nat /\ i >= 1 /\ i + 0 = i
    BY <1>1
  <2>2. CASE Held(u, t, i, 0)
    BY <1>1, <2>1, <2>2 DEF Held
  <2>3. CASE Later(t, i) /\ u[i] \in K
    BY <1>1, <2>1, <2>3 DEF Later
  <2> QED
    BY <1>2, <2>1, <2>2, <2>3 DEF Adds
<1> QED
  BY <1>3 DEF Adds

-----------------------------------------------------------------------------
(* What the service does for who is called.                                *)

\* What it knows of c, who has called nobody, ...
Hosted(c) ==
  /\ SvcTypeOK /\ InOrder /\ Member(c)
  /\ \A ch \in Chan : creator[ch] # c /\ (creator[ch] = NoClient => invitation[ch] = "none")

\* ... and what an operation that was not c's answer leaves of it.
Mailed(r, q, c) ==
  r \in Inboxes /\ Adds(r[c], q[c], 0, Posted(c)) /\ Len(q[c]) <= Len(r[c])

Served(c, q) == Mailed(inbox', q, c) /\ (Decided(c) => Decided(c)') /\ Member(c)'

LEMMA MailedSelf ==
  ASSUME NEW c \in Clients, NEW q \in Inboxes
  PROVE  Mailed(q, q, c)
<1>1. q[c] \in Seq(Message)
  BY DEF Inboxes
<1>2. Len(q[c]) \in Nat
  BY <1>1
<1> QED
  BY <1>1, <1>2, AddsNothing DEF Mailed

LEMMA MailedOne ==
  ASSUME NEW c \in Clients, NEW q \in Inboxes, NEW r, Mailed(r, q, c), NEW S, NEW m \in Message,
         c \in S => m \in Posted(c)
  PROVE  Mailed(Push(r, S, m), q, c)
BY AddsOne DEF Mailed

LEMMA MailedAnswer ==
  ASSUME NEW c \in Clients, NEW q \in Inboxes, NEW r, Mailed(r, q, c), NEW S,
         NEW kind \in Answer, NEW ch \in ChanId, NEW ok \in BOOLEAN,
         kind = "acceptCb" => c \notin S
  PROVE  Mailed(Push(r, S, Msg(kind, ch, ok)), q, c)
BY MailedOne, MsgIsMessage, PostedKinds

LEMMA MailedNews ==
  ASSUME NEW c \in Clients, NEW q \in Inboxes, NEW r, Mailed(r, q, c), NEW S,
         NEW kind \in Notice, NEW ch \in Chan,
         c \in S => \/ kind \in {"Invite", "Accept", "Reject", "Join", "Control"}
                    \/ kind \in Byes /\ Decided(c)'
  PROVE  Mailed(Push(r, S, News(kind, ch)), q, c)
BY MailedOne, MsgIsMessage, PostedKinds

\* Nothing is decided anew where no invitation is.
LEMMA DecidedKept ==
  ASSUME NEW c \in Clients, Hosted(c),
         \A ch \in Chan : callee[ch] = c => callee'[ch] = c /\ (Pending(ch)' => Pending(ch))
  PROVE  Decided(c) => Decided(c)'
BY DEF Decided

\* Who was a member before has answered.
LEMMA MemberKept ==
  ASSUME NEW c \in Clients, Hosted(c), Decided(c) => Decided(c)',
         \A ch \in Chan : c \in members'[ch] => c \in members[ch]
  PROVE  Member(c)'
BY DEF Member, Hosted

\* The invitations, the members and what is open stay as they are.
LEMMA SilentServed ==
  ASSUME NEW c \in Clients, NEW q \in Inboxes, Hosted(c), Silent(q)
  PROVE  Served(c, q)
<1>1. inbox' = q /\ UNCHANGED <<callee, invitation, members, open>>
  BY DEF Silent
<1>2. Decided(c) => Decided(c)'
  BY <1>1 DEF Decided, Pending
<1>3. Member(c)'
  BY <1>1, <1>2, MemberKept
<1> QED
  BY <1>1, <1>2, <1>3, MailedSelf DEF Served

\* A channel is made: nobody is invited to it.
LEMMA CreateServed ==
  ASSUME NEW c \in Clients, NEW d \in Clients, NEW q \in Inboxes, Hosted(c), SignalingCreate(q, d)
  PROVE  Served(c, q)
<1>1. PICK x \in ChanId, ok \in BOOLEAN : inbox' = Push(q, {d}, Msg("createCb", x, ok))
  <2>1. \/ \E ch \in Unused : inbox' = Push(q, {d}, Msg("createCb", ch, TRUE))
        \/ inbox' = Push(q, {d}, Msg("createCb", NoChan, FALSE))
    BY DEF SignalingCreate
  <2> QED
    BY <2>1 DEF Unused, ChanId
<1>2. UNCHANGED <<callee, invitation, members>>
      /\ \A ch \in Chan : open'[ch] => open[ch] \/ creator[ch] = NoClient
  BY DEF SignalingCreate, Unused, Hosted, SvcTypeOK
<1>3. Decided(c) => Decided(c)'
  <2>1. \A ch \in Chan : creator[ch] = NoClient => invitation'[ch] = "none"
    BY <1>2 DEF Hosted
  <2>2. \A ch \in Chan : Pending(ch)' => Pending(ch)
    BY <1>2, <2>1 DEF Pending
  <2> QED
    BY <1>2, <2>2, DecidedKept
<1>4. Member(c)'
  BY <1>2, <1>3, MemberKept
<1>5. Mailed(inbox', q, c)
  BY <1>1, MailedSelf, MailedAnswer DEF Answer
<1> QED
  BY <1>3, <1>4, <1>5 DEF Served

\* A channel is joined by somebody else.
LEMMA JoinServed ==
  ASSUME NEW c \in Clients, NEW d \in Clients, c # d, NEW q \in Inboxes, Hosted(c), NEW ch \in Chan,
         SignalingJoin(q, d, ch)
  PROVE  Served(c, q)
<1> DEFINE r == Push(q, {d}, Msg("joinCb", ch, TRUE))
<1>1. \/ inbox' = Push(r, members[ch] \ {d}, News("Join", ch))
      \/ inbox' = Push(q, {d}, Msg("joinCb", ch, FALSE))
  BY DEF SignalingJoin
<1>2. UNCHANGED <<callee, invitation, open>>
      /\ (members' = members \/ members' = [members EXCEPT ![ch] = @ \cup {d}])
  BY DEF SignalingJoin
<1>3. \A x \in Chan : c \in members'[x] => c \in members[x]
  BY <1>2 DEF Hosted, SvcTypeOK
<1>4. Decided(c) => Decided(c)'
  BY <1>2 DEF Decided, Pending
<1>5. Member(c)'
  BY <1>3, <1>4, MemberKept
<1>6. /\ Mailed(r, q, c) /\ ch \in ChanId
      /\ Mailed(Push(q, {d}, Msg("joinCb", ch, FALSE)), q, c)
  BY MailedSelf, MailedAnswer DEF Answer, ChanId
<1> HIDE DEF r
<1>7. Mailed(inbox', q, c)
  BY <1>1, <1>6, MailedNews DEF Notice
<1> QED
  BY <1>4, <1>5, <1>7 DEF Served

\* Somebody is invited, to a channel that nobody was invited to.
LEMMA InviteServed ==
  ASSUME NEW c \in Clients, NEW d \in Clients, NEW q \in Inboxes, Hosted(c), NEW ch \in Chan, NEW p,
         SignalingInvite(q, d, ch, p)
  PROVE  Served(c, q)
<1> DEFINE r == Push(q, {d}, Msg("inviteCb", ch, TRUE))
<1>1. \/ inbox' = Push(r, {p}, News("Invite", ch))
      \/ inbox' = Push(q, {d}, Msg("inviteCb", ch, FALSE))
  BY DEF SignalingInvite
<1>2. /\ UNCHANGED <<members, open>>
      /\ \A x \in Chan : callee[x] # NoClient =>
           callee'[x] = callee[x] /\ invitation'[x] = invitation[x]
  BY DEF SignalingInvite, Hosted, SvcTypeOK, InOrder, Verdicts
<1>3. Decided(c) => Decided(c)'
  <2>1. c # NoClient
    BY SignalingAssumption
  <2>2. \A x \in Chan : callee[x] = c => callee'[x] = c /\ (Pending(x)' => Pending(x))
    BY <1>2, <2>1 DEF Pending
  <2> QED
    BY <2>2, DecidedKept
<1>4. Member(c)'
  BY <1>2, <1>3, MemberKept
<1>5. /\ Mailed(r, q, c) /\ ch \in ChanId
      /\ Mailed(Push(q, {d}, Msg("inviteCb", ch, FALSE)), q, c)
  BY MailedSelf, MailedAnswer DEF Answer, ChanId
<1> HIDE DEF r
<1>6. Mailed(inbox', q, c)
  BY <1>1, <1>5, MailedNews DEF Notice
<1> QED
  BY <1>3, <1>4, <1>6 DEF Served

\* The news of an accept go to the caller and the members.
LEMMA AcceptNewsServed ==
  ASSUME NEW c \in Clients, NEW q \in Inboxes, NEW r, Mailed(r, q, c), Hosted(c), NEW d,
         NEW ch \in Chan, NEW s \in AcceptNews(r, d, ch)
  PROVE  Mailed(s, q, c)
<1>1. ASSUME NEW x, Mailed(x, q, c), NEW S, NEW kind \in {"Accept", "Join"}
      PROVE  Mailed(Push(x, S, News(kind, ch)), q, c)
  BY <1>1, MailedNews DEF Notice
<1>2. \/ s = Push(Push(r, {creator[ch]}, News("Accept", ch)), members[ch] \ {d}, News("Join", ch))
      \/ s = Push(Push(r, members[ch] \ {d}, News("Join", ch)), {creator[ch]}, News("Accept", ch))
  BY DEF AcceptNews
<1> QED
  BY <1>1, <1>2

\* Somebody else accepts.
LEMMA AcceptServed ==
  ASSUME NEW c \in Clients, NEW d \in Clients, c # d, NEW q \in Inboxes, Hosted(c),
         NEW ch \in ChanId, SignalingAccept(q, d, ch)
  PROVE  Served(c, q)
<1> DEFINE good == Push(q, {d}, Msg("acceptCb", ch, TRUE))
           bad  == Push(q, {d}, Msg("acceptCb", ch, FALSE))
<1>1. /\ UNCHANGED <<callee, open>>
      /\ \/ /\ ch \in Chan /\ inbox' \in AcceptNews(good, d, ch)
            /\ invitation' = [invitation EXCEPT ![ch] = "accepted"]
            /\ members' = [members EXCEPT ![ch] = @ \cup {d}]
         \/ inbox' = bad /\ UNCHANGED <<invitation, members>>
  BY DEF SignalingAccept, Verdicts, Pending
<1>2. Mailed(good, q, c) /\ Mailed(bad, q, c)
  BY MailedSelf, MailedAnswer DEF Answer
<1> HIDE DEF good, bad
<1>3. \A x \in Chan : /\ Pending(x)' => Pending(x)
                      /\ c \in members'[x] => c \in members[x]
  BY <1>1 DEF Hosted, SvcTypeOK, Pending
<1>4. Decided(c) => Decided(c)'
  BY <1>1, <1>3, DecidedKept
<1>5. Member(c)'
  BY <1>3, <1>4, MemberKept
<1>6. Mailed(inbox', q, c)
  BY <1>1, <1>2, AcceptNewsServed
<1> QED
  BY <1>4, <1>5, <1>6 DEF Served

\* Somebody refuses.
LEMMA RejectServed ==
  ASSUME NEW c \in Clients, NEW d \in Clients, NEW q \in Inboxes, Hosted(c), NEW ch \in ChanId,
         NEW notice \in {"Reject", "Busy"}, NEW answered \in BOOLEAN,
         SignalingReject(q, d, ch, notice, answered)
  PROVE  Served(c, q)
<1> DEFINE yes == IF answered THEN Push(q, {d}, Msg("rejectCb", ch, TRUE)) ELSE q
           no  == IF answered THEN Push(q, {d}, Msg("rejectCb", ch, FALSE)) ELSE q
<1>1. /\ UNCHANGED <<callee, open, members>>
      /\ \/ /\ ch \in Chan /\ inbox' = Push(yes, {creator[ch]}, News(notice, ch))
            /\ invitation' = [invitation EXCEPT ![ch] = "rejected"]
         \/ inbox' = no /\ UNCHANGED invitation
  BY DEF SignalingReject, Verdicts, Pending
<1>2. Mailed(yes, q, c) /\ Mailed(no, q, c)
  BY MailedSelf, MailedAnswer DEF Answer
<1> HIDE DEF yes, no
<1>3. \A x \in Chan : Pending(x)' => Pending(x)
  BY <1>1 DEF Hosted, SvcTypeOK, Pending
<1>4. Decided(c) => Decided(c)'
  BY <1>1, <1>3, DecidedKept
<1>5. Member(c)'
  BY <1>1, <1>4, MemberKept
<1>6. ch \in Chan => c \notin {creator[ch]}
  BY DEF Hosted
<1>7. Mailed(inbox', q, c)
  <2>1. ASSUME ch \in Chan
        PROVE  Mailed(Push(yes, {creator[ch]}, News(notice, ch)), q, c)
    <3>1. notice \in Notice
      BY DEF Notice
    <3> QED
      BY <1>2, <1>6, <2>1, <3>1, MailedNews
  <2> QED
    BY <1>1, <1>2, <2>1
<1> QED
  BY <1>4, <1>5, <1>7 DEF Served

\* An invitation is taken back, and a channel closed.
LEMMA CancelAndCloseServed ==
  ASSUME NEW c \in Clients, NEW d \in Clients, NEW q \in Inboxes, Hosted(c),
         NEW cancels \in BOOLEAN, NEW x \in ChanId, NEW ch \in ChanId,
         CancelAndClose(q, d, cancels, x, ch)
  PROVE  Served(c, q)
<1> DEFINE cancelled == cancels /\ Pending(x) /\ creator[x] = d
           told == IF cancelled THEN Push(q, {callee[x]}, News("CancelInvite", x)) ELSE q
           good == Push(told, {d}, Msg("closeCb", ch, TRUE))
           bad  == Push(told, {d}, Msg("closeCb", ch, FALSE))
<1>1. /\ callee' = callee
      /\ invitation' = IF cancelled THEN [invitation EXCEPT ![x] = "cancelled"] ELSE invitation
      /\ \/ /\ ch \in Chan /\ inbox' = Push(good, members[ch] \ {d}, News("Close", ch))
            /\ open' = [open EXCEPT ![ch] = FALSE] /\ members' = [members EXCEPT ![ch] = {}]
         \/ inbox' = bad /\ UNCHANGED <<open, members>>
  BY DEF CancelAndClose, Verdicts
<1>2. cancelled => x \in Chan
  BY DEF Pending
<1>3. \A y \in Chan : (open'[y] => open[y]) /\ (c \in members'[y] => c \in members[y])
  <2>1. open \in [Chan -> BOOLEAN] /\ members \in [Chan -> SUBSET Clients]
    BY DEF Hosted, SvcTypeOK
  <2> QED
    BY <1>1, <2>1
<1>4. \A y \in Chan : Pending(y)' => Pending(y)
  BY <1>1, <1>2, <1>3 DEF Hosted, SvcTypeOK, Pending
<1>5. Decided(c) => Decided(c)'
  BY <1>1, <1>4, DecidedKept
<1>6. Member(c)'
  BY <1>3, <1>5, MemberKept
<1>7. cancelled /\ c \in {callee[x]} => Decided(c)'
  BY <1>1, <1>2 DEF Hosted, SvcTypeOK, Decided, Pending
<1>8. Mailed(told, q, c)
  <2>1. "CancelInvite" \in Notice /\ "CancelInvite" \in Byes
    BY DEF Notice, Byes
  <2>2. CASE cancelled
    BY <1>2, <1>7, <2>1, <2>2, MailedSelf, MailedNews
  <2> QED
    BY <2>2, MailedSelf
<1> HIDE DEF told, cancelled
<1>9. Mailed(good, q, c) /\ Mailed(bad, q, c)
  BY <1>8, MailedAnswer DEF Answer
<1> HIDE DEF good, bad
<1>10. ch \in Chan /\ c \in members[ch] => Decided(c)'
  BY <1>5 DEF Hosted, Member
<1>11. Mailed(inbox', q, c)
  <2>1. "Close" \in Notice /\ "Close" \in Byes
    BY DEF Notice, Byes
  <2> QED
    BY <1>1, <1>9, <1>10, <2>1, MailedNews
<1> QED
  BY <1>5, <1>6, <1>11 DEF Served

\* A control message is sent.
LEMMA ControlServed ==
  ASSUME NEW c \in Clients, NEW q \in Inboxes, Hosted(c), NEW ch \in Chan, NEW p,
         SignalingControl(q, ch, p)
  PROVE  Served(c, q)
<1>1. UNCHANGED <<callee, invitation, members, open>>
  BY DEF SignalingControl
<1>2. Decided(c) => Decided(c)'
  BY <1>1 DEF Decided, Pending
<1>3. Member(c)'
  BY <1>1, <1>2, MemberKept
<1>4. Mailed(inbox', q, c)
  BY MailedSelf, MailedNews DEF SignalingControl, Notice
<1> QED
  BY <1>2, <1>3, <1>4 DEF Served

\* Another device of somebody else answers.
LEMMA OtherDeviceServed ==
  ASSUME NEW c \in Clients, NEW d \in Clients, c # d, Hosted(c), NEW ch \in Chan,
         NEW accepts \in BOOLEAN, OtherDeviceAnswers(d, ch, accepts)
  PROVE  Served(c, inbox)
<1>0. inbox \in Inboxes
  BY DEF Hosted, SvcTypeOK, Inboxes
<1>1. UNCHANGED <<callee, open, members>>
      /\ \E fate \in {"accepted", "rejected"} : invitation' = [invitation EXCEPT ![ch] = fate]
  BY DEF OtherDeviceAnswers
<1>2. \A x \in Chan : Pending(x)' => Pending(x)
  BY <1>1 DEF Hosted, SvcTypeOK, Pending
<1>3. Decided(c) => Decided(c)'
  BY <1>1, <1>2, DecidedKept
<1>4. Member(c)'
  BY <1>1, <1>3, MemberKept
<1>5. ASSUME NEW kind \in Syncs
      PROVE  Mailed(Push(inbox, {d}, News(kind, ch)), inbox, c)
  BY <1>0, <1>5, MailedSelf, MailedNews DEF Notice, Syncs
<1>6. Mailed(inbox', inbox, c)
  <2>1. CASE accepts
    BY <1>0, <1>5, <2>1, AcceptNewsServed DEF OtherDeviceAnswers, Syncs
  <2>2. CASE ~accepts
    <3>1. inbox' = Push(Push(inbox, {d}, News("SyncReject", ch)), {creator[ch]}, News("Reject", ch))
      BY <2>2 DEF OtherDeviceAnswers
    <3> QED
      BY <1>0, <1>5, <3>1, MailedNews DEF Notice, Syncs
  <2> QED
    BY <2>1, <2>2
<1> QED
  BY <1>3, <1>4, <1>6 DEF Served

\* What a step makes of what is on its way to c, whose answer it is not.
Services(c, d) == Served(c, inbox) \/ \E kind : Gets(d, kind) /\ Served(c, Rest(d))

\* A refusal or a hangup of d, ...
LEMMA RefusalServes ==
  ASSUME Inv, NEW c \in Clients, NEW d \in Clients, Hosted(c), reject(d) \/ hangup(d)
  PROVE  Services(c, d)
<1> OwnTypeOK /\ inbox \in Inboxes
  BY InboxFacts
<1>1. inviting[d] \in ChanId /\ invited[d] \in ChanId
  BY DEF OwnTypeOK
<1>2. CASE reject(d)
  BY <1>1, <1>2, RejectServed DEF reject, Services
<1>3. CASE hangup(d)
  <2>1. CASE UNCHANGED svcVars
    <3>1. Silent(inbox)
      BY <2>1 DEF svcVars, Silent
    <3> QED
      BY <3>1, SilentServed DEF Services
  <2>2. CASE CancelAndClose(inbox, d, status[d] = "calling" /\ master[d], inviting[d],
                            IF master[d] THEN inviting[d] ELSE invited[d])
    <3>1. (status[d] = "calling" /\ master[d]) \in BOOLEAN
          /\ (IF master[d] THEN inviting[d] ELSE invited[d]) \in ChanId
      BY <1>1
    <3> QED
      BY <1>1, <2>2, <3>1, CancelAndCloseServed DEF Services
  <2> QED
    BY <1>3, <2>1, <2>2 DEF hangup
<1> QED
  BY <1>2, <1>3

\* ... whatever its working thread is asked, ...
LEMMA AskedServes ==
  ASSUME Inv, NEW c \in Clients, NEW d \in Clients, Hosted(c), Asked(d), accept(d) => c # d
  PROVE  Services(c, d)
<1> OwnTypeOK /\ inbox \in Inboxes
  BY InboxFacts
<1>1. invited[d] \in ChanId
  BY DEF OwnTypeOK
<1>2. CASE \E p \in Clients \ {d} : call(d, p)
  BY <1>2, CreateServed DEF call, Services
<1>3. CASE accept(d)
  BY <1>1, <1>3, AcceptServed DEF accept, Services
<1> QED
  BY <1>2, <1>3, RefusalServes DEF Asked

\* ... its handlers, ...
LEMMA HandlerServes ==
  ASSUME Inv, NEW c \in Clients, NEW d \in Clients, Hosted(c), SdkStep(d) \/ AcceptStep(d)
  PROVE  Services(c, d)
<1> OwnTypeOK /\ inbox \in Inboxes /\ SvcTypeOK
  BY InboxFacts
<1>1. ASSUME NEW kind, Gets(d, kind)
      PROVE  /\ Rest(d) \in Inboxes /\ Got(d).ch \in ChanId
             /\ kind \in Notice => Got(d).ch \in Chan
             /\ Silent(Rest(d)) => Services(c, d)
  BY <1>1, GotFacts, SilentServed DEF Services
<1>2. UNCHANGED svcVars => Services(c, d)
  <2>1. UNCHANGED svcVars => Silent(inbox)
    BY DEF svcVars, Silent
  <2> QED
    BY <2>1, SilentServed DEF Services
<1>3. CASE signalingCreateCb(d)
  <2>1. Gets(d, "createCb")
    BY <1>3 DEF signalingCreateCb
  <2>2. CASE ~Got(d).ok
    BY <1>1, <1>3, <2>1, <2>2 DEF signalingCreateCb
  <2>3. CASE Got(d).ok
    <3>1. Caller(d, Got(d).ch) /\ SignalingJoin(Rest(d), d, Got(d).ch)
      BY <1>3, <2>1, <2>3, GotFacts DEF signalingCreateCb, Founded
    <3>2. c # d /\ Got(d).ch \in Chan
      BY <3>1 DEF Caller, Hosted
    <3> QED
      BY <1>1, <2>1, <3>1, <3>2, JoinServed DEF Services
  <2> QED
    BY <2>2, <2>3
<1>4. CASE signalingJoinCb(d)
  <2>1. Gets(d, "joinCb")
    BY <1>4 DEF signalingJoinCb
  <2>2. CASE ~Got(d).ok
    <3>1. CancelAndClose(Rest(d), d, FALSE, NoChan, created[d]) /\ created[d] \in ChanId
          /\ NoChan \in ChanId
      BY <1>4, <2>2 DEF signalingJoinCb, SignalingClose, OwnTypeOK, ChanId
    <3> QED
      BY <1>1, <2>1, <3>1, CancelAndCloseServed DEF Services
  <2>3. CASE Got(d).ok
    <3>1. Caller(d, Got(d).ch) /\ SignalingInvite(Rest(d), d, Got(d).ch, to[d])
      BY <1>4, <2>1, <2>3, GotFacts DEF signalingJoinCb, Founded
    <3>2. Got(d).ch \in Chan
      BY <3>1 DEF Caller
    <3> QED
      BY <1>1, <2>1, <3>1, <3>2, InviteServed DEF Services
  <2> QED
    BY <2>2, <2>3
<1>5. CASE \/ signalingInviteCb(d) \/ signalingRejectCb(d) \/ signalingCloseCb(d)
           \/ signalingLeaveCb(d) \/ AcceptFails(d) \/ AcceptSucceeds(d)
  BY <1>1, <1>5
  DEF signalingInviteCb, signalingRejectCb, signalingCloseCb, signalingLeaveCb, AcceptFails,
      AcceptSucceeds
<1>6. CASE handleInvited(d)
  <2>1. Gets(d, "Invite") /\ "Invite" \in Notice
    BY <1>6 DEF handleInvited, Notice
  <2>2. Silent(Rest(d)) \/ SignalingReject(Rest(d), d, Got(d).ch, "Busy", FALSE)
    BY <1>6 DEF handleInvited
  <2> QED
    BY <1>1, <2>1, <2>2, RejectServed DEF Services
<1>7. CASE handleRejected(d)
  <2>1. Gets(d, "Reject") \/ Gets(d, "Busy")
    BY <1>7 DEF handleRejected
  <2>2. Silent(Rest(d)) \/ CancelAndClose(Rest(d), d, FALSE, NoChan, Got(d).ch)
    BY <1>7 DEF handleRejected, SignalingClose
  <2>3. NoChan \in ChanId
    BY DEF ChanId
  <2> QED
    BY <1>1, <2>1, <2>2, <2>3, CancelAndCloseServed DEF Services
<1>8. CASE handleJoin(d)
  <2>1. Gets(d, "Join") /\ "Join" \in Notice
    BY <1>8 DEF handleJoin, Notice
  <2>2. Silent(Rest(d)) \/ SignalingControl(Rest(d), Got(d).ch, callee[Got(d).ch])
    BY <1>8 DEF handleJoin
  <2> QED
    BY <1>1, <2>1, <2>2, ControlServed DEF Services
<1>9. CASE \/ handleAccepted(d) \/ handleControl(d) \/ handleLeave(d)
           \/ \E kind, event : Ends(d, kind, event)
  BY <1>1, <1>9 DEF handleAccepted, handleControl, handleLeave, Ends
<1>10. CASE AcceptedJoins(d) \/ ControlJoins(d) \/ AcceptJoins(d)
  BY <1>2, <1>10 DEF AcceptedJoins, ControlJoins, AcceptJoins
<1> QED
  BY <1>3, <1>4, <1>5, <1>6, <1>7, <1>8, <1>9, <1>10, EndingEvents DEF SdkStep, AcceptStep

\* ... and every other step.
LEMMA StepServes ==
  ASSUME Inv, NEW c \in Clients, NEW d \in Clients, Hosted(c), ComponentStep(d),
         accept(d) \/ OtherDevice(d) => c # d
  PROVE  Services(c, d)
<1>1. CASE OtherDevice(d)
  <2>1. PICK ch \in Chan, accepts \in BOOLEAN : OtherDeviceAnswers(d, ch, accepts)
    BY <1>1 DEF OtherDevice
  <2> QED
    BY <1>1, <2>1, OtherDeviceServed DEF Services
<1>2. CASE OwnStep(d) \/ TakesEvent(d)
  <2>1. Silent(inbox)
    BY <1>2 DEF OwnStep, CallingTimeout, GetToken, onUserLeft, TakesEvent, svcVars, Silent
  <2> QED
    BY <2>1, InboxFacts, SilentServed DEF Services
<1> QED
  BY <1>1, <1>2, AskedServes, HandlerServes DEF ComponentStep, Inside

\* What c finds in its inbox after that.
LEMMA MailKept ==
  ASSUME Inv, NEW c \in Clients, NEW d \in Clients, Services(c, d)
  PROVE  /\ Decided(c) => Decided(c)'
         /\ Member(c)'
         /\ Accepted(c)' => Accepted(c)
         /\ NoAnswer(inbox, c) => NoAnswer(inbox', c)
         /\ OneAnswer(inbox[c]) => OneAnswer(inbox'[c])
         /\ AnswerFirst(inbox[c]) => AnswerFirst(inbox'[c])
         /\ Lacks(inbox[c], {"Busy"}) => Lacks(inbox'[c], {"Busy"})
         /\ Lacks(inbox[c], Syncs) => Lacks(inbox'[c], Syncs)
         /\ Lacks(inbox[c], Losing) /\ ~Decided(c)' => Lacks(inbox'[c], Losing)
<1> DEFINE s == inbox[c]
           u == inbox'[c]
<1>1. inbox \in Inboxes /\ s \in Seq(Message)
  BY InboxFacts DEF Inboxes
<1>2. (Decided(c) => Decided(c)') /\ Member(c)'
  BY DEF Services, Served
<1>3. inbox' \in Inboxes /\ \E o \in {0, 1} : Adds(u, s, o, Posted(c))
  <2>1. CASE Served(c, inbox)
    BY <2>1 DEF Served, Mailed
  <2>2. ASSUME NEW kind, Gets(d, kind), Served(c, Rest(d))
        PROVE  inbox' \in Inboxes /\ \E o \in {0, 1} : Adds(u, s, o, Posted(c))
    <3>1. inbox' \in Inboxes /\ Adds(u, Rest(d)[c], 0, Posted(c))
      BY <2>2 DEF Served, Mailed
    <3>2. CASE c # d
      BY <1>1, <3>1, <3>2 DEF Rest, Inboxes
    <3>3. CASE c = d
      <4>1. Rest(d)[c] = Tail(s) /\ s # <<>>
        BY <1>1, <2>2, <3>3 DEF Rest, Inboxes, Gets
      <4>2. u \in Seq(Message)
        BY <3>1 DEF Inboxes
      <4> HIDE DEF s, u
      <4> QED
        BY <1>1, <3>1, <4>1, <4>2, AddsRest
    <3> QED
      BY <3>2, <3>3
  <2> QED
    BY <2>1, <2>2 DEF Services
<1>4. u \in Seq(Message)
  BY <1>3 DEF Inboxes
<1>5. PICK o \in {0, 1} : Adds(u, s, o, Posted(c))
  BY <1>3
<1> HIDE DEF s, u
<1>6. /\ \A i \in DOMAIN u : i \in Nat /\ i + o \in Nat
      /\ \A i \in DOMAIN s : i \in Nat
  BY <1>1, <1>4
<1>7. \A i \in DOMAIN u : Held(u, s, i, o) \/ (Later(s, i + o) /\ u[i] \in Posted(c))
  BY <1>5 DEF Adds
<1>8. \A i \in DOMAIN u : u[i].kind \in {"acceptCb", "Busy"} \cup Syncs => Held(u, s, i, o)
  BY <1>7 DEF Posted
<1>9. Accepted(c)' => Accepted(c)
  <2>1. ASSUME NEW i \in DOMAIN u, u[i].kind = "acceptCb", u[i].ok
        PROVE  \E j \in DOMAIN s : s[j].kind = "acceptCb" /\ s[j].ok
    BY <1>8, <2>1 DEF Held
  <2> QED
    BY <2>1 DEF Accepted, s, u
<1>10. NoAnswer(inbox, c) => NoAnswer(inbox', c)
  <2>1. (\A i \in DOMAIN s : s[i].kind # "acceptCb") => \A i \in DOMAIN u : u[i].kind # "acceptCb"
    BY <1>8 DEF Held
  <2> QED
    BY <2>1 DEF NoAnswer, s, u
<1>11. OneAnswer(s) => OneAnswer(u)
  <2> SUFFICES ASSUME OneAnswer(s), NEW i \in DOMAIN u, NEW j \in DOMAIN u,
                      u[i].kind = "acceptCb", u[j].kind = "acceptCb"
               PROVE  i = j
    BY DEF OneAnswer
  <2>1. i + o \in DOMAIN s /\ j + o \in DOMAIN s /\ u[i] = s[i + o] /\ u[j] = s[j + o]
    BY <1>8 DEF Held
  <2>2. i + o = j + o
    BY <2>1 DEF OneAnswer
  <2> QED
    BY <1>6, <2>2
<1>12. AnswerFirst(s) => AnswerFirst(u)
  <2> SUFFICES ASSUME AnswerFirst(s), NEW i \in DOMAIN u, NEW j \in DOMAIN u,
                      u[i].kind = "acceptCb", u[j].kind \in Losing
               PROVE  i < j
    BY DEF AnswerFirst
  <2>1. i + o \in DOMAIN s /\ u[i] = s[i + o]
    BY <1>8 DEF Held
  <2>2. i + o < j + o
    <3>1. CASE Held(u, s, j, o)
      BY <2>1, <3>1 DEF Held, AnswerFirst
    <3>2. CASE Later(s, j + o)
      BY <2>1, <3>2 DEF Later
    <3> QED
      BY <1>7, <3>1, <3>2
  <2> QED
    BY <1>6, <2>2
<1>13. /\ Lacks(s, {"Busy"}) => Lacks(u, {"Busy"})
       /\ Lacks(s, Syncs) => Lacks(u, Syncs)
  BY <1>8 DEF Held, Lacks
<1>14. Lacks(s, Losing) /\ ~Decided(c)' => Lacks(u, Losing)
  <2> SUFFICES ASSUME Lacks(s, Losing), ~Decided(c)', NEW i \in DOMAIN u
               PROVE  u[i].kind \notin Losing
    BY DEF Lacks
  <2>1. CASE Held(u, s, i, o)
    BY <2>1 DEF Held, Lacks
  <2>2. CASE u[i] \in Posted(c)
    BY <2>2 DEF Posted, Losing
  <2> QED
    BY <1>7, <2>1, <2>2
<1> QED
  BY <1>2, <1>9, <1>10, <1>11, <1>12, <1>13, <1>14 DEF s, u

-----------------------------------------------------------------------------
(* A turn of d, as c sees it.                                              *)

VisitTurn(c, d) == Turn(d) /\ FlowInv /\ ~Hasty /\ Old = {} /\ c \in Dialled /\ Visit(c)

\* What holds in it.
LEMMA VisitFacts ==
  ASSUME NEW c \in Clients, NEW d \in Clients, VisitTurn(c, d)
  PROVE  /\ Turn(d) /\ KitInv /\ Inv /\ Inv' /\ FlowInv /\ Sides /\ Directed /\ OneCall
         /\ StepOf(d) /\ (UNCHANGED avVars \/ ComponentStep(d))
         /\ SvcTypeOK /\ OwnTypeOK /\ NoClient \notin Clients /\ ~Hasty /\ Old = {}
         /\ Hosted(c) /\ c \notin Dialling /\ Windowless(c)
         /\ \A ch \in ChanId : ~Caller(c, ch)
         /\ form[c] \in Form /\ ghost[c] = NoForm /\ requests[c] \in Seq(Op)
         /\ events[c] \in Seq(Event) /\ inbox[c] \in Seq(Message) /\ inbox'[c] \in Seq(Message)
         /\ Sole(c) /\ Guest(c) /\ OneAccept(c) /\ Undecided(c) /\ Entering(c) /\ Entered(c)
         /\ NotHere(c)
<1>1. Turn(d) /\ FlowInv /\ ~Hasty /\ Old = {} /\ c \in Dialled /\ Visit(c)
  BY DEF VisitTurn
<1>2. /\ KitInv /\ Inv /\ Inv' /\ Sides /\ Directed /\ OneCall /\ StepOf(d)
      /\ (UNCHANGED avVars \/ ComponentStep(d))
      /\ SvcTypeOK /\ OwnTypeOK /\ NoClient \notin Clients
      /\ inbox \in Inboxes /\ inbox' \in Inboxes
  BY <1>1, TurnFacts
<1>3. c \notin Dialling
  BY <1>1, <1>2 DEF Directed
<1>4. \A ch \in Chan : creator[ch] # c
  BY <1>2, <1>3 DEF Sides
<1>5. Hosted(c)
  <2>1. InOrder /\ Member(c)
    BY <1>1, <1>2, InboxFacts DEF Visit
  <2> QED
    BY <1>2, <1>4, <2>1 DEF Hosted, Sides
<1>6. \A ch \in ChanId : ~Caller(c, ch)
  BY <1>4 DEF Caller
<1>7. form[c] \in Form /\ requests[c] \in Seq(Op) /\ Windowless(c)
  BY <1>2 DEF KitInv, UiTypeOK
<1>8. events[c] \in Seq(Event) /\ inbox[c] \in Seq(Message) /\ inbox'[c] \in Seq(Message)
  BY <1>2 DEF OwnTypeOK, Inboxes
<1>9. /\ Sole(c) /\ Guest(c) /\ OneAccept(c) /\ Undecided(c) /\ Entering(c) /\ Entered(c)
      /\ NotHere(c) /\ ghost[c] = NoForm
  BY <1>1 DEF Visit, Sole
<1> QED
  BY <1>1, <1>2, <1>3, <1>5, <1>6, <1>7, <1>8, <1>9

\* Who is on the way in waits for the answer or for the token, and is in no room.
LEMMA WayIn ==
  ASSUME NEW c, OneAccept(c), Enters(c)
  PROVE  ~InRoom(c)
<1>1. Accepted(c) => Hears(c)
  BY DEF Accepted, Hears, NoAnswer
<1> QED
  BY <1>1 DEF OneAccept, Enters

\* Who takes what the call is lost by is not on the way in, ...
LEMMA LosingTaken ==
  ASSUME NEW c \in Clients, NEW d \in Clients, VisitTurn(c, d), NEW kind \in Losing, Gets(c, kind)
  PROVE  Decided(c) /\ ~Enters(c) /\ (kind \in Syncs => ~InRoom(c))
<1>1. 1 \in DOMAIN inbox[c] /\ inbox[c][1].kind = kind /\ inbox[c] \in Seq(Message)
  BY VisitFacts, HeadMail
<1>2. waiting[c] = Free
  BY DEF Gets
<1>3. Undecided(c) /\ Entering(c) /\ NotHere(c)
  BY VisitFacts
<1>4. Decided(c)
  BY <1>1, <1>3 DEF Undecided, Lacks
<1>5. ~Enters(c)
  <2> SUFFICES ASSUME Enters(c)
               PROVE  FALSE
    OBVIOUS
  <2>1. Accepted(c)
    BY <1>2 DEF Enters, Free
  <2>2. PICK i \in DOMAIN inbox[c] : inbox[c][i].kind = "acceptCb"
    BY <2>1 DEF Accepted
  <2>3. i < 1 /\ i \in 1..Len(inbox[c])
    BY <1>1, <1>3, <2>2 DEF Entering, AnswerFirst
  <2> QED
    BY <2>3
<1>6. kind \in Syncs => ~InRoom(c)
  BY <1>1, <1>3 DEF NotHere, Lacks
<1> QED
  BY <1>4, <1>5, <1>6

\* ... and neither is who notices that the other side left.
LEMMA LeftTaken ==
  ASSUME NEW c \in Clients, NEW d \in Clients, VisitTurn(c, d), left[c]
  PROVE  Decided(c) /\ ~Enters(c)
BY VisitFacts DEF Undecided, Entering

-----------------------------------------------------------------------------
(* Steps that neither the user nor an answer to an accept takes.           *)

\* The window stays, requests are taken, and what is heard of an end was due.
TakesRequest(c) ==
  /\ requests[c] # <<>> /\ requests'[c] = Tail(requests[c])
  /\ Head(requests[c]).op # "accept"
  /\ Head(requests[c]).op = "hangup" => rtc'[c] = NoRoom

IsTold(c, kind, who) ==
  /\ events'[c] = Append(events[c], [kind |-> kind, who |-> who])
  /\ kind \notin {"onUserReject", "onUserBusy"}
  /\ kind \in Final => Decided(c) /\ ~Enters(c)
  /\ kind \in Away => ~InRoom(c)

Passes(c) ==
  /\ form'[c] = form[c] /\ timer'[c] = timer[c] /\ waiting'[c] = waiting[c]
  /\ requests'[c] = requests[c] \/ TakesRequest(c)
  /\ rtc'[c] \in {rtc[c], NoRoom}
  /\ left'[c] => left[c] \/ InRoom(c)
  /\ \/ events'[c] = events[c]
     \/ \E kind \in EventKinds, who \in Clients \cup {NoClient} : IsTold(c, kind, who)

\* What is lacking in a queue after something was added to it or taken.
LEMMA LacksNext ==
  ASSUME NEW T, NEW s \in Seq(T), NEW kinds, Lacks(s, kinds)
  PROVE  /\ \A m \in T : m.kind \notin kinds => Lacks(Append(s, m), kinds)
         /\ s # <<>> => Lacks(Tail(s), kinds) /\ Head(s).kind \notin kinds
<1>1. ASSUME NEW m \in T, m.kind \notin kinds
      PROVE  Lacks(Append(s, m), kinds)
  BY <1>1, Places DEF Lacks
<1>2. ASSUME s # <<>>
      PROVE  Lacks(Tail(s), kinds) /\ Head(s).kind \notin kinds
  BY <1>2, Places DEF Lacks
<1> QED
  BY <1>1, <1>2

\* A request that is not the first is still there when that was taken.
LEMMA StillWants ==
  ASSUME NEW s \in Seq(Op), NEW op, s # <<>>, Wants(s, op), Head(s).op # op
  PROVE  Wants(Tail(s), op)
<1>1. /\ DOMAIN s = 1..Len(s) /\ Len(s) \in Nat /\ Len(s) >= 1 /\ Head(s) = s[1]
      /\ DOMAIN Tail(s) = 1..(Len(s) - 1)
      /\ \A i \in 1..(Len(s) - 1) : Tail(s)[i] = s[i + 1]
  BY Places
<1>2. PICK i \in DOMAIN s : s[i].op = op
  BY DEF Wants
<1>3. i - 1 \in 1..(Len(s) - 1) /\ (i - 1) + 1 = i
  BY <1>1, <1>2
<1> QED
  BY <1>1, <1>2, <1>3 DEF Wants

LEMMA PassesKept ==
  ASSUME NEW c \in Clients, NEW d \in Clients, VisitTurn(c, d), Services(c, d), Sole(c)', Passes(c)
  PROVE  Visit(c)'
<1> /\ Guest(c) /\ OneAccept(c) /\ Undecided(c) /\ Entering(c) /\ Entered(c) /\ NotHere(c)
    /\ requests[c] \in Seq(Op) /\ events[c] \in Seq(Event)
  BY VisitFacts
<1>1. /\ Decided(c) => Decided(c)'
      /\ Member(c)'
      /\ Accepted(c)' => Accepted(c)
      /\ NoAnswer(inbox, c) => NoAnswer(inbox', c)
      /\ OneAnswer(inbox[c]) => OneAnswer(inbox'[c])
      /\ AnswerFirst(inbox[c]) => AnswerFirst(inbox'[c])
      /\ Lacks(inbox[c], {"Busy"}) => Lacks(inbox'[c], {"Busy"})
      /\ Lacks(inbox[c], Syncs) => Lacks(inbox'[c], Syncs)
      /\ Lacks(inbox[c], Losing) /\ ~Decided(c)' => Lacks(inbox'[c], Losing)
  BY VisitFacts, MailKept
<1>2. /\ form'[c] = form[c] /\ timer'[c] = timer[c] /\ waiting'[c] = waiting[c]
      /\ requests'[c] = requests[c] \/ TakesRequest(c)
      /\ InRoom(c)' => InRoom(c)
      /\ left'[c] => left[c] \/ InRoom(c)
  BY DEF Passes, InRoom
<1>3. Enters(c)' => Enters(c)
  BY <1>1, <1>2 DEF Enters
<1>4. /\ Lacks(events'[c], {"onUserReject", "onUserBusy"})
      /\ Lacks(events[c], Final) => Lacks(events'[c], Final) \/ (Decided(c) /\ ~Enters(c))
      /\ Lacks(events[c], Away) => Lacks(events'[c], Away) \/ ~(Enters(c) \/ InRoom(c))
  <2>0. Lacks(events[c], {"onUserReject", "onUserBusy"})
    BY DEF Guest
  <2>1. CASE events'[c] = events[c]
    BY <2>0, <2>1
  <2>2. ASSUME NEW kind \in EventKinds, NEW who \in Clients \cup {NoClient}, IsTold(c, kind, who)
        PROVE  <1>4!1 /\ <1>4!2 /\ <1>4!3
    <3> DEFINE m == [kind |-> kind, who |-> who]
    <3>1. m \in Event /\ m.kind = kind
      BY DEF Event
    <3>2. events'[c] = Append(events[c], m)
      BY <2>2 DEF IsTold
    <3> HIDE DEF m
    <3>3. kind \in Away => kind \in Final
      BY DEF Away, Final
    <3>4. /\ kind \notin {"onUserReject", "onUserBusy"}
          /\ kind \in Final => Decided(c) /\ ~Enters(c)
          /\ kind \in Away => ~InRoom(c)
      BY <2>2 DEF IsTold
    <3>5. <1>4!1
      BY <2>0, <3>1, <3>2, <3>4, LacksNext
    <3>6. <1>4!2
      BY <3>1, <3>2, <3>4, LacksNext
    <3>7. <1>4!3
      BY <3>1, <3>2, <3>3, <3>4, LacksNext
    <3> QED
      BY <3>5, <3>6, <3>7
  <2> QED
    BY <2>1, <2>2 DEF Passes
<1>5. /\ Wants(requests'[c], "accept") => Wants(requests[c], "accept")
      /\ \A i \in DOMAIN requests'[c] : requests'[c][i].op = "accept" => i = 1
      /\ Wants(requests[c], "hangup") => Wants(requests'[c], "hangup") \/ ~InRoom(c)'
  <2>1. CASE requests'[c] = requests[c]
    BY <2>1 DEF OneAccept
  <2>2. CASE TakesRequest(c)
    <3>1. /\ requests[c] # <<>> /\ requests'[c] = Tail(requests[c])
          /\ Head(requests[c]).op # "accept"
          /\ Head(requests[c]).op = "hangup" => rtc'[c] = NoRoom
      BY <2>2 DEF TakesRequest
    <3>2. Wants(requests'[c], "accept") => Wants(requests[c], "accept")
      BY <3>1, WantsNext
    <3>3. Wants(requests[c], "hangup") => Wants(requests'[c], "hangup") \/ ~InRoom(c)'
      BY <3>1, StillWants DEF InRoom
    <3>4. ASSUME NEW i \in DOMAIN requests'[c], requests'[c][i].op = "accept"
          PROVE  FALSE
      <4>1. /\ i \in 1..(Len(requests[c]) - 1) /\ Len(requests[c]) \in Nat
            /\ requests'[c][i] = requests[c][i + 1] /\ i + 1 \in DOMAIN requests[c]
        BY <3>1, Places
      <4>2. i + 1 = 1
        BY <3>4, <4>1 DEF OneAccept
      <4> QED
        BY <4>1, <4>2
    <3> QED
      BY <3>2, <3>3, <3>4
  <2> QED
    BY <1>2, <2>1, <2>2
<1>6. Guest(c)'
  BY <1>1, <1>2, <1>4 DEF Guest
<1>7. OneAccept(c)'
  <2>1. (Asks(c)' => Asks(c)) /\ (Hears(c)' => Hears(c))
    BY <1>1, <1>2, <1>5 DEF Asks, Hears
  <2> QED
    BY <1>1, <1>2, <1>5, <2>1 DEF OneAccept
<1>8. Undecided(c)'
  BY <1>1, <1>2, <1>3, <1>4, <1>5 DEF Undecided
<1>9. Entering(c)'
  <2>1. Enters(c) => ~InRoom(c)
    BY WayIn
  <2> QED
    BY <1>1, <1>2, <1>3, <1>4, <2>1 DEF Entering
<1>10. Entered(c)'
  BY <1>2, <1>5 DEF Entered
<1>11. NotHere(c)'
  BY <1>1, <1>2, <1>3, <1>4 DEF NotHere
<1> QED
  BY <1>1, <1>6, <1>7, <1>8, <1>9, <1>10, <1>11 DEF Visit

\* The engines of the others only notice that d left their room.
LEMMA ComponentLeaves ==
  ASSUME Inv, NEW c \in Clients, NEW d \in Clients, c # d, ComponentStep(d)
  PROVE  Leaves(c)
<1>1. CASE Asked(d)
  <2>1. (\E p \in Clients : call(d, p)) \/ accept(d) \/ reject(d) \/ hangup(d)
    BY <1>1 DEF Asked
  <2> QED
    BY <2>1, OperationsLeave
<1>2. CASE SdkStep(d)
  BY <1>2, EndingEvents, AnswersLeave, NoticesLeave, OthersLeave DEF SdkStep
<1>3. CASE AcceptStep(d)
  BY <1>3, AnswersLeave, OthersLeave DEF AcceptStep
<1>4. CASE OwnStep(d) \/ OtherDevice(d) \/ TakesEvent(d)
  BY <1>4, OthersLeave DEF OwnStep
<1> QED
  BY <1>1, <1>2, <1>3, <1>4 DEF ComponentStep, Inside

\* The service does nothing.
LEMMA StillServes ==
  ASSUME Inv, NEW c \in Clients, NEW d, Hosted(c), UNCHANGED svcVars
  PROVE  Services(c, d)
<1>1. Silent(inbox)
  BY DEF svcVars, Silent
<1> QED
  BY <1>1, InboxFacts, SilentServed DEF Services

\* The turn of another.
LEMMA OthersVisit ==
  ASSUME NEW c \in Clients, NEW d \in Clients, VisitTurn(c, d), c # d
  PROVE  Visit(c)'
<1> Inv /\ KitInv /\ StepOf(d) /\ Hosted(c) /\ Sole(c) /\ (UNCHANGED avVars \/ ComponentStep(d))
  BY VisitFacts
<1>1. Mine(c) /\ Yours(c)
  BY StepFacts
<1>2. Services(c, d) /\ Leaves(c)
  <2>1. CASE UNCHANGED avVars
    <3>1. UNCHANGED svcVars
      BY <2>1 DEF avVars
    <3>2. Leaves(c)
      BY <2>1 DEF avVars, callVars, tokenVars, rtcVars, Leaves
    <3> QED
      BY <3>1, <3>2, StillServes
  <2>2. CASE ComponentStep(d)
    BY <2>2, StepServes, ComponentLeaves
  <2> QED
    BY <2>1, <2>2
<1>3. Passes(c)
  BY <1>1, <1>2 DEF Mine, Yours, Leaves, Passes, InRoom
<1>4. Sole(c)'
  BY <1>1 DEF Mine, Yours, Sole
<1> QED
  BY <1>2, <1>3, <1>4, PassesKept

\* In its own turn its window stays the only one.
LEMMA SoleKept ==
  ASSUME NEW c \in Clients, VisitTurn(c, c)
  PROVE  Sole(c)'
<1>1. SoleTurn(c)
  BY VisitFacts DEF SoleTurn
<1> QED
  BY <1>1, WindowLasts, EndRequestsKept, InvitationFirst DEF Sole

\* What c, who has called nobody, is not told.
LEMMA NotTold ==
  ASSUME NEW c \in Clients, VisitTurn(c, c)
  PROVE  /\ ~RunsCall(c) /\ ~CallingTimeout(c)
         /\ ~handleAccepted(c) /\ ~AcceptedJoins(c) /\ ~handleControl(c) /\ ~ControlJoins(c)
         /\ ~handleRejected(c) /\ ~handleJoin(c)
         /\ \A kind \in {"createCb", "joinCb"} : Gets(c, kind) => ~Got(c).ok
<1> /\ Inv /\ FlowInv /\ Guest(c) /\ Sides /\ c \notin Dialling /\ OwnTypeOK
    /\ \A ch \in ChanId : ~Caller(c, ch)
    /\ requests[c] \in Seq(Op)
  BY VisitFacts
<1>1. ~RunsCall(c)
  <2> SUFFICES ASSUME RunsCall(c)
               PROVE  FALSE
    OBVIOUS
  <2>1. requests[c] # <<>> /\ Head(requests[c]).op = "call"
    BY DEF RunsCall, Runs
  <2>2. 1 \in DOMAIN requests[c] /\ requests[c][1].op = "call"
    BY <2>1, TailFacts
  <2> QED
    BY <2>2 DEF Sides
<1>2. ~CallingTimeout(c)
  BY DEF CallingTimeout, Guest
<1>3. ASSUME NEW kind, Gets(c, kind)
      PROVE  /\ Founded(c, Got(c)) /\ Good(c, Got(c)) /\ Got(c).kind = kind
             /\ 1 \in DOMAIN inbox[c] /\ Got(c) = inbox[c][1] /\ Got(c).ch \in ChanId
  BY <1>3, HeadMail, GotFacts DEF FlowInv, MessagesGood, AllGood
<1>4. ~handleAccepted(c)
  BY <1>3 DEF handleAccepted, Founded
<1>5. LoopFlow(c) /\ waiting[c] \in Wait
  BY DEF FlowInv, FlowOf, OwnTypeOK
<1>6. ~AcceptedJoins(c)
  <2>1. waiting[c][2] \in ChanId
    BY <1>5 DEF Wait
  <2> QED
    BY <1>5, <2>1 DEF AcceptedJoins, LoopFlow
<1>7. ~handleControl(c) /\ ~ControlJoins(c)
  <2>1. \A ch : Both(ch)
    BY VisitFacts DEF Both, Modern
  <2>2. ~handleControl(c)
    BY <1>3, <2>1 DEF handleControl, Good
  <2>3. ~ControlJoins(c)
    BY <1>5, <2>1 DEF ControlJoins, LoopFlow
  <2> QED
    BY <2>2, <2>3
<1>8. ~handleJoin(c)
  BY <1>3 DEF handleJoin, Good
<1>9. ~handleRejected(c)
  <2>1. ~Gets(c, "Busy")
    BY <1>3 DEF Guest, Lacks
  <2>2. ~Gets(c, "Reject")
    BY <1>3, VisitFacts, TurnFacts DEF Chained
  <2> QED
    BY <2>1, <2>2 DEF handleRejected
<1>10. ASSUME NEW kind \in {"createCb", "joinCb"}, Gets(c, kind)
       PROVE  ~Got(c).ok
  BY <1>3, <1>10 DEF Founded
<1> QED
  BY <1>1, <1>2, <1>4, <1>6, <1>7, <1>8, <1>9, <1>10

\* Something is heard of.
LEMMA Told ==
  ASSUME NEW c \in Clients, NEW d \in Clients, VisitTurn(c, d),
         NEW kind \in EventKinds, NEW who \in Clients \cup {NoClient}, Tell(c, kind, who),
         kind \notin {"onUserReject", "onUserBusy"},
         kind \in Final => Decided(c) /\ ~Enters(c),
         kind \in Away => ~InRoom(c)
  PROVE  \E k \in EventKinds, w \in Clients \cup {NoClient} : IsTold(c, k, w)
<1>1. events'[c] = Append(events[c], [kind |-> kind, who |-> who])
  BY VisitFacts DEF Tell, OwnTypeOK
<1>2. IsTold(c, kind, who)
  BY <1>1 DEF IsTold
<1> QED
  BY <1>2

\* The handlers of c but those of its own accept.
LEMMA HandlerPasses ==
  ASSUME NEW c \in Clients, VisitTurn(c, c), SdkStep(c), UNCHANGED uiVars
  PROVE  Passes(c)
<1> Inv /\ OwnTypeOK /\ SvcTypeOK
  BY VisitFacts
<1>1. form'[c] = form[c] /\ requests'[c] = requests[c]
  BY DEF uiVars
<1>2. CASE \/ signalingCreateCb(c) \/ signalingInviteCb(c) \/ signalingRejectCb(c)
           \/ signalingCloseCb(c) \/ signalingLeaveCb(c)
  BY <1>1, <1>2
  DEF signalingCreateCb, signalingInviteCb, signalingRejectCb, signalingCloseCb, signalingLeaveCb,
      callVars, tokenVars, rtcVars, Passes
<1>3. CASE signalingJoinCb(c)
  BY <1>1, <1>3 DEF signalingJoinCb, rtcVars, Passes
<1>4. CASE handleInvited(c)
  <2>1. timer' = timer /\ waiting' = waiting /\ rtc' = rtc /\ left' = left /\ Gets(c, "Invite")
    BY <1>4 DEF handleInvited, tokenVars, rtcVars
  <2>2. events' = events \/ Tell(c, "onInvited", creator[Got(c).ch])
    BY <1>4 DEF handleInvited
  <2>3. creator[Got(c).ch] \in Clients \cup {NoClient}
    BY <2>1, GotFacts DEF SvcTypeOK, Notice
  <2>4. \/ events'[c] = events[c]
        \/ \E k \in EventKinds, w \in Clients \cup {NoClient} : IsTold(c, k, w)
    BY <2>2, <2>3, Told DEF EventKinds, Final, Away
  <2> QED
    BY <1>1, <2>1, <2>4 DEF Passes
<1>5. ASSUME NEW kind \in Losing, NEW event \in EventKinds, Gets(c, kind), Tell(c, event, NoClient),
             event \notin {"onUserReject", "onUserBusy"}, event \in Away => kind \in Syncs,
             timer' = timer, waiting' = waiting, rtc' = rtc, left' = left
      PROVE  Passes(c)
  <2>1. Decided(c) /\ ~Enters(c) /\ (kind \in Syncs => ~InRoom(c))
    BY <1>5, LosingTaken
  <2>2. \E k \in EventKinds, w \in Clients \cup {NoClient} : IsTold(c, k, w)
    BY <1>5, <2>1, Told
  <2> QED
    BY <1>1, <1>5, <2>2 DEF Passes
<1>6. CASE handleLeave(c)
  <2>1. /\ Gets(c, "Leave") /\ Tell(c, "onUserLeave", NoClient)
        /\ timer' = timer /\ waiting' = waiting /\ rtc' = rtc /\ left' = left
    BY <1>6 DEF handleLeave, callVars, tokenVars, rtcVars
  <2> QED
    BY <1>5, <2>1 DEF Losing, Byes, EventKinds, Away
<1>7. ASSUME NEW kind, NEW event, Ends(c, kind, event)
      PROVE  /\ Gets(c, kind) /\ Tell(c, event, NoClient)
             /\ timer' = timer /\ waiting' = waiting /\ rtc' = rtc /\ left' = left
  BY <1>7 DEF Ends, tokenVars, rtcVars
<1>8. CASE handleClose(c) \/ handleCancelInvite(c)
  BY <1>5, <1>7, <1>8 DEF handleClose, handleCancelInvite, Losing, Byes, EventKinds, Away
<1>9. CASE handleOtherClientAccepted(c) \/ handleOtherClientRejected(c)
  BY <1>5, <1>7, <1>9
  DEF handleOtherClientAccepted, handleOtherClientRejected, Losing, Syncs, EventKinds, Away
<1> QED
  BY <1>2, <1>3, <1>4, <1>6, <1>8, <1>9, NotTold DEF SdkStep

\* Its engine and its token.
LEMMA OwnPasses ==
  ASSUME NEW c \in Clients, VisitTurn(c, c), OwnStep(c), UNCHANGED uiVars
  PROVE  Passes(c)
<1> OwnTypeOK
  BY VisitFacts
<1>1. form'[c] = form[c] /\ requests'[c] = requests[c]
  BY DEF uiVars
<1>2. CASE GetToken(c)
  BY <1>1, <1>2 DEF GetToken, callVars, rtcVars, Passes
<1>3. CASE onUserLeft(c)
  <2>1. /\ left[c] /\ Tell(c, "onUserLeave", NoClient)
        /\ timer' = timer /\ waiting' = waiting /\ rtc' = rtc
    BY <1>3 DEF onUserLeft, callVars, tokenVars
  <2>2. Decided(c) /\ ~Enters(c)
    BY <2>1, LeftTaken
  <2>3. \E k \in EventKinds, w \in Clients \cup {NoClient} : IsTold(c, k, w)
    BY <2>1, <2>2, Told DEF EventKinds, Away
  <2> QED
    BY <1>1, <2>1, <2>3 DEF Passes
<1> QED
  BY <1>2, <1>3, NotTold DEF OwnStep

\* Its refusal and its hangup.
LEMMA RequestPasses ==
  ASSUME NEW c \in Clients, VisitTurn(c, c), RunsReject(c) \/ RunsHangup(c)
  PROVE  Passes(c)
<1> OwnTypeOK /\ KitInv
  BY VisitFacts
<1>1. PICK op \in {"reject", "hangup"} : Runs(c, op) /\ (op = "hangup" => hangup(c))
  BY DEF RunsReject, RunsHangup
<1>2. /\ requests[c] # <<>> /\ Head(requests[c]).op = op
      /\ requests'[c] = Tail(requests[c]) /\ form' = form
  BY <1>1 DEF Runs, KitInv, UiTypeOK
<1>3. timer' = timer /\ waiting' = waiting /\ events' = events
  BY DEF RunsReject, RunsHangup, reject, hangup, callVars, tokenVars
<1>4. CASE RunsReject(c)
  <2>1. /\ rtc' = rtc /\ left' = left
        /\ Head(requests[c]).op = "reject" /\ requests'[c] = Tail(requests[c])
    BY <1>4 DEF RunsReject, reject, rtcVars, Runs, KitInv, UiTypeOK
  <2>2. TakesRequest(c)
    BY <1>2, <2>1 DEF TakesRequest
  <2> QED
    BY <1>2, <1>3, <2>1, <2>2 DEF Passes
<1>5. CASE RunsHangup(c)
  <2>1. leaveChannel(c) /\ Head(requests[c]).op = "hangup"
    BY <1>5 DEF RunsHangup, hangup, Runs
  <2>2. rtc'[c] = NoRoom /\ (left'[c] => left[c])
    BY <2>1 DEF leaveChannel, OwnTypeOK
  <2>3. TakesRequest(c)
    BY <1>2, <2>1, <2>2 DEF TakesRequest
  <2> QED
    BY <1>2, <1>3, <2>2, <2>3 DEF Passes
<1> QED
  BY <1>4, <1>5

-----------------------------------------------------------------------------
(* Buttons and events.                                                     *)

\* What c asks of its component and what its window becomes, while it is in no room
\* or stays in it.
Asking(c) ==
  /\ \A i \in DOMAIN requests'[c] : requests'[c][i].op = "accept" => i = 1
  /\ form'[c].view = "confirm" => ~Wants(requests'[c], "accept")
  /\ Asks(c)' => NoAnswer(inbox, c) /\ waiting[c][1] # "acceptCb" /\ ~InRoom(c)
  /\ Wants(requests'[c], "accept") => form'[c].end = "none" \/ Decided(c)
  /\ Enters(c) => form'[c] # NoForm /\ form'[c].end = "none"
  /\ InRoom(c) => form'[c] # NoForm /\ (form'[c].end = "none" \/ Wants(requests'[c], "hangup"))

LEMMA AskingKept ==
  ASSUME NEW c \in Clients, VisitTurn(c, c), Services(c, c), Asking(c),
         timer'[c] = timer[c], waiting'[c] = waiting[c], rtc'[c] = rtc[c], left'[c] = left[c],
         events'[c] = events[c] \/ (events[c] # <<>> /\ events'[c] = Tail(events[c]))
  PROVE  Visit(c)'
<1> /\ Guest(c) /\ OneAccept(c) /\ Undecided(c) /\ Entering(c) /\ NotHere(c)
    /\ events[c] \in Seq(Event)
  BY VisitFacts
<1>1. /\ Decided(c) => Decided(c)'
      /\ Member(c)'
      /\ Accepted(c)' => Accepted(c)
      /\ NoAnswer(inbox, c) => NoAnswer(inbox', c)
      /\ OneAnswer(inbox[c]) => OneAnswer(inbox'[c])
      /\ AnswerFirst(inbox[c]) => AnswerFirst(inbox'[c])
      /\ Lacks(inbox[c], {"Busy"}) => Lacks(inbox'[c], {"Busy"})
      /\ Lacks(inbox[c], Syncs) => Lacks(inbox'[c], Syncs)
      /\ Lacks(inbox[c], Losing) /\ ~Decided(c)' => Lacks(inbox'[c], Losing)
  BY VisitFacts, MailKept
<1>2. \A kinds : Lacks(events[c], kinds) => Lacks(events'[c], kinds)
  BY LacksNext
<1>3. (Enters(c)' => Enters(c)) /\ (InRoom(c)' <=> InRoom(c))
  BY <1>1 DEF Enters, InRoom
<1>4. Sole(c)'
  BY SoleKept
<1>5. Guest(c)'
  BY <1>1, <1>2 DEF Guest
<1>6. OneAccept(c)'
  <2>1. Hears(c)' => waiting[c][1] # "acceptCb" /\ ~InRoom(c)
    BY <1>1 DEF Asking, Hears, OneAccept
  <2> QED
    BY <1>1, <1>3, <2>1 DEF Asking, OneAccept
<1>7. Undecided(c)'
  BY <1>1, <1>2, <1>3 DEF Asking, Undecided
<1>8. Entering(c)'
  BY <1>1, <1>2, <1>3 DEF Asking, Entering
<1>9. Entered(c)'
  BY <1>3 DEF Asking, Entered
<1>10. NotHere(c)'
  BY <1>1, <1>2, <1>3 DEF NotHere
<1> QED
  BY <1>1, <1>4, <1>5, <1>6, <1>7, <1>8, <1>9, <1>10 DEF Visit

\* An end page asks for no accept, ...
LEMMA EndPageAsks ==
  ASSUME NEW c \in Clients, VisitTurn(c, c), form[c] # NoForm, NEW why \in EndCall,
         EnterEndCallPage(c, why), ~Enters(c),
         Wants(requests[c], "accept") => Decided(c),
         why \in {"REJECT", "BUSYING", "OTHER_CLIENT_ACCEPT", "OTHER_CLIENT_REJECT"} => ~InRoom(c)
  PROVE  Asking(c)
<1> /\ KitInv /\ form[c] \in Form /\ requests[c] \in Seq(Op) /\ OneAccept(c) /\ Entered(c)
  BY VisitFacts
<1>1. form'[c] # NoForm /\ form'[c].end # "none" /\ form'[c].view = form[c].view
  <2>1. form' = form \/ form' = [form EXCEPT ![c].end = why]
    BY DEF EnterEndCallPage, uiVars
  <2>2. form'[c] = form[c] \/ form'[c] = [form[c] EXCEPT !.end = why]
    BY <2>1 DEF KitInv, UiTypeOK
  <2>3. [form[c] EXCEPT !.end = why].view = form[c].view
    BY WindowParts
  <2>4. form'[c].view = form[c].view
    BY <2>2, <2>3, Zenon
  <2> QED
    BY <2>4, EndPageOn DEF Onward
<1>2. \/ requests'[c] = requests[c]
      \/ \E op \in {"reject", "hangup"} :
           requests'[c] = Append(requests[c], [op |-> op, peer |-> NoClient])
  <2>1. \/ requests' = requests
        \/ \E op \in {"reject", "hangup"} : Request(c, op, NoClient)
    BY DEF EnterEndCallPage, EndRequest, uiVars
  <2> QED
    BY <2>1 DEF Request, KitInv, UiTypeOK
<1>3. /\ Wants(requests'[c], "accept") <=> Wants(requests[c], "accept")
      /\ Wants(requests[c], "hangup") => Wants(requests'[c], "hangup")
      /\ \A i \in DOMAIN requests'[c] : requests'[c][i].op = "accept" => i = 1
  <2>1. CASE requests'[c] = requests[c]
    BY <2>1 DEF OneAccept
  <2>2. ASSUME NEW op \in {"reject", "hangup"},
               requests'[c] = Append(requests[c], [op |-> op, peer |-> NoClient])
        PROVE  <1>3!1 /\ <1>3!2 /\ <1>3!3
    <3> DEFINE r == [op |-> op, peer |-> NoClient]
    <3>1. r \in Op /\ r.op # "accept"
      BY DEF Op
    <3>2. requests'[c] = Append(requests[c], r)
      BY <2>2
    <3> HIDE DEF r
    <3>3. <1>3!1 /\ <1>3!2
      BY <3>1, <3>2, WantsNext
    <3>4. ASSUME NEW i \in DOMAIN requests'[c], requests'[c][i].op = "accept"
          PROVE  i = 1
      <4>1. i \in DOMAIN requests[c] /\ requests[c][i].op = "accept"
        BY <3>1, <3>2, <3>4, Places
      <4> QED
        BY <4>1 DEF OneAccept
    <3> QED
      BY <3>3, <3>4
  <2> QED
    BY <1>2, <2>1, <2>2
<1>4. InRoom(c) => Wants(requests'[c], "hangup")
  <2>1. CASE form[c].end # "none"
    BY <1>3, <2>1 DEF Entered
  <2>2. CASE form[c].end = "none" /\ InRoom(c)
    <3>1. EndRequest(c, why)
      BY <2>2 DEF EnterEndCallPage
    <3>2. requests'[c] = Append(requests[c], HangupOp)
      BY <2>2, <3>1 DEF EndRequest, Request, HangupOp, KitInv, UiTypeOK
    <3>3. HangupOp \in Op /\ HangupOp.op = "hangup"
      BY DEF HangupOp, Op
    <3> QED
      BY <3>2, <3>3, WantsNext
  <2> QED
    BY <2>1, <2>2
<1> QED
  BY <1>1, <1>3, <1>4 DEF Asking, Asks, Hears, OneAccept

\* ... and neither does a page of the call.
LEMMA StatusPageAsks ==
  ASSUME NEW c \in Clients, VisitTurn(c, c), form[c] # NoForm,
         \/ UNCHANGED uiVars
         \/ \E view \in {"dial", "talk"} : ShowStatusPage(c, view)
  PROVE  Asking(c)
<1> /\ KitInv /\ form[c] \in Form /\ OneAccept(c) /\ Entered(c) /\ Entering(c) /\ Undecided(c)
  BY VisitFacts
<1>1. requests' = requests
  BY DEF uiVars, ShowStatusPage
<1>2. /\ form'[c] # NoForm
      /\ form'[c].end = form[c].end
      /\ form'[c].view = "confirm" => form[c].view = "confirm"
  <2>1. CASE UNCHANGED uiVars
    BY <2>1 DEF uiVars
  <2>2. ASSUME NEW view \in {"dial", "talk"}, ShowStatusPage(c, view)
        PROVE  <1>2!1 /\ <1>2!2 /\ <1>2!3
    <3>1. form'[c] = [form[c] EXCEPT !.view = view]
      BY <2>2 DEF ShowStatusPage, KitInv, UiTypeOK
    <3>2. form[c] \in Windows
      BY WindowFacts
    <3>3. form'[c] # NoForm
      BY <3>1, <3>2, WindowFacts
    <3> QED
      BY <3>1, <3>3, WindowParts
  <2> QED
    BY <2>1, <2>2
<1>3. Wants(requests[c], "accept") => form[c].end = "none" \/ Decided(c)
  BY DEF Undecided
<1>4. Asks(c)' => Asks(c)
  BY <1>1, <1>2 DEF Asks
<1> QED
  BY <1>1, <1>2, <1>3, <1>4 DEF Asking, OneAccept, Hears, Entering, Entered

-----------------------------------------------------------------------------
(* The turn of who is called: what the window does.                        *)

\* Who waits for what was asked is not on the way in.
LEMMA SettledFacts ==
  ASSUME NEW c \in Clients, Settled(c)
  PROVE  /\ requests[c] = <<>> /\ waiting[c][1] # "acceptCb" /\ NoAnswer(inbox, c) /\ ~Enters(c)
         /\ \A op : ~Wants(requests[c], op)
<1>1. waiting[c][1] # "acceptCb" /\ requests[c] = <<>>
  BY DEF Settled, Free
<1>2. NoAnswer(inbox, c)
  BY DEF Settled, Answer, NoAnswer
<1>3. ~Enters(c)
  BY <1>1, <1>2 DEF Enters, Accepted, NoAnswer
<1>4. \A op : ~Wants(requests[c], op)
  BY <1>1 DEF Wants
<1> QED
  BY <1>1, <1>2, <1>3, <1>4

\* The accept button.
LEMMA CompleteAsks ==
  ASSUME NEW c \in Clients, VisitTurn(c, c), Settled(c), Complete(c)
  PROVE  Asking(c)
<1> /\ KitInv /\ form[c] \in Form /\ OneAccept(c) /\ Entered(c)
  BY VisitFacts
<1> DEFINE r == [op |-> "accept", peer |-> NoClient]
<1>1. /\ requests[c] = <<>> /\ waiting[c][1] # "acceptCb" /\ NoAnswer(inbox, c) /\ ~Enters(c)
  BY SettledFacts
<1>2. ~InRoom(c)
  BY DEF Complete, OneAccept, Asks, Hears
<1>3. r \in Op
  BY DEF Op
<1>4. requests'[c] = Append(requests[c], r) /\ form'[c] = [form[c] EXCEPT !.view = "dial"]
  BY DEF Complete, Request, KitInv, UiTypeOK
<1>5. form'[c].view = "dial" /\ form'[c].end = "none"
  <2>1. form[c].end = "none"
    BY DEF Complete, Live
  <2>2. [form[c] EXCEPT !.view = "dial"].view = "dial"
    BY WindowParts
  <2>3. [form[c] EXCEPT !.view = "dial"].end = "none"
    BY <2>1, WindowParts
  <2> QED
    BY <1>4, <2>2, <2>3, Zenon
<1> HIDE DEF r
<1>6. \A i \in DOMAIN requests'[c] : i = 1
  BY <1>1, <1>3, <1>4
<1> QED
  BY <1>1, <1>2, <1>5, <1>6 DEF Asking

LEMMA UserVisit ==
  ASSUME NEW c \in Clients, VisitTurn(c, c), User(c)
  PROVE  Visit(c)'
<1> /\ KitInv /\ Inv /\ Hosted(c) /\ OneAccept(c) /\ ghost[c] = NoForm /\ c \notin Dialling
    /\ ~Hasty
  BY VisitFacts
<1>1. Settled(c)
  BY DEF User
<1>2. UNCHANGED avVars
  BY KitSteps
<1>3. ~UseGhost(c)
  BY DEF UseGhost, Live, NoForm
<1>4. \A p \in Clients : <<c, p>> \notin Dials
  <2> SUFFICES ASSUME NEW p \in Clients, <<c, p>> \in Dials
               PROVE  c \in Dialling
    OBVIOUS
  <2>1. <<c, p>>[1] = c
    OBVIOUS
  <2> QED
    BY <2>1, Zenon DEF Dialling
<1>5. ASSUME Complete(c)
      PROVE  Asking(c)
  BY <1>1, <1>5, CompleteAsks
<1>6. ASSUME NEW why \in {"REJECT", "HANGUP", "CLOSE"}, Live(form[c]), EnterEndCallPage(c, why),
             why = "REJECT" => form[c].view = "confirm"
      PROVE  Asking(c)
  <2>1. form[c] # NoForm
    BY <1>6, WindowFacts
  <2>2. why = "REJECT" => ~InRoom(c)
    BY <1>6 DEF OneAccept, Asks, Hears
  <2>3. why \in EndCall
    BY DEF EndCall
  <2>4. ~Enters(c) /\ ~Wants(requests[c], "accept")
    BY <1>1, SettledFacts
  <2> QED
    BY <1>6, <2>1, <2>2, <2>3, <2>4, EndPageAsks
<1>7. Asking(c)
  BY <1>3, <1>4, <1>5, <1>6 DEF User, Refuse, StopChat, QuitMsgBox
<1>8. UNCHANGED <<svcVars, timer, waiting, rtc, left, events>>
  BY <1>2 DEF avVars, callVars, tokenVars, rtcVars
<1>9. Services(c, c)
  BY <1>8, StillServes
<1> QED
  BY <1>7, <1>8, <1>9, AskingKept

\* The window learns of an end.
LEMMA FinalAsks ==
  ASSUME NEW c \in Clients, VisitTurn(c, c), TakesEvent(c), Head(events[c]).kind \in Final,
         form[c] # NoForm, NEW why \in EndCall, EnterEndCallPage(c, why),
         why \in {"REJECT", "BUSYING", "OTHER_CLIENT_ACCEPT", "OTHER_CLIENT_REJECT"}
           => Head(events[c]).kind \in Away
  PROVE  Asking(c)
<1> /\ Undecided(c) /\ Entering(c) /\ NotHere(c) /\ events[c] \in Seq(Event)
  BY VisitFacts
<1>1. 1 \in DOMAIN events[c] /\ Head(events[c]) = events[c][1]
  BY Places DEF TakesEvent
<1>2. Decided(c) /\ ~Enters(c)
  BY <1>1 DEF Undecided, Entering, Lacks
<1>3. Head(events[c]).kind \in Away => ~InRoom(c)
  BY <1>1 DEF NotHere, Lacks
<1> QED
  BY <1>2, <1>3, EndPageAsks

\* The window appears.
LEMMA InvitedAsks ==
  ASSUME NEW c \in Clients, VisitTurn(c, c), OnInvitedCb(c)
  PROVE  Asking(c)
<1> /\ KitInv /\ Sole(c) /\ c \notin Dialling /\ Windowless(c) /\ Entered(c)
    /\ events[c] \in Seq(Event)
  BY VisitFacts
<1>1. SoleTurn(c)
  BY VisitFacts DEF SoleTurn
<1>2. form[c] = NoForm /\ requests'[c] = <<>>
  BY <1>1, FirstInvitation
<1>3. waiting[c][1] # "acceptCb" /\ NoAnswer(inbox, c)
  BY <1>2 DEF Windowless, Before
<1>4. ~Enters(c) /\ ~InRoom(c)
  BY <1>2, <1>3 DEF Enters, Accepted, NoAnswer, Entered
<1>5. \A op : ~Wants(requests'[c], op)
  BY <1>2 DEF Wants
<1>6. \A i \in DOMAIN requests'[c] : i = 1
  BY <1>2
<1> QED
  BY <1>3, <1>4, <1>5, <1>6 DEF Asking

LEMMA EventVisit ==
  ASSUME NEW c \in Clients, VisitTurn(c, c), HandlesEvent(c)
  PROVE  Visit(c)'
<1> /\ KitInv /\ Inv /\ Hosted(c) /\ Guest(c) /\ Windowless(c) /\ StepOf(c) /\ OwnTypeOK
    /\ events[c] \in Seq(Event)
  BY VisitFacts
<1>1. TakesEvent(c)
  BY KitSteps
<1>2. /\ UNCHANGED <<svcVars, timer, waiting, rtc, left>>
      /\ events[c] # <<>> /\ events'[c] = Tail(events[c])
  BY <1>1 DEF TakesEvent, callVars, tokenVars, rtcVars, OwnTypeOK
<1>3. Services(c, c)
  BY <1>2, StillServes
<1>4. Head(events[c]).kind # "onInvited" => form[c] # NoForm
  BY <1>2 DEF Windowless, Before, Untouched, Announced
<1>5. Head(events[c]).kind \notin {"onUserReject", "onUserBusy"}
  <2>1. 1 \in DOMAIN events[c] /\ Head(events[c]) = events[c][1]
    BY <1>2, Places
  <2> QED
    BY <2>1 DEF Guest, Lacks
<1>6. ASSUME OnInvitedCb(c)
      PROVE  Asking(c)
  BY <1>6, InvitedAsks
<1>7. ASSUME OnCallingCb(c) \/ OnUserAcceptCb(c) \/ OnUserEnterCb(c)
      PROVE  Asking(c)
  <2>1. form[c] # NoForm
    BY <1>4, <1>7 DEF OnCallingCb, OnUserAcceptCb, OnUserEnterCb, Takes
  <2>2. UNCHANGED uiVars \/ \E view \in {"dial", "talk"} : ShowStatusPage(c, view)
    BY <1>7 DEF OnCallingCb, OnUserAcceptCb, OnUserEnterCb
  <2> QED
    BY <2>1, <2>2, StatusPageAsks
<1>8. ASSUME OnCallEndCb(c) \/ OnCallingTimeOutCb(c)
      PROVE  Asking(c)
  <2>1. /\ Head(events[c]).kind \in Final /\ Head(events[c]).kind # "onInvited"
        /\ EnterEndCallPage(c, "BE_HANGUP") \/ EnterEndCallPage(c, "RESPONSE")
    BY <1>8 DEF OnCallEndCb, OnCallingTimeOutCb, Takes, Final
  <2> QED
    BY <1>1, <1>4, <2>1, FinalAsks DEF EndCall
<1>9. ASSUME onOtherClientAcceptCb(c) \/ onOtherClientRejectCb(c)
      PROVE  Asking(c)
  <2>1. /\ Head(events[c]).kind \in Final /\ Head(events[c]).kind # "onInvited"
        /\ Head(events[c]).kind \in Away
        /\ \/ EnterEndCallPage(c, "OTHER_CLIENT_ACCEPT")
           \/ EnterEndCallPage(c, "OTHER_CLIENT_REJECT")
    BY <1>9 DEF onOtherClientAcceptCb, onOtherClientRejectCb, Takes, Final, Away
  <2> QED
    BY <1>1, <1>4, <2>1, FinalAsks DEF EndCall
<1>10. Asking(c)
  BY <1>5, <1>6, <1>7, <1>8, <1>9 DEF HandlesEvent, OnUserRejectCb, OnUserBusyCb, Takes
<1> QED
  BY <1>2, <1>3, <1>10, AskingKept

-----------------------------------------------------------------------------
(* The turn of who is called: the answer to its accept.                    *)

\* The answer taken was the only one, and the window is there.
LEMMA AnswerTaken ==
  ASSUME NEW c \in Clients, VisitTurn(c, c), Gets(c, "acceptCb")
  PROVE  /\ NoAnswer(Rest(c), c) /\ ~Asks(c) /\ ~InRoom(c) /\ waiting[c] = Free
         /\ Accepted(c) <=> Got(c).ok
<1> Inv /\ OneAccept(c) /\ inbox[c] \in Seq(Message) /\ inbox \in Inboxes
  BY VisitFacts, InboxFacts
<1>1. 1 \in DOMAIN inbox[c] /\ Got(c) = inbox[c][1] /\ inbox[c][1].kind = "acceptCb"
  BY HeadMail
<1>2. \A i \in DOMAIN inbox[c] : inbox[c][i].kind = "acceptCb" => i = 1
  BY <1>1 DEF OneAccept, OneAnswer
<1>3. ~Asks(c) /\ ~InRoom(c)
  BY <1>1 DEF OneAccept, Hears, NoAnswer
<1>4. Accepted(c) <=> Got(c).ok
  BY <1>1, <1>2 DEF Accepted
<1>5. Rest(c)[c] = Tail(inbox[c]) /\ inbox[c] # <<>> /\ waiting[c] = Free
  BY DEF Rest, Inboxes, Gets
<1>6. ASSUME NEW i \in DOMAIN Tail(inbox[c])
      PROVE  Tail(inbox[c])[i].kind # "acceptCb"
  <2>1. /\ i \in 1..(Len(inbox[c]) - 1) /\ Len(inbox[c]) \in Nat
        /\ Tail(inbox[c])[i] = inbox[c][i + 1] /\ DOMAIN inbox[c] = 1..Len(inbox[c])
    BY <1>5, <1>6, Places
  <2>2. i + 1 \in DOMAIN inbox[c] /\ i + 1 # 1
    BY <2>1
  <2> QED
    BY <1>2, <2>1, <2>2
<1>7. NoAnswer(Rest(c), c)
  BY <1>5, <1>6 DEF NoAnswer
<1> QED
  BY <1>3, <1>4, <1>5, <1>7

\* The accept failed: the window shows it.
LEMMA FailsVisit ==
  ASSUME NEW c \in Clients, VisitTurn(c, c), AcceptFails(c), EnterEndCallPage(c, "REJECT")
  PROVE  Visit(c)'
<1> /\ KitInv /\ Inv /\ Hosted(c) /\ Windowless(c)
  BY VisitFacts
<1>1. /\ Gets(c, "acceptCb") /\ ~Got(c).ok
      /\ UNCHANGED <<timer, waiting, rtc, left, events>>
  BY DEF AcceptFails, callVars, tokenVars, rtcVars
<1>2. ~Asks(c) /\ ~InRoom(c) /\ ~Enters(c)
  BY <1>1, AnswerTaken DEF Enters, Free
<1>3. form[c] # NoForm
  BY BeforeAccept DEF Windowless, AcceptStep
<1>4. Asking(c)
  BY <1>2, <1>3, EndPageAsks DEF EndCall, Asks
<1>5. Services(c, c)
  BY HandlerServes DEF AcceptStep
<1> QED
  BY <1>1, <1>4, <1>5, AskingKept

\* On the way in nothing of the window changes but its page.
LEMMA EntersKept ==
  ASSUME NEW c \in Clients, VisitTurn(c, c), Services(c, c), Enters(c), ~Asks(c),
         NoAnswer(inbox', c), UNCHANGED <<timer, left, events>>,
         UNCHANGED uiVars \/ ShowStatusPage(c, "talk"),
         waiting'[c][1] = "acceptCb" => ~InRoom(c)'
  PROVE  Visit(c)'
<1> /\ KitInv /\ form[c] \in Form /\ Guest(c) /\ OneAccept(c) /\ Undecided(c) /\ Entering(c)
    /\ NotHere(c)
  BY VisitFacts
<1>1. /\ Decided(c) => Decided(c)'
      /\ Member(c)'
      /\ OneAnswer(inbox[c]) => OneAnswer(inbox'[c])
      /\ AnswerFirst(inbox[c]) => AnswerFirst(inbox'[c])
      /\ Lacks(inbox[c], {"Busy"}) => Lacks(inbox'[c], {"Busy"})
      /\ Lacks(inbox[c], Syncs) => Lacks(inbox'[c], Syncs)
  BY VisitFacts, MailKept
<1>2. /\ Decided(c) /\ form[c] # NoForm /\ form[c].end = "none"
      /\ ~left[c] /\ Lacks(events[c], Final) /\ AnswerFirst(inbox[c])
      /\ Lacks(inbox[c], Syncs) /\ Lacks(events[c], Away)
  BY DEF Undecided, Entering, NotHere
<1>3. form[c].view # "confirm" /\ ~Wants(requests[c], "accept")
  BY DEF Asks
<1>4. requests' = requests
  BY DEF uiVars, ShowStatusPage
<1>5. /\ form'[c] # NoForm
      /\ form'[c].end = "none"
      /\ form'[c].view # "confirm"
  <2>1. CASE UNCHANGED uiVars
    BY <1>2, <1>3, <2>1 DEF uiVars
  <2>2. CASE ShowStatusPage(c, "talk")
    <3>1. form'[c] = [form[c] EXCEPT !.view = "talk"]
      BY <2>2 DEF ShowStatusPage, KitInv, UiTypeOK
    <3>2. [form[c] EXCEPT !.view = "talk"].view = "talk"
      BY WindowParts
    <3>3. [form[c] EXCEPT !.view = "talk"].end = "none"
      BY <1>2, WindowParts
    <3>4. form'[c] # NoForm
      BY <3>1, <3>2 DEF NoForm
    <3>5. form'[c].end = "none" /\ form'[c].view = "talk"
      BY <3>1, <3>2, <3>3, Zenon
    <3> QED
      BY <3>4, <3>5
  <2> QED
    BY <2>1, <2>2
<1>6. ~Asks(c)' /\ ~Hears(c)' /\ ~Accepted(c)'
  BY <1>3, <1>4, <1>5 DEF Asks, Hears, Accepted, NoAnswer
<1>7. Sole(c)'
  BY SoleKept
<1>8. Guest(c)'
  BY <1>1 DEF Guest
<1>9. OneAccept(c)'
  BY <1>1, <1>4, <1>5, <1>6 DEF OneAccept
<1>10. Undecided(c)'
  BY <1>1, <1>2 DEF Undecided
<1>11. Entering(c)'
  BY <1>1, <1>2, <1>5 DEF Entering
<1>12. Entered(c)'
  BY <1>5 DEF Entered
<1>13. NotHere(c)'
  BY <1>1, <1>2 DEF NotHere
<1> QED
  BY <1>1, <1>7, <1>8, <1>9, <1>10, <1>11, <1>12, <1>13 DEF Visit

\* It succeeded.
LEMMA SucceedsVisit ==
  ASSUME NEW c \in Clients, VisitTurn(c, c), AcceptSucceeds(c),
         UNCHANGED uiVars \/ ShowStatusPage(c, "talk")
  PROVE  Visit(c)'
<1> /\ Inv /\ Hosted(c)
  BY VisitFacts
<1>1. /\ Gets(c, "acceptCb") /\ Got(c).ok /\ inbox' = Rest(c)
      /\ UNCHANGED <<timer, rtc, left, events>>
  BY DEF AcceptSucceeds, Silent, rtcVars
<1>2. NoAnswer(inbox', c) /\ ~Asks(c) /\ ~InRoom(c) /\ Enters(c)
  BY <1>1, AnswerTaken DEF Enters, NoAnswer
<1>3. Services(c, c)
  BY HandlerServes DEF AcceptStep
<1>4. ~InRoom(c)'
  BY <1>1, <1>2 DEF InRoom
<1> QED
  BY <1>1, <1>2, <1>3, <1>4, EntersKept

\* The token is there: the engine enters.
LEMMA JoinsVisit ==
  ASSUME NEW c \in Clients, VisitTurn(c, c), AcceptJoins(c), ShowStatusPage(c, "talk")
  PROVE  Visit(c)'
<1> /\ Inv /\ Hosted(c) /\ OneAccept(c) /\ OwnTypeOK
  BY VisitFacts
<1>1. /\ waiting[c][1] = "acceptCb" /\ UNCHANGED <<svcVars, timer, left, events>>
      /\ waiting' = [waiting EXCEPT ![c] = Free]
  BY DEF AcceptJoins, joinChannel, callVars
<1>2. ~Hears(c) /\ Enters(c)
  BY <1>1 DEF OneAccept, Enters
<1>3. NoAnswer(inbox', c) /\ ~Asks(c)
  BY <1>1, <1>2 DEF Hears, svcVars, NoAnswer
<1>4. waiting'[c][1] # "acceptCb"
  BY <1>1 DEF OwnTypeOK, Free
<1>5. Services(c, c)
  BY HandlerServes DEF AcceptStep
<1> QED
  BY <1>1, <1>2, <1>3, <1>4, <1>5, EntersKept

-----------------------------------------------------------------------------
(* The turn of who is called: it answers.                                  *)

\* What a message more makes of what is on its way.
LEMMA OneMore ==
  ASSUME NEW c \in Clients, inbox[c] \in Seq(Message), NEW m \in Message,
         inbox'[c] = Append(inbox[c], m)
  PROVE  /\ \A kinds : Lacks(inbox[c], kinds) /\ m.kind \notin kinds => Lacks(inbox'[c], kinds)
         /\ m.kind # "acceptCb" =>
              /\ NoAnswer(inbox, c) => NoAnswer(inbox', c)
              /\ OneAnswer(inbox[c]) => OneAnswer(inbox'[c])
              /\ Accepted(c)' => Accepted(c)
         /\ m.kind = "acceptCb" /\ NoAnswer(inbox, c) =>
              /\ OneAnswer(inbox'[c])
              /\ Accepted(c)' => m.ok
<1> DEFINE s == inbox[c]
           t == inbox'[c]
<1>1. s \in Seq(Message) /\ t = Append(s, m)
  OBVIOUS
<1> HIDE DEF s, t
<1>2. /\ DOMAIN s = 1..Len(s) /\ Len(s) \in Nat /\ DOMAIN t = 1..(Len(s) + 1)
      /\ \A i \in 1..Len(s) : t[i] = s[i]
      /\ t[Len(s) + 1] = m
  BY <1>1, Places
<1>3. \A kinds : Lacks(s, kinds) /\ m.kind \notin kinds => Lacks(t, kinds)
  BY <1>2 DEF Lacks
<1>4. \A i \in DOMAIN t : (i \in DOMAIN s /\ t[i] = s[i]) \/ (i = Len(s) + 1 /\ t[i] = m)
  BY <1>2
<1>5. ASSUME m.kind # "acceptCb"
      PROVE  /\ NoAnswer(inbox, c) => NoAnswer(inbox', c)
             /\ OneAnswer(s) => OneAnswer(t)
             /\ Accepted(c)' => Accepted(c)
  <2>1. \A i \in DOMAIN t : t[i].kind = "acceptCb" => i \in DOMAIN s /\ t[i] = s[i]
    BY <1>4, <1>5
  <2>2. OneAnswer(s) => OneAnswer(t)
    BY <2>1 DEF OneAnswer
  <2>3. NoAnswer(inbox, c) => NoAnswer(inbox', c)
    BY <2>1 DEF NoAnswer, s, t
  <2>4. Accepted(c)' => Accepted(c)
    BY <2>1 DEF Accepted, s, t
  <2> QED
    BY <2>2, <2>3, <2>4
<1>6. ASSUME NoAnswer(inbox, c)
      PROVE  OneAnswer(t) /\ (Accepted(c)' => m.ok)
  <2>1. \A i \in DOMAIN s : s[i].kind # "acceptCb"
    BY <1>6 DEF NoAnswer, s
  <2>2. \A i \in DOMAIN t : t[i].kind = "acceptCb" => i = Len(s) + 1 /\ t[i] = m
    BY <1>4, <2>1
  <2>3. OneAnswer(t)
    BY <2>2 DEF OneAnswer
  <2>4. Accepted(c)' => m.ok
    BY <2>2 DEF Accepted, t
  <2> QED
    BY <2>3, <2>4
<1> QED
  BY <1>3, <1>5, <1>6 DEF s, t

\* The one invitation of c, while it is pending, is undecided.
LEMMA PendingUndecided ==
  ASSUME NEW c, NEW ch \in Chan, OneCall, Pending(ch), callee[ch] = c
  PROVE  ~Decided(c)
BY DEF OneCall, Decided

\* The news of its own accept are not for c.
LEMMA OwnAcceptNews ==
  ASSUME NEW c \in Clients, NEW r \in Inboxes, NEW ch \in Chan, creator[ch] # c,
         NEW q \in AcceptNews(r, c, ch)
  PROVE  q[c] = r[c]
<1> DEFINE a == News("Accept", ch)
           j == News("Join", ch)
           n == members[ch] \ {c}
<1>1. a \in Message /\ j \in Message
  BY MsgIsMessage DEF Notice
<1>2. q = Push(Push(r, {creator[ch]}, a), n, j) \/ q = Push(Push(r, n, j), {creator[ch]}, a)
  BY DEF AcceptNews
<1>3. c \notin {creator[ch]} /\ c \notin n
  OBVIOUS
<1> HIDE DEF a, j, n
<1>4. \A x \in Inboxes : /\ Push(x, {creator[ch]}, a) \in Inboxes
                         /\ Push(x, {creator[ch]}, a)[c] = x[c]
                         /\ Push(x, n, j) \in Inboxes /\ Push(x, n, j)[c] = x[c]
  BY <1>1, <1>3, PushAtEnd
<1> QED
  BY <1>2, <1>4

\* The accept is answered.
LEMMA AcceptAnswered ==
  ASSUME NEW c \in Clients, VisitTurn(c, c), NEW x \in ChanId, SignalingAccept(inbox, c, x)
  PROVE  \E m \in Message :
           /\ m.kind = "acceptCb" /\ inbox'[c] = Append(inbox[c], m)
           /\ m.ok => ~Decided(c) /\ Decided(c)'
           /\ ~m.ok => (Decided(c)' <=> Decided(c))
           /\ Member(c)'
<1> Hosted(c) /\ OneCall /\ Inv /\ inbox \in Inboxes
  BY VisitFacts, InboxFacts
<1> DEFINE yes == Msg("acceptCb", x, TRUE)
           no  == Msg("acceptCb", x, FALSE)
<1>1. /\ yes \in Message /\ yes.kind = "acceptCb" /\ yes.ok
      /\ no \in Message /\ no.kind = "acceptCb" /\ ~no.ok
  BY MsgIsMessage DEF Msg, Answer
<1>2. UNCHANGED <<callee, open>>
      /\ \/ /\ Pending(x) /\ callee[x] = c
            /\ invitation' = [invitation EXCEPT ![x] = "accepted"]
            /\ inbox' \in AcceptNews(Push(inbox, {c}, yes), c, x)
         \/ inbox' = Push(inbox, {c}, no) /\ UNCHANGED <<invitation, members>>
  BY DEF SignalingAccept, Verdicts
<1> HIDE DEF yes, no
<1>3. ASSUME Pending(x), callee[x] = c, invitation' = [invitation EXCEPT ![x] = "accepted"],
             inbox' \in AcceptNews(Push(inbox, {c}, yes), c, x)
      PROVE  /\ inbox'[c] = Append(inbox[c], yes) /\ ~Decided(c) /\ Decided(c)' /\ Member(c)'
  <2>1. x \in Chan
    BY <1>3 DEF Pending
  <2>2. creator[x] # c
    BY <2>1 DEF Hosted
  <2>3. Push(inbox, {c}, yes) \in Inboxes /\ Push(inbox, {c}, yes)[c] = Append(inbox[c], yes)
    BY <1>1, PushAtEnd
  <2>4. inbox'[c] = Append(inbox[c], yes)
    BY <1>3, <2>1, <2>2, <2>3, OwnAcceptNews
  <2>5. ~Decided(c)
    BY <1>3, <2>1, PendingUndecided
  <2>6. Decided(c)'
    BY <1>2, <1>3, <2>1 DEF Decided, Pending, Hosted, SvcTypeOK
  <2> QED
    BY <2>4, <2>5, <2>6 DEF Member
<1>4. ASSUME inbox' = Push(inbox, {c}, no), UNCHANGED <<invitation, members>>
      PROVE  /\ inbox'[c] = Append(inbox[c], no) /\ (Decided(c)' <=> Decided(c)) /\ Member(c)'
  <2>1. inbox'[c] = Append(inbox[c], no)
    BY <1>1, <1>4, PushAtEnd
  <2>2. Decided(c)' <=> Decided(c)
    BY <1>2, <1>4 DEF Decided, Pending
  <2>3. Member(c)'
    BY <1>4, <2>2, MemberKept
  <2> QED
    BY <2>1, <2>2, <2>3
<1> QED
  BY <1>1, <1>2, <1>3, <1>4

LEMMA AcceptVisit ==
  ASSUME NEW c \in Clients, VisitTurn(c, c), RunsAccept(c)
  PROVE  Visit(c)'
<1> /\ KitInv /\ OwnTypeOK /\ Windowless(c) /\ Guest(c) /\ OneAccept(c) /\ Undecided(c)
    /\ Entering(c) /\ requests[c] \in Seq(Op) /\ inbox[c] \in Seq(Message)
  BY VisitFacts
<1>1. /\ requests[c] # <<>> /\ Head(requests[c]).op = "accept"
      /\ requests'[c] = Tail(requests[c]) /\ form' = form
      /\ SignalingAccept(inbox, c, invited[c]) /\ invited[c] \in ChanId
      /\ UNCHANGED <<timer, waiting, rtc, left, events>>
  BY DEF RunsAccept, Runs, accept, callVars, tokenVars, rtcVars, KitInv, UiTypeOK, OwnTypeOK
<1>2. Wants(requests[c], "accept")
  BY <1>1, WantsNext
<1>3. /\ NoAnswer(inbox, c) /\ waiting[c][1] # "acceptCb" /\ ~InRoom(c) /\ form[c].view # "confirm"
  BY <1>2 DEF OneAccept, Asks, Hears
<1>4. form[c] # NoForm
  BY <1>1 DEF Windowless
<1>5. \A i \in DOMAIN requests'[c] : requests'[c][i].op # "accept"
  <2>1. ASSUME NEW i \in DOMAIN Tail(requests[c])
        PROVE  Tail(requests[c])[i].op # "accept"
    <3>1. /\ i \in 1..(Len(requests[c]) - 1) /\ Len(requests[c]) \in Nat
          /\ Tail(requests[c])[i] = requests[c][i + 1]
          /\ DOMAIN requests[c] = 1..Len(requests[c])
      BY <1>1, <2>1, Places
    <3>2. i + 1 \in DOMAIN requests[c] /\ i + 1 # 1
      BY <3>1
    <3> QED
      BY <3>1, <3>2 DEF OneAccept
  <2> QED
    BY <1>1, <2>1
<1>6. PICK m \in Message :
        /\ m.kind = "acceptCb" /\ inbox'[c] = Append(inbox[c], m)
        /\ m.ok => ~Decided(c) /\ Decided(c)'
        /\ ~m.ok => (Decided(c)' <=> Decided(c))
        /\ Member(c)'
  BY <1>1, AcceptAnswered
<1>7. /\ \A kinds : Lacks(inbox[c], kinds) /\ m.kind \notin kinds => Lacks(inbox'[c], kinds)
      /\ OneAnswer(inbox'[c])
      /\ Accepted(c)' => m.ok
  BY <1>3, <1>6, OneMore
<1>8. ~Asks(c)' /\ ~Wants(requests'[c], "accept") /\ ~InRoom(c)' /\ waiting'[c][1] # "acceptCb"
  BY <1>1, <1>3, <1>5 DEF Asks, Wants, InRoom
<1>9. Enters(c)' => m.ok
  BY <1>7, <1>8 DEF Enters
<1>10. ASSUME ~Decided(c)
       PROVE  /\ Lacks(inbox'[c], Losing) /\ Lacks(events[c], Final) /\ ~left[c]
              /\ form[c].end = "none"
  <2>1. Lacks(inbox[c], Losing) /\ Lacks(events[c], Final) /\ ~left[c] /\ form[c].end = "none"
    BY <1>2, <1>10 DEF Undecided
  <2>2. m.kind \notin Losing
    BY <1>6 DEF Losing, Byes, Syncs
  <2> QED
    BY <1>7, <2>1, <2>2
<1>11. Sole(c)'
  BY SoleKept
<1>12. Guest(c)'
  BY <1>1, <1>6, <1>7 DEF Guest
<1>13. OneAccept(c)'
  BY <1>1, <1>3, <1>5, <1>7, <1>8 DEF OneAccept
<1>14. Undecided(c)'
  BY <1>1, <1>6, <1>8, <1>9, <1>10 DEF Undecided
<1>15. Entering(c)'
  <2>1. Lacks(inbox'[c], Losing) => AnswerFirst(inbox'[c])
    BY DEF Lacks, AnswerFirst
  <2> QED
    BY <1>1, <1>4, <1>6, <1>9, <1>10, <2>1 DEF Entering
<1>16. Entered(c)'
  BY <1>8 DEF Entered
<1>17. NotHere(c)'
  <2>1. /\ Lacks(inbox'[c], Losing) => Lacks(inbox'[c], Syncs)
        /\ Lacks(events[c], Final) => Lacks(events[c], Away)
    BY DEF Lacks, Losing, Final, Away
  <2> QED
    BY <1>1, <1>6, <1>8, <1>9, <1>10, <2>1 DEF NotHere
<1> QED
  BY <1>6, <1>11, <1>12, <1>13, <1>14, <1>15, <1>16, <1>17 DEF Visit

\* Its other device answers.
LEMMA ElsewhereVisit ==
  ASSUME NEW c \in Clients, VisitTurn(c, c), OtherDevice(c), UNCHANGED uiVars
  PROVE  Visit(c)'
<1> /\ Guest(c) /\ OneAccept(c) /\ Undecided(c) /\ Hosted(c) /\ OneCall /\ Inv
    /\ inbox[c] \in Seq(Message) /\ inbox \in Inboxes
  BY VisitFacts, InboxFacts
<1>1. UNCHANGED <<form, requests, timer, waiting, rtc, left, events>>
  BY DEF OtherDevice, callVars, tokenVars, rtcVars, uiVars
<1>2. PICK ch \in Chan, accepts \in BOOLEAN : OtherDeviceAnswers(c, ch, accepts)
  BY DEF OtherDevice
<1>3. Pending(ch) /\ callee[ch] = c /\ callee' = callee
      /\ invitation' = [invitation EXCEPT ![ch] = IF accepts THEN "accepted" ELSE "rejected"]
  BY <1>2 DEF OtherDeviceAnswers
<1>4. ~Decided(c) /\ Decided(c)'
  <2>1. ~Decided(c)
    BY <1>3, PendingUndecided
  <2>2. Decided(c)'
    BY <1>3 DEF Decided, Pending, Hosted, SvcTypeOK
  <2> QED
    BY <2>1, <2>2
<1>5. \E m \in Message : m.kind \in Syncs /\ inbox'[c] = Append(inbox[c], m)
  <2> DEFINE m == News(IF accepts THEN "SyncAccept" ELSE "SyncReject", ch)
  <2>1. m \in Message /\ m.kind \in Syncs
    <3>1. (IF accepts THEN "SyncAccept" ELSE "SyncReject") \in Notice
      BY DEF Notice
    <3> QED
      BY <3>1, MsgIsMessage DEF News, Msg, Syncs
  <2>2. creator[ch] # c
    BY DEF Hosted
  <2>3. \/ inbox' \in AcceptNews(Push(inbox, {c}, m), c, ch)
        \/ inbox' = Push(Push(inbox, {c}, m), {creator[ch]}, News("Reject", ch))
    BY <1>2 DEF OtherDeviceAnswers
  <2> HIDE DEF m
  <2>4. Push(inbox, {c}, m) \in Inboxes /\ Push(inbox, {c}, m)[c] = Append(inbox[c], m)
    BY <2>1, PushAtEnd
  <2>5. News("Reject", ch) \in Message
    BY MsgIsMessage DEF Notice
  <2>6. CASE inbox' \in AcceptNews(Push(inbox, {c}, m), c, ch)
    <3>1. inbox'[c] = Push(inbox, {c}, m)[c]
      BY <2>2, <2>4, <2>6, OwnAcceptNews
    <3> QED
      BY <2>1, <2>4, <3>1
  <2>7. CASE inbox' = Push(Push(inbox, {c}, m), {creator[ch]}, News("Reject", ch))
    <3>1. c \notin {creator[ch]}
      BY <2>2
    <3>2. inbox'[c] = Push(inbox, {c}, m)[c]
      BY <2>4, <2>5, <2>7, <3>1, PushAtEnd
    <3> QED
      BY <2>1, <2>4, <3>2
  <2> QED
    BY <2>3, <2>6, <2>7
<1>6. PICK m \in Message : m.kind \in Syncs /\ inbox'[c] = Append(inbox[c], m)
  BY <1>5
<1>7. m.kind # "acceptCb" /\ m.kind # "Busy"
  BY <1>6 DEF Syncs
<1>8. /\ Lacks(inbox[c], {"Busy"}) => Lacks(inbox'[c], {"Busy"})
      /\ NoAnswer(inbox, c) => NoAnswer(inbox', c)
      /\ OneAnswer(inbox[c]) => OneAnswer(inbox'[c])
      /\ Accepted(c)' => Accepted(c)
  BY <1>6, <1>7, OneMore
<1>9. ~Enters(c)' /\ ~InRoom(c)'
  BY <1>1, <1>4, <1>8 DEF Undecided, Enters, InRoom
<1>10. Sole(c)'
  BY SoleKept
<1>11. Guest(c)'
  BY <1>1, <1>8 DEF Guest
<1>12. OneAccept(c)'
  <2>1. (Asks(c)' => Asks(c)) /\ (Hears(c)' => Hears(c))
    BY <1>1, <1>8 DEF Asks, Hears
  <2> QED
    BY <1>1, <1>8, <1>9, <2>1 DEF OneAccept
<1>13. Undecided(c)' /\ Entering(c)' /\ Entered(c)' /\ NotHere(c)' /\ Member(c)'
  BY <1>4, <1>9 DEF Undecided, Entering, Entered, NotHere, Member
<1> QED
  BY <1>10, <1>11, <1>12, <1>13 DEF Visit

\* Its whole turn.
LEMMA OwnVisit ==
  ASSUME NEW c \in Clients, VisitTurn(c, c)
  PROVE  Visit(c)'
<1> /\ KitInv /\ Inv /\ Hosted(c) /\ StepOf(c)
  BY VisitFacts
<1>1. Sole(c)'
  BY SoleKept
<1>2. CASE User(c)
  BY <1>2, UserVisit
<1>3. CASE HandlesEvent(c)
  BY <1>3, EventVisit
<1>4. CASE Elsewhere(c)
  BY <1>4, ElsewhereVisit DEF Elsewhere
<1>5. CASE AcceptInvite(c)
  BY <1>5, FailsVisit, SucceedsVisit, JoinsVisit DEF AcceptInvite
<1>6. CASE SdkStep(c) /\ UNCHANGED uiVars
  BY <1>1, <1>6, HandlerPasses, HandlerServes, PassesKept
<1>7. CASE Timer(c) \/ Http(c) \/ Engine(c)
  <2>1. OwnStep(c) /\ UNCHANGED uiVars
    BY <1>7, KitSteps
  <2>2. UNCHANGED svcVars
    BY <2>1 DEF OwnStep, CallingTimeout, GetToken, onUserLeft
  <2>3. Services(c, c)
    BY <2>2, StillServes
  <2> QED
    BY <1>1, <2>1, <2>3, OwnPasses, PassesKept
<1>8. CASE RunsAccept(c)
  BY <1>8, AcceptVisit
<1>9. CASE RunsReject(c) \/ RunsHangup(c)
  <2>1. Services(c, c)
    BY <1>9, RefusalServes DEF RunsReject, RunsHangup
  <2> QED
    BY <1>1, <1>9, <2>1, RequestPasses, PassesKept
<1> QED
  BY <1>2, <1>3, <1>4, <1>5, <1>6, <1>7, <1>8, <1>9, NotTold DEF StepOf, Worker, Sdk

-----------------------------------------------------------------------------
(* Who was called leaves.                                                  *)

\* At first nobody was called ...
LEMMA VisitInitially ==
  ASSUME KitInit
  PROVE  VisitInv
<1> SUFFICES ASSUME NEW c \in Clients
             PROVE  Visit(c)
  BY DEF VisitInv
<1>1. /\ inbox[c] = <<>> /\ events[c] = <<>> /\ requests[c] = <<>>
      /\ form[c] = NoForm /\ ghost[c] = NoForm /\ waiting[c] = Free /\ rtc[c] = NoRoom
      /\ ~timer[c] /\ ~left[c]
      /\ \A ch \in Chan : members[ch] = {}
  BY DEF KitInit, Init, SvcInit
<1>2. NoForm.view # "confirm" /\ waiting[c][1] # "acceptCb"
  BY <1>1 DEF NoForm, Free
<1>3. \A kinds : Lacks(inbox[c], kinds) /\ Lacks(events[c], kinds)
  BY <1>1 DEF Lacks
<1>4. ~Enters(c) /\ ~InRoom(c) /\ ~Asks(c) /\ ~Hears(c) /\ \A op : ~Wants(requests[c], op)
  <2>1. \A op : ~Wants(requests[c], op)
    BY <1>1, NothingIn
  <2>2. NoAnswer(inbox, c) /\ ~Accepted(c)
    BY <1>1 DEF NoAnswer, Accepted
  <2> QED
    BY <1>1, <1>2, <2>1, <2>2 DEF Enters, InRoom, Asks, Hears
<1>5. OneAnswer(inbox[c])
  BY <1>1 DEF OneAnswer
<1>6. \A i \in DOMAIN requests[c] : i = 1
  BY <1>1
<1>7. Sole(c)
  BY <1>1 DEF Sole
<1>8. OneAccept(c)
  BY <1>4, <1>5, <1>6 DEF OneAccept
<1>9. Guest(c) /\ Undecided(c) /\ Entering(c) /\ Entered(c) /\ NotHere(c) /\ Member(c)
  BY <1>1, <1>3, <1>4 DEF Guest, Undecided, Entering, Entered, NotHere, Member
<1> QED
  BY <1>7, <1>8, <1>9 DEF Visit

\* ... and no step leaves anybody behind.
LEMMA VisitStep ==
  ASSUME KitInv, Inv', BillInv, FlowInv, VisitInv, Directed, OneCall, IsFiniteSet(Clients),
         ~Hasty, Old = {}, [KitNext]_vars
  PROVE  VisitInv'
<1> SUFFICES ASSUME NEW c \in Clients, c \in Dialled
             PROVE  Visit(c)'
  BY DEF VisitInv, Dialled
<1>1. Visit(c)
  BY DEF VisitInv
<1>2. CASE UNCHANGED vars
  <2> USE <1>2 DEF vars, avVars, uiVars, svcVars, callVars, tokenVars, rtcVars
  <2>1. /\ Decided(c)' <=> Decided(c)
        /\ Enters(c)' <=> Enters(c)
        /\ InRoom(c)' <=> InRoom(c)
        /\ Asks(c)' <=> Asks(c)
        /\ NoAnswer(inbox', c) <=> NoAnswer(inbox, c)
    BY DEF Decided, Pending, Enters, Accepted, InRoom, Asks
  <2>2. Hears(c)' <=> Hears(c)
    BY <2>1 DEF Hears
  <2>3. Sole(c)' /\ Guest(c)' /\ Member(c)'
    BY <1>1, <2>1 DEF Visit, Sole, Guest, Member
  <2>4. OneAccept(c)'
    BY <1>1, <2>1, <2>2 DEF Visit, OneAccept
  <2>5. Undecided(c)' /\ Entering(c)' /\ Entered(c)' /\ NotHere(c)'
    BY <1>1, <2>1 DEF Visit, Undecided, Entering, Entered, NotHere
  <2> QED
    BY <2>3, <2>4, <2>5 DEF Visit
<1>3. CASE KitNext
  <2>1. PICK d \in Clients : StepOf(d)
    BY <1>3 DEF KitNext, StepOf
  <2>2. VisitTurn(c, d)
    BY <1>1, <2>1 DEF VisitTurn, Turn
  <2> QED
    BY <2>2, OwnVisit, OthersVisit
<1> QED
  BY <1>2, <1>3

\* Once everything has come to rest, nobody who was called is left in a room behind
\* an ended window, whatever the service fails and whichever device answers,
\* provided that both sides run the new flow, that users wait for what they asked,
\* and that nobody who is called calls (signalingAcceptCb, AvChatComponent::hangup
\* and the end page of VideoFormG2).
THEOREM OneCallCalleeEngineLeaves ==
  ASSUME MaxCalls <= 1, ~Hasty, ~JoinFirst, Old = {}, Directed, IsFiniteSet(Clients)
  PROVE  KitSpec => []CalleeEngineLeaves
<1>1. OneCall
  BY SignalingAssumption DEF Chan, OneCall
<1>2. KitInit => BillInv /\ FlowInv /\ VisitInv
  <2>1. KitInit => Init
    BY DEF KitInit
  <2> QED
    BY <2>1, BillInitially, InitFlow, VisitInitially
<1>3. /\ KitInv /\ KitInv' /\ BillInv /\ FlowInv /\ VisitInv /\ [KitNext]_vars
      => BillInv' /\ FlowInv' /\ VisitInv'
  <2> SUFFICES ASSUME KitInv, KitInv', BillInv, FlowInv, VisitInv, [KitNext]_vars
               PROVE  BillInv' /\ FlowInv' /\ VisitInv'
    OBVIOUS
  <2>1. Inv /\ Inv'
    BY DEF KitInv
  <2>2. BillInv'
    BY <1>1, <2>1, BillStep
  <2>3. FlowInv'
    <3>1. [Next]_avVars
      BY KitStepIsStep
    <3> QED
      BY <1>1, <2>1, <3>1, NextFlow
  <2>4. VisitInv'
    BY <1>1, <2>1, VisitStep
  <2> QED
    BY <2>2, <2>3, <2>4
<1>4. KitInv /\ BillInv /\ VisitInv => CalleeEngineLeaves
  <2> SUFFICES ASSUME KitInv, BillInv, VisitInv, Quiet, NEW c \in Clients, rtc[c] # NoRoom,
                      ~Live(form[c]), c # creator[rtc[c][1]]
               PROVE  FALSE
    BY DEF CalleeEngineLeaves
  <2> DEFINE ch == rtc[c][1]
  <2>1. ch \in Chan /\ callee[ch] = c
    BY InvMeans DEF KitInv, EngineOnlyInOwnCall, Party
  <2>2. c \in Dialled
    <3>1. c # NoClient
      BY SignalingAssumption
    <3> QED
      BY <2>1, <3>1 DEF BillInv, Sides
  <2>3. Entered(c) /\ requests[c] = <<>> /\ form[c] \in Form
    BY <2>2 DEF VisitInv, Visit, Quiet, KitInv, UiTypeOK
  <2>4. form[c] # NoForm /\ form[c].end = "none"
    BY <2>3, NothingIn DEF Entered, InRoom
  <2>5. form[c].view # "none"
    BY <2>3, <2>4 DEF Form
  <2> QED
    BY <2>4, <2>5 DEF Live
<1> QED
  BY <1>2, <1>3, <1>4, KitInvariance, PTL DEF KitSpec

==============================================================================
