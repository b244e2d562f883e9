----------------------------- MODULE LoginProofs -----------------------------
(***************************************************************************)
(* Logging out is final: once the windows are taken away, no answer that   *)
(* is still on its way, in whatever status it finds the program, brings    *)
(* one of them back.  The login form offers to cancel only what can be     *)
(* cancelled, and a login that was cancelled is logged out: as long as     *)
(* DoLogin's own assert holds, one thing is under way for the form at a    *)
(* time.  For any bounds.                                                  *)
(***************************************************************************)
EXTENDS Login, TLAPS

\* What logging out leaves of the windows.
Bare == main = FALSE /\ link = "none" /\ form = FALSE

StopIsBare == stop => Bare

IInv == TypeOK /\ StopIsBare

-----------------------------------------------------------------------------
(* The UI thread's tasks.                                                  *)

LEMMA TailType ==
  ASSUME NEW S, NEW s \in Seq(S), s # <<>>
  PROVE  Tail(s) \in Seq(S) /\ Head(s) \in S
  OBVIOUS

LEMMA AppendType ==
  ASSUME NEW S, NEW s \in Seq(S), NEW x \in S
  PROVE  Append(s, x) \in Seq(S)
  OBVIOUS

LEMMA TaskTypes ==
  /\ \A name \in {"OnLogout", "OnKickout", "OnDisconnect", "DoLogout", "Quit"} :
       Task(name) \in Tasks
  /\ \A res \in Results, relogin, retrying \in BOOLEAN :
       Answer("OnLogin", res, relogin, retrying) \in Tasks
BY DEF Task, Answer, Tasks, Answers

\* Only an answer to a login is taken for one.
LEMMA HeadIsAnswer ==
  ASSUME ui \in Seq(Tasks), Runs("OnLogin") \/ Runs("UILogin")
  PROVE  /\ Tail(ui) \in Seq(Tasks) /\ Head(ui) \in Answers
         /\ Head(ui).res \in Results
         /\ [Head(ui) EXCEPT !.do = "UILogin"] \in Tasks
<1>1. Tail(ui) \in Seq(Tasks) /\ Head(ui) \in Tasks
  BY TailType DEF Runs
<1>2. Head(ui) \in Answers
  BY <1>1 DEF Runs, Tasks, Answers
<1> QED
  BY <1>1, <1>2 DEF Answers, Tasks

LEMMA RunsType ==
  ASSUME ui \in Seq(Tasks), NEW name, Runs(name)
  PROVE  Tail(ui) \in Seq(Tasks)
BY TailType DEF Runs

-----------------------------------------------------------------------------
(* The helpers keep types, and leave the bare screen bare.                 *)

LEMMA QuitType ==
  ASSUME NEW q \in Seq(Tasks), delayed \in Nat, QuitWithoutBrowsers(q)
  PROVE  ui' \in Seq(Tasks) /\ delayed' \in Nat
BY AppendType, TaskTypes DEF QuitWithoutBrowsers

\* The form's controls hold what TypeOK says, the form does not come back once
\* it is gone, and nothing new is downloaded for it.
ScreenMoved ==
  /\ {form', canCancel', registering'} \subseteq BOOLEAN
  /\ buttons' \subseteq {"login", "cancel"} /\ page' \in {"login", "register"}
  /\ settings' \in Nat /\ settings' <= settings
  /\ form' => form

LEMMA ScreenTypes ==
  ASSUME TypeOK, UNCHANGED screen \/ OnCancelLogin \/ FormGone
  PROVE  ScreenMoved
<1> /\ form \in BOOLEAN /\ canCancel \in BOOLEAN /\ registering \in BOOLEAN
    /\ buttons \subseteq {"login", "cancel"} /\ page \in {"login", "register"} /\ settings \in Nat
  BY DEF TypeOK
<1>1. ASSUME UNCHANGED screen PROVE ScreenMoved
  BY <1>1 DEF screen, ScreenMoved
<1>2. CASE OnCancelLogin
  <2>1. CASE form
    BY <1>2, <2>1 DEF OnCancelLogin, ScreenMoved
  <2>2. CASE ~form
    BY <1>1, <1>2, <2>2 DEF OnCancelLogin
  <2> QED
    BY <2>1, <2>2
<1>3. CASE FormGone
  <2>1. /\ form' \in BOOLEAN /\ canCancel' \in BOOLEAN /\ registering' \in BOOLEAN /\ ~form'
        /\ buttons' \subseteq {"login", "cancel"} /\ page' \in {"login", "register"}
        /\ settings' = 0
    BY <1>3 DEF FormGone
  <2> QED
    BY <2>1 DEF ScreenMoved
<1> QED
  BY <1>1, <1>2, <1>3

LEMMA LogoutCallbackType ==
  ASSUME TypeOK, NEW q \in Seq(Tasks), UILogoutCallback(status, q)
  PROVE  status' \in Statuses /\ ui' \in Seq(Tasks) /\ delayed' \in Nat /\ ScreenMoved
<1> status \in Statuses /\ delayed \in Nat
  BY DEF TypeOK
<1>1. CASE status = "CANCEL"
  BY <1>1, ScreenTypes DEF UILogoutCallback, Statuses
<1>2. CASE status # "CANCEL"
  BY <1>2, QuitType, ScreenTypes DEF UILogoutCallback
<1> QED
  BY <1>1, <1>2

LoggedOut ==
  /\ status' \in Statuses /\ ui' \in Seq(Tasks) /\ delayed' \in Nat /\ logouts' \in Nat
  /\ ScreenMoved /\ main' \in BOOLEAN
  /\ link' \in {"none", "ing", "tip", "success"} /\ stop' \in BOOLEAN
  /\ stop' => Bare'
  /\ stop => stop'

LEMMA LogoutType ==
  ASSUME TypeOK, StopIsBare, NEW st \in Statuses, NEW kicked \in BOOLEAN, NEW q \in Seq(Tasks),
         DoLogout(st, kicked, q)
  PROVE  LoggedOut
<1> /\ delayed \in Nat /\ logouts \in Nat
    /\ main \in BOOLEAN /\ link \in {"none", "ing", "tip", "success"} /\ stop \in BOOLEAN
  BY DEF TypeOK
<1>1. CASE st = "EXIT"
  <2>1. UNCHANGED screen
    BY <1>1 DEF DoLogout
  <2> QED
    BY <1>1, <2>1, ScreenTypes DEF DoLogout, screen, StopIsBare, Bare, LoggedOut
<1>2. CASE st # "EXIT"
  <2>1. /\ status' = "EXIT" /\ stop' = TRUE /\ FormGone /\ main' = FALSE /\ link' = "none"
        /\ IF st = "NONE" \/ kicked
             THEN QuitWithoutBrowsers(q) /\ UNCHANGED logouts
             ELSE NimLogout /\ ui' = q /\ UNCHANGED delayed
    BY <1>2 DEF DoLogout
  <2>2. ui' \in Seq(Tasks) /\ delayed' \in Nat /\ logouts' \in Nat
    BY <2>1, QuitType DEF NimLogout
  <2>3. ScreenMoved /\ form' = FALSE
    BY <2>1, ScreenTypes DEF FormGone
  <2> QED
    BY <2>1, <2>2, <2>3 DEF Statuses, Bare, LoggedOut
<1> QED
  BY <1>1, <1>2

-----------------------------------------------------------------------------
(* Every step keeps the types, and leaves the windows of a program that is *)
(* stopping as they are: gone.                                             *)

Kept == TypeOK' /\ StopIsBare' /\ (stop => stop')

\* What the form's own steps, and those that only look at it, leave of the bounds.
Bounded == used \in [logins : 0 .. MaxLogins, drops : 0 .. MaxDrops, tries : 0 .. MaxTries]

LEMMA Started ==
  ASSUME TypeOK, StartLogin, used.logins < MaxLogins
  PROVE  /\ buttons' \subseteq {"login", "cancel"} /\ status' \in Statuses /\ logins' \in Nat
         /\ beside' \in BOOLEAN /\ Bounded' /\ used'.logins = used.logins + 1
<1> Bounded /\ buttons \subseteq {"login", "cancel"} /\ logins \in Nat /\ beside \in BOOLEAN
  BY DEF TypeOK, Bounded
<1>1. Bounded' /\ used'.logins = used.logins + 1
  BY LoginBounds DEF StartLogin, Bounded
<1> QED
  BY <1>1 DEF StartLogin, Statuses

LEMMA ScreenSteps ==
  ASSUME IInv,
         \/ OnLogin \/ SettingsCome \/ ClickCancel
         \/ TypeName \/ ClickRegister \/ ClickEnterLogin \/ DoRegisterAccount \/ Registered
  PROVE  Kept
<1> TypeOK /\ StopIsBare
  BY DEF IInv
<1> /\ settings \in Nat /\ used.logins \in Nat /\ MaxLogins \in Nat
    /\ used.logins + settings <= MaxLogins /\ buttons \subseteq {"login", "cancel"}
  BY LoginBounds DEF TypeOK
<1>1. CASE OnLogin
  <2> form' = form /\ canCancel' = canCancel /\ page' = page /\ registering' = registering
    BY <1>1 DEF OnLogin
  <2>1. CASE StartLogin /\ UNCHANGED settings
    <3>1. used.logins < MaxLogins /\ used.logins + 1 + settings <= MaxLogins
      BY <1>1 DEF OnLogin
    <3> QED
      BY <1>1, <2>1, <3>1, Started DEF OnLogin, TypeOK, StopIsBare, Bare, Kept, leaving, Bounded
  <2>2. CASE settings' = settings + 1 /\ UNCHANGED <<status, buttons, logins, beside, used>>
    <3>1. used'.logins + settings' <= MaxLogins /\ settings' \in Nat
      BY <1>1, <2>2 DEF OnLogin
    <3> QED
      BY <1>1, <2>2, <3>1 DEF OnLogin, TypeOK, StopIsBare, Bare, Kept, leaving
  <2> QED
    BY <1>1, <2>1, <2>2 DEF OnLogin
<1>2. CASE SettingsCome
  <2> /\ form' = form /\ canCancel' = canCancel /\ page' = page /\ registering' = registering
      /\ settings' = settings - 1 /\ settings' \in Nat
    BY <1>2 DEF SettingsCome
  <2>1. CASE StartLogin
    <3>1. used.logins < MaxLogins /\ used.logins + 1 + settings' <= MaxLogins
      BY <1>2 DEF SettingsCome
    <3> QED
      BY <1>2, <2>1, <3>1, Started
      DEF SettingsCome, TypeOK, StopIsBare, Bare, Kept, leaving, Bounded
  <2>2. CASE UNCHANGED <<status, buttons, logins, beside, used>>
    <3>1. used'.logins + settings' <= MaxLogins
      BY <2>2
    <3> QED
      BY <1>2, <2>2, <3>1 DEF SettingsCome, TypeOK, StopIsBare, Bare, Kept, leaving
  <2> QED
    BY <1>2, <2>1, <2>2 DEF SettingsCome
<1>3. CASE ClickCancel
  BY <1>3 DEF ClickCancel, TypeOK, StopIsBare, Bare, Kept, Statuses, leaving, sdk
<1>4. ASSUME FormOnly, buttons' \subseteq {"login", "cancel"}, page' \in {"login", "register"},
             {canCancel', registering'} \subseteq BOOLEAN
      PROVE  Kept
  BY <1>4 DEF FormOnly, TypeOK, StopIsBare, Bare, Kept, program, leaving, sdk
<1> {canCancel, registering} \subseteq BOOLEAN /\ page \in {"login", "register"}
  BY DEF TypeOK
<1>5. CASE TypeName
  BY <1>4, <1>5 DEF TypeName
<1>6. CASE ClickRegister
  BY <1>4, <1>6 DEF ClickRegister, NameSet
<1>7. CASE ClickEnterLogin
  BY <1>4, <1>7 DEF ClickEnterLogin, NameSet
<1>8. CASE DoRegisterAccount
  BY <1>4, <1>8 DEF DoRegisterAccount
<1>9. CASE Registered
  BY <1>4, <1>9 DEF Registered
<1> QED
  BY <1>1, <1>2, <1>3, <1>5, <1>6, <1>7, <1>8, <1>9

LEMMA UserSteps ==
  ASSUME IInv,
         \/ CloseLoginForm \/ MenuLogout \/ ClickRelink
         \/ ClickOffline \/ LinkFormCloses \/ BrowserOpens \/ BrowserCloses
  PROVE  Kept
<1> TypeOK /\ StopIsBare
  BY DEF IInv
<1>3. CASE CloseLoginForm
  <2>1. status \in Statuses /\ ui \in Seq(Tasks)
    BY DEF TypeOK
  <2>2. DoLogout(status, FALSE, ui)
    BY <1>3 DEF CloseLoginForm
  <2>3. LoggedOut
    BY <2>1, <2>2, LogoutType
  <2>4. used' = used /\ used'.logins + settings' <= MaxLogins
    BY <1>3, <2>3, LoginBounds DEF CloseLoginForm, TypeOK, LoggedOut, ScreenMoved
  <2> QED
    BY <1>3, <2>1, <2>3, <2>4
    DEF CloseLoginForm, TypeOK, StopIsBare, Kept, LoggedOut, ScreenMoved
<1>4. CASE MenuLogout
  <2>1. ui' \in Seq(Tasks)
    BY <1>4, AppendType, TaskTypes DEF MenuLogout, TypeOK
  <2> QED
    BY <1>4, <2>1 DEF MenuLogout, TypeOK, StopIsBare, Bare, Kept, program, windows, screen, sdk
<1>5. CASE ClickRelink
  BY <1>5 DEF ClickRelink, TypeOK, StopIsBare, Bare, Kept, Statuses, leaving, screen
<1>6. CASE ClickOffline
  BY <1>6
  DEF ClickOffline, ShowLinkForm, TypeOK, StopIsBare, Bare, Kept, program, leaving, screen, sdk
<1>7. CASE LinkFormCloses
  BY <1>7 DEF LinkFormCloses, TypeOK, StopIsBare, Bare, Kept, program, leaving, screen, sdk
<1>8. CASE BrowserOpens
  BY <1>8 DEF BrowserOpens, TypeOK, StopIsBare, Bare, Kept, program, windows, screen, leaving, sdk
<1>9. CASE BrowserCloses
  BY <1>9 DEF BrowserCloses, TypeOK, StopIsBare, Bare, Kept, program, windows, screen, leaving, sdk
<1> QED
  BY <1>3, <1>4, <1>5, <1>6, <1>7, <1>8, <1>9

LEMMA SdkSteps ==
  ASSUME IInv,
         \/ \E res \in Results : SdkLogin(res)
         \/ \E res \in Results, retrying \in BOOLEAN : SdkRelogin(res, retrying)
         \/ LinkDrops \/ Kicks \/ SdkLogout
  PROVE  Kept
<1> TypeOK /\ StopIsBare /\ ui \in Seq(Tasks) /\ logins \in Nat /\ logouts \in Nat
  BY DEF IInv, TypeOK
<1>1. ASSUME NEW task \in Tasks, SdkPosts(task),
             session' \in {"out", "in", "down", "lost"}, logins' \in Nat, logouts' \in Nat,
             Bounded', used'.logins = used.logins
      PROVE  Kept
  <2>1. ui' \in Seq(Tasks)
    BY <1>1, AppendType DEF SdkPosts
  <2> QED
    BY <1>1, <2>1
    DEF SdkPosts, TypeOK, StopIsBare, Bare, Kept, program, windows, screen, leaving, Bounded
<1> Bounded
  BY DEF TypeOK, Bounded
<1>2. ASSUME NEW res \in Results, SdkLogin(res)
      PROVE  Kept
  <2>1. session' \in {"out", "in", "down", "lost"} /\ logins' \in Nat
    BY <1>2 DEF SdkLogin, TypeOK
  <2> QED
    BY <1>1, <1>2, <2>1, TaskTypes DEF SdkLogin, Bounded
<1>3. ASSUME NEW res \in Results, NEW retrying \in BOOLEAN, SdkRelogin(res, retrying)
      PROVE  Kept
  <2>1. session' \in {"in", "out", "down", "lost"}
    BY <1>3 DEF SdkRelogin
  <2>2. Bounded' /\ used'.logins = used.logins
    BY <1>3, LoginBounds DEF SdkRelogin, Bounded
  <2> QED
    BY <1>1, <1>3, <2>1, <2>2, TaskTypes DEF SdkRelogin
<1>4. CASE LinkDrops
  <2>1. Bounded' /\ used'.logins = used.logins
    BY <1>4, LoginBounds DEF LinkDrops, Bounded
  <2> QED
    BY <1>1, <1>4, <2>1, TaskTypes DEF LinkDrops
<1>5. CASE Kicks
  BY <1>1, <1>5, TaskTypes DEF Kicks, Bounded
<1>6. CASE SdkLogout
  <2>1. logins' \in Nat /\ logouts' \in Nat
    BY <1>6 DEF SdkLogout
  <2> QED
    BY <1>1, <1>6, <2>1, TaskTypes DEF SdkLogout, Bounded
<1> QED
  BY <1>2, <1>3, <1>4, <1>5, <1>6

LEMMA AnswerSteps ==
  ASSUME IInv,
         \/ OnLoginCallback \/ Reconnected \/ NotReconnected \/ ReloginDenied
         \/ LoginCancelled \/ LoginDone
  PROVE  Kept
<1> /\ TypeOK /\ StopIsBare /\ ui \in Seq(Tasks) /\ status \in Statuses
    /\ settings \in Nat /\ used.logins \in Nat /\ MaxLogins \in Nat
    /\ used.logins + settings <= MaxLogins
  BY LoginBounds DEF IInv, TypeOK
<1>1. CASE OnLoginCallback
  <2>1. ui' \in Seq(Tasks)
    BY <1>1, HeadIsAnswer, AppendType DEF OnLoginCallback
  <2> QED
    BY <1>1, <2>1
    DEF OnLoginCallback, TypeOK, StopIsBare, Bare, Kept, program, windows, screen, leaving, sdk
<1>2. ASSUME NEW relogin, NEW results, UILogin(relogin, results)
      PROVE  /\ Tail(ui) \in Seq(Tasks)
             /\ error' \in Results /\ over' = over /\ browser' = browser
             /\ session' = session /\ logins' = logins /\ beside' = beside /\ used' = used
  BY <1>2, HeadIsAnswer DEF UILogin
<1>3. CASE Reconnected
  BY <1>2, <1>3 DEF Reconnected, TypeOK, StopIsBare, Bare, Kept, Statuses, screen
<1>4. CASE NotReconnected
  <2>1. UILogin(TRUE, {"busy", "network"})
    BY <1>4 DEF NotReconnected
  <2> QED
    BY <1>2, <1>4, <2>1
    DEF NotReconnected, ShowLinkForm, TypeOK, StopIsBare, Bare, Kept, Statuses, screen
<1>5. CASE ReloginDenied
  <2>1. UILogin(TRUE, {"denied"})
    BY <1>5 DEF ReloginDenied
  <2>2. DoLogout("NONE", FALSE, Tail(ui)) /\ "NONE" \in Statuses /\ Tail(ui) \in Seq(Tasks)
    BY <1>2, <1>5, <2>1 DEF ReloginDenied, Statuses
  <2>3. LoggedOut
    BY <2>2, LogoutType
  <2>4. used'.logins + settings' <= MaxLogins
    <3>1. used' = used /\ settings' \in Nat /\ settings' <= settings
      BY <1>2, <2>1, <2>3 DEF LoggedOut, ScreenMoved
    <3> QED
      BY <3>1
  <2> QED
    BY <1>2, <1>5, <2>1, <2>3, <2>4
    DEF ReloginDenied, TypeOK, StopIsBare, Kept, LoggedOut, ScreenMoved
<1>6. CASE LoginCancelled
  <2>1. UILogin(FALSE, Results)
    BY <1>6 DEF LoginCancelled
  <2>2. Tail(ui) \in Seq(Tasks)
    BY <1>2, <2>1
  <2>3. /\ status' \in Statuses /\ ui' \in Seq(Tasks) /\ delayed' \in Nat /\ logouts' \in Nat
        /\ ScreenMoved
    <3>1. CASE Head(ui).res = "ok"
      <4>1. /\ logouts' = logouts + 1 /\ ui' = Tail(ui)
            /\ status' = status /\ delayed' = delayed /\ UNCHANGED screen
        BY <1>6, <3>1 DEF LoginCancelled, NimLogout
      <4> QED
        BY <2>2, <4>1, ScreenTypes DEF TypeOK
    <3>2. CASE Head(ui).res # "ok"
      BY <1>6, <2>2, <3>2, LogoutCallbackType DEF LoginCancelled, TypeOK
    <3> QED
      BY <3>1, <3>2
  <2>4. used'.logins + settings' <= MaxLogins
    <3>1. used' = used /\ settings' \in Nat /\ settings' <= settings
      BY <1>2, <2>1, <2>3 DEF ScreenMoved
    <3> QED
      BY <3>1
  <2> QED
    BY <1>2, <1>6, <2>1, <2>3, <2>4
    DEF LoginCancelled, TypeOK, StopIsBare, Bare, Kept, ScreenMoved
<1>7. CASE LoginDone
  <2>1. UILogin(FALSE, Results)
    BY <1>7 DEF LoginDone
  <2>2. ScreenMoved /\ status' \in Statuses
    BY <1>7, ScreenTypes DEF LoginDone, Statuses
  <2>3. used'.logins + settings' <= MaxLogins
    <3>1. used' = used /\ settings' \in Nat /\ settings' <= settings
      BY <1>2, <2>1, <2>2 DEF ScreenMoved
    <3> QED
      BY <3>1
  <2>4. main' \in BOOLEAN /\ (stop => main' = FALSE)
    BY <1>7 DEF LoginDone, TypeOK, StopIsBare, Bare
  <2> QED
    BY <1>2, <1>7, <2>1, <2>2, <2>3, <2>4
    DEF LoginDone, TypeOK, StopIsBare, Bare, Kept, ScreenMoved
<1> QED
  BY <1>1, <1>3, <1>4, <1>5, <1>6, <1>7

LEMMA OtherTasks ==
  ASSUME IInv,
         \/ MenuTask \/ OnKickoutCallback \/ OnLogoutCallback \/ OnDisconnectCallback
         \/ Quit \/ QuitAgain
  PROVE  Kept
<1> /\ TypeOK /\ StopIsBare /\ ui \in Seq(Tasks) /\ status \in Statuses /\ delayed \in Nat
    /\ settings \in Nat /\ used.logins \in Nat /\ MaxLogins \in Nat
    /\ used.logins + settings <= MaxLogins
  BY LoginBounds DEF IInv, TypeOK
<1>1. CASE MenuTask
  <2>1. DoLogout(status, FALSE, Tail(ui)) /\ Tail(ui) \in Seq(Tasks)
    BY <1>1, RunsType DEF MenuTask
  <2>2. LoggedOut
    BY <2>1, LogoutType
  <2>3. used' = used /\ used'.logins + settings' <= MaxLogins
    BY <1>1, <2>2 DEF MenuTask, LoggedOut, ScreenMoved
  <2> QED
    BY <1>1, <2>1, <2>2, <2>3 DEF MenuTask, TypeOK, StopIsBare, Kept, LoggedOut, ScreenMoved
<1>2. CASE OnKickoutCallback
  <2>1. DoLogout(status, TRUE, Tail(ui)) /\ Tail(ui) \in Seq(Tasks)
    BY <1>2, RunsType DEF OnKickoutCallback
  <2>2. LoggedOut
    BY <2>1, LogoutType
  <2>3. used' = used /\ used'.logins + settings' <= MaxLogins
    BY <1>2, <2>2 DEF OnKickoutCallback, LoggedOut, ScreenMoved
  <2> QED
    BY <1>2, <2>1, <2>2, <2>3
    DEF OnKickoutCallback, TypeOK, StopIsBare, Kept, LoggedOut, ScreenMoved
<1>3. CASE OnLogoutCallback
  <2>1. UILogoutCallback(status, Tail(ui)) /\ Tail(ui) \in Seq(Tasks)
    BY <1>3, RunsType DEF OnLogoutCallback
  <2>2. status' \in Statuses /\ ui' \in Seq(Tasks) /\ delayed' \in Nat /\ ScreenMoved
    BY <2>1, LogoutCallbackType
  <2>3. used' = used /\ used'.logins + settings' <= MaxLogins
    BY <1>3, <2>2 DEF OnLogoutCallback, ScreenMoved
  <2> QED
    BY <1>3, <2>2, <2>3 DEF OnLogoutCallback, TypeOK, StopIsBare, Bare, Kept, sdk, ScreenMoved
<1>4. CASE OnDisconnectCallback
  <2>1. Tail(ui) \in Seq(Tasks)
    BY <1>4, RunsType DEF OnDisconnectCallback
  <2> QED
    BY <1>4, <2>1 DEF OnDisconnectCallback, TypeOK, StopIsBare, Bare, Kept, leaving, sdk, screen
<1>5. CASE Quit
  <2>1. Tail(ui) \in Seq(Tasks)
    BY <1>5, RunsType DEF Quit
  <2> QED
    BY <1>5, <2>1 DEF Quit, TypeOK, StopIsBare, Bare, Kept, program, windows, screen, sdk
<1>6. CASE QuitAgain
  <2>1. ui' \in Seq(Tasks) /\ delayed' \in Nat
    <3>1. CASE browser
      BY <1>6, <3>1 DEF QuitAgain
    <3>2. CASE ~browser
      BY <1>6, <3>2, AppendType, TaskTypes DEF QuitAgain
    <3> QED
      BY <3>1, <3>2
  <2> QED
    BY <1>6, <2>1 DEF QuitAgain, TypeOK, StopIsBare, Bare, Kept, program, windows, screen, sdk
<1> QED
  BY <1>1, <1>2, <1>3, <1>4, <1>5, <1>6

LEMMA Initially == Init => IInv
<1>1. <<>> \in Seq(Tasks)
  OBVIOUS
<1>2. ASSUME Init
      PROVE  Bounded /\ used.logins + settings <= MaxLogins
  BY <1>2, LoginBounds DEF Init, Bounded
<1>3. ASSUME Init PROVE TypeOK
  <2>1. /\ status \in Statuses /\ active \in BOOLEAN /\ error \in Results
        /\ buttons \subseteq {"login", "cancel"} /\ page \in {"login", "register"}
        /\ link \in {"none", "ing", "tip", "success"}
        /\ session \in {"out", "in", "down", "lost"}
    BY <1>3 DEF Init, Statuses, Results
  <2>2. {form, canCancel, registering, main, stop, refused, restart, browser, over, beside}
          \subseteq BOOLEAN
    BY <1>3 DEF Init
  <2>3. ui \in Seq(Tasks) /\ {delayed, logins, logouts} \subseteq Nat /\ settings \in Nat
    BY <1>1, <1>3 DEF Init
  <2> QED
    BY <1>2, <1>3, <2>1, <2>2, <2>3 DEF TypeOK, Bounded
<1> QED
  BY <1>3 DEF Init, IInv, StopIsBare

LEMMA Step ==
  ASSUME IInv, [Next]_vars
  PROVE  Kept
<1>1. CASE UNCHANGED vars
  BY <1>1 DEF vars, program, windows, screen, leaving, sdk, Kept, IInv, TypeOK, StopIsBare, Bare
<1>2. CASE Next
  BY <1>2, ScreenSteps, UserSteps, SdkSteps, AnswerSteps, OtherTasks DEF Next, UiThread
<1> QED
  BY <1>1, <1>2

-----------------------------------------------------------------------------
(* The theorems.                                                           *)

\* The types, and that the windows stay away, are invariant under every step of
\* user, SDK and UI thread (login_callback.cpp).
THEOREM Invariance == Spec => []IInv
<1>1. IInv /\ [Next]_vars => IInv'
  BY Step DEF Kept, IInv
<1> QED
  BY <1>1, Initially, PTL DEF Spec

\* Status, windows, tasks and counters hold what login_callback.cpp puts there.
THEOREM TypeCorrect == Spec => []TypeOK
<1>1. IInv => TypeOK
  BY DEF IInv
<1> QED
  BY <1>1, Invariance, PTL

\* After DoLogout no late answer brings a window back or takes the stop flag of
\* the WindowsManager down (login_callback.cpp:217-253, windows_manager.cpp:114-127).
THEOREM LogoutIsFinal == Spec => StopIsFinal
<1>1. IInv /\ [Next]_vars =>
        [stop => stop' /\ main' = FALSE /\ link' = "none" /\ form' = FALSE]_vars
  BY Step DEF Kept, StopIsBare, Bare
<1> QED
  BY <1>1, Invariance, PTL DEF Spec, StopIsFinal

-----------------------------------------------------------------------------
(* The login form.  As long as the link holds and no login was started     *)
(* beside another, exactly one thing is under way for the form in status   *)
(* LOGIN or CANCEL: the SDK's answer to the login, that answer in the      *)
(* queue, a logout, or the answer to that; and nothing is in status NONE,  *)
(* with the session closed.                                                *)

FirstAnswers == {t \in Answers : ~t.relogin}
Failures     == {t \in FirstAnswers : t.res # "ok"}
LogoutTasks  == {Task("OnLogout")}
Reports      == {t \in Answers : t.relogin} \cup {Task("OnDisconnect")}

Zero(q, S) == \A i \in DOMAIN q : q[i] \notin S
One(q, S)  == \E i \in DOMAIN q : q[i] \in S /\ \A j \in DOMAIN q : q[j] \in S => j = i

Asked ==
  /\ session = "out" /\ logins = 1 /\ logouts = 0
  /\ Zero(ui, FirstAnswers) /\ Zero(ui, LogoutTasks)
Answered ==
  /\ logins = 0 /\ logouts = 0
  /\ One(ui, FirstAnswers) /\ Zero(ui, LogoutTasks)
  /\ session # "out" => Zero(ui, Failures)
Leaving ==
  /\ logins = 0 /\ logouts = 1
  /\ Zero(ui, FirstAnswers) /\ Zero(ui, LogoutTasks)
Left ==
  /\ session = "out" /\ logins = 0 /\ logouts = 0
  /\ Zero(ui, FirstAnswers) /\ One(ui, LogoutTasks)
Rest ==
  /\ session = "out" /\ logins = 0 /\ logouts = 0
  /\ Zero(ui, FirstAnswers) /\ Zero(ui, LogoutTasks)

FormFollows ==
  SteadyLink /\ ~beside /\ form =>
    /\ status = "NONE" => Rest
    /\ status = "LOGIN" => Asked \/ Answered
    /\ status = "CANCEL" => Asked \/ Answered \/ Leaving \/ Left

\* As long as the link holds nobody but the form's own steps moves the status.
Steady ==
  SteadyLink =>
    /\ session \in {"out", "in"} /\ Zero(ui, Reports)
    /\ link = "none" /\ active
    /\ form => status \in {"NONE", "LOGIN", "CANCEL"}
    /\ form /\ "cancel" \in buttons /\ canCancel => status = "LOGIN"

FormInv == IInv /\ FormFollows /\ Steady

LEMMA TailCounts ==
  ASSUME NEW T, NEW q \in Seq(T), q # <<>>, NEW S
  PROVE  /\ Zero(q, S) => Zero(Tail(q), S) /\ Head(q) \notin S
         /\ One(q, S) /\ Head(q) \notin S => One(Tail(q), S)
         /\ One(q, S) /\ Head(q) \in S => Zero(Tail(q), S)
<1>1. /\ \A i \in DOMAIN Tail(q) : i + 1 \in DOMAIN q /\ i + 1 # 1 /\ Tail(q)[i] = q[i + 1]
      /\ \A i \in DOMAIN q : i # 1 => i - 1 \in DOMAIN Tail(q) /\ Tail(q)[i - 1] = q[i]
      /\ 1 \in DOMAIN q /\ Head(q) = q[1] /\ DOMAIN q \subseteq Nat /\ DOMAIN Tail(q) \subseteq Nat
  OBVIOUS
<1>2. Zero(q, S) => Zero(Tail(q), S) /\ Head(q) \notin S
  BY <1>1 DEF Zero
<1>3. ASSUME One(q, S), Head(q) \notin S
      PROVE  One(Tail(q), S)
  <2>1. PICK i \in DOMAIN q : q[i] \in S /\ \A j \in DOMAIN q : q[j] \in S => j = i
    BY <1>3 DEF One
  <2>2. i # 1
    BY <1>1, <1>3, <2>1
  <2>3. i - 1 \in DOMAIN Tail(q) /\ Tail(q)[i - 1] \in S
    BY <1>1, <2>1, <2>2
  <2>4. ASSUME NEW j \in DOMAIN Tail(q), Tail(q)[j] \in S
        PROVE  j = i - 1
    BY <1>1, <2>1, <2>4
  <2> QED
    BY <2>3, <2>4 DEF One
<1>4. ASSUME One(q, S), Head(q) \in S
      PROVE  Zero(Tail(q), S)
  <2>1. PICK i \in DOMAIN q : q[i] \in S /\ \A j \in DOMAIN q : q[j] \in S => j = i
    BY <1>4 DEF One
  <2>2. i = 1
    BY <1>1, <1>4, <2>1
  <2> QED
    BY <1>1, <2>1, <2>2 DEF Zero
<1> QED
  BY <1>2, <1>3, <1>4

LEMMA AppendCounts ==
  ASSUME NEW T, NEW q \in Seq(T), NEW x \in T, NEW S
  PROVE  /\ Zero(q, S) /\ x \notin S => Zero(Append(q, x), S)
         /\ One(q, S) /\ x \notin S => One(Append(q, x), S)
         /\ Zero(q, S) /\ x \in S => One(Append(q, x), S)
<1> DEFINE r == Append(q, x)
<1>1. /\ \A i \in DOMAIN q : i \in DOMAIN r /\ r[i] = q[i]
      /\ \A i \in DOMAIN r : i \in DOMAIN q \/ i = Len(r)
      /\ Len(r) \in DOMAIN r /\ r[Len(r)] = x
  OBVIOUS
<1> HIDE DEF r
<1>2. Zero(q, S) /\ x \notin S => Zero(r, S)
  BY <1>1 DEF Zero
<1>3. ASSUME One(q, S), x \notin S
      PROVE  One(r, S)
  BY <1>1, <1>3 DEF One
<1>4. ASSUME Zero(q, S), x \in S
      PROVE  One(r, S)
  BY <1>1, <1>4 DEF Zero, One
<1> QED
  BY <1>2, <1>3, <1>4 DEF r

\* Which tasks count.
LEMMA Kinds ==
  /\ \A name \in {"OnLogout", "OnKickout", "OnDisconnect", "DoLogout", "Quit"} :
       /\ Task(name) \notin FirstAnswers /\ Task(name) \notin Failures
       /\ Task(name) \in LogoutTasks <=> name = "OnLogout"
       /\ Task(name) \in Reports <=> name = "OnDisconnect"
  /\ \A t \in Answers : /\ t \notin LogoutTasks
                        /\ t \in FirstAnswers <=> ~t.relogin
                        /\ t \in Failures <=> ~t.relogin /\ t.res # "ok"
                        /\ t \in Reports <=> t.relogin
<1>1. \A t \in Answers : t.do \in {"OnLogin", "UILogin"} /\ t.relogin \in BOOLEAN
  BY DEF Answers
<1>2. \A name : Task(name).do = name
  BY DEF Task
<1>3. \A name \in {"OnLogout", "OnKickout", "OnDisconnect", "DoLogout", "Quit"} :
        Task(name) \notin Answers
  BY <1>1, <1>2
<1>4. \A t \in Answers : t # Task("OnLogout") /\ t # Task("OnDisconnect")
  BY <1>3
<1>5. \A name, other : Task(name) = Task(other) => name = other
  BY <1>2
<1>6. ASSUME NEW name \in {"OnLogout", "OnKickout", "OnDisconnect", "DoLogout", "Quit"}
      PROVE  /\ Task(name) \notin FirstAnswers /\ Task(name) \notin Failures
             /\ Task(name) \in LogoutTasks <=> name = "OnLogout"
             /\ Task(name) \in Reports <=> name = "OnDisconnect"
  BY <1>3, <1>5, <1>6 DEF FirstAnswers, Failures, LogoutTasks, Reports
<1>7. ASSUME NEW t \in Answers
      PROVE  /\ t \notin LogoutTasks
             /\ t \in FirstAnswers <=> ~t.relogin
             /\ t \in Failures <=> ~t.relogin /\ t.res # "ok"
             /\ t \in Reports <=> t.relogin
  BY <1>1, <1>4 DEF FirstAnswers, Failures, LogoutTasks, Reports
<1> QED
  BY <1>6, <1>7

\* A step that leaves what the form waits for in the queue, and adds nothing to it.
Idly ==
  \A S \in {FirstAnswers, Failures, LogoutTasks} :
    (Zero(ui, S) => Zero(ui', S)) /\ (One(ui, S) => One(ui', S))

LEMMA Idle ==
  ASSUME FormFollows, Idly, logins' = logins, logouts' = logouts, form' => form,
         session' = session \/ session' = "out", used' = used, beside' = beside,
         status' = status
  PROVE  FormFollows'
<1>1. \A S \in {FirstAnswers, Failures, LogoutTasks} :
        (Zero(ui, S) => Zero(ui', S)) /\ (One(ui, S) => One(ui', S))
  BY DEF Idly
<1>2. Asked => Asked'
  BY <1>1 DEF Asked
<1>3. Answered => Answered'
  BY <1>1 DEF Answered
<1>4. Leaving => Leaving'
  BY <1>1 DEF Leaving
<1>5. Left => Left'
  BY <1>1 DEF Left
<1>6. Rest => Rest'
  BY <1>1 DEF Rest
<1> QED
  BY <1>2, <1>3, <1>4, <1>5, <1>6 DEF FormFollows, SteadyLink

\* What becomes of the queue when a task runs and when one is posted.
LEMMA TaskRuns ==
  ASSUME ui \in Seq(Tasks), ui # <<>>, ui' = Tail(ui)
  PROVE  /\ \A S : Zero(ui, S) => Zero(ui', S) /\ Head(ui) \notin S
         /\ \A S : One(ui, S) /\ Head(ui) \notin S => One(ui', S)
         /\ \A S : One(ui, S) /\ Head(ui) \in S => Zero(ui', S)
BY TailCounts

LEMMA TaskPosted ==
  ASSUME ui \in Seq(Tasks), NEW t \in Tasks, ui' = Append(ui, t)
  PROVE  /\ \A S : Zero(ui, S) /\ t \notin S => Zero(ui', S)
         /\ \A S : One(ui, S) /\ t \notin S => One(ui', S)
         /\ \A S : Zero(ui, S) /\ t \in S => One(ui', S)
BY AppendCounts

LEMMA TaskFollows ==
  ASSUME ui \in Seq(Tasks), ui # <<>>, NEW t \in Tasks, ui' = Append(Tail(ui), t)
  PROVE  /\ \A S : Zero(ui, S) /\ t \notin S => Zero(ui', S)
         /\ \A S : One(ui, S) /\ Head(ui) \notin S /\ t \notin S => One(ui', S)
         /\ \A S : One(ui, S) /\ Head(ui) \in S /\ t \in S => One(ui', S)
         /\ \A S : One(ui, S) /\ Head(ui) \in S /\ t \notin S => Zero(ui', S)
<1>1. Tail(ui) \in Seq(Tasks)
  BY TailType
<1>2. \A S : /\ Zero(ui, S) => Zero(Tail(ui), S)
             /\ One(ui, S) /\ Head(ui) \notin S => One(Tail(ui), S)
             /\ One(ui, S) /\ Head(ui) \in S => Zero(Tail(ui), S)
  BY TailCounts
<1>3. \A S : /\ Zero(Tail(ui), S) /\ t \notin S => Zero(ui', S)
             /\ One(Tail(ui), S) /\ t \notin S => One(ui', S)
             /\ Zero(Tail(ui), S) /\ t \in S => One(ui', S)
  BY <1>1, AppendCounts
<1> QED
  BY <1>2, <1>3

\* Tasks that have nothing to do with the form's business.
Aside == {Task("OnKickout"), Task("DoLogout"), Task("Quit")}

LEMMA AsideCounts ==
  \A t \in Aside : /\ t \in Tasks
                   /\ \A S \in {FirstAnswers, Failures, LogoutTasks, Reports} : t \notin S
BY Kinds, TaskTypes DEF Aside

FormKept == FormFollows' /\ Steady'

\* A step that leaves the form without a button to cancel, or leaves its buttons
\* and the status alone.
LEMMA StillSteady ==
  ASSUME Steady, SteadyLink' => SteadyLink, session' \in {session, "out"} \/ session' = "in",
         Zero(ui, Reports) => Zero(ui', Reports), link' = link, active' = active, form' => form,
         \/ status' = status
         \/ status' \in {"NONE", "LOGIN", "CANCEL"} \/ ~form',
         \/ ~form' \/ "cancel" \notin buttons' \/ ~canCancel' \/ status' = "LOGIN"
         \/ status' = status /\ buttons' = buttons /\ canCancel' = canCancel
  PROVE  Steady'
BY DEF Steady

LEMMA FormScreenSteps ==
  ASSUME FormInv,
         \/ OnLogin \/ SettingsCome \/ ClickCancel
         \/ TypeName \/ ClickRegister \/ ClickEnterLogin \/ DoRegisterAccount \/ Registered
  PROVE  FormKept
<1> FormFollows /\ Steady /\ TypeOK
  BY DEF FormInv, IInv
<1>1. ASSUME StartLogin, form' = form, canCancel' = canCancel, ui' = ui, logouts' = logouts,
             session' = session, link' = link, active' = active
      PROVE  FormKept
  <2>1. /\ status' = "LOGIN" /\ logins' = logins + 1 /\ (SteadyLink' <=> SteadyLink)
        /\ beside' = (beside \/ status # "NONE")
    BY <1>1 DEF StartLogin, SteadyLink, TypeOK
  <2>2. Rest => Asked'
    BY <1>1, <2>1 DEF Rest, Asked
  <2>3. FormFollows'
    BY <1>1, <2>1, <2>2 DEF FormFollows
  <2>4. Steady'
    BY <1>1, <2>1, StillSteady
  <2> QED
    BY <2>3, <2>4 DEF FormKept
<1>2. ASSUME ui' = ui, status' = status, form' = form, logins' = logins, logouts' = logouts,
             session' = session, link' = link, active' = active, beside' = beside, used' = used,
             \/ buttons' = {"login"}
             \/ canCancel' = canCancel
                /\ buttons' \in {buttons, buttons \ {"login"}, buttons \cup {"login"}}
      PROVE  FormKept
  <2>1. Idly /\ (SteadyLink' <=> SteadyLink)
    BY <1>2 DEF Idly, SteadyLink
  <2>2. FormFollows'
    BY <1>2, <2>1, Idle
  <2>3. Steady'
    BY <1>2, <2>1 DEF Steady
  <2> QED
    BY <2>2, <2>3 DEF FormKept
<1>3. CASE OnLogin
  BY <1>1, <1>2, <1>3 DEF OnLogin
<1>4. CASE SettingsCome
  BY <1>1, <1>2, <1>4 DEF SettingsCome
<1>5. CASE ClickCancel
  <2>1. /\ ui' = ui /\ logins' = logins /\ logouts' = logouts /\ session' = session
        /\ form /\ form' = form /\ "cancel" \in buttons /\ canCancel /\ ~canCancel'
        /\ status' = "CANCEL" /\ link' = link /\ active' = active /\ used' = used
        /\ beside' = beside
    BY <1>5 DEF ClickCancel, sdk
  <2>2. (Asked => Asked') /\ (Answered => Answered')
    BY <2>1 DEF Asked, Answered
  <2>3. SteadyLink' => SteadyLink /\ status = "LOGIN"
    BY <2>1 DEF Steady, SteadyLink
  <2>4. FormFollows'
    BY <2>1, <2>2, <2>3 DEF FormFollows
  <2>5. Steady'
    BY <2>1, <2>3, StillSteady
  <2> QED
    BY <2>4, <2>5 DEF FormKept
<1>6. CASE TypeName
  BY <1>2, <1>6 DEF TypeName, FormOnly, program, sdk
<1>7. CASE ClickRegister
  BY <1>2, <1>7 DEF ClickRegister, NameSet, FormOnly, program, sdk
<1>8. CASE ClickEnterLogin
  BY <1>2, <1>8 DEF ClickEnterLogin, NameSet, FormOnly, program, sdk
<1>9. CASE DoRegisterAccount
  BY <1>2, <1>9 DEF DoRegisterAccount, FormOnly, program, sdk
<1>10. CASE Registered
  BY <1>2, <1>10 DEF Registered, FormOnly, program, sdk
<1> QED
  BY <1>3, <1>4, <1>5, <1>6, <1>7, <1>8, <1>9, <1>10

LEMMA FormUserSteps ==
  ASSUME FormInv,
         \/ CloseLoginForm \/ MenuLogout \/ ClickRelink
         \/ ClickOffline \/ LinkFormCloses \/ BrowserOpens \/ BrowserCloses
  PROVE  FormKept
<1> FormFollows /\ Steady /\ TypeOK /\ ui \in Seq(Tasks)
  BY DEF FormInv, IInv, TypeOK
<1>1. CASE CloseLoginForm
  <2>1. /\ form /\ DoLogout(status, FALSE, ui) /\ active' = active /\ session' = session
        /\ used' = used
    BY <1>1 DEF CloseLoginForm
  <2>2. status = "EXIT" => ~SteadyLink'
    BY <2>1 DEF Steady, SteadyLink
  <2>3. CASE status # "EXIT"
    <3>1. /\ form' = FALSE /\ link' = "none"
          /\ ui' = ui \/ ui' = Append(ui, Task("Quit"))
      BY <2>1, <2>3 DEF DoLogout, QuitWithoutBrowsers, FormGone
    <3>2. Zero(ui, Reports) => Zero(ui', Reports)
      BY <3>1, TaskPosted, AsideCounts DEF Aside
    <3> QED
      BY <2>1, <3>1, <3>2 DEF FormKept, FormFollows, Steady, SteadyLink
  <2> QED
    BY <2>2, <2>3 DEF FormKept, FormFollows, Steady
<1>2. CASE MenuLogout
  <2>1. ui' = Append(ui, Task("DoLogout"))
    BY <1>2 DEF MenuLogout
  <2>2. Idly /\ (Zero(ui, Reports) => Zero(ui', Reports))
    BY <2>1, TaskPosted, AsideCounts DEF Aside, Idly
  <2>3. /\ status' = status /\ form' = form /\ buttons' = buttons /\ canCancel' = canCancel
        /\ logins' = logins /\ logouts' = logouts /\ session' = session
        /\ link' = link /\ active' = active /\ used' = used /\ beside' = beside
    BY <1>2 DEF MenuLogout, program, windows, screen, sdk
  <2>4. FormFollows'
    BY <2>2, <2>3, Idle
  <2>5. Steady'
    BY <2>2, <2>3, StillSteady DEF SteadyLink
  <2> QED
    BY <2>4, <2>5 DEF FormKept
<1>3. CASE ClickRelink \/ ClickOffline \/ LinkFormCloses
  <2>1. used' = used /\ (link # "none" \/ ~active)
    BY <1>3 DEF ClickRelink, ClickOffline, LinkFormCloses
  <2>2. ~SteadyLink'
    BY <2>1 DEF Steady, SteadyLink
  <2> QED
    BY <2>2 DEF FormKept, FormFollows, Steady
<1>4. CASE BrowserOpens \/ BrowserCloses
  <2>1. /\ status' = status /\ form' = form /\ buttons' = buttons /\ canCancel' = canCancel
        /\ logins' = logins /\ logouts' = logouts /\ session' = session
        /\ link' = link /\ active' = active /\ used' = used /\ beside' = beside /\ ui' = ui
    BY <1>4 DEF BrowserOpens, BrowserCloses, program, windows, screen, sdk
  <2>2. FormFollows'
    BY <2>1, Idle DEF Idly
  <2>3. Steady'
    BY <2>1, StillSteady DEF SteadyLink
  <2> QED
    BY <2>2, <2>3 DEF FormKept
<1> QED
  BY <1>1, <1>2, <1>3, <1>4

LEMMA FormSdkSteps ==
  ASSUME FormInv,
         \/ \E res \in Results : SdkLogin(res)
         \/ \E res \in Results, retrying \in BOOLEAN : SdkRelogin(res, retrying)
         \/ LinkDrops \/ Kicks \/ SdkLogout
  PROVE  FormKept
<1> FormFollows /\ Steady /\ TypeOK /\ ui \in Seq(Tasks) /\ logins \in Nat /\ logouts \in Nat
  BY DEF FormInv, IInv, TypeOK
<1>0. \A t : SdkPosts(t) => /\ ui' = Append(ui, t) /\ status' = status /\ form' = form
                            /\ buttons' = buttons /\ canCancel' = canCancel
                            /\ link' = link /\ active' = active /\ beside' = beside
  BY DEF SdkPosts, program, windows, screen
<1>1. ASSUME NEW res \in Results, SdkLogin(res)
      PROVE  FormKept
  <2> DEFINE t == Answer("OnLogin", res, FALSE, FALSE)
  <2>1. t \in Answers /\ t \in Tasks /\ ~t.relogin /\ t.res = res
    BY DEF Answer, Answers, Tasks
  <2>2. /\ logins > 0 /\ logins' = logins - 1
        /\ session' \in (IF res = "ok" THEN {"in"} ELSE {session, "out"})
        /\ SdkPosts(t) /\ logouts' = logouts /\ used' = used
    BY <1>1 DEF SdkLogin
  <2> HIDE DEF t
  <2>3. /\ Zero(ui, LogoutTasks) => Zero(ui', LogoutTasks)
        /\ Zero(ui, FirstAnswers) => One(ui', FirstAnswers)
        /\ Zero(ui, Failures) /\ res = "ok" => Zero(ui', Failures)
        /\ Zero(ui, Reports) => Zero(ui', Reports)
    BY <1>0, <2>1, <2>2, TaskPosted, Kinds
  <2>4. Zero(ui, FirstAnswers) => Zero(ui, Failures)
    BY DEF Zero, Failures
  <2>5. Asked => Answered'
    BY <2>2, <2>3, <2>4 DEF Asked, Answered
  <2>6. ~Answered /\ ~Leaving /\ ~Left /\ ~Rest
    BY <2>2 DEF Answered, Leaving, Left, Rest
  <2>7. SteadyLink' <=> SteadyLink
    BY <2>2 DEF SteadyLink
  <2>8. FormFollows'
    BY <1>0, <2>2, <2>5, <2>6, <2>7 DEF FormFollows
  <2>9. Steady'
    BY <1>0, <2>2, <2>3, <2>7, StillSteady
  <2> QED
    BY <2>8, <2>9 DEF FormKept
<1>2. CASE \E res \in Results, retrying \in BOOLEAN : SdkRelogin(res, retrying)
  <2>1. session = "down" /\ used'.drops = used.drops
    BY <1>2 DEF SdkRelogin, TypeOK
  <2>2. ~SteadyLink'
    BY <2>1 DEF Steady, SteadyLink
  <2> QED
    BY <2>2 DEF FormKept, FormFollows, Steady
<1>3. CASE LinkDrops
  <2>1. used'.drops = used.drops + 1 /\ used.drops \in Nat
    BY <1>3, LoginBounds DEF LinkDrops, TypeOK
  <2>2. ~SteadyLink'
    BY <2>1 DEF SteadyLink
  <2> QED
    BY <2>2 DEF FormKept, FormFollows, Steady
<1>4. CASE Kicks
  <2>1. /\ Task("OnKickout") \in Tasks /\ SdkPosts(Task("OnKickout")) /\ session' = "out"
        /\ logins' = logins /\ logouts' = logouts /\ used' = used
    BY <1>4, TaskTypes DEF Kicks
  <2>2. Idly /\ (Zero(ui, Reports) => Zero(ui', Reports))
    BY <1>0, <2>1, TaskPosted, AsideCounts DEF Aside, Idly
  <2>3. FormFollows'
    BY <1>0, <2>1, <2>2, Idle
  <2>4. Steady'
    BY <1>0, <2>1, <2>2, StillSteady DEF SteadyLink
  <2> QED
    BY <2>3, <2>4 DEF FormKept
<1>5. CASE SdkLogout
  <2>1. /\ logouts > 0 /\ logouts' = logouts - 1 /\ session' = "out" /\ logins' \in {0, logins}
        /\ SdkPosts(Task("OnLogout")) /\ used' = used
    BY <1>5 DEF SdkLogout
  <2>2. Task("OnLogout") \in Tasks
    BY TaskTypes
  <2>3. /\ Zero(ui, LogoutTasks) => One(ui', LogoutTasks)
        /\ Zero(ui, FirstAnswers) => Zero(ui', FirstAnswers)
        /\ Zero(ui, Reports) => Zero(ui', Reports)
    BY <1>0, <2>1, <2>2, TaskPosted, Kinds
  <2>4. Leaving => Left'
    BY <2>1, <2>3 DEF Leaving, Left
  <2>5. ~Asked /\ ~Answered /\ ~Left /\ ~Rest
    BY <2>1 DEF Asked, Answered, Left, Rest
  <2>6. SteadyLink' <=> SteadyLink
    BY <2>1 DEF SteadyLink
  <2>7. FormFollows'
    BY <1>0, <2>1, <2>4, <2>5, <2>6 DEF FormFollows
  <2>8. Steady'
    BY <1>0, <2>1, <2>3, <2>6, StillSteady
  <2> QED
    BY <2>7, <2>8 DEF FormKept
<1> QED
  BY <1>1, <1>2, <1>3, <1>4, <1>5

LEMMA FormAnswerSteps ==
  ASSUME FormInv,
         \/ OnLoginCallback \/ Reconnected \/ NotReconnected \/ ReloginDenied
         \/ LoginCancelled \/ LoginDone
  PROVE  FormKept
<1> FormFollows /\ Steady /\ TypeOK /\ ui \in Seq(Tasks) /\ logouts \in Nat
  BY DEF FormInv, IInv, TypeOK
<1>1. CASE OnLoginCallback
  <2> DEFINE t == [Head(ui) EXCEPT !.do = "UILogin"]
  <2>1. /\ ui # <<>> /\ ui' = Append(Tail(ui), t) /\ t \in Tasks /\ Head(ui) \in Answers
    BY <1>1, HeadIsAnswer DEF OnLoginCallback, Runs
  <2>2. t \in Answers /\ t.relogin = Head(ui).relogin /\ t.res = Head(ui).res
    BY <2>1 DEF Answers
  <2> HIDE DEF t
  <2>3. \A S \in {FirstAnswers, Failures, LogoutTasks, Reports} : t \in S <=> Head(ui) \in S
    BY <2>1, <2>2, Kinds
  <2>4. Idly /\ (Zero(ui, Reports) => Zero(ui', Reports))
    <3>1. \A S \in {FirstAnswers, Failures, LogoutTasks, Reports} : Zero(ui, S) => t \notin S
      BY <2>1, <2>3, TailCounts
    <3>2. \A S \in {FirstAnswers, Failures, LogoutTasks, Reports} :
            (Zero(ui, S) => Zero(ui', S)) /\ (One(ui, S) => One(ui', S))
      BY <2>1, <2>3, <3>1, TaskFollows
    <3> QED
      BY <3>2 DEF Idly
  <2>5. /\ status' = status /\ form' = form /\ buttons' = buttons /\ canCancel' = canCancel
        /\ logins' = logins /\ logouts' = logouts /\ session' = session
        /\ link' = link /\ active' = active /\ used' = used /\ beside' = beside
    BY <1>1 DEF OnLoginCallback, program, windows, screen, sdk
  <2>6. FormFollows'
    BY <2>4, <2>5, Idle
  <2>7. Steady'
    BY <2>4, <2>5, StillSteady DEF SteadyLink
  <2> QED
    BY <2>6, <2>7 DEF FormKept
<1>2. ASSUME NEW relogin \in BOOLEAN, NEW results, UILogin(relogin, results)
      PROVE  /\ ui # <<>> /\ Tail(ui) \in Seq(Tasks)
             /\ Head(ui) \notin LogoutTasks
             /\ Head(ui) \in FirstAnswers <=> ~relogin
             /\ Head(ui) \in Failures <=> ~relogin /\ Head(ui).res # "ok"
             /\ Head(ui) \in Reports <=> relogin
             /\ session' = session /\ logins' = logins /\ used' = used /\ beside' = beside
  <2>1. Head(ui) \in Answers /\ Tail(ui) \in Seq(Tasks)
    BY <1>2, HeadIsAnswer DEF UILogin
  <2> QED
    BY <1>2, <2>1, Kinds DEF UILogin, Runs
<1>3. CASE Reconnected \/ NotReconnected \/ ReloginDenied
  <2>1. PICK results : UILogin(TRUE, results)
    BY <1>3 DEF Reconnected, NotReconnected, ReloginDenied
  <2>2. Head(ui) \in Reports /\ ui # <<>> /\ used' = used
    BY <1>2, <2>1
  <2>3. ~SteadyLink'
    BY <2>2, TailCounts DEF Steady, SteadyLink
  <2> QED
    BY <2>3 DEF FormKept, FormFollows, Steady
<1>4. ASSUME UILogin(FALSE, Results), ui' = Tail(ui)
      PROVE  /\ ~Asked /\ ~Leaving /\ ~Left /\ ~Rest
             /\ One(ui, FirstAnswers) => Zero(ui', FirstAnswers)
             /\ \A S \in {LogoutTasks, Reports} : Zero(ui, S) => Zero(ui', S)
             /\ Answered /\ Head(ui).res # "ok" => session = "out"
  <2>1. ui # <<>> /\ Head(ui) \in FirstAnswers
    BY <1>2, <1>4
  <2>2. ~Zero(ui, FirstAnswers)
    BY <2>1, TailCounts
  <2>3. ~Asked /\ ~Leaving /\ ~Left /\ ~Rest
    BY <2>2 DEF Asked, Leaving, Left, Rest
  <2>4. Head(ui).res # "ok" => ~Zero(ui, Failures)
    BY <1>2, <1>4, <2>1, TailCounts
  <2> QED
    BY <1>4, <2>1, <2>3, <2>4, TaskRuns DEF Answered
<1>5. CASE LoginCancelled
  <2>1. UILogin(FALSE, Results) /\ status = "CANCEL" /\ link' = link /\ active' = active
    BY <1>5 DEF LoginCancelled
  <2>2. /\ session' = session /\ logins' = logins /\ used' = used /\ beside' = beside
        /\ (SteadyLink' <=> SteadyLink)
    BY <1>2, <2>1 DEF SteadyLink
  <2>3. ui' = Tail(ui)
    BY <1>5, <2>1 DEF LoginCancelled, UILogoutCallback
  <2>4. CASE Head(ui).res = "ok"
    <3>1. /\ logouts' = logouts + 1 /\ status' = status /\ form' = form
          /\ buttons' = buttons /\ canCancel' = canCancel
      BY <1>5, <2>4 DEF LoginCancelled, NimLogout, screen
    <3>2. Answered => Leaving'
      BY <1>4, <2>1, <2>2, <2>3, <3>1 DEF Answered, Leaving
    <3>3. FormFollows'
      BY <1>4, <2>1, <2>2, <2>3, <3>1, <3>2 DEF FormFollows
    <3>4. Steady'
      BY <1>4, <2>1, <2>2, <2>3, <3>1, StillSteady
    <3> QED
      BY <3>3, <3>4 DEF FormKept
  <2>5. CASE Head(ui).res # "ok"
    <3>1. /\ logouts' = logouts /\ status' = "NONE"
          /\ ~form' \/ (form /\ buttons' = {"login"})
      BY <1>5, <2>1, <2>5 DEF LoginCancelled, UILogoutCallback, OnCancelLogin, screen
    <3>2. Answered => Rest'
      BY <1>4, <2>1, <2>2, <2>3, <2>5, <3>1 DEF Answered, Rest
    <3>3. FormFollows'
      BY <1>4, <2>1, <2>2, <2>3, <3>1, <3>2 DEF FormFollows
    <3>4. Steady'
      BY <1>4, <2>1, <2>2, <2>3, <3>1, StillSteady
    <3> QED
      BY <3>3, <3>4 DEF FormKept
  <2> QED
    BY <2>4, <2>5
<1>6. CASE LoginDone
  <2>1. /\ UILogin(FALSE, Results) /\ status # "CANCEL" /\ ui' = Tail(ui)
        /\ link' = link /\ active' = active /\ logouts' = logouts
    BY <1>6 DEF LoginDone
  <2>2. /\ session' = session /\ logins' = logins /\ used' = used /\ beside' = beside
        /\ (SteadyLink' <=> SteadyLink)
    BY <1>2, <2>1 DEF SteadyLink
  <2>3. CASE Head(ui).res = "ok"
    <3>1. ~form'
      BY <1>6, <2>3 DEF LoginDone, FormGone
    <3>2. Steady'
      BY <1>4, <2>1, <2>2, <3>1, StillSteady
    <3> QED
      BY <3>1, <3>2 DEF FormKept, FormFollows
  <2>4. CASE Head(ui).res # "ok"
    <3>1. status' = "NONE" /\ (~form' \/ (form /\ buttons' = {"login"}))
      BY <1>6, <2>4 DEF LoginDone, OnCancelLogin, screen
    <3>2. Answered => Rest'
      BY <1>4, <2>1, <2>2, <2>4 DEF Answered, Rest
    <3>3. SteadyLink /\ form => status \in {"NONE", "LOGIN"}
      BY <2>1 DEF Steady
    <3>4. FormFollows'
      BY <1>4, <2>1, <2>2, <3>1, <3>2, <3>3 DEF FormFollows
    <3>5. Steady'
      BY <1>4, <2>1, <2>2, <3>1, StillSteady
    <3> QED
      BY <3>4, <3>5 DEF FormKept
  <2> QED
    BY <2>3, <2>4
<1> QED
  BY <1>1, <1>3, <1>5, <1>6

LEMMA FormOtherTasks ==
  ASSUME FormInv,
         \/ MenuTask \/ OnKickoutCallback \/ OnLogoutCallback \/ OnDisconnectCallback
         \/ Quit \/ QuitAgain
  PROVE  FormKept
<1> FormFollows /\ Steady /\ TypeOK /\ ui \in Seq(Tasks) /\ logouts \in Nat
  BY DEF FormInv, IInv, TypeOK
<1>0. ASSUME NEW name \in {"OnLogout", "OnKickout", "OnDisconnect", "DoLogout", "Quit"}, Runs(name)
      PROVE  ui # <<>> /\ Head(ui) = Task(name) /\ Tail(ui) \in Seq(Tasks)
  <2>1. ui # <<>> /\ Head(ui) \in Tasks /\ Head(ui).do = name /\ Tail(ui) \in Seq(Tasks)
    BY <1>0, TailType DEF Runs
  <2>2. Head(ui) \in [do : {"OnLogout", "OnKickout", "OnDisconnect", "DoLogout", "Quit"}]
    BY <2>1 DEF Tasks, Answers
  <2> QED
    BY <2>1, <2>2 DEF Task
<1>1. ASSUME NEW name \in {"OnKickout", "DoLogout"}, Runs(name), NEW kicked \in BOOLEAN,
             DoLogout(status, kicked, Tail(ui)), session' = session, used' = used, active' = active
      PROVE  FormKept
  <2>1. /\ ~form' \/ (form /\ status = "EXIT")
        /\ link' \in {"none", link}
        /\ ui' = Tail(ui) \/ ui' = Append(Tail(ui), Task("Quit"))
    <3>1. CASE status = "EXIT"
      BY <1>1, <3>1 DEF DoLogout, screen
    <3>2. CASE status # "EXIT"
      BY <1>1, <3>2 DEF DoLogout, QuitWithoutBrowsers, FormGone
    <3> QED
      BY <3>1, <3>2
  <2>2. Zero(ui, Reports) => Zero(ui', Reports)
    BY <1>0, <1>1, <2>1, TaskRuns, TaskFollows, AsideCounts DEF Aside
  <2>3. SteadyLink' => ~form'
    BY <1>1, <2>1 DEF Steady, SteadyLink
  <2>4. link' \in {"none", link}
    BY <1>1 DEF DoLogout
  <2> QED
    BY <1>1, <2>1, <2>2, <2>3, <2>4 DEF FormKept, FormFollows, Steady, SteadyLink
<1>2. CASE MenuTask
  BY <1>1, <1>2 DEF MenuTask
<1>3. CASE OnKickoutCallback
  BY <1>1, <1>3 DEF OnKickoutCallback
<1>4. CASE OnLogoutCallback
  <2>1. /\ ui # <<>> /\ Head(ui) = Task("OnLogout") /\ Tail(ui) \in Seq(Tasks)
        /\ UILogoutCallback(status, Tail(ui))
        /\ session' = session /\ logins' = logins /\ logouts' = logouts /\ used' = used
        /\ link' = link /\ active' = active /\ beside' = beside
    BY <1>0, <1>4 DEF OnLogoutCallback, sdk
  <2>2. Head(ui) \in LogoutTasks /\ Head(ui) \notin FirstAnswers /\ Head(ui) \notin Reports
    BY <2>1, Kinds
  <2>3. ~Zero(ui, LogoutTasks)
    BY <2>1, <2>2, TailCounts
  <2>4. ~Asked /\ ~Answered /\ ~Leaving /\ ~Rest /\ (SteadyLink' <=> SteadyLink)
    BY <2>1, <2>3 DEF Asked, Answered, Leaving, Rest, SteadyLink
  <2>5. \/ ui' = Tail(ui) /\ status = "CANCEL" /\ status' = "NONE"
           /\ (~form' \/ (form /\ buttons' = {"login"}))
        \/ /\ ui' = Tail(ui) \/ ui' = Append(Tail(ui), Task("Quit"))
           /\ status # "CANCEL" /\ status' = status /\ form' = form
           /\ buttons' = buttons /\ canCancel' = canCancel
    BY <2>1 DEF UILogoutCallback, QuitWithoutBrowsers, OnCancelLogin, screen
  <2>6. /\ One(ui, LogoutTasks) => Zero(ui', LogoutTasks)
        /\ Zero(ui, FirstAnswers) => Zero(ui', FirstAnswers)
        /\ Zero(ui, Reports) => Zero(ui', Reports)
    BY <2>1, <2>2, <2>5, TaskRuns, TaskFollows, AsideCounts DEF Aside
  <2>7. Left => Rest'
    BY <2>1, <2>6 DEF Left, Rest
  <2>8. SteadyLink /\ form => status \in {"NONE", "LOGIN", "CANCEL"}
    BY DEF Steady
  <2>9. FormFollows'
    BY <2>1, <2>4, <2>5, <2>7, <2>8 DEF FormFollows
  <2>10. Steady'
    BY <2>1, <2>4, <2>5, <2>6, StillSteady
  <2> QED
    BY <2>9, <2>10 DEF FormKept
<1>5. CASE OnDisconnectCallback
  <2>1. /\ ui # <<>> /\ Head(ui) = Task("OnDisconnect") /\ used' = used
    BY <1>0, <1>5 DEF OnDisconnectCallback
  <2>2. Head(ui) \in Reports
    BY <2>1, Kinds
  <2>3. ~SteadyLink'
    BY <2>1, <2>2, TailCounts DEF Steady, SteadyLink
  <2> QED
    BY <2>3 DEF FormKept, FormFollows, Steady
<1>6. CASE Quit \/ QuitAgain
  <2>1. /\ status' = status /\ form' = form /\ buttons' = buttons /\ canCancel' = canCancel
        /\ link' = link /\ active' = active /\ beside' = beside
        /\ session' = session /\ logins' = logins /\ logouts' = logouts /\ used' = used
    BY <1>6 DEF Quit, QuitAgain, program, windows, screen, sdk
  <2>2. \/ ui # <<>> /\ Head(ui) = Task("Quit") /\ ui' = Tail(ui)
        \/ ui' \in {ui, Append(ui, Task("Quit"))}
    BY <1>0, <1>6 DEF Quit, QuitAgain
  <2>3. \A S \in {FirstAnswers, Failures, LogoutTasks, Reports} :
          (Zero(ui, S) => Zero(ui', S)) /\ (One(ui, S) => One(ui', S))
    <3>1. CASE ui # <<>> /\ Head(ui) = Task("Quit") /\ ui' = Tail(ui)
      BY <3>1, TaskRuns, AsideCounts DEF Aside
    <3>2. CASE ui' = Append(ui, Task("Quit"))
      BY <3>2, TaskPosted, AsideCounts DEF Aside
    <3> QED
      BY <2>2, <3>1, <3>2
  <2>4. FormFollows'
    BY <2>1, <2>3, Idle DEF Idly
  <2>5. Steady'
    BY <2>1, <2>3, StillSteady DEF SteadyLink
  <2> QED
    BY <2>4, <2>5 DEF FormKept
<1> QED
  BY <1>2, <1>3, <1>4, <1>5, <1>6

LEMMA FormInitially == Init => FormInv
<1> SUFFICES ASSUME Init PROVE FormInv
  OBVIOUS
<1>1. \A S : Zero(ui, S)
  BY DEF Init, Zero
<1>2. Rest
  BY <1>1 DEF Init, Rest
<1>3. FormFollows
  BY <1>2 DEF Init, FormFollows
<1>4. Steady
  BY <1>1 DEF Init, Steady
<1> QED
  BY <1>3, <1>4, Initially DEF FormInv

LEMMA FormStep == FormInv /\ [Next]_vars => FormInv'
<1> SUFFICES ASSUME FormInv, [Next]_vars PROVE FormInv'
  OBVIOUS
<1>1. IInv'
  BY Step DEF FormInv, Kept, IInv
<1>2. CASE UNCHANGED vars
  <2>1. /\ ui' = ui /\ status' = status /\ form' = form /\ link' = link /\ active' = active
        /\ buttons' = buttons /\ canCancel' = canCancel /\ beside' = beside
        /\ session' = session /\ logins' = logins /\ logouts' = logouts /\ used' = used
    BY <1>2 DEF vars, program, windows, screen, sdk
  <2>2. FormFollows'
    BY <2>1, Idle DEF FormInv, Idly
  <2> QED
    BY <1>1, <2>1, <2>2 DEF FormInv, Steady, SteadyLink
<1>3. CASE Next
  BY <1>1, <1>3, FormScreenSteps, FormUserSteps, FormSdkSteps, FormAnswerSteps, FormOtherTasks
  DEF Next, UiThread, FormKept, FormInv
<1> QED
  BY <1>2, <1>3

\* What the login form waits for, one thing at a time, is invariant under every
\* step of user, SDK and UI thread (login_callback.cpp, login_form.cpp).
THEOREM FormInvariance == Spec => []FormInv
BY FormInitially, FormStep, PTL DEF Spec

\* On a link that holds, status NONE behind the login form means that the SDK
\* has no session and neither a login nor a logout under way, whatever was
\* cancelled, refused or kicked out meanwhile, as long as DoLogin's assert was
\* kept (login_callback.cpp:84, 136-208, 262-277).
THEOREM CancelLogsOut == Spec => []CancelledIsOut
<1>1. FormInv => CancelledIsOut
  BY DEF FormInv, FormFollows, Rest, CancelledIsOut
<1> QED
  BY <1>1, FormInvariance, PTL

\* As long as the link holds, the form offers to cancel in status LOGIN only, as
\* CacelLogin asserts, however many logins were started and whatever page the
\* form shows (login_callback.cpp:212).
THEOREM CancelAssertsHold == Spec => []CancelAsserts
<1>1. FormInv => CancelAsserts
  BY DEF FormInv, Steady, CancelAsserts
<1> QED
  BY <1>1, FormInvariance, PTL
=============================================================================
