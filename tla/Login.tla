-------------------------------- MODULE Login --------------------------------
(***************************************************************************)
(* Logging in and out (callback/login/login_callback.cpp): the status of   *)
(* the LoginManager, the windows it opens and closes (login form, main     *)
(* form, link form), and the end of the program.  The login form's own     *)
(* buttons (login_form.cpp, login_form_ui.cpp) come and go with its pages, *)
(* its name field and the answers, without a look at the status.           *)
(* Everything here runs on the UI thread: nim_app.cpp:129 has the client   *)
(* SDK post its callbacks to it.  But the answer of a login is then posted *)
(* a second time, so that whatever the SDK reports next overtakes it.      *)
(*                                                                         *)
(* The SDK is external: a session that logs in, may lose its link and get  *)
(* it back, is kicked out, and logs out when asked.                        *)
(***************************************************************************)
EXTENDS Naturals, Sequences

CONSTANTS
  MaxLogins,   \* how often DoLogin is called
  MaxDrops,    \* how often the link is lost
  MaxTries,    \* how many answers the SDK gives to its attempts to reconnect
  MaxTasks     \* the UI queue's length at which user and SDK pause

ASSUME LoginBounds == {MaxLogins, MaxDrops, MaxTries, MaxTasks} \subseteq Nat

VARIABLES
  status,   \* LoginManager::status_
  active,   \* LoginManager::active_, the link
  error,    \* LoginManager::error_code_
  form,     \* the login form is there
  buttons,  \* of its buttons btn_login_ and btn_cancel_ those that are visible
  canCancel,   \* btn_cancel_ is enabled
  page,     \* its page: login or register
  registering, \* a registration will, or may, bring the login page back
  settings, \* downloads of private settings for OnLogin under way
  main,     \* the main form is there
  link,     \* the page of the link form, or none
  stop,     \* WindowsManager::stop_register_
  refused,  \* a window was asked for while stop_register_ was up
  restart,  \* QCommand's kCmdRestart
  browser,  \* CefManager::browser_count_ is not 0
  delayed,  \* PostQuitMessage's tasks of 500 ms
  ui,       \* the UI thread's tasks
  over,     \* ::PostQuitMessage was called: the program ends
  session,  \* the SDK's session
  logins,   \* calls of nim::Client::Login it has not answered
  logouts,  \* calls of nim::Client::Logout it has not answered
  beside,   \* not in the code: DoLogin was called in another status than NONE
  used      \* what has been used up of the bounds

program == <<status, active, error>>
screen  == <<form, buttons, canCancel, page, registering, settings>>
windows == <<screen, main, link, stop, refused>>
leaving == <<restart, delayed, over>>
sdk     == <<session, logins, logouts>>
vars    == <<program, windows, leaving, browser, ui, sdk, beside, used>>

Statuses == {"NONE", "LOGIN", "CANCEL", "SUCCESS", "EXIT"}

\* "busy" stands for kNIMResTimeoutError, kNIMResConnectionError and
\* kNIMResTooBuzy, "network" for kNIMLocalResNetworkError.
Results == {"ok", "busy", "network", "denied"}

Answer(hop, res, relogin, retrying) ==
  [do |-> hop, res |-> res, relogin |-> relogin, retrying |-> retrying]
Task(name) == [do |-> name]

Answers == [do : {"OnLogin", "UILogin"}, res : Results, relogin : BOOLEAN, retrying : BOOLEAN]
Tasks   == Answers \cup [do : {"OnLogout", "OnKickout", "OnDisconnect", "DoLogout", "Quit"}]

Init ==
  /\ status = "NONE" /\ active = TRUE /\ error = "ok"
  /\ form = TRUE /\ buttons = {"login"} /\ canCancel = TRUE
  /\ page = "login" /\ registering = FALSE /\ settings = 0
  /\ main = FALSE /\ link = "none"
  /\ stop = FALSE /\ refused = FALSE /\ restart = FALSE
  /\ browser = FALSE /\ delayed = 0 /\ ui = <<>> /\ over = FALSE
  /\ session = "out" /\ logins = 0 /\ logouts = 0 /\ beside = FALSE
  /\ used = [logins |-> 0, drops |-> 0, tries |-> 0]

-----------------------------------------------------------------------------
(* What the handlers are made of.  Each takes the tasks q that are left.   *)

\* CefManager::PostQuitMessage: not before the last browser is closed.
QuitWithoutBrowsers(q) ==
  IF browser THEN ui' = q /\ delayed' = delayed + 1
             ELSE ui' = Append(q, Task("Quit")) /\ UNCHANGED delayed

\* LoginForm::OnCancelLogin, called through a weak callback or by the form
\* itself: the login button, whatever the status.
OnCancelLogin ==
  IF form THEN /\ buttons' = {"login"} /\ canCancel' = TRUE
               /\ UNCHANGED <<form, page, registering, settings>>
          ELSE UNCHANGED screen

\* The form is destroyed, with all that waits for it.
FormGone ==
  /\ form' = FALSE /\ buttons' = {} /\ canCancel' = TRUE
  /\ page' = "login" /\ registering' = FALSE /\ settings' = 0

\* Mutant: only in status EXIT does the program end.
UILogoutCallbackStrict(st, q) ==
  CASE st = "CANCEL" -> status' = "NONE" /\ ui' = q /\ OnCancelLogin /\ UNCHANGED delayed
    [] st = "EXIT"   -> status' = st /\ QuitWithoutBrowsers(q) /\ UNCHANGED screen
    [] OTHER         -> status' = st /\ ui' = q /\ UNCHANGED <<delayed, screen>>

\* UILogoutCallback: a cancelled login returns to the login form, everything
\* else ends the program.
UILogoutCallback(st, q) ==
  \/ /\ st = "CANCEL"
     /\ status' = "NONE" /\ OnCancelLogin
     /\ ui' = q /\ UNCHANGED delayed
  \/ /\ st # "CANCEL"
     /\ status' = st
     /\ QuitWithoutBrowsers(q) /\ UNCHANGED screen

NimLogout == logouts' = logouts + 1

\* DoLogout(st, kicked), called in status st: kicked is its over.
DoLogout(st, kicked, q) ==
  \/ /\ st = "EXIT"
     /\ status' = st /\ ui' = q
     /\ UNCHANGED <<screen, main, link, stop, delayed, logouts>>
  \/ /\ st # "EXIT"
     /\ status' = "EXIT"
     /\ stop' = TRUE /\ FormGone /\ main' = FALSE /\ link' = "none"
     /\ IF st = "NONE" \/ kicked
          THEN QuitWithoutBrowsers(q) /\ UNCHANGED logouts
          ELSE NimLogout /\ ui' = q /\ UNCHANGED delayed

\* ShowLinkForm and SetLoginRetryingFlag, with the link down: on the tip page
\* is the button that calls ReLogin.  A new window is refused once
\* stop_register_ is up.
ShowLinkForm(res, retrying) ==
  IF link = "none" /\ stop
    THEN refused' = TRUE /\ UNCHANGED link
    ELSE /\ link' = IF retrying /\ res # "network" THEN "ing" ELSE "tip"
         /\ UNCHANGED refused

-----------------------------------------------------------------------------
(* The user.                                                               *)

Free == ~over /\ Len(ui) < MaxTasks

\* StartLogin and DoLogin.  DoLogin asserts that the status is NONE; a build
\* without asserts goes on in any other.
StartLogin ==
  /\ buttons' = (buttons \ {"login"}) \cup {"cancel"}
  /\ status' = "LOGIN" /\ logins' = logins + 1
  /\ beside' = (beside \/ status # "NONE")
  /\ used' = [used EXCEPT !.logins = @ + 1]

\* LoginForm::OnLogin, on a click or the return key: the login starts at once,
\* or when the private settings are there, which leaves the button as it is.
OnLogin ==
  /\ Free /\ form /\ "login" \in buttons
  /\ used.logins + settings < MaxLogins
  /\ \/ StartLogin /\ UNCHANGED settings
     \/ settings' = settings + 1 /\ UNCHANGED <<status, buttons, logins, beside, used>>
  /\ UNCHANGED <<active, error, form, canCancel, page, registering, main, link, stop, refused,
                 leaving, browser, ui, session, logouts>>

\* OnLogin_i, with the settings there; or they are not to be had, the name is
\* empty or taken by another instance.
SettingsCome ==
  /\ ~over /\ form /\ settings > 0
  /\ settings' = settings - 1
  /\ StartLogin \/ UNCHANGED <<status, buttons, logins, beside, used>>
  /\ UNCHANGED <<active, error, form, canCancel, page, registering, main, link, stop, refused,
                 leaving, browser, ui, session, logouts>>

\* Mutant: the cancel button stays enabled.
ClickCancelAgain ==
  /\ Free /\ form /\ "cancel" \in buttons /\ canCancel
  /\ status' = "CANCEL"
  /\ UNCHANGED <<active, error, windows, leaving, browser, ui, sdk, beside, used>>

\* The cancel button: CacelLogin.
ClickCancel ==
  /\ Free /\ form /\ "cancel" \in buttons /\ canCancel
  /\ canCancel' = FALSE /\ status' = "CANCEL"
  /\ UNCHANGED <<active, error, form, buttons, page, registering, settings, main, link, stop,
                 refused, leaving, browser, ui, sdk, beside, used>>

\* The form's own steps below move nothing but its controls.
FormOnly ==
  UNCHANGED <<program, form, settings, main, link, stop, refused, leaving, browser, ui, sdk,
              beside, used>>

\* The user types a name, which calls OnCancelLogin.  The field is enabled while
\* the cancel button is hidden.
TypeName ==
  /\ Free /\ form /\ "cancel" \notin buttons
  /\ buttons' = {"login"} /\ canCancel' = TRUE
  /\ UNCHANGED <<page, registering>> /\ FormOnly

\* SetText on the name field, which calls OnCancelLogin if it changes the text.
NameSet(shown) ==
  \/ buttons' = {"login"} /\ canCancel' = TRUE
  \/ buttons' = shown /\ UNCHANGED canCancel

\* The link to the register page: it is there during a login too.
ClickRegister ==
  /\ Free /\ form /\ page = "login"
  /\ page' = "register" /\ NameSet(buttons \ {"login"})
  /\ UNCHANGED registering /\ FormOnly

\* The link back: OnSwitchToLoginPage.
ClickEnterLogin ==
  /\ Free /\ form /\ page = "register"
  /\ page' = "login" /\ NameSet(buttons \cup {"login"})
  /\ UNCHANGED registering /\ FormOnly

\* DoRegisterAccount (one at a time: a bound).
DoRegisterAccount ==
  /\ Free /\ form /\ page = "register" /\ ~registering
  /\ registering' = TRUE /\ buttons' = buttons \ {"login"}
  /\ UNCHANGED <<canCancel, page>> /\ FormOnly

\* It fails, or the form returns to its login page 2.5 seconds later.
Registered ==
  /\ ~over /\ form /\ registering
  /\ registering' = FALSE
  /\ \/ UNCHANGED <<buttons, page>>
     \/ page' = "login" /\ buttons' = buttons \cup {"login"}
  /\ UNCHANGED canCancel /\ FormOnly

\* LoginForm::OnClose.
CloseLoginForm ==
  /\ Free /\ form
  /\ DoLogout(status, FALSE, ui)
  /\ UNCHANGED <<active, error, refused, restart, over, browser, session, logins, beside, used>>

\* Quit and log off in the menu of the main form.
MenuLogout ==
  /\ Free /\ main
  /\ ui' = Append(ui, Task("DoLogout"))
  /\ restart' \in {restart, TRUE}
  /\ UNCHANGED <<program, windows, delayed, over, browser, sdk, beside, used>>

\* The link form's button: ReLogin.
ClickRelink ==
  /\ Free /\ link = "tip"
  /\ link' = "ing" /\ status' = "LOGIN"
  /\ session' = IF session = "lost" THEN "down" ELSE session
  /\ UNCHANGED <<active, error, screen, main, stop, refused, leaving, browser, ui, logins, logouts,
                 beside, used>>

\* With the link down, items of the main form show the link form again.
ClickOffline ==
  /\ Free /\ main /\ ~active
  /\ ShowLinkForm(error, TRUE)
  /\ UNCHANGED <<program, screen, main, stop, leaving, browser, ui, sdk, beside, used>>

\* OnTimeup, and the user's close button.
LinkFormCloses ==
  /\ ~over /\ link # "none"
  /\ link' = "none"
  /\ UNCHANGED <<program, screen, main, stop, refused, leaving, browser, ui, sdk, beside, used>>

BrowserOpens ==
  /\ Free /\ main /\ ~browser
  /\ browser' = TRUE
  /\ UNCHANGED <<program, windows, leaving, ui, sdk, beside, used>>

BrowserCloses ==
  /\ ~over /\ browser
  /\ browser' = FALSE
  /\ UNCHANGED <<program, windows, leaving, ui, sdk, beside, used>>

-----------------------------------------------------------------------------
(* The SDK.                                                                *)

SdkPosts(task) ==
  /\ ui' = Append(ui, task)
  /\ UNCHANGED <<program, windows, leaving, browser, beside>>

\* A login that fails beside a session that is there may end it or not.
SdkLogin(res) ==
  /\ Free /\ logins > 0
  /\ logins' = logins - 1
  /\ session' \in IF res = "ok" THEN {"in"} ELSE {session, "out"}
  /\ SdkPosts(Answer("OnLogin", res, FALSE, FALSE))
  /\ UNCHANGED <<logouts, used>>

LinkDrops ==
  /\ Free /\ session = "in" /\ used.drops < MaxDrops
  /\ session' = "down"
  /\ used' = [used EXCEPT !.drops = @ + 1]
  /\ SdkPosts(Task("OnDisconnect")) /\ UNCHANGED <<logins, logouts>>

\* Its own attempt, or the one Relogin asked for.
SdkRelogin(res, retrying) ==
  /\ Free /\ session = "down" /\ used.tries < MaxTries
  /\ session' = CASE res = "ok"     -> "in"
                  [] res = "denied" -> "out"
                  [] OTHER          -> IF retrying THEN "down" ELSE "lost"
  /\ used' = [used EXCEPT !.tries = @ + 1]
  /\ SdkPosts(Answer("OnLogin", res, TRUE, retrying)) /\ UNCHANGED <<logins, logouts>>

Kicks ==
  /\ Free /\ session = "in"
  /\ session' = "out"
  /\ SdkPosts(Task("OnKickout")) /\ UNCHANGED <<logins, logouts, used>>

\* A login under way may be dropped with the session, or still be answered.
SdkLogout ==
  /\ ~over /\ logouts > 0
  /\ logouts' = logouts - 1 /\ session' = "out" /\ logins' \in {0, logins}
  /\ SdkPosts(Task("OnLogout")) /\ UNCHANGED used

-----------------------------------------------------------------------------
(* The tasks of the UI thread.                                             *)

Runs(name) == ~over /\ ui # <<>> /\ Head(ui).do = name

\* OnLoginCallback and OnReLoginCallback post the answer again.
OnLoginCallback ==
  /\ Runs("OnLogin")
  /\ ui' = Append(Tail(ui), [Head(ui) EXCEPT !.do = "UILogin"])
  /\ UNCHANGED <<program, windows, leaving, browser, sdk, beside, used>>

UILogin(relogin, res) ==
  /\ Runs("UILogin") /\ Head(ui).relogin = relogin /\ Head(ui).res \in res
  /\ error' = Head(ui).res
  /\ UNCHANGED <<over, browser, session, logins, beside, used>>

\* SetLinkActive(TRUE) notifies the link form, which closes in two seconds.
Reconnected ==
  /\ UILogin(TRUE, {"ok"})
  /\ status' = "SUCCESS" /\ active' = TRUE
  /\ link' = IF link = "none" THEN "none" ELSE "success"
  /\ ui' = Tail(ui)
  /\ UNCHANGED <<screen, main, stop, refused, restart, delayed, logouts>>

NotReconnected ==
  /\ UILogin(TRUE, {"busy", "network"})
  /\ status' = "NONE" /\ active' = FALSE
  /\ ShowLinkForm(Head(ui).res, Head(ui).retrying)
  /\ ui' = Tail(ui)
  /\ UNCHANGED <<screen, main, stop, restart, delayed, logouts>>

\* Any other answer to a reconnection restarts the program.
ReloginDenied ==
  /\ UILogin(TRUE, {"denied"})
  /\ restart' = TRUE
  /\ DoLogout("NONE", FALSE, Tail(ui))
  /\ UNCHANGED <<active, refused>>

\* Mutant: the form comes back without a logout.
LoginCancelledStaysIn ==
  /\ UILogin(FALSE, Results) /\ status = "CANCEL"
  /\ UILogoutCallback(status, Tail(ui))
  /\ UNCHANGED <<logouts, active, main, link, stop, refused, restart>>

\* Mutant: a cancelled login that fails is dropped.
LoginCancelledDrops ==
  /\ UILogin(FALSE, Results) /\ status = "CANCEL"
  /\ IF Head(ui).res = "ok" THEN NimLogout ELSE UNCHANGED logouts
  /\ ui' = Tail(ui)
  /\ UNCHANGED <<status, screen, delayed, active, main, link, stop, refused, restart>>

\* The first login was cancelled: what was logged in must be logged out.
LoginCancelled ==
  /\ UILogin(FALSE, Results) /\ status = "CANCEL"
  /\ IF Head(ui).res = "ok"
       THEN NimLogout /\ ui' = Tail(ui) /\ UNCHANGED <<status, screen, delayed>>
       ELSE UILogoutCallback(status, Tail(ui)) /\ UNCHANGED logouts
  /\ UNCHANGED <<active, main, link, stop, refused, restart>>

\* Mutant: the callbacks are not weak: the main form always opens.
LoginDoneStrong ==
  /\ UILogin(FALSE, Results) /\ status # "CANCEL"
  /\ IF Head(ui).res = "ok" THEN status' = "SUCCESS" /\ main' = TRUE /\ FormGone
                            ELSE status' = "NONE" /\ OnCancelLogin /\ UNCHANGED main
  /\ ui' = Tail(ui)
  /\ UNCHANGED <<active, link, stop, refused, restart, delayed, logouts>>

\* The main form takes the place of the login form.  The form's callbacks are
\* weak: once it is gone they do nothing.
LoginDone ==
  /\ UILogin(FALSE, Results) /\ status # "CANCEL"
  /\ IF Head(ui).res = "ok"
       THEN status' = "SUCCESS" /\ main' = (form \/ main) /\ FormGone
       ELSE status' = "NONE" /\ OnCancelLogin /\ UNCHANGED main
  /\ ui' = Tail(ui)
  /\ UNCHANGED <<active, link, stop, refused, restart, delayed, logouts>>

MenuTask ==
  /\ Runs("DoLogout")
  /\ DoLogout(status, FALSE, Tail(ui))
  /\ UNCHANGED <<active, error, refused, restart, over, browser, session, logins, beside, used>>

\* DoLogout(true, kNIMLogoutKickout): the program restarts, but not when there
\* was nothing to log out of.
OnKickoutCallback ==
  /\ Runs("OnKickout")
  /\ DoLogout(status, TRUE, Tail(ui))
  /\ restart' = (restart \/ status \notin {"EXIT", "NONE"})
  /\ UNCHANGED <<active, error, refused, over, browser, session, logins, beside, used>>

OnLogoutCallback ==
  /\ Runs("OnLogout")
  /\ UILogoutCallback(status, Tail(ui))
  /\ UNCHANGED <<active, error, main, link, stop, refused, restart, over, browser, sdk, beside, used>>

\* SetLinkActive(FALSE) puts the link form back on its waiting page.
OnDisconnectCallback ==
  /\ Runs("OnDisconnect")
  /\ active' = FALSE
  /\ link' = IF link = "none" THEN "none" ELSE "ing"
  /\ ui' = Tail(ui)
  /\ UNCHANGED <<status, error, screen, main, stop, refused, leaving, browser, sdk, beside, used>>

\* The task PostQuitMessage posts to look for browsers again.
QuitAgain ==
  /\ ~over /\ delayed > 0
  /\ IF browser THEN UNCHANGED <<ui, delayed>>
                ELSE ui' = Append(ui, Task("Quit")) /\ delayed' = delayed - 1
  /\ UNCHANGED <<program, windows, restart, over, browser, sdk, beside, used>>

Quit ==
  /\ Runs("Quit")
  /\ over' = TRUE /\ ui' = Tail(ui)
  /\ UNCHANGED <<program, windows, restart, delayed, browser, sdk, beside, used>>

UiThread ==
  \/ OnLoginCallback \/ Reconnected \/ NotReconnected \/ ReloginDenied
  \/ LoginCancelled \/ LoginDone \/ MenuTask
  \/ OnKickoutCallback \/ OnLogoutCallback \/ OnDisconnectCallback \/ Quit

Next ==
  \/ OnLogin \/ SettingsCome \/ ClickCancel \/ CloseLoginForm
  \/ TypeName \/ ClickRegister \/ ClickEnterLogin \/ DoRegisterAccount \/ Registered
  \/ MenuLogout
  \/ ClickRelink \/ ClickOffline \/ LinkFormCloses
  \/ BrowserOpens \/ BrowserCloses
  \/ \E res \in Results : SdkLogin(res)
  \/ \E res \in Results, retrying \in BOOLEAN : SdkRelogin(res, retrying)
  \/ LinkDrops \/ Kicks \/ SdkLogout
  \/ UiThread \/ QuitAgain

Spec == Init /\ [][Next]_vars

\* The UI thread runs what is posted to it, a browser whose window is
\* destroyed closes, and the SDK answers logins and logouts.  Nothing makes
\* the user act, the link drop or come back, or another device log in.
Fairness ==
  /\ WF_vars(UiThread) /\ WF_vars(QuitAgain)
  /\ WF_vars(stop /\ BrowserCloses)
  /\ WF_vars(\E res \in Results : SdkLogin(res))
  /\ WF_vars(SdkLogout)

FairSpec == Spec /\ Fairness

-----------------------------------------------------------------------------
(* Properties.                                                             *)

\* Every variable has its type.
TypeOK ==
  /\ status \in Statuses /\ active \in BOOLEAN /\ error \in Results
  /\ buttons \subseteq {"login", "cancel"} /\ page \in {"login", "register"}
  /\ settings \in Nat /\ used.logins + settings <= MaxLogins
  /\ link \in {"none", "ing", "tip", "success"}
  /\ {form, canCancel, registering, main, stop, refused, restart, browser, over, beside}
       \subseteq BOOLEAN
  /\ ui \in Seq(Tasks)
  /\ {delayed, logins, logouts} \subseteq Nat
  /\ session \in {"out", "in", "down", "lost"}
  /\ used \in [logins : 0 .. MaxLogins, drops : 0 .. MaxDrops, tries : 0 .. MaxTries]

\* The link has held since the program started.
SteadyLink == used.drops = 0

\* DoLogin is called in status NONE only, as it asserts (login_callback.cpp:84).
\* The code does not keep to it: while a login is under way, a second download
\* of private settings may come, and a change of page or of the user name
\* brings the login button back.
LoginAsserts == [][used'.logins # used.logins => status = "NONE"]_vars

\* On a link that holds, whatever brought the login button back meanwhile and
\* however often a login was started, the form offers to cancel in status LOGIN
\* only, as CacelLogin asserts (login_callback.cpp:212).  Without SteadyLink it
\* fails: the answer of a relogin, posted twice, is overtaken by the answer to
\* the log-out of a cancelled login and sets SUCCESS behind the form.
CancelAsserts ==
  SteadyLink /\ form /\ "cancel" \in buttons /\ canCancel => status = "LOGIN"

\* A login that was cancelled leaves nobody logged in: with the link holding,
\* and as long as no login was started beside another, status NONE behind the
\* form means that the session the SDK may have opened meanwhile is closed and
\* nothing is under way that could open one.
CancelledIsOut ==
  SteadyLink /\ ~beside /\ form /\ status = "NONE" =>
    session = "out" /\ logins = 0 /\ logouts = 0

\* The link form offers to reconnect only in the status ReLogin asserts
\* (login_callback.cpp:281).
RelinkAsserts ==
  ~over /\ link = "tip" => status = "NONE"

\* No window is asked for once the windows are destroyed for good: what
\* RegisterWindow asserts (windows_manager.cpp:22).
NoLateWindow == ~refused

\* With nothing left to run, the program thinks it is connected only if it is.
LinkIsKnown ==
  ui = <<>> /\ active /\ ~over => session \notin {"down", "lost"}

\* Once the cancel button is pressed the login button comes back, the main form
\* opens after all (for another login started beside), or the program ends, if
\* the link holds.  If it does not, the late answer of a relogin takes the
\* status CANCEL away, and the form waits for ever.
CancelEnds ==
  form /\ ~canCancel ~> ((form /\ canCancel) \/ main \/ over \/ ~SteadyLink)

\* Logging out ends the program, however many answers are still on their way
\* and whatever they make of the status.
ExitQuits == status = "EXIT" ~> over

\* Logging out takes the windows away for good: no answer that is still on its
\* way brings the main form, the login form or the link form back.
StopIsFinal == [][stop => /\ stop'
                          /\ main' = FALSE /\ link' = "none" /\ form' = FALSE]_vars
=============================================================================
