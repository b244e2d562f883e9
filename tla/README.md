# Verification of the call kit of CallKit_PC_Demo

The repository is a Windows chat client. What it is a demo of, and what carries its own logic, is
the call kit under `src/tool_kits/ui_component/g2_kit`: one-to-one audio and video calls over the
NIM signaling service and the NERTC engine. These modules model the path of a call through the
client, at both ends, with the signaling service between them; and, below and around it, what every
call rests on: the message loops and threads of the client (`src/tool_kits/base`), the gateway
between the windows and the call component, the program's exit, and logging in and out. TLC checks
them on small instances and TLAPS proves the central safety results for every instance.

Paths below are relative to `src/tool_kits/ui_component/g2_kit` unless they start with `src/`.

## 1. Inventory

| Component | State | Operations | Talks to |
|---|---|---|---|
| Signaling service (NIM SDK, not in the repository) | channels, invitations, members | Create, Join, Invite, Accept, Reject, CancelInvite, Close, Leave, Control | answers and notifications on one SDK thread per client |
| `AvChatComponent` (`component/avchat_component.cpp`) | `status_`, `isMasterInvited`, `timeOutHurryUp`, the waiting timer, the channel infos (created, inviting, invited, joined), `version_`, `channelName_`, `stoken_` | call, accept, reject, hangup, cancel, leave; seven answer callbacks; ten notification handlers; the timer | signaling, engine, token server, bills, events upwards |
| `AvChatBusinessWrapper` (`component/wrapper/`) | the one component | unpacks requests, packs events; announces onCalling itself | gateway |
| `BusinessActionGateway` (`src/tool_kits/shared/business_action_gateway`) | two thread queues, response table, subscriptions | Request, Response, Notify, SubNotify | every caller of the component |
| `VideoManagerG2` (`module/video_manager_g2.cpp`) | `video_form_`, `is_sender_`, device choices | ShowVideoChatForm, AcceptInvite, one handler per event, QueryToken | gateway, window |
| `VideoFormG2` (`gui/video_form_g2.cpp`) | page, status, `end_call_`, `session_id_` | buttons, EnterEndCallPage, ShowStatusPage, SwitchStatus | gateway |
| Bills (`src/tool_kits/ui_component/ui_kit/util/net_call_helper.cpp`) | none | SendNetCallMsg | session |
| Message loops (`src/tool_kits/base/framework`: `message_loop.cpp`, `default_message_pump.cpp`, `win_ui_message_pump.cpp`) | incoming, work, delayed and deferred queue, run states; the pump's event, or flag, messages and timer | PostTask and its family, DoWork, DoDelayedWork, DoIdleWork, Run, Quit, QuitNow, destruction | whoever posts; Windows |
| Threads (`src/tool_kits/base/thread`, `framework_thread.cpp`, `src/nim_win_demo/nim_app.cpp`) | the map of threads, each thread's loop and proxy | start, stop, PostTask by thread number | each other |
| Preview and exit (`gui/video_setting_g2.cpp`, `InitManager::CleanupUiKit`, `NimAPP::ExitInstance`) | the painting timer, the settings window, the event the exit waits for | start and stop of the preview, pages, release, clean-up | gateway |
| Login (`src/tool_kits/ui_component/ui_kit/callback/login`, `gui/link`, `util/windows_manager.cpp`, `src/nim_win_demo/gui/login`, main form) | status, link state, the windows, the login form's buttons, page and downloads, `stop_register_`, browsers, quit tasks | log in, cancel, register, change of page and name, relogin, kick-out, log off, quit | client SDK, UI thread |

The rest of the client (sessions, services, whiteboard, file transfer, the earlier call kit,
databases, HTTP, tools, installers, vendored code) is listed in `PROJECT.json` with its status.

How a call runs. A session window asks the manager for a call window; the window posts a `call`
request through the gateway to the working thread; the component creates a channel and, answer by
answer on the SDK thread, joins it and invites the peer. There `handleInvited` raises `onInvited`,
the gateway's notify thread carries it to the UI thread and a window rings. Accepting goes back
the same way; the service joins the callee and tells the caller; both ask for a token, wait for it
**in a loop on the SDK thread**, and join the RTC room. The room is named by `channelName_` if both
sides are 1.1.0 or later, by the channel id otherwise, in which case the callee waits for a control
message. The call ends by hangup, refusal, busy, timeout, or an answer on another device; whoever
knows that a call was not answered writes a *bill* into the session.

What makes it hard: five threads (UI, working, notify, SDK, HTTP) and no lock around the
component's fields; events that carry no call id; state of one call (`version_`, `channelName_`,
`timeOutHurryUp`, `isMasterInvited`, `invitedInfo_`) that outlives it; a timer never cancelled by
the end of a call; two protocol versions; two users who act on the same channel at once. All the
places where this bites are under `hazards` in `PROJECT.json`, each with its line and the
properties that watch it.

What makes each part correct. *Component*: its engine is only in rooms of its user's own calls,
`inCall` means answered, the SDK thread returns from the loops. *Two components and the service*:
the ends meet in one room, no engine enters the room of an unanswered call, an unanswered call is
billed once. *Windows*: each dialling or ringing window gets an outcome, an end reaches the other
end, no window is left without a call. *Gateway*: requests in order, no callback twice, release
before exit. *Message loop*: each task once, in order, not before its time, never inside another
unless allowed; no sleep on work. *Threads*: nobody posts to what is gone, nothing handed on is
lost, the program ends. *Login*: the form offers to cancel only what can be cancelled, a cancelled
login leaves nobody logged in, logging out is final.

## 2. Modules

`Signaling.tla` is the assumption about the service, read off how `avchat_component.cpp` calls it.
A request takes effect in one atomic step; its answer and the notifications for others wait in one
FIFO inbox per client. So requests and notifications cross freely. An illegal request is refused;
a legal one may fail `MaxFaults` times. With `JoinFirst`, an accept may be announced to the caller
as Join before Accept. `OtherDeviceAnswers` is a second device of the invited account.

`AvChat.tla` is the component: one action per operation, per answer, per notification, plus the
timer (`CallingTimeout`), the token answer (`GetToken`) and the engine's `onUserLeft`. A handler is
one action from entry to return, except at the token loops, where it is cut in two
(`handleAccepted`/`AcceptedJoins`, `AcceptSucceeds`/`AcceptJoins`, `handleControl`/`ControlJoins`):
while `waiting[c]` is not `Free` the SDK thread delivers nothing, everything else goes on. `Spec`
puts *any* application above it: every operation at any time. The variables are named after the
fields (`created`, `inviting`, `invited` keep the channel of the info structures; `ver` is
`versionCompare(version_, "1.1.0") >= 0`; `name` is the channel `channelName_` was made from). `bills[NoChan]`
collects bills sent before a channel existed.

`CallKit.tla` composes: per client a window `form`, the live window it replaced (`ghost`:
`ShowVideoChatForm` gives the old one up without closing it), the request queue, and the event
queue of `AvChat`. Each button, each request on the working thread and each event handler of
`VideoManagerG2` is an action. The callback of `AcceptInvite` runs inside the SDK handler, as in
the code.

`TaskQueue.tla` is the abstract promise of a message loop: a set of tasks, a clock and nested runs,
no queue, no pump, no wake-up. `MessageLoop.tla` is `MessageLoop`: the four queues, the run states,
and as operators what a pump may ask for (`DoWork`, `DoDelayedWork` and `DoIdleWork`, cut into their
cases: a task is deferred, delayed, run, or there is none). Two modules extend it with a pump:

- `DefaultPump.tla` (worker threads): `at[depth]` is where `DefaultMessagePump::Run` is, `event` its
  auto-reset event, `wake` is `delayed_work_time_`. A post is cut in two, the push under the lock
  (`Post`) and the ring outside it (`ScheduleWork`), since the pump may look in between. Tasks may
  post, enter nested runs, quit them, allow nested tasks; `Destroy` is the loop's destructor.
- `UiPump.tla` (UI thread): `haveWork` is the flag, `msgs` the thread's message queue, `timer` the
  `WM_TIMER` of `SetTimer`, `at` where the thread is in `DoRunLoop`, `modal` a loop of the system
  (menu, dragging, dialog) that a window or a task has opened, `call` what such a loop is calling in
  the pump, `outer` the loop in which a task opened one of its own. Another thread's `ScheduleWork` is
  cut between the exchange of the flag (`SwapFlag`) and `PostMessage` (`SendFlag`). A message *sent* by
  another thread is handled inside `PeekMessage` and then makes the loop look again (`TakesSent`). A
  sleep has two stages: the timed wait (`at = "asleep"`), and, when mouse input of a window of another
  thread has ended it, `WaitMessage` (`AttachedMouse`, `at = "waiting"`), which has no time-out and
  returns only for what comes from then on. The system's own message queue is external: what
  `PeekMessage` finds next is `Waiting`.

  Bounds of this module: messages are sent only to a thread that looks for one in
  `ProcessNextWindowsMessage` or sleeps, not at every other call that would take them; a window of the
  program that a system loop dispatches to does nothing; a task opens a loop inside a window's, but not
  a third inside its own.

Both are shown to implement `TaskQueue` (`Implements`: the set of tasks is the union of the queues).

`Threads.tla` is the program from start to exit: the main thread starts and stops the workers one by
one; thread functions go through start, loop, end of loop, unregistering, deletion of the pending
tasks, end; `FindThread`, `ReadLoop`, `ReadProxy` and `PostTask` are the four steps of
`ThreadManager::PostTask`, which hold no lock between them. A loop is a plain queue here: what
`DefaultPump` and `UiPump` establish. Each worker posts to a thread stopped later
(`Downstream`) or earlier.

`Requests.tla` is the abstract promise of the gateway: each request is handled once, in the order of
sending; an answer calls at most one callback, and no callback is called twice. Whose callback an answer
calls it does not promise, because the code does not keep it. `Gateway.tla` is the gateway: filing a
request in the table and posting it are two steps of the asking thread (`File`, `Post`), then `Dispatch`
and `Respond` on the working thread. What asks is the camera preview (`StartVideoPreview` and its callback, `Stop`, pages,
a call that begins) and the exit, which files `release` and waits for its answer
(`CleanupUiKit`), then cleans up the SDKs and stops the working and the notify thread in the code's
order. The numbers are the code's: only the settings window's request for a canvas is made as a
`BatpPackPostRequest` and takes a number from the counter; all others, `release` among them, are plain
`BatpPack`s, whose `sn_` nobody sets (batp.h:54-59). They carry any member of `Garbage`, what the memory
held: the number of each other, or one the counter gives out.

`Login.tla` is the client's session as the UI thread sees it. `ui` is the UI thread's queue. The SDK
posts its callbacks to that thread (`nim_app.cpp:129`), and `OnReLoginCallback` posts the answer a
second time: a login's answer takes two hops, and what the SDK says next overtakes it. The login form
is modelled with what decides when its two buttons are there: `buttons` and `canCancel`, the `page`, a
registration under way, and the downloads of private settings (`settings`) that `OnLogin` waits for with
the login button still visible. `OnCancelLogin` brings the login button back without a look at the status;
it is called by a failed or cancelled login, and also by every change of the user name, typed (`TypeName`)
or set by the form itself when it changes its page (`NameSet` in `ClickRegister` and `ClickEnterLogin`).
`OnSwitchToLoginPage` shows the button too (`ClickEnterLogin`, `Registered`). So a login may start beside
another: `StartLogin` then runs in another status than the one `DoLogin` asserts, as in a build without
asserts; `beside`, which is not in the code, remembers it. The other windows are there or not; `stop` is `stop_register_`; `browser` and `delayed` are the wait of
`CefManager::PostQuitMessage`. The SDK is external: a session that logs in, loses its link, gets it
back or not, is kicked out, logs out.

`AvChatProofs`, `CallKitProofs`, `DefaultPumpProofs`, `UiPumpProofs`, `ThreadsProofs`, `GatewayProofs`
and `LoginProofs` hold the theorems about the modules they are named after; `MessageLoopProofs` holds
what the proofs of both pumps share. `MCAvChat.tla` and `MCCallKit.tla` give the
constants their values. The section *Faulty variants* of `AvChat.tla` (and `EndRequestIfOwn` in
`CallKit.tla`) holds slips of the code, one per variant, on which each property is shown to fail;
in the other modules a variant stands before the definition it varies.

Choices a reader should know:

- A client in `Old` runs a version before 1.1.0. Such a client is not in the repository; the model
  takes its behaviour from the branches the present code keeps for such peers (it takes the old
  branch everywhere and sends no version and no room name).
- `joinChannel` of the engine is refused without a room name and while in a room. It is external.
- `nim::Client` posts its callbacks to the UI thread (`nim_app.cpp:129`), and `Login` has them there.
  The signaling callbacks come through the SDK's own wrapper, which is not in the repository; `AvChat`
  has them on a thread of the SDK.
- `UILoginCallback` asks after a success whether the login form is still valid
  (`login_callback.cpp:201-206`); the form is registered before a login can be asked for, so the
  answer is always yes and the branch is left out.
- A static `AvChatComponent` starts zeroed: what the constructor leaves out is zero.
- Events before the first window: the manager would use a null pointer; in the model the field
  write yields a record that is no `Form`, and `KitTypeOK` fails.

## 3. Runs

Twelve configurations. `CHECK_DEADLOCK` is off in all of them because each system may stop: calls are
over and no user acts, queues are empty and nobody posts, the program has ended.

| Run | What it instantiates | What it shows |
|---|---|---|
| `one_call` | 1 call, hasty users | one bill, no unanswered room, no dead window, no event without a window |
| `faults` | 1 call to an old peer, 1 failing request, other device | same room; a withdrawn call is billed |
| `outcome` | 1 call with fairness | every loop returns, windows resolve, ends spread, all comes to rest |
| `two_callees` | an old caller, a second call over a live first one, replaced window usable | everything a room is taken from is about a call of this user (`Provenance`), `inCall` means answered, and a callee is never sent into the other callee's room |
| `as_shipped` | `outcome` with the safe mode off | **violated**: the caller's SDK thread never returns |
| `pump` | a worker's loop, 2 tasks of every kind (nestable or not, delayed or not), 2 runs deep, with fairness | never asleep on work or past a due task, a quit drains, `TaskQueue` is implemented, each task runs |
| `ui_pump` | the UI loop, 2 tasks, one input message at a time, sent messages, system loops, one in another, input of other threads' windows, with fairness (165,462 states) | at most one wake-up message, none lost, system loops serve the tasks, `TaskQueue` is implemented, each task runs if `WaitMessage` always returns |
| `threads` | 2 workers and the UI thread, 4 posts, with fairness | posts to a thread that is stopped later touch nothing that is gone and are run; the program exits |
| `gateway` | 3 user actions, 1 incoming call, unset numbers that are 0 or 2 (2 is the first the counter gives out), with fairness (1,074,202 states) | `Requests` is implemented; the exit goes on only when the engine is released, unless the release carried a number that was given out; its wait ends unless the release was filed over; stopping leaves nothing and nobody posts to a dead thread |
| `stuck_exit` | 1 user action, unset numbers all 0, with fairness | **violated**: the exit waits for ever |
| `login` | 2 logins, 1 lost link, 2 attempts to reconnect, with fairness (1,484,623 states) | only a login under way can be cancelled, a cancelled login ends and leaves nobody logged in, logging out is final and ends the program |
| `double_login` | 2 logins on a link that holds | **violated**: a login starts while another is under way |

Two more configurations pass, in the time of a regular run: `Glare` (`MCCallKit`, both call each other: the two
ends never meet in different rooms; it does not check that an unanswered call is left) and `MCAvChat`
(`AvChat!Spec` with any application, one channel, another device and the joining told first: `Provenance` and
`InCallWasAnswered`, which are proved for every instance).

### Where the code and its comments part

Three runs are violated, each a finding of `PROJECT.json` that checks what a comment or an assertion of the
code says:

- `as_shipped` (`SdkThreadReturns`): with the safe mode off nobody ever stores a token, and the loop that
  waits for one keeps the caller's SDK thread (avchat_component.cpp:853, 878).
- `stuck_exit` (`CleanupReturns`): nim_app.cpp:215 has the UI kit cleaned up before the program ends. A
  request of a preview whose callback is still under way is filed under the number of the release, and the
  exit waits for ever for the answer (batp.h:54-59).
- `double_login` (`LoginAsserts`): `DoLogin` asserts status NONE (login_callback.cpp:84). The link to the register
  page, the link back, a change of the name, or a second click while private settings are downloaded
  starts a login while another is under way.

Beside them stand configurations that are not part of the regular runs. Each checks one
sentence of the repository, and TLC finds it violated within a minute (`tlc -config X.cfg M`):

| Configuration | Module | Property | What is said, and what happens |
|---|---|---|---|
| `WrongMember` | `MCCallKit` | `RightMember` | a hasty user dials b, then z; b enters the window of z (`assert`, video_manager_g2.cpp:620) |
| `BusyRoom` | `MCCallKit` | `OnlyAnsweredRooms` | z calls b while b rings for a; b, answering a, joins the room of z |
| `LostBill` | `MCCallKit` | `WithdrawnCallBilled` | 2 calls in a row: a stale timeout mark suppresses the second call's bill |
| `TwoBills` | `MCCallKit` | `OneBill` | both call each other: one call, two bills |
| `NativeTimers` | `UiPump` | `TimersInNativeLoops` | win_ui_message_pump.cpp:53-55 has timers work in system loops by `SetTimer`; message_loop.cpp:299 compares with a copy that was never numbered, so only the first delayed task sets one |
| `Oversleep` | `UiPump` | `WaitsUntilTimer` | win_ui_message_pump.cpp:195 has the thread wait "up to the time needed by the timer manager"; `WaitMessage` (line 224) knows no time, and a `WM_TIMER` that became due before is not new to it |
| `FullQueue` | `UiPump` | `PostWakes` | win_ui_message_pump.cpp:38 has the message wake a sleeping pump; when the queue is full it is not posted, the flag stays up, and no later post tries again |
| `UpstreamPost` | `Threads` | `SoundForAll` | message_loop.h:105 and 126 call posting thread-safe; a post to a thread that is stopped first reads a thread object or loop that is gone (thread_manager.cpp:108-117) |
| `PreviewInCall` | `Gateway` | `NoPreviewInCall` | video_setting_g2.cpp:94: no preview in a call; an incoming call meets the opening of the preview, and it stays on |
| `RelinkTwice` | `Login` | `RelinkAsserts` | the relogin button can be pressed while a relogin is under way (`assert`, login_callback.cpp:281) |
| `LateWindow` | `Login` | `NoLateWindow` | a failed relogin is answered after the log-off and asks for the link form (`assert`, windows_manager.cpp:22) |
| `StaleLink` | `Login` | `LinkIsKnown` | login_manager.h:89: connected or not; a lost link overtakes the success before it, and the program thinks it is connected |

Several properties hold in one situation and fail in another, and the pair is the result: `OneBill`
holds for calls in one direction and fails in glare; `OnlyAnsweredRooms` holds without a third party
and fails with one; `WithdrawnCallBilled` holds for the first call and fails for the second;
`SdkThreadReturns` holds in safe mode only; posts down the order of stopping are sound, posts up are
not; the exit's wait ends unless its request is filed over (`ReturnsOrOverwritten`, `CleanupReturns`); each
task of the UI thread runs, but a delayed one late (`EveryTaskRuns`, `WaitsUntilTimer`). `CancelAsserts`,
`CancelledIsOut` and `CancelEnds` hold while the link holds (`SteadyLink`): without that clause TLC has the
late success of a relogin overtaken by the answer to the log-out of a cancelled login, which sets SUCCESS
behind the login form, or takes CANCEL away so that the form waits for ever. `CancelledIsOut` also needs
that `DoLogin`'s own assert was kept (`~beside`): of two logins beside each other the first may fail, and
shows status NONE while the second is under way. `CancelAsserts` does not need it.

Two limits of what the runs say of the UI thread. `NoLostWakeup` says of `WaitMessage` only that a task has
its message in the queue: a message that was there before does not end that wait, and how long it lasts is up
to the next input, hence the premise of `EveryTaskRuns`. And a system loop that was opened in place of the
announcement serves the tasks (`NativeLoopServed`) except in one case: a delayed task that `WM_TIMER` runs in
that loop opens a loop of its own. That inner loop's `kMsgHaveWork` finds nesting forbidden and is not sent
again, so tasks posted meanwhile may wait until the outer loop ends. `Threads` has immediate tasks only:
`HandedOnIsDone` says nothing of delayed ones, which the code drops when a thread stops; and a task that waits
for another thread, which could keep `Exits` from holding, cannot be expressed there. `TaskQueue` does not
know `nestable_tasks_allowed_`: it fixes order and nesting of the tasks started, not when a task
allows others inside it.

Seen while modelling, and not claimed by any run: with a failing join `DialingResolves` and
`NoDeadWindow` fail (the window dials until its user ends it); with hasty users `RingingStops` and
`EndsEverywhere` fail (a hangup before the channel exists cancels nothing and the call goes on
ringing the callee); `NoDeadWindow` and `CalleeEngineLeaves` fail with two calls or in glare
(`onCallEnd` or `onUserLeave` of the old call ends the new one); a caller whose hangup crosses the
answer stays in the RTC room, which is why `CalleeEngineLeaves` speaks of callees; overlapping
calls to the same callee break `OneBill`; and if the service announces the joining before the
acceptance, the caller, who does not know yet that the other side is new, sends a control message:
a callee that has joined and hung up before it comes is put back, by the channel's id, while the
caller is in the room of that name (`SameRoom` fails). With a side of the old version in the call
(`Old`) `CalleeEngineLeaves` fails even for users who are never hasty: the control message is on its
way when the callee hangs up, and `handleControl` (avchat_component.cpp:741), which does not ask
whether the call is still on, takes the engine into the room behind the ended window (found by TLC
with `Old = {b}`, `{a}` and `{a, b}`; the checked property is about two sides of the new version).

### Bounds

- `MaxCalls` (1 or 2): channels that can be created. Two calls are what it takes for the state of
  one to meet another. `call` is off when none is left, and `Dial` counts calls already requested.
- `MaxFaults` (0 or 1): one failing request, anywhere.
- `Dials`: who may call whom: one direction, both (glare), two callers of one callee, one caller
  of two callees.
- `Hasty`: when false, users act and the timer fires only when nothing of theirs is under way
  (`Settled`): the queues, answers and token loop of that client are empty. Messages from the other
  end still cross. When true they act at any time.
- `Overlap`: whether a user may dial over a live window; the code does not prevent it.
- `JoinFirst`, `MultiDevice`, `Old`, `SafeMode` choose the environment; the tables say where.
- `Small` (`MCAvChat`): at most three messages and one event under way; states with a bill are
  checked but not continued (no action reads bills). `Prompt` (two_callees): calls are answered
  before they time out, windows are not closed with the close box, replaced windows are not ended.
  Both are state constraints and cut the exploration, not the checks.
- `MaxTask`, `MaxTime`, `MaxDepth` (pumps): tasks posted, ticks of the clock (it starts at 1; 2 lets a
  task become due), nested runs. Two tasks show each pair that can be out of order, and for
  `DefaultPump` the theorems hold for any number. `MaxDepth` is 1 in `UiPump`: nothing in the program
  nests a run on the UI thread. `QueueSize` is the 10,000 messages of Windows: 3 in `ui_pump`, where
  the messages that can wait at once fit. `MaxInput`: other messages waiting at once.
- `N`, `MaxPosts` (threads): workers and posts. Two workers and the UI thread have every order of
  stopping: before, after, last.
- `MaxActs`, `MaxInvites`, `Garbage` (gateway): what the user does, incoming calls, what unset memory
  may hold. With `{0, 2}` unset numbers meet each other and meet the first number of the counter; the
  theorems hold for any set of naturals.
- `MaxLogins`, `MaxDrops`, `MaxTries`, `MaxTasks` (login): how often the user presses login, the link
  is lost, the SDK reports on reconnecting, and the length of the UI queue at which the environment
  pauses. Two logins can run beside each other, and one lost link with two reports lets the answers of one
  attempt meet the next; the theorems hold for any number.
- Symmetry: the two clients (`MCAvChat`, `Glare`, where both play the same part) and the two
  callees (`two_callees`). Only invariants are checked there.

### Fairness

`outcome` and `as_shipped` assume weak fairness, per client, of the working thread, of the UI
thread's event handling, of the SDK thread, of the timer, of the token server and of the engine's
callback. The first three are message loops that run until the program ends
(`src/tool_kits/base/framework/message_loop.cpp`); the timer is posted once and never cancelled by
the end of a call (`avchat_component.cpp:265-279`). That the token server answers is an assumption: `QueryToken`
drops errors, and without it `SdkThreadReturns` fails. Users are not assumed to do anything.
`outcome` has no client that is hasty: fairness of the timer then means that it fires when things
have settled, 45 seconds against the milliseconds of a request.

`pump` and `ui_pump`: weak fairness of the pump's thread, of the posting thread and of the clock (the
system schedules them), and strong fairness of the end of tasks, of window procedures and of system
loops: a task that enters a nested run is disabled while that run goes on, again and again, and ends
all the same. `AttachedMouse`, `TakesSent` and `Input` have no fairness: nothing makes input come, so that the
thread may stay in `WaitMessage`, and `EveryTaskRuns` of `UiPump` presumes that it does not
(`[]<>(at # "waiting")`). `EveryTaskRuns` says nothing of a task that never returns, and excepts runs
that were told to end. `threads`: every thread and every post under way is scheduled; the user may
never quit, and `Exits` starts when the UI loop ends. `gateway`: the UI, working and notify threads
and the exit are scheduled, also in `stuck_exit`. `login`: the UI thread runs what is posted to it, a browser whose window
is destroyed closes, the SDK answers log-ins and log-outs; the user, the link and other devices are
not forced to anything.

## 4. Proofs

### The component

`AvChatProofs.tla` proves, for every set of clients, number of channels, number of faults, every
mix of versions, in safe mode or not, with other devices or not, and under every application:

- `TypeCorrect`: `Spec => []TypeOK`;
- `ProvenanceHolds`: `Spec => []Provenance`;
- `EngineStaysInOwnCall`: `Spec => []EngineOnlyInOwnCall`: camera and microphone never go to a room
  of two other people;
- `InCallOnlyIfAnswered`: `Spec => []InCallWasAnswered`;
- `EngineOnlyAfterAnswer`: `Spec => []EngineAfterAnswer`: no engine is on before a call of its user was
  answered, and a room entered by a channel's id is that of an answered call;
- `FlowIsAgreed`: `Spec => [](\A c \in Clients : RoomFlow(c))` for one call (`MaxCalls <= 1`), if the
  service tells of an acceptance before it tells of the joining (`~JoinFirst`): who enters the room goes
  by its name if both sides run a new version, and by the channel's id otherwise.

Assumptions: `SignalingAssumption` (`NoClient` is no client, bounds are naturals) and
`AvChatAssumption` (`Old` is a set of clients, flags are Booleans), which TLC evaluates in each
run.

The argument. The engine's room is taken from three places: the message at hand, `channelName_`,
and the channel the SDK thread holds in a token loop. None is checked by the code against the
call at hand, so neither property is inductive by itself. `Provenance` says where each comes from:
an `Invite` is for its callee, an `Accept`, `createCb` and `joinCb` for the creator, an `acceptCb`
for the callee of an answered invitation, a control message for a party of an answered call; and
`channelName_` and the loop speak of calls of this user. It stays true because the service never
takes a creator, a callee or an accept back, and because the caller is alone in the channel until it is
answered: `handleJoin`, which sends the control message without a look at the call, cannot be told of a
joining before. The inductive invariant `Inv` is `TypeOK`, that a
channel is addressed once and its caller alone till then (`InOrder`), that messages are founded (`MessagesFounded`) and
that each client's own state is backed (`Backed`); `InvMeans` shows that this is the conjunction of
the four properties. The proof goes in two layers: every operation of `Signaling` is `Faithful`
(keeps types, takes no creator, callee or accept back, adds only founded messages), then every
action of `AvChat` is shown to keep the invariant from that one fact about its service call and
what it does to its own variables.

`FlowIsAgreed` needs a second invariant beside `Inv`, `FlowInv` (TLC had checked it as an invariant of
`Spec` with one channel, either version of the callee and a fault, to a bounded depth). What decides the
flow is `version_`, which each side learns from the other's message and which says nothing by itself
before: so `FlowInv` says when it can be relied on. `Knows(c)` is that the caller has the callee's
version, and `Ordered(c)` that until then no joining is next in its inbox without the acceptance before
it: `handleJoin`, the only place that sends the control message, finds it known. `MessagesGood`
says that a control message is only on its way if one side is old, and that while the set-up (create,
join, invite) goes on nobody is invited yet; `Once` that it goes on in one message at a time, without
which a second invitation could readdress the channel. With two calls the component alone does not
keep it: a `call()` while the SDK thread spins for the token of the last one resets `version_` and
`channelName_`, and the caller takes the old flow (TLC, under `Spec`, in 12 steps; in 15 the two engines
are in different rooms). With the joining first the caller answers a joining before it knows. So both
hypotheses are needed by the code, not by the proof.

### The call kit

`CallKitProofs.tla`, for any clients, channels, faults, versions and users, however hasty:

- `CallKitIsApplication`: `KitSpec => Spec`: windows, manager and queues only use the component as
  `AvChat` lets an application use it. The theorems above therefore hold of the whole call path;
- `KitTypeCorrect`: `KitSpec => []KitTypeOK`. Its part beyond types is that the manager has a window
  (`video_form_`, which its handlers use without a look) before any event of the component but the
  first invitation, and before any answer to an accept;
- `KitEngineStaysInOwnCall`: `KitSpec => []EngineOnlyInOwnCall`;
- `OneCallOnlyAnsweredRooms`: `KitSpec => []OnlyAnsweredRooms` if there is but one call
  (`MaxCalls <= 1`). With two it fails (`BusyRoom.cfg`): the engine then goes by the name of the other one;
- `OneCallSameRoom`: `KitSpec => []SameRoom` if there is but one call and `~JoinFirst`, from
  `FlowIsAgreed`: `Faults.cfg` shows it for one old callee and one fault, the theorem for all versions,
  faults, bystanders and other devices. For calls in glare `SameRoom` is only model-checked
  (`Glare.cfg`).
- `OneCallOneBill`: `KitSpec => []OneBill` if there is but one call, nobody who is called calls
  (`Directed`), and the clients are finitely many. `OneCall.cfg` shows it for two; `TwoBills.cfg` shows
  why the second hypothesis is needed of the code as soon as both may call.
- `OneCallTakenBackBilled`: `KitSpec => []WithdrawnCallBilled` under the same hypotheses if, besides,
  users and timer wait for what is under way (`~Hasty`). `LostBill.cfg` shows why it must be one call;
  without `~Hasty` the timer can fire before the component knows its channel, and then
  bills nothing and keeps the hangup from billing.
- `OneCallNoDeadWindow`: `KitSpec => []NoDeadWindow` under the hypotheses of `OneCallOneBill` if, besides,
  the service fails nothing (`MaxFaults = 0`); users may be hasty. After one failed joining the
  window does stay and the component is idle.
- `OneCallCalleeEngineLeaves`: `KitSpec => []CalleeEngineLeaves` under the hypotheses of `OneCallOneBill` if,
  besides, users wait for what they asked (`~Hasty`), the service tells of the acceptance before the joining
  (`~JoinFirst`) and nobody runs the old version (`Old = {}`; section 3 says how it fails with one).
  `Outcome.cfg` shows it for two clients and no faults; the theorem has any number of faults, bystanders and
  other devices that answer first.

The invariant `KitInv` adds to `Inv`: the types of the windows and requests; nobody calls himself
(`NoSelfCall`: `Spec` requires it of `call`, the constant `Dials` is assumed
to leave it out); who is invited is invited by somebody
(`Inviters`); and `Windowless`: a client without a window has asked for nothing and waits for no
answer to an accept, and either is still untouched (it is in no channel, and the first thing the
service can have to say to it is an invitation) or the invitation is the first of its events. It is not enough to
look at the events: the invitation must be first already in the service's queue, hence the clause
about channels. The proof says for each operation of `Signaling` what it leaves of this for a client
that did not take part, then goes through the actions of `CallKit`.

`OneCallOneBill` has an invariant of its own, `BillInv`. Four places write a bill: the waiting timer, a
hangup, the "reject" that the window requests on hearing of a refusal, and the busy answer of who is
called. No variable says that a bill was written; the second is kept from being written only by
the order in which the caller's threads learn of what happened. So the invariant follows a refusal on
its way: one answer at a time leads to the next request and a refusal is behind them all in the
inbox (`Chained`), once taken in the component does not call again (`Over`), the window hears of it once
and requests "reject" at most once (`Refused`), and that request finds nothing to bill if the window had
ended before or is told of a timeout first (`Deaf`, `TimedOutFirst`). `Billed` is what remains: no bill yet, or one
and a caller that writes no other (`NoMore`). `Outgoing`, `Incoming` and `Sides` say who is on which
side, which `Directed` gives: without it a caller may be invited while it calls, and the two sides' bills
are of one channel. Each operation of `Signaling` is reduced to what it adds to an inbox that has weight for
the bills (`Weighty`, at most one message; lemmas `Grows...`, `Comes...`), and each action of `CallKit` to
what it does to its client's part (`TurnFacts` and the lemmas after it).

`OneCallTakenBackBilled` rests on `BillInv` and on an invariant of its own, `TakenBackInv`. The only code that
cancels an invitation is the hangup of a caller, and it bills unless the waiting timer has fired (`hurry`,
the code's `timeOutHurryUp`): the mark must therefore be known to come with a bill. Once
there is a call (`Placed`), the caller knows the channel as soon as it is joined or the callee invited and
forgets it only by giving the call up; so a mark comes with a bill, or nothing has been set up and nothing
will be. Before there is a call (`Prior`) an attempt whose channel was refused by the service leaves the
window dialling: nobody has heard of the client (`Unreached`); the timer's mark is taken back by the hangup
that the window asks for (`Marked`); the component cannot get stuck with a window that has ended
(`Failing`); and the next call begins without the mark (`Afresh`). The last part of the invariant
says more than the property: whenever an invitation is cancelled, not only at rest, its bill exists.

`OneCallNoDeadWindow` also rests on `BillInv`, and on `AwakeInv`. A component falls idle in two ways. It is told
that the call is over, and then tells its window in the same step (`Final`); or it is answered:
to its own close, refusal or leaving, or to a joining that was refused (`Grave`). Only the second kind could leave
a window behind. So `Awake` says of each client that no such answer is on its way unless the window
has ended or an event that ends it waits (`Ending`), because a hangup or refusal is only asked for by a window
that ended, and a joining is only refused when the channel was closed before an answer, which takes its
creator and therefore, again, an ended window. For this nothing may replace a window: an invitation
finds none (`InvitationFirst`), and the window that dials asks for its call before anything else as long as
the channel is there to be taken (`CallFirst`), so that no second one opens. A window may be there while its
component is idle, but then the call it wants is still in the queue. At rest none of these is left.

`OneCallCalleeEngineLeaves` rests on `BillInv`, on `FlowInv` (above: both sides take the new flow) and
on `VisitInv`. The engine of who accepts enters its room late: the answer must come back, and then the token.
If the window ended meanwhile, either its hangup would come before there is a room to leave, or, when another
device had answered, no hangup would come at all; the engine would then be left. `Visit` says that nothing ends
the window in between. A call can be lost only after it was decided (`Undecided`): who is called becomes a
member by answering (`Member`), only members are told of a close or a leaving, and a cancelled invitation
is decided. The service decides once and answers an accept before it tells of anything the call is lost by
(`AnswerFirst`, hence `Entering`); where another device has decided the accept fails and the engine is in no
room (`NotHere`). There is one accept: the button goes with its page, and the next one finds neither a request nor
an answer (`OneAccept`). In the room, a window that ends asks for a hangup, which is in the queue until the
engine has left (`Entered`). Nothing of this speaks of the caller, whose engine may stay behind. The
proof first says for each operation of `Signaling` what it leaves in the inbox of who is called (`Posted`, `Served`, `MailKept`), then sorts the steps of
`CallKit`: those that leave window and engine alone or only end something (`Passes`), the window's own (`Asking`),
and the four of the accept.

### The message loop

`MessageLoopProofs.tla` has what holds under either pump: that no step of the loop puts its queues out
of order (`QueuesInOrder`: they keep the order of posting, no task is in two of them, and what was
taken out of the work queue is older than what is still in it) or puts into them what does not belong
there (`QueuesHold`), and that each step of the loop is a step of `TaskQueue` or a stutter: starting the
first of a queue is starting the first of the set, because of that order.

`DefaultPumpProofs.tla`, for any number of tasks, depth of nesting and length of the clock (assumption
`LoopAssumption`: the bounds are positive naturals):

- `NeverSleepsOnWork`, `NeverOversleeps`: `NoLostWakeup` and `NoOversleep`;
- `QuitRunsWhatIsPending`: `Spec => QuitDrains`;
- `Refinement`: `Spec => Implements`, every step of loop and pump is a step of `TaskQueue` or a
  stutter; `TypeCorrect`.

None is inductive alone. The invariant says, beside the order and contents of the queues, that only
the innermost run is outside a task (`RunsNest`); that once the pump has looked and done nothing, all
that came in since has its ring or is about to ring (`NothingMissed`); and that the time to sleep
until covers each delayed task (`WakeInTime`). The last two are what the order of look, ring and wait
in the code is for.

`UiPumpProofs.tla`, for any number of tasks, length of the clock and number of window messages:

- `TypeCorrect`, and `Refinement`: `Spec => Implements`. They need no more than who has the thread
  (`Where`, with `OwnModal` and `OwnCall`: `DoRunLoop`, the window procedure, a task, or a system loop inside
  a task or a message, and which of them waits for the inner one) and that this pump never nests tasks (`Plain`: nesting is forbidden exactly while a task runs, so nothing
  is ever deferred), with the order and contents of the queues;
- `OneAnnouncement` (`OneMessage`), `NeverSleepsOnWork` (`NoLostWakeup`) and `ServesNativeLoops`
  (`NativeLoopServed`), under the hypothesis `Roomy`: the other messages cannot fill the window's queue
  (`MaxInput < QueueSize`). The hypothesis is not a convenience. `PostMessage` fails on a full queue and
  the code goes on as if it had not, which `FullQueue.cfg` shows on a queue of one; `UiPump.cfg` satisfies
  `Roomy`, and so does Windows with its 10,000 places as long as the thread keeps up. The invariant is
  that there is a place for the announcement whenever none is queued (`Room`), that what came in since
  `DoWork` found nothing is announced or about to be (`NothingMissed`), and that after a message was
  taken in place of the announcement the tasks keep one (`Served`). `NothingMissed` goes on in `WaitMessage`, where the
  announcement is all there is: that the thread wakes for it is not claimed, and `Oversleep.cfg` shows why it
  could not be.

### Threads

`ThreadsProofs.tla`, for any number of workers and posts: `PostingDownstreamIsSound`
(`SoundDownstream`), `PostedDownstreamIsDone` (`HandedOnIsDone`), `TypeCorrect`. The argument is the
order of `MainThread`: a loop ends only if told (`PastIsQuit`, `QuitIsTold`), it is told only when all
that are stopped before it have ended (`EndedEnded`), and those are the ones that post to it; so a
thread somebody upstream has found is still running (`HeldRuns`), and a loop that has ended holds
nothing from upstream (`NothingLeft`).

### Gateway and exit

`GatewayProofs.tla`, for any bounds and contents of unset memory: `NobodyPostsToTheDead`
(`NoDeadThread`), `StoppingDrains` (`StopDrains`), `TypeCorrect`, `WaitsForTheRelease` (`ReleasedFirst`) and
`Refinement` (`Spec => Implements`). The invariant follows the phases of the exit (`Exit`), that
there is one request for the release (`OneRelease`), and that a thread has nothing to do when it
ends (`Undone`).

`WaitsForTheRelease` is about an event that is signalled by whatever answer finds the release's callback
under its number. Only two kinds of request are answered: the release itself and the canvas of the settings
window, whose number the counter gave out. So the invariant says that every entry of the table stands under its own
request's number and that a canvas carries a number given out (`Numbers`), and that an answer to the release
finds the engine gone (`Released`): whoever else's answer calls the release's callback shares its number,
which then was given out, and that is the exception the property names. Nothing is assumed about the numbers.

`Refinement`: `Requests` numbers what is asked in the order in which it is sent, the code in the order
in which it is filed; the mapping (`RequestIds`) takes the sent and unhandled requests in the order of
the queue. It is a recursive function over that sequence. What it yields for the queue's tail
and for the queue with one request more is an induction over lengths, made as a proof by least
counterexample: the set of lengths at which the claim fails has no least member. The invariant adds
that each request filed or queued is there once and knows who sent it (`Named`) and that a callback
in the table was not called before and stands there once (`Once`): an entry is taken out with its call, so that a
number used twice loses a callback but never calls one twice. `CleanupReturns` and `ReturnsOrOverwritten`
are liveness and left to TLC.

### Login

`LoginProofs.tla`, for any bounds: `LogoutIsFinal` (`StopIsFinal`) and `TypeCorrect`. The invariant
adds that once windows are stopped none is there (`StopIsBare`); every late answer that would show one
is then shown to go through `RegisterWindow`, which refuses.

`CancelLogsOut` (`CancelledIsOut`) and `CancelAssertsHold` (`CancelAsserts`) follow from a second invariant,
`FormInv` (`FormInvariance`). While the link holds, the cancel button is enabled only in status LOGIN, whatever
brought the login button back (`Steady`): pressing it disables it, and every path that enables it again
hides it as well. And as long as no login was started beside another, the status tells what is under way for the
form (`FormFollows`): nothing in status NONE; in LOGIN and CANCEL one thing at a time, the SDK's answer, that
answer in the queue on its first or second hop, the log-out of a cancelled login, or its answer. Nothing is assumed of the form beyond the code: that a
second login does start is `double_login`.

### What is left to TLC

Every invariant of a passing run is stated by a theorem. `OneBill`, `WithdrawnCallBilled`, `NoDeadWindow`,
`CalleeEngineLeaves` and `SameRoom` beyond the hypotheses of their theorems (more calls, calls in glare) are about
`CallKit` and hold in the situations named above, not always: section 3 says where each one fails. Liveness is TLC's alone, since the prover reasons neither about fairness nor about `ENABLED`.

## 5. Not modelled

Audio calls and the switch from video to audio (`switchCallType`, control cid 2); devices, canvases,
painting and ringing; the destruction of an ended window after 3 or 6 seconds and events after it;
invitations kept for an offline client; group invitations (always refused); engine errors and
`onUserDisconnect`; crash and restart (nothing of a call is persisted); the data races themselves
(a handler is one step except at the token loops). In the gateway: cancelling a subscription, several
subscribers of one action, malformed packages. In the preview: devices, volumes, frames, and the
memory of a window that is closed while its callback runs. In the loops: the pump for I/O completion
(no thread of this program uses it), observers of tasks, weak callbacks, the system's own message
queue (external), and the bounds of `UiPump.tla` named in section 2. In login: log-in on several devices
at once, account folders, what a registration sends (that it brings the login page back is modelled), the
button of the anonymous chat room, which calls `OnSwitchToLoginPage` too, and the texts the form shows, those of
a cancelled second login among them.

The repository counts some 260,000 lines in 1,290 files. Most are vendored (compression, browser
wrapper, JSON, databases), a widget library (`duilib`), painting, layouts, forms that show what the SDK
returns, and calls handed on to it unchanged. The models cover the call kit and what it runs on, and only a small share of the lines. Components
outside are listed in `PROJECT.json`, each with its reason.

## 6. What could follow

1. `CallKit`: `switchCallType` and control cid 2, closing of ended windows, `onUserDisconnect`,
   offline invitations (`OfflineNotify` as an operator over short lists), errors of the engine.
2. `CallContract.tla`: what a call promises its two users (idle, ringing, talking, ended, in that
   order), with `CallKit` shown to implement it for one call, and the places where it does not.
3. `VersionCompare.tla`: `versionCompare` over short version strings as an operator against the
   order of number sequences.
4. Weak callbacks: a task that is bound to a window that is gone.
5. Theorem: `WithdrawnCallBilled` for the first of several calls, and `SameRoom` for calls in glare.
