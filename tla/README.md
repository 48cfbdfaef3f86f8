# Langou IME: specifications, model checking and proofs

This directory holds TLA+ specifications of the parts of Langou IME whose
correctness depends on the order in which things happen: threads, coroutines,
processes, requests and time-outs. TLC checks them on small instances; TLAPS
proves their safety properties for every value of the constants. Source paths
below are relative to `src/production/` unless they begin with `src/`;
`PROJECT.json` maps every definition to the lines it stands for.

- [The system](#the-system)
- [The modules](#the-modules)
- [What the runs check](#what-the-runs-check)
- [Where the code disagrees with what is said of it](#where-the-code-disagrees-with-what-is-said-of-it)
- [What is proved](#what-is-proved)
- [What is only model-checked, and what is not modelled](#what-is-only-model-checked-and-what-is-not-modelled)
- [Plan](#plan)
- [Running it](#running-it)

## The system

Langou IME is an input method with AI reply suggestions: an Android app (a fork
of Trime), a Windows input method (a fork of Weasel) with a companion process,
a FastAPI backend and a static website. All typing goes through librime.
Suggestions come from the backend, which asks language models.

### Components

Android, under `android/app/src/main/java/com/osfans/trime/`:

| Component | State it keeps | Operations | What makes it correct |
|---|---|---|---|
| RIME engine daemon: `core/Rime.kt`, `RimeDispatcher.kt`, `RimeLifecycle.kt`, `daemon/` | lifecycle state and its observers, dispatcher queue, running flag and mutex, sessions, operation lease | create and destroy a session; `run`, `runOnReady`, `runIfReady`; start, stop and finalize the engine | the engine is up while anyone needs it, goes down only when nobody does, and no caller waits forever |
| Suggestion flow: `langou/ai`, `langou/context/Context*`, the suggestion part of `ime/core/TrimeInputMethodService.kt` and `ime/bar` | active package, latest snapshot, gate fingerprints, the request job, the bar | start and finish an input view, snapshot updates, schedule, refresh, select, forget | one request at a time; nothing is asked or offered outside the chat it belongs to; the gate reopens |
| Conversation memory: `langou/memory` | one encrypted file per conversation | read with pruning, merge turns, save a summary, delete, list | what is deleted stays deleted; a file is a whole version |
| Suggestion stream client: `langou/network` | none between calls | one streamed request, plain requests | events in order, at most three suggestions, an error is reported |
| Context capture: accessibility service, legacy screen capture, OCR | throttles, the OCR job, a pending screenshot | accessibility events, screenshots, OCR results | captures only the active chat application |
| Sessions and tokens: `langou/auth`, `LangouClientFactory.kt` | seven preferences of the stored session, a mutex per manager | valid session (guest or refresh), replace, clear | what is stored is one session; a token the backend has consumed has a successor on its way; a login stays |
| Account screen: `langou/account` | none beside the session | sign in (verify, merge, replace), send and apply settings, sync | it uses the same stored session as the input method, through a manager of its own |
| Keyboard, candidates, windows | views | keys, gestures, layout | inherited from Trime; one thread |
| Data, preferences, themes, background sync | files, a Room database | deploy, export, import, sync | inherited from Trime |
| librime bridge (JNI) | the librime session | one native call per method | conversions |
| Releases and updates | none | verify a manifest, decide | signed and newer only |

Backend, under `backend/src/langou_backend/`:

| Component | State it keeps | Operations | What makes it correct |
|---|---|---|---|
| Suggestion stream and gate: `suggestions.py`, `guards.py`, the endpoint in `main.py` | Redis: request keys, a counter per subject and minute, a counter per day | admit, race two models, stream, save history, summarise | limits hold, an id is charged once, one model speaks, every stream ends |
| Accounts, tokens and SMS: `auth.py`, `sms.py`, `devices.py` | refresh sessions, challenges, devices | issue, refresh, claim a guest, send and verify a code | a refresh token works once; a code works once and few guesses are allowed |
| History, settings, database, maintenance | SQL tables | save, list, delete, merge, purge | a guest's data follows the login |
| Releases and operations | static files, metrics | serve | - |

Windows, under `windows/`:

| Component | State it keeps | Operations | What makes it correct |
|---|---|---|---|
| Suggestion commit bridge: `LangouAssistant/Services/LangouPipeServer.cs`, `WeaselServer/LangouBridgeClient.cpp` | pending commits, the connection | send a commit, acknowledge, time out, reconnect | a click is written at most once, into the field it was meant for, and answered |
| Weasel server and its clients' sessions: `RimeWithWeasel`, `WeaselIPCServer`, `WeaselIPC` | the map from ids to librime sessions, the active session, `m_disabled`, external commits; per client its id and its connection | start, end and use a session; maintenance; start, stop and crash of the server; reconnection | opening a session takes nothing from a client that is served; a deployer has the data for itself; whoever types is served again |
| Deployer: `WeaselDeployer` | two mutexes | deploy, synchronise, edit dictionaries | it works while the server does not |
| Text service: `WeaselTSF` | the response buffer, the composition, flags of the key being tested | key events, edit sessions, focus, compartments | each text is inserted once and in order; a key is sent once; no composition is left behind |
| Assistant: `AssistantCoordinator.cs`, `MainWindow.xaml.cs`, context reader | debounce, probe tracker, selection, window | monitor every 450 ms, generate, click | suggestions belong to the window on the screen |
| Sessions and settings: `SessionManager.cs`, stores | stored session, settings | token, login, sign-out | a login is not lost |
| Candidate UI, setup, installer | - | - | inherited from Weasel |

The website (`website/`) is static. Vendored code (librime, OpenCC, WTL, RIME
data, PaddleOCR models) is not part of this project.

### How the parts interact

- **Android, typing.** Activities, the service, workers and receivers call
  `RimeDaemon.createSession(name)` and then `RimeSession.run*`. Each call of the
  engine is a `withContext` on the dispatcher's single thread `rime-main`. The
  daemon's lock is held while sessions and leases change, and across the
  blocking `RimeDispatcher.stop()`.
- **Android, suggestions.** The accessibility service writes a snapshot to
  `ContextSnapshotStore`; a collector in the input method, inline on the main
  thread, schedules a request; the request coroutine waits for a snapshot, loads
  memory, passes the gate, and streams from the backend. Its events are read on a
  network thread and posted to the main thread.
- **Backend.** One coroutine per request. Redis and the database are awaited;
  two tasks per stream read from two models.
- **Windows, suggestions.** The assistant's monitor asks the backend and shows a
  batch; a click sends a JSON line over a named pipe to `WeaselServer`, whose
  bridge thread queues the text for the active TSF session and injects
  `VK_SELECT`; that session's next response carries the text to the
  application. An acknowledgement goes back over the pipe.
- **Windows, typing.** In every application a text service sends a key, a focus
  change or a selection to the server and waits for the answer; the server
  handles it under `g_api_mutex`. The answer stays in the client's buffer until an
  edit session reads it, which the application may put off. A deployer tells the
  server to finalize librime and works on its data; before it serves a session
  the server looks whether a deployer's mutex exists.
- **Clients and backend** share one-time refresh tokens and request ids. On Android
  the input method and each account screen have a session manager of their own
  over one preference file.

### What is hard here

Checks followed by actions with another thread in between (dispatcher and
lifecycle); cancellation that does not interrupt a blocking read; state of one
conversation used after the screen has moved to another; time-outs racing with
answers already on their way; several round trips to Redis that must behave as
one decision; two racing tasks of which either may answer, end, fail or raise;
connections and processes that come and go. `PROJECT.json` lists every such
hazard at its line, with the properties that cover it or the reason none does.

## The modules

| Module | What it is |
|---|---|
| `EngineLease` | abstract: an engine that is switched off only when it has neither clients nor operations |
| `RimeEngine` | the daemon, dispatcher, lifecycle and operations; implements `EngineLease` |
| `SuggestionFlow` | the input method's suggestion machinery |
| `SuggestionMemory` | extends `SuggestionFlow` with the conversation's stored summary |
| `AndroidSession` | the stored session, its managers, the sign-in, and the backend's one-time tokens |
| `SuggestionService` | abstract: an endpoint that charges and admits in one step, within its limits, and lets one model speak |
| `SuggestionStream` | the backend's streaming endpoint, its gate and its race of two models; implements `SuggestionService` |
| `ClickDelivery` | abstract: a box for one text, into which a click's text goes at most once and from which its session takes it |
| `CommitBridge` | assistant, pipe, bridge thread and TSF sessions; implements `ClickDelivery` |
| `WeaselSessions` | Weasel's server, its clients' sessions, its deployers |
| `TextService` | one text service: keys, edit sessions, compositions and commits |
| `MCSuggestionStream`, `MCAndroidSession` | the checked instances: streams with ids and subjects, who uses which manager |
| `...Proofs` | the theorems about `RimeEngine`, `SuggestionFlow`, `SuggestionMemory`, `AndroidSession`, `SuggestionStream`, `CommitBridge`, `WeaselSessions` and `TextService` |

In each module a definition whose comment begins with "Mutant:" is a plausible
bug in the definition after it; it is not part of the specification. Each
property is checked to fail when its mutant takes the definition's place.

### RimeEngine

State: `lifecycle` (`RimeLifecycleRegistry.internalState`), `observers` (the
waiters of `awaitState`), `isRunning` and `queue` (`RimeDispatcher`), `rimeMain`
(where the thread is), `native` (librime is between `startupRime` and
`exitRime`), `tips` (the delayed coroutine of `showAsciiSwitchTips`), `sessions`,
`activeOperations` (`RimeDaemon`, `RimeOperationLease`), `daemon` (how far the
holder of the daemon's lock is inside `finalize`), and for each operation its
`kind` and `pc`.

What is atomic: everything done under the daemon's lock except `stop()`, which
is four steps (`StopDispatcher`, `OfferEmpty`, `DrainQueue`, `EmitStopped`), as
it blocks on the loop's mutex. The thread's loop is one action per statement
that another thread can observe (`EnterLoop`, `StartRime`, `EmitReady`,
`NotifyReady`, `CheckRunning`, `RunNextJob`, `ExitRime`). An operation takes one
step at each check, registration, re-check, suspension, `dispatch` check,
enqueue and release, so the gap between "`isRunning`?" and "enqueue" is there.

`Startup` returns without starting anything when storage is unavailable, and
`createSession` records its session all the same; `skipped` is the history of that.
The engine then stays down until another client connects, since only
`createSession` starts one, and an operation that waits for READY waits that long:
`Stranded`.

### SuggestionFlow and SuggestionMemory

All of it but the network runs on the main thread, so the module's one variable
`ime` is the main thread's state, and each function of the code is an operator
from that state to the next (`Clear`, `Activate`, `Schedule`, `Update`,
`Complete`, ...). An action is one callback or one resumption of a coroutine,
with everything it calls: `StartInputView` includes the capture-state change, the
capture the accessibility service may make inline, and the request it schedules.

The accessibility service, which runs on the main thread too, may also capture
inline when `scheduleLangouSuggestions` asks it to (`requestCapture`), that is,
before the function has assigned `langouSuggestionJob`. The capture updates the
store, whose collector schedules a request, and the assignment then overwrites it
(`ScheduleAround`). The request that is lost so is marked `astray`, and
`barAstray` what it shows: no cancel reaches it.

A job is `waiting` (debounce and `awaitLangouContextSnapshot`), `loading` (memory)
or `requesting`. Cancelling ends the first two at once; the third stays, marked
`cancelled`, until its blocking read ends (`Succeed`, `Fail`), because
`UrlConnectionTransport` does not notice a cancellation while it reads. That is
why two requests overlap and why their `finally` blocks run late.

Posts to the main thread are delivered in order (`received`, `shown`). Texts are
abstracted to what the code compares: the conversation, the gate's fingerprint
(application, chat, focused text) and the snapshot's signature (also the layout).
The AI switch and an absent permission are folded into the editor's `field`.

`SuggestionMemory` adds the stored summary of each conversation and marks one
that derives from something deleted. A request asks for the memory
(`AwaitMemory`), the file is read on the IO dispatcher (`ReadMemory`), and the
request goes on with what was read on the main thread (`BuildRequest`): a deletion
may come between any two of them. Reads and writes of the store are whole, as
`EncryptedConversationStore`'s methods are `@Synchronized`.

### CommitBridge

State: the batch on offer and whether the window shows it; one record per call of
`SendCommitAsync`; `pending` (`_pendingCommits`); where the accept loop is; the
lines under way in each direction; where the bridge thread is and with which
command; `m_active_session`; `m_external_commits`. `queued` and `written` are
histories. All clicks of one batch carry the batch's request id, as in the code,
so a late acknowledgement can complete a later click's entry, and a `finally` can
remove it: both are in the model.

A line is written under `_writerLock`, and the write ends when it fits into the pipe
(`PipeLines` in each direction, for buffers of 4096 bytes) or the bridge is gone:
`SendLine` takes the lock, `WriteLine` ends the write. There is no time-out on it,
the two seconds begin afterwards. So a bridge that stays connected and does not
read leaves the click that writes, and all that wait for the lock, without an
answer; the model has such bridges, and `ClicksAreAnswered` says what it needs of
them. A connection that ends while a write is under way may end the accept loop for
good (`failing`, `dead`), since disposing of a writer in use throws.

`StopWeasel` is a crash or a stop at any point: it loses the lines in the pipe and
the queued text. `Focus(None)` is a FocusOut of any session, since the code clears
the active session without looking whose it is.

### SuggestionStream

Each stream is a coroutine; a step ends where it awaits. The gate is its three
Redis round trips and the deletion of the key. `Hedge` and `Race` are the two
waits, whose results are looked at in order (primary first) as the code does;
`Answer` lets a model reach its first suggestion, end without one, fail with a
provider error or raise something else, at any time, so two candidates may be
done at once. A candidate that is done without an answer when it is looked at is
closed and is no loser any more (`PassedOver`); `SendFirst` awaits the cancelled
loser first, as `_cancel_candidates` does. `Disconnect` cancels the coroutine wherever it is;
`Collect` ends what nobody waits for. The module spans one minute, one day and
the ten minutes of a request key: nothing expires.

### AndroidSession

State: the preference file, one record per coroutine that asks for a session, the
pairs the backend has issued and the serial numbers it has consumed. `ManagerOf`
gives each coroutine the manager, hence the mutex, it uses. Everything runs on the
main thread, so a step goes from one network call to the next: entering the mutex
and reading the store is one step, persisting what was granted and leaving it is
another. Faults are a lost answer, a cancelled scope (whose blocking read goes on,
with the mutex held, and whose answer is thrown away), a kill, a kill between two of
the commits of `SecureSessionStore.save` (`KillInSave`), a commit that fails, so that
`save` throws and the process goes on with half a session (`FailSave`), and a month
in which a token grows too old to be refreshed (`Age`, `aged`; `REFRESH_TTL`).

`runCatching` around `mergeGuest` swallows its failure and its cancellation; after
it a free mutex is taken without a look at the cancellation and a held one is not
(`AwaitMutex`). The backend consumes a token before it answers. `lost` records
that a granted pair was thrown away: from then on the stored token may be spent
for good, and the properties that depend on a successor ask for `~lost`. `torn`
records that a save was cut short.

### WeaselSessions

State: the server (`up`, its incarnation, `disabled`, the map `sessions`, the
sessions `live` in librime, `active`), for each client its thread, `session_id`,
connection and retry count, for each deployer where it is. A request is one action
with its handler and its answer, because the handler holds `g_api_mutex` and the
client waits. The exception is `_IsDeployerRunning`, which opens the deployer's
mutex to look: a deployer that starts in that moment finds the mutex taken and
gives up, so the look is two steps (`probe`, `found`).

What follows from the code and is in the model: the server starts while a deployer
that cannot reach it yet is at work; a client's own look may make a deployer
return 1; `EndMaintenance` on a server that is not disabled clears the map and
leaks the sessions of librime; `END_SESSION` with a stale id clears the active
session; a failed synchronisation leaves the server disabled until the next
`StartSession`; a new id may be the stale id another client still holds, and then
both use one session (no property excludes that); an application that is killed
leaves its session on the server (`Killed`, `orphans`), which may go on being the
active one.

### TextService

State: `svc` (buffer, `_status.composing`, composition, document, and the session
of the server as far as it matters: whether it composes and whether a text waits),
the queue of edit sessions the application has put off, and the flags of the key
being tested. Each request overwrites the first bytes of the buffer, so an answer
is there only until the next request (`Noise`). An edit session is asked for with
`TF_ES_ASYNCDONTCARE`: it runs at once or joins the queue, and inside another
session it runs at once.

`UpdateComposition` ends by sending the caret's position, which overwrites the
answer, or by sending none: the application has no selection, no view or no extent,
or its first rectangle shows that it needs the workaround for CUAS (`Position`). In
the second case the answer stays in the buffer, and the next session that reads it
inserts its text again; a key that meets a disabled keyboard, or one that
`ConvertKeyEvent` does not know (`KeyEventSink.cpp:14` and `:96`), is the shortest
way. `kept` names the texts to which that may happen. `MaxTexts` bounds the texts
that are inserted, since nothing in the code does.

## What the runs check

| Run | Instance | Distinct states | Question |
|---|---|---|---|
| `rime_engine` | 2 clients, 2 operations | 16 580 | Is the engine up whenever it is needed, down only when it is not, and does everyone get through? |
| `suggestion_flow` | 2 applications, 1 chat, 1 text, 2 layouts, 2 slots | 158 900 | Is there one live request within reach, in its context, and does the gate reopen? |
| `suggestion_memory` | 1 application, 1 chat, 2 slots | - | violation, below |
| `sensitive_request` | 1 application, chat, text and layout, 2 slots | - | violation, below |
| `android_session` | 2 managers, 3 callers, one expiry, one sign-in, one fault of any kind | 241 326 | Is the stored session whole and its token good, is a sign-in kept within a manager, is an expired session renewed? |
| `session_overwritten` | the same, no fault | - | violation, below |
| `suggestion_stream` | 3 streams, both limits 1 | 42 997 | Is what the gate and the race do what `SuggestionService` promises, do the limits hold on the way there, does everything end? |
| `stream_silenced` | the same | - | violation, below |
| `commit_bridge` | 2 clicks, 2 sessions, 1 batch, 1 line each way | 176 352 | Does the bridge deliver as `ClickDelivery` promises, is a click written once, and is every click answered, truthfully when the answer is yes? |
| `commit_retry` | the same | - | violation, below |
| `weasel_sessions` | 1 client, 2 deployers, 2 starts of the server | 222 155 | Does a deployer have the data for itself, who is active, and is whoever types served again? |
| `text_service` | 2 commits, 3 texts, 3 waiting edit sessions | 4 638 066 | Is every text inserted in order, once unless no position was sent, and every composition shown and closed? |

**Properties of `rime_engine`.** `HoldersHaveEngine`: a client or an operation under way
has an engine that is READY or STARTING, unless the last start found no storage. `LeaseKeepsDispatcher`: an operation that was
let in never meets a stopped dispatcher. `NoJobDropped`: `stop()` drains no
operation's job. `NoLostWakeup`: the re-check in `awaitState` closes the gap
between looking and registering. `ImplementsLease`: refinement of `EngineLease`,
with the engine on iff READY and the operations under way as the lease's users.
`OperationsFinish` and `LockIsReleased`: every operation, unless it waits for an
engine that had no storage, and every `finalize`, gets out.

**Of `suggestion_flow`.** `OneLiveRequest`: a request nothing has cancelled is the
one `langouSuggestionJob` refers to, unless a capture made inline has overwritten
it there. `ContextBacksAI`: a live request past its wait, and
suggestions on the bar, have a snapshot of their application, active capture and
an open chat field; requests that went astray are the exception, and
`sensitive_request` shows what one may do. `GateReopens`: the fingerprint the gate holds back is given
back.

**Of `android_session`.** `SuccessorComes`: while the stored refresh token is
consumed, somebody holds what will replace it. `StoredWhole`: the stored fields
belong to one session, and a guest's tokens to the device they are stored with,
although two managers write the file. `MutexKeepsUser`: a manager that saved a
user's session has no guest's session under way. `ExpiredIsRenewed`: a session that
is missing or expired is renewed by somebody who keeps asking, unless a granted
pair was thrown away, a save cut short, or the session left alone for thirty days
(`Outdated`).

**Of `suggestion_stream`.** `WithinLimits`: the models are asked no more often than
the day and each subject's minute allow. `OneModelSpeaks`: from the first
suggestion on, the loser's request is closed or was never made.
`GivenUpMeansBothFailed`: `suggestion_unavailable` is sent only when both were asked
and neither request is open. `ImplementsService`: refinement of
`SuggestionService`. Three round trips to Redis appear there as one step, in which
an id is charged for the first time and the request admitted or turned away; a
request is turned away as busy only when admitted ones have used the whole budget,
and as a duplicate only if another stream was called with its id. `StreamsEnd`:
every stream, and every request to a model, ends.

**Of `commit_bridge`.** `WrittenOnce`: a click's text is written at most once.
`SuccessMeansQueued`: true is answered only after a text of the batch was queued.
`ImplementsDelivery`: refinement of `ClickDelivery`. Its box holds the text in
`m_external_commits` that can still be written; what is written is the text last put
there, in the session that had the focus when it was put there; a click is told
once. `ClicksAreAnswered`: every click is answered, if a bridge that
stays connected goes on reading and answering.

**Of `weasel_sessions`.** `MaintenanceIsExclusive`: from the answer to its
`StartMaintenance` a deployer is alone with the data, whatever clients ask for in
between. `ActiveIsHeld`: the session into which a text from outside goes is one
that a client connected to this server holds, or one whose application was killed.
`KeysReachEngine`: if the server stays, a client that goes on typing has, again and
again, a session that takes its keys. `TypingRestartsServer`: typing brings back a
server that is gone.

**Of `text_service`.** `CommitOnce`: texts are inserted in the order of their
commits, and only a text of `kept` twice. `EatenOnce`: a key that was tested before
it is taken is sent once. As long as no update was put off: `CommitsArrive`,
`PreeditShown`, `NoOrphan`.

### Why the bounds are enough

- Two operations give every overlap of one that waits, calls or releases with
  one that does the same; two clients give "the last one leaves" and "another
  remains". The proofs cover any number.
- Two slots are a live request and a cancelled one whose read still lasts, which
  is all that `langouSuggestionJob` and the gate's one pending fingerprint can
  confuse; a third cancelled request adds another late `finally`, of the same
  kind. Two layouts of one text are two snapshots with one fingerprint, two
  applications are a switch of the active package, and two chats (in the
  violation runs) a change within one. `MaxSuggestions = 1` is enough since no
  property compares two suggestions of a request; the type invariant's bound is
  still reached.
- Two clicks meet on one batch, hence on one request id, which is where an answer
  can be taken for another's; two sessions are the right window and a wrong one.
  Only one command waits at a time, by the code. One line each way (`PipeLines`)
  fills the pipe as soon as one is not read. Two batches were checked once (861 072
  states, no error); the proofs cover any number.
- Three streams: two repeat a request id for two subjects, two share a subject,
  and both limits are 1, so that each refusal, the return of a key and its reuse
  happen.
- Two managers are the input method's and an account screen's; three callers are
  one of the former and two that share the latter's mutex, one of which signs in.
  One expiry, one sign-in and one fault already combine to a refresh that meets a
  sign-in and a lost answer or a torn save; a second account screen is a third
  manager, which the proofs cover.
- A server started twice has stale ids from its first life; two deployers may find
  each other at work; a client that leaves or is killed comes back as another one. A
  second client adds stale ids that meet new ones, and another's active session: that
  instance is too large to be checked each time (2 005 239 states up to symmetry for
  the safety properties, no error), and the proofs cover any number.
  `RetryLimit` is 6 in the code; 1 or 2 tell "try again" from "launch". `Stride`
  only keeps the ids of two servers apart or lets them meet, as process ids do.
- Two texts are needed to be out of order, and a third insertion for one of them to
  come twice, before or after the other. Three waiting sessions are an update, the
  end of its composition and one more; one that finds others
  waiting joins them, and at the bound the application runs one first.

### Fairness, and why the code justifies it

- `RimeEngine`: weak fairness of the thread `rime-main`, of the thread inside
  `finalize` and of each operation's own next step, because they run; strong
  fairness of `FinishBlock`, because a block makes finitely many calls. Nobody
  owes a session or its end.
- `SuggestionFlow`: weak fairness of each coroutine's next step; `delay`,
  `withTimeoutOrNull` and the transport's connect and read time-outs end every
  wait. Nobody owes a capture, a tap or a suggestion.
- `CommitBridge`: weak fairness of sending and writing the line, and of the time-out
  or the end of the call: the two-second timer fires and the UI thread runs its
  continuations. Weak fairness of what the bridge thread does with a command and of
  the accept loop's reading, which they do while they are connected; this is a
  condition on the bridge, which the code of the assistant does not enforce. Nobody
  owes a click or a connection.
- `SuggestionStream`: weak fairness of each coroutine, whose waits all have a
  limit (hedge, deadline, the HTTP client's time-out), and of the end of model
  requests nobody waits for. No model owes an answer.
- `AndroidSession`: weak fairness of each request and of each resumption on the main
  thread (the transport has time-outs); strong fairness of entering the mutex,
  since Kotlin's is fair; weak fairness of asking again for callers that do not
  sign in: the user of an input method goes on typing.
- `WeaselSessions`: weak fairness of the server's start and of a launched
  `start_service.bat`; strong fairness of typing and of each deployer's steps,
  since whoever waits for `g_api_mutex` gets it some time. Nobody owes a
  deployment, a focus change or a crash.

`TextService` has no liveness property: the application may put an edit session
off for ever. `CHECK_DEADLOCK` is off only for the runs of `SuggestionStream`,
whose streams all end.

## Where the code disagrees with what is said of it

| Run | Property | What happens |
|---|---|---|
| `suggestion_memory` | `DeletedStaysDeleted` | "Forget chat" cancels nothing: the answer of a request built from the deleted memory writes a summary back. |
| `sensitive_request` | `SensitiveAsksNobody` | A capture made inline by `requestCapture` schedules a request that the assignment of `langouSuggestionJob` overwrites; no cancel reaches it, and it asks the backend while a sensitive field has the focus. |
| `session_overwritten` | `SignInLasts` | The input method asks for a guest session while a sign-in is under way (leaving a chat cancels its request, `TrimeInputMethodService.kt:661`, so the user has to enter one then): the guest is saved over the user. |
| `stream_silenced` | `FirstSuggestionIsSent` | Both candidates are done when the wait returns, the fallback without a suggestion; the primary wins, `_cancel_candidates` lets the fallback's `StopAsyncIteration` out, and the primary's answer is lost. |
| `commit_retry` | `FailureMeansNotWritten` | A call times out while the bridge queues its text: the user is told to retry, and the text is written. |

Each finding in `PROJECT.json` quotes the sentence it contradicts. The models do
the following too, because the code does, without a property of their own:

- A session connected while storage is unavailable has no engine, and none is started
  for it until another client connects (`Rime.kt:350`, `RimeDaemon.kt:117`).
- An engine whose only session is destroyed while it is STARTING is not finalized
  (`Rime.kt:364`) and runs on with no client; the ascii tips, delayed a second, may
  read librime after `exitRime` (`Rime.kt:342`).
- A refresh tapped while the stream is open is skipped as a duplicate, since the
  cancelled request holds its fingerprint until its read ends; a snapshot that
  arrives during a request is not seen again; an exception that reaches a cancelled
  request shows the retry chip over whatever the bar shows.
- A refresh whose answer is lost or thrown away strands an Android device: its
  stored token is spent, every further refresh is refused, and `validSession` has
  no way back to a guest, as the Windows client has; only a sign-in would replace
  the session, and the sign-in begins with `validSession`. The same happens to a
  device that is not used for thirty days, with nothing lost. A kill in the second of
  two guests' saves, or a commit in it that fails, leaves the device of one with
  tokens of the other.
- A bridge that stays connected and does not read leaves clicks without an answer.
- `FocusOut` of any window clears the active session of the next one, and so does
  an end of session with a stale id. After maintenance two clients may use one
  session. The session of an application that was killed stays, active as it was.
- An answer that no position has overwritten is inserted again by the next update.
- An update of the text service that was put off may read an answer that was
  overwritten meanwhile, and its text is lost; edit sessions that end a composition,
  put off likewise, leave a newer one behind; the empty key that
  `OnSetThreadFocus` sends drops the text in its answer (`WeaselTSF.cpp:177`).

## What is proved

Every theorem has the form `Spec => []Inv` (or `Spec => Property`) and holds for
all values of the constants that satisfy the module's assumptions.

| Module | Theorems | Assumptions |
|---|---|---|
| `RimeEngineProofs` | `TypeCorrect`, `HoldersEngine`, `DispatcherKept`, `JobsKept`, `WakeupsKept`, `EngineImplementsLease` | finitely many operations; `Empty` is none of them |
| `SuggestionFlowProofs` | `TypeCorrect`, `LiveRequestIsCurrent`, `AIStaysInContext`, `CancelledNeverSpeaks` | `MaxSuggestions` positive; `None` is not a value |
| `SuggestionMemoryProofs` | `MemoryIsFlow`, `MemoryStaysInContext` | those of the flow |
| `AndroidSessionProofs` | `TypeCorrect`, `SuccessorOnItsWay`, `Whole`, `UserKept`, `AnotherManagerEndsSignIn` | every caller has a manager; bounds are natural numbers; `None` is not a value |
| `SuggestionStreamProofs` | `TypeCorrect`, `LimitsHold`, `IdsChargedOnce`, `OneSpeaks`, `GivenUpLast`, `StreamImplementsService` | finitely many streams; limits positive; `None` is not a value |
| `CommitBridgeProofs` | `TypeCorrect`, `ClicksWrittenOnce`, `OnlyNewestWritten`, `SuccessIsQueued`, `BridgeImplementsDelivery` | `MaxBatch` and `PipeLines` positive; `None` is not a value |
| `WeaselSessionsProofs` | `TypeCorrect`, `OpeningTakesNothing`, `MaintenanceExclusive`, `ActiveHeld` | bounds are natural numbers, `MaxStarts`, `RetryLimit` and `Stride` positive; clients, deployers, the server and `None` differ |
| `TextServiceProofs` | `TypeCorrect`, `TextsInOrder`, `EatenSentOnce`, `TextsArrive`, `CompositionShown`, `NoneLeftBehind` | bounds are natural numbers; `Noise` is no answer |

Every safety property and every action property of the passing runs is stated by
one of them, and so are the three refinements.

Three are no property of a run. `CancelledNeverSpeaks`: no step of the main thread
makes a cancelled request live again (`NoneRevived`, one lemma for each function).
`OpeningTakesNothing`: when a client opens a session, a client that is being served
keeps its id and its session of librime, and the new one is another; it does not say
that nobody else holds the new id from before a maintenance, since that happens.
`AnotherManagerEndsSignIn`: what a manager has saved of a user is replaced by a guest
only in a save of another manager, whatever is lost, killed or cut short; it
says what the cause of `session_overwritten` is, without a supposition about the code.

`MemoryIsFlow` maps every step of `SuggestionMemory` to one of `SuggestionFlow` or
to a stutter, so all that is proved of the flow holds with memory.

The inductive invariants, and why the properties alone are not inductive:

- **RimeEngine.** `IInv` adds `PhaseInv` (how lifecycle, thread, flag, librime and
  the finalizing thread move together), `FinalizeInv` (only an engine nobody holds
  is being finalized), `LeaseCount` (the counter is the number of operations under
  way), `QueueInv` (an operation in the queue waits for it and is there once),
  `ResumeInv` (a waiter without an observer was resumed by a READY engine) and
  `SkipInv` (a start that found no storage leaves a stopped engine).
  `LeaseKeepsDispatcher`, for instance, needs all of them: a queued operation is
  busy, hence counted, hence nobody finalizes, hence the flag is up. The
  refinement maps each step to one of `EngineLease` or a stutter: `EmitReady` is
  `SwitchOn`, a release is `End`, and `CanFinalize` gives what `EngineLease` asks
  of the switch-off.
- **SuggestionFlow.** The invariant is a relation between the gate, the jobs, the
  store and the bar (`Backed`) and between editor and capture state (`Chained`).
  Inside `StartInputView` the second is broken, the editor has changed and the
  capture state has not, and `UpdateCaptureState` restores it; the proof follows
  the function's order with one lemma per operator.
- **CommitBridge.** A command is in exactly one place on its way (call, pipe,
  bridge, queue, history), from which `WrittenOnce` follows; answers, whether in
  the pipe or in a call, speak of a batch of which a text was queued. For the
  refinement the box is the queued text that has not expired and was not dropped:
  `QueueExternalCommit` fills it, `TakeExternalCommit` or an expiry empties it, and
  all that happens on the pipe and to the pending entries is a stutter, but for the
  step in which a call returns to its click.
- **AndroidSession.** A pair that a call holds is known to that call alone
  (`Secret`: not consumed, not stored, sent by nobody), since serial numbers are
  issued in order (`Issued`). So a save stores a token that is good, which
  `SuccessorComes` needs, as two managers may refresh the same stored token and one
  of them is refused. `OneInside` is the mutex; with `SavedWhole` it gives
  `MutexKeepsUser`. `OwnDevice` carries `StoredWhole` through a refresh that began
  before another manager's save. The proof has one lemma for the steps that save
  nothing and change one call, under conditions each such action is shown to meet
  (`Becomes`, `KeepsSecret`, `KeepsMutex`, `KeepsSuccessor`), one for the two that
  save (`Saves`) and one for each way a save is cut short (`CutShortSession`).
- **SuggestionStream.** A request key is owned by the stream that set it, until
  it is charged for or gives it back (`KeysAreOwned`); each counter bounds the set
  of streams it has let through (`BudgetCounts`, `MinuteCounts`), by lemmas on the
  cardinality of a set that grows by one; `StreamInv` relates a stream's step to
  its two model requests. The refinement needs more, since a refusal must be true
  as well as an admission: `KeysExplained` (a key that is set was set for a stream
  now past that step), `BudgetUsed` (the day's counter is no greater than the
  requests it let through, until those have used the budget) and `StageInv` (what a
  stream has done by each step). `ChargeBudget` is the abstract admission; the round
  trips before it, the hedge and the closing of losers are stutters.
- **WeaselSessions.** `Engines`: the map leads to different live sessions or to
  none, by lemmas on the new id (greater than any in the map) and the new address
  (not in use). `Quiet` relates the server's state to the map and librime, `Looks`
  a look at the mutex to what was seen, `Work` a deployer's step to the mutex it
  holds and to the disabled server; `MaintenanceIsExclusive` follows from the
  last, because whoever could enable the server has looked or is the deployer.
- **TextService.** Three arguments that hardly meet. The flags of the key being
  tested mirror what was sent (`KeyInv`). The text of an answer in the
  buffer comes after all texts of the document, unless it is one of `kept`, because
  the position sent at the end of an update overwrites the answer (`Ordered`). Until an update is put off the waiting sessions only end the
  composition that the service has (`Calm`), so the server's composition, the
  service's and the document's go together and every text has arrived (`Arrived`).

Each `IInv` and `ServiceInv` was also checked with TLC, on the instances above,
before it was proved.

A remark for whoever extends the proofs: tlapm 1.4.5 translates two updates below one
index, `[f EXCEPT ![c].a = x, ![c].b = y]`, as if the second started from the old
`f[c]`, and then proves anything. The modules write `![c] = [@ EXCEPT !.a = x,
!.b = y]`, which it translates correctly.

## What is only model-checked, and what is not modelled

Liveness (`OperationsFinish`, `LockIsReleased`, `GateReopens`, `ClicksAreAnswered`,
`StreamsEnd`, `KeysReachEngine`, `TypingRestartsServer`, `ExpiredIsRenewed`) is
checked by TLC only: fairness is outside the prover's reach. The five violated
properties have a counterexample and no theorem. The abstract
specifications are safety specifications: that every click is answered and every
stream ends is checked, not proved.

Left out of the modelled components, and why:

- `RimeEngine`: an exception in `startRime` (it would end the thread: a defect of
  the installation); `restartRime`, which nothing calls; an operation refused
  because its session is gone (it changes nothing); outcomes of weak memory on
  unsynchronised fields (modelled as sequentially consistent); restart
  notifications.
- `SuggestionFlow`: the storage-unavailable branch of memory, the physical-keyboard
  path, conversation turns and the in-memory ephemeral conversations, the wording
  of everything.
- `AndroidSession`: `clear()`, which nothing calls; the encryption of the tokens; the
  text of codes and settings; the table of devices in the backend.
- `SuggestionStream`: what prompts and suggestions say, the development gate,
  expiry of keys and counters.
- `CommitBridge`: ping and theme lines, which share the lock and the pipe with
  commands, malformed lines (ignored by the code), how the window and the batch are chosen (the monitor).
- `WeaselSessions`: what librime composes, styles and messages (on the message loop,
  without `g_api_mutex`); the detached thread that reconnects over the same
  `ClientImpl` after a launch; the race of the pipe threads over the one buffer of
  `PipeServer`; the entry a lookup of id 0 inserts.
- `TextService`: the simulated Caps Lock, several documents or contexts at once, an
  application that refuses a composition, coordinates, language bar and display
  attributes.

Not modelled at all: the components `PROJECT.json` lists as `not_modelled`, with
the reason. Most are user interface, input and output or inherited code; the
Windows session and monitor, the SMS challenge, the Weasel pipe channel and the
memory store are in the plan.

The map covers a small share of the repository's lines, and cannot cover a large
one: more than half of the lines that count as implementation are vendored headers
(`windows/include/wtl`, `ctffunc.h`), and much of the rest is Windows user interface
and setup, without state that another thread, process or message could meet.

## Plan

In the order of their weight for a user; the first seven are done.

1. `RimeEngine` and `EngineLease`: without the engine nobody types. Done, proved.
2. `SuggestionFlow`, `SuggestionMemory`: privacy and usefulness of suggestions on
   Android. Done, proved.
3. `CommitBridge` and `ClickDelivery`: text written into a window. Done, proved.
4. `SuggestionStream` and `SuggestionService`: cost limits and the race. Done, proved.
5. `WeaselSessions`: typing on Windows through redeployments and crashes. Done,
   proved.
6. `TextService`: what of it reaches the document. Done, proved.
7. `AndroidSession`: one-time tokens, two managers, lost answers and torn saves.
   Done, proved.
8. `WindowsSession`: login and sign-out against a refresh under way, with the
   backend part of `AndroidSession` as a module of its own that both use; the merge
   of a guest's history and settings, one of which may fail.
9. `AssistantMonitor`: the 450 ms loop, debounce, cancellation, probe tracker and
   selection, composed with `CommitBridge` through the batch on the window.
   Theorem: a click commits the text its button shows.
10. `WeaselChannel`: the pipe threads over one buffer and one `has_body`. Abstract
    specification: each client's reply answers its own request.
11. `SmsChallenge`: send, verify, expiry and attempts in Redis round trips.
12. `MemoryStore`: temporary file, move, crash, delete, retention; the algorithms
    (`MemoryRetriever`, version comparison, the suggestion line parser) as functions
    checked against reference definitions.
13. Abstract specifications of `WeaselSessions` (a session belongs to a client, a
    maintenance to a deployer) and of `TextService` (texts inserted in order), and
    the proofs that the modules implement them.

## Running it

Inside this directory:

    tlc -workers 2 -config rime_engine.cfg RimeEngine.tla
    tlapm RimeEngineProofs.tla

`PROJECT.json` lists, for each run, its module, its configuration, what it is
expected to show, and the mutants its properties catch.
