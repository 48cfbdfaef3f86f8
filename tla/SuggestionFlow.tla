---------------------------- MODULE SuggestionFlow ----------------------------
(***************************************************************************)
(* How the Android input method turns captured chat context into AI        *)
(* suggestions: ContextCaptureState and ContextSnapshotStore, the collector*)
(* and scheduleLangouSuggestions of TrimeInputMethodService, the           *)
(* AutoSuggestionGate, and the request coroutines with the suggestion bar  *)
(* they write to.                                                          *)
(*                                                                         *)
(* Everything here runs on the main thread except the network, so one      *)
(* record, ime, is the state of the main thread and an operator per        *)
(* function maps it to the next one.  The snapshot collector runs inline,  *)
(* where the store is written (Dispatchers.Main.immediate).  A cancelled   *)
(* coroutine ends at once at a delay or a flow, but not while the blocking *)
(* network call of UrlConnectionTransport lasts.                           *)
(***************************************************************************)
EXTENDS Naturals

CONSTANTS
  Apps,            \* package names ChatApplicationMapper knows
  Chats,           \* conversations of one application
  Texts,           \* focused contexts of one conversation
  Layouts,         \* what else distinguishes two snapshots
  Slots,           \* how many request coroutines may overlap
  MaxSuggestions,  \* LangouApiClient.MAX_SUGGESTIONS
  None

\* What ConversationIdentityResolver tells apart, what the gate's fingerprint
\* tells apart, and what stableSignature tells apart.
Conversation == [app : Apps, chat : Chats]
Fingerprint == [app : Apps, chat : Chats, text : Texts]
Snapshot == [app : Apps, chat : Chats, text : Texts, layout : Layouts]
Trigger == {"ContextChange", "ManualRefresh"}

NoEditor == [app |-> None, field |-> "hidden"]

ASSUME ConstantsAssumption ==
  /\ MaxSuggestions \in Nat \ {0}
  /\ None \notin Snapshot \cup Fingerprint \cup Apps \cup Slots

\* refused: an unsupported application, a sensitive field, or the feature off;
\* unpermitted: the accessibility service is not enabled
Editor == [app : Apps, field : {"chat", "refused", "unpermitted"}] \cup {NoEditor}

Bar == {"nothing", "contextLoading", "loading", "retry", "permission",
        "suggestions"}

NoJob == [step |-> "none", app |-> None, trigger |-> "ContextChange",
          subject |-> None, cancelled |-> FALSE, astray |-> FALSE,
          received |-> 0, shown |-> 0]

\* waiting: debounce and awaitLangouContextSnapshot; loading:
\* loadConversationMemory; requesting: validSession and streamSuggestions;
\* astray: langouSuggestionJob was overwritten with another request (history)
Job == [step : {"none", "waiting", "loading", "requesting"},
        app : Apps \cup {None}, trigger : Trigger,
        subject : Fingerprint \cup {None}, cancelled : BOOLEAN, astray : BOOLEAN,
        received : 0..MaxSuggestions, shown : 0..MaxSuggestions]

VARIABLE ime  \* the main thread's state, an element of Ime

vars == <<ime>>

Ime == [editor  : Editor,                   \* currentInputEditorInfo
        active  : Apps \cup {None},         \* ContextCaptureState
        store   : Snapshot \cup {None},     \* ContextSnapshotStore
        jobs    : [Slots -> Job],
        current : Slots \cup {None},        \* langouSuggestionJob
        last    : Fingerprint \cup {None},  \* lastSuccessfulFingerprint
        pending : Fingerprint \cup {None},  \* pendingFingerprint
        bar     : Bar,                      \* AiSuggestionsUi
        barOf   : Fingerprint \cup {None},  \* request of the shown suggestions
        barAstray : BOOLEAN,                \* that request is astray (history)
        listed  : BOOLEAN,                  \* debugAiSuggestions.isNotEmpty()
        forgetting : SUBSET Conversation]   \* forgetActiveConversationMemory

TypeOK == ime \in Ime

Init ==
  ime = [editor |-> NoEditor, active |-> None, store |-> None,
         jobs |-> [s \in Slots |-> NoJob], current |-> None,
         last |-> None, pending |-> None,
         bar |-> "nothing", barOf |-> None, barAstray |-> FALSE, listed |-> FALSE,
         forgetting |-> {}]

ConversationOf(x) == [app |-> x.app, chat |-> x.chat]

FingerprintOf(snapshot) ==
  [app |-> snapshot.app, chat |-> snapshot.chat, text |-> snapshot.text]

-----------------------------------------------------------------------------
(* The bar. *)

Show(m, what) == [m EXCEPT !.bar = what, !.barOf = None, !.barAstray = FALSE]
Dismiss(m) == Show(m, "nothing")

\* showAiLoading and showAiContextLoading, preserveExistingSuggestions
ShowLoading(m, what) ==
  IF m.listed /\ m.bar # "nothing" THEN m ELSE Show(m, what)

-----------------------------------------------------------------------------
(* The request job. *)

IsActive(m, s) == m.jobs[s].step # "none" /\ ~m.jobs[s].cancelled

CurrentIsActive(m) == m.current # None /\ IsActive(m, m.current)

\* Mutant: the reference is dropped, the coroutine goes on.
DropCurrent(m) == [m EXCEPT !.current = None]

\* langouSuggestionJob?.cancel()
CancelCurrent(m) ==
  IF ~CurrentIsActive(m) THEN m
  ELSE IF m.jobs[m.current].step = "requesting"
         THEN [m EXCEPT !.jobs[m.current].cancelled = TRUE]
         ELSE [m EXCEPT !.jobs[m.current] = NoJob]

-----------------------------------------------------------------------------
(* ContextSnapshotStore.clear with the collector's reaction to null, and   *)
(* ContextCaptureState.                                                    *)

Clear(m) ==
  IF m.store = None THEN m
  ELSE Dismiss(CancelCurrent([m EXCEPT !.store = None]))

\* Mutant: deactivating leaves the snapshot, and what is built on it.
DeactivateOnly(m) == [m EXCEPT !.active = None]

Deactivate(m) == Clear([m EXCEPT !.active = None])

Activate(m, app) ==
  IF m.active = app THEN m ELSE [Clear(m) EXCEPT !.active = app]

Get(m, app) == IF m.store # None /\ m.store.app = app THEN m.store ELSE None

-----------------------------------------------------------------------------
(* scheduleLangouSuggestions.  A launch needs a free slot: the bound on    *)
(* overlapping coroutines, which the actions' guards assert.               *)

FreeSlots(m) == {s \in Slots : m.jobs[s].step = "none"}

Launch(m, trigger) ==
  LET s == CHOOSE s \in FreeSlots(m) : TRUE
  IN [m EXCEPT !.current = s,
               !.jobs[s] = [NoJob EXCEPT !.step = "waiting",
                                         !.app = m.editor.app,
                                         !.trigger = trigger]]

Schedule(m, trigger) ==
  IF trigger = "ContextChange" /\ CurrentIsActive(m) THEN m
  ELSE LET c == CancelCurrent(m)
       IN CASE c.editor.field = "hidden" -> c
            [] c.editor.field = "refused" -> Dismiss(Deactivate(c))
            [] c.editor.field = "unpermitted" -> Show(Deactivate(c), "permission")
            [] c.editor.field = "chat" ->
                 Launch(IF Get(c, c.editor.app) = None
                          THEN ShowLoading(c, "contextLoading") ELSE c,
                        trigger)

\* ContextSnapshotStore.update with the collector's reaction to the snapshot
Update(m, snapshot) ==
  LET n == [m EXCEPT !.store = snapshot]
  IN IF m.store # snapshot /\ n.editor.app = snapshot.app
       THEN Schedule(n, "ContextChange") ELSE n

\* ... whose requestCapture makes the accessibility service capture inline, as
\* it does when a callback of the framework schedules: the collector schedules
\* first, and langouSuggestionJob is then overwritten with the outer request.
ScheduleAround(m, trigger, captured) ==
  LET n == Update(ShowLoading(CancelCurrent(m), "contextLoading"), captured)
  IN Launch([n EXCEPT !.jobs[n.current].astray = TRUE], trigger)

\* requestCapture is called, and what it captures belongs to the active chat.
CapturesInline(m, trigger, captured) ==
  /\ trigger = "ContextChange" => ~CurrentIsActive(m)
  /\ m.editor = [app |-> captured.app, field |-> "chat"]
  /\ m.active = captured.app
  /\ Get(m, captured.app) = None
  /\ \E s, t \in FreeSlots(CancelCurrent(m)) : s # t

UpdateCaptureState(m) ==
  IF m.editor.field = "chat" THEN Activate(m, m.editor.app) ELSE Deactivate(m)

-----------------------------------------------------------------------------
(* AutoSuggestionGate.  The signals of a scheduled request have passed     *)
(* SensitiveContextPolicy before, and its context is neither blank nor     *)
(* longer than the gate's limit (takeLast).                                *)

Generates(m, fingerprint, trigger) ==
  /\ fingerprint # m.pending
  /\ trigger = "ManualRefresh" \/ fingerprint # m.last

\* Mutant: only a successful request gives its fingerprint back.
CompleteSuccess(m, fingerprint, successful) ==
  IF m.pending # fingerprint \/ ~successful THEN m
  ELSE [m EXCEPT !.last = fingerprint, !.pending = None]

Complete(m, fingerprint, successful) ==
  IF m.pending # fingerprint THEN m
  ELSE [m EXCEPT !.last = IF successful THEN fingerprint ELSE @,
                 !.pending = None]

ResetGate(m) == [m EXCEPT !.last = None, !.pending = None]

-----------------------------------------------------------------------------
(* The input view and the accessibility service. *)

\* onStartInputView, for a new editor or again for the same one
StartInputView(editor) ==
  LET m == UpdateCaptureState([ime EXCEPT !.editor = editor])
  IN /\ FreeSlots(ime) # {}
     /\ ime.editor = NoEditor \/ ime.editor.app = editor.app
     /\ editor # NoEditor
     /\ \/ ime' = Schedule(m, "ContextChange")
        \* A change of the active package makes the service capture inline.
        \/ \E captured \in Snapshot :
             /\ captured.app = m.active
             /\ m.active # ime.active
             /\ ime' = Schedule(Update(m, captured), "ContextChange")
        \/ \E captured \in Snapshot :
             /\ CapturesInline(m, "ContextChange", captured)
             /\ ime' = ScheduleAround(m, "ContextChange", captured)

FinishInputView ==
  /\ ime.editor # NoEditor
  /\ ime' = [Dismiss(ResetGate(CancelCurrent(Deactivate(ime))))
               EXCEPT !.editor = NoEditor, !.current = None]

\* captureVisibleContext and recognizeBitmap, at ContextSnapshotStore.update
Capture(snapshot) ==
  /\ FreeSlots(ime) # {}
  /\ ime.active = snapshot.app
  /\ ime' = Update(ime, snapshot)

\* A sensitive screen, onInterrupt, onDestroy, or a snapshot older than
\* MAX_AGE_MILLIS that a get() finds.
Lose ==
  /\ ime.store # None
  /\ ime' = Clear(ime)

-----------------------------------------------------------------------------
(* What the user does with the bar. *)

\* onRefresh of the suggestions, onClick of the retry chip; the snapshot may
\* turn out to be too old
Refresh ==
  /\ FreeSlots(ime) # {}
  /\ ime.editor # NoEditor
  /\ ime.bar \in {"retry", "suggestions"}
  /\ \E m \in {ime, Clear(ime)} :
       \/ ime' = Schedule(m, "ManualRefresh")
       \/ \E captured \in Snapshot :
            /\ CapturesInline(m, "ManualRefresh", captured)
            /\ ime' = ScheduleAround(m, "ManualRefresh", captured)

Select ==
  /\ ime.editor # NoEditor
  /\ ime.bar = "suggestions"
  /\ ime' = Dismiss([ime EXCEPT !.listed = FALSE])

Forget ==
  LET snapshot == Get(ime, ime.editor.app)
  IN /\ ime.bar = "suggestions"
     /\ snapshot # None
     /\ ConversationOf(snapshot) = ConversationOf(ime.barOf)
     /\ ime' = [ime EXCEPT !.forgetting = @ \cup {ConversationOf(snapshot)}]

\* the memory is deleted; back on the main thread
Forgotten(conversation) ==
  /\ conversation \in ime.forgetting
  /\ ime' = Dismiss([ResetGate(ime) EXCEPT !.forgetting = @ \ {conversation}])

-----------------------------------------------------------------------------
(* The request coroutine. *)

SnapshotArrives(s) ==
  LET snapshot == Get(ime, ime.jobs[s].app)
  IN /\ ime.jobs[s].step = "waiting"
     /\ snapshot # None
     /\ ime' = [ime EXCEPT !.jobs[s] =
                   [@ EXCEPT !.step = "loading",
                             !.subject = FingerprintOf(snapshot)]]

SnapshotTimeout(s) ==
  /\ ime.jobs[s].step = "waiting"
  /\ Get(ime, ime.jobs[s].app) = None
  /\ ime' = Show([ime EXCEPT !.jobs[s] = NoJob], "retry")

MemoryLoaded(s) ==
  LET job == ime.jobs[s]
  IN /\ job.step = "loading"
     /\ ime' = IF Generates(ime, job.subject, job.trigger)
                 THEN ShowLoading([ime EXCEPT !.pending = job.subject,
                                              !.jobs[s].step = "requesting"],
                                  "loading")
                 ELSE [ime EXCEPT !.jobs[s] = NoJob]

\* Mutant: no limit on the suggestions of one stream.
ReceiveAny(s) ==
  /\ ime.jobs[s].step = "requesting"
  /\ IsActive(ime, s)
  /\ ime' = [ime EXCEPT !.jobs[s].received = @ + 1]

\* A suggestion event is read on the network thread and posted to the main
\* one.  The posts of a cancelled request find it inactive and do nothing.
Receive(s) ==
  /\ ime.jobs[s].step = "requesting"
  /\ IsActive(ime, s)
  /\ ime.jobs[s].received < MaxSuggestions
  /\ ime' = [ime EXCEPT !.jobs[s].received = @ + 1]

Deliver(s) ==
  /\ ime.jobs[s].step = "requesting"
  /\ IsActive(ime, s)
  /\ ime.jobs[s].shown < ime.jobs[s].received
  /\ ime' = [ime EXCEPT !.jobs[s].shown = @ + 1,
                        !.bar = "suggestions",
                        !.barOf = ime.jobs[s].subject,
                        !.barAstray = ime.jobs[s].astray,
                        !.listed = TRUE]

\* The stream is over and the coroutine resumes, after all its posts.
StreamOver(s) ==
  /\ ime.jobs[s].step = "requesting"
  /\ IsActive(ime, s) => ime.jobs[s].shown = ime.jobs[s].received

\* The backend ends a stream without suggestions with an error event.
Succeed(s) ==
  /\ StreamOver(s)
  /\ IsActive(ime, s) => ime.jobs[s].received > 0
  /\ ime' = Complete([ime EXCEPT !.jobs[s] = NoJob], ime.jobs[s].subject,
                     IsActive(ime, s))

\* An exception other than the cancellation reaches the coroutine even when it
\* is cancelled.
Fail(s) ==
  /\ StreamOver(s)
  /\ ime' = Complete(Show([ime EXCEPT !.jobs[s] = NoJob], "retry"),
                     ime.jobs[s].subject, FALSE)

-----------------------------------------------------------------------------
JobStep(s) ==
  \/ SnapshotArrives(s) \/ SnapshotTimeout(s) \/ MemoryLoaded(s)
  \/ Deliver(s) \/ Succeed(s) \/ Fail(s)

Next ==
  \/ \E editor \in Editor : StartInputView(editor)
  \/ FinishInputView
  \/ \E snapshot \in Snapshot : Capture(snapshot)
  \/ Lose \/ Refresh \/ Select \/ Forget
  \/ \E conversation \in Conversation : Forgotten(conversation)
  \/ \E s \in Slots : Receive(s) \/ JobStep(s)

Spec == Init /\ [][Next]_vars

\* delay, withTimeoutOrNull and the transport's timeouts end every wait of a
\* coroutine; nobody owes a capture, a tap or a suggestion.
FairSpec == Spec /\ \A s \in Slots : WF_vars(JobStep(s))

-----------------------------------------------------------------------------
(* A request that nothing has cancelled is the one langouSuggestionJob     *)
(* refers to, so the next cancel reaches it.  The code has one way to lose *)
(* a request, the capture that scheduling makes inline.                    *)
OneLiveRequest ==
  \A s \in Slots : IsActive(ime, s) => ime.current = s \/ ime.jobs[s].astray

(* As long as a request that has read a snapshot is live, and as long as   *)
(* suggestions are on the bar, the store holds a snapshot of their         *)
(* application, capture is active for it and its chat field is open: a     *)
(* sensitive field, another application or a lost context ends both.  A    *)
(* request that went astray, which no cancel reaches, is the exception.    *)
InContext(app) ==
  /\ ime.editor = [app |-> app, field |-> "chat"]
  /\ ime.active = app
  /\ Get(ime, app) # None

ContextBacksAI ==
  /\ \A s \in Slots : IsActive(ime, s) /\ ime.jobs[s].step # "waiting"
                       /\ ~ime.jobs[s].astray
       => InContext(ime.jobs[s].app) /\ ime.jobs[s].subject.app = ime.jobs[s].app
  /\ ime.bar = "suggestions" /\ ~ime.barAstray => InContext(ime.barOf.app)

(* In a sensitive field, an unsupported application or with the feature    *)
(* off, no live request asks the backend.                                  *)
SensitiveAsksNobody ==
  ime.editor.field = "refused" =>
    \A s \in Slots : IsActive(ime, s) => ime.jobs[s].step # "requesting"

(* The gate gives every pending fingerprint back.                          *)
GateReopens ==
  \A fingerprint \in Fingerprint :
    ime.pending = fingerprint ~> ime.pending # fingerprint
=============================================================================
