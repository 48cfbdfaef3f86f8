----------------------------- MODULE TextService -----------------------------
(***************************************************************************)
(* Weasel's text service inside one application (WeaselTSF): its sink for  *)
(* key events, the response buffer it shares with every request to the     *)
(* server, and the edit sessions in which it may change the document.      *)
(*                                                                         *)
(* An edit session is asked for with TF_ES_ASYNCDONTCARE: Windows runs it  *)
(* at once or when the application next unlocks the document, after those  *)
(* that wait already.  A session that is asked for inside another one has  *)
(* the lock and runs at once.  All of this is one thread; what interleaves *)
(* is the application's calls, the sessions it has put off, and the        *)
(* server, whose answers are read from the buffer when a session runs and  *)
(* not when they arrive.                                                   *)
(***************************************************************************)
EXTENDS Naturals, Sequences, FiniteSets, SequencesExt

CONSTANTS
  MaxCommits,  \* bound: texts the server commits
  MaxTexts,    \* bound: texts that are inserted
  MaxQueue,    \* bound: edit sessions that wait
  Noise        \* a buffer in which a request has overwritten the last answer

ASSUME ConstantsAssumption ==
  /\ MaxCommits \in Nat /\ MaxTexts \in Nat /\ MaxQueue \in Nat
  /\ Noise \notin [commit : Nat, composing : BOOLEAN]

VARIABLES
  svc,       \* the service, its document and its session on the server
  queue,     \* the edit sessions that wait
  async,     \* _async_edit
  pending,   \* _fTestKeyDownPending and _fTestKeyUpPending
  event,     \* history: the key event the application is delivering
  deferred,  \* history: DoEditSession has been put off
  dropped    \* history: commits in answers to the empty key, and lost sessions

vars == <<svc, queue, async, pending, event, deferred, dropped>>

(* The fields of svc:                                                      *)
(*   engine   the session of librime is composing                          *)
(*   waiting  it has a text to commit that no answer has carried yet       *)
(*   given    texts committed so far, numbered from 1                      *)
(*   buffer   the client's buffer: an answer, or Noise                     *)
(*   status   _status.composing                                            *)
(*   comp     _pComposition, 0 for none                                    *)
(*   open     the compositions that exist in the document                  *)
(*   text     the texts that were inserted                                 *)
(*   kept     history: texts of the document whose answer was still in the *)
(*            buffer after a session that had no position to send          *)

Answers == [commit : 0..MaxCommits, composing : BOOLEAN]

Service ==
  [engine : BOOLEAN, waiting : BOOLEAN, given : 0..MaxCommits,
   buffer : Answers \cup {Noise}, status : BOOLEAN, comp : Nat,
   open : SUBSET (Nat \ {0}), text : Seq(1..MaxCommits),
   kept : SUBSET (1..MaxCommits)]

-----------------------------------------------------------------------------
(* Requests.  The first 12 bytes of the buffer are the request that was    *)
(* sent last; an answer without text leaves the rest.  The line that lists *)
(* the answer's actions is gone then, and the parser ignores the others.   *)

Sent(w) == [w EXCEPT !.buffer = Noise]

\* ClearComposition.
Cleared(w) == [Sent(w) EXCEPT !.engine = FALSE]

\* _Respond: a text that waits is in the next answer, and only in that one.
Answer(w, commits, composing) ==
  [w EXCEPT !.given = IF commits THEN @ + 1 ELSE @,
            !.waiting = FALSE,
            !.engine = composing,
            !.buffer = [commit |-> IF commits THEN w.given + 1 ELSE 0,
                        composing |-> composing]]

Responses(w) ==
  {Answer(w, commits, composing) :
     commits \in {k \in BOOLEAN : (w.waiting => k) /\ (k => w.given < MaxCommits)},
     composing \in BOOLEAN}

\* A session that the server no longer has; _Reconnect reads the status of
\* the new one.
Restarted(w) ==
  [Sent(w) EXCEPT !.engine = FALSE, !.waiting = FALSE, !.status = FALSE]

-----------------------------------------------------------------------------
(* Edit sessions. *)

\* An answer whose text is in the document stays in the buffer.
Unplaced(w) ==
  IF w.buffer = Noise \/ w.buffer.commit \notin ToSet(w.text) THEN w
  ELSE [w EXCEPT !.kept = @ \cup {w.buffer.commit}]

\* Mutant: no position is sent unless there is a composition.
PositionWhenComposing(w) ==
  IF w.comp # 0 THEN {Unplaced(w), Sent(w)} ELSE {w}

\* CGetTextExtentEditSession: the position is sent, or not: the application has
\* none (no selection, no extent, an empty rectangle), or has no view to ask for
\* one, or its first rectangle shows that it needs CUAS's workaround.
Position(w) == {Unplaced(w), Sent(w)}

\* Mutant: the server is not told of a composition that was terminated.
EndQuietly(w, c, clear) ==
  IF c = 0 THEN w
  ELSE IF clear /\ c \in w.open
       THEN [w EXCEPT !.open = @ \ {c, w.comp}, !.comp = 0]
       ELSE [w EXCEPT !.open = @ \ {c}, !.comp = 0]

\* CEndCompositionEditSession, for the composition there was when it was asked
\* for.  One that is emptied is reported to OnCompositionTerminated, which
\* clears the server's and ends the service's own; _FinalizeComposition forgets
\* the latter in any case.
End(w, c, clear) ==
  IF c = 0 THEN w
  ELSE IF clear /\ c \in w.open
       THEN [Cleared(w) EXCEPT !.open = @ \ {c, w.comp}, !.comp = 0]
       ELSE [w EXCEPT !.open = @ \ {c}, !.comp = 0]

Waiting == {queue[i].comp : i \in DOMAIN queue}

NewComposition(w) ==
  CHOOSE c \in 1..(MaxQueue + Cardinality(w.open) + 2) :
    c \notin w.open \cup {w.comp} \cup Waiting

\* _StartComposition
Started(w) ==
  LET c == NewComposition(w)
  IN [w EXCEPT !.open = @ \cup {c}, !.comp = c]

\* The first half of DoEditSession: the text is put in place of a composition,
\* one that is started for it if need be, which is closed with that.
Inserted(w) ==
  IF w.buffer = Noise THEN w
  ELSE LET v == [w EXCEPT !.status = w.buffer.composing]
       IN IF w.buffer.commit = 0 THEN v
          ELSE [v EXCEPT !.text = Append(@, w.buffer.commit),
                         !.open = @ \ {w.comp}, !.comp = 0]

\* Mutant: a composition is started whether or not there is one.
EditAnew(w) ==
  LET v == Inserted(w)
  IN {x \in Position(IF v.status THEN Started(v)
                     ELSE IF v.comp # 0 THEN End(v, v.comp, TRUE) ELSE v) :
        Len(x.text) <= MaxTexts}

\* The second half: the composition follows the server's.
Shown(v) ==
  IF v.status /\ v.comp = 0 THEN Started(v)
  ELSE IF ~v.status /\ v.comp # 0 THEN End(v, v.comp, TRUE)
  ELSE v

\* DoEditSession; the number of texts is bounded.
DoEditSession(w) ==
  {x \in Position(Shown(Inserted(w))) : Len(x.text) <= MaxTexts}

Session == [kind : {"update", "extent", "end"}, comp : Nat, clear : BOOLEAN]

Update == [kind |-> "update", comp |-> 0, clear |-> FALSE]
Extent == [kind |-> "extent", comp |-> 0, clear |-> FALSE]
Ending(c, clear) == [kind |-> "end", comp |-> c, clear |-> clear]

Run(w, session) ==
  CASE session.kind = "update" -> DoEditSession(w)
    [] session.kind = "extent" -> Position(w)
    [] session.kind = "end" -> {End(w, session.comp, session.clear)}

\* RequestEditSession from outside an edit session.
Ask(w, session) ==
  \/ /\ queue = <<>>
     /\ svc' \in Run(w, session)
     /\ UNCHANGED queue
  \/ /\ Len(queue) < MaxQueue
     /\ svc' = w
     /\ queue' = Append(queue, session)

\* _UpdateComposition: DoEditSession is asked for, then the text's extent.
UpdateComposition(w) ==
  \/ /\ queue = <<>>
     /\ \E v \in DoEditSession(w) : Ask(v, Extent)
     /\ async' = FALSE
     /\ UNCHANGED deferred
  \/ /\ Len(queue) + 2 <= MaxQueue
     /\ svc' = w
     /\ queue' = queue \o <<Update, Extent>>
     /\ async' = TRUE
     /\ deferred' = TRUE

\* The application unlocks the document.
RunSession ==
  /\ queue # <<>>
  /\ svc' \in Run(svc, Head(queue))
  /\ queue' = Tail(queue)
  /\ UNCHANGED <<async, pending, event, deferred, dropped>>

-----------------------------------------------------------------------------
(* Keys.  The application delivers a key event by OnKeyDown (OnKeyUp)      *)
(* alone, or tests it any number of times before; an event that the test   *)
(* did not eat it may keep to itself.                                      *)

NoEvent == [up |-> FALSE, open |-> FALSE, sent |-> FALSE, eaten |-> FALSE,
            again |-> FALSE]

BeginKey(up) ==
  /\ ~event.open
  /\ event' = [NoEvent EXCEPT !.up = up, !.open = TRUE]
  /\ UNCHANGED <<svc, queue, async, pending, deferred, dropped>>

\* _ProcessKeyEvent.  A key goes no further if the keyboard is disabled or
\* closed, if there is no server, or if ConvertKeyEvent does not know it.
Processed ==
  [svc : {svc, Sent(svc), Restarted(svc)}, eaten : {FALSE}, sent : {FALSE}]
    \cup
  [svc : Responses(svc) \cup Responses(Restarted(svc)), eaten : BOOLEAN,
   sent : {TRUE}]

\* What the application learns, and what has happened to the event.
Told(eaten, sent) ==
  [event EXCEPT !.sent = @ \/ sent,
                !.again = @ \/ (sent /\ event.eaten),
                !.eaten = @ \/ eaten]

\* Mutant: an eaten key is not remembered.
TestAndForget(up) ==
  /\ event.open /\ event.up = up
  /\ IF pending[up]
     THEN /\ pending' = [pending EXCEPT ![~up] = FALSE]
          /\ event' = Told(TRUE, FALSE)
          /\ UNCHANGED <<svc, queue, async, deferred>>
     ELSE \E p \in Processed :
            /\ UpdateComposition(p.svc)
            /\ pending' = [pending EXCEPT ![~up] = FALSE]
            /\ event' = Told(p.eaten, p.sent)
  /\ UNCHANGED dropped

\* OnTestKeyDown, OnTestKeyUp.
TestKey(up) ==
  /\ event.open /\ event.up = up
  /\ IF pending[up]
     THEN /\ pending' = [pending EXCEPT ![~up] = FALSE]
          /\ event' = Told(TRUE, FALSE)
          /\ UNCHANGED <<svc, queue, async, deferred>>
     ELSE \E p \in Processed :
            /\ UpdateComposition(p.svc)
            /\ pending' = [pending EXCEPT ![~up] = FALSE, ![up] = p.eaten]
            /\ event' = Told(p.eaten, p.sent)
  /\ UNCHANGED dropped

\* Mutant: no update after any OnKeyUp.
TakeKeyQuietly(up) ==
  /\ event.open /\ event.up = up
  /\ pending' = [k \in BOOLEAN |-> FALSE]
  /\ IF pending[up]
     THEN /\ event' = [Told(TRUE, FALSE) EXCEPT !.open = FALSE]
          /\ UNCHANGED <<svc, queue, async, deferred>>
     ELSE \E p \in Processed :
            /\ event' = [Told(p.eaten, p.sent) EXCEPT !.open = FALSE]
            /\ IF up
               THEN svc' = p.svc /\ UNCHANGED <<queue, async, deferred>>
               ELSE UpdateComposition(p.svc)
  /\ UNCHANGED dropped

\* Mutant: a key that was taken stays noted.
TakeNoted(up) ==
  /\ event.open /\ event.up = up
  /\ pending' = [pending EXCEPT ![~up] = FALSE]
  /\ IF pending[up]
     THEN /\ event' = [Told(TRUE, FALSE) EXCEPT !.open = FALSE]
          /\ UNCHANGED <<svc, queue, async, deferred>>
     ELSE \E p \in Processed :
            /\ event' = [Told(p.eaten, p.sent) EXCEPT !.open = FALSE]
            /\ IF up /\ async
               THEN svc' = p.svc /\ UNCHANGED <<queue, async, deferred>>
               ELSE UpdateComposition(p.svc)
  /\ UNCHANGED dropped

\* OnKeyDown, OnKeyUp.  The latter leaves the answer to the session that the
\* last update has put off, if it has.
TakeKey(up) ==
  /\ event.open /\ event.up = up
  /\ pending' = [k \in BOOLEAN |-> FALSE]
  /\ IF pending[up]
     THEN /\ event' = [Told(TRUE, FALSE) EXCEPT !.open = FALSE]
          /\ UNCHANGED <<svc, queue, async, deferred>>
     ELSE \E p \in Processed :
            /\ event' = [Told(p.eaten, p.sent) EXCEPT !.open = FALSE]
            /\ IF up /\ async
               THEN svc' = p.svc /\ UNCHANGED <<queue, async, deferred>>
               ELSE UpdateComposition(p.svc)
  /\ UNCHANGED dropped

\* The application keeps a key that the test did not eat.
KeepKey ==
  /\ event.open /\ event.sent /\ ~event.eaten
  /\ event' = [event EXCEPT !.open = FALSE]
  /\ UNCHANGED <<svc, queue, async, pending, deferred, dropped>>

-----------------------------------------------------------------------------
(* What else the application, the user and Windows call. *)

keyVars == <<pending, event>>

\* HandleUICallback for hovering and scrolling: the answer is read as a key's.
Browse ==
  /\ \E w \in Responses(svc) : UpdateComposition(w)
  /\ UNCHANGED <<keyVars, dropped>>

\* A click on a candidate has no answer: the text waits for the next key, the
\* VK_SELECT that is sent after it.  So does one that LangouBridgeClient queues.
Select ==
  /\ ~svc.waiting /\ svc.given < MaxCommits
  /\ \E composing \in {FALSE, svc.engine} :
       svc' = [Sent(svc) EXCEPT !.waiting = TRUE, !.engine = composing]
  /\ UNCHANGED <<queue, async, keyVars, deferred, dropped>>

Offer ==
  /\ ~svc.waiting /\ svc.given < MaxCommits
  /\ svc' = [svc EXCEPT !.waiting = TRUE]
  /\ UNCHANGED <<queue, async, keyVars, deferred, dropped>>

\* OnSetThreadFocus sends an empty key and reads the status of its answer.
ThreadFocus ==
  /\ svc.waiting => svc.given < MaxCommits
  /\ \E composing \in {FALSE, svc.engine} :
       svc' = [Answer(svc, svc.waiting, composing) EXCEPT !.status = composing]
  /\ dropped' = IF svc.waiting THEN dropped \cup {svc'.given} ELSE dropped
  /\ UNCHANGED <<queue, async, keyVars, deferred>>

\* FocusIn and the commands of the language bar.
Notify ==
  /\ svc' = Sent(svc)
  /\ UNCHANGED <<queue, async, keyVars, deferred, dropped>>

\* _AbortComposition: OnSetFocus, OnKillThreadFocus, Abort; or, without
\* clearing, FinalizeExactCompositionString.
AbortComposition(clear) ==
  /\ IF svc.comp # 0
     THEN Ask(Cleared(svc), Ending(svc.comp, clear))
     ELSE svc' = Cleared(svc) /\ UNCHANGED queue
  /\ UNCHANGED <<async, keyVars, deferred, dropped>>

\* The application ends a composition, and OnCompositionTerminated is called.
Terminate(c) ==
  /\ c \in svc.open
  /\ LET w == [Cleared(svc) EXCEPT !.open = @ \ {c}]
     IN IF w.comp # 0
        THEN Ask(w, Ending(w.comp, TRUE))
        ELSE svc' = w /\ UNCHANGED queue
  /\ UNCHANGED <<async, keyVars, deferred, dropped>>

\* OnEndEdit: the caret has left the composition.
LeaveComposition ==
  /\ svc.comp # 0
  /\ Ask(svc, Ending(svc.comp, TRUE))
  /\ UNCHANGED <<async, keyVars, deferred, dropped>>

\* OnLayoutChange
ChangeLayout ==
  /\ svc.comp # 0
  /\ Ask(svc, Extent)
  /\ UNCHANGED <<async, keyVars, deferred, dropped>>

\* _HandleCompartment: the keyboard is closed ...
CloseKeyboard ==
  /\ Ask(Cleared(svc), Ending(svc.comp, TRUE))
  /\ UNCHANGED <<async, keyVars, deferred, dropped>>

\* ... or the mode toggled, which ends the server's composition only ...
ToggleMode ==
  /\ svc' = Cleared(svc)
  /\ UNCHANGED <<queue, async, keyVars, deferred, dropped>>

\* ... or the conversion mode has changed: the last answer is read once more.
ReadStatus ==
  /\ svc.buffer # Noise
  /\ svc' = [svc EXCEPT !.status = svc.buffer.composing]
  /\ UNCHANGED <<queue, async, keyVars, deferred, dropped>>

-----------------------------------------------------------------------------

Init ==
  /\ svc = [engine |-> FALSE, waiting |-> FALSE, given |-> 0, buffer |-> Noise,
            status |-> FALSE, comp |-> 0, open |-> {}, text |-> <<>>,
            kept |-> {}]
  /\ queue = <<>>
  /\ async = FALSE
  /\ pending = [k \in BOOLEAN |-> FALSE]
  /\ event = NoEvent
  /\ deferred = FALSE
  /\ dropped = {}

Next ==
  \/ RunSession
  \/ \E up \in BOOLEAN : BeginKey(up) \/ TestKey(up) \/ TakeKey(up)
  \/ KeepKey
  \/ Browse \/ Select \/ Offer \/ ThreadFocus \/ Notify
  \/ \E clear \in BOOLEAN : AbortComposition(clear)
  \/ \E c \in svc.open : Terminate(c)
  \/ LeaveComposition \/ ChangeLayout
  \/ CloseKeyboard \/ ToggleMode \/ ReadStatus

Spec == Init /\ [][Next]_vars

-----------------------------------------------------------------------------

TypeOK ==
  /\ svc \in Service /\ IsFiniteSet(svc.open)
  /\ queue \in Seq(Session) /\ Len(queue) <= MaxQueue
  /\ async \in BOOLEAN
  /\ pending \in [BOOLEAN -> BOOLEAN]
  /\ \A up \in BOOLEAN : pending[up] => event.open /\ event.up = up
  /\ event \in [up : BOOLEAN, open : BOOLEAN, sent : BOOLEAN, eaten : BOOLEAN,
                again : BOOLEAN]
  /\ deferred \in BOOLEAN
  /\ dropped \subseteq 1..MaxCommits

\* Texts are inserted in the order of their commits, and none twice, whichever
\* sessions are put off and however often DoEditSession reads the buffer: only an
\* answer that was left there for want of a position can be read again.
CommitOnce ==
  \A i, j \in DOMAIN svc.text : i < j =>
    svc.text[i] < svc.text[j]
      \/ (svc.text[i] = svc.text[j] /\ svc.text[j] \in svc.kept)

\* A key event that the service has eaten was sent to the server, and is not sent
\* again, however often it is tested first (_fTestKeyDownPending).
EatenOnce ==
  event.eaten => event.sent /\ ~event.again

\* Unless DoEditSession was put off, every text the server has committed in an
\* answer is in the document, except one in the answer to the empty key.
CommitsArrive ==
  ~deferred =>
    \A n \in 1..svc.given : n \in ToSet(svc.text) \cup dropped

\* Unless DoEditSession was put off, what the server composes is shown: the
\* document has a composition that the service holds on to.
PreeditShown ==
  ~deferred /\ queue = <<>> /\ svc.engine => svc.comp \in svc.open

\* Unless DoEditSession was put off, no composition is left behind in the
\* document.
NoOrphan ==
  ~deferred => svc.open \subseteq {svc.comp}

=============================================================================
