----------------------------- MODULE CommitBridge -----------------------------
(***************************************************************************)
(* How a suggestion the user clicks in the Windows assistant reaches the   *)
(* chat window: AssistantCoordinator and MainWindow offer a batch of       *)
(* suggestions, LangouPipeServer sends the clicked one over the named pipe *)
(* and waits two seconds for an acknowledgement, LangouBridgeClient in     *)
(* WeaselServer queues it for the active TSF session and injects a key,    *)
(* and the session's next response to TSF carries the text.                *)
(*                                                                         *)
(* Four threads of two processes meet here: the assistant's UI thread,     *)
(* where the coordinator's tasks, the clicks and the continuations of      *)
(* SendCommitAsync run between their awaits, and its accept loop on the    *)
(* thread pool; the bridge thread, and the pipe threads of Weasel's        *)
(* server, which one lock serialises.                                      *)
(***************************************************************************)
EXTENDS Naturals, Sequences

CONSTANTS
  Clicks,    \* clicks on a suggestion, each one call of SendCommitAsync
  Sessions,  \* TSF sessions, each an input field with the focus at times
  MaxBatch,  \* bound: how many batches of suggestions the backend gives
  PipeLines, \* how many lines the pipe's buffers of 4096 bytes hold each way
  None

ASSUME ConstantsAssumption ==
  /\ MaxBatch \in Nat \ {0}
  /\ PipeLines \in Nat \ {0}
  /\ None \notin Clicks \cup Sessions \cup BOOLEAN

\* A batch stands for its request id, a fresh GUID; 0 for none.
Batch == 1..MaxBatch

VARIABLES
  selection,  \* the batch of _selection and _activeRequestId, 0 at first
  shown,      \* MainWindow shows its suggestions
  calls,      \* the calls of SendCommitAsync
  pending,    \* _pendingCommits: request id -> the call it will complete
  server,     \* where AcceptLoopAsync is
  toBridge,   \* command lines in the pipe
  toServer,   \* acknowledgement lines in the pipe
  bridge,     \* where the bridge thread is, and with which command
  active,     \* m_active_session
  commits,    \* m_external_commits
  queued,     \* history: what the bridge put in m_external_commits, in order
  written     \* history: the texts written, and where

vars == <<selection, shown, calls, pending, server, toBridge, toServer,
          bridge, active, commits, queued, written>>

uiVars     == <<selection, shown>>
callVars   == <<calls, pending>>
pipeVars   == <<server, toBridge, toServer>>
engineVars == <<active, commits, queued, written>>

\* sending: before _writerLock; writing: under it, until the line is in the
\* pipe; ending: an answer of its own, before the finally block.  answer: the
\* result of the TaskCompletionSource, then of the call.
Call == [step : {"idle", "sending", "writing", "waiting", "ending", "done"},
         batch : 0..MaxBatch, answer : BOOLEAN \cup {None}]

Idle == [step |-> "idle", batch |-> 0, answer |-> None]

Acknowledgement == [batch : Batch, accepted : BOOLEAN]

Target == [click : Clicks, session : Sessions]
Commit == [click : Clicks, session : Sessions, fresh : BOOLEAN]

\* Stopped: WeaselServer is not connected to the pipe.
Stopped == [step |-> "stopped", click |-> None, session |-> None, accepted |-> FALSE]
Reading == [Stopped EXCEPT !.step = "reading"]

Bridge ==
  [step : {"stopped", "reading", "queueing", "injecting", "answering"},
   click : Clicks \cup {None}, session : Sessions \cup {None},
   accepted : BOOLEAN]

TypeOK ==
  /\ selection \in 0..MaxBatch
  /\ shown \in BOOLEAN
  /\ calls \in [Clicks -> Call]
  /\ pending \in [Batch -> Clicks \cup {None}]
  /\ server \in {"listening", "reading", "rejecting", "failing", "dead"}
  /\ toBridge \in Seq(Clicks) /\ Len(toBridge) <= PipeLines
  /\ toServer \in Seq(Acknowledgement) /\ Len(toServer) <= PipeLines
  /\ bridge \in Bridge
  /\ active \in Sessions \cup {None}
  /\ commits \in Seq(Commit) /\ Len(commits) <= 1
  /\ queued \in Seq(Target)
  /\ written \in Seq(Target)

Init ==
  /\ selection = 0 /\ shown = FALSE
  /\ calls = [c \in Clicks |-> Idle]
  /\ pending = [b \in Batch |-> None]
  /\ server = "listening"
  /\ toBridge = <<>> /\ toServer = <<>>
  /\ bridge = Stopped
  /\ active = None
  /\ commits = <<>> /\ queued = <<>> /\ written = <<>>

-----------------------------------------------------------------------------
(* The assistant's window. *)

\* GenerateAfterDebounceAsync after its last await: the batch, its request id
\* and the window change together, on the UI thread.
ShowSuggestions ==
  /\ selection < MaxBatch
  /\ selection' = selection + 1
  /\ shown' = TRUE
  /\ UNCHANGED <<callVars, pipeVars, bridge, engineVars>>

\* ShowLoading, ShowUnavailable, CloseButton_Click
Hide ==
  /\ shown
  /\ shown' = FALSE
  /\ UNCHANGED <<selection, callVars, pipeVars, bridge, engineVars>>

\* Suggestion_Click and CommitSuggestionAsync, to the first await
Click(c) ==
  /\ calls[c].step = "idle"
  /\ shown
  /\ LET call == [step |-> "sending", batch |-> selection, answer |-> None]
     IN IF pending[selection] = None
          THEN /\ calls' = [calls EXCEPT ![c] = call]
               /\ pending' = [pending EXCEPT ![selection] = c]
          ELSE /\ calls' = [calls EXCEPT ![c] = [call EXCEPT !.step = "done",
                                                             !.answer = FALSE]]
               /\ UNCHANGED pending
  /\ UNCHANGED <<uiVars, pipeVars, bridge, engineVars>>

-----------------------------------------------------------------------------
(* LangouPipeServer. *)

IsConnected == server = "reading" /\ bridge # Stopped

\* Nobody has _writerLock.
LockIsFree == \A c \in Clicks : calls[c].step # "writing"

Fail(c) ==
  calls' = [calls EXCEPT ![c] = [@ EXCEPT !.step = "ending", !.answer = FALSE]]

\* SendLineAsync takes _writerLock and begins to write ...
SendLine(c) ==
  /\ calls[c].step = "sending"
  /\ LockIsFree
  /\ IF IsConnected THEN calls' = [calls EXCEPT ![c].step = "writing"]
     ELSE Fail(c)
  /\ UNCHANGED <<uiVars, pending, pipeVars, bridge, engineVars>>

\* ... which ends when the line fits into the pipe, or with an IOException
\* when the bridge is gone; there is no time-out.
WriteLine(c) ==
  /\ calls[c].step = "writing"
  /\ \/ /\ IsConnected
        /\ Len(toBridge) < PipeLines
        /\ toBridge' = Append(toBridge, c)
        /\ calls' = [calls EXCEPT ![c].step = "waiting"]
     \/ /\ ~IsConnected
        /\ Fail(c)
        /\ UNCHANGED toBridge
  /\ UNCHANGED <<uiVars, pending, server, toServer, bridge, engineVars>>

\* Mutant: a call waits for its acknowledgement, however long that takes.
NoTimeout(c) == FALSE /\ UNCHANGED vars

Timeout(c) ==
  /\ calls[c].step = "waiting"
  /\ calls[c].answer = None
  /\ Fail(c)
  /\ UNCHANGED <<uiVars, pending, pipeVars, bridge, engineVars>>

\* The finally block, and Suggestion_Click after its await; the entry that is
\* removed may be that of a later call.
Finish(c) ==
  /\ \/ calls[c].step = "ending"
     \/ calls[c].step = "waiting" /\ calls[c].answer # None
  /\ calls' = [calls EXCEPT ![c].step = "done"]
  /\ pending' = [pending EXCEPT ![calls[c].batch] = None]
  /\ shown' = (shown /\ ~calls[c].answer)
  /\ UNCHANGED <<selection, pipeVars, bridge, engineVars>>

\* TrySetResult of the call's completion source
Answered(c, accepted) ==
  IF calls[c].step \in {"sending", "writing", "waiting"} /\ calls[c].answer = None
    THEN [calls[c] EXCEPT !.answer = accepted] ELSE calls[c]

\* HandleIncomingLine for an acknowledgement; other lines are ignored.
HandleIncomingLine ==
  /\ server = "reading"
  /\ toServer # <<>>
  /\ LET acknowledgement == Head(toServer)
         c == pending[acknowledgement.batch]
     IN /\ pending' = [pending EXCEPT ![acknowledgement.batch] = None]
        /\ calls' = IF c = None THEN calls
                    ELSE [calls EXCEPT ![c] = Answered(c, acknowledgement.accepted)]
  /\ toServer' = Tail(toServer)
  /\ UNCHANGED <<uiVars, server, toBridge, bridge, engineVars>>

\* ReadLineAsync meets the end of the pipe, or an IOException before it; the
\* writer is disposed of, which throws, and ends AcceptLoopAsync for good, if
\* it still has a write under way.
EndConnection ==
  /\ server = "reading"
  /\ bridge = Stopped
  /\ \/ server' = "rejecting"
     \/ ~LockIsFree /\ server' = "failing"
  /\ toServer' = <<>>
  /\ UNCHANGED <<uiVars, callVars, toBridge, bridge, engineVars>>

\* The finally block of AcceptLoopAsync, which waits for _writerLock
RejectPendingCommits ==
  /\ server \in {"rejecting", "failing"}
  /\ LockIsFree
  /\ server' = IF server = "failing" THEN "dead" ELSE "listening"
  /\ calls' = [c \in Clicks |->
                 IF \E b \in Batch : pending[b] = c THEN Answered(c, FALSE)
                 ELSE calls[c]]
  /\ pending' = [b \in Batch |-> None]
  /\ UNCHANGED <<uiVars, toBridge, toServer, bridge, engineVars>>

-----------------------------------------------------------------------------
(* LangouBridgeClient and RimeWithWeaselHandler::QueueExternalCommitText.  *)

Connect ==
  /\ server = "listening"
  /\ bridge = Stopped
  /\ server' = "reading"
  /\ bridge' = Reading
  /\ UNCHANGED <<uiVars, callVars, toBridge, toServer, engineVars>>

\* WeaselServer stops or crashes, with its sessions and what it has queued.
StopWeasel ==
  /\ bridge # Stopped
  /\ bridge' = Stopped
  /\ toBridge' = <<>>
  /\ active' = None
  /\ commits' = <<>>
  /\ UNCHANGED <<uiVars, callVars, server, toServer, queued, written>>

\* A command line is read, and the active session looked up.
HandleLine ==
  /\ bridge = Reading
  /\ toBridge # <<>>
  /\ bridge' = [step |-> IF active = None THEN "answering" ELSE "queueing",
                click |-> Head(toBridge), session |-> active,
                accepted |-> FALSE]
  /\ toBridge' = Tail(toBridge)
  /\ UNCHANGED <<uiVars, callVars, server, toServer, engineVars>>

\* Mutant: the commands that are still queued stay.
QueueBehind ==
  /\ bridge.step = "queueing"
  /\ IF active # bridge.session
       THEN /\ bridge' = [bridge EXCEPT !.step = "answering"]
            /\ UNCHANGED <<commits, queued>>
       ELSE LET target == [click |-> bridge.click, session |-> bridge.session]
            IN /\ bridge' = [bridge EXCEPT !.step = "injecting"]
               /\ commits' = Append(commits, [click |-> target.click,
                                session |-> target.session, fresh |-> TRUE])
               /\ queued' = Append(queued, target)
  /\ UNCHANGED <<uiVars, callVars, pipeVars, active, written>>

\* Under m_external_commit_mutex; a command replaces the one before it.
QueueExternalCommit ==
  /\ bridge.step = "queueing"
  /\ IF active # bridge.session
       THEN /\ bridge' = [bridge EXCEPT !.step = "answering"]
            /\ UNCHANGED <<commits, queued>>
       ELSE LET target == [click |-> bridge.click, session |-> bridge.session]
            IN /\ bridge' = [bridge EXCEPT !.step = "injecting"]
               /\ commits' = <<[click |-> target.click,
                                session |-> target.session, fresh |-> TRUE]>>
               /\ queued' = Append(queued, target)
  /\ UNCHANGED <<uiVars, callVars, pipeVars, active, written>>

\* SendInput of VK_SELECT
SendInput(sent) ==
  /\ bridge.step = "injecting"
  /\ bridge' = [bridge EXCEPT !.step = "answering", !.accepted = sent]
  /\ commits' = IF sent THEN commits ELSE <<>>
  /\ UNCHANGED <<uiVars, callVars, pipeVars, active, queued, written>>

\* Mutant: every command that was understood is acknowledged.
AcknowledgeAll ==
  /\ bridge.step = "answering"
  /\ Len(toServer) < PipeLines
  /\ toServer' = Append(toServer, [batch |-> calls[bridge.click].batch,
                                   accepted |-> TRUE])
  /\ bridge' = Reading
  /\ UNCHANGED <<uiVars, callVars, server, toBridge, engineVars>>

Acknowledge ==
  /\ bridge.step = "answering"
  /\ Len(toServer) < PipeLines
  /\ toServer' = Append(toServer, [batch |-> calls[bridge.click].batch,
                                   accepted |-> bridge.accepted])
  /\ bridge' = Reading
  /\ UNCHANGED <<uiVars, callVars, server, toBridge, engineVars>>

-----------------------------------------------------------------------------
(* RimeWithWeaselHandler, called by the TSF clients. *)

\* Mutant: the text is read and stays.
PeekExternalCommit(s) ==
  IF commits # <<>> /\ Head(commits).session = s /\ Head(commits).fresh
    THEN /\ UNCHANGED commits
         /\ written' = Append(written, [click |-> Head(commits).click, session |-> s])
    ELSE /\ commits' = <<>>
         /\ UNCHANGED written

\* Mutant: whoever answers first takes the text.
TakeAnywhere(s) ==
  IF commits # <<>> /\ Head(commits).fresh
    THEN /\ commits' = Tail(commits)
         /\ written' = Append(written, [click |-> Head(commits).click, session |-> s])
    ELSE /\ commits' = <<>>
         /\ UNCHANGED written

\* _TakeExternalCommit, with the commit message _Respond makes of it
TakeExternalCommit(s) ==
  IF commits # <<>> /\ Head(commits).session = s /\ Head(commits).fresh
    THEN /\ commits' = Tail(commits)
         /\ written' = Append(written, [click |-> Head(commits).click, session |-> s])
    ELSE /\ commits' = <<>>
         /\ UNCHANGED written

\* ProcessKeyEvent, for the injected key or another, and AddSession
ProcessKeyEvent(s) ==
  /\ TakeExternalCommit(s)
  /\ active' = s
  /\ UNCHANGED <<uiVars, callVars, pipeVars, bridge, queued>>

\* HighlightCandidateOnCurrentPage, ChangePage
ChangePage(s) ==
  /\ TakeExternalCommit(s)
  /\ UNCHANGED <<uiVars, callVars, pipeVars, bridge, active, queued>>

\* FocusIn, UpdateInputPosition, CommitComposition and ClearComposition; None
\* for FocusOut and RemoveSession of any session, and Finalize
Focus(s) ==
  /\ active # s
  /\ active' = s
  /\ UNCHANGED <<uiVars, callVars, pipeVars, bridge, commits, queued, written>>

\* Five seconds pass.
Expire ==
  /\ \E i \in DOMAIN commits : commits[i].fresh
  /\ commits' = [i \in DOMAIN commits |-> [commits[i] EXCEPT !.fresh = FALSE]]
  /\ UNCHANGED <<uiVars, callVars, pipeVars, bridge, active, queued, written>>

-----------------------------------------------------------------------------
Assistant ==
  \/ ShowSuggestions \/ Hide
  \/ \E c \in Clicks :
       Click(c) \/ SendLine(c) \/ WriteLine(c) \/ Timeout(c) \/ Finish(c)
  \/ HandleIncomingLine \/ EndConnection \/ RejectPendingCommits

\* The bridge thread handles a command.
Handling ==
  \/ HandleLine \/ QueueExternalCommit \/ Acknowledge
  \/ \E sent \in BOOLEAN : SendInput(sent)

Weasel ==
  \/ Connect \/ StopWeasel
  \/ Handling
  \/ \E s \in Sessions : ProcessKeyEvent(s) \/ ChangePage(s)
  \/ \E s \in Sessions \cup {None} : Focus(s)
  \/ Expire

Next == Assistant \/ Weasel

Spec == Init /\ [][Next]_vars

\* The UI thread runs its continuations, the timer fires, and as long as they
\* are connected the bridge thread and the accept loop handle what they read;
\* nobody owes a click or a connection.
FairSpec ==
  /\ Spec
  /\ \A c \in Clicks : WF_vars(SendLine(c) \/ WriteLine(c)) /\ WF_vars(Timeout(c) \/ Finish(c))
  /\ WF_vars(Handling) /\ WF_vars(HandleIncomingLine)

-----------------------------------------------------------------------------
(* A click is written at most once, whatever times out, reconnects, is     *)
(* queued again or answered twice.                                         *)
WrittenOnce ==
  \A i, j \in DOMAIN written :
    written[i].click = written[j].click => i = j

(* What is written is the command that was queued last, in the session     *)
(* that was active when it was queued: an older text never follows a newer *)
(* one, and no text lands in another window.                               *)
NewestIsWritten ==
  [][written' # written =>
       /\ queued # <<>>
       /\ written' = Append(written, queued[Len(queued)])]_vars

(* A call that reports success has had a text of its batch queued for the  *)
(* active session.                                                         *)
SuccessMeansQueued ==
  \A c \in Clicks : calls[c].step = "done" /\ calls[c].answer = TRUE =>
    \E i \in DOMAIN queued : calls[queued[i].click].batch = calls[c].batch

(* Every click is answered, if a bridge that is connected goes on reading: *)
(* the write of a command has no time-out, only the wait for its           *)
(* acknowledgement has.                                                    *)
ClicksAreAnswered ==
  \A c \in Clicks : calls[c].step = "sending" ~> calls[c].step = "done"

(* A click that is reported as failed ("the field has lost the focus, go   *)
(* back to the chat and retry") has not been written, so the retry does    *)
(* not write twice.                                                        *)
FailureMeansNotWritten ==
  \A c \in Clicks : calls[c].step = "done" /\ calls[c].answer = FALSE =>
    \A i \in DOMAIN written : written[i].click # c

\* One text at most waits; a stale one only waits to be dropped.
Delivery == INSTANCE ClickDelivery WITH
  asked <- [c \in Clicks |-> IF calls[c].step = "idle" THEN 0 ELSE calls[c].batch],
  told <- [c \in Clicks |-> IF calls[c].step = "done" THEN calls[c].answer ELSE None],
  focus <- active,
  box <- {[click |-> commits[i].click, session |-> commits[i].session] :
            i \in {j \in DOMAIN commits : commits[j].fresh}},
  used <- {queued[i].click : i \in DOMAIN queued}

(* The tasks, the two processes and the queue give a click what            *)
(* ClickDelivery promises it: a text for the window that had the focus, at *)
(* most once and never after a newer one, and no success without a text.   *)
ImplementsDelivery == Delivery!Spec
=============================================================================
