-------------------------- MODULE CommitBridgeProofs --------------------------
(***************************************************************************)
(* Proofs about the way of a clicked suggestion into the chat window.      *)
(*                                                                         *)
(* A command moves from the pipe to the bridge, to the queue and to the    *)
(* window, and is never in two of these places: that is the history part   *)
(* of the invariant, and it gives WrittenOnce and NewestIsWritten.  The    *)
(* answer takes the other way; it and the entries of _pendingCommits speak *)
(* of batches, which is why SuccessMeansQueued is about the batch.         *)
(***************************************************************************)
EXTENDS CommitBridge, SequenceTheorems, TLAPS

InQueued(c) == \E i \in DOMAIN queued : queued[i].click = c

BatchQueued(b) == \E i \in DOMAIN queued : calls[queued[i].click].batch = b

\* A call whose command has gone into the pipe
Sent(c) == calls[c].step \in {"waiting", "ending", "done"}

\* What has been clicked has a batch.
CallsHaveBatch ==
  /\ shown => selection \in Batch
  /\ \A c \in Clicks : calls[c].step # "idle" => calls[c].batch \in Batch

\* In the pipe: sent once, not yet seen by the bridge
PipeInv ==
  /\ \A i, j \in DOMAIN toBridge : toBridge[i] = toBridge[j] => i = j
  /\ \A i \in DOMAIN toBridge :
       /\ Sent(toBridge[i])
       /\ ~InQueued(toBridge[i])
       /\ bridge.click # toBridge[i]

\* At the bridge
BridgeInv ==
  /\ bridge.step \in {"stopped", "reading"} => bridge = Stopped \/ bridge = Reading
  /\ bridge.step \in {"queueing", "injecting", "answering"} =>
       bridge.click \in Clicks /\ Sent(bridge.click)
  /\ bridge.step = "queueing" =>
       /\ bridge.session \in Sessions
       /\ ~bridge.accepted
       /\ ~InQueued(bridge.click)
  /\ bridge.step = "injecting" => InQueued(bridge.click)
  /\ bridge.accepted => InQueued(bridge.click)

\* Queued, and then written
QueuedInv ==
  /\ \A i, j \in DOMAIN queued : queued[i].click = queued[j].click => i = j
  /\ \A i \in DOMAIN queued : Sent(queued[i].click)
  /\ commits # <<>> =>
       /\ queued # <<>>
       /\ commits[1].click = queued[Len(queued)].click
       /\ commits[1].session = queued[Len(queued)].session
       /\ \A i \in DOMAIN written : written[i].click # commits[1].click
  /\ \A i \in DOMAIN written : InQueued(written[i].click)

\* A success on its way back
AnswersInv ==
  /\ \A i \in DOMAIN toServer : toServer[i].accepted => BatchQueued(toServer[i].batch)
  /\ \A c \in Clicks : calls[c].answer = TRUE => BatchQueued(calls[c].batch)

(* An entry of _pendingCommits belongs to a call still under way, so no    *)
(* later click is refused because of it.                                   *)
EntriesHaveCalls ==
  \A b \in Batch : pending[b] # None =>
    /\ calls[pending[b]].batch = b
    /\ calls[pending[b]].step \in {"sending", "writing", "waiting", "ending"}

IInv ==
  /\ TypeOK
  /\ CallsHaveBatch
  /\ PipeInv
  /\ BridgeInv
  /\ QueuedInv
  /\ WrittenOnce
  /\ EntriesHaveCalls
  /\ AnswersInv

-----------------------------------------------------------------------------
(* The sequences. *)

LEMMA SeqFacts ==
  ASSUME NEW S, NEW seq \in Seq(S)
  PROVE  /\ DOMAIN seq = 1..Len(seq) /\ Len(seq) \in Nat
         /\ \A i \in DOMAIN seq : seq[i] \in S
  BY LenProperties, ElementOfSeq

LEMMA AppendFacts ==
  ASSUME NEW S, NEW seq \in Seq(S), NEW e \in S
  PROVE  /\ Append(seq, e) \in Seq(S) /\ Append(seq, e) # <<>>
         /\ Len(Append(seq, e)) = Len(seq) + 1
         /\ DOMAIN Append(seq, e) = DOMAIN seq \cup {Len(seq) + 1}
         /\ Len(seq) + 1 \notin DOMAIN seq
         /\ \A i \in DOMAIN seq : Append(seq, e)[i] = seq[i]
         /\ Append(seq, e)[Len(seq) + 1] = e
  <1>1. /\ Append(seq, e) \in Seq(S)
        /\ Len(Append(seq, e)) = Len(seq) + 1
        /\ \A i \in 1..Len(seq) : Append(seq, e)[i] = seq[i]
        /\ Append(seq, e)[Len(seq) + 1] = e
    BY AppendProperties
  <1>2. /\ DOMAIN seq = 1..Len(seq) /\ Len(seq) \in Nat
        /\ DOMAIN Append(seq, e) = 1..(Len(seq) + 1)
    BY <1>1, LenProperties
  <1>3. Append(seq, e) # <<>>
    BY <1>1, <1>2, EmptySeq
  <1>4. QED
    BY <1>1, <1>2, <1>3

LEMMA TailFacts ==
  ASSUME NEW S, NEW seq \in Seq(S), seq # <<>>
  PROVE  /\ Tail(seq) \in Seq(S) /\ Len(Tail(seq)) = Len(seq) - 1
         /\ 1 \in DOMAIN seq /\ Head(seq) = seq[1]
         /\ \A i \in DOMAIN Tail(seq) :
              i \in Nat \ {0} /\ i + 1 \in DOMAIN seq /\ Tail(seq)[i] = seq[i + 1]
  <1>1. /\ Tail(seq) \in Seq(S)
        /\ Len(Tail(seq)) = Len(seq) - 1
        /\ \A i \in 1..Len(Tail(seq)) : Tail(seq)[i] = seq[i + 1]
    BY HeadTailProperties
  <1>2. /\ DOMAIN seq = 1..Len(seq) /\ Len(seq) \in Nat
        /\ DOMAIN Tail(seq) = 1..Len(Tail(seq))
    BY <1>1, LenProperties
  <1>3. Len(seq) > 0 /\ Head(seq) = seq[1]
    OBVIOUS
  <1>4. QED
    BY <1>1, <1>2, <1>3

\* An empty pipe, and one that a line has been read from, is not too full.
LEMMA EmptyPipe == Len(<<>>) <= PipeLines
  BY ConstantsAssumption

LEMMA ReadPipe ==
  ASSUME NEW S, NEW seq \in Seq(S), seq # <<>>, Len(seq) <= PipeLines
  PROVE  Len(Tail(seq)) <= PipeLines
  <1>1. Len(Tail(seq)) = Len(seq) - 1 /\ Len(seq) \in Nat
    BY TailFacts, LenProperties
  <1>2. QED
    BY <1>1, ConstantsAssumption

LEMMA Elements ==
  ASSUME IInv
  PROVE  /\ toBridge \in Seq(Clicks) /\ \A i \in DOMAIN toBridge : toBridge[i] \in Clicks
         /\ queued \in Seq(Target) /\ \A i \in DOMAIN queued : queued[i].click \in Clicks
         /\ written \in Seq(Target) /\ \A i \in DOMAIN written : written[i].click \in Clicks
         /\ toServer \in Seq(Acknowledgement)
         /\ \A i \in DOMAIN toServer : toServer[i] \in Acknowledgement
  <1>1. /\ toBridge \in Seq(Clicks) /\ toServer \in Seq(Acknowledgement)
        /\ queued \in Seq(Target) /\ written \in Seq(Target)
    BY DEF IInv, TypeOK
  <1>2. /\ \A i \in DOMAIN toBridge : toBridge[i] \in Clicks
        /\ \A i \in DOMAIN toServer : toServer[i] \in Acknowledgement
    BY <1>1, SeqFacts
  <1>3. /\ \A i \in DOMAIN queued : queued[i] \in Target
        /\ \A i \in DOMAIN written : written[i] \in Target
    BY <1>1, SeqFacts
  <1>4. QED
    BY <1>1, <1>2, <1>3 DEF Target

\* The bridge handles a command that was sent, or none.
LEMMA AtBridge ==
  ASSUME IInv, bridge.click \in Clicks
  PROVE  Sent(bridge.click)
  <1>1. bridge.step \in {"queueing", "injecting", "answering"}
    BY ConstantsAssumption DEF IInv, TypeOK, Bridge, BridgeInv, Stopped, Reading
  <1>2. QED
    BY <1>1 DEF IInv, BridgeInv

-----------------------------------------------------------------------------
LEMMA InitIInv == Init => IInv
  <1> SUFFICES ASSUME Init PROVE IInv
    OBVIOUS
  <1>1. /\ Idle \in Call /\ Stopped \in Bridge
        /\ selection \in 0..MaxBatch /\ active \in Sessions \cup {None}
    BY ConstantsAssumption DEF Init, Idle, Call, Bridge, Stopped
  <1>2. TypeOK
    <2>1. toBridge \in Seq(Clicks) /\ toServer \in Seq(Acknowledgement)
      BY DEF Init
    <2>2. /\ commits \in Seq(Commit) /\ Len(commits) <= 1
          /\ queued \in Seq(Target) /\ written \in Seq(Target)
      BY DEF Init
    <2>3. calls \in [Clicks -> Call] /\ pending \in [Batch -> Clicks \cup {None}]
      BY <1>1 DEF Init
    <2>4. QED
      BY <1>1, <2>1, <2>2, <2>3, EmptyPipe, ReadPipe DEF Init, TypeOK
  <1>3. CallsHaveBatch /\ EntriesHaveCalls
    BY DEF Init, Idle, CallsHaveBatch, EntriesHaveCalls
  <1>4. PipeInv /\ BridgeInv
    BY DEF Init, PipeInv, BridgeInv, Stopped
  <1>5. QueuedInv /\ WrittenOnce
    BY DEF Init, QueuedInv, WrittenOnce
  <1>6. AnswersInv
    <2>1. None # TRUE
      BY ConstantsAssumption
    <2>2. \A c \in Clicks : calls[c].answer # TRUE
      BY <2>1 DEF Init, Idle
    <2>3. DOMAIN toServer = {}
      BY DEF Init
    <2>4. QED
      BY <2>2, <2>3 DEF AnswersInv
  <1>7. QED
    BY <1>2, <1>3, <1>4, <1>5, <1>6 DEF IInv

-----------------------------------------------------------------------------
(* Steps of the assistant: a call goes on, its command does not move. *)

CallsGoOn ==
  \A c \in Clicks :
    /\ Sent(c) => Sent(c)'
    /\ calls[c].step # "idle" => calls'[c].step # "idle" /\ calls'[c].batch = calls[c].batch

LEMMA AssistantStep ==
  ASSUME IInv, CallsGoOn, UNCHANGED <<bridge, toBridge, engineVars>>
  PROVE  /\ PipeInv' /\ BridgeInv' /\ QueuedInv' /\ WrittenOnce'
         /\ \A b : BatchQueued(b) => BatchQueued(b)'
  <1>1. UNCHANGED <<bridge, toBridge, commits, queued, written>>
    BY DEF engineVars
  <1>2. /\ \A i \in DOMAIN toBridge : toBridge[i] \in Clicks
        /\ \A i \in DOMAIN queued : queued[i].click \in Clicks
    BY Elements
  <1>3. \A c : InQueued(c)' <=> InQueued(c)
    BY <1>1 DEF InQueued
  <1>4. PipeInv'
    BY <1>1, <1>2, <1>3 DEF IInv, PipeInv, CallsGoOn
  <1>5. BridgeInv'
    BY <1>1, <1>3 DEF IInv, BridgeInv, CallsGoOn
  <1>6. QueuedInv' /\ WrittenOnce'
    BY <1>1, <1>2, <1>3 DEF IInv, QueuedInv, WrittenOnce, CallsGoOn
  <1>7. \A b : BatchQueued(b) => BatchQueued(b)'
    BY <1>1, <1>2 DEF IInv, QueuedInv, BatchQueued, Sent, CallsGoOn
  <1>8. QED
    BY <1>4, <1>5, <1>6, <1>7

\* A step of the assistant that answers no call with a success
LEMMA NoSuccess ==
  ASSUME IInv, CallsGoOn, UNCHANGED <<bridge, toBridge, toServer, engineVars>>,
         \A c \in Clicks : calls'[c].answer = TRUE =>
           calls[c].answer = TRUE /\ calls'[c].batch = calls[c].batch
  PROVE  AnswersInv'
  BY AssistantStep DEF IInv, AnswersInv

LEMMA ClickIInv ==
  ASSUME IInv, NEW c \in Clicks, Click(c) PROVE IInv'
  <1>1. PICK call \in Call :
          /\ calls' = [calls EXCEPT ![c] = call]
          /\ call.step \in {"sending", "done"} /\ call.batch = selection /\ call.answer # TRUE
          /\ \/ pending' = pending /\ call.step = "done"
             \/ pending' = [pending EXCEPT ![selection] = c] /\ call.step = "sending"
    <2>1. [step |-> "sending", batch |-> selection, answer |-> None] \in Call
      BY DEF IInv, TypeOK, Call
    <2>2. [step |-> "done", batch |-> selection, answer |-> FALSE] \in Call
      BY DEF IInv, TypeOK, Call
    <2>3. None # TRUE
      BY ConstantsAssumption
    <2>4. CASE pending[selection] = None
      BY <2>1, <2>3, <2>4 DEF Click
    <2>5. CASE pending[selection] # None
      BY <2>2, <2>5 DEF Click
    <2>6. QED
      BY <2>4, <2>5
  <1>2. /\ calls[c].step = "idle" /\ selection \in Batch
        /\ UNCHANGED <<selection, shown, bridge, toBridge, toServer, server, engineVars>>
    BY DEF Click, IInv, CallsHaveBatch, uiVars, pipeVars
  <1>3. /\ calls'[c] = call
        /\ \A d \in Clicks \ {c} : calls'[d] = calls[d]
    BY <1>1 DEF IInv, TypeOK
  <1>4. TypeOK'
    BY <1>1, <1>2 DEF IInv, TypeOK, engineVars
  <1>5. CallsGoOn
    BY <1>2, <1>3 DEF CallsGoOn, Sent
  <1>6. CallsHaveBatch'
    BY <1>1, <1>2, <1>3 DEF IInv, CallsHaveBatch
  <1>7. EntriesHaveCalls'
    BY <1>1, <1>2, <1>3 DEF IInv, TypeOK, EntriesHaveCalls
  <1>8. AnswersInv'
    BY <1>1, <1>2, <1>3, <1>5, NoSuccess
  <1>9. QED
    BY <1>2, <1>4, <1>5, <1>6, <1>7, <1>8, AssistantStep DEF IInv

-----------------------------------------------------------------------------
(* What a step writes to its call. *)

LEMMA StepFacts ==
  ASSUME IInv, NEW c \in Clicks, NEW step \in {"writing", "waiting", "ending", "done"},
         calls[c].step # "idle", step = "writing" => calls[c].step = "sending",
         calls' = [calls EXCEPT ![c].step = step]
  PROVE  /\ calls' \in [Clicks -> Call] /\ CallsGoOn
         /\ \A d \in Clicks \ {c} : calls'[d] = calls[d]
         /\ calls'[c].step = step
         /\ calls'[c].batch = calls[c].batch
         /\ calls'[c].answer = calls[c].answer
  BY DEF IInv, TypeOK, Call, CallsGoOn, Sent

LEMMA FailFacts ==
  ASSUME IInv, NEW c \in Clicks, calls[c].step # "idle", calls[c].step # "done",
         calls' = [calls EXCEPT ![c] = [@ EXCEPT !.step = "ending", !.answer = FALSE]]
  PROVE  /\ calls' \in [Clicks -> Call] /\ CallsGoOn
         /\ \A d \in Clicks \ {c} : calls'[d] = calls[d]
         /\ calls'[c].step = "ending"
         /\ calls'[c].batch = calls[c].batch
         /\ calls'[c].answer = FALSE
  BY DEF IInv, TypeOK, Call, CallsGoOn, Sent

LEMMA AnsweredFacts ==
  ASSUME IInv, NEW c \in Clicks, NEW accepted \in BOOLEAN
  PROVE  /\ Answered(c, accepted) \in Call
         /\ Answered(c, accepted).step = calls[c].step
         /\ Answered(c, accepted).batch = calls[c].batch
         /\ Answered(c, accepted).answer \in {calls[c].answer, accepted}
  BY DEF IInv, TypeOK, Call, Answered

-----------------------------------------------------------------------------
(* The assistant. *)

LEMMA WindowIInv ==
  ASSUME IInv, ShowSuggestions \/ Hide PROVE IInv'
  <1>1. UNCHANGED <<callVars, pipeVars, bridge, engineVars>>
    BY DEF ShowSuggestions, Hide
  <1>2. /\ selection' \in 0..MaxBatch /\ shown' \in BOOLEAN
        /\ shown' => selection' \in Batch
    <2>1. MaxBatch \in Nat /\ selection \in 0..MaxBatch
      BY ConstantsAssumption DEF IInv, TypeOK
    <2>2. CASE ShowSuggestions
      BY <2>1, <2>2 DEF ShowSuggestions, Batch
    <2>3. CASE Hide
      BY <2>1, <2>3 DEF Hide
    <2>4. QED
      BY <2>2, <2>3
  <1>3. TypeOK'
    BY <1>1, <1>2 DEF IInv, TypeOK, callVars, pipeVars, engineVars
  <1>4. CallsGoOn
    BY <1>1 DEF CallsGoOn, Sent, callVars
  <1>5. CallsHaveBatch' /\ EntriesHaveCalls' /\ AnswersInv'
    BY <1>1, <1>2, <1>4, NoSuccess
       DEF IInv, CallsHaveBatch, EntriesHaveCalls, callVars, pipeVars
  <1>6. QED
    BY <1>1, <1>3, <1>4, <1>5, AssistantStep DEF IInv, pipeVars

\* A call that has sent nothing fails, or takes the lock.
LEMMA UnsentIInv ==
  ASSUME IInv, NEW c \in Clicks, calls[c].step \in {"sending", "writing"},
         \/ Fail(c)
         \/ calls[c].step = "sending" /\ calls' = [calls EXCEPT ![c].step = "writing"],
         UNCHANGED <<uiVars, pending, server, toBridge, toServer, bridge, engineVars>>
  PROVE  IInv'
  <1>1. /\ calls' \in [Clicks -> Call] /\ CallsGoOn
        /\ \A d \in Clicks \ {c} : calls'[d] = calls[d]
        /\ calls'[c].step \in {"writing", "ending"}
        /\ calls'[c].batch = calls[c].batch
        /\ calls'[c].answer \in {calls[c].answer, FALSE}
    <2>1. CASE Fail(c)
      BY <2>1, FailFacts DEF Fail
    <2>2. CASE calls[c].step = "sending" /\ calls' = [calls EXCEPT ![c].step = "writing"]
      BY <2>2, StepFacts
    <2>3. QED
      BY <2>1, <2>2
  <1>2. TypeOK'
    BY <1>1 DEF IInv, TypeOK, uiVars, engineVars
  <1>3. CallsHaveBatch' /\ EntriesHaveCalls'
    BY <1>1 DEF IInv, TypeOK, CallsHaveBatch, EntriesHaveCalls, uiVars
  <1>4. AnswersInv'
    BY <1>1, NoSuccess
  <1>5. QED
    BY <1>1, <1>2, <1>3, <1>4, AssistantStep DEF IInv

LEMMA SendLineIInv ==
  ASSUME IInv, NEW c \in Clicks, SendLine(c) PROVE IInv'
  BY UnsentIInv DEF SendLine, pipeVars

\* A command enters the pipe, where its call has not been before.
LEMMA WriteLineIInv ==
  ASSUME IInv, NEW c \in Clicks, WriteLine(c) PROVE IInv'
  <1>1. /\ calls[c].step = "writing" /\ calls[c].batch \in Batch
        /\ UNCHANGED <<selection, shown, pending, server, toServer, bridge, engineVars>>
    BY DEF WriteLine, uiVars, IInv, CallsHaveBatch
  <1>2. CASE IsConnected
    <2>1. /\ toBridge' = Append(toBridge, c) /\ Len(toBridge) < PipeLines
          /\ calls' = [calls EXCEPT ![c].step = "waiting"]
      BY <1>2 DEF WriteLine
    <2>2. /\ calls' \in [Clicks -> Call] /\ CallsGoOn
          /\ \A d \in Clicks \ {c} : calls'[d] = calls[d]
          /\ calls'[c].step = "waiting"
          /\ calls'[c].batch = calls[c].batch
          /\ calls'[c].answer = calls[c].answer
      BY <1>1, <2>1, StepFacts
    <2>3. UNCHANGED <<commits, queued, written, active>>
      BY <1>1 DEF engineVars
    <2>4. toBridge \in Seq(Clicks)
      BY DEF IInv, TypeOK
    <2>5. \A i \in DOMAIN queued : queued[i].click \in Clicks
      BY Elements
    <2>6. TypeOK'
      <3>1. /\ toBridge' \in Seq(Clicks) /\ Len(toBridge') = Len(toBridge) + 1
            /\ Len(toBridge) \in Nat /\ PipeLines \in Nat
        BY <2>1, <2>4, AppendFacts, LenProperties, ConstantsAssumption
      <3>2. Len(toBridge') <= PipeLines
        BY <2>1, <3>1
      <3>3. QED
        BY <1>1, <2>2, <2>3, <3>1, <3>2 DEF IInv, TypeOK
    <2>7. CallsHaveBatch' /\ EntriesHaveCalls'
      BY <1>1, <2>2 DEF IInv, TypeOK, CallsHaveBatch, EntriesHaveCalls
    <2>8. /\ \A d : InQueued(d)' <=> InQueued(d)
          /\ \A b : BatchQueued(b)' <=> BatchQueued(b)
      BY <2>2, <2>3, <2>5 DEF InQueued, BatchQueued
    <2>9. PipeInv'
      <3>1. ~Sent(c)
        BY <1>1 DEF Sent
      <3>2. ~InQueued(c) /\ \A i \in DOMAIN toBridge : toBridge[i] # c /\ toBridge[i] \in Clicks
        BY <3>1, Elements DEF IInv, PipeInv, QueuedInv, InQueued
      <3>3. bridge.click # c
        BY <3>1, AtBridge
      <3>4. QED
        BY <1>1, <2>1, <2>2, <2>4, <2>8, <3>2, <3>3, AppendFacts DEF IInv, PipeInv, Sent
    <2>10. BridgeInv' /\ QueuedInv' /\ WrittenOnce'
      BY <1>1, <2>2, <2>3, <2>5, <2>8
         DEF IInv, BridgeInv, QueuedInv, WrittenOnce, Sent
    <2>11. AnswersInv'
      BY <1>1, <2>2, <2>8 DEF IInv, AnswersInv
    <2>12. QED
      BY <2>6, <2>7, <2>9, <2>10, <2>11 DEF IInv
  <1>3. CASE ~IsConnected
    BY <1>1, <1>3, UnsentIInv DEF WriteLine
  <1>4. QED
    BY <1>2, <1>3

LEMMA TimeoutIInv ==
  ASSUME IInv, NEW c \in Clicks, Timeout(c) PROVE IInv'
  <1>1. /\ calls[c].step = "waiting"
        /\ calls' = [calls EXCEPT ![c] = [@ EXCEPT !.step = "ending", !.answer = FALSE]]
        /\ UNCHANGED <<selection, shown, pending, server, toBridge, toServer, bridge, engineVars>>
    BY DEF Timeout, Fail, uiVars, pipeVars
  <1>2. /\ calls' \in [Clicks -> Call] /\ CallsGoOn
        /\ \A d \in Clicks \ {c} : calls'[d] = calls[d]
        /\ calls'[c].step = "ending"
        /\ calls'[c].batch = calls[c].batch
        /\ calls'[c].answer = FALSE
    BY <1>1, FailFacts
  <1>3. TypeOK'
    BY <1>1, <1>2 DEF IInv, TypeOK, engineVars
  <1>4. CallsHaveBatch' /\ EntriesHaveCalls'
    BY <1>1, <1>2 DEF IInv, TypeOK, CallsHaveBatch, EntriesHaveCalls
  <1>5. AnswersInv'
    BY <1>1, <1>2, NoSuccess
  <1>6. QED
    BY <1>1, <1>2, <1>3, <1>4, <1>5, AssistantStep DEF IInv

\* The entry that goes may be another call's; an entry of this call goes.
LEMMA FinishIInv ==
  ASSUME IInv, NEW c \in Clicks, Finish(c) PROVE IInv'
  <1>1. /\ calls[c].step \in {"waiting", "ending"}
        /\ calls' = [calls EXCEPT ![c].step = "done"]
        /\ pending' = [pending EXCEPT ![calls[c].batch] = None]
        /\ shown' = (shown /\ ~calls[c].answer)
        /\ UNCHANGED <<selection, server, toBridge, toServer, bridge, engineVars>>
    BY DEF Finish, pipeVars
  <1>2. /\ calls' \in [Clicks -> Call] /\ CallsGoOn
        /\ \A d \in Clicks \ {c} : calls'[d] = calls[d]
        /\ calls'[c].step = "done"
        /\ calls'[c].batch = calls[c].batch
        /\ calls'[c].answer = calls[c].answer
    BY <1>1, StepFacts
  <1>3. /\ calls[c].batch \in Batch
        /\ shown' \in BOOLEAN /\ (shown' => shown)
    BY <1>1 DEF IInv, CallsHaveBatch
  <1>4. /\ pending' \in [Batch -> Clicks \cup {None}]
        /\ \A b \in Batch : pending'[b] # None => pending'[b] = pending[b] /\ b # calls[c].batch
    BY <1>1, <1>3 DEF IInv, TypeOK
  <1>5. TypeOK'
    BY <1>1, <1>2, <1>3, <1>4 DEF IInv, TypeOK, engineVars
  <1>6. CallsHaveBatch'
    BY <1>1, <1>2, <1>3 DEF IInv, CallsHaveBatch
  <1>7. EntriesHaveCalls'
    <2>1. ASSUME NEW b \in Batch, pending'[b] # None
          PROVE  /\ calls'[pending'[b]].batch = b
                 /\ calls'[pending'[b]].step \in {"sending", "writing", "waiting", "ending"}
      <3>1. /\ pending'[b] \in Clicks
            /\ calls[pending'[b]].batch = b /\ b # calls[c].batch
            /\ calls[pending'[b]].step \in {"sending", "writing", "waiting", "ending"}
        BY <1>4, <2>1 DEF IInv, EntriesHaveCalls
      <3>2. QED
        BY <1>2, <3>1
    <2>2. QED
      BY <2>1 DEF EntriesHaveCalls
  <1>8. AnswersInv'
    BY <1>1, <1>2, NoSuccess
  <1>9. QED
    BY <1>1, <1>2, <1>5, <1>6, <1>7, <1>8, AssistantStep DEF IInv

LEMMA HandleIncomingLineIInv ==
  ASSUME IInv, HandleIncomingLine PROVE IInv'
  <1> DEFINE ack == Head(toServer)
             c == pending[ack.batch]
  <1>1. /\ toServer \in Seq(Acknowledgement) /\ toServer # <<>>
        /\ toServer' = Tail(toServer)
        /\ pending' = [pending EXCEPT ![ack.batch] = None]
        /\ calls' = IF c = None THEN calls
                    ELSE [calls EXCEPT ![c] = Answered(c, ack.accepted)]
        /\ UNCHANGED <<selection, shown, server, toBridge, bridge, engineVars>>
    BY Elements DEF HandleIncomingLine, uiVars
  <1>2. /\ Tail(toServer) \in Seq(Acknowledgement)
        /\ 1 \in DOMAIN toServer /\ ack = toServer[1]
        /\ \A i \in DOMAIN Tail(toServer) :
             i + 1 \in DOMAIN toServer /\ Tail(toServer)[i] = toServer[i + 1]
    BY <1>1, TailFacts
  <1>3. /\ ack \in Acknowledgement
        /\ ack.accepted => BatchQueued(ack.batch)
    BY <1>2, Elements DEF IInv, AnswersInv
  <1>4. ack.batch \in Batch /\ ack.accepted \in BOOLEAN
    BY <1>3 DEF Acknowledgement
  <1>5. c \in Clicks \cup {None} /\ (c # None => c \in Clicks /\ calls[c].batch = ack.batch)
    BY <1>4 DEF IInv, TypeOK, EntriesHaveCalls
  <1>6. /\ calls' \in [Clicks -> Call]
        /\ \A d \in Clicks :
             /\ calls'[d].step = calls[d].step
             /\ calls'[d].batch = calls[d].batch
             /\ calls'[d].answer # calls[d].answer => d = c /\ calls'[d].answer = ack.accepted
    <2>1. CASE c = None
      BY <1>1, <2>1 DEF IInv, TypeOK
    <2>2. CASE c # None
      <3>1. /\ c \in Clicks
            /\ Answered(c, ack.accepted) \in Call
            /\ Answered(c, ack.accepted).step = calls[c].step
            /\ Answered(c, ack.accepted).batch = calls[c].batch
            /\ Answered(c, ack.accepted).answer \in {calls[c].answer, ack.accepted}
        BY <1>4, <1>5, <2>2, AnsweredFacts
      <3>2. calls' = [calls EXCEPT ![c] = Answered(c, ack.accepted)]
        BY <1>1, <2>2
      <3>3. QED
        BY <3>1, <3>2 DEF IInv, TypeOK
    <2>3. QED
      BY <2>1, <2>2
  <1>7. CallsGoOn
    BY <1>6 DEF CallsGoOn, Sent
  <1>8. /\ pending' \in [Batch -> Clicks \cup {None}]
        /\ \A b \in Batch : pending'[b] # None => pending'[b] = pending[b]
    BY <1>1, <1>4 DEF IInv, TypeOK
  <1>9. TypeOK'
    <2>1. Len(toServer') <= PipeLines
      BY <1>1, EmptyPipe, ReadPipe DEF IInv, TypeOK
    <2>2. QED
      BY <1>1, <1>2, <1>6, <1>8, <2>1 DEF IInv, TypeOK, engineVars
  <1>10. CallsHaveBatch'
    BY <1>1, <1>6 DEF IInv, CallsHaveBatch
  <1>11. EntriesHaveCalls'
    BY <1>6, <1>8 DEF IInv, EntriesHaveCalls
  <1>12. /\ PipeInv' /\ BridgeInv' /\ QueuedInv' /\ WrittenOnce'
         /\ \A b : BatchQueued(b) => BatchQueued(b)'
    BY <1>1, <1>7, AssistantStep
  <1>13. AnswersInv'
    <2>1. ASSUME NEW i \in DOMAIN Tail(toServer), NEW b, Tail(toServer)[i].accepted,
                 b = Tail(toServer)[i].batch
          PROVE  BatchQueued(b)'
      <3>1. /\ i + 1 \in DOMAIN toServer
            /\ toServer[i + 1].accepted /\ b = toServer[i + 1].batch
        BY <1>2, <2>1
      <3>2. BatchQueued(b)
        BY <3>1 DEF IInv, AnswersInv
      <3>3. QED
        BY <1>12, <3>2
    <2>2. ASSUME NEW d \in Clicks, NEW b, calls'[d].answer = TRUE, b = calls'[d].batch
          PROVE  BatchQueued(b)'
      <3>1. b = calls[d].batch
        BY <1>6, <2>2
      <3>2. CASE calls[d].answer = TRUE
        <4>1. BatchQueued(b)
          BY <3>1, <3>2 DEF IInv, AnswersInv
        <4>2. QED
          BY <1>12, <4>1
      <3>3. CASE calls[d].answer # TRUE
        <4>1. d = c /\ ack.accepted = TRUE
          BY <1>6, <2>2, <3>3
        <4>2. b = ack.batch
          BY <1>5, <3>1, <4>1, ConstantsAssumption
        <4>3. BatchQueued(b)
          BY <1>3, <4>1, <4>2
        <4>4. QED
          BY <1>12, <4>3
      <3>4. QED
        BY <3>2, <3>3
    <2>3. toServer' = Tail(toServer)
      BY <1>1
    <2>4. QED
      BY <2>1, <2>2, <2>3 DEF AnswersInv
  <1>14. QED
    BY <1>9, <1>10, <1>11, <1>12, <1>13 DEF IInv

LEMMA RejectPendingCommitsIInv ==
  ASSUME IInv, RejectPendingCommits PROVE IInv'
  <1>1. /\ calls' = [c \in Clicks |-> IF \E b \in Batch : pending[b] = c
                                        THEN Answered(c, FALSE) ELSE calls[c]]
        /\ pending' = [b \in Batch |-> None]
        /\ server' \in {"listening", "dead"}
        /\ UNCHANGED <<selection, shown, toBridge, toServer, bridge, engineVars>>
    BY DEF RejectPendingCommits, uiVars
  <1>2. ASSUME NEW c \in Clicks
        PROVE  /\ calls'[c] \in Call
               /\ calls'[c].step = calls[c].step
               /\ calls'[c].batch = calls[c].batch
               /\ calls'[c].answer \in {calls[c].answer, FALSE}
    <2>1. calls'[c] \in {calls[c], Answered(c, FALSE)}
      BY <1>1
    <2>2. calls[c] \in Call
      BY DEF IInv, TypeOK
    <2>3. /\ Answered(c, FALSE) \in Call
          /\ Answered(c, FALSE).step = calls[c].step
          /\ Answered(c, FALSE).batch = calls[c].batch
          /\ Answered(c, FALSE).answer \in {calls[c].answer, FALSE}
      BY AnsweredFacts
    <2>4. QED
      BY <2>1, <2>2, <2>3
  <1>3. CallsGoOn
    BY <1>2 DEF CallsGoOn, Sent
  <1>4. calls' \in [Clicks -> Call]
    BY <1>1, <1>2
  <1>5. TypeOK'
    BY <1>1, <1>4 DEF IInv, TypeOK, engineVars
  <1>6. CallsHaveBatch' /\ EntriesHaveCalls'
    BY <1>1, <1>2 DEF IInv, CallsHaveBatch, EntriesHaveCalls
  <1>7. AnswersInv'
    BY <1>1, <1>2, <1>3, NoSuccess
  <1>8. QED
    BY <1>1, <1>3, <1>5, <1>6, <1>7, AssistantStep DEF IInv

LEMMA EndConnectionIInv ==
  ASSUME IInv, EndConnection PROVE IInv'
  <1>1. /\ toServer' = <<>> /\ server' \in {"rejecting", "failing"}
        /\ UNCHANGED <<selection, shown, calls, pending, toBridge, bridge, engineVars>>
    BY DEF EndConnection, uiVars, callVars
  <1>2. CallsGoOn
    BY <1>1 DEF CallsGoOn, Sent
  <1>3. TypeOK'
    BY <1>1, EmptySeq, EmptyPipe, ReadPipe DEF IInv, TypeOK, engineVars
  <1>4. CallsHaveBatch' /\ EntriesHaveCalls'
    BY <1>1 DEF IInv, CallsHaveBatch, EntriesHaveCalls
  <1>5. /\ PipeInv' /\ BridgeInv' /\ QueuedInv' /\ WrittenOnce'
        /\ \A b : BatchQueued(b) => BatchQueued(b)'
    BY <1>1, <1>2, AssistantStep
  <1>6. AnswersInv'
    BY <1>1, <1>5 DEF IInv, AnswersInv
  <1>7. QED
    BY <1>3, <1>4, <1>5, <1>6 DEF IInv

-----------------------------------------------------------------------------
(* Weasel: no call changes. *)

LEMMA WeaselStep ==
  ASSUME IInv, UNCHANGED <<uiVars, callVars>>
  PROVE  /\ CallsHaveBatch' /\ EntriesHaveCalls'
         /\ \A c \in Clicks : Sent(c)' <=> Sent(c)
         /\ \A c : calls'[c] = calls[c]
  BY DEF IInv, CallsHaveBatch, EntriesHaveCalls, Sent, uiVars, callVars

\* A step that neither queues nor writes
LEMMA HistoryStays ==
  ASSUME IInv, UNCHANGED <<uiVars, callVars, queued, written>>
  PROVE  /\ \A c : InQueued(c)' <=> InQueued(c)
         /\ \A b : BatchQueued(b)' <=> BatchQueued(b)
         /\ WrittenOnce'
         /\ commits' = <<>> => QueuedInv'
         /\ commits' = commits => QueuedInv'
  <1>1. UNCHANGED <<queued, written>>
    OBVIOUS
  <1>2. /\ \A c : InQueued(c)' <=> InQueued(c)
        /\ \A b : BatchQueued(b)' <=> BatchQueued(b)
    BY <1>1, WeaselStep DEF InQueued, BatchQueued
  <1>3. /\ WrittenOnce'
        /\ \A i \in DOMAIN queued : Sent(queued[i].click)'
    BY <1>1, Elements, WeaselStep DEF IInv, WrittenOnce, QueuedInv
  <1>4. (commits' = <<>> => QueuedInv') /\ (commits' = commits => QueuedInv')
    BY <1>1, <1>2, <1>3 DEF IInv, QueuedInv
  <1>5. QED
    BY <1>2, <1>3, <1>4

LEMMA ConnectIInv ==
  ASSUME IInv, Connect PROVE IInv'
  <1>1. /\ server' = "reading" /\ bridge = Stopped /\ bridge' = Reading
        /\ UNCHANGED <<selection, shown, calls, pending, toBridge, toServer, active,
                       commits, queued, written>>
        /\ UNCHANGED <<uiVars, callVars, queued, written>>
    BY DEF Connect, uiVars, callVars, engineVars
  <1>2. TypeOK'
    BY <1>1 DEF IInv, TypeOK, Bridge, Stopped, Reading
  <1>3. BridgeInv'
    BY <1>1 DEF BridgeInv, Stopped, Reading
  <1>4. PipeInv'
    BY <1>1, Elements, WeaselStep, HistoryStays DEF IInv, PipeInv, Stopped, Reading
  <1>5. AnswersInv'
    BY <1>1, HistoryStays DEF IInv, AnswersInv
  <1>6. QED
    BY <1>1, <1>2, <1>3, <1>4, <1>5, WeaselStep, HistoryStays DEF IInv

LEMMA StopWeaselIInv ==
  ASSUME IInv, StopWeasel PROVE IInv'
  <1>1. /\ bridge' = Stopped /\ toBridge' = <<>> /\ active' = None /\ commits' = <<>>
        /\ UNCHANGED <<selection, shown, calls, pending, server, toServer, queued, written>>
        /\ UNCHANGED <<uiVars, callVars, queued, written>>
    BY DEF StopWeasel, uiVars, callVars
  <1>2. TypeOK'
    BY <1>1, EmptySeq, EmptyPipe, ReadPipe DEF IInv, TypeOK, Bridge, Stopped
  <1>3. BridgeInv'
    BY <1>1 DEF BridgeInv, Stopped
  <1>4. PipeInv'
    BY <1>1 DEF PipeInv
  <1>5. AnswersInv'
    BY <1>1, HistoryStays DEF IInv, AnswersInv
  <1>6. QED
    BY <1>1, <1>2, <1>3, <1>4, <1>5, WeaselStep, HistoryStays DEF IInv

\* The first command leaves the pipe; the others in it are of other clicks.
LEMMA HandleLineIInv ==
  ASSUME IInv, HandleLine PROVE IInv'
  <1> DEFINE c == Head(toBridge)
             step == IF active = None THEN "answering" ELSE "queueing"
  <1>1. /\ toBridge \in Seq(Clicks) /\ toBridge # <<>> /\ toBridge' = Tail(toBridge)
        /\ bridge' = [step |-> step, click |-> c, session |-> active, accepted |-> FALSE]
        /\ UNCHANGED <<selection, shown, calls, pending, server, toServer, active, commits,
                       queued, written>>
        /\ UNCHANGED <<uiVars, callVars, queued, written>>
    BY Elements DEF HandleLine, uiVars, callVars, engineVars
  <1>2. /\ Tail(toBridge) \in Seq(Clicks)
        /\ 1 \in DOMAIN toBridge /\ c = toBridge[1]
        /\ \A i \in DOMAIN Tail(toBridge) :
             i \in Nat \ {0} /\ i + 1 \in DOMAIN toBridge /\ Tail(toBridge)[i] = toBridge[i + 1]
    BY <1>1, TailFacts
  <1>3. c \in Clicks /\ Sent(c) /\ ~InQueued(c)
    BY <1>2, Elements DEF IInv, PipeInv
  <1>4. /\ bridge'.step = step /\ bridge'.click = c
        /\ bridge'.session = active /\ bridge'.accepted = FALSE
    BY <1>1
  <1>5. active \in Sessions \cup {None}
    BY DEF IInv, TypeOK
  <1>6. TypeOK'
    <2>1. bridge' \in Bridge
      BY <1>1, <1>3, <1>5 DEF Bridge
    <2>2. Len(toBridge') <= PipeLines
      BY <1>1, EmptyPipe, ReadPipe DEF IInv, TypeOK
    <2>3. QED
      BY <1>1, <1>2, <2>1, <2>2 DEF IInv, TypeOK
  <1>7. BridgeInv'
    <2>1. Sent(bridge.click)' /\ ~InQueued(bridge.click)'
      BY <1>1, <1>3, <1>4 DEF Sent, InQueued
    <2>2. QED
      BY <1>3, <1>4, <1>5, <2>1 DEF BridgeInv
  <1>8. PipeInv'
    <2>1. ASSUME NEW i \in DOMAIN Tail(toBridge), NEW j \in DOMAIN Tail(toBridge),
                 Tail(toBridge)[i] = Tail(toBridge)[j]
          PROVE  i = j
      <3>1. toBridge[i + 1] = toBridge[j + 1] /\ i + 1 \in DOMAIN toBridge
            /\ j + 1 \in DOMAIN toBridge /\ i \in Nat /\ j \in Nat
        BY <1>2, <2>1
      <3>2. i + 1 = j + 1
        BY <3>1 DEF IInv, PipeInv
      <3>3. QED
        BY <3>1, <3>2
    <2>2. ASSUME NEW i \in DOMAIN Tail(toBridge), NEW d, d = Tail(toBridge)[i]
          PROVE  Sent(d)' /\ ~InQueued(d)' /\ c # d
      <3>1. /\ i + 1 \in DOMAIN toBridge /\ d = toBridge[i + 1]
            /\ 1 \in DOMAIN toBridge /\ i \in Nat \ {0} /\ i + 1 # 1
        BY <1>2, <2>2
      <3>2. Sent(d) /\ ~InQueued(d) /\ d \in Clicks
        BY <3>1, Elements DEF IInv, PipeInv
      <3>3. c # d
        BY <1>2, <3>1 DEF IInv, PipeInv
      <3>4. QED
        BY <1>1, <3>2, <3>3, WeaselStep, HistoryStays
    <2>3. ASSUME NEW i \in DOMAIN toBridge'
          PROVE  /\ Sent(toBridge[i])' /\ ~InQueued(toBridge[i])'
                 /\ bridge'.click # toBridge'[i]
      <3>1. /\ toBridge'[i] = Tail(toBridge)[i] /\ i \in DOMAIN Tail(toBridge)
        BY <1>1
      <3>2. PICK d : d = toBridge'[i]
        OBVIOUS
      <3>3. Sent(d)' /\ ~InQueued(d)' /\ c # d
        BY <2>2, <3>1, <3>2
      <3>4. QED
        BY <1>4, <3>2, <3>3 DEF Sent, InQueued
    <2>4. QED
      BY <1>1, <2>1, <2>3 DEF PipeInv
  <1>9. AnswersInv'
    BY <1>1, HistoryStays DEF IInv, AnswersInv
  <1>10. QED
    BY <1>1, <1>6, <1>7, <1>8, <1>9, WeaselStep, HistoryStays DEF IInv

\* A command goes into the queue, alone; the bridge had not queued it before.
LEMMA QueueExternalCommitIInv ==
  ASSUME IInv, QueueExternalCommit PROVE IInv'
  <1> DEFINE target == [click |-> bridge.click, session |-> bridge.session]
             new == Len(queued) + 1
  <1>1. /\ bridge.step = "queueing"
        /\ UNCHANGED <<selection, shown, calls, pending, server, toBridge, toServer, active,
                       written>>
        /\ UNCHANGED <<uiVars, callVars>>
    BY DEF QueueExternalCommit, uiVars, callVars, pipeVars
  <1>2. /\ bridge \in Bridge /\ bridge.click \in Clicks /\ bridge.session \in Sessions
        /\ Sent(bridge.click) /\ ~InQueued(bridge.click)
        /\ ~bridge.accepted
    BY <1>1 DEF IInv, TypeOK, BridgeInv
  <1>3. CASE active # bridge.session
    <2>1. /\ bridge' = [bridge EXCEPT !.step = "answering"]
          /\ UNCHANGED <<commits, queued>>
      BY <1>3 DEF QueueExternalCommit
    <2>2. /\ bridge'.step = "answering" /\ bridge'.click = bridge.click
          /\ bridge'.accepted = bridge.accepted /\ bridge' \in Bridge
      BY <1>2, <2>1 DEF Bridge
    <2>3. TypeOK'
      BY <1>1, <2>1, <2>2 DEF IInv, TypeOK
    <2>4. BridgeInv'
      BY <1>1, <1>2, <2>2 DEF BridgeInv, Sent
    <2>5. PipeInv'
      BY <1>1, <2>1, <2>2, Elements, WeaselStep, HistoryStays DEF IInv, PipeInv
    <2>6. AnswersInv'
      BY <1>1, <2>1, HistoryStays DEF IInv, AnswersInv
    <2>7. QED
      BY <1>1, <2>1, <2>3, <2>4, <2>5, <2>6, WeaselStep, HistoryStays DEF IInv
  <1>4. CASE active = bridge.session
    <2>1. /\ bridge' = [bridge EXCEPT !.step = "injecting"]
          /\ commits' = <<[click |-> bridge.click, session |-> bridge.session, fresh |-> TRUE]>>
          /\ queued' = Append(queued, target)
      BY <1>4 DEF QueueExternalCommit
    <2>2. /\ bridge'.step = "injecting" /\ bridge'.click = bridge.click
          /\ bridge'.accepted = bridge.accepted /\ bridge' \in Bridge
      BY <1>2, <2>1 DEF Bridge
    <2>3. /\ queued \in Seq(Target) /\ target \in Target
          /\ \A i \in DOMAIN queued : queued[i].click \in Clicks
      BY <1>2, Elements DEF Target
    <2>4. /\ queued' \in Seq(Target) /\ queued' # <<>> /\ Len(queued') = new
          /\ DOMAIN queued' = DOMAIN queued \cup {new} /\ new \notin DOMAIN queued
          /\ \A i \in DOMAIN queued : queued'[i] = queued[i]
          /\ queued'[new] = target
      BY <2>1, <2>3, AppendFacts
    <2>5. /\ target.click = bridge.click /\ target.session = bridge.session
          /\ \A i \in DOMAIN queued : queued[i].click # bridge.click
      BY <1>2 DEF InQueued
    <2>6. \A c : InQueued(c)' <=> InQueued(c) \/ c = bridge.click
      BY <2>4, <2>5 DEF InQueued
    <2>7. \A b : BatchQueued(b) => BatchQueued(b)'
      BY <1>1, <2>4 DEF BatchQueued
    <2>8. /\ commits' \in Seq(Commit) /\ Len(commits') = 1 /\ commits' # <<>>
          /\ commits'[1].click = bridge.click /\ commits'[1].session = bridge.session
      BY <1>2, <2>1 DEF Commit
    <2>9. TypeOK'
      BY <1>1, <2>2, <2>4, <2>8 DEF IInv, TypeOK
    <2>10. BridgeInv'
      <3>1. InQueued(bridge.click)'
        BY <1>1, <2>2, <2>4, <2>5 DEF InQueued
      <3>2. QED
        BY <1>1, <1>2, <2>2, <3>1 DEF BridgeInv, Sent
    <2>11. PipeInv'
      <3>1. \A i \in DOMAIN toBridge :
              /\ toBridge[i] \in Clicks /\ Sent(toBridge[i]) /\ ~InQueued(toBridge[i])
              /\ bridge.click # toBridge[i]
        BY Elements DEF IInv, PipeInv
      <3>2. \A i \in DOMAIN toBridge : ~InQueued(toBridge[i])'
        BY <1>1, <2>6, <3>1
      <3>3. QED
        BY <1>1, <2>2, <3>1, <3>2, WeaselStep DEF IInv, PipeInv
    <2>12. QueuedInv'
      <3>1. \A i, j \in DOMAIN queued' : queued'[i].click = queued'[j].click => i = j
        BY <2>4, <2>5 DEF IInv, QueuedInv
      <3>2. \A i \in DOMAIN queued' : Sent(queued[i].click)'
        <4>1. \A i \in DOMAIN queued' : queued'[i].click \in Clicks /\ Sent(queued'[i].click)
          BY <1>2, <2>3, <2>4, <2>5 DEF IInv, QueuedInv
        <4>2. QED
          BY <1>1, <4>1 DEF Sent
      <3>3. \A i \in DOMAIN written : InQueued(written[i].click)
        BY DEF IInv, QueuedInv
      <3>4. \A i \in DOMAIN written : written[i].click # bridge.click
        BY <1>2, <3>3
      <3>5. \A i \in DOMAIN written : InQueued(written[i].click)'
        BY <1>1, <2>6, <3>3
      <3>6. /\ commits'[1].click = queued'[Len(queued')].click
            /\ commits'[1].session = queued'[Len(queued')].session
        BY <2>4, <2>5, <2>8
      <3>7. QED
        BY <1>1, <2>4, <2>8, <3>1, <3>2, <3>4, <3>5, <3>6 DEF QueuedInv
    <2>13. AnswersInv' /\ WrittenOnce'
      BY <1>1, <2>7 DEF IInv, AnswersInv, WrittenOnce
    <2>14. QED
      BY <1>1, <2>9, <2>10, <2>11, <2>12, <2>13, WeaselStep DEF IInv
  <1>5. QED
    BY <1>3, <1>4

LEMMA SendInputIInv ==
  ASSUME IInv, NEW sent \in BOOLEAN, SendInput(sent) PROVE IInv'
  <1>1. /\ bridge.step = "injecting"
        /\ bridge' = [bridge EXCEPT !.step = "answering", !.accepted = sent]
        /\ commits' = IF sent THEN commits ELSE <<>>
        /\ UNCHANGED <<selection, shown, calls, pending, server, toBridge, toServer, active,
                       queued, written>>
        /\ UNCHANGED <<uiVars, callVars, queued, written>>
    BY DEF SendInput, uiVars, callVars, pipeVars
  <1>2. /\ bridge \in Bridge /\ bridge.click \in Clicks
        /\ Sent(bridge.click) /\ InQueued(bridge.click)
    BY <1>1 DEF IInv, TypeOK, BridgeInv
  <1>3. /\ bridge'.step = "answering" /\ bridge'.click = bridge.click /\ bridge' \in Bridge
    BY <1>1, <1>2 DEF Bridge
  <1>4. TypeOK'
    <2>1. commits' \in Seq(Commit) /\ Len(commits') <= 1
      BY <1>1, EmptySeq DEF IInv, TypeOK
    <2>2. QED
      BY <1>1, <1>3, <2>1 DEF IInv, TypeOK
  <1>5. BridgeInv'
    BY <1>1, <1>2, <1>3 DEF BridgeInv, Sent, InQueued
  <1>6. PipeInv'
    BY <1>1, <1>3, Elements, WeaselStep, HistoryStays DEF IInv, PipeInv
  <1>7. QueuedInv'
    BY <1>1, HistoryStays
  <1>8. AnswersInv'
    BY <1>1, HistoryStays DEF IInv, AnswersInv
  <1>9. QED
    BY <1>1, <1>4, <1>5, <1>6, <1>7, <1>8, WeaselStep, HistoryStays DEF IInv

\* What is acknowledged with a success has been queued.
LEMMA AcknowledgeIInv ==
  ASSUME IInv, Acknowledge PROVE IInv'
  <1> DEFINE ack == [batch |-> calls[bridge.click].batch, accepted |-> bridge.accepted]
  <1>1. /\ bridge.step = "answering"
        /\ toServer' = Append(toServer, ack)
        /\ bridge' = Reading
        /\ UNCHANGED <<selection, shown, calls, pending, server, toBridge, active, commits,
                       queued, written>>
        /\ UNCHANGED <<uiVars, callVars, queued, written>>
    BY DEF Acknowledge, uiVars, callVars, engineVars
  <1>2. /\ bridge.accepted \in BOOLEAN /\ bridge.click \in Clicks /\ Sent(bridge.click)
        /\ bridge.accepted => InQueued(bridge.click)
    BY <1>1 DEF IInv, TypeOK, BridgeInv, Bridge
  <1>3. calls[bridge.click].batch \in Batch
    BY <1>2 DEF IInv, CallsHaveBatch, Sent
  <1>4. /\ toServer \in Seq(Acknowledgement) /\ ack \in Acknowledgement
        /\ ack.accepted = bridge.accepted /\ ack.batch = calls[bridge.click].batch
    BY <1>2, <1>3, Elements DEF Acknowledgement
  <1>5. /\ toServer' \in Seq(Acknowledgement)
        /\ DOMAIN toServer' = DOMAIN toServer \cup {Len(toServer) + 1}
        /\ \A i \in DOMAIN toServer : toServer'[i] = toServer[i]
        /\ toServer'[Len(toServer) + 1] = ack
    BY <1>1, <1>4, AppendFacts
  <1>6. TypeOK'
    <2>1. Len(toServer') = Len(toServer) + 1 /\ Len(toServer) \in Nat
      BY <1>1, <1>4, AppendFacts, LenProperties
    <2>2. Len(toServer') <= PipeLines
      BY <2>1, ConstantsAssumption DEF Acknowledge
    <2>3. QED
      BY <1>1, <1>5, <2>2 DEF IInv, TypeOK, Bridge, Reading, Stopped
  <1>7. BridgeInv'
    BY <1>1 DEF BridgeInv, Reading, Stopped
  <1>8. PipeInv'
    BY <1>1, Elements, WeaselStep, HistoryStays, ConstantsAssumption
       DEF IInv, PipeInv, Reading, Stopped
  <1>9. AnswersInv'
    <2>1. ack.accepted => BatchQueued(ack.batch)
      BY <1>2, <1>4 DEF InQueued, BatchQueued
    <2>2. ASSUME NEW i \in DOMAIN toServer', NEW b, toServer'[i].accepted,
                 b = toServer'[i].batch
          PROVE  BatchQueued(b)'
      <3>1. BatchQueued(b)
        BY <1>5, <2>1, <2>2 DEF IInv, AnswersInv
      <3>2. QED
        BY <1>1, <3>1, HistoryStays
    <2>3. ASSUME NEW c \in Clicks, NEW b, calls'[c].answer = TRUE, b = calls'[c].batch
          PROVE  BatchQueued(b)'
      <3>1. BatchQueued(b)
        BY <1>1, <2>3 DEF IInv, AnswersInv
      <3>2. QED
        BY <1>1, <3>1, HistoryStays
    <2>4. QED
      BY <2>2, <2>3 DEF AnswersInv
  <1>10. QED
    BY <1>1, <1>6, <1>7, <1>8, <1>9, WeaselStep, HistoryStays DEF IInv

-----------------------------------------------------------------------------
(* TSF clients. *)

LEMMA FocusIInv ==
  ASSUME IInv, NEW s \in Sessions \cup {None}, Focus(s) PROVE IInv'
  <1>1. /\ active' = s
        /\ UNCHANGED <<selection, shown, calls, pending, server, toBridge, toServer, bridge,
                       commits, queued, written>>
        /\ UNCHANGED <<uiVars, callVars, queued, written>>
    BY DEF Focus, uiVars, callVars, pipeVars
  <1>2. TypeOK'
    BY <1>1 DEF IInv, TypeOK
  <1>3. BridgeInv' /\ PipeInv'
    BY <1>1, Elements, WeaselStep, HistoryStays DEF IInv, PipeInv, BridgeInv
  <1>4. AnswersInv'
    BY <1>1, HistoryStays DEF IInv, AnswersInv
  <1>5. QED
    BY <1>1, <1>2, <1>3, <1>4, WeaselStep, HistoryStays DEF IInv

\* There is at most one command in the queue.
LEMMA OneCommit ==
  ASSUME IInv, commits # <<>>
  PROVE  /\ commits[1] \in Commit /\ Head(commits) = commits[1]
         /\ Len(commits) = 1 /\ Tail(commits) = <<>> /\ DOMAIN commits = {1}
  <1>1. commits \in Seq(Commit) /\ Len(commits) <= 1 /\ Len(commits) \in Nat
    BY LenProperties DEF IInv, TypeOK
  <1>2. /\ 1 \in DOMAIN commits /\ Head(commits) = commits[1]
        /\ Tail(commits) \in Seq(Commit) /\ Len(Tail(commits)) = Len(commits) - 1
    BY <1>1, TailFacts
  <1>3. DOMAIN commits = 1..Len(commits) /\ \A i \in DOMAIN commits : commits[i] \in Commit
    BY <1>1, SeqFacts
  <1>4. Len(commits) = 1
    BY <1>1, <1>2, <1>3
  <1>5. Tail(commits) = <<>>
    <2>1. Tail(commits) \in Seq(Commit) /\ Len(Tail(commits)) = 0
      BY <1>2, <1>4
    <2>2. QED
      BY <2>1, EmptySeq
  <1>6. QED
    BY <1>2, <1>3, <1>4, <1>5

LEMMA ExpireIInv ==
  ASSUME IInv, Expire PROVE IInv'
  <1>1. /\ commits # <<>>
        /\ commits' = [i \in DOMAIN commits |-> [commits[i] EXCEPT !.fresh = FALSE]]
        /\ UNCHANGED <<selection, shown, calls, pending, server, toBridge, toServer, bridge,
                       active, queued, written>>
        /\ UNCHANGED <<uiVars, callVars, queued, written>>
    BY DEF Expire, uiVars, callVars, pipeVars
  <1>2. commits[1] \in Commit /\ DOMAIN commits = {1}
    BY <1>1, OneCommit
  <1>3. /\ commits'[1] \in Commit /\ DOMAIN commits' = {1}
        /\ commits'[1].click = commits[1].click /\ commits'[1].session = commits[1].session
    BY <1>1, <1>2 DEF Commit
  <1>4. /\ commits' \in Seq(Commit) /\ Len(commits') = 1
    <2>1. commits \in Seq(Commit) /\ Len(commits) = 1 /\ 1 \in 1..Len(commits)
      BY <1>1, OneCommit DEF IInv, TypeOK
    <2>2. /\ [commits EXCEPT ![1] = commits'[1]] \in Seq(Commit)
          /\ Len([commits EXCEPT ![1] = commits'[1]]) = Len(commits)
      <3>1. PICK e \in Commit : e = commits'[1]
        BY <1>3
      <3>2. /\ [commits EXCEPT ![1] = e] \in Seq(Commit)
            /\ Len([commits EXCEPT ![1] = e]) = Len(commits)
        BY <2>1, SMTT(20)
      <3>3. QED
        BY <3>1, <3>2
    <2>3. commits' = [commits EXCEPT ![1] = commits'[1]]
      BY <1>1, <1>2
    <2>4. QED
      BY <2>1, <2>2, <2>3
  <1>5. TypeOK'
    BY <1>1, <1>4 DEF IInv, TypeOK
  <1>6. QueuedInv'
    <2>1. /\ queued # <<>>
          /\ commits[1].click = queued[Len(queued)].click
          /\ commits[1].session = queued[Len(queued)].session
          /\ \A i \in DOMAIN written : written[i].click # commits[1].click
      BY <1>1 DEF IInv, QueuedInv
    <2>2. /\ \A i \in DOMAIN queued : Sent(queued[i].click)'
          /\ \A i \in DOMAIN written : InQueued(written[i].click)
      BY <1>1, Elements, WeaselStep DEF IInv, QueuedInv
    <2>3. \A i \in DOMAIN written : InQueued(written[i].click)'
      BY <1>1, <2>2, HistoryStays
    <2>4. QED
      BY <1>1, <1>3, <2>1, <2>2, <2>3 DEF IInv, QueuedInv
  <1>7. BridgeInv' /\ PipeInv'
    BY <1>1, Elements, WeaselStep, HistoryStays DEF IInv, PipeInv, BridgeInv
  <1>8. AnswersInv'
    BY <1>1, HistoryStays DEF IInv, AnswersInv
  <1>9. QED
    BY <1>1, <1>5, <1>6, <1>7, <1>8, WeaselStep, HistoryStays DEF IInv

\* A response takes the command out of the queue, and may write it.
LEMMA TakeFacts ==
  ASSUME IInv, NEW s \in Sessions, TakeExternalCommit(s)
  PROVE  /\ commits' = <<>>
         /\ \/ written' = written
            \/ /\ queued # <<>>
               /\ \A i \in DOMAIN written : written[i].click # queued[Len(queued)].click
               /\ written' = Append(written, queued[Len(queued)])
  <1>1. CASE commits # <<>> /\ Head(commits).session = s /\ Head(commits).fresh
    <2>1. /\ commits' = Tail(commits)
          /\ written' = Append(written, [click |-> Head(commits).click, session |-> s])
      BY <1>1 DEF TakeExternalCommit
    <2>2. Head(commits) = commits[1] /\ Tail(commits) = <<>>
      BY <1>1, OneCommit
    <2>3. /\ queued # <<>>
          /\ commits[1].click = queued[Len(queued)].click
          /\ commits[1].session = queued[Len(queued)].session
          /\ \A i \in DOMAIN written : written[i].click # commits[1].click
      BY <1>1 DEF IInv, QueuedInv
    <2>4. queued[Len(queued)] \in Target
      <3>1. queued \in Seq(Target)
        BY Elements
      <3>2. Len(queued) \in Nat /\ Len(queued) # 0
        BY <2>3, <3>1, LenProperties, EmptySeq
      <3>3. QED
        BY <3>1, <3>2, ElementOfSeq
    <2>5. queued[Len(queued)] = [click |-> Head(commits).click, session |-> s]
      BY <1>1, <2>2, <2>3, <2>4 DEF Target
    <2>6. QED
      BY <2>1, <2>2, <2>3, <2>5
  <1>2. CASE ~(commits # <<>> /\ Head(commits).session = s /\ Head(commits).fresh)
    BY <1>2 DEF TakeExternalCommit
  <1>3. QED
    BY <1>1, <1>2

LEMMA ResponseIInv ==
  ASSUME IInv, NEW s \in Sessions, ProcessKeyEvent(s) \/ ChangePage(s) PROVE IInv'
  <1> DEFINE last == queued[Len(queued)]
  <1>1. /\ TakeExternalCommit(s) /\ active' \in {active, s}
        /\ UNCHANGED <<selection, shown, calls, pending, server, toBridge, toServer, bridge,
                       queued>>
        /\ UNCHANGED <<uiVars, callVars>>
    BY DEF ProcessKeyEvent, ChangePage, uiVars, callVars, pipeVars
  <1>2. /\ commits' = <<>>
        /\ \/ written' = written
           \/ /\ queued # <<>>
              /\ \A i \in DOMAIN written : written[i].click # last.click
              /\ written' = Append(written, last)
    BY <1>1, TakeFacts
  <1>3. CASE written' = written
    <2>1. TypeOK'
      BY <1>1, <1>2, <1>3, EmptySeq DEF IInv, TypeOK
    <2>2. BridgeInv' /\ PipeInv'
      BY <1>1, <1>3, Elements, WeaselStep, HistoryStays DEF IInv, PipeInv, BridgeInv
    <2>3. AnswersInv'
      BY <1>1, <1>3, HistoryStays DEF IInv, AnswersInv
    <2>4. QED
      BY <1>1, <1>2, <1>3, <2>1, <2>2, <2>3, WeaselStep, HistoryStays DEF IInv
  <1>4. CASE written' # written
    <2>1. /\ queued # <<>> /\ written' = Append(written, last)
          /\ \A i \in DOMAIN written : written[i].click # last.click
      BY <1>2, <1>4
    <2>2. /\ queued \in Seq(Target) /\ written \in Seq(Target)
          /\ last \in Target /\ InQueued(last.click)
      <3>1. queued \in Seq(Target) /\ written \in Seq(Target)
        BY Elements
      <3>2. Len(queued) \in Nat /\ Len(queued) # 0 /\ DOMAIN queued = 1..Len(queued)
        BY <2>1, <3>1, LenProperties, EmptySeq
      <3>3. QED
        BY <3>1, <3>2, ElementOfSeq DEF InQueued
    <2>3. /\ written' \in Seq(Target)
          /\ DOMAIN written' = DOMAIN written \cup {Len(written) + 1}
          /\ \A i \in DOMAIN written : written'[i] = written[i]
          /\ written'[Len(written) + 1] = last
      BY <2>1, <2>2, AppendFacts
    <2>4. /\ \A c : InQueued(c)' <=> InQueued(c)
          /\ \A b : BatchQueued(b)' <=> BatchQueued(b)
      BY <1>1, WeaselStep DEF InQueued, BatchQueued
    <2>5. TypeOK'
      BY <1>1, <1>2, <2>3, EmptySeq DEF IInv, TypeOK
    <2>6. BridgeInv' /\ PipeInv'
      BY <1>1, <2>4, Elements, WeaselStep DEF IInv, PipeInv, BridgeInv
    <2>7. WrittenOnce'
      BY <2>1, <2>3 DEF IInv, WrittenOnce
    <2>8. QueuedInv'
      <3>1. \A i \in DOMAIN written' : InQueued(written'[i].click)
        BY <2>2, <2>3 DEF IInv, QueuedInv
      <3>2. \A i \in DOMAIN written' : InQueued(written[i].click)'
        BY <1>1, <3>1 DEF InQueued
      <3>3. \A i \in DOMAIN queued : Sent(queued[i].click)'
        BY <1>1, Elements, WeaselStep DEF IInv, QueuedInv
      <3>4. QED
        BY <1>1, <1>2, <3>2, <3>3 DEF IInv, QueuedInv
    <2>9. AnswersInv'
      BY <1>1, <2>4 DEF IInv, AnswersInv
    <2>10. QED
      BY <1>1, <2>5, <2>6, <2>7, <2>8, <2>9, WeaselStep DEF IInv
  <1>5. QED
    BY <1>3, <1>4

-----------------------------------------------------------------------------
(* The invariant, and what it implies. *)

LEMMA StutterIInv == IInv /\ UNCHANGED vars => IInv'
  <1> SUFFICES ASSUME IInv, UNCHANGED vars PROVE IInv'
    OBVIOUS
  <1>1. /\ UNCHANGED <<selection, shown, calls, pending, server, toBridge, toServer, bridge,
                       active, commits, queued, written>>
        /\ UNCHANGED <<bridge, toBridge, toServer, engineVars>>
    BY DEF vars, engineVars
  <1>2. CallsGoOn
    BY <1>1 DEF CallsGoOn, Sent
  <1>3. TypeOK' /\ CallsHaveBatch' /\ EntriesHaveCalls'
    BY <1>1 DEF IInv, TypeOK, CallsHaveBatch, EntriesHaveCalls
  <1>4. QED
    BY <1>1, <1>2, <1>3, AssistantStep, NoSuccess DEF IInv

LEMMA NextIInv == IInv /\ [Next]_vars => IInv'
  <1> SUFFICES ASSUME IInv, [Next]_vars PROVE IInv'
    OBVIOUS
  <1>1. CASE Assistant
    BY <1>1, WindowIInv, ClickIInv, SendLineIInv, WriteLineIInv, TimeoutIInv, FinishIInv,
       HandleIncomingLineIInv, EndConnectionIInv, RejectPendingCommitsIInv DEF Assistant
  <1>2. CASE Weasel
    BY <1>2, ConnectIInv, StopWeaselIInv, HandleLineIInv, QueueExternalCommitIInv,
       AcknowledgeIInv, SendInputIInv, ResponseIInv, FocusIInv, ExpireIInv DEF Weasel, Handling
  <1>3. QED
    BY <1>1, <1>2, StutterIInv DEF Next

(* The inductive invariant holds in every state of every behaviour. *)
THEOREM InvariantHolds == Spec => []IInv
  BY InitIInv, NextIInv, PTL DEF Spec

(* The tasks, the pipe, the bridge and the queue keep their types; at most *)
(* one text waits for a session.                                           *)
THEOREM TypeCorrect == Spec => []TypeOK
  <1>1. IInv => TypeOK
    BY DEF IInv
  <1>2. QED
    BY <1>1, InvariantHolds, PTL

(* However calls time out, connections end and responses interleave, a *)
(* click's text is written at most once.                               *)
THEOREM ClicksWrittenOnce == Spec => []WrittenOnce
  <1>1. IInv => WrittenOnce
    BY DEF IInv
  <1>2. QED
    BY <1>1, InvariantHolds, PTL

(* What _TakeExternalCommit hands to a session is the newest command, and *)
(* the session is the one it was queued for.                              *)
THEOREM OnlyNewestWritten == Spec => NewestIsWritten
  <1> DEFINE Newest == /\ queued # <<>>
                       /\ written' = Append(written, queued[Len(queued)])
  <1>1. IInv /\ [Next]_vars => [written' # written => Newest]_vars
    <2> SUFFICES ASSUME IInv, [Next]_vars, written' # written PROVE Newest
      OBVIOUS
    <2>1. PICK s \in Sessions : ProcessKeyEvent(s) \/ ChangePage(s)
      BY DEF Next, Assistant, Weasel, Handling, vars, engineVars, uiVars, callVars, pipeVars,
         ShowSuggestions, Hide, Click, SendLine, WriteLine, Fail, Timeout, Finish, HandleIncomingLine,
         EndConnection, RejectPendingCommits, Connect, StopWeasel, HandleLine,
         QueueExternalCommit, Acknowledge, SendInput, Focus, Expire
    <2>2. QED
      BY <2>1, TakeFacts DEF ProcessKeyEvent, ChangePage
  <1>2. QED
    BY <1>1, InvariantHolds, PTL DEF Spec, NewestIsWritten

(* SendCommitAsync answers true only after a text of its batch was queued. *)
THEOREM SuccessIsQueued == Spec => []SuccessMeansQueued
  <1>1. IInv => SuccessMeansQueued
    BY DEF IInv, AnswersInv, BatchQueued, SuccessMeansQueued
  <1>2. QED
    BY <1>1, InvariantHolds, PTL

-----------------------------------------------------------------------------
(* CommitBridge implements ClickDelivery.  A command in the pipe or at the *)
(* bridge is not yet a text; a text is in the box while it is fresh.       *)

AskedOf(c) == IF calls[c].step = "idle" THEN 0 ELSE calls[c].batch
ToldOf(c)  == IF calls[c].step = "done" THEN calls[c].answer ELSE None

Asked == [c \in Clicks |-> AskedOf(c)]
Told  == [c \in Clicks |-> ToldOf(c)]
Box   == {[click |-> commits[i].click, session |-> commits[i].session] :
            i \in {j \in DOMAIN commits : commits[j].fresh}}
Used  == {queued[i].click : i \in DOMAIN queued}

LEMMA InitDelivery == Init => Delivery!Init
  <1> SUFFICES ASSUME Init PROVE Delivery!Init
    OBVIOUS
  <1>1. Asked = [c \in Clicks |-> 0] /\ Told = [c \in Clicks |-> None]
    BY DEF Init, Idle, Asked, Told, AskedOf, ToldOf
  <1>2. DOMAIN commits = {} /\ DOMAIN queued = {}
    BY DEF Init
  <1>3. Box = {} /\ Used = {}
    BY <1>2 DEF Box, Used
  <1>4. active = None /\ written = <<>>
    BY DEF Init
  <1>5. QED
    BY <1>1, <1>3, <1>4 DEF Delivery!Init, Asked, Told, AskedOf, ToldOf, Box, Used

\* What the calls promise, and what the queue holds, are the same if the
\* variables they are computed from are.
LEMMA CallsSame ==
  ASSUME \A c \in Clicks : AskedOf(c)' = AskedOf(c) /\ ToldOf(c)' = ToldOf(c)
  PROVE  Asked' = Asked /\ Told' = Told
  <1>1. /\ Asked' = [c \in Clicks |-> AskedOf(c)']
        /\ Told' = [c \in Clicks |-> ToldOf(c)']
    BY DEF Asked, Told
  <1>2. QED
    BY <1>1 DEF Asked, Told

LEMMA ClickAsks ==
  ASSUME IInv, NEW c \in Clicks, Click(c)
  PROVE  \E b \in Batch : Delivery!Ask(c, b)
  <1> DEFINE sending == [step |-> "sending", batch |-> selection, answer |-> None]
             refused == [step |-> "done", batch |-> selection, answer |-> FALSE]
  <1>1. PICK call \in {sending, refused} : calls' = [calls EXCEPT ![c] = call]
    <2>1. CASE pending[selection] = None
      BY <2>1 DEF Click
    <2>2. CASE pending[selection] # None
      BY <2>2 DEF Click
    <2>3. QED
      BY <2>1, <2>2
  <1>2. /\ calls[c].step = "idle" /\ selection \in Batch /\ selection # 0
        /\ UNCHANGED <<active, commits, queued, written>>
    BY ConstantsAssumption DEF Click, IInv, CallsHaveBatch, Batch, engineVars
  <1>3. /\ calls'[c].batch = selection
        /\ \/ calls'[c].step = "sending"
           \/ calls'[c].step = "done" /\ calls'[c].answer = FALSE
        /\ \A d \in Clicks \ {c} : calls'[d] = calls[d]
    <2>1. /\ call.batch = selection
          /\ \/ call.step = "sending"
             \/ call.step = "done" /\ call.answer = FALSE
      BY <1>1
    <2>2. calls'[c] = call /\ \A d \in Clicks \ {c} : calls'[d] = calls[d]
      BY <1>1 DEF IInv, TypeOK
    <2>3. QED
      BY <2>1, <2>2
  <1>4. /\ AskedOf(c) = 0 /\ AskedOf(c)' = selection
        /\ ToldOf(c) = None /\ ToldOf(c)' \in {None, FALSE}
        /\ \A d \in Clicks \ {c} : AskedOf(d)' = AskedOf(d) /\ ToldOf(d)' = ToldOf(d)
    BY <1>2, <1>3 DEF AskedOf, ToldOf
  <1>5. /\ Asked[c] = 0
        /\ Asked' = [Asked EXCEPT ![c] = selection]
        /\ Told' \in {Told, [Told EXCEPT ![c] = FALSE]}
    <2>1. /\ Asked' = [d \in Clicks |-> AskedOf(d)']
          /\ Told' = [d \in Clicks |-> ToldOf(d)']
      BY DEF Asked, Told
    <2>2. QED
      BY <1>4, <2>1 DEF Asked, Told
  <1>6. PICK b \in Batch : b = selection
    BY <1>2
  <1>7. Delivery!Ask(c, b)
    BY <1>2, <1>5, <1>6 DEF Delivery!Ask, Asked, Told, AskedOf, ToldOf, Box, Used
  <1>8. QED
    BY <1>7

\* A call that goes on without ending has been told nothing.
LEMMA GoOnSilently ==
  ASSUME IInv, CallsGoOn,
         \A c \in Clicks : calls[c].step = "idle" => calls'[c].step = "idle",
         \A c \in Clicks :
           \/ calls[c].step # "done" /\ calls'[c].step # "done"
           \/ calls[c].step = "done" /\ calls'[c].step = "done"
              /\ calls'[c].answer = calls[c].answer
  PROVE  Asked' = Asked /\ Told' = Told
  BY CallsSame DEF CallsGoOn, AskedOf, ToldOf

\* Answered leaves a call that is done alone.
LEMMA AnsweredSilently ==
  ASSUME NEW c \in Clicks, NEW accepted, calls[c].step = "done"
  PROVE  Answered(c, accepted) = calls[c]
  BY DEF Answered

LEMMA FinishTells ==
  ASSUME IInv, NEW c \in Clicks, Finish(c)
  PROVE  \/ \E success \in BOOLEAN : Delivery!Tell(c, success)
         \/ UNCHANGED Delivery!vars
  <1>1. /\ calls[c].step \in {"waiting", "ending"}
        /\ calls' = [calls EXCEPT ![c].step = "done"]
        /\ UNCHANGED <<active, commits, queued, written>>
    BY DEF Finish, engineVars
  <1>2. /\ calls'[c].step = "done"
        /\ calls'[c].batch = calls[c].batch
        /\ calls'[c].answer = calls[c].answer
        /\ \A d \in Clicks \ {c} : calls'[d] = calls[d]
    BY <1>1, StepFacts
  <1>3. calls[c].answer \in BOOLEAN \cup {None} /\ calls[c].batch \in Batch
    BY <1>1 DEF IInv, TypeOK, Call, CallsHaveBatch
  <1>4. /\ \A d \in Clicks : AskedOf(d)' = AskedOf(d)
        /\ \A d \in Clicks \ {c} : ToldOf(d)' = ToldOf(d)
        /\ ToldOf(c) = None /\ ToldOf(c)' = calls[c].answer
        /\ AskedOf(c) = calls[c].batch
    BY <1>1, <1>2 DEF AskedOf, ToldOf
  <1>5. /\ Asked' = Asked
        /\ Told' = [Told EXCEPT ![c] = calls[c].answer]
        /\ Asked[c] = calls[c].batch /\ Told[c] = None
    <2>1. /\ Asked' = [d \in Clicks |-> AskedOf(d)']
          /\ Told' = [d \in Clicks |-> ToldOf(d)']
      BY DEF Asked, Told
    <2>2. QED
      BY <1>4, <2>1 DEF Asked, Told
  <1>6. UNCHANGED <<Box, Used>>
    BY <1>1 DEF Box, Used
  <1>7. CASE calls[c].answer = None
    <2>1. Told' = Told
      BY <1>5, <1>7 DEF Told
    <2>2. QED
      BY <1>1, <1>5, <1>6, <2>1
         DEF Delivery!vars, Asked, Told, AskedOf, ToldOf, Box, Used
  <1>8. CASE calls[c].answer # None
    <2>1. PICK success \in BOOLEAN : success = calls[c].answer
      BY <1>3, <1>8
    <2>2. success => \E d \in Used : Asked[d] = Asked[c]
      <3>1. SUFFICES ASSUME success PROVE \E d \in Used : Asked[d] = Asked[c]
        OBVIOUS
      <3>2. PICK i \in DOMAIN queued : calls[queued[i].click].batch = calls[c].batch
        BY <2>1, <3>1 DEF IInv, AnswersInv, BatchQueued
      <3>3. /\ queued[i].click \in Clicks /\ queued[i].click \in Used
            /\ Sent(queued[i].click)
        BY <3>2, Elements DEF IInv, QueuedInv, Used
      <3>4. Asked[queued[i].click] = calls[queued[i].click].batch
        BY <3>3 DEF Asked, AskedOf, Sent
      <3>5. QED
        BY <1>5, <3>2, <3>3, <3>4
    <2>3. Asked[c] # 0 /\ Told[c] = None
      BY <1>3, <1>5, ConstantsAssumption DEF Batch
    <2>4. Told' = [Told EXCEPT ![c] = success]
      BY <1>5, <2>1
    <2>5. Delivery!Tell(c, success)
      BY <1>1, <1>5, <1>6, <2>2, <2>3, <2>4
         DEF Delivery!Tell, Asked, Told, AskedOf, ToldOf, Box, Used
    <2>6. QED
      BY <2>5
  <1>9. QED
    BY <1>7, <1>8

\* The assistant's other steps: the window, the pipe, an acknowledgement
LEMMA AssistantStutters ==
  ASSUME IInv,
         \/ ShowSuggestions \/ Hide
         \/ \E c \in Clicks : SendLine(c) \/ WriteLine(c) \/ Timeout(c)
         \/ HandleIncomingLine \/ EndConnection \/ RejectPendingCommits
  PROVE  UNCHANGED Delivery!vars
  <1>1. UNCHANGED <<active, commits, queued, written>>
    BY DEF ShowSuggestions, Hide, SendLine, WriteLine, Timeout, HandleIncomingLine, EndConnection,
           RejectPendingCommits, engineVars
  <1>2. Asked' = Asked /\ Told' = Told
    <2>1. CASE ShowSuggestions \/ Hide \/ EndConnection
      <3>1. calls' = calls
        BY <2>1 DEF ShowSuggestions, Hide, EndConnection, callVars
      <3>2. QED
        BY <3>1, CallsSame DEF AskedOf, ToldOf
    <2>2. ASSUME NEW c \in Clicks, SendLine(c) \/ WriteLine(c) \/ Timeout(c)
          PROVE  Asked' = Asked /\ Told' = Told
      <3>1. /\ calls[c].step \in {"sending", "writing", "waiting"}
            /\ \/ /\ calls[c].step = "sending"
                  /\ calls' = [calls EXCEPT ![c].step = "writing"]
               \/ calls' = [calls EXCEPT ![c].step = "waiting"]
               \/ calls' = [calls EXCEPT ![c] = [@ EXCEPT !.step = "ending", !.answer = FALSE]]
        BY <2>2 DEF SendLine, WriteLine, Fail, Timeout
      <3>2. /\ CallsGoOn /\ calls'[c].step \in {"writing", "waiting", "ending"}
            /\ \A d \in Clicks \ {c} : calls'[d] = calls[d]
        <4>1. CASE /\ calls[c].step = "sending"
                   /\ calls' = [calls EXCEPT ![c].step = "writing"]
          BY <4>1, StepFacts
        <4>2. CASE calls' = [calls EXCEPT ![c].step = "waiting"]
          BY <3>1, <4>2, StepFacts
        <4>3. CASE calls' = [calls EXCEPT ![c] = [@ EXCEPT !.step = "ending",
                                                            !.answer = FALSE]]
          BY <3>1, <4>3, FailFacts
        <4>4. QED
          BY <3>1, <4>1, <4>2, <4>3
      <3>3. QED
        BY <3>1, <3>2, GoOnSilently
    <2>3. ASSUME HandleIncomingLine \/ RejectPendingCommits,
                 NEW c \in Clicks
          PROVE  /\ calls'[c].step = calls[c].step /\ calls'[c].batch = calls[c].batch
                 /\ calls[c].step = "done" => calls'[c] = calls[c]
      <3>1. PICK accepted : calls'[c] = calls[c] \/ calls'[c] = Answered(c, accepted)
        <4>1. CASE HandleIncomingLine
          <5>1. \/ calls' = calls
                \/ \E d : calls' = [calls EXCEPT ![d] = Answered(d, Head(toServer).accepted)]
            BY <4>1 DEF HandleIncomingLine
          <5>2. QED
            BY <5>1 DEF IInv, TypeOK
        <4>2. CASE RejectPendingCommits
          BY <4>2 DEF RejectPendingCommits
        <4>3. QED
          BY <2>3, <4>1, <4>2
      <3>2. calls[c] \in Call
        BY DEF IInv, TypeOK
      <3>3. QED
        BY <3>1, <3>2, AnsweredSilently DEF Answered, Call
    <2>4. CASE HandleIncomingLine \/ RejectPendingCommits
      BY <2>3, <2>4, CallsSame DEF AskedOf, ToldOf
    <2>5. QED
      BY <2>1, <2>2, <2>4
  <1>3. UNCHANGED <<Box, Used>>
    BY <1>1 DEF Box, Used
  <1>4. QED
    BY <1>1, <1>2, <1>3 DEF Delivery!vars, Asked, Told, AskedOf, ToldOf, Box, Used

\* No step of Weasel changes what the calls promise.
LEMMA WeaselSilently ==
  ASSUME UNCHANGED callVars PROVE Asked' = Asked /\ Told' = Told
  BY CallsSame DEF callVars, AskedOf, ToldOf

LEMMA EmptyBox == commits = <<>> => Box = {}
  BY DEF Box

LEMMA DropDelivery ==
  ASSUME UNCHANGED callVars, Box' = {}, active' \in Sessions \cup {None},
         UNCHANGED <<queued, written>>
  PROVE  Delivery!Drop
  <1>1. Used' = Used
    BY DEF Used
  <1>2. QED
    BY <1>1, WeaselSilently DEF Delivery!Drop, Asked, Told, AskedOf, ToldOf, Box, Used

LEMMA SameDelivery ==
  ASSUME UNCHANGED callVars, UNCHANGED <<active, commits, queued, written>>
  PROVE  UNCHANGED Delivery!vars
  <1>1. Used' = Used /\ Box' = Box
    BY DEF Used, Box
  <1>2. QED
    BY <1>1, WeaselSilently DEF Delivery!vars, Asked, Told, AskedOf, ToldOf, Box, Used

\* Into the queue: a text of a click that has none there yet
LEMMA QueuePuts ==
  ASSUME IInv, QueueExternalCommit
  PROVE  (\E c \in Clicks : Delivery!Put(c)) \/ UNCHANGED Delivery!vars
  <1>1. /\ bridge.step = "queueing"
        /\ UNCHANGED callVars /\ UNCHANGED <<active, written>>
    BY DEF QueueExternalCommit
  <1>2. /\ bridge.click \in Clicks /\ bridge.session \in Sessions
        /\ Sent(bridge.click) /\ ~InQueued(bridge.click)
    BY <1>1 DEF IInv, BridgeInv
  <1>3. CASE active # bridge.session
    <2>1. UNCHANGED <<commits, queued>>
      BY <1>3 DEF QueueExternalCommit
    <2>2. QED
      BY <1>1, <2>1, SameDelivery
  <1>4. CASE active = bridge.session
    <2> DEFINE target == [click |-> bridge.click, session |-> bridge.session]
    <2>1. /\ commits' = <<[click |-> bridge.click, session |-> bridge.session, fresh |-> TRUE]>>
          /\ queued' = Append(queued, target)
      BY <1>4 DEF QueueExternalCommit
    <2>2. PICK c \in Clicks : c = bridge.click
      BY <1>2
    <2>3. target \in Target /\ target.click = c
      BY <1>2, <2>2 DEF Target
    <2>4. /\ DOMAIN queued' = DOMAIN queued \cup {Len(queued) + 1}
          /\ Len(queued) + 1 \notin DOMAIN queued
          /\ \A i \in DOMAIN queued : queued'[i] = queued[i]
          /\ queued'[Len(queued) + 1] = target
      BY <2>1, <2>3, Elements, AppendFacts
    <2>5. Used' = Used \cup {c}
      BY <2>3, <2>4 DEF Used
    <2>6. c \notin Used
      BY <1>2, <2>2 DEF Used, InQueued
    <2>7. Box' = {[click |-> c, session |-> active]}
      <3>1. /\ DOMAIN commits' = {1}
            /\ commits'[1].click = c /\ commits'[1].session = active /\ commits'[1].fresh
        BY <1>4, <2>1, <2>2
      <3>2. {j \in DOMAIN commits' : commits'[j].fresh} = {1}
        BY <3>1
      <3>3. QED
        BY <3>1, <3>2 DEF Box
    <2>8. Asked[c] # 0
      BY <1>2, <2>2, ConstantsAssumption
         DEF Asked, AskedOf, Sent, IInv, CallsHaveBatch, Batch
    <2>9. active # None
      BY <1>2, <1>4, ConstantsAssumption
    <2>10. Asked' = Asked /\ Told' = Told
      BY <1>1, WeaselSilently
    <2>11. Delivery!Put(c)
      BY <1>1, <2>5, <2>6, <2>7, <2>8, <2>9, <2>10
         DEF Delivery!Put, Asked, Told, AskedOf, ToldOf, Box, Used
    <2>12. QED
      BY <2>11
  <1>5. QED
    BY <1>3, <1>4

\* Out of the queue, with the response of a session
LEMMA ResponseDelivers ==
  ASSUME IInv, NEW s \in Sessions, ProcessKeyEvent(s) \/ ChangePage(s)
  PROVE  (\E text \in Box : Delivery!Write(text)) \/ Delivery!Drop
  <1>1. /\ TakeExternalCommit(s) /\ active' \in {active, s}
        /\ UNCHANGED callVars /\ UNCHANGED queued
    BY DEF ProcessKeyEvent, ChangePage
  <1>2. commits' = <<>> /\ Box' = {}
    <2>1. commits' = <<>>
      BY <1>1, TakeFacts
    <2>2. QED
      BY <2>1, EmptyBox DEF Box
  <1>3. CASE commits # <<>> /\ Head(commits).session = s /\ Head(commits).fresh
    <2>1. /\ Head(commits) = commits[1] /\ 1 \in DOMAIN commits
          /\ written' = Append(written, [click |-> Head(commits).click, session |-> s])
      BY <1>1, <1>3, OneCommit DEF TakeExternalCommit
    <2>2. PICK text \in Box : text = [click |-> commits[1].click, session |-> s]
      BY <1>3, <2>1 DEF Box
    <2>3. text.session = s /\ written' = Append(written, text)
      BY <2>1, <2>2
    <2>4. Used' = Used /\ Asked' = Asked /\ Told' = Told
      BY <1>1, WeaselSilently DEF Used
    <2>5. Delivery!Write(text)
      BY <1>1, <1>2, <2>3, <2>4
         DEF Delivery!Write, Asked, Told, AskedOf, ToldOf, Box, Used
    <2>6. QED
      BY <2>5
  <1>4. CASE ~(commits # <<>> /\ Head(commits).session = s /\ Head(commits).fresh)
    <2>1. UNCHANGED written
      BY <1>1, <1>4 DEF TakeExternalCommit
    <2>2. active' \in Sessions \cup {None}
      BY <1>1 DEF IInv, TypeOK
    <2>3. QED
      BY <1>1, <1>2, <2>1, <2>2, DropDelivery
  <1>5. QED
    BY <1>3, <1>4

LEMMA ExpireDrops ==
  ASSUME IInv, Expire PROVE Delivery!Drop
  <1>1. /\ commits' = [i \in DOMAIN commits |-> [commits[i] EXCEPT !.fresh = FALSE]]
        /\ UNCHANGED callVars /\ UNCHANGED <<active, queued, written>>
    BY DEF Expire
  <1>2. \A i \in DOMAIN commits' : ~commits'[i].fresh
    <2>1. commits # <<>>
      BY DEF Expire
    <2>2. commits[1] \in Commit /\ DOMAIN commits = {1}
      BY <2>1, OneCommit
    <2>3. QED
      BY <1>1, <2>2 DEF Commit
  <1>3. Box' = {}
    BY <1>2 DEF Box
  <1>4. QED
    BY <1>1, <1>3, DropDelivery DEF IInv, TypeOK

LEMMA WeaselDelivers ==
  ASSUME IInv, Weasel
  PROVE  Delivery!Next \/ UNCHANGED Delivery!vars
  <1>1. CASE Connect \/ HandleLine \/ Acknowledge \/ SendInput(TRUE)
    BY <1>1, SameDelivery DEF Connect, HandleLine, Acknowledge, SendInput, engineVars
  <1>2. CASE StopWeasel \/ SendInput(FALSE)
    <2>1. /\ commits' = <<>> /\ UNCHANGED callVars /\ UNCHANGED <<queued, written>>
          /\ active' \in {active, None}
      BY <1>2 DEF StopWeasel, SendInput
    <2>2. Box' = {}
      BY <2>1, EmptyBox DEF Box
    <2>3. Delivery!Drop
      BY <2>1, <2>2, DropDelivery DEF IInv, TypeOK
    <2>4. QED
      BY <2>3 DEF Delivery!Next
  <1>3. CASE QueueExternalCommit
    BY <1>3, QueuePuts DEF Delivery!Next
  <1>4. ASSUME NEW s \in Sessions, ProcessKeyEvent(s) \/ ChangePage(s)
        PROVE  Delivery!Next
    BY <1>4, ResponseDelivers DEF Delivery!Next, Box
  <1>5. ASSUME NEW s \in Sessions \cup {None}, Focus(s)
        PROVE  Delivery!Next
    <2>1. /\ active' = s /\ UNCHANGED callVars
          /\ UNCHANGED <<commits, queued, written>>
      BY <1>5 DEF Focus
    <2>2. UNCHANGED <<Asked, Told, Box, Used>>
      BY <2>1, WeaselSilently DEF Box, Used
    <2>3. Delivery!Focus(s)
      BY <2>1, <2>2 DEF Delivery!Focus, Asked, Told, AskedOf, ToldOf, Box, Used
    <2>4. QED
      BY <2>3 DEF Delivery!Next
  <1>6. CASE Expire
    BY <1>6, ExpireDrops DEF Delivery!Next
  <1>7. QED
    BY <1>1, <1>2, <1>3, <1>4, <1>5, <1>6 DEF Weasel, Handling

LEMMA StepDelivery == IInv /\ [Next]_vars => [Delivery!Next]_(Delivery!vars)
  <1> SUFFICES ASSUME IInv, [Next]_vars
               PROVE  Delivery!Next \/ UNCHANGED Delivery!vars
    OBVIOUS
  <1>1. ASSUME NEW c \in Clicks, Click(c) \/ Finish(c)
        PROVE  Delivery!Next \/ UNCHANGED Delivery!vars
    BY <1>1, ClickAsks, FinishTells DEF Delivery!Next
  <1>2. CASE Assistant
    BY <1>1, <1>2, AssistantStutters DEF Assistant
  <1>3. CASE Weasel
    BY <1>3, WeaselDelivers
  <1>4. CASE UNCHANGED vars
    BY <1>4, SameDelivery DEF vars, callVars
  <1>5. QED
    BY <1>2, <1>3, <1>4 DEF Next

(* For any clicks, sessions and batches: the calls, the two processes and  *)
(* the queue give a click what ClickDelivery promises it.                  *)
THEOREM BridgeImplementsDelivery == Spec => ImplementsDelivery
  BY InitDelivery, StepDelivery, InvariantHolds, PTL
     DEF Spec, ImplementsDelivery, Delivery!Spec

===============================================================================
