-------------------------- MODULE SuggestionService --------------------------
(***************************************************************************)
(* What the suggestion endpoint promises its clients and its owner, without *)
(* counters, keys, tasks or time-outs: a request is charged and admitted   *)
(* in one step, once for its id and within the limits; the day's budget is *)
(* used up before a request is turned away for it; one model speaks in a   *)
(* stream, done follows suggestions and unavailable follows none.          *)
(* SuggestionStream implements it.                                         *)
(***************************************************************************)
EXTENDS Naturals

CONSTANTS Streams, Subjects, RequestOf, SubjectOf, PerMinuteLimit,
          DailyBudget, Models, MaxSuggestions, None

VARIABLES called,    \* streams the endpoint was called for
          charged,   \* those that have counted against the day's budget
          today,     \* how many of them were admitted, their requests going
                     \* to the models
          lately,    \* and how many of each subject
          speaker,   \* the model whose suggestions a stream sends, or None
          sent,      \* how many it has sent
          ended      \* how it ended, or None

vars == <<called, charged, today, lately, speaker, sent, ended>>
counts == <<today, lately>>

Init ==
  /\ called = {} /\ charged = {}
  /\ today = 0
  /\ lately = [u \in Subjects |-> 0]
  /\ speaker = [s \in Streams |-> None]
  /\ sent = [s \in Streams |-> 0]
  /\ ended = [s \in Streams |-> None]

Call(s) ==
  /\ s \notin called
  /\ called' = called \cup {s}
  /\ UNCHANGED <<charged, counts, speaker, sent, ended>>

End(s, outcome) ==
  /\ s \in called /\ ended[s] = None
  /\ ended' = [ended EXCEPT ![s] = outcome]

\* An id is a duplicate only of another stream's.  A request that is broken
\* off in the gate may have used up its subject's minute.
Refuse(s, outcome) ==
  /\ s \notin charged
  /\ outcome = "duplicate" =>
       \E t \in called \ {s} : RequestOf[t] = RequestOf[s]
  /\ End(s, outcome)
  /\ UNCHANGED <<called, charged, counts, speaker, sent>>

Charge(s) ==
  /\ s \in called /\ ended[s] = None
  /\ \A t \in charged : RequestOf[t] # RequestOf[s]
  /\ charged' = charged \cup {s}
  /\ UNCHANGED <<called, speaker, sent>>

Admit(s) ==
  /\ Charge(s)
  /\ today < DailyBudget /\ lately[SubjectOf[s]] < PerMinuteLimit
  /\ today' = today + 1
  /\ lately' = [lately EXCEPT ![SubjectOf[s]] = @ + 1]
  /\ UNCHANGED ended

TurnAway(s) ==
  /\ Charge(s)
  /\ today = DailyBudget
  /\ End(s, "busy")
  /\ UNCHANGED counts

Speak(s, m) ==
  /\ s \in charged /\ ended[s] = None
  /\ speaker[s] \in {None, m} /\ sent[s] < MaxSuggestions
  /\ speaker' = [speaker EXCEPT ![s] = m]
  /\ sent' = [sent EXCEPT ![s] = @ + 1]
  /\ UNCHANGED <<called, charged, counts, ended>>

Conclude(s, outcome) ==
  /\ s \in charged
  /\ outcome = IF sent[s] > 0 THEN "done" ELSE "unavailable"
  /\ End(s, outcome)
  /\ UNCHANGED <<called, charged, counts, speaker, sent>>

\* An exception, or the client leaves
Break(s, outcome) ==
  /\ End(s, outcome)
  /\ UNCHANGED <<called, charged, counts, speaker, sent>>

Next ==
  \E s \in Streams :
    \/ Call(s) \/ Admit(s) \/ TurnAway(s)
    \/ \E outcome \in {"duplicate", "limited"} : Refuse(s, outcome)
    \/ \E m \in Models : Speak(s, m)
    \/ \E outcome \in {"done", "unavailable"} : Conclude(s, outcome)
    \/ \E outcome \in {"dropped", "gone"} : Break(s, outcome)

Spec == Init /\ [][Next]_vars
===============================================================================
