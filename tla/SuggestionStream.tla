--------------------------- MODULE SuggestionStream ---------------------------
(***************************************************************************)
(* The suggestion endpoint of the backend: stream_suggestions admits a     *)
(* request through RedisSuggestionGate, MimoSuggestionProvider.generate    *)
(* asks the primary model and, when that is slow or fails, the fallback    *)
(* too, streams the suggestions of whichever answers first, and the        *)
(* endpoint then saves the history and asks for a summary.                 *)
(*                                                                         *)
(* Each stream is a coroutine; a step ends where the coroutine awaits.     *)
(* The model spans one minute of the rate limit, one day of the budget and *)
(* the ten minutes a request key lives: no counter and no key expires.     *)
(***************************************************************************)
EXTENDS Naturals, FiniteSets

CONSTANTS
  Streams,         \* calls of the endpoint
  RequestOf,       \* the request id of a stream
  SubjectOf,       \* the user or guest device a stream is for
  PerMinuteLimit,  \* ai_per_minute_limit
  DailyBudget,     \* ai_daily_budget
  None

RequestIds == {RequestOf[s] : s \in Streams}
Subjects == {SubjectOf[s] : s \in Streams}

ASSUME ConstantsAssumption ==
  /\ IsFiniteSet(Streams)
  /\ RequestOf \in [Streams -> RequestIds]
  /\ SubjectOf \in [Streams -> Subjects]
  /\ PerMinuteLimit \in Nat \ {0}
  /\ DailyBudget \in Nat \ {0}

Models == {"primary", "fallback"}
Other(m) == IF m = "primary" THEN "fallback" ELSE "primary"

\* One suggestion of each style
MaxSuggestions == 3

VARIABLES
  streams,  \* the coroutine of each stream
  models,   \* what has become of its request to each model
  keys,     \* Redis: request keys that are set
  minute,   \* Redis: the counter of each subject's minute
  budget    \* Redis: the counter of the day

vars == <<streams, models, keys, minute, budget>>
gateVars == <<keys, minute, budget>>

\* idle: not yet called; admitting, counting, releasing, charging: in the
\* gate; hedging: only the primary was asked; racing: both were; settling: the
\* winner is known and the loser is being cancelled; losing: both are being
\* given up; sending; saving; summarizing; ended.
Step == {"idle", "admitting", "counting", "releasing", "charging", "hedging",
         "racing", "settling", "losing", "sending", "saving", "summarizing",
         "ended"}

\* How a stream ended: the last event, dropped when an exception ended it
\* without one, gone when the client had left.
Outcome == {"done", "unavailable", "duplicate", "limited", "busy", "dropped",
            "gone"}

ASSUME NoneAssumption == None \notin Models \cup Outcome

Stream == [step : Step, winner : Models \cup {None}, sent : 0..MaxSuggestions,
           outcome : Outcome \cup {None}, charged : BOOLEAN]

\* running: no suggestion yet; first: __anext__ has returned one; empty: the
\* stream ended without any; failed: one of _PROVIDER_ERRORS; raised: another
\* exception (a chunk whose delta is null); streaming: the winner goes on;
\* cancelled: task.cancel() was called before it had answered.
Answers == {"first", "empty", "failed", "raised"}
ModelState == Answers \cup {"off", "running", "cancelled", "streaming", "closed"}

TypeOK ==
  /\ streams \in [Streams -> Stream]
  /\ models \in [Streams -> [Models -> ModelState]]
  /\ keys \subseteq RequestIds
  /\ minute \in [Subjects -> Nat]
  /\ budget \in Nat

Init ==
  /\ streams = [s \in Streams |-> [step |-> "idle", winner |-> None, sent |-> 0,
                                   outcome |-> None, charged |-> FALSE]]
  /\ models = [s \in Streams |-> [m \in Models |-> "off"]]
  /\ keys = {}
  /\ minute = [u \in Subjects |-> 0]
  /\ budget = 0

At(s, step) == streams[s].step = step
Goto(s, step) == streams' = [streams EXCEPT ![s].step = step]
End(s, outcome) ==
  streams' = [streams EXCEPT
    ![s] = [@ EXCEPT !.step = "ended", !.outcome = outcome]]

-----------------------------------------------------------------------------
(* The endpoint and the gate. *)

\* The meta event
Open(s) ==
  /\ At(s, "idle")
  /\ Goto(s, "admitting")
  /\ UNCHANGED <<models, gateVars>>

\* Mutant: the key is set whether or not it was there.
SetAnyway(s) ==
  /\ At(s, "admitting")
  /\ keys' = keys \cup {RequestOf[s]}
  /\ Goto(s, "counting")
  /\ UNCHANGED <<models, minute, budget>>

SetRequestKey(s) ==
  /\ At(s, "admitting")
  /\ keys' = keys \cup {RequestOf[s]}
  /\ IF RequestOf[s] \in keys THEN End(s, "duplicate") ELSE Goto(s, "counting")
  /\ UNCHANGED <<models, minute, budget>>

CountMinute(s) ==
  /\ At(s, "counting")
  /\ minute' = [minute EXCEPT ![SubjectOf[s]] = @ + 1]
  /\ IF minute'[SubjectOf[s]] > PerMinuteLimit
       THEN Goto(s, "releasing") ELSE Goto(s, "charging")
  /\ UNCHANGED <<models, keys, budget>>

DeleteRequestKey(s) ==
  /\ At(s, "releasing")
  /\ keys' = keys \ {RequestOf[s]}
  /\ End(s, "limited")
  /\ UNCHANGED <<models, minute, budget>>

Charged(s, step, outcome) ==
  streams' = [streams EXCEPT
    ![s] = [@ EXCEPT !.charged = TRUE, !.step = step, !.outcome = outcome]]

AskModel(s, m) == models' = [models EXCEPT ![s][m] = "running"]

\* Mutant: the budget is compared before the request is counted.
CompareFirst(s) ==
  /\ At(s, "charging")
  /\ budget' = budget + 1
  /\ IF budget > DailyBudget
       THEN Charged(s, "ended", "busy") /\ UNCHANGED models
       ELSE Charged(s, "hedging", None) /\ AskModel(s, "primary")
  /\ UNCHANGED <<keys, minute>>

\* The day's counter, and the start of generate
ChargeBudget(s) ==
  /\ At(s, "charging")
  /\ budget' = budget + 1
  /\ IF budget' > DailyBudget
       THEN Charged(s, "ended", "busy") /\ UNCHANGED models
       ELSE Charged(s, "hedging", None) /\ AskModel(s, "primary")
  /\ UNCHANGED <<keys, minute>>

-----------------------------------------------------------------------------
(* MimoSuggestionProvider.generate. *)

\* _generate_with_model, to its first suggestion, its end or its error
Answer(s, m) ==
  /\ models[s][m] = "running"
  /\ \E answer \in Answers :
       models' = [models EXCEPT ![s][m] = answer]
  /\ UNCHANGED <<streams, gateVars>>

\* Candidates are looked at in this order; a fruitless one is passed over.
Decisive(s) ==
  LET done == {m \in Models : models[s][m] \in {"first", "raised"}}
  IN IF "primary" \in done THEN "primary"
     ELSE IF "fallback" \in done THEN "fallback" ELSE None

Fruitless(s, m) == models[s][m] \in {"empty", "failed"}

CloseFruitless(s) ==
  [m \in Models |-> IF Fruitless(s, m) THEN "closed" ELSE models[s][m]]

\* A primary looked at before the fallback has been closed and dropped.
PassedOver(s, m) == IF m = "fallback" THEN CloseFruitless(s) ELSE models[s]

\* task.cancel() of those that still run
Cancelled(of) ==
  [m \in Models |-> IF of[m] = "running" THEN "cancelled" ELSE of[m]]

\* _completed_first of the candidates up to the one that has answered or raised,
\* and the cancel of the other, in the same step
Settle(s, m) ==
  IF models[s][m] = "first"
    THEN /\ streams' = [streams EXCEPT
              ![s] = [@ EXCEPT !.step = "settling", !.winner = m]]
         /\ models' = [models EXCEPT ![s] = Cancelled(PassedOver(s, m))]
    ELSE /\ End(s, "dropped")
         /\ models' = [models EXCEPT ![s] = PassedOver(s, m)]

\* Mutant: a failed primary ends the request.
HedgeOrFail(s) ==
  /\ At(s, "hedging")
  /\ IF Decisive(s) # None
       THEN Settle(s, Decisive(s))
       ELSE IF Fruitless(s, "primary")
              THEN Goto(s, "losing") /\ UNCHANGED models
              ELSE Goto(s, "racing") /\ AskModel(s, "fallback")
  /\ UNCHANGED gateVars

\* The first wait ends: the primary has answered or failed, or the fallback's
\* turn has come.
Hedge(s) ==
  /\ At(s, "hedging")
  /\ IF Decisive(s) # None
       THEN Settle(s, Decisive(s))
       ELSE /\ Goto(s, "racing")
            /\ models' = [models EXCEPT ![s] =
                            [CloseFruitless(s) EXCEPT !["fallback"] = "running"]]
  /\ UNCHANGED gateVars

\* The second wait ends because a candidate is done.  When the fruitless ones
\* are closed, none may be left, or the deadline may have passed.
Race(s) ==
  /\ At(s, "racing")
  /\ \E m \in Models : models[s][m] \in Answers
  /\ IF Decisive(s) # None
       THEN Settle(s, Decisive(s))
       ELSE /\ models' = [models EXCEPT ![s] = CloseFruitless(s)]
            /\ IF \E m \in Models : models[s][m] = "running"
                 THEN UNCHANGED streams ELSE Goto(s, "losing")
  /\ UNCHANGED gateVars

\* Mutant: the wait has no time limit.
NoDeadline(s) == FALSE /\ UNCHANGED vars

\* The deadline passes, counted from the fallback's start, with no answer.
Deadline(s) ==
  /\ At(s, "racing")
  /\ \A m \in Models : models[s][m] \notin Answers
  /\ Goto(s, "losing")
  /\ models' = [models EXCEPT ![s] = Cancelled(models[s])]
  /\ UNCHANGED gateVars

CloseAllBut(s, m) ==
  models' = [models EXCEPT ![s] =
               [n \in Models |-> IF n = m THEN "streaming"
                                 ELSE IF @[n] = "off" THEN "off" ELSE "closed"]]

\* Mutant: the first suggestion is sent and the loser goes on.
SendAtOnce(s) ==
  /\ At(s, "settling")
  /\ models' = [models EXCEPT ![s][streams[s].winner] = "streaming"]
  /\ streams' = [streams EXCEPT
       ![s] = [@ EXCEPT !.step = "sending", !.sent = 1]]
  /\ UNCHANGED gateVars

\* _cancel_candidates awaits the loser, then the winner's first suggestion is
\* sent.  A CancelledError and provider errors are suppressed, but not the
\* StopAsyncIteration of a loser that was already done and empty: the fallback,
\* which is not looked at once the primary has won.
SendFirst(s) ==
  /\ At(s, "settling")
  /\ LET winner == streams[s].winner
     IN IF models[s][Other(winner)] \in {"empty", "raised"}
          THEN End(s, "dropped") /\ UNCHANGED models
          ELSE /\ CloseAllBut(s, winner)
               /\ streams' = [streams EXCEPT
                    ![s] = [@ EXCEPT !.step = "sending", !.sent = 1]]
  /\ UNCHANGED gateVars

\* _cancel_candidates of all that are left, and SuggestionUnavailable
GiveUp(s) ==
  /\ At(s, "losing")
  /\ CloseAllBut(s, None)
  /\ End(s, "unavailable")
  /\ UNCHANGED gateVars

\* Mutant: the parser does not stop after the last style.
SendMore(s) ==
  /\ At(s, "sending")
  /\ streams[s].sent <= MaxSuggestions
  /\ streams' = [streams EXCEPT ![s].sent = @ + 1]
  /\ UNCHANGED <<models, gateVars>>

SendNext(s) ==
  /\ At(s, "sending")
  /\ streams[s].sent < MaxSuggestions
  /\ streams' = [streams EXCEPT ![s].sent = @ + 1]
  /\ UNCHANGED <<models, gateVars>>

\* The winner ends or fails after its first suggestion, or it raises.
WinnerEnds(s) ==
  /\ At(s, "sending")
  /\ CloseAllBut(s, None)
  /\ Goto(s, "saving") \/ End(s, "dropped")
  /\ UNCHANGED gateVars

-----------------------------------------------------------------------------
(* After the suggestions, and what can break a stream. *)

SaveHistory(s) ==
  /\ At(s, "saving")
  /\ Goto(s, "summarizing")
  /\ UNCHANGED <<models, gateVars>>

\* The memory event, if any, and the done event
Summarize(s) ==
  /\ At(s, "summarizing")
  /\ End(s, "done")
  /\ UNCHANGED <<models, gateVars>>

\* Redis or the database raises: nothing catches it.
StoreFails(s) ==
  /\ streams[s].step \in {"admitting", "counting", "releasing", "charging", "saving"}
  /\ End(s, "dropped")
  /\ UNCHANGED <<models, gateVars>>

\* The client leaves: the coroutine is cancelled wherever it waits.
Disconnect(s) ==
  /\ streams[s].step \notin {"idle", "ended"}
  /\ End(s, "gone")
  /\ UNCHANGED <<models, gateVars>>

\* A request nobody waits for ends with its first suggestion or its read
\* time-out; an iterator nobody holds is closed by the event loop.
Collect(s, m) ==
  /\ At(s, "ended")
  /\ models[s][m] \notin {"off", "closed"}
  /\ models' = [models EXCEPT ![s][m] = "closed"]
  /\ UNCHANGED <<streams, gateVars>>

-----------------------------------------------------------------------------
Gate(s) ==
  SetRequestKey(s) \/ CountMinute(s) \/ DeleteRequestKey(s) \/ ChargeBudget(s)

Generate(s) ==
  \/ Hedge(s) \/ Race(s) \/ Deadline(s)
  \/ SendFirst(s) \/ GiveUp(s)
  \/ SendNext(s) \/ WinnerEnds(s)

Finish(s) == SaveHistory(s) \/ Summarize(s)

Next ==
  \E s \in Streams :
    \/ Open(s) \/ Gate(s) \/ Generate(s) \/ Finish(s)
    \/ StoreFails(s) \/ Disconnect(s)
    \/ \E m \in Models : Answer(s, m) \/ Collect(s, m)

Spec == Init /\ [][Next]_vars

\* The event loop runs a coroutine whose wait is over; the waits of Hedge and
\* Race have a time limit, a winner's reads too, and Redis, the database and
\* the summary's request answer or fail.  No model owes a first suggestion.
FairSpec ==
  /\ Spec
  /\ \A s \in Streams :
       /\ WF_vars(Gate(s) \/ Generate(s) \/ Finish(s))
       /\ \A m \in Models : WF_vars(Collect(s, m))

-----------------------------------------------------------------------------
Admitted(s) == streams[s].charged /\ streams[s].outcome # "busy"

(* No more requests reach a model than the day's budget and each subject's *)
(* minute allow, however their counters interleave.                        *)
WithinLimits ==
  /\ Cardinality({s \in Streams : Admitted(s)}) <= DailyBudget
  /\ \A u \in Subjects :
       Cardinality({s \in Streams : Admitted(s) /\ SubjectOf[s] = u}) <= PerMinuteLimit

(* A request id is charged once, though its key is given back when the     *)
(* minute's limit refuses it.                                              *)
ChargedOnce ==
  \A s, t \in Streams :
    streams[s].charged /\ streams[t].charged /\ RequestOf[s] = RequestOf[t] => s = t

(* Suggestions come from one model: once the first is sent, the request to *)
(* the other one is closed, or was never made.                             *)
OneModelSpeaks ==
  \A s \in Streams : streams[s].sent > 0 =>
    models[s][Other(streams[s].winner)] \in {"off", "closed"}

(* A request is given up only with nothing sent, after the fallback was    *)
(* tried, and with neither model still at work on it.                      *)
GivenUpMeansBothFailed ==
  \A s \in Streams : streams[s].outcome = "unavailable" =>
    /\ streams[s].sent = 0
    /\ \A m \in Models : models[s][m] = "closed"

(* Every stream ends, and no request to a model outlives it for long, even *)
(* when the client leaves in the middle of the race.                       *)
StreamsEnd ==
  \A s \in Streams :
    ~At(s, "idle") ~> At(s, "ended") /\ \A m \in Models : models[s][m] \in {"off", "closed"}

(* When a model has won the race and the client stays, its first           *)
(* suggestion is sent ("each suggestion is emitted as soon as it is         *)
(* complete").                                                             *)
FirstSuggestionIsSent ==
  \A s \in Streams :
    streams[s].winner # None /\ streams[s].outcome = "dropped" => streams[s].sent > 0

\* A winner speaks from its first suggestion on.
Service == INSTANCE SuggestionService WITH
  called <- {s \in Streams : ~At(s, "idle")},
  charged <- {s \in Streams : streams[s].charged},
  today <- Cardinality({s \in Streams : Admitted(s)}),
  lately <- [u \in Subjects |->
               Cardinality({s \in Streams : Admitted(s) /\ SubjectOf[s] = u})],
  speaker <- [s \in Streams |-> IF streams[s].sent > 0 THEN streams[s].winner ELSE None],
  sent <- [s \in Streams |-> streams[s].sent],
  ended <- [s \in Streams |-> streams[s].outcome]

(* The gate's three awaits and the race of the models add up to the        *)
(* service of SuggestionService: admission in one step, within the limits  *)
(* and once for an id, then one speaker and a last event that fits.        *)
ImplementsService == Service!Spec

===============================================================================
