------------------------ MODULE SuggestionStreamProofs ------------------------
(***************************************************************************)
(* Proofs about the backend's suggestion stream: whatever the order in     *)
(* which streams meet in Redis and models answer, the limits hold, an id   *)
(* is charged once, one model speaks, and giving up means both failed.     *)
(*                                                                         *)
(* The gate's three counters are read and written in separate awaits.      *)
(* What makes them add up is that a stream past SetRequestKey owns its key *)
(* (KeysAreOwned), and that each counter bounds the set of those that it   *)
(* has let through (BudgetCounts, MinuteCounts).                           *)
(***************************************************************************)
EXTENDS SuggestionStream, FiniteSetTheorems, TLAPS

\* Between setting its key and giving it back, or charged for good
Owns(s) == streams[s].charged \/ streams[s].step \in {"counting", "releasing", "charging"}

KeysAreOwned ==
  /\ \A s \in Streams : Owns(s) => RequestOf[s] \in keys
  /\ \A s, t \in Streams : Owns(s) /\ Owns(t) /\ RequestOf[s] = RequestOf[t] => s = t

ToModels == {s \in Streams : Admitted(s)}

BudgetCounts ==
  Cardinality(ToModels) <= budget /\ Cardinality(ToModels) <= DailyBudget

InMinute(u) ==
  {s \in Streams : SubjectOf[s] = u /\ (streams[s].charged \/ At(s, "charging"))}

MinuteCounts ==
  \A u \in Subjects :
    Cardinality(InMinute(u)) <= minute[u] /\ Cardinality(InMinute(u)) <= PerMinuteLimit

\* What a stream's step says of it.
BeforeCharge == {"idle", "admitting", "counting", "releasing", "charging"}
Answered == {"sending", "saving", "summarizing", "ended"}

StreamInv(s) ==
  /\ streams[s].step \in BeforeCharge => ~streams[s].charged
  /\ streams[s].outcome # None => At(s, "ended")
  /\ streams[s].sent > 0 =>
       /\ streams[s].step \in Answered
       /\ models[s][Other(streams[s].winner)] \in {"off", "closed"}
  /\ At(s, "sending") => streams[s].sent > 0
  /\ At(s, "hedging") => models[s]["primary"] # "off"
  /\ streams[s].step \in {"racing", "losing"} => \A m \in Models : models[s][m] # "off"
  /\ streams[s].outcome = "unavailable" =>
       /\ streams[s].sent = 0
       /\ \A m \in Models : models[s][m] = "closed"

IInv ==
  /\ TypeOK
  /\ KeysAreOwned
  /\ BudgetCounts
  /\ MinuteCounts
  /\ \A s \in Streams : StreamInv(s)

-----------------------------------------------------------------------------
(* What the sets and the counters are made of. *)

LEMMA NoneIsNothing ==
  /\ None \notin Models
  /\ None \notin Outcome
  BY NoneAssumption

LEMMA CountedAreFinite ==
  /\ IsFiniteSet(ToModels)
  /\ Cardinality(ToModels) \in Nat
  /\ \A u : IsFiniteSet(InMinute(u)) /\ Cardinality(InMinute(u)) \in Nat
  <1>1. ToModels \subseteq Streams /\ \A u : InMinute(u) \subseteq Streams
    BY DEF ToModels, InMinute
  <1>2. QED
    BY <1>1, ConstantsAssumption, FS_Subset, FS_CardinalityType

\* A counter that grows by one may let one more through.
LEMMA OneMore ==
  ASSUME NEW S, NEW T, NEW e, IsFiniteSet(S), T \subseteq S \cup {e}
  PROVE  /\ Cardinality(T) <= Cardinality(S) + 1
         /\ Cardinality(S) \in Nat
         /\ Cardinality(T) \in Nat
  <1>1. Cardinality(S) \in Nat
    BY FS_CardinalityType
  <1>2. /\ IsFiniteSet(S \cup {e})
        /\ Cardinality(S \cup {e}) = IF e \in S THEN Cardinality(S) ELSE Cardinality(S) + 1
    BY FS_AddElement
  <1>3. Cardinality(T) <= Cardinality(S \cup {e}) /\ Cardinality(T) \in Nat
    BY <1>2, FS_Subset, FS_CardinalityType
  <1>4. QED
    BY <1>1, <1>2, <1>3

LEMMA NoMore ==
  ASSUME NEW S, NEW T, IsFiniteSet(S), T \subseteq S
  PROVE  /\ Cardinality(T) <= Cardinality(S)
         /\ Cardinality(S) \in Nat
         /\ Cardinality(T) \in Nat
  BY FS_Subset, FS_CardinalityType

LEMMA InitIInv == Init => IInv
  <1> SUFFICES ASSUME Init PROVE IInv
    OBVIOUS
  <1>1. TypeOK
    BY ConstantsAssumption DEF Init, TypeOK, Stream, Step, MaxSuggestions, ModelState
  <1>2. ToModels = {} /\ \A u : InMinute(u) = {}
    BY DEF Init, ToModels, InMinute, Admitted, At
  <1>3. Cardinality(ToModels) = 0 /\ \A u : Cardinality(InMinute(u)) = 0
    BY <1>2, FS_EmptySet
  <1>4. BudgetCounts
    BY <1>3, ConstantsAssumption DEF Init, BudgetCounts
  <1>5. MinuteCounts
    BY <1>3, ConstantsAssumption DEF Init, MinuteCounts
  <1>6. KeysAreOwned
    BY DEF Init, KeysAreOwned, Owns
  <1>7. \A s \in Streams : StreamInv(s)
    BY NoneIsNothing DEF Init, StreamInv, At, Outcome, BeforeCharge
  <1>8. QED
    BY <1>1, <1>4, <1>5, <1>6, <1>7 DEF IInv

-----------------------------------------------------------------------------
(* A step of one stream outside the gate lets nothing more through it. *)

Only(s) ==
  \A t \in Streams \ {s} : streams'[t] = streams[t] /\ models'[t] = models[t]

LEMMA OthersKeep ==
  ASSUME IInv, NEW s \in Streams, Only(s), StreamInv(s)'
  PROVE  \A t \in Streams : StreamInv(t)'
  BY DEF IInv, Only, StreamInv, At

LEMMA Quiet ==
  ASSUME IInv, NEW s \in Streams, Only(s), UNCHANGED gateVars, TypeOK', StreamInv(s)',
         streams'[s] = streams[s] \/ streams[s].step # "ended",
         streams'[s].charged = streams[s].charged,
         streams'[s].step \in {"counting", "releasing", "charging"} =>
           streams'[s].step = streams[s].step
  PROVE  IInv'
  <1>1. \A t \in Streams : StreamInv(t)'
    BY OthersKeep
  <1>2. \A t \in Streams : Owns(t)' => Owns(t)
    BY DEF Owns, Only
  <1>3. KeysAreOwned'
    BY <1>2 DEF IInv, KeysAreOwned, gateVars
  <1>4. streams[s].outcome = "busy" => streams'[s] = streams[s]
    BY NoneIsNothing DEF IInv, StreamInv, At, Outcome
  <1>5. ToModels' \subseteq ToModels
    BY <1>4 DEF ToModels, Admitted, Only
  <1>6. \A u : InMinute(u)' \subseteq InMinute(u)
    BY DEF InMinute, Only, At
  <1>7. Cardinality(ToModels') <= Cardinality(ToModels) /\ Cardinality(ToModels') \in Nat
    BY <1>5, CountedAreFinite, NoMore
  <1>8. BudgetCounts'
    BY <1>7, CountedAreFinite, ConstantsAssumption DEF IInv, TypeOK, BudgetCounts, gateVars
  <1>9. MinuteCounts'
    <2>1. ASSUME NEW u \in Subjects
          PROVE  /\ Cardinality(InMinute(u)') <= minute[u]
                 /\ Cardinality(InMinute(u)') <= PerMinuteLimit
      <3>1. /\ Cardinality(InMinute(u)') <= Cardinality(InMinute(u))
            /\ Cardinality(InMinute(u)') \in Nat
        BY <1>6, CountedAreFinite, NoMore
      <3>2. QED
        BY <3>1, CountedAreFinite, ConstantsAssumption DEF IInv, TypeOK, MinuteCounts
    <2>2. QED
      BY <2>1 DEF MinuteCounts, gateVars
  <1>10. QED
    BY <1>1, <1>3, <1>8, <1>9 DEF IInv

-----------------------------------------------------------------------------
(* What a step writes to its stream. *)

Typed == streams \in [Streams -> Stream]

Others(s) == \A t \in Streams \ {s} : streams'[t] = streams[t]

LEMMA GotoFacts ==
  ASSUME Typed, NEW s \in Streams, NEW step \in Step, Goto(s, step)
  PROVE  /\ Typed' /\ Others(s)
         /\ streams'[s].step = step
         /\ streams'[s].winner = streams[s].winner
         /\ streams'[s].sent = streams[s].sent
         /\ streams'[s].outcome = streams[s].outcome
         /\ streams'[s].charged = streams[s].charged
  BY DEF Typed, Others, Goto, Stream

LEMMA EndFacts ==
  ASSUME Typed, NEW s \in Streams, NEW outcome \in Outcome, End(s, outcome)
  PROVE  /\ Typed' /\ Others(s)
         /\ streams'[s].step = "ended"
         /\ streams'[s].winner = streams[s].winner
         /\ streams'[s].sent = streams[s].sent
         /\ streams'[s].outcome = outcome
         /\ streams'[s].charged = streams[s].charged
  <1>1. /\ streams' = [streams EXCEPT ![s] =
                         [@ EXCEPT !.step = "ended", !.outcome = outcome]]
        /\ "ended" \in Step
    BY DEF End, Step
  <1>2. [streams[s] EXCEPT !.step = "ended", !.outcome = outcome] \in Stream
    BY <1>1 DEF Typed, Stream
  <1>3. streams'[s] = [streams[s] EXCEPT !.step = "ended", !.outcome = outcome]
    BY <1>1 DEF Typed
  <1>4. QED
    BY <1>1, <1>2, <1>3 DEF Typed, Others, Stream

LEMMA ChargedFacts ==
  ASSUME Typed, NEW s \in Streams, NEW step \in Step, NEW outcome \in Outcome \cup {None},
         Charged(s, step, outcome)
  PROVE  /\ Typed' /\ Others(s)
         /\ streams'[s].step = step
         /\ streams'[s].winner = streams[s].winner
         /\ streams'[s].sent = streams[s].sent
         /\ streams'[s].outcome = outcome
         /\ streams'[s].charged = TRUE
  BY DEF Typed, Others, Charged, Stream

-----------------------------------------------------------------------------
(* The gate. *)

LEMMA SetRequestKeyIInv ==
  ASSUME IInv, NEW s \in Streams, SetRequestKey(s) PROVE IInv'
  <1>1. /\ Typed' /\ Others(s)
        /\ streams[s].step = "admitting"
        /\ streams'[s].step = IF RequestOf[s] \in keys THEN "ended" ELSE "counting"
        /\ streams'[s].outcome = IF RequestOf[s] \in keys THEN "duplicate"
                                                          ELSE streams[s].outcome
        /\ streams'[s].charged = streams[s].charged
        /\ streams'[s].sent = streams[s].sent
    <2>1. Typed /\ "duplicate" \in Outcome /\ "counting" \in Step
      BY DEF IInv, TypeOK, Typed, Outcome, Step
    <2>2. QED
      BY <2>1, EndFacts, GotoFacts DEF SetRequestKey, At
  <1>2. keys' = keys \cup {RequestOf[s]} /\ UNCHANGED <<models, minute, budget>>
    BY DEF SetRequestKey
  <1>3. RequestOf[s] \in RequestIds
    BY DEF RequestIds
  <1>4. TypeOK'
    BY <1>1, <1>2, <1>3 DEF IInv, TypeOK, Typed
  <1>5. streams[s].charged = FALSE /\ streams[s].sent = 0 /\ streams[s].outcome = None
    BY <1>1 DEF IInv, StreamInv, BeforeCharge, Answered, At, TypeOK, Stream, MaxSuggestions
  <1>6. StreamInv(s)'
    BY <1>1, <1>5, NoneIsNothing DEF StreamInv, At, BeforeCharge, Outcome
  <1>7. \A t \in Streams : StreamInv(t)'
    BY <1>1, <1>2, <1>6, OthersKeep DEF Only, Others
  <1>8. KeysAreOwned'
    <2>1. CASE RequestOf[s] \in keys
      BY <2>1, <1>1, <1>2, <1>5 DEF IInv, KeysAreOwned, Owns, Others
    <2>2. CASE RequestOf[s] \notin keys
      <3>1. \A t \in Streams \ {s} : Owns(t)' => Owns(t) /\ RequestOf[t] # RequestOf[s]
        BY <2>2, <1>1 DEF IInv, KeysAreOwned, Owns, Others
      <3>2. QED
        BY <3>1, <1>2 DEF IInv, KeysAreOwned
    <2>3. QED
      BY <2>1, <2>2
  <1>9. ToModels' = ToModels /\ \A u : InMinute(u)' = InMinute(u)
    BY <1>1, <1>5 DEF ToModels, InMinute, Admitted, At, Others
  <1>10. BudgetCounts' /\ MinuteCounts'
    BY <1>2, <1>9 DEF IInv, BudgetCounts, MinuteCounts
  <1>11. QED
    BY <1>4, <1>7, <1>8, <1>10 DEF IInv

LEMMA CountMinuteIInv ==
  ASSUME IInv, NEW s \in Streams, CountMinute(s) PROVE IInv'
  <1> DEFINE u == SubjectOf[s]
  <1>1. /\ u \in Subjects /\ minute[u] \in Nat
        /\ minute' = [minute EXCEPT ![u] = minute[u] + 1]
        /\ minute'[u] = minute[u] + 1
        /\ UNCHANGED <<models, keys, budget>>
    BY DEF CountMinute, IInv, TypeOK, Subjects
  <1>2. /\ Typed' /\ Others(s)
        /\ streams[s].step = "counting"
        /\ streams'[s].step = IF minute'[u] > PerMinuteLimit THEN "releasing" ELSE "charging"
        /\ streams'[s].outcome = streams[s].outcome
        /\ streams'[s].charged = streams[s].charged
        /\ streams'[s].sent = streams[s].sent
    <2>1. Typed /\ "releasing" \in Step /\ "charging" \in Step
      BY DEF IInv, TypeOK, Typed, Step
    <2>2. QED
      BY <2>1, GotoFacts DEF CountMinute, At
  <1>3. TypeOK'
    BY <1>1, <1>2 DEF IInv, TypeOK, Typed
  <1>4. streams[s].charged = FALSE /\ streams[s].sent = 0 /\ streams[s].outcome = None
    BY <1>2 DEF IInv, StreamInv, BeforeCharge, Answered, At, TypeOK, Stream, MaxSuggestions
  <1>5. StreamInv(s)'
    BY <1>2, <1>4, NoneIsNothing DEF StreamInv, At, BeforeCharge, Outcome
  <1>6. \A t \in Streams : StreamInv(t)'
    BY <1>1, <1>2, <1>5, OthersKeep DEF Only, Others
  <1>7. \A t \in Streams : Owns(t)' => Owns(t)
    BY <1>2 DEF Others, Owns
  <1>8. KeysAreOwned'
    BY <1>1, <1>7 DEF IInv, KeysAreOwned
  <1>9. ToModels' = ToModels
    BY <1>2 DEF Others, ToModels, Admitted
  <1>10. BudgetCounts'
    BY <1>1, <1>9 DEF IInv, BudgetCounts
  <1>11. \A v \in Subjects : v # u => InMinute(v)' = InMinute(v) /\ minute'[v] = minute[v]
    BY <1>1, <1>2 DEF Others, InMinute, At, IInv, TypeOK
  <1>12. InMinute(u)' \subseteq InMinute(u) \cup {s}
    BY <1>2 DEF Others, InMinute, At
  <1>13. minute'[u] > PerMinuteLimit => InMinute(u)' \subseteq InMinute(u)
    BY <1>2 DEF Others, InMinute, At
  <1>14. /\ Cardinality(InMinute(u)) <= minute[u]
         /\ Cardinality(InMinute(u)) <= PerMinuteLimit
    BY <1>1 DEF IInv, MinuteCounts
  <1>15. /\ Cardinality(InMinute(u)') <= Cardinality(InMinute(u)) + 1
         /\ Cardinality(InMinute(u)') \in Nat /\ Cardinality(InMinute(u)) \in Nat
    BY <1>12, OneMore, CountedAreFinite
  <1>16. minute'[u] > PerMinuteLimit => Cardinality(InMinute(u)') <= Cardinality(InMinute(u))
    BY <1>13, NoMore, CountedAreFinite
  <1>17. /\ Cardinality(InMinute(u)') <= minute'[u]
         /\ Cardinality(InMinute(u)') <= PerMinuteLimit
    BY <1>1, <1>14, <1>15, <1>16, ConstantsAssumption
  <1>18. MinuteCounts'
    BY <1>11, <1>17 DEF IInv, MinuteCounts
  <1>19. QED
    BY <1>3, <1>6, <1>8, <1>10, <1>18 DEF IInv

\* The key goes back: its owner leaves the gate, and no other stream owns it.
LEMMA DeleteRequestKeyIInv ==
  ASSUME IInv, NEW s \in Streams, DeleteRequestKey(s) PROVE IInv'
  <1>1. /\ Typed' /\ Others(s)
        /\ streams[s].step = "releasing"
        /\ streams'[s].step = "ended"
        /\ streams'[s].outcome = "limited"
        /\ streams'[s].charged = streams[s].charged
        /\ streams'[s].sent = streams[s].sent
    <2>1. Typed /\ "limited" \in Outcome
      BY DEF IInv, TypeOK, Typed, Outcome
    <2>2. QED
      BY <2>1, EndFacts DEF DeleteRequestKey, At
  <1>2. keys' = keys \ {RequestOf[s]} /\ UNCHANGED <<models, minute, budget>>
    BY DEF DeleteRequestKey
  <1>3. TypeOK'
    BY <1>1, <1>2 DEF IInv, TypeOK, Typed
  <1>4. streams[s].charged = FALSE /\ streams[s].sent = 0
    BY <1>1 DEF IInv, StreamInv, BeforeCharge, Answered, At, TypeOK, Stream, MaxSuggestions
  <1>5. StreamInv(s)'
    BY <1>1, <1>4 DEF StreamInv, At, BeforeCharge
  <1>6. \A t \in Streams : StreamInv(t)'
    BY <1>1, <1>2, <1>5, OthersKeep DEF Only, Others
  <1>7. \A t \in Streams : Owns(t)' => Owns(t) /\ RequestOf[t] # RequestOf[s]
    BY <1>1, <1>4 DEF IInv, KeysAreOwned, Owns, Others
  <1>8. KeysAreOwned'
    BY <1>2, <1>7 DEF IInv, KeysAreOwned
  <1>9. ToModels' = ToModels /\ \A u : InMinute(u)' = InMinute(u)
    BY <1>1, <1>4 DEF ToModels, InMinute, Admitted, At, Others
  <1>10. BudgetCounts' /\ MinuteCounts'
    BY <1>2, <1>9 DEF IInv, BudgetCounts, MinuteCounts
  <1>11. QED
    BY <1>3, <1>6, <1>8, <1>10 DEF IInv

LEMMA ChargeBudgetIInv ==
  ASSUME IInv, NEW s \in Streams, ChargeBudget(s) PROVE IInv'
  <1>1. /\ Typed' /\ Others(s)
        /\ streams[s].step = "charging"
        /\ streams'[s].step = IF budget' > DailyBudget THEN "ended" ELSE "hedging"
        /\ streams'[s].outcome = IF budget' > DailyBudget THEN "busy" ELSE None
        /\ streams'[s].charged = TRUE
        /\ streams'[s].sent = streams[s].sent
    <2>1. Typed /\ "busy" \in Outcome /\ "ended" \in Step /\ "hedging" \in Step
      BY DEF IInv, TypeOK, Typed, Outcome, Step
    <2>2. QED
      BY <2>1, ChargedFacts DEF ChargeBudget, At
  <1>2. /\ UNCHANGED <<keys, minute>>
        /\ budget \in Nat /\ budget' = budget + 1
        /\ models' = models \/ AskModel(s, "primary")
        /\ ~(budget' > DailyBudget) => AskModel(s, "primary")
    BY DEF ChargeBudget, IInv, TypeOK
  <1>3. /\ models' \in [Streams -> [Models -> ModelState]]
        /\ \A t \in Streams \ {s} : models'[t] = models[t]
        /\ ~(budget' > DailyBudget) => models'[s]["primary"] = "running"
    BY <1>2 DEF AskModel, IInv, TypeOK, ModelState, Models
  <1>4. TypeOK'
    BY <1>1, <1>2, <1>3 DEF IInv, TypeOK, Typed
  <1>5. streams[s].sent = 0
    BY <1>1 DEF IInv, StreamInv, BeforeCharge, Answered, At, TypeOK, Stream, MaxSuggestions
  <1>6. StreamInv(s)'
    BY <1>1, <1>3, <1>5, NoneIsNothing DEF StreamInv, At, BeforeCharge, Outcome
  <1>7. \A t \in Streams : StreamInv(t)'
    BY <1>1, <1>3, <1>6, OthersKeep DEF Only, Others
  <1>8. \A t \in Streams : Owns(t)' => Owns(t)
    BY <1>1 DEF Others, Owns
  <1>9. KeysAreOwned'
    BY <1>2, <1>8 DEF IInv, KeysAreOwned
  <1>10. \A u : InMinute(u)' = InMinute(u)
    BY <1>1 DEF Others, InMinute, At
  <1>11. MinuteCounts'
    BY <1>2, <1>10 DEF IInv, MinuteCounts
  <1>12. ToModels' \subseteq ToModels \cup {s}
    BY <1>1 DEF Others, ToModels, Admitted
  <1>13. budget' > DailyBudget => ToModels' \subseteq ToModels
    BY <1>1 DEF Others, ToModels, Admitted
  <1>14. /\ Cardinality(ToModels') <= Cardinality(ToModels) + 1
         /\ Cardinality(ToModels') \in Nat /\ Cardinality(ToModels) \in Nat
    BY <1>12, OneMore, CountedAreFinite
  <1>15. budget' > DailyBudget => Cardinality(ToModels') <= Cardinality(ToModels)
    BY <1>13, NoMore, CountedAreFinite
  <1>16. BudgetCounts'
    BY <1>2, <1>14, <1>15, ConstantsAssumption DEF IInv, BudgetCounts
  <1>17. QED
    BY <1>4, <1>7, <1>9, <1>11, <1>16 DEF IInv

-----------------------------------------------------------------------------
(* The models. *)

ModelsTyped == models \in [Streams -> [Models -> ModelState]]

OtherModels(s) == \A t \in Streams \ {s} : models'[t] = models[t]

LEMMA AskModelFacts ==
  ASSUME ModelsTyped, NEW s \in Streams, NEW m \in Models, AskModel(s, m)
  PROVE  /\ ModelsTyped' /\ OtherModels(s)
         /\ models'[s][m] = "running"
         /\ \A n \in Models : n # m => models'[s][n] = models[s][n]
  BY DEF ModelsTyped, OtherModels, AskModel, ModelState

LEMMA CancelledFacts ==
  ASSUME NEW of \in [Models -> ModelState]
  PROVE  /\ Cancelled(of) \in [Models -> ModelState]
         /\ \A m \in Models : Cancelled(of)[m] = "off" <=> of[m] = "off"
  BY DEF Cancelled, ModelState

LEMMA CloseFruitlessFacts ==
  ASSUME ModelsTyped, NEW s \in Streams
  PROVE  /\ CloseFruitless(s) \in [Models -> ModelState]
         /\ \A m \in Models : CloseFruitless(s)[m] = "off" <=> models[s][m] = "off"
  BY DEF ModelsTyped, CloseFruitless, Fruitless, ModelState

LEMMA CloseAllButFacts ==
  ASSUME ModelsTyped, NEW s \in Streams, NEW n, CloseAllBut(s, n)
  PROVE  /\ ModelsTyped' /\ OtherModels(s)
         /\ \A m \in Models : m # n => models'[s][m] \in {"off", "closed"}
         /\ \A m \in Models : m # n /\ models[s][m] # "off" => models'[s][m] = "closed"
  BY DEF ModelsTyped, OtherModels, CloseAllBut, ModelState

LEMMA OtherIsAModel ==
  ASSUME NEW m
  PROVE  Other(m) \in Models /\ Other(m) # m
  BY DEF Other, Models

LEMMA SettleFacts ==
  ASSUME Typed, ModelsTyped, NEW s \in Streams, NEW m \in Models, Settle(s, m),
         streams[s].step \in {"hedging", "racing"}
  PROVE  /\ Typed' /\ Others(s) /\ ModelsTyped' /\ OtherModels(s)
         /\ \/ /\ streams'[s].step = "settling"
               /\ streams'[s].outcome = streams[s].outcome
            \/ /\ streams'[s].step = "ended"
               /\ streams'[s].outcome = "dropped"
         /\ streams'[s].sent = streams[s].sent
         /\ streams'[s].charged = streams[s].charged
  <1>0. PassedOver(s, m) \in [Models -> ModelState]
    BY CloseFruitlessFacts DEF PassedOver, ModelsTyped
  <1>1. CASE models[s][m] = "first"
    <2>1. streams' = [streams EXCEPT ![s] = [@ EXCEPT !.step = "settling", !.winner = m]]
      BY <1>1 DEF Settle
    <2>2. [streams[s] EXCEPT !.step = "settling", !.winner = m] \in Stream
      BY DEF Typed, Stream, Step
    <2>3. Typed' /\ Others(s)
      BY <2>1, <2>2 DEF Typed, Others
    <2>4. streams'[s] = [streams[s] EXCEPT !.step = "settling", !.winner = m]
      BY <2>1 DEF Typed
    <2>5. /\ streams'[s].step = "settling"
          /\ streams'[s].outcome = streams[s].outcome
          /\ streams'[s].sent = streams[s].sent
          /\ streams'[s].charged = streams[s].charged
      BY <2>4 DEF Typed, Stream
    <2>6. ModelsTyped' /\ OtherModels(s)
      BY <1>0, <1>1, CancelledFacts DEF Settle, ModelsTyped, OtherModels
    <2>7. QED
      BY <2>3, <2>5, <2>6
  <1>2. CASE models[s][m] # "first"
    <2>1. "dropped" \in Outcome
      BY DEF Outcome
    <2>2. QED
      BY <1>0, <1>2, <2>1, EndFacts DEF Settle, ModelsTyped, OtherModels
  <1>3. QED
    BY <1>1, <1>2

\* Quiet, from what the lemmas above say of a step
LEMMA StepOutsideGate ==
  ASSUME IInv, NEW s \in Streams, UNCHANGED gateVars,
         Typed', Others(s), ModelsTyped', OtherModels(s),
         streams'[s] = streams[s] \/ streams[s].step # "ended",
         streams'[s].charged = streams[s].charged,
         streams'[s].step \in BeforeCharge \ {"idle"} =>
           \/ streams'[s].step = streams[s].step
           \/ streams'[s].step = "admitting" /\ streams[s].step = "idle",
         StreamInv(s)'
  PROVE  IInv'
  <1>1. Only(s)
    BY DEF Only, Others, OtherModels
  <1>2. TypeOK'
    BY DEF IInv, TypeOK, Typed, ModelsTyped, gateVars
  <1>3. QED
    BY <1>1, <1>2, Quiet DEF BeforeCharge

LEMMA AreTyped == IInv => Typed /\ ModelsTyped
  BY DEF IInv, TypeOK, Typed, ModelsTyped

\* What IInv says of a stream under way
LEMMA UnderWay ==
  ASSUME IInv, NEW s \in Streams, streams[s].step # "ended"
  PROVE  /\ streams[s].outcome = None
         /\ None # "unavailable"
         /\ streams[s].step \notin Answered => streams[s].sent = 0
         /\ streams[s].sent \in Nat
  BY NoneIsNothing DEF IInv, StreamInv, At, TypeOK, Stream, MaxSuggestions, Outcome

-----------------------------------------------------------------------------
(* The generator. *)

LEMMA AnswerIInv ==
  ASSUME IInv, NEW s \in Streams, NEW m \in Models, Answer(s, m) PROVE IInv'
  <1>1. PICK answer \in Answers : models' = [models EXCEPT ![s][m] = answer]
    BY DEF Answer
  <1>2. /\ ModelsTyped' /\ OtherModels(s)
        /\ models[s][m] = "running" /\ models'[s][m] \in Answers
        /\ \A n \in Models : n # m => models'[s][n] = models[s][n]
    BY <1>1, AreTyped DEF Answer, ModelsTyped, OtherModels, ModelState
  <1>3. streams' = streams /\ UNCHANGED gateVars
    BY DEF Answer
  <1>4. /\ models[s][Other(streams[s].winner)] \in {"off", "closed"} =>
             models'[s][Other(streams[s].winner)] \in {"off", "closed"}
        /\ \A n \in Models : models[s][n] # "off" => models'[s][n] # "off"
        /\ (\A n \in Models : models[s][n] = "closed") =>
             \A n \in Models : models'[s][n] = "closed"
    BY <1>2, OtherIsAModel DEF Answers
  <1>5. StreamInv(s)'
    BY <1>3, <1>4 DEF IInv, StreamInv, At, Models
  <1>6. QED
    BY <1>2, <1>3, <1>5, AreTyped, StepOutsideGate DEF Typed, Others

LEMMA CollectIInv ==
  ASSUME IInv, NEW s \in Streams, NEW m \in Models, Collect(s, m) PROVE IInv'
  <1>1. /\ ModelsTyped' /\ OtherModels(s)
        /\ models'[s][m] = "closed"
        /\ \A n \in Models : n # m => models'[s][n] = models[s][n]
    BY AreTyped DEF Collect, ModelsTyped, OtherModels, ModelState
  <1>2. streams' = streams /\ UNCHANGED gateVars
    BY DEF Collect
  <1>3. StreamInv(s)'
    BY <1>1, <1>2, OtherIsAModel DEF Collect, IInv, StreamInv, At, Models
  <1>4. QED
    BY <1>1, <1>2, <1>3, AreTyped, StepOutsideGate DEF Typed, Others

\* An end that changes no request to a model
LEMMA EndIInv ==
  ASSUME IInv, NEW s \in Streams, NEW outcome \in Outcome \ {"unavailable"},
         streams[s].step # "ended", End(s, outcome), UNCHANGED <<models, gateVars>>
  PROVE  IInv'
  <1>1. /\ Typed' /\ Others(s) /\ ModelsTyped' /\ OtherModels(s)
        /\ streams'[s].step = "ended"
        /\ streams'[s].winner = streams[s].winner
        /\ streams'[s].sent = streams[s].sent
        /\ streams'[s].outcome = outcome
        /\ streams'[s].charged = streams[s].charged
    BY AreTyped, EndFacts DEF ModelsTyped, OtherModels
  <1>2. StreamInv(s)'
    BY <1>1 DEF IInv, StreamInv, At, BeforeCharge, Answered
  <1>3. QED
    BY <1>1, <1>2, StepOutsideGate DEF BeforeCharge

LEMMA HedgeIInv ==
  ASSUME IInv, NEW s \in Streams, Hedge(s) PROVE IInv'
  <1>1. /\ Typed /\ ModelsTyped /\ streams[s].step = "hedging" /\ UNCHANGED gateVars
        /\ models[s]["primary"] # "off"
    BY AreTyped DEF Hedge, At, IInv, StreamInv
  <1>2. streams[s].outcome = None /\ streams[s].sent = 0 /\ None # "unavailable"
    BY <1>1, UnderWay DEF Answered
  <1>3. CASE Decisive(s) # None
    <2>1. Settle(s, Decisive(s)) /\ Decisive(s) \in Models
      BY <1>3 DEF Hedge, Decisive, Models
    <2>2. QED
      BY <1>1, <1>2, <2>1, SettleFacts, StepOutsideGate
         DEF StreamInv, At, BeforeCharge
  <1>4. CASE Decisive(s) = None
    <2>1. /\ Goto(s, "racing") /\ "racing" \in Step
          /\ models' = [models EXCEPT ![s] =
                          [CloseFruitless(s) EXCEPT !["fallback"] = "running"]]
      BY <1>4 DEF Hedge, Step
    <2>2. /\ [CloseFruitless(s) EXCEPT !["fallback"] = "running"] \in [Models -> ModelState]
          /\ \A m \in Models : [CloseFruitless(s) EXCEPT !["fallback"] = "running"][m] # "off"
      BY <1>1, CloseFruitlessFacts DEF Models, ModelState
    <2>3. /\ ModelsTyped' /\ OtherModels(s)
          /\ \A m \in Models : models'[s][m] # "off"
      BY <1>1, <2>1, <2>2 DEF ModelsTyped, OtherModels
    <2>4. StreamInv(s)'
      BY <1>1, <1>2, <2>1, <2>3, GotoFacts DEF StreamInv, At, BeforeCharge
    <2>5. QED
      BY <1>1, <2>1, <2>3, <2>4, GotoFacts, StepOutsideGate DEF BeforeCharge
  <1>5. QED
    BY <1>3, <1>4

LEMMA RaceIInv ==
  ASSUME IInv, NEW s \in Streams, Race(s) PROVE IInv'
  <1>1. /\ Typed /\ ModelsTyped /\ streams[s].step = "racing" /\ UNCHANGED gateVars
        /\ \A m \in Models : models[s][m] # "off"
    BY AreTyped DEF Race, At, IInv, StreamInv
  <1>2. streams[s].outcome = None /\ streams[s].sent = 0 /\ None # "unavailable"
    BY <1>1, UnderWay DEF Answered
  <1>3. CASE Decisive(s) # None
    <2>1. Settle(s, Decisive(s)) /\ Decisive(s) \in Models
      BY <1>3 DEF Race, Decisive, Models
    <2>2. QED
      BY <1>1, <1>2, <2>1, SettleFacts, StepOutsideGate
         DEF StreamInv, At, BeforeCharge
  <1>4. CASE Decisive(s) = None
    <2>1. /\ streams' = streams \/ Goto(s, "losing")
          /\ "losing" \in Step
          /\ models' = [models EXCEPT ![s] = CloseFruitless(s)]
      BY <1>4 DEF Race, Step
    <2>2. /\ ModelsTyped' /\ OtherModels(s)
          /\ \A m \in Models : models'[s][m] # "off"
      BY <1>1, <2>1, CloseFruitlessFacts DEF ModelsTyped, OtherModels
    <2>3. /\ Typed' /\ Others(s)
          /\ streams'[s].step \in {"racing", "losing"}
          /\ streams'[s].outcome = None /\ streams'[s].sent = 0
          /\ streams'[s].charged = streams[s].charged
      BY <1>1, <1>2, <2>1, GotoFacts DEF Typed, Others
    <2>4. StreamInv(s)'
      BY <1>2, <2>2, <2>3 DEF StreamInv, At, BeforeCharge
    <2>5. QED
      BY <1>1, <2>2, <2>3, <2>4, StepOutsideGate DEF BeforeCharge
  <1>5. QED
    BY <1>3, <1>4

LEMMA DeadlineIInv ==
  ASSUME IInv, NEW s \in Streams, Deadline(s) PROVE IInv'
  <1>1. /\ Typed /\ ModelsTyped /\ streams[s].step = "racing" /\ UNCHANGED gateVars
        /\ \A m \in Models : models[s][m] # "off"
        /\ Goto(s, "losing") /\ "losing" \in Step
        /\ models' = [models EXCEPT ![s] = Cancelled(models[s])]
    BY AreTyped DEF Deadline, At, IInv, StreamInv, Step
  <1>2. streams[s].outcome = None /\ streams[s].sent = 0 /\ None # "unavailable"
    BY <1>1, UnderWay DEF Answered
  <1>3. /\ ModelsTyped' /\ OtherModels(s)
        /\ \A m \in Models : models'[s][m] # "off"
    BY <1>1, CancelledFacts DEF ModelsTyped, OtherModels
  <1>4. StreamInv(s)'
    BY <1>1, <1>2, <1>3, GotoFacts DEF StreamInv, At, BeforeCharge
  <1>5. QED
    BY <1>1, <1>3, <1>4, GotoFacts, StepOutsideGate DEF BeforeCharge

\* The winner's first suggestion waits for the loser's end.
LEMMA SendFirstIInv ==
  ASSUME IInv, NEW s \in Streams, SendFirst(s) PROVE IInv'
  <1> DEFINE winner == streams[s].winner
  <1>1. Typed /\ ModelsTyped /\ streams[s].step = "settling" /\ UNCHANGED gateVars
    BY AreTyped DEF SendFirst, At
  <1>2. CASE models[s][Other(winner)] \in {"empty", "raised"}
    <2>1. End(s, "dropped") /\ models' = models /\ "dropped" \in Outcome \ {"unavailable"}
      BY <1>2 DEF SendFirst, Outcome
    <2>2. QED
      BY <1>1, <2>1, EndIInv
  <1>3. CASE models[s][Other(winner)] \notin {"empty", "raised"}
    <2>1. /\ CloseAllBut(s, winner)
          /\ streams' = [streams EXCEPT ![s] = [@ EXCEPT !.step = "sending", !.sent = 1]]
      BY <1>3 DEF SendFirst
    <2>2. streams'[s] = [streams[s] EXCEPT !.step = "sending", !.sent = 1]
      BY <1>1, <2>1 DEF Typed
    <2>3. streams'[s] \in Stream
      <3>1. "sending" \in Step /\ 1 \in 0..MaxSuggestions
        BY DEF Step, MaxSuggestions
      <3>2. QED
        BY <1>1, <2>2, <3>1 DEF Typed, Stream
    <2>4. Typed' /\ Others(s)
      BY <1>1, <2>1, <2>2, <2>3 DEF Typed, Others
    <2>5. /\ streams'[s].step = "sending"
          /\ streams'[s].winner = winner /\ streams'[s].sent = 1
          /\ streams'[s].outcome = None /\ None # "unavailable"
          /\ streams'[s].charged = streams[s].charged
      BY <1>1, <2>2, UnderWay DEF Typed, Stream
    <2>6. /\ ModelsTyped' /\ OtherModels(s)
          /\ models'[s][Other(winner)] \in {"off", "closed"}
      BY <1>1, <2>1, CloseAllButFacts, OtherIsAModel
    <2>7. StreamInv(s)'
      BY <2>5, <2>6 DEF StreamInv, At, BeforeCharge, Answered
    <2>8. QED
      BY <1>1, <2>4, <2>5, <2>6, <2>7, StepOutsideGate DEF BeforeCharge
  <1>4. QED
    BY <1>2, <1>3

LEMMA GiveUpIInv ==
  ASSUME IInv, NEW s \in Streams, GiveUp(s) PROVE IInv'
  <1>1. /\ Typed /\ ModelsTyped /\ streams[s].step = "losing" /\ UNCHANGED gateVars
        /\ \A m \in Models : models[s][m] # "off"
        /\ End(s, "unavailable") /\ "unavailable" \in Outcome /\ CloseAllBut(s, None)
    BY AreTyped DEF GiveUp, At, IInv, StreamInv, Outcome
  <1>2. streams[s].sent = 0
    BY <1>1, UnderWay DEF Answered
  <1>3. /\ ModelsTyped' /\ OtherModels(s)
        /\ \A m \in Models : models'[s][m] = "closed"
    BY <1>1, CloseAllButFacts, NoneIsNothing
  <1>4. StreamInv(s)'
    BY <1>1, <1>2, <1>3, EndFacts DEF StreamInv, At, BeforeCharge
  <1>5. QED
    BY <1>1, <1>3, <1>4, EndFacts, StepOutsideGate DEF BeforeCharge

LEMMA SendNextIInv ==
  ASSUME IInv, NEW s \in Streams, SendNext(s) PROVE IInv'
  <1>1. /\ Typed /\ ModelsTyped /\ streams[s].step = "sending" /\ UNCHANGED <<models, gateVars>>
        /\ streams[s].sent \in Nat /\ streams[s].sent < MaxSuggestions
    BY AreTyped, UnderWay DEF SendNext, At
  <1>2. streams' = [streams EXCEPT ![s] = [@ EXCEPT !.sent = streams[s].sent + 1]]
    BY DEF SendNext
  <1>3. streams'[s] = [streams[s] EXCEPT !.sent = streams[s].sent + 1]
    BY <1>1, <1>2 DEF Typed
  <1>4. streams'[s] \in Stream
    BY <1>1, <1>3 DEF Typed, Stream, MaxSuggestions
  <1>5. Typed' /\ Others(s) /\ ModelsTyped' /\ OtherModels(s)
    BY <1>1, <1>2, <1>3, <1>4 DEF Typed, Others, ModelsTyped, OtherModels
  <1>6. /\ streams'[s].step = "sending"
        /\ streams'[s].winner = streams[s].winner /\ streams'[s].sent > 0
        /\ streams'[s].outcome = None /\ None # "unavailable"
        /\ streams'[s].charged = streams[s].charged
    BY <1>1, <1>3, UnderWay DEF Typed, Stream
  <1>7. models[s][Other(streams[s].winner)] \in {"off", "closed"}
    BY <1>1 DEF IInv, StreamInv, At
  <1>8. StreamInv(s)'
    BY <1>1, <1>6, <1>7 DEF StreamInv, At, BeforeCharge, Answered
  <1>9. QED
    BY <1>1, <1>5, <1>6, <1>8, StepOutsideGate DEF BeforeCharge

LEMMA WinnerEndsIInv ==
  ASSUME IInv, NEW s \in Streams, WinnerEnds(s) PROVE IInv'
  <1>1. /\ Typed /\ ModelsTyped /\ streams[s].step = "sending" /\ UNCHANGED gateVars
        /\ CloseAllBut(s, None)
        /\ "saving" \in Step /\ "dropped" \in Outcome
    BY AreTyped DEF WinnerEnds, At, Step, Outcome
  <1>2. /\ ModelsTyped' /\ OtherModels(s)
        /\ \A m \in Models : models'[s][m] \in {"off", "closed"}
    BY <1>1, CloseAllButFacts, NoneIsNothing
  <1>3. /\ Typed' /\ Others(s)
        /\ \/ streams'[s].step = "saving" /\ streams'[s].outcome = None
           \/ streams'[s].step = "ended" /\ streams'[s].outcome = "dropped"
        /\ None # "unavailable"
        /\ streams'[s].charged = streams[s].charged
    BY <1>1, UnderWay, GotoFacts, EndFacts DEF WinnerEnds
  <1>4. StreamInv(s)'
    BY <1>2, <1>3, OtherIsAModel DEF StreamInv, At, BeforeCharge, Answered
  <1>5. QED
    BY <1>1, <1>2, <1>3, <1>4, StepOutsideGate DEF BeforeCharge

LEMMA OpenIInv ==
  ASSUME IInv, NEW s \in Streams, Open(s) PROVE IInv'
  <1>1. /\ Typed /\ ModelsTyped /\ streams[s].step = "idle" /\ UNCHANGED <<models, gateVars>>
        /\ Goto(s, "admitting") /\ "admitting" \in Step
    BY AreTyped DEF Open, At, Step
  <1>2. streams[s].sent = 0 /\ streams[s].outcome = None /\ None # "unavailable"
    BY <1>1, UnderWay DEF Answered
  <1>3. streams[s].charged = FALSE
    BY <1>1 DEF IInv, TypeOK, Stream, StreamInv, BeforeCharge
  <1>4. StreamInv(s)'
    BY <1>1, <1>2, <1>3, GotoFacts DEF StreamInv, At, BeforeCharge
  <1>5. QED
    BY <1>1, <1>4, GotoFacts, StepOutsideGate DEF BeforeCharge, ModelsTyped, OtherModels

LEMMA SaveHistoryIInv ==
  ASSUME IInv, NEW s \in Streams, SaveHistory(s) PROVE IInv'
  <1>1. /\ Typed /\ ModelsTyped /\ streams[s].step = "saving" /\ UNCHANGED <<models, gateVars>>
        /\ Goto(s, "summarizing") /\ "summarizing" \in Step
    BY AreTyped DEF SaveHistory, At, Step
  <1>2. streams[s].outcome = None /\ None # "unavailable"
    BY <1>1, UnderWay
  <1>3. StreamInv(s)'
    BY <1>1, <1>2, GotoFacts DEF IInv, StreamInv, At, BeforeCharge, Answered
  <1>4. QED
    BY <1>1, <1>3, GotoFacts, StepOutsideGate DEF BeforeCharge, ModelsTyped, OtherModels

\* The three ends that leave the requests to the models alone.
LEMMA QuietEndIInv ==
  ASSUME IInv, NEW s \in Streams, Summarize(s) \/ StoreFails(s) \/ Disconnect(s)
  PROVE  IInv'
  <1>1. /\ streams[s].step # "ended" /\ UNCHANGED <<models, gateVars>>
        /\ End(s, "done") \/ End(s, "dropped") \/ End(s, "gone")
    BY DEF Summarize, StoreFails, Disconnect, At
  <1>2. {"done", "dropped", "gone"} \subseteq Outcome \ {"unavailable"}
    BY DEF Outcome
  <1>3. QED
    BY <1>1, <1>2, EndIInv

-----------------------------------------------------------------------------
(* The invariant, and what it implies. *)

LEMMA NextIInv == IInv /\ [Next]_vars => IInv'
  <1> SUFFICES ASSUME IInv, [Next]_vars PROVE IInv'
    OBVIOUS
  <1>1. CASE UNCHANGED vars
    <2>1. UNCHANGED <<streams, models, keys, minute, budget>>
      BY <1>1 DEF vars
    <2>2. ToModels' = ToModels /\ \A u : InMinute(u)' = InMinute(u)
      BY <2>1 DEF ToModels, InMinute, Admitted, At
    <2>3. TypeOK' /\ KeysAreOwned' /\ \A s \in Streams : StreamInv(s)'
      BY <2>1 DEF IInv, TypeOK, KeysAreOwned, Owns, StreamInv, At
    <2>4. BudgetCounts' /\ MinuteCounts'
      BY <2>1, <2>2 DEF IInv, BudgetCounts, MinuteCounts
    <2>5. QED
      BY <2>3, <2>4 DEF IInv
  <1>2. ASSUME NEW s \in Streams, Open(s) \/ Gate(s) PROVE IInv'
    BY <1>2, OpenIInv, SetRequestKeyIInv, CountMinuteIInv, DeleteRequestKeyIInv,
       ChargeBudgetIInv DEF Gate
  <1>3. ASSUME NEW s \in Streams, Generate(s) PROVE IInv'
    BY <1>3, HedgeIInv, RaceIInv, DeadlineIInv, SendFirstIInv, GiveUpIInv, SendNextIInv,
       WinnerEndsIInv DEF Generate
  <1>4. ASSUME NEW s \in Streams, Finish(s) \/ StoreFails(s) \/ Disconnect(s) PROVE IInv'
    BY <1>4, SaveHistoryIInv, QuietEndIInv DEF Finish
  <1>5. ASSUME NEW s \in Streams, NEW m \in Models, Answer(s, m) \/ Collect(s, m)
        PROVE  IInv'
    BY <1>5, AnswerIInv, CollectIInv
  <1>6. QED
    BY <1>1, <1>2, <1>3, <1>4, <1>5 DEF Next

(* The inductive invariant holds in every state of every behaviour. *)
THEOREM InvariantHolds == Spec => []IInv
  BY InitIInv, NextIInv, PTL DEF Spec

(* Every variable keeps its type; no stream sends a fourth suggestion. *)
THEOREM TypeCorrect == Spec => []TypeOK
  <1>1. IInv => TypeOK
    BY DEF IInv
  <1>2. QED
    BY <1>1, InvariantHolds, PTL

(* RedisSuggestionGate.check, in three awaits, lets no more requests through *)
(* to the models than the day's budget and each subject's minute allow.      *)
THEOREM LimitsHold == Spec => []WithinLimits
  <1>1. ASSUME IInv PROVE WithinLimits
    <2>1. Cardinality({s \in Streams : Admitted(s)}) <= DailyBudget
      BY <1>1 DEF IInv, BudgetCounts, ToModels
    <2>2. ASSUME NEW u \in Subjects
          PROVE  Cardinality({s \in Streams : Admitted(s) /\ SubjectOf[s] = u}) <= PerMinuteLimit
      <3> DEFINE Mine == {s \in Streams : Admitted(s) /\ SubjectOf[s] = u}
      <3>1. Mine \subseteq InMinute(u)
        BY DEF InMinute, Admitted
      <3>2. /\ Cardinality(Mine) <= Cardinality(InMinute(u))
            /\ Cardinality(Mine) \in Nat /\ Cardinality(InMinute(u)) \in Nat
        BY <3>1, NoMore, CountedAreFinite
      <3>3. Cardinality(InMinute(u)) <= PerMinuteLimit
        BY <1>1 DEF IInv, MinuteCounts
      <3>4. Cardinality(Mine) <= PerMinuteLimit
        BY <3>2, <3>3, ConstantsAssumption
      <3>5. QED
        BY <3>4
    <2>3. QED
      BY <2>1, <2>2 DEF WithinLimits
  <1>2. QED
    BY <1>1, InvariantHolds, PTL

(* A request id is charged at most once, though a refused stream gives its *)
(* key back and the client may use the id again.                           *)
THEOREM IdsChargedOnce == Spec => []ChargedOnce
  <1>1. IInv => ChargedOnce
    BY DEF IInv, KeysAreOwned, Owns, ChargedOnce
  <1>2. QED
    BY <1>1, InvariantHolds, PTL

(* From the first suggestion on, the request to the losing model is closed. *)
THEOREM OneSpeaks == Spec => []OneModelSpeaks
  <1>1. IInv => OneModelSpeaks
    BY DEF IInv, StreamInv, OneModelSpeaks
  <1>2. QED
    BY <1>1, InvariantHolds, PTL

(* suggestion_unavailable is sent only after both models were asked, with no *)
(* suggestion sent and neither request open.                                 *)
THEOREM GivenUpLast == Spec => []GivenUpMeansBothFailed
  <1>1. IInv => GivenUpMeansBothFailed
    BY DEF IInv, StreamInv, GivenUpMeansBothFailed
  <1>2. QED
    BY <1>1, InvariantHolds, PTL

-----------------------------------------------------------------------------
(* SuggestionStream implements SuggestionService.  Beyond IInv this takes  *)
(* what makes a refusal true: a key that is set was set for a stream that  *)
(* is past it, and the day's counter has let as many through as it could.  *)

\* Past SetRequestKey
Past(s) == streams[s].step \notin {"idle", "admitting"}

KeysExplained == \A k \in keys : \E t \in Streams : Past(t) /\ RequestOf[t] = k

BudgetUsed == Cardinality(ToModels) >= budget \/ Cardinality(ToModels) >= DailyBudget

StageInv(s) ==
  /\ streams[s].step \notin BeforeCharge \cup {"ended"} => streams[s].charged
  /\ At(s, "settling") \/ streams[s].sent > 0 => streams[s].winner \in Models
  /\ streams[s].step \in {"sending", "saving", "summarizing"} => streams[s].sent > 0

ServiceInv ==
  /\ \A s \in Streams : StageInv(s)
  /\ KeysExplained
  /\ BudgetUsed

\* The service's variables
SpeakerOf(s) == IF streams[s].sent > 0 THEN streams[s].winner ELSE None

AdmittedOf(u) == {s \in Streams : Admitted(s) /\ SubjectOf[s] = u}

Called     == {s \in Streams : ~At(s, "idle")}
ChargedSet == {s \in Streams : streams[s].charged}
Today      == Cardinality(ToModels)
Lately     == [u \in Subjects |-> Cardinality(AdmittedOf(u))]
Speaker    == [s \in Streams |-> SpeakerOf(s)]
Sent       == [s \in Streams |-> streams[s].sent]
Ended      == [s \in Streams |-> streams[s].outcome]

ServiceStep == Service!Next \/ UNCHANGED Service!vars

LEMMA InitService == Init => Service!Init /\ ServiceInv
  <1> SUFFICES ASSUME Init PROVE Service!Init /\ ServiceInv
    OBVIOUS
  <1>1. Called = {} /\ ChargedSet = {} /\ ToModels = {}
    BY DEF Init, Called, ChargedSet, ToModels, Admitted, At
  <1>2. /\ Speaker = [s \in Streams |-> None]
        /\ Sent = [s \in Streams |-> 0]
        /\ Ended = [s \in Streams |-> None]
    BY DEF Init, Speaker, SpeakerOf, Sent, Ended
  <1>3. Today = 0 /\ Lately = [u \in Subjects |-> 0]
    <2>1. \A u : AdmittedOf(u) = {}
      BY DEF Init, Admitted, AdmittedOf
    <2>2. QED
      BY <1>1, <2>1, FS_EmptySet DEF Today, Lately
  <1>4. Service!Init
    BY <1>1, <1>2, <1>3
       DEF Service!Init, Called, ChargedSet, Today, Lately, AdmittedOf, ToModels, Speaker,
           SpeakerOf, Sent, Ended
  <1>5. \A s \in Streams : StageInv(s)
    BY DEF Init, StageInv, BeforeCharge, At
  <1>6. KeysExplained
    BY DEF Init, KeysExplained
  <1>7. BudgetUsed
    BY <1>1, FS_EmptySet, ConstantsAssumption DEF Init, BudgetUsed
  <1>8. QED
    BY <1>4, <1>5, <1>6, <1>7 DEF ServiceInv

\* A step of one stream changes the service's variables at that stream.
LEMMA OneStreamMoves ==
  ASSUME NEW s \in Streams, Others(s)
  PROVE  /\ Called' = IF streams'[s].step = "idle" THEN Called \ {s} ELSE Called \cup {s}
         /\ ChargedSet' = IF streams'[s].charged THEN ChargedSet \cup {s} ELSE ChargedSet \ {s}
         /\ ToModels' = IF streams'[s].charged /\ streams'[s].outcome # "busy"
                          THEN ToModels \cup {s} ELSE ToModels \ {s}
         /\ Speaker' = [Speaker EXCEPT ![s] = SpeakerOf(s)']
         /\ Sent' = [Sent EXCEPT ![s] = streams'[s].sent]
         /\ Ended' = [Ended EXCEPT ![s] = streams'[s].outcome]
  <1>1. /\ Called' = {t \in Streams : streams'[t].step # "idle"}
        /\ ChargedSet' = {t \in Streams : streams'[t].charged}
        /\ ToModels' = {t \in Streams : streams'[t].charged /\ streams'[t].outcome # "busy"}
        /\ Speaker' = [t \in Streams |-> SpeakerOf(t)']
        /\ Sent' = [t \in Streams |-> streams'[t].sent]
        /\ Ended' = [t \in Streams |-> streams'[t].outcome]
    BY DEF Called, ChargedSet, ToModels, Admitted, Speaker, Sent, Ended, At
  <1>2. \A t \in Streams \ {s} : streams'[t] = streams[t] /\ SpeakerOf(t)' = SpeakerOf(t)
    BY DEF Others, SpeakerOf
  <1>3. /\ Called' = IF streams'[s].step = "idle" THEN Called \ {s} ELSE Called \cup {s}
        /\ ChargedSet' = IF streams'[s].charged THEN ChargedSet \cup {s} ELSE ChargedSet \ {s}
    BY <1>1, <1>2 DEF Called, ChargedSet, At
  <1>4. ToModels' = IF streams'[s].charged /\ streams'[s].outcome # "busy"
                      THEN ToModels \cup {s} ELSE ToModels \ {s}
    BY <1>1, <1>2 DEF ToModels, Admitted
  <1>5. /\ Speaker' = [Speaker EXCEPT ![s] = SpeakerOf(s)']
        /\ Sent' = [Sent EXCEPT ![s] = streams'[s].sent]
        /\ Ended' = [Ended EXCEPT ![s] = streams'[s].outcome]
    BY <1>1, <1>2 DEF Speaker, Sent, Ended
  <1>6. QED
    BY <1>3, <1>4, <1>5

\* No key but the stream's own is new, and no more or fewer are admitted.
LEMMA ServiceInvKept ==
  ASSUME IInv, ServiceInv, NEW s \in Streams, Others(s), StageInv(s)',
         budget' = budget,
         streams'[s].charged = streams[s].charged,
         streams'[s].outcome = "busy" <=> streams[s].outcome = "busy",
         Past(s) => Past(s)',
         \A k \in keys' : k \in keys \/ (k = RequestOf[s] /\ Past(s)')
  PROVE  ServiceInv' /\ Today' = Today /\ Lately' = Lately
  <1>1. \A t \in Streams : StageInv(t)'
    BY DEF ServiceInv, StageInv, Others, At
  <1>2. ToModels' = ToModels /\ Today' = Today /\ Lately' = Lately
    <2>1. \A t \in Streams : Admitted(t)' <=> Admitted(t)
      BY DEF Admitted, Others
    <2>2. ToModels' = ToModels /\ \A u : AdmittedOf(u)' = AdmittedOf(u)
      BY <2>1 DEF ToModels, AdmittedOf
    <2>3. QED
      BY <2>2 DEF Today, Lately
  <1>3. KeysExplained'
    <2>1. ASSUME NEW k \in keys' PROVE \E t \in Streams : Past(t)' /\ RequestOf[t] = k
      <3>1. CASE k \in keys
        <4>1. PICK t \in Streams : Past(t) /\ RequestOf[t] = k
          BY <3>1 DEF ServiceInv, KeysExplained
        <4>2. Past(t)'
          BY <4>1 DEF Others, Past
        <4>3. QED
          BY <4>1, <4>2
      <3>2. QED
        BY <2>1, <3>1
    <2>2. QED
      BY <2>1 DEF KeysExplained
  <1>4. QED
    BY <1>1, <1>2, <1>3 DEF ServiceInv, BudgetUsed

\* A stream goes on without saying anything.
LEMMA GoesOn ==
  ASSUME IInv, ServiceInv, NEW s \in Streams, Others(s), StageInv(s)',
         budget' = budget,
         streams[s].step # "idle", streams'[s].step # "idle",
         streams'[s].charged = streams[s].charged,
         streams'[s].outcome = streams[s].outcome,
         streams'[s].sent = streams[s].sent,
         streams'[s].winner = streams[s].winner \/ streams[s].sent = 0,
         Past(s) => Past(s)',
         \A k \in keys' : k \in keys \/ (k = RequestOf[s] /\ Past(s)')
  PROVE  ServiceInv' /\ ServiceStep
  <1>1. SpeakerOf(s)' = SpeakerOf(s)
    BY DEF SpeakerOf
  <1>2. Called' = Called /\ ChargedSet' = ChargedSet
    BY OneStreamMoves DEF Called, ChargedSet, At
  <1>3. Speaker' = Speaker /\ Sent' = Sent /\ Ended' = Ended
    BY <1>1, OneStreamMoves DEF Speaker, Sent, Ended
  <1>4. Today' = Today /\ Lately' = Lately /\ ServiceInv'
    BY ServiceInvKept
  <1>5. UNCHANGED Service!vars
    BY <1>2, <1>3, <1>4
       DEF Service!vars, Called, ChargedSet, Today, Lately, AdmittedOf, ToModels,
           Speaker, SpeakerOf, Sent, Ended
  <1>6. QED
    BY <1>4, <1>5 DEF ServiceStep

\* A stream ends, with an outcome that fits what it has done.
Fits(s, outcome) ==
  \/ outcome \in {"dropped", "gone"}
  \/ outcome = "limited" /\ ~streams[s].charged
  \/ /\ outcome = "duplicate" /\ ~streams[s].charged
     /\ \E t \in Called \ {s} : RequestOf[t] = RequestOf[s]
  \/ outcome = "done" /\ streams[s].charged /\ streams[s].sent > 0
  \/ outcome = "unavailable" /\ streams[s].charged /\ streams[s].sent = 0

LEMMA Ends ==
  ASSUME IInv, ServiceInv, NEW s \in Streams, NEW outcome \in Outcome,
         End(s, outcome), Fits(s, outcome), budget' = budget, keys' \subseteq keys,
         streams[s].step \notin {"idle", "ended"}
  PROVE  ServiceInv' /\ ServiceStep
  <1>1. /\ Others(s)
        /\ streams'[s].step = "ended"
        /\ streams'[s].winner = streams[s].winner
        /\ streams'[s].sent = streams[s].sent
        /\ streams'[s].outcome = outcome
        /\ streams'[s].charged = streams[s].charged
    BY AreTyped, EndFacts
  <1>2. streams[s].outcome = None /\ None # "busy" /\ outcome # "busy"
    BY UnderWay, NoneIsNothing DEF Fits, Outcome
  <1>3. StageInv(s)'
    BY <1>1 DEF ServiceInv, StageInv, At
  <1>4. Today' = Today /\ Lately' = Lately /\ ServiceInv'
    BY <1>1, <1>2, <1>3, ServiceInvKept DEF Past
  <1>5. SpeakerOf(s)' = SpeakerOf(s)
    BY <1>1 DEF SpeakerOf
  <1>6. Called' = Called /\ ChargedSet' = ChargedSet
    BY <1>1, OneStreamMoves DEF Called, ChargedSet, At
  <1>7. /\ Speaker' = Speaker /\ Sent' = Sent
        /\ Ended' = [Ended EXCEPT ![s] = outcome]
    BY <1>1, <1>5, OneStreamMoves DEF Speaker, Sent
  <1>8. s \in Called /\ Ended[s] = None
    BY <1>2 DEF Called, Ended, At
  <1>9. Service!End(s, outcome)
    BY <1>7, <1>8 DEF Service!End, Called, Ended
  <1>10. streams[s].charged => s \in ChargedSet
    BY DEF ChargedSet
  <1>11. Service!Next
    <2>1. CASE outcome \in {"dropped", "gone"}
      <3>1. Service!Break(s, outcome)
        BY <1>4, <1>6, <1>7, <1>9
           DEF Service!Break, Service!counts, Called, ChargedSet, Today, Lately, AdmittedOf, ToModels,
           Speaker, SpeakerOf, Sent
      <3>2. QED
        BY <2>1, <3>1 DEF Service!Next
    <2>2. CASE outcome \in {"limited", "duplicate"}
      <3>1. s \notin ChargedSet
        BY <2>2 DEF Fits, ChargedSet
      <3>2. outcome = "duplicate" => \E t \in Called \ {s} : RequestOf[t] = RequestOf[s]
        BY DEF Fits
      <3>3. Service!Refuse(s, outcome)
        BY <1>4, <1>6, <1>7, <1>9, <3>1, <3>2
           DEF Service!Refuse, Service!counts, Called, ChargedSet, Today, Lately, AdmittedOf, ToModels,
           Speaker, SpeakerOf, Sent
      <3>4. QED
        BY <2>2, <3>3 DEF Service!Next
    <2>3. CASE outcome \in {"done", "unavailable"}
      <3>1. /\ s \in ChargedSet
            /\ Sent[s] = streams[s].sent
            /\ outcome = IF streams[s].sent > 0 THEN "done" ELSE "unavailable"
        BY <1>10, <2>3 DEF Fits, Sent
      <3>2. Service!Conclude(s, outcome)
        BY <1>4, <1>6, <1>7, <1>9, <3>1
           DEF Service!Conclude, Service!counts, Called, ChargedSet, Today, Lately, AdmittedOf, ToModels,
           Speaker, SpeakerOf, Sent
      <3>3. QED
        BY <2>3, <3>2 DEF Service!Next
    <2>4. QED
      BY <2>1, <2>2, <2>3 DEF Fits
  <1>12. QED
    BY <1>4, <1>11 DEF ServiceStep

\* The winner sends a suggestion.
LEMMA Speaks ==
  ASSUME IInv, ServiceInv, NEW s \in Streams, Others(s),
         UNCHANGED <<keys, budget>>,
         streams[s].step \in {"settling", "sending"}, streams'[s].step = "sending",
         streams'[s].charged = streams[s].charged,
         streams'[s].outcome = streams[s].outcome,
         streams'[s].winner = streams[s].winner,
         streams[s].sent < MaxSuggestions,
         streams'[s].sent = streams[s].sent + 1
  PROVE  ServiceInv' /\ ServiceStep
  <1>1. streams[s].outcome = None /\ None # "busy" /\ streams[s].sent \in Nat
    BY UnderWay, NoneIsNothing DEF Outcome
  <1>2. streams[s].charged /\ streams[s].winner \in Models
    BY DEF ServiceInv, StageInv, BeforeCharge, At
  <1>3. StageInv(s)'
    BY <1>1, <1>2 DEF StageInv, At
  <1>4. Today' = Today /\ Lately' = Lately /\ ServiceInv'
    BY <1>1, <1>3, ServiceInvKept DEF Past
  <1>5. PICK m \in Models : m = streams[s].winner
    BY <1>2
  <1>6. /\ SpeakerOf(s) \in {None, m} /\ SpeakerOf(s)' = m
        /\ streams'[s].sent = streams[s].sent + 1
    BY <1>1, <1>5 DEF SpeakerOf
  <1>7. Called' = Called /\ ChargedSet' = ChargedSet
    BY OneStreamMoves DEF Called, ChargedSet, At
  <1>8. Ended' = Ended
    BY OneStreamMoves DEF Ended
  <1>9. /\ Speaker' = [Speaker EXCEPT ![s] = m]
        /\ Sent' = [Sent EXCEPT ![s] = Sent[s] + 1]
        /\ Speaker[s] \in {None, m} /\ Sent[s] < MaxSuggestions
        /\ s \in ChargedSet /\ Ended[s] = None
    BY <1>1, <1>2, <1>6, OneStreamMoves DEF Speaker, Sent, Ended, ChargedSet
  <1>10. Service!Speak(s, m)
    BY <1>4, <1>7, <1>8, <1>9
       DEF Service!Speak, Service!counts, Called, ChargedSet, Today, Lately, AdmittedOf, ToModels,
           Speaker, SpeakerOf, Sent, Ended
  <1>11. QED
    BY <1>4, <1>10 DEF ServiceStep, Service!Next

\* The gate: an id is a duplicate because its key was set for another stream.
LEMMA SetRequestKeyServes ==
  ASSUME IInv, ServiceInv, NEW s \in Streams, SetRequestKey(s)
  PROVE  ServiceInv' /\ ServiceStep
  <1>1. /\ streams[s].step = "admitting" /\ UNCHANGED <<models, minute, budget>>
        /\ keys' = keys \cup {RequestOf[s]}
    BY DEF SetRequestKey, At
  <1>2. streams[s].charged = FALSE /\ streams[s].sent = 0
    BY <1>1, UnderWay DEF IInv, StreamInv, BeforeCharge, Answered, TypeOK, Stream
  <1>3. CASE RequestOf[s] \in keys
    <2>1. End(s, "duplicate") /\ keys' = keys
      BY <1>1, <1>3 DEF SetRequestKey
    <2>2. PICK t \in Streams : Past(t) /\ RequestOf[t] = RequestOf[s]
      BY <1>3 DEF ServiceInv, KeysExplained
    <2>3. t \in Called \ {s}
      BY <1>1, <2>2 DEF Called, Past, At
    <2>4. Fits(s, "duplicate") /\ "duplicate" \in Outcome
      BY <1>2, <2>2, <2>3 DEF Fits, Outcome
    <2>5. QED
      BY <1>1, <2>1, <2>4, Ends
  <1>4. CASE RequestOf[s] \notin keys
    <2>1. Goto(s, "counting") /\ "counting" \in Step
      BY <1>4 DEF SetRequestKey, Step
    <2>2. /\ Others(s)
          /\ streams'[s].step = "counting"
          /\ streams'[s].winner = streams[s].winner
          /\ streams'[s].sent = streams[s].sent
          /\ streams'[s].outcome = streams[s].outcome
          /\ streams'[s].charged = streams[s].charged
      BY <2>1, AreTyped, GotoFacts
    <2>3. StageInv(s)'
      BY <1>2, <2>2 DEF StageInv, BeforeCharge, At
    <2>4. QED
      BY <1>1, <2>2, <2>3, GoesOn DEF Past
  <1>5. QED
    BY <1>3, <1>4

LEMMA CountingServes ==
  ASSUME IInv, ServiceInv, NEW s \in Streams, CountMinute(s) \/ DeleteRequestKey(s)
  PROVE  ServiceInv' /\ ServiceStep
  <1>1. streams[s].step \in {"counting", "releasing"} /\ budget' = budget
    BY DEF CountMinute, DeleteRequestKey, At
  <1>2. streams[s].charged = FALSE /\ streams[s].sent = 0
    BY <1>1, UnderWay DEF IInv, StreamInv, BeforeCharge, Answered, TypeOK, Stream
  <1>3. CASE CountMinute(s)
    <2>1. PICK step \in {"releasing", "charging"} : Goto(s, step)
      BY <1>3 DEF CountMinute
    <2>2. step \in Step /\ keys' = keys
      BY <1>3, <2>1 DEF Step, CountMinute
    <2>3. /\ Others(s)
          /\ streams'[s].step = step
          /\ streams'[s].winner = streams[s].winner
          /\ streams'[s].sent = streams[s].sent
          /\ streams'[s].outcome = streams[s].outcome
          /\ streams'[s].charged = streams[s].charged
      BY <2>1, <2>2, AreTyped, GotoFacts
    <2>4. StageInv(s)'
      BY <1>2, <2>1, <2>3 DEF StageInv, BeforeCharge, At
    <2>5. QED
      BY <1>1, <2>1, <2>2, <2>3, <2>4, GoesOn DEF Past
  <1>4. CASE DeleteRequestKey(s)
    <2>1. End(s, "limited") /\ keys' \subseteq keys
      BY <1>4 DEF DeleteRequestKey
    <2>2. Fits(s, "limited") /\ "limited" \in Outcome
      BY <1>2 DEF Fits, Outcome
    <2>3. QED
      BY <1>1, <2>1, <2>2, Ends
  <1>5. QED
    BY <1>3, <1>4

\* Counting the day charges and admits, or charges and turns away.
LEMMA ChargeBudgetServes ==
  ASSUME IInv, ServiceInv, NEW s \in Streams, ChargeBudget(s)
  PROVE  ServiceInv' /\ ServiceStep
  <1>1. /\ Typed' /\ Others(s)
        /\ streams[s].step = "charging"
        /\ streams'[s].step = IF budget' > DailyBudget THEN "ended" ELSE "hedging"
        /\ streams'[s].outcome = IF budget' > DailyBudget THEN "busy" ELSE None
        /\ streams'[s].charged = TRUE
        /\ streams'[s].winner = streams[s].winner
        /\ streams'[s].sent = streams[s].sent
    <2>1. Typed /\ "busy" \in Outcome /\ "ended" \in Step /\ "hedging" \in Step
      BY DEF IInv, TypeOK, Typed, Outcome, Step
    <2>2. QED
      BY <2>1, ChargedFacts DEF ChargeBudget, At
  <1>2. keys' = keys /\ budget \in Nat /\ budget' = budget + 1
    BY DEF ChargeBudget, IInv, TypeOK
  <1>3. /\ streams[s].sent = 0 /\ streams[s].outcome = None /\ None # "busy"
        /\ streams[s].charged = FALSE
    BY <1>1, UnderWay, NoneIsNothing
       DEF IInv, StreamInv, BeforeCharge, Answered, TypeOK, Stream, Outcome
  <1>4. StageInv(s)'
    BY <1>1, <1>3 DEF StageInv, At
  <1>5. \A t \in Streams : StageInv(t)'
    BY <1>1, <1>4 DEF ServiceInv, StageInv, Others, At
  <1>6. KeysExplained'
    <2>1. \A t \in Streams : Past(t) => Past(t)'
      BY <1>1 DEF Past, Others
    <2>2. QED
      BY <1>2, <2>1 DEF ServiceInv, KeysExplained
  <1>7. /\ s \notin ToModels /\ s \notin ChargedSet /\ s \in Called
        /\ Ended[s] = None
    BY <1>1, <1>3 DEF ToModels, Admitted, ChargedSet, Called, Ended, At
  <1>8. /\ Cardinality(ToModels) \in Nat
        /\ Cardinality(ToModels) <= budget /\ Cardinality(ToModels) <= DailyBudget
        /\ Cardinality(ToModels) >= budget \/ Cardinality(ToModels) >= DailyBudget
    BY CountedAreFinite DEF IInv, BudgetCounts, ServiceInv, BudgetUsed
  <1>9. /\ Called' = Called /\ ChargedSet' = ChargedSet \cup {s}
        /\ Speaker' = Speaker /\ Sent' = Sent
        /\ Ended' = [Ended EXCEPT ![s] = streams'[s].outcome]
    <2>1. SpeakerOf(s)' = SpeakerOf(s)
      BY <1>1 DEF SpeakerOf
    <2>2. Called' = Called \cup {s} /\ ChargedSet' = ChargedSet \cup {s}
      BY <1>1, OneStreamMoves
    <2>3. Speaker' = Speaker /\ Sent' = Sent
      BY <1>1, <2>1, OneStreamMoves DEF Speaker, Sent
    <2>4. Ended' = [Ended EXCEPT ![s] = streams'[s].outcome]
      BY <1>1, OneStreamMoves
    <2>5. QED
      BY <1>7, <2>2, <2>3, <2>4
  <1>10. \A t \in ChargedSet : RequestOf[t] # RequestOf[s]
    BY <1>1, <1>3 DEF IInv, KeysAreOwned, Owns, ChargedSet
  <1>11. CASE budget' > DailyBudget
    <2>1. ToModels' = ToModels /\ \A u : AdmittedOf(u)' = AdmittedOf(u)
      <3>1. \A t \in Streams : Admitted(t)' <=> Admitted(t)
        BY <1>1, <1>3, <1>11 DEF Admitted, Others
      <3>2. QED
        BY <3>1 DEF ToModels, AdmittedOf
    <2>2. Today = DailyBudget
      BY <1>2, <1>8, <1>11, ConstantsAssumption DEF Today
    <2>3. Today' = Today /\ Lately' = Lately
      BY <2>1 DEF Today, Lately
    <2>4. BudgetUsed'
      BY <2>2, <2>3, ConstantsAssumption DEF BudgetUsed, Today
    <2>5. Ended' = [Ended EXCEPT ![s] = "busy"]
      BY <1>1, <1>9, <1>11
    <2>6. Service!TurnAway(s)
      BY <1>7, <1>9, <1>10, <2>2, <2>3, <2>5
         DEF Service!TurnAway, Service!Charge, Service!End, Service!counts, Called,
             ChargedSet, Today, Lately, AdmittedOf, ToModels, Speaker, SpeakerOf, Sent, Ended
    <2>7. QED
      BY <1>5, <1>6, <2>4, <2>6 DEF ServiceInv, ServiceStep, Service!Next
  <1>12. CASE ~(budget' > DailyBudget)
    <2> DEFINE u == SubjectOf[s]
    <2>1. /\ ToModels' = ToModels \cup {s}
          /\ AdmittedOf(u)' = AdmittedOf(u) \cup {s} /\ s \notin AdmittedOf(u)
          /\ \A v : v # u => AdmittedOf(v)' = AdmittedOf(v)
      <3>1. /\ \A t \in Streams \ {s} : Admitted(t)' <=> Admitted(t)
            /\ ~Admitted(s) /\ Admitted(s)'
        BY <1>1, <1>3, <1>12 DEF Admitted, Others
      <3>2. QED
        BY <3>1 DEF ToModels, AdmittedOf
    <2>2. Today' = Today + 1 /\ Today \in Nat /\ Today < DailyBudget
      <3>1. Cardinality(ToModels \cup {s}) = Cardinality(ToModels) + 1
        BY <1>7, FS_AddElement, CountedAreFinite
      <3>2. Cardinality(ToModels) < DailyBudget
        BY <1>2, <1>8, <1>12, ConstantsAssumption
      <3>3. QED
        BY <1>8, <2>1, <3>1, <3>2 DEF Today
    <2>3. BudgetUsed'
      BY <1>2, <1>8, <2>2, ConstantsAssumption DEF BudgetUsed, Today
    <2>4. Ended' = Ended
      BY <1>1, <1>3, <1>9, <1>12 DEF Ended
    <2>5. /\ Cardinality(AdmittedOf(u)') = Cardinality(AdmittedOf(u)) + 1
          /\ Cardinality(AdmittedOf(u)) < PerMinuteLimit
      <3>1. AdmittedOf(u) \cup {s} \subseteq InMinute(u)
        BY <1>1 DEF AdmittedOf, Admitted, InMinute, At
      <3>2. IsFiniteSet(AdmittedOf(u))
        BY <3>1, CountedAreFinite, FS_Subset
      <3>3. /\ Cardinality(AdmittedOf(u) \cup {s}) = Cardinality(AdmittedOf(u)) + 1
            /\ Cardinality(AdmittedOf(u)) \in Nat
        BY <2>1, <3>2, FS_AddElement, FS_CardinalityType
      <3>4. /\ Cardinality(AdmittedOf(u) \cup {s}) <= Cardinality(InMinute(u))
            /\ Cardinality(InMinute(u)) \in Nat
        BY <3>1, NoMore, CountedAreFinite
      <3>5. Cardinality(InMinute(u)) <= PerMinuteLimit
        BY DEF IInv, MinuteCounts, Subjects
      <3>6. QED
        BY <2>1, <3>3, <3>4, <3>5, ConstantsAssumption
    <2>6. /\ Lately[u] < PerMinuteLimit
          /\ Lately' = [Lately EXCEPT ![u] = Lately[u] + 1]
      <3>1. u \in Subjects
        BY DEF Subjects
      <3>2. Lately' = [v \in Subjects |-> Cardinality(AdmittedOf(v)')]
        BY DEF Lately
      <3>3. QED
        BY <2>1, <2>5, <3>1, <3>2 DEF Lately
    <2>7. Service!Admit(s)
      BY <1>7, <1>9, <1>10, <2>2, <2>4, <2>6
         DEF Service!Admit, Service!Charge, Called, ChargedSet, Today, Lately, AdmittedOf,
             ToModels, Speaker, SpeakerOf, Sent, Ended
    <2>8. QED
      BY <1>5, <1>6, <2>3, <2>7 DEF ServiceInv, ServiceStep, Service!Next
  <1>13. QED
    BY <1>11, <1>12

\* The race: a winner is a model, and nothing is said before it is settled.
LEMMA RaceServes ==
  ASSUME IInv, ServiceInv, NEW s \in Streams, Hedge(s) \/ Race(s) \/ Deadline(s)
  PROVE  ServiceInv' /\ ServiceStep
  <1>1. /\ streams[s].step \in {"hedging", "racing"} /\ Typed
        /\ keys' = keys /\ budget' = budget
    BY AreTyped DEF Hedge, Race, Deadline, At, gateVars
  <1>2. streams[s].charged /\ streams[s].sent = 0
    BY <1>1, UnderWay DEF ServiceInv, StageInv, BeforeCharge, Answered
  <1>3. \/ \E m \in Models : Settle(s, m)
        \/ Goto(s, "racing") \/ Goto(s, "losing") \/ streams' = streams
    BY DEF Hedge, Race, Deadline, Decisive, Models
  <1>4. ASSUME NEW m \in Models, Settle(s, m)
        PROVE  ServiceInv' /\ ServiceStep
    <2>1. CASE models[s][m] = "first"
      <3>1. streams' = [streams EXCEPT ![s] = [@ EXCEPT !.step = "settling", !.winner = m]]
        BY <1>4, <2>1 DEF Settle
      <3>2. streams'[s] = [streams[s] EXCEPT !.step = "settling", !.winner = m]
        BY <1>1, <3>1 DEF Typed
      <3>3. /\ Others(s)
            /\ streams'[s].step = "settling"
            /\ streams'[s].winner = m
            /\ streams'[s].sent = streams[s].sent
            /\ streams'[s].outcome = streams[s].outcome
            /\ streams'[s].charged = streams[s].charged
        BY <1>1, <3>1, <3>2 DEF Typed, Others, Stream
      <3>4. StageInv(s)'
        BY <1>2, <3>3 DEF StageInv, At
      <3>5. QED
        BY <1>1, <1>2, <3>3, <3>4, GoesOn DEF Past
    <2>2. CASE models[s][m] # "first"
      <3>1. End(s, "dropped")
        BY <1>4, <2>2 DEF Settle
      <3>2. Fits(s, "dropped") /\ "dropped" \in Outcome
        BY DEF Fits, Outcome
      <3>3. QED
        BY <1>1, <3>1, <3>2, Ends
    <2>3. QED
      BY <2>1, <2>2
  <1>5. CASE Goto(s, "racing") \/ Goto(s, "losing")
    <2>1. PICK step \in {"racing", "losing"} : Goto(s, step)
      BY <1>5
    <2>2. step \in Step
      BY <2>1 DEF Step
    <2>3. /\ Others(s)
          /\ streams'[s].step = step
          /\ streams'[s].winner = streams[s].winner
          /\ streams'[s].sent = streams[s].sent
          /\ streams'[s].outcome = streams[s].outcome
          /\ streams'[s].charged = streams[s].charged
      BY <1>1, <2>1, <2>2, GotoFacts
    <2>4. StageInv(s)'
      BY <1>2, <2>1, <2>3 DEF StageInv, At
    <2>5. QED
      BY <1>1, <2>1, <2>3, <2>4, GoesOn DEF Past
  <1>6. CASE streams' = streams
    <2>1. StageInv(s)'
      BY <1>6 DEF ServiceInv, StageInv, At
    <2>2. QED
      BY <1>1, <1>6, <2>1, GoesOn DEF Others, Past
  <1>7. QED
    BY <1>3, <1>4, <1>5, <1>6

\* What a settled stream says, to its end
LEMMA SendingServes ==
  ASSUME IInv, ServiceInv, NEW s \in Streams,
         SendFirst(s) \/ SendNext(s) \/ WinnerEnds(s) \/ SaveHistory(s)
  PROVE  ServiceInv' /\ ServiceStep
  <1>1. /\ streams[s].step \in {"settling", "sending", "saving"} /\ Typed
        /\ UNCHANGED <<keys, budget>>
    BY AreTyped DEF SendFirst, SendNext, WinnerEnds, SaveHistory, At, gateVars
  <1>2. streams[s].charged /\ (streams[s].sent > 0 => streams[s].winner \in Models)
    BY <1>1 DEF ServiceInv, StageInv, BeforeCharge
  <1>3. CASE End(s, "dropped")
    <2>1. Fits(s, "dropped") /\ "dropped" \in Outcome
      BY DEF Fits, Outcome
    <2>2. QED
      BY <1>1, <1>3, <2>1, Ends
  <1>4. CASE SendFirst(s) /\ ~End(s, "dropped")
    <2>1. streams[s].step = "settling" /\ streams[s].sent = 0
      BY <1>4, UnderWay DEF SendFirst, At, Answered
    <2>2. streams' = [streams EXCEPT ![s] = [@ EXCEPT !.step = "sending", !.sent = 1]]
      BY <1>4 DEF SendFirst
    <2>3. streams'[s] = [streams[s] EXCEPT !.step = "sending", !.sent = 1]
      BY <1>1, <2>2 DEF Typed
    <2>4. /\ Others(s)
          /\ streams'[s].step = "sending"
          /\ streams'[s].winner = streams[s].winner
          /\ streams'[s].sent = streams[s].sent + 1
          /\ streams'[s].outcome = streams[s].outcome
          /\ streams'[s].charged = streams[s].charged
      BY <1>1, <2>1, <2>2, <2>3 DEF Typed, Others, Stream
    <2>5. streams[s].sent < MaxSuggestions
      BY <2>1 DEF MaxSuggestions
    <2>6. QED
      BY <1>1, <2>1, <2>4, <2>5, Speaks
  <1>5. CASE SendNext(s)
    <2>1. /\ streams[s].step = "sending" /\ streams[s].sent < MaxSuggestions
          /\ streams' = [streams EXCEPT ![s] = [@ EXCEPT !.sent = streams[s].sent + 1]]
      BY <1>5 DEF SendNext, At
    <2>2. streams'[s] = [streams[s] EXCEPT !.sent = streams[s].sent + 1]
      BY <1>1, <2>1 DEF Typed
    <2>3. /\ Others(s)
          /\ streams'[s].step = "sending"
          /\ streams'[s].winner = streams[s].winner
          /\ streams'[s].sent = streams[s].sent + 1
          /\ streams'[s].outcome = streams[s].outcome
          /\ streams'[s].charged = streams[s].charged
      BY <1>1, <2>1, <2>2 DEF Typed, Others, Stream
    <2>4. QED
      BY <1>1, <2>1, <2>3, Speaks
  <1>6. CASE (WinnerEnds(s) \/ SaveHistory(s)) /\ ~End(s, "dropped")
    <2>1. PICK step \in {"saving", "summarizing"} : Goto(s, step)
      BY <1>6 DEF WinnerEnds, SaveHistory
    <2>2. step \in Step /\ streams[s].step \in {"sending", "saving"}
      BY <1>6, <2>1 DEF Step, WinnerEnds, SaveHistory, At
    <2>3. /\ Others(s)
          /\ streams'[s].step = step
          /\ streams'[s].winner = streams[s].winner
          /\ streams'[s].sent = streams[s].sent
          /\ streams'[s].outcome = streams[s].outcome
          /\ streams'[s].charged = streams[s].charged
      BY <1>1, <2>1, <2>2, GotoFacts
    <2>4. streams[s].sent > 0
      BY <2>2 DEF ServiceInv, StageInv
    <2>5. StageInv(s)'
      BY <1>2, <2>1, <2>3, <2>4 DEF StageInv, At
    <2>6. QED
      BY <1>1, <2>1, <2>3, <2>5, GoesOn DEF Past
  <1>7. QED
    BY <1>3, <1>4, <1>5, <1>6

LEMMA EndingServes ==
  ASSUME IInv, ServiceInv, NEW s \in Streams,
         GiveUp(s) \/ Summarize(s) \/ StoreFails(s) \/ Disconnect(s)
  PROVE  ServiceInv' /\ ServiceStep
  <1>1. streams[s].step \notin {"idle", "ended"} /\ keys' = keys /\ budget' = budget
    BY DEF GiveUp, Summarize, StoreFails, Disconnect, At, gateVars
  <1>2. CASE GiveUp(s)
    <2>1. streams[s].step = "losing" /\ End(s, "unavailable")
      BY <1>2 DEF GiveUp, At
    <2>2. streams[s].charged /\ streams[s].sent = 0
      BY <2>1, UnderWay DEF ServiceInv, StageInv, BeforeCharge, Answered
    <2>3. Fits(s, "unavailable") /\ "unavailable" \in Outcome
      BY <2>2 DEF Fits, Outcome
    <2>4. QED
      BY <1>1, <2>1, <2>3, Ends
  <1>3. CASE Summarize(s)
    <2>1. streams[s].step = "summarizing" /\ End(s, "done")
      BY <1>3 DEF Summarize, At
    <2>2. streams[s].charged /\ streams[s].sent > 0
      BY <2>1 DEF ServiceInv, StageInv, BeforeCharge
    <2>3. Fits(s, "done") /\ "done" \in Outcome
      BY <2>2 DEF Fits, Outcome
    <2>4. QED
      BY <1>1, <2>1, <2>3, Ends
  <1>4. CASE StoreFails(s) \/ Disconnect(s)
    <2>1. PICK outcome \in {"dropped", "gone"} : End(s, outcome)
      BY <1>4 DEF StoreFails, Disconnect
    <2>2. Fits(s, outcome) /\ outcome \in Outcome
      BY <2>1 DEF Fits, Outcome
    <2>3. QED
      BY <1>1, <2>1, <2>2, Ends
  <1>5. QED
    BY <1>2, <1>3, <1>4

LEMMA OpenServes ==
  ASSUME IInv, ServiceInv, NEW s \in Streams, Open(s)
  PROVE  ServiceInv' /\ ServiceStep
  <1>1. /\ streams[s].step = "idle" /\ Goto(s, "admitting") /\ "admitting" \in Step
        /\ keys' = keys /\ budget' = budget
    BY DEF Open, At, Step, gateVars
  <1>2. /\ Others(s)
        /\ streams'[s].step = "admitting"
        /\ streams'[s].winner = streams[s].winner
        /\ streams'[s].sent = streams[s].sent
        /\ streams'[s].outcome = streams[s].outcome
        /\ streams'[s].charged = streams[s].charged
    BY <1>1, AreTyped, GotoFacts
  <1>3. streams[s].charged = FALSE /\ streams[s].sent = 0
    BY <1>1, UnderWay DEF IInv, StreamInv, BeforeCharge, Answered, TypeOK, Stream
  <1>4. StageInv(s)'
    BY <1>2, <1>3 DEF StageInv, BeforeCharge, At
  <1>5. Today' = Today /\ Lately' = Lately /\ ServiceInv'
    BY <1>1, <1>2, <1>4, ServiceInvKept DEF Past
  <1>6. Called' = Called \cup {s} /\ s \notin Called
    BY <1>1, <1>2, OneStreamMoves DEF Called, At
  <1>7. ChargedSet' = ChargedSet
    BY <1>2, OneStreamMoves DEF ChargedSet
  <1>8. Speaker' = Speaker /\ Sent' = Sent /\ Ended' = Ended
    <2>1. SpeakerOf(s)' = SpeakerOf(s)
      BY <1>2 DEF SpeakerOf
    <2>2. QED
      BY <1>2, <2>1, OneStreamMoves DEF Speaker, Sent, Ended
  <1>9. Service!Call(s)
    BY <1>5, <1>6, <1>7, <1>8
       DEF Service!Call, Service!counts, Called, ChargedSet, Today, Lately, AdmittedOf,
           ToModels, Speaker, SpeakerOf, Sent, Ended
  <1>10. QED
    BY <1>5, <1>9 DEF ServiceStep, Service!Next

\* Steps that change no stream: the models' answers, and stuttering
LEMMA ModelsServe ==
  ASSUME IInv, ServiceInv, UNCHANGED <<streams, keys, budget>>
  PROVE  ServiceInv' /\ ServiceStep
  <1>1. streams' = streams /\ keys' = keys /\ budget' = budget
    OBVIOUS
  <1>2. /\ UNCHANGED <<Called, ChargedSet, ToModels, Speaker, Sent, Ended>>
        /\ \A u : AdmittedOf(u)' = AdmittedOf(u)
    BY <1>1 DEF Called, ChargedSet, ToModels, AdmittedOf, Admitted, Speaker, SpeakerOf, Sent,
                Ended, At
  <1>3. Today' = Today /\ Lately' = Lately
    BY <1>2 DEF Today, Lately
  <1>4. UNCHANGED Service!vars
    BY <1>2, <1>3
       DEF Service!vars, Called, ChargedSet, Today, Lately, AdmittedOf, ToModels, Speaker,
           SpeakerOf, Sent, Ended
  <1>5. ServiceInv'
    BY <1>1, <1>2 DEF ServiceInv, StageInv, KeysExplained, BudgetUsed, Past, At
  <1>6. QED
    BY <1>4, <1>5 DEF ServiceStep

LEMMA StepService ==
  IInv /\ ServiceInv /\ [Next]_vars => ServiceInv' /\ [Service!Next]_(Service!vars)
  <1> SUFFICES ASSUME IInv, ServiceInv, [Next]_vars PROVE ServiceInv' /\ ServiceStep
    BY DEF ServiceStep
  <1>1. CASE UNCHANGED vars
    BY <1>1, ModelsServe DEF vars
  <1>2. ASSUME NEW s \in Streams, Open(s) \/ Gate(s) PROVE ServiceInv' /\ ServiceStep
    BY <1>2, OpenServes, SetRequestKeyServes, CountingServes, ChargeBudgetServes DEF Gate
  <1>3. ASSUME NEW s \in Streams, Generate(s) \/ Finish(s) PROVE ServiceInv' /\ ServiceStep
    BY <1>3, RaceServes, SendingServes, EndingServes DEF Generate, Finish
  <1>4. ASSUME NEW s \in Streams, StoreFails(s) \/ Disconnect(s)
        PROVE  ServiceInv' /\ ServiceStep
    BY <1>4, EndingServes
  <1>5. ASSUME NEW s \in Streams, NEW m \in Models, Answer(s, m) \/ Collect(s, m)
        PROVE  ServiceInv' /\ ServiceStep
    BY <1>5, ModelsServe DEF Answer, Collect, gateVars
  <1>6. QED
    BY <1>1, <1>2, <1>3, <1>4, <1>5 DEF Next

(* For any streams, ids, subjects and limits: the gate's three awaits and *)
(* the race of the models give what SuggestionService promises.           *)
THEOREM StreamImplementsService == Spec => ImplementsService
  BY InitService, StepService, InvariantHolds, PTL DEF Spec, ImplementsService, Service!Spec

===============================================================================
