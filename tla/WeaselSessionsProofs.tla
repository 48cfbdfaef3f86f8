------------------------ MODULE WeaselSessionsProofs ------------------------
(***************************************************************************)
(* Proofs about WeaselSessions, for every set of clients and deployers and *)
(* every bound.                                                            *)
(***************************************************************************)
EXTENDS WeaselSessions, FiniteSetTheorems, WellFoundedInduction, TLAPS

-----------------------------------------------------------------------------
(* New ids and new sessions of librime are new. *)

\* A set of ids is bounded.
Bounded(S) == \E b \in Nat : \A i \in S : i <= b

\* A bounded set of natural numbers that is not empty has a greatest element.
LEMMA GreatestElement ==
  ASSUME NEW S \in SUBSET Nat, S # {}, Bounded(S)
  PROVE  \E m \in S : \A i \in S : m >= i
<1> DEFINE U == {b \in Nat : \A i \in S : i <= b}
           Less == OpToRel(<, Nat)
<1>1. U # {} /\ U \subseteq Nat
  BY DEF Bounded
<1>2. IsWellFoundedOn(Less, Nat)
  BY NatLessThanWellFounded
<1>3. PICK m \in U : \A y \in U : <<y, m>> \notin Less
  <2> HIDE DEF U, Less
  <2> QED BY <1>1, <1>2, WFMin
<1>4. \A y \in U : ~(y < m)
  <2> SUFFICES ASSUME NEW y \in U, y < m PROVE FALSE
    OBVIOUS
  <2>1. y \in Nat /\ m \in Nat
    OBVIOUS
  <2>2. <<y, m>> \in Less
    BY <2>1 DEF OpToRel
  <2> QED BY <2>2, <1>3
<1>5. m \in S
  <2> SUFFICES ASSUME m \notin S PROVE FALSE
    OBVIOUS
  <2>1. PICK i \in S : TRUE
    OBVIOUS
  <2>2. m \in Nat /\ i \in Nat /\ i <= m /\ i # m
    BY <2>1
  <2>3. m - 1 \in Nat
    BY <2>2
  <2>4. \A j \in S : j \in Nat /\ j <= m /\ j # m
    OBVIOUS
  <2>5. \A j \in S : j <= m - 1
    BY <2>2, <2>4
  <2>6. m - 1 \in U
    BY <2>3, <2>5
  <2> QED BY <2>6, <1>4, <2>2
<1> QED BY <1>5

\* The id for a new session is not in the map, nor is it 0.
LEMMA NewIdIsNew ==
  ASSUME NEW map, DOMAIN map \in SUBSET Nat, Bounded(DOMAIN map), Pid \in Nat
  PROVE  NewId(map) \in Nat \ {0} /\ NewId(map) \notin DOMAIN map
<1>1. CASE DOMAIN map = {}
  BY <1>1 DEF NewId
<1>2. CASE DOMAIN map # {}
  <2>1. PICK m \in DOMAIN map : \A i \in DOMAIN map : m >= i
    BY <1>2, GreatestElement
  <2>2. Max(DOMAIN map) \in DOMAIN map /\ \A i \in DOMAIN map : Max(DOMAIN map) >= i
    BY <2>1 DEF Max
  <2> QED BY <1>2, <2>2 DEF NewId
<1> QED BY <1>1, <1>2

\* librime has an address that is not in use.
LEMMA NewEngineIsNew ==
  ASSUME IsFiniteSet(live), live \in SUBSET Nat
  PROVE  NewEngine \in Nat \ {0} /\ NewEngine \notin live
<1>1. Cardinality(live) \in Nat
  BY FS_CardinalityType
<1> DEFINE n == Cardinality(live) + 1
<1>2. \E e \in 1..n : e \notin live
  <2> SUFFICES ASSUME 1..n \subseteq live PROVE FALSE
    OBVIOUS
  <2>1. Cardinality(1..n) <= Cardinality(live)
    BY FS_Subset
  <2>2. Cardinality(1..n) = n
    BY <1>1, FS_Interval
  <2> QED BY <1>1, <2>1, <2>2
<1>3. NewEngine \in 1..n /\ NewEngine \notin live
  BY <1>2 DEF NewEngine
<1> QED BY <1>1, <1>3

-----------------------------------------------------------------------------
(* The inductive invariant. *)

\* The map leads to different sessions of librime, all alive, or to none.
Engines ==
  /\ IsFiniteSet(live)
  /\ Bounded(DOMAIN sessions)
  /\ \A i \in DOMAIN sessions : sessions[i] \in live \cup {0}
  /\ \A i, j \in DOMAIN sessions :
       sessions[i] = sessions[j] => i = j \/ sessions[i] = 0
  /\ 0 \in DOMAIN sessions => sessions[0] = 0

\* A server that does not listen has no sessions, one in maintenance neither
\* a live nor an active one.
Quiet ==
  /\ up # "up" => sessions = NoSessions /\ live = {} /\ active = 0
  /\ disabled => live = {} /\ active = 0

\* Who is looking for a deployer.
Looks ==
  /\ up \in {"down", "loading"} => probe = None
  /\ up = "starting" => probe = Server
  /\ \A c \in Clients :
       probe = c => up = "up" /\ disabled /\ pc[c] = "opening" /\ pipe[c] = inc
  /\ \A d \in Deployers : probe = d => up = "up" /\ disabled

\* A deployer at work holds the mutex, and whoever looks for one has seen it.
Work ==
  /\ \A d \in Deployers : dpc[d] \in {"connecting", "working"} => d \in mutex
  /\ \A d \in Deployers : reached[d] => dpc[d] = "working"
  /\ \A d \in Deployers :
       dpc[d] = "working" /\ reached[d] =>
         disabled /\ live = {} /\ (probe = None \/ found)

IInv ==
  TypeOK /\ Engines /\ Quiet /\ Looks /\ Work /\ ActiveIsHeld

-----------------------------------------------------------------------------
(* What the operators on the map do. *)

LEMMA PidType == ASSUME TypeOK PROVE Pid \in Nat
BY ConstantsAssumption DEF TypeOK, Pid

\* An entry made by a look-up leads nowhere and changes no other.
LEMMA TouchedMap ==
  ASSUME TypeOK, Engines, NEW id \in Nat, sessions' \in {sessions, Touched(id)},
         live' = live
  PROVE  /\ Engines'
         /\ \A i : EngineOf(i)' = EngineOf(i)
         /\ DOMAIN sessions' \subseteq Nat
         /\ \A i \in DOMAIN sessions' : sessions'[i] \in Nat
<1>1. CASE sessions' = sessions
  BY <1>1 DEF Engines, EngineOf, TypeOK
<1>2. CASE sessions' = Touched(id)
  <2>1. DOMAIN sessions' = DOMAIN sessions \cup {id}
    BY <1>2 DEF Touched
  <2>2. \A i \in DOMAIN sessions' : sessions'[i] = EngineOf(i)
    BY <1>2 DEF Touched
  <2>3. \A i : EngineOf(i)' = EngineOf(i)
    BY <2>1, <2>2 DEF EngineOf
  <2>4. Bounded(DOMAIN sessions')
    <3>1. PICK b \in Nat : \A i \in DOMAIN sessions : i <= b
      BY DEF Engines, Bounded
    <3>2. \A i \in DOMAIN sessions' : i <= b + id
      BY <3>1, <2>1 DEF TypeOK
    <3>3. b + id \in Nat
      OBVIOUS
    <3> QED BY <3>2, <3>3 DEF Bounded
  <2>5. \A i \in DOMAIN sessions' : sessions'[i] \in live \cup {0}
    BY <2>2 DEF EngineOf, Engines
  <2>6. ASSUME NEW i \in DOMAIN sessions', NEW j \in DOMAIN sessions',
               sessions'[i] = sessions'[j]
        PROVE  i = j \/ sessions'[i] = 0
    BY <2>2, <2>6 DEF EngineOf, Engines
  <2>7. 0 \in DOMAIN sessions' => sessions'[0] = 0
    BY <2>2 DEF EngineOf, Engines
  <2>8. Engines'
    BY <2>4, <2>5, <2>6, <2>7 DEF Engines
  <2>9. \A i \in DOMAIN sessions' : sessions'[i] \in Nat
    BY <2>2 DEF EngineOf, TypeOK
  <2> QED BY <2>1, <2>3, <2>8, <2>9 DEF TypeOK
<1> QED BY <1>1, <1>2

\* RemoveSession takes a session out of the map and out of librime.
LEMMA ErasedMap ==
  ASSUME TypeOK, Engines, NEW id \in Nat,
         sessions' = Erased(id), live' = live \ {EngineOf(id)}
  PROVE  /\ Engines'
         /\ EngineOf(id)' = 0
         /\ \A i : i # id => EngineOf(i)' = EngineOf(i)
         /\ DOMAIN sessions' \subseteq Nat
         /\ \A i \in DOMAIN sessions' : sessions'[i] \in Nat
<1>1. DOMAIN sessions' = DOMAIN sessions \ {id}
  BY DEF Erased
<1>2. \A i \in DOMAIN sessions' : sessions'[i] = sessions[i]
  BY DEF Erased
<1>3. IsFiniteSet(live')
  <2>1. IsFiniteSet(live) /\ live' \in SUBSET live
    BY DEF Engines
  <2> QED BY <2>1, FS_Subset
<1>4. Bounded(DOMAIN sessions')
  BY <1>1 DEF Engines, Bounded
<1>5. \A i \in DOMAIN sessions' : sessions'[i] \in live' \cup {0}
  BY <1>1, <1>2 DEF Engines, EngineOf
<1>6. Engines'
  BY <1>1, <1>2, <1>3, <1>4, <1>5 DEF Engines
<1>7. \A i : i # id => EngineOf(i)' = EngineOf(i)
  BY <1>1, <1>2 DEF EngineOf
<1>8. EngineOf(id)' = 0
  BY <1>1 DEF EngineOf
<1> QED BY <1>1, <1>2, <1>6, <1>7, <1>8 DEF TypeOK

\* The map of a server that has dropped it.
LEMMA ClearedMap ==
  ASSUME sessions' = NoSessions, IsFiniteSet(live')
  PROVE  Engines' /\ (\A i : EngineOf(i)' = 0) /\ DOMAIN sessions' = {}
<1>1. DOMAIN sessions' = {}
  BY DEF NoSessions
<1>2. Bounded(DOMAIN sessions')
  BY <1>1 DEF Bounded
<1> QED BY <1>1, <1>2 DEF Engines, EngineOf

\* AddSession puts a new session under a new id and touches no other.
LEMMA OpenedMap ==
  ASSUME TypeOK, Engines, NEW c \in Clients, NEW map,
         map = sessions \/ map = NoSessions, OpenSession(c, map)
  PROVE  /\ Engines'
         /\ DOMAIN sessions' \subseteq Nat
         /\ \A i \in DOMAIN sessions' : sessions'[i] \in Nat
         /\ live' \subseteq Nat \ {0}
         /\ sid' = [sid EXCEPT ![c] = NewId(map)]
         /\ NewId(map) \in Nat \ {0} /\ NewId(map) \notin DOMAIN map
         /\ NewEngine \in Nat \ {0}
         /\ active' = NewId(map)
         /\ \A i : EngineOf(i)' = IF i = NewId(map) THEN NewEngine
                                 ELSE IF i \in DOMAIN map THEN map[i] ELSE 0
<1> DEFINE id == NewId(map)
           engine == NewEngine
<1>1. /\ DOMAIN map \in SUBSET Nat
      /\ Bounded(DOMAIN map)
      /\ \A i \in DOMAIN map : map[i] \in live \cup {0} /\ map[i] \in Nat
      /\ \A i, j \in DOMAIN map : map[i] = map[j] => i = j \/ map[i] = 0
      /\ 0 \in DOMAIN map => map[0] = 0
  <2>1. CASE map = sessions
    BY <2>1 DEF Engines, TypeOK
  <2>2. CASE map = NoSessions
    BY <2>2 DEF NoSessions, Bounded
  <2> QED BY <2>1, <2>2
<1>2. id \in Nat \ {0} /\ id \notin DOMAIN map
  BY <1>1, PidType, NewIdIsNew
<1>3. engine \in Nat \ {0} /\ engine \notin live
  BY NewEngineIsNew DEF Engines, TypeOK
<1> HIDE DEF id, engine
<1>4. /\ live' = live \cup {engine}
      /\ DOMAIN sessions' = DOMAIN map \cup {id}
      /\ \A i \in DOMAIN sessions' : sessions'[i] = IF i = id THEN engine ELSE map[i]
      /\ active' = id
      /\ sid' = [sid EXCEPT ![c] = id]
  BY DEF OpenSession, id, engine
<1>5. IsFiniteSet(live')
  <2>1. IsFiniteSet(live)
    BY DEF Engines
  <2> QED BY <1>4, <2>1, FS_AddElement
<1>6. Bounded(DOMAIN sessions')
  <2>1. PICK b \in Nat : \A i \in DOMAIN map : i <= b
    BY <1>1 DEF Bounded
  <2>2. \A i \in DOMAIN sessions' : i <= b + id
    BY <2>1, <1>1, <1>2, <1>4
  <2>3. b + id \in Nat
    BY <1>2
  <2> QED BY <2>2, <2>3 DEF Bounded
<1>7. \A i \in DOMAIN sessions' : sessions'[i] \in live' \cup {0}
  BY <1>1, <1>4
<1>8. ASSUME NEW i \in DOMAIN sessions', NEW j \in DOMAIN sessions',
             sessions'[i] = sessions'[j]
      PROVE  i = j \/ sessions'[i] = 0
  BY <1>1, <1>3, <1>4, <1>8
<1>9. 0 \in DOMAIN sessions' => sessions'[0] = 0
  BY <1>1, <1>2, <1>4
<1>10. Engines'
  BY <1>5, <1>6, <1>7, <1>8, <1>9 DEF Engines
<1>11. \A i : EngineOf(i)' = IF i = id THEN engine
                             ELSE IF i \in DOMAIN map THEN map[i] ELSE 0
  BY <1>4 DEF EngineOf
<1>12. /\ DOMAIN sessions' \subseteq Nat
       /\ \A i \in DOMAIN sessions' : sessions'[i] \in Nat
       /\ live' \subseteq Nat \ {0}
  BY <1>1, <1>2, <1>3, <1>4 DEF TypeOK
<1> QED BY <1>2, <1>3, <1>4, <1>10, <1>11, <1>12 DEF id, engine

-----------------------------------------------------------------------------
(* Requests that open and close nothing.                                   *)

\* What they have in common: the map may get an entry that leads nowhere, and
\* the active session may change to none or to the client's own.
Asks(c) ==
  /\ \E id \in Nat : sessions' \in {sessions, Touched(id)}
  /\ sessions' # sessions => up = "up"
  /\ \/ active' = active
     \/ active' = 0
     \/ active' = sid[c] /\ up = "up" /\ ~disabled /\ pipe'[c] = inc
  /\ \/ pipe' = pipe
     \/ pipe' = [pipe EXCEPT ![c] = IF up = "up" THEN inc ELSE 0]
  /\ pc' \in [Clients -> Steps]
  /\ \A o \in Clients : pc[o] = "opening" => pc'[o] = "opening"
  /\ launched' \in BOOLEAN
  /\ retry' \in [Clients -> 0..(RetryLimit - 1)]
  /\ UNCHANGED <<up, inc, disabled, live, probe, found, mutex, sid, dpc,
                 reached, historyVars>>

LEMMA AskType ==
  ASSUME IInv, NEW c \in Clients, Asks(c)
  PROVE  TypeOK' /\ Engines' /\ (\A i : EngineOf(i)' = EngineOf(i))
<1>1. PICK id \in Nat : sessions' \in {sessions, Touched(id)}
  BY DEF Asks
<1>2. /\ Engines'
      /\ \A i : EngineOf(i)' = EngineOf(i)
      /\ DOMAIN sessions' \subseteq Nat
      /\ \A i \in DOMAIN sessions' : sessions'[i] \in Nat
  <2>1. live' = live
    BY DEF Asks
  <2> QED BY <1>1, <2>1, TouchedMap DEF IInv
<1>3. active' \in Nat
  BY DEF Asks, IInv, TypeOK
<1>4. pipe' \in [Clients -> 0..inc']
  <2>1. inc \in Nat /\ pipe \in [Clients -> 0..inc] /\ inc' = inc
    BY ConstantsAssumption DEF Asks, IInv, TypeOK
  <2>2. (IF up = "up" THEN inc ELSE 0) \in 0..inc
    BY <2>1
  <2> QED BY <2>1, <2>2 DEF Asks
<1> QED BY <1>2, <1>3, <1>4 DEF Asks, IInv, TypeOK, historyVars

LEMMA AskStep ==
  ASSUME IInv, NEW c \in Clients, Asks(c)
  PROVE  IInv'
<1>1. TypeOK' /\ Engines' /\ (\A i : EngineOf(i)' = EngineOf(i))
  BY AskType
<1>2. Quiet'
  BY DEF Asks, IInv, Quiet
<1>3. Looks'
  <2>1. ASSUME NEW o \in Clients, probe' = o
        PROVE  up' = "up" /\ disabled' /\ pc'[o] = "opening" /\ pipe'[o] = inc'
    <3>1. up = "up" /\ disabled /\ pc[o] = "opening" /\ pipe[o] = inc
      BY <2>1 DEF Asks, IInv, Looks
    <3>2. pipe'[o] = inc
      BY <3>1 DEF Asks, IInv, TypeOK
    <3> QED BY <3>1, <3>2 DEF Asks
  <2> QED BY <2>1 DEF Asks, IInv, Looks
<1>4. Work'
  BY DEF Asks, IInv, Work
<1>5. ActiveIsHeld'
  <2> SUFFICES ASSUME active' # 0, active' \notin orphans
               PROVE  \E o \in Clients : sid'[o] = active' /\ pipe'[o] = inc'
    BY DEF ActiveIsHeld, Asks, historyVars
  <2>1. CASE active' = active
    <3>1. PICK o \in Clients : sid[o] = active /\ pipe[o] = inc
      BY <2>1 DEF IInv, ActiveIsHeld
    <3>2. up = "up"
      BY <2>1 DEF IInv, Quiet
    <3>3. pipe'[o] = inc
      BY <3>1, <3>2 DEF Asks, IInv, TypeOK
    <3> QED BY <2>1, <3>1, <3>3 DEF Asks
  <2>2. CASE active' = sid[c] /\ up = "up" /\ ~disabled /\ pipe'[c] = inc
    BY <2>2 DEF Asks
  <2> QED BY <2>1, <2>2 DEF Asks
<1> QED BY <1>1, <1>2, <1>3, <1>4, <1>5 DEF IInv

\* A request that finds no server, or one that looks a session up.
LEMMA EchoAsks ==
  ASSUME IInv, NEW c \in Clients, NEW yes \in Steps, NEW no \in Steps,
         pc[c] # "opening", Echo(c, yes, no),
         UNCHANGED <<sid, retry, deployerVars, historyVars>>
  PROVE  Asks(c)
<1>1. pc' \in [Clients -> Steps] /\ \A o \in Clients : pc[o] = "opening" => pc'[o] = "opening"
  BY DEF Echo, Goto, IInv, TypeOK
<1>2. sid[c] \in Nat
  BY DEF IInv, TypeOK
<1>3. \/ sessions' = sessions
      \/ sessions' = Touched(sid[c]) /\ up = "up"
  BY DEF Echo, FindSession, CanDeliver, Lost, serverVars
<1>4. /\ UNCHANGED <<up, inc, launched, disabled, live, active, probe, found>>
      /\ pipe' = pipe \/ pipe' = [pipe EXCEPT ![c] = IF up = "up" THEN inc ELSE 0]
  BY DEF Echo, FindSession, Lost, Reconnect, serverVars, probeVars
<1> QED BY <1>1, <1>2, <1>3, <1>4 DEF Asks, IInv, TypeOK, deployerVars

LEMMA RequestAsks ==
  ASSUME IInv, NEW c \in Clients, Request(c),
         pc' = pc \/ \E step \in Steps : pc[c] # "opening" /\ Goto(c, step),
         UNCHANGED <<sid, retry, deployerVars, historyVars>>
  PROVE  Asks(c)
<1>1. pc' \in [Clients -> Steps] /\ \A o \in Clients : pc[o] = "opening" => pc'[o] = "opening"
  BY DEF Goto, IInv, TypeOK
<1>2. sid[c] \in Nat
  BY DEF IInv, TypeOK
<1>3. \/ sessions' = sessions
      \/ sessions' = Touched(sid[c]) /\ up = "up"
  BY DEF Request, UseSession, CanDeliver, Lost, serverVars
<1>4. \/ active' = active
      \/ active' = sid[c] /\ up = "up" /\ ~disabled /\ pipe'[c] = inc
  BY DEF Request, UseSession, CanDeliver, Lost, Reconnect, serverVars, IInv, TypeOK
<1>5. /\ UNCHANGED <<up, inc, launched, disabled, live, probe, found>>
      /\ pipe' = pipe \/ pipe' = [pipe EXCEPT ![c] = IF up = "up" THEN inc ELSE 0]
  BY DEF Request, UseSession, Lost, Reconnect, serverVars, probeVars
<1> QED BY <1>1, <1>2, <1>3, <1>4, <1>5 DEF Asks, IInv, TypeOK, deployerVars

\* Every step of a client but those that open or end a session.
LEMMA ClientAsks ==
  ASSUME IInv, NEW c \in Clients,
         \/ PressKey(c) \/ ThreadFocus(c) \/ CheckRetry(c) \/ LaunchServer(c)
         \/ SkipLaunch(c) \/ CheckSession(c) \/ SendKey(c) \/ Notify(c)
         \/ (\E checked \in BOOLEAN : Browse(c, checked))
         \/ GainFocus(c) \/ LoseFocus(c) \/ AbortComposition(c)
  PROVE  Asks(c)
<1> USE DEF Steps
<1>0. sid[c] \in Nat /\ pipe \in [Clients -> 0..inc] /\ pc \in [Clients -> Steps]
  BY DEF IInv, TypeOK
<1>1. CASE PressKey(c)
  BY <1>1, EchoAsks DEF PressKey
<1>2. CASE ThreadFocus(c)
  BY <1>2, EchoAsks DEF ThreadFocus
<1>3. CASE SkipLaunch(c)
  BY <1>3, EchoAsks DEF SkipLaunch
<1>4. CASE CheckSession(c)
  BY <1>4, EchoAsks DEF CheckSession
<1>5. CASE SendKey(c)
  <2>1. CASE Request(c)
    BY <1>5, <2>1, RequestAsks DEF SendKey
  <2>2. CASE UNCHANGED <<serverVars, probeVars, pipe>>
    BY <1>5, <2>2, <1>0 DEF SendKey, Goto, Asks, serverVars, probeVars, deployerVars, IInv, TypeOK
  <2> QED BY <1>5, <2>1, <2>2 DEF SendKey
<1>6. CASE Notify(c)
  BY <1>6, RequestAsks DEF Notify
<1>7. CASE AbortComposition(c)
  BY <1>7, RequestAsks DEF AbortComposition
<1>8. CASE CheckRetry(c)
  <2>1. retry \in [Clients -> 0..(RetryLimit - 1)] /\ RetryLimit \in Nat \ {0}
    BY ConstantsAssumption DEF IInv, TypeOK
  <2>2. retry' \in [Clients -> 0..(RetryLimit - 1)]
    BY <1>8, <2>1 DEF CheckRetry
  <2>3. pc' \in [Clients -> Steps] /\ \A o \in Clients : pc[o] = "opening" => pc'[o] = "opening"
    BY <1>8, <1>0 DEF CheckRetry, Goto
  <2> QED BY <1>8, <2>2, <2>3, <1>0
          DEF CheckRetry, Asks, serverVars, probeVars, deployerVars, IInv, TypeOK
<1>9. CASE LaunchServer(c)
  <2>1. pc' \in [Clients -> Steps] /\ \A o \in Clients : pc[o] = "opening" => pc'[o] = "opening"
    BY <1>9, <1>0 DEF LaunchServer, Goto
  <2>2. \/ sessions' = sessions
        \/ sessions' = Touched(sid[c]) /\ up = "up"
    BY <1>9 DEF LaunchServer, CanDeliver
  <2>3. launched' \in BOOLEAN
    BY <1>9 DEF LaunchServer, IInv, TypeOK
  <2> QED BY <1>9, <2>1, <2>2, <2>3, <1>0
          DEF LaunchServer, Reconnect, Asks, probeVars, deployerVars, IInv, TypeOK
<1>10. ASSUME NEW checked \in BOOLEAN, Browse(c, checked) PROVE Asks(c)
  <2>1. \/ sessions' = sessions
        \/ sessions' = Touched(sid[c]) /\ up = "up"
    BY <1>10 DEF Browse, TouchSession, Lost, CanDeliver, serverVars
  <2>2. UNCHANGED <<up, inc, launched, disabled, live, active, probe, found>>
    BY <1>10 DEF Browse, TouchSession, Lost, serverVars, probeVars
  <2> QED BY <1>10, <2>1, <2>2, <1>0
          DEF Browse, Reconnect, Asks, deployerVars, IInv, TypeOK
<1>11. CASE GainFocus(c)
  <2>1. \/ sessions' = sessions
        \/ sessions' = Touched(sid[c]) /\ up = "up"
    BY <1>11 DEF GainFocus, UseSession, Lost, CanDeliver, serverVars
  <2>2. UNCHANGED <<up, inc, launched, disabled, live, probe, found>>
    BY <1>11 DEF GainFocus, UseSession, Lost, serverVars, probeVars
  <2>3. \/ active' = active
        \/ active' = sid[c] /\ up = "up" /\ ~disabled /\ pipe'[c] = inc
    BY <1>11, <1>0 DEF GainFocus, UseSession, Lost, CanDeliver, Reconnect, serverVars
  <2> QED BY <1>11, <2>1, <2>2, <2>3, <1>0
          DEF GainFocus, Reconnect, Asks, deployerVars, IInv, TypeOK
<1>12. CASE LoseFocus(c)
  <2>1. UNCHANGED <<up, inc, launched, disabled, sessions, live, probe, found>>
    BY <1>12 DEF LoseFocus, ForgetActive, Lost, serverVars, probeVars
  <2>2. active' = active \/ active' = 0
    BY <1>12 DEF LoseFocus, ForgetActive, Lost, serverVars
  <2>3. pc' \in [Clients -> Steps] /\ \A o \in Clients : pc[o] = "opening" => pc'[o] = "opening"
    BY <1>12, <1>0 DEF LoseFocus, Goto
  <2> QED BY <1>12, <2>1, <2>2, <2>3, <1>0
          DEF LoseFocus, Reconnect, Asks, deployerVars, IInv, TypeOK
<1> QED BY <1>1, <1>2, <1>3, <1>4, <1>5, <1>6, <1>7, <1>8, <1>9, <1>10, <1>11, <1>12

\* A look-up from the server's own thread.
LEMMA TouchActiveStep ==
  ASSUME IInv, TouchActive
  PROVE  IInv'
<1>1. active \in Nat /\ live' = live
  BY DEF TouchActive, IInv, TypeOK
<1>2. /\ Engines'
      /\ \A i : EngineOf(i)' = EngineOf(i)
      /\ DOMAIN sessions' \subseteq Nat
      /\ \A i \in DOMAIN sessions' : sessions'[i] \in Nat
  BY <1>1, TouchedMap DEF TouchActive, IInv
<1> USE DEF TouchActive, probeVars, clientVars, deployerVars, historyVars
<1>3. TypeOK'
  BY <1>2 DEF IInv, TypeOK
<1>4. Quiet' /\ Looks' /\ Work'
  BY DEF IInv, Quiet, Looks, Work
<1>5. ActiveIsHeld'
  BY <1>2 DEF IInv, ActiveIsHeld
<1> QED BY <1>2, <1>3, <1>4, <1>5 DEF IInv

-----------------------------------------------------------------------------
(* A client ends or opens a session. *)

LEMMA EndSessionFacts ==
  ASSUME IInv, NEW c \in Clients, EndSession(c)
  PROVE  /\ UNCHANGED <<up, inc, launched, disabled, probe, found>>
         /\ Engines'
         /\ DOMAIN sessions' \subseteq Nat
         /\ \A i \in DOMAIN sessions' : sessions'[i] \in Nat
         /\ live' \subseteq live
         /\ \A i : EngineOf(i)' \in {0, EngineOf(i)}
         /\ active' \in {0, active}
         /\ active' # 0 => active' = active /\ pipe[c] # inc
         /\ up # "up" => sessions' = sessions
         /\ sid' = [sid EXCEPT ![c] = 0]
<1>0. sid[c] \in Nat /\ sid' = [sid EXCEPT ![c] = 0]
  BY DEF EndSession, IInv, TypeOK
<1>1. CASE Lost(c)
  <2>1. active # 0 => up = "up"
    BY DEF IInv, Quiet
  <2>2. active # 0 => pipe[c] # inc
    BY <1>1, <2>1 DEF Lost, CanLose
  <2> QED BY <1>0, <1>1, <2>2
          DEF Lost, serverVars, probeVars, IInv, Engines, TypeOK, EngineOf
<1>2. CASE CanDeliver(c) /\ RemoveSession(sid[c])
  <2>1. CASE disabled
    BY <1>0, <1>2, <2>1
    DEF RemoveSession, probeVars, IInv, Quiet, Engines, TypeOK, EngineOf
  <2>2. CASE ~disabled
    <3>1. sessions' = Erased(sid[c]) /\ live' = live \ {EngineOf(sid[c])}
      BY <1>2, <2>2 DEF RemoveSession
    <3>2. /\ Engines'
          /\ DOMAIN sessions' \subseteq Nat
          /\ \A i \in DOMAIN sessions' : sessions'[i] \in Nat
      BY <1>0, <3>1, ErasedMap DEF IInv
    <3>3. \A i : EngineOf(i)' \in {0, EngineOf(i)}
      BY <3>1 DEF Erased, EngineOf
    <3> QED BY <1>0, <1>2, <2>2, <3>1, <3>2, <3>3
            DEF RemoveSession, CanDeliver, probeVars
  <2> QED BY <2>1, <2>2
<1> QED BY <1>1, <1>2 DEF EndSession

\* A session that is ended takes nothing from the other clients.
LEMMA EndSessionStep ==
  ASSUME IInv, NEW c \in Clients, EndSession(c), pc[c] # "opening",
         pc' \in [Clients -> Steps],
         \A o \in Clients : pc[o] = "opening" => pc'[o] = "opening",
         \/ pipe' = [pipe EXCEPT ![c] = 0]
         \/ pipe' = [pipe EXCEPT ![c] = IF up = "up" THEN inc ELSE 0],
         leaves' \in 0..MaxLeaves,
         UNCHANGED <<retry, deployerVars, orphans>>
  PROVE  IInv'
<1> USE EndSessionFacts
<1>1. TypeOK'
  <2>1. pipe' \in [Clients -> 0..inc']
    <3>1. inc \in Nat /\ inc' = inc /\ pipe \in [Clients -> 0..inc]
      BY ConstantsAssumption DEF IInv, TypeOK
    <3>2. (IF up = "up" THEN inc ELSE 0) \in 0..inc /\ 0 \in 0..inc
      BY <3>1
    <3> QED BY <3>1, <3>2
  <2>2. sid' \in [Clients -> Nat] /\ active' \in Nat
    BY DEF IInv, TypeOK
  <2> QED BY <2>1, <2>2 DEF IInv, TypeOK, deployerVars
<1>2. Engines'
  OBVIOUS
<1>3. Quiet'
  BY DEF IInv, Quiet
<1>4. Looks'
  <2>1. ASSUME NEW o \in Clients, probe' = o
        PROVE  up' = "up" /\ disabled' /\ pc'[o] = "opening" /\ pipe'[o] = inc'
    <3>1. up = "up" /\ disabled /\ pc[o] = "opening" /\ pipe[o] = inc
      BY <2>1 DEF IInv, Looks
    <3>2. o # c
      BY <3>1
    <3> QED BY <3>1, <3>2 DEF IInv, TypeOK
  <2> QED BY <2>1 DEF IInv, Looks
<1>5. Work'
  BY DEF IInv, Work, deployerVars
<1>6. ActiveIsHeld'
  <2> SUFFICES ASSUME active' # 0, active' \notin orphans
               PROVE  \E o \in Clients : sid'[o] = active' /\ pipe'[o] = inc'
    BY DEF ActiveIsHeld
  <2>1. active' = active /\ pipe[c] # inc
    OBVIOUS
  <2>2. PICK o \in Clients : sid[o] = active /\ pipe[o] = inc
    BY <2>1 DEF IInv, ActiveIsHeld
  <2>3. o # c
    BY <2>1, <2>2
  <2> QED BY <2>1, <2>2, <2>3 DEF IInv, TypeOK
<1> QED BY <1>1, <1>2, <1>3, <1>4, <1>5, <1>6 DEF IInv

\* The next steps of a client that only change its own thread and pipe.
LEMMA EndStaleStep ==
  ASSUME IInv, NEW c \in Clients, EndStale(c)
  PROVE  IInv'
<1>1. /\ pc[c] = "end"
      /\ pc' \in [Clients -> Steps]
      /\ \A o \in Clients : pc[o] = "opening" => pc'[o] = "opening"
      /\ pipe' = [pipe EXCEPT ![c] = 0]
      /\ leaves' \in 0..MaxLeaves
  BY DEF EndStale, Goto, IInv, TypeOK, Steps, historyVars
<1>2. CASE EndSession(c)
  BY <1>1, <1>2, EndSessionStep DEF EndStale, historyVars
<1>3. CASE sid[c] = 0 /\ UNCHANGED <<serverVars, probeVars, sid>>
  <2> USE <1>3 DEF EndStale, serverVars, probeVars, deployerVars, historyVars
  <2>1. TypeOK'
    <3>1. inc \in Nat /\ inc' = inc /\ pipe \in [Clients -> 0..inc]
      BY ConstantsAssumption DEF IInv, TypeOK
    <3>2. pipe' \in [Clients -> 0..inc']
      BY <3>1, <1>1
    <3> QED BY <3>2, <1>1 DEF IInv, TypeOK
  <2>2. Engines' /\ Quiet' /\ Work'
    BY DEF IInv, Engines, Quiet, Work
  <2>3. Looks'
    <3>1. ASSUME NEW o \in Clients, probe' = o
          PROVE  up' = "up" /\ disabled' /\ pc'[o] = "opening" /\ pipe'[o] = inc'
      <4>1. up = "up" /\ disabled /\ pc[o] = "opening" /\ pipe[o] = inc
        BY <3>1 DEF IInv, Looks
      <4>2. o # c
        BY <4>1, <1>1
      <4> QED BY <4>1, <4>2, <1>1 DEF IInv, TypeOK
    <3> QED BY <3>1 DEF IInv, Looks
  <2>4. ActiveIsHeld'
    <3> SUFFICES ASSUME active # 0, active \notin orphans
                 PROVE  \E o \in Clients : sid'[o] = active /\ pipe'[o] = inc
      BY DEF ActiveIsHeld
    <3>1. PICK o \in Clients : sid[o] = active /\ pipe[o] = inc
      BY DEF IInv, ActiveIsHeld
    <3>2. o # c
      BY <3>1
    <3> QED BY <3>1, <3>2, <1>1 DEF IInv, TypeOK
  <2> QED BY <2>1, <2>2, <2>3, <2>4 DEF IInv
<1> QED BY <1>2, <1>3 DEF EndStale

LEMMA DeactivateStep ==
  ASSUME IInv, NEW c \in Clients, Deactivate(c)
  PROVE  IInv'
<1>1. leaves' \in 0..MaxLeaves
  BY ConstantsAssumption DEF Deactivate, IInv, TypeOK
<1>2. /\ pc[c] # "opening" /\ pc' \in [Clients -> Steps] /\ pc' = pc
      /\ pipe' = [pipe EXCEPT ![c] = IF up = "up" THEN inc ELSE 0]
  BY DEF Deactivate, Reconnect, IInv, TypeOK
<1> QED BY <1>1, <1>2, EndSessionStep DEF Deactivate

\* A client that is killed leaves its session behind.
LEMMA KilledStep ==
  ASSUME IInv, NEW c \in Clients, Killed(c)
  PROVE  IInv'
<1> USE DEF Killed, serverVars, probeVars, deployerVars
<1>0. inc \in Nat /\ pipe \in [Clients -> 0..inc]
  BY ConstantsAssumption DEF IInv, TypeOK
<1>1. TypeOK'
  <2>1. pc' \in [Clients -> Steps] /\ pipe' \in [Clients -> 0..inc']
    BY <1>0 DEF Goto, Steps, IInv, TypeOK
  <2>2. sid' \in [Clients -> Nat] /\ leaves' \in 0..MaxLeaves
    BY ConstantsAssumption DEF IInv, TypeOK
  <2>3. retry' \in [Clients -> 0..(RetryLimit - 1)]
    BY ConstantsAssumption DEF IInv, TypeOK
  <2>4. orphans' \subseteq Nat
    BY DEF IInv, TypeOK
  <2> QED BY <2>1, <2>2, <2>3, <2>4 DEF IInv, TypeOK
<1>2. Engines' /\ Quiet' /\ Work'
  BY DEF IInv, Engines, Quiet, Work
<1>3. Looks'
  <2>1. ASSUME NEW o \in Clients, probe' = o
        PROVE  up' = "up" /\ disabled' /\ pc'[o] = "opening" /\ pipe'[o] = inc'
    <3>1. up = "up" /\ disabled /\ pc[o] = "opening" /\ pipe[o] = inc /\ o # c
      BY <2>1 DEF IInv, Looks
    <3> QED BY <3>1 DEF Goto, IInv, TypeOK
  <2> QED BY <2>1 DEF IInv, Looks
<1>4. ActiveIsHeld'
  <2> SUFFICES ASSUME active # 0, active \notin orphans'
               PROVE  \E o \in Clients : sid'[o] = active /\ pipe'[o] = inc
    BY DEF ActiveIsHeld
  <2>1. PICK o \in Clients : sid[o] = active /\ pipe[o] = inc
    BY DEF IInv, ActiveIsHeld
  <2>2. o # c
    BY <2>1
  <2> QED BY <2>1, <2>2 DEF IInv, TypeOK
<1> QED BY <1>1, <1>2, <1>3, <1>4 DEF IInv

\* A session that is opened on a server nobody works behind.
LEMMA OpenStep ==
  ASSUME IInv, NEW c \in Clients, NEW map,
         map = sessions \/ map = NoSessions, OpenSession(c, map),
         up = "up", ~disabled', probe' = None, found' \in BOOLEAN,
         \A d \in Deployers : ~(dpc[d] = "working" /\ reached[d]),
         pipe' \in [Clients -> 0..inc], pipe'[c] = inc,
         pc' \in [Clients -> Steps], disabled' \in BOOLEAN,
         UNCHANGED <<up, inc, launched, retry, deployerVars, leaves, orphans>>
  PROVE  IInv'
<1>1. /\ Engines'
      /\ DOMAIN sessions' \subseteq Nat
      /\ \A i \in DOMAIN sessions' : sessions'[i] \in Nat
      /\ live' \subseteq Nat \ {0}
      /\ sid' = [sid EXCEPT ![c] = NewId(map)]
      /\ NewId(map) \in Nat \ {0} /\ NewId(map) \notin DOMAIN map
      /\ NewEngine \in Nat \ {0}
      /\ active' = NewId(map)
      /\ \A i : EngineOf(i)' = IF i = NewId(map) THEN NewEngine
                              ELSE IF i \in DOMAIN map THEN map[i] ELSE 0
  BY OpenedMap DEF IInv
<1>2. live' = live \cup {NewEngine} /\ NewEngine \notin live
  BY NewEngineIsNew DEF OpenSession, IInv, Engines, TypeOK
<1> DEFINE id == NewId(map)
           engine == NewEngine
<1> HIDE DEF id, engine
<1>3. TypeOK'
  <2>1. sid' \in [Clients -> Nat] /\ active' \in Nat
    BY <1>1 DEF IInv, TypeOK
  <2> QED BY <1>1, <2>1 DEF IInv, TypeOK, deployerVars
<1>4. Quiet' /\ Looks'
  BY ConstantsAssumption DEF Quiet, Looks
<1>5. Work'
  BY DEF IInv, Work, deployerVars
<1>6. ActiveIsHeld'
  BY <1>1 DEF ActiveIsHeld, IInv, TypeOK
<1> QED BY <1>1, <1>3, <1>4, <1>5, <1>6 DEF IInv

\* StartSession on a server in maintenance: the look for a deployer begins.
LEMMA ProbeStep ==
  ASSUME IInv, NEW c \in Clients, CanDeliver(c), disabled, Probe(c),
         Reconnect(c), Goto(c, "opening"),
         UNCHANGED <<serverVars, sid, retry, deployerVars, historyVars>>
  PROVE  IInv'
<1> USE DEF serverVars, deployerVars, historyVars
<1>1. /\ probe' = c /\ up = "up" /\ probe = None
      /\ pipe' = [pipe EXCEPT ![c] = inc]
      /\ pc' = [pc EXCEPT ![c] = "opening"]
      /\ found' = MutexExists
  BY DEF CanDeliver, Probe, Reconnect, Goto
<1>2. TypeOK'
  <2>1. inc \in Nat /\ pipe' \in [Clients -> 0..inc']
    BY <1>1, ConstantsAssumption DEF IInv, TypeOK
  <2>2. found' \in BOOLEAN /\ pc' \in [Clients -> Steps]
    BY <1>1 DEF MutexExists, IInv, TypeOK, Steps
  <2> QED BY <1>1, <2>1, <2>2 DEF IInv, TypeOK
<1>3. Engines' /\ Quiet'
  BY DEF IInv, Engines, Quiet
<1>4. Looks'
  BY <1>1, ConstantsAssumption DEF IInv, Looks, TypeOK
<1>5. Work'
  BY <1>1 DEF IInv, Work, MutexExists
<1>6. ActiveIsHeld'
  BY <1>1 DEF IInv, ActiveIsHeld, Quiet
<1> QED BY <1>2, <1>3, <1>4, <1>5, <1>6 DEF IInv

\* StartSession that finds no server is a request like any other.
LEMMA StartSessionStep ==
  ASSUME IInv, NEW c \in Clients, StartSession(c)
  PROVE  IInv'
<1>0. inc \in Nat /\ pipe \in [Clients -> 0..inc] /\ pc \in [Clients -> Steps]
  BY ConstantsAssumption DEF IInv, TypeOK
<1>1. CASE CanDeliver(c) /\ disabled /\ Probe(c) /\ Goto(c, "opening")
             /\ UNCHANGED <<serverVars, sid>>
  BY <1>1, ProbeStep DEF StartSession, historyVars
<1>2. CASE /\ CanDeliver(c) /\ ~disabled /\ OpenSession(c, sessions)
           /\ Goto(c, "check")
           /\ UNCHANGED <<up, inc, launched, disabled, probeVars>>
  <2>1. /\ up = "up" /\ probe' = None /\ found' \in BOOLEAN
        /\ pipe' \in [Clients -> 0..inc] /\ pipe'[c] = inc
        /\ pc' \in [Clients -> Steps]
    BY <1>0, <1>2 DEF StartSession, CanDeliver, Reconnect, Goto, probeVars, Steps, IInv, TypeOK
  <2>2. \A d \in Deployers : ~(dpc[d] = "working" /\ reached[d])
    BY <1>2 DEF IInv, Work
  <2>3. disabled' \in BOOLEAN /\ ~disabled'
    BY <1>2 DEF IInv, TypeOK
  <2>4. UNCHANGED <<up, inc, launched, retry, deployerVars, leaves, orphans>>
    BY <1>2 DEF StartSession, historyVars
  <2> QED BY <1>2, <2>1, <2>2, <2>3, <2>4, OpenStep
<1>3. CASE Lost(c) /\ Goto(c, "check") /\ UNCHANGED sid
  <2>1. pc' \in [Clients -> Steps] /\ \A o \in Clients : pc[o] = "opening" => pc'[o] = "opening"
    BY <1>0, <1>3 DEF StartSession, Goto, Steps
  <2>2. Asks(c)
    BY <1>0, <1>3, <2>1
    DEF StartSession, Lost, Reconnect, Asks, serverVars, probeVars, deployerVars,
        historyVars, IInv, TypeOK
  <2> QED BY <2>2, AskStep
<1> QED BY <1>1, <1>2, <1>3 DEF StartSession

\* AddSession after the look: a deployer that was seen keeps the server in
\* maintenance, otherwise nobody works behind it.
LEMMA ResumeSessionStep ==
  ASSUME IInv, NEW c \in Clients, ResumeSession(c)
  PROVE  IInv'
<1>1. /\ probe = c /\ pc[c] = "opening" /\ pc' = [pc EXCEPT ![c] = "check"]
      /\ probe' = None /\ found' = FALSE /\ disabled' = found
      /\ up' = up /\ inc' = inc /\ pipe' = pipe
  BY DEF ResumeSession, EndProbe, Goto
<1>2. up = "up" /\ disabled /\ pipe[c] = inc /\ live = {} /\ active = 0
  BY <1>1 DEF IInv, Looks, Quiet
<1>3. pc' \in [Clients -> Steps] /\ inc \in Nat
  BY <1>1, ConstantsAssumption DEF IInv, TypeOK, Steps
<1>4. CASE found
  <2> USE <1>1, <1>2, <1>3, <1>4 DEF ResumeSession, deployerVars, historyVars
  <2>1. Engines' /\ (\A i : EngineOf(i)' = 0) /\ DOMAIN sessions' = {}
    <3>1. sessions' = NoSessions /\ IsFiniteSet(live')
      BY DEF IInv, Engines
    <3> QED BY <3>1, ClearedMap
  <2>2. TypeOK'
    BY <2>1 DEF IInv, TypeOK
  <2>3. Quiet' /\ Looks'
    BY ConstantsAssumption DEF Quiet, Looks
  <2>4. Work'
    BY DEF IInv, Work
  <2>5. ActiveIsHeld'
    BY DEF ActiveIsHeld
  <2> QED BY <2>1, <2>2, <2>3, <2>4, <2>5 DEF IInv
<1>5. CASE ~found
  <2>1. probe # None
    BY <1>1, ConstantsAssumption
  <2>2. \A d \in Deployers : ~(dpc[d] = "working" /\ reached[d])
    BY <1>5, <2>1 DEF IInv, Work
  <2>3. OpenSession(c, NoSessions)
    BY <1>5 DEF ResumeSession
  <2>4. pipe' \in [Clients -> 0..inc] /\ pipe'[c] = inc /\ disabled' \in BOOLEAN
    BY <1>1, <1>2, <1>5 DEF IInv, TypeOK
  <2>5. UNCHANGED <<up, inc, launched, retry, deployerVars, leaves, orphans>>
    BY DEF ResumeSession, historyVars
  <2> QED BY <1>1, <1>2, <1>3, <1>5, <2>2, <2>3, <2>4, <2>5, OpenStep
<1> QED BY <1>4, <1>5 DEF IInv, TypeOK

-----------------------------------------------------------------------------
(* The server's process. *)

LEMMA ProcessStep ==
  ASSUME IInv, Process
  PROVE  IInv'
<1> USE DEF clientVars, deployerVars, historyVars
<1>0. inc \in Nat /\ MaxStarts \in Nat /\ pipe \in [Clients -> 0..inc]
  BY ConstantsAssumption DEF IInv, TypeOK
<1>1. CASE StartServer
  <2> USE <1>1 DEF StartServer, Probe
  <2>1. sessions = NoSessions /\ live = {} /\ active = 0 /\ probe = None
    BY DEF IInv, Quiet, Looks
  <2>2. TypeOK'
    <3>1. inc' \in 0..MaxStarts /\ pipe' \in [Clients -> 0..inc']
      BY <1>0
    <3>2. found' \in BOOLEAN
      BY DEF MutexExists
    <3> QED BY <3>1, <3>2 DEF IInv, TypeOK
  <2>3. Engines' /\ Quiet'
    BY <2>1 DEF IInv, Engines, Quiet
  <2>4. Looks'
    BY ConstantsAssumption DEF Looks
  <2>5. Work'
    BY DEF IInv, Work, MutexExists
  <2>6. ActiveIsHeld'
    BY <2>1 DEF ActiveIsHeld
  <2> QED BY <2>2, <2>3, <2>4, <2>5, <2>6 DEF IInv
<1>2. CASE LoadEngine
  <2> USE <1>2 DEF LoadEngine, EndProbe
  <2>1. sessions = NoSessions /\ live = {} /\ active = 0 /\ probe = Server
    BY DEF IInv, Quiet, Looks
  <2>2. TypeOK'
    BY DEF IInv, TypeOK
  <2>3. Engines' /\ Quiet'
    BY <2>1 DEF IInv, Engines, Quiet
  <2>4. Looks'
    BY ConstantsAssumption DEF Looks
  <2>5. Work'
    BY <2>1, ConstantsAssumption DEF IInv, Work
  <2>6. ActiveIsHeld'
    BY <2>1 DEF ActiveIsHeld
  <2> QED BY <2>2, <2>3, <2>4, <2>5, <2>6 DEF IInv
<1>3. CASE ServerReady
  <2> USE <1>3 DEF ServerReady, probeVars
  <2>1. probe = None /\ sessions = NoSessions /\ live = {} /\ active = 0
    BY DEF IInv, Looks, Quiet
  <2>2. TypeOK' /\ Engines' /\ Quiet' /\ Work'
    BY DEF IInv, TypeOK, Engines, Quiet, Work
  <2>3. Looks'
    BY <2>1, ConstantsAssumption DEF Looks
  <2>4. ActiveIsHeld'
    BY <2>1 DEF ActiveIsHeld
  <2> QED BY <2>2, <2>3, <2>4 DEF IInv
<1>4. CASE ServerGone
  <2> USE <1>4 DEF ServerGone, probeVars
  <2>1. Engines' /\ (\A i : EngineOf(i)' = 0) /\ DOMAIN sessions' = {}
    BY ClearedMap, FS_EmptySet
  <2>2. TypeOK'
    BY <2>1 DEF IInv, TypeOK
  <2>3. Quiet' /\ Looks'
    BY ConstantsAssumption DEF IInv, Quiet, Looks
  <2>4. Work'
    BY DEF IInv, Work
  <2>5. ActiveIsHeld'
    BY DEF ActiveIsHeld
  <2> QED BY <2>1, <2>2, <2>3, <2>4, <2>5 DEF IInv
<1>5. CASE TouchActive
  BY <1>5, TouchActiveStep
<1> QED BY <1>1, <1>2, <1>3, <1>4, <1>5 DEF Process

-----------------------------------------------------------------------------
(* The deployers. *)

\* Steps of a deployer outside the server.
LEMMA DeployerStep ==
  ASSUME IInv, NEW d \in Deployers, NEW failed \in BOOLEAN,
         BeginDeploy(d) \/ OpenMutex(d) \/ AbortDeploy(d) \/ FinishWork(d, failed)
  PROVE  IInv'
<1> USE DEF serverVars, probeVars, clientVars, historyVars
<1>1. UNCHANGED <<serverVars, probeVars, clientVars, historyVars>>
  BY DEF BeginDeploy, OpenMutex, AbortDeploy, FinishWork
<1>2. /\ dpc' \in [Deployers -> DeployerSteps]
      /\ mutex' \subseteq Deployers
      /\ reached' \in [Deployers -> BOOLEAN]
  BY DEF BeginDeploy, OpenMutex, AbortDeploy, FinishWork, DeployerGoes,
         IInv, TypeOK, DeployerSteps
<1>3. TypeOK'
  BY <1>1, <1>2 DEF IInv, TypeOK
<1>4. Engines' /\ Quiet' /\ Looks'
  BY <1>1 DEF IInv, Engines, Quiet, Looks
<1>5. Work'
  <2>1. CASE BeginDeploy(d)
    BY <1>1, <2>1 DEF BeginDeploy, DeployerGoes, IInv, Work, TypeOK
  <2>2. CASE OpenMutex(d)
    BY <1>1, <2>2 DEF OpenMutex, DeployerGoes, IInv, Work, TypeOK
  <2>3. CASE AbortDeploy(d)
    BY <1>1, <2>3 DEF AbortDeploy, DeployerGoes, IInv, Work, TypeOK
  <2>4. CASE FinishWork(d, failed)
    BY <1>1, <2>4 DEF FinishWork, DeployerGoes, IInv, Work, TypeOK
  <2> QED BY <2>1, <2>2, <2>3, <2>4
<1>6. ActiveIsHeld'
  BY <1>1 DEF IInv, ActiveIsHeld
<1> QED BY <1>3, <1>4, <1>5, <1>6 DEF IInv

\* The deployer takes librime down.
LEMMA StartMaintenanceStep ==
  ASSUME IInv, NEW d \in Deployers, StartMaintenance(d)
  PROVE  IInv'
<1> USE DEF StartMaintenance, DeployerGoes, probeVars, clientVars, historyVars
<1>0. dpc \in [Deployers -> DeployerSteps] /\ reached \in [Deployers -> BOOLEAN]
  BY DEF IInv, TypeOK
<1>1. CASE up = "up" /\ probe = None
             /\ disabled' = TRUE /\ live' = {} /\ active' = 0
             /\ sessions' = [i \in {0} |-> 0]
             /\ reached' = [reached EXCEPT ![d] = TRUE]
  <2> USE <1>1
  <2>1. DOMAIN sessions' = {0} /\ sessions'[0] = 0
    OBVIOUS
  <2>2. TypeOK'
    BY <1>0, <2>1 DEF IInv, TypeOK, DeployerSteps
  <2>3. Engines'
    BY <2>1, FS_EmptySet DEF Engines, Bounded
  <2>4. Quiet' /\ Looks'
    BY ConstantsAssumption DEF Quiet, Looks
  <2>5. Work'
    BY <1>0 DEF IInv, Work
  <2>6. ActiveIsHeld'
    BY DEF ActiveIsHeld
  <2> QED BY <2>2, <2>3, <2>4, <2>5, <2>6 DEF IInv
<1>2. CASE up # "up" /\ UNCHANGED <<disabled, sessions, live, active, reached>>
  <2> USE <1>2
  <2>1. TypeOK' /\ Engines' /\ Quiet' /\ Looks'
    BY <1>0 DEF IInv, TypeOK, DeployerSteps, Engines, Quiet, Looks
  <2>2. Work'
    BY <1>0 DEF IInv, Work
  <2>3. ActiveIsHeld'
    BY DEF IInv, ActiveIsHeld
  <2> QED BY <2>1, <2>2, <2>3 DEF IInv
<1> QED BY <1>1, <1>2

\* The deployer gives librime back.
LEMMA EndMaintenanceStep ==
  ASSUME IInv, NEW d \in Deployers, EndMaintenance(d)
  PROVE  IInv'
<1> USE DEF EndMaintenance, DeployerGoes, clientVars, historyVars
<1>0. dpc \in [Deployers -> DeployerSteps] /\ dpc' \in [Deployers -> DeployerSteps]
  BY DEF IInv, TypeOK, DeployerSteps
<1>1. CASE up = "up" /\ probe = None /\ ~disabled /\ sessions' = NoSessions
             /\ DeployerGoes(d, "done") /\ UNCHANGED probeVars
  <2> USE <1>1 DEF probeVars
  <2>1. Engines' /\ (\A i : EngineOf(i)' = 0) /\ DOMAIN sessions' = {}
    BY ClearedMap DEF IInv, Engines
  <2>2. 0 \notin live' /\ active' = active
    BY DEF IInv, TypeOK
  <2>3. TypeOK'
    BY <1>0, <2>1 DEF IInv, TypeOK
  <2>4. Quiet' /\ Looks' /\ Work'
    BY <1>0 DEF IInv, Quiet, Looks, Work
  <2>5. ActiveIsHeld'
    <3>1. \A c \in Clients : EngineOf(sid[c])' \notin live'
      <4>1. ASSUME NEW c \in Clients PROVE EngineOf(sid[c])' = 0
        BY <2>1 DEF EngineOf
      <4> QED BY <4>1, <2>2
    <3> QED BY <3>1 DEF IInv, ActiveIsHeld
  <2> QED BY <2>1, <2>3, <2>4, <2>5 DEF IInv
<1>2. CASE up = "up" /\ probe = None /\ disabled /\ Probe(d)
             /\ DeployerGoes(d, "waiting") /\ UNCHANGED sessions
  <2> USE <1>2 DEF Probe
  <2>1. TypeOK'
    BY <1>0 DEF IInv, TypeOK, MutexExists
  <2>2. Engines' /\ Quiet'
    BY DEF IInv, Engines, Quiet
  <2>3. Looks'
    BY ConstantsAssumption DEF Looks
  <2>4. Work'
    BY <1>0 DEF IInv, Work, MutexExists
  <2>5. ActiveIsHeld'
    BY DEF IInv, ActiveIsHeld
  <2> QED BY <2>1, <2>2, <2>3, <2>4, <2>5 DEF IInv
<1>3. CASE up # "up" /\ DeployerGoes(d, "done") /\ UNCHANGED <<sessions, probeVars>>
  <2> USE <1>3 DEF probeVars
  <2>1. TypeOK' /\ Engines' /\ Quiet' /\ Looks' /\ Work'
    BY <1>0 DEF IInv, TypeOK, Engines, Quiet, Looks, Work
  <2>2. ActiveIsHeld'
    BY DEF IInv, ActiveIsHeld
  <2> QED BY <2>1, <2>2 DEF IInv
<1> QED BY <1>1, <1>2, <1>3

LEMMA ResumeStep ==
  ASSUME IInv, NEW d \in Deployers, Resume(d)
  PROVE  IInv'
<1> USE DEF Resume, EndProbe, DeployerGoes, clientVars, historyVars
<1>0. dpc \in [Deployers -> DeployerSteps] /\ dpc' \in [Deployers -> DeployerSteps]
  BY DEF IInv, TypeOK, DeployerSteps
<1>1. up = "up" /\ disabled /\ live = {} /\ active = 0 /\ probe # None
  BY ConstantsAssumption DEF IInv, Looks, Quiet
<1>2. Engines' /\ (\A i : EngineOf(i)' = 0) /\ DOMAIN sessions' = {}
  BY ClearedMap DEF IInv, Engines
<1>3. TypeOK'
  BY <1>0, <1>2 DEF IInv, TypeOK
<1>4. Quiet' /\ Looks'
  BY <1>1, ConstantsAssumption DEF Quiet, Looks
<1>5. Work'
  BY <1>0, <1>1 DEF IInv, Work
<1>6. ActiveIsHeld'
  BY <1>1 DEF ActiveIsHeld
<1> QED BY <1>2, <1>3, <1>4, <1>5, <1>6 DEF IInv

-----------------------------------------------------------------------------
(* The invariant and what follows from it. *)

LEMMA InitIInv == Init => IInv
<1> SUFFICES ASSUME Init PROVE IInv
  OBVIOUS
<1> USE DEF Init
<1>1. DOMAIN sessions = {}
  BY DEF NoSessions
<1>2. TypeOK
  <2>1. MaxStarts \in Nat /\ 0 \in 0..MaxLeaves /\ 0 \in 0..(RetryLimit - 1)
    BY ConstantsAssumption
  <2>2. pc \in [Clients -> Steps] /\ dpc \in [Deployers -> DeployerSteps]
    BY DEF Steps, DeployerSteps
  <2>3. /\ inc \in 0..MaxStarts /\ leaves \in 0..MaxLeaves
        /\ pipe \in [Clients -> 0..inc] /\ retry \in [Clients -> 0..(RetryLimit - 1)]
    BY <2>1
  <2>4. \A i \in DOMAIN sessions : sessions[i] \in Nat
    BY <1>1
  <2>5. sid \in [Clients -> Nat]
    OBVIOUS
  <2> QED BY <1>1, <2>2, <2>3, <2>4, <2>5 DEF TypeOK
<1>3. Engines
  BY <1>1, FS_EmptySet DEF Engines, Bounded
<1>4. Quiet /\ Looks /\ Work
  BY ConstantsAssumption DEF Quiet, Looks, Work
<1>5. ActiveIsHeld
  BY DEF ActiveIsHeld
<1> QED BY <1>2, <1>3, <1>4, <1>5 DEF IInv

\* Every step of a client, by the handler it runs.
LEMMA ClientStep ==
  ASSUME IInv, NEW c \in Clients, ClientNext(c)
  PROVE  IInv'
<1>1. CASE EndStale(c)
  BY <1>1, EndStaleStep
<1>2. CASE Deactivate(c)
  BY <1>2, DeactivateStep
<1>3. CASE StartSession(c)
  BY <1>3, StartSessionStep
<1>4. CASE ResumeSession(c)
  BY <1>4, ResumeSessionStep
<1>5. CASE Killed(c)
  BY <1>5, KilledStep
<1>6. CASE \/ PressKey(c) \/ ThreadFocus(c) \/ CheckRetry(c) \/ LaunchServer(c)
           \/ SkipLaunch(c) \/ CheckSession(c) \/ SendKey(c) \/ AbortComposition(c)
           \/ Notify(c) \/ (\E checked \in BOOLEAN : Browse(c, checked))
           \/ GainFocus(c) \/ LoseFocus(c)
  BY <1>6, ClientAsks, AskStep
<1> QED BY <1>1, <1>2, <1>3, <1>4, <1>5, <1>6 DEF ClientNext, Typing

LEMMA NextIInv == IInv /\ [Next]_vars => IInv'
<1> SUFFICES ASSUME IInv, [Next]_vars PROVE IInv'
  OBVIOUS
<1>1. CASE Process
  BY <1>1, ProcessStep
<1>2. ASSUME NEW c \in Clients, ClientNext(c) PROVE IInv'
  BY <1>2, ClientStep
<1>3. ASSUME NEW d \in Deployers, BeginDeploy(d) \/ Deploying(d) PROVE IInv'
  <2>1. CASE \/ BeginDeploy(d) \/ OpenMutex(d) \/ AbortDeploy(d)
             \/ \E failed \in BOOLEAN : FinishWork(d, failed)
    BY <2>1, DeployerStep
  <2>2. CASE StartMaintenance(d)
    BY <2>2, StartMaintenanceStep
  <2>3. CASE EndMaintenance(d)
    BY <2>3, EndMaintenanceStep
  <2>4. CASE Resume(d)
    BY <2>4, ResumeStep
  <2> QED BY <1>3, <2>1, <2>2, <2>3, <2>4 DEF Deploying
<1>4. CASE UNCHANGED vars
  <2> USE <1>4 DEF vars, serverVars, probeVars, clientVars, deployerVars, historyVars
  <2>1. TypeOK' /\ Engines' /\ Quiet' /\ Looks' /\ Work'
    BY DEF IInv, TypeOK, Engines, Quiet, Looks, Work
  <2>2. ActiveIsHeld'
    BY DEF IInv, ActiveIsHeld
  <2> QED BY <2>1, <2>2 DEF IInv
<1> QED BY <1>1, <1>2, <1>3, <1>4 DEF Next

\* The invariant holds in every reachable state, whatever redeployments,
\* crashes and restarts happen between the requests of WeaselServer's clients.
THEOREM Invariant == Spec => []IInv
<1>1. Init => IInv
  BY InitIInv
<1>2. IInv /\ [Next]_vars => IInv'
  BY NextIInv
<1> QED BY <1>1, <1>2, PTL DEF Spec

\* The variables keep their types: retry stays below RETRY_LIMIT, and no pipe
\* is of a server that has not been started yet.
THEOREM TypeCorrect == Spec => []TypeOK
<1>1. IInv => TypeOK
  BY DEF IInv
<1> QED BY <1>1, Invariant, PTL

\* Opening a session takes nothing from another client that is being served.
OpensAnew ==
  \A c, o \in Clients :
    c # o /\ sid'[c] # sid[c] /\ sid'[c] # 0 /\ Served(o) =>
      /\ sid'[o] = sid[o]
      /\ EngineOf(sid[o])' = EngineOf(sid[o])
      /\ EngineOf(sid[c])' # EngineOf(sid[o])

\* The ids of the clients change when one of them opens or ends a session.
LEMMA WhoOpens ==
  ASSUME IInv, [Next]_vars, NEW c \in Clients, sid'[c] # sid[c], sid'[c] # 0
  PROVE  OpenSession(c, sessions) \/ disabled
<1>1. CASE Process \/ UNCHANGED vars
  <2>1. sid' = sid
    BY <1>1 DEF Process, StartServer, LoadEngine, ServerReady, ServerGone,
                TouchActive, clientVars, vars
  <2> QED BY <2>1
<1>2. ASSUME NEW d \in Deployers, BeginDeploy(d) \/ Deploying(d) PROVE FALSE
  <2>1. sid' = sid
    BY <1>2 DEF Deploying, BeginDeploy, OpenMutex, AbortDeploy, StartMaintenance,
                FinishWork, EndMaintenance, Resume, clientVars
  <2> QED BY <2>1
<1>3. ASSUME NEW o \in Clients, ClientNext(o)
      PROVE  OpenSession(c, sessions) \/ disabled
  <2>1. CASE EndStale(o) \/ Deactivate(o) \/ Killed(o)
    <3>1. sid' = sid \/ sid' = [sid EXCEPT ![o] = 0]
      BY <2>1 DEF EndStale, Deactivate, Killed, EndSession
    <3> QED BY <3>1 DEF IInv, TypeOK
  <2>2. CASE StartSession(o)
    <3>1. sid' = sid \/ disabled \/ OpenSession(o, sessions)
      BY <2>2 DEF StartSession
    <3>2. OpenSession(o, sessions) => o = c
      BY DEF OpenSession, IInv, TypeOK
    <3> QED BY <3>1, <3>2
  <2>3. CASE ResumeSession(o)
    <3>1. probe = o
      BY <2>3 DEF ResumeSession
    <3> QED BY <3>1 DEF IInv, Looks
  <2>4. CASE \/ PressKey(o) \/ ThreadFocus(o) \/ CheckRetry(o) \/ LaunchServer(o)
             \/ SkipLaunch(o) \/ CheckSession(o) \/ SendKey(o) \/ AbortComposition(o)
             \/ Notify(o) \/ (\E checked \in BOOLEAN : Browse(o, checked))
             \/ GainFocus(o) \/ LoseFocus(o)
    <3>1. Asks(o)
      BY <2>4, ClientAsks
    <3> QED BY <3>1 DEF Asks
  <2> QED BY <1>3, <2>1, <2>2, <2>3, <2>4 DEF ClientNext, Typing
<1> QED BY <1>1, <1>2, <1>3 DEF Next

LEMMA OpeningStep == IInv /\ [Next]_vars => OpensAnew
<1> SUFFICES ASSUME IInv, [Next]_vars, NEW c \in Clients, NEW o \in Clients,
                    c # o, sid'[c] # sid[c], sid'[c] # 0, Served(o)
             PROVE  /\ sid'[o] = sid[o]
                    /\ EngineOf(sid[o])' = EngineOf(sid[o])
                    /\ EngineOf(sid[c])' # EngineOf(sid[o])
  BY DEF OpensAnew
<1>1. OpenSession(c, sessions)
  BY WhoOpens DEF Served
<1>2. /\ sid' = [sid EXCEPT ![c] = NewId(sessions)]
      /\ NewId(sessions) \notin DOMAIN sessions
      /\ \A i : EngineOf(i)' = IF i = NewId(sessions) THEN NewEngine
                              ELSE IF i \in DOMAIN sessions THEN sessions[i] ELSE 0
  BY <1>1, OpenedMap DEF IInv
<1>3. sid[o] \in DOMAIN sessions /\ EngineOf(sid[o]) \in live
  BY DEF Served, EngineOf, IInv, TypeOK
<1>4. sid'[o] = sid[o] /\ sid'[c] = NewId(sessions)
  BY <1>2 DEF IInv, TypeOK
<1>5. NewEngine \notin live
  BY NewEngineIsNew DEF IInv, Engines, TypeOK
<1>6. EngineOf(sid[c])' = NewEngine /\ EngineOf(sid[o])' = sessions[sid[o]]
  BY <1>2, <1>3, <1>4 DEF EngineOf
<1>7. EngineOf(sid[o]) = sessions[sid[o]]
  BY <1>3 DEF EngineOf
<1> QED BY <1>3, <1>4, <1>5, <1>6, <1>7

\* A session that is opened is one of librime that no served client has, and
\* the others keep theirs: whatever redeployments, crashes, restarts, killed
\* clients and requests about stale ids came before
\* (_GenerateNewWeaselSessionId, AddSession, FindSession).
THEOREM OpeningTakesNothing == Spec => [][OpensAnew]_vars
<1>1. IInv /\ [Next]_vars => [OpensAnew]_vars
  BY OpeningStep
<1> QED BY <1>1, Invariant, PTL DEF Spec

\* While a deployer it has answered is at work, the server stays out of librime
\* (StartMaintenance, _IsDeployerRunning, Initialize).
THEOREM MaintenanceExclusive == Spec => []MaintenanceIsExclusive
<1>1. IInv => MaintenanceIsExclusive
  BY DEF IInv, Work, MaintenanceIsExclusive
<1> QED BY <1>1, Invariant, PTL

\* The active session is held by a client that is connected to this server, or
\* was left by one that was killed (m_active_session).
THEOREM ActiveHeld == Spec => []ActiveIsHeld
<1>1. IInv => ActiveIsHeld
  BY DEF IInv
<1> QED BY <1>1, Invariant, PTL

=============================================================================
