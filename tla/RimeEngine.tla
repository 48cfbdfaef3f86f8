------------------------------ MODULE RimeEngine ------------------------------
(***************************************************************************)
(* The RIME engine of the Android input method: RimeDispatcher's           *)
(* single-threaded loop, the lifecycle registry, Rime.startup and          *)
(* Rime.finalize, and the RimeDaemon that shares the one engine between    *)
(* named sessions and keeps it alive with operation leases.                *)
(*                                                                         *)
(* An operation is one call of RimeSession.run, runOnReady or runIfReady   *)
(* (launchOnReady is runOnReady started in the caller).  Its block makes   *)
(* any number of RimeApi calls, each a withContext(dispatcher).  The       *)
(* daemon's lock is held for the length of one action, except across the   *)
(* blocking RimeDispatcher.stop, which is several.                         *)
(***************************************************************************)
EXTENDS Naturals, Sequences, FiniteSets

CONSTANTS
  Clients,     \* the names given to createSession
  Operations,  \* how many operations may overlap
  Empty        \* WrappedRunnable.Empty, which wakes the loop

ASSUME ConstantsAssumption ==
  /\ IsFiniteSet(Operations)
  /\ Empty \notin Operations

VARIABLES
  lifecycle,         \* RimeLifecycleRegistry.internalState
  observers,         \* operations with a registered awaitState observer
  isRunning,         \* RimeDispatcher.isRunning
  queue,             \* RimeDispatcher.queue
  rimeMain,          \* where the thread "rime-main" is
  native,            \* librime is between startupRime and exitRime
  tips,              \* the delayed coroutine of showAsciiSwitchTips is pending
  sessions,          \* RimeDaemon.sessions
  activeOperations,  \* RimeOperationLease.activeOperations
  daemon,            \* "free", or how far the lock's holder is in finalize
  skipped,           \* the last startup found no storage and did nothing (history)
  kind,              \* which RimeSession function an operation is
  pc                 \* where an operation is

engineVars == <<lifecycle, isRunning, queue, rimeMain, native>>
daemonVars == <<sessions, activeOperations, daemon, skipped>>
vars == <<lifecycle, observers, isRunning, queue, rimeMain, native, tips,
          sessions, activeOperations, daemon, skipped, kind, pc>>

State == {"STARTING", "READY", "STOPPING", "STOPPED"}
Kind == {"run", "runOnReady", "runIfReady"}

\* parked: no loop; launched: start() has launched it; startup: isRunning is
\* set; emit: librime is up; notify: READY is set, observers not yet told;
\* check: at the while; take: at queue.take; exit: left the while
ThreadStep == {"parked", "launched", "startup", "emit", "notify", "check",
               "take", "exit"}

\* free: nobody finalizes; stop: STOPPING is set; offer: isRunning is reset;
\* drain: waits for the loop's mutex; stopped: stop() has returned
FinalizeStep == {"free", "stop", "offer", "drain", "stopped"}

\* idle: no operation; check, register, recheck, suspended: whenReady;
\* ifcheck: isReady of runIfReady; between: in the block, between API calls;
\* dispatch: past dispatch's check; queued: waits for the loop; releasing:
\* in the finally
OperationStep == {"idle", "check", "register", "recheck", "suspended",
                  "ifcheck", "between", "dispatch", "queued", "releasing"}

TypeOK ==
  /\ lifecycle \in State
  /\ observers \subseteq Operations
  /\ isRunning \in BOOLEAN
  /\ queue \in Seq(Operations \cup {Empty})
  /\ rimeMain \in ThreadStep
  /\ native \in BOOLEAN
  /\ tips \in BOOLEAN
  /\ sessions \subseteq Clients
  /\ activeOperations \in Nat
  /\ daemon \in FinalizeStep
  /\ skipped \in BOOLEAN
  /\ kind \in [Operations -> Kind]
  /\ pc \in [Operations -> OperationStep]

Init ==
  /\ lifecycle = "STOPPED"
  /\ observers = {}
  /\ isRunning = FALSE
  /\ queue = <<>>
  /\ rimeMain = "parked"
  /\ native = FALSE
  /\ tips = FALSE
  /\ sessions = {}
  /\ activeOperations = 0
  /\ daemon = "free"
  /\ skipped = FALSE
  /\ kind = [o \in Operations |-> "run"]
  /\ pc = [o \in Operations |-> "idle"]

-----------------------------------------------------------------------------
(* Rime.startup and Rime.finalize.  Callers hold the daemon's lock. *)

\* startup returns at once while the application's storage is unavailable.
Startup ==
  \/ /\ lifecycle = "STOPPED"
     /\ lifecycle' = "STARTING"
     /\ rimeMain' = "launched"
     /\ skipped' = FALSE
  \/ /\ skipped' = TRUE
     /\ UNCHANGED <<lifecycle, rimeMain>>

\* finalize does nothing unless the engine is READY.
Finalize ==
  IF lifecycle = "READY"
    THEN lifecycle' = "STOPPING" /\ daemon' = "stop"
    ELSE UNCHANGED <<lifecycle, daemon>>

\* Mutant: leases alone decide.
CanFinalizeWithClients(clients, leases) == leases = 0

\* Mutant: sessions alone decide.
CanFinalizeBusy(clients, leases) == clients = {}

CanFinalize(clients, leases) == clients = {} /\ leases = 0

\* stop(): the compareAndSet, or an empty list when it fails
StopDispatcher ==
  /\ daemon = "stop"
  /\ isRunning' = FALSE
  /\ daemon' = IF isRunning THEN "offer" ELSE "stopped"
  /\ UNCHANGED <<lifecycle, observers, queue, rimeMain, native, tips,
                 sessions, activeOperations, skipped, kind, pc>>

\* Mutant: stop() does not wake the loop.
OfferNothing ==
  /\ daemon = "offer"
  /\ daemon' = "drain"
  /\ UNCHANGED <<lifecycle, observers, isRunning, queue, rimeMain, native, tips,
                 sessions, activeOperations, skipped, kind, pc>>

OfferEmpty ==
  /\ daemon = "offer"
  /\ queue' = Append(queue, Empty)
  /\ daemon' = "drain"
  /\ UNCHANGED <<lifecycle, observers, isRunning, rimeMain, native, tips,
                 sessions, activeOperations, skipped, kind, pc>>

\* The loop's mutex is free once the loop has parked; what is left in the
\* queue never runs.
DrainQueue ==
  /\ daemon = "drain"
  /\ rimeMain = "parked"
  /\ queue' = <<>>
  /\ daemon' = "stopped"
  /\ UNCHANGED <<lifecycle, observers, isRunning, rimeMain, native, tips,
                 sessions, activeOperations, skipped, kind, pc>>

\* Emits STOPPED; the lock passes to `next`, what finalize's caller does then.
EmitStopped(next) ==
  /\ daemon = "stopped"
  /\ lifecycle' = "STOPPED"
  /\ daemon' = next
  /\ UNCHANGED <<observers, isRunning, queue, rimeMain, native, tips,
                 sessions, activeOperations, skipped, kind, pc>>

-----------------------------------------------------------------------------
(* The thread "rime-main": the coroutine launched by RimeDispatcher.start. *)

EnterLoop ==
  /\ rimeMain = "launched"
  /\ isRunning' = TRUE
  /\ rimeMain' = IF isRunning THEN "parked" ELSE "startup"
  /\ UNCHANGED <<lifecycle, observers, queue, native, tips, daemonVars, kind, pc>>

StartRime ==
  /\ rimeMain = "startup"
  /\ native' = TRUE
  /\ rimeMain' = "emit"
  /\ UNCHANGED <<lifecycle, observers, isRunning, queue, tips, daemonVars, kind, pc>>

EmitReady ==
  /\ rimeMain = "emit"
  /\ lifecycle' = "READY"
  /\ rimeMain' = "notify"
  /\ UNCHANGED <<observers, isRunning, queue, native, tips, daemonVars, kind, pc>>

\* Mutant: one observer is told, as if the iteration ended with it.
NotifyOne ==
  /\ rimeMain = "notify"
  /\ IF observers = {} \/ lifecycle # "READY"
       THEN UNCHANGED observers
       ELSE \E o \in observers : observers' = observers \ {o}
  /\ rimeMain' = "check"
  /\ UNCHANGED <<lifecycle, isRunning, queue, native, tips, daemonVars, kind, pc>>

\* Each observer resumes its operation if the state still is READY.
NotifyReady ==
  /\ rimeMain = "notify"
  /\ observers' = IF lifecycle = "READY" THEN {} ELSE observers
  /\ rimeMain' = "check"
  /\ UNCHANGED <<lifecycle, isRunning, queue, native, tips, daemonVars, kind, pc>>

CheckRunning ==
  /\ rimeMain = "check"
  /\ rimeMain' = IF isRunning THEN "take" ELSE "exit"
  /\ UNCHANGED <<lifecycle, observers, isRunning, queue, native, tips,
                 daemonVars, kind, pc>>

\* One runnable: an API call on librime, after which its caller goes on, or
\* Empty.  A key may schedule the ascii tips, a second after it.
RunNextJob ==
  /\ rimeMain = "take"
  /\ queue # <<>>
  /\ queue' = Tail(queue)
  /\ rimeMain' = "check"
  /\ IF Head(queue) \in Operations
       THEN /\ pc' = [pc EXCEPT ![Head(queue)] = "between"]
            /\ tips' \in {tips, TRUE}
       ELSE UNCHANGED <<pc, tips>>
  /\ UNCHANGED <<lifecycle, observers, isRunning, native, daemonVars, kind>>

ExitRime ==
  /\ rimeMain = "exit"
  /\ native' = FALSE
  /\ rimeMain' = "parked"
  /\ UNCHANGED <<lifecycle, observers, isRunning, queue, tips, daemonVars, kind, pc>>

\* The delayed coroutine reads librime from a pool thread, without a lease.
ShowTips ==
  /\ tips
  /\ tips' = FALSE
  /\ UNCHANGED <<engineVars, observers, daemonVars, kind, pc>>

-----------------------------------------------------------------------------
(* RimeDaemon's sessions and operations. *)

CreateSession(c) ==
  /\ daemon = "free"
  /\ c \notin sessions
  /\ sessions' = sessions \cup {c}
  /\ IF lifecycle = "STOPPED" THEN Startup
     ELSE UNCHANGED <<lifecycle, rimeMain, skipped>>
  /\ UNCHANGED <<observers, isRunning, queue, native, tips, activeOperations,
                 daemon, kind, pc>>

DestroySession(c) ==
  /\ daemon = "free"
  /\ c \in sessions
  /\ sessions' = sessions \ {c}
  /\ IF CanFinalize(sessions', activeOperations)
       THEN Finalize ELSE UNCHANGED <<lifecycle, daemon>>
  /\ UNCHANGED <<observers, isRunning, queue, rimeMain, native, tips,
                 activeOperations, skipped, kind, pc>>

FirstStep(k) ==
  CASE k = "run" -> "between"
    [] k = "runOnReady" -> "check"
    [] k = "runIfReady" -> "ifcheck"

AcquireOperation(o, k) ==
  /\ daemon = "free"
  /\ pc[o] = "idle"
  /\ sessions # {}
  /\ activeOperations' = activeOperations + 1
  /\ kind' = [kind EXCEPT ![o] = k]
  /\ pc' = [pc EXCEPT ![o] = FirstStep(k)]
  /\ UNCHANGED <<engineVars, observers, tips, sessions, daemon, skipped>>

\* Mutant: released by the block and by its finally, and nothing checks.
ReleaseTwice(o) ==
  /\ daemon = "free"
  /\ pc[o] = "releasing"
  /\ activeOperations' = activeOperations - 2
  /\ pc' = [pc EXCEPT ![o] = "idle"]
  /\ IF CanFinalize(sessions, activeOperations')
       THEN Finalize ELSE UNCHANGED <<lifecycle, daemon>>
  /\ UNCHANGED <<observers, isRunning, queue, rimeMain, native, tips,
                 sessions, skipped, kind>>

\* Mutant: off by one, the last but one release finalizes.
ReleaseNotLast(o) ==
  /\ daemon = "free"
  /\ pc[o] = "releasing"
  /\ activeOperations > 0
  /\ activeOperations' = activeOperations - 1
  /\ pc' = [pc EXCEPT ![o] = "idle"]
  /\ IF sessions = {} /\ activeOperations' <= 1
       THEN Finalize ELSE UNCHANGED <<lifecycle, daemon>>
  /\ UNCHANGED <<observers, isRunning, queue, rimeMain, native, tips,
                 sessions, skipped, kind>>

ReleaseOperation(o) ==
  /\ daemon = "free"
  /\ pc[o] = "releasing"
  /\ activeOperations > 0
  /\ activeOperations' = activeOperations - 1
  /\ pc' = [pc EXCEPT ![o] = "idle"]
  /\ IF CanFinalize(sessions, activeOperations')
       THEN Finalize ELSE UNCHANGED <<lifecycle, daemon>>
  /\ UNCHANGED <<observers, isRunning, queue, rimeMain, native, tips,
                 sessions, skipped, kind>>

-----------------------------------------------------------------------------
(* The steps of an operation outside the daemon's lock. *)

Goto(o, from, to) ==
  /\ pc[o] = from
  /\ pc' = [pc EXCEPT ![o] = to]

\* whenAtState's first look at the state
CheckReady(o) ==
  /\ Goto(o, "check", IF lifecycle = "READY" THEN "between" ELSE "register")
  /\ UNCHANGED <<engineVars, observers, tips, daemonVars, kind>>

RegisterObserver(o) ==
  /\ Goto(o, "register", "recheck")
  /\ observers' = observers \cup {o}
  /\ UNCHANGED <<engineVars, tips, daemonVars, kind>>

\* Mutant: no second look.
NoRecheck(o) ==
  /\ Goto(o, "recheck", "suspended")
  /\ UNCHANGED <<engineVars, observers, tips, daemonVars, kind>>

\* awaitState's second look, after the observer is registered
RecheckReady(o) ==
  /\ Goto(o, "recheck", "suspended")
  /\ observers' = IF lifecycle = "READY" THEN observers \ {o} ELSE observers
  /\ UNCHANGED <<engineVars, tips, daemonVars, kind>>

\* `completed` is set: the continuation has been resumed
Resume(o) ==
  /\ o \notin observers
  /\ Goto(o, "suspended", "between")
  /\ UNCHANGED <<engineVars, observers, tips, daemonVars, kind>>

\* The caller's scope is cancelled while the operation waits for READY.
Cancel(o) ==
  /\ o \in observers
  /\ Goto(o, "suspended", "releasing")
  /\ observers' = observers \ {o}
  /\ UNCHANGED <<engineVars, tips, daemonVars, kind>>

CheckIfReady(o) ==
  /\ Goto(o, "ifcheck", IF lifecycle = "READY" THEN "between" ELSE "releasing")
  /\ UNCHANGED <<engineVars, observers, tips, daemonVars, kind>>

\* An API call; dispatch throws when the dispatcher is not running, and the
\* exception leaves the block.
CallApi(o) ==
  /\ Goto(o, "between", IF isRunning THEN "dispatch" ELSE "releasing")
  /\ UNCHANGED <<engineVars, observers, tips, daemonVars, kind>>

OfferJob(o) ==
  /\ Goto(o, "dispatch", "queued")
  /\ queue' = Append(queue, o)
  /\ UNCHANGED <<lifecycle, observers, isRunning, rimeMain, native, tips,
                 daemonVars, kind>>

\* The block returns.
FinishBlock(o) ==
  /\ Goto(o, "between", "releasing")
  /\ UNCHANGED <<engineVars, observers, tips, daemonVars, kind>>

-----------------------------------------------------------------------------

RimeMain ==
  \/ EnterLoop \/ StartRime \/ EmitReady \/ NotifyReady
  \/ CheckRunning \/ RunNextJob \/ ExitRime

Stopper == StopDispatcher \/ OfferEmpty \/ DrainQueue \/ EmitStopped("free")

Progress(o) ==
  \/ CheckReady(o) \/ RegisterObserver(o) \/ RecheckReady(o) \/ Resume(o)
  \/ CheckIfReady(o) \/ OfferJob(o) \/ ReleaseOperation(o)

Next ==
  \/ RimeMain
  \/ Stopper
  \/ ShowTips
  \/ \E c \in Clients : CreateSession(c) \/ DestroySession(c)
  \/ \E o \in Operations :
       \/ \E k \in Kind : AcquireOperation(o, k)
       \/ Progress(o) \/ CallApi(o) \/ FinishBlock(o) \/ Cancel(o)

Spec == Init /\ [][Next]_vars

\* The loop's thread, the thread that finalizes and every started coroutine
\* are scheduled; a block makes finitely many calls, so it finishes if it is
\* between two calls again and again.  Clients owe nothing.
Fairness ==
  /\ WF_vars(RimeMain)
  /\ WF_vars(Stopper)
  /\ \A o \in Operations : WF_vars(Progress(o)) /\ SF_vars(FinishBlock(o))

FairSpec == Spec /\ Fairness

-----------------------------------------------------------------------------
(* Properties *)

\* The operation has the dispatcher's word that it is running: it has passed
\* dispatch's check, or whenReady or isReady let it into its block.
Admitted(o) ==
  \/ pc[o] \in {"dispatch", "queued"}
  \/ pc[o] = "between" /\ kind[o] # "run"

\* While anyone is connected or holds a lease, and nobody is finalizing, the
\* engine is up or on its way up, unless the last call that would have started
\* it found no storage: a session is not left with a stopped engine because
\* others come, go and work (RimeDaemon.createSession starts only a STOPPED
\* engine, finalize stops only a READY one).
HoldersHaveEngine ==
  daemon = "free" /\ (sessions # {} \/ activeOperations > 0)
    => lifecycle \in {"STARTING", "READY"} \/ skipped

\* RimeOperationLease "keeps the RIME dispatcher alive while a session
\* operation is suspended between native calls": an operation that was let in
\* never meets a dispatcher that refuses it or will not run its job, although
\* the checks of READY and of isRunning are not atomic with what follows them.
LeaseKeepsDispatcher ==
  \A o \in Operations : Admitted(o) => isRunning

\* When stop() drains the queue nobody is suspended on a job in it: the jobs
\* that "didn't get a chance to run" are none.
NoJobDropped ==
  daemon \in {"drain", "stopped"} => \A o \in Operations : pc[o] # "queued"

\* awaitState loses no wake-up: an operation waits with a registered observer
\* only while READY, and the notification of it, is still to come.
NoLostWakeup ==
  \A o \in Operations :
    pc[o] = "suspended" /\ o \in observers /\ lifecycle = "READY"
      => rimeMain = "notify"

\* What the properties above rest on, for the proofs in RimeEngineProofs.

Busy == {o \in Operations : pc[o] # "idle"}

\* How the lifecycle, the loop's thread, the dispatcher's flag, librime and
\* the thread that finalizes move together.
PhaseInv ==
  /\ lifecycle = "STOPPED" =>
       rimeMain = "parked" /\ ~isRunning /\ ~native /\ queue = <<>> /\ daemon = "free"
  /\ lifecycle = "STARTING" =>
       rimeMain \in {"launched", "startup", "emit"} /\ daemon = "free"
  /\ lifecycle = "READY" =>
       rimeMain \in {"notify", "check", "take"} /\ isRunning /\ daemon = "free"
  /\ lifecycle = "STOPPING" =>
       rimeMain \in {"notify", "check", "take", "exit", "parked"} /\ daemon # "free"
  /\ rimeMain = "launched" => ~isRunning
  /\ rimeMain \in {"startup", "emit"} => isRunning
  /\ rimeMain = "exit" => ~isRunning
  /\ rimeMain = "parked" => ~native /\ ~isRunning
  /\ daemon = "stop" => isRunning
  /\ daemon \in {"offer", "drain", "stopped"} => ~isRunning
  /\ daemon = "stopped" => rimeMain = "parked" /\ queue = <<>>

\* Only an engine nobody holds is finalized.
FinalizeInv == daemon # "free" => sessions = {} /\ activeOperations = 0

\* The lease counts the operations under way.
LeaseCount == activeOperations = Cardinality(Busy)

\* Every operation in the queue waits for it, and is there once.
QueueInv ==
  /\ \A i \in 1..Len(queue) : queue[i] \in Operations => pc[queue[i]] = "queued"
  /\ \A i, j \in 1..Len(queue) :
       queue[i] \in Operations /\ queue[i] = queue[j] => i = j

\* An operation whose observer has gone was resumed by a READY engine.
ResumeInv ==
  \A o \in Operations :
    pc[o] \in {"recheck", "suspended"} /\ o \notin observers => lifecycle = "READY"

\* A startup that was skipped leaves a stopped engine.
SkipInv == skipped => lifecycle = "STOPPED"

IInv ==
  /\ TypeOK
  /\ SkipInv
  /\ PhaseInv
  /\ FinalizeInv
  /\ LeaseCount
  /\ QueueInv
  /\ ResumeInv
  /\ HoldersHaveEngine
  /\ LeaseKeepsDispatcher
  /\ NoLostWakeup

\* The engine is switched off only for want of clients and operations.
Lease == INSTANCE EngineLease WITH
  on <- lifecycle = "READY",
  clients <- sessions,
  underway <- Busy

ImplementsLease == Lease!Spec

\* runOnReady waits in awaitState for an engine that was not started, for want
\* of storage.
Stranded(o) == skipped /\ o \in observers

\* Every operation ends, whatever other clients do: it is not left suspended
\* in awaitState, in the queue or in front of the daemon's lock.  Without
\* storage only runOnReady waits, and it goes on once a client starts the
\* engine; run and runIfReady end.
OperationsFinish ==
  \A o \in Operations : pc[o] # "idle" ~> pc[o] = "idle" \/ Stranded(o)

\* A thread inside Rime.finalize gets out: stop() and the loop never wait for
\* each other forever, so the daemon's lock is given back.
LockIsReleased == daemon # "free" ~> daemon = "free"
=============================================================================
