--------------------------- MODULE RimeEngineProofs ---------------------------
(***************************************************************************)
(* The safety properties of RimeEngine for any sets of clients and         *)
(* operations, from the inductive invariant IInv.                          *)
(***************************************************************************)
EXTENDS RimeEngine, FiniteSetTheorems, TLAPS

-----------------------------------------------------------------------------
(* The set of operations under way, and its count. *)

LEMMA BusyFinite == TypeOK => IsFiniteSet(Busy) /\ Cardinality(Busy) \in Nat
  BY ConstantsAssumption, FS_Subset, FS_CardinalityType DEF Busy

\* Without a lease every operation is idle.
LEMMA NoLeaseAllIdle ==
  ASSUME TypeOK, LeaseCount, activeOperations = 0
  PROVE  \A o \in Operations : pc[o] = "idle"
  <1>1. Busy = {}
    BY BusyFinite, FS_EmptySet DEF LeaseCount
  <1>2. QED
    BY <1>1 DEF Busy

\* An operation under way holds a lease.
LEMMA BusyHasLease ==
  ASSUME TypeOK, LeaseCount, NEW o \in Operations, pc[o] # "idle"
  PROVE  activeOperations > 0
  BY NoLeaseAllIdle DEF TypeOK

\* Moving an operation between steps other than idle keeps the count.
LEMMA CountKept ==
  ASSUME LeaseCount, TypeOK, activeOperations' = activeOperations,
         \A o \in Operations : (pc'[o] = "idle") <=> (pc[o] = "idle")
  PROVE  LeaseCount'
  <1>1. Busy' = Busy
    BY DEF Busy
  <1>2. QED
    BY <1>1 DEF LeaseCount

-----------------------------------------------------------------------------

THEOREM InitIInv == Init => IInv
  <1> SUFFICES ASSUME Init PROVE IInv
    OBVIOUS
  <1>1. TypeOK
    <2>1. kind \in [Operations -> Kind] /\ pc \in [Operations -> OperationStep]
      BY DEF Init, Kind, OperationStep
    <2>2. queue \in Seq(Operations \cup {Empty})
      BY DEF Init
    <2>3. QED
      BY <2>1, <2>2 DEF Init, TypeOK, State, ThreadStep, FinalizeStep
  <1>2. PhaseInv /\ FinalizeInv /\ ResumeInv
    BY DEF Init, PhaseInv, FinalizeInv, ResumeInv
  <1>3. QueueInv
    BY DEF Init, QueueInv
  <1>4. HoldersHaveEngine /\ LeaseKeepsDispatcher /\ NoLostWakeup /\ SkipInv
    BY DEF Init, SkipInv, HoldersHaveEngine, LeaseKeepsDispatcher, NoLostWakeup, Admitted
  <1>5. LeaseCount
    <2>1. Busy = {}
      BY DEF Init, Busy
    <2>2. QED
      BY <2>1, FS_EmptySet DEF Init, LeaseCount
  <1>6. QED
    BY <1>1, <1>2, <1>3, <1>4, <1>5 DEF IInv

-----------------------------------------------------------------------------
(* The steps that leave the queue, the operations and the leases alone. *)

LEMMA EngineStep ==
  ASSUME IInv,
         \/ EnterLoop \/ StartRime \/ EmitReady \/ NotifyReady \/ CheckRunning
         \/ ExitRime \/ StopDispatcher \/ EmitStopped("free") \/ ShowTips
  PROVE  IInv'
  <1> USE DEF IInv
  <1>1. QueueInv'
    BY DEF QueueInv, EnterLoop, StartRime, EmitReady, NotifyReady, CheckRunning,
           ExitRime, StopDispatcher, EmitStopped, ShowTips, engineVars
  <1>2. LeaseCount'
    BY CountKept DEF EnterLoop, StartRime, EmitReady, NotifyReady, CheckRunning,
           ExitRime, StopDispatcher, EmitStopped, ShowTips, daemonVars
  <1> USE DEF TypeOK, PhaseInv, SkipInv, FinalizeInv, ResumeInv, HoldersHaveEngine,
              LeaseKeepsDispatcher, NoLostWakeup, Admitted, engineVars, daemonVars,
              State, Kind, ThreadStep, FinalizeStep, OperationStep
  <1>3. CASE EnterLoop
    BY <1>1, <1>2, <1>3 DEF EnterLoop
  <1>4. CASE StartRime
    BY <1>1, <1>2, <1>4 DEF StartRime
  <1>5. CASE EmitReady
    BY <1>1, <1>2, <1>5 DEF EmitReady
  <1>6. CASE NotifyReady
    BY <1>1, <1>2, <1>6 DEF NotifyReady
  <1>7. CASE CheckRunning
    BY <1>1, <1>2, <1>7 DEF CheckRunning
  <1>8. CASE ExitRime
    BY <1>1, <1>2, <1>8 DEF ExitRime
  <1>9. CASE StopDispatcher
    <2>1. \A o \in Operations : pc[o] = "idle"
      BY <1>9, NoLeaseAllIdle DEF StopDispatcher
    <2>2. QED
      BY <1>1, <1>2, <1>9, <2>1 DEF StopDispatcher
  <1>10. CASE EmitStopped("free")
    BY <1>1, <1>2, <1>10 DEF EmitStopped
  <1>11. CASE ShowTips
    BY <1>1, <1>2, <1>11 DEF ShowTips
  <1>12. QED
    BY <1>3, <1>4, <1>5, <1>6, <1>7, <1>8, <1>9, <1>10, <1>11

-----------------------------------------------------------------------------
(* The queue: what is appended, taken and drained. *)

\* Appending an operation that waits and is not there yet keeps QueueInv.
LEMMA OfferKeepsQueue ==
  ASSUME TypeOK, TypeOK', QueueInv, NEW o \in Operations, OfferJob(o)
  PROVE  QueueInv'
  <1>1. /\ Len(queue') = Len(queue) + 1 /\ Len(queue) \in Nat
        /\ queue'[Len(queue) + 1] = o
        /\ \A i \in 1..Len(queue) : queue'[i] = queue[i]
    BY DEF OfferJob, TypeOK
  <1>2. \A i \in 1..Len(queue) : queue[i] # o
    BY DEF QueueInv, OfferJob, Goto
  <1>3. pc'[o] = "queued" /\ \A q \in Operations : q # o => pc'[q] = pc[q]
    BY DEF OfferJob, Goto, TypeOK
  <1>4. \A i \in 1..Len(queue') : i \in 1..Len(queue) \/ i = Len(queue) + 1
    BY <1>1
  <1>5. \A i \in 1..Len(queue') : queue'[i] \in Operations => pc'[queue'[i]] = "queued"
    BY <1>1, <1>2, <1>3, <1>4 DEF QueueInv
  <1>6. \A i, j \in 1..Len(queue') :
          queue'[i] \in Operations /\ queue'[i] = queue'[j] => i = j
    BY <1>1, <1>2, <1>4 DEF QueueInv
  <1>7. QED
    BY <1>5, <1>6 DEF QueueInv

\* Taking the head leaves the others, none of which is the operation at the
\* head; that operation was waiting.
LEMMA TakeKeepsQueue ==
  ASSUME TypeOK, QueueInv, RunNextJob
  PROVE  /\ QueueInv'
         /\ Head(queue) \in Operations => pc[Head(queue)] = "queued"
  <1>1. /\ Len(queue) \in Nat /\ Len(queue) > 0
        /\ Head(queue) = queue[1]
        /\ Len(queue') = Len(queue) - 1
        /\ \A i \in 1..Len(queue') : queue'[i] = queue[i + 1]
    BY DEF RunNextJob, TypeOK
  <1>2. Head(queue) \in Operations => pc[Head(queue)] = "queued"
    BY <1>1 DEF QueueInv
  <1>3. \A i \in 1..Len(queue') : i + 1 \in 1..Len(queue) /\ i + 1 # 1
    BY <1>1
  <1>4. \A i \in 1..Len(queue') : queue'[i] \in Operations => queue'[i] # Head(queue)
    BY <1>1, <1>3 DEF QueueInv
  <1>5. \A q \in Operations : q # Head(queue) => pc'[q] = pc[q]
    BY DEF RunNextJob, TypeOK
  <1>6. \A i \in 1..Len(queue') : queue'[i] \in Operations => pc'[queue'[i]] = "queued"
    BY <1>1, <1>3, <1>4, <1>5 DEF QueueInv
  <1>7. \A i, j \in 1..Len(queue') :
          queue'[i] \in Operations /\ queue'[i] = queue'[j] => i = j
    <2> SUFFICES ASSUME NEW i \in 1..Len(queue'), NEW j \in 1..Len(queue'),
                        queue'[i] \in Operations, queue'[i] = queue'[j]
                 PROVE  i = j
      OBVIOUS
    <2>1. i + 1 = j + 1
      BY <1>1, <1>3 DEF QueueInv
    <2>2. QED
      BY <2>1, <1>1
  <1>8. QED
    BY <1>2, <1>6, <1>7 DEF QueueInv

\* Steps that leave the queue and everyone in it alone.
LEMMA QueueKept ==
  ASSUME QueueInv, queue' = queue,
         \A o \in Operations : pc[o] = "queued" => pc'[o] = "queued"
  PROVE  QueueInv'
  BY DEF QueueInv

LEMMA RunNextJobStep ==
  ASSUME IInv, RunNextJob
  PROVE  IInv'
  <1> USE DEF IInv
  <1>1. QueueInv' /\ (Head(queue) \in Operations => pc[Head(queue)] = "queued")
    BY TakeKeepsQueue
  <1>2. \A o \in Operations : pc'[o] = pc[o] \/ (pc[o] = "queued" /\ pc'[o] = "between")
    BY <1>1 DEF RunNextJob, TypeOK
  <1>3. TypeOK'
    <2>1. queue' \in Seq(Operations \cup {Empty})
      BY DEF RunNextJob, TypeOK
    <2>2. pc' \in [Operations -> OperationStep]
      BY DEF RunNextJob, TypeOK, OperationStep
    <2>3. tips' \in BOOLEAN
      BY DEF RunNextJob, TypeOK
    <2>4. QED
      BY <2>1, <2>2, <2>3 DEF RunNextJob, TypeOK, daemonVars, ThreadStep
  <1>4. LeaseCount'
    BY CountKept, <1>2 DEF RunNextJob, daemonVars
  <1>5. PhaseInv' /\ FinalizeInv' /\ SkipInv' /\ HoldersHaveEngine'
    BY DEF RunNextJob, TypeOK, PhaseInv, FinalizeInv, SkipInv, HoldersHaveEngine, daemonVars
  <1>6. ResumeInv' /\ LeaseKeepsDispatcher' /\ NoLostWakeup'
    BY <1>2 DEF RunNextJob, ResumeInv, LeaseKeepsDispatcher, NoLostWakeup, Admitted
  <1>7. QED
    BY <1>1, <1>3, <1>4, <1>5, <1>6

LEMMA OfferEmptyStep ==
  ASSUME IInv, OfferEmpty
  PROVE  IInv'
  <1> USE DEF IInv
  <1>1. /\ Len(queue') = Len(queue) + 1 /\ Len(queue) \in Nat
        /\ queue'[Len(queue) + 1] = Empty
        /\ \A i \in 1..Len(queue) : queue'[i] = queue[i]
        /\ queue' \in Seq(Operations \cup {Empty})
    BY DEF OfferEmpty, TypeOK
  <1>2. QueueInv'
    <2>1. \A i \in 1..Len(queue') :
            queue'[i] \in Operations => i \in 1..Len(queue) /\ queue'[i] = queue[i]
      BY <1>1, ConstantsAssumption
    <2>2. QED
      BY <2>1 DEF QueueInv, OfferEmpty
  <1>3. LeaseCount'
    BY CountKept DEF OfferEmpty
  <1>4. TypeOK' /\ PhaseInv'
    BY <1>1 DEF OfferEmpty, TypeOK, PhaseInv, FinalizeStep
  <1>5. FinalizeInv' /\ SkipInv' /\ HoldersHaveEngine' /\ ResumeInv' /\ LeaseKeepsDispatcher'
        /\ NoLostWakeup'
    BY DEF OfferEmpty, FinalizeInv, SkipInv, HoldersHaveEngine, ResumeInv,
           LeaseKeepsDispatcher, NoLostWakeup, Admitted
  <1>6. QED
    BY <1>2, <1>3, <1>4, <1>5

LEMMA DrainQueueStep ==
  ASSUME IInv, DrainQueue
  PROVE  IInv'
  <1> USE DEF IInv
  <1>1. queue' = <<>> /\ Len(queue') = 0 /\ queue' \in Seq(Operations \cup {Empty})
    BY DEF DrainQueue
  <1>2. QueueInv'
    BY <1>1 DEF QueueInv
  <1>3. LeaseCount'
    BY CountKept DEF DrainQueue
  <1>4. TypeOK' /\ PhaseInv'
    BY <1>1 DEF DrainQueue, TypeOK, PhaseInv, FinalizeStep
  <1>5. FinalizeInv' /\ SkipInv' /\ HoldersHaveEngine' /\ ResumeInv' /\ LeaseKeepsDispatcher'
        /\ NoLostWakeup'
    BY DEF DrainQueue, FinalizeInv, SkipInv, HoldersHaveEngine, ResumeInv,
           LeaseKeepsDispatcher, NoLostWakeup, Admitted
  <1>6. QED
    BY <1>2, <1>3, <1>4, <1>5

-----------------------------------------------------------------------------
(* The daemon's sections: sessions come and go, leases are taken and given *)
(* back.                                                                   *)

LEMMA CreateSessionStep ==
  ASSUME IInv, NEW c \in Clients, CreateSession(c)
  PROVE  IInv'
  <1> USE DEF IInv, CreateSession, Startup
  <1>1. QueueInv'
    BY QueueKept
  <1>2. LeaseCount'
    BY CountKept
  <1>3. TypeOK' /\ PhaseInv' /\ FinalizeInv' /\ SkipInv' /\ HoldersHaveEngine'
    BY DEF TypeOK, PhaseInv, FinalizeInv, SkipInv, HoldersHaveEngine, State, ThreadStep
  <1>4. ResumeInv' /\ LeaseKeepsDispatcher' /\ NoLostWakeup'
    BY DEF TypeOK, PhaseInv, ResumeInv, LeaseKeepsDispatcher, NoLostWakeup, Admitted
  <1>5. QED
    BY <1>1, <1>2, <1>3, <1>4

LEMMA DestroySessionStep ==
  ASSUME IInv, NEW c \in Clients, DestroySession(c)
  PROVE  IInv'
  <1> USE DEF IInv, DestroySession, Finalize, CanFinalize
  <1>1. QueueInv'
    BY QueueKept
  <1>2. LeaseCount'
    BY CountKept
  <1>3. TypeOK' /\ PhaseInv' /\ FinalizeInv' /\ SkipInv' /\ HoldersHaveEngine'
    BY DEF TypeOK, PhaseInv, FinalizeInv, SkipInv, HoldersHaveEngine, State, FinalizeStep
  <1>4. LeaseKeepsDispatcher' /\ NoLostWakeup'
    BY DEF TypeOK, PhaseInv, LeaseKeepsDispatcher, NoLostWakeup, Admitted
  <1>5. ResumeInv'
    <2>1. CASE lifecycle' = lifecycle
      BY <2>1 DEF ResumeInv
    <2>2. CASE activeOperations = 0
      BY <2>2, NoLeaseAllIdle DEF ResumeInv
    <2>3. QED
      BY <2>1, <2>2
  <1>6. QED
    BY <1>1, <1>2, <1>3, <1>4, <1>5

LEMMA AcquireStep ==
  ASSUME IInv, NEW o \in Operations, NEW k \in Kind, AcquireOperation(o, k)
  PROVE  IInv'
  <1> USE DEF IInv, AcquireOperation, engineVars
  <1>1. /\ pc'[o] \in {"between", "check", "ifcheck"}
        /\ pc'[o] = "between" => k = "run"
        /\ kind'[o] = k
        /\ \A q \in Operations : q # o => pc'[q] = pc[q] /\ kind'[q] = kind[q]
    BY DEF FirstStep, Kind, TypeOK
  <1>2. QueueInv'
    BY <1>1, QueueKept
  <1>3. LeaseCount'
    <2>1. Busy' = Busy \cup {o} /\ o \notin Busy
      BY <1>1 DEF Busy
    <2>2. Cardinality(Busy') = Cardinality(Busy) + 1
      BY <2>1, BusyFinite, FS_AddElement
    <2>3. QED
      BY <2>2 DEF LeaseCount
  <1>4. TypeOK'
    <2>1. pc' \in [Operations -> OperationStep]
      BY <1>1 DEF TypeOK, OperationStep
    <2>2. kind' \in [Operations -> Kind]
      BY DEF TypeOK
    <2>3. QED
      BY <2>1, <2>2 DEF TypeOK
  <1>5. PhaseInv' /\ FinalizeInv' /\ SkipInv' /\ HoldersHaveEngine'
    BY DEF PhaseInv, FinalizeInv, SkipInv, HoldersHaveEngine
  <1>6. ResumeInv' /\ LeaseKeepsDispatcher' /\ NoLostWakeup'
    BY <1>1 DEF ResumeInv, LeaseKeepsDispatcher, NoLostWakeup, Admitted
  <1>7. QED
    BY <1>2, <1>3, <1>4, <1>5, <1>6

LEMMA ReleaseStep ==
  ASSUME IInv, NEW o \in Operations, ReleaseOperation(o)
  PROVE  IInv'
  <1> USE DEF IInv, ReleaseOperation
  <1>1. pc'[o] = "idle" /\ \A q \in Operations : q # o => pc'[q] = pc[q]
    BY DEF TypeOK
  <1>2. QueueInv'
    BY <1>1, QueueKept
  <1>3. LeaseCount'
    <2>1. Busy' = Busy \ {o} /\ o \in Busy
      BY <1>1 DEF Busy
    <2>2. Cardinality(Busy') = Cardinality(Busy) - 1
      BY <2>1, BusyFinite, FS_RemoveElement
    <2>3. QED
      BY <2>2 DEF LeaseCount
  <1>4. TypeOK'
    <2>1. pc' \in [Operations -> OperationStep]
      BY DEF TypeOK, OperationStep
    <2>2. activeOperations' \in Nat
      BY DEF TypeOK
    <2>3. QED
      BY <2>1, <2>2 DEF TypeOK, Finalize, State, FinalizeStep
  <1>5. PhaseInv' /\ FinalizeInv' /\ SkipInv' /\ HoldersHaveEngine'
    BY <1>4 DEF TypeOK, PhaseInv, FinalizeInv, SkipInv, HoldersHaveEngine, Finalize, CanFinalize
  <1>6. LeaseKeepsDispatcher' /\ NoLostWakeup'
    BY <1>1 DEF PhaseInv, LeaseKeepsDispatcher, NoLostWakeup, Admitted, Finalize
  <1>7. ResumeInv'
    <2>1. CASE lifecycle' = lifecycle
      BY <1>1, <2>1 DEF ResumeInv
    <2>2. CASE activeOperations' = 0
      <3>1. Busy' = {}
        BY <1>3, <1>4, <2>2, BusyFinite, FS_EmptySet, FS_Subset,
           ConstantsAssumption DEF LeaseCount, Busy
      <3>2. QED
        BY <3>1 DEF Busy, ResumeInv
    <2>3. QED
      BY <2>1, <2>2 DEF Finalize, CanFinalize
  <1>8. QED
    BY <1>2, <1>3, <1>4, <1>5, <1>6, <1>7

-----------------------------------------------------------------------------
(* The steps an operation takes outside the daemon's lock. *)

\* What every such step shares: one operation under way moves to another step
\* under way, and the daemon is left alone.
LEMMA MoveStep ==
  ASSUME IInv, NEW o \in Operations, NEW from \in OperationStep \ {"idle", "queued"},
         NEW to \in OperationStep \ {"idle"}, Goto(o, from, to),
         UNCHANGED <<daemonVars, kind>>
  PROVE  /\ LeaseCount'
         /\ FinalizeInv'
         /\ pc' \in [Operations -> OperationStep]
         /\ pc'[o] = to
         /\ \A q \in Operations : q # o => pc'[q] = pc[q]
         /\ daemon = "free"
  <1> USE DEF IInv, Goto, daemonVars
  <1>1. pc'[o] = to /\ \A q \in Operations : q # o => pc'[q] = pc[q]
    BY DEF TypeOK
  <1>2. LeaseCount'
    BY <1>1, CountKept
  <1>3. activeOperations > 0
    BY BusyHasLease
  <1>4. daemon = "free"
    BY <1>3 DEF FinalizeInv, TypeOK
  <1>5. QED
    BY <1>1, <1>2, <1>4 DEF TypeOK, FinalizeInv

\* An operation looks at the state, waits for READY, is resumed or cancelled.
LEMMA WaitStep ==
  ASSUME IInv, NEW o \in Operations,
         \/ CheckReady(o) \/ RegisterObserver(o) \/ RecheckReady(o) \/ Resume(o)
         \/ Cancel(o) \/ CheckIfReady(o)
  PROVE  IInv'
  <1> DEFINE from == pc[o]
             to == pc'[o]
  <1>1. /\ from \in {"check", "register", "recheck", "suspended", "ifcheck"}
        /\ to \in {"between", "register", "recheck", "suspended", "releasing"}
        /\ Goto(o, from, to)
        /\ UNCHANGED <<daemonVars, kind, engineVars, tips>>
        /\ observers' \in {observers, observers \cup {o}, observers \ {o}}
    BY DEF IInv, TypeOK, CheckReady, RegisterObserver, RecheckReady, Resume, Cancel,
           CheckIfReady, Goto
  <1> HIDE DEF from, to
  <1>2. /\ LeaseCount' /\ FinalizeInv'
        /\ pc' \in [Operations -> OperationStep]
        /\ \A q \in Operations : q # o => pc'[q] = pc[q]
        /\ daemon = "free"
    BY <1>1, MoveStep DEF OperationStep
  <1>3. QueueInv'
    BY <1>1, <1>2, QueueKept DEF IInv, engineVars, from
  <1>4. TypeOK' /\ PhaseInv' /\ SkipInv' /\ HoldersHaveEngine'
    BY <1>1, <1>2 DEF IInv, TypeOK, PhaseInv, SkipInv, HoldersHaveEngine, engineVars, daemonVars
  <1>5. ResumeInv'
    BY <1>1, <1>2 DEF IInv, ResumeInv, CheckReady, RegisterObserver, RecheckReady,
       Resume, Cancel, CheckIfReady, Goto, engineVars, TypeOK
  <1>6. LeaseKeepsDispatcher'
    <2>1. to = "between" => lifecycle = "READY"
      BY <1>1 DEF IInv, ResumeInv, CheckReady, RegisterObserver, RecheckReady, Resume,
         Cancel, CheckIfReady, Goto, TypeOK, to
    <2>2. lifecycle = "READY" => isRunning
      BY DEF IInv, PhaseInv
    <2>3. QED
      BY <1>1, <1>2, <2>1, <2>2 DEF IInv, LeaseKeepsDispatcher, Admitted, engineVars, to
  <1>7. NoLostWakeup'
    BY <1>1, <1>2 DEF IInv, NoLostWakeup, CheckReady, RegisterObserver, RecheckReady,
       Resume, Cancel, CheckIfReady, Goto, engineVars, TypeOK
  <1>8. QED
    BY <1>2, <1>3, <1>4, <1>5, <1>6, <1>7 DEF IInv

\* A call passes dispatch's check or is refused; the block returns.
LEMMA BlockStep ==
  ASSUME IInv, NEW o \in Operations, CallApi(o) \/ FinishBlock(o)
  PROVE  IInv'
  <1> DEFINE to == pc'[o]
  <1>1. /\ to \in {"dispatch", "releasing"}
        /\ to = "dispatch" => isRunning
        /\ Goto(o, "between", to)
        /\ UNCHANGED <<daemonVars, kind, engineVars, tips, observers>>
    BY DEF IInv, TypeOK, CallApi, FinishBlock, Goto
  <1> HIDE DEF to
  <1>2. /\ LeaseCount' /\ FinalizeInv'
        /\ pc' \in [Operations -> OperationStep]
        /\ pc'[o] = to
        /\ \A q \in Operations : q # o => pc'[q] = pc[q]
    BY <1>1, MoveStep DEF OperationStep
  <1>3. QueueInv'
    BY <1>1, <1>2, QueueKept DEF IInv, engineVars, Goto
  <1>4. TypeOK' /\ PhaseInv' /\ SkipInv' /\ HoldersHaveEngine'
    BY <1>1, <1>2 DEF IInv, TypeOK, PhaseInv, SkipInv, HoldersHaveEngine, engineVars, daemonVars
  <1>5. ResumeInv' /\ LeaseKeepsDispatcher' /\ NoLostWakeup'
    BY <1>1, <1>2 DEF IInv, ResumeInv, LeaseKeepsDispatcher, NoLostWakeup, Admitted,
       engineVars
  <1>6. QED
    BY <1>2, <1>3, <1>4, <1>5 DEF IInv

LEMMA OfferJobStep ==
  ASSUME IInv, NEW o \in Operations, OfferJob(o)
  PROVE  IInv'
  <1>1. Goto(o, "dispatch", "queued") /\ UNCHANGED <<daemonVars, kind>>
    BY DEF OfferJob
  <1>2. /\ LeaseCount' /\ FinalizeInv'
        /\ pc' \in [Operations -> OperationStep]
        /\ pc'[o] = "queued"
        /\ \A q \in Operations : q # o => pc'[q] = pc[q]
        /\ daemon = "free"
    BY <1>1, MoveStep DEF OperationStep
  <1>3. TypeOK'
    <2>1. queue' \in Seq(Operations \cup {Empty})
      BY DEF OfferJob, IInv, TypeOK
    <2>2. QED
      BY <1>2, <2>1 DEF OfferJob, IInv, TypeOK, daemonVars
  <1>4. QueueInv'
    BY <1>3, OfferKeepsQueue DEF IInv
  <1>5. PhaseInv' /\ SkipInv' /\ HoldersHaveEngine'
    <2>1. isRunning
      BY <1>1 DEF IInv, LeaseKeepsDispatcher, Admitted, Goto
    <2>2. QED
      BY <1>1, <1>2, <2>1 DEF OfferJob, IInv, PhaseInv, SkipInv, HoldersHaveEngine,
         daemonVars
  <1>6. ResumeInv' /\ LeaseKeepsDispatcher' /\ NoLostWakeup'
    BY <1>1, <1>2 DEF OfferJob, IInv, ResumeInv, LeaseKeepsDispatcher, NoLostWakeup,
       Admitted, Goto
  <1>7. QED
    BY <1>2, <1>3, <1>4, <1>5, <1>6 DEF IInv

-----------------------------------------------------------------------------

THEOREM NextIInv == IInv /\ [Next]_vars => IInv'
  <1> SUFFICES ASSUME IInv, [Next]_vars PROVE IInv'
    OBVIOUS
  <1>1. CASE RimeMain
    BY <1>1, EngineStep, RunNextJobStep DEF RimeMain
  <1>2. CASE Stopper
    BY <1>2, EngineStep, OfferEmptyStep, DrainQueueStep DEF Stopper
  <1>3. CASE ShowTips
    BY <1>3, EngineStep
  <1>4. CASE \E c \in Clients : CreateSession(c) \/ DestroySession(c)
    BY <1>4, CreateSessionStep, DestroySessionStep
  <1>5. CASE \E o \in Operations : \E k \in Kind : AcquireOperation(o, k)
    BY <1>5, AcquireStep
  <1>6. CASE \E o \in Operations : Progress(o) \/ CallApi(o) \/ FinishBlock(o) \/ Cancel(o)
    BY <1>6, WaitStep, BlockStep, OfferJobStep, ReleaseStep DEF Progress
  <1>7. CASE UNCHANGED vars
    <2>1. QueueInv' /\ LeaseCount'
      BY <1>7 DEF IInv, QueueInv, LeaseCount, Busy, vars
    <2>2. QED
      BY <1>7, <2>1 DEF IInv, vars, TypeOK, PhaseInv, FinalizeInv, ResumeInv,
         SkipInv, HoldersHaveEngine, LeaseKeepsDispatcher, NoLostWakeup, Admitted
  <1>8. QED
    BY <1>1, <1>2, <1>3, <1>4, <1>5, <1>6, <1>7 DEF Next

THEOREM AlwaysIInv == Spec => []IInv
  BY InitIInv, NextIInv, PTL DEF Spec

\* Type correctness.
THEOREM TypeCorrect == Spec => []TypeOK
  <1>1. IInv => TypeOK
    BY DEF IInv
  <1>2. QED
    BY <1>1, AlwaysIInv, PTL

\* For any clients and operations: whoever is connected or holds a lease has an
\* engine that is up or coming up, or one that startup left alone for want of
\* storage (createSession, destroySession, releaseOperation).
THEOREM HoldersEngine == Spec => []HoldersHaveEngine
  <1>1. IInv => HoldersHaveEngine
    BY DEF IInv
  <1>2. QED
    BY <1>1, AlwaysIInv, PTL

\* For any clients and operations: an operation that was let in never meets a
\* dispatcher that is not running (RimeOperationLease, RimeDispatcher.dispatch).
THEOREM DispatcherKept == Spec => []LeaseKeepsDispatcher
  <1>1. IInv => LeaseKeepsDispatcher
    BY DEF IInv
  <1>2. QED
    BY <1>1, AlwaysIInv, PTL

\* For any clients and operations: RimeDispatcher.stop drops no operation's job.
THEOREM JobsKept == Spec => []NoJobDropped
  <1>1. IInv => NoJobDropped
    BY NoLeaseAllIdle DEF IInv, NoJobDropped, FinalizeInv
  <1>2. QED
    BY <1>1, AlwaysIInv, PTL

\* For any number of operations: awaitState loses no wake-up.
THEOREM WakeupsKept == Spec => []NoLostWakeup
  <1>1. IInv => NoLostWakeup
    BY DEF IInv
  <1>2. QED
    BY <1>1, AlwaysIInv, PTL

-----------------------------------------------------------------------------
(* RimeEngine implements EngineLease. *)

LEMMA InitLease == Init => Lease!Init
  BY DEF Init, Lease!Init, Busy

\* Steps on which neither READY, nor the sessions, nor Busy change.
LEMMA LeaseStutter ==
  ASSUME (lifecycle' = "READY") <=> (lifecycle = "READY"), sessions' = sessions,
         \A o \in Operations : (pc'[o] = "idle") <=> (pc[o] = "idle")
  PROVE  UNCHANGED Lease!vars
  <1>1. Busy' = Busy
    BY DEF Busy
  <1>2. QED
    BY <1>1 DEF Lease!vars

LEMMA StepLease == IInv /\ [Next]_vars => [Lease!Next]_(Lease!vars)
  <1> SUFFICES ASSUME IInv, [Next]_vars PROVE [Lease!Next]_(Lease!vars)
    OBVIOUS
  <1>1. CASE EmitReady
    <2>1. Lease!SwitchOn
      BY <1>1 DEF EmitReady, daemonVars, Lease!SwitchOn, Busy
    <2>2. QED
      BY <2>1 DEF Lease!Next
  <1>2. CASE RimeMain /\ ~EmitReady
    <2>1. CASE RunNextJob
      <3>1. Head(queue) \in Operations => pc[Head(queue)] = "queued"
        BY <2>1, TakeKeepsQueue DEF IInv
      <3>2. \A o \in Operations : (pc'[o] = "idle") <=> (pc[o] = "idle")
        BY <2>1, <3>1 DEF RunNextJob, IInv, TypeOK
      <3>3. QED
        BY <2>1, <3>2, LeaseStutter DEF RunNextJob, daemonVars
    <2>2. QED
      BY <1>2, <2>1, LeaseStutter DEF RimeMain, EnterLoop, StartRime, NotifyReady,
         CheckRunning, ExitRime, daemonVars
  <1>3. CASE Stopper
    BY <1>3, LeaseStutter DEF Stopper, StopDispatcher, OfferEmpty, DrainQueue,
       EmitStopped, IInv, PhaseInv
  <1>4. CASE ShowTips
    BY <1>4, LeaseStutter DEF ShowTips, engineVars, daemonVars
  <1>5. ASSUME NEW c \in Clients, CreateSession(c) PROVE Lease!Connect(c)
    BY <1>5 DEF CreateSession, Startup, Lease!Connect, Busy
  <1>6. ASSUME NEW c \in Clients, DestroySession(c) PROVE Lease!Disconnect(c)
    <2>1. Busy' = Busy
      BY <1>6 DEF DestroySession, Busy
    <2>2. activeOperations = 0 => Busy = {}
      BY NoLeaseAllIdle DEF IInv, Busy
    <2>3. QED
      BY <1>6, <2>1, <2>2 DEF DestroySession, Finalize, CanFinalize, Lease!Disconnect
  <1>7. ASSUME NEW o \in Operations, NEW k \in Kind, AcquireOperation(o, k)
        PROVE  Lease!Begin(o)
    <2>1. Busy' = Busy \cup {o} /\ o \notin Busy
      BY <1>7 DEF AcquireOperation, Busy, FirstStep, Kind, IInv, TypeOK
    <2>2. QED
      BY <1>7, <2>1 DEF AcquireOperation, engineVars, Lease!Begin
  <1>8. ASSUME NEW o \in Operations, ReleaseOperation(o) PROVE Lease!End(o)
    <2>1. Busy' = Busy \ {o} /\ o \in Busy
      BY <1>8 DEF ReleaseOperation, Busy, IInv, TypeOK
    <2>2. TypeOK' /\ LeaseCount'
      BY <1>8, ReleaseStep DEF IInv
    <2>3. activeOperations' = 0 => Busy' = {}
      BY <2>2, BusyFinite, FS_EmptySet, FS_Subset, ConstantsAssumption
         DEF LeaseCount, Busy
    <2>4. QED
      BY <1>8, <2>1, <2>3 DEF ReleaseOperation, Finalize, CanFinalize, Lease!End
  <1>9. ASSUME NEW o \in Operations,
               (Progress(o) /\ ~ReleaseOperation(o)) \/ CallApi(o) \/ FinishBlock(o) \/ Cancel(o)
        PROVE  UNCHANGED Lease!vars
    BY <1>9, LeaseStutter DEF Progress, CheckReady, RegisterObserver, RecheckReady,
       Resume, CheckIfReady, OfferJob, CallApi, FinishBlock, Cancel, Goto, engineVars,
       daemonVars, IInv, TypeOK
  <1>10. CASE UNCHANGED vars
    BY <1>10, LeaseStutter DEF vars
  <1>11. QED
    BY <1>1, <1>2, <1>3, <1>4, <1>5, <1>6, <1>7, <1>8, <1>9, <1>10
       DEF Next, Progress, Lease!Next

\* For any clients and operations: the threads, the queue and the lock add up to
\* an engine that is switched off only without clients and operations.
THEOREM EngineImplementsLease == Spec => ImplementsLease
  BY InitLease, StepLease, AlwaysIInv, PTL DEF Spec, ImplementsLease, Lease!Spec
=============================================================================
