------------------------- MODULE SuggestionFlowProofs -------------------------
(***************************************************************************)
(* Proofs of the safety properties of SuggestionFlow, for any              *)
(* applications, conversations, contexts and number of overlapping         *)
(* requests.                                                               *)
(*                                                                         *)
(* The functions of the input method call each other, so the inductive     *)
(* invariant is stated of a main-thread state m and in two parts.  Backed  *)
(* holds between any two calls, its part Sound even between the store's    *)
(* write and the collector's reaction.  Chained ties the store to the      *)
(* active package and that to the editor; onStartInputView breaks it when  *)
(* the editor changes and updateLangouCaptureState restores it.            *)
(***************************************************************************)
EXTENDS SuggestionFlow, TLAPS

LiveIsCurrent(m) ==
  \A s \in Slots : IsActive(m, s) => m.current = s \/ m.jobs[s].astray

RequestsHaveSubject(m) ==
  \A s \in Slots : m.jobs[s].step \in {"loading", "requesting"} =>
    /\ m.jobs[s].subject \in Fingerprint
    /\ m.jobs[s].subject.app = m.jobs[s].app

LiveHasSnapshot(m) ==
  \A s \in Slots : IsActive(m, s) /\ m.jobs[s].step # "waiting"
                   /\ ~m.jobs[s].astray =>
    m.store # None /\ m.store.app = m.jobs[s].app

BarHasSnapshot(m) ==
  m.bar = "suggestions" =>
    /\ m.barOf \in Fingerprint
    /\ ~m.barAstray => m.store # None /\ m.store.app = m.barOf.app

PendingOwned(m) ==
  m.pending # None =>
    \E s \in Slots : /\ m.jobs[s].step = "requesting"
                     /\ m.jobs[s].subject = m.pending

Sound(m) ==
  /\ m \in Ime
  /\ LiveIsCurrent(m)
  /\ RequestsHaveSubject(m)
  /\ PendingOwned(m)

Backed(m) == Sound(m) /\ LiveHasSnapshot(m) /\ BarHasSnapshot(m)

StoreIsActive(m) == m.store # None => m.active = m.store.app

ActiveIsEditor(m) ==
  m.active # None => m.editor = [app |-> m.active, field |-> "chat"]

Chained(m) == StoreIsActive(m) /\ ActiveIsEditor(m)

IInv == Backed(ime) /\ Chained(ime)

\* No live request but those that went astray.
Quiet(m) == \A s \in Slots : IsActive(m, s) => m.jobs[s].astray

-----------------------------------------------------------------------------
(* The parts of a main-thread state and their types. *)

(* No member of a slot's or a record's type is None. *)
LEMMA NoneIsNone ==
  /\ None \notin Slots
  /\ None \notin Apps
  /\ None \notin Snapshot
  /\ None \notin Fingerprint
BY ConstantsAssumption

(* A slot without a coroutine is typed like any other. *)
LEMMA NoJobTyped == NoJob \in Job
BY ConstantsAssumption DEF NoJob, Job, Trigger

-----------------------------------------------------------------------------
(* The bar. *)

(* Showing anything but suggestions leaves nothing on the bar to back. *)
LEMMA ShowSound ==
  ASSUME NEW m, Sound(m), NEW what \in Bar, what # "suggestions"
  PROVE  /\ Sound(Show(m, what))
         /\ BarHasSnapshot(Show(m, what))
         /\ LiveHasSnapshot(m) => LiveHasSnapshot(Show(m, what))
         /\ \A s : IsActive(Show(m, what), s) <=> IsActive(m, s)
         /\ Show(m, what).jobs = m.jobs /\ Show(m, what).current = m.current
         /\ FreeSlots(Show(m, what)) = FreeSlots(m)
         /\ Show(m, what).editor = m.editor
         /\ Show(m, what).active = m.active
         /\ Show(m, what).store = m.store
<1> DEFINE n == Show(m, what)
<1>1. m \in Ime
  BY DEF Sound
<1>2. n \in Ime
  BY <1>1 DEF Show, Ime
<1>3. /\ n.jobs = m.jobs /\ n.current = m.current /\ n.store = m.store
      /\ n.pending = m.pending /\ n.bar = what
      /\ n.editor = m.editor /\ n.active = m.active
  BY <1>1 DEF Show, Ime
<1>4. \A s : IsActive(n, s) <=> IsActive(m, s)
  BY <1>3 DEF IsActive
<1>5. FreeSlots(n) = FreeSlots(m)
  BY <1>3 DEF FreeSlots
<1>6. Sound(n)
  BY <1>2, <1>3, <1>4 DEF Sound, LiveIsCurrent, RequestsHaveSubject, PendingOwned
<1>7. BarHasSnapshot(n) /\ (LiveHasSnapshot(m) => LiveHasSnapshot(n))
  BY <1>3, <1>4 DEF LiveHasSnapshot, BarHasSnapshot
<1> QED
  BY <1>3, <1>4, <1>5, <1>6, <1>7

(* Cancelling leaves no live request and touches nothing but the jobs. *)
LEMMA CancelSound ==
  ASSUME NEW m, Sound(m)
  PROVE  /\ Sound(CancelCurrent(m))
         /\ Quiet(CancelCurrent(m)) /\ ~CurrentIsActive(CancelCurrent(m))
         /\ FreeSlots(m) \subseteq FreeSlots(CancelCurrent(m))
         /\ CancelCurrent(m).editor = m.editor
         /\ CancelCurrent(m).active = m.active
         /\ CancelCurrent(m).store = m.store
         /\ CancelCurrent(m).bar = m.bar
         /\ CancelCurrent(m).barOf = m.barOf
         /\ CancelCurrent(m).barAstray = m.barAstray
<1> DEFINE n == CancelCurrent(m)
           c == m.current
<1>1. m \in Ime /\ m.jobs \in [Slots -> Job] /\ c \in Slots \cup {None}
  BY DEF Sound, Ime
<1>2. CASE ~CurrentIsActive(m)
  <2>1. n = m
    BY <1>2 DEF CancelCurrent
  <2>2. Quiet(m)
    BY <1>2, NoneIsNone DEF Quiet, CurrentIsActive, Sound, LiveIsCurrent
  <2> QED
    BY <1>2, <2>1, <2>2
<1>3. CASE CurrentIsActive(m) /\ m.jobs[c].step = "requesting"
  <2>1. c \in Slots
    BY <1>1, <1>3 DEF CurrentIsActive
  <2>2. n = [m EXCEPT !.jobs = [m.jobs EXCEPT ![c] = [m.jobs[c] EXCEPT !.cancelled = TRUE]]]
    BY <1>3 DEF CancelCurrent
  <2>3. /\ n \in Ime
        /\ n.jobs = [m.jobs EXCEPT ![c] = [m.jobs[c] EXCEPT !.cancelled = TRUE]]
        /\ n.current = c /\ n.store = m.store /\ n.pending = m.pending
        /\ n.bar = m.bar /\ n.barOf = m.barOf /\ n.barAstray = m.barAstray
        /\ n.editor = m.editor /\ n.active = m.active
    <3>1. [m.jobs[c] EXCEPT !.cancelled = TRUE] \in Job
      BY <1>1, <2>1 DEF Job
    <3>2. [m.jobs EXCEPT ![c] = [m.jobs[c] EXCEPT !.cancelled = TRUE]] \in [Slots -> Job]
      BY <1>1, <3>1
    <3> QED
      BY <1>1, <2>2, <3>2 DEF Ime
  <2>4. \A s \in Slots : /\ n.jobs[s].step = m.jobs[s].step
                         /\ n.jobs[s].subject = m.jobs[s].subject
                         /\ n.jobs[s].app = m.jobs[s].app
                         /\ n.jobs[s].astray = m.jobs[s].astray
                         /\ s # c => n.jobs[s] = m.jobs[s]
    <3> SUFFICES ASSUME NEW s \in Slots
                 PROVE  /\ n.jobs[s].step = m.jobs[s].step
                        /\ n.jobs[s].subject = m.jobs[s].subject
                        /\ n.jobs[s].app = m.jobs[s].app
                        /\ n.jobs[s].astray = m.jobs[s].astray
                        /\ s # c => n.jobs[s] = m.jobs[s]
      OBVIOUS
    <3>1. CASE s = c
      BY <1>1, <2>1, <2>3, <3>1 DEF Job
    <3>2. CASE s # c
      BY <1>1, <2>1, <2>3, <3>2
    <3> QED
      BY <3>1, <3>2
  <2>9. n.jobs[c].cancelled
    BY <1>1, <2>1, <2>3 DEF Job
  <2>5. Quiet(n)
    BY <2>4, <2>1, <2>9 DEF Quiet, IsActive, Sound, LiveIsCurrent
  <2>6. FreeSlots(n) = FreeSlots(m)
    BY <2>4 DEF FreeSlots
  <2>7. Sound(n)
    BY <2>3, <2>4, <2>5 DEF Sound, Quiet, LiveIsCurrent, RequestsHaveSubject,
       PendingOwned
  <2>8. ~CurrentIsActive(n)
    BY <2>3, <2>9 DEF CurrentIsActive, IsActive
  <2> QED
    BY <2>3, <2>5, <2>6, <2>7, <2>8
<1>4. CASE CurrentIsActive(m) /\ m.jobs[c].step # "requesting"
  <2>1. c \in Slots
    BY <1>1, <1>4 DEF CurrentIsActive
  <2>2. n = [m EXCEPT !.jobs = [m.jobs EXCEPT ![c] = NoJob]]
    BY <1>4 DEF CancelCurrent
  <2>3. /\ n \in Ime
        /\ n.jobs = [m.jobs EXCEPT ![c] = NoJob]
        /\ n.current = c /\ n.store = m.store /\ n.pending = m.pending
        /\ n.bar = m.bar /\ n.barOf = m.barOf /\ n.barAstray = m.barAstray
        /\ n.editor = m.editor /\ n.active = m.active
    <3>1. [m.jobs EXCEPT ![c] = NoJob] \in [Slots -> Job]
      BY <1>1, NoJobTyped
    <3> QED
      BY <1>1, <2>2, <3>1 DEF Ime
  <2>4. \A s \in Slots : n.jobs[s] = IF s = c THEN NoJob ELSE m.jobs[s]
    BY <1>1, <2>1, <2>3
  <2>5. NoJob.step = "none"
    BY DEF NoJob
  <2>6. Quiet(n)
    BY <2>4, <2>5 DEF Quiet, IsActive, Sound, LiveIsCurrent
  <2>7. FreeSlots(m) \subseteq FreeSlots(n)
    BY <2>4, <2>5 DEF FreeSlots
  <2>8. \A s \in Slots : m.jobs[s].step = "requesting" => n.jobs[s] = m.jobs[s]
    BY <2>4, <1>4
  <2>9. PendingOwned(n)
    BY <2>8, <2>3 DEF Sound, PendingOwned
  <2>10. Sound(n)
    BY <2>3, <2>4, <2>5, <2>6, <2>9 DEF Sound, Quiet, LiveIsCurrent,
       RequestsHaveSubject
  <2>11. ~CurrentIsActive(n)
    BY <2>1, <2>3, <2>4, <2>5 DEF CurrentIsActive, IsActive
  <2> QED
    BY <2>3, <2>6, <2>7, <2>10, <2>11
<1> QED
  BY <1>2, <1>3, <1>4
(* A state without a live request is backed when its bar is. *)
LEMMA QuietBacked ==
  ASSUME NEW m, Sound(m), Quiet(m), BarHasSnapshot(m)
  PROVE  Backed(m)
BY DEF Backed, Quiet, LiveHasSnapshot

-----------------------------------------------------------------------------
(* The store and the active package. *)

(* Clearing the store ends what was built on the snapshot. *)
LEMMA ClearBacked ==
  ASSUME NEW m, Backed(m)
  PROVE  /\ Backed(Clear(m))
         /\ Clear(m).store = None
         /\ Clear(m).editor = m.editor
         /\ Clear(m).active = m.active
         /\ FreeSlots(m) \subseteq FreeSlots(Clear(m))
         /\ Quiet(m) => Quiet(Clear(m))
<1>1. CASE m.store = None
  BY <1>1 DEF Clear
<1>2. CASE m.store # None
  <2> DEFINE k == [m EXCEPT !.store = None]
             c == CancelCurrent(k)
  <2>1. Sound(m) /\ m \in Ime
    BY DEF Backed, Sound
  <2>2. /\ k \in Ime
        /\ k.jobs = m.jobs /\ k.current = m.current /\ k.pending = m.pending
        /\ k.store = None /\ k.editor = m.editor /\ k.active = m.active
    BY <2>1 DEF Ime
  <2>3. Sound(k) /\ FreeSlots(k) = FreeSlots(m)
    BY <2>1, <2>2 DEF Sound, LiveIsCurrent, RequestsHaveSubject, PendingOwned,
       IsActive, FreeSlots
  <2>4. /\ Sound(c) /\ Quiet(c) /\ FreeSlots(k) \subseteq FreeSlots(c)
        /\ c.store = None /\ c.editor = m.editor /\ c.active = m.active
    BY <2>2, <2>3, CancelSound
  <2>5. Clear(m) = Show(c, "nothing")
    BY <1>2 DEF Clear, Dismiss
  <2>6. /\ Sound(Clear(m)) /\ BarHasSnapshot(Clear(m))
        /\ Clear(m).store = None
        /\ Clear(m).editor = m.editor /\ Clear(m).active = m.active
        /\ FreeSlots(Clear(m)) = FreeSlots(c)
        /\ Clear(m).jobs = c.jobs
        /\ \A s : IsActive(Clear(m), s) <=> IsActive(c, s)
    BY <2>4, <2>5, ShowSound DEF Bar
  <2>7. Quiet(Clear(m))
    BY <2>4, <2>6 DEF Quiet
  <2> QED
    BY <2>3, <2>4, <2>6, <2>7, QuietBacked
<1> QED
  BY <1>1, <1>2

(* The active package is nothing that Backed looks at. *)
LEMMA ActiveBacked ==
  ASSUME NEW m, Backed(m), NEW app \in Apps \cup {None}
  PROVE  LET n == [m EXCEPT !.active = app]
         IN /\ Backed(n)
            /\ n.active = app
            /\ n.editor = m.editor
            /\ n.store = m.store
            /\ FreeSlots(n) = FreeSlots(m)
            /\ Quiet(m) => Quiet(n)
<1> DEFINE n == [m EXCEPT !.active = app]
<1>1. m \in Ime
  BY DEF Backed, Sound
<1>2. /\ n \in Ime
      /\ n.jobs = m.jobs /\ n.current = m.current /\ n.pending = m.pending
      /\ n.store = m.store /\ n.editor = m.editor /\ n.active = app
      /\ n.bar = m.bar /\ n.barOf = m.barOf /\ n.barAstray = m.barAstray
  BY <1>1 DEF Ime
<1>3. Backed(n)
  BY <1>2 DEF Backed, Sound, LiveIsCurrent, RequestsHaveSubject, PendingOwned,
     LiveHasSnapshot, BarHasSnapshot, IsActive
<1> QED
  BY <1>2, <1>3 DEF FreeSlots, Quiet, IsActive

(* ContextCaptureState.deactivate. *)
LEMMA DeactivateBacked ==
  ASSUME NEW m, Backed(m)
  PROVE  /\ Backed(Deactivate(m))
         /\ Deactivate(m).store = None
         /\ Deactivate(m).active = None
         /\ Deactivate(m).editor = m.editor
         /\ FreeSlots(m) \subseteq FreeSlots(Deactivate(m))
         /\ Quiet(m) => Quiet(Deactivate(m))
<1> DEFINE n == [m EXCEPT !.active = None]
<1>1. /\ Backed(n) /\ n.active = None /\ n.editor = m.editor
      /\ FreeSlots(n) = FreeSlots(m)
      /\ Quiet(m) => Quiet(n)
  BY ActiveBacked
<1>2. Deactivate(m) = Clear(n)
  BY DEF Deactivate
<1> HIDE DEF n
<1> QED
  BY <1>1, <1>2, ClearBacked

(* ContextCaptureState.activate; a new package starts without a snapshot. *)
LEMMA ActivateBacked ==
  ASSUME NEW m, Backed(m), StoreIsActive(m), NEW app \in Apps
  PROVE  /\ Backed(Activate(m, app))
         /\ StoreIsActive(Activate(m, app))
         /\ Activate(m, app).active = app
         /\ Activate(m, app).editor = m.editor
         /\ FreeSlots(m) \subseteq FreeSlots(Activate(m, app))
<1>1. CASE m.active = app
  BY <1>1 DEF Activate
<1>2. CASE m.active # app
  BY <1>2, ClearBacked, ActiveBacked DEF Activate, StoreIsActive
<1> QED
  BY <1>1, <1>2

(* updateLangouCaptureState ties the store to the editor again. *)
LEMMA UpdateCaptureStateBacked ==
  ASSUME NEW m, Backed(m), StoreIsActive(m)
  PROVE  /\ Backed(UpdateCaptureState(m))
         /\ Chained(UpdateCaptureState(m))
         /\ UpdateCaptureState(m).editor = m.editor
         /\ FreeSlots(m) \subseteq FreeSlots(UpdateCaptureState(m))
<1> DEFINE n == UpdateCaptureState(m)
<1>1. m.editor \in Editor
  BY DEF Backed, Sound, Ime
<1>2. CASE m.editor.field = "chat"
  <2>1. m.editor.app \in Apps /\ m.editor = [app |-> m.editor.app, field |-> "chat"]
    BY <1>1, <1>2 DEF Editor, NoEditor
  <2>2. n = Activate(m, m.editor.app)
    BY <1>2 DEF UpdateCaptureState
  <2> QED
    BY <2>1, <2>2, ActivateBacked DEF Chained, ActiveIsEditor
<1>3. CASE m.editor.field # "chat"
  BY <1>3, DeactivateBacked DEF UpdateCaptureState, Chained, StoreIsActive,
     ActiveIsEditor
<1> QED
  BY <1>2, <1>3

-----------------------------------------------------------------------------
(* scheduleLangouSuggestions. *)

(* What a request job's slot may become without unbacking the state. *)
LEMMA AdvancedBacked ==
  ASSUME NEW m, Backed(m), NEW s \in Slots, NEW j \in Job,
         m.jobs[s].step # "none", j.step # "none",
         j.app = m.jobs[s].app,
         m.jobs[s].cancelled => j.cancelled,
         m.jobs[s].astray => j.astray,
         m.jobs[s].step = "requesting" =>
           j.step = "requesting" /\ j.subject = m.jobs[s].subject,
         j.step \in {"loading", "requesting"} =>
           j.subject \in Fingerprint /\ j.subject.app = j.app,
         ~j.cancelled /\ ~j.astray /\ j.step # "waiting" =>
           m.store # None /\ m.store.app = j.app
  PROVE  Backed([m EXCEPT !.jobs = [m.jobs EXCEPT ![s] = j]])
<1> DEFINE n == [m EXCEPT !.jobs = [m.jobs EXCEPT ![s] = j]]
<1>1. m \in Ime /\ m.jobs \in [Slots -> Job]
  BY DEF Backed, Sound, Ime
<1>2. [m.jobs EXCEPT ![s] = j] \in [Slots -> Job]
  BY <1>1
<1>3. /\ n \in Ime
      /\ n.current = m.current /\ n.pending = m.pending
      /\ n.store = m.store /\ n.barAstray = m.barAstray
      /\ n.bar = m.bar /\ n.barOf = m.barOf
      /\ n.jobs = [m.jobs EXCEPT ![s] = j]
  BY <1>1, <1>2 DEF Ime
<1>4. n.jobs[s] = j /\ \A r \in Slots : r # s => n.jobs[r] = m.jobs[r]
  BY <1>1, <1>3
<1> HIDE DEF n
<1>5. LiveIsCurrent(n)
  <2> SUFFICES ASSUME NEW r \in Slots, IsActive(n, r)
               PROVE  n.current = r \/ n.jobs[r].astray
    BY DEF LiveIsCurrent
  <2>1. IsActive(m, r)
    BY <1>4 DEF IsActive
  <2> QED
    BY <1>3, <1>4, <2>1 DEF Backed, Sound, LiveIsCurrent
<1>6. RequestsHaveSubject(n)
  BY <1>4 DEF Backed, Sound, RequestsHaveSubject
<1>7. PendingOwned(n)
  BY <1>3, <1>4 DEF Backed, Sound, PendingOwned
<1>8. LiveHasSnapshot(n)
  BY <1>3, <1>4 DEF Backed, LiveHasSnapshot, IsActive
<1>9. BarHasSnapshot(n)
  BY <1>3 DEF Backed, BarHasSnapshot
<1>10. Backed(n)
  BY <1>3, <1>5, <1>6, <1>7, <1>8, <1>9 DEF Backed, Sound
<1> QED
  BY <1>10 DEF n

(* A launch on a quiet main thread makes the only live request. *)
LEMMA LaunchBacked ==
  ASSUME NEW m, Backed(m), Quiet(m), FreeSlots(m) # {}, m.editor.app \in Apps,
         NEW trigger \in Trigger
  PROVE  /\ Backed(Launch(m, trigger))
         /\ CurrentIsActive(Launch(m, trigger))
         /\ Launch(m, trigger).editor = m.editor
         /\ Launch(m, trigger).active = m.active
         /\ Launch(m, trigger).store = m.store
         /\ \A t \in FreeSlots(m) :
              t \in FreeSlots(Launch(m, trigger)) \/ t = Launch(m, trigger).current
<1> DEFINE s == CHOOSE r \in FreeSlots(m) : TRUE
           j == [NoJob EXCEPT !.step = "waiting", !.app = m.editor.app,
                              !.trigger = trigger]
           n == Launch(m, trigger)
<1>1. m \in Ime /\ m.jobs \in [Slots -> Job]
  BY DEF Backed, Sound, Ime
<1>2. s \in FreeSlots(m)
  OBVIOUS
<1>3. s \in Slots /\ m.jobs[s].step = "none"
  BY <1>2 DEF FreeSlots
<1>4. j \in Job /\ j.step = "waiting" /\ ~j.cancelled
  BY NoJobTyped DEF NoJob, Job, Trigger
<1>5. n = [m EXCEPT !.current = s, !.jobs = [m.jobs EXCEPT ![s] = j]]
  BY DEF Launch
<1> HIDE DEF s, j
<1>6. [m.jobs EXCEPT ![s] = j] \in [Slots -> Job]
  BY <1>1, <1>4
<1>7. /\ n \in Ime
      /\ n.current = s /\ n.pending = m.pending
      /\ n.store = m.store /\ n.barAstray = m.barAstray
      /\ n.bar = m.bar /\ n.barOf = m.barOf
      /\ n.editor = m.editor /\ n.active = m.active
      /\ n.jobs = [m.jobs EXCEPT ![s] = j]
  BY <1>1, <1>3, <1>5, <1>6 DEF Ime
<1>8. n.jobs[s] = j /\ \A r \in Slots : r # s => n.jobs[r] = m.jobs[r]
  BY <1>1, <1>3, <1>7
<1> HIDE DEF n
<1>9. IsActive(n, s) /\ \A r \in Slots : IsActive(n, r) => r = s \/ n.jobs[r].astray
  BY <1>4, <1>8 DEF Quiet, IsActive
<1>10. LiveIsCurrent(n) /\ LiveHasSnapshot(n)
  BY <1>4, <1>7, <1>8, <1>9 DEF LiveIsCurrent, LiveHasSnapshot
<1>11. RequestsHaveSubject(n)
  BY <1>4, <1>8 DEF Backed, Sound, RequestsHaveSubject
<1>12. PendingOwned(n)
  BY <1>3, <1>7, <1>8 DEF Backed, Sound, PendingOwned
<1>13. BarHasSnapshot(n)
  BY <1>7 DEF Backed, BarHasSnapshot
<1>14. Backed(n)
  BY <1>7, <1>10, <1>11, <1>12, <1>13 DEF Backed, Sound
<1>15. CurrentIsActive(n)
  BY <1>3, <1>7, <1>9, NoneIsNone DEF CurrentIsActive
<1>16. n.editor = m.editor /\ n.active = m.active /\ n.store = m.store
  BY <1>7
<1>17. \A t \in FreeSlots(m) : t \in FreeSlots(n) \/ t = n.current
  BY <1>7, <1>8 DEF FreeSlots
<1> QED
  BY <1>14, <1>15, <1>16, <1>17 DEF n

(* A schedule either leaves the live request alone, or cancels it and then *)
(* gives up the context or launches the next one.                          *)
LEMMA ScheduleBacked ==
  ASSUME NEW m, Backed(m), Chained(m), NEW trigger \in Trigger,
         \/ FreeSlots(m) # {}
         \/ trigger = "ContextChange" /\ CurrentIsActive(m)
  PROVE  /\ Backed(Schedule(m, trigger))
         /\ Chained(Schedule(m, trigger))
         /\ \/ FreeSlots(Schedule(m, trigger)) # {}
            \/ CurrentIsActive(Schedule(m, trigger))
<1> DEFINE n == Schedule(m, trigger)
           c == CancelCurrent(m)
<1>1. CASE trigger = "ContextChange" /\ CurrentIsActive(m)
  BY <1>1 DEF Schedule
<1>2. CASE ~(trigger = "ContextChange" /\ CurrentIsActive(m))
  <2>1. /\ Sound(c) /\ Quiet(c) /\ FreeSlots(m) \subseteq FreeSlots(c)
        /\ c.editor = m.editor /\ c.active = m.active /\ c.store = m.store
        /\ c.bar = m.bar /\ c.barOf = m.barOf /\ c.barAstray = m.barAstray
    BY CancelSound DEF Backed
  <2>2. Backed(c) /\ Chained(c) /\ FreeSlots(c) # {}
    BY <1>2, <2>1, QuietBacked
       DEF Backed, BarHasSnapshot, Chained, StoreIsActive, ActiveIsEditor
  <2>3. c \in Ime /\ c.editor \in Editor
    BY <2>2 DEF Backed, Sound, Ime
  <2>4. n = CASE c.editor.field = "hidden" -> c
              [] c.editor.field = "refused" -> Dismiss(Deactivate(c))
              [] c.editor.field = "unpermitted" -> Show(Deactivate(c), "permission")
              [] c.editor.field = "chat" ->
                   Launch(IF Get(c, c.editor.app) = None
                            THEN ShowLoading(c, "contextLoading") ELSE c, trigger)
    BY <1>2 DEF Schedule
  <2>5. c.editor.field \in {"hidden", "refused", "unpermitted", "chat"}
    BY <2>3 DEF Editor, NoEditor
  <2> SUFFICES Backed(n) /\ Chained(n) /\ (FreeSlots(n) # {} \/ CurrentIsActive(n))
    OBVIOUS
  <2> HIDE DEF n, c
  <2>6. CASE c.editor.field = "hidden"
    BY <2>2, <2>4, <2>6
  <2>7. ASSUME NEW what \in Bar, what # "suggestions",
               n = Show(Deactivate(c), what)
        PROVE  Backed(n) /\ Chained(n) /\ FreeSlots(n) # {}
    <3> DEFINE d == Deactivate(c)
    <3>1. /\ Backed(d) /\ Quiet(d) /\ d.store = None /\ d.active = None
          /\ FreeSlots(c) \subseteq FreeSlots(d)
      BY <2>1, <2>2, DeactivateBacked
    <3> HIDE DEF d
    <3>2. n = Show(d, what)
      BY <2>7 DEF d
    <3>3. /\ Sound(n) /\ BarHasSnapshot(n) /\ LiveHasSnapshot(n)
          /\ FreeSlots(n) = FreeSlots(d) /\ n.store = None /\ n.active = None
      BY <3>1, <3>2, <2>7, ShowSound DEF Backed
    <3> QED
      BY <2>2, <3>1, <3>3 DEF Backed, Chained, StoreIsActive, ActiveIsEditor
  <2>8. CASE c.editor.field = "refused"
    <3>1. n = Show(Deactivate(c), "nothing")
      BY <2>4, <2>8 DEF Dismiss
    <3> QED
      BY <2>7, <3>1 DEF Bar
  <2>9. CASE c.editor.field = "unpermitted"
    <3>1. n = Show(Deactivate(c), "permission")
      BY <2>4, <2>9
    <3> QED
      BY <2>7, <3>1 DEF Bar
  <2>10. CASE c.editor.field = "chat"
    <3> DEFINE d == IF Get(c, c.editor.app) = None
                      THEN ShowLoading(c, "contextLoading") ELSE c
    <3>1. d = c \/ d = Show(c, "contextLoading")
      BY DEF ShowLoading
    <3>2. n = Launch(d, trigger)
      BY <2>4, <2>10
    <3> HIDE DEF d
    <3>3. /\ Backed(d) /\ Quiet(d) /\ FreeSlots(d) = FreeSlots(c)
          /\ d.editor = c.editor /\ d.active = c.active /\ d.store = c.store
      BY <2>1, <2>2, <3>1, ShowSound DEF Backed, Quiet, Bar
    <3>4. d.editor.app \in Apps
      BY <2>3, <2>10, <3>3 DEF Editor, NoEditor
    <3>5. /\ Backed(n) /\ CurrentIsActive(n) /\ n.editor = c.editor
          /\ n.active = c.active /\ n.store = c.store
      BY <2>2, <3>2, <3>3, <3>4, LaunchBacked
    <3> QED
      BY <2>2, <3>5 DEF Chained, StoreIsActive, ActiveIsEditor
  <2> QED
    BY <2>2, <2>5, <2>6, <2>8, <2>9, <2>10
<1> QED
  BY <1>1, <1>2

(* A capture for the active package keeps the chain, and may launch. *)
LEMMA UpdateBacked ==
  ASSUME NEW m, Backed(m), Chained(m), NEW snapshot \in Snapshot,
         m.active = snapshot.app, FreeSlots(m) # {}
  PROVE  /\ Backed(Update(m, snapshot))
         /\ Chained(Update(m, snapshot))
         /\ \/ FreeSlots(Update(m, snapshot)) # {}
            \/ CurrentIsActive(Update(m, snapshot))
<1> DEFINE n == [m EXCEPT !.store = snapshot]
<1>1. m \in Ime
  BY DEF Backed, Sound
<1>2. /\ n \in Ime
      /\ n.jobs = m.jobs /\ n.current = m.current /\ n.pending = m.pending
      /\ n.store = snapshot /\ n.editor = m.editor /\ n.active = m.active
      /\ n.bar = m.bar /\ n.barOf = m.barOf /\ n.barAstray = m.barAstray
  BY <1>1 DEF Ime
<1>3. Update(m, snapshot) = n \/ Update(m, snapshot) = Schedule(n, "ContextChange")
  BY DEF Update
<1> HIDE DEF n
<1>4. \A s : IsActive(n, s) <=> IsActive(m, s)
  BY <1>2 DEF IsActive
<1>5. FreeSlots(n) # {}
  BY <1>2 DEF FreeSlots
<1>6. Sound(n)
  BY <1>2, <1>4 DEF Backed, Sound, LiveIsCurrent, RequestsHaveSubject, PendingOwned
<1>7. n.store # None
  BY <1>2, NoneIsNone
<1>8. LiveHasSnapshot(n) /\ BarHasSnapshot(n)
  BY <1>2, <1>4, <1>7 DEF Backed, LiveHasSnapshot, BarHasSnapshot, Chained,
     StoreIsActive
<1>9. Backed(n) /\ Chained(n)
  BY <1>2, <1>6, <1>8 DEF Backed, Chained, StoreIsActive, ActiveIsEditor
<1> QED
  BY <1>3, <1>5, <1>9, ScheduleBacked DEF Trigger

(* A capture inside a schedule: the request the collector launches goes    *)
(* astray, and the outer one is the current one.                           *)
LEMMA AroundSteps ==
  ASSUME NEW m, Backed(m), Chained(m), NEW trigger \in Trigger,
         NEW captured \in Snapshot, CapturesInline(m, trigger, captured)
  PROVE  LET d == ShowLoading(CancelCurrent(m), "contextLoading")
             k == [d EXCEPT !.store = captured]
             u == Launch(k, "ContextChange")
         IN /\ Backed(k) /\ Chained(k) /\ k.jobs = CancelCurrent(m).jobs
            /\ Update(d, captured) = u
            /\ Backed(u) /\ Chained(u) /\ CurrentIsActive(u) /\ u.current \in Slots
            /\ u.editor = m.editor /\ u.editor.app \in Apps
            /\ FreeSlots(u) # {}
<1> DEFINE c == CancelCurrent(m)
           d == ShowLoading(c, "contextLoading")
           k == [d EXCEPT !.store = captured]
           u == Launch(k, "ContextChange")
<1>1. /\ Sound(c) /\ Quiet(c) /\ ~CurrentIsActive(c)
      /\ c.editor = m.editor /\ c.active = m.active /\ c.store = m.store
      /\ c.bar = m.bar /\ c.barOf = m.barOf /\ c.barAstray = m.barAstray
  BY CancelSound DEF Backed
<1>2. Backed(c) /\ Chained(c)
  BY <1>1, QuietBacked
     DEF Backed, BarHasSnapshot, Chained, StoreIsActive, ActiveIsEditor
<1>3. /\ m.editor = [app |-> captured.app, field |-> "chat"]
      /\ m.active = captured.app
      /\ captured.app \in Apps
      /\ Get(m, captured.app) = None
      /\ \E s, t \in FreeSlots(c) : s # t
  BY DEF CapturesInline, Snapshot
<1>4. m.store # captured
  BY <1>3, NoneIsNone DEF Get
<1>5. /\ Backed(d) /\ Chained(d) /\ Quiet(d) /\ FreeSlots(d) = FreeSlots(c)
      /\ d.jobs = c.jobs /\ ~CurrentIsActive(d)
      /\ d.editor = m.editor /\ d.active = m.active /\ d.store = m.store
  <2>1. d = c \/ d = Show(c, "contextLoading")
    BY DEF ShowLoading
  <2> HIDE DEF d, c
  <2> QED
    BY <1>1, <1>2, <2>1, ShowSound
       DEF Backed, Quiet, Bar, Chained, StoreIsActive, ActiveIsEditor,
           CurrentIsActive, IsActive
<1> HIDE DEF d, c
<1>6. /\ k \in Ime
      /\ k.jobs = d.jobs /\ k.current = d.current /\ k.pending = d.pending
      /\ k.store = captured /\ k.editor = d.editor /\ k.active = d.active
      /\ k.bar = d.bar /\ k.barOf = d.barOf /\ k.barAstray = d.barAstray
  BY <1>5 DEF Backed, Sound, Ime
<1> HIDE DEF k
<1>7. /\ \A s : IsActive(k, s) <=> IsActive(d, s)
      /\ FreeSlots(k) = FreeSlots(d)
      /\ k.store # None
  BY <1>6, NoneIsNone DEF IsActive, FreeSlots
<1>8. Backed(k) /\ Chained(k) /\ Quiet(k)
  <2>1. Sound(k) /\ Quiet(k)
    BY <1>5, <1>6, <1>7 DEF Backed, Sound, LiveIsCurrent, RequestsHaveSubject,
       PendingOwned, Quiet
  <2>2. LiveHasSnapshot(k) /\ BarHasSnapshot(k)
    BY <1>3, <1>5, <1>6, <1>7 DEF Backed, LiveHasSnapshot, BarHasSnapshot, Chained,
       StoreIsActive
  <2>3. Chained(k)
    BY <1>3, <1>5, <1>6 DEF Chained, StoreIsActive, ActiveIsEditor
  <2> QED
    BY <2>1, <2>2, <2>3 DEF Backed
<1>9. ~CurrentIsActive(k)
  BY <1>5, <1>6 DEF CurrentIsActive, IsActive
<1>10. Backed(u) /\ Chained(u) /\ CurrentIsActive(u) /\ u.editor = m.editor
       /\ FreeSlots(u) # {} /\ u.current \in Slots
  <2>1. /\ Backed(u) /\ CurrentIsActive(u) /\ u.editor = k.editor
        /\ u.active = k.active /\ u.store = k.store
        /\ \A t \in FreeSlots(k) : t \in FreeSlots(u) \/ t = u.current
    <3>1. FreeSlots(k) # {} /\ k.editor.app \in Apps
      BY <1>3, <1>5, <1>6, <1>7
    <3> QED
      BY <1>8, <3>1, LaunchBacked DEF Trigger
  <2>2. Chained(u)
    BY <1>8, <2>1 DEF Chained, StoreIsActive, ActiveIsEditor
  <2>3. u.current \in Slots
    BY <2>1 DEF Backed, Sound, Ime, CurrentIsActive
  <2>4. FreeSlots(u) # {}
    BY <1>3, <1>5, <1>7, <2>1
  <2> QED
    BY <1>5, <1>6, <2>1, <2>2, <2>3, <2>4
<1>11. Update(d, captured) = u
  <2>1. Update(d, captured) = Schedule(k, "ContextChange")
    BY <1>3, <1>4, <1>5, <1>6 DEF Update, k
  <2>2. CancelCurrent(k) = k
    BY <1>9 DEF CancelCurrent
  <2>3. k.editor.field = "chat" /\ Get(k, k.editor.app) # None
    BY <1>3, <1>5, <1>6, NoneIsNone DEF Get
  <2> QED
    BY <1>9, <2>1, <2>2, <2>3 DEF Schedule
<1> QED
  BY <1>3, <1>5, <1>6, <1>8, <1>10, <1>11 DEF k, d, c

LEMMA ScheduleAroundBacked ==
  ASSUME NEW m, Backed(m), Chained(m), NEW trigger \in Trigger,
         NEW captured \in Snapshot, CapturesInline(m, trigger, captured)
  PROVE  /\ Backed(ScheduleAround(m, trigger, captured))
         /\ Chained(ScheduleAround(m, trigger, captured))
<1> DEFINE d == ShowLoading(CancelCurrent(m), "contextLoading")
           u == Update(d, captured)
           j == [u.jobs[u.current] EXCEPT !.astray = TRUE]
           a == [u EXCEPT !.jobs = [u.jobs EXCEPT ![u.current] = j]]
<1>1. /\ Backed(u) /\ Chained(u) /\ CurrentIsActive(u) /\ u.current \in Slots
      /\ u.editor.app \in Apps /\ FreeSlots(u) # {}
  BY AroundSteps
<1>2. ScheduleAround(m, trigger, captured) = Launch(a, trigger)
  BY DEF ScheduleAround
<1> HIDE DEF u
<1>3. /\ u \in Ime /\ u.jobs \in [Slots -> Job] /\ u.jobs[u.current] \in Job
      /\ u.jobs[u.current].step # "none"
  BY <1>1 DEF Backed, Sound, Ime, CurrentIsActive, IsActive
<1>4. /\ j \in Job /\ j.astray
      /\ j.step = u.jobs[u.current].step /\ j.app = u.jobs[u.current].app
      /\ j.subject = u.jobs[u.current].subject
      /\ j.cancelled = u.jobs[u.current].cancelled
  BY <1>3 DEF Job
<1>5. j.step \in {"loading", "requesting"} =>
        j.subject \in Fingerprint /\ j.subject.app = j.app
  BY <1>1, <1>4 DEF Backed, Sound, RequestsHaveSubject
<1> HIDE DEF j
<1>6. Backed(a)
  BY <1>1, <1>3, <1>4, <1>5, AdvancedBacked
<1>7. [u.jobs EXCEPT ![u.current] = j] \in [Slots -> Job]
  BY <1>3, <1>4
<1>8. /\ a.jobs = [u.jobs EXCEPT ![u.current] = j]
      /\ a.editor = u.editor /\ a.active = u.active /\ a.store = u.store
  BY <1>3, <1>7 DEF Ime
<1> HIDE DEF a
<1>9. Chained(a) /\ FreeSlots(a) # {}
  BY <1>1, <1>3, <1>4, <1>8 DEF Chained, StoreIsActive, ActiveIsEditor, FreeSlots
<1>10. Quiet(a)
  BY <1>1, <1>3, <1>4, <1>8 DEF Backed, Sound, LiveIsCurrent, Quiet, IsActive
<1> DEFINE n == Launch(a, trigger)
<1>11. /\ Backed(n) /\ n.editor = a.editor /\ n.active = a.active
       /\ n.store = a.store
  BY <1>1, <1>6, <1>8, <1>9, <1>10, LaunchBacked
<1>12. Chained(n)
  <2> HIDE DEF n
  <2> QED
    BY <1>9, <1>11 DEF Chained, StoreIsActive, ActiveIsEditor
<1> QED
  BY <1>2, <1>11, <1>12

-----------------------------------------------------------------------------
(* The end of a request. *)

(* A coroutine that ends leaves everything backed but, perhaps, the gate. *)
LEMMA EndedBacked ==
  ASSUME NEW m, Backed(m), NEW s \in Slots,
         NEW n, n = [m EXCEPT !.jobs = [m.jobs EXCEPT ![s] = NoJob]]
  PROVE  /\ n \in Ime
         /\ LiveIsCurrent(n) /\ RequestsHaveSubject(n)
         /\ LiveHasSnapshot(n) /\ BarHasSnapshot(n)
         /\ \/ m.jobs[s].step # "requesting"
            \/ m.pending # m.jobs[s].subject
            => PendingOwned(n)
         /\ n.pending = m.pending
         /\ n.store = m.store /\ n.editor = m.editor /\ n.active = m.active
<1>1. m \in Ime /\ m.jobs \in [Slots -> Job]
  BY DEF Backed, Sound, Ime
<1>2. [m.jobs EXCEPT ![s] = NoJob] \in [Slots -> Job]
  BY <1>1, NoJobTyped
<1>3. /\ n \in Ime
      /\ n.current = m.current /\ n.pending = m.pending
      /\ n.store = m.store /\ n.barAstray = m.barAstray
      /\ n.bar = m.bar /\ n.barOf = m.barOf
      /\ n.editor = m.editor /\ n.active = m.active
      /\ n.jobs = [m.jobs EXCEPT ![s] = NoJob]
  BY <1>1, <1>2 DEF Ime
<1>4. n.jobs[s].step = "none" /\ \A r \in Slots : r # s => n.jobs[r] = m.jobs[r]
  BY <1>1, <1>3 DEF NoJob
<1>5. \A r \in Slots : IsActive(n, r) => r # s /\ IsActive(m, r)
  BY <1>4 DEF IsActive
<1>6. LiveIsCurrent(n)
  BY <1>3, <1>4, <1>5 DEF Backed, Sound, LiveIsCurrent
<1>7. RequestsHaveSubject(n)
  BY <1>4 DEF Backed, Sound, RequestsHaveSubject
<1>8. LiveHasSnapshot(n) /\ BarHasSnapshot(n)
  BY <1>3, <1>4, <1>5 DEF Backed, LiveHasSnapshot, BarHasSnapshot
<1>9. ASSUME \/ m.jobs[s].step # "requesting"
             \/ m.pending # m.jobs[s].subject
      PROVE  PendingOwned(n)
  BY <1>3, <1>4, <1>9 DEF Backed, Sound, PendingOwned
<1> QED
  BY <1>3, <1>6, <1>7, <1>8, <1>9

(* AutoSuggestionGate's onRequestComplete after the coroutine's end. *)
LEMMA CompletedBacked ==
  ASSUME NEW m, Backed(m), NEW s \in Slots, m.jobs[s].step = "requesting",
         NEW n, n = [m EXCEPT !.jobs = [m.jobs EXCEPT ![s] = NoJob]],
         NEW successful \in BOOLEAN
  PROVE  /\ Backed(Complete(n, m.jobs[s].subject, successful))
         /\ Complete(n, m.jobs[s].subject, successful).store = m.store
         /\ Complete(n, m.jobs[s].subject, successful).editor = m.editor
         /\ Complete(n, m.jobs[s].subject, successful).active = m.active
<1> DEFINE f == m.jobs[s].subject
           k == Complete(n, f, successful)
<1>1. /\ n \in Ime
      /\ LiveIsCurrent(n) /\ RequestsHaveSubject(n)
      /\ LiveHasSnapshot(n) /\ BarHasSnapshot(n)
      /\ m.pending # f => PendingOwned(n)
      /\ n.pending = m.pending
      /\ n.store = m.store /\ n.editor = m.editor /\ n.active = m.active
  BY EndedBacked
<1>2. f \in Fingerprint
  BY DEF Backed, Sound, RequestsHaveSubject
<1>3. CASE n.pending # f
  <2>1. k = n
    BY <1>3 DEF Complete
  <2> QED
    BY <1>1, <1>3, <2>1 DEF Backed, Sound
<1>4. CASE n.pending = f
  <2>1. k = [n EXCEPT !.last = IF successful THEN f ELSE n.last, !.pending = None]
    BY <1>4 DEF Complete
  <2> HIDE DEF f
  <2>2. (IF successful THEN f ELSE n.last) \in Fingerprint \cup {None}
    BY <1>1, <1>2 DEF Ime
  <2>3. /\ k \in Ime
        /\ k.jobs = n.jobs /\ k.current = n.current /\ k.pending = None
        /\ k.store = n.store /\ k.barAstray = n.barAstray
        /\ k.bar = n.bar /\ k.barOf = n.barOf
        /\ k.editor = n.editor /\ k.active = n.active
    BY <1>1, <2>1, <2>2 DEF Ime
  <2> HIDE DEF k
  <2>4. Backed(k)
    BY <1>1, <2>3 DEF Backed, Sound, LiveIsCurrent, RequestsHaveSubject,
       PendingOwned, LiveHasSnapshot, BarHasSnapshot, IsActive
  <2> QED
    BY <1>1, <2>3, <2>4 DEF k, f
<1> QED
  BY <1>3, <1>4

-----------------------------------------------------------------------------
(* The initial state and the steps. *)

LEMMA InitIInv == Init => IInv
<1> SUFFICES ASSUME Init PROVE IInv
  OBVIOUS
<1>1. ime \in Ime
  BY NoJobTyped DEF Init, Ime, Editor, Bar, NoEditor
<1>2. \A s \in Slots : ime.jobs[s] = NoJob
  BY DEF Init
<1>3. \A s \in Slots : ime.jobs[s].step = "none"
  BY <1>2 DEF NoJob
<1>4. /\ ime.pending = None /\ ime.bar = "nothing" /\ ime.store = None
      /\ ime.active = None
  BY DEF Init
<1> QED
  BY <1>1, <1>3, <1>4 DEF IInv, Backed, Sound, LiveIsCurrent,
     RequestsHaveSubject, PendingOwned, LiveHasSnapshot, BarHasSnapshot,
     Chained, StoreIsActive, ActiveIsEditor, IsActive

(* onStartInputView, with the captures it may make inline. *)
LEMMA ViewStarted ==
  ASSUME IInv, NEW editor \in Editor, StartInputView(editor)
  PROVE  LET k == [ime EXCEPT !.editor = editor]
             m == UpdateCaptureState(k)
         IN /\ k \in Ime /\ k.jobs = ime.jobs
            /\ Backed(m) /\ Chained(m) /\ FreeSlots(m) # {}
            /\ \/ ime' = Schedule(m, "ContextChange")
               \/ \E captured \in Snapshot :
                    /\ m.active = captured.app
                    /\ ime' = Schedule(Update(m, captured), "ContextChange")
               \/ \E captured \in Snapshot :
                    /\ CapturesInline(m, "ContextChange", captured)
                    /\ ime' = ScheduleAround(m, "ContextChange", captured)
<1> DEFINE k == [ime EXCEPT !.editor = editor]
           m == UpdateCaptureState(k)
<1>1. ime \in Ime /\ Backed(ime) /\ StoreIsActive(ime) /\ FreeSlots(ime) # {}
  BY DEF IInv, Backed, Sound, Chained, StartInputView
<1>2. /\ k \in Ime
      /\ k.jobs = ime.jobs /\ k.current = ime.current /\ k.pending = ime.pending
      /\ k.store = ime.store /\ k.active = ime.active
      /\ k.bar = ime.bar /\ k.barOf = ime.barOf /\ k.barAstray = ime.barAstray
  BY <1>1 DEF Ime
<1>3. \/ ime' = Schedule(m, "ContextChange")
      \/ \E captured \in Snapshot :
           /\ m.active = captured.app
           /\ ime' = Schedule(Update(m, captured), "ContextChange")
      \/ \E captured \in Snapshot :
           /\ CapturesInline(m, "ContextChange", captured)
           /\ ime' = ScheduleAround(m, "ContextChange", captured)
  BY DEF StartInputView
<1> HIDE DEF k
<1>4. Backed(k) /\ StoreIsActive(k) /\ FreeSlots(k) # {}
  BY <1>1, <1>2 DEF Backed, Sound, LiveIsCurrent, RequestsHaveSubject,
     PendingOwned, LiveHasSnapshot, BarHasSnapshot, StoreIsActive, IsActive,
     FreeSlots
<1>5. Backed(m) /\ Chained(m) /\ FreeSlots(m) # {}
  BY <1>4, UpdateCaptureStateBacked
<1> HIDE DEF m
<1> QED
  BY <1>2, <1>3, <1>5 DEF k, m

LEMMA StartInputViewIInv ==
  ASSUME IInv, NEW editor \in Editor, StartInputView(editor)
  PROVE  IInv'
<1>1. PICK m : /\ Backed(m) /\ Chained(m) /\ FreeSlots(m) # {}
               /\ \/ ime' = Schedule(m, "ContextChange")
                  \/ \E captured \in Snapshot :
                       /\ m.active = captured.app
                       /\ ime' = Schedule(Update(m, captured), "ContextChange")
                  \/ \E captured \in Snapshot :
                       /\ CapturesInline(m, "ContextChange", captured)
                       /\ ime' = ScheduleAround(m, "ContextChange", captured)
  BY ViewStarted
<1>2. Backed(ime') /\ Chained(ime')
  <2>1. CASE ime' = Schedule(m, "ContextChange")
    BY <1>1, <2>1, ScheduleBacked DEF Trigger
  <2>2. ASSUME NEW captured \in Snapshot, m.active = captured.app,
               ime' = Schedule(Update(m, captured), "ContextChange")
        PROVE  Backed(ime') /\ Chained(ime')
    <3>1. /\ Backed(Update(m, captured)) /\ Chained(Update(m, captured))
          /\ \/ FreeSlots(Update(m, captured)) # {}
             \/ CurrentIsActive(Update(m, captured))
      BY <1>1, <2>2, UpdateBacked
    <3> QED
      BY <2>2, <3>1, ScheduleBacked DEF Trigger
  <2>3. ASSUME NEW captured \in Snapshot,
               CapturesInline(m, "ContextChange", captured),
               ime' = ScheduleAround(m, "ContextChange", captured)
        PROVE  Backed(ime') /\ Chained(ime')
    BY <1>1, <2>3, ScheduleAroundBacked DEF Trigger
  <2> QED
    BY <1>1, <2>1, <2>2, <2>3
<1> QED
  BY <1>2 DEF IInv

(* The refresh of the suggestions or of the retry chip, with a snapshot that *)
(* may be too old and the capture that then follows.                         *)
LEMMA RefreshIInv ==
  ASSUME IInv, Refresh
  PROVE  IInv'
<1>1. PICK m \in {ime, Clear(ime)} :
        \/ ime' = Schedule(m, "ManualRefresh")
        \/ \E captured \in Snapshot :
             /\ CapturesInline(m, "ManualRefresh", captured)
             /\ ime' = ScheduleAround(m, "ManualRefresh", captured)
  BY DEF Refresh
<1>2. Backed(m) /\ Chained(m) /\ FreeSlots(m) # {}
  <2>1. Backed(ime) /\ Chained(ime) /\ FreeSlots(ime) # {}
    BY DEF IInv, Refresh
  <2> QED
    BY <2>1, ClearBacked DEF Chained, StoreIsActive, ActiveIsEditor
<1>3. Backed(ime') /\ Chained(ime')
  BY <1>1, <1>2, ScheduleBacked, ScheduleAroundBacked DEF Trigger
<1> QED
  BY <1>3 DEF IInv

(* onFinishInputView leaves no request, no snapshot and a fresh gate. *)
LEMMA FinishInputViewIInv ==
  ASSUME IInv, FinishInputView
  PROVE  IInv'
<1> DEFINE d == Deactivate(ime)
           c == CancelCurrent(d)
           r == ResetGate(c)
           b == Dismiss(r)
<1>1. Backed(ime)
  BY DEF IInv
<1>2. Sound(d) /\ d.store = None /\ d.active = None
  BY <1>1, DeactivateBacked DEF Backed
<1>3. /\ Sound(c) /\ Quiet(c) /\ c \in Ime
      /\ c.store = None /\ c.active = None
  BY <1>2, CancelSound DEF Sound
<1>4. ime' = [b EXCEPT !.editor = NoEditor, !.current = None]
  BY DEF FinishInputView
<1>5. /\ ime' \in Ime
      /\ ime'.jobs = c.jobs /\ ime'.pending = None /\ ime'.bar = "nothing"
      /\ ime'.store = None /\ ime'.active = None
  <2> HIDE DEF c
  <2>1. /\ r \in Ime /\ r.jobs = c.jobs /\ r.pending = None
        /\ r.store = None /\ r.active = None
    BY <1>3 DEF ResetGate, Ime
  <2> HIDE DEF r
  <2>2. /\ b \in Ime /\ b.jobs = c.jobs /\ b.pending = None
        /\ b.store = None /\ b.active = None /\ b.bar = "nothing"
    BY <2>1 DEF Dismiss, Show, Ime, Bar
  <2> HIDE DEF b
  <2> QED
    BY <1>4, <2>2 DEF Ime, Editor
<1> HIDE DEF c
<1>6. Quiet(ime')
  BY <1>3, <1>5 DEF Quiet, IsActive
<1>7. Backed(ime')
  BY <1>3, <1>5, <1>6 DEF Backed, Sound, Quiet, LiveIsCurrent,
     RequestsHaveSubject, PendingOwned, LiveHasSnapshot, BarHasSnapshot
<1>8. Chained(ime')
  BY <1>5 DEF Chained, StoreIsActive, ActiveIsEditor
<1> QED
  BY <1>7, <1>8 DEF IInv

(* What the user does with the bar touches neither jobs nor context. *)
LEMMA SameContextIInv ==
  ASSUME IInv, ime' \in Ime,
         ime'.jobs = ime.jobs, ime'.current = ime.current,
         ime'.store = ime.store, ime'.editor = ime.editor,
         ime'.active = ime.active,
         ime'.pending \in {ime.pending, None},
         \/ ime'.bar # "suggestions"
         \/ /\ ime'.bar = ime.bar /\ ime'.barOf = ime.barOf
            /\ ime'.barAstray = ime.barAstray
  PROVE  IInv'
<1>1. \A s : IsActive(ime', s) <=> IsActive(ime, s)
  BY DEF IsActive
<1>2. Sound(ime')
  BY <1>1 DEF IInv, Backed, Sound, LiveIsCurrent, RequestsHaveSubject,
     PendingOwned
<1>3. LiveHasSnapshot(ime') /\ BarHasSnapshot(ime')
  BY <1>1 DEF IInv, Backed, LiveHasSnapshot, BarHasSnapshot
<1>4. Chained(ime')
  BY DEF IInv, Chained, StoreIsActive, ActiveIsEditor
<1> QED
  BY <1>2, <1>3, <1>4 DEF IInv, Backed

(* A request job that goes on changes its own slot, and perhaps the bar   *)
(* and the gate's pending fingerprint.                                    *)
LEMMA JobIInv ==
  ASSUME IInv, NEW s \in Slots, NEW j, ime.jobs[s].step # "none",
         NEW n, n = [ime EXCEPT !.jobs = [ime.jobs EXCEPT ![s] = j]],
         Backed(n), j.step # "waiting",
         ime' \in Ime,
         ime'.jobs = n.jobs, ime'.current = n.current,
         ime'.store = n.store, ime'.editor = n.editor, ime'.active = n.active,
         \/ ime'.pending = n.pending
         \/ j.step = "requesting" /\ ime'.pending = j.subject,
         \/ ime'.bar # "suggestions"
         \/ /\ ime'.bar = n.bar /\ ime'.barOf = n.barOf
            /\ ime'.barAstray = n.barAstray
         \/ /\ j.step = "requesting"
            /\ IsActive(n, s)
            /\ ime'.barOf = j.subject
            /\ ime'.barAstray = j.astray
  PROVE  IInv'
<1>1. /\ ime \in Ime /\ ime.jobs \in [Slots -> Job]
  BY DEF IInv, Backed, Sound, Ime
<1>2. /\ n.store = ime.store /\ n.editor = ime.editor /\ n.active = ime.active
      /\ n.jobs[s] = j
  BY <1>1 DEF Ime
<1>3. \A r : IsActive(ime', r) <=> IsActive(n, r)
  BY DEF IsActive
<1>4. LiveIsCurrent(ime') /\ RequestsHaveSubject(ime') /\ LiveHasSnapshot(ime')
  BY <1>3 DEF Backed, Sound, LiveIsCurrent, RequestsHaveSubject, LiveHasSnapshot
<1>5. PendingOwned(ime')
  BY <1>2 DEF Backed, Sound, PendingOwned
<1>6. BarHasSnapshot(ime')
  <2>1. CASE ime'.bar # "suggestions"
    BY <2>1 DEF BarHasSnapshot
  <2>2. CASE /\ ime'.bar = n.bar /\ ime'.barOf = n.barOf
             /\ ime'.barAstray = n.barAstray
    BY <2>2 DEF Backed, BarHasSnapshot
  <2>3. CASE /\ j.step = "requesting"
             /\ IsActive(n, s)
             /\ ime'.barOf = j.subject
             /\ ime'.barAstray = j.astray
    BY <1>2, <2>3 DEF Backed, Sound, RequestsHaveSubject, LiveHasSnapshot,
       BarHasSnapshot
  <2> QED
    BY <2>1, <2>2, <2>3
<1>7. Chained(ime')
  BY <1>2 DEF IInv, Chained, StoreIsActive, ActiveIsEditor
<1> QED
  BY <1>4, <1>5, <1>6, <1>7 DEF IInv, Backed, Sound

(* awaitLangouContextSnapshot returns a snapshot of the job's application. *)
LEMMA SnapshotArrivesIInv ==
  ASSUME IInv, NEW s \in Slots, SnapshotArrives(s)
  PROVE  IInv'
<1> DEFINE f == FingerprintOf(ime.store)
           j == [ime.jobs[s] EXCEPT !.step = "loading", !.subject = f]
           n == [ime EXCEPT !.jobs = [ime.jobs EXCEPT ![s] = j]]
<1>1. /\ Backed(ime) /\ ime \in Ime
      /\ ime.jobs \in [Slots -> Job] /\ ime.jobs[s] \in Job
  BY DEF IInv, Backed, Sound, Ime
<1>2. /\ ime.jobs[s].step = "waiting" /\ ime.store # None
      /\ ime.store.app = ime.jobs[s].app
      /\ Get(ime, ime.jobs[s].app) = ime.store
  BY DEF SnapshotArrives, Get
<1>3. ime.store \in Snapshot
  BY <1>1, <1>2 DEF Ime
<1>4. f \in Fingerprint /\ f.app = ime.jobs[s].app
  BY <1>2, <1>3 DEF Snapshot, Fingerprint, FingerprintOf
<1>5. ime' = n
  BY <1>2 DEF SnapshotArrives
<1> HIDE DEF f
<1>6. /\ j \in Job /\ j.step = "loading" /\ j.subject = f
      /\ j.app = ime.jobs[s].app /\ j.cancelled = ime.jobs[s].cancelled
      /\ j.astray = ime.jobs[s].astray
  BY <1>1, <1>4 DEF Job
<1> HIDE DEF j
<1>7. Backed(n)
  BY <1>1, <1>2, <1>4, <1>6, AdvancedBacked
<1>8. n \in Ime
  BY <1>7 DEF Backed, Sound
<1> QED
  BY <1>2, <1>5, <1>6, <1>7, <1>8, JobIInv

(* A wait without a snapshot ends in the retry chip. *)
LEMMA SnapshotTimeoutIInv ==
  ASSUME IInv, NEW s \in Slots, SnapshotTimeout(s)
  PROVE  IInv'
<1> DEFINE n == [ime EXCEPT !.jobs = [ime.jobs EXCEPT ![s] = NoJob]]
<1>1. Backed(ime) /\ ime.jobs[s].step = "waiting"
  BY DEF IInv, SnapshotTimeout
<1>2. /\ Backed(n) /\ n.store = ime.store /\ n.editor = ime.editor
      /\ n.active = ime.active
  BY <1>1, EndedBacked DEF Backed, Sound
<1>3. ime' = Show(n, "retry")
  BY DEF SnapshotTimeout
<1> HIDE DEF n
<1>4. Backed(ime') /\ ime'.store = n.store /\ ime'.editor = n.editor
      /\ ime'.active = n.active
  BY <1>2, <1>3, ShowSound DEF Backed, Bar
<1>5. Chained(ime')
  BY <1>2, <1>4 DEF IInv, Chained, StoreIsActive, ActiveIsEditor
<1> QED
  BY <1>4, <1>5 DEF IInv

(* The gate sets its pending fingerprint for a request that is made. *)
LEMMA MemoryLoadedIInv ==
  ASSUME IInv, NEW s \in Slots, MemoryLoaded(s)
  PROVE  IInv'
<1>1. /\ Backed(ime) /\ ime \in Ime
      /\ ime.jobs \in [Slots -> Job] /\ ime.jobs[s] \in Job
      /\ ime.jobs[s].step = "loading"
  BY DEF IInv, Backed, Sound, Ime, MemoryLoaded
<1>2. /\ ime.jobs[s].subject \in Fingerprint
      /\ ime.jobs[s].subject.app = ime.jobs[s].app
  BY <1>1 DEF Backed, Sound, RequestsHaveSubject
<1>3. CASE Generates(ime, ime.jobs[s].subject, ime.jobs[s].trigger)
  <2> DEFINE j == [ime.jobs[s] EXCEPT !.step = "requesting"]
             n == [ime EXCEPT !.jobs = [ime.jobs EXCEPT ![s] = j]]
             k == [ime EXCEPT !.pending = ime.jobs[s].subject,
                              !.jobs = [ime.jobs EXCEPT ![s] = j]]
  <2>1. ime' = ShowLoading(k, "loading")
    BY <1>3 DEF MemoryLoaded
  <2>2. /\ j \in Job /\ j.step = "requesting" /\ j.subject = ime.jobs[s].subject
        /\ j.app = ime.jobs[s].app /\ j.cancelled = ime.jobs[s].cancelled
        /\ j.astray = ime.jobs[s].astray
    BY <1>1 DEF Job
  <2> HIDE DEF j
  <2>3. ~j.cancelled /\ ~j.astray => ime.store # None /\ ime.store.app = j.app
    BY <1>1, <2>2 DEF Backed, LiveHasSnapshot, IsActive
  <2>4. Backed(n)
    BY <1>1, <1>2, <2>2, <2>3, AdvancedBacked
  <2>5. [ime.jobs EXCEPT ![s] = j] \in [Slots -> Job]
    BY <1>1, <2>2
  <2>6. /\ k \in Ime /\ k.jobs = n.jobs /\ k.current = n.current
        /\ k.store = n.store /\ k.editor = n.editor /\ k.active = n.active
        /\ k.bar = n.bar /\ k.barOf = n.barOf /\ k.barAstray = n.barAstray
        /\ k.pending = j.subject
    BY <1>1, <1>2, <2>2, <2>5 DEF Ime
  <2> HIDE DEF k
  <2>7. ime' = k \/ ime' = Show(k, "loading")
    BY <2>1 DEF ShowLoading
  <2>8. /\ ime' \in Ime /\ ime'.jobs = k.jobs /\ ime'.current = k.current
        /\ ime'.store = k.store /\ ime'.editor = k.editor
        /\ ime'.active = k.active /\ ime'.pending = k.pending
        /\ \/ ime'.bar # "suggestions"
           \/ /\ ime'.bar = k.bar /\ ime'.barOf = k.barOf
              /\ ime'.barAstray = k.barAstray
    BY <2>6, <2>7 DEF Show, Ime, Bar
  <2> HIDE DEF n
  <2> QED
    BY <1>1, <2>2, <2>4, <2>6, <2>8, JobIInv DEF n
<1>4. CASE ~Generates(ime, ime.jobs[s].subject, ime.jobs[s].trigger)
  <2>1. ime' = [ime EXCEPT !.jobs = [ime.jobs EXCEPT ![s] = NoJob]]
    BY <1>4 DEF MemoryLoaded
  <2>2. /\ Backed(ime') /\ ime'.store = ime.store /\ ime'.editor = ime.editor
        /\ ime'.active = ime.active
    BY <1>1, <2>1, EndedBacked DEF Backed, Sound
  <2> QED
    BY <2>2 DEF IInv, Chained, StoreIsActive, ActiveIsEditor
<1> QED
  BY <1>3, <1>4

(* A suggestion is counted, then shown, by a live request. *)
LEMMA StreamIInv ==
  ASSUME IInv, NEW s \in Slots, Receive(s) \/ Deliver(s)
  PROVE  IInv'
<1>1. /\ Backed(ime) /\ ime \in Ime
      /\ ime.jobs \in [Slots -> Job] /\ ime.jobs[s] \in Job
      /\ ime.jobs[s].step = "requesting" /\ IsActive(ime, s)
  BY DEF IInv, Backed, Sound, Ime, Receive, Deliver
<1>2. /\ ime.jobs[s].subject \in Fingerprint
      /\ ime.jobs[s].subject.app = ime.jobs[s].app
      /\ ~ime.jobs[s].astray => ime.store # None /\ ime.store.app = ime.jobs[s].app
  BY <1>1 DEF Backed, Sound, RequestsHaveSubject, LiveHasSnapshot
<1>3. /\ ime.jobs[s].received \in 0..MaxSuggestions
      /\ ime.jobs[s].shown \in 0..MaxSuggestions
  BY <1>1 DEF Job
<1>4. CASE Receive(s)
  <2> DEFINE j == [ime.jobs[s] EXCEPT !.received = ime.jobs[s].received + 1]
             n == [ime EXCEPT !.jobs = [ime.jobs EXCEPT ![s] = j]]
  <2>1. ime' = n
    BY <1>4 DEF Receive
  <2>2. ime.jobs[s].received + 1 \in 0..MaxSuggestions
    BY <1>3, <1>4, ConstantsAssumption DEF Receive
  <2>3. /\ j \in Job /\ j.step = "requesting" /\ j.subject = ime.jobs[s].subject
        /\ j.app = ime.jobs[s].app /\ j.cancelled = ime.jobs[s].cancelled
        /\ j.astray = ime.jobs[s].astray
    BY <1>1, <2>2 DEF Job
  <2> HIDE DEF j
  <2>4. Backed(n)
    BY <1>1, <1>2, <2>3, AdvancedBacked
  <2>5. n \in Ime
    BY <2>4 DEF Backed, Sound
  <2> QED
    BY <1>1, <2>1, <2>3, <2>4, <2>5, JobIInv
<1>5. CASE Deliver(s)
  <2> DEFINE j == [ime.jobs[s] EXCEPT !.shown = ime.jobs[s].shown + 1]
             n == [ime EXCEPT !.jobs = [ime.jobs EXCEPT ![s] = j]]
  <2>1. ime' = [ime EXCEPT !.jobs = [ime.jobs EXCEPT ![s] = j],
                           !.bar = "suggestions",
                           !.barOf = ime.jobs[s].subject,
                           !.barAstray = ime.jobs[s].astray,
                           !.listed = TRUE]
    BY <1>5 DEF Deliver
  <2>2. ime.jobs[s].shown + 1 \in 0..MaxSuggestions
    BY <1>3, <1>5, ConstantsAssumption DEF Deliver
  <2>3. /\ j \in Job /\ j.step = "requesting" /\ j.subject = ime.jobs[s].subject
        /\ j.app = ime.jobs[s].app /\ j.cancelled = ime.jobs[s].cancelled
        /\ j.astray = ime.jobs[s].astray
    BY <1>1, <2>2 DEF Job
  <2> HIDE DEF j
  <2>4. Backed(n)
    BY <1>1, <1>2, <2>3, AdvancedBacked
  <2>5. [ime.jobs EXCEPT ![s] = j] \in [Slots -> Job]
    BY <1>1, <2>3
  <2>6. /\ ime' \in Ime /\ ime'.jobs = n.jobs /\ ime'.current = n.current
        /\ ime'.store = n.store /\ ime'.editor = n.editor
        /\ ime'.active = n.active /\ ime'.pending = n.pending
        /\ ime'.barOf = j.subject /\ ime'.barAstray = j.astray
    BY <1>1, <1>2, <2>1, <2>3, <2>5 DEF Ime, Bar, Job
  <2>7. IsActive(n, s)
    <3>1. n.jobs[s] = j
      BY <1>1 DEF Ime
    <3> QED
      BY <1>1, <2>3, <3>1 DEF IsActive
  <2> HIDE DEF n
  <2> QED
    BY <1>1, <2>3, <2>4, <2>6, <2>7, JobIInv DEF n
<1> QED
  BY <1>4, <1>5

(* The finally block of a request gives its fingerprint back. *)
LEMMA EndIInv ==
  ASSUME IInv, NEW s \in Slots, Succeed(s) \/ Fail(s)
  PROVE  IInv'
<1> DEFINE f == ime.jobs[s].subject
           n == [ime EXCEPT !.jobs = [ime.jobs EXCEPT ![s] = NoJob]]
<1>1. /\ Backed(ime) /\ ime \in Ime /\ ime.jobs[s].step = "requesting"
  BY DEF IInv, Backed, Sound, Succeed, Fail, StreamOver
<1>2. n \in Ime
  BY <1>1, EndedBacked
<1>3. \A b \in BOOLEAN : /\ Backed(Complete(n, f, b))
                         /\ Complete(n, f, b).store = ime.store
                         /\ Complete(n, f, b).editor = ime.editor
                         /\ Complete(n, f, b).active = ime.active
  BY <1>1, CompletedBacked
<1>4. CASE Succeed(s)
  <2>1. ime' = Complete(n, f, IsActive(ime, s))
    BY <1>4 DEF Succeed
  <2>2. IsActive(ime, s) \in BOOLEAN
    BY DEF IsActive
  <2> HIDE DEF n, f
  <2> QED
    BY <1>3, <2>1, <2>2 DEF IInv, Chained, StoreIsActive, ActiveIsEditor
<1>5. CASE Fail(s)
  <2>1. ime' = Complete(Show(n, "retry"), f, FALSE)
    BY <1>5 DEF Fail
  <2> HIDE DEF n, f
  <2>2. ime' = Show(Complete(n, f, FALSE), "retry")
    BY <1>2, <2>1 DEF Show, Complete, Ime
  <2>3. /\ Backed(ime') /\ ime'.store = ime.store /\ ime'.editor = ime.editor
        /\ ime'.active = ime.active
    BY <1>3, <2>2, ShowSound DEF Backed, Bar
  <2> QED
    BY <2>3 DEF IInv, Chained, StoreIsActive, ActiveIsEditor
<1> QED
  BY <1>4, <1>5

LEMMA NextIInv == IInv /\ [Next]_vars => IInv'
<1> SUFFICES ASSUME IInv, [Next]_vars PROVE IInv'
  OBVIOUS
<1>1. /\ ime \in Ime /\ Backed(ime) /\ Chained(ime)
  BY DEF IInv, Backed, Sound
<1>2. ASSUME NEW editor \in Editor, StartInputView(editor)
      PROVE  IInv'
  BY <1>2, StartInputViewIInv
<1>3. CASE FinishInputView
  BY <1>3, FinishInputViewIInv
<1>4. ASSUME NEW snapshot \in Snapshot, Capture(snapshot)
      PROVE  IInv'
  BY <1>1, <1>4, UpdateBacked DEF Capture, IInv
<1>5. CASE Lose
  BY <1>1, <1>5, ClearBacked DEF Lose, IInv, Chained, StoreIsActive, ActiveIsEditor
<1>6. CASE Refresh
  BY <1>6, RefreshIInv
<1>7. CASE Select
  <2>1. ime' = [ime EXCEPT !.listed = FALSE, !.bar = "nothing", !.barOf = None,
                           !.barAstray = FALSE]
    BY <1>1, <1>7 DEF Select, Dismiss, Show, Ime
  <2>2. /\ ime' \in Ime /\ ime'.bar = "nothing" /\ ime'.jobs = ime.jobs
        /\ ime'.current = ime.current /\ ime'.store = ime.store
        /\ ime'.editor = ime.editor /\ ime'.active = ime.active
        /\ ime'.pending = ime.pending
    BY <1>1, <2>1 DEF Ime, Bar
  <2> QED
    BY <2>2, SameContextIInv
<1>8. CASE Forget
  <2> DEFINE c == ConversationOf(ime.store)
  <2>1. ime.store # None /\ ime' = [ime EXCEPT !.forgetting = ime.forgetting \cup {c}]
    BY <1>8 DEF Forget, Get
  <2>2. c \in Conversation
    BY <1>1, <2>1 DEF Ime, Snapshot, Conversation, ConversationOf
  <2> HIDE DEF c
  <2>3. ime.forgetting \cup {c} \in SUBSET Conversation
    BY <1>1, <2>2 DEF Ime
  <2>4. /\ ime' \in Ime /\ ime'.bar = ime.bar /\ ime'.barOf = ime.barOf
        /\ ime'.barAstray = ime.barAstray
        /\ ime'.jobs = ime.jobs
        /\ ime'.current = ime.current /\ ime'.store = ime.store
        /\ ime'.editor = ime.editor /\ ime'.active = ime.active
        /\ ime'.pending = ime.pending
    BY <1>1, <2>1, <2>3 DEF Ime
  <2> QED
    BY <2>4, SameContextIInv
<1>9. ASSUME NEW conversation \in Conversation, Forgotten(conversation)
      PROVE  IInv'
  <2>1. ime' = [ime EXCEPT !.last = None, !.pending = None,
                           !.forgetting = ime.forgetting \ {conversation},
                           !.bar = "nothing", !.barOf = None,
                           !.barAstray = FALSE]
    BY <1>1, <1>9 DEF Forgotten, Dismiss, Show, ResetGate, Ime
  <2>2. ime.forgetting \ {conversation} \in SUBSET Conversation
    BY <1>1 DEF Ime
  <2>3. /\ ime' \in Ime /\ ime'.bar = "nothing" /\ ime'.jobs = ime.jobs
        /\ ime'.current = ime.current /\ ime'.store = ime.store
        /\ ime'.editor = ime.editor /\ ime'.active = ime.active
        /\ ime'.pending = None
    BY <1>1, <2>1, <2>2 DEF Ime, Bar
  <2> QED
    BY <2>3, SameContextIInv
<1>10. ASSUME NEW s \in Slots, Receive(s) \/ JobStep(s)
       PROVE  IInv'
  BY <1>10, SnapshotArrivesIInv, SnapshotTimeoutIInv, MemoryLoadedIInv,
     StreamIInv, EndIInv DEF JobStep
<1>11. CASE UNCHANGED vars
  <2>1. ime' = ime
    BY <1>11 DEF vars
  <2> QED
    BY <1>1, <2>1 DEF IInv
<1> QED
  BY <1>2, <1>3, <1>4, <1>5, <1>6, <1>7, <1>8, <1>9, <1>10, <1>11 DEF Next

-----------------------------------------------------------------------------
(* The theorems. *)

(* The inductive invariant holds in every state of every behaviour. *)
THEOREM InvariantHolds == Spec => []IInv
BY InitIInv, NextIInv, PTL DEF Spec

(* The main thread's state keeps its type, so in particular no stream shows *)
(* more suggestions than the client's limit.                                *)
THEOREM TypeCorrect == Spec => []TypeOK
<1>1. IInv => TypeOK
  BY DEF IInv, Backed, Sound, TypeOK
<1> QED
  BY <1>1, InvariantHolds, PTL

(* Every live request is the one langouSuggestionJob refers to, unless a     *)
(* capture inside scheduleLangouSuggestions made it lose the reference.      *)
THEOREM LiveRequestIsCurrent == Spec => []OneLiveRequest
<1>1. IInv => OneLiveRequest
  BY DEF IInv, Backed, Sound, LiveIsCurrent, OneLiveRequest
<1> QED
  BY <1>1, InvariantHolds, PTL

(* No live request and no suggestion outlives the chat context it is for, but *)
(* for a request that lost its reference and what it shows.                   *)
THEOREM AIStaysInContext == Spec => []ContextBacksAI
<1>1. ASSUME IInv PROVE ContextBacksAI
  <2>1. ASSUME NEW app, ime.store # None, ime.store.app = app
        PROVE  InContext(app)
    <3>1. ime.active = app
      BY <1>1, <2>1 DEF IInv, Chained, StoreIsActive
    <3>2. app \in Apps
      BY <1>1, <2>1 DEF IInv, Backed, Sound, Ime, Snapshot
    <3>3. ime.editor = [app |-> app, field |-> "chat"]
      BY <1>1, <3>1, <3>2, NoneIsNone DEF IInv, Chained, ActiveIsEditor
    <3> QED
      BY <2>1, <3>1, <3>3 DEF InContext, Get
  <2>2. ASSUME NEW s \in Slots, IsActive(ime, s), ime.jobs[s].step # "waiting",
               ~ime.jobs[s].astray
        PROVE  /\ InContext(ime.jobs[s].app)
               /\ ime.jobs[s].subject.app = ime.jobs[s].app
    <3>1. ime.jobs[s].step \in {"loading", "requesting"}
      BY <1>1, <2>2 DEF IInv, Backed, Sound, Ime, Job, IsActive
    <3> QED
      BY <1>1, <2>1, <2>2, <3>1 DEF IInv, Backed, Sound, RequestsHaveSubject,
         LiveHasSnapshot
  <2>3. ime.bar = "suggestions" /\ ~ime.barAstray => InContext(ime.barOf.app)
    BY <1>1, <2>1 DEF IInv, Backed, BarHasSnapshot
  <2> QED
    BY <2>2, <2>3 DEF ContextBacksAI
<1> QED
  BY <1>1, InvariantHolds, PTL

-----------------------------------------------------------------------------
(* A cancelled request never speaks again.                                 *)

\* From m to n no request begins, and none that was cancelled is live again.
NoneRevived(m, n) ==
  \A s \in Slots : n.jobs[s].step = "requesting" =>
    m.jobs[s].step = "requesting" /\ (m.jobs[s].cancelled => n.jobs[s].cancelled)

LEMMA SameJobsRevivesNone ==
  ASSUME NEW m, NEW n, n.jobs = m.jobs PROVE NoneRevived(m, n)
BY DEF NoneRevived

\* The main thread's functions call each other.
LEMMA RevivesNoneTwice ==
  ASSUME NEW k, NEW m, NEW n, NoneRevived(k, m), NoneRevived(m, n)
  PROVE  NoneRevived(k, n)
BY DEF NoneRevived

LEMMA ShowRevivesNone ==
  ASSUME NEW m \in Ime, NEW what \in Bar
  PROVE  Show(m, what) \in Ime /\ NoneRevived(m, Show(m, what))
<1>1. Show(m, what) \in Ime /\ Show(m, what).jobs = m.jobs
  BY DEF Show, Ime
<1> QED BY <1>1, SameJobsRevivesNone

LEMMA CancelRevivesNone ==
  ASSUME NEW m \in Ime
  PROVE  CancelCurrent(m) \in Ime /\ NoneRevived(m, CancelCurrent(m))
<1> DEFINE c == m.current
           n == CancelCurrent(m)
<1>1. m.jobs \in [Slots -> Job] /\ c \in Slots \cup {None}
  BY DEF Ime
<1>2. CASE ~CurrentIsActive(m)
  BY <1>2, SameJobsRevivesNone DEF CancelCurrent
<1>3. CASE CurrentIsActive(m)
  <2>1. c \in Slots
    BY <1>1, <1>3 DEF CurrentIsActive
  <2>2. PICK j \in Job :
          /\ n = [m EXCEPT !.jobs = [m.jobs EXCEPT ![c] = j]]
          /\ j.step = "requesting" =>
               m.jobs[c].step = "requesting" /\ (m.jobs[c].cancelled => j.cancelled)
    <3>1. CASE m.jobs[c].step = "requesting"
      <4> DEFINE j == [m.jobs[c] EXCEPT !.cancelled = TRUE]
      <4>1. j \in Job /\ j.cancelled
        BY <1>1, <2>1 DEF Job
      <4>2. n = [m EXCEPT !.jobs = [m.jobs EXCEPT ![c] = j]]
        BY <1>3, <3>1 DEF CancelCurrent
      <4> HIDE DEF j, n
      <4> QED BY <3>1, <4>1, <4>2
    <3>2. CASE m.jobs[c].step # "requesting"
      <4>1. NoJob \in Job /\ NoJob.step = "none"
        BY NoJobTyped DEF NoJob
      <4>2. n = [m EXCEPT !.jobs = [m.jobs EXCEPT ![c] = NoJob]]
        BY <1>3, <3>2 DEF CancelCurrent
      <4> HIDE DEF n
      <4> QED BY <4>1, <4>2
    <3> QED BY <3>1, <3>2
  <2> HIDE DEF n
  <2>3. n \in Ime /\ n.jobs = [m.jobs EXCEPT ![c] = j]
    BY <1>1, <2>2 DEF Ime
  <2>4. NoneRevived(m, n)
    BY <1>1, <2>1, <2>2, <2>3 DEF NoneRevived
  <2> QED BY <2>3, <2>4 DEF n
<1> QED BY <1>2, <1>3

LEMMA ClearRevivesNone ==
  ASSUME NEW m \in Ime
  PROVE  Clear(m) \in Ime /\ NoneRevived(m, Clear(m))
<1> DEFINE k == [m EXCEPT !.store = None]
<1>1. k \in Ime /\ k.jobs = m.jobs
  BY DEF Ime
<1>2. CASE m.store = None
  BY <1>2, SameJobsRevivesNone DEF Clear
<1>3. CASE m.store # None
  <2>1. Clear(m) = Show(CancelCurrent(k), "nothing")
    BY <1>3 DEF Clear, Dismiss
  <2> HIDE DEF k
  <2> QED
    BY <1>1, <2>1, CancelRevivesNone, ShowRevivesNone, SameJobsRevivesNone,
       RevivesNoneTwice DEF Bar
<1> QED BY <1>2, <1>3

LEMMA CaptureStateRevivesNone ==
  ASSUME NEW m \in Ime
  PROVE  /\ Deactivate(m) \in Ime /\ NoneRevived(m, Deactivate(m))
         /\ UpdateCaptureState(m) \in Ime /\ NoneRevived(m, UpdateCaptureState(m))
<1>1. Deactivate(m) \in Ime /\ NoneRevived(m, Deactivate(m))
  <2> DEFINE k == [m EXCEPT !.active = None]
  <2>1. k \in Ime /\ k.jobs = m.jobs
    BY DEF Ime
  <2>2. Deactivate(m) = Clear(k)
    BY DEF Deactivate
  <2> HIDE DEF k
  <2> QED
    BY <2>1, <2>2, ClearRevivesNone, SameJobsRevivesNone, RevivesNoneTwice
<1>2. ASSUME NEW app \in Apps
      PROVE  Activate(m, app) \in Ime /\ NoneRevived(m, Activate(m, app))
  <2>1. CASE m.active = app
    BY <2>1, SameJobsRevivesNone DEF Activate
  <2>2. CASE m.active # app
    <3> DEFINE k == Clear(m)
    <3>1. k \in Ime /\ NoneRevived(m, k) /\ Activate(m, app) = [k EXCEPT !.active = app]
      BY <2>2, ClearRevivesNone DEF Activate
    <3> HIDE DEF k
    <3>2. Activate(m, app) \in Ime /\ Activate(m, app).jobs = k.jobs
      BY <3>1 DEF Ime
    <3> QED BY <3>1, <3>2, SameJobsRevivesNone, RevivesNoneTwice
  <2> QED BY <2>1, <2>2
<1>3. m.editor.field = "chat" => m.editor.app \in Apps
  BY DEF Ime, Editor, NoEditor
<1> QED BY <1>1, <1>2, <1>3 DEF UpdateCaptureState

LEMMA LaunchRevivesNone ==
  ASSUME NEW e \in Ime, NEW trigger \in Trigger, e.editor.app \in Apps
  PROVE  NoneRevived(e, Launch(e, trigger))
<1>1. PICK s : Launch(e, trigger) =
         [e EXCEPT !.current = s,
                   !.jobs[s] = [NoJob EXCEPT !.step = "waiting",
                                             !.app = e.editor.app,
                                             !.trigger = trigger]]
  BY DEF Launch
<1> DEFINE j == [NoJob EXCEPT !.step = "waiting", !.app = e.editor.app,
                              !.trigger = trigger]
<1>2. j \in Job /\ j.step = "waiting"
  BY NoJobTyped DEF Job, NoJob
<1>3. Launch(e, trigger).jobs = [e.jobs EXCEPT ![s] = j]
  BY <1>1 DEF Ime
<1>4. e.jobs \in [Slots -> Job]
  BY DEF Ime
<1> HIDE DEF j
<1> QED BY <1>2, <1>3, <1>4 DEF NoneRevived

LEMMA ScheduleRevivesNone ==
  ASSUME NEW m \in Ime, NEW trigger \in Trigger
  PROVE  NoneRevived(m, Schedule(m, trigger))
<1> DEFINE c == CancelCurrent(m)
           d == Deactivate(c)
           e == IF Get(c, c.editor.app) = None
                  THEN ShowLoading(c, "contextLoading") ELSE c
<1>1. c \in Ime /\ NoneRevived(m, c)
  BY CancelRevivesNone
<1>2. \/ Schedule(m, trigger) = m
      \/ Schedule(m, trigger) = c
      \/ Schedule(m, trigger) = Show(d, "nothing")
      \/ Schedule(m, trigger) = Show(d, "permission")
      \/ c.editor.field = "chat" /\ Schedule(m, trigger) = Launch(e, trigger)
  <2>1. c.editor.field \in {"hidden", "refused", "unpermitted", "chat"}
    <3> HIDE DEF c
    <3> QED BY <1>1 DEF Ime, Editor, NoEditor
  <2> HIDE DEF d, e
  <2>2. Schedule(m, trigger)
          = IF trigger = "ContextChange" /\ CurrentIsActive(m) THEN m
            ELSE CASE c.editor.field = "hidden" -> c
                   [] c.editor.field = "refused" -> Show(d, "nothing")
                   [] c.editor.field = "unpermitted" -> Show(d, "permission")
                   [] c.editor.field = "chat" -> Launch(e, trigger)
    BY DEF Schedule, Dismiss, d, e
  <2> HIDE DEF c
  <2> QED BY <2>1, <2>2
<1> HIDE DEF c
<1>3. d \in Ime /\ NoneRevived(c, d)
  BY <1>1, CaptureStateRevivesNone
<1>4. e \in Ime /\ NoneRevived(c, e) /\ e.editor = c.editor
  <2>1. "contextLoading" \in Bar
    BY DEF Bar
  <2>2. Show(c, "contextLoading").editor = c.editor
    BY <1>1 DEF Show, Ime
  <2>3. NoneRevived(c, c)
    BY DEF NoneRevived
  <2> QED BY <1>1, <2>1, <2>2, <2>3, ShowRevivesNone DEF ShowLoading
<1> HIDE DEF d, e
<1>5. NoneRevived(d, Show(d, "nothing")) /\ NoneRevived(d, Show(d, "permission"))
  BY <1>3, ShowRevivesNone DEF Bar
<1>6. ASSUME c.editor.field = "chat" PROVE NoneRevived(e, Launch(e, trigger))
  <2>1. e.editor.app \in Apps
    BY <1>4, <1>6 DEF Ime, Editor, NoEditor
  <2> QED BY <1>4, <2>1, LaunchRevivesNone
<1>7. NoneRevived(m, m)
  BY DEF NoneRevived
<1> QED
  BY <1>1, <1>2, <1>3, <1>4, <1>5, <1>6, <1>7, RevivesNoneTwice

LEMMA UpdateRevivesNone ==
  ASSUME NEW m \in Ime, NEW snapshot \in Snapshot
  PROVE  NoneRevived(m, Update(m, snapshot))
<1> DEFINE n == [m EXCEPT !.store = snapshot]
<1>1. n \in Ime /\ n.jobs = m.jobs
  BY DEF Ime
<1>2. Update(m, snapshot) \in {n, Schedule(n, "ContextChange")}
  BY DEF Update
<1> HIDE DEF n
<1> QED
  BY <1>1, <1>2, ScheduleRevivesNone, SameJobsRevivesNone, RevivesNoneTwice
  DEF Trigger

LEMMA ScheduleAroundRevivesNone ==
  ASSUME NEW m \in Ime, NEW trigger \in Trigger, NEW captured \in Snapshot,
         Backed(m), Chained(m), CapturesInline(m, trigger, captured)
  PROVE  NoneRevived(m, ScheduleAround(m, trigger, captured))
<1> DEFINE c == CancelCurrent(m)
           d == ShowLoading(c, "contextLoading")
           k == [d EXCEPT !.store = captured]
           u == Launch(k, "ContextChange")
           j == [u.jobs[u.current] EXCEPT !.astray = TRUE]
           a == [u EXCEPT !.jobs = [u.jobs EXCEPT ![u.current] = j]]
<1>1. c \in Ime /\ NoneRevived(m, c)
  BY CancelRevivesNone
<1>2. /\ Backed(k) /\ k.jobs = c.jobs /\ Backed(u) /\ u.current \in Slots
      /\ u.editor = m.editor /\ u.editor.app \in Apps
      /\ ScheduleAround(m, trigger, captured) = Launch(a, trigger)
  BY AroundSteps DEF ScheduleAround
<1> HIDE DEF c
<1>3. NoneRevived(c, k) /\ k \in Ime
  BY <1>2, SameJobsRevivesNone DEF Backed, Sound
<1>4. k.editor.app \in Apps
  <2> HIDE DEF k
  <2> QED
    BY <1>2, <1>3 DEF Launch, Ime
<1> HIDE DEF k
<1>5. NoneRevived(k, u)
  BY <1>3, <1>4, LaunchRevivesNone DEF Trigger
<1> HIDE DEF u
<1>6. u \in Ime /\ u.jobs \in [Slots -> Job] /\ u.jobs[u.current] \in Job
  BY <1>2 DEF Backed, Sound, Ime
<1>7. /\ j \in Job /\ j.step = u.jobs[u.current].step
      /\ j.cancelled = u.jobs[u.current].cancelled
  BY <1>6 DEF Job
<1> HIDE DEF j
<1>8. /\ a \in Ime /\ a.jobs = [u.jobs EXCEPT ![u.current] = j]
      /\ a.editor = u.editor
  BY <1>6, <1>7 DEF Ime
<1> HIDE DEF a
<1>9. NoneRevived(u, a)
  BY <1>2, <1>6, <1>7, <1>8 DEF NoneRevived
<1>10. NoneRevived(a, Launch(a, trigger))
  BY <1>2, <1>8, LaunchRevivesNone
<1> QED
  BY <1>1, <1>2, <1>3, <1>5, <1>9, <1>10, RevivesNoneTwice

\* A coroutine that resumes, unless it is about to begin its request.
LEMMA CoroutineRevivesNone ==
  ASSUME IInv, NEW s \in Slots,
         \/ Receive(s) \/ Deliver(s) \/ SnapshotArrives(s)
         \/ SnapshotTimeout(s) \/ Succeed(s) \/ Fail(s)
  PROVE  NoneRevived(ime, ime')
<1>1. ime \in Ime /\ ime.jobs \in [Slots -> Job] /\ ime.jobs[s] \in Job
  BY DEF IInv, Backed, Sound, Ime
<1>2. CASE Receive(s)
  BY <1>1, <1>2 DEF Receive, NoneRevived, Ime, Job
<1>3. CASE Deliver(s)
  BY <1>1, <1>3 DEF Deliver, NoneRevived, Ime, Job
<1>4. CASE SnapshotArrives(s)
  BY <1>1, <1>4 DEF SnapshotArrives, NoneRevived, Ime, Job
<1> DEFINE e == [ime EXCEPT !.jobs[s] = NoJob]
<1>5. e \in Ime /\ NoneRevived(ime, e)
  <2>1. e \in Ime /\ e.jobs = [ime.jobs EXCEPT ![s] = NoJob]
    BY <1>1, NoJobTyped DEF Ime
  <2> HIDE DEF e
  <2> QED BY <1>1, <2>1 DEF NoneRevived, NoJob
<1>6. SnapshotTimeout(s) => ime' = Show(e, "retry")
  BY DEF SnapshotTimeout
<1>7. \A n \in Ime : \A f, b : Complete(n, f, b).jobs = n.jobs
  BY DEF Complete, Ime
<1>8. Succeed(s) => ime'.jobs = e.jobs
  <2>1. Succeed(s) => ime' = Complete(e, ime.jobs[s].subject, IsActive(ime, s))
    BY DEF Succeed
  <2> HIDE DEF e
  <2> QED BY <1>5, <1>7, <2>1
<1>9. Fail(s) => ime'.jobs = Show(e, "retry").jobs
  <2>1. Fail(s) => ime' = Complete(Show(e, "retry"), ime.jobs[s].subject, FALSE)
    BY DEF Fail
  <2> HIDE DEF e
  <2>2. Show(e, "retry") \in Ime
    BY <1>5, ShowRevivesNone DEF Bar
  <2> QED BY <2>1, <2>2 DEF Complete, Ime
<1> HIDE DEF e
<1>10. NoneRevived(e, Show(e, "retry"))
  BY <1>5, ShowRevivesNone DEF Bar
<1> QED
  BY <1>2, <1>3, <1>4, <1>5, <1>6, <1>8, <1>9, <1>10, SameJobsRevivesNone,
     RevivesNoneTwice

\* Every callback of the input view, of the accessibility service and of the
\* bar.
LEMMA CallbackRevivesNone ==
  ASSUME IInv,
         \/ \E editor \in Editor : StartInputView(editor)
         \/ FinishInputView
         \/ \E snapshot \in Snapshot : Capture(snapshot)
         \/ Lose \/ Refresh \/ Select \/ Forget
         \/ \E conversation \in Conversation : Forgotten(conversation)
  PROVE  NoneRevived(ime, ime')
<1>1. ime \in Ime
  BY DEF IInv, Backed, Sound
<1>2. ASSUME NEW editor \in Editor, StartInputView(editor)
      PROVE  NoneRevived(ime, ime')
  <2> DEFINE k == [ime EXCEPT !.editor = editor]
             m == UpdateCaptureState(k)
  <2>1. /\ k \in Ime /\ k.jobs = ime.jobs
        /\ Backed(m) /\ Chained(m)
        /\ \/ ime' = Schedule(m, "ContextChange")
           \/ \E captured \in Snapshot :
                /\ m.active = captured.app
                /\ ime' = Schedule(Update(m, captured), "ContextChange")
           \/ \E captured \in Snapshot :
                /\ CapturesInline(m, "ContextChange", captured)
                /\ ime' = ScheduleAround(m, "ContextChange", captured)
        /\ FreeSlots(m) # {}
    BY <1>2, ViewStarted
  <2> HIDE DEF k
  <2>2. NoneRevived(k, m) /\ m \in Ime
    BY <2>1, CaptureStateRevivesNone
  <2> HIDE DEF m
  <2>3. NoneRevived(m, ime')
    <3>1. ASSUME NEW captured \in Snapshot, m.active = captured.app,
                 ime' = Schedule(Update(m, captured), "ContextChange")
          PROVE  NoneRevived(m, ime')
      <4>1. Update(m, captured) \in Ime
        BY <2>1, <3>1, UpdateBacked DEF Backed, Sound
      <4> QED
        BY <2>2, <3>1, <4>1, UpdateRevivesNone, ScheduleRevivesNone,
           RevivesNoneTwice DEF Trigger
    <3> QED
      BY <2>1, <2>2, <3>1, ScheduleRevivesNone, ScheduleAroundRevivesNone
      DEF Trigger
  <2> QED
    BY <2>1, <2>2, <2>3, SameJobsRevivesNone, RevivesNoneTwice
<1>3. CASE FinishInputView
  <2> DEFINE d == Deactivate(ime)
             c == CancelCurrent(d)
  <2>1. d \in Ime /\ NoneRevived(ime, d)
    BY <1>1, CaptureStateRevivesNone
  <2>2. ime' = [Dismiss(ResetGate(c)) EXCEPT !.editor = NoEditor, !.current = None]
    BY <1>3 DEF FinishInputView
  <2> HIDE DEF d
  <2>3. c \in Ime /\ NoneRevived(d, c)
    BY <2>1, CancelRevivesNone
  <2> HIDE DEF c
  <2>4. ime'.jobs = c.jobs
    <3>1. ResetGate(c) \in Ime /\ ResetGate(c).jobs = c.jobs
      BY <2>3 DEF ResetGate, Ime
    <3>2. Dismiss(ResetGate(c)) \in Ime /\ Dismiss(ResetGate(c)).jobs = c.jobs
      BY <3>1 DEF Dismiss, Show, Ime, Bar
    <3> QED BY <2>2, <3>2 DEF Ime
  <2> QED
    BY <2>1, <2>3, <2>4, SameJobsRevivesNone, RevivesNoneTwice
<1>4. CASE (\E snapshot \in Snapshot : Capture(snapshot)) \/ Lose
  BY <1>1, <1>4, UpdateRevivesNone, ClearRevivesNone DEF Capture, Lose
<1>6. CASE Refresh
  <2>1. PICK m \in {ime, Clear(ime)} :
          \/ ime' = Schedule(m, "ManualRefresh")
          \/ \E captured \in Snapshot :
               /\ CapturesInline(m, "ManualRefresh", captured)
               /\ ime' = ScheduleAround(m, "ManualRefresh", captured)
    BY <1>6 DEF Refresh
  <2>2. m \in Ime /\ NoneRevived(ime, m)
    BY <1>1, ClearRevivesNone, SameJobsRevivesNone
  <2>3. Backed(m) /\ Chained(m)
    BY ClearBacked DEF IInv, Chained, StoreIsActive, ActiveIsEditor
  <2>4. NoneRevived(m, ime')
    BY <2>1, <2>2, <2>3, ScheduleRevivesNone, ScheduleAroundRevivesNone
    DEF Trigger
  <2> QED
    BY <2>2, <2>4, RevivesNoneTwice
<1>5. CASE Select \/ Forget \/ \E conversation \in Conversation : Forgotten(conversation)
  <2>1. ime'.jobs = ime.jobs
    BY <1>1, <1>5 DEF Select, Forget, Forgotten, Dismiss, Show, ResetGate, Ime
  <2> QED BY <2>1, SameJobsRevivesNone
<1> QED BY <1>2, <1>3, <1>4, <1>5, <1>6

\* The request that begins is the only job that changes.
LEMMA MemoryLoadedElsewhere ==
  ASSUME ime \in Ime, NEW s \in Slots, MemoryLoaded(s)
  PROVE  \A t \in Slots : t # s => ime'.jobs[t] = ime.jobs[t]
<1> DEFINE k == [ime EXCEPT !.pending = ime.jobs[s].subject,
                            !.jobs[s].step = "requesting"]
<1>1. CASE Generates(ime, ime.jobs[s].subject, ime.jobs[s].trigger)
  <2>1. \A t \in Slots : t # s => k.jobs[t] = ime.jobs[t]
    BY DEF Ime
  <2>2. ime' = ShowLoading(k, "loading")
    BY <1>1 DEF MemoryLoaded
  <2>3. DOMAIN k = DOMAIN ime /\ "jobs" \in DOMAIN ime
    BY DEF Ime
  <2> HIDE DEF k
  <2>4. ime'.jobs = k.jobs
    BY <2>2, <2>3 DEF ShowLoading, Show
  <2> QED BY <2>1, <2>4
<1>2. CASE ~Generates(ime, ime.jobs[s].subject, ime.jobs[s].trigger)
  BY <1>2 DEF MemoryLoaded, Ime
<1> QED BY <1>1, <1>2

\* A request whose read goes on after its cancellation is cancelled for good,
\* whatever is scheduled meanwhile.
CancelledForGood ==
  [][\A s \in Slots :
       /\ ime.jobs[s].step = "requesting" /\ ime.jobs[s].cancelled
       /\ ime'.jobs[s].step = "requesting"
       => ime'.jobs[s].cancelled]_vars

\* langouSuggestionJob?.cancel() reaches a request that nothing brings back to
\* life: UrlConnectionTransport may go on reading, its events find it inactive.
THEOREM CancelledNeverSpeaks == Spec => CancelledForGood
<1> DEFINE Good == \A s \in Slots :
              /\ ime.jobs[s].step = "requesting" /\ ime.jobs[s].cancelled
              /\ ime'.jobs[s].step = "requesting"
              => ime'.jobs[s].cancelled
<1>1. IInv /\ [Next]_vars => [Good]_vars
  <2> SUFFICES ASSUME IInv, Next PROVE Good
    BY DEF vars
  <2>1. NoneRevived(ime, ime') => Good
    BY DEF NoneRevived
  <2>2. ASSUME NEW s \in Slots, MemoryLoaded(s) PROVE Good
    <3>1. /\ ime \in Ime /\ ime.jobs[s].step = "loading"
      BY <2>2 DEF IInv, Backed, Sound, MemoryLoaded
    <3>2. \A t \in Slots : t # s => ime'.jobs[t] = ime.jobs[t]
      BY <2>2, <3>1, MemoryLoadedElsewhere
    <3> QED BY <3>1, <3>2
  <2> QED
    BY <2>1, <2>2, CoroutineRevivesNone, CallbackRevivesNone DEF Next, JobStep
<1> QED BY <1>1, InvariantHolds, PTL DEF Spec, CancelledForGood
=============================================================================
