---------------------------- MODULE AndroidSession ----------------------------
(***************************************************************************)
(* The session of an Android installation: LangouSessionManager over       *)
(* SecureSessionStore, used by the suggestion requests of the input method *)
(* and by the account screen, and the backend that issues the token pairs  *)
(* and accepts every refresh token once.                                   *)
(*                                                                         *)
(* The input method and each account screen build a manager, hence a       *)
(* mutex, of their own over the one preference file.  All of them run on   *)
(* the main thread: they interleave where a network call suspends.  The    *)
(* process may be killed anywhere, and a save may be cut short: by a kill, *)
(* or by a commit that fails, which throws and leaves the process running. *)
(***************************************************************************)
EXTENDS Naturals, FiniteSets

CONSTANTS
  Managers,     \* LangouSessionManager objects
  Callers,      \* coroutines that ask a manager for a session
  ManagerOf,    \* the manager each caller uses
  SignIns,      \* the callers that run verifyAndSignIn
  MaxExpiries,  \* how often an access token expires
  MaxSignIns,   \* how often somebody signs in
  MaxFaults,    \* lost answers, cancelled scopes, kills, saves that fail and
                \* months without a refresh
  None

\* The subject of a pair is the device of a guest, or the user.
User == 0

\* A pair of access and refresh token, told apart by a serial number.
Pair == [serial : Nat, subject : Nat]

ASSUME ConstantsAssumption ==
  /\ ManagerOf \in [Callers -> Managers]
  /\ SignIns \subseteq Callers
  /\ {MaxExpiries, MaxSignIns, MaxFaults} \subseteq Nat
  /\ None \notin Managers /\ None \notin Pair

KindOf(pair) == IF pair.subject = User THEN "user" ELSE "guest"

\* The preferences.  token_type and expires_in, which never change, are
\* written between refresh_token and subject_type and stand with the latter.
Preferences ==
  [device : Nat, access : Pair \cup {None}, refresh : Pair \cup {None},
   kind : {"none", "guest", "user"}, expiry : {"none", "fresh", "expired"}]

\* waiting, replacing: for the mutex, in validSession and in replaceSession;
\* creating, refreshing: in validSession, with the mutex held;
\* verifying, merging: verifySms and mergeGuest of verifyAndSignIn
Step == {"idle", "waiting", "creating", "refreshing", "verifying", "merging",
         "replacing"}

Call == [step : Step,
         device : Nat,             \* of the session to be saved
         token : Pair \cup {None}, \* the refresh token that was read
         guest : BOOLEAN,          \* previous.tokens.subjectType == "guest"
         reply : {"none", "granted", "refused"},
         pair : Pair \cup {None},  \* the pair the backend issued
         cancelled : BOOLEAN]

NoCall == [step |-> "idle", device |-> 0, token |-> None, guest |-> FALSE,
           reply |-> "none", pair |-> None, cancelled |-> FALSE]

VARIABLES
  store,    \* the preference file
  calls,    \* what each caller is doing
  devices,  \* device ids made so far
  issued,   \* pairs issued so far
  spent,    \* serial numbers of the refresh tokens the backend has consumed
  aged,     \* the last serial number that is older than REFRESH_TTL
  savedBy,  \* the manager that made this process's last save, a whole one
  lost,     \* a granted pair was thrown away, or a save was cut short
  torn,     \* a save was cut short
  count     \* expiries, sign-ins and faults so far

vars ==
  <<store, calls, devices, issued, spent, aged, savedBy, lost, torn, count>>

Count == [expiries : 0..MaxExpiries, signIns : 0..MaxSignIns,
          faults : 0..MaxFaults]

TypeOK ==
  /\ store \in Preferences
  /\ calls \in [Callers -> Call]
  /\ devices \in Nat /\ issued \in Nat
  /\ spent \subseteq Nat /\ aged \in Nat
  /\ savedBy \in Managers \cup {None}
  /\ lost \in BOOLEAN /\ torn \in BOOLEAN
  /\ count \in Count

Init ==
  /\ store = [device |-> 0, access |-> None, refresh |-> None,
              kind |-> "none", expiry |-> "none"]
  /\ calls = [c \in Callers |-> NoCall]
  /\ devices = 0 /\ issued = 0 /\ spent = {} /\ aged = 0
  /\ savedBy = None /\ lost = FALSE /\ torn = FALSE
  /\ count = [expiries |-> 0, signIns |-> 0, faults |-> 0]

-----------------------------------------------------------------------------
(* SecureSessionStore. *)

\* load: all fields but the expiry must be there
Loadable(s) ==
  s.device # 0 /\ s.access # None /\ s.refresh # None /\ s.kind # "none"

Fresh == Loadable(store) /\ store.expiry = "fresh"

\* Mutant: a device id that is stored already is kept.
SessionOldDevice(device, pair) ==
  [device |-> IF store.device = 0 THEN device ELSE store.device,
   access |-> pair, refresh |-> pair, kind |-> KindOf(pair), expiry |-> "fresh"]

Session(device, pair) ==
  [device |-> device, access |-> pair, refresh |-> pair,
   kind |-> KindOf(pair), expiry |-> "fresh"]

\* The preferences after the first n of save's commits.
Written(s, n) ==
  [device  |-> IF n >= 1 THEN s.device ELSE store.device,
   access  |-> IF n >= 2 THEN s.access ELSE store.access,
   refresh |-> IF n >= 3 THEN s.refresh ELSE store.refresh,
   kind    |-> IF n >= 4 THEN s.kind ELSE store.kind,
   expiry  |-> IF n >= 5 THEN s.expiry ELSE store.expiry]

-----------------------------------------------------------------------------
(* LangouSessionManager. *)

\* Mutant: a manager without a mutex.
NotLocked(m) == FALSE

\* Mutant: the sign-in as a whole holds the mutex, which is not reentrant.
LockedBySignIn(m) ==
  \E c \in Callers :
     ManagerOf[c] = m /\ calls[c].step \notin {"idle", "waiting"}

\* mutex.isLocked: only creating and refreshing suspend with the mutex held
Locked(m) ==
  \E c \in Callers :
     ManagerOf[c] = m /\ calls[c].step \in {"creating", "refreshing"}

\* What follows validSession: a sign-in goes on with what it was given.
Continue(c, session) ==
  IF c \in SignIns
    THEN [NoCall EXCEPT !.step = "verifying", !.token = session.refresh,
                        !.guest = (session.kind = "guest")]
    ELSE NoCall

\* validSession is called: by a suggestion request, by the account screen
Ask(c) ==
  /\ calls[c].step = "idle"
  /\ c \in SignIns => count.signIns < MaxSignIns
  /\ calls' = [calls EXCEPT ![c].step = "waiting"]
  /\ count' = IF c \in SignIns THEN [count EXCEPT !.signIns = @ + 1] ELSE count
  /\ UNCHANGED <<store, devices, issued, spent, aged, savedBy, lost, torn>>

Enters(c) == calls[c].step = "waiting" /\ ~Locked(ManagerOf[c])

\* Mutant: the device id is the stored one, and there is none.
CreateSameGuest(c) ==
  /\ Enters(c)
  /\ ~Loadable(store)
  /\ calls' = [calls EXCEPT
                 ![c] = [@ EXCEPT !.step = "creating", !.device = None]]
  /\ UNCHANGED <<store, devices, issued, spent, aged, savedBy, lost, torn, count>>

\* createGuest, up to the request
CreateGuest(c) ==
  /\ Enters(c)
  /\ ~Loadable(store)
  /\ devices' = devices + 1
  /\ calls' = [calls EXCEPT
       ![c] = [@ EXCEPT !.step = "creating", !.device = devices + 1]]
  /\ UNCHANGED <<store, issued, spent, aged, savedBy, lost, torn, count>>

UseStored(c) ==
  /\ Enters(c)
  /\ Fresh
  /\ calls' = [calls EXCEPT ![c] = Continue(c, store)]
  /\ UNCHANGED <<store, devices, issued, spent, aged, savedBy, lost, torn, count>>

Refresh(c) ==
  /\ Enters(c)
  /\ Loadable(store) /\ store.expiry # "fresh"
  /\ calls' = [calls EXCEPT
       ![c] = [@ EXCEPT !.step = "refreshing", !.device = store.device,
                        !.token = store.refresh]]
  /\ UNCHANGED <<store, devices, issued, spent, aged, savedBy, lost, torn, count>>

\* The answer arrived and its caller was not cancelled: persist.
Renewed(c) ==
  /\ calls[c].step \in {"creating", "refreshing"}
  /\ calls[c].reply = "granted" /\ ~calls[c].cancelled

RenewedSession(c) == Session(calls[c].device, calls[c].pair)

Persist(c) ==
  /\ Renewed(c)
  /\ store' = RenewedSession(c)
  /\ savedBy' = ManagerOf[c]
  /\ calls' = [calls EXCEPT ![c] = Continue(c, RenewedSession(c))]
  /\ UNCHANGED <<devices, issued, spent, aged, lost, torn, count>>

\* Mutant: a merge that failed ends the sign-in as well.
ThrowsInMerge(c) ==
  /\ calls[c].step \in {"creating", "refreshing", "verifying", "merging"}
  /\ \/ calls[c].reply = "refused"
     \/ calls[c].reply = "granted" /\ calls[c].cancelled

\* Is the call c about to throw?  A refused or lost request throws, and so
\* does a call that returns to a cancelled coroutine.
Throws(c) ==
  /\ calls[c].step \in {"creating", "refreshing", "verifying"}
  /\ \/ calls[c].reply = "refused"
     \/ calls[c].reply = "granted" /\ calls[c].cancelled

\* Has the backend consumed the stored token for an answer that c holds?
HoldsRotation(c) ==
  calls[c].step = "refreshing" /\ calls[c].reply = "granted"

Throw(c) ==
  /\ Throws(c)
  /\ calls' = [calls EXCEPT ![c] = NoCall]
  /\ lost' = (lost \/ HoldsRotation(c))
  /\ UNCHANGED <<store, devices, issued, spent, aged, savedBy, torn, count>>

-----------------------------------------------------------------------------
(* verifyAndSignIn. *)

\* A guest's data is merged before the user's session is saved.
Merge(c) ==
  /\ calls[c].step = "verifying" /\ calls[c].reply = "granted"
  /\ ~calls[c].cancelled
  /\ calls[c].guest
  /\ calls' = [calls EXCEPT ![c] = [@ EXCEPT !.step = "merging", !.reply = "none"]]
  /\ UNCHANGED <<store, devices, issued, spent, aged, savedBy, lost, torn, count>>

\* Is c at replaceSession?  runCatching lets it come here from a mergeGuest
\* that failed or was cancelled.
Replaces(c) ==
  \/ /\ calls[c].step = "verifying" /\ calls[c].reply = "granted"
     /\ ~calls[c].cancelled /\ ~calls[c].guest
  \/ calls[c].step = "merging" /\ calls[c].reply # "none"
  \/ calls[c].step = "replacing"

UserSession(c) ==
  Session(IF Loadable(store) THEN store.device ELSE devices + 1, calls[c].pair)

ReplaceSession(c) ==
  /\ Replaces(c) /\ ~Locked(ManagerOf[c])
  /\ store' = UserSession(c)
  /\ devices' = IF Loadable(store) THEN devices ELSE devices + 1
  /\ savedBy' = ManagerOf[c]
  /\ calls' = [calls EXCEPT ![c] = NoCall]
  /\ UNCHANGED <<issued, spent, aged, lost, torn, count>>

\* A free mutex is taken without a look at the cancellation; one that has to
\* be waited for is not.
AwaitMutex(c) ==
  /\ Replaces(c) /\ Locked(ManagerOf[c])
  /\ calls[c].step # "replacing"
  /\ calls' = [calls EXCEPT ![c] = IF calls[c].cancelled THEN NoCall
                                   ELSE [@ EXCEPT !.step = "replacing"]]
  /\ lost' = (lost \/ calls[c].cancelled)
  /\ UNCHANGED <<store, devices, issued, spent, aged, savedBy, torn, count>>

-----------------------------------------------------------------------------
(* The backend: /v1/devices/guest-session, /v1/auth/token/refresh,         *)
(* /v1/auth/sms/verify and /v1/auth/sms/merge.                             *)

Asked(c, step) == calls[c].step = step /\ calls[c].reply = "none"

Grant(c, subject) ==
  /\ issued' = issued + 1
  /\ calls' = [calls EXCEPT ![c] = [@ EXCEPT !.reply = "granted",
        !.pair = [serial |-> issued + 1, subject |-> subject]]]

Refuse(c) == calls' = [calls EXCEPT ![c].reply = "refused"]

GrantGuest(c) ==
  /\ Asked(c, "creating")
  /\ Grant(c, calls[c].device)
  /\ UNCHANGED <<store, devices, spent, aged, savedBy, lost, torn, count>>

\* verify_refresh, and SqlRefreshSessionRepository.consume: the serial number
\* is a primary key
Valid(token) == token.serial \notin spent /\ token.serial > aged

Rotate(c) ==
  /\ Asked(c, "refreshing")
  /\ Valid(calls[c].token)
  /\ spent' = spent \cup {calls[c].token.serial}
  /\ Grant(c, calls[c].token.subject)
  /\ UNCHANGED <<store, devices, aged, savedBy, lost, torn, count>>

RefuseRotation(c) ==
  /\ Asked(c, "refreshing")
  /\ ~Valid(calls[c].token)
  /\ Refuse(c)
  /\ UNCHANGED <<store, devices, issued, spent, aged, savedBy, lost, torn, count>>

\* The code is right, or it is not.
VerifySms(c) ==
  /\ Asked(c, "verifying")
  /\ Grant(c, User)
  /\ UNCHANGED <<store, devices, spent, aged, savedBy, lost, torn, count>>

RefuseSms(c) ==
  /\ Asked(c, "verifying")
  /\ Refuse(c)
  /\ UNCHANGED <<store, devices, issued, spent, aged, savedBy, lost, torn, count>>

Claimable(c) ==
  calls[c].token.subject # User /\ Valid(calls[c].token)

ClaimGuest(c) ==
  /\ Asked(c, "merging")
  /\ Claimable(c)
  /\ spent' = spent \cup {calls[c].token.serial}
  /\ calls' = [calls EXCEPT ![c].reply = "granted"]
  /\ UNCHANGED <<store, devices, issued, aged, savedBy, lost, torn, count>>

RefuseClaim(c) ==
  /\ Asked(c, "merging")
  /\ ~Claimable(c)
  /\ Refuse(c)
  /\ UNCHANGED <<store, devices, issued, spent, aged, savedBy, lost, torn, count>>

-----------------------------------------------------------------------------
(* Time and faults. *)

Expire ==
  /\ store.expiry = "fresh"
  /\ count.expiries < MaxExpiries
  /\ store' = [store EXCEPT !.expiry = "expired"]
  /\ count' = [count EXCEPT !.expiries = @ + 1]
  /\ UNCHANGED <<calls, devices, issued, spent, aged, savedBy, lost, torn>>

Fault ==
  /\ count.faults < MaxFaults
  /\ count' = [count EXCEPT !.faults = @ + 1]

\* Thirty days pass since the pair n was issued.  By then its access token has
\* expired, and no request that has answered is still under way.
Age(n) ==
  /\ Fault
  /\ n \in (aged + 1)..issued
  /\ store.expiry = "fresh" => n < store.refresh.serial
  /\ \A c \in Callers : calls[c].pair # None => n < calls[c].pair.serial
  /\ aged' = n
  /\ UNCHANGED <<store, calls, devices, issued, spent, savedBy, lost, torn>>

\* A request fails, before the backend has seen it or after.
LoseAnswer(c) ==
  /\ Fault
  /\ calls[c].step \in {"creating", "refreshing", "verifying", "merging"}
  /\ calls[c].reply # "refused"
  /\ calls' = [calls EXCEPT ![c] = [@ EXCEPT !.reply = "refused",
        !.pair = IF calls[c].step = "merging" THEN calls[c].pair ELSE None]]
  /\ lost' = (lost \/ HoldsRotation(c))
  /\ UNCHANGED <<store, devices, issued, spent, aged, savedBy, torn>>

\* Waiting for the mutex is cancelled at once; a blocking call ends first.
CancelledCall(call) ==
  IF call.step \in {"idle", "waiting", "replacing"}
    THEN NoCall ELSE [call EXCEPT !.cancelled = TRUE]

\* A newer request cancels the one under way; the account screen goes.
Cancel(m) ==
  LET scope == {c \in Callers : ManagerOf[c] = m} IN
  /\ Fault
  /\ \E c \in scope : calls[c].step # "idle" /\ ~calls[c].cancelled
  /\ calls' = [c \in Callers |->
                 IF c \in scope THEN CancelledCall(calls[c]) ELSE calls[c]]
  /\ lost' = (lost \/ \E c \in scope : calls[c].step = "replacing")
  /\ UNCHANGED <<store, devices, issued, spent, aged, savedBy, torn>>

\* Does c hold a pair whose predecessor the backend may have consumed?
HoldsSuccessor(c) ==
  \/ HoldsRotation(c)
  \/ calls[c].step = "merging" /\ calls[c].reply # "none"
  \/ calls[c].step = "replacing"

Die ==
  /\ Fault
  /\ calls' = [c \in Callers |-> NoCall]
  /\ savedBy' = None
  /\ UNCHANGED <<issued, spent, aged>>

Kill ==
  /\ Die
  /\ lost' = (lost \/ \E c \in Callers : HoldsSuccessor(c))
  /\ UNCHANGED <<store, devices, torn>>

\* The first n commits of the save that c is about to make.
CutShort(c, n) ==
  /\ \/ /\ Renewed(c)
        /\ store' = Written(RenewedSession(c), n)
        /\ UNCHANGED devices
     \/ /\ Replaces(c) /\ ~Locked(ManagerOf[c])
        /\ store' = Written(UserSession(c), n)
        /\ devices' = IF Loadable(store) THEN devices ELSE devices + 1
  /\ lost' = TRUE /\ torn' = TRUE

KillInSave(c) == Die /\ \E n \in 1..4 : CutShort(c, n)

\* A commit fails, and put throws; its value may be kept in memory all the same.
FailSave(c) ==
  /\ Fault
  /\ \E n \in 0..5 : CutShort(c, n)
  /\ calls' = [calls EXCEPT ![c] = NoCall]
  /\ savedBy' = None
  /\ UNCHANGED <<issued, spent, aged>>

-----------------------------------------------------------------------------
Enter(c) == CreateGuest(c) \/ UseStored(c) \/ Refresh(c)

Serve(c) ==
  \/ GrantGuest(c) \/ Rotate(c) \/ RefuseRotation(c)
  \/ VerifySms(c) \/ RefuseSms(c) \/ ClaimGuest(c) \/ RefuseClaim(c)

Resume(c) ==
  Persist(c) \/ Throw(c) \/ Merge(c) \/ ReplaceSession(c) \/ AwaitMutex(c)

Faults ==
  \/ \E c \in Callers : LoseAnswer(c) \/ KillInSave(c) \/ FailSave(c)
  \/ \E m \in Managers : Cancel(m)
  \/ \E n \in 1..issued : Age(n)
  \/ Kill

Next ==
  \/ \E c \in Callers : Ask(c) \/ Enter(c) \/ Serve(c) \/ Resume(c)
  \/ Expire
  \/ Faults

Spec == Init /\ [][Next]_vars

\* Requests end (the transport has time-outs), the main thread goes on, and
\* the mutex is fair; somebody who does not sign in keeps asking: the user of
\* an input method goes on typing.
Fairness ==
  \A c \in Callers :
     /\ WF_vars(Serve(c) \/ Resume(c))
     /\ SF_vars(Enter(c) \/ ReplaceSession(c))
     /\ c \notin SignIns => WF_vars(Ask(c))

FairSpec == Spec /\ Fairness

-----------------------------------------------------------------------------
(* Properties. *)

\* A stored session whose refresh token is spent is only a moment's: a
\* successor is on its way to the store, unless one was thrown away.
SuccessorComes ==
  (~lost /\ Loadable(store) /\ store.refresh.serial \in spent)
    => \E c \in Callers : HoldsSuccessor(c)

\* The fields of the stored session are of one session, whoever saved last:
\* a guest's tokens are stored with the device they were issued to (the
\* backend answers 403 otherwise), unless a save was cut short.
StoredWhole ==
  (~torn /\ Loadable(store)) =>
     /\ store.access = store.refresh
     /\ store.kind = KindOf(store.access)
     /\ store.kind = "guest" => store.device = store.access.subject

\* The mutex does what it is for: a manager that saved a user's session has
\* no guest's session under way that would replace it.
MutexKeepsUser ==
  (savedBy # None /\ store.kind = "user") =>
     \A c \in Callers :
        (ManagerOf[c] = savedBy /\ calls[c].step \in {"creating", "refreshing"})
          => calls[c].step = "refreshing" /\ calls[c].token.subject = User

\* Somebody who has signed in stays signed in.
SignInLasts ==
  [][(Loadable(store) /\ store.kind = "user")
       => (Loadable(store') /\ store'.kind = "user")]_vars

\* The stored session can only be refreshed, and its token is too old for that.
Outdated == Loadable(store) /\ store.refresh.serial <= aged

\* A session that has expired, or does not exist yet, is eventually replaced by
\* a fresh one, unless a granted pair was thrown away, a save cut short, or the
\* session left alone for REFRESH_TTL.
ExpiredIsRenewed == (~Fresh /\ ~lost) ~> (Fresh \/ lost \/ Outdated)
=============================================================================
