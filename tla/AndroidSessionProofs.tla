------------------------ MODULE AndroidSessionProofs ------------------------
(***************************************************************************)
(* Proofs about AndroidSession, for every set of managers and callers, any *)
(* number of sign-ins, and any number of expiries and faults.              *)
(***************************************************************************)
EXTENDS AndroidSession, TLAPS

-----------------------------------------------------------------------------
(* The inductive invariant. *)

\* A call has what its step needs: validSession a device, a request that
\* sends a refresh token the token, an answer its pair.
CallTrue(k) ==
  /\ k.step \in {"idle", "waiting"} =>
       k.reply = "none" /\ k.pair = None /\ k.token = None /\ ~k.cancelled
  /\ k.step \in {"creating", "refreshing"} => k.device # 0
  /\ k.step \in {"refreshing", "verifying", "merging"} => k.token \in Pair
  /\ k.step \in {"creating", "refreshing", "verifying"} /\ k.reply = "granted"
       => k.pair \in Pair
  /\ k.step = "creating" /\ k.reply = "granted" => k.pair.subject = k.device
  /\ k.step = "refreshing" /\ k.reply = "granted"
       => k.pair.subject = k.token.subject
  /\ k.step = "verifying" /\ k.reply = "granted" => k.pair.subject = User
  /\ k.step \in {"merging", "replacing"}
       => k.pair \in Pair /\ k.pair.subject = User

CallsTrue == \A c \in Callers : CallTrue(calls[c])

\* Only pairs that were issued are anywhere.
Issued ==
  /\ \A n \in spent : n <= issued
  /\ store.refresh # None => store.refresh.serial <= issued
  /\ \A c \in Callers :
       /\ calls[c].token # None => calls[c].token.serial <= issued
       /\ calls[c].pair # None => calls[c].pair.serial <= issued

\* A pair that a call holds is known to that call alone.
Secret ==
  \A c \in Callers : calls[c].pair # None =>
     /\ calls[c].pair.serial \notin spent
     /\ store.refresh # None => store.refresh.serial # calls[c].pair.serial
     /\ \A d \in Callers :
          /\ calls[d].token # None
               => calls[d].token.serial # calls[c].pair.serial
          /\ d # c /\ calls[d].pair # None
               => calls[d].pair.serial # calls[c].pair.serial

\* The mutex lets one call of a manager in.
OneInside ==
  \A c, d \in Callers :
     (/\ ManagerOf[c] = ManagerOf[d]
      /\ calls[c].step \in {"creating", "refreshing"}
      /\ calls[d].step \in {"creating", "refreshing"}) => c = d

\* A guest's token is refreshed for its own device.
OwnDevice ==
  ~torn =>
    \A c \in Callers :
       (calls[c].step = "refreshing" /\ calls[c].token.subject # User)
         => calls[c].token.subject = calls[c].device

\* What a manager has saved can be loaded, and is of the kind it says.
SavedWhole ==
  savedBy # None =>
    Loadable(store) /\ store.kind = KindOf(store.refresh)

IInv ==
  /\ TypeOK /\ CallsTrue /\ Issued /\ Secret /\ OneInside /\ OwnDevice
  /\ SavedWhole /\ SuccessorComes /\ StoredWhole /\ MutexKeepsUser

-----------------------------------------------------------------------------
(* What the steps are made of. *)

\* The backend's answer and the store's fields are of their types.
LEMMA SessionType ==
  ASSUME NEW device \in Nat, NEW pair \in Pair
  PROVE  Session(device, pair) \in Preferences
BY DEF Session, Preferences, KindOf

LEMMA WrittenType ==
  ASSUME store \in Preferences, NEW s \in Preferences, NEW n \in Nat
  PROVE  Written(s, n) \in Preferences
BY DEF Written, Preferences

-----------------------------------------------------------------------------
(* The steps that save nothing and change one call: which conditions on    *)
(* the new call k keep the invariant.                                      *)

\* The call of c becomes k, and nothing is saved.
Becomes(c, k) ==
  /\ k \in Call /\ CallTrue(k)
  /\ calls' = [calls EXCEPT ![c] = k]
  /\ UNCHANGED <<store, savedBy, torn>>

Numbers ==
  devices' \in Nat /\ aged' \in Nat /\ lost' \in BOOLEAN /\ count' \in Count

\* It sends a token that it read, and knows no pair but its own or a new one;
\* the backend consumes no token but the one that was sent.
KeepsSecret(c, k) ==
  /\ k.token \in {None, calls[c].token, store.refresh}
  /\ \/ k.pair \in {None, calls[c].pair} /\ issued' = issued
     \/ /\ k.pair \in Pair /\ k.pair.serial = issued + 1
        /\ issued' = issued + 1
  /\ \/ spent' = spent
     \/ calls[c].token \in Pair /\ spent' = spent \cup {calls[c].token.serial}

\* It is in the mutex if it was, or enters it and acts on what is stored.
KeepsMutex(c, k) ==
  k.step \in {"creating", "refreshing"} =>
    \/ /\ k.step = calls[c].step
       /\ k.token = calls[c].token /\ k.device = calls[c].device
    \/ /\ ~Locked(ManagerOf[c])
       /\ \/ k.step = "creating" /\ ~Loadable(store)
          \/ /\ k.step = "refreshing" /\ Loadable(store)
             /\ k.token = store.refresh /\ k.device = store.device

\* HoldsSuccessor, of a call.
Holds(k) ==
  \/ k.step = "refreshing" /\ k.reply = "granted"
  \/ k.step = "merging" /\ k.reply # "none"
  \/ k.step = "replacing"

\* It holds on to a successor, or the loss is recorded; where a token is
\* consumed it gets one.
KeepsSuccessor(c, k) ==
  /\ lost => lost'
  /\ Holds(calls[c]) => Holds(k) \/ lost'
  /\ spent' # spent => Holds(k)

LEMMA SecretKept ==
  ASSUME IInv, NEW c \in Callers, NEW k, Becomes(c, k), KeepsSecret(c, k)
  PROVE  Issued' /\ Secret'
<1>1. /\ calls'[c] = k
      /\ \A d \in Callers : d # c => calls'[d] = calls[d]
      /\ \A d \in Callers : calls[d] \in Call
  BY DEF IInv, TypeOK, Becomes
<1>2. issued \in Nat /\ spent \subseteq Nat /\ store.refresh \in Pair \cup {None}
  BY DEF IInv, TypeOK, Preferences
<1>3. \A d \in Callers :
        /\ calls[d].token \in Pair \cup {None}
        /\ calls[d].pair \in Pair \cup {None}
        /\ calls[d].token # None => calls[d].token.serial <= issued
        /\ calls[d].pair # None => calls[d].pair.serial <= issued
  BY <1>1 DEF IInv, Issued, Call
<1>4. Issued'
  <2>1. /\ \A n \in spent' : n <= issued
        /\ store.refresh # None => store.refresh.serial <= issued
        /\ k.token # None => k.token.serial <= issued
    BY <1>3, ConstantsAssumption DEF IInv, Issued, KeepsSecret
  <2>2. issued' \in {issued, issued + 1}
    BY DEF KeepsSecret
  <2>3. k.pair # None => k.pair.serial <= issued'
    BY <1>2, <1>3 DEF KeepsSecret
  <2>4. \A p \in Pair : p.serial <= issued => p.serial <= issued'
    BY <1>2, <2>2 DEF Pair
  <2>5. spent' \subseteq Nat
    BY <1>2 DEF KeepsSecret, Pair
  <2>6. k.token \in Pair \cup {None} /\ store' = store
    BY DEF Becomes, Call
  <2>7. \A n \in spent' : n <= issued'
    BY <1>2, <2>1, <2>2, <2>5
  <2> QED
    BY <1>1, <1>2, <1>3, <2>1, <2>3, <2>4, <2>6, <2>7 DEF Issued
<1>5. ASSUME NEW p \in Pair, NEW o \in Callers,
             \/ p = calls[o].pair
             \/ o = c /\ p.serial = issued + 1
      PROVE  /\ p.serial \notin spent'
             /\ store.refresh # None => store.refresh.serial # p.serial
             /\ \A d \in Callers :
                  /\ calls'[d].token # None => calls'[d].token.serial # p.serial
                  /\ d # o /\ d # c /\ calls[d].pair # None
                       => calls[d].pair.serial # p.serial
                  /\ c # o /\ calls[c].pair # None
                       => calls[c].pair.serial # p.serial
  <2>1. CASE p = calls[o].pair
    <3>1. p # None
      BY ConstantsAssumption
    <3>2. /\ p.serial \notin spent
          /\ store.refresh # None => store.refresh.serial # p.serial
          /\ \A d \in Callers :
               /\ calls[d].token # None => calls[d].token.serial # p.serial
               /\ d # o /\ calls[d].pair # None
                    => calls[d].pair.serial # p.serial
      BY <2>1, <3>1 DEF IInv, Secret
    <3>3. calls[c].token \in Pair => calls[c].token # None
      BY ConstantsAssumption
    <3> QED BY <1>1, <3>2, <3>3 DEF KeepsSecret
  <2>2. CASE p.serial = issued + 1
    <3>1. \A d \in Callers :
            /\ calls[d].token # None => calls[d].token.serial # p.serial
            /\ calls[d].pair # None => calls[d].pair.serial # p.serial
      BY <1>2, <1>3, <2>2
    <3>2. /\ p.serial \notin spent'
          /\ store.refresh # None => store.refresh.serial # p.serial
          /\ k.token # None => k.token.serial # p.serial
      BY <1>2, <1>3, <2>2, ConstantsAssumption
      DEF IInv, Issued, KeepsSecret, Pair, Becomes, Call
    <3> QED BY <1>1, <3>1, <3>2
  <2> QED BY <1>5, <2>1, <2>2
<1>6. ASSUME NEW o \in Callers, calls'[o].pair # None
      PROVE  /\ calls'[o].pair.serial \notin spent'
             /\ store.refresh # None
                  => store.refresh.serial # calls'[o].pair.serial
             /\ \A d \in Callers :
                  /\ calls'[d].token # None
                       => calls'[d].token.serial # calls'[o].pair.serial
                  /\ d # o /\ calls'[d].pair # None
                       => calls'[d].pair.serial # calls'[o].pair.serial
  <2>1. calls'[o].pair \in Pair
    BY <1>1, <1>6 DEF Becomes, Call
  <2>2. \/ calls'[o].pair = calls[o].pair
        \/ o = c /\ calls'[o].pair.serial = issued + 1
    BY <1>1, <1>6 DEF KeepsSecret
  <2>3. \A d \in Callers :
          d # o /\ calls'[d].pair # None => calls'[d].pair.serial # calls'[o].pair.serial
    <3>1. CASE o = c
      BY <1>1, <1>5, <2>1, <2>2, <3>1
    <3>2. CASE o # c /\ calls'[o].pair = calls[o].pair
      <4>1. calls[o].pair.serial \in Nat /\ calls[o].pair.serial <= issued
        BY <1>1, <1>6, <2>1, <3>2 DEF IInv, Issued, Pair
      <4> QED
        BY <1>1, <1>2, <1>5, <2>1, <2>2, <3>2, <4>1 DEF KeepsSecret
    <3> QED BY <2>2, <3>1, <3>2
  <2> QED BY <1>5, <2>1, <2>2, <2>3
<1>7. Secret'
  BY <1>6 DEF Secret, Becomes
<1> QED BY <1>4, <1>7

LEMMA MutexKept ==
  ASSUME IInv, NEW c \in Callers, NEW k, Becomes(c, k), KeepsMutex(c, k)
  PROVE  OneInside' /\ OwnDevice' /\ MutexKeepsUser'
<1>1. /\ calls'[c] = k
      /\ \A d \in Callers : d # c => calls'[d] = calls[d]
  BY DEF IInv, TypeOK, Becomes
<1>2. OneInside'
  BY <1>1 DEF IInv, OneInside, KeepsMutex, Locked
<1>3. OwnDevice'
  BY <1>1 DEF IInv, OwnDevice, StoredWhole, KindOf, KeepsMutex, Becomes
<1>4. MutexKeepsUser'
  BY <1>1 DEF IInv, MutexKeepsUser, SavedWhole, KindOf, KeepsMutex, Becomes
<1> QED BY <1>2, <1>3, <1>4

LEMMA SuccessorKept ==
  ASSUME IInv, NEW c \in Callers, NEW k, Becomes(c, k), KeepsSuccessor(c, k)
  PROVE  SuccessorComes'
<1>1. /\ Holds(k) <=> HoldsSuccessor(c)'
      /\ \A d \in Callers : d # c /\ HoldsSuccessor(d) => HoldsSuccessor(d)'
      /\ HoldsSuccessor(c) => Holds(calls[c])
  BY DEF IInv, TypeOK, Becomes, Holds, HoldsSuccessor, HoldsRotation
<1>2. UNCHANGED store
  BY DEF Becomes
<1> QED
  BY <1>1, <1>2 DEF IInv, SuccessorComes, KeepsSuccessor

LEMMA OneCallStep ==
  ASSUME IInv, NEW c \in Callers, NEW k, Becomes(c, k), Numbers,
         KeepsSecret(c, k), KeepsMutex(c, k), KeepsSuccessor(c, k)
  PROVE  IInv'
<1>1. TypeOK'
  BY DEF IInv, TypeOK, Becomes, Numbers, KeepsSecret, Pair
<1>2. CallsTrue'
  BY DEF IInv, CallsTrue, Becomes
<1>3. SavedWhole' /\ StoredWhole'
  BY DEF IInv, SavedWhole, StoredWhole, Becomes
<1> QED
  BY <1>1, <1>2, <1>3, SecretKept, MutexKept, SuccessorKept DEF IInv

-----------------------------------------------------------------------------
(* One lemma per action. *)

LEMMA AskStep == ASSUME IInv, NEW c \in Callers, Ask(c) PROVE IInv'
<1> DEFINE k == [calls[c] EXCEPT !.step = "waiting"]
<1>1. calls[c] \in Call /\ CallTrue(calls[c])
  BY DEF IInv, TypeOK, CallsTrue
<1>2. Becomes(c, k)
  <2>1. k \in Call
    BY <1>1 DEF Call, Step
  <2>2. CallTrue(k)
    BY <1>1 DEF Ask, CallTrue
  <2> QED BY <2>1, <2>2 DEF Becomes, Ask
<1>3. Numbers
  BY ConstantsAssumption DEF Numbers, Ask, IInv, TypeOK, Count
<1>4. KeepsSecret(c, k)
  BY <1>1 DEF KeepsSecret, Ask
<1>5. KeepsMutex(c, k)
  BY <1>1 DEF KeepsMutex
<1>6. KeepsSuccessor(c, k)
  BY <1>1 DEF KeepsSuccessor, Holds, Ask
<1> QED
  <2> HIDE DEF k
  <2> QED BY <1>2, <1>3, <1>4, <1>5, <1>6, OneCallStep

LEMMA CreateGuestStep ==
  ASSUME IInv, NEW c \in Callers, CreateGuest(c)
  PROVE  IInv'
<1> DEFINE k == [calls[c] EXCEPT !.step = "creating", !.device = devices + 1]
<1>1. calls[c] \in Call /\ CallTrue(calls[c])
  BY DEF IInv, TypeOK, CallsTrue
<1>2. Becomes(c, k)
  <2>1. k \in Call
    <3>1. devices + 1 \in Nat
      BY DEF IInv, TypeOK
    <3> QED BY <1>1, <3>1 DEF Call, Step
  <2>2. CallTrue(k)
    BY <1>1 DEF CreateGuest, Enters, IInv, TypeOK, CallTrue
  <2> QED BY <2>1, <2>2 DEF Becomes, CreateGuest
<1>3. Numbers
  BY DEF Numbers, CreateGuest, IInv, TypeOK
<1>4. KeepsSecret(c, k)
  BY <1>1 DEF KeepsSecret, CreateGuest
<1>5. KeepsMutex(c, k)
  BY <1>1 DEF KeepsMutex, CreateGuest, Enters
<1>6. KeepsSuccessor(c, k)
  BY <1>1 DEF KeepsSuccessor, Holds, CreateGuest, Enters
<1> QED
  <2> HIDE DEF k
  <2> QED BY <1>2, <1>3, <1>4, <1>5, <1>6, OneCallStep

LEMMA UseStoredStep == ASSUME IInv, NEW c \in Callers, UseStored(c) PROVE IInv'
<1> DEFINE k == Continue(c, store)
<1>1. calls[c] \in Call /\ CallTrue(calls[c])
  BY DEF IInv, TypeOK, CallsTrue
<1>2. Becomes(c, k)
  <2>1. k \in Call
    BY <1>1
    DEF UseStored, Fresh, Loadable, Continue, NoCall, IInv, TypeOK,
        Preferences, Call, Step
  <2>2. CallTrue(k)
    BY <1>1
    DEF UseStored, Fresh, Loadable, Continue, NoCall, IInv, TypeOK,
        Preferences, CallTrue
  <2> QED BY <2>1, <2>2 DEF Becomes, UseStored
<1>3. Numbers
  BY DEF Numbers, UseStored, IInv, TypeOK
<1>4. KeepsSecret(c, k)
  BY <1>1 DEF KeepsSecret, UseStored, Continue, NoCall
<1>5. KeepsMutex(c, k)
  BY <1>1 DEF KeepsMutex, Continue, NoCall
<1>6. KeepsSuccessor(c, k)
  BY <1>1 DEF KeepsSuccessor, Holds, UseStored, Enters
<1> QED
  <2> HIDE DEF k
  <2> QED BY <1>2, <1>3, <1>4, <1>5, <1>6, OneCallStep

LEMMA RefreshStep == ASSUME IInv, NEW c \in Callers, Refresh(c) PROVE IInv'
<1> DEFINE k == [calls[c] EXCEPT !.step = "refreshing",
                             !.device = store.device,
                             !.token = store.refresh]
<1>1. calls[c] \in Call /\ CallTrue(calls[c])
  BY DEF IInv, TypeOK, CallsTrue
<1>2. Becomes(c, k)
  <2>1. k \in Call
    BY <1>1 DEF IInv, TypeOK, Preferences, Call, Step
  <2>2. CallTrue(k)
    BY <1>1
    DEF Refresh, Loadable, Enters, IInv, TypeOK, Preferences, Call, CallTrue,
        Pair, User
  <2> QED BY <2>1, <2>2 DEF Becomes, Refresh
<1>3. Numbers
  BY DEF Numbers, Refresh, IInv, TypeOK
<1>4. KeepsSecret(c, k)
  BY <1>1 DEF KeepsSecret, Refresh
<1>5. KeepsMutex(c, k)
  BY <1>1 DEF KeepsMutex, Refresh, Enters
<1>6. KeepsSuccessor(c, k)
  BY <1>1 DEF KeepsSuccessor, Holds, Refresh, Enters
<1> QED
  <2> HIDE DEF k
  <2> QED BY <1>2, <1>3, <1>4, <1>5, <1>6, OneCallStep

LEMMA ThrowStep == ASSUME IInv, NEW c \in Callers, Throw(c) PROVE IInv'
<1> DEFINE k == NoCall
<1>1. calls[c] \in Call /\ CallTrue(calls[c])
  BY DEF IInv, TypeOK, CallsTrue
<1>2. Becomes(c, k)
  <2>1. k \in Call
    BY <1>1 DEF NoCall, Call, Step
  <2>2. CallTrue(k)
    BY <1>1 DEF NoCall, CallTrue
  <2> QED BY <2>1, <2>2 DEF Becomes, Throw
<1>3. Numbers
  BY DEF Numbers, Throw, IInv, TypeOK
<1>4. KeepsSecret(c, k)
  BY <1>1 DEF KeepsSecret, Throw, NoCall
<1>5. KeepsMutex(c, k)
  BY <1>1 DEF KeepsMutex, NoCall
<1>6. KeepsSuccessor(c, k)
  BY <1>1 DEF KeepsSuccessor, Holds, Throw, HoldsRotation, Throws
<1> QED
  <2> HIDE DEF k
  <2> QED BY <1>2, <1>3, <1>4, <1>5, <1>6, OneCallStep

LEMMA MergeStep == ASSUME IInv, NEW c \in Callers, Merge(c) PROVE IInv'
<1> DEFINE k == [calls[c] EXCEPT !.step = "merging", !.reply = "none"]
<1>1. calls[c] \in Call /\ CallTrue(calls[c])
  BY DEF IInv, TypeOK, CallsTrue
<1>2. Becomes(c, k)
  <2>1. k \in Call
    BY <1>1 DEF Call, Step
  <2>2. CallTrue(k)
    BY <1>1 DEF Merge, CallTrue
  <2> QED BY <2>1, <2>2 DEF Becomes, Merge
<1>3. Numbers
  BY DEF Numbers, Merge, IInv, TypeOK
<1>4. KeepsSecret(c, k)
  BY <1>1 DEF KeepsSecret, Merge
<1>5. KeepsMutex(c, k)
  BY <1>1 DEF KeepsMutex
<1>6. KeepsSuccessor(c, k)
  BY <1>1 DEF KeepsSuccessor, Holds, Merge
<1> QED
  <2> HIDE DEF k
  <2> QED BY <1>2, <1>3, <1>4, <1>5, <1>6, OneCallStep

LEMMA AwaitMutexStep ==
  ASSUME IInv, NEW c \in Callers, AwaitMutex(c)
  PROVE  IInv'
<1> DEFINE k == IF calls[c].cancelled THEN NoCall
               ELSE [calls[c] EXCEPT !.step = "replacing"]
<1>1. calls[c] \in Call /\ CallTrue(calls[c])
  BY DEF IInv, TypeOK, CallsTrue
<1>2. Becomes(c, k)
  <2>1. k \in Call
    BY <1>1 DEF NoCall, Call, Step
  <2>2. CallTrue(k)
    BY <1>1 DEF AwaitMutex, Replaces, NoCall, CallTrue
  <2> QED BY <2>1, <2>2 DEF Becomes, AwaitMutex
<1>3. Numbers
  BY DEF Numbers, AwaitMutex, IInv, TypeOK
<1>4. KeepsSecret(c, k)
  BY <1>1 DEF KeepsSecret, AwaitMutex, NoCall
<1>5. KeepsMutex(c, k)
  BY <1>1 DEF KeepsMutex, NoCall
<1>6. KeepsSuccessor(c, k)
  BY <1>1 DEF KeepsSuccessor, Holds, AwaitMutex, Call
<1> QED
  <2> HIDE DEF k
  <2> QED BY <1>2, <1>3, <1>4, <1>5, <1>6, OneCallStep

LEMMA GrantGuestStep ==
  ASSUME IInv, NEW c \in Callers, GrantGuest(c)
  PROVE  IInv'
<1> DEFINE k == [calls[c] EXCEPT !.reply = "granted",
               !.pair = [serial |-> issued + 1, subject |-> calls[c].device]]
<1>1. calls[c] \in Call /\ CallTrue(calls[c])
  BY DEF IInv, TypeOK, CallsTrue
<1>2. Becomes(c, k)
  <2>1. k \in Call
    <3>1. [serial |-> issued + 1, subject |-> calls[c].device] \in Pair
      BY <1>1 DEF IInv, TypeOK, Call, Pair
    <3> QED BY <1>1, <3>1 DEF Call
  <2>2. CallTrue(k)
    BY <1>1 DEF GrantGuest, Asked, IInv, TypeOK, Call, CallTrue, Pair
  <2> QED BY <2>1, <2>2 DEF Becomes, GrantGuest, Grant
<1>3. Numbers
  BY DEF Numbers, GrantGuest, IInv, TypeOK
<1>4. KeepsSecret(c, k)
  BY <1>1 DEF KeepsSecret, GrantGuest, Grant, IInv, TypeOK, Call, Pair
<1>5. KeepsMutex(c, k)
  BY <1>1 DEF KeepsMutex
<1>6. KeepsSuccessor(c, k)
  BY <1>1 DEF KeepsSuccessor, Holds, GrantGuest
<1> QED
  <2> HIDE DEF k
  <2> QED BY <1>2, <1>3, <1>4, <1>5, <1>6, OneCallStep

LEMMA RotateStep == ASSUME IInv, NEW c \in Callers, Rotate(c) PROVE IInv'
<1> DEFINE k == [calls[c] EXCEPT !.reply = "granted",
               !.pair = [serial |-> issued + 1,
                         subject |-> calls[c].token.subject]]
<1>1. calls[c] \in Call /\ CallTrue(calls[c])
  BY DEF IInv, TypeOK, CallsTrue
<1>2. Becomes(c, k)
  <2>1. k \in Call
    <3>1. [serial |-> issued + 1, subject |-> calls[c].token.subject] \in Pair
      BY <1>1 DEF Rotate, Asked, IInv, TypeOK, CallTrue, Pair
    <3> QED BY <1>1, <3>1 DEF Call
  <2>2. CallTrue(k)
    BY <1>1 DEF Rotate, Asked, IInv, TypeOK, CallTrue, Pair
  <2> QED BY <2>1, <2>2 DEF Becomes, Rotate, Grant
<1>3. Numbers
  BY DEF Numbers, Rotate, IInv, TypeOK
<1>4. KeepsSecret(c, k)
  BY <1>1
  DEF KeepsSecret, Rotate, Asked, Grant, IInv, TypeOK, CallTrue, Pair
<1>5. KeepsMutex(c, k)
  BY <1>1 DEF KeepsMutex
<1>6. KeepsSuccessor(c, k)
  BY <1>1 DEF KeepsSuccessor, Holds, Rotate, Asked
<1> QED
  <2> HIDE DEF k
  <2> QED BY <1>2, <1>3, <1>4, <1>5, <1>6, OneCallStep

LEMMA RefuseRotationStep ==
  ASSUME IInv, NEW c \in Callers, RefuseRotation(c)
  PROVE  IInv'
<1> DEFINE k == [calls[c] EXCEPT !.reply = "refused"]
<1>1. calls[c] \in Call /\ CallTrue(calls[c])
  BY DEF IInv, TypeOK, CallsTrue
<1>2. Becomes(c, k)
  <2>1. k \in Call
    BY <1>1 DEF Call
  <2>2. CallTrue(k)
    BY <1>1 DEF RefuseRotation, Asked, CallTrue
  <2> QED BY <2>1, <2>2 DEF Becomes, RefuseRotation, Refuse
<1>3. Numbers
  BY DEF Numbers, RefuseRotation, IInv, TypeOK
<1>4. KeepsSecret(c, k)
  BY <1>1 DEF KeepsSecret, RefuseRotation
<1>5. KeepsMutex(c, k)
  BY <1>1 DEF KeepsMutex
<1>6. KeepsSuccessor(c, k)
  BY <1>1 DEF KeepsSuccessor, Holds, RefuseRotation, Asked
<1> QED
  <2> HIDE DEF k
  <2> QED BY <1>2, <1>3, <1>4, <1>5, <1>6, OneCallStep

LEMMA VerifySmsStep == ASSUME IInv, NEW c \in Callers, VerifySms(c) PROVE IInv'
<1> DEFINE k == [calls[c] EXCEPT !.reply = "granted",
               !.pair = [serial |-> issued + 1, subject |-> User]]
<1>1. calls[c] \in Call /\ CallTrue(calls[c])
  BY DEF IInv, TypeOK, CallsTrue
<1>2. Becomes(c, k)
  <2>1. k \in Call
    <3>1. [serial |-> issued + 1, subject |-> User] \in Pair
      BY <1>1 DEF IInv, TypeOK, Pair, User
    <3> QED BY <1>1, <3>1 DEF Call
  <2>2. CallTrue(k)
    BY <1>1 DEF VerifySms, Asked, IInv, TypeOK, CallTrue, Pair, User
  <2> QED BY <2>1, <2>2 DEF Becomes, VerifySms, Grant
<1>3. Numbers
  BY DEF Numbers, VerifySms, IInv, TypeOK
<1>4. KeepsSecret(c, k)
  BY <1>1 DEF KeepsSecret, VerifySms, Grant, IInv, TypeOK, Pair, User
<1>5. KeepsMutex(c, k)
  BY <1>1 DEF KeepsMutex
<1>6. KeepsSuccessor(c, k)
  BY <1>1 DEF KeepsSuccessor, Holds, VerifySms
<1> QED
  <2> HIDE DEF k
  <2> QED BY <1>2, <1>3, <1>4, <1>5, <1>6, OneCallStep

LEMMA RefuseSmsStep == ASSUME IInv, NEW c \in Callers, RefuseSms(c) PROVE IInv'
<1> DEFINE k == [calls[c] EXCEPT !.reply = "refused"]
<1>1. calls[c] \in Call /\ CallTrue(calls[c])
  BY DEF IInv, TypeOK, CallsTrue
<1>2. Becomes(c, k)
  <2>1. k \in Call
    BY <1>1 DEF Call
  <2>2. CallTrue(k)
    BY <1>1 DEF RefuseSms, Asked, CallTrue
  <2> QED BY <2>1, <2>2 DEF Becomes, RefuseSms, Refuse
<1>3. Numbers
  BY DEF Numbers, RefuseSms, IInv, TypeOK
<1>4. KeepsSecret(c, k)
  BY <1>1 DEF KeepsSecret, RefuseSms
<1>5. KeepsMutex(c, k)
  BY <1>1 DEF KeepsMutex
<1>6. KeepsSuccessor(c, k)
  BY <1>1 DEF KeepsSuccessor, Holds, RefuseSms, Asked
<1> QED
  <2> HIDE DEF k
  <2> QED BY <1>2, <1>3, <1>4, <1>5, <1>6, OneCallStep

LEMMA ClaimGuestStep ==
  ASSUME IInv, NEW c \in Callers, ClaimGuest(c)
  PROVE  IInv'
<1> DEFINE k == [calls[c] EXCEPT !.reply = "granted"]
<1>1. calls[c] \in Call /\ CallTrue(calls[c])
  BY DEF IInv, TypeOK, CallsTrue
<1>2. Becomes(c, k)
  <2>1. k \in Call
    BY <1>1 DEF Call
  <2>2. CallTrue(k)
    BY <1>1 DEF ClaimGuest, Asked, CallTrue
  <2> QED BY <2>1, <2>2 DEF Becomes, ClaimGuest
<1>3. Numbers
  BY DEF Numbers, ClaimGuest, IInv, TypeOK
<1>4. KeepsSecret(c, k)
  BY <1>1 DEF KeepsSecret, ClaimGuest, Asked, CallTrue
<1>5. KeepsMutex(c, k)
  BY <1>1 DEF KeepsMutex
<1>6. KeepsSuccessor(c, k)
  BY <1>1 DEF KeepsSuccessor, Holds, ClaimGuest, Asked
<1> QED
  <2> HIDE DEF k
  <2> QED BY <1>2, <1>3, <1>4, <1>5, <1>6, OneCallStep

LEMMA RefuseClaimStep ==
  ASSUME IInv, NEW c \in Callers, RefuseClaim(c)
  PROVE  IInv'
<1> DEFINE k == [calls[c] EXCEPT !.reply = "refused"]
<1>1. calls[c] \in Call /\ CallTrue(calls[c])
  BY DEF IInv, TypeOK, CallsTrue
<1>2. Becomes(c, k)
  <2>1. k \in Call
    BY <1>1 DEF Call
  <2>2. CallTrue(k)
    BY <1>1 DEF RefuseClaim, Asked, CallTrue
  <2> QED BY <2>1, <2>2 DEF Becomes, RefuseClaim, Refuse
<1>3. Numbers
  BY DEF Numbers, RefuseClaim, IInv, TypeOK
<1>4. KeepsSecret(c, k)
  BY <1>1 DEF KeepsSecret, RefuseClaim
<1>5. KeepsMutex(c, k)
  BY <1>1 DEF KeepsMutex
<1>6. KeepsSuccessor(c, k)
  BY <1>1 DEF KeepsSuccessor, Holds, RefuseClaim, Asked
<1> QED
  <2> HIDE DEF k
  <2> QED BY <1>2, <1>3, <1>4, <1>5, <1>6, OneCallStep

LEMMA LoseAnswerStep ==
  ASSUME IInv, NEW c \in Callers, LoseAnswer(c)
  PROVE  IInv'
<1> DEFINE k == [calls[c] EXCEPT !.reply = "refused",
               !.pair = IF calls[c].step = "merging" THEN @ ELSE None]
<1>1. calls[c] \in Call /\ CallTrue(calls[c])
  BY DEF IInv, TypeOK, CallsTrue
<1>2. Becomes(c, k)
  <2>1. k \in Call
    BY <1>1 DEF Call
  <2>2. CallTrue(k)
    BY <1>1 DEF LoseAnswer, CallTrue
  <2> QED BY <2>1, <2>2 DEF Becomes, LoseAnswer
<1>3. Numbers
  BY ConstantsAssumption DEF Numbers, LoseAnswer, Fault, IInv, TypeOK, Count
<1>4. KeepsSecret(c, k)
  BY <1>1 DEF KeepsSecret, LoseAnswer
<1>5. KeepsMutex(c, k)
  BY <1>1 DEF KeepsMutex
<1>6. KeepsSuccessor(c, k)
  BY <1>1 DEF KeepsSuccessor, Holds, LoseAnswer, HoldsRotation, Call
<1> QED
  <2> HIDE DEF k
  <2> QED BY <1>2, <1>3, <1>4, <1>5, <1>6, OneCallStep

-----------------------------------------------------------------------------
(* The steps that save a session. *)

\* The call of c saves the pair it holds, with the device d, while no other
\* call is in its manager's mutex, and becomes k.
Saves(c, d, k) ==
  /\ k \in Call /\ CallTrue(k)
  /\ k.pair = None /\ k.token \in {None, calls[c].pair}
  /\ k.step \notin {"creating", "refreshing"}
  /\ calls' = [calls EXCEPT ![c] = k]
  /\ calls[c].pair \in Pair
  /\ d \in Nat \ {0}
  /\ calls[c].pair.subject # User /\ ~torn => d = calls[c].pair.subject
  /\ store' = Session(d, calls[c].pair)
  /\ savedBy' = ManagerOf[c]
  /\ \A o \in Callers \ {c} :
       ManagerOf[o] = ManagerOf[c]
         => calls[o].step \notin {"creating", "refreshing"}
  /\ devices' \in Nat
  /\ UNCHANGED <<issued, spent, aged, lost, torn, count>>

LEMMA SaveStep ==
  ASSUME IInv, NEW c \in Callers, NEW d, NEW k, Saves(c, d, k)
  PROVE  IInv'
<1> DEFINE p == calls[c].pair
<1>1. /\ calls'[c] = k
      /\ \A o \in Callers : o # c => calls'[o] = calls[o]
      /\ \A o \in Callers : calls[o] \in Call
  BY DEF IInv, TypeOK, Saves
<1>2. /\ store'.device = d /\ store'.access = p /\ store'.refresh = p
      /\ store'.kind = KindOf(p)
  BY DEF Saves, Session
<1>3. p # None /\ p.serial \notin spent /\ p.serial <= issued
  BY ConstantsAssumption DEF IInv, Issued, Secret, Saves
<1>4. TypeOK'
  <2>1. ManagerOf[c] \in Managers
    BY ConstantsAssumption
  <2> QED BY <2>1, SessionType DEF IInv, TypeOK, Saves
<1>5. CallsTrue'
  BY <1>1 DEF IInv, CallsTrue, Saves
<1>6. Issued'
  BY <1>1, <1>2, <1>3 DEF IInv, Issued, Saves
<1>7. Secret'
  <2>1. \A o \in Callers : calls'[o].pair # None => o # c
    BY <1>1 DEF Saves
  <2> QED
    BY <1>1, <1>2, <1>3, <2>1 DEF IInv, Secret, Saves
<1>8. OneInside' /\ OwnDevice'
  BY <1>1 DEF IInv, OneInside, OwnDevice, Saves
<1>9. Loadable(store)' /\ SavedWhole'
  BY <1>2, <1>3 DEF SavedWhole, Loadable, KindOf, Saves
<1>10. SuccessorComes'
  BY <1>2, <1>3 DEF SuccessorComes, Saves
<1>11. StoredWhole'
  BY <1>2 DEF StoredWhole, KindOf, Saves
<1>12. MutexKeepsUser'
  BY <1>1 DEF MutexKeepsUser, Saves
<1> QED
  BY <1>4, <1>5, <1>6, <1>7, <1>8, <1>9, <1>10, <1>11, <1>12 DEF IInv

LEMMA PersistStep == ASSUME IInv, NEW c \in Callers, Persist(c) PROVE IInv'
<1> DEFINE d == calls[c].device
           k == Continue(c, RenewedSession(c))
<1>1. /\ calls[c] \in Call /\ CallTrue(calls[c])
      /\ calls[c].pair \in Pair /\ d \in Nat \ {0}
  BY DEF IInv, TypeOK, Call, CallsTrue, CallTrue, Persist, Renewed
<1>2. k \in Call /\ CallTrue(k) /\ k.pair = None
      /\ k.token \in {None, calls[c].pair} /\ k.step \in {"idle", "verifying"}
  BY <1>1 DEF Continue, NoCall, RenewedSession, Session, Call, Step, CallTrue
<1>3. calls[c].pair.subject # User /\ ~torn => d = calls[c].pair.subject
  BY <1>1 DEF IInv, OwnDevice, CallTrue, Persist, Renewed
<1>4. \A o \in Callers \ {c} :
        ManagerOf[o] = ManagerOf[c]
          => calls[o].step \notin {"creating", "refreshing"}
  BY DEF IInv, OneInside, Persist, Renewed
<1>5. Saves(c, d, k)
  BY <1>1, <1>2, <1>3, <1>4
  DEF Saves, Persist, RenewedSession, IInv, TypeOK
<1> QED
  <2> HIDE DEF d, k
  <2> QED BY <1>5, SaveStep

LEMMA ReplaceSessionStep ==
  ASSUME IInv, NEW c \in Callers, ReplaceSession(c)
  PROVE  IInv'
<1> DEFINE d == IF Loadable(store) THEN store.device ELSE devices + 1
<1>1. calls[c].pair \in Pair /\ calls[c].pair.subject = User
  BY DEF IInv, CallsTrue, CallTrue, ReplaceSession, Replaces
<1>2. d \in Nat \ {0} /\ devices' \in Nat
  BY DEF IInv, TypeOK, Preferences, Loadable, ReplaceSession
<1>3. NoCall \in Call /\ CallTrue(NoCall)
  BY DEF NoCall, Call, Step, CallTrue
<1>4. Saves(c, d, NoCall)
  BY <1>1, <1>2, <1>3
  DEF Saves, ReplaceSession, UserSession, Locked, NoCall
<1> QED
  <2> HIDE DEF d
  <2> QED BY <1>4, SaveStep

-----------------------------------------------------------------------------
(* Time and faults. *)

LEMMA ExpireStep == ASSUME IInv, Expire PROVE IInv'
<1>1. /\ store' \in Preferences
      /\ store'.device = store.device /\ store'.access = store.access
      /\ store'.refresh = store.refresh /\ store'.kind = store.kind
      /\ Loadable(store)' <=> Loadable(store)
  BY DEF Expire, IInv, TypeOK, Preferences, Loadable
<1>2. TypeOK'
  BY <1>1, ConstantsAssumption DEF IInv, TypeOK, Expire, Count
<1>3. CallsTrue' /\ Issued' /\ Secret'
  BY <1>1 DEF IInv, CallsTrue, Issued, Secret, Expire
<1>4. OneInside' /\ OwnDevice' /\ MutexKeepsUser'
  BY <1>1 DEF IInv, OneInside, OwnDevice, MutexKeepsUser, Expire
<1>5. SavedWhole' /\ StoredWhole'
  BY <1>1 DEF IInv, SavedWhole, StoredWhole, Expire
<1>6. SuccessorComes'
  BY <1>1
  DEF IInv, SuccessorComes, HoldsSuccessor, HoldsRotation, Expire
<1> QED BY <1>2, <1>3, <1>4, <1>5, <1>6 DEF IInv

LEMMA CancelStep == ASSUME IInv, NEW m \in Managers, Cancel(m) PROVE IInv'
<1>1. \A c \in Callers :
        \/ calls'[c] = NoCall
        \/ calls'[c] = calls[c]
        \/ /\ calls'[c] = [calls[c] EXCEPT !.cancelled = TRUE]
           /\ calls[c].step \notin {"idle", "waiting", "replacing"}
  BY DEF Cancel, CancelledCall
<1>2. \A k \in Call : CancelledCall(k) \in Call
  BY DEF CancelledCall, NoCall, Call, Step
<1>3. calls' \in [Callers -> Call] /\ \A c \in Callers : calls[c] \in Call
  BY <1>2 DEF IInv, TypeOK, Cancel
<1>4. \A c \in Callers :
        /\ calls'[c].token \in {None, calls[c].token}
        /\ calls'[c].pair \in {None, calls[c].pair}
        /\ \/ /\ calls'[c].step = calls[c].step
              /\ calls'[c].token = calls[c].token
              /\ calls'[c].device = calls[c].device
           \/ calls'[c].step = "idle"
  BY <1>1, <1>3 DEF NoCall, Call
<1>5. TypeOK'
  BY <1>3, ConstantsAssumption DEF IInv, TypeOK, Cancel, Fault, Count
<1>6. CallsTrue'
  BY <1>1, <1>3 DEF IInv, CallsTrue, CallTrue, NoCall, Call
<1>7. Issued' /\ Secret'
  BY <1>4 DEF IInv, Issued, Secret, Cancel
<1>8. OneInside' /\ OwnDevice' /\ MutexKeepsUser'
  BY <1>4 DEF IInv, OneInside, OwnDevice, MutexKeepsUser, Cancel
<1>9. SavedWhole' /\ StoredWhole'
  BY DEF IInv, SavedWhole, StoredWhole, Cancel
<1>10. SuccessorComes'
  <2> SUFFICES ASSUME ~lost', Loadable(store), store.refresh.serial \in spent
               PROVE  (\E c \in Callers : HoldsSuccessor(c))'
    BY DEF SuccessorComes, Cancel
  <2>1. PICK c \in Callers : HoldsSuccessor(c)
    BY DEF IInv, SuccessorComes, Cancel
  <2>2. \/ calls'[c] = calls[c]
        \/ calls'[c] = [calls[c] EXCEPT !.cancelled = TRUE]
    BY <2>1 DEF Cancel, CancelledCall, HoldsSuccessor, HoldsRotation
  <2>3. HoldsSuccessor(c)'
    BY <1>3, <2>1, <2>2 DEF HoldsSuccessor, HoldsRotation, Call
  <2> QED BY <2>3
<1> QED BY <1>5, <1>6, <1>7, <1>8, <1>9, <1>10 DEF IInv

\* After the process has died nobody does anything: what remains to be shown
\* is about the store.
LEMMA DeathStep ==
  ASSUME IInv, Die, store' \in Preferences, devices' \in Nat,
         lost' \in BOOLEAN, torn' \in BOOLEAN,
         store'.refresh # None => store'.refresh.serial <= issued,
         SuccessorComes', StoredWhole'
  PROVE  IInv'
<1>1. \A c \in Callers : calls'[c] = NoCall
  BY DEF Die
<1>2. TypeOK'
  <2>1. NoCall \in Call
    BY DEF NoCall, Call, Step
  <2>2. count' \in Count
    BY ConstantsAssumption DEF IInv, TypeOK, Die, Fault, Count
  <2> QED BY <2>1, <2>2 DEF IInv, TypeOK, Die
<1>3. CallsTrue'
  BY <1>1 DEF CallsTrue, CallTrue, NoCall
<1>4. Issued' /\ Secret'
  BY <1>1 DEF IInv, Issued, Secret, Die, NoCall
<1>5. OneInside' /\ OwnDevice' /\ SavedWhole' /\ MutexKeepsUser'
  BY <1>1 DEF OneInside, OwnDevice, SavedWhole, MutexKeepsUser, Die, NoCall
<1> QED BY <1>2, <1>3, <1>4, <1>5 DEF IInv

LEMMA KillStep == ASSUME IInv, Kill PROVE IInv'
<1>1. /\ store' \in Preferences /\ devices' \in Nat
      /\ lost' \in BOOLEAN /\ torn' \in BOOLEAN
  BY DEF IInv, TypeOK, Kill
<1>2. store'.refresh # None => store'.refresh.serial <= issued
  BY DEF IInv, Issued, Kill
<1>3. SuccessorComes'
  BY DEF IInv, SuccessorComes, Kill, Die
<1>4. StoredWhole'
  BY DEF IInv, StoredWhole, Kill
<1>5. Die
  BY DEF Kill
<1> QED BY <1>1, <1>2, <1>3, <1>4, <1>5, DeathStep

\* Whatever a save leaves behind is made of the stored session and the pair of
\* the call that saves.
LEMMA CutShortSession ==
  ASSUME IInv, NEW c \in Callers, NEW n \in Nat, CutShort(c, n)
  PROVE  /\ store' \in Preferences /\ devices' \in Nat
         /\ calls[c].pair \in Pair
         /\ store'.refresh \in {store.refresh, calls[c].pair}
<1>1. PICK s \in Preferences :
         /\ store' = Written(s, n)
         /\ s.refresh = calls[c].pair /\ s.refresh \in Pair
         /\ devices' \in Nat
  <2>1. CASE /\ Renewed(c) /\ store' = Written(RenewedSession(c), n)
             /\ UNCHANGED devices
    <3>1. calls[c].device \in Nat /\ calls[c].pair \in Pair
      BY <2>1 DEF IInv, TypeOK, Call, CallsTrue, CallTrue, Renewed
    <3>2. RenewedSession(c) \in Preferences
      BY <3>1, SessionType DEF RenewedSession
    <3>3. RenewedSession(c).refresh = calls[c].pair
      BY DEF RenewedSession, Session
    <3>4. devices' \in Nat
      BY <2>1 DEF IInv, TypeOK
    <3> QED BY <2>1, <3>1, <3>2, <3>3, <3>4
  <2>2. CASE /\ Replaces(c) /\ store' = Written(UserSession(c), n)
             /\ devices' = IF Loadable(store) THEN devices ELSE devices + 1
    <3>1. calls[c].pair \in Pair
      BY <2>2 DEF IInv, CallsTrue, CallTrue, Replaces
    <3>2. store.device \in Nat /\ devices \in Nat /\ devices + 1 \in Nat
      BY DEF IInv, TypeOK, Preferences
    <3>3. UserSession(c) \in Preferences
      BY <3>1, <3>2, SessionType DEF UserSession
    <3>4. UserSession(c).refresh = calls[c].pair
      BY DEF UserSession, Session
    <3>5. devices' \in Nat
      BY <2>2, <3>2
    <3> QED BY <2>2, <3>1, <3>3, <3>4, <3>5
  <2> QED BY <2>1, <2>2 DEF CutShort
<1>2. store' \in Preferences
  BY <1>1, WrittenType DEF IInv, TypeOK
<1>3. store'.refresh \in {store.refresh, calls[c].pair}
  BY <1>1 DEF Written
<1> QED BY <1>1, <1>2, <1>3

LEMMA KillInSaveStep ==
  ASSUME IInv, NEW c \in Callers, KillInSave(c)
  PROVE  IInv'
<1>1. PICK n \in 1..4 : CutShort(c, n)
  BY DEF KillInSave
<1>2. n \in Nat
  OBVIOUS
<1>3. /\ store' \in Preferences /\ devices' \in Nat
      /\ calls[c].pair \in Pair
      /\ store'.refresh \in {store.refresh, calls[c].pair}
  BY <1>1, <1>2, CutShortSession
<1>4. store'.refresh # None => store'.refresh.serial <= issued
  BY <1>3 DEF IInv, Issued
<1>5. SuccessorComes' /\ StoredWhole' /\ lost' \in BOOLEAN /\ torn' \in BOOLEAN
  BY <1>1 DEF SuccessorComes, StoredWhole, CutShort
<1>6. Die
  BY DEF KillInSave
<1> QED BY <1>3, <1>4, <1>5, <1>6, DeathStep

\* The pair of the call that throws was known to nobody else: what is left of
\* it in the store is in nobody's hands.
LEMMA FailSaveStep == ASSUME IInv, NEW c \in Callers, FailSave(c) PROVE IInv'
<1>1. PICK n \in 0..5 : CutShort(c, n)
  BY DEF FailSave
<1>2. n \in Nat
  OBVIOUS
<1>3. /\ store' \in Preferences /\ devices' \in Nat
      /\ calls[c].pair \in Pair
      /\ store'.refresh \in {store.refresh, calls[c].pair}
  BY <1>1, <1>2, CutShortSession
<1>4. lost' /\ torn' /\ savedBy' = None /\ UNCHANGED <<issued, spent, aged>>
  BY <1>1 DEF CutShort, FailSave
<1>5. /\ calls'[c] = NoCall
      /\ \A d \in Callers : d # c => calls'[d] = calls[d]
  BY DEF FailSave, IInv, TypeOK
<1>6. TypeOK'
  <2>1. calls' \in [Callers -> Call]
    BY DEF FailSave, IInv, TypeOK, NoCall, Call, Step
  <2>2. count' \in Count
    BY ConstantsAssumption DEF FailSave, Fault, IInv, TypeOK, Count
  <2>3. lost' \in BOOLEAN /\ torn' \in BOOLEAN
    BY <1>1 DEF CutShort
  <2> QED BY <1>3, <1>4, <2>1, <2>2, <2>3 DEF IInv, TypeOK
<1>7. CallsTrue'
  BY <1>5 DEF IInv, CallsTrue, CallTrue, NoCall
<1>8. Issued'
  BY <1>3, <1>4, <1>5 DEF IInv, Issued, NoCall
<1>9. Secret'
  <2>1. calls[c].pair # None
    BY <1>3, ConstantsAssumption
  <2>2. \A o \in Callers : calls'[o].pair # None =>
          o # c /\ calls'[o] = calls[o]
    BY <1>5 DEF NoCall
  <2>3. \A o \in Callers : calls'[o].pair # None /\ store'.refresh # None
          => store'.refresh.serial # calls'[o].pair.serial
    BY <1>3, <2>1, <2>2 DEF IInv, Secret
  <2> QED
    BY <1>4, <1>5, <2>2, <2>3 DEF IInv, Secret, NoCall
<1>10. OneInside'
  BY <1>5 DEF IInv, OneInside, NoCall
<1>11. OwnDevice' /\ SavedWhole' /\ MutexKeepsUser'
  BY <1>4 DEF OwnDevice, SavedWhole, MutexKeepsUser
<1>12. SuccessorComes' /\ StoredWhole'
  BY <1>4 DEF SuccessorComes, StoredWhole
<1> QED BY <1>6, <1>7, <1>8, <1>9, <1>10, <1>11, <1>12 DEF IInv

\* No part of the invariant speaks of a pair's age.
LEMMA AgeStep == ASSUME IInv, NEW n \in Nat, Age(n) PROVE IInv'
<1>1. TypeOK'
  BY ConstantsAssumption DEF IInv, TypeOK, Age, Fault, Count
<1>2. CallsTrue' /\ Issued' /\ Secret' /\ OneInside' /\ OwnDevice'
  BY DEF IInv, CallsTrue, Issued, Secret, OneInside, OwnDevice, Age
<1>3. SavedWhole' /\ StoredWhole' /\ MutexKeepsUser'
  BY DEF IInv, SavedWhole, StoredWhole, MutexKeepsUser, Age
<1>4. SuccessorComes'
  BY DEF IInv, SuccessorComes, HoldsSuccessor, HoldsRotation, Age
<1> QED BY <1>1, <1>2, <1>3, <1>4 DEF IInv

-----------------------------------------------------------------------------
LEMMA InitIInv == Init => IInv
<1> SUFFICES ASSUME Init PROVE IInv
  OBVIOUS
<1> USE ConstantsAssumption DEF Init
<1>1. TypeOK
  <2>1. NoCall \in Call
    BY DEF NoCall, Call, Step
  <2>2. MaxExpiries \in Nat /\ MaxSignIns \in Nat /\ MaxFaults \in Nat
    OBVIOUS
  <2>3. count \in Count
    BY <2>2 DEF Count
  <2>4. store \in Preferences
    BY DEF Preferences
  <2> QED BY <2>1, <2>3, <2>4 DEF TypeOK
<1>2. \A c \in Callers : calls[c] = NoCall
  OBVIOUS
<1>3. CallsTrue
  BY <1>2 DEF CallsTrue, CallTrue, NoCall
<1>4. Issued /\ Secret
  BY <1>2 DEF Issued, Secret, NoCall
<1>5. OneInside /\ OwnDevice
  BY <1>2 DEF OneInside, OwnDevice, NoCall
<1>6. SavedWhole /\ SuccessorComes /\ StoredWhole /\ MutexKeepsUser
  BY DEF SavedWhole, SuccessorComes, StoredWhole, MutexKeepsUser, Loadable
<1> QED BY <1>1, <1>3, <1>4, <1>5, <1>6 DEF IInv

LEMMA EnterStep == ASSUME IInv, NEW c \in Callers, Enter(c) PROVE IInv'
BY CreateGuestStep, UseStoredStep, RefreshStep DEF Enter

LEMMA ServeStep == ASSUME IInv, NEW c \in Callers, Serve(c) PROVE IInv'
BY GrantGuestStep, RotateStep, RefuseRotationStep, VerifySmsStep,
   RefuseSmsStep, ClaimGuestStep, RefuseClaimStep DEF Serve

LEMMA ResumeStep == ASSUME IInv, NEW c \in Callers, Resume(c) PROVE IInv'
BY PersistStep, ThrowStep, MergeStep, ReplaceSessionStep, AwaitMutexStep
   DEF Resume

LEMMA FaultsStep == ASSUME IInv, Faults PROVE IInv'
<1>1. \A n \in 1..issued : n \in Nat
  BY DEF IInv, TypeOK
<1> QED
  BY <1>1, LoseAnswerStep, KillInSaveStep, FailSaveStep, CancelStep, AgeStep,
     KillStep
  DEF Faults

LEMMA StutterStep == ASSUME IInv, UNCHANGED vars PROVE IInv'
BY DEF vars, IInv, TypeOK, CallsTrue, Issued, Secret, OneInside, OwnDevice,
       SavedWhole, SuccessorComes, StoredWhole, MutexKeepsUser, Loadable,
       HoldsSuccessor, HoldsRotation

\* Every step of the callers, of the backend, of time and of a fault keeps
\* the inductive invariant.
THEOREM NextIInv == IInv /\ [Next]_vars => IInv'
<1> SUFFICES ASSUME IInv, [Next]_vars PROVE IInv'
  OBVIOUS
<1>1. CASE \E c \in Callers : Ask(c) \/ Enter(c) \/ Serve(c) \/ Resume(c)
  BY <1>1, AskStep, EnterStep, ServeStep, ResumeStep
<1>2. CASE Expire
  BY <1>2, ExpireStep
<1>3. CASE Faults
  BY <1>3, FaultsStep
<1>4. CASE UNCHANGED vars
  BY <1>4, StutterStep
<1> QED BY <1>1, <1>2, <1>3, <1>4 DEF Next

\* The inductive invariant holds in every reachable state.
THEOREM Invariant == Spec => []IInv
<1>1. Init => IInv
  BY InitIInv
<1>2. IInv /\ [Next]_vars => IInv'
  BY NextIInv
<1> QED BY <1>1, <1>2, PTL DEF Spec

\* Preferences, calls and counters keep their types (save, load, TokenPair).
THEOREM TypeCorrect == Spec => []TypeOK
<1>1. IInv => TypeOK
  BY DEF IInv
<1> QED BY <1>1, Invariant, PTL

\* consume before issue_pair, and persist after both: a stored token that is
\* spent has a successor on its way, unless a granted pair was thrown away.
THEOREM SuccessorOnItsWay == Spec => []SuccessorComes
<1>1. IInv => SuccessorComes
  BY DEF IInv
<1> QED BY <1>1, Invariant, PTL

\* Two managers over one file do not mix two sessions, as long as no save is
\* interrupted.
THEOREM Whole == Spec => []StoredWhole
<1>1. IInv => StoredWhole
  BY DEF IInv
<1> QED BY <1>1, Invariant, PTL

\* Within one manager the mutex keeps a refresh of the guest's session from
\* replacing the user's.
THEOREM UserKept == Spec => []MutexKeepsUser
<1>1. IInv => MutexKeepsUser
  BY DEF IInv
<1> QED BY <1>1, Invariant, PTL
-----------------------------------------------------------------------------
(* A sign-in does not last, and the mutex is not to blame.                 *)

\* A user's session is replaced by a guest's only in a save of another manager
\* than the one that saved it, where that one's save was whole.
EndsElsewhere ==
  (savedBy # None /\ store.kind = "user" /\ store'.kind # "user")
    => \E c \in Callers : ManagerOf[c] # savedBy /\ Renewed(c)

\* What a manager has saved is not overwritten by a guest's session that it
\* creates or refreshes itself, whatever is lost, cancelled, killed or cut
\* short: a sign-in that ends (the run session_overwritten) is ended by one of
\* the other managers that LangouClientFactory builds.
THEOREM AnotherManagerEndsSignIn == Spec => [][EndsElsewhere]_vars
<1>1. IInv /\ [Next]_vars => [EndsElsewhere]_vars
  <2> SUFFICES ASSUME IInv, Next, savedBy # None, store.kind = "user",
                      store'.kind # "user"
               PROVE  \E c \in Callers : ManagerOf[c] # savedBy /\ Renewed(c)
    BY DEF EndsElsewhere
  <2>1. ASSUME NEW c \in Callers, Renewed(c),
               store'.kind = RenewedSession(c).kind
        PROVE  ManagerOf[c] # savedBy
    <3>1. /\ calls[c].pair.subject # User
          /\ calls[c].step \in {"creating", "refreshing"}
      BY <2>1 DEF Renewed, RenewedSession, Session, KindOf
    <3>2. calls[c].step = "refreshing" => calls[c].token.subject # User
      BY <2>1, <3>1 DEF IInv, CallsTrue, CallTrue, Renewed
    <3> QED BY <3>1, <3>2 DEF IInv, MutexKeepsUser
  <2>2. ASSUME NEW c \in Callers, Replaces(c) PROVE UserSession(c).kind = "user"
    BY <2>2
    DEF IInv, CallsTrue, CallTrue, Replaces, UserSession, Session, KindOf
  <2>3. ASSUME NEW c \in Callers, Persist(c)
        PROVE  Renewed(c) /\ store'.kind = RenewedSession(c).kind
    BY <2>3 DEF Persist
  <2>4. ASSUME NEW c \in Callers, ReplaceSession(c) PROVE FALSE
    BY <2>2, <2>4 DEF ReplaceSession
  <2>5. ASSUME NEW c \in Callers, KillInSave(c) \/ FailSave(c)
        PROVE  Renewed(c) /\ store'.kind = RenewedSession(c).kind
    BY <2>2, <2>5 DEF KillInSave, FailSave, CutShort, Written
  <2>6. CASE Expire
    BY <2>6 DEF Expire, IInv, TypeOK, Preferences
  <2>7. CASE Kill \/ (\E m \in Managers : Cancel(m)) \/ (\E n \in 1..issued : Age(n))
    BY <2>7 DEF Kill, Cancel, Age
  <2>8. ASSUME NEW c \in Callers,
               Ask(c) \/ Enter(c) \/ Serve(c) \/ LoseAnswer(c)
        PROVE  FALSE
    BY <2>8
    DEF Ask, Enter, CreateGuest, UseStored, Refresh, Serve, GrantGuest, Rotate,
        RefuseRotation, VerifySms, RefuseSms, ClaimGuest, RefuseClaim,
        LoseAnswer
  <2>9. ASSUME NEW c \in Callers, Throw(c) \/ Merge(c) \/ AwaitMutex(c)
        PROVE  FALSE
    BY <2>9 DEF Throw, Merge, AwaitMutex
  <2> QED
    BY <2>1, <2>3, <2>4, <2>5, <2>6, <2>7, <2>8, <2>9 DEF Next, Resume, Faults
<1> QED BY <1>1, Invariant, PTL DEF Spec
=============================================================================
