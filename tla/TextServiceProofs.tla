-------------------------- MODULE TextServiceProofs --------------------------
(***************************************************************************)
(* Proofs about the text service.                                          *)
(*                                                                         *)
(* Three arguments that hardly meet.  A key event is sent and eaten as the *)
(* flags say (Keys).  The texts of a document are in order because the     *)
(* buffer holds no answer whose text is in the document already, unless    *)
(* the session that read it had no position to overwrite it with           *)
(* (Ordered).  And until an update is put off, the sessions that wait only *)
(* end the composition that the service has, so the server's composition,  *)
(* the service's and the document's go together (Calm).                    *)
(***************************************************************************)
EXTENDS TextService, FiniteSetTheorems, SequenceTheorems, TLAPS

-----------------------------------------------------------------------------
(* A new composition is new. *)

LEMMA IntervalSize ==
  ASSUME NEW n \in Nat
  PROVE  IsFiniteSet(1..n) /\ Cardinality(1..n) = n
BY FS_Interval

LEMMA OneMore ==
  ASSUME NEW S, NEW x, IsFiniteSet(S)
  PROVE  /\ IsFiniteSet(S \cup {x})
         /\ Cardinality(S) \in Nat /\ Cardinality(S \cup {x}) \in Nat
         /\ Cardinality(S \cup {x}) <= Cardinality(S) + 1
BY FS_AddElement, FS_CardinalityType

LEMMA UnionSize ==
  ASSUME NEW S, NEW T, IsFiniteSet(S), IsFiniteSet(T)
  PROVE  /\ IsFiniteSet(S \cup T) /\ Cardinality(S \cup T) \in Nat
         /\ Cardinality(S \cup T) <= Cardinality(S) + Cardinality(T)
<1>1. /\ Cardinality(S) \in Nat /\ Cardinality(T) \in Nat
      /\ Cardinality(S \cap T) \in Nat /\ IsFiniteSet(S \cup T)
  BY FS_CardinalityType, FS_Intersection, FS_Union
<1>2. Cardinality(S \cup T) \in Nat
  BY <1>1, FS_CardinalityType
<1>3. Cardinality(S \cup T) =
        Cardinality(S) + Cardinality(T) - Cardinality(S \cap T)
  BY FS_Union
<1> QED
  BY <1>1, <1>2, <1>3

\* The sessions that wait name no more compositions than there are sessions.
LEMMA WaitingFinite ==
  ASSUME queue \in Seq(Session), Len(queue) <= MaxQueue
  PROVE  IsFiniteSet(Waiting) /\ Cardinality(Waiting) <= MaxQueue
<1>1. DOMAIN queue = 1..Len(queue) /\ Len(queue) \in Nat
  BY LenProperties
<1>2. IsFiniteSet(DOMAIN queue) /\ Cardinality(DOMAIN queue) = Len(queue)
  BY <1>1, IntervalSize
<1> DEFINE f == [i \in DOMAIN queue |-> queue[i].comp]
<1>3. f \in Surjection(DOMAIN queue, Waiting)
  BY DEF Surjection, Waiting
<1>4. IsFiniteSet(Waiting) /\ Cardinality(Waiting) <= Cardinality(DOMAIN queue)
  BY <1>2, <1>3, FS_Surjection
<1>5. Cardinality(Waiting) \in Nat
  BY <1>4, FS_CardinalityType
<1> QED
  BY <1>1, <1>2, <1>4, <1>5, ConstantsAssumption

\* NewComposition finds an identifier that names no composition of the document,
\* not the service's, and none that a session waits to end.
LEMMA NewCompositionIsNew ==
  ASSUME queue \in Seq(Session), Len(queue) <= MaxQueue,
         NEW w \in Service, IsFiniteSet(w.open)
  PROVE  /\ NewComposition(w) \in Nat \ {0}
         /\ NewComposition(w) \notin w.open \cup {w.comp} \cup Waiting
<1> DEFINE Taken == w.open \cup {w.comp} \cup Waiting
           Ids == 1..(MaxQueue + Cardinality(w.open) + 2)
<1>1. IsFiniteSet(Waiting) /\ Cardinality(Waiting) <= MaxQueue
  BY WaitingFinite
<1>2. Cardinality(Waiting) \in Nat /\ Cardinality(w.open) \in Nat
  BY <1>1, FS_CardinalityType
<1>3. /\ IsFiniteSet(w.open \cup {w.comp})
      /\ Cardinality(w.open \cup {w.comp}) \in Nat
      /\ Cardinality(w.open \cup {w.comp}) <= Cardinality(w.open) + 1
  BY OneMore
<1>4. /\ IsFiniteSet(Taken) /\ Cardinality(Taken) \in Nat
      /\ Cardinality(Taken) <= Cardinality(w.open \cup {w.comp}) + Cardinality(Waiting)
  BY <1>1, <1>3, UnionSize
<1>5. MaxQueue + Cardinality(w.open) + 2 \in Nat
  BY <1>2, ConstantsAssumption
<1>6. IsFiniteSet(Ids) /\ Cardinality(Ids) = MaxQueue + Cardinality(w.open) + 2
  BY <1>5, IntervalSize
<1>7. ~(Ids \subseteq Taken)
  <2>1. SUFFICES ASSUME Ids \subseteq Taken PROVE FALSE
    OBVIOUS
  <2>2. Cardinality(Ids) <= Cardinality(Taken)
    BY <1>4, <2>1, FS_Subset
  <2> QED
    BY <1>1, <1>2, <1>3, <1>4, <1>6, <2>2, ConstantsAssumption
<1>8. \E c \in Ids : c \notin Taken
  BY <1>7
<1>9. NewComposition(w) \in Ids /\ NewComposition(w) \notin Taken
  BY <1>8 DEF NewComposition
<1> QED
  BY <1>5, <1>9

-----------------------------------------------------------------------------
(* The inductive invariant. *)

\* No element comes after a greater one, and only those of kept come twice.
InOrder(s, kept) ==
  \A i, j \in DOMAIN s : i < j =>
    s[i] < s[j] \/ (s[i] = s[j] /\ s[j] \in kept)

\* The texts of the document are in order, and all of them have been committed ...
TextOrdered(w) ==
  /\ InOrder(w.text, w.kept)
  /\ \A i \in DOMAIN w.text : w.text[i] <= w.given

\* ... and the text of the answer in the buffer comes after them, or is noted as
\* one that was left there.
Fresh(w) ==
  w.buffer # Noise /\ w.buffer.commit # 0 =>
    /\ w.buffer.commit <= w.given
    /\ \A i \in DOMAIN w.text :
         \/ w.text[i] < w.buffer.commit
         \/ w.text[i] = w.buffer.commit /\ w.buffer.commit \in w.kept

Ordered(w) == TextOrdered(w) /\ Fresh(w)

\* What the buffer says of the server's composition is true.
BufferTrue(w) == w.buffer # Noise => w.buffer.composing = w.engine

\* The compositions of the server, the service and the document go together, and
\* the sessions in q do no more than end the service's.
Calm(w, q) ==
  /\ w.open \subseteq {w.comp}
  /\ w.engine => w.comp \in w.open
  /\ \A i \in DOMAIN q :
       /\ q[i].kind # "update"
       /\ w.comp = 0 \/ q[i].comp \in {0, w.comp}
       /\ q[i].kind = "end" /\ ~q[i].clear => ~w.engine
  /\ w.comp # 0 /\ w.comp \notin w.open =>
       \E i \in DOMAIN q : q[i].kind = "end" /\ q[i].comp = w.comp

Arrived(w, d) == \A n \in 1..w.given : n \in ToSet(w.text) \cup d

Good(w) == w \in Service /\ IsFiniteSet(w.open)

ServiceInv ==
  /\ Good(svc)
  /\ queue \in Seq(Session) /\ Len(queue) <= MaxQueue
  /\ async \in BOOLEAN /\ deferred \in BOOLEAN
  /\ dropped \subseteq 1..MaxCommits
  /\ Ordered(svc)
  /\ BufferTrue(svc)
  /\ ~deferred => ~async /\ Calm(svc, queue) /\ Arrived(svc, dropped)

\* The flags say which key event was sent and eaten.
KeyInv ==
  /\ pending \in [BOOLEAN -> BOOLEAN]
  /\ event \in [up : BOOLEAN, open : BOOLEAN, sent : BOOLEAN, eaten : BOOLEAN,
                again : BOOLEAN]
  /\ \A up \in BOOLEAN :
       pending[up] <=> event.open /\ event.up = up /\ event.eaten
  /\ event.eaten => event.sent
  /\ ~event.again

IInv == ServiceInv /\ KeyInv

-----------------------------------------------------------------------------
(* What the operators on the service do. *)

LEMMA TextsAreNumbers ==
  ASSUME NEW w, Good(w)
  PROVE  \A i \in DOMAIN w.text : w.text[i] \in Nat
<1>1. w.text \in Seq(1..MaxCommits)
  BY DEF Good, Service
<1>2. \A i \in DOMAIN w.text : w.text[i] \in 1..MaxCommits
  BY <1>1, ElementOfSeq, LenProperties
<1> QED
  BY <1>2

LEMMA SentFacts ==
  ASSUME NEW w, Good(w)
  PROVE  /\ Good(Sent(w)) /\ Sent(w).buffer = Noise
         /\ Sent(w).engine = w.engine /\ Sent(w).waiting = w.waiting
         /\ Sent(w).given = w.given /\ Sent(w).status = w.status
         /\ Sent(w).comp = w.comp /\ Sent(w).open = w.open
         /\ Sent(w).text = w.text /\ Sent(w).kept = w.kept
BY DEF Good, Sent, Service

LEMMA ClearedFacts ==
  ASSUME NEW w, Good(w)
  PROVE  /\ Good(Cleared(w)) /\ Cleared(w).buffer = Noise
         /\ ~Cleared(w).engine /\ Cleared(w).waiting = w.waiting
         /\ Cleared(w).given = w.given /\ Cleared(w).status = w.status
         /\ Cleared(w).comp = w.comp /\ Cleared(w).open = w.open
         /\ Cleared(w).text = w.text /\ Cleared(w).kept = w.kept
BY DEF Good, Cleared, Sent, Service

LEMMA RestartedFacts ==
  ASSUME NEW w, Good(w)
  PROVE  /\ Good(Restarted(w)) /\ Restarted(w).buffer = Noise
         /\ ~Restarted(w).engine /\ ~Restarted(w).waiting
         /\ Restarted(w).given = w.given
         /\ Restarted(w).comp = w.comp /\ Restarted(w).open = w.open
         /\ Restarted(w).text = w.text /\ Restarted(w).kept = w.kept
BY DEF Good, Restarted, Sent, Service

\* The answer to a request is in the buffer, and its text is a new one.
LEMMA AnswerFacts ==
  ASSUME NEW w, Good(w), NEW commits \in BOOLEAN, NEW composing \in BOOLEAN,
         commits => w.given < MaxCommits
  PROVE  LET v == Answer(w, commits, composing)
         IN /\ Good(v)
            /\ v.buffer # Noise
            /\ v.buffer.composing = composing /\ v.engine = composing
            /\ v.buffer.commit = IF commits THEN w.given + 1 ELSE 0
            /\ v.given = IF commits THEN w.given + 1 ELSE w.given
            /\ v.comp = w.comp /\ v.open = w.open /\ v.text = w.text /\ v.kept = w.kept
<1> DEFINE v == Answer(w, commits, composing)
<1>1. w.given \in 0..MaxCommits
  BY DEF Good, Service
<1>2. (IF commits THEN w.given + 1 ELSE 0) \in 0..MaxCommits
  BY <1>1, ConstantsAssumption
<1>3. (IF commits THEN w.given + 1 ELSE w.given) \in 0..MaxCommits
  BY <1>1, ConstantsAssumption
<1>4. [commit |-> IF commits THEN w.given + 1 ELSE 0, composing |-> composing]
        \in Answers
  BY <1>2 DEF Answers
<1>5. /\ v.buffer = [commit |-> IF commits THEN w.given + 1 ELSE 0,
                     composing |-> composing]
      /\ v.engine = composing
      /\ v.given = IF commits THEN w.given + 1 ELSE w.given
      /\ v.comp = w.comp /\ v.open = w.open /\ v.text = w.text /\ v.kept = w.kept
  BY DEF Answer, Good, Service
<1>6. v \in Service
  BY <1>3, <1>4 DEF Answer, Good, Service
<1>7. v.buffer # Noise
  BY <1>2, <1>5, ConstantsAssumption
<1> QED
  BY <1>5, <1>6, <1>7 DEF Good

\* With every text noted that stays in the buffer.
LEMMA PositionFacts ==
  ASSUME NEW w, Good(w), NEW v \in Position(w)
  PROVE  /\ Good(v) /\ v.buffer \in {w.buffer, Noise}
         /\ v.engine = w.engine /\ v.given = w.given /\ v.comp = w.comp
         /\ v.open = w.open /\ v.text = w.text /\ w.kept \subseteq v.kept
         /\ v.buffer # Noise /\ v.buffer.commit \in ToSet(w.text) =>
              v.buffer.commit \in v.kept
<1>1. CASE v = Sent(w)
  BY <1>1, SentFacts
<1>2. CASE v = w /\ (w.buffer = Noise \/ w.buffer.commit \notin ToSet(w.text))
  BY <1>2
<1>3. CASE /\ w.buffer # Noise /\ w.buffer.commit \in ToSet(w.text)
           /\ v = [w EXCEPT !.kept = @ \cup {w.buffer.commit}]
  <2>1. w.text \in Seq(1..MaxCommits) /\ w \in Service
    BY DEF Good, Service
  <2>2. w.buffer.commit \in 1..MaxCommits
    BY <1>3, <2>1, ElementOfSeq, LenProperties DEF ToSet
  <2> DEFINE K == w.kept \cup {w.buffer.commit}
  <2>3. K \in SUBSET (1..MaxCommits)
    BY <2>1, <2>2 DEF Service
  <2>4. v = [w EXCEPT !.kept = K]
    BY <1>3
  <2>5. w.buffer.commit \in K /\ w.kept \subseteq K
    OBVIOUS
  <2> HIDE DEF K
  <2>6. /\ v \in Service /\ v.buffer = w.buffer
        /\ v.engine = w.engine /\ v.given = w.given /\ v.comp = w.comp
        /\ v.open = w.open /\ v.text = w.text /\ v.kept = K
    BY <2>1, <2>3, <2>4 DEF Service
  <2> QED
    BY <2>5, <2>6 DEF Good
<1> QED
  BY <1>1, <1>2, <1>3 DEF Position, Unplaced

\* More texts noted and less in the buffer.
LEMMA OrderedKept ==
  ASSUME NEW w, NEW v, Ordered(w), v.text = w.text, v.given = w.given,
         w.kept \subseteq v.kept, v.buffer \in {w.buffer, Noise}
  PROVE  Ordered(v)
BY DEF Ordered, TextOrdered, InOrder, Fresh

LEMMA EndFacts ==
  ASSUME NEW w, Good(w), NEW c \in Nat, NEW clear \in BOOLEAN
  PROVE  LET v == End(w, c, clear)
         IN /\ Good(v) /\ v.buffer \in {w.buffer, Noise}
            /\ v.given = w.given /\ v.text = w.text /\ v.kept = w.kept
            /\ c = 0 => v = w
            /\ c # 0 => v.comp = 0 /\ v.open \subseteq w.open \ {c}
            /\ c # 0 /\ clear /\ c \in w.open =>
                 ~v.engine /\ v.buffer = Noise /\ w.comp \notin v.open
            /\ ~(c # 0 /\ clear /\ c \in w.open) =>
                 v.engine = w.engine /\ v.buffer = w.buffer
<1> DEFINE v == End(w, c, clear)
<1>1. CASE c = 0
  BY <1>1 DEF End
<1>2. CASE c # 0 /\ clear /\ c \in w.open
  <2>1. v = [Cleared(w) EXCEPT !.open = @ \ {c, w.comp}, !.comp = 0]
    BY <1>2 DEF End
  <2>2. IsFiniteSet(w.open \ {c, w.comp})
    BY FS_Subset DEF Good
  <2>3. Cleared(w) \in Service
    BY ClearedFacts DEF Good
  <2>4. /\ v \in Service /\ v.open = w.open \ {c, w.comp} /\ v.comp = 0
        /\ ~v.engine /\ v.buffer = Noise /\ v.given = w.given /\ v.text = w.text /\ v.kept = w.kept
    <3> DEFINE O == w.open \ {c, w.comp}
               u == Cleared(w)
    <3>1. O \in SUBSET (Nat \ {0})
      BY DEF Good, Service
    <3>2. v = [u EXCEPT !.open = O, !.comp = 0]
      BY <2>1, ClearedFacts
    <3>3. u \in Service
      BY <2>3
    <3> HIDE DEF v, O, u
    <3>4. /\ v \in Service /\ v.open = O /\ v.comp = 0
          /\ v.engine = u.engine /\ v.buffer = u.buffer
          /\ v.given = u.given /\ v.text = u.text /\ v.kept = u.kept
      BY <3>1, <3>2, <3>3 DEF Service
    <3> QED
      BY <3>4, ClearedFacts DEF O, u
  <2> QED
    BY <1>2, <2>2, <2>4 DEF Good
<1>3. CASE c # 0 /\ ~(clear /\ c \in w.open)
  <2>1. v = [w EXCEPT !.open = @ \ {c}, !.comp = 0]
    BY <1>3 DEF End
  <2>2. IsFiniteSet(w.open \ {c})
    BY FS_Subset DEF Good
  <2>3. /\ v \in Service /\ v.open = w.open \ {c} /\ v.comp = 0
        /\ v.engine = w.engine /\ v.buffer = w.buffer
        /\ v.given = w.given /\ v.text = w.text /\ v.kept = w.kept
    <3> DEFINE O == w.open \ {c}
    <3>1. O \in SUBSET (Nat \ {0}) /\ w \in Service
      BY DEF Good, Service
    <3>2. v = [w EXCEPT !.open = O, !.comp = 0]
      BY <2>1
    <3> HIDE DEF v, O
    <3>3. /\ v \in Service /\ v.open = O /\ v.comp = 0
          /\ v.engine = w.engine /\ v.buffer = w.buffer
          /\ v.given = w.given /\ v.text = w.text /\ v.kept = w.kept
      BY <3>1, <3>2 DEF Service
    <3> QED
      BY <3>3 DEF O
  <2> QED
    BY <1>3, <2>2, <2>3 DEF Good
<1> QED
  BY <1>1, <1>2, <1>3

LEMMA StartedFacts ==
  ASSUME queue \in Seq(Session), Len(queue) <= MaxQueue, NEW w, Good(w)
  PROVE  LET v == Started(w)
         IN /\ Good(v) /\ v.comp \in Nat \ {0} /\ v.open = w.open \cup {v.comp}
            /\ v.buffer = w.buffer /\ v.engine = w.engine
            /\ v.given = w.given /\ v.text = w.text /\ v.kept = w.kept
<1> DEFINE c == NewComposition(w)
<1>1. c \in Nat \ {0}
  BY NewCompositionIsNew DEF Good
<1>2. IsFiniteSet(w.open \cup {c})
  BY OneMore DEF Good
<1> HIDE DEF c
<1> DEFINE O == w.open \cup {c}
           v == Started(w)
<1>3. v = [w EXCEPT !.open = O, !.comp = c]
  BY DEF Started, c
<1>4. w \in Service /\ O \in SUBSET (Nat \ {0})
  BY <1>1 DEF Good, Service
<1> HIDE DEF O, v
<1>5. /\ v \in Service /\ v.open = O /\ v.comp = c
      /\ v.engine = w.engine /\ v.buffer = w.buffer
      /\ v.given = w.given /\ v.text = w.text /\ v.kept = w.kept
  BY <1>1, <1>3, <1>4 DEF Service
<1> QED
  BY <1>1, <1>2, <1>5 DEF Good, O, v

-----------------------------------------------------------------------------
(* DoEditSession. *)

\* A text that comes after those of the document, or is the last one again, is
\* put at its end.
LEMMA TextAppended ==
  ASSUME NEW s \in Seq(1..MaxCommits), NEW k \in 1..MaxCommits, NEW kept
  PROVE  /\ Append(s, k) \in Seq(1..MaxCommits)
         /\ ToSet(Append(s, k)) = ToSet(s) \cup {k}
         /\ InOrder(s, kept)
              /\ (\A i \in DOMAIN s : s[i] < k \/ (s[i] = k /\ k \in kept)) =>
                InOrder(Append(s, k), kept)
         /\ \A n \in Nat :
              (\A i \in DOMAIN s : s[i] <= n) /\ k <= n =>
                \A i \in DOMAIN Append(s, k) : Append(s, k)[i] <= n
<1>1. /\ Append(s, k) \in Seq(1..MaxCommits)
      /\ Len(s) \in Nat /\ Len(Append(s, k)) = Len(s) + 1
      /\ DOMAIN s = 1..Len(s) /\ DOMAIN Append(s, k) = 1..(Len(s) + 1)
      /\ \A i \in 1..Len(s) : Append(s, k)[i] = s[i]
      /\ Append(s, k)[Len(s) + 1] = k
  BY AppendProperties, LenProperties
<1>2. ToSet(Append(s, k)) = ToSet(s) \cup {k}
  BY <1>1 DEF ToSet
<1>3. \A i \in DOMAIN Append(s, k) : i \in DOMAIN s \/ i = Len(s) + 1
  BY <1>1
<1>4. ASSUME InOrder(s, kept),
             \A i \in DOMAIN s : s[i] < k \/ (s[i] = k /\ k \in kept)
      PROVE  InOrder(Append(s, k), kept)
  BY <1>1, <1>3, <1>4 DEF InOrder
<1>5. ASSUME NEW n \in Nat, \A i \in DOMAIN s : s[i] <= n, k <= n
      PROVE  \A i \in DOMAIN Append(s, k) : Append(s, k)[i] <= n
  BY <1>1, <1>3, <1>5
<1> QED
  BY <1>1, <1>2, <1>4, <1>5

LEMMA InsertedFacts ==
  ASSUME NEW w, Good(w)
  PROVE  /\ Good(Inserted(w)) /\ Inserted(w).buffer = w.buffer
         /\ Inserted(w).engine = w.engine /\ Inserted(w).given = w.given
         /\ Inserted(w).kept = w.kept
         /\ Ordered(w) => TextOrdered(Inserted(w))
         /\ Ordered(w) /\ w.buffer # Noise /\ w.buffer.commit # 0 =>
              \A i \in DOMAIN Inserted(w).text :
                Inserted(w).text[i] <= w.buffer.commit
         /\ ToSet(w.text) \subseteq ToSet(Inserted(w).text)
         /\ w.buffer = Noise => Inserted(w) = w
         /\ w.buffer # Noise =>
              /\ Inserted(w).status = w.buffer.composing
              /\ w.buffer.commit # 0 =>
                   /\ w.buffer.commit \in ToSet(Inserted(w).text)
                   /\ Inserted(w).comp = 0
                   /\ Inserted(w).open = w.open \ {w.comp}
              /\ w.buffer.commit = 0 =>
                   /\ Inserted(w).comp = w.comp
                   /\ Inserted(w).open = w.open
                   /\ Inserted(w).text = w.text
<1> DEFINE v == Inserted(w)
           k == w.buffer.commit
<1>1. w \in Service /\ IsFiniteSet(w.open) /\ w.given \in Nat
  BY DEF Good, Service
<1>2. CASE w.buffer = Noise
  BY <1>1, <1>2 DEF Inserted, Good, Ordered
<1>3. CASE w.buffer # Noise /\ k = 0
  <2>1. w.buffer.composing \in BOOLEAN
    BY <1>1, <1>3 DEF Service, Answers
  <2>2. v = [w EXCEPT !.status = w.buffer.composing]
    BY <1>3 DEF Inserted
  <2>3. /\ v \in Service /\ v.status = w.buffer.composing
        /\ v.comp = w.comp /\ v.open = w.open /\ v.text = w.text
        /\ v.buffer = w.buffer /\ v.engine = w.engine /\ v.given = w.given
        /\ v.kept = w.kept
    BY <1>1, <2>1, <2>2 DEF Service
  <2> QED
    BY <1>1, <1>3, <2>3 DEF Good, Ordered, TextOrdered
<1>4. CASE w.buffer # Noise /\ k # 0
  <2>1. w.buffer.composing \in BOOLEAN /\ k \in 1..MaxCommits
    BY <1>1, <1>4, ConstantsAssumption DEF Service, Answers
  <2>2. w.text \in Seq(1..MaxCommits)
    BY <1>1 DEF Service
  <2> DEFINE O == w.open \ {w.comp}
             t == Append(w.text, k)
  <2>3. O \in SUBSET (Nat \ {0}) /\ IsFiniteSet(O)
    BY <1>1, FS_Subset DEF Service
  <2>4. t \in Seq(1..MaxCommits)
    BY <2>1, <2>2, TextAppended
  <2>5. v = [[w EXCEPT !.status = w.buffer.composing]
               EXCEPT !.text = t, !.open = O, !.comp = 0]
    BY <1>1, <1>4 DEF Inserted, Service
  <2> HIDE DEF v, O, t
  <2>6. /\ v \in Service /\ v.status = w.buffer.composing
        /\ v.comp = 0 /\ v.open = O /\ v.text = t /\ v.kept = w.kept
        /\ v.buffer = w.buffer /\ v.engine = w.engine /\ v.given = w.given
    BY <1>1, <2>1, <2>3, <2>4, <2>5 DEF Service
  <2>7. ToSet(w.text) \subseteq ToSet(t) /\ k \in ToSet(t)
    BY <2>1, <2>2, TextAppended DEF t
  <2>8. ASSUME Ordered(w)
        PROVE  TextOrdered(v) /\ \A i \in DOMAIN t : t[i] <= k
    <3>1. /\ InOrder(w.text, w.kept) /\ k <= w.given
          /\ \A i \in DOMAIN w.text : w.text[i] <= w.given
          /\ \A i \in DOMAIN w.text :
               w.text[i] < k \/ (w.text[i] = k /\ k \in w.kept)
      BY <1>4, <2>8 DEF Ordered, TextOrdered, Fresh
    <3>2. InOrder(t, w.kept)
      BY <2>1, <2>2, <3>1, TextAppended DEF t
    <3>3. k \in Nat /\ \A i \in DOMAIN w.text : w.text[i] \in Nat
      BY <2>1, TextsAreNumbers, ConstantsAssumption
    <3>4. \A i \in DOMAIN w.text : w.text[i] <= k
      BY <3>1, <3>3
    <3>5. \A i \in DOMAIN t : t[i] <= k
      BY <2>1, <2>2, <3>3, <3>4, TextAppended DEF t
    <3>6. \A i \in DOMAIN t : t[i] <= w.given
      BY <1>1, <2>1, <2>2, <3>1, TextAppended DEF t
    <3> QED
      BY <2>6, <3>2, <3>5, <3>6 DEF TextOrdered
  <2> QED
    BY <1>4, <2>3, <2>6, <2>7, <2>8 DEF Good, O, v
<1> QED
  BY <1>2, <1>3, <1>4

\* What an update finds when no session waits: the buffer holds the answer that
\* made the server compose, or the composition is there.
Ready(w) ==
  /\ w.open \subseteq {w.comp}
  /\ w.comp # 0 => w.comp \in w.open
  /\ BufferTrue(w)
  /\ w.buffer = Noise /\ w.engine => w.comp # 0

LEMMA DoEditFacts ==
  ASSUME queue \in Seq(Session), Len(queue) <= MaxQueue,
         NEW w, Good(w), NEW v \in DoEditSession(w)
  PROVE  /\ Good(v) /\ v.given = w.given
         /\ Ordered(w) => Ordered(v)
         /\ BufferTrue(w) => BufferTrue(v)
         /\ ToSet(w.text) \subseteq ToSet(v.text)
         /\ w.buffer # Noise /\ w.buffer.commit # 0 =>
              w.buffer.commit \in ToSet(v.text)
         /\ Ready(w) => Calm(v, <<>>)
<1> DEFINE x == Inserted(w)
           y == IF x.status /\ x.comp = 0 THEN Started(x)
                ELSE IF ~x.status /\ x.comp # 0 THEN End(x, x.comp, TRUE)
                ELSE x
<1>1. v \in Position(y)
  BY DEF DoEditSession, Shown
<1>2. Good(x) /\ x.comp \in Nat /\ 0 \notin x.open /\ x.status \in BOOLEAN
  BY InsertedFacts DEF Good, Service
<1> HIDE DEF x
<1>4. /\ Good(y) /\ y.given = x.given /\ y.text = x.text /\ y.kept = x.kept
      /\ y.buffer \in {x.buffer, Noise}
      /\ y.engine # x.engine => y.buffer = Noise
  <2>1. CASE x.status /\ x.comp = 0
    BY <1>2, <2>1, StartedFacts
  <2>2. CASE ~x.status /\ x.comp # 0
    BY <1>2, <2>2, EndFacts
  <2>3. CASE ~(x.status /\ x.comp = 0) /\ ~(~x.status /\ x.comp # 0)
    BY <1>2, <2>3
  <2> QED
    BY <2>1, <2>2, <2>3
<1>5. Ready(w) =>
        /\ y.open \subseteq {y.comp}
        /\ y.engine => y.comp \in y.open
        /\ y.comp # 0 => y.comp \in y.open
  <2> SUFFICES ASSUME Ready(w)
               PROVE  /\ y.open \subseteq {y.comp}
                      /\ y.engine => y.comp \in y.open
                      /\ y.comp # 0 => y.comp \in y.open
    OBVIOUS
  <2>1. /\ x.open \subseteq {x.comp}
        /\ x.comp # 0 => x.comp \in x.open
        /\ x.engine /\ x.comp = 0 => x.status
    BY InsertedFacts DEF Ready, BufferTrue, x
  <2>2. x.comp = 0 => x.open = {}
    BY <1>2, <2>1
  <2>3. CASE x.status /\ x.comp = 0
    BY <1>2, <2>2, <2>3, StartedFacts
  <2>4. CASE ~x.status /\ x.comp # 0
    <3>1. x.comp \in x.open
      BY <2>1, <2>4
    <3>2. ~y.engine /\ y.comp = 0 /\ y.open \subseteq x.open \ {x.comp}
      BY <1>2, <2>4, <3>1, EndFacts
    <3> QED
      BY <2>1, <3>2
  <2>5. CASE ~(x.status /\ x.comp = 0) /\ ~(~x.status /\ x.comp # 0)
    BY <1>2, <2>1, <2>5
  <2> QED
    BY <2>3, <2>4, <2>5
<1> HIDE DEF y
<1>6. /\ Good(v) /\ v.buffer \in {y.buffer, Noise}
      /\ v.engine = y.engine /\ v.given = y.given /\ v.comp = y.comp
      /\ v.open = y.open /\ v.text = y.text /\ y.kept \subseteq v.kept
      /\ v.buffer # Noise /\ v.buffer.commit \in ToSet(y.text) =>
           v.buffer.commit \in v.kept
  BY <1>1, <1>4, PositionFacts
<1>7. /\ x.buffer = w.buffer /\ x.engine = w.engine /\ x.given = w.given
      /\ x.kept = w.kept
      /\ Ordered(w) => TextOrdered(x)
      /\ Ordered(w) /\ w.buffer # Noise /\ w.buffer.commit # 0 =>
           \A i \in DOMAIN x.text : x.text[i] <= w.buffer.commit
      /\ ToSet(w.text) \subseteq ToSet(x.text)
      /\ w.buffer # Noise /\ w.buffer.commit # 0 =>
           w.buffer.commit \in ToSet(x.text)
  BY InsertedFacts DEF x
<1>8. ASSUME Ordered(w) PROVE Ordered(v)
  <2>1. TextOrdered(v)
    BY <1>4, <1>6, <1>7, <1>8 DEF TextOrdered, InOrder
  <2>2. ASSUME v.buffer # Noise, v.buffer.commit # 0
        PROVE  /\ v.buffer.commit <= v.given
               /\ \A i \in DOMAIN v.text :
                    \/ v.text[i] < v.buffer.commit
                    \/ v.text[i] = v.buffer.commit /\ v.buffer.commit \in v.kept
    <3>1. v.buffer = w.buffer /\ v.text = x.text /\ v.given = w.given
      BY <1>4, <1>6, <1>7, <2>2
    <3>2. v.buffer.commit \in v.kept /\ v.buffer.commit <= v.given
      BY <1>4, <1>6, <1>7, <1>8, <2>2, <3>1 DEF Ordered, Fresh
    <3>3. v.buffer.commit \in Nat /\ \A i \in DOMAIN v.text : v.text[i] \in Nat
      <4>1. v.buffer \in Answers
        BY <1>6, <2>2 DEF Good, Service
      <4> QED
        BY <1>6, <4>1, TextsAreNumbers DEF Answers
    <3>4. \A i \in DOMAIN v.text : v.text[i] <= v.buffer.commit
      BY <1>7, <1>8, <2>2, <3>1
    <3> QED
      BY <3>2, <3>3, <3>4
  <2> QED
    BY <2>1, <2>2 DEF Ordered, Fresh
<1>9. BufferTrue(w) => BufferTrue(v)
  BY <1>4, <1>6, <1>7 DEF BufferTrue
<1>10. Ready(w) => Calm(v, <<>>)
  BY <1>5, <1>6 DEF Calm
<1> QED
  BY <1>4, <1>6, <1>7, <1>8, <1>9, <1>10

-----------------------------------------------------------------------------
(* The sessions that wait. *)

LEMMA SessionFields ==
  /\ Update \in Session /\ Extent \in Session
  /\ \A c \in Nat, clear \in BOOLEAN : Ending(c, clear) \in Session
  /\ \A s \in Session : s.kind \in {"update", "extent", "end"}
  /\ \A s \in Session : s.comp \in Nat /\ s.clear \in BOOLEAN
BY DEF Session, Update, Extent, Ending

LEMMA RunFacts ==
  ASSUME queue \in Seq(Session), Len(queue) <= MaxQueue,
         NEW w, Good(w), NEW session \in Session, NEW v \in Run(w, session)
  PROVE  /\ Good(v) /\ v.given = w.given
         /\ Ordered(w) => Ordered(v)
         /\ BufferTrue(w) => BufferTrue(v)
         /\ ToSet(w.text) \subseteq ToSet(v.text)
<1>1. CASE session.kind = "update"
  <2>1. v \in DoEditSession(w)
    BY <1>1 DEF Run
  <2> QED
    BY <2>1, DoEditFacts
<1>2. CASE session.kind = "extent"
  <2>1. v \in Position(w)
    BY <1>2 DEF Run
  <2> QED
    BY <2>1, PositionFacts, OrderedKept DEF BufferTrue
<1>3. CASE session.kind = "end"
  <2>1. /\ v = End(w, session.comp, session.clear)
        /\ session.comp \in Nat /\ session.clear \in BOOLEAN
    BY <1>3, SessionFields DEF Run
  <2>2. /\ Good(v) /\ v.buffer \in {w.buffer, Noise}
        /\ v.given = w.given /\ v.text = w.text /\ v.kept = w.kept
        /\ v.engine = w.engine \/ v.buffer = Noise
    BY <2>1, EndFacts
  <2> QED
    BY <2>2, OrderedKept DEF BufferTrue
<1> QED
  BY <1>1, <1>2, <1>3, SessionFields

LEMMA TailFacts ==
  ASSUME NEW q \in Seq(Session), q # <<>>
  PROVE  /\ Head(q) = q[1] /\ 1 \in DOMAIN q /\ Head(q) \in Session
         /\ Tail(q) \in Seq(Session) /\ Len(Tail(q)) <= Len(q)
         /\ \A i \in DOMAIN Tail(q) : i + 1 \in DOMAIN q /\ Tail(q)[i] = q[i + 1]
         /\ \A i \in DOMAIN q : i = 1 \/ (i - 1 \in DOMAIN Tail(q) /\ q[i] = Tail(q)[i - 1])
<1>1. /\ Len(q) \in Nat /\ Len(q) # 0 /\ DOMAIN q = 1..Len(q)
      /\ Head(q) = q[1] /\ Head(q) \in Session
      /\ Tail(q) \in Seq(Session) /\ Len(Tail(q)) = Len(q) - 1
      /\ DOMAIN Tail(q) = 1..(Len(q) - 1)
      /\ \A i \in 1..(Len(q) - 1) : Tail(q)[i] = q[i + 1]
  BY HeadTailProperties, LenProperties, EmptySeq
<1> QED
  BY <1>1

\* While the sessions only end the service's composition, the next one of them
\* leaves the others to do the same.
LEMMA RunCalm ==
  ASSUME NEW w, Good(w), NEW q \in Seq(Session), q # <<>>, Calm(w, q),
         NEW v \in Run(w, Head(q))
  PROVE  Calm(v, Tail(q)) /\ v.given = w.given /\ v.text = w.text
<1> DEFINE s == Head(q)
<1>1. /\ s = q[1] /\ 1 \in DOMAIN q /\ s \in Session
      /\ \A i \in DOMAIN Tail(q) : i + 1 \in DOMAIN q /\ Tail(q)[i] = q[i + 1]
      /\ \A i \in DOMAIN q : i = 1 \/ (i - 1 \in DOMAIN Tail(q) /\ q[i] = Tail(q)[i - 1])
  BY TailFacts
<1>2. 0 \notin w.open
  BY DEF Good, Service
<1>3. s.kind # "update" /\ (w.comp = 0 \/ s.comp \in {0, w.comp})
  BY <1>1 DEF Calm
<1>4. CASE s.kind = "extent"
  <2>1. v \in Position(w)
    BY <1>4 DEF Run
  <2>2. /\ v.engine = w.engine /\ v.given = w.given /\ v.comp = w.comp
        /\ v.open = w.open /\ v.text = w.text
    BY <2>1, PositionFacts
  <2> QED
    BY <1>1, <1>4, <2>2 DEF Calm
<1>5. CASE s.kind = "end"
  <2>1. v = End(w, s.comp, s.clear) /\ s.comp \in Nat /\ s.clear \in BOOLEAN
    BY <1>1, <1>5, SessionFields DEF Run
  <2>2. CASE s.comp = 0
    <3>1. v = w
      BY <2>1, <2>2, EndFacts
    <3>2. w.comp # 0 /\ w.comp \notin w.open =>
            \E i \in DOMAIN Tail(q) :
              Tail(q)[i].kind = "end" /\ Tail(q)[i].comp = w.comp
      <4> SUFFICES ASSUME w.comp # 0, w.comp \notin w.open
                   PROVE  \E i \in DOMAIN Tail(q) :
                            Tail(q)[i].kind = "end" /\ Tail(q)[i].comp = w.comp
        OBVIOUS
      <4>1. PICK i \in DOMAIN q : q[i].kind = "end" /\ q[i].comp = w.comp
        BY DEF Calm
      <4>2. i # 1
        BY <1>1, <2>2, <4>1
      <4> QED
        BY <1>1, <4>1, <4>2
    <3>3. \A i \in DOMAIN Tail(q) :
            /\ Tail(q)[i].kind # "update"
            /\ w.comp = 0 \/ Tail(q)[i].comp \in {0, w.comp}
            /\ Tail(q)[i].kind = "end" /\ ~Tail(q)[i].clear => ~w.engine
      BY <1>1 DEF Calm
    <3> QED
      BY <3>1, <3>2, <3>3 DEF Calm
  <2>3. CASE s.comp # 0
    <3>1. v.comp = 0 /\ v.open \subseteq w.open \ {s.comp}
          /\ v.given = w.given /\ v.text = w.text
      BY <2>1, <2>3, EndFacts
    <3>2. v.open = {}
      BY <1>2, <1>3, <2>3, <3>1 DEF Calm
    <3>3. ~v.engine
      <4>1. CASE ~w.engine
        BY <2>1, <2>3, <4>1, EndFacts
      <4>2. CASE w.engine
        <5>1. w.comp \in w.open /\ w.comp # 0 /\ s.comp = w.comp
          BY <1>2, <1>3, <2>3, <4>2 DEF Calm
        <5>2. s.clear
          BY <1>1, <1>5, <4>2 DEF Calm
        <5> QED
          BY <2>1, <2>3, <5>1, <5>2, EndFacts
      <4> QED
        BY <4>1, <4>2
    <3> QED
      BY <1>1, <3>1, <3>2, <3>3 DEF Calm
  <2> QED
    BY <2>2, <2>3
<1> QED
  BY <1>1, <1>3, <1>4, <1>5, SessionFields

-----------------------------------------------------------------------------
(* Asking for a session, and for an update. *)

LEMMA AppendSession ==
  ASSUME NEW q \in Seq(Session), NEW s \in Session
  PROVE  /\ Append(q, s) \in Seq(Session) /\ Len(Append(q, s)) = Len(q) + 1
         /\ Len(q) \in Nat
         /\ DOMAIN q = 1..Len(q) /\ DOMAIN Append(q, s) = 1..(Len(q) + 1)
         /\ \A i \in 1..Len(q) : Append(q, s)[i] = q[i]
         /\ Append(q, s)[Len(q) + 1] = s
BY AppendProperties, LenProperties

LEMMA One ==
  ASSUME NEW s \in Session
  PROVE  /\ Append(<<>>, s) \in Seq(Session) /\ Append(<<>>, s) # <<>>
         /\ Head(Append(<<>>, s)) = s /\ Tail(Append(<<>>, s)) = <<>>
<1>1. <<>> \in Seq(Session) /\ Len(<<>>) = 0
  BY EmptySeq
<1>2. /\ Append(<<>>, s) \in Seq(Session) /\ Len(Append(<<>>, s)) = 1
      /\ Append(<<>>, s)[1] = s
  BY <1>1, AppendSession
<1> QED
  BY <1>2, HeadTailProperties, EmptySeq

LEMMA AskFacts ==
  ASSUME queue \in Seq(Session), Len(queue) <= MaxQueue,
         NEW w, Good(w), NEW session \in Session, Ask(w, session)
  PROVE  /\ Good(svc') /\ svc'.given = w.given
         /\ queue' \in Seq(Session) /\ Len(queue') <= MaxQueue
         /\ Ordered(w) => Ordered(svc')
         /\ BufferTrue(w) => BufferTrue(svc')
         /\ ToSet(w.text) \subseteq ToSet(svc'.text)
         /\ Calm(w, Append(queue, session)) => Calm(svc', queue')
<1>1. CASE queue = <<>> /\ svc' \in Run(w, session) /\ UNCHANGED queue
  <2>1. /\ Good(svc') /\ svc'.given = w.given
        /\ Ordered(w) => Ordered(svc')
        /\ BufferTrue(w) => BufferTrue(svc')
        /\ ToSet(w.text) \subseteq ToSet(svc'.text)
    BY <1>1, RunFacts
  <2>2. Calm(w, Append(<<>>, session)) => Calm(svc', <<>>)
    <3>1. svc' \in Run(w, Head(Append(<<>>, session)))
      BY <1>1, One
    <3>2. Calm(w, Append(<<>>, session)) => Calm(svc', Tail(Append(<<>>, session)))
      BY <3>1, One, RunCalm
    <3> QED
      BY <3>2, One
  <2> QED
    BY <1>1, <2>1, <2>2
<1>2. CASE Len(queue) < MaxQueue /\ svc' = w /\ queue' = Append(queue, session)
  <2>1. queue' \in Seq(Session) /\ Len(queue') = Len(queue) + 1 /\ Len(queue) \in Nat
    BY <1>2, AppendSession
  <2> QED
    BY <1>2, <2>1, ConstantsAssumption
<1> QED
  BY <1>1, <1>2 DEF Ask

LEMMA AskKeeps ==
  ASSUME ServiceInv, NEW w, Good(w), Ordered(w), BufferTrue(w),
         NEW session \in Session, Ask(w, session),
         ~deferred => Calm(w, Append(queue, session)) /\ Arrived(w, dropped),
         UNCHANGED <<async, deferred, dropped>>
  PROVE  ServiceInv'
<1>1. /\ Good(svc') /\ svc'.given = w.given
      /\ queue' \in Seq(Session) /\ Len(queue') <= MaxQueue
      /\ Ordered(w) => Ordered(svc')
      /\ BufferTrue(w) => BufferTrue(svc')
      /\ ToSet(w.text) \subseteq ToSet(svc'.text)
      /\ Calm(w, Append(queue, session)) => Calm(svc', queue')
  BY AskFacts DEF ServiceInv
<1>2. Arrived(w, dropped) => Arrived(svc', dropped)
  BY <1>1 DEF Arrived
<1> QED
  BY <1>1, <1>2 DEF ServiceInv

\* The service after a request: the answer's text is all that may be missing from
\* the document.
Requested(w) ==
  /\ Good(w) /\ Ordered(w) /\ BufferTrue(w)
  /\ w.open = svc.open /\ w.comp = svc.comp
  /\ w.engine /\ w.buffer = Noise => svc.engine
  /\ ~deferred =>
       \A n \in 1..w.given :
         \/ n \in ToSet(w.text) \cup dropped
         \/ w.buffer # Noise /\ w.buffer.commit # 0 /\ n = w.buffer.commit

\* An update that reads an answer, or what is left of one.
LEMMA UpdateKeeps ==
  ASSUME ServiceInv, NEW w, Requested(w), UpdateComposition(w), UNCHANGED dropped
  PROVE  ServiceInv'
<1> USE DEF Requested
<1>1. CASE /\ queue = <<>>
           /\ \E v \in DoEditSession(w) : Ask(v, Extent)
           /\ async' = FALSE
           /\ UNCHANGED deferred
  <2>1. PICK v \in DoEditSession(w) : Ask(v, Extent)
    BY <1>1
  <2>2. /\ Good(v) /\ v.given = w.given /\ Ordered(v) /\ BufferTrue(v)
        /\ ToSet(w.text) \subseteq ToSet(v.text)
        /\ w.buffer # Noise /\ w.buffer.commit # 0 =>
             w.buffer.commit \in ToSet(v.text)
        /\ Ready(w) => Calm(v, <<>>)
    BY DoEditFacts DEF ServiceInv
  <2>3. /\ Good(svc') /\ svc'.given = v.given
        /\ queue' \in Seq(Session) /\ Len(queue') <= MaxQueue
        /\ Ordered(svc') /\ BufferTrue(svc')
        /\ ToSet(v.text) \subseteq ToSet(svc'.text)
        /\ Calm(v, Append(queue, Extent)) => Calm(svc', queue')
    BY <2>1, <2>2, AskFacts, SessionFields DEF ServiceInv
  <2>4. ASSUME ~deferred
        PROVE  Calm(svc', queue') /\ Arrived(svc', dropped)
    <3>1. Ready(w)
      <4>1. Calm(svc, queue) /\ DOMAIN queue = {} /\ 0 \notin svc.open
        BY <1>1, <2>4, EmptySeq DEF ServiceInv, Good, Service
      <4>2. /\ svc.open \subseteq {svc.comp}
            /\ svc.engine => svc.comp \in svc.open
            /\ svc.comp # 0 => svc.comp \in svc.open
        BY <4>1 DEF Calm
      <4> QED
        BY <4>1, <4>2 DEF Ready
    <3>2. Calm(v, Append(<<>>, Extent))
      <4>1. Append(<<>>, Extent) = <<Extent>>
        OBVIOUS
      <4> QED
        BY <2>2, <3>1, <4>1, EmptySeq DEF Calm, Extent
    <3>3. Arrived(svc', dropped)
      BY <2>2, <2>3, <2>4 DEF Arrived
    <3> QED
      BY <1>1, <2>3, <3>2, <3>3
  <2> QED
    BY <1>1, <2>3, <2>4 DEF ServiceInv
<1>2. CASE /\ Len(queue) + 2 <= MaxQueue
           /\ svc' = w
           /\ queue' = queue \o <<Update, Extent>>
           /\ async' = TRUE
           /\ deferred' = TRUE
  <2>1. <<Update, Extent>> \in Seq(Session) /\ Len(<<Update, Extent>>) = 2
    BY SessionFields
  <2>2. queue' \in Seq(Session) /\ Len(queue') = Len(queue) + 2
    BY <1>2, <2>1, ConcatProperties DEF ServiceInv
  <2> QED
    BY <1>2, <2>2 DEF ServiceInv
<1> QED
  BY <1>1, <1>2 DEF UpdateComposition

-----------------------------------------------------------------------------
(* The requests. *)

LEMMA SilentRequests ==
  ASSUME ServiceInv
  PROVE  Requested(svc) /\ Requested(Sent(svc)) /\ Requested(Restarted(svc))
<1>1. Good(svc) /\ Ordered(svc) /\ BufferTrue(svc)
  BY DEF ServiceInv
<1>2. ~deferred => \A n \in 1..svc.given : n \in ToSet(svc.text) \cup dropped
  BY DEF ServiceInv, Arrived
<1>3. Requested(svc)
  BY <1>1, <1>2 DEF ServiceInv, Calm, BufferTrue, Requested
<1>4. Requested(Sent(svc))
  BY <1>1, <1>2, SentFacts
     DEF Requested, Ordered, TextOrdered, Fresh, BufferTrue
<1>5. Requested(Restarted(svc))
  BY <1>1, <1>2, RestartedFacts
     DEF Requested, Ordered, TextOrdered, Fresh, BufferTrue
<1> QED
  BY <1>3, <1>4, <1>5

\* An answer with a text: the text is newer than all that the document has.
LEMMA AnswerOrdered ==
  ASSUME NEW w, Good(w), Ordered(w), NEW commits \in BOOLEAN,
         NEW composing \in BOOLEAN, commits => w.given < MaxCommits
  PROVE  /\ Ordered(Answer(w, commits, composing))
         /\ BufferTrue(Answer(w, commits, composing))
<1> DEFINE v == Answer(w, commits, composing)
<1>1. /\ Good(v)
      /\ v.buffer # Noise
      /\ v.buffer.composing = composing /\ v.engine = composing
      /\ v.buffer.commit = IF commits THEN w.given + 1 ELSE 0
      /\ v.given = IF commits THEN w.given + 1 ELSE w.given
      /\ v.text = w.text /\ v.kept = w.kept
  BY AnswerFacts
<1>2. w.given \in Nat /\ \A i \in DOMAIN w.text : w.text[i] \in Nat
  BY TextsAreNumbers DEF Good, Service
<1> HIDE DEF v
<1>3. TextOrdered(w)
  BY DEF Ordered
<1>4. TextOrdered(v)
  BY <1>1, <1>2, <1>3 DEF TextOrdered
<1>5. Fresh(v)
  BY <1>1, <1>2, <1>3 DEF TextOrdered, Fresh
<1> QED
  BY <1>1, <1>4, <1>5 DEF Ordered, BufferTrue, v

LEMMA Answered ==
  ASSUME ServiceInv, NEW u \in {svc, Restarted(svc)}, NEW w \in Responses(u)
  PROVE  Requested(w)
<1>1. PICK commits \in BOOLEAN, composing \in BOOLEAN :
        /\ commits => u.given < MaxCommits
        /\ w = Answer(u, commits, composing)
  BY DEF Responses
<1>2. /\ Good(u) /\ Ordered(u) /\ u.given = svc.given /\ u.text = svc.text /\ u.kept = svc.kept
      /\ u.comp = svc.comp /\ u.open = svc.open
  BY SilentRequests, RestartedFacts DEF Requested, ServiceInv
<1>3. Ordered(w) /\ BufferTrue(w)
  BY <1>1, <1>2, AnswerOrdered
<1>4. /\ Good(w)
      /\ w.buffer # Noise
      /\ w.buffer.commit = IF commits THEN u.given + 1 ELSE 0
      /\ w.given = IF commits THEN u.given + 1 ELSE u.given
      /\ w.comp = u.comp /\ w.open = u.open /\ w.text = u.text /\ w.kept = u.kept
  BY <1>1, <1>2, AnswerFacts
<1>5. svc.given \in Nat
  BY DEF ServiceInv, Good, Service
<1>6. ~deferred =>
        \A n \in 1..w.given :
          \/ n \in ToSet(w.text) \cup dropped
          \/ w.buffer # Noise /\ w.buffer.commit # 0 /\ n = w.buffer.commit
  BY <1>2, <1>4, <1>5 DEF ServiceInv, Arrived
<1> QED
  BY <1>2, <1>3, <1>4, <1>6 DEF Requested

LEMMA ProcessedFacts ==
  ASSUME ServiceInv, NEW p \in Processed
  PROVE  /\ Requested(p.svc)
         /\ p.eaten \in BOOLEAN /\ p.sent \in BOOLEAN /\ (p.eaten => p.sent)
<1>1. \/ p.svc \in {svc, Sent(svc), Restarted(svc)} /\ p.eaten = FALSE /\ p.sent = FALSE
      \/ /\ p.svc \in Responses(svc) \cup Responses(Restarted(svc))
         /\ p.eaten \in BOOLEAN /\ p.sent = TRUE
  BY DEF Processed
<1> QED
  BY <1>1, SilentRequests, Answered

-----------------------------------------------------------------------------
(* The steps. *)

LEMMA RunSessionStep ==
  ASSUME IInv, RunSession
  PROVE  IInv'
<1> USE DEF IInv, RunSession
<1>1. /\ queue \in Seq(Session) /\ queue # <<>> /\ Len(queue) <= MaxQueue
      /\ Head(queue) \in Session /\ queue' \in Seq(Session)
      /\ Len(queue') <= Len(queue) /\ Len(queue) \in Nat /\ Len(queue') \in Nat
  BY TailFacts, LenProperties DEF ServiceInv
<1>2. /\ Good(svc') /\ svc'.given = svc.given
      /\ Ordered(svc) => Ordered(svc')
      /\ BufferTrue(svc) => BufferTrue(svc')
      /\ ToSet(svc.text) \subseteq ToSet(svc'.text)
  BY <1>1, RunFacts DEF ServiceInv
<1>3. ~deferred => Calm(svc', queue') /\ Arrived(svc', dropped)
  <2> SUFFICES ASSUME ~deferred PROVE Calm(svc', queue') /\ Arrived(svc', dropped)
    OBVIOUS
  <2>1. Calm(svc, queue) /\ Arrived(svc, dropped) /\ Good(svc)
    BY DEF ServiceInv
  <2>2. Calm(svc', queue')
    BY <1>1, <2>1, RunCalm
  <2> QED
    BY <1>2, <2>1, <2>2 DEF Arrived
<1>4. ServiceInv'
  BY <1>1, <1>2, <1>3, ConstantsAssumption DEF ServiceInv
<1> QED
  BY <1>4 DEF KeyInv

LEMMA BeginKeyStep ==
  ASSUME IInv, NEW up \in BOOLEAN, BeginKey(up)
  PROVE  IInv'
<1>1. ServiceInv'
  BY DEF IInv, ServiceInv, BeginKey
<1>2. KeyInv'
  BY DEF IInv, KeyInv, BeginKey, NoEvent
<1> QED
  BY <1>1, <1>2 DEF IInv

LEMMA KeepKeyStep ==
  ASSUME IInv, KeepKey
  PROVE  IInv'
<1>1. ServiceInv'
  BY DEF IInv, ServiceInv, KeepKey
<1>2. KeyInv'
  BY DEF IInv, KeyInv, KeepKey
<1> QED
  BY <1>1, <1>2 DEF IInv

\* What Told makes of the event: it is sent again only if it was eaten.
LEMMA ToldFacts ==
  ASSUME KeyInv, NEW eaten \in BOOLEAN, NEW sent \in BOOLEAN
  PROVE  LET e == Told(eaten, sent)
         IN /\ e \in [up : BOOLEAN, open : BOOLEAN, sent : BOOLEAN,
                      eaten : BOOLEAN, again : BOOLEAN]
            /\ e.up = event.up /\ e.open = event.open
            /\ e.sent = (event.sent \/ sent) /\ e.eaten = (event.eaten \/ eaten)
            /\ e.again = (event.again \/ (sent /\ event.eaten))
BY DEF KeyInv, Told

LEMMA TestKeyStep ==
  ASSUME IInv, NEW up \in BOOLEAN, TestKey(up)
  PROVE  IInv'
<1> USE DEF IInv
<1>1. event.open /\ event.up = up
  BY DEF TestKey
<1>2. CASE pending[up]
  <2>1. /\ pending' = [pending EXCEPT ![~up] = FALSE]
        /\ event' = Told(TRUE, FALSE)
        /\ UNCHANGED <<svc, queue, async, deferred, dropped>>
    BY <1>2 DEF TestKey
  <2>2. ServiceInv'
    BY <2>1 DEF ServiceInv
  <2>3. event.eaten /\ event.sent /\ ~event.again /\ pending[~up] = FALSE
    BY <1>1, <1>2 DEF KeyInv
  <2>4. KeyInv'
    BY <1>1, <1>2, <2>1, <2>3 DEF KeyInv, Told
  <2> QED
    BY <2>2, <2>4
<1>3. CASE ~pending[up]
  <2>1. PICK p \in Processed :
          /\ UpdateComposition(p.svc)
          /\ pending' = [pending EXCEPT ![~up] = FALSE, ![up] = p.eaten]
          /\ event' = Told(p.eaten, p.sent)
          /\ UNCHANGED dropped
    BY <1>3 DEF TestKey
  <2>2. Requested(p.svc) /\ p.eaten \in BOOLEAN /\ p.sent \in BOOLEAN
        /\ (p.eaten => p.sent)
    BY ProcessedFacts
  <2>3. ServiceInv'
    BY <2>1, <2>2, UpdateKeeps
  <2>4. ~event.eaten /\ ~event.again
    BY <1>1, <1>3 DEF KeyInv
  <2>5. /\ event'.up = up /\ event'.open /\ event'.eaten = p.eaten
        /\ event'.sent = (event.sent \/ p.sent) /\ ~event'.again
        /\ event' \in [up : BOOLEAN, open : BOOLEAN, sent : BOOLEAN,
                       eaten : BOOLEAN, again : BOOLEAN]
    BY <1>1, <2>1, <2>2, <2>4, ToldFacts
  <2>6. /\ pending' \in [BOOLEAN -> BOOLEAN]
        /\ pending'[up] = p.eaten /\ pending'[~up] = FALSE
    BY <2>1, <2>2 DEF KeyInv
  <2>7. \A k \in BOOLEAN : k = up \/ k = ~up
    OBVIOUS
  <2>8. KeyInv'
    BY <2>2, <2>5, <2>6, <2>7 DEF KeyInv
  <2> QED
    BY <2>3, <2>8
<1> QED
  BY <1>2, <1>3

LEMMA TakeKeyStep ==
  ASSUME IInv, NEW up \in BOOLEAN, TakeKey(up)
  PROVE  IInv'
<1> USE DEF IInv
<1>1. event.open /\ event.up = up /\ pending' = [k \in BOOLEAN |-> FALSE]
  BY DEF TakeKey
<1>2. CASE pending[up]
  <2>1. /\ event' = [Told(TRUE, FALSE) EXCEPT !.open = FALSE]
        /\ UNCHANGED <<svc, queue, async, deferred, dropped>>
    BY <1>2 DEF TakeKey
  <2>2. ServiceInv'
    BY <2>1 DEF ServiceInv
  <2>3. event.eaten /\ event.sent /\ ~event.again
    BY <1>1, <1>2 DEF KeyInv
  <2>4. KeyInv'
    BY <1>1, <2>1, <2>3 DEF KeyInv, Told
  <2> QED
    BY <2>2, <2>4
<1>3. CASE ~pending[up]
  <2>1. PICK p \in Processed :
          /\ event' = [Told(p.eaten, p.sent) EXCEPT !.open = FALSE]
          /\ IF up /\ async
             THEN svc' = p.svc /\ UNCHANGED <<queue, async, deferred>>
             ELSE UpdateComposition(p.svc)
          /\ UNCHANGED dropped
    BY <1>3 DEF TakeKey
  <2>2. Requested(p.svc) /\ p.eaten \in BOOLEAN /\ p.sent \in BOOLEAN
        /\ (p.eaten => p.sent)
    BY ProcessedFacts
  <2>3. ServiceInv'
    <3>1. CASE up /\ async
      BY <2>1, <2>2, <3>1 DEF ServiceInv, Requested
    <3>2. CASE ~(up /\ async)
      BY <2>1, <2>2, <3>2, UpdateKeeps
    <3> QED
      BY <3>1, <3>2
  <2>4. ~event.eaten /\ ~event.again
    BY <1>1, <1>3 DEF KeyInv
  <2> DEFINE e == Told(p.eaten, p.sent)
  <2>5. /\ e.eaten = p.eaten /\ e.sent = (event.sent \/ p.sent) /\ ~e.again
        /\ e \in [up : BOOLEAN, open : BOOLEAN, sent : BOOLEAN,
                  eaten : BOOLEAN, again : BOOLEAN]
    BY <2>2, <2>4, ToldFacts
  <2> HIDE DEF e
  <2>6. event' = [e EXCEPT !.open = FALSE]
    BY <2>1 DEF e
  <2>7. KeyInv'
    BY <1>1, <2>2, <2>5, <2>6 DEF KeyInv
  <2> QED
    BY <2>3, <2>7
<1> QED
  BY <1>2, <1>3

\* One more session waits, which does no more than the others.
LEMMA CalmAppended ==
  ASSUME NEW w, NEW q \in Seq(Session), NEW s \in Session,
         w.open \subseteq {w.comp},
         w.engine => w.comp \in w.open,
         \A i \in DOMAIN q :
           /\ q[i].kind # "update"
           /\ w.comp = 0 \/ q[i].comp \in {0, w.comp}
           /\ q[i].kind = "end" /\ ~q[i].clear => ~w.engine,
         s.kind # "update",
         w.comp = 0 \/ s.comp \in {0, w.comp},
         s.kind = "end" /\ ~s.clear => ~w.engine,
         w.comp # 0 /\ w.comp \notin w.open =>
           \/ \E i \in DOMAIN q : q[i].kind = "end" /\ q[i].comp = w.comp
           \/ s.kind = "end" /\ s.comp = w.comp
  PROVE  Calm(w, Append(q, s))
<1>1. /\ DOMAIN q = 1..Len(q) /\ Len(q) \in Nat
      /\ DOMAIN Append(q, s) = 1..(Len(q) + 1)
      /\ \A i \in 1..Len(q) : Append(q, s)[i] = q[i]
      /\ Append(q, s)[Len(q) + 1] = s
  BY AppendSession
<1>2. \A i \in DOMAIN Append(q, s) : i \in DOMAIN q \/ i = Len(q) + 1
  BY <1>1
<1>3. \A i \in DOMAIN Append(q, s) :
        /\ Append(q, s)[i].kind # "update"
        /\ w.comp = 0 \/ Append(q, s)[i].comp \in {0, w.comp}
        /\ Append(q, s)[i].kind = "end" /\ ~Append(q, s)[i].clear => ~w.engine
  BY <1>1, <1>2
<1>4. \A i \in DOMAIN q : i \in DOMAIN Append(q, s)
  BY <1>1
<1>5. Len(q) + 1 \in DOMAIN Append(q, s)
  BY <1>1
<1>6. w.comp # 0 /\ w.comp \notin w.open =>
        \E i \in DOMAIN Append(q, s) :
          Append(q, s)[i].kind = "end" /\ Append(q, s)[i].comp = w.comp
  BY <1>1, <1>4, <1>5
<1> QED
  BY <1>3, <1>6 DEF Calm

\* The calls that are no keys leave the flags alone.
LEMMA KeyKept ==
  ASSUME KeyInv, UNCHANGED keyVars
  PROVE  KeyInv'
BY DEF KeyInv, keyVars

\* The server's composition is cleared, and nothing else happens.
LEMMA ClearedKeeps ==
  ASSUME ServiceInv, svc' = Cleared(svc),
         UNCHANGED <<queue, async, deferred, dropped>>
  PROVE  ServiceInv'
<1>1. Good(svc)
  BY DEF ServiceInv
<1>2. Good(svc') /\ Ordered(svc') /\ BufferTrue(svc')
  BY <1>1, ClearedFacts
     DEF ServiceInv, Ordered, TextOrdered, Fresh, BufferTrue
<1>3. ~deferred => Calm(svc', queue) /\ Arrived(svc', dropped)
  BY <1>1, ClearedFacts DEF ServiceInv, Calm, Arrived
<1> QED
  BY <1>2, <1>3 DEF ServiceInv

LEMMA BrowseStep ==
  ASSUME IInv, Browse
  PROVE  IInv'
<1>1. PICK w \in Responses(svc) : UpdateComposition(w)
  BY DEF Browse
<1>2. ServiceInv'
  BY <1>1, Answered, UpdateKeeps DEF IInv, Browse
<1> QED
  BY <1>2, KeyKept DEF IInv, Browse

LEMMA SelectStep ==
  ASSUME IInv, Select
  PROVE  IInv'
<1>1. PICK composing \in {FALSE, svc.engine} :
        svc' = [Sent(svc) EXCEPT !.waiting = TRUE, !.engine = composing]
  BY DEF Select
<1>2. Good(svc) /\ composing \in BOOLEAN /\ (composing => svc.engine)
  BY <1>1 DEF IInv, ServiceInv, Good, Service
<1>3. /\ Good(svc') /\ svc'.buffer = Noise /\ svc'.engine = composing
      /\ svc'.given = svc.given /\ svc'.comp = svc.comp
      /\ svc'.open = svc.open /\ svc'.text = svc.text /\ svc'.kept = svc.kept
  <2> DEFINE u == Sent(svc)
  <2>1. /\ u \in Service /\ IsFiniteSet(u.open) /\ u.buffer = Noise
        /\ u.given = svc.given /\ u.comp = svc.comp
        /\ u.open = svc.open /\ u.text = svc.text /\ u.kept = svc.kept
    BY <1>2, SentFacts DEF Good
  <2>2. svc' = [u EXCEPT !.waiting = TRUE, !.engine = composing]
    BY <1>1
  <2> HIDE DEF u
  <2> QED
    BY <1>2, <2>1, <2>2 DEF Good, Service
<1>4. Ordered(svc') /\ BufferTrue(svc')
  BY <1>3 DEF IInv, ServiceInv, Ordered, TextOrdered, Fresh, BufferTrue
<1>5. ~deferred => Calm(svc', queue) /\ Arrived(svc', dropped)
  BY <1>2, <1>3 DEF IInv, ServiceInv, Calm, Arrived
<1>6. ServiceInv'
  BY <1>3, <1>4, <1>5 DEF IInv, ServiceInv, Select
<1> QED
  BY <1>6, KeyKept DEF IInv, Select

LEMMA OfferStep ==
  ASSUME IInv, Offer
  PROVE  IInv'
<1>1. /\ Good(svc') /\ svc'.buffer = svc.buffer /\ svc'.engine = svc.engine
      /\ svc'.given = svc.given /\ svc'.comp = svc.comp
      /\ svc'.open = svc.open /\ svc'.text = svc.text /\ svc'.kept = svc.kept
  BY DEF IInv, ServiceInv, Offer, Good, Service
<1>2. Ordered(svc') /\ BufferTrue(svc')
  BY <1>1 DEF IInv, ServiceInv, Ordered, TextOrdered, Fresh, BufferTrue
<1>3. ~deferred => Calm(svc', queue) /\ Arrived(svc', dropped)
  BY <1>1 DEF IInv, ServiceInv, Calm, Arrived
<1>4. ServiceInv'
  BY <1>1, <1>2, <1>3 DEF IInv, ServiceInv, Offer
<1> QED
  BY <1>4, KeyKept DEF IInv, Offer

LEMMA ThreadFocusStep ==
  ASSUME IInv, ThreadFocus
  PROVE  IInv'
<1>1. PICK composing \in {FALSE, svc.engine} :
        svc' = [Answer(svc, svc.waiting, composing) EXCEPT !.status = composing]
  BY DEF ThreadFocus
<1>2. /\ Good(svc) /\ composing \in BOOLEAN /\ (composing => svc.engine)
      /\ svc.waiting \in BOOLEAN /\ svc.given \in 0..MaxCommits
      /\ svc.waiting => svc.given < MaxCommits
  BY <1>1 DEF IInv, ServiceInv, Good, Service, ThreadFocus
<1> DEFINE u == Answer(svc, svc.waiting, composing)
<1>3. /\ Good(u) /\ Ordered(u) /\ BufferTrue(u)
      /\ u.buffer # Noise
      /\ u.engine = composing
      /\ u.given = IF svc.waiting THEN svc.given + 1 ELSE svc.given
      /\ u.comp = svc.comp /\ u.open = svc.open /\ u.text = svc.text /\ u.kept = svc.kept
  <2>1. Ordered(svc)
    BY DEF IInv, ServiceInv
  <2>2. Ordered(u) /\ BufferTrue(u)
    BY <1>2, <2>1, AnswerOrdered
  <2> QED
    BY <1>2, <2>2, AnswerFacts
<1>4. svc' = [u EXCEPT !.status = composing]
  BY <1>1
<1> HIDE DEF u
<1>5. /\ Good(svc') /\ svc'.buffer = u.buffer /\ svc'.engine = composing
      /\ svc'.given = u.given /\ svc'.comp = svc.comp
      /\ svc'.open = svc.open /\ svc'.text = svc.text /\ svc'.kept = svc.kept
  BY <1>2, <1>3, <1>4 DEF Good, Service
<1>6. Ordered(svc') /\ BufferTrue(svc')
  BY <1>3, <1>5 DEF Ordered, TextOrdered, Fresh, BufferTrue
<1>7. dropped' = IF svc.waiting THEN dropped \cup {svc'.given} ELSE dropped
  BY DEF ThreadFocus
<1>8. dropped' \subseteq 1..MaxCommits
  <2>1. svc.waiting => svc'.given \in 1..MaxCommits
    BY <1>2, <1>3, <1>5, ConstantsAssumption
  <2> QED
    BY <1>7, <2>1 DEF IInv, ServiceInv
<1>9. ~deferred => Calm(svc', queue) /\ Arrived(svc', dropped')
  <2> SUFFICES ASSUME ~deferred
               PROVE  Calm(svc', queue) /\ Arrived(svc', dropped')
    OBVIOUS
  <2>1. Calm(svc', queue)
    BY <1>2, <1>5 DEF IInv, ServiceInv, Calm
  <2>2. Arrived(svc', dropped')
    BY <1>2, <1>3, <1>5, <1>7 DEF IInv, ServiceInv, Arrived
  <2> QED
    BY <2>1, <2>2
<1>10. ServiceInv'
  BY <1>5, <1>6, <1>8, <1>9 DEF IInv, ServiceInv, ThreadFocus
<1> QED
  BY <1>10, KeyKept DEF IInv, ThreadFocus

LEMMA NotifyStep ==
  ASSUME IInv, Notify
  PROVE  IInv'
<1>1. /\ Good(svc') /\ svc'.buffer = Noise /\ svc'.engine = svc.engine
      /\ svc'.given = svc.given /\ svc'.comp = svc.comp
      /\ svc'.open = svc.open /\ svc'.text = svc.text /\ svc'.kept = svc.kept
  BY SentFacts DEF IInv, ServiceInv, Notify
<1>2. Ordered(svc') /\ BufferTrue(svc')
  BY <1>1 DEF IInv, ServiceInv, Ordered, TextOrdered, Fresh, BufferTrue
<1>3. ~deferred => Calm(svc', queue) /\ Arrived(svc', dropped)
  BY <1>1 DEF IInv, ServiceInv, Calm, Arrived
<1>4. ServiceInv'
  BY <1>1, <1>2, <1>3 DEF IInv, ServiceInv, Notify
<1> QED
  BY <1>4, KeyKept DEF IInv, Notify

\* The service's composition is to end, and the server's has been cleared.
LEMMA EndingClearedKeeps ==
  ASSUME ServiceInv, NEW clear \in BOOLEAN,
         Ask(Cleared(svc), Ending(svc.comp, clear)),
         UNCHANGED <<async, deferred, dropped>>
  PROVE  ServiceInv'
<1> DEFINE w == Cleared(svc)
           s == Ending(svc.comp, clear)
<1>1. Good(svc) /\ svc.comp \in Nat
  BY DEF ServiceInv, Good, Service
<1>2. /\ Good(w) /\ w.buffer = Noise /\ ~w.engine /\ w.given = svc.given
      /\ w.comp = svc.comp /\ w.open = svc.open /\ w.text = svc.text /\ w.kept = svc.kept
  BY <1>1, ClearedFacts
<1>3. s \in Session /\ s.kind = "end" /\ s.comp = svc.comp
  BY <1>1, SessionFields DEF Ending
<1>4. Ask(w, s)
  OBVIOUS
<1> HIDE DEF w, s
<1>5. Ordered(w) /\ BufferTrue(w)
  BY <1>2 DEF ServiceInv, Ordered, TextOrdered, Fresh, BufferTrue
<1>6. ~deferred => Calm(w, Append(queue, s)) /\ Arrived(w, dropped)
  <2> SUFFICES ASSUME ~deferred
               PROVE  Calm(w, Append(queue, s)) /\ Arrived(w, dropped)
    OBVIOUS
  <2>1. /\ queue \in Seq(Session)
        /\ w.open \subseteq {w.comp}
        /\ \A i \in DOMAIN queue :
             /\ queue[i].kind # "update"
             /\ w.comp = 0 \/ queue[i].comp \in {0, w.comp}
    BY <1>2 DEF ServiceInv, Calm
  <2>2. Calm(w, Append(queue, s))
    BY <1>2, <1>3, <2>1, CalmAppended
  <2> QED
    BY <1>2, <2>2 DEF ServiceInv, Arrived
<1> QED
  BY <1>2, <1>3, <1>4, <1>5, <1>6, AskKeeps

LEMMA AbortCompositionStep ==
  ASSUME IInv, NEW clear \in BOOLEAN, AbortComposition(clear)
  PROVE  IInv'
<1>1. CASE svc.comp # 0
  BY <1>1, EndingClearedKeeps, KeyKept DEF IInv, AbortComposition
<1>2. CASE svc.comp = 0
  BY <1>2, ClearedKeeps, KeyKept DEF IInv, AbortComposition
<1> QED
  BY <1>1, <1>2

LEMMA CloseKeyboardStep ==
  ASSUME IInv, CloseKeyboard
  PROVE  IInv'
BY EndingClearedKeeps, KeyKept DEF IInv, CloseKeyboard

LEMMA ToggleModeStep ==
  ASSUME IInv, ToggleMode
  PROVE  IInv'
BY ClearedKeeps, KeyKept DEF IInv, ToggleMode

LEMMA TerminateStep ==
  ASSUME IInv, NEW c \in svc.open, Terminate(c)
  PROVE  IInv'
<1> DEFINE w == [Cleared(svc) EXCEPT !.open = @ \ {c}]
           s == Ending(w.comp, TRUE)
<1>1. Good(svc) /\ svc.comp \in Nat
  BY DEF IInv, ServiceInv, Good, Service
<1>2. /\ Good(w) /\ w.buffer = Noise /\ ~w.engine /\ w.given = svc.given
      /\ w.comp = svc.comp /\ w.open = svc.open \ {c} /\ w.text = svc.text /\ w.kept = svc.kept
  <2> DEFINE u == Cleared(svc)
             O == svc.open \ {c}
  <2>1. /\ u \in Service /\ u.buffer = Noise /\ ~u.engine
        /\ u.given = svc.given /\ u.comp = svc.comp
        /\ u.open = svc.open /\ u.text = svc.text /\ u.kept = svc.kept
    BY <1>1, ClearedFacts DEF Good
  <2>2. O \in SUBSET (Nat \ {0}) /\ IsFiniteSet(O)
    BY <1>1, FS_Subset DEF Good, Service
  <2>3. w = [u EXCEPT !.open = O]
    BY <2>1
  <2> HIDE DEF u, O, w
  <2>4. /\ w \in Service /\ w.buffer = u.buffer /\ w.engine = u.engine
        /\ w.given = u.given /\ w.comp = u.comp
        /\ w.open = O /\ w.text = u.text /\ w.kept = u.kept
    BY <2>1, <2>2, <2>3 DEF Service
  <2> QED
    BY <2>1, <2>2, <2>4 DEF Good, O
<1>3. \/ svc.comp # 0 /\ Ask(w, s)
      \/ svc.comp = 0 /\ svc' = w /\ UNCHANGED queue
  BY <1>2 DEF Terminate
<1>4. UNCHANGED <<async, keyVars, deferred, dropped>>
  BY DEF Terminate
<1>5. s \in Session /\ s.kind = "end" /\ s.comp = w.comp /\ s.clear
  BY <1>1, <1>2, SessionFields DEF Ending
<1> HIDE DEF w, s
<1>6. Ordered(w) /\ BufferTrue(w)
  BY <1>2 DEF IInv, ServiceInv, Ordered, TextOrdered, Fresh, BufferTrue
<1>7. ~deferred => Arrived(w, dropped)
  BY <1>2 DEF IInv, ServiceInv, Arrived
<1>8. ~deferred =>
        /\ w.open \subseteq {w.comp}
        /\ \A i \in DOMAIN queue :
             /\ queue[i].kind # "update"
             /\ w.comp = 0 \/ queue[i].comp \in {0, w.comp}
  BY <1>2 DEF IInv, ServiceInv, Calm
<1>9. CASE svc.comp # 0 /\ Ask(w, s)
  <2>1. ~deferred => Calm(w, Append(queue, s))
    BY <1>2, <1>5, <1>8, CalmAppended DEF IInv, ServiceInv
  <2>2. ServiceInv'
    BY <1>2, <1>4, <1>5, <1>6, <1>7, <1>9, <2>1, AskKeeps DEF IInv
  <2> QED
    BY <1>4, <2>2, KeyKept DEF IInv
<1>10. CASE svc.comp = 0 /\ svc' = w /\ UNCHANGED queue
  <2>1. ~deferred => Calm(w, queue)
    BY <1>2, <1>8, <1>10 DEF Calm
  <2>2. ServiceInv'
    BY <1>2, <1>4, <1>6, <1>7, <1>10, <2>1 DEF IInv, ServiceInv
  <2> QED
    BY <1>4, <2>2, KeyKept DEF IInv
<1> QED
  BY <1>3, <1>9, <1>10

\* A session is asked for that leaves the server alone.
LEMMA AskSilentKeeps ==
  ASSUME ServiceInv, NEW s \in Session, s.kind # "update", s.clear \/ s.kind # "end",
         s.comp \in {0, svc.comp}, Ask(svc, s),
         UNCHANGED <<async, deferred, dropped>>
  PROVE  ServiceInv'
<1>1. Good(svc) /\ Ordered(svc) /\ BufferTrue(svc) /\ queue \in Seq(Session)
  BY DEF ServiceInv
<1>2. ~deferred => Calm(svc, queue) /\ Arrived(svc, dropped)
  BY DEF ServiceInv
<1>3. ~deferred => Calm(svc, Append(queue, s))
  BY <1>1, <1>2, CalmAppended DEF Calm
<1> QED
  BY <1>1, <1>2, <1>3, AskKeeps

LEMMA LeaveCompositionStep ==
  ASSUME IInv, LeaveComposition
  PROVE  IInv'
<1>1. svc.comp \in Nat
  BY DEF IInv, ServiceInv, Good, Service
<1> DEFINE s == Ending(svc.comp, TRUE)
<1>2. s \in Session /\ s.kind = "end" /\ s.comp = svc.comp /\ s.clear
  BY <1>1, SessionFields DEF Ending
<1>3. Ask(svc, s) /\ UNCHANGED <<async, keyVars, deferred, dropped>>
  BY DEF LeaveComposition
<1> HIDE DEF s
<1> QED
  BY <1>2, <1>3, AskSilentKeeps, KeyKept DEF IInv

LEMMA ChangeLayoutStep ==
  ASSUME IInv, ChangeLayout
  PROVE  IInv'
<1>1. Extent \in Session /\ Extent.kind = "extent" /\ Extent.comp = 0
  BY SessionFields DEF Extent
<1> QED
  BY <1>1, AskSilentKeeps, KeyKept DEF IInv, ChangeLayout

LEMMA ReadStatusStep ==
  ASSUME IInv, ReadStatus
  PROVE  IInv'
<1>1. svc.buffer # Noise /\ svc' = [svc EXCEPT !.status = svc.buffer.composing]
  BY DEF ReadStatus
<1>2. svc \in Service /\ svc.buffer.composing \in BOOLEAN
  BY <1>1 DEF IInv, ServiceInv, Good, Service, Answers
<1>3. /\ svc' \in Service /\ svc'.buffer = svc.buffer /\ svc'.engine = svc.engine
      /\ svc'.given = svc.given /\ svc'.comp = svc.comp
      /\ svc'.open = svc.open /\ svc'.text = svc.text /\ svc'.kept = svc.kept
  BY <1>1, <1>2 DEF Service
<1>4. Good(svc') /\ Ordered(svc') /\ BufferTrue(svc')
  BY <1>3 DEF IInv, ServiceInv, Good, Ordered, TextOrdered, Fresh, BufferTrue
<1>5. ~deferred => Calm(svc', queue) /\ Arrived(svc', dropped)
  BY <1>3 DEF IInv, ServiceInv, Calm, Arrived
<1>6. ServiceInv'
  BY <1>4, <1>5 DEF IInv, ServiceInv, ReadStatus
<1> QED
  BY <1>6, KeyKept DEF IInv, ReadStatus

-----------------------------------------------------------------------------
(* The theorems. *)

LEMMA InitIInv ==
  ASSUME Init
  PROVE  IInv
<1>1. svc \in Service /\ svc.open = {} /\ svc.text = <<>> /\ svc.given = 0
      /\ svc.buffer = Noise /\ ~svc.engine /\ svc.comp = 0 /\ svc.kept = {}
  BY ConstantsAssumption, EmptySeq DEF Init, Service
<1>2. IsFiniteSet(svc.open)
  BY <1>1, FS_EmptySet
<1>3. DOMAIN <<>> = {}
  OBVIOUS
<1>4. ServiceInv
  <2>1. queue \in Seq(Session) /\ Len(queue) <= MaxQueue
    BY EmptySeq, ConstantsAssumption DEF Init
  <2>2. Ordered(svc) /\ BufferTrue(svc)
    BY <1>1, <1>3 DEF Ordered, TextOrdered, InOrder, Fresh, BufferTrue
  <2>3. Calm(svc, queue)
    BY <1>1, <1>3 DEF Init, Calm
  <2>4. Arrived(svc, dropped)
    BY <1>1 DEF Arrived
  <2> QED
    BY <1>1, <1>2, <2>1, <2>2, <2>3, <2>4 DEF Init, ServiceInv, Good
<1>5. KeyInv
  BY DEF Init, KeyInv, NoEvent
<1> QED
  BY <1>4, <1>5 DEF IInv

\* Every call, every session and every key preserves the invariant.
THEOREM NextIInv ==
  IInv /\ [Next]_vars => IInv'
<1> SUFFICES ASSUME IInv, [Next]_vars PROVE IInv'
  OBVIOUS
<1>1. CASE RunSession
  BY <1>1, RunSessionStep
<1>2. ASSUME NEW up \in BOOLEAN, BeginKey(up) PROVE IInv'
  BY <1>2, BeginKeyStep
<1>3. ASSUME NEW up \in BOOLEAN, TestKey(up) PROVE IInv'
  BY <1>3, TestKeyStep
<1>4. ASSUME NEW up \in BOOLEAN, TakeKey(up) PROVE IInv'
  BY <1>4, TakeKeyStep
<1>5. CASE KeepKey
  BY <1>5, KeepKeyStep
<1>6. CASE Browse
  BY <1>6, BrowseStep
<1>7. CASE Select
  BY <1>7, SelectStep
<1>8. CASE Offer
  BY <1>8, OfferStep
<1>9. CASE ThreadFocus
  BY <1>9, ThreadFocusStep
<1>10. CASE Notify
  BY <1>10, NotifyStep
<1>11. ASSUME NEW clear \in BOOLEAN, AbortComposition(clear) PROVE IInv'
  BY <1>11, AbortCompositionStep
<1>12. ASSUME NEW c \in svc.open, Terminate(c) PROVE IInv'
  BY <1>12, TerminateStep
<1>13. CASE LeaveComposition
  BY <1>13, LeaveCompositionStep
<1>14. CASE ChangeLayout
  BY <1>14, ChangeLayoutStep
<1>15. CASE CloseKeyboard
  BY <1>15, CloseKeyboardStep
<1>16. CASE ToggleMode
  BY <1>16, ToggleModeStep
<1>17. CASE ReadStatus
  BY <1>17, ReadStatusStep
<1>18. CASE UNCHANGED vars
  BY <1>18 DEF vars, IInv, ServiceInv, KeyInv
<1> QED
  BY <1>1, <1>2, <1>3, <1>4, <1>5, <1>6, <1>7, <1>8, <1>9, <1>10, <1>11,
     <1>12, <1>13, <1>14, <1>15, <1>16, <1>17, <1>18 DEF Next

THEOREM Invariant == Spec => []IInv
BY InitIInv, NextIInv, PTL DEF Spec

\* Every variable keeps its type, and a flag is set only while its key event is
\* being delivered.
THEOREM TypeCorrect == Spec => []TypeOK
<1>1. IInv => TypeOK
  BY DEF IInv, ServiceInv, KeyInv, Good, TypeOK
<1> QED
  BY <1>1, Invariant, PTL

\* Texts are in order, and none is inserted twice unless it was left in the buffer
\* for want of a position.
THEOREM TextsInOrder == Spec => []CommitOnce
<1>1. IInv => CommitOnce
  BY DEF IInv, ServiceInv, Ordered, TextOrdered, InOrder, CommitOnce
<1> QED
  BY <1>1, Invariant, PTL

\* An eaten key event was sent, once.
THEOREM EatenSentOnce == Spec => []EatenOnce
<1>1. IInv => EatenOnce
  BY DEF IInv, KeyInv, EatenOnce
<1> QED
  BY <1>1, Invariant, PTL

\* Until an update is put off, every text arrives.
THEOREM TextsArrive == Spec => []CommitsArrive
<1>1. IInv => CommitsArrive
  BY DEF IInv, ServiceInv, Arrived, CommitsArrive
<1> QED
  BY <1>1, Invariant, PTL

\* Until an update is put off, the server's composition is in the document.
THEOREM CompositionShown == Spec => []PreeditShown
<1>1. IInv => PreeditShown
  BY DEF IInv, ServiceInv, Calm, PreeditShown
<1> QED
  BY <1>1, Invariant, PTL

\* Until an update is put off, no composition is left behind.
THEOREM NoneLeftBehind == Spec => []NoOrphan
<1>1. IInv => NoOrphan
  BY DEF IInv, ServiceInv, Calm, NoOrphan
<1> QED
  BY <1>1, Invariant, PTL

=============================================================================
