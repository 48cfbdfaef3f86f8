---------------------------- MODULE ClickDelivery ----------------------------
(***************************************************************************)
(* What a click on a suggestion is promised, without threads, pipes or     *)
(* acknowledgements: its text is put up for the session with the focus, at *)
(* most once and in the place of the text before it; there it waits until  *)
(* that session takes it or it is dropped; and the click is told a success *)
(* only if a text of its batch was put up.  A click that is told a failure *)
(* is promised nothing: its text may be put up later.  CommitBridge        *)
(* implements it.                                                          *)
(***************************************************************************)
EXTENDS Naturals, Sequences

CONSTANTS Clicks, Sessions, Batch, None

VARIABLES asked,    \* the batch each click asks a text of, 0 before it
          told,     \* what each click has been told, None before
          focus,    \* the session with the focus, or None
          box,      \* the text that waits, and for which session: {} or one
          used,     \* clicks whose text has been in the box
          written   \* the texts written, and where

vars == <<asked, told, focus, box, used, written>>

Init ==
  /\ asked = [c \in Clicks |-> 0]
  /\ told = [c \in Clicks |-> None]
  /\ focus = None
  /\ box = {} /\ used = {} /\ written = <<>>

\* A click may be refused at once.
Ask(c, b) ==
  /\ asked[c] = 0
  /\ asked' = [asked EXCEPT ![c] = b]
  /\ told' \in {told, [told EXCEPT ![c] = FALSE]}
  /\ UNCHANGED <<focus, box, used, written>>

Tell(c, success) ==
  /\ asked[c] # 0 /\ told[c] = None
  /\ success => \E d \in used : asked[d] = asked[c]
  /\ told' = [told EXCEPT ![c] = success]
  /\ UNCHANGED <<asked, focus, box, used, written>>

Put(c) ==
  /\ asked[c] # 0 /\ c \notin used /\ focus # None
  /\ used' = used \cup {c}
  /\ box' = {[click |-> c, session |-> focus]}
  /\ UNCHANGED <<asked, told, focus, written>>

Write(text) ==
  /\ text \in box
  /\ box' = {}
  /\ written' = Append(written, text)
  /\ focus' \in {focus, text.session}
  /\ UNCHANGED <<asked, told, used>>

\* Five seconds, a failed injection, a response to another session, a restart
Drop ==
  /\ box' = {}
  /\ focus' \in Sessions \cup {None}
  /\ UNCHANGED <<asked, told, used, written>>

Focus(s) ==
  /\ focus' = s
  /\ UNCHANGED <<asked, told, box, used, written>>

Next ==
  \/ \E c \in Clicks : (\E b \in Batch : Ask(c, b)) \/ Put(c)
  \/ \E c \in Clicks, success \in BOOLEAN : Tell(c, success)
  \/ \E text \in box : Write(text)
  \/ Drop
  \/ \E s \in Sessions \cup {None} : Focus(s)

Spec == Init /\ [][Next]_vars
===============================================================================
