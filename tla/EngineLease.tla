----------------------------- MODULE EngineLease -----------------------------
(***************************************************************************)
(* What RimeDaemon promises its clients, without threads, queues or locks: *)
(* the engine is switched off only when no client is connected and no      *)
(* operation is under way, and an operation begins only for a connected    *)
(* client.  RimeEngine implements it.                                      *)
(***************************************************************************)
CONSTANTS Clients, Operations

VARIABLES on,        \* the engine accepts native calls
          clients,   \* connected sessions
          underway   \* operations that have begun and not ended

vars == <<on, clients, underway>>

Init ==
  /\ on = FALSE
  /\ clients = {}
  /\ underway = {}

Connect(c) ==
  /\ c \notin clients
  /\ clients' = clients \cup {c}
  /\ UNCHANGED <<on, underway>>

Disconnect(c) ==
  /\ c \in clients
  /\ clients' = clients \ {c}
  /\ UNCHANGED underway
  /\ on' \in {on, on /\ (clients' # {} \/ underway # {})}

Begin(o) ==
  /\ clients # {}
  /\ o \notin underway
  /\ underway' = underway \cup {o}
  /\ UNCHANGED <<on, clients>>

End(o) ==
  /\ o \in underway
  /\ underway' = underway \ {o}
  /\ UNCHANGED clients
  /\ on' \in {on, on /\ (clients # {} \/ underway' # {})}

SwitchOn ==
  /\ on' = TRUE
  /\ UNCHANGED <<clients, underway>>

Next ==
  \/ \E c \in Clients : Connect(c) \/ Disconnect(c)
  \/ \E o \in Operations : Begin(o) \/ End(o)
  \/ SwitchOn

Spec == Init /\ [][Next]_vars
=============================================================================
