---------------------------- MODULE WeaselSessions ----------------------------
(***************************************************************************)
(* The sessions of Weasel's server on Windows.  Every application hosts a  *)
(* text service (WeaselTSF, through ClientImpl) that asks the server for a *)
(* session of librime and types into it; WeaselDeployer takes librime away *)
(* for a while (maintenance) to rebuild its data; the server may quit or   *)
(* crash and be started again.                                             *)
(*                                                                         *)
(* A request holds g_api_mutex from its first to its last statement and    *)
(* its client waits for the answer, so one action is a request, its        *)
(* handler and the answer.  The exception is whoever looks for a deployer: *)
(* he opens the deployer's own mutex to do so, and the deployer can run    *)
(* into that handle before it is closed.                                   *)
(***************************************************************************)
EXTENDS Naturals, FiniteSets, FiniteSetsExt

CONSTANTS
  Clients,     \* text services, one to an application
  Deployers,   \* runs of WeaselDeployer
  MaxStarts,   \* bound: how often the server is started
  MaxLeaves,   \* bound: how often a text service is deactivated or killed
  RetryLimit,  \* failed connections before a client launches the server
  Stride,      \* how far apart the first ids of two servers are
  None, Server

ASSUME ConstantsAssumption ==
  /\ MaxStarts \in Nat \ {0}
  /\ MaxLeaves \in Nat
  /\ RetryLimit \in Nat \ {0}
  /\ Stride \in Nat \ {0}
  /\ None \notin Clients \cup Deployers
  /\ Server \notin Clients \cup Deployers \cup {None}
  /\ Clients \cap Deployers = {}

VARIABLES
  up,        \* the server: "down", "starting", "loading" or "up"
  inc,       \* how often the server was started
  launched,  \* start_service.bat has been run and has not done its work
  disabled,  \* m_disabled
  sessions,  \* m_session_status_map: ipc id -> session of librime, 0 for none
  live,      \* the sessions librime knows
  active,    \* m_active_session
  probe,     \* for whom _IsDeployerRunning has the mutex open
  found,     \* ... and what it saw
  mutex,     \* who else has a handle of WeaselDeployerMutex
  pc,        \* where each client's thread is
  sid,       \* session_id of each client
  pipe,      \* the server its pipe was connected to, 0 for none
  retry,     \* its count of reconnections
  dpc,       \* where each deployer is
  reached,   \* its StartMaintenance was answered and its work goes on
  leaves,    \* how often a text service was deactivated or killed
  orphans    \* history: ids that killed clients held at this server

serverVars   == <<up, inc, launched, disabled, sessions, live, active>>
probeVars    == <<probe, found>>
clientVars   == <<pc, sid, pipe, retry>>
deployerVars == <<mutex, dpc, reached>>
historyVars  == <<leaves, orphans>>
vars == <<serverVars, probeVars, clientVars, deployerVars, historyVars>>

-----------------------------------------------------------------------------
(* Ids and sessions.  std::map's operator[] inserts what it does not find. *)

\* The pid of a server, shifted left until its highest bit is set.
Pid == inc * Stride

NewId(map) == IF DOMAIN map = {} THEN Pid + 1 ELSE Max(DOMAIN map) + 1

EngineOf(id) == IF id \in DOMAIN sessions THEN sessions[id] ELSE 0

Touched(id) == [i \in DOMAIN sessions \cup {id} |-> EngineOf(i)]

Erased(id) == [i \in DOMAIN sessions \ {id} |-> sessions[i]]

\* librime answers create_session with an address that is not in use.
NewEngine == CHOOSE e \in 1..(Cardinality(live) + 1) : e \notin live

NoSessions == [i \in {} |-> 0]

-----------------------------------------------------------------------------
(* The mutex WeaselDeployerMutex is an object that exists while somebody   *)
(* has a handle of it.                                                     *)

MutexExists == mutex # {} \/ probe # None

\* _IsDeployerRunning opens the mutex for a handler or for the start ...
Probe(who) ==
  /\ probe' = who
  /\ found' = MutexExists

\* ... and closes it again.
EndProbe == probe' = None /\ found' = FALSE

-----------------------------------------------------------------------------
(* Requests.  A client whose server is gone, or whose pipe is of a server  *)
(* that is gone, gets 0: _Send connects again and then writes to the old   *)
(* handle, which fails unless Windows gave the new pipe the same number.   *)

CanDeliver(c) == up = "up" /\ probe = None
CanLose(c) == up # "up" \/ pipe[c] \notin {0, inc}

Reconnect(c) ==
  pipe' = [pipe EXCEPT ![c] = IF up = "up" THEN inc ELSE 0]

\* A request that is not handled.
Lost(c) ==
  /\ CanLose(c)
  /\ UNCHANGED <<serverVars, probeVars>>

\* FindSession: the map gets an entry for the id even if nobody holds it.
FindSession(id) ==
  /\ sessions' = IF disabled THEN sessions ELSE Touched(id)
  /\ UNCHANGED <<up, inc, launched, disabled, live, active, probeVars>>

Found(id) == ~disabled /\ EngineOf(id) \in live

\* Mutant: the session that goes stays the active one.
RemoveNotActive(id) ==
  /\ IF disabled
     THEN UNCHANGED <<sessions, live>>
     ELSE /\ live' = live \ {EngineOf(id)}
          /\ sessions' = Erased(id)
  /\ UNCHANGED <<up, inc, launched, disabled, active, probeVars>>

\* RemoveSession.
RemoveSession(id) ==
  /\ IF disabled
     THEN UNCHANGED <<sessions, live, active>>
     ELSE /\ live' = live \ {EngineOf(id)}
          /\ sessions' = Erased(id)
          /\ active' = 0
  /\ UNCHANGED <<up, inc, launched, disabled, probeVars>>

\* ProcessKeyEvent, CommitComposition, ClearComposition, FocusIn and, when
\* the session is not the active one, UpdateInputPosition.
UseSession(id) ==
  /\ IF disabled
     THEN UNCHANGED <<sessions, active>>
     ELSE /\ sessions' = Touched(id)
          /\ active' = id
  /\ UNCHANGED <<up, inc, launched, disabled, live, probeVars>>

\* SelectCandidateOnCurrentPage; HighlightCandidateOnCurrentPage and
\* ChangePage do not look at m_disabled.
TouchSession(id, checked) ==
  /\ sessions' = IF checked /\ disabled THEN sessions ELSE Touched(id)
  /\ UNCHANGED <<up, inc, launched, disabled, live, active, probeVars>>

\* FocusOut clears the active session, whosever it is.
ForgetActive ==
  /\ active' = 0
  /\ UNCHANGED <<up, inc, launched, disabled, sessions, live, probeVars>>

-----------------------------------------------------------------------------
(* The server's process. *)

\* WeaselServerApp::Run: Initialize looks for a deployer ...
StartServer ==
  /\ up = "down"
  /\ inc < MaxStarts
  /\ up' = "starting"
  /\ inc' = inc + 1
  /\ launched' = FALSE
  /\ Probe(Server)
  /\ UNCHANGED <<disabled, sessions, live, active, clientVars, deployerVars,
                 historyVars>>

\* ... which decides whether librime is loaded ...
LoadEngine ==
  /\ up = "starting"
  /\ up' = "loading"
  /\ disabled' = found
  /\ EndProbe
  /\ UNCHANGED <<inc, launched, sessions, live, active, clientVars,
                 deployerVars, historyVars>>

\* ... and m_server.Run listens on the pipe only after that.
ServerReady ==
  /\ up = "loading"
  /\ up' = "up"
  /\ UNCHANGED <<inc, launched, disabled, sessions, live, active, probeVars,
                 clientVars, deployerVars, historyVars>>

\* The server quits, or its process dies, between two requests.
ServerGone ==
  /\ up = "up"
  /\ probe = None
  /\ up' = "down"
  /\ disabled' = TRUE
  /\ sessions' = NoSessions
  /\ live' = {}
  /\ active' = 0
  /\ orphans' = {}
  /\ UNCHANGED <<inc, launched, probeVars, clientVars, deployerVars, leaves>>

-----------------------------------------------------------------------------
(* A client's thread. *)

Goto(c, step) == pc' = [pc EXCEPT ![c] = step]

\* Echo asks whether the server still has the session; a client without one
\* does not ask.
Echo(c, yes, no) ==
  \/ /\ sid[c] = 0
     /\ Goto(c, no)
     /\ UNCHANGED <<serverVars, probeVars, pipe>>
  \/ /\ sid[c] # 0
     /\ CanDeliver(c)
     /\ FindSession(sid[c])
     /\ Goto(c, IF Found(sid[c]) THEN yes ELSE no)
     /\ Reconnect(c)
  \/ /\ sid[c] # 0
     /\ Lost(c)
     /\ Goto(c, no)
     /\ Reconnect(c)

\* _ProcessKeyEvent and ActivateEx: _EnsureServerConnected begins.
PressKey(c) ==
  /\ pc[c] = "idle"
  /\ Echo(c, "key", "end")
  /\ UNCHANGED <<sid, retry, deployerVars, historyVars>>

\* OnSetThreadFocus sends an empty key if the server answers.
ThreadFocus(c) ==
  /\ pc[c] = "idle"
  /\ Echo(c, "key", "idle")
  /\ UNCHANGED <<sid, retry, deployerVars, historyVars>>

\* EndSession is sent with whatever id the client holds, which it then drops.
EndSession(c) ==
  /\ \/ CanDeliver(c) /\ RemoveSession(sid[c])
     \/ Lost(c)
  /\ sid' = [sid EXCEPT ![c] = 0]

\* _Reconnect: Disconnect ends the session, if the client has one.
EndStale(c) ==
  /\ pc[c] = "end"
  /\ \/ sid[c] # 0 /\ EndSession(c)
     \/ sid[c] = 0 /\ UNCHANGED <<serverVars, probeVars, sid>>
  /\ pipe' = [pipe EXCEPT ![c] = 0]
  /\ Goto(c, "start")
  /\ UNCHANGED <<retry, deployerVars, historyVars>>

\* Deactivate.
Deactivate(c) ==
  /\ pc[c] = "idle"
  /\ leaves < MaxLeaves
  /\ leaves' = leaves + 1
  /\ EndSession(c)
  /\ Reconnect(c)
  /\ UNCHANGED <<pc, retry, deployerVars, orphans>>

\* The application is killed, or crashes, and is started again: the server
\* sees its pipe closed and keeps the session.  A request under way is
\* handled first.
Killed(c) ==
  /\ probe # c
  /\ leaves < MaxLeaves
  /\ leaves' = leaves + 1
  /\ orphans' = orphans \cup (IF pipe[c] = inc THEN {sid[c]} \ {0} ELSE {})
  /\ Goto(c, "idle")
  /\ sid' = [sid EXCEPT ![c] = 0]
  /\ pipe' = [pipe EXCEPT ![c] = 0]
  /\ retry' = [retry EXCEPT ![c] = 0]
  /\ UNCHANGED <<serverVars, probeVars, deployerVars>>

\* AddSession past the check of m_disabled, in the map it finds.
OpenSession(c, map) ==
  LET id == NewId(map)
      engine == NewEngine
  IN /\ live' = live \cup {engine}
     /\ sessions' = [i \in DOMAIN map \cup {id} |->
                       IF i = id THEN engine ELSE map[i]]
     /\ active' = id
     /\ sid' = [sid EXCEPT ![c] = id]

\* Mutant: a server in maintenance does not try to resume.
StartWithoutResume(c) ==
  /\ pc[c] = "start"
  /\ Reconnect(c)
  /\ Goto(c, "check")
  /\ \/ /\ CanDeliver(c)
        /\ ~disabled
        /\ OpenSession(c, sessions)
        /\ UNCHANGED <<up, inc, launched, disabled, probeVars>>
     \/ /\ \/ Lost(c)
           \/ CanDeliver(c) /\ disabled /\ UNCHANGED <<serverVars, probeVars>>
        /\ UNCHANGED sid
  /\ UNCHANGED <<retry, deployerVars, historyVars>>

\* _Reconnect connects and starts a session.  In maintenance the server
\* tries to resume, which begins with a look for a deployer.
StartSession(c) ==
  /\ pc[c] = "start"
  /\ Reconnect(c)
  /\ \/ /\ CanDeliver(c)
        /\ ~disabled
        /\ OpenSession(c, sessions)
        /\ Goto(c, "check")
        /\ UNCHANGED <<up, inc, launched, disabled, probeVars>>
     \/ /\ CanDeliver(c)
        /\ disabled
        /\ Probe(c)
        /\ Goto(c, "opening")
        /\ UNCHANGED <<serverVars, sid>>
     \/ /\ Lost(c)
        /\ Goto(c, "check")
        /\ UNCHANGED sid
  /\ UNCHANGED <<retry, deployerVars, historyVars>>

\* Mutant: AddSession resumes without regard to a deployer.
ResumeAlways(c) ==
  /\ pc[c] = "opening"
  /\ probe = c
  /\ EndProbe
  /\ disabled' = FALSE
  /\ Goto(c, "check")
  /\ OpenSession(c, NoSessions)
  /\ UNCHANGED <<up, inc, launched, pipe, retry, deployerVars,
                 historyVars>>

\* AddSession after its EndMaintenance: Initialize enables the server unless
\* it has seen a deployer, and the map is emptied either way.
ResumeSession(c) ==
  /\ pc[c] = "opening"
  /\ probe = c
  /\ EndProbe
  /\ disabled' = found
  /\ Goto(c, "check")
  /\ IF found
     THEN /\ sessions' = NoSessions
          /\ UNCHANGED <<live, active, sid>>
     ELSE OpenSession(c, NoSessions)
  /\ UNCHANGED <<up, inc, launched, pipe, retry, deployerVars,
                 historyVars>>

\* WeaselDeployerExclusiveMutex exists.
Exclusive ==
  \/ \E d \in Deployers : dpc[d] \notin {"idle", "refused", "aborted", "done"}
  \/ \E c \in Clients : pc[c] \in {"alone", "crowded"}

\* Mutant: the count goes on past the limit.
RetryOn(c) ==
  /\ pc[c] = "check"
  /\ retry' = [retry EXCEPT ![c] = @ + 1]
  /\ Goto(c, IF retry[c] + 1 < RetryLimit THEN "echo"
             ELSE IF Exclusive THEN "crowded" ELSE "alone")
  /\ UNCHANGED <<serverVars, probeVars, sid, pipe, deployerVars, historyVars>>

\* Mutant: every key starts to count again.
RetryAnew(c) ==
  /\ pc[c] = "check"
  /\ Goto(c, "echo")
  /\ UNCHANGED <<serverVars, probeVars, sid, pipe, retry, deployerVars,
                 historyVars>>

\* _EnsureServerConnected counts its reconnections and opens the mutex after
\* RetryLimit of them ...
CheckRetry(c) ==
  LET last == retry[c] + 1 = RetryLimit
  IN /\ pc[c] = "check"
     /\ retry' = [retry EXCEPT ![c] = IF last THEN 0 ELSE @ + 1]
     /\ Goto(c, IF ~last THEN "echo"
                ELSE IF Exclusive THEN "crowded" ELSE "alone")
     /\ UNCHANGED <<serverVars, probeVars, sid, pipe, deployerVars,
                    historyVars>>

\* ... to launch the server if it does not answer and the mutex is new.  A
\* request overwrites the error code that tells whether it is.
LaunchServer(c) ==
  /\ pc[c] \in {"alone", "crowded"}
  /\ sid[c] = 0 => pc[c] = "alone"
  /\ sid[c] # 0 => \/ CanLose(c)
                   \/ CanDeliver(c) /\ ~Found(sid[c])
  /\ launched' = (launched \/ up = "down")
  /\ sessions' = IF sid[c] # 0 /\ CanDeliver(c) /\ ~disabled
                 THEN Touched(sid[c]) ELSE sessions
  /\ Goto(c, "echo")
  /\ Reconnect(c)
  /\ UNCHANGED <<up, inc, disabled, live, active, probeVars, sid, retry,
                 deployerVars, historyVars>>

SkipLaunch(c) ==
  /\ pc[c] \in {"alone", "crowded"}
  /\ sid[c] = 0 => pc[c] = "crowded"
  /\ Echo(c, "echo", "echo")
  /\ UNCHANGED <<sid, retry, deployerVars, historyVars>>

\* ... and asks once more.
CheckSession(c) ==
  /\ pc[c] = "echo"
  /\ Echo(c, "key", "idle")
  /\ UNCHANGED <<sid, retry, deployerVars, historyVars>>

\* A request about the client's session with no answer that matters to it.
Request(c) ==
  \/ /\ sid[c] = 0
     /\ UNCHANGED <<serverVars, probeVars, pipe>>
  \/ /\ sid[c] # 0
     /\ CanDeliver(c)
     /\ UseSession(sid[c])
     /\ Reconnect(c)
  \/ /\ sid[c] # 0
     /\ Lost(c)
     /\ Reconnect(c)

\* ProcessKeyEvent; a key that ConvertKeyEvent does not know is not sent.
SendKey(c) ==
  /\ pc[c] = "key"
  /\ \/ Request(c)
     \/ UNCHANGED <<serverVars, probeVars, pipe>>
  /\ Goto(c, "idle")
  /\ UNCHANGED <<sid, retry, deployerVars, historyVars>>

\* OnKillThreadFocus, OnCompositionTerminated and _HandleCompartment clear
\* the composition, _SetCompositionPosition tells where it is.
Notify(c) ==
  /\ pc[c] = "idle"
  /\ Request(c)
  /\ UNCHANGED <<pc, sid, retry, deployerVars, historyVars>>

\* HandleUICallback: a click selects, hovering and scrolling highlight or
\* turn the page; a command of the language bar sets an option.
Browse(c, checked) ==
  /\ pc[c] = "idle"
  /\ sid[c] # 0
  /\ \/ CanDeliver(c) /\ TouchSession(sid[c], checked)
     \/ Lost(c)
  /\ Reconnect(c)
  /\ UNCHANGED <<pc, sid, retry, deployerVars, historyVars>>

\* OnSetFocus: FocusIn and FocusOut are sent with or without a session ...
GainFocus(c) ==
  /\ pc[c] = "idle"
  /\ \/ CanDeliver(c) /\ UseSession(sid[c])
     \/ Lost(c)
  /\ Reconnect(c)
  /\ UNCHANGED <<pc, sid, retry, deployerVars, historyVars>>

LoseFocus(c) ==
  /\ pc[c] = "idle"
  /\ \/ CanDeliver(c) /\ ForgetActive
     \/ Lost(c)
  /\ Reconnect(c)
  /\ Goto(c, "abort")
  /\ UNCHANGED <<sid, retry, deployerVars, historyVars>>

\* ... and after FocusOut _AbortComposition clears the composition.
AbortComposition(c) ==
  /\ pc[c] = "abort"
  /\ Request(c)
  /\ Goto(c, "idle")
  /\ UNCHANGED <<sid, retry, deployerVars, historyVars>>

-----------------------------------------------------------------------------
(* A deployer: Configurator::UpdateWorkspace, DictManagement and           *)
(* SyncUserData are the same sequence round different work.                *)

DeployerGoes(d, step) == dpc' = [dpc EXCEPT ![d] = step]

\* _tWinMain goes no further if it finds its mutex there ...
BeginDeploy(d) ==
  /\ dpc[d] = "idle"
  /\ DeployerGoes(d, IF Exclusive THEN "refused" ELSE "started")
  /\ UNCHANGED <<serverVars, probeVars, clientVars, mutex, reached,
                 historyVars>>

\* ... and the deployment takes an existing WeaselDeployerMutex for another
\* deployer's.
OpenMutex(d) ==
  /\ dpc[d] = "started"
  /\ mutex' = mutex \cup {d}
  /\ DeployerGoes(d, IF MutexExists THEN "aborting" ELSE "connecting")
  /\ UNCHANGED <<serverVars, probeVars, clientVars, reached, historyVars>>

AbortDeploy(d) ==
  /\ dpc[d] = "aborting"
  /\ mutex' = mutex \ {d}
  /\ DeployerGoes(d, "aborted")
  /\ UNCHANGED <<serverVars, probeVars, clientVars, reached, historyVars>>

\* StartMaintenance, if the server can be reached: Finalize takes librime
\* down, and the _UpdateUI(0) that follows leaves an entry for 0.
StartMaintenance(d) ==
  /\ dpc[d] = "connecting"
  /\ \/ /\ up = "up"
        /\ probe = None
        /\ disabled' = TRUE
        /\ live' = {}
        /\ active' = 0
        /\ sessions' = [i \in {0} |-> 0]
        /\ reached' = [reached EXCEPT ![d] = TRUE]
     \/ /\ up # "up"
        /\ UNCHANGED <<disabled, sessions, live, active, reached>>
  /\ DeployerGoes(d, "working")
  /\ UNCHANGED <<up, inc, launched, probeVars, clientVars, mutex,
                 historyVars>>

\* The work is done, or SyncUserData has failed and returns at once.
FinishWork(d, failed) ==
  /\ dpc[d] = "working"
  /\ mutex' = mutex \ {d}
  /\ reached' = [reached EXCEPT ![d] = FALSE]
  /\ DeployerGoes(d, IF failed THEN "done" ELSE "resuming")
  /\ UNCHANGED <<serverVars, probeVars, clientVars, historyVars>>

\* EndMaintenance: an enabled server only empties its map ...
EndMaintenance(d) ==
  /\ dpc[d] = "resuming"
  /\ \/ /\ up = "up"
        /\ probe = None
        /\ ~disabled
        /\ sessions' = NoSessions
        /\ DeployerGoes(d, "done")
        /\ UNCHANGED probeVars
     \/ /\ up = "up"
        /\ probe = None
        /\ disabled
        /\ Probe(d)
        /\ DeployerGoes(d, "waiting")
        /\ UNCHANGED sessions
     \/ /\ up # "up"
        /\ DeployerGoes(d, "done")
        /\ UNCHANGED <<sessions, probeVars>>
  /\ UNCHANGED <<up, inc, launched, disabled, live, active, clientVars, mutex,
                 reached, historyVars>>

\* ... a disabled one is initialized first, unless a deployer is seen.
Resume(d) ==
  /\ dpc[d] = "waiting"
  /\ probe = d
  /\ EndProbe
  /\ disabled' = found
  /\ sessions' = NoSessions
  /\ DeployerGoes(d, "done")
  /\ UNCHANGED <<up, inc, launched, live, active, clientVars, mutex, reached,
                 historyVars>>

-----------------------------------------------------------------------------

Init ==
  /\ up = "down" /\ inc = 0 /\ launched = FALSE
  /\ disabled = TRUE /\ sessions = NoSessions /\ live = {} /\ active = 0
  /\ probe = None /\ found = FALSE /\ mutex = {}
  /\ pc = [c \in Clients |-> "idle"]
  /\ sid = [c \in Clients |-> 0]
  /\ pipe = [c \in Clients |-> 0]
  /\ retry = [c \in Clients |-> 0]
  /\ dpc = [d \in Deployers |-> "idle"]
  /\ reached = [d \in Deployers |-> FALSE]
  /\ leaves = 0
  /\ orphans = {}

\* A colour theme, or a command of the tray, looks up the active session.
TouchActive ==
  /\ up = "up"
  /\ sessions' = Touched(active)
  /\ UNCHANGED <<up, inc, launched, disabled, live, active, probeVars,
                 clientVars, deployerVars, historyVars>>

Process ==
  StartServer \/ LoadEngine \/ ServerReady \/ ServerGone \/ TouchActive

\* What a client's thread has begun.
Typing(c) ==
  \/ EndStale(c) \/ StartSession(c) \/ ResumeSession(c)
  \/ CheckRetry(c) \/ LaunchServer(c) \/ SkipLaunch(c) \/ CheckSession(c)
  \/ SendKey(c) \/ AbortComposition(c)

ClientNext(c) ==
  \/ PressKey(c) \/ Typing(c)
  \/ ThreadFocus(c) \/ Deactivate(c) \/ Killed(c) \/ Notify(c)
  \/ \E checked \in BOOLEAN : Browse(c, checked)
  \/ GainFocus(c) \/ LoseFocus(c)

Deploying(d) ==
  \/ OpenMutex(d) \/ AbortDeploy(d) \/ StartMaintenance(d)
  \/ \E failed \in BOOLEAN : FinishWork(d, failed)
  \/ EndMaintenance(d) \/ Resume(d)

Next ==
  \/ Process
  \/ \E c \in Clients : ClientNext(c)
  \/ \E d \in Deployers : BeginDeploy(d) \/ Deploying(d)

Spec == Init /\ [][Next]_vars

\* A launched server starts, a request that waits for g_api_mutex gets it
\* some time, a deployer ends its work, and a user goes on typing in every
\* application; nobody has to start a deployer, nor to move the focus.
Fairness ==
  /\ WF_vars(LoadEngine \/ ServerReady)
  /\ WF_vars(launched /\ StartServer)
  /\ \A c \in Clients : SF_vars(Typing(c)) /\ SF_vars(PressKey(c))
  /\ \A d \in Deployers : SF_vars(Deploying(d))

FairSpec == Spec /\ Fairness

-----------------------------------------------------------------------------

Steps == {"idle", "end", "start", "opening", "check", "alone", "crowded",
          "echo", "key", "abort"}

DeployerSteps == {"idle", "refused", "started", "connecting", "aborting",
                  "aborted", "working", "resuming", "waiting", "done"}

TypeOK ==
  /\ up \in {"down", "starting", "loading", "up"}
  /\ inc \in 0..MaxStarts
  /\ launched \in BOOLEAN /\ disabled \in BOOLEAN /\ found \in BOOLEAN
  /\ DOMAIN sessions \subseteq Nat
  /\ \A i \in DOMAIN sessions : sessions[i] \in Nat
  /\ live \subseteq Nat \ {0}
  /\ active \in Nat
  /\ probe \in Clients \cup Deployers \cup {None, Server}
  /\ mutex \subseteq Deployers
  /\ pc \in [Clients -> Steps]
  /\ sid \in [Clients -> Nat]
  /\ pipe \in [Clients -> 0..inc]
  /\ retry \in [Clients -> 0..(RetryLimit - 1)]
  /\ dpc \in [Deployers -> DeployerSteps]
  /\ reached \in [Deployers -> BOOLEAN]
  /\ leaves \in 0..MaxLeaves
  /\ orphans \subseteq Nat

\* From the answer to its StartMaintenance to the end of its work a deployer
\* has librime's data for itself: the server has finalized librime, keeps no
\* session, and neither a restart nor a client that asks for a session
\* brings librime back (Configurator::UpdateWorkspace, Initialize).
MaintenanceIsExclusive ==
  \A d \in Deployers :
    dpc[d] = "working" /\ reached[d] => disabled /\ live = {}

\* The active session, into which a commit from outside is inserted, is one
\* that a client holds who is connected to this very server, or one whose
\* client was killed: it never outlives a session that was ended, nor the
\* server that gave it (m_active_session; RemoveSession, Finalize,
\* ClientImpl::EndSession, _ProcessPipeThread).
ActiveIsHeld ==
  active # 0 => \/ \E c \in Clients : sid[c] = active /\ pipe[c] = inc
                \/ active \in orphans

\* The server handles the keys that the client sends in its session.
Served(c) == up = "up" /\ ~disabled /\ EngineOf(sid[c]) \in live

\* A client that goes on typing gets, again and again, a session in which its
\* keys are handled, if the server stays: after a redeployment, a failed
\* synchronisation or a lost session (_EnsureServerConnected, AddSession).
KeysReachEngine ==
  <>[](up = "up") => \A c \in Clients : []<>Served(c)

\* Typing brings back a server that has quit or died (the launch of
\* start_service.bat in _EnsureServerConnected).
TypingRestartsServer ==
  (up = "down" /\ inc \in 1..(MaxStarts - 1)) ~> (up = "up")

=============================================================================
