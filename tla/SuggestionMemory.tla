--------------------------- MODULE SuggestionMemory ---------------------------
(***************************************************************************)
(* SuggestionFlow with the summaries that EncryptedConversationStore keeps *)
(* of persistent conversations: a request carries the summary of its       *)
(* conversation to the backend, a memory event brings a newer one back,    *)
(* and "Forget chat" deletes the file.  Reads, saves and deletions run on  *)
(* Dispatchers.IO, one at a time (@Synchronized).                          *)
(***************************************************************************)
EXTENDS SuggestionFlow

VARIABLES
  summary,  \* the summary in each conversation's file: "none", a "fresh" one, or
            \* one that derives from what the last deletion made "forgotten"
  loaded,   \* slots whose read of the file is done
  derived,  \* slots that carry what their conversation's file said before it
            \* was deleted
  deleted,  \* deletions done whose coroutine has not resumed
  saves     \* launched saveSummary calls

memoryVars == <<summary, loaded, derived, deleted, saves>>
allVars == <<ime, summary, loaded, derived, deleted, saves>>

SaveCall == [conversation : Conversation, content : {"forgotten", "fresh"}]

MemoryInit ==
  /\ Init
  /\ summary = [c \in Conversation |-> "none"]
  /\ loaded = {}
  /\ derived = {}
  /\ deleted = {}
  /\ saves = {}

\* The coroutines that have read c's file.
ReadersOf(c) ==
  {s \in Slots : /\ \/ ime.jobs[s].step = "requesting"
                    \/ ime.jobs[s].step = "loading" /\ s \in loaded
                 /\ ConversationOf(ime.jobs[s].subject) = c}

\* deleteConversation.  Who has read the file, and the saves launched from it,
\* still carry what it said.
DeleteConversation(c) ==
  /\ c \in ime.forgetting \ deleted
  /\ summary' = [summary EXCEPT ![c] = "none"]
  /\ derived' = derived \cup ReadersOf(c)
  /\ deleted' = deleted \cup {c}
  /\ saves' = {[x EXCEPT !.content = IF x.conversation = c THEN "forgotten" ELSE @]
                 : x \in saves}
  /\ UNCHANGED <<ime, loaded>>

\* onMemory: the request's coroutine is active and the snapshot still resolves
\* to its conversation, so saveSummary is launched.
MemoryEvent(s) ==
  LET job == ime.jobs[s]
      snapshot == Get(ime, job.app)
  IN /\ job.step = "requesting"
     /\ IsActive(ime, s)
     /\ snapshot # None
     /\ ime.editor.app = snapshot.app
     /\ ConversationOf(snapshot) = ConversationOf(job.subject)
     /\ saves' = saves \cup
          {[conversation |-> ConversationOf(snapshot),
            content |-> IF s \in derived THEN "forgotten" ELSE "fresh"]}
     /\ UNCHANGED <<ime, summary, loaded, derived, deleted>>

SaveSummary(x) ==
  /\ x \in saves
  /\ saves' = saves \ {x}
  /\ summary' = [summary EXCEPT ![x.conversation] = x.content]
  /\ UNCHANGED <<ime, loaded, derived, deleted>>

\* loadConversationMemory suspends for the read ...
AwaitMemory(s) ==
  /\ SnapshotArrives(s)
  /\ loaded' = loaded \ {s}
  /\ derived' = derived \ {s}
  /\ UNCHANGED <<summary, deleted, saves>>

\* ... which finds the file as it is then, or fails and leaves no summary ...
ReadMemory(s) ==
  /\ ime.jobs[s].step = "loading"
  /\ s \notin loaded
  /\ loaded' = loaded \cup {s}
  /\ \/ UNCHANGED derived
     \/ /\ summary[ConversationOf(ime.jobs[s].subject)] = "forgotten"
        /\ derived' = derived \cup {s}
  /\ UNCHANGED <<ime, summary, deleted, saves>>

\* ... and resumes on the main thread with what it has read.
BuildRequest(s) ==
  /\ s \in loaded
  /\ MemoryLoaded(s)
  /\ UNCHANGED memoryVars

ForgetReturns(c) ==
  /\ c \in deleted
  /\ Forgotten(c)
  /\ deleted' = deleted \ {c}
  /\ UNCHANGED <<summary, loaded, derived, saves>>

FlowStep ==
  /\ \/ \E editor \in Editor : StartInputView(editor)
     \/ FinishInputView
     \/ \E snapshot \in Snapshot : Capture(snapshot)
     \/ Lose \/ Refresh \/ Select \/ Forget
     \/ \E s \in Slots :
          \/ SnapshotTimeout(s)
          \/ Receive(s) \/ Deliver(s) \/ Succeed(s) \/ Fail(s)
  /\ UNCHANGED memoryVars

MemoryNext ==
  \/ FlowStep
  \/ \E c \in Conversation : DeleteConversation(c) \/ ForgetReturns(c)
  \/ \E s \in Slots :
       MemoryEvent(s) \/ AwaitMemory(s) \/ ReadMemory(s) \/ BuildRequest(s)
  \/ \E x \in SaveCall : SaveSummary(x)

MemorySpec == MemoryInit /\ [][MemoryNext]_allVars

-----------------------------------------------------------------------------
(* Deleted means deleted: once a conversation's memory is deleted, nothing *)
(* that derives from it is written back.                                   *)
DeletedStaysDeleted == \A c \in Conversation : summary[c] # "forgotten"
=============================================================================
