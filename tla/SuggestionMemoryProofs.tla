------------------------ MODULE SuggestionMemoryProofs ------------------------
(***************************************************************************)
(* Proofs about SuggestionMemory: with the store of summaries the input    *)
(* method still is SuggestionFlow.                                         *)
(***************************************************************************)
EXTENDS SuggestionMemory, SuggestionFlowProofs

-----------------------------------------------------------------------------
(* The store of summaries watches the flow and never disturbs it.          *)

LEMMA FlowStepIsNext == ASSUME FlowStep PROVE Next
BY DEF FlowStep, Next, JobStep

LEMMA MemoryStepIsFlowStep == [MemoryNext]_allVars => [Next]_vars
<1> SUFFICES ASSUME [MemoryNext]_allVars PROVE [Next]_vars
  OBVIOUS
<1>1. CASE FlowStep
  BY <1>1, FlowStepIsNext
<1>2. ASSUME NEW c \in Conversation, DeleteConversation(c) \/ ForgetReturns(c)
      PROVE  [Next]_vars
  BY <1>2 DEF DeleteConversation, ForgetReturns, Next, vars
<1>3. ASSUME NEW s \in Slots, MemoryEvent(s) \/ ReadMemory(s)
      PROVE  [Next]_vars
  BY <1>3 DEF MemoryEvent, ReadMemory, vars
<1>6. ASSUME NEW s \in Slots, AwaitMemory(s) \/ BuildRequest(s)
      PROVE  [Next]_vars
  BY <1>6 DEF AwaitMemory, BuildRequest, Next, JobStep
<1>4. ASSUME NEW x \in SaveCall, SaveSummary(x) PROVE [Next]_vars
  BY <1>4 DEF SaveSummary, vars
<1>5. CASE UNCHANGED allVars
  BY <1>5 DEF allVars, vars
<1> QED BY <1>1, <1>2, <1>3, <1>4, <1>5, <1>6 DEF MemoryNext

\* loadConversationMemory, onMemory and deleteConversation leave the input
\* method's behaviours as SuggestionFlow describes them.
THEOREM MemoryIsFlow == MemorySpec => Spec
<1>1. MemoryInit => Init
  BY DEF MemoryInit
<1> QED BY <1>1, MemoryStepIsFlowStep, PTL DEF MemorySpec, Spec

\* So what is proved of the flow holds with memory too: no suggestion outlives
\* the chat that its request, now with that chat's summary, was made for.
THEOREM MemoryStaysInContext == MemorySpec => []ContextBacksAI
BY MemoryIsFlow, AIStaysInContext, PTL
=============================================================================
