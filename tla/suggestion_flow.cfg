SPECIFICATION FairSpec
CONSTANTS
  Apps = {a1, a2}
  Chats = {c1}
  Texts = {t1}
  Layouts = {l1, l2}
  Slots = {s1, s2}
  MaxSuggestions = 1
  None = None
INVARIANTS
  TypeOK
  OneLiveRequest
  ContextBacksAI
PROPERTIES
  GateReopens
