SPECIFICATION Spec
CONSTANTS
  Apps = {a1}
  Chats = {c1}
  Texts = {t1}
  Layouts = {l1}
  Slots = {s1, s2}
  MaxSuggestions = 1
  None = None
INVARIANTS
  SensitiveAsksNobody
