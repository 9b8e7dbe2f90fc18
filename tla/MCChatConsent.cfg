SPECIFICATION SceneSpec
CONSTANTS
  Docs = {d1, d2}
  Texts = {t1, t2}
  NoText = NoText
  Questions = {q1}
  Local = {ollama}
  Cloud = {claude}
  Slots = {s1, s2}
  MaxMessages = 2
  MaxChanges = 2
  NoHash = NoHash
  NoPreview = NoPreview
SYMMETRY Symmetry
CHECK_DEADLOCK FALSE
INVARIANTS
  SendsAreCovered
PROPERTIES
  ConsentFitsSelection
