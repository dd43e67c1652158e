SPECIFICATION Spec
CONSTANTS
  chat = chat
  d1 = d1
  d2 = d2
  e1 = e1
  e2 = e2
  Keys = {chat}
  Callers = {chat}
  States <- MCStates
  Fields = {"weekday", "raw_text", "entry"}
  Values <- MCValues
  TTL = 1
  None = None
  Days = {d1, d2}
  Readable = {"algebra", "too many"}
  Rejected = {"too many"}
  Ids = {e1, e2}
SYMMETRY MCSymmetry
INVARIANTS
  TypeOK
  SavesThePreview
  SavesOnce
  RenamesTheChosen
