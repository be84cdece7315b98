SPECIFICATION ScriptOnlySpec
CONSTANTS
  w1 = w1
  w2 = w2
  w3 = w3
  n1 = n1
  n2 = n2
  s1 = s1
  Wrappers = {w1, w2}
  Natives = {n1, n2}
  Slots = {}
  Intrusive = {}
  Linked = {n1, n2}
  Valued = {}
  Null = Null
  MaxDepth = 0
CHECK_DEADLOCK FALSE
INVARIANT ObjrefIsReadable
