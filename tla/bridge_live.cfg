SPECIFICATION FairSpec
CONSTANTS
  w1 = w1
  w2 = w2
  w3 = w3
  n1 = n1
  n2 = n2
  s1 = s1
  Wrappers = {w1, w2}
  Natives = {n1, n2}
  Slots = {s1}
  Intrusive = {}
  Linked = {}
  Valued = {n1, n2}
  Null = Null
  MaxDepth = 1
CHECK_DEADLOCK FALSE
PROPERTIES AbandonedNativesDie 
