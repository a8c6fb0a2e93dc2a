SPECIFICATION Spec
CONSTANTS
  Scripts <- RecScripts
  Roots <- RecScripts
  NArgs <- RecArgs
  NSaved <- RecSaved
  NLists <- RecLists
  MaxStack <- RecMaxStack
  MaxSaved <- RecMaxSaved
  Returns <- RecReturns
  Sites <- RecSites
  Vals = {v1, v2}
  Unset = Unset
  ArgSlots = 2
  SavedSlots = 3
  StackSlots = 3
  MaxDepth = 3
  MaxLen = 1
SYMMETRY Symmetry
INVARIANTS FrameInv ListFrameInv TooDeepHarmless
PROPERTIES CallsIsolated MutationsRetained
