SPECIFICATION Spec
CONSTANTS
  Scripts <- ChainScripts
  Roots = {"main"}
  NArgs <- ChainArgs
  NSaved <- ChainSaved
  NLists <- ChainLists
  MaxStack <- ChainMaxStack
  MaxSaved <- ChainMaxSaved
  Returns <- ChainReturns
  Sites <- ChainSites
  Vals = {v1, v2}
  Unset = Unset
  ArgSlots = 2
  SavedSlots = 2
  StackSlots = 2
  MaxDepth = 2
  MaxLen = 1
SYMMETRY Symmetry
INVARIANTS TypeOK FramesDisjoint ContextReusable ListFrameInv
PROPERTIES CallsIsolated CallersKept
