SPECIFICATION Spec
CONSTANTS
  Scripts <- ListRecScripts
  Roots <- ListRecScripts
  NArgs <- ListRecZero
  NSaved <- ListRecZero
  NLists <- ListRecLists
  MaxStack <- ListRecZero
  MaxSaved <- ListRecZero
  Returns <- ListRecReturns
  Sites <- ListRecSites
  Vals = {v1, v2}
  Unset = Unset
  ArgSlots = 3
  SavedSlots = 4
  StackSlots = 3
  MaxDepth = 3
  MaxLen = 1
SYMMETRY Symmetry
PROPERTY MutationsRetained
