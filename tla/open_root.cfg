CONSTANTS
 IntBits = 8
 MaxCost = 100
 ArgumentSlots = 8
 StackLimit = 5
 SavedLimit = 8
 Functions <- LibFunctions
 Overloads <- LibOverloads
 Builtin <- LibBuiltin
 Edges <- LibEdges
 Enums <- LibEnums
 EnumValue <- LibEnums
 Streams <- MCStreams
 MaxRows = 3
 HostStack = 5
 Hosts <- MCHosts
SPECIFICATION Spec
CHECK_DEADLOCK FALSE
INVARIANT LeavesNoOperand
