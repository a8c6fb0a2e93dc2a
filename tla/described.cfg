CONSTANTS
 IntBits = 8
 MaxCost = 100
 ArgumentSlots = 8
 StackLimit = 16
 SavedLimit = 8
 Functions <- LibFunctions
 Overloads <- LibOverloads
 Builtin <- LibBuiltin
 Edges <- LibEdges
 Enums <- LibEnums
 EnumValue <- LibEnums
 Scripts <- MCDescribedScripts
 Hosts <- MCHosts
SPECIFICATION DescribedSpec
CHECK_DEADLOCK FALSE
INVARIANT Certified EffectsStandAlone DescribingIsSilent DescribedAsRun DescribedAsUnoptimised
PROPERTY Terminates
