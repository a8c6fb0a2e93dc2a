CONSTANTS
 MaxCost = 4
 MaxEdges = 3
 MaxOverloads = 3
 Conversions <- MCConversions
 Signatures <- MCSignatures
 Readers <- MCReaders
 Priorities <- MCPriorities
 Calls <- MCCalls
SPECIFICATION Spec
CHECK_DEADLOCK FALSE
INVARIANT TypeOK CheapestChain OrderIsIrrelevant BestOverload ExactMatchWins
