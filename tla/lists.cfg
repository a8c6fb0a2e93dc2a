CONSTANTS
 Programs <- MCPrograms
 Lists <- MCLists
 Types <- MCTypes
 Callbacks <- MCCallbacks
 Elements <- MCElements
 Values <- MCValues
SPECIFICATION Spec
CHECK_DEADLOCK FALSE
INVARIANT TypeOK ElementsHaveTheirType ReferenceHolds FailureLosesNothing PipelineInv TypingInv MeaningInv
PROPERTY DoesWhatItSays
