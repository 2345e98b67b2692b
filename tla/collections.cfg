SPECIFICATION MCSpec
CONSTANTS Nothing = Nothing MaxCalls = 8 MaxParallel = 1
CONSTANTS Element <- Elements MaxNodes = 6 PageNumber <- Number
CONSTANTS Value <- Tasks Width = 2 MaxLists = 3 MaxSize = 4 MaxCount = 2 Restarts = TRUE
CONSTANTS Item <- Items Side <- SideOf Split <- Splits FewRows = 1 BlockSize = 4
INVARIANTS SearchesAreRight SortIsRight StreamIsComplete ListSound QueueAgrees SplitKeepsItems
PROPERTIES ImplementsFifo ImplementsCollection
CHECK_DEADLOCK FALSE
