SPECIFICATION Spec
CONSTANTS
    Tokens = {1, 2}
    Holders = {0, 1, 2}
    Blocks <- MCBlocks
    Requests <- MCRequests
    Limits = {1, 2}
    MaxBlocks = 4
    MaxNow = 1
INVARIANTS
    PagesAreListing
    
PROPERTY RefusalJustified
CHECK_DEADLOCK FALSE
