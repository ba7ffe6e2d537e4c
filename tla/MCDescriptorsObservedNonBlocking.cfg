SPECIFICATION DescriptorsSpec
CONSTANTS
 MaxFd = 3
 MaxStarts = 2
 MaxOpens = 2
INVARIANT ObservedNonBlocking
CHECK_DEADLOCK FALSE
