\* All contents of one file of up to five bytes, all split sizes.
CONSTANTS
    NFiles = 1
    MaxSize = 5
    SplitSizes <- Sizes
SPECIFICATION SplitSpec
INVARIANTS SplitsTile ReadAtMostOnce EveryByteRead
\* Reading ends.
CHECK_DEADLOCK FALSE
