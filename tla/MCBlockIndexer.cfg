SPECIFICATION FairSpec
CONSTANTS
    MaxBlocks = 4
    MaxLag = 1
    Unservable = {6}
    MaxHeight = 7
PROPERTIES
    ImplementsLog
    EverythingServedIsIndexed
