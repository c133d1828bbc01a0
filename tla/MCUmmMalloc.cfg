CONSTANTS
    HeapSizes = {100, 200}
    MinBlocks = 5
    MaxBlocks = 7
    Sizes = {0, 16, 44}
    MaxLive = 3
SPECIFICATION Spec
INVARIANTS
    HeapWellFormed
    DataKept
PROPERTY ImplementsHeap
VIEW View
