CONSTANTS
    NBoxes = 4
    NClasses = 1
    NOutput = 24
    Threshold = 1
    MaxObjects = 2
    FirstLayers = 2
    FifoLayers = 3
    LayerCounts = {3, 4}
    Overlap <- MCOverlap
    Images <- MCImages
    Scenes <- MCScenes
SPECIFICATION FairSpec
INVARIANTS
    DrawsFilledBuffer
    LayersInOrder
    LabelsOfPreviousImage
PROPERTIES
    ShowEnds
    ProcessEnds
CHECK_DEADLOCK FALSE
