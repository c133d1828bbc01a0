CONSTANTS
    MaxPixel = 3
    InitPixels = {0, 2, 3}
    FilterJobs <- MCFilterJobs
    LineJobs <- MCLineJobs
    FillJobs <- MCFillJobs
    BlobJobs <- MCBlobJobs
SPECIFICATION FairSpec
INVARIANTS
    FilterExact
    LineOpsExact
    FillExact
    BlobsExact
PROPERTY OperationsEnd
CHECK_DEADLOCK FALSE
