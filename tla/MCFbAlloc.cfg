SPECIFICATION FairSpec
CONSTANTS
  Top = 72
  Wrap = 1024
  Frames <- MixedFrames
  Sizes = {0, 8, 20}
  Api = {"all", "free_all", "raise"}
  MaxBlocks = 4
INVARIANTS TypeOK HeadersTile MarksUnambiguous RegionsOffFrame AvailCanBeHad
PROPERTIES OperationsBalance LoopsEnd
