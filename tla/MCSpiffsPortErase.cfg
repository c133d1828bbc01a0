CONSTANTS
  b1 = b1
  Bits = {b1}
  PageSize = 2
  SectorPages = 2
  HalfSectors = 1
  Blocks = 1
  Writes <- HalWrites
  Api = {"write"}
  QeAtBoot = {"on", "off"}
  Polls = "never"
  LogErases = 2
  CountAt = 3
  Count <- Zero
  MagicAt = 2
  Magic <- Zero
SPECIFICATION PSpec
INVARIANT EraseResetsBlock
