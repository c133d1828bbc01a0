CONSTANTS
  b1 = b1
  Bits = {b1}
  PageSize = 2
  SectorPages = 2
  HalfSectors = 1
  Blocks = 1
  Writes <- HalWrites
  Api = {"write", "direct", "page", "sector_erase", "erase32", "erase64", "chip_erase", "disable_quad", "power"}
  QeAtBoot = {"on", "off"}
  Polls = "always"
  LogErases = 2
  CountAt = 3
  Count <- Zero
  MagicAt = 2
  Magic <- Zero
SPECIFICATION PFairSpec
INVARIANTS ReadBack
PROPERTIES PowerLossContained ErasesOnlyToSetBits WritesReturn
