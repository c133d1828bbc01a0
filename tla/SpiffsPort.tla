----------------------------- MODULE SpiffsPort -----------------------------
(***************************************************************************)
(* The SPIFFS hardware layer of the K210 port (spiffs-port.c) on top of    *)
(* the flash driver, and the one sequence of calls that SPIFFS makes       *)
(* without leaving the chip time to settle: spiffs_erase_block.            *)
(*                                                                         *)
(* spiffs_configport.h sets 32 KB physical erase blocks and logical blocks *)
(* of four of them, so spiffs_erase_block sends several erases in a row    *)
(* and then writes the erase count and the magic of the block.  Neither    *)
(* my_spi_erase nor my_spi_write looks whether the chip is busy when it is *)
(* called, and my_spi_erase does not wait for its erase.                   *)
(***************************************************************************)
EXTENDS W25qxx

CONSTANTS
  LogErases,   \* physical erase blocks in a logical block
  CountAt,     \* offset of the erase count in a block (SPIFFS_ERASE_COUNT_PADDR)
  Count,       \* the erase count written, a byte
  MagicAt,     \* offset of the magic in a block (SPIFFS_MAGIC_PADDR)
  Magic        \* the magic written, a byte

LogBlockSize == LogErases * HalfSize
LogBlocks == Size \div LogBlockSize

ASSUME SpiffsAssumption ==
  /\ LogErases \in Nat \ {0} /\ LogBlockSize <= Size
  /\ CountAt \in 0 .. LogBlockSize - 1 /\ Count \in Byte
  /\ MagicAt \in 0 .. LogBlockSize - 1 /\ Magic \in Byte

VARIABLES
  erasing,     \* the block spiffs_erase_block is working on, or NoBlock
  stage        \* HAL calls it has made: its erases, the count, the magic

svars == <<vars, erasing, stage>>

NoBlock == -1
Base(bix) == bix * LogBlockSize
Block(bix) == Extent(Base(bix), LogBlockSize)

\* hal_write_f
my_spi_write(w) == w25qxx_write_data(w)

\* hal_erase_f: w25qxx_32k_block_erase whatever `size` is.
my_spi_erase(a, size) == Erase(Aligned(a, HalfSize), Extent(a, size))

\* spiffs_erase_block: erase the physical blocks one after the other ...
spiffs_erase_block(bix) ==
  /\ erasing = NoBlock
  /\ my_spi_erase(Base(bix), HalfSize)
  /\ erasing' = bix
  /\ stage' = 1

EraseNext ==
  /\ erasing # NoBlock /\ stage < LogErases
  /\ my_spi_erase(Base(erasing) + stage * HalfSize, HalfSize)
  /\ stage' = stage + 1
  /\ UNCHANGED erasing

\* ... then write the erase count and the magic.
RegisterEraseCount ==
  /\ erasing # NoBlock /\ stage = LogErases
  /\ my_spi_write([addr |-> Base(erasing) + CountAt, data |-> <<Count>>])
  /\ stage' = stage + 1
  /\ UNCHANGED erasing

WriteMagic ==
  /\ erasing # NoBlock /\ stage = LogErases + 1
  /\ my_spi_write([addr |-> Base(erasing) + MagicAt, data |-> <<Magic>>])
  /\ stage' = 0
  /\ erasing' = NoBlock

\* SPIFFS writes pages of files and of its tables.
HalWrite ==
  /\ erasing = NoBlock
  /\ \E w \in Writes : my_spi_write(w)
  /\ UNCHANGED <<erasing, stage>>

\* Other modules (burner, spiflash) use the same driver beside the file
\* system, between its calls.
Raw ==
  /\ erasing = NoBlock
  /\ Programs \/ Erases \/ Modes
  /\ UNCHANGED <<erasing, stage>>

PInit == Init /\ erasing = NoBlock /\ stage = 0

\* main.c mounts the file system once quad mode is enabled.
Mounted == mode = "quad"

PNext ==
  \/ Mounted /\ HalWrite
  \/ \E bix \in 0 .. LogBlocks - 1 : Mounted /\ spiffs_erase_block(bix)
  \/ EraseNext \/ RegisterEraseCount \/ WriteMagic
  \/ (ChipDone \/ Driver) /\ UNCHANGED <<erasing, stage>>
  \/ Raw
  \/ PowerLoss /\ erasing' = NoBlock /\ stage' = 0

PSpec == PInit /\ [][PNext]_svars

\* The chip finishes what it has accepted and the driver's code runs on.
PFairSpec == PSpec /\ WF_svars(ChipDone /\ UNCHANGED <<erasing, stage>>)
                   /\ WF_svars(Driver /\ UNCHANGED <<erasing, stage>>)
=============================================================================
