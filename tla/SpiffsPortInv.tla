---------------------------- MODULE SpiffsPortInv ----------------------------
(***************************************************************************)
(* What SPIFFS and the other callers of the flash driver rely on.          *)
(***************************************************************************)
EXTENDS SpiffsPort

\* Whenever a caller can make its next call, a read in the driver's mode
\* returns what the calls so far asked for: w25qxx_write_data leaves the bytes
\* it was given and no other byte changed, whatever sector or page boundary it
\* crossed and whether or not it had to erase.
ReadBack ==
  Idle => \A seen \in Seen(mode, Cells) : seen = want

\* Losing power in the middle of a call costs at most the bytes that call was
\* asked to change and the sector w25qxx_write_data is rewriting: no other
\* byte differs from what was asked for.
PowerLossContained ==
  [][PowerLoss => \A c \in Cells \ (call \cup swept) : mem'[c] = want[c]]_svars

\* w25qxx_write_data erases a sector only for a write that needs a bit set;
\* a write that only pulls ones to zeroes puts no neighbour at risk.  The
\* erase is issued before any byte of the sector was programmed, so mem still
\* holds what the write found.
ErasesOnlyToSetBits ==
  [][EraseSector => \E c \in call \cap Extent(sector_addr, SectorSize) :
                      ~ (want[c] \subseteq mem[c])]_svars

\* The polling loops of the driver end: every write returns.
WritesReturn == pc # "idle" ~> pc = "idle"

\* The erase SPIFFS asked for sets every bit of the block: "An erase will
\* reset all bits in block to ones".  Stated once spiffs_erase_block has sent
\* its last erase and the chip is done.
EraseResetsBlock ==
  erasing # NoBlock /\ stage = LogErases /\ pc = "idle" /\ op = None =>
    \A c \in Block(erasing) : mem[c] = Bits

-----------------------------------------------------------------------------
(***************************************************************************)
(* Inductive invariant of the driver and the chip, for callers that poll.  *)
(***************************************************************************)
Rest == Extent(addr, Len(data))         \* the bytes still to write
Here == Extent(sector_addr, SectorSize) \* the sector w25qxx_write_data is at

\* An operation in progress is one the driver sends.
IsOp(o) ==
  \/ o = None
  \/ o.kind = "erase" /\ o = EraseOp(o.cells)
  \/ o.kind = "program" /\ o = ProgramOp(o.bytes)
  \/ o.kind = "status" /\ o = StatusOp(o.bit) /\ o.bit \in {"on", "off"}

FlashTypeOK ==
  /\ mem \in [Cells -> Byte] /\ want \in [Cells -> Byte]
  /\ qe \in {"on", "off"} /\ mode \in {"standard", "quad"}
  /\ IsOp(op)

StageOK ==
  \/ erasing = NoBlock /\ stage = 0
  \/ erasing \in 0 .. LogBlocks - 1 /\ stage \in 0 .. LogErases + 1

\* In quad mode the chip takes quad commands, or will once it is done.
QuadTaken == mode = "quad" => IF op.kind = "status" THEN op.bit = "on" ELSE qe = "on"

\* What lies outside the call and the sector it rewrites is as asked for, and
\* stays so however far the operation in progress gets.
OthersKept ==
  \A c \in Cells \ (call \cup swept) :
    /\ mem[c] = want[c]
    /\ op.kind = "erase" => c \notin op.cells
    /\ op.kind = "program" /\ c \in DOMAIN op.bytes => want[c] \subseteq op.bytes[c]

\* No call is being executed: the chip is about to have what was asked for.
Between == pc = "idle" /\ Done(op) = want

\* A call is being executed, and still has bytes to write.
During ==
  /\ op.kind # "status"
  /\ addr \in Nat /\ data \in Seq(Byte) /\ Len(data) > 0
  /\ addr + Len(data) <= Size
  /\ Rest \subseteq call

\* w25qxx_write_data: all but the rest and the sector is as asked for.
Writing ==
  /\ During
  /\ \A i \in 1 .. Len(data) : data[i] = want[addr + i - 1]
  /\ \A c \in Cells \ (Rest \cup Here) : mem[c] = want[c]

\* The sector is in buf as it is to be.
Merged == \A c \in Here : buf[c] = want[c]

\* The sector is as asked for up to cell n, and can be programmed to be beyond.
ProgrammedTo(n) ==
  \A c \in Here : IF c < n THEN mem[c] = want[c] ELSE want[c] \subseteq mem[c]

WriteInv ==
  \/ /\ pc = "sector" /\ op = None /\ swept = {}
     /\ \A c \in Here \ Rest : mem[c] = want[c]
  \/ /\ pc = "erase" /\ op = None /\ Merged /\ page = 0
     /\ \E c \in call \cap Here : ~ (want[c] \subseteq mem[c])
  \/ /\ pc = "erase_busy" /\ Merged /\ page = 0 /\ swept = Here
     /\ \/ op = EraseOp(Here)
        \/ op = None /\ \A c \in Here : mem[c] = Bits
  \/ /\ pc = "program" /\ op = None /\ Merged /\ page \in 0 .. SectorPages - 1
     /\ ProgrammedTo(PageAddr)
  \/ /\ pc = "page_busy" /\ Merged /\ page \in 0 .. SectorPages - 1
     /\ \/ /\ op = ProgramOp([c \in Extent(PageAddr, PageSize) |-> buf[c]])
           /\ ProgrammedTo(PageAddr)
        \/ op = None /\ ProgrammedTo(PageAddr + PageSize)

\* w25qxx_write_data_direct: all but the rest is as asked for, and the rest
\* will be once the first n of its bytes have been programmed.
Directing(n) ==
  \A c \in Cells :
    want[c] = IF c \in Rest /\ c >= addr + n THEN mem[c] \cap data[c - addr + 1] ELSE mem[c]

DirectInv ==
  \/ pc = "direct" /\ op = None /\ Directing(0)
  \/ /\ pc = "direct_busy"
     /\ \/ op = ProgramOp([c \in Extent(addr, DirectLen) |-> data[c - addr + 1]]) /\ Directing(0)
        \/ op = None /\ Directing(DirectLen)

FlashIInv ==
  /\ FlashTypeOK /\ StageOK /\ QuadTaken /\ OthersKept
  /\ Between \/ (Writing /\ WriteInv) \/ (During /\ DirectInv)
=============================================================================
