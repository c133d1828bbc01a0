------------------------------- MODULE W25qxx -------------------------------
(***************************************************************************)
(* The SPI NOR flash driver of the K210 port (board-drivers/w25qxx.c) and  *)
(* the chip it talks to.                                                   *)
(*                                                                         *)
(* The chip works on its own: it accepts an erase, a program or a status   *)
(* register write, is busy for a while, and until it is done ignores every *)
(* other command except a read of its status registers.  The driver is     *)
(* sequential code that may or may not wait for the chip between two       *)
(* commands; where it does not, the two really interleave.                 *)
(*                                                                         *)
(* A byte is the set of its one bits, so an erase leaves Bits and a        *)
(* program leaves the intersection.  Sizes are scaled down: the driver's   *)
(* 256-byte pages, 16-page sectors and 32 KB half blocks are PageSize,     *)
(* SectorPages and HalfSectors.                                            *)
(***************************************************************************)
EXTENDS Integers, Sequences, FiniteSets

CONSTANTS
  Bits,         \* the bits of a byte
  PageSize,     \* bytes in a page: w25qxx_FLASH_PAGE_SIZE
  SectorPages,  \* pages in a sector: w25qxx_FLASH_PAGE_NUM_PER_SECTOR
  HalfSectors,  \* sectors erased by one BLOCK_32K_ERASE
  Blocks,       \* 64 KB blocks on the chip
  Writes,       \* the writes callers make: records [addr, data]
  Api,          \* the entry points callers use
  QeAtBoot,     \* quad-enable bits the (nonvolatile) register may hold at boot
  Polls         \* "always" if callers poll w25qxx_is_busy before a call, else "never"

SectorSize == PageSize * SectorPages
HalfSize == SectorSize * HalfSectors
BlockSize == 2 * HalfSize
Size == BlockSize * Blocks

Byte == SUBSET Bits
Cells == 0 .. Size - 1
Extent(a, n) == a .. a + n - 1
AlignDown(a, n) == a - (a % n)

ASSUME W25qxxAssumption ==
  /\ PageSize \in Nat \ {0} /\ SectorPages \in Nat \ {0}
  /\ HalfSectors \in Nat \ {0} /\ Blocks \in Nat \ {0}
  /\ \A w \in Writes : /\ w.addr \in Cells
                       /\ w.data \in Seq(Byte) /\ w.data # <<>>
                       /\ w.addr + Len(w.data) <= Size
  /\ Polls \in {"always", "never"}
  /\ QeAtBoot \subseteq {"on", "off"}

VARIABLES
  mem,    \* chip: the memory array
  qe,     \* chip: the quad-enable bit of status register 2, "on" or "off"
  op,     \* chip: the operation in progress, or None
  mode,   \* driver: which w25qxx_read_fun / w25qxx_page_program_fun are set
  pc,     \* driver: where the current call is
  addr,   \* driver: addr of the current call, advanced by its loop
  data,   \* driver: what data_buf and length still hold
  buf,    \* driver: swap_buf, merged with the bytes to write
  page,   \* driver: index of w25qxx_sector_program
  want,   \* history: the contents the callers asked for
  call,   \* history: the bytes the latest call was asked to change
  swept   \* history: the bytes of the sector that call has erased so far

chip == <<mem, qe, op>>
loop == <<addr, data, buf, page>>
history == <<want, call, swept>>
vars == <<chip, mode, pc, loop, history>>

-----------------------------------------------------------------------------
(* The chip. *)

None == [kind |-> "none"]
EraseOp(cells) == [kind |-> "erase", cells |-> cells]
ProgramOp(bytes) == [kind |-> "program", bytes |-> bytes]
StatusOp(bit) == [kind |-> "status", bit |-> bit]

\* A command that is not a status read is ignored while the chip is busy; so
\* is the WRITE_ENABLE before it.  A quad command needs the quad-enable bit.
Accepted(o) ==
  IF op = None /\ (mode = "quad" /\ o.kind = "program" => qe = "on")
  THEN o ELSE op

\* Bytes sent past the end of a page wrap to the start of the same page.
PageCell(a, i) == AlignDown(a, PageSize) + (((a % PageSize) + i - 1) % PageSize)

ProgramBytes(a, d) ==
  [c \in {PageCell(a, i) : i \in 1 .. Len(d)} |->
     d[CHOOSE i \in 1 .. Len(d) : PageCell(a, i) = c]]

\* The array once operation o is done.
Done(o) ==
  CASE o.kind = "erase"   -> [c \in Cells |-> IF c \in o.cells THEN Bits ELSE mem[c]]
    [] o.kind = "program" -> [c \in Cells |-> IF c \in DOMAIN o.bytes
                                              THEN mem[c] \cap o.bytes[c] ELSE mem[c]]
    [] OTHER              -> mem

\* What a byte may hold when operation o was cut short.
TornByte(o, c) ==
  CASE o.kind = "erase" /\ c \in o.cells -> Byte
    [] o.kind = "program" /\ c \in DOMAIN o.bytes ->
         {b \in Byte : mem[c] \cap o.bytes[c] \subseteq b /\ b \subseteq mem[c]}
    [] OTHER -> {mem[c]}

Torn(o) == {m \in [Cells -> Byte] : \A c \in Cells : m[c] \in TornByte(o, c)}

\* What a read in the given mode can return for the bytes `cells`: their
\* contents, or anything if the chip is busy or refuses the quad command.
Seen(m, cells) ==
  IF op = None /\ (m = "quad" => qe = "on")
  THEN {[c \in cells |-> mem[c]]}
  ELSE [cells -> Byte]

ChipDone ==
  /\ op # None
  /\ mem' = Done(op)
  /\ qe' = IF op.kind = "status" THEN op.bit ELSE qe
  /\ op' = None
  /\ UNCHANGED <<mode, pc, loop, history>>

-----------------------------------------------------------------------------
(* Entry points: a call may start when the previous one has returned. *)

Idle == /\ pc = "idle"
        /\ Polls = "always" => op = None

Overlay(w, Combine(_, _)) ==
  [c \in Cells |-> IF c \in Extent(w.addr, Len(w.data))
                   THEN Combine(want[c], w.data[c - w.addr + 1]) ELSE want[c]]

Replace(old, new) == new
Pull(old, new) == old \cap new

Enter(label, w, Combine(_, _)) ==
  /\ Idle
  /\ pc' = label
  /\ addr' = w.addr
  /\ data' = w.data
  /\ want' = Overlay(w, Combine)
  /\ call' = Extent(w.addr, Len(w.data))
  /\ swept' = {}
  /\ UNCHANGED <<chip, mode, buf, page>>

w25qxx_write_data(w) == "write" \in Api /\ Enter("sector", w, Replace)
w25qxx_write_data_direct(w) == "direct" \in Api /\ Enter("direct", w, Pull)

\* A bare w25qxx_page_program_fun, as the burner issues it: one page, and no
\* wait for the chip.
w25qxx_page_program_fun(w) ==
  /\ "page" \in Api
  /\ (w.addr % PageSize) + Len(w.data) <= PageSize
  /\ Idle
  /\ op' = Accepted(ProgramOp(ProgramBytes(w.addr, w.data)))
  /\ want' = Overlay(w, Pull)
  /\ call' = Extent(w.addr, Len(w.data))
  /\ swept' = {}
  /\ UNCHANGED <<mem, qe, mode, pc, loop>>

\* The erase commands return as soon as they are sent.  `asked` is what the
\* caller means to erase, `cells` what the command erases.
Erase(cells, asked) ==
  /\ Idle
  /\ op' = Accepted(EraseOp(cells))
  /\ want' = [c \in Cells |-> IF c \in asked THEN Bits ELSE want[c]]
  /\ call' = asked
  /\ swept' = {}
  /\ UNCHANGED <<mem, qe, mode, pc, loop>>

Aligned(a, n) == Extent(AlignDown(a, n), n)

w25qxx_sector_erase(a) ==
  "sector_erase" \in Api /\ Erase(Aligned(a, SectorSize), Aligned(a, SectorSize))
w25qxx_32k_block_erase(a) ==
  "erase32" \in Api /\ Erase(Aligned(a, HalfSize), Aligned(a, HalfSize))
w25qxx_64k_block_erase(a) ==
  "erase64" \in Api /\ Erase(Aligned(a, BlockSize), Aligned(a, BlockSize))
w25qxx_chip_erase ==
  "chip_erase" \in Api /\ Erase(Cells, Cells)

\* The status register is written only when the bit has to change.
SetQuad(bit, m) ==
  /\ Idle
  /\ op' = IF qe = bit THEN op ELSE Accepted(StatusOp(bit))
  /\ mode' = m
  /\ UNCHANGED <<mem, qe, pc, loop, history>>

w25qxx_enable_quad_mode == SetQuad("on", "quad")
w25qxx_disable_quad_mode == "disable_quad" \in Api /\ SetQuad("off", "standard")

-----------------------------------------------------------------------------
(* w25qxx_write_data: one iteration of its loop per sector. *)

sector_addr == AlignDown(addr, SectorSize)
WriteLen(n) == IF Len(data) < n - (addr % n) THEN Len(data) ELSE n - (addr % n)

EraseNeeded_Differs(seen) ==
  \E i \in 1 .. WriteLen(SectorSize) : data[i] # seen[addr + i - 1]

\* Some byte to write has a one where the sector holds a zero.
EraseNeeded(seen) ==
  \E i \in 1 .. WriteLen(SectorSize) : data[i] # data[i] \cap seen[addr + i - 1]

Merge_RestBlank(seen) ==
  [c \in DOMAIN seen |->
     IF c \in Extent(addr, WriteLen(SectorSize)) THEN data[c - addr + 1] ELSE Bits]

Merge(seen) ==
  [c \in DOMAIN seen |->
     IF c \in Extent(addr, WriteLen(SectorSize)) THEN data[c - addr + 1] ELSE seen[c]]

\* Read the sector, see whether some bit has to be set, merge the new bytes.
ReadSector ==
  /\ pc = "sector"
  /\ \E seen \in Seen(mode, Extent(sector_addr, SectorSize)) :
       /\ buf' = Merge(seen)
       /\ pc' = IF EraseNeeded(seen) THEN "erase" ELSE "program"
  /\ page' = 0
  /\ UNCHANGED <<chip, mode, addr, data, history>>

EraseSector ==
  /\ pc = "erase"
  /\ op' = Accepted(EraseOp(Extent(sector_addr, SectorSize)))
  /\ swept' = Extent(sector_addr, SectorSize)
  /\ pc' = "erase_busy"
  /\ UNCHANGED <<mem, qe, mode, loop, want, call>>

PollErase_Inverted ==
  /\ pc = "erase_busy"
  /\ op # None
  /\ pc' = "program"
  /\ UNCHANGED <<chip, mode, loop, history>>

PollErase ==
  /\ pc = "erase_busy"
  /\ op = None
  /\ pc' = "program"
  /\ UNCHANGED <<chip, mode, loop, history>>

\* w25qxx_sector_program: every page of the sector, waiting after each.
PageAddr == sector_addr + page * PageSize

ProgramPage ==
  /\ pc = "program"
  /\ op' = Accepted(ProgramOp([c \in Extent(PageAddr, PageSize) |-> buf[c]]))
  /\ pc' = "page_busy"
  /\ UNCHANGED <<mem, qe, mode, loop, history>>

NoLocals ==
  /\ addr' = 0
  /\ data' = <<>>
  /\ buf' = [c \in {} |-> {}]
  /\ page' = 0

\* n bytes went out: the next round of the loop, or the return.
Advance(n, label) ==
  IF n < Len(data)
  THEN /\ addr' = addr + n
       /\ data' = SubSeq(data, n + 1, Len(data))
       /\ pc' = label
       /\ page' = 0
       /\ UNCHANGED buf
  ELSE /\ pc' = "idle"
       /\ NoLocals

NextPage == page + 1 < SectorPages

PollPage ==
  /\ pc = "page_busy"
  /\ op = None
  /\ IF NextPage
     THEN /\ page' = page + 1
          /\ pc' = "program"
          /\ UNCHANGED <<addr, data, buf, swept>>
     ELSE /\ Advance(WriteLen(SectorSize), "sector")
          /\ swept' = {}
  /\ UNCHANGED <<chip, mode, want, call>>

-----------------------------------------------------------------------------
(* w25qxx_write_data_direct: one iteration per page, no read and no erase. *)

DirectLen_Unaligned == IF Len(data) < PageSize THEN Len(data) ELSE PageSize
DirectLen == WriteLen(PageSize)

DirectProgram ==
  /\ pc = "direct"
  /\ op' = Accepted(ProgramOp(ProgramBytes(addr, SubSeq(data, 1, DirectLen))))
  /\ pc' = "direct_busy"
  /\ UNCHANGED <<mem, qe, mode, loop, history>>

DirectPoll ==
  /\ pc = "direct_busy"
  /\ op = None
  /\ Advance(DirectLen, "direct")
  /\ UNCHANGED <<chip, mode, history>>

-----------------------------------------------------------------------------
\* The board loses power: the operation in progress is cut short, the driver
\* starts again, and its callers have what the array holds.
PowerLoss ==
  /\ "power" \in Api
  /\ mem' \in Torn(op)
  /\ op' = None
  /\ mode' = "standard"
  /\ pc' = "idle"
  /\ want' = mem'
  /\ call' = {}
  /\ swept' = {}
  /\ NoLocals
  /\ UNCHANGED qe

Init ==
  /\ mem = [c \in Cells |-> Bits]
  /\ qe \in QeAtBoot
  /\ op = None
  /\ mode = "standard"
  /\ pc = "idle"
  /\ addr = 0
  /\ data = <<>>
  /\ buf = [c \in {} |-> {}]
  /\ page = 0
  /\ want = mem
  /\ call = {}
  /\ swept = {}

Driver ==
  \/ ReadSector \/ EraseSector \/ PollErase \/ ProgramPage \/ PollPage
  \/ DirectProgram \/ DirectPoll

Programs ==
  \E w \in Writes : w25qxx_write_data_direct(w) \/ w25qxx_page_program_fun(w)

Erases ==
  \/ \E a \in Cells : \/ w25qxx_sector_erase(a)
                      \/ w25qxx_32k_block_erase(a)
                      \/ w25qxx_64k_block_erase(a)
  \/ w25qxx_chip_erase

Modes == w25qxx_enable_quad_mode \/ w25qxx_disable_quad_mode
=============================================================================
