# A verification project for kendryte-openmv

kendryte-openmv is the firmware that runs OpenMV and MicroPython on the K210, a
dual-core RISC-V chip. Core 0 boots, mounts a SPIFFS file system on SPI NOR flash
and runs the MicroPython REPL; image operations take their scratch memory from the
frame buffer; interrupts arrive through the PLIC and the CLINT; core 1 waits for a
function to run. This directory holds TLA+ models of the parts whose correctness
depends on order, interleaving, interruption or failure, TLC runs that check them on
small instances, and TLAPS proofs of the results that matter most.

Paths below are relative to the repository. `P` stands for
`src/openmv/src/micropython/ports/k210-standalone` and `OMV` for
`src/openmv/src/omv`.

## 1. Inventory

| Component | State it keeps | Operations | What is hard |
|---|---|---|---|
| Inter-core lock (`lib/bsp/include/atomic.h`) | spin word, `count`, `core` | spinlock and corelock functions; client: `printk` | plain ints behind one atomic word, recursion, two cores |
| Frame-buffer stack (`OMV/fb_alloc.c`, `framebuffer.c`) | stack pointer, headers in memory, the frame | mark, alloc, alloc_all, free, free_till_mark, free_all, init0 | exceptions leave blocks behind, the frame changes under them, unsigned arithmetic at the limit |
| Flash driver (`P/board-drivers/w25qxx.c`) | read/program mode, call in progress; the chip: array, quad bit, busy | erases, write_data, write_data_direct, page program, quad mode | the chip works on its own and ignores commands while busy; power loss |
| SPIFFS port (`P/spiffs-port`) | mount state | hal read, write, erase | several flash commands in a row |
| Interrupt handling (`lib/drivers/plic.c`, `clint.c`, `lib/bsp/interrupt.c`) | threshold, mie, enables, priorities, pending bits, the stack of trap frames | three handlers, enable/disable/priority, timer and IPI calls | handlers nest; registers saved and restored by hand |
| Timer driver (`lib/drivers/timer.c`) | callbacks, lines, status bits | register, unregister, set_irq, enable; two handlers | four channels on two lines, expiry while a handler runs |
| Heap (`OMV/umm_malloc.c`) | blocks chained in memory, a free list through the free ones | init_x, malloc, calloc, realloc, free | four links per block, split and merged in every order of calls |
| Image library (`OMV/img`: `filter.c`, `binary.c`, `mathop.c`, `imlib.c`, `draw.c`, `blob.c`, `collections.c`) | the image, a ring of rows, a window of file lines, a stack of lines, bitmaps, lists of blobs | window filters, morphology, pixel operations, flood fill, cartoon filter, find_blobs | results written over the input of later steps; bounded stacks |
| Camera and display (`P/mpy-mod/machine/machine_ov5640.c`, `machine_nt35310.c`) | two buffers, `g_ram_mux`, finish flag, timer, enabled interrupts | init, lcdshow, deinit, display init; two interrupt handlers | a handler that spins on another handler's flag; two writers of the buffer choice |
| Face detection (`P/board-drivers/face_detect.c`, `region_layer.c`, `P/mpy-mod/machine/machine_face_detect.c`) | buf_status, result buffer, layers, objects | init, process_image; DMA and accelerator interrupts | a pipeline of DMA, accelerator and caller without a lock |
| Core start-up (`lib/bsp/entry_user.c`) | `g_wake_up`, `core1_instance` | register_core1, core_enable | two cores, no lock; not called |
| KPU driver (`lib/drivers/kpu.c`) | one task slot, kpu_status | kpu_run, two interrupts | callback read from a slot that is already free; not called |
| UART and DMA (`lib/drivers/uart.c`, `dmac.c`) | DMA contexts, malloc'ed buffers | send/receive by polling, DMA, interrupt | buffers freed in interrupts; not called |
| Burner, ZMODEM (`P/mpy-mod/machine`) | receive buffer, protocol state | serial protocols | interrupt fills the buffer the main loop reads |
| Everything else | registers | register access | third-party or no shared state |

How they interact: the three trap handlers call back into the timer, KPU, DVP, UART
and DMA drivers on whichever core is interrupted; `timer.c` registers with `plic.c`;
the SPIFFS port, the burner and the `spiflash` module share one flash driver; every
image operation uses the frame-buffer stack above the pixels of the main frame, and
the detectors build a umm_malloc heap in what is left of it; camera, display and face
detection share core 0 and its interrupt controller;
`printk` on both cores shares one corelock. Not built for this port, and so left
out: the sensor, USB debugger, SD card, cambus, ring buffer and `main.c` of `OMV`.

`PROJECT.json` lists the hazards found in this code at their lines, with the
properties that cover them or the reason none does yet.

## 2. Modules

| Module | Models | Composed of |
|---|---|---|
| `CoreLock` | the lock, one memory access per step | |
| `RecursiveLock` | what a recursive lock promises | |
| `CoreLockInv`, `CoreLockProofs` | properties, inductive invariant, proofs | `CoreLock`, `RecursiveLock` |
| `FbAlloc` | the stack allocator and the image operations using it | |
| `FbAllocInv`, `FbAllocProofs` | properties, inductive invariant, proofs | `FbAlloc` |
| `W25qxx` | the flash driver and the chip | |
| `SpiffsPort` | the SPIFFS hardware layer, `spiffs_erase_block`, the raw clients | `W25qxx` |
| `SpiffsPortInv`, `SpiffsPortProofs` | properties of both, inductive invariant, proofs | `SpiffsPort` |
| `Interrupts` | trap handlers, PLIC, CLINT | |
| `InterruptsInv`, `InterruptsProofs` | properties, inductive invariant, proofs | `Interrupts` |
| `Timer` | interrupt dispatch of a timer device | |
| `TimerInv`, `TimerProofs` | properties, inductive invariant, proofs | `Timer` |
| `UmmHeap` | what a best-fit heap promises | |
| `UmmMalloc` | the heap in its memory | |
| `UmmMallocInv`, `UmmMallocProofs` | properties, inductive invariant, refinement of `UmmHeap`, proofs | `UmmMalloc`, `UmmHeap` |
| `Image` | the image, the mask, the call in progress | |
| `WindowFilter` | `filter.c` and the morphology of `binary.c` | `Image` |
| `LineOps` | `mathop.c`, the bit operations, `imlib_image_operation`, BMP windows | `Image` |
| `FloodFill` | the scanline fill, `imlib_flood_fill`, the cartoon filter | `Image` |
| `Blobs` | `imlib_find_blobs` | `FloodFill` |
| `Imlib`, `ImlibInv` | one call of any of these; reference definitions of the results, inductive invariants | the four above |
| `ImlibProofs` | proofs about window filters and line operations | `ImlibInv` |
| `Camera` | `machine_ov5640.c`, the display's init | |
| `RegionLayer` | `region_layer.c`: threshold, suppression, object list | |
| `FaceDetect` | `machine_face_detect.c`, `face_detect.c`, DMA channel and accelerator | `RegionLayer`, `Camera` |
| `Vision` | program, devices and interrupts of both on one core | `FaceDetect` |
| `VisionInv` | properties, inductive invariants of the camera and of the pipeline | `Vision` |
| `VisionProofs` | proofs about camera, pipeline and what the region layer computes | `VisionInv` |
| `MC*` | instances for TLC | the `*Inv` modules |

Definitions named `X_Something` in front of a definition `X` are variants of `X`
with a plausible mistake. They are not part of any specification; each shows that
some property would notice the mistake.

### CoreLock

`spin`, `count` and `core` are the fields of `corelock_t`; `pc`, `call`, `inner`,
`res` and `reg` are each core's position, the function it is in, whether
`corelock_lock` is inside its call of `corelock_trylock`, the result and the register
holding `count`. `depth` is what the client was granted. Each action is one access:
the atomic swap (`spinlock_lock`, `spinlock_trylock_fails`), the tests (`TestAcquire`,
`TestRelease`; the branch reads `count` and `core` while the spinlock is held), the
stores (`TakeFirst`, `TakeOwner`, `TakeAgain`, `GiveBack`, `ClearCore`, `ClearCount`)
and the stores of 0 to the spin word (`Release`, `ReleaseInner`, `BackOff`). `Exit`
is the system call a core makes when it unlocks what it does not own. Nested use and
stray unlocks are part of the client. `Api` chooses between `corelock_lock` and
`corelock_trylock`.

### FbAlloc

Addresses are byte offsets; `mem` holds the header words only, 0 standing for the
data a client writes over a former header. `blocks` and `leaked` are history: what was
pushed, and how much of it an exception left behind. An operation is a mark, any
allocations and frees, and `fb_alloc_free_till_mark` (one action per round of its
loop); nested marks are allowed. `Abort` is the exception raised when memory is short;
`Raise` any other. `SetFrame` installs another frame between operations. `Wrap`
stands for 2^64 in `fb_alloc_all` and `fb_avail`, where the code mixes signed and
unsigned arithmetic. `fb_alloc` of 0 bytes and `fb_alloc_all` with nothing left return
NULL and change nothing, so they are stutters. `fb_free_all` frees whatever is on the stack,
blocks left behind included, over the headers as they are in memory: where a frame grown
since has put a pixel of value 0 in the place of such a header, a round of its loop frees
nothing and the next one finds the same (`PopAll`). `int size` in
`fb_alloc_free_till_mark` is not truncated: the buffer is far below 2^31 bytes.

### W25qxx and SpiffsPort

The chip (`mem`, `qe`, `op`) accepts an erase, a program or a status write and is
busy until `ChipDone`; meanwhile other commands are ignored (`Accepted`) and reads
return anything (`Seen`). A byte is the set of its one bits: an erase yields all, a
program the intersection. Programs wrap inside a page. `PowerLoss` cuts the operation
short: bytes being erased may hold anything, bytes being programmed anything between
old and new. These are facts about the part the driver is written for and are marked
external in the map.

`w25qxx_write_data` is the loop over sectors: read, compare, erase, poll, program
page by page, polling after each. `w25qxx_write_data_direct` is the loop over pages.
The bare erase and page-program calls return without waiting, as in the code. `Polls`
says whether callers make sure the chip is idle before a call: the driver documents
no rule, the burner protocol polls, and SPIFFS does not. `want` is what the callers
asked for so far.

`SpiffsPort` adds `spiffs_erase_block` as SPIFFS runs it with the port's
configuration (`spiffs_configport.h`: 32 KB erase blocks, four to a logical block,
magic enabled): the erases in a row, then the erase count, then the magic.

### Interrupts

Each core has a stack of handler frames; a frame's phase lies between two accesses
of the handler to shared registers. `Trap` pushes a frame when `mstatus.MIE`, `mie`
and the pending bits allow it, external before software before timer. `ExtClaim` and
`ExtLeave` are the save and restore of threshold and mie; between them the callback
runs with interrupts on. The PLIC (gateways, claim, completion) is external and
follows the description in `plic.h`, including that the completion of a source that
is not enabled is ignored. `asked` remembers which mie bits software asked for.
`BaseApi` and `CallbackApi` list the driver calls made outside handlers and in
callbacks. Reading mie, the claim and the threshold in `ExtClaim` is one step: the
core's own interrupts are off there. The callback tables of `plic.c` and `clint.c`
are left out.

### Timer

`raw` is the interrupt status of the device, `running` the enabled and unmasked
channels, `line` which handler `plic_instance` holds for each of the two lines. `Snapshot`
reads the status once, `Deliver` and `Eoi` serve one channel each, `Return`
completes. `IsrDeliver` and `IsrEoi` are `timer_isr`, the handler behind the older
`timer_set_irq`. Driver calls are made outside the handlers. `Keep` names channels
whose callback stays registered, `Allow` what clients may do beyond what the
repository's own client does: `"mixed"` puts both interfaces on one device,
`"overrun"` lets a channel expire again before its end of interrupt. Both lines have
one priority.

### UmmMalloc and UmmHeap

Memory is a function from cells to what lies there: the header of a block (next,
previous and the free mark) and the cells of its body, which hold either the two
links of the free list or a client's data. The helpers (`umm_split_block`,
`umm_disconnect_from_free_list`, `umm_assimilate_up`, `umm_assimilate_down`) map memory to
memory as the code does, one link at a time; block counts are cut to an unsigned short
(`UShort`). A call is one step: nothing interrupts the allocator. Clients fill what they get with a
tag (`live`), so that a link written into it, or a `memmove` of too little, shows.
`umm_realloc` keeps the order of its last branch: allocate, copy, free. `UmmHeap`
knows runs of blocks only: which run a request gets, and when it may be refused.

### Image, WindowFilter, LineOps, FloodFill, Blobs, Imlib

A behaviour is one call. `Imlib!Init` chooses the function, its arguments, the image and
the mask; the call then runs to its return. Steps are the points where shared state
changes: a row computed and a row copied back (`FilterRow`), the remaining lines
(`CopyRemaining`), a line of a pixel operation (`OperateLine`), a line of a fill set, pushed
or popped (`FillLine`, `FillRecurse`, `FillPop`), a blob kept, a round of merging.

A pixel is one channel. Binary, grey and RGB565 versions of a function are copies of one
loop over different pixel macros. The kernels of `filter.c` and the pixel operations treat
the fields of RGB565 alike and apart, so one definition stands for the three versions.
Where the fields decide together (the threshold mode of `filter.c` compares
`COLOR_RGB565_TO_Y`, line 271; erode and dilate test `COLOR_RGB565_TO_BINARY`,
`binary.c:736`; fills and blobs compare whole colours), the definition stands for the binary
and the grey version only. In the map, definitions of what all filters share
(`FilterRow`, `RingRow`, `Window`, ...) name the grey version of `imlib_mean_filter`, and each
kernel names the whole function it belongs to. Of the files of `imlib_image_operation`
only BMP files of the image's own size and format are modelled, and no error in reading them.
Real parameters are exact fractions instead of
single floats; a sort is its result; tables of weights are tables of integers. Left
out: the rotation of a blob, the clamping of its rectangle to 16 bits, the threshold
and merge callbacks of Python, the mask of the cartoon filter. The ring is 0 at first (it is uninitialised in
the code and always written before it is read when the image is at least `ksize` rows
high).

### Camera, FaceDetect, RegionLayer, Vision

The camera interrupt has priority 2, the timer's and the two of the face detector 1, and
`Preempts` is the rule `Interrupts` establishes. `dvp_lcd_show` is one action per
access to shared state, since the camera interrupt may come between any two; the other
handlers cannot be interrupted by anything they share state with and are single
steps. `enabled` is shared: the display's init empties it. `CameraStart` waits until an
expired timer's interrupt has been served, since `ov5640_init` takes 800 ms and the
timer 100 ns.

`FaceDetect` follows `machine_ai_process_image` between its two polling loops, with DMA
channel and accelerator as concurrent devices marked external. An image is the scene
the network sees in it: a probability per box and class. Geometry is the relation
`Overlap`. `qsort` may order equal probabilities in any way, so `do_nms_sort` is the set
of its outcomes. The array `output` of `region_layer.c:319` holds 2100 floats, enough for
one class per box, and the class count comes from the flash unchecked: with more
(`~OutputFits`) other variables are overwritten, and the objects found are any (`AnyObjects`).
The interrupt for the remaining layers comes when at most one layer is left in the fifo
(`fifo_threshold` 0x10 is an empty threshold of 1 by the fields of `kpu.h`) and its status
is not cleared before `ai_cal_start` unmasks it, so it may come at once
(`AlmostEmpty`, `ai_irq`). What the accelerator does with a layer written to a
full fifo is not in the repository; it is taken to drop it (`LastTaken`). Drawing of labels,
which differs for networks of more than one class, changes nothing here. Programs call
`process_image` only after an init that found a model (`Initialised`); the code does not
look. A failing `ai_init` stands for "no model on the flash" and keeps the old
network; running out of memory in the middle of `ai_param_init` is left out, as is a
second detector object.

## 3. Runs

| Run | Expect | What it shows |
|---|---|---|
| `corelock` | pass | three cores using `corelock_trylock`, nesting 2, core 2 also unlocking without holding; or two cores contending once through `corelock_lock`, waiting path included: exclusion, true fields, only the stray core exits, refinement of `RecursiveLock`; the contended calls return |
| `corelock_lock` | violation | the second unlock of a `corelock_lock` that waited lets two cores hold the lock |
| `fballoc` | pass | a 72-byte buffer, frames of 0, 13, 24 and 56 bytes, requests of 0, 8 and 20 bytes, up to four blocks, exceptions: headers describe the stack, marks, frame, available memory, balance, and the loops end, but for `fb_free_all` over an overwritten header |
| `flash` | pass | SPIFFS, raw clients and power loss on one block, callers that poll: read-back, containment of power loss, erase only when needed, termination |
| `spiffs_erase` | violation | without polling, all erases of a logical block but the first are ignored |
| `interrupts` | pass | two sources, two priorities, timer and IPIs, all nestings on core 0, IPIs from core 1: nesting by priority, bounded stack, restored registers, gateways, no lost IPI, service of the foremost source |
| `timer` | pass | channels 0, 1, 2 with 2 always registered: no tick dropped or made up, all delivered |
| `timer_unregister` | violation | of channels 2 and 3, both registered, one is unregistered: it takes line B from the other |
| `umm` | pass | a heap of seven blocks (and one too small to start), up to three allocations: sound chain and free list, data kept, refinement of `UmmHeap` (best fit, refusal only when nothing fits) |
| `imlib` | pass | every picture of a few pixels under each function: results equal their definition on the image passed in, and every call returns |
| `vision` | pass | camera, display and detector started, stopped and used in every order: drawn buffers were filled, layers come once and in order, labels are those of the image before, both waits end unless their interrupt is switched off or layers were lost |
| `vision_wait` | violation | the wait that the comments call "ai cal completed" is over when the computation has only started, so the previous result is evaluated |

The violations are disagreements between the code and its own comments or
documentation; `PROJECT.json` quotes the lines.

Bounds. Three cores are one more than the chip has; depth 2 reaches nested
acquisition and both branches of the release. `MCCoreLock` runs two uses of the lock in
one instance: the clients of the constants, which acquire without end, and cores of which all
but `Spent` call `corelock_lock` once; in the former nothing is counted (`calls`), which tells
the two apart, and `CallsReturn` is stated for counted calls since the spinlock is
unfair. With `MaxCalls = 2` the fault of
`corelock_lock` needs a waiting core, an owner and a second attempt, which two
cores have. Four blocks hold a left-behind mark and region below a new mark and
region; 13 bytes is a frame that ends inside a word, 56 leaves exactly two headers.
The flash has two sectors, each also a half block, of two pages of two one-bit
bytes: writes inside a page, across pages and across sectors, needing an erase or
not, exist, and `LogErases = 2` is the least number of erases that can collide.
`MaxDepth = 8` frames lies above the bound that `StackBounded` states (4), so the
bound is checked and not assumed. Two sources of two priorities show equal, lower and
higher nesting.
A umm heap offered 200 bytes is capped at seven blocks (`MaxBlocks`), of which five can be
handed out; one offered 100 bytes has fewer than `MinBlocks` and raises. 16 bytes are
one block and 44 three; `calloc` asks for twice that, two and four. So blocks are split, merged with either neighbour and with both. The view of that run leaves out `out`,
the last call's outcome, which is read only on the step that writes it. The pictures
have up to 12 pixels of the values 0 to 3, windows of radius 0 to 2 with heights from the
radius up, so that rows leave the ring during the loop and after it; file windows of 2 to 4
lines, more and fewer than the image; stacks of one line and of one per pixel. Vision
has four boxes, of which the second overlaps the first and the third, one class (`NOutput` = 24 floats are
what four boxes with one class take, as 2100 are for the code's 350), room for
two objects, and networks of 3 and 4 layers fed two at first (`FirstLayers` = 2 for 12),
one below and one above the limit at which the second interrupt is used. The fifo holds
three layers (`FifoLayers`), the least that `ai_cal_start` needs, so a second part that
comes at once overflows it.

Fairness. `CoreLock`: a core keeps executing and `printk` reaches its unlock (weak
fairness); a spinning core repeats a swap that fails, which is a stutter. `FbAlloc`:
the loops are straight-line code of one core. `W25qxx`: the chip finishes what it
accepted and the driver's code runs on. `Interrupts`: handlers run on and callbacks
return; nothing is assumed of devices. `Timer`: strong fairness of taking a pending
line, because driver calls, which run with the handler excluded, may come in between
again and again but an enabled pending interrupt is taken between two of them; weak
fairness of the handler's steps. `Imlib`: a call is sequential code. `Vision`: devices
finish what they began and the sensor keeps sending frames (weak); the two detector
interrupts are taken when the display handler, which has their priority, returns, even if
it comes again and again (strong); the program gets on between interrupts (strong): the
timer of the display needs 100 ns after each camera interrupt, in which core 0 executes the
program. With weak fairness of the program `ProcessEnds` is refuted: the display loop may
be there whenever the program is looked at. Deadlock is checked except where the system
may stop: the two runs with `corelock_lock` (a bounded number of calls), `imlib` (the call has returned) and
`vision` (the polling loops hang once their interrupt is switched off, which the exceptions of
`ShowEnds` and `ProcessEnds` name, and on a layer that was lost).

Model constants beyond the listed runs exhibit hazards the repository's own clients
do not meet: `Shared = "yes"` with both cores enabling a source refutes
`NestingByPriority` (a claim that returns 0 sets threshold 0); `"timer_stop"` in
`CallbackApi` refutes `RegistersRestored`; `"irq_disable"` in `CallbackApi` refutes
`GatewayReopens`; `"mixed"` or `"overrun"` in `Allow` refutes `TickKept`;
`Polls = "never"` refutes `ReadBack`; `"exhausted"` in `Api` refutes `HeadersAtLeastWord`
(`fb_alloc_all` with less than a header left writes a wrapped header, against the comment
in `fb_alloc.c` that the value is 8 or more); a binary frame in `Frames` refutes
`RegionsOffFrame` (its size is counted in words where bytes are meant); a request of
1572833 bytes in `Sizes` refutes `HeapWellFormed`; an `NOutput` below what the
boxes and classes take refutes `LabelsOfPreviousImage`; a flipped file of three lines read two
at a time, a mirrored `replace` under a mask (which is looked up in the mirrored column) or
a mirrored or flipped one from the image itself refutes `LineOpsExact`. Without
its exceptions `ShowEnds` is refuted by switching the camera off between its interrupt and
the timer's, and `LoopsEnd` by a frame that grows over the header of a block an exception left
behind before `fb_free_all`. That the buffer being drawn is never written is not claimed: a frame that
ends between clearing the flag and flipping `g_ram_mux`, or a draw longer than a frame,
breaks it.

## 4. Proofs

`CoreLockProofs` assumes only the constants' assumptions and
`Api \subseteq {"trylock"}`, since with `corelock_lock` exclusion is false. The
inductive invariant `IInv` has four parts beside types. `SpinInv`: at most one core
is inside the spinlock, and then the word is taken. `TrylockOnly`: no core is on the
waiting path. `OwnerInv`: `core` names whoever holds the lock and `count` is its
depth, plus one while a release is on its way or a grant about to return (`Pending`);
exclusion alone is not inductive because it says nothing of these windows. `RegInv`:
a register value is still the value of `count` where it is used. From it follow
`TypeCorrect`, `Exclusion`, `FieldsTellTheTruth` and `Refinement`: every step maps to an
acquisition, a release or a stutter of `RecursiveLock` under `hold <- depth`.
`HolderIsNotExpelled` needs one more part, `ExpelInv`: a core that is on its way into
the test of `corelock_unlock` still owns the lock, or unlocks without holding it.

`FbAllocProofs` holds for every buffer size divisible by 8, every set of frames and
request sizes, as long as no client calls `fb_alloc_all` with less than a header left
(`"exhausted" \notin Api`). `IInv`: blocks are whole words, each below the older
ones, down to the pointer (`OrderInv`); the running operation's headers equal its
block lengths, lead to the block before, are at least a word, exactly a word for
marks, and lie above the frame (`LiveInv`); an operation starts with a mark and an
idle allocator has only left-behind blocks (`PhaseInv`). Blocks that an exception
left behind may be overwritten by a later frame, which is why `LiveInv` speaks of the
running operation only; of all blocks `StackedInv` says that they lie one on the other and that
a header is intact or overwritten, which `fb_free_all` needs. Proved: `TypeCorrect`, `Tiling`, `Marks`, `OffFrame` (without
binary frames), `Avail`, and the action property `Balance`.

`InterruptsProofs` holds for any set of cores, sources and priorities. The four state
properties assume that no source is enabled on two cores (`Shared = "no"`) and that
callbacks make no driver call but `clint_ipi_send`; without either they are false
(section 3). `InterruptsIInv` describes a core's stack of frames. `Shape`: from the
bottom a software interrupt, a timer interrupt, external ones, and only the innermost
frame has interrupts off. `MieInv`: every frame that has saved `mie` holds what the
frames below it left enabled, so the restores give it back in any order of traps.
`LevelInv`: serving frames raise the threshold strictly and from zero, and a frame's
height is at most the priority it serves plus two. `MeipInv`: between a trap and its
claim nothing takes the request away, so no claim comes back empty; this is what fails
with a shared source. `GateInv`: a gateway is closed exactly while one frame runs its
callback, on a core that has the source enabled. `RegistersRestored` and
`NestingByPriority` speak of the bottom of the stack and of neighbours; neither is kept by a
step without the masks saved in between. `StackIsBounded` follows from `LevelInv`
and not from `MaxDepth`, which only bounds TLC. `IpisAreNotLost` and `InterruptsTyped`
need no condition on callbacks or sharing.

`TimerProofs` holds for any set of channels and clients within `Allow = {}`. `TimerIInv`
says that the two interfaces are not mixed (`Unmixed`) and that the status register and the
expiries not yet delivered differ exactly by the channel whose callback has run and whose
end of interrupt has not been read (`StatusInv`). `TicksAreKept` and `TicksAreReal` follow.
`CallbacksReachable` also assumes `KeepCoversPairs`, that whenever a channel may be
unregistered while the other of its pair is in use, the other pair has a channel that stays
registered: this is the condition under which the test in `timer_irq_unregister` is
right. `timer_unregister` shows with `LineSurvives`, which states of one unregistration what
`RegisteredReachable` states of the lines, that it is not right without.

`SpiffsPortProofs` holds for any page, sector and block sizes, any writes inside the
chip, any entry points and any power losses, for callers that make sure the chip is idle
(`Polls = "always"`). `FlashIInv` follows a call through its loop. Between calls the
chip holds, or will once it is done, what was asked for (`Between`). During
`w25qxx_write_data` all but the rest of the data and the sector at hand is as asked for
(`Writing`); the buffer holds the sector as it is to be (`Merged`); programmed pages
are right and the others can still be programmed to be right, since they have every bit
set that they need (`ProgrammedTo`). `Directing` is the same for
`w25qxx_write_data_direct`. `QuadTaken`: in quad mode the chip accepts quad commands.
`OthersKept` bounds what an operation in progress can still change, which is what a power loss
needs. `ReadsBack`, `PowerLossIsContained` and `ErasesSetBits` follow.

`UmmMallocProofs` holds for heaps of any size between `MinBlocks` and `MaxBlocks`
(128 and 32768 in the code), any requests and any number of allocations, as long as no
request has so many blocks that `unsigned short` cuts the count (`ModestRequests`: up to 1572832
bytes, or half of that for the `calloc` of two items; the hazard at `umm_malloc.c:138`).
`HeapWellFormed` is not inductive: it follows the links of one memory from its two ends, and
a step changes several of them. `HeapIInv` names the set `C` of blocks that a header
describes and the set `F` of the free ones instead. `Chained`: the headers lead from each
block of `C` to the next and back and no block of `C` lies between. `Linked`: the free list is a
ring over `F` and block 0, in both directions, and every set of free blocks is entered from
outside, so there is no second ring that the head does not reach. `Apart`: no two free
blocks lie side by side. `Owned` and `DataKept`: each other block is a client's, large
enough, with its data. Cells that hold links and cells of clients are disjoint
(`DataApart`), which is why neither side writes over the other's. The proof treats a memory
as four functions of links; each helper of the code is shown to change them in one
place (`DisconnectWrites`, `SplitWrites`, `TakeInWrites`, `AssimilateDownWrites`,
`ReplaceWrites`, `AddWrites`), then to keep chain and ring (`Cut`, `CutFree`, `TookUp`,
`TookDown`, `Added`, `Freed`), and the calls to keep what other clients own and wrote
(`MallocDone`, `FreeDone`, `ReallocDone`, all six branches of `umm_realloc`). The scan of
`umm_malloc` sees every free block (`FreeListCovers`) and takes a best fit
(`BestBlockFound`). `WellFormed` and `DataSafe` follow. `Refinement` needs besides that the
blocks tile the heap (`Tiled`), so that the free blocks are exactly the gaps between
allocations that cannot be extended (`FreeIsGap`, `GapIsFree`), and that a reallocation that is
refused would fit nowhere even if its own block were free (`NoRoomAround`).

`VisionProofs` assumes the constants' assumptions only (at least one layer; scenes give
probabilities to boxes and classes; a fifo with room for the first layers), and for the labels
that the output fits (`OutputFits`). `CameraIInv`: the buffer `dvp_lcd_show` will draw
has been filled (`ToDraw`) because the camera fills `g_ram_mux` or that buffer has been
filled already, and the other one once there is a frame to take (`ToFill`); after a
restart the interface is reset and its interrupt off until `CameraStart`. `PipeIInv` has four
phases of the detector (`Resting`, `Sending`, `Computing`, `Arrived`), each fixing where
image, layers, result and DMA channel are; `LayersInOrder` alone says nothing of the result
on its way or of the masked interrupt. `Labelled` ties the objects drawn to the image
before. `LabelsArePrevious` states, under the condition `OutputFits`, that these are a right
answer: one class with the code's boxes and array, as many as the array has room for
in general. It combines `Labelled` with `AnswersAreRight`, which concerns the loops alone:
for every scene, boxes, classes, symmetric overlap relation and order of equal
probabilities, they report boxes above the threshold without
overlaps, leaving none out but for one as probable that overlaps it, each once and with its
most probable class.

`ImlibProofs` holds for images of any size, any masks, kernels and jobs that satisfy
`JobsAssumption` (rectangular images, a second image of the same size).
`FiltersAreExact` assumes `TallEnough`, an image at least `ksize` rows high; for lower ones
the copy of the remaining lines in `filter.c` starts above the image. `FilterIInv`: the
passes still to do are the last ones of the call (`PassInv`); the rows more than
`ksize` above the one at hand have been replaced and the others are those of the pass
before (`RowsInv`), so no window sees a filtered row; the ring has the rows in between
(`RingInv`), in places of their own because they are less than `ksize + 1` apart.
`LinesAreExact` assumes `PlainSources`, which excepts the three cases of section 3 that
refute `LineOpsExact`: a flipped file whose windows do not divide its height, a mirrored
`replace` under a mask, and a mirrored or flipped one from the image itself. `LineIInv`: the
lines written have their result and the others are the caller's (`LinesInv`), the window
has the lines still to come from it (`WindowInv`); the order of a flipped file's
lines is its own inverse, so each line is written exactly once.

Loops over data are recursive functions whose values the provers cannot
find by themselves. Two lemmas give what is needed: `IteratedFunction`, that a function
with the values a loop computes exists, and `InductionUpTo`, an induction over the
numbers up to a bound for a set (not an operator), proved from the least
counterexample. So the loops of suppression, of the object list, of the passes of a filter, of the pixels
of a replaced line and of the walks along the free list and the headers are proved; folds and
`RECURSIVE` operators are not. Such lemmas about numbers and sequences stand at the head of
each proof module that uses them.

All inductive invariants were checked with TLC, as invariants of the instances of section 3,
before they were proved.

Only model-checked: liveness (`CallsReturn`, `LoopsEnd`, `WritesReturn`,
`HighestServed`, `TickDelivered`, `OperationsEnd`, `ShowEnds`, `ProcessEnds`), which TLAPS
cannot prove under fairness; and `FillExact` and `BlobsExact` of the image library, which
rest on reachability by paths of any length and on folds.

## 5. Not modelled

Third-party code (MicroPython, SPIFFS above its hardware layer, FatFs, CMSIS, printf, and
the detectors and codecs ported into `OMV/img`: apriltag, zbar, dmtx, quirc, lsd, haar,
lbp, fast, orb, jpeg, gif), which with the lookup tables makes up most of the
repository's lines; image statistics, transforms and drawing, which read one image and write
another in one pass; register-level drivers without state shared between actors. Code
without a caller in the firmware: `semaphore_t`, `register_core1`, `kpu_run`, the DMA
transfers of `uart.c`, the ZMODEM receiver (its input is stubbed out). In the modelled
files: `fb_update_jpeg_buffer`, the DMA variants of the flash driver, intervals and clock
dividers of the timers, the callback tables of the interrupt drivers, driver calls
made inside timer callbacks, `get_image` of the camera (it waits for a flag that only
code under `#if 0` sets), and what section 2 names as left out.

## 6. Plan

1. Timer: driver calls inside callbacks.
2. Burner: receive interrupt against main loop, on top of `W25qxx`.
