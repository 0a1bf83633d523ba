# Specifications of the Inboard 386/PC driver set

TLA+ models of the Windows 95 drivers in this repository, checked with TLC and,
where noted, proved with TLAPS.

The repository makes Windows 95 run on an IBM 5160 with an Intel Inboard 386/PC.
Its own code is a set of ring-0 drivers in assembly and C, each a small
concurrent program between interfaces it does not control: the pager, IFSMGR,
SCSIPORT, a drive, a card. The 86Box tree is a vendored snapshot.

## Inventory

| Component | State | Operations | What is hard | What makes it correct |
|---|---|---|---|---|
| SWAPCOMP.VXD (`drivers/swapcomp`) | `SlotTab`, one bounce buffer and descriptor, the in-flight flags, a semaphore | hook of `PageFile_Read_Or_Write`, hook of `IFSMgr_Ring0_FileIO`, initialisation | several paging threads; other components' I/O in the middle; writes torn by a failure; I/O that avoids the hook | a read returns what was last written; failures have a cause; only the bounce buffer's I/O is shortened |
| its LZ4 codec | hash table, bounce buffer | compress, decompress | overlapping copies, end margins | round trip |
| XTIDE.MPD (`drivers/xtide_mpd`) | `dxSrb`, `dxWakes`, the transport's globals | `XtStartIo`, `XtTimer`, `XtResetBus`; probe and configuration | no interrupt; a write left committing; reset against a late timer call; a drive that hangs; two units of different size | each SRB completed once and always; success means durable, in the right place |
| SHADRAM.VXD (`drivers/shadowram`) | status, kept/candidate/passed page masks, port 670h, NMI | staged initialisation; mapping of F0000 in each VM | every stage may fail after hardware was changed; aliased, absent or bad RAM; INBRDPC rewriting the port later | VMs keep their BIOS; only tested RAM of its own is given to the VMM; parity never strikes |
| NMIWATCH.VXD | counters, latch | timer poll | latch against NMI | not modelled yet |
| Mach8 frame buffer (`drivers/mach8_display`, `fb16.c`) | the frame buffer in RAM, the list of dirty rectangles, a fingerprint for each 32-pixel piece of the card | access calls that nest, lines, scanline lists, screen copies, mode changes; DOS sessions that take the card | fingerprints that outlive what they speak for; lists that overflow; DOS in the middle of a flush | at rest the card shows what was drawn |
| DirectDraw and Direct3D (`m8dd32.c`, part of `m8d3d.c`) | two buffers with descriptions and recorded triangles, what the card shows, a batch of calls, two pages | Blt, Lock, Unlock, Flip, contexts, creation | what is drawn late and what is skipped; GDI between two calls; the beam | what is drawn hidden is unseen, and shown by Flip; what is drawn shown is on the screen |
| the rest of the display driver | engine state, palettes, fonts, DDI tables | text, brushes, the 16-colour modes, Direct3D's arithmetic | engine FIFO, exactness | not modelled |
| LS120MP.MPD | as XTIDE.MPD, over a parallel-port bridge | SRB dispatch, ATAPI packets | as XTIDE.MPD | not modelled yet |
| Inboard device of the emulator | port 670h, shadow and window mapping | port writes, remapping | agreement with the real card | not modelled yet |
| VKD, SWAPCNT, tools, packaged drivers | - | - | third-party, counters only, or offline | not modelled |

The drivers do not call each other, but for the display driver's two halves:
DDRAW's 32-bit one (`m8dd32.c`) queues work for the 16-bit one (`fb16.c`), and
GDI calls the latter. SWAPCOMP's pages reach the disk through
PAGEFILE and IFSMGR and, on this machine, XTIDE.MPD; SHADRAM changes port 670h,
which INBRDPC.SYS also writes. These neighbours are external in each module.
`PROJECT.json` lists every component, and each hazard with its source line.

## Modules

| Module | Models | Extends |
|---|---|---|
| `SwapStore` | what the pager is promised: a map from file pages to contents | - |
| `SwapComp` | SWAPCOMP.ASM | instance of `SwapStore` |
| `MCSwapComp` | TLC instances | `SwapComp` |
| `SwapCompProofs` | theorems | `SwapComp`, `TLAPS` |
| `XtIde` | XTIDEMP.ASM with the transfer half of XTIDETR.ASM | - |
| `MCXtIde` | TLC instances | `XtIde` |
| `XtIdeProofs` | theorems: the SRB protocol, the sectors | `XtIde`, `TLAPS` |
| `ShadRam` | SHADRAM.ASM | - |
| `MCShadRam` | TLC instance | `ShadRam` |
| `ShadRamProofs` | theorems | `ShadRam`, `TLAPS` |
| `Fb16Card` | what the 16-bit half puts on the card, and its fingerprints | - |
| `Fb16` | fb16.c: GDI's calls | `Fb16Card` |
| `MCFb16` | TLC instance | `Fb16` |
| `Fb16CardProofs` | lemmas: sends, fills and copies; sets and sequences of numbers | `Fb16Card`, `TLAPS` |
| `Fb16Proofs` | theorems | `Fb16`, `Fb16CardProofs` |
| `DdBuffers` | what DirectDraw promises of a flipping pair | - |
| `Dd16` | m8dd32.c at 16 bpp: contents of buffers, card and pages | `Fb16Card`, instance of `DdBuffers` |
| `MCDd16` | TLC instances | `Dd16` |
| `Folding` | lemmas: what a fold over a sequence computes | - |
| `Dd16Proofs` | theorems | `Dd16`, `Fb16CardProofs`, instances of `Folding` |
| `DdPages` | m8dd32.c: when the two pages are drawn on and shown | - |
| `MCDdPages` | TLC instances | `DdPages` |
| `DdPagesProofs` | theorems | `DdPages`, `TLAPS` |

Operators named "Mutant of ..." are not part of a model. Each is a definition
with a plausible bug; `PROJECT.json` pairs it with the property it violates.

### SwapComp

Variables keep the names of SWAPCOMP.ASM; `SlotTab[p]` is a page's sectors in
its slot, 0 for uncompressed and `SC_ZERO_SLOT` for a page of zeros. Control is
`pc[t]`, with the page loop's counter in `idx` (one, because the semaphore
allows one thread in the loop).

| Action | Code |
|---|---|
| `CreateSemaphore`, `HookIfs`, `HookPager` | `SwapComp_Device_Init`; a failure skips the rest |
| `Enter`, `Acquire`, `NextPage`, `Leave` | `SwapComp_Hook` |
| `ReadRaw` ... `WriteComp` (`SC_One`) | `SC_One` up to its PAGEFILE call |
| `FileIO`, `SC_IFS_Hook`, `OtherFileIO` | `SC_IFS_Hook` and who passes through it |
| `PageFileRefuses`, `MoveSectors` | PAGEFILE, IFSMGR and the disk (external) |
| `TransferFails`, `Decompress`, `CompWritten`, `NotSeen`, `Passed` | the rest of `SC_Transfer` and `SC_One` |

A PAGEFILE call is three steps, and other threads and `OtherFileIO` run between
them. A transfer may fail after any number of sectors. It may also avoid the
hook; the code has a path for that (`sco_not_seen`), so the model lets it
happen at any transfer. Contents are model values. A sector holds part *i* of a
page, raw or compressed, so a slot with parts of two writes is not a page. What
LZ4 makes of a page is `LzSectors`; decompressing anything but a whole block
gives an error or any page, since LZ4 has no checksum.

Assumed: PAGEFILE asks for one whole page, and only with the buffer it was
given; it does not fault on swapped memory while it works. A request names at
least one page (with none, the code falls through to `sch_done`).

### XtIde

The released build (`XT_YIELD_COMMIT`, last line of `build_ledger.tsv`).
`XtStartIo` is cut where it waits for the drive; the drive and the timer
interrupt act there. `srb` is what the latest transfer asks for. The drive
(external) raises DRQ, commits cached sectors in any order, finishes, fails with
ERR, or does nothing for ever. Contents of a sector name the address they were
meant for, so misplacement shows.

| Action | Code |
|---|---|
| `XtStartIo` | dispatch, selection, bounds, up to `XTIDE_XferRun` |
| `ProgramTaskfile`, `ReadData`, `WriteData`, `NoDrq` | `XTIDE_ProgramTaskfile`, `XTIDE_WaitDrq`, the sector loops |
| `Committed`, `StillCommitting` | end of `XTIDE_WriteSectors`, synchronous or deferred |
| `EndChunk`, `Chunk`, `Advance` | `XTIDE_XferRun`'s loop |
| `Yield`, `XtTimer`, `LateTimer` | `xsi_yield`, `XtTimer` with `XTIDE_CommitPoll` |
| `XtResetBus` | the same |

Assumed of SCSIPORT: it sends one SRB at a time and does not call `XtResetBus`
inside `XtStartIo`. It is not assumed that cancelling a timer call is in time
(`late`). A poll loop that runs out is the same as one that ends early: a wait
may give up at any moment the drive is not ready. Transfer widths (PIO8, word,
latch), CDB decoding and the byte layout of the taskfile are left out; `Reach`
is how many sectors an address tells apart before it wraps.

### ShadRam

`ShadRam_Sys_Init` runs once with interrupts off and is cut at its numbered
stages. The card (`decode`, `opens`), the BIOS (`diffs`, `filler`, `basic`) and
INBRDPC's state are chosen in `Init`, so TLC runs the initialisation on every
small card and BIOS. `ram` holds what a page holds. Afterwards VMs are created
(`Map_VM`), floppy calls rewrite the port from `[02BF]` (`Int13`), and the VMM
uses the pages it was given (`UsePage`).

Assumed: the two halves of the block are distinct RAM (pages of the idle half
may alias each other or be absent). A page that aliased a kept page of the copy
could not be noticed by the driver's tests. V86 mappings before `Sys_VM_Init`
are not modelled, nor what is in the video ROM.

### Fb16Card and Fb16

The screen is a few pixels in pieces of `SegW` (32 in the code). The card's
pixel `card.px[p]` is what `Shown` makes of a colour at `p`: itself if the card
has it (`Flat`), else a dither that repeats every `Dither` columns.
`card.fp[s]` is the fingerprint of a piece: the pixels it was taken from, or
`NoFp`. That two contents never have one 32-bit hash is assumed, as in the code.
`Fb16Card` has what both modules use: a send by fingerprint (`SendRect`, which
widens to even columns, `Known`, `SendWhole`), fills, copies inside the card.

| Action | Code |
|---|---|
| `Begin`, `Draw`, `EndAccess`, `FlushOne` | `m8_fb16_begin`, the DIB Engine, `m8_fb16_end` and one turn of its loop; `Add` is the list's joining |
| `Polyline`, `Scanlines`, `CopyBits` | `m8_fb16_output`, `m8_fb16_bitblt` |
| `SwitchOut`, `SwitchIn`, `ReEnable` | DOS takes the card and gives it back; another mode |

`shared` is a history variable: a list was flushed that had two rectangles over
one piece. The properties exclude those times, because there the code does not
keep them (see below).

### DdBuffers and Dd16

`DdBuffers` is the promise: two contents, a front, a screen; drawing on the
hidden buffer changes no pixel of the screen, on the shown one it appears, Flip
exchanges them. `Dd16` implements it the way the driver does. `buf[k]` is a
buffer's RAM with its description (`M8DD_DESC`: a colour, rectangles that RAM
holds) and its triangles; `seen`, `drawn` and `box` are what the driver believes
of the card; `batch` waits for the 16-bit half, `sel` is the buffer that half
sends from; `page1` is the second page. `want[k]`, history, is what the program
drew, pixel by pixel; the refinement maps `DdBuffers`' contents to it, and its
screen to `Visible`.

| Action | Code |
|---|---|
| `BltFill`, `BltCopy`, `BltSelf`, `BltOwn` | `m8dd_blt16`: a fill, a copy from memory or the other buffer, within a buffer, or left to DDRAW |
| `Lock`, `WriteLocked`, `Unlock` | `m8dd_lock16`, the program, `m8dd_unlock16` |
| `Record`, `ContextCreate`, `ContextEnd` | `m8d3d_record`, `m8d3d_scratch`, `m8d3d_scratch_free` |
| `Flip` (`FlipFast`, `FlipSlow`, `PageFrame`, `OneFrame`) | `m8dd_flip16`, `m8dd_flip16_fast`, `m8dd_page_frame` |
| `Gdi`, `Create16`, `Destroy16` | `m8_fb16_begin` to `m8_fb16_end`, `m8dd_create16`, `m8dd_destroy16` |

`lapse`, history, is set where the code gives no promise until the next Flip, and
`direct` says who touched the shown buffer. `Gdi` draws in buffer 0's RAM, and
what it drew goes to the card only while buffer 0 is the one selected:
`m8_fb16_end` drops its list otherwise (fb16.c:799), polylines apart, whose
strips are sent from whichever buffer is selected (:1072-1082); `GdiSends` is
that condition. Its scanlines and copies (:1062, :1115) have the same guard and
belong to `Fb16`. What is selected is not always what is shown: after a fast
Flip to buffer 0 its selection waits in the batch, and what GDI then draws is
dropped though buffer 0 is on the screen, where the comment (:796) says it "is
not visible". `lapse` is set for that. A triangle is a set of pixels in a box;
the code's RAM and engine versions may differ by a pixel at an edge, and this
does not enter. The engine is there while a context lives. With two pages
(`PagesFit`) a frame is drawn on the hidden one, else over the last one. With
`EngineFails` the engine may give up at any rectangle or triangle. On two pages
the driver then forgets what the card shows (`PageLost`, `PageUncleared`), and
the next Flip goes the slow way; on one it notes the frame as shown all the
same, and `lapse` marks it.

### DdPages

The same pages, in time: ticks of a beam that crosses a frame, the vertical
blank at its start, `CRT_OFFSET` taken by the card once a frame, the latch that
a blank sets and that Flip's thread acknowledges and polls, the 32-bit clock and
the count that end a wait otherwise, and GDI's thread, which shows page 0
whenever it draws. Each read or write of the card and of `m8_fb16_stat`, which
both threads use, is a step (`Wait` to `Count` for `m8dd_page_wait`, `SetFlag`
and `SetOffset` for `m8dd_page_show`); any number of ticks may pass between two.
`latches` is chosen in `Init`: a card whose latch works, or never sets.

Assumed: the order of the constants that `TimeAssumption` states (a time-out
and a count over a frame, a clock that wraps later), which the code's comments
give. `m8dd_spin` takes a tick at least. The frame is drawn in one step, so
`DrawnUnseen` is about the moment the drawing starts; while it lasts Flip's
thread writes nothing to the card.

## Runs

| Run | Bounds | Shows |
|---|---|---|
| `swap_sizes` | 1 thread, 1 page of 3 sectors, four contents: zero, one sector, two, incompressible | refinement of `SwapStore` with each path of `SC_One` |
| `swap_pages` | 1 thread, 2 file pages, 1 of them covered, requests of up to 2 pages | the inductive invariant, reads, causes of failure |
| `swap_threads` | 2 threads, 1 page, with fairness | mutual exclusion, the fallback with others' I/O about, liveness |
| `xtide_chunks` | 1 unit of 3 sectors, requests of up to 3, chunks of 2, 2 wakes, 2 versions | completion, durability, order of chunks |
| `xtide_units` | master of 2 sectors, CHS-only slave of 1, 2 SRBs, 2 wakes, with fairness | bounds and placement; every SRB is answered |
| `shadram_init` | 3 pages per half: ordinary, BASIC, always kept; up to 1 patched dword in a page; INBRDPC caching | BIOS, donated pages, parity, NMI |
| `shadram_nocache` | 2 pages per half; NOCACHE too | the violation below |
| `fb16_screen` | 8 pixels in 2 pieces, a dithered and a flat colour, 3 rectangles for a list of 2, calls 3 deep, strips, spans, copies | what the card shows, when; fingerprints |
| `dd16_promise` | 6 pixels in 3 pieces; fills, copies and locks; frames of one of two triangles on one page; descriptions of one rectangle; no GDI, an engine that works | refinement of `DdBuffers`; what waits between calls |
| `dd16_shown` | 4 pixels; copies from memory, keyed too; triangles on both buffers, two pages, an engine that may give up, contexts that end; GDI at any moment between two calls | buffers hold what was drawn, the driver's beliefs about the card, Flip shows the buffer |
| `dd16_selected` | 4 pixels, fills and copies | a violation, below |
| `pages_beam` | a frame of 6 ticks, a blank of 2, time-out 7, count 6, clock of 9, with fairness | no frame under the beam, no lost flag unheard, every wait ends |

Why the bounds are enough. A page of SWAPCOMP interacts with others only
through the request's status, the bounce buffer and `SC_Disabled`; two pages
and two threads give every pair, three sectors every way to tear a block of
two. In XTIDE three sectors in chunks of two give a first chunk, a last one and
a sector inside a chunk; `Word` = 4 makes LBA + count carry. In ShadRam three
pages give one of each kind, and pairs that alias. In Fb16 two pieces, a list of
two and three rectangles give a list that overflows, and strips that lie across
pieces. In Dd16 three pieces are needed for two rectangles of a full
description to be joined over a gap; each program of `MCDd16` uses a part of the
interface (`program`), because their product is beyond TLC: what is not checked
is one program that locks, draws triangles and copies, nor GDI under triangles
(`FrontStays` has no such bound; `MCDd16_stray` is the one way it fails).
The program `frames` draws on the hidden buffer once it has flipped and records
one triangle a frame (`FramesOnly`). Two programs of `dd16_shown` draw triangles
on both buffers and more than a description holds, of one colour each: `ends`
fills the hidden buffer whole and ends its contexts, `whites` fills the hidden
buffer whole and the shown one in part. Boxes are aligned to
pieces and one lock is held at a time: otherwise the properties fail, see
below. In DdPages the write lands at every phase of a frame and the next look
comes at every age, the wrap of the clock included. `swap_*` and `shadram_*` do not
check deadlock: if `SwapComp_Device_Init` fails nothing of SWAPCOMP runs, and
SHADRAM has nothing left to do after its initialisation. The XTIDE runs do
check it. The display runs check it too. `xtide_chunks` uses
symmetry over versions and SRBs; the others, and every liveness property, none.

Fairness. `SwapComp`: the thread past the semaphore runs on and PAGEFILE
returns (weak fairness of `Serve(t)`), and signalling a free semaphore wakes some
waiter. Which waiter is the VMM's choice, so what is checked is that somebody is
served, not that everybody is. `XtIde`: the processor runs `XtStartIo`, whose
loops are bounded, and SCSIPORT delivers a requested timer call. Nothing is
assumed of the drive. `DdPages`: time passes, and the two threads run on when
they can; that GDI draws again, or a program flips again, is not assumed.

### Disagreements with the comments

SHADRAM.ASM:30-31 says that if the window does not open, "the bit and [02BF] are
put back". The code stores the constant 1 in both. That is the former state only
when INBRDPC shadows the BIOS. With its NOCACHE parameter it makes no copy and
leaves both clear: the driver reads RAM that was never written, with NMI still
enabled, finds no BIOS there, and sets ROMCACHE, so that F0000 is served from
that RAM. Run `shadram_nocache` shows the divergence from the comment;
`shadram_init` checks the other case, `Caching = {TRUE}`, and does not cover NOCACHE.

m8dd32.c:545-546 says "what Unlock and Blt change is sent to the card by the
driver". A fast Flip leaves the selection of the buffer it shows in the batch
(:1479-1480), and `m8dd_send` does not flush the batch: a Blt on the shown
buffer sends from the buffer selected before. Run `dd16_selected` shows it.

Modelling the display driver met more of this kind. They are not runs of the
project, but each is one `tlc` call on an instance kept here:

| Instance | Fails | The code against its comment |
|---|---|---|
| `MCFb16_strips` | `OneListShown` | fb16.c:10-11 "what they name goes to the card when the outermost call ends". Two rectangles of a list over one piece: the first takes the fingerprint of the whole piece from RAM (:421-438), and the second is skipped. |
| `MCDd16_stale` | `SentShown` | fb16.c:1282-1284: fingerprints the engine drew past "are dropped, or a later send would see RAM unchanged and leave those pixels". Only the next slow Flip drops them (`m8dd_fp_stale`, m8dd32.c:1541); a Blt on the shown buffer is such a send. |
| `MCDd16_record` | `TriangleShown` | m8dd32.c:1986-1988 "its RAM takes it, and the changed part is sent". The whole screen is sent, from a RAM that holds only the triangle's box of a described buffer. |
| `MCDd16_odd` | `FrontShown` | m8dd32.c:555-556 "outside them RAM holds the colour only once `filled`". A rectangle with an odd edge is widened (fb16.c:472-473), and the column beside it is sent from old RAM. |
| `MCDd16_piece` | `FrontShown` | fb16.c:50-55: a fingerprint is of what the card shows. One taken of a piece that a description covers in part is of old RAM; a later whole send skips the piece. |
| `MCDd16_unlocks` | `FrontShown` | m8dd32.c:545-546 again. Two locks of the shown surface: the first Unlock sends and forgets the other's rectangle, before it is written. |
| `MCDd16_under` | `Stand` | m8dd32.c:1986-1988 again. A triangle recorded on the shown buffer goes into RAM at once (:2001-2011); where an older one is still only described, the older is drawn over it when that reaches RAM. |
| `MCDd16_stray` | `FrontShown` | m8dd32.c:555-557 again: of a described and filled buffer 0, GDI's pixels are in RAM and not in the description. Flip shows the description and its triangles; a read then moves the triangles to RAM and their boxes into the description (:777), with GDI's pixels in them, which the card is not sent. |
| `MCDd16_left` | `NoneLeft` | m8dd32.c:1479 "The last frame's boxes are erased". After the 3D context has ended no engine erases them, though they are noted as erased (:1502). |
| `MCDdPages_cleared` | `ClearedUnseen` | m8dd32.c:1364-1366: until CRT_OFFSET is taken "the old page is on screen and must not be drawn on". A slow Flip drops the pending write, and a fast one in the same frame clears page 1 at once. |
| `MCDdPages_flag` | `FlagWhilePage1` | fb16.c:135-136 "M8DD32 sets it while page 1 is shown". GDI between the flag and CRT_OFFSET takes it down first; page 1 then stays until the next Flip. |

The properties of the passing runs are stated so that they hold beside these:
`shared` in `Fb16`, `lapse` and `direct` in `Dd16`, and aligned boxes.

## Proofs

All proofs hold for every value of the constants that satisfies the modules'
named assumptions (`SwapAssumption`, `RequestAssumption`, `XtAssumption`,
`ShadRamAssumption`, `CardAssumption`, `TimeAssumption` and the like).

`SwapCompProofs`
: `TypeCorrect` and `MutualExclusion`. The invariant is `Typed`: `TypeOK`,
  `ThreadsOK` (where the one thread in the loop is, and that the hooks were
  installed in order) and `BuffersOK` (a write's buffer holds real pages). It is
  needed because `TypeOK` alone does not keep `idx` inside the request, nor
  `SC_Sem` at 0 or 1.

: `NoPageLost`, `FailuresExplained`, `NeverDisabledByOrder` and `Refinement`, all
  from `SoundAlways`, that `Sound` is an invariant.
  `SlotsKept` says a promised page can be read back unless the write under way
  has begun it; `TransferSound` and `PassSound` say what each step of a PAGEFILE
  call has achieved, `PagesDone` carries it to the end of the request, and
  `FaultsSound` says where a failure leaves its mark. The refinement maps
  `Leave` to `Return`, `Enter` to `Call`, and the steps that fill a reader's buffer
  to `Scribble`.

`XtIdeProofs`
: `EverySrbOnce` and `TimerKeepsOff`, from `SrbInv`: an SRB in `dxSrb` is the
  one SCSIPORT waits for, and there is none while a transfer runs.

: `XtTyped`, `OnMedium`, `InPlace`, `ReadsFilled` and `WritesDurable`. `XInv` adds
  to `SrbInv` where the chunk at hand lies in the request (`Request`), that
  the driver's count and the drive's agree while a command is under way
  (`Sector`), and that a unit's sectors, written or still cached, are where
  they belong (`Homes`). The addresses wrap twice, at 2^32 and at the taskfile's
  reach; `RightPlace` says that a sector the drive has is then the one meant, or
  the one meant is past the end of a unit without bounds. `Read` and `Written`
  follow the sectors of the request moved so far. `WritesDurable` assumes
  `SmallRequests`: a request larger than a CHS-only unit could come round
  on its own first sectors (`NotTwice`). The driver asks for no request of more
  than 64 KB (`XT_MAX_XFER`), which no such disk is smaller than.

`ShadRamProofs`
: `ShadTyped`, and `OnlyOwnRamDonated` and `NoPageAfterParity`, from `DonationInv`. Its heart is
  `DistinctOnceVerified`: a page survives the check only if it reads back its
  own address, so two survivors cannot reach the same RAM; what was in it
  before does not matter. `WindowKept` carries the open window past floppy
  calls, because `[02BF]` was cleared with the port.

: `BiosKept` and `NmiHeldOff`, for `Caching = {TRUE}`, from `BiosInv`: the kept
  copies are intact (`KeptUnreached`: no page that is ever filled reaches one),
  no VM's page is mapped onto a copy that is not kept, and port 670h agrees
  with where F0000 was mapped. Without that hypothesis both are false; see the
  run `shadram_nocache` for the first.

`Fb16CardProofs`
: what one send, fill or copy does to the card, for both modules above it.
  `SendChangedFacts` is the heart: a send by fingerprint, of one rectangle over
  any pieces, leaves the rectangle shown, everything else as it was, and true
  fingerprints. `CardCopyFacts`: a copy by whole dither periods shows what
  RAM's copy does. At its end stand lemmas that know nothing of the card: induction
  over sets of naturals (`Induct`), least and greatest elements, sequences that
  list a set, and the longest run of a row around a pixel (`RunAround`).

`Fb16Proofs`
: every property of `fb16_screen`, and `ShowsUnhashed`: without memory for
  fingerprints what is drawn is shown, whatever the lists are (`OneListShown`).
  The invariant adds to the properties that a list is flushed only when no call
  is open, and that no two of its rectangles meet over a piece unless `shared`
  says so. `AddFacts`: whatever is joined, nothing named is lost.

`Folding`
: the recursions of `Dd16` (over rectangles, triangles, entries of the batch) are
  folds, and these lemmas say what a fold keeps (`FoldKeeps`), what two folds
  over one sequence have to do with each other, and that a fold has a trace of
  intermediate values (`FoldTrace`). The library's induction theorems
  take an operator as a parameter, which the provers cannot instantiate; here
  the operator folded is a constant that `INSTANCE` supplies, and induction over
  sets of naturals is a hypothesis of the lemmas (`Inductive`), which
  `Dd16Proofs` discharges once for all its instances (`Inductions`).

`Dd16Proofs`
: `BufferTypes` and `OnlySelectionWaits`, from `BufInv` (buffers), `CardInv`
  (card, batch, selection) and `BookInv` (the driver's notes).

: `StandUnlessUnder`: a buffer's RAM, description and triangles together stand
  for what the program drew, for any description size and number of triangles.
  The lemmas `ReadyFacts`, `DirtyFacts` and the like say what each call does to
  what a buffer stands for (`Meaning`), the joining of a full description's
  rectangles included. The hypothesis `[][~UnderTriangle]_vars`
  excludes the one step the code gets wrong, which `MCDd16_under` shows; every
  other step keeps `Stand` without it.

: `OutsideExact` and `BatchExact` are about the algorithms: the parts of
  `m8dd_fill_outside` cover exactly what lies outside a description, and a batch,
  however small and whenever it fills, reaches the card as its entries in order.

: `FingerprintsSpeak`, for rectangles of whole pieces
  (`Named(Aligned(SegW))`): the fingerprints are true of the card, unless
  `fpStale` notes that the engine drew past them. `In(G, b)` carries through
  each step that a description names only rectangles of a set `G` closed under
  unions and parts (`DescIn`, `HeldIn`); `FpInv` says that every piece's
  fingerprint is honest. While page 1 is used the engine has always drawn past
  them (`PagedInv`), so the send of a slow Flip that leaves the pages drops them.
  GDI keeps it in each case of fb16.c:799: what is sent takes its fingerprints
  with it, what is dropped leaves card and fingerprints alone. Without the
  hypothesis the theorem is false (`MCDd16_piece`).

: `SeenSpeaks`, for even rectangles (`Named(Aligned(2))`): while nobody else has
  drawn, the card is what the driver believes. `HeldInv` counts: no more
  rectangles are held for Unlock than the shown buffer has locks, so that at a
  Flip none is left. `SeenBooks` adds that what is believed belongs to a frame that
  nobody has drawn on since. The steps are Flip's: `SeenSlow` follows the whole
  batch of a slow Flip, entry by entry, to the last one that draws each pixel
  (`FlushedLeaves`); `SeenFast` the erasing of the boxes outside the new ones and
  the replay of triangles on either page. With odd rectangles it is
  false (`MCDd16_odd`).

: `FrontStays` is the display driver's promise: while no lapse excuses it and no
  lock is open, the screen is the shown buffer (`FrontShown`), with GDI drawing in
  buffer 0 at any moment between two calls, sent or dropped as the selection says,
  and an engine that may give up. The invariant `Frame` joins the ones above (`Sides`) and four
  more. `ShownInv` is the promise itself, kept under a lock too, outside its
  rectangle. `LockInv`: the rectangle held back is the one the program has
  locked; without it Unlock could send another. `DrawnInv`: while the note of
  what the card shows is believed, the screen is the triangles it names, on
  black; without it a fast Flip, which sends nothing, could leave pixels of
  another frame. `AloneInv`: without a pair nothing waits and page 0 shows. One
  lemma per call (`ShownFill` to `ShownDestroy`) shows that it sends what it
  changed: `DiffShows` for the rows and runs of `m8dd_diff_row`, `CopyShows` for
  the card's own copy. `ShownGdi` is GDI's: with buffer 1 shown and selected, what
  it draws reaches neither card nor promise (`Beside`); sent, it is shown as
  promised; dropped though buffer 0 is shown, it is a lapse. `ShownFlip` is Flip: outside its description a buffer's
  pixels are its colour because they were erased (`FlushedLeaves`), inside they
  are sent and sent last (`EntriesSplit`, `FlushedSends`), and the engine's
  triangles are those that RAM would take (`ReplayShows`).

: Its four hypotheses each exclude something the code gets wrong, and an instance
  of TLC shows that the theorem fails without it: one lock at a time
  (`MCDd16_unlocks`), whole pieces (`MCDd16_piece`), no triangle under one of
  another colour (`MCDd16_under`), and no read of the shown buffer that moves
  its triangles to RAM after GDI drew on it (`StrayTriangles`, `MCDd16_stray`).

: `BuffersKept` is the refinement: under the mapping of `Promise`, every step of
  `Dd16` is a step of `DdBuffers` or changes nothing it sees (`BuffersStep`,
  one case per call). A Blt or a triangle maps to a drawing on the hidden buffer
  or on the shown one (`DrawsOne`: no call draws on both), Flip to Flip,
  creation and destruction to theirs, and what only moves the driver's notes to
  a stutter (`NotedStep`). `Frame` gives what the screen is after the step; three
  small invariants complete it. `Calm`: outside its rectangles a filled buffer
  holds its colour in RAM, so that it stands for one image, with the colour or
  without (nothing has strayed in it), and without a 3D context no buffer has
  triangles. `DirectInv`: a lapse comes with something drawn on the shown buffer
  since the last Flip, so a Flip ends it. `DrawnNone`: without a context no
  triangles are noted as on the card.

: It assumes what `FrontStays` assumes of rectangles, locks and triangles, and
  that nothing interferes: GDI draws neither while the pair is live nor over a
  lock, no 3D context ends, and the engine does not give a frame up
  (`~EngineFails`). `DdBuffers` has no step for any of them. GDI changes buffer 0,
  shown or not, and what is on the screen (`MCDd16_gdi`, three states); a context that ends leaves pages and triangles
  behind (`MCDd16_ends`). `FrontStays` holds with all three, excusing what `lapse`
  marks; the two theorems together say what the
  driver keeps with other programs about, and what it keeps alone.

`DdPagesProofs`
: `PagesTyped`, `BeamNeverMet` and `LostFlagHeard`. The invariant `Beam` says
  what holds while a write of `CRT_OFFSET` is not taken: the beam is still in the
  frame the write was made in, so the clock and the count have seen no more
  ticks than `phase` and cannot end the wait; and the blank of that frame is
  over or the write was made inside it, so a latch once seen clear stays clear.
  `Heard` follows the flag: whoever took it down has been counted, and the
  next Flip sees the count.

Only model-checked: liveness (`HolderLeaves`, `SomebodyServed`, `Answered`,
`FrameShown`: out of the prover's reach). Every other property of the passing
runs is stated by a theorem. What LZ4 computes is an assumption (`HoldsLz`).

## Not modelled

Coverage is small against the repository because almost all of its lines are
the vendored 86Box tree. Within the drivers: NMIWATCH (a poll and counters),
SWAPCNT (counters), the LS-120 driver (XTIDE.MPD's structure over another
bus), VKD (Microsoft's, patched), the display driver's accelerator (text,
brushes, blits of the 16-colour modes: exactness against the DIB Engine is
arithmetic, not state), and Direct3D's rasteriser. The packaged third-party
drivers, tools and VM files are not programs of this repository. The emulator's
Inboard, EPAT and 3C509B devices are modelled only as far as the drivers use
their counterparts.

## Plan

1. `XtAddress`: CDB decoding (READ(6) with count 0), LBA28 and CHS taskfile, READ
   CAPACITY, checked against reference definitions; `XtProbe`: stride and
   transport detection.
2. `Lz4`: the codec on short inputs, for TLC only.
3. `Ls120`, with what it shares with `XtIde`; the emulator's Inboard device, to
   replace the external card of `ShadRam`; `NmiWatch`.
