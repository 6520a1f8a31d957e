# TLA+ models of Jemm (emm386)

Jemm is an expanded memory manager for DOS: a ring 0 monitor that runs DOS in
virtual 8086 mode and serves EMS, VCPI, VDS, UMBs and, as JemmEx, XMS. The
models follow who owns which memory, what a program in V86 mode sees of the
machine, and what is left when an operation is interrupted, fails or is undone.

The program is the assembler source `src/src/*.ASM`, `*.INC` and
`src/Tools/JLOAD/*.ASM`. Each file has a twin (`.c`, `.h`) that quotes the
assembler line for line in comments; the twins are not built. Both hold the same text,
so `map` in PROJECT.json names the lines of the twin, and everything else here
(hazards, findings, comments) the line of the assembler that is built. The build assumed
is JemmEx as distributed: dynamic pool, `?INTEGRATED=1`, `?DMAPT=1`,
`?HOOK13=1`, `?MMASK=1`, `?SUPP5B=1`, `?DYNTRAPP60=1`, `?XMS35=1`.

## 1. The system

| Component | Source | State | Operations | Modules |
|---|---|---|---|---|
| XMS EMB allocator | XMS.ASM | handle table: flags, locks, base, size | 09h/89h/C9h, 0Ah, 0Ch/CCh, 0Dh, 0Fh/8Fh, queries 08h/88h/C8h, 0Eh/8Eh | Xms, XmsScan, XmsQuery, XmsReentrant |
| A20, HMA | XMS.ASM, JEMM32.ASM, INIT16.ASM | counts of enables, HMA owner, HMA page table entries, port 60h trap | 01h-07h, ports 60h, 64h, 92h, Int 15h 24xxh, method test | A20, A20Method |
| Block moves | XMS.ASM, I15.ASM, JEMM32.ASM | page map heap, windows | 0Bh/CBh, Int 15h 87h | BlockMove |
| V86 monitor | JEMM32.ASM | client frame, ring 0 stack, dwStackCurr, dwStackR0 | interrupts, exceptions, NMI, nested execution, FF000 | Monitor |
| I/O trapping | JEMM32.ASM, VMM.ASM | I/O bitmap, table of handlers | IN, OUT, INS, OUTS of each size; install and remove a handler | IoTrap |
| Page pool | POOL.ASM | pool blocks with bitmaps, totals, two search hints | allocate and free 4K and 16K pages, take, grow and return EMBs | Pool |
| EMS | EMS.ASM, EMS32.INC | handles, page chains, names, state slots, windows, client stack of 56h | Int 67h 43h-48h, 4Eh-51h, 53h, 55h-57h, 5Ah, 5Bh | Ems, EmsService, EmsMove, EmsCall |
| VCPI | VCPI.ASM | whose tables and stack the processor uses | DE01h, DE0Ch from both sides, 04h, 05h | Vcpi, Pool |
| UMB | UMB.ASM, INIT.ASM | table of 8 blocks | XMS 10h-12h, the table at boot | Umb |
| VDS | VDS.ASM | bit vector of the DMA buffer, a counter per channel | Int 4Bh lock, scatter lock, request, release, copy, translation | Vds |
| DMA port trapping | VDMA.ASM, JEMM16.ASM | copies of DMA registers and flip-flops, Int 13h flags, target of a copy | writes to DMA ports, Int 13h/40h hooks | Vdma |
| Command line | INIT16.ASM | the line, the options | FindCommand, GetValue, ranges | CmdLine, CmdTable |
| Memory scan | INIT16.ASM | map of upper memory, page frame | reserved ranges, ROM and RAM tests, page frame, UMB pages | MemScan |
| Loading | INIT16.ASM, JEMM16.ASM, INIT.ASM | XMS handles, the monitor's block and its parts | AllocAndInitMem, InitMonitor, Pool_Init | Boot |
| Resident part | JEMM16.ASM, INIT.ASM, INIT16.ASM | vectors, driver chain, XBDA, MCBs | install, UNLOAD after other programs | Resident |
| Restart | JEMM32.ASM, INIT.ASM | saved vectors, bp06, interrupt controller | Ctrl-Alt-Del, FASTBOOT, ALTBOOT | Restart |
| Character device | DEV.ASM, INIT16.ASM | switches, CR4 | IOCTL read and write, options on an installed Jemm | Device |
| JLM services | Tools/JLOAD | page map of modules, hook chains | _PageReserve ... _PageFree, Hook and Unhook of interrupts and faults | JlmPages, JlmHooks, IoTrap |
| EMU, DEBUG, LMS64, drivers, tools, tests | | | | none, see section 7 |

### Interactions

    XMS clients ──> handle table <── Pool <── VCPI clients (V86 and PM)
        │               ^    ^         ^
        │        memory scan └ Boot    └── EMS <── EMS clients ──> move, 56h code
        └──> block moves (windows) <── Int 15h 87h <── interrupt handlers
    V86 program ──> Monitor ──> I/O trapping ──> A20, DMA, handlers of JLMs
                       └─ nested execution ──> V86 handlers, JLM hooks
    VDS clients ──> DMA buffer <── DMA trapping <── BIOS, drivers (ports)
    XMS UMB calls ──> UMB table <── Boot <── memory scan <── command line
    UNLOAD, restart ──> vectors, chain, UMBs, EMBs of everybody

Most services run in ring 0 with interrupts off: a call is atomic, and what is
hard is the order of the calls of independent clients over tables they share.
There are four places where that is not so, and they are modelled in steps:
the copy of a block move and of a reallocation lets interrupts in, and handlers
call the same services; ring 0 code calls V86 code and waits for it (nested
execution); NMIs come between any two instructions of ring 0; a VCPI switch
changes page tables, descriptor tables and stack one by one.

Failure is partial success: pages that run out in the middle of 43h or 51h,
page tables that run out in _PageReserve, a list of mappings with a bad item. A
restart is Ctrl-Alt-Del with FASTBOOT: the monitor puts the machine back to
where it was before DOS from the middle of anything. Nothing is persisted, there
are no messages.

## 2. The modules

Abstract specifications:

* **MemStore**: owners with sets of addresses; a step changes the memory of one
  owner and takes only what nobody has. Umb implements it, and Xms, also with
  reallocations that are interrupted (XmsReentrant). Proved for both.
* **EmsService**: sequences of pages per handle, contexts, and what the windows
  show. Ems implements it under the mapping at the end of Ems: `MappedPages`,
  `MappedContext`, `MappedWindow` and `MappedRecords`. Proved.

Handle table and pool:

* **Xms**: one action per call; `AllocTab`, `MergeTab`, `FreeTab` on tables are
  shared with Pool and the proofs. The free call merges in one scan; `FreeTab`
  is its result in closed form, **XmsScan** the scan entry by entry, with the flaw
  it has (after a merge the pointer is set back, the count is not).
  **XmsQuery** has the queries with filters of their own, and what their
  answers promise. **XmsReentrant** splits a reallocation that moves at its
  copy: `moving` is the stack of those under way.
* **Pool** EXTENDS Xms. Its actions are whole handlers: search, expansion of
  a block at the end of its EMB, a new EMB, release of an empty one with its
  merge. `XmsCall` is any call of an XMS client on its own handles. `EnterBlock`
  is one pass of the loop that hands an EMB to descriptors, `Recounted` what
  every allocation and release of a page writes.

EMS and VCPI:

* **Ems** is Int 67h with the pool as an environment that grants or refuses, also in
  mid-call. Page table entries and the TLB are explicit (`pte`, `stale`).
  **EmsMove** is 57h on cells of memory. **EmsCall** is 55h and 56h: code
  and return addresses on the client's stack, routines that call again.
* **Vcpi** is the server as steps between which another page table, GDT, IDT,
  TR or stack is in force, pages from protected mode, and nested monitor calls
  below on the ring 0 stack.

Below V86 programs:

* **Monitor** is a machine of small ring 0 operations: `todo` is what the
  running code still has to do, `r0` its stack. Interrupts come where ring 0 lets
  them in, NMIs between any two operations.
* **A20** EXTENDS A20Method: that is the search for the way that moves the
  gate at the start, A20 the counts, the HMA and the ports of the loaded monitor on
  the gate it found. **IoTrap** takes an I/O instruction apart into
  bytes and asks handlers; `log` and `got` record what the machine saw.
  **BlockMove** is `MoveMemoryPhys` with its windows, chunk by chunk.
* **JlmPages** and **JlmHooks** are the services of the loader for memory and hooks.
  In JlmPages a service is what it makes of a state of the page map, so that loading a
  module composes a reservation, a commitment and a release; the scan of `_PageReserve` is
  a recursive function over the times it comes back to `@@continuescan`.

DMA and UMBs:

* **Umb** is the table of blocks from the page map on. **Vds** is the buffer's
  bits, the answers of the lock calls and the counters. **Vdma** is port trapping:
  `chn`, `hilo` are the monitor's copies, `hw`, `ff` the controllers; `armed`,
  `due`, `ops`, `moved` record what client and device did and are no code's.
* **Device** is EMMXXXX0 with the command line's use of it.

Start and end:

* **CmdTable** lists the options in the order they are searched, **CmdLine**
  is the search. **MemScan** is the map of upper memory. **Boot** is the choice
  of the monitor's memory and its layout. **Resident** is the part in DOS memory
  and UNLOAD. **Restart** is Ctrl-Alt-Del.

Each **MC** module puts the parts that are checked together side by side: a
behaviour belongs to one `part` (for Pool one `machine`), the slots `x1`, `x2`,
... are that part's variables and the others idle; the cfg chooses the parts.
MCXms EXTENDS XmsReentrant and Umb, MCPool Pool, MCEms Ems, MCServices Vcpi and
Device, MCV86 Monitor, A20 and JlmPages, MCStart Restart: what a run checks of these is
the definition the theorems are about, and their variables stay as they were at the
start in a behaviour of another part. The other parts are instances. MCPool has
a second machine: `Odd` is an instance of Pool with other constants. TLC evaluates the constant
definitions of a module once if it is only extended, so the handle table of `Odd` is
an instance of its own (`OddTable`), and `OddAssumption` checks that `Odd` starts on
its own memory. The ASSUMEs there evaluate the assumptions of the parts.

The **...Proofs** modules hold the theorems, **NatLemmas** what they need about
numbers and functions on them (section 4).

Definitions marked "mutant" are not used by any specification: they are the
plausible mistakes against which the properties were tried.

## 3. The runs

| Run | Parts and bounds | Properties |
|---|---|---|
| xms | "emb": 4 handles, 2 regions (one beyond "4 GB"), 1 lock, sizes 0-3, 2 nested calls; "umb": 5 entries, split ROM | `TypeOK`, `NoOverlap`, `Complete`, `TablesAgree`, `LockedStays`, `ImplementsStoreNested`, `UmbsHonest`, `UmbsAreAStore` |
| pool | "even": 4 handles, 4 chunks of 2 pages; "odd": 3 handles, 8 pages at most, an EMB that begins off a page and needs several pool blocks | `CountersExact`, `HeldInside`, `BlocksApart`, `PromisesKept` |
| ems | "pages": 3 handles, 4 descriptors, 2 frames; "contexts": 2 windows, 2 slots, a client's buffer; "move": pages of 3 units, every overlap; "call": depth 2 | `HandlesWhole`, `AnswersKept`, `ImplementsService`; `PartsWhole`, `PartsKept` for "contexts", "move" and "call" |
| services | "vcpi": 2 clients, 3 pages, nesting 2; "vds": 5 KB buffer, 2 page tables; "device"; "vdma": bytes of 2 values, one channel of 8 or 16 bits | `SwitchWhole`, `RegionsHonest`, `SwitchesAgree`, `TransferRight` |
| v86 | "monitor": 4 events, stack of 11 words; "a20": 2 clients, counts up to 5; "method": every machine; "io": accesses of 1, 2, 4 bytes, REP 2, 3 changes of handlers; "move": 44 bytes, chunks of two pages, one move in a move; "pages": 3 pages, a page table of 3 entries for each region; "hooks": 3 procedures, 2 interrupts | `NestingExact`, `NestsTransparent`, `GateKept`, `KeptWhileHeld`, `AsInHardware` (the page FF000 too), `MovedRight`, `PagesWhole`, `HooksWhole`, `Progress` |
| start | "cmd": all lines of one and two words; "scan": 22 machines with 112 users; "boot": memory maps, requests, regions of 64 KB at 1 MB, beyond 4 GB, and just below 16 MB; "resident": 480 kinds, a TSR; "restart": 3 DOS versions | `WordsTaken`, `ScanRight`, `LaidOut`, `ResidentWhole`, `DriversKept`, `StartsFresh`, `RunsOn` |
| pool_last_nibble | a region of 4 chunks and 1 KB | finding, `HeldInside` |
| vds_two_buffers | 2 buffers held | finding, `OwnBufferReleasable` |
| vds_lock_align | lock with VDSF_64KALIGN | finding, `LockBuffered` |
| vdma_verify | a verify may leave its channel unmasked | finding, `ReadDelivered` |
| boot_hole | a hole at 15 MB | finding, `MonitorInOwnBlock` |
| restart_all | the parts of start's "restart" | finding, `AllCleared` |

`TypesOK` is in the runs of several parts too. What each property says stands above its
definition; the hazards in PROJECT.json say which of them is for what.

Why the bounds are enough for the cases that matter:

* xms: four entries give a block with free neighbours on both sides and a blank
  entry, or a full table; sizes 0-3 in 5 KB give exact fits, splits and
  failures; two nested calls let a handler take the entry that a reallocation is about to free.
* pool: chunks of two pages keep 4K and 16K requests different; four chunks and
  four handles let an EMB be taken, expanded and returned while an XMS block
  lies behind it. On "odd" clients leave no blank handle, so that an EMB is taken
  whole and is cut into two blocks that are freed in either order.
* ems: two frames against four descriptors make the pool fail in mid-call;
  lists of two items and one buffer reach every order of save, restore and release.
* vcpi: two clients, so that tables of one could be taken for the other's; two
  calls below, so that a stack that is reset is seen.
* monitor: four events let an exception come in a handler that interrupted a
  service that was called from a nested execution, with an NMI on top.
* io: a DWORD splits twice; the ports are at the ends of ranges of the table.
* move: chunks of two pages and 12 bytes give three chunks with both
  alignments; the third block lies beyond "4 GB".
* vds, vdma: the pages are identity, contiguous elsewhere, contiguous across a
  border, scattered, and out of reach. Ids of buffers are all numbers up to one above
  the limit, held or not, and the bits behind the vector up to `Behind` are in the model, because
  the code's tests look at bits only. A byte of two values keeps halves apart.
* pages: three entries for each region, so that the system region can hold a module with a
  discardable page, and the scan of a private region that is nearly full gets into the system
  region. That a block reaches over two page tables is in the theorem only.
* boot: a region of exactly 64 KB at 1 MB leaves a free handle of size 0 behind the
  HMA; one that begins at 16220 KB puts a DMA buffer of 128 KB at the 16 MB border.
* scan: includes and excludes lie below F8, and across it up to the end. Pages of four blocks, a frame of four pages: ROMs that end in mid-page,
  meet RAM, and leave just enough room or too little.
* cmd: names are sequences of the pieces into which other names cut them, so
  substrings are found exactly where the program finds them.

Bounds in guards: `MaxLocks`, `MaxDisable` and `CountMod` are the code's 255;
`MaxNested`, `MaxNest`, `left` (events), `MaxDepth`, `MaxCalls`, `MaxChanges`, `changes` bound how
much happens; `MaxHeld`, `MaxOps`, `UseSets`, `VerifyMasks` restrict clients, and the
notes of the hazards say what lies beyond. Clients of Vdma unmask a channel
last and write address and page for every transfer.

Deadlock is checked in xms, pool and services. The other runs have parts that
really stop: a command line that has been read, a machine that has been
switched off by the abort of a program, a move that is done.

### Fairness

Two properties are liveness, `Progress` (`Resumed` of the monitor and the moves that end)
and `RunsOn`. Only what the processor does without being asked is fair:

* `Progress`, ring 0 code goes on: WF on `Ring0` (code in ring 0 runs on; nothing preempts it but
  what returns to it) and on `Traps` (breakpoints and IRETs are executed when V86 code
  reaches them: a handler returns). What programs do, and interrupts, are not fair.
  Without the second a handler that loops for ever refutes it, rightly.
* `Progress`, moves end: WF on `Map` or `Copy`, the loop of MoveMemoryPhys.
* `RunsOn`: WF on the scan, which is one loop in real mode, and on the
  monitor's part of a restart, handlers included.

## 4. The proofs

All theorems hold for every value of the constants that satisfies the named
assumption of the module (`XmsAssumption`, `PoolAssumption`, `EmsAssumption`, `VcpiAssumption`,
`DevAssumption`, `UmbAssumption`, `MonAssumption`, `A20Assumption`, `JlmPagesAssumption`), which says what the
program's tables are: that they have a size, that regions of memory do not overlap, that the
pool's pages are finitely many, that options are bytes, that upper memory is below 1 MB (`UmbWords`),
that the monitor's EMB is in the first region of extended memory and its preallocated pages are in it.
One fact that the code relies on without testing it is not among them but a hypothesis of two theorems:
`ResidentFits`, that the resident part is not larger than the UMB it is moved to.

| Module | Theorems |
|---|---|
| XmsProofs | `TypeCorrect`, `SafeMemory`, `NothingLost`, `LocksHold`, `XmsIsAStore`: Spec of Xms gives []TypeOK, []NoOverlap, []Complete, LockedStays and the refinement of MemStore |
| XmsClientProofs | `NestedTypeCorrect`, `NestedSafeMemory`, `NestedNothingLost`, `NestedLocksHold`, `NestedIsAStore`: the same for RSpec, where interrupt handlers call in the middle of a reallocation's copy, to any depth. `UmbsAlwaysHonest`, `UmbsAreOwned`: ResidentFits gives []UmbsHonest and the refinement of MemStore |
| PoolProofs | `PoolStaysSound`, `PoolNoOverlap`, `PoolBlocksApart`, `PoolSparesClients`: PoolSpec, with XMS calls in between, gives []PInv, []NoOverlap, []BlocksApart and [][ClientsApart]_vars |
| EmsProofs | `HandlesAlwaysWhole`, `AnswersAlwaysKept`, `EmsIsTheService`: []HandlesWhole, AnswersKept and the refinement of EmsService |
| ServicesProofs | `SwitchesWhole`, `ServerTypeCorrect`: []SwitchWhole and []VcpiTypeOK. `SwitchesAlwaysAgree`: []SwitchesAgree of the character device |
| V86Proofs | `NestingAlwaysExact`, `NestsAlwaysTransparent`: []NestingExact and NestsTransparent of MonSpec, the monitor on its own. `GateAlwaysKept`, `GateTypeCorrect`, `GateKeptForHolders`: []GateKept, []A20TypeOK and KeptWhileHeld of GateSpec, the search for a method and the emulation after it. `RestartsFresh`: []StartsFresh of RestartSpec |
| JlmProofs | `PagesAlwaysWhole`, `PageMapTyped`: []PagesWhole and []JlmPagesTypeOK of JlmSpec |

NatLemmas has the lemmas about numbers, ranges and functions on them that the others
need: a least element, counting up to n, and for recursive functions what is kept by every
step of an iteration (`Iterated`, `StaysIn`).

**Xms.** The inductive invariant is `Good(h, Ram)`: entries are records, `Clean` (blank
entries have no size, free blocks have one, only blocks in use are locked),
`Disjoint`, and the memory that they cover is exactly the set that is the second argument. None is inductive alone: a reallocation
that takes from its successor needs that no third block begins at the same
address, which is `Disjoint`, but zero-sized blocks in use are not excluded by
it, so the lemmas reason address by address with `Covers` and not by
comparing bases. The lemma `Rearrange` says that a call that redistributes
the memory of the handles in a set among themselves keeps the table good;
`AllocGood`, `MergeGood`, `FreeGood`, `ReallocIntoGood`, `ReallocShrinkGood`,
`ReallocMoveGood` are its instances. `FreeTab` merges at most two times; each
merge is `MergeGood`. `Keeps(i)` is the frame condition: a step changes the
memory of no used block but i, and of i only if it is not locked. `LocksHold`
and the step simulation of `XmsIsAStore` follow from `StepKeeps` and `Good`. The lemmas
hold for any set of memory in the place of `Ram`, because the pool may lose some.

**XmsReentrant.** `RInv` adds to `Good(h)` that both handles of every reallocation
under way are in use and not locked (`HeldByMoves`) and that no two of them share
a handle (`MovesApart`). The second is what makes the first inductive: without it the end
of one reallocation could free the block of another one. The calls in between are
calls of Xms on other handles, so their table lemmas are those of XmsProofs.

**Umb.** `UInv` says of the table that its blocks tile the memory found at boot
(`Tiles`), that an entry may be empty only where the resident part took all of it
(`EmptyAtEnd`), and that what clients hold and what is marked used are the same blocks
(`GoodHeld`). Most of the work is the table at boot: that the runs of pages from
`Starts` are apart (`RunsApart`) for every page map. The table that
clients find is that one less the resident part, in words that wrap around; `ResidentFits` makes
them the numbers they stand for (`BlockBounds`, `InitEntry`). `WholePagesFit` proves it for every page map without
split pages, when the resident part is not larger than a page. Splitting a block in a full table
and resizing into the block behind are the cases where the parts need each other.

**Pool.** XMS clients and the pool work on one table, so the proof stands on that of Xms:
a table is good for the pool (`PoolTab`) if it is `Good` for some part of the RAM. The pool needs
this weaker form: what is left of an XMS block when a pool block takes its front is covered by
no handle any more if it is less than a chunk. `PInv` is `PoolSound` of the state: besides the
table, that the monitor keeps its EMB (`SysKept`), and two facts about descriptors.
`Placed`: a descriptor is unused or `Inside` its EMB, which is in use and locked for
it; `Spread`: blocks of one EMB are apart. Blocks of two EMBs are apart because the table is.
`BlocksApart` is not inductive: an expansion adds 32 KB less `psi_endadj` to the EMB and
32 KB to the block, and the test for that (`AtEmbEnd`) subtracts psi_startadj from the end of the block and adds
psi_endadj. A block that begins off a page passes it by mistake if both are the same and its EMB
does not end with it. The last clause of `Inside` excludes that: a block with an endadj has no
start adjustment, or its endadj is what lies between its end and the end of the EMB. From it `ExpandGood`
gets that what passes the test begins on a page and lacks exactly endadj. The loop that hands out
descriptors is an iteration of `EnterBlock`: `Giving` is its invariant, `Iterated` takes it through
the loop (`AllocBlocksGood`). `TryFreeGood` shows that the scan of Pool_FreeEMB joins blocks that
touch, in any order, and that no descriptor is left behind in what becomes free. `PoolSparesClients` needs no more than
`KeepsOthers` of each change and, for XMS calls, the frame condition of Xms.

**Ems.** `EmsInv` says that the tables are `Sound`: every page of a handle is
reached by a walk from its first descriptor that ends, no descriptor is reached twice,
the walks reach exactly the descriptors that have a frame, the frames are distinct, and
the count is right; then `SlotsInv` (a state slot belongs to one handle), `NamesInv`,
`WindowsInv`, `BuffersInv` (a filled buffer holds a page map). `HandlesWhole` speaks of
chains and their lengths, which no step can be shown to preserve by themselves:
the proof shows instead, for any sound table, what releasing the end of a
chain (`Releasing`), appending frames page by page until the pool refuses
(`Appending`, `Allocating`) and freeing a handle (`Freeing`) do to every page of every
handle. `WholeIfInv` gets the counts back from `Sound`. AbsPage is a recursive function;
`Walk` reaches its values from below with `UpTo` of NatLemmas. For the refinement,
`SeqOf`, `FramesMeaning` and `FramesDistinct` relate the sequence of frames of a handle
to its walk, and there is one lemma for each kind of call that the mapped state
makes a step of the service or stutters (`AllocateMaps` to `BufferMaps`, `StepMaps`).

**Vcpi.** `VInv` says whose tables are in force at each point of a switch
(`VContext`), that the calls below on the ring 0 stack keep their slots
(`CallsBelowKept`), and that a page is owned by the client that was told so, or is the
one of the call that has not answered yet (`VPool`).

**Monitor.** What has to be proved is that two stacks agree, although interrupts, NMIs
and exceptions come between any two operations on them. `MInv` has an assertion
for each operation of ring 0, which says what is on the client's stack before it and
what follows it (`Stage`: `AtBegin`, `AtCallSp`, ... `AtIrqEnd`); it holds of the code that
runs, and of every frame of the ring 0 stack with the client as it was when the frame
was pushed (`FrameOn`). `V86` says of the code that runs in V86 mode that from its
stack pointer up to where its caller left it, there are return addresses of programs
and handlers only, and the one at the bottom leads to `BACK`. So when
the breakpoint is reached, what waits is on top (`V86Returned`, `BackTop`). The lemma
`StageAgrees` is why nesting is transparent: an assertion looks at cells
from the stack pointer on only, and these are what a nested call leaves alone. Its
companions push and pop a frame (`Pushed`, `Popped`) and a V86 interrupt (`V86Push`,
`V86Pop`). `Waiting` and `Lets` say that dwStackCurr and dwStackR0, each with the values saved
in frames, are chains through the frames of their kind. There is one lemma per
operation and event (`BeginKept` to `BackKept`).

**A20.** `GateInv` has the search and what follows it. `MethodInv`: what the search has `Chosen`
has moved the gate both ways, and the gate was closed at the start, or it was open and is never
moved; while the search goes on (`Searching`), a method that failed may have left the gate open, but
then it was closed at the start. Without that a method found later could not be known to put the
gate back to where it was. Of
the emulation it says that a command D1h to the keyboard controller implies the trap of
port 60h, so it cannot be completed unseen, and that the count of local enables is the
number of clients that hold one, below the limit of its byte (`ClientsCounted`).

**Device.** `DevTypeOK` and `SwitchesAgree` are inductive together: an option is any byte, and
what is written to CR4, to the page mask and to the gate is computed from its low bits.

**Restart.** `RestartInv` follows every vector from what was there before DOS, over what DOS
stored of it at 0070:0100 (`at70`) and what Jemm saved, to the boot sector, by the set it
belongs to (`Low`, `Mid`, `High`, `Zeroed`, `Rest`); `notified` and `irq1` are known at each point of the way out.

**JlmPages.** `JlmInv` is `Sound` of the map, stated for any state of it because a load is
three services in one step. `Apart` and `NoneLost` give `PagesInOnePlace` without counting:
a page of the pool is free, another client's, in the page directory once or behind one
linear page (`OnePlace` counts them in the end). `Shown` says that the map is that of the
blocks: an entry is not 0 exactly in a block, and bit 200h is set exactly at a begin. Not
inductive without `Fits`: Jemm's and JLOAD's own entries carry no bit 200h, so a block that
ends just before them would be freed together with them, and the pages behind it lost.
`ObjectIs` is why `_PageFree` ends where the block does: what follows is another begin or 0.
Of the scan the proof needs only that an answer is the first of a run of zero entries;
that holds of any number of returns to `@@continuescan` (`Iterated`), although its count of
what is left grows by what is missing. There is one lemma per service on `Sound`.

What stays with TLC:

* liveness (`Progress`, `RunsOn`) and what is stated with ENABLED
  (`AnswersHonest`, part of `TablesAgree`);
* `FreeTabIsTheScan`, the other part: the scan is a recursive operator, what it computes
  for every table would need induction over data; likewise the sums in the counts of Pool,
  the folds of `ScatterHonest`, the walk of `Chain` in JlmHooks;
* `MovedWhole` of EmsMove and `CallReturns` of EmsCall, which are properties of one
  call with all its arguments;
* `RomGuarded` of Monitor: that the trap which ends a write to FF000 is still to come
  needs the trap flag in every frame and cell, which `MInv` does not follow;
* `HeldInside` and `CountersExact` of Pool: they do not hold on every machine (the finding on
  POOL.ASM:269 is a counterexample to both), so they are checked on machines whose blocks have an even number
  of chunks when they grow. `BlocksApart`, `NoOverlap` and `ClientsApart` do not depend on the bitmaps and
  are proved for all machines;
* the parts of the runs v86 and start that are instances, and Vds and Vdma: their invariants rest
  on sums, folds and scans over data (`Chain`, `Tested`, the options of a line), on which TLC
  computes for all inputs within the bounds.

## 5. What the checks found

* POOL.ASM:269 (pool_last_nibble): the mark on the odd last chunk is not
  cleared on expansion, the page behind the EMB is handed out.
* VDS.ASM:203 (vds_two_buffers): buffers of two clients touch, the upper
  cannot be released, the release of the lower frees both.
* VDS.ASM:661 (vds_lock_align): the alignment flag of a lock is passed to
  vds_reqbuff, which refuses it.
* VDMA.ASM:515 (vdma_verify): a read after a verify is copied to the block of
  the verify if both need the buffer.
* JEMM16.ASM:1519 (boot_hole): the monitor is put into the first block though
  another was allocated for it.
* JEMM32.ASM:2624 (restart_all): a fast boot clears vectors 78-7F only, its
  comment says 78-FF.

These properties stand in the modules and are in no run because they do not hold;
TLC refutes each when it is put in place of the run's invariants:

| Property | What TLC shows |
|---|---|
| `ExchangedApart` (EmsMove) | 57h exchanges regions that overlap when the destination is conventional or begins before the source |
| `SpaceTold` (EmsCall) | 56h needs 4 bytes more of the stack than 5602h says |
| `PtesDescribe` (Vds), with `{"PTE"}` in FlagSets | scatter lock with PTEs counts a page too few when a region starts inside a page |
| `ReserveAnswers` (JlmPages) | _PageReserve does not return when the pool has no page for a page table: two registers are left on the stack (VMM.ASM:1475) |
| `UnhookAnswers` (JlmHooks) | Unhook_V86_Fault follows the chain past its end for a procedure that is not hooked (VMM.ASM:1117) |
| `NoFault` (IoTrap) | an access to a port above the first page of handlers reads a page that may not be there |
| `RegionAsked` (JlmPages) | a private reservation is answered with an address in the system region when gaps before it were too small: ECX grows (VMM.ASM:1454-1456) |
| `PastEndRefused` (Vds) | the buffer id just behind the last bit is taken for a buffer by copies (09h, 0Ah) and by the release, which sets bits behind the vector until it finds a 1 (VDS.ASM:274-300) |
| `UmbsCounted` (MemScan) | with I= from F800 on more pages are mapped for UMBs (INIT.ASM:1171-1196) than were counted (INIT16.ASM:993-995) |
| `UmbsHonest` (Umb), with a split page smaller than the resident part | the size of what is left of the block goes below 0 and its highest bit marks it used (INIT.ASM:1400-1405) |
| `DmaBelow16M` (Boot) | a DMA buffer of 128 KB ends above 16 MB: it is aligned after the test (INIT.ASM:785-800) |
| `WasteTaken` (Boot), with a block that begins at 16220 KB and D= above 64 | aligning the buffer costs more than was allocated for it (INIT16.ASM:1614-1620) |
| `LoadsWithMin` (Boot) | a MIN= close to what is free makes loading fail though less would do |
| `XbdaStays` (Resident) | after MOVEXBDA and UNLOAD, 40:0E names a UMB that is gone |
| `NoOpIsNoOp` (CmdLine), with NOMOVEXBDA among the words | NOMOVEXBDA is taken for MOVEXBDA (INIT16.ASM:2872) |

Other limits are in the notes of the hazards: bits 32-39 of a move's offset
(XMS.ASM:960), the page register that is not restored (VDMA.ASM:544), the pool's
maximum (POOL.ASM:313), a rest of less than a chunk (POOL.ASM:283), sizes of 0
(UMB.ASM:55, INIT16.ASM:723; in Xms no free block of size 0 is there at the start, which a region
of 64 KB at 1 MB leaves, JEMM16.ASM:1416), physical pages that 50h does not check (EMS.ASM:611).

## 6. How the models correspond to the code

`map` gives for every definition its lines. Addresses are KB, paragraphs,
pages or units, as each module's header says; sizes are scaled so that every
border of the code is inside the model. A value that only passes through
(a register layout, a text) is left out. Where a client has to keep rules for the
code to work, the rule is a guard of the client's action and named in its comment.

## 7. What is not modelled

* EMU.ASM: the emulation of one instruction is sequential and keeps no state.
* DEBUG.ASM and the kernel debugger interface: output, debug builds only.
* LMS64.c: a table of invented addresses that nothing in the repository calls; there is
  no use to say which states it can be in.
* Drivers and samples under JLM, the command line tools, the tests.
* In parts that are modelled: NoPool mode; MAXSEXT=; memory of Boot for pages above F7, which are not counted; queries of EMS that read one
  table; CR0, PIC and debug register functions of VCPI; reading of DMA ports
  and master reset (0Dh); PE files, events and time-outs of the loader; contents of
  descriptor and page tables built once at the start; the status display.
* Vds and Vdma over one buffer, and Vds with page tables that EMS changes, are not
  composed: neither part looks at the other's state. So a transfer that is trapped
  may use the part of the buffer a VDS client holds (VDMA.ASM:488), and the address
  of a locked region is stale once EMS maps another page there (VDS.ASM:676).

## 8. Plan

1. Proofs: `RomGuarded` of Monitor; `HeldInsideEmb` of Pool for the code with the
   disabled lines of POOL.ASM:271-275 enabled; `LockedIsFit` of Vds.
2. Vds and Vdma composed over one buffer, with Ems changing the page table.
3. Events, time-outs and module loading of the JLM loader.
4. VDMA: reading ports, master reset, masking in mid-transfer; several channels.
