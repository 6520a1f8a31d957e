-------------------------------- MODULE Boot --------------------------------
(***************************************************************************)
(* From the memory the BIOS reports to a monitor that runs                 *)
(* (I15GetMemoryStatus, I15SetHandle, AllocAndInitMem, I15AllocMemory,     *)
(* GetEMBBase, InitMonitor, Pool_Init1, EMS_Init2, Pool_Init2 in           *)
(* src/src/INIT16.ASM, JEMM16.ASM, INIT.ASM, POOL.ASM, EMS.ASM): how much  *)
(* extended memory is taken for the monitor, its tables, the DMA buffer    *)
(* and UMBs, and where in it each of them is put.  Addresses and sizes of  *)
(* blocks are in KB, the heap for the tables is counted in bytes.          *)
(* Bound: umb counts the pages A0 to F7 that are UMBs, and there are no    *)
(* others; with I= from F800 on more are mapped than counted (UmbsCounted  *)
(* of MemScan).                                                            *)
(***************************************************************************)
EXTENDS Integers, FiniteSetsExt, SequencesExt

CONSTANTS
  Machines,  (* regions: memory in the order of the BIOS; ext: what E801   *)
             (* or 88h say; umb: pages for UMBs; conv: EMS pages in        *)
             (* conventional memory; code: pages of the monitor; rest: the *)
             (* bytes left in the last of them                             *)
  Requests   (* nopool, noems, min, max, dma, handles, fastboot, maxext    *)

FourGB == 4194304
Unset == -1
Least(a, b) == IF a < b THEN a ELSE b
Most(a, b) == IF a < b THEN b ELSE a
Ceil(n, k) == ((n + k - 1) \div k) * k

VARIABLES
  machine, req,
  phase,        (* what is done next; "failed": not loaded                 *)
  item,         (* the region that is taken next                           *)
  h,            (* xms_handle_array, the handles that are used             *)
  xms_max,      (* what MAXEXT= still allows                               *)
  mem,          (* xms_mem_free, xms_mem_largest and xms_mem_highest       *)
  sizes,        (* kbneeded, MinMem16k, MaxMem16k, MaxEMSPages of jemmini  *)
  ctrl,         (* XMSControlHandle                                        *)
  mon,          (* MonitorStart, MonitorEnd                                *)
  dma,          (* DMABuffStartPhys, DMABuffSize, and the space below      *)
  heap,         (* physical pages of the heap; bytes used in it            *)
  edi,          (* the first KB of the block that is not used yet          *)
  umbs,         (* pages of the UMBs                                       *)
  shadow,       (* the page behind FF000, a set                            *)
  max4K,        (* dwMaxMem4K                                              *)
  pool          (* KB of the block that the pool has                       *)

blocks == <<item, h, xms_max, mem>>
layout == <<dma, heap, edi, umbs, shadow>>
vars == <<machine, req, phase, blocks, sizes, ctrl, mon, layout, max4K, pool>>

Init ==
  /\ machine \in Machines /\ req \in Requests
  /\ phase = "regions" /\ item = 1 /\ h = <<>> /\ xms_max = req.maxext
  /\ mem = [free |-> 0, largest |-> 0, highest |-> 0]
  /\ sizes = [needed |-> 0, min |-> 0, max |-> 0, ems |-> 0]
  /\ ctrl = 0 /\ mon = [start |-> 0, end |-> 0]
  /\ dma = [start |-> 0, size |-> 0, below |-> 0]
  /\ heap = [pages |-> <<>>, used |-> 0] /\ edi = 0 /\ umbs = {} /\ shadow = {}
  /\ max4K = 0 /\ pool = 0
-----------------------------------------------------------------------------
Emb(base, size, flag) == [base |-> base, size |-> size, flag |-> flag]

(* I15SetHandle: a block at 1 MB begins behind the HMA, and what is left   *)
(* of it may be nothing; only MAXEXT= used up keeps a block of size 0 from *)
(* getting a handle.  Blocks beyond 4 GB get one, but are not counted (no  *)
(* MAXSEXT= is given).                                                     *)
I15SetHandle(base, len) ==
  LET hma == IF base = 1024 THEN 64 ELSE 0
      b == base + hma
      left == len - hma
      limited == b < FourGB /\ left > xms_max
      n == IF limited THEN xms_max ELSE left
  IN  IF left < 0 \/ (limited /\ n = 0) THEN UNCHANGED <<h, xms_max, mem>>
      ELSE /\ h' = Append(h, Emb(b, n, "FREE"))
           /\ xms_max' = IF b < FourGB THEN xms_max - n ELSE xms_max
           /\ mem' = IF b >= FourGB THEN mem
                     ELSE [free |-> mem.free + n, largest |-> Most(mem.largest, n),
                           highest |-> Most(mem.highest, b + n)]

(* I15GetMemoryStatus: the regions of E820, one after the other ...        *)
Region ==
  /\ phase = "regions" /\ item <= Len(machine.regions)
  /\ LET r == machine.regions[item]
     IN  IF r.base >= 1024 THEN I15SetHandle(r.base, r.len) ELSE UNCHANGED <<h, xms_max, mem>>
  /\ item' = item + 1
  /\ UNCHANGED <<machine, req, phase, sizes, ctrl, mon, layout, max4K, pool>>

(* ... or, when that gave nothing, the size E801 or 88h say.               *)
RegionsDone ==
  /\ phase = "regions" /\ item > Len(machine.regions)
  /\ IF mem.largest = 0 THEN I15SetHandle(1024, machine.ext) ELSE UNCHANGED <<h, xms_max, mem>>
  /\ phase' = IF mem.largest = 0 /\ machine.ext = 0 THEN "failed" ELSE "alloc"
  /\ UNCHANGED <<machine, req, item, sizes, ctrl, mon, layout, max4K, pool>>
-----------------------------------------------------------------------------
(* AllocAndInitMem.  MONITORMIN and half of the DMA buffer for aligning it *)
MONITORMIN == 20 + 12 + 12 + 4
Align == IF req.dma <= 4 THEN 0 ELSE IF req.dma > 64 THEN 32 ELSE req.dma \div 2
kbneeded == machine.umb * 4 + req.dma + MONITORMIN + Align

(* MIN= as asked for, or half of the memory, at most 32 MB, for NODYN.     *)
AskedMin ==
  IF ~ (req.nopool /\ req.min = Unset) THEN Most(req.min, 0)
  ELSE (IF mem.largest >= 65536 THEN 32768 ELSE mem.largest \div 2) \div 16

Throttle(min) ==
  IF min * 16 + kbneeded > mem.largest /\ kbneeded < mem.largest
  THEN (mem.largest - kbneeded) \div 16 ELSE min
LeaveSome(min) ==
  IF mem.largest > kbneeded + 384 /\ mem.largest < min * 16 + 384 + kbneeded
  THEN (mem.largest - kbneeded - 384) \div 16 ELSE min
MinMem16k == IF AskedMin = 0 THEN 0 ELSE LeaveSome(Throttle(AskedMin))

PotentialEmsVcpiMemory ==
  IF req.nopool /\ MinMem16k * 16 < mem.free THEN MinMem16k * 16
  ELSE Most(mem.free - kbneeded, 0)
MaxMem16k == Least(Most(IF req.max = Unset THEN 7680 ELSE req.max, MinMem16k),
                   PotentialEmsVcpiMemory \div 16)
MaxEMSPages ==
  Most(Least(IF req.noems THEN 512 ELSE 2048, MaxMem16k), Least(MinMem16k, 32768))

(* ulcalc: the tables for pool and EMS.                                    *)
Tables(max, ems) ==
  Ceil((((max * 16) \div 1536 + 2 + IF req.nopool THEN 0 ELSE 128) * 64
        + 5 * ems + 255 * 4 + 255 * 8 + 64 * 4 + 1023) \div 1024, 4)

(* I15AllocMemory: the first block that is large enough; what is left of   *)
(* it gets the handle behind the last.                                     *)
Fitting(size) == {i \in DOMAIN h : h[i].flag = "FREE" /\ h[i].size >= size /\ h[i].base < FourGB}
I15AllocMemory(i, size) ==
  LET rest == Emb(h[i].base + size, h[i].size - size, "FREE")
      kept == [h EXCEPT ![i] = Emb(h[i].base, size, "USED")]
  IN  IF rest.size = 0 THEN kept ELSE Append(kept, rest)

GetEMBBase(handle) == h[1].base   \* the handle is not looked at

AllocAndInitMem ==
  /\ phase = "alloc"
  /\ LET total == kbneeded + Tables(MaxMem16k, MaxEMSPages) + MinMem16k * 16
     IN  /\ sizes' = [needed |-> total, min |-> MinMem16k, max |-> MaxMem16k, ems |-> MaxEMSPages]
         /\ IF Fitting(total) = {}
            THEN phase' = "failed" /\ UNCHANGED <<h, ctrl, mon, edi, max4K>>
            ELSE /\ ctrl' = Min(Fitting(total))
                 /\ h' = I15AllocMemory(ctrl', total)
                 /\ mon' = [start |-> GetEMBBase(ctrl'), end |-> GetEMBBase(ctrl') + total]
                 /\ edi' = mon'.start
                 /\ max4K' = (MaxMem16k + machine.conv) * 4      \* with those of EMS_Init1
                 /\ phase' = "tables"
  /\ UNCHANGED <<machine, req, item, xms_max, mem, dma, heap, umbs, shadow, pool>>
-----------------------------------------------------------------------------
(* InitMonitor: the monitor, then page directory, two page tables and the  *)
(* stack.                                                                  *)
PageTables ==
  /\ phase = "tables"
  /\ edi' = edi + machine.code * 4 + 16
  /\ phase' = "dma"
  /\ UNCHANGED <<machine, req, blocks, sizes, ctrl, mon, dma, heap, umbs, shadow, max4K, pool>>

(* The DMA buffer must be below 16 MB and must not cross a border of 64 KB *)
DmaSize == IF edi + req.dma > 16384 THEN 0 ELSE req.dma
DmaStart == IF DmaSize # 0 /\ (edi + DmaSize - 1) \div 64 # edi \div 64
            THEN (edi \div 64 + 1) * 64 ELSE edi
DmaBuffer ==
  /\ phase = "dma"
  /\ dma' = [start |-> DmaStart, size |-> DmaSize, below |-> DmaStart - edi]
  /\ phase' = "heap"
  /\ UNCHANGED <<machine, req, blocks, sizes, ctrl, mon, heap, edi, umbs, shadow, max4K, pool>>

(* The heap: TSS and IO bitmap, the pool's descriptors, the EMS tables.    *)
TSSLEN == 8336
HeapBytes == TSSLEN + (sizes.max * 64) \div 96 + 128 + (IF req.nopool THEN 0 ELSE req.handles * 64)
             + 5 * sizes.ems + 255 * 4 + 64 * 16 + 255 * 8
HeapPages == (HeapBytes + 4095) \div 4096

(* It has all of the space below the DMA buffer, and goes on above it.     *)
HeapPage_Below(i) == dma.start - dma.below + 4 * (i - 1)   \* mutant: as if there were no buffer

HeapPage(i) == IF 4 * i <= dma.below THEN dma.start - dma.below + 4 * (i - 1)
               ELSE dma.start + dma.size + 4 * (i - 1) - dma.below

(* What is taken from it: the saved vectors and the EMS tables only where  *)
(* the rest of the monitor's last page is too small (HeapMalloc).          *)
HeapMalloc(s, size) ==
  IF s.small >= size THEN [s EXCEPT !.small = @ - size] ELSE [s EXCEPT !.used = @ + size]
Saved == IF req.fastboot THEN <<320>> ELSE <<>>
PoolDescriptors == max4K \div 384 + 2 + IF req.nopool THEN 0 ELSE req.handles - 1
PoolInit1(s) == [s EXCEPT !.used = Ceil(@, 16) + PoolDescriptors * 64]
EmsInit2(s) ==
  LET t == FoldLeft(HeapMalloc, s, <<255 * 4, 64 * 16, 255 * 8>>)
  IN  [t EXCEPT !.used = @ + 5 * (sizes.ems + machine.conv)]
HeapUsed == EmsInit2(PoolInit1(FoldLeft(HeapMalloc, [small |-> machine.rest, used |-> TSSLEN], Saved))).used

Heap ==
  /\ phase = "heap"
  /\ heap' = [pages |-> [i \in 1 .. Most(HeapPages, dma.below \div 4) |-> HeapPage(i)], used |-> HeapUsed]
  /\ phase' = "end"
  /\ UNCHANGED <<machine, req, blocks, sizes, ctrl, mon, dma, edi, umbs, shadow, max4K, pool>>

(* The end of what is used of the heap becomes a physical address; if it   *)
(* is below the DMA buffer, the rest below is lost.                        *)
LastPage == LET i == heap.used \div 4096 + 1
            IN  IF i \in DOMAIN heap.pages THEN heap.pages[i] ELSE 0
EndOfMonitor ==
  /\ phase = "end"
  /\ LET end == IF LastPage < dma.start THEN dma.start + dma.size
                ELSE LastPage + IF heap.used % 4096 = 0 THEN 0 ELSE 4
         out == IF LastPage < dma.start THEN mon.end < end
                ELSE mon.end * 1024 < (LastPage * 1024) + (heap.used % 4096)
     IN  /\ edi' = IF out THEN edi ELSE end
         /\ max4K' = IF out THEN 0 ELSE max4K
         /\ phase' = IF out THEN "starved" ELSE "umbs"
  /\ UNCHANGED <<machine, req, blocks, sizes, ctrl, mon, dma, heap, umbs, shadow, pool>>

Left == Most(mon.end - edi, 0)

(* One page after the other is mapped into upper memory, while there are.  *)
MapUmb ==
  /\ phase = "umbs" /\ Left >= 4 /\ Cardinality(umbs) < machine.umb
  /\ umbs' = umbs \union {edi} /\ edi' = edi + 4
  /\ UNCHANGED <<machine, req, phase, blocks, sizes, ctrl, mon, dma, heap, shadow, max4K, pool>>

(* The page at FF000 is shadowed, to catch jumps to FFFF:0.                *)
ShadowRom ==
  /\ phase = "umbs" /\ (Left < 4 \/ Cardinality(umbs) = machine.umb)
  /\ IF Left >= 4 THEN shadow' = {edi} /\ edi' = edi + 4 ELSE UNCHANGED <<shadow, edi>>
  /\ phase' = "pool"
  /\ UNCHANGED <<machine, req, blocks, sizes, ctrl, mon, dma, heap, umbs, max4K, pool>>

(* Pool_Init2: the rest is for EMS and VCPI, with NODYN not more than MAX. *)
(* What the pool does not take, less than 16 KB or above MAX, goes back    *)
(* (xms_ext_realloc_emb).                                                  *)
Given == IF req.nopool THEN Least(Left \div 4, max4K - machine.conv * 4) ELSE Left \div 4
Shrink(to) ==
  LET rest == h[ctrl].size - to
      next == {i \in DOMAIN h : h[i].flag = "FREE" /\ h[i].base = h[ctrl].base + h[ctrl].size}
      kept == [h EXCEPT ![ctrl].size = to]
  IN  IF rest = 0 THEN h
      ELSE IF next = {} THEN Append(kept, Emb(h[ctrl].base + to, rest, "FREE"))
      ELSE [kept EXCEPT ![Min(next)].base = @ - rest, ![Min(next)].size = @ + rest]

PoolInit2 ==
  /\ phase = "pool"
  /\ max4K' = IF req.nopool THEN Given + machine.conv * 4 ELSE max4K
  /\ pool' = (Given \div 4) * 16
  /\ h' = Shrink(edi + pool' - mon.start)
  /\ phase' = "running"
  /\ UNCHANGED <<machine, req, item, xms_max, mem, sizes, ctrl, mon, dma, heap, edi, umbs, shadow>>

Next == Region \/ RegionsDone \/ AllocAndInitMem \/ PageTables \/ DmaBuffer \/ Heap
        \/ EndOfMonitor \/ MapUmb \/ ShadowRom \/ PoolInit2
Spec == Init /\ [][Next]_vars
-----------------------------------------------------------------------------
Pages(first, n) == {first + 4 * i : i \in 0 .. n - 1}
Fixed == Pages(mon.start, machine.code + 4)
Buffer == Pages(dma.start, dma.size \div 4)
Tabled == {p \in Range(heap.pages) : \E i \in DOMAIN heap.pages :
             heap.pages[i] = p /\ (i - 1) * 4096 < heap.used}
Laid == phase \in {"umbs", "pool", "running"}

BootTypeOK ==
  /\ phase \in {"regions", "alloc", "tables", "dma", "heap", "end", "umbs", "pool", "running", "starved", "failed"}
  /\ h \in Seq([base : Nat, size : Nat, flag : {"FREE", "USED"}])
  /\ Len(h) <= Len(machine.regions) + 2
  /\ phase # "failed" => sizes.min <= sizes.max
  /\ edi >= 0 /\ pool % 16 = 0

(* No page of the block has two uses: monitor and page tables, DMA buffer, *)
(* heap, UMBs, shadowed ROM, EMS and VCPI; and none is outside of it.      *)
Apart(a, b) == a \intersect b = {}
LaidOut ==
  Laid => /\ Apart(Fixed, Buffer) /\ Apart(Fixed \union Buffer, Tabled)
          /\ Apart(umbs \union shadow, Fixed \union Buffer \union Tabled) /\ Apart(umbs, shadow)
          /\ \A p \in Fixed \union Buffer \union Tabled \union umbs \union shadow :
               p >= mon.start /\ p + 4 <= (IF phase = "umbs" THEN mon.end ELSE edi)
          /\ edi + pool <= mon.end

(* What aligning the DMA buffer costs: the space below that the heap does  *)
(* not use.  Half of the buffer, at most 32 KB, is allocated for it.  That *)
(* this is enough does not hold of every place the block may have          *)
(* (INIT16.ASM:1614-1620).                                                 *)
Wasted == IF LastPage >= dma.start THEN 0 ELSE dma.start - (LastPage + 4)
WasteTaken == phase \in {"umbs", "pool", "running", "starved"} => Wasted <= Align

(* Memory for UMBs, the shadowed page and what MIN= asks for was included  *)
(* in what was allocated, if no more is wasted than was allocated for it.  *)
EnoughTaken ==
  WasteTaken =>
    /\ phase # "starved"
    /\ phase = "running" => /\ Cardinality(umbs) = machine.umb /\ shadow # {}
                            /\ pool + 16 >= sizes.min * 16

(* The DMA buffer can be used by an ISA DMA controller.  (Of more than     *)
(* 64 KB that is claimed if it would begin 128 KB below 16 MB or earlier.) *)
DmaReachable ==
  Laid => /\ dma.size <= 64 \/ dma.start - dma.below < 16384 - 128
                => dma.start + dma.size <= 16384
          /\ dma.size \in 1 .. 64 => dma.start \div 64 = (dma.start + dma.size - 1) \div 64

(* "DMA must be below 16M border" (INIT.ASM:785).  It does not hold: this  *)
(* is tested before a buffer of more than 64 KB is moved to the next       *)
(* border of 64 KB (INIT.ASM:790-800).                                     *)
DmaBelow16M == Laid => dma.start + dma.size <= 16384

(* All memory reported stays somewhere: the blocks do not overlap, and     *)
(* they add up to what the BIOS reported below 4 GB.                       *)
NothingLost ==
  /\ \A i, k \in DOMAIN h : i # k => h[i].base + h[i].size <= h[k].base \/ h[k].base + h[k].size <= h[i].base
  /\ FoldLeft(LAMBDA n, e : n + e.size, 0, SelectSeq(h, LAMBDA e : e.base < FourGB)) = mem.free

(* The monitor is in the block that was allocated for it.                  *)
MonitorInOwnBlock ==
  phase \in {"tables", "running"} => h[ctrl].base = mon.start /\ h[ctrl].flag = "USED"

(* What is taken from the heap was mapped.                                 *)
HeapFits == Laid => heap.used <= 4096 * Len(heap.pages)

(* MIN= alone never keeps Jemm from loading.                               *)
LoadsWithMin ==
  phase = "failed" /\ mem.largest > 0 =>
    LET max == Least(IF req.max = Unset THEN 7680 ELSE req.max, Most(mem.free - kbneeded, 0) \div 16)
    IN  mem.largest < kbneeded + Tables(max, Least(2048, max))
=============================================================================
