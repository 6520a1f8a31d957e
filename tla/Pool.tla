-------------------------------- MODULE Pool --------------------------------
(***************************************************************************)
(* The dynamic page pool of src/src/POOL.ASM.  EMS (16 KB pages) and VCPI  *)
(* (4 KB pages) are served from pool blocks.  A pool block is a descriptor *)
(* with a bitmap; its memory is a slice of an EMB that the pool takes from *)
(* the XMS handle table when it needs memory and gives back when no page   *)
(* of the EMB is in use.  XMS clients work on the same table.              *)
(*                                                                         *)
(* Every entry runs to completion in the ring 0 monitor: one action each.  *)
(* Addresses and sizes are in KB, as in POOL_SYSTEM_INFO.                  *)
(***************************************************************************)
EXTENDS Xms, FiniteSets

CONSTANTS
  PageK,        (* KB of a VCPI page, 4                                    *)
  PPC,          (* pages of a 16K chunk (an EMS page), 4                   *)
  Space,        (* POOLBLOCK_ALLOCATION_SPACE, 48: one byte maps 2 chunks  *)
  MaxPages,     (* dwMaxMem4K, "max 4k pages allowed"                      *)
  MaxEms,       (* EMSPagesMax                                             *)
  SysK,         (* KB of the EMB that the monitor itself occupies          *)
  FixBase,      (* where its preallocated pages begin                      *)
  FixPages      (* how many VCPI pages they are                            *)

ChunkK == PageK * PPC             \* also MINXMSSIZE
BlockK == 2 * Space * ChunkK      \* POOLBLOCK_MEMSIZE

(* The monitor's EMB is in the first region, extended memory below 4 GB;   *)
(* no memory is at address 0, which marks an unused descriptor.            *)
PoolSizes ==
  /\ PageK \in Nat \ {0} /\ PPC \in Nat \ {0} /\ Space \in Nat \ {0}
  /\ MaxPages \in Nat /\ MaxEms \in Nat
  /\ SysK \in Nat /\ FixBase \in Nat /\ FixPages \in Nat
  /\ Regions # << >> /\ FixBase % PageK = 0 /\ FixPages % PPC = 0
  /\ \A r \in 1 .. Len(Regions) : Regions[r].base > 0
  /\ Regions[1].base < FourGB
  /\ Regions[1].base <= FixBase
  /\ FixBase + FixPages * PageK <= Regions[1].base + SysK
  /\ SysK <= Regions[1].size

ASSUME PoolAssumption == PoolSizes

VARIABLES
  blk,          (* pool table: index -> POOL_SYSTEM_INFO with its bitmap   *)
  end,          (* PoolAllocationEnd: number of entries searched           *)
  total,        (* dwTotalMem4K                                            *)
  used,         (* dwUsedMem4K                                             *)
  lastAlloc,    (* LastBlockAllocated, 0 if none                           *)
  lastFreed,    (* LastBlockFreed, 0 if none                               *)
  embs,         (* XMSPoolBlockCount                                       *)
  vcpi,         (* pages that VCPI clients hold: <<block, page>>           *)
  ems           (* chunks of EMS pages: EMSPD.wIndex and EMSPD2.bSubIdx    *)

pool == <<blk, end, total, used, lastAlloc, lastFreed, embs, vcpi, ems>>
vars == <<h, blk, end, total, used, lastAlloc, lastFreed, embs, vcpi, ems>>

(* Pool_Init1: descriptors for the maximum, one more per XMS handle.       *)
PoolBlocks == MaxPages \div (2 * Space * PPC) + NumHandles + 1
Blk == 1 .. PoolBlocks

(* An unused descriptor has psi_addressK = 0.  The fields that the code    *)
(* leaves in it are not read before Pool_PrepareBlock has set them.        *)
Unused == [addrK |-> 0, owner |-> 0, free4 |-> 0, free16 |-> 0, max16 |-> 0,
           startadj |-> 0, endadj |-> 0, fixed |-> FALSE, bits |-> {}]

RoundUp(a) == ((a + PageK - 1) \div PageK) * PageK
ChunkPages(c) == (c * PPC) .. (c * PPC + PPC - 1)
FreeDescriptors(s) == {b \in Blk : s.blk[b].addrK = 0}
InUse(s) == {b \in 1 .. s.end : s.blk[b].addrK # 0}

(* The searches go through whole bytes, that is pairs of chunks.           *)
Searched(k) == 0 .. (2 * ((k.max16 + 1) \div 2) - 1)
FreeChunks(k) == {c \in Searched(k) : ChunkPages(c) \cap k.bits = {}}
FreePages(k) == UNION {ChunkPages(c) \ k.bits : c \in Searched(k)}
-----------------------------------------------------------------------------
(* Pool_PrepareBlock.  With an odd number of chunks the second nibble of   *)
(* the last byte is marked used.                                           *)
PrepareBlock(raw, sizeK, owner, fixed) ==
  LET a == RoundUp(raw)
      m == Lower((sizeK - (a - raw)) \div ChunkK, 2 * Space)
  IN  [addrK |-> a, owner |-> owner, free4 |-> m * PPC, free16 |-> m, max16 |-> m,
       startadj |-> a - raw, endadj |-> 0, fixed |-> fixed,
       bits |-> IF m % 2 = 1 THEN ChunkPages(m) ELSE {}]

(* Pool_AllocBlocksForEMB: slices of at most BlockK go to the unused       *)
(* descriptors in table order; what finds no descriptor is not managed.    *)
EnterBlock(g, b, owner, fixed) ==
  LET want == RoundUp(g.addr) - g.addr + BlockK
      k    == PrepareBlock(g.addr, Lower(want, g.left), owner, fixed)
      got  == k.max16 * ChunkK + k.startadj
      left == g.left - got
  IN  IF ~g.more \/ g.s.blk[b].addrK # 0 THEN g
      ELSE [s    |-> [g.s EXCEPT
                        !.blk[b] = [k EXCEPT !.endadj =
                          IF left < ChunkK /\ ~fixed THEN left ELSE 0],
                        !.end = Higher(@, b),
                        !.total = @ + k.free4],
            addr |-> g.addr + got,
            left |-> left,
            more |-> left >= ChunkK]

AllocBlocksForEMB(s, owner, addr, size, fixed) ==
  LET give[b \in 0 .. PoolBlocks] ==
        IF b = 0 THEN [s |-> s, addr |-> addr, left |-> size, more |-> TRUE]
        ELSE EnterBlock(give[b - 1], b, owner, fixed)
  IN  give[PoolBlocks].s
-----------------------------------------------------------------------------
(* Pool_AllocateEMBForPool.  Want is EBP, the size looked for.             *)
Want(s) == Higher(Lower(BlockK, (MaxPages - s.total) * PageK), ChunkK)
Adj(t, i) == RoundUp(t[i].base) - t[i].base
PagedK(t, i) == t[i].size - Adj(t, i)
Candidates(t) == {i \in Hdl : /\ t[i].flags = "FREE"
                              /\ t[i].base < FourGB
                              /\ PagedK(t, i) >= ChunkK}

(* The largest block up to the wanted size, else the smallest above it.    *)
BestEmb(t, want) ==
  LET small == {i \in Candidates(t) : PagedK(t, i) <= want}
  IN  IF small # {}
        THEN First({i \in small : \A j \in small : PagedK(t, j) <= PagedK(t, i)})
        ELSE First({i \in Candidates(t) :
                      \A j \in Candidates(t) : PagedK(t, i) <= PagedK(t, j)})

(* From the third EMB on the size doubles as long as the maximum allows.   *)
Doubled[n \in 0 .. 15] == IF n = 0 THEN BlockK ELSE 2 * Doubled[n - 1]

EmbSize(s) ==
  LET doublings == {n \in 0 .. ((s.embs - 1) % 16) :
                      n = 0 \/ Doubled[n] <= (MaxPages - s.total) * PageK}
  IN  IF Want(s) # BlockK \/ s.embs <= 1
        THEN Want(s)
        ELSE Doubled[CHOOSE n \in doublings : \A m \in doublings : m <= n]

CanTakeEmb(s) == /\ MaxPages > s.total
                 /\ FreeDescriptors(s) # {}
                 /\ Candidates(s.t) # {}

(* What of block i is kept; the rest goes to a blank handle, if there is   *)
(* one, as free memory.                                                    *)
KeptK(s, i) ==
  IF PagedK(s.t, i) > EmbSize(s) + ChunkK - 1 /\ Blanks(s.t) # {}
    THEN Adj(s.t, i) + EmbSize(s) ELSE s.t[i].size

TakenTab(t, i, keep) ==
  LET used_i == [t EXCEPT ![i] = [@ EXCEPT !.flags = "USED", !.locks = 1, !.size = keep]]
  IN  IF keep = t[i].size THEN used_i
      ELSE [used_i EXCEPT ![First(Blanks(t))] = FreeBlock(t[i].base + keep, t[i].size - keep)]

TakeBlock(s, i, keep) ==
  AllocBlocksForEMB([s EXCEPT !.t = TakenTab(@, i, keep), !.embs = @ + 1],
                    i, s.t[i].base, keep, FALSE)

TakeEmb(s) == LET i == BestEmb(s.t, Want(s)) IN TakeBlock(s, i, KeptK(s, i))
-----------------------------------------------------------------------------
(* Pool_ExpandBlock: can 32K of the XMS block behind the owner of b be     *)
(* added to pool block b?  A rest that is too small is noted in endadj.    *)
OwnerEnd(s, b) == s.t[s.blk[b].owner].base + s.t[s.blk[b].owner].size
Behind(s, b) == {j \in Hdl : s.t[j].base = OwnerEnd(s, b)}

AtEmbEnd(s, b) ==
  LET k == s.blk[b]
  IN  /\ k.addrK # 0 /\ ~k.fixed /\ k.max16 < 2 * Space - 1
      /\ k.addrK - k.startadj + k.endadj + k.max16 * ChunkK = OwnerEnd(s, b)
      /\ Behind(s, b) # {}

NextFree(s, b) == s.t[First(Behind(s, b))].flags = "FREE"
NextFits(s, b) == s.blk[b].endadj + s.t[First(Behind(s, b))].size >= 2 * ChunkK

CanExpand_AnyFlag(s, b) == AtEmbEnd(s, b) /\ NextFits(s, b)     \* mutant
CanExpand(s, b) == AtEmbEnd(s, b) /\ NextFree(s, b) /\ NextFits(s, b)

CutFront(e, k) == [e EXCEPT !.base = @ + k, !.size = @ - k]

Handover_NotGrown(t, i, n, take) ==     \* mutant: the owner is not grown
  [t EXCEPT ![n] = IF t[n].size - take < ChunkK
                     THEN Blank(@.locks)
                     ELSE CutFront(@, take)]

(* take KB go from the front of XMS block n to block i before it.  If less *)
(* than a chunk is left, the handle of n is blanked.                       *)
Handover(t, i, n, take) ==
  [t EXCEPT ![n] = IF t[n].size - take < ChunkK
                     THEN Blank(@.locks)
                     ELSE CutFront(@, take),
            ![i].size = @ + take]

Grown_OneFree(k) ==                     \* mutant: psi_16kfree is raised by one
  [k EXCEPT !.max16 = @ + 2, !.free16 = @ + 1, !.free4 = @ + 2 * PPC]

Grown(k) == [k EXCEPT !.max16 = @ + 2, !.free16 = @ + 2, !.free4 = @ + 2 * PPC]

ExpandBlock(s, b) ==
  LET n    == First(Behind(s, b))
      take == 2 * ChunkK - s.blk[b].endadj
      rest == s.t[n].size - take
  IN  [s EXCEPT !.t = Handover(@, s.blk[b].owner, n, take),
                !.blk[b] = [Grown(@) EXCEPT !.endadj = IF rest < ChunkK THEN rest ELSE 0],
                !.total = @ + 2 * PPC]

Expandable(s) == {b \in 1 .. s.end : CanExpand(s, b)}
-----------------------------------------------------------------------------
(* Pool_FreeXMSPages: pages that the pool could still get from XMS.        *)
FreeXMSPages(t) ==
  LET sum[i \in 0 .. NumHandles] ==
        IF i = 0 THEN 0
        ELSE sum[i - 1] + IF i \in Candidates(t)
               THEN ((((t[i].base + t[i].size) \div PageK) * PageK - RoundUp(t[i].base))
                       \div ChunkK) * PPC
               ELSE 0
  IN  sum[NumHandles]

(* min(free pages, pages allowed).  The difference to the maximum is       *)
(* unsigned: below zero it is larger than any number of pages.             *)
FreePagesReported(s, u) ==
  LET free == FreeXMSPages(s.t) + s.total - u
  IN  IF MaxPages - u >= 0 THEN Lower(MaxPages - u, free) ELSE free

Free16Reported(s) ==
  LET sum[b \in 0 .. PoolBlocks] ==
        IF b = 0 THEN 0 ELSE sum[b - 1] + s.blk[b].free16
  IN  sum[PoolBlocks] + Lower(FreeXMSPages(s.t), Higher(MaxPages - s.total, 0)) \div PPC
-----------------------------------------------------------------------------
(* The search of Pool_Allocate4KPage and Pool_Allocate16KPage: the block   *)
(* last allocated from, the one last freed to, the table, then more memory *)
(* by expansion or by a new EMB.                                           *)
Has(k, four) == IF four THEN k.free4 # 0 ELSE k.free16 # 0
WithSpace(s, four) == {b \in 1 .. s.end : Has(s.blk[b], four)}

Refill(s, expandable) ==
  IF expandable # {} THEN ExpandBlock(s, First(expandable))
  ELSE IF CanTakeEmb(s) THEN TakeEmb(s) ELSE s

Pick(s, four) ==
  IF lastAlloc # 0 /\ Has(s.blk[lastAlloc], four) THEN lastAlloc
  ELSE IF lastFreed # 0 /\ Has(s.blk[lastFreed], four) THEN lastFreed
  ELSE First(WithSpace(s, four))

State == [t |-> h, blk |-> blk, end |-> end, total |-> total, embs |-> embs]

(* The state and, in it, the block from which a request is served.         *)
Ready(four) == IF WithSpace(State, four) # {} THEN State ELSE Refill(State, Expandable(State))
From(s, four) == IF WithSpace(State, four) # {} THEN Pick(State, four)
                 ELSE First(WithSpace(s, four))

Commit(s) == /\ h' = s.t /\ blk' = s.blk /\ end' = s.end
             /\ total' = s.total /\ embs' = s.embs

(* The bitmap and the two counts of block b change.                        *)
Recounted(s, b, bits, free4, free16) ==
  [s EXCEPT !.blk[b].bits = bits, !.blk[b].free4 = free4, !.blk[b].free16 = free16]

(* Pool_Allocate4KPage: the first page of block b in bit order.            *)
Give4K(s, b) ==
  LET k     == s.blk[b]
      p     == First(FreePages(k))
      whole == ChunkPages(p \div PPC) \cap k.bits = {}
  IN  /\ WithSpace(s, TRUE) # {}
      /\ FreePages(k) # {}
      /\ Commit(Recounted(s, b, k.bits \cup {p}, k.free4 - 1,
                          IF whole THEN k.free16 - 1 ELSE k.free16))
      /\ used' = used + 1
      /\ lastAlloc' = b
      /\ vcpi' = vcpi \cup {<<b, p>>}
      /\ UNCHANGED <<lastFreed, ems>>

(* VCPI_Allocate4K.                                                        *)
VcpiAllocate4K ==
  LET s == Ready(TRUE)
  IN  used < MaxPages /\ Give4K(s, From(s, TRUE))

(* Pool_Allocate16KPage: the first empty nibble of block b.                *)
Give16K(s, b) ==
  LET k == s.blk[b]
      c == First(FreeChunks(k))
  IN  /\ WithSpace(s, FALSE) # {}
      /\ FreeChunks(k) # {}
      /\ Commit(Recounted(s, b, k.bits \cup ChunkPages(c), k.free4 - PPC, k.free16 - 1))
      /\ used' = used + PPC
      /\ lastAlloc' = b
      /\ ems' = ems \cup {<<b, c>>}
      /\ UNCHANGED <<lastFreed, vcpi>>

(* AllocateEMSPage.                                                        *)
EmsAllocatePage ==
  LET s == Ready(FALSE)
  IN  /\ Cardinality(ems) < MaxEms
      /\ Free16Reported(State) > 0
      /\ Give16K(s, From(s, FALSE))
-----------------------------------------------------------------------------
(* Pool_FreeEMB: one scan that joins the EMB with the free blocks before   *)
(* and behind it.  hi is the end of the EMB before the scan.               *)
Absorb_SizeLost(t, a, k) == [t EXCEPT ![k] = Blank(0)]                  \* mutant
Absorb(t, a, k) == [t EXCEPT ![a].size = @ + t[k].size, ![k] = Blank(0)]

FreeEMB(t, i) ==
  LET hi == t[i].base + t[i].size
      scan[k \in 0 .. NumHandles] ==
        IF k = 0 THEN [t |-> [t EXCEPT ![i].flags = "FREE", ![i].locks = 0], esi |-> i]
        ELSE LET g == scan[k - 1]
             IN  IF g.t[k].flags # "FREE" \/ k = g.esi THEN g
                 ELSE IF g.t[k].base = hi
                   THEN [g EXCEPT !.t = Absorb(g.t, g.esi, k)]
                 ELSE IF g.t[k].base + g.t[k].size = g.t[g.esi].base
                   THEN [t |-> Absorb(g.t, k, g.esi), esi |-> k]
                 ELSE g
  IN  scan[NumHandles].t

TryFreeToXMS_OneBlock(s, b) ==    \* mutant: other blocks of the EMB are not tested
  LET o   == s.blk[b].owner
      own == {c \in InUse(s) : s.blk[c].owner = o}
      k   == s.blk[b]
  IN  IF k.fixed \/ k.free16 # k.max16 \/ k.free4 # k.max16 * PPC
        THEN s
        ELSE [s EXCEPT !.t = FreeEMB(@, o), !.embs = @ - 1, !.total = @ - k.max16 * PPC,
                       !.blk = [c \in Blk |-> IF c \in own THEN Unused ELSE s.blk[c]]]

(* Pool_TryFreeToXMS: if no page of the EMB of b is in use any more, its   *)
(* descriptors become unused and the EMB becomes free XMS memory.          *)
Empty(k) == ~k.fixed /\ k.free16 = k.max16 /\ k.free4 = k.max16 * PPC

TryFreeToXMS(s, b) ==
  LET o    == s.blk[b].owner
      own  == {c \in InUse(s) : s.blk[c].owner = o}
      rest == InUse(s) \ own
      size[c \in 0 .. PoolBlocks] ==
        IF c = 0 THEN 0
        ELSE size[c - 1] + IF c \in own THEN s.blk[c].max16 * PPC ELSE 0
  IN  IF ~Empty(s.blk[b]) \/ \E c \in own : ~Empty(s.blk[c])
        THEN s
        ELSE [t     |-> FreeEMB(s.t, o),
              blk   |-> [c \in Blk |-> IF c \in own THEN Unused ELSE s.blk[c]],
              end   |-> IF rest = {} THEN 1 ELSE CHOOSE c \in rest : \A d \in rest : d <= c,
              total |-> s.total - size[PoolBlocks],
              embs  |-> s.embs - 1]

(* Pool_FindBlock: the descriptor that manages address a, the two last     *)
(* used ones first.                                                        *)
Manages(b, a) == /\ blk[b].addrK # 0
                 /\ blk[b].addrK <= a /\ a < blk[b].addrK + blk[b].max16 * ChunkK
Managers(a) == {b \in 1 .. end : Manages(b, a)}
FindBlock(a) == IF lastFreed # 0 /\ Manages(lastFreed, a) THEN lastFreed
                ELSE IF lastAlloc # 0 /\ Manages(lastAlloc, a) THEN lastAlloc
                ELSE First(Managers(a))

PageAddr(x) == blk[x[1]].addrK + x[2] * PageK

(* Pool_Free4KPage: page p of block b, which FindBlock has found.          *)
Returned4K(b, p, free16) ==
  Recounted(State, b, blk[b].bits \ {p}, blk[b].free4 + 1, free16)

Free4K(b, p) ==
  /\ p \in blk[b].bits
  /\ Commit(IF ChunkPages(p \div PPC) \cap blk[b].bits = {p}
              THEN TryFreeToXMS(Returned4K(b, p, blk[b].free16 + 1), b)
              ELSE Returned4K(b, p, blk[b].free16))
  /\ used' = used - 1
  /\ lastFreed' = b

(* VCPI_Free4K, of a page that a client holds.                             *)
VcpiFree4K(x) ==
  LET a == PageAddr(x)
      b == FindBlock(a)
  IN  /\ x \in vcpi
      /\ Managers(a) # {}
      /\ Free4K(b, (a - blk[b].addrK) \div PageK)
      /\ vcpi' = vcpi \ {x}
      /\ UNCHANGED <<lastAlloc, ems>>

(* ReleaseEMSPage and Pool_Free16KPage.                                    *)
EmsReleasePage(x) ==
  LET b == x[1]
      k == blk[b]
      s == Recounted(State, b, k.bits \ ChunkPages(x[2]), k.free4 + PPC, k.free16 + 1)
  IN  /\ x \in ems
      /\ ChunkPages(x[2]) \subseteq k.bits
      /\ Commit(TryFreeToXMS(s, b))
      /\ used' = used - PPC
      /\ lastFreed' = b
      /\ ems' = ems \ {x}
      /\ UNCHANGED <<lastAlloc, vcpi>>
-----------------------------------------------------------------------------
(* The calls of XMS clients, who know only the handles they were given.    *)
PoolHdl == {blk[b].owner : b \in {c \in Blk : blk[c].addrK # 0 /\ ~blk[c].fixed}}
SysHdl == AllocHdl(BootTab, SysK, FALSE)
SysTab == AllocTab(BootTab, SysK, FALSE)
ClientHdl == {i \in Hdl : h[i].flags = "USED"} \ (PoolHdl \cup {SysHdl})

XmsCall ==
  /\ \/ \E sz \in ReqSizes : AllocEmb(sz, FALSE)
     \/ \E i \in ClientHdl : FreeEmb(i)
     \/ \E i \in ClientHdl, sz \in ReqSizes : ReallocEmb(i, sz)
  /\ UNCHANGED pool
-----------------------------------------------------------------------------
(* I15AllocMemory has taken the monitor's EMB, Pool_Init2 has entered the  *)
(* pages left in it as a block that is never expanded and never freed.     *)
Booted ==
  AllocBlocksForEMB([t |-> SysTab, blk |-> [b \in Blk |-> Unused],
                     end |-> 0, total |-> 0, embs |-> 0],
                    0, FixBase, FixPages * PageK, TRUE)

PoolInit ==
  /\ h = Booted.t /\ blk = Booted.blk /\ end = Booted.end
  /\ total = Booted.total /\ embs = Booted.embs
  /\ used = 0 /\ lastAlloc = 0 /\ lastFreed = 0
  /\ vcpi = {} /\ ems = {}

PoolNext ==
  \/ VcpiAllocate4K
  \/ EmsAllocatePage
  \/ \E x \in vcpi : VcpiFree4K(x)
  \/ \E x \in ems : EmsReleasePage(x)
  \/ XmsCall

PoolSpec == PoolInit /\ [][PoolNext]_vars
-----------------------------------------------------------------------------
PoolTypeOK ==
  /\ h \in [Hdl -> Emb]
  /\ blk \in [Blk -> [addrK : Nat, owner : 0 .. NumHandles, free4 : 0 .. 2 * Space * PPC,
                       free16 : 0 .. 2 * Space, max16 : 0 .. 2 * Space,
                       startadj : 0 .. (PageK - 1), endadj : 0 .. (ChunkK - 1),
                       fixed : BOOLEAN, bits : SUBSET (0 .. (2 * Space * PPC - 1))]]
  /\ end \in Blk /\ total \in Nat /\ used \in Nat
  /\ lastAlloc \in 0 .. PoolBlocks /\ lastFreed \in 0 .. PoolBlocks /\ embs \in Nat
  /\ vcpi \subseteq Blk \X Nat /\ ems \subseteq Blk \X Nat

Active == {b \in Blk : blk[b].addrK # 0}
Held(b) == {x[2] : x \in {y \in vcpi : y[1] = b}}
           \cup UNION {ChunkPages(x[2]) : x \in {y \in ems : y[1] = b}}

(* The counters that the searches trust agree with the bitmap and with     *)
(* what the clients hold; all blocks in use are below PoolAllocationEnd.   *)
CountsExact ==
  /\ Active \subseteq 1 .. end
  /\ \A b \in Active : /\ blk[b].free4 = Cardinality(FreePages(blk[b]))
                       /\ blk[b].free16 = Cardinality(FreeChunks(blk[b]))
                       /\ Held(b) \subseteq blk[b].bits
  /\ used = Cardinality(vcpi) + PPC * Cardinality(ems)

(* Every page that a client holds lies in an active block, inside the EMB  *)
(* that the pool took for it, and in no other block: no memory is handed   *)
(* out twice, to two pool clients or to a pool client and an XMS client.   *)
Span(b) == blk[b].addrK .. (blk[b].addrK + blk[b].max16 * ChunkK - 1)
SpanEnd(b) == IF blk[b].fixed THEN FixBase + FixPages * PageK ELSE OwnerEnd(State, b)

HeldInsideEmb ==
  \A b \in Blk : \A p \in Held(b) :
     LET a == blk[b].addrK + p * PageK
     IN  /\ b \in Active
         /\ a + PageK <= SpanEnd(b)
         /\ ~blk[b].fixed => h[blk[b].owner].flags = "USED" /\ h[blk[b].owner].locks = 1
         /\ \A c \in Active \ {b} : a \notin Span(c)

(* What a block manages, held or not, begins on a page boundary and lies   *)
(* inside an EMB that the table keeps in use, and locked, for it: no XMS   *)
(* client has any of this memory, and no other block manages any of it.    *)
HolderOf(k) == IF k.fixed THEN SysHdl ELSE k.owner

BlocksApart ==
  \A b \in Active :
     LET i == HolderOf(blk[b])
     IN  /\ h[i].flags = "USED" /\ (~blk[b].fixed => h[i].locks = 1)
         /\ blk[b].addrK % PageK = 0
         /\ \A a \in Span(b) : /\ a < SpanEnd(b)
                              /\ \A j \in Hdl : Covers(h, j, a) <=> j = i
                              /\ \A c \in Active \ {b} : a \notin Span(c)
         /\ ~blk[b].fixed => h[i].base <= blk[b].addrK - blk[b].startadj

(* The pool and the XMS clients share one handle table: a pool request     *)
(* never changes a block of an XMS client, an XMS call never one of the    *)
(* pool's.                                                                 *)
ClientsApart ==
  /\ XmsCall => \A i \in PoolHdl : h'[i] = h[i]
  /\ ~XmsCall => \A i \in ClientHdl : h'[i] = h[i]

(* The memory of an EMB is given back with the last page in use in it.     *)
IdleMemoryReturned ==
  \A i \in PoolHdl : \E b \in Active : ~blk[b].fixed /\ blk[b].owner = i /\ Held(b) # {}

(* What VCPI function 3 reports, function 4 can deliver: if pages are      *)
(* reported free, the next allocation of a page succeeds.                  *)
CanAllocate4K == used < MaxPages /\ WithSpace(Ready(TRUE), TRUE) # {}
FreePagesHonest == FreePagesReported(State, used) > 0 => CanAllocate4K

(* "free EMS pages": as long as the pool can, no page that was reported    *)
(* free to an EMS client is lost by giving it another page.                *)
EmsPromise ==
  EmsAllocatePage => Free16Reported(State)' >= Free16Reported(State) - 1
=============================================================================
