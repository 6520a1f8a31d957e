-------------------------------- MODULE Vds ---------------------------------
(***************************************************************************)
(* Virtual DMA Services, src/src/VDS.ASM: clients lock a region and learn  *)
(* its physical address, or get a piece of the one DMA buffer instead.     *)
(* The buffer is managed in KB by the bit vector DMABuffFree, 1-based,     *)
(* with a free bit on both sides.  Lengths and linear or physical          *)
(* addresses are in units, U to the KB.  Each int 4Bh call runs in ring 0  *)
(* without a break.                                                        *)
(***************************************************************************)
EXTENDS Naturals, FiniteSets, FiniteSetsExt, SequencesExt, TLC

CONSTANTS
  U,            (* units of a KB                                           *)
  PageU,        (* units of a page                                         *)
  Frame64,      (* units of 64 KB; VDSF_64KALIGN                           *)
  BuffMax,      (* ?DMABUFFMAX in KB                                       *)
  BuffK,        (* DMABuffSize in KB                                       *)
  Behind,       (* bound: the first bit behind the vector that is 1        *)
  LowTop,       (* the end of page table 0, 400000h                        *)
  Tables,       (* page table 0: linear page -> physical page, in several  *)
                (* states of the UMBs and the page frame                   *)
  PagesToMB,    (* pages below 1 MB, 256: above, linear is physical        *)
  Avail,        (* EDDS.wNumAvail of the clients                           *)
  DWord,        (* 2^32                                                    *)
  Regions,      (* DDS.dwOfs and dwSize of the clients' regions            *)
  Offsets,      (* BX:CX of the copy functions                             *)
  FlagSets,     (* DX of the lock function                                 *)
  MaxHeld,      (* bound: buffers in the hands of clients at a time        *)
  Channels,     (* DMA channels                                            *)
  MaxDisable    (* 255                                                     *)

VdsAssumption ==
  /\ {U, PageU, Frame64} \subseteq Nat \ {0} /\ Frame64 % PageU = 0
  /\ BuffK <= BuffMax /\ Behind >= BuffMax + 8
  /\ LowTop % PageU = 0 /\ DWord > LowTop

VARIABLES
  bits,         (* DMABuffFree: the bits that are 1                        *)
  held,         (* buffers of clients: id and KB, as answered              *)
  disable,      (* cDisable of the channels                                *)
  PhysPage,     (* page table 0 as it is during the calls                  *)
  ret           (* the last answer                                         *)

vars == <<bits, held, disable, PhysPage, ret>>

Bit == 0 .. (BuffK + 1)
InKB(n) == (n + U - 1) \div U
Span(id, k) == id .. (id + k - 1)
Init ==
  /\ bits = Bit /\ held = {}
  /\ PhysPage \in Tables
  /\ disable = [c \in Channels |-> 0]
  /\ ret = [op |-> "none"]
-----------------------------------------------------------------------------
(* Where a run of k + 1 free bits ends.                                    *)
Ends(k) == {t \in Bit \ {BuffK + 1} : t >= k /\ ((t - k) .. t) \subseteq bits}

(* testbuffer: "ok", or an error code.  The range check takes the 1-based  *)
(* number for an offset.                                                   *)
TestBuffer(b, id, size, off) ==
  CASE id = 0 \/ id > BuffMax \/ id - 1 \notin b \/ id \in b -> "INVAL_BUFFID"
    [] size > 0 /\ id + InKB(size + off) > BuffMax -> "BNDVIOLATION"
    [] size > 0 /\ Span(id, InKB(size + off)) \cap b # {} -> "BNDVIOLATION"
    [] OTHER -> "ok"

(* vds_reqbuff as a function of the size and the flags: the error if any,  *)
(* the id, and the bits afterwards.  The highest run is taken, without its *)
(* lowest bit.  If the copy fails the bits stay marked.                    *)
ReqBuff(size, flags) ==
  LET k == InKB(size)
      id == Max(Ends(k)) - k + 1
      left == bits \ Span(id, k)
  IN  CASE ~ flags \subseteq {"COPY"} -> [err |-> "DXRSVDBITSSET", id |-> 0, bits |-> bits]
        [] size = 0 -> [err |-> "ok", id |-> 0, bits |-> bits]
        [] k > BuffK -> [err |-> "BUFFTOOSMALL", id |-> 0, bits |-> bits]
        [] Ends(k) = {} -> [err |-> "BUFFINUSE", id |-> 0, bits |-> bits]
        [] OTHER -> [err |-> IF "COPY" \in flags THEN TestBuffer(left, id, size, 0) ELSE "ok",
                     id |-> id, bits |-> left]

Taken(q, size) == IF q.err = "ok" /\ q.id # 0 THEN {[id |-> q.id, k |-> InKB(size)]} ELSE {}
CanAsk == Cardinality(held) < MaxHeld

(* Function 07h.                                                           *)
vds_reqbuff(size, flags) ==
  LET q == ReqBuff(size, flags)
  IN  /\ CanAsk
      /\ bits' = q.bits
      /\ held' = held \cup Taken(q, size)
      /\ ret' = [op |-> "request", err |-> q.err]
      /\ UNCHANGED <<disable, PhysPage>>

(* Bits are set up to the first one that is set already, be it behind the  *)
(* buffer's bits or behind the whole vector.                               *)
Released(id) == bits \cup (id .. Min({b \in bits \cup {Behind} : b > id}))

CanRelease_AnyBit(id) ==   \* mutant: the bit at -1 is not tested
  id \in 1 .. BuffMax /\ id \notin bits
CanRelease(id) == id \in 1 .. BuffMax /\ id - 1 \in bits /\ id \notin bits

(* The number behind the upper guard bit, which the tests take for a       *)
(* buffer's: the bit before it is 1, its own is 0.                         *)
PastEnd == BuffK + 2

(* Functions 08h and 04h, without a copy or with one: only the id of the   *)
(* DDS tells which buffer it is, and the client's copy has its size.       *)
vds_relbuff(id, size, copy) ==
  LET e == CASE id = 0 -> "ok"
             [] id # 0 /\ ~ CanRelease(id) -> "INVAL_BUFFID"
             [] OTHER -> IF copy THEN TestBuffer(bits, id, size, 0) ELSE "ok"
      ok == id # 0 /\ e = "ok"
  IN  /\ bits' = IF ok THEN Released(id) ELSE bits
      /\ held' = IF ok THEN {b \in held : b.id # id} ELSE held
      /\ ret' = [op |-> "release", err |-> e]
      /\ UNCHANGED <<disable, PhysPage>>

(* Functions 09h and 0Ah move DDS.dwSize bytes from or to this offset.     *)
vds_copybuff(id, size, off) ==
  LET e == TestBuffer(bits, id, size, off)
  IN  /\ ret' = [op |-> "copy", err |-> e, id |-> id, size |-> size, off |-> off]
      /\ UNCHANGED <<bits, held, disable, PhysPage>>
-----------------------------------------------------------------------------
PageOf(a) == a \div PageU
Length(r) == IF r.size = 0 THEN 1 ELSE r.size
FinalAt(r) == r.start + Length(r) - 1
FrameSize(flags) == IF "A64" \in flags THEN Frame64 ELSE 2 * Frame64
Aligned(flags) == flags \cap {"A64", "A128"} # {}

(* How many pages from this one on are physically contiguous.              *)
ContiguousFrom(p, q) ==
  Cardinality({x \in p .. q : \A y \in p .. x : PhysPage[y] = PhysPage[p] + (y - p)})

(* The distance from the first page to the frame of the last one.          *)
ToFrame(p, q, f) == ((PhysPage[q] * PageU) \div f) * f - PhysPage[p] * PageU

(* vds_contiguous, through page table 0.                                   *)
Contiguous(r, flags) ==
  LET p == PageOf(r.start)  q == PageOf(FinalAt(r))
      off == r.start % PageU
      f == FrameSize(flags)
  IN  CASE ContiguousFrom(p, q) < q - p + 1 ->
             [err |-> "NOTCONTIGUOUS", size |-> ContiguousFrom(p, q) * PageU - off]
        [] Aligned(flags) /\ (PhysPage[p] * PageU) \div f # (PhysPage[q] * PageU) \div f ->
             [err |-> "CROSSEDBOUNDS", size |-> ToFrame(p, q, f) - off]
        [] OTHER -> [err |-> "ok", phys |-> PhysPage[p] * PageU + off]

(* vds_contiguous2, for what ends above it: linear is physical.            *)
Contiguous2(r, flags) ==
  LET f == FrameSize(flags)
      n == r.start \div f
  IN  IF Aligned(flags) /\ FinalAt(r) \div f # n
      THEN [err |-> "CROSSEDBOUNDS", size |-> (n + 1) * f - r.start]
      ELSE [err |-> "ok", phys |-> r.start]

(* Function 03h: the region itself, or a buffer if the region is not fit   *)
(* for DMA.  The flags go to vds_reqbuff as they are.  A refused client    *)
(* gets the contiguous length and the id 0, whatever failed.               *)
vds_lock(r, flags) ==
  LET low == FinalAt(r) < LowTop
      c == IF low THEN Contiguous(r, flags) ELSE Contiguous2(r, flags)
      buffering == low /\ "NOBUFFER" \notin flags
      q == ReqBuff(r.size, flags)
      answer == [op |-> "lock", region |-> r, flags |-> flags]
  IN  /\ CanAsk
      /\ UNCHANGED <<disable, PhysPage>>
      /\ IF c.err = "ok"
         THEN /\ ret' = answer @@ [err |-> "ok", id |-> 0, phys |-> c.phys]
              /\ UNCHANGED <<bits, held>>
         ELSE IF buffering
         THEN /\ bits' = q.bits
              /\ held' = held \cup Taken(q, r.size)
              /\ ret' = IF q.err = "ok" THEN answer @@ [err |-> "ok", id |-> q.id]
                        ELSE answer @@ [err |-> q.err, size |-> c.size]
         ELSE /\ ret' = answer @@ [err |-> c.err, size |-> c.size]
              /\ UNCHANGED <<bits, held>>
-----------------------------------------------------------------------------
(* Function 05h.  Where a physically contiguous part of the region starts. *)
(* The page at 1 MB starts one, unless the last page below it is mapped to *)
(* itself; behind it linear is physical.                                   *)
Starts(p, q) ==
  {x \in p .. q : \/ x = p
                  \/ x < PagesToMB /\ PhysPage[x] # PhysPage[x - 1] + 1
                  \/ x = PagesToMB /\ PhysPage[x - 1] # PagesToMB - 1}

(* The parts the region consists of, for a start below 1 MB.  The last one *)
(* gets what is left of EDDS.dwSize.                                       *)
Parts(r) ==
  LET starts == SetToSortSeq(Starts(PageOf(r.start), PageOf(FinalAt(r))), <)
      begin(i) == IF i = 1 THEN r.start ELSE starts[i] * PageU
      final(i) == IF i = Len(starts) THEN r.start + r.size ELSE begin(i + 1)
  IN  [i \in 1 .. Len(starts) |->
         [phys |-> (IF starts[i] = PagesToMB THEN PagesToMB ELSE PhysPage[starts[i]]) * PageU
                     + (begin(i) % PageU),
          size |-> final(i) - begin(i)]]

ScatterRegions(r, avail) ==
  LET parts == IF PageOf(r.start) >= PagesToMB
               THEN <<[phys |-> r.start, size |-> Length(r)]>> ELSE Parts(r)
      used == Len(parts)
  IN  CASE used <= avail -> [err |-> "ok", used |-> used, list |-> parts]
        [] PageOf(r.start) >= PagesToMB -> [err |-> "NAVL_TOOSMALL", used |-> 1, size |-> r.size]
        [] OTHER -> [err |-> "NAVL_TOOSMALL", used |-> used,
                     size |-> FoldLeft(LAMBDA n, e : n + e.size, 0, SubSeq(parts, 1, avail))]

(* With VDSF_PTE: entries of page table 0, as many as the length has pages *)
(* wherever the region starts in its first one; the offset in BX.          *)
ScatterPtes(r, avail) ==
  LET used == (Length(r) + PageU - 1) \div PageU
      entry(i) == LET x == PageOf(r.start) + i - 1
                  IN  IF x < PageOf(LowTop) THEN {PhysPage[x]} ELSE {}
      off == r.start % PageU
  IN  IF used <= avail
      THEN [err |-> "ok", used |-> used, list |-> [i \in 1 .. used |-> entry(i)], bx |-> off]
      ELSE [err |-> "NAVL_TOOSMALL", used |-> used, size |-> (DWord + avail * PageU - off) % DWord]

vds_scatterlock(r, flags, avail) ==
  /\ ret' = [op |-> "scatter", region |-> r, flags |-> flags, avail |-> avail]
             @@ CASE ~ flags \subseteq {"PTE", "NPPTE"} -> [err |-> "DXRSVDBITSSET"]
                  [] "PTE" \in flags -> ScatterPtes(r, avail)
                  [] OTHER -> ScatterRegions(r, avail)
  /\ UNCHANGED <<bits, held, disable, PhysPage>>

(* Function 06h does not know which regions are locked.                    *)
vds_scatterunlock(flags) ==
  /\ ret' = [op |-> "unlock", err |-> IF flags \subseteq {"PTE", "NPPTE"} THEN "ok" ELSE "DXRSVDBITSSET"]
  /\ UNCHANGED <<bits, held, disable, PhysPage>>
-----------------------------------------------------------------------------
(* Functions 0Bh and 0Ch: a counter per channel, with its limits.          *)
vds_disabletrans(c) ==
  /\ disable' = [disable EXCEPT ![c] = IF @ = MaxDisable THEN @ ELSE @ + 1]
  /\ ret' = [op |-> "disable", err |-> IF disable[c] = MaxDisable THEN "DISCNTOVFL" ELSE "ok"]
  /\ UNCHANGED <<bits, held, PhysPage>>

vds_enabletrans(c) ==
  /\ disable' = [disable EXCEPT ![c] = IF @ = 0 THEN @ ELSE @ - 1]
  /\ ret' = [op |-> "enable", err |-> IF disable[c] = 0 THEN "DISCNTUNFL" ELSE "ok"]
  /\ UNCHANGED <<bits, held, PhysPage>>

LengthsAsked == {r.size : r \in Regions}
ScatterFlags == {{}, {"PTE"}, {"COPY"}}

(* vds_handler calls one function for each int 4Bh.  Clients use their     *)
(* buffers, and by mistake numbers that nobody has.                        *)
Next ==
  \/ \E n \in LengthsAsked, f \in SUBSET {"COPY"} : vds_reqbuff(n, f)
  \/ \E id \in 0 .. (BuffMax + 1), n \in LengthsAsked, copy \in BOOLEAN : vds_relbuff(id, n, copy)
  \/ \E id \in 0 .. (BuffMax + 1), n \in LengthsAsked, o \in Offsets : vds_copybuff(id, n, o)
  \/ \E r \in Regions, f \in FlagSets : vds_lock(r, f)
  \/ \E r \in Regions, f \in ScatterFlags, n \in Avail : vds_scatterlock(r, f, n)
  \/ \E f \in ScatterFlags : vds_scatterunlock(f)
  \/ \E c \in Channels : vds_disabletrans(c) \/ vds_enabletrans(c)

Spec == Init /\ [][Next]_vars
-----------------------------------------------------------------------------
(* The guard bits are never used; counters and bits stay in their range.   *)
VdsTypeOK ==
  /\ bits \subseteq 0 .. Behind /\ {0, BuffK + 1} \subseteq bits
  /\ held \subseteq [id : 1 .. BuffK, k : 1 .. BuffK]
  /\ disable \in [Channels -> 0 .. MaxDisable]

(* A bit is clear exactly if the KB belongs to a buffer some client holds: *)
(* no part is leaked by a refused call, handed out twice, or freed by a    *)
(* number that is not the client's (VDS.ASM:217-231, 281-300).             *)
BuffersTracked ==
  /\ Bit \ bits = UNION {Span(b.id, b.k) : b \in held}
  /\ \A b, c \in held : b # c => Span(b.id, b.k) \cap Span(c.id, c.k) = {}

(* A client that holds a buffer can give it back: "the bit at position -1  *)
(* must be 1 and bit 0 must be 0; the region ends with a 1 bit"            *)
(* (VDS.ASM:277-279), and only its own KBs are freed then.                 *)
OwnBufferReleasable ==
  \A b \in held : CanRelease(b.id) /\ Released(b.id) = bits \cup Span(b.id, b.k)

PhysOf(a) == IF a < LowTop THEN PhysPage[PageOf(a)] * PageU + (a % PageU) ELSE a
SameFrame(r, flags) ==
  Aligned(flags) => PhysOf(r.start) \div FrameSize(flags) = PhysOf(FinalAt(r)) \div FrameSize(flags)
FitForDma(r, flags) ==
  /\ \A a \in r.start .. FinalAt(r) : PhysOf(a) = PhysOf(r.start) + (a - r.start)
  /\ SameFrame(r, flags)

(* Function 03h, as its comment has it: a region that is locked where it   *)
(* is, is contiguous and crosses no border it must not cross; a client     *)
(* that gets a buffer instead could not have used its region.              *)
LockedIsFit ==
  ret.op = "lock" /\ ret.err = "ok" =>
    IF ret.id = 0
    THEN ret.phys = PhysOf(ret.region.start) /\ FitForDma(ret.region, ret.flags)
    ELSE ~ FitForDma(ret.region, ret.flags)

(* "DDS.dwSize = size that would be ok": the same call with this size is   *)
(* served in place.  (With an alignment flag this is true of regions in    *)
(* page table 0 only if they reach into no third frame.)                   *)
RefusedSizeFits ==
  ret.op = "lock" /\ ret.err # "ok" /\ (Aligned(ret.flags) => FinalAt(ret.region) >= LowTop) =>
    /\ ret.size \in 1 .. (Length(ret.region) - 1)
    /\ FitForDma([ret.region EXCEPT !.size = ret.size], ret.flags)
    /\ ~ FitForDma([ret.region EXCEPT !.size = ret.size + 1], ret.flags)

(* What functions 09h and 0Ah move lies inside the buffer with this id,    *)
(* whatever number is given, except for PastEnd: see PastEndRefused.       *)
CopyInside ==
  ret.op = "copy" /\ ret.err = "ok" /\ ret.size > 0 /\ ret.id # PastEnd =>
    \E b \in held : b.id = ret.id /\ ret.off + ret.size <= b.k * U

(* testbuffer: "test if a buffer is valid and as large as required": a     *)
(* number behind the buffer is no buffer's.  It does not hold: nothing is  *)
(* compared with DMABuffSize (VDS.ASM:274, 327), so memory behind the      *)
(* buffer is copied, and a release sets bits until it finds a 1.           *)
PastEndRefused ==
  /\ ~ CanRelease(PastEnd)
  /\ ret.op = "copy" /\ ret.id = PastEnd => ret.err # "ok"

(* Does this list describe n units from this address on, each by the place *)
(* it really has?                                                          *)
Describes(list, start, n) ==
  LET before(i) == FoldLeft(LAMBDA m, e : m + e.size, 0, SubSeq(list, 1, i - 1))
  IN  /\ before(Len(list) + 1) = n
      /\ \A i \in DOMAIN list : \A k \in 0 .. (list[i].size - 1) :
           PhysOf(start + before(i) + k) = list[i].phys + k

(* Function 05h: the regions answered are the client's region, piece by    *)
(* piece, also across 1 MB and with the page frame or a UMB in it; if the  *)
(* list is too short, wNumUsed entries would do and dwSize, the "length    *)
(* that can be locked with current entries", is one that is locked.        *)
ScatterHonest ==
  ret.op = "scatter" /\ ret.flags = {} /\ ret.region.size > 0 =>
    IF ret.err = "ok" THEN Describes(ret.list, ret.region.start, ret.region.size)
    ELSE /\ ScatterRegions(ret.region, ret.used).err = "ok"
         /\ ret.avail > 0 =>
              ScatterRegions([ret.region EXCEPT !.size = ret.size], ret.avail).err = "ok"

(* "wNumUsed: number of entries required to fully describe region": with   *)
(* VDSF_PTE too there is an entry for each page the region touches.        *)
PtesDescribe ==
  ret.op = "scatter" /\ ret.flags = {"PTE"} /\ ret.err = "ok" =>
    ret.used >= PageOf(FinalAt(ret.region)) - PageOf(ret.region.start) + 1

(* The cases in the comment on vds_lock: with buffering allowed, a region  *)
(* that is not fit is refused only if the buffer is too small or in use.   *)
LockBuffered ==
  ret.op = "lock" /\ ret.err # "ok" /\ "NOBUFFER" \notin ret.flags
    => ret.err \in {"BUFFTOOSMALL", "BUFFINUSE"}
=============================================================================
