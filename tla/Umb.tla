-------------------------------- MODULE Umb ---------------------------------
(***************************************************************************)
(* Upper memory blocks: src/src/UMB.ASM, and the part of InitMonitor       *)
(* (src/src/INIT.ASM) that takes memory from the first block at boot.      *)
(* The blocks are a table of UMB_MAX_BLOCKS entries.  Addresses and sizes  *)
(* are in paragraphs.  Each XMS call is served in ring 0 without a break.  *)
(***************************************************************************)
EXTENDS Naturals, FiniteSets

CONSTANTS
  Blocks,       (* UMB_MAX_BLOCKS                                          *)
  Grain,        (* 80h: blocks are cut at multiples of 2 KB                *)
  PageP,        (* paragraphs of a page                                    *)
  Pages,        (* A0h .. F7h                                              *)
  PageMap,      (* where the memory for UMBs begins in a page: 0, inside   *)
                (* it (a split ROM), or PageP if there is none             *)
  ConvTop,      (* end of conventional memory, 40:13h                      *)
  ResSize,      (* the resident part that moves high, 0 with NOHI          *)
  Sizes         (* what clients ask for                                    *)

VARIABLES
  umb,          (* UMBsegments                                             *)
  held,         (* the clients' blocks: segment and size they asked for    *)
  ret           (* the answer of the last call                             *)

umbVars == <<umb, held, ret>>

BlankUmb == [segm |-> 0, size |-> 0, used |-> FALSE]
Entry == 1 .. Blocks
RoundUp(n) == ((n + Grain - 1) \div Grain) * Grain
Area(b) == b.segm .. (b.segm + b.size - 1)
-----------------------------------------------------------------------------
(* UMB_Init: adjacent pages make one block, but a split page begins a new  *)
(* one; what finds no entry is not used.                                   *)
Starts ==
  {p \in Pages : PageMap[p] < PageP
                 /\ (p - 1 \in Pages => PageMap[p - 1] = PageP \/ PageMap[p] > 0)}
LastPage(p) == CHOOSE q \in Pages :
  /\ q >= p
  /\ \A r \in (p + 1) .. q : PageMap[r] = 0
  /\ q + 1 \in Pages => PageMap[q + 1] > 0
Found(i) == {p \in Starts : Cardinality({q \in Starts : q < p}) = i - 1}
BootTable == [i \in Entry |->
  IF Found(i) = {} THEN BlankUmb
  ELSE LET p == CHOOSE q \in Found(i) : TRUE
           s == p * PageP + PageMap[p]
       IN  [segm |-> s, size |-> (LastPage(p) + 1) * PageP - s, used |-> FALSE]]

(* InitMonitor: a first block right behind conventional memory joins it.   *)
Joined == BootTable[1].segm = ConvTop
High == IF Joined THEN 2 ELSE 1          \* the resident part goes there
MovesHigh == High \in Entry /\ BootTable[High].segm # 0

(* The pages of upper memory are one range below 1 MB.                     *)
ASSUME UmbAssumption ==
  /\ Blocks \in Nat \ {0} /\ Grain \in Nat \ {0} /\ PageP \in Nat \ {0}
  /\ Pages \subseteq 1 .. 255 /\ \A p, q \in Pages : p .. q \subseteq Pages
  /\ \A p \in Pages : PageMap[p] \in 0 .. PageP
  /\ ConvTop \in Nat \ {0} /\ ResSize \in Nat /\ Sizes \subseteq Nat \ {0}

(* Words: wSegm and wSize wrap around, and the highest bit of wSize is the *)
(* flag of a block in use.  Upper memory ends below 1 MB and is less than  *)
(* what wSize can hold beside the flag.                                    *)
Word == 65536
UMB_ALLOCATED == 32768
ASSUME UmbWords ==
  /\ \A q \in Pages : (q + 1) * PageP < Word
  /\ \A p, q \in Pages : (q + 1) * PageP < p * PageP + UMB_ALLOCATED

(* What InitMonitor does not check (INIT.ASM:1381-1405): that the resident *)
(* part fits the block it goes to.  It is less than a page, code and at    *)
(* most 128 handles of 10 bytes; but a block that is one split page may be *)
(* as small as 512 bytes.                                                  *)
ResidentFits == MovesHigh => ResSize <= BootTable[High].size

Resident == IF MovesHigh THEN BootTable[High].segm .. (BootTable[High].segm + ResSize - 1) ELSE {}
HighLeft == (Word + BootTable[High].size - ResSize) % Word
InitTable ==
  [i \in Entry |->
     IF MovesHigh /\ i = High
     THEN [segm |-> (BootTable[i].segm + ResSize) % Word,
           size |-> HighLeft % UMB_ALLOCATED, used |-> HighLeft >= UMB_ALLOCATED]
     ELSE [segm |-> BootTable[i].segm, size |-> BootTable[i].size, used |-> Joined /\ i = 1]]

Memory == (UNION {Area(BootTable[i]) : i \in Entry}) \ Resident
UmbInit == umb = InitTable /\ held = {} /\ ret = [op |-> "none"]
-----------------------------------------------------------------------------
Free == {i \in Entry : umb[i].segm # 0 /\ ~umb[i].used}
FirstOf(S) == CHOOSE i \in S : \A j \in S : i <= j
BlankEntries == {i \in Entry : umb[i].segm = 0}

Split_SizeKept(i, n) ==   \* mutant: the size of the first part is not updated
  LET e == umb[i]  f == FirstOf(BlankEntries)
  IN  [umb EXCEPT ![i] = [e EXCEPT !.used = TRUE],
                  ![f] = [segm |-> e.segm + RoundUp(n), size |-> e.size - RoundUp(n), used |-> FALSE]]

(* The rest of block i goes to the first blank entry.                      *)
Split(i, n) ==
  LET e == umb[i]  f == FirstOf(BlankEntries)
  IN  [umb EXCEPT ![i] = [segm |-> e.segm, size |-> RoundUp(n), used |-> TRUE],
                  ![f] = [segm |-> e.segm + RoundUp(n), size |-> e.size - RoundUp(n), used |-> FALSE]]

LargestUmb(S) ==
  IF S = {} THEN 0
  ELSE CHOOSE n \in {umb[i].size : i \in S} : \A i \in S : umb[i].size <= n

CanCut(n, i) == n + Grain <= umb[i].size /\ BlankEntries # {}

(* Function 10h: first fit.  The block is cut if at least 2 KB would be    *)
(* left and the table has a blank entry, else it is given as it is.        *)
UMB_alloc(n) ==
  LET fit == {i \in Free : n <= umb[i].size}
      i == FirstOf(fit)
  IN  IF fit # {}
      THEN /\ umb' = IF CanCut(n, i) THEN Split(i, n) ELSE [umb EXCEPT ![i].used = TRUE]
           /\ held' = held \cup {[segm |-> umb[i].segm, size |-> n]}
           /\ ret' = [op |-> "alloc", ax |-> 1, segm |-> umb[i].segm, dx |-> umb'[i].size]
      ELSE /\ ret' = [op |-> "alloc", ax |-> 0, asked |-> n, dx |-> LargestUmb(Free),
                      bl |-> IF LargestUmb(Free) = 0 THEN "B1h" ELSE "B0h"]
           /\ UNCHANGED <<umb, held>>

(* UMB_findblock: only the first entry with this segment is looked at.     *)
FindBlock(segm) ==
  LET S == {i \in Entry : umb[i].segm = segm}
  IN  IF S # {} /\ umb[FirstOf(S)].used THEN FirstOf(S) ELSE 0

HeldAt(segm) == {b \in held : b.segm = segm}

(* Function 11h.  Free blocks are never merged.                            *)
UMB_free(segm) ==
  LET i == FindBlock(segm)
  IN  IF i = 0
      THEN ret' = [op |-> "free", ax |-> 0, bl |-> "B2h"] /\ UNCHANGED <<umb, held>>
      ELSE /\ umb' = [umb EXCEPT ![i].used = FALSE]
           /\ held' = held \ HeldAt(segm)
           /\ ret' = [op |-> "free", ax |-> 1]

FitsIn_Allocated(n, i) ==   \* mutant: the allocated flag is left in the size
  n <= umb[i].size + Grain
FitsIn(n, i) == n <= umb[i].size

(* Function 12h: the block stays as it is.                                 *)
UMB_realloc(segm, n) ==
  LET i == FindBlock(segm)
  IN  /\ UNCHANGED umb
      /\ IF i # 0 /\ FitsIn(n, i)
         THEN /\ held' = {IF b.segm = segm THEN [b EXCEPT !.size = n] ELSE b : b \in held}
              /\ ret' = [op |-> "realloc", ax |-> 1]
         ELSE /\ held' = held
              /\ ret' = IF i = 0 THEN [op |-> "realloc", ax |-> 0, bl |-> "B2h"]
                        ELSE [op |-> "realloc", ax |-> 0, bl |-> "B0h", dx |-> umb[i].size]

(* Clients pass segments of their own blocks, and others by mistake.  DOS  *)
(* owns the block that joined conventional memory and does not free it.    *)
Segments == {b.segm : b \in held} \cup {umb[i].segm : i \in Free} \cup {0}

UmbNext ==
  \/ \E n \in Sizes : UMB_alloc(n)
  \/ \E s \in Segments : UMB_free(s)
  \/ \E s \in Segments, n \in Sizes : UMB_realloc(s, n)

UmbSpec == UmbInit /\ [][UmbNext]_umbVars
-----------------------------------------------------------------------------
(* Entries are blank or hold a segment; the size leaves the flag bit free. *)
UmbTypeOK ==
  /\ umb \in [Entry -> [segm : Nat, size : Nat, used : BOOLEAN]]
  /\ \A i \in Entry : umb[i].segm = 0 => umb[i] = BlankUmb
  /\ \A b \in held : b.size \in Sizes

(* However the table was split and reused, its entries are the memory that *)
(* was found at boot without the resident part, every paragraph exactly    *)
(* once (UMB.ASM:120-130, INIT.ASM:1400-1404).                             *)
BlocksTile ==
  /\ \A i, j \in Entry : i # j => Area(umb[i]) \cap Area(umb[j]) = {}
  /\ UNION {Area(umb[i]) : i \in Entry} = Memory

(* A client can give back or resize every block it holds: the segment it   *)
(* knows leads to an allocated entry, and what it asked for is inside.     *)
(* No allocated entry is without an owner (UMB_findblock).                 *)
HeldCanBeFreed ==
  /\ \A b \in held : FindBlock(b.segm) # 0 /\ b.size <= umb[FindBlock(b.segm)].size
  /\ \A i \in Entry : umb[i].used => (Joined /\ i = 1) \/ HeldAt(umb[i].segm) # {}

(* A refused client is told the size of a block it can get at once, and    *)
(* that is the largest one (the running maximum in BX of UMB_alloc).       *)
LargestOffered ==
  ret.op = "alloc" /\ ret.ax = 0 =>
    /\ ret.dx < ret.asked
    /\ \A i \in Free : umb[i].size <= ret.dx
    /\ ret.bl = "B0h" => \E i \in Free : umb[i].size = ret.dx

(* UMB_alloc, UMB_free, UMB_realloc: the entries are the memory found at   *)
(* boot, what clients hold they can give back, and a refused client is     *)
(* told the largest block it could get.                                    *)
UmbsHonest == UmbTypeOK /\ BlocksTile /\ HeldCanBeFreed /\ LargestOffered

(* The blocks that are in use form a MemStore: a call for one block leaves *)
(* the memory of all others alone, DOS's and the resident part's included. *)
UmbStore == INSTANCE MemStore WITH
  Memory <- Memory,
  Owners <- Entry,
  owned <- [i \in Entry |-> IF umb[i].used THEN Area(umb[i]) ELSE {}]
UmbsAreAStore == UmbStore!StoreSpec
=============================================================================
