--------------------------------- MODULE Xms ---------------------------------
(***************************************************************************)
(* The extended memory block (EMB) allocator of JemmEx, src/src/XMS.ASM:   *)
(* the XMS handle table and the calls that change it (AH=09h/89h/15h       *)
(* allocate, 0Ah free, 0Ch/0CCh lock, 0Dh unlock, 0Fh/8Fh reallocate).     *)
(*                                                                         *)
(* Every call runs to completion in the ring 0 monitor, so a call is one   *)
(* action.  A call that returns an error leaves the table as it is and is  *)
(* therefore a stuttering step: the guards below are the conditions under  *)
(* which the call succeeds.                                                *)
(*                                                                         *)
(* Addresses and sizes are in KB, as in XMS_HANDLE.xh_baseK / xh_sizeK.    *)
(***************************************************************************)
EXTENDS Integers, Sequences

CONSTANTS
  NumHandles,   (* entries of the handle table, xht_numhandles (8..128)    *)
  MaxLocks,     (* largest lock count, 255: xh_locks is one byte           *)
  FourGB,       (* first KB address of "super-extended" memory, 400000h    *)
  Regions,      (* RAM found at boot: sequence of [base, size], in KB      *)
  ReqSizes      (* sizes that the clients ask for, in KB                   *)

VARIABLE h      (* xms_handle_array: index -> XMS_HANDLE                   *)

Hdl == 1 .. NumHandles
Emb == [flags : {"FREE", "USED", "INPOOL"}, locks : 0 .. MaxLocks,
        base : Nat, size : Nat]

(* The memory that the boot code handed to the allocator.                  *)
InRegion(a) == \E r \in 1 .. Len(Regions) :
                  Regions[r].base <= a /\ a < Regions[r].base + Regions[r].size

ASSUME XmsAssumption ==
  /\ NumHandles \in Nat \ {0}
  /\ MaxLocks \in Nat \ {0}
  /\ FourGB \in Nat
  /\ ReqSizes \subseteq Nat
  /\ Regions \in Seq([base : Nat, size : Nat \ {0}])
  /\ Len(Regions) <= NumHandles
  /\ \A r, q \in 1 .. Len(Regions) :
        r # q => \/ Regions[r].base + Regions[r].size <= Regions[q].base
                 \/ Regions[q].base + Regions[q].size <= Regions[r].base

(* Scans of the table start at index 1 and stop at the first hit.          *)
First(S) == CHOOSE i \in S : \A j \in S : i <= j
Lower(i, j) == IF i < j THEN i ELSE j
Higher(i, j) == IF i < j THEN j ELSE i
-----------------------------------------------------------------------------
(* Boot: I15SetHandle enters each RAM block into the next blank handle,    *)
(* endinit blanks the rest of the table.                                   *)
Blank(l) == [flags |-> "INPOOL", locks |-> l, base |-> 0, size |-> 0]
FreeBlock(b, s) == [flags |-> "FREE", locks |-> 0, base |-> b, size |-> s]
UsedBlock(b, s) == [flags |-> "USED", locks |-> 0, base |-> b, size |-> s]

BootTab == [i \in Hdl |-> IF i <= Len(Regions)
                            THEN FreeBlock(Regions[i].base, Regions[i].size)
                            ELSE Blank(0)]

Init == h = BootTab

-----------------------------------------------------------------------------
(* xms_alloc_handle: the blank handles, of which the first is taken.       *)
Blanks(t) == {i \in Hdl : t[i].flags = "INPOOL"}

(* Free blocks that can hold sz KB.  AH=15h (sext) looks only beyond 4 GB, *)
(* every other function only below.                                        *)
Fits(t, sz, sext) ==
  {i \in Hdl : /\ t[i].flags = "FREE"
               /\ (t[i].base >= FourGB) <=> sext
               /\ sz <= t[i].size}

(* The handle that xms_alloc_emb answers with, 0 if it fails.  A request   *)
(* for 0 KB that finds no free memory is served with a blank handle.       *)
AllocHdl(t, sz, sext) ==
  IF Fits(t, sz, sext) # {} THEN First(Fits(t, sz, sext))
  ELSE IF sz = 0 /\ Blanks(t) # {} THEN First(Blanks(t)) ELSE 0

(* The table after a successful xms_alloc_emb.  The rest of a larger block *)
(* goes to a blank handle; without one "use all mem left".                 *)
AllocTab(t, sz, sext) ==
  LET i == AllocHdl(t, sz, sext)
      j == First(Blanks(t))
  IN  IF t[i].flags = "INPOOL" \/ t[i].size = sz \/ Blanks(t) = {}
        THEN [t EXCEPT ![i] = UsedBlock(t[i].base, t[i].size)]
        ELSE [t EXCEPT ![i] = UsedBlock(t[i].base, sz),
                       ![j] = FreeBlock(t[i].base + sz, t[i].size - sz)]

AllocEmb(sz, sext) ==
  /\ AllocHdl(h, sz, sext) # 0
  /\ h' = AllocTab(h, sz, sext)
-----------------------------------------------------------------------------
MergeTab_KeepBase(t, i, j) ==      \* mutant: the lower index keeps its base
  [t EXCEPT ![Lower(i, j)].size = t[i].size + t[j].size,
            ![Higher(i, j)] = Blank(t[Higher(i, j)].locks)]

(* xms_free_emb scans the table once for free neighbours of handle i.  The *)
(* neighbour is always merged into the handle with the lower index.        *)
MergeTab(t, i, j) ==
  LET lo == Lower(i, j)
      hi == Higher(i, j)
  IN  [t EXCEPT ![lo] = [flags |-> t[lo].flags, locks |-> t[lo].locks,
                         base |-> Lower(t[lo].base, t[hi].base),
                         size |-> t[lo].size + t[hi].size],
                ![hi] = Blank(t[hi].locks)]

Neighbours(t, i) ==
  {k \in Hdl : /\ t[k].flags = "FREE"
               /\ \/ t[k].base = t[i].base + t[i].size
                  \/ t[k].base + t[k].size = t[i].base}

(* What the scan still visits after it has merged neighbour m.  If m is    *)
(* above i, EBX is set back to i but the loop count in ECX keeps running:  *)
(* the scan ends m-i entries before the end of the table.                  *)
StillScanned(i, m) ==
  IF m < i THEN {k \in Hdl : k > m} ELSE {k \in Hdl : k > m /\ k <= i + NumHandles - m}

FreeTab_NoBlank(t, i) ==           \* mutant: a block without memory becomes FREE
  [t EXCEPT ![i].flags = "FREE"]

FreeTab(t, i) ==
  LET adj   == Neighbours(t, i)
      m     == First(adj)
      later == adj \cap StillScanned(i, m)
      n     == First(later)
      t1    == IF adj = {} THEN t ELSE MergeTab(t, i, m)
      s1    == IF adj = {} THEN i ELSE Lower(i, m)
      t2    == IF adj = {} \/ later = {} THEN t1 ELSE MergeTab(t1, s1, n)
      s2    == IF adj = {} \/ later = {} THEN s1 ELSE Lower(s1, n)
  IN  [t2 EXCEPT ![s2].flags = IF t2[s2].size = 0 THEN "INPOOL" ELSE "FREE"]

FreeEmb(i) ==
  /\ h[i].flags = "USED"
  /\ h[i].locks = 0
  /\ h' = FreeTab(h, i)
-----------------------------------------------------------------------------
LockEmb(i) ==
  /\ h[i].flags = "USED"
  /\ h[i].locks < MaxLocks
  /\ h' = [h EXCEPT ![i].locks = @ + 1]

UnlockEmb(i) ==
  /\ h[i].flags = "USED"
  /\ h[i].locks > 0
  /\ h' = [h EXCEPT ![i].locks = @ - 1]
-----------------------------------------------------------------------------
(* xms_ext_realloc_emb.  The free block right behind block i, if any.      *)
Successors(t, i) ==
  {k \in Hdl : t[k].flags = "FREE" /\ t[k].base = t[i].base + t[i].size}

CanRealloc_NoLock(i) == h[i].flags = "USED"     \* mutant: locks are not tested

CanRealloc(i) == h[i].flags = "USED" /\ h[i].locks = 0

ReallocInto_KeepBase(i, sz) ==     \* mutant: the successor's base is not advanced
  /\ CanRealloc(i)
  /\ Successors(h, i) # {}
  /\ LET k == First(Successors(h, i))
     IN  /\ h[i].size + h[k].size > sz
         /\ h' = [h EXCEPT ![i].size = sz, ![k].size = h[i].size + h[k].size - sz]

(* The successor gives or receives the difference; it vanishes at size 0.  *)
ReallocInto(i, sz) ==
  /\ CanRealloc(i)
  /\ Successors(h, i) # {}
  /\ LET k == First(Successors(h, i))
         rest == h[i].size + h[k].size - sz
     IN  /\ rest >= 0
         /\ h' = [h EXCEPT ![i].size = sz,
                           ![k] = IF rest = 0
                                    THEN Blank(h[k].locks)
                                    ELSE [flags |-> "FREE", locks |-> h[k].locks,
                                          base |-> h[i].base + sz, size |-> rest]]

(* No free successor: the tail goes to a blank handle, unmerged.           *)
ReallocShrink(i, sz) ==
  /\ CanRealloc(i)
  /\ Successors(h, i) = {}
  /\ sz < h[i].size
  /\ Blanks(h) # {}
  /\ h' = [h EXCEPT ![i].size = sz,
                    ![First(Blanks(h))] =
                        [flags |-> "FREE", locks |-> @.locks,
                         base |-> h[i].base + sz, size |-> h[i].size - sz]]

(* Otherwise a growing block moves: a new block is allocated, the contents *)
(* of the two handles are swapped, and the old memory is freed.            *)
MustMove(i, sz) ==
  IF Successors(h, i) = {} THEN sz > h[i].size
  ELSE sz > h[i].size + h[First(Successors(h, i))].size

ReallocMove(i, sz) ==
  /\ CanRealloc(i)
  /\ MustMove(i, sz)
  /\ LET sext == h[i].base >= FourGB
         j    == AllocHdl(h, sz, sext)
         t1   == AllocTab(h, sz, sext)
         t2   == [t1 EXCEPT ![i] = t1[j], ![j] = t1[i]]
     IN  /\ j # 0
         /\ h' = FreeTab(t2, j)

ReallocEmb(i, sz) == ReallocInto(i, sz) \/ ReallocShrink(i, sz) \/ ReallocMove(i, sz)
-----------------------------------------------------------------------------
Next ==
  \/ \E sz \in ReqSizes, sext \in BOOLEAN : AllocEmb(sz, sext)
  \/ \E i \in Hdl : FreeEmb(i)
  \/ \E i \in Hdl : LockEmb(i)
  \/ \E i \in Hdl : UnlockEmb(i)
  \/ \E i \in Hdl, sz \in ReqSizes : ReallocInto(i, sz)
  \/ \E i \in Hdl, sz \in ReqSizes : ReallocShrink(i, sz)
  \/ \E i \in Hdl, sz \in ReqSizes : ReallocMove(i, sz)

Spec == Init /\ [][Next]_h
-----------------------------------------------------------------------------
(* Handle bookkeeping: a free block has memory, a blank handle has none,   *)
(* and neither is locked.                                                  *)
Clean(t) ==
  \A i \in Hdl : /\ t[i].flags = "FREE" => t[i].size > 0
                 /\ t[i].flags = "INPOOL" => t[i].size = 0
                 /\ t[i].flags # "USED" => t[i].locks = 0

(* Every table entry is a well-formed and clean XMS_HANDLE (XMS.INC).      *)
TypeOK == h \in [Hdl -> Emb] /\ Clean(h)

(* What makes a table t consistent; the properties state it of h, the      *)
(* proofs also of the intermediate tables of a call.                       *)
Live(t, i) == t[i].flags # "INPOOL"
Ends(t, i) == t[i].base + t[i].size
Covers(t, i, a) == Live(t, i) /\ t[i].base <= a /\ a < Ends(t, i)

Disjoint(t) ==
  \A i \in Hdl : Live(t, i) =>
     \A a \in t[i].base .. (Ends(t, i) - 1) : \A j \in Hdl : Covers(t, j, a) => j = i

Filled(t) ==
  \A r \in 1 .. Len(Regions) :
     \A a \in Regions[r].base .. (Regions[r].base + Regions[r].size - 1) :
        \E i \in Hdl : Covers(t, i, a)

Contained(t) ==
  \A i \in Hdl : Live(t, i) => \A a \in t[i].base .. (Ends(t, i) - 1) : InRegion(a)

(* No KB of memory belongs to two blocks: across splits, merges and moves  *)
(* the blocks of the table, free or used, stay pairwise disjoint.          *)
NoOverlap == Disjoint(h)

(* No memory is lost and none is invented: an address is covered by a live *)
(* block exactly if it is RAM that the boot code found.                    *)
Complete == Filled(h) /\ Contained(h)

(* A client that locked a block has its physical address: as long as the   *)
(* lock count is not 0, no call moves, resizes or frees the block.         *)
LockedStays ==
  [][\A i \in Hdl : (h[i].flags = "USED" /\ h[i].locks > 0) =>
        /\ h'[i].flags = "USED"
        /\ h'[i].base = h[i].base
        /\ h'[i].size = h[i].size]_h

(* For the clients the table is a MemStore: each handle in use has its own *)
(* memory, and a call that names one handle - even a free that merges or a *)
(* reallocation that moves and swaps handles - changes the memory of that  *)
(* handle only.                                                            *)
Ram == UNION {Regions[r].base .. (Regions[r].base + Regions[r].size - 1) : r \in 1 .. Len(Regions)}
Owned(t) == [i \in Hdl |-> IF t[i].flags = "USED" THEN t[i].base .. (Ends(t, i) - 1) ELSE {}]
Store == INSTANCE MemStore WITH Memory <- Ram, Owners <- Hdl, owned <- Owned(h)
ImplementsStore == Store!StoreSpec
=============================================================================
