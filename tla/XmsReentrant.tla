---------------------------- MODULE XmsReentrant ----------------------------
(***************************************************************************)
(* A reallocation that moves a block copies it with interrupts enabled     *)
(* (MoveMemory in src/src/JEMM32.ASM), so an interrupt handler may make    *)
(* XMS calls of its own while xms_ext_realloc_emb has allocated the new    *)
(* block and not yet swapped the handles.  The call is two steps here; the *)
(* others, which keep interrupts off, stay single steps.                   *)
(***************************************************************************)
EXTENDS XmsQuery, SequencesExt

CONSTANT
  MaxNested     (* bound: reallocations under way at a time                *)

VARIABLE moving (* the reallocations under way, the innermost last:        *)
                (* handle and new handle, which ESI and DX keep            *)

rvars == <<h, moving>>
Busy == UNION {{moving[k].i, moving[k].j} : k \in DOMAIN moving}

RInit == Init /\ moving = << >>

(* Up to the call of xms_move_emb_ex: the new block is in use.             *)
ReallocStart(i, sz) ==
  /\ CanRealloc(i) /\ MustMove(i, sz)
  /\ Len(moving) < MaxNested
  /\ LET sext == h[i].base >= FourGB
         j == AllocHdl(h, sz, sext)
     IN /\ j # 0
        /\ h' = AllocTab(h, sz, sext)
        /\ moving' = Append(moving, [i |-> i, j |-> j])

ReallocEnd_SizeKept ==   \* mutant
  /\ moving # << >>
  /\ LET i == Last(moving).i
         j == Last(moving).j
     IN h' = FreeTab([h EXCEPT ![i].base = h[j].base, ![j].base = h[i].base], j)
  /\ moving' = Front(moving)

(* After the copy: the contents of the handles are swapped and the old     *)
(* memory is freed, by whatever neighbours it has now.                     *)
ReallocEnd ==
  /\ moving # << >>
  /\ LET i == Last(moving).i
         j == Last(moving).j
     IN h' = FreeTab([h EXCEPT ![i] = h[j], ![j] = h[i]], j)
  /\ moving' = Front(moving)

(* Handlers work on handles that the interrupted call does not hold.       *)
RNext ==
  \/ \E sz \in ReqSizes, sext \in BOOLEAN : AllocEmb(sz, sext) /\ UNCHANGED moving
  \/ \E i \in Hdl \ Busy :
       \/ FreeEmb(i) /\ UNCHANGED moving
       \/ LockEmb(i) /\ UNCHANGED moving
       \/ UnlockEmb(i) /\ UNCHANGED moving
  \/ \E i \in Hdl \ Busy, sz \in ReqSizes :
       \/ ReallocInto(i, sz) /\ UNCHANGED moving
       \/ ReallocShrink(i, sz) /\ UNCHANGED moving
       \/ ReallocStart(i, sz)
  \/ ReallocEnd

RSpec == RInit /\ [][RNext]_rvars
-----------------------------------------------------------------------------
(* What the clients see: the new block of a reallocation under way is      *)
(* nobody's yet, and the old one is still its owner's.                     *)
Hidden == {moving[k].j : k \in DOMAIN moving}
ROwned == [i \in Hdl |-> IF i \in Hidden THEN {} ELSE Owned(h)[i]]
RStore == INSTANCE MemStore WITH Memory <- Ram, Owners <- Hdl, owned <- ROwned

(* xms_ext_realloc_emb: for the clients the table is a MemStore even when  *)
(* handlers allocate, free and reallocate in the middle of the copy of     *)
(* another reallocation: no call ever changes the memory of two handles.   *)
ImplementsStoreNested == RStore!StoreSpec
=============================================================================
