--------------------------------- MODULE Ems ---------------------------------
(***************************************************************************)
(* The EMS 4.0 functions of int 67h, src/src/EMS.ASM and EMS32.INC.        *)
(*                                                                         *)
(* The pages of a handle are a chain through the array of page descriptors *)
(* (EMSPD): the handle's ehd_wIdx is the first page, EMSPD.wNext the next. *)
(* A descriptor is free when both of its words are -1.  Physical pages are *)
(* windows below 1 MB whose page table entries the functions rewrite.      *)
(*                                                                         *)
(* A function runs to completion in ring 0: one action each.  Calls that   *)
(* are refused before anything changes are not actions.  The pool and its  *)
(* other clients are an environment; Pool.tla models them.                 *)
(***************************************************************************)
EXTENDS Integers, Sequences, FiniteSets

CONSTANTS
  NumHandles,   (* EMS_MAX_HANDLES, 255; handle 0 is the system handle     *)
  EMSPagesMax,  (* size of the EMSPD array                                 *)
  MaxState,     (* EMS_MAXSTATE, 64                                        *)
  PhysPages,    (* bEmsPhysPages                                           *)
  FrameSize,    (* how many of them 47h saves: the page frame, 4           *)
  ConvFrames,   (* frames of the mappable conventional memory, in order    *)
  PoolFrames,   (* the other 16 KB frames the pool can ever own            *)
  Names,        (* names that clients give to handles                      *)
  Areas,        (* buffers in client memory for page maps                  *)
  Lists,        (* arguments of 5000h, sequences of <<logical, physical>>; *)
                (* 5001h gets the same with segments for physical pages    *)
  Hole,         (* what an unmapped page of upper memory shows             *)
  Nil           (* -1 in a word of a table                                 *)

Hdl == 0 .. NumHandles - 1
Page == 0 .. EMSPagesMax - 1
Slot == 0 .. MaxState - 1
Phys == 0 .. PhysPages - 1
Frame == {ConvFrames[i] : i \in DOMAIN ConvFrames} \cup PoolFrames
Conv == Len(ConvFrames)               \* bPagesConv
Window == 0 .. FrameSize - 1          \* the page frame

(* EMSPage2Segm, the page table index of a physical page, is 0 behind the  *)
(* last one: the first four pages of memory.                               *)
Low == -1
EMSPage2Segm(p) == IF p \in Phys THEN p ELSE Low

(* EMS_Init1: the pages of conventional memory get the highest numbers.    *)
Identity == [p \in Phys \cup {Low} |->
               IF p >= PhysPages - Conv
                 THEN ConvFrames[p - (PhysPages - Conv) + 1] ELSE Hole]

EmsAssumption ==
  /\ NumHandles \in Nat \ {0} /\ EMSPagesMax \in Nat /\ MaxState \in Nat
  /\ PhysPages \in Nat /\ FrameSize \in 0 .. PhysPages - Conv
  /\ Conv <= EMSPagesMax /\ Hole \notin Frame /\ IsFiniteSet(PoolFrames)
  /\ ConvFrames \in Seq(Frame)
  /\ Nil \notin Int \cup Frame \cup Areas \cup [Window -> Frame \cup {Hole}]
  /\ \A i, j \in DOMAIN ConvFrames : ConvFrames[i] = ConvFrames[j] => i = j
  /\ \A i \in DOMAIN ConvFrames : ConvFrames[i] \notin PoolFrames
  /\ \A list \in Lists : list \in Seq((Nat \cup {Nil}) \X Nat)
ASSUME EmsAssumption

VARIABLES
  hd,           (* EMSHandleTable: handle -> EMSHD                         *)
  pd,           (* EMSPD array; frame stands for wIndex and bSubIdx        *)
  pagesUsed,    (* EMSPagesUsed                                            *)
  name,         (* EMSNameTable, "" for eight zero bytes                   *)
  state,        (* EMSStateTable: slot -> saved PTEs, Nil if dPg0 = -1     *)
  pte,          (* the page table entries of the physical pages            *)
  stale,        (* physical pages the TLB may still show as they were      *)
  area,         (* buffer -> what a client got from 4Eh, 4Fh or 5Bh        *)
  mapptr,       (* buffer of the last 5B01h call, Nil if none              *)
  others,       (* frames that VCPI and XMS clients hold                   *)
  ok            (* the last call returned AH = 0                           *)

handles == <<hd, pd, pagesUsed, name>>
windows == <<pte, stale>>
buffers == <<area, mapptr>>
emsVars == <<hd, pd, pagesUsed, name, state, pte, stale, area, mapptr, others, ok>>

Used == {h \in Hdl : hd[h].used}
NoPage == [next |-> Nil, frame |-> Nil]
NoArea == [kind |-> "none", m |-> << >>]
NoHandle == [idx |-> Nil, used |-> FALSE, ss |-> Nil]
-----------------------------------------------------------------------------
(* A table is the part of the state that a chain lives in.                 *)
table == [hd |-> hd, pd |-> pd, n |-> pagesUsed]

(* Logical page n of handle g, or Nil: the loop of EMS_get_abs_page.       *)
AbsPage(t, g, n) ==
  LET at[k \in 0 .. EMSPagesMax] ==
        IF k = 0 THEN t.hd[g].idx
        ELSE IF at[k - 1] = Nil THEN Nil ELSE t.pd[at[k - 1]].next
  IN  IF n > EMSPagesMax THEN Nil ELSE at[n]

PageCount(t, g) == Cardinality({n \in 0 .. EMSPagesMax - 1 : AbsPage(t, g, n) # Nil})
LastPage_None(t, g) == Nil   \* mutant: 51h appends as to a new handle
LastPage(t, g) == IF PageCount(t, g) = 0 THEN Nil ELSE AbsPage(t, g, PageCount(t, g) - 1)
Chain(t, g) == {AbsPage(t, g, n) : n \in 0 .. EMSPagesMax} \ {Nil}

(* wNext of a page; with page Nil, the ehd_wIdx of the handle.             *)
Link(t, g, page, to) ==
  IF page = Nil THEN [t EXCEPT !.hd[g].idx = to] ELSE [t EXCEPT !.pd[page].next = to]

FreePages(t) == {p \in Page : t.pd[p] = NoPage}
FirstFree(t) == CHOOSE p \in FreePages(t) : \A q \in FreePages(t) : p <= q

(* AllocateEMSPages: the frames in fr go to the first free descriptors,    *)
(* and each descriptor is linked behind the one before.                    *)
AllocateEMSPages(t, g, page, fr) ==
  LET got[i \in 0 .. Len(fr)] ==
        IF i = 0 THEN [t |-> t, last |-> page]
        ELSE LET p == FirstFree(got[i - 1].t)
             IN  [t |-> [Link(got[i - 1].t, g, got[i - 1].last, p) EXCEPT
                           !.pd[p].frame = fr[i], !.n = @ + 1],
                  last |-> p]
  IN  got[Len(fr)].t

ReleaseFrom_Twice(t, g, n) ==   \* mutant: the caller counts the pages too
  LET gone == {AbsPage(t, g, k) : k \in n .. EMSPagesMax} \ {Nil}
      cut  == Link(t, g, IF n = 0 THEN Nil ELSE AbsPage(t, g, n - 1), Nil)
  IN  [cut EXCEPT !.pd = [p \in Page |-> IF p \in gone THEN NoPage ELSE cut.pd[p]],
                  !.n = @ - 2 * Cardinality(gone)]

(* The release loops of 45h and 51h from logical page n on; what is left   *)
(* of the chain ends before it.                                            *)
ReleaseFrom(t, g, n) ==
  LET gone == {AbsPage(t, g, k) : k \in n .. EMSPagesMax} \ {Nil}
      cut  == Link(t, g, IF n = 0 THEN Nil ELSE AbsPage(t, g, n - 1), Nil)
  IN  [cut EXCEPT !.pd = [p \in Page |-> IF p \in gone THEN NoPage ELSE cut.pd[p]],
                  !.n = @ - Cardinality({p \in gone : t.pd[p].frame # Nil})]

(* The pool.  It reports at least what it has; it may refuse a page that   *)
(* it reported, when no pool descriptor is left for it.                    *)
FramesInUse == {pd[p].frame : p \in Page} \cup others
FreeFrames == Frame \ FramesInUse
Pool_GetFree16KPages == Cardinality(FreeFrames)
Granted(n) == {fr \in UNION {[1 .. k -> FreeFrames] : k \in 0 .. n} :
                 \A i, j \in DOMAIN fr : fr[i] = fr[j] => i = j}

GetFreeEMSPages ==
  LET left == IF EMSPagesMax > pagesUsed THEN EMSPagesMax - pagesUsed ELSE 0
  IN  IF left < Pool_GetFree16KPages THEN left ELSE Pool_GetFree16KPages
-----------------------------------------------------------------------------
SetTable(t) == hd' = t.hd /\ pd' = t.pd /\ pagesUsed' = t.n

FreeHandle_StillUsed(t, g) ==   \* mutant: the pages go, the handle stays used
  SetTable(ReleaseFrom(t, g, 0)) /\ name' = [name EXCEPT ![g] = ""]

(* The part of EMS_DEALLOCATE_PAGES behind its checks.                     *)
FreeHandle(t, g) ==
  /\ SetTable([ReleaseFrom(t, g, 0) EXCEPT !.hd[g].used = FALSE])
  /\ name' = [name EXCEPT ![g] = ""]

FirstUnused == CHOOSE g \in Hdl \ Used : \A k \in Hdl \ Used : g <= k

(* 43h with n > 0, 5Ah also with n = 0.  When the pool fails halfway the   *)
(* new handle is released again.                                           *)
EMS_ALLOCATE_PAGES(n) ==
  /\ n <= EMSPagesMax /\ n <= GetFreeEMSPages
  /\ Used # Hdl
  /\ LET g == FirstUnused
         t == [table EXCEPT !.hd[g].used = TRUE]
     IN  \E fr \in Granted(n) :
           LET new == AllocateEMSPages(t, g, Nil, fr)
           IN  IF Len(fr) = n
                 THEN SetTable(new) /\ ok' = TRUE /\ UNCHANGED name
                 ELSE FreeHandle(new, g) /\ ok' = FALSE
  /\ UNCHANGED <<state, windows, buffers, others>>

MayFree(g) == g \in Used /\ g # 0 /\ hd[g].ss = Nil

(* 45h.  For the system handle it is 51h with 0 pages.                     *)
EMS_DEALLOCATE_PAGES(g) ==
  /\ MayFree(g)
  /\ FreeHandle(table, g)
  /\ ok' = TRUE
  /\ UNCHANGED <<state, windows, buffers, others>>

Shrink(g, n) ==
  /\ n < PageCount(table, g)
  /\ SetTable(ReleaseFrom(table, g, n))
  /\ ok' = TRUE

(* When the pool fails halfway the pages it gave stay with the handle.     *)
Extend(g, n) ==
  LET more == n - PageCount(table, g)
  IN  /\ more > 0 /\ more <= GetFreeEMSPages
      /\ \E fr \in Granted(more) :
           /\ SetTable(AllocateEMSPages(table, g, LastPage(table, g), fr))
           /\ ok' = (Len(fr) = more)

(* 51h, which 45h also calls for handle 0.  Saved contexts do not matter.  *)
ems4_realloc(g, n) ==
  /\ g \in Used
  /\ Shrink(g, n) \/ Extend(g, n)
  /\ UNCHANGED <<name, state, windows, buffers, others>>
-----------------------------------------------------------------------------
(* Mapping.  A window is [pte, stale].  Logical page Nil unmaps; so does a *)
(* descriptor without a frame.                                             *)
Valid(g, log) == log # Nil => AbsPage(table, g, log) # Nil
Shown(g, log, p) ==
  IF log = Nil THEN Identity[p]
  ELSE LET f == pd[AbsPage(table, g, log)].frame
       IN  IF f = Nil THEN Identity[p] ELSE f

(* 44h.                                                                    *)
EMS_MAP_HANDLE_PAGE(g, log, p) ==
  /\ g \in Used /\ Valid(g, log)
  /\ pte' = [pte EXCEPT ![p] = Shown(g, log, p)]
  /\ stale' = {}                             \* FlushTLB
  /\ ok' = TRUE
  /\ UNCHANGED <<handles, state, buffers, others>>

(* Segments go through EMS_Segm2Phys, page numbers are taken as they are.  *)
GoodItem(g, sub, it) == (sub = 1 => it[2] \in Phys) /\ Valid(g, it[1])
GoodPrefix(g, sub, list) ==
  CHOOSE k \in 0 .. Len(list) :
    /\ \A i \in 1 .. k : GoodItem(g, sub, list[i])
    /\ k < Len(list) => ~GoodItem(g, sub, list[k + 1])

(* FlushTLB is behind the loop: an invalid item jumps over it.             *)
StaleAfter(done, whole) == IF whole THEN {} ELSE stale \cup done

(* 50h, and the mapping part of 55h and 56h.                               *)
ems4_map_multiple(g, sub, list) ==
  LET k     == GoodPrefix(g, sub, list)
      to(i) == EMSPage2Segm(list[i][2])
      last(p) == {i \in 1 .. k : to(i) = p /\ \A j \in (i + 1) .. k : to(j) # p}
  IN  /\ g \in Used /\ list # << >>
      /\ pte' = [p \in DOMAIN pte |->
                   IF last(p) = {} THEN pte[p]
                   ELSE Shown(g, list[CHOOSE i \in last(p) : TRUE][1], p)]
      /\ stale' = StaleAfter({to(i) : i \in 1 .. k}, k = Len(list))
      /\ ok' = (k = Len(list))
      /\ UNCHANGED <<handles, state, buffers, others>>
-----------------------------------------------------------------------------
Only(m, S) == [p \in S |-> m[p]]
Over(m) == [p \in DOMAIN pte |-> IF p \in DOMAIN m THEN m[p] ELSE pte[p]]

(* 47h: the first slot whose dPg0 is -1 takes the PTEs of the page frame.  *)
EMS_SAVE_PAGES(g) ==
  /\ FrameSize > 0                           \* bNoFrame
  /\ g \in Used /\ hd[g].ss = Nil
  /\ \E s \in Slot :
       /\ state[s] = Nil /\ \A k \in Slot : state[k] = Nil => s <= k
       /\ hd' = [hd EXCEPT ![g].ss = s]
       /\ state' = [state EXCEPT ![s] = Only(pte, Window)]
  /\ ok' = TRUE
  /\ UNCHANGED <<pd, pagesUsed, name, windows, buffers, others>>

ReleasedSlot(s) == [state EXCEPT ![s] = Nil]

(* 48h.                                                                    *)
EMS_RESTORE_PAGES(g) ==
  /\ FrameSize > 0
  /\ g \in Used /\ hd[g].ss # Nil
  /\ pte' = Over(state[hd[g].ss])
  /\ stale' = {}
  /\ state' = ReleasedSlot(hd[g].ss)
  /\ hd' = [hd EXCEPT ![g].ss = Nil]
  /\ ok' = TRUE
  /\ UNCHANGED <<pd, pagesUsed, name, buffers, others>>

Stored(a) == [area EXCEPT ![a] = [kind |-> "map", m |-> Only(pte, Phys)]]

(* EMS_GET_SET_PAGE_MAP, 4E00h; also 5B00h, which stores into mapptr.      *)
GetPageMap(a) ==
  /\ area' = Stored(a)
  /\ ok' = TRUE
  /\ UNCHANGED <<handles, state, windows, mapptr, others>>

(* 4E01h, 4E02h (first = the buffer that is filled before) and 5B01h with  *)
(* a buffer.  What no 4Eh or 5Bh call has stored fails the checksum.       *)
SetFrom(b, buf) ==
  IF buf[b].kind = "map"
    THEN pte' = Over(buf[b].m) /\ stale' = {} /\ ok' = TRUE
    ELSE ok' = FALSE /\ UNCHANGED windows

SetPageMap(b) ==
  /\ SetFrom(b, area)
  /\ UNCHANGED <<handles, state, buffers, others>>

GetAndSetPageMap(a, b) ==
  /\ area' = Stored(a)
  /\ SetFrom(b, area')
  /\ UNCHANGED <<handles, state, mapptr, others>>

(* 4F00h and 4F01h: a list of physical pages, without a checksum.          *)
GetPartialMap(a, S) ==
  /\ area' = [area EXCEPT ![a] = [kind |-> "part", m |-> Only(pte, S)]]
  /\ ok' = TRUE
  /\ UNCHANGED <<handles, state, windows, mapptr, others>>

SetPartialMap(a) ==
  /\ area[a].kind = "part"
  /\ pte' = Over(area[a].m) /\ stale' = {} /\ ok' = TRUE
  /\ UNCHANGED <<handles, state, buffers, others>>

(* 5B00h and 5B01h.  5B01h keeps the pointer before it looks at the map.   *)
GetAltMap == IF mapptr = Nil THEN ok' = TRUE /\ UNCHANGED <<handles, state, windows, buffers, others>>
             ELSE GetPageMap(mapptr)

SetAltMap(b) ==
  /\ mapptr' = b
  /\ IF b = Nil THEN ok' = TRUE /\ UNCHANGED windows ELSE SetFrom(b, area)
  /\ UNCHANGED <<handles, state, area, others>>
-----------------------------------------------------------------------------
TakenName(nm) == \E g \in Used : name[g] = nm

(* 5301h.  Resetting the name is always allowed.                           *)
SetName(g, nm) ==
  /\ g \in Used
  /\ nm = "" \/ ~TakenName(nm)
  /\ name' = [name EXCEPT ![g] = nm]
  /\ ok' = TRUE
  /\ UNCHANGED <<hd, pd, pagesUsed, state, windows, buffers, others>>

(* VCPI and XMS clients take and return memory of the pool.                *)
PoolTaken(f) == /\ f \in FreeFrames /\ others' = others \cup {f}
                /\ UNCHANGED <<handles, state, windows, buffers, ok>>
PoolReturned(f) == /\ f \in others /\ others' = others \ {f}
                   /\ UNCHANGED <<handles, state, windows, buffers, ok>>
-----------------------------------------------------------------------------
(* EMS_Init2: the system handle gets the pages of conventional memory.     *)
Empty == [hd |-> [[g \in Hdl |-> NoHandle] EXCEPT ![0].used = TRUE],
          pd |-> [p \in Page |-> NoPage], n |-> 0]

EmsInit ==
  /\ LET t == AllocateEMSPages(Empty, 0, Nil, ConvFrames)
     IN  hd = t.hd /\ pd = t.pd /\ pagesUsed = t.n
  /\ name = [g \in Hdl |-> IF g = 0 THEN "SYSTEM" ELSE ""]
  /\ state = [s \in Slot |-> Nil]
  /\ pte = Identity /\ stale = {}
  /\ area = [a \in Areas |-> NoArea] /\ mapptr = Nil
  /\ others = {}
  /\ ok = TRUE

EmsNext ==
  \/ \E n \in 0 .. EMSPagesMax : EMS_ALLOCATE_PAGES(n)
  \/ \E g \in Hdl : EMS_DEALLOCATE_PAGES(g)
  \/ \E g \in Hdl, n \in 0 .. EMSPagesMax : ems4_realloc(g, n)
  \/ \E g \in Hdl, log \in Page \cup {Nil}, p \in Phys : EMS_MAP_HANDLE_PAGE(g, log, p)
  \/ \E g \in Hdl, sub \in 0 .. 1, list \in Lists : ems4_map_multiple(g, sub, list)
  \/ \E g \in Hdl : EMS_SAVE_PAGES(g) \/ EMS_RESTORE_PAGES(g)
  \/ \E a \in Areas : GetPageMap(a) \/ SetPageMap(a) \/ SetPartialMap(a)
  \/ \E a, b \in Areas : GetAndSetPageMap(a, b)
  \/ \E a \in Areas, S \in SUBSET Phys : GetPartialMap(a, S)
  \/ GetAltMap \/ \E b \in Areas \cup {Nil} : SetAltMap(b)
  \/ \E g \in Hdl, nm \in Names \cup {""} : SetName(g, nm)
  \/ \E f \in Frame : PoolTaken(f) \/ PoolReturned(f)

EmsSpec == EmsInit /\ [][EmsNext]_emsVars
-----------------------------------------------------------------------------
(* Types; every PTE shows memory of the pool or the page's own.            *)
EmsTypeOK ==
  /\ hd \in [Hdl -> [idx : Page \cup {Nil}, used : BOOLEAN, ss : Slot \cup {Nil}]]
  /\ pd \in [Page -> [next : Page \cup {Nil}, frame : Frame \cup {Nil}]]
  /\ pagesUsed \in 0 .. EMSPagesMax
  /\ DOMAIN name = Hdl /\ DOMAIN state = Slot /\ DOMAIN area = Areas
  /\ \A p \in Phys \cup {Low} : pte[p] \in Frame \cup {Hole}
  /\ stale \subseteq Phys \cup {Low} /\ mapptr \in Areas \cup {Nil}
  /\ others \subseteq Frame /\ ok \in BOOLEAN

(* The chains of the open handles have no cycle and no page in common, and *)
(* together they are exactly the descriptors in use, whose number          *)
(* EMSPagesUsed is: 43h, 45h and 51h relink the same array for all         *)
(* handles, also when the pool fails in the middle.                        *)
ChainsPartition ==
  /\ \A g \in Hdl : AbsPage(table, g, EMSPagesMax) = Nil
  /\ \A g \in Hdl : Cardinality(Chain(table, g)) = PageCount(table, g)
  /\ \A g, k \in Hdl : g # k => Chain(table, g) \cap Chain(table, k) = {}
  /\ UNION {Chain(table, g) : g \in Used} = {p \in Page : pd[p].frame # Nil}
  /\ pagesUsed = Cardinality({p \in Page : pd[p] # NoPage})
  /\ \A g \in Hdl \ Used : hd[g] = NoHandle

(* A slot of the state table is in use exactly when one open handle refers *)
(* to it, so 47h never overwrites a saved context and no slot is lost.     *)
SlotsOwned ==
  \A s \in Slot :
    Cardinality({g \in Used : hd[g].ss = s}) = (IF state[s] = Nil THEN 0 ELSE 1)

(* No two open handles have the same name, so 5401h finds the one that was *)
(* given it; a closed handle has none that a later owner would inherit.    *)
NamesUnique ==
  /\ \A g, k \in Used : g # k /\ name[g] # "" => name[g] # name[k]
  /\ \A g \in Hdl \ Used : name[g] = ""

(* After a call that succeeded and changed a mapping the processor sees    *)
(* the page tables as they are.                                            *)
FlushedOnSuccess == ok' /\ pte' # pte => stale' = {}

(* A call that fails closes no handle, moves no page of a handle, and      *)
(* leaves contexts and names alone: 43h undoes a partial allocation.       *)
FailureKeepsHandles ==
  ~ok' =>       /\ {g \in Hdl : hd'[g].used} = Used
                /\ \A g \in Hdl, n \in Page :
                     AbsPage(table, g, n) # Nil =>
                       /\ AbsPage(table', g, n) = AbsPage(table, g, n)
                       /\ pd'[AbsPage(table, g, n)].frame = pd[AbsPage(table, g, n)].frame
                /\ UNCHANGED <<name, state>>

(* What the calls answer and do to others: both of the above.              *)
AnswersKept == [][FailureKeepsHandles /\ FlushedOnSuccess]_emsVars

(* Memory is given out as reported: a page that GetFreeEMSPages counts has *)
(* a descriptor in the EMSPD array.                                        *)
FreePagesHaveDescriptors == GetFreeEMSPages <= Cardinality(FreePages(table))

(* 43h, 45h, 47h, 48h, 51h and 53h on the tables of handles, descriptors,  *)
(* names and contexts: all of the above at once.                           *)
HandlesWhole ==
  EmsTypeOK /\ ChainsPartition /\ SlotsOwned /\ NamesUnique /\ FreePagesHaveDescriptors

(* The handlers implement the service: pages of a handle form a sequence   *)
(* that only 51h changes and only at its end, a context is restored as it  *)
(* was saved, and the window shows a page only after it was mapped through *)
(* its owner or restored from a map recorded earlier.                      *)
FramesOf(t, g) == [i \in 1 .. PageCount(t, g) |-> t.pd[AbsPage(t, g, i - 1)].frame]
MappedPages == [g \in Hdl |-> FramesOf(table, g)]
MappedContext == [g \in Hdl |-> IF hd[g].ss = Nil THEN Nil ELSE state[hd[g].ss]]
MappedWindow == Only(pte, Phys)
MappedRecords == {area[a].m : a \in {b \in Areas : area[b].kind # "none"}}
Service == INSTANCE EmsService WITH
  Handles <- Hdl, Frames <- Frame, Window <- Phys, Contents <- Frame \cup {Hole},
  Identity <- Only(Identity, Phys), FrameWindow <- Window, None <- Nil,
  open <- Used, pages <- MappedPages, context <- MappedContext,
  window <- MappedWindow, records <- MappedRecords
ImplementsService == Service!ServiceSpec

=============================================================================
