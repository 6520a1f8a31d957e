------------------------------ MODULE JlmPages ------------------------------
(***************************************************************************)
(* Address space and memory of loaded modules: _PageReserve, _PageCommit,  *)
(* _PageCommitPhys, _PageDecommit and _PageFree of src/Tools/JLOAD/VMM.ASM *)
(* and what JLOAD32.ASM does with them when it loads and unloads a module. *)
(*                                                                         *)
(* Linear pages are numbered from the begin of the private region; the     *)
(* page map has an entry for each, whether its page table exists or not.   *)
(***************************************************************************)
EXTENDS Integers, FiniteSets

CONSTANTS
  TableSize,     (* entries of a page table: 1024                          *)
  PrivateTables, (* page tables the private region would need              *)
  SystemTables,  (* ... and the system region, F8400000h and up            *)
  Pages,         (* physical pages of the pool                             *)
  MaxBlock,      (* bound: pages asked for                                 *)
  Modules        (* modules that are loaded and unloaded                   *)

None == 0        \* no physical page
Device == -1     \* memory of a device, mapped with _PageCommitPhys

ASSUME JlmPagesAssumption ==
  /\ {TableSize, SystemTables, MaxBlock} \subseteq Nat \ {0} /\ PrivateTables \in Nat
  /\ Pages \subseteq Nat \ {0} /\ IsFiniteSet(Pages)

Tables == 0..(PrivateTables + SystemTables - 1)
Top == (PrivateTables + SystemTables) * TableSize - 1
Linear == 0..Top
SystemBase == PrivateTables * TableSize
TableOf(p) == p \div TableSize
Region == [private |-> 0..(SystemBase - 1), system |-> SystemBase..Top]
Begin == [private |-> 0, system |-> SystemBase]
Size == [private |-> SystemBase, system |-> SystemTables * TableSize]

(* An entry of the page map: 0, reserved (USER + R/W), a page of the pool, *)
(* or a mapped one (bit 400h); first is bit 200h.                          *)
Entry == [is : {"none", "reserved", "page", "phys"}, first : BOOLEAN,
          page : Pages \union {None, Device}]
Empty == [is |-> "none", first |-> FALSE, page |-> None]

VARIABLES
  pte,       (* the page map                                               *)
  pde,       (* page tables: the page each is in                           *)
  free,      (* pages of the pool that are free                            *)
  others,    (* ... that EMS, VCPI clients and XMS hold                    *)
  blocks,    (* blocks modules were given and did not free: first, number  *)
  loaded,    (* modules in memory: the begin of each                       *)
  eax        (* what the last call told: an address, 1, 0, -1, or that it  *)
             (* did not return                                             *)

map == <<pte, pde, free>>
jlmVars == <<map, others, blocks, loaded, eax>>

NoReturn == -2
Scanning == -3
Failed == -1
NotLoaded == -1

(* JLOAD32 itself is in the first page of the system region; InitMapPage.  *)
JlmInit ==
  /\ pte = [p \in Linear |-> IF p = SystemBase THEN [Empty EXCEPT !.is = "phys", !.page = Device]
                             ELSE Empty]
  /\ pde = [t \in Tables |-> IF t = TableOf(SystemBase) THEN Device ELSE None]
  /\ free = Pages /\ others = {} /\ blocks = {}
  /\ loaded = [m \in Modules |-> NotLoaded]
  /\ eax = 0
-----------------------------------------------------------------------------
(* The services, as what they make of the map; ax is what they answer.     *)
State == [pte |-> pte, pde |-> pde, free |-> free, ax |-> 0]
Become(s) == pte' = s.pte /\ pde' = s.pde /\ free' = s.free /\ eax' = s.ax

IsFree(p) == p \in Linear /\ pte[p].is = "none"

(* ECX behind a gap that is too small: it is popped before it is used, so  *)
(* what is left grows by what is missing from the size.                    *)
ScanLeft(left, n) == left - ((n - 1) - left)

(* From @@continuescan to the next time there, or to an answer: the first  *)
(* entry of a gap of n, Failed, or NoReturn when it runs out of the map.   *)
ScanStep(c, n) ==
  LET q == CHOOSE q \in c.at..(Top + 1) : /\ q = Top + 1 \/ IsFree(q)
                                          /\ \A r \in c.at..(q - 1) : ~ IsFree(r)
      behind == c.left - (q - c.at) - 1
      run == CHOOSE k \in 0..(n - 1) : /\ \A i \in 1..k : IsFree(q + i)
                                       /\ k = n - 1 \/ ~ IsFree(q + k + 1)
      answer == IF behind < 0 THEN Failed
                ELSE IF q > Top THEN NoReturn
                ELSE IF behind < n - 1 THEN Failed
                ELSE IF run = n - 1 THEN q
                ELSE IF q + run + 1 > Top THEN NoReturn ELSE Scanning
  IN  IF c.ax # Scanning THEN c
      ELSE [at |-> q + run + 2, left |-> ScanLeft(behind, n), ax |-> answer]

(* The scan from p, with left entries to look at.                          *)
Scan(p, left, n) ==
  LET c[k \in 0..(Top + 1)] == IF k = 0 THEN [at |-> p, left |-> left, ax |-> Scanning]
                               ELSE ScanStep(c[k - 1], n)
  IN  c[Top + 1].ax

(* A page of the pool for each of xs.                                      *)
AllocPages(xs, pool) == CHOOSE f \in [xs -> pool] : \A a, b \in xs : a # b => f[a] # f[b]

Missing(s, ps) == {t \in {TableOf(p) : p \in ps} : s.pde[t] = None}

(* @@found: page tables, then the entries.  Without a page for a table it  *)
(* leaves by @@error with EBX and EDI still on the stack.                  *)
Reserved(s, q, n) ==
  LET new == Missing(s, q..(q + n - 1))
      give == AllocPages(new, s.free)
  IN  IF Cardinality(new) > Cardinality(s.free) THEN [s EXCEPT !.ax = NoReturn]
      ELSE [s EXCEPT !.pde = [t \in Tables |-> IF t \in new THEN give[t] ELSE @[t]],
                     !.free = @ \ {give[t] : t \in new},
                     !.pte = [p \in Linear |->
                                IF p \in q..(q + n - 1)
                                THEN [is |-> "reserved", first |-> p = q, page |-> None] ELSE @[p]],
                     !.ax = q]

(* _PageReserve                                                            *)
Reserve(s, region, n) ==
  LET q == IF n = 0 THEN Failed ELSE Scan(Begin[region], Size[region], n)
  IN  IF q < 0 THEN [s EXCEPT !.ax = q] ELSE Reserved(s, q, n)

(* _PageCommit: the first pass changes nothing; AllocPage does not fail    *)
(* after GetFreePages promised the pages.                                  *)
Commit(s, ps, fixed) ==
  LET new == {p \in ps : s.pte[p].is = "reserved"}
      give == AllocPages(new, s.free)
  IN  IF \/ ps = {} \/ \E p \in ps : s.pte[p].is = "none"
         \/ fixed /\ new # ps
         \/ Cardinality(new) > Cardinality(s.free)
      THEN [s EXCEPT !.ax = 0]
      ELSE [s EXCEPT !.pte = [p \in Linear |-> IF p \in new
                                               THEN [@[p] EXCEPT !.is = "page", !.page = give[p]]
                                               ELSE @[p]],
                     !.free = @ \ {give[p] : p \in new}, !.ax = 1]

(* _PageCommitPhys: the region must not be committed.                      *)
CommitPhys(s, ps) ==
  IF ps = {} \/ \E p \in ps : s.pte[p].is # "reserved" THEN [s EXCEPT !.ax = 0]
  ELSE [s EXCEPT !.pte = [p \in Linear |-> IF p \in ps THEN [@[p] EXCEPT !.is = "phys", !.page = Device]
                                           ELSE @[p]],
                 !.ax = 1]

Decommit_Begin(s, ps) ==   \* mutant: the "begin block" bit is not preserved
  IF ps = {} THEN [s EXCEPT !.ax = 0]
  ELSE [s EXCEPT !.pte = [p \in Linear |-> IF p \in ps /\ @[p].is \in {"page", "phys"}
                                           THEN [is |-> "reserved", first |-> FALSE, page |-> None] ELSE @[p]],
                 !.free = @ \union {s.pte[p].page : p \in {q \in ps : s.pte[q].is = "page"}}, !.ax = 1]

(* _PageDecommit: a mapped page is not given to the pool.                  *)
Decommit(s, ps) ==
  IF ps = {} THEN [s EXCEPT !.ax = 0]
  ELSE [s EXCEPT !.pte = [p \in Linear |-> IF p \in ps /\ @[p].is \in {"page", "phys"}
                                           THEN [is |-> "reserved", first |-> @[p].first, page |-> None]
                                           ELSE @[p]],
                 !.free = @ \union {s.pte[p].page : p \in {q \in ps : s.pte[q].is = "page"}}, !.ax = 1]

(* From a begin to the next begin, the next entry that is 0, or the end.   *)
Object(s, p) ==
  {q \in p..Top : \A r \in (p + 1)..q : s.pte[r].is # "none" /\ ~ s.pte[r].first}

(* _PageFree                                                               *)
Release(s, p) ==
  IF ~ s.pte[p].first THEN [s EXCEPT !.ax = 0]
  ELSE [s EXCEPT !.free = @ \union {s.pte[q].page : q \in {r \in Object(s, p) : s.pte[r].is = "page"}},
                 !.pte = [q \in Linear |-> IF q \in Object(s, p) THEN Empty ELSE @[q]],
                 !.ax = 1]
-----------------------------------------------------------------------------
Alive == eax # NoReturn
Block(q, n) == [first |-> q, pages |-> n]
Extent(b) == b.first..(b.first + b.pages - 1)
Own == {b \in blocks : \A m \in Modules : loaded[m] # b.first}
Parts(b) == {i..j : i, j \in Extent(b)} \ {{}}

(* Bound: the 3.9 GB of the private region are not used up; the last entry *)
(* in front of Jemm's and JLOAD's own, which carry no bit 200h, stays 0.   *)
Roomy(s, n) == s.ax >= 0 => SystemBase - 1 \notin s.ax..(s.ax + n - 1)

PageReserve(region, n) ==
  LET s == Reserve(State, region, n)
  IN  /\ Roomy(s, n) /\ Become(s)
      /\ blocks' = IF s.ax < 0 THEN blocks ELSE blocks \union {Block(s.ax, n)}
      /\ UNCHANGED <<others, loaded>>
PageCommit(ps, fixed) == Become(Commit(State, ps, fixed)) /\ UNCHANGED <<others, blocks, loaded>>
PageCommitPhys(ps) == Become(CommitPhys(State, ps)) /\ UNCHANGED <<others, blocks, loaded>>
PageDecommit(ps) == Become(Decommit(State, ps)) /\ UNCHANGED <<others, blocks, loaded>>

(* A module frees a block, or passes an address that is no begin.          *)
PageFree(p) ==
  /\ Become(Release(State, p))
  /\ blocks' = {b \in blocks : b.first # p}
  /\ UNCHANGED <<others, loaded>>

(* LoadJLM, FreeDiscardableSections: the image, whose last pages may be    *)
(* discardable; the file is read with nested execution and that may fail.  *)
LoadJLM(m, n, discard, readable) ==
  LET r == Reserve(State, "system", n)
      c == Commit(r, r.ax..(r.ax + n - 1), TRUE)
      d == Decommit(c, (r.ax + n - discard)..(r.ax + n - 1))
  IN  /\ loaded[m] = NotLoaded
      /\ IF r.ax < 0 THEN Become(r) /\ UNCHANGED <<blocks, loaded>>
         ELSE /\ blocks' = blocks \union {Block(r.ax, n)}
              /\ IF c.ax = 0 \/ ~ readable THEN Become([c EXCEPT !.ax = 0]) /\ UNCHANGED loaded
                 ELSE Become([d EXCEPT !.ax = 1]) /\ loaded' = [loaded EXCEPT ![m] = r.ax]
      /\ UNCHANGED others

(* start: the module's entry point answers 0 on attach, or lets go of it.  *)
UnloadJLM(m) ==
  /\ loaded[m] # NotLoaded
  /\ Become(Release(State, loaded[m]))
  /\ blocks' = {b \in blocks : b.first # loaded[m]}
  /\ loaded' = [loaded EXCEPT ![m] = NotLoaded]
  /\ UNCHANGED others

(* The pool's other clients.                                               *)
OthersTake == \E p \in free :
  free' = free \ {p} /\ others' = others \union {p} /\ UNCHANGED <<pte, pde, blocks, loaded, eax>>
OthersReturn == \E p \in others :
  free' = free \union {p} /\ others' = others \ {p} /\ UNCHANGED <<pte, pde, blocks, loaded, eax>>

JlmNext ==
  /\ Alive
  /\ \/ \E region \in DOMAIN Region, n \in 0..MaxBlock : PageReserve(region, n)
     \/ \E b \in Own, fixed \in BOOLEAN : \E ps \in Parts(b) : PageCommit(ps, fixed)
     \/ \E b \in Own : \E ps \in Parts(b) : PageCommitPhys(ps)
     \/ \E b \in Own : \E ps \in Parts(b) : PageDecommit(ps)
     \/ \E b \in Own : \E p \in Extent(b) : PageFree(p)
     \/ \E m \in Modules, n \in 1..MaxBlock, discard \in {0, 1}, readable \in BOOLEAN :
          discard < n /\ LoadJLM(m, n, discard, readable)
     \/ \E m \in Modules : UnloadJLM(m)
     \/ OthersTake
     \/ OthersReturn

JlmSpec == JlmInit /\ [][JlmNext]_jlmVars
-----------------------------------------------------------------------------
JlmPagesTypeOK ==
  /\ pte \in [Linear -> Entry]
  /\ pde \in [Tables -> Pages \union {None, Device}]
  /\ free \subseteq Pages /\ others \subseteq Pages
  /\ blocks \subseteq [first : Linear, pages : 1..MaxBlock]
  /\ loaded \in [Modules -> Linear \union {NotLoaded}]

(* A page of the pool is in one place: free, another client's, a page      *)
(* table, or behind one linear page.  None is lost and none is shared.     *)
PlacesOf(g) ==
  (IF g \in free THEN 1 ELSE 0) + (IF g \in others THEN 1 ELSE 0)
  + Cardinality({t \in Tables : pde[t] = g}) + Cardinality({p \in Linear : pte[p].page = g})
PagesInOnePlace == \A g \in Pages : PlacesOf(g) = 1

(* The blocks that were given out are apart, each has page tables, and the *)
(* map shows them and nothing else: whatever was committed, mapped and     *)
(* decommitted in between, _PageFree frees the block it is called for, the *)
(* whole of it and no more.                                                *)
BlocksWhole ==
  /\ \A b \in blocks : \A c \in blocks \ {b} : Extent(b) \intersect Extent(c) = {}
  /\ {p \in Linear : pte[p].is # "none"} = {SystemBase} \union UNION {Extent(b) : b \in blocks}
  /\ {p \in Linear : pte[p].first} = {b.first : b \in blocks}
  /\ \A p \in Linear : pte[p].is # "none" => pde[TableOf(p)] # None

(* _PageReserve answers with an address or -1, ";--- out: linear address   *)
(* in EAX or -1" (src/Tools/JLOAD/VMM.ASM).                                *)
ReserveAnswers == eax # NoReturn

(* A block lies in one of the two regions, and does not reach from the     *)
(* private region into the system region.                                  *)
InRegion == \A b \in blocks : Extent(b) \subseteq Region.private \/ Extent(b) \subseteq Region.system

(* What is answered for PR_PRIVATE lies in the private region.  ECX grows  *)
(* at a gap that is too small (VMM.ASM:1454-1456), and the scan passes     *)
(* the end of the region it was told of.                                   *)
RegionAsked == \A n \in 1..MaxBlock : Reserve(State, "private", n).ax < SystemBase

(* _PageReserve to _PageFree of VMM.ASM: a page of the pool is in one      *)
(* place, and the linear blocks are those that were given out.             *)
PagesWhole == PagesInOnePlace /\ BlocksWhole /\ InRegion
=============================================================================
