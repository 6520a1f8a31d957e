------------------------------ MODULE XmsQuery ------------------------------
(***************************************************************************)
(* The XMS calls that only read the handle table of Xms: free memory       *)
(* (AH=08h, 88h, C8h) and handle information (AH=0Eh, 8Eh).  The answers   *)
(* are operators on the table; what a client may conclude from them is     *)
(* stated against the calls that change it (src/src/XMS.ASM).              *)
(***************************************************************************)
EXTENDS XmsScan, FiniteSetsExt

CONSTANTS
  X2Max,        (* x2max: what a 16-bit call may answer (7FFFh or FFFFh)   *)
  Word64MB,     (* 10000h: sizes that do not fit DX                        *)
  MaxCount      (* 0FFh: BL holds at most so many handles                  *)

Capped(n, top) == IF n < top THEN n ELSE top

(* xms_ext_query_free_mem, as if blocks beyond 4 GB counted.               *)
ExtFree_Unfiltered(t) == {i \in Hdl : t[i].flags = "FREE"}   \* mutant

(* xms_ext_query_free_mem skips what lies beyond 4 GB ...                  *)
ExtFree(t) == {i \in Hdl : t[i].flags = "FREE" /\ t[i].base < FourGB}

(* ... and xms_sext_query_free_mem what lies below.                        *)
SextFree(t) == {i \in Hdl : t[i].flags = "FREE" /\ t[i].base >= FourGB}

Largest(t, S) == IF S = {} THEN 0 ELSE Max({t[i].size : i \in S})
Total(t, S) == MapThenSumSet(LAMBDA i : t[i].size, S)

(* The answers in EAX and EDX; BL is 0A0h when nothing is free.            *)
FreeAnswer(t, S) == [eax |-> Largest(t, S), edx |-> Total(t, S),
                     bl  |-> IF Total(t, S) = 0 THEN "A0" ELSE "00"]
ExtQueryFree(t) == FreeAnswer(t, ExtFree(t))
SextQueryFree(t) == FreeAnswer(t, SextFree(t))

(* ECX of AH=88h: the last address of any block below 4 GB, free or used.  *)
HighestEnd(t) ==
  LET ends == {t[i].base + t[i].size : i \in {k \in Hdl : Live(t, k) /\ t[k].base < FourGB}}
  IN IF ends = {} THEN 0 ELSE Max(ends)

(* xms_query_free_mem: the same, cut to 16 bits.                           *)
QueryFree(t) ==
  [ExtQueryFree(t) EXCEPT !.eax = Capped(@, X2Max), !.edx = Capped(@, X2Max)]

(* xms_ext_get_handle_info, for a handle in use.                           *)
ExtHandleInfo(t, i) == [free |-> Cardinality(Blanks(t)), locks |-> t[i].locks,
                        size |-> t[i].size]

(* xms_get_handle_info refuses a block whose size does not fit DX, as MS   *)
(* Himem does (?HINF_MSCOMP).                                              *)
HandleInfo(t, i) ==
  LET info == ExtHandleInfo(t, i)
  IN IF info.size >= Word64MB THEN [ok |-> FALSE]
     ELSE [ok |-> TRUE, free |-> Capped(info.free, MaxCount),
           locks |-> info.locks, size |-> info.size]
-----------------------------------------------------------------------------
(* The query and the allocation scan the table with filters of their own;  *)
(* they agree: a block of 1 KB or more can be had exactly if the query of  *)
(* its kind has shown as much, also with AH=08h and a request below X2Max, *)
(* no block ends above the reported top, and the count of free handles tells  *)
(* a client whether a shrinking reallocation will find one.                *)
AnswersHonest ==
  /\ \A sz \in ReqSizes \ {0} :
       /\ AllocHdl(h, sz, FALSE) # 0 <=> sz <= ExtQueryFree(h).eax
       /\ AllocHdl(h, sz, TRUE) # 0 <=> sz <= SextQueryFree(h).eax
       /\ sz <= QueryFree(h).eax => AllocHdl(h, sz, FALSE) # 0
       /\ AllocHdl(h, sz, FALSE) # 0 =>
            LET t == AllocTab(h, sz, FALSE)
            IN HighestEnd(t) = HighestEnd(h)
               /\ ExtQueryFree(t).edx < ExtQueryFree(h).edx
  /\ \A i \in Hdl, sz \in ReqSizes :
       LET info == HandleInfo(h, i)
       IN CanRealloc(i) /\ Successors(h, i) = {} /\ info.ok /\ sz < info.size
            => (info.free > 0 <=> ENABLED ReallocShrink(i, sz))
=============================================================================
