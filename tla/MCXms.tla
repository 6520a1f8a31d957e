------------------------------- MODULE MCXms -------------------------------
(***************************************************************************)
(* The XMS calls on a small machine: the EMB allocator with two RAM        *)
(* regions, the second beyond "4 GB", and the UMB table.  A behaviour      *)
(* belongs to one of the two.                                              *)
(***************************************************************************)
EXTENDS XmsReentrant, Umb

VARIABLE part

MCRegions == << [base |-> 2, size |-> 5], [base |-> 20, size |-> 2] >>
MCReqSizes == {0, 1, 2, 3}

(* Pages of two grains: a page that joins conventional memory, a gap, two  *)
(* pages that take the resident part, and a split ROM.                     *)
MCPages == 4 .. 9
MCPageMap == << 4, 4, 4, 0, 4, 0, 0, 2, 4 >>

vars == <<part, rvars, umbVars>>
MCInit == part \in {"emb", "umb"} /\ RInit /\ UmbInit
MCNext ==
  \/ part = "emb" /\ RNext /\ UNCHANGED <<part, umbVars>>
  \/ part = "umb" /\ UmbNext /\ UNCHANGED <<part, rvars>>
MCSpec == MCInit /\ [][MCNext]_vars
-----------------------------------------------------------------------------
(* The loop of xms_free_emb that merges free blocks, entry by entry, has   *)
(* the result that Xms takes for it; and what xms_query_free_mem tells of  *)
(* free blocks and handles is what a client can then get, also while a     *)
(* reallocation is under way.                                              *)
TablesAgree == FreeTabIsTheScan /\ AnswersHonest
=============================================================================
