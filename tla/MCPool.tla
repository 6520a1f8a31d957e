------------------------------- MODULE MCPool -------------------------------
(***************************************************************************)
(* Pool on two small machines: 2 KB pages, 4 KB chunks, one RAM region     *)
(* whose first 8 KB are the monitor's, clients that ask for the same size. *)
(* The first machine is Pool's own; its constants are in the cfg.  A       *)
(* behaviour stays on one machine; the cfg says on which it may be.        *)
(***************************************************************************)
EXTENDS Pool

CONSTANTS Machines,   \* of "even", "odd"
          Rest        \* KB of RAM behind the last whole chunk of "even"

VARIABLES machine,
          xh, xblk, xend, xtotal, xused, xlastAlloc, xlastFreed, xembs, xvcpi, xems  \* of "odd"
odd == <<xh, xblk, xend, xtotal, xused, xlastAlloc, xlastFreed, xembs, xvcpi, xems>>

(* "even": behind the monitor four chunks.  With a rest behind them the    *)
(* clients ask for sizes that leave blocks with an odd number of chunks.   *)
EvenRegions == << [base |-> 4, size |-> 24 + Rest] >>
EvenReqSizes == IF Rest = 0 THEN {8} ELSE {5}

(* "odd": a region that does not start on a page, blocks are managed in    *)
(* slices and start and end with less than a page.  The handle table has   *)
(* its own instance: of a module that is only extended TLC evaluates the   *)
(* constant definitions once, and that would be for "even".                *)
OddRegions == << [base |-> 5, size |-> 29] >>

OddTable == INSTANCE Xms WITH
  NumHandles <- 3, MaxLocks <- 1, FourGB <- 64, Regions <- OddRegions, ReqSizes <- {8}, h <- xh

Odd == INSTANCE Pool WITH
  NumHandles <- 3, MaxLocks <- 1, FourGB <- 64, Regions <- OddRegions, ReqSizes <- {8},
  PageK <- 2, PPC <- 2, MaxPages <- 8, SysK <- 8,
  Space <- 1, MaxEms <- 1, FixBase <- 6, FixPages <- 2,
  h <- xh, blk <- xblk, end <- xend, total <- xtotal, used <- xused,
  lastAlloc <- xlastAlloc, lastFreed <- xlastFreed, embs <- xembs, vcpi <- xvcpi, ems <- xems

(* Odd works on its own table and blocks.                                  *)
ASSUME OddAssumption ==
  /\ Odd!PoolSizes
  /\ DOMAIN Odd!Booted.t = 1 .. 3 /\ Odd!Booted.t[1].base = 5 /\ DOMAIN Odd!Booted.blk = 1 .. 6

MCInit == machine \in Machines /\ PoolInit /\ Odd!PoolInit

MCNext ==
  \/ machine = "even" /\ PoolNext /\ UNCHANGED <<machine, odd>>
  \/ machine = "odd" /\ Odd!PoolNext /\ UNCHANGED <<machine, vars>>

MCSpec == MCInit /\ [][MCNext]_<<machine, vars, odd>>
-----------------------------------------------------------------------------
(* SearchBlock and GetFree16 trust psi_4kfree and psi_16kfree: they agree  *)
(* with the bitmap and with what the clients hold, so what VCPI reports    *)
(* free is there, and XMS blocks tile the memory of the machine.           *)
CountersExact ==
  /\ machine = "even" => PoolTypeOK /\ CountsExact /\ FreePagesHonest /\ Complete
  /\ machine = "odd" => Odd!PoolTypeOK

(* Pool_AllocateEMBForPool, Pool_Free...: every page a client holds is in  *)
(* one block, inside the EMB that was taken for it, and so is what may be  *)
(* handed out; an EMB goes back to XMS with the last page in use in it.    *)
HeldInside ==
  /\ machine = "even" => HeldInsideEmb /\ IdleMemoryReturned
  /\ machine = "odd" => Odd!HeldInsideEmb /\ Odd!BlocksApart /\ OddTable!NoOverlap

(* The pool and the XMS clients share a handle table and keep apart in it; *)
(* a page reported free to EMS clients is not lost by giving out another.  *)
PromisesKept ==
  [][/\ machine = "even" => ClientsApart /\ EmsPromise
     /\ machine = "odd" => Odd!ClientsApart]_<<machine, vars, odd>>
=============================================================================
