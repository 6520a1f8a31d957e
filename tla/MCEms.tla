------------------------------- MODULE MCEms --------------------------------
(***************************************************************************)
(* The EMS modules on small machines.  A behaviour belongs to one part:    *)
(* "pages" is Ems with its bounds spent on handles, "contexts" is Ems with *)
(* its bounds spent on windows (a page frame of one page instead of four), *)
(* "move" is function 57h, "call" the code that 55h and 56h put on the     *)
(* client's stack.  The variables of Ems belong to "pages"; the others     *)
(* share the slots x1 to x11.                                              *)
(***************************************************************************)
EXTENDS Ems, TLC

CONSTANTS
  Selected,     \* the parts that are checked
  f0, f1, f2,   \* frames of "pages": of conventional memory, of the pool
  g1,           \* the only frame of "contexts"
  c1            \* a buffer of a client

VARIABLES part, x1, x2, x3, x4, x5, x6, x7, x8, x9, x10, x11

slots == <<x1, x2, x3, x4, x5, x6, x7, x8, x9, x10, x11>>
vars == <<part, slots, emsVars>>

(* Three handles share four page descriptors; the pool grants less than    *)
(* is asked, and the system handle owns a page of conventional memory.     *)
MCConvFrames == <<f0>>

(* Two valid items of a map, and an item behind a valid one that unmaps.   *)
Contexts == INSTANCE Ems WITH
  NumHandles <- 2, EMSPagesMax <- 1, MaxState <- 2, PhysPages <- 2, FrameSize <- 1,
  ConvFrames <- << >>, PoolFrames <- {g1}, Names <- {}, Areas <- {c1},
  Lists <- {<< <<0, 0>>, <<1, 1>> >>, << <<0, 1>>, <<Nil, 0>> >>},
  hd <- x1, pd <- x2, pagesUsed <- x3, name <- x4, state <- x5, pte <- x6,
  stale <- x7, area <- x8, mapptr <- x9, others <- x10, ok <- x11

(* Pages of three units, conventional memory of six, two handles.          *)
Moves == INSTANCE EmsMove WITH
  PageSize <- 3, ConvTop <- 6, MaxMove <- 7, MaxCalls <- 1, Sizes <- {0, 1, 3, 4, 6, 8},
  HandlePages <- (1 :> <<"f", "g", "h">>) @@ (2 :> <<"i">>),
  Regions <- [typ : {0}, hdl : {0}, seg : {0}, ofs : {0, 1, 4}]
               \cup [typ : {1}, hdl : {1, 2}, seg : {0, 1, 2}, ofs : {0, 2, 3}]
               \cup [typ : {1, 2}, hdl : {3}, seg : {0}, ofs : {0}],
  mem <- x1, last <- x2

(* A map for both handles, one that handle 2 cannot serve, an empty one.   *)
Calls == INSTANCE EmsCall WITH
  PhysPages <- {0, 1}, HandlePages <- (1 :> 2) @@ (2 :> 1), Routines <- {"r", "s"},
  MaxDepth <- 2, CodeSize <- 30,
  Maps <- {<<[log |-> 0, phys |-> 0]>>,
           <<[log |-> 0, phys |-> 1], [log |-> 1, phys |-> 0]>>, << >>},
  window <- x1, open <- x2, stack <- x3, pc <- x4, calls <- x5

ASSUME ContextsAssumption == Contexts!EmsAssumption

Idle3to5 == x3 = 0 /\ x4 = 0 /\ x5 = 0
Idle6to11 == x6 = 0 /\ x7 = 0 /\ x8 = 0 /\ x9 = 0 /\ x10 = 0 /\ x11 = 0

MCInit ==
  /\ part \in Selected
  /\ EmsInit
  /\ \/ part = "pages" /\ x1 = 0 /\ x2 = 0 /\ Idle3to5 /\ Idle6to11
     \/ part = "contexts" /\ Contexts!EmsInit
     \/ part = "move" /\ Moves!Init /\ Idle3to5 /\ Idle6to11
     \/ part = "call" /\ Calls!Init /\ Idle6to11

MCNext ==
  \/ part = "pages" /\ EmsNext /\ UNCHANGED <<part, slots>>
  \/ part = "contexts" /\ Contexts!EmsNext /\ UNCHANGED <<part, emsVars>>
  \/ /\ part = "move" /\ Moves!Next
     /\ UNCHANGED <<part, emsVars, x3, x4, x5, x6, x7, x8, x9, x10, x11>>
  \/ /\ part = "call" /\ Calls!Next
     /\ UNCHANGED <<part, emsVars, x6, x7, x8, x9, x10, x11>>

MCSpec == MCInit /\ [][MCNext]_vars

(* The two frames of the pool in "pages" are alike.                        *)
Sym == Permutations({f1, f2})
-----------------------------------------------------------------------------
(* The other parts.  The tables are whole while windows are saved, mapped  *)
(* and restored; 57h moves or exchanges what it was asked to and nothing   *)
(* else; and the types of 55h and 56h.                                     *)
PartsWhole ==
  /\ part = "contexts" => Contexts!HandlesWhole
  /\ part = "move" => Moves!EmsMoveTypeOK /\ Moves!MovedWhole
  /\ part = "call" => Calls!EmsCallTypeOK

(* A call that maps windows flushes the TLB, one that fails keeps the      *)
(* contexts, all are steps of the service; and what 56h called returns to  *)
(* its caller with the caller's stack and the windows of the old map.      *)
ContextsInit == part = "contexts" => Contexts!Service!ServiceInit
PartsKept ==
  /\ ContextsInit
  /\ [][/\ part = "contexts" => /\ Contexts!FailureKeepsHandles /\ Contexts!FlushedOnSuccess
                                /\ [Contexts!Service!ServiceNext]_(Contexts!Service!sVars)
        /\ part = "call" => Calls!CallReturns]_vars
=============================================================================
