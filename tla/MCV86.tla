------------------------------- MODULE MCV86 -------------------------------
(***************************************************************************)
(* What runs below the programs in V86 mode, each part on a small machine: *)
(* a behaviour belongs to one part; the cfg says which parts.  The         *)
(* monitor, the A20 gate and the page map of modules have variables of     *)
(* their own, which stay as they were at the start in a behaviour of       *)
(* another part; the variables of the other parts are the first of the     *)
(* slots x1 to x15.                                                        *)
(***************************************************************************)
EXTENDS Monitor, A20, JlmPages

CONSTANT Selected
  \* of "monitor", "a20", "method", "io", "move", "pages", "hooks"

VARIABLES part, x1, x2, x3, x4, x5, x6, x7, x8, x9, x10, x11, x12, x13, x14,
          x15

(* What each of the three ways of moving the gate can do: on every machine *)
(* for "method"; for "a20", where the programs of a loaded monitor follow, *)
(* on those that have port 92h and answer nothing.                         *)
Ways == [{"fast", "kbc", "bios"} -> SUBSET {"on", "off"}]
Port92 == says = {} /\ ~user /\ works = [w \in {"fast", "kbc", "bios"} |->
                                          IF w = "fast" THEN {"on", "off"} ELSE {}]
GateStill == Port92 /\ start = "on"

(* The ports of the DMA map are 14, 15, 129 and 130 with holes on both     *)
(* sides, port 10 is channel 2's mask, 96 and 100 are the keyboard         *)
(* controller's, 146 is the PS/2 port; 768 is a port of a module in the    *)
(* first page of handler addresses, 1280 would be in the second.           *)
Access(outs, sizes, strs, reps, prts, cmds) ==
  [out : outs, size : sizes, str : strs, rep : reps, port : prts, cmd : cmds]
Accesses ==
  Access(BOOLEAN, {2, 4}, {FALSE}, {FALSE}, {14, 127, 129, 768}, {FALSE})
  \cup Access(BOOLEAN, {1, 2}, {TRUE}, BOOLEAN, {14, 129, 768}, {FALSE})
  \cup Access(BOOLEAN, {1}, {FALSE}, {FALSE}, {10, 15, 96, 100, 146, 768}, BOOLEAN)
  \cup Access({TRUE}, {2}, {FALSE}, {FALSE}, {100}, {TRUE})
Trap == INSTANCE IoTrap WITH
  bitmap <- x1, jlm <- x2, pages <- x3, hooked <- x4, cmd <- x5, acc <- x6,
  todo <- x7, IOPROC <- x8, cx <- x9, si <- x10, log <- x11, got <- x12,
  mem <- x13, fault <- x14, changes <- x15,
  Accesses <- Accesses, JlmPorts <- {15, 768},
  DmaPorts <- {10, 14, 15, 129, 130}, ChannelTwo <- {10}, RepCount <- 2,
  PagePorts <- 1024, MaxChanges <- 3

(* 4-byte pages, 2-byte KBs, chunks of two pages; block 3 lies beyond W,   *)
(* "4 GB".                                                                 *)
Emb == << [base |-> 4, size |-> 7], [base |-> 11, size |-> 3], [base |-> 17, size |-> 5] >>
Places(offs) == [hdl : 0 .. 3, off : offs, hi : {0}]
XmsMoves(offs, lens) == [fn : {"0B"}, src : Places(offs), dst : Places(offs), len : lens]
I15Moves ==
  [fn : {"87"}, src : [hdl : {0}, off : {1, 9, 18}, hi : {0}],
   dst : [hdl : {0}, off : {1, 9, 18}, hi : {0}], len : {2, 10, 12, 14}, limit : {11}]
Move == INSTANCE BlockMove WITH
  mem <- x1, moves <- x2, heap <- x3, heap4M <- x4, pte <- x5, pde <- x6,
  log <- x7,
  Top <- 44, W <- 32, K <- 2, Page <- 4, MaxChunk <- 8, Big <- 16,
  Border <- 8, RealTop <- 10, MaxWords <- 6, NoCheck <- TRUE,
  MaxPhysMem <- 28, Emb <- Emb,
  Calls <- XmsMoves({0, 3, 4}, {0, 1, 4, 10, 12}) \cup I15Moves,
  Nested <- XmsMoves({0, 2}, {4, 6}), HeapSize <- 12

(* Three procedures, two interrupts, of which Int 21h always enters Jemm.  *)
Hook == INSTANCE JlmHooks WITH
  dwHook <- x1, oldvect <- x2, bitmap <- x3, kept <- x4, hooked <- x5,
  int <- x6, at <- x7, v86faulthooks <- x8, faulted <- x9, lost <- x10,
  Procs <- {"p1", "p2", "p3"}, Ints <- {8, 33}, Marked <- {33},
  Rehook <- FALSE, Strangers <- TRUE

ASSUME V86Assumptions ==
  /\ Trap!IoAssumption
  /\ Hook!JlmHooksAssumption /\ Hook!NamesAssumption

slots == <<x1, x2, x3, x4, x5, x6, x7, x8, x9, x10, x11, x12, x13, x14, x15>>
vars == <<part, monVars, gateVars, jlmVars, slots>>

(* The slots that a part with n variables leaves idle.                     *)
Idle10 == x11 = 0 /\ x12 = 0 /\ x13 = 0 /\ x14 = 0 /\ x15 = 0
Idle7 == x8 = 0 /\ x9 = 0 /\ x10 = 0 /\ Idle10
Idle0 == x1 = 0 /\ x2 = 0 /\ x3 = 0 /\ x4 = 0 /\ x5 = 0 /\ x6 = 0 /\ x7 = 0 /\ Idle7
OwnKept == UNCHANGED <<part, monVars, gateVars, jlmVars>>
Kept7 == OwnKept /\ UNCHANGED <<x8, x9, x10, x11, x12, x13, x14, x15>>
Kept10 == OwnKept /\ UNCHANGED <<x11, x12, x13, x14, x15>>
SlotsKept == UNCHANGED <<part, slots>>
MonOnly == UNCHANGED <<gateVars, jlmVars>> /\ SlotsKept
GateOnly == UNCHANGED <<monVars, jlmVars>> /\ SlotsKept
JlmOnly == UNCHANGED <<monVars, gateVars>> /\ SlotsKept

Init ==
  /\ part \in Selected
  /\ MonInit /\ GateInit /\ JlmInit
  /\ CASE part = "method" -> TRUE [] part = "a20" -> Port92 [] OTHER -> GateStill
  /\ \/ part \in {"monitor", "a20", "method", "pages"} /\ Idle0
     \/ part = "io" /\ Trap!Init
     \/ part = "move" /\ Move!Init /\ Idle7
     \/ part = "hooks" /\ Hook!Init /\ Idle10

Next ==
  \/ part = "monitor" /\ MonNext /\ MonOnly
  \/ part = "a20" /\ GateNext /\ GateOnly
  \/ part = "method" /\ MethodNext /\ UNCHANGED emulation /\ GateOnly
  \/ part = "io" /\ Trap!Next /\ OwnKept
  \/ part = "move" /\ Move!Next /\ Kept7
  \/ part = "pages" /\ JlmNext /\ JlmOnly
  \/ part = "hooks" /\ Hook!Next /\ Kept10

(* Ring 0 runs on, handlers return, a move that is under way goes on:      *)
(* nothing else is assumed.                                                *)
Spec ==
  /\ Init /\ [][Next]_vars
  /\ WF_vars(part = "monitor" /\ Ring0 /\ MonOnly)
  /\ WF_vars(part = "monitor" /\ Traps /\ MonOnly)
  /\ WF_vars(part = "move" /\ (Move!Map \/ Move!Copy) /\ Kept7)
-----------------------------------------------------------------------------
(* The types of the variables of the parts.                                *)
TypesOK ==
  /\ MonTypeOK /\ A20TypeOK /\ JlmPagesTypeOK
  /\ part = "io" => Trap!IoTypeOK
  /\ part = "move" => Move!MoveTypeOK
  /\ part = "hooks" => Hook!JlmHooksTypeOK

(* The I/O instructions that the monitor emulates do what they would do on *)
(* the machine, and each port with a handler has its handler called.       *)
(* PageFaultFF: the page FF000 is ROM but for one instruction.             *)
AsInHardware ==
  /\ RomGuarded
  /\ part = "io" => Trap!AsInHardware /\ Trap!NothingMissed /\ Trap!ScanCodesIntact
                      /\ Trap!MapStaysTrapped

(* MoveMemoryPhys: a move copies its range and nothing else, inside the    *)
(* blocks that it names, also if a handler moves memory meanwhile; the     *)
(* page map heap is given back.                                            *)
MovedRight ==
  part = "move" => Move!MovedRight /\ Move!MovesInside /\ Move!WindowsReturned

(* Resume_Exec: ring 0 code that has called into V86 mode goes on some     *)
(* time, unless an exception has aborted the program.  MoveMemoryPhys: a   *)
(* move that was accepted completes.                                       *)
Progress ==
  /\ Resumed
  /\ \A k \in 1 .. 2 :
       (part = "move" /\ Move!Begun(k)) ~> (part = "move" /\ Move!Completed(k))

(* Hook_V86_Int_Chain, Hook_V86_Fault: what is hooked is called, in order, *)
(* also when it comes and goes while an interrupt is handed on.            *)
HooksWhole == part = "hooks" => Hook!HookedCalled /\ Hook!FaultsChained
============================================================================
