------------------------------ MODULE MCStart ------------------------------
(***************************************************************************)
(* How Jemm is loaded, unloaded and left by a restart, each part on a set  *)
(* of machines: a behaviour belongs to one part; the cfg says which parts. *)
(* The restart has variables of its own, which stay as they were at the    *)
(* start in a behaviour of another part; the variables of the other parts  *)
(* are the first of the slots x1 to x17.                                   *)
(***************************************************************************)
EXTENDS Restart, Integers, Sequences

CONSTANTS
  Selected,   \* of "cmd", "scan", "boot", "resident", "restart"
  Hole        \* "boot" is the machine with a hole in its memory

VARIABLES part, x1, x2, x3, x4, x5, x6, x7, x8, x9, x10, x11, x12, x13, x14,
          x15, x16, x17

(* Command lines of one and two words out of all the options.              *)
Plain == {<<"FASTBOOT">>, <<"LOAD">>, <<"UN", "LOAD">>, <<"/?">>, <<"NO", "VCPI">>, <<"VCPI">>, <<"NO", "A20">>, <<"A20">>,
          <<"NO", "VME">>, <<"VME">>, <<"PGE">>, <<"V86EXC0D">>, <<"NOE801">>, <<"VERBOSE">>,
          <<"NODYN">>, <<"NOEMS">>, <<"NO", "VDS">>, <<"VDS">>, <<"X=", "TEST">>, <<"I=", "TEST">>, <<"SB">>, <<"SPLIT">>,
          <<"MOVEXBDA">>, <<"NOCHECK">>, <<"NO", "RAM">>, <<"RAM">>, <<"NOHI">>}
Valued == {<<"A20", "METHOD:", "KBC">>, <<"HMA", "MIN=", "64">>, <<"MAXEXT=", "64", "M">>, <<"XMSHANDLE", "S=", "4">>,
           <<"XMSHANDLE", "S=", "200">>, <<"X2", "MA", "X=", "64">>, <<"MIN=", "4", "M">>, <<"MA", "X=", "1000">>,
           <<"F", "RAM", "E=", "E000">>, <<"F", "RAM", "E=", "E010">>, <<"F", "RAM", "E=", "NONE">>,
           <<"D=", "64">>, <<"D=", "200">>, <<"B=", "4">>, <<"64", "M">>}
RangeWords == {<<"I=", "C800", "-", "CFFF">>, <<"X=", "E000", "-", "E010">>, <<"S=", "1000", "-", "A000">>}
Words == Plain \union Valued \union RangeWords
Apart(v, w) ==   \* FRAME=NONE and FRAME= exclude one another
  v # w /\ ~ (v[1] = w[1] /\ v[1] \in {"F", "D=", "XMSHANDLE"})
Lines == {<<w>> : w \in Words} \union {l \in Words \X Words : Apart(l[1], l[2])}
Cmd == INSTANCE CmdLine WITH
  typed <- x1, driver <- x2, line <- x3, row <- x4, opt <- x5, ranges <- x6,
  Lines <- Lines

(* The memory scan with pages of four blocks: A000 is page 4, C000 6, F000 *)
(* 14, F800 16; a frame has four pages, an EMS page two.                   *)
Rom(a, l) == [at |-> a, len |-> l]
RomSets == {{}, {Rom(24, 9)}, {Rom(24, 5), Rom(30, 1)}, {Rom(26, 8), Rom(44, 4)}, {Rom(50, 7)}, {Rom(54, 8)}}
Machine(roms, ram, umbpci, flat, dirty, reserved, vmware) ==
  [roms |-> roms, ram |-> ram, umbpci |-> umbpci, flat |-> flat, dirty |-> dirty,
   reserved |-> reserved, vmware |-> vmware]
ScanMachines ==
  {Machine(roms, ram, {}, {7, 13, 15}, {10}, {}, {}) :
     roms \in RomSets, ram \in {{}, {9, 11}, {12, 13, 14}}}
  \union {Machine({Rom(24, 9)}, {}, {10, 11}, {}, {}, {}, {}),
          Machine({Rom(24, 9)}, {9}, {10, 11}, {}, {}, {12}, {}),
          Machine({}, {}, {}, {13}, {}, {13}, {}),
          Machine({Rom(24, 4)}, {}, {}, {}, {}, {}, {12, 13})}

Range(t, f, e) == [type |-> t, from |-> f, to |-> e]
RangeSets == {<<>>, <<Range("I", 4, 6)>>, <<Range("I", 8, 12), Range("S", 11, 13), Range("X", 9, 10)>>,
              <<Range("I", 14, 16)>>, <<Range("I", 15, 18), Range("X", 17, 18)>>, <<Range("X", 6, 8), Range("X", 2, 5)>>, <<Range("S", 9, 10)>>}
User(ranges, wanted, noems, noframe, noram, xtest, itest, split) ==
  [ranges |-> ranges, wanted |-> wanted, noems |-> noems, noframe |-> noframe, noram |-> noram,
   xtest |-> xtest, itest |-> itest, split |-> split, border |-> IF wanted = 9 THEN 4 ELSE 0]
Users ==
  {User(rs, w, FALSE, FALSE, FALSE, f[1], f[2], f[3]) :
     rs \in RangeSets, w \in {0, 2, 9}, f \in {<<FALSE, FALSE, TRUE>>,
       <<TRUE, FALSE, FALSE>>, <<FALSE, TRUE, FALSE>>, <<TRUE, TRUE, TRUE>>}}
  \union {User(rs, 0, e, ~ e, r, TRUE, TRUE, TRUE) : rs \in RangeSets, e \in BOOLEAN, r \in BOOLEAN}
Scan == INSTANCE MemScan WITH
  machine <- x1, user <- x2, SystemMemory <- x3, phase <- x4, mem <- x5,
  si <- x6, Frame <- x7, NoFrame <- x8, cl <- x9, EMSPage2Segm <- x10,
  A0 <- 4, C0 <- 6, F0 <- 14, F8 <- 16, Top <- 18, HardMin <- 2,
  FrameLen <- 4, EmsPage <- 2, PageBlocks <- 4, MaxPhysPg <- 4,
  Machines <- ScanMachines, Users <- Users

(* Machines with no region of memory, with one, and with two, one of them  *)
(* beyond 4 GB or too small for more than the HMA; and one whose monitor   *)
(* has the DMA buffer just below 16 MB.                                    *)
FourGB == 4194304
Unset == -1
Ram(b, l) == [base |-> b, len |-> l]
Host(rs, ext, umb, conv, code, rest) ==
  [regions |-> rs, ext |-> ext, umb |-> umb, conv |-> conv, code |-> code, rest |-> rest]
Regions == {<<Ram(0, 639), Ram(1024, 31744)>>, <<Ram(0, 639), Ram(1024, 14336), Ram(16384, 200000)>>,
            <<Ram(1024, 3000000), Ram(FourGB, 1048576)>>, <<>>,
            <<Ram(1024, 64), Ram(16384, 200000)>>, <<Ram(16220, 100000)>>}
BootMachines ==
  {Host(rs, IF rs = <<>> THEN e ELSE 0, u, c, 5, r) :
     rs \in Regions, e \in {0, 64, 704, 960, 15360}, u \in {0, 13, 40}, c \in {0, 24}, r \in {500, 3000}}
Request(np, ne, mn, mx, d, hd, fb, me) ==
  [nopool |-> np, noems |-> ne, min |-> mn, max |-> mx, dma |-> d, handles |-> hd, fastboot |-> fb, maxext |-> me]
BootRequests ==
  {Request(np, FALSE, mn, mx, d, 32, FALSE, 2000000000) :
     np \in BOOLEAN, mn \in {Unset, 128}, mx \in {Unset, 1024}, d \in {0, 4, 32, 64, 128}}
  \union {Request(FALSE, TRUE, Unset, Unset, d, 128, fb, 8000) : d \in {8, 100}, fb \in BOOLEAN}
(* A hole at 15 MB, and more asked for than there is below it.             *)
HoleMachines == {Host(<<Ram(1024, 14336), Ram(16384, 200000)>>, 0, 13, 0, 5, 500)}
HoleRequests == {Request(TRUE, FALSE, 1024, Unset, 64, 32, FALSE, 2000000000)}
Place == INSTANCE Boot WITH
  machine <- x1, req <- x2, phase <- x3, item <- x4, h <- x5, xms_max <- x6,
  mem <- x7, sizes <- x8, ctrl <- x9, mon <- x10, dma <- x11, heap <- x12,
  edi <- x13, umbs <- x14, shadow <- x15, max4K <- x16, pool <- x17,
  Machines <- IF Hole THEN HoleMachines ELSE BootMachines,
  Requests <- IF Hole THEN HoleRequests ELSE BootRequests

(* With and without UMBs, at A000h, at C800h or both, an XBDA of 1 or 12   *)
(* KB that moves or not, as a driver or from the command line, the monitor *)
(* in the first XMS handle or behind.                                      *)
Umb(seg, size) == [seg |-> seg, size |-> size]
UmbLists == {<<>>, <<Umb(800, 32)>>, <<Umb(640, 96)>>, <<Umb(640, 64), Umb(800, 32)>>,
             <<Umb(800, 8), Umb(832, 16)>>}
Kinds == [mode: {"sys", "exe"}, umbs: UmbLists, xbda: {0, 1, 12}, nohi: BOOLEAN,
         movexbda: BOOLEAN, ctrl: {1, 2}, emm: BOOLEAN]
Full(m) == [mode |-> m.mode, umbs |-> m.umbs, xbda |-> m.xbda, nohi |-> m.nohi,
            movexbda |-> m.movexbda, ctrl |-> m.ctrl, emm |-> m.emm, top |-> 640 - m.xbda, size |-> 2]
ResMachines == {Full(m) : m \in Kinds}
Res == INSTANCE Resident WITH
  mach <- x1, phase <- x2, top <- x3, last <- x4, xbda <- x5, umb <- x6,
  res <- x7, low <- x8, files <- x9, ivt <- x10, prev <- x11, entry <- x12,
  chain <- x13, emb <- x14, ems <- x15, umbOwner <- x16,
  Machines <- ResMachines, Programs <- {"tsr"}

(* Versions of DOS, some of which hook Int 19h and restore what they       *)
(* changed, some restore less, some do not hook it at all.                 *)
AllOptions == [fast : BOOLEAN, alt : BOOLEAN]
SomeTakes == {{"v13", "v19", "v21"}, {"v13", "v15", "v19", "v21", "v40"}, {"v13", "v21"}}
SomeSaves == {{"v13", "v15", "v19"}, {"v13", "v15", "v19", "v40"}, {"v13"}}

slots == <<x1, x2, x3, x4, x5, x6, x7, x8, x9, x10, x11, x12, x13, x14, x15,
           x16, x17>>
vars == <<part, restartVars, slots>>

(* The slots that a part with n variables leaves idle.                     *)
Idle10 == x11 = 0 /\ x12 = 0 /\ x13 = 0 /\ x14 = 0 /\ x15 = 0 /\ x16 = 0
           /\ x17 = 0
Idle6 == x7 = 0 /\ x8 = 0 /\ x9 = 0 /\ x10 = 0 /\ Idle10
Idle0 == x1 = 0 /\ x2 = 0 /\ x3 = 0 /\ x4 = 0 /\ x5 = 0 /\ x6 = 0 /\ Idle6
Idle16 == x17 = 0
Still == opt = [fast |-> FALSE, alt |-> FALSE] /\ taken = {"v13", "v21"} /\ at70["v15"] = "none"
OwnKept == UNCHANGED <<part, restartVars>>
Kept10 == OwnKept /\ UNCHANGED <<x11, x12, x13, x14, x15, x16, x17>>
Kept6 == UNCHANGED <<x7, x8, x9, x10>> /\ Kept10
Kept16 == OwnKept /\ UNCHANGED x17
SlotsKept == UNCHANGED <<part, slots>>

Init ==
  /\ part \in Selected
  /\ RestartInit /\ (part # "restart" => Still)
  /\ \/ part = "cmd" /\ Cmd!Init /\ Idle6
     \/ part = "scan" /\ Scan!Init /\ Idle10
     \/ part = "boot" /\ Place!Init
     \/ part = "resident" /\ Res!Init /\ Idle16
     \/ part = "restart" /\ Idle0

Next ==
  \/ part = "cmd" /\ Cmd!Next /\ Kept6
  \/ part = "scan" /\ Scan!Next /\ Kept10
  \/ part = "boot" /\ Place!Next /\ OwnKept
  \/ part = "resident" /\ Res!Next /\ Kept16
  \/ part = "restart" /\ RestartNext /\ SlotsKept

(* The search for memory runs on, and so does the monitor that is asked to *)
(* restart the machine; handlers of others return.                         *)
Spec ==
  /\ Init /\ [][Next]_vars
  /\ WF_vars(part = "scan" /\ Scan!Next /\ Kept10)
  /\ WF_vars(part = "restart" /\ Monitor /\ SlotsKept)
-----------------------------------------------------------------------------
(* The types of the variables of the parts.                                *)
TypesOK ==
  /\ RestartTypeOK
  /\ part = "cmd" => Cmd!CmdTypeOK
  /\ part = "scan" => Scan!ScanTypeOK
  /\ part = "boot" => Place!BootTypeOK
  /\ part = "resident" => Res!ResTypeOK

(* FindCommand and the order of the table of commands: each word is taken  *)
(* for itself, whatever names lie inside others, and nothing is left.      *)
WordsTaken ==
  part = "cmd" =>
    Cmd!WordsAlone /\ Cmd!ValuesAlone /\ Cmd!NothingLeft /\ Cmd!RangesTaken

(* ScanSystemMemory: ROM and RAM of others are left alone, what the user   *)
(* excludes and includes is, a frame is found if there is room and shares  *)
(* no page with a UMB, no EMS page is there twice.  (That the memory asked *)
(* for UMBs is what they take does not hold: UmbsCounted of MemScan.)      *)
ScanRight ==
  part = "scan" =>
    /\ Scan!RangesHonoured /\ Scan!RomKept /\ Scan!RamKept
    /\ Scan!FrameFound /\ Scan!EmsPagesOnce

(* The search for memory ends; Ctrl-Alt-Del restarts the machine.          *)
ScanEnds == (part = "scan") ~> (part = "scan" /\ Scan!Done)
RunsOn == ScanEnds /\ Restarts

(* XMS and EMS set up by InitXms, AllocAndInitMem and InitMonitor: no page *)
(* of the monitor's block has two uses or lies outside, enough was taken,  *)
(* the DMA buffer is reachable, and all memory reported stays somewhere.   *)
LaidOut ==
  part = "boot" =>
    /\ Place!LaidOut /\ Place!EnoughTaken /\ Place!HeapFits
    /\ Place!DmaReachable /\ Place!NothingLost

(* The monitor is in the block that was allocated for it.                  *)
MonitorInOwnBlock == part = "boot" => Place!MonitorInOwnBlock

(* InitMonitor's end, endinit, TryUnload and UnloadJemm: conventional      *)
(* memory, XBDA, resident part and UMBs are apart and counted; after       *)
(* UNLOAD nothing leads into Jemm and nobody holds memory of it.           *)
ResidentWhole ==
  part = "resident" =>
    /\ Res!LaidApart /\ Res!MemoryCounted /\ Res!NobodyStranded
    /\ Res!BlockReturned /\ Res!IdleUnloads

(* Drivers that came after Jemm stay in the chain when it is unloaded.     *)
DriversKept == [][part = "resident" => Res!DriversKept]_vars
============================================================================
