------------------------------- MODULE MemScan ------------------------------
(***************************************************************************)
(* The map of upper memory that decides what becomes a UMB or the page     *)
(* frame (SetMemoryType, TestForSystemRAM, HandleITest, ScanSystemMemory,  *)
(* LocatePageFrame, IsUMBMemory, UMBpageswanted, I15CheckRsvdRegion and    *)
(* the ranges of mainex in src/src/INIT16.ASM).  Pages are scaled: one has *)
(* PageBlocks blocks of 512 bytes and two steps of the search for ROMs.    *)
(***************************************************************************)
EXTENDS Integers, FiniteSetsExt, SequencesExt

CONSTANTS
  A0, C0, F0, F8, Top,   (* the pages of these addresses, and one behind FF *)
  HardMin,               (* 80h, the lowest page of a frame that is wanted *)
  FrameLen, EmsPage,     (* pages of a frame, of an EMS page               *)
  PageBlocks,            (* 8                                              *)
  MaxPhysPg,             (* ?MAXPHYSPG, the most physical EMS pages        *)
  Machines,              (* what is found in upper memory                  *)
  Users                  (* what the command line asks for                 *)

Pages == 0 .. Top - 1
Blocks == 0 .. Top * PageBlocks - 1
Step == PageBlocks \div 2
PageOf(b) == b \div PageBlocks

(* roms: their first block and length; ram: pages that can be written;     *)
(* flat: pages of equal bytes; dirty: pages with bytes that are not 0 or   *)
(* FF; umbpci: pages that UMBPCI activated; reserved: by int 15h, E820.    *)
VARIABLES machine, user,
  SystemMemory,  (* the map                                                *)
  phase,         (* what mainex does next                                  *)
  mem,           (* the block where the search for ROMs is                 *)
  si,            (* the page where the search for RAM is                   *)
  Frame,         (* the page frame's first page, 0: none                   *)
  NoFrame,
  cl,            (* the page where the search for EMS pages is             *)
  EMSPage2Segm   (* first pages of the physical EMS pages                  *)

ems == <<cl, EMSPage2Segm>>
vars == <<machine, user, SystemMemory, phase, mem, si, Frame, NoFrame, ems>>
rest == <<machine, user, mem, si, Frame, NoFrame, ems>>

Init ==
  /\ machine \in Machines /\ user \in Users
  /\ SystemMemory = [p \in Pages |-> CASE p < A0 -> "R" [] p >= A0 /\ p < C0 -> "G"
                                       [] p >= C0 /\ p < F0 -> "U" [] OTHER -> "E"]
  /\ phase = "reserved" /\ mem = C0 * PageBlocks /\ si = C0
  /\ Frame = 0 /\ NoFrame = user.noframe
  /\ cl = 0 /\ EMSPage2Segm = <<>>
-----------------------------------------------------------------------------
SetMemoryType(map, ps, t) ==
  [p \in Pages |-> IF p \in ps /\ (map[p] # "I" \/ t = "X") THEN t ELSE map[p]]

Go(next) == phase' = next

(* I15CheckRsvdRegion, then VMware's own pages.                            *)
Reserve ==
  /\ phase = "reserved"
  /\ SystemMemory' = LET m == SetMemoryType(SystemMemory, machine.reserved, "E")
                     IN  [p \in Pages |-> IF p \in machine.vmware THEN "V" ELSE m[p]]
  /\ Go("ranges") /\ UNCHANGED rest

(* I=, then S=, then X=, each from A000 on.                                *)
Ranges ==
  /\ phase = "ranges"
  /\ SystemMemory' = FoldLeft(LAMBDA m, r : IF r.from < A0 \/ r.from >= r.to THEN m
                                             ELSE SetMemoryType(m, r.from .. r.to - 1, r.type),
                              SystemMemory, user.ranges)
  /\ Go("roms") /\ UNCHANGED rest
-----------------------------------------------------------------------------
RomAt(b) == {r \in machine.roms : r.at = b}
RoundUp(b) == ((b + Step - 1) \div Step) * Step

(* The pages of a ROM: the one it starts in, and each it reaches.          *)
RomPages(r) == {PageOf(b) : b \in {c \in r.at .. r.at + r.len - 1 : c = r.at \/ c % PageBlocks = 0}}
MarkRom(map, r) == SetMemoryType(map, {p \in RomPages(r) : map[p] # "X"}, "E")

(* The tail of a ROM in its last page, for SPLIT.                          *)
MarkTail(map, r) ==
  LET end == r.at + r.len
      used == end % PageBlocks
      p == PageOf(end)
  IN  IF user.split /\ used # 0 /\ p \in Pages /\ map[p] = "E"
      THEN SetMemoryType(map, {p}, ToString(used)) ELSE map

NextMem_Down(r) == ((r.at + r.len) \div Step) * Step   \* mutant: rounded down

NextMem(r) == RoundUp(r.at + r.len) % (Top * PageBlocks)   \* 16 bits

RomScan ==
  /\ phase = "roms"
  /\ IF RomAt(mem) # {}
     THEN LET r == CHOOSE q \in RomAt(mem) : TRUE
          IN  /\ SystemMemory' = MarkTail(MarkRom(SystemMemory, r), r)
              /\ mem' = NextMem(r)
     ELSE mem' = mem + Step /\ UNCHANGED SystemMemory
  /\ Go(IF mem' >= F0 * PageBlocks THEN "ram" ELSE "roms")
  /\ UNCHANGED <<machine, user, si, Frame, NoFrame, ems>>
-----------------------------------------------------------------------------
(* TestForSystemRAM from page si on: the first region of RAM among the     *)
(* pages that are looked at; 'I' is tested too, but not changed.           *)
Tested_NotE(map) == {p \in si .. Top - 1 : map[p] \in {"U", "I"}}   \* mutant: before v5.80

Tested(map) == {p \in si .. Top - 1 : map[p] \in {"E", "U", "I"}}
IsRam(p) == p \in machine.ram \union machine.umbpci
Signature == {p \in machine.umbpci : \A q \in machine.umbpci : p <= q}

RamScan ==
  /\ phase = "ram"
  /\ LET tested == Tested(SystemMemory)
         first == IF \E p \in tested : IsRam(p)
                  THEN {CHOOSE p \in tested : IsRam(p) /\ \A q \in tested : IsRam(q) => p <= q} ELSE {}
         region == {p \in tested : first # {} /\ p >= Max(first)
                                   /\ \A q \in tested : q >= Max(first) /\ q <= p => IsRam(q)}
         pci == {p \in region : p \in Signature}
     IN  CASE first = {} ->
                UNCHANGED <<SystemMemory, si>> /\ Go("xtest")
           [] first # {} /\ pci # {} ->
                /\ SystemMemory' = [p \in Pages |-> IF p \in machine.umbpci THEN "S"
                                      ELSE IF p \in region /\ p < Max(pci) /\ SystemMemory[p] # "I"
                                      THEN "R" ELSE SystemMemory[p]]
                /\ si' = Max(machine.umbpci) + 1 /\ Go("ram")
           [] OTHER ->
                /\ SystemMemory' = [p \in Pages |-> IF p \in region /\ SystemMemory[p] # "I"
                                      THEN "R" ELSE SystemMemory[p]]
                /\ si' = Max(first) + Cardinality(region)
                /\ Go(IF si' >= Top THEN "xtest" ELSE "ram")
  /\ UNCHANGED <<machine, user, mem, Frame, NoFrame, ems>>

(* X=TEST and I=TEST.                                                      *)
ExcludeTest ==
  /\ phase = "xtest"
  /\ SystemMemory' = [p \in Pages |->
       IF user.xtest /\ p \in (A0 .. F0 - 1) \intersect machine.dirty /\ SystemMemory[p] = "U"
       THEN "X" ELSE SystemMemory[p]]
  /\ Go("itest") /\ UNCHANGED rest

IncludeTest ==
  /\ phase = "itest"
  /\ SystemMemory' = [p \in Pages |->
       IF user.itest /\ p \in (C0 .. F8 - 1) \intersect machine.flat /\ SystemMemory[p] = "E"
       THEN "U" ELSE SystemMemory[p]]
  /\ Go("frame") /\ UNCHANGED rest
-----------------------------------------------------------------------------
FramePages(f) == f .. f + FrameLen - 1
Usable(p) == SystemMemory[p] \in {"U", "I"}
Accepted(f) ==
  \A p \in FramePages(f) : \/ Usable(p)
                           \/ user.wanted # 0 /\ f >= HardMin /\ SystemMemory[p] \in {"R", "G"}
Wanted == IF user.wanted # 0 THEN user.wanted ELSE F0 - FrameLen
FromHighToLow == {f \in A0 .. F8 - FrameLen : f % EmsPage = 0}
Candidates == {f \in FromHighToLow : \A p \in FramePages(f) : Usable(p)}

EmsStart(map) == IF \A q \in A0 .. A0 + EmsPage - 1 : map[q] = "I" THEN C0 ELSE A0

LocatePageFrame ==
  /\ phase = "frame"
  /\ IF NoFrame \/ user.noems THEN NoFrame' = TRUE /\ UNCHANGED <<SystemMemory, Frame>>
     ELSE IF ~ Accepted(Wanted) /\ Candidates = {}
     THEN NoFrame' = TRUE /\ UNCHANGED <<SystemMemory, Frame>>
     ELSE /\ Frame' = IF Accepted(Wanted) THEN Wanted ELSE Max(Candidates)
          /\ SystemMemory' = [p \in Pages |-> IF p \in FramePages(Frame') THEN "P" ELSE SystemMemory[p]]
          /\ UNCHANGED NoFrame
  /\ cl' = EmsStart(SystemMemory')
  /\ EMSPage2Segm' = IF NoFrame' THEN <<>>
                     ELSE [i \in 1 .. FrameLen \div EmsPage |-> Frame' + (i - 1) * EmsPage]
  /\ Go("ems") /\ UNCHANGED <<machine, user, mem, si>>

(* EMS_Init1: the pages that are RAM, or included, as a whole, upwards     *)
(* from C000 or A000, then from the border to where the search started.    *)
Whole(p) == \E t \in {"R", "I"} : \A q \in p .. p + EmsPage - 1 : SystemMemory[q] = t
AfterTop == IF user.border = 0 THEN HardMin ELSE user.border
EmsPages ==
  /\ phase = "ems"
  /\ EMSPage2Segm' = IF Whole(cl) /\ Len(EMSPage2Segm) < MaxPhysPg
                     THEN Append(EMSPage2Segm, cl) ELSE EMSPage2Segm
  /\ cl' = IF cl + EmsPage = Top THEN AfterTop ELSE (cl + EmsPage) % Top
  /\ Go(IF cl' = EmsStart(SystemMemory) THEN "done" ELSE "ems")
  /\ UNCHANGED <<machine, user, SystemMemory, mem, si, Frame, NoFrame>>

Next == Reserve \/ Ranges \/ RomScan \/ RamScan \/ ExcludeTest \/ IncludeTest \/ LocatePageFrame
        \/ EmsPages
Spec == Init /\ [][Next]_vars /\ WF_vars(Next)
-----------------------------------------------------------------------------
Splits == {ToString(n) : n \in 1 .. PageBlocks - 1}

(* Pages for UMBs, in real mode, and as InitMonitor takes them.            *)
IsUMBMemory(p) ==
  /\ ~ user.noram
  /\ \/ SystemMemory[p] \in {"U", "I"} \union Splits
     \/ SystemMemory[p] = "P" /\ (user.noems \/ NoFrame)
UMBpageswanted == Cardinality({p \in A0 .. F8 - 1 : IsUMBMemory(p)})
UMBpagesmapped == Cardinality({p \in A0 .. Top - 1 : IsUMBMemory(p)})
-----------------------------------------------------------------------------
Done == phase = "done"
Asked(t) == UNION {r.from .. r.to - 1 : r \in {q \in ToSet(user.ranges) : q.type = t /\ q.from >= A0}}
Given == {p \in Pages : IsUMBMemory(p)} \union (IF Frame = 0 THEN {} ELSE FramePages(Frame))

ScanTypeOK ==
  /\ SystemMemory \in [Pages -> {"R", "G", "U", "E", "X", "I", "S", "V", "P"} \union Splits]
  /\ Frame \in {0} \union HardMin .. Top - FrameLen /\ cl \in Pages /\ mem \in Blocks \union {Top * PageBlocks}

(* What was excluded is used for nothing, what was included and not        *)
(* excluded is used, unless UMBPCI has it.                                 *)
RangesHonoured ==
  Done => /\ Asked("X") \intersect Given = {}
          /\ ~ user.noram => Asked("I") \ (Asked("X") \union machine.umbpci) \subseteq Given

(* A block of a ROM is not covered by a UMB or the frame, unless the page  *)
(* was included by hand, is one that I=TEST takes, or is RAM where the     *)
(* user wants the frame; a page with the tail of a ROM is split behind it. *)
RomKept ==
  Done => \A r \in machine.roms : \A b \in r.at .. r.at + r.len - 1 :
            LET p == PageOf(b)
            IN  p \in Given \ Asked("I") =>
                  \/ user.itest /\ p \in machine.flat
                  \/ Frame = user.wanted /\ p \in machine.ram \intersect FramePages(Frame)
                  \/ \E n \in (b % PageBlocks) + 1 .. PageBlocks - 1 : SystemMemory[p] = ToString(n)

(* RAM that somebody else uses does not become a UMB, nor part of a frame  *)
(* that was not asked for; the page with the tail of a ROM is not tested.  *)
RamKept == Done => \A p \in (machine.ram \union machine.umbpci) \ Asked("I") :
             p \in Given /\ SystemMemory[p] \notin Splits => user.wanted # 0 /\ Frame = user.wanted /\ p \in FramePages(Frame)

(* A page frame is found whenever there is room for one at an EMS page,    *)
(* and frame and UMBs have no page in common.                              *)
Room == \E f \in A0 .. F8 - FrameLen :
          f % EmsPage = 0 /\ \A p \in FramePages(f) : SystemMemory[p] \in {"U", "I"}
FrameFound ==
  Done /\ ~ user.noframe /\ ~ user.noems =>
    /\ Frame = 0 => ~ Room
    /\ Frame # 0 => \A p \in FramePages(Frame) : ~ IsUMBMemory(p)

(* The memory asked for UMBs is what mapping them takes.  It does not      *)
(* hold: pages are counted up to F7 (INIT16.ASM:993-995) and mapped up to  *)
(* FF (INIT.ASM:1171-1196), and I= takes addresses from F800 on too.       *)
UmbsCounted == Done => UMBpageswanted = UMBpagesmapped

(* No memory is a physical EMS page twice, and nothing below the border is *)
(* one; where A000 was included, the pages up to BFFF have the last        *)
(* numbers.                                                                *)
EmsPagesOnce ==
  Done => /\ \A i, k \in DOMAIN EMSPage2Segm :
               i # k => EMSPage2Segm[i] \notin EMSPage2Segm[k] .. EMSPage2Segm[k] + EmsPage - 1
          /\ \A i \in DOMAIN EMSPage2Segm : EMSPage2Segm[i] >= AfterTop
          /\ EmsStart(SystemMemory) = C0 =>
               \A i, k \in DOMAIN EMSPage2Segm : i < k /\ EMSPage2Segm[i] \in A0 .. C0 - 1
                 => EMSPage2Segm[k] < C0

(* The search ends.                                                        *)
ScanEnds == <>Done
=============================================================================
