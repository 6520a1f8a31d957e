----------------------------- MODULE MCServices -----------------------------
(***************************************************************************)
(* The services that clients in V86 mode call, each on a small machine: a  *)
(* behaviour belongs to one part; the cfg says which parts.  The VCPI      *)
(* server and the device have variables of their own, which stay as they   *)
(* were at the start in a behaviour of another part; the variables of the  *)
(* other parts are the first of the slots x1 to x14.                       *)
(***************************************************************************)
EXTENDS Vcpi, Device

CONSTANTS
  Selected,        \* of "vcpi", "vds", "device", "vdma"
  MaxHeld,      \* bound: DMA buffers held at the same time
  VerifyMasks   \* no channel is left unmasked by a verify operation

VARIABLES part, x1, x2, x3, x4, x5, x6, x7, x8, x9, x10, x11, x12, x13, x14

(* Half-KB units, pages of 2 KB, "64 KB" frames of two pages and a buffer  *)
(* of 5 KB.  Linear page 2 starts a contiguous run across two borders, or  *)
(* pages 2 and 3 lie apart; the region at 17 reaches across "1 MB".        *)
RunPages == [p \in 0 .. 6 |-> CASE p = 2 -> 5 [] p = 3 -> 6 [] p = 4 -> 7 [] p = 5 -> 8 [] OTHER -> p]
FramePages == [p \in 0 .. 6 |-> CASE p = 2 -> 9 [] p = 3 -> 8 [] OTHER -> p]
DmaRegions == {r \in [start : {0, 3, 5, 9, 13, 30}, size : {0, 1, 4, 6, 10, 11}] :
                 r.start >= 28 \/ r.start + r.size <= 28} \union {[start |-> 17, size |-> 11]}
Lock == INSTANCE Vds WITH
  bits <- x1, held <- x2, disable <- x3, PhysPage <- x4, ret <- x5,
  U <- 2, PageU <- 4, Frame64 <- 8, BuffMax <- 8, BuffK <- 5, Behind <- 16, LowTop <- 28,
  Tables <- {RunPages, FramePages}, PagesToMB <- 6, Avail <- {0, 1, 2, 3},
  DWord <- 1024, Regions <- DmaRegions, Offsets <- {0, 1},
  FlagSets <- {{}, {"COPY"}, {"A64"}, {"NOBUFFER"}, {"NOBUFFER", "A64"}, {"NOBUFFER", "A128"}},
  MaxHeld <- MaxHeld, Channels <- {2}, MaxDisable <- 2

(* The CPUs, and counts below, at and above each answer's length.          *)
Cpus == SUBSET {"vme", "pge"}

(* Bytes of two values, 64 KB of four units and two pages; linear pages 2  *)
(* and 3 lie across a border, 4 and 5 are moved in one piece, 6 and 7 are  *)
(* apart.                                                                  *)
LowPages == [p \in 0 .. 7 |-> CASE p = 2 -> 9 [] p = 3 -> 10 [] p = 4 -> 12 [] p = 5 -> 13
                               [] p = 6 -> 2 [] p = 7 -> 14 [] OTHER -> p]
Ports == INSTANCE Vdma WITH
  chn <- x1, disable <- x2, hilo <- x3, hw <- x4, ff <- x5, rflag <- x6,
  target <- x7, buf <- x8, use <- x9, moved <- x10, armed <- x11,
  depth <- x12, ops <- x13, due <- x14,
  D <- 2, PageU <- 2, LowTop <- 16, PhysPage <- LowPages, IsaPages <- 14,
  BuffPhys <- 40, BuffSize <- 8, PageRegs <- {1, 2}, UseSets <- {{2}, {5}},
  MaxOps <- 1, VerifyMasks <- VerifyMasks

ASSUME ServicesAssumptions ==
  Lock!VdsAssumption /\ Ports!VdmaAssumption

slots == <<x1, x2, x3, x4, x5, x6, x7, x8, x9, x10, x11, x12, x13, x14>>
vars == <<part, vcpiVars, devVars, slots>>

(* The slots that a part with n variables leaves idle.                     *)
Idle5 == x6 = 0 /\ x7 = 0 /\ x8 = 0 /\ x9 = 0 /\ x10 = 0 /\ x11 = 0
           /\ x12 = 0 /\ x13 = 0 /\ x14 = 0
Idle0 == x1 = 0 /\ x2 = 0 /\ x3 = 0 /\ x4 = 0 /\ x5 = 0 /\ Idle5
DevStill == cpu = {} /\ name = "none" /\ bNoVCPI = 0 /\ bNoA20 = 0
Kept5 == UNCHANGED <<x6, x7, x8, x9, x10, x11, x12, x13, x14>>
OwnKept == UNCHANGED <<part, vcpiVars, devVars>>
SlotsKept == UNCHANGED <<part, slots>>

Init ==
  /\ part \in Selected
  /\ VcpiInit /\ (part # "vcpi" => frame = CHOOSE f \in Frames : TRUE)
  /\ DevInit /\ (part # "device" => DevStill)
  /\ \/ part = "vcpi" /\ Idle0
     \/ part = "vds" /\ Lock!Init /\ Idle5
     \/ part = "device" /\ Idle0
     \/ part = "vdma" /\ Ports!Init

Next ==
  \/ part = "vcpi" /\ VcpiNext /\ UNCHANGED devVars /\ SlotsKept
  \/ part = "vds" /\ Lock!Next /\ Kept5 /\ OwnKept
  \/ part = "device" /\ DevNext /\ UNCHANGED vcpiVars /\ SlotsKept
  \/ part = "vdma" /\ Ports!Next /\ OwnKept

Spec == Init /\ [][Next]_vars
-----------------------------------------------------------------------------
(* The types of the variables of the parts.                                *)
TypesOK ==
  /\ VcpiTypeOK /\ DevTypeOK
  /\ part = "vds" => Lock!VdsTypeOK
  /\ part = "vdma" => Ports!VdmaTypeOK

(* vds_lock, vds_reqbuff, vds_relbuff, vds_copyinto, vds_scatterlock: no   *)
(* KB of the buffer is lost or given out twice, what is locked in place is *)
(* fit for DMA, a size that is offered is accepted, and a scattered        *)
(* region is described piece by piece.                                     *)
RegionsHonest ==
  part = "vds" =>
    /\ Lock!BuffersTracked /\ Lock!LockedIsFit /\ Lock!RefusedSizeFits
    /\ Lock!CopyInside /\ Lock!ScatterHonest

(* The comment of vds_relbuff: "the bit at position -1 must be 1 and bit 0 *)
(* must be 0; the region ends with a 1 bit": a client can give its buffer  *)
(* back and frees nothing else.                                            *)
OwnBufferReleasable == part = "vds" => Lock!OwnBufferReleasable

(* The cases in the comment on vds_lock: with buffering allowed, a region  *)
(* that is not fit is refused only if the buffer is too small or in use.   *)
LockBuffered == part = "vds" => Lock!LockBuffered

(* The port traps of VDMA.ASM: the copies agree with the controllers,      *)
(* every transfer uses memory that is right and reachable, and where a     *)
(* verify masks its channel again, what was read arrives.                  *)
TransferRight ==
  part = "vdma" => Ports!InStep /\ Ports!TransferRight /\ (VerifyMasks => Ports!ReadDelivered)

(* The comment of Dma_CopyBuffer, "the original int 13 / 40 is done, and   *)
(* then, if the DMA buffer was used, things are copied out of this buffer  *)
(* to the target linear address": what was read arrives.                   *)
ReadDelivered == part = "vdma" => Ports!ReadDelivered
=============================================================================
