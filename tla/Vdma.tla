-------------------------------- MODULE Vdma --------------------------------
(***************************************************************************)
(* DMA port trapping, src/src/VDMA.ASM.  Programs write linear addresses   *)
(* to the DMA controller; when a channel is unmasked the monitor replaces  *)
(* the address by the physical one, or by that of its DMA buffer, and the  *)
(* int 13h/40h hooks of src/src/JEMM16.ASM have data that was read into    *)
(* the buffer copied to where it belongs.                                  *)
(*                                                                         *)
(* A register of the controller is written in two bytes, of base D here,   *)
(* in turns that a flip-flop per controller tells; the monitor keeps a     *)
(* copy of the registers and of the flip-flops.                            *)
(***************************************************************************)
EXTENDS Naturals, FiniteSets

CONSTANTS
  D,            (* values of a byte                                        *)
  PageU,        (* units of a page                                         *)
  LowTop,       (* 3E0000h: linear is physical from here on                *)
  PhysPage,     (* page table 0: linear page -> physical page              *)
  IsaPages,     (* the physical pages below 16 MB                          *)
  BuffPhys,     (* DMABuffStartPhys                                        *)
  BuffSize,     (* DMABuffSize                                             *)
  PageRegs,     (* values that clients write to page registers             *)
  UseSets,      (* channels that may be in use together                    *)
  MaxOps,       (* bound: how often an int 13h call unmasks a channel      *)
  VerifyMasks   (* TRUE: no channel is left unmasked by a verify operation *)
                (* when an int 13h call begins                             *)

Frame64 == D * D                      \* 64 KB
Chan == UNION UseSets
Wide(c) == c >= 4                     \* the 16-bit channels
Controller(c) == IF Wide(c) THEN 2 ELSE 1
Width(c) == IF Wide(c) THEN 2 ELSE 1

VdmaAssumption ==
  /\ {D, PageU} \subseteq Nat \ {0} /\ Frame64 % PageU = 0 /\ LowTop % PageU = 0
  /\ \A c \in Chan : Frame64 * Width(c) <= BuffSize

VARIABLES
  chn,          (* DmaChn: the copy of the registers, bMode and bFlags     *)
  disable,      (* DmaChn.cDisable, which VDS counts; capped at 1          *)
  hilo,         (* DmaGblFlags: the copy of the flip-flops                 *)
  hw,           (* registers and mask of the controllers                   *)
  ff,           (* their flip-flops                                        *)
  rflag,        (* bRFlags: RFL_DMAOP, RFL_COPYBUFFER or none              *)
  target,       (* DmaTargetAdr and DmaTargetLen                           *)
  buf,          (* whose data the DMA buffer holds, and which way it goes  *)
  use,          (* the channels in use                                     *)
  moved,        (* per channel, what the monitor replaced and the client   *)
                (* has not written again: an address byte or the page      *)
  armed,        (* channels ready for a transfer: not written to since they *)
                (* were unmasked                                           *)
  depth,        (* int 13h and 40h calls under way                         *)
  ops,          (* unmaskings in the current call                          *)
  due           (* what an int 13h call read into the buffer and has not   *)
                (* copied yet                                              *)

regs == <<chn, hilo, hw, ff, rflag, target, buf, moved>>
vars == <<regs, disable, use, armed, depth, ops, due>>

None == [adr |-> 0, size |-> 0]
Nothing == [dir |-> "none", block |-> None]
-----------------------------------------------------------------------------
(* Page register and address, the latter in words for a 16-bit channel,    *)
(* make a linear address for the client, a physical one for the hardware.  *)
Address(r, c) == IF Wide(c) THEN 2 * ((r.page \div 2) * Frame64 + r.adr)
                 ELSE r.page * Frame64 + r.adr
Block(r, c) == [adr |-> Address(r, c), size |-> (r.len + 1) * Width(c)]

Pages(b) == (b.adr \div PageU) .. ((b.adr + b.size - 1) \div PageU)

(* Dma_IsContiguous.                                                       *)
Contiguous(b, c) ==
  \/ b.adr >= LowTop
  \/ LET p == b.adr \div PageU
         border == (Frame64 * Width(c)) \div PageU
     IN  /\ PhysPage[p] < IsaPages
         /\ \A q \in Pages(b) : /\ PhysPage[q] = PhysPage[p] + (q - p)
                                /\ PhysPage[q] \div border = PhysPage[p] \div border

PhysAddr(a) ==
  IF a >= LowTop THEN a ELSE PhysPage[a \div PageU] * PageU + (a % PageU)
-----------------------------------------------------------------------------
(* The state of regs as a record, which the OUT handlers pass on.          *)
State == [chn |-> chn, hilo |-> hilo, hw |-> hw, ff |-> ff,
          rflag |-> rflag, target |-> target, buf |-> buf, moved |-> moved]
(* What nobody looks at any more is forgotten: the target of a copy that   *)
(* is not pending, the contents of the buffer when no transfer is ready.   *)
Holds(b) == buf' = IF armed' = {} /\ due' = None THEN Nothing ELSE b
Become(s) ==
  /\ chn' = s.chn /\ hilo' = s.hilo /\ hw' = s.hw /\ ff' = s.ff /\ moved' = s.moved
  /\ rflag' = s.rflag /\ target' = IF s.rflag = "COPYBUFFER" THEN s.target ELSE None
  /\ Holds(s.buf)

(* The controller's address is replaced; both bytes are written, so the    *)
(* flip-flop ends as it began, cleared.                                    *)
SetX(s, c, phys) ==
  [s EXCEPT !.hw[c].adr = (phys \div Width(c)) % Frame64,
            !.hw[c].page = phys \div Frame64,
            !.hilo[Controller(c)] = 0, !.ff[Controller(c)] = 0,
            !.moved[c] = {"low", "high", "page"}]

Translates(c, k) == disable[c] = 0 /\ k.op # "verify"

(* Dma_CheckChannel.  What a device is to send is copied to the buffer at  *)
(* once; what it reads is copied later, if an int 13h call is waiting.     *)
CheckChannel(s, c) ==
  LET k  == s.chn[c]
      b  == Block(k, c)
      s1 == [s EXCEPT !.chn[c].on = FALSE]
      s2 == SetX(s1, c, BuffPhys)
  IN  CASE ~ Translates(c, k) -> s
        [] Translates(c, k) /\ Contiguous(b, c) ->
             IF PhysAddr(b.adr) = b.adr THEN s1 ELSE SetX(s1, c, PhysAddr(b.adr))
        [] OTHER ->
             IF k.op = "out" THEN [s2 EXCEPT !.buf = [dir |-> "out", block |-> b]]
             ELSE IF s.rflag = "DMAOP" THEN [s2 EXCEPT !.rflag = "COPYBUFFER", !.target = b]
             ELSE s2

(* Dma_IsChannelUnmasked.                                                  *)
IfEnabled(s, c) == IF s.chn[c].on THEN CheckChannel(s, c) ELSE s

(* A byte goes to the low or the high half.                                *)
Byte(old, high, v) == IF high = 1 THEN v * D + (old % D) ELSE (old \div D) * D + v
Half(n) == IF ff[n] = 1 THEN "high" ELSE "low"
-----------------------------------------------------------------------------
Written(c) == /\ armed' = armed \ {c}
              /\ UNCHANGED <<disable, use, depth, ops, due>>

(* Dma_SetAddr and Dma_SetLength.  Only the high byte makes the monitor    *)
(* look at the channel.                                                    *)
SetAddr(c, v) ==
  LET n == Controller(c)
      s == [State EXCEPT !.hw[c].adr = Byte(@, ff[n], v), !.ff[n] = 1 - @,
                         !.chn[c].adr = Byte(@, hilo[n], v), !.hilo[n] = 1 - @,
                         !.moved[c] = @ \ {Half(n)}]
  IN  /\ Written(c)
      /\ Become(IF hilo[n] = 1 THEN IfEnabled(s, c) ELSE s)

SetLength(c, v) ==
  LET n == Controller(c)
      s == [State EXCEPT !.hw[c].len = Byte(@, ff[n], v), !.ff[n] = 1 - @,
                         !.chn[c].len = Byte(@, hilo[n], v), !.hilo[n] = 1 - @]
  IN  /\ Written(c)
      /\ Become(IF hilo[n] = 1 THEN IfEnabled(s, c) ELSE s)

HandlePagePorts(c, v) ==
  /\ Written(c)
  /\ Become(IfEnabled([State EXCEPT !.hw[c].page = v, !.chn[c].page = v,
                                    !.moved[c] = @ \ {"page"}], c))

SetMode(c, op) ==
  /\ Written(c)
  /\ Become(IfEnabled([State EXCEPT !.chn[c].op = op], c))

ClearFlipFlop(n) ==
  /\ UNCHANGED <<disable, use, armed, depth, ops, due>>
  /\ Become([State EXCEPT !.hilo[n] = 0, !.ff[n] = 0])

Masked(s, c) == [s EXCEPT !.chn[c].on = FALSE, !.hw[c].masked = TRUE]
Unmasked(s, c) ==
  [CheckChannel([s EXCEPT !.chn[c].on = TRUE], c) EXCEPT !.hw[c].masked = FALSE]

(* Unmasking a channel, except as part of an int 13h call that has done so *)
(* MaxOps times.  It is ready for a transfer if its address and page were  *)
(* written after the monitor replaced them.                                *)
MayArm == depth = 0 \/ ops < MaxOps
Arm(S) == /\ armed' = (armed \ S) \cup {c \in S : moved[c] = {}}
          /\ ops' = IF depth > 0 THEN ops + 1 ELSE 0
          /\ UNCHANGED <<disable, use, depth, due>>

(* Dma_SetSMask.                                                           *)
SetSMask(c, mask) ==
  IF mask THEN Written(c) /\ Become(Masked(State, c))
  ELSE MayArm /\ Arm({c}) /\ Become(Unmasked(State, c))

(* Dma_SetMMask: the channels of a controller in turn, those in S get      *)
(* masked.  Ports 0Dh and 0Eh mask and unmask all; that 0Dh also clears    *)
(* the flip-flop, of which the copy then knows nothing, is left out.       *)
SetMMask(n, S) ==
  LET mine == {c \in use : Controller(c) = n}
      after[i \in 0 .. 8] ==
        IF i = 0 THEN State
        ELSE IF i - 1 \notin mine THEN after[i - 1]
        ELSE IF i - 1 \in S THEN Masked(after[i - 1], i - 1) ELSE Unmasked(after[i - 1], i - 1)
  IN  IF mine \subseteq S
      THEN /\ armed' = armed \ mine
           /\ UNCHANGED <<disable, use, depth, ops, due>>
           /\ Become(after[8])
      ELSE MayArm /\ Arm(mine \ S) /\ Become(after[8])

(* Functions 810Bh and 810Ch of VDS.                                       *)
vds_disabletrans(c) ==
  /\ disable[c] = 0
  /\ disable' = [disable EXCEPT ![c] = 1] /\ armed' = armed \ {c}
  /\ UNCHANGED <<use, depth, ops, due>> /\ Become(State)

vds_enabletrans(c) ==
  /\ disable[c] = 1
  /\ disable' = [disable EXCEPT ![c] = 0] /\ armed' = armed \ {c}
  /\ UNCHANGED <<use, depth, ops, due>> /\ Become(State)
-----------------------------------------------------------------------------
Entered_KeepFlag == rflag   \* mutant: the hook does not tell that an operation starts
Entered == "DMAOP"

(* NEW13 and NEW40.  The BIOS handler of int 13h calls int 40h for a       *)
(* diskette before it does anything else.                                  *)
NEW1340 ==
  /\ depth < 2 /\ ops = 0
  /\ VerifyMasks => \A c \in use : ~chn[c].on
  /\ depth' = depth + 1
  /\ UNCHANGED <<disable, use, armed, ops, due>>
  /\ Become([State EXCEPT !.rflag = Entered])

Copies(ok) == ok /\ rflag = "COPYBUFFER"

(* int1340common, and Dma_CopyBuffer if the call succeeded.  The BIOS has  *)
(* waited for the transfer it started; a caller whose call failed does not *)
(* look at the data.                                                       *)
Return1340(ok) ==
  /\ depth > 0
  /\ depth' = depth - 1
  /\ due' = IF ~ok \/ (Copies(ok) /\ buf = [dir |-> "in", block |-> target]) THEN None ELSE due
  /\ ops' = IF depth = 1 THEN 0 ELSE ops
  /\ armed' = IF ops > 0 THEN {} ELSE armed
  /\ UNCHANGED <<disable, use>>
  /\ Become([State EXCEPT !.rflag = IF Copies(ok) THEN "none" ELSE @])

(* The device transfers a block over a channel that was unmasked after its *)
(* registers were set; for an int 13h call if that was part of the call.   *)
ThroughBuffer(c) == Address(hw[c], c) = BuffPhys
Transfer(c) ==
  /\ c \in armed /\ chn[c].op # "verify"
  /\ armed' = armed \ {c}
  /\ LET in == chn[c].op = "in" /\ ThroughBuffer(c)
     IN  /\ due' = IF in /\ ops > 0 THEN Block(chn[c], c) ELSE due
         /\ Holds(IF in THEN [dir |-> "in", block |-> Block(chn[c], c)] ELSE buf)
  /\ UNCHANGED <<chn, disable, hilo, hw, ff, rflag, target, moved, use, depth, ops>>
-----------------------------------------------------------------------------
(* The channels are masked and their page registers hold some value.       *)
AnyPage == CHOOSE v \in PageRegs : TRUE

Init ==
  /\ chn = [c \in Chan |-> [adr |-> 0, len |-> 0, page |-> AnyPage, op |-> "verify", on |-> FALSE]]
  /\ hw = [c \in Chan |-> [adr |-> 0, len |-> 0, page |-> AnyPage, masked |-> TRUE]]
  /\ disable = [c \in Chan |-> 0]
  /\ hilo = [n \in 1 .. 2 |-> 0] /\ ff = [n \in 1 .. 2 |-> 0]
  /\ rflag = "none" /\ target = None /\ buf = Nothing
  /\ moved = [c \in Chan |-> {}]
  /\ use \in UseSets /\ armed = {}
  /\ depth = 0 /\ ops = 0 /\ due = None

Next ==
  \/ \E c \in use, v \in 0 .. D - 1 : SetAddr(c, v) \/ SetLength(c, v)
  \/ \E c \in use, v \in PageRegs : HandlePagePorts(c, v)
  \/ \E c \in use, op \in {"verify", "in", "out"} : SetMode(c, op)
  \/ \E c \in use : ClearFlipFlop(Controller(c))
  \/ \E c \in use, mask \in BOOLEAN : SetSMask(c, mask)
  \/ \E c \in use, S \in SUBSET use : SetMMask(Controller(c), S)
  \/ \E c \in use : vds_disabletrans(c) \/ vds_enabletrans(c)
  \/ NEW1340 \/ \E ok \in BOOLEAN : Return1340(ok)
  \/ \E c \in use : Transfer(c)

Spec == Init /\ [][Next]_vars
-----------------------------------------------------------------------------
(* Registers and flip-flops are in range.                                  *)
VdmaTypeOK ==
  /\ \A c \in Chan : /\ chn[c].adr \in 0 .. Frame64 - 1 /\ chn[c].len \in 0 .. Frame64 - 1
                     /\ hw[c].adr \in 0 .. Frame64 - 1 /\ hw[c].len \in 0 .. Frame64 - 1
                     /\ chn[c].op \in {"verify", "in", "out"}
  /\ hilo \in [1 .. 2 -> 0 .. 1] /\ ff \in [1 .. 2 -> 0 .. 1]
  /\ rflag \in {"none", "DMAOP", "COPYBUFFER"}
  /\ armed \subseteq use /\ depth \in 0 .. 2 /\ ops \in 0 .. MaxOps

(* The copies agree with the controllers: the flip-flops after every       *)
(* sequence of writes, the monitor's own included, so that no byte of an   *)
(* address ends up in the wrong half; and no channel is taken for unmasked *)
(* that is masked.                                                         *)
InStep ==
  /\ hilo = ff
  /\ \A c \in Chan : hw[c].len = chn[c].len /\ (chn[c].on => ~hw[c].masked)

(* A transfer that starts now uses memory a controller can reach in one    *)
(* piece: the client's own, at its physical address, or the buffer, which  *)
(* is large enough and holds what the device is to get.  In whatever order *)
(* the registers were written, as long as unmasking came last.             *)
TransferRight ==
  \A c \in armed : LET b == Block(chn[c], c) IN
    chn[c].op # "verify" /\ disable[c] = 0 =>
      IF Contiguous(b, c)
      THEN /\ Address(hw[c], c) = PhysAddr(b.adr)
           /\ b.adr < LowTop =>
                \A i \in 0 .. b.size - 1 :
                  /\ PhysAddr(b.adr + i) = PhysAddr(b.adr) + i
                  /\ PhysAddr(b.adr + i) \div (Frame64 * Width(c))
                       = PhysAddr(b.adr) \div (Frame64 * Width(c))
      ELSE /\ ThroughBuffer(c) /\ b.size <= BuffSize
           /\ chn[c].op = "out" => buf = [dir |-> "out", block |-> b]

(* When an int 13h call has succeeded, what the device sent is in the      *)
(* memory the BIOS meant, and not only in the buffer: also when int 13h    *)
(* calls int 40h, after calls that failed, and after operations of other   *)
(* programs in between (RFL_DMAOP, RFL_COPYBUFFER).                        *)
ReadDelivered == depth = 0 => due = None
=============================================================================
