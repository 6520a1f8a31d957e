------------------------------ MODULE Monitor -------------------------------
(***************************************************************************)
(* The V86 monitor (src/src/JEMM32.ASM): reflection of interrupts, the     *)
(* exceptions, nested execution of V86 code by ring-0 code, interrupts and *)
(* NMIs while ring 0 runs, the write to the read-only page FF000, and the  *)
(* abort of a program after an exception.                                  *)
(*                                                                         *)
(* Ring 0 is a machine of small operations: todo is what the running code  *)
(* has still to do, r0 its stack, where a frame keeps the rest of what was *)
(* interrupted (the registers that pushad saves included).  V86 code does  *)
(* what it likes; only its instruction pointer, flags and stack are kept.  *)
(***************************************************************************)
EXTENDS Naturals, SequencesExt

CONSTANTS
  Cells,        (* interrupt and return frames that fit the V86 stack      *)
  Events,       (* bound: interrupts, services, faults and writes          *)
  V86Exc0D,     (* the V86EXC0D option                                     *)
  Hooked6       (* a program has taken V86 interrupt 6                     *)

ASSUME MonAssumption ==
  Cells \in Nat /\ Events \in Nat /\ V86Exc0D \in BOOLEAN /\ Hooked6 \in BOOLEAN

VARIABLES
  mode,         (* who runs: "v86", "pl0", or "off" after a reboot         *)
  c,            (* client registers: pc, fl (IF and TF), sp                *)
  mem,          (* the V86 stack                                           *)
  todo, r0,     (* ring 0: operations to come, stack                       *)
  dwStackCurr,  (* frames of r0 that V86 code must leave alone             *)
  dwStackR0,    (* depth of r0 at which ring 0 lets interrupts in          *)
  nmiMasked,    (* port 70h, bit 7                                         *)
  rom,          (* PTE of FF000: "shadow", read-only, or "orig"            *)
  idt1,         (* vector 1: "monitor", or "cont" (@@pagefaultcont)        *)
  bReentered,
  dead,         (* programs have been aborted                              *)
  left          (* events left                                             *)

monVars == <<mode, c, mem, todo, r0, dwStackCurr, dwStackR0, nmiMasked, rom, idt1,
             bReentered, dead, left>>
page == <<rom, idt1>>
stack0 == <<r0, dwStackCurr, dwStackR0>>
-----------------------------------------------------------------------------
At(seg, ip, w) == [seg |-> seg, ip |-> ip, w |-> w]   \* w: a write to FF000
Code == {"main", "isr"}
BACK == At("BACK", 0, FALSE)     \* the "back" breakpoint
BP == At("BP", 0, FALSE)         \* the breakpoint of a service
BP06 == At("BP06", 0, FALSE)
DOS == At("DOS", 0, FALSE)       \* Int 21h, AX=4C7Fh
ISR == At("isr", 0, FALSE)
Off == [if |-> FALSE, tf |-> FALSE]

Next1(pc) == [pc EXCEPT !.ip = 1 - @, !.w = FALSE]

(* Where a V86 interrupt goes: exception 6 comes back unless it is taken.  *)
Vector(n) == CASE n = "svc" -> BP
               [] n = "06" /\ ~Hooked6 -> BP06
               [] n = "21" -> DOS
               [] OTHER -> ISR

Op(o) == [op |-> o, n |-> "-", pc |-> BACK]
IntTo(n) == [op |-> "int.wr", n |-> n, pc |-> BACK]
Frame(k, n, rest, seen) == [k |-> k, n |-> n, todo |-> rest, seen |-> seen]

(* Simulate_Int, and @@runv86: Begin_Nest_Exec, Exec_Int, End_Nest_Exec.   *)
Simulate_Int(n) == << Op("int.sp"), IntTo(n) >>
RunV86(n) == << Op("begin") >> \o Simulate_Int(n) \o << Op("resume"), Op("ret.pc"), Op("ret.sp") >>

(* The part of the V86 side that nothing in between may change; frames     *)
(* keep it for the properties, the code does not.                          *)
Client == [c |-> c, live |-> [i \in 1 .. Cells |-> IF i >= c.sp THEN mem[i] ELSE mem[Cells + 1]]]
NoClient == [c |-> [pc |-> BACK, fl |-> Off, sp |-> 0], live |-> << >>]

MonInit ==
  /\ mode = "v86"
  /\ c = [pc |-> At("main", 0, FALSE), fl |-> [if |-> TRUE, tf |-> FALSE], sp |-> Cells + 1]
  /\ mem = [i \in 1 .. (Cells + 1) |-> [pc |-> BACK, fl |-> Off]]
  /\ todo = << >> /\ r0 = << >>
  /\ dwStackCurr = 0 /\ dwStackR0 = 0
  /\ nmiMasked = FALSE
  /\ rom = "shadow" /\ idt1 = "monitor"
  /\ bReentered = 0 /\ dead = 0
  /\ left = Events
-----------------------------------------------------------------------------
Event == left > 0 /\ left' = left - 1
Enter(ops) == mode' = "pl0" /\ todo' = ops

(* The instruction at hand is not the write to FF000 that is under way.    *)
InCode == mode = "v86" /\ c.pc.seg \in Code /\ ~c.pc.w

(* V86_Monitor, case 3: an interrupt in V86 mode goes to the hook that is  *)
(* installed for it, or straight to the V86 vector.                        *)
Reflect(n, pc) ==
  /\ c.sp > 1
  /\ mem' = [mem EXCEPT ![c.sp - 1] = [pc |-> pc, fl |-> c.fl]]
  /\ c' = [pc |-> Vector(n), fl |-> Off, sp |-> c.sp - 1]
  /\ UNCHANGED <<mode, todo>>

Irq ==
  /\ mode = "v86" /\ c.fl.if
  /\ Event
  /\ \/ Reflect("irq", c.pc)
     \/ /\ Enter(<< Op("hook") >>)              \* dwHookProc, on dwStackCurr
        /\ UNCHANGED <<c, mem>>
  /\ UNCHANGED <<stack0, nmiMasked, page, bReentered, dead>>

(* A program calls a service: INT, then the breakpoint at its vector.      *)
CallService ==
  /\ InCode /\ Event
  /\ Reflect("svc", Next1(c.pc))
  /\ UNCHANGED <<stack0, nmiMasked, page, bReentered, dead>>

Sti ==
  /\ InCode /\ ~c.fl.if /\ Event
  /\ c' = [c EXCEPT !.fl.if = TRUE, !.pc = Next1(@)]
  /\ UNCHANGED <<mode, mem, todo, stack0, nmiMasked, page, bReentered, dead>>

Iret ==
  /\ InCode /\ c.pc.seg = "isr" /\ c.sp <= Cells
  /\ c' = [pc |-> mem[c.sp].pc, fl |-> mem[c.sp].fl, sp |-> c.sp + 1]
  /\ UNCHANGED <<mode, mem, todo, stack0, nmiMasked, page, bReentered, dead, left>>
-----------------------------------------------------------------------------
(* V86_Exception starts on dwStackCurr.                                    *)
(* The breakpoint of a service: its handler drops the frame of the INT,    *)
(* and may yield, run V86 code of its own, or fault.                       *)
Windowed == << Op("enable"), Op("window"), Op("disable") >>
Services ==
  { << Op("iret.pc"), Op("iret.sp") >> \o body \o << Op("exit") >> :
      body \in { << >>, << Op("yield") >>, RunV86("10"), << Op("fault") >> } }

Breakpoint ==
  /\ mode = "v86" /\ c.pc = BP
  /\ \E ops \in Services : Enter(ops)
  /\ UNCHANGED <<c, mem, stack0, nmiMasked, page, bReentered, dead, left>>

(* V86_Back: the code that waits in Resume_Exec goes on.                   *)
V86_Back ==
  /\ mode = "v86" /\ c.pc = BACK
  /\ Enter(r0[dwStackCurr].todo)
  /\ dwStackCurr' = r0[dwStackCurr].n
  /\ r0' = SubSeq(r0, 1, dwStackCurr - 1)
  /\ UNCHANGED <<c, mem, dwStackR0, nmiMasked, page, bReentered, dead, left>>

(* @@Is_Hlt: ring 0 waits with interrupts enabled, whatever IF says.       *)
Hlt ==
  /\ InCode /\ Event
  /\ c' = [c EXCEPT !.pc = Next1(@)]
  /\ Enter(Windowed \o << Op("exit") >>)
  /\ UNCHANGED <<mem, stack0, nmiMasked, page, bReentered, dead>>

(* Exceptions below 8 become interrupts; others go to 0Dh, to 6, or, if    *)
(* nobody has taken 6, to the register dump.                               *)
Exception(n) ==
  /\ InCode /\ Event /\ c.sp > 1
  /\ IF n \notin {"06", "0D"} \/ Hooked6 \/ n = "06" \/ V86Exc0D
       THEN /\ Enter(Simulate_Int(IF n = "0D" THEN IF V86Exc0D THEN "0D" ELSE "06" ELSE n) \o << Op("exit") >>)
            /\ UNCHANGED bReentered
       ELSE /\ Enter(<< Op("begin"), Op("reset") >>)
            /\ bReentered' = bReentered + 1
  /\ UNCHANGED <<c, mem, stack0, nmiMasked, page, dead>>

(* Int06_V86Entry: exception 6 has come back.                              *)
Exception06 ==
  /\ mode = "v86" /\ c.pc = BP06
  /\ Enter(<< Op("iret.pc"), Op("iret.sp"), Op("fault") >>)
  /\ UNCHANGED <<c, mem, stack0, nmiMasked, page, bReentered, dead, left>>
-----------------------------------------------------------------------------
(* V86 code is about to write to FF000.                                    *)
WriteRom ==
  /\ InCode /\ Event
  /\ c' = [c EXCEPT !.pc.w = TRUE]
  /\ UNCHANGED <<mode, mem, todo, stack0, nmiMasked, page, bReentered, dead>>

(* The fault: the original page is mapped for one instruction, after which *)
(* vector 1 leads to @@pagefaultcont.                                      *)
PageFaultFF ==
  /\ mode = "v86" /\ c.pc.w /\ rom = "shadow"
  /\ rom' = "orig" /\ idt1' = "cont"
  /\ c' = [c EXCEPT !.fl.tf = TRUE]
  /\ UNCHANGED <<mode, mem, todo, stack0, nmiMasked, bReentered, dead, left>>

PageFaultCont == rom' = "shadow" /\ idt1' = "monitor"

(* The write is executed; then the trap.                                   *)
WrittenRom ==
  /\ mode = "v86" /\ c.pc.w /\ rom = "orig"
  /\ IF c.fl.tf /\ idt1 = "cont"
       THEN /\ PageFaultCont
            /\ c' = [c EXCEPT !.pc = Next1(@), !.fl.tf = FALSE]
       ELSE c' = [c EXCEPT !.pc = Next1(@)] /\ UNCHANGED page
  /\ UNCHANGED <<mode, mem, todo, stack0, nmiMasked, bReentered, dead, left>>

(* INT 1 by a handler, while vector 1 is diverted or not.                  *)
Int1 ==
  /\ InCode /\ c.pc.seg = "isr" /\ Event
  /\ IF idt1 = "cont"
       THEN /\ PageFaultCont
            /\ c' = [c EXCEPT !.pc = Next1(@)]
            /\ UNCHANGED <<mode, mem, todo>>
       ELSE Reflect("01", Next1(c.pc)) /\ UNCHANGED page
  /\ UNCHANGED <<stack0, nmiMasked, bReentered, dead>>
-----------------------------------------------------------------------------
(* An NMI in V86 mode: nmi_pl3.                                            *)
NmiV86 ==
  /\ mode = "v86" /\ c.pc # DOS /\ ~nmiMasked /\ Event /\ c.sp > 2
  /\ nmiMasked' = TRUE
  /\ Enter(RunV86("02") \o << Op("unmask"), Op("exit") >>)
  /\ UNCHANGED <<c, mem, stack0, page, bReentered, dead>>

(* An NMI in ring 0, between any two operations: handle_nmi_pl0 keeps the  *)
(* client's flags and clears IF and TF while the V86 handler runs.         *)
NmiPl0 ==
  /\ mode = "pl0" /\ ~nmiMasked /\ Event /\ c.sp > 2
  /\ nmiMasked' = TRUE
  /\ r0' = Append(r0, Frame("nmi", IF c.fl.if THEN 1 ELSE 0, todo, Client))
  /\ c' = [c EXCEPT !.fl = Off]
  /\ todo' = RunV86("02") \o << Op("unmask"), Op("nmi.end") >>
  /\ UNCHANGED <<mode, mem, dwStackCurr, dwStackR0, page, bReentered, dead>>
-----------------------------------------------------------------------------
(* The operations of ring 0.                                               *)
Cur == Head(todo).op
Go == todo' = Tail(todo)
Doing(o) == mode = "pl0" /\ Cur = o
Rest0 == <<nmiMasked, page, bReentered, dead, left>>

(* Simulate_Far_Call: client CS:IP first, then SP, then the stack.         *)
Begin_Nest_Exec_PcKept ==   \* mutant: CS:IP stays in the program
  \/ /\ Doing("begin")
     /\ todo' = << Op("call.sp"), [Op("call.wr") EXCEPT !.pc = c.pc] >> \o Tail(todo)
     /\ UNCHANGED <<c, mem>>
  \/ /\ Doing("call.sp") /\ c.sp > 1
     /\ c' = [c EXCEPT !.sp = @ - 1]
     /\ Go /\ UNCHANGED mem
  \/ /\ Doing("call.wr")
     /\ mem' = [mem EXCEPT ![c.sp] = [pc |-> Head(todo).pc, fl |-> Off]]
     /\ Go /\ UNCHANGED c

Begin_Nest_Exec ==
  \/ /\ Doing("begin")
     /\ c' = [c EXCEPT !.pc = BACK]
     /\ todo' = << Op("call.sp"), [Op("call.wr") EXCEPT !.pc = c.pc] >> \o Tail(todo)
     /\ UNCHANGED mem
  \/ /\ Doing("call.sp") /\ c.sp > 1
     /\ c' = [c EXCEPT !.sp = @ - 1]
     /\ Go /\ UNCHANGED mem
  \/ /\ Doing("call.wr")
     /\ mem' = [mem EXCEPT ![c.sp] = [pc |-> Head(todo).pc, fl |-> Off]]
     /\ Go /\ UNCHANGED c

(* Simulate_Int: the room on the stack is taken before it is written.      *)
SimInt_SpLast ==   \* mutant
  \/ /\ Doing("int.sp") /\ c.sp > 1
     /\ mem' = [mem EXCEPT ![c.sp - 1] = [pc |-> c.pc, fl |-> c.fl]]
     /\ Go /\ UNCHANGED c
  \/ /\ Doing("int.wr")
     /\ c' = [pc |-> Vector(Head(todo).n), fl |-> Off, sp |-> c.sp - 1]
     /\ Go /\ UNCHANGED mem

SimInt ==
  \/ /\ Doing("int.sp") /\ c.sp > 1
     /\ c' = [c EXCEPT !.sp = @ - 1]
     /\ Go /\ UNCHANGED mem
  \/ /\ Doing("int.wr")
     /\ mem' = [mem EXCEPT ![c.sp] = [pc |-> c.pc, fl |-> c.fl]]
     /\ c' = [c EXCEPT !.pc = Vector(Head(todo).n), !.fl = Off]
     /\ Go

(* Simulate_Far_Ret and Simulate_Iret: read first, SP last.                *)
SimRet ==
  /\ \/ /\ Doing("ret.pc")
        /\ c' = [c EXCEPT !.pc = mem[c.sp].pc]
     \/ /\ Doing("iret.pc")
        /\ c' = [c EXCEPT !.pc = mem[c.sp].pc, !.fl = mem[c.sp].fl]
     \/ /\ mode = "pl0" /\ Cur \in {"ret.sp", "iret.sp"}
        /\ c' = [c EXCEPT !.sp = @ + 1]
  /\ Go /\ UNCHANGED mem

Client0 == (Begin_Nest_Exec \/ SimInt \/ SimRet) /\ UNCHANGED <<mode, stack0, Rest0>>

(* Resume_Exec: what is on the stack now stays until V86_Back.             *)
Resume_Exec ==
  /\ Doing("resume")
  /\ r0' = Append(r0, Frame("resume", dwStackCurr, Tail(todo), Client))
  /\ dwStackCurr' = Len(r0) + 1
  /\ mode' = "v86" /\ todo' = << >>
  /\ UNCHANGED <<c, mem, dwStackR0, Rest0>>

(* Yield, EnableInts, DisableInts.                                         *)
DisableInts_R0Kept == r0' = Front(r0) /\ UNCHANGED dwStackR0   \* mutant
DisableInts == r0' = Front(r0) /\ dwStackR0' = Last(r0).n

Interruptible ==
  /\ \/ /\ Doing("yield")
        /\ todo' = (IF c.fl.if THEN Windowed ELSE << >>) \o Tail(todo)
        /\ UNCHANGED <<r0, dwStackR0>>
     \/ /\ Doing("enable")
        /\ r0' = Append(r0, Frame("ints", dwStackR0, << >>, NoClient))
        /\ dwStackR0' = Len(r0) + 1
        /\ Go
     \/ Doing("window") /\ Go /\ UNCHANGED <<r0, dwStackR0>>
     \/ Doing("disable") /\ DisableInts /\ Go
  /\ UNCHANGED <<mode, c, mem, dwStackCurr, Rest0>>

(* handle_exception: the stack is started anew and nothing that waited on  *)
(* it goes on; what it displays is left out.                               *)
HandleException ==
  /\ todo' = << Op("begin"), Op("reset") >>
  /\ bReentered' = bReentered + 1
  /\ UNCHANGED <<r0, c>>

(* @@Reentered: an interrupt in ring 0 is told from an exception by its    *)
(* stack alone.                                                            *)
IrqPl0 ==
  /\ Doing("window") /\ Event /\ c.sp > 2
  /\ IF dwStackR0 = Len(r0)
       THEN /\ r0' = Append(r0, Frame("irq", 0, todo, Client))
            /\ todo' = RunV86("irq") \o << Op("irq.end") >>
            /\ UNCHANGED <<c, bReentered>>
       ELSE HandleException
  /\ UNCHANGED <<mode, mem, dwStackCurr, dwStackR0, nmiMasked, page, dead>>

Back0 ==
  /\ \/ /\ Doing("irq.end")
        /\ UNCHANGED <<c, nmiMasked>>
        /\ todo' = Last(r0).todo /\ r0' = Front(r0)
     \/ /\ Doing("unmask")
        /\ nmiMasked' = FALSE
        /\ Go /\ UNCHANGED <<c, r0>>
     \/ /\ Doing("nmi.end")
        /\ c' = [c EXCEPT !.fl = Last(r0).seen.c.fl]
        /\ todo' = Last(r0).todo /\ r0' = Front(r0)
        /\ UNCHANGED nmiMasked
  /\ UNCHANGED <<mode, mem, dwStackCurr, dwStackR0, page, bReentered, dead, left>>

(* exc_exit, int_handled: back to V86 mode; a hook may pass the interrupt  *)
(* on to the V86 vector.                                                   *)
Exit ==
  /\ \/ Doing("exit") /\ UNCHANGED <<c, mem>>
     \/ Doing("hook") /\ UNCHANGED <<c, mem>>
     \/ /\ Doing("hook") /\ c.sp > 1
        /\ mem' = [mem EXCEPT ![c.sp - 1] = [pc |-> c.pc, fl |-> c.fl]]
        /\ c' = [pc |-> ISR, fl |-> Off, sp |-> c.sp - 1]
  /\ mode' = "v86" /\ todo' = << >>
  /\ UNCHANGED <<stack0, Rest0>>

Fault ==
  /\ Doing("fault")
  /\ HandleException
  /\ UNCHANGED <<mode, mem, dwStackCurr, dwStackR0, nmiMasked, page, dead, left>>

Reset_CurrStale ==   \* mutant
  /\ Doing("reset")
  /\ r0' = << >>
  /\ todo' = << Op("prompt") >>
  /\ UNCHANGED <<mode, c, mem, dwStackCurr, dwStackR0, Rest0>>

Reset ==
  /\ Doing("reset")
  /\ r0' = << >> /\ dwStackCurr' = 0
  /\ todo' = << Op("prompt") >>
  /\ UNCHANGED <<mode, c, mem, dwStackR0, Rest0>>

(* The prompt: while it waits it yields; ESC ends the program, F1 and F2   *)
(* reboot; in a second exception only those.                               *)
Prompt ==
  /\ Doing("prompt")
  /\ \/ /\ bReentered < 2 /\ left > 0
        /\ todo' = << Op("yield") >> \o todo
        /\ UNCHANGED <<mode, bReentered, dead>>
     \/ /\ bReentered < 2
        /\ bReentered' = 0 /\ dead' = 1
        /\ todo' = Simulate_Int("21") \o << Op("resume"), Op("prompt2") >>
        /\ UNCHANGED mode
     \/ /\ mode' = "off" /\ todo' = << >> /\ UNCHANGED <<bReentered, dead>>
  /\ UNCHANGED <<c, mem, stack0, nmiMasked, page, left>>

(* DOS ends the program: its parent goes on, with its own stack.           *)
Terminate ==
  /\ mode = "v86" /\ c.pc = DOS
  /\ c' = [pc |-> At("main", 0, FALSE), fl |-> [if |-> TRUE, tf |-> FALSE], sp |-> Cells + 1]
  /\ UNCHANGED <<mode, mem, todo, stack0, nmiMasked, page, bReentered, dead, left>>

Ring0 == Client0 \/ Resume_Exec \/ Interruptible \/ Back0 \/ Exit \/ Fault \/ Reset
Traps == Breakpoint \/ V86_Back \/ Exception06 \/ PageFaultFF \/ WrittenRom \/ Iret

MonNext ==
  \/ Ring0 \/ Traps \/ IrqPl0 \/ Prompt \/ Terminate
  \/ Irq \/ CallService \/ Sti \/ Hlt \/ WriteRom \/ Int1 \/ NmiV86 \/ NmiPl0
  \/ \E n \in {"00", "06", "0D"} : Exception(n)

(* Ring 0 runs on, handlers return: nothing else is assumed.               *)
MonSpec == MonInit /\ [][MonNext]_monVars /\ WF_monVars(Ring0) /\ WF_monVars(Traps)
-----------------------------------------------------------------------------
(* The types of the variables.                                             *)
MonTypeOK ==
  /\ mode \in {"v86", "pl0", "off"} /\ mode = "pl0" <=> todo # << >>
  /\ c.sp \in 1 .. (Cells + 1)
  /\ dwStackCurr \in 0 .. Len(r0) /\ bReentered \in 0 .. 3

(* Resume_Exec, V86_Back, handle_exception: while V86 code runs, the stack *)
(* of ring 0 holds exactly what waits in Resume_Exec, so that V86_Back and *)
(* V86_Exception start in the right place; and what a program that is      *)
(* aborted had going is gone when DOS ends it.                             *)
StackExact ==
  mode = "v86" =>
    /\ Len(r0) = dwStackCurr
    /\ c.pc = BACK => dwStackCurr > 0
    /\ dwStackCurr > 0 => Last(r0).k = "resume"
    /\ c.pc = DOS => dwStackCurr = 1

(* V86_Monitor, @@Reentered ("IRQs can only occur thru Yield() and hence   *)
(* will have a known ESP (dwStackR0)"): whatever has been nested before,   *)
(* no interrupt in ring 0 is taken for an exception.                       *)
IrqsKnown == mode = "pl0" /\ Cur = "window" => dwStackR0 = Len(r0)

(* @@runv86, handle_nmi_pl0 and the order of SP and stack accesses in      *)
(* Simulate_Int, Simulate_Far_Call and Simulate_Far_Ret: an interrupt or   *)
(* an NMI in ring 0, between any two operations, leaves the client's       *)
(* registers and its V86 stack as they were.                               *)
NestTransparent ==
  mode = "pl0" /\ Cur \in {"irq.end", "nmi.end"} /\ Len(r0') < Len(r0)
    => Client' = Last(r0).seen

(* PageFaultFF: the page FF000 is writable only as long as the trap that   *)
(* ends this is still to come, in the client's flags or in those that an   *)
(* interrupt has pushed, and vector 1 is diverted just as long.            *)
TrapPending ==
  \/ c.fl.tf
  \/ \E i \in DOMAIN mem : i >= c.sp /\ mem[i].fl.tf
  \/ \E k \in DOMAIN r0 : r0[k].k = "nmi" /\ r0[k].seen.c.fl.tf
RomGuarded ==
  /\ (rom = "orig") <=> (idt1 = "cont")
  /\ rom = "orig" /\ dead = 0 /\ bReentered = 0 => TrapPending

(* Simulate_Int, Begin_Nest_Exec, Resume_Exec, V86_Back, Yield,            *)
(* handle_exception: the ring 0 stack holds exactly the calls into V86     *)
(* mode that are under way, and an interrupt in ring 0 is never taken for  *)
(* an exception.                                                           *)
NestingExact == StackExact /\ IrqsKnown

(* An interrupt or NMI in ring 0 leaves the client as it was.              *)
NestsTransparent == [][NestTransparent]_monVars

(* Resume_Exec: ring-0 code that has called into V86 mode goes on some     *)
(* time, unless an exception has aborted the program.                      *)
Waits == dwStackCurr > dead
GoesOn == dwStackCurr <= dead \/ bReentered > 0
Resumed == Waits ~> GoesOn
=============================================================================
