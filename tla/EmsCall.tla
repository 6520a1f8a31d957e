------------------------------- MODULE EmsCall ------------------------------
(***************************************************************************)
(* EMS functions 55h and 56h, alter page map and jump or call              *)
(* (src/src/EMS.ASM).  56h copies a piece of 16-bit code onto the client's *)
(* stack and lets the called routine return to it: the code maps the old   *)
(* pages with int 67h, AH=50h, and returns to the caller of 56h.           *)
(***************************************************************************)
EXTENDS Naturals, Sequences, SequencesExt

CONSTANTS
  PhysPages,    (* physical pages                                          *)
  HandlePages,  (* handle -> how many pages it has                         *)
  Maps,         (* lists of [log, phys] of the clients                     *)
  Routines,     (* code of the clients                                     *)
  MaxDepth,     (* bound: calls of 56h under way                           *)
  CodeSize      (* sizeclproc, in bytes                                    *)

VARIABLES
  window,       (* physical page -> [hdl, log]                             *)
  open,         (* handles that are allocated                              *)
  stack,        (* the client's stack, what is pushed last is last         *)
  pc,           (* the routine that runs, or "proc": the code on the stack *)
  calls         (* calls of 56h under way: caller, old map and stack       *)

vars == <<window, open, stack, pc, calls>>

Shows(h, l) == [hdl |-> h, log |-> l]
Nothing == Shows(0, 0)

Init ==
  /\ window = [p \in PhysPages |-> Nothing]
  /\ open = DOMAIN HandlePages
  /\ stack = << >>
  /\ pc \in Routines
  /\ calls = << >>
-----------------------------------------------------------------------------
(* ems4_map_multiple: item after item up to the first that is not valid.   *)
Good(h, it) == it.log < HandlePages[h] /\ it.phys \in PhysPages
GoodItems(h, map) ==
  IF h \notin open THEN << >>
  ELSE SubSeq(map, 1, CHOOSE k \in 0 .. Len(map) :
         /\ \A i \in 1 .. k : Good(h, map[i])
         /\ k < Len(map) => ~Good(h, map[k + 1]))
Whole(h, map) == h \in open /\ GoodItems(h, map) = map
Mapped(h, map) ==
  FoldLeft(LAMBDA w, it : [w EXCEPT ![it.phys] = Shows(h, it.log)], window, GoodItems(h, map))

(* 55h: the jump, unless a page cannot be mapped.                          *)
ems4_alter_map_jump(h, new, to) ==
  /\ pc # "proc"
  /\ window' = Mapped(h, new)
  /\ pc' = IF Whole(h, new) THEN to ELSE pc
  /\ UNCHANGED <<open, stack, calls>>

Return(to) == [kind |-> "ret", to |-> to]
Code(h, old) == [kind |-> "code", hdl |-> h, map |-> old]

Pushed_NewHandle(h, old) == <<Code(CHOOSE x \in DOMAIN HandlePages : x # h, old), Return(pc), Return("proc")>>   \* mutant: DX is not copied into the code

(* The code with the handle and the old map in it; behind it the return    *)
(* address of the caller, as Simulate_Far_Call to the code pushes it, and  *)
(* the address of the code, as the one to the routine does.                *)
Pushed(h, old) == <<Code(h, old), Return(pc), Return("proc")>>

(* 56h.  The old map is read when it is mapped, not now.                   *)
ems4_alter_map_call(h, new, old, to) ==
  /\ pc # "proc" /\ Len(calls) < MaxDepth
  /\ window' = Mapped(h, new)
  /\ IF Whole(h, new)
     THEN /\ stack' = stack \o Pushed(h, old)
          /\ pc' = to
          /\ calls' = Append(calls, [caller |-> pc, hdl |-> h, old |-> old, stack |-> stack])
     ELSE UNCHANGED <<stack, pc, calls>>
  /\ UNCHANGED open

(* The routine's RETF.                                                     *)
RoutineReturns ==
  /\ pc # "proc" /\ calls # << >>
  /\ stack # << >> /\ Last(stack).kind = "ret"
  /\ pc' = Last(stack).to
  /\ stack' = Front(stack)
  /\ UNCHANGED <<window, open, calls>>

(* The code: AX=50xxh with what was copied into it; whatever the answer,   *)
(* RETF sizeclproc takes the return address and the code off the stack.    *)
CodeTop == 2
ProcReturns ==
  /\ pc = "proc"
  /\ Len(stack) > 1 /\ Last(stack).kind = "ret" /\ stack[Len(stack) - 1].kind = "code"
  /\ window' = Mapped(stack[Len(stack) - 1].hdl, stack[Len(stack) - 1].map)
  /\ pc' = Last(stack).to
  /\ stack' = SubSeq(stack, 1, Len(stack) - CodeTop)
  /\ calls' = Front(calls)
  /\ UNCHANGED open

(* What a routine does meanwhile: 44h, 45h, and 43h again.                 *)
RoutineMaps(h, l, p) ==
  /\ pc # "proc" /\ h \in open /\ l < HandlePages[h]
  /\ window' = [window EXCEPT ![p] = Shows(h, l)]
  /\ UNCHANGED <<open, stack, pc, calls>>
RoutineFrees(h) ==
  /\ pc # "proc" /\ h \in open
  /\ open' = open \ {h}
  /\ UNCHANGED <<window, stack, pc, calls>>
RoutineOpens(h) ==
  /\ pc # "proc" /\ h \in (DOMAIN HandlePages) \ open
  /\ open' = open \cup {h}
  /\ UNCHANGED <<window, stack, pc, calls>>

Hdl == DOMAIN HandlePages
Next ==
  \/ \E h \in Hdl, new \in Maps, to \in Routines : ems4_alter_map_jump(h, new, to)
  \/ \E h \in Hdl, new, old \in Maps, to \in Routines : ems4_alter_map_call(h, new, old, to)
  \/ RoutineReturns \/ ProcReturns
  \/ \E h \in Hdl : RoutineFrees(h) \/ RoutineOpens(h)
  \/ \E h \in Hdl, l \in 0 .. 2, p \in PhysPages : RoutineMaps(h, l, p)

Spec == Init /\ [][Next]_vars
-----------------------------------------------------------------------------
(* Types; a window shows a page that its handle has or had.                *)
EmsCallTypeOK ==
  /\ \A p \in PhysPages : LET w == window[p]
                          IN  w # Nothing => w.hdl \in Hdl /\ w.log < HandlePages[w.hdl]
  /\ open \subseteq Hdl /\ pc \in Routines \cup {"proc"} /\ Len(calls) <= MaxDepth

(* A call of 56h ends, however its routine was left (by a 55h jump too)    *)
(* and whatever was called in it: the caller goes on with the stack as it  *)
(* was, and the old pages are mapped, unless their handle is closed.       *)
CallReturns ==
  Len(calls') < Len(calls) =>
    LET c == Last(calls)
    IN  /\ stack' = c.stack /\ pc' = c.caller
        /\ Whole(c.hdl, c.old) => \A i \in DOMAIN c.old :
             (\A j \in (i + 1) .. Len(c.old) : c.old[j].phys # c.old[i].phys)
               => window'[c.old[i].phys] = Shows(c.hdl, c.old[i].log)

(* 5602h, by its comment: "BX = additional stack space required".          *)
StackSpace == CodeSize + 4
Bytes(items) == FoldLeft(LAMBDA n, e : n + (IF e.kind = "code" THEN CodeSize ELSE 4), 0, items)
SpaceTold == calls # << >> => Bytes(stack) <= Len(calls) * StackSpace
=============================================================================
