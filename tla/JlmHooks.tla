------------------------------ MODULE JlmHooks ------------------------------
(***************************************************************************)
(* What loaded modules hook: interrupts of V86 programs                    *)
(* (Hook_V86_Int_Chain, Unhook_V86_Int_Chain and CallV86Hooks in           *)
(* src/Tools/JLOAD/VMM.ASM) and faults (Hook_V86_Fault, Unhook_V86_Fault). *)
(* A hook procedure keeps the address of the one behind it in a variable   *)
(* of its own module, to which the macro HookProc gives it a pointer.      *)
(***************************************************************************)
EXTENDS Naturals, Sequences, FiniteSets, SequencesExt

CONSTANTS
  Procs,        (* hook procedures                                         *)
  Ints,         (* interrupts they hook                                    *)
  Marked,       (* interrupts the redirection bitmap sends to the monitor  *)
                (* from the start                                          *)
  Rehook,       (* a procedure that was unhooked is hooked again before    *)
                (* its module is loaded anew                               *)
  Strangers     (* Unhook_V86_Fault is called for what is not hooked       *)

JlmHooksAssumption == Marked \subseteq Ints /\ {Rehook, Strangers} \subseteq BOOLEAN

Nil == "nil"              \* no procedure, 0
Default == "default"      \* lpV86Faults, Jemm's own handler of faults
NamesAssumption == {Nil, Default} \intersect Procs = {}

VARIABLES
  dwHook,       (* lpV86Hooks: the first procedure of each interrupt       *)
  oldvect,      (* the variable behind each procedure                      *)
  bitmap,       (* interrupts that enter the monitor (VME)                 *)
  kept,         (* the bits behind the page's entries: do not clear        *)
  hooked,       (* procedures hooked to each interrupt, the last one first *)
  int, at,      (* the interrupt being served, the procedure that runs     *)
  v86faulthooks, faulted,  (* the same for one fault                       *)
  lost          (* a pointer is read in front of Jemm's own handler        *)

ints == <<dwHook, bitmap, kept, hooked>>
walk == <<int, at>>
faults == <<v86faulthooks, faulted, lost>>
vars == <<ints, oldvect, walk, faults>>

Init ==
  /\ dwHook = [i \in Ints |-> Nil] /\ oldvect = [p \in Procs |-> Nil]
  /\ bitmap = Marked /\ kept = {}
  /\ hooked = [i \in Ints |-> <<>>]
  /\ int \in Ints /\ at = Nil
  /\ v86faulthooks = Nil /\ faulted = <<>> /\ lost = FALSE

Hooks(p) == {i \in Ints : p \in ToSet(hooked[i])}
Idle(p) == Hooks(p) = {} /\ p \notin ToSet(faulted)
Behind(p) == IF p \in Procs THEN oldvect[p] ELSE Nil

(* The procedures met from p on, at most n of them.                        *)
RECURSIVE Follow(_, _)
Follow(p, n) == IF p \notin Procs \/ n = 0 THEN <<>> ELSE <<p>> \o Follow(oldvect[p], n - 1)
Chain(first) == Follow(first, Cardinality(Procs) + 1)

Without(s, p) == SelectSeq(s, LAMBDA q : q # p)
-----------------------------------------------------------------------------
(* @@newhook leaves the procedure's variable as it is ("if 0").  A first   *)
(* call that gets no page for the entries fails and changes nothing here.  *)
Hook_V86_Int_Chain(p, i) ==
  /\ Idle(p) /\ (Rehook \/ oldvect[p] = Nil) /\ ~ lost
  /\ IF dwHook[i] = Nil
     THEN /\ bitmap' = bitmap \union {i}
          /\ kept' = IF i \in bitmap THEN kept \union {i} ELSE kept \ {i}
          /\ UNCHANGED oldvect
     ELSE oldvect' = [oldvect EXCEPT ![p] = dwHook[i]] /\ UNCHANGED <<bitmap, kept>>
  /\ dwHook' = [dwHook EXCEPT ![i] = p]
  /\ hooked' = [hooked EXCEPT ![i] = <<p>> \o @]
  /\ UNCHANGED <<walk, faults>>

(* @@found.  A procedure is not unhooked while it runs.                    *)
Unhook_V86_Int_Chain_First(p, i) ==   \* mutant: ECX is not followed
  /\ i \in Hooks(p) /\ at # p /\ ~ lost
  /\ p \in ToSet(Chain(dwHook[i]))
  /\ dwHook' = [dwHook EXCEPT ![i] = oldvect[p]]
  /\ bitmap' = IF dwHook'[i] = Nil THEN bitmap \ ({i} \ kept) ELSE bitmap
  /\ hooked' = [hooked EXCEPT ![i] = Without(@, p)]
  /\ UNCHANGED <<kept, oldvect, walk, faults>>

Unhook_V86_Int_Chain(p, i) ==
  /\ i \in Hooks(p) /\ at # p /\ ~ lost
  /\ LET chain == Chain(dwHook[i])
         k == CHOOSE k \in DOMAIN chain : chain[k] = p
     IN  /\ p \in ToSet(chain)
         /\ IF k = 1
            THEN /\ dwHook' = [dwHook EXCEPT ![i] = oldvect[p]]
                 /\ bitmap' = IF oldvect[p] = Nil THEN bitmap \ ({i} \ kept) ELSE bitmap
                 /\ UNCHANGED oldvect
            ELSE /\ oldvect' = [oldvect EXCEPT ![chain[k - 1]] = oldvect[p]]
                 /\ UNCHANGED <<dwHook, bitmap>>
  /\ hooked' = [hooked EXCEPT ![i] = Without(@, p)]
  /\ UNCHANGED <<kept, walk, faults>>

(* CallV86Hooks: the interrupt, then one procedure after the other until   *)
(* one has served it; what is behind one is read when it has returned.     *)
Interrupt(i) ==
  /\ at = Nil /\ i \in bitmap /\ dwHook[i] # Nil /\ ~ lost
  /\ int' = i /\ at' = dwHook[i]
  /\ UNCHANGED <<ints, oldvect, faults>>
Passed ==
  /\ at # Nil /\ ~ lost
  /\ at' = oldvect[at]
  /\ UNCHANGED <<ints, oldvect, int, faults>>
Serviced ==
  /\ at # Nil /\ ~ lost
  /\ at' = Nil
  /\ UNCHANGED <<ints, oldvect, int, faults>>

(* The module is unloaded and loaded anew: its data are as in the file.    *)
Reload(p) ==
  /\ Idle(p) /\ oldvect[p] # Nil /\ at # p /\ ~ lost
  /\ oldvect' = [oldvect EXCEPT ![p] = Nil]
  /\ UNCHANGED <<ints, walk, faults>>
-----------------------------------------------------------------------------
Hook_V86_Fault(p) ==
  /\ Idle(p) /\ at # p /\ ~ lost
  /\ oldvect' = [oldvect EXCEPT ![p] = IF v86faulthooks = Nil THEN Default ELSE v86faulthooks]
  /\ v86faulthooks' = p
  /\ faulted' = <<p>> \o faulted
  /\ UNCHANGED <<ints, walk, lost>>

(* A procedure that is not found: the loop goes on to what is in front of  *)
(* Jemm's handler, as if it were a hook procedure.                         *)
Unhook_V86_Fault(p) ==
  /\ p \in ToSet(faulted) \/ Strangers
  /\ ~ lost
  /\ LET chain == Chain(v86faulthooks)
         k == CHOOSE k \in DOMAIN chain : chain[k] = p
     IN  IF p \in ToSet(chain)
         THEN /\ IF k = 1 THEN v86faulthooks' = oldvect[p] /\ UNCHANGED oldvect
                 ELSE oldvect' = [oldvect EXCEPT ![chain[k - 1]] = oldvect[p]] /\ UNCHANGED v86faulthooks
              /\ faulted' = Without(faulted, p)
              /\ UNCHANGED lost
         ELSE /\ lost' = (v86faulthooks # Nil)
              /\ UNCHANGED <<v86faulthooks, oldvect, faulted>>
  /\ UNCHANGED <<ints, walk>>
-----------------------------------------------------------------------------
Next ==
  \/ \E p \in Procs, i \in Ints : Hook_V86_Int_Chain(p, i)
  \/ \E p \in Procs, i \in Ints : Unhook_V86_Int_Chain(p, i)
  \/ \E i \in Ints : Interrupt(i)
  \/ Passed
  \/ Serviced
  \/ \E p \in Procs : Reload(p)
  \/ \E p \in Procs : Hook_V86_Fault(p)
  \/ \E p \in Procs : Unhook_V86_Fault(p)

Spec == Init /\ [][Next]_vars
-----------------------------------------------------------------------------
JlmHooksTypeOK ==
  /\ dwHook \in [Ints -> Procs \union {Nil}]
  /\ oldvect \in [Procs -> Procs \union {Nil, Default}]
  /\ bitmap \subseteq Ints /\ kept \subseteq Ints
  /\ int \in Ints /\ at \in Procs \union {Nil, Default}
  /\ v86faulthooks \in Procs \union {Nil, Default} /\ lost \in BOOLEAN

(* The chain of an interrupt is what is hooked, the last one first, and    *)
(* the interrupt enters the monitor as long as there is one, or if it did  *)
(* before; the procedure that runs is one of them, so an interrupt is      *)
(* handed on through all that are hooked, also when others come and go     *)
(* while it is.                                                            *)
HookedCalled ==
  /\ \A i \in Ints : Chain(dwHook[i]) = hooked[i]
  /\ bitmap = Marked \union {i \in Ints : hooked[i] # <<>>}
  /\ at # Nil => at \in ToSet(hooked[int])

(* The chain of a fault is what is hooked, the last one first, and Jemm's  *)
(* own handler behind it.                                                  *)
FaultsChained ==
  LET chain == Chain(v86faulthooks)
  IN  /\ chain = faulted
      /\ chain # <<>> => oldvect[Last(chain)] = Default

(* Unhook_V86_Fault answers for what is not hooked too: ";--- out: C if    *)
(* not unhooked (invalid fault in eax, esi not a hook proc, hook proc not  *)
(* found,...)" (src/Tools/JLOAD/VMM.ASM).                                  *)
UnhookAnswers == ~ lost
=============================================================================
