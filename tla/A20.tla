-------------------------------- MODULE A20 ---------------------------------
(***************************************************************************)
(* The A20 emulation and the HMA: XMS functions 1-7, the traps of the      *)
(* ports 60h, 64h and 92h, and Int 15h AX=240xh (src/src/XMS.ASM,          *)
(* Int15_Entry in src/src/JEMM32.ASM), from the loading of Jemm, which     *)
(* opens the gate by the way that A20Method finds, to its removal.  A      *)
(* program never moves the real gate: A20_Set points the sixteen PTEs of   *)
(* the HMA at 0 or at 100000h.                                             *)
(***************************************************************************)
EXTENDS A20Method, FiniteSets

CONSTANTS
  Clients,      (* programs that bracket their work with local enables     *)
  CountMod,     (* 100h, the range of the low byte of wA20                 *)
  BootCount,    (* wA20 is 2 when the monitor starts                       *)
  NoA20,        (* the NOA20 option                                        *)
  HmaMin,       (* hmamin, in KB                                           *)
  HmaSizes      (* what the clients ask for                                *)

VARIABLES
  wA20,         (* local: the count in CL, global: bit 0 of CH             *)
  bA20Stat,     (* what the HMA's PTEs show: 1 memory at 1 MB, 0 at 0      *)
  hma_used,
  trap60,       (* the bit of port 60h in the TSS bitmap (?DYNTRAPP60)     *)
  kbcCmd,       (* the command the keyboard controller waits to complete   *)
  nest,         (* local enables each client has not taken back            *)
  ax            (* AX of the last XMS call: 1 done, 0 not                  *)

ASSUME A20Assumption ==
  /\ CountMod \in Nat \ {0} /\ BootCount \in 0 .. (CountMod - 1)
  /\ NoA20 \in BOOLEAN

emulation == <<wA20, bA20Stat, hma_used, trap60, kbcCmd, nest, ax>>
gateVars == <<methodVars, emulation>>
a20 == <<wA20, bA20Stat>>
ports == <<trap60, gate, kbcCmd>>

Held == wA20.local > 0 \/ wA20.global = 1
-----------------------------------------------------------------------------
(* A20_Set: nothing under NOA20, nothing if the state is that already.     *)
A20_Set(on) == bA20Stat' = IF NoA20 THEN bA20Stat ELSE on

EmulationInit ==
  /\ wA20 = [local |-> BootCount, global |-> 0]
  /\ bA20Stat = 1
  /\ hma_used = FALSE
  /\ trap60 = FALSE
  /\ kbcCmd = "none"
  /\ nest = [c \in Clients |-> 0]
  /\ ax = 1
-----------------------------------------------------------------------------
TestA20_LocalOnly(w) ==   \* mutant: the global enable is not looked at
  /\ wA20' = w
  /\ A20_Set(IF w.local > 0 THEN 1 ELSE 0)
  /\ ax' = 1

(* @@testa20: the PTEs follow the counts.                                  *)
TestA20(w) ==
  /\ wA20' = w
  /\ A20_Set(IF w.local > 0 \/ w.global = 1 THEN 1 ELSE 0)
  /\ ax' = 1

(* @@stillenabled: error 94h, and yet the counts are stored.               *)
StillEnabled(w) == wA20' = w /\ ax' = 0 /\ UNCHANGED bA20Stat

(* @@localerr: error 82h, nothing is stored.                               *)
LocalErr == ax' = 0 /\ UNCHANGED a20

GlobalEnable ==
  /\ TestA20([wA20 EXCEPT !.global = 1])
  /\ UNCHANGED <<ports, hma_used, nest>>

GlobalDisable ==
  LET w == [wA20 EXCEPT !.global = 0]
  IN /\ IF w.local = 0 THEN TestA20(w) ELSE StillEnabled(w)
     /\ UNCHANGED <<ports, hma_used, nest>>

(* A count that would wrap is an error.                                    *)
LocalEnable(c) ==
  /\ IF (wA20.local + 1) % CountMod = 0
       THEN LocalErr /\ UNCHANGED nest
       ELSE /\ TestA20([wA20 EXCEPT !.local = @ + 1])
            /\ nest' = [nest EXCEPT ![c] = @ + 1]
  /\ UNCHANGED <<ports, hma_used>>

(* With no local enable left the call takes the global one back.           *)
LocalDisable ==
  IF wA20.local > 0
    THEN LET w == [wA20 EXCEPT !.local = @ - 1]
         IN IF w.local = 0 /\ w.global = 0 THEN TestA20(w) ELSE StillEnabled(w)
    ELSE IF wA20.global = 1 THEN TestA20([wA20 EXCEPT !.global = 0])
                            ELSE LocalErr

ClientDisable(c) ==
  /\ nest[c] > 0
  /\ nest' = [nest EXCEPT ![c] = @ - 1]
  /\ LocalDisable
  /\ UNCHANGED <<ports, hma_used>>

(* The start-up code takes its own enables back when no program runs yet.  *)
BootDisable ==
  /\ \A c \in Clients : nest[c] = 0
  /\ LocalDisable
  /\ UNCHANGED <<ports, hma_used, nest>>
-----------------------------------------------------------------------------
RequestHma(kb) ==
  LET ok == ~hma_used /\ kb >= HmaMin
  IN /\ hma_used' = (hma_used \/ ok)
     /\ ax' = IF ok THEN 1 ELSE 0
     /\ UNCHANGED <<a20, ports, nest>>

ReleaseHma ==
  /\ hma_used' = FALSE
  /\ ax' = IF hma_used THEN 1 ELSE 0
  /\ UNCHANGED <<a20, ports, nest>>
-----------------------------------------------------------------------------
(* A20_Handle64: D0h and D1h are passed on and the next access to port 60h *)
(* is trapped; any other command is passed on as it is (Simulate_IO).      *)
Out64(cmd) ==
  /\ trap60' = (trap60 \/ cmd \in {"D0", "D1"})
  /\ kbcCmd' = cmd
  /\ UNCHANGED <<a20, hma_used, gate, nest, ax>>

(* What the controller makes of a byte at port 60h.                        *)
Kbc60(bit) ==
  /\ gate' = IF kbcCmd = "D1" THEN (IF bit = 1 THEN "on" ELSE "off") ELSE gate
  /\ kbcCmd' = "none"

(* A20_Handle60 for OUT: bit 1 becomes the emulated gate, the real one is  *)
(* written as enabled, and the port is free again.                         *)
Out60Trapped(bit) == A20_Set(bit) /\ Kbc60(1)

Out60(bit) ==
  /\ trap60' = FALSE
  /\ IF trap60 THEN Out60Trapped(bit) ELSE Kbc60(bit) /\ UNCHANGED bA20Stat
  /\ UNCHANGED <<wA20, hma_used, nest, ax>>

(* Reading port 60h completes D0h; a program that has sent D1h writes      *)
(* before anything reads, the keyboard's handler included.                 *)
In60 ==
  /\ kbcCmd # "D1"
  /\ trap60' = FALSE
  /\ kbcCmd' = "none"
  /\ UNCHANGED <<a20, hma_used, gate, nest, ax>>

(* A20_Handle92: the real bit stays set, bit 0 (reset) stays clear.        *)
Out92(bit) ==
  /\ A20_Set(bit)
  /\ gate' = "on"
  /\ UNCHANGED <<wA20, hma_used, trap60, kbcCmd, nest, ax>>

(* Int15_Entry: 2400h and 2401h are refused, with carry, in ring 0.        *)
Int15_24 == ax' = 0 /\ UNCHANGED <<a20, ports, hma_used, nest>>

EmulationNext ==
  \/ GlobalEnable
  \/ GlobalDisable
  \/ \E c \in Clients : LocalEnable(c) \/ ClientDisable(c)
  \/ BootDisable
  \/ \E kb \in HmaSizes : RequestHma(kb)
  \/ ReleaseHma
  \/ \E cmd \in {"D0", "D1", "AE"} : Out64(cmd)
  \/ \E bit \in {0, 1} : Out60(bit) \/ Out92(bit)
  \/ In60
  \/ Int15_24

(* While the monitor runs programs meet the emulation only.                *)
Emulate == phase = "loaded" /\ EmulationNext /\ UNCHANGED method

GateInit == MethodInit /\ EmulationInit
GateNext ==
  \/ MethodNext /\ UNCHANGED emulation
  \/ Emulate
GateSpec == GateInit /\ [][GateNext]_gateVars
-----------------------------------------------------------------------------
(* The types of the variables.                                             *)
A20TypeOK ==
  /\ wA20 \in [local : 0 .. (CountMod - 1), global : {0, 1}]
  /\ bA20Stat \in {0, 1} /\ gate \in {"on", "off"} /\ ax \in {0, 1}
  /\ hma_used \in BOOLEAN /\ trap60 \in BOOLEAN
  /\ kbcCmd \in {"none", "D0", "D1", "AE"}
  /\ nest \in [Clients -> Nat]

(* InitA20, A20_Handle60 and A20_Handle92: the monitor, whose own memory   *)
(* lies above 1 MB, is only set up with the gate open, whatever the        *)
(* machine's ways of moving it do, and the gate stays open whatever        *)
(* programs write to the ports, unless the user named a method (InitA20    *)
(* tests what it chooses, not what A20METHOD= says).                       *)
GateOpen == phase \in {"alloc", "loaded"} /\ ~user => gate = "on"

(* When loading fails or Jemm is unloaded the gate is as it was found, for *)
(* every method that InitA20 chose.                                        *)
GateRestored == phase = "gone" /\ ~user => gate = start

(* The local enables that clients have not taken back.                     *)
Enables == UNION {{c} \X (1 .. nest[c]) : c \in Clients}

(* XMS_HandleA20: while a client has local enables it has not taken back,  *)
(* they are in the count, whatever the others do and however near the      *)
(* count is to wrapping.                                                   *)
ClientsCounted == Cardinality(Enables) <= wA20.local

(* InitA20, XMS_HandleA20, A20_Handle60, A20_Handle92 and TryUnload:       *)
(* whatever clients do to the gate, the machine's stays open while the     *)
(* monitor is loaded, their enables are counted, and it is restored.       *)
GateKept == GateOpen /\ GateRestored /\ ClientsCounted

(* XMS_HandleA20: a call of one client never hides the HMA from another    *)
(* that still holds it; only a write to a port may do that.                *)
KeptWhileHeld ==
  [][wA20' # wA20 /\ bA20Stat = 1 /\ Held' => bA20Stat' = 1]_gateVars
=============================================================================
