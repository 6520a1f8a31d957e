----------------------------- MODULE A20Method ------------------------------
(***************************************************************************)
(* How Jemm finds out what moves the A20 gate (InitA20, test_A20_proc, the *)
(* detect_ and disable_enable_a20_ procs in src/src/INIT16.ASM), opens it, *)
(* and closes it again when loading fails or Jemm is unloaded.             *)
(***************************************************************************)
EXTENDS Naturals, Sequences

CONSTANTS
  Procs,      (* what the fast, KBC and BIOS ways can do on a machine:     *)
              (* functions to subsets of {"on", "off"}                     *)
  Given       (* methods of A20METHOD=, "none" if the option is missing    *)

(* The candidates in the order of InitA20: the method, its proc, and the   *)
(* answer of the BIOS it asks for first.                                   *)
Candidate(m, p, q) == [method |-> m, proc |-> p, asks |-> q]
Candidates == <<Candidate("FAST", "fast", "2403"), Candidate("PS2", "fast", "mca"),
                Candidate("KBC", "kbc", "none"), Candidate("BIOS", "bios", "2402"),
                Candidate("PORT92", "fast", "none")>>
ProcOf(m) == CASE m \in {"FAST", "PS2", "PORT92"} -> "fast" [] m = "KBC" -> "kbc"
               [] m = "BIOS" -> "bios" [] OTHER -> "dummy"

VARIABLES
  works, says,    (* the machine: what its ways do, which answers it gives *)
  start,          (* the gate when Jemm was started                        *)
  gate, phase,
  item,           (* the candidate that is tested next                     *)
  user,           (* A20METHOD= was given                                  *)
  A20Method       (* jemmini.A20Method, A20Index once Jemm runs            *)

machine == <<works, says, start, user>>
method == <<machine, phase, item, A20Method>>
methodVars == <<method, gate>>

MethodInit ==
  /\ works \in Procs /\ says \in SUBSET {"2403", "mca", "2402"}
  /\ start \in {"on", "off"} /\ gate = start
  /\ phase = "detect" /\ item = 1 /\ A20Method \in Given /\ user = (A20Method # "none")
-----------------------------------------------------------------------------
(* disable_enable_a20_KBC, _fast, _BIOS, _dummy.                           *)
Switched(g, proc, to) == IF proc # "dummy" /\ to \in works[proc] THEN to ELSE g

(* get_a20_status: 10h and 100010h differ.                                 *)
Enabled(g) == g = "on"

(* test_A20_proc: off if it was on, on, and off again if it was off.       *)
Test_OffOnly(proc) ==  \* mutant: nor is it looked at whether it opens
  LET off == IF Enabled(gate) THEN Switched(gate, proc, "off") ELSE gate
  IN  [ok |-> ~Enabled(off), gate |-> off]

Test(proc) ==
  LET off == IF Enabled(gate) THEN Switched(gate, proc, "off") ELSE gate
      on == Switched(off, proc, "on")
      end == IF Enabled(gate) THEN on ELSE Switched(on, proc, "off")
  IN  IF Enabled(off) THEN [ok |-> FALSE, gate |-> off]
      ELSE IF ~Enabled(on) THEN [ok |-> FALSE, gate |-> on]
      ELSE [ok |-> Enabled(gate) \/ ~Enabled(end), gate |-> end]

(* InitA20: a method that was given is taken; a gate that is open is left. *)
TakeGiven ==
  /\ phase = "detect" /\ item = 1 /\ A20Method # "none"
  /\ phase' = "enable"
  /\ UNCHANGED <<machine, gate, item, A20Method>>

AlwaysOn ==
  /\ phase = "detect" /\ item = 1 /\ A20Method = "none" /\ Enabled(gate)
  /\ A20Method' = "ALWAYSON" /\ phase' = "enable"
  /\ UNCHANGED <<machine, gate, item>>

Detect ==
  /\ phase = "detect" /\ A20Method = "none" /\ item <= Len(Candidates)
  /\ item > 1 \/ ~Enabled(gate)
  /\ LET c == Candidates[item]
         t == Test(c.proc)
     IN  IF c.asks \notin says \cup {"none"}
         THEN item' = item + 1 /\ UNCHANGED <<gate, phase, A20Method>>
         ELSE /\ gate' = t.gate
              /\ IF t.ok THEN A20Method' = c.method /\ phase' = "enable" /\ UNCHANGED item
                 ELSE item' = item + 1 /\ UNCHANGED <<phase, A20Method>>
  /\ UNCHANGED machine

NoMethod ==
  /\ phase = "detect" /\ item > Len(Candidates)
  /\ phase' = "refused"
  /\ UNCHANGED <<machine, gate, item, A20Method>>

(* mainex opens the gate before memory is allocated ...                    *)
Enable ==
  /\ phase = "enable" /\ phase' = "alloc"
  /\ gate' = Switched(gate, ProcOf(A20Method), "on")
  /\ UNCHANGED <<machine, item, A20Method>>

Loaded ==
  /\ phase = "alloc" /\ phase' = "loaded"
  /\ UNCHANGED <<machine, gate, item, A20Method>>

(* ... and closes it if that failed; TryUnload does as well.               *)
Closing == ProcOf(A20Method)
Disable ==
  /\ phase \in {"alloc", "loaded"} /\ phase' = "gone"
  /\ gate' = Switched(gate, Closing, "off")
  /\ UNCHANGED <<machine, item, A20Method>>

MethodNext == TakeGiven \/ AlwaysOn \/ Detect \/ NoMethod \/ Enable \/ Loaded \/ Disable
=============================================================================
