------------------------------ MODULE Restart -------------------------------
(***************************************************************************)
(* Ctrl-Alt-Del under Jemm (Int15_Entry, fastboot, restorevecs, _Reboot in *)
(* src/src/JEMM32.ASM; SaveIVT in INIT.ASM): with FASTBOOT the vectors go  *)
(* back to what they were before DOS, with some help from DOS itself, and  *)
(* the boot sector is loaded again; without it the machine is reset.       *)
(* One vector stands for each range that is treated alike.                 *)
(***************************************************************************)
EXTENDS Naturals, FiniteSets

CONSTANTS
  Options,     (* fast: FASTBOOT; alt: ALTBOOT                             *)
  DosTakes,    (* sets of vectors DOS changes before Jemm is loaded        *)
  DosSaves     (* sets of vectors DOS stores at 70:100 and puts back       *)

Low  == {"v13", "v15", "v19"}          (* 00-1F                            *)
Mid  == {"v40", "v4B"}                 (* 40-5F                            *)
High == {"v70"}                        (* 68-77                            *)
Zeroed == {"v21", "v67", "v78"}        (* 20-3F, 60-67, 78-7F              *)
Rest == {"v80"}                        (* 80-FF                            *)
Vectors == Low \cup Mid \cup High \cup Zeroed \cup Rest
JemmTakes == {"v15", "v19", "v4B", "v67"}

VARIABLES
  opt, taken,   (* options; what DOS changed                               *)
  at70,         (* the list at 70:100: vector -> what DOS found, or "none" *)
  ivt,          (* who answers an interrupt                                *)
  pSavedVecs,   (* what SaveIVT stored                                     *)
  OldInt19, bp06,  (* the first breakpoint leads to Int 06h or fastboot_1  *)
  stage,
  irq1, kbd,    (* IRQ 1 is in service; the keyboard is enabled            *)
  vme, vdsbit,  (* CR4.VME, the bit in 47Bh                                *)
  notified      (* how often the JLMs were told                            *)

keys == <<irq1, kbd>>
cpu == <<vme, vdsbit>>
saved == <<pSavedVecs, OldInt19>>
restartVars == <<opt, taken, at70, ivt, saved, bp06, stage, keys, cpu, notified>>

RestartInit ==
  /\ opt \in Options /\ taken \in DosTakes
  /\ \E s \in DosSaves : at70 = [v \in Vectors |-> IF v \notin s THEN "none" ELSE IF v \in Low \cup Mid \cup High THEN "rom" ELSE "null"]
  /\ ivt = [v \in Vectors |-> IF v \in taken THEN "dos" ELSE IF v \in Zeroed \cup Rest THEN "null" ELSE "rom"]
  /\ pSavedVecs = ivt /\ OldInt19 = "rom" /\ bp06 = "int06"
  /\ stage = "dos" /\ irq1 = FALSE /\ kbd = TRUE
  /\ vme = FALSE /\ vdsbit = FALSE /\ notified = 0
-----------------------------------------------------------------------------
(* SaveIVT, then Jemm's own vectors.                                       *)
Load ==
  /\ stage = "dos" /\ stage' = "run"
  /\ pSavedVecs' = ivt
  /\ OldInt19' = ivt["v19"]
  /\ ivt' = [v \in Vectors |-> IF v \in JemmTakes THEN "jemm" ELSE ivt[v]]
  /\ vdsbit' = TRUE /\ vme' \in BOOLEAN
  /\ UNCHANGED <<opt, taken, at70, bp06, keys, notified>>

(* A program that stays in memory hooks a vector.                          *)
Tsr(v) ==
  /\ stage = "run" /\ ivt[v] # "tsr" /\ Cardinality({w \in Vectors : ivt[w] = "tsr"}) < 2
  /\ ivt' = [ivt EXCEPT ![v] = "tsr"]
  /\ UNCHANGED <<opt, taken, at70, saved, bp06, stage, keys, cpu, notified>>

(* Int15_Entry, AX=4F53h with Ctrl and Alt: while IRQ 1 is in service and  *)
(* the keyboard disabled, or called by a program.                          *)
Int15_Entry ==
  /\ stage = "run" /\ stage' = "hookers"
  /\ irq1' \in BOOLEAN /\ kbd' = ~irq1'
  /\ UNCHANGED <<opt, taken, at70, ivt, saved, bp06, cpu, notified>>

(* _SoftBoot: behind the hookers of Int 15h the keyboard is made usable.   *)
SoftBoot_NoEoi ==    \* mutant: the interrupt is not acknowledged
  /\ stage = "hookers"
  /\ kbd' = TRUE
  /\ stage' = IF opt.fast THEN "fastboot" ELSE "reboot"
  /\ UNCHANGED <<irq1, opt, taken, at70, ivt, saved, bp06, cpu, notified>>

SoftBoot ==
  /\ stage = "hookers"
  /\ irq1' = FALSE /\ kbd' = TRUE
  /\ stage' = IF opt.fast THEN "fastboot" ELSE "reboot"
  /\ UNCHANGED <<opt, taken, at70, ivt, saved, bp06, cpu, notified>>

(* restorevecs: the vectors SaveIVT stored; the one DOS keeps for Int 19h  *)
(* becomes the first breakpoint.  Without it: a full reboot.               *)
Restored == [v \in Vectors |-> IF v \in Low \cup Mid \cup High THEN pSavedVecs[v] ELSE ivt[v]]
restorevecs ==
  /\ ivt' = Restored
  /\ IF at70["v19"] = "none" THEN UNCHANGED <<at70, OldInt19>>
     ELSE OldInt19' = at70["v19"] /\ at70' = [at70 EXCEPT !["v19"] = "bp"]

Bp06 == "fastboot_1"
fastboot ==
  /\ stage = "fastboot"
  /\ restorevecs
  /\ IF at70["v19"] = "none" THEN stage' = "reboot" /\ UNCHANGED bp06
     ELSE stage' = "int19" /\ bp06' = Bp06
  /\ UNCHANGED <<opt, taken, pSavedVecs, keys, cpu, notified>>

(* Int 19h in V86 mode: DOS puts its vectors back and goes on to the one   *)
(* it kept for Int 19h; the BIOS would boot at once.                       *)
DosInt19 ==
  /\ stage = "int19" /\ ivt["v19"] = "dos"
  /\ ivt' = [v \in Vectors |-> IF at70[v] = "none" THEN ivt[v] ELSE at70[v]]
  /\ stage' = IF bp06 = "fastboot_1" THEN "back" ELSE "lost"
  /\ UNCHANGED <<opt, taken, at70, saved, bp06, keys, cpu, notified>>

BiosInt19 ==
  /\ stage = "int19" /\ ivt["v19"] = "rom"
  /\ stage' = "biosboot"
  /\ UNCHANGED <<opt, taken, at70, ivt, saved, bp06, keys, cpu, notified>>

(* fastboot_1: DOS is gone, its vectors and those of programs are cleared. *)
Cleared == [v \in Vectors |-> IF v = "v19" THEN OldInt19 ELSE IF v \in Zeroed THEN "null" ELSE ivt[v]]
fastboot_1 ==
  /\ stage = "back"
  /\ ivt' = Cleared
  /\ vme' = FALSE /\ vdsbit' = FALSE
  /\ notified' = notified + 1
  /\ stage' = "booting"
  /\ UNCHANGED <<opt, taken, at70, saved, bp06, keys>>

(* _Reboot and Int19_V86Entry: the JLMs are told, and the machine is reset *)
(* by the keyboard controller or by the BIOS.                              *)
Reboot ==
  /\ stage = "reboot"
  /\ notified' = notified + 1
  /\ vme' \in IF opt.alt THEN {vme, FALSE} ELSE {FALSE}
  /\ stage' = IF opt.alt THEN "kbcreset" ELSE "f000fff0"
  /\ UNCHANGED <<opt, taken, at70, ivt, saved, bp06, keys, vdsbit>>

Int19_V86Entry ==
  /\ stage = "run" /\ ivt["v19"] = "jemm"
  /\ stage' = "reboot"
  /\ UNCHANGED <<opt, taken, at70, ivt, saved, bp06, keys, cpu, notified>>

Monitor == SoftBoot \/ fastboot \/ DosInt19 \/ BiosInt19 \/ fastboot_1 \/ Reboot
RestartNext == Load \/ (\E v \in Vectors : Tsr(v)) \/ Int15_Entry \/ Int19_V86Entry \/ Monitor

RestartSpec == RestartInit /\ [][RestartNext]_restartVars /\ WF_restartVars(Monitor)
-----------------------------------------------------------------------------
Values == {"rom", "null", "dos", "tsr", "jemm", "bp"}
End == {"booting", "biosboot", "kbcreset", "f000fff0"}

(* The values the variables take; the first breakpoint is never taken for  *)
(* an invalid opcode ("lost") during a fast boot.                          *)
RestartTypeOK ==
  /\ \A v \in Vectors : ivt[v] \in Values \ {"bp"} \/ (v = "v19" /\ stage = "back")
  /\ stage \in {"dos", "run", "hookers", "fastboot", "int19", "back", "reboot"} \cup End
  /\ notified \in 0..1 /\ irq1 \in BOOLEAN /\ kbd \in BOOLEAN /\ vme \in BOOLEAN

(* What the comment before restorevecs asks of DOS: it hooks Int 19h and   *)
(* puts back every vector it changed before Jemm was loaded.               *)
DosHelps == "v19" \in taken /\ \A v \in taken \cap (Low \cup Mid \cup High) : at70[v] # "none"

(* When a fast boot loads the boot sector no vector of 00-7F leads to DOS, *)
(* to a program or to Jemm, whoever hooked it and when (restorevecs, the   *)
(* DOS handler of Int 19h and fastboot_1 each do a part).                  *)
BootClean ==
  stage = "booting" /\ DosHelps => \A v \in Vectors \ Rest : ivt[v] \in {"rom", "null"}

(* The comment "set vectors 20-3F, 60-67 and 78-FF to 0000:0000": none of  *)
(* them is left to a program after a fast boot.  The code clears 78-7F.    *)
AllCleared == stage = "booting" => \A v \in Zeroed \cup Rest : ivt[v] = "null"

(* restorevecs, fastboot and the ways of Ctrl-Alt-Del: a fast boot leaves  *)
(* no vector that leads into DOS, a program or Jemm, no VDS bit and no     *)
(* VME; whatever way the machine starts again, no keyboard interrupt waits *)
(* for its EOI, the keyboard works, and the JLMs were told exactly once    *)
(* unless the BIOS took Int 19h.                                           *)
StartsFresh ==
  /\ BootClean
  /\ stage \in End => ~irq1 /\ kbd
  /\ stage \in End \ {"biosboot"} => notified = 1
  /\ stage = "booting" => ~vme /\ ~vdsbit

(* Ctrl-Alt-Del always starts the machine again (the monitor goes on after *)
(* a nested interrupt, DOS and BIOS end theirs).                           *)
Pressed == stage = "hookers"
Restarted == stage \in End
Restarts == Pressed ~> Restarted
=============================================================================
