------------------------------- MODULE Device -------------------------------
(***************************************************************************)
(* The character device EMMXXXX0 (src/src/DEV.ASM) and what the command    *)
(* line does with it (IsJemmInstalled, EmmStatus, EmmUpdate in INIT16.ASM, *)
(* SetVME in JEMM32.ASM): requests with a function and a byte count, the   *)
(* switches they change, the state they report.                            *)
(***************************************************************************)
EXTENDS Naturals, FiniteSets

CONSTANTS
  Features,   (* sets of {"vme", "pge"}: what the CPU has                  *)
  Counts,     (* byte counts of requests                                   *)
  Values      (* of an option byte: 0, 1, Keep (0FFh), or what else comes  *)

Keep == 255
ASSUME DevAssumption ==
  /\ Features \subseteq SUBSET {"vme", "pge"}
  /\ Counts \subseteq Nat /\ Values \subseteq 0 .. 255
ReadFunctions == {0, 2, 4, 6, 7, 8}
Needed(fn) == CASE fn = 0 -> 6 [] fn = 2 -> 2 [] fn = 4 -> 4 [] fn = 6 -> 16 [] fn = 7 -> 32 [] OTHER -> 28

VARIABLES
  cpu,        (* dwFeatures                                                *)
  name,       (* what answers at the device name: jemm, another EMM, none  *)
  cr4,        (* the bits VME and PGE                                      *)
  bNoVCPI, bNoA20, bPageMask,
  gate,       (* the HMA as the PTEs show it                               *)
  asked,      (* the last request, with its count                          *)
  answer,     (* its status, and how many bytes were written               *)
  shown       (* what the command line displayed                           *)

switches == <<cr4, bNoVCPI, bNoA20, bPageMask, gate>>
devVars == <<cpu, name, switches, asked, answer, shown>>

Nothing == [fn |-> Keep, count |-> 0]
Unseen == [vme |-> 2, pge |-> 2, vcpi |-> 2, a20 |-> 2]
DevInit ==
  /\ cpu \in Features /\ name \in {"jemm", "other", "none"}
  /\ bNoVCPI \in {0, 1} /\ bNoA20 \in {0, 1}
  /\ gate = 1
  /\ bPageMask \in IF "pge" \in cpu THEN {0, 1} ELSE {0}
  /\ cr4 \in [vme: IF "vme" \in cpu THEN {0, 1} ELSE {0}, pge: {bPageMask}]
  /\ asked = Nothing /\ answer = [status |-> 256, bytes |-> 0] /\ shown = Unseen
-----------------------------------------------------------------------------
(* IoctlRead: each function asks for room for all it writes; function 6    *)
(* has a shorter form without the VCPI pages.                              *)
Written(fn, count) == IF fn = 6 /\ count >= 24 THEN 24 ELSE Needed(fn)
Fits(fn, count) == count >= Needed(fn)

Ok == 256        (* 0100h *)
ReadError == 33035   (* 810Bh *)
WriteError == 33034  (* 810Ah *)
Unknown == 33027     (* 8103h *)

IoctlRead(fn, count) ==
  /\ name = "jemm"
  /\ asked' = [fn |-> fn, count |-> count]
  /\ answer' = IF fn \in ReadFunctions /\ Fits(fn, count)
               THEN [status |-> Ok, bytes |-> Written(fn, count)]
               ELSE [status |-> ReadError, bytes |-> 0]
  /\ shown' = Unseen
  /\ UNCHANGED <<cpu, name, switches>>

(* EMMXXXX0_Interrupt, the other requests.                                 *)
Interrupt(cmd) ==
  /\ name = "jemm"
  /\ asked' = Nothing
  /\ answer' = [status |-> CASE cmd \in {"write", "writeverify", "writeflush"} -> WriteError
                             [] cmd \in {"writestatus", "open", "close"} -> Ok
                             [] OTHER -> Unknown, bytes |-> 0]
  /\ shown' = Unseen
  /\ UNCHANGED <<cpu, name, switches>>

(* SetVME: nothing on a CPU without it.                                    *)
SetVME(al) == IF "vme" \in cpu THEN al % 2 ELSE cr4.vme

(* The A20 option: the gate is opened before A20_Set stops doing so.       *)
UpdateA20_FlagFirst(al) ==   \* mutant: the flag is set first
  /\ bNoA20' = IF al = Keep THEN bNoA20 ELSE al
  /\ UNCHANGED gate

UpdateA20(al) ==
  /\ gate' = IF al \notin {Keep, 0} /\ bNoA20 = 0 THEN 1 ELSE gate
  /\ bNoA20' = IF al = Keep THEN bNoA20 ELSE al

(* IoctlWrite, function 15: the option bytes in the order VME, A20, VCPI,  *)
(* PGE.  A short request changes nothing.                                  *)
LongEnough(count) == count >= 5
PgeOff(o) == 1 - (o % 2)
Update(opt) ==
  /\ cr4' = [vme |-> IF opt.vme = Keep THEN cr4.vme ELSE SetVME(1 - (opt.vme % 2)),
             pge |-> IF opt.pge = Keep \/ "pge" \notin cpu THEN cr4.pge ELSE PgeOff(opt.pge)]
  /\ UpdateA20(opt.a20)
  /\ bNoVCPI' = IF opt.vcpi = Keep THEN bNoVCPI ELSE opt.vcpi
  /\ bPageMask' = IF opt.pge = Keep \/ "pge" \notin cpu THEN bPageMask ELSE PgeOff(opt.pge)

IoctlWrite(fn, count, opt) ==
  /\ name = "jemm"
  /\ asked' = [fn |-> fn, count |-> count]
  /\ IF fn = 15 /\ LongEnough(count)
     THEN Update(opt) /\ answer' = [status |-> Ok, bytes |-> 0]
     ELSE answer' = [status |-> WriteError, bytes |-> 0] /\ UNCHANGED switches
  /\ shown' = Unseen
  /\ UNCHANGED <<cpu, name>>

(* The XMS functions and the ports move the gate unless NOA20 is set.      *)
A20Moves ==
  /\ name = "jemm" /\ bNoA20 = 0 /\ gate' = 1 - gate
  /\ asked' = Nothing /\ answer' = [status |-> Ok, bytes |-> 0]
  /\ shown' = Unseen
  /\ UNCHANGED <<cpu, name, cr4, bNoVCPI, bNoA20, bPageMask>>
-----------------------------------------------------------------------------
(* The command line.  IsJemmInstalled: the device opens and its function 0 *)
(* answers with version 0028h; another EMM answers with its own.           *)
IsJemmInstalled == name = "jemm"

Options == [vme: Values, a20: Values, vcpi: Values, pge: Values]
EmmUpdate(opt) ==
  /\ IsJemmInstalled
  /\ Update(opt)
  /\ asked' = [fn |-> 15, count |-> 5] /\ answer' = [status |-> Ok, bytes |-> 0]
  /\ shown' = Unseen
  /\ UNCHANGED <<cpu, name>>

(* EmmStatus reads function 6: what IoctlRead finds in CR4 and its flags.  *)
E06 ==    (* what IoctlRead stores: No..., so that 1 means off         *)
  [vme |-> IF "vme" \in cpu THEN 1 - cr4.vme ELSE 1, pge |-> IF "pge" \in cpu THEN 1 - cr4.pge ELSE 1,
   vcpi |-> bNoVCPI, a20 |-> bNoA20]
EmmStatus ==
  /\ IsJemmInstalled
  /\ shown' = [o \in DOMAIN E06 |-> IF E06[o] # 0 THEN 0 ELSE 1]
  /\ asked' = [fn |-> 6, count |-> 24] /\ answer' = [status |-> Ok, bytes |-> 24]
  /\ UNCHANGED <<cpu, name, switches>>

NotInstalled ==
  /\ ~IsJemmInstalled /\ UNCHANGED devVars

DevNext ==
  \/ \E fn \in ReadFunctions \cup {1, 15}, n \in Counts : IoctlRead(fn, n)
  \/ \E fn \in {6, 15}, n \in Counts \cap 4..6, o \in Options : IoctlWrite(fn, n, o)
  \/ \E cmd \in {"write", "writeverify", "writeflush", "writestatus", "open", "close", "read"} : Interrupt(cmd)
  \/ \E o \in Options : EmmUpdate(o)
  \/ A20Moves \/ EmmStatus \/ NotInstalled

DevSpec == DevInit /\ [][DevNext]_devVars
-----------------------------------------------------------------------------
(* The values the variables take.                                          *)
DevTypeOK ==
  /\ cr4 \in [vme: {0, 1}, pge: {0, 1}] /\ bNoVCPI \in 0 .. 255 /\ bNoA20 \in 0 .. 255
  /\ bPageMask \in {0, 1} /\ gate \in {0, 1}
  /\ answer.status \in {Ok, ReadError, WriteError, Unknown}

(* The switches agree with each other and with the CPU: the mask for new   *)
(* page table entries has G exactly if CR4.PGE is set, neither bit is set  *)
(* on a CPU without it, and with A20 emulation off the gate is open for    *)
(* good, in whatever order options and XMS calls came, and whatever byte   *)
(* an option is; what the command line shows is what is in force.  No      *)
(* request, however short its buffer, is answered with more bytes than the *)
(* caller has room for.                                                    *)
SwitchesAgree ==
  /\ bPageMask = cr4.pge
  /\ ("pge" \notin cpu => cr4.pge = 0) /\ ("vme" \notin cpu => cr4.vme = 0)
  /\ bNoA20 # 0 => gate = 1
  /\ shown # Unseen => shown.vme = cr4.vme /\ shown.pge = bPageMask /\ (shown.a20 = 0 => gate = 1)
  /\ asked # Nothing => answer.bytes <= asked.count
=============================================================================
