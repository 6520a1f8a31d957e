------------------------------ MODULE Resident ------------------------------
(***************************************************************************)
(* The part of Jemm that stays in DOS memory (src/src/JEMM16.ASM, the end  *)
(* of InitMonitor in INIT.ASM, TryUnload in INIT16.ASM): how the XBDA, the *)
(* conventional memory and the resident part are laid out over the UMBs,   *)
(* how interrupt vectors and the driver chain are taken over, what         *)
(* programs then build on top of it, and how UNLOAD takes it away again.   *)
(* Memory is counted in KB, a segment is the KB it begins at.              *)
(***************************************************************************)
EXTENDS Integers, FiniteSetsExt, SequencesExt

CONSTANTS
  Machines,   (* mode: sys or exe; top: 40:13; xbda: its size; umbs; size  *)
              (* of the resident part; nohi, movexbda; ctrl: the XMS       *)
              (* handle that holds the monitor; emm: another EMM is there  *)
  Programs    (* what is started afterwards: a driver, a TSR ...           *)

IntVecs == {"int15", "int67"}               (* checked, hooked: intvecs    *)
WithOld == {"int15"}                        (* those with a wOld           *)
Vectors == IntVecs \cup {"int4B"}
VideoEnd == 768                             (* C000h                       *)
UMB_ALLOCATED == 512                        (* bit 15 of wSize             *)
Word(n) == n % 1024                         (* wSize is 16 bits            *)
Handles == 1..3                             (* of the XMS handle array     *)
Nobody == "nobody"

VARIABLES
  mach, phase,
  top,       (* 40:13, the KB of conventional memory                       *)
  last,      (* where the last low MCB ends                                *)
  xbda,      (* where 40:0E says the XBDA is                               *)
  umb,       (* UMBsegments                                                *)
  res,       (* where the resident part runs: ResUMB, or 0 for low memory  *)
  low,       (* who owns the DOS block it was loaded into                  *)
  files,     (* the files of its PSP are open                              *)
  ivt, prev, (* owner of a vector; what each owner found there             *)
  entry,     (* who answers at the XMS entry                               *)
  chain,     (* the DOS driver chain behind NUL                            *)
  emb,       (* XMS handle array: owners                                   *)
  ems,       (* programs with an EMS handle                                *)
  umbOwner   (* blocks of umb that programs got                            *)

place == <<top, last, xbda, umb, res>>
dos == <<low, files, chain>>
hooks == <<ivt, prev, entry>>
clients == <<emb, ems, umbOwner>>
vars == <<mach, phase, place, dos, hooks, clients>>

Init ==
  /\ mach \in Machines
  /\ phase = "absent"
  /\ top = mach.top /\ last = mach.top /\ xbda = mach.top
  /\ umb = mach.umbs /\ res = 0
  /\ low = "loader" /\ files = TRUE
  /\ ivt = [v \in Vectors |-> IF v = "int67" /\ mach.emm THEN "emm" ELSE "bios"]
  /\ prev = [o \in Programs \cup {"jemm"} |-> [v \in Vectors |-> Nobody]]
  /\ entry = Nobody /\ chain = <<"con">>
  /\ emb = [h \in Handles |-> Nobody] /\ ems = {} /\ umbOwner = <<>>
-----------------------------------------------------------------------------
(* EmmInstallcheck in start and driver_entry: a signature behind Int 67h.  *)
Start ==
  /\ phase = "absent"
  /\ phase' = IF ivt["int67"] \in {"emm", "jemm"} THEN "failed" ELSE "save"
  /\ UNCHANGED <<mach, place, dos, hooks, clients>>

(* InitJemm stores the old vectors, InitMonitor those of its own handlers, *)
(* VDS_Init takes Int 4Bh; the monitor has its XMS handle by now.          *)
VDS_Init == [ivt EXCEPT !["int4B"] = "jemm"]

SaveVectors ==
  /\ phase = "save" /\ phase' = "xbda"
  /\ prev' = [prev EXCEPT !["jemm"] = ivt]
  /\ ivt' = VDS_Init
  /\ emb' = [emb EXCEPT ![mach.ctrl] = "jemm"]
  /\ UNCHANGED <<mach, place, dos, entry, ems, umbOwner>>

(* MOVEXBDA: the XBDA just above conventional memory moves to the begin of *)
(* the first UMB, or of the second if the first is in the video range.     *)
XbdaUmb == IF umb[1].seg < VideoEnd /\ Len(umb) > 1 THEN 2 ELSE 1
XbdaFits_Any ==    \* mutant: a UMB that is too small is taken as well
  umb # <<>>

XbdaFits == umb # <<>> /\ umb[XbdaUmb].size >= mach.xbda
MoveXbda ==
  /\ phase = "xbda" /\ phase' = "addconv"
  /\ IF mach.movexbda /\ mach.xbda > 0 /\ XbdaFits
     THEN /\ top' = top + mach.xbda
          /\ xbda' = umb[XbdaUmb].seg
          /\ umb' = [umb EXCEPT ![XbdaUmb] = [seg |-> @.seg + mach.xbda, size |-> @.size - mach.xbda]]
     ELSE UNCHANGED <<top, xbda, umb>>
  /\ UNCHANGED <<mach, last, res, dos, hooks, clients>>

(* ADDCONV: a first UMB at the top of conventional memory is added to it.  *)
AtTop == umb # <<>> /\ umb[1].seg = top
AddConv ==
  /\ phase = "addconv" /\ phase' = "high"
  /\ IF AtTop
     THEN /\ top' = top + umb[1].size
          /\ umb' = [umb EXCEPT ![1].size = Word(@ + UMB_ALLOCATED)]
     ELSE UNCHANGED <<top, umb>>
  /\ UNCHANGED <<mach, last, xbda, res, dos, hooks, clients>>

(* MOVEHIGH: the resident part goes to the first UMB that is left.         *)
HighUmb == IF umb # <<>> /\ umb[1].size >= UMB_ALLOCATED THEN 2 ELSE 1
MoveHigh ==
  /\ phase = "high" /\ phase' = "hook"
  /\ IF ~mach.nohi /\ HighUmb <= Len(umb)
     THEN /\ res' = umb[HighUmb].seg
          /\ umb' = [umb EXCEPT ![HighUmb] = [seg |-> @.seg + mach.size, size |-> Word(@.size - mach.size)]]
     ELSE UNCHANGED <<res, umb>>
  /\ UNCHANGED <<mach, top, last, xbda, dos, hooks, clients>>

(* Back in InitJemm, in V86 mode: the vectors of intvecs.                  *)
SetVectors ==
  /\ phase = "hook" /\ phase' = "endinit"
  /\ ivt' = [v \in Vectors |-> IF v \in IntVecs THEN "jemm" ELSE ivt[v]]
  /\ entry' = "jemm"
  /\ UNCHANGED <<mach, place, dos, prev, clients>>

(* endinit: the last MCB grows with conventional memory; a resident part   *)
(* that moved high is linked now.                                          *)
LinkChain == chain' = <<"jemm">> \o chain
Grown == IF top > last THEN top ELSE last
EndInit ==
  /\ phase = "endinit" /\ phase' = "exit"
  /\ last' = Grown
  /\ IF res # 0 THEN LinkChain ELSE UNCHANGED chain
  /\ UNCHANGED <<mach, top, xbda, umb, res, low, files, hooks, clients>>

(* start: a program that moved high ends; else its files are closed, it is *)
(* linked as a driver and stays in memory.                                 *)
start ==
  /\ phase = "exit" /\ mach.mode = "exe" /\ phase' = "loaded"
  /\ IF res # 0 THEN low' = "free" /\ UNCHANGED chain
     ELSE low' = "jemm" /\ LinkChain
  /\ files' = FALSE
  /\ UNCHANGED <<mach, place, hooks, clients>>

(* driver_entry: DOS links the driver and keeps what ends at endaddr;      *)
(* nothing if that is 0, as it is for one that moved high.                 *)
driver_entry ==
  /\ phase = "exit" /\ mach.mode = "sys" /\ phase' = "loaded"
  /\ IF res # 0 THEN low' = "free" /\ UNCHANGED chain
     ELSE low' = "dos" /\ chain' = <<"jemm">> \o chain
  /\ UNCHANGED <<files, mach, place, hooks, clients>>
-----------------------------------------------------------------------------
(* Programs that were started: what they hook and what they allocate.      *)
Hook(p, v) ==
  /\ phase = "loaded" /\ ivt[v] # p /\ prev[p][v] = Nobody
  /\ prev' = [prev EXCEPT ![p][v] = ivt[v]]
  /\ ivt' = [ivt EXCEPT ![v] = p]
  /\ UNCHANGED <<mach, phase, place, dos, entry, clients>>

Unhook(p, v) ==
  /\ phase \in {"loaded", "gone"} /\ ivt[v] = p
  /\ ivt' = [ivt EXCEPT ![v] = prev[p][v]]
  /\ prev' = [prev EXCEPT ![p][v] = Nobody]
  /\ UNCHANGED <<mach, phase, place, dos, entry, clients>>

HookXms(p) ==
  /\ phase = "loaded" /\ entry = "jemm" /\ entry' = p
  /\ UNCHANGED <<mach, phase, place, dos, ivt, prev, clients>>

LoadDriver(p) ==
  /\ phase = "loaded" /\ ~ Contains(chain, p)
  /\ chain' = <<p>> \o chain
  /\ UNCHANGED <<mach, phase, place, low, files, hooks, clients>>

TakeEmb(p) ==
  /\ phase = "loaded" /\ p \notin {emb[h] : h \in Handles}
  /\ \E h \in Handles : emb[h] = Nobody /\ emb' = [emb EXCEPT ![h] = p]
  /\ UNCHANGED <<mach, phase, place, dos, hooks, ems, umbOwner>>

TakeUmb(i) ==
  /\ phase = "loaded" /\ umb[i].size \in 1..(UMB_ALLOCATED - 1)
  /\ umb' = [umb EXCEPT ![i].size = Word(@ + UMB_ALLOCATED)]
  /\ umbOwner' = Append(umbOwner, i)
  /\ UNCHANGED <<mach, phase, top, last, xbda, res, dos, hooks, emb, ems>>

OpenEms(p) ==
  /\ phase = "loaded" /\ p \notin ems /\ ems' = ems \cup {p}
  /\ UNCHANGED <<mach, phase, place, dos, hooks, emb, umbOwner>>

(* A program ends: DOS and the program itself give back what it held.      *)
Release(p) ==
  /\ phase = "loaded"
  /\ p \in {emb[h] : h \in Handles} \cup ems
  /\ emb' = [h \in Handles |-> IF emb[h] = p THEN Nobody ELSE emb[h]]
  /\ ems' = ems \ {p}
  /\ UNCHANGED <<mach, phase, place, dos, hooks, umbOwner>>
-----------------------------------------------------------------------------
(* UNLOAD.  CheckIntHooks, then the UMBs, the XMS entry, the handles behind *)
(* the first one, the EMS handles but the system's.                        *)
CheckIntHooks_No67 ==   \* mutant: only the vectors with an old value
  \A v \in WithOld : ivt[v] = "jemm"

CheckIntHooks == \A v \in IntVecs \cup {"int4B"} : ivt[v] = "jemm"

UmbsUnused == \A i \in DOMAIN umb : umb[i].size < UMB_ALLOCATED
EmbsUnused == \A h \in Handles \ {1} : emb[h] = Nobody
EmsUnused == ems = {}

TryUnload ==
  phase = "loaded" /\ CheckIntHooks /\ UmbsUnused /\ entry = "jemm" /\ EmbsUnused /\ EmsUnused

(* UnloadJemm, then Unload and VDS_Exit in the monitor.                    *)
Unlinked_Rest(c) ==    \* mutant: the chain begins behind the driver
  SubSeq(c, 2, Len(c))

Unlinked(c) == SelectSeq(c, LAMBDA d : d # "jemm")

VectorsBack == [v \in Vectors |-> IF v \in WithOld THEN prev["jemm"][v] ELSE ivt[v]]
Unload(i) == [v \in Vectors |-> IF v \in WithOld THEN i[v] ELSE prev["jemm"][v]]

UnloadJemm ==
  /\ TryUnload
  /\ Contains(chain, "jemm") /\ chain' = Unlinked(chain)
  /\ ivt' = Unload(VectorsBack)
  /\ low' = IF low = "jemm" /\ ~files THEN "unloader" ELSE low
  /\ emb' = [h \in Handles |-> Nobody] /\ entry' = Nobody
  /\ phase' = "gone"
  /\ UNCHANGED <<mach, place, files, prev, ems, umbOwner>>

NotUnloaded ==
  /\ phase = "loaded" /\ ~TryUnload
  /\ UNCHANGED vars

(* The program that unloaded Jemm ends, DOS frees the block it now owns.   *)
UnloaderExit ==
  /\ phase = "gone" /\ low = "unloader" /\ low' = "free"
  /\ UNCHANGED <<mach, phase, place, files, chain, hooks, clients>>

Program(p) ==
  \/ \E v \in Vectors : Hook(p, v) \/ Unhook(p, v)
  \/ HookXms(p) \/ LoadDriver(p) \/ TakeEmb(p) \/ OpenEms(p) \/ Release(p)

Next ==
  \/ Start \/ SaveVectors \/ MoveXbda \/ AddConv \/ MoveHigh \/ SetVectors \/ EndInit \/ start \/ driver_entry
  \/ \E p \in Programs : Program(p)
  \/ \E i \in DOMAIN umb : TakeUmb(i)
  \/ UnloadJemm \/ NotUnloaded \/ UnloaderExit

Spec == Init /\ [][Next]_vars
-----------------------------------------------------------------------------
Owners == Programs \cup {"jemm", "bios", "emm"}

(* The values the variables take; a vector always has an owner.            *)
ResTypeOK ==
  /\ phase \in {"absent", "failed", "save", "xbda", "addconv", "high", "hook", "endinit", "exit", "loaded", "gone"}
  /\ top \in 1..1023 /\ last \in 1..1023 /\ xbda \in 1..1023 /\ res \in 0..1023
  /\ \A i \in DOMAIN umb : umb[i].seg \in 640..1023 /\ umb[i].size \in 0..1023
  /\ low \in {"loader", "jemm", "dos", "unloader", "free"} /\ files \in BOOLEAN
  /\ \A v \in Vectors : ivt[v] \in Owners
  /\ entry \in Programs \cup {"jemm", Nobody}
  /\ \A h \in Handles : emb[h] \in Programs \cup {"jemm", Nobody}

Extent(seg, size) == seg..(seg + size - 1)
Pages(i) == Extent(mach.umbs[i].seg, mach.umbs[i].size)
UmbPages == UNION {Pages(i) : i \in DOMAIN mach.umbs}
Offered == {i \in DOMAIN umb : ~(i = 1 /\ top > 640 /\ umb[1].seg < top)}
Given(i) == Extent(umb[i].seg, umb[i].size % UMB_ALLOCATED)
Xbda == IF mach.xbda = 0 THEN {} ELSE Extent(xbda, mach.xbda)
High == IF res = 0 THEN {} ELSE Extent(res, mach.size)

(* Once Jemm is loaded, conventional memory, the XBDA, a resident part     *)
(* that moved high and every UMB a program can get are apart from each     *)
(* other, and what is in upper memory is where UMB pages are mapped        *)
(* (the end of InitMonitor moves all of them over one table).              *)
LaidApart ==
  phase \in {"hook", "endinit", "exit", "loaded"} =>
    /\ 0..(top - 1) \cap (Xbda \cup High) = {}
    /\ Xbda \cap High = {}
    /\ High \subseteq UmbPages
    /\ \A n \in 640..(top - 1) : n \in UmbPages
    /\ \A i \in Offered :
         /\ Given(i) \subseteq UmbPages
         /\ Given(i) \cap (0..(top - 1) \cup Xbda \cup High) = {}

(* Programs are told of exactly the conventional memory DOS manages: the   *)
(* last MCB ends at what 40:13 says (endinit).                             *)
MemoryCounted == phase \in {"exit", "loaded"} => last = top

(* After UNLOAD nothing leads into Jemm any more: no vector and no vector  *)
(* a program saved, no driver in the chain; and no program still has an    *)
(* EMB, a UMB or an EMS handle of it (TryUnload, UnloadJemm).              *)
NobodyStranded ==
  phase = "gone" =>
    /\ \A v \in Vectors : ivt[v] # "jemm" /\ \A p \in Programs : prev[p][v] # "jemm"
    /\ ~ Contains(chain, "jemm")
    /\ umbOwner = <<>> /\ ems = {} /\ \A h \in Handles : emb[h] \notin Programs

(* Drivers that were loaded after Jemm stay in the chain when it goes, and *)
(* those of DOS do (the chain is repaired from Jemm's own header).         *)
DriversKept == \A d \in Range(chain) \ {"jemm"} : d \in Range(chain')

(* The DOS block of a Jemm that was loaded from the command line is free   *)
(* once UNLOAD has ended (UnloadJemm hands it to the unloading program).   *)
BlockReturned ==
  phase = "gone" /\ mach.mode = "exe" => low \in {"unloader", "free"}

(* A Jemm whose monitor has the first XMS handle and that nobody uses is   *)
(* unloaded on request.                                                    *)
Idle ==
  /\ phase = "loaded" /\ mach.ctrl = 1 /\ top <= 640
  /\ umbOwner = <<>> /\ ems = {} /\ {emb[h] : h \in Handles} \cap Programs = {}
  /\ entry = "jemm" /\ \A p \in Programs, v \in Vectors : prev[p][v] = Nobody
IdleUnloads == Idle => TryUnload /\ Contains(chain, "jemm")

(* TryUnload's ";-- ok to unload.": while Jemm runs and after it was       *)
(* unloaded, 40:0E names memory that exists.  After MOVEXBDA it does not:  *)
(* the XBDA stays in a UMB whose pages are gone.                           *)
XbdaStays ==
  mach.xbda > 0 => IF phase = "gone" THEN xbda < 640 ELSE Xbda \subseteq 0..639 \cup UmbPages
=============================================================================
