-------------------------------- MODULE Vcpi --------------------------------
(***************************************************************************)
(* The VCPI server, src/src/VCPI.ASM: clients get a copy of page table 0,  *)
(* switch to protected mode and back with AX=DE0Ch, and ask for 4 KB pages *)
(* from both modes.  A switch is made of steps, because from one           *)
(* instruction to the next another page table, descriptor table or stack   *)
(* is in force; interrupts are off in all of them.                         *)
(***************************************************************************)
EXTENDS Naturals, FiniteSets

CONSTANTS
  Clients,      (* VCPI clients                                            *)
  PoolPages,    (* 4 KB pages of the pool                                  *)
  MaxMem4K,     (* dwMaxMem4K                                              *)
  MaxNest,      (* bound: monitor calls that a V86 handler interrupted     *)
  Frames,       (* what a page of the page frame may show                  *)
  Host          (* Jemm's own context                                      *)

(* The contexts and owners that are not clients.                           *)
Nobody == "nobody"
ASSUME VcpiAssumption ==
  /\ Host \notin Clients /\ Nobody \notin Clients \cup PoolPages
  /\ IsFiniteSet(PoolPages) /\ MaxMem4K \in Nat /\ MaxNest \in Nat

VARIABLES
  at,           (* which code runs: v86, pm, or a step of the server       *)
  cr3, gdtr, idtr, ldtr, tr,      (* whose tables the processor uses       *)
  busy,         (* whose TSS descriptors are marked busy                   *)
  ts,           (* CR0.TS                                                  *)
  fault,        (* the processor raised an exception in a switch           *)
  frame,        (* the page frame's entry in page table 0                  *)
  copy,         (* client -> what DE01h put in its own page table          *)
  nest,         (* monitor calls under way on the ring 0 stack             *)
  slot,         (* ring 0 stack: one place per call; dwStackCurr is behind *)
  owner,        (* page -> who has it, by the pool's bits                  *)
  used,         (* dwUsedMem4K                                             *)
  got,          (* pages the clients were told of                          *)
  call          (* function and answer of a call from protected mode       *)

tables == <<cr3, gdtr, idtr, ldtr, tr, busy, ts, fault>>
pool == <<owner, used, got>>
vcpiVars == <<at, cr3, gdtr, idtr, ldtr, tr, busy, ts, fault, frame, copy, nest, slot,
              owner, used, got, call>>

NoCall == [fn |-> 0, edx |-> Nobody]
NoCopy == [frame |-> Nobody, server |-> FALSE]

VcpiInit ==
  /\ at = "v86"
  /\ cr3 = Host /\ gdtr = Host /\ idtr = Host /\ ldtr = Host /\ tr = Host
  /\ busy = {Host} /\ ts = FALSE /\ fault = FALSE
  /\ frame \in Frames
  /\ copy = [c \in Clients |-> NoCopy]
  /\ nest = 0 /\ slot = [k \in 1 .. (MaxNest + 1) |-> Nobody]
  /\ owner = [p \in PoolPages |-> Nobody] /\ used = 0 /\ got = [c \in Clients |-> {}]
  /\ call = NoCall
-----------------------------------------------------------------------------
(* DE01h copies the entries of the V86 memory and of one page more, where  *)
(* the code of the switches is.                                            *)
VCPI_GetInterface(c) ==
  /\ at = "v86"
  /\ copy' = [copy EXCEPT ![c] = [frame |-> frame, server |-> TRUE]]
  /\ UNCHANGED <<at, tables, frame, nest, slot, pool, call>>

(* DE0Ch in V86 mode: the ring 0 frame of the int 67h is given up, the     *)
(* help stack taken, then the client's page directory.                     *)
VCPI_V86toPM(c) ==
  /\ at = "v86" /\ copy[c] # NoCopy
  /\ at' = "toPM" /\ cr3' = c
  /\ UNCHANGED <<gdtr, idtr, ldtr, tr, busy, ts, fault, frame, copy, nest, slot, pool, call>>

(* ltr: the descriptor must not be busy, and is then.                      *)
LoadTR(c, now) ==
  /\ fault' = (fault \/ c \in now)
  /\ busy' = now \cup {c}
  /\ tr' = c

(* The client's IDT, GDT and LDT; its TSS is busy if it was here before.   *)
ClientTables ==
  /\ at = "toPM"
  /\ at' = "pm" /\ idtr' = cr3 /\ gdtr' = cr3 /\ ldtr' = cr3
  /\ LoadTR(cr3, busy \ {cr3})
  /\ UNCHANGED <<cr3, ts, frame, copy, nest, slot, pool, call>>

(* DE0Ch in protected mode; the rest follows in Jemm's address space.      *)
VCPI_PMtoV86 ==
  /\ at = "pm"
  /\ at' = "toV86" /\ cr3' = Host
  /\ UNCHANGED <<gdtr, idtr, ldtr, tr, busy, ts, fault, frame, copy, nest, slot, pool, call>>

HostTables_NoClts ==   \* mutant: CR0.TS stays as the client's task switch left it
  /\ at = "toV86"
  /\ at' = "v86" /\ gdtr' = Host /\ idtr' = Host /\ ldtr' = Host
  /\ LoadTR(Host, busy \ {Host})
  /\ UNCHANGED <<cr3, ts, frame, copy, nest, slot, pool, call>>

HostTables ==
  /\ at = "toV86"
  /\ at' = "v86" /\ gdtr' = Host /\ idtr' = Host /\ ldtr' = Host
  /\ LoadTR(Host, busy \ {Host})
  /\ ts' = FALSE
  /\ UNCHANGED <<cr3, frame, copy, nest, slot, pool, call>>
-----------------------------------------------------------------------------
(* DE04h and DE05h: the limit first, then the pool.                        *)
FreePages == {p \in PoolPages : owner[p] = Nobody}
VCPI_Allocate4K(c, p) ==
  /\ used < MaxMem4K /\ p \in FreePages
  /\ owner' = [owner EXCEPT ![p] = c] /\ used' = used + 1

VCPI_Free4K_Uncounted(c, p) ==   \* mutant: dwUsedMem4K is not decremented
  /\ owner[p] = c
  /\ owner' = [owner EXCEPT ![p] = Nobody] /\ UNCHANGED used
VCPI_Free4K(c, p) ==
  /\ owner[p] = c
  /\ owner' = [owner EXCEPT ![p] = Nobody] /\ used' = used - 1

(* Both from V86 mode, where the answer is seen at once.                   *)
AllocateV86(c, p) ==
  /\ at = "v86" /\ VCPI_Allocate4K(c, p)
  /\ got' = [got EXCEPT ![c] = @ \cup {p}]
  /\ UNCHANGED <<at, tables, frame, copy, nest, slot, call>>
FreeV86(c, p) ==
  /\ at = "v86" /\ p \in got[c] /\ VCPI_Free4K(c, p)
  /\ got' = [got EXCEPT ![c] = @ \ {p}]
  /\ UNCHANGED <<at, tables, frame, copy, nest, slot, call>>

(* VCPI_PM_Entry, still in the client's address space; only DE03h, DE04h   *)
(* and DE05h go further.  A client frees a page that it has.               *)
VCPI_PM_Entry(fn, p) ==
  /\ at = "pm"
  /\ fn = 5 => p \in got[cr3]
  /\ fn # 5 => p = Nobody
  /\ at' = "entry" /\ call' = [fn |-> fn, edx |-> p]
  /\ UNCHANGED <<tables, frame, copy, nest, slot, pool>>

HostStack == nest + 1

(* Jemm's stack, at dwStackCurr, and its page directory, with the client's *)
(* SS:ESP and CR3 saved on that stack.                                     *)
EnterHost ==
  /\ at = "entry"
  /\ at' = "host" /\ cr3' = Host
  /\ slot' = [slot EXCEPT ![HostStack] = cr3]
  /\ UNCHANGED <<gdtr, idtr, ldtr, tr, busy, ts, fault, frame, copy, nest, pool, call>>

ServeFree ==
  /\ at = "host" /\ call.fn = 3 /\ UNCHANGED <<owner, used, call>>
ServeAllocate ==
  /\ at = "host" /\ call.fn = 4
  /\ \E p \in PoolPages : VCPI_Allocate4K(slot[HostStack], p) /\ call' = [call EXCEPT !.edx = p]
ServeFailed ==
  /\ at = "host" /\ call.fn = 4 /\ (used >= MaxMem4K \/ FreePages = {})
  /\ UNCHANGED <<owner, used, call>>
ServeRelease ==
  /\ at = "host" /\ call.fn = 5 /\ VCPI_Free4K(slot[HostStack], call.edx)
  /\ UNCHANGED call
Serve ==
  /\ ServeFree \/ ServeAllocate \/ ServeFailed \/ ServeRelease
  /\ at' = "served"
  /\ UNCHANGED <<tables, frame, copy, nest, slot, got>>

(* CR3 first, then SS:ESP; of the registers only EDX and AH are new.       *)
Told(c) == CASE call.fn = 4 /\ call.edx # Nobody -> got[c] \cup {call.edx}
             [] call.fn = 5 -> got[c] \ {call.edx}
             [] OTHER -> got[c]
LeaveHost ==
  /\ at = "served"
  /\ at' = "pm" /\ cr3' = slot[HostStack]
  /\ slot' = [slot EXCEPT ![HostStack] = Nobody]
  /\ got' = [got EXCEPT ![slot[HostStack]] = Told(slot[HostStack])]
  /\ call' = NoCall
  /\ UNCHANGED <<gdtr, idtr, ldtr, tr, busy, ts, fault, frame, copy, nest, owner, used>>
-----------------------------------------------------------------------------
(* A client switches tasks in protected mode; EMS maps a page; a monitor   *)
(* call lets interrupts in, and the V86 handler runs on top of it.         *)
TaskSwitch == /\ at = "pm" /\ ts' = TRUE
              /\ UNCHANGED <<at, cr3, gdtr, idtr, ldtr, tr, busy, fault, frame, copy, nest, slot, pool, call>>
MapPage(f) == /\ at = "v86" /\ frame' = f
              /\ UNCHANGED <<at, tables, copy, nest, slot, pool, call>>
Begin_Nest_Exec ==
  /\ at = "v86" /\ nest < MaxNest
  /\ nest' = nest + 1 /\ slot' = [slot EXCEPT ![nest + 1] = "monitor"]
  /\ UNCHANGED <<at, tables, frame, copy, pool, call>>
End_Nest_Exec ==
  /\ at = "v86" /\ nest > 0
  /\ nest' = nest - 1 /\ slot' = [slot EXCEPT ![nest] = Nobody]
  /\ UNCHANGED <<at, tables, frame, copy, pool, call>>

VcpiNext ==
  \/ \E c \in Clients : VCPI_GetInterface(c) \/ VCPI_V86toPM(c)
  \/ ClientTables \/ VCPI_PMtoV86 \/ HostTables
  \/ \E c \in Clients, p \in PoolPages : AllocateV86(c, p) \/ FreeV86(c, p)
  \/ \E fn \in 3 .. 5, p \in PoolPages \cup {Nobody} : VCPI_PM_Entry(fn, p)
  \/ EnterHost \/ Serve \/ LeaveHost
  \/ TaskSwitch \/ \E f \in Frames : MapPage(f)
  \/ Begin_Nest_Exec \/ End_Nest_Exec

VcpiSpec == VcpiInit /\ [][VcpiNext]_vcpiVars
-----------------------------------------------------------------------------
(* Types, and: memory of the pool is counted while it is given out.        *)
VcpiTypeOK ==
  /\ at \in {"v86", "toPM", "pm", "toV86", "entry", "host", "served"}
  /\ {cr3, gdtr, idtr, ldtr, tr} \cup busy \subseteq Clients \cup {Host}
  /\ nest \in 0 .. MaxNest /\ ts \in BOOLEAN /\ fault \in BOOLEAN
  /\ owner \in [PoolPages -> Clients \cup {Nobody}]
  /\ used = Cardinality({p \in PoolPages : owner[p] # Nobody}) /\ used <= MaxMem4K

(* In V86 mode and in a client's code the processor runs wholly in one     *)
(* context, and no switch raised an exception: a TSS left busy by an       *)
(* earlier switch, of the client or of Jemm, makes ltr fault, and CR0.TS   *)
(* left by a client's task switch the next FPU instruction.                *)
ContextWhole ==
  /\ ~fault
  /\ at = "v86" => {cr3, gdtr, idtr, ldtr, tr} = {Host} /\ ~ts
  /\ at = "pm" => {cr3, gdtr, idtr, ldtr, tr} = {tr} /\ tr \in Clients

(* "The following 3 procs must be located in the first page": the server's *)
(* instructions run in the client's address space before or after CR3 is   *)
(* loaded, so that page must be in it; the page pool's code and data are   *)
(* only used in Jemm's.                                                    *)
CodeReachable ==
  /\ at \in {"toPM", "entry"} => cr3 \in Clients /\ copy[cr3].server
  /\ at \in {"host", "served", "toV86"} => cr3 = Host

(* A client that runs in a V86 interrupt handler, and its calls from       *)
(* protected mode, leave the monitor calls below it on the ring 0 stack as *)
(* they are.                                                               *)
CallsBelowKept == \A k \in 1 .. nest : slot[k] = "monitor"

(* A page taken for a client is one it knows of, and none is taken back    *)
(* behind it, also when the answer crosses the address spaces.             *)
PagesKnown ==
  at \notin {"host", "served"} => \A c \in Clients : got[c] = {p \in PoolPages : owner[p] = c}

(* VCPI_V86toPM, VCPI_PMtoV86, VCPI_PM_Entry: from one instruction of a    *)
(* switch to the next the code is mapped, and after it one context is in   *)
(* force; what was under way below stays, and pages given out are known.   *)
SwitchWhole == ContextWhole /\ CodeReachable /\ CallsBelowKept /\ PagesKnown
=============================================================================
