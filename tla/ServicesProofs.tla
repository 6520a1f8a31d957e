--------------------------- MODULE ServicesProofs ---------------------------
(***************************************************************************)
(* Proofs about the VCPI server and the character device.  VCPI: after     *)
(* every switch one context is wholly in force, whatever the clients do    *)
(* and however many monitor calls lie below, and the pool's books agree    *)
(* with what the clients were told.  EMMXXXX0: the switches agree with     *)
(* each other and with the CPU, whatever options and requests come.        *)
(***************************************************************************)
EXTENDS Vcpi, Device, FiniteSetTheorems, TLAPS

(* Clients that have asked for the interface; a client's pages.            *)
Served == {c \in Clients : copy[c].server}
Mine(c) == {p \in PoolPages : owner[p] = c}
Taken == {p \in PoolPages : owner[p] # Nobody}
Caller == slot[HostStack]
TablesOf(c) == gdtr = c /\ idtr = c /\ ldtr = c /\ tr = c

VTypes ==
  /\ at \in {"v86", "toPM", "pm", "toV86", "entry", "host", "served"}
  /\ cr3 \in Clients \cup {Host} /\ gdtr \in Clients \cup {Host}
  /\ idtr \in Clients \cup {Host} /\ ldtr \in Clients \cup {Host}
  /\ tr \in Clients \cup {Host} /\ busy \subseteq Clients \cup {Host}
  /\ ts \in BOOLEAN /\ fault \in BOOLEAN
  /\ frame \in Frames
  /\ copy \in [Clients -> [frame : Frames \cup {Nobody}, server : BOOLEAN]]
  /\ nest \in 0 .. MaxNest
  /\ slot \in [1 .. MaxNest + 1 -> Clients \cup {"monitor", Nobody}]
  /\ owner \in [PoolPages -> Clients \cup {Nobody}]
  /\ got \in [Clients -> SUBSET PoolPages]
  /\ call \in [fn : {0} \cup 3 .. 5, edx : PoolPages \cup {Nobody}]

(* Whose tables are in force at each step of a switch.                     *)
VContext ==
  /\ ~fault
  /\ \A c \in Clients : copy[c] = NoCopy \/ copy[c].server
  /\ at = "v86" => cr3 = Host /\ TablesOf(Host) /\ ~ts
  /\ at = "toPM" => cr3 \in Served
  /\ at \in {"pm", "entry"} => cr3 \in Served /\ TablesOf(cr3)
  /\ at \in {"host", "served"} => cr3 = Host /\ Caller \in Served /\ TablesOf(Caller)
  /\ at = "toV86" => cr3 = Host

(* The answer of a call has crossed the address spaces only in LeaveHost.  *)
Asked(c) == IF call.fn = 5 THEN call.edx \in got[c] ELSE call.edx = Nobody
VPool ==
  /\ used = Cardinality(Taken) /\ used <= MaxMem4K
  /\ at = "entry" => Asked(cr3)
  /\ at = "host" => Asked(Caller)
  /\ \A c \in Clients :
       Mine(c) = IF at = "served" /\ c = Caller THEN Told(c) ELSE got[c]

VInv == VTypes /\ VContext /\ CallsBelowKept /\ VPool
-----------------------------------------------------------------------------
(* The invariant gives what the run checks of a switch.                    *)
LEMMA VInvMeansWhole ==
  ASSUME VInv
  PROVE  SwitchWhole /\ VcpiTypeOK
<1>1. ContextWhole
  BY DEF VInv, VTypes, VContext, ContextWhole, TablesOf, Served
<1>2. CodeReachable
  BY DEF VInv, VTypes, VContext, CodeReachable, TablesOf, Served
<1>3. PagesKnown
  BY DEF VInv, VTypes, VPool, PagesKnown, Mine
<1>4. VcpiTypeOK
  BY DEF VInv, VTypes, VPool, VcpiTypeOK, Taken
<1> QED
  BY <1>1, <1>2, <1>3, <1>4 DEF SwitchWhole, VInv

(* At the start Jemm's context is in force and no page is taken.           *)
LEMMA VInitInv ==
  ASSUME VcpiInit
  PROVE  VInv
<1>1. VTypes
  <2>1. copy \in [Clients -> [frame : Frames \cup {Nobody}, server : BOOLEAN]]
    BY DEF VcpiInit, NoCopy
  <2>2. slot \in [1 .. MaxNest + 1 -> Clients \cup {"monitor", Nobody}] /\ nest \in 0 .. MaxNest
    BY VcpiAssumption DEF VcpiInit
  <2>3. call \in [fn : {0} \cup 3 .. 5, edx : PoolPages \cup {Nobody}]
    BY DEF VcpiInit, NoCall
  <2> QED
    BY <2>1, <2>2, <2>3 DEF VcpiInit, VTypes
<1>2. VContext
  BY DEF VcpiInit, VContext, TablesOf
<1>3. CallsBelowKept
  BY DEF VcpiInit, CallsBelowKept
<1>4. VPool
  <2>1. Taken = {}
    BY DEF VcpiInit, Taken
  <2>2. Cardinality({}) = 0
    BY FS_EmptySet
  <2>3. ASSUME NEW c \in Clients PROVE Mine(c) = got[c]
    BY VcpiAssumption DEF VcpiInit, Mine
  <2> QED
    BY VcpiAssumption, <2>1, <2>2, <2>3 DEF VPool, VcpiInit
<1> QED
  BY <1>1, <1>2, <1>3, <1>4 DEF VInv
-----------------------------------------------------------------------------
(* Steps that leave the pool, the clients' pages and the call alone keep   *)
(* its books, unless they begin or end the service of a call.              *)
LEMMA BooksKept ==
  ASSUME VPool, UNCHANGED <<pool, call>>,
         at # "served", at' \notin {"entry", "host", "served"}
  PROVE  VPool'
  BY DEF VPool, pool, Mine, Taken

(* DE01h.                                                                  *)
LEMMA GetInterfaceKeeps ==
  ASSUME VInv, NEW c \in Clients, VCPI_GetInterface(c)
  PROVE  VInv'
<1> USE DEF VInv
<1>1. VTypes'
  BY DEF VTypes, VCPI_GetInterface, tables, pool
<1>2. VContext'
  BY DEF VTypes, VContext, VCPI_GetInterface, tables, TablesOf
<1>3. CallsBelowKept'
  BY DEF CallsBelowKept, VCPI_GetInterface
<1>4. VPool'
  BY BooksKept DEF VCPI_GetInterface
<1> QED
  BY <1>1, <1>2, <1>3, <1>4

(* DE0Ch in V86 mode, up to the client's page directory.                   *)
LEMMA ToPMKeeps ==
  ASSUME VInv, NEW c \in Clients, VCPI_V86toPM(c)
  PROVE  VInv'
<1> USE DEF VInv
<1>1. VTypes'
  BY DEF VTypes, VCPI_V86toPM, pool
<1>2. VContext'
  BY DEF VTypes, VContext, VCPI_V86toPM, Served
<1>3. CallsBelowKept'
  BY DEF CallsBelowKept, VCPI_V86toPM
<1>4. VPool'
  BY BooksKept DEF VCPI_V86toPM
<1> QED
  BY <1>1, <1>2, <1>3, <1>4

(* The client's tables.                                                    *)
LEMMA ClientTablesKeep ==
  ASSUME VInv, ClientTables
  PROVE  VInv'
<1> USE DEF VInv
<1>1. VTypes'
  BY DEF VTypes, ClientTables, LoadTR, pool
<1>2. VContext'
  BY DEF VTypes, VContext, ClientTables, LoadTR, Served, TablesOf
<1>3. CallsBelowKept'
  BY DEF CallsBelowKept, ClientTables
<1>4. VPool'
  BY BooksKept DEF ClientTables
<1> QED
  BY <1>1, <1>2, <1>3, <1>4

(* DE0Ch in protected mode, up to Jemm's page directory.                   *)
LEMMA ToV86Keeps ==
  ASSUME VInv, VCPI_PMtoV86
  PROVE  VInv'
<1> USE DEF VInv
<1>1. VTypes'
  BY DEF VTypes, VCPI_PMtoV86, pool
<1>2. VContext'
  BY DEF VTypes, VContext, VCPI_PMtoV86
<1>3. CallsBelowKept'
  BY DEF CallsBelowKept, VCPI_PMtoV86
<1>4. VPool'
  BY BooksKept DEF VCPI_PMtoV86
<1> QED
  BY <1>1, <1>2, <1>3, <1>4

(* Jemm's tables.                                                          *)
LEMMA HostTablesKeep ==
  ASSUME VInv, HostTables
  PROVE  VInv'
<1> USE DEF VInv
<1>1. VTypes'
  BY DEF VTypes, HostTables, LoadTR, pool
<1>2. VContext'
  BY DEF VTypes, VContext, HostTables, LoadTR, TablesOf
<1>3. CallsBelowKept'
  BY DEF CallsBelowKept, HostTables
<1>4. VPool'
  BY BooksKept DEF HostTables
<1> QED
  BY <1>1, <1>2, <1>3, <1>4
-----------------------------------------------------------------------------
(* A page that is given to a client is counted, and is its own.            *)
LEMMA PageGiven ==
  ASSUME VTypes, VPool, NEW c \in Clients, NEW p \in PoolPages,
         VCPI_Allocate4K(c, p)
  PROVE  /\ used' = Cardinality(Taken') /\ used' <= MaxMem4K
         /\ used' \in Nat
         /\ Mine(c)' = Mine(c) \cup {p}
         /\ \A d \in Clients \ {c} : Mine(d)' = Mine(d)
         /\ owner' \in [PoolPages -> Clients \cup {Nobody}]
<1> USE DEF VCPI_Allocate4K, FreePages
<1>1. Taken' = Taken \cup {p} /\ p \notin Taken
  BY VcpiAssumption DEF Taken, VTypes
<1>2. IsFiniteSet(Taken)
  BY VcpiAssumption, FS_Subset DEF Taken
<1>3. Cardinality(Taken') = Cardinality(Taken) + 1 /\ Cardinality(Taken) \in Nat
  BY <1>1, <1>2, FS_AddElement, FS_CardinalityType
<1>4. Mine(c)' = Mine(c) \cup {p} /\ \A d \in Clients \ {c} : Mine(d)' = Mine(d)
  BY VcpiAssumption DEF Mine, VTypes
<1> QED
  BY VcpiAssumption, <1>3, <1>4 DEF VPool, VTypes

(* A page that a client gives back is counted out.                         *)
LEMMA PageReturned ==
  ASSUME VTypes, VPool, NEW c \in Clients, NEW p \in PoolPages,
         VCPI_Free4K(c, p)
  PROVE  /\ used' = Cardinality(Taken') /\ used' <= MaxMem4K
         /\ used' \in Nat
         /\ Mine(c)' = Mine(c) \ {p}
         /\ \A d \in Clients \ {c} : Mine(d)' = Mine(d)
         /\ owner' \in [PoolPages -> Clients \cup {Nobody}]
<1> USE DEF VCPI_Free4K
<1>1. Taken' = Taken \ {p} /\ p \in Taken
  BY VcpiAssumption DEF Taken, VTypes
<1>2. IsFiniteSet(Taken)
  BY VcpiAssumption, FS_Subset DEF Taken
<1>3. Cardinality(Taken') = Cardinality(Taken) - 1 /\ Cardinality(Taken) \in Nat /\ Cardinality(Taken') \in Nat
  BY <1>1, <1>2, FS_RemoveElement, FS_CardinalityType
<1>4. Mine(c)' = Mine(c) \ {p} /\ \A d \in Clients \ {c} : Mine(d)' = Mine(d)
  BY VcpiAssumption DEF Mine, VTypes
<1> QED
  BY VcpiAssumption, <1>3, <1>4 DEF VPool, VTypes

(* DE04h in V86 mode.                                                      *)
LEMMA AllocateV86Keeps ==
  ASSUME VInv, NEW c \in Clients, NEW p \in PoolPages, AllocateV86(c, p)
  PROVE  VInv'
<1> USE DEF VInv, AllocateV86
<1>1. VTypes'
  BY PageGiven DEF VTypes, tables
<1>2. VContext'
  BY DEF VTypes, VContext, tables, TablesOf
<1>3. CallsBelowKept'
  BY DEF CallsBelowKept
<1>4. VPool'
  BY PageGiven DEF VPool, VTypes
<1> QED
  BY <1>1, <1>2, <1>3, <1>4

(* DE05h in V86 mode.                                                      *)
LEMMA FreeV86Keeps ==
  ASSUME VInv, NEW c \in Clients, NEW p \in PoolPages, FreeV86(c, p)
  PROVE  VInv'
<1> USE DEF VInv, FreeV86
<1>1. VTypes'
  BY PageReturned DEF VTypes, tables
<1>2. VContext'
  BY DEF VTypes, VContext, tables, TablesOf
<1>3. CallsBelowKept'
  BY DEF CallsBelowKept
<1>4. VPool'
  BY PageReturned DEF VPool, VTypes
<1> QED
  BY <1>1, <1>2, <1>3, <1>4
-----------------------------------------------------------------------------
(* A call from protected mode, up to Jemm's stack and page directory.      *)
LEMMA EntryKeeps ==
  ASSUME VInv, NEW fn \in 3 .. 5, NEW p \in PoolPages \cup {Nobody}, VCPI_PM_Entry(fn, p)
  PROVE  VInv'
<1> USE DEF VInv, VCPI_PM_Entry
<1>1. VTypes'
  <2>1. call' \in [fn : {0} \cup 3 .. 5, edx : PoolPages \cup {Nobody}]
    OBVIOUS
  <2> QED
    BY <2>1 DEF VTypes, tables, pool
<1>2. VContext'
  BY DEF VTypes, VContext, tables, TablesOf, Served
<1>3. CallsBelowKept'
  BY DEF CallsBelowKept
<1>4. VPool'
  BY DEF VPool, pool, tables, Asked, Mine, Taken
<1> QED
  BY <1>1, <1>2, <1>3, <1>4

(* The saved SS:ESP and CR3 lie above the monitor calls under way.         *)
LEMMA EnterHostKeeps ==
  ASSUME VInv, EnterHost
  PROVE  VInv'
<1> USE DEF VInv, EnterHost
<1>0. /\ HostStack \in 1 .. MaxNest + 1 /\ HostStack \notin 1 .. nest
      /\ HostStack' = HostStack
      /\ slot'[HostStack] = cr3 /\ \A k \in 1 .. nest : slot'[k] = slot[k]
  BY VcpiAssumption DEF VTypes, HostStack
<1>1. VTypes'
  BY <1>0 DEF VTypes, VContext, Served, pool
<1>2. VContext'
  BY <1>0 DEF VTypes, VContext, Served, TablesOf, Caller
<1>3. CallsBelowKept'
  BY <1>0 DEF CallsBelowKept
<1>4. VPool'
  BY <1>0 DEF VPool, pool, Asked, Mine, Taken, Caller, Told
<1> QED
  BY <1>1, <1>2, <1>3, <1>4

(* The service itself, in Jemm's address space: the pool's books are right *)
(* for the answer that is on its way to the client.                        *)
LEMMA ServeKeeps ==
  ASSUME VInv, Serve
  PROVE  VInv'
<1> USE DEF VInv
<1>0. /\ at = "host" /\ at' = "served" /\ Caller' = Caller /\ got' = got
      /\ UNCHANGED <<tables, frame, copy, nest, slot>> /\ Caller \in Clients
  BY DEF Serve, ServeFree, ServeAllocate, ServeFailed, ServeRelease, Caller, HostStack, VContext, Served
<1>1. VContext' /\ CallsBelowKept'
  BY <1>0 DEF VTypes, VContext, Served, TablesOf, tables, CallsBelowKept, Caller, HostStack
<1>2. /\ used' = Cardinality(Taken') /\ used' <= MaxMem4K
      /\ \A c \in Clients : Mine(c)' = IF c = Caller THEN Told(c)' ELSE got[c]
      /\ owner' \in [PoolPages -> Clients \cup {Nobody}]
      /\ call' \in [fn : {0} \cup 3 .. 5, edx : PoolPages \cup {Nobody}]
  <2>1. CASE ServeFree \/ ServeFailed
    <3>1. UNCHANGED <<owner, used, call>> /\ call.fn \in {3, 4}
      BY <2>1 DEF ServeFree, ServeFailed
    <3>2. call.edx = Nobody
      BY <3>1, <1>0 DEF VPool, Asked
    <3> QED
      BY <3>1, <3>2, <1>0 DEF VPool, Told, Mine, Taken, VTypes
  <2>2. CASE ServeAllocate
    <3>0. PICK o \in Clients : o = Caller
      BY <1>0
    <3>1. PICK p \in PoolPages : VCPI_Allocate4K(o, p) /\ call' = [call EXCEPT !.edx = p]
      BY <2>2, <3>0 DEF ServeAllocate, Caller
    <3>2. call.fn = 4 /\ call'.fn = 4 /\ call'.edx = p /\ p # Nobody
          /\ call' \in [fn : {0} \cup 3 .. 5, edx : PoolPages \cup {Nobody}]
      BY VcpiAssumption, <2>2, <3>1 DEF ServeAllocate, VTypes
    <3>3. \A c \in Clients : Told(c)' = got[c] \cup {p} /\ Mine(c) = got[c]
      BY <3>2, <1>0 DEF Told, VPool
    <3> QED
      BY <3>0, <3>1, <3>2, <3>3, <1>0, PageGiven
  <2>3. CASE ServeRelease
    <3>1. call.fn = 5 /\ call' = call /\ VCPI_Free4K(Caller, call.edx)
      BY <2>3 DEF ServeRelease, Caller
    <3>2. PICK o \in Clients, p \in PoolPages : o = Caller /\ p = call.edx
      BY <3>1, <1>0 DEF VPool, Asked, VTypes
    <3>3. \A c \in Clients : Told(c)' = got[c] \ {p} /\ Mine(c) = got[c]
      BY <3>1, <3>2, <1>0 DEF Told, VPool
    <3>4. VCPI_Free4K(o, p)
      BY <3>1, <3>2
    <3>5. call' \in [fn : {0} \cup 3 .. 5, edx : PoolPages \cup {Nobody}]
      BY <3>1 DEF VTypes
    <3>6. /\ used' = Cardinality(Taken') /\ used' <= MaxMem4K
          /\ Mine(o)' = Mine(o) \ {p} /\ \A d \in Clients \ {o} : Mine(d)' = Mine(d)
          /\ owner' \in [PoolPages -> Clients \cup {Nobody}]
      BY <3>4, PageReturned
    <3> QED
      BY <3>2, <3>3, <3>5, <3>6, <1>0
  <2> QED
    BY <2>1, <2>2, <2>3 DEF Serve
<1>3. VTypes'
  BY <1>0, <1>2 DEF VTypes, tables
<1>4. VPool'
  BY <1>0, <1>2 DEF VPool
<1> QED
  BY <1>1, <1>3, <1>4

(* The client's page directory and stack; it learns the answer.            *)
LEMMA LeaveHostKeeps ==
  ASSUME VInv, LeaveHost
  PROVE  VInv'
<1> USE DEF VInv, LeaveHost
<1>0. /\ HostStack \in 1 .. MaxNest + 1 /\ HostStack \notin 1 .. nest
      /\ HostStack' = HostStack /\ cr3' = Caller /\ Caller \in Served
      /\ \A k \in 1 .. nest : slot'[k] = slot[k]
  BY VcpiAssumption DEF VTypes, HostStack, VContext, Caller
<1>1. Told(Caller) \in SUBSET PoolPages
  BY <1>0 DEF Told, VTypes, Served
<1>2. VTypes'
  <2>1. call' \in [fn : {0} \cup 3 .. 5, edx : PoolPages \cup {Nobody}]
    BY DEF NoCall
  <2>2. got' \in [Clients -> SUBSET PoolPages]
    BY <1>0, <1>1 DEF VTypes, Served, Caller
  <2>3. slot' \in [1 .. MaxNest + 1 -> Clients \cup {"monitor", Nobody}]
    BY <1>0 DEF VTypes
  <2> QED
    BY <1>0, <2>1, <2>2, <2>3 DEF VTypes, Served
<1>3. VContext'
  BY <1>0 DEF VTypes, VContext, Served, TablesOf, Caller
<1>4. CallsBelowKept'
  BY <1>0 DEF CallsBelowKept
<1>5. VPool'
  <2>1. \A c \in Clients : got'[c] = IF c = Caller THEN Told(c) ELSE got[c]
    BY DEF VTypes, Caller
  <2> QED
    BY <2>1 DEF VPool, Mine, Taken
<1> QED
  BY <1>2, <1>3, <1>4, <1>5
-----------------------------------------------------------------------------
(* What the clients, EMS and the monitor do besides.                       *)
LEMMA OthersKeep ==
  ASSUME VInv,
         TaskSwitch \/ (\E f \in Frames : MapPage(f)) \/ Begin_Nest_Exec \/ End_Nest_Exec
  PROVE  VInv'
<1> USE DEF VInv
<1>1. CASE TaskSwitch
  <2>1. VTypes'
    BY <1>1 DEF VTypes, TaskSwitch, pool
  <2>2. VContext' /\ CallsBelowKept'
    BY <1>1 DEF VTypes, VContext, TaskSwitch, TablesOf, Served, CallsBelowKept
  <2>3. VPool'
    BY <1>1, BooksKept DEF TaskSwitch
  <2> QED
    BY <2>1, <2>2, <2>3
<1>2. ASSUME NEW f \in Frames, MapPage(f) PROVE VInv'
  <2>1. VTypes'
    BY <1>2 DEF VTypes, MapPage, pool, tables
  <2>2. VContext' /\ CallsBelowKept'
    BY <1>2 DEF VTypes, VContext, MapPage, TablesOf, tables, CallsBelowKept
  <2>3. VPool'
    BY <1>2, BooksKept DEF MapPage
  <2> QED
    BY <2>1, <2>2, <2>3
<1>3. CASE Begin_Nest_Exec
  <2>1. VTypes'
    BY VcpiAssumption, <1>3 DEF VTypes, Begin_Nest_Exec, pool, tables
  <2>2. VContext'
    BY <1>3 DEF VTypes, VContext, Begin_Nest_Exec, TablesOf, tables
  <2>3. CallsBelowKept'
    BY VcpiAssumption, <1>3 DEF VTypes, Begin_Nest_Exec, CallsBelowKept
  <2>4. VPool'
    BY <1>3, BooksKept DEF Begin_Nest_Exec
  <2> QED
    BY <2>1, <2>2, <2>3, <2>4
<1>4. CASE End_Nest_Exec
  <2>1. VTypes'
    BY VcpiAssumption, <1>4 DEF VTypes, End_Nest_Exec, pool, tables
  <2>2. VContext'
    BY <1>4 DEF VTypes, VContext, End_Nest_Exec, TablesOf, tables
  <2>3. CallsBelowKept'
    BY VcpiAssumption, <1>4 DEF VTypes, End_Nest_Exec, CallsBelowKept
  <2>4. VPool'
    BY <1>4, BooksKept DEF End_Nest_Exec
  <2> QED
    BY <2>1, <2>2, <2>3, <2>4
<1> QED
  BY <1>1, <1>2, <1>3, <1>4

(* A step that changes nothing.                                            *)
LEMMA StutterKeeps ==
  ASSUME VInv, UNCHANGED vcpiVars
  PROVE  VInv'
  BY DEF VInv, vcpiVars, VTypes, VContext, TablesOf, Served, Caller, HostStack,
         CallsBelowKept, VPool, Taken, Mine, Asked, Told

(* Every step keeps the invariant.                                         *)
LEMMA VNextInv ==
  ASSUME VInv, [VcpiNext]_vcpiVars
  PROVE  VInv'
<1>1. ASSUME NEW c \in Clients, VCPI_GetInterface(c) \/ VCPI_V86toPM(c) PROVE VInv'
  BY <1>1, GetInterfaceKeeps, ToPMKeeps
<1>2. CASE ClientTables \/ VCPI_PMtoV86 \/ HostTables
  BY <1>2, ClientTablesKeep, ToV86Keeps, HostTablesKeep
<1>3. ASSUME NEW c \in Clients, NEW p \in PoolPages, AllocateV86(c, p) \/ FreeV86(c, p)
      PROVE  VInv'
  BY <1>3, AllocateV86Keeps, FreeV86Keeps
<1>4. ASSUME NEW fn \in 3 .. 5, NEW p \in PoolPages \cup {Nobody}, VCPI_PM_Entry(fn, p)
      PROVE  VInv'
  BY <1>4, EntryKeeps
<1>5. CASE EnterHost \/ Serve \/ LeaveHost
  BY <1>5, EnterHostKeeps, ServeKeeps, LeaveHostKeeps
<1>6. CASE TaskSwitch \/ (\E f \in Frames : MapPage(f)) \/ Begin_Nest_Exec \/ End_Nest_Exec
  BY <1>6, OthersKeep
<1>7. CASE UNCHANGED vcpiVars
  BY <1>7, StutterKeeps
<1> QED
  BY <1>1, <1>2, <1>3, <1>4, <1>5, <1>6, <1>7 DEF VcpiNext

(* VCPI_V86toPM, VCPI_PMtoV86, VCPI_PM_Entry: for any clients, any pool    *)
(* and any depth of monitor calls, the code of each step of a switch is    *)
(* mapped and the tables are of one context when it is over; ltr never     *)
(* meets a busy TSS; the monitor calls below stay; no page of the pool is  *)
(* taken or given back without its client's knowledge.                     *)
THEOREM SwitchesWhole == VcpiSpec => []SwitchWhole
<1>1. VcpiInit => VInv
  BY VInitInv
<1>2. VInv /\ [VcpiNext]_vcpiVars => VInv'
  BY VNextInv
<1>3. VInv => SwitchWhole
  BY VInvMeansWhole
<1> QED
  BY <1>1, <1>2, <1>3, PTL DEF VcpiSpec

(* VCPI_Allocate4K, VCPI_Free4K: dwUsedMem4K is always the number of pages *)
(* that clients hold, and never above dwMaxMem4K.                          *)
THEOREM ServerTypeCorrect == VcpiSpec => []VcpiTypeOK
<1>1. VcpiInit => VInv
  BY VInitInv
<1>2. VInv /\ [VcpiNext]_vcpiVars => VInv'
  BY VNextInv
<1>3. VInv => VcpiTypeOK
  BY VInvMeansWhole
<1> QED
  BY <1>1, <1>2, <1>3, PTL DEF VcpiSpec

-----------------------------------------------------------------------------

(* What an action does to the switches and to what is shown: whatever      *)
(* changes a switch forgets what was shown.                                *)
LEMMA UpdateAgrees ==
  ASSUME DevTypeOK, SwitchesAgree, NEW o \in Options, Update(o)
  PROVE  /\ cr4' \in [vme : {0, 1}, pge : {0, 1}]
         /\ bNoVCPI' \in 0 .. 255 /\ bNoA20' \in 0 .. 255
         /\ bPageMask' \in {0, 1} /\ gate' \in {0, 1}
         /\ bPageMask' = cr4'.pge
         /\ ("pge" \notin cpu => cr4'.pge = 0) /\ ("vme" \notin cpu => cr4'.vme = 0)
         /\ bNoA20' # 0 => gate' = 1
<1>1. o.vme \in 0 .. 255 /\ o.a20 \in 0 .. 255 /\ o.vcpi \in 0 .. 255 /\ o.pge \in 0 .. 255
  BY DevAssumption DEF Options
<1>2. \A n \in 0 .. 255 : 1 - (n % 2) \in {0, 1} /\ (1 - (n % 2)) % 2 \in {0, 1}
  OBVIOUS
<1>3. SetVME(1 - (o.vme % 2)) \in {0, 1} /\ ("vme" \notin cpu => SetVME(1 - (o.vme % 2)) = cr4.vme)
  BY <1>1, <1>2 DEF SetVME, DevTypeOK
<1>4. PgeOff(o.pge) \in {0, 1}
  BY <1>1, <1>2 DEF PgeOff
<1>5. /\ cr4' \in [vme : {0, 1}, pge : {0, 1}] /\ bPageMask' \in {0, 1} /\ bPageMask' = cr4'.pge
      /\ ("pge" \notin cpu => cr4'.pge = 0) /\ ("vme" \notin cpu => cr4'.vme = 0)
  BY <1>3, <1>4 DEF Update, DevTypeOK, SwitchesAgree
<1>6. bNoVCPI' \in 0 .. 255 /\ bNoA20' \in 0 .. 255 /\ gate' \in {0, 1} /\ (bNoA20' # 0 => gate' = 1)
  BY <1>1 DEF Update, UpdateA20, DevTypeOK, SwitchesAgree, Keep
<1> QED BY <1>5, <1>6

LEMMA DevInitAgrees == DevInit => DevTypeOK /\ SwitchesAgree
<1> SUFFICES ASSUME DevInit PROVE DevTypeOK /\ SwitchesAgree
  OBVIOUS
<1>1. bPageMask \in {0, 1} /\ cr4 \in [vme : {0, 1}, pge : {0, 1}] /\ cr4.pge = bPageMask
      /\ ("pge" \notin cpu => cr4.pge = 0) /\ ("vme" \notin cpu => cr4.vme = 0)
  BY DEF DevInit
<1> QED BY <1>1 DEF DevInit, DevTypeOK, SwitchesAgree, Ok

LEMMA DevStepAgrees == DevTypeOK /\ SwitchesAgree /\ [DevNext]_devVars => DevTypeOK' /\ SwitchesAgree'
<1> SUFFICES ASSUME DevTypeOK, SwitchesAgree, [DevNext]_devVars
             PROVE  DevTypeOK' /\ SwitchesAgree'
  OBVIOUS
<1>0. Unseen = Unseen' /\ Nothing = Nothing'
  BY DEF Unseen, Nothing
<1>1. ASSUME NEW fn \in ReadFunctions \cup {1, 15}, NEW n \in Counts, IoctlRead(fn, n)
      PROVE  DevTypeOK' /\ SwitchesAgree'
  <2>1. Fits(fn, n) => Written(fn, n) <= n
    BY <1>1, DevAssumption DEF Fits, Written, Needed, ReadFunctions
  <2>2. DevTypeOK'
    BY <1>1 DEF IoctlRead, DevTypeOK, switches, Ok, ReadError
  <2>3. asked'.count = n /\ answer'.bytes <= n
    BY <1>1, <2>1, DevAssumption DEF IoctlRead
  <2> QED BY <1>1, <2>2, <2>3 DEF IoctlRead, SwitchesAgree, switches
<1>2. ASSUME NEW fn \in {6, 15}, NEW n \in Counts \cap 4 .. 6, NEW o \in Options, IoctlWrite(fn, n, o)
      PROVE  DevTypeOK' /\ SwitchesAgree'
  <2>1. asked'.count = n /\ answer'.bytes = 0 /\ answer'.status \in {Ok, WriteError}
        /\ shown' = Unseen /\ cpu' = cpu
    BY <1>2 DEF IoctlWrite
  <2>2. CASE Update(o)
    BY <2>1, <2>2, UpdateAgrees DEF DevTypeOK, SwitchesAgree
  <2>3. CASE UNCHANGED switches
    BY <2>1, <2>3 DEF DevTypeOK, SwitchesAgree, switches
  <2> QED BY <1>2, <2>2, <2>3 DEF IoctlWrite
<1>3. ASSUME NEW cmd, Interrupt(cmd) PROVE DevTypeOK' /\ SwitchesAgree'
  BY <1>3 DEF Interrupt, DevTypeOK, SwitchesAgree, switches
<1>4. ASSUME NEW o \in Options, EmmUpdate(o) PROVE DevTypeOK' /\ SwitchesAgree'
  <2>1. asked'.count = 5 /\ answer' = [status |-> Ok, bytes |-> 0] /\ shown' = Unseen /\ cpu' = cpu /\ Update(o)
    BY <1>4 DEF EmmUpdate
  <2> QED BY <2>1, UpdateAgrees DEF DevTypeOK, SwitchesAgree
<1>5. CASE A20Moves
  BY <1>5 DEF A20Moves, DevTypeOK, SwitchesAgree
<1>6. CASE EmmStatus
  <2>1. /\ shown' = [i \in DOMAIN E06 |-> IF E06[i] # 0 THEN 0 ELSE 1]
        /\ asked'.count = 24 /\ answer' = [status |-> Ok, bytes |-> 24]
        /\ UNCHANGED <<cpu, switches>>
    BY <1>6 DEF EmmStatus
  <2>2. /\ shown'.vme = (IF E06.vme # 0 THEN 0 ELSE 1) /\ shown'.pge = (IF E06.pge # 0 THEN 0 ELSE 1)
        /\ shown'.a20 = (IF E06.a20 # 0 THEN 0 ELSE 1)
    BY <2>1 DEF E06
  <2>3. shown'.vme = cr4.vme /\ shown'.pge = bPageMask /\ (shown'.a20 = 0 => gate = 1)
    BY <2>2 DEF E06, DevTypeOK, SwitchesAgree
  <2> QED BY <2>1, <2>3 DEF DevTypeOK, SwitchesAgree, switches
<1>7. CASE NotInstalled \/ UNCHANGED devVars
  BY <1>7 DEF NotInstalled, devVars, switches, DevTypeOK, SwitchesAgree
<1> QED BY <1>1, <1>2, <1>3, <1>4, <1>5, <1>6, <1>7 DEF DevNext

THEOREM SwitchesAlwaysAgree == DevSpec => []SwitchesAgree
<1>1. DevInit => DevTypeOK /\ SwitchesAgree
  BY DevInitAgrees
<1>2. DevTypeOK /\ SwitchesAgree /\ [DevNext]_devVars => (DevTypeOK /\ SwitchesAgree)'
  BY DevStepAgrees
<1> QED BY <1>1, <1>2, PTL DEF DevSpec
=============================================================================
