------------------------------- MODULE IoTrap -------------------------------
(***************************************************************************)
(* Trapped I/O instructions: how the monitor takes one apart into bytes    *)
(* and whom it asks about each (V86_Exception, Default_IO_Trap_Handler,    *)
(* Simulate_IO* in src/src/JEMM32.ASM, the wide cases of the handlers in   *)
(* VDMA.ASM and XMS.ASM), and the port handlers that loaded modules        *)
(* install above it (src/Tools/JLOAD/VMM.ASM).                             *)
(*                                                                         *)
(* The bytes that an OUT sends are numbered from 1 in the order of its     *)
(* data; a byte that an IN delivers is the port it was read from.          *)
(***************************************************************************)
EXTENDS Naturals, Sequences

CONSTANTS
  Accesses,     (* instructions clients execute                            *)
  JlmPorts,     (* ports loaded modules install handlers for               *)
  DmaPorts,     (* ports of the map with a handler in VDMA.ASM             *)
  ChannelTwo,   (* ports ISA_DMA_Traphandler takes for itself              *)
  RepCount,     (* CX of a REP instruction                                 *)
  PagePorts,    (* 1024, the ports of a page of handler addresses          *)
  MaxChanges    (* bound: handlers installed and removed                   *)

Kbd == 96       \* 60h
Kbc == 100      \* 64h
Ps2 == 146      \* 92h
A20Ports == {Kbd, Kbc, Ps2}
Garbled == 0

Sizes == {1, 2, 4}
Access == [out : BOOLEAN, size : Sizes, str : BOOLEAN, rep : BOOLEAN,
           port : Nat, cmd : BOOLEAN]   \* cmd: AL is D0h or D1h

IoAssumption ==
  /\ Accesses \subseteq Access /\ \A a \in Accesses : a.rep => a.str
  /\ {RepCount, PagePorts} \subseteq Nat \ {0} /\ MaxChanges \in Nat
  /\ ChannelTwo \subseteq DmaPorts /\ DmaPorts \intersect A20Ports = {}

VARIABLES
  bitmap,       (* the I/O permission bitmap of the TSS                    *)
  jlm,          (* IO_Handler_Region: ports with a module's handler        *)
  pages,        (* its pages that are committed                            *)
  hooked,       (* IO_Trap_Handler is New_IO_Handler                       *)
  cmd,          (* the controller waits for port 60h to complete D0h, D1h  *)
  acc,          (* the instruction                                         *)
  todo,         (* what is left to do for it, the stack of the handlers    *)
  IOPROC,       (* Client_res0, what a part of an access is handed to      *)
  cx, si,       (* left to repeat, bytes loaded                            *)
  log,          (* bytes sent: the port, which byte, whether its handler   *)
                (* saw it                                                  *)
  got, mem,     (* bytes read, bytes stored by a string instruction        *)
  fault,        (* ring 0 touched a page that is not there                 *)
  changes

traps == <<bitmap, jlm, pages, hooked, changes>>
run == <<acc, todo, IOPROC, cx, si, log, got, mem>>
vars == <<traps, run, cmd, fault>>

Work == [do : {"io", "rep", "load", "store"}, via : {"entry", "trap", "ioproc"},
         a : Access, data : Seq(Nat)]
NoAccess == [out |-> FALSE, size |-> 1, str |-> FALSE, rep |-> FALSE,
             port |-> Kbd, cmd |-> FALSE]

Init ==
  /\ bitmap = DmaPorts \union {Kbc, Ps2}
  /\ jlm = {} /\ pages = {} /\ hooked = FALSE /\ changes = 0
  /\ cmd = FALSE /\ fault = FALSE
  /\ acc = NoAccess /\ todo = <<>> /\ IOPROC = "trap"
  /\ cx = 0 /\ si = 0 /\ log = <<>> /\ got = <<>> /\ mem = <<>>

Idle == todo = <<>> /\ ~ fault
-----------------------------------------------------------------------------
(* What is sent and read.                                                  *)
Ports(a) == a.port .. (a.port + a.size - 1)
Bytes(n) == [i \in 1..n |-> i]
Item(do, via, a, data) == [do |-> do, via |-> via, a |-> a, data |-> data]

Sent(p, b, seen) ==
  /\ log' = Append(log, [port |-> p, byte |-> b, seen |-> seen])
  /\ cmd' = IF p = Kbc THEN acc.cmd /\ b = 1 ELSE IF p = Kbd THEN FALSE ELSE cmd
  /\ UNCHANGED got
Read(p) == got' = Append(got, p) /\ cmd' = (cmd /\ p # Kbd) /\ UNCHANGED log
NoByte == UNCHANGED <<log, got, cmd>>

(* Programs complete a command before they send the controller another.    *)
InTurn(a) == cmd /\ a.out /\ a.port = Kbc => a.cmd

(* V86_Exception has moved EIP on and calls the handler.  The processor    *)
(* faults if one of the ports is marked; else the access never gets here.  *)
Execute(a) ==
  /\ Idle /\ InTurn(a)
  /\ Ports(a) \intersect bitmap # {}
  /\ acc' = a
  /\ todo' = <<Item("io", "entry", a, Bytes(a.size))>>
  /\ cx' = IF a.rep THEN RepCount ELSE 1
  /\ si' = 0 /\ log' = <<>> /\ got' = <<>> /\ mem' = <<>> /\ IOPROC' = "trap"
  /\ UNCHANGED <<traps, cmd, fault>>

(* A byte access to ports nobody traps.                                    *)
Untrapped(a) ==
  /\ Idle /\ a.size = 1 /\ ~ a.str /\ a.port \notin bitmap
  /\ acc' = a /\ log' = <<>> /\ got' = <<>> /\ mem' = <<>> /\ cx' = 1 /\ si' = 0
  /\ cmd' = (cmd /\ a.port # Kbd)
  /\ UNCHANGED <<traps, todo, IOPROC, fault>>
-----------------------------------------------------------------------------
Half(a) == [a EXCEPT !.size = @ \div 2]
Upper(a) == [Half(a) EXCEPT !.port = @ + a.size \div 2]

(* @@wout, @@dout, @@win, @@din: two halves through IOPROC.                *)
Parts(a, data) ==
  LET n == a.size \div 2
  IN  <<Item("io", "ioproc", Half(a), SubSeq(data, 1, n)),
        Item("io", "ioproc", Upper(a), SubSeq(data, n + 1, 2 * n))>>

(* Simulate_IO (mode "raw") and Simulate_IO_trap (mode "trap").            *)
Simulate(mode, a, data, rest) ==
  /\ IOPROC' = mode
  /\ IF a.rep
     THEN todo' = <<Item("rep", "ioproc", [a EXCEPT !.rep = FALSE], <<>>)>> \o rest
     ELSE IF a.str /\ a.out
     THEN todo' = <<Item("load", "ioproc", [a EXCEPT !.str = FALSE], <<>>)>> \o rest
     ELSE IF a.str
     THEN todo' = <<Item("io", "ioproc", [a EXCEPT !.str = FALSE], data),
                    Item("store", "ioproc", a, <<>>)>> \o rest
     ELSE IF a.size > 1 THEN todo' = Parts(a, data) \o rest
     ELSE todo' = rest
  /\ IF a.str \/ a.size > 1 THEN NoByte
     ELSE IF a.out THEN Sent(a.port, data[1], FALSE) ELSE Read(a.port)
  /\ UNCHANGED <<traps, fault>>

(* Dma_HandlePagePorts, Dma_HandleDmaPorts8, Dma_HandleDmaPorts16.         *)
DmaHandler(a, data, rest) ==
  IF ~ a.out THEN Simulate("raw", a, data, rest)
  ELSE IF a.str \/ a.size > 1 THEN Simulate("trap", a, data, rest)
  ELSE /\ todo' = rest /\ Sent(a.port, data[1], TRUE)
       /\ UNCHANGED <<traps, fault, IOPROC>>

(* A20_Handle60 and A20_Handle92 move AL, whatever the size; A20_Handle64  *)
(* overwrites AH and hands on what is no command it knows.                 *)
Handle60_BitKept(a, data, rest) ==   \* mutant: port 60h stays trapped
  /\ todo' = rest
  /\ IF a.out THEN Sent(a.port, data[1], TRUE) ELSE Read(a.port)
  /\ UNCHANGED <<traps, fault, IOPROC>>

Handle60(a, data, rest) ==
  /\ bitmap' = bitmap \ {Kbd}
  /\ todo' = rest
  /\ IF a.out THEN Sent(a.port, data[1], TRUE) ELSE Read(a.port)
  /\ UNCHANGED <<jlm, pages, hooked, changes, fault, IOPROC>>
Handle92(a, data, rest) ==
  /\ todo' = rest
  /\ IF a.out THEN Sent(a.port, data[1], TRUE) ELSE Read(a.port)
  /\ UNCHANGED <<traps, fault, IOPROC>>
Handle64(a, data, rest) ==
  IF a.out /\ acc.cmd /\ data[1] = 1
  THEN /\ bitmap' = bitmap \union {Kbd}
       /\ todo' = rest /\ Sent(a.port, data[1], TRUE)
       /\ UNCHANGED <<jlm, pages, hooked, changes, fault, IOPROC>>
  ELSE Simulate("raw", a, IF a.out /\ Len(data) > 1 THEN [data EXCEPT ![2] = Garbled] ELSE data, rest)

(* Default_IO_Trap_Handler looks up the first port only.                   *)
Default(a, data, rest) ==
  CASE a.port \in DmaPorts -> DmaHandler(a, data, rest)
    [] a.port = Kbd -> Handle60(a, data, rest)
    [] a.port = Kbc -> Handle64(a, data, rest)
    [] a.port = Ps2 -> Handle92(a, data, rest)
    [] OTHER -> Simulate("raw", a, data, rest)

(* A module's handler: it does a byte itself and leaves the rest to the    *)
(* service Simulate_IO.                                                    *)
JlmHandler(a, data, rest) ==
  IF a.str \/ a.size > 1 THEN Simulate("raw", a, data, rest)
  ELSE /\ todo' = rest
       /\ IF a.out THEN Sent(a.port, data[1], TRUE) ELSE Read(a.port)
       /\ UNCHANGED <<traps, fault, IOPROC>>

PageOf(p) == p \div PagePorts

(* New_IO_Handler reads the port's entry, committed or not.                *)
NewHandler(a, data, rest) ==
  CASE PageOf(a.port) \notin pages ->
         fault' = TRUE /\ UNCHANGED <<traps, todo, IOPROC, log, got, cmd>>
    [] PageOf(a.port) \in pages /\ a.port \in jlm -> JlmHandler(a, data, rest)
    [] OTHER -> Default(a, data, rest)

TrapHandler(a, data, rest) ==
  IF hooked THEN NewHandler(a, data, rest) ELSE Default(a, data, rest)

(* ISA_DMA_Traphandler, asked first once the handler is replaced.          *)
Alternate(a, data, rest) ==
  /\ hooked /\ a.out /\ a.port \in ChannelTwo
  /\ todo' = rest
  /\ Sent(a.port, data[1], TRUE)
  /\ UNCHANGED <<traps, fault, IOPROC>>
-----------------------------------------------------------------------------
Top == Head(todo)
Below == Tail(todo)

Io ==
  /\ ~ fault /\ todo # <<>> /\ Top.do = "io"
  /\ \/ Top.via = "entry" /\ Alternate(Top.a, Top.data, Below)
     \/ /\ Top.via \in {"entry", "trap"} \/ IOPROC = "trap"
        /\ TrapHandler(Top.a, Top.data, Below)
     \/ /\ Top.via = "ioproc" /\ IOPROC = "raw"
        /\ Simulate("raw", Top.a, Top.data, Below)
  /\ UNCHANGED <<acc, cx, si, mem>>

(* @@teststr, @@nextio: CX is decremented behind the transfer.             *)
Rep ==
  /\ ~ fault /\ todo # <<>> /\ Top.do = "rep"
  /\ IF cx = 0 THEN todo' = Below /\ UNCHANGED cx
     ELSE /\ cx' = cx - 1
          /\ todo' = (IF Top.a.out
                      THEN <<Item("load", "ioproc", [Top.a EXCEPT !.str = FALSE], <<>>)>>
                      ELSE <<Item("io", "ioproc", [Top.a EXCEPT !.str = FALSE], Bytes(Top.a.size)),
                             Item("store", "ioproc", Top.a, <<>>)>>) \o todo
  /\ UNCHANGED <<traps, acc, IOPROC, si, log, got, mem, cmd, fault>>

(* LODS and STOS.                                                          *)
Load ==
  /\ ~ fault /\ todo # <<>> /\ Top.do = "load"
  /\ todo' = <<Item("io", "ioproc", Top.a, [i \in 1..Top.a.size |-> si + i])>> \o Below
  /\ si' = si + Top.a.size
  /\ UNCHANGED <<traps, acc, IOPROC, cx, log, got, mem, cmd, fault>>
Store ==
  /\ ~ fault /\ todo # <<>> /\ Top.do = "store"
  /\ todo' = Below
  /\ mem' = mem \o got /\ got' = <<>>
  /\ UNCHANGED <<traps, acc, IOPROC, cx, si, log, cmd, fault>>
-----------------------------------------------------------------------------
(* Install_IO_Handler: the region is reserved and Jemm's handler replaced  *)
(* with the first port; CommitTrapPage may fail.                           *)
Install(p) ==
  /\ Idle /\ changes < MaxChanges /\ changes' = changes + 1
  /\ hooked' = TRUE
  /\ \/ /\ PageOf(p) \notin pages
        /\ UNCHANGED <<jlm, bitmap, pages>>
     \/ /\ p \notin jlm
        /\ pages' = pages \union {PageOf(p)}
        /\ jlm' = jlm \union {p} /\ bitmap' = bitmap \union {p}
  /\ UNCHANGED <<run, cmd, fault>>

(* Remove_IO_Handler: a port of Jemm's map stays marked.                   *)
Remove(p) ==
  /\ Idle /\ changes < MaxChanges /\ changes' = changes + 1
  /\ hooked /\ p \in jlm
  /\ jlm' = jlm \ {p}
  /\ bitmap' = IF p \in DmaPorts \union A20Ports THEN bitmap ELSE bitmap \ {p}
  /\ UNCHANGED <<run, pages, hooked, cmd, fault>>
-----------------------------------------------------------------------------
Next ==
  \/ \E a \in Accesses : Execute(a)
  \/ \E a \in Accesses : Untrapped(a)
  \/ Io
  \/ Rep
  \/ Load
  \/ Store
  \/ \E p \in JlmPorts : Install(p)
  \/ \E p \in JlmPorts : Remove(p)

Spec == Init /\ [][Next]_vars
-----------------------------------------------------------------------------
IoTypeOK ==
  /\ bitmap \subseteq Nat /\ jlm \subseteq JlmPorts /\ pages \subseteq Nat
  /\ {hooked, cmd, fault} \subseteq BOOLEAN
  /\ acc \in Access /\ todo \in Seq(Work) /\ IOPROC \in {"trap", "raw"}
  /\ cx \in 0..RepCount /\ si \in Nat

Count == IF acc.rep THEN RepCount ELSE 1
Ended == todo = <<>> /\ ~ fault

(* Accesses the handlers are made for: a byte, or ports of one range of    *)
(* the map that is not A20's.  At the others the default handler's comment *)
(* says it can handle byte ports only.                                     *)
Handled ==
  \/ acc.size = 1 /\ ~ acc.str /\ acc.port \notin ChannelTwo
  \/ /\ Ports(acc) \intersect A20Ports = {}
     /\ Ports(acc) \intersect ChannelTwo = {}
     /\ Ports(acc) \subseteq DmaPorts \/ Ports(acc) \intersect DmaPorts = {}

(* A trapped instruction does what it would do untrapped: every byte goes  *)
(* to its port, in order, once per repetition; what is read is delivered   *)
(* in order.                                                               *)
AsInHardware ==
  (Ended /\ Handled /\ cx = 0 /\ acc.str) \/ (Ended /\ Handled /\ log # <<>>) =>
    IF acc.out
    THEN /\ Len(log) = Count * acc.size
         /\ \A i \in DOMAIN log : /\ log[i].byte = i
                                  /\ log[i].port = acc.port + ((i - 1) % acc.size)
    ELSE mem = [i \in 1..(Count * acc.size) |-> acc.port + ((i - 1) % acc.size)]

(* ... and each byte sent to a port with a handler is seen by it: the copy *)
(* of the DMA registers in VDMA.ASM misses nothing.                        *)
NothingMissed ==
  Ended /\ Handled =>
    \A i \in DOMAIN log : log[i].port \in DmaPorts => log[i].seen

(* Port 60h is trapped only while a command is waiting for it: else the    *)
(* monitor would take a scan code for the controller's output port.        *)
ScanCodesIntact == Kbd \in bitmap /\ Kbd \notin jlm /\ Idle => cmd

(* Ports of the map stay trapped whatever modules install and remove.      *)
MapStaysTrapped == DmaPorts \union {Kbc, Ps2} \subseteq bitmap

(* Ring 0 does not touch a page of handler addresses that is not there.    *)
NoFault == ~ fault
=============================================================================
