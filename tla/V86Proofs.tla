----------------------------- MODULE V86Proofs ------------------------------
(***************************************************************************)
(* Theorems about the V86 monitor, the A20 gate and the ways out.  The     *)
(* monitor: the ring 0 stack is exactly what the calls into V86 mode need, *)
(* and what interrupts the monitor is transparent, for every depth of      *)
(* nesting, size of the V86 stack and number of events.  The gate: it      *)
(* stays open below a loaded monitor and no client's enable is lost, for   *)
(* every machine and number of clients.  The way out: whatever was hooked, *)
(* and whatever the version of DOS does, a fast boot starts from the       *)
(* vectors of before.                                                      *)
(*                                                                         *)
(* The inductive invariant MInv says what must be so before each operation *)
(* of ring 0 for the operations that follow it (Stage), both of the code   *)
(* that runs and of every frame that was interrupted; and of the V86 side, *)
(* that above the frame of a call its code has left the return to BACK     *)
(* alone (V86).  That of the gate, GateInv, says that what moves the gate  *)
(* has passed a test that moved it both ways.                              *)
(***************************************************************************)
EXTENDS Monitor, A20, Restart, NatLemmas, SequenceTheorems

MainPcs == [seg : {"main"}, ip : {0, 1}, w : BOOLEAN]
Plain == [seg : Code, ip : {0, 1}, w : BOOLEAN] \cup {BP, BP06}
Pcs == Plain \cup {BACK, DOS}
Flags == [if : BOOLEAN, tf : BOOLEAN]
Cell == [pc : Pcs, fl : Flags]
ClientStates == [pc : Pcs, fl : Flags, sp : 1 .. (Cells + 1)]
Blank == [pc |-> BACK, fl |-> Off]
Stacks == [1 .. Cells -> Cell]
OpNames == {"begin", "call.sp", "call.wr", "int.sp", "int.wr", "resume", "ret.pc", "ret.sp",
            "yield", "enable", "window", "disable", "prompt", "exit", "hook", "iret.pc",
            "iret.sp", "unmask", "nmi.end", "irq.end", "fault", "reset"}
IntNames == {"00", "01", "06", "0D", "02", "10", "21", "irq", "svc"}
OpSet == [op : OpNames \cup {"prompt2"}, n : IntNames \cup {"-"}, pc : Pcs]
Ops == Seq(OpSet)

(* What follows a call into V86 mode, and such a call with what follows.   *)
Conts == { << Op("exit") >>, << Op("unmask"), Op("exit") >>,
           << Op("unmask"), Op("nmi.end") >>, << Op("irq.end") >> }
Nested == {"10", "02", "irq"}
Then(o, k) == << o >> \o k
CallWr(p) == [Op("call.wr") EXCEPT !.pc = p]
RetSp(k) == Then(Op("ret.sp"), k)
RetPc(k) == Then(Op("ret.pc"), RetSp(k))
Res(k) == Then(Op("resume"), RetPc(k))
IntWr(n, k) == Then(IntTo(n), Res(k))
IntSp(n, k) == Then(Op("int.sp"), IntWr(n, k))
ResetOnly == << Op("reset") >>
Esc2 == << Op("prompt2") >>
Esc1 == << Op("resume"), Op("prompt2") >>
Bodies == { b \o << Op("exit") >> : b \in { << >>, << Op("yield") >>, RunV86("10"), << Op("fault") >> } }
          \cup { << Op("fault") >> }

(* Frame j of the ring 0 stack; below it, and in a program, the ground.    *)
Ground == Frame("none", 0, << >>, NoClient)
Fr(r, j) == IF j \in DOMAIN r THEN r[j] ELSE Ground

(* The V86 code that runs above a frame, from its last interrupt to its    *)
(* first: cell sp - 1 stands for the client's own registers.               *)
X(pc, fl, sp, m, i) == IF i = sp - 1 THEN [pc |-> pc, fl |-> fl] ELSE m[i]
Calls(f) == f.k = "resume" /\ f.todo # Esc2
Base(f) == IF Calls(f) THEN f.seen.c.sp + 1 ELSE Cells + 1
IsBottom(f, x) == IF Calls(f) THEN x = [pc |-> BACK, fl |-> f.seen.live[Base(f) - 1].fl]
                              ELSE x.pc \in MainPcs
V86(f, pc, fl, sp, m) ==
  /\ f.k \in {"none", "resume"}
  /\ sp \in 1 .. Base(f)
  /\ IsBottom(f, X(pc, fl, sp, m, Base(f) - 1))
  /\ \A i \in (sp - 1) .. (Base(f) - 2) : X(pc, fl, sp, m, i).pc \in Plain
  /\ Calls(f) => \A i \in Base(f) .. Cells : m[i] = f.seen.live[i]

(* Where the client is when a call into V86 mode begins and when it has    *)
(* returned.                                                               *)
Kept(f, pc, sp, m) ==
  /\ pc = f.seen.c.pc /\ sp = f.seen.c.sp
  /\ \A i \in sp .. Cells : m[i] = f.seen.live[i]
Back(k, f, pc, fl, sp, m) ==
  /\ sp \in 1 .. (Cells + 1)
  /\ k \in { << Op("exit") >>, << Op("unmask"), Op("exit") >> } => V86(f, pc, fl, sp, m)
  /\ k = << Op("irq.end") >> => f.k = "irq" /\ Kept(f, pc, sp, m) /\ fl = f.seen.c.fl
  /\ k = << Op("unmask"), Op("nmi.end") >> => f.k = "nmi" /\ Kept(f, pc, sp, m)

(* V86 code may run: the call's frames are on the V86 stack.               *)
Called(k, f, cl, m) ==
  /\ m[cl.sp].pc = BACK
  /\ Back(k, f, m[cl.sp + 1].pc, m[cl.sp].fl, cl.sp + 2, m)

(* What is known before each operation, with the operations that follow    *)
(* it, over frame f, which lies over g.                                    *)
Here(f, cl, m) == V86(f, cl.pc, cl.fl, cl.sp, m)
HereAbove(f, cl, m) == cl.sp <= Cells /\ V86(f, cl.pc, cl.fl, cl.sp + 1, m)

AtBegin(f, rest, cl, m) ==
  \/ rest = ResetOnly
  \/ \E k \in Conts, n \in Nested :
       rest = IntSp(n, k) /\ Back(k, f, cl.pc, cl.fl, cl.sp, m)
AtCallSp(f, rest, cl, m) ==
  \E p \in Pcs :
    \/ rest = Then(CallWr(p), ResetOnly)
    \/ \E k \in Conts, n \in Nested :
         /\ rest = Then(CallWr(p), IntSp(n, k))
         /\ cl.pc = BACK /\ Back(k, f, p, cl.fl, cl.sp, m)
AtCallWr(f, p, rest, cl, m) ==
  /\ cl.sp <= Cells
  /\ \/ rest = ResetOnly
     \/ \E k \in Conts, n \in Nested :
          rest = IntSp(n, k) /\ cl.pc = BACK /\ Back(k, f, p, cl.fl, cl.sp + 1, m)
AtIntSp(f, rest, cl, m) ==
  \/ rest = Then(IntTo("21"), Esc1) /\ f.k = "none"
  \/ \E n \in {"00", "06", "0D"} : rest = Then(IntTo(n), << Op("exit") >>) /\ Here(f, cl, m)
  \/ \E k \in Conts, n \in Nested :
       /\ rest = IntWr(n, k) /\ cl.pc = BACK /\ cl.sp <= Cells
       /\ Back(k, f, m[cl.sp].pc, cl.fl, cl.sp + 1, m)
AtIntWr(f, n, rest, cl, m) ==
  /\ cl.sp <= Cells
  /\ \/ n = "21" /\ rest = Esc1 /\ f.k = "none"
     \/ n \in {"00", "06", "0D"} /\ rest = << Op("exit") >> /\ HereAbove(f, cl, m)
     \/ \E k \in Conts :
          /\ n \in Nested /\ rest = Res(k) /\ cl.pc = BACK
          /\ Back(k, f, m[cl.sp + 1].pc, cl.fl, cl.sp + 2, m)
AtResume(f, rest, cl, m) ==
  \/ rest = Esc2 /\ f.k = "none" /\ cl.pc = DOS /\ cl.fl = Off
  \/ \E k \in Conts : rest = RetPc(k) /\ cl.pc \in Plain /\ Called(k, f, cl, m)
AtRetPc(f, rest, cl, m) ==
  \E k \in Conts : rest = RetSp(k) /\ Back(k, f, m[cl.sp].pc, cl.fl, cl.sp + 1, m)
AtRetSp(f, rest, cl, m) == rest \in Conts /\ Back(rest, f, cl.pc, cl.fl, cl.sp + 1, m)

IsExit(k) == k # << >> /\ Head(k).op = "exit"
IsPrompt(k) == k # << >> /\ Head(k).op = "prompt"
Goes(f, k, cl, m) == (IsExit(k) /\ Here(f, cl, m)) \/ (IsPrompt(k) /\ f.k = "none")
AtYield(f, rest, cl, m) == Goes(f, rest, cl, m)
AtEnable(f, rest, cl, m) ==
  \E k \in Ops : rest = Then(Op("window"), Then(Op("disable"), k)) /\ Goes(f, k, cl, m)
AtWindow(f, g, rest, cl, m) ==
  f.k = "ints" /\ \E k \in Ops : rest = Then(Op("disable"), k) /\ Goes(g, k, cl, m)
AtDisable(f, g, rest, cl, m) == f.k = "ints" /\ Goes(g, rest, cl, m)

AtIretPc(f, rest, cl, m) ==
  /\ \E b \in Bodies : rest = Then(Op("iret.sp"), b)
  /\ cl.pc \in {BP, BP06} /\ Here(f, cl, m)
AtIretSp(f, rest, cl, m) == rest \in Bodies /\ HereAbove(f, cl, m)
AtUnmask(f, rest, cl, m) ==
  \/ rest = << Op("exit") >> /\ Here(f, cl, m)
  \/ rest = << Op("nmi.end") >> /\ f.k = "nmi" /\ Kept(f, cl.pc, cl.sp, m)
AtNmiEnd(f, cl, m) == f.k = "nmi" /\ Kept(f, cl.pc, cl.sp, m)
AtIrqEnd(f, cl, m) == f.k = "irq" /\ Kept(f, cl.pc, cl.sp, m) /\ cl.fl = f.seen.c.fl

At0(f, g, o, rest, cl, m) ==
  /\ o.op \in OpNames
  /\ o.op = "begin" => AtBegin(f, rest, cl, m)
  /\ o.op = "call.sp" => AtCallSp(f, rest, cl, m)
  /\ o.op = "call.wr" => AtCallWr(f, o.pc, rest, cl, m)
  /\ o.op = "int.sp" => AtIntSp(f, rest, cl, m)
  /\ o.op = "int.wr" => AtIntWr(f, o.n, rest, cl, m)
  /\ o.op = "resume" => AtResume(f, rest, cl, m)
  /\ o.op = "ret.pc" => AtRetPc(f, rest, cl, m)
  /\ o.op = "ret.sp" => AtRetSp(f, rest, cl, m)
  /\ o.op = "yield" => AtYield(f, rest, cl, m)
  /\ o.op = "enable" => AtEnable(f, rest, cl, m)
  /\ o.op = "window" => AtWindow(f, g, rest, cl, m)
  /\ o.op = "disable" => AtDisable(f, g, rest, cl, m)
  /\ o.op = "prompt" => f.k = "none"
  /\ o.op \in {"exit", "hook"} => Here(f, cl, m)
  /\ o.op = "iret.pc" => AtIretPc(f, rest, cl, m)
  /\ o.op = "iret.sp" => AtIretSp(f, rest, cl, m)
  /\ o.op = "unmask" => AtUnmask(f, rest, cl, m)
  /\ o.op = "nmi.end" => AtNmiEnd(f, cl, m)
  /\ o.op = "irq.end" => AtIrqEnd(f, cl, m)
Stage(f, g, t, cl, m) == t # << >> /\ At0(f, g, Head(t), Tail(t), cl, m)

(* A frame keeps a client, and what ring 0 goes on with: frame x over f,   *)
(* which lies over g.                                                      *)
SeenOK(s) ==
  /\ s.c \in ClientStates /\ s.live \in Stacks
  /\ \A i \in 1 .. Cells : i < s.c.sp => s.live[i] = Blank
FrameOn(f, g, x) ==
  /\ x.k \in {"irq", "nmi"} => SeenOK(x.seen) /\ Stage(f, g, x.todo, x.seen.c, x.seen.live)
  /\ x.k = "resume" =>
       /\ SeenOK(x.seen)
       /\ \/ x.todo = Esc2 /\ f.k = "none"
          \/ \E k \in Conts : x.todo = RetPc(k) /\ Called(k, f, x.seen.c, x.seen.live)

(* x is the last of the calls that wait among the frames up to j; y that   *)
(* of the windows in which interrupts are let in.                          *)
Waiting(r, x, j) ==
  /\ x \in 0 .. j /\ (x > 0 => r[x].k = "resume")
  /\ \A i \in (x + 1) .. j : r[i].k # "resume"
Lets(r, y, j) ==
  \A i \in 1 .. j : r[i].k = "ints" => i <= y /\ y <= j /\ r[y].k = "ints"

Kinds == {"irq", "nmi", "ints", "resume"}
Seens == [c : [pc : Pcs, fl : Flags, sp : 0 .. (Cells + 1)], live : Stacks \cup {<< >>}]
FrameSet == [k : Kinds, n : Nat, todo : Ops, seen : Seens]
GoodStack(r) ==
  \A j \in DOMAIN r :
    /\ FrameOn(Fr(r, j - 1), Fr(r, j - 2), r[j])
    /\ r[j].k = "resume" => Waiting(r, r[j].n, j - 1)
    /\ r[j].k = "ints" => Lets(r, r[j].n, j - 1)

(* The inductive invariant.                                                *)
Typed ==
  /\ mode \in {"v86", "pl0", "off"} /\ c \in ClientStates
  /\ mem \in [1 .. (Cells + 1) -> Cell] /\ mem[Cells + 1] = Blank
  /\ todo \in Ops
Stack0 ==
  /\ r0 \in Seq(FrameSet) /\ GoodStack(r0) /\ dwStackR0 \in Nat
  /\ Waiting(r0, dwStackCurr, Len(r0)) /\ Lets(r0, dwStackR0, Len(r0))
Top == Fr(r0, Len(r0))
Under == Fr(r0, Len(r0) - 1)
Aborted == Top.k = "resume" /\ Top.todo = Esc2 /\ c.pc = DOS /\ c.fl = Off
Running ==
  /\ mode = "v86" => Aborted \/ Here(Top, c, mem)
  /\ mode = "pl0" => Stage(Top, Under, todo, c, mem)
MInv == Typed /\ Stack0 /\ Running
-----------------------------------------------------------------------------
(* What is known of the constants that the operations are made of.         *)
LEMMA ValueSets ==
  /\ Plain \subseteq Pcs /\ BACK \in Pcs /\ DOS \in Pcs /\ ISR \in Plain
  /\ BACK \notin Plain /\ DOS \notin Plain /\ BACK # DOS
  /\ BP \in Plain /\ BP06 \in Plain
  /\ MainPcs \subseteq Plain /\ BACK \notin MainPcs /\ DOS \notin MainPcs
  /\ BP \notin MainPcs /\ BP06 \notin MainPcs
  /\ Off \in Flags /\ Blank \in Cell /\ Blank.pc = BACK
<1>1. /\ BACK \in Pcs /\ DOS \in Pcs /\ Plain \subseteq Pcs /\ BP \in Plain /\ BP06 \in Plain
  BY DEF Pcs, Plain
<1>2. ISR \in Plain
  BY DEF Plain, ISR, At, Code
<1>3. BACK \notin Plain /\ DOS \notin Plain /\ BACK # DOS
  BY DEF Plain, BACK, DOS, BP, BP06, At, Code
<1>4. MainPcs \subseteq Plain
  BY DEF MainPcs, Plain, Code
<1>5. BACK \notin MainPcs /\ DOS \notin MainPcs /\ BP \notin MainPcs /\ BP06 \notin MainPcs
  BY DEF MainPcs, BACK, DOS, BP, BP06, At
<1>6. Off \in Flags
  BY DEF Off, Flags
<1> QED BY <1>1, <1>2, <1>3, <1>4, <1>5, <1>6 DEF Blank, Cell

LEMMA OpFields ==
  /\ \A s \in OpNames \cup {"prompt2"} : Op(s) \in OpSet /\ Op(s).op = s
  /\ \A n \in IntNames : IntTo(n) \in OpSet /\ IntTo(n).op = "int.wr" /\ IntTo(n).n = n
  /\ \A p \in Pcs : CallWr(p) \in OpSet /\ CallWr(p).op = "call.wr" /\ CallWr(p).pc = p
<1>1. BACK \in Pcs
  BY ValueSets
<1>2. ASSUME NEW s \in OpNames \cup {"prompt2"} PROVE Op(s) \in OpSet /\ Op(s).op = s
  BY <1>1 DEF Op, OpSet
<1>3. "int.wr" \in OpNames /\ "call.wr" \in OpNames
  BY DEF OpNames
<1>4. ASSUME NEW n \in IntNames
      PROVE  IntTo(n) \in OpSet /\ IntTo(n).op = "int.wr" /\ IntTo(n).n = n
  BY <1>1, <1>3 DEF IntTo, OpSet
<1>5. ASSUME NEW p \in Pcs
      PROVE  CallWr(p) \in OpSet /\ CallWr(p).op = "call.wr" /\ CallWr(p).pc = p
  <2>1. CallWr(p) = [op |-> "call.wr", n |-> "-", pc |-> p]
    BY DEF CallWr, Op
  <2> QED BY <1>3, <2>1 DEF OpSet
<1> QED BY <1>2, <1>4, <1>5

(* Where interrupts go; an instruction stays in its program.               *)
LEMMA VectorPcs ==
  ASSUME NEW n \in IntNames, n # "21"
  PROVE  Vector(n) \in Plain
BY ValueSets DEF Vector

LEMMA NextPc ==
  ASSUME NEW pc \in Pcs, pc.seg \in Code
  PROVE  /\ pc \in Plain /\ Next1(pc) \in Plain /\ Next1(pc).seg = pc.seg
         /\ pc \in MainPcs => Next1(pc) \in MainPcs
         /\ \A w \in BOOLEAN : [pc EXCEPT !.w = w] \in Plain /\ (pc \in MainPcs => [pc EXCEPT !.w = w] \in MainPcs)
         /\ pc.seg = "isr" => pc \notin MainPcs
<1>1. pc \in [seg : Code, ip : {0, 1}, w : BOOLEAN]
  BY DEF Pcs, Plain, BACK, DOS, BP, BP06, At, Code
<1>2. pc \in Plain
  BY <1>1 DEF Plain
<1>3. Next1(pc) = [seg |-> pc.seg, ip |-> 1 - pc.ip, w |-> FALSE] /\ 1 - pc.ip \in {0, 1}
  <2>1. pc = [seg |-> pc.seg, ip |-> pc.ip, w |-> pc.w] /\ pc.ip \in {0, 1}
    BY <1>1
  <2>2. Next1(pc) = [seg |-> pc.seg, ip |-> 1 - pc.ip, w |-> FALSE]
    <3> DEFINE q == [pc EXCEPT !.ip = 1 - @]
    <3>1. Next1(pc) = [q EXCEPT !.w = FALSE]
      BY DEF Next1
    <3>2. q = [seg |-> pc.seg, ip |-> 1 - pc.ip, w |-> pc.w]
      BY <1>1
    <3> QED BY <3>1, <3>2
  <2> QED BY <2>1, <2>2
<1>4. pc \in MainPcs => Next1(pc) \in MainPcs
  BY <1>1, <1>3 DEF MainPcs
<1>5. \A w \in BOOLEAN : /\ [pc EXCEPT !.w = w] \in [seg : Code, ip : {0, 1}, w : BOOLEAN]
                         /\ pc \in MainPcs => [pc EXCEPT !.w = w] \in MainPcs
  BY <1>1 DEF MainPcs
<1>6. pc.seg = "isr" => pc \notin MainPcs
  BY DEF MainPcs
<1> QED BY <1>2, <1>3, <1>4, <1>5, <1>6 DEF Plain
-----------------------------------------------------------------------------
(* Lists of operations.                                                    *)
LEMMA ThenIs ==
  ASSUME NEW o \in OpSet, NEW k \in Ops
  PROVE  Then(o, k) \in Ops /\ Then(o, k) # << >> /\ Head(Then(o, k)) = o /\ Tail(Then(o, k)) = k
<1>1. << o >> \in Ops /\ Len(<< o >>) = 1
  BY DEF Ops
<1>2. /\ Then(o, k) \in Ops /\ Len(Then(o, k)) = 1 + Len(k)
      /\ \A i \in 1 .. 1 + Len(k) : Then(o, k)[i] = IF i <= 1 THEN o ELSE k[i - 1]
  BY <1>1, ConcatProperties DEF Ops, Then
<1>3. Then(o, k) # << >> /\ Len(k) \in Nat
  BY <1>2 DEF Ops
<1>4. Head(Then(o, k)) = o
  BY <1>2, <1>3, HeadTailProperties DEF Ops
<1>5. Tail(Then(o, k)) = k
  <2>1. /\ Tail(Then(o, k)) \in Ops /\ Len(Tail(Then(o, k))) = Len(k)
        /\ \A i \in 1 .. Len(k) : Tail(Then(o, k))[i] = Then(o, k)[i + 1]
    BY <1>2, <1>3, HeadTailProperties DEF Ops
  <2>2. \A i \in 1 .. Len(k) : Tail(Then(o, k))[i] = k[i]
    BY <1>2, <1>3, <2>1
  <2> QED BY <2>1, <2>2, SeqEqual DEF Ops
<1> QED BY <1>2, <1>3, <1>4, <1>5

LEMMA Pairs ==
  ASSUME NEW a \in OpSet, NEW b \in OpSet, NEW k \in Ops
  PROVE  << a, b >> \in Ops /\ << a, b >> = Then(a, << b >>) /\ << a, b >> \o k = Then(a, Then(b, k))
<1>1. << a >> \in Ops /\ << b >> \in Ops /\ << a, b >> \in Ops
  BY DEF Ops
<1>2. << a, b >> = << a >> \o << b >>
  <2>1. << a >> \o << b >> \in Ops /\ Len(<< a >> \o << b >>) = 2
    BY <1>1, ConcatProperties DEF Ops
  <2>2. (<< a >> \o << b >>)[1] = a /\ (<< a >> \o << b >>)[2] = b
    BY <1>1, ConcatProperties DEF Ops
  <2>3. Len(<< a, b >>) = 2 /\ << a, b >>[1] = a /\ << a, b >>[2] = b
    OBVIOUS
  <2>4. \A i \in 1 .. 2 : << a, b >>[i] = (<< a >> \o << b >>)[i]
      BY <2>2, <2>3
    <2> QED BY <1>1, <2>1, <2>3, <2>4, SeqEqual DEF Ops
<1>3. << a, b >> \o k = << a >> \o (<< b >> \o k)
  BY <1>1, <1>2, ConcatAssociative DEF Ops
<1> QED BY <1>1, <1>2, <1>3 DEF Then

LEMMA Triples ==
  ASSUME NEW a \in OpSet, NEW b \in OpSet, NEW d \in OpSet, NEW k \in Ops
  PROVE  /\ << a, b, d >> \in Ops /\ << a, b, d >> = Then(a, << b, d >>)
         /\ << a, b, d >> \o k = Then(a, Then(b, Then(d, k)))
<1>1. << a >> \in Ops /\ << b, d >> \in Ops /\ << a, b, d >> \in Ops /\ Len(<< b, d >>) = 2
  BY DEF Ops
<1>2. << a, b, d >> = << a >> \o << b, d >>
  <2> DEFINE s == << a >> \o << b, d >>
  <2>1. s \in Ops /\ Len(s) = 3
    BY <1>1, ConcatProperties DEF Ops
  <2>2. s[1] = a /\ s[2] = b /\ s[3] = d
    BY <1>1, ConcatProperties DEF Ops
  <2>3. /\ Len(<< a, b, d >>) = 3
        /\ << a, b, d >>[1] = a /\ << a, b, d >>[2] = b /\ << a, b, d >>[3] = d
    OBVIOUS
  <2> HIDE DEF s
  <2>4. \A i \in 1 .. 3 : << a, b, d >>[i] = s[i]
    BY <2>2, <2>3
  <2>5. << a, b, d >> = s
    BY <1>1, <2>1, <2>3, <2>4, SeqEqual DEF Ops
  <2> QED BY <2>5 DEF s
<1>3. << a, b, d >> \o k = << a >> \o (<< b, d >> \o k)
  BY <1>1, <1>2, ConcatAssociative DEF Ops
<1>4. << b, d >> \o k = Then(b, Then(d, k))
  BY Pairs
<1> QED BY <1>1, <1>2, <1>3, <1>4 DEF Then

(* The lists that a call into V86 mode goes through.                       *)
LEMMA CallLists ==
  ASSUME NEW k \in Ops, NEW n \in IntNames
  PROVE  /\ RetSp(k) \in Ops /\ RetSp(k) # << >>
         /\ Head(RetSp(k)) = Op("ret.sp") /\ Tail(RetSp(k)) = k
         /\ RetPc(k) \in Ops /\ RetPc(k) # << >>
         /\ Head(RetPc(k)) = Op("ret.pc") /\ Tail(RetPc(k)) = RetSp(k)
         /\ Res(k) \in Ops /\ Res(k) # << >>
         /\ Head(Res(k)) = Op("resume") /\ Tail(Res(k)) = RetPc(k)
         /\ IntWr(n, k) \in Ops /\ IntWr(n, k) # << >>
         /\ Head(IntWr(n, k)) = IntTo(n) /\ Tail(IntWr(n, k)) = Res(k)
         /\ IntSp(n, k) \in Ops /\ IntSp(n, k) # << >>
         /\ Head(IntSp(n, k)) = Op("int.sp") /\ Tail(IntSp(n, k)) = IntWr(n, k)
<1>0. /\ Op("ret.sp") \in OpSet /\ Op("ret.pc") \in OpSet /\ Op("resume") \in OpSet
      /\ Op("int.sp") \in OpSet /\ IntTo(n) \in OpSet
  BY OpFields DEF OpNames
<1>1. RetSp(k) \in Ops /\ RetSp(k) # << >> /\ Head(RetSp(k)) = Op("ret.sp") /\ Tail(RetSp(k)) = k
  BY <1>0, ThenIs DEF RetSp
<1>2. /\ RetPc(k) \in Ops /\ RetPc(k) # << >>
      /\ Head(RetPc(k)) = Op("ret.pc") /\ Tail(RetPc(k)) = RetSp(k)
  BY <1>1, <1>0, ThenIs DEF RetPc
<1>3. Res(k) \in Ops /\ Res(k) # << >> /\ Head(Res(k)) = Op("resume") /\ Tail(Res(k)) = RetPc(k)
  BY <1>2, <1>0, ThenIs DEF Res
<1>4. /\ IntWr(n, k) \in Ops /\ IntWr(n, k) # << >>
      /\ Head(IntWr(n, k)) = IntTo(n) /\ Tail(IntWr(n, k)) = Res(k)
  BY <1>3, <1>0, ThenIs DEF IntWr
<1>5. /\ IntSp(n, k) \in Ops /\ IntSp(n, k) # << >>
      /\ Head(IntSp(n, k)) = Op("int.sp") /\ Tail(IntSp(n, k)) = IntWr(n, k)
  BY <1>4, <1>0, ThenIs DEF IntSp
<1> QED BY <1>1, <1>2, <1>3, <1>4, <1>5

LEMMA RunList ==
  ASSUME NEW k \in Ops, NEW n \in IntNames
  PROVE  /\ RunV86(n) \o k = Then(Op("begin"), IntSp(n, k)) /\ RunV86(n) \o k \in Ops
         /\ RunV86(n) \in Ops
         /\ RunV86(n) \o k # << >> /\ Head(RunV86(n) \o k) = Op("begin")
         /\ Tail(RunV86(n) \o k) = IntSp(n, k)
<1> DEFINE b == << Op("begin") >>
           r == << Op("resume"), Op("ret.pc"), Op("ret.sp") >>
<1>1. /\ Op("begin") \in OpSet /\ Op("ret.sp") \in OpSet /\ Op("ret.pc") \in OpSet
      /\ Op("resume") \in OpSet /\ Op("int.sp") \in OpSet /\ IntTo(n) \in OpSet
  BY OpFields DEF OpNames
<1>2. b \in Ops /\ r \in Ops /\ Simulate_Int(n) \in Ops
  BY <1>1 DEF Ops, Simulate_Int
<1>3. RunV86(n) = (b \o Simulate_Int(n)) \o r
  BY DEF RunV86
<1>4. r \o k = Res(k)
  <2>1. r \o k = Then(Op("resume"), Then(Op("ret.pc"), Then(Op("ret.sp"), k)))
    <3>1. \A x, y, z \in OpSet : << x, y, z >> \o k = Then(x, Then(y, Then(z, k)))
      BY Triples
    <3> QED BY <1>1, <3>1, Zenon
  <2> QED BY <2>1 DEF Res, RetPc, RetSp
<1>5. Res(k) \in Ops /\ IntSp(n, k) \in Ops
  BY CallLists
<1>6. Simulate_Int(n) \o Res(k) = IntSp(n, k)
  BY <1>1, <1>5, Pairs DEF Simulate_Int, IntSp, IntWr
<1> HIDE DEF b, r
<1>7. b \o Simulate_Int(n) \in Ops /\ RunV86(n) \in Ops
  BY <1>2, <1>3, ConcatProperties DEF Ops
<1>8. RunV86(n) \o k = (b \o Simulate_Int(n)) \o (r \o k)
  BY <1>2, <1>3, <1>7, ConcatAssociative DEF Ops
<1>9. (b \o Simulate_Int(n)) \o Res(k) = b \o (Simulate_Int(n) \o Res(k))
  BY <1>2, <1>5, ConcatAssociative DEF Ops
<1>10. RunV86(n) \o k = Then(Op("begin"), IntSp(n, k))
  BY <1>4, <1>6, <1>8, <1>9 DEF Then, b
<1> QED BY <1>1, <1>5, <1>7, <1>10, ThenIs

LEMMA ContLists ==
  ASSUME NEW k \in Conts
  PROVE  k \in Ops /\ k # << >>
<1>1. /\ Op("exit") \in OpSet /\ Op("unmask") \in OpSet
      /\ Op("nmi.end") \in OpSet /\ Op("irq.end") \in OpSet
  BY OpFields DEF OpNames
<1>2. << Op("exit") >> \in Ops /\ << Op("irq.end") >> \in Ops
  BY <1>1 DEF Ops
<1>3. << Op("unmask"), Op("exit") >> \in Ops /\ << Op("unmask"), Op("nmi.end") >> \in Ops
  BY <1>1, <1>2, Pairs
<1> QED BY <1>2, <1>3 DEF Conts

LEMMA BodyLists ==
  ASSUME NEW b \in Bodies
  PROVE  /\ b \in Ops /\ b # << >>
         /\ \/ IsExit(b)
            \/ Head(b).op = "yield" /\ IsExit(Tail(b))
            \/ Head(b).op = "begin" /\ Tail(b) = IntSp("10", << Op("exit") >>)
            \/ Head(b).op = "fault"
<1>1. /\ Op("exit") \in OpSet /\ Op("yield") \in OpSet /\ Op("fault") \in OpSet
      /\ Op("exit").op = "exit" /\ Op("yield").op = "yield" /\ Op("fault").op = "fault"
      /\ Op("begin").op = "begin"
  BY OpFields DEF OpNames
<1>2. /\ << Op("exit") >> \in Ops /\ << Op("fault") >> \in Ops /\ IsExit(<< Op("exit") >>)
      /\ << Op("fault") >> # << >> /\ Head(<< Op("fault") >>) = Op("fault")
  BY <1>1 DEF Ops, IsExit
<1>3. CASE b = << >> \o << Op("exit") >>
  <2>1. b = << Op("exit") >>
    BY <1>2, <1>3, ConcatEmptySeq DEF Ops
  <2> QED BY <1>2, <2>1 DEF IsExit
<1>4. CASE b = << Op("yield") >> \o << Op("exit") >>
  <2>1. b = Then(Op("yield"), << Op("exit") >>)
    BY <1>4 DEF Then
  <2> QED BY <1>1, <1>2, <2>1, ThenIs
<1>5. CASE b = RunV86("10") \o << Op("exit") >>
  BY <1>1, <1>2, <1>5, RunList DEF IntNames
<1>6. CASE b = << Op("fault") >> \o << Op("exit") >>
  <2>1. b = Then(Op("fault"), << Op("exit") >>)
    BY <1>6 DEF Then
  <2> QED BY <1>1, <1>2, <2>1, ThenIs
<1>7. CASE b = << Op("fault") >>
  BY <1>1, <1>2, <1>7
<1> QED BY <1>3, <1>4, <1>5, <1>6, <1>7 DEF Bodies
-----------------------------------------------------------------------------
(* The V86 stack.  A program's cells are above its frame's.                *)
Fits(f) == Base(f) \in 1 .. (Cells + 1)

(* Only the cells from the client's SP on matter.                          *)
LEMMA V86Agrees ==
  ASSUME NEW f, Fits(f), NEW pc, NEW fl, NEW sp, NEW m, NEW l,
         V86(f, pc, fl, sp, m), \A i \in sp .. Cells : m[i] = l[i]
  PROVE  V86(f, pc, fl, sp, l)
<1>1. Base(f) \in 1 .. (Cells + 1) /\ sp \in 1 .. Base(f) /\ Cells \in Nat
  BY MonAssumption DEF Fits, V86
<1>2. \A i \in (sp - 1) .. Cells : X(pc, fl, sp, m, i) = X(pc, fl, sp, l, i)
  BY <1>1 DEF X
<1>3. IsBottom(f, X(pc, fl, sp, l, Base(f) - 1))
  BY <1>1, <1>2 DEF V86
<1>4. \A i \in (sp - 1) .. (Base(f) - 2) : X(pc, fl, sp, l, i).pc \in Plain
  BY <1>1, <1>2 DEF V86
<1>5. Calls(f) => \A i \in Base(f) .. Cells : l[i] = f.seen.live[i]
  BY <1>1 DEF V86
<1> QED BY <1>1, <1>3, <1>4, <1>5 DEF V86

(* An interrupt pushes a frame.                                            *)
LEMMA V86Push ==
  ASSUME NEW f, Fits(f), NEW pc \in Plain, NEW cl \in ClientStates,
         NEW m \in [1 .. (Cells + 1) -> Cell], NEW fl,
         V86(f, cl.pc, cl.fl, cl.sp, m), cl.sp > 1
  PROVE  V86(f, pc, fl, cl.sp - 1, [m EXCEPT ![cl.sp - 1] = [pc |-> cl.pc, fl |-> cl.fl]])
<1> DEFINE l == [m EXCEPT ![cl.sp - 1] = [pc |-> cl.pc, fl |-> cl.fl]]
           s == cl.sp - 1
<1>1. /\ Base(f) \in 1 .. (Cells + 1) /\ cl.sp \in 1 .. Base(f) /\ Cells \in Nat
      /\ s \in 1 .. Base(f) /\ s \in 1 .. Cells /\ cl.sp \in Nat
  BY MonAssumption DEF Fits, V86
<1>2. l[s] = X(cl.pc, cl.fl, cl.sp, m, s) /\ \A i \in cl.sp .. Cells : l[i] = X(cl.pc, cl.fl, cl.sp, m, i)
  BY <1>1 DEF X
<1>3. \A i \in s .. Cells : X(pc, fl, s, l, i) = X(cl.pc, cl.fl, cl.sp, m, i)
  <2> HIDE DEF l
  <2> QED BY <1>1, <1>2 DEF X
<1>4. X(pc, fl, s, l, s - 1).pc = pc
  BY DEF X
<1>5. IsBottom(f, X(pc, fl, s, l, Base(f) - 1))
  <2>1. Base(f) - 1 \in s .. Cells
    BY <1>1
  <2> QED BY <1>3, <2>1 DEF V86
<1>6. \A i \in (s - 1) .. (Base(f) - 2) : X(pc, fl, s, l, i).pc \in Plain
  <2>1. \A i \in s .. (Base(f) - 2) : X(cl.pc, cl.fl, cl.sp, m, i).pc \in Plain
    BY DEF V86
  <2> HIDE DEF l
  <2>2. ASSUME NEW i \in (s - 1) .. (Base(f) - 2) PROVE i = s - 1 \/ (i \in s .. Cells /\ i \in s .. (Base(f) - 2))
    BY <1>1
  <2> QED BY <1>3, <1>4, <2>1, <2>2
<1>7. Calls(f) => \A i \in Base(f) .. Cells : l[i] = f.seen.live[i]
  <2> HIDE DEF l
  <2>1. \A i \in Base(f) .. Cells : l[i] = m[i]
    BY <1>1, <1>2 DEF X
  <2> QED BY <1>1, <2>1 DEF V86
<1> QED BY <1>1, <1>5, <1>6, <1>7 DEF V86

(* A client that is not at its first frame may pop one.                    *)
LEMMA V86Pop ==
  ASSUME NEW f, Fits(f), NEW pc, NEW fl, NEW sp, NEW m,
         \A i \in 1 .. Cells : m[i] \in Cell,
         V86(f, pc, fl, sp, m), pc # BACK, pc \notin MainPcs
  PROVE  sp \in 1 .. Cells /\ V86(f, m[sp].pc, m[sp].fl, sp + 1, m)
         /\ m[sp].pc \in Plain \cup {BACK}
<1>1. Base(f) \in 1 .. (Cells + 1) /\ sp \in 1 .. Base(f) /\ Cells \in Nat
  BY MonAssumption DEF Fits, V86
<1>2. sp # Base(f)
  <2>1. sp = Base(f) => X(pc, fl, sp, m, Base(f) - 1).pc = pc
    BY DEF X
  <2> QED BY <2>1 DEF V86, IsBottom
<1>3. \A i \in sp .. Cells : X(pc, fl, sp, m, i) = m[i]
  BY <1>1 DEF X
<1>4. Calls(f) => \A i \in Base(f) .. Cells : m[i] = f.seen.live[i]
  BY DEF V86
<1>5. m[sp].pc \in Plain \cup {BACK}
  <2>1. sp \in (sp - 1) .. (Base(f) - 2) \/ sp = Base(f) - 1
    BY <1>1, <1>2
  <2> QED BY <1>1, <1>2, <1>3, <2>1, ValueSets DEF V86, IsBottom
<1>6. ASSUME NEW i \in sp .. Cells
      PROVE  X(m[sp].pc, m[sp].fl, sp + 1, m, i) = m[i]
  <2>1. m[i] \in Cell
    BY <1>1
  <2> QED BY <1>1, <2>1 DEF X, Cell
<1> QED BY <1>1, <1>2, <1>3, <1>4, <1>5, <1>6 DEF V86

(* A program goes on to its next instruction; BACK is not in a program.    *)
LEMMA V86Step ==
  ASSUME NEW f, Fits(f), NEW pc, NEW fl, NEW sp, NEW m, NEW p, NEW l,
         V86(f, pc, fl, sp, m), pc # BACK, p \in Plain, pc \in MainPcs => p \in MainPcs
  PROVE  V86(f, p, l, sp, m)
<1>1. Base(f) \in 1 .. (Cells + 1) /\ sp \in 1 .. Base(f) /\ Cells \in Nat
  BY MonAssumption DEF Fits, V86
<1>2. \A i \in sp .. Cells : X(pc, fl, sp, m, i) = X(p, l, sp, m, i)
  BY <1>1 DEF X
<1>3. X(p, l, sp, m, sp - 1).pc = p /\ X(pc, fl, sp, m, sp - 1).pc = pc
  BY DEF X
<1>4. IsBottom(f, X(p, l, sp, m, Base(f) - 1))
  BY <1>1, <1>2, <1>3 DEF V86, IsBottom
<1> QED BY <1>1, <1>2, <1>3, <1>4 DEF V86

(* When a call into V86 mode has returned, the stack is as the call left   *)
(* it; otherwise the client is at an instruction or a breakpoint.          *)
LEMMA V86Returned ==
  ASSUME NEW f, Fits(f), NEW pc, NEW fl, NEW sp, NEW m, V86(f, pc, fl, sp, m)
  PROVE  IF pc = BACK
           THEN /\ Calls(f) /\ sp = f.seen.c.sp + 1 /\ fl = f.seen.live[sp - 1].fl
                /\ \A i \in sp .. Cells : m[i] = f.seen.live[i]
           ELSE pc \in Plain
<1>1. Base(f) \in 1 .. (Cells + 1) /\ sp \in 1 .. Base(f) /\ Cells \in Nat
  BY MonAssumption DEF Fits, V86
<1>2. X(pc, fl, sp, m, sp - 1) = [pc |-> pc, fl |-> fl]
  BY DEF X
<1>3. CASE sp = Base(f)
  BY <1>1, <1>2, <1>3, ValueSets DEF V86, IsBottom, Base
<1>4. CASE sp # Base(f)
  <2>1. sp - 1 \in (sp - 1) .. (Base(f) - 2)
    BY <1>1, <1>4
  <2> QED BY <1>2, <2>1, ValueSets DEF V86
<1> QED BY <1>3, <1>4
-----------------------------------------------------------------------------
(* The client's stack below its SP does not matter to what holds.          *)
LEMMA BackAgrees ==
  ASSUME NEW f, Fits(f), NEW k \in Conts, NEW pc, NEW fl, NEW sp, NEW m, NEW l,
         Back(k, f, pc, fl, sp, m), \A i \in sp .. Cells : m[i] = l[i]
  PROVE  Back(k, f, pc, fl, sp, l)
<1>1. V86(f, pc, fl, sp, m) => V86(f, pc, fl, sp, l)
  BY V86Agrees
<1>2. Kept(f, pc, sp, m) => Kept(f, pc, sp, l)
  BY DEF Kept
<1> QED BY <1>1, <1>2 DEF Back

LEMMA CallsAgree ==
  ASSUME NEW f, Fits(f), NEW rest, NEW cl \in ClientStates, NEW m, NEW l,
         \A i \in cl.sp .. Cells : m[i] = l[i]
  PROVE  /\ AtBegin(f, rest, cl, m) => AtBegin(f, rest, cl, l)
         /\ AtCallSp(f, rest, cl, m) => AtCallSp(f, rest, cl, l)
         /\ \A p : AtCallWr(f, p, rest, cl, m) => AtCallWr(f, p, rest, cl, l)
         /\ AtIntSp(f, rest, cl, m) => AtIntSp(f, rest, cl, l)
         /\ \A n : AtIntWr(f, n, rest, cl, m) => AtIntWr(f, n, rest, cl, l)
         /\ AtResume(f, rest, cl, m) => AtResume(f, rest, cl, l)
         /\ AtRetPc(f, rest, cl, m) => AtRetPc(f, rest, cl, l)
         /\ AtRetSp(f, rest, cl, m) => AtRetSp(f, rest, cl, l)
<1>1. cl.sp \in 1 .. (Cells + 1) /\ Cells \in Nat
  BY MonAssumption DEF ClientStates
<1>2. ASSUME NEW k \in Conts, NEW pc, NEW fl, NEW s \in cl.sp .. (cl.sp + 2),
             Back(k, f, pc, fl, s, m)
      PROVE  s <= Cells + 1 /\ Back(k, f, pc, fl, s, l)
  <2>1. s <= Cells + 1
    BY <1>2 DEF Back
  <2>2. \A i \in s .. Cells : m[i] = l[i]
    BY <1>1
  <2> QED BY <1>2, <2>1, <2>2, BackAgrees
<1>3. Here(f, cl, m) => Here(f, cl, l)
  BY V86Agrees DEF Here
<1>4. HereAbove(f, cl, m) => HereAbove(f, cl, l)
  <2>1. \A i \in (cl.sp + 1) .. Cells : m[i] = l[i]
    BY <1>1
  <2> QED BY <2>1, V86Agrees DEF HereAbove
<1>5. cl.sp \in cl.sp .. (cl.sp + 2) /\ cl.sp + 1 \in cl.sp .. (cl.sp + 2)
      /\ cl.sp + 2 \in cl.sp .. (cl.sp + 2)
  BY <1>1
<1>6. AtBegin(f, rest, cl, m) => AtBegin(f, rest, cl, l)
  BY <1>2, <1>5 DEF AtBegin
<1>7. AtCallSp(f, rest, cl, m) => AtCallSp(f, rest, cl, l)
  BY <1>2, <1>5 DEF AtCallSp
<1>8. ASSUME NEW p PROVE AtCallWr(f, p, rest, cl, m) => AtCallWr(f, p, rest, cl, l)
  BY <1>2, <1>5 DEF AtCallWr
<1>9. AtIntSp(f, rest, cl, m) => AtIntSp(f, rest, cl, l)
  <2>1. cl.sp <= Cells => m[cl.sp] = l[cl.sp]
    BY <1>1
  <2> QED BY <1>2, <1>3, <1>5, <2>1 DEF AtIntSp
<1>10. ASSUME NEW n PROVE AtIntWr(f, n, rest, cl, m) => AtIntWr(f, n, rest, cl, l)
  <2>1. cl.sp + 2 <= Cells + 1 => m[cl.sp + 1] = l[cl.sp + 1]
    BY <1>1
  <2> QED BY <1>2, <1>4, <1>5, <2>1 DEF AtIntWr
<1>11. AtResume(f, rest, cl, m) => AtResume(f, rest, cl, l)
  <2>1. cl.sp + 2 <= Cells + 1 => m[cl.sp + 1] = l[cl.sp + 1] /\ m[cl.sp] = l[cl.sp]
    BY <1>1
  <2> QED BY <1>2, <1>5, <2>1 DEF AtResume, Called
<1>12. AtRetPc(f, rest, cl, m) => AtRetPc(f, rest, cl, l)
  <2>1. cl.sp + 1 <= Cells + 1 => m[cl.sp] = l[cl.sp]
    BY <1>1
  <2> QED BY <1>2, <1>5, <2>1 DEF AtRetPc
<1>13. AtRetSp(f, rest, cl, m) => AtRetSp(f, rest, cl, l)
  BY <1>2, <1>5 DEF AtRetSp
<1> QED BY <1>6, <1>7, <1>8, <1>9, <1>10, <1>11, <1>12, <1>13

LEMMA StageAgrees ==
  ASSUME NEW f, Fits(f), NEW g, Fits(g), NEW t, NEW cl \in ClientStates, NEW m, NEW l,
         \A i \in cl.sp .. Cells : m[i] = l[i], Stage(f, g, t, cl, m)
  PROVE  Stage(f, g, t, cl, l)
<1>1. cl.sp \in 1 .. (Cells + 1) /\ Cells \in Nat
  BY MonAssumption DEF ClientStates
<1>2. \A h \in {f, g} : Here(h, cl, m) => Here(h, cl, l)
  BY V86Agrees DEF Here
<1>3. HereAbove(f, cl, m) => HereAbove(f, cl, l)
  <2>1. \A i \in (cl.sp + 1) .. Cells : m[i] = l[i]
    BY <1>1
  <2> QED BY <2>1, V86Agrees DEF HereAbove
<1>4. Kept(f, cl.pc, cl.sp, m) => Kept(f, cl.pc, cl.sp, l)
  BY DEF Kept
<1> DEFINE r == Tail(t)
<1>5. /\ AtYield(f, r, cl, m) => AtYield(f, r, cl, l)
      /\ AtEnable(f, r, cl, m) => AtEnable(f, r, cl, l)
      /\ AtWindow(f, g, r, cl, m) => AtWindow(f, g, r, cl, l)
      /\ AtDisable(f, g, r, cl, m) => AtDisable(f, g, r, cl, l)
  <2> HIDE DEF r
  <2> QED BY <1>2 DEF AtYield, AtEnable, AtWindow, AtDisable, Goes
<1>6. /\ AtIretPc(f, r, cl, m) => AtIretPc(f, r, cl, l)
      /\ AtIretSp(f, r, cl, m) => AtIretSp(f, r, cl, l)
      /\ AtUnmask(f, r, cl, m) => AtUnmask(f, r, cl, l)
      /\ AtNmiEnd(f, cl, m) => AtNmiEnd(f, cl, l)
      /\ AtIrqEnd(f, cl, m) => AtIrqEnd(f, cl, l)
  <2> HIDE DEF r
  <2> QED BY <1>2, <1>3, <1>4 DEF AtIretPc, AtIretSp, AtUnmask, AtNmiEnd, AtIrqEnd
<1>7. /\ AtBegin(f, r, cl, m) => AtBegin(f, r, cl, l)
      /\ AtCallSp(f, r, cl, m) => AtCallSp(f, r, cl, l)
      /\ \A p : AtCallWr(f, p, r, cl, m) => AtCallWr(f, p, r, cl, l)
      /\ AtIntSp(f, r, cl, m) => AtIntSp(f, r, cl, l)
      /\ \A n : AtIntWr(f, n, r, cl, m) => AtIntWr(f, n, r, cl, l)
      /\ AtResume(f, r, cl, m) => AtResume(f, r, cl, l)
      /\ AtRetPc(f, r, cl, m) => AtRetPc(f, r, cl, l)
      /\ AtRetSp(f, r, cl, m) => AtRetSp(f, r, cl, l)
  <2> HIDE DEF r
  <2> QED BY CallsAgree
<1>8. ASSUME NEW o, At0(f, g, o, r, cl, m) PROVE At0(f, g, o, r, cl, l)
  <2> HIDE DEF r
  <2> QED BY <1>2, <1>5, <1>6, <1>7, <1>8 DEF At0
<1> QED BY <1>8 DEF Stage

(* What an operation needs is what holds before it, and no more.           *)
LEMMA StageIs ==
  ASSUME NEW f, NEW g, NEW t, NEW cl, NEW m, t # << >>
  PROVE
    /\ Head(t).op = "begin" => (Stage(f, g, t, cl, m) <=> AtBegin(f, Tail(t), cl, m))
    /\ Head(t).op = "call.sp" => (Stage(f, g, t, cl, m) <=> AtCallSp(f, Tail(t), cl, m))
    /\ Head(t).op = "call.wr" => (Stage(f, g, t, cl, m) <=> AtCallWr(f, Head(t).pc, Tail(t), cl, m))
    /\ Head(t).op = "int.sp" => (Stage(f, g, t, cl, m) <=> AtIntSp(f, Tail(t), cl, m))
    /\ Head(t).op = "int.wr" => (Stage(f, g, t, cl, m) <=> AtIntWr(f, Head(t).n, Tail(t), cl, m))
    /\ Head(t).op = "resume" => (Stage(f, g, t, cl, m) <=> AtResume(f, Tail(t), cl, m))
    /\ Head(t).op = "ret.pc" => (Stage(f, g, t, cl, m) <=> AtRetPc(f, Tail(t), cl, m))
    /\ Head(t).op = "ret.sp" => (Stage(f, g, t, cl, m) <=> AtRetSp(f, Tail(t), cl, m))
    /\ Head(t).op = "yield" => (Stage(f, g, t, cl, m) <=> AtYield(f, Tail(t), cl, m))
    /\ Head(t).op = "enable" => (Stage(f, g, t, cl, m) <=> AtEnable(f, Tail(t), cl, m))
    /\ Head(t).op = "window" => (Stage(f, g, t, cl, m) <=> AtWindow(f, g, Tail(t), cl, m))
    /\ Head(t).op = "disable" => (Stage(f, g, t, cl, m) <=> AtDisable(f, g, Tail(t), cl, m))
    /\ Head(t).op = "prompt" => (Stage(f, g, t, cl, m) <=> f.k = "none")
    /\ Head(t).op = "iret.pc" => (Stage(f, g, t, cl, m) <=> AtIretPc(f, Tail(t), cl, m))
    /\ Head(t).op = "iret.sp" => (Stage(f, g, t, cl, m) <=> AtIretSp(f, Tail(t), cl, m))
    /\ Head(t).op = "unmask" => (Stage(f, g, t, cl, m) <=> AtUnmask(f, Tail(t), cl, m))
    /\ Head(t).op = "nmi.end" => (Stage(f, g, t, cl, m) <=> AtNmiEnd(f, cl, m))
    /\ Head(t).op = "irq.end" => (Stage(f, g, t, cl, m) <=> AtIrqEnd(f, cl, m))
    /\ Head(t).op \in {"exit", "hook"} => (Stage(f, g, t, cl, m) <=> Here(f, cl, m))
    /\ Head(t).op \in {"fault", "reset"} => Stage(f, g, t, cl, m)
BY DEF Stage, At0, OpNames

LEMMA Continues ==
  ASSUME NEW f, NEW g, NEW k \in Conts, NEW cl, NEW m, Back(k, f, cl.pc, cl.fl, cl.sp, m)
  PROVE  Stage(f, g, k, cl, m)
<1>1. CASE k = << Op("exit") >>
  <2>1. k # << >> /\ Head(k).op = "exit"
    BY <1>1, OpFields DEF OpNames
  <2> QED BY <1>1, <2>1, StageIs DEF Back, Here
<1>2. CASE k = << Op("unmask"), Op("exit") >>
  <2>1. k # << >> /\ Head(k).op = "unmask" /\ Tail(k) = << Op("exit") >>
    BY <1>2, OpFields DEF OpNames
  <2> QED BY <1>2, <2>1, StageIs DEF Back, Here, AtUnmask
<1>3. CASE k = << Op("unmask"), Op("nmi.end") >>
  <2>1. k # << >> /\ Head(k).op = "unmask" /\ Tail(k) = << Op("nmi.end") >>
    BY <1>3, OpFields DEF OpNames
  <2> QED BY <1>3, <2>1, StageIs DEF Back, AtUnmask
<1>4. CASE k = << Op("irq.end") >>
  <2>1. k # << >> /\ Head(k).op = "irq.end"
    BY <1>4, OpFields DEF OpNames
  <2> QED BY <1>4, <2>1, StageIs DEF Back, AtIrqEnd
<1> QED BY <1>1, <1>2, <1>3, <1>4 DEF Conts

LEMMA BodyStage ==
  ASSUME NEW f, NEW g, NEW b \in Bodies, NEW cl \in ClientStates, NEW m, Here(f, cl, m)
  PROVE  Stage(f, g, b, cl, m)
<1>1. CASE IsExit(b)
  BY <1>1, BodyLists, StageIs DEF IsExit
<1>2. CASE Head(b).op = "yield" /\ IsExit(Tail(b))
  BY <1>2, BodyLists, StageIs DEF AtYield, Goes
<1>3. CASE Head(b).op = "begin" /\ Tail(b) = IntSp("10", << Op("exit") >>)
  <2>1. << Op("exit") >> \in Conts /\ "10" \in Nested
    BY DEF Conts, Nested
  <2>2. Back(<< Op("exit") >>, f, cl.pc, cl.fl, cl.sp, m)
    BY OpFields DEF Here, Back, OpNames, ClientStates
  <2> QED BY <1>3, <2>1, <2>2, BodyLists, StageIs DEF AtBegin
<1>4. CASE Head(b).op = "fault"
  BY <1>4, BodyLists, StageIs
<1> QED BY <1>1, <1>2, <1>3, <1>4, BodyLists
-----------------------------------------------------------------------------
(* The ring 0 stack.                                                       *)
LEMMA FrameFits ==
  ASSUME NEW r \in Seq(FrameSet), GoodStack(r), NEW j
  PROVE  Fits(Fr(r, j))
<1> DEFINE f == Fr(r, j)
<1>1. Cells + 1 \in 1 .. (Cells + 1) /\ Cells \in Nat
  BY MonAssumption
<1>2. CASE ~Calls(f)
  <2>1. Fits(f)
    <3> HIDE DEF f
    <3> QED BY <1>1, <1>2 DEF Fits, Base
  <2> QED BY <2>1
<1>3. CASE Calls(f)
  <2>1. j \in DOMAIN r /\ f = r[j]
    BY <1>3 DEF Fr, Calls, Ground, Frame
  <2>2. FrameOn(Fr(r, j - 1), Fr(r, j - 2), f)
    BY <2>1 DEF GoodStack
  <2>3. PICK k \in Conts : SeenOK(f.seen) /\ Called(k, Fr(r, j - 1), f.seen.c, f.seen.live)
    <3> HIDE DEF f
    <3> QED BY <1>3, <2>2 DEF FrameOn, Calls
  <2>4. f.seen.c.sp \in 1 .. (Cells + 1) /\ f.seen.c.sp + 2 \in 1 .. (Cells + 1)
    <3> HIDE DEF f
    <3> QED BY <2>3 DEF SeenOK, ClientStates, Called, Back
  <2>5. Fits(f)
    <3> HIDE DEF f
    <3> QED BY <1>1, <1>3, <2>4 DEF Fits, Base
  <2> QED BY <2>5
<1> QED BY <1>2, <1>3

(* What holds of the frames up to one is a matter of these frames only.    *)
LEMMA SameFrames ==
  ASSUME NEW r \in Seq(FrameSet), NEW q \in Seq(FrameSet), NEW n \in Nat,
         n <= Len(r), n <= Len(q), \A i \in 1 .. n : q[i] = r[i]
  PROVE  /\ \A j \in Int : j <= n => Fr(q, j) = Fr(r, j)
         /\ \A x, j \in Nat : j <= n /\ Waiting(r, x, j) => Waiting(q, x, j)
         /\ \A x \in Nat, j \in Nat : j <= n /\ Lets(r, x, j) => Lets(q, x, j)
<1>1. DOMAIN r = 1 .. Len(r) /\ DOMAIN q = 1 .. Len(q) /\ Len(r) \in Nat /\ Len(q) \in Nat
  OBVIOUS
<1>2. ASSUME NEW j \in Int, j <= n PROVE Fr(q, j) = Fr(r, j)
  <2>1. CASE j \in 1 .. n
    BY <1>1, <2>1 DEF Fr
  <2>2. CASE j \notin 1 .. n
    BY <1>1, <1>2, <2>2 DEF Fr
  <2> QED BY <2>1, <2>2
<1>3. ASSUME NEW x \in Nat, NEW j \in Nat, j <= n, Waiting(r, x, j) PROVE Waiting(q, x, j)
  BY <1>3 DEF Waiting
<1>4. ASSUME NEW x \in Nat, NEW j \in Nat, j <= n, Lets(r, x, j) PROVE Lets(q, x, j)
  BY <1>4 DEF Lets
<1> QED BY <1>2, <1>3, <1>4

LEMMA StackUpTo ==
  ASSUME NEW r \in Seq(FrameSet), NEW q \in Seq(FrameSet), NEW n \in Nat,
         n <= Len(r), n <= Len(q), \A i \in 1 .. n : q[i] = r[i], GoodStack(r)
  PROVE  \A j \in 1 .. n :
           /\ FrameOn(Fr(q, j - 1), Fr(q, j - 2), q[j])
           /\ q[j].k = "resume" => Waiting(q, q[j].n, j - 1)
           /\ q[j].k = "ints" => Lets(q, q[j].n, j - 1)
<1> TAKE j \in 1 .. n
<1>1. j \in DOMAIN r /\ q[j] = r[j] /\ r[j] \in FrameSet /\ j - 1 \in Nat /\ j - 1 <= n
      /\ j - 1 \in Int /\ j - 2 \in Int /\ j - 2 <= n
  OBVIOUS
<1>2. Fr(q, j - 1) = Fr(r, j - 1) /\ Fr(q, j - 2) = Fr(r, j - 2)
  BY <1>1, SameFrames
<1>3. r[j].n \in Nat
  BY <1>1 DEF FrameSet
<1>4. /\ FrameOn(Fr(r, j - 1), Fr(r, j - 2), r[j])
      /\ r[j].k = "resume" => Waiting(r, r[j].n, j - 1)
      /\ r[j].k = "ints" => Lets(r, r[j].n, j - 1)
  BY <1>1 DEF GoodStack
<1>5. Waiting(r, r[j].n, j - 1) => Waiting(q, r[j].n, j - 1)
  BY <1>1, <1>3, SameFrames
<1>6. Lets(r, r[j].n, j - 1) => Lets(q, r[j].n, j - 1)
  BY <1>1, <1>3, SameFrames
<1> QED BY <1>1, <1>2, <1>4, <1>5, <1>6

LEMMA Pushed ==
  ASSUME NEW r \in Seq(FrameSet), GoodStack(r), NEW x \in FrameSet,
         FrameOn(Fr(r, Len(r)), Fr(r, Len(r) - 1), x),
         x.k = "resume" => Waiting(r, x.n, Len(r)),
         x.k = "ints" => Lets(r, x.n, Len(r))
  PROVE  LET q == Append(r, x) IN
         /\ q \in Seq(FrameSet) /\ GoodStack(q) /\ Len(q) = Len(r) + 1 /\ q[Len(r) + 1] = x
         /\ Fr(q, Len(q)) = x /\ Fr(q, Len(q) - 1) = Fr(r, Len(r))
         /\ \A y \in Nat : Waiting(r, y, Len(r)) => Waiting(q, y, Len(r))
         /\ \A y \in Nat : Lets(r, y, Len(r)) => Lets(q, y, Len(r))
<1> DEFINE q == Append(r, x)
           n == Len(r)
<1>1. /\ q \in Seq(FrameSet) /\ Len(q) = n + 1 /\ q[n + 1] = x /\ n \in Nat
      /\ \A i \in 1 .. n : q[i] = r[i]
  BY AppendProperties
<1> HIDE DEF q
<1>2. DOMAIN q = 1 .. (n + 1)
  BY <1>1
<1>3. n \in Int /\ n - 1 \in Int /\ n <= n /\ n - 1 <= n /\ n <= Len(r) /\ n <= Len(q)
  BY <1>1
<1>4. Fr(q, n) = Fr(r, n) /\ Fr(q, n - 1) = Fr(r, n - 1)
  BY <1>1, <1>3, SameFrames
<1>5. \A y \in Nat : (Waiting(r, y, n) => Waiting(q, y, n)) /\ (Lets(r, y, n) => Lets(q, y, n))
  BY <1>1, <1>3, SameFrames
<1>6. x.n \in Nat
  BY DEF FrameSet
<1>7. ASSUME NEW j \in DOMAIN q
      PROVE  /\ FrameOn(Fr(q, j - 1), Fr(q, j - 2), q[j])
             /\ q[j].k = "resume" => Waiting(q, q[j].n, j - 1)
             /\ q[j].k = "ints" => Lets(q, q[j].n, j - 1)
  <2>1. CASE j \in 1 .. n
    BY <1>1, <1>3, <2>1, StackUpTo
  <2>2. CASE j = n + 1
    <3>1. j - 1 = n /\ j - 2 = n - 1
      BY <1>1, <2>2
    <3> QED BY <1>1, <1>4, <1>5, <1>6, <2>2, <3>1
  <2> QED BY <1>1, <1>2, <2>1, <2>2
<1>8. Len(q) - 1 = n /\ Fr(q, Len(q)) = x
  BY <1>1, <1>2 DEF Fr
<1> QED BY <1>1, <1>4, <1>5, <1>7, <1>8 DEF GoodStack, q

LEMMA Popped ==
  ASSUME NEW r \in Seq(FrameSet), GoodStack(r), Len(r) > 0
  PROVE  LET q == SubSeq(r, 1, Len(r) - 1) IN
         /\ q \in Seq(FrameSet) /\ GoodStack(q) /\ Len(q) = Len(r) - 1
         /\ Fr(q, Len(q)) = Fr(r, Len(r) - 1) /\ Fr(q, Len(q) - 1) = Fr(r, Len(r) - 2)
         /\ \A y \in Nat : Waiting(r, y, Len(r) - 1) => Waiting(q, y, Len(r) - 1)
         /\ \A y \in Nat : Lets(r, y, Len(r) - 1) => Lets(q, y, Len(r) - 1)
<1> DEFINE n == Len(r) - 1
           q == SubSeq(r, 1, n)
<1>1. n \in Nat /\ Len(r) = n + 1 /\ \A i \in 1 .. n : r[i] \in FrameSet
  OBVIOUS
<1>2. q \in Seq(FrameSet) /\ Len(q) = n /\ \A i \in 1 .. n : q[i] = r[i]
  <2> HIDE DEF n
  <2>1. /\ q \in Seq(FrameSet) /\ Len(q) = IF 1 <= n THEN n - 1 + 1 ELSE 0
        /\ \A i \in 1 .. n - 1 + 1 : q[i] = r[1 + i - 1]
    BY <1>1, SubSeqProperties
  <2> HIDE DEF q
  <2>2. Len(q) = n
    BY <1>1, <2>1
  <2>3. \A i \in 1 .. n : q[i] = r[i]
    BY <1>1, <2>1
  <2> QED BY <2>1, <2>2, <2>3
<1> HIDE DEF q
<1>3. /\ n \in Int /\ n - 1 \in Int /\ n <= n /\ n - 1 <= n /\ n <= Len(r) /\ n <= Len(q)
      /\ DOMAIN q = 1 .. n /\ Len(r) - 2 = n - 1
  BY <1>1, <1>2
<1>4. Fr(q, n) = Fr(r, n) /\ Fr(q, n - 1) = Fr(r, n - 1)
  BY <1>1, <1>2, <1>3, SameFrames
<1>5. \A y \in Nat : (Waiting(r, y, n) => Waiting(q, y, n)) /\ (Lets(r, y, n) => Lets(q, y, n))
  BY <1>1, <1>2, <1>3, SameFrames
<1>6. GoodStack(q)
  BY <1>1, <1>2, <1>3, StackUpTo DEF GoodStack
<1> QED BY <1>2, <1>3, <1>4, <1>5, <1>6 DEF q
-----------------------------------------------------------------------------
(* What the invariant says of the client and of the frames below it.       *)
LEMMA Facts ==
  ASSUME MInv
  PROVE  /\ Cells \in Nat /\ c.sp \in 1 .. (Cells + 1) /\ c.pc \in Pcs /\ c.fl \in Flags
         /\ c = [pc |-> c.pc, fl |-> c.fl, sp |-> c.sp] /\ c \in ClientStates
         /\ mem \in [1 .. (Cells + 1) -> Cell] /\ \A i \in 1 .. (Cells + 1) : mem[i] \in Cell
         /\ Fits(Top) /\ Fits(Under) /\ Fits(Fr(r0, Len(r0) - 2)) /\ todo \in Ops
<1>1. c \in ClientStates /\ mem \in [1 .. (Cells + 1) -> Cell] /\ todo \in Ops
  BY DEF MInv, Typed
<1>2. /\ c.sp \in 1 .. (Cells + 1) /\ c.pc \in Pcs /\ c.fl \in Flags
      /\ c = [pc |-> c.pc, fl |-> c.fl, sp |-> c.sp]
  BY <1>1 DEF ClientStates
<1>3. Fits(Top) /\ Fits(Under) /\ Fits(Fr(r0, Len(r0) - 2))
  BY FrameFits DEF MInv, Stack0, Top, Under
<1> QED BY <1>1, <1>2, <1>3, MonAssumption

LEMMA ClientIs ==
  ASSUME NEW x \in ClientStates, NEW p \in Pcs, NEW fl \in Flags, NEW s \in 1 .. (Cells + 1)
  PROVE  /\ [x EXCEPT !.pc = p] \in ClientStates /\ [x EXCEPT !.pc = p] = [pc |-> p, fl |-> x.fl, sp |-> x.sp]
         /\ [x EXCEPT !.sp = s] \in ClientStates /\ [x EXCEPT !.sp = s] = [pc |-> x.pc, fl |-> x.fl, sp |-> s]
         /\ [x EXCEPT !.fl = fl] \in ClientStates /\ [x EXCEPT !.fl = fl] = [pc |-> x.pc, fl |-> fl, sp |-> x.sp]
         /\ [pc |-> p, fl |-> fl, sp |-> s] \in ClientStates
BY DEF ClientStates

LEMMA InV86 ==
  ASSUME MInv, mode = "v86",
         c.pc.seg \in Code \/ c.pc.w \/ c.fl.if \/ c.pc \in {BP, BP06, BACK}
  PROVE  Here(Top, c, mem)
<1>1. ASSUME Aborted PROVE FALSE
  <2>1. c.pc = DOS /\ c.fl = Off
    BY <1>1 DEF Aborted
  <2>2. DOS.seg \notin Code /\ DOS.w = FALSE /\ DOS \notin {BP, BP06, BACK} /\ Off.if = FALSE
    BY DEF DOS, At, Code, BP, BP06, BACK, Off
  <2> QED BY <2>1, <2>2
<1> QED BY <1>1 DEF MInv, Running

(* Steps that leave the ring 0 stack alone.                                *)
LEMMA StaysV86 ==
  ASSUME MInv, UNCHANGED stack0, Typed', mode' = "v86", Here(Top, c', mem')
  PROVE  MInv'
<1>1. Top' = Top /\ Stack0'
  BY DEF MInv, Stack0, stack0, Top
<1>2. Running'
  BY <1>1 DEF Running
<1> QED BY <1>1, <1>2 DEF MInv

LEMMA StaysPl0 ==
  ASSUME MInv, UNCHANGED stack0, Typed', mode' = "pl0", Stage(Top, Under, todo', c', mem')
  PROVE  MInv'
<1>1. Top' = Top /\ Under' = Under /\ Stack0'
  BY DEF MInv, Stack0, stack0, Top, Under
<1>2. Running'
  BY <1>1 DEF Running
<1> QED BY <1>1, <1>2 DEF MInv

(* Simulate_Int in one step: an interrupt in V86 mode.                     *)
LEMMA ReflectKept ==
  ASSUME MInv, mode = "v86", UNCHANGED stack0, NEW n \in IntNames, n # "21",
         NEW p \in Pcs, V86(Top, p, c.fl, c.sp, mem), Reflect(n, p)
  PROVE  MInv'
<1>1. /\ Cells \in Nat /\ c.sp \in 1 .. (Cells + 1) /\ c.fl \in Flags /\ Fits(Top)
      /\ mem \in [1 .. (Cells + 1) -> Cell]
  BY Facts
<1>2. c.sp > 1 /\ c.sp - 1 \in 1 .. Cells /\ c.sp - 1 \in 1 .. (Cells + 1)
  BY <1>1 DEF Reflect
<1> DEFINE x == [pc |-> p, fl |-> c.fl, sp |-> c.sp]
<1>3. x \in ClientStates /\ x.pc = p /\ x.fl = c.fl /\ x.sp = c.sp
  BY <1>1 DEF ClientStates
<1>4. Vector(n) \in Plain /\ Vector(n) \in Pcs /\ Off \in Flags
  BY VectorPcs, ValueSets
<1>5. mem' = [mem EXCEPT ![x.sp - 1] = [pc |-> x.pc, fl |-> x.fl]]
  BY <1>3 DEF Reflect
<1>6. V86(Top, Vector(n), Off, x.sp - 1, mem')
  <2> HIDE DEF x
  <2> QED BY <1>1, <1>2, <1>3, <1>4, <1>5, V86Push
<1>7. c' = [pc |-> Vector(n), fl |-> Off, sp |-> c.sp - 1] /\ mode' = "v86" /\ todo' = todo
  BY DEF Reflect
<1>8. Here(Top, c', mem')
  BY <1>3, <1>6, <1>7 DEF Here
<1>9. Typed'
  <2>1. c' \in ClientStates
    BY <1>2, <1>4, <1>7, ClientIs DEF ClientStates
  <2>2. mem' \in [1 .. (Cells + 1) -> Cell] /\ mem'[Cells + 1] = Blank
    BY <1>1, <1>2, <1>3, <1>5 DEF MInv, Typed, Cell
  <2> QED BY <1>7, <2>1, <2>2 DEF MInv, Typed
<1> QED BY <1>7, <1>8, <1>9, StaysV86
-----------------------------------------------------------------------------
(* The V86 side's own steps.                                               *)
LEMMA CodeStep ==
  ASSUME MInv, mode = "v86", UNCHANGED stack0, c.pc.seg \in Code,
         UNCHANGED <<mode, mem, todo>>, NEW p, NEW fl \in Flags,
         p = Next1(c.pc) \/ p = [c.pc EXCEPT !.w = TRUE] \/ p = c.pc,
         c' = [pc |-> p, fl |-> fl, sp |-> c.sp]
  PROVE  MInv'
<1>1. c.pc \in Pcs /\ c.sp \in 1 .. (Cells + 1) /\ Fits(Top)
  BY Facts
<1>2. c.pc \in Plain /\ p \in Plain /\ p \in Pcs /\ (c.pc \in MainPcs => p \in MainPcs)
  <2>1. /\ c.pc \in Plain /\ Next1(c.pc) \in Plain /\ [c.pc EXCEPT !.w = TRUE] \in Plain
        /\ c.pc \in MainPcs => Next1(c.pc) \in MainPcs /\ [c.pc EXCEPT !.w = TRUE] \in MainPcs
    BY <1>1, NextPc
  <2> QED BY <2>1, ValueSets
<1>3. c.pc # BACK /\ Here(Top, c, mem)
  BY <1>2, InV86, ValueSets
<1>4. V86(Top, p, fl, c.sp, mem)
  BY <1>1, <1>2, <1>3, V86Step DEF Here
<1>5. c' \in ClientStates /\ Here(Top, c', mem')
  BY <1>1, <1>2, <1>4, ClientIs DEF Here, ClientStates
<1>6. Typed'
  BY <1>5 DEF MInv, Typed
<1> QED BY <1>5, <1>6, StaysV86

LEMMA Enters ==
  ASSUME MInv, UNCHANGED stack0, UNCHANGED <<c, mem>>, NEW ops \in Ops, Enter(ops),
         Stage(Top, Under, ops, c, mem)
  PROVE  MInv'
<1>1. Typed'
  BY DEF MInv, Typed, Enter
<1> QED BY <1>1, StaysPl0 DEF Enter

LEMMA IrqKept ==
  ASSUME MInv, Irq PROVE MInv'
<1>1. mode = "v86" /\ Here(Top, c, mem) /\ UNCHANGED stack0
  BY InV86 DEF Irq
<1>2. CASE Reflect("irq", c.pc)
  BY <1>1, <1>2, Facts, ReflectKept DEF Here, IntNames
<1>3. CASE Enter(<< Op("hook") >>) /\ UNCHANGED <<c, mem>>
  <2>1. << Op("hook") >> \in Ops /\ << Op("hook") >> # << >> /\ Head(<< Op("hook") >>).op = "hook"
    BY OpFields DEF Ops, OpNames
  <2>2. Stage(Top, Under, << Op("hook") >>, c, mem)
    BY <1>1, <2>1, StageIs
  <2> QED BY <1>1, <1>3, <2>1, <2>2, Enters
<1> QED BY <1>2, <1>3 DEF Irq

LEMMA ServiceKept ==
  ASSUME MInv, CallService PROVE MInv'
<1>1. mode = "v86" /\ c.pc.seg \in Code /\ UNCHANGED stack0 /\ Reflect("svc", Next1(c.pc))
  BY DEF CallService, InCode
<1>2. c.pc \in Pcs /\ Fits(Top) /\ Here(Top, c, mem)
  BY <1>1, Facts, InV86
<1>3. c.pc \in Plain /\ Next1(c.pc) \in Plain /\ Next1(c.pc) \in Pcs /\ c.pc # BACK
      /\ (c.pc \in MainPcs => Next1(c.pc) \in MainPcs)
  BY <1>1, <1>2, NextPc, ValueSets
<1>4. V86(Top, Next1(c.pc), c.fl, c.sp, mem)
  BY <1>2, <1>3, V86Step DEF Here
<1> QED BY <1>1, <1>3, <1>4, ReflectKept DEF IntNames

LEMMA Int1Kept ==
  ASSUME MInv, Int1 PROVE MInv'
<1>1. mode = "v86" /\ c.pc.seg \in Code /\ UNCHANGED stack0
  BY DEF Int1, InCode
<1>2. c.pc \in Pcs /\ Fits(Top) /\ Here(Top, c, mem) /\ c \in ClientStates /\ c.fl \in Flags
  BY <1>1, Facts, InV86
<1>3. c.pc \in Plain /\ Next1(c.pc) \in Plain /\ Next1(c.pc) \in Pcs /\ c.pc # BACK
      /\ (c.pc \in MainPcs => Next1(c.pc) \in MainPcs)
  BY <1>1, <1>2, NextPc, ValueSets
<1>4. CASE idt1 = "cont"
  <2>1. c' = [pc |-> Next1(c.pc), fl |-> c.fl, sp |-> c.sp] /\ UNCHANGED <<mode, mem, todo>>
    BY <1>2, <1>3, <1>4 DEF Int1, ClientStates
  <2> QED BY <1>1, <1>2, <2>1, CodeStep
<1>5. CASE idt1 # "cont"
  <2>1. V86(Top, Next1(c.pc), c.fl, c.sp, mem)
    BY <1>2, <1>3, V86Step DEF Here
  <2> QED BY <1>1, <1>3, <1>5, <2>1, ReflectKept DEF Int1, IntNames
<1> QED BY <1>4, <1>5

LEMMA OwnStepsKept ==
  ASSUME MInv, Sti \/ WriteRom \/ PageFaultFF \/ WrittenRom PROVE MInv'
<1>1. c \in ClientStates /\ c.pc \in Pcs /\ c.fl \in Flags /\ c.sp \in 1 .. (Cells + 1)
  BY Facts
<1>2. mode = "v86" /\ UNCHANGED <<mode, mem, todo>> /\ UNCHANGED stack0
      /\ (c.pc.seg \in Code \/ c.pc.w)
  BY DEF Sti, WriteRom, PageFaultFF, WrittenRom, InCode
<1>3. c.pc.seg \in Code
  BY <1>1, <1>2 DEF Pcs, Plain, BACK, DOS, BP, BP06, At
<1>4. [c.pc EXCEPT !.w = TRUE] \in Pcs /\ Next1(c.pc) \in Pcs
  BY <1>1, <1>3, NextPc, ValueSets
<1>5. [c.fl EXCEPT !.if = TRUE] \in Flags /\ [c.fl EXCEPT !.tf = TRUE] \in Flags
      /\ [c.fl EXCEPT !.tf = FALSE] \in Flags
  BY <1>1 DEF Flags
<1>6. CASE Sti
  <2>1. c' = [pc |-> Next1(c.pc), fl |-> [c.fl EXCEPT !.if = TRUE], sp |-> c.sp]
    BY <1>1, <1>6 DEF Sti, ClientStates
  <2> QED BY <1>2, <1>3, <1>5, <2>1, CodeStep
<1>7. CASE WriteRom
  <2>1. c' = [pc |-> [c.pc EXCEPT !.w = TRUE], fl |-> c.fl, sp |-> c.sp]
    BY <1>1, <1>7 DEF WriteRom, ClientStates
  <2> QED BY <1>1, <1>2, <1>3, <2>1, CodeStep
<1>8. CASE PageFaultFF
  <2>1. c' = [pc |-> c.pc, fl |-> [c.fl EXCEPT !.tf = TRUE], sp |-> c.sp]
    BY <1>1, <1>8 DEF PageFaultFF, ClientStates
  <2> QED BY <1>2, <1>3, <1>5, <2>1, CodeStep
<1>9. CASE WrittenRom
  <2>1. \/ c' = [pc |-> Next1(c.pc), fl |-> c.fl, sp |-> c.sp]
        \/ c' = [pc |-> Next1(c.pc), fl |-> [c.fl EXCEPT !.tf = FALSE], sp |-> c.sp]
    BY <1>1, <1>9 DEF WrittenRom, ClientStates
  <2> QED BY <1>1, <1>2, <1>3, <1>5, <2>1, CodeStep
<1> QED BY <1>6, <1>7, <1>8, <1>9

LEMMA IretKept ==
  ASSUME MInv, Iret PROVE MInv'
<1>1. mode = "v86" /\ c.pc.seg = "isr" /\ c.pc.seg \in Code /\ UNCHANGED stack0
      /\ UNCHANGED <<mode, mem, todo>>
  BY DEF Iret, InCode
<1>2. /\ Cells \in Nat /\ c.pc \in Pcs /\ Fits(Top) /\ Here(Top, c, mem)
      /\ \A i \in 1 .. (Cells + 1) : mem[i] \in Cell
  BY <1>1, Facts, InV86
<1>3. c.pc # BACK /\ c.pc \notin MainPcs
  BY <1>1, <1>2, NextPc, ValueSets
<1>4. \A i \in 1 .. Cells : mem[i] \in Cell
  BY <1>2
<1>5. c.sp \in 1 .. Cells /\ V86(Top, mem[c.sp].pc, mem[c.sp].fl, c.sp + 1, mem)
  BY <1>2, <1>3, <1>4, V86Pop DEF Here
<1>6. c' = [pc |-> mem[c.sp].pc, fl |-> mem[c.sp].fl, sp |-> c.sp + 1] /\ mem[c.sp] \in Cell
      /\ c.sp + 1 \in 1 .. (Cells + 1)
  BY <1>2, <1>4, <1>5 DEF Iret
<1>7. c' \in ClientStates /\ Here(Top, c', mem')
  BY <1>1, <1>5, <1>6 DEF ClientStates, Cell, Here
<1>8. Typed'
  BY <1>1, <1>7 DEF MInv, Typed
<1> QED BY <1>1, <1>7, <1>8, StaysV86

LEMMA TerminateKept ==
  ASSUME MInv, Terminate PROVE MInv'
<1>1. /\ mode = "v86" /\ c.pc = DOS /\ UNCHANGED <<mode, mem, todo>> /\ UNCHANGED stack0
      /\ c' = [pc |-> At("main", 0, FALSE), fl |-> [if |-> TRUE, tf |-> FALSE], sp |-> Cells + 1]
  BY DEF Terminate
<1>2. ~Here(Top, c, mem)
  BY <1>1, Facts, V86Returned, ValueSets DEF Here
<1>3. ~Calls(Top) /\ Top.k \in {"none", "resume"}
  BY <1>1, <1>2 DEF MInv, Running, Aborted, Calls
<1>4. At("main", 0, FALSE) \in MainPcs /\ [if |-> TRUE, tf |-> FALSE] \in Flags /\ Cells \in Nat
  BY MonAssumption DEF At, MainPcs, Flags
<1>5. c' \in ClientStates
  <2>1. At("main", 0, FALSE) \in Plain /\ At("main", 0, FALSE) \in Pcs
    BY <1>4, ValueSets
  <2>2. Cells + 1 \in 1 .. (Cells + 1)
    BY <1>4
  <2> QED BY <1>1, <1>4, <2>1, <2>2 DEF ClientStates
<1>6. Here(Top, c', mem')
  <2>1. Base(Top) = Cells + 1 /\ c'.sp = Cells + 1 /\ c'.pc \in MainPcs /\ c'.pc \in Plain
    BY <1>1, <1>3, <1>4, ValueSets DEF Base
  <2>2. X(c'.pc, c'.fl, c'.sp, mem', Base(Top) - 1).pc = c'.pc
    BY <2>1 DEF X
  <2>3. IsBottom(Top, X(c'.pc, c'.fl, c'.sp, mem', Base(Top) - 1))
    BY <1>3, <2>1, <2>2 DEF IsBottom
  <2>4. \A i \in (c'.sp - 1) .. (Base(Top) - 2) : FALSE
    BY <1>4, <2>1
  <2> QED BY <1>3, <1>4, <2>1, <2>3, <2>4 DEF Here, V86
<1>7. Typed'
  BY <1>1, <1>5 DEF MInv, Typed
<1> QED BY <1>1, <1>6, <1>7, StaysV86
-----------------------------------------------------------------------------
(* From V86 mode into ring 0.                                              *)
LEMMA HltKept ==
  ASSUME MInv, Hlt PROVE MInv'
<1> DEFINE e == << Op("exit") >>
           ops == Windowed \o e
<1>1. mode = "v86" /\ c.pc.seg \in Code /\ UNCHANGED stack0 /\ mem' = mem
      /\ c' = [c EXCEPT !.pc = Next1(c.pc)] /\ mode' = "pl0" /\ todo' = ops
  BY DEF Hlt, InCode, Enter
<1>2. c.pc \in Pcs /\ Fits(Top) /\ Here(Top, c, mem) /\ c \in ClientStates
  BY <1>1, Facts, InV86
<1>3. c.pc \in Plain /\ Next1(c.pc) \in Plain /\ Next1(c.pc) \in Pcs /\ c.pc # BACK
      /\ (c.pc \in MainPcs => Next1(c.pc) \in MainPcs)
  BY <1>1, <1>2, NextPc, ValueSets
<1>4. c' \in ClientStates /\ c'.pc = Next1(c.pc) /\ c'.fl = c.fl /\ c'.sp = c.sp
  BY <1>1, <1>2, <1>3 DEF ClientStates
<1>5. Here(Top, c', mem')
  BY <1>1, <1>2, <1>3, <1>4, V86Step DEF Here
<1>6. Op("enable") \in OpSet /\ Op("window") \in OpSet /\ Op("disable") \in OpSet
      /\ Op("exit") \in OpSet /\ Op("enable").op = "enable" /\ Op("exit").op = "exit"
  BY OpFields DEF OpNames
<1>7. e \in Ops /\ IsExit(e)
  BY <1>6 DEF Ops, IsExit
<1> HIDE DEF e
<1>8. ops = Then(Op("enable"), Then(Op("window"), Then(Op("disable"), e)))
  <2>1. \A x, y, z \in OpSet : << x, y, z >> \o e = Then(x, Then(y, Then(z, e)))
    BY <1>7, Triples
  <2>2. ops = << Op("enable"), Op("window"), Op("disable") >> \o e
    BY DEF Windowed
  <2> HIDE DEF ops
  <2> QED BY <1>6, <2>1, <2>2, Zenon
<1> HIDE DEF ops
<1>9. Then(Op("window"), Then(Op("disable"), e)) \in Ops
  BY <1>6, <1>7, ThenIs
<1>10. /\ ops \in Ops /\ ops # << >> /\ Head(ops).op = "enable"
       /\ Tail(ops) = Then(Op("window"), Then(Op("disable"), e))
  BY <1>6, <1>8, <1>9, ThenIs
<1>11. Stage(Top, Under, todo', c', mem')
  BY <1>1, <1>5, <1>7, <1>10, StageIs DEF AtEnable, Goes
<1>12. Typed'
  BY <1>1, <1>4, <1>10 DEF MInv, Typed
<1> QED BY <1>1, <1>11, <1>12, StaysPl0

LEMMA ExceptionKept ==
  ASSUME MInv, NEW n \in {"00", "06", "0D"}, Exception(n) PROVE MInv'
<1>1. mode = "v86" /\ c.pc.seg \in Code /\ UNCHANGED stack0 /\ UNCHANGED <<c, mem>>
  BY DEF Exception, InCode
<1>2. Here(Top, c, mem)
  BY <1>1, InV86
<1>3. /\ Op("exit") \in OpSet /\ Op("begin") \in OpSet /\ Op("reset") \in OpSet
      /\ Op("int.sp") \in OpSet /\ Op("begin").op = "begin" /\ Op("int.sp").op = "int.sp"
  BY OpFields DEF OpNames
<1>4. << Op("exit") >> \in Ops
  BY <1>3 DEF Ops
<1>5. ASSUME NEW i \in {"00", "06", "0D"}, Enter(Simulate_Int(i) \o << Op("exit") >>) PROVE MInv'
  <2> DEFINE ops == Simulate_Int(i) \o << Op("exit") >>
  <2>1. IntTo(i) \in OpSet
    BY OpFields DEF IntNames
  <2>2. ops = Then(Op("int.sp"), Then(IntTo(i), << Op("exit") >>))
    BY <1>3, <1>4, <2>1, Pairs DEF Simulate_Int
  <2>3. Then(IntTo(i), << Op("exit") >>) \in Ops
    BY <1>4, <2>1, ThenIs
  <2> HIDE DEF ops
  <2>4. /\ ops \in Ops /\ ops # << >> /\ Head(ops).op = "int.sp"
        /\ Tail(ops) = Then(IntTo(i), << Op("exit") >>)
    BY <1>3, <2>2, <2>3, ThenIs
  <2>5. Stage(Top, Under, ops, c, mem)
    BY <1>2, <2>4, StageIs DEF AtIntSp
  <2>6. Enter(ops)
    BY <1>5 DEF ops
  <2> QED BY <1>1, <2>4, <2>5, <2>6, Enters
<1>6. ASSUME Enter(<< Op("begin"), Op("reset") >>) PROVE MInv'
  <2> DEFINE ops == << Op("begin"), Op("reset") >>
  <2>1. ops \in Ops
    BY <1>3, <1>4, Pairs
  <2>2. ops # << >> /\ Head(ops).op = "begin" /\ Tail(ops) = ResetOnly
    BY <1>3 DEF ResetOnly
  <2>3. Enter(ops)
    BY <1>6
  <2> HIDE DEF ops
  <2>4. Stage(Top, Under, ops, c, mem)
    BY <2>2, StageIs DEF AtBegin
  <2> QED BY <1>1, <2>1, <2>3, <2>4, Enters
<1> QED BY <1>5, <1>6 DEF Exception

LEMMA ServedKept ==
  ASSUME MInv, Breakpoint \/ Exception06 PROVE MInv'
<1>1. mode = "v86" /\ c.pc \in {BP, BP06} /\ UNCHANGED stack0 /\ UNCHANGED <<c, mem>>
  BY DEF Breakpoint, Exception06
<1>2. Here(Top, c, mem)
  BY <1>1, InV86
<1>3. /\ Op("iret.pc") \in OpSet /\ Op("iret.sp") \in OpSet /\ Op("exit") \in OpSet
      /\ Op("fault") \in OpSet /\ Op("yield") \in OpSet /\ Op("iret.pc").op = "iret.pc"
  BY OpFields DEF OpNames
<1>4. << Op("exit") >> \in Ops /\ << Op("fault") >> \in Ops /\ << Op("yield") >> \in Ops
      /\ << >> \in Ops
  BY <1>3 DEF Ops
<1>5. PICK b \in Bodies :
        mode' = "pl0" /\ todo' = Then(Op("iret.pc"), Then(Op("iret.sp"), b))
  <2>1. CASE Exception06
    <3>1. mode' = "pl0" /\ todo' = << Op("iret.pc"), Op("iret.sp"), Op("fault") >>
      BY <2>1 DEF Exception06, Enter
    <3>2. todo' = Then(Op("iret.pc"), << Op("iret.sp"), Op("fault") >>)
      BY <1>3, <1>4, <3>1, Triples
    <3>3. << Op("iret.sp"), Op("fault") >> = Then(Op("iret.sp"), << Op("fault") >>)
      BY <1>3, <1>4, Pairs
    <3>4. << Op("fault") >> \in Bodies
      BY DEF Bodies
    <3> QED BY <3>1, <3>2, <3>3, <3>4
  <2>2. CASE Breakpoint
    <3>1. PICK y \in { << >>, << Op("yield") >>, RunV86("10"), << Op("fault") >> } :
            Enter(<< Op("iret.pc"), Op("iret.sp") >> \o y \o << Op("exit") >>)
      BY <2>2 DEF Breakpoint, Services
    <3>2. y \in Ops
      BY <1>4, <3>1, RunList DEF IntNames
    <3>3. y \o << Op("exit") >> \in Bodies
      BY <3>1 DEF Bodies
    <3>4. y \o << Op("exit") >> \in Ops
      BY <3>3, BodyLists
    <3> DEFINE a == << Op("iret.pc"), Op("iret.sp") >>
               e == << Op("exit") >>
    <3>5. a \in Ops /\ e \in Ops
      BY <1>3, <1>4, Pairs
    <3>6. a \o (y \o e) = Then(Op("iret.pc"), Then(Op("iret.sp"), y \o e))
      <4> HIDE DEF e
      <4>1. y \o e \in Ops
        BY <3>4 DEF e
      <4>2. \A v, w \in OpSet : << v, w >> \o (y \o e) = Then(v, Then(w, y \o e))
        BY <4>1, Pairs
      <4> QED BY <1>3, <4>2, Zenon
    <3>7. (a \o y) \o e = a \o (y \o e)
      <4> HIDE DEF a, e
      <4> QED BY <3>2, <3>5, ConcatAssociative DEF Ops
    <3> QED BY <3>1, <3>3, <3>6, <3>7 DEF Enter
  <2> QED BY <2>1, <2>2
<1>6. b \in Ops /\ Then(Op("iret.sp"), b) \in Ops
  BY <1>3, BodyLists, ThenIs
<1>7. /\ todo' \in Ops /\ todo' # << >> /\ Head(todo').op = "iret.pc"
      /\ Tail(todo') = Then(Op("iret.sp"), b)
  BY <1>3, <1>5, <1>6, ThenIs
<1>8. Stage(Top, Under, todo', c, mem)
  BY <1>1, <1>2, <1>7, StageIs DEF AtIretPc
<1> QED BY <1>1, <1>5, <1>7, <1>8, Enters DEF Enter

LEMMA NmiV86Kept ==
  ASSUME MInv, NmiV86 PROVE MInv'
<1> DEFINE k == << Op("unmask"), Op("exit") >>
           ops == RunV86("02") \o k
<1>1. mode = "v86" /\ c.pc # DOS /\ UNCHANGED stack0 /\ UNCHANGED <<c, mem>> /\ Enter(ops)
  BY DEF NmiV86
<1>2. Here(Top, c, mem) /\ c.sp \in 1 .. (Cells + 1)
  BY <1>1, Facts DEF MInv, Running, Aborted
<1>3. k \in Conts /\ "02" \in Nested /\ "02" \in IntNames
  BY DEF Conts, Nested, IntNames
<1>4. k \in Ops
  BY <1>3, ContLists
<1>5. Back(k, Top, c.pc, c.fl, c.sp, mem)
  BY <1>2, OpFields DEF Back, Here, OpNames
<1> HIDE DEF k
<1>6. ops \in Ops /\ ops # << >> /\ Head(ops).op = "begin" /\ Tail(ops) = IntSp("02", k)
  BY <1>3, <1>4, RunList, OpFields DEF OpNames
<1> HIDE DEF ops
<1>7. Stage(Top, Under, ops, c, mem)
  BY <1>3, <1>5, <1>6, StageIs DEF AtBegin
<1> QED BY <1>1, <1>6, <1>7, Enters
-----------------------------------------------------------------------------
(* The steps of ring 0 that change the client.                             *)
LEMMA Pl0Facts ==
  ASSUME MInv, mode = "pl0"
  PROVE  /\ Stage(Top, Under, todo, c, mem) /\ todo # << >>
         /\ Head(todo) \in OpSet /\ Head(todo).op \in OpNames /\ Head(todo).pc \in Pcs
         /\ Tail(todo) \in Ops
<1>1. Stage(Top, Under, todo, c, mem) /\ todo \in Ops
  BY DEF MInv, Running, Typed
<1>2. todo # << >> /\ Head(todo).op \in OpNames
  BY <1>1 DEF Stage, At0
<1>3. Head(todo) \in OpSet /\ Tail(todo) \in Ops
  BY <1>1, <1>2, HeadTailProperties DEF Ops
<1> QED BY <1>1, <1>2, <1>3 DEF OpSet

LEMMA Step0 ==
  ASSUME MInv, UNCHANGED stack0, mode' = "pl0", todo' \in Ops, c' \in ClientStates,
         mem' = mem \/ \E s \in 1 .. Cells, x \in Cell : mem' = [mem EXCEPT ![s] = x],
         Stage(Top, Under, todo', c', mem')
  PROVE  MInv'
<1>1. mem \in [1 .. (Cells + 1) -> Cell] /\ mem[Cells + 1] = Blank /\ Cells \in Nat
  BY MonAssumption DEF MInv, Typed
<1>2. mem' \in [1 .. (Cells + 1) -> Cell] /\ mem'[Cells + 1] = Blank
  BY <1>1
<1>3. Typed'
  BY <1>2 DEF Typed
<1> QED BY <1>3, StaysPl0

LEMMA BeginKept ==
  ASSUME MInv, Doing("begin"), Begin_Nest_Exec, UNCHANGED <<mode, stack0>> PROVE MInv'
<1> DEFINE r == Tail(todo)
<1>1. /\ mode = "pl0" /\ mode' = "pl0" /\ Head(todo).op = "begin" /\ mem' = mem
      /\ c' = [c EXCEPT !.pc = BACK] /\ todo' = << Op("call.sp"), CallWr(c.pc) >> \o r
      /\ UNCHANGED stack0
  BY DEF Begin_Nest_Exec, Doing, Cur, CallWr
<1>2. c \in ClientStates /\ c.pc \in Pcs /\ c.sp \in 1 .. (Cells + 1) /\ BACK \in Pcs
  BY Facts, ValueSets
<1>3. c' \in ClientStates /\ c'.pc = BACK /\ c'.fl = c.fl /\ c'.sp = c.sp
  BY <1>1, <1>2 DEF ClientStates
<1>4. /\ Op("call.sp") \in OpSet /\ Op("call.sp").op = "call.sp" /\ CallWr(c.pc) \in OpSet
      /\ r \in Ops /\ todo # << >>
  BY <1>1, <1>2, OpFields, Pl0Facts DEF OpNames
<1>5. AtBegin(Top, r, c, mem)
  BY <1>1, <1>4, Pl0Facts, StageIs
<1> HIDE DEF r
<1>6. todo' = Then(Op("call.sp"), Then(CallWr(c.pc), r))
  BY <1>1, <1>4, Pairs
<1>7. Then(CallWr(c.pc), r) \in Ops
  BY <1>4, ThenIs
<1>8. /\ todo' \in Ops /\ todo' # << >> /\ Head(todo').op = "call.sp"
      /\ Tail(todo') = Then(CallWr(c.pc), r)
  BY <1>4, <1>6, <1>7, ThenIs
<1>9. AtCallSp(Top, Tail(todo'), c', mem')
  BY <1>1, <1>2, <1>3, <1>5, <1>8 DEF AtBegin, AtCallSp
<1>10. Stage(Top, Under, todo', c', mem')
  BY <1>8, <1>9, StageIs
<1> QED BY <1>1, <1>3, <1>8, <1>10, Step0

LEMMA CallSpKept ==
  ASSUME MInv, Doing("call.sp"), Begin_Nest_Exec, UNCHANGED <<mode, stack0>> PROVE MInv'
<1>1. /\ mode = "pl0" /\ mode' = "pl0" /\ Head(todo).op = "call.sp" /\ mem' = mem
      /\ c.sp > 1 /\ c' = [c EXCEPT !.sp = c.sp - 1] /\ todo' = Tail(todo) /\ UNCHANGED stack0
  BY DEF Begin_Nest_Exec, Doing, Cur, Go
<1>2. c \in ClientStates /\ c.sp \in 1 .. (Cells + 1) /\ Cells \in Nat
  BY Facts
<1>3. /\ c' \in ClientStates /\ c'.pc = c.pc /\ c'.fl = c.fl /\ c'.sp = c.sp - 1
      /\ c'.sp <= Cells /\ c'.sp + 1 = c.sp
  BY <1>1, <1>2 DEF ClientStates
<1>4. todo' \in Ops /\ AtCallSp(Top, todo', c, mem)
  BY <1>1, Pl0Facts, StageIs
<1>5. PICK p \in Pcs :
        \/ todo' = Then(CallWr(p), ResetOnly)
        \/ \E k \in Conts, n \in Nested :
             /\ todo' = Then(CallWr(p), IntSp(n, k))
             /\ c.pc = BACK /\ Back(k, Top, p, c.fl, c.sp, mem)
  BY <1>4 DEF AtCallSp
<1>6. CallWr(p) \in OpSet /\ CallWr(p).op = "call.wr" /\ CallWr(p).pc = p
  BY OpFields
<1>7. CASE todo' = Then(CallWr(p), ResetOnly)
  <2>1. ResetOnly \in Ops
    BY OpFields DEF ResetOnly, Ops, OpNames
  <2>2. /\ todo' # << >> /\ Head(todo').op = "call.wr" /\ Head(todo').pc = p
        /\ Tail(todo') = ResetOnly
    BY <1>6, <1>7, <2>1, ThenIs
  <2>3. Stage(Top, Under, todo', c', mem')
    BY <1>3, <2>2, StageIs DEF AtCallWr
  <2> QED BY <1>1, <1>3, <1>4, <2>3, Step0
<1>8. ASSUME NEW k \in Conts, NEW n \in Nested, todo' = Then(CallWr(p), IntSp(n, k)),
             c.pc = BACK, Back(k, Top, p, c.fl, c.sp, mem)
      PROVE  MInv'
  <2>1. IntSp(n, k) \in Ops
    BY ContLists, CallLists DEF Nested, IntNames
  <2>2. /\ todo' # << >> /\ Head(todo').op = "call.wr" /\ Head(todo').pc = p
        /\ Tail(todo') = IntSp(n, k)
    BY <1>6, <1>8, <2>1, ThenIs
  <2>3. AtCallWr(Top, p, IntSp(n, k), c', mem')
    BY <1>1, <1>3, <1>8 DEF AtCallWr
  <2>4. Stage(Top, Under, todo', c', mem')
    BY <2>2, <2>3, StageIs
  <2> QED BY <1>1, <1>3, <1>4, <2>4, Step0
<1> QED BY <1>5, <1>7, <1>8

LEMMA CallWrKept ==
  ASSUME MInv, Doing("call.wr"), Begin_Nest_Exec, UNCHANGED <<mode, stack0>> PROVE MInv'
<1> DEFINE p == Head(todo).pc
           x == [pc |-> p, fl |-> Off]
<1>1. /\ mode = "pl0" /\ mode' = "pl0" /\ Head(todo).op = "call.wr" /\ c' = c
      /\ mem' = [mem EXCEPT ![c.sp] = x] /\ todo' = Tail(todo) /\ UNCHANGED stack0
  BY DEF Begin_Nest_Exec, Doing, Cur, Go
<1>2. /\ c \in ClientStates /\ c.sp \in 1 .. (Cells + 1) /\ Cells \in Nat /\ Fits(Top)
      /\ mem \in [1 .. (Cells + 1) -> Cell] /\ p \in Pcs
  BY <1>1, Facts, Pl0Facts
<1>3. todo' \in Ops /\ AtCallWr(Top, p, todo', c, mem)
  BY <1>1, Pl0Facts, StageIs
<1>4. c.sp \in 1 .. Cells /\ x \in Cell
  BY <1>2, <1>3, ValueSets DEF AtCallWr, Cell
<1> HIDE DEF p
<1>5. mem'[c.sp].pc = p /\ \A i \in (c.sp + 1) .. Cells : mem[i] = mem'[i]
  BY <1>1, <1>2, <1>4
<1>6. CASE todo' = ResetOnly
  <2>1. todo' # << >> /\ Head(todo').op = "reset"
    BY <1>6, OpFields DEF ResetOnly, OpNames
  <2>2. Stage(Top, Under, todo', c', mem')
    BY <2>1, StageIs
  <2> HIDE DEF x
  <2> QED BY <1>1, <1>2, <1>3, <1>4, <2>2, Step0
<1>7. ASSUME NEW k \in Conts, NEW n \in Nested, todo' = IntSp(n, k), c.pc = BACK,
             Back(k, Top, p, c.fl, c.sp + 1, mem)
      PROVE  MInv'
  <2>1. todo' # << >> /\ Head(todo') = Op("int.sp") /\ Tail(todo') = IntWr(n, k)
    <3>1. k \in Ops /\ n \in IntNames
      BY ContLists DEF Nested, IntNames
    <3> QED BY <1>7, <3>1, CallLists
  <2>2. Head(todo').op = "int.sp"
    BY <2>1, OpFields DEF OpNames
  <2>3. Back(k, Top, p, c.fl, c.sp + 1, mem')
    BY <1>2, <1>5, <1>7, BackAgrees
  <2>4. AtIntSp(Top, Tail(todo'), c', mem')
    <3>1. /\ Tail(todo') = IntWr(n, k) /\ c'.pc = BACK /\ c'.sp <= Cells
          /\ Back(k, Top, mem'[c'.sp].pc, c'.fl, c'.sp + 1, mem')
      BY <1>1, <1>4, <1>5, <1>7, <2>1, <2>3
    <3> QED BY <3>1 DEF AtIntSp
  <2>5. Stage(Top, Under, todo', c', mem')
    BY <2>1, <2>2, <2>4, StageIs
  <2> HIDE DEF x
  <2> QED BY <1>1, <1>2, <1>3, <1>4, <2>5, Step0
<1> QED BY <1>3, <1>6, <1>7 DEF AtCallWr

LEMMA IntSpKept ==
  ASSUME MInv, Doing("int.sp"), SimInt, UNCHANGED <<mode, stack0>> PROVE MInv'
<1>1. /\ mode = "pl0" /\ mode' = "pl0" /\ Head(todo).op = "int.sp" /\ mem' = mem
      /\ c.sp > 1 /\ c' = [c EXCEPT !.sp = c.sp - 1] /\ todo' = Tail(todo) /\ UNCHANGED stack0
  BY DEF SimInt, Doing, Cur, Go
<1>2. c \in ClientStates /\ c.sp \in 1 .. (Cells + 1) /\ Cells \in Nat
  BY Facts
<1>3. /\ c' \in ClientStates /\ c'.pc = c.pc /\ c'.fl = c.fl /\ c'.sp = c.sp - 1
      /\ c'.sp <= Cells /\ c'.sp + 1 = c.sp /\ c'.sp + 2 = c.sp + 1
  BY <1>1, <1>2 DEF ClientStates
<1>4. todo' \in Ops /\ AtIntSp(Top, todo', c, mem)
  BY <1>1, Pl0Facts, StageIs
<1>5. ASSUME NEW n \in IntNames, NEW k \in Ops, todo' = Then(IntTo(n), k),
             AtIntWr(Top, n, k, c', mem)
      PROVE  MInv'
  <2>1. todo' # << >> /\ Head(todo') = IntTo(n) /\ Tail(todo') = k
    BY <1>5, OpFields, ThenIs
  <2>2. Head(todo').op = "int.wr" /\ Head(todo').n = n
    BY <2>1, OpFields
  <2>3. Stage(Top, Under, todo', c', mem')
    BY <1>1, <1>5, <2>1, <2>2, StageIs
  <2> QED BY <1>1, <1>3, <1>4, <2>3, Step0
<1>6. CASE todo' = Then(IntTo("21"), Esc1) /\ Top.k = "none"
  <2>1. Esc1 \in Ops
    BY OpFields, Pairs DEF Esc1, OpNames, Ops
  <2>2. AtIntWr(Top, "21", Esc1, c', mem)
    BY <1>3, <1>6 DEF AtIntWr
  <2> QED BY <1>5, <1>6, <2>1, <2>2 DEF IntNames
<1>7. ASSUME NEW n \in {"00", "06", "0D"}, todo' = Then(IntTo(n), << Op("exit") >>),
             Here(Top, c, mem)
      PROVE  MInv'
  <2>1. << Op("exit") >> \in Ops /\ n \in IntNames
    BY OpFields DEF Ops, OpNames, IntNames
  <2>2. HereAbove(Top, c', mem)
    BY <1>3, <1>7 DEF Here, HereAbove
  <2>3. AtIntWr(Top, n, << Op("exit") >>, c', mem)
    BY <1>3, <2>2 DEF AtIntWr
  <2> QED BY <1>5, <1>7, <2>1, <2>3
<1>8. ASSUME NEW k \in Conts, NEW n \in Nested, todo' = IntWr(n, k), c.pc = BACK,
             Back(k, Top, mem[c.sp].pc, c.fl, c.sp + 1, mem)
      PROVE  MInv'
  <2>1. k \in Ops /\ n \in IntNames
    BY ContLists DEF Nested, IntNames
  <2>2. Res(k) \in Ops /\ todo' = Then(IntTo(n), Res(k))
    BY <1>8, <2>1, CallLists DEF IntWr
  <2>3. AtIntWr(Top, n, Res(k), c', mem)
    BY <1>3, <1>8 DEF AtIntWr
  <2> QED BY <1>5, <2>1, <2>2, <2>3
<1> QED BY <1>4, <1>6, <1>7, <1>8 DEF AtIntSp

LEMMA IntWrKept ==
  ASSUME MInv, Doing("int.wr"), SimInt, UNCHANGED <<mode, stack0>> PROVE MInv'
<1> DEFINE i == Head(todo).n
           x == [pc |-> c.pc, fl |-> c.fl]
<1>1. /\ mode = "pl0" /\ mode' = "pl0" /\ Head(todo).op = "int.wr"
      /\ mem' = [mem EXCEPT ![c.sp] = x] /\ todo' = Tail(todo) /\ UNCHANGED stack0
      /\ c' = [c EXCEPT !.pc = Vector(i), !.fl = Off]
  BY DEF SimInt, Doing, Cur, Go
<1>2. /\ c \in ClientStates /\ c.sp \in 1 .. (Cells + 1) /\ Cells \in Nat /\ Fits(Top)
      /\ mem \in [1 .. (Cells + 1) -> Cell] /\ c.pc \in Pcs /\ c.fl \in Flags
  BY Facts
<1>3. todo' \in Ops /\ AtIntWr(Top, i, todo', c, mem)
  BY <1>1, Pl0Facts, StageIs
<1>4. c.sp \in 1 .. Cells /\ x \in Cell
  BY <1>2, <1>3 DEF AtIntWr, Cell
<1>5. Vector(i) \in Pcs /\ Off \in Flags
  BY ValueSets DEF Vector
<1>6. c' \in ClientStates /\ c'.pc = Vector(i) /\ c'.fl = Off /\ c'.sp = c.sp
  BY <1>1, <1>2, <1>5 DEF ClientStates
<1>7. x.pc = c.pc /\ x.fl = c.fl
  OBVIOUS
<1>8. mem'[c.sp] = x /\ \A j \in (c.sp + 1) .. Cells : mem[j] = mem'[j]
  <2> HIDE DEF x
  <2> QED BY <1>1, <1>2, <1>4
<1>9. ASSUME Stage(Top, Under, todo', c', mem') PROVE MInv'
  <2> HIDE DEF x
  <2> QED BY <1>1, <1>3, <1>4, <1>6, <1>9, Step0
<1>10. CASE i = "21" /\ todo' = Esc1 /\ Top.k = "none"
  <2>1. todo' # << >> /\ Head(todo').op = "resume" /\ Tail(todo') = Esc2
    BY <1>10, OpFields DEF Esc1, Esc2, OpNames
  <2>2. Vector(i) = DOS
    BY <1>10 DEF Vector
  <2>3. AtResume(Top, Tail(todo'), c', mem')
    BY <1>6, <1>10, <2>1, <2>2 DEF AtResume
  <2> QED BY <1>9, <2>1, <2>3, StageIs
<1>11. CASE i \in {"00", "06", "0D"} /\ todo' = << Op("exit") >> /\ HereAbove(Top, c, mem)
  <2>1. todo' # << >> /\ Head(todo').op = "exit"
    BY <1>11, OpFields DEF OpNames
  <2>2. Vector(i) \in Plain
    BY <1>11, VectorPcs DEF IntNames
  <2> DEFINE y == [pc |-> c.pc, fl |-> c.fl, sp |-> c.sp + 1]
  <2>3. /\ y \in ClientStates /\ y.pc = c.pc /\ y.fl = c.fl /\ y.sp = c.sp + 1
        /\ y.sp - 1 = c.sp /\ y.sp > 1
    BY <1>2, <1>4 DEF ClientStates
  <2>4. V86(Top, y.pc, y.fl, y.sp, mem)
    BY <1>11, <2>3 DEF HereAbove
  <2>5. mem' = [mem EXCEPT ![y.sp - 1] = [pc |-> y.pc, fl |-> y.fl]]
    BY <1>1, <2>3
  <2> HIDE DEF y
  <2>6. V86(Top, Vector(i), Off, y.sp - 1, mem')
    BY <1>2, <2>2, <2>3, <2>4, <2>5, V86Push
  <2>7. Here(Top, c', mem')
    BY <1>6, <2>3, <2>6 DEF Here
  <2> QED BY <1>9, <2>1, <2>7, StageIs
<1>12. ASSUME NEW k \in Conts, i \in Nested, todo' = Res(k), c.pc = BACK,
              Back(k, Top, mem[c.sp + 1].pc, c.fl, c.sp + 2, mem)
       PROVE  MInv'
  <2>1. /\ todo' # << >> /\ Head(todo') = Op("resume") /\ Tail(todo') = RetPc(k)
    BY <1>12, ContLists, CallLists DEF IntNames
  <2>2. Head(todo').op = "resume"
    BY <2>1, OpFields DEF OpNames
  <2>3. c.sp + 2 <= Cells + 1
    BY <1>12 DEF Back
  <2>4. mem'[c.sp + 1] = mem[c.sp + 1] /\ \A j \in (c.sp + 2) .. Cells : mem[j] = mem'[j]
    BY <1>2, <1>8, <2>3
  <2>5. Back(k, Top, mem'[c.sp + 1].pc, c.fl, c.sp + 2, mem')
    BY <1>2, <1>12, <2>4, BackAgrees
  <2>6. mem'[c'.sp].pc = BACK /\ mem'[c'.sp].fl = c.fl
    BY <1>6, <1>7, <1>8, <1>12
  <2>7. Called(k, Top, c', mem')
    BY <1>6, <2>5, <2>6 DEF Called
  <2>8. c'.pc \in Plain
    BY <1>6, <1>12, VectorPcs DEF Nested, IntNames
  <2>9. AtResume(Top, Tail(todo'), c', mem')
    BY <2>1, <2>7, <2>8 DEF AtResume
  <2> QED BY <1>9, <2>1, <2>2, <2>9, StageIs
<1> QED BY <1>3, <1>10, <1>11, <1>12 DEF AtIntWr

LEMMA RetPcKept ==
  ASSUME MInv, Doing("ret.pc"), SimRet, UNCHANGED <<mode, stack0>> PROVE MInv'
<1>1. /\ mode = "pl0" /\ mode' = "pl0" /\ Head(todo).op = "ret.pc" /\ mem' = mem
      /\ c' = [c EXCEPT !.pc = mem[c.sp].pc] /\ todo' = Tail(todo) /\ UNCHANGED stack0
  BY DEF SimRet, Doing, Cur, Go
<1>2. /\ c \in ClientStates /\ c.sp \in 1 .. (Cells + 1) /\ Cells \in Nat
      /\ mem[c.sp] \in Cell
  BY Facts
<1>3. c' \in ClientStates /\ c'.pc = mem[c.sp].pc /\ c'.fl = c.fl /\ c'.sp = c.sp
  BY <1>1, <1>2 DEF ClientStates, Cell
<1>4. todo' \in Ops /\ AtRetPc(Top, todo', c, mem)
  BY <1>1, Pl0Facts, StageIs
<1>5. PICK k \in Conts : todo' = RetSp(k) /\ Back(k, Top, mem[c.sp].pc, c.fl, c.sp + 1, mem)
  BY <1>4 DEF AtRetPc
<1>6. todo' # << >> /\ Head(todo') = Op("ret.sp") /\ Tail(todo') = k
  BY <1>5, ContLists, CallLists DEF IntNames
<1>7. Head(todo').op = "ret.sp"
  BY <1>6, OpFields DEF OpNames
<1>8. AtRetSp(Top, Tail(todo'), c', mem')
  BY <1>1, <1>3, <1>5, <1>6 DEF AtRetSp
<1>9. Stage(Top, Under, todo', c', mem')
  BY <1>6, <1>7, <1>8, StageIs
<1> QED BY <1>1, <1>3, <1>4, <1>9, Step0

LEMMA IretPcKept ==
  ASSUME MInv, Doing("iret.pc"), SimRet, UNCHANGED <<mode, stack0>> PROVE MInv'
<1>1. /\ mode = "pl0" /\ mode' = "pl0" /\ Head(todo).op = "iret.pc" /\ mem' = mem
      /\ c' = [c EXCEPT !.pc = mem[c.sp].pc, !.fl = mem[c.sp].fl]
      /\ todo' = Tail(todo) /\ UNCHANGED stack0
  BY DEF SimRet, Doing, Cur, Go
<1>2. /\ c \in ClientStates /\ c.sp \in 1 .. (Cells + 1) /\ Cells \in Nat /\ Fits(Top)
      /\ mem[c.sp] \in Cell /\ \A i \in 1 .. (Cells + 1) : mem[i] \in Cell
  BY Facts
<1>3. c' \in ClientStates /\ c'.pc = mem[c.sp].pc /\ c'.fl = mem[c.sp].fl /\ c'.sp = c.sp
  BY <1>1, <1>2 DEF ClientStates, Cell
<1>4. todo' \in Ops /\ AtIretPc(Top, todo', c, mem)
  BY <1>1, Pl0Facts, StageIs
<1>5. PICK b \in Bodies : todo' = Then(Op("iret.sp"), b)
  BY <1>4 DEF AtIretPc
<1>6. todo' # << >> /\ Head(todo').op = "iret.sp" /\ Tail(todo') = b
  BY <1>5, BodyLists, ThenIs, OpFields DEF OpNames
<1>7. c.pc # BACK /\ c.pc \notin MainPcs /\ V86(Top, c.pc, c.fl, c.sp, mem)
  BY <1>4, ValueSets DEF AtIretPc, Here
<1>8. c.sp \in 1 .. Cells /\ V86(Top, mem[c.sp].pc, mem[c.sp].fl, c.sp + 1, mem)
  <2>1. \A i \in 1 .. Cells : mem[i] \in Cell
    BY <1>2
  <2> QED BY <1>2, <1>7, <2>1, V86Pop
<1>9. AtIretSp(Top, Tail(todo'), c', mem')
  <2>1. V86(Top, c'.pc, c'.fl, c'.sp + 1, mem')
    BY <1>1, <1>3, <1>8
  <2>2. c'.sp <= Cells
    BY <1>2, <1>3, <1>8
  <2> QED BY <1>6, <2>1, <2>2 DEF AtIretSp, HereAbove
<1>10. Stage(Top, Under, todo', c', mem')
  BY <1>6, <1>9, StageIs
<1> QED BY <1>1, <1>3, <1>4, <1>10, Step0

LEMMA RetSpKept ==
  ASSUME MInv, mode = "pl0", Cur \in {"ret.sp", "iret.sp"}, SimRet, UNCHANGED <<mode, stack0>>
  PROVE  MInv'
<1>1. /\ mode' = "pl0" /\ Head(todo).op \in {"ret.sp", "iret.sp"} /\ mem' = mem
      /\ c' = [c EXCEPT !.sp = c.sp + 1] /\ todo' = Tail(todo) /\ UNCHANGED stack0
  BY DEF SimRet, Doing, Cur, Go
<1>2. c \in ClientStates /\ c.sp \in 1 .. (Cells + 1) /\ Cells \in Nat
  BY Facts
<1>3. todo' \in Ops /\ Stage(Top, Under, todo, c, mem) /\ todo # << >>
  BY <1>1, Pl0Facts
<1>4. /\ Head(todo).op = "ret.sp" => AtRetSp(Top, todo', c, mem)
      /\ Head(todo).op = "iret.sp" => AtIretSp(Top, todo', c, mem)
  BY <1>1, <1>3, StageIs
<1>5. c.sp + 1 \in 1 .. (Cells + 1)
  BY <1>1, <1>2, <1>4 DEF AtRetSp, AtIretSp, HereAbove, Back
<1>6. c' \in ClientStates /\ c'.pc = c.pc /\ c'.fl = c.fl /\ c'.sp = c.sp + 1
  BY <1>1, <1>2, <1>5 DEF ClientStates
<1>7. CASE Head(todo).op = "ret.sp"
  <2>1. Stage(Top, Under, todo', c', mem')
    BY <1>1, <1>4, <1>6, <1>7, Continues DEF AtRetSp
  <2> QED BY <1>1, <1>3, <1>6, <2>1, Step0
<1>8. CASE Head(todo).op = "iret.sp"
  <2>1. todo' \in Bodies /\ Here(Top, c', mem')
    BY <1>1, <1>4, <1>6, <1>8 DEF AtIretSp, HereAbove, Here
  <2>2. Stage(Top, Under, todo', c', mem')
    BY <1>6, <2>1, BodyStage
  <2> QED BY <1>1, <1>3, <1>6, <2>2, Step0
<1> QED BY <1>1, <1>7, <1>8

LEMMA Client0Kept ==
  ASSUME MInv, Client0 PROVE MInv'
<1>1. UNCHANGED <<mode, stack0>> /\ (Begin_Nest_Exec \/ SimInt \/ SimRet)
  BY DEF Client0
<1>2. CASE Begin_Nest_Exec
  <2>1. Doing("begin") \/ Doing("call.sp") \/ Doing("call.wr")
    BY <1>2 DEF Begin_Nest_Exec
  <2> QED BY <1>1, <1>2, <2>1, BeginKept, CallSpKept, CallWrKept
<1>3. CASE SimInt
  <2>1. Doing("int.sp") \/ Doing("int.wr")
    BY <1>3 DEF SimInt
  <2> QED BY <1>1, <1>3, <2>1, IntSpKept, IntWrKept
<1>4. CASE SimRet
  <2>1. Doing("ret.pc") \/ Doing("iret.pc") \/ (mode = "pl0" /\ Cur \in {"ret.sp", "iret.sp"})
    BY <1>4 DEF SimRet
  <2> QED BY <1>1, <1>4, <2>1, RetPcKept, IretPcKept, RetSpKept
<1> QED BY <1>1, <1>2, <1>3, <1>4
-----------------------------------------------------------------------------
(* The steps of ring 0 that neither change the client nor the stack.       *)
LEMMA YieldKept ==
  ASSUME MInv, Doing("yield"), Interruptible PROVE MInv'
<1> DEFINE r == Tail(todo)
<1>1. /\ mode = "pl0" /\ mode' = "pl0" /\ Head(todo).op = "yield" /\ c' = c /\ mem' = mem
      /\ UNCHANGED stack0 /\ todo' = (IF c.fl.if THEN Windowed ELSE << >>) \o r
  BY DEF Interruptible, Doing, Cur, stack0
<1>2. r \in Ops /\ Goes(Top, r, c, mem)
  BY <1>1, Pl0Facts, StageIs DEF AtYield
<1>3. c' \in ClientStates
  BY <1>1, Facts
<1> HIDE DEF r
<1>4. CASE c.fl.if
  <2>1. Op("enable") \in OpSet /\ Op("window") \in OpSet /\ Op("disable") \in OpSet
        /\ Op("enable").op = "enable"
    BY OpFields DEF OpNames
  <2>2. todo' = << Op("enable"), Op("window"), Op("disable") >> \o r
    BY <1>1, <1>4 DEF Windowed
  <2>3. \A x, y, z \in OpSet : << x, y, z >> \o r = Then(x, Then(y, Then(z, r)))
    BY <1>2, Triples
  <2>4. todo' = Then(Op("enable"), Then(Op("window"), Then(Op("disable"), r)))
    BY <2>1, <2>2, <2>3, Zenon
  <2>5. Then(Op("window"), Then(Op("disable"), r)) \in Ops
    BY <1>2, <2>1, ThenIs
  <2>6. /\ todo' \in Ops /\ todo' # << >> /\ Head(todo').op = "enable"
        /\ Tail(todo') = Then(Op("window"), Then(Op("disable"), r))
    BY <2>1, <2>4, <2>5, ThenIs
  <2>7. Stage(Top, Under, todo', c', mem')
    BY <1>1, <1>2, <2>6, StageIs DEF AtEnable
  <2> QED BY <1>1, <1>3, <2>6, <2>7, Step0
<1>5. CASE ~c.fl.if
  <2>1. todo' = r
    BY <1>1, <1>2, <1>5, ConcatEmptySeq DEF Ops
  <2>2. Stage(Top, Under, todo', c', mem')
    BY <1>1, <1>2, <2>1, StageIs DEF Goes, IsExit, IsPrompt
  <2> QED BY <1>1, <1>2, <1>3, <2>1, <2>2, Step0
<1> QED BY <1>4, <1>5

LEMMA UnmaskKept ==
  ASSUME MInv, Doing("unmask"), Back0 PROVE MInv'
<1>1. /\ mode = "pl0" /\ mode' = "pl0" /\ Head(todo).op = "unmask" /\ c' = c /\ mem' = mem
      /\ UNCHANGED stack0 /\ todo' = Tail(todo)
  BY DEF Back0, Doing, Cur, stack0, Go
<1>2. todo' \in Ops /\ AtUnmask(Top, todo', c, mem) /\ c' \in ClientStates
  BY <1>1, Pl0Facts, StageIs, Facts
<1>3. CASE todo' = << Op("exit") >> /\ Here(Top, c, mem)
  <2>1. todo' # << >> /\ Head(todo').op = "exit"
    BY <1>3, OpFields DEF OpNames
  <2>2. Stage(Top, Under, todo', c', mem')
    BY <1>1, <1>3, <2>1, StageIs
  <2> QED BY <1>1, <1>2, <2>2, Step0
<1>4. CASE todo' = << Op("nmi.end") >> /\ Top.k = "nmi" /\ Kept(Top, c.pc, c.sp, mem)
  <2>1. todo' # << >> /\ Head(todo').op = "nmi.end"
    BY <1>4, OpFields DEF OpNames
  <2>2. Stage(Top, Under, todo', c', mem')
    BY <1>1, <1>4, <2>1, StageIs DEF AtNmiEnd
  <2> QED BY <1>1, <1>2, <2>2, Step0
<1> QED BY <1>2, <1>3, <1>4 DEF AtUnmask

LEMMA ExitKept ==
  ASSUME MInv, Exit PROVE MInv'
<1>1. /\ mode = "pl0" /\ mode' = "v86" /\ Head(todo).op \in {"exit", "hook"} /\ todo' = << >>
      /\ UNCHANGED stack0
  BY DEF Exit, Doing, Cur
<1>2. Here(Top, c, mem)
  BY <1>1, Pl0Facts, StageIs
<1>3. /\ Cells \in Nat /\ c \in ClientStates /\ c.sp \in 1 .. (Cells + 1) /\ Fits(Top)
      /\ mem \in [1 .. (Cells + 1) -> Cell] /\ c.pc \in Pcs /\ c.fl \in Flags
  BY Facts
<1>4. << >> \in Ops
  BY DEF Ops
<1>5. CASE UNCHANGED <<c, mem>>
  <2>1. Typed' /\ Here(Top, c', mem')
    BY <1>1, <1>2, <1>4, <1>5 DEF MInv, Typed
  <2> QED BY <1>1, <2>1, StaysV86
<1>6. CASE /\ c.sp > 1
           /\ mem' = [mem EXCEPT ![c.sp - 1] = [pc |-> c.pc, fl |-> c.fl]]
           /\ c' = [pc |-> ISR, fl |-> Off, sp |-> c.sp - 1]
  <2>1. V86(Top, ISR, Off, c.sp - 1, mem')
    BY <1>2, <1>3, <1>6, V86Push, ValueSets DEF Here
  <2>2. c.sp - 1 \in 1 .. Cells /\ c.sp - 1 \in 1 .. (Cells + 1) /\ [pc |-> c.pc, fl |-> c.fl] \in Cell
    BY <1>3, <1>6 DEF Cell
  <2>3. c' \in ClientStates /\ Here(Top, c', mem')
    BY <1>6, <2>1, <2>2, ValueSets DEF ClientStates, Here
  <2>4. mem' \in [1 .. (Cells + 1) -> Cell] /\ mem'[Cells + 1] = Blank
    BY <1>3, <1>6, <2>2 DEF MInv, Typed
  <2>5. Typed'
    BY <1>1, <1>4, <2>3, <2>4 DEF Typed
  <2> QED BY <1>1, <2>3, <2>5, StaysV86
<1> QED BY <1>5, <1>6 DEF Exit

LEMMA FaultKept ==
  ASSUME MInv, Fault PROVE MInv'
<1>1. /\ mode = "pl0" /\ mode' = "pl0" /\ c' = c /\ mem' = mem
      /\ UNCHANGED stack0 /\ todo' = << Op("begin"), Op("reset") >>
  BY DEF Fault, HandleException, Doing, stack0
<1>2. Op("begin") \in OpSet /\ Op("reset") \in OpSet /\ Op("begin").op = "begin" /\ << >> \in Ops
  BY OpFields DEF OpNames, Ops
<1>3. todo' \in Ops
  BY <1>1, <1>2, Pairs
<1>4. todo' # << >> /\ Head(todo').op = "begin" /\ Tail(todo') = ResetOnly
  BY <1>1, <1>2 DEF ResetOnly
<1>5. Stage(Top, Under, todo', c', mem')
  BY <1>4, StageIs DEF AtBegin
<1> QED BY <1>1, <1>3, <1>5, Facts, Step0

LEMMA PromptKept ==
  ASSUME MInv, Prompt PROVE MInv'
<1>1. /\ mode = "pl0" /\ Head(todo).op = "prompt" /\ c' = c /\ mem' = mem /\ UNCHANGED stack0
      /\ c' \in ClientStates
  BY Facts DEF Prompt, Doing, Cur
<1>2. Top.k = "none" /\ todo # << >> /\ todo \in Ops
  BY <1>1, Pl0Facts, StageIs, Facts
<1>3. /\ Op("yield") \in OpSet /\ Op("yield").op = "yield"
      /\ Op("int.sp") \in OpSet /\ Op("int.sp").op = "int.sp" /\ IntTo("21") \in OpSet
      /\ Op("resume") \in OpSet /\ Op("prompt2") \in OpSet
  BY OpFields DEF OpNames, IntNames
<1>4. CASE mode' = "pl0" /\ todo' = << Op("yield") >> \o todo
  <2>1. todo' \in Ops /\ todo' # << >> /\ Head(todo').op = "yield" /\ Tail(todo') = todo
    BY <1>2, <1>3, <1>4, ThenIs DEF Then
  <2>2. Stage(Top, Under, todo', c', mem')
    BY <1>1, <1>2, <2>1, StageIs DEF AtYield, Goes, IsPrompt
  <2> QED BY <1>1, <1>4, <2>1, <2>2, Step0
<1>5. CASE mode' = "pl0" /\ todo' = Simulate_Int("21") \o << Op("resume"), Op("prompt2") >>
  <2>1. Esc1 \in Ops
    BY <1>3, <1>2, Pairs DEF Esc1
  <2>2. todo' = << Op("int.sp"), IntTo("21") >> \o Esc1
    BY <1>5 DEF Simulate_Int, Esc1
  <2>3. todo' = Then(Op("int.sp"), Then(IntTo("21"), Esc1))
    BY <1>3, <2>1, <2>2, Pairs
  <2>4. Then(IntTo("21"), Esc1) \in Ops
    BY <1>3, <2>1, ThenIs
  <2>5. /\ todo' \in Ops /\ todo' # << >> /\ Head(todo').op = "int.sp"
        /\ Tail(todo') = Then(IntTo("21"), Esc1)
    BY <1>3, <2>3, <2>4, ThenIs
  <2>6. Stage(Top, Under, todo', c', mem')
    BY <1>2, <2>5, StageIs DEF AtIntSp
  <2> QED BY <1>1, <1>5, <2>5, <2>6, Step0
<1>6. CASE mode' = "off" /\ todo' = << >>
  <2>1. Typed' /\ Stack0' /\ Running'
    BY <1>1, <1>6 DEF MInv, Typed, Stack0, stack0, Running, Ops
  <2> QED BY <2>1 DEF MInv
<1> QED BY <1>1, <1>4, <1>5, <1>6 DEF Prompt

LEMMA ResetKept ==
  ASSUME MInv, Reset PROVE MInv'
<1>1. /\ mode = "pl0" /\ mode' = "pl0" /\ r0' = << >> /\ dwStackCurr' = 0 /\ dwStackR0' = dwStackR0
      /\ todo' = << Op("prompt") >> /\ c' = c /\ mem' = mem
  BY DEF Reset, Doing
<1>2. todo' \in Ops /\ todo' # << >> /\ Head(todo').op = "prompt"
  BY <1>1, OpFields DEF OpNames, Ops
<1>3. << >> \in Seq(FrameSet) /\ Len(<< >>) = 0 /\ DOMAIN << >> = {}
  BY EmptySeq
<1>4. Top' = Ground /\ Under' = Ground
  BY <1>1, <1>3 DEF Top, Under, Fr
<1>5. Stack0'
  BY <1>1, <1>3 DEF MInv, Stack0, GoodStack, Waiting, Lets
<1>6. Stage(Top', Under', todo', c', mem')
  BY <1>2, <1>4, StageIs DEF Ground, Frame
<1>7. Typed'
  BY <1>1, <1>2 DEF MInv, Typed
<1> QED BY <1>1, <1>5, <1>6, <1>7 DEF MInv, Running
-----------------------------------------------------------------------------
(* The steps that push or pop a frame.                                     *)
LEMMA SeenClient ==
  ASSUME MInv
  PROVE  /\ SeenOK(Client) /\ Client \in Seens /\ Client.c = c
         /\ \A i \in c.sp .. Cells : mem[i] = Client.live[i]
<1>1. /\ Cells \in Nat /\ c.sp \in 1 .. (Cells + 1) /\ c \in ClientStates
      /\ \A i \in 1 .. (Cells + 1) : mem[i] \in Cell
  BY Facts
<1>2. mem[Cells + 1] = Blank
  BY DEF MInv, Typed
<1> DEFINE l == [i \in 1 .. Cells |-> IF i >= c.sp THEN mem[i] ELSE mem[Cells + 1]]
<1>3. Client = [c |-> c, live |-> l]
  BY DEF Client
<1>4. l \in Stacks /\ \A i \in 1 .. Cells : i < c.sp => l[i] = Blank
  BY <1>1, <1>2, ValueSets DEF Stacks
<1>5. \A i \in c.sp .. Cells : mem[i] = l[i]
  BY <1>1
<1>6. c \in [pc : Pcs, fl : Flags, sp : 0 .. (Cells + 1)]
  BY <1>1 DEF ClientStates
<1> HIDE DEF l
<1>7. Client.c = c /\ Client.live = l
  BY <1>3
<1>8. Client \in Seens
  BY <1>3, <1>4, <1>6 DEF Seens
<1> QED BY <1>1, <1>4, <1>5, <1>7, <1>8 DEF SeenOK

LEMMA StackFacts ==
  ASSUME MInv
  PROVE  /\ r0 \in Seq(FrameSet) /\ GoodStack(r0) /\ Len(r0) \in Nat /\ dwStackR0 \in Nat
         /\ dwStackCurr \in Nat
         /\ Waiting(r0, dwStackCurr, Len(r0)) /\ Lets(r0, dwStackR0, Len(r0))
         /\ Top.k # "none" => Len(r0) > 0
         /\ Len(r0) > 0 => Top = r0[Len(r0)] /\ Top \in FrameSet /\ Top.n \in Nat
                           /\ Top.todo \in Ops /\ Len(r0) - 1 \in Nat
<1>1. /\ r0 \in Seq(FrameSet) /\ GoodStack(r0) /\ dwStackR0 \in Nat
      /\ Waiting(r0, dwStackCurr, Len(r0)) /\ Lets(r0, dwStackR0, Len(r0))
  BY DEF MInv, Stack0
<1>2. Len(r0) \in Nat /\ DOMAIN r0 = 1 .. Len(r0)
  BY <1>1
<1>3. dwStackCurr \in Nat
  BY <1>1, <1>2 DEF Waiting
<1>4. ASSUME Len(r0) > 0
      PROVE  Top = r0[Len(r0)] /\ Top \in FrameSet /\ Len(r0) - 1 \in Nat
  <2>1. Len(r0) \in DOMAIN r0
    BY <1>2, <1>4
  <2> QED BY <1>1, <1>2, <1>4, <2>1 DEF Top, Fr
<1>5. Top.k # "none" => Len(r0) > 0
  <2>1. Len(r0) = 0 => Len(r0) \notin DOMAIN r0
    BY <1>2
  <2> QED BY <1>2, <2>1 DEF Top, Fr, Ground, Frame
<1> QED BY <1>1, <1>2, <1>3, <1>4, <1>5 DEF FrameSet

LEMMA PushKept ==
  ASSUME MInv, NEW x \in FrameSet, FrameOn(Top, Under, x), r0' = Append(r0, x),
         x.k = "resume" => x.n = dwStackCurr /\ dwStackCurr' = Len(r0) + 1,
         x.k # "resume" => dwStackCurr' = dwStackCurr,
         x.k = "ints" => x.n = dwStackR0 /\ dwStackR0' = Len(r0) + 1,
         x.k # "ints" => dwStackR0' = dwStackR0
  PROVE  Stack0' /\ Top' = x /\ Under' = Top
<1> DEFINE n == Len(r0)
<1>1. /\ r0 \in Seq(FrameSet) /\ GoodStack(r0) /\ n \in Nat /\ dwStackR0 \in Nat
      /\ dwStackCurr \in Nat /\ Waiting(r0, dwStackCurr, n) /\ Lets(r0, dwStackR0, n)
  BY StackFacts
<1>2. /\ r0' \in Seq(FrameSet) /\ GoodStack(r0') /\ Len(r0') = n + 1 /\ r0'[n + 1] = x
      /\ Fr(r0', Len(r0')) = x /\ Fr(r0', Len(r0') - 1) = Fr(r0, n)
      /\ Waiting(r0', dwStackCurr, n) /\ Lets(r0', dwStackR0, n)
  BY <1>1, Pushed DEF Top, Under
<1> HIDE DEF n
<1>3. Waiting(r0', dwStackCurr', n + 1)
  BY <1>1, <1>2 DEF Waiting, n
<1>4. Lets(r0', dwStackR0', n + 1) /\ dwStackR0' \in Nat
  BY <1>1, <1>2 DEF Lets, n
<1>5. Top' = x /\ Under' = Top
  BY <1>2 DEF Top, Under, n
<1> QED BY <1>2, <1>3, <1>4, <1>5 DEF Stack0

LEMMA PopKept ==
  ASSUME MInv, Len(r0) > 0, r0' = SubSeq(r0, 1, Len(r0) - 1),
         dwStackCurr' = IF Top.k = "resume" THEN Top.n ELSE dwStackCurr,
         dwStackR0' = IF Top.k = "ints" THEN Top.n ELSE dwStackR0
  PROVE  Stack0' /\ Top' = Under /\ Under' = Fr(r0, Len(r0) - 2)
         /\ FrameOn(Under, Fr(r0, Len(r0) - 2), Top)
<1> DEFINE n == Len(r0) - 1
<1>1. /\ r0 \in Seq(FrameSet) /\ GoodStack(r0) /\ n \in Nat /\ dwStackR0 \in Nat
      /\ dwStackCurr \in Nat /\ Waiting(r0, dwStackCurr, n + 1) /\ Lets(r0, dwStackR0, n + 1)
      /\ Len(r0) = n + 1 /\ n + 1 \in DOMAIN r0 /\ Top = r0[n + 1] /\ Top.n \in Nat
      /\ Len(r0) - 2 = n - 1 /\ n + 1 - 1 = n /\ n + 1 - 2 = n - 1
  BY StackFacts
<1>2. /\ r0' \in Seq(FrameSet) /\ GoodStack(r0') /\ Len(r0') = n
      /\ Fr(r0', n) = Fr(r0, n) /\ Fr(r0', n - 1) = Fr(r0, n - 1)
      /\ \A y \in Nat : Waiting(r0, y, n) => Waiting(r0', y, n)
      /\ \A y \in Nat : Lets(r0, y, n) => Lets(r0', y, n)
  BY <1>1, Popped
<1>3. Top' = Under /\ Under' = Fr(r0, Len(r0) - 2)
  BY <1>1, <1>2 DEF Top, Under
<1> HIDE DEF n
<1>4. /\ FrameOn(Fr(r0, n), Fr(r0, n - 1), Top)
      /\ Top.k = "resume" => Waiting(r0, Top.n, n)
      /\ Top.k = "ints" => Lets(r0, Top.n, n)
  BY <1>1 DEF GoodStack
<1>5. Top.k # "resume" => Waiting(r0, dwStackCurr, n)
  BY <1>1 DEF Waiting
<1>6. Top.k # "ints" => Lets(r0, dwStackR0, n)
  BY <1>1 DEF Lets
<1>7. Waiting(r0', dwStackCurr', n) /\ Lets(r0', dwStackR0', n) /\ dwStackR0' \in Nat
  BY <1>1, <1>2, <1>4, <1>5, <1>6
<1>8. Under = Fr(r0, n)
  BY <1>1 DEF Under, n
<1> QED BY <1>1, <1>2, <1>3, <1>4, <1>7, <1>8 DEF Stack0

LEMMA NestKept ==
  ASSUME MInv, NEW kind \in {"irq", "nmi"}, mode = "pl0", mode' = "pl0",
         NEW v \in {"irq", "02"}, NEW k \in Conts, NEW num \in Nat,
         k = IF kind = "irq" THEN << Op("irq.end") >> ELSE << Op("unmask"), Op("nmi.end") >>,
         r0' = Append(r0, Frame(kind, num, todo, Client)), todo' = RunV86(v) \o k,
         c' = c \/ (kind = "nmi" /\ c' = [c EXCEPT !.fl = Off]),
         UNCHANGED <<mem, dwStackCurr, dwStackR0>>
  PROVE  MInv'
<1> DEFINE x == Frame(kind, num, todo, Client)
<1>1. /\ SeenOK(Client) /\ Client \in Seens /\ Client.c = c
      /\ \A i \in c.sp .. Cells : mem[i] = Client.live[i]
  BY SeenClient
<1>2. /\ Cells \in Nat /\ c.sp \in 1 .. (Cells + 1) /\ c \in ClientStates /\ Fits(Top) /\ Fits(Under)
      /\ todo \in Ops
  BY Facts
<1>3. /\ x.k = kind /\ x.n = num /\ x.todo = todo /\ x.seen = Client /\ x \in FrameSet
  BY <1>1, <1>2 DEF Frame, FrameSet, Kinds
<1>4. Stage(Top, Under, todo, c, Client.live)
  BY <1>1, <1>2, Pl0Facts, StageAgrees
<1>5. FrameOn(Top, Under, x)
  <2> HIDE DEF x
  <2> QED BY <1>1, <1>3, <1>4 DEF FrameOn
<1>6. r0' = Append(r0, x)
  OBVIOUS
<1> HIDE DEF x
<1>7. Stack0' /\ Top' = x /\ Under' = Top
  BY <1>3, <1>5, <1>6, PushKept
<1>8. c' \in ClientStates /\ c'.pc = c.pc /\ c'.sp = c.sp /\ (kind = "irq" => c'.fl = c.fl)
  BY <1>2, ValueSets DEF ClientStates
<1>9. k \in Ops /\ v \in IntNames /\ v \in Nested
  BY ContLists DEF IntNames, Nested
<1>10. /\ todo' \in Ops /\ todo' # << >> /\ Head(todo').op = "begin" /\ Tail(todo') = IntSp(v, k)
  BY <1>9, RunList, OpFields DEF OpNames
<1>11. Kept(x, c'.pc, c'.sp, mem')
  BY <1>1, <1>2, <1>3, <1>8 DEF Kept
<1>12. Back(k, x, c'.pc, c'.fl, c'.sp, mem')
  <2>1. CASE kind = "irq"
    <3>1. k = << Op("irq.end") >> /\ k # << Op("exit") >> /\ k # << Op("unmask"), Op("exit") >>
          /\ k # << Op("unmask"), Op("nmi.end") >>
      BY <2>1, OpFields DEF OpNames
    <3> QED BY <1>1, <1>2, <1>3, <1>8, <1>11, <2>1, <3>1 DEF Back
  <2>2. CASE kind = "nmi"
    <3>1. k = << Op("unmask"), Op("nmi.end") >> /\ k # << Op("exit") >>
          /\ k # << Op("unmask"), Op("exit") >> /\ k # << Op("irq.end") >>
      BY <2>2, OpFields DEF OpNames
    <3> QED BY <1>1, <1>2, <1>3, <1>8, <1>11, <2>2, <3>1 DEF Back
  <2> QED BY <2>1, <2>2
<1>13. Stage(Top', Under', todo', c', mem')
  BY <1>7, <1>9, <1>10, <1>12, StageIs DEF AtBegin
<1>14. Typed'
  BY <1>8, <1>10 DEF MInv, Typed
<1> QED BY <1>7, <1>13, <1>14 DEF MInv, Running

(* What waits in Resume_Exec after a call is not what waits after the      *)
(* interrupt that ends a program.                                          *)
LEMMA EscApart ==
  ASSUME NEW k \in Conts
  PROVE  RetPc(k) # Esc2 /\ Head(RetPc(k)).op = "ret.pc" /\ Head(Esc2).op = "prompt2"
<1>1. k \in Ops /\ "02" \in IntNames
  BY ContLists DEF IntNames
<1>2. Head(RetPc(k)) = Op("ret.pc")
  BY <1>1, CallLists
<1>3. Op("ret.pc").op = "ret.pc" /\ Op("prompt2").op = "prompt2"
  BY DEF Op
<1>4. Head(Esc2) = Op("prompt2")
  BY DEF Esc2
<1> QED BY <1>2, <1>3, <1>4

LEMMA ResumeKept ==
  ASSUME MInv, Resume_Exec PROVE MInv'
<1> DEFINE x == Frame("resume", dwStackCurr, Tail(todo), Client)
<1>1. /\ mode = "pl0" /\ Head(todo).op = "resume" /\ r0' = Append(r0, x)
      /\ dwStackCurr' = Len(r0) + 1 /\ dwStackR0' = dwStackR0
      /\ mode' = "v86" /\ todo' = << >> /\ c' = c /\ mem' = mem
  BY DEF Resume_Exec, Doing, Cur
<1>2. /\ SeenOK(Client) /\ Client \in Seens /\ Client.c = c
      /\ \A i \in c.sp .. Cells : mem[i] = Client.live[i]
  BY SeenClient
<1>3. /\ Cells \in Nat /\ c.sp \in 1 .. (Cells + 1) /\ c \in ClientStates /\ Fits(Top)
      /\ c.pc \in Pcs /\ c.fl \in Flags /\ \A i \in 1 .. (Cells + 1) : mem[i] \in Cell
  BY Facts
<1>4. todo # << >> /\ AtResume(Top, Tail(todo), c, mem) /\ Tail(todo) \in Ops
  BY <1>1, Pl0Facts, StageIs
<1>5. AtResume(Top, Tail(todo), c, Client.live)
  BY <1>2, <1>3, <1>4, CallsAgree
<1>6. /\ x.k = "resume" /\ x.n = dwStackCurr /\ x.todo = Tail(todo) /\ x.seen = Client
      /\ x \in FrameSet
  BY <1>2, <1>4, StackFacts DEF Frame, FrameSet, Kinds
<1> HIDE DEF x
<1>7. FrameOn(Top, Under, x)
  BY <1>2, <1>5, <1>6 DEF FrameOn, AtResume
<1>8. Stack0' /\ Top' = x
  BY <1>1, <1>6, <1>7, PushKept
<1>9. Aborted' \/ Here(x, c, mem)
  <2>1. CASE Tail(todo) = Esc2 /\ c.pc = DOS /\ c.fl = Off
    BY <1>1, <1>6, <1>8, <2>1 DEF Aborted
  <2>2. ASSUME NEW k \in Conts, Tail(todo) = RetPc(k), c.pc \in Plain, Called(k, Top, c, mem)
        PROVE  Here(x, c, mem)
    <3>1. Head(Tail(todo)).op = "ret.pc" /\ Head(Esc2).op = "prompt2"
      BY <2>2, EscApart
    <3>2. Calls(x) /\ Base(x) = c.sp + 1 /\ x.k \in {"none", "resume"}
      BY <1>2, <1>6, <3>1 DEF Calls, Base
    <3>3. c.sp + 1 <= Cells /\ c.sp \in 1 .. Cells
      BY <1>3, <2>2 DEF Called, Back
    <3>4. X(c.pc, c.fl, c.sp, mem, c.sp) = mem[c.sp] /\ mem[c.sp] = x.seen.live[c.sp]
          /\ X(c.pc, c.fl, c.sp, mem, c.sp - 1).pc = c.pc /\ mem[c.sp] \in Cell
      BY <1>2, <1>3, <1>6, <3>3 DEF X
    <3>5. mem[c.sp] = [pc |-> BACK, fl |-> mem[c.sp].fl]
      BY <2>2, <3>4 DEF Called, Cell
    <3>6. Base(x) - 1 = c.sp /\ Base(x) - 2 = c.sp - 1
      BY <1>3, <3>2
    <3>7. IsBottom(x, X(c.pc, c.fl, c.sp, mem, Base(x) - 1))
      BY <3>2, <3>4, <3>5, <3>6 DEF IsBottom
    <3>8. \A i \in (c.sp - 1) .. (Base(x) - 2) : X(c.pc, c.fl, c.sp, mem, i).pc \in Plain
      BY <1>3, <2>2, <3>4, <3>6
    <3>9. \A i \in Base(x) .. Cells : mem[i] = x.seen.live[i]
      BY <1>2, <1>3, <1>6, <3>2
    <3> QED BY <1>3, <3>2, <3>7, <3>8, <3>9 DEF Here, V86
  <2> QED BY <1>4, <2>1, <2>2 DEF AtResume
<1>10. Typed'
  BY <1>1 DEF MInv, Typed, Ops
<1> QED BY <1>1, <1>8, <1>9, <1>10 DEF MInv, Running

LEMMA EnableKept ==
  ASSUME MInv, Doing("enable"), Interruptible PROVE MInv'
<1> DEFINE x == Frame("ints", dwStackR0, << >>, NoClient)
<1>1. /\ mode = "pl0" /\ mode' = "pl0" /\ Head(todo).op = "enable" /\ r0' = Append(r0, x)
      /\ dwStackR0' = Len(r0) + 1 /\ dwStackCurr' = dwStackCurr
      /\ todo' = Tail(todo) /\ c' = c /\ mem' = mem
  BY DEF Interruptible, Doing, Cur, Go
<1>2. todo' \in Ops /\ AtEnable(Top, todo', c, mem)
  BY <1>1, Pl0Facts, StageIs
<1>3. NoClient \in Seens
  <2>1. Cells \in Nat /\ 0 \in 0 .. (Cells + 1)
    BY MonAssumption
  <2> QED BY <2>1, ValueSets DEF NoClient, Seens
<1>4. x.k = "ints" /\ x.n = dwStackR0 /\ x \in FrameSet
  <2>1. << >> \in Ops
    BY DEF Ops
  <2> QED BY <1>3, <2>1, StackFacts DEF Frame, FrameSet, Kinds
<1> HIDE DEF x
<1>5. FrameOn(Top, Under, x)
  BY <1>4 DEF FrameOn
<1>6. Stack0' /\ Top' = x /\ Under' = Top
  BY <1>1, <1>4, <1>5, PushKept
<1>7. PICK k \in Ops : todo' = Then(Op("window"), Then(Op("disable"), k)) /\ Goes(Top, k, c, mem)
  BY <1>2 DEF AtEnable
<1>8. Op("window") \in OpSet /\ Op("disable") \in OpSet /\ Op("window").op = "window"
  BY OpFields DEF OpNames
<1>9. Then(Op("disable"), k) \in Ops
  BY <1>8, ThenIs
<1>10. todo' # << >> /\ Head(todo').op = "window" /\ Tail(todo') = Then(Op("disable"), k)
  BY <1>7, <1>8, <1>9, ThenIs
<1>11. AtWindow(x, Top, Tail(todo'), c, mem)
  BY <1>4, <1>7, <1>10 DEF AtWindow
<1>12. Stage(Top', Under', todo', c', mem')
  BY <1>1, <1>6, <1>10, <1>11, StageIs
<1>13. Typed'
  BY <1>1, <1>2 DEF MInv, Typed
<1> QED BY <1>1, <1>6, <1>12, <1>13 DEF MInv, Running

LEMMA WindowKept ==
  ASSUME MInv, Doing("window"), Interruptible PROVE MInv'
<1>1. /\ mode = "pl0" /\ mode' = "pl0" /\ Head(todo).op = "window" /\ UNCHANGED stack0
      /\ todo' = Tail(todo) /\ c' = c /\ mem' = mem
  BY DEF Interruptible, Doing, Cur, Go, stack0
<1>2. todo' \in Ops /\ AtWindow(Top, Under, todo', c, mem)
  BY <1>1, Pl0Facts, StageIs
<1>3. PICK k \in Ops : todo' = Then(Op("disable"), k) /\ Goes(Under, k, c, mem)
  BY <1>2 DEF AtWindow
<1>4. todo' # << >> /\ Head(todo').op = "disable" /\ Tail(todo') = k
  BY <1>3, ThenIs, OpFields DEF OpNames
<1>5. AtDisable(Top, Under, Tail(todo'), c', mem')
  BY <1>1, <1>2, <1>3, <1>4 DEF AtWindow, AtDisable
<1>6. Stage(Top, Under, todo', c', mem')
  BY <1>4, <1>5, StageIs
<1> QED BY <1>1, <1>2, <1>6, Facts, Step0

LEMMA DisableKept ==
  ASSUME MInv, Doing("disable"), Interruptible PROVE MInv'
<1>1. /\ mode = "pl0" /\ mode' = "pl0" /\ Head(todo).op = "disable" /\ dwStackCurr' = dwStackCurr
      /\ r0' = Front(r0) /\ dwStackR0' = Last(r0).n
      /\ todo' = Tail(todo) /\ c' = c /\ mem' = mem
  BY DEF Interruptible, Doing, Cur, Go, DisableInts
<1>2. todo' \in Ops /\ AtDisable(Top, Under, todo', c, mem)
  BY <1>1, Pl0Facts, StageIs
<1>3. Top.k = "ints" /\ Goes(Under, todo', c, mem)
  BY <1>2 DEF AtDisable
<1>4. Len(r0) > 0 /\ Last(r0) = Top
  BY <1>3, StackFacts DEF Last
<1>5. r0' = SubSeq(r0, 1, Len(r0) - 1) /\ dwStackR0' = Top.n
  BY <1>1, <1>4 DEF Front
<1>6. Stack0' /\ Top' = Under
  BY <1>1, <1>3, <1>4, <1>5, PopKept
<1>7. Stage(Top', Under', todo', c', mem')
  BY <1>1, <1>3, <1>6, StageIs DEF Goes, IsExit, IsPrompt
<1>8. Typed'
  BY <1>1, <1>2 DEF MInv, Typed
<1> QED BY <1>1, <1>6, <1>7, <1>8 DEF MInv, Running

(* @@Reentered: nothing but the window's own frame is on the stack.        *)
LEMMA WindowTop ==
  ASSUME MInv, Doing("window") PROVE dwStackR0 = Len(r0)
<1>1. AtWindow(Top, Under, Tail(todo), c, mem)
  BY Pl0Facts, StageIs DEF Doing, Cur
<1>2. Top.k = "ints" /\ Len(r0) > 0 /\ r0[Len(r0)].k = "ints"
  BY <1>1, StackFacts DEF AtWindow
<1> QED BY <1>2, StackFacts DEF Lets

LEMMA IrqPl0Kept ==
  ASSUME MInv, IrqPl0 PROVE MInv'
<1>1. mode = "pl0" /\ dwStackR0 = Len(r0) /\ mode' = "pl0"
      /\ UNCHANGED <<mem, dwStackCurr, dwStackR0>>
  BY WindowTop DEF IrqPl0, Doing
<1>2. /\ r0' = Append(r0, Frame("irq", 0, todo, Client)) /\ c' = c
      /\ todo' = RunV86("irq") \o << Op("irq.end") >>
  BY <1>1 DEF IrqPl0
<1>3. << Op("irq.end") >> \in Conts
  BY DEF Conts
<1> QED BY <1>1, <1>2, <1>3, NestKept

LEMMA NmiPl0Kept ==
  ASSUME MInv, NmiPl0 PROVE MInv'
<1>1. /\ mode = "pl0" /\ mode' = "pl0" /\ UNCHANGED <<mem, dwStackCurr, dwStackR0>>
      /\ r0' = Append(r0, Frame("nmi", IF c.fl.if THEN 1 ELSE 0, todo, Client))
      /\ c' = [c EXCEPT !.fl = Off]
      /\ todo' = RunV86("02") \o << Op("unmask"), Op("nmi.end") >>
  BY DEF NmiPl0
<1>2. << Op("unmask"), Op("nmi.end") >> \in Conts
  BY DEF Conts
<1>3. (IF c.fl.if THEN 1 ELSE 0) \in Nat
  OBVIOUS
<1> QED BY <1>1, <1>2, <1>3, NestKept

(* irq.end and nmi.end: the client is again as it was when the frame was   *)
(* pushed.                                                                 *)
LEMMA Returns ==
  ASSUME MInv, Doing("irq.end") \/ Doing("nmi.end"), Back0
  PROVE  /\ mode = "pl0" /\ mode' = "pl0" /\ Top.k \in {"irq", "nmi"} /\ Len(r0) > 0
         /\ Last(r0) = Top /\ r0' = SubSeq(r0, 1, Len(r0) - 1) /\ todo' = Top.todo
         /\ UNCHANGED <<mem, dwStackCurr, dwStackR0>>
         /\ SeenOK(Top.seen) /\ c' = Top.seen.c
         /\ \A i \in c'.sp .. Cells : mem[i] = Top.seen.live[i]
<1>1. /\ mode = "pl0" /\ mode' = "pl0" /\ UNCHANGED <<mem, dwStackCurr, dwStackR0>>
      /\ todo' = Last(r0).todo /\ r0' = Front(r0)
      /\ \/ Head(todo).op = "irq.end" /\ c' = c
         \/ Head(todo).op = "nmi.end" /\ c' = [c EXCEPT !.fl = Last(r0).seen.c.fl]
  BY DEF Back0, Doing, Cur
<1>2. /\ Head(todo).op = "irq.end" => AtIrqEnd(Top, c, mem)
      /\ Head(todo).op = "nmi.end" => AtNmiEnd(Top, c, mem)
  BY <1>1, Pl0Facts, StageIs
<1>3. Top.k \in {"irq", "nmi"} /\ Kept(Top, c.pc, c.sp, mem)
      /\ (Head(todo).op = "irq.end" => c.fl = Top.seen.c.fl)
  BY <1>1, <1>2 DEF AtIrqEnd, AtNmiEnd
<1>4. Len(r0) > 0 /\ Last(r0) = Top /\ r0[Len(r0)] = Top /\ Len(r0) \in DOMAIN r0
  BY <1>3, StackFacts DEF Last
<1>5. r0' = SubSeq(r0, 1, Len(r0) - 1) /\ todo' = Top.todo
  BY <1>1, <1>4 DEF Front
<1>6. SeenOK(Top.seen)
  BY <1>3, <1>4, StackFacts DEF GoodStack, FrameOn
<1>7. c \in ClientStates /\ Top.seen.c \in ClientStates
  BY <1>6, Facts DEF SeenOK
<1>8. c'.pc = Top.seen.c.pc /\ c'.fl = Top.seen.c.fl /\ c'.sp = Top.seen.c.sp /\ c' \in ClientStates
  <2>1. CASE Head(todo).op = "irq.end" /\ c' = c
    BY <1>3, <1>7, <2>1 DEF Kept
  <2>2. CASE Head(todo).op = "nmi.end" /\ c' = [c EXCEPT !.fl = Top.seen.c.fl]
    BY <1>3, <1>7, <2>2 DEF Kept, ClientStates
  <2> QED BY <1>1, <1>4, <2>1, <2>2
<1>9. c' = Top.seen.c
  BY <1>7, <1>8 DEF ClientStates
<1>10. \A i \in c'.sp .. Cells : mem[i] = Top.seen.live[i]
  BY <1>3, <1>9 DEF Kept
<1> QED BY <1>1, <1>3, <1>4, <1>5, <1>6, <1>9, <1>10

LEMMA ReturnsKept ==
  ASSUME MInv, Doing("irq.end") \/ Doing("nmi.end"), Back0 PROVE MInv'
<1>1. /\ mode = "pl0" /\ mode' = "pl0" /\ Top.k \in {"irq", "nmi"} /\ Len(r0) > 0
      /\ Last(r0) = Top /\ r0' = SubSeq(r0, 1, Len(r0) - 1) /\ todo' = Top.todo
      /\ UNCHANGED <<mem, dwStackCurr, dwStackR0>>
      /\ SeenOK(Top.seen) /\ c' = Top.seen.c
      /\ \A i \in c'.sp .. Cells : mem[i] = Top.seen.live[i]
  BY Returns
<1>2. /\ Stack0' /\ Top' = Under /\ Under' = Fr(r0, Len(r0) - 2)
      /\ FrameOn(Under, Fr(r0, Len(r0) - 2), Top)
  BY <1>1, PopKept
<1>3. Stage(Top', Under', todo', c', Top.seen.live)
  BY <1>1, <1>2 DEF FrameOn
<1>4. c' \in ClientStates /\ todo' \in Ops
  BY <1>1, StackFacts DEF SeenOK
<1>5. Fits(Top') /\ Fits(Under')
  BY <1>2, Facts
<1>6. Stage(Top', Under', todo', c', mem')
  BY <1>1, <1>3, <1>4, <1>5, StageAgrees
<1>7. Typed'
  BY <1>1, <1>4 DEF MInv, Typed
<1> QED BY <1>1, <1>2, <1>6, <1>7 DEF MInv, Running

(* V86_Back: what waits in Resume_Exec is on top.                          *)
LEMMA BackTop ==
  ASSUME MInv, mode = "v86"
  PROVE  /\ dwStackCurr = Len(r0)
         /\ Len(r0) > 0 => r0[Len(r0)].k = "resume"
<1>1. Top.k \in {"none", "resume"}
  BY DEF MInv, Running, Aborted, Here, V86
<1>2. Len(r0) > 0 => r0[Len(r0)].k = "resume"
  BY <1>1, StackFacts DEF FrameSet, Kinds
<1> QED BY <1>2, StackFacts DEF Waiting

LEMMA BackKept ==
  ASSUME MInv, V86_Back PROVE MInv'
<1>1. /\ mode = "v86" /\ c.pc = BACK /\ mode' = "pl0" /\ todo' = r0[dwStackCurr].todo
      /\ dwStackCurr' = r0[dwStackCurr].n /\ r0' = SubSeq(r0, 1, dwStackCurr - 1)
      /\ dwStackR0' = dwStackR0 /\ c' = c /\ mem' = mem
  BY DEF V86_Back, Enter
<1>2. Fits(Top) /\ V86(Top, c.pc, c.fl, c.sp, mem) /\ c \in ClientStates /\ Cells \in Nat
      /\ c.sp \in 1 .. (Cells + 1)
  BY <1>1, Facts, InV86 DEF Here
<1>3. /\ Calls(Top) /\ c.sp = Top.seen.c.sp + 1 /\ c.fl = Top.seen.live[c.sp - 1].fl
      /\ \A i \in c.sp .. Cells : mem[i] = Top.seen.live[i]
  BY <1>1, <1>2, V86Returned
<1>4. Top.k = "resume" /\ Top.todo # Esc2 /\ Len(r0) > 0
  BY <1>3, StackFacts DEF Calls
<1>5. dwStackCurr = Len(r0) /\ Top = r0[Len(r0)]
  BY <1>1, <1>4, BackTop, StackFacts
<1>6. /\ Stack0' /\ Top' = Under /\ Under' = Fr(r0, Len(r0) - 2)
      /\ FrameOn(Under, Fr(r0, Len(r0) - 2), Top)
  BY <1>1, <1>4, <1>5, PopKept
<1> DEFINE l == Top.seen.live
           s == Top.seen.c.sp
<1>7. PICK k \in Conts : SeenOK(Top.seen) /\ Top.todo = RetPc(k) /\ Called(k, Under, Top.seen.c, l)
  BY <1>4, <1>6 DEF FrameOn
<1>8. /\ s \in Nat /\ c.sp = s + 1 /\ s + 2 = c.sp + 1 /\ c.sp - 1 = s
      /\ Back(k, Under, l[s + 1].pc, l[s].fl, s + 2, l)
  BY <1>2, <1>3, <1>7 DEF Called, SeenOK, ClientStates
<1>9. c.sp + 1 <= Cells + 1
  BY <1>8 DEF Back
<1>10. mem[c.sp] = l[s + 1] /\ l[s].fl = c.fl /\ \A i \in (c.sp + 1) .. Cells : l[i] = mem[i]
  BY <1>2, <1>3, <1>8, <1>9
<1>11. Back(k, Under, mem[c.sp].pc, c.fl, c.sp + 1, mem)
  <2>1. Fits(Under)
    BY Facts
  <2> HIDE DEF l, s
  <2>2. Back(k, Under, mem[c.sp].pc, c.fl, c.sp + 1, l)
    BY <1>8, <1>10
  <2> QED BY <1>10, <2>1, <2>2, BackAgrees
<1>12. todo' = RetPc(k)
  BY <1>1, <1>5, <1>7
<1>13. todo' \in Ops /\ todo' # << >> /\ Head(todo') = Op("ret.pc") /\ Tail(todo') = RetSp(k)
  BY <1>12, ContLists, CallLists DEF IntNames
<1>14. Head(todo').op = "ret.pc"
  BY <1>13, OpFields DEF OpNames
<1>15. AtRetPc(Top', Tail(todo'), c', mem')
  BY <1>1, <1>6, <1>11, <1>13 DEF AtRetPc
<1>16. Stage(Top', Under', todo', c', mem')
  BY <1>13, <1>14, <1>15, StageIs
<1>17. Typed'
  BY <1>1, <1>13 DEF MInv, Typed
<1> QED BY <1>1, <1>6, <1>16, <1>17 DEF MInv, Running

(* The inductive invariant holds at the start ...                          *)
LEMMA MInvInit ==
  ASSUME MonInit PROVE MInv
<1>1. /\ mode = "v86" /\ todo = << >> /\ r0 = << >> /\ dwStackCurr = 0 /\ dwStackR0 = 0
      /\ c = [pc |-> At("main", 0, FALSE), fl |-> [if |-> TRUE, tf |-> FALSE], sp |-> Cells + 1]
      /\ mem = [i \in 1 .. (Cells + 1) |-> [pc |-> BACK, fl |-> Off]] /\ Cells \in Nat
  BY MonAssumption DEF MonInit
<1>2. At("main", 0, FALSE) \in MainPcs /\ [if |-> TRUE, tf |-> FALSE] \in Flags
  BY DEF At, MainPcs, Flags
<1>3. Typed
  <2>1. At("main", 0, FALSE) \in Pcs
    BY <1>2, ValueSets
  <2>5. Cells + 1 \in 1 .. (Cells + 1)
    BY <1>1
  <2>2. c \in ClientStates
    BY <1>1, <1>2, <2>1, <2>5 DEF ClientStates
  <2>3. mem \in [1 .. (Cells + 1) -> Cell] /\ mem[Cells + 1] = Blank
    BY <1>1, <2>5, ValueSets DEF Blank
  <2>4. todo \in Ops
    BY <1>1 DEF Ops
  <2> QED BY <1>1, <2>2, <2>3, <2>4 DEF Typed
<1>4. Top = Ground /\ Top.k = "none" /\ Len(r0) = 0 /\ DOMAIN r0 = {}
  BY <1>1 DEF Top, Fr, Ground, Frame
<1>5. Stack0
  <2>1. r0 \in Seq(FrameSet) /\ GoodStack(r0)
    BY <1>1, <1>4 DEF GoodStack
  <2>2. Waiting(r0, dwStackCurr, Len(r0)) /\ Lets(r0, dwStackR0, Len(r0))
    BY <1>1, <1>4 DEF Waiting, Lets
  <2> QED BY <1>1, <2>1, <2>2 DEF Stack0
<1>6. Here(Top, c, mem)
  <2>1. ~Calls(Top) /\ Base(Top) = Cells + 1 /\ c.sp = Cells + 1 /\ c.pc \in MainPcs
    BY <1>1, <1>2, <1>4 DEF Calls, Base
  <2>2. IsBottom(Top, X(c.pc, c.fl, c.sp, mem, Base(Top) - 1))
    BY <2>1 DEF IsBottom, X
  <2>3. \A i \in (c.sp - 1) .. (Base(Top) - 2) : FALSE
    BY <1>1, <2>1
  <2>4. c.sp \in 1 .. Base(Top) /\ Top.k \in {"none", "resume"}
    BY <1>1, <1>4, <2>1
  <2> QED BY <2>1, <2>2, <2>3, <2>4 DEF Here, V86
<1> QED BY <1>1, <1>3, <1>5, <1>6 DEF MInv, Running

(* ... and every step keeps it.                                            *)
LEMMA MInvStep ==
  ASSUME MInv, [MonNext]_monVars PROVE MInv'
<1>1. CASE Ring0
  <2>1. CASE Client0
    BY <2>1, Client0Kept
  <2>2. CASE Resume_Exec
    BY <2>2, ResumeKept
  <2>3. CASE Interruptible
    <3>1. \/ Doing("yield") \/ Doing("enable") \/ Doing("window") \/ Doing("disable")
      BY <2>3 DEF Interruptible
    <3> QED BY <2>3, <3>1, YieldKept, EnableKept, WindowKept, DisableKept
  <2>4. CASE Back0
    <3>1. Doing("unmask") \/ Doing("irq.end") \/ Doing("nmi.end")
      BY <2>4 DEF Back0
    <3> QED BY <2>4, <3>1, UnmaskKept, ReturnsKept
  <2>5. CASE Exit \/ Fault \/ Reset
    BY <2>5, ExitKept, FaultKept, ResetKept
  <2> QED BY <1>1, <2>1, <2>2, <2>3, <2>4, <2>5 DEF Ring0
<1>2. CASE Traps
  <2>1. CASE Breakpoint \/ Exception06
    BY <2>1, ServedKept
  <2>2. CASE V86_Back
    BY <2>2, BackKept
  <2>3. CASE PageFaultFF \/ WrittenRom
    BY <2>3, OwnStepsKept
  <2>4. CASE Iret
    BY <2>4, IretKept
  <2> QED BY <1>2, <2>1, <2>2, <2>3, <2>4 DEF Traps
<1>3. CASE IrqPl0 \/ Prompt \/ Terminate
  BY <1>3, IrqPl0Kept, PromptKept, TerminateKept
<1>4. CASE Irq \/ CallService \/ Hlt \/ Int1
  BY <1>4, IrqKept, ServiceKept, HltKept, Int1Kept
<1>5. CASE Sti \/ WriteRom
  BY <1>5, OwnStepsKept
<1>6. CASE NmiV86 \/ NmiPl0
  BY <1>6, NmiV86Kept, NmiPl0Kept
<1>7. CASE \E n \in {"00", "06", "0D"} : Exception(n)
  BY <1>7, ExceptionKept
<1>8. CASE UNCHANGED monVars
  BY <1>8 DEF monVars, MInv, Typed, Stack0, Running, Top, Under, Aborted
<1> QED BY <1>1, <1>2, <1>3, <1>4, <1>5, <1>6, <1>7, <1>8 DEF MonNext

(* The inductive invariant says where V86 code stands above the stack of   *)
(* ring 0.                                                                 *)
LEMMA MInvExact ==
  ASSUME MInv PROVE NestingExact
<1>1. ASSUME mode = "v86"
      PROVE  /\ Len(r0) = dwStackCurr
             /\ c.pc = BACK => dwStackCurr > 0
             /\ dwStackCurr > 0 => Last(r0).k = "resume"
             /\ c.pc = DOS => dwStackCurr = 1
  <2>1. dwStackCurr = Len(r0) /\ (Len(r0) > 0 => r0[Len(r0)].k = "resume") /\ Len(r0) \in Nat
    BY <1>1, BackTop, StackFacts
  <2>2. Here(Top, c, mem) => IF c.pc = BACK THEN Calls(Top) ELSE c.pc \in Plain
    BY Facts, V86Returned DEF Here
  <2>3. ASSUME c.pc = BACK PROVE Len(r0) > 0
    <3>1. Here(Top, c, mem)
      BY <1>1, <2>3, InV86
    <3> QED BY <2>2, <2>3, <3>1, StackFacts DEF Calls
  <2>4. ASSUME c.pc = DOS PROVE Len(r0) = 1
    <3>1. Aborted
      BY <1>1, <2>2, <2>4, ValueSets DEF MInv, Running
    <3>2. Top.k = "resume" /\ Top.todo = Esc2 /\ Len(r0) > 0 /\ Top = r0[Len(r0)]
      BY <3>1, StackFacts DEF Aborted
    <3>3. FrameOn(Under, Fr(r0, Len(r0) - 2), Top)
      <4>1. Len(r0) \in DOMAIN r0 /\ r0 \in Seq(FrameSet) /\ GoodStack(r0)
        BY <3>2, StackFacts
      <4> QED BY <3>2, <4>1 DEF GoodStack, Under
    <3>4. Under.k = "none"
      BY <3>2, <3>3, EscApart DEF FrameOn
    <3>5. ASSUME Len(r0) > 1 PROVE FALSE
      <4>1. Len(r0) - 1 \in DOMAIN r0 /\ r0[Len(r0) - 1] \in FrameSet
        BY <2>1, <3>5, StackFacts
      <4>2. Under.k \in Kinds
        BY <4>1 DEF Under, Fr, FrameSet
      <4> QED BY <3>4, <4>2 DEF Kinds
    <3> QED BY <2>1, <3>2, <3>5
  <2> QED BY <2>1, <2>3, <2>4 DEF Last
<1>2. IrqsKnown
  BY WindowTop DEF IrqsKnown, Doing
<1> QED BY <1>1, <1>2 DEF NestingExact, StackExact

(* The operations that do not end a handler of ring 0 do not take a frame  *)
(* off its stack at irq.end or nmi.end.                                    *)
LEMMA OnlyReturnsPop ==
  ASSUME MInv, MonNext, mode = "pl0", Cur \in {"irq.end", "nmi.end"}, Len(r0') < Len(r0)
  PROVE  Back0
<1>1. Cur \notin {"begin", "call.sp", "call.wr", "int.sp", "int.wr", "ret.pc", "ret.sp",
                  "iret.pc", "iret.sp", "resume", "yield", "enable", "window", "disable",
                  "exit", "hook", "fault", "reset", "prompt"}
  OBVIOUS
<1>2. ~Client0 /\ ~Resume_Exec /\ ~Interruptible
  BY <1>1 DEF Client0, Begin_Nest_Exec, SimInt, SimRet, Resume_Exec, Interruptible, Doing
<1>3. ~Exit /\ ~Fault /\ ~Reset /\ ~IrqPl0 /\ ~Prompt
  BY <1>1 DEF Exit, Fault, Reset, IrqPl0, Prompt, Doing
<1>4. mode # "v86"
  OBVIOUS
<1>5. ~Breakpoint /\ ~V86_Back /\ ~Exception06 /\ ~PageFaultFF /\ ~WrittenRom /\ ~Iret
      /\ ~Terminate
  BY <1>4 DEF Breakpoint, V86_Back, Exception06, PageFaultFF, WrittenRom, Iret, Terminate, InCode
<1>6. ~Irq /\ ~CallService /\ ~Sti /\ ~Hlt /\ ~WriteRom /\ ~Int1 /\ ~NmiV86
      /\ \A n \in {"00", "06", "0D"} : ~Exception(n)
  BY <1>4 DEF Irq, CallService, Sti, Hlt, WriteRom, Int1, NmiV86, Exception, InCode
<1>7. ~NmiPl0
  <2>1. SUFFICES ASSUME NmiPl0 PROVE FALSE
    OBVIOUS
  <2> DEFINE x == Frame("nmi", IF c.fl.if THEN 1 ELSE 0, todo, Client)
  <2>2. r0' = Append(r0, x) /\ r0 \in Seq(FrameSet) /\ Len(r0) \in Nat
    BY <2>1, StackFacts DEF NmiPl0
  <2> HIDE DEF x
  <2>3. Len(r0') = Len(r0) + 1
    BY <2>2
  <2> QED BY <2>2, <2>3
<1> QED BY <1>2, <1>3, <1>5, <1>6, <1>7 DEF MonNext, Ring0, Traps

LEMMA ReturnsTransparent ==
  ASSUME MInv, [MonNext]_monVars PROVE NestTransparent
<1> SUFFICES ASSUME mode = "pl0", Cur \in {"irq.end", "nmi.end"}, Len(r0') < Len(r0)
             PROVE  Client' = Last(r0).seen
  BY DEF NestTransparent
<1>1. MonNext
  <2>1. r0' # r0 /\ Len(r0) \in Nat
    BY StackFacts
  <2> QED BY <2>1 DEF monVars
<1>2. Back0 /\ (Doing("irq.end") \/ Doing("nmi.end"))
  BY <1>1, OnlyReturnsPop DEF Doing
<1>3. /\ Top.k \in {"irq", "nmi"} /\ Len(r0) > 0 /\ Last(r0) = Top
      /\ mem' = mem /\ SeenOK(Top.seen) /\ c' = Top.seen.c
      /\ \A i \in c'.sp .. Cells : mem[i] = Top.seen.live[i]
  BY <1>2, Returns
<1>4. Top.seen \in Seens
  BY <1>3, StackFacts DEF FrameSet
<1> DEFINE s == Top.seen
           l == [i \in 1 .. Cells |-> IF i >= c'.sp THEN mem[i] ELSE mem[Cells + 1]]
<1>5. Client' = [c |-> c', live |-> l]
  BY <1>3, MonAssumption DEF Client
<1>6. s = [c |-> s.c, live |-> s.live]
  BY <1>4 DEF Seens
<1>7. l = s.live
  <2>1. s.live \in [1 .. Cells -> Cell] /\ c'.sp \in Nat /\ Cells \in Nat
        /\ mem[Cells + 1] = Blank /\ \A i \in 1 .. Cells : i < c'.sp => s.live[i] = Blank
    BY <1>3, Facts DEF SeenOK, Stacks, ClientStates, MInv, Typed
  <2>2. \A i \in 1 .. Cells : l[i] = s.live[i]
    BY <1>3, <2>1
  <2> QED BY <2>1, <2>2
<1> QED BY <1>3, <1>5, <1>6, <1>7

(* Resume_Exec, V86_Back, Yield, V86_Monitor: NestingExact holds in every  *)
(* state, whatever interrupts, NMIs, exceptions and aborted programs are   *)
(* nested in whatever order, on a V86 stack of any size.                   *)
THEOREM NestingAlwaysExact == MonSpec => []NestingExact
<1>1. MonInit => MInv
  BY MInvInit
<1>2. MInv /\ [MonNext]_monVars => MInv'
  BY MInvStep
<1>3. MInv => NestingExact
  BY MInvExact
<1> QED BY <1>1, <1>2, <1>3, PTL DEF MonSpec

(* @@runv86, handle_nmi_pl0, Simulate_Int, Simulate_Far_Call: an interrupt *)
(* or an NMI that comes in ring 0, between any two operations on the       *)
(* client's registers and stack, leaves both as they were.                 *)
THEOREM NestsAlwaysTransparent == MonSpec => NestsTransparent
<1>1. MonInit => MInv
  BY MInvInit
<1>2. MInv /\ [MonNext]_monVars => MInv'
  BY MInvStep
<1>3. MInv /\ [MonNext]_monVars => [NestTransparent]_monVars
  BY ReturnsTransparent
<1> QED BY <1>1, <1>2, <1>3, PTL DEF MonSpec, NestsTransparent

-----------------------------------------------------------------------------

(* What moves the gate later is what the search for it has tested.         *)
Chosen ==
  \/ A20Method = "ALWAYSON" /\ start = "on"
  \/ /\ start = "off" /\ ProcOf(A20Method) # "dummy"
     /\ {"on", "off"} \subseteq works[ProcOf(A20Method)]

(* While the search goes on, a test that fails may leave the gate open,    *)
(* but only if it was closed at the start.                                 *)
Searching ==
  phase = "detect" =>
    /\ user <=> A20Method # "none"
    /\ item \in Nat \ {0}
    /\ item = 1 => gate = start
    /\ item > 1 /\ ~user => start = "off"

MethodInv ==
  /\ start \in {"on", "off"} /\ gate \in {"on", "off"} /\ user \in BOOLEAN
  /\ Searching
  /\ phase \in {"enable", "alloc", "loaded"} /\ ~user => Chosen
  /\ phase = "enable" /\ ~user /\ A20Method = "ALWAYSON" => gate = "on"
  /\ GateOpen /\ GateRestored

(* The command that moves the gate is only ever completed by a trap.       *)
GateInv ==
  /\ MethodInv
  /\ A20TypeOK
  /\ kbcCmd = "D1" => trap60
  /\ IsFiniteSet(Enables) /\ ClientsCounted
-----------------------------------------------------------------------------
(* ProcOf finds the proc that a candidate was tested with.                 *)
LEMMA CandidatesNamed ==
  /\ Len(Candidates) = 5
  /\ \A i \in 1 .. 5 : /\ ProcOf(Candidates[i].method) = Candidates[i].proc
                       /\ Candidates[i].proc # "dummy"
                       /\ Candidates[i].method # "ALWAYSON"
<1>1. Candidates = <<Candidates[1], Candidates[2], Candidates[3], Candidates[4], Candidates[5]>>
      /\ Len(Candidates) = 5
  BY DEF Candidates
<1>2. \A i \in 1 .. 5 : i = 1 \/ i = 2 \/ i = 3 \/ i = 4 \/ i = 5
  OBVIOUS
<1>3. /\ Candidates[1] = Candidate("FAST", "fast", "2403")
      /\ Candidates[2] = Candidate("PS2", "fast", "mca")
      /\ Candidates[3] = Candidate("KBC", "kbc", "none")
      /\ Candidates[4] = Candidate("BIOS", "bios", "2402")
      /\ Candidates[5] = Candidate("PORT92", "fast", "none")
  BY DEF Candidates
<1>4. \A m, p, q : Candidate(m, p, q).method = m /\ Candidate(m, p, q).proc = p
  BY DEF Candidate
<1>5. /\ ProcOf("FAST") = "fast" /\ ProcOf("PS2") = "fast" /\ ProcOf("PORT92") = "fast"
      /\ ProcOf("KBC") = "kbc" /\ ProcOf("BIOS") = "bios"
  BY DEF ProcOf
<1>6. ASSUME NEW i \in 1 .. 5
      PROVE  /\ ProcOf(Candidates[i].method) = Candidates[i].proc
             /\ Candidates[i].proc # "dummy"
             /\ Candidates[i].method # "ALWAYSON"
  BY <1>2, <1>3, <1>4, <1>5
<1>7. QED
  BY <1>1, <1>6

(* A proc that passes the test opens the gate and closes it; a gate that   *)
(* was open is open again.                                                 *)
LEMMA TestFinds ==
  ASSUME gate \in {"on", "off"}, NEW proc, proc # "dummy"
  PROVE  /\ Test(proc).gate \in {"on", "off"}
         /\ Test(proc).ok => {"on", "off"} \subseteq works[proc]
BY DEF Test, Switched, Enabled
-----------------------------------------------------------------------------
LEMMA MethodStarts ==
  ASSUME MethodInit
  PROVE  MethodInv
<1>1. user \in BOOLEAN /\ (user <=> A20Method # "none")
  BY DEF MethodInit
<1>2. QED
  BY <1>1 DEF MethodInit, MethodInv, Searching, GateOpen, GateRestored

LEMMA MethodStep ==
  ASSUME MethodInv, MethodNext
  PROVE  MethodInv'
<1> USE DEF MethodInv, machine, Searching, GateOpen, GateRestored, Chosen
<1>1. CASE TakeGiven
  BY <1>1 DEF TakeGiven
<1>2. CASE AlwaysOn
  BY <1>2 DEF AlwaysOn, Enabled
<1>3. CASE Detect
  <2> DEFINE cand == Candidates[item]
             t == Test(cand.proc)
  <2>1. /\ phase = "detect" /\ A20Method = "none" /\ item \in 1 .. 5 /\ ~user
        /\ start = "off"
        /\ UNCHANGED <<works, says, start, user>>
    BY <1>3, CandidatesNamed DEF Detect, Enabled
  <2>2. /\ ProcOf(cand.method) = cand.proc /\ cand.proc # "dummy" /\ cand.method # "ALWAYSON"
    BY <2>1, CandidatesNamed
  <2>3. t.gate \in {"on", "off"} /\ (t.ok => {"on", "off"} \subseteq works[cand.proc])
    BY <2>2, TestFinds
  <2>4. CASE cand.asks \notin says \cup {"none"}
    <3>1. item' = item + 1 /\ UNCHANGED <<gate, phase, A20Method>>
      BY <1>3, <2>4 DEF Detect
    <3>2. QED
      BY <3>1, <2>1
  <2>5. CASE cand.asks \in says \cup {"none"} /\ t.ok
    <3>1. gate' = t.gate /\ A20Method' = cand.method /\ phase' = "enable" /\ UNCHANGED item
      BY <1>3, <2>5 DEF Detect
    <3>2. ProcOf(A20Method)' = cand.proc
      BY <3>1, <2>2 DEF ProcOf
    <3>3. QED
      BY <3>1, <3>2, <2>1, <2>2, <2>3, <2>5
  <2>6. CASE cand.asks \in says \cup {"none"} /\ ~t.ok
    <3>1. gate' = t.gate /\ item' = item + 1 /\ UNCHANGED <<phase, A20Method>>
      BY <1>3, <2>6 DEF Detect
    <3>2. QED
      BY <3>1, <2>1, <2>3
  <2>7. QED
    BY <2>4, <2>5, <2>6
<1>4. CASE NoMethod
  BY <1>4 DEF NoMethod
<1>5. CASE Enable
  <2>1. ProcOf("ALWAYSON") = "dummy"
    BY DEF ProcOf
  <2>2. QED
    BY <1>5, <2>1 DEF Enable, Switched, ProcOf
<1>6. CASE Loaded
  BY <1>6 DEF Loaded, ProcOf
<1>7. CASE Disable
  <2>1. ProcOf("ALWAYSON") = "dummy"
    BY DEF ProcOf
  <2>2. QED
    BY <1>7, <2>1 DEF Disable, Closing, Switched
<1>8. QED
  BY <1>1, <1>2, <1>3, <1>4, <1>5, <1>6, <1>7 DEF MethodNext
-----------------------------------------------------------------------------
(* Each enable is one element of Enables.                                  *)
LEMMA EnableCounted ==
  ASSUME NEW k \in Clients, nest \in [Clients -> Nat], IsFiniteSet(Enables)
  PROVE  /\ nest' = [nest EXCEPT ![k] = @ + 1] =>
              IsFiniteSet(Enables') /\ Cardinality(Enables') = Cardinality(Enables) + 1
         /\ nest[k] > 0 /\ nest' = [nest EXCEPT ![k] = @ - 1] =>
              IsFiniteSet(Enables') /\ Cardinality(Enables') = Cardinality(Enables) - 1
                /\ Cardinality(Enables) > 0
<1>1. \A d \in Clients, i \in Nat : <<d, i>> \in Enables <=> i \in 1 .. nest[d]
  BY DEF Enables
<1>2. \A e : e \in Enables => \E d \in Clients, i \in Nat : e = <<d, i>> /\ i \in 1 .. nest[d]
  BY DEF Enables
<1>3. ASSUME nest' = [nest EXCEPT ![k] = @ + 1]
      PROVE  Enables' = Enables \cup {<<k, nest[k] + 1>>} /\ <<k, nest[k] + 1>> \notin Enables
  <2>1. \A d \in Clients : nest'[d] = IF d = k THEN nest[d] + 1 ELSE nest[d]
    BY <1>3
  <2>2. <<k, nest[k] + 1>> \notin Enables
    BY <1>1
  <2>3. Enables' = UNION {{d} \X (1 .. nest'[d]) : d \in Clients}
    BY DEF Enables
  <2>4. Enables \cup {<<k, nest[k] + 1>>} \subseteq Enables'
    BY <2>1, <2>3, <1>2
  <2>5. ASSUME NEW e \in Enables' PROVE e \in Enables \cup {<<k, nest[k] + 1>>}
    <3>1. PICK d \in Clients : e \in {d} \X (1 .. nest'[d])
      BY <2>3, <2>5
    <3>2. PICK i \in 1 .. nest'[d] : e = <<d, i>>
      BY <3>1
    <3>3. QED
      BY <3>2, <2>1, <1>1
  <2>6. QED
    BY <2>2, <2>4, <2>5
<1>4. ASSUME nest[k] > 0, nest' = [nest EXCEPT ![k] = @ - 1]
      PROVE  Enables' = Enables \ {<<k, nest[k]>>} /\ <<k, nest[k]>> \in Enables
  <2>1. \A d \in Clients : nest'[d] = IF d = k THEN nest[d] - 1 ELSE nest[d]
    BY <1>4
  <2>2. <<k, nest[k]>> \in Enables
    BY <1>1, <1>4
  <2>3. Enables' = UNION {{d} \X (1 .. nest'[d]) : d \in Clients}
    BY DEF Enables
  <2>4. ASSUME NEW e \in Enables \ {<<k, nest[k]>>} PROVE e \in Enables'
    <3>1. PICK d \in Clients, i \in Nat : e = <<d, i>> /\ i \in 1 .. nest[d]
      BY <1>2
    <3>2. i \in 1 .. nest'[d]
      BY <3>1, <2>1
    <3>3. QED
      BY <3>1, <3>2, <2>3
  <2>5. ASSUME NEW e \in Enables' PROVE e \in Enables \ {<<k, nest[k]>>}
    <3>1. PICK d \in Clients : e \in {d} \X (1 .. nest'[d])
      BY <2>3, <2>5
    <3>2. PICK i \in 1 .. nest'[d] : e = <<d, i>>
      BY <3>1
    <3>3. QED
      BY <3>2, <2>1, <1>1
  <2>6. QED
    BY <2>2, <2>4, <2>5
<1>5. QED
  <2>1. Cardinality(Enables) \in Nat
    BY FS_CardinalityType
  <2>2. ASSUME nest' = [nest EXCEPT ![k] = @ + 1]
        PROVE  IsFiniteSet(Enables') /\ Cardinality(Enables') = Cardinality(Enables) + 1
    BY <1>3, <2>2, FS_AddElement
  <2>3. ASSUME nest[k] > 0, nest' = [nest EXCEPT ![k] = @ - 1]
        PROVE  /\ IsFiniteSet(Enables') /\ Cardinality(Enables') = Cardinality(Enables) - 1
               /\ Cardinality(Enables) > 0
    <3>1. Enables # {} /\ IsFiniteSet(Enables') /\ Cardinality(Enables') = Cardinality(Enables) - 1
      BY <1>4, <2>3, FS_RemoveElement
    <3>2. QED
      BY <3>1, <2>1, FS_EmptySet
  <2>4. QED
    BY <2>2, <2>3

(* A count below CountMod that can be counted up is still below it.        *)
LEMMA NoWrap ==
  ASSUME NEW n \in 0 .. (CountMod - 1), (n + 1) % CountMod # 0
  PROVE  n + 1 \in 0 .. (CountMod - 1)
<1>1. CountMod % CountMod = 0
  BY A20Assumption
<1>2. QED
  BY <1>1, A20Assumption
-----------------------------------------------------------------------------
(* LocalDisable keeps its variables in their types and takes back one.     *)
LEMMA LocalDisableCounts ==
  ASSUME A20TypeOK, LocalDisable
  PROVE  /\ wA20' \in [local : 0 .. (CountMod - 1), global : {0, 1}]
         /\ bA20Stat' \in {0, 1} /\ ax' \in {0, 1}
         /\ wA20.local > 0 => wA20'.local = wA20.local - 1
BY A20Assumption DEF A20TypeOK, LocalDisable, TestA20, StillEnabled, LocalErr, A20_Set, a20

LEMMA EmulationStep ==
  ASSUME GateInv, EmulationNext, UNCHANGED method, phase = "loaded"
  PROVE  GateInv'
<1>0. /\ UNCHANGED <<works, says, start, user, phase, item, A20Method>>
      /\ A20TypeOK
  BY DEF method, machine, GateInv
<1>1. ASSUME gate' \in {"on", "off"}, gate = "on" => gate' = "on"
      PROVE  MethodInv'
  BY <1>0, <1>1 DEF GateInv, MethodInv, Searching, Chosen, GateOpen, GateRestored, ProcOf
<1>2. ASSUME UNCHANGED nest, wA20'.local = wA20.local
      PROVE  IsFiniteSet(Enables') /\ ClientsCounted'
  BY <1>2 DEF GateInv, Enables, ClientsCounted
<1> USE DEF ports, a20
<1>3. CASE GlobalEnable
  BY <1>0, <1>1, <1>2, <1>3 DEF GlobalEnable, TestA20, A20_Set, GateInv, A20TypeOK
<1>4. CASE GlobalDisable
  BY <1>0, <1>1, <1>2, <1>4 DEF GlobalDisable, TestA20, StillEnabled, A20_Set, GateInv, A20TypeOK
<1>5. ASSUME NEW k \in Clients, LocalEnable(k) PROVE GateInv'
  <2>1. UNCHANGED <<trap60, gate, kbcCmd, hma_used>>
    BY <1>5 DEF LocalEnable
  <2>2. CASE (wA20.local + 1) % CountMod = 0
    <3>1. UNCHANGED <<wA20, bA20Stat, nest>> /\ ax' = 0
      BY <1>5, <2>2 DEF LocalEnable, LocalErr
    <3>2. QED
      BY <1>0, <1>1, <1>2, <2>1, <3>1 DEF GateInv, A20TypeOK
  <2>3. CASE (wA20.local + 1) % CountMod # 0
    <3>1. /\ wA20' = [wA20 EXCEPT !.local = @ + 1] /\ ax' = 1 /\ bA20Stat' \in {0, 1}
          /\ nest' = [nest EXCEPT ![k] = @ + 1]
      BY <1>0, <1>5, <2>3 DEF LocalEnable, TestA20, A20_Set, A20TypeOK
    <3>2. wA20'.local = wA20.local + 1 /\ wA20' \in [local : 0 .. (CountMod - 1), global : {0, 1}]
      BY <1>0, <2>3, <3>1, NoWrap DEF A20TypeOK
    <3>3. IsFiniteSet(Enables') /\ Cardinality(Enables') = Cardinality(Enables) + 1
      BY <1>0, <3>1, EnableCounted DEF A20TypeOK, GateInv
    <3>4. nest' \in [Clients -> Nat]
      BY <1>0, <3>1 DEF A20TypeOK
    <3>5. Cardinality(Enables') <= wA20'.local
      BY <3>2, <3>3, <1>0, FS_CardinalityType, A20Assumption DEF GateInv, ClientsCounted, A20TypeOK
    <3>6. QED
      BY <1>0, <1>1, <2>1, <3>1, <3>2, <3>3, <3>4, <3>5 DEF GateInv, A20TypeOK, ClientsCounted
  <2>4. QED
    BY <2>2, <2>3
<1>6. ASSUME NEW k \in Clients, ClientDisable(k) PROVE GateInv'
  <2>1. /\ UNCHANGED <<trap60, gate, kbcCmd, hma_used>> /\ nest[k] > 0
        /\ nest' = [nest EXCEPT ![k] = @ - 1] /\ LocalDisable
    BY <1>6 DEF ClientDisable
  <2>2. /\ IsFiniteSet(Enables') /\ Cardinality(Enables') = Cardinality(Enables) - 1
        /\ Cardinality(Enables) > 0
    BY <1>0, <2>1, EnableCounted DEF A20TypeOK, GateInv
  <2>3. wA20.local > 0
    BY <2>2, <1>0, FS_CardinalityType, A20Assumption DEF GateInv, ClientsCounted, A20TypeOK
  <2>4. wA20'.local = wA20.local - 1 /\ bA20Stat' \in {0, 1} /\ ax' \in {0, 1}
        /\ wA20' \in [local : 0 .. (CountMod - 1), global : {0, 1}]
    BY <1>0, <2>1, <2>3, LocalDisableCounts
  <2>5. nest' \in [Clients -> Nat]
    BY <1>0, <2>1 DEF A20TypeOK
  <2>6. Cardinality(Enables') <= wA20'.local
    BY <2>2, <2>4, <1>0, FS_CardinalityType, A20Assumption DEF GateInv, ClientsCounted, A20TypeOK
  <2>7. QED
    BY <1>0, <1>1, <2>1, <2>2, <2>4, <2>5, <2>6 DEF GateInv, A20TypeOK, ClientsCounted
<1>7. CASE BootDisable
  <2>1. /\ UNCHANGED <<trap60, gate, kbcCmd, hma_used, nest>> /\ LocalDisable
        /\ \A k \in Clients : nest[k] = 0
    BY <1>7 DEF BootDisable
  <2>2. /\ bA20Stat' \in {0, 1} /\ ax' \in {0, 1}
        /\ wA20' \in [local : 0 .. (CountMod - 1), global : {0, 1}]
    BY <1>0, <2>1, LocalDisableCounts
  <2>3. Enables' = {}
    BY <2>1 DEF Enables
  <2>4. IsFiniteSet(Enables') /\ Cardinality(Enables') <= wA20'.local
    BY <2>2, <2>3, FS_EmptySet, A20Assumption
  <2>5. QED
    BY <1>0, <1>1, <2>1, <2>2, <2>4 DEF GateInv, A20TypeOK, ClientsCounted
<1>8. ASSUME NEW kb \in HmaSizes, RequestHma(kb) PROVE GateInv'
  BY <1>0, <1>1, <1>2, <1>8 DEF RequestHma, GateInv, A20TypeOK
<1>9. CASE ReleaseHma
  BY <1>0, <1>1, <1>2, <1>9 DEF ReleaseHma, GateInv, A20TypeOK
<1>10. ASSUME NEW cmd \in {"D0", "D1", "AE"}, Out64(cmd) PROVE GateInv'
  BY <1>0, <1>1, <1>2, <1>10 DEF Out64, GateInv, A20TypeOK
<1>11. ASSUME NEW bit \in {0, 1}, Out60(bit) PROVE GateInv'
  <2>1. gate' \in {"on", "off"} /\ (gate = "on" => gate' = "on") /\ kbcCmd' = "none"
    BY <1>0, <1>11 DEF Out60, Out60Trapped, Kbc60, GateInv, A20TypeOK
  <2>2. bA20Stat' \in {0, 1} /\ trap60' = FALSE /\ UNCHANGED <<wA20, hma_used, nest, ax>>
    BY <1>0, <1>11 DEF Out60, Out60Trapped, A20_Set, A20TypeOK
  <2>3. QED
    BY <1>0, <1>1, <1>2, <2>1, <2>2 DEF GateInv, A20TypeOK
<1>12. ASSUME NEW bit \in {0, 1}, Out92(bit) PROVE GateInv'
  BY <1>0, <1>1, <1>2, <1>12 DEF Out92, A20_Set, GateInv, A20TypeOK
<1>13. CASE In60
  BY <1>0, <1>1, <1>2, <1>13 DEF In60, GateInv, A20TypeOK
<1>14. CASE Int15_24
  BY <1>0, <1>1, <1>2, <1>14 DEF Int15_24, GateInv, A20TypeOK
<1>15. QED
  BY <1>3, <1>4, <1>5, <1>6, <1>7, <1>8, <1>9, <1>10, <1>11, <1>12, <1>13, <1>14 DEF EmulationNext
-----------------------------------------------------------------------------
LEMMA GateStarts ==
  ASSUME GateInit
  PROVE  GateInv
<1>1. MethodInv
  BY MethodStarts DEF GateInit
<1>2. A20TypeOK /\ kbcCmd = "none"
  BY A20Assumption DEF GateInit, MethodInit, EmulationInit, A20TypeOK
<1>3. Enables = {}
  BY DEF GateInit, EmulationInit, Enables
<1>4. IsFiniteSet(Enables) /\ ClientsCounted
  BY <1>2, <1>3, FS_EmptySet, A20Assumption DEF ClientsCounted, A20TypeOK
<1>5. QED
  BY <1>1, <1>2, <1>4 DEF GateInv

LEMMA GateStep ==
  ASSUME GateInv, [GateNext]_gateVars
  PROVE  GateInv'
<1>1. CASE MethodNext /\ UNCHANGED emulation
  BY <1>1, MethodStep DEF GateInv, MethodInv, A20TypeOK, emulation, Enables, ClientsCounted
<1>2. CASE Emulate
  BY <1>2, EmulationStep DEF Emulate
<1>3. CASE UNCHANGED gateVars
  <2>1. MethodInv'
    BY <1>3 DEF gateVars, methodVars, method, machine, GateInv, MethodInv, Searching, Chosen, GateOpen, GateRestored, ProcOf
  <2>2. QED
    BY <1>3, <2>1 DEF gateVars, methodVars, method, machine, emulation, GateInv, A20TypeOK, Enables, ClientsCounted
<1>4. QED
  BY <1>1, <1>2, <1>3 DEF GateNext

LEMMA GateInvariant == GateSpec => []GateInv
BY GateStarts, GateStep, PTL DEF GateSpec

(* InitA20, XMS_HandleA20, A20_Handle60, A20_Handle92, TryUnload: on every *)
(* machine, whatever its ways of moving the gate do, and for all clients:  *)
(* the gate stays open while the monitor is loaded, is closed as it was    *)
(* found, and no client's enable is lost in the count.                     *)
THEOREM GateAlwaysKept == GateSpec => []GateKept
<1>1. GateInv => GateKept
  BY DEF GateInv, MethodInv, GateKept
<1>2. QED
  BY <1>1, GateInvariant, PTL

(* The types of the A20 emulation: wA20's low byte never wraps.            *)
THEOREM GateTypeCorrect == GateSpec => []A20TypeOK
<1>1. GateInv => A20TypeOK
  BY DEF GateInv
<1>2. QED
  BY <1>1, GateInvariant, PTL

(* XMS_HandleA20: no call of a client hides the HMA from one that holds it.*)
THEOREM GateKeptForHolders == GateSpec => KeptWhileHeld
<1>1. ASSUME A20TypeOK, GateNext, wA20' # wA20, bA20Stat = 1, Held'
      PROVE  bA20Stat' = 1
  <2>1. ASSUME NEW w, TestA20(w), w \in [local : Int, global : Int] PROVE bA20Stat' = 1
    BY <2>1, <1>1 DEF TestA20, A20_Set, Held
  <2>2. \A l : StillEnabled(l) => bA20Stat' = 1
    BY <1>1 DEF StillEnabled
  <2>3. ASSUME LocalDisable PROVE bA20Stat' = 1
    BY <1>1, <2>1, <2>2, <2>3, A20Assumption DEF LocalDisable, LocalErr, a20, A20TypeOK
  <2>4. ASSUME GlobalEnable \/ GlobalDisable PROVE bA20Stat' = 1
    BY <1>1, <2>1, <2>2, <2>4, A20Assumption DEF GlobalEnable, GlobalDisable, A20TypeOK
  <2>5. ASSUME NEW k \in Clients, LocalEnable(k) PROVE bA20Stat' = 1
    BY <1>1, <2>1, <2>5, A20Assumption DEF LocalEnable, LocalErr, a20, A20TypeOK
  <2>6. ~ (MethodNext /\ UNCHANGED emulation)
    BY <1>1 DEF emulation
  <2>7. QED
    BY <1>1, <2>3, <2>4, <2>5, <2>6
       DEF GateNext, Emulate, EmulationNext, ClientDisable, BootDisable, RequestHma, ReleaseHma,
           Out64, Out60, In60, Out92, Int15_24, a20
<1>2. A20TypeOK /\ [GateNext]_gateVars =>
        [wA20' # wA20 /\ bA20Stat = 1 /\ Held' => bA20Stat' = 1]_gateVars
  BY <1>1
<1>3. QED
  BY <1>2, GateTypeCorrect, PTL DEF GateSpec, KeptWhileHeld
-----------------------------------------------------------------------------
(* What is behind Jemm: the vectors of before DOS, those DOS has taken,    *)
(* and what it has stored of them.                                         *)
Found(v) == IF v \in Zeroed \cup Rest THEN "null" ELSE "rom"
AsLoaded(v) == IF v \in taken THEN "dos" ELSE Found(v)
Bios == Low \cup Mid \cup High
Before == {"dos", "run", "hookers", "fastboot", "reboot"}
Leaving == {"fastboot", "int19", "back", "reboot"} \cup End

RestartInv ==
  /\ RestartTypeOK
  /\ ivt \in [Vectors -> Values] /\ at70 \in [Vectors -> Values \cup {"none"}]
  /\ pSavedVecs = [v \in Vectors |-> AsLoaded(v)]
  /\ \A v \in Vectors : at70[v] \in {"none", Found(v)} \/ (v = "v19" /\ stage \notin Before /\ at70[v] = "bp")
  /\ stage = "dos" => ivt = pSavedVecs
  /\ stage \in {"dos", "run"} \cup Leaving => ~irq1 /\ kbd
  /\ stage \notin End => notified = 0
  /\ stage \in {"int19", "back"} => OldInt19 = "rom" /\ bp06 = "fastboot_1"
  /\ stage = "int19" => \A v \in Bios : ivt[v] = pSavedVecs[v]
  /\ stage = "back" => \A v \in Bios : ivt[v] = IF at70[v] = "none" THEN pSavedVecs[v] ELSE at70[v]
  /\ StartsFresh

LEMMA VectorSets ==
  /\ Vectors = Bios \cup Zeroed \cup Rest /\ Bios \cap (Zeroed \cup Rest) = {} /\ Zeroed \cap Rest = {}
  /\ "v19" \in Bios /\ Bios = Low \cup Mid \cup High
  BY DEF Vectors, Bios, Low, Mid, High, Zeroed, Rest

LEMMA RestartStarts == RestartInit => RestartInv
<1> SUFFICES ASSUME RestartInit PROVE RestartInv
  OBVIOUS
<1>1. ivt = [v \in Vectors |-> AsLoaded(v)]
  BY DEF RestartInit, AsLoaded, Found
<1>2. \A v \in Vectors : at70[v] \in {"none", Found(v)}
  BY VectorSets DEF RestartInit, Found
<1>3. at70 \in [Vectors -> Values \cup {"none"}]
  BY DEF RestartInit, Values
<1>4. ivt \in [Vectors -> Values \ {"bp"}]
  BY <1>1 DEF AsLoaded, Found, Values
<1>5. RestartTypeOK
  <2>1. \A v \in Vectors : ivt[v] \in Values \ {"bp"}
    BY <1>4
  <2>2. notified \in 0 .. 1
    BY DEF RestartInit
  <2>3. irq1 \in BOOLEAN /\ kbd \in BOOLEAN /\ vme \in BOOLEAN
    BY Zenon DEF RestartInit
  <2> QED BY <2>1, <2>2, <2>3 DEF RestartInit, RestartTypeOK
<1>6. ivt \in [Vectors -> Values]
  BY <1>4
<1>7. stage = "dos" /\ stage \notin End
  BY DEF RestartInit, End
<1> QED BY <1>1, <1>2, <1>3, <1>5, <1>6, <1>7 DEF RestartInit, RestartInv, StartsFresh, BootClean

LEMMA RestartStep == RestartInv /\ [RestartNext]_restartVars => RestartInv'
<1> SUFFICES ASSUME RestartInv, [RestartNext]_restartVars PROVE RestartInv'
  OBVIOUS
<1> USE VectorSets
<1>1. CASE Load
  <2>1. stage' = "run" /\ stage' \notin End /\ stage' \in {"dos", "run"} \cup Leaving
        /\ UNCHANGED <<irq1, kbd, notified, at70, taken>>
    BY <1>1 DEF Load, End, keys
  <2>2. ivt' \in [Vectors -> Values \ {"bp"}]
    BY <1>1 DEF Load, RestartInv, RestartTypeOK, Values
  <2>3. RestartTypeOK'
    BY <1>1, <2>1, <2>2 DEF Load, RestartInv, RestartTypeOK, keys
  <2>4. StartsFresh'
    BY <2>1 DEF StartsFresh, BootClean, End
  <2>5. pSavedVecs' = [v \in Vectors |-> AsLoaded(v)'] /\ stage = "dos" /\ notified = 0 /\ ~irq1 /\ kbd
    BY <1>1 DEF Load, RestartInv, AsLoaded, Found, End
  <2>6. \A v \in Vectors : at70'[v] \in {"none", Found(v)}
    BY <2>1, <2>5 DEF RestartInv, Before
  <2>7. ivt' \in [Vectors -> Values] /\ at70' \in [Vectors -> Values \cup {"none"}]
    BY <2>1, <2>2 DEF RestartInv
  <2> QED BY <2>1, <2>3, <2>4, <2>5, <2>6, <2>7 DEF RestartInv, Before, Found
<1>2. ASSUME NEW v \in Vectors, Tsr(v) PROVE RestartInv'
  <2>1. ivt' \in [Vectors -> Values]
    BY <1>2 DEF Tsr, RestartInv, Values
  <2>2. RestartTypeOK'
    BY <1>2 DEF Tsr, RestartInv, RestartTypeOK, keys, cpu, Values
  <2> QED BY <1>2, <2>1, <2>2 DEF Tsr, RestartInv, Before, Leaving, AsLoaded, Found, keys, cpu, saved, StartsFresh, BootClean, End
<1>3. CASE Int15_Entry
  BY <1>3 DEF Int15_Entry, RestartInv, RestartTypeOK, Before, Leaving, AsLoaded, Found, saved, cpu, StartsFresh, BootClean, End
<1>4. CASE Int19_V86Entry
  BY <1>4 DEF Int19_V86Entry, RestartInv, RestartTypeOK, Before, Leaving, AsLoaded, Found, saved, cpu, keys, StartsFresh, BootClean, End
<1>5. CASE SoftBoot
  BY <1>5 DEF SoftBoot, RestartInv, RestartTypeOK, Before, Leaving, AsLoaded, Found, saved, cpu, StartsFresh, BootClean, End
<1>6. CASE fastboot
  <2>1. /\ ivt' = Restored /\ UNCHANGED <<opt, taken, pSavedVecs, irq1, kbd, vme, vdsbit, notified>>
        /\ stage = "fastboot"
    BY <1>6 DEF fastboot, restorevecs, keys, cpu
  <2>2. /\ ivt' \in [Vectors -> Values \ {"bp"}]
        /\ \A v \in Bios : ivt'[v] = pSavedVecs[v]
    <3>1. pSavedVecs \in [Vectors -> Values \ {"bp"}]
      BY DEF RestartInv, AsLoaded, Found, Values
    <3>2. ivt \in [Vectors -> Values \ {"bp"}]
      BY <2>1 DEF RestartInv, RestartTypeOK
    <3> QED BY <2>1, <3>1, <3>2 DEF Restored
  <2>3. CASE at70["v19"] = "none"
    BY <1>6, <2>1, <2>2, <2>3 DEF fastboot, restorevecs, RestartInv, RestartTypeOK, Before, Leaving, AsLoaded, Found, StartsFresh, BootClean, End
  <2>4. CASE at70["v19"] # "none"
    <3>1. at70["v19"] = "rom"
      BY <2>1, <2>4 DEF RestartInv, Found, Before
    <3>2. /\ OldInt19' = "rom" /\ at70' = [at70 EXCEPT !["v19"] = "bp"] /\ stage' = "int19" /\ bp06' = "fastboot_1"
      BY <1>6, <2>4, <3>1 DEF fastboot, restorevecs, Bp06
    <3>3. at70' \in [Vectors -> Values \cup {"none"}] /\ at70'["v19"] = "bp"
          /\ \A v \in Vectors \ {"v19"} : at70'[v] = at70[v]
      BY <3>2 DEF RestartInv, Values
    <3>4. \A v \in Vectors : at70'[v] \in {"none", Found(v)} \/ (v = "v19" /\ at70'[v] = "bp")
      BY <3>3 DEF RestartInv
    <3>5. RestartTypeOK'
      BY <2>1, <2>2, <3>2 DEF RestartInv, RestartTypeOK
    <3>6. ivt' \in [Vectors -> Values]
      BY <2>2
    <3> QED BY <2>1, <2>2, <3>2, <3>3, <3>4, <3>5, <3>6 DEF RestartInv, Before, Leaving, AsLoaded, Found, StartsFresh, BootClean, End
  <2> QED BY <2>3, <2>4
<1>7. CASE DosInt19
  <2>1. /\ stage = "int19" /\ stage' = "back"
        /\ UNCHANGED <<opt, taken, at70, pSavedVecs, OldInt19, bp06, irq1, kbd, vme, vdsbit, notified>>
        /\ ivt' = [v \in Vectors |-> IF at70[v] = "none" THEN ivt[v] ELSE at70[v]]
    BY <1>7 DEF DosInt19, RestartInv, keys, cpu, saved
  <2>2. ivt' \in [Vectors -> Values]
    BY <2>1 DEF RestartInv
  <2>3. \A v \in Vectors : ivt'[v] \in Values \ {"bp"} \/ v = "v19"
    BY <2>1 DEF RestartInv, RestartTypeOK, Found, Values
  <2>4. \A v \in Bios : ivt'[v] = IF at70[v] = "none" THEN pSavedVecs[v] ELSE at70[v]
    BY <2>1 DEF RestartInv
  <2>5. RestartTypeOK'
    BY <2>1, <2>3 DEF RestartInv, RestartTypeOK
  <2> QED BY <2>1, <2>2, <2>4, <2>5 DEF RestartInv, Before, Leaving, AsLoaded, Found, StartsFresh, BootClean, End
<1>8. CASE BiosInt19
  BY <1>8 DEF BiosInt19, RestartInv, RestartTypeOK, Before, Leaving, AsLoaded, Found, saved, cpu, keys, StartsFresh, BootClean, End
<1>9. CASE fastboot_1
  <2>1. /\ stage = "back" /\ stage' = "booting" /\ ivt' = Cleared
        /\ UNCHANGED <<opt, taken, at70, pSavedVecs, OldInt19, bp06, irq1, kbd>>
        /\ vme' = FALSE /\ vdsbit' = FALSE /\ notified' = notified + 1
    BY <1>9 DEF fastboot_1, keys, saved
  <2>2. OldInt19 = "rom" /\ notified = 0
    BY <2>1 DEF RestartInv, End
  <2>3. ivt' \in [Vectors -> Values \ {"bp"}]
    BY <2>1, <2>2 DEF Cleared, RestartInv, RestartTypeOK, Values
  <2>4. DosHelps' => \A v \in Vectors \ Rest : ivt'[v] \in {"rom", "null"}
    <3> SUFFICES ASSUME DosHelps, NEW v \in Vectors \ Rest PROVE ivt'[v] \in {"rom", "null"}
      BY <2>1 DEF DosHelps
    <3>1. CASE v = "v19" \/ v \in Zeroed
      BY <2>1, <2>2, <3>1 DEF Cleared
    <3>2. CASE v \in Bios /\ v # "v19"
      <4>1. ivt'[v] = ivt[v] /\ ivt[v] = IF at70[v] = "none" THEN pSavedVecs[v] ELSE at70[v]
        BY <2>1, <3>2 DEF Cleared, RestartInv
      <4>2. v \in taken => at70[v] # "none"
        BY <3>2 DEF DosHelps, Bios
      <4>3. at70[v] \in {"none", Found(v)} /\ pSavedVecs[v] = AsLoaded(v)
        BY <3>2 DEF RestartInv
      <4> QED BY <4>1, <4>2, <4>3, <3>2 DEF AsLoaded, Found
    <3> QED BY <3>1, <3>2
  <2>5. StartsFresh'
    BY <2>1, <2>2, <2>4 DEF RestartInv, StartsFresh, BootClean, End, Leaving
  <2>6. RestartTypeOK'
    <3>1. \A v \in Vectors : ivt'[v] \in Values \ {"bp"}
      BY <2>3
    <3>2. stage' \in End /\ notified' \in 0 .. 1
      BY <2>1, <2>2 DEF End
    <3>3. irq1' \in BOOLEAN /\ kbd' \in BOOLEAN /\ vme' \in BOOLEAN
      BY <2>1 DEF RestartInv, RestartTypeOK
    <3> QED BY <3>1, <3>2, <3>3 DEF RestartTypeOK
  <2> QED BY <2>1, <2>2, <2>3, <2>5, <2>6 DEF RestartInv, Before, Leaving, AsLoaded, Found, End
<1>10. CASE Reboot
  <2>1. /\ stage = "reboot" /\ stage' \in {"kbcreset", "f000fff0"} /\ notified' = notified + 1 /\ vme' \in BOOLEAN
        /\ UNCHANGED <<opt, taken, at70, ivt, pSavedVecs, OldInt19, bp06, irq1, kbd, vdsbit>>
    BY <1>10 DEF Reboot, RestartInv, RestartTypeOK, keys, saved
  <2> QED BY <2>1 DEF RestartInv, RestartTypeOK, Before, Leaving, AsLoaded, Found, StartsFresh, BootClean, End
<1>11. CASE UNCHANGED restartVars
  BY <1>11 DEF restartVars, keys, cpu, saved, RestartInv, RestartTypeOK, Before, Leaving, AsLoaded, Found, StartsFresh, BootClean, End, DosHelps
<1> QED BY <1>1, <1>2, <1>3, <1>4, <1>5, <1>6, <1>7, <1>8, <1>9, <1>10, <1>11 DEF RestartNext, Monitor

(* SoftBoot, Reboot: no vector of 00-7F leads into what is gone when a     *)
(* fast boot gets to the boot sector; IRQ 1 is acknowledged, the modules   *)
(* are told once, and neither VME nor the VDS bit is left.                 *)
THEOREM RestartsFresh == RestartSpec => []StartsFresh
<1>1. RestartInit => RestartInv
  BY RestartStarts
<1>2. RestartInv /\ [RestartNext]_restartVars => RestartInv'
  BY RestartStep
<1>3. RestartInv => StartsFresh
  BY DEF RestartInv
<1> QED BY <1>1, <1>2, <1>3, PTL DEF RestartSpec
=============================================================================
