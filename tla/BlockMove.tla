----------------------------- MODULE BlockMove ------------------------------
(***************************************************************************)
(* The block moves: XMS AH=0Bh and CBh (src/src/XMS.ASM), Int 15h AH=87h   *)
(* (src/src/I15.ASM) and the copy they share, MoveMemoryPhys and           *)
(* MoveMemoryPhysEx (src/src/JEMM32.ASM).  A move goes chunk by chunk;     *)
(* each chunk maps its source and destination in the page map heap and is  *)
(* copied with interrupts enabled, so that a handler may start a move of   *)
(* its own meanwhile.                                                      *)
(*                                                                         *)
(* Memory is the RAM at physical addresses 0 .. Top-1, 2^32 is W.          *)
(***************************************************************************)
EXTENDS Naturals, TLC, SequencesExt

CONSTANTS
  Top, W,
  K,            (* bytes of a KB                                           *)
  Page,         (* bytes of a 4 KB page                                    *)
  MaxChunk,     (* MAXBLOCKSIZE                                            *)
  Big,          (* bytes of a 4 MB page                                    *)
  Border,       (* ?MEMBORDER: below, linear addresses are used as given   *)
  RealTop,      (* 10FFF0h                                                 *)
  MaxWords,     (* 8000h                                                   *)
  NoCheck,      (* V86F_NOCHECK, the NOCHECK option                        *)
  MaxPhysMem,   (* dwMaxPhysMem                                            *)
  Emb,          (* the blocks of the clients: handle -> [base, size], KB   *)
  Calls,        (* the calls of the interrupted program                    *)
  Nested,       (* the calls of handlers                                   *)
  HeapSize      (* PTEs of the page map heap                               *)

VARIABLES
  mem,          (* contents of the RAM; at first a byte is its address     *)
  moves,        (* the moves under way, the innermost last                 *)
  heap,         (* PageMapHeap: first PTE not in use                       *)
  heap4M,       (* Heap4MB: 4 MB page pairs in use                         *)
  pte,          (* the page map heap's PTEs: the page each maps            *)
  pde,          (* the 4 MB pages' entries: the two pages of each pair     *)
  log           (* the calls accepted: [kind, src, dst, len, done]         *)

vars == <<mem, moves, heap, heap4M, pte, pde, log>>

Init ==
  /\ mem = [a \in 0 .. (Top - 1) |-> a]
  /\ moves = << >>
  /\ heap = 1 /\ heap4M = 0
  /\ pte = [n \in 1 .. HeapSize |-> 0]
  /\ pde = [n \in 1 .. 4 |-> <<0, 0>>]
  /\ log = << >>
-----------------------------------------------------------------------------
(* xms_get_move_addr.  Handle 0 is a real-mode address; otherwise the end  *)
(* of the range, rounded up to KB, must be inside the block.  Bits 32-39   *)
(* of the offset are not looked at before they are added to the address.   *)
MoveAddr(r, len) ==
  IF r.hdl = 0
    THEN IF r.off + len <= RealTop THEN [ok |-> TRUE, addr |-> r.off] ELSE [ok |-> FALSE, err |-> "A7"]
    ELSE IF r.hdl \notin DOMAIN Emb THEN [ok |-> FALSE, err |-> "hdl"]
    ELSE IF (r.off + len + K - 1) \div K <= Emb[r.hdl].size
           THEN [ok |-> TRUE, addr |-> Emb[r.hdl].base * K + r.off + r.hi * W]
           ELSE [ok |-> FALSE, err |-> "A7"]

(* xms_move_emb: AH=CBh alone brings bits 32-39.  The destination may      *)
(* begin at or before the source, or behind its end; the copy runs upward. *)
Hi(c, r) == IF c.fn = "CB" THEN r ELSE [r EXCEPT !.hi = 0]

Overlaps(s, d, len) == d > s /\ d < s + len

XmsAnswer(c) ==
  LET d == MoveAddr(Hi(c, c.dst), c.len)
      s == MoveAddr(Hi(c, c.src), c.len)
  IN IF c.len % 2 = 1 THEN [ok |-> FALSE, err |-> "A7"]
     ELSE IF ~d.ok THEN [ok |-> FALSE, err |-> IF d.err = "hdl" THEN "A5" ELSE d.err]
     ELSE IF ~s.ok THEN [ok |-> FALSE, err |-> IF s.err = "hdl" THEN "A3" ELSE s.err]
     ELSE IF Overlaps(s.addr, d.addr, c.len) /\ c.len > 0 THEN [ok |-> FALSE, err |-> "A9"]
     ELSE [ok |-> TRUE, src |-> s.addr, dst |-> d.addr]

(* I15_Simulate87: a word count, descriptors with limits, and under        *)
(* NOCHECK a fault for what reaches the top of memory; the sum that is     *)
(* compared has 32 bits.                                                   *)
I15Answer(c) ==
  IF c.len > 2 * MaxWords THEN [ok |-> FALSE, err |-> "02"]
  ELSE IF c.len > 0 /\ c.len - 1 > c.limit THEN [ok |-> FALSE, err |-> "80"]
  ELSE IF NoCheck /\ c.len > 0 /\ \E a \in {c.src.off, c.dst.off} : (a + c.len) % W >= MaxPhysMem
         THEN [ok |-> FALSE, err |-> "fault"]
  ELSE [ok |-> TRUE, src |-> c.src.off, dst |-> c.dst.off]

Answer(c) == IF c.fn = "87" THEN I15Answer(c) ELSE XmsAnswer(c)
-----------------------------------------------------------------------------
Frame == moves[Len(moves)]

Span(a, n) == a .. (a + n - 1)

(* The request that a frame will carry out.  Handlers touch neither what   *)
(* the interrupted move writes nor write what it reads.                    *)
Apart(s, d, n) ==
  \A k \in DOMAIN moves :
    /\ (Span(s, n) \cup Span(d, n)) \cap Span(log[moves[k].id].dst, log[moves[k].id].len) = {}
    /\ Span(d, n) \cap Span(log[moves[k].id].src, log[moves[k].id].len) = {}

(* The call, up to the copy: it ends here on an error or without length.   *)
Call(c) ==
  LET a == Answer(c)
  IN /\ a.ok
     /\ c.len > 0
     /\ Span(a.src, c.len) \cup Span(a.dst, c.len) \subseteq DOMAIN mem
     /\ Apart(a.src, a.dst, c.len)
     /\ log' = Append(log, [fn |-> c.fn, from |-> c.src.hdl, to |-> c.dst.hdl, src |-> a.src,
                            dst |-> a.dst, len |-> c.len, done |-> FALSE])
     /\ moves' = Append(moves,
          [id |-> Len(log) + 1, src |-> a.src, dst |-> a.dst, left |-> c.len,
           ex |-> a.src >= W \/ a.dst >= W, mapped |-> FALSE])
     /\ UNCHANGED <<mem, heap, heap4M, pte, pde>>

FirstCall == \E c \in Calls : log = << >> /\ Call(c)

(* A handler runs while a chunk is copied.                                 *)
NestedCall == \E c \in Nested : Len(log) = 1 /\ moves # << >> /\ Frame.mapped /\ Call(c)
-----------------------------------------------------------------------------
PageOf(a) == (a \div Page) * Page
Min2(a, b) == IF a < b THEN a ELSE b

(* PTEs for n bytes: whole pages, and one more for an unaligned start.     *)
PtesFor_Both(n) == ((n + Page - 1) \div Page) + 2   \* mutant: ... and one for the end
PtesFor(n) == ((n + Page - 1) \div Page) + 1

(* MapPhysPages: count PTEs from PTE e map the pages from address a on.    *)
MapPhysPages(p, a, e, count) ==
  [i \in DOMAIN p |-> IF i \in Span(e, count) THEN PageOf(a) + (i - e) * Page ELSE p[i]]

(* One turn of @@extmove_loop up to MoveMemory: the source and then the    *)
(* destination get PTEs, unless they are below the border; PageMapHeap is  *)
(* set behind them before anything else may run.                           *)
MapChunk_HeapKept(f) ==   \* mutant
  LET n == Min2(f.left, MaxChunk)
      need == PtesFor(n)
      sNeed == IF f.src >= Border THEN need ELSE 0
      dNeed == IF f.dst >= Border THEN need ELSE 0
      p1 == IF sNeed > 0 THEN MapPhysPages(pte, f.src, heap, need) ELSE pte
  IN /\ pte' = IF dNeed > 0 THEN MapPhysPages(p1, f.dst, heap + sNeed, need) ELSE p1
     /\ UNCHANGED <<heap, heap4M, pde>>
     /\ moves' = [moves EXCEPT ![Len(moves)] =
                    [mapped |-> TRUE, n |-> n, sWin |-> heap, dWin |-> heap + sNeed, heap |-> heap] @@ f]

MapChunk(f) ==
  LET n == Min2(f.left, MaxChunk)
      need == PtesFor(n)
      sNeed == IF f.src >= Border THEN need ELSE 0
      dNeed == IF f.dst >= Border THEN need ELSE 0
      p1 == IF sNeed > 0 THEN MapPhysPages(pte, f.src, heap, need) ELSE pte
  IN /\ heap + sNeed + dNeed <= HeapSize + 1
     /\ pte' = IF dNeed > 0 THEN MapPhysPages(p1, f.dst, heap + sNeed, need) ELSE p1
     /\ heap' = heap + sNeed + dNeed
     /\ UNCHANGED <<heap4M, pde>>
     /\ moves' = [moves EXCEPT ![Len(moves)] =
                    [mapped |-> TRUE, n |-> n, sWin |-> heap, dWin |-> heap + sNeed, heap |-> heap] @@ f]

(* MapPhysPagesPSE: two 4 MB pages, the carry into bit 32 included.        *)
BigPair(a) == LET b == (a \div Big) * Big IN <<b, b + Big>>

(* MoveMemoryPhysEx: the same with pairs of 4 MB pages.                    *)
MapChunkEx(f) ==
  LET n == Min2(f.left, Big)
      sPair == IF f.src >= Border THEN 1 ELSE 0
      dPair == IF f.dst >= Border THEN 1 ELSE 0
      p1 == IF sPair = 1 THEN [pde EXCEPT ![heap4M + 1] = BigPair(f.src)] ELSE pde
  IN /\ pde' = IF dPair = 1 THEN [p1 EXCEPT ![heap4M + sPair + 1] = BigPair(f.dst)] ELSE p1
     /\ heap4M' = heap4M + sPair + dPair
     /\ UNCHANGED <<heap, pte>>
     /\ moves' = [moves EXCEPT ![Len(moves)] =
                    [mapped |-> TRUE, n |-> n, sWin |-> heap4M + 1, dWin |-> heap4M + sPair + 1,
                     heap |-> heap4M] @@ f]

Map ==
  /\ moves # << >>
  /\ ~Frame.mapped
  /\ IF Frame.ex THEN MapChunkEx(Frame) ELSE MapChunk(Frame)
  /\ UNCHANGED <<mem, log>>

(* The byte of memory that the processor reaches at offset i of a window.  *)
Reach(f, a, win, i) ==
  IF a < Border THEN a + i
  ELSE IF f.ex THEN LET o == (a % Big) + i IN pde[win][(o \div Big) + 1] + (o % Big)
  ELSE LET o == (a % Page) + i IN pte[win + (o \div Page)] + (o % Page)

(* MoveMemory through the windows, upward.                                 *)
Copied(f) ==
  FoldLeft(LAMBDA m, i : [m EXCEPT ![Reach(f, f.dst, f.dWin, i - 1)] =
                                     m[Reach(f, f.src, f.sWin, i - 1)]],
           mem, [i \in 1 .. f.n |-> i])

(* The chunk is copied, the windows are given back, the loop goes on.      *)
Copy ==
  /\ moves # << >>
  /\ Frame.mapped
  /\ mem' = Copied(Frame)
  /\ IF Frame.ex THEN heap4M' = Frame.heap /\ UNCHANGED heap
                 ELSE heap' = Frame.heap /\ UNCHANGED heap4M
  /\ LET left == Frame.left - Frame.n
     IN /\ moves' = IF left = 0 THEN Front(moves)
                    ELSE Append(Front(moves),
                           [id |-> Frame.id, src |-> Frame.src + Frame.n, dst |-> Frame.dst + Frame.n,
                            left |-> left, ex |-> Frame.ex, mapped |-> FALSE])
        /\ log' = IF left = 0 THEN [log EXCEPT ![Frame.id].done = TRUE] ELSE log
  /\ UNCHANGED <<pte, pde>>

Next == FirstCall \/ NestedCall \/ Map \/ Copy

Spec == Init /\ [][Next]_vars /\ WF_vars(Map \/ Copy)
-----------------------------------------------------------------------------
(* The types of the variables that are not sequences of records.           *)
MoveTypeOK ==
  /\ mem \in [0 .. (Top - 1) -> 0 .. (Top - 1)]
  /\ heap \in 1 .. (HeapSize + 1) /\ heap4M \in 0 .. 4

(* xms_get_move_addr ("assert length + offset < size"): a move touches no  *)
(* byte outside the blocks that it names.                                  *)
InBlock(a, len, hdl) ==
  hdl # 0 => /\ Emb[hdl].base * K <= a
             /\ a + len <= (Emb[hdl].base + Emb[hdl].size) * K
MovesInside ==
  \A k \in DOMAIN log : log[k].fn # "87" =>
    InBlock(log[k].src, log[k].len, log[k].from) /\ InBlock(log[k].dst, log[k].len, log[k].to)

(* MoveMemoryPhys, MoveMemoryPhysEx: a finished move has copied exactly    *)
(* its range, whatever the alignment, the number of chunks, the overlap    *)
(* that was allowed and the moves that handlers have made meanwhile, and   *)
(* no other byte has changed.                                              *)
Smeared(r) == r.fn = "87" /\ Overlaps(r.src, r.dst, r.len)
MovedRight ==
  /\ \A k \in DOMAIN log : log[k].done /\ ~Smeared(log[k]) =>
       \A i \in 0 .. (log[k].len - 1) : mem[log[k].dst + i] = log[k].src + i
  /\ \A a \in DOMAIN mem :
       mem[a] # a => \E k \in DOMAIN log : a \in Span(log[k].dst, log[k].len)

(* The windows of nested moves are given back in order.                    *)
WindowsReturned == moves = << >> => heap = 1 /\ heap4M = 0

(* MoveMemoryPhys ends: a move that was accepted completes, for there are  *)
(* finitely many chunks and handlers return.                               *)
Begun(k) == k \in DOMAIN log
Completed(k) == Begun(k) /\ log[k].done
MovesEnd == \A k \in 1 .. 2 : Begun(k) ~> Completed(k)
=============================================================================
