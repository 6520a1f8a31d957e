------------------------------- MODULE EmsMove ------------------------------
(***************************************************************************)
(* EMS function 57h, move or exchange memory regions (src/src/EMS.ASM).    *)
(* A region is conventional memory or a piece of a handle's pages, which   *)
(* are mapped one behind the other in the page map heap for the copy.  The *)
(* two regions of a call are mapped separately, so one page can be seen at *)
(* two linear addresses; the copy goes through them unit by unit.          *)
(***************************************************************************)
EXTENDS Naturals, Sequences, SequencesExt

CONSTANTS
  PageSize,     (* units of an EMS page                                    *)
  ConvTop,      (* the end of what conventional regions may reach, 1 MB    *)
  MaxMove,      (* the longest region, 1 MB                                *)
  HandlePages,  (* handle -> its pages: numbers of EMS page frames         *)
  Regions,      (* [typ, hdl, seg, ofs]; for typ 0 the address is in ofs   *)
  Sizes,
  MaxCalls      (* bound                                                   *)

VARIABLES
  mem,          (* the contents, [conv: address] or [frame, unit]          *)
  last          (* the last call, its answer and what memory was before    *)

vars == <<mem, last>>

Conv(a) == <<"conv", a>>
Ems(f, u) == <<f, u>>
Frames == UNION {{HandlePages[h][i] : i \in DOMAIN HandlePages[h]} : h \in DOMAIN HandlePages}
Cells == {Conv(a) : a \in 0 .. (ConvTop - 1)} \cup {Ems(f, u) : f \in Frames, u \in 0 .. (PageSize - 1)}

Init ==
  /\ mem = [c \in Cells |-> c]
  /\ last = [n |-> 0]
-----------------------------------------------------------------------------
(* The pages that are mapped for a region: one at least, and as many as    *)
(* offset and length reach into.                                           *)
PagesFor(r, size) == (r.ofs + size + PageSize - 1) \div PageSize

(* The status a region is refused with, in the order of the checks.        *)
RegionStatus(r, size) ==
  CASE r.typ > 1 -> "TYPE_UNDEFINED"
    [] r.typ = 0 /\ r.ofs + size > ConvTop -> "MBBOUNDARY_CROSSED"
    [] r.typ = 1 /\ r.hdl \notin DOMAIN HandlePages -> "INVALID_HANDLE"
    [] r.typ = 1 /\ r.ofs >= PageSize -> "OFFS_EXCEEDS_PGSIZ"
    [] r.typ = 1 /\ r.seg + PagesFor(r, size) > Len(HandlePages[r.hdl]) -> "LENGTH_EXCEEDED"
    [] OTHER -> "OK"

(* What unit k of the region is: through the PTEs of the page map heap for *)
(* a page that was mapped.  Behind them are the pages of other regions.    *)
Cell(r, k) ==
  IF r.typ = 0 THEN Conv(r.ofs + k)
  ELSE Ems(HandlePages[r.hdl][r.seg + (r.ofs + k) \div PageSize + 1], (r.ofs + k) % PageSize)

(* Both in pages of one handle, and the destination begins inside of the   *)
(* source.  Compared are the places in the handle.                         *)
Place(r) == r.seg * PageSize + r.ofs
Overlapped_Never(s, d, size) == FALSE   \* mutant: always the standard copy
Overlapped(s, d, size) ==
  /\ s.typ = 1 /\ d.typ = 1 /\ s.hdl = d.hdl
  /\ Place(s) < Place(d) /\ Place(d) < Place(s) + size

Move(m, s, d, k) == [m EXCEPT ![Cell(d, k)] = m[Cell(s, k)]]
Swap(m, s, d, k) == [m EXCEPT ![Cell(d, k)] = m[Cell(s, k)], ![Cell(s, k)] = m[Cell(d, k)]]

Upward(size) == [i \in 1 .. size |-> i - 1]
Downward(size) == Reverse(Upward(size))

Result(op, s, d, size) ==
  CASE op = "xchg" -> FoldLeft(LAMBDA m, k : Swap(m, s, d, k), mem, Upward(size))
    [] op = "move" /\ Overlapped(s, d, size) ->
         FoldLeft(LAMBDA m, k : Move(m, s, d, k), mem, Downward(size))
    [] OTHER -> FoldLeft(LAMBDA m, k : Move(m, s, d, k), mem, Upward(size))

(* The source is looked at first.                                          *)
Status(op, s, d, size) ==
  CASE size = 0 -> "OK"
    [] size > MaxMove -> "REGLEN_EXCEEDS_1MB"
    [] RegionStatus(s, size) # "OK" -> RegionStatus(s, size)
    [] RegionStatus(d, size) # "OK" -> RegionStatus(d, size)
    [] Overlapped(s, d, size) -> IF op = "xchg" THEN "REGIONS_OVERLAPP" ELSE "OVERLAP_OCCURED"
    [] OTHER -> "OK"

Served(st) == st \in {"OK", "OVERLAP_OCCURED"}

ems4_move_memory(op, s, d, size) ==
  LET st == Status(op, s, d, size)
  IN  /\ mem' = IF Served(st) THEN Result(op, s, d, size) ELSE mem
      /\ last' = [n |-> last.n + 1, op |-> op, src |-> s, dst |-> d, size |-> size,
                  status |-> st, before |-> mem]

Next ==
  /\ last.n < MaxCalls
  /\ \E op \in {"move", "xchg"}, s, d \in Regions, size \in Sizes : ems4_move_memory(op, s, d, size)

Spec == Init /\ [][Next]_vars
-----------------------------------------------------------------------------
(* A unit of memory holds what some unit held at the start.                *)
EmsMoveTypeOK == mem \in [Cells -> Cells] /\ last.n \in 0 .. MaxCalls

Reach(r, size) == {Cell(r, k) : k \in 0 .. (size - 1)}

(* Function 57h: a region that is moved arrives as it was, also when it is *)
(* copied over itself through two mappings of the same page; two regions   *)
(* that are exchanged both arrive; nothing else changes, and nothing at    *)
(* all by a call that is refused.  Left out is what the code does not look *)
(* at: an upward overlap of conventional regions, and an overlap of        *)
(* regions that are exchanged unless the destination begins in the source. *)
Shared == Reach(last.src, last.size) \cap Reach(last.dst, last.size)
Unseen ==
  /\ Shared # {}
  /\ \/ last.src.typ = 0
     \/ last.op = "xchg" /\ Place(last.src) >= Place(last.dst)
MovedWhole ==
  last.n > 0 =>
    IF ~Served(last.status) \/ last.size = 0 THEN mem = last.before
    ELSE ~Unseen =>
      /\ \A k \in 0 .. (last.size - 1) : mem[Cell(last.dst, k)] = last.before[Cell(last.src, k)]
      /\ last.op = "xchg" =>
           \A k \in 0 .. (last.size - 1) : mem[Cell(last.src, k)] = last.before[Cell(last.dst, k)]
      /\ \A c \in Cells \ (Reach(last.src, last.size) \cup Reach(last.dst, last.size)) :
           mem[c] = last.before[c]

(* The comment in the code, "for xchg, overlapp is invalid": regions that  *)
(* share memory are not exchanged.                                         *)
ExchangedApart ==
  last.n > 0 /\ last.op = "xchg" /\ last.size > 0 /\ Served(last.status) => Shared = {}
=============================================================================
