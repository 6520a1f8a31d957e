------------------------------- MODULE XmsScan -------------------------------
(***************************************************************************)
(* The scan loop of xms_free_emb, iteration by iteration, as a reference   *)
(* definition for Xms!FreeTab, which states the effect of the whole loop.  *)
(***************************************************************************)
EXTENDS Xms

(* One pass of the loop body: EBX is the entry looked at, ESI the handle   *)
(* that holds the freed memory, lo..hi the memory that was freed.          *)
ScanStep(s, lo, hi) ==
  LET k == s.ebx
  IN  IF /\ s.t[k].flags = "FREE"
         /\ \/ s.t[k].base = hi
            \/ s.t[k].base + s.t[k].size = lo
        THEN [t   |-> MergeTab(s.t, s.esi, k),
              esi |-> Lower(s.esi, k),
              ebx |-> Lower(s.esi, k) + 1]
        ELSE [s EXCEPT !.ebx = k + 1]

(* ECX counts NumHandles iterations, wherever EBX points.                  *)
ScanTab(t, i) ==
  LET lo == t[i].base
      hi == t[i].base + t[i].size
      scan[n \in 0 .. NumHandles] ==
        IF n = 0 THEN [t |-> t, esi |-> i, ebx |-> 1]
                 ELSE ScanStep(scan[n - 1], lo, hi)
      s == scan[NumHandles]
  IN  [s.t EXCEPT ![s.esi].flags = IF s.t[s.esi].size = 0 THEN "INPOOL" ELSE "FREE"]

(* The one-step effect that the model uses for a free is what the loop of  *)
(* the code computes, for every handle that can be freed.                  *)
FreeTabIsTheScan ==
  \A i \in Hdl : (h[i].flags = "USED" /\ h[i].locks = 0) => FreeTab(h, i) = ScanTab(h, i)
=============================================================================
