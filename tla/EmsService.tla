----------------------------- MODULE EmsService -----------------------------
(***************************************************************************)
(* What the EMS service of int 67h promises its clients, without tables:   *)
(* an open handle owns a sequence of pages, may hold one saved context,    *)
(* and pages appear in the window of physical pages only because somebody  *)
(* mapped them or restored a map that was recorded earlier.                *)
(***************************************************************************)
EXTENDS Naturals, Sequences, FiniteSets

CONSTANTS
  Handles,      (* EMS handles                                             *)
  Frames,       (* 16 KB pieces of memory the pool can hand out            *)
  Window,       (* physical pages                                          *)
  Contents,     (* what a physical page may show                           *)
  Identity,     (* [Window -> Contents]: what an unmapped page shows       *)
  FrameWindow,  (* the physical pages that 47h and 48h save and restore    *)
  None          (* not open, not saved                                     *)

VARIABLES
  open,         (* SUBSET Handles                                          *)
  pages,        (* handle -> sequence of frames, << >> if not open         *)
  context,      (* handle -> saved map of FrameWindow, or None             *)
  window,       (* physical page -> Contents                               *)
  records       (* page maps that clients keep in memory of their own      *)

sVars == <<open, pages, context, window, records>>

Owned(h) == {pages[h][i] : i \in DOMAIN pages[h]}
AllOwned == UNION {Owned(h) : h \in Handles}
Restricted(m, S) == [p \in S |-> m[p]]
Overlaid(m, old) == [p \in Window |-> IF p \in DOMAIN m THEN m[p] ELSE old[p]]

(* New pages belonged to no handle, and no page occurs twice.              *)
Fresh(q) == /\ \A i \in DOMAIN q : q[i] \in Frames \ AllOwned
            /\ \A i, j \in DOMAIN q : q[i] = q[j] => i = j
ChangedOnly(h) == pages' = [pages EXCEPT ![h] = pages'[h]]

Open(h) ==
  /\ h \notin open
  /\ open' = open \cup {h}
  /\ ChangedOnly(h) /\ Fresh(pages'[h])
  /\ UNCHANGED <<context, window, records>>

(* The window may go on showing pages of a closed handle.                  *)
Close(h) ==
  /\ h \in open /\ context[h] = None
  /\ open' = open \ {h}
  /\ pages' = [pages EXCEPT ![h] = << >>]
  /\ UNCHANGED <<context, window, records>>

Extend(h) ==
  /\ h \in open
  /\ ChangedOnly(h)
  /\ Len(pages'[h]) >= Len(pages[h])
  /\ SubSeq(pages'[h], 1, Len(pages[h])) = pages[h]
  /\ Fresh(SubSeq(pages'[h], Len(pages[h]) + 1, Len(pages'[h])))
  /\ UNCHANGED <<open, context, window, records>>

Cut(h) ==
  /\ h \in open
  /\ ChangedOnly(h)
  /\ Len(pages'[h]) <= Len(pages[h])
  /\ pages'[h] = SubSeq(pages[h], 1, Len(pages'[h]))
  /\ UNCHANGED <<open, context, window, records>>

(* Any number of physical pages get pages of one open handle, or are       *)
(* unmapped.                                                               *)
Map(h) ==
  /\ h \in open
  /\ window' \in [Window -> Contents]
  /\ \A p \in Window : window'[p] \in {window[p], Identity[p]} \cup Owned(h)
  /\ UNCHANGED <<open, pages, context, records>>

Save(h) ==
  /\ h \in open /\ context[h] = None
  /\ context' = [context EXCEPT ![h] = Restricted(window, FrameWindow)]
  /\ UNCHANGED <<open, pages, window, records>>

Restore(h) ==
  /\ h \in open /\ context[h] # None
  /\ window' = Overlaid(context[h], window)
  /\ context' = [context EXCEPT ![h] = None]
  /\ UNCHANGED <<open, pages, records>>

(* A client lets the service record (part of) the map; it may overwrite    *)
(* what it recorded earlier, and lay a record over the window again.       *)
Recordable == {Restricted(window, S) : S \in SUBSET Window}
Record == \E m \in Recordable, old \in SUBSET records :
            records' = (records \ old) \cup {m}
LayOver == \E m \in records : window' = Overlaid(m, window)

UseRecords ==
  /\ Record \/ records' = records
  /\ LayOver \/ window' = window
  /\ UNCHANGED <<open, pages, context>>

ServiceInit ==
  /\ open # {} /\ open \subseteq Handles
  /\ pages \in [Handles -> Seq(Frames)]
  /\ \A g, h \in Handles : \A i \in DOMAIN pages[g], j \in DOMAIN pages[h] :
       pages[g][i] = pages[h][j] => g = h /\ i = j
  /\ \A h \in Handles \ open : pages[h] = << >>
  /\ context = [h \in Handles |-> None]
  /\ window = Identity
  /\ records = {}

ServiceNext ==
  \/ \E h \in Handles : \/ Open(h) \/ Close(h) \/ Extend(h) \/ Cut(h)
                        \/ Map(h) \/ Save(h) \/ Restore(h)
  \/ UseRecords

ServiceSpec == ServiceInit /\ [][ServiceNext]_sVars
=============================================================================
