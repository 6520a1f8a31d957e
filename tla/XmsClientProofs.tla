-------------------------- MODULE XmsClientProofs ---------------------------
(***************************************************************************)
(* Proofs about the EMB allocator when interrupt handlers call it in the   *)
(* middle of the copy that a reallocation makes, and about the UMBs: for   *)
(* every table size, any depth of nesting and every page map no call       *)
(* touches a block of another one, and for the clients the tables are      *)
(* MemStores.                                                              *)
(***************************************************************************)
EXTENDS XmsReentrant, Umb, XmsProofs

-----------------------------------------------------------------------------
(* What a call on one handle may do, seen from the reallocations under     *)
(* way: their handles are in use, unlocked, and nobody else's.             *)

Moves == [i : Hdl, j : Hdl]

HeldByMoves(t, m) ==
  \A k \in 1 .. Len(m) : /\ t[m[k].i].flags = "USED" /\ t[m[k].i].locks = 0
                         /\ t[m[k].j].flags = "USED" /\ t[m[k].j].locks = 0
                         /\ m[k].i # m[k].j

MovesApart(m) ==
  \A k, l \in 1 .. Len(m) : k # l => {m[k].i, m[k].j} \cap {m[l].i, m[l].j} = {}

(* The inductive invariant.  MovesApart is what the rest needs: without it *)
(* the end of one reallocation could free the block of another.            *)
RInv == /\ IInv
        /\ moving \in Seq(Moves)
        /\ HeldByMoves(h, moving)
        /\ MovesApart(moving)

LEMMA BusyIndex ==
  ASSUME moving \in Seq(Moves), NEW x
  PROVE  /\ x \in Busy <=> \E k \in 1 .. Len(moving) : x = moving[k].i \/ x = moving[k].j
         /\ x \in Hidden <=> \E k \in 1 .. Len(moving) : x = moving[k].j
<1>1. DOMAIN moving = 1 .. Len(moving)
  OBVIOUS
<1> QED BY <1>1 DEF Busy, Hidden

(* A call on a handle that no reallocation holds leaves them all as they   *)
(* are.                                                                    *)
LEMMA OthersKept ==
  ASSUME RInv, NEW i \in Hdl, Keeps(i), i \notin Busy, UNCHANGED moving
  PROVE  HeldByMoves(h', moving)
<1>1. moving \in Seq(Moves) /\ HeldByMoves(h, moving)
  BY DEF RInv
<1> SUFFICES ASSUME NEW k \in 1 .. Len(moving)
             PROVE  h'[moving[k].i] = h[moving[k].i] /\ h'[moving[k].j] = h[moving[k].j]
  BY <1>1 DEF HeldByMoves
<1>2. moving[k] \in Moves
  BY <1>1
<1>3. moving[k].i # i /\ moving[k].j # i
  BY <1>1, BusyIndex
<1>4. h[moving[k].i].flags = "USED" /\ h[moving[k].j].flags = "USED"
  BY <1>1 DEF HeldByMoves
<1> QED BY <1>2, <1>3, <1>4 DEF Keeps, Moves

LEMMA AllocIsFresh ==
  ASSUME RInv, NEW j \in Hdl, h[j].flags # "USED"
  PROVE  j \notin Busy
<1>1. moving \in Seq(Moves) /\ HeldByMoves(h, moving)
  BY DEF RInv
<1> QED BY <1>1, BusyIndex DEF HeldByMoves

-----------------------------------------------------------------------------
(* The two halves of a reallocation that moves its block.                  *)

LEMMA StartStep ==
  ASSUME RInv, NEW i \in Hdl \ Busy, NEW sz \in ReqSizes, ReallocStart(i, sz)
  PROVE  LET j == AllocHdl(h, sz, h[i].base >= FourGB)
         IN  /\ j \in Hdl \ Busy /\ j # i /\ h[j].flags # "USED"
             /\ Good(h', Ram) /\ Keeps(j)
             /\ h[i].flags = "USED" /\ h[i].locks = 0 /\ h'[i] = h[i]
             /\ h'[j].flags = "USED" /\ h'[j].locks = 0
             /\ moving' = Append(moving, [i |-> i, j |-> j])
<1> DEFINE sext == h[i].base >= FourGB
           j == AllocHdl(h, sz, sext)
<1>1. sext \in BOOLEAN /\ h \in [Hdl -> Emb] /\ sz \in Nat
  BY XmsAssumption DEF RInv, IInv, Good
<1>2. /\ h[i].flags = "USED" /\ h[i].locks = 0 /\ j # 0
      /\ h' = AllocTab(h, sz, sext) /\ moving' = Append(moving, [i |-> i, j |-> j])
  BY DEF ReallocStart, CanRealloc
<1> HIDE DEF sext
<1>3. AllocEmb(sz, sext)
  BY <1>2 DEF AllocEmb
<1>4. j \in Hdl /\ h[j].flags # "USED" /\ Keeps(j)
  BY <1>1, <1>3, AllocStepKeeps DEF RInv, IInv
<1>5. j \notin Busy /\ j # i
  BY <1>2, <1>4, AllocIsFresh
<1>6. Good(h', Ram)
  BY <1>1, <1>2, AllocGood DEF RInv, IInv
<1>7. h'[j].flags = "USED" /\ h'[j].locks = 0
  BY <1>1, <1>2, <1>4, AllocMakesUsed
<1>8. h'[i] = h[i]
  BY <1>2, <1>4, <1>5 DEF Keeps
<1> HIDE DEF j
<1> QED BY <1>2, <1>4, <1>5, <1>6, <1>7, <1>8 DEF j, sext

LEMMA FrontOfSeq ==
  ASSUME NEW S, NEW s \in Seq(S), NEW n, n = Len(s), n \in 1 .. Len(s)
  PROVE  /\ SubSeq(s, 1, n - 1) \in Seq(S) /\ Len(SubSeq(s, 1, n - 1)) = n - 1
         /\ \A k \in 1 .. (n - 1) : k \in 1 .. Len(s) /\ SubSeq(s, 1, n - 1)[k] = s[k]
<1>1. n \in Nat /\ n >= 1 /\ n - 1 \in Nat
  OBVIOUS
<1>2. SubSeq(s, 1, n - 1) \in Seq(S) /\ Len(SubSeq(s, 1, n - 1)) = n - 1
  BY <1>1
<1>3. \A k \in 1 .. (n - 1) : k \in 1 .. Len(s) /\ SubSeq(s, 1, n - 1)[k] = s[k]
  BY <1>1
<1> QED BY <1>2, <1>3

LEMMA EndStep ==
  ASSUME RInv, ReallocEnd
  PROVE  LET n == Len(moving)
             i == moving[n].i
             j == moving[n].j
         IN  /\ n \in 1 .. Len(moving) /\ i \in Hdl /\ j \in Hdl /\ i # j
             /\ Good(h', Ram)
             /\ h'[i] = h[j] /\ h'[j].flags # "USED"
             /\ \A k \in Hdl \ {i, j} : h[k].flags = "USED" => h'[k] = h[k]
             /\ \A k \in Hdl \ {i, j} : h'[k].flags = "USED" => h[k].flags = "USED"
             /\ moving' = SubSeq(moving, 1, n - 1)
<1> DEFINE n == Len(moving)
           i == moving[n].i
           j == moving[n].j
           t == [h EXCEPT ![i] = h[j], ![j] = h[i]]
<1>1. moving \in Seq(Moves) /\ HeldByMoves(h, moving) /\ Good(h, Ram) /\ h \in [Hdl -> Emb]
  BY DEF RInv, IInv, Good
<1>2. n \in 1 .. Len(moving)
  BY <1>1 DEF ReallocEnd
<1>3. moving[n] \in Moves
  BY <1>1, <1>2
<1>4. i \in Hdl /\ j \in Hdl
  BY <1>3 DEF Moves
<1>5. /\ h[i].flags = "USED" /\ h[i].locks = 0
      /\ h[j].flags = "USED" /\ h[j].locks = 0 /\ i # j
  BY <1>1, <1>2 DEF HeldByMoves
<1>6. h' = FreeTab(t, j) /\ moving' = SubSeq(moving, 1, n - 1)
  BY DEF ReallocEnd, Last, Front
<1> HIDE DEF i, j, n
<1>7. /\ t \in [Hdl -> Emb] /\ t[i] = h[j] /\ t[j] = h[i]
      /\ \A k \in Hdl \ {i, j} : t[k] = h[k]
  BY <1>1, <1>4, <1>5
<1>8. Good(t, Ram)
  BY <1>1, <1>4, <1>5, SwapGood
<1> HIDE DEF t
<1>9. Good(h', Ram)
  BY <1>4, <1>5, <1>6, <1>7, <1>8, FreeGood
<1>10. \A k \in Hdl \ {j} : t[k].flags = "USED" => h'[k] = t[k]
  BY <1>4, <1>5, <1>6, <1>7, FreeKeeps
<1>11. \A k \in Hdl : h'[k].flags = "USED" => k # j /\ t[k].flags = "USED"
  BY <1>4, <1>5, <1>6, <1>7, FreeUses
<1>12. h'[i] = h[j]
  BY <1>4, <1>5, <1>7, <1>10
<1> QED BY <1>2, <1>4, <1>5, <1>6, <1>7, <1>9, <1>10, <1>11, <1>12 DEF i, j, n

LEMMA StartInv ==
  ASSUME RInv, NEW i \in Hdl \ Busy, NEW sz \in ReqSizes, ReallocStart(i, sz)
  PROVE  RInv'
<1> DEFINE j == AllocHdl(h, sz, h[i].base >= FourGB)
           e == [i |-> i, j |-> j]
           n == Len(moving)
<1>1. moving \in Seq(Moves) /\ HeldByMoves(h, moving) /\ MovesApart(moving) /\ n \in Nat
  BY DEF RInv
<1>2. /\ j \in Hdl \ Busy /\ j # i
      /\ Good(h', Ram) /\ Keeps(j)
      /\ h'[i].flags = "USED" /\ h'[i].locks = 0
      /\ h'[j].flags = "USED" /\ h'[j].locks = 0
      /\ moving' = Append(moving, e)
  BY StartStep
<1> HIDE DEF j
<1>3. e \in Moves /\ e.i = i /\ e.j = j
  BY <1>2 DEF Moves
<1> HIDE DEF e
<1>4. /\ moving' \in Seq(Moves) /\ Len(moving') = n + 1 /\ moving'[n + 1] = e
      /\ \A k \in 1 .. n : moving'[k] = moving[k]
  BY <1>1, <1>2, <1>3
<1>5. ASSUME NEW k \in 1 .. n
      PROVE  /\ moving[k].i \notin {i, j} /\ moving[k].j \notin {i, j}
             /\ h'[moving[k].i] = h[moving[k].i] /\ h'[moving[k].j] = h[moving[k].j]
  <2>1. moving[k] \in Moves
    BY <1>1
  <2>2. moving[k].i \notin {i, j} /\ moving[k].j \notin {i, j}
    BY <1>1, <1>2, BusyIndex
  <2>3. h[moving[k].i].flags = "USED" /\ h[moving[k].j].flags = "USED"
    BY <1>1 DEF HeldByMoves
  <2> QED BY <1>2, <2>1, <2>2, <2>3 DEF Keeps, Moves
<1>6. HeldByMoves(h', moving')
  <2> SUFFICES ASSUME NEW k \in 1 .. (n + 1)
               PROVE  /\ h'[moving'[k].i].flags = "USED" /\ h'[moving'[k].i].locks = 0
                      /\ h'[moving'[k].j].flags = "USED" /\ h'[moving'[k].j].locks = 0
                      /\ moving'[k].i # moving'[k].j
    BY <1>4 DEF HeldByMoves
  <2>1. CASE k = n + 1
    BY <1>2, <1>3, <1>4, <2>1
  <2>2. CASE k \in 1 .. n
    BY <1>1, <1>4, <1>5, <2>2 DEF HeldByMoves
  <2> QED BY <1>1, <2>1, <2>2
<1>7. MovesApart(moving')
  <2> SUFFICES ASSUME NEW k \in 1 .. (n + 1), NEW l \in 1 .. (n + 1), k # l
               PROVE  {moving'[k].i, moving'[k].j} \cap {moving'[l].i, moving'[l].j} = {}
    BY <1>4 DEF MovesApart
  <2>1. CASE k \in 1 .. n /\ l \in 1 .. n
    BY <1>1, <1>4, <2>1 DEF MovesApart
  <2>2. CASE k = n + 1 /\ l \in 1 .. n
    BY <1>3, <1>4, <1>5, <2>2
  <2>3. CASE k \in 1 .. n /\ l = n + 1
    BY <1>3, <1>4, <1>5, <2>3
  <2> QED BY <1>1, <2>1, <2>2, <2>3
<1> QED BY <1>2, <1>4, <1>6, <1>7 DEF RInv, IInv

LEMMA EndInv ==
  ASSUME RInv, ReallocEnd
  PROVE  RInv'
<1> DEFINE n == Len(moving)
           i == moving[n].i
           j == moving[n].j
<1>1. moving \in Seq(Moves) /\ HeldByMoves(h, moving) /\ MovesApart(moving)
  BY DEF RInv
<1>2. /\ n \in 1 .. Len(moving) /\ Good(h', Ram)
      /\ \A k \in Hdl \ {i, j} : h[k].flags = "USED" => h'[k] = h[k]
      /\ moving' = SubSeq(moving, 1, n - 1)
  BY EndStep
<1>3. /\ moving' \in Seq(Moves) /\ Len(moving') = n - 1
      /\ \A k \in 1 .. (n - 1) : k \in 1 .. Len(moving) /\ moving'[k] = moving[k]
  BY <1>1, <1>2, FrontOfSeq
<1>4. MovesApart(moving')
  BY <1>1, <1>3 DEF MovesApart
<1>5. HeldByMoves(h', moving')
  <2> SUFFICES ASSUME NEW k \in 1 .. (n - 1)
               PROVE  h'[moving[k].i] = h[moving[k].i] /\ h'[moving[k].j] = h[moving[k].j]
    <3> HIDE DEF n, i, j
    <3> QED BY <1>1, <1>3 DEF HeldByMoves
  <2>1. k \in 1 .. Len(moving) /\ k # n
    BY <1>2
  <2>2. moving[k] \in Moves
    BY <1>1, <2>1
  <2>3. moving[k].i \notin {i, j} /\ moving[k].j \notin {i, j}
    BY <1>1, <1>2, <2>1 DEF MovesApart
  <2>4. h[moving[k].i].flags = "USED" /\ h[moving[k].j].flags = "USED"
    BY <1>1, <2>1 DEF HeldByMoves
  <2> QED BY <1>2, <2>2, <2>3, <2>4 DEF Moves
<1> QED BY <1>2, <1>3, <1>4, <1>5 DEF RInv, IInv

-----------------------------------------------------------------------------
(* RInv is inductive.                                                      *)

LEMMA CallInv ==
  ASSUME RInv, NEW i \in Hdl, Good(h', Ram), Keeps(i), i \notin Busy, UNCHANGED moving
  PROVE  RInv'
<1>1. HeldByMoves(h', moving)
  BY OthersKept
<1> QED BY <1>1 DEF RInv, IInv

LEMMA RStep ==
  ASSUME RInv, [RNext]_rvars
  PROVE  \/ \E i \in Hdl : i \notin Busy /\ Good(h', Ram) /\ Keeps(i) /\ UNCHANGED moving
         \/ \E i \in Hdl \ Busy, sz \in ReqSizes : ReallocStart(i, sz)
         \/ ReallocEnd
         \/ UNCHANGED rvars
<1>1. ASSUME NEW sz \in ReqSizes, NEW sext \in BOOLEAN, AllocEmb(sz, sext), UNCHANGED moving
      PROVE  \E i \in Hdl : i \notin Busy /\ Good(h', Ram) /\ Keeps(i) /\ UNCHANGED moving
  <2>1. /\ AllocHdl(h, sz, sext) \in Hdl /\ Keeps(AllocHdl(h, sz, sext))
        /\ h[AllocHdl(h, sz, sext)].flags # "USED"
    BY <1>1, AllocStepKeeps DEF RInv, IInv
  <2>2. AllocHdl(h, sz, sext) \notin Busy
    BY <2>1, AllocIsFresh
  <2>3. Good(h', Ram)
    BY <1>1, NextGood DEF Next, RInv, IInv
  <2> QED BY <1>1, <2>1, <2>2, <2>3
<1>2. ASSUME NEW i \in Hdl \ Busy, UNCHANGED moving,
             \/ FreeEmb(i) \/ LockEmb(i) \/ UnlockEmb(i)
             \/ \E sz \in ReqSizes : ReallocInto(i, sz) \/ ReallocShrink(i, sz)
      PROVE  i \notin Busy /\ Good(h', Ram) /\ Keeps(i) /\ UNCHANGED moving
  <2>1. Keeps(i)
    BY <1>2, CallKeeps DEF RInv, IInv, ReallocEmb
  <2>2. Good(h', Ram)
    BY <1>2, NextGood DEF Next, RInv, IInv
  <2> QED BY <1>2, <2>1, <2>2
<1>3. CASE RNext
  BY <1>1, <1>2, <1>3 DEF RNext
<1> QED BY <1>3

LEMMA RNextInv == RInv /\ [RNext]_rvars => RInv'
<1> SUFFICES ASSUME RInv, [RNext]_rvars PROVE RInv'
  OBVIOUS
<1>1. ASSUME NEW i \in Hdl, i \notin Busy, Good(h', Ram), Keeps(i), UNCHANGED moving PROVE RInv'
  BY <1>1, CallInv
<1>2. ASSUME NEW i \in Hdl \ Busy, NEW sz \in ReqSizes, ReallocStart(i, sz) PROVE RInv'
  BY <1>2, StartInv
<1>3. CASE ReallocEnd
  BY <1>3, EndInv
<1>4. CASE UNCHANGED rvars
  BY <1>4, NextGood DEF rvars, RInv, IInv
<1> QED BY <1>1, <1>2, <1>3, <1>4, RStep

LEMMA RAlways == RSpec => []RInv
<1>1. RInit => RInv
  <2>1. << >> \in Seq(Moves) /\ Len(<< >>) = 0
    OBVIOUS
  <2> QED BY <2>1, BootGood DEF RInit, Init, RInv, IInv, HeldByMoves, MovesApart
<1> QED BY <1>1, RNextInv, PTL DEF RSpec

(* Also while handlers call the allocator in the middle of a copy, at any  *)
(* depth, every entry of xms_handle_array stays well formed and clean.     *)
THEOREM NestedTypeCorrect == RSpec => []TypeOK
<1>1. RInv => TypeOK
  BY DEF RInv, IInv, Good, TypeOK
<1> QED BY <1>1, RAlways, PTL

(* The block that a suspended reallocation has allocated and the one it    *)
(* still holds stay disjoint from whatever the handlers get meanwhile.     *)
THEOREM NestedSafeMemory == RSpec => []NoOverlap
<1>1. RInv => NoOverlap
  BY DEF RInv, IInv, Good, NoOverlap
<1> QED BY <1>1, RAlways, PTL

(* A suspended reallocation loses no memory: its two blocks are in the     *)
(* table until the second half frees one of them.                          *)
THEOREM NestedNothingLost == RSpec => []Complete
<1>1. RInv => Complete
  BY GoodComplete DEF RInv, IInv, Complete
<1> QED BY <1>1, RAlways, PTL

(* A locked block keeps its place also against the second half of a        *)
(* reallocation, which works on handles it chose before the lock was set.  *)
THEOREM NestedLocksHold == RSpec => LockedStays
<1> DEFINE Step == \A i \in Hdl : (h[i].flags = "USED" /\ h[i].locks > 0) =>
                       /\ h'[i].flags = "USED"
                       /\ h'[i].base = h[i].base
                       /\ h'[i].size = h[i].size
<1>1. RInv /\ [RNext]_rvars => [Step]_h
  <2> SUFFICES ASSUME RInv, [RNext]_rvars, NEW i \in Hdl, h[i].flags = "USED", h[i].locks > 0
               PROVE  /\ h'[i].flags = "USED"
                      /\ h'[i].base = h[i].base /\ h'[i].size = h[i].size
    OBVIOUS
  <2>1. ASSUME NEW k \in Hdl, Keeps(k)
        PROVE  /\ h'[i].flags = "USED"
               /\ h'[i].base = h[i].base /\ h'[i].size = h[i].size
    BY <2>1 DEF Keeps
  <2>2. ASSUME NEW k \in Hdl \ Busy, NEW sz \in ReqSizes, ReallocStart(k, sz)
        PROVE  \E j \in Hdl : Keeps(j)
    <3>1. LET j == AllocHdl(h, sz, h[k].base >= FourGB)
          IN  j \in Hdl /\ Keeps(j)
      BY <2>2, StartStep
    <3> QED BY <3>1
  <2>3. CASE ReallocEnd
    <3> DEFINE n == Len(moving)
    <3>1. /\ n \in 1 .. Len(moving)
          /\ \A k \in Hdl \ {moving[n].i, moving[n].j} : h[k].flags = "USED" => h'[k] = h[k]
      BY <2>3, EndStep
    <3>2. h[moving[n].i].locks = 0 /\ h[moving[n].j].locks = 0
      BY <3>1 DEF RInv, HeldByMoves
    <3> QED BY <3>1, <3>2
  <2>4. CASE UNCHANGED rvars
    BY <2>4 DEF rvars
  <2> QED BY <2>1, <2>2, <2>3, <2>4, RStep
<1> HIDE DEF Step
<1>2. RSpec => [][Step]_h
  BY <1>1, RAlways, PTL DEF RSpec
<1> QED BY <1>2 DEF LockedStays, Step

-----------------------------------------------------------------------------
(* The refinement: the calls map to a step of one owner, or to none.       *)

LEMMA ROwnedApart ==
  ASSUME NEW t, Good(t, Ram), NEW H, NEW i \in Hdl,
         NEW own, own = [k \in Hdl |-> IF k \in H THEN {} ELSE Owned(t)[k]]
  PROVE  /\ own \in [Hdl -> SUBSET Ram]
         /\ own[i] \subseteq Ram
         /\ own[i] \cap UNION {own[p] : p \in Hdl \ {i}} = {}
<1>1. \A k \in Hdl : own[k] \subseteq Owned(t)[k] /\ Owned(t)[k] \subseteq Ram
  BY OwnersApart
<1>2. Owned(t)[i] \cap UNION {Owned(t)[p] : p \in Hdl \ {i}} = {}
  BY OwnersApart
<1> QED BY <1>1, <1>2

LEMMA OneOwnerStep ==
  ASSUME Good(h', Ram), NEW i \in Hdl, \A k \in Hdl \ {i} : ROwned'[k] = ROwned[k]
  PROVE  RStore!StoreNext
<1>1. /\ ROwned'[i] \subseteq Ram
      /\ ROwned'[i] \cap UNION {ROwned'[p] : p \in Hdl \ {i}} = {}
  <2>1. ROwned' = [k \in Hdl |-> IF k \in Hidden' THEN {} ELSE Owned(h')[k]]
    BY DEF ROwned
  <2> HIDE DEF ROwned
  <2> QED BY <2>1, ROwnedApart
<1>2. UNION {ROwned'[p] : p \in Hdl \ {i}} = UNION {ROwned[p] : p \in Hdl \ {i}}
  OBVIOUS
<1>3. ROwned' = [ROwned EXCEPT ![i] = ROwned'[i]]
  <2>1. ROwned = [k \in Hdl |-> ROwned[k]] /\ ROwned' = [k \in Hdl |-> ROwned'[k]]
    BY DEF ROwned
  <2> HIDE DEF ROwned
  <2> QED BY <2>1
<1> QED BY <1>1, <1>2, <1>3 DEF RStore!StoreNext, RStore!Serve, RStore!OthersOf

(* xms_ext_realloc_emb in two halves, with any calls of handlers between   *)
(* them, is for the clients one change of the memory of one handle.        *)
THEOREM NestedIsAStore == RSpec => ImplementsStoreNested
<1>1. RInit => RStore!StoreInit
  <2> SUFFICES ASSUME RInit PROVE RStore!StoreInit
    OBVIOUS
  <2>1. Good(h, Ram)
    BY BootGood DEF RInit, Init
  <2>2. ROwned = [k \in Hdl |-> IF k \in Hidden THEN {} ELSE Owned(h)[k]]
    BY DEF ROwned
  <2> HIDE DEF ROwned
  <2>3. \A i \in Hdl : /\ ROwned \in [Hdl -> SUBSET Ram]
                       /\ ROwned[i] \cap UNION {ROwned[p] : p \in Hdl \ {i}} = {}
    <3> DEFINE own == ROwned
    <3>1. own = [k \in Hdl |-> IF k \in Hidden THEN {} ELSE Owned(h)[k]]
      BY <2>2
    <3> HIDE DEF own
    <3>2. \A i \in Hdl : own \in [Hdl -> SUBSET Ram]
      BY <2>1, <3>1, ROwnedApart
    <3>3. \A i \in Hdl : own[i] \cap UNION {own[p] : p \in Hdl \ {i}} = {}
      BY <2>1, <3>1, ROwnedApart
    <3> QED BY <3>2, <3>3 DEF own
  <2>4. 1 \in Hdl
    BY XmsAssumption DEF Hdl
  <2> QED BY <2>3, <2>4 DEF RStore!StoreInit, RStore!OthersOf
<1>2. ASSUME RInv, RInv', [RNext]_rvars
      PROVE  RStore!StoreNext \/ UNCHANGED ROwned
  <2>1. /\ moving \in Seq(Moves) /\ HeldByMoves(h, moving) /\ Good(h, Ram) /\ Good(h', Ram)
        /\ moving' \in Seq(Moves)
        /\ h \in [Hdl -> Emb] /\ h' \in [Hdl -> Emb]
    BY <1>2 DEF RInv, IInv, Good
  <2>2. ASSUME NEW i \in Hdl, i \notin Busy, Keeps(i), UNCHANGED moving
        PROVE  RStore!StoreNext
    <3>1. Hidden' = Hidden
      BY <2>2 DEF Hidden
    <3>2. ASSUME NEW k \in Hdl \ {i} PROVE Owned(h')[k] = Owned(h)[k]
      BY <2>2, <3>2 DEF Keeps, Owned, Ends
    <3>3. \A k \in Hdl \ {i} : ROwned'[k] = ROwned[k]
      BY <3>1, <3>2 DEF ROwned
    <3> QED BY <2>1, <3>3, OneOwnerStep
  <2>3. ASSUME NEW i \in Hdl \ Busy, NEW sz \in ReqSizes, ReallocStart(i, sz)
        PROVE  RStore!StoreNext
    <3> DEFINE j == AllocHdl(h, sz, h[i].base >= FourGB)
               e == [i |-> i, j |-> j]
    <3>1. j \in Hdl /\ Keeps(j) /\ h[j].flags # "USED" /\ moving' = Append(moving, e)
      BY <1>2, <2>3, StartStep
    <3> HIDE DEF j
    <3>2. e.j = j /\ e \in Moves
      BY <3>1 DEF Moves
    <3> HIDE DEF e
    <3>3. /\ DOMAIN moving' = 1 .. (Len(moving) + 1) /\ DOMAIN moving = 1 .. Len(moving)
          /\ moving'[Len(moving) + 1] = e
          /\ \A k \in 1 .. Len(moving) : moving'[k] = moving[k]
          /\ Len(moving) \in Nat
      BY <2>1, <3>1, <3>2
    <3>4. Hidden' = Hidden \cup {j}
      BY <3>2, <3>3 DEF Hidden
    <3>5. ASSUME NEW k \in Hdl \ {j} PROVE Owned(h')[k] = Owned(h)[k]
      BY <3>1, <3>5 DEF Keeps, Owned, Ends
    <3>6. \A k \in Hdl \ {j} : ROwned'[k] = ROwned[k]
      BY <3>4, <3>5 DEF ROwned
    <3> QED BY <2>1, <3>1, <3>6, OneOwnerStep
  <2>4. CASE ReallocEnd
    <3> DEFINE n == Len(moving)
               i == moving[n].i
               j == moving[n].j
    <3>1. /\ n \in 1 .. Len(moving) /\ i \in Hdl /\ j \in Hdl
          /\ h'[j].flags # "USED"
          /\ \A k \in Hdl \ {i, j} : h[k].flags = "USED" => h'[k] = h[k]
          /\ \A k \in Hdl \ {i, j} : h'[k].flags = "USED" => h[k].flags = "USED"
          /\ moving' = SubSeq(moving, 1, n - 1)
      BY <1>2, <2>4, EndStep
    <3>2. /\ Len(moving') = n - 1
          /\ \A k \in 1 .. (n - 1) : k \in 1 .. Len(moving) /\ moving'[k] = moving[k]
      <4>1. moving \in Seq(Moves) /\ n = Len(moving) /\ n \in 1 .. Len(moving)
        BY <2>1, <3>1
      <4> HIDE DEF n
      <4> QED BY <3>1, <4>1, FrontOfSeq
    <3> HIDE DEF i
    <3>3. Hidden = Hidden' \cup {j}
      <4>1. DOMAIN moving' = 1 .. (n - 1) /\ DOMAIN moving = 1 .. n
        BY <2>1, <3>2
      <4>2. n \in 1 .. n /\ \A k \in 1 .. n : k = n \/ k \in 1 .. (n - 1)
        BY <3>1
      <4>3. Hidden = {moving[k].j : k \in 1 .. n} /\ Hidden' = {moving'[k].j : k \in 1 .. (n - 1)}
        BY <4>1 DEF Hidden
      <4>4. Hidden' = {moving[k].j : k \in 1 .. (n - 1)}
        BY <3>2, <4>3
      <4>5. \A k \in 1 .. (n - 1) : k \in 1 .. n
        BY <3>2
      <4>6. j = moving[n].j
        OBVIOUS
      <4> HIDE DEF n, j
      <4> QED BY <4>2, <4>3, <4>4, <4>5, <4>6
    <3> HIDE DEF j
    <3>4. ASSUME NEW k \in Hdl \ {i, j} PROVE Owned(h')[k] = Owned(h)[k]
      BY <3>1, <3>4 DEF Owned, Ends
    <3>5. Owned(h')[j] = {}
      BY <3>1 DEF Owned
    <3>6. \A k \in Hdl \ {i} : ROwned'[k] = ROwned[k]
      BY <3>3, <3>4, <3>5 DEF ROwned
    <3> QED BY <2>1, <3>1, <3>6, OneOwnerStep
  <2>5. CASE UNCHANGED rvars
    BY <2>5 DEF rvars, ROwned, Owned, Hidden, Ends
  <2> QED BY <1>2, <2>2, <2>3, <2>4, <2>5, RStep
<1>3. RInv /\ RInv' /\ [RNext]_rvars => [RStore!StoreNext]_ROwned
  BY <1>2
<1> QED BY <1>1, <1>3, RAlways, PTL DEF RSpec, ImplementsStoreNested, RStore!StoreSpec

-----------------------------------------------------------------------------

UmbEntry == [segm : Nat, size : Nat, used : BOOLEAN]

(* A table of blocks: blank entries are blank, the others are the memory,  *)
(* and only what the resident part took wholly may be empty.               *)
Tiles(t) ==
  /\ \A i, j \in Entry : i # j => Area(t[i]) \cap Area(t[j]) = {}
  /\ UNION {Area(t[i]) : i \in Entry} = Memory
EmptyAtEnd(t) ==
  \A i \in Entry : t[i].segm # 0 /\ t[i].size = 0 => i = High /\ t[i].segm \notin Memory
GoodTab(t) ==
  /\ t \in [Entry -> UmbEntry]
  /\ \A i \in Entry : t[i].segm = 0 => t[i] = BlankUmb
  /\ EmptyAtEnd(t) /\ Tiles(t)

(* What clients hold, and what is in use, by the segments.                 *)
GoodHeld(t, hs) ==
  /\ hs \subseteq [segm : Nat, size : Sizes]
  /\ \A b \in hs : \E i \in Entry : t[i].used /\ t[i].segm = b.segm /\ b.size <= t[i].size
  /\ \A i \in Entry : t[i].used =>
       (Joined /\ i = 1) \/ \E b \in hs : b.segm = t[i].segm

UInv == GoodTab(umb) /\ GoodHeld(umb, held) /\ LargestOffered
-----------------------------------------------------------------------------
(* UMB_Init.  The run of pages that begins at p ends at LastPage(p).       *)
LEMMA RunEnds ==
  ASSUME NEW p \in Starts
  PROVE  /\ p \in Nat \ {0} /\ p \in Pages /\ PageMap[p] \in Nat /\ PageMap[p] < PageP
         /\ LastPage(p) \in Pages /\ LastPage(p) \in Nat /\ p <= LastPage(p)
         /\ \A r \in (p + 1) .. LastPage(p) : PageMap[r] = 0
         /\ LastPage(p) + 1 \in Pages => PageMap[LastPage(p) + 1] > 0
<1> DEFINE Q == {q \in Pages : q >= p /\ \A r \in (p + 1) .. q : PageMap[r] = 0}
<1>1. p \in Nat \ {0} /\ p \in Pages /\ PageMap[p] \in Nat /\ PageMap[p] < PageP
  <2>1. p \in Pages /\ PageMap[p] < PageP
    BY DEF Starts
  <2>2. p \in 1 .. 255 /\ PageMap[p] \in 0 .. PageP /\ PageP \in Nat
    BY <2>1, UmbAssumption
  <2> QED BY <2>1, <2>2
<1>2. PICK q \in Q : \A r \in Q : r <= q
  <2>1. \A r \in Pages : r \in Nat /\ r <= 255
    BY UmbAssumption
  <2>2. Q \in SUBSET Nat /\ \A r \in Q : r <= 255
    BY <2>1
  <2>3. p \in Q
    BY <1>1
  <2> HIDE DEF Q
  <2> QED BY <2>2, <2>3, GreatestNat
<1>3. q \in Nat /\ q \in Pages
  <2>1. q \in Pages
    BY <1>2
  <2>2. Pages \subseteq 1 .. 255
    BY UmbAssumption
  <2> QED BY <2>1, <2>2
<1>4. ASSUME q + 1 \in Pages PROVE PageMap[q + 1] > 0
  <2>1. PageMap[q + 1] \in Nat /\ q + 1 \notin Q
    BY <1>2, <1>3, <1>4, UmbAssumption
  <2>2. PageMap[q + 1] # 0
    BY <1>1, <1>2, <1>3, <1>4, <2>1
  <2> QED BY <2>1, <2>2
<1> DEFINE RunsTo(e) == /\ e >= p
                        /\ \A r \in (p + 1) .. e : PageMap[r] = 0
                        /\ e + 1 \in Pages => PageMap[e + 1] > 0
<1>5. q \in Pages /\ RunsTo(q)
  BY <1>2, <1>3, <1>4
<1>6. LastPage(p) \in Pages /\ RunsTo(LastPage(p))
  <2>1. LastPage(p) = CHOOSE e \in Pages : RunsTo(e)
    BY DEF LastPage
  <2> HIDE DEF RunsTo
  <2> QED BY <1>5, <2>1
<1>7. LastPage(p) \in Nat
  <2>1. LastPage(p) \in 1 .. 255
    BY <1>6, UmbAssumption
  <2> QED BY <2>1
<1> QED BY <1>1, <1>6, <1>7

SegmOf(p) == p * PageP + PageMap[p]
EndOf(p) == (LastPage(p) + 1) * PageP

(* Multiples of a page's size.                                             *)
LEMMA Multiples ==
  ASSUME NEW a \in Nat, NEW b \in Nat, a < b
  PROVE  /\ a * PageP \in Nat /\ b * PageP \in Nat /\ (a + 1) * PageP \in Nat
         /\ (a + 1) * PageP = a * PageP + PageP /\ (a + 1) * PageP <= b * PageP
<1>1. PageP \in Nat
  BY UmbAssumption
<1>2. PICK d \in Nat : b = (a + 1) + d
  <2>1. b - (a + 1) \in Nat /\ b = (a + 1) + (b - (a + 1))
    OBVIOUS
  <2> QED BY <2>1
<1>3. a * PageP \in Nat /\ b * PageP \in Nat /\ (a + 1) * PageP \in Nat /\ d * PageP \in Nat
  BY <1>1
<1>4. b * PageP = (a + 1) * PageP + d * PageP /\ (a + 1) * PageP = a * PageP + PageP
  BY <1>1, <1>2
<1> QED BY <1>3, <1>4

(* A run has memory, above address 0.                                      *)
LEMMA RunHasMemory ==
  ASSUME NEW p \in Starts
  PROVE  SegmOf(p) \in Nat \ {0} /\ EndOf(p) \in Nat /\ SegmOf(p) < EndOf(p)
<1>1. p \in Nat \ {0} /\ PageMap[p] \in Nat /\ PageMap[p] < PageP /\ PageP \in Nat \ {0}
      /\ LastPage(p) \in Nat /\ p < LastPage(p) + 1
  BY RunEnds, UmbAssumption
<1>2. /\ p * PageP \in Nat /\ (LastPage(p) + 1) * PageP \in Nat
      /\ (p + 1) * PageP = p * PageP + PageP /\ (p + 1) * PageP <= (LastPage(p) + 1) * PageP
  BY <1>1, Multiples
<1>3. PageP <= p * PageP
  <2>1. 0 < p /\ (0 + 1) * PageP = PageP
    BY <1>1
  <2> QED BY <1>1, <2>1, Multiples
<1> QED BY <1>1, <1>2, <1>3 DEF SegmOf, EndOf

(* Two runs do not even touch: the later one begins with a split page, or  *)
(* behind a page without memory.                                           *)
LEMMA RunsApart ==
  ASSUME NEW p \in Starts, NEW r \in Starts, p < r
  PROVE  EndOf(p) < SegmOf(r)
<1> DEFINE e == LastPage(p) + 1
<1>1. /\ p \in Nat /\ r \in Nat /\ r \in Pages /\ e \in Nat /\ p < e /\ PageP \in Nat \ {0}
      /\ PageMap[r] \in Nat
  BY RunEnds, UmbAssumption
<1>2. ASSUME r < e PROVE FALSE
  <2>1. r \in (p + 1) .. LastPage(p) /\ PageMap[r] = 0
    BY <1>1, <1>2, RunEnds
  <2>2. r - 1 \in Pages /\ r - 1 \in Nat
    <3>1. r - 1 \in p .. r /\ p .. r \subseteq Pages
      BY <1>1, RunEnds, UmbAssumption
    <3> QED BY <1>1, <3>1
  <2>3. PageMap[r - 1] = PageP
    BY <2>1, <2>2 DEF Starts
  <2>4. r - 1 # p
    BY <2>3, <1>1, RunEnds
  <2>5. r - 1 \in (p + 1) .. LastPage(p)
    <3>1. r \in Nat /\ p \in Nat /\ LastPage(p) \in Nat
      BY RunEnds
    <3> QED BY <3>1, <2>1, <2>4
  <2> QED BY <2>3, <2>5, <1>1, RunEnds
<1>3. CASE e = r
  <2>1. PageMap[r] > 0
    BY <1>1, <1>3, RunEnds
  <2>2. r * PageP \in Nat
    BY <1>1
  <2> QED BY <1>1, <1>3, <2>1, <2>2 DEF EndOf, SegmOf
<1>4. CASE e < r
  <2>1. (e + 1) * PageP = e * PageP + PageP /\ (e + 1) * PageP <= r * PageP
        /\ e * PageP \in Nat /\ r * PageP \in Nat
    BY <1>1, <1>4, Multiples
  <2> QED BY <1>1, <2>1 DEF EndOf, SegmOf
<1> HIDE DEF e
<1> QED BY <1>1, <1>2, <1>3, <1>4

(* The table that UMB_Init makes.                                          *)
UmbEnds(t, i) == t[i].segm + t[i].size
LEMMA BootBlocks ==
  /\ BootTable \in [Entry -> UmbEntry]
  /\ \A i \in Entry : ~BootTable[i].used
  /\ \A i \in Entry : BootTable[i] = BlankUmb \/ (BootTable[i].segm > 0 /\ BootTable[i].size > 0)
  /\ \A i, j \in Entry : i # j /\ BootTable[i].segm # 0 /\ BootTable[j].segm # 0 =>
       UmbEnds(BootTable, i) < BootTable[j].segm \/ UmbEnds(BootTable, j) < BootTable[i].segm
<1> DEFINE S(i) == CHOOSE q \in Found(i) : TRUE
           E(p) == [segm |-> SegmOf(p), size |-> EndOf(p) - SegmOf(p), used |-> FALSE]
<1>1. \A i \in Entry : BootTable[i] = IF Found(i) = {} THEN BlankUmb ELSE E(S(i))
  BY DEF BootTable, SegmOf, EndOf
<1>2. DOMAIN BootTable = Entry /\ BootTable = [i \in Entry |-> BootTable[i]]
  BY DEF BootTable
<1>3. ASSUME NEW i \in Entry, Found(i) # {} PROVE S(i) \in Found(i) /\ S(i) \in Starts
  BY <1>3 DEF Found
<1>4. ASSUME NEW p \in Starts
      PROVE  E(p) \in UmbEntry /\ E(p).segm > 0 /\ E(p).size > 0 /\ ~E(p).used
             /\ E(p).segm = SegmOf(p) /\ E(p).segm + E(p).size = EndOf(p)
  BY RunHasMemory DEF UmbEntry
<1>5. BlankUmb \in UmbEntry /\ ~BlankUmb.used /\ BlankUmb.segm = 0
  BY DEF BlankUmb, UmbEntry
<1>6. ASSUME NEW i \in Entry, NEW j \in Entry, i # j,
             BootTable[i].segm # 0, BootTable[j].segm # 0
      PROVE  UmbEnds(BootTable, i) < BootTable[j].segm \/ UmbEnds(BootTable, j) < BootTable[i].segm
  <2> HIDE DEF S, E
  <2>1. Found(i) # {} /\ Found(j) # {}
    BY <1>1, <1>5, <1>6
  <2>2. S(i) \in Found(i) /\ S(j) \in Found(j) /\ S(i) \in Starts /\ S(j) \in Starts
    BY <1>3, <2>1
  <2>3. S(i) # S(j)
    <3>1. Cardinality({q \in Starts : q < S(i)}) = i - 1 /\ Cardinality({q \in Starts : q < S(j)}) = j - 1
      BY <2>2 DEF Found
    <3>2. i - 1 # j - 1
      BY <1>6 DEF Entry
    <3> QED BY <3>1, <3>2
  <2>4. S(i) \in Nat /\ S(j) \in Nat
    BY <2>2, RunEnds
  <2>5. S(i) < S(j) \/ S(j) < S(i)
    BY <2>3, <2>4
  <2>6. EndOf(S(i)) < SegmOf(S(j)) \/ EndOf(S(j)) < SegmOf(S(i))
    BY <2>2, <2>5, RunsApart
  <2>7. /\ UmbEnds(BootTable, i) = EndOf(S(i)) /\ BootTable[i].segm = SegmOf(S(i))
        /\ UmbEnds(BootTable, j) = EndOf(S(j)) /\ BootTable[j].segm = SegmOf(S(j))
    BY <1>1, <1>4, <2>1, <2>2 DEF UmbEnds
  <2> QED BY <2>6, <2>7
<1>7. ASSUME NEW i \in Entry
      PROVE  /\ BootTable[i] \in UmbEntry /\ ~BootTable[i].used
             /\ BootTable[i] = BlankUmb \/ (BootTable[i].segm > 0 /\ BootTable[i].size > 0)
  <2> HIDE DEF S, E
  <2> QED BY <1>1, <1>3, <1>4, <1>5
<1> QED BY <1>2, <1>6, <1>7

(* A block ends below 1 MB, and its size leaves the flag bit free.         *)
LEMMA BlockBounds ==
  ASSUME NEW i \in Entry
  PROVE  BootTable[i].size < UMB_ALLOCATED /\ UmbEnds(BootTable, i) < Word
<1>1. CASE Found(i) = {}
  <2>1. BootTable[i] = BlankUmb
    BY <1>1 DEF BootTable
  <2> QED BY <2>1 DEF BlankUmb, UmbEnds, Word, UMB_ALLOCATED
<1>2. CASE Found(i) # {}
  <2>1. PICK p \in Found(i) : p = CHOOSE q \in Found(i) : TRUE
    BY <1>2
  <2>2. p \in Starts /\ BootTable[i] = [segm |-> SegmOf(p), size |-> EndOf(p) - SegmOf(p), used |-> FALSE]
    BY <1>2, <2>1 DEF BootTable, Found, SegmOf, EndOf
  <2>3. p \in Pages /\ p \in Nat /\ LastPage(p) \in Pages /\ PageMap[p] \in Nat
    BY <2>2, RunEnds, UmbAssumption
  <2>4. EndOf(p) < p * PageP + UMB_ALLOCATED /\ EndOf(p) < Word
    <3>1. (LastPage(p) + 1) * PageP < Word
      BY <2>3, UmbWords
    <3>2. (LastPage(p) + 1) * PageP < p * PageP + UMB_ALLOCATED
      BY <2>3, UmbWords
    <3> QED BY <3>1, <3>2 DEF EndOf
  <2>5. SegmOf(p) = p * PageP + PageMap[p] /\ p * PageP \in Nat /\ EndOf(p) \in Nat /\ SegmOf(p) \in Nat
    BY <2>2, <2>3, RunHasMemory, UmbAssumption DEF SegmOf
  <2>6. BootTable[i].size = EndOf(p) - SegmOf(p) /\ UmbEnds(BootTable, i) = EndOf(p)
    BY <2>2, <2>5 DEF UmbEnds
  <2> QED BY <2>3, <2>4, <2>5, <2>6 DEF UMB_ALLOCATED
<1> QED BY <1>1, <1>2

(* Without split pages every block is at least a page, so a resident part  *)
(* of a page or less fits.                                                 *)
LEMMA WholePagesFit ==
  ASSUME ResSize <= PageP, \A p \in Pages : PageMap[p] \in {0, PageP}
  PROVE  ResidentFits
<1> SUFFICES ASSUME MovesHigh PROVE ResSize <= BootTable[High].size
  BY DEF ResidentFits
<1>1. High \in Entry /\ BootTable[High].segm # 0
  BY DEF MovesHigh
<1>2. Found(High) # {}
  BY <1>1 DEF BootTable, BlankUmb
<1>3. PICK p \in Found(High) : p = CHOOSE q \in Found(High) : TRUE
  BY <1>2
<1>4. p \in Starts /\ BootTable[High].size = EndOf(p) - SegmOf(p)
  BY <1>1, <1>2, <1>3 DEF BootTable, Found, SegmOf, EndOf
<1>5. p \in Pages /\ p \in Nat /\ PageMap[p] = 0 /\ LastPage(p) \in Nat /\ p < LastPage(p) + 1
  BY <1>4, RunEnds, UmbAssumption DEF Starts
<1>6. /\ p * PageP \in Nat /\ (LastPage(p) + 1) * PageP \in Nat
      /\ (p + 1) * PageP = p * PageP + PageP /\ (p + 1) * PageP <= (LastPage(p) + 1) * PageP
  BY <1>5, Multiples
<1>7. SegmOf(p) = p * PageP /\ EndOf(p) = (LastPage(p) + 1) * PageP
  BY <1>5, <1>6 DEF SegmOf, EndOf
<1>8. ResSize \in Nat /\ PageP \in Nat
  BY UmbAssumption
<1> QED BY <1>4, <1>6, <1>7, <1>8

(* So no word wraps around if the resident part fits.                      *)
LEMMA InitEntry ==
  ASSUME ResidentFits, NEW i \in Entry
  PROVE  LET r == IF MovesHigh /\ i = High THEN ResSize ELSE 0
         IN  InitTable[i] = [segm |-> BootTable[i].segm + r, size |-> BootTable[i].size - r,
                             used |-> Joined /\ i = 1]
<1>1. BootTable[i].segm \in Nat /\ BootTable[i].size \in Nat
  BY BootBlocks DEF UmbEntry
<1>2. CASE MovesHigh /\ i = High
  <2>1. ResSize \in Nat /\ ResSize <= BootTable[i].size
    BY <1>2, UmbAssumption DEF ResidentFits
  <2>2. BootTable[i].size < 32768 /\ BootTable[i].segm + BootTable[i].size < 65536
    BY BlockBounds DEF UMB_ALLOCATED, Word, UmbEnds
  <2>3. (BootTable[i].segm + ResSize) % 65536 = BootTable[i].segm + ResSize
    BY <1>1, <2>1, <2>2
  <2>4. (65536 + BootTable[i].size - ResSize) % 65536 = BootTable[i].size - ResSize
    BY <1>1, <2>1, <2>2
  <2>5. (BootTable[i].size - ResSize) % 32768 = BootTable[i].size - ResSize
        /\ ~(BootTable[i].size - ResSize >= 32768)
    BY <1>1, <2>1, <2>2
  <2>6. (Joined /\ i = 1) = FALSE
    BY <1>2 DEF High
  <2>7. HighLeft = BootTable[i].size - ResSize
    BY <1>2, <2>4 DEF HighLeft, Word
  <2>8. InitTable[i] = [segm |-> (BootTable[i].segm + ResSize) % 65536,
                        size |-> HighLeft % 32768, used |-> HighLeft >= 32768]
    BY <1>2 DEF InitTable, Word, UMB_ALLOCATED
  <2>9. (HighLeft >= 32768) = FALSE
    BY <2>5, <2>7
  <2> QED BY <1>2, <2>3, <2>5, <2>6, <2>7, <2>8, <2>9
<1>3. CASE ~(MovesHigh /\ i = High)
  BY <1>1, <1>3 DEF InitTable
<1> QED BY <1>2, <1>3

(* What the resident part leaves of it.                                    *)
LEMMA UmbInitGood ==
  ASSUME ResidentFits
  PROVE  GoodTab(InitTable)
<1> DEFINE B == BootTable
           T == InitTable
           R(i) == IF MovesHigh /\ i = High THEN ResSize ELSE 0
<1>1. /\ B \in [Entry -> UmbEntry] /\ \A i \in Entry : ~B[i].used
      /\ \A i \in Entry : B[i] = BlankUmb \/ (B[i].segm > 0 /\ B[i].size > 0)
      /\ \A i, j \in Entry : i # j /\ B[i].segm # 0 /\ B[j].segm # 0 =>
           UmbEnds(B, i) < B[j].segm \/ UmbEnds(B, j) < B[i].segm
  BY BootBlocks
<1>2. ASSUME NEW i \in Entry
      PROVE  /\ B[i].segm \in Nat /\ B[i].size \in Nat /\ R(i) \in Nat /\ R(i) <= B[i].size
             /\ R(i) # 0 => MovesHigh /\ i = High /\ B[i].segm # 0
             /\ B[i].segm = 0 => B[i].size = 0
             /\ B[i].size = 0 => B[i].segm = 0
             /\ T[i] = [segm |-> B[i].segm + R(i), size |-> B[i].size - R(i), used |-> Joined /\ i = 1]
             /\ Joined /\ i = 1 => B[i].segm # 0
  <2>1. B[i].segm \in Nat /\ B[i].size \in Nat
    BY <1>1 DEF UmbEntry
  <2>2. R(i) \in Nat /\ R(i) <= B[i].size /\ (R(i) # 0 => MovesHigh /\ i = High /\ B[i].segm # 0)
    BY <2>1, UmbAssumption DEF MovesHigh, ResidentFits
  <2>3. (B[i].segm = 0 => B[i].size = 0) /\ (B[i].size = 0 => B[i].segm = 0)
    BY <1>1, <2>1 DEF BlankUmb
  <2>4. T[i] = [segm |-> B[i].segm + R(i), size |-> B[i].size - R(i), used |-> Joined /\ i = 1]
    BY InitEntry
  <2>5. Joined /\ i = 1 => B[i].segm # 0
    BY UmbAssumption DEF Joined
  <2> HIDE DEF R, T, B
  <2> QED BY <2>1, <2>2, <2>3, <2>4, <2>5
<1>3. DOMAIN T = Entry /\ T = [i \in Entry |-> T[i]]
  BY DEF InitTable
<1>4. ASSUME NEW a
      PROVE  a \in Memory <=> a \notin Resident /\ \E i \in Entry : a \in Area(B[i])
  <2> DEFINE U == UNION {Area(B[i]) : i \in Entry}
  <2>1. Memory = U \ Resident
    BY DEF Memory
  <2>2. a \in U <=> \E i \in Entry : a \in Area(B[i])
    <3> HIDE DEF B
    <3> QED OBVIOUS
  <2> HIDE DEF U, B
  <2> QED BY <2>1, <2>2
<1>5. Resident = IF MovesHigh THEN B[High].segm .. (B[High].segm + ResSize - 1) ELSE {}
  BY DEF Resident
<1> HIDE DEF B, T
<1>6. ASSUME NEW i \in Entry
      PROVE  /\ T[i] \in UmbEntry /\ T[i].segm = B[i].segm + R(i) /\ T[i].size = B[i].size - R(i)
             /\ UmbEnds(T, i) = UmbEnds(B, i)
             /\ T[i].segm = 0 => T[i] = BlankUmb
  <2> HIDE DEF R
  <2>1. T[i] = [segm |-> B[i].segm + R(i), size |-> B[i].size - R(i), used |-> Joined /\ i = 1]
        /\ B[i].segm \in Nat /\ B[i].size \in Nat /\ R(i) \in Nat /\ R(i) <= B[i].size
    BY <1>2
  <2>2. T[i].segm = B[i].segm + R(i) /\ T[i].size = B[i].size - R(i)
        /\ T[i].used = (Joined /\ i = 1)
    BY <2>1
  <2>3. T[i].segm = 0 => B[i].segm = 0 /\ R(i) = 0 /\ B[i].size = 0 /\ ~(Joined /\ i = 1)
    BY <2>1, <2>2, <1>2
  <2>4. ASSUME T[i].segm = 0 PROVE T[i] = BlankUmb
    <3>1. B[i].segm + R(i) = 0 /\ B[i].size - R(i) = 0 /\ (Joined /\ i = 1) = FALSE
      BY <2>1, <2>3, <2>4
    <3> QED BY <2>1, <3>1 DEF BlankUmb
  <2>5. T[i] \in UmbEntry
    BY <2>1 DEF UmbEntry
  <2>6. UmbEnds(T, i) = UmbEnds(B, i)
    BY <2>1, <2>2 DEF UmbEnds
  <2> QED BY <2>2, <2>4, <2>5, <2>6
<1>13. ASSUME NEW i \in Entry
       PROVE  /\ B[i].segm \in Nat /\ B[i].size \in Nat /\ R(i) \in Nat /\ R(i) <= B[i].size
              /\ UmbEnds(B, i) \in Nat /\ UmbEnds(B, i) = B[i].segm + B[i].size
              /\ B[i].segm + R(i) <= UmbEnds(B, i) /\ B[i].segm <= UmbEnds(B, i)
  <2> HIDE DEF R
  <2>1. B[i].segm \in Nat /\ B[i].size \in Nat /\ R(i) \in Nat /\ R(i) <= B[i].size
    BY <1>2
  <2> QED BY <2>1 DEF UmbEnds
<1>7. ASSUME NEW i \in Entry, NEW a
      PROVE  /\ a \in Area(T[i]) <=> a \in Nat /\ B[i].segm + R(i) <= a /\ a < UmbEnds(B, i)
             /\ a \in Area(B[i]) <=> a \in Nat /\ B[i].segm <= a /\ a < UmbEnds(B, i)
  <2> HIDE DEF R
  <2>1. B[i].segm \in Nat /\ B[i].size \in Nat /\ R(i) \in Nat /\ R(i) <= B[i].size
        /\ T[i].segm = B[i].segm + R(i) /\ T[i].size = B[i].size - R(i)
    BY <1>2, <1>6
  <2> QED BY <2>1 DEF Area, UmbEnds
<1>8. \A i, j \in Entry : i # j => Area(T[i]) \cap Area(T[j]) = {}
  <2> SUFFICES ASSUME NEW i \in Entry, NEW j \in Entry, i # j,
                      NEW a \in Area(T[i]), a \in Area(T[j])
               PROVE  FALSE
    OBVIOUS
  <2>1. /\ a \in Nat /\ B[i].segm + R(i) <= a /\ a < UmbEnds(B, i)
        /\ B[j].segm + R(j) <= a /\ a < UmbEnds(B, j)
    <3> HIDE DEF R
    <3> QED BY <1>7
  <2>2. B[i].segm # 0 /\ B[j].segm # 0 /\ B[i].segm <= a /\ B[j].segm <= a
        /\ UmbEnds(B, i) \in Nat /\ UmbEnds(B, j) \in Nat
    <3> HIDE DEF R
    <3>1. B[i].segm \in Nat /\ B[i].size \in Nat /\ R(i) \in Nat /\ UmbEnds(B, i) = B[i].segm + B[i].size
          /\ B[j].segm \in Nat /\ B[j].size \in Nat /\ R(j) \in Nat /\ UmbEnds(B, j) = B[j].segm + B[j].size
      BY <1>13
    <3>2. B[i].size # 0 /\ B[j].size # 0
      BY <2>1, <3>1
    <3>3. B[i].segm # 0 /\ B[j].segm # 0
      BY <1>2, <3>2
    <3> QED BY <2>1, <3>1, <3>3
  <2>3. UmbEnds(B, i) < B[j].segm \/ UmbEnds(B, j) < B[i].segm
    BY <1>1, <2>2
  <2>4. B[i].segm \in Nat /\ B[j].segm \in Nat
    <3> HIDE DEF R
    <3> QED BY <1>2
  <2> QED BY <2>1, <2>2, <2>3, <2>4
<1>9. ASSUME NEW i \in Entry, NEW a, a \in Area(B[i])
      PROVE  a \in Resident <=> a \notin Area(T[i])
  <2>1. a \in Nat /\ B[i].segm <= a /\ a < UmbEnds(B, i) /\ B[i].segm \in Nat /\ UmbEnds(B, i) \in Nat
        /\ B[i].segm # 0 /\ R(i) \in Nat
    <3> HIDE DEF R
    <3>1. a \in Nat /\ B[i].segm <= a /\ a < UmbEnds(B, i) /\ R(i) \in Nat
          /\ B[i].segm \in Nat /\ UmbEnds(B, i) \in Nat /\ UmbEnds(B, i) = B[i].segm + B[i].size
      BY <1>7, <1>9, <1>13
    <3>2. B[i].size # 0
      BY <3>1
    <3> QED BY <1>2, <3>1, <3>2
  <2>2. a \notin Area(T[i]) <=> a < B[i].segm + R(i)
    <3> HIDE DEF R
    <3> QED BY <2>1, <1>7
  <2>3. CASE MovesHigh
    <3>1. High \in Entry /\ B[High].segm # 0 /\ ResSize \in Nat
      BY <2>3, UmbAssumption DEF MovesHigh, B
    <3>2. B[High].segm \in Nat /\ B[High].segm + ResSize <= UmbEnds(B, High) /\ UmbEnds(B, High) \in Nat
      BY <3>1, <1>13, <2>3
    <3>3. CASE i = High
      BY <2>1, <2>2, <2>3, <3>1, <3>3, <1>5
    <3>4. CASE i # High
      <4>1. UmbEnds(B, i) < B[High].segm \/ UmbEnds(B, High) < B[i].segm
        BY <1>1, <2>1, <3>1, <3>4
      <4>2. a \notin Resident
        BY <1>5, <2>1, <2>3, <3>1, <3>2, <4>1
      <4> QED BY <2>1, <2>2, <4>2, <3>4
    <3> QED BY <3>3, <3>4
  <2>4. CASE ~MovesHigh
    BY <2>1, <2>2, <2>4, <1>5
  <2> QED BY <2>3, <2>4
<1>10. \A i \in Entry : Area(T[i]) \subseteq Area(B[i])
  <2> SUFFICES ASSUME NEW i \in Entry, NEW a \in Area(T[i]) PROVE a \in Area(B[i])
    OBVIOUS
  <2> HIDE DEF R
  <2>1. B[i].segm \in Nat /\ R(i) \in Nat
    BY <1>2
  <2> QED BY <1>7, <2>1
<1>11. UNION {Area(T[i]) : i \in Entry} = Memory
  <2>1. ASSUME NEW i \in Entry, NEW a \in Area(T[i]) PROVE a \in Memory
    <3>1. a \in Area(B[i])
      BY <1>10, <2>1
    <3>2. a \notin Resident
      BY <1>9, <2>1, <3>1
    <3> QED BY <1>4, <3>1, <3>2
  <2>2. ASSUME NEW a \in Memory PROVE a \in UNION {Area(T[i]) : i \in Entry}
    <3>1. PICK i \in Entry : a \in Area(B[i])
      BY <1>4, <2>2
    <3>2. a \notin Resident
      BY <1>4, <2>2
    <3>3. a \in Area(T[i])
      BY <1>9, <3>1, <3>2
    <3> QED BY <3>3
  <2> QED BY <2>1, <2>2
<1>12. EmptyAtEnd(T)
  <2> SUFFICES ASSUME NEW i \in Entry, T[i].segm # 0, T[i].size = 0
               PROVE  i = High /\ T[i].segm \notin Memory
    BY DEF EmptyAtEnd
  <2>1. R(i) # 0 /\ B[i].segm # 0 /\ i = High
    <3>1. R(i) = B[i].size /\ B[i].size \in Nat
      <4> HIDE DEF R
      <4>1. T[i].size = B[i].size - R(i) /\ B[i].size \in Nat /\ R(i) \in Nat
        BY <1>6, <1>13
      <4> QED BY <4>1
    <3>2. B[i].size # 0
      <4> HIDE DEF R
      <4>1. B[i].size = 0 => B[i].segm = 0 /\ R(i) = 0
        BY <1>2, <3>1
      <4>2. T[i].segm = B[i].segm + R(i)
        BY <1>6
      <4> QED BY <4>1, <4>2
    <3> HIDE DEF R
    <3> QED BY <3>1, <3>2, <1>2
  <2>2. T[i].segm = UmbEnds(B, i) /\ UmbEnds(B, i) \in Nat
    <3> HIDE DEF R
    <3>1. T[i].segm = B[i].segm + R(i) /\ T[i].size = B[i].size - R(i)
      BY <1>6
    <3> QED BY <1>13, <3>1
  <2>3. ASSUME NEW j \in Entry, T[i].segm \in Area(B[j]) PROVE FALSE
    <3>1. B[j].segm <= UmbEnds(B, i) /\ UmbEnds(B, i) < UmbEnds(B, j) /\ B[j].segm \in Nat /\ B[i].segm \in Nat
          /\ B[j].segm # 0 /\ UmbEnds(B, j) \in Nat
      <4> HIDE DEF R
      <4>1. /\ B[j].segm <= UmbEnds(B, i) /\ UmbEnds(B, i) < UmbEnds(B, j)
            /\ B[j].segm \in Nat /\ B[i].segm \in Nat /\ UmbEnds(B, j) \in Nat
            /\ B[j].size \in Nat /\ UmbEnds(B, j) = B[j].segm + B[j].size
        BY <1>7, <1>13, <2>2, <2>3
      <4>2. B[j].size # 0
        BY <4>1, <2>2
      <4> QED BY <1>2, <4>1, <4>2
    <3>2. i # j
      BY <3>1, <2>2
    <3>3. B[i].segm <= UmbEnds(B, i)
      <4> HIDE DEF R
      <4> QED BY <1>13
    <3> QED BY <1>1, <2>1, <2>2, <3>1, <3>2, <3>3
  <2> QED BY <2>1, <2>3, <1>4
<1> QED
  <2> HIDE DEF R
  <2>1. T \in [Entry -> UmbEntry]
    BY <1>3, <1>6
  <2>2. GoodTab(T)
    BY <2>1, <1>6, <1>8, <1>11, <1>12 DEF GoodTab, Tiles
  <2> QED BY <2>2 DEF T
-----------------------------------------------------------------------------
(* The scans of the table find the first entry.                            *)
LEMMA FirstEntry ==
  ASSUME NEW S \in SUBSET Entry, S # {}
  PROVE  FirstOf(S) \in S /\ FirstOf(S) \in Entry
<1>1. S \in SUBSET Nat
  BY UmbAssumption DEF Entry
<1> QED BY <1>1, LeastNat DEF FirstOf

LEMMA FirstOfOne ==
  ASSUME NEW i \in Entry
  PROVE  FirstOf({i}) = i
<1>1. {i} \in SUBSET Entry /\ {i} # {}
  OBVIOUS
<1> QED BY <1>1, FirstEntry

(* In a good table no segment occurs twice.                                *)
LEMMA SegmsDiffer ==
  ASSUME NEW t, GoodTab(t), NEW i \in Entry, NEW j \in Entry,
         t[i].segm = t[j].segm, t[i].segm # 0
  PROVE  i = j
<1>1. /\ t[i].segm \in Nat /\ t[i].size \in Nat /\ t[j].segm \in Nat /\ t[j].size \in Nat
      /\ i # j => Area(t[i]) \cap Area(t[j]) = {}
      /\ \A k \in Entry : Area(t[k]) \subseteq Memory
      /\ \A k \in Entry : t[k].segm # 0 /\ t[k].size = 0 => k = High /\ t[k].segm \notin Memory
  BY DEF GoodTab, Tiles, EmptyAtEnd, UmbEntry
<1>2. t[i].size # 0 => t[i].segm \in Area(t[i])
  BY <1>1 DEF Area
<1>3. t[j].size # 0 => t[j].segm \in Area(t[j])
  BY <1>1 DEF Area
<1>4. CASE t[i].size # 0 /\ t[j].size # 0
  BY <1>1, <1>2, <1>3, <1>4
<1>5. CASE t[i].size = 0 /\ t[j].size # 0
  BY <1>1, <1>3, <1>5
<1>6. CASE t[i].size # 0 /\ t[j].size = 0
  BY <1>1, <1>2, <1>6
<1>7. CASE t[i].size = 0 /\ t[j].size = 0
  BY <1>1, <1>7
<1> QED BY <1>4, <1>5, <1>6, <1>7

(* UMB_findblock, on any table: an allocated block is found by its segment *)
(* and nothing else is.                                                    *)
FindIn(t, s) ==
  LET S == {i \in Entry : t[i].segm = s}
  IN  IF S # {} /\ t[FirstOf(S)].used THEN FirstOf(S) ELSE 0

LEMMA FoundIsUsed ==
  ASSUME NEW t, NEW s, FindIn(t, s) # 0
  PROVE  FindIn(t, s) \in Entry /\ t[FindIn(t, s)].used /\ t[FindIn(t, s)].segm = s
<1> DEFINE S == {i \in Entry : t[i].segm = s}
<1>1. S # {} /\ t[FirstOf(S)].used /\ FindIn(t, s) = FirstOf(S)
  BY DEF FindIn
<1>2. FirstOf(S) \in S
  <2>1. S \in SUBSET Entry
    OBVIOUS
  <2> HIDE DEF S
  <2> QED BY <1>1, <2>1, FirstEntry
<1> QED BY <1>1, <1>2

LEMMA UsedIsFound ==
  ASSUME NEW t, GoodTab(t), NEW i \in Entry, t[i].used
  PROVE  FindIn(t, t[i].segm) = i /\ t[i].segm # 0
<1>1. t[i].segm # 0
  BY DEF GoodTab, BlankUmb
<1>2. \A j \in Entry : t[j].segm = t[i].segm => j = i
  BY <1>1, SegmsDiffer
<1>3. {j \in Entry : t[j].segm = t[i].segm} = {i}
  BY <1>2
<1>4. FirstOf({i}) = i
  BY FirstOfOne
<1> QED BY <1>1, <1>3, <1>4 DEF FindIn

(* A rounded size is the next multiple of 2 KB.                            *)
LEMMA Rounded ==
  ASSUME NEW n \in Nat
  PROVE  RoundUp(n) \in Nat /\ n <= RoundUp(n) /\ RoundUp(n) < n + Grain
<1> DEFINE a == n + Grain - 1  q == a \div Grain  r == a % Grain
<1>1. Grain \in Nat /\ Grain > 0
  BY UmbAssumption
<1>2. a \in Nat /\ q \in Int /\ r \in 0 .. (Grain - 1) /\ a = Grain * q + r
  BY <1>1
<1>3. RoundUp(n) = q * Grain
  BY DEF RoundUp
<1>4. Grain * q = q * Grain /\ q * Grain \in Int
  <2> HIDE DEF q
  <2> QED BY <1>1, <1>2
<1>5. q * Grain = a - r
  <2> HIDE DEF a, q, r
  <2> QED BY <1>2, <1>4
<1> HIDE DEF q, r
<1> QED BY <1>1, <1>2, <1>3, <1>4, <1>5
-----------------------------------------------------------------------------
(* What a call does to the table leaves it a good one.                     *)
LEMMA UmbMarkGood ==
  ASSUME NEW t, GoodTab(t), NEW i \in Entry, t[i].segm # 0, NEW u \in BOOLEAN
  PROVE  GoodTab([t EXCEPT ![i].used = u])
<1> DEFINE T == [t EXCEPT ![i].used = u]
<1>1. t \in [Entry -> UmbEntry]
  BY DEF GoodTab
<1>2. T \in [Entry -> UmbEntry]
  BY <1>1 DEF UmbEntry
<1>3. \A k \in Entry : T[k].segm = t[k].segm /\ T[k].size = t[k].size /\ (k # i => T[k] = t[k])
  BY <1>1 DEF UmbEntry
<1> HIDE DEF T
<1>4. \A k \in Entry : Area(T[k]) = Area(t[k])
  BY <1>3 DEF Area
<1>5. Tiles(T)
  BY <1>4 DEF GoodTab, Tiles
<1>6. EmptyAtEnd(T)
  BY <1>3 DEF GoodTab, EmptyAtEnd
<1>7. \A k \in Entry : T[k].segm = 0 => T[k] = BlankUmb
  BY <1>3 DEF GoodTab
<1> QED BY <1>2, <1>5, <1>6, <1>7 DEF GoodTab, T

(* Splitting entry i, whose rest goes to the blank entry f.                *)
Cut(t, i, f, n) ==
  [t EXCEPT ![i] = [segm |-> t[i].segm, size |-> RoundUp(n), used |-> TRUE],
            ![f] = [segm |-> t[i].segm + RoundUp(n), size |-> t[i].size - RoundUp(n), used |-> FALSE]]

LEMMA CutGood ==
  ASSUME NEW t, GoodTab(t), NEW i \in Entry, t[i].segm # 0, NEW f \in Entry, t[f].segm = 0,
         NEW n \in Nat \ {0}, n + Grain <= t[i].size
  PROVE  /\ GoodTab(Cut(t, i, f, n))
         /\ Cut(t, i, f, n)[i] = [segm |-> t[i].segm, size |-> RoundUp(n), used |-> TRUE]
         /\ n <= Cut(t, i, f, n)[i].size
         /\ ~Cut(t, i, f, n)[f].used /\ f # i /\ ~t[f].used
         /\ \A k \in Entry \ {i, f} : Cut(t, i, f, n)[k] = t[k]
<1> DEFINE T == Cut(t, i, f, n)
           m == RoundUp(n)
           s == t[i].segm
           z == t[i].size
<1>1. t \in [Entry -> UmbEntry] /\ t[i] \in UmbEntry /\ t[f] = BlankUmb /\ f # i
  BY DEF GoodTab
<1>2. s \in Nat \ {0} /\ z \in Nat /\ m \in Nat /\ n <= m /\ m < n + Grain /\ Grain \in Nat
  BY <1>1, Rounded, UmbAssumption DEF UmbEntry
<1>3. /\ T[i] = [segm |-> s, size |-> m, used |-> TRUE]
      /\ T[f] = [segm |-> s + m, size |-> z - m, used |-> FALSE]
      /\ \A k \in Entry \ {i, f} : T[k] = t[k]
      /\ DOMAIN T = Entry /\ T = [k \in Entry |-> T[k]]
  BY <1>1 DEF Cut
<1>4. ~t[f].used
  BY <1>1 DEF BlankUmb
<1> HIDE DEF T, m
<1>5. 0 < m /\ m < z /\ z - m \in Nat /\ s + m \in Nat
  BY <1>2
<1>6. T \in [Entry -> UmbEntry]
  <2>1. T[i] \in UmbEntry /\ T[f] \in UmbEntry
    BY <1>2, <1>3, <1>5 DEF UmbEntry
  <2>2. \A k \in Entry : T[k] \in UmbEntry
    BY <1>1, <1>3, <2>1
  <2> QED BY <1>3, <2>2
<1>7. \A k \in Entry : T[k].segm = 0 => T[k] = BlankUmb
  <2>1. T[i].segm # 0 /\ T[f].segm # 0
    BY <1>2, <1>3, <1>5
  <2> QED BY <1>3, <2>1 DEF GoodTab
<1>8. EmptyAtEnd(T)
  <2>1. T[i].size # 0 /\ T[f].size # 0
    BY <1>2, <1>3, <1>5
  <2> QED BY <1>3, <2>1 DEF GoodTab, EmptyAtEnd
<1>9. /\ Area(t[f]) = {} /\ Area(t[i]) = Area(T[i]) \cup Area(T[f])
      /\ Area(T[i]) \cap Area(T[f]) = {}
      /\ \A k \in Entry \ {i, f} : Area(T[k]) = Area(t[k])
  <2>1. Area(t[f]) = {}
    BY <1>1 DEF Area, BlankUmb
  <2>2. Area(t[i]) = s .. (s + z - 1) /\ Area(T[i]) = s .. (s + m - 1)
        /\ Area(T[f]) = (s + m) .. ((s + m) + (z - m) - 1)
    BY <1>3 DEF Area
  <2>3. Area(T[f]) = (s + m) .. (s + z - 1)
    <3>1. (s + m) + (z - m) - 1 = s + z - 1
      BY <1>2
    <3> QED BY <2>2, <3>1
  <2>4. s .. (s + z - 1) = (s .. (s + m - 1)) \cup ((s + m) .. (s + z - 1))
    BY <1>2, <1>5
  <2>5. (s .. (s + m - 1)) \cap ((s + m) .. (s + z - 1)) = {}
    BY <1>2, <1>5
  <2>6. \A k \in Entry \ {i, f} : Area(T[k]) = Area(t[k])
    BY <1>3
  <2> QED BY <2>1, <2>2, <2>3, <2>4, <2>5, <2>6
<1>10. \A j, k \in Entry : j # k => Area(t[j]) \cap Area(t[k]) = {}
  BY DEF GoodTab, Tiles
<1>11. \A j, k \in Entry : j # k => Area(T[j]) \cap Area(T[k]) = {}
  <2> SUFFICES ASSUME NEW j \in Entry, NEW k \in Entry, j # k
               PROVE  Area(T[j]) \cap Area(T[k]) = {}
    OBVIOUS
  <2>1. CASE j \in {i, f} /\ k \in {i, f}
    BY <1>9, <2>1
  <2>2. CASE j \in {i, f} /\ k \notin {i, f}
    BY <1>9, <1>10, <2>2
  <2>3. CASE j \notin {i, f} /\ k \in {i, f}
    BY <1>9, <1>10, <2>3
  <2>4. CASE j \notin {i, f} /\ k \notin {i, f}
    BY <1>9, <1>10, <2>4
  <2> QED BY <2>1, <2>2, <2>3, <2>4
<1>12. UNION {Area(T[k]) : k \in Entry} = UNION {Area(t[k]) : k \in Entry}
  <2>1. ASSUME NEW k \in Entry, NEW a \in Area(T[k]) PROVE \E j \in Entry : a \in Area(t[j])
    BY <1>9, <2>1
  <2>2. ASSUME NEW k \in Entry, NEW a \in Area(t[k]) PROVE \E j \in Entry : a \in Area(T[j])
    BY <1>9, <2>2
  <2> QED BY <2>1, <2>2
<1>13. Tiles(T)
  BY <1>11, <1>12 DEF GoodTab, Tiles
<1>14. GoodTab(T)
  BY <1>6, <1>7, <1>8, <1>13 DEF GoodTab
<1>15. T[i].size = m /\ ~T[f].used
  BY <1>3
<1> QED BY <1>1, <1>2, <1>3, <1>4, <1>14, <1>15 DEF T, m
-----------------------------------------------------------------------------
(* The steps.  A call changes the memory of one entry at most.             *)
OneEntry(i) ==
  \A k \in Entry \ {i} : umb'[k] = umb[k] \/ (~umb[k].used /\ ~umb'[k].used)

(* Function 10h: the entry that is found, cut or not.                      *)
LEMMA AllocTable ==
  ASSUME UInv, NEW n \in Sizes, NEW i \in Entry, umb[i].segm # 0, ~umb[i].used,
         n <= umb[i].size,
         umb' = IF CanCut(n, i) THEN Split(i, n) ELSE [umb EXCEPT ![i].used = TRUE]
  PROVE  /\ GoodTab(umb') /\ OneEntry(i)
         /\ umb'[i].used /\ umb'[i].segm = umb[i].segm /\ n <= umb'[i].size
         /\ \A k \in Entry \ {i} : umb[k].used => umb'[k] = umb[k]
<1>1. GoodTab(umb) /\ umb \in [Entry -> UmbEntry] /\ n \in Nat \ {0}
  BY UmbAssumption DEF UInv, GoodTab
<1>2. CASE CanCut(n, i)
  <2> DEFINE f == FirstOf(BlankEntries)
  <2>1. f \in Entry /\ umb[f].segm = 0
    <3>1. BlankEntries \in SUBSET Entry /\ BlankEntries # {}
      BY <1>2 DEF BlankEntries, CanCut
    <3>2. f \in BlankEntries
      BY <3>1, FirstEntry
    <3> QED BY <3>2 DEF BlankEntries
  <2>2. umb' = Cut(umb, i, f, n)
    BY <1>2 DEF Split, Cut
  <2>3. n + Grain <= umb[i].size
    BY <1>2 DEF CanCut
  <2> HIDE DEF f
  <2>4. /\ GoodTab(Cut(umb, i, f, n))
        /\ Cut(umb, i, f, n)[i] = [segm |-> umb[i].segm, size |-> RoundUp(n), used |-> TRUE]
        /\ n <= Cut(umb, i, f, n)[i].size
        /\ ~Cut(umb, i, f, n)[f].used /\ f # i /\ ~umb[f].used
        /\ \A k \in Entry \ {i, f} : Cut(umb, i, f, n)[k] = umb[k]
    BY <1>1, <2>1, <2>3, CutGood
  <2>5. /\ GoodTab(umb') /\ umb'[i] = [segm |-> umb[i].segm, size |-> RoundUp(n), used |-> TRUE]
        /\ n <= umb'[i].size /\ ~umb'[f].used /\ f # i /\ ~umb[f].used
        /\ \A k \in Entry \ {i, f} : umb'[k] = umb[k]
    BY <2>2, <2>4
  <2> QED BY <2>5 DEF OneEntry
<1>3. CASE ~CanCut(n, i)
  <2>1. umb' = [umb EXCEPT ![i].used = TRUE]
    BY <1>3
  <2>2. GoodTab(umb')
    <3>1. GoodTab([umb EXCEPT ![i].used = TRUE])
      BY <1>1, UmbMarkGood
    <3> QED BY <2>1, <3>1
  <2>3. umb'[i].used /\ umb'[i].segm = umb[i].segm /\ umb'[i].size = umb[i].size
        /\ \A k \in Entry \ {i} : umb'[k] = umb[k]
    BY <1>1, <2>1 DEF UmbEntry
  <2> QED BY <2>2, <2>3 DEF OneEntry
<1> QED BY <1>2, <1>3

(* The largest of the free blocks, 0 if there is none.                     *)
LEMMA LargestIsMax ==
  ASSUME UInv
  PROVE  /\ LargestUmb(Free) \in Nat
         /\ \A i \in Free : umb[i].size <= LargestUmb(Free)
         /\ LargestUmb(Free) # 0 => \E i \in Free : umb[i].size = LargestUmb(Free)
<1> DEFINE S == {umb[i].size : i \in Free}
<1>1. CASE Free = {}
  BY <1>1 DEF LargestUmb
<1>2. CASE Free # {}
  <2>1. S \in SUBSET Nat /\ S # {} /\ \A i \in Entry : umb[i].size \in Nat
    BY <1>2 DEF UInv, GoodTab, UmbEntry, Free
  <2>2. PICK b \in Nat : \A i \in Entry : umb[i].size <= b
    <3> DEFINE z == [i \in Entry |-> umb[i].size]
    <3>1. \A i \in 1 .. Blocks : z[i] \in Nat
      BY <2>1 DEF Entry
    <3>2. \E c \in Nat : \A i \in 1 .. Blocks : z[i] <= c
      <4> HIDE DEF z
      <4> QED BY <3>1, UmbAssumption, TableBound
    <3> QED BY <3>2 DEF Entry
  <2>3. \A j \in S : j <= b
    BY <2>2 DEF Free
  <2>4. PICK m \in S : \A j \in S : j <= m
    <3> HIDE DEF S
    <3> QED BY <2>1, <2>3, GreatestNat
  <2>5. LargestUmb(Free) = CHOOSE x \in S : \A i \in Free : umb[i].size <= x
    BY <1>2 DEF LargestUmb
  <2>6. LargestUmb(Free) \in S /\ \A i \in Free : umb[i].size <= LargestUmb(Free)
    <3>1. \A i \in Free : umb[i].size <= m
      BY <2>4
    <3> HIDE DEF S
    <3> QED BY <2>4, <2>5, <3>1
  <2> QED BY <2>1, <2>6
<1> QED BY <1>1, <1>2

(* Function 10h.                                                           *)
LEMMA AllocStep ==
  ASSUME UInv, NEW n \in Sizes, UMB_alloc(n)
  PROVE  UInv' /\ \E i \in Entry : OneEntry(i)
<1> DEFINE fit == {i \in Free : n <= umb[i].size}
<1>1. CASE fit # {}
  <2>1. PICK i \in Entry : i = FirstOf(fit) /\ i \in fit
    <3>1. fit \in SUBSET Entry
      BY DEF Free
    <3> HIDE DEF fit
    <3> QED BY <1>1, <3>1, FirstEntry
  <2>2. umb[i].segm # 0 /\ ~umb[i].used /\ n <= umb[i].size
    BY <2>1 DEF Free
  <2>3. /\ umb' = IF CanCut(n, i) THEN Split(i, n) ELSE [umb EXCEPT ![i].used = TRUE]
        /\ held' = held \cup {[segm |-> umb[i].segm, size |-> n]}
        /\ ret' = [op |-> "alloc", ax |-> 1, segm |-> umb[i].segm, dx |-> umb'[i].size]
    BY <1>1, <2>1 DEF UMB_alloc
  <2>4. /\ GoodTab(umb') /\ OneEntry(i)
        /\ umb'[i].used /\ umb'[i].segm = umb[i].segm /\ n <= umb'[i].size
        /\ \A k \in Entry \ {i} : umb[k].used => umb'[k] = umb[k]
    BY <2>2, <2>3, AllocTable
  <2>5. umb[i].segm \in Nat /\ GoodHeld(umb, held)
    BY DEF UInv, GoodTab, UmbEntry
  <2>6. held' \subseteq [segm : Nat, size : Sizes]
    BY <2>3, <2>5 DEF GoodHeld
  <2>7. ASSUME NEW b \in held'
        PROVE  \E k \in Entry : umb'[k].used /\ umb'[k].segm = b.segm /\ b.size <= umb'[k].size
    <3>1. CASE b \in held
      <4>1. PICK k \in Entry : umb[k].used /\ umb[k].segm = b.segm /\ b.size <= umb[k].size
        BY <2>5, <3>1 DEF GoodHeld
      <4> QED BY <2>2, <2>4, <4>1
    <3>2. CASE b = [segm |-> umb[i].segm, size |-> n]
      BY <2>4, <3>2
    <3> QED BY <2>3, <2>7, <3>1, <3>2
  <2>8. ASSUME NEW k \in Entry, umb'[k].used
        PROVE  (Joined /\ k = 1) \/ \E b \in held' : b.segm = umb'[k].segm
    <3>1. CASE k = i
      <4> DEFINE b == [segm |-> umb[i].segm, size |-> n]
      <4>1. b \in held' /\ b.segm = umb'[k].segm
        BY <2>3, <2>4, <3>1
      <4> QED BY <4>1
    <3>2. CASE k # i
      <4>1. umb[k].used /\ umb'[k] = umb[k]
        BY <2>4, <2>8, <3>2 DEF OneEntry
      <4>2. (Joined /\ k = 1) \/ \E b \in held : b.segm = umb[k].segm
        BY <2>5, <4>1 DEF GoodHeld
      <4> QED BY <2>3, <4>1, <4>2
    <3> QED BY <3>1, <3>2
  <2>9. GoodHeld(umb', held')
    BY <2>6, <2>7, <2>8 DEF GoodHeld
  <2>10. LargestOffered'
    BY <2>3 DEF LargestOffered
  <2> QED BY <2>4, <2>9, <2>10 DEF UInv
<1>2. CASE fit = {}
  <2>1. /\ UNCHANGED <<umb, held>>
        /\ ret' = [op |-> "alloc", ax |-> 0, asked |-> n, dx |-> LargestUmb(Free),
                   bl |-> IF LargestUmb(Free) = 0 THEN "B1h" ELSE "B0h"]
    BY <1>2 DEF UMB_alloc
  <2>2. /\ LargestUmb(Free) \in Nat
        /\ \A i \in Free : umb[i].size <= LargestUmb(Free)
        /\ LargestUmb(Free) # 0 => \E i \in Free : umb[i].size = LargestUmb(Free)
    BY LargestIsMax
  <2>3. LargestUmb(Free) < n
    <3>1. n \in Nat \ {0} /\ \A i \in Free : umb[i].size \in Nat /\ ~(n <= umb[i].size)
      BY <1>2, UmbAssumption DEF UInv, GoodTab, UmbEntry, Free
    <3> QED BY <2>2, <3>1
  <2>4. Free' = Free
    BY <2>1 DEF Free
  <2>5. LargestOffered'
    <3>1. ret'.dx = LargestUmb(Free) /\ ret'.asked = n
          /\ (ret'.bl = "B0h" => LargestUmb(Free) # 0)
      BY <2>1
    <3> QED BY <2>1, <2>2, <2>3, <2>4, <3>1 DEF LargestOffered
  <2>6. 1 \in Entry /\ OneEntry(1)
    BY <2>1, UmbAssumption DEF Entry, OneEntry
  <2> QED BY <2>1, <2>5, <2>6 DEF UInv
<1> QED BY <1>1, <1>2

(* Function 11h.                                                           *)
LEMMA FreeStep ==
  ASSUME UInv, NEW s, UMB_free(s)
  PROVE  UInv' /\ \E i \in Entry : OneEntry(i)
<1> DEFINE i == FindBlock(s)
<1>0. FindBlock(s) = FindIn(umb, s)
  BY DEF FindBlock, FindIn
<1>1. CASE i = 0
  <2>1. ret' = [op |-> "free", ax |-> 0, bl |-> "B2h"] /\ UNCHANGED <<umb, held>>
    BY <1>1 DEF UMB_free
  <2>2. LargestOffered'
    BY <2>1 DEF LargestOffered
  <2>3. 1 \in Entry /\ OneEntry(1)
    BY <2>1, UmbAssumption DEF Entry, OneEntry
  <2> QED BY <2>1, <2>2, <2>3 DEF UInv
<1>2. CASE i # 0
  <2>1. /\ umb' = [umb EXCEPT ![i].used = FALSE] /\ held' = held \ HeldAt(s)
        /\ ret' = [op |-> "free", ax |-> 1]
    BY <1>2 DEF UMB_free
  <2>2. PICK k \in Entry : k = i /\ umb[k].used /\ umb[k].segm = s
    BY <1>0, <1>2, FoundIsUsed
  <2>3. /\ GoodTab(umb) /\ GoodHeld(umb, held) /\ umb \in [Entry -> UmbEntry] /\ umb[k].segm # 0
    BY <2>2 DEF UInv, GoodTab, BlankUmb
  <2> HIDE DEF i
  <2>4. umb' = [umb EXCEPT ![k].used = FALSE]
    BY <2>1, <2>2
  <2>5. GoodTab(umb')
    BY <2>3, <2>4, UmbMarkGood
  <2>6. ~umb'[k].used /\ \A j \in Entry \ {k} : umb'[j] = umb[j]
    BY <2>3, <2>4 DEF UmbEntry
  <2>7. held' \subseteq held /\ \A b \in held : b \in held' <=> b.segm # s
    BY <2>1 DEF HeldAt
  <2>8. ASSUME NEW b \in held'
        PROVE  \E j \in Entry : umb'[j].used /\ umb'[j].segm = b.segm /\ b.size <= umb'[j].size
    <3>1. PICK j \in Entry : umb[j].used /\ umb[j].segm = b.segm /\ b.size <= umb[j].size
      BY <2>3, <2>7 DEF GoodHeld
    <3>2. j # k
      BY <2>2, <2>7, <3>1
    <3> QED BY <2>6, <3>1, <3>2
  <2>9. ASSUME NEW j \in Entry, umb'[j].used
        PROVE  (Joined /\ j = 1) \/ \E b \in held' : b.segm = umb'[j].segm
    <3>1. j # k /\ umb'[j] = umb[j] /\ umb[j].used
      BY <2>6, <2>9
    <3>2. umb[j].segm # s
      BY <2>2, <2>3, <3>1, SegmsDiffer
    <3>3. (Joined /\ j = 1) \/ \E b \in held : b.segm = umb[j].segm
      BY <2>3, <3>1 DEF GoodHeld
    <3> QED BY <2>7, <3>1, <3>2, <3>3
  <2>10. GoodHeld(umb', held')
    BY <2>3, <2>7, <2>8, <2>9 DEF GoodHeld
  <2>11. LargestOffered'
    BY <2>1 DEF LargestOffered
  <2>12. OneEntry(k)
    BY <2>6 DEF OneEntry
  <2> QED BY <2>5, <2>10, <2>11, <2>12 DEF UInv
<1> QED BY <1>1, <1>2

(* Function 12h.                                                           *)
LEMMA ReallocStep ==
  ASSUME UInv, NEW s, NEW n \in Sizes, UMB_realloc(s, n)
  PROVE  UInv' /\ \E i \in Entry : OneEntry(i)
<1> DEFINE i == FindBlock(s)
<1>0. FindBlock(s) = FindIn(umb, s) /\ umb' = umb
  BY DEF FindBlock, FindIn, UMB_realloc
<1>1. 1 \in Entry /\ OneEntry(1)
  BY <1>0, UmbAssumption DEF Entry, OneEntry
<1>2. LargestOffered'
  BY DEF UMB_realloc, LargestOffered
<1>3. GoodTab(umb') /\ GoodHeld(umb, held)
  BY <1>0 DEF UInv
<1>4. CASE ~(i # 0 /\ FitsIn(n, i))
  BY <1>0, <1>1, <1>2, <1>3, <1>4 DEF UMB_realloc, UInv
<1>5. CASE i # 0 /\ FitsIn(n, i)
  <2> DEFINE R(b) == IF b.segm = s THEN [b EXCEPT !.size = n] ELSE b
  <2>1. held' = {R(b) : b \in held}
    BY <1>5 DEF UMB_realloc
  <2>2. PICK k \in Entry : k = i /\ umb[k].used /\ umb[k].segm = s /\ n <= umb[k].size
    BY <1>0, <1>5, FoundIsUsed DEF FitsIn
  <2>3. ASSUME NEW b \in held
        PROVE  /\ R(b) \in [segm : Nat, size : Sizes] /\ R(b).segm = b.segm
               /\ \E j \in Entry : umb[j].used /\ umb[j].segm = R(b).segm /\ R(b).size <= umb[j].size
    <3>1. b \in [segm : Nat, size : Sizes]
      BY <1>3 DEF GoodHeld
    <3>2. CASE b.segm = s
      <4>1. R(b) = [segm |-> s, size |-> n]
        BY <3>1, <3>2
      <4> QED BY <2>2, <3>1, <3>2, <4>1
    <3>3. CASE b.segm # s
      <4>1. R(b) = b
        BY <3>3
      <4> QED BY <1>3, <3>1, <4>1 DEF GoodHeld
    <3> QED BY <3>2, <3>3
  <2> HIDE DEF R
  <2>4. held' \subseteq [segm : Nat, size : Sizes]
    BY <2>1, <2>3
  <2>5. \A b \in held' : \E j \in Entry : umb'[j].used /\ umb'[j].segm = b.segm /\ b.size <= umb'[j].size
    BY <1>0, <2>1, <2>3
  <2>6. \A j \in Entry : umb'[j].used => (Joined /\ j = 1) \/ \E b \in held' : b.segm = umb'[j].segm
    <3> SUFFICES ASSUME NEW j \in Entry, umb[j].used, ~(Joined /\ j = 1)
                 PROVE  \E b \in held' : b.segm = umb[j].segm
      BY <1>0
    <3>1. PICK b \in held : b.segm = umb[j].segm
      BY <1>3 DEF GoodHeld
    <3> QED BY <2>1, <2>3, <3>1
  <2>7. GoodHeld(umb', held')
    BY <2>4, <2>5, <2>6 DEF GoodHeld
  <2> QED BY <1>1, <1>2, <1>3, <2>7 DEF UInv
<1> QED BY <1>4, <1>5

(* At the start clients hold nothing; DOS owns what joined its memory.     *)
LEMMA UInitInv == ResidentFits /\ UmbInit => UInv
<1> SUFFICES ASSUME ResidentFits, UmbInit PROVE UInv
  OBVIOUS
<1>1. GoodTab(umb)
  BY UmbInitGood DEF UmbInit
<1>2. GoodHeld(umb, held)
  <2>1. \A i \in Entry : umb[i].used => Joined /\ i = 1
    <3>1. ASSUME NEW i \in Entry PROVE InitTable[i].used = (Joined /\ i = 1)
      <4> DEFINE r == IF MovesHigh /\ i = High THEN ResSize ELSE 0
      <4>1. InitTable[i] = [segm |-> BootTable[i].segm + r, size |-> BootTable[i].size - r,
                            used |-> Joined /\ i = 1]
        BY InitEntry
      <4> HIDE DEF r
      <4> QED BY <4>1
    <3> QED BY <3>1 DEF UmbInit
  <2> QED BY <2>1 DEF UmbInit, GoodHeld
<1>3. LargestOffered
  BY DEF UmbInit, LargestOffered
<1> QED BY <1>1, <1>2, <1>3 DEF UInv

LEMMA UStep ==
  ASSUME UInv, [UmbNext]_umbVars
  PROVE  UInv' /\ \E i \in Entry : OneEntry(i)
<1>1. CASE UmbNext
  BY <1>1, AllocStep, FreeStep, ReallocStep DEF UmbNext
<1>2. CASE UNCHANGED umbVars
  <2>1. umb' = umb /\ held' = held /\ ret' = ret
    BY <1>2 DEF umbVars
  <2>2. 1 \in Entry /\ OneEntry(1)
    BY <2>1, UmbAssumption DEF Entry, OneEntry
  <2>3. LargestOffered'
    BY <2>1 DEF UInv, LargestOffered, Free
  <2> QED BY <2>1, <2>2, <2>3 DEF UInv
<1> QED BY <1>1, <1>2

LEMMA UAlways == ResidentFits /\ UmbSpec => []UInv
<1>1. UInv /\ [UmbNext]_umbVars => UInv'
  BY UStep
<1> QED BY UInitInv, <1>1, PTL DEF UmbSpec

(* The invariant gives what the run checks of the table.                   *)
LEMMA UInvMeansHonest ==
  ASSUME UInv
  PROVE  UmbsHonest
<1>1. GoodTab(umb) /\ GoodHeld(umb, held) /\ LargestOffered
  BY DEF UInv
<1>2. UmbTypeOK
  BY <1>1 DEF UmbTypeOK, GoodTab, GoodHeld, UmbEntry
<1>3. BlocksTile
  BY <1>1 DEF GoodTab, Tiles, BlocksTile
<1>4. \A s : FindBlock(s) = FindIn(umb, s)
  BY DEF FindBlock, FindIn
<1>5. ASSUME NEW b \in held
      PROVE  FindBlock(b.segm) # 0 /\ b.size <= umb[FindBlock(b.segm)].size
  <2>1. PICK k \in Entry : umb[k].used /\ umb[k].segm = b.segm /\ b.size <= umb[k].size
    BY <1>1 DEF GoodHeld
  <2>2. FindIn(umb, umb[k].segm) = k
    BY <1>1, <2>1, UsedIsFound
  <2>3. k # 0
    BY UmbAssumption DEF Entry
  <2> QED BY <1>4, <2>1, <2>2, <2>3
<1>6. \A i \in Entry : umb[i].used => (Joined /\ i = 1) \/ HeldAt(umb[i].segm) # {}
  BY <1>1 DEF GoodHeld, HeldAt
<1> QED BY <1>1, <1>2, <1>3, <1>5, <1>6 DEF HeldCanBeFreed, UmbsHonest

(* UMB_alloc, UMB_free, UMB_realloc, and what InitMonitor takes: for every *)
(* size of the table, sequence of calls and map of upper memory in whose   *)
(* first free block the resident part fits, the entries are the memory     *)
(* found at boot, each paragraph once; each client can give back and       *)
(* resize what it holds; and one that is refused is told the size of the   *)
(* largest block that is free.                                             *)
THEOREM UmbsAlwaysHonest == ResidentFits => (UmbSpec => []UmbsHonest)
<1>1. UInv => UmbsHonest
  BY UInvMeansHonest
<1> QED BY UAlways, <1>1, PTL
-----------------------------------------------------------------------------
(* What the clients own.                                                   *)
OwnedBy(t) == [i \in Entry |-> IF t[i].used THEN Area(t[i]) ELSE {}]

LEMMA UmbOwnersApart ==
  ASSUME NEW t, GoodTab(t)
  PROVE  /\ OwnedBy(t) \in [Entry -> SUBSET Memory]
         /\ \A i \in Entry : /\ OwnedBy(t)[i] \subseteq Memory
                             /\ OwnedBy(t)[i] \cap UNION {OwnedBy(t)[p] : p \in Entry \ {i}} = {}
<1>1. Tiles(t)
  BY DEF GoodTab
<1>2. ASSUME NEW i \in Entry
      PROVE  OwnedBy(t)[i] \subseteq Area(t[i]) /\ Area(t[i]) \subseteq Memory
  BY <1>1 DEF OwnedBy, Tiles
<1>3. \A i, j \in Entry : i # j => Area(t[i]) \cap Area(t[j]) = {}
  BY <1>1 DEF Tiles
<1>4. OwnedBy(t) = [i \in Entry |-> OwnedBy(t)[i]]
  BY DEF OwnedBy
<1>5. ASSUME NEW i \in Entry, NEW p \in Entry \ {i}, NEW a \in OwnedBy(t)[i], a \in OwnedBy(t)[p]
      PROVE  FALSE
  BY <1>2, <1>3, <1>5
<1> QED BY <1>2, <1>4, <1>5

(* The table is a MemStore, if the resident part fits its block: every     *)
(* entry in use has memory of its own, and a call changes what one entry   *)
(* has, DOS's and the resident part's left alone.                          *)
THEOREM UmbsAreOwned == ResidentFits => (UmbSpec => UmbsAreAStore)
<1>1. ResidentFits /\ UmbInit => UmbStore!StoreInit
  <2> SUFFICES ASSUME ResidentFits, UmbInit PROVE UmbStore!StoreInit
    OBVIOUS
  <2>1. GoodTab(umb)
    BY UInitInv DEF UInv
  <2> QED BY <2>1, UmbOwnersApart DEF UmbStore!StoreInit, UmbStore!OthersOf, OwnedBy
<1>2. UInv /\ UInv' /\ [UmbNext]_umbVars => [UmbStore!StoreNext]_(OwnedBy(umb))
  <2> SUFFICES ASSUME UInv, UInv', [UmbNext]_umbVars
               PROVE  [UmbStore!StoreNext]_(OwnedBy(umb))
    OBVIOUS
  <2>1. GoodTab(umb) /\ GoodTab(umb')
    BY DEF UInv
  <2>2. PICK i \in Entry : OneEntry(i)
    BY UStep
  <2> DEFINE A == OwnedBy(umb)
             B == OwnedBy(umb')
  <2>3. A \in [Entry -> SUBSET Memory] /\ B \in [Entry -> SUBSET Memory]
        /\ B[i] \subseteq Memory /\ B[i] \cap UNION {B[p] : p \in Entry \ {i}} = {}
    BY <2>1, UmbOwnersApart
  <2>4. \A k \in Entry \ {i} : B[k] = A[k]
    BY <2>2 DEF OneEntry, OwnedBy
  <2>5. OwnedBy(umb)' = B
    OBVIOUS
  <2>6. A = [k \in Entry |-> IF umb[k].used THEN Area(umb[k]) ELSE {}]
        /\ B = [k \in Entry |-> IF umb[k].used THEN Area(umb[k]) ELSE {}]'
    BY DEF OwnedBy
  <2> HIDE DEF A, B
  <2>7. B = [A EXCEPT ![i] = B[i]]
    BY <2>3, <2>4
  <2>8. UNION {B[p] : p \in Entry \ {i}} = UNION {A[p] : p \in Entry \ {i}}
    BY <2>4
  <2>9. B[i] \subseteq Memory \ UNION {A[p] : p \in Entry \ {i}}
    BY <2>3, <2>8
  <2>10. UmbStore!StoreNext
    BY <2>6, <2>7, <2>9 DEF UmbStore!StoreNext, UmbStore!Serve, UmbStore!OthersOf
  <2> QED BY <2>10
<1> QED BY <1>1, <1>2, UAlways, PTL DEF UmbSpec, UmbsAreAStore, UmbStore!StoreSpec, OwnedBy
=============================================================================
