------------------------------ MODULE XmsProofs ------------------------------
(***************************************************************************)
(* Proofs about the EMB allocator for every table size, memory map and     *)
(* request: the table is well typed, its blocks are disjoint, and together *)
(* they are exactly the RAM found at boot.                                 *)
(***************************************************************************)
EXTENDS Xms, NatLemmas

-----------------------------------------------------------------------------
(* The scans of the table: a non-empty set of indices has a first one.     *)

LEMMA FirstIsLeast ==
  ASSUME NEW S \in SUBSET Nat, S # {}
  PROVE  First(S) \in S /\ \A j \in S : First(S) <= j
  BY LeastNat DEF First

LEMMA FirstHdl ==
  ASSUME NEW S \in SUBSET Hdl, S # {}
  PROVE  First(S) \in S /\ First(S) \in Hdl
<1>1. S \in SUBSET Nat
  BY XmsAssumption DEF Hdl
<1> QED BY <1>1, FirstIsLeast

-----------------------------------------------------------------------------
(* xms_alloc_emb: the handle it answers with, and the table it leaves.     *)

LEMMA AllocHandle ==
  ASSUME NEW t \in [Hdl -> Emb], NEW sz \in Nat, NEW sext \in BOOLEAN,
         AllocHdl(t, sz, sext) # 0
  PROVE  /\ AllocHdl(t, sz, sext) \in Hdl
         /\ \/ /\ t[AllocHdl(t, sz, sext)].flags = "FREE"
               /\ sz <= t[AllocHdl(t, sz, sext)].size
            \/ /\ t[AllocHdl(t, sz, sext)].flags = "INPOOL"
               /\ sz = 0
<1>1. CASE Fits(t, sz, sext) # {}
  <2>1. AllocHdl(t, sz, sext) = First(Fits(t, sz, sext))
    BY <1>1 DEF AllocHdl
  <2>2. Fits(t, sz, sext) \in SUBSET Hdl
    BY DEF Fits
  <2>3. First(Fits(t, sz, sext)) \in Fits(t, sz, sext)
    BY <1>1, <2>2, FirstHdl
  <2> QED BY <2>1, <2>3 DEF Fits
<1>2. CASE Fits(t, sz, sext) = {}
  <2>1. AllocHdl(t, sz, sext) = First(Blanks(t)) /\ sz = 0 /\ Blanks(t) # {}
    BY <1>2 DEF AllocHdl
  <2>2. Blanks(t) \in SUBSET Hdl
    BY DEF Blanks
  <2>3. First(Blanks(t)) \in Blanks(t)
    BY <2>1, <2>2, FirstHdl
  <2> QED BY <2>1, <2>3 DEF Blanks
<1> QED BY <1>1, <1>2

LEMMA FirstBlank ==
  ASSUME NEW t, Blanks(t) # {}
  PROVE  First(Blanks(t)) \in Hdl /\ t[First(Blanks(t))].flags = "INPOOL"
<1>1. Blanks(t) \in SUBSET Hdl
  BY DEF Blanks
<1>2. First(Blanks(t)) \in Blanks(t)
  BY <1>1, FirstHdl
<1> QED BY <1>2 DEF Blanks

LEMMA AllocType ==
  ASSUME NEW t \in [Hdl -> Emb], NEW sz \in Nat, NEW sext \in BOOLEAN,
         AllocHdl(t, sz, sext) # 0
  PROVE  AllocTab(t, sz, sext) \in [Hdl -> Emb]
<1> DEFINE i == AllocHdl(t, sz, sext)
           j == First(Blanks(t))
<1>1. i \in Hdl /\ (t[i].flags = "INPOOL" \/ sz <= t[i].size)
  BY AllocHandle
<1>2. CASE t[i].flags = "INPOOL" \/ t[i].size = sz \/ Blanks(t) = {}
  <2>1. AllocTab(t, sz, sext) = [t EXCEPT ![i] = UsedBlock(t[i].base, t[i].size)]
    BY <1>2 DEF AllocTab
  <2> HIDE DEF i
  <2> QED BY <1>1, <2>1, XmsAssumption DEF Emb, UsedBlock
<1>3. CASE ~(t[i].flags = "INPOOL" \/ t[i].size = sz \/ Blanks(t) = {})
  <2>1. AllocTab(t, sz, sext) =
          [t EXCEPT ![i] = UsedBlock(t[i].base, sz),
                    ![j] = FreeBlock(t[i].base + sz, t[i].size - sz)]
    BY <1>3 DEF AllocTab
  <2>2. j \in Hdl
    BY <1>3, FirstBlank
  <2>3. t[i].base \in Nat /\ t[i].size - sz \in Nat /\ t[i].base + sz \in Nat
    <3> HIDE DEF i
    <3> QED BY <1>1, <1>3 DEF Emb
  <2>4. UsedBlock(t[i].base, sz) \in Emb
    BY <2>3, XmsAssumption DEF Emb, UsedBlock
  <2>5. FreeBlock(t[i].base + sz, t[i].size - sz) \in Emb
    BY <2>3, XmsAssumption DEF Emb, FreeBlock
  <2> HIDE DEF i, j
  <2> QED BY <1>1, <2>1, <2>2, <2>4, <2>5
<1> QED BY <1>2, <1>3

-----------------------------------------------------------------------------
(* The inductive invariant, of a table that is to manage the memory M:     *)
(* disjoint blocks that cover M and nothing else, with clean handles.  Of  *)
(* the XMS server alone M is the RAM found at boot.                        *)

Good(t, M) == /\ t \in [Hdl -> Emb]
              /\ Disjoint(t) /\ Clean(t)
              /\ \A a \in Nat : (\E i \in Hdl : Covers(t, i, a)) <=> a \in M

LEMMA CoversNat ==
  ASSUME NEW t \in [Hdl -> Emb], NEW i \in Hdl, NEW a, a \in Int, Covers(t, i, a)
  PROVE  a \in Nat /\ Live(t, i) /\ a \in t[i].base .. (Ends(t, i) - 1)
<1>1. t[i].base \in Nat /\ t[i].size \in Nat
  BY DEF Emb
<1> QED BY <1>1 DEF Covers, Ends

(* A call that rearranges the memory of the handles in A among themselves  *)
(* keeps the table good.                                                   *)
LEMMA Rearrange ==
  ASSUME NEW t, NEW M, Good(t, M), NEW u \in [Hdl -> Emb], NEW A \in SUBSET Hdl,
         \A k \in Hdl \ A : u[k] = t[k],
         \A a \in Nat : (\E k \in A : Covers(u, k, a)) <=> (\E k \in A : Covers(t, k, a)),
         \A k, l \in A, a \in Nat : Covers(u, k, a) /\ Covers(u, l, a) => k = l,
         \A k \in A : /\ u[k].flags = "FREE" => u[k].size > 0
                      /\ u[k].flags = "INPOOL" => u[k].size = 0
                      /\ u[k].flags # "USED" => u[k].locks = 0
  PROVE  Good(u, M)
<1>1. t \in [Hdl -> Emb]
  BY DEF Good
<1>2. \A k \in Hdl \ A, a \in Nat : Covers(u, k, a) <=> Covers(t, k, a)
  BY DEF Covers, Live, Ends
<1>3. \A i, j \in Hdl, a \in Nat : Covers(t, i, a) /\ Covers(t, j, a) => j = i
  BY <1>1, CoversNat DEF Good, Disjoint
<1>4. \A i, j \in Hdl, a \in Nat : Covers(u, i, a) /\ Covers(u, j, a) => j = i
  BY <1>2, <1>3
<1>5. \A a \in Nat : (\E i \in Hdl : Covers(u, i, a)) <=> (\E i \in Hdl : Covers(t, i, a))
  BY <1>2
<1>6. \A i \in Hdl, a \in Int : Live(u, i) /\ a \in u[i].base .. (Ends(u, i) - 1)
                                => a \in Nat /\ Covers(u, i, a)
  <2> SUFFICES ASSUME NEW i \in Hdl, NEW a \in Int, Live(u, i),
                      a \in u[i].base .. (Ends(u, i) - 1)
               PROVE  a \in Nat /\ Covers(u, i, a)
    OBVIOUS
  <2>1. u[i].base \in Nat /\ u[i].size \in Nat
    BY DEF Emb
  <2> QED BY <2>1 DEF Covers, Ends
<1>7. Disjoint(u)
  BY <1>4, <1>6 DEF Disjoint
<1>8. \A a \in Nat : (\E i \in Hdl : Covers(u, i, a)) <=> a \in M
  BY <1>5 DEF Good
<1>9. Clean(u)
  BY DEF Good, Clean
<1> QED BY <1>7, <1>8, <1>9 DEF Good

-----------------------------------------------------------------------------
(* Allocation keeps the table good.                                        *)

LEMMA AllocGood ==
  ASSUME NEW t, NEW M, Good(t, M), NEW sz \in Nat, NEW sext \in BOOLEAN,
         AllocHdl(t, sz, sext) # 0
  PROVE  Good(AllocTab(t, sz, sext), M)
<1> DEFINE i == AllocHdl(t, sz, sext)
           j == First(Blanks(t))
           u == AllocTab(t, sz, sext)
<1>1. t \in [Hdl -> Emb] /\ u \in [Hdl -> Emb]
  BY AllocType DEF Good
<1>2. i \in Hdl /\ \/ t[i].flags = "FREE" /\ sz <= t[i].size
                   \/ t[i].flags = "INPOOL"
  BY <1>1, AllocHandle
<1>3. t[i].base \in Nat /\ t[i].size \in Nat /\ (t[i].flags = "INPOOL" => t[i].size = 0)
  <2> HIDE DEF i
  <2> QED BY <1>1, <1>2 DEF Emb, Good, Clean
<1>4. CASE t[i].flags = "INPOOL" \/ t[i].size = sz \/ Blanks(t) = {}
  <2>1. u = [t EXCEPT ![i] = UsedBlock(t[i].base, t[i].size)]
    BY <1>4 DEF AllocTab
  <2> SUFFICES Good(u, M)
    OBVIOUS
  <2> HIDE DEF i, j, u
  <2>2. u[i] = UsedBlock(t[i].base, t[i].size) /\ \A k \in Hdl \ {i} : u[k] = t[k]
    BY <1>1, <1>2, <2>1
  <2>3. \A a \in Nat : Covers(u, i, a) <=> Covers(t, i, a)
    BY <1>2, <1>3, <2>2 DEF Covers, Live, Ends, UsedBlock
  <2>4. u[i].flags = "USED"
    BY <2>2 DEF UsedBlock
  <2> DEFINE A == {i}
  <2>5. A \in SUBSET Hdl /\ \A k \in A : k = i
    BY <1>2
  <2>6. \A a \in Nat : (\E k \in A : Covers(u, k, a)) <=> (\E k \in A : Covers(t, k, a))
    BY <2>3
  <2>7. \A k \in Hdl \ A : u[k] = t[k]
    BY <2>2
  <2> HIDE DEF A
  <2>8. /\ \A k, l \in A, a \in Nat : Covers(u, k, a) /\ Covers(u, l, a) => k = l
        /\ \A k \in A : u[k].flags = "USED"
    BY <2>4, <2>5
  <2> QED BY <1>1, <2>5, <2>6, <2>7, <2>8, Rearrange
<1>5. CASE ~(t[i].flags = "INPOOL" \/ t[i].size = sz \/ Blanks(t) = {})
  <2>1. u = [t EXCEPT ![i] = UsedBlock(t[i].base, sz),
                      ![j] = FreeBlock(t[i].base + sz, t[i].size - sz)]
    BY <1>5 DEF AllocTab
  <2>2. j \in Hdl /\ t[j].flags = "INPOOL"
    BY <1>5, FirstBlank
  <2> SUFFICES Good(u, M)
    OBVIOUS
  <2> HIDE DEF i, j, u
  <2>3. i # j /\ t[i].flags = "FREE" /\ sz < t[i].size
    BY <1>2, <1>3, <1>5, <2>2
  <2>4. /\ u[i] = UsedBlock(t[i].base, sz)
        /\ u[j] = FreeBlock(t[i].base + sz, t[i].size - sz)
        /\ \A k \in Hdl \ {i, j} : u[k] = t[k]
    BY <1>1, <1>2, <2>1, <2>2, <2>3
  <2>5. \A a \in Nat : /\ Covers(u, i, a) <=> t[i].base <= a /\ a < t[i].base + sz
                       /\ Covers(u, j, a) <=> t[i].base + sz <= a /\ a < t[i].base + t[i].size
                       /\ Covers(t, i, a) <=> t[i].base <= a /\ a < t[i].base + t[i].size
                       /\ ~Covers(t, j, a)
    BY <1>3, <2>2, <2>3, <2>4 DEF Covers, Live, Ends, UsedBlock, FreeBlock
  <2>6. /\ u[i].flags = "USED"
        /\ u[j].flags = "FREE" /\ u[j].size > 0 /\ u[j].locks = 0
    BY <1>3, <2>3, <2>4 DEF UsedBlock, FreeBlock
  <2> DEFINE A == {i, j}
  <2>7. A \in SUBSET Hdl /\ i \in A /\ j \in A /\ \A k \in A : k = i \/ k = j
    BY <1>2, <2>2
  <2>8. \A k \in Hdl \ A : u[k] = t[k]
    BY <2>4
  <2> HIDE DEF A
  <2>9. \A a \in Nat : Covers(t, i, a) <=> Covers(u, i, a) \/ Covers(u, j, a)
    BY <1>3, <2>3, <2>5
  <2>10. \A a \in Nat : ~(Covers(u, i, a) /\ Covers(u, j, a))
    BY <1>3, <2>3, <2>5
  <2>11. \A a \in Nat : (\E k \in A : Covers(u, k, a)) <=> (\E k \in A : Covers(t, k, a))
    BY <2>5, <2>7, <2>9
  <2>12. \A k, l \in A, a \in Nat : Covers(u, k, a) /\ Covers(u, l, a) => k = l
    BY <2>7, <2>10
  <2>13. \A k \in A : /\ u[k].flags = "FREE" => u[k].size > 0
                      /\ u[k].flags = "INPOOL" => u[k].size = 0
                      /\ u[k].flags # "USED" => u[k].locks = 0
    BY <2>6, <2>7
  <2> QED BY <1>1, <2>7, <2>8, <2>11, <2>12, <2>13, Rearrange
<1> QED BY <1>4, <1>5

-----------------------------------------------------------------------------
(* Freeing: one merge, the final marking, and the whole scan.              *)

LEMMA MergeEffect ==
  ASSUME NEW t \in [Hdl -> Emb], NEW i \in Hdl, NEW j \in Hdl, i # j
  PROVE  LET u == MergeTab(t, i, j)
             lo == Lower(i, j)
             hi == Higher(i, j)
         IN  /\ u \in [Hdl -> Emb]
             /\ {lo, hi} = {i, j} /\ lo # hi
             /\ u[lo] = [flags |-> t[lo].flags, locks |-> t[lo].locks,
                         base |-> Lower(t[i].base, t[j].base),
                         size |-> t[i].size + t[j].size]
             /\ u[hi] = Blank(t[hi].locks)
             /\ \A k \in Hdl \ {i, j} : u[k] = t[k]
<1> DEFINE u == MergeTab(t, i, j)
           lo == Lower(i, j)
           hi == Higher(i, j)
           r  == [flags |-> t[lo].flags, locks |-> t[lo].locks,
                  base |-> Lower(t[lo].base, t[hi].base),
                  size |-> t[lo].size + t[hi].size]
<1>1. i \in Nat /\ j \in Nat
  BY XmsAssumption DEF Hdl
<1>2. (lo = i /\ hi = j) \/ (lo = j /\ hi = i)
  BY DEF Lower, Higher
<1>3. u = [t EXCEPT ![lo] = r, ![hi] = Blank(t[hi].locks)]
  BY DEF MergeTab
<1>4. t[lo] \in Emb /\ t[hi] \in Emb
  <2> HIDE DEF lo, hi
  <2> QED BY <1>2
<1>5. r \in Emb /\ Blank(t[hi].locks) \in Emb
  <2> HIDE DEF lo, hi
  <2> QED BY <1>4 DEF Emb, Lower, Blank
<1>6. r = [flags |-> t[lo].flags, locks |-> t[lo].locks,
           base |-> Lower(t[i].base, t[j].base), size |-> t[i].size + t[j].size]
  <2>1. t[i].base \in Nat /\ t[j].base \in Nat /\ t[i].size \in Nat /\ t[j].size \in Nat
    BY DEF Emb
  <2>2. Lower(t[lo].base, t[hi].base) = Lower(t[i].base, t[j].base)
    <3> HIDE DEF lo, hi
    <3> QED BY <1>2, <2>1 DEF Lower
  <2>3. t[lo].size + t[hi].size = t[i].size + t[j].size
    <3> HIDE DEF lo, hi
    <3> QED BY <1>2, <2>1
  <2> QED BY <2>2, <2>3
<1>7. /\ u \in [Hdl -> Emb] /\ {lo, hi} = {i, j} /\ lo # hi
      /\ u[lo] = r /\ u[hi] = Blank(t[hi].locks)
      /\ \A k \in Hdl \ {i, j} : u[k] = t[k]
  <2> HIDE DEF lo, hi, r, u
  <2> QED BY <1>2, <1>3, <1>5
<1> QED BY <1>6, <1>7

LEMMA MergeGood ==
  ASSUME NEW t, NEW M, Good(t, M), NEW i \in Hdl, NEW j \in Hdl, i # j,
         t[i].flags # "INPOOL", t[i].locks = 0, t[j].flags = "FREE",
         t[j].base = t[i].base + t[i].size \/ t[j].base + t[j].size = t[i].base
  PROVE  LET u == MergeTab(t, i, j)
         IN  /\ Good(u, M)
             /\ u[Lower(i, j)].flags # "INPOOL"
             /\ u[Lower(i, j)].locks = 0
<1> DEFINE u == MergeTab(t, i, j)
           lo == Lower(i, j)
           hi == Higher(i, j)
           A  == {i, j}
<1>1. t \in [Hdl -> Emb]
  BY DEF Good
<1>2. /\ u \in [Hdl -> Emb]
      /\ {lo, hi} = A /\ lo # hi
      /\ u[lo] = [flags |-> t[lo].flags, locks |-> t[lo].locks,
                  base |-> Lower(t[i].base, t[j].base), size |-> t[i].size + t[j].size]
      /\ u[hi] = Blank(t[hi].locks)
      /\ \A k \in Hdl \ A : u[k] = t[k]
  BY <1>1, MergeEffect
<1>3. /\ t[i].base \in Nat /\ t[i].size \in Nat /\ t[j].base \in Nat /\ t[j].size \in Nat
      /\ t[j].size > 0 /\ t[j].locks = 0
  BY <1>1 DEF Emb, Good, Clean
<1> SUFFICES Good(u, M) /\ u[lo].flags # "INPOOL" /\ u[lo].locks = 0
  OBVIOUS
<1>4. A \in SUBSET Hdl /\ i \in A /\ j \in A /\ \A k \in A : k = i \/ k = j
  OBVIOUS
<1> HIDE DEF u, lo, hi, A
<1>5. lo \in A /\ hi \in A /\ (\A k \in A : k = lo \/ k = hi)
  BY <1>2
<1>6. t[lo].flags # "INPOOL" /\ t[lo].locks = 0 /\ t[hi].locks = 0
  BY <1>3, <1>4, <1>5
<1>7. /\ u[lo].flags = t[lo].flags /\ u[lo].locks = 0 /\ u[lo].size > 0
      /\ u[lo].size = t[i].size + t[j].size
      /\ u[lo].base = IF t[i].base < t[j].base THEN t[i].base ELSE t[j].base
      /\ u[hi].flags = "INPOOL" /\ u[hi].locks = 0 /\ u[hi].size = 0
  BY <1>2, <1>3, <1>6 DEF Lower, Blank
<1>8. \A a \in Nat : /\ ~Covers(u, hi, a)
                     /\ Covers(u, lo, a) <=> Covers(t, i, a) \/ Covers(t, j, a)
  BY <1>3, <1>6, <1>7 DEF Covers, Live, Ends
<1>9. \A a \in Nat : (\E k \in A : Covers(u, k, a)) <=> (\E k \in A : Covers(t, k, a))
  BY <1>4, <1>5, <1>8
<1>10. \A k, l \in A, a \in Nat : Covers(u, k, a) /\ Covers(u, l, a) => k = l
  BY <1>5, <1>8
<1>11. \A k \in A : /\ u[k].flags = "FREE" => u[k].size > 0
                    /\ u[k].flags = "INPOOL" => u[k].size = 0
                    /\ u[k].flags # "USED" => u[k].locks = 0
  BY <1>5, <1>6, <1>7
<1>12. Good(u, M)
  BY <1>2, <1>4, <1>9, <1>10, <1>11, Rearrange
<1> QED BY <1>6, <1>7, <1>12

LEMMA MarkGood ==
  ASSUME NEW t, NEW M, Good(t, M), NEW s \in Hdl, t[s].flags # "INPOOL", t[s].locks = 0
  PROVE  Good([t EXCEPT ![s].flags = IF t[s].size = 0 THEN "INPOOL" ELSE "FREE"], M)
<1> DEFINE u == [t EXCEPT ![s].flags = IF t[s].size = 0 THEN "INPOOL" ELSE "FREE"]
           A == {s}
<1>1. t \in [Hdl -> Emb] /\ t[s] \in Emb
  BY DEF Good
<1>2. u \in [Hdl -> Emb]
  BY <1>1 DEF Emb
<1>3. /\ u[s].flags = IF t[s].size = 0 THEN "INPOOL" ELSE "FREE"
      /\ u[s].base = t[s].base /\ u[s].size = t[s].size /\ u[s].locks = t[s].locks
      /\ \A k \in Hdl \ A : u[k] = t[k]
  BY <1>1 DEF Emb
<1>4. t[s].base \in Nat /\ t[s].size \in Nat
  BY <1>1 DEF Emb
<1> SUFFICES Good(u, M)
  OBVIOUS
<1>5. A \in SUBSET Hdl /\ \A k \in A : k = s
  OBVIOUS
<1> HIDE DEF u, A
<1>6. \A a \in Nat : Covers(u, s, a) <=> Covers(t, s, a)
  BY <1>3, <1>4 DEF Covers, Live, Ends
<1>7. \A a \in Nat : (\E k \in A : Covers(u, k, a)) <=> (\E k \in A : Covers(t, k, a))
  BY <1>5, <1>6
<1>8. \A k, l \in A, a \in Nat : Covers(u, k, a) /\ Covers(u, l, a) => k = l
  BY <1>5
<1>9. \A k \in A : /\ u[k].flags = "FREE" => u[k].size > 0
                   /\ u[k].flags = "INPOOL" => u[k].size = 0
                   /\ u[k].flags # "USED" => u[k].locks = 0
  BY <1>3, <1>4, <1>5
<1> QED BY <1>2, <1>3, <1>5, <1>7, <1>8, <1>9, Rearrange

LEMMA TwoBlocks ==
  ASSUME NEW t, NEW M, Good(t, M), NEW j \in Hdl, NEW k \in Hdl, NEW a \in Nat,
         Covers(t, j, a), Covers(t, k, a)
  PROVE  j = k
<1>1. t \in [Hdl -> Emb]
  BY DEF Good
<1> QED BY <1>1, CoversNat DEF Good, Disjoint

LEMMA FreeGood ==
  ASSUME NEW t, NEW M, Good(t, M), NEW i \in Hdl, t[i].flags = "USED", t[i].locks = 0
  PROVE  Good(FreeTab(t, i), M)
<1> DEFINE adj   == Neighbours(t, i)
           m     == First(adj)
           later == adj \cap StillScanned(i, m)
           n     == First(later)
           t1    == MergeTab(t, i, m)
           s1    == Lower(i, m)
           t2    == MergeTab(t1, s1, n)
           s2    == Lower(s1, n)
<1>1. CASE adj = {}
  <2>1. FreeTab(t, i) = [t EXCEPT ![i].flags = IF t[i].size = 0 THEN "INPOOL" ELSE "FREE"]
    BY <1>1 DEF FreeTab
  <2> SUFFICES Good([t EXCEPT ![i].flags = IF t[i].size = 0 THEN "INPOOL" ELSE "FREE"], M)
    BY <2>1
  <2>2. i \in Hdl /\ Good(t, M) /\ t[i].flags # "INPOOL" /\ t[i].locks = 0
    OBVIOUS
  <2> HIDE DEF adj, m, later, n, t1, s1, t2, s2
  <2> QED BY <2>2, MarkGood
<1>2. ASSUME adj # {}
      PROVE  /\ m \in Hdl /\ m # i
             /\ t[m].flags = "FREE"
             /\ t[m].base = t[i].base + t[i].size \/ t[m].base + t[m].size = t[i].base
  <2>1. adj \in SUBSET Hdl
    BY DEF Neighbours
  <2>2. m \in adj
    <3> HIDE DEF adj
    <3> QED BY <1>2, <2>1, FirstHdl
  <2> QED BY <2>2 DEF Neighbours
<1>3. ASSUME adj # {}
      PROVE  s1 \in Hdl /\ Good(t1, M) /\ t1[s1].flags # "INPOOL" /\ t1[s1].locks = 0
  <2>1. s1 \in Hdl
    BY <1>2, <1>3 DEF Lower
  <2> QED BY <1>2, <1>3, <2>1, MergeGood
<1>4. CASE adj # {} /\ later = {}
  <2>1. FreeTab(t, i) = [t1 EXCEPT ![s1].flags = IF t1[s1].size = 0 THEN "INPOOL" ELSE "FREE"]
    BY <1>4 DEF FreeTab
  <2> SUFFICES Good([t1 EXCEPT ![s1].flags = IF t1[s1].size = 0 THEN "INPOOL" ELSE "FREE"], M)
    BY <2>1
  <2>2. s1 \in Hdl /\ Good(t1, M) /\ t1[s1].flags # "INPOOL" /\ t1[s1].locks = 0
    BY <1>3, <1>4
  <2> HIDE DEF t1, s1
  <2> QED BY <2>2, MarkGood
<1>5. CASE adj # {} /\ later # {}
  <2>1. /\ n \in Hdl /\ n # i /\ n # m
        /\ t[n].flags = "FREE"
        /\ t[n].base = t[i].base + t[i].size \/ t[n].base + t[n].size = t[i].base
    <3>1. later \in SUBSET Hdl
      BY DEF Neighbours
    <3>2. n \in later
      <4> HIDE DEF later
      <4> QED BY <1>5, <3>1, FirstHdl
    <3>3. n \in adj /\ n > m
      BY <3>2 DEF StillScanned
    <3>4. m \in Int /\ n \in Int
      BY <1>2, <1>5, <3>1, <3>2 DEF Hdl
    <3>5. n # m
      <4> HIDE DEF n, m
      <4> QED BY <3>3, <3>4
    <3> QED BY <3>3, <3>5 DEF Neighbours
  <2>2. t \in [Hdl -> Emb]
    BY DEF Good
  <2>3. /\ t1[s1].base = Lower(t[i].base, t[m].base)
        /\ t1[s1].size = t[i].size + t[m].size
        /\ \A k \in Hdl \ {i, m} : t1[k] = t[k]
    <3> DEFINE hi == Higher(i, m)
               r  == [flags |-> t[s1].flags, locks |-> t[s1].locks,
                      base |-> Lower(t[i].base, t[m].base), size |-> t[i].size + t[m].size]
    <3>1. t1[s1] = r /\ \A k \in Hdl \ {i, m} : t1[k] = t[k]
      <4>1. m \in Hdl /\ i # m
        BY <1>2, <1>5
      <4> HIDE DEF m
      <4> QED BY <2>2, <4>1, MergeEffect
    <3>2. r.base = Lower(t[i].base, t[m].base) /\ r.size = t[i].size + t[m].size
      OBVIOUS
    <3> HIDE DEF t1, s1, m, r
    <3> QED BY <3>1, <3>2
  <2>4. s1 \in {i, m}
    BY DEF Lower
  <2>5. /\ t[i].base \in Nat /\ t[i].size \in Nat
        /\ t[m].base \in Nat /\ t[m].size \in Nat /\ t[m].size > 0
        /\ t[n].base \in Nat /\ t[n].size \in Nat /\ t[n].size > 0
    <3> HIDE DEF m, n
    <3> QED BY <1>2, <1>5, <2>1, <2>2 DEF Emb, Good, Clean
  <2>6. t1[n] = t[n] /\ n # s1
    BY <2>1, <2>3, <2>4
  <2>7. t1[n].base = t1[s1].base + t1[s1].size \/ t1[n].base + t1[n].size = t1[s1].base
    <3> HIDE DEF m, n, t1, s1
    <3>1. CASE t[m].base = t[i].base + t[i].size
      <4>1. t[n].base # t[m].base
        <5> SUFFICES ASSUME t[n].base = t[m].base PROVE FALSE
          OBVIOUS
        <5>1. Covers(t, m, t[m].base) /\ Covers(t, n, t[m].base)
          BY <1>2, <1>5, <2>1, <2>5 DEF Covers, Live, Ends
        <5> QED BY <1>2, <1>5, <2>1, <2>5, <5>1, TwoBlocks
      <4>2. t[n].base + t[n].size = t[i].base
        BY <2>1, <3>1, <4>1
      <4>3. t1[s1].base = t[i].base
        BY <2>3, <2>5, <3>1 DEF Lower
      <4> QED BY <2>6, <4>2, <4>3
    <3>2. CASE t[m].base + t[m].size = t[i].base
      <4>1. t[n].base + t[n].size # t[i].base
        <5> SUFFICES ASSUME t[n].base + t[n].size = t[i].base PROVE FALSE
          OBVIOUS
        <5>1. t[i].base - 1 \in Nat
          BY <2>5, <3>2
        <5>2. Covers(t, m, t[i].base - 1) /\ Covers(t, n, t[i].base - 1)
          BY <1>2, <1>5, <2>1, <2>5, <3>2 DEF Covers, Live, Ends
        <5> QED BY <1>2, <1>5, <2>1, <5>1, <5>2, TwoBlocks
      <4>2. t[n].base = t[i].base + t[i].size
        BY <2>1, <4>1
      <4>3. t1[s1].base = t[m].base
        BY <2>3, <2>5, <3>2 DEF Lower
      <4> QED BY <2>3, <2>5, <2>6, <3>2, <4>2, <4>3
    <3> QED BY <1>2, <1>5, <3>1, <3>2
  <2>8. Good(t2, M) /\ t2[s2].flags # "INPOOL" /\ t2[s2].locks = 0 /\ s2 \in Hdl
    <3> HIDE DEF t1, s1, n
    <3>1. t1[n].flags = "FREE"
      BY <2>1, <2>6
    <3>2. s2 \in Hdl
      BY <1>3, <1>5, <2>1 DEF Lower
    <3> QED BY <1>3, <1>5, <2>1, <2>6, <2>7, <3>1, <3>2, MergeGood
  <2>9. FreeTab(t, i) = [t2 EXCEPT ![s2].flags = IF t2[s2].size = 0 THEN "INPOOL" ELSE "FREE"]
    BY <1>5 DEF FreeTab
  <2> SUFFICES Good([t2 EXCEPT ![s2].flags = IF t2[s2].size = 0 THEN "INPOOL" ELSE "FREE"], M)
    BY <2>9
  <2> HIDE DEF t2, s2
  <2> QED BY <2>8, MarkGood
<1> QED BY <1>1, <1>4, <1>5

-----------------------------------------------------------------------------
(* The steps of the specification keep the table good.                     *)

(* Block i and the free memory of handle k behind it are divided anew.     *)
LEMMA Repartition ==
  ASSUME NEW t, NEW M, Good(t, M), NEW i \in Hdl, NEW k \in Hdl, i # k, t[i].flags = "USED",
         t[k].flags = "INPOOL" \/ (t[k].flags = "FREE" /\ t[k].base = t[i].base + t[i].size),
         NEW sz \in Nat, NEW rest \in Nat, rest + sz = t[i].size + t[k].size,
         NEW u \in [Hdl -> Emb], \A l \in Hdl \ {i, k} : u[l] = t[l],
         u[i].flags = "USED", u[i].base = t[i].base, u[i].size = sz,
         u[k].size = rest, u[k].locks = 0,
         \/ u[k].flags = "INPOOL" /\ rest = 0
         \/ u[k].flags = "FREE" /\ rest > 0 /\ u[k].base = t[i].base + sz
  PROVE  Good(u, M)
<1> DEFINE A == {i, k}
<1>1. /\ t[i].base \in Nat /\ t[i].size \in Nat /\ t[k].base \in Nat /\ t[k].size \in Nat
      /\ t[k].flags = "INPOOL" => t[k].size = 0
  BY DEF Emb, Good, Clean
<1>2. A \in SUBSET Hdl /\ i \in A /\ k \in A /\ (\A l \in A : l = i \/ l = k)
      /\ \A l \in Hdl \ A : u[l] = t[l]
  OBVIOUS
<1> HIDE DEF A
<1>3. \A a \in Nat : /\ Covers(u, i, a) <=> t[i].base <= a /\ a < t[i].base + sz
                     /\ Covers(u, k, a) <=> t[i].base + sz <= a
                                              /\ a < t[i].base + t[i].size + t[k].size
  BY <1>1 DEF Covers, Live, Ends
<1>4. \A a \in Nat : Covers(t, i, a) \/ Covers(t, k, a)
                       <=> t[i].base <= a /\ a < t[i].base + t[i].size + t[k].size
  BY <1>1 DEF Covers, Live, Ends
<1>5. \A a \in Nat : /\ Covers(u, i, a) \/ Covers(u, k, a) <=> Covers(t, i, a) \/ Covers(t, k, a)
                     /\ ~(Covers(u, i, a) /\ Covers(u, k, a))
  BY <1>1, <1>3, <1>4
<1>6. \A a \in Nat : (\E l \in A : Covers(u, l, a)) <=> (\E l \in A : Covers(t, l, a))
  BY <1>2, <1>5
<1>7. \A l, q \in A, a \in Nat : Covers(u, l, a) /\ Covers(u, q, a) => l = q
  BY <1>2, <1>5
<1>8. \A l \in A : /\ u[l].flags = "FREE" => u[l].size > 0
                   /\ u[l].flags = "INPOOL" => u[l].size = 0
                   /\ u[l].flags # "USED" => u[l].locks = 0
  BY <1>2
<1> QED BY <1>2, <1>6, <1>7, <1>8, Rearrange

(* The two handles of a move exchange their contents.                      *)
LEMMA SwapGood ==
  ASSUME NEW t, NEW M, Good(t, M), NEW i \in Hdl, NEW j \in Hdl, i # j
  PROVE  Good([t EXCEPT ![i] = t[j], ![j] = t[i]], M)
<1> DEFINE u == [t EXCEPT ![i] = t[j], ![j] = t[i]]
           A == {i, j}
<1>1. t \in [Hdl -> Emb]
  BY DEF Good
<1>2. u \in [Hdl -> Emb] /\ u[i] = t[j] /\ u[j] = t[i] /\ \A k \in Hdl \ A : u[k] = t[k]
  BY <1>1
<1>3. A \in SUBSET Hdl /\ i \in A /\ j \in A /\ \A k \in A : k = i \/ k = j
  OBVIOUS
<1> SUFFICES Good(u, M)
  OBVIOUS
<1> HIDE DEF u, A
<1>4. \A a \in Nat : (Covers(u, i, a) <=> Covers(t, j, a)) /\ (Covers(u, j, a) <=> Covers(t, i, a))
  BY <1>2 DEF Covers, Live, Ends
<1>5. \A a \in Nat : ~(Covers(u, i, a) /\ Covers(u, j, a))
  BY <1>4, TwoBlocks
<1>6. \A a \in Nat : (\E k \in A : Covers(u, k, a)) <=> (\E k \in A : Covers(t, k, a))
  BY <1>3, <1>4
<1>7. \A k, l \in A, a \in Nat : Covers(u, k, a) /\ Covers(u, l, a) => k = l
  BY <1>3, <1>5
<1>8. \A k \in A : /\ u[k].flags = "FREE" => u[k].size > 0
                   /\ u[k].flags = "INPOOL" => u[k].size = 0
                   /\ u[k].flags # "USED" => u[k].locks = 0
  BY <1>2, <1>3 DEF Good, Clean
<1> QED BY <1>2, <1>3, <1>6, <1>7, <1>8, Rearrange

LEMMA LockCountGood ==
  ASSUME NEW M, Good(h, M), NEW i \in Hdl, h[i].flags = "USED", NEW l \in 0 .. MaxLocks
  PROVE  Good([h EXCEPT ![i].locks = l], M)
<1> DEFINE u == [h EXCEPT ![i].locks = l]
           A == {i}
<1>1. h \in [Hdl -> Emb]
  BY DEF Good
<1>2. /\ u \in [Hdl -> Emb] /\ \A k \in Hdl \ A : u[k] = h[k]
      /\ u[i].flags = "USED" /\ u[i].base = h[i].base /\ u[i].size = h[i].size
  BY <1>1 DEF Emb
<1>3. A \in SUBSET Hdl /\ \A k \in A : k = i
  OBVIOUS
<1> SUFFICES Good(u, M)
  OBVIOUS
<1> HIDE DEF u, A
<1>4. \A a \in Nat : Covers(u, i, a) <=> Covers(h, i, a)
  BY <1>2 DEF Covers, Live, Ends
<1>5. \A a \in Nat : (\E k \in A : Covers(u, k, a)) <=> (\E k \in A : Covers(h, k, a))
  BY <1>3, <1>4
<1>6. /\ \A k, n \in A, a \in Nat : Covers(u, k, a) /\ Covers(u, n, a) => k = n
      /\ \A k \in A : u[k].flags = "USED"
  BY <1>2, <1>3
<1> QED BY <1>2, <1>3, <1>5, <1>6, Rearrange

LEMMA FirstSuccessor ==
  ASSUME NEW i \in Hdl, Successors(h, i) # {}
  PROVE  /\ First(Successors(h, i)) \in Hdl
         /\ h[First(Successors(h, i))].flags = "FREE"
         /\ h[First(Successors(h, i))].base = h[i].base + h[i].size
<1>1. Successors(h, i) \in SUBSET Hdl
  BY DEF Successors
<1>2. First(Successors(h, i)) \in Successors(h, i)
  BY <1>1, FirstHdl
<1> QED BY <1>2 DEF Successors

LEMMA ReallocIntoGood ==
  ASSUME NEW M, Good(h, M), NEW i \in Hdl, NEW sz \in Nat, ReallocInto(i, sz)
  PROVE  Good(h', M)
<1> DEFINE k == First(Successors(h, i))
           rest == h[i].size + h[k].size - sz
           e == IF rest = 0 THEN Blank(h[k].locks)
                ELSE [flags |-> "FREE", locks |-> h[k].locks,
                      base |-> h[i].base + sz, size |-> rest]
<1>1. h \in [Hdl -> Emb]
  BY DEF Good
<1>2. k \in Hdl /\ h[k].flags = "FREE" /\ h[k].base = h[i].base + h[i].size
  BY FirstSuccessor DEF ReallocInto
<1>3. h[i].flags = "USED" /\ h[i].locks = 0 /\ i # k
  BY <1>2 DEF ReallocInto, CanRealloc
<1>4. h' = [h EXCEPT ![i].size = sz, ![k] = e] /\ rest >= 0
  BY DEF ReallocInto
<1> HIDE DEF k
<1>5. /\ h[i].base \in Nat /\ h[i].size \in Nat /\ h[k].size \in Nat /\ h[k].locks = 0
      /\ rest \in Nat /\ rest + sz = h[i].size + h[k].size
  BY <1>1, <1>2, <1>3, <1>4 DEF Emb, Good, Clean
<1>6. e \in Emb /\ e.locks = 0 /\ e.size = rest
      /\ \/ e.flags = "INPOOL" /\ rest = 0
         \/ e.flags = "FREE" /\ rest > 0 /\ e.base = h[i].base + sz
  BY <1>5, XmsAssumption DEF Emb, Blank
<1> HIDE DEF e, rest
<1>7. /\ h' \in [Hdl -> Emb] /\ \A l \in Hdl \ {i, k} : h'[l] = h[l]
      /\ h'[k] = e
      /\ h'[i].flags = "USED" /\ h'[i].base = h[i].base /\ h'[i].size = sz
  BY <1>1, <1>2, <1>3, <1>4, <1>6 DEF Emb
<1>8. /\ h'[k].size = rest /\ h'[k].locks = 0
      /\ \/ h'[k].flags = "INPOOL" /\ rest = 0
         \/ h'[k].flags = "FREE" /\ rest > 0 /\ h'[k].base = h[i].base + sz
  BY <1>6, <1>7
<1> QED BY <1>2, <1>3, <1>5, <1>7, <1>8, Repartition

LEMMA ReallocShrinkGood ==
  ASSUME NEW M, Good(h, M), NEW i \in Hdl, NEW sz \in Nat, ReallocShrink(i, sz)
  PROVE  Good(h', M)
<1> DEFINE k == First(Blanks(h))
           e == [flags |-> "FREE", locks |-> h[k].locks,
                 base |-> h[i].base + sz, size |-> h[i].size - sz]
<1>1. h \in [Hdl -> Emb]
  BY DEF Good
<1>2. k \in Hdl /\ h[k].flags = "INPOOL"
  BY FirstBlank DEF ReallocShrink
<1>3. h[i].flags = "USED" /\ i # k /\ sz < h[i].size
  BY <1>2 DEF ReallocShrink, CanRealloc
<1>4. h' = [h EXCEPT ![i].size = sz, ![k] = e]
  <2>1. h' = [h EXCEPT ![i].size = sz,
                       ![k] = [flags |-> "FREE", locks |-> @.locks,
                               base |-> h[i].base + sz, size |-> h[i].size - sz]]
    BY DEF ReallocShrink
  <2> HIDE DEF k
  <2> QED BY <1>1, <1>2, <1>3, <2>1
<1> HIDE DEF k
<1>5. /\ h[i].base \in Nat /\ h[i].size \in Nat /\ h[k].size = 0 /\ h[k].locks = 0
      /\ h[i].size - sz \in Nat /\ h[i].size - sz > 0
  BY <1>1, <1>2, <1>3 DEF Emb, Good, Clean
<1>6. e \in Emb /\ e.locks = 0 /\ e.size = h[i].size - sz
      /\ e.flags = "FREE" /\ e.base = h[i].base + sz
  BY <1>5, XmsAssumption DEF Emb
<1> HIDE DEF e
<1>7. /\ h' \in [Hdl -> Emb] /\ \A l \in Hdl \ {i, k} : h'[l] = h[l]
      /\ h'[k] = e
      /\ h'[i].flags = "USED" /\ h'[i].base = h[i].base /\ h'[i].size = sz
  BY <1>1, <1>2, <1>3, <1>4, <1>6 DEF Emb
<1>8. (h[i].size - sz) + sz = h[i].size + h[k].size
  BY <1>5
<1> QED BY <1>2, <1>3, <1>5, <1>6, <1>7, <1>8, Repartition

-----------------------------------------------------------------------------
(* A call leaves the used handles of other clients as they are.            *)

LEMMA AllocKeeps ==
  ASSUME NEW t \in [Hdl -> Emb], NEW sz \in Nat, NEW sext \in BOOLEAN,
         AllocHdl(t, sz, sext) # 0, NEW k \in Hdl, t[k].flags = "USED"
  PROVE  /\ k # AllocHdl(t, sz, sext)
         /\ AllocTab(t, sz, sext)[k] = t[k]
<1> DEFINE i == AllocHdl(t, sz, sext)
           j == First(Blanks(t))
<1>1. i \in Hdl /\ k # i
  <2>1. i \in Hdl /\ t[i].flags # "USED"
    BY AllocHandle
  <2> QED BY <2>1
<1>2. CASE t[i].flags = "INPOOL" \/ t[i].size = sz \/ Blanks(t) = {}
  <2>1. AllocTab(t, sz, sext) = [t EXCEPT ![i] = UsedBlock(t[i].base, t[i].size)]
    BY <1>2 DEF AllocTab
  <2> SUFFICES k # i /\ AllocTab(t, sz, sext)[k] = t[k]
    OBVIOUS
  <2> HIDE DEF i
  <2> QED BY <1>1, <2>1
<1>3. CASE ~(t[i].flags = "INPOOL" \/ t[i].size = sz \/ Blanks(t) = {})
  <2>1. AllocTab(t, sz, sext) =
          [t EXCEPT ![i] = UsedBlock(t[i].base, sz),
                    ![j] = FreeBlock(t[i].base + sz, t[i].size - sz)]
    BY <1>3 DEF AllocTab
  <2>2. j \in Hdl /\ t[j].flags = "INPOOL"
    BY <1>3, FirstBlank
  <2> SUFFICES k # i /\ AllocTab(t, sz, sext)[k] = t[k]
    OBVIOUS
  <2> HIDE DEF i, j
  <2> QED BY <1>1, <2>1, <2>2
<1> QED BY <1>2, <1>3

LEMMA AllocMakesUsed ==
  ASSUME NEW t \in [Hdl -> Emb], NEW sz \in Nat, NEW sext \in BOOLEAN,
         AllocHdl(t, sz, sext) # 0
  PROVE  /\ AllocTab(t, sz, sext)[AllocHdl(t, sz, sext)].flags = "USED"
         /\ AllocTab(t, sz, sext)[AllocHdl(t, sz, sext)].locks = 0
<1> DEFINE i == AllocHdl(t, sz, sext)
           j == First(Blanks(t))
           u == AllocTab(t, sz, sext)
<1>1. i \in Hdl
  BY AllocHandle
<1>2. CASE t[i].flags = "INPOOL" \/ t[i].size = sz \/ Blanks(t) = {}
  <2>1. u = [t EXCEPT ![i] = UsedBlock(t[i].base, t[i].size)]
    BY <1>2 DEF AllocTab
  <2> HIDE DEF i, u
  <2>2. u[i] = UsedBlock(t[i].base, t[i].size)
    BY <1>1, <2>1
  <2> QED BY <2>2 DEF UsedBlock, i, u
<1>3. CASE ~(t[i].flags = "INPOOL" \/ t[i].size = sz \/ Blanks(t) = {})
  <2>1. u = [t EXCEPT ![i] = UsedBlock(t[i].base, sz),
                      ![j] = FreeBlock(t[i].base + sz, t[i].size - sz)]
    BY <1>3 DEF AllocTab
  <2>2. j \in Hdl /\ j # i
    BY <1>3, FirstBlank
  <2> HIDE DEF i, j, u
  <2>3. u[i] = UsedBlock(t[i].base, sz)
    BY <1>1, <2>1, <2>2
  <2> QED BY <2>3 DEF UsedBlock, i, u
<1> QED BY <1>2, <1>3

LEMMA FreeKeeps ==
  ASSUME NEW t \in [Hdl -> Emb], NEW i \in Hdl, t[i].flags = "USED",
         NEW k \in Hdl, k # i, t[k].flags = "USED"
  PROVE  FreeTab(t, i)[k] = t[k]
<1> DEFINE adj   == Neighbours(t, i)
           m     == First(adj)
           later == adj \cap StillScanned(i, m)
           n     == First(later)
           t1    == MergeTab(t, i, m)
           s1    == Lower(i, m)
           t2    == MergeTab(t1, s1, n)
           s2    == Lower(s1, n)
<1>1. CASE adj = {}
  <2>1. FreeTab(t, i) = [t EXCEPT ![i].flags = IF t[i].size = 0 THEN "INPOOL" ELSE "FREE"]
    BY <1>1 DEF FreeTab
  <2> QED BY <2>1
<1>2. ASSUME adj # {} PROVE m \in Hdl /\ m # i /\ m # k
  <2>1. adj \in SUBSET Hdl
    BY DEF Neighbours
  <2>2. m \in adj
    <3> HIDE DEF adj
    <3> QED BY <1>2, <2>1, FirstHdl
  <2> QED BY <2>2 DEF Neighbours
<1>3. ASSUME adj # {}
      PROVE  t1 \in [Hdl -> Emb] /\ t1[k] = t[k] /\ s1 \in {i, m}
  <2>1. s1 \in {i, m}
    BY DEF Lower
  <2>2. m \in Hdl /\ m # i /\ m # k
    BY <1>2, <1>3
  <2>3. t1 \in [Hdl -> Emb] /\ \A q \in Hdl \ {i, m} : t1[q] = t[q]
    <3> HIDE DEF m
    <3> QED BY <2>2, MergeEffect
  <2> HIDE DEF m, t1
  <2> QED BY <2>1, <2>2, <2>3
<1>4. CASE adj # {} /\ later = {}
  <2>1. FreeTab(t, i) = [t1 EXCEPT ![s1].flags = IF t1[s1].size = 0 THEN "INPOOL" ELSE "FREE"]
    BY <1>4 DEF FreeTab
  <2>2. t1 \in [Hdl -> Emb] /\ t1[k] = t[k] /\ s1 # k
    BY <1>2, <1>3, <1>4
  <2> HIDE DEF t1, s1
  <2> QED BY <2>1, <2>2
<1>5. CASE adj # {} /\ later # {}
  <2>1. n \in Hdl /\ n # i /\ n # m /\ n # k
    <3>1. later \in SUBSET Hdl
      BY DEF Neighbours
    <3>2. n \in later
      <4> HIDE DEF later
      <4> QED BY <1>5, <3>1, FirstHdl
    <3>3. n \in adj /\ n > m
      BY <3>2 DEF StillScanned
    <3>4. m \in Int /\ n \in Int
      BY <1>2, <1>5, <3>1, <3>2 DEF Hdl
    <3>5. n # m
      <4> HIDE DEF n, m
      <4> QED BY <3>3, <3>4
    <3> QED BY <3>3, <3>5 DEF Neighbours
  <2>2. t1 \in [Hdl -> Emb] /\ t1[k] = t[k] /\ s1 \in Hdl /\ s1 # n /\ s1 # k
    BY <1>2, <1>3, <1>5, <2>1
  <2>3. FreeTab(t, i) = [t2 EXCEPT ![s2].flags = IF t2[s2].size = 0 THEN "INPOOL" ELSE "FREE"]
    BY <1>5 DEF FreeTab
  <2>4. s2 \in {s1, n}
    BY DEF Lower
  <2>5. t2 \in [Hdl -> Emb] /\ \A q \in Hdl \ {s1, n} : t2[q] = t1[q]
    <3> HIDE DEF t1, s1, n
    <3> QED BY <2>1, <2>2, MergeEffect
  <2> HIDE DEF t2, s2, s1, n
  <2> QED BY <2>1, <2>2, <2>3, <2>4, <2>5
<1> QED BY <1>1, <1>4, <1>5

(* ... and makes no handle of theirs a used one.                           *)

LEMMA AllocUses ==
  ASSUME NEW t \in [Hdl -> Emb], NEW sz \in Nat, NEW sext \in BOOLEAN,
         AllocHdl(t, sz, sext) # 0, NEW k \in Hdl, k # AllocHdl(t, sz, sext),
         AllocTab(t, sz, sext)[k].flags = "USED"
  PROVE  t[k].flags = "USED"
<1> DEFINE i == AllocHdl(t, sz, sext)
           j == First(Blanks(t))
<1>1. CASE t[i].flags = "INPOOL" \/ t[i].size = sz \/ Blanks(t) = {}
  <2>1. AllocTab(t, sz, sext) = [t EXCEPT ![i] = UsedBlock(t[i].base, t[i].size)]
    BY <1>1 DEF AllocTab
  <2> QED BY <2>1
<1>2. CASE ~(t[i].flags = "INPOOL" \/ t[i].size = sz \/ Blanks(t) = {})
  <2>1. AllocTab(t, sz, sext) =
          [t EXCEPT ![i] = UsedBlock(t[i].base, sz),
                    ![j] = FreeBlock(t[i].base + sz, t[i].size - sz)]
    BY <1>2 DEF AllocTab
  <2>2. FreeBlock(t[i].base + sz, t[i].size - sz).flags = "FREE"
    BY DEF FreeBlock
  <2>3. j \in Hdl
    BY <1>2, FirstBlank
  <2>4. AllocTab(t, sz, sext)[k] = IF k = j THEN FreeBlock(t[i].base + sz, t[i].size - sz) ELSE t[k]
    <3>1. k # i
      OBVIOUS
    <3> HIDE DEF i, j
    <3> QED BY <2>1, <2>3, <3>1
  <2> HIDE DEF i, j
  <2> QED BY <2>2, <2>4
<1> QED BY <1>1, <1>2

(* A merge with a FREE block leaves at most its result in use.             *)
LEMMA MergeUses ==
  ASSUME NEW t \in [Hdl -> Emb], NEW i \in Hdl, NEW j \in Hdl, i # j,
         NEW k \in Hdl, MergeTab(t, i, j)[k].flags = "USED"
  PROVE  k = Lower(i, j) \/ (k \notin {i, j} /\ t[k].flags = "USED")
<1> DEFINE u == MergeTab(t, i, j)
           lo == Lower(i, j)
           hi == Higher(i, j)
<1>1. /\ {lo, hi} = {i, j} /\ u[hi] = Blank(t[hi].locks)
      /\ \A q \in Hdl \ {i, j} : u[q] = t[q]
  BY MergeEffect
<1>2. u[hi].flags = "INPOOL"
  <2> HIDE DEF u, hi
  <2> QED BY <1>1 DEF Blank
<1>3. u[k].flags = "USED"
  OBVIOUS
<1> SUFFICES k = lo \/ (k \notin {i, j} /\ t[k].flags = "USED")
  OBVIOUS
<1> HIDE DEF u, lo, hi
<1> QED BY <1>1, <1>2, <1>3

LEMMA FreeUses ==
  ASSUME NEW t \in [Hdl -> Emb], NEW i \in Hdl, t[i].flags = "USED",
         NEW k \in Hdl, FreeTab(t, i)[k].flags = "USED"
  PROVE  k # i /\ t[k].flags = "USED"
<1> DEFINE adj   == Neighbours(t, i)
           m     == First(adj)
           later == adj \cap StillScanned(i, m)
           n     == First(later)
           t1    == MergeTab(t, i, m)
           s1    == Lower(i, m)
           t2    == MergeTab(t1, s1, n)
           s2    == Lower(s1, n)
<1>1. CASE adj = {}
  <2>1. FreeTab(t, i) = [t EXCEPT ![i].flags = IF t[i].size = 0 THEN "INPOOL" ELSE "FREE"]
    BY <1>1 DEF FreeTab
  <2>2. t[i] \in Emb
    OBVIOUS
  <2>3. FreeTab(t, i)[i].flags # "USED"
    BY <2>1, <2>2 DEF Emb
  <2>4. \A q \in Hdl \ {i} : FreeTab(t, i)[q] = t[q]
    BY <2>1
  <2> QED BY <2>3, <2>4
<1>2. ASSUME adj # {}
      PROVE  /\ m \in Hdl /\ m # i /\ t1 \in [Hdl -> Emb] /\ s1 \in {i, m}
             /\ \A q \in Hdl : t1[q].flags = "USED" /\ q # s1
                                  => q \notin {i, m} /\ t[q].flags = "USED"
  <2>1. adj \in SUBSET Hdl
    BY DEF Neighbours
  <2>2. m \in adj
    <3> HIDE DEF adj
    <3> QED BY <1>2, <2>1, FirstHdl
  <2>3. m \in Hdl /\ m # i
    BY <2>2 DEF Neighbours
  <2>4. s1 \in {i, m}
    BY DEF Lower
  <2>5. t1 \in [Hdl -> Emb]
    <3> HIDE DEF m
    <3> QED BY <2>3, MergeEffect
  <2>6. \A q \in Hdl : t1[q].flags = "USED" /\ q # s1
                          => q \notin {i, m} /\ t[q].flags = "USED"
    <3> HIDE DEF m
    <3> QED BY <2>3, MergeUses
  <2> QED BY <2>3, <2>4, <2>5, <2>6
<1>3. CASE adj # {} /\ later = {}
  <2>1. FreeTab(t, i) = [t1 EXCEPT ![s1].flags = IF t1[s1].size = 0 THEN "INPOOL" ELSE "FREE"]
    BY <1>3 DEF FreeTab
  <2>2. /\ t1 \in [Hdl -> Emb] /\ s1 \in Hdl
        /\ \A q \in Hdl : t1[q].flags = "USED" /\ q # s1
                            => q \notin {i, m} /\ t[q].flags = "USED"
    BY <1>2, <1>3
  <2>3. FreeTab(t, i)[k].flags = "USED"
    OBVIOUS
  <2> HIDE DEF t1, s1, m
  <2>4. k # s1 /\ t1[k].flags = "USED"
    BY <2>1, <2>2, <2>3 DEF Emb
  <2> QED BY <2>2, <2>4
<1>4. CASE adj # {} /\ later # {}
  <2>1. n \in Hdl /\ n # i /\ n # m
    <3>1. later \in SUBSET Hdl
      BY DEF Neighbours
    <3>2. n \in later
      <4> HIDE DEF later
      <4> QED BY <1>4, <3>1, FirstHdl
    <3>3. n \in adj /\ n > m
      BY <3>2 DEF StillScanned
    <3>4. m \in Int /\ n \in Int
      BY <1>2, <1>4, <3>1, <3>2 DEF Hdl
    <3>5. n # m
      <4> HIDE DEF n, m
      <4> QED BY <3>3, <3>4
    <3> QED BY <3>3, <3>5 DEF Neighbours
  <2>2. /\ t1 \in [Hdl -> Emb] /\ s1 \in Hdl /\ s1 # n
        /\ \A q \in Hdl : t1[q].flags = "USED" /\ q # s1
                            => q \notin {i, m} /\ t[q].flags = "USED"
    BY <1>2, <1>4, <2>1
  <2>3. FreeTab(t, i) = [t2 EXCEPT ![s2].flags = IF t2[s2].size = 0 THEN "INPOOL" ELSE "FREE"]
    BY <1>4 DEF FreeTab
  <2>4. s2 \in {s1, n}
    BY DEF Lower
  <2>5. /\ t2 \in [Hdl -> Emb]
        /\ \A q \in Hdl : t2[q].flags = "USED" /\ q # s2
                            => q \notin {s1, n} /\ t1[q].flags = "USED"
    <3> HIDE DEF t1, s1, n
    <3>1. t2 \in [Hdl -> Emb]
      BY <2>1, <2>2, MergeEffect
    <3>2. \A q \in Hdl : t2[q].flags = "USED" => q = s2 \/ (q \notin {s1, n} /\ t1[q].flags = "USED")
      BY <2>1, <2>2, MergeUses
    <3> QED BY <3>1, <3>2
  <2>6. FreeTab(t, i)[k].flags = "USED"
    OBVIOUS
  <2> HIDE DEF t2, s2, t1, s1, n, m
  <2>7. k # s2 /\ t2[k].flags = "USED"
    BY <2>1, <2>2, <2>3, <2>4, <2>5, <2>6 DEF Emb
  <2>8. k # s1 /\ t1[k].flags = "USED"
    BY <2>5, <2>7
  <2> QED BY <2>2, <2>8
<1> QED BY <1>1, <1>3, <1>4

-----------------------------------------------------------------------------
(* A move: allocate, exchange, free.                                       *)

LEMMA ReallocMoveGood ==
  ASSUME NEW M, Good(h, M), NEW i \in Hdl, NEW sz \in Nat, ReallocMove(i, sz)
  PROVE  /\ Good(h', M)
         /\ \A k \in Hdl \ {i} : h[k].flags = "USED" => h'[k] = h[k]
         /\ \A k \in Hdl \ {i} : h'[k].flags = "USED" => h[k].flags = "USED"
<1> DEFINE sext == h[i].base >= FourGB
           j    == AllocHdl(h, sz, sext)
           t1   == AllocTab(h, sz, sext)
           t2   == [t1 EXCEPT ![i] = t1[j], ![j] = t1[i]]
<1>1. h \in [Hdl -> Emb] /\ sext \in BOOLEAN
  BY DEF Good
<1>2. h[i].flags = "USED" /\ h[i].locks = 0 /\ j # 0 /\ h' = FreeTab(t2, j)
  BY DEF ReallocMove, CanRealloc
<1> HIDE DEF sext
<1>3. j \in Hdl
  BY <1>1, <1>2, AllocHandle
<1>4. Good(t1, M)
  BY <1>1, <1>2, AllocGood
<1>5. \A k \in Hdl : h[k].flags = "USED" => k # j /\ t1[k] = h[k]
  BY <1>1, <1>2, AllocKeeps
<1>6. i # j /\ t1[i] = h[i]
  BY <1>2, <1>5
<1>7. Good(t2, M)
  <2> HIDE DEF t1, j
  <2> QED BY <1>3, <1>4, <1>6, SwapGood
<1>8. t1 \in [Hdl -> Emb] /\ t2 \in [Hdl -> Emb]
  BY <1>4, <1>7 DEF Good
<1>9. /\ t2[j].flags = "USED" /\ t2[j].locks = 0
      /\ \A k \in Hdl \ {i, j} : t2[k] = t1[k]
  <2> HIDE DEF t1, j
  <2> QED BY <1>2, <1>3, <1>6, <1>8
<1> HIDE DEF t2, t1, j
<1>10. Good(h', M)
  BY <1>2, <1>3, <1>7, <1>9, FreeGood
<1>11. ASSUME NEW k \in Hdl \ {i}, h[k].flags = "USED" PROVE h'[k] = h[k]
  <2>1. k \in Hdl /\ k # j /\ t2[k] = h[k]
    BY <1>5, <1>9, <1>11
  <2>2. FreeTab(t2, j)[k] = t2[k]
    BY <1>3, <1>8, <1>9, <1>11, <2>1, FreeKeeps
  <2> QED BY <1>2, <2>1, <2>2
<1>12. ASSUME NEW k \in Hdl \ {i}, h'[k].flags = "USED" PROVE h[k].flags = "USED"
  <2>1. k # j /\ t2[k].flags = "USED"
    BY <1>2, <1>3, <1>8, <1>9, <1>12, FreeUses
  <2>2. t1[k].flags = "USED"
    BY <1>9, <1>12, <2>1
  <2> QED BY <1>1, <1>2, <1>12, <2>1, <2>2, AllocUses DEF t1, j
<1> QED BY <1>10, <1>11, <1>12

-----------------------------------------------------------------------------
(* Good is an inductive invariant.                                         *)

LEMMA RamRegion ==
  ASSUME NEW a \in Int
  PROVE  /\ a \in Ram <=> InRegion(a)
         /\ a \in Ram => a \in Nat
<1> DEFINE S == [base : Nat, size : Nat \ {0}]
<1>1. \A r \in 1 .. Len(Regions) : Regions[r].base \in Nat /\ Regions[r].size \in Nat
  <2>1. Regions \in Seq(S)
    BY XmsAssumption
  <2>2. \A r \in 1 .. Len(Regions) : Regions[r] \in S
    <3> HIDE DEF S
    <3> QED BY <2>1
  <2> QED BY <2>2
<1>2. ASSUME NEW r \in 1 .. Len(Regions)
      PROVE  a \in Regions[r].base .. (Regions[r].base + Regions[r].size - 1)
               <=> Regions[r].base <= a /\ a < Regions[r].base + Regions[r].size
  BY <1>1
<1>3. a \in Ram <=> \E r \in 1 .. Len(Regions) :
                       a \in Regions[r].base .. (Regions[r].base + Regions[r].size - 1)
  BY DEF Ram
<1> QED BY <1>1, <1>2, <1>3 DEF InRegion

(* A table that manages the RAM is complete.                               *)
LEMMA GoodComplete ==
  ASSUME NEW t, Good(t, Ram)
  PROVE  Filled(t) /\ Contained(t)
<1>1. t \in [Hdl -> Emb] /\ \A a \in Nat : (\E i \in Hdl : Covers(t, i, a)) <=> a \in Ram
  BY DEF Good
<1>2. Filled(t)
  <2> SUFFICES ASSUME NEW r \in 1 .. Len(Regions),
                      NEW a \in Regions[r].base .. (Regions[r].base + Regions[r].size - 1)
               PROVE  \E i \in Hdl : Covers(t, i, a)
    BY DEF Filled
  <2>1. a \in Int /\ a \in Ram
    BY DEF Ram
  <2> QED BY <1>1, <2>1, RamRegion
<1>3. Contained(t)
  <2> SUFFICES ASSUME NEW i \in Hdl, Live(t, i), NEW a \in t[i].base .. (Ends(t, i) - 1)
               PROVE  InRegion(a)
    BY DEF Contained
  <2>1. t[i].base \in Nat /\ t[i].size \in Nat
    BY <1>1 DEF Emb
  <2>2. a \in Nat /\ Covers(t, i, a)
    BY <2>1 DEF Covers, Ends
  <2> QED BY <1>1, <2>2, RamRegion
<1> QED BY <1>2, <1>3

LEMMA BootGood ==
  ASSUME NEW t, t = BootTab
  PROVE  Good(t, Ram)
<1> DEFINE N == Len(Regions)
<1>1. N \in Nat /\ N <= NumHandles /\ NumHandles \in Nat
  BY XmsAssumption
<1>2. \A r \in 1 .. N : Regions[r].base \in Nat /\ Regions[r].size \in Nat /\ Regions[r].size > 0
  <2> DEFINE S == [base : Nat, size : Nat \ {0}]
  <2>1. Regions \in Seq(S)
    BY XmsAssumption
  <2>2. \A r \in 1 .. N : Regions[r] \in S
    <3> HIDE DEF S
    <3> QED BY <2>1
  <2> QED BY <2>2
<1>3. \A i \in Hdl : t[i] = IF i <= N THEN FreeBlock(Regions[i].base, Regions[i].size) ELSE Blank(0)
  BY DEF BootTab
<1>4. ASSUME NEW i \in Hdl
      PROVE  /\ i <= N => /\ i \in 1 .. N /\ Live(t, i) /\ t[i].flags = "FREE" /\ t[i].locks = 0
                          /\ t[i].base = Regions[i].base /\ t[i].size = Regions[i].size
             /\ ~(i <= N) => /\ ~Live(t, i) /\ t[i].flags = "INPOOL"
                             /\ t[i].locks = 0 /\ t[i].size = 0
  <2>1. ASSUME i <= N
        PROVE  /\ i \in 1 .. N /\ Live(t, i) /\ t[i].flags = "FREE" /\ t[i].locks = 0
               /\ t[i].base = Regions[i].base /\ t[i].size = Regions[i].size
    <3>1. i \in 1 .. N
      <4> HIDE DEF N
      <4> QED BY <1>1, <2>1 DEF Hdl
    <3>2. t[i] = FreeBlock(Regions[i].base, Regions[i].size)
      BY <1>3, <2>1
    <3> HIDE DEF N
    <3> QED BY <3>1, <3>2 DEF Live, FreeBlock
  <2>2. ASSUME ~(i <= N)
        PROVE  ~Live(t, i) /\ t[i].flags = "INPOOL" /\ t[i].locks = 0 /\ t[i].size = 0
    BY <1>3, <2>2 DEF Live, Blank
  <2> QED BY <2>1, <2>2
<1>5. t \in [Hdl -> Emb]
  <2>1. \A i \in Hdl : t[i] \in Emb
    <3> TAKE i \in Hdl
    <3>1. 0 \in 0 .. MaxLocks
      BY XmsAssumption
    <3>2. CASE i <= N
      <4>1. t[i] = FreeBlock(Regions[i].base, Regions[i].size) /\ i \in 1 .. N
        BY <1>3, <1>4, <3>2
      <4>2. Regions[i].base \in Nat /\ Regions[i].size \in Nat
        BY <1>2, <4>1
      <4> QED BY <3>1, <4>1, <4>2 DEF Emb, FreeBlock
    <3>3. CASE ~(i <= N)
      BY <1>3, <3>1, <3>3 DEF Emb, Blank
    <3> QED BY <3>2, <3>3
  <2> QED BY <2>1 DEF BootTab
<1>6. \A i \in Hdl, a \in Int :
         Covers(t, i, a) <=> i \in 1 .. N /\ Regions[i].base <= a
                                          /\ a < Regions[i].base + Regions[i].size
  BY <1>1, <1>4 DEF Covers, Ends, Hdl
<1>7. \A r, q \in 1 .. N : r # q => \/ Regions[r].base + Regions[r].size <= Regions[q].base
                                   \/ Regions[q].base + Regions[q].size <= Regions[r].base
  BY XmsAssumption
<1>8. \A i, j \in Hdl, a \in Int : Covers(t, i, a) /\ Covers(t, j, a) => j = i
  <2> SUFFICES ASSUME NEW i \in Hdl, NEW j \in Hdl, NEW a \in Int,
                      Covers(t, i, a), Covers(t, j, a), j # i
               PROVE  FALSE
    OBVIOUS
  <2>1. /\ i \in 1 .. N /\ Regions[i].base <= a /\ a < Regions[i].base + Regions[i].size
        /\ j \in 1 .. N /\ Regions[j].base <= a /\ a < Regions[j].base + Regions[j].size
    BY <1>6
  <2> HIDE DEF N
  <2> QED BY <1>2, <1>7, <2>1
<1>9. Disjoint(t)
  <2> SUFFICES ASSUME NEW i \in Hdl, Live(t, i), NEW a \in t[i].base .. (Ends(t, i) - 1),
                      NEW j \in Hdl, Covers(t, j, a)
               PROVE  j = i
    BY DEF Disjoint
  <2>1. t[i].base \in Nat /\ t[i].size \in Nat
    BY <1>5 DEF Emb
  <2>2. a \in Int /\ Covers(t, i, a)
    BY <2>1 DEF Covers, Ends
  <2> QED BY <1>8, <2>2
<1>10. \A a \in Nat : (\E i \in Hdl : Covers(t, i, a)) <=> a \in Ram
  <2> SUFFICES ASSUME NEW a \in Nat
               PROVE  (\E i \in Hdl : Covers(t, i, a)) <=> a \in Ram
    OBVIOUS
  <2>1. a \in Ram <=> \E r \in 1 .. N : Regions[r].base <= a /\ a < Regions[r].base + Regions[r].size
    BY RamRegion DEF InRegion
  <2>2. 1 .. N \subseteq Hdl
    BY <1>1 DEF Hdl
  <2> QED BY <1>6, <2>1, <2>2
<1>11. Clean(t)
  <2> SUFFICES ASSUME NEW i \in Hdl
               PROVE  /\ t[i].flags = "FREE" => t[i].size > 0
                      /\ t[i].flags = "INPOOL" => t[i].size = 0
                      /\ t[i].flags # "USED" => t[i].locks = 0
    BY DEF Clean
  <2>1. CASE i <= N
    <3>1. /\ i \in 1 .. N /\ t[i].flags = "FREE" /\ t[i].locks = 0
          /\ t[i].size = Regions[i].size
      BY <1>4, <2>1
    <3> QED BY <1>2, <3>1
  <2>2. CASE ~(i <= N)
    <3>1. t[i].flags = "INPOOL" /\ t[i].locks = 0 /\ t[i].size = 0
      BY <1>4, <2>2
    <3> QED BY <3>1
  <2> QED BY <2>1, <2>2
<1> QED BY <1>5, <1>9, <1>10, <1>11 DEF Good

IInv == Good(h, Ram)

LEMMA NextGood ==
  ASSUME NEW M, Good(h, M), [Next]_h
  PROVE  Good(h', M)
<1>1. h \in [Hdl -> Emb] /\ ReqSizes \subseteq Nat /\ MaxLocks \in Nat
  BY XmsAssumption DEF Good
<1>2. ASSUME NEW sz \in ReqSizes, NEW sext \in BOOLEAN, AllocEmb(sz, sext)
      PROVE  Good(h', M)
  BY <1>1, <1>2, AllocGood DEF AllocEmb
<1>3. ASSUME NEW i \in Hdl, FreeEmb(i) PROVE Good(h', M)
  BY <1>3, FreeGood DEF FreeEmb
<1>4. ASSUME NEW i \in Hdl, LockEmb(i) PROVE Good(h', M)
  <2>1. h[i].flags = "USED" /\ h[i].locks + 1 \in 0 .. MaxLocks
    BY <1>1, <1>4 DEF LockEmb, Emb
  <2> QED BY <1>4, <2>1, LockCountGood DEF LockEmb
<1>5. ASSUME NEW i \in Hdl, UnlockEmb(i) PROVE Good(h', M)
  <2>1. h[i].flags = "USED" /\ h[i].locks - 1 \in 0 .. MaxLocks
    BY <1>1, <1>5 DEF UnlockEmb, Emb
  <2> QED BY <1>5, <2>1, LockCountGood DEF UnlockEmb
<1>6. ASSUME NEW i \in Hdl, NEW sz \in ReqSizes, ReallocInto(i, sz) PROVE Good(h', M)
  BY <1>1, <1>6, ReallocIntoGood
<1>7. ASSUME NEW i \in Hdl, NEW sz \in ReqSizes, ReallocShrink(i, sz) PROVE Good(h', M)
  BY <1>1, <1>7, ReallocShrinkGood
<1>8. ASSUME NEW i \in Hdl, NEW sz \in ReqSizes, ReallocMove(i, sz) PROVE Good(h', M)
  BY <1>1, <1>8, ReallocMoveGood
<1>9. CASE UNCHANGED h
  BY <1>9 DEF Good, Disjoint, Clean, Covers, Live, Ends
<1> QED BY <1>2, <1>3, <1>4, <1>5, <1>6, <1>7, <1>8, <1>9 DEF Next
-----------------------------------------------------------------------------
LEMMA AlwaysGood == Spec => []IInv
<1>1. Init => IInv
  BY BootGood DEF Init, IInv
<1>2. IInv /\ [Next]_h => IInv'
  BY NextGood DEF IInv
<1> QED BY <1>1, <1>2, PTL DEF Spec

(* Every entry of xms_handle_array stays a well-formed XMS_HANDLE: above   *)
(* all, no subtraction of a split or of an unlock ever goes below zero.  A *)
(* FREE handle has memory, a blank one none, and neither is ever locked.   *)
THEOREM TypeCorrect == Spec => []TypeOK
<1>1. IInv => TypeOK
  BY DEF IInv, Good, TypeOK
<1> QED BY <1>1, AlwaysGood, PTL

(* Across all splits, merges and moves of xms_alloc_emb, xms_free_emb and  *)
(* xms_ext_realloc_emb the blocks of the table remain pairwise disjoint.   *)
THEOREM SafeMemory == Spec => []NoOverlap
<1>1. IInv => NoOverlap
  BY DEF IInv, Good, NoOverlap
<1> QED BY <1>1, AlwaysGood, PTL

(* The live blocks always add up to the RAM that I15SetHandle entered at   *)
(* boot: no call loses memory, and none hands out memory that is not RAM.  *)
THEOREM NothingLost == Spec => []Complete
<1>1. IInv => Complete
  BY GoodComplete DEF IInv, Complete
<1> QED BY <1>1, AlwaysGood, PTL

-----------------------------------------------------------------------------
(* Every call has one handle i: it leaves all other used handles as they   *)
(* are and makes no other one used, and it leaves handle i as it is too,   *)
(* except for its lock count, if i is locked.                              *)
Keeps(i) ==
  /\ \A k \in Hdl \ {i} : h[k].flags = "USED" => h'[k] = h[k]
  /\ \A k \in Hdl \ {i} : h'[k].flags = "USED" => h[k].flags = "USED"
  /\ (h[i].flags = "USED" /\ h[i].locks > 0) =>
        h'[i].flags = h[i].flags /\ h'[i].base = h[i].base /\ h'[i].size = h[i].size

LEMMA AllocStepKeeps ==
  ASSUME NEW M, Good(h, M), NEW sz \in ReqSizes, NEW sext \in BOOLEAN, AllocEmb(sz, sext)
  PROVE  /\ AllocHdl(h, sz, sext) \in Hdl
         /\ h[AllocHdl(h, sz, sext)].flags # "USED"
         /\ Keeps(AllocHdl(h, sz, sext))
<1>1. h \in [Hdl -> Emb] /\ ReqSizes \subseteq Nat
  BY XmsAssumption DEF Good
<1>2. AllocHdl(h, sz, sext) # 0 /\ h' = AllocTab(h, sz, sext) /\ sz \in Nat
  BY <1>1 DEF AllocEmb
<1>3. AllocHdl(h, sz, sext) \in Hdl
  BY <1>1, <1>2, AllocHandle
<1>4. \A k \in Hdl : h[k].flags = "USED" => h'[k] = h[k]
  BY <1>1, <1>2, AllocKeeps
<1>5. \A k \in Hdl \ {AllocHdl(h, sz, sext)} : h'[k].flags = "USED" => h[k].flags = "USED"
  BY <1>1, <1>2, AllocUses
<1>6. h[AllocHdl(h, sz, sext)].flags # "USED"
  BY <1>3, <1>1, <1>2, AllocKeeps
<1> QED BY <1>3, <1>4, <1>5, <1>6 DEF Keeps

LEMMA CallKeeps ==
  ASSUME NEW M, Good(h, M), NEW i \in Hdl,
         \/ FreeEmb(i) \/ LockEmb(i) \/ UnlockEmb(i)
         \/ \E sz \in ReqSizes : ReallocEmb(i, sz)
  PROVE  Keeps(i)
<1>1. h \in [Hdl -> Emb] /\ ReqSizes \subseteq Nat /\ Good(h, M)
  BY XmsAssumption DEF Good
<1>3. ASSUME FreeEmb(i) PROVE Keeps(i)
  <2>1. h[i].flags = "USED" /\ h[i].locks = 0 /\ h' = FreeTab(h, i)
    BY <1>3 DEF FreeEmb
  <2>2. \A k \in Hdl \ {i} : h[k].flags = "USED" => h'[k] = h[k]
    BY <1>1, <2>1, FreeKeeps
  <2>3. \A k \in Hdl : h'[k].flags = "USED" => h[k].flags = "USED"
    BY <1>1, <2>1, FreeUses
  <2> QED BY <2>1, <2>2, <2>3 DEF Keeps
<1>4. ASSUME LockEmb(i) \/ UnlockEmb(i) PROVE Keeps(i)
  <2>1. PICK l : h' = [h EXCEPT ![i].locks = l]
    BY <1>4 DEF LockEmb, UnlockEmb
  <2>2. h'[i].flags = h[i].flags /\ h'[i].base = h[i].base /\ h'[i].size = h[i].size
    BY <1>1, <2>1 DEF Emb
  <2>3. \A k \in Hdl \ {i} : h'[k] = h[k]
    BY <1>1, <2>1
  <2> QED BY <2>2, <2>3 DEF Keeps
<1>5. ASSUME NEW sz \in ReqSizes, ReallocInto(i, sz) PROVE Keeps(i)
  <2> DEFINE k == First(Successors(h, i))
             rest == h[i].size + h[k].size - sz
             e == IF rest = 0 THEN Blank(h[k].locks)
                  ELSE [flags |-> "FREE", locks |-> h[k].locks,
                        base |-> h[i].base + sz, size |-> rest]
  <2>1. h' = [h EXCEPT ![i].size = sz, ![k] = e] /\ e.flags # "USED"
    BY <1>5 DEF ReallocInto, Blank
  <2>2. h[i].locks = 0 /\ k \in Hdl /\ h[k].flags # "USED"
    BY <1>5, FirstSuccessor DEF ReallocInto, CanRealloc
  <2> HIDE DEF k, e
  <2>3. \A l \in Hdl \ {i} : h[l].flags = "USED" => h'[l] = h[l]
    BY <1>1, <2>1, <2>2
  <2>4. \A l \in Hdl \ {i} : h'[l].flags = "USED" => h[l].flags = "USED"
    BY <1>1, <2>1, <2>2
  <2> QED BY <2>2, <2>3, <2>4 DEF Keeps
<1>6. ASSUME NEW sz \in ReqSizes, ReallocShrink(i, sz) PROVE Keeps(i)
  <2> DEFINE k == First(Blanks(h))
  <2>1. h' = [h EXCEPT ![i].size = sz,
                       ![k] = [flags |-> "FREE", locks |-> @.locks,
                               base |-> h[i].base + sz, size |-> h[i].size - sz]]
    BY <1>6 DEF ReallocShrink
  <2>2. h[i].locks = 0 /\ k \in Hdl /\ h[k].flags # "USED"
    BY <1>6, FirstBlank DEF ReallocShrink, CanRealloc
  <2> HIDE DEF k
  <2>3. \A l \in Hdl \ {i} : h[l].flags = "USED" => h'[l] = h[l]
    BY <1>1, <2>1, <2>2
  <2>4. \A l \in Hdl \ {i} : h'[l].flags = "USED" => h[l].flags = "USED"
    BY <1>1, <2>1, <2>2
  <2> QED BY <2>2, <2>3, <2>4 DEF Keeps
<1>7. ASSUME NEW sz \in ReqSizes, ReallocMove(i, sz) PROVE Keeps(i)
  <2>1. /\ \A k \in Hdl \ {i} : h[k].flags = "USED" => h'[k] = h[k]
        /\ \A k \in Hdl \ {i} : h'[k].flags = "USED" => h[k].flags = "USED"
    BY <1>1, <1>7, ReallocMoveGood
  <2>2. h[i].locks = 0
    BY <1>7 DEF ReallocMove, CanRealloc
  <2> QED BY <2>1, <2>2 DEF Keeps
<1> QED BY <1>3, <1>4, <1>5, <1>6, <1>7 DEF ReallocEmb

LEMMA StepKeeps ==
  ASSUME NEW M, Good(h, M), [Next]_h
  PROVE  \E i \in Hdl : Keeps(i)
<1>1. ASSUME NEW sz \in ReqSizes, NEW sext \in BOOLEAN, AllocEmb(sz, sext)
      PROVE  \E i \in Hdl : Keeps(i)
  BY <1>1, AllocStepKeeps
<1>2. ASSUME NEW i \in Hdl,
             \/ FreeEmb(i) \/ LockEmb(i) \/ UnlockEmb(i)
             \/ \E sz \in ReqSizes : ReallocEmb(i, sz)
      PROVE  Keeps(i)
  BY <1>2, CallKeeps
<1>3. CASE UNCHANGED h
  <2>1. 1 \in Hdl
    BY XmsAssumption DEF Hdl
  <2> QED BY <1>3, <2>1 DEF Keeps
<1> QED BY <1>1, <1>2, <1>3 DEF Next, ReallocEmb

(* A client that locked a block works with its physical address: no free,  *)
(* reallocation or move of any client changes a block while it is locked.  *)
THEOREM LocksHold == Spec => LockedStays
<1> DEFINE Step == \A i \in Hdl : (h[i].flags = "USED" /\ h[i].locks > 0) =>
                       /\ h'[i].flags = "USED"
                       /\ h'[i].base = h[i].base
                       /\ h'[i].size = h[i].size
<1>1. IInv /\ [Next]_h => [Step]_h
  <2> SUFFICES ASSUME IInv, [Next]_h PROVE Step
    OBVIOUS
  <2>1. PICK i \in Hdl : Keeps(i)
    BY StepKeeps DEF IInv
  <2> QED BY <2>1 DEF Keeps
<1> HIDE DEF Step
<1>2. Spec => [][Step]_h
  BY <1>1, AlwaysGood, PTL DEF Spec
<1> QED BY <1>2 DEF LockedStays, Step

(* In a good table every used handle has RAM, and nobody else has any of it. *)
LEMMA OwnersApart ==
  ASSUME NEW t, Good(t, Ram), NEW i \in Hdl
  PROVE  Owned(t)[i] \subseteq Ram /\ Owned(t)[i] \cap UNION {Owned(t)[p] : p \in Hdl \ {i}} = {}
<1>1. t \in [Hdl -> Emb] /\ Disjoint(t) /\ Contained(t)
  BY GoodComplete DEF Good
<1>2. \A k \in Hdl : Owned(t)[k] = IF t[k].flags = "USED" THEN t[k].base .. (Ends(t, k) - 1) ELSE {}
  BY DEF Owned
<1>3. ASSUME NEW k \in Hdl, NEW a \in Owned(t)[k]
      PROVE  Live(t, k) /\ a \in t[k].base .. (Ends(t, k) - 1) /\ Covers(t, k, a)
  <2>1. t[k].flags = "USED" /\ a \in t[k].base .. (Ends(t, k) - 1)
    BY <1>2, <1>3
  <2>2. t[k].base \in Nat /\ t[k].size \in Nat
    BY <1>1 DEF Emb
  <2>3. t[k].base <= a /\ a < Ends(t, k)
    BY <2>1, <2>2 DEF Ends
  <2> QED BY <2>1, <2>3 DEF Live, Covers
<1>4. ASSUME NEW a \in Owned(t)[i] PROVE a \in Ram
  <2>1. InRegion(a) /\ a \in Nat
    <3>1. a \in t[i].base .. (Ends(t, i) - 1) /\ t[i].base \in Nat /\ Live(t, i)
      BY <1>1, <1>3, <1>4 DEF Emb
    <3> QED BY <1>1, <3>1 DEF Contained
  <2> QED BY <2>1, RamRegion
<1>5. ASSUME NEW p \in Hdl \ {i}, NEW a \in Owned(t)[i], a \in Owned(t)[p] PROVE FALSE
  <2>1. Covers(t, p, a) /\ Live(t, i) /\ a \in t[i].base .. (Ends(t, i) - 1)
    BY <1>3, <1>5
  <2> QED BY <1>1, <1>5, <2>1 DEF Disjoint
<1> QED BY <1>4, <1>5

(* The table implements a MemStore: each used handle owns its block alone, *)
(* inside the RAM, and a call changes the memory of one handle only.       *)
THEOREM XmsIsAStore == Spec => ImplementsStore
<1>1. ASSUME NEW t, Good(t, Ram)
      PROVE  /\ Owned(t) \in [Hdl -> SUBSET Ram]
             /\ \A i \in Hdl : /\ Owned(t)[i] \subseteq Ram
                               /\ Owned(t)[i] \cap UNION {Owned(t)[p] : p \in Hdl \ {i}} = {}
  <2>1. \A i \in Hdl : /\ Owned(t)[i] \subseteq Ram
                       /\ Owned(t)[i] \cap UNION {Owned(t)[p] : p \in Hdl \ {i}} = {}
    BY <1>1, OwnersApart
  <2>2. Owned(t) = [i \in Hdl |-> Owned(t)[i]]
    BY DEF Owned
  <2> QED BY <2>1, <2>2
<1>2. Init => Store!StoreInit
  BY BootGood, <1>1 DEF Init, Store!StoreInit, Store!OthersOf
<1>3. IInv /\ IInv' /\ [Next]_h => [Store!StoreNext]_(Owned(h))
  <2> SUFFICES ASSUME IInv, IInv', [Next]_h
               PROVE  [Store!StoreNext]_(Owned(h))
    OBVIOUS
  <2>1. Good(h, Ram) /\ Good(h', Ram) /\ h \in [Hdl -> Emb] /\ h' \in [Hdl -> Emb]
    BY DEF IInv, Good
  <2>2. PICK i \in Hdl : Keeps(i)
    BY StepKeeps DEF IInv
  <2>3. \A k \in Hdl \ {i} : Owned(h')[k] = Owned(h)[k]
    BY <2>1, <2>2 DEF Keeps, Owned, Ends
  <2>4. Owned(h') \in [Hdl -> SUBSET Ram] /\ Owned(h) \in [Hdl -> SUBSET Ram]
    BY <1>1, <2>1
  <2>5. Owned(h') = [Owned(h) EXCEPT ![i] = Owned(h')[i]]
    <3> DEFINE A == Owned(h)
               B == Owned(h')
    <3> HIDE DEF A, B
    <3> QED BY <2>3, <2>4 DEF A, B
  <2>6. UNION {Owned(h')[p] : p \in Hdl \ {i}} = UNION {Owned(h)[p] : p \in Hdl \ {i}}
    BY <2>3
  <2>7. Owned(h')[i] \subseteq Ram \ UNION {Owned(h)[p] : p \in Hdl \ {i}}
    BY <1>1, <2>1, <2>6
  <2> QED BY <2>5, <2>7 DEF Store!StoreNext, Store!Serve, Store!OthersOf
<1> QED BY <1>2, <1>3, AlwaysGood, PTL DEF Spec, ImplementsStore, Store!StoreSpec
=============================================================================
