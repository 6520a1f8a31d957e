----------------------------- MODULE PoolProofs ------------------------------
(***************************************************************************)
(* Proofs about the page pool for every machine.                           *)
(***************************************************************************)
EXTENDS Pool, XmsProofs

-----------------------------------------------------------------------------
(* Arithmetic of pages and chunks.                                         *)

LEMMA Sizes ==
  /\ PageK \in Nat /\ PageK > 0 /\ ChunkK \in Nat /\ ChunkK > 0 /\ PageK <= ChunkK
  /\ BlockK \in Nat /\ BlockK = (2 * Space) * ChunkK /\ BlockK >= ChunkK
  /\ 2 * Space \in Nat /\ PPC \in Nat /\ PPC > 0
<1>1. PageK \in Nat /\ PageK > 0 /\ PPC \in Nat /\ PPC > 0 /\ Space \in Nat /\ Space > 0
  BY PoolAssumption DEF PoolSizes
<1>2. ChunkK \in Nat /\ ChunkK > 0 /\ PageK <= ChunkK
  BY <1>1 DEF ChunkK
<1>3. BlockK \in Nat /\ BlockK = (2 * Space) * ChunkK /\ BlockK >= ChunkK
  BY <1>1, <1>2 DEF BlockK
<1> QED BY <1>1, <1>2, <1>3

LEMMA DivFacts ==
  ASSUME NEW d \in Nat, d > 0, NEW a \in Nat
  PROVE  /\ a \div d \in Nat /\ (a \div d) * d <= a /\ a < (a \div d) * d + d
         /\ a % d = a - (a \div d) * d
  BY SMT

LEMMA Multiple ==
  ASSUME NEW d \in Nat, d > 0, NEW q \in Nat
  PROVE  /\ (q * d) % d = 0 /\ (q * d + d - 1) \div d = q
         /\ (q * d) \div d = q
  BY SMT

LEMMA RoundUpFacts ==
  ASSUME NEW a \in Nat
  PROVE  /\ RoundUp(a) \in Nat /\ a <= RoundUp(a) /\ RoundUp(a) < a + PageK
         /\ RoundUp(a) % PageK = 0
         /\ a % PageK = 0 => RoundUp(a) = a
<1> DEFINE q == (a + PageK - 1) \div PageK
<1>1. PageK \in Nat /\ PageK > 0 /\ a + PageK - 1 \in Nat
  BY Sizes
<1>2. q \in Nat /\ q * PageK <= a + PageK - 1 /\ a + PageK - 1 < q * PageK + PageK
  BY <1>1, DivFacts
<1>3. RoundUp(a) = q * PageK
  BY DEF RoundUp
<1>4. q * PageK \in Nat
  BY <1>1, <1>2
<1>5. (q * PageK) % PageK = 0
  BY <1>1, <1>2, Multiple
<1>6. ASSUME a % PageK = 0 PROVE RoundUp(a) = a
  <2>1. a \div PageK \in Nat /\ a = (a \div PageK) * PageK
    BY <1>1, <1>6, DivFacts
  <2>2. ((a \div PageK) * PageK + PageK - 1) \div PageK = a \div PageK
    BY <1>1, <2>1, Multiple
  <2> QED BY <2>1, <2>2 DEF RoundUp
<1> HIDE DEF q
<1> QED BY <1>1, <1>2, <1>3, <1>4, <1>5, <1>6

(* Whole chunks from a page boundary on end on a page boundary.            *)
LEMMA ChunksAligned ==
  ASSUME NEW a \in Nat, a % PageK = 0, NEW m \in Nat
  PROVE  /\ m * ChunkK \in Nat /\ (a + m * ChunkK) % PageK = 0
         /\ (m + 2) * ChunkK = m * ChunkK + 2 * ChunkK
         /\ m >= 1 => m * ChunkK >= ChunkK
         /\ m = 0 => m * ChunkK = 0
<1> DEFINE q == a \div PageK
           p == m * PPC
<1>1. PageK \in Nat /\ PageK > 0 /\ PPC \in Nat /\ ChunkK \in Nat /\ ChunkK = PageK * PPC
  BY Sizes DEF ChunkK
<1>2. q \in Nat /\ a = q * PageK
  BY <1>1, DivFacts
<1>3. p \in Nat /\ m * ChunkK = p * PageK
  BY <1>1
<1> HIDE DEF q, p
<1>4. q * PageK + p * PageK = (q + p) * PageK /\ q + p \in Nat
  BY <1>1, <1>2, <1>3
<1>5. ((q + p) * PageK) % PageK = 0
  BY <1>1, <1>4, Multiple
<1>6. m * ChunkK \in Nat /\ (m + 2) * ChunkK = m * ChunkK + 2 * ChunkK
      /\ (m >= 1 => m * ChunkK >= ChunkK) /\ (m = 0 => m * ChunkK = 0)
  BY <1>1
<1> QED BY <1>2, <1>3, <1>4, <1>5, <1>6

-----------------------------------------------------------------------------
(* The handle table.  What the pool does to it may lose memory, the rest   *)
(* that an expansion leaves: the table is good for some part of the RAM.   *)

PoolTab(t) == \E M \in SUBSET Ram : Good(t, M)

LEMMA TabFacts ==
  ASSUME NEW t, PoolTab(t)
  PROVE  /\ t \in [Hdl -> Emb] /\ Disjoint(t) /\ Clean(t)
         /\ \A i \in Hdl : /\ t[i].base \in Nat /\ t[i].size \in Nat
                           /\ t[i].flags = "FREE" => t[i].size > 0
                           /\ t[i].flags = "INPOOL" => t[i].size = 0
                           /\ t[i].flags # "USED" => t[i].locks = 0
         /\ \A i, j \in Hdl, a \in Nat : Covers(t, i, a) /\ Covers(t, j, a) => j = i
         /\ \A i \in Hdl, a \in Nat : Covers(t, i, a) => a \in Ram
<1>1. PICK M \in SUBSET Ram : Good(t, M)
  BY DEF PoolTab
<1>2. t \in [Hdl -> Emb] /\ Disjoint(t) /\ Clean(t)
  BY <1>1 DEF Good
<1>3. \A i \in Hdl : t[i].base \in Nat /\ t[i].size \in Nat
  BY <1>2 DEF Emb
<1>4. \A i, j \in Hdl, a \in Nat : Covers(t, i, a) /\ Covers(t, j, a) => j = i
  BY <1>2, CoversNat DEF Disjoint
<1>5. \A i \in Hdl, a \in Nat : Covers(t, i, a) => a \in Ram
  BY <1>1 DEF Good
<1> QED BY <1>2, <1>3, <1>4, <1>5 DEF Clean

(* No RAM is at address 0.                                                 *)
LEMMA RamAboveZero ==
  ASSUME NEW a \in Ram
  PROVE  a \in Nat /\ a > 0
<1> DEFINE S == [base : Nat, size : Nat \ {0}]
<1>1. PICK r \in 1 .. Len(Regions) : a \in Regions[r].base .. (Regions[r].base + Regions[r].size - 1)
  BY DEF Ram
<1>2. Regions[r].base \in Nat /\ Regions[r].size \in Nat /\ Regions[r].base > 0
  <2>1. Regions \in Seq(S)
    BY XmsAssumption
  <2>2. Regions[r] \in S
    <3> HIDE DEF S
    <3> QED BY <1>1, <2>1
  <2> QED BY <2>2, PoolAssumption DEF PoolSizes
<1> QED BY <1>1, <1>2

(* A used or free block with memory is in RAM, and not at address 0.       *)
LEMMA BaseAboveZero ==
  ASSUME NEW t, PoolTab(t), NEW i \in Hdl, Live(t, i), t[i].size > 0
  PROVE  t[i].base > 0
<1>1. t[i].base \in Nat /\ t[i].size \in Nat
  BY TabFacts
<1>2. Covers(t, i, t[i].base)
  BY <1>1 DEF Covers, Ends
<1> QED BY <1>1, <1>2, TabFacts, RamAboveZero

(* A table whose blocks have only lost memory.                             *)
LEMMA Fewer ==
  ASSUME NEW t, PoolTab(t), NEW u \in [Hdl -> Emb], Clean(u),
         \A i \in Hdl, a \in Nat : Covers(u, i, a) => Covers(t, i, a)
  PROVE  PoolTab(u)
<1> DEFINE M == {a \in Ram : \E i \in Hdl : Covers(u, i, a)}
<1>1. \A i \in Hdl : u[i].base \in Nat /\ u[i].size \in Nat
  BY DEF Emb
<1>2. Disjoint(u)
  <2> SUFFICES ASSUME NEW i \in Hdl, Live(u, i), NEW a \in u[i].base .. (Ends(u, i) - 1),
                      NEW j \in Hdl, Covers(u, j, a)
               PROVE  j = i
    BY DEF Disjoint
  <2>1. a \in Nat /\ Covers(u, i, a)
    BY <1>1 DEF Covers, Ends
  <2> QED BY <2>1, TabFacts
<1>3. \A a \in Nat : (\E i \in Hdl : Covers(u, i, a)) <=> a \in M
  BY TabFacts
<1>4. M \in SUBSET Ram /\ Good(u, M)
  BY <1>2, <1>3 DEF Good
<1> HIDE DEF M
<1> QED BY <1>4 DEF PoolTab

(* Rearrange and Repartition, for a pool table.                            *)
LEMMA PoolRearrange ==
  ASSUME NEW t, PoolTab(t), NEW u \in [Hdl -> Emb], NEW A \in SUBSET Hdl,
         \A k \in Hdl \ A : u[k] = t[k],
         \A a \in Nat : (\E k \in A : Covers(u, k, a)) <=> (\E k \in A : Covers(t, k, a)),
         \A k, l \in A, a \in Nat : Covers(u, k, a) /\ Covers(u, l, a) => k = l,
         \A k \in A : /\ u[k].flags = "FREE" => u[k].size > 0
                      /\ u[k].flags = "INPOOL" => u[k].size = 0
                      /\ u[k].flags # "USED" => u[k].locks = 0
  PROVE  PoolTab(u)
<1>1. PICK M \in SUBSET Ram : Good(t, M)
  BY DEF PoolTab
<1>2. Good(u, M)
  BY <1>1, Rearrange
<1> QED BY <1>2 DEF PoolTab

LEMMA PoolRepartition ==
  ASSUME NEW t, PoolTab(t), NEW i \in Hdl, NEW k \in Hdl, i # k, t[i].flags = "USED",
         t[k].flags = "INPOOL" \/ (t[k].flags = "FREE" /\ t[k].base = t[i].base + t[i].size),
         NEW sz \in Nat, NEW rest \in Nat, rest + sz = t[i].size + t[k].size,
         NEW u \in [Hdl -> Emb], \A l \in Hdl \ {i, k} : u[l] = t[l],
         u[i].flags = "USED", u[i].base = t[i].base, u[i].size = sz,
         u[k].size = rest, u[k].locks = 0,
         \/ u[k].flags = "INPOOL" /\ rest = 0
         \/ u[k].flags = "FREE" /\ rest > 0 /\ u[k].base = t[i].base + sz
  PROVE  PoolTab(u)
<1>1. PICK M \in SUBSET Ram : Good(t, M)
  BY DEF PoolTab
<1>2. Good(u, M)
  BY <1>1, Repartition
<1> QED BY <1>2 DEF PoolTab

(* A change of flags and locks that keeps a block live keeps the table.    *)
LEMMA Reflag ==
  ASSUME NEW t, PoolTab(t), NEW i \in Hdl, Live(t, i), t[i].size > 0,
         NEW f \in {"FREE", "USED"}, NEW l \in 0 .. MaxLocks, f = "FREE" => l = 0
  PROVE  PoolTab([t EXCEPT ![i].flags = f, ![i].locks = l])
<1> DEFINE u == [t EXCEPT ![i].flags = f, ![i].locks = l]
           A == {i}
<1>1. t \in [Hdl -> Emb]
  BY TabFacts
<1>2. /\ u \in [Hdl -> Emb] /\ \A k \in Hdl \ A : u[k] = t[k]
      /\ u[i].flags = f /\ u[i].locks = l /\ u[i].base = t[i].base /\ u[i].size = t[i].size
  BY <1>1 DEF Emb
<1> SUFFICES PoolTab(u)
  OBVIOUS
<1> HIDE DEF u
<1>3. \A a \in Nat : Covers(u, i, a) <=> Covers(t, i, a)
  BY <1>2 DEF Covers, Live, Ends
<1>4. A \in SUBSET Hdl /\ \A k \in A : k = i
  OBVIOUS
<1>5. \A a \in Nat : (\E k \in A : Covers(u, k, a)) <=> (\E k \in A : Covers(t, k, a))
  BY <1>3
<1> HIDE DEF A
<1>6. \A k, l_1 \in A, a \in Nat : Covers(u, k, a) /\ Covers(u, l_1, a) => k = l_1
  BY <1>4
<1>7. \A k \in A : /\ u[k].flags = "FREE" => u[k].size > 0
                   /\ u[k].flags = "INPOOL" => u[k].size = 0
                   /\ u[k].flags # "USED" => u[k].locks = 0
  BY <1>2, <1>4
<1> QED BY <1>2, <1>4, <1>5, <1>6, <1>7, PoolRearrange

(* Pool_AllocateEMBForPool: the EMB is used and locked, the rest is free.  *)
LEMMA TakenTabGood ==
  ASSUME NEW t, PoolTab(t), NEW i \in Hdl, t[i].flags = "FREE", NEW keep \in Nat,
         keep <= t[i].size, keep # t[i].size => Blanks(t) # {}
  PROVE  LET u == TakenTab(t, i, keep)
         IN  /\ PoolTab(u)
             /\ u[i].flags = "USED" /\ u[i].locks = 1
             /\ u[i].base = t[i].base /\ u[i].size = keep
             /\ \A k \in Hdl : t[k].flags = "USED" => u[k] = t[k]
<1> DEFINE v == [t EXCEPT ![i].flags = "USED", ![i].locks = 1]
           u == TakenTab(t, i, keep)
           j == First(Blanks(t))
<1>1. t \in [Hdl -> Emb] /\ t[i].base \in Nat /\ t[i].size \in Nat /\ t[i].size > 0
  BY TabFacts
<1>2. 1 \in 0 .. MaxLocks /\ 0 \in 0 .. MaxLocks
  BY XmsAssumption
<1>3. PoolTab(v)
  BY <1>1, <1>2, Reflag DEF Live
<1>4. /\ v \in [Hdl -> Emb] /\ \A k \in Hdl \ {i} : v[k] = t[k]
      /\ v[i].flags = "USED" /\ v[i].locks = 1 /\ v[i].base = t[i].base /\ v[i].size = t[i].size
      /\ v[i] = [t[i] EXCEPT !.flags = "USED", !.locks = 1]
  BY <1>1, <1>2 DEF Emb
<1>5. CASE keep = t[i].size
  <2>1. u = v
    <3>1. u = [t EXCEPT ![i] = [@ EXCEPT !.flags = "USED", !.locks = 1, !.size = keep]]
      BY <1>5 DEF TakenTab
    <3>2. u \in [Hdl -> Emb] /\ u[i] = v[i] /\ \A k \in Hdl \ {i} : u[k] = t[k]
      BY <1>1, <1>2, <1>5, <3>1 DEF Emb
    <3> HIDE DEF u, v
    <3> QED BY <1>4, <3>2
  <2> HIDE DEF u, v
  <2> QED BY <1>3, <1>4, <1>5, <2>1 DEF u
<1>6. CASE keep # t[i].size
  <2>1. j \in Hdl /\ t[j].flags = "INPOOL" /\ t[j].size = 0
    BY <1>6, FirstBlank, TabFacts
  <2> DEFINE e == [t[i] EXCEPT !.flags = "USED", !.locks = 1, !.size = keep]
             rest == t[i].size - keep
             g == FreeBlock(t[i].base + keep, rest)
  <2> HIDE DEF j
  <2>2. u = [t EXCEPT ![i] = e, ![j] = g]
    BY <1>6 DEF TakenTab, j
  <2>3. i # j /\ rest \in Nat /\ rest > 0 /\ rest + keep = t[i].size
    BY <1>1, <1>6, <2>1
  <2>4. /\ e \in Emb /\ e.flags = "USED" /\ e.locks = 1 /\ e.base = t[i].base /\ e.size = keep
        /\ g \in Emb /\ g.flags = "FREE" /\ g.locks = 0 /\ g.base = t[i].base + keep /\ g.size = rest
    <3>1. e \in Emb /\ e.flags = "USED" /\ e.locks = 1 /\ e.base = t[i].base /\ e.size = keep
      <4>1. t[i] \in Emb
        BY <1>1
      <4> HIDE DEF rest, g
      <4> QED BY <1>2, <4>1 DEF Emb
    <3>2. g = [flags |-> "FREE", locks |-> 0, base |-> t[i].base + keep, size |-> rest]
      BY DEF FreeBlock
    <3> HIDE DEF rest, e, g
    <3> QED BY <1>1, <1>2, <2>3, <3>1, <3>2 DEF Emb
  <2> HIDE DEF e, g, rest, u, v
  <2>5. /\ u \in [Hdl -> Emb] /\ \A k \in Hdl \ {i, j} : u[k] = t[k]
        /\ u[i] = e /\ u[j] = g
    BY <1>1, <2>1, <2>2, <2>3, <2>4
  <2>6. /\ v[j].flags = "INPOOL" /\ v[j].size = 0 /\ \A k \in Hdl \ {i, j} : u[k] = v[k]
        /\ rest + keep = v[i].size + v[j].size
    BY <1>1, <1>4, <2>1, <2>3, <2>5
  <2>7. PoolTab(u)
    <3>1. /\ u[i].flags = "USED" /\ u[i].base = v[i].base /\ u[i].size = keep
          /\ u[j].size = rest /\ u[j].locks = 0 /\ u[j].flags = "FREE"
          /\ u[j].base = v[i].base + keep
      BY <1>4, <2>4, <2>5
    <3>2. i # j /\ j \in Hdl /\ v[i].flags = "USED" /\ v[j].flags = "INPOOL" /\ rest > 0
          /\ rest \in Nat /\ u \in [Hdl -> Emb]
      BY <1>4, <2>1, <2>3, <2>5, <2>6
    <3> QED BY <1>3, <2>6, <3>1, <3>2, PoolRepartition
  <2> QED BY <2>1, <2>4, <2>5, <2>7 DEF u
<1> QED BY <1>5, <1>6

(* Pool_ExpandBlock moves the border between the owner and the free block  *)
(* behind it; a rest of less than a chunk is in no block any more.         *)
LEMMA HandoverGood ==
  ASSUME NEW t, PoolTab(t), NEW i \in Hdl, NEW n \in Hdl, t[i].flags = "USED",
         t[n].flags = "FREE", t[n].base = Ends(t, i), NEW take \in Nat, take > 0,
         take <= t[n].size
  PROVE  LET u == Handover(t, i, n, take)
         IN  /\ PoolTab(u)
             /\ u[i].flags = "USED" /\ u[i].locks = t[i].locks
             /\ u[i].base = t[i].base /\ u[i].size = t[i].size + take
             /\ \A k \in Hdl \ {i} : t[k].flags = "USED" => u[k] = t[k]
<1> DEFINE u == Handover(t, i, n, take)
           rest == t[n].size - take
           sz == t[i].size + take
           e == [t[i] EXCEPT !.size = sz]
           g == IF rest < ChunkK THEN Blank(t[n].locks)
                ELSE CutFront(t[n], take)
<1>1. /\ t \in [Hdl -> Emb] /\ t[i].base \in Nat /\ t[i].size \in Nat
      /\ t[n].base \in Nat /\ t[n].size \in Nat /\ t[n].size > 0 /\ t[n].locks = 0
  BY TabFacts
<1>2. i # n /\ t[i] \in Emb /\ t[n] \in Emb /\ 0 \in 0 .. MaxLocks
  BY <1>1, XmsAssumption
<1>3. u = [t EXCEPT ![i] = e, ![n] = g]
  <2>1. u = [t EXCEPT ![n] = g, ![i].size = @ + take]
    <3>1. CASE rest < ChunkK
      BY <3>1 DEF Handover
    <3>2. CASE ~(rest < ChunkK)
      BY <3>2 DEF Handover
    <3> QED BY <3>1, <3>2
  <2> HIDE DEF g, u
  <2> QED BY <1>1, <1>2, <2>1
<1>4. rest \in Nat /\ sz \in Nat /\ ChunkK \in Nat /\ ChunkK > 0 /\ rest + sz = t[i].size + t[n].size
  BY <1>1, Sizes
<1>5. e \in Emb /\ e.flags = "USED" /\ e.locks = t[i].locks /\ e.base = t[i].base /\ e.size = sz
  <2> HIDE DEF sz, g
  <2> QED BY <1>2, <1>4 DEF Emb
<1>6. g \in Emb /\ g.locks = 0
      /\ \/ g.flags = "INPOOL" /\ g.size = 0 /\ rest < ChunkK
         \/ g.flags = "FREE" /\ g.size = rest /\ rest > 0 /\ g.base = t[i].base + sz
  <2>1. CASE rest < ChunkK
    BY <1>1, <1>2, <2>1 DEF Emb, Blank
  <2>2. CASE ~(rest < ChunkK)
    <3>1. PICK x \in Emb : x = t[n]
      BY <1>2
    <3>2. t[n].base + take = t[i].base + sz /\ rest > 0 /\ t[n].size - take = rest
      BY <1>1, <1>4, <2>2 DEF Ends
    <3>3. g = [x EXCEPT !.base = x.base + take, !.size = rest]
      <4>1. g = [x EXCEPT !.base = @ + take, !.size = @ - take]
        BY <2>2, <3>1 DEF CutFront
      <4>2. [x EXCEPT !.base = @ + take].size = x.size
        BY DEF Emb
      <4> QED BY <3>1, <3>2, <4>1, <4>2
    <3>4. x.base + take \in Nat /\ x.flags = "FREE" /\ x.locks = 0 /\ x.base + take = t[i].base + sz
      BY <1>1, <3>1, <3>2
    <3> HIDE DEF sz, g, rest
    <3>5. g \in Emb
      BY <1>4, <3>3, <3>4 DEF Emb
    <3>6. g.flags = "FREE" /\ g.size = rest /\ g.base = x.base + take /\ g.locks = 0
      BY <3>3, <3>4 DEF Emb
    <3> QED BY <3>2, <3>4, <3>5, <3>6
  <2> QED BY <2>1, <2>2
<1> HIDE DEF e, g, rest, sz, u
<1>7. u \in [Hdl -> Emb] /\ u[i] = e /\ u[n] = g /\ \A k \in Hdl \ {i, n} : u[k] = t[k]
  BY <1>1, <1>2, <1>3, <1>5, <1>6
<1>8. CASE g.flags = "FREE"
  <2>1. /\ u[i].flags = "USED" /\ u[i].base = t[i].base /\ u[i].size = sz
        /\ u[n].size = rest /\ u[n].locks = 0 /\ u[n].flags = "FREE" /\ rest > 0
        /\ u[n].base = t[i].base + sz
    BY <1>5, <1>6, <1>7, <1>8
  <2>2. t[n].base = t[i].base + t[i].size
    BY DEF Ends
  <2>3. PoolTab(u)
    BY <1>2, <1>4, <1>7, <2>1, <2>2, PoolRepartition
  <2> QED BY <1>5, <1>7, <2>3 DEF u, sz
<1>9. CASE g.flags = "INPOOL"
  <2> DEFINE v == [t EXCEPT ![n].size = take]
  <2>1. /\ v \in [Hdl -> Emb] /\ v[n].flags = "FREE" /\ v[n].locks = 0 /\ v[n].base = t[n].base
        /\ v[n].size = take /\ \A k \in Hdl \ {n} : v[k] = t[k]
    BY <1>1 DEF Emb
  <2> HIDE DEF v
  <2>2. \A k \in Hdl, a \in Nat : Covers(v, k, a) => Covers(t, k, a)
    <3> SUFFICES ASSUME NEW k \in Hdl, NEW a \in Nat, Covers(v, k, a) PROVE Covers(t, k, a)
      OBVIOUS
    <3>1. CASE k = n
      BY <1>1, <2>1, <3>1 DEF Covers, Live, Ends
    <3>2. CASE k # n
      BY <2>1, <3>2 DEF Covers, Live, Ends
    <3> QED BY <3>1, <3>2
  <2>3. Clean(v)
    BY <2>1, TabFacts DEF Clean
  <2>4. PoolTab(v)
    BY <2>1, <2>2, <2>3, Fewer
  <2>5. /\ u[i].flags = "USED" /\ u[i].base = v[i].base /\ u[i].size = sz
        /\ u[n].size = 0 /\ u[n].locks = 0 /\ u[n].flags = "INPOOL"
        /\ v[i].flags = "USED" /\ v[n].base = v[i].base + v[i].size
        /\ 0 + sz = v[i].size + v[n].size /\ \A k \in Hdl \ {i, n} : u[k] = v[k]
    BY <1>1, <1>2, <1>5, <1>6, <1>7, <1>9, <2>1 DEF Ends, sz
  <2>6. PoolTab(u)
    BY <1>2, <1>4, <1>7, <2>1, <2>4, <2>5, PoolRepartition
  <2> QED BY <1>5, <1>7, <2>6 DEF u, sz
<1> QED BY <1>6, <1>8, <1>9

(* One step of the scan of Pool_FreeEMB joins two adjacent free blocks.    *)
LEMMA AbsorbGood ==
  ASSUME NEW t, PoolTab(t), NEW i \in Hdl, NEW k \in Hdl, i # k,
         t[i].flags = "FREE", t[k].flags = "FREE", t[k].base = Ends(t, i)
  PROVE  LET u == Absorb(t, i, k)
         IN  /\ PoolTab(u)
             /\ u[i].flags = "FREE" /\ u[i].base = t[i].base
             /\ u[i].size = t[i].size + t[k].size /\ u[k].flags = "INPOOL"
             /\ \A l \in Hdl \ {i, k} : u[l] = t[l]
<1> DEFINE u == Absorb(t, i, k)
           A == {i, k}
           sz == t[i].size + t[k].size
           e == [t[i] EXCEPT !.size = sz]
<1>1. /\ t \in [Hdl -> Emb] /\ t[i] \in Emb
      /\ t[i].base \in Nat /\ t[i].size \in Nat /\ t[i].size > 0 /\ t[i].locks = 0
      /\ t[k].base \in Nat /\ t[k].size \in Nat
  BY TabFacts
<1>2. Blank(0) \in Emb /\ Blank(0).flags = "INPOOL" /\ Blank(0).size = 0 /\ Blank(0).locks = 0
  BY XmsAssumption DEF Blank, Emb
<1>3. e \in Emb /\ e.flags = "FREE" /\ e.locks = 0 /\ e.base = t[i].base /\ e.size = sz
  BY <1>1 DEF Emb
<1>4. u = [t EXCEPT ![i] = e, ![k] = Blank(0)]
  BY <1>1 DEF Absorb
<1> HIDE DEF e, u
<1>5. u \in [Hdl -> Emb] /\ u[i] = e /\ u[k] = Blank(0) /\ \A l \in Hdl \ A : u[l] = t[l]
  BY <1>1, <1>2, <1>3, <1>4
<1>6. \A a \in Nat : /\ Covers(u, i, a) <=> Covers(t, i, a) \/ Covers(t, k, a)
                     /\ ~Covers(u, k, a)
  BY <1>1, <1>2, <1>3, <1>5 DEF Covers, Live, Ends
<1>7. A \in SUBSET Hdl /\ i \in A /\ k \in A /\ \A l \in A : l = i \/ l = k
  OBVIOUS
<1> HIDE DEF A
<1>8. \A a \in Nat : (\E l \in A : Covers(u, l, a)) <=> (\E l \in A : Covers(t, l, a))
  BY <1>6, <1>7
<1>9. \A l, m \in A, a \in Nat : Covers(u, l, a) /\ Covers(u, m, a) => l = m
  BY <1>6, <1>7
<1>10. \A l \in A : /\ u[l].flags = "FREE" => u[l].size > 0
                    /\ u[l].flags = "INPOOL" => u[l].size = 0
                    /\ u[l].flags # "USED" => u[l].locks = 0
  BY <1>1, <1>2, <1>3, <1>5, <1>7
<1>11. PoolTab(u)
  BY <1>5, <1>7, <1>8, <1>9, <1>10, PoolRearrange
<1> QED BY <1>2, <1>3, <1>5, <1>11 DEF u, A

(* Pool_FreeEMB: during the scan hi, where the EMB ended, stays in the     *)
(* joined block or at its end, so that only true neighbours are joined.    *)
LEMMA FreeEMBGood ==
  ASSUME NEW t, PoolTab(t), NEW i \in Hdl, t[i].flags = "USED", t[i].size > 0
  PROVE  /\ PoolTab(FreeEMB(t, i))
         /\ \A k \in Hdl \ {i} : t[k].flags = "USED" => FreeEMB(t, i)[k] = t[k]
<1> DEFINE hi == t[i].base + t[i].size
           g0 == [t |-> [t EXCEPT ![i].flags = "FREE", ![i].locks = 0], esi |-> i]
           Step(g, k) ==
             IF g.t[k].flags # "FREE" \/ k = g.esi THEN g
             ELSE IF g.t[k].base = hi
               THEN [g EXCEPT !.t = Absorb(g.t, g.esi, k)]
             ELSE IF g.t[k].base + g.t[k].size = g.t[g.esi].base
               THEN [t |-> Absorb(g.t, k, g.esi), esi |-> k]
             ELSE g
           Keep(u) == \A k \in Hdl \ {i} : t[k].flags = "USED" => u[k] = t[k]
           Mid(u, e) == /\ PoolTab(u) /\ Keep(u) /\ u[e].flags = "FREE"
                        /\ u[e].base <= hi /\ hi <= Ends(u, e)
           X == {g \in [t : [Hdl -> Emb], esi : Hdl] : Mid(g.t, g.esi)}
           Rec(f) == f = [k \in 0 .. NumHandles |-> IF k = 0 THEN g0 ELSE Step(f[k - 1], k)]
<1>1. NumHandles \in Nat /\ Hdl = 1 .. NumHandles /\ 0 \in 0 .. MaxLocks
  BY XmsAssumption DEF Hdl
<1>2. t \in [Hdl -> Emb] /\ t[i].base \in Nat /\ t[i].size \in Nat /\ hi \in Nat
  BY TabFacts
<1>3. g0 \in X
  <2> DEFINE u == [t EXCEPT ![i].flags = "FREE", ![i].locks = 0]
  <2>1. PoolTab(u)
    BY <1>1, Reflag DEF Live
  <2>2. /\ u \in [Hdl -> Emb] /\ u[i].flags = "FREE" /\ u[i].base = t[i].base
        /\ u[i].size = t[i].size /\ Keep(u)
    BY <1>1, <1>2 DEF Emb
  <2> HIDE DEF u
  <2>3. Mid(u, i)
    BY <1>2, <2>1, <2>2 DEF Ends
  <2>4. g0 = [t |-> u, esi |-> i]
    BY DEF u
  <2> HIDE DEF Mid, g0
  <2> QED BY <2>2, <2>3, <2>4
<1>4. ASSUME NEW g \in X, NEW k \in Hdl PROVE Step(g, k) \in X
  <2> DEFINE u == g.t
             e == g.esi
  <2>1. u \in [Hdl -> Emb] /\ e \in Hdl /\ Mid(u, e)
    OBVIOUS
  <2>2. \A l \in Hdl : u[l].base \in Nat /\ u[l].size \in Nat /\ (u[l].flags = "FREE" => u[l].size > 0)
    BY <2>1, TabFacts
  <2>3. CASE u[k].flags # "FREE" \/ k = e
    BY <2>3
  <2>4. CASE ~(u[k].flags # "FREE" \/ k = e) /\ u[k].base = hi
    <3> DEFINE w == Absorb(u, e, k)
    <3>1. u[k].flags = "FREE" /\ k # e /\ u[k].base = hi /\ u[e].flags = "FREE"
      BY <2>1, <2>4
    <3>2. Ends(u, e) = hi
      <4>1. Covers(u, k, hi)
        BY <2>2, <3>1 DEF Covers, Live, Ends
      <4>2. hi < Ends(u, e) => Covers(u, e, hi)
        BY <2>1, <3>1 DEF Covers, Live
      <4>3. ~(hi < Ends(u, e))
        <5> HIDE DEF u, e, hi
        <5> QED BY <1>2, <2>1, <3>1, <4>1, <4>2, TabFacts
      <4>4. Ends(u, e) \in Nat
        BY <2>1, <2>2 DEF Ends
      <4> HIDE DEF u, e, hi
      <4> QED BY <1>2, <2>1, <4>3, <4>4
    <3>3. /\ PoolTab(w) /\ w[e].flags = "FREE" /\ w[e].base = u[e].base
          /\ w[e].size = u[e].size + u[k].size /\ \A l \in Hdl \ {e, k} : w[l] = u[l]
      <4> HIDE DEF u, e, hi
      <4> QED BY <2>1, <3>1, <3>2, AbsorbGood
    <3> HIDE DEF w, u, e
    <3>4. Mid(w, e) /\ w \in [Hdl -> Emb]
      BY <1>2, <2>1, <2>2, <3>1, <3>2, <3>3, TabFacts DEF Ends
    <3>5. Step(g, k) = [t |-> w, esi |-> e]
      BY <2>1, <3>1 DEF w, u, e
    <3> HIDE DEF Step, Mid
    <3> QED BY <2>1, <3>4, <3>5
  <2>5. CASE ~(u[k].flags # "FREE" \/ k = e) /\ u[k].base # hi /\ u[k].base + u[k].size = u[e].base
    <3> DEFINE w == Absorb(u, k, e)
    <3>1. u[k].flags = "FREE" /\ k # e /\ u[e].base = Ends(u, k) /\ u[e].flags = "FREE"
      BY <2>1, <2>5 DEF Ends
    <3>2. /\ PoolTab(w) /\ w[k].flags = "FREE" /\ w[k].base = u[k].base
          /\ w[k].size = u[k].size + u[e].size /\ \A l \in Hdl \ {e, k} : w[l] = u[l]
      <4> HIDE DEF u, e, hi
      <4> QED BY <2>1, <3>1, AbsorbGood
    <3> HIDE DEF w, u, e
    <3>3. Mid(w, k) /\ w \in [Hdl -> Emb]
      BY <1>2, <2>1, <2>2, <3>1, <3>2, TabFacts DEF Ends
    <3>4. Step(g, k) = [t |-> w, esi |-> k]
      BY <2>5, <3>1 DEF w, u, e
    <3> HIDE DEF Step, Mid
    <3> QED BY <3>3, <3>4
  <2>6. CASE ~(u[k].flags # "FREE" \/ k = e) /\ u[k].base # hi /\ u[k].base + u[k].size # u[e].base
    BY <2>6
  <2> QED BY <2>3, <2>4, <2>5, <2>6
<1> HIDE DEF Step, X, g0
<1>5. PICK f \in [0 .. NumHandles -> X] :
        f[0] = g0 /\ \A k \in 1 .. NumHandles : f[k] = Step(f[k - 1], k)
  <2> DEFINE F == [k \in 1 .. NumHandles |-> [g \in X |-> Step(g, k)]]
  <2>1. StepsIn(F, NumHandles, X) /\ NumHandles \in Nat
    BY <1>1, <1>4 DEF StepsIn
  <2>2. PICK f : Iterates(f, F, NumHandles, X, g0)
    <3> HIDE DEF F
    <3> QED BY <1>3, <2>1, Iterated
  <2>3. f \in [0 .. NumHandles -> X] /\ f[0] = g0 /\ \A k \in 1 .. NumHandles : f[k] = F[k][f[k - 1]]
    BY <2>2 DEF Iterates
  <2>4. \A k \in 1 .. NumHandles : f[k - 1] \in X
    BY <2>1, <2>3
  <2> QED BY <2>4, <2>3
<1>6. Rec(f)
  BY <1>1, <1>5
<1>7. PICK scan : scan = CHOOSE x : Rec(x)
  OBVIOUS
<1>8. Rec(scan)
  BY <1>6, <1>7
<1>9. FreeEMB(t, i) = scan[NumHandles].t
  BY <1>7 DEF FreeEMB, Step, g0
<1>10. scan[NumHandles] \in X
  <2>1. scan[0] = g0 /\ \A k \in 1 .. NumHandles : scan[k] = Step(scan[k - 1], k)
    <3>1. NumHandles \in Nat
      BY <1>1
    <3>2. \A k \in 0 .. NumHandles : scan[k] = IF k = 0 THEN g0 ELSE Step(scan[k - 1], k)
      BY <1>8
    <3>3. 0 \in 0 .. NumHandles /\ \A k \in 1 .. NumHandles : k \in 0 .. NumHandles /\ k # 0
      BY <3>1
    <3> QED BY <3>2, <3>3
  <2>2. \A k \in 1 .. NumHandles : scan[k - 1] \in X => scan[k] \in X
    BY <1>1, <1>4, <2>1
  <2>3. \A k \in 0 .. NumHandles : scan[k] \in X
    BY <1>1, <1>3, <2>1, <2>2, StaysIn
  <2> QED BY <1>1, <2>3
<1> QED BY <1>9, <1>10 DEF X

-----------------------------------------------------------------------------
(* Pool_AllocateEMBForPool: the EMB and how much of it is kept.            *)

LEMMA DoubledSize == \A n \in 0 .. 15 : Doubled[n] \in Nat /\ Doubled[n] >= ChunkK
<1> DEFINE X == {v \in Nat : v >= ChunkK}
           Rec(f) == f = [n \in 0 .. 15 |-> IF n = 0 THEN BlockK ELSE 2 * f[n - 1]]
           F == [k \in 1 .. 15 |-> [v \in X |-> 2 * v]]
<1>1. BlockK \in X /\ ChunkK \in Nat /\ 15 \in Nat
  BY Sizes
<1>2. \A v \in X : 2 * v \in X
  BY <1>1
<1>3. StepsIn(F, 15, X)
  BY <1>2 DEF StepsIn
<1>4. PICK f : Iterates(f, F, 15, X, BlockK)
  <2> HIDE DEF F, X
  <2> QED BY <1>1, <1>3, Iterated
<1>5. f \in [0 .. 15 -> X] /\ f[0] = BlockK /\ \A k \in 1 .. 15 : f[k] = F[k][f[k - 1]]
  BY <1>4 DEF Iterates
<1> HIDE DEF X
<1>6. \A k \in 1 .. 15 : f[k] = 2 * f[k - 1]
  BY <1>5
<1>7. Rec(f)
  BY <1>5, <1>6
<1>8. Doubled = CHOOSE g : Rec(g)
  BY DEF Doubled
<1>9. Rec(Doubled)
  BY <1>7, <1>8
<1>10. Doubled[0] = BlockK /\ \A k \in 1 .. 15 : Doubled[k] = 2 * Doubled[k - 1]
  BY <1>9
<1>11. \A k \in 0 .. 15 : Doubled[k] \in X
  BY <1>1, <1>2, <1>10, StaysIn
<1> QED BY <1>11 DEF X

LEMMA EmbSizes ==
  ASSUME NEW s, s.total \in Int, s.embs \in Int
  PROVE  /\ Want(s) \in Nat /\ Want(s) >= ChunkK
         /\ EmbSize(s) \in Nat /\ EmbSize(s) >= ChunkK
<1> DEFINE D == {n \in 0 .. ((s.embs - 1) % 16) :
                   n = 0 \/ Doubled[n] <= (MaxPages - s.total) * PageK}
           n0 == CHOOSE n \in D : \A m \in D : m <= n
<1>1. Want(s) \in Nat /\ Want(s) >= ChunkK
  <2>1. (MaxPages - s.total) * PageK \in Int /\ BlockK \in Nat /\ ChunkK \in Nat
    BY Sizes, PoolAssumption DEF PoolSizes
  <2> QED BY <2>1 DEF Want, Higher, Lower
<1>2. CASE Want(s) # BlockK \/ s.embs <= 1
  BY <1>1, <1>2 DEF EmbSize
<1>3. CASE ~(Want(s) # BlockK \/ s.embs <= 1)
  <2>1. EmbSize(s) = Doubled[n0]
    BY <1>3 DEF EmbSize
  <2>2. (s.embs - 1) % 16 \in 0 .. 15
    OBVIOUS
  <2>3. D \in SUBSET Nat /\ 0 \in D /\ \A m \in D : m <= 15 /\ m \in 0 .. 15
    BY <2>2
  <2> HIDE DEF D
  <2>4. \E n \in D : \A m \in D : m <= n
    BY <2>3, GreatestNat
  <2>5. n0 \in D
    BY <2>4
  <2> QED BY <1>1, <2>1, <2>3, <2>5, DoubledSize
<1> QED BY <1>2, <1>3

LEMMA BestEmbIsCandidate ==
  ASSUME NEW t, PoolTab(t), NEW want \in Nat, Candidates(t) # {}
  PROVE  BestEmb(t, want) \in Candidates(t)
<1> DEFINE small == {i \in Candidates(t) : PagedK(t, i) <= want}
<1>1. Candidates(t) \in SUBSET Hdl /\ Hdl \in SUBSET Nat /\ ChunkK \in Nat
  BY XmsAssumption, Sizes DEF Candidates, Hdl
<1>2. \A i \in Candidates(t) : PagedK(t, i) \in Nat
  <2> TAKE i \in Candidates(t)
  <2>1. t[i].base \in Nat /\ t[i].size \in Nat /\ PagedK(t, i) >= ChunkK
    BY <1>1, TabFacts DEF Candidates
  <2>2. RoundUp(t[i].base) \in Nat
    BY <2>1, RoundUpFacts
  <2> QED BY <1>1, <2>1, <2>2 DEF PagedK, Adj
<1>3. CASE small # {}
  <2> DEFINE P == {PagedK(t, i) : i \in small}
             B == {i \in small : \A j \in small : PagedK(t, j) <= PagedK(t, i)}
  <2>1. P \in SUBSET Nat /\ P # {} /\ \A p \in P : p <= want
    BY <1>2, <1>3
  <2>2. PICK p \in P : \A q \in P : q <= p
    <3> HIDE DEF P
    <3> QED BY <2>1, GreatestNat
  <2>3. B # {} /\ B \in SUBSET Hdl /\ B \subseteq Candidates(t)
    BY <1>1, <2>2
  <2>4. BestEmb(t, want) = First(B)
    BY <1>3 DEF BestEmb
  <2> HIDE DEF B
  <2> QED BY <2>3, <2>4, FirstHdl
<1>4. CASE small = {}
  <2> DEFINE P == {PagedK(t, i) : i \in Candidates(t)}
             B == {i \in Candidates(t) : \A j \in Candidates(t) : PagedK(t, i) <= PagedK(t, j)}
  <2>1. P \in SUBSET Nat /\ P # {}
    BY <1>2
  <2>2. PICK p \in P : \A q \in P : p <= q
    <3> HIDE DEF P
    <3> QED BY <2>1, LeastNat
  <2>3. B # {} /\ B \in SUBSET Hdl /\ B \subseteq Candidates(t)
    BY <1>1, <2>2
  <2>4. BestEmb(t, want) = First(B)
    BY <1>4 DEF BestEmb
  <2> HIDE DEF B
  <2> QED BY <2>3, <2>4, FirstHdl
<1> QED BY <1>3, <1>4

LEMMA KeptFacts ==
  ASSUME NEW s, PoolTab(s.t), s.total \in Int, s.embs \in Int, NEW i \in Candidates(s.t)
  PROVE  /\ KeptK(s, i) \in Nat /\ KeptK(s, i) <= s.t[i].size
         /\ RoundUp(s.t[i].base) - s.t[i].base + ChunkK <= KeptK(s, i)
         /\ KeptK(s, i) # s.t[i].size => Blanks(s.t) # {}
<1>1. i \in Hdl /\ PagedK(s.t, i) >= ChunkK
  BY DEF Candidates
<1>2. s.t[i].base \in Nat /\ s.t[i].size \in Nat
  BY <1>1, TabFacts
<1>3. RoundUp(s.t[i].base) \in Nat /\ s.t[i].base <= RoundUp(s.t[i].base)
  BY <1>2, RoundUpFacts
<1>4. EmbSize(s) \in Nat /\ EmbSize(s) >= ChunkK /\ ChunkK \in Nat /\ ChunkK > 0
  BY EmbSizes, Sizes
<1>5. CASE PagedK(s.t, i) > EmbSize(s) + ChunkK - 1 /\ Blanks(s.t) # {}
  <2>1. KeptK(s, i) = Adj(s.t, i) + EmbSize(s)
    BY <1>5 DEF KeptK
  <2> QED BY <1>2, <1>3, <1>4, <1>5, <2>1 DEF Adj, PagedK
<1>6. CASE ~(PagedK(s.t, i) > EmbSize(s) + ChunkK - 1 /\ Blanks(s.t) # {})
  <2>1. KeptK(s, i) = s.t[i].size
    BY <1>6 DEF KeptK
  <2> QED BY <1>1, <1>2, <1>3, <1>4, <2>1 DEF Adj, PagedK
<1> QED BY <1>5, <1>6

-----------------------------------------------------------------------------
(* The descriptors.                                                        *)

Desc == [addrK : Nat, owner : 0 .. NumHandles, free4 : Int, free16 : Int, max16 : Nat,
         startadj : Nat, endadj : Nat, fixed : BOOLEAN, bits : SUBSET Int]
PoolStates == [t : [Hdl -> Emb], blk : [Blk -> Desc], end : 0 .. PoolBlocks,
               total : Int, embs : Int]

BlkEnd(k) == k.addrK + k.max16 * ChunkK
Separate(k, l) == BlkEnd(k) <= l.addrK \/ BlkEnd(l) <= k.addrK

LEMMA Blocks ==
  /\ PoolBlocks \in Nat /\ PoolBlocks >= 1 /\ Blk = 1 .. PoolBlocks /\ Blk \in SUBSET Nat
  /\ Unused \in Desc
<1>1. 2 * Space * PPC \in Nat /\ 2 * Space * PPC > 0 /\ MaxPages \in Nat /\ NumHandles \in Nat
  BY PoolAssumption, XmsAssumption DEF PoolSizes
<1>2. MaxPages \div (2 * Space * PPC) \in Nat
  BY <1>1, DivFacts
<1> QED BY <1>1, <1>2 DEF PoolBlocks, Blk, Unused, Desc

LEMMA ChunkPagesAreInts ==
  ASSUME NEW c \in Int
  PROVE  ChunkPages(c) \in SUBSET Int
  BY Sizes DEF ChunkPages

LEMMA BlkEndNat ==
  ASSUME NEW k \in Desc
  PROVE  BlkEnd(k) \in Nat /\ k.max16 * ChunkK \in Nat
  BY Sizes DEF Desc, BlkEnd

LEMMA ChunksMonotone ==
  ASSUME NEW p \in Nat, NEW q \in Nat, p <= q
  PROVE  p * ChunkK <= q * ChunkK
  BY Sizes

(* Pool_PrepareBlock: as many whole chunks as fit behind the next page     *)
(* boundary, but not more than one descriptor can manage.                  *)
LEMMA Prepared ==
  ASSUME NEW raw \in Nat, raw > 0, NEW sizeK \in Nat, NEW owner \in 0 .. NumHandles,
         NEW fixed \in BOOLEAN, RoundUp(raw) - raw <= sizeK
  PROVE  LET k == PrepareBlock(raw, sizeK, owner, fixed)
         IN  /\ k \in Desc /\ k.owner = owner /\ k.fixed = fixed /\ k.endadj = 0
             /\ k.addrK = RoundUp(raw) /\ k.addrK > 0 /\ k.startadj = k.addrK - raw
             /\ k.max16 * ChunkK + k.startadj <= sizeK
             /\ RoundUp(raw) - raw + ChunkK <= sizeK => k.max16 >= 1
<1> DEFINE a == RoundUp(raw)
           n == sizeK - (a - raw)
           q == n \div ChunkK
           m == Lower(q, 2 * Space)
           k == PrepareBlock(raw, sizeK, owner, fixed)
<1>1. a \in Nat /\ raw <= a /\ a - raw \in Nat /\ n \in Nat
  BY RoundUpFacts
<1>2. ChunkK \in Nat /\ ChunkK > 0 /\ 2 * Space \in Nat /\ 2 * Space >= 1 /\ PPC \in Nat
  BY Sizes, PoolAssumption DEF PoolSizes
<1>3. q \in Nat /\ q * ChunkK <= n /\ n < q * ChunkK + ChunkK
  <2> HIDE DEF n
  <2> QED BY <1>1, <1>2, DivFacts
<1>4. m \in Nat /\ m <= q /\ (q >= 1 => m >= 1)
  <2> HIDE DEF q
  <2> QED BY <1>2, <1>3 DEF Lower
<1>5. m * ChunkK \in Nat /\ m * ChunkK <= n
  <2> HIDE DEF q, m, n
  <2>1. m * ChunkK <= q * ChunkK
    BY <1>3, <1>4, ChunksMonotone
  <2>2. m * ChunkK \in Nat /\ q * ChunkK \in Nat
    BY <1>2, <1>3, <1>4
  <2> QED BY <1>1, <1>3, <2>1, <2>2
<1>6. n >= ChunkK => q >= 1
  <2> HIDE DEF q, n
  <2> QED BY <1>1, <1>2, <1>3
<1> HIDE DEF m, q
<1>7. k = [addrK |-> a, owner |-> owner, free4 |-> m * PPC, free16 |-> m, max16 |-> m,
           startadj |-> a - raw, endadj |-> 0, fixed |-> fixed,
           bits |-> IF m % 2 = 1 THEN ChunkPages(m) ELSE {}]
  BY DEF PrepareBlock, m, q
<1>8. m * PPC \in Int /\ ChunkPages(m) \in SUBSET Int
  BY <1>2, <1>4, ChunkPagesAreInts
<1>9. /\ k.addrK = a /\ k.owner = owner /\ k.max16 = m /\ k.startadj = a - raw
      /\ k.endadj = 0 /\ k.fixed = fixed
  BY <1>7
<1>10. k \in Desc
  <2> HIDE DEF k, a
  <2> QED BY <1>1, <1>4, <1>7, <1>8 DEF Desc
<1>11. a - raw + ChunkK <= sizeK => n >= ChunkK
  BY <1>1, <1>2
<1> HIDE DEF k, n
<1>12. k.max16 * ChunkK + k.startadj <= sizeK
  <2>1. n = sizeK - (a - raw)
    BY DEF n
  <2> QED BY <1>1, <1>5, <1>9, <2>1
<1>13. a > 0 /\ k.startadj = k.addrK - raw
  BY <1>1, <1>9
<1>14. /\ k \in Desc /\ k.owner = owner /\ k.fixed = fixed /\ k.endadj = 0
       /\ k.addrK = a /\ k.addrK > 0 /\ k.startadj = k.addrK - raw
       /\ k.max16 * ChunkK + k.startadj <= sizeK
       /\ a - raw + ChunkK <= sizeK => k.max16 >= 1
  BY <1>4, <1>6, <1>9, <1>10, <1>11, <1>12, <1>13
<1> QED BY <1>14 DEF k

-----------------------------------------------------------------------------
(* Pool_AllocBlocksForEMB enters blocks one behind the other, from lo on.  *)
(* k ends at hi at the latest, the EMB at top.                             *)

Need(fixed) == IF fixed THEN 0 ELSE ChunkK

Entered(k, owner, fixed, lo, hi, top) ==
  /\ k \in Desc /\ k.owner = owner /\ k.fixed = fixed
  /\ k.addrK > 0 /\ k.addrK % PageK = 0
  /\ lo <= k.addrK - k.startadj /\ BlkEnd(k) <= hi
  /\ ~fixed => k.max16 >= 1
  /\ k.endadj < ChunkK /\ (k.endadj # 0 => BlkEnd(k) + k.endadj = top)

Extended(r, s, owner, fixed, lo, hi, top) ==
  /\ r \in PoolStates /\ r.t = s.t /\ r.embs = s.embs
  /\ \A b \in Blk : \/ r.blk[b] = s.blk[b]
                    \/ s.blk[b].addrK = 0 /\ Entered(r.blk[b], owner, fixed, lo, hi, top)
  /\ \A b \in Blk : r.blk[b].addrK # 0 => b <= r.end
  /\ \A b, c \in Blk : /\ b # c /\ s.blk[b].addrK = 0 /\ s.blk[c].addrK = 0
                       /\ r.blk[b].addrK # 0 /\ r.blk[c].addrK # 0
                       => Separate(r.blk[b], r.blk[c])

Giving(g, s, owner, fixed, lo, top) ==
  /\ g.addr > 0 /\ lo <= g.addr /\ g.addr + g.left = top
  /\ g.more => RoundUp(g.addr) - g.addr + Need(fixed) <= g.left
  /\ Extended(g.s, s, owner, fixed, lo, g.addr, top)

Givings(s, owner, fixed, lo, top) ==
  {g \in [s : PoolStates, addr : Nat, left : Nat, more : BOOLEAN] :
     Giving(g, s, owner, fixed, lo, top)}

LEMMA EnterBlockGood ==
  ASSUME NEW s \in PoolStates, NEW owner \in 0 .. NumHandles, NEW fixed \in BOOLEAN,
         NEW lo \in Nat, NEW top \in Nat, NEW g \in Givings(s, owner, fixed, lo, top),
         NEW b \in Blk
  PROVE  EnterBlock(g, b, owner, fixed) \in Givings(s, owner, fixed, lo, top)
<1> DEFINE want == RoundUp(g.addr) - g.addr + BlockK
           size == Lower(want, g.left)
           k    == PrepareBlock(g.addr, size, owner, fixed)
           got  == k.max16 * ChunkK + k.startadj
           left == g.left - got
           x    == [k EXCEPT !.endadj = IF left < ChunkK /\ ~fixed THEN left ELSE 0]
           r    == [g.s EXCEPT !.blk[b] = x, !.end = Higher(@, b), !.total = @ + k.free4]
           addr == g.addr + got
<1>1. CASE ~g.more \/ g.s.blk[b].addrK # 0
  BY <1>1 DEF EnterBlock
<1>2. CASE ~(~g.more \/ g.s.blk[b].addrK # 0)
  <2>1. EnterBlock(g, b, owner, fixed) = [s |-> r, addr |-> addr, left |-> left, more |-> left >= ChunkK]
    BY <1>2 DEF EnterBlock
  <2>2. /\ g.s \in PoolStates /\ g.addr \in Nat /\ g.left \in Nat /\ g.addr > 0 /\ lo <= g.addr
        /\ g.addr + g.left = top /\ RoundUp(g.addr) - g.addr + Need(fixed) <= g.left
        /\ Extended(g.s, s, owner, fixed, lo, g.addr, top) /\ g.s.blk[b].addrK = 0
    BY <1>2 DEF Givings, Giving
  <2>3. /\ RoundUp(g.addr) \in Nat /\ g.addr <= RoundUp(g.addr) /\ RoundUp(g.addr) % PageK = 0
        /\ ChunkK \in Nat /\ ChunkK > 0 /\ BlockK \in Nat /\ BlockK >= ChunkK
    BY <2>2, RoundUpFacts, Sizes
  <2>4. size \in Nat /\ size <= g.left /\ RoundUp(g.addr) - g.addr + Need(fixed) <= size
    BY <2>2, <2>3 DEF Lower, Need
  <2> HIDE DEF size, want
  <2>5. /\ k \in Desc /\ k.owner = owner /\ k.fixed = fixed /\ k.endadj = 0
        /\ k.addrK = RoundUp(g.addr) /\ k.addrK > 0 /\ k.startadj = k.addrK - g.addr
        /\ k.max16 * ChunkK + k.startadj <= size
        /\ RoundUp(g.addr) - g.addr + ChunkK <= size => k.max16 >= 1
    <3>1. RoundUp(g.addr) - g.addr <= size
      BY <2>2, <2>3, <2>4 DEF Need
    <3> QED BY <2>2, <2>4, <3>1, Prepared
  <2> HIDE DEF k
  <2>6. /\ got \in Nat /\ got <= g.left /\ left \in Nat /\ addr \in Nat /\ addr + left = top
        /\ addr = BlkEnd(k) /\ BlkEnd(k) \in Nat /\ addr >= g.addr
    BY <2>2, <2>3, <2>4, <2>5, BlkEndNat DEF BlkEnd, Desc
  <2> HIDE DEF got, left, addr
  <2>7. /\ x \in Desc /\ x.owner = owner /\ x.fixed = fixed /\ x.addrK = k.addrK
        /\ x.startadj = k.startadj /\ x.max16 = k.max16
        /\ x.endadj = IF left < ChunkK /\ ~fixed THEN left ELSE 0
    BY <2>5, <2>6 DEF Desc
  <2> HIDE DEF x
  <2>8. Entered(x, owner, fixed, lo, addr, top)
    <3>1. BlkEnd(x) = addr /\ k.max16 \in Nat
      BY <2>5, <2>6, <2>7 DEF BlkEnd, Desc
    <3>2. ~fixed => x.max16 >= 1
      BY <2>4, <2>5, <2>7 DEF Need
    <3>3. x.addrK - x.startadj = g.addr /\ x.addrK > 0 /\ x.addrK % PageK = 0
      BY <2>2, <2>3, <2>5, <2>7
    <3>4. x.endadj < ChunkK /\ (x.endadj # 0 => addr + x.endadj = top)
      BY <2>3, <2>6, <2>7
    <3> QED BY <2>2, <2>6, <2>7, <3>1, <3>2, <3>3, <3>4 DEF Entered
  <2>9. /\ r \in PoolStates /\ r.t = g.s.t /\ r.embs = g.s.embs /\ r.blk[b] = x
        /\ r.end \in Nat /\ r.end >= g.s.end /\ r.end >= b
        /\ \A c \in Blk \ {b} : r.blk[c] = g.s.blk[c]
    <3>1. PICK gs \in PoolStates : gs = g.s
      BY <2>2
    <3>2. Higher(gs.end, b) \in 0 .. PoolBlocks /\ Higher(gs.end, b) >= b /\ Higher(gs.end, b) >= gs.end
      <4>1. gs.end \in 0 .. PoolBlocks
        BY DEF PoolStates
      <4>2. b \in 1 .. PoolBlocks /\ PoolBlocks \in Nat
        BY Blocks
      <4> QED BY <4>1, <4>2 DEF Higher
    <3>3. k.free4 \in Int /\ gs.total + k.free4 \in Int
      BY <2>5 DEF Desc, PoolStates
    <3>4. r = [gs EXCEPT !.blk = [@ EXCEPT ![b] = x], !.end = Higher(gs.end, b),
                         !.total = gs.total + k.free4]
      BY <3>1 DEF PoolStates
    <3>5. [gs.blk EXCEPT ![b] = x] \in [Blk -> Desc]
      BY <2>7 DEF PoolStates
    <3> HIDE DEF r
    <3>6. /\ r.t = gs.t /\ r.embs = gs.embs /\ r.end = Higher(gs.end, b)
          /\ r.blk = [gs.blk EXCEPT ![b] = x] /\ r \in PoolStates
      BY <3>2, <3>3, <3>4, <3>5 DEF PoolStates
    <3>7. gs.end \in Nat /\ gs.blk \in [Blk -> Desc]
      BY DEF PoolStates
    <3> QED BY <3>1, <3>2, <3>6, <3>7
  <2> HIDE DEF r
  <2>10. Extended(r, s, owner, fixed, lo, addr, top)
    <3>1. \A c \in Blk : c # b /\ r.blk[c] # s.blk[c] =>
             s.blk[c].addrK = 0 /\ Entered(r.blk[c], owner, fixed, lo, g.addr, top)
      BY <2>2, <2>9 DEF Extended
    <3>2. s.blk[b].addrK = 0
      <4>1. g.s.blk[b] = s.blk[b] \/ s.blk[b].addrK = 0
        BY <2>2 DEF Extended
      <4> QED BY <2>2, <4>1
    <3>3. \A c \in Blk : c # b /\ r.blk[c] # s.blk[c] => Entered(r.blk[c], owner, fixed, lo, addr, top)
      <4> TAKE c \in Blk
      <4> HAVE c # b /\ r.blk[c] # s.blk[c]
      <4>1. Entered(r.blk[c], owner, fixed, lo, g.addr, top)
        BY <3>1
      <4>2. BlkEnd(r.blk[c]) \in Nat /\ BlkEnd(r.blk[c]) <= g.addr
        BY <4>1, BlkEndNat DEF Entered
      <4>3. BlkEnd(r.blk[c]) <= addr
        BY <2>2, <2>6, <4>2
      <4> QED BY <4>1, <4>3 DEF Entered
    <3>4. \A c \in Blk : r.blk[c].addrK # 0 => c <= r.end
      <4> TAKE c \in Blk
      <4>1. c # b => (r.blk[c].addrK # 0 => c <= g.s.end)
        BY <2>2, <2>9 DEF Extended
      <4>2. g.s.end \in Nat /\ c \in Nat
        BY <2>2, Blocks DEF PoolStates
      <4> QED BY <2>9, <4>1, <4>2
    <3>5. \A c \in Blk : c # b /\ s.blk[c].addrK = 0 /\ r.blk[c].addrK # 0 =>
             Separate(r.blk[c], x)
      <4> TAKE c \in Blk
      <4> HAVE c # b /\ s.blk[c].addrK = 0 /\ r.blk[c].addrK # 0
      <4>1. Entered(r.blk[c], owner, fixed, lo, g.addr, top)
        BY <3>1
      <4>2. BlkEnd(r.blk[c]) \in Nat /\ BlkEnd(r.blk[c]) <= g.addr
        BY <4>1, BlkEndNat DEF Entered
      <4> QED BY <2>2, <2>3, <2>5, <2>7, <4>2 DEF Separate
    <3>6. \A c \in Blk : c # b => r.blk[c] = g.s.blk[c]
      BY <2>9
    <3>7. \A c, d \in Blk : /\ c # d /\ s.blk[c].addrK = 0 /\ s.blk[d].addrK = 0
                            /\ r.blk[c].addrK # 0 /\ r.blk[d].addrK # 0
                            => Separate(r.blk[c], r.blk[d])
      <4> TAKE c, d \in Blk
      <4>1. CASE c # b /\ d # b
        BY <2>2, <3>6, <4>1 DEF Extended
      <4>2. CASE c = b /\ d # b
        BY <2>9, <3>5, <4>2 DEF Separate
      <4>3. CASE c # b /\ d = b
        BY <2>9, <3>5, <4>3
      <4> QED BY <4>1, <4>2, <4>3
    <3>8. r.t = s.t /\ r.embs = s.embs
      BY <2>2, <2>9 DEF Extended
    <3> QED BY <2>8, <2>9, <3>1, <3>2, <3>3, <3>4, <3>7, <3>8 DEF Extended
  <2>11. left >= ChunkK => RoundUp(addr) - addr + Need(fixed) <= left
    <3>1. addr % PageK = 0
      BY <2>3, <2>5, <2>6, ChunksAligned DEF BlkEnd, Desc
    <3>2. RoundUp(addr) = addr
      BY <2>6, <3>1, RoundUpFacts
    <3> QED BY <2>3, <2>6, <3>2 DEF Need
  <2>12. addr > 0 /\ lo <= addr
    BY <2>2, <2>6
  <2> DEFINE n == [s |-> r, addr |-> addr, left |-> left, more |-> left >= ChunkK]
  <2>13. n \in [s : PoolStates, addr : Nat, left : Nat, more : BOOLEAN]
    BY <2>6, <2>9
  <2>14. Giving(n, s, owner, fixed, lo, top)
    BY <2>6, <2>10, <2>11, <2>12 DEF Giving
  <2> HIDE DEF n
  <2>15. n \in Givings(s, owner, fixed, lo, top)
    BY <2>13, <2>14 DEF Givings
  <2> QED BY <2>1, <2>15 DEF n
<1> QED BY <1>1, <1>2

LEMMA AllocBlocksGood ==
  ASSUME NEW s \in PoolStates, NEW owner \in 0 .. NumHandles, NEW fixed \in BOOLEAN,
         NEW lo \in Nat, lo > 0, NEW size \in Nat,
         RoundUp(lo) - lo + Need(fixed) <= size,
         \A b \in Blk : s.blk[b].addrK # 0 => b <= s.end
  PROVE  Extended(AllocBlocksForEMB(s, owner, lo, size, fixed), s, owner, fixed,
                  lo, lo + size, lo + size)
<1> DEFINE top == lo + size
           X == Givings(s, owner, fixed, lo, top)
           g0 == [s |-> s, addr |-> lo, left |-> size, more |-> TRUE]
           Rec(f) == f = [b \in 0 .. PoolBlocks |->
                            IF b = 0 THEN g0 ELSE EnterBlock(f[b - 1], b, owner, fixed)]
           F == [b \in 1 .. PoolBlocks |-> [g \in X |-> EnterBlock(g, b, owner, fixed)]]
<1>1. PoolBlocks \in Nat /\ Blk = 1 .. PoolBlocks /\ top \in Nat
  BY Blocks
<1>2. g0 \in X
  <2>1. Extended(s, s, owner, fixed, lo, lo, top)
    BY DEF Extended
  <2>2. g0 \in [s : PoolStates, addr : Nat, left : Nat, more : BOOLEAN]
    OBVIOUS
  <2>3. Giving(g0, s, owner, fixed, lo, top)
    BY <2>1 DEF Giving
  <2> HIDE DEF g0
  <2> QED BY <2>2, <2>3 DEF Givings
<1>3. \A g \in X, b \in Blk : EnterBlock(g, b, owner, fixed) \in X
  BY <1>1, EnterBlockGood
<1> HIDE DEF X, g0, top
<1>4. StepsIn(F, PoolBlocks, X)
  BY <1>1, <1>3 DEF StepsIn
<1>5. PICK f : Iterates(f, F, PoolBlocks, X, g0)
  <2> HIDE DEF F
  <2> QED BY <1>1, <1>2, <1>4, Iterated
<1>6. f \in [0 .. PoolBlocks -> X] /\ f[0] = g0 /\ \A k \in 1 .. PoolBlocks : f[k] = F[k][f[k - 1]]
  BY <1>5 DEF Iterates
<1>7. \A k \in 1 .. PoolBlocks : f[k - 1] \in X
  BY <1>1, <1>6
<1>8. \A k \in 1 .. PoolBlocks : f[k] = EnterBlock(f[k - 1], k, owner, fixed)
  BY <1>6, <1>7
<1>9. Rec(f)
  BY <1>1, <1>6, <1>8
<1>10. PICK give : give = CHOOSE x : Rec(x)
  OBVIOUS
<1>11. Rec(give)
  BY <1>9, <1>10
<1>12. AllocBlocksForEMB(s, owner, lo, size, fixed) = give[PoolBlocks].s
  BY <1>10 DEF AllocBlocksForEMB, g0
<1>13. give[0] = g0 /\ \A k \in 1 .. PoolBlocks : give[k] = EnterBlock(give[k - 1], k, owner, fixed)
  <2>1. \A k \in 0 .. PoolBlocks :
           give[k] = IF k = 0 THEN g0 ELSE EnterBlock(give[k - 1], k, owner, fixed)
    BY <1>11
  <2>2. 0 \in 0 .. PoolBlocks /\ \A k \in 1 .. PoolBlocks : k \in 0 .. PoolBlocks /\ k # 0
    BY <1>1
  <2> QED BY <2>1, <2>2
<1>14. give[PoolBlocks] \in X
  <2>1. \A k \in 1 .. PoolBlocks : give[k - 1] \in X => give[k] \in X
    BY <1>1, <1>3, <1>13
  <2>2. \A k \in 0 .. PoolBlocks : give[k] \in X
    BY <1>1, <1>2, <1>13, <2>1, StaysIn
  <2> QED BY <1>1, <2>2
<1>15. PICK g : g = give[PoolBlocks]
  OBVIOUS
<1>16. /\ g.addr \in Nat /\ g.left \in Nat /\ g.addr + g.left = top
       /\ Extended(g.s, s, owner, fixed, lo, g.addr, top)
  BY <1>14, <1>15 DEF X, Givings, Giving
<1>17. \A k : Entered(k, owner, fixed, lo, g.addr, top) => Entered(k, owner, fixed, lo, top, top)
  <2> SUFFICES ASSUME NEW k, Entered(k, owner, fixed, lo, g.addr, top)
               PROVE  Entered(k, owner, fixed, lo, top, top)
    OBVIOUS
  <2>1. BlkEnd(k) \in Nat /\ BlkEnd(k) <= g.addr
    BY BlkEndNat DEF Entered
  <2>2. BlkEnd(k) <= top
    BY <1>16, <2>1
  <2> QED BY <2>2 DEF Entered
<1>18. Extended(g.s, s, owner, fixed, lo, top, top)
  BY <1>16, <1>17 DEF Extended
<1> QED BY <1>12, <1>15, <1>18 DEF top

-----------------------------------------------------------------------------
(* The invariant.  The monitor's EMB holds the fixed block; the holder of  *)
(* any other block is an EMB in use, which keeps its one lock.  endadj is  *)
(* either the rest of the EMB behind the block or, after an expansion, a   *)
(* rest that is in no EMB: then the block began with its EMB.              *)

FixEnd == FixBase + FixPages * PageK

SysKept(t) == /\ t[SysHdl].flags = "USED"
              /\ t[SysHdl].base <= FixBase /\ FixEnd <= Ends(t, SysHdl)

Inside(t, k) ==
  /\ k.addrK % PageK = 0
  /\ k.fixed => FixBase <= k.addrK /\ BlkEnd(k) <= FixEnd
  /\ ~k.fixed =>
       /\ k.owner \in Hdl \ {SysHdl}
       /\ t[k.owner].flags = "USED" /\ t[k.owner].locks = 1
       /\ t[k.owner].base <= k.addrK - k.startadj /\ BlkEnd(k) <= Ends(t, k.owner)
       /\ k.max16 >= 1 /\ k.endadj < ChunkK
       /\ k.endadj # 0 => k.startadj = 0 \/ BlkEnd(k) + k.endadj = Ends(t, k.owner)

Placed(s) == \A b \in Blk : \/ s.blk[b] = Unused
                            \/ s.blk[b].addrK # 0 /\ b <= s.end /\ Inside(s.t, s.blk[b])

Spread(s) == \A b, c \in Blk : /\ b # c /\ s.blk[b].addrK # 0 /\ s.blk[c].addrK # 0
                               /\ HolderOf(s.blk[b]) = HolderOf(s.blk[c])
                               => Separate(s.blk[b], s.blk[c])

PoolSound(s) == s \in PoolStates /\ PoolTab(s.t) /\ SysKept(s.t) /\ Placed(s) /\ Spread(s)

(* A step leaves the blocks in use as they are, except for block i.        *)
KeepsOthers(t, u, i) == \A k \in Hdl \ {i} : t[k].flags = "USED" => u[k] = t[k]

LEMMA SysHandle ==
  /\ SysHdl = 1 /\ SysHdl \in Hdl /\ 1 \in 1 .. Len(Regions)
  /\ BootTab[1] = FreeBlock(Regions[1].base, Regions[1].size)
<1>1. NumHandles \in Nat /\ NumHandles >= 1 /\ Hdl = 1 .. NumHandles
  BY XmsAssumption DEF Hdl
<1>2. Len(Regions) \in Nat /\ Len(Regions) >= 1
  <2> DEFINE S == [base : Nat, size : Nat \ {0}]
  <2>1. Regions \in Seq(S) /\ Regions # << >>
    BY XmsAssumption, PoolAssumption DEF PoolSizes
  <2> HIDE DEF S
  <2> QED BY <2>1
<1>3. BootTab[1] = FreeBlock(Regions[1].base, Regions[1].size)
  BY <1>1, <1>2 DEF BootTab
<1>4. SysK \in Nat /\ SysK <= Regions[1].size /\ Regions[1].base < FourGB
  BY PoolAssumption DEF PoolSizes
<1>5. Regions[1].base \in Nat /\ Regions[1].size \in Nat /\ FourGB \in Nat
  <2> DEFINE S == [base : Nat, size : Nat \ {0}]
  <2>1. Regions \in Seq(S) /\ FourGB \in Nat
    BY XmsAssumption
  <2>2. Regions[1] \in S
    <3> HIDE DEF S
    <3> QED BY <1>2, <2>1
  <2> QED BY <2>1, <2>2
<1>6. 1 \in Fits(BootTab, SysK, FALSE)
  BY <1>1, <1>3, <1>4, <1>5 DEF Fits, FreeBlock
<1>7. First(Fits(BootTab, SysK, FALSE)) = 1
  <2> DEFINE S == Fits(BootTab, SysK, FALSE)
  <2>1. S \in SUBSET Nat /\ \A i \in S : i >= 1
    BY <1>1 DEF Fits
  <2>2. 1 \in S
    BY <1>6
  <2> HIDE DEF S
  <2>3. First(S) \in S /\ First(S) <= 1
    BY <2>1, <2>2, FirstIsLeast
  <2>4. PICK i : i = First(S)
    OBVIOUS
  <2>5. i \in Nat /\ i >= 1 /\ i <= 1
    BY <2>1, <2>3, <2>4
  <2>6. i = 1
    BY <2>5
  <2> QED BY <2>4, <2>6 DEF S
<1>8. AllocHdl(BootTab, SysK, FALSE) = 1
  BY <1>6, <1>7 DEF AllocHdl
<1>9. SysHdl = 1
  BY <1>8 DEF SysHdl
<1>10. 1 \in 1 .. Len(Regions) /\ 1 \in Hdl
  BY <1>1, <1>2
<1> QED BY <1>3, <1>9, <1>10

LEMMA FixFacts ==
  FixBase \in Nat /\ FixBase > 0 /\ FixBase % PageK = 0 /\ FixPages * PageK \in Nat
  /\ FixEnd \in Nat /\ FixEnd = FixBase + FixPages * PageK
<1>1. 1 \in 1 .. Len(Regions)
  BY SysHandle
<1>2. Regions[1].base > 0 /\ Regions[1].base <= FixBase /\ FixBase \in Nat /\ FixPages \in Nat
  BY <1>1, PoolAssumption DEF PoolSizes
<1>3. Regions[1].base \in Nat
  <2> DEFINE S == [base : Nat, size : Nat \ {0}]
  <2>1. Regions \in Seq(S)
    BY XmsAssumption
  <2>2. Regions[1] \in S
    <3> HIDE DEF S
    <3> QED BY <1>1, <2>1
  <2> QED BY <2>2
<1>4. FixPages * PageK \in Nat
  BY <1>2, Sizes
<1> QED BY <1>2, <1>3, <1>4, PoolAssumption DEF PoolSizes, FixEnd

(* What a block in use says of the table.                                  *)
LEMMA ActiveFacts ==
  ASSUME NEW s, PoolSound(s), NEW b \in Blk, s.blk[b].addrK # 0
  PROVE  /\ s.blk[b] \in Desc /\ b \in 1 .. s.end /\ Inside(s.t, s.blk[b])
         /\ HolderOf(s.blk[b]) \in Hdl /\ s.t[HolderOf(s.blk[b])].flags = "USED"
         /\ s.t[HolderOf(s.blk[b])].base <= s.blk[b].addrK
         /\ BlkEnd(s.blk[b]) <= Ends(s.t, HolderOf(s.blk[b]))
<1> DEFINE k == s.blk[b]
<1>1. k \in Desc /\ s.t \in [Hdl -> Emb] /\ s.end \in Nat /\ b \in 1 .. PoolBlocks
  BY Blocks DEF PoolSound, PoolStates
<1>2. b <= s.end /\ Inside(s.t, k) /\ SysKept(s.t)
  BY DEF PoolSound, Placed, Unused
<1> HIDE DEF k
<1>3. CASE k.fixed
  <2>1. HolderOf(k) = SysHdl
    BY <1>3 DEF HolderOf
  <2>2. /\ s.t[SysHdl].base <= FixBase /\ FixBase <= k.addrK /\ BlkEnd(k) <= FixEnd
        /\ FixEnd <= Ends(s.t, SysHdl) /\ s.t[SysHdl].flags = "USED"
    BY <1>2, <1>3 DEF Inside, SysKept
  <2>3. s.t[SysHdl].base \in Nat /\ s.t[SysHdl].size \in Nat /\ k.addrK \in Nat /\ BlkEnd(k) \in Nat
    BY <1>1, SysHandle, BlkEndNat DEF Emb, Desc
  <2>4. s.t[SysHdl].base <= k.addrK /\ BlkEnd(k) <= Ends(s.t, SysHdl)
    BY <2>2, <2>3, FixFacts DEF Ends
  <2> QED BY <1>1, <1>2, <2>1, <2>2, <2>4, SysHandle, Blocks DEF k
<1>4. CASE ~k.fixed
  <2>1. HolderOf(k) = k.owner
    BY <1>4 DEF HolderOf
  <2>2. /\ k.owner \in Hdl /\ s.t[k.owner].flags = "USED"
        /\ s.t[k.owner].base <= k.addrK - k.startadj /\ BlkEnd(k) <= Ends(s.t, k.owner)
    BY <1>2, <1>4 DEF Inside
  <2>3. s.t[k.owner].base \in Nat /\ k.addrK \in Nat /\ k.startadj \in Nat
    BY <1>1, <2>2 DEF Emb, Desc
  <2>4. s.t[k.owner].base <= k.addrK
    BY <2>2, <2>3
  <2> QED BY <1>1, <1>2, <2>1, <2>2, <2>4, Blocks DEF k
<1> QED BY <1>3, <1>4

(* An unchanged holder holds.                                              *)
LEMMA InsideKept ==
  ASSUME NEW t, NEW u, NEW k, Inside(t, k), u[k.owner] = t[k.owner] \/ k.fixed
  PROVE  Inside(u, k)
  BY DEF Inside, Ends

-----------------------------------------------------------------------------
(* Pool_AllocateEMBForPool: the new blocks are in an EMB that was free, so *)
(* it is the holder of no other block.                                     *)

LEMMA TakeEmbGood ==
  ASSUME NEW s, PoolSound(s), CanTakeEmb(s)
  PROVE  PoolSound(TakeEmb(s)) /\ \A k \in Hdl : s.t[k].flags = "USED" => TakeEmb(s).t[k] = s.t[k]
<1> DEFINE i    == BestEmb(s.t, Want(s))
           keep == KeptK(s, i)
           lo   == s.t[i].base
           u    == TakenTab(s.t, i, keep)
           v    == [s EXCEPT !.t = TakenTab(@, i, keep), !.embs = @ + 1]
           r    == AllocBlocksForEMB(v, i, lo, keep, FALSE)
<1>1. /\ s \in PoolStates /\ PoolTab(s.t) /\ SysKept(s.t) /\ Placed(s) /\ Spread(s)
      /\ s.total \in Int /\ s.embs \in Int /\ s.t \in [Hdl -> Emb] /\ s.blk \in [Blk -> Desc]
  BY DEF PoolSound, PoolStates
<1>2. Want(s) \in Nat
  BY <1>1, EmbSizes
<1>3. i \in Candidates(s.t)
  BY <1>1, <1>2, BestEmbIsCandidate DEF CanTakeEmb
<1>4. TakeEmb(s) = r
  BY DEF TakeEmb, TakeBlock
<1> HIDE DEF i
<1>5. i \in Hdl /\ s.t[i].flags = "FREE"
  BY <1>3 DEF Candidates
<1>6. lo \in Nat /\ lo > 0 /\ s.t[i].size \in Nat
  BY <1>1, <1>5, TabFacts, BaseAboveZero DEF Live
<1>7. /\ keep \in Nat /\ keep <= s.t[i].size /\ RoundUp(lo) - lo + ChunkK <= keep
      /\ keep # s.t[i].size => Blanks(s.t) # {}
  BY <1>1, <1>3, KeptFacts
<1> HIDE DEF keep
<1>8. /\ PoolTab(u) /\ u[i].flags = "USED" /\ u[i].locks = 1
      /\ u[i].base = lo /\ u[i].size = keep
      /\ \A k \in Hdl : s.t[k].flags = "USED" => u[k] = s.t[k]
  BY <1>1, <1>5, <1>7, TakenTabGood
<1>9. v \in PoolStates /\ v.t = u /\ v.blk = s.blk /\ v.end = s.end
  <2>1. v = [s EXCEPT !.t = u, !.embs = s.embs + 1]
    BY <1>1 DEF PoolStates
  <2>2. u \in [Hdl -> Emb] /\ s.embs + 1 \in Int
    BY <1>1, <1>8, TabFacts
  <2> HIDE DEF u, v
  <2> QED BY <1>1, <2>1, <2>2 DEF PoolStates
<1> HIDE DEF u, v, lo
<1>10. \A b \in Blk : v.blk[b].addrK # 0 => b <= v.end
  BY <1>1, <1>9 DEF Placed, Unused
<1>11. i \in 0 .. NumHandles
  BY <1>5, XmsAssumption DEF Hdl
<1>12. Extended(r, v, i, FALSE, lo, lo + keep, lo + keep)
  BY <1>6, <1>7, <1>9, <1>10, <1>11, AllocBlocksGood DEF Need
<1> HIDE DEF r
<1>13. /\ r \in PoolStates /\ r.t = u
       /\ \A b \in Blk : \/ r.blk[b] = s.blk[b]
                         \/ s.blk[b].addrK = 0 /\ Entered(r.blk[b], i, FALSE, lo, lo + keep, lo + keep)
       /\ \A b \in Blk : r.blk[b].addrK # 0 => b <= r.end
       /\ \A b, c \in Blk : /\ b # c /\ s.blk[b].addrK = 0 /\ s.blk[c].addrK = 0
                            /\ r.blk[b].addrK # 0 /\ r.blk[c].addrK # 0
                            => Separate(r.blk[b], r.blk[c])
  BY <1>9, <1>12 DEF Extended
<1>14. SysKept(u) /\ i # SysHdl
  BY <1>1, <1>5, <1>8, SysHandle DEF SysKept, Ends
<1>15. Ends(u, i) = lo + keep
  BY <1>8 DEF Ends
<1>16. ASSUME NEW b \in Blk, s.blk[b].addrK # 0
       PROVE  /\ r.blk[b] = s.blk[b] /\ Inside(u, r.blk[b])
              /\ HolderOf(r.blk[b]) # i /\ s.blk[b] # Unused
  <2>1. r.blk[b] = s.blk[b] /\ Inside(s.t, s.blk[b]) /\ s.t[HolderOf(s.blk[b])].flags = "USED"
    BY <1>13, <1>16, ActiveFacts
  <2>2. HolderOf(s.blk[b]) # i
    BY <1>5, <2>1
  <2>3. s.blk[b].fixed \/ u[s.blk[b].owner] = s.t[s.blk[b].owner]
    <3>1. ~s.blk[b].fixed => s.blk[b].owner \in Hdl /\ s.t[s.blk[b].owner].flags = "USED"
      BY <2>1 DEF Inside
    <3> QED BY <1>8, <3>1
  <2> QED BY <1>16, <2>1, <2>2, <2>3, InsideKept DEF Unused
<1>17. ASSUME NEW b \in Blk, s.blk[b].addrK = 0, r.blk[b].addrK # 0
       PROVE  Inside(u, r.blk[b]) /\ HolderOf(r.blk[b]) = i
  <2>1. Entered(r.blk[b], i, FALSE, lo, lo + keep, lo + keep)
    BY <1>13, <1>17
  <2>2. HolderOf(r.blk[b]) = i
    BY <2>1 DEF Entered, HolderOf
  <2> QED BY <1>5, <1>8, <1>14, <1>15, <2>1, <2>2 DEF Entered, Inside
<1>18. Placed(r)
  <2> SUFFICES ASSUME NEW b \in Blk
               PROVE  \/ r.blk[b] = Unused
                      \/ r.blk[b].addrK # 0 /\ b <= r.end /\ Inside(r.t, r.blk[b])
    BY DEF Placed
  <2>1. CASE s.blk[b].addrK # 0
    BY <1>13, <1>16, <2>1
  <2>2. CASE s.blk[b].addrK = 0 /\ r.blk[b].addrK # 0
    BY <1>13, <1>17, <2>2
  <2>3. CASE s.blk[b].addrK = 0 /\ r.blk[b].addrK = 0
    <3>1. r.blk[b] = s.blk[b]
      BY <1>13, <2>3 DEF Entered
    <3> QED BY <1>1, <2>3, <3>1 DEF Placed
  <2> QED BY <2>1, <2>2, <2>3
<1>19. Spread(r)
  <2> SUFFICES ASSUME NEW b \in Blk, NEW c \in Blk, b # c, r.blk[b].addrK # 0, r.blk[c].addrK # 0,
                      HolderOf(r.blk[b]) = HolderOf(r.blk[c])
               PROVE  Separate(r.blk[b], r.blk[c])
    BY DEF Spread
  <2>1. CASE s.blk[b].addrK # 0 /\ s.blk[c].addrK # 0
    BY <1>1, <1>16, <2>1 DEF Spread
  <2>2. CASE s.blk[b].addrK = 0 /\ s.blk[c].addrK = 0
    BY <1>13, <2>2
  <2>3. CASE ~(s.blk[b].addrK = 0 <=> s.blk[c].addrK = 0)
    BY <1>16, <1>17, <2>3
  <2> QED BY <2>1, <2>2, <2>3
<1> QED BY <1>4, <1>8, <1>13, <1>14, <1>18, <1>19 DEF PoolSound

(* A block whose bitmap and counters change stays where it is.             *)
Counted(k, B, n4, n16) == [k EXCEPT !.bits = B, !.free4 = n4, !.free16 = n16]
WithBlock(s, b, x) == [s EXCEPT !.blk = [s.blk EXCEPT ![b] = x]]

LEMMA CountedDesc ==
  ASSUME NEW k \in Desc, NEW B \in SUBSET Int, NEW n4 \in Int, NEW n16 \in Int
  PROVE  LET x == Counted(k, B, n4, n16)
         IN  /\ x \in Desc /\ x.addrK = k.addrK /\ x.owner = k.owner /\ x.max16 = k.max16
             /\ x.startadj = k.startadj /\ x.endadj = k.endadj /\ x.fixed = k.fixed
             /\ x.bits = B /\ x.free4 = n4 /\ x.free16 = n16
<1>1. k.free4 \in Int
  BY DEF Desc
<1> DEFINE y == [k EXCEPT !.bits = B]
           z == [y EXCEPT !.free4 = n4]
           x == [z EXCEPT !.free16 = n16]
<1>2. y \in Desc /\ y.addrK = k.addrK /\ y.owner = k.owner /\ y.max16 = k.max16
      /\ y.startadj = k.startadj /\ y.endadj = k.endadj /\ y.fixed = k.fixed /\ y.bits = B
  BY DEF Desc
<1> HIDE DEF y
<1>3. z \in Desc /\ z.addrK = k.addrK /\ z.owner = k.owner /\ z.max16 = k.max16
      /\ z.startadj = k.startadj /\ z.endadj = k.endadj /\ z.fixed = k.fixed /\ z.bits = B
      /\ z.free4 = n4
  BY <1>2 DEF Desc
<1> HIDE DEF z
<1>4. x \in Desc /\ x.addrK = k.addrK /\ x.owner = k.owner /\ x.max16 = k.max16
      /\ x.startadj = k.startadj /\ x.endadj = k.endadj /\ x.fixed = k.fixed /\ x.bits = B
      /\ x.free4 = n4 /\ x.free16 = n16
  BY <1>3 DEF Desc
<1>5. Counted(k, B, n4, n16) = x
  BY DEF Counted, y, z
<1> HIDE DEF x
<1> QED BY <1>4, <1>5

(* The three assignments to one descriptor.                                *)
LEMMA ThreeFields ==
  ASSUME NEW s \in PoolStates, NEW b \in Blk, NEW B \in SUBSET Int, NEW n4 \in Int, NEW n16 \in Int
  PROVE  Recounted(s, b, B, n4, n16) = WithBlock(s, b, Counted(s.blk[b], B, n4, n16))
<1> DEFINE y == [s.blk[b] EXCEPT !.bits = B]
           z == [y EXCEPT !.free4 = n4]
           x == [z EXCEPT !.free16 = n16]
           f == [s.blk EXCEPT ![b] = y]
           g == [f EXCEPT ![b] = z]
           r == [s EXCEPT !.blk = f]
           q == [r EXCEPT !.blk = g]
<1>1. s.blk \in [Blk -> Desc] /\ s.blk[b] \in Desc
  BY DEF PoolStates
<1> HIDE DEF y
<1>2. f[b] = y /\ g = [s.blk EXCEPT ![b] = z] /\ g[b] = z /\ [g EXCEPT ![b] = x] = [s.blk EXCEPT ![b] = x]
  BY <1>1
<1>3. r = [s EXCEPT !.blk[b].bits = B]
  BY DEF y
<1> HIDE DEF z, f
<1>4. r.blk = f
  BY DEF PoolStates
<1>5. q = [s EXCEPT !.blk = g] /\ q.blk = g
  BY DEF PoolStates
<1>6. q = [r EXCEPT !.blk[b].free4 = n4]
  BY <1>2, <1>4 DEF z
<1> HIDE DEF r, g, x
<1>7. [q EXCEPT !.blk[b].free16 = n16] = [q EXCEPT !.blk = [g EXCEPT ![b] = x]]
  BY <1>2, <1>5 DEF x
<1>8. [q EXCEPT !.blk = [g EXCEPT ![b] = x]] = [s EXCEPT !.blk = [g EXCEPT ![b] = x]]
  BY <1>5 DEF PoolStates
<1> HIDE DEF q
<1>9. [s EXCEPT !.blk[b].bits = B, !.blk[b].free4 = n4, !.blk[b].free16 = n16]
        = [q EXCEPT !.blk[b].free16 = n16]
  BY <1>3, <1>6
<1>10. x = Counted(s.blk[b], B, n4, n16)
  BY DEF x, y, z, Counted
<1> QED BY <1>2, <1>7, <1>8, <1>9, <1>10 DEF Recounted, WithBlock

LEMMA Recount ==
  ASSUME NEW s, PoolSound(s), NEW b \in Blk, s.blk[b].addrK # 0,
         NEW B \in SUBSET Int, NEW n4 \in Int, NEW n16 \in Int
  PROVE  LET r == Recounted(s, b, B, n4, n16)
         IN  /\ PoolSound(r) /\ r.t = s.t /\ r.blk[b].addrK = s.blk[b].addrK
             /\ r.blk[b].owner = s.blk[b].owner /\ r.blk[b].fixed = s.blk[b].fixed
<1> DEFINE r == Recounted(s, b, B, n4, n16)
           k == Counted(s.blk[b], B, n4, n16)
<1>1. s \in PoolStates /\ s.blk \in [Blk -> Desc] /\ s.blk[b] \in Desc
  BY DEF PoolSound, PoolStates
<1>2. /\ k \in Desc /\ k.addrK = s.blk[b].addrK /\ k.owner = s.blk[b].owner
      /\ k.max16 = s.blk[b].max16 /\ k.startadj = s.blk[b].startadj
      /\ k.endadj = s.blk[b].endadj /\ k.fixed = s.blk[b].fixed
  BY <1>1, CountedDesc
<1>3. r = WithBlock(s, b, k)
  BY <1>1, ThreeFields
<1> HIDE DEF k, r
<1>4. /\ r \in PoolStates /\ r.t = s.t /\ r.end = s.end /\ r.blk[b] = k
      /\ \A c \in Blk \ {b} : r.blk[c] = s.blk[c]
  <2>1. [s.blk EXCEPT ![b] = k] \in [Blk -> Desc]
    BY <1>1, <1>2
  <2>2. r \in PoolStates /\ r.t = s.t /\ r.end = s.end /\ r.blk = [s.blk EXCEPT ![b] = k]
    BY <1>1, <1>3, <2>1 DEF PoolStates, WithBlock
  <2> QED BY <1>1, <2>2
<1>5. Inside(s.t, s.blk[b]) /\ b <= s.end
  BY DEF PoolSound, Placed, Unused
<1>6. Inside(s.t, k) /\ BlkEnd(k) = BlkEnd(s.blk[b]) /\ HolderOf(k) = HolderOf(s.blk[b])
  <2>1. BlkEnd(k) = BlkEnd(s.blk[b]) /\ HolderOf(k) = HolderOf(s.blk[b])
    BY <1>2 DEF BlkEnd, HolderOf
  <2> QED BY <1>2, <1>5, <2>1 DEF Inside
<1>7. Placed(r)
  BY <1>2, <1>4, <1>5, <1>6 DEF PoolSound, Placed
<1>8. Spread(r)
  BY <1>2, <1>4, <1>6 DEF PoolSound, Spread, Separate
<1>9. PoolSound(r)
  BY <1>4, <1>7, <1>8 DEF PoolSound
<1> QED BY <1>2, <1>4, <1>9 DEF r

(* Pool_ExpandBlock: a block that ends with its EMB and does not begin     *)
(* behind its start grows with the EMB; the other blocks of the EMB are    *)
(* all before it.                                                          *)
LEMMA ExpandGood ==
  ASSUME NEW s, PoolSound(s), NEW b \in Expandable(s)
  PROVE  /\ PoolSound(ExpandBlock(s, b)) /\ b \in Blk /\ s.blk[b].addrK # 0 /\ ~s.blk[b].fixed
         /\ KeepsOthers(s.t, ExpandBlock(s, b).t, s.blk[b].owner)
<1> DEFINE k    == s.blk[b]
           i    == k.owner
           n    == First(Behind(s, b))
           take == 2 * ChunkK - k.endadj
           rest == s.t[n].size - take
           u    == Handover(s.t, i, n, take)
           e    == IF rest < ChunkK THEN rest ELSE 0
           x    == [Grown(k) EXCEPT !.endadj = e]
           r    == ExpandBlock(s, b)
<1>1. /\ s \in PoolStates /\ PoolTab(s.t) /\ SysKept(s.t) /\ Placed(s) /\ Spread(s)
      /\ s.t \in [Hdl -> Emb] /\ s.blk \in [Blk -> Desc] /\ s.end \in 0 .. PoolBlocks /\ s.total \in Int
  BY DEF PoolSound, PoolStates
<1>2. b \in Blk /\ CanExpand(s, b)
  <2>1. b \in 1 .. s.end /\ CanExpand(s, b)
    BY DEF Expandable
  <2> QED BY <1>1, <2>1, Blocks
<1>3. /\ k.addrK # 0 /\ ~k.fixed /\ k \in Desc
      /\ k.addrK - k.startadj + k.endadj + k.max16 * ChunkK = s.t[i].base + s.t[i].size
      /\ Behind(s, b) # {} /\ s.t[n].flags = "FREE" /\ k.endadj + s.t[n].size >= 2 * ChunkK
  BY <1>1, <1>2 DEF CanExpand, AtEmbEnd, NextFree, NextFits, OwnerEnd
<1>4. b <= s.end /\ Inside(s.t, k)
  BY <1>2, <1>3, ActiveFacts DEF PoolSound, Placed, Unused
<1>5. /\ i \in Hdl \ {SysHdl} /\ s.t[i].flags = "USED" /\ s.t[i].locks = 1
      /\ s.t[i].base <= k.addrK - k.startadj /\ BlkEnd(k) <= Ends(s.t, i)
      /\ k.max16 >= 1 /\ k.endadj < ChunkK /\ k.addrK % PageK = 0
      /\ k.endadj # 0 => k.startadj = 0 \/ BlkEnd(k) + k.endadj = Ends(s.t, i)
  BY <1>3, <1>4 DEF Inside
<1>6. n \in Hdl /\ s.t[n].base = Ends(s.t, i)
  <2>1. Behind(s, b) \in SUBSET Hdl
    BY DEF Behind
  <2>2. n \in Behind(s, b)
    BY <1>3, <2>1, FirstHdl
  <2> HIDE DEF n
  <2> QED BY <2>2 DEF Behind, OwnerEnd, Ends
<1>7. /\ r = [s EXCEPT !.t = u, !.blk = [s.blk EXCEPT ![b] = x], !.total = s.total + 2 * PPC]
  BY <1>1 DEF ExpandBlock, PoolStates
<1> HIDE DEF n, r
<1>8. /\ ChunkK \in Nat /\ ChunkK > 0 /\ PPC \in Nat /\ BlkEnd(k) \in Nat
      /\ s.t[i].base \in Nat /\ s.t[i].size \in Nat /\ s.t[n].size \in Nat
      /\ k.addrK \in Nat /\ k.startadj \in Nat /\ k.endadj \in Nat /\ k.max16 \in Nat
      /\ k.max16 * ChunkK \in Nat /\ BlkEnd(k) = k.addrK + k.max16 * ChunkK
      /\ Ends(s.t, i) = s.t[i].base + s.t[i].size
  BY <1>1, <1>3, <1>5, <1>6, TabFacts, Sizes, BlkEndNat DEF Desc, BlkEnd, Ends
<1> HIDE DEF k
<1>9. k.startadj = 0 /\ BlkEnd(k) + k.endadj = Ends(s.t, i)
  <2>1. BlkEnd(k) - k.startadj + k.endadj = Ends(s.t, i)
    BY <1>3, <1>8
  <2> QED BY <1>5, <1>8, <2>1
<1>10. take \in Nat /\ take > 0 /\ take <= s.t[n].size /\ rest \in Nat /\ e \in Nat /\ e < ChunkK
  BY <1>3, <1>5, <1>8
<1>11. /\ PoolTab(u) /\ u[i].flags = "USED" /\ u[i].locks = s.t[i].locks
       /\ u[i].base = s.t[i].base /\ u[i].size = s.t[i].size + take
       /\ \A c \in Hdl \ {i} : s.t[c].flags = "USED" => u[c] = s.t[c]
  <2> HIDE DEF take, i
  <2> QED BY <1>1, <1>3, <1>5, <1>6, <1>10, HandoverGood
<1>12. /\ x \in Desc /\ x.addrK = k.addrK /\ x.owner = i /\ x.max16 = k.max16 + 2
       /\ x.startadj = 0 /\ x.endadj = e /\ x.fixed = k.fixed
  <2>1. PICK l \in Desc : l = k
    BY <1>3 DEF k
  <2>2. l.free4 + 2 * PPC \in Int /\ l.free16 + 2 \in Int /\ l.max16 + 2 \in Nat
    BY <1>8 DEF Desc
  <2>3. PICK g : g = Grown(l)
    OBVIOUS
  <2>4. /\ g \in Desc /\ g.addrK = l.addrK /\ g.owner = l.owner /\ g.max16 = l.max16 + 2
        /\ g.startadj = l.startadj /\ g.fixed = l.fixed
    BY <2>2, <2>3 DEF Grown, Desc
  <2> HIDE DEF e
  <2>5. x = [g EXCEPT !.endadj = e]
    BY <2>1, <2>3
  <2> HIDE DEF x
  <2> QED BY <1>9, <1>10, <2>1, <2>4, <2>5 DEF Desc
<1>13. BlkEnd(x) = BlkEnd(k) + 2 * ChunkK /\ Ends(u, i) = BlkEnd(x)
  <2>1. (k.max16 + 2) * ChunkK = k.max16 * ChunkK + 2 * ChunkK
    BY <1>8
  <2>2. BlkEnd(x) = BlkEnd(k) + 2 * ChunkK
    BY <1>8, <1>12, <2>1 DEF BlkEnd
  <2>3. Ends(u, i) = s.t[i].base + (s.t[i].size + take)
    BY <1>11 DEF Ends
  <2>4. take + k.endadj = 2 * ChunkK
    BY <1>8
  <2> HIDE DEF x, u, i, take
  <2>5. Ends(u, i) = Ends(s.t, i) + take
    BY <1>8, <1>10, <2>3
  <2>6. Ends(s.t, i) + take = BlkEnd(k) + 2 * ChunkK
    BY <1>8, <1>9, <1>10, <2>4
  <2> QED BY <2>2, <2>5, <2>6
<1> HIDE DEF x, u, take, rest, e
<1>14. /\ r \in PoolStates /\ r.t = u /\ r.end = s.end /\ r.blk[b] = x
       /\ \A c \in Blk \ {b} : r.blk[c] = s.blk[c]
  <2>1. [s.blk EXCEPT ![b] = x] \in [Blk -> Desc] /\ s.total + 2 * PPC \in Int /\ u \in [Hdl -> Emb]
    <3>1. u \in [Hdl -> Emb]
      BY <1>11, TabFacts
    <3>2. s.total + 2 * PPC \in Int
      BY <1>1, <1>8
    <3>3. [s.blk EXCEPT ![b] = x] \in [Blk -> Desc]
      BY <1>1, <1>2, <1>12
    <3> QED BY <3>1, <3>2, <3>3
  <2>2. /\ r \in PoolStates /\ r.t = u /\ r.end = s.end /\ r.blk = [s.blk EXCEPT ![b] = x]
    BY <1>1, <1>7, <2>1 DEF PoolStates
  <2> QED BY <1>1, <1>2, <2>2
<1>15. SysKept(u)
  BY <1>1, <1>5, <1>11, SysHandle DEF SysKept, Ends
<1>16. Inside(u, x) /\ HolderOf(x) = i
  <2>1. s.t[i].base <= x.addrK - x.startadj /\ BlkEnd(x) <= Ends(u, i) /\ x.max16 >= 1
    BY <1>5, <1>8, <1>9, <1>12, <1>13
  <2> QED BY <1>3, <1>5, <1>10, <1>11, <1>12, <2>1 DEF Inside, HolderOf, k
<1>17. ASSUME NEW c \in Blk, c # b, s.blk[c].addrK # 0
       PROVE  /\ Inside(u, s.blk[c])
              /\ HolderOf(s.blk[c]) = i => BlkEnd(s.blk[c]) <= k.addrK
  <2> DEFINE l == s.blk[c]
  <2>1. l \in Desc /\ Inside(s.t, l) /\ BlkEnd(l) \in Nat /\ HolderOf(l) \in Hdl
    BY <1>17, ActiveFacts, BlkEndNat
  <2>2. CASE HolderOf(l) # i
    <3>1. ~l.fixed => l.owner \in Hdl /\ s.t[l.owner].flags = "USED" /\ l.owner # i
      BY <2>1, <2>2 DEF Inside, HolderOf
    <3>2. l.fixed \/ u[l.owner] = s.t[l.owner]
      BY <1>11, <3>1
    <3> QED BY <2>1, <2>2, <3>2, InsideKept
  <2>3. CASE HolderOf(l) = i
    <3>1. ~l.fixed /\ l.owner = i
      BY <1>5, <2>3 DEF HolderOf
    <3>2. /\ s.t[i].base <= l.addrK - l.startadj /\ BlkEnd(l) <= Ends(s.t, i)
          /\ l.max16 >= 1 /\ l.endadj < ChunkK /\ l.addrK % PageK = 0
          /\ l.endadj # 0 => l.startadj = 0 \/ BlkEnd(l) + l.endadj = Ends(s.t, i)
      BY <2>1, <3>1 DEF Inside
    <3>3. HolderOf(k) = i
      BY <1>3 DEF HolderOf, k
    <3>4. Separate(k, l)
      BY <1>1, <1>2, <1>3, <1>17, <2>3, <3>3 DEF Spread, k
    <3>5. l.max16 * ChunkK >= ChunkK /\ BlkEnd(l) = l.addrK + l.max16 * ChunkK /\ l.addrK \in Nat
          /\ l.endadj \in Nat /\ l.max16 * ChunkK \in Nat /\ k.max16 * ChunkK >= ChunkK
      <4>1. l.max16 \in Nat /\ l.addrK \in Nat /\ l.endadj \in Nat
        BY <2>1 DEF Desc
      <4> QED BY <1>5, <1>8, <3>2, <4>1, ChunksMonotone, BlkEndNat, <2>1 DEF BlkEnd
    <3> HIDE DEF l
    <3>6. BlkEnd(l) <= k.addrK
      <4>1. ~(BlkEnd(k) <= l.addrK)
        BY <1>5, <1>8, <1>9, <2>1, <3>2, <3>5
      <4> QED BY <3>4, <4>1 DEF Separate
    <3>7. BlkEnd(l) + l.endadj # Ends(s.t, i)
      BY <1>5, <1>8, <1>9, <2>1, <3>2, <3>5, <3>6
    <3>8. BlkEnd(l) <= Ends(u, i)
      BY <1>8, <1>13, <2>1, <3>6
    <3>9. Inside(u, l)
      BY <1>5, <1>11, <2>1, <3>1, <3>2, <3>7, <3>8 DEF Inside
    <3> QED BY <3>6, <3>9 DEF l
  <2> QED BY <2>2, <2>3
<1>18. Placed(r)
  <2> SUFFICES ASSUME NEW c \in Blk
               PROVE  \/ r.blk[c] = Unused
                      \/ r.blk[c].addrK # 0 /\ c <= r.end /\ Inside(r.t, r.blk[c])
    BY DEF Placed
  <2>1. CASE c = b
    BY <1>3, <1>4, <1>12, <1>14, <1>16, <2>1 DEF k
  <2>2. CASE c # b
    BY <1>1, <1>14, <1>17, <2>2 DEF Placed
  <2> QED BY <2>1, <2>2
<1>19. Spread(r)
  <2> SUFFICES ASSUME NEW c \in Blk, NEW d \in Blk, c # d, r.blk[c].addrK # 0, r.blk[d].addrK # 0,
                      HolderOf(r.blk[c]) = HolderOf(r.blk[d])
               PROVE  Separate(r.blk[c], r.blk[d])
    BY DEF Spread
  <2>1. CASE c # b /\ d # b
    BY <1>1, <1>14, <2>1 DEF Spread
  <2>2. CASE c = b
    BY <1>12, <1>14, <1>16, <1>17, <2>2 DEF Separate
  <2>3. CASE d = b
    BY <1>12, <1>14, <1>16, <1>17, <2>3 DEF Separate
  <2> QED BY <2>1, <2>2, <2>3
<1>20. PoolSound(r) /\ KeepsOthers(s.t, r.t, i)
  BY <1>11, <1>14, <1>15, <1>18, <1>19 DEF PoolSound, KeepsOthers
<1> QED BY <1>2, <1>3, <1>20 DEF r, k

(* Pool_TryFreeToXMS: the EMB that becomes free holds no block any more.   *)
LEMMA TryFreeGood ==
  ASSUME NEW s, PoolSound(s), NEW b \in Blk, s.blk[b].addrK # 0
  PROVE  /\ PoolSound(TryFreeToXMS(s, b))
         /\ s.blk[b].fixed => TryFreeToXMS(s, b).t = s.t
         /\ KeepsOthers(s.t, TryFreeToXMS(s, b).t, s.blk[b].owner)
<1> DEFINE o    == s.blk[b].owner
           own  == {c \in InUse(s) : s.blk[c].owner = o}
           rest == InUse(s) \ own
           w(c) == IF c \in own THEN s.blk[c].max16 * PPC ELSE 0
           Rec(f) == f = [c \in 0 .. PoolBlocks |-> IF c = 0 THEN 0 ELSE f[c - 1] + w(c)]
           F    == [c \in 1 .. PoolBlocks |-> [v \in Int |-> v + w(c)]]
           last == IF rest = {} THEN 1 ELSE CHOOSE c \in rest : \A d \in rest : d <= c
           u    == FreeEMB(s.t, o)
           new  == [c \in Blk |-> IF c \in own THEN Unused ELSE s.blk[c]]
           r    == TryFreeToXMS(s, b)
<1>1. /\ s \in PoolStates /\ PoolTab(s.t) /\ SysKept(s.t) /\ Placed(s) /\ Spread(s)
      /\ s.t \in [Hdl -> Emb] /\ s.blk \in [Blk -> Desc] /\ s.end \in 0 .. PoolBlocks
      /\ s.total \in Int /\ s.embs \in Int
  BY DEF PoolSound, PoolStates
<1>2. PoolBlocks \in Nat /\ PoolBlocks >= 1 /\ Blk = 1 .. PoolBlocks
  BY Blocks
<1>3. CASE ~Empty(s.blk[b]) \/ \E c \in own : ~Empty(s.blk[c])
  <2>1. r = s
    BY <1>3 DEF TryFreeToXMS
  <2> QED BY <2>1 DEF KeepsOthers
<1>4. CASE ~(~Empty(s.blk[b]) \/ \E c \in own : ~Empty(s.blk[c]))
  <2>1. PICK size : size = CHOOSE x : Rec(x)
    OBVIOUS
  <2>2. r = [t |-> u, blk |-> new, end |-> last, total |-> s.total - size[PoolBlocks],
             embs |-> s.embs - 1]
    <3>1. TryFreeToXMS(s, b) =
            [t     |-> FreeEMB(s.t, o),
             blk   |-> [c \in Blk |-> IF c \in own THEN Unused ELSE s.blk[c]],
             end   |-> IF rest = {} THEN 1 ELSE CHOOSE c \in rest : \A d \in rest : d <= c,
             total |-> s.total - (CHOOSE x : Rec(x))[PoolBlocks],
             embs  |-> s.embs - 1]
      BY <1>4 DEF TryFreeToXMS
    <3> QED BY <2>1, <3>1
  <2> HIDE DEF r
  <2>3. ~s.blk[b].fixed /\ \A c \in own : ~s.blk[c].fixed
    BY <1>4 DEF Empty
  <2>4. Inside(s.t, s.blk[b]) /\ s.blk[b] \in Desc
    BY ActiveFacts
  <2>5. /\ o \in Hdl \ {SysHdl} /\ s.t[o].flags = "USED"
        /\ s.t[o].base <= s.blk[b].addrK - s.blk[b].startadj /\ BlkEnd(s.blk[b]) <= Ends(s.t, o)
        /\ s.blk[b].max16 >= 1
    BY <2>3, <2>4 DEF Inside
  <2>6. s.t[o].size > 0
    <3>1. s.t[o].base \in Nat /\ s.t[o].size \in Nat
      BY <1>1, <2>5 DEF Emb
    <3>2. /\ s.blk[b].addrK \in Nat /\ s.blk[b].startadj \in Nat /\ BlkEnd(s.blk[b]) \in Nat
          /\ s.blk[b].max16 \in Nat /\ BlkEnd(s.blk[b]) = s.blk[b].addrK + s.blk[b].max16 * ChunkK
      BY <2>4, BlkEndNat DEF Desc, BlkEnd
    <3>3. ChunkK <= s.blk[b].max16 * ChunkK /\ ChunkK \in Nat /\ ChunkK > 0
      <4>1. 1 * ChunkK <= s.blk[b].max16 * ChunkK
        BY <2>5, <3>2, ChunksMonotone
      <4>2. 1 * ChunkK = ChunkK /\ ChunkK \in Nat /\ ChunkK > 0
        BY Sizes
      <4> QED BY <4>1, <4>2
    <3>4. s.blk[b].max16 * ChunkK \in Nat
      BY <2>4, BlkEndNat
    <3> QED BY <2>5, <3>1, <3>2, <3>3, <3>4 DEF Ends
  <2>7. PoolTab(u) /\ KeepsOthers(s.t, u, o)
    BY <1>1, <2>5, <2>6, FreeEMBGood DEF KeepsOthers
  <2> HIDE DEF u
  <2>8. size[PoolBlocks] \in Int
    <3>1. ASSUME NEW c \in Blk PROVE w(c) \in Int
      <4>1. s.blk[c].max16 \in Nat /\ PPC \in Nat
        BY <1>1, Sizes DEF Desc
      <4>2. s.blk[c].max16 * PPC \in Int
        BY <4>1
      <4> QED BY <4>2
    <3> DEFINE X == Int
    <3>2. StepsIn(F, PoolBlocks, X) /\ 0 \in X
      BY <1>2, <3>1 DEF StepsIn
    <3> HIDE DEF X
    <3>3. PICK f : Iterates(f, F, PoolBlocks, X, 0)
      <4> HIDE DEF F
      <4> QED BY <1>2, <3>2, Iterated
    <3>4. f \in [0 .. PoolBlocks -> Int] /\ f[0] = 0 /\ \A c \in 1 .. PoolBlocks : f[c] = F[c][f[c - 1]]
      BY <3>3 DEF Iterates, X
    <3> HIDE DEF w
    <3>5. \A c \in 1 .. PoolBlocks : f[c - 1] \in Int
      BY <1>2, <3>4
    <3>6. \A c \in 1 .. PoolBlocks : f[c] = f[c - 1] + w(c)
      BY <3>4, <3>5
    <3>7. Rec(f)
      BY <1>2, <3>4, <3>6
    <3>8. Rec(size)
      BY <2>1, <3>7
    <3>9. size[0] = 0 /\ \A c \in 1 .. PoolBlocks : size[c] = size[c - 1] + w(c)
      <4>1. \A c \in 0 .. PoolBlocks : size[c] = IF c = 0 THEN 0 ELSE size[c - 1] + w(c)
        BY <3>8
      <4>2. 0 \in 0 .. PoolBlocks /\ \A c \in 1 .. PoolBlocks : c \in 0 .. PoolBlocks /\ c # 0
        BY <1>2
      <4> QED BY <4>1, <4>2
    <3>10. size[0] \in X /\ \A c \in 1 .. PoolBlocks : size[c - 1] \in X => size[c] \in X
      BY <1>2, <3>1, <3>9 DEF X
    <3>11. \A c \in 0 .. PoolBlocks : size[c] \in X
      BY <1>2, <3>10, StaysIn
    <3> QED BY <1>2, <3>11 DEF X
  <2>9. /\ last \in 0 .. PoolBlocks
        /\ \A c \in rest : c <= last
    <3>1. rest \in SUBSET Nat /\ \A c \in rest : c \in 1 .. PoolBlocks
      BY <1>1, <1>2 DEF InUse
    <3> HIDE DEF rest
    <3>2. CASE rest = {}
      BY <1>2, <3>2
    <3>3. CASE rest # {}
      <4>1. \A c \in rest : c <= PoolBlocks
        BY <1>2, <3>1
      <4>2. \E c \in rest : \A d \in rest : d <= c
        BY <1>2, <3>1, <3>3, <4>1, GreatestNat
      <4>3. last \in rest /\ \A d \in rest : d <= last
        BY <3>3, <4>2
      <4> HIDE DEF last
      <4>4. last \in 0 .. PoolBlocks
        BY <1>2, <3>1, <4>3
      <4> QED BY <4>3, <4>4
    <3> QED BY <3>2, <3>3
  <2> HIDE DEF last
  <2>10. new \in [Blk -> Desc]
    BY <1>1, Blocks
  <2>11. /\ r \in PoolStates /\ r.t = u /\ r.blk = new /\ r.end = last
    <3>1. u \in [Hdl -> Emb]
      BY <2>7, TabFacts
    <3> HIDE DEF new
    <3> QED BY <1>1, <2>2, <2>8, <2>9, <2>10, <3>1 DEF PoolStates
  <2>12. SysKept(u)
    BY <1>1, <2>5, <2>7, SysHandle DEF SysKept, KeepsOthers, Ends
  <2>13. ASSUME NEW c \in Blk, r.blk[c].addrK # 0
         PROVE  /\ r.blk[c] = s.blk[c] /\ c <= r.end /\ Inside(u, s.blk[c])
    <3>1. c \notin own /\ r.blk[c] = s.blk[c] /\ s.blk[c].addrK # 0
      BY <2>11, <2>13 DEF Unused
    <3>2. c \in 1 .. s.end /\ Inside(s.t, s.blk[c])
      BY <3>1, ActiveFacts
    <3>3. c \in rest
      BY <3>1, <3>2 DEF InUse
    <3>4. s.blk[c].owner # o
      BY <3>1, <3>3
    <3>5. s.blk[c].fixed \/ u[s.blk[c].owner] = s.t[s.blk[c].owner]
      BY <2>7, <3>2, <3>4 DEF Inside, KeepsOthers
    <3> HIDE DEF rest, own
    <3> QED BY <2>9, <2>11, <3>1, <3>2, <3>3, <3>5, InsideKept
  <2>14. Placed(r)
    <3> SUFFICES ASSUME NEW c \in Blk
                 PROVE  \/ r.blk[c] = Unused
                        \/ r.blk[c].addrK # 0 /\ c <= r.end /\ Inside(r.t, r.blk[c])
      BY DEF Placed
    <3>1. r.blk[c] = Unused \/ r.blk[c] = s.blk[c]
      BY <2>11
    <3>2. r.blk[c].addrK = 0 => r.blk[c] = Unused
      BY <1>1, <3>1 DEF Placed
    <3> HIDE DEF new, own, rest
    <3> QED BY <2>11, <2>13, <3>2
  <2>15. Spread(r)
    BY <1>1, <2>13 DEF Spread
  <2>16. PoolSound(r) /\ KeepsOthers(s.t, r.t, o)
    BY <2>7, <2>11, <2>12, <2>14, <2>15 DEF PoolSound
  <2> QED BY <2>3, <2>16 DEF r
<1> QED BY <1>3, <1>4

-----------------------------------------------------------------------------
(* The steps of the pool.                                                  *)

PInv == /\ PoolSound(State)
        /\ lastAlloc \in 0 .. PoolBlocks /\ lastFreed \in 0 .. PoolBlocks
        /\ ems \subseteq Blk \X Int

(* The blocks of XMS clients stay as they are in table u.                  *)
SparesClients(u) == \A i \in Hdl \ PoolHdl : h[i].flags = "USED" => u[i] = h[i]

LEMMA OwnerInPoolHdl ==
  ASSUME NEW u, NEW b \in Blk, blk[b].addrK # 0, ~blk[b].fixed, KeepsOthers(h, u, blk[b].owner)
  PROVE  SparesClients(u)
  BY DEF SparesClients, KeepsOthers, PoolHdl

LEMMA FirstBlock ==
  ASSUME NEW n \in 0 .. PoolBlocks, NEW S \in SUBSET (1 .. n), S # {}
  PROVE  First(S) \in S /\ First(S) \in Blk
<1>1. S \in SUBSET Nat /\ \A b \in S : b \in Blk
  BY Blocks
<1> QED BY <1>1, FirstIsLeast

LEMMA ReadyGood ==
  ASSUME PoolSound(State), NEW four \in BOOLEAN
  PROVE  PoolSound(Ready(four)) /\ SparesClients(Ready(four).t)
<1> DEFINE S == Expandable(State)
<1>1. State.t = h /\ State.blk = blk /\ State.end = end /\ end \in 0 .. PoolBlocks
  BY DEF State, PoolSound, PoolStates
<1>2. CASE WithSpace(State, four) # {}
  BY <1>1, <1>2 DEF Ready, SparesClients
<1>3. CASE WithSpace(State, four) = {} /\ S # {}
  <2>1. Ready(four) = ExpandBlock(State, First(S))
    BY <1>3 DEF Ready, Refill
  <2>2. S \in SUBSET (1 .. end)
    BY <1>1 DEF Expandable
  <2>3. First(S) \in S /\ First(S) \in Blk
    BY <1>1, <1>3, <2>2, FirstBlock
  <2> DEFINE b == First(S)
  <2>4. /\ PoolSound(ExpandBlock(State, b)) /\ State.blk[b].addrK # 0 /\ ~State.blk[b].fixed
        /\ KeepsOthers(State.t, ExpandBlock(State, b).t, State.blk[b].owner)
    <3> HIDE DEF b
    <3> QED BY <2>3, ExpandGood DEF b
  <2> HIDE DEF b
  <2>5. SparesClients(ExpandBlock(State, b).t)
    BY <1>1, <2>3, <2>4, OwnerInPoolHdl DEF b
  <2> QED BY <2>1, <2>4, <2>5 DEF b
<1>4. CASE WithSpace(State, four) = {} /\ S = {} /\ CanTakeEmb(State)
  <2>1. Ready(four) = TakeEmb(State)
    BY <1>4 DEF Ready, Refill
  <2> QED BY <1>1, <1>4, <2>1, TakeEmbGood DEF SparesClients
<1>5. CASE WithSpace(State, four) = {} /\ S = {} /\ ~CanTakeEmb(State)
  <2>1. Ready(four) = State
    BY <1>5 DEF Ready, Refill
  <2> QED BY <1>1, <2>1 DEF SparesClients
<1> QED BY <1>2, <1>3, <1>4, <1>5

LEMMA SpaceIsActive ==
  ASSUME NEW s, PoolSound(s), NEW b \in Blk, NEW four \in BOOLEAN, Has(s.blk[b], four)
  PROVE  s.blk[b].addrK # 0
  BY DEF PoolSound, Placed, Has, Unused

LEMMA FromActive ==
  ASSUME PInv, NEW four \in BOOLEAN, WithSpace(Ready(four), four) # {}
  PROVE  LET b == From(Ready(four), four)
         IN  b \in Blk /\ Ready(four).blk[b].addrK # 0
<1> DEFINE s == Ready(four)
           W == WithSpace(s, four)
           b == From(s, four)
<1>1. PoolSound(s) /\ s.end \in 0 .. PoolBlocks
  BY ReadyGood DEF PInv, PoolSound, PoolStates
<1>2. First(W) \in W /\ First(W) \in Blk
  <2>1. W \in SUBSET (1 .. s.end)
    BY DEF WithSpace
  <2> HIDE DEF s, W
  <2> QED BY <1>1, <2>1, FirstBlock DEF W, s
<1>3. Has(s.blk[First(W)], four)
  BY <1>2 DEF WithSpace
<1>4. b \in Blk /\ Has(s.blk[b], four)
  <2>1. CASE WithSpace(State, four) # {}
    <3>1. s = State /\ b = Pick(State, four)
      BY <2>1 DEF Ready, From
    <3> HIDE DEF W, b, s
    <3>2. CASE lastAlloc # 0 /\ Has(State.blk[lastAlloc], four)
      <4>1. b = lastAlloc
        BY <3>1, <3>2 DEF Pick
      <4> QED BY <3>1, <3>2, <4>1, Blocks DEF PInv
    <3>3. CASE ~(lastAlloc # 0 /\ Has(State.blk[lastAlloc], four)) /\ lastFreed # 0 /\ Has(State.blk[lastFreed], four)
      <4>1. b = lastFreed
        BY <3>1, <3>3 DEF Pick
      <4> QED BY <3>1, <3>3, <4>1, Blocks DEF PInv
    <3>4. CASE ~(lastAlloc # 0 /\ Has(State.blk[lastAlloc], four)) /\ ~(lastFreed # 0 /\ Has(State.blk[lastFreed], four))
      <4>1. b = First(W)
        BY <3>1, <3>4 DEF Pick, W
      <4> QED BY <1>2, <1>3, <4>1
    <3> QED BY <3>2, <3>3, <3>4
  <2>2. CASE WithSpace(State, four) = {}
    <3>1. b = First(W)
      BY <2>2 DEF From
    <3> HIDE DEF W, b, s
    <3> QED BY <1>2, <1>3, <3>1
  <2> QED BY <2>1, <2>2
<1> HIDE DEF b, s
<1>5. s.blk[b].addrK # 0
  BY <1>1, <1>4, SpaceIsActive
<1> QED BY <1>4, <1>5 DEF b, s

LEMMA Committed ==
  ASSUME NEW s, PoolSound(s), Commit(s)
  PROVE  State' = s /\ PoolSound(State')
<1>1. s \in PoolStates
  BY DEF PoolSound
<1>2. s = [t |-> s.t, blk |-> s.blk, end |-> s.end, total |-> s.total, embs |-> s.embs]
  BY <1>1 DEF PoolStates
<1>3. State' = [t |-> h', blk |-> blk', end |-> end', total |-> total', embs |-> embs']
  BY DEF State
<1>4. State' = s
  BY <1>2, <1>3 DEF Commit
<1> QED BY <1>4

(* Pool_Allocate4KPage and Pool_Allocate16KPage change the bitmap and the  *)
(* counters of one block.                                                  *)
LEMMA PagesAreNat ==
  ASSUME NEW k \in Desc
  PROVE  FreePages(k) \in SUBSET Nat /\ FreeChunks(k) \in SUBSET Nat
<1>1. Searched(k) \in SUBSET Nat /\ PPC \in Nat /\ PPC > 0
  BY Sizes DEF Searched
<1>2. \A c \in Nat : ChunkPages(c) \in SUBSET Nat
  <2> TAKE c \in Nat
  <2>1. c * PPC \in Nat
    BY <1>1
  <2> QED BY <1>1, <2>1 DEF ChunkPages
<1> QED BY <1>1, <1>2 DEF FreePages, FreeChunks

LEMMA Give4KGood ==
  ASSUME NEW s, PoolSound(s), NEW b \in Blk, s.blk[b].addrK # 0, Give4K(s, b)
  PROVE  PoolSound(State') /\ h' = s.t /\ lastAlloc' \in 0 .. PoolBlocks
<1> DEFINE k == s.blk[b]
           p == First(FreePages(k))
           whole == ChunkPages(p \div PPC) \cap k.bits = {}
           B == k.bits \cup {p}
           n == IF whole THEN k.free16 - 1 ELSE k.free16
           r == Recounted(s, b, B, k.free4 - 1, n)
<1>1. k \in Desc
  BY DEF PoolSound, PoolStates
<1>2. Commit(r) /\ FreePages(k) # {} /\ lastAlloc' = b
  BY DEF Give4K
<1>3. p \in Nat
  BY <1>1, <1>2, PagesAreNat, FirstIsLeast
<1> HIDE DEF p, whole
<1>4. B \in SUBSET Int /\ k.free4 - 1 \in Int /\ n \in Int
  <2>1. k.bits \in SUBSET Int /\ k.free4 \in Int /\ k.free16 \in Int
    BY <1>1 DEF Desc
  <2> HIDE DEF k
  <2> QED BY <1>3, <2>1
<1> HIDE DEF B, n
<1>5. PoolSound(r) /\ r.t = s.t
  BY <1>4, Recount
<1> HIDE DEF r
<1>6. PoolSound(State') /\ h' = r.t
  BY <1>2, <1>5, Committed DEF Commit
<1> QED BY <1>2, <1>5, <1>6, Blocks

LEMMA Give16KGood ==
  ASSUME NEW s, PoolSound(s), NEW b \in Blk, s.blk[b].addrK # 0, Give16K(s, b)
  PROVE  /\ PoolSound(State') /\ h' = s.t /\ lastAlloc' \in 0 .. PoolBlocks
         /\ ems \subseteq Blk \X Int => ems' \subseteq Blk \X Int
<1> DEFINE k == s.blk[b]
           c == First(FreeChunks(k))
           B == k.bits \cup ChunkPages(c)
           r == Recounted(s, b, B, k.free4 - PPC, k.free16 - 1)
<1>1. k \in Desc
  BY DEF PoolSound, PoolStates
<1>2. Commit(r) /\ FreeChunks(k) # {} /\ lastAlloc' = b /\ ems' = ems \cup {<<b, c>>}
  BY DEF Give16K
<1>3. c \in Nat
  BY <1>1, <1>2, PagesAreNat, FirstIsLeast
<1> HIDE DEF c
<1>4. B \in SUBSET Int /\ k.free4 - PPC \in Int /\ k.free16 - 1 \in Int
  <2>1. k.bits \in SUBSET Int /\ k.free4 \in Int /\ k.free16 \in Int
    BY <1>1 DEF Desc
  <2>2. ChunkPages(c) \in SUBSET Int /\ PPC \in Int
    BY <1>3, ChunkPagesAreInts, Sizes
  <2> HIDE DEF k
  <2> QED BY <2>1, <2>2
<1> HIDE DEF B
<1>5. PoolSound(r) /\ r.t = s.t
  BY <1>4, Recount
<1> HIDE DEF r
<1>6. PoolSound(State') /\ h' = r.t
  BY <1>2, <1>5, Committed DEF Commit
<1>7. <<b, c>> \in Blk \X Int
  BY <1>3
<1> QED BY <1>2, <1>5, <1>6, <1>7, Blocks

(* A free in block b.                                                      *)
LEMMA FreedGood ==
  ASSUME PInv, NEW b \in Blk, blk[b].addrK # 0, NEW B \in SUBSET Int, NEW n4 \in Int,
         NEW n16 \in Int, NEW r, r = Recounted(State, b, B, n4, n16)
  PROVE  /\ PoolSound(r) /\ SparesClients(r.t)
         /\ PoolSound(TryFreeToXMS(r, b)) /\ SparesClients(TryFreeToXMS(r, b).t)
<1>1. PoolSound(State) /\ State.blk = blk /\ State.t = h
  BY DEF State, PInv
<1>2. PICK s : s = State
  OBVIOUS
<1>3. PoolSound(s) /\ s.blk[b].addrK # 0 /\ r = Recounted(s, b, B, n4, n16)
  BY <1>1, <1>2
<1>4. /\ PoolSound(r) /\ r.t = s.t /\ r.blk[b].addrK = s.blk[b].addrK
      /\ r.blk[b].owner = s.blk[b].owner /\ r.blk[b].fixed = s.blk[b].fixed
  BY <1>3, Recount
<1>5. /\ PoolSound(r) /\ r.t = h /\ r.blk[b].addrK # 0
      /\ r.blk[b].owner = blk[b].owner /\ r.blk[b].fixed = blk[b].fixed
  BY <1>1, <1>2, <1>4
<1>6. SparesClients(r.t)
  BY <1>5 DEF SparesClients
<1>7. /\ PoolSound(TryFreeToXMS(r, b))
      /\ KeepsOthers(r.t, TryFreeToXMS(r, b).t, r.blk[b].owner)
      /\ r.blk[b].fixed => TryFreeToXMS(r, b).t = r.t
  BY <1>5, TryFreeGood
<1>8. CASE blk[b].fixed
  BY <1>5, <1>6, <1>7, <1>8
<1>9. CASE ~blk[b].fixed
  <2>1. KeepsOthers(h, TryFreeToXMS(r, b).t, blk[b].owner)
    BY <1>5, <1>7
  <2>2. SparesClients(TryFreeToXMS(r, b).t)
    BY <1>9, <2>1, OwnerInPoolHdl
  <2> QED BY <1>5, <1>6, <1>7, <2>2
<1> QED BY <1>8, <1>9

LEMMA BitsMeanActive ==
  ASSUME PInv, NEW b \in Blk, blk[b].bits # {}
  PROVE  blk[b].addrK # 0
  BY DEF PInv, PoolSound, Placed, State, Unused

LEMMA Free4KGood ==
  ASSUME PInv, NEW b \in Blk, NEW p, Free4K(b, p)
  PROVE  PoolSound(State') /\ SparesClients(h') /\ lastFreed' \in 0 .. PoolBlocks
<1> DEFINE B == blk[b].bits \ {p}
           n4 == blk[b].free4 + 1
           n == blk[b].free16
           r1 == Returned4K(b, p, n)
           r2 == Returned4K(b, p, n + 1)
<1>1. blk[b] \in Desc /\ blk[b].addrK # 0
  BY BitsMeanActive DEF Free4K, PInv, PoolSound, PoolStates, State
<1>2. B \in SUBSET Int /\ n4 \in Int /\ n \in Int /\ n + 1 \in Int
  BY <1>1 DEF Desc
<1>3. r1 = Recounted(State, b, B, n4, n) /\ r2 = Recounted(State, b, B, n4, n + 1)
  BY DEF Returned4K
<1>4. Commit(r1) \/ Commit(TryFreeToXMS(r2, b))
  BY DEF Free4K
<1> HIDE DEF B, n4, n, r1, r2
<1>5. PoolSound(r1) /\ SparesClients(r1.t)
  BY <1>1, <1>2, <1>3, FreedGood
<1>6. PoolSound(TryFreeToXMS(r2, b)) /\ SparesClients(TryFreeToXMS(r2, b).t)
  BY <1>1, <1>2, <1>3, FreedGood
<1>7. PoolSound(State') /\ SparesClients(h')
  BY <1>4, <1>5, <1>6, Committed DEF Commit
<1> QED BY <1>7, Blocks DEF Free4K

LEMMA ReleaseGood ==
  ASSUME PInv, NEW x \in ems, EmsReleasePage(x)
  PROVE  PoolSound(State') /\ SparesClients(h') /\ lastFreed' \in 0 .. PoolBlocks
<1> DEFINE b == x[1]
           B == blk[b].bits \ ChunkPages(x[2])
           n4 == blk[b].free4 + PPC
           n == blk[b].free16 + 1
           r == Recounted(State, b, B, n4, n)
<1>1. b \in Blk /\ x[2] \in Int
  BY DEF PInv
<1>2. blk[b] \in Desc
  BY <1>1 DEF PInv, PoolSound, PoolStates, State
<1>3. /\ ChunkPages(x[2]) \subseteq blk[b].bits /\ Commit(TryFreeToXMS(r, b)) /\ lastFreed' = b
  BY DEF EmsReleasePage
<1>4. ChunkPages(x[2]) # {}
  <2>1. x[2] * PPC \in Int /\ PPC \in Nat /\ PPC > 0
    BY <1>1, Sizes
  <2>2. x[2] * PPC \in ChunkPages(x[2])
    BY <2>1 DEF ChunkPages
  <2> QED BY <2>2
<1> HIDE DEF b
<1>5. blk[b].addrK # 0
  BY <1>1, <1>3, <1>4, BitsMeanActive
<1>6. B \in SUBSET Int /\ n4 \in Int /\ n \in Int
  BY <1>2, Sizes DEF Desc
<1> HIDE DEF B, n4, n
<1>7. PoolSound(TryFreeToXMS(r, b)) /\ SparesClients(TryFreeToXMS(r, b).t)
  BY <1>1, <1>5, <1>6, FreedGood
<1> HIDE DEF r
<1>8. PoolSound(State') /\ SparesClients(h')
  BY <1>3, <1>7, Committed DEF Commit
<1> QED BY <1>1, <1>3, <1>8, Blocks

-----------------------------------------------------------------------------
(* The calls of XMS clients leave the holders of the pool's blocks and the *)
(* monitor's EMB alone: an allocation makes a block used that was not, the *)
(* other calls change the client's own block.                              *)

LEMMA XmsCallSpares ==
  ASSUME PInv, XmsCall
  PROVE  PoolTab(h') /\ \A i \in PoolHdl \cup {SysHdl} : i \in Hdl /\ h'[i] = h[i]
<1>1. PoolSound(State) /\ State.t = h /\ State.blk = blk
  BY DEF PInv, State
<1>2. PICK M \in SUBSET Ram : Good(h, M)
  BY <1>1 DEF PoolSound, PoolTab
<1>3. Good(h', M)
  <2>1. Next
    <3>1. CASE \E sz \in ReqSizes : AllocEmb(sz, FALSE)
      BY <3>1 DEF Next
    <3>2. CASE \E i \in ClientHdl : FreeEmb(i)
      BY <3>2 DEF Next, ClientHdl
    <3>3. CASE \E i \in ClientHdl, sz \in ReqSizes : ReallocEmb(i, sz)
      BY <3>3 DEF Next, ClientHdl, ReallocEmb
    <3> QED BY <3>1, <3>2, <3>3 DEF XmsCall
  <2> QED BY <1>2, <2>1, NextGood
<1>4. \A i \in PoolHdl \cup {SysHdl} : i \in Hdl /\ h[i].flags = "USED"
  <2> TAKE i \in PoolHdl \cup {SysHdl}
  <2>1. CASE i = SysHdl
    BY <1>1, <2>1, SysHandle DEF PoolSound, SysKept
  <2>2. CASE i \in PoolHdl
    <3>1. PICK b \in Blk : blk[b].addrK # 0 /\ ~blk[b].fixed /\ i = blk[b].owner
      BY <2>2 DEF PoolHdl
    <3>2. HolderOf(blk[b]) = i
      BY <3>1 DEF HolderOf
    <3> QED BY <1>1, <3>1, <3>2, ActiveFacts
  <2> QED BY <2>1, <2>2
<1>5. ASSUME NEW i \in PoolHdl \cup {SysHdl} PROVE h'[i] = h[i]
  <2>1. CASE \E sz \in ReqSizes : AllocEmb(sz, FALSE)
    <3>1. PICK sz \in ReqSizes : AllocEmb(sz, FALSE)
      BY <2>1
    <3>2. h[AllocHdl(h, sz, FALSE)].flags # "USED" /\ Keeps(AllocHdl(h, sz, FALSE))
      BY <1>2, <3>1, AllocStepKeeps
    <3> QED BY <1>4, <3>2 DEF Keeps
  <2>2. CASE \E j \in ClientHdl : FreeEmb(j) \/ \E sz \in ReqSizes : ReallocEmb(j, sz)
    <3>1. PICK j \in ClientHdl : FreeEmb(j) \/ \E sz \in ReqSizes : ReallocEmb(j, sz)
      BY <2>2
    <3>2. j \in Hdl /\ j # i
      BY DEF ClientHdl
    <3>3. Keeps(j)
      BY <1>2, <3>1, <3>2, CallKeeps
    <3> QED BY <1>4, <3>2, <3>3 DEF Keeps
  <2> QED BY <2>1, <2>2 DEF XmsCall
<1> QED BY <1>2, <1>3, <1>4, <1>5 DEF PoolTab

LEMMA XmsCallGood ==
  ASSUME PInv, XmsCall
  PROVE  PInv'
<1> DEFINE s == State
           r == State'
<1>1. /\ PoolSound(s) /\ s.t = h /\ s.blk = blk /\ s.end = end /\ s.total = total /\ s.embs = embs
      /\ s \in PoolStates
  BY DEF PInv, State, PoolSound
<1>2. r.t = h' /\ r.blk = blk /\ r.end = end /\ r.total = total /\ r.embs = embs
      /\ r = [t |-> h', blk |-> blk, end |-> end, total |-> total, embs |-> embs]
  BY DEF XmsCall, State, pool
<1>3. PoolTab(h') /\ \A i \in PoolHdl \cup {SysHdl} : i \in Hdl /\ h'[i] = h[i]
  BY XmsCallSpares
<1>4. h' \in [Hdl -> Emb]
  BY <1>3, TabFacts
<1>5. r \in PoolStates
  BY <1>1, <1>2, <1>4 DEF PoolStates
<1>6. SysKept(h')
  BY <1>1, <1>3 DEF PoolSound, SysKept, Ends
<1>7. Placed(r)
  <2> SUFFICES ASSUME NEW b \in Blk, blk[b] # Unused
               PROVE  blk[b].addrK # 0 /\ b <= end /\ Inside(h', blk[b])
    BY <1>2 DEF Placed
  <2>1. blk[b].addrK # 0 /\ b <= end /\ Inside(h, blk[b])
    BY <1>1 DEF PoolSound, Placed
  <2>2. ~blk[b].fixed => blk[b].owner \in PoolHdl
    BY <2>1 DEF PoolHdl
  <2> QED BY <1>3, <2>1, <2>2, InsideKept
<1>8. Spread(r)
  BY <1>1, <1>2 DEF PoolSound, Spread
<1>9. PoolSound(r)
  BY <1>2, <1>3, <1>5, <1>6, <1>7, <1>8 DEF PoolSound
<1> QED BY <1>9 DEF PInv, XmsCall, pool

LEMMA PoolStepGood ==
  ASSUME PInv, VcpiAllocate4K \/ EmsAllocatePage \/ (\E x \in vcpi : VcpiFree4K(x))
               \/ (\E x \in ems : EmsReleasePage(x))
  PROVE  PInv' /\ SparesClients(h')
<1>1. CASE VcpiAllocate4K
  <2> DEFINE s == Ready(TRUE)
             b == From(s, TRUE)
  <2>1. Give4K(s, b) /\ WithSpace(s, TRUE) # {}
    BY <1>1 DEF VcpiAllocate4K, Give4K
  <2>2. PoolSound(s) /\ SparesClients(s.t) /\ b \in Blk /\ s.blk[b].addrK # 0
    BY <2>1, ReadyGood, FromActive DEF PInv
  <2>3. lastFreed' = lastFreed /\ ems' = ems
    BY <2>1 DEF Give4K
  <2> HIDE DEF s, b
  <2>4. PoolSound(State') /\ h' = s.t /\ lastAlloc' \in 0 .. PoolBlocks
    BY <2>1, <2>2, Give4KGood
  <2> QED BY <2>2, <2>3, <2>4 DEF PInv
<1>2. CASE EmsAllocatePage
  <2> DEFINE s == Ready(FALSE)
             b == From(s, FALSE)
  <2>1. Give16K(s, b) /\ WithSpace(s, FALSE) # {}
    BY <1>2 DEF EmsAllocatePage, Give16K
  <2>2. PoolSound(s) /\ SparesClients(s.t) /\ b \in Blk /\ s.blk[b].addrK # 0
    BY <2>1, ReadyGood, FromActive DEF PInv
  <2>3. lastFreed' = lastFreed
    BY <2>1 DEF Give16K
  <2> HIDE DEF s, b
  <2>4. /\ PoolSound(State') /\ h' = s.t /\ lastAlloc' \in 0 .. PoolBlocks
        /\ ems \subseteq Blk \X Int => ems' \subseteq Blk \X Int
    BY <2>1, <2>2, Give16KGood
  <2> QED BY <2>2, <2>3, <2>4 DEF PInv
<1>3. CASE \E x \in vcpi : VcpiFree4K(x)
  <2>1. PICK x \in vcpi : VcpiFree4K(x)
    BY <1>3
  <2> DEFINE a == PageAddr(x)
             b == FindBlock(a)
  <2>2. /\ Managers(a) # {} /\ Free4K(b, (a - blk[b].addrK) \div PageK)
        /\ lastAlloc' = lastAlloc /\ ems' = ems
    BY <2>1 DEF VcpiFree4K
  <2>3. b \in Blk
    <3> HIDE DEF a
    <3>1. end \in 0 .. PoolBlocks /\ Managers(a) \in SUBSET (1 .. end)
      BY DEF PInv, PoolSound, PoolStates, State, Managers
    <3>2. First(Managers(a)) \in Blk
      BY <2>2, <3>1, FirstBlock
    <3>3. /\ lastFreed # 0 => lastFreed \in Blk
          /\ lastAlloc # 0 => lastAlloc \in Blk
      BY Blocks DEF PInv
    <3> QED BY <3>2, <3>3 DEF FindBlock
  <2> HIDE DEF b
  <2>4. PoolSound(State') /\ SparesClients(h') /\ lastFreed' \in 0 .. PoolBlocks
    BY <2>2, <2>3, Free4KGood
  <2> QED BY <2>2, <2>4 DEF PInv
<1>4. CASE \E x \in ems : EmsReleasePage(x)
  <2>1. PICK x \in ems : EmsReleasePage(x)
    BY <1>4
  <2>2. PoolSound(State') /\ SparesClients(h') /\ lastFreed' \in 0 .. PoolBlocks
    BY <2>1, ReleaseGood
  <2>3. lastAlloc' = lastAlloc /\ ems' \subseteq ems
    BY <2>1 DEF EmsReleasePage
  <2> QED BY <2>2, <2>3 DEF PInv
<1> QED BY <1>1, <1>2, <1>3, <1>4

-----------------------------------------------------------------------------
(* Boot: the monitor takes its EMB from the first region, the pages left   *)
(* in it become the fixed block.                                           *)

LEMMA FirstTaken ==
  ASSUME NEW boot, NEW no \in BOOLEAN, Good(boot, Ram), NEW b \in Nat, NEW z \in Nat, boot[1] = FreeBlock(b, z),
         1 \in Hdl, AllocHdl(boot, SysK, no) = 1, SysK \in Nat, SysK <= z,
         NEW t, t = AllocTab(boot, SysK, no)
  PROVE  Good(t, Ram) /\ t[1].flags = "USED" /\ t[1].base = b /\ t[1].size \in SysK .. z
<1> DEFINE j == First(Blanks(boot))
<1>1. Good(t, Ram)
  <2>1. AllocHdl(boot, SysK, no) # 0
    OBVIOUS
  <2>2. Good(AllocTab(boot, SysK, no), Ram)
    BY <2>1, AllocGood
  <2> QED BY <2>2
<1>2. boot \in [Hdl -> Emb]
  BY DEF Good
<1>3. boot[1].base = b /\ boot[1].size = z /\ boot[1].flags = "FREE"
  BY DEF FreeBlock
<1>4. t[1] = UsedBlock(b, z) \/ t[1] = UsedBlock(b, SysK)
  <2>1. CASE z = SysK \/ Blanks(boot) = {}
    <3>1. t = [boot EXCEPT ![1] = UsedBlock(b, z)]
      BY <1>3, <2>1 DEF AllocTab
    <3> QED BY <1>2, <3>1
  <2>2. CASE ~(z = SysK \/ Blanks(boot) = {})
    <3>1. t = [boot EXCEPT ![1] = UsedBlock(b, SysK), ![j] = FreeBlock(b + SysK, z - SysK)]
      BY <1>3, <2>2 DEF AllocTab
    <3>2. j # 1
      BY <1>3, <2>2, FirstBlank
    <3> HIDE DEF j
    <3> QED BY <1>2, <3>1, <3>2
  <2> QED BY <2>1, <2>2
<1>5. t[1].flags = "USED" /\ t[1].base = b /\ (t[1].size = z \/ t[1].size = SysK)
  BY <1>4 DEF UsedBlock
<1>6. SysK \in SysK .. z /\ z \in SysK .. z
  OBVIOUS
<1> QED BY <1>1, <1>5, <1>6

LEMMA SysTaken ==
  ASSUME NEW t, t = SysTab
  PROVE  PoolTab(t) /\ SysKept(t)
<1>1. PICK b, z : b = Regions[1].base /\ z = Regions[1].size
  OBVIOUS
<1>2. PICK boot : boot = BootTab
  OBVIOUS
<1>3. PICK no \in BOOLEAN : /\ SysHdl = AllocHdl(BootTab, SysK, no)
                           /\ SysTab = AllocTab(BootTab, SysK, no)
  BY DEF SysHdl, SysTab
<1>4. Good(boot, Ram)
  BY <1>2, BootGood
<1>5. 1 \in Hdl /\ SysHdl = 1 /\ AllocHdl(boot, SysK, no) = 1 /\ boot[1] = FreeBlock(b, z)
  BY <1>3, <1>1, <1>2, SysHandle
<1>6. b \in Nat /\ z \in Nat
  <2>1. boot[1] \in Emb
    BY <1>4, <1>5 DEF Good
  <2> QED BY <1>5, <2>1 DEF FreeBlock, Emb
<1>7. b <= FixBase /\ FixEnd <= b + SysK /\ SysK <= z /\ SysK \in Nat
  BY <1>1, PoolAssumption DEF PoolSizes, FixEnd
<1>8. Good(t, Ram) /\ t[1].flags = "USED" /\ t[1].base = b /\ t[1].size \in SysK .. z
  BY <1>3, <1>2, <1>4, <1>5, <1>6, <1>7, FirstTaken
<1>9. FixEnd <= Ends(t, 1)
  <2>1. PICK n : n = t[1].size
    OBVIOUS
  <2>2. n \in Nat /\ SysK <= n /\ FixEnd \in Nat /\ Ends(t, 1) = b + n
    BY <1>6, <1>7, <1>8, <2>1, FixFacts DEF Ends
  <2> QED BY <1>6, <1>7, <2>2
<1>10. SysKept(t)
  BY <1>5, <1>7, <1>8, <1>9 DEF SysKept
<1>11. \E M \in SUBSET Ram : Good(t, M)
  <2>1. Ram \in SUBSET Ram
    OBVIOUS
  <2> QED BY <1>8, <2>1
<1> QED BY <1>10, <1>11 DEF PoolTab

LEMMA BootedGood == PoolSound(Booted)
<1> DEFINE size == FixPages * PageK
           s == [t |-> SysTab, blk |-> [b \in Blk |-> Unused],
                 end |-> 0, total |-> 0, embs |-> 0]
           r == AllocBlocksForEMB(s, 0, FixBase, size, TRUE)
<1>1. PICK t : t = SysTab
  OBVIOUS
<1>2. PoolTab(t) /\ SysKept(t) /\ t \in [Hdl -> Emb]
  BY <1>1, SysTaken, TabFacts
<1>3. PoolBlocks \in Nat /\ Unused \in Desc /\ NumHandles \in Nat
  BY Blocks, XmsAssumption
<1>4. /\ s \in PoolStates /\ s.t = t /\ \A b \in Blk : s.blk[b] = Unused /\ s.blk[b].addrK = 0
  <2> DEFINE B == [b \in Blk |-> Unused]
  <2>2. B \in [Blk -> Desc] /\ \A b \in Blk : B[b] = Unused
    BY <1>3
  <2>3. s = [t |-> t, blk |-> B, end |-> 0, total |-> 0, embs |-> 0]
    BY <1>1
  <2> HIDE DEF s, B
  <2>4. Unused.addrK = 0
    BY DEF Unused
  <2>5. s \in PoolStates
    BY <1>2, <1>3, <2>2, <2>3 DEF PoolStates
  <2> QED BY <2>2, <2>3, <2>4, <2>5
<1> HIDE DEF s
<1>5. /\ FixBase \in Nat /\ FixBase > 0 /\ size \in Nat /\ RoundUp(FixBase) = FixBase
      /\ FixEnd = FixBase + size
  BY FixFacts, RoundUpFacts
<1>6. Extended(r, s, 0, TRUE, FixBase, FixEnd, FixEnd)
  <2>1. 0 \in 0 .. NumHandles /\ RoundUp(FixBase) - FixBase + Need(TRUE) <= size
    BY <1>3, <1>5 DEF Need
  <2>2. \A b \in Blk : s.blk[b].addrK # 0 => b <= s.end
    BY <1>4
  <2> HIDE DEF size
  <2>3. Extended(AllocBlocksForEMB(s, 0, FixBase, size, TRUE), s, 0, TRUE,
                 FixBase, FixBase + size, FixBase + size)
    BY <1>4, <1>5, <2>1, <2>2, AllocBlocksGood
  <2> QED BY <1>5, <2>3
<1>7. Booted = r
  BY DEF Booted, s
<1> HIDE DEF r
<1>8. r \in PoolStates /\ r.t = t
  BY <1>4, <1>6 DEF Extended
<1>9. ASSUME NEW b \in Blk, r.blk[b] # Unused
      PROVE  Entered(r.blk[b], 0, TRUE, FixBase, FixEnd, FixEnd)
  BY <1>4, <1>6, <1>9 DEF Extended
<1>10. Placed(r)
  <2> SUFFICES ASSUME NEW b \in Blk, r.blk[b] # Unused
               PROVE  r.blk[b].addrK # 0 /\ b <= r.end /\ Inside(r.t, r.blk[b])
    BY DEF Placed
  <2> DEFINE k == r.blk[b]
  <2>1. Entered(k, 0, TRUE, FixBase, FixEnd, FixEnd)
    BY <1>9
  <2>2. k.addrK # 0 /\ b <= r.end
    <3>1. k \in Desc /\ k.addrK > 0
      BY <2>1 DEF Entered
    <3>2. k.addrK # 0
      <4> HIDE DEF k
      <4> QED BY <3>1 DEF Desc
    <3> QED BY <1>6, <3>2 DEF Extended
  <2>3. FixBase <= k.addrK
    <3>1. k.addrK \in Nat /\ k.startadj \in Nat /\ FixBase <= k.addrK - k.startadj
      BY <2>1 DEF Entered, Desc
    <3> HIDE DEF k
    <3> QED BY <1>5, <3>1
  <2> HIDE DEF k
  <2>4. Inside(r.t, k)
    BY <2>1, <2>3 DEF Entered, Inside
  <2> QED BY <2>2, <2>4 DEF k
<1>11. Spread(r)
  BY <1>4, <1>6 DEF Spread, Extended
<1> QED BY <1>2, <1>7, <1>8, <1>10, <1>11 DEF PoolSound

LEMMA PoolInitGood ==
  ASSUME PoolInit
  PROVE  PInv
<1>1. PICK s : s = Booted
  OBVIOUS
<1>2. PoolSound(s)
  BY <1>1, BootedGood
<1>3. s = [t |-> s.t, blk |-> s.blk, end |-> s.end, total |-> s.total, embs |-> s.embs]
  BY <1>2 DEF PoolSound, PoolStates
<1>4. State = s
  BY <1>1, <1>3 DEF State, PoolInit
<1> QED BY <1>2, <1>4, Blocks DEF PInv, PoolInit

-----------------------------------------------------------------------------
(* The pool keeps its handle table and its blocks sound: PInv is inductive *)
(* (Pool_AllocBlocksForEMB, Pool_ExpandBlock, Pool_TryFreeToXMS).          *)
THEOREM PoolStaysSound == PoolSpec => []PInv
<1>1. PoolInit => PInv
  BY PoolInitGood
<1>2. PInv /\ [PoolNext]_vars => PInv'
  <2> SUFFICES ASSUME PInv, [PoolNext]_vars PROVE PInv'
    OBVIOUS
  <2>1. CASE XmsCall
    BY <2>1, XmsCallGood
  <2>2. CASE UNCHANGED vars
    BY <2>2 DEF PInv, vars, State
  <2>3. CASE VcpiAllocate4K \/ EmsAllocatePage \/ (\E x \in vcpi : VcpiFree4K(x))
             \/ (\E x \in ems : EmsReleasePage(x))
    BY <2>3, PoolStepGood
  <2> QED BY <2>1, <2>2, <2>3 DEF PoolNext
<1> QED BY <1>1, <1>2, PTL DEF PoolSpec

(* The pool's blocks, the monitor's EMB and the blocks of XMS clients stay *)
(* disjoint while the pool splits, grows, joins and frees blocks of the    *)
(* table that XMS calls work on.                                           *)
THEOREM PoolNoOverlap == PoolSpec => []NoOverlap
<1>1. PInv => NoOverlap
  BY TabFacts DEF PInv, PoolSound, State, NoOverlap
<1> QED BY <1>1, PoolStaysSound, PTL

(* No memory is managed twice: a pool block lies on page boundaries inside *)
(* an EMB that is in use and locked for it, no other handle has any of its *)
(* memory and no other pool block manages any of it.                       *)
THEOREM PoolBlocksApart == PoolSpec => []BlocksApart
<1>1. ASSUME PInv PROVE BlocksApart
  <2> SUFFICES ASSUME NEW b \in Active
               PROVE  LET i == HolderOf(blk[b])
                      IN  /\ h[i].flags = "USED" /\ (~blk[b].fixed => h[i].locks = 1)
                          /\ blk[b].addrK % PageK = 0
                          /\ \A a \in Span(b) : /\ a < SpanEnd(b)
                                               /\ \A j \in Hdl : Covers(h, j, a) <=> j = i
                                               /\ \A c \in Active \ {b} : a \notin Span(c)
                          /\ ~blk[b].fixed => h[i].base <= blk[b].addrK - blk[b].startadj
    BY DEF BlocksApart
  <2> DEFINE k == blk[b]
             i == HolderOf(k)
  <2>1. /\ PoolSound(State) /\ State.t = h /\ State.blk = blk /\ State.end = end
        /\ PoolTab(h) /\ Spread(State)
    BY <1>1 DEF PInv, State, PoolSound
  <2>2. \A c \in Active :
          /\ c \in Blk /\ blk[c].addrK # 0 /\ blk[c] \in Desc /\ Inside(h, blk[c])
          /\ HolderOf(blk[c]) \in Hdl /\ h[HolderOf(blk[c])].flags = "USED"
          /\ h[HolderOf(blk[c])].base <= blk[c].addrK
          /\ BlkEnd(blk[c]) <= Ends(h, HolderOf(blk[c]))
    BY <2>1, ActiveFacts DEF Active
  <2>3. \A c \in Active : /\ blk[c].addrK \in Nat /\ BlkEnd(blk[c]) \in Nat
                          /\ Span(c) = blk[c].addrK .. (BlkEnd(blk[c]) - 1)
    BY <2>2, BlkEndNat DEF Desc, Span, BlkEnd
  <2>4. ASSUME NEW c \in Active, NEW a \in Span(c)
        PROVE  a \in Nat /\ Covers(h, HolderOf(blk[c]), a)
    <3>1. /\ a \in Nat /\ blk[c].addrK <= a /\ a < BlkEnd(blk[c])
      BY <2>3
    <3>2. h[HolderOf(blk[c])].base \in Nat /\ h[HolderOf(blk[c])].size \in Nat
      BY <2>1, <2>2, TabFacts
    <3>3. /\ h[HolderOf(blk[c])].base <= a /\ a < Ends(h, HolderOf(blk[c]))
      <4>1. PICK base, size, top, low :
              /\ base = h[HolderOf(blk[c])].base /\ size = h[HolderOf(blk[c])].size
              /\ top = BlkEnd(blk[c]) /\ low = blk[c].addrK
        OBVIOUS
      <4>2. /\ base \in Nat /\ size \in Nat /\ top \in Nat /\ low \in Nat
            /\ base <= low /\ Ends(h, HolderOf(blk[c])) = base + size /\ top <= base + size
            /\ low <= a /\ a < top
        BY <2>2, <2>3, <3>1, <3>2, <4>1 DEF Ends
      <4> QED BY <3>1, <4>1, <4>2
    <3> QED BY <2>2, <3>1, <3>3 DEF Covers, Live
  <2>5. ASSUME NEW a \in Span(b)
        PROVE  /\ a < SpanEnd(b)
               /\ \A j \in Hdl : Covers(h, j, a) <=> j = i
               /\ \A c \in Active \ {b} : a \notin Span(c)
    <3>1. a \in Nat /\ Covers(h, i, a) /\ i \in Hdl
      BY <2>2, <2>4
    <3>2. \A j \in Hdl : Covers(h, j, a) <=> j = i
      BY <2>1, <3>1, TabFacts
    <3>3. ASSUME NEW c \in Active \ {b}, a \in Span(c) PROVE FALSE
      <4>1. Covers(h, HolderOf(blk[c]), a)
        BY <2>4, <3>3
      <4>2. HolderOf(blk[c]) = i
        BY <2>2, <3>2, <4>1
      <4>3. Separate(blk[b], blk[c])
        BY <2>1, <2>2, <4>2 DEF Spread
      <4>4. /\ blk[b].addrK <= a /\ a < BlkEnd(blk[b])
            /\ blk[c].addrK <= a /\ a < BlkEnd(blk[c])
        BY <2>3, <3>1, <3>3
      <4> QED BY <2>3, <3>1, <4>3, <4>4 DEF Separate
    <3>4. a < SpanEnd(b)
      <4>1. a < BlkEnd(k)
        BY <2>3, <3>1
      <4>2. CASE k.fixed
        <5>1. BlkEnd(k) <= FixEnd /\ SpanEnd(b) = FixEnd
          BY <2>2, <4>2 DEF Inside, SpanEnd, FixEnd
        <5> QED BY <2>3, <3>1, <4>1, <5>1, FixFacts
      <4>3. CASE ~k.fixed
        <5>1. BlkEnd(k) <= Ends(h, i) /\ SpanEnd(b) = Ends(h, i)
          BY <2>1, <2>2, <4>3 DEF HolderOf, SpanEnd, OwnerEnd, Ends
        <5>2. Ends(h, i) \in Nat
          BY <2>1, <3>1, TabFacts DEF Ends
        <5> QED BY <2>3, <3>1, <4>1, <5>1, <5>2
      <4> QED BY <4>2, <4>3
    <3> QED BY <3>2, <3>3, <3>4
  <2>6. /\ h[i].flags = "USED" /\ k.addrK % PageK = 0
        /\ ~k.fixed => h[i].locks = 1 /\ h[i].base <= k.addrK - k.startadj
    BY <2>2 DEF Inside, HolderOf
  <2> QED BY <2>5, <2>6
<1> QED BY <1>1, PoolStaysSound, PTL

(* On the handle table that they share, no request to the pool changes a   *)
(* block of an XMS client, and no XMS call one that the pool has taken.    *)
THEOREM PoolSparesClients == PoolSpec => [][ClientsApart]_vars
<1>1. ASSUME PInv, [PoolNext]_vars PROVE [ClientsApart]_vars
  <2>1. CASE XmsCall
    BY <1>1, <2>1, XmsCallSpares DEF ClientsApart
  <2>2. CASE UNCHANGED vars
    BY <2>2
  <2>3. CASE ~XmsCall /\ PoolNext
    <3>1. SparesClients(h')
      BY <1>1, <2>3, PoolStepGood DEF PoolNext
    <3>2. \A i \in ClientHdl : i \in Hdl \ PoolHdl /\ h[i].flags = "USED"
      BY DEF ClientHdl
    <3> QED BY <2>3, <3>1, <3>2 DEF SparesClients, ClientsApart
  <2> QED BY <1>1, <2>1, <2>2, <2>3
<1>2. PInv /\ [PoolNext]_vars => [ClientsApart]_vars
  BY <1>1
<1> QED BY <1>2, PoolStaysSound, PTL DEF PoolSpec

=============================================================================
